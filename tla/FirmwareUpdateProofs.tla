------------------------- MODULE FirmwareUpdateProofs -------------------------
(***************************************************************************)
(* Proofs about FirmwareUpdate, for every pool size, chunk size, packet    *)
(* size, image and interleaving.                                           *)
(*                                                                         *)
(* HandlerInv is what the connector thread's handlers keep by themselves;  *)
(* RingInv, which needs it, is what the two threads keep together until a  *)
(* start overlaps the firmware thread.  The properties follow from the     *)
(* two.                                                                    *)
(***************************************************************************)
EXTENDS FirmwareUpdate, TLAPS

\* Less than a chunk after a multiple of the chunk size, the position in the
\* chunk is the distance from that multiple (tail_offset % chunk_size).
LEMMA ModAdd ==
    ASSUME NEW c \in Nat, c > 0, NEW h \in Nat, h % c = 0, NEW x \in Nat, x < c
    PROVE  (h + x) % c = x
<1> DEFINE q == h \div c
           r == (h + x) \div c
           m == (h + x) % c
<1>1. h = c * q /\ q \in Int
  BY SMT
<1>2. h + x = c * r + m /\ r \in Int /\ m \in 0 .. (c - 1)
  BY SMT
<1> HIDE DEF q, r, m
<1>3. c * (q - r) = m - x
  BY <1>1, <1>2, SMT
<1>4. q - r = 0
  <2>1. CASE q - r >= 1
    <3>1. c * (q - r) >= c
      BY <1>1, <1>2, <2>1, SMT
    <3> QED BY <3>1, <1>3, <1>2, SMT
  <2>2. CASE q - r <= -1
    <3>1. c * (q - r) <= -c
      BY <1>1, <1>2, <2>2, SMT
    <3> QED BY <3>1, <1>3, <1>2, SMT
  <2> QED BY <2>1, <2>2, <1>1, <1>2, SMT
<1>5. c * (q - r) = 0
  BY <1>4, SMT
<1>6. m = x
  BY <1>3, <1>5, <1>2, SMT
<1> QED BY <1>6 DEF m

\* A whole chunk after a multiple of the chunk size is a multiple again.
LEMMA ModFull ==
    ASSUME NEW c \in Nat, c > 0, NEW h \in Nat, h % c = 0
    PROVE  (h + c) % c = 0
<1> DEFINE q == h \div c
           r == (h + c) \div c
           m == (h + c) % c
<1>1. h = c * q /\ q \in Int
  BY SMT
<1>2. h + c = c * r + m /\ r \in Int /\ m \in 0 .. (c - 1)
  BY SMT
<1> HIDE DEF q, r, m
<1>3. c * ((q + 1) - r) = m
  BY <1>1, <1>2, SMT
<1>4. (q + 1) - r = 0
  <2>1. CASE (q + 1) - r >= 1
    <3>1. c * ((q + 1) - r) >= c
      BY <1>1, <1>2, <2>1, SMT
    <3> QED BY <3>1, <1>3, <1>2, SMT
  <2>2. CASE (q + 1) - r <= -1
    <3>1. c * ((q + 1) - r) <= -c
      BY <1>1, <1>2, <2>2, SMT
    <3> QED BY <3>1, <1>3, <1>2, SMT
  <2> QED BY <2>1, <2>2, <1>1, <1>2, SMT
<1>5. c * ((q + 1) - r) = 0
  BY <1>4, SMT
<1> QED BY <1>3, <1>5 DEF m

-----------------------------------------------------------------------------
\* The ring has a slot 0, where head and tail start.
LEMMA SlotsNonEmpty == 0 \in Slots
BY PoolAssumption DEF Slots

\* Moving head or tail stays inside the pool.
LEMMA NextSlotType ==
    ASSUME NEW s \in Slots
    PROVE  NextSlot(s) \in Slots
BY PoolAssumption DEF Slots, NextSlot

\* A freed buffer and one just allocated with a chunk size are buffers.
LEMMA BufferTypes ==
    /\ IsBuffer(NULL)
    /\ \A n \in AllChunkSizes : IsBuffer(Malloc(n))
<1>1. NULL \in [0 .. (0 - 1) -> Int]
  BY SMT DEF NULL, Garbage
<1>2. ASSUME NEW n \in AllChunkSizes PROVE Malloc(n) \in [0 .. (n - 1) -> Int]
  BY SMT DEF Malloc, Garbage
<1> QED BY <1>1, <1>2 DEF IsBuffer

\* ccxapi_start establishes the handlers' bookkeeping.
LEMMA HandlerInit == Init => HandlerInv
<1> SUFFICES ASSUME Init PROVE HandlerInv
  OBVIOUS
<1> USE PoolAssumption, ChunkAssumption, TargetsAssumption, SlotsNonEmpty
<1>1. OffsetsOK
  BY DEF Init, OffsetsOK
<1>2. RingOK
  BY DEF Init, InitThread, RingOK, EmptyChunk, Chunks
<1>3. BuffersOK
  BY BufferTypes DEF Init, BuffersOK
<1>4. ThreadOK /\ CountersOK
  BY DEF Init, InitThread, ThreadOK, CountersOK
<1>5. RequestOK
  BY DEF Init, RequestOK, NoReq
<1>6. FlagsOK
  BY DEF Init, FlagsOK
<1>7. ThreadState /\ Buffered /\ HeadOffsets /\ Packet
  BY DEF Init, InitThread, ThreadState, Buffered, HeadOffsets, Packet
<1> QED BY <1>1, <1>2, <1>3, <1>4, <1>5, <1>6, <1>7 DEF HandlerInv, TypeOK

-----------------------------------------------------------------------------
\* What the answer to a request and the absence of one mean for req.
LEMMA AnswerType ==
    ASSUME RequestOK, NEW cb, NEW st, Answer(cb, st)
    PROVE  RequestOK' /\ (req' = NoReq \/ req' = req)
<1>1. NoReq \in [op : BusyOps \cup {"none"}, target : Targets \cup {BadTarget},
                 offset : Nat, size : Nat]
  BY DEF NoReq
<1> QED BY <1>1 DEF Answer, RequestOK

\* `No request pending' is a value of req, and none of the operations.
LEMMA NoReqType ==
    /\ NoReq \in [op : BusyOps \cup {"none"}, target : Targets \cup {BadTarget},
                  offset : Nat, size : Nat]
    /\ NoReq.op = "none"
BY DEF NoReq

\* Steps that leave the service's state alone and only move the request.
LEMMA QuietStep ==
    ASSUME HandlerInv,
           UNCHANGED << processing, chunk_size, thread, history >>,
           RequestOK', open' \in BOOLEAN, Packet',
           open' => update_started /\ status = "running",
           req' # NoReq => status = "running"
    PROVE  HandlerInv'
<1> USE DEF HandlerInv, TypeOK, processing, thread, history
<1>1. OffsetsOK'
  BY DEF OffsetsOK
<1>2. RingOK' /\ BuffersOK'
  BY DEF RingOK, BuffersOK
<1>3. ThreadOK' /\ CountersOK'
  BY DEF ThreadOK, CountersOK
<1>4. FlagsOK'
  BY DEF FlagsOK
<1>5. ThreadState'
  BY DEF ThreadState
<1>6. Buffered' /\ HeadOffsets'
  BY DEF Buffered, HeadOffsets
<1> QED BY <1>1, <1>2, <1>3, <1>4, <1>5, <1>6

\* The answers that change nothing: rejected, invalid, busy, and the reset.
LEMMA QuietServe ==
    ASSUME HandlerInv,
           DataRejected \/ DataInvalid \/ DataBusy \/ CompleteRejected
             \/ CompleteBusy \/ AbortRejected \/ AbortBusy \/ Reset
    PROVE  HandlerInv'
<1> USE DEF HandlerInv, TypeOK
<1>1. UNCHANGED << processing, chunk_size, thread, history >> /\ open' = open
  BY DEF DataRejected, DataInvalid, DataBusy, CompleteRejected, CompleteBusy,
         AbortRejected, AbortBusy, Reset
<1>2. \E cb, st : Answer(cb, st)
  BY DEF DataRejected, DataInvalid, DataBusy, CompleteRejected, CompleteBusy,
         AbortRejected, AbortBusy, Reset
<1>3. RequestOK' /\ (req' = NoReq \/ req' = req)
  BY <1>2, AnswerType
<1>4. status = "running"
  BY DEF DataRejected, DataInvalid, DataBusy, CompleteRejected, CompleteBusy,
         AbortRejected, AbortBusy, Reset, Serving
<1>5. open' \in BOOLEAN /\ (open' => update_started /\ status = "running")
  BY <1>1 DEF FlagsOK, ThreadState
<1>6. Packet'
  <2>1. CASE req' = req
    BY <2>1, <1>1 DEF Packet, processing
  <2>2. CASE req' = NoReq /\ ~(update_started /\ open /\ ~data_error /\ ccfsm_bytes_processed > 0)
    BY <2>2, <1>1, NoReqType DEF Packet, processing
  <2>3. CASE req' = NoReq /\ update_started /\ open /\ ~data_error /\ ccfsm_bytes_processed > 0
    <3>1. req.op = "data" /\ req.target = target /\ InOrder
      BY <2>3 DEF Packet, InOrder
    <3>2. DataBusy
      BY <3>1, <2>3 DEF DataRejected, DataInvalid, CompleteRejected, CompleteBusy,
         AbortRejected, AbortBusy, Reset, Serving, Accepted, AbortOp
    <3>3. req' = req
      BY <3>2 DEF DataBusy, Answer
    <3> QED BY <2>1, <3>3
  <2> QED BY <2>1, <2>2, <2>3, <1>3
<1> QED BY <1>1, <1>3, <1>4, <1>5, <1>6, QuietStep

\* CCFSM's own steps and the starts that are refused before any change.
LEMMA QuietCCFSM ==
    ASSUME HandlerInv, NEW t \in Targets \cup {BadTarget},
           \/ StartBadTarget(t)
           \/ \E n \in CodeSizes : StartRefused(t, n)
           \/ \E n \in PacketSizes, o \in Nat : IssueData(t, o, n)
           \/ \E op \in BusyOps : IssueOther(op, t)
           \/ Disconnect
    PROVE  HandlerInv'
<1> USE DEF HandlerInv, TypeOK
<1>1. ASSUME StartBadTarget(t) \/ \E n \in CodeSizes : StartRefused(t, n)
      PROVE  HandlerInv'
  <2>1. UNCHANGED << processing, chunk_size, thread, history, req, open >>
    BY <1>1 DEF StartBadTarget, StartRefused
  <2>2. RequestOK' /\ open' \in BOOLEAN /\ (open' => update_started /\ status = "running")
          /\ (req' # NoReq => status = "running")
    BY <2>1 DEF RequestOK, FlagsOK, ThreadState
  <2>3. Packet'
    BY <2>1 DEF Packet, processing
  <2> QED BY <2>1, <2>2, <2>3, QuietStep
<1>2. ASSUME NEW n \in PacketSizes, NEW o \in Nat, IssueData(t, o, n)
      PROVE  HandlerInv'
  <2> USE SizesAssumption
  <2>1. /\ UNCHANGED << processing, chunk_size, thread, history, open >>
        /\ req' = Request("data", t, o, n) /\ status = "running"
        /\ req = NoReq /\ (open \/ ~update_started)
        /\ update_started => o + n <= total_size
    BY <1>2 DEF IssueData, CanIssue
  <2>2. RequestOK'
    BY <2>1 DEF RequestOK, Request, BusyOps
  <2>3. open' \in BOOLEAN /\ (open' => update_started /\ status = "running")
    BY <2>1 DEF FlagsOK, ThreadState
  <2>4. Packet'
    <3>1. update_started /\ open /\ ~data_error => ~(ccfsm_bytes_processed > 0)
      BY <2>1, NoReqType DEF Packet
    <3> QED BY <3>1, <2>1 DEF Packet, processing, Request
  <2> QED BY <2>1, <2>2, <2>3, <2>4, QuietStep
<1>3. ASSUME NEW op \in BusyOps, IssueOther(op, t)
      PROVE  HandlerInv'
  <2>1. /\ UNCHANGED << processing, chunk_size, thread, history, open >>
        /\ req' = Request(op, t, 0, 0) /\ status = "running" /\ op # "data"
        /\ req = NoReq
    BY <1>3 DEF IssueOther, CanIssue
  <2>2. RequestOK'
    BY <2>1 DEF RequestOK, Request
  <2>3. open' \in BOOLEAN /\ (open' => update_started /\ status = "running")
    BY <2>1 DEF FlagsOK, ThreadState
  <2>4. Packet'
    <3>1. update_started /\ open /\ ~data_error => ~(ccfsm_bytes_processed > 0)
      BY <2>1, NoReqType DEF Packet
    <3> QED BY <3>1, <2>1 DEF Packet, processing, Request
  <2> QED BY <2>1, <2>2, <2>3, <2>4, QuietStep
<1>4. ASSUME Disconnect
      PROVE  HandlerInv'
  <2>1. /\ UNCHANGED << processing, chunk_size, thread, history >>
        /\ req' = NoReq /\ open' = FALSE /\ status = "running"
    BY <1>4 DEF Disconnect
  <2>2. RequestOK' /\ open' \in BOOLEAN
    BY <2>1, NoReqType DEF RequestOK
  <2>3. Packet'
    BY <2>1, NoReqType DEF Packet
  <2> QED BY <2>1, <2>2, <2>3, QuietStep
<1> QED BY <1>1, <1>2, <1>3, <1>4

\* free_and_stop_service, from a restart, a complete or an abort.
LEMMA FreeStep ==
    ASSUME HandlerInv, NEW t \in Targets \cup {BadTarget},
           StartAlreadyStarted(t) \/ CompleteDone \/ AbortDone
    PROVE  HandlerInv'
<1> USE DEF HandlerInv, TypeOK
<1>1. /\ data' = [s \in Slots |-> NULL] /\ update_started' = FALSE /\ open' = FALSE
      /\ UNCHANGED << target, total_size, data_error, in_use, chunk,
                      chunk_pool_head, chunk_pool_tail, head_offset, tail_offset,
                      ccfsm_bytes_processed, chunk_size, thread, starts,
                      failures, delivered, rejected >>
      /\ overlap' \in {overlap, overlap \/ ~Parked}
      /\ status = "running"
  BY DEF StartAlreadyStarted, CompleteDone, AbortDone, FreeAndStopService,
         StartGuard, Serving, history
<1>2. RequestOK'
  BY AnswerType DEF StartAlreadyStarted, CompleteDone, AbortDone, RequestOK
<1>3. OffsetsOK' /\ RingOK'
  BY <1>1 DEF OffsetsOK, RingOK, thread
<1>4. BuffersOK'
  BY <1>1, BufferTypes DEF BuffersOK
<1>5. ThreadOK' /\ CountersOK'
  BY <1>1 DEF ThreadOK, CountersOK, thread
<1>6. FlagsOK'
  BY <1>1 DEF FlagsOK
<1>7. ThreadState'
  BY <1>1 DEF ThreadState, thread
<1>8. Buffered' /\ HeadOffsets' /\ Packet'
  BY <1>1 DEF Buffered, HeadOffsets, Packet
<1> QED BY <1>2, <1>3, <1>4, <1>5, <1>6, <1>7, <1>8

\* After a start replaced a chunk size of 0 the target's is positive.
LEMMA ChunkSizeDefaulted ==
    ASSUME OffsetsOK, NEW t \in Targets, chunk_size' = DefaultedChunkSize(t)
    PROVE  /\ chunk_size' \in [Targets -> Nat]
           /\ \A u \in Targets : chunk_size'[u] \in {ConfigChunkSize[u], RecvPacketSize}
           /\ chunk_size'[t] > 0
           /\ chunk_size'[t] \in AllChunkSizes
BY ChunkAssumption DEF OffsetsOK, DefaultedChunkSize, AllChunkSizes

\* A start that runs out of memory keeps the bookkeeping.
LEMMA NoMemoryStep ==
    ASSUME HandlerInv, NEW t \in Targets, NEW n \in CodeSizes, NEW k \in Slots,
           StartNoMemory(t, n, k)
    PROVE  HandlerInv'
<1> USE DEF HandlerInv, TypeOK
<1>1. /\ chunk_size' \in [Targets -> Nat]
      /\ \A u \in Targets : chunk_size'[u] \in {ConfigChunkSize[u], RecvPacketSize}
      /\ chunk_size'[t] \in AllChunkSizes
  BY ChunkSizeDefaulted DEF StartNoMemory
<1>2. OffsetsOK'
  BY <1>1 DEF StartNoMemory, OffsetsOK
<1>3. RingOK'
  <2>1. in_use' \in [Slots -> BOOLEAN]
    BY DEF StartNoMemory, RingOK
  <2>2. chunk' \in [Slots -> Chunks]
    BY DEF StartNoMemory, RingOK, Chunks, EmptyChunk
  <2> QED BY <2>1, <2>2 DEF StartNoMemory, RingOK, thread
<1>4. BuffersOK'
  BY <1>1, BufferTypes DEF StartNoMemory, BuffersOK
<1>5. ThreadOK' /\ CountersOK'
  BY DEF StartNoMemory, ThreadOK, CountersOK, thread
<1>6. FlagsOK' /\ RequestOK'
  BY DEF StartNoMemory, FlagsOK, RequestOK
<1>7. ThreadState' /\ Buffered' /\ HeadOffsets' /\ Packet'
  BY DEF StartNoMemory, ThreadState, Buffered, HeadOffsets, Packet, thread
<1> QED BY <1>2, <1>3, <1>4, <1>5, <1>6, <1>7

\* An accepted start sets up the bookkeeping of a new download.
LEMMA AcceptedStep ==
    ASSUME HandlerInv, NEW t \in Targets, NEW n \in CodeSizes, StartAccepted(t, n)
    PROVE  HandlerInv'
<1> USE DEF HandlerInv, TypeOK
<1> USE SizesAssumption
<1>1. /\ chunk_size' \in [Targets -> Nat]
      /\ \A u \in Targets : chunk_size'[u] \in {ConfigChunkSize[u], RecvPacketSize}
      /\ chunk_size'[t] > 0
      /\ chunk_size'[t] \in AllChunkSizes
  BY ChunkSizeDefaulted DEF StartAccepted
<1>2. OffsetsOK'
  BY <1>1 DEF StartAccepted, OffsetsOK
<1>3. RingOK'
  BY SlotsNonEmpty DEF StartAccepted, RingOK, Chunks, EmptyChunk, thread
<1>4. BuffersOK'
  BY <1>1, BufferTypes DEF StartAccepted, BuffersOK
<1>5. ThreadOK' /\ CountersOK'
  BY DEF StartAccepted, ThreadOK, CountersOK, thread
<1>6. FlagsOK'
  BY DEF StartAccepted, FlagsOK
<1>7. RequestOK'
  BY DEF StartAccepted, RequestOK
<1>8. ThreadState'
  BY DEF StartAccepted, ThreadState, thread, StartGuard
<1>9. Buffered'
  BY DEF StartAccepted, Buffered, Malloc
<1>10. HeadOffsets'
  <2>1. 0 % chunk_size'[t] = 0
    BY <1>1, SMT
  <2> QED BY <1>1, <2>1 DEF StartAccepted, HeadOffsets
<1>11. Packet'
  BY NoReqType DEF StartAccepted, Packet, StartGuard
<1> QED BY <1>2, <1>3, <1>4, <1>5, <1>6, <1>7, <1>8, <1>9, <1>10, <1>11

\* The firmware thread touches nothing the handlers' bookkeeping is about.
LEMMA ThreadStepType ==
    ASSUME HandlerInv, ThreadStep
    PROVE  HandlerInv'
<1> USE DEF HandlerInv, TypeOK
<1>0. /\ UNCHANGED << update_started, target, total_size, chunk, data,
                      chunk_pool_head, head_offset, tail_offset,
                      ccfsm_bytes_processed, chunk_size, req, open, starts,
                      failures, overlap >>
      /\ in_use' \in {in_use, [in_use EXCEPT ![slot] = FALSE]}
      /\ chunk_pool_tail' \in {chunk_pool_tail, NextSlot(chunk_pool_tail)}
      /\ slot' \in {slot, chunk_pool_tail}
      /\ delivered' \in {delivered, delivered + chunk[slot].size}
  BY DEF ThreadStep, ThreadAcquire, ThreadExit, ThreadCall, ThreadReturn,
         ThreadRelease, ThreadAdvance, processing, history
<1>1. OffsetsOK'
  BY <1>0 DEF OffsetsOK
<1>2. RingOK'
  BY <1>0, NextSlotType DEF RingOK
<1>3. BuffersOK'
  BY <1>0 DEF BuffersOK
<1>4. ThreadOK'
  BY DEF ThreadStep, ThreadAcquire, ThreadExit, ThreadCall, ThreadReturn,
         ThreadRelease, ThreadAdvance, ThreadOK
<1>5. RequestOK'
  BY <1>0 DEF RequestOK
<1>6. CountersOK'
  BY <1>0 DEF CountersOK, RingOK, Chunks
<1>7. FlagsOK' /\ data_error' = rejected' /\ (data_error => data_error')
  <2>1. CASE data_error' = data_error /\ rejected' = rejected
    BY <1>0, <2>1 DEF FlagsOK, ThreadState
  <2>2. ASSUME NEW error \in BOOLEAN, ThreadReturn(error)
        PROVE  FlagsOK' /\ data_error' = rejected' /\ (data_error => data_error')
    BY <1>0, <2>2 DEF FlagsOK, ThreadReturn, ThreadState
  <2> QED BY <2>1, <2>2 DEF ThreadStep, ThreadAcquire, ThreadExit, ThreadCall,
              ThreadRelease, ThreadAdvance, processing, history
<1>8. ThreadState'
  <2>1. pc' = "stopped" <=> status' = "not_started"
    BY DEF ThreadStep, ThreadAcquire, ThreadExit, ThreadCall, ThreadReturn,
         ThreadRelease, ThreadAdvance, ThreadState, ThreadOK
  <2>2. status = "running" => status' = "running"
    BY DEF ThreadStep, ThreadAcquire, ThreadExit, ThreadCall, ThreadReturn,
         ThreadRelease, ThreadAdvance
  <2> QED BY <2>1, <2>2, <1>0, <1>7 DEF ThreadState
<1>9. Buffered' /\ HeadOffsets'
  BY <1>0 DEF Buffered, HeadOffsets
<1>10. Packet'
  BY <1>0, <1>7 DEF Packet
<1> QED BY <1>1, <1>2, <1>3, <1>4, <1>5, <1>6, <1>7, <1>8, <1>9, <1>10

\* ccapi_stop_thread keeps the bookkeeping.
LEMMA StopThreadType ==
    ASSUME HandlerInv, StopThread
    PROVE  HandlerInv'
<1> USE DEF HandlerInv, TypeOK, StopThread, processing, history
<1>1. OffsetsOK' /\ RingOK' /\ BuffersOK' /\ CountersOK'
  BY DEF OffsetsOK, RingOK, BuffersOK, CountersOK
<1>2. ThreadOK'
  BY DEF ThreadOK
<1>6. FlagsOK'
  BY DEF FlagsOK
<1>3. RequestOK'
  BY NoReqType DEF RequestOK
<1>4. ThreadState' /\ Buffered' /\ HeadOffsets'
  BY DEF ThreadState, Buffered, HeadOffsets
<1>5. Packet'
  BY NoReqType DEF Packet
<1> QED BY <1>1, <1>2, <1>3, <1>4, <1>5, <1>6

-----------------------------------------------------------------------------
\* The arithmetic of the data handler: the bytes copied stay within the packet,
\* the chunk and the image, and a chunk is queued when it is full or last.
LEMMA CopyFacts ==
    ASSUME HandlerInv, Serving("data"), Accepted, ~data_error, InOrder
    PROVE  LET c == chunk_size[target] IN
           /\ c \in Nat /\ c > 0
           /\ tail_offset % c = tail_offset - head_offset
           /\ BytesToCopy \in Nat /\ BytesToCopy > 0
           /\ ccfsm_bytes_processed + BytesToCopy <= req.size
           /\ NextHeadOffset = tail_offset + BytesToCopy
           /\ NextHeadOffset \in Nat
           /\ NextHeadOffset <= total_size
           /\ NextHeadOffset <= head_offset + c
           /\ (NextHeadOffset % c = 0) <=> (NextHeadOffset = head_offset + c)
           /\ req.offset + ccfsm_bytes_processed = tail_offset
           /\ head_offset % c = 0
           /\ head_offset <= tail_offset
<1> DEFINE c == chunk_size[target]
<1> USE DEF HandlerInv, TypeOK
<1>1. c \in Nat /\ c > 0 /\ head_offset \in Nat /\ tail_offset \in Nat /\ total_size \in Nat
        /\ ccfsm_bytes_processed \in Nat /\ head_offset <= tail_offset
        /\ tail_offset < head_offset + c /\ (head_offset # total_size => head_offset % c = 0)
  BY DEF OffsetsOK, HeadOffsets, Accepted
<1>2. req.offset \in Nat /\ req.size \in Nat /\ req.offset + req.size <= total_size
        /\ ccfsm_bytes_processed < req.size
        /\ req.offset + ccfsm_bytes_processed = tail_offset
  BY <1>1 DEF RequestOK, Packet, Accepted, Serving, InOrder
<1>3. head_offset % c = 0
  BY <1>1, <1>2
<1>4. tail_offset % c = tail_offset - head_offset
  <2> DEFINE x == tail_offset - head_offset
  <2>1. x \in Nat /\ x < c /\ head_offset + x = tail_offset
    BY <1>1
  <2> HIDE DEF x, c
  <2>2. (head_offset + x) % c = x
    BY <2>1, <1>1, <1>3, ModAdd
  <2> QED BY <2>1, <2>2 DEF x
<1>5. RoomInChunk = c - (tail_offset - head_offset)
  BY <1>4 DEF RoomInChunk
<1>6. BytesToCopy = IF req.size - ccfsm_bytes_processed > RoomInChunk
                    THEN RoomInChunk ELSE req.size - ccfsm_bytes_processed
  BY DEF BytesToCopy
<1> HIDE DEF c
<1>7. BytesToCopy \in Nat /\ BytesToCopy > 0 /\ ccfsm_bytes_processed + BytesToCopy <= req.size
        /\ BytesToCopy <= c - (tail_offset - head_offset)
  BY <1>1, <1>2, <1>5, <1>6
<1>8. NextHeadOffset = tail_offset + BytesToCopy
  BY DEF NextHeadOffset
<1>9. NextHeadOffset \in Nat /\ NextHeadOffset <= total_size /\ NextHeadOffset <= head_offset + c
        /\ NextHeadOffset > head_offset
  BY <1>1, <1>2, <1>7, <1>8
<1>10. (NextHeadOffset % c = 0) <=> (NextHeadOffset = head_offset + c)
  <2>1. CASE NextHeadOffset = head_offset + c
    BY <2>1, <1>1, <1>3, ModFull
  <2>2. CASE NextHeadOffset < head_offset + c
    <3> DEFINE y == NextHeadOffset - head_offset
    <3>1. y \in Nat /\ y < c /\ y > 0 /\ head_offset + y = NextHeadOffset
      BY <2>2, <1>1, <1>9
    <3> HIDE DEF y
    <3>2. (head_offset + y) % c = y
      BY <3>1, <1>1, <1>3, ModAdd
    <3> QED BY <3>1, <3>2, <2>2, <1>1, <1>9
  <2> QED BY <2>1, <2>2, <1>1, <1>9
<1> QED BY <1>1, <1>2, <1>3, <1>4, <1>7, <1>8, <1>9, <1>10 DEF c

\* The data handler's copy keeps the bookkeeping, whether it queues a chunk,
\* ends the packet, or neither.
LEMMA CopiedStep ==
    ASSUME HandlerInv, DataCopied
    PROVE  HandlerInv'
<1> USE DEF HandlerInv, TypeOK
<1> DEFINE c == chunk_size[target]
<1>1. Serving("data") /\ Accepted /\ ~data_error /\ InOrder /\ HeadFree
  BY DEF DataCopied
<1>2. /\ c \in Nat /\ c > 0
      /\ BytesToCopy \in Nat /\ BytesToCopy > 0
      /\ ccfsm_bytes_processed + BytesToCopy <= req.size
      /\ NextHeadOffset = tail_offset + BytesToCopy
      /\ NextHeadOffset \in Nat
      /\ NextHeadOffset <= total_size
      /\ NextHeadOffset <= head_offset + c
      /\ (NextHeadOffset % c = 0) <=> (NextHeadOffset = head_offset + c)
      /\ req.offset + ccfsm_bytes_processed = tail_offset
      /\ head_offset % c = 0
      /\ head_offset <= tail_offset
  BY <1>1, CopyFacts
<1> HIDE DEF c
<1>3. head_offset \in Nat /\ tail_offset \in Nat /\ ccfsm_bytes_processed \in Nat /\ total_size \in Nat
        /\ req.size \in Nat /\ req.offset \in Nat /\ update_started
        /\ req.offset + req.size <= total_size /\ open /\ status = "running"
  BY <1>1 DEF OffsetsOK, RequestOK, Accepted, Packet, Serving
<1>4. tail_offset >= head_offset
  BY <1>2, <1>3
<1>5. /\ Memcpy /\ AdvancePacket /\ tail_offset' = NextHeadOffset
      /\ \/ ChunkFull /\ QueueChunk
         \/ ~ChunkFull /\ UNCHANGED << chunk, head_offset, in_use, lock, chunk_pool_head >>
      /\ UNCHANGED << update_started, target, total_size, data_error,
                    chunk_pool_tail, chunk_size, status, pc, slot, open, history >>
  BY <1>4 DEF DataCopied
<1>6. ChunkFull <=> (NextHeadOffset = total_size \/ NextHeadOffset = head_offset + c)
  BY <1>2 DEF ChunkFull, LastChunk, c
<1>7. head_offset' = IF ChunkFull THEN NextHeadOffset ELSE head_offset
  BY <1>5 DEF QueueChunk
<1>8. ccfsm_bytes_processed' \in Nat /\ (req' = NoReq \/ req' = req) /\ RequestOK'
        /\ (req' = NoReq => ccfsm_bytes_processed' = 0)
        /\ (req' = req => ccfsm_bytes_processed' = ccfsm_bytes_processed + BytesToCopy
                          /\ ccfsm_bytes_processed' < req.size)
  <2> DEFINE done == ccfsm_bytes_processed + BytesToCopy
  <2>1. CASE done = req.size
    <3>1. ccfsm_bytes_processed' = 0 /\ Answer("continue", "success")
      BY <2>1, <1>5 DEF AdvancePacket
    <3>2. req' = NoReq /\ req # NoReq
      BY <3>1, NoReqType, <1>1 DEF Answer, Serving
    <3>3. RequestOK'
      BY <3>1, AnswerType
    <3> QED BY <3>1, <3>2, <3>3
  <2>2. CASE done # req.size
    <3>1. ccfsm_bytes_processed' = done /\ Answer("busy", "success")
      BY <2>2, <1>5 DEF AdvancePacket
    <3>2. req' = req /\ req # NoReq
      BY <3>1, NoReqType, <1>1 DEF Answer, Serving
    <3>3. RequestOK'
      BY <3>1, AnswerType
    <3> QED BY <3>1, <3>2, <3>3, <2>2, <1>2, <1>3
  <2> QED BY <2>1, <2>2
<1>9. OffsetsOK'
  BY <1>2, <1>3, <1>5, <1>7, <1>8 DEF OffsetsOK
<1>10. RingOK'
  <2>1. chunk_pool_head \in Slots /\ NextSlot(chunk_pool_head) \in Slots
    BY NextSlotType DEF RingOK
  <2>2. LastChunk \in BOOLEAN
    BY DEF LastChunk
  <2>3. CASE QueueChunk
    <3>1. chunk' \in [Slots -> Chunks]
      BY <2>1, <2>2, <2>3, <1>2, <1>3 DEF QueueChunk, RingOK, Chunks
    <3> QED BY <3>1, <2>1, <2>3, <1>5 DEF QueueChunk, RingOK
  <2>4. CASE UNCHANGED << chunk, head_offset, in_use, lock, chunk_pool_head >>
    BY <2>4, <1>5 DEF RingOK
  <2> QED BY <2>3, <2>4, <1>5
<1>11. BuffersOK' /\ \A s \in Slots : DOMAIN data'[s] = DOMAIN data[s]
  <2> DEFINE h == chunk_pool_head
             buf == data'[h]
  <2>1. h \in Slots
    BY DEF RingOK
  <2>2. /\ data' = [data EXCEPT ![h] = buf]
        /\ DOMAIN buf = DOMAIN data[h]
        /\ \A i \in DOMAIN data[h] : buf[i] \in {data[h][i]} \cup Int
        /\ buf = [i \in DOMAIN buf |-> buf[i]]
    <3> DEFINE src == req.offset + ccfsm_bytes_processed
               pos == tail_offset % c
               new == [i \in DOMAIN data[h] |->
                          IF i >= pos /\ i < pos + BytesToCopy
                          THEN src + (i - pos) ELSE data[h][i]]
    <3>1. data' = [data EXCEPT ![h] = new]
      BY <1>5 DEF Memcpy, c
    <3>2. buf = new
      BY <3>1, <2>1 DEF BuffersOK
    <3>3. src \in Int /\ pos \in Int
      BY <1>2, <1>3
    <3>4. DOMAIN data[h] \subseteq Int
      <4>1. PICK n \in {0} \cup AllChunkSizes : data[h] \in [0 .. (n - 1) -> Int]
        BY <2>1 DEF BuffersOK, IsBuffer
      <4>2. n \in Int
        BY ChunkAssumption DEF AllChunkSizes
      <4> QED BY <4>1, <4>2
    <3> HIDE DEF src, pos
    <3>5. DOMAIN new = DOMAIN data[h] /\ \A i \in DOMAIN data[h] : new[i] \in {data[h][i]} \cup Int
      BY <3>3, <3>4
    <3>6. new = [i \in DOMAIN new |-> new[i]]
      BY Zenon
    <3> HIDE DEF new, buf
    <3> QED BY <3>1, <3>2, <3>5, <3>6
  <2> HIDE DEF buf
  <2>3. IsBuffer(buf)
    <3>1. PICK n \in {0} \cup AllChunkSizes : data[h] \in [0 .. (n - 1) -> Int]
      BY <2>1 DEF BuffersOK, IsBuffer
    <3>2. buf \in [0 .. (n - 1) -> Int]
      BY <2>2, <3>1
    <3> QED BY <3>2 DEF IsBuffer
  <2> QED BY <2>1, <2>2, <2>3 DEF BuffersOK
<1>12. ThreadOK' /\ CountersOK'
  BY <1>5 DEF ThreadOK, CountersOK, QueueChunk, history
<1>13. FlagsOK'
  BY <1>5 DEF FlagsOK, history
<1>14. ThreadState'
  BY <1>5, <1>3 DEF ThreadState, history
<1>15. Buffered'
  BY <1>5, <1>11 DEF Buffered
<1>16. HeadOffsets'
  <2>1. chunk_size'[target'] = c
    BY <1>5 DEF c
  <2>2. head_offset' <= tail_offset' /\ tail_offset' <= total_size'
          /\ tail_offset' < head_offset' + c
    BY <1>2, <1>3, <1>5, <1>6, <1>7
  <2>3. head_offset' # total_size' => head_offset' % c = 0
    BY <1>2, <1>3, <1>5, <1>6, <1>7
  <2> QED BY <2>1, <2>2, <2>3, <1>2 DEF HeadOffsets
<1>17. Packet'
  <2>1. CASE req' = NoReq
    BY <2>1, <1>8, NoReqType DEF Packet
  <2>2. CASE req' = req
    BY <2>2, <1>8, <1>1, <1>2, <1>3, <1>5 DEF Packet, Serving, Accepted
  <2> QED BY <2>1, <2>2, <1>8
<1> QED BY <1>8, <1>9, <1>10, <1>11, <1>12, <1>13, <1>14, <1>15, <1>16, <1>17

(***************************************************************************)
(* The handlers' bookkeeping holds in every reachable state, whatever the  *)
(* firmware thread does meanwhile.                                         *)
(***************************************************************************)
LEMMA HandlerNext == HandlerInv /\ [Next]_vars => HandlerInv'
<1> SUFFICES ASSUME HandlerInv, [Next]_vars PROVE HandlerInv'
  OBVIOUS
<1>1. CASE Start
  <2>1. PICK t \in Targets \cup {BadTarget} :
          \/ StartBadTarget(t)
          \/ StartAlreadyStarted(t)
          \/ \E n \in CodeSizes :
               \/ StartRefused(t, n)
               \/ StartAccepted(t, n)
               \/ \E k \in Slots : StartNoMemory(t, n, k)
    BY <1>1 DEF Start
  <2>2. ASSUME NEW n \in CodeSizes, StartAccepted(t, n) PROVE HandlerInv'
    BY <2>2, AcceptedStep DEF StartAccepted
  <2>3. ASSUME NEW n \in CodeSizes, NEW k \in Slots, StartNoMemory(t, n, k)
        PROVE  HandlerInv'
    BY <2>3, NoMemoryStep DEF StartNoMemory
  <2> QED BY <2>1, <2>2, <2>3, QuietCCFSM, FreeStep
<1>2. CASE Issue
  <2>1. PICK t \in Targets \cup {BadTarget} :
          \/ \E n \in PacketSizes :
               \E o \in 0 .. (IF update_started THEN total_size ELSE 0) : IssueData(t, o, n)
          \/ \E op \in BusyOps : IssueOther(op, t)
    BY <1>2 DEF Issue
  <2>2. 0 .. (IF update_started THEN total_size ELSE 0) \subseteq Nat
    BY DEF HandlerInv, TypeOK, OffsetsOK
  <2> QED BY <2>1, <2>2, QuietCCFSM
<1>3. CASE Disconnect
  BY <1>3, QuietCCFSM
<1>4. CASE Serve
  BY <1>4, QuietServe, CopiedStep, FreeStep
     DEF Serve, ServeData, ServeComplete, ServeAbort
<1>5. CASE ThreadStep
  BY <1>5, ThreadStepType
<1>6. CASE StopThread
  BY <1>6, StopThreadType
<1>7. CASE UNCHANGED vars
  <2>1. UNCHANGED << processing, chunk_size, thread, history, req, open >>
    BY <1>7 DEF vars
  <2>2. RequestOK' /\ open' \in BOOLEAN /\ (open' => update_started /\ status = "running")
          /\ (req' # NoReq => status = "running")
    BY <2>1 DEF HandlerInv, TypeOK, RequestOK, FlagsOK, ThreadState
  <2>3. Packet'
    BY <2>1 DEF HandlerInv, Packet, processing
  <2> QED BY <2>1, <2>2, <2>3, QuietStep
<1> QED BY <1>1, <1>2, <1>3, <1>4, <1>5, <1>6, <1>7 DEF Next

(***************************************************************************)
(* The handlers' bookkeeping is an invariant: buffers of the chunk size,   *)
(* and head_offset <= tail_offset < head_offset + chunk_size.              *)
(***************************************************************************)
THEOREM HandlerCorrect == Spec => []HandlerInv
<1> QED BY HandlerInit, HandlerNext, PTL DEF Spec

\* Type correctness, for every pool size, chunk size and image: ring indices
\* in range, and offsets that never wrap below zero.
THEOREM TypeCorrect == Spec => []TypeOK
<1>1. HandlerInv => TypeOK
  BY DEF HandlerInv
<1> QED BY <1>1, HandlerCorrect, PTL

-----------------------------------------------------------------------------
\* The arithmetic of the ring.
LEMMA RingDistance ==
    ASSUME NEW f \in Slots, NEW s \in Slots
    PROVE  Distance(f, s) \in 0 .. (PoolSize - 1) /\ Distance(f, f) = 0
BY PoolAssumption DEF Slots, Distance

\* Queueing: the slot after the q ones in use is at distance q, and adding it
\* makes q + 1 of them.
LEMMA RingPush ==
    ASSUME NEW f \in Slots, NEW q \in Nat, q < PoolSize
    PROVE  /\ Wrap(f + q) \in Slots
           /\ Distance(f, Wrap(f + q)) = q
           /\ NextSlot(Wrap(f + q)) = Wrap(f + (q + 1))
           /\ \A s \in Slots : Distance(f, s) < q + 1 <=> (Distance(f, s) < q \/ s = Wrap(f + q))
BY PoolAssumption DEF Slots, Distance, Wrap, NextSlot

\* Releasing: without the oldest slot, the ones in use are the q - 1 from the
\* next slot on.
LEMMA RingPop ==
    ASSUME NEW f \in Slots, NEW q \in Nat, q >= 1, q <= PoolSize
    PROVE  /\ Wrap(NextSlot(f) + (q - 1)) = Wrap(f + q)
           /\ \A s \in Slots : Distance(NextSlot(f), s) < q - 1 <=> (Distance(f, s) < q /\ s # f)
           /\ q > 1 => NextSlot(f) # Wrap(f + q)
           /\ q = 1 => NextSlot(f) = Wrap(f + q)
BY PoolAssumption DEF Slots, Distance, Wrap, NextSlot

\* No two slots have the same successor.
LEMMA NextSlotInjective ==
    ASSUME NEW s \in Slots, NEW t \in Slots, NextSlot(s) = NextSlot(t)
    PROVE  s = t
BY PoolAssumption DEF Slots, NextSlot

\* The ring's positions and the count of chunks have their types.
LEMMA RingTypes ==
    ASSUME HandlerInv
    PROVE  First \in Slots /\ Queued \in Nat /\ chunk_pool_head \in Slots /\ chunk_pool_tail \in Slots
BY NextSlotType DEF HandlerInv, TypeOK, RingOK, ThreadOK, First, Queued

\* The ring is empty when no slot is in use, and full slots are in use.
LEMMA RingEmpty ==
    ASSUME HandlerInv, RingShape
    PROVE  /\ ~PoolInUse => Queued = 0
           /\ Queued = 0 => \A s \in Slots : ~in_use[s]
           /\ Queued > 0 => in_use[First]
           /\ ~in_use[chunk_pool_head] => Queued < PoolSize
<1>1. First \in Slots /\ Queued \in Nat /\ chunk_pool_head \in Slots
  BY RingTypes
<1>2. \A s \in Slots : Distance(First, s) \in 0 .. (PoolSize - 1) /\ Distance(First, First) = 0
  BY <1>1, RingDistance
<1>3. Queued > 0 => in_use[First]
  BY <1>1, <1>2 DEF RingShape
<1>4. Queued = 0 => \A s \in Slots : ~in_use[s]
  BY <1>2 DEF RingShape
<1>5. ~in_use[chunk_pool_head] => Queued < PoolSize
  BY <1>1, <1>2, PoolAssumption DEF RingShape
<1> QED BY <1>1, <1>3, <1>4, <1>5 DEF PoolInUse

\* At the start the ring is empty.
LEMMA RingInit == Init => RingInv
<1> SUFFICES ASSUME Init PROVE RingBody
  BY DEF RingInv
<1> USE PoolAssumption, SlotsNonEmpty
<1>1. First = 0 /\ Queued = 0
  BY DEF Init, InitThread, First, Queued, InHand
<1>2. \A s \in Slots : ~(Distance(First, s) < Queued)
  BY <1>1, RingDistance
<1>3. RingShape
  BY <1>1, <1>2 DEF RingShape, Init, InitThread
<1>4. RingContents /\ HeadContents
  BY <1>1 DEF RingContents, HeadContents, Init
<1>5. ~CompleteSuccess
  BY DEF CompleteSuccess, Init, Reply
<1> QED BY <1>3, <1>4, <1>5 DEF RingBody, Init, InitThread

\* Steps that leave the service's state alone and report no success.
LEMMA RingQuiet ==
    ASSUME RingBody,
           UNCHANGED << processing, chunk_size, thread, delivered, rejected >>,
           CompleteSuccess' => CompleteSuccess
    PROVE  RingBody'
<1> USE DEF processing, thread
<1>1. ASSUME status = "running"
      PROVE  RingShape' /\ RingContents' /\ HeadContents'
  <2>1. First' = First /\ Queued' = Queued
    BY DEF First, Queued, InHand
  <2>2. RingShape'
    BY <1>1, <2>1 DEF RingBody, RingShape
  <2>3. RingContents'
    BY <1>1, <2>1 DEF RingBody, RingContents, Base, ChunkHoldsImage
  <2>4. HeadContents'
    BY <1>1 DEF RingBody, HeadContents
  <2> QED BY <2>2, <2>3, <2>4
<1>2. pc' = "callback" => ChunkIsNext(slot)'
  BY DEF RingBody, ChunkIsNext
<1> QED BY <1>1, <1>2 DEF RingBody

\* After a step that leaves no chunk in the ring and no download on.
LEMMA RingIdle ==
    ASSUME HandlerInv', ~update_started', pc' \in {"acquire", "advance"}, lock' = 0,
           \A s \in Slots : ~in_use'[s],
           CompleteSuccess' => delivered' = total_size' /\ ~rejected'
    PROVE  RingBody'
<1>1. Queued' = 0 /\ First' \in Slots
  BY NextSlotType DEF Queued, InHand, First, HandlerInv, TypeOK, RingOK
<1>2. \A s \in Slots : ~(Distance(First', s) < Queued')
  BY <1>1, RingDistance
<1>3. RingShape'
  BY <1>1, <1>2, PoolAssumption DEF RingShape
<1>4. RingContents' /\ HeadContents'
  BY <1>1 DEF RingContents, HeadContents
<1> QED BY <1>3, <1>4 DEF RingBody

\* complete, abort and a restart free the buffers: the ring is empty, or the
\* restart overlaps the thread.
LEMMA RingFree ==
    ASSUME HandlerInv, HandlerInv', RingBody, NEW t, ~overlap',
           StartAlreadyStarted(t) \/ CompleteDone \/ AbortDone
    PROVE  RingBody'
<1>1. /\ ~update_started' /\ in_use' = in_use /\ delivered' = delivered
      /\ total_size' = total_size /\ rejected' = rejected
      /\ pc' = pc /\ lock' = lock /\ status = "running" /\ update_started
  BY DEF StartAlreadyStarted, CompleteDone, AbortDone, FreeAndStopService,
         StartGuard, Serving, Accepted, history, thread
<1>2. RingShape /\ RingContents /\ ThreadState /\ ThreadOK
  BY <1>1 DEF RingBody, HandlerInv, TypeOK
<1>3. Queued = 0
  <2>1. CASE StartAlreadyStarted(t)
    BY <2>1, <1>1, <1>2 DEF StartAlreadyStarted, Parked, Queued, InHand, ThreadState
  <2>2. CASE CompleteDone \/ AbortDone
    BY <2>2, <1>2, RingEmpty DEF CompleteDone, AbortDone
  <2> QED BY <2>1, <2>2
<1>4. pc \in {"acquire", "advance"} /\ lock = 0
  BY <1>1, <1>2, <1>3 DEF Queued, InHand, ThreadOK, ThreadState
<1>5. \A s \in Slots : ~in_use[s]
  BY <1>2, <1>3, RingEmpty
<1>6. ASSUME CompleteSuccess' PROVE delivered' = total_size' /\ ~rejected'
  <2>1. CompleteDone
    BY <1>6 DEF CompleteSuccess, StartAlreadyStarted, AbortDone, Answer, Reply, AbortOp
  <2>2. CompleteVerdict = "continue" /\ CompleteStatus = "success"
    BY <2>1, <1>6 DEF CompleteDone, CompleteSuccess, Answer, Reply
  <2>3. head_offset = total_size /\ ~data_error
    BY <2>2 DEF CompleteVerdict, CompleteStatus
  <2> QED BY <2>3, <1>1, <1>2, <1>3 DEF RingContents, ThreadState
<1> QED BY <1>1, <1>4, <1>5, <1>6, RingIdle

\* A start that runs out of memory leaves an empty ring empty.
LEMMA RingNoMemory ==
    ASSUME HandlerInv, HandlerInv', RingBody, NEW t, NEW n, NEW k \in Slots,
           StartNoMemory(t, n, k)
    PROVE  RingBody'
<1>1. status = "running" /\ ~update_started /\ RingShape /\ ThreadOK /\ ThreadState
  BY DEF StartNoMemory, StartGuard, RingBody, HandlerInv, TypeOK
<1>2. Queued = 0
  BY <1>1 DEF RingShape
<1>3. pc' \in {"acquire", "advance"} /\ lock' = 0
  BY <1>1, <1>2 DEF Queued, InHand, ThreadOK, ThreadState, StartNoMemory, thread
<1>4. \A s \in Slots : ~in_use'[s]
  BY <1>1, <1>2, RingEmpty DEF StartNoMemory
<1>5. ~CompleteSuccess'
  BY DEF CompleteSuccess, StartNoMemory, Reply
<1> QED BY <1>1, <1>3, <1>4, <1>5, RingIdle DEF StartNoMemory

\* An accepted start finds the thread parked and the ring empty, or overlaps.
LEMMA RingAccepted ==
    ASSUME HandlerInv, HandlerInv', RingBody, NEW t, NEW n, ~overlap',
           StartAccepted(t, n)
    PROVE  RingBody'
<1> USE SlotsNonEmpty, PoolAssumption
<1>1. status = "running" /\ pc = "acquire" /\ lock = 0
  BY DEF StartAccepted, StartGuard, Parked, HandlerInv, ThreadState
<1>2. First' = 0 /\ Queued' = 0 /\ pc' = "acquire"
  BY <1>1 DEF StartAccepted, First, Queued, InHand, thread
<1>3. \A s \in Slots : ~(Distance(First', s) < Queued')
  BY <1>2, RingDistance
<1>4. RingShape'
  BY <1>2, <1>3 DEF RingShape, StartAccepted, Wrap
<1>5. RingContents'
  BY <1>2 DEF RingContents, StartAccepted
<1>6. HeadContents'
  BY <1>2 DEF HeadContents, StartAccepted
<1>7. ~CompleteSuccess'
  BY DEF CompleteSuccess, StartAccepted, Reply
<1> QED BY <1>2, <1>4, <1>5, <1>6, <1>7 DEF RingBody, StartAccepted

\* The firmware thread's steps.
LEMMA RingThreadAdvance ==
    ASSUME HandlerInv, HandlerInv', RingBody, ThreadAcquire \/ ThreadExit \/ ThreadAdvance
    PROVE  RingBody'
<1>1. /\ UNCHANGED << update_started, total_size, in_use, chunk, data, chunk_pool_head,
                      head_offset, tail_offset, reply, delivered, rejected >>
      /\ status' = "running" => status = "running"
      /\ pc' \in {"check", "stopped", "acquire"}
  BY DEF ThreadAcquire, ThreadExit, ThreadAdvance, processing, history
<1>2. ASSUME status' = "running"
      PROVE  RingShape' /\ RingContents' /\ HeadContents'
  <2>1. RingShape /\ RingContents /\ HeadContents
    BY <1>1, <1>2 DEF RingBody
  <2>2. First' = First /\ Queued' = Queued /\ Base' = Base
    <3>1. lock \in Nat
      BY DEF HandlerInv, TypeOK, ThreadOK
    <3>2. CASE ThreadAcquire
      BY <3>1, <3>2 DEF ThreadAcquire, First, Queued, InHand, Base, processing, history
    <3>3. CASE ThreadAdvance
      BY <3>3, <1>2 DEF ThreadAdvance, First, Queued, InHand, Base, history
    <3> QED BY <3>2, <3>3, <1>2 DEF ThreadExit
  <2>3. RingShape'
    BY <1>1, <2>1, <2>2 DEF RingShape
  <2>4. RingContents'
    BY <1>1, <2>1, <2>2 DEF RingContents, ChunkHoldsImage
  <2>5. HeadContents'
    BY <1>1, <2>1 DEF HeadContents
  <2> QED BY <2>3, <2>4, <2>5
<1>3. CompleteSuccess' <=> CompleteSuccess
  BY <1>1 DEF CompleteSuccess
<1> QED BY <1>1, <1>2, <1>3 DEF RingBody

\* The thread hands the chunk at the tail to the application.
LEMMA RingThreadCall ==
    ASSUME HandlerInv, HandlerInv', RingBody, ThreadCall
    PROVE  RingBody'
<1>1. /\ UNCHANGED << update_started, total_size, in_use, chunk, data, chunk_pool_head,
                      chunk_pool_tail, head_offset, tail_offset, reply, delivered,
                      rejected, status, lock >>
      /\ pc = "check" /\ pc' = "callback" /\ slot' = chunk_pool_tail
  BY DEF ThreadCall, processing, history
<1>2. status = "running"
  BY <1>1 DEF ThreadCall, HandlerInv, TypeOK, ThreadOK, ThreadState
<1>3. RingShape /\ RingContents /\ HeadContents
  BY <1>2 DEF RingBody
<1>4. First' = First /\ Queued' = Queued /\ Base' = delivered /\ Base = delivered
        /\ First = chunk_pool_tail /\ Queued > 0
  BY <1>1 DEF First, Queued, InHand, Base, HandlerInv, TypeOK, ThreadOK
<1>5. RingShape'
  BY <1>1, <1>3, <1>4 DEF RingShape
<1>6. RingContents'
  BY <1>1, <1>3, <1>4 DEF RingContents, ChunkHoldsImage
<1>7. HeadContents'
  BY <1>1, <1>3 DEF HeadContents
<1>8. in_use[First] /\ First \in Slots
  BY <1>3, <1>4, RingEmpty, RingTypes
<1>9. ChunkIsNext(slot)'
  BY <1>1, <1>3, <1>4, <1>8 DEF ChunkIsNext, RingContents, ChunkHoldsImage
<1>10. update_started /\ (CompleteSuccess' <=> CompleteSuccess)
  BY <1>1, <1>3, <1>4 DEF CompleteSuccess, RingShape
<1> QED BY <1>1, <1>5, <1>6, <1>7, <1>9, <1>10 DEF RingBody

\* The application returns: what it has taken grows by the chunk.
LEMMA RingThreadReturn ==
    ASSUME HandlerInv, HandlerInv', RingBody, NEW error \in BOOLEAN, ThreadReturn(error)
    PROVE  RingBody'
<1>1. /\ UNCHANGED << update_started, total_size, in_use, chunk, data, chunk_pool_head,
                      chunk_pool_tail, head_offset, tail_offset, reply,
                      status, lock, slot >>
      /\ pc = "callback" /\ pc' = "release" /\ delivered' = delivered + chunk[slot].size
  BY DEF ThreadReturn
<1>2. update_started /\ ~CompleteSuccess /\ ~CompleteSuccess'
  BY <1>1 DEF RingBody, CompleteSuccess
<1>3. ASSUME status = "running"
      PROVE  RingShape' /\ RingContents' /\ HeadContents'
  <2>1. RingShape /\ RingContents /\ HeadContents
    BY <1>3 DEF RingBody
  <2>2. delivered \in Int /\ chunk[slot].size \in Int
    BY DEF HandlerInv, TypeOK, RingOK, CountersOK, Chunks
  <2>3. First' = First /\ Queued' = Queued /\ Base' = Base /\ Queued > 0
    BY <1>1, <2>2 DEF First, Queued, InHand, Base, HandlerInv, TypeOK, ThreadOK
  <2>4. RingShape'
    BY <1>1, <2>1, <2>3 DEF RingShape
  <2>5. RingContents'
    BY <1>1, <2>1, <2>3 DEF RingContents, ChunkHoldsImage
  <2>6. HeadContents'
    BY <1>1, <2>1 DEF HeadContents
  <2> QED BY <2>4, <2>5, <2>6
<1> QED BY <1>1, <1>2, <1>3 DEF RingBody

\* The thread gives its slot back: the next chunk becomes the oldest.
LEMMA RingThreadRelease ==
    ASSUME HandlerInv, HandlerInv', RingBody, ThreadRelease
    PROVE  RingBody'
<1>1. /\ UNCHANGED << update_started, total_size, chunk, data, chunk_pool_head,
                      chunk_pool_tail, head_offset, tail_offset, reply,
                      status, lock, slot, delivered, rejected >>
      /\ in_use' = [in_use EXCEPT ![slot] = FALSE]
      /\ pc = "release" /\ pc' = "advance"
  BY DEF ThreadRelease, history
<1>2. ASSUME status = "running"
      PROVE  RingShape' /\ RingContents' /\ HeadContents'
  <2>1. RingShape /\ RingContents /\ HeadContents
    BY <1>2 DEF RingBody
  <2>2. slot \in Slots /\ in_use \in [Slots -> BOOLEAN] /\ lock \in Nat
          /\ chunk_pool_head \in Slots /\ NextSlot(slot) \in Slots
          /\ delivered \in Int /\ chunk[slot].size \in Int /\ chunk[slot].offset \in Int
          /\ head_offset \in Nat
    BY NextSlotType DEF HandlerInv, TypeOK, RingOK, ThreadOK, CountersOK, Chunks, OffsetsOK
  <2>3. First = slot /\ Queued = lock + 1 /\ First' = NextSlot(slot) /\ Queued' = lock
          /\ Base = delivered - chunk[slot].size /\ Base' = delivered
    BY <1>1, <2>1 DEF First, Queued, InHand, Base, RingShape
  <2>4. Queued >= 1 /\ Queued <= PoolSize /\ Queued \in Nat /\ Queued' = Queued - 1
    BY <2>1, <2>2, <2>3 DEF RingShape
  <2>5. /\ Wrap(First' + Queued') = Wrap(First + Queued)
        /\ \A s \in Slots : Distance(First', s) < Queued' <=> (Distance(First, s) < Queued /\ s # slot)
        /\ Queued > 1 => NextSlot(slot) # Wrap(First + Queued)
        /\ Queued = 1 => NextSlot(slot) = Wrap(First + Queued)
    BY <2>2, <2>3, <2>4, RingPop
  <2>6. \A s \in Slots : in_use'[s] <=> (in_use[s] /\ s # slot)
    BY <1>1, <2>2
  <2>7. update_started /\ chunk_pool_head = Wrap(First + Queued)
    <3>1. update_started
      BY <2>1, <2>4 DEF RingShape
    <3> QED BY <3>1, <2>1 DEF RingShape
  <2>8. RingShape'
    <3>1. \A s \in Slots : in_use'[s] <=> Distance(First', s) < Queued'
      BY <2>1, <2>5, <2>6 DEF RingShape
    <3>2. chunk_pool_head' = Wrap(First' + Queued')
      BY <1>1, <2>5, <2>7
    <3>3. Queued' <= PoolSize
      BY <2>4, PoolAssumption
    <3>4. pc' \notin {"callback", "release"} /\ update_started'
      BY <1>1, <2>7
    <3> HIDE DEF First, Queued
    <3> QED BY <3>1, <3>2, <3>3, <3>4 DEF RingShape
  <2>9. in_use[slot] /\ chunk[slot].offset = delivered - chunk[slot].size
    BY <2>1, <2>3, <2>4, RingEmpty DEF RingContents
  <2>10. delivered = IF NextSlot(slot) = chunk_pool_head THEN head_offset
                                               ELSE chunk[NextSlot(slot)].offset
    BY <2>1, <2>2, <2>9 DEF RingContents
  <2>11. RingContents'
    <3>1. Queued' > 0 => chunk'[First'].offset = Base'
      <4>1. SUFFICES ASSUME Queued' > 0 PROVE chunk'[First'].offset = Base'
        OBVIOUS
      <4>2. NextSlot(slot) # chunk_pool_head
        BY <4>1, <2>4, <2>5, <2>7
      <4>3. delivered = chunk[NextSlot(slot)].offset
        BY <4>2, <2>10
      <4> QED BY <4>3, <2>3, <1>1
    <3>2. Queued' = 0 => delivered' = head_offset'
      BY <1>1, <2>2, <2>3, <2>4, <2>5, <2>7, <2>10
    <3>3. \A s \in Slots : in_use'[s] => ChunkHoldsImage(s)'
      BY <1>1, <2>1, <2>6 DEF RingContents, ChunkHoldsImage
    <3>4. \A s \in Slots : in_use'[s] =>
             chunk'[s].offset + chunk'[s].size =
               IF NextSlot(s) = chunk_pool_head' THEN head_offset'
                                                ELSE chunk'[NextSlot(s)].offset
      BY <1>1, <2>1, <2>6 DEF RingContents
    <3> QED BY <3>1, <3>2, <3>3, <3>4 DEF RingContents
  <2>12. HeadContents'
    BY <1>1, <2>1, <2>2, <2>6 DEF HeadContents
  <2> QED BY <2>8, <2>11, <2>12
<1>3. CompleteSuccess' <=> CompleteSuccess
  BY <1>1 DEF CompleteSuccess
<1> QED BY <1>1, <1>2, <1>3 DEF RingBody

\* Once the thread was asked to stop nothing more is promised of the ring.
LEMMA RingStop ==
    ASSUME HandlerInv, RingBody, StopThread
    PROVE  RingBody'
<1>1. UNCHANGED << processing, chunk_size, pc, slot, reply, history >> /\ status' # "running"
  BY DEF StopThread
<1>2. CompleteSuccess' <=> CompleteSuccess
  BY <1>1 DEF CompleteSuccess
<1>3. pc' = "callback" => ChunkIsNext(slot)'
  BY <1>1 DEF RingBody, ChunkIsNext, processing, history
<1> QED BY <1>1, <1>2, <1>3 DEF RingBody, processing, history

-----------------------------------------------------------------------------
\* What the data handler writes: the bytes of the image, into the free slot at
\* the head and nowhere else.
LEMMA CopyContents ==
    ASSUME HandlerInv, HandlerInv', HeadContents, DataCopied
    PROVE  /\ \A s \in Slots : s # chunk_pool_head => data'[s] = data[s]
           /\ \A i \in 0 .. (NextHeadOffset - head_offset - 1) :
                i \in DOMAIN data'[chunk_pool_head] /\ data'[chunk_pool_head][i] = head_offset + i
<1> DEFINE c == chunk_size[target]
           h == chunk_pool_head
           pos == tail_offset % c
           src == req.offset + ccfsm_bytes_processed
           new == [i \in DOMAIN data[h] |->
                     IF i >= pos /\ i < pos + BytesToCopy
                     THEN src + (i - pos) ELSE data[h][i]]
<1>1. Serving("data") /\ Accepted /\ ~data_error /\ InOrder /\ HeadFree
  BY DEF DataCopied
<1>2. /\ c \in Nat /\ c > 0
      /\ pos = tail_offset - head_offset
      /\ BytesToCopy \in Nat /\ BytesToCopy > 0
      /\ NextHeadOffset = tail_offset + BytesToCopy
      /\ NextHeadOffset <= head_offset + c
      /\ src = tail_offset
      /\ head_offset <= tail_offset
  BY <1>1, CopyFacts
<1>3. head_offset \in Nat /\ tail_offset \in Nat /\ update_started
        /\ data = [s \in Slots |-> data[s]] /\ h \in Slots
        /\ DOMAIN data[h] = 0 .. (c - 1)
  BY <1>1 DEF HandlerInv, TypeOK, OffsetsOK, BuffersOK, RingOK, Buffered, Accepted
<1>4. data' = [data EXCEPT ![h] = new]
  BY <1>2, <1>3 DEF DataCopied, Memcpy
<1>5. \A i \in 0 .. (tail_offset - head_offset - 1) : data[h][i] = head_offset + i
  BY <1>3 DEF HeadContents
<1>6. data'[h] = new /\ \A s \in Slots : s # h => data'[s] = data[s]
  BY <1>3, <1>4
<1> HIDE DEF c, pos, src
<1>7. \A i \in 0 .. (NextHeadOffset - head_offset - 1) : i \in DOMAIN new /\ new[i] = head_offset + i
  <2> SUFFICES ASSUME NEW i \in 0 .. (NextHeadOffset - head_offset - 1)
               PROVE  i \in DOMAIN new /\ new[i] = head_offset + i
    OBVIOUS
  <2>1. i \in 0 .. (c - 1)
    BY <1>2, <1>3
  <2>2. i \in DOMAIN data[h]
    BY <2>1, <1>3
  <2>3. CASE i >= pos
    BY <2>2, <2>3, <1>2, <1>3
  <2>4. CASE i < pos
    <3>1. data[h][i] = head_offset + i
      BY <2>4, <1>2, <1>3, <1>5
    <3> QED BY <3>1, <2>2, <2>4, <1>2, <1>3
  <2> QED BY <2>3, <2>4, <1>2, <1>3
<1> QED BY <1>6, <1>7

\* The data handler's copy extends the chunk at the head, and queues it when
\* full behind the ones in use.
LEMMA RingCopied ==
    ASSUME HandlerInv, HandlerInv', RingBody, DataCopied
    PROVE  RingBody'
<1> DEFINE c == chunk_size[target]
           h == chunk_pool_head
<1>1. Serving("data") /\ Accepted /\ ~data_error /\ InOrder /\ HeadFree
  BY DEF DataCopied
<1>2. status = "running" /\ update_started /\ ~in_use[h]
  BY <1>1 DEF Serving, Accepted, HeadFree
<1>3. RingShape /\ RingContents /\ HeadContents
  BY <1>2 DEF RingBody
<1>4. /\ BytesToCopy \in Nat /\ BytesToCopy > 0
      /\ NextHeadOffset = tail_offset + BytesToCopy
      /\ NextHeadOffset \in Nat
      /\ NextHeadOffset <= total_size
      /\ head_offset <= tail_offset
  BY <1>1, CopyFacts
<1>5. /\ head_offset \in Nat /\ tail_offset \in Nat /\ total_size \in Nat /\ lock \in Nat
      /\ h \in Slots /\ NextSlot(h) \in Slots
      /\ in_use \in [Slots -> BOOLEAN] /\ chunk \in [Slots -> Chunks]
      /\ First \in Slots /\ Queued \in Nat
  BY RingTypes, NextSlotType DEF HandlerInv, TypeOK, OffsetsOK, RingOK, ThreadOK
<1>6. /\ tail_offset' = NextHeadOffset
      /\ \/ ChunkFull /\ QueueChunk
         \/ ~ChunkFull /\ UNCHANGED << chunk, head_offset, in_use, lock, chunk_pool_head >>
      /\ UNCHANGED << update_started, target, total_size,
                    chunk_pool_tail, chunk_size, status, pc, slot, delivered, rejected >>
      /\ \E cb, st : Answer(cb, st)
  BY <1>4, <1>5 DEF DataCopied, history, AdvancePacket
<1>7. /\ \A s \in Slots : s # h => data'[s] = data[s]
      /\ \A i \in 0 .. (NextHeadOffset - head_offset - 1) :
           i \in DOMAIN data'[h] /\ data'[h][i] = head_offset + i
  BY <1>3, CopyContents
<1>8. Queued < PoolSize /\ (Queued > 0 => in_use[First])
  BY <1>2, <1>3, RingEmpty
<1>9. h = Wrap(First + Queued)
  BY <1>2, <1>3 DEF RingShape
<1>10. First' = First
  BY <1>6 DEF First
<1>11. ~CompleteSuccess'
  BY <1>6, <1>1 DEF CompleteSuccess, Answer, Reply, Serving
<1>12. pc = "release" => slot # h /\ slot \in Slots
  BY <1>2, <1>3, <1>8, <1>5 DEF RingShape, First, Queued, InHand, HandlerInv, TypeOK, RingOK
<1>13. pc' = "callback" => ChunkIsNext(slot)'
  <2> SUFFICES ASSUME pc = "callback" PROVE ChunkIsNext(slot)'
    BY <1>6
  <2>1. ChunkIsNext(slot) /\ slot \in Slots
    BY DEF RingBody, HandlerInv, TypeOK, RingOK
  <2>2. slot # h
    BY <2>1, <1>2 DEF ChunkIsNext
  <2>3. in_use'[slot] = in_use[slot] /\ chunk'[slot] = chunk[slot] /\ data'[slot] = data[slot]
    BY <2>1, <2>2, <1>5, <1>6, <1>7 DEF QueueChunk
  <2> QED BY <2>1, <2>3, <1>6 DEF ChunkIsNext
<1>14. CASE ~ChunkFull
  <2>1. UNCHANGED << chunk, head_offset, in_use, lock, chunk_pool_head >>
    BY <1>6, <1>14
  <2>2. Queued' = Queued /\ Base' = Base
    BY <2>1, <1>6 DEF Queued, InHand, Base
  <2>3. RingShape'
    BY <2>1, <2>2, <1>3, <1>6, <1>10 DEF RingShape
  <2>4. RingContents'
    <3>1. \A s \in Slots : in_use'[s] => ChunkHoldsImage(s)'
      <4> SUFFICES ASSUME NEW s \in Slots, in_use[s] PROVE ChunkHoldsImage(s)'
        BY <2>1
      <4>1. s # h /\ data'[s] = data[s] /\ ChunkHoldsImage(s)
        BY <1>2, <1>3, <1>7 DEF RingContents
      <4> QED BY <4>1, <2>1, <1>6 DEF ChunkHoldsImage
    <3> QED BY <3>1, <2>1, <2>2, <1>3, <1>6, <1>10 DEF RingContents
  <2>5. HeadContents'
    BY <2>1, <1>2, <1>6, <1>7 DEF HeadContents
  <2> QED BY <2>3, <2>4, <2>5, <1>2, <1>6, <1>11, <1>13 DEF RingBody
<1>15. CASE ChunkFull
  <2>1. /\ chunk' = [chunk EXCEPT ![h] = [offset |-> head_offset,
                                          size |-> NextHeadOffset - head_offset,
                                          last |-> LastChunk]]
        /\ head_offset' = NextHeadOffset
        /\ in_use' = [in_use EXCEPT ![h] = TRUE]
        /\ lock' = lock + 1
        /\ chunk_pool_head' = NextSlot(h)
    BY <1>6, <1>15 DEF QueueChunk
  <2>2. Queued' = Queued + 1
    BY <2>1, <1>5, <1>6 DEF Queued, InHand
  <2>3. /\ NextSlot(h) = Wrap(First + (Queued + 1))
        /\ \A s \in Slots : Distance(First, s) < Queued + 1 <=> (Distance(First, s) < Queued \/ s = h)
    BY <1>5, <1>8, <1>9, RingPush
  <2>4. /\ \A s \in Slots : in_use'[s] <=> (in_use[s] \/ s = h)
        /\ chunk'[h].offset = head_offset /\ chunk'[h].size = NextHeadOffset - head_offset
        /\ chunk'[h].last = LastChunk
        /\ \A s \in Slots : s # h => chunk'[s] = chunk[s]
    BY <2>1, <1>5
  <2>5. RingShape'
    <3>1. \A s \in Slots : in_use'[s] <=> Distance(First', s) < Queued'
      BY <2>2, <2>3, <2>4, <1>3, <1>10 DEF RingShape
    <3>2. chunk_pool_head' = Wrap(First' + Queued') /\ Queued' <= PoolSize /\ update_started'
      BY <2>1, <2>2, <2>3, <1>2, <1>5, <1>6, <1>8, <1>10, PoolAssumption
    <3>3. pc' \in {"callback", "release"} => slot' = chunk_pool_tail'
      BY <1>3, <1>6 DEF RingShape
    <3> QED BY <3>1, <3>2, <3>3 DEF RingShape
  <2>6. RingContents'
    <3>1. Base' = Base
      BY <2>4, <1>6, <1>12 DEF Base
    <3>2. chunk'[First'].offset = Base'
      <4>1. CASE Queued = 0
        <5>1. First = h
          BY <4>1, <1>5, <1>9, PoolAssumption DEF Wrap, Slots
        <5>2. pc # "release"
          BY <4>1, <1>5 DEF Queued, InHand
        <5>3. delivered = head_offset /\ Base = delivered
          BY <4>1, <5>2, <1>2, <1>3 DEF RingContents, Base
        <5> QED BY <5>1, <5>3, <3>1, <2>4, <1>10
      <4>2. CASE Queued > 0
        <5>1. First # h /\ chunk[First].offset = Base
          BY <4>2, <1>2, <1>3, <1>8 DEF RingContents
        <5> QED BY <5>1, <3>1, <2>4, <1>5, <1>10
      <4> QED BY <4>1, <4>2, <1>5
    <3>3. \A s \in Slots : in_use'[s] => ChunkHoldsImage(s)'
      <4> SUFFICES ASSUME NEW s \in Slots, in_use'[s] PROVE ChunkHoldsImage(s)'
        OBVIOUS
      <4>1. CASE s = h
        <5>1. chunk'[h].last <=> (chunk'[h].offset + chunk'[h].size = total_size)
          <6>1. chunk'[h].offset + chunk'[h].size = NextHeadOffset
            BY <2>4, <1>4, <1>5
          <6> QED BY <6>1, <2>4, Zenon DEF LastChunk
        <5>2. chunk'[h].size > 0 /\ chunk'[h].offset + chunk'[h].size <= total_size
          BY <2>4, <1>4, <1>5
        <5>3. \A i \in 0 .. (chunk'[h].size - 1) :
                 i \in DOMAIN data'[h] /\ data'[h][i] = chunk'[h].offset + i
          BY <2>4, <1>7
        <5> QED BY <4>1, <5>1, <5>2, <5>3, <1>6 DEF ChunkHoldsImage
      <4>2. CASE s # h
        <5>1. data'[s] = data[s] /\ chunk'[s] = chunk[s] /\ ChunkHoldsImage(s)
          BY <4>2, <2>4, <1>3, <1>7 DEF RingContents
        <5> QED BY <5>1, <1>6 DEF ChunkHoldsImage
      <4> QED BY <4>1, <4>2
    <3>4. \A s \in Slots : in_use'[s] =>
             chunk'[s].offset + chunk'[s].size =
               IF NextSlot(s) = chunk_pool_head' THEN head_offset'
                                                 ELSE chunk'[NextSlot(s)].offset
      <4> SUFFICES ASSUME NEW s \in Slots, in_use'[s]
                   PROVE  chunk'[s].offset + chunk'[s].size =
                            IF NextSlot(s) = NextSlot(h) THEN NextHeadOffset
                                                         ELSE chunk'[NextSlot(s)].offset
        BY <2>1
      <4>1. CASE s = h
        BY <4>1, <2>4, <1>4, <1>5
      <4>2. CASE s # h
        <5>1. NextSlot(s) # NextSlot(h) /\ NextSlot(s) \in Slots
          BY <4>2, <1>5, NextSlotInjective, NextSlotType
        <5>2. chunk'[s] = chunk[s] /\ in_use[s]
          BY <4>2, <2>4
        <5>3. chunk[s].offset + chunk[s].size =
                IF NextSlot(s) = h THEN head_offset ELSE chunk[NextSlot(s)].offset
          BY <5>2, <1>3 DEF RingContents
        <5>4. chunk'[NextSlot(s)].offset =
                IF NextSlot(s) = h THEN head_offset ELSE chunk[NextSlot(s)].offset
          BY <5>1, <2>4
        <5> QED BY <5>1, <5>2, <5>3, <5>4
      <4> QED BY <4>1, <4>2
    <3>5. Queued' # 0
      BY <2>2, <1>5
    <3> QED BY <3>2, <3>3, <3>4, <3>5 DEF RingContents
  <2>7. HeadContents'
    BY <2>1, <1>4, <1>6 DEF HeadContents
  <2> QED BY <2>5, <2>6, <2>7, <1>2, <1>6, <1>11, <1>13 DEF RingBody
<1> QED BY <1>14, <1>15

(***************************************************************************)
(* The ring invariant is inductive relative to the handlers' bookkeeping.  *)
(***************************************************************************)
LEMMA RingNext == HandlerInv /\ HandlerInv' /\ RingInv /\ [Next]_vars => RingInv'
<1> SUFFICES ASSUME HandlerInv, HandlerInv', RingInv, [Next]_vars, ~overlap'
             PROVE  RingBody'
  BY DEF RingInv
<1>1. ~overlap
  <2>1. Next => (overlap => overlap')
    BY DEF Next, Start, Issue, Disconnect, Serve, ServeData, ServeComplete, ServeAbort,
           ThreadStep, StopThread, StartBadTarget, StartAlreadyStarted, StartRefused,
           StartNoMemory, StartAccepted, IssueData, IssueOther, DataRejected, DataInvalid,
           DataBusy, DataCopied, CompleteRejected, CompleteBusy, CompleteDone,
           AbortRejected, AbortBusy, AbortDone, Reset, ThreadAcquire, ThreadExit,
           ThreadCall, ThreadReturn, ThreadRelease, ThreadAdvance, history
  <2> QED BY <2>1 DEF vars, history
<1>2. RingBody
  BY <1>1 DEF RingInv
<1>3. ASSUME UNCHANGED << processing, chunk_size, thread, history >>,
             CompleteSuccess' => CompleteSuccess
      PROVE  RingBody'
  BY <1>2, <1>3, RingQuiet DEF history
<1>4. CASE Start
  <2>1. PICK t \in Targets \cup {BadTarget} :
          \/ StartBadTarget(t)
          \/ StartAlreadyStarted(t)
          \/ \E n \in CodeSizes :
               \/ StartRefused(t, n)
               \/ StartAccepted(t, n)
               \/ \E k \in Slots : StartNoMemory(t, n, k)
    BY <1>4 DEF Start
  <2>2. CASE StartBadTarget(t) \/ \E n \in CodeSizes : StartRefused(t, n)
    BY <2>2, <1>3 DEF StartBadTarget, StartRefused, CompleteSuccess, Reply
  <2>3. CASE StartAlreadyStarted(t)
    BY <2>3, <1>2, RingFree
  <2>4. ASSUME NEW n \in CodeSizes, StartAccepted(t, n) PROVE RingBody'
    BY <2>4, <1>2, RingAccepted
  <2>5. ASSUME NEW n \in CodeSizes, NEW k \in Slots, StartNoMemory(t, n, k) PROVE RingBody'
    BY <2>5, <1>2, RingNoMemory
  <2> QED BY <2>1, <2>2, <2>3, <2>4, <2>5
<1>5. CASE Issue \/ Disconnect
  BY <1>5, <1>3 DEF Issue, IssueData, IssueOther, Disconnect, CompleteSuccess
<1>6. CASE Serve
  <2>1. CASE DataCopied
    BY <2>1, <1>2, RingCopied
  <2>2. CASE CompleteDone \/ AbortDone
    BY <2>2, <1>2, RingFree
  <2>3. CASE DataRejected \/ DataInvalid \/ DataBusy \/ CompleteRejected
               \/ CompleteBusy \/ AbortRejected \/ AbortBusy \/ Reset
    <3>1. UNCHANGED << processing, chunk_size, thread, history >>
      BY <2>3 DEF DataRejected, DataInvalid, DataBusy, CompleteRejected, CompleteBusy,
         AbortRejected, AbortBusy, Reset
    <3>2. ~CompleteSuccess'
      BY <2>3 DEF DataRejected, DataInvalid, DataBusy, CompleteRejected, CompleteBusy,
         AbortRejected, AbortBusy, Reset, Answer, Reply, Serving, AbortOp, CompleteSuccess
    <3> QED BY <3>1, <3>2, <1>3
  <2> QED BY <1>6, <2>1, <2>2, <2>3 DEF Serve, ServeData, ServeComplete, ServeAbort
<1>7. CASE ThreadStep
  BY <1>7, <1>2, RingThreadAdvance, RingThreadCall, RingThreadReturn, RingThreadRelease
     DEF ThreadStep
<1>8. CASE StopThread
  BY <1>8, <1>2, RingStop
<1>9. CASE UNCHANGED vars
  BY <1>9, <1>3 DEF vars, CompleteSuccess
<1> QED BY <1>4, <1>5, <1>6, <1>7, <1>8, <1>9 DEF Next

\* The ring's invariant: until a start pulls the ring from under the firmware
\* thread, the slots in use are those the semaphore counts and the one in hand,
\* and hold consecutive pieces of the image.
THEOREM RingCorrect == Spec => []RingInv
<1>1. HandlerInv /\ RingInv /\ HandlerInv' /\ [Next]_vars => RingInv'
  BY RingNext
<1> QED BY <1>1, RingInit, HandlerCorrect, PTL DEF Spec

(***************************************************************************)
(* What the application's data callback reads is the image, in order and   *)
(* whole, for every pool size, chunk size, packet size and interleaving    *)
(* with the handlers, until a start overlaps the thread.                   *)
(***************************************************************************)
THEOREM CallbackCorrect == Spec => []CallbackReadsImage
<1>1. RingInv => CallbackReadsImage
  BY DEF RingInv, RingBody, CallbackReadsImage
<1> QED BY <1>1, RingCorrect, PTL

(***************************************************************************)
(* ASSERT_MSG(chunk_pool_tail->in_use == CCAPI_TRUE) holds until a start   *)
(* overlaps the thread: the semaphore counts exactly the chunks queued.    *)
(***************************************************************************)
THEOREM TailCorrect == Spec => []TailInUse
<1>1. HandlerInv /\ RingInv => TailInUse
  <2> SUFFICES ASSUME HandlerInv, RingBody, pc = "check", status # "request_stop"
               PROVE  in_use[chunk_pool_tail]
    BY DEF RingInv, TailInUse, AssertTailInUse
  <2>1. status = "running"
    BY DEF HandlerInv, TypeOK, ThreadOK, ThreadState
  <2>2. RingShape /\ First = chunk_pool_tail /\ Queued > 0
    BY <2>1 DEF RingBody, First, Queued, InHand, HandlerInv, TypeOK, ThreadOK
  <2> QED BY <2>2, RingEmpty
<1> QED BY <1>1, RingCorrect, HandlerCorrect, PTL

(***************************************************************************)
(* The server is told a download is complete only when the application has *)
(* taken the whole image and refused none of it.                           *)
(***************************************************************************)
THEOREM CompleteCorrect == Spec => []CompleteIsHonest
<1>1. RingInv => CompleteIsHonest
  BY DEF RingInv, RingBody, CompleteIsHonest
<1> QED BY <1>1, RingCorrect, PTL


(***************************************************************************)
(* While no download is on there is no buffer, unless an allocation has    *)
(* failed half way.                                                        *)
(***************************************************************************)
Unbuffered == ~update_started /\ failures = 0 => \A s \in Slots : data[s] = NULL

LEMMA UnbufferedNext == HandlerInv /\ Unbuffered /\ [Next]_vars => Unbuffered'
<1> SUFFICES ASSUME HandlerInv, Unbuffered, [Next]_vars PROVE Unbuffered'
  OBVIOUS
<1>1. ASSUME UNCHANGED << update_started, data, failures >> PROVE Unbuffered'
  BY <1>1 DEF Unbuffered
<1>2. ASSUME FreeAndStopService PROVE Unbuffered'
  BY <1>2 DEF Unbuffered, FreeAndStopService
<1>3. CASE Start
  <2>1. PICK t \in Targets \cup {BadTarget} :
          \/ StartBadTarget(t)
          \/ StartAlreadyStarted(t)
          \/ \E n \in CodeSizes :
               \/ StartRefused(t, n)
               \/ StartAccepted(t, n)
               \/ \E k \in Slots : StartNoMemory(t, n, k)
    BY <1>3 DEF Start
  <2>2. CASE StartBadTarget(t) \/ \E n \in CodeSizes : StartRefused(t, n)
    BY <2>2, <1>1 DEF StartBadTarget, StartRefused, processing, history
  <2>3. CASE StartAlreadyStarted(t)
    BY <2>3, <1>2 DEF StartAlreadyStarted
  <2>4. ASSUME NEW n \in CodeSizes, StartAccepted(t, n) PROVE Unbuffered'
    BY <2>4 DEF StartAccepted, Unbuffered
  <2>5. ASSUME NEW n \in CodeSizes, NEW k \in Slots, StartNoMemory(t, n, k) PROVE Unbuffered'
    <3>1. failures \in Nat
      BY DEF HandlerInv, TypeOK, CountersOK
    <3>2. failures' # 0
      BY <3>1, <2>5 DEF StartNoMemory
    <3> QED BY <3>2 DEF Unbuffered
  <2> QED BY <2>1, <2>2, <2>3, <2>4, <2>5
<1>4. CASE Issue \/ Disconnect
  BY <1>4, <1>1 DEF Issue, IssueData, IssueOther, Disconnect, processing, history
<1>5. CASE Serve
  <2>1. CASE DataCopied
    BY <2>1 DEF DataCopied, Accepted, Unbuffered
  <2>2. CASE CompleteDone \/ AbortDone
    BY <2>2, <1>2 DEF CompleteDone, AbortDone
  <2>3. CASE DataRejected \/ DataInvalid \/ DataBusy \/ CompleteRejected
               \/ CompleteBusy \/ AbortRejected \/ AbortBusy \/ Reset
    BY <2>3, <1>1 DEF DataRejected, DataInvalid, DataBusy, CompleteRejected, CompleteBusy,
       AbortRejected, AbortBusy, Reset, processing, history
  <2> QED BY <1>5, <2>1, <2>2, <2>3 DEF Serve, ServeData, ServeComplete, ServeAbort
<1>6. CASE ThreadStep \/ StopThread
  BY <1>6, <1>1 DEF ThreadStep, ThreadAcquire, ThreadExit, ThreadCall, ThreadReturn,
     ThreadRelease, ThreadAdvance, StopThread, processing, history
<1>7. CASE UNCHANGED vars
  BY <1>7, <1>1 DEF vars, processing, history
<1> QED BY <1>3, <1>4, <1>5, <1>6, <1>7 DEF Next

(***************************************************************************)
(* Every slot has a buffer of the target's chunk size while a download is  *)
(* on, also while the handlers and the thread race; and none is left when  *)
(* it ends, unless an allocation failed half way.                          *)
(***************************************************************************)
THEOREM PoolCorrect == Spec => []PoolLifetime
<1>1. Init => Unbuffered
  BY DEF Init, Unbuffered
<1>2. HandlerInv /\ Unbuffered => PoolLifetime
  BY DEF HandlerInv, Buffered, Unbuffered, PoolLifetime
<1> QED BY <1>1, <1>2, UnbufferedNext, HandlerCorrect, PTL DEF Spec

----------------------------------------------------------------------------
(***************************************************************************)
(* The firmware update service implements FirmwareDownload, for every pool *)
(* size, chunk size, packet size and image: the initial states map to its  *)
(* initial state, and every step maps to one of its steps or to a stutter. *)
(***************************************************************************)

\* No chunk in the ring goes past what was received; with CallbackReadsImage,
\* what the application takes has been received.
QueuedWasReceived ==
  update_started => \A s \in Slots : in_use[s] => chunk[s].offset + chunk[s].size <= tail_offset

\* A start once pulled the ring from under the thread for good.
LEMMA OverlapStays == [Next]_vars /\ overlap => overlap'
BY DEF Next, Start, Issue, Disconnect, Serve, ServeData, ServeComplete, ServeAbort,
       ThreadStep, StopThread, StartBadTarget, StartAlreadyStarted, StartRefused,
       StartNoMemory, StartAccepted, IssueData, IssueOther, DataRejected, DataInvalid,
       DataBusy, DataCopied, CompleteRejected, CompleteBusy, CompleteDone,
       AbortRejected, AbortBusy, AbortDone, Reset, ThreadAcquire, ThreadExit,
       ThreadCall, ThreadReturn, ThreadRelease, ThreadAdvance, history, vars

\* What DataCopied does to the offsets and the chunk at the head.
LEMMA CopiedFacts ==
  ASSUME HandlerInv, DataCopied
  PROVE  /\ update_started /\ tail_offset' \in (tail_offset + 1) .. total_size
         /\ head_offset <= tail_offset
         /\ \/ chunk' = chunk /\ in_use' = in_use
            \/ /\ chunk' = [chunk EXCEPT ![chunk_pool_head] =
                             [offset |-> head_offset, size |-> tail_offset' - head_offset,
                              last |-> LastChunk]]
               /\ in_use' = [in_use EXCEPT ![chunk_pool_head] = TRUE]
         /\ ~CompleteSuccess'
         /\ UNCHANGED <<update_started, total_size, delivered, rejected, overlap>>
<1>1. Serving("data") /\ Accepted /\ ~data_error /\ InOrder /\ tail_offset' = NextHeadOffset
      /\ UNCHANGED <<update_started, total_size, delivered, rejected, overlap>>
  BY DEF DataCopied, history
<1>2. /\ BytesToCopy \in Nat /\ BytesToCopy > 0 /\ NextHeadOffset = tail_offset + BytesToCopy
      /\ NextHeadOffset \in Nat /\ NextHeadOffset <= total_size /\ head_offset <= tail_offset
  BY <1>1, CopyFacts
<1>3. head_offset \in Nat /\ tail_offset \in Nat /\ total_size \in Nat
  BY DEF HandlerInv, TypeOK, OffsetsOK
<1>4. tail_offset' \in (tail_offset + 1) .. total_size
  BY <1>1, <1>2, <1>3
<1>5. tail_offset >= head_offset
  BY <1>2, <1>3
<1>6. \/ UNCHANGED <<chunk, in_use>>
      \/ QueueChunk
  BY <1>5 DEF DataCopied
<1>7. reply'.op = "data"
  BY <1>1, <1>5 DEF DataCopied, AdvancePacket, Answer, Reply, Serving
<1>8. ~CompleteSuccess'
  BY <1>7 DEF CompleteSuccess
<1> QED BY <1>1, <1>2, <1>4, <1>6, <1>8 DEF QueueChunk, Accepted

LEMMA QueuedNext == HandlerInv /\ QueuedWasReceived /\ [Next]_vars => QueuedWasReceived'
<1> SUFFICES ASSUME HandlerInv, QueuedWasReceived, [Next]_vars, update_started'
             PROVE  \A s \in Slots : in_use'[s] => chunk'[s].offset + chunk'[s].size <= tail_offset'
  BY DEF QueuedWasReceived
<1>1. ASSUME UNCHANGED <<update_started, in_use, chunk, tail_offset>>
      PROVE  \A s \in Slots : in_use'[s] => chunk'[s].offset + chunk'[s].size <= tail_offset'
  BY <1>1 DEF QueuedWasReceived
<1>2. CASE Start
  <2>1. PICK t \in Targets \cup {BadTarget} :
          \/ StartBadTarget(t)
          \/ StartAlreadyStarted(t)
          \/ \E n \in CodeSizes :
               \/ StartRefused(t, n)
               \/ StartAccepted(t, n)
               \/ \E k \in Slots : StartNoMemory(t, n, k)
    BY <1>2 DEF Start
  <2>2. CASE StartBadTarget(t) \/ \E n \in CodeSizes : StartRefused(t, n)
    BY <2>2, <1>1 DEF StartBadTarget, StartRefused, processing
  <2>3. CASE StartAlreadyStarted(t)
    BY <2>3 DEF StartAlreadyStarted, FreeAndStopService
  <2>4. ASSUME NEW n \in CodeSizes, StartAccepted(t, n)
        PROVE  \A s \in Slots : ~in_use'[s]
    BY <2>4 DEF StartAccepted
  <2>5. ASSUME NEW n \in CodeSizes, NEW k \in Slots, StartNoMemory(t, n, k)
        PROVE  FALSE
    BY <2>5 DEF StartNoMemory
  <2> QED BY <2>1, <2>2, <2>3, <2>4, <2>5
<1>3. CASE Issue \/ Disconnect
  BY <1>3, <1>1 DEF Issue, IssueData, IssueOther, Disconnect, processing
<1>4. CASE Serve
  <2>1. CASE DataCopied
    <3>1. /\ update_started /\ tail_offset' \in (tail_offset + 1) .. total_size
          /\ head_offset <= tail_offset
          /\ \/ chunk' = chunk /\ in_use' = in_use
             \/ /\ chunk' = [chunk EXCEPT ![chunk_pool_head] =
                              [offset |-> head_offset, size |-> tail_offset' - head_offset,
                               last |-> LastChunk]]
                /\ in_use' = [in_use EXCEPT ![chunk_pool_head] = TRUE]
      BY <2>1, CopiedFacts
    <3>2. /\ head_offset \in Nat /\ tail_offset \in Nat /\ total_size \in Nat
          /\ chunk \in [Slots -> Chunks] /\ in_use \in [Slots -> BOOLEAN]
      BY DEF HandlerInv, TypeOK, OffsetsOK, RingOK
    <3>3. tail_offset' \in Nat /\ tail_offset <= tail_offset'
      BY <3>1, <3>2
    <3>4. ASSUME NEW s \in Slots, in_use[s], chunk'[s] = chunk[s]
          PROVE  chunk'[s].offset + chunk'[s].size <= tail_offset'
      <4>1. chunk[s].offset + chunk[s].size <= tail_offset
        BY <3>1, <3>4 DEF QueuedWasReceived
      <4>2. chunk[s].offset \in Int /\ chunk[s].size \in Int
        BY <3>2 DEF Chunks
      <4> QED BY <3>2, <3>3, <3>4, <4>1, <4>2
    <3>5. CASE chunk' = chunk /\ in_use' = in_use
      BY <3>4, <3>5
    <3>6. CASE /\ chunk' = [chunk EXCEPT ![chunk_pool_head] =
                             [offset |-> head_offset, size |-> tail_offset' - head_offset,
                              last |-> LastChunk]]
               /\ in_use' = [in_use EXCEPT ![chunk_pool_head] = TRUE]
      <4> SUFFICES ASSUME NEW s \in Slots, in_use'[s]
                   PROVE  chunk'[s].offset + chunk'[s].size <= tail_offset'
        OBVIOUS
      <4>1. CASE s = chunk_pool_head
        <5>1. chunk'[s].offset = head_offset /\ chunk'[s].size = tail_offset' - head_offset
          BY <3>2, <3>6, <4>1
        <5>2. head_offset + (tail_offset' - head_offset) <= tail_offset'
          <6>1. \A h, n \in Nat : h + (n - h) <= n
            OBVIOUS
          <6> QED BY <3>2, <3>3, <6>1
        <5> QED BY <5>1, <5>2
      <4>2. CASE s # chunk_pool_head
        BY <3>2, <3>4, <3>6, <4>2
      <4> QED BY <4>1, <4>2
    <3> QED BY <3>1, <3>5, <3>6
  <2>2. CASE CompleteDone \/ AbortDone
    BY <2>2 DEF CompleteDone, AbortDone, FreeAndStopService
  <2>3. CASE DataRejected \/ DataInvalid \/ DataBusy \/ CompleteRejected
               \/ CompleteBusy \/ AbortRejected \/ AbortBusy \/ Reset
    BY <2>3, <1>1 DEF DataRejected, DataInvalid, DataBusy, CompleteRejected, CompleteBusy,
       AbortRejected, AbortBusy, Reset, processing
  <2> QED BY <1>4, <2>1, <2>2, <2>3 DEF Serve, ServeData, ServeComplete, ServeAbort
<1>5. CASE ThreadRelease
  BY <1>5 DEF ThreadRelease, QueuedWasReceived, HandlerInv, TypeOK, RingOK
<1>6. CASE (ThreadStep /\ ~ThreadRelease) \/ StopThread
  BY <1>6, <1>1 DEF ThreadStep, ThreadAcquire, ThreadExit, ThreadCall, ThreadReturn,
     ThreadAdvance, StopThread, processing
<1>7. CASE UNCHANGED vars
  BY <1>7, <1>1 DEF vars, processing
<1> QED BY <1>2, <1>3, <1>4, <1>5, <1>6, <1>7 DEF Next

-----------------------------------------------------------------------------
(* The mapping of single steps. *)

Mapped == <<update_started, total_size, tail_offset, delivered, rejected, overlap>>

\* A step that only answers: it maps to a stutter, or the success is forgotten.
LEMMA AnswerMaps ==
  ASSUME RingInv, UNCHANGED Mapped, CompleteSuccess' => CompleteSuccess
  PROVE  [Download!Next]_(Download!vars)
<1>1. CASE overlap \/ (CompleteSuccess' <=> CompleteSuccess)
  BY <1>1 DEF Mapped, Download!vars
<1>2. CASE ~overlap /\ CompleteSuccess /\ ~CompleteSuccess'
  <2>1. ~update_started
    BY <1>2 DEF RingInv, RingBody
  <2>2. Download!Forget
    BY <1>2, <2>1 DEF Mapped, Download!Forget
  <2> QED BY <2>2 DEF Download!Next
<1> QED BY <1>1, <1>2

\* A start that pulls the ring from under the thread.
LEMMA LoseMaps ==
  ASSUME ~overlap, overlap'
  PROVE  [Download!Next]_(Download!vars)
<1>1. Download!Lose
  BY DEF Download!Lose
<1> QED BY <1>1 DEF Download!Next

\* Once it is lost, nothing of the download changes any more.
LEMMA LostMaps ==
  ASSUME overlap, overlap'
  PROVE  [Download!Next]_(Download!vars)
BY DEF Download!vars

LEMMA AcceptedMaps ==
  ASSUME ~overlap, ~overlap', NEW t \in Targets, NEW n \in CodeSizes, StartAccepted(t, n)
  PROVE  [Download!Next]_(Download!vars)
<1>1. Download!Begin(n)
  BY DEF StartAccepted, Download!Begin, CompleteSuccess, Reply
<1> QED BY <1>1 DEF Download!Next

\* The download ends: given up for another, aborted, or completed.
LEMMA EndMaps ==
  ASSUME RingInv, RingInv', ~overlap, ~overlap', update_started, ~update_started',
         UNCHANGED <<total_size, tail_offset, delivered, rejected>>
  PROVE  [Download!Next]_(Download!vars)
<1>1. CASE CompleteSuccess'
  <2>1. delivered = total_size /\ ~rejected
    BY <1>1 DEF RingInv, RingBody
  <2>2. Download!Succeed
    BY <1>1, <2>1 DEF Download!Succeed
  <2> QED BY <2>2 DEF Download!Next
<1>2. CASE ~CompleteSuccess'
  <2>1. Download!Fail
    BY <1>2 DEF Download!Fail
  <2> QED BY <2>1 DEF Download!Next
<1> QED BY <1>1, <1>2

LEMMA CopiedMaps ==
  ASSUME HandlerInv, RingInv, ~overlap, DataCopied
  PROVE  [Download!Next]_(Download!vars)
<1>1. /\ update_started /\ tail_offset' \in (tail_offset + 1) .. total_size
      /\ ~CompleteSuccess'
      /\ UNCHANGED <<update_started, total_size, delivered, rejected, overlap>>
  BY CopiedFacts
<1>2. tail_offset \in Nat /\ total_size \in Nat
  BY DEF HandlerInv, TypeOK, OffsetsOK
<1>3. tail_offset < total_size
  BY <1>1, <1>2
<1>4. ~CompleteSuccess
  BY <1>1 DEF RingInv, RingBody
<1>5. Download!Receive
  BY <1>1, <1>3, <1>4 DEF Download!Receive
<1> QED BY <1>5 DEF Download!Next

\* The application takes the chunk in hand: the next one, and one that was received.
LEMMA ReturnMaps ==
  ASSUME HandlerInv, RingInv, QueuedWasReceived, ~overlap, NEW error \in BOOLEAN,
         ThreadReturn(error)
  PROVE  [Download!Next]_(Download!vars)
<1>1. /\ pc = "callback" /\ rejected' = (rejected \/ error)
      /\ delivered' = delivered + chunk[slot].size
      /\ UNCHANGED <<update_started, total_size, tail_offset, overlap, reply>>
  BY DEF ThreadReturn
<1>2. update_started /\ ChunkIsNext(slot) /\ ~CompleteSuccess
  BY <1>1 DEF RingInv, RingBody
<1>3. slot \in Slots /\ chunk[slot].size \in Int /\ tail_offset \in Nat /\ delivered \in Int
      /\ rejected \in BOOLEAN
  BY DEF HandlerInv, TypeOK, RingOK, OffsetsOK, CountersOK, FlagsOK, Chunks
<1>4. chunk[slot].size > 0 /\ delivered + chunk[slot].size <= tail_offset
  BY <1>2, <1>3 DEF ChunkIsNext, QueuedWasReceived
<1>5. delivered < tail_offset /\ delivered' \in (delivered + 1) .. tail_offset
  BY <1>1, <1>3, <1>4
<1>6. ~CompleteSuccess'
  BY <1>1, <1>2 DEF CompleteSuccess
<1>7. Download!Deliver
  BY <1>1, <1>2, <1>3, <1>5, <1>6 DEF Download!Deliver
<1> QED BY <1>7 DEF Download!Next

LEMMA StepMaps ==
  ASSUME HandlerInv, RingInv, RingInv', QueuedWasReceived, [Next]_vars
  PROVE  [Download!Next]_(Download!vars)
<1>1. CASE overlap
  BY <1>1, OverlapStays, LostMaps
<1>2. CASE ~overlap /\ overlap'
  BY <1>2, LoseMaps
<1> SUFFICES ASSUME ~overlap, ~overlap'
             PROVE  [Download!Next]_(Download!vars)
  BY <1>1, <1>2
<1>3. CASE Start
  <2>1. PICK t \in Targets \cup {BadTarget} :
          \/ StartBadTarget(t)
          \/ StartAlreadyStarted(t)
          \/ \E n \in CodeSizes :
               \/ StartRefused(t, n)
               \/ StartAccepted(t, n)
               \/ \E k \in Slots : StartNoMemory(t, n, k)
    BY <1>3 DEF Start
  <2>2. CASE StartBadTarget(t) \/ \E n \in CodeSizes : StartRefused(t, n)
    <3>1. UNCHANGED Mapped /\ ~CompleteSuccess'
      BY <2>2 DEF StartBadTarget, StartRefused, processing, history, Mapped, CompleteSuccess, Reply
    <3> QED BY <3>1, AnswerMaps
  <2>3. CASE StartAlreadyStarted(t)
    <3>1. /\ update_started /\ ~update_started'
          /\ UNCHANGED <<total_size, tail_offset, delivered, rejected>>
      BY <2>3 DEF StartAlreadyStarted, FreeAndStopService
    <3> QED BY <3>1, EndMaps
  <2>4. ASSUME NEW n \in CodeSizes, StartAccepted(t, n)
        PROVE  [Download!Next]_(Download!vars)
    <3>1. t \in Targets
      BY <2>4 DEF StartAccepted
    <3> QED BY <2>4, <3>1, AcceptedMaps
  <2>5. ASSUME NEW n \in CodeSizes, NEW k \in Slots, StartNoMemory(t, n, k)
        PROVE  [Download!Next]_(Download!vars)
    <3>1. UNCHANGED Mapped /\ ~CompleteSuccess'
      BY <2>5 DEF StartNoMemory, Mapped, CompleteSuccess, Reply
    <3> QED BY <3>1, AnswerMaps
  <2> QED BY <2>1, <2>2, <2>3, <2>4, <2>5
<1>4. CASE Issue \/ Disconnect
  <2>1. UNCHANGED Mapped /\ UNCHANGED reply
    BY <1>4 DEF Issue, IssueData, IssueOther, Disconnect, processing, history, Mapped
  <2> QED BY <2>1, AnswerMaps DEF CompleteSuccess
<1>5. CASE Serve
  <2>1. CASE DataCopied
    BY <2>1, CopiedMaps
  <2>2. CASE CompleteDone \/ AbortDone
    <3>1. /\ update_started /\ ~update_started'
          /\ UNCHANGED <<total_size, tail_offset, delivered, rejected>>
      BY <2>2 DEF CompleteDone, AbortDone, FreeAndStopService, Accepted, history
    <3> QED BY <3>1, EndMaps
  <2>3. CASE DataRejected \/ DataInvalid \/ DataBusy \/ CompleteRejected
               \/ CompleteBusy \/ AbortRejected \/ AbortBusy \/ Reset
    <3>1. UNCHANGED Mapped
      BY <2>3 DEF DataRejected, DataInvalid, DataBusy, CompleteRejected, CompleteBusy,
         AbortRejected, AbortBusy, Reset, processing, history, Mapped
    <3>2. ~CompleteSuccess'
      BY <2>3 DEF DataRejected, DataInvalid, DataBusy, CompleteRejected, CompleteBusy,
         AbortRejected, AbortBusy, Reset, Answer, Reply, Serving, AbortOp, CompleteSuccess
    <3> QED BY <3>1, <3>2, AnswerMaps
  <2> QED BY <1>5, <2>1, <2>2, <2>3 DEF Serve, ServeData, ServeComplete, ServeAbort
<1>6. CASE \E error \in BOOLEAN : ThreadReturn(error)
  BY <1>6, ReturnMaps
<1>7. CASE ThreadAcquire \/ ThreadExit \/ ThreadCall \/ ThreadRelease \/ ThreadAdvance \/ StopThread
  <2>1. UNCHANGED Mapped /\ UNCHANGED reply
    BY <1>7 DEF ThreadAcquire, ThreadExit, ThreadCall, ThreadRelease, ThreadAdvance, StopThread,
                processing, history, Mapped
  <2> QED BY <2>1, AnswerMaps DEF CompleteSuccess
<1>8. CASE UNCHANGED vars
  <2>1. UNCHANGED Mapped /\ UNCHANGED reply
    BY <1>8 DEF vars, processing, history, Mapped
  <2> QED BY <2>1, AnswerMaps DEF CompleteSuccess
<1> QED BY <1>3, <1>4, <1>5, <1>6, <1>7, <1>8 DEF Next, ThreadStep

LEMMA InitMaps == Init => Download!Init
BY DEF Init, Download!Init, Reply, CompleteSuccess

(***************************************************************************)
(* The service (ccapi_firmware_update_handler.c) implements what           *)
(* FirmwareDownload promises the server and the application, until a start *)
(* pulls the ring from under the firmware thread.                          *)
(***************************************************************************)
THEOREM DownloadImplemented == Spec => ImplementsDownload
<1>1. Init => QueuedWasReceived
  BY DEF Init, QueuedWasReceived
<1>2. HandlerInv /\ QueuedWasReceived /\ [Next]_vars => QueuedWasReceived'
  BY QueuedNext
<1>3. HandlerInv /\ RingInv /\ RingInv' /\ QueuedWasReceived /\ [Next]_vars
        => [Download!Next]_(Download!vars)
  BY StepMaps
<1> QED BY <1>1, <1>2, <1>3, InitMaps, HandlerCorrect, RingCorrect, PTL
        DEF Spec, ImplementsDownload, Download!Spec
=============================================================================
