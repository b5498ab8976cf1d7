---------------------------- MODULE FirmwareUpdate ----------------------------
(***************************************************************************)
(* The firmware update service of CCAPI                                    *)
(* (source/ccapi_firmware_update_handler.c).                               *)
(*                                                                         *)
(* Two threads share the `processing' structure.  The connector thread     *)
(* (CCFSM, external) calls the handlers of the service: a download is      *)
(* started, its packets are cut into chunks that are queued in a ring of   *)
(* CCAPI_CHUNK_POOL_SIZE slots, and it is completed or aborted.  The       *)
(* firmware thread waits on a counting semaphore, hands the chunk at the   *)
(* tail of the ring to the application and gives the slot back.  A handler *)
(* that cannot proceed answers `busy' and is called again with the same    *)
(* request.                                                                *)
(*                                                                         *)
(* No lock protects the ring.  The handlers run to completion on their     *)
(* thread; the firmware thread's accesses are separate steps.              *)
(***************************************************************************)
EXTENDS Integers

CONSTANTS
    Targets,            \* the configured firmware targets
    BadTarget,          \* a target number outside the configured list
    PoolSize,           \* CCAPI_CHUNK_POOL_SIZE
    ConfigChunkSize,    \* [Targets -> Nat]: chunk_size given by the application
    MaximumSize,        \* [Targets -> Nat]: maximum_size, 0 for no limit
    RecvPacketSize,     \* CCIMP_MSG_MAX_RECV_PACKET_SIZE, the default chunk size
    CodeSizes,          \* the image sizes the server announces
    PacketSizes,        \* the sizes of the packets CCFSM delivers
    CancelCallback,     \* whether the application registered callback.cancel
    RestartAllowed,     \* whether a start can arrive while a download is on
    MaxStarts,          \* bound: number of downloads that are accepted
    MaxMallocFailures   \* bound: number of allocations that fail

ASSUME TargetsAssumption == BadTarget \notin Targets
ASSUME PoolAssumption == PoolSize \in Nat \ {0}
ASSUME ChunkAssumption ==
    /\ ConfigChunkSize \in [Targets -> Nat]
    /\ MaximumSize \in [Targets -> Nat]
    /\ RecvPacketSize \in Nat \ {0}
ASSUME SizesAssumption ==
    /\ CodeSizes \subseteq Nat
    /\ PacketSizes \subseteq Nat \ {0}
ASSUME FlagsAssumption == CancelCallback \in BOOLEAN /\ RestartAllowed \in BOOLEAN
ASSUME BoundsAssumption == MaxStarts \in Nat /\ MaxMallocFailures \in Nat

VARIABLES
    \* ccapi_data->service.firmware_update.processing
    update_started, target, total_size, data_error,
    in_use,             \* [Slots -> BOOLEAN]
    chunk,              \* [Slots -> [offset, size, last]]
    data,               \* [Slots -> buffer], a buffer is NULL or 0..n-1 -> byte
    chunk_pool_head, chunk_pool_tail,
    head_offset, tail_offset, ccfsm_bytes_processed,
    \* config.target.item[t].chunk_size: the handler replaces a 0
    chunk_size,
    \* ccapi_data->thread.firmware, and the thread's program counter and local
    status,             \* ccapi_thread_status_t
    lock,               \* count of the semaphore
    pc,
    slot,               \* the local chunk_pool_tail pointer of an iteration
    \* CCFSM (external): the request being delivered, whether it has a download
    \* open, and the answer to the last callback
    req, open, reply,
    \* bounds and history
    starts, failures,
    delivered,          \* bytes of this download the application has taken
    rejected,           \* the application refused a chunk of this download
    overlap             \* the ring was reset or freed while the thread used it

processing == << update_started, target, total_size, data_error, in_use, chunk,
                 data, chunk_pool_head, chunk_pool_tail, head_offset,
                 tail_offset, ccfsm_bytes_processed >>
thread == << status, lock, pc, slot >>
history == << starts, failures, delivered, rejected, overlap >>
vars == << processing, chunk_size, thread, req, open, reply, history >>

-----------------------------------------------------------------------------
Slots == 0 .. (PoolSize - 1)

(***************************************************************************)
(* The byte of the image at offset o is o itself; what malloc returns      *)
(* holds Garbage.                                                          *)
(***************************************************************************)
Garbage == -1
NULL == [i \in {} |-> Garbage]
MallocShort(n) == [i \in 0 .. (n - 2) |-> Garbage]
Malloc(n) == [i \in 0 .. (n - 1) |-> Garbage]

EmptyChunk == [offset |-> 0, size |-> 0, last |-> FALSE]

BusyOps == {"data", "complete", "abort", "abort_invalid", "reset"}
NoReq == [op |-> "none", target |-> BadTarget, offset |-> 0, size |-> 0]
Request(op, t, o, n) == [op |-> op, target |-> t, offset |-> o, size |-> n]
Reply(op, cb, st) == [op |-> op, callback |-> cb, status |-> st]

(***************************************************************************)
(* chunk_pool_head++ and chunk_pool_tail++ with their wrap around.         *)
(***************************************************************************)
NextSlotNoWrap(s) == IF s + 1 > PoolSize THEN 0 ELSE (s + 1) % (PoolSize + 1)
NextSlot(s) == IF s + 1 = PoolSize THEN 0 ELSE s + 1

(***************************************************************************)
(* The thread holds no chunk and none is queued: it waits in               *)
(* ccapi_lock_acquire, or it has ended.                                    *)
(***************************************************************************)
Parked == pc \in {"acquire", "stopped"} /\ lock = 0

(***************************************************************************)
(* complete and abort answer busy while a chunk is in the pool.            *)
(***************************************************************************)
PoolInUse == \E s \in Slots : in_use[s]

InitThread ==
    /\ status = "running" /\ lock = 0 /\ pc = "acquire" /\ slot = 0

(***************************************************************************)
(* ccxapi_start sets update_started and the data pointers; the rest of     *)
(* `processing' is whatever malloc returned.  Only `target' is read before *)
(* a download writes it, so it alone is arbitrary here.                    *)
(***************************************************************************)
Init ==
    /\ update_started = FALSE
    /\ target \in Targets
    /\ total_size = 0
    /\ data_error = FALSE
    /\ in_use = [s \in Slots |-> FALSE]
    /\ chunk = [s \in Slots |-> EmptyChunk]
    /\ data = [s \in Slots |-> NULL]
    /\ chunk_pool_head = 0 /\ chunk_pool_tail = 0
    /\ head_offset = 0 /\ tail_offset = 0 /\ ccfsm_bytes_processed = 0
    /\ chunk_size = ConfigChunkSize
    /\ InitThread
    /\ req = NoReq /\ open = FALSE /\ reply = Reply("none", "continue", "success")
    /\ starts = 0 /\ failures = 0
    /\ delivered = 0 /\ rejected = FALSE /\ overlap = FALSE

-----------------------------------------------------------------------------
(***************************************************************************)
(* free_and_stop_service                                                   *)
(***************************************************************************)
FreeAndStopService ==
    /\ data' = [s \in Slots |-> NULL]
    /\ update_started' = FALSE

(***************************************************************************)
(* ccapi_process_firmware_update_request, one action per way out.  A start *)
(* never answers busy, so it needs no pending request.                     *)
(***************************************************************************)
StartGuard(t) ==
    /\ status = "running" /\ req = NoReq
    /\ update_started => RestartAllowed

StartBadTarget(t) ==
    /\ StartGuard(t) /\ t \notin Targets
    /\ reply' = Reply("start", "error", "none")
    /\ UNCHANGED << processing, chunk_size, thread, req, open, history >>

(***************************************************************************)
(* A download is already on: its buffers are freed at once, whatever the   *)
(* firmware thread is doing with them, and the new one is refused.         *)
(***************************************************************************)
StartAlreadyStarted(t) ==
    /\ StartGuard(t) /\ t \in Targets
    /\ update_started
    /\ FreeAndStopService
    /\ open' = FALSE
    /\ reply' = Reply("start", "continue", "encountered_error")
    /\ overlap' = (overlap \/ ~Parked)
    /\ UNCHANGED << target, total_size, data_error, in_use, chunk,
                    chunk_pool_head, chunk_pool_tail, head_offset, tail_offset,
                    ccfsm_bytes_processed, chunk_size, thread, req, starts,
                    failures, delivered, rejected >>

TooBig(t, n) == MaximumSize[t] # 0 /\ MaximumSize[t] < n

(***************************************************************************)
(* The image is too big, or the application's request callback refuses it. *)
(***************************************************************************)
StartRefused(t, n) ==
    /\ StartGuard(t) /\ t \in Targets /\ ~update_started
    /\ \/ TooBig(t, n) /\ reply' = Reply("start", "continue", "invalid_size")
       \/ ~TooBig(t, n) /\ reply' = Reply("start", "continue", "refused")
    /\ UNCHANGED << processing, chunk_size, thread, req, open, history >>

DefaultedChunkSize(t) ==
    IF chunk_size[t] = 0 THEN [chunk_size EXCEPT ![t] = RecvPacketSize]
                         ELSE chunk_size

(***************************************************************************)
(* The allocation of the buffer of slot k fails: the slots before it keep  *)
(* the buffers they were just given and no download is on.                 *)
(***************************************************************************)
StartNoMemory(t, n, k) ==
    /\ StartGuard(t) /\ t \in Targets /\ ~update_started /\ ~TooBig(t, n)
    /\ failures < MaxMallocFailures
    /\ chunk_size' = DefaultedChunkSize(t)
    /\ in_use' = [s \in Slots |-> s > k /\ in_use[s]]
    /\ data' = [s \in Slots |-> IF s < k THEN Malloc(chunk_size'[t])
                                ELSE IF s = k THEN NULL ELSE data[s]]
    /\ chunk' = [s \in Slots |-> IF s < k THEN EmptyChunk
                                 ELSE IF s = k THEN [chunk[s] EXCEPT !.offset = 0]
                                 ELSE chunk[s]]
    /\ failures' = failures + 1
    /\ reply' = Reply("start", "continue", "encountered_error")
    /\ UNCHANGED << update_started, target, total_size, data_error,
                    chunk_pool_head, chunk_pool_tail, head_offset, tail_offset,
                    ccfsm_bytes_processed, thread, req, open, starts,
                    delivered, rejected, overlap >>

StartAccepted(t, n) ==
    /\ StartGuard(t) /\ t \in Targets /\ ~update_started /\ ~TooBig(t, n)
    /\ starts < MaxStarts
    /\ chunk_size' = DefaultedChunkSize(t)
    /\ in_use' = [s \in Slots |-> FALSE]
    /\ data' = [s \in Slots |-> Malloc(chunk_size'[t])]
    /\ chunk' = [s \in Slots |-> EmptyChunk]
    /\ chunk_pool_head' = 0 /\ chunk_pool_tail' = 0
    /\ target' = t /\ total_size' = n
    /\ tail_offset' = 0 /\ head_offset' = 0 /\ ccfsm_bytes_processed' = 0
    /\ data_error' = FALSE
    /\ update_started' = TRUE
    /\ open' = TRUE
    /\ reply' = Reply("start", "continue", "success")
    /\ starts' = starts + 1
    /\ delivered' = 0 /\ rejected' = FALSE
    /\ overlap' = (overlap \/ ~Parked)
    /\ UNCHANGED << thread, req, failures >>

-----------------------------------------------------------------------------
(***************************************************************************)
(* CCFSM (external) delivers the requests of an open download one at a     *)
(* time.  A packet lies within the announced size; its offset may be any,  *)
(* the packets the server sends may be repeated or out of order.  A lost   *)
(* connection drops the request being delivered and closes the download    *)
(* for CCFSM, not for CCAPI.                                               *)
(***************************************************************************)
CanIssue == status = "running" /\ req = NoReq /\ (open \/ ~update_started)

IssueData(t, o, n) ==
    /\ CanIssue
    /\ update_started => o + n <= total_size
    /\ req' = Request("data", t, o, n)
    /\ UNCHANGED << processing, chunk_size, thread, open, reply, history >>

IssueOther(op, t) ==
    /\ \/ CanIssue
       \/ op = "abort" /\ status = "running" /\ req = NoReq
    /\ op \in BusyOps \ {"data"}
    /\ req' = Request(op, t, 0, 0)
    /\ UNCHANGED << processing, chunk_size, thread, open, reply, history >>

Disconnect ==
    /\ status = "running" /\ (open \/ req # NoReq)
    /\ req' = NoReq /\ open' = FALSE
    /\ UNCHANGED << processing, chunk_size, thread, reply, history >>

(***************************************************************************)
(* The answer to a request: busy leaves it pending.                        *)
(***************************************************************************)
Answer(cb, st) ==
    /\ reply' = Reply(req.op, cb, st)
    /\ req' = IF cb = "busy" THEN req ELSE NoReq

Serving(op) == status = "running" /\ req.op = op
Accepted == req.target = target /\ update_started

-----------------------------------------------------------------------------
(***************************************************************************)
(* ccapi_process_firmware_update_data, one action per way out.             *)
(***************************************************************************)
DataRejected ==
    /\ Serving("data") /\ ~Accepted
    /\ Answer("error", "none")
    /\ UNCHANGED << processing, chunk_size, thread, open, history >>

InOrder == req.offset = tail_offset - ccfsm_bytes_processed

DataInvalid ==
    /\ Serving("data") /\ Accepted
    /\ \/ data_error /\ Answer("continue", "invalid_data")
       \/ ~data_error /\ ~InOrder /\ Answer("continue", "invalid_offset")
    /\ UNCHANGED << processing, chunk_size, thread, open, history >>

HeadFreeAlways == TRUE
HeadFree == ~in_use[chunk_pool_head]

DataBusy ==
    /\ Serving("data") /\ Accepted /\ ~data_error /\ InOrder
    /\ ~HeadFree
    /\ Answer("busy", "success")
    /\ UNCHANGED << processing, chunk_size, thread, open, history >>

RoomInWholeChunk == chunk_size[target]
RoomInChunk == chunk_size[target] - (tail_offset % chunk_size[target])

BytesToCopy ==
    LET remaining == req.size - ccfsm_bytes_processed
    IN  IF remaining > RoomInChunk THEN RoomInChunk ELSE remaining

NextHeadOffset == tail_offset + BytesToCopy
LastChunk == NextHeadOffset = total_size
ChunkFull == LastChunk \/ (NextHeadOffset % chunk_size[target]) = 0

(***************************************************************************)
(* memcpy of the next bytes of the packet into the chunk at the head.      *)
(***************************************************************************)
Memcpy ==
    LET pos == tail_offset % chunk_size[target]
        src == req.offset + ccfsm_bytes_processed
    IN  data' = [data EXCEPT ![chunk_pool_head] =
                   [i \in DOMAIN data[chunk_pool_head] |->
                      IF i >= pos /\ i < pos + BytesToCopy
                      THEN src + (i - pos)
                      ELSE data[chunk_pool_head][i]]]

(***************************************************************************)
(* A full or last chunk is queued: its description is filled in, in_use is *)
(* set, the semaphore posted and the head moved.                           *)
(***************************************************************************)
QueueChunk ==
    /\ chunk' = [chunk EXCEPT ![chunk_pool_head] =
                   [offset |-> head_offset,
                    size |-> NextHeadOffset - head_offset,
                    last |-> LastChunk]]
    /\ head_offset' = NextHeadOffset
    /\ in_use' = [in_use EXCEPT ![chunk_pool_head] = TRUE]
    /\ lock' = lock + 1
    /\ chunk_pool_head' = NextSlot(chunk_pool_head)

(***************************************************************************)
(* The packet is finished when all its bytes are copied; until then the    *)
(* answer is busy and the same packet comes back.                          *)
(***************************************************************************)
AdvancePacket ==
    LET done == ccfsm_bytes_processed + BytesToCopy
    IN  IF done = req.size
        THEN ccfsm_bytes_processed' = 0 /\ Answer("continue", "success")
        ELSE ccfsm_bytes_processed' = done /\ Answer("busy", "success")

(***************************************************************************)
(* The bytes are copied only `if (tail_offset >= head_offset)'; in either  *)
(* case tail_offset advances.                                              *)
(***************************************************************************)
DataCopied ==
    /\ Serving("data") /\ Accepted /\ ~data_error /\ InOrder
    /\ HeadFree
    /\ IF tail_offset >= head_offset
       THEN /\ Memcpy
            /\ IF ChunkFull
               THEN QueueChunk
               ELSE UNCHANGED << chunk, head_offset, in_use, lock, chunk_pool_head >>
            /\ AdvancePacket
       ELSE /\ Answer("continue", "success")
            /\ UNCHANGED << data, chunk, head_offset, in_use, lock,
                            chunk_pool_head, ccfsm_bytes_processed >>
    /\ tail_offset' = NextHeadOffset
    /\ UNCHANGED << update_started, target, total_size, data_error,
                    chunk_pool_tail, chunk_size, status, pc, slot, open, history >>

-----------------------------------------------------------------------------
(***************************************************************************)
(* ccapi_process_firmware_update_complete                                  *)
(***************************************************************************)
CompleteRejected ==
    /\ Serving("complete") /\ ~Accepted
    /\ Answer("error", "none")
    /\ UNCHANGED << processing, chunk_size, thread, open, history >>

CompleteBusy ==
    /\ Serving("complete") /\ Accepted
    /\ PoolInUse
    /\ Answer("busy", "success")
    /\ UNCHANGED << processing, chunk_size, thread, open, history >>

CompleteStatusAlwaysSuccess == "success"
CompleteStatus == IF head_offset # total_size THEN "not_complete" ELSE "success"
CompleteVerdictIgnoringError == "continue"
CompleteVerdict == IF data_error THEN "error" ELSE "continue"

CompleteDone ==
    /\ Serving("complete") /\ Accepted
    /\ ~PoolInUse
    /\ Answer(CompleteVerdict, CompleteStatus)
    /\ FreeAndStopService
    /\ open' = FALSE
    /\ UNCHANGED << target, total_size, data_error, in_use, chunk,
                    chunk_pool_head, chunk_pool_tail, head_offset, tail_offset,
                    ccfsm_bytes_processed, chunk_size, thread, history >>

(***************************************************************************)
(* ccapi_process_firmware_update_abort.  An abort reason that is not one   *)
(* of the five of ccapi_fw_cancel_error_t is an error that frees nothing,  *)
(* if the application has a cancel callback to tell.                       *)
(***************************************************************************)
AbortOp == req.op \in {"abort", "abort_invalid"}

AbortRejected ==
    /\ status = "running" /\ AbortOp
    /\ \/ ~Accepted
       \/ Accepted /\ ~PoolInUse /\ CancelCallback /\ req.op = "abort_invalid"
    /\ Answer("error", "none")
    /\ UNCHANGED << processing, chunk_size, thread, open, history >>

AbortBusy ==
    /\ status = "running" /\ AbortOp /\ Accepted
    /\ PoolInUse
    /\ Answer("busy", "success")
    /\ UNCHANGED << processing, chunk_size, thread, open, history >>

AbortDone ==
    /\ status = "running" /\ AbortOp /\ Accepted
    /\ ~PoolInUse
    /\ CancelCallback => req.op = "abort"
    /\ Answer("continue", "success")
    /\ FreeAndStopService
    /\ open' = FALSE
    /\ UNCHANGED << target, total_size, data_error, in_use, chunk,
                    chunk_pool_head, chunk_pool_tail, head_offset, tail_offset,
                    ccfsm_bytes_processed, chunk_size, thread, history >>

(***************************************************************************)
(* ccapi_process_firmware_update_reset: the answer is that of              *)
(* ccimp_hal_reset, or continue when the application asked for no system   *)
(* reset.                                                                  *)
(***************************************************************************)
Reset ==
    /\ Serving("reset")
    /\ IF req.target = target
       THEN \E cb \in {"continue", "busy", "error"} : Answer(cb, "success")
       ELSE Answer("error", "none")
    /\ UNCHANGED << processing, chunk_size, thread, open, history >>

-----------------------------------------------------------------------------
(***************************************************************************)
(* ccapi_firmware_thread                                                   *)
(***************************************************************************)
ThreadAcquire ==
    /\ pc = "acquire" /\ lock > 0
    /\ lock' = lock - 1
    /\ pc' = "check"
    /\ UNCHANGED << processing, chunk_size, status, slot, req, open, reply, history >>

ThreadExit ==
    /\ pc = "check" /\ status = "request_stop"
    /\ pc' = "stopped" /\ status' = "not_started"
    /\ UNCHANGED << processing, chunk_size, lock, slot, req, open, reply, history >>

(***************************************************************************)
(* The thread picks the slot at the tail and calls the application, which  *)
(* reads the chunk until it returns.                                       *)
(***************************************************************************)
ThreadCall ==
    /\ pc = "check" /\ status # "request_stop"
    /\ slot' = chunk_pool_tail
    /\ pc' = "callback"
    /\ UNCHANGED << processing, chunk_size, status, lock, req, open, reply, history >>

ThreadReturn(error) ==
    /\ pc = "callback"
    /\ data_error' = (data_error \/ error)
    /\ rejected' = (rejected \/ error)
    /\ delivered' = delivered + chunk[slot].size
    /\ pc' = "release"
    /\ UNCHANGED << update_started, target, total_size, in_use, chunk, data,
                    chunk_pool_head, chunk_pool_tail, head_offset, tail_offset,
                    ccfsm_bytes_processed, chunk_size, status, lock, slot, req,
                    open, reply, starts, failures, overlap >>

ThreadReleaseKeepsSlot ==
    /\ pc = "release"
    /\ pc' = "advance"
    /\ UNCHANGED << processing, chunk_size, status, lock, slot, req, open, reply,
                    history >>

ThreadRelease ==
    /\ pc = "release"
    /\ in_use' = [in_use EXCEPT ![slot] = FALSE]
    /\ pc' = "advance"
    /\ UNCHANGED << update_started, target, total_size, data_error, chunk, data,
                    chunk_pool_head, chunk_pool_tail, head_offset, tail_offset,
                    ccfsm_bytes_processed, chunk_size, status, lock, slot, req,
                    open, reply, history >>

ThreadAdvance ==
    /\ pc = "advance"
    /\ chunk_pool_tail' = NextSlot(chunk_pool_tail)
    /\ IF status = "running"
       THEN pc' = "acquire" /\ UNCHANGED status
       ELSE pc' = "stopped" /\ status' = "not_started"
    /\ UNCHANGED << update_started, target, total_size, data_error, in_use,
                    chunk, data, chunk_pool_head, head_offset, tail_offset,
                    ccfsm_bytes_processed, chunk_size, lock, slot, req, open,
                    reply, history >>

(***************************************************************************)
(* ccapi_stop_thread, called once CCFSM has been terminated.               *)
(***************************************************************************)
StopThread ==
    /\ status = "running"
    /\ status' = "request_stop"
    /\ lock' = lock + 1
    /\ req' = NoReq /\ open' = FALSE
    /\ UNCHANGED << processing, chunk_size, pc, slot, reply, history >>

-----------------------------------------------------------------------------
Start ==
    \E t \in Targets \cup {BadTarget} :
        \/ StartBadTarget(t)
        \/ StartAlreadyStarted(t)
        \/ \E n \in CodeSizes :
             \/ StartRefused(t, n)
             \/ StartAccepted(t, n)
             \/ \E k \in Slots : StartNoMemory(t, n, k)

Issue ==
    \E t \in Targets \cup {BadTarget} :
        \/ \E n \in PacketSizes :
             \E o \in 0 .. (IF update_started THEN total_size ELSE 0) :
               IssueData(t, o, n)
        \/ \E op \in BusyOps : IssueOther(op, t)

ServeData == DataRejected \/ DataInvalid \/ DataBusy \/ DataCopied
ServeComplete == CompleteRejected \/ CompleteBusy \/ CompleteDone
ServeAbort == AbortRejected \/ AbortBusy \/ AbortDone
Serve == ServeData \/ ServeComplete \/ ServeAbort \/ Reset

ThreadStep ==
    \/ ThreadAcquire \/ ThreadExit \/ ThreadCall
    \/ \E error \in BOOLEAN : ThreadReturn(error)
    \/ ThreadRelease \/ ThreadAdvance

Next == Start \/ Issue \/ Disconnect \/ Serve \/ ThreadStep \/ StopThread

(***************************************************************************)
(* The firmware thread and the application callback it calls make          *)
(* progress, and CCFSM calls a handler that answered busy again.  Nothing  *)
(* makes the server send, restart or stop.                                 *)
(***************************************************************************)
Fairness == WF_vars(ThreadStep) /\ WF_vars(ServeData) /\ WF_vars(ServeComplete)
            /\ WF_vars(ServeAbort)

Spec == Init /\ [][Next]_vars /\ Fairness
-----------------------------------------------------------------------------
AllChunkSizes == {ConfigChunkSize[t] : t \in Targets} \cup {RecvPacketSize}
IsBuffer(b) == \E n \in {0} \cup AllChunkSizes : b \in [0 .. (n - 1) -> Int]
Chunks == [offset : Int, size : Int, last : BOOLEAN]

OffsetsOK ==
    /\ total_size \in Nat /\ head_offset \in Nat /\ tail_offset \in Nat
    /\ ccfsm_bytes_processed \in Nat
    /\ target \in Targets
    /\ chunk_size \in [Targets -> Nat]
    /\ \A t \in Targets : chunk_size[t] \in {ConfigChunkSize[t], RecvPacketSize}

RingOK ==
    /\ in_use \in [Slots -> BOOLEAN]
    /\ chunk \in [Slots -> Chunks]
    /\ chunk_pool_head \in Slots /\ chunk_pool_tail \in Slots /\ slot \in Slots

BuffersOK ==
    /\ data = [s \in Slots |-> data[s]]
    /\ \A s \in Slots : IsBuffer(data[s])

ThreadOK ==
    /\ status \in {"running", "request_stop", "not_started"}
    /\ pc \in {"acquire", "check", "callback", "release", "advance", "stopped"}
    /\ lock \in Nat

RequestOK ==
    req \in [op : BusyOps \cup {"none"}, target : Targets \cup {BadTarget},
             offset : Nat, size : Nat]

FlagsOK ==
    /\ update_started \in BOOLEAN /\ data_error \in BOOLEAN /\ open \in BOOLEAN
    /\ rejected \in BOOLEAN /\ overlap \in BOOLEAN

CountersOK == starts \in Nat /\ failures \in Nat /\ delivered \in Int

(***************************************************************************)
(* Every variable has the type of the field it models: the ring indices    *)
(* stay inside the pool and the unsigned offsets never wrap below zero,    *)
(* whatever the interleaving.                                              *)
(***************************************************************************)
TypeOK ==
    /\ OffsetsOK /\ RingOK /\ BuffersOK /\ ThreadOK /\ RequestOK
    /\ FlagsOK /\ CountersOK

(***************************************************************************)
(* ASSERT_MSG(chunk_pool_tail->in_use == CCAPI_TRUE), line 64: when the    *)
(* firmware thread wakes to process a chunk, the slot at the tail of the   *)
(* ring holds one.                                                         *)
(***************************************************************************)
AssertTailInUse ==
    pc = "check" /\ status # "request_stop" => in_use[chunk_pool_tail]

(***************************************************************************)
(* The assertion of line 64 holds as long as no start resets or frees the  *)
(* ring under the thread.                                                  *)
(***************************************************************************)
TailInUse == ~overlap => AssertTailInUse

(***************************************************************************)
(* All the while the application's data callback runs, the chunk it was    *)
(* given is the next one of the image: it starts where the previous one    *)
(* ended, its buffer is allocated and holds the bytes of the image at that *)
(* offset, and it is flagged last exactly when it ends the image.          *)
(***************************************************************************)
ChunkIsNext(s) ==
    /\ in_use[s]
    /\ chunk[s].offset = delivered
    /\ chunk[s].size > 0
    /\ chunk[s].last <=> (chunk[s].offset + chunk[s].size = total_size)
    /\ \A i \in 0 .. (chunk[s].size - 1) :
         i \in DOMAIN data[s] /\ data[s][i] = chunk[s].offset + i

CallbackReadsImage == ~overlap /\ pc = "callback" => ChunkIsNext(slot)

(***************************************************************************)
(* A download is reported complete to the server only after the            *)
(* application has taken every byte of the image and refused no chunk.     *)
(***************************************************************************)
CompleteSuccess ==
    reply.op = "complete" /\ reply.callback = "continue" /\ reply.status = "success"

CompleteIsHonest ==
    ~overlap /\ CompleteSuccess => delivered = total_size /\ ~rejected

(***************************************************************************)
(* While a download is on, every slot has a buffer of the target's chunk   *)
(* size; when none is on, every buffer has been freed, unless an           *)
(* allocation failed half way.                                             *)
(***************************************************************************)
PoolLifetime ==
    /\ update_started =>
         \A s \in Slots : DOMAIN data[s] = 0 .. (chunk_size[target] - 1)
    /\ ~update_started /\ failures = 0 => \A s \in Slots : data[s] = NULL

(***************************************************************************)
(* A handler that answers busy is not busy for ever: the firmware thread   *)
(* gives slots back, so a packet, a complete or an abort is answered, or   *)
(* the service is stopped (or the ring was pulled from under the thread).  *)
(***************************************************************************)
BusyResolves ==
    req.op \in BusyOps \ {"reset"}
        ~> (req = NoReq \/ overlap \/ status # "running")

(***************************************************************************)
(* ccapi_stop_thread returns: the thread it asked to stop stops, even if   *)
(* it was asked while it waits for a chunk.                                *)
(***************************************************************************)
StopCompletes == status = "request_stop" ~> status = "not_started"

(***************************************************************************)
(* Neither CCFSM nor the application waits for the service for ever.       *)
(***************************************************************************)
Progress == BusyResolves /\ StopCompletes

-----------------------------------------------------------------------------
(***************************************************************************)
(* The inductive invariant behind the safety properties.                   *)
(*                                                                         *)
(* The chunks in the ring are those the semaphore counts and the one the   *)
(* thread holds; the oldest is at the tail, or just after it when the      *)
(* thread has given its slot back and not yet moved the tail.              *)
(***************************************************************************)
InHand == pc \in {"check", "callback", "release"}
Queued == IF InHand THEN lock + 1 ELSE lock
First == IF pc = "advance" THEN NextSlot(chunk_pool_tail) ELSE chunk_pool_tail
Wrap(n) == IF n < PoolSize THEN n ELSE n - PoolSize
Distance(from, s) == IF s >= from THEN s - from ELSE s - from + PoolSize

\* The slots in use are the Queued ones from First on; the head follows them.
RingShape ==
    /\ Queued <= PoolSize
    /\ \A s \in Slots : in_use[s] <=> Distance(First, s) < Queued
    /\ update_started => chunk_pool_head = Wrap(First + Queued)
    /\ ~update_started => Queued = 0
    /\ pc \in {"callback", "release"} => slot = chunk_pool_tail

\* Offset at which the oldest chunk in the ring begins.
Base == IF pc = "release" THEN delivered - chunk[slot].size ELSE delivered

\* The chunks in use follow one another from what the application has taken
\* up to head_offset, and hold the bytes of the image.
ChunkHoldsImage(s) ==
    /\ chunk[s].size > 0
    /\ chunk[s].offset + chunk[s].size <= total_size
    /\ chunk[s].last <=> (chunk[s].offset + chunk[s].size = total_size)
    /\ \A i \in 0 .. (chunk[s].size - 1) :
         i \in DOMAIN data[s] /\ data[s][i] = chunk[s].offset + i

RingContents ==
    /\ Queued > 0 => chunk[First].offset = Base
    /\ Queued = 0 /\ update_started => delivered = head_offset
    /\ \A s \in Slots : in_use[s] => ChunkHoldsImage(s)
    /\ \A s \in Slots : in_use[s] =>
         chunk[s].offset + chunk[s].size =
           IF NextSlot(s) = chunk_pool_head THEN head_offset
                                            ELSE chunk[NextSlot(s)].offset

\* The chunk being filled at the head starts at head_offset, a multiple of the
\* chunk size, and the next byte goes less than a chunk further.
HeadOffsets ==
    update_started =>
      /\ chunk_size[target] > 0
      /\ head_offset <= tail_offset /\ tail_offset <= total_size
      /\ tail_offset < head_offset + chunk_size[target]
      /\ head_offset # total_size => head_offset % chunk_size[target] = 0

\* It is free while it is being filled and holds the bytes up to tail_offset.
HeadContents ==
    update_started =>
      /\ tail_offset > head_offset => ~in_use[chunk_pool_head]
      /\ \A i \in 0 .. (tail_offset - head_offset - 1) :
           data[chunk_pool_head][i] = head_offset + i

\* A packet that was copied in part is the pending request.
Packet ==
    update_started =>
      /\ req.op = "data" => open /\ req.offset + req.size <= total_size /\ req.size > 0
      /\ open /\ ~data_error /\ ccfsm_bytes_processed > 0 =>
           /\ req.op = "data" /\ req.target = target
           /\ req.offset = tail_offset - ccfsm_bytes_processed
           /\ ccfsm_bytes_processed < req.size

ThreadState ==
    /\ pc = "stopped" <=> status = "not_started"
    /\ data_error = rejected
    /\ open => update_started /\ status = "running"
    /\ req # NoReq => status = "running"

Buffered == update_started =>
    \A s \in Slots : DOMAIN data[s] = 0 .. (chunk_size[target] - 1)

\* What holds whatever the interleaving: the handlers' own bookkeeping.
HandlerInv == TypeOK /\ ThreadState /\ Buffered /\ HeadOffsets /\ Packet

\* What holds until a start pulls the ring from under the firmware thread.
RingBody ==
    /\ status = "running" => RingShape /\ RingContents /\ HeadContents
    /\ IF update_started THEN ~CompleteSuccess ELSE pc \notin {"callback", "release"}
    /\ pc = "callback" => ChunkIsNext(slot)
    /\ CompleteSuccess => delivered = total_size /\ ~rejected

RingInv == ~overlap => RingBody

(***************************************************************************)
(* The service implements FirmwareDownload: what is received is what the   *)
(* handlers copied, and once a start has pulled the ring from under the    *)
(* thread the download is lost.                                            *)
(***************************************************************************)
Download == INSTANCE FirmwareDownload WITH
    phase <- IF overlap THEN "lost" ELSE IF update_started THEN "loading" ELSE "idle",
    total <- IF overlap THEN 0 ELSE total_size,
    received <- IF overlap THEN 0 ELSE tail_offset,
    delivered <- IF overlap THEN 0 ELSE delivered,
    refused <- ~overlap /\ rejected,
    outcome <- IF ~overlap /\ CompleteSuccess THEN "success" ELSE "other"

ImplementsDownload == Download!Spec
=============================================================================
