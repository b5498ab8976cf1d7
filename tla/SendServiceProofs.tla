-------------------------- MODULE SendServiceProofs --------------------------
(***************************************************************************)
(* Proofs about SendService, for any number of threads, cells, calls and   *)
(* failures, and all sizes.                                                *)
(***************************************************************************)
EXTENDS SendService, TLAPS

Phases == {"none", "data", "failed", "answer", "ping"}
Seen == [announced : Nat \cup {Unasked}, taken : Nat, reads : {"whole", "short", "failed"},
         response : {"none"} \cup Responses, final : {"none"} \cup Statuses]
Files == [open : BOOLEAN, left : Nat]

-----------------------------------------------------------------------------
(* What holds of one call: m is its context, s what CCFSM did for it, r its *)
(* arguments, f its file and ph what CCFSM may still call.                  *)

\* The context and what CCFSM did agree, and the bytes add up.
Agrees(m, s, r) ==
  /\ s.taken + m.bytes_remaining = r.size /\ s.announced \in {Unasked, r.size}
  /\ m.request_error = (IF s.reads = "failed" THEN "accessing_file" ELSE "none")
  /\ m.status_error = (IF r.kind = "ping" \/ s.final = "none" THEN "none" ELSE ToError(s.final))
  /\ m.response_error = (IF r.kind = "ping" THEN (IF s.final = "none" THEN "none" ELSE ToError(s.final))
                         ELSE IF s.response = "none" THEN "none" ELSE ToError(s.response))
  /\ s.final = "complete" => m.bytes_remaining = 0 /\ s.reads # "failed"
  /\ r.kind = "ping" => s.reads # "failed"

\* What the call obtained is what its context says it did.
Owns(m, r, f) ==
  m.lock = "made" /\ (m.sending_file <=> r.kind = "file") /\ (f.open <=> r.kind = "file")

\* CCFSM's place in the session, and its last word.
InStep(m, s, r, ph) ==
  /\ ph # "none" => s.final = "none" /\ m.released = 0
  /\ ph = "ping" => r.kind = "ping"
  /\ ph \in {"data", "failed", "answer"} => r.kind # "ping"
  /\ ph \in {"data", "answer"} => s.reads # "failed"
  /\ ph = "answer" => m.bytes_remaining = 0
  /\ m.released > 0 => s.final # "none"

Session(m, s, r, f, ph) == Agrees(m, s, r) /\ Owns(m, r, f) /\ InStep(m, s, r, ph)

\* The result is what ResultIsHonest wants.
Honest(e, s, r) ==
  LET rejected == r.with_reply /\ s.response \in ResponseErrors IN
  /\ e = "none" => s.final = "complete" /\ ~rejected /\ s.taken = r.size
                   /\ s.announced \in {Unasked, s.taken}
  /\ e \in StatusErrors => s.final = e /\ ~rejected
  /\ e \in ResponseErrors => rejected /\ s.response = e
  /\ e \in {"none"} \cup StatusErrors \cup ResponseErrors => s.reads # "failed"

Fresh(m, s, ph) == ph = "none" /\ m.released = 0 /\ s = NothingSeen

\* The setup failed: the context is not complete, no file is open.
NotSetUp(e, f, ph, n) ==
  n > 0 /\ ph = "none" /\ ~f.open /\ e \in {"lock_failed", "not_a_file", "accessing_file"}

Ended(e, m, s, r, f, ph, n) ==
  /\ Session(m, s, r, f, ph)
  /\ ph # "none" => n > 0
  /\ \/ e \in {"lock_failed", "initiate_action_failed"}
     \/ ph = "none" /\ Honest(e, s, r)

Call(p, e, m, s, r, f, ph, n) ==
  /\ p = "initiate" => Session(m, s, r, f, ph) /\ Fresh(m, s, ph)
  /\ p = "wait" => Session(m, s, r, f, ph) /\ (n = 0 => (m.released > 0 <=> ph = "none"))
  /\ p = "finish" => NotSetUp(e, f, ph, n) \/ Ended(e, m, s, r, f, ph, n)

\* A thread inside a call has a context, and the call is in order.
Holds(t) ==
  IF Inside(t)
  THEN /\ send_info[t] \in allocated /\ call[t] \in ValidRequests
       /\ Call(pc[t], error[t], svc_send[send_info[t]], seen[t], call[t], file[t],
               phase[send_info[t]], failures)
  ELSE ~file[t].open /\ (pc[t] = "copy" => send_info[t] \in Cells)

\* A context has one owner, and CCFSM calls back for contexts that are there.
Owned ==
  /\ \A t, u \in Senders : Inside(t) /\ Inside(u) /\ send_info[t] = send_info[u] => t = u
  /\ \A c \in allocated : \E t \in Senders : Inside(t) /\ send_info[t] = c
  /\ ~abandoned => \A c \in Cells : phase[c] # "none" => c \in allocated

Blamed == abandoned \/ wild => failures > 0

SendInv == TypeOK /\ Owned /\ Blamed /\ \A t \in Senders : Holds(t)
-----------------------------------------------------------------------------
LEMMA Distinct ==
  /\ "none" \notin ResponseErrors \cup StatusErrors
  /\ "complete" \notin ResponseErrors \cup StatusErrors
  /\ "success" \notin ResponseErrors \cup StatusErrors
  /\ "accessing_file" \notin ResponseErrors \cup StatusErrors
  /\ "not_a_file" \notin ResponseErrors \cup StatusErrors
  /\ "lock_failed" \notin ResponseErrors \cup StatusErrors
  /\ "initiate_action_failed" \notin ResponseErrors \cup StatusErrors
  /\ \A e \in ResponseErrors : e \notin StatusErrors
BY ErrorsAssumption

\* What TypeOK says of one call, and of one cell.
LEMMA Typed ==
  ASSUME TypeOK
  PROVE  /\ \A t \in Senders :
              /\ pc[t] \in {"idle", "initiate", "wait", "finish", "copy", "returned"}
              /\ call[t] \in ValidRequests \cup {NoCall} /\ send_info[t] \in Cells \cup {NULL}
              /\ error[t] \in Errors /\ file[t] \in Files /\ seen[t] \in Seen
         /\ \A c \in Cells : svc_send[c] \in Contexts /\ phase[c] \in Phases
         /\ failures \in Nat /\ calls \in Nat
BY DEF TypeOK, Files, Seen, Phases

LEMMA RequestFacts ==
  ASSUME NEW r \in ValidRequests
  PROVE  /\ r.size \in Nat /\ r.with_reply \in BOOLEAN /\ r.wants_code \in BOOLEAN
         /\ r.kind \in {"data", "file", "ping"}
         /\ r.kind = "ping" => r.size = 0 /\ ~r.with_reply
BY KindsAssumption, SizesAssumption DEF ValidRequests, Requests

\* A thread inside a call has a cell.
LEMMA InsideHas ==
  ASSUME SendInv, NEW t \in Senders, Inside(t)
  PROVE  /\ send_info[t] \in allocated /\ send_info[t] \in Cells
         /\ call[t] \in ValidRequests /\ svc_send[send_info[t]] \in Contexts
         /\ Call(pc[t], error[t], svc_send[send_info[t]], seen[t], call[t], file[t],
                 phase[send_info[t]], failures)
<1>1. /\ send_info[t] \in allocated /\ call[t] \in ValidRequests
      /\ Call(pc[t], error[t], svc_send[send_info[t]], seen[t], call[t], file[t],
              phase[send_info[t]], failures)
  BY DEF SendInv, Holds
<1>2. send_info[t] \in Cells
  BY <1>1 DEF SendInv, TypeOK
<1> QED BY <1>1, <1>2, Typed DEF SendInv

\* CCFSM calls back for the context of a call.
LEMMA OwnerFacts ==
  ASSUME SendInv, NEW c \in Cells, phase[c] # "none", ~abandoned
  PROVE  Owner(c) \in Senders /\ send_info[Owner(c)] = c /\ Inside(Owner(c))
<1>1. c \in allocated
  BY DEF SendInv, Owned
<1>2. \E t \in Senders : send_info[t] = c /\ Inside(t)
  BY <1>1 DEF SendInv, Owned
<1> QED BY <1>2 DEF Owner

-----------------------------------------------------------------------------
(* Types. *)

LEMMA SetupType ==
  ASSUME NEW m \in Contexts
  PROVE  LET k == SetupCommon(m)
         IN  /\ k \in Contexts
             /\ k.lock = "made" /\ k.released = m.released
             /\ k.request_error = "none" /\ k.response_error = "none" /\ k.status_error = "none"
BY DEF SetupCommon, Contexts

LEMMA SetupDoneType ==
  ASSUME NEW m \in Contexts, NEW b \in BOOLEAN, NEW n \in Nat
  PROVE  LET k == [m EXCEPT !.sending_file = b, !.bytes_remaining = n]
         IN  /\ k \in Contexts
             /\ k.lock = m.lock /\ k.released = m.released
             /\ k.sending_file = b /\ k.bytes_remaining = n
             /\ k.request_error = m.request_error /\ k.response_error = m.response_error
             /\ k.status_error = m.status_error
BY DEF Contexts

LEMMA GarbageType ==
  ASSUME NEW m \in Garbage
  PROVE  m \in Contexts /\ m.released = 0
BY DEF Garbage, Contexts, RawErrors, Responses

LEMMA FreedType ==
  /\ Freed \in Contexts
  /\ \A r \in RawErrors : [Freed EXCEPT !.raw_response_error = r] \in Contexts
BY DEF Freed, Contexts, RawErrors

LEMMA ErrorTypes ==
  /\ {"none", "insufficient_memory", "lock_failed", "not_a_file", "accessing_file",
      "initiate_action_failed"} \subseteq Errors
  /\ ArgumentErrors \subseteq Errors
  /\ ResponseErrors \cup StatusErrors \subseteq Errors
BY DEF Errors

LEMMA OutcomeType ==
  ASSUME NEW m \in Contexts, NEW r
  PROVE  Outcome(m, r) \in Errors
BY DEF Outcome, Contexts, Errors

LEMMA ToErrorType ==
  /\ \A r \in Responses : ToError(r) \in {"none"} \cup ResponseErrors
  /\ \A st \in Statuses : ToError(st) \in {"none"} \cup StatusErrors
BY DEF ToError, Responses, Statuses

LEMMA EnterType ==
  ASSUME TypeOK, NEW t \in Senders, Enter(t)
  PROVE  /\ code' \in [Senders -> {"unset"} \cup RawErrors]
         /\ seen' \in [Senders -> Seen]
         /\ phase' = phase /\ calls' \in Nat /\ abandoned' = abandoned /\ wild' = wild
<1>1. NothingSeen \in Seen
  BY DEF NothingSeen, Seen
<1> QED BY <1>1 DEF TypeOK, Enter, Sees, flags, Seen

LEMMA TypeStep ==
  ASSUME SendInv, [Next]_vars
  PROVE  TypeOK'
<1> USE DEF SendInv
<1>1. ASSUME NEW t \in Senders, Refused(t) \/ NoMemory(t)
      PROVE  TypeOK'
  <2>1. PICK e \in Errors : ReturnsAtOnce(t, e)
    BY <1>1, ErrorTypes DEF Refused, NoMemory
  <2>2. Enter(t) /\ failures' \in Nat
    BY <1>1 DEF Refused, NoMemory, Fails, TypeOK
  <2> QED BY <2>1, <2>2, EnterType DEF ReturnsAtOnce, TypeOK, Seen
<1>2. ASSUME NEW t \in Senders, NEW r \in ValidRequests, NEW c \in Cells,
             LockNotCreated(t, r, c) \/ FileNotOpened(t, r, c) \/ SetupDone(t, r, c)
      PROVE  TypeOK'
  <2>1. Allocate(t, r, c)
    BY <1>2 DEF LockNotCreated, FileNotOpened, SetupDone
  <2>2. /\ code' \in [Senders -> {"unset"} \cup RawErrors] /\ seen' \in [Senders -> Seen]
        /\ phase' = phase /\ calls' \in Nat /\ abandoned' = abandoned /\ wild' = wild
    BY <2>1, EnterType DEF Allocate
  <2>3. /\ call' \in [Senders -> ValidRequests \cup {NoCall}] /\ allocated' \subseteq Cells
        /\ send_info' \in [Senders -> Cells \cup {NULL}]
    BY <2>1 DEF Allocate, TypeOK
  <2>4. failures' \in Nat
    <3>1. failures' = failures + 1 \/ failures' = failures
      BY <1>2 DEF LockNotCreated, FileNotOpened, SetupDone, Fails
    <3> QED BY <3>1 DEF TypeOK
  <2>5. /\ pc' \in [Senders -> {"idle", "initiate", "wait", "finish", "copy", "returned"}]
        /\ error' \in [Senders -> Errors]
    <3>1. PICK e \in Errors, next \in {"initiate", "finish"} : Goes(t, e, next)
      BY <1>2, ErrorTypes DEF LockNotCreated, FileNotOpened, SetupDone
    <3> QED BY <3>1 DEF Goes, TypeOK
  <2>6. svc_send' \in [Cells -> Contexts]
    <3>1. PICK k \in Contexts : svc_send' = [svc_send EXCEPT ![c] = k]
      <4>1. CASE LockNotCreated(t, r, c)
        BY <4>1, GarbageType DEF LockNotCreated
      <4>2. CASE FileNotOpened(t, r, c)
        BY <4>2, GarbageType, SetupType DEF FileNotOpened
      <4>3. CASE SetupDone(t, r, c)
        <5>1. PICK m \in Garbage : svc_send' = [svc_send EXCEPT ![c] =
                [SetupCommon(m) EXCEPT !.sending_file = (r.kind = "file"), !.bytes_remaining = r.size]]
          BY <4>3 DEF SetupDone
        <5>2. SetupCommon(m) \in Contexts /\ (r.kind = "file") \in BOOLEAN /\ r.size \in Nat
          BY GarbageType, SetupType, RequestFacts
        <5> QED BY <5>1, <5>2, SetupDoneType
      <4> QED BY <1>2, <4>1, <4>2, <4>3
    <3> QED BY <3>1 DEF TypeOK
  <2>7. file' \in [Senders -> Files]
    <3>1. [open |-> r.kind = "file", left |-> r.size] \in Files
      BY RequestFacts DEF Files
    <3>2. file' = file \/ file' = [file EXCEPT ![t] = [open |-> r.kind = "file", left |-> r.size]]
      BY <1>2 DEF LockNotCreated, FileNotOpened, SetupDone
    <3>3. file \in [Senders -> Files]
      BY DEF TypeOK, Files
    <3> QED BY <3>1, <3>2, <3>3
  <2> QED BY <2>2, <2>3, <2>4, <2>5, <2>6, <2>7 DEF TypeOK, Seen, Files
<1>3. ASSUME NEW t \in Senders, Perform(t)
      PROVE  TypeOK'
  <2>1. ASSUME Initiate(t) \/ InitiateFails(t) \/ InitiateReportedFailed(t) \/ WaitFails(t)
        PROVE  TypeOK'
    <3>1. send_info[t] \in Cells /\ call[t] \in ValidRequests
      BY <2>1, InsideHas DEF Initiate, InitiateFails, InitiateReportedFailed, WaitFails, Inside
    <3>2. phase' \in [Cells -> Phases]
      BY <2>1, <3>1 DEF Initiate, InitiateFails, InitiateReportedFailed, WaitFails, Accepted,
                        FirstPhase, TypeOK, Phases
    <3>3. failures' \in Nat /\ calls' = calls
      BY <2>1 DEF Initiate, InitiateFails, InitiateReportedFailed, WaitFails, Fails, counts, TypeOK
    <3>4. /\ pc' \in [Senders -> {"idle", "initiate", "wait", "finish", "copy", "returned"}]
          /\ error' \in [Senders -> Errors]
      <4>1. PICK e \in Errors, next \in {"wait", "finish"} : Goes(t, e, next)
        BY <2>1, ErrorTypes DEF Initiate, InitiateFails, InitiateReportedFailed, WaitFails
      <4> QED BY <4>1 DEF Goes, TypeOK
    <3>5. UNCHANGED <<call, send_info, code, allocated, svc_send, file, seen, flags>>
      BY <2>1 DEF Initiate, InitiateFails, InitiateReportedFailed, WaitFails
    <3> QED BY <3>2, <3>3, <3>4, <3>5 DEF TypeOK, flags, Phases
  <2>2. ASSUME Wake(t)
        PROVE  TypeOK'
    <3>1. send_info[t] \in Cells /\ svc_send[send_info[t]] \in Contexts
      BY <2>2, InsideHas DEF Wake, Inside
    <3>2. [svc_send[send_info[t]] EXCEPT !.released = @ - 1] \in Contexts
      BY <2>2, <3>1 DEF Wake, Contexts
    <3>3. Outcome(svc_send[send_info[t]], call[t]) \in Errors
      BY <3>1, OutcomeType
    <3> QED BY <2>2, <3>1, <3>2, <3>3 DEF Wake, Goes, TypeOK, counts, flags
  <2>3. ASSUME Finish(t)
        PROVE  TypeOK'
    <3>1. /\ send_info[t] \in Cells /\ svc_send[send_info[t]] \in Contexts
          /\ svc_send[send_info[t]].raw_response_error \in RawErrors
      BY <2>3, InsideHas DEF Finish, Inside, Contexts
    <3>2. svc_send' \in [Cells -> Contexts]
      BY <2>3, <3>1, FreedType DEF Finish, TypeOK, Freed
    <3>3. /\ file' \in [Senders -> Files] /\ seen' \in [Senders -> Seen]
      BY <2>3 DEF Finish, TypeOK, Files, Seen, Sees, NothingSeen
    <3>4. /\ pc' \in [Senders -> {"idle", "initiate", "wait", "finish", "copy", "returned"}]
          /\ send_info' \in [Senders -> Cells \cup {NULL}]
          /\ call' \in [Senders -> ValidRequests \cup {NoCall}]
          /\ allocated' \subseteq Cells
      BY <2>3, <3>1 DEF Finish, TypeOK
    <3>5. abandoned' \in BOOLEAN /\ wild' \in BOOLEAN
      BY <2>3 DEF Finish, TypeOK
    <3>6. UNCHANGED <<error, code, phase, calls, failures>>
      BY <2>3 DEF Finish, counts
    <3> QED BY <3>2, <3>3, <3>4, <3>5, <3>6 DEF TypeOK, Files, Seen
  <2>4. ASSUME CopyCode(t)
        PROVE  TypeOK'
    <3>1. send_info[t] \in Cells
      BY <2>4 DEF CopyCode, Holds, Inside
    <3>2. svc_send[send_info[t]].raw_response_error \in RawErrors
      BY <3>1 DEF TypeOK, Contexts
    <3> QED BY <2>4, <3>2 DEF CopyCode, TypeOK, counts, flags
  <2> QED BY <1>3, <2>1, <2>2, <2>3, <2>4 DEF Perform
<1>4. ASSUME NEW t \in Senders, Truncate(t)
      PROVE  TypeOK'
  <2>1. file[t].left \in Nat /\ file[t].left > 0
    BY <1>4 DEF Truncate, TypeOK
  <2>2. file' \in [Senders -> Files]
    BY <1>4, <2>1 DEF Truncate, TypeOK, Files
  <2> QED BY <1>4, <2>2 DEF Truncate, Fails, TypeOK, Files, threads, flags
<1>5. ASSUME NEW c \in Cells, Callback(c)
      PROVE  TypeOK'
  <2>0. /\ Owner(c) \in Senders /\ send_info[Owner(c)] = c /\ Inside(Owner(c))
        /\ svc_send[c] \in Contexts /\ seen[Owner(c)] \in Seen
        /\ file[Owner(c)] \in Files
    <3>1. phase[c] # "none" /\ ~abandoned
      BY <1>5 DEF Callback, Deliver, Length, Data, DataReadFails, Status, PingResponse, Response, Sound
    <3> QED BY <3>1, OwnerFacts, Typed
  <2> DEFINE t == Owner(c)
             m == svc_send[c]
  <2>1. ASSUME Length(c)
        PROVE  TypeOK'
    <3>1. [seen[t] EXCEPT !.announced = m.bytes_remaining] \in Seen
      BY <2>0 DEF Seen, Contexts
    <3> QED BY <2>0, <2>1, <3>1 DEF Length, Sees, TypeOK, Seen, threads, counts, flags
  <2>2. ASSUME Data(c)
        PROVE  TypeOK'
    <3> DEFINE n == BytesExpected(m)
               read == IF m.sending_file /\ file[t].left < n THEN file[t].left ELSE n
    <3>1. n \in Nat /\ m.bytes_remaining - n \in Nat
      BY <2>0, SizesAssumption DEF BytesExpected, Contexts
    <3>2. [m EXCEPT !.bytes_remaining = @ - n] \in Contexts
      BY <2>0, <3>1 DEF Contexts
    <3>3. [seen[t] EXCEPT !.taken = @ + n, !.reads = IF read # n THEN "short" ELSE @] \in Seen
      <4> DEFINE x == IF read # n THEN "short" ELSE seen[t].reads
                 k == seen[t].taken + n
      <4>1. x \in {"whole", "short", "failed"} /\ k \in Nat
        BY <2>0, <3>1 DEF Seen
      <4>2. \A y, z : y \in {"whole", "short", "failed"} /\ z \in Nat
                      => [seen[t] EXCEPT !.taken = z, !.reads = y] \in Seen
        BY <2>0 DEF Seen
      <4>3. [seen[t] EXCEPT !.taken = k, !.reads = x] \in Seen
        <5> HIDE DEF x, k
        <5> QED BY <4>1, <4>2
      <4> QED BY <4>3
    <3>4. file' \in [Senders -> Files]
      <4>1. m.sending_file => file[t].left - read \in Nat
        BY <2>0, <3>1 DEF Files, Contexts
      <4>2. file' = [file EXCEPT ![t].left = IF m.sending_file THEN file[t].left - read
                                                              ELSE file[t].left]
        BY <2>2 DEF Data
      <4> HIDE DEF read
      <4> QED BY <2>0, <4>1, <4>2 DEF TypeOK, Files
    <3>5. phase' \in [Cells -> Phases]
      BY <2>2 DEF Data, TypeOK, Phases
    <3>6. svc_send' = [svc_send EXCEPT ![c] = [m EXCEPT !.bytes_remaining = @ - n]]
          /\ seen' = [seen EXCEPT ![t] = [seen[t] EXCEPT !.taken = @ + n,
                                            !.reads = IF read # n THEN "short" ELSE @]]
          /\ UNCHANGED <<threads, allocated, counts, flags>>
      BY <2>2 DEF Data, Sees
    <3> HIDE DEF n, read, m
    <3> QED BY <2>0, <3>2, <3>3, <3>4, <3>5, <3>6
            DEF TypeOK, Seen, Files, Phases, threads, counts, flags
  <2>3. ASSUME DataReadFails(c)
        PROVE  TypeOK'
    <3>1. [m EXCEPT !.request_error = "accessing_file"] \in Contexts
      BY <2>0 DEF Contexts
    <3>2. [seen[t] EXCEPT !.reads = "failed"] \in Seen
      BY <2>0 DEF Seen
    <3> QED BY <2>0, <2>3, <3>1, <3>2
            DEF DataReadFails, Fails, Sees, TypeOK, Seen, threads, flags
  <2>4. ASSUME NEW r \in Responses, Response(c, r)
        PROVE  TypeOK'
    <3>1. [m EXCEPT !.raw_response_error = r, !.response_error = ToError(r)] \in Contexts
      BY <2>0, ToErrorType DEF Contexts, RawErrors
    <3>2. [seen[t] EXCEPT !.response = r] \in Seen
      BY <2>0 DEF Seen
    <3> QED BY <2>0, <2>4, <3>1, <3>2 DEF Response, Sees, TypeOK, Seen, threads, counts, flags
  <2>5. ASSUME NEW st \in Statuses, NEW ok \in BOOLEAN,
               Status(c, st, ok) \/ PingResponse(c, st, ok)
        PROVE  TypeOK'
    <3>1. /\ Released([m EXCEPT !.status_error = ToError(st)], ok) \in Contexts
          /\ Released([m EXCEPT !.response_error = ToError(st)], ok) \in Contexts
      <4>1. /\ [m EXCEPT !.status_error = ToError(st)] \in Contexts
            /\ [m EXCEPT !.response_error = ToError(st)] \in Contexts
        BY <2>0, ToErrorType DEF Contexts
      <4>2. \A k \in Contexts : Released(k, ok) \in Contexts
        BY DEF Released, Contexts
      <4> QED BY <4>1, <4>2
    <3>2. [seen[t] EXCEPT !.final = st] \in Seen
      BY <2>0 DEF Seen
    <3>3. failures' \in Nat
      BY <2>5 DEF Status, PingResponse, ReleaseCounts, Fails, TypeOK
    <3>4. PICK k \in Contexts : svc_send' = [svc_send EXCEPT ![c] = k]
      BY <2>5, <3>1 DEF Status, PingResponse
    <3>5. /\ seen' = [seen EXCEPT ![t] = [seen[t] EXCEPT !.final = st]]
          /\ phase' = [phase EXCEPT ![c] = "none"]
          /\ UNCHANGED <<threads, allocated, file, calls, flags>>
      BY <2>5 DEF Status, PingResponse, Sees
    <3> QED BY <2>0, <3>2, <3>3, <3>4, <3>5 DEF TypeOK, Seen, threads, flags
  <2> QED BY <1>5, <2>1, <2>2, <2>3, <2>4, <2>5 DEF Callback, Deliver
<1>6. CASE UNCHANGED vars
  BY <1>6 DEF TypeOK, vars, threads, counts, flags
<1> QED BY <1>1, <1>2, <1>3, <1>4, <1>5, <1>6 DEF Next, Begin

-----------------------------------------------------------------------------
(* The steps of one call, seen from its context. *)

LEMMA SetupSession ==
  ASSUME NEW r \in ValidRequests, NEW m \in Garbage
  PROVE  LET k == [SetupCommon(m) EXCEPT !.sending_file = (r.kind = "file"),
                                         !.bytes_remaining = r.size]
             f == [open |-> r.kind = "file", left |-> r.size]
         IN  Session(k, NothingSeen, r, f, "none") /\ k.released = 0
<1> DEFINE k == [SetupCommon(m) EXCEPT !.sending_file = (r.kind = "file"),
                                       !.bytes_remaining = r.size]
<1>1. /\ k.lock = "made" /\ k.released = 0 /\ k.sending_file = (r.kind = "file")
      /\ k.bytes_remaining = r.size /\ k.request_error = "none"
      /\ k.response_error = "none" /\ k.status_error = "none"
  BY DEF SetupCommon, Garbage
<1>2. r.size \in Nat
  BY RequestFacts
<1> HIDE DEF k
<1>3. Agrees(k, NothingSeen, r)
  BY <1>1, <1>2 DEF Agrees, NothingSeen, Unasked
<1>4. Owns(k, r, [open |-> r.kind = "file", left |-> r.size])
  BY <1>1 DEF Owns
<1>5. InStep(k, NothingSeen, r, "none")
  BY <1>1 DEF InStep, NothingSeen
<1>6. Session(k, NothingSeen, r, [open |-> r.kind = "file", left |-> r.size], "none")
  BY <1>3, <1>4, <1>5 DEF Session
<1> QED BY <1>1, <1>6 DEF k

LEMMA AcceptSession ==
  ASSUME NEW m, NEW r \in ValidRequests, NEW f, Session(m, NothingSeen, r, f, "none"),
         m.released = 0
  PROVE  Session(m, NothingSeen, r, f, FirstPhase(r.kind)) /\ FirstPhase(r.kind) # "none"
<1>1. NothingSeen.final = "none" /\ NothingSeen.reads = "whole"
  BY DEF NothingSeen
<1> QED BY <1>1, RequestFacts DEF Session, InStep, FirstPhase

\* The thread is woken only when the session is over.
LEMMA WakeSession ==
  ASSUME NEW m \in Contexts, NEW s \in Seen, NEW r \in ValidRequests, NEW f, NEW ph,
         Session(m, s, r, f, ph), m.released > 0
  PROVE  /\ ph = "none"
         /\ Session([m EXCEPT !.released = @ - 1], s, r, f, ph)
         /\ Honest(Outcome(m, r), s, r)
<1>1. ph = "none" /\ s.final # "none"
  BY DEF Session, InStep, Contexts
<1> DEFINE k == [m EXCEPT !.released = @ - 1]
<1>2. /\ k.lock = m.lock /\ k.sending_file = m.sending_file
      /\ k.bytes_remaining = m.bytes_remaining /\ k.request_error = m.request_error
      /\ k.response_error = m.response_error /\ k.status_error = m.status_error
  BY DEF Contexts
<1>3. Session(k, s, r, f, ph)
  <2> HIDE DEF k
  <2> QED BY <1>1, <1>2 DEF Session, Agrees, Owns, InStep
<1>4. Agrees(m, s, r)
  BY DEF Session
<1>5. m.bytes_remaining \in Nat /\ s.taken \in Nat /\ r.size \in Nat
      /\ s.response \in {"none", "success"} \cup ResponseErrors
      /\ s.final \in {"complete"} \cup StatusErrors
  BY <1>1, RequestFacts DEF Contexts, Seen, Responses, Statuses
<1>6. Honest(Outcome(m, r), s, r)
  <2>1. CASE r.kind = "ping"
    BY <1>1, <1>4, <1>5, <2>1, Distinct, RequestFacts DEF Honest, Outcome, Agrees, ToError
  <2>2. CASE r.kind # "ping" /\ s.reads = "failed"
    BY <1>1, <1>4, <1>5, <2>2, Distinct, RequestFacts DEF Honest, Outcome, Agrees, ToError
  <2>3. CASE r.kind # "ping" /\ s.reads # "failed"
    BY <1>1, <1>4, <1>5, <2>3, Distinct, RequestFacts DEF Honest, Outcome, Agrees, ToError
  <2> QED BY <2>1, <2>2, <2>3
<1> QED BY <1>1, <1>3, <1>6

LEMMA LengthSession ==
  ASSUME NEW m \in Contexts, NEW s \in Seen, NEW r \in ValidRequests, NEW f,
         Session(m, s, r, f, "data"), s.taken = 0
  PROVE  Session(m, [s EXCEPT !.announced = m.bytes_remaining], r, f, "data")
<1> DEFINE z == [s EXCEPT !.announced = m.bytes_remaining]
<1>1. /\ z.announced = m.bytes_remaining /\ z.taken = s.taken /\ z.reads = s.reads
      /\ z.response = s.response /\ z.final = s.final
  BY DEF Seen
<1>2. m.bytes_remaining = r.size
  BY RequestFacts DEF Session, Agrees, Contexts
<1> HIDE DEF z
<1> QED BY <1>1, <1>2 DEF Session, Agrees, InStep, z

\* Data: n bytes are taken, from a file by a read that was whole or short (x).
Taking(m, s, n, x) == n \in Nat /\ n <= m.bytes_remaining /\ x \in {"short", s.reads}
SameFile(f, g) == g.open = f.open
Took(m, n) == [m EXCEPT !.bytes_remaining = @ - n]
TookToo(s, n, x) == [s EXCEPT !.taken = @ + n, !.reads = x]
AfterData(m) == IF m.bytes_remaining > 0 THEN "data" ELSE "answer"

\* The bytes that were taken and the ones that are left add up, also when the
\* file had fewer of them.
LEMMA DataSession ==
  ASSUME NEW m \in Contexts, NEW s \in Seen, NEW r \in ValidRequests, NEW f, NEW g,
         NEW n, NEW x, Taking(m, s, n, x), SameFile(f, g), Session(m, s, r, f, "data")
  PROVE  /\ Session(Took(m, n), TookToo(s, n, x), r, g, AfterData(Took(m, n)))
         /\ Took(m, n).released = 0
<1> DEFINE k == Took(m, n)
           z == TookToo(s, n, x)
           ph == AfterData(k)
<1>1. /\ k.bytes_remaining = m.bytes_remaining - n /\ k.lock = m.lock /\ k.released = m.released
      /\ k.sending_file = m.sending_file /\ k.request_error = m.request_error
      /\ k.response_error = m.response_error /\ k.status_error = m.status_error
  BY DEF Contexts, Took
<1>2. /\ z.taken = s.taken + n /\ z.reads = x /\ z.announced = s.announced
      /\ z.response = s.response /\ z.final = s.final
  BY DEF Seen, TookToo
<1>3. m.bytes_remaining \in Nat /\ s.taken \in Nat /\ r.size \in Nat
  BY RequestFacts DEF Contexts, Seen
<1>4. /\ s.final = "none" /\ s.reads # "failed" /\ x # "failed" /\ m.released = 0
      /\ r.kind # "ping"
  BY DEF Session, InStep, Taking
<1>10. n \in Nat /\ n <= m.bytes_remaining
  BY DEF Taking
<1>5. ph \in {"data", "answer"} /\ (ph = "answer" => k.bytes_remaining = 0)
  BY <1>1, <1>3, <1>10 DEF AfterData
<1> HIDE DEF k, z, ph
<1>6. Agrees(k, z, r)
  BY <1>1, <1>2, <1>3, <1>4, <1>10 DEF Session, Agrees
<1>7. Owns(k, r, g)
  BY <1>1 DEF Session, Owns, SameFile
<1>8. InStep(k, z, r, ph)
  BY <1>1, <1>2, <1>4, <1>5 DEF InStep
<1>9. Session(k, z, r, g, ph) /\ k.released = 0
  BY <1>1, <1>4, <1>6, <1>7, <1>8 DEF Session
<1> QED BY <1>9 DEF k, z, ph

LEMMA ReadFailsSession ==
  ASSUME NEW m \in Contexts, NEW s \in Seen, NEW r \in ValidRequests, NEW f,
         Session(m, s, r, f, "data")
  PROVE  LET k == [m EXCEPT !.request_error = "accessing_file"]
             z == [s EXCEPT !.reads = "failed"]
         IN  Session(k, z, r, f, "failed") /\ k.released = 0
<1> DEFINE k == [m EXCEPT !.request_error = "accessing_file"]
           z == [s EXCEPT !.reads = "failed"]
<1>1. /\ k.bytes_remaining = m.bytes_remaining /\ k.lock = m.lock /\ k.released = m.released
      /\ k.sending_file = m.sending_file /\ k.request_error = "accessing_file"
      /\ k.response_error = m.response_error /\ k.status_error = m.status_error
  BY DEF Contexts
<1>2. /\ z.taken = s.taken /\ z.reads = "failed" /\ z.announced = s.announced
      /\ z.response = s.response /\ z.final = s.final
  BY DEF Seen
<1>3. s.final = "none" /\ m.released = 0 /\ r.kind # "ping"
  BY DEF Session, InStep
<1> HIDE DEF k, z
<1>4. Agrees(k, z, r)
  BY <1>1, <1>2, <1>3 DEF Session, Agrees
<1>5. Owns(k, r, f) /\ InStep(k, z, r, "failed")
  BY <1>1, <1>2, <1>3 DEF Session, Owns, InStep
<1>6. Session(k, z, r, f, "failed") /\ k.released = 0
  BY <1>1, <1>3, <1>4, <1>5 DEF Session
<1> QED BY <1>6 DEF k, z

LEMMA ResponseSession ==
  ASSUME NEW m \in Contexts, NEW s \in Seen, NEW r \in ValidRequests, NEW f, NEW a \in Responses,
         Session(m, s, r, f, "answer")
  PROVE  LET k == [m EXCEPT !.raw_response_error = a, !.response_error = ToError(a)]
             z == [s EXCEPT !.response = a]
         IN  Session(k, z, r, f, "answer") /\ k.released = 0
<1> DEFINE k == [m EXCEPT !.raw_response_error = a, !.response_error = ToError(a)]
           z == [s EXCEPT !.response = a]
<1>1. /\ k.bytes_remaining = m.bytes_remaining /\ k.lock = m.lock /\ k.released = m.released
      /\ k.sending_file = m.sending_file /\ k.request_error = m.request_error
      /\ k.response_error = ToError(a) /\ k.status_error = m.status_error
  BY DEF Contexts
<1>2. /\ z.taken = s.taken /\ z.reads = s.reads /\ z.announced = s.announced
      /\ z.response = a /\ z.final = s.final
  BY DEF Seen
<1>3. s.final = "none" /\ m.released = 0 /\ r.kind # "ping" /\ a # "none"
  BY Distinct DEF Session, InStep, Responses
<1> HIDE DEF k, z
<1>4. Agrees(k, z, r)
  BY <1>1, <1>2, <1>3 DEF Session, Agrees
<1>5. Owns(k, r, f) /\ InStep(k, z, r, "answer")
  BY <1>1, <1>2, <1>3 DEF Session, Owns, InStep
<1>6. Session(k, z, r, f, "answer") /\ k.released = 0
  BY <1>1, <1>3, <1>4, <1>5 DEF Session
<1> QED BY <1>6 DEF k, z

\* CCFSM's last word of a send: the status.
MayEnd(ph, st) == ph \in {"data", "failed", "answer"} /\ (st = "complete" => ph = "answer")

LEMMA StatusSession ==
  ASSUME NEW m \in Contexts, NEW s \in Seen, NEW r \in ValidRequests, NEW f,
         NEW ph, NEW st \in Statuses, NEW ok \in BOOLEAN, Session(m, s, r, f, ph), MayEnd(ph, st)
  PROVE  LET k == Released([m EXCEPT !.status_error = ToError(st)], ok)
             z == [s EXCEPT !.final = st]
         IN  Session(k, z, r, f, "none") /\ (ok => k.released > 0)
<1> DEFINE k == Released([m EXCEPT !.status_error = ToError(st)], ok)
           z == [s EXCEPT !.final = st]
<1>1. /\ k.bytes_remaining = m.bytes_remaining /\ k.lock = m.lock
      /\ k.released = (IF ok THEN m.released + 1 ELSE m.released)
      /\ k.sending_file = m.sending_file /\ k.request_error = m.request_error
      /\ k.response_error = m.response_error /\ k.status_error = ToError(st)
  BY DEF Contexts, Released
<1>2. /\ z.taken = s.taken /\ z.reads = s.reads /\ z.announced = s.announced
      /\ z.response = s.response /\ z.final = st
  BY DEF Seen
<1>3. s.final = "none" /\ m.released = 0 /\ r.kind # "ping" /\ st # "none"
  BY Distinct DEF Session, InStep, Statuses, MayEnd
<1>4. st = "complete" => m.bytes_remaining = 0 /\ s.reads # "failed"
  BY DEF Session, InStep, MayEnd
<1> HIDE DEF k, z
<1>5. Agrees(k, z, r)
  BY <1>1, <1>2, <1>3, <1>4 DEF Session, Agrees
<1>6. Owns(k, r, f) /\ InStep(k, z, r, "none")
  BY <1>1, <1>2, <1>3 DEF Session, Owns, InStep
<1>7. Session(k, z, r, f, "none") /\ (ok => k.released > 0)
  BY <1>1, <1>3, <1>5, <1>6 DEF Session
<1> QED BY <1>7 DEF k, z

\* CCFSM's only word of a ping: its response.
LEMMA PingSession ==
  ASSUME NEW m \in Contexts, NEW s \in Seen, NEW r \in ValidRequests, NEW f,
         NEW st \in Statuses, NEW ok \in BOOLEAN, Session(m, s, r, f, "ping")
  PROVE  LET k == Released([m EXCEPT !.response_error = ToError(st)], ok)
             z == [s EXCEPT !.final = st]
         IN  Session(k, z, r, f, "none") /\ (ok => k.released > 0)
<1> DEFINE k == Released([m EXCEPT !.response_error = ToError(st)], ok)
           z == [s EXCEPT !.final = st]
<1>1. /\ k.bytes_remaining = m.bytes_remaining /\ k.lock = m.lock
      /\ k.released = (IF ok THEN m.released + 1 ELSE m.released)
      /\ k.sending_file = m.sending_file /\ k.request_error = m.request_error
      /\ k.response_error = ToError(st) /\ k.status_error = m.status_error
  BY DEF Contexts, Released
<1>2. /\ z.taken = s.taken /\ z.reads = s.reads /\ z.announced = s.announced
      /\ z.response = s.response /\ z.final = st
  BY DEF Seen
<1>3. s.final = "none" /\ m.released = 0 /\ r.kind = "ping" /\ st # "none"
  BY Distinct DEF Session, InStep, Statuses
<1>4. m.bytes_remaining = 0 /\ s.reads # "failed"
  BY <1>3, RequestFacts DEF Session, Agrees, Contexts, Seen
<1> HIDE DEF k, z
<1>5. Agrees(k, z, r)
  BY <1>1, <1>2, <1>3, <1>4 DEF Session, Agrees
<1>6. Owns(k, r, f) /\ InStep(k, z, r, "none")
  BY <1>1, <1>2, <1>3 DEF Session, Owns, InStep
<1>7. Session(k, z, r, f, "none") /\ (ok => k.released > 0)
  BY <1>1, <1>3, <1>5, <1>6 DEF Session
<1> QED BY <1>7 DEF k, z

-----------------------------------------------------------------------------
(* What a step of one thread, or a callback for its context, leaves alone. *)

LEMMA CallMonotone ==
  ASSUME NEW p, NEW e, NEW m, NEW s, NEW r, NEW f, NEW ph, NEW n \in Nat, NEW k \in Nat,
         n <= k, Call(p, e, m, s, r, f, ph, n)
  PROVE  Call(p, e, m, s, r, f, ph, k)
BY DEF Call, NotSetUp, Ended

\* No other thread of the API is inside with the cell c.
Touches(t, c) ==
  /\ \A u \in Senders \ {t} :
       /\ pc'[u] = pc[u] /\ call'[u] = call[u] /\ send_info'[u] = send_info[u]
       /\ error'[u] = error[u] /\ file'[u] = file[u] /\ seen'[u] = seen[u]
       /\ Inside(u) => send_info[u] # c
  /\ \A d \in Cells \ {c} :
       svc_send'[d] = svc_send[d] /\ phase'[d] = phase[d] /\ (d \in allocated <=> d \in allocated')
  /\ failures' \in Nat /\ failures <= failures'

LEMMA OthersHold ==
  ASSUME SendInv, NEW t \in Senders, NEW c, Touches(t, c), NEW u \in Senders \ {t}
  PROVE  Holds(u)' /\ (Inside(u) <=> Inside(u)')
<1>1. /\ pc'[u] = pc[u] /\ call'[u] = call[u] /\ send_info'[u] = send_info[u]
      /\ error'[u] = error[u] /\ file'[u] = file[u] /\ seen'[u] = seen[u]
      /\ Inside(u) => send_info[u] # c
  BY DEF Touches
<1>2. Inside(u) <=> Inside(u)'
  BY <1>1 DEF Inside
<1>3. CASE Inside(u)
  <2> DEFINE d == send_info[u]
  <2>1. /\ d \in allocated /\ d \in Cells /\ call[u] \in ValidRequests
        /\ Call(pc[u], error[u], svc_send[d], seen[u], call[u], file[u], phase[d], failures)
    BY <1>3, InsideHas
  <2>2. d \in allocated' /\ svc_send'[d] = svc_send[d] /\ phase'[d] = phase[d]
    BY <1>1, <1>3, <2>1 DEF Touches
  <2>3. failures \in Nat /\ failures' \in Nat /\ failures <= failures'
    BY DEF Touches, SendInv, TypeOK
  <2>4. Call(pc[u], error[u], svc_send[d], seen[u], call[u], file[u], phase[d], failures')
    BY <2>1, <2>3, CallMonotone
  <2> QED BY <1>1, <1>2, <1>3, <2>1, <2>2, <2>4 DEF Holds
<1>4. CASE ~Inside(u)
  BY <1>1, <1>2, <1>4 DEF Holds, SendInv
<1> QED BY <1>2, <1>3, <1>4

\* A context has one owner still, when the thread is inside with c afterwards.
LEMMA OwnedKept ==
  ASSUME SendInv, TypeOK', NEW t \in Senders, NEW c \in Cells, Touches(t, c), ~abandoned,
         Inside(t) => send_info[t] = c, Inside(t)', send_info'[t] = c, c \in allocated'
  PROVE  Owned'
<1>1. \A u \in Senders \ {t} : /\ Inside(u) <=> Inside(u)'
                               /\ send_info'[u] = send_info[u]
                               /\ Inside(u)' => send_info'[u] # c
  BY OthersHold DEF Touches
<1>2. \A u, v \in Senders : Inside(u)' /\ Inside(v)' /\ send_info'[u] = send_info'[v] => u = v
  <2>1. \A u, v \in Senders \ {t} :
          Inside(u)' /\ Inside(v)' /\ send_info'[u] = send_info'[v] => u = v
    BY <1>1 DEF SendInv, Owned
  <2> QED BY <1>1, <2>1
<1>3. \A d \in allocated' : \E u \in Senders : Inside(u)' /\ send_info'[u] = d
  <2> TAKE d \in allocated'
  <2>1. CASE d = c
    BY <2>1
  <2>2. CASE d # c
    <3>1. d \in allocated
      BY <2>2 DEF Touches, TypeOK
    <3>2. PICK u \in Senders : Inside(u) /\ send_info[u] = d
      BY <3>1 DEF SendInv, Owned
    <3>3. u # t
      BY <3>2, <2>2
    <3> QED BY <3>2, <3>3, <1>1
  <2> QED BY <2>1, <2>2
<1>4. \A d \in Cells : phase'[d] # "none" => d \in allocated'
  <2> TAKE d \in Cells
  <2> QED BY DEF SendInv, Owned, Touches
<1> QED BY <1>2, <1>3, <1>4 DEF Owned

LEMMA InsideKeeps ==
  ASSUME SendInv, TypeOK', NEW t \in Senders, NEW c \in Cells, Touches(t, c), ~abandoned,
         Inside(t) => send_info[t] = c, Inside(t)', send_info'[t] = c, c \in allocated',
         call'[t] \in ValidRequests, UNCHANGED flags,
         Call(pc'[t], error'[t], svc_send'[c], seen'[t], call'[t], file'[t], phase'[c], failures')
  PROVE  SendInv'
<1>1. Owned'
  BY OwnedKept
<1>2. Blamed'
  BY DEF Touches, SendInv, Blamed, TypeOK, flags
<1>3. Holds(t)'
  BY DEF Holds
<1>4. \A u \in Senders : Holds(u)'
  BY <1>3, OthersHold
<1> QED BY <1>1, <1>2, <1>4 DEF SendInv

LEMMA OutsideKeeps ==
  ASSUME SendInv, TypeOK', NEW t \in Senders, Touches(t, NULL), ~Inside(t), ~Inside(t)', Holds(t)',
         UNCHANGED <<allocated, phase, flags>>
  PROVE  SendInv'
<1>1. \A u \in Senders : Inside(u) <=> Inside(u)'
  BY OthersHold
<1>2. \A u \in Senders : Inside(u) => send_info'[u] = send_info[u]
  BY DEF Touches
<1>3. Owned'
  <2>1. \A d \in allocated' : \E u \in Senders : Inside(u)' /\ send_info'[u] = d
    <3> TAKE d \in allocated'
    <3>1. PICK u \in Senders : Inside(u) /\ send_info[u] = d
      BY DEF SendInv, Owned
    <3> QED BY <1>1, <1>2, <3>1
  <2>2. \A u, v \in Senders : Inside(u)' /\ Inside(v)' /\ send_info'[u] = send_info'[v] => u = v
    BY <1>1, <1>2 DEF SendInv, Owned
  <2> QED BY <2>1, <2>2 DEF SendInv, Owned, flags
<1>4. Blamed'
  BY DEF Touches, SendInv, Blamed, TypeOK, flags
<1> QED BY <1>3, <1>4, OthersHold DEF SendInv

LEMMA RefusedKeeps ==
  ASSUME SendInv, TypeOK', NEW t \in Senders, Refused(t) \/ NoMemory(t)
  PROVE  SendInv'
<1>1. PICK e : ReturnsAtOnce(t, e)
  BY DEF Refused, NoMemory
<1>2. failures' \in Nat /\ failures <= failures'
  BY DEF Refused, NoMemory, Fails, SendInv, TypeOK
<1>3. Enter(t)
  BY DEF Refused, NoMemory
<1>4. ~Inside(t)
  BY <1>3 DEF Enter, Inside
<1>5. pc'[t] = "returned" /\ ~Inside(t)' /\ file'[t] = file[t]
  BY <1>1 DEF ReturnsAtOnce, Inside, SendInv, TypeOK
<1>6. Touches(t, NULL)
  <2>1. \A u \in Senders : Inside(u) => send_info[u] # NULL
    BY InsideHas, CellsAssumption
  <2> QED BY <1>1, <1>2, <1>3, <2>1 DEF Touches, ReturnsAtOnce, Enter, Sees, SendInv, TypeOK
<1>7. Holds(t)'
  BY <1>4, <1>5 DEF Holds, SendInv
<1> QED BY <1>1, <1>3, <1>4, <1>5, <1>6, <1>7, OutsideKeeps DEF ReturnsAtOnce, Enter

LEMMA SetupKeeps ==
  ASSUME SendInv, TypeOK', NEW t \in Senders, NEW r \in ValidRequests, NEW c \in Cells,
         LockNotCreated(t, r, c) \/ FileNotOpened(t, r, c) \/ SetupDone(t, r, c)
  PROVE  SendInv'
<1>1. Allocate(t, r, c) /\ Enter(t)
  BY DEF LockNotCreated, FileNotOpened, SetupDone, Allocate
<1>2. ~Inside(t) /\ c \notin allocated /\ allocated' = allocated \cup {c} /\ ~abandoned
      /\ phase[c] = "none" /\ phase' = phase /\ UNCHANGED flags
  BY <1>1 DEF Allocate, Enter, Inside, SendInv, Owned, Sound
<1>3. /\ call'[t] = r /\ send_info'[t] = c /\ seen'[t] = NothingSeen
      /\ \A u \in Senders \ {t} : call'[u] = call[u] /\ send_info'[u] = send_info[u]
                                  /\ seen'[u] = seen[u]
  BY <1>1 DEF Allocate, Enter, Sees, SendInv, TypeOK
<1>4. failures' \in Nat /\ failures <= failures'
  <2>1. failures' = failures \/ failures' = failures + 1
    BY DEF LockNotCreated, FileNotOpened, SetupDone, Fails
  <2> QED BY <2>1 DEF SendInv, TypeOK
<1>5. PICK e, next : Goes(t, e, next)
  BY DEF LockNotCreated, FileNotOpened, SetupDone
<1>6. /\ pc'[t] = next /\ error'[t] = e
      /\ \A u \in Senders \ {t} : pc'[u] = pc[u] /\ error'[u] = error[u]
  BY <1>5 DEF Goes, SendInv, TypeOK
<1>7. PICK k : svc_send' = [svc_send EXCEPT ![c] = k]
  BY DEF LockNotCreated, FileNotOpened, SetupDone
<1>8. \A u \in Senders \ {t} : file'[u] = file[u]
  BY DEF LockNotCreated, FileNotOpened, SetupDone, SendInv, TypeOK
<1>9. Touches(t, c)
  <2>1. \A u \in Senders : Inside(u) => send_info[u] # c
    BY <1>2, InsideHas
  <2>2. \A d \in Cells \ {c} : svc_send'[d] = svc_send[d]
    BY <1>7 DEF SendInv, TypeOK
  <2> QED BY <1>2, <1>3, <1>4, <1>6, <1>8, <2>1, <2>2 DEF Touches
<1>10. CASE LockNotCreated(t, r, c) \/ FileNotOpened(t, r, c)
  <2>1. failures' > 0
    BY <1>10 DEF LockNotCreated, FileNotOpened, Fails, SendInv, TypeOK
  <2>2. error'[t] \in {"lock_failed", "not_a_file", "accessing_file"} /\ pc'[t] = "finish"
    BY <1>10 DEF LockNotCreated, FileNotOpened, Goes, SendInv, TypeOK
  <2>3. ~file'[t].open
    BY <1>2, <1>10 DEF LockNotCreated, FileNotOpened, SendInv, Holds
  <2>4. Call(pc'[t], error'[t], svc_send'[c], seen'[t], call'[t], file'[t], phase'[c], failures')
    BY <1>2, <2>1, <2>2, <2>3 DEF Call, NotSetUp
  <2> QED BY <1>2, <1>3, <1>9, <2>2, <2>4, InsideKeeps DEF Inside
<1>11. CASE SetupDone(t, r, c)
  <2>1. PICK m \in Garbage : svc_send' = [svc_send EXCEPT ![c] =
          [SetupCommon(m) EXCEPT !.sending_file = (r.kind = "file"), !.bytes_remaining = r.size]]
    BY <1>11 DEF SetupDone
  <2>2. svc_send'[c] =
          [SetupCommon(m) EXCEPT !.sending_file = (r.kind = "file"), !.bytes_remaining = r.size]
    BY <2>1 DEF SendInv, TypeOK
  <2>3. file'[t] = [open |-> r.kind = "file", left |-> r.size] /\ pc'[t] = "initiate"
    BY <1>11 DEF SetupDone, Goes, SendInv, TypeOK
  <2>4. Session(svc_send'[c], NothingSeen, r, file'[t], "none") /\ svc_send'[c].released = 0
    BY <2>2, <2>3, SetupSession
  <2>5. Call(pc'[t], error'[t], svc_send'[c], seen'[t], call'[t], file'[t], phase'[c], failures')
    BY <1>2, <1>3, <2>3, <2>4 DEF Call, Fresh
  <2> QED BY <1>2, <1>3, <1>9, <2>3, <2>5, InsideKeeps DEF Inside
<1> QED BY <1>10, <1>11

\* The steps of perform_send before it waits, and the lock that is not acquired.
LEMMA PerformKeeps ==
  ASSUME SendInv, TypeOK', NEW t \in Senders,
         Initiate(t) \/ InitiateFails(t) \/ InitiateReportedFailed(t) \/ WaitFails(t)
  PROVE  SendInv'
<1> DEFINE c == send_info[t]
<1>1. Inside(t) /\ ~abandoned
  BY DEF Initiate, InitiateFails, InitiateReportedFailed, WaitFails, Inside, Sound
<1>2. /\ c \in allocated /\ c \in Cells /\ call[t] \in ValidRequests /\ svc_send[c] \in Contexts
      /\ Call(pc[t], error[t], svc_send[c], seen[t], call[t], file[t], phase[c], failures)
  BY <1>1, InsideHas
<1>3. UNCHANGED <<call, send_info, allocated, svc_send, file, seen, flags>>
  BY DEF Initiate, InitiateFails, InitiateReportedFailed, WaitFails
<1>4. failures' \in Nat /\ failures <= failures'
  <2>1. failures' = failures \/ failures' = failures + 1
    BY DEF Initiate, InitiateFails, InitiateReportedFailed, WaitFails, Fails, counts
  <2> QED BY <2>1 DEF SendInv, TypeOK
<1>5. PICK e \in Errors, next \in {"wait", "finish"} : Goes(t, e, next)
  BY ErrorTypes DEF Initiate, InitiateFails, InitiateReportedFailed, WaitFails
<1>6. /\ pc'[t] = next /\ error'[t] = e
      /\ \A u \in Senders \ {t} : pc'[u] = pc[u] /\ error'[u] = error[u]
  BY <1>5 DEF Goes, SendInv, TypeOK
<1>7. /\ \A d \in Cells \ {c} : phase'[d] = phase[d]
      /\ Initiate(t) \/ InitiateReportedFailed(t) => phase'[c] = FirstPhase(call[t].kind)
      /\ InitiateFails(t) \/ WaitFails(t) => phase'[c] = phase[c]
  BY <1>2 DEF Initiate, InitiateFails, InitiateReportedFailed, WaitFails, Accepted, SendInv, TypeOK
<1>8. Touches(t, c)
  <2>1. \A u \in Senders \ {t} : Inside(u) => send_info[u] # c
    BY <1>1 DEF SendInv, Owned
  <2> HIDE DEF c
  <2> QED BY <1>3, <1>4, <1>6, <1>7, <2>1 DEF Touches
<1>9. Inside(t)'
  BY <1>6 DEF Inside
<1>10. Call(pc'[t], error'[t], svc_send[c], seen[t], call[t], file[t], phase'[c], failures')
  <2>1. CASE pc[t] = "initiate"
    <3>1. /\ Session(svc_send[c], seen[t], call[t], file[t], phase[c]) /\ phase[c] = "none"
          /\ svc_send[c].released = 0 /\ seen[t] = NothingSeen
      BY <1>2, <2>1 DEF Call, Fresh
    <3>2. /\ Session(svc_send[c], seen[t], call[t], file[t], FirstPhase(call[t].kind))
          /\ FirstPhase(call[t].kind) # "none"
      BY <1>2, <3>1, AcceptSession
    <3>3. CASE Initiate(t)
      <4>1. pc'[t] = "wait"
        BY <3>3 DEF Initiate, Goes, SendInv, TypeOK
      <4> QED BY <1>7, <3>1, <3>2, <3>3, <4>1 DEF Call
    <3>4. CASE InitiateFails(t)
      <4>1. pc'[t] = "finish" /\ error'[t] = "initiate_action_failed"
        BY <3>4 DEF InitiateFails, Goes, SendInv, TypeOK
      <4> QED BY <1>7, <3>1, <3>4, <4>1 DEF Call, Ended
    <3>5. CASE InitiateReportedFailed(t)
      <4>1. pc'[t] = "finish" /\ error'[t] = "initiate_action_failed" /\ failures' > 0
        BY <3>5 DEF InitiateReportedFailed, Goes, Fails, SendInv, TypeOK
      <4> QED BY <1>7, <3>2, <3>5, <4>1 DEF Call, Ended
    <3> QED BY <2>1, <3>3, <3>4, <3>5 DEF WaitFails
  <2>2. CASE WaitFails(t)
    <3>1. pc[t] = "wait" /\ pc'[t] = "finish" /\ error'[t] = "lock_failed" /\ failures' > 0
      BY <2>2 DEF WaitFails, Goes, Fails, SendInv, TypeOK
    <3> QED BY <1>2, <1>7, <2>2, <3>1 DEF Call, Ended
  <2> QED BY <2>1, <2>2 DEF Initiate, InitiateFails, InitiateReportedFailed
<1> QED BY <1>1, <1>2, <1>3, <1>8, <1>9, <1>10, InsideKeeps

LEMMA WakeKeeps ==
  ASSUME SendInv, TypeOK', NEW t \in Senders, Wake(t)
  PROVE  SendInv'
<1> DEFINE c == send_info[t]
           m == svc_send[c]
<1>1. Inside(t) /\ ~abandoned /\ pc[t] = "wait" /\ m.released > 0
  BY DEF Wake, Inside, Sound
<1>2. /\ c \in allocated /\ c \in Cells /\ call[t] \in ValidRequests /\ m \in Contexts
      /\ Session(m, seen[t], call[t], file[t], phase[c])
  BY <1>1, InsideHas DEF Call
<1>3. seen[t] \in Seen
  BY Typed DEF SendInv
<1>4. /\ phase[c] = "none"
      /\ Session([m EXCEPT !.released = @ - 1], seen[t], call[t], file[t], phase[c])
      /\ Honest(Outcome(m, call[t]), seen[t], call[t])
  BY <1>1, <1>2, <1>3, WakeSession
<1>5. /\ UNCHANGED <<call, send_info, allocated, file, phase, seen, flags, failures>>
      /\ svc_send' = [svc_send EXCEPT ![c] = [m EXCEPT !.released = @ - 1]]
      /\ Goes(t, Outcome(m, call[t]), "finish")
  BY DEF Wake, counts
<1>6. /\ pc'[t] = "finish" /\ error'[t] = Outcome(m, call[t])
      /\ \A u \in Senders \ {t} : pc'[u] = pc[u] /\ error'[u] = error[u]
  BY <1>5 DEF Goes, SendInv, TypeOK
<1>7. /\ svc_send'[c] = [m EXCEPT !.released = @ - 1]
      /\ \A d \in Cells \ {c} : svc_send'[d] = svc_send[d]
  BY <1>2, <1>5 DEF SendInv, TypeOK
<1>8. Touches(t, c)
  <2>1. \A u \in Senders \ {t} : Inside(u) => send_info[u] # c
    BY <1>1 DEF SendInv, Owned
  <2>2. failures' \in Nat /\ failures <= failures'
    BY <1>5 DEF SendInv, TypeOK
  <2> QED BY <1>5, <1>6, <1>7, <2>1, <2>2 DEF Touches
<1>9. Call(pc'[t], error'[t], svc_send'[c], seen'[t], call'[t], file'[t], phase'[c], failures')
  BY <1>4, <1>5, <1>6, <1>7 DEF Call, Ended
<1>10. Inside(t)'
  BY <1>6 DEF Inside
<1> QED BY <1>1, <1>2, <1>5, <1>8, <1>9, <1>10, InsideKeeps

\* finish_send: what the context says is what the call obtained, or its setup failed.
LEMMA FinishKeeps ==
  ASSUME SendInv, TypeOK', NEW t \in Senders, Finish(t)
  PROVE  SendInv'
<1> DEFINE c == send_info[t]
           m == svc_send[c]
           r == call[t]
<1>1. Inside(t) /\ ~abandoned /\ pc[t] = "finish"
  BY DEF Finish, Inside, Sound
<1>2. /\ c \in allocated /\ c \in Cells /\ r \in ValidRequests /\ m \in Contexts
      /\ NotSetUp(error[t], file[t], phase[c], failures)
           \/ Ended(error[t], m, seen[t], r, file[t], phase[c], failures)
  BY <1>1, InsideHas DEF Call
<1>3. /\ failures > 0 \/ (m.lock = "made" /\ (ClosesFile(m, r) <=> file[t].open) /\ phase[c] = "none")
      /\ file[t].open => ClosesFile(m, r)
  <2>1. r.kind = "file" => r.kind # "ping"
    OBVIOUS
  <2>2. CASE NotSetUp(error[t], file[t], phase[c], failures)
    BY <2>2 DEF NotSetUp
  <2>3. CASE Ended(error[t], m, seen[t], r, file[t], phase[c], failures)
    <3>1. Owns(m, r, file[t]) /\ (phase[c] # "none" => failures > 0)
      BY <2>3 DEF Ended, Session
    <3> QED BY <2>1, <3>1 DEF Owns, ClosesFile
  <2> QED BY <1>2, <2>2, <2>3
<1>4. /\ allocated' = allocated \ {c} /\ UNCHANGED <<phase, failures>>
      /\ abandoned' = (phase[c] # "none")
      /\ wild' = (wild \/ m.lock = "dead" \/ (ClosesFile(m, r) /\ ~file[t].open))
  BY DEF Finish, counts
<1>5. /\ pc'[t] \in {"copy", "returned"} /\ (pc'[t] = "copy" => send_info'[t] = c)
      /\ file'[t].open = (file[t].open /\ ~ClosesFile(m, r))
      /\ \A u \in Senders \ {t} :
           /\ pc'[u] = pc[u] /\ send_info'[u] = send_info[u] /\ call'[u] = call[u]
           /\ error'[u] = error[u] /\ file'[u] = file[u] /\ seen'[u] = seen[u]
  BY DEF Finish, Sees, SendInv, TypeOK
<1>6. \A d \in Cells \ {c} : svc_send'[d] = svc_send[d]
  BY DEF Finish, SendInv, TypeOK
<1>7. Touches(t, c)
  <2>1. \A u \in Senders \ {t} : Inside(u) => send_info[u] # c
    BY <1>1 DEF SendInv, Owned
  <2>2. failures' \in Nat /\ failures <= failures'
    BY <1>4 DEF SendInv, TypeOK
  <2> HIDE DEF c
  <2> QED BY <1>4, <1>5, <1>6, <2>1, <2>2 DEF Touches
<1>8. ~Inside(t)'
  BY <1>5 DEF Inside
<1>9. Holds(t)'
  BY <1>2, <1>3, <1>5, <1>8 DEF Holds
<1>10. Blamed'
  BY <1>3, <1>4 DEF Blamed, SendInv
<1>11. Owned'
  <2>1. \A u \in Senders \ {t} : (Inside(u) <=> Inside(u)') /\ send_info'[u] = send_info[u]
    BY <1>7, OthersHold DEF Touches
  <2>2. \A u, v \in Senders : Inside(u)' /\ Inside(v)' /\ send_info'[u] = send_info'[v] => u = v
    BY <1>8, <2>1 DEF SendInv, Owned
  <2>3. \A d \in allocated' : \E u \in Senders : Inside(u)' /\ send_info'[u] = d
    <3> TAKE d \in allocated'
    <3>1. d \in allocated /\ d # c
      BY <1>4
    <3>2. PICK u \in Senders : Inside(u) /\ send_info[u] = d
      BY <3>1 DEF SendInv, Owned
    <3> QED BY <2>1, <3>1, <3>2
  <2>4. ~abandoned' => \A d \in Cells : phase'[d] # "none" => d \in allocated'
    BY <1>1, <1>4 DEF SendInv, Owned
  <2> QED BY <2>2, <2>3, <2>4 DEF Owned
<1> QED BY <1>7, <1>9, <1>10, <1>11, OthersHold DEF SendInv

LEMMA CopyKeeps ==
  ASSUME SendInv, TypeOK', NEW t \in Senders, CopyCode(t)
  PROVE  SendInv'
<1>1. ~Inside(t) /\ ~file[t].open
  BY DEF CopyCode, Inside, SendInv, Holds
<1>2. /\ UNCHANGED <<call, error, allocated, svc_send, file, phase, seen, flags, failures>>
      /\ pc'[t] = "returned"
      /\ \A u \in Senders \ {t} : pc'[u] = pc[u] /\ send_info'[u] = send_info[u]
  BY DEF CopyCode, counts, SendInv, TypeOK
<1>3. ~Inside(t)' /\ Holds(t)'
  BY <1>1, <1>2 DEF Inside, Holds
<1>4. Touches(t, NULL)
  <2>1. \A u \in Senders : Inside(u) => send_info[u] # NULL
    BY InsideHas, CellsAssumption
  <2>2. failures' \in Nat /\ failures <= failures'
    BY <1>2 DEF SendInv, TypeOK
  <2> QED BY <1>2, <2>1, <2>2 DEF Touches
<1> QED BY <1>1, <1>2, <1>3, <1>4, OutsideKeeps

-----------------------------------------------------------------------------
(* The callbacks. *)

LEMMA CallbackKeeps ==
  ASSUME SendInv, TypeOK', NEW c \in Cells, phase[c] # "none", ~abandoned,
         NEW t \in Senders, t = Owner(c),
         UNCHANGED <<threads, allocated, flags>>,
         \A u \in Senders \ {t} : file'[u] = file[u] /\ seen'[u] = seen[u],
         \A d \in Cells \ {c} : svc_send'[d] = svc_send[d] /\ phase'[d] = phase[d],
         failures' \in Nat, failures <= failures',
         Session(svc_send'[c], seen'[t], call[t], file'[t], phase'[c]),
         failures' = 0 => (svc_send'[c].released > 0 <=> phase'[c] = "none")
  PROVE  SendInv'
<1>1. send_info[t] = c /\ Inside(t)
  BY OwnerFacts
<1>2. /\ c \in allocated /\ call[t] \in ValidRequests
      /\ Call(pc[t], error[t], svc_send[c], seen[t], call[t], file[t], phase[c], failures)
  BY <1>1, InsideHas
<1>3. UNCHANGED <<pc, call, send_info, error, allocated, flags>>
  BY DEF threads
<1>4. Touches(t, c)
  <2>1. \A u \in Senders \ {t} : Inside(u) => send_info[u] # c
    BY <1>1 DEF SendInv, Owned
  <2> QED BY <1>3, <2>1 DEF Touches
<1>5. Inside(t)'
  BY <1>1, <1>3 DEF Inside
<1>6. failures \in Nat /\ failures' \in Nat /\ failures <= failures'
  BY DEF SendInv, TypeOK
<1>7. Call(pc[t], error[t], svc_send'[c], seen'[t], call[t], file'[t], phase'[c], failures')
  <2>1. pc[t] # "initiate"
    BY <1>2 DEF Call, Fresh
  <2>2. CASE pc[t] = "wait"
    BY <2>2 DEF Call
  <2>3. CASE pc[t] = "finish"
    <3>1. failures > 0 /\ error[t] \in {"lock_failed", "initiate_action_failed"}
      BY <1>2, <2>3 DEF Call, NotSetUp, Ended
    <3>2. Ended(error[t], svc_send'[c], seen'[t], call[t], file'[t], phase'[c], failures')
      BY <1>6, <3>1 DEF Ended
    <3> QED BY <2>3, <3>2 DEF Call
  <2> QED BY <2>1, <2>2, <2>3 DEF Call
<1> QED BY <1>1, <1>2, <1>3, <1>4, <1>5, <1>7, InsideKeeps

\* The session a callback is for.
LEMMA CallbackSession ==
  ASSUME SendInv, NEW c \in Cells, phase[c] # "none", ~abandoned
  PROVE  LET t == Owner(c) IN
         /\ t \in Senders /\ svc_send[c] \in Contexts /\ seen[t] \in Seen /\ file[t] \in Files
         /\ call[t] \in ValidRequests
         /\ Session(svc_send[c], seen[t], call[t], file[t], phase[c])
         /\ svc_send[c].released = 0
<1> DEFINE t == Owner(c)
<1>1. t \in Senders /\ send_info[t] = c /\ Inside(t)
  BY OwnerFacts
<1>2. /\ svc_send[c] \in Contexts /\ seen[t] \in Seen /\ file[t] \in Files
      /\ call[t] \in ValidRequests
      /\ Call(pc[t], error[t], svc_send[c], seen[t], call[t], file[t], phase[c], failures)
  BY <1>1, InsideHas, Typed DEF SendInv
<1> HIDE DEF t
<1>3. Session(svc_send[c], seen[t], call[t], file[t], phase[c])
  BY <1>1, <1>2 DEF Inside, Call, NotSetUp, Ended
<1>4. svc_send[c].released = 0
  BY <1>3 DEF Session, InStep
<1> QED BY <1>1, <1>2, <1>3, <1>4 DEF t

LEMMA LengthKeeps ==
  ASSUME SendInv, TypeOK', NEW c \in Cells, Length(c)
  PROVE  SendInv'
<1> DEFINE t == Owner(c)
           s == [seen[t] EXCEPT !.announced = svc_send[c].bytes_remaining]
<1>1. phase[c] = "data" /\ ~abandoned /\ seen[t].taken = 0
  BY DEF Length, Sound
<1>2. /\ t \in Senders /\ svc_send[c] \in Contexts /\ seen[t] \in Seen
      /\ call[t] \in ValidRequests /\ svc_send[c].released = 0
      /\ Session(svc_send[c], seen[t], call[t], file[t], "data")
  BY <1>1, CallbackSession
<1>3. Session(svc_send[c], s, call[t], file[t], "data")
  BY <1>1, <1>2, LengthSession
<1>4. /\ UNCHANGED <<threads, allocated, svc_send, file, phase, flags, failures>>
      /\ seen' = [seen EXCEPT ![t] = s]
  BY DEF Length, Sees, counts
<1>5. seen'[t] = s /\ \A u \in Senders \ {t} : seen'[u] = seen[u]
  BY <1>2, <1>4 DEF SendInv, TypeOK
<1>6. failures' \in Nat /\ failures <= failures'
  BY <1>4 DEF SendInv, TypeOK
<1> HIDE DEF s
<1> QED BY <1>1, <1>2, <1>3, <1>4, <1>5, <1>6, CallbackKeeps

LEMMA DataKeeps ==
  ASSUME SendInv, TypeOK', NEW c \in Cells, Data(c)
  PROVE  SendInv'
<1> DEFINE t == Owner(c)
           m == svc_send[c]
           n == BytesExpected(m)
           read == IF m.sending_file /\ file[t].left < n THEN file[t].left ELSE n
           x == IF read # n THEN "short" ELSE seen[t].reads
           k == Took(m, n)
           s == TookToo(seen[t], n, x)
           ph == AfterData(k)
<1>1. phase[c] = "data" /\ ~abandoned
  BY DEF Data, Sound
<1>2. /\ t \in Senders /\ m \in Contexts /\ seen[t] \in Seen /\ file[t] \in Files
      /\ call[t] \in ValidRequests /\ m.released = 0
      /\ Session(m, seen[t], call[t], file[t], "data")
  BY <1>1, CallbackSession
<1>3. n \in Nat /\ n <= m.bytes_remaining
  BY <1>2, SizesAssumption DEF BytesExpected, Contexts
<1>4. /\ UNCHANGED <<threads, allocated, flags, failures>>
      /\ svc_send' = [svc_send EXCEPT ![c] = k]
      /\ phase' = [phase EXCEPT ![c] = ph]
      /\ seen' = [seen EXCEPT ![t] = s]
      /\ file' = [file EXCEPT ![t].left = IF m.sending_file THEN @ - read ELSE @]
  BY DEF Data, Sees, counts, Took, TookToo, AfterData
<1>5. /\ seen'[t] = s /\ file'[t].open = file[t].open
      /\ \A u \in Senders \ {t} : seen'[u] = seen[u] /\ file'[u] = file[u]
      /\ svc_send'[c] = k /\ phase'[c] = ph
      /\ \A d \in Cells \ {c} : svc_send'[d] = svc_send[d] /\ phase'[d] = phase[d]
  <2> HIDE DEF s, k, ph, read
  <2>1. /\ seen'[t] = s /\ \A u \in Senders \ {t} : seen'[u] = seen[u]
    BY <1>2, <1>4 DEF SendInv, TypeOK
  <2>2. file'[t].open = file[t].open /\ \A u \in Senders \ {t} : file'[u] = file[u]
    BY <1>2, <1>4 DEF SendInv, TypeOK
  <2>3. /\ svc_send'[c] = k /\ phase'[c] = ph
        /\ \A d \in Cells \ {c} : svc_send'[d] = svc_send[d] /\ phase'[d] = phase[d]
    BY <1>4 DEF SendInv, TypeOK
  <2> QED BY <2>1, <2>2, <2>3
<1>6. x \in {"short", seen[t].reads}
  OBVIOUS
<1>7. Session(k, s, call[t], file'[t], ph) /\ k.released = 0
  <2>1. Taking(m, seen[t], n, x) /\ SameFile(file[t], file'[t])
    BY <1>3, <1>5, <1>6 DEF Taking, SameFile
  <2> HIDE DEF x, n
  <2> QED BY <1>2, <2>1, DataSession
<1>8. failures' \in Nat /\ failures <= failures'
  BY <1>4 DEF SendInv, TypeOK
<1>9. ph # "none"
  BY DEF AfterData
<1> HIDE DEF s, k, ph
<1> QED BY <1>1, <1>2, <1>4, <1>5, <1>7, <1>8, <1>9, CallbackKeeps

LEMMA ReadFailsKeeps ==
  ASSUME SendInv, TypeOK', NEW c \in Cells, DataReadFails(c)
  PROVE  SendInv'
<1> DEFINE t == Owner(c)
           k == [svc_send[c] EXCEPT !.request_error = "accessing_file"]
           s == [seen[t] EXCEPT !.reads = "failed"]
<1>1. phase[c] = "data" /\ ~abandoned
  BY DEF DataReadFails, Sound
<1>2. /\ t \in Senders /\ svc_send[c] \in Contexts /\ seen[t] \in Seen
      /\ call[t] \in ValidRequests
      /\ Session(svc_send[c], seen[t], call[t], file[t], "data")
  BY <1>1, CallbackSession
<1>3. /\ UNCHANGED <<threads, allocated, file, flags>>
      /\ svc_send' = [svc_send EXCEPT ![c] = k]
      /\ phase' = [phase EXCEPT ![c] = "failed"]
      /\ seen' = [seen EXCEPT ![t] = s]
      /\ failures' = failures + 1
  BY DEF DataReadFails, Sees, Fails
<1>4. Session(k, s, call[t], file[t], "failed") /\ k.released = 0
  BY <1>2, ReadFailsSession
<1> HIDE DEF s, k
<1>5. /\ seen'[t] = s /\ svc_send'[c] = k /\ phase'[c] = "failed"
      /\ \A u \in Senders \ {t} : seen'[u] = seen[u]
      /\ \A d \in Cells \ {c} : svc_send'[d] = svc_send[d] /\ phase'[d] = phase[d]
  BY <1>2, <1>3 DEF SendInv, TypeOK
<1>6. failures' \in Nat /\ failures <= failures'
  BY <1>3 DEF SendInv, TypeOK
<1> QED BY <1>1, <1>2, <1>3, <1>4, <1>5, <1>6, CallbackKeeps

LEMMA ResponseKeeps ==
  ASSUME SendInv, TypeOK', NEW c \in Cells, NEW a \in Responses, Response(c, a)
  PROVE  SendInv'
<1> DEFINE t == Owner(c)
           k == [svc_send[c] EXCEPT !.raw_response_error = a, !.response_error = ToError(a)]
           s == [seen[t] EXCEPT !.response = a]
<1>1. phase[c] = "answer" /\ ~abandoned
  BY DEF Response, Sound
<1>2. /\ t \in Senders /\ svc_send[c] \in Contexts /\ seen[t] \in Seen
      /\ call[t] \in ValidRequests
      /\ Session(svc_send[c], seen[t], call[t], file[t], "answer")
  BY <1>1, CallbackSession
<1>3. /\ UNCHANGED <<threads, allocated, file, phase, flags, failures>>
      /\ svc_send' = [svc_send EXCEPT ![c] = k]
      /\ seen' = [seen EXCEPT ![t] = s]
  BY DEF Response, Sees, counts
<1>4. Session(k, s, call[t], file[t], "answer") /\ k.released = 0
  BY <1>2, ResponseSession
<1> HIDE DEF s, k
<1>5. /\ seen'[t] = s /\ svc_send'[c] = k
      /\ \A u \in Senders \ {t} : seen'[u] = seen[u]
      /\ \A d \in Cells \ {c} : svc_send'[d] = svc_send[d]
  BY <1>2, <1>3 DEF SendInv, TypeOK
<1>6. failures' \in Nat /\ failures <= failures'
  BY <1>3 DEF SendInv, TypeOK
<1> QED BY <1>1, <1>2, <1>3, <1>4, <1>5, <1>6, CallbackKeeps

\* The status of a send and the response of a ping end the session.
LEMMA LastWordKeeps ==
  ASSUME SendInv, TypeOK', NEW c \in Cells, NEW st \in Statuses, NEW ok \in BOOLEAN,
         Status(c, st, ok) \/ PingResponse(c, st, ok)
  PROVE  SendInv'
<1> DEFINE t == Owner(c)
           s == [seen[t] EXCEPT !.final = st]
<1>1. phase[c] # "none" /\ ~abandoned
  BY DEF Status, PingResponse, Sound
<1>2. /\ t \in Senders /\ svc_send[c] \in Contexts /\ seen[t] \in Seen
      /\ call[t] \in ValidRequests
      /\ Session(svc_send[c], seen[t], call[t], file[t], phase[c])
  BY <1>1, CallbackSession
<1>3. PICK k : /\ svc_send' = [svc_send EXCEPT ![c] = k]
               /\ Session(k, s, call[t], file[t], "none") /\ (ok => k.released > 0)
  <2>1. CASE Status(c, st, ok)
    <3>1. MayEnd(phase[c], st)
      BY <2>1 DEF Status, MayEnd
    <3> DEFINE k == Released([svc_send[c] EXCEPT !.status_error = ToError(st)], ok)
    <3>2. svc_send' = [svc_send EXCEPT ![c] = k]
      BY <2>1 DEF Status
    <3>3. Session(k, s, call[t], file[t], "none") /\ (ok => k.released > 0)
      BY <1>2, <3>1, StatusSession
    <3> HIDE DEF k, s
    <3> QED BY <3>2, <3>3
  <2>2. CASE PingResponse(c, st, ok)
    <3>1. phase[c] = "ping"
      BY <2>2 DEF PingResponse
    <3> DEFINE k == Released([svc_send[c] EXCEPT !.response_error = ToError(st)], ok)
    <3>2. svc_send' = [svc_send EXCEPT ![c] = k]
      BY <2>2 DEF PingResponse
    <3>3. Session(k, s, call[t], file[t], "none") /\ (ok => k.released > 0)
      BY <1>2, <3>1, PingSession
    <3> HIDE DEF k, s
    <3> QED BY <3>2, <3>3
  <2> QED BY <2>1, <2>2
<1>4. /\ UNCHANGED <<threads, allocated, file, flags>>
      /\ phase' = [phase EXCEPT ![c] = "none"]
      /\ seen' = [seen EXCEPT ![t] = s]
      /\ failures' = (IF ok THEN failures ELSE failures + 1)
  BY DEF Status, PingResponse, Sees, ReleaseCounts, Fails
<1> HIDE DEF s
<1>5. /\ seen'[t] = s /\ svc_send'[c] = k /\ phase'[c] = "none"
      /\ \A u \in Senders \ {t} : seen'[u] = seen[u]
      /\ \A d \in Cells \ {c} : svc_send'[d] = svc_send[d] /\ phase'[d] = phase[d]
  BY <1>2, <1>3, <1>4 DEF SendInv, TypeOK
<1>6. failures' \in Nat /\ failures <= failures' /\ (failures' = 0 => ok)
  BY <1>4 DEF SendInv, TypeOK
<1> QED BY <1>1, <1>2, <1>3, <1>4, <1>5, <1>6, CallbackKeeps

\* A file that is cut changes nothing the session depends on.
LEMMA TruncateKeeps ==
  ASSUME SendInv, TypeOK', NEW t \in Senders, Truncate(t)
  PROVE  SendInv'
<1> DEFINE c == send_info[t]
<1>1. Inside(t) /\ ~abandoned
  BY DEF Truncate, SendInv, Holds, Sound
<1>2. /\ c \in allocated /\ c \in Cells /\ call[t] \in ValidRequests
      /\ Call(pc[t], error[t], svc_send[c], seen[t], call[t], file[t], phase[c], failures)
  BY <1>1, InsideHas
<1>3. /\ UNCHANGED <<pc, call, send_info, error, allocated, svc_send, phase, seen, flags>>
      /\ failures' = failures + 1 /\ file'[t].open = file[t].open
      /\ \A u \in Senders \ {t} : file'[u] = file[u]
  BY DEF Truncate, threads, Fails, SendInv, TypeOK
<1>4. failures \in Nat /\ failures' \in Nat /\ failures <= failures'
  BY <1>3 DEF SendInv, TypeOK
<1>5. Touches(t, c)
  <2>1. \A u \in Senders \ {t} : Inside(u) => send_info[u] # c
    BY <1>1 DEF SendInv, Owned
  <2> QED BY <1>3, <1>4, <2>1 DEF Touches
<1>6. Call(pc[t], error[t], svc_send[c], seen[t], call[t], file[t], phase[c], failures')
  BY <1>2, <1>4, CallMonotone
<1>7. Call(pc[t], error[t], svc_send[c], seen[t], call[t], file'[t], phase[c], failures')
  BY <1>3, <1>6 DEF Call, NotSetUp, Ended, Session, Owns
<1>8. Inside(t)'
  BY <1>1, <1>3 DEF Inside
<1> QED BY <1>1, <1>2, <1>3, <1>5, <1>7, <1>8, InsideKeeps

LEMMA SendStep ==
  ASSUME SendInv, [Next]_vars
  PROVE  SendInv'
<1>1. TypeOK'
  BY TypeStep
<1>2. ASSUME NEW t \in Senders, Begin(t)
      PROVE  SendInv'
  BY <1>1, <1>2, RefusedKeeps, SetupKeeps DEF Begin
<1>3. ASSUME NEW t \in Senders, Perform(t)
      PROVE  SendInv'
  BY <1>1, <1>3, PerformKeeps, WakeKeeps, FinishKeeps, CopyKeeps DEF Perform
<1>4. ASSUME NEW t \in Senders, Truncate(t)
      PROVE  SendInv'
  BY <1>1, <1>4, TruncateKeeps
<1>5. ASSUME NEW c \in Cells, Callback(c)
      PROVE  SendInv'
  BY <1>1, <1>5, LengthKeeps, DataKeeps, ReadFailsKeeps, ResponseKeeps, LastWordKeeps
     DEF Callback, Deliver
<1>6. CASE UNCHANGED vars
  BY <1>1, <1>6 DEF SendInv, Owned, Blamed, Holds, Inside, vars, threads, counts, flags
<1> QED BY <1>2, <1>3, <1>4, <1>5, <1>6 DEF Next

LEMMA SendInit ==
  ASSUME Init
  PROVE  SendInv
<1>1. TypeOK
  <2>1. NothingSeen \in Seen
    BY DEF NothingSeen, Seen
  <2>2. svc_send \in [Cells -> Contexts]
    BY FreedType DEF Init
  <2>3. error \in [Senders -> Errors]
    BY ErrorTypes DEF Init
  <2> QED BY <2>1, <2>2, <2>3 DEF Init, TypeOK, Seen, RawErrors
<1> QED BY <1>1 DEF SendInv, Init, Owned, Blamed, Holds, Inside

\* SendInv implies each of the properties.
LEMMA SendProperties ==
  ASSUME SendInv
  PROVE  SessionsHold /\ ResultIsHonest /\ ReleasesExactly /\ CallerIsWoken
<1>1. SessionsHold /\ ReleasesOwn
  BY DEF SendInv, Blamed, SessionsHold, ContextOutlivesSession, ReleasesOwn
<1>2. NothingLeft
  BY DEF SendInv, Holds, Owned, NothingLeft
<1>3. CallerIsWoken
  BY InsideHas DEF CallerIsWoken, Inside, Call
<1>4. ResultIsHonest
  <2> SUFFICES ASSUME NEW t \in Senders, pc[t] = "finish"
               PROVE  Honest(error[t], seen[t], call[t])
    BY DEF ResultIsHonest, Honest
  <2>1. NotSetUp(error[t], file[t], phase[send_info[t]], failures)
          \/ Ended(error[t], svc_send[send_info[t]], seen[t], call[t], file[t],
                   phase[send_info[t]], failures)
    BY InsideHas DEF Inside, Call
  <2>2. error[t] \in {"lock_failed", "not_a_file", "accessing_file", "initiate_action_failed"}
          \/ Honest(error[t], seen[t], call[t])
    BY <2>1 DEF NotSetUp, Ended
  <2> QED BY <2>2, Distinct DEF Honest
<1> QED BY <1>1, <1>2, <1>3, <1>4 DEF ReleasesExactly

-----------------------------------------------------------------------------
(***************************************************************************)
(* The fields of a context have their types, and CCFSM calls back only     *)
(* with contexts that are there, as long as the platform's locks work:     *)
(* perform_send (ccapi_send.c:275) leaves the context to CCFSM until its   *)
(* status callback.                                                        *)
(***************************************************************************)
THEOREM SessionsCorrect == Spec => []SessionsHold
<1>1. SendInv /\ [Next]_vars => SendInv'
  BY SendStep
<1>2. SendInv => SessionsHold
  BY SendProperties
<1> QED BY <1>1, <1>2, SendInit, PTL DEF Spec

(***************************************************************************)
(* The error a caller is given (ccapi_send.c:432) tells what CCFSM and the *)
(* server did for this call and no other.                                  *)
(***************************************************************************)
THEOREM ResultCorrect == Spec => []ResultIsHonest
<1>1. SendInv /\ [Next]_vars => SendInv'
  BY SendStep
<1>2. SendInv => ResultIsHonest
  BY SendProperties
<1> QED BY <1>1, <1>2, SendInit, PTL DEF Spec

(***************************************************************************)
(* finish_send (ccapi_send.c:333) releases what the call obtained, all of  *)
(* it and, unless its setup failed, nothing else.                          *)
(***************************************************************************)
THEOREM ReleasesCorrect == Spec => []ReleasesExactly
<1>1. SendInv /\ [Next]_vars => SendInv'
  BY SendStep
<1>2. SendInv => ReleasesExactly
  BY SendProperties
<1> QED BY <1>1, <1>2, SendInit, PTL DEF Spec

(***************************************************************************)
(* The lock a caller waits on (ccapi_send.c:48) is released exactly when   *)
(* its session is over (ccapi_data_handler.c:193, ccapi_sm_handler.c:404). *)
(***************************************************************************)
THEOREM WokenCorrect == Spec => []CallerIsWoken
<1>1. SendInv /\ [Next]_vars => SendInv'
  BY SendStep
<1>2. SendInv => CallerIsWoken
  BY SendProperties
<1> QED BY <1>1, <1>2, SendInit, PTL DEF Spec
=============================================================================
