----------------------------- MODULE SendService -----------------------------
(***************************************************************************)
(* Sending data, files and pings to the cloud (source/ccapi_send.c,        *)
(* source/ccapi_send_ping.c, the send handlers of                          *)
(* source/ccapi_data_handler.c and ccapi_process_ping_response of          *)
(* source/ccapi_sm_handler.c).                                             *)
(*                                                                         *)
(* An application thread allocates a context (send_info), gives CCFSM a    *)
(* pointer to it and waits on a lock in it until CCFSM's status callback   *)
(* releases the lock; then it reads the outcome from the context and frees *)
(* it.  CCFSM (external) calls the length, data, response and status       *)
(* handlers with that pointer.                                             *)
(*                                                                         *)
(* A context is a cell of memory.  malloc does not clear it: what setup    *)
(* does not assign keeps the value the cell had before.                    *)
(***************************************************************************)
EXTENDS Integers, FiniteSets

CONSTANTS
    Senders,            \* the application's threads
    Cells,              \* the memory malloc can return for a context
    NULL,
    Kinds,              \* a subset of {"data", "file", "ping"}
    Sizes,              \* the sizes of the data and of the files
    BytesAvailable,     \* room CCFSM has for a part
    ResponseErrors,     \* error responses of the server
    StatusErrors,       \* errors of the status: cancel, timeout, session error
    MaxCalls,           \* bound: calls of the application
    MaxFailures         \* bound: operations of the platform layer that fail

ASSUME CellsAssumption == NULL \notin Cells
ASSUME KindsAssumption == Kinds \subseteq {"data", "file", "ping"}
ASSUME SizesAssumption == Sizes \subseteq Nat /\ BytesAvailable \in Nat \ {0}
ASSUME ErrorsAssumption ==
    /\ ResponseErrors \cap StatusErrors = {}
    /\ {"none", "success", "unknown", "complete", "accessing_file", "not_a_file",
        "lock_failed", "initiate_action_failed"} \cap (ResponseErrors \cup StatusErrors) = {}
ASSUME BoundsAssumption == MaxCalls \in Nat /\ MaxFailures \in Nat

VARIABLES
    \* the threads: program counter, arguments, local send_info and error, and
    \* *error_code_from_server
    pc, call, send_info, error, code,
    allocated, svc_send,    \* the heap: [Cells -> ccapi_send_t]
    file,               \* per thread: its file is open or not, bytes left in it
    phase,              \* CCFSM (external): its next call for a context
    \* bounds and history
    calls, failures,
    seen,               \* per thread: what CCFSM did for the call
    abandoned,          \* a context was freed while CCFSM still used it
    wild                \* a lock or file was released that was never obtained

threads == << pc, call, send_info, error, code >>
counts == << calls, failures >>
flags == << abandoned, wild >>
vars == << threads, allocated, svc_send, file, phase, counts, seen, flags >>

-----------------------------------------------------------------------------
Responses == {"success"} \cup ResponseErrors
RawErrors == {"unknown"} \cup Responses     \* ccapi_optional_uint8_t
Requests == [kind : Kinds, size : Sizes, with_reply : BOOLEAN, wants_code : BOOLEAN]
\* (with_reply of a ping is only passed on to CCFSM)
ValidRequests ==
    {r \in Requests : /\ r.kind = "data" => r.size > 0
                      /\ r.kind = "ping" => r.size = 0 /\ ~r.with_reply
                      /\ r.wants_code => r.with_reply}

\* CCFSM was told a length, has taken bytes, from a file by reads that were all
\* whole or not, and has reported the server's response and the status.
Unasked == -1
NothingSeen ==
    [announced |-> Unasked, taken |-> 0, reads |-> "whole", response |-> "none", final |-> "none"]

\* What malloc may return: what setup does not assign keeps this.  Any value
\* of raw_response_error will do that differs from an answer.
Garbage ==
    [lock : {"null", "dead"}, released : {0}, sending_file : BOOLEAN, bytes_remaining : {0},
     request_error : {"none"}, response_error : {"none"}, status_error : {"none"},
     raw_response_error : {"unknown"} \cup ResponseErrors]

Freed == [lock |-> "dead", released |-> 0, sending_file |-> FALSE, bytes_remaining |-> 0,
          request_error |-> "none", response_error |-> "none", status_error |-> "none",
          raw_response_error |-> "unknown"]

NoCall == [kind |-> "ping", size |-> 0, with_reply |-> FALSE, wants_code |-> FALSE]

Init ==
    /\ pc = [t \in Senders |-> "idle"] /\ call = [t \in Senders |-> NoCall]
    /\ send_info = [t \in Senders |-> NULL]
    /\ error = [t \in Senders |-> "none"] /\ code = [t \in Senders |-> "unset"]
    /\ allocated = {} /\ svc_send = [c \in Cells |-> Freed]
    /\ file = [t \in Senders |-> [open |-> FALSE, left |-> 0]]
    /\ phase = [c \in Cells |-> "none"]
    /\ calls = 0 /\ failures = 0
    /\ seen = [t \in Senders |-> NothingSeen]
    /\ abandoned = FALSE /\ wild = FALSE

(***************************************************************************)
(* Nothing is said of what happens after a context was freed under CCFSM.  *)
(***************************************************************************)
Sound == ~abandoned

Fails == failures < MaxFailures /\ failures' = failures + 1

Inside(t) == pc[t] \in {"initiate", "wait", "finish"}

\* The thread whose context is in a cell.
Owner(c) == CHOOSE t \in Senders : send_info[t] = c /\ Inside(t)

Sees(t, s) == seen' = [seen EXCEPT ![t] = s]

-----------------------------------------------------------------------------
(***************************************************************************)
(* ccxapi_send_data_common, ccxapi_send_file_common and                    *)
(* ccxapi_send_ping_common up to perform_send, one action per way out.     *)
(***************************************************************************)
Enter(t) ==
    /\ Sound /\ pc[t] \in {"idle", "returned"} /\ calls < MaxCalls
    /\ calls' = calls + 1
    /\ code' = [code EXCEPT ![t] = "unset"]
    /\ Sees(t, NothingSeen)
    /\ UNCHANGED << phase, flags >>

\* send_info is NULL: finish_send has nothing to do, and no code is copied.
ReturnsAtOnce(t, e) ==
    /\ error' = [error EXCEPT ![t] = e]
    /\ pc' = [pc EXCEPT ![t] = "returned"]
    /\ UNCHANGED << call, send_info, allocated, svc_send, file >>

\* checkargs_*: the state of the transport and the arguments are inputs here.
ArgumentErrors == {"not_running", "transport_not_started", "invalid_argument"}

Refused(t) ==
    /\ Enter(t)
    /\ \E e \in ArgumentErrors : ReturnsAtOnce(t, e)
    /\ UNCHANGED failures

NoMemory(t) ==
    /\ Enter(t) /\ Fails
    /\ ReturnsAtOnce(t, "insufficient_memory")

Allocate(t, r, c) ==
    /\ Enter(t)
    /\ call' = [call EXCEPT ![t] = r]
    /\ c \notin allocated /\ allocated' = allocated \cup {c}
    /\ send_info' = [send_info EXCEPT ![t] = c]

Goes(t, e, next) ==
    /\ error' = [error EXCEPT ![t] = e]
    /\ pc' = [pc EXCEPT ![t] = next]

\* setup_send_common, setup_send_ping: no lock, and nothing else is assigned
LockNotCreated(t, r, c) ==
    /\ Allocate(t, r, c) /\ Fails
    /\ \E m \in Garbage : svc_send' = [svc_send EXCEPT ![c] = m]
    /\ Goes(t, "lock_failed", "finish")
    /\ UNCHANGED file

SetupCommon(m) ==
    [m EXCEPT !.lock = "made", !.request_error = "none", !.response_error = "none",
              !.status_error = "none"]

\* setup_send_file: the path has no status, is no file, or cannot be opened;
\* sending_file is assigned only after that
FileNotOpened(t, r, c) ==
    /\ r.kind = "file"
    /\ Allocate(t, r, c) /\ Fails
    /\ \E m \in Garbage : svc_send' = [svc_send EXCEPT ![c] = SetupCommon(m)]
    /\ \E e \in {"not_a_file", "accessing_file"} : Goes(t, e, "finish")
    /\ UNCHANGED file

SetupDone(t, r, c) ==
    /\ Allocate(t, r, c)
    /\ \E m \in Garbage :
         svc_send' = [svc_send EXCEPT ![c] =
                       [SetupCommon(m) EXCEPT !.sending_file = (r.kind = "file"),
                                              !.bytes_remaining = r.size]]
    /\ file' = [file EXCEPT ![t] = [open |-> r.kind = "file", left |-> r.size]]
    /\ Goes(t, "none", "initiate")
    /\ UNCHANGED failures

-----------------------------------------------------------------------------
(***************************************************************************)
(* perform_send and perform_send_ping, with                                *)
(* connector_initiate_action_secure.  While CCFSM answers busy the thread  *)
(* asks again (a stuttering step).                                         *)
(***************************************************************************)
FirstPhase(kind) == IF kind = "ping" THEN "ping" ELSE "data"

Accepted(t) ==
    phase' = [phase EXCEPT ![send_info[t]] = FirstPhase(call[t].kind)]

InitiateWithoutWait(t) ==
    /\ Sound /\ pc[t] = "initiate"
    /\ Accepted(t)
    /\ Goes(t, "none", "finish")
    /\ UNCHANGED << call, send_info, code, allocated, svc_send, file, counts, seen, flags >>

Initiate(t) ==
    /\ Sound /\ pc[t] = "initiate"
    /\ Accepted(t)
    /\ Goes(t, "none", "wait")
    /\ UNCHANGED << call, send_info, code, allocated, svc_send, file, counts, seen, flags >>

InitiateFails(t) ==
    /\ Sound /\ pc[t] = "initiate"
    /\ Goes(t, "initiate_action_failed", "finish")
    /\ UNCHANGED << call, send_info, code, allocated, svc_send, file, phase, counts, seen,
                    flags >>

\* CCFSM took the request, but releasing initiate_action_lock failed and the
\* thread is told connector_abort
InitiateReportedFailed(t) ==
    /\ Sound /\ pc[t] = "initiate"
    /\ Fails /\ Accepted(t)
    /\ Goes(t, "initiate_action_failed", "finish")
    /\ UNCHANGED << call, send_info, code, allocated, svc_send, file, calls, seen, flags >>

\* ccapi_send_lock_acquire fails
WaitFails(t) ==
    /\ Sound /\ pc[t] = "wait"
    /\ Fails
    /\ Goes(t, "lock_failed", "finish")
    /\ UNCHANGED << call, send_info, code, allocated, svc_send, file, phase, calls, seen,
                    flags >>

\* The error the caller is given when the wait is over.
OutcomeStatusFirst(m, r) ==
    IF r.kind = "ping" THEN m.response_error
    ELSE IF m.status_error # "none" THEN m.status_error
    ELSE IF m.request_error # "none" THEN m.request_error
    ELSE IF r.with_reply THEN m.response_error ELSE "none"

Outcome(m, r) ==
    IF r.kind = "ping" THEN m.response_error
    ELSE IF m.request_error # "none" THEN m.request_error
    ELSE IF r.with_reply /\ m.response_error # "none" THEN m.response_error
    ELSE m.status_error

Wake(t) ==
    LET c == send_info[t] IN
    /\ Sound /\ pc[t] = "wait" /\ svc_send[c].released > 0
    /\ svc_send' = [svc_send EXCEPT ![c] = [svc_send[c] EXCEPT !.released = @ - 1]]
    /\ Goes(t, Outcome(svc_send[c], call[t]), "finish")
    /\ UNCHANGED << call, send_info, code, allocated, file, phase, counts, seen, flags >>

(***************************************************************************)
(* finish_send, finish_send_ping: what is in the context decides what is   *)
(* released.  A call that returns an error code still looks at the         *)
(* context afterwards.                                                     *)
(***************************************************************************)
ClosesFileIfDone(m, r) == r.kind # "ping" /\ m.sending_file /\ m.bytes_remaining = 0
ClosesFile(m, r) == r.kind # "ping" /\ m.sending_file

Finish(t) ==
    LET c == send_info[t]
        m == svc_send[c]
        r == call[t]
    IN
    /\ Sound /\ pc[t] = "finish"
    /\ wild' = (wild \/ m.lock = "dead" \/ (ClosesFile(m, r) /\ ~file[t].open))
    /\ file' = [file EXCEPT ![t].open = @ /\ ~ClosesFile(m, r)]
    /\ allocated' = allocated \ {c}
    /\ svc_send' = [svc_send EXCEPT ![c] =
                     [Freed EXCEPT !.raw_response_error =
                                       IF r.wants_code THEN m.raw_response_error ELSE @]]
    /\ abandoned' = (phase[c] # "none")
    /\ pc' = [pc EXCEPT ![t] = IF r.wants_code THEN "copy" ELSE "returned"]
    /\ send_info' = [send_info EXCEPT ![t] = IF r.wants_code THEN c ELSE NULL]
    /\ call' = [call EXCEPT ![t] = NoCall]
    /\ Sees(t, IF r.wants_code THEN seen[t] ELSE NothingSeen)
    /\ UNCHANGED << error, code, phase, counts >>

\* memcpy of raw_response_error, from the context that was just freed
CopyCode(t) ==
    /\ Sound /\ pc[t] = "copy"
    /\ code' = [code EXCEPT ![t] = svc_send[send_info[t]].raw_response_error]
    /\ pc' = [pc EXCEPT ![t] = "returned"]
    /\ send_info' = [send_info EXCEPT ![t] = NULL]
    /\ UNCHANGED << call, error, allocated, svc_send, file, phase, counts, seen, flags >>

-----------------------------------------------------------------------------
(***************************************************************************)
(* ccapi_process_send_data_length                                          *)
(***************************************************************************)
Length(c) ==
    LET t == Owner(c) IN
    /\ Sound /\ phase[c] = "data" /\ seen[t].taken = 0 /\ seen[t].announced = Unasked
    /\ Sees(t, [seen[t] EXCEPT !.announced = svc_send[c].bytes_remaining])
    /\ UNCHANGED << threads, allocated, svc_send, file, phase, counts, flags >>

(***************************************************************************)
(* ccapi_process_send_data_request.  A file may have fewer bytes left than *)
(* its size was when the call began: the read returns what there is, and   *)
(* bytes_used is what was expected all the same.                           *)
(***************************************************************************)
BytesExpected(m) ==
    IF BytesAvailable > m.bytes_remaining THEN m.bytes_remaining ELSE BytesAvailable

Data(c) ==
    LET t == Owner(c)
        m == svc_send[c]
        n == BytesExpected(m)
        read == IF m.sending_file /\ file[t].left < n THEN file[t].left ELSE n
        after == [m EXCEPT !.bytes_remaining = @ - n]
    IN
    /\ Sound /\ phase[c] = "data"
    /\ svc_send' = [svc_send EXCEPT ![c] = after]
    /\ phase' = [phase EXCEPT ![c] = IF after.bytes_remaining > 0 THEN "data" ELSE "answer"]
    /\ file' = [file EXCEPT ![t].left = IF m.sending_file THEN @ - read ELSE @]
    /\ Sees(t, [seen[t] EXCEPT !.taken = @ + n, !.reads = IF read # n THEN "short" ELSE @])
    /\ UNCHANGED << threads, allocated, counts, flags >>

\* The read fails: the handler returns an error, and CCFSM is left with the
\* status to report.
DataReadFails(c) ==
    /\ Sound /\ phase[c] = "data" /\ svc_send[c].sending_file
    /\ Fails
    /\ svc_send' = [svc_send EXCEPT ![c] = [svc_send[c] EXCEPT !.request_error = "accessing_file"]]
    /\ phase' = [phase EXCEPT ![c] = "failed"]
    /\ Sees(Owner(c), [seen[Owner(c)] EXCEPT !.reads = "failed"])
    /\ UNCHANGED << threads, allocated, file, calls, flags >>

(***************************************************************************)
(* ccapi_process_send_data_response.  The server may answer although no    *)
(* reply was asked for.                                                    *)
(***************************************************************************)
ToError(r) == IF r \in {"success", "complete"} THEN "none" ELSE r

Response(c, r) ==
    LET t == Owner(c) IN
    /\ Sound /\ phase[c] = "answer" /\ seen[t].response = "none"
    /\ svc_send' = [svc_send EXCEPT ![c] = [svc_send[c] EXCEPT !.raw_response_error = r,
                                                               !.response_error = ToError(r)]]
    /\ Sees(t, [seen[t] EXCEPT !.response = r])
    /\ UNCHANGED << threads, allocated, file, phase, counts, flags >>

(***************************************************************************)
(* ccapi_process_send_data_status and ccapi_process_ping_response: the     *)
(* error is stored, then the lock released, which may fail.                *)
(***************************************************************************)
ReleasedOnSuccess(m, ok) ==
    [m EXCEPT !.released = IF ok /\ m.status_error = "none" THEN @ + 1 ELSE @]

Released(m, ok) == [m EXCEPT !.released = IF ok THEN @ + 1 ELSE @]

ReleaseCounts(ok) == IF ok THEN UNCHANGED failures ELSE Fails

\* CCFSM reports `complete' once the data was taken, an error at any time.
Status(c, st, ok) ==
    LET t == Owner(c) IN
    /\ Sound /\ phase[c] \in {"data", "failed", "answer"}
    /\ st = "complete" => phase[c] = "answer"
    /\ ReleaseCounts(ok)
    /\ svc_send' = [svc_send EXCEPT ![c] =
                     Released([svc_send[c] EXCEPT !.status_error = ToError(st)], ok)]
    /\ phase' = [phase EXCEPT ![c] = "none"]
    /\ Sees(t, [seen[t] EXCEPT !.final = st])
    /\ UNCHANGED << threads, allocated, file, calls, flags >>

PingResponse(c, st, ok) ==
    LET t == Owner(c) IN
    /\ Sound /\ phase[c] = "ping"
    /\ ReleaseCounts(ok)
    /\ svc_send' = [svc_send EXCEPT ![c] =
                     Released([svc_send[c] EXCEPT !.response_error = ToError(st)], ok)]
    /\ phase' = [phase EXCEPT ![c] = "none"]
    /\ Sees(t, [seen[t] EXCEPT !.final = st])
    /\ UNCHANGED << threads, allocated, file, calls, flags >>

-----------------------------------------------------------------------------
\* Someone else truncates a file that is being sent.
Truncate(t) ==
    /\ Sound /\ file[t].open /\ file[t].left > 0
    /\ Fails
    /\ file' = [file EXCEPT ![t].left = @ - 1]
    /\ UNCHANGED << threads, allocated, svc_send, phase, calls, seen, flags >>

Begin(t) ==
    \/ Refused(t)
    \/ NoMemory(t)
    \/ \E r \in ValidRequests, c \in Cells :
         LockNotCreated(t, r, c) \/ FileNotOpened(t, r, c) \/ SetupDone(t, r, c)

Perform(t) ==
    \/ Initiate(t) \/ InitiateFails(t) \/ InitiateReportedFailed(t)
    \/ WaitFails(t) \/ Wake(t)
    \/ Finish(t) \/ CopyCode(t)

Statuses == {"complete"} \cup StatusErrors

Deliver(c) ==
    \/ Data(c) \/ DataReadFails(c)
    \/ \E st \in Statuses, ok \in BOOLEAN : Status(c, st, ok) \/ PingResponse(c, st, ok)

Callback(c) ==
    \/ Length(c)
    \/ Deliver(c)
    \/ \E r \in Responses : Response(c, r)

Next ==
    \/ \E t \in Senders : Begin(t) \/ Perform(t) \/ Truncate(t)
    \/ \E c \in Cells : Callback(c)

Spec == Init /\ [][Next]_vars

-----------------------------------------------------------------------------
Errors == {"none", "insufficient_memory", "lock_failed", "not_a_file", "accessing_file",
           "initiate_action_failed"}
          \cup ArgumentErrors \cup ResponseErrors \cup StatusErrors

Contexts ==
    [lock : {"null", "made", "dead"}, released : Nat, sending_file : BOOLEAN,
     bytes_remaining : Nat, request_error : {"none", "accessing_file"},
     response_error : {"none"} \cup ResponseErrors \cup StatusErrors,
     status_error : {"none"} \cup StatusErrors, raw_response_error : RawErrors]

(***************************************************************************)
(* Every variable has the type of the field it models: among others,       *)
(* bytes_remaining, unsigned in the code, never wraps.                     *)
(***************************************************************************)
TypeOK ==
    /\ pc \in [Senders -> {"idle", "initiate", "wait", "finish", "copy", "returned"}]
    /\ call \in [Senders -> ValidRequests \cup {NoCall}]
    /\ send_info \in [Senders -> Cells \cup {NULL}]
    /\ error \in [Senders -> Errors] /\ code \in [Senders -> {"unset"} \cup RawErrors]
    /\ allocated \subseteq Cells /\ svc_send \in [Cells -> Contexts]
    /\ file \in [Senders -> [open : BOOLEAN, left : Nat]]
    /\ phase \in [Cells -> {"none", "data", "failed", "answer", "ping"}]
    /\ calls \in Nat /\ failures \in Nat
    /\ seen \in [Senders -> [announced : Nat \cup {Unasked}, taken : Nat, reads : {"whole", "short", "failed"},
                             response : {"none"} \cup Responses,
                             final : {"none"} \cup Statuses]]
    /\ abandoned \in BOOLEAN /\ wild \in BOOLEAN

(***************************************************************************)
(* CCFSM never calls a handler with a context that was freed, as long as   *)
(* the platform's locks work: perform_send returns only when the status    *)
(* callback was made or CCFSM did not take the request.                    *)
(***************************************************************************)
ContextOutlivesSession == abandoned => failures > 0

(***************************************************************************)
(* When ccxapi_send_data_common and its like reach finish_send: a success  *)
(* means that all of the data was taken, in the length announced, that     *)
(* the session completed, and that the server did not answer an error to   *)
(* a caller who waits for the reply.  An error names what really happened, *)
(* the failed read before the response and the response before the status. *)
(***************************************************************************)
ResultIsHonest ==
    \A t \in Senders : pc[t] = "finish" =>
        LET s == seen[t]
            rejected == call[t].with_reply /\ s.response \in ResponseErrors
        IN
        /\ error[t] = "none" =>
             /\ s.final = "complete" /\ ~rejected
             /\ s.taken = call[t].size /\ s.announced \in {Unasked, s.taken}
        /\ error[t] \in StatusErrors => s.final = error[t] /\ ~rejected
        /\ error[t] \in ResponseErrors => rejected /\ s.response = error[t]
        /\ error[t] \in {"none"} \cup StatusErrors \cup ResponseErrors => s.reads # "failed"

(***************************************************************************)
(* A call that has returned leaves no file open and no context behind,     *)
(* whichever way it ended.                                                 *)
(***************************************************************************)
NothingLeft ==
    /\ \A t \in Senders : file[t].open => Inside(t)
    /\ \A c \in allocated : \E t \in Senders : Inside(t) /\ send_info[t] = c

(***************************************************************************)
(* `Free resources' (ccapi_send.c:335): finish_send decides from the       *)
(* context which lock it destroys and which file it closes.  They are the  *)
(* ones the call obtained, unless its setup failed before the context was  *)
(* complete (then the fields it reads were never assigned).                *)
(***************************************************************************)
ReleasesOwn == wild => failures > 0

(***************************************************************************)
(* The contexts and CCFSM's sessions match: a session has a context, of    *)
(* the types of its fields, for as long as CCFSM may call back.            *)
(***************************************************************************)
SessionsHold == TypeOK /\ ContextOutlivesSession

(***************************************************************************)
(* A call releases what it obtained, all of it and nothing else.           *)
(***************************************************************************)
ReleasesExactly == NothingLeft /\ ReleasesOwn

(***************************************************************************)
(* A caller, who waits without a time limit, is woken once and not before  *)
(* CCFSM's last word: while the platform's locks work the lock it waits on *)
(* has been released exactly when its session is over, however it ended,   *)
(* and until then CCFSM still owes the status (ccapi_data_handler.c:193,   *)
(* ccapi_sm_handler.c:404).                                                *)
(***************************************************************************)
CallerIsWoken ==
    \A t \in Senders :
        pc[t] = "wait" /\ failures = 0 =>
            (svc_send[send_info[t]].released > 0 <=> phase[send_info[t]] = "none")
=============================================================================
