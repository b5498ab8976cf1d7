---------------------------- MODULE ReceiveService ----------------------------
(***************************************************************************)
(* The device request (receive) service of CCAPI                           *)
(* (source/ccapi_data_handler.c, lines 28-65 and 225-667).                 *)
(*                                                                         *)
(* CCFSM (external) runs several sessions.  For each it calls the target   *)
(* handler, which allocates the session's context svc_receive; the data    *)
(* handler, until it stops answering busy; the length and response         *)
(* handlers when a response is required; and the status handler, which     *)
(* frees the context.  A cancel, a timeout or a session error makes it     *)
(* call the status handler at any time.  The receive thread passes one     *)
(* session at a time to the application through the pointer                *)
(* service.receive.svc_receive and a semaphore.                            *)
(*                                                                         *)
(* A session is named by the cell of memory that holds its context: a cell *)
(* that was freed can be given to a later session.                         *)
(***************************************************************************)
EXTENDS Integers

NoLimit == -1              \* CCAPI_RECEIVE_NO_LIMIT, (size_t) -1

CONSTANTS
    Cells,              \* the memory malloc can return for a context
    NULL,
    ReceiveSupported,   \* config.receive_supported
    DataCallback,       \* whether the default data callback is set
    StatusCallback,     \* whether the sessions have a status callback
    MaxRequestSize,     \* of the registered target, possibly NoLimit
    PacketSizes,        \* bytes_used of the packets CCFSM delivers
    ResponseSizes,      \* lengths of the responses the application gives
    ErrorSize,          \* length of the message of fill_internal_error
    BytesAvailable,     \* room CCFSM has for a part of the reply
    MaxLength,          \* bound: bytes in a request
    MaxSessions,        \* bound: number of sessions
    MaxMallocFailures   \* bound: number of allocations that fail

ASSUME CellsAssumption == NULL \notin Cells
ASSUME ConfigAssumption ==
    /\ ReceiveSupported \in BOOLEAN /\ DataCallback \in BOOLEAN
    /\ StatusCallback \in BOOLEAN /\ MaxRequestSize \in Nat \cup {NoLimit}
ASSUME LengthsAssumption ==
    /\ PacketSizes \subseteq Nat /\ ResponseSizes \subseteq Nat
    /\ ErrorSize \in Nat \ {0} /\ BytesAvailable \in Nat \ {0}
ASSUME LimitsAssumption ==
    MaxLength \in Nat /\ MaxSessions \in Nat /\ MaxMallocFailures \in Nat

VARIABLES
    allocated,          \* the cells that hold a context
    session,            \* [Cells -> ccapi_svc_receive_t]
    svc_receive,        \* service.receive.svc_receive
    \* ccapi_data->thread.receive, the thread's program counter and locals
    status, lock, pc,
    held,               \* its local svc_receive
    wants,              \* whether the callback was given a response buffer
    \* CCFSM (external): the next callback of each session
    phase,
    ccfsm,              \* it runs
    crashed,            \* the program dereferenced NULL
    \* bounds and history
    sessions, failures,
    given,              \* bytes CCFSM has delivered to the session
    calls,              \* times the application's data callback was called
    verdict,            \* what it returned
    announced, sent,    \* reply bytes announced by length, and sent
    report,             \* the last report to the status callback
    leaked,             \* a request buffer was lost
    lost,               \* the responses of the application not given back
    dangling            \* a context was freed while the thread still uses it

thread == << status, lock, pc, held, wants >>
ghosts == << given, calls, verdict, announced, sent >>
counts == << sessions, failures >>
outcome == << report, leaked, lost, dangling >>
vars == << allocated, session, svc_receive, thread, phase, ccfsm, crashed,
           counts, ghosts, outcome >>

-----------------------------------------------------------------------------
Statuses == {"idle", "ready", "queued", "processed", "free"}
UserErrors == {"none", "custom"}
CloudErrors == {"status_cancel", "status_timeout", "status_session_error"}
TargetErrors == {"insufficient_memory", "no_receive_support", "invalid_data_cb",
                 "user_refused_target"}
Errors == UserErrors \cup CloudErrors \cup TargetErrors \cup {"request_too_big"}

Unasked == -1              \* length was not asked for
NoBuffer == [owner |-> "nobody", length |-> 0]
NoReport == [made |-> FALSE, error |-> "none", final |-> "none",
             calls |-> 0, verdict |-> "none"]

(***************************************************************************)
(* The context ccapi_process_device_request_target fills in.               *)
(***************************************************************************)
NewSession(required) ==
    [target |-> TRUE, required |-> required, max_request_size |-> NoLimit,
     status |-> "idle", error |-> "none",
     length |-> 0, buffer |-> "null",           \* request_buffer_info
     response |-> NoBuffer,                     \* response_buffer_info
     internal |-> FALSE,                        \* response_handled_internally
     processing |-> 0]                          \* response_processing.length

Init ==
    /\ allocated = {}
    /\ session = [c \in Cells |-> NewSession(FALSE)]
    /\ svc_receive = NULL
    /\ status = "running" /\ lock = 0 /\ pc = "acquire"
    /\ held = NULL /\ wants = FALSE
    /\ phase = [c \in Cells |-> "none"]
    /\ ccfsm = TRUE /\ crashed = FALSE
    /\ sessions = 0 /\ failures = 0
    /\ given = [c \in Cells |-> 0] /\ calls = [c \in Cells |-> 0]
    /\ verdict = [c \in Cells |-> "none"]
    /\ announced = [c \in Cells |-> Unasked] /\ sent = [c \in Cells |-> 0]
    /\ report = NoReport
    /\ leaked = FALSE /\ lost = {} /\ dangling = FALSE

CCFSMRuns == ccfsm /\ ~crashed

(***************************************************************************)
(* After an error CCFSM asks for the reply, if there is one to give, and   *)
(* reports the status.                                                     *)
(***************************************************************************)
AfterData(required) == IF required THEN "reply" ELSE "status"

-----------------------------------------------------------------------------
(***************************************************************************)
(* ccapi_process_device_request_target.  A failure to allocate the context *)
(* itself is answered with an error and leaves no trace; every other way   *)
(* out leaves a context that only the status handler frees.                *)
(***************************************************************************)
OpenSession(c, s, next) ==
    /\ CCFSMRuns
    /\ c \notin allocated /\ sessions < MaxSessions
    /\ allocated' = allocated \cup {c}
    /\ session' = [session EXCEPT ![c] = s]
    /\ phase' = [phase EXCEPT ![c] = next]
    /\ sessions' = sessions + 1
    /\ UNCHANGED << svc_receive, thread, ccfsm, crashed, ghosts, outcome >>

TargetNoMemory(c, required) ==
    /\ failures < MaxMallocFailures /\ failures' = failures + 1
    /\ OpenSession(c, [NewSession(required) EXCEPT !.target = FALSE,
                                                   !.error = "insufficient_memory"],
                   AfterData(required))

TargetRefusal(registered) ==
    IF ~ReceiveSupported THEN {"no_receive_support"}
    ELSE IF registered THEN {}
    ELSE IF ~DataCallback THEN {"invalid_data_cb"}
    ELSE {"user_refused_target"}

TargetRefused(c, required, registered) ==
    /\ \E e \in TargetRefusal(registered) :
         OpenSession(c, [NewSession(required) EXCEPT !.error = e], AfterData(required))
    /\ UNCHANGED failures

TargetAccepted(c, required, registered) ==
    /\ ReceiveSupported /\ (registered \/ DataCallback)
    /\ OpenSession(c, [NewSession(required) EXCEPT !.max_request_size =
                         IF registered THEN MaxRequestSize ELSE NoLimit], "data")
    /\ UNCHANGED failures

-----------------------------------------------------------------------------
(***************************************************************************)
(* ccapi_process_device_request_data, one action per way out.  Where it    *)
(* answers busy and does nothing (the session is queued, or ready and      *)
(* another one is queued) CCFSM calls again: a stuttering step.            *)
(***************************************************************************)
ServeData(c, st) == CCFSMRuns /\ phase[c] = "data" /\ session[c].status = st

ExceedsLimitAlready(c, n) ==
    /\ session[c].max_request_size # NoLimit
    /\ session[c].length > session[c].max_request_size

ExceedsLimit(c, n) ==
    /\ session[c].max_request_size # NoLimit
    /\ session[c].length + n > session[c].max_request_size

DataFails(c, e) ==
    /\ session' = [session EXCEPT ![c] = [session[c] EXCEPT !.error = e, !.status = "free"]]
    /\ phase' = [phase EXCEPT ![c] = AfterData(session[c].required)]
    /\ UNCHANGED << allocated, svc_receive, thread, ccfsm, crashed, sessions, calls,
                    verdict, announced, sent, outcome >>

DataTooBig(c, n) ==
    /\ ServeData(c, "idle") /\ ExceedsLimit(c, n)
    /\ DataFails(c, "request_too_big")
    /\ UNCHANGED << failures, given >>

DataNoMemory(c, n) ==
    /\ ServeData(c, "idle") /\ ~ExceedsLimit(c, n)
    /\ failures < MaxMallocFailures /\ failures' = failures + 1
    /\ DataFails(c, "insufficient_memory")
    /\ UNCHANGED given

DataStored(c, n, more) ==
    /\ ServeData(c, "idle") /\ ~ExceedsLimit(c, n)
    /\ session[c].length + n <= MaxLength
    /\ session' = [session EXCEPT ![c] =
                    [session[c] EXCEPT !.length = session[c].length + n, !.buffer = "held",
                                       !.status = IF more THEN "idle" ELSE "ready"]]
    /\ given' = [given EXCEPT ![c] = @ + n]
    /\ UNCHANGED << allocated, svc_receive, thread, phase, ccfsm, crashed, counts,
                    calls, verdict, announced, sent, outcome >>

(***************************************************************************)
(* The session is queued if no other one is.                               *)
(***************************************************************************)
SlotFreeAlways == TRUE
SlotFree == svc_receive = NULL

DataQueued(c) ==
    /\ ServeData(c, "ready") /\ SlotFree
    /\ session' = [session EXCEPT ![c].status = "queued"]
    /\ svc_receive' = c
    /\ lock' = lock + 1
    /\ UNCHANGED << allocated, status, pc, held, wants, phase, ccfsm, crashed, counts,
                    ghosts, outcome >>

DataProcessed(c) ==
    /\ ServeData(c, "processed")
    /\ session' = [session EXCEPT ![c] =
                    [session[c] EXCEPT !.buffer = "freed", !.status = "free",
                      !.processing = IF session[c].required
                                     THEN session[c].response.length
                                     ELSE session[c].processing]]
    /\ phase' = [phase EXCEPT ![c] = AfterData(session[c].required)]
    /\ UNCHANGED << allocated, svc_receive, thread, ccfsm, crashed, counts, ghosts, outcome >>

-----------------------------------------------------------------------------
(***************************************************************************)
(* ccapi_process_device_request_length                                     *)
(***************************************************************************)
ReplyLength(c) ==
    /\ CCFSMRuns /\ phase[c] = "reply" /\ sent[c] = 0 /\ announced[c] < 0
    /\ announced' = [announced EXCEPT ![c] = session[c].processing]
    /\ UNCHANGED << allocated, session, svc_receive, thread, phase, ccfsm, crashed,
                    counts, given, calls, verdict, sent, outcome >>

(***************************************************************************)
(* ccapi_process_device_request_response: CCAPI answers for itself, once,  *)
(* when there was an error and the application gave no response.           *)
(***************************************************************************)
NeedsInternalErrorAnyway(c) ==
    /\ session[c].error # "none" /\ ~session[c].internal

NeedsInternalError(c) ==
    /\ session[c].error # "none" /\ ~session[c].internal
    /\ session[c].response.length = 0

(***************************************************************************)
(* A response the application allocated, of which nothing is known when    *)
(* the context goes or another response takes its place.                   *)
(***************************************************************************)
Losable(c) ==
    IF session[c].response.owner = "user"
    THEN {[length |-> session[c].response.length, verdict |-> verdict[c]]} ELSE {}

(***************************************************************************)
(* fill_internal_error; it takes the length of the target's name even when *)
(* there was no memory for it.                                             *)
(***************************************************************************)
FillInternalError(c, fails) ==
    IF fails
    THEN [session[c] EXCEPT !.internal = TRUE, !.processing = 0,
                            !.error = "insufficient_memory", !.response = NoBuffer]
    ELSE [session[c] EXCEPT !.internal = TRUE, !.processing = ErrorSize,
                            !.response = [owner |-> "ccapi", length |-> ErrorSize]]

BytesToSendUnlimited(s) == BytesAvailable

BytesToSend(s) ==
    IF s.processing > BytesAvailable THEN BytesAvailable ELSE s.processing

SendPartAsLast(c, s) ==
    /\ session' = [session EXCEPT ![c] = [s EXCEPT !.processing = @ - BytesToSend(s)]]
    /\ sent' = [sent EXCEPT ![c] = @ + BytesToSend(s)]
    /\ phase' = [phase EXCEPT ![c] = "status"]

SendPart(c, s) ==
    /\ session' = [session EXCEPT ![c] = [s EXCEPT !.processing = @ - BytesToSend(s)]]
    /\ sent' = [sent EXCEPT ![c] = @ + BytesToSend(s)]
    /\ phase' = [phase EXCEPT ![c] = IF session'[c].processing > 0 THEN "reply"
                                                                   ELSE "status"]

Reply(c) ==
    /\ CCFSMRuns /\ phase[c] = "reply" /\ ~NeedsInternalError(c)
    /\ SendPart(c, session[c])
    /\ UNCHANGED << allocated, svc_receive, thread, ccfsm, crashed, counts, given, calls,
                    verdict, announced, outcome >>

ReplyInternal(c, fails) ==
    /\ CCFSMRuns /\ phase[c] = "reply" /\ NeedsInternalError(c) /\ session[c].target
    /\ IF fails THEN failures < MaxMallocFailures /\ failures' = failures + 1
                ELSE UNCHANGED failures
    /\ SendPart(c, FillInternalError(c, fails))
    /\ lost' = lost \cup Losable(c)
    /\ UNCHANGED << allocated, svc_receive, thread, ccfsm, crashed, sessions, given, calls,
                    verdict, announced, report, leaked, dangling >>

\* strlen(svc_receive->target) with a target that is NULL
ReplyCrashes(c) ==
    /\ CCFSMRuns /\ phase[c] = "reply" /\ NeedsInternalError(c) /\ ~session[c].target
    /\ crashed' = TRUE
    /\ UNCHANGED << allocated, session, svc_receive, thread, phase, ccfsm, counts,
                    ghosts, outcome >>

-----------------------------------------------------------------------------
(***************************************************************************)
(* ccapi_process_device_request_status.  CCFSM reports `complete' at the   *)
(* end of a session and an error at any time.                              *)
(***************************************************************************)
FinalErrorCloudFirst(c, st) == IF st = "none" THEN session[c].error ELSE st
FinalError(c, st) == IF session[c].error = "none" THEN st ELSE session[c].error

ShouldUserFree(c) ==
    ~session[c].internal /\ session[c].required /\ session[c].response.owner # "nobody"

\* The thread has not made its last use of the session in the slot.
InThread(c) == svc_receive = c /\ pc # "clear"

\* What a freed cell holds is of no account, and its history ends.
Forget(c) ==
    /\ session' = [session EXCEPT ![c] = NewSession(FALSE)]
    /\ given' = [given EXCEPT ![c] = 0] /\ calls' = [calls EXCEPT ![c] = 0]
    /\ verdict' = [verdict EXCEPT ![c] = "none"]
    /\ announced' = [announced EXCEPT ![c] = Unasked]
    /\ sent' = [sent EXCEPT ![c] = 0]

Status(c, st) ==
    /\ CCFSMRuns /\ phase[c] # "none"
    /\ st = "none" => phase[c] = "status"
    /\ report' = IF ReceiveSupported /\ StatusCallback
                 THEN [made |-> TRUE, error |-> FinalError(c, st), final |-> st,
                       calls |-> calls[c], verdict |-> verdict[c]]
                 ELSE report
    /\ allocated' = allocated \ {c}
    /\ phase' = [phase EXCEPT ![c] = "none"]
    /\ leaked' = (leaked \/ session[c].buffer = "held")
    /\ lost' = lost \cup (IF StatusCallback /\ ~ShouldUserFree(c) THEN Losable(c) ELSE {})
    /\ dangling' = (dangling \/ InThread(c))
    /\ Forget(c)
    /\ UNCHANGED << svc_receive, thread, ccfsm, crashed, counts >>

-----------------------------------------------------------------------------
(***************************************************************************)
(* ccapi_receive_thread.  What it reads from a context that has been freed *)
(* is arbitrary, and what it writes there is seen only by a session that   *)
(* was given the same cell.                                                *)
(***************************************************************************)
ThreadAcquire ==
    /\ pc = "acquire" /\ lock > 0 /\ ~crashed
    /\ lock' = lock - 1
    /\ pc' = "check"
    /\ UNCHANGED << allocated, session, svc_receive, status, held, wants, phase,
                    ccfsm, crashed, counts, ghosts, outcome >>

ThreadEnds ==
    /\ pc' = "stopped" /\ status' = "not_started"
    /\ UNCHANGED << allocated, session, svc_receive, lock, held, wants, phase,
                    ccfsm, crashed, counts, ghosts, outcome >>

ThreadExit == pc = "check" /\ status = "request_stop" /\ ~crashed /\ ThreadEnds

\* ASSERT_MSG_GOTO(..., done): the thread ends, and with it the service.
ThreadAssertFails ==
    /\ pc = "check" /\ status # "request_stop" /\ ~crashed
    /\ svc_receive \in allocated => session[svc_receive].status # "queued"
    /\ ThreadEnds

ThreadCall ==
    /\ pc = "check" /\ status # "request_stop" /\ ~crashed
    /\ svc_receive # NULL
    /\ svc_receive \in allocated => session[svc_receive].status = "queued"
    /\ held' = svc_receive
    /\ wants' \in IF svc_receive \in allocated THEN {session[svc_receive].required}
                                              ELSE BOOLEAN
    /\ calls' = IF svc_receive \in allocated
                THEN [calls EXCEPT ![svc_receive] = @ + 1] ELSE calls
    /\ pc' = "callback"
    /\ UNCHANGED << allocated, session, svc_receive, status, lock, phase, ccfsm, crashed,
                    counts, given, verdict, announced, sent, outcome >>

ThreadReturn(e, response) ==
    /\ pc = "callback" /\ ~crashed
    /\ response # NoBuffer => wants
    /\ IF held \in allocated
       THEN /\ session' = [session EXCEPT ![held] =
                            [session[held] EXCEPT !.error = e,
                              !.response = IF wants THEN response
                                                    ELSE session[held].response]]
            /\ verdict' = [verdict EXCEPT ![held] = e]
       ELSE UNCHANGED << session, verdict >>
    /\ pc' = "update"
    /\ UNCHANGED << allocated, svc_receive, status, lock, held, wants, phase,
                    ccfsm, crashed, counts, given, calls, announced, sent, outcome >>

ThreadUpdate ==
    /\ pc = "update" /\ ~crashed
    /\ session' = IF held \in allocated /\ session[held].status = "queued"
                  THEN [session EXCEPT ![held].status = "processed"]
                  ELSE session
    /\ pc' = "clear"
    /\ UNCHANGED << allocated, svc_receive, status, lock, held, wants, phase,
                    ccfsm, crashed, counts, ghosts, outcome >>

ThreadClearKeepsSlot ==
    /\ pc = "clear" /\ ~crashed
    /\ IF status = "running"
       THEN pc' = "acquire" /\ UNCHANGED status
       ELSE pc' = "stopped" /\ status' = "not_started"
    /\ UNCHANGED << allocated, session, svc_receive, lock, held, wants, phase,
                    ccfsm, crashed, counts, ghosts, outcome >>

ThreadClear ==
    /\ pc = "clear" /\ ~crashed
    /\ svc_receive' = NULL
    /\ IF status = "running"
       THEN pc' = "acquire" /\ UNCHANGED status
       ELSE pc' = "stopped" /\ status' = "not_started"
    /\ UNCHANGED << allocated, session, lock, held, wants, phase, ccfsm, crashed,
                    counts, ghosts, outcome >>

(***************************************************************************)
(* ccapi_stop_thread, called once CCFSM has been terminated.               *)
(***************************************************************************)
StopThread ==
    /\ CCFSMRuns
    /\ ccfsm' = FALSE
    /\ status' = IF status = "running" THEN "request_stop" ELSE status
    /\ lock' = lock + 1
    /\ UNCHANGED << allocated, session, svc_receive, pc, held, wants, phase,
                    crashed, counts, ghosts, outcome >>

-----------------------------------------------------------------------------
Target(c) ==
    \E required, registered \in BOOLEAN :
        \/ TargetNoMemory(c, required)
        \/ TargetRefused(c, required, registered)
        \/ TargetAccepted(c, required, registered)

Data(c) ==
    \/ \E n \in PacketSizes :
         \/ DataTooBig(c, n)
         \/ DataNoMemory(c, n)
         \/ \E more \in BOOLEAN : DataStored(c, n, more)
    \/ DataQueued(c)
    \/ DataProcessed(c)

Response(c) ==
    \/ ReplyLength(c)
    \/ Reply(c)
    \/ \E fails \in BOOLEAN : ReplyInternal(c, fails)
    \/ ReplyCrashes(c)

Responses == {[owner |-> "user", length |-> n] : n \in ResponseSizes} \cup {NoBuffer}

ThreadStep ==
    \/ ThreadAcquire \/ ThreadExit \/ ThreadAssertFails \/ ThreadCall
    \/ \E e \in UserErrors, b \in Responses : ThreadReturn(e, b)
    \/ ThreadUpdate \/ ThreadClear

Next ==
    \/ \E c \in Cells :
         Target(c) \/ Data(c) \/ Response(c)
         \/ \E st \in {"none"} \cup CloudErrors : Status(c, st)
    \/ ThreadStep
    \/ StopThread

(***************************************************************************)
(* The receive thread and the application callback it calls make progress, *)
(* and CCFSM calls a data handler that answered busy again.  Nothing makes *)
(* the server send, cancel or stop.                                        *)
(***************************************************************************)
Fairness ==
    /\ WF_vars(ThreadStep)
    /\ \A c \in Cells : WF_vars(DataQueued(c) \/ DataProcessed(c))

Spec == Init /\ [][Next]_vars /\ Fairness

-----------------------------------------------------------------------------
Contexts ==
    [target : BOOLEAN, required : BOOLEAN, max_request_size : Nat \cup {NoLimit},
     status : Statuses, error : Errors, length : Nat,
     buffer : {"null", "held", "freed"},
     response : [owner : {"nobody", "user", "ccapi"}, length : Nat],
     internal : BOOLEAN, processing : Nat]

SessionsOK ==
    /\ allocated \subseteq Cells
    /\ session \in [Cells -> Contexts]
    /\ svc_receive \in Cells \cup {NULL}
    /\ phase \in [Cells -> {"none", "data", "reply", "status"}]
    /\ \A c \in Cells : phase[c] # "none" <=> c \in allocated

ThreadOK ==
    /\ status \in {"running", "request_stop", "not_started"}
    /\ pc \in {"acquire", "check", "callback", "update", "clear", "stopped"}
    /\ lock \in Nat
    /\ held \in Cells \cup {NULL}
    /\ pc \in {"callback", "update", "clear"} => held \in Cells
    /\ wants \in BOOLEAN /\ ccfsm \in BOOLEAN /\ crashed \in BOOLEAN

HistoryOK ==
    /\ sessions \in Nat /\ failures \in Nat
    /\ given \in [Cells -> Nat] /\ calls \in [Cells -> Nat] /\ sent \in [Cells -> Nat]
    /\ announced \in [Cells -> Nat \cup {Unasked}]
    /\ verdict \in [Cells -> UserErrors]
    /\ report \in [made : BOOLEAN, error : Errors, final : {"none"} \cup CloudErrors,
                   calls : Nat, verdict : UserErrors]
    /\ leaked \in BOOLEAN /\ dangling \in BOOLEAN
    /\ lost \subseteq [length : Nat, verdict : UserErrors]

(***************************************************************************)
(* Every variable has the type of the field it models: among others, the   *)
(* length of the reply still to send never wraps below zero.               *)
(***************************************************************************)
TypeOK == SessionsOK /\ ThreadOK /\ HistoryOK

(***************************************************************************)
(* The assertions of lines 44 and 45: when the receive thread wakes, the   *)
(* slot holds a context and the context is queued.  They hold until CCFSM  *)
(* ends a session that the thread has not finished with.                   *)
(***************************************************************************)
SlotIsQueued ==
    ~dangling /\ pc = "check" /\ status # "request_stop" =>
        /\ svc_receive \in allocated
        /\ session[svc_receive].status = "queued"

(***************************************************************************)
(* `Check if ccfsm has called status callback cancelling the session while *)
(* we were waiting for the user' (line 52): the thread looks at the        *)
(* context after the callback, so it must still be one.                    *)
(***************************************************************************)
ContextOutlivesCallback == pc = "update" => held \in allocated

(***************************************************************************)
(* While the application's data callback runs, the context and the request *)
(* it was given stay: all the bytes CCFSM delivered for the session, no    *)
(* more than the target's limit, in a buffer not yet freed, and given to   *)
(* it once.                                                                *)
(***************************************************************************)
RequestIsWhole ==
    ~dangling /\ pc = "callback" =>
        /\ held \in allocated /\ phase[held] = "data"
        /\ session[held].length = given[held]
        /\ session[held].buffer = "held"
        /\ calls[held] = 1
        /\ session[held].max_request_size # NoLimit =>
             session[held].length <= session[held].max_request_size

(***************************************************************************)
(* At the end of a session that requires a response all of it has been     *)
(* sent, once, whatever the parts CCFSM asked for; without an error it is  *)
(* the one the application gave, and as long as was announced.             *)
(***************************************************************************)
ReplyIsAnswer ==
    ~dangling =>
      \A c \in allocated : phase[c] = "status" =>
        /\ session[c].required => sent[c] = session[c].response.length
        /\ session[c].required /\ announced[c] # Unasked /\ ~session[c].internal =>
             announced[c] = sent[c]
        /\ session[c].error = "none" => calls[c] = 1 /\ verdict[c] = "none"

(***************************************************************************)
(* What the status callback is told: success only for a session whose      *)
(* request the application took without an error and that CCFSM completed, *)
(* and the application's own error before the cloud's, unless memory ran   *)
(* out in between.                                                         *)
(***************************************************************************)
ReportIsHonest ==
    ~dangling /\ report.made =>
        /\ report.error = "none" =>
             report.final = "none" /\ report.calls = 1 /\ report.verdict = "none"
        /\ report.verdict # "none" /\ failures = 0 => report.error = report.verdict

(***************************************************************************)
(* Every response the application allocated comes back to it through the   *)
(* status callback (`so he can free allocated response memory', line 626), *)
(* whatever it returned and however the session ends, but for one: an      *)
(* empty response that came with an error is taken for none (line 566),    *)
(* its buffer is overwritten with CCAPI's own error and lost (line 544).   *)
(***************************************************************************)
ResponseComesBack ==
    ~dangling => \A response \in lost : response.length = 0 /\ response.verdict # "none"


(***************************************************************************)
(* A data handler that answers busy is not busy for ever: the session is   *)
(* queued, its callback returns and the handler is told, whatever other    *)
(* sessions compete for the slot.                                          *)
(***************************************************************************)
BusyResolves ==
    \A c \in Cells :
        phase[c] = "data" /\ session[c].status # "idle"
            ~> (phase[c] # "data" \/ dangling \/ crashed \/ ~ccfsm)

(***************************************************************************)
(* ccapi_stop_thread returns, even if it was called while the thread waits *)
(* for a session or after it ended by itself.                              *)
(***************************************************************************)
StopCompletes == ~ccfsm ~> (status = "not_started" \/ crashed)

(***************************************************************************)
(* Neither CCFSM nor the application waits for the service for ever.       *)
(***************************************************************************)
Progress == BusyResolves /\ StopCompletes
-----------------------------------------------------------------------------
(***************************************************************************)
(* The inductive invariant behind the safety properties, which all speak   *)
(* of the time before a context is freed under the thread.                 *)
(*                                                                         *)
(* A session is with the thread from the moment it is queued until the     *)
(* thread has marked it processed.  The semaphore and the thread together  *)
(* account for exactly that session.                                       *)
(***************************************************************************)
WithThread == svc_receive # NULL /\ pc # "clear"
InHand == pc \in {"check", "callback", "update"}
Tokens == IF InHand THEN lock + 1 ELSE lock

SlotInv ==
    /\ ccfsm => status = "running" /\ Tokens = (IF WithThread THEN 1 ELSE 0)
    /\ ~ccfsm => status # "running"
    /\ pc = "stopped" <=> status = "not_started"
    /\ WithThread => svc_receive \in allocated /\ session[svc_receive].status = "queued"
    /\ pc \in {"callback", "update", "clear"} => held = svc_receive /\ svc_receive # NULL
    /\ \A c \in allocated : session[c].status = "queued" => WithThread /\ svc_receive = c

\* A session whose data is being delivered or processed.
CallbackMade(c) ==
    \/ session[c].status = "processed"
    \/ session[c].status = "queued" /\ pc \in {"callback", "update"}

Answered(c) ==
    \/ session[c].status = "processed"
    \/ session[c].status = "queued" /\ pc = "update"

Fits(c) ==
    session[c].max_request_size # NoLimit => session[c].length <= session[c].max_request_size

DataInv(c) ==
    /\ session[c].status # "free"
    /\ session[c].length = given[c] /\ (given[c] # 0 => Fits(c))
    /\ session[c].status # "idle" => session[c].buffer = "held" /\ Fits(c)
    /\ calls[c] = (IF CallbackMade(c) THEN 1 ELSE 0)
    /\ ~Answered(c) => session[c].error = "none" /\ session[c].response = NoBuffer
    /\ session[c].error = verdict[c]
    /\ ~session[c].internal /\ session[c].processing = 0
    /\ sent[c] = 0 /\ announced[c] = Unasked

\* A session whose reply is being sent, or that is over.
ReplyInv(c) ==
    /\ session[c].status # "queued"
    /\ phase[c] = "reply" => session[c].required
    /\ session[c].error = "none" => calls[c] = 1 /\ verdict[c] = "none"
    /\ session[c].required =>
         IF NeedsInternalError(c)
         THEN phase[c] = "reply" /\ session[c].processing = 0 /\ sent[c] = 0
         ELSE sent[c] + session[c].processing = session[c].response.length
    /\ phase[c] = "status" /\ session[c].required => session[c].processing = 0
    /\ announced[c] # Unasked /\ ~session[c].internal =>
         announced[c] = session[c].response.length

OneSessionInv(c) ==
    /\ phase[c] = "data" => DataInv(c)
    /\ phase[c] # "data" => ReplyInv(c)
    /\ verdict[c] # "none" /\ failures = 0 => session[c].error = verdict[c]

SessionInv == \A c \in allocated : OneSessionInv(c)

\* A cell that is not allocated has no history.
Fresh(c) ==
    /\ given[c] = 0 /\ calls[c] = 0 /\ verdict[c] = "none"
    /\ announced[c] = Unasked /\ sent[c] = 0

FreshInv == \A c \in Cells \ allocated : Fresh(c)

ReceiveInv == ~dangling => SlotInv /\ SessionInv /\ FreshInv /\ ReportIsHonest
=============================================================================
