----------------------------- MODULE CliService -----------------------------
(***************************************************************************)
(* The command line over short messages: the four CLI handlers and the CLI *)
(* thread of ccapi_sm_handler.c.                                           *)
(*                                                                         *)
(* CCFSM delivers a command in packets.  When it is whole the session      *)
(* waits for the one slot the thread looks at; the thread calls the        *)
(* application, which may leave an output; CCFSM, which is answered busy   *)
(* until then, fetches the output in parts and reports how the session     *)
(* ended.  No lock guards the slot and the session.                        *)
(*                                                                         *)
(* A session is the cell of memory that holds its context; a freed cell    *)
(* may hold a later session.  Commands and outputs are their lengths.      *)
(***************************************************************************)
EXTENDS Integers

CONSTANTS Cell,             \* the memory for contexts
          Null,
          PacketSizes,      \* bytes_used of a packet of a command
          OutputSizes,      \* strlen of the outputs of the application
          ErrorSize,        \* length of the message of fill_internal_error
          BytesAvailable,   \* the room CCFSM has for a part of the output
          MaxLength,        \* bound: bytes of a command
          MaxSessions,      \* bound: sessions
          MaxFailures       \* bound: allocations that fail

ASSUME NullIsNoCell == Null \notin Cell
ASSUME SizesAreSizes ==
  /\ PacketSizes \subseteq Nat \ {0} /\ OutputSizes \subseteq Nat
  /\ ErrorSize \in Nat \ {0} /\ BytesAvailable \in Nat \ {0}
  /\ MaxLength \in Nat /\ MaxSessions \in Nat /\ MaxFailures \in Nat

VARIABLES supported,  \* config.cli_supported
          context,    \* per cell, a ccapi_svc_cli_t, or Freed
          svc_cli,    \* the slot: service.cli.svc_cli
          thread,     \* the CLI thread: its status, its semaphore, where it is
          phase,      \* CCFSM: the next callback of each session
          ccfsm,      \* CCFSM: whether it runs
          used,       \* for the bounds: sessions begun, allocations failed
          past,       \* history of each session
          lost,       \* history: an output did not come back to the application
          dangling    \* history: a context was freed under the thread

vars == <<supported, context, svc_cli, thread, phase, ccfsm, used, past, lost, dangling>>

NoOutput == [of |-> "nobody", length |-> 0]
New(required) ==
  [status |-> "idle", required |-> required, command |-> 0, buffer |-> "none",
   output |-> NoOutput, internal |-> FALSE, left |-> 0, error |-> "none"]
Freed == [New(FALSE) EXCEPT !.status = "freed"]

\* given: bytes of the command; calls: of the application; announced and sent:
\* of the output.
NoPast == [given |-> 0, calls |-> 0, announced |-> -1, sent |-> 0]

Alive(c) == context[c] # Freed

TypeOK ==
  /\ \A c \in Cell :
       /\ context[c].status \in {"idle", "ready", "queued", "processed", "free", "freed"}
       /\ context[c].required \in BOOLEAN /\ context[c].internal \in BOOLEAN
       /\ context[c].command \in 0..MaxLength
       /\ context[c].buffer \in {"none", "held", "freed"}
       /\ context[c].output.of \in {"nobody", "user", "ccapi"}
       /\ context[c].output.length \in Nat /\ context[c].left \in Nat
       /\ context[c].error \in {"none", "no_cli_support", "insufficient_memory"}
       /\ Alive(c) <=> phase[c] # "none"
  /\ svc_cli \in Cell \cup {Null}
  /\ thread.status \in {"running", "request_stop", "not_started"} /\ thread.lock \in Nat
  /\ thread.at \in {"acquire", "check", "callback", "update", "clear", "stopped"}
  /\ thread.held \in Cell \cup {Null} /\ thread.wants \in BOOLEAN
  /\ phase \in [Cell -> {"none", "request", "response", "status"}]

Init ==
  /\ supported \in BOOLEAN
  /\ context = [c \in Cell |-> Freed] /\ svc_cli = Null
  /\ thread = [status |-> IF supported THEN "running" ELSE "not_started",
               at |-> IF supported THEN "acquire" ELSE "stopped",
               lock |-> 0, held |-> Null, wants |-> FALSE]
  /\ phase = [c \in Cell |-> "none"] /\ ccfsm = TRUE
  /\ used = [sessions |-> 0, failures |-> 0]
  /\ past = [c \in Cell |-> NoPast] /\ lost = FALSE /\ dangling = FALSE

MallocFails ==
  used.failures < MaxFailures /\ used' = [used EXCEPT !.failures = @ + 1]

\* What CCFSM calls when it has no more of the command to deliver.
AfterRequest(required) == IF required THEN "response" ELSE "status"

----------------------------------------------------------------------------
(* ccapi_process_cli_request.  Where it answers busy and does nothing, CCFSM  *)
(* calls again: a step that changes nothing.                                  *)

\* The session is refused, or its command cannot be kept.
Refused(c, s) ==
  /\ ~supported
  /\ context' = [context EXCEPT ![c] = [s EXCEPT !.error = "no_cli_support"]]
  /\ phase' = [phase EXCEPT ![c] = AfterRequest(s.required)]
  /\ UNCHANGED past

NoMemory(c, s) ==
  /\ supported
  /\ context' = [context EXCEPT ![c] = [s EXCEPT !.error = "insufficient_memory", !.status = "free"]]
  /\ phase' = [phase EXCEPT ![c] = AfterRequest(s.required)]
  /\ UNCHANGED past

\* Another n bytes of the command are kept.
Stored(c, s, n, more) ==
  /\ supported /\ s.command + n <= MaxLength
  /\ context' = [context EXCEPT ![c] =
       [s EXCEPT !.command = @ + n, !.buffer = "held",
                 !.status = IF more THEN "idle" ELSE "ready"]]
  /\ phase' = [phase EXCEPT ![c] = "request"]
  /\ past' = [past EXCEPT ![c].given = @ + n]

\* The first packet makes the context; without memory for it nothing is left.
RequestFirst(c, required, n, more) ==
  /\ ccfsm /\ ~Alive(c) /\ used.sessions < MaxSessions
  /\ \/ /\ used' = [used EXCEPT !.sessions = @ + 1]
        /\ Refused(c, New(required)) \/ Stored(c, New(required), n, more)
     \/ /\ used.failures < MaxFailures
        /\ used' = [used EXCEPT !.sessions = @ + 1, !.failures = @ + 1]
        /\ NoMemory(c, New(required)) \/ UNCHANGED <<context, phase, past>>
  /\ UNCHANGED <<supported, svc_cli, thread, ccfsm, lost, dangling>>

Serves(c, status) == ccfsm /\ phase[c] = "request" /\ context[c].status = status

RequestNext(c, n, more) ==
  /\ Serves(c, "idle")
  /\ \/ Stored(c, context[c], n, more) /\ UNCHANGED used
     \/ NoMemory(c, context[c]) /\ MallocFails
  /\ UNCHANGED <<supported, svc_cli, thread, ccfsm, lost, dangling>>

\* Mutant: a session that is ready is queued, whoever is.
NobodyQueuedUnchecked == TRUE

NobodyQueued == svc_cli = Null

RequestQueued(c) ==
  /\ Serves(c, "ready") /\ NobodyQueued
  /\ context' = [context EXCEPT ![c].status = "queued"]
  /\ svc_cli' = c /\ thread' = [thread EXCEPT !.lock = @ + 1]
  /\ UNCHANGED <<supported, phase, ccfsm, used, past, lost, dangling>>

\* The terminating null is sent with an output that is not empty.
Length(output) == IF output.length = 0 THEN 0 ELSE output.length + 1

RequestProcessed(c) ==
  /\ Serves(c, "processed")
  /\ context' = [context EXCEPT ![c] =
       [context[c] EXCEPT !.buffer = "freed", !.status = "free",
          !.left = IF context[c].required THEN Length(context[c].output) ELSE @]]
  /\ phase' = [phase EXCEPT ![c] = AfterRequest(context[c].required)]
  /\ UNCHANGED <<supported, svc_cli, thread, ccfsm, used, past, lost, dangling>>

----------------------------------------------------------------------------
(* ccapi_process_cli_response_length and ccapi_process_cli_response. *)

ResponseLength(c) ==
  /\ ccfsm /\ phase[c] = "response" /\ past[c].announced = -1 /\ past[c].sent = 0
  /\ past' = [past EXCEPT ![c].announced = context[c].left]
  /\ UNCHANGED <<supported, context, svc_cli, thread, phase, ccfsm, used, lost, dangling>>

\* CCAPI answers for itself, once, when the session has an error.
AnswersItself(c) == context[c].error # "none" /\ ~context[c].internal

\* fill_internal_error
Filled(c) ==
  [context[c] EXCEPT !.internal = TRUE, !.left = ErrorSize,
                     !.output = [of |-> "ccapi", length |-> ErrorSize]]
NotFilled(c) ==
  [context[c] EXCEPT !.internal = TRUE, !.left = context[c].output.length,
                     !.output.of = "nobody", !.error = "insufficient_memory"]

\* Mutant: a part is counted as full.
PartIsFull(s) == BytesAvailable

Part(s) == IF s.left > BytesAvailable THEN BytesAvailable ELSE s.left

\* Another part of the output; CCFSM comes back when it is told of more.
SendPart(c, s) ==
  /\ context' = [context EXCEPT ![c] = [s EXCEPT !.left = @ - Part(s)]]
  /\ past' = [past EXCEPT ![c].sent = @ + Part(s)]
  /\ phase' = [phase EXCEPT ![c] = IF s.left > Part(s) THEN "response" ELSE "status"]

Response(c) ==
  /\ ccfsm /\ phase[c] = "response"
  /\ \/ ~AnswersItself(c) /\ SendPart(c, context[c]) /\ UNCHANGED used
     \/ AnswersItself(c) /\ SendPart(c, Filled(c)) /\ UNCHANGED used
     \/ AnswersItself(c) /\ SendPart(c, NotFilled(c)) /\ MallocFails
  /\ UNCHANGED <<supported, svc_cli, thread, ccfsm, lost, dangling>>

----------------------------------------------------------------------------
(* ccapi_process_cli_status: at the end of a session, or at any time when it  *)
(* is cancelled or fails.  The application is given its output to free.       *)

GivenBack(c) ==
  context[c].output.of # "nobody" /\ ~context[c].internal /\ context[c].required

\* The thread has not made its last use of the session in the slot.
UnderThread(c) == svc_cli = c /\ thread.at # "clear"

Status(c, st) ==
  /\ ccfsm /\ phase[c] # "none"
  /\ st = "success" => phase[c] = "status"
  /\ context' = [context EXCEPT ![c] = Freed]
  /\ phase' = [phase EXCEPT ![c] = "none"]
  /\ past' = [past EXCEPT ![c] = NoPast]
  /\ lost' = (lost \/ (context[c].output.of = "user" /\ ~GivenBack(c)))
  /\ dangling' = (dangling \/ UnderThread(c))
  /\ UNCHANGED <<supported, svc_cli, thread, ccfsm, used>>

----------------------------------------------------------------------------
(* ccapi_cli_thread.  What it reads from a freed context may be anything.  *)

At(place) == thread.at = place

ThreadAcquire ==
  /\ At("acquire") /\ thread.lock > 0
  /\ thread' = [thread EXCEPT !.lock = @ - 1, !.at = "check"]
  /\ UNCHANGED <<supported, context, svc_cli, phase, ccfsm, used, past, lost, dangling>>

CommandQueued == svc_cli # Null /\ context[svc_cli].status = "queued"

\* It ends when it is told to, or when an assertion fails.
ThreadEnds ==
  /\ At("check")
  /\ \/ thread.status = "request_stop"
     \/ ~CommandQueued
  /\ thread' = [thread EXCEPT !.status = "not_started", !.at = "stopped"]
  /\ UNCHANGED <<supported, context, svc_cli, phase, ccfsm, used, past, lost, dangling>>

ThreadCalls ==
  /\ At("check") /\ thread.status # "request_stop"
  /\ svc_cli # Null /\ context[svc_cli].status \in {"queued", "freed"}
  /\ \E wants \in IF Alive(svc_cli) THEN {context[svc_cli].required} ELSE BOOLEAN :
       thread' = [thread EXCEPT !.at = "callback", !.held = svc_cli, !.wants = wants]
  /\ past' = IF Alive(svc_cli) THEN [past EXCEPT ![svc_cli].calls = @ + 1] ELSE past
  /\ UNCHANGED <<supported, context, svc_cli, phase, ccfsm, used, lost, dangling>>

\* The application leaves an output, if it was asked for one.
ThreadReturns(output) ==
  /\ At("callback")
  /\ output # NoOutput => thread.wants
  /\ thread' = [thread EXCEPT !.at = "update"]
  /\ IF Alive(thread.held)
     THEN /\ context' = IF thread.wants THEN [context EXCEPT ![thread.held].output = output]
                                        ELSE context
          /\ UNCHANGED lost
     ELSE lost' = (lost \/ output # NoOutput) /\ UNCHANGED context
  /\ UNCHANGED <<supported, svc_cli, phase, ccfsm, used, past, dangling>>

ThreadUpdates ==
  /\ At("update") /\ thread' = [thread EXCEPT !.at = "clear"]
  /\ context' = IF Alive(thread.held) /\ context[thread.held].status = "queued"
                THEN [context EXCEPT ![thread.held].status = "processed"] ELSE context
  /\ UNCHANGED <<supported, svc_cli, phase, ccfsm, used, past, lost, dangling>>

\* Mutant: the slot is not given up.
SlotKept == svc_cli

SlotAfter == Null

ThreadClears ==
  /\ At("clear") /\ svc_cli' = SlotAfter
  /\ thread' = IF thread.status = "running" THEN [thread EXCEPT !.at = "acquire"]
               ELSE [thread EXCEPT !.status = "not_started", !.at = "stopped"]
  /\ UNCHANGED <<supported, context, phase, ccfsm, used, past, lost, dangling>>

\* ccapi_stop_thread, when CCFSM has ended.
StopThread ==
  /\ supported /\ ccfsm /\ ccfsm' = FALSE
  /\ thread' = [thread EXCEPT !.lock = @ + 1,
                  !.status = IF @ = "running" THEN "request_stop" ELSE @]
  /\ UNCHANGED <<supported, context, svc_cli, phase, used, past, lost, dangling>>

----------------------------------------------------------------------------
Outputs == {[of |-> "user", length |-> n] : n \in OutputSizes} \cup {NoOutput}

ThreadNext ==
  \/ ThreadAcquire \/ ThreadEnds \/ ThreadCalls \/ ThreadUpdates \/ ThreadClears
  \/ \E output \in Outputs : ThreadReturns(output)

Next ==
  \/ \E c \in Cell, n \in PacketSizes, more \in BOOLEAN :
       RequestNext(c, n, more) \/ \E required \in BOOLEAN : RequestFirst(c, required, n, more)
  \/ \E c \in Cell : RequestQueued(c) \/ RequestProcessed(c) \/ ResponseLength(c) \/ Response(c)
  \/ \E c \in Cell, st \in {"success", "cancel", "error"} : Status(c, st)
  \/ ThreadNext
  \/ StopThread

\* The thread and the application go on, and CCFSM asks again where it was
\* answered busy.
Fairness ==
  /\ WF_vars(ThreadNext)
  /\ \A c \in Cell : WF_vars(RequestQueued(c) \/ RequestProcessed(c))

Spec == Init /\ [][Next]_vars /\ Fairness

----------------------------------------------------------------------------
(* Properties. *)

\* When the thread looks at the slot there is a session, and it was queued for
\* this call: the thread's two assertions hold, with any number of sessions and
\* no lock, until a context is freed under it (ccapi_sm_handler.c:46-48).
SlotIsQueued ==
  ~dangling /\ At("check") /\ thread.status # "request_stop" => CommandQueued

\* The application is called once for a session, with all the packets of its
\* command, and the command stays while it is called (ccapi_sm_handler.c:52, :160).
CommandIsWhole ==
  ~dangling /\ At("callback") =>
    /\ context[thread.held].status = "queued" /\ context[thread.held].buffer = "held"
    /\ context[thread.held].command = past[thread.held].given
    /\ past[thread.held].calls = 1

\* A session and the thread agree on whose turn it is.
SessionHolds == TypeOK /\ SlotIsQueued /\ CommandIsWhole

\* A session that went its way has sent all of its output once, the null
\* included, and as many bytes as were announced; a message of CCAPI's own is
\* announced as nothing (ccapi_sm_handler.c:286-304, :367).
OutputIsWhole ==
  \A c \in Cell :
    ~dangling /\ phase[c] = "status" /\ context[c].required =>
      /\ past[c].sent = (CASE context[c].output.of = "user" -> Length(context[c].output)
                           [] context[c].output.of = "ccapi" -> ErrorSize
                           [] OTHER -> 0)
      /\ past[c].announced # -1 =>
           past[c].announced = IF context[c].internal THEN 0 ELSE past[c].sent

\* What the application allocated for an output comes back to it when the
\* session ends, however it ends, an empty output too
\* (`so he can free allocated response memory', ccapi_sm_handler.c:339).
OutputComesBack == ~dangling => ~lost

\* A session that went its way without an error has freed its command
\* (ccapi_sm_handler.c:205); one that ends before leaves it.
CommandIsFreed ==
  \A c \in Cell :
    ~dangling /\ phase[c] \in {"response", "status"} /\ context[c].error = "none" =>
      context[c].buffer = "freed"

\* The output is sent whole, and all memory goes back to who gave it.
AnswerHolds == OutputIsWhole /\ OutputComesBack /\ CommandIsFreed

\* CCFSM is not answered busy for ever, and who stops the thread does not wait
\* for ever (ccapi_sm_handler.c:181-201).
Progress ==
  /\ \A c \in Cell :
       phase[c] = "request" /\ context[c].status # "idle"
         ~> (phase[c] # "request" \/ dangling \/ ~ccfsm)
  /\ ~ccfsm ~> thread.status = "not_started"
=============================================================================
