----------------------------- MODULE Lifecycle -----------------------------
(***************************************************************************)
(* Starting and stopping CCAPI: ccapi_init.c, the connector thread of      *)
(* ccapi.c, and the users of the logging lock.                             *)
(*                                                                         *)
(* ccapi_start builds an instance part by part and starts its threads;     *)
(* ccapi_stop has CCFSM end, waits for the threads and takes the parts     *)
(* down; when CCFSM gives up, the connector thread does that by itself     *)
(* (ccxapi_asynchronous_stop).  Any other call of the application is one   *)
(* that finds the instance running and asks CCFSM for something.  All of   *)
(* them find the instance in a variable that no lock protects.             *)
(*                                                                         *)
(* The parts are kept as a set: what is copied from the application counts *)
(* as one part, a transport as its info alone (Transport has the rest).    *)
(***************************************************************************)
EXTENDS Naturals, FiniteSets

CONSTANTS App,        \* threads of the application
          Instance,   \* the memory blocks an instance may get
          Service,    \* the services that are configured and have a thread
          Null

ASSUME ServicesHaveThreads == Service \subseteq {"rci", "receive", "cli", "firmware"}
ASSUME NullIsNone == Null \notin Instance
ASSUME FinitelyMany == IsFiniteSet(App) /\ IsFiniteSet(Instance)

Threads == {"connector"} \cup Service
\* Threads are started, and services stopped, in this order.
Order == [connector |-> 0, rci |-> 1, receive |-> 2, cli |-> 3, firmware |-> 4]
FirstOf(S) == CHOOSE t \in S : \A u \in S : Order[t] <= Order[u]

VARIABLES single,     \* ccapi_data_single_instance
          inst,       \* the instances
          logging,    \* logging_lock_users and logging_lock
          call,       \* the calls of the application
          past,       \* history: what happened that the code cannot deal with
          wrong       \* history: memory was used that is not there (the run ends)

vars == <<single, inst, logging, call, past, wrong>>

Parts == {"config", "targets", "receive_lock", "handle", "cond", "action_lock", "fs_lock"}
Status == {"none", "starting", "running", "stopping", "stopped"}

\* An instance just allocated; cond is not set before it is made.
Fresh == [mem |-> "live", has |-> {}, cond |-> "unset", info |-> {}, set |-> {}, lock |-> {},
          st |-> [t \in Threads |-> "none"], alive |-> {}, fsm |-> "off", tinfo |-> "null",
          loop |-> "run", left |-> {}, end |-> "no"]
Unused == [Fresh EXCEPT !.mem = "free"]

NoCall == [pc |-> "idle", i |-> Null, left |-> {}, res |-> "none"]

Instances == [mem : {"free", "live", "gone"}, has : SUBSET Parts,
              cond : {"unset", "null", "made"},
              info : SUBSET Threads,   \* thread infos allocated,
              set : SUBSET Threads,    \* and those that are pointed at
              lock : SUBSET Threads,   \* locks of the threads
              st : [Threads -> Status], alive : SUBSET Threads,
              fsm : {"off", "run", "terminate", "ended"},
              tinfo : {"null", "there", "freed"},
              loop : {"run", "request", "await", "free"},
              left : SUBSET Threads,
              end : {"no", "failed", "stopped", "aborted"}]

Calls == [pc : {"idle", "log", "alloc", "config", "targets", "services", "handle", "cond", "create", "started",
                "locks", "undo", "undolog", "transports", "terminate", "wait",
                "request", "await", "free", "freelog", "act"},
          i : Instance \cup {Null}, left : SUBSET Threads,
          res : {"none", "OK", "ERROR", "ALREADY", "STOPPED", "NOT_STARTED", "DONE"}]

TypeOK ==
  /\ single \in Instance \cup {Null}
  /\ inst \in [Instance -> Instances]
  /\ logging \in [users : 0..(Cardinality(Instance) + Cardinality(App)), lock : BOOLEAN]
  /\ call \in [App -> Calls]
  /\ past \subseteq {"overlap", "abort", "late_failure", "refused"}
  /\ wrong \in {"no", "freed", "null", "cond", "strings", "rci_data", "twice"}

Init ==
  /\ single = Null
  /\ inst = [i \in Instance |-> Unused]
  /\ logging = [users |-> 0, lock |-> FALSE]
  /\ call = [a \in App |-> NoCall]
  /\ past = {} /\ wrong = "no"

----------------------------------------------------------------------------
(* Calls, and the instance they work on. *)

At(a, pc) == wrong = "no" /\ call[a].pc = pc
Live(i) == inst[i].mem = "live"
\* Call a, at pc, on an instance that is there.
On(a, pc) == At(a, pc) /\ Live(call[a].i)
Mine(a) == inst[call[a].i]

Goto(a, pc) == call' = [call EXCEPT ![a].pc = pc]
Return(a, res) == call' = [call EXCEPT ![a] = [NoCall EXCEPT !.res = res]]

\* A call begins beside another one.
Begins(a) ==
  /\ wrong = "no" /\ call[a].pc = "idle"
  /\ past' = IF \E b \in App \ {a} : call[b].pc # "idle" THEN past \cup {"overlap"} ELSE past

\* CCAPI_RUNNING(ccapi_data_single_instance): the connector thread's info is
\* read through an instance that may not have it, or not be there, any more.
RunningReadsNull == single # Null /\ Live(single) /\ "connector" \notin inst[single].set
RunningReadsFreed == single # Null /\ ~Live(single)
Running == single # Null /\ Live(single) /\ inst[single].st["connector"] = "running"

----------------------------------------------------------------------------
(* ccapi_start. *)

\* The logging lock gets another user; the first one has to make it.
StartLogging(a) ==
  /\ Begins(a)
  /\ logging' = [logging EXCEPT !.users = @ + 1]
  /\ call' = [call EXCEPT ![a] = [NoCall EXCEPT !.pc = IF logging.users = 0 THEN "log" ELSE "alloc"]]
  /\ UNCHANGED <<single, inst, wrong>>

StartLogLock(a) ==
  /\ At(a, "log")
  /\ \/ logging' = [logging EXCEPT !.lock = TRUE] /\ Goto(a, "alloc")
     \/ Goto(a, "undolog") /\ UNCHANGED logging
  /\ UNCHANGED <<single, inst, past, wrong>>

\* Memory nobody points to can be had again.
Unreferenced(i) ==
  /\ inst[i].mem # "live" /\ inst[i].alive = {} /\ single # i
  /\ \A a \in App : call[a].i # i

\* ALREADY_STARTED, or the instance is allocated and published.
StartAlloc(a) ==
  /\ At(a, "alloc")
  /\ \/ /\ single # Null
        /\ Goto(a, "undolog") /\ UNCHANGED <<single, inst>>
     \/ /\ single = Null
        /\ Goto(a, "undolog") /\ UNCHANGED <<single, inst>>
     \/ \E i \in Instance :
          /\ single = Null /\ Unreferenced(i)
          /\ inst' = [inst EXCEPT ![i] = Fresh]
          /\ single' = i
          /\ call' = [call EXCEPT ![a].pc = "config", ![a].i = i]
  /\ UNCHANGED <<logging, past, wrong>>

\* Call a fails and takes down what it has built; it says so if threads are
\* running by then.
Fail(a) ==
  /\ Goto(a, "undo")
  /\ past' = IF Mine(a).alive # {} THEN past \cup {"late_failure"} ELSE past

Build(a, part) == inst' = [inst EXCEPT ![call[a].i].has = @ \cup {part}]

\* The parameters are checked, and the strings copied.
StartConfig(a) ==
  /\ On(a, "config")
  /\ \/ Build(a, "config") /\ Goto(a, "targets") /\ UNCHANGED past
     \/ Fail(a) /\ inst' \in {inst, [inst EXCEPT ![call[a].i].has = @ \cup {"config"}]}
  /\ UNCHANGED <<single, logging, wrong>>

\* The firmware targets, or those the stub for RCI has.  The table is copied
\* before the strings it points to: when there is no memory for those, they
\* are still the application's, and freed.  The stub reads the version in the
\* RCI data before it is checked that there is any.
StartTargets(a) ==
  /\ On(a, "targets")
  /\ \/ /\ IF Service \cap {"firmware", "rci"} = {} THEN UNCHANGED inst ELSE Build(a, "targets")
        /\ Goto(a, "services")
        /\ UNCHANGED <<past, wrong>>
     \/ /\ Service \cap {"firmware", "rci"} # {}
        /\ Fail(a)
        /\ wrong' \in {"no", IF "firmware" \in Service THEN "strings" ELSE "rci_data"}
        /\ UNCHANGED inst
  /\ UNCHANGED <<single, logging>>

\* The lock of the receive service, and the callbacks of each service: those of
\* a later one may be refused when the lock is there.
StartServices(a) ==
  /\ On(a, "services")
  /\ \/ /\ IF "receive" \in Service THEN Build(a, "receive_lock") ELSE UNCHANGED inst
        /\ Goto(a, "handle")
        /\ UNCHANGED past
     \/ /\ Fail(a)
        /\ inst' \in {inst} \cup
             {[inst EXCEPT ![call[a].i].has = @ \cup {"receive_lock"}] : s \in Service \cap {"receive"}}
  /\ UNCHANGED <<single, logging, wrong>>

\* connector_init
StartHandle(a) ==
  /\ On(a, "handle")
  /\ \/ /\ inst' = [inst EXCEPT ![call[a].i].has = @ \cup {"handle"}, ![call[a].i].fsm = "run"]
        /\ Goto(a, "cond")
        /\ UNCHANGED past
     \/ Fail(a) /\ UNCHANGED inst
  /\ UNCHANGED <<single, logging, wrong>>

\* The condition, which is freed with the instance even if its
\* initialisation fails; then the transports are reset.
StartCond(a) ==
  /\ On(a, "cond")
  /\ \/ /\ inst' = [inst EXCEPT ![call[a].i].has = @ \cup {"cond"}, ![call[a].i].cond = "made"]
        /\ call' = [call EXCEPT ![a].pc = "create", ![a].left = Threads]
        /\ UNCHANGED past
     \/ /\ \E c \in {"null", "made"} : inst' = [inst EXCEPT ![call[a].i].cond = c]
        /\ Fail(a)
  /\ UNCHANGED <<single, logging, wrong>>

\* ccapi_create_and_start_thread: no memory; no lock, and the info is
\* forgotten; no thread; or the thread is there.
CreateThread(a) ==
  LET i == call[a].i  t == FirstOf(call[a].left)
  IN  /\ On(a, "create")
      /\ \/ Fail(a) /\ UNCHANGED inst
         \/ /\ Fail(a)
            /\ inst' = [inst EXCEPT ![i].info = @ \cup {t}]
         \/ /\ Fail(a)
            /\ inst' = [inst EXCEPT ![i].info = @ \cup {t}, ![i].set = @ \cup {t},
                                    ![i].lock = @ \cup {t}, ![i].st[t] = "starting"]
         \/ /\ inst' = [inst EXCEPT ![i].info = @ \cup {t}, ![i].set = @ \cup {t},
                                    ![i].lock = @ \cup {t}, ![i].st[t] = "starting",
                                    ![i].alive = @ \cup {t}]
            /\ Goto(a, "started")
            /\ UNCHANGED past
      /\ UNCHANGED <<single, logging, wrong>>

\* The loop until the thread is running.
ThreadStarted(a) ==
  LET t == FirstOf(call[a].left)
  IN  /\ On(a, "started") /\ Mine(a).st[t] # "starting"
      /\ call' = [call EXCEPT ![a].left = @ \ {t},
                              ![a].pc = IF call[a].left = {t} THEN "locks" ELSE "create"]
      /\ UNCHANGED <<single, inst, logging, past, wrong>>

\* The two locks come last, when the threads are running.
StartLocks(a) ==
  /\ On(a, "locks")
  /\ \/ /\ "action_lock" \notin Mine(a).has
        /\ Build(a, "action_lock") /\ UNCHANGED <<call, past>>
     \/ /\ "action_lock" \in Mine(a).has
        /\ Build(a, "fs_lock") /\ Return(a, "OK") /\ UNCHANGED past
     \/ Fail(a) /\ UNCHANGED inst
  /\ UNCHANGED <<single, logging, wrong>>

\* free_ccapi_data_internal_resources: what of i is left when it is freed.
\* CCFSM's handle is CCFSM's, and the locks of the threads are not looked at.
Freed(i, end) ==
  [inst[i] EXCEPT !.mem = "gone", !.has = @ \cap {"handle"}, !.info = @ \ inst[i].set,
                  !.set = {}, !.end = end]

\* A start that failed frees the instance whatever threads it has; the
\* condition may never have been set.
StartUndo(a) ==
  /\ On(a, "undo")
  /\ inst' = [inst EXCEPT ![call[a].i] = Freed(call[a].i, "failed")]
  /\ Goto(a, "undolog")
  /\ wrong' \in IF Mine(a).cond = "unset" THEN {"no", "cond"} ELSE {"no"}
  /\ UNCHANGED <<single, logging, past>>

\* free_logging_resources
FreeLogging ==
  logging' = IF logging.users = 1 THEN [users |-> 0, lock |-> FALSE]
             ELSE [logging EXCEPT !.users = @ - 1]

\* Every error of ccapi_start, ALREADY_STARTED too, forgets the instance.
StartFailed(a) ==
  /\ At(a, "undolog")
  /\ FreeLogging
  /\ single' = Null
  /\ Return(a, IF call[a].i = Null /\ single # Null THEN "ALREADY" ELSE "ERROR")
  /\ UNCHANGED <<inst, past, wrong>>

----------------------------------------------------------------------------
(* Stopping a thread. *)

\* Mutant: the thread is waited for and not told.
RequestNothing(i, t) == inst[i]

\* ccapi_stop_thread up to its loop.
Request(i, t) ==
  [inst[i] EXCEPT !.st[t] = IF @ = "running" THEN "stopping" ELSE @]

\* Mutant: the lock of a thread is left behind.
ThreadEndedKeepsLock(i, t) == inst[i]

\* ccapi_stop_thread after its loop.
ThreadEnded(i, t) == [inst[i] EXCEPT !.lock = @ \ {t}]

----------------------------------------------------------------------------
(* ccapi_stop. *)

\* NOT_STARTED, or the instance is running.
StopBegin(a) ==
  /\ Begins(a) /\ ~RunningReadsNull /\ ~RunningReadsFreed
  /\ IF Running
     THEN call' = [call EXCEPT ![a] = [NoCall EXCEPT !.pc = "transports", !.i = single]]
     ELSE Return(a, "NOT_STARTED")
  /\ UNCHANGED <<single, inst, logging, wrong>>

\* A transport that is up is stopped, which forgets its info; one that is not
\* has its info freed, but not forgotten.
StopTransports(a) ==
  LET i == call[a].i
  IN  /\ On(a, "transports")
      /\ \/ inst' = [inst EXCEPT ![i].tinfo = "null"] /\ inst[i].tinfo # "freed" /\ UNCHANGED wrong
         \/ inst' = [inst EXCEPT ![i].tinfo = "freed"] /\ inst[i].tinfo = "there" /\ UNCHANGED wrong
         \/ wrong' = "twice" /\ inst[i].tinfo = "freed" /\ UNCHANGED inst
      /\ Goto(a, "terminate")
      /\ UNCHANGED <<single, logging, past>>

\* connector_initiate_terminate, repeated while CCFSM is busy; when CCFSM
\* refuses it the stop answers NOT_STARTED.
StopTerminate(a) ==
  LET i == call[a].i
  IN  /\ On(a, "terminate") /\ "action_lock" \in inst[i].has
      /\ \/ inst' = [inst EXCEPT ![i].fsm = IF @ = "run" THEN "terminate" ELSE @]
            /\ Goto(a, "wait") /\ UNCHANGED past
         \/ Return(a, "NOT_STARTED") /\ past' = past \cup {"refused"} /\ UNCHANGED inst
      /\ UNCHANGED <<single, logging, wrong>>

\* Mutant: the connector thread is neither waited for nor stopped.
StopWaitedForServices(a) ==
  /\ On(a, "wait")
  /\ call' = [call EXCEPT ![a].pc = "request", ![a].left = Service]
  /\ UNCHANGED <<single, inst, logging, past, wrong>>

\* The loop on the connector thread.
StopWaited(a) ==
  /\ On(a, "wait") /\ Mine(a).st["connector"] = "stopped"
  /\ call' = [call EXCEPT ![a].pc = "request", ![a].left = Threads]
  /\ UNCHANGED <<single, inst, logging, past, wrong>>

StopRequest(a) ==
  LET i == call[a].i  t == FirstOf(call[a].left)
  IN  /\ On(a, "request")
      /\ inst' = [inst EXCEPT ![i] = Request(i, t)]
      /\ Goto(a, "await")
      /\ UNCHANGED <<single, logging, past, wrong>>

StopAwait(a) ==
  LET i == call[a].i  t == FirstOf(call[a].left)
  IN  /\ On(a, "await") /\ inst[i].st[t] = "stopped"
      /\ inst' = [inst EXCEPT ![i] = ThreadEnded(i, t)]
      /\ call' = [call EXCEPT ![a].left = @ \ {t},
                              ![a].pc = IF call[a].left = {t} THEN "free" ELSE "request"]
      /\ UNCHANGED <<single, logging, past, wrong>>

StopFree(a) ==
  /\ On(a, "free")
  /\ inst' = [inst EXCEPT ![call[a].i] = Freed(call[a].i, "stopped")]
  /\ Goto(a, "freelog")
  /\ UNCHANGED <<single, logging, past, wrong>>

StopDone(a) ==
  /\ At(a, "freelog")
  /\ FreeLogging
  /\ single' = Null
  /\ Return(a, "STOPPED")
  /\ UNCHANGED <<inst, past, wrong>>

----------------------------------------------------------------------------
(* Any other call, and the threads. *)

\* A call that finds the instance running, and then asks CCFSM
\* (connector_initiate_action_secure).  The start of a transport frees the info
\* that is there, and leaves its own or none; its stop leaves none.
UseBegin(a) ==
  /\ Begins(a) /\ ~RunningReadsNull /\ ~RunningReadsFreed
  /\ Running
  /\ call' = [call EXCEPT ![a] = [NoCall EXCEPT !.pc = "act", !.i = single]]
  /\ UNCHANGED <<single, inst, logging, wrong>>

UseAct(a) ==
  LET i == call[a].i
  IN  /\ On(a, "act") /\ "action_lock" \in inst[i].has
      /\ \/ UNCHANGED <<inst, wrong>>
         \/ /\ inst[i].tinfo # "freed"
            /\ \E after \in {"there", "null"} : inst' = [inst EXCEPT ![i].tinfo = after]
            /\ UNCHANGED wrong
         \/ wrong' = "twice" /\ inst[i].tinfo = "freed" /\ UNCHANGED inst
      /\ Return(a, "DONE")
      /\ UNCHANGED <<single, logging, past>>

\* A thread of the instance that looks at its status.
Alive(i, t) == wrong = "no" /\ Live(i) /\ t \in inst[i].alive

ThreadRuns(i, t) ==
  /\ Alive(i, t) /\ inst[i].st[t] = "starting"
  /\ inst' = [inst EXCEPT ![i].st[t] = "running"]
  /\ UNCHANGED <<single, logging, call, past, wrong>>

\* A service's thread ends when it is told to.
ServiceEnds(i, t) ==
  /\ Alive(i, t) /\ t # "connector" /\ inst[i].st[t] = "stopping"
  /\ inst' = [inst EXCEPT ![i].st[t] = "stopped", ![i].alive = @ \ {t}]
  /\ UNCHANGED <<single, logging, call, past, wrong>>

\* connector_run says that CCFSM is terminated.
ConnectorTerminated(i) ==
  /\ Alive(i, "connector") /\ inst[i].st["connector"] = "running" /\ inst[i].loop = "run"
  /\ inst[i].fsm = "terminate"
  /\ inst' = [inst EXCEPT ![i].st["connector"] = "stopping", ![i].fsm = "ended",
                          ![i].has = @ \ {"handle"}]
  /\ UNCHANGED <<single, logging, call, past, wrong>>

ConnectorEnds(i) ==
  /\ Alive(i, "connector") /\ inst[i].st["connector"] = "stopping" /\ inst[i].loop = "run"
  /\ inst' = [inst EXCEPT ![i].st["connector"] = "stopped", ![i].alive = @ \ {"connector"}]
  /\ UNCHANGED <<single, logging, call, past, wrong>>

\* connector_run says abort: ccxapi_asynchronous_stop begins, and frees the
\* transport's info, but does not forget it.
Abort(i) ==
  /\ Alive(i, "connector") /\ inst[i].st["connector"] = "running" /\ inst[i].loop = "run"
  /\ inst' = [inst EXCEPT ![i].loop = IF Service = {} THEN "free" ELSE "request",
                          ![i].left = Service, ![i].fsm = "ended", ![i].has = @ \ {"handle"},
                          ![i].tinfo = IF @ = "null" THEN "null" ELSE "freed"]
  /\ past' = past \cup {"abort"} \cup (IF \E a \in App : call[a].pc # "idle" THEN {"overlap"} ELSE {})
  /\ wrong' = IF inst[i].tinfo = "freed" THEN "twice" ELSE "no"
  /\ UNCHANGED <<single, logging, call>>

\* A service that has no thread yet is passed over.
AbortRequest(i) ==
  LET t == FirstOf(inst[i].left)
      passed == [inst[i] EXCEPT !.left = @ \ {t}, !.loop = IF inst[i].left = {t} THEN "free" ELSE "request"]
  IN  /\ Alive(i, "connector") /\ inst[i].loop = "request"
      /\ inst' = [inst EXCEPT ![i] = IF t \in inst[i].set THEN [Request(i, t) EXCEPT !.loop = "await"] ELSE passed]
      /\ UNCHANGED <<single, logging, call, past, wrong>>

AbortAwait(i) ==
  LET t == FirstOf(inst[i].left)
  IN  /\ Alive(i, "connector") /\ inst[i].loop = "await" /\ inst[i].st[t] = "stopped"
      /\ inst' = [inst EXCEPT ![i] = [ThreadEnded(i, t) EXCEPT
                    !.left = @ \ {t}, !.loop = IF inst[i].left = {t} THEN "free" ELSE "request"]]
      /\ UNCHANGED <<single, logging, call, past, wrong>>

\* The instance is freed under whatever call is using it.
AbortFree(i) ==
  /\ Alive(i, "connector") /\ inst[i].loop = "free"
  /\ inst' = [inst EXCEPT ![i] = [Freed(i, "aborted") EXCEPT !.alive = @ \ {"connector"}]]
  /\ FreeLogging
  /\ UNCHANGED <<single, call, past, wrong>>

----------------------------------------------------------------------------
(* Memory that is not there. *)

\* CCAPI_RUNNING looks at an instance that was freed, or at one whose
\* connector thread has no info yet.
BeginsWrong(a) ==
  /\ Begins(a)
  /\ \/ RunningReadsFreed /\ wrong' = "freed"
     \/ RunningReadsNull /\ wrong' = "null"
  /\ UNCHANGED <<single, inst, logging, call>>

\* A call goes on with an instance that was freed, or takes a lock that was
\* not made.
GoesWrong(a) ==
  /\ wrong = "no" /\ call[a].i # Null
  /\ \/ ~Live(call[a].i) /\ call[a].pc \notin {"undolog", "freelog"} /\ wrong' = "freed"
     \/ Live(call[a].i) /\ call[a].pc \in {"terminate", "act"} /\ "action_lock" \notin Mine(a).has
        /\ wrong' = "null"
  /\ UNCHANGED <<single, inst, logging, call, past>>

\* So does a thread.
ThreadGoesWrong(i) ==
  /\ wrong = "no" /\ ~Live(i) /\ inst[i].alive # {}
  /\ wrong' = "freed"
  /\ UNCHANGED <<single, inst, logging, call, past>>

Halted == wrong # "no" /\ UNCHANGED vars

StartStep(a) ==
  \/ StartLogLock(a) \/ StartAlloc(a) \/ StartConfig(a) \/ StartTargets(a) \/ StartServices(a)
  \/ StartHandle(a) \/ StartCond(a) \/ CreateThread(a) \/ ThreadStarted(a) \/ StartLocks(a) \/ StartUndo(a) \/ StartFailed(a)
StopStep(a) ==
  \/ StopTransports(a) \/ StopTerminate(a) \/ StopWaited(a) \/ StopRequest(a) \/ StopAwait(a)
  \/ StopFree(a) \/ StopDone(a)
ConnectorStep(i) ==
  \/ ConnectorTerminated(i) \/ ConnectorEnds(i)
  \/ AbortRequest(i) \/ AbortAwait(i) \/ AbortFree(i)
ThreadStep(i) ==
  \/ \E t \in Threads : ThreadRuns(i, t) \/ ServiceEnds(i, t)
  \/ ConnectorStep(i)

Next ==
  \/ \E a \in App : StartLogging(a) \/ StopBegin(a) \/ UseBegin(a)
                      \/ StartStep(a) \/ StopStep(a) \/ UseAct(a)
  \/ \E a \in App : BeginsWrong(a) \/ GoesWrong(a)
  \/ \E i \in Instance : ThreadStep(i) \/ Abort(i) \/ ThreadGoesWrong(i)
  \/ Halted

\* Calls and threads go on; CCFSM ends when it was asked to.
Fairness ==
  /\ \A a \in App : WF_vars(StartStep(a)) /\ WF_vars(StopStep(a)) /\ WF_vars(UseAct(a))
  /\ \A i \in Instance : WF_vars(ConnectorStep(i))
       /\ \A t \in Threads : WF_vars(ThreadRuns(i, t)) /\ WF_vars(ServiceEnds(i, t))

Spec == Init /\ [][Next]_vars /\ Fairness

----------------------------------------------------------------------------
(* Properties. *)

\* The connector thread is taking the instance down.
TakenDown(i) == Live(i) /\ inst[i].loop # "run"

\* What a freed instance leaves behind.  A stop leaves nothing: no part, no
\* thread, no lock, no info.  An abort leaves the lock of the connector thread,
\* which nobody destroys (ccapi_init.c:796).  A start that failed leaves CCFSM's
\* handle, and of the thread it could not make the info or the lock (:285, :299);
\* it also leaves whatever threads it had started.
Leftovers ==
  \A i \in Instance :
    /\ inst[i].end = "stopped" /\ "overlap" \notin past =>
         inst[i].has = {} /\ inst[i].alive = {} /\ inst[i].lock = {} /\ inst[i].info = {}
    /\ inst[i].end = "aborted" /\ past = {"abort"} =>
         inst[i].has = {} /\ inst[i].alive = {} /\ inst[i].lock = {"connector"} /\ inst[i].info = {}
    /\ inst[i].end = "failed" /\ past = {} =>
         inst[i].has \subseteq {"handle"} /\ Cardinality(inst[i].lock \cup inst[i].info) <= 1

\* Between calls the logging lock is there exactly while somebody uses it, and
\* has one user for each instance: also after a start that failed anywhere,
\* one that found CCAPI started, and a stop by the connector thread
\* (ccapi_init.c:237, :354).
LoggingCounted ==
  (\A a \in App : call[a].pc = "idle") /\ "overlap" \notin past =>
    /\ logging.users = Cardinality({i \in Instance : Live(i)})
    /\ logging.lock <=> logging.users > 0

\* While the connector thread calls back, no service has been told to stop
\* (unless it is the connector thread that tells them): a callback finds the
\* thread it hands its work to (ccapi_init.c:983).
CallbackFindsThread ==
  \A i \in Instance :
    Live(i) /\ inst[i].st["connector"] \in {"running", "stopping"} /\ inst[i].loop = "run" =>
      \A t \in Service : inst[i].st[t] \notin {"stopping", "stopped"}

\* Calls and threads use freed memory, or take what is not made yet, only when
\* calls overlap, when CCFSM gave up, or after a start that failed with threads
\* running; a transport's info is freed twice only when calls overlap, after
\* CCFSM refused to end, or by a call that comes while the connector thread
\* takes the instance down, having freed the info but not forgotten it
\* (ccapi_init.c:800, :887, ccapi_transport_tcp.c:259).  One thread's starts and
\* stops, in whatever order, are safe.
UseIsSafe ==
  /\ wrong \in {"freed", "null"} => past # {}
  /\ wrong = "twice" => past \cap {"overlap", "refused"} # {} \/ \E i \in Instance : TakenDown(i)

\* Everything an instance obtains is of its type, counted, and given back.
ResourcesHold == TypeOK /\ Leftovers /\ LoggingCounted

\* Whoever uses an instance, or a thread of it, finds it.
UseFindsInstance == CallbackFindsThread /\ UseIsSafe

\* A call that starts or stops CCAPI returns, unless CCFSM gave up meanwhile,
\* calls overlap or memory was lost: the threads end in the order in which they
\* are waited for (ccapi_init.c:302, :325, :983).
CallsReturn ==
  \A a \in App : call[a].pc # "idle" ~> (call[a].pc = "idle" \/ past # {} \/ wrong # "no")

\* When CCFSM gives up between two calls, the connector thread takes the
\* instance down; beside a start it may wait for a thread that it has not told
\* to stop, because that was only starting (ccapi_init.c:316).
AbortEnds ==
  \A i \in Instance : inst[i].loop # "run" ~> (~Live(i) \/ "overlap" \in past \/ wrong # "no")

\* Nobody who starts or stops CCAPI waits for ever.
Progress == CallsReturn /\ AbortEnds
=============================================================================
