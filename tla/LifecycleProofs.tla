--------------------------- MODULE LifecycleProofs ---------------------------
(***************************************************************************)
(* Proofs about Lifecycle, for every number of application threads, every  *)
(* set of services and memory for any number of instances; and, after      *)
(* those, about Transport, for every choice of transports.                 *)
(*                                                                         *)
(* The invariant of Lifecycle has two halves.  Some parts hold whatever    *)
(* happens: an instance is started by one call, and no thread of it was    *)
(* made that the start has left; its connector thread ends by itself or    *)
(* takes it down, and only then are services told to end; the logging lock *)
(* has one user for each instance and for each call on its way to one.     *)
(* The others hold while calls do not overlap (the names with Solo), or    *)
(* until something happened that the code cannot deal with (FoundOK,       *)
(* InfoGoneOK): what a start has built and a stop taken down at each step, *)
(* which is what makes the parts that are freed those that were made.      *)
(***************************************************************************)
EXTENDS Lifecycle, Transport, FiniteSetTheorems, TLAPS

StartPcs == {"config", "targets", "services", "handle", "cond", "create", "started", "locks", "undo"}
StopPcs == {"transports", "terminate", "wait", "request", "await", "free"}

\* Call a is starting instance i.
Starts(a, i) == call[a].pc \in StartPcs /\ call[a].i = i

\* Which calls have an instance, and threads left to deal with.
CallOK ==
  \A a \in App :
    /\ call[a].pc \in {"idle", "log", "alloc"} => call[a].i = Null
    /\ call[a].pc \in StartPcs \cup StopPcs \cup {"act"} => call[a].i \in Instance
    /\ call[a].pc \in {"create", "started", "request", "await"} => call[a].left # {}

\* An instance is started by one call.
OneStarter == \A a, b \in App, i \in Instance : Starts(a, i) /\ Starts(b, i) => a = b

\* No thread was made yet of those the start has left.
NoneYet(r, t) ==
  t \notin r.info /\ t \notin r.set /\ t \notin r.lock /\ t \notin r.alive /\ r.st[t] = "none"
LeftToStart(c) ==
  CASE c.pc \in {"config", "targets", "services", "handle", "cond"} -> Threads
    [] c.pc = "create" -> c.left
    [] c.pc = "started" -> c.left \ {FirstOf(c.left)}
    [] OTHER -> {}
StartOK ==
  \A a \in App :
    call[a].pc \in StartPcs /\ Live(call[a].i) =>
      \A t \in LeftToStart(call[a]) : NoneYet(inst[call[a].i], t)

\* How the connector thread ends: by itself, with CCFSM, or in the stop it does.
ConnectorFits(r) ==
  /\ r.end = "no"
  /\ r.st["connector"] \in {"stopping", "stopped"} => r.loop = "run" /\ r.fsm = "ended"
  /\ r.loop # "run" => r.st["connector"] = "running" /\ r.fsm = "ended"
  /\ r.fsm = "ended" => "handle" \notin r.has /\ r.st["connector"] # "none"
  /\ \A t \in r.alive : r.st[t] \in {"starting", "running", "stopping"}
  /\ r.loop \in {"request", "await"} => r.left # {} /\ r.left \subseteq Service
ConnectorOK ==
  \A i \in Instance : Live(i) => ConnectorFits(inst[i]) /\ (inst[i].loop # "run" => "abort" \in past)

\* A stop tells the threads to end when the connector thread has ended.
StopOK ==
  \A a \in App :
    call[a].pc \in {"request", "await", "free"} /\ Live(call[a].i) =>
      inst[call[a].i].st["connector"] = "stopped"

\* Services are told to stop when the connector thread has ended, or by it.
Told(r) == \E t \in Service : r.st[t] \in {"stopping", "stopped"}
ToldOK ==
  \A i \in Instance : Live(i) /\ Told(inst[i]) => inst[i].st["connector"] = "stopped" \/ inst[i].loop # "run"

\* The users of the logging lock: the instances, and the calls that are on their
\* way to one or have just lost it.
Users == {a \in App : call[a].pc \in {"log", "alloc", "undolog", "freelog"}}
LiveInstances == {i \in Instance : Live(i)}
UsersOK == logging.users = Cardinality(LiveInstances) + Cardinality(Users)

\* Without overlap: one call at a time.
Solo == "overlap" \notin past
SoloOK == Solo => \A a, b \in App : call[a].pc # "idle" /\ call[b].pc # "idle" => a = b

\* The lock is there while it is used, but for the call that has to make it.
LockOK ==
  Solo =>
    /\ logging.lock => logging.users > 0
    /\ ~logging.lock /\ logging.users > 0 =>
         logging.users = 1 /\ \E a \in App : call[a].pc \in {"log", "undolog"}
    /\ (\E a \in App : call[a].pc = "log") => ~logging.lock

\* A start has the instance to itself.
Building(c, r) ==
  /\ r.mem = "live" /\ r.loop = "run" /\ r.fsm \in {"off", "run"}
  /\ \A t \in r.alive : r.st[t] \in {"starting", "running"}
  /\ c.pc # "undo" =>
       /\ r.info = Threads \ LeftToStart(c)
       /\ r.set = r.info /\ r.lock = r.info /\ r.alive = r.info
OneLeft(r) == \E t \in Threads : r.lock \cup r.info \subseteq {t}
SoloStart ==
  Solo =>
    \A a \in App :
      /\ call[a].pc \in StartPcs => Building(call[a], inst[call[a].i])
      /\ call[a].pc = "undo" /\ past = {} => inst[call[a].i].alive = {} /\ OneLeft(inst[call[a].i])

\* An instance that was started is complete, until threads are taken down.
Complete(r) == r.info = Threads /\ r.set = Threads /\ "action_lock" \in r.has
Ending(a, i) == call[a].pc \in {"request", "await", "free"} /\ call[a].i = i
SoloStarted ==
  Solo =>
    \A i \in Instance :
      Live(i) /\ (\A a \in App : ~Starts(a, i)) =>
        /\ Complete(inst[i])
        /\ (\A a \in App : ~Ending(a, i)) /\ inst[i].loop = "run" => inst[i].lock = Threads

\* What a stop has taken down, and what the stop by the connector thread has.
StopTook(c, r) ==
  LET left == IF c.pc = "free" THEN {} ELSE c.left
  IN  r.lock = left /\ \A t \in Threads \ left : r.st[t] = "stopped"
SoloStop ==
  Solo =>
    \A a \in App :
      call[a].pc \in {"request", "await", "free"} /\ Live(call[a].i) =>
        StopTook(call[a], inst[call[a].i])

AbortTook(r) ==
  LET left == IF r.loop = "free" THEN {} ELSE r.left
  IN  r.lock = {"connector"} \cup left /\ \A t \in Service \ left : r.st[t] = "stopped"
SoloAbort ==
  Solo => \A i \in Instance : Live(i) /\ inst[i].loop # "run" => AbortTook(inst[i])

\* The instance calls find is there, and no thread outlives its instance.
FoundOK ==
  past = {} =>
    /\ single = Null \/ Live(single) \/ \E a \in App : call[a].pc \in {"undolog", "freelog"}
    /\ \A a \in App : call[a].pc \in StartPcs \cup StopPcs \cup {"act"} => Live(call[a].i)
    /\ \A i \in Instance : ~Live(i) => inst[i].alive = {}

\* The info of a transport is gone only in a stop, of the application or the
\* connector thread.
InfoGoneOK ==
  past \cap {"overlap", "refused"} = {} =>
    \A i \in Instance : Live(i) /\ inst[i].tinfo = "freed" =>
      \/ inst[i].loop # "run"
      \/ \E a \in App : call[a].pc \in {"terminate", "wait", "request", "await", "free"} /\ call[a].i = i

\* What a freed instance leaves behind, as Leftovers says, for every past that
\* may yet become the one it names.
NothingLeft(r) == r.has = {} /\ r.alive = {} /\ r.info = {}
LeftOK ==
  \A i \in Instance :
    /\ inst[i].end = "stopped" /\ Solo => NothingLeft(inst[i]) /\ inst[i].lock = {}
    /\ inst[i].end = "aborted" /\ past \subseteq {"abort"} => NothingLeft(inst[i]) /\ inst[i].lock = {"connector"}
    /\ inst[i].end = "failed" /\ past = {} => inst[i].has \subseteq {"handle"} /\ OneLeft(inst[i])

Inv ==
  /\ TypeOK /\ CallOK /\ OneStarter /\ StartOK /\ ConnectorOK /\ StopOK /\ ToldOK
  /\ UsersOK /\ SoloOK /\ LockOK /\ SoloStart /\ SoloStarted /\ SoloStop /\ SoloAbort
  /\ FoundOK /\ InfoGoneOK /\ LeftOK /\ UseIsSafe

----------------------------------------------------------------------------

\* The connector thread is no service.
LEMMA ServiceNames == Service \subseteq {"rci", "receive", "cli", "firmware"} /\ "connector" \notin Service
  BY ServicesHaveThreads

\* The first of some threads is one of them; it is the connector thread if that is.
LEMMA FirstIs ==
  ASSUME NEW S \in SUBSET Threads, S # {}
  PROVE  FirstOf(S) \in S /\ ("connector" \in S => FirstOf(S) = "connector")
<1>1. S \subseteq {"connector", "rci", "receive", "cli", "firmware"}
  BY ServiceNames DEF Threads
<1>2. /\ Order["connector"] = 0 /\ Order["rci"] = 1 /\ Order["receive"] = 2 /\ Order["cli"] = 3
      /\ Order["firmware"] = 4
  BY DEF Order
<1>3. \E t \in S : \A u \in S : Order[t] <= Order[u]
  <2>1. CASE "connector" \in S
    BY <1>1, <1>2, <2>1
  <2>2. CASE "connector" \notin S /\ "rci" \in S
    BY <1>1, <1>2, <2>2
  <2>3. CASE "connector" \notin S /\ "rci" \notin S /\ "receive" \in S
    BY <1>1, <1>2, <2>3
  <2>4. CASE S \subseteq {"cli", "firmware"} /\ "cli" \in S
    BY <1>1, <1>2, <2>4
  <2>5. CASE S = {"firmware"}
    BY <1>2, <2>5
  <2>6. S \subseteq {"firmware"} => S = {"firmware"}
    OBVIOUS
  <2> QED
    BY <1>1, <2>1, <2>2, <2>3, <2>4, <2>5, <2>6
<1>4. FirstOf(S) \in S /\ \A u \in S : Order[FirstOf(S)] <= Order[u]
  BY <1>3 DEF FirstOf
<1>5. "connector" \in S => FirstOf(S) = "connector"
  <2>1. \A t \in {"connector", "rci", "receive", "cli", "firmware"} : Order[t] <= 0 => t = "connector"
    BY <1>2
  <2> QED
    BY <1>1, <1>2, <1>4, <2>1
<1> QED
  BY <1>4, <1>5

\* Counting instances and calls.
LEMMA Counted ==
  ASSUME NEW S \in SUBSET Instance, NEW U \in SUBSET App
  PROVE  /\ IsFiniteSet(S) /\ IsFiniteSet(U)
         /\ Cardinality(S) \in Nat /\ Cardinality(U) \in Nat
         /\ Cardinality(S) + Cardinality(U) \in 0..(Cardinality(Instance) + Cardinality(App))
         /\ Cardinality(S) = 0 <=> S = {}
         /\ Cardinality(U) = 0 <=> U = {}
<1>1. /\ IsFiniteSet(S) /\ Cardinality(S) <= Cardinality(Instance)
      /\ IsFiniteSet(U) /\ Cardinality(U) <= Cardinality(App)
  BY FinitelyMany, FS_Subset
<1>2. /\ Cardinality(S) \in Nat /\ Cardinality(U) \in Nat
      /\ Cardinality(Instance) \in Nat /\ Cardinality(App) \in Nat
  BY <1>1, FinitelyMany, FS_CardinalityType
<1>3. (Cardinality(S) = 0 <=> S = {}) /\ (Cardinality(U) = 0 <=> U = {})
  BY <1>1, FS_EmptySet
<1> QED
  BY <1>1, <1>2, <1>3

\* One more, and one less, of a set of instances or of calls.
LEMMA OneMore ==
  ASSUME NEW D, D \in {Instance, App}, NEW S \in SUBSET D, NEW x \in D, x \notin S
  PROVE  Cardinality(S \cup {x}) = Cardinality(S) + 1
  BY Counted, FS_AddElement

LEMMA OneLess ==
  ASSUME NEW D, D \in {Instance, App}, NEW S \in SUBSET D, NEW x \in S
  PROVE  Cardinality(S \ {x}) = Cardinality(S) - 1
  BY Counted, FS_RemoveElement

\* What a step leaves of the invariant when it changes no call, or no instance.
CallsOK == CallOK /\ OneStarter /\ SoloOK
InstancesOK == ConnectorOK /\ ToldOK /\ SoloAbort /\ LeftOK

\* A step that changes no call.
LEMMA CallsKept ==
  ASSUME Inv, UNCHANGED call, past \subseteq past'
  PROVE  CallsOK'
  BY DEF Inv, CallsOK, CallOK, OneStarter, SoloOK, Solo, Starts

\* A step that changes no instance.
LEMMA InstancesKept ==
  ASSUME Inv, UNCHANGED inst, past \subseteq past'
  PROVE  InstancesOK'
<1>1. ConnectorOK'
  BY DEF Inv, ConnectorOK, Live
<1>2. ToldOK'
  BY DEF Inv, ToldOK, Live
<1>3. SoloAbort'
  BY DEF Inv, SoloAbort, Live, Solo
<1>4. LeftOK'
  BY DEF Inv, LeftOK, Solo
<1> QED
  BY <1>1, <1>2, <1>3, <1>4 DEF InstancesOK

\* A step that changes one call, or one instance.
Others(a) == \A b \in App \ {a} : call'[b] = call[b]
Besides(i) == \A j \in Instance \ {i} : inst'[j] = inst[j]

\* The ways a call goes on.
Pcs == {"idle", "log", "alloc", "undolog", "freelog", "act"} \cup StartPcs \cup StopPcs

\* A step that changes call a alone.
LEMMA CallBecomes ==
  ASSUME Inv, NEW a \in App, NEW c \in Calls, call' = [call EXCEPT ![a] = c]
  PROVE  Others(a) /\ call'[a] = c /\ call' \in [App -> Calls]
  BY DEF Others, Inv, TypeOK

\* Call a goes on at pc, with the threads that are left.
LEMMA CallGoes ==
  ASSUME Inv, NEW a \in App, NEW pc \in Pcs, NEW left \in SUBSET Threads,
         \/ Goto(a, pc) /\ left = call[a].left
         \/ call' = [call EXCEPT ![a].left = left, ![a].pc = pc]
         \/ call' = [call EXCEPT ![a].pc = pc, ![a].left = left]
  PROVE  /\ Others(a) /\ call' \in [App -> Calls]
         /\ call'[a].pc = pc /\ call'[a].i = call[a].i /\ call'[a].left = left
<1>1. call[a] \in Calls /\ call \in [App -> Calls]
  BY DEF Inv, TypeOK
<1>2. pc \in {"idle", "log", "alloc", "config", "targets", "services", "handle", "cond", "create", "started",
                "locks", "undo", "undolog", "transports", "terminate", "wait",
                "request", "await", "free", "freelog", "act"}
  BY DEF Pcs, StartPcs, StopPcs
<1>3. PICK c : c = [call[a] EXCEPT !.pc = pc, !.left = left]
  OBVIOUS
<1>4. c \in Calls /\ c.pc = pc /\ c.i = call[a].i /\ c.left = left
  BY <1>1, <1>2, <1>3 DEF Calls
<1>5. call' = [call EXCEPT ![a] = c]
  <2>1. CASE Goto(a, pc) /\ left = call[a].left
    <3>1. call' = [call EXCEPT ![a] = [call[a] EXCEPT !.pc = pc]]
      BY <1>1, <2>1 DEF Goto
    <3>2. c = [call[a] EXCEPT !.pc = pc]
      BY <1>1, <1>3, <2>1 DEF Calls
    <3> QED
      BY <3>1, <3>2
  <2>2. CASE call' = [call EXCEPT ![a].left = left, ![a].pc = pc]
    <3>1. call' = [call EXCEPT ![a] = [[call[a] EXCEPT !.left = left] EXCEPT !.pc = pc]]
      BY <1>1, <2>2
    <3>2. c = [[call[a] EXCEPT !.left = left] EXCEPT !.pc = pc]
      BY <1>1, <1>3 DEF Calls
    <3> QED
      BY <3>1, <3>2
  <2>3. CASE call' = [call EXCEPT ![a].pc = pc, ![a].left = left]
    <3>1. call' = [call EXCEPT ![a] = [[call[a] EXCEPT !.pc = pc] EXCEPT !.left = left]]
      BY <1>1, <2>3
    <3> QED
      BY <1>3, <3>1
  <2> QED
    BY <2>1, <2>2, <2>3
<1> QED
  BY <1>4, <1>5, CallBecomes

\* Call a goes on at pc.
LEMMA CallGoesTo ==
  ASSUME Inv, NEW a \in App, NEW pc \in Pcs, Goto(a, pc)
  PROVE  /\ Others(a) /\ call' \in [App -> Calls]
         /\ call'[a].pc = pc /\ call'[a].i = call[a].i /\ call'[a].left = call[a].left
<1>1. call[a] \in Calls /\ call \in [App -> Calls]
  BY DEF Inv, TypeOK
<1>2. PICK c : c = [call[a] EXCEPT !.pc = pc]
  OBVIOUS
<1>3. c \in Calls /\ c.pc = pc /\ c.i = call[a].i /\ c.left = call[a].left
  BY <1>1, <1>2 DEF Calls, Pcs, StartPcs, StopPcs
<1>4. call' = [call EXCEPT ![a] = c]
  BY <1>1, <1>2 DEF Goto
<1> QED
  BY <1>3, <1>4, CallBecomes

\* A call returns, or begins with an instance.
LEMMA CallReturns ==
  ASSUME Inv, NEW a \in App,
         NEW res \in {"none", "OK", "ERROR", "ALREADY", "STOPPED", "NOT_STARTED", "DONE"}, Return(a, res)
  PROVE  Others(a) /\ call' \in [App -> Calls] /\ call'[a].pc = "idle" /\ call'[a].i = Null
<1>1. PICK c : c = [NoCall EXCEPT !.res = res]
  OBVIOUS
<1>2. c \in Calls /\ c.pc = "idle" /\ c.i = Null
  BY <1>1 DEF Calls, NoCall
<1> QED
  BY <1>1, <1>2, CallBecomes DEF Return

\* A call that found the instance running has it.
LEMMA CallBegins ==
  ASSUME Inv, NEW a \in App, NEW pc \in {"transports", "act"}, NEW i \in Instance,
         call' = [call EXCEPT ![a] = [NoCall EXCEPT !.pc = pc, !.i = i]]
  PROVE  Others(a) /\ call' \in [App -> Calls] /\ call'[a].pc = pc /\ call'[a].i = i
<1>1. PICK c : c = [NoCall EXCEPT !.pc = pc, !.i = i]
  OBVIOUS
<1>2. c \in Calls /\ c.pc = pc /\ c.i = i
  BY <1>1 DEF Calls, NoCall
<1> QED
  BY <1>1, <1>2, CallBecomes

\* A step after which the same calls and instances use the logging lock.
LEMMA UsersKept ==
  ASSUME Inv, UNCHANGED logging, Users' = Users, LiveInstances' = LiveInstances
  PROVE  UsersOK'
  BY DEF Inv, UsersOK

\* There are enough users of the logging lock for those that are known.
LEMMA UserCounted ==
  ASSUME Inv
  PROVE  /\ logging \in [users : 0..(Cardinality(Instance) + Cardinality(App)), lock : BOOLEAN]
         /\ Users # {} \/ LiveInstances # {} => logging.users > 0
         /\ Users # {} /\ LiveInstances # {} => logging.users > 1
<1>1. /\ Cardinality(Users) \in Nat /\ Cardinality(LiveInstances) \in Nat
      /\ Cardinality(Users) = 0 <=> Users = {}
      /\ Cardinality(LiveInstances) = 0 <=> LiveInstances = {}
  <2>1. Users \in SUBSET App /\ LiveInstances \in SUBSET Instance
    BY DEF Users, LiveInstances
  <2> QED BY <2>1, Counted
<1>2. logging.users = Cardinality(LiveInstances) + Cardinality(Users)
  BY DEF Inv, UsersOK
<1>3. logging \in [users : 0..(Cardinality(Instance) + Cardinality(App)), lock : BOOLEAN]
  BY DEF Inv, TypeOK
<1> QED BY <1>1, <1>2, <1>3

\* An instance that was started stays complete when no instance changes.
LEMMA StartedKept ==
  ASSUME Inv, UNCHANGED inst, past \subseteq past',
         \A i \in Instance : (\A a \in App : ~Starts(a, i)') => (\A a \in App : ~Starts(a, i)),
         \A i \in Instance : (\A a \in App : ~Ending(a, i)') => (\A a \in App : ~Ending(a, i))
  PROVE  SoloStarted'
<1> SUFFICES ASSUME Solo', NEW i \in Instance, Live(i)', \A a \in App : ~Starts(a, i)'
             PROVE  /\ Complete(inst'[i])
                    /\ (\A a \in App : ~Ending(a, i)') /\ inst'[i].loop = "run" => inst'[i].lock = Threads
  BY DEF SoloStarted
<1>1. Solo /\ Live(i) /\ (\A a \in App : ~Starts(a, i))
  BY DEF Solo, Live
<1> QED
  BY <1>1 DEF Inv, SoloStarted

\* A step that changes an instance that is there, and stays.
LEMMA InstanceChanged ==
  ASSUME Inv, NEW i \in Instance, Live(i), Besides(i), inst'[i].mem = "live",
         past \subseteq past', ConnectorFits(inst'[i]),
         inst'[i].loop # "run" => "abort" \in past',
         Told(inst'[i]) => inst'[i].st["connector"] = "stopped" \/ inst'[i].loop # "run",
         Solo' /\ inst'[i].loop # "run" => AbortTook(inst'[i])
  PROVE  InstancesOK' /\ LiveInstances' = LiveInstances
<1>1. ConnectorOK'
  BY DEF Inv, ConnectorOK, Live, Besides
<1>2. ToldOK'
  BY DEF Inv, ToldOK, Live, Besides
<1>3. SoloAbort'
  BY DEF Inv, SoloAbort, Live, Solo, Besides
<1>4. inst'[i].end = "no"
  BY DEF ConnectorFits
<1>5. LeftOK'
  BY <1>4 DEF Inv, LeftOK, Solo, Besides
<1>6. LiveInstances' = LiveInstances
  BY DEF LiveInstances, Live, Besides
<1> QED
  BY <1>1, <1>2, <1>3, <1>5, <1>6 DEF InstancesOK

\* ccapi_start takes the logging lock, as one more user.
LEMMA StartLoggingStep ==
  ASSUME Inv, NEW a \in App, StartLogging(a)
  PROVE  Inv'
<1>1. /\ wrong = "no" /\ UNCHANGED <<single, inst, wrong>> /\ call[a].pc = "idle"
      /\ past' = IF \E b \in App \ {a} : call[b].pc # "idle" THEN past \cup {"overlap"} ELSE past
      /\ logging' = [logging EXCEPT !.users = @ + 1]
      /\ call' = [call EXCEPT ![a] = [NoCall EXCEPT !.pc = IF logging.users = 0 THEN "log" ELSE "alloc"]]
  BY DEF StartLogging, Begins
<1>2. /\ Others(a) /\ call'[a].pc = IF logging.users = 0 THEN "log" ELSE "alloc"
      /\ call'[a].i = Null /\ call' \in [App -> Calls]
  BY <1>1 DEF Others, Inv, TypeOK, Calls, NoCall
<1>3. /\ past' \subseteq {"overlap", "abort", "late_failure", "refused"} /\ past \subseteq past'
      /\ Solo' => Solo /\ past' = past /\ \A b \in App : call[b].pc = "idle"
      /\ past' = {} => past = {}
  BY <1>1 DEF Inv, TypeOK, Solo
<1>4. Users' = Users \cup {a} /\ a \notin Users /\ LiveInstances' = LiveInstances
  BY <1>1, <1>2 DEF Users, Others, LiveInstances, Live
<1>5. UsersOK' /\ logging' \in [users : 0..(Cardinality(Instance) + Cardinality(App)), lock : BOOLEAN]
      /\ logging'.lock = logging.lock /\ logging'.users = logging.users + 1
  <2>1. logging'.users = logging.users + 1 /\ logging'.lock = logging.lock
        /\ logging' = [users |-> logging.users + 1, lock |-> logging.lock]
    BY <1>1 DEF Inv, TypeOK
  <2>2. Cardinality(Users \cup {a}) = Cardinality(Users) + 1
    BY <1>4, OneMore DEF Users
  <2>3. Cardinality(LiveInstances) \in Nat /\ Cardinality(Users) \in Nat
    BY Counted DEF LiveInstances, Users
  <2>4. UsersOK'
    BY <1>4, <2>1, <2>2, <2>3 DEF Inv, UsersOK
  <2>5. logging'.users \in 0..(Cardinality(Instance) + Cardinality(App))
    <3>1. Users' \subseteq App /\ LiveInstances' \subseteq Instance
      BY DEF Users, LiveInstances
    <3> QED
      BY <2>4, <3>1, Counted DEF UsersOK
  <2> QED
    BY <2>1, <2>4, <2>5 DEF Inv, TypeOK
<1>6. TypeOK'
  BY <1>1, <1>2, <1>3, <1>5 DEF Inv, TypeOK
<1>7. InstancesOK'
  BY <1>1, <1>3, InstancesKept
<1>8. CallsOK'
  <2>1. CallOK'
    BY <1>2 DEF Inv, CallOK, Others, StartPcs, StopPcs
  <2>2. OneStarter'
    BY <1>2 DEF Inv, OneStarter, Others, Starts, StartPcs
  <2>3. SoloOK'
    BY <1>2, <1>3 DEF SoloOK, Others
  <2> QED
    BY <2>1, <2>2, <2>3 DEF CallsOK
<1>9. StartOK' /\ StopOK'
  BY <1>1, <1>2 DEF Inv, StartOK, StopOK, Others, StartPcs, Live, LeftToStart
<1>10. LockOK'
  BY <1>1, <1>2, <1>3, <1>5 DEF Inv, TypeOK, LockOK, Others
<1>11. SoloStart' /\ SoloStop'
  BY <1>1, <1>2, <1>3 DEF SoloStart, SoloStop, Others, StartPcs
<1>12. SoloStarted'
  BY <1>1, <1>2, <1>3, StartedKept DEF Others, Starts, Ending, StartPcs
<1>13. FoundOK' /\ InfoGoneOK' /\ UseIsSafe'
  BY <1>1, <1>2, <1>3 DEF Inv, FoundOK, InfoGoneOK, UseIsSafe, Others, StartPcs, StopPcs, Live, Solo
<1> QED
  BY <1>5, <1>6, <1>7, <1>8, <1>9, <1>10, <1>11, <1>12, <1>13 DEF Inv, InstancesOK, CallsOK

\* The first user makes the lock, or cannot.
LEMMA StartLogLockStep ==
  ASSUME Inv, NEW a \in App, StartLogLock(a)
  PROVE  Inv'
<1>1. /\ wrong = "no" /\ UNCHANGED <<single, inst, past, wrong>> /\ call[a].pc = "log" /\ call[a].i = Null
      /\ \/ logging' = [logging EXCEPT !.lock = TRUE] /\ call' = [call EXCEPT ![a].pc = "alloc"]
         \/ logging' = logging /\ call' = [call EXCEPT ![a].pc = "undolog"]
  BY DEF StartLogLock, At, Goto, Inv, CallOK
<1>2. /\ Others(a) /\ call'[a].pc \in {"alloc", "undolog"}
      /\ call'[a].i = Null /\ call' \in [App -> Calls]
  BY <1>1 DEF Others, Inv, TypeOK, Calls
<1>3. /\ logging'.users = logging.users
      /\ logging' \in [users : 0..(Cardinality(Instance) + Cardinality(App)), lock : BOOLEAN]
      /\ Solo => ~logging.lock /\ (logging'.lock <=> call'[a].pc = "alloc")
  <2>1. logging \in [users : 0..(Cardinality(Instance) + Cardinality(App)), lock : BOOLEAN]
    BY DEF Inv, TypeOK
  <2>2. CASE logging' = [logging EXCEPT !.lock = TRUE] /\ call' = [call EXCEPT ![a].pc = "alloc"]
    <3>1. call'[a].pc = "alloc"
      BY <2>2 DEF Inv, TypeOK, Calls
    <3>2. logging'.users = logging.users /\ logging'.lock /\
          logging' \in [users : 0..(Cardinality(Instance) + Cardinality(App)), lock : BOOLEAN]
      BY <2>1, <2>2
    <3>3. Solo => ~logging.lock
      BY <1>1 DEF Inv, LockOK
    <3> QED
      BY <3>1, <3>2, <3>3
  <2>3. CASE logging' = logging /\ call' = [call EXCEPT ![a].pc = "undolog"]
    <3>1. call'[a].pc = "undolog" /\ logging' = logging
      BY <2>3 DEF Inv, TypeOK, Calls
    <3>2. Solo => ~logging.lock
      BY <1>1 DEF Inv, LockOK
    <3> QED
      BY <2>1, <3>1, <3>2
  <2> QED
    BY <1>1, <2>2, <2>3
<1>4. Users' = Users /\ LiveInstances' = LiveInstances
  BY <1>1, <1>2 DEF Users, Others, LiveInstances, Live
<1>5. UsersOK'
  BY <1>3, <1>4 DEF Inv, UsersOK
<1>6. TypeOK'
  BY <1>1, <1>2, <1>3 DEF Inv, TypeOK
<1>7. InstancesOK'
  BY <1>1, InstancesKept
<1>8. CallsOK'
  <2>1. CallOK'
    BY <1>2 DEF Inv, CallOK, Others, StartPcs, StopPcs
  <2>2. OneStarter'
    BY <1>2 DEF Inv, OneStarter, Others, Starts, StartPcs
  <2>3. SoloOK'
    BY <1>1, <1>2 DEF Inv, SoloOK, Others, Solo
  <2> QED
    BY <2>1, <2>2, <2>3 DEF CallsOK
<1>9. StartOK' /\ StopOK'
  BY <1>1, <1>2 DEF Inv, StartOK, StopOK, Others, StartPcs, Live, LeftToStart
<1>10. LockOK'
  <2>1. logging.users > 0
    BY <1>1, UserCounted DEF Users
  <2>2. Solo => \A b \in App \ {a} : call'[b].pc = "idle"
    BY <1>1, <1>2 DEF Inv, SoloOK, Others
  <2> QED
    BY <1>1, <1>2, <1>3, <2>1, <2>2 DEF Inv, LockOK, Solo
<1>11. SoloStart' /\ SoloStop'
  BY <1>1, <1>2 DEF Inv, SoloStart, SoloStop, Others, StartPcs, Live, LeftToStart, Solo
<1>12. SoloStarted'
  BY <1>1, <1>2, StartedKept DEF Others, Starts, Ending, StartPcs
<1>13. FoundOK' /\ InfoGoneOK' /\ UseIsSafe'
  BY <1>1, <1>2 DEF Inv, FoundOK, InfoGoneOK, UseIsSafe, Others, StartPcs, StopPcs, Live
<1> QED
  BY <1>5, <1>6, <1>7, <1>8, <1>9, <1>10, <1>11, <1>12, <1>13 DEF Inv, InstancesOK, CallsOK

\* The thread that was waited for is running.
LEMMA ThreadStartedStep ==
  ASSUME Inv, NEW a \in App, ThreadStarted(a)
  PROVE  Inv'
<1> DEFINE i == call[a].i
           t == FirstOf(call[a].left)
           left == call[a].left \ {t}
<1>1. /\ wrong = "no" /\ UNCHANGED <<single, inst, logging, past, wrong>> /\ call[a].pc = "started"
      /\ i \in Instance /\ Live(i) /\ call[a].left # {} /\ call[a].left \subseteq Threads /\ t \in call[a].left
      /\ call' = [call EXCEPT ![a].left = @ \ {t}, ![a].pc = IF call[a].left = {t} THEN "locks" ELSE "create"]
  <2>1. call[a] \in Calls /\ call[a].left # {} /\ call[a].pc = "started" /\ i \in Instance
    BY DEF ThreadStarted, On, At, Inv, TypeOK, CallOK, StartPcs
  <2>2. call[a].left \subseteq Threads
    BY <2>1 DEF Calls
  <2>3. t \in call[a].left
    BY <2>1, <2>2, FirstIs
  <2> QED
    BY <2>1, <2>2, <2>3 DEF ThreadStarted, On, At
<1>2. /\ Others(a) /\ call'[a].pc = IF left = {} THEN "locks" ELSE "create"
      /\ call'[a].i = i /\ call'[a].left = left /\ call' \in [App -> Calls]
  <2>1. PICK pc : pc = IF left = {} THEN "locks" ELSE "create"
    OBVIOUS
  <2>2. call' = [call EXCEPT ![a].left = left, ![a].pc = pc]
    BY <1>1, <2>1
  <2>3. pc \in Pcs /\ left \subseteq Threads
    BY <1>1, <2>1 DEF Pcs, StartPcs
  <2> HIDE DEF left, t, i
  <2>4. /\ Others(a) /\ call' \in [App -> Calls]
        /\ call'[a].pc = pc /\ call'[a].i = call[a].i /\ call'[a].left = left
    BY <2>2, <2>3, CallGoes
  <2> QED
    BY <2>1, <2>4 DEF i
<1>3. LeftToStart(call[a]) = left /\ LeftToStart(call'[a]) = left
  BY <1>1, <1>2 DEF LeftToStart
<1> HIDE DEF i, t, left
<1>4. Users' = Users /\ LiveInstances' = LiveInstances
  BY <1>1, <1>2 DEF Users, Others, LiveInstances, Live
<1>5. UsersOK'
  BY <1>1, <1>4, UsersKept
<1>6. TypeOK'
  BY <1>1, <1>2 DEF Inv, TypeOK
<1>7. InstancesOK'
  BY <1>1, InstancesKept
<1>8. CallsOK'
  <2>1. CallOK'
    BY <1>1, <1>2 DEF Inv, CallOK, Others, StartPcs, StopPcs
  <2>2. OneStarter'
    BY <1>1, <1>2 DEF Inv, OneStarter, Others, Starts, StartPcs, i
  <2>3. SoloOK'
    BY <1>1, <1>2 DEF Inv, SoloOK, Others, Solo
  <2> QED
    BY <2>1, <2>2, <2>3 DEF CallsOK
<1>9. StartOK' /\ StopOK'
  <2>1. StartOK'
    BY <1>1, <1>2, <1>3 DEF Inv, StartOK, Others, StartPcs, Live, i
  <2>2. StopOK'
    BY <1>1, <1>2 DEF Inv, StopOK, Others, Live
  <2> QED
    BY <2>1, <2>2
<1>10. LockOK'
  BY <1>1, <1>2 DEF Inv, LockOK, Solo, Others
<1>11. SoloStart' /\ SoloStop'
  <2>1. Solo => Building(call'[a], inst'[i])
    BY <1>1, <1>2, <1>3 DEF Inv, SoloStart, Building, StartPcs, i
  <2>2. SoloStart'
    BY <1>1, <1>2, <2>1 DEF Inv, SoloStart, Others, Solo
  <2>3. SoloStop'
    BY <1>1, <1>2 DEF Inv, SoloStop, Others, Live, Solo
  <2> QED
    BY <2>2, <2>3
<1>12. SoloStarted'
  BY <1>1, <1>2, StartedKept DEF Others, Starts, Ending, StartPcs, i
<1>13. FoundOK' /\ InfoGoneOK' /\ UseIsSafe'
  BY <1>1, <1>2 DEF Inv, FoundOK, InfoGoneOK, UseIsSafe, Others, StartPcs, StopPcs, Live, i
<1> QED
  BY <1>5, <1>6, <1>7, <1>8, <1>9, <1>10, <1>11, <1>12, <1>13 DEF Inv, InstancesOK, CallsOK

\* The connector thread has ended by itself.
LEMMA StopWaitedStep ==
  ASSUME Inv, NEW a \in App, StopWaited(a)
  PROVE  Inv'
<1> DEFINE i == call[a].i
<1>1. /\ wrong = "no" /\ UNCHANGED <<single, inst, logging, past, wrong>> /\ call[a].pc = "wait"
      /\ i \in Instance /\ Live(i) /\ inst[i].st["connector"] = "stopped"
      /\ call' = [call EXCEPT ![a].pc = "request", ![a].left = Threads]
  BY DEF StopWaited, On, At, Mine, Inv, CallOK, StopPcs
<1>2. /\ Others(a) /\ call'[a].pc = "request" /\ call'[a].i = i /\ call'[a].left = Threads
      /\ call' \in [App -> Calls]
  <2>1. "request" \in Pcs /\ Threads \in SUBSET Threads
    BY DEF Pcs, StopPcs
  <2>2. call' = [call EXCEPT ![a].pc = "request", ![a].left = Threads]
    BY <1>1
  <2> HIDE DEF i
  <2>3. /\ Others(a) /\ call' \in [App -> Calls]
        /\ call'[a].pc = "request" /\ call'[a].i = call[a].i /\ call'[a].left = Threads
    BY <2>1, <2>2, CallGoes
  <2> QED
    BY <2>3 DEF i
<1>3. LeftToStart(call'[a]) = {} /\ Threads # {} /\ inst[i].loop = "run"
  BY <1>1, <1>2 DEF LeftToStart, Threads, Inv, ConnectorOK, ConnectorFits
<1> HIDE DEF i
<1>4. Users' = Users /\ LiveInstances' = LiveInstances
  BY <1>1, <1>2 DEF Users, Others, LiveInstances, Live
<1>5. UsersOK'
  BY <1>1, <1>4, UsersKept
<1>6. TypeOK'
  BY <1>1, <1>2 DEF Inv, TypeOK
<1>7. InstancesOK'
  BY <1>1, InstancesKept
<1>8. CallsOK'
  <2>1. CallOK'
    BY <1>1, <1>2, <1>3 DEF Inv, CallOK, Others, StartPcs, StopPcs
  <2>2. OneStarter'
    BY <1>1, <1>2 DEF Inv, OneStarter, Others, Starts, StartPcs, i
  <2>3. SoloOK'
    BY <1>1, <1>2 DEF Inv, SoloOK, Others, Solo
  <2> QED
    BY <2>1, <2>2, <2>3 DEF CallsOK
<1>9. StartOK' /\ StopOK'
  <2>1. StartOK'
    BY <1>1, <1>2, <1>3 DEF Inv, StartOK, Others, StartPcs, Live
  <2>2. StopOK'
    BY <1>1, <1>2 DEF Inv, StopOK, Others, Live
  <2> QED
    BY <2>1, <2>2
<1>10. LockOK'
  BY <1>1, <1>2 DEF Inv, LockOK, Solo, Others
<1>11. SoloStart' /\ SoloStop'
  <2>1. SoloStart'
    BY <1>1, <1>2 DEF Inv, SoloStart, Others, Solo, StartPcs
  <2>2. Solo => inst[i].lock = Threads
    <3> SUFFICES ASSUME Solo PROVE inst[i].lock = Threads
      OBVIOUS
    <3>1. \A b \in App \ {a} : call[b].pc = "idle"
      BY <1>1 DEF Inv, SoloOK
    <3>2. \A b \in App : ~Starts(b, i) /\ ~Ending(b, i)
      BY <1>1, <3>1 DEF Starts, Ending, StartPcs
    <3> QED
      BY <1>1, <1>3, <3>2 DEF Inv, SoloStarted
  <2>3. SoloStop'
    BY <1>1, <1>2, <2>2 DEF Inv, SoloStop, Others, Live, Solo, StopTook
  <2> QED
    BY <2>1, <2>3
<1>12. SoloStarted'
  <2>1. \A j \in Instance : (\A b \in App : ~Ending(b, j)') => (\A b \in App : ~Ending(b, j))
    BY <1>1, <1>2 DEF Others, Ending
  <2> QED
    BY <1>1, <1>2, <2>1, StartedKept DEF Others, Starts, StartPcs
<1>13. FoundOK' /\ InfoGoneOK' /\ UseIsSafe'
  BY <1>1, <1>2 DEF Inv, FoundOK, InfoGoneOK, UseIsSafe, Others, StartPcs, StopPcs, Live, i
<1> QED
  BY <1>5, <1>6, <1>7, <1>8, <1>9, <1>10, <1>11, <1>12, <1>13 DEF Inv, InstancesOK, CallsOK

\* A stop, or any other call, begins.
LEMMA UseBeginStep ==
  ASSUME Inv, NEW a \in App, StopBegin(a) \/ UseBegin(a)
  PROVE  Inv'
<1>1. /\ wrong = "no" /\ UNCHANGED <<single, inst, logging, wrong>> /\ call[a].pc = "idle"
      /\ past' = IF \E b \in App \ {a} : call[b].pc # "idle" THEN past \cup {"overlap"} ELSE past
  BY DEF StopBegin, UseBegin, Begins
<1>2. /\ Others(a) /\ call'[a].pc \in {"idle", "transports", "act"} /\ call' \in [App -> Calls]
      /\ IF call'[a].pc = "idle" THEN call'[a].i = Null
         ELSE call'[a].i = single /\ single \in Instance /\ Live(single)
  <2>1. CASE Running /\ \E pc \in {"transports", "act"} :
               call' = [call EXCEPT ![a] = [NoCall EXCEPT !.pc = pc, !.i = single]]
    <3>1. single \in Instance /\ Live(single)
      BY <2>1 DEF Running, Inv, TypeOK
    <3> QED
      BY <2>1, <3>1, CallBegins
  <2>2. CASE Return(a, "NOT_STARTED")
    BY <2>2, CallReturns
  <2> QED
    BY <2>1, <2>2 DEF StopBegin, UseBegin
<1>3. /\ past' \subseteq {"overlap", "abort", "late_failure", "refused"} /\ past \subseteq past'
      /\ Solo' => Solo /\ past' = past /\ \A b \in App : call[b].pc = "idle"
      /\ past' = {} => past = {}
      /\ past' \cap {"overlap", "refused"} = {} => past \cap {"overlap", "refused"} = {}
  BY <1>1 DEF Inv, TypeOK, Solo
<1>4. Users' = Users /\ LiveInstances' = LiveInstances
  BY <1>1, <1>2 DEF Users, Others, LiveInstances, Live
<1>5. UsersOK'
  BY <1>1, <1>4, UsersKept
<1>6. TypeOK'
  BY <1>1, <1>2, <1>3 DEF Inv, TypeOK
<1>7. InstancesOK'
  BY <1>1, <1>3, InstancesKept
<1>8. CallsOK'
  <2>1. CallOK'
    BY <1>2 DEF Inv, CallOK, Others, StartPcs, StopPcs
  <2>2. OneStarter'
    BY <1>2 DEF Inv, OneStarter, Others, Starts, StartPcs
  <2>3. SoloOK'
    BY <1>2, <1>3 DEF SoloOK, Others
  <2> QED
    BY <2>1, <2>2, <2>3 DEF CallsOK
<1>9. StartOK' /\ StopOK'
  BY <1>1, <1>2 DEF Inv, StartOK, StopOK, Others, StartPcs, Live
<1>10. LockOK'
  BY <1>1, <1>2, <1>3 DEF Inv, LockOK, Others
<1>11. SoloStart' /\ SoloStop'
  BY <1>1, <1>2, <1>3 DEF Inv, SoloStart, SoloStop, Others, StartPcs, Live, Solo
<1>12. SoloStarted'
  BY <1>1, <1>2, <1>3, StartedKept DEF Others, Starts, Ending, StartPcs
<1>13. FoundOK' /\ InfoGoneOK' /\ UseIsSafe'
  <2>1. FoundOK'
    BY <1>1, <1>2, <1>3 DEF Inv, FoundOK, Others, StartPcs, StopPcs, Live
  <2>2. InfoGoneOK'
    BY <1>1, <1>2, <1>3 DEF Inv, InfoGoneOK, Others, Live
  <2> QED
    BY <1>1, <2>1, <2>2 DEF UseIsSafe
<1> QED
  BY <1>5, <1>6, <1>7, <1>8, <1>9, <1>10, <1>11, <1>12, <1>13 DEF Inv, InstancesOK, CallsOK

\* One user of the logging lock less.
LEMMA LoggingFreed ==
  ASSUME Inv, FreeLogging, Users # {} \/ LiveInstances # {},
         Cardinality(LiveInstances') + Cardinality(Users') = Cardinality(LiveInstances) + Cardinality(Users) - 1
  PROVE  /\ UsersOK' /\ logging' \in [users : 0..(Cardinality(Instance) + Cardinality(App)), lock : BOOLEAN]
         /\ logging'.users = logging.users - 1
         /\ logging'.lock <=> logging.lock /\ logging.users # 1
<1>1. /\ logging \in [users : 0..(Cardinality(Instance) + Cardinality(App)), lock : BOOLEAN]
      /\ logging.users > 0
  BY UserCounted
<1>2. Cardinality(Instance) + Cardinality(App) \in Nat
  BY FinitelyMany, FS_CardinalityType
<1>3. /\ logging'.users = logging.users - 1
      /\ logging'.lock <=> logging.lock /\ logging.users # 1
      /\ logging' \in [users : 0..(Cardinality(Instance) + Cardinality(App)), lock : BOOLEAN]
  <2>1. CASE logging.users = 1
    BY <1>1, <1>2, <2>1 DEF FreeLogging
  <2>2. CASE logging.users # 1
    <3>1. logging' = [logging EXCEPT !.users = @ - 1]
      BY <2>2 DEF FreeLogging
    <3>2. logging.users - 1 \in 0..(Cardinality(Instance) + Cardinality(App))
      BY <1>1, <1>2
    <3> QED
      BY <1>1, <2>2, <3>1, <3>2
  <2> QED
    BY <2>1, <2>2
<1>4. UsersOK'
  <2>1. logging.users = Cardinality(LiveInstances) + Cardinality(Users)
    BY DEF Inv, UsersOK
  <2>2. Cardinality(LiveInstances) \in Nat /\ Cardinality(Users) \in Nat
    BY Counted DEF LiveInstances, Users
  <2>3. logging'.users = Cardinality(LiveInstances) + Cardinality(Users) - 1
    BY <1>3, <2>1, <2>2
  <2> QED
    BY <2>3 DEF UsersOK
<1> QED
  BY <1>3, <1>4

\* A start that failed, and a stop, return when they have left the logging lock.
LEMMA LoggingDoneStep ==
  ASSUME Inv, NEW a \in App, StartFailed(a) \/ StopDone(a)
  PROVE  Inv'
<1>1. /\ wrong = "no" /\ UNCHANGED <<inst, past, wrong>> /\ single' = Null
      /\ call[a].pc \in {"undolog", "freelog"} /\ FreeLogging
  BY DEF StartFailed, StopDone, At
<1>2. Others(a) /\ call' \in [App -> Calls] /\ call'[a].pc = "idle" /\ call'[a].i = Null
  <2>1. PICK res \in {"none", "OK", "ERROR", "ALREADY", "STOPPED", "NOT_STARTED", "DONE"} : Return(a, res)
    BY DEF StartFailed, StopDone
  <2> QED
    BY <2>1, CallReturns
<1>3. Users' = Users \ {a} /\ a \in Users /\ LiveInstances' = LiveInstances
  BY <1>1, <1>2 DEF Users, Others, LiveInstances, Live
<1>4. Cardinality(LiveInstances') + Cardinality(Users') = Cardinality(LiveInstances) + Cardinality(Users) - 1
  <2>1. Cardinality(Users \ {a}) = Cardinality(Users) - 1
    BY <1>3, OneLess DEF Users
  <2>2. Cardinality(LiveInstances) \in Nat /\ Cardinality(Users) \in Nat
    BY Counted DEF LiveInstances, Users
  <2> QED
    BY <1>3, <2>1, <2>2
<1>5. /\ UsersOK' /\ logging' \in [users : 0..(Cardinality(Instance) + Cardinality(App)), lock : BOOLEAN]
      /\ logging'.users = logging.users - 1
      /\ logging'.lock <=> logging.lock /\ logging.users # 1
  BY <1>1, <1>3, <1>4, LoggingFreed
<1>6. TypeOK'
  BY <1>1, <1>2, <1>5 DEF Inv, TypeOK
<1>7. InstancesOK'
  BY <1>1, InstancesKept
<1>8. CallsOK'
  <2>1. CallOK'
    BY <1>2 DEF Inv, CallOK, Others, StartPcs, StopPcs
  <2>2. OneStarter'
    BY <1>2 DEF Inv, OneStarter, Others, Starts, StartPcs
  <2>3. SoloOK'
    BY <1>1, <1>2 DEF Inv, SoloOK, Others, Solo
  <2> QED
    BY <2>1, <2>2, <2>3 DEF CallsOK
<1>9. StartOK' /\ StopOK'
  BY <1>1, <1>2 DEF Inv, StartOK, StopOK, Others, StartPcs, Live
<1>10. LockOK'
  <2>1. Solo => \A b \in App : call'[b].pc = "idle"
    BY <1>1, <1>2 DEF Inv, SoloOK, Others
  <2>2. logging.users > 0 /\ logging.users \in Nat
    <3>1. logging.users > 0 /\ logging.users \in 0..(Cardinality(Instance) + Cardinality(App))
      BY <1>3, UserCounted
    <3> QED
      BY <3>1
  <2> QED
    BY <1>1, <1>5, <2>1, <2>2 DEF Inv, LockOK, Solo
<1>11. SoloStart' /\ SoloStop'
  BY <1>1, <1>2 DEF Inv, SoloStart, SoloStop, Others, StartPcs, Live, Solo
<1>12. SoloStarted'
  BY <1>1, <1>2, StartedKept DEF Others, Starts, Ending, StartPcs
<1>13. FoundOK' /\ InfoGoneOK' /\ UseIsSafe'
  BY <1>1, <1>2 DEF Inv, FoundOK, InfoGoneOK, UseIsSafe, Others, StartPcs, StopPcs, Live
<1> QED
  BY <1>5, <1>6, <1>7, <1>8, <1>9, <1>10, <1>11, <1>12, <1>13 DEF Inv, InstancesOK, CallsOK

\* A step of a start, on its instance.
LEMMA StartWork ==
  ASSUME Inv, NEW a \in App, NEW i \in Instance, wrong = "no", TypeOK',
         UNCHANGED <<single, logging>>, past \subseteq past', wrong' \in {"no", "strings", "rci_data"},
         call[a].pc \in StartPcs, call[a].i = i, Live(i), Others(a), Besides(i),
         \/ call'[a].pc \in StartPcs /\ call'[a].i = i
         \/ call'[a].pc = "idle" /\ call'[a].i = Null,
         call'[a].pc \in {"create", "started"} => call'[a].left # {},
         inst'[i].mem = "live", inst'[i].loop = inst[i].loop, inst'[i].tinfo = inst[i].tinfo,
         inst'[i].left = inst[i].left,
         \A t \in LeftToStart(call'[a]) : NoneYet(inst'[i], t),
         ConnectorFits(inst'[i]),
         Told(inst'[i]) => inst'[i].st["connector"] = "stopped" \/ inst'[i].loop # "run",
         inst[i].st["connector"] = "stopped" => inst'[i].st["connector"] = "stopped",
         Solo' /\ call'[a].pc \in StartPcs => Building(call'[a], inst'[i]),
         call'[a].pc = "undo" /\ past' = {} => inst'[i].alive = {} /\ OneLeft(inst'[i]),
         Solo' /\ call'[a].pc = "idle" => Complete(inst'[i]) /\ inst'[i].lock = Threads
  PROVE  Inv'
<1>0. (Solo' => Solo) /\ (past' = {} => past = {})
      /\ (past' \cap {"overlap", "refused"} = {} => past \cap {"overlap", "refused"} = {})
  BY DEF Solo
<1>1. Solo => inst[i].loop = "run" /\ \A b \in App \ {a} : call'[b].pc = "idle"
  <2>1. Solo => \A b \in App \ {a} : call'[b].pc = "idle"
    BY DEF Inv, SoloOK, Others, StartPcs
  <2> QED
    BY <2>1 DEF Inv, SoloStart, Building
<1>2. InstancesOK' /\ LiveInstances' = LiveInstances
  <2>1. inst'[i].loop # "run" => "abort" \in past'
    BY DEF Inv, ConnectorOK
  <2>2. Solo' /\ inst'[i].loop # "run" => AbortTook(inst'[i])
    BY <1>0, <1>1
  <2> QED
    BY <2>1, <2>2, InstanceChanged
<1>3. Users' = Users
  BY DEF Users, Others, StartPcs
<1>4. UsersOK'
  BY <1>2, <1>3, UsersKept
<1>5. CallsOK'
  <2>1. CallOK'
    BY DEF Inv, CallOK, Others, StartPcs, StopPcs
  <2>2. OneStarter'
    BY DEF Inv, OneStarter, Others, Starts, StartPcs
  <2>3. SoloOK'
    BY <1>0, <1>1 DEF SoloOK, Others
  <2> QED
    BY <2>1, <2>2, <2>3 DEF CallsOK
<1>6. \A b \in App \ {a} : call[b].pc \in StartPcs => call[b].i # i
  BY DEF Inv, OneStarter, Starts
<1>7. StartOK'
  <2> SUFFICES ASSUME NEW b \in App, call'[b].pc \in StartPcs, Live(call[b].i)'
               PROVE  \A t \in LeftToStart(call'[b]) : NoneYet(inst'[call'[b].i], t)
    BY DEF StartOK
  <2>1. CASE b = a
    BY <2>1 DEF StartPcs
  <2>2. CASE b # a
    <3>1. call'[b] = call[b] /\ call[b].i # i /\ call[b].i \in Instance
      BY <1>6, <2>2 DEF Others, Inv, CallOK
    <3>2. inst'[call[b].i] = inst[call[b].i]
      BY <3>1 DEF Besides
    <3> QED
      BY <3>1, <3>2 DEF Inv, StartOK, Live
  <2> QED
    BY <2>1, <2>2
<1>8. StopOK'
  <2> SUFFICES ASSUME NEW b \in App, call'[b].pc \in {"request", "await", "free"}, Live(call[b].i)'
               PROVE  inst'[call'[b].i].st["connector"] = "stopped"
    BY DEF StopOK
  <2>1. b # a /\ call'[b] = call[b] /\ call[b].i \in Instance
    BY DEF Others, StartPcs, StopPcs, Inv, CallOK
  <2> QED
    BY <2>1 DEF Inv, StopOK, Live, Besides
<1>9. LockOK'
  BY <1>0 DEF Inv, LockOK, Others, StartPcs
<1>10. SoloStart' /\ SoloStop'
  BY <1>0, <1>1 DEF SoloStart, SoloStop, StartPcs
<1>11. SoloStarted'
  <2> SUFFICES ASSUME Solo', NEW j \in Instance, Live(j)', \A b \in App : ~Starts(b, j)'
               PROVE  /\ Complete(inst'[j])
                      /\ (\A b \in App : ~Ending(b, j)') /\ inst'[j].loop = "run" => inst'[j].lock = Threads
    BY DEF SoloStarted
  <2>1. CASE j = i
    BY <2>1 DEF Starts
  <2>2. CASE j # i
    <3>1. inst'[j] = inst[j] /\ Live(j) /\ Solo
      BY <1>0, <2>2 DEF Besides, Live
    <3>2. \A b \in App : ~Starts(b, j) /\ ~Ending(b, j)
      BY <1>1, <2>2, <3>1 DEF Starts, Ending, Others, StartPcs
    <3> QED
      BY <3>1, <3>2 DEF Inv, SoloStarted
  <2> QED
    BY <2>1, <2>2
<1>12. FoundOK'
  <2> SUFFICES ASSUME past' = {} PROVE FoundOK'
    BY DEF FoundOK
  <2>1. Solo /\ past = {}
    BY <1>0 DEF Solo
  <2>2. \A j \in Instance : Live(j)' <=> Live(j)
    BY DEF Live, Besides
  <2>3. single' = Null \/ Live(single)' \/ \E b \in App : call'[b].pc \in {"undolog", "freelog"}
    BY <2>1, <2>2 DEF Inv, FoundOK, Others, StartPcs, TypeOK
  <2>4. \A b \in App : call'[b].pc \in StartPcs \cup StopPcs \cup {"act"} => Live(call[b].i)'
    BY <1>1, <2>1, <2>2 DEF StartPcs, StopPcs
  <2>5. \A j \in Instance : ~Live(j)' => inst'[j].alive = {}
    BY <2>1, <2>2 DEF Inv, FoundOK, Besides
  <2> QED
    BY <2>3, <2>4, <2>5 DEF FoundOK
<1>13. InfoGoneOK'
  <2> SUFFICES ASSUME past' \cap {"overlap", "refused"} = {}, NEW j \in Instance, Live(j)', inst'[j].tinfo = "freed",
                      inst'[j].loop = "run"
               PROVE  \E b \in App : call'[b].pc \in {"terminate", "wait", "request", "await", "free"} /\ call'[b].i = j
    BY DEF InfoGoneOK
  <2>1. Live(j) /\ inst[j].tinfo = "freed" /\ inst[j].loop = "run" /\ past \cap {"overlap", "refused"} = {}
    BY <1>0 DEF Live, Besides
  <2>2. PICK b \in App : call[b].pc \in {"terminate", "wait", "request", "await", "free"} /\ call[b].i = j
    BY <2>1 DEF Inv, InfoGoneOK
  <2> QED
    BY <2>2 DEF Others, StartPcs
<1>14. UseIsSafe'
  BY DEF UseIsSafe
<1> QED
  BY <1>2, <1>4, <1>5, <1>7, <1>8, <1>9, <1>10, <1>11, <1>12, <1>13, <1>14 DEF Inv, InstancesOK, CallsOK

\* The threads of an instance, and most of the rest, are as they were.
SameThreads(i) ==
  /\ inst'[i].info = inst[i].info /\ inst'[i].set = inst[i].set /\ inst'[i].lock = inst[i].lock
  /\ inst'[i].st = inst[i].st /\ inst'[i].alive = inst[i].alive
SameRest(i) ==
  /\ inst'[i].mem = inst[i].mem /\ inst'[i].loop = inst[i].loop /\ inst'[i].tinfo = inst[i].tinfo
  /\ inst'[i].left = inst[i].left /\ inst'[i].end = inst[i].end

\* A failed start says, if threads are running, that it is late.
FailsAs(a, i) ==
  /\ call'[a].pc = "undo"
  /\ past' = IF inst[i].alive # {} THEN past \cup {"late_failure"} ELSE past

LEMMA FailIs ==
  ASSUME Inv, NEW a \in App, NEW i, i = call[a].i, Fail(a)
  PROVE  FailsAs(a, i) /\ Others(a) /\ call' \in [App -> Calls] /\ call'[a].i = i
<1>1. "undo" \in Pcs /\ call[a].left \in SUBSET Threads
  BY DEF Pcs, StartPcs, Inv, TypeOK, Calls
<1>2. Goto(a, "undo") /\ past' = IF inst[i].alive # {} THEN past \cup {"late_failure"} ELSE past
  BY DEF Fail, Mine
<1> QED
  BY <1>1, <1>2, CallGoes DEF FailsAs

\* A step that changes instance i alone.
LEMMA InstanceBecomes ==
  ASSUME Inv, NEW i \in Instance, NEW r \in Instances, inst' = [inst EXCEPT ![i] = r]
  PROVE  Besides(i) /\ inst'[i] = r /\ inst' \in [Instance -> Instances]
  BY DEF Besides, Inv, TypeOK

\* What an instance is made of.
LEMMA InstanceType ==
  ASSUME Inv, NEW i \in Instance
  PROVE  /\ inst[i] \in Instances /\ inst[i].st \in [Threads -> Status]
         /\ inst[i].has \subseteq Parts /\ inst[i].info \subseteq Threads /\ inst[i].set \subseteq Threads
         /\ inst[i].lock \subseteq Threads /\ inst[i].alive \subseteq Threads /\ inst[i].left \subseteq Threads
  BY DEF Inv, TypeOK, Instances

\* The parts that are made before the threads.
LEMMA StartEarly ==
  ASSUME Inv, NEW a \in App, NEW i \in Instance, call[a].i = i, On(a, call[a].pc),
         call[a].pc \in {"config", "targets", "services", "handle", "cond"},
         UNCHANGED <<single, logging>>, wrong' \in {"no", "strings", "rci_data"},
         Others(a), call' \in [App -> Calls], call'[a].i = i,
         \/ FailsAs(a, i)
         \/ /\ call'[a].pc \in {"targets", "services", "handle", "cond"}
            /\ UNCHANGED past
         \/ /\ call'[a].pc = "create" /\ call'[a].left = Threads
            /\ UNCHANGED past,
         inst' \in [Instance -> Instances], Besides(i), SameThreads(i), SameRest(i),
         inst'[i].fsm \in {inst[i].fsm, "run"}
  PROVE  Inv'
<1>1. wrong = "no" /\ Live(i) /\ LeftToStart(call[a]) = Threads /\ call[a].pc \in StartPcs
  BY DEF On, At, LeftToStart, StartPcs
<1>2. \A t \in Threads : NoneYet(inst[i], t)
  BY <1>1 DEF Inv, StartOK
<1>3. /\ "connector" \in Threads /\ inst[i].info = {} /\ inst[i].set = {} /\ inst[i].lock = {}
      /\ inst[i].alive = {} /\ inst[i].st["connector"] = "none"
      /\ \A t \in Threads : inst[i].st[t] = "none"
  BY <1>2, InstanceType DEF NoneYet, Threads
<1>4. ConnectorFits(inst[i])
  BY <1>1 DEF Inv, ConnectorOK
<1>5. inst[i].loop = "run" /\ inst[i].end = "no" /\ inst[i].fsm # "ended"
  BY <1>3, <1>4 DEF ConnectorFits
<1>6. ConnectorFits(inst'[i])
  BY <1>3, <1>5 DEF ConnectorFits, SameThreads, SameRest
<1>7. past \subseteq past' /\ past' \subseteq {"overlap", "abort", "late_failure", "refused"}
      /\ TypeOK'
  BY <1>1 DEF FailsAs, Inv, TypeOK
<1>8. ~Told(inst'[i])
  BY <1>3 DEF Told, SameThreads, Threads
<1>9. \A t \in LeftToStart(call'[a]) : NoneYet(inst'[i], t)
  <2>1. LeftToStart(call'[a]) \subseteq Threads
    BY DEF LeftToStart, FailsAs
  <2> QED
    BY <1>2, <2>1 DEF NoneYet, SameThreads
<1>10. Solo' => Building(call'[a], inst'[i])
  <2> SUFFICES ASSUME Solo' PROVE Building(call'[a], inst'[i])
    OBVIOUS
  <2>1. inst[i].fsm \in {"off", "run"}
    BY <1>1, <1>7 DEF Inv, SoloStart, Solo, Building
  <2>2. call'[a].pc # "undo" => LeftToStart(call'[a]) = Threads
    BY DEF FailsAs, LeftToStart
  <2>3. inst'[i].mem = "live" /\ inst'[i].loop = "run" /\ inst'[i].fsm \in {"off", "run"}
    BY <1>1, <1>5, <2>1 DEF SameRest, Live
  <2> QED
    BY <1>3, <2>2, <2>3 DEF Building, SameThreads
<1>11. inst'[i].alive = {} /\ OneLeft(inst'[i])
  BY <1>3 DEF OneLeft, SameThreads
<1>12. call'[a].pc \in StartPcs /\ (call'[a].pc \in {"create", "started"} => call'[a].left # {})
  BY <1>3 DEF StartPcs, FailsAs
<1>13. inst'[i].mem = "live" /\ inst'[i].loop = inst[i].loop /\ inst'[i].tinfo = inst[i].tinfo
       /\ inst'[i].left = inst[i].left /\ inst[i].st["connector"] # "stopped"
  BY <1>1, <1>3 DEF SameRest, Live
<1> QED
  BY <1>1, <1>6, <1>7, <1>8, <1>9, <1>10, <1>11, <1>12, <1>13, StartWork DEF StartPcs

\* A part is made, or nothing changes.
LEMMA PartMade ==
  ASSUME Inv, NEW i \in Instance, NEW part \in Parts,
         \/ inst' = [inst EXCEPT ![i].has = @ \cup {part}]
         \/ UNCHANGED inst
  PROVE  /\ inst' \in [Instance -> Instances] /\ Besides(i) /\ SameThreads(i) /\ SameRest(i)
         /\ inst'[i].fsm = inst[i].fsm /\ inst'[i].has \in {inst[i].has, inst[i].has \cup {part}}
<1>1. CASE UNCHANGED inst
  BY <1>1 DEF Inv, TypeOK, Besides, SameThreads, SameRest
<1>2. CASE inst' = [inst EXCEPT ![i].has = @ \cup {part}]
  <2>1. PICK r : r = [inst[i] EXCEPT !.has = inst[i].has \cup {part}]
    OBVIOUS
  <2>2. r \in Instances
    BY <2>1, InstanceType DEF Instances
  <2>3. inst' = [inst EXCEPT ![i] = r]
    BY <1>2, <2>1
  <2>4. Besides(i) /\ inst'[i] = r /\ inst' \in [Instance -> Instances]
    BY <2>2, <2>3, InstanceBecomes
  <2> QED
    BY <2>1, <2>4, InstanceType DEF SameThreads, SameRest, Instances
<1> QED
  BY <1>1, <1>2

\* The configuration, the targets and the services of a start.
LEMMA StartConfigStep ==
  ASSUME Inv, NEW a \in App, StartConfig(a) \/ StartTargets(a) \/ StartServices(a)
  PROVE  Inv'
<1>1. PICK i \in Instance : call[a].i = i
  BY DEF StartConfig, StartTargets, StartServices, On, At, Inv, CallOK, StartPcs
<1>2. /\ On(a, call[a].pc) /\ call[a].pc \in {"config", "targets", "services"}
      /\ UNCHANGED <<single, logging>> /\ wrong' \in {"no", "strings", "rci_data"}
  BY DEF StartConfig, StartTargets, StartServices, On, At
<1>3. PICK part \in Parts : inst' = [inst EXCEPT ![i].has = @ \cup {part}] \/ UNCHANGED inst
  BY <1>1 DEF StartConfig, StartTargets, StartServices, Build, Parts
<1>4. /\ inst' \in [Instance -> Instances] /\ Besides(i) /\ SameThreads(i) /\ SameRest(i)
      /\ inst'[i].fsm = inst[i].fsm
  BY <1>3, PartMade
<1>5. Fail(a) \/ \E pc \in {"targets", "services", "handle"} : Goto(a, pc) /\ UNCHANGED past
  BY DEF StartConfig, StartTargets, StartServices
<1>6. CASE Fail(a)
  BY <1>1, <1>2, <1>4, <1>6, FailIs, StartEarly
<1>7. ASSUME NEW pc \in {"targets", "services", "handle"}, Goto(a, pc), UNCHANGED past
      PROVE  Inv'
  <2>1. pc \in Pcs /\ call[a].left \in SUBSET Threads
    BY DEF Pcs, StartPcs, Inv, TypeOK, Calls
  <2>2. Others(a) /\ call' \in [App -> Calls] /\ call'[a].pc = pc /\ call'[a].i = i
    BY <1>1, <1>7, <2>1, CallGoes
  <2> QED
    BY <1>1, <1>2, <1>4, <1>7, <2>2, StartEarly
<1> QED
  BY <1>5, <1>6, <1>7

\* CCFSM's handle, and the condition.
LEMMA StartHandleStep ==
  ASSUME Inv, NEW a \in App, StartHandle(a) \/ StartCond(a)
  PROVE  Inv'
<1>1. PICK i \in Instance : call[a].i = i
  BY DEF StartHandle, StartCond, On, At, Inv, CallOK, StartPcs
<1>2. /\ On(a, call[a].pc) /\ call[a].pc \in {"handle", "cond"}
      /\ UNCHANGED <<single, logging, wrong>> /\ wrong = "no"
  BY DEF StartHandle, StartCond, On, At
<1>3. /\ inst' \in [Instance -> Instances] /\ Besides(i) /\ SameThreads(i) /\ SameRest(i)
      /\ inst'[i].fsm \in {inst[i].fsm, "run"}
  <2>1. PICK has \in SUBSET Parts, fsm \in {inst[i].fsm, "run"}, cond \in {"null", "made", inst[i].cond} :
          \/ inst' = [inst EXCEPT ![i].has = has, ![i].fsm = fsm]
          \/ inst' = [inst EXCEPT ![i].has = has, ![i].cond = cond]
          \/ inst' = [inst EXCEPT ![i].cond = cond]
          \/ UNCHANGED inst
    <3>1. inst[i].has \cup {"handle"} \in SUBSET Parts /\ inst[i].has \cup {"cond"} \in SUBSET Parts
      BY InstanceType DEF Parts
    <3>2. CASE StartHandle(a)
      BY <1>1, <3>1, <3>2 DEF StartHandle
    <3>3. CASE StartCond(a)
      BY <1>1, <3>1, <3>3 DEF StartCond
    <3> QED
      BY <3>2, <3>3
  <2>2. inst[i] \in Instances
    BY InstanceType
  <2>3. PICK r : /\ r \in {[[inst[i] EXCEPT !.has = has] EXCEPT !.fsm = fsm],
                           [[inst[i] EXCEPT !.has = has] EXCEPT !.cond = cond],
                           [inst[i] EXCEPT !.cond = cond], inst[i]}
                 /\ inst' = [inst EXCEPT ![i] = r]
    <3>1. inst \in [Instance -> Instances]
      BY DEF Inv, TypeOK
    <3>2. CASE inst' = [inst EXCEPT ![i].has = has, ![i].fsm = fsm]
      BY <3>1, <3>2
    <3>3. CASE inst' = [inst EXCEPT ![i].has = has, ![i].cond = cond]
      BY <3>1, <3>3
    <3>4. CASE inst' = [inst EXCEPT ![i].cond = cond]
      BY <3>1, <3>4
    <3>5. CASE UNCHANGED inst
      BY <3>1, <3>5
    <3> QED
      BY <2>1, <3>2, <3>3, <3>4, <3>5
  <2>4. /\ r \in Instances /\ r.fsm \in {inst[i].fsm, "run"}
        /\ r.info = inst[i].info /\ r.set = inst[i].set /\ r.lock = inst[i].lock
        /\ r.st = inst[i].st /\ r.alive = inst[i].alive
        /\ r.mem = inst[i].mem /\ r.loop = inst[i].loop /\ r.tinfo = inst[i].tinfo
        /\ r.left = inst[i].left /\ r.end = inst[i].end
    BY <2>1, <2>2, <2>3 DEF Instances
  <2>5. Besides(i) /\ inst'[i] = r /\ inst' \in [Instance -> Instances]
    BY <2>3, <2>4, InstanceBecomes
  <2> QED
    BY <2>4, <2>5 DEF SameThreads, SameRest
<1>4. \/ Fail(a)
      \/ Goto(a, "cond") /\ UNCHANGED past
      \/ call' = [call EXCEPT ![a].pc = "create", ![a].left = Threads] /\ UNCHANGED past
  BY DEF StartHandle, StartCond
<1>5. CASE Fail(a)
  BY <1>1, <1>2, <1>3, <1>5, FailIs, StartEarly
<1>6. CASE Goto(a, "cond") /\ UNCHANGED past
  <2>1. "cond" \in Pcs /\ call[a].left \in SUBSET Threads
    BY DEF Pcs, StartPcs, Inv, TypeOK, Calls
  <2>2. Others(a) /\ call' \in [App -> Calls] /\ call'[a].pc = "cond" /\ call'[a].i = i
    BY <1>1, <1>6, <2>1, CallGoes
  <2> QED
    BY <1>1, <1>2, <1>3, <1>6, <2>2, StartEarly
<1>7. CASE call' = [call EXCEPT ![a].pc = "create", ![a].left = Threads] /\ UNCHANGED past
  <2>1. "create" \in Pcs /\ Threads \in SUBSET Threads
    BY DEF Pcs, StartPcs
  <2>2. Others(a) /\ call' \in [App -> Calls] /\ call'[a].pc = "create" /\ call'[a].i = i
        /\ call'[a].left = Threads
    BY <1>1, <1>7, <2>1, CallGoes
  <2> QED
    BY <1>1, <1>2, <1>3, <1>7, <2>2, StartEarly
<1> QED
  BY <1>4, <1>5, <1>6, <1>7

\* The last part of a start: nothing of the threads changes.
LEMMA StartLocksStep ==
  ASSUME Inv, NEW a \in App, StartLocks(a)
  PROVE  Inv'
<1>1. PICK i \in Instance : call[a].i = i
  BY DEF StartLocks, On, At, Inv, CallOK, StartPcs
<1>2. /\ wrong = "no" /\ Live(i) /\ call[a].pc = "locks"
      /\ UNCHANGED <<single, logging, wrong>>
  BY <1>1 DEF StartLocks, On, At
<1>3. PICK part \in Parts : inst' = [inst EXCEPT ![i].has = @ \cup {part}] \/ UNCHANGED inst
  BY <1>1 DEF StartLocks, Build, Parts
<1>4. /\ inst' \in [Instance -> Instances] /\ Besides(i) /\ SameThreads(i) /\ SameRest(i)
      /\ inst'[i].fsm = inst[i].fsm
  BY <1>3, PartMade
<1>5. "handle" \in inst'[i].has => "handle" \in inst[i].has
  <2>1. inst'[i].has \in {inst[i].has, inst[i].has \cup {"action_lock"}, inst[i].has \cup {"fs_lock"}}
    BY <1>1, <1>2, InstanceType DEF StartLocks, Build, Inv, TypeOK, Instances
  <2> QED
    BY <2>1
<1>6. /\ ConnectorFits(inst'[i])
      /\ Told(inst'[i]) => inst'[i].st["connector"] = "stopped" \/ inst'[i].loop # "run"
  <2>1. ConnectorFits(inst[i]) /\ (Told(inst[i]) => inst[i].st["connector"] = "stopped" \/ inst[i].loop # "run")
    BY <1>2 DEF Inv, ConnectorOK, ToldOK
  <2> QED
    BY <1>4, <1>5, <2>1 DEF ConnectorFits, SameThreads, SameRest, Told
<1>7. /\ inst'[i].mem = "live" /\ inst'[i].loop = inst[i].loop /\ inst'[i].tinfo = inst[i].tinfo
      /\ inst'[i].left = inst[i].left /\ inst'[i].st = inst[i].st
  BY <1>2, <1>4 DEF SameRest, SameThreads, Live
<1>8. Solo => /\ inst[i].info = Threads /\ inst[i].set = Threads /\ inst[i].lock = Threads /\ inst[i].alive = Threads
              /\ inst[i].loop = "run" /\ inst[i].fsm \in {"off", "run"}
              /\ \A t \in inst[i].alive : inst[i].st[t] \in {"starting", "running"}
  <2>1. LeftToStart(call[a]) = {} /\ call[a].pc \in StartPcs
    BY <1>2 DEF LeftToStart, StartPcs
  <2> QED
    BY <1>1, <1>2, <2>1 DEF Inv, SoloStart, Building
<1>9. CASE Build(a, "action_lock") /\ UNCHANGED <<call, past>>
  <2>1. Others(a) /\ call'[a].pc = "locks" /\ call'[a].i = i /\ LeftToStart(call'[a]) = {} /\ TypeOK'
    BY <1>1, <1>2, <1>4, <1>9 DEF Others, LeftToStart, Inv, TypeOK
  <2>2. Solo' => Building(call'[a], inst'[i])
    BY <1>4, <1>7, <1>8, <1>9, <2>1 DEF Building, SameThreads, Solo
  <2> QED
    BY <1>1, <1>2, <1>4, <1>6, <1>7, <1>9, <2>1, <2>2, StartWork DEF StartPcs
<1>10. CASE "action_lock" \in inst[i].has /\ Build(a, "fs_lock") /\ Return(a, "OK") /\ UNCHANGED past
  <2>1. Others(a) /\ call' \in [App -> Calls] /\ call'[a].pc = "idle" /\ call'[a].i = Null
    BY <1>10, CallReturns
  <2>2. TypeOK' /\ LeftToStart(call'[a]) = {}
    BY <1>2, <1>4, <1>10, <2>1 DEF LeftToStart, Inv, TypeOK
  <2>3. "action_lock" \in inst'[i].has
    BY <1>1, <1>10, InstanceType DEF Build, Inv, TypeOK, Instances
  <2>4. Solo' => Complete(inst'[i]) /\ inst'[i].lock = Threads
    BY <1>4, <1>8, <1>10, <2>3 DEF Complete, SameThreads, Solo
  <2> QED
    BY <1>1, <1>2, <1>4, <1>6, <1>7, <1>10, <2>1, <2>2, <2>4, StartWork DEF StartPcs
<1>11. CASE Fail(a) /\ UNCHANGED inst
  <2>1. FailsAs(a, i) /\ Others(a) /\ call' \in [App -> Calls] /\ call'[a].i = i
    BY <1>1, <1>11, FailIs
  <2>2. call'[a].pc = "undo" /\ LeftToStart(call'[a]) = {}
    BY <2>1 DEF FailsAs, LeftToStart
  <2>3. past \subseteq past' /\ past' \subseteq {"overlap", "abort", "late_failure", "refused"}
    BY <2>1 DEF FailsAs, Inv, TypeOK
  <2>4. TypeOK'
    BY <1>2, <1>11, <2>1, <2>3 DEF Inv, TypeOK
  <2>5. Solo' => Building(call'[a], inst'[i])
    BY <1>4, <1>7, <1>8, <2>2, <2>3 DEF Building, SameThreads, Solo
  <2>6. past' # {}
    <3>1. CASE Solo
      BY <1>8, <2>1, <3>1 DEF FailsAs, Threads
    <3>2. CASE ~Solo
      BY <2>3, <3>2 DEF Solo
    <3> QED
      BY <3>1, <3>2
  <2> QED
    BY <1>1, <1>2, <1>4, <1>6, <1>7, <2>1, <2>2, <2>3, <2>4, <2>5, <2>6, StartWork DEF StartPcs
<1> QED
  BY <1>1, <1>9, <1>10, <1>11 DEF StartLocks, Mine

\* A thread's info is allocated.
LEMMA InfoMade ==
  ASSUME Inv, NEW i \in Instance, NEW t \in Threads, inst' = [inst EXCEPT ![i].info = @ \cup {t}]
  PROVE  /\ inst' \in [Instance -> Instances] /\ Besides(i) /\ SameRest(i)
         /\ inst'[i].fsm = inst[i].fsm /\ inst'[i].has = inst[i].has
         /\ inst'[i].st = inst[i].st /\ inst'[i].alive = inst[i].alive
         /\ inst'[i].set = inst[i].set /\ inst'[i].lock = inst[i].lock
         /\ inst'[i].info = inst[i].info \cup {t}
<1>1. inst[i] \in Instances
  BY InstanceType
<1>2. PICK r : r = [inst[i] EXCEPT !.info = inst[i].info \cup {t}]
  OBVIOUS
<1>3. r \in Instances
  BY <1>1, <1>2 DEF Instances
<1>4. Besides(i) /\ inst'[i] = r /\ inst' \in [Instance -> Instances]
  BY <1>2, <1>3, InstanceBecomes
<1> QED
  BY <1>1, <1>2, <1>4 DEF SameRest, Instances

\* A thread is made, and perhaps there.
ThreadReady(i, t) ==
  inst' = [inst EXCEPT ![i].info = @ \cup {t}, ![i].set = @ \cup {t},
                       ![i].lock = @ \cup {t}, ![i].st[t] = "starting"]
ThreadThere(i, t) ==
  inst' = [inst EXCEPT ![i].info = @ \cup {t}, ![i].set = @ \cup {t},
                       ![i].lock = @ \cup {t}, ![i].st[t] = "starting", ![i].alive = @ \cup {t}]

\* The thread itself is made.
LEMMA ThreadMade ==
  ASSUME Inv, NEW i \in Instance, NEW t \in Threads, NEW alive,
         \/ alive = inst[i].alive /\ ThreadReady(i, t)
         \/ alive = inst[i].alive \cup {t} /\ ThreadThere(i, t)
  PROVE  /\ inst' \in [Instance -> Instances] /\ Besides(i) /\ SameRest(i)
         /\ inst'[i].fsm = inst[i].fsm /\ inst'[i].has = inst[i].has
         /\ inst'[i].st[t] = "starting" /\ \A u \in Threads \ {t} : inst'[i].st[u] = inst[i].st[u]
         /\ inst'[i].set = inst[i].set \cup {t} /\ inst'[i].lock = inst[i].lock \cup {t}
         /\ inst'[i].info = inst[i].info \cup {t} /\ inst'[i].alive = alive
<1>1. inst \in [Instance -> Instances] /\ inst[i] \in Instances /\ inst[i].st \in [Threads -> Status]
  BY InstanceType DEF Inv, TypeOK
<1>2. PICK st : st = [inst[i].st EXCEPT ![t] = "starting"]
  OBVIOUS
<1>3. st \in [Threads -> Status] /\ st[t] = "starting" /\ \A u \in Threads \ {t} : st[u] = inst[i].st[u]
  BY <1>1, <1>2 DEF Status
<1>4. PICK q : q = [[[[inst[i] EXCEPT !.info = inst[i].info \cup {t}] EXCEPT !.set = inst[i].set \cup {t}]
                        EXCEPT !.lock = inst[i].lock \cup {t}] EXCEPT !.st = st]
  OBVIOUS
<1>5. /\ q \in Instances /\ q.info = inst[i].info \cup {t} /\ q.set = inst[i].set \cup {t}
      /\ q.lock = inst[i].lock \cup {t} /\ q.st = st /\ q.alive = inst[i].alive
      /\ q.fsm = inst[i].fsm /\ q.has = inst[i].has /\ q.mem = inst[i].mem /\ q.loop = inst[i].loop
      /\ q.tinfo = inst[i].tinfo /\ q.left = inst[i].left /\ q.end = inst[i].end
  BY <1>1, <1>3, <1>4 DEF Instances
<1>6. CASE alive = inst[i].alive /\ ThreadReady(i, t)
  <2>1. inst' = [inst EXCEPT ![i] = q]
    BY <1>1, <1>2, <1>4, <1>6 DEF Instances, ThreadReady
  <2>2. Besides(i) /\ inst'[i] = q /\ inst' \in [Instance -> Instances]
    BY <1>5, <2>1, InstanceBecomes
  <2> QED
    BY <1>3, <1>5, <1>6, <2>2 DEF SameRest
<1>7. CASE alive = inst[i].alive \cup {t} /\ ThreadThere(i, t)
  <2>1. PICK r : r = [q EXCEPT !.alive = alive]
    OBVIOUS
  <2>2. inst' = [inst EXCEPT ![i] = r]
    BY <1>1, <1>2, <1>4, <1>7, <2>1 DEF Instances, ThreadThere
  <2>3. alive \subseteq Threads
    BY <1>7, InstanceType
  <2>4. /\ r \in Instances /\ r.info = q.info /\ r.set = q.set /\ r.lock = q.lock /\ r.st = q.st /\ r.alive = alive
        /\ r.fsm = q.fsm /\ r.has = q.has /\ r.mem = q.mem /\ r.loop = q.loop
        /\ r.tinfo = q.tinfo /\ r.left = q.left /\ r.end = q.end
    BY <1>5, <2>1, <2>3 DEF Instances
  <2>5. Besides(i) /\ inst'[i] = r /\ inst' \in [Instance -> Instances]
    BY <2>2, <2>4, InstanceBecomes
  <2> QED
    BY <1>3, <1>5, <2>4, <2>5 DEF SameRest
<1> QED
  BY <1>6, <1>7

\* ccapi_create_and_start_thread, and where it fails.
LEMMA CreateThreadStep ==
  ASSUME Inv, NEW a \in App, CreateThread(a)
  PROVE  Inv'
<1>1. PICK i \in Instance : call[a].i = i
  BY DEF CreateThread, On, At, Inv, CallOK, StartPcs
<1>2. PICK left : call[a].left = left
  OBVIOUS
<1>3. PICK t : FirstOf(left) = t
  OBVIOUS
<1>4. /\ wrong = "no" /\ Live(i) /\ call[a].pc = "create" /\ call[a].pc \in StartPcs
      /\ UNCHANGED <<single, logging, wrong>>
  BY <1>1 DEF CreateThread, On, At, StartPcs
<1>5. left \subseteq Threads /\ t \in left /\ t \in Threads /\ LeftToStart(call[a]) = left
  <2>1. left \subseteq Threads /\ left # {}
    BY <1>2, <1>4 DEF Inv, TypeOK, Calls, CallOK
  <2> QED
    BY <1>2, <1>3, <1>4, <2>1, FirstIs DEF LeftToStart
<1>6. \A u \in left : NoneYet(inst[i], u)
  BY <1>1, <1>4, <1>5 DEF Inv, StartOK
<1>7. /\ ConnectorFits(inst[i]) /\ (Told(inst[i]) => inst[i].st["connector"] = "stopped" \/ inst[i].loop # "run")
  BY <1>4 DEF Inv, ConnectorOK, ToldOK
<1>8. Solo => Building(call[a], inst[i])
  BY <1>1, <1>4 DEF Inv, SoloStart
<1>9. \/ Fail(a) /\ UNCHANGED inst
      \/ Fail(a) /\ inst' = [inst EXCEPT ![i].info = @ \cup {t}]
      \/ Fail(a) /\ ThreadReady(i, t)
      \/ ThreadThere(i, t) /\ Goto(a, "started") /\ UNCHANGED past
  BY <1>1, <1>2, <1>3 DEF CreateThread, ThreadReady, ThreadThere
\* What is left to show once it is known what the instance becomes.
<1>10. ASSUME inst' \in [Instance -> Instances], Besides(i), SameRest(i),
              inst'[i].fsm = inst[i].fsm, inst'[i].has = inst[i].has,
              \A u \in Threads \ {t} : inst'[i].st[u] = inst[i].st[u],
              inst'[i].st[t] \in {"none", "starting"}, inst'[i].alive \subseteq inst[i].alive \cup {t},
              t \in inst'[i].alive => inst'[i].st[t] = "starting"
       PROVE  /\ ConnectorFits(inst'[i])
              /\ Told(inst'[i]) => inst'[i].st["connector"] = "stopped" \/ inst'[i].loop # "run"
              /\ inst'[i].mem = "live" /\ inst'[i].loop = inst[i].loop /\ inst'[i].tinfo = inst[i].tinfo
              /\ inst'[i].left = inst[i].left
              /\ inst[i].st["connector"] = "stopped" => inst'[i].st["connector"] = "stopped"
  <2>1. "connector" \in Threads /\ inst[i].st[t] = "none" /\ t \notin inst[i].alive /\ inst[i].alive \subseteq Threads
    BY <1>5, <1>6, InstanceType DEF Threads, NoneYet
  <2>2. /\ inst'[i].mem = "live" /\ inst'[i].loop = inst[i].loop /\ inst'[i].tinfo = inst[i].tinfo
        /\ inst'[i].left = inst[i].left /\ inst'[i].end = inst[i].end
    BY <1>4, <1>10 DEF SameRest, Live
  <2>3. Told(inst'[i]) => Told(inst[i])
    BY <1>10, <2>1 DEF Told, Threads
  <2>4. CASE t = "connector"
    <3>1. inst[i].loop = "run" /\ inst[i].fsm # "ended" /\ ~Told(inst[i])
      BY <1>7, <2>1, <2>4 DEF ConnectorFits
    <3> QED
      BY <1>7, <1>10, <2>1, <2>2, <2>3, <2>4, <3>1 DEF ConnectorFits
  <2>5. CASE t # "connector"
    <3>1. inst'[i].st["connector"] = inst[i].st["connector"]
      BY <1>10, <2>1, <2>5
    <3>2. \A u \in inst'[i].alive : inst'[i].st[u] \in {"starting", "running", "stopping"}
      BY <1>7, <1>10, <2>1 DEF ConnectorFits
    <3>3. ConnectorFits(inst'[i])
      BY <1>7, <1>10, <2>2, <3>1, <3>2 DEF ConnectorFits
    <3> QED
      BY <1>7, <2>2, <2>3, <3>1, <3>3
  <2> QED
    BY <2>4, <2>5
\* A failure, whatever it leaves of the thread.
<1>11. ASSUME Fail(a), inst' \in [Instance -> Instances], Besides(i), SameRest(i),
              inst'[i].fsm = inst[i].fsm, inst'[i].has = inst[i].has,
              \A u \in Threads \ {t} : inst'[i].st[u] = inst[i].st[u],
              inst'[i].st[t] \in {"none", "starting"}, inst'[i].alive = inst[i].alive,
              inst'[i].lock \subseteq inst[i].lock \cup {t}, inst'[i].info \subseteq inst[i].info \cup {t}
       PROVE  Inv'
  <2>1. FailsAs(a, i) /\ Others(a) /\ call' \in [App -> Calls] /\ call'[a].i = i
    BY <1>1, <1>11, FailIs
  <2>2. call'[a].pc = "undo" /\ LeftToStart(call'[a]) = {}
    BY <2>1 DEF FailsAs, LeftToStart
  <2>3. past \subseteq past' /\ past' \subseteq {"overlap", "abort", "late_failure", "refused"}
    BY <2>1 DEF FailsAs, Inv, TypeOK
  <2>4. TypeOK'
    BY <1>4, <1>11, <2>1, <2>3 DEF Inv, TypeOK
  <2>5. t \notin inst[i].alive
    BY <1>5, <1>6 DEF NoneYet
  <2>6. /\ ConnectorFits(inst'[i])
        /\ Told(inst'[i]) => inst'[i].st["connector"] = "stopped" \/ inst'[i].loop # "run"
        /\ inst'[i].mem = "live" /\ inst'[i].loop = inst[i].loop /\ inst'[i].tinfo = inst[i].tinfo
        /\ inst'[i].left = inst[i].left
        /\ inst[i].st["connector"] = "stopped" => inst'[i].st["connector"] = "stopped"
    BY <1>10, <1>11, <2>5
  <2>7. Solo' => Building(call'[a], inst'[i])
    <3>1. Solo' => Solo
      BY <2>3 DEF Solo
    <3> QED
      BY <1>8, <1>11, <2>2, <2>5, <2>6, <3>1, InstanceType DEF Building
  <2>8. past' = {} => inst'[i].alive = {} /\ OneLeft(inst'[i])
    <3> SUFFICES ASSUME past' = {} PROVE inst'[i].alive = {} /\ OneLeft(inst'[i])
      OBVIOUS
    <3>1. inst[i].alive = {} /\ Solo
      BY <2>1, <2>3 DEF FailsAs, Solo
    <3>2. inst[i].info = {} /\ inst[i].lock = {}
      BY <1>4, <1>8, <3>1 DEF Building
    <3> QED
      BY <1>5, <1>11, <3>1, <3>2 DEF OneLeft
  <2> QED
    BY <1>1, <1>4, <1>11, <2>1, <2>2, <2>3, <2>4, <2>6, <2>7, <2>8, StartWork DEF StartPcs
<1>12. CASE Fail(a) /\ UNCHANGED inst
  <2>1. inst \in [Instance -> Instances] /\ inst[i].st[t] = "none"
    BY <1>5, <1>6 DEF NoneYet, Inv, TypeOK
  <2> QED
    BY <1>11, <1>12, <2>1 DEF Besides, SameRest
<1>13. CASE Fail(a) /\ inst' = [inst EXCEPT ![i].info = @ \cup {t}]
  <2>1. inst[i].st[t] = "none"
    BY <1>5, <1>6 DEF NoneYet
  <2> QED
    BY <1>5, <1>11, <1>13, <2>1, InfoMade
<1>14. CASE Fail(a) /\ ThreadReady(i, t)
  <2>1. PICK alive : alive = inst[i].alive
    OBVIOUS
  <2>2. /\ inst' \in [Instance -> Instances] /\ Besides(i) /\ SameRest(i)
        /\ inst'[i].fsm = inst[i].fsm /\ inst'[i].has = inst[i].has
        /\ inst'[i].st[t] = "starting" /\ \A u \in Threads \ {t} : inst'[i].st[u] = inst[i].st[u]
        /\ inst'[i].set = inst[i].set \cup {t} /\ inst'[i].lock = inst[i].lock \cup {t}
        /\ inst'[i].info = inst[i].info \cup {t} /\ inst'[i].alive = alive
    BY <1>5, <1>14, <2>1, ThreadMade
  <2> QED
    BY <1>11, <1>14, <2>1, <2>2
<1>15. CASE ThreadThere(i, t) /\ Goto(a, "started") /\ UNCHANGED past
  <2>1. /\ inst' \in [Instance -> Instances] /\ Besides(i) /\ SameRest(i)
        /\ inst'[i].fsm = inst[i].fsm /\ inst'[i].has = inst[i].has
        /\ inst'[i].st[t] = "starting" /\ \A u \in Threads \ {t} : inst'[i].st[u] = inst[i].st[u]
        /\ inst'[i].set = inst[i].set \cup {t} /\ inst'[i].lock = inst[i].lock \cup {t}
        /\ inst'[i].info = inst[i].info \cup {t} /\ inst'[i].alive = inst[i].alive \cup {t}
    <3>1. PICK alive : alive = inst[i].alive \cup {t}
      OBVIOUS
    <3>2. /\ inst' \in [Instance -> Instances] /\ Besides(i) /\ SameRest(i)
          /\ inst'[i].fsm = inst[i].fsm /\ inst'[i].has = inst[i].has
          /\ inst'[i].st[t] = "starting" /\ \A u \in Threads \ {t} : inst'[i].st[u] = inst[i].st[u]
          /\ inst'[i].set = inst[i].set \cup {t} /\ inst'[i].lock = inst[i].lock \cup {t}
          /\ inst'[i].info = inst[i].info \cup {t} /\ inst'[i].alive = alive
      BY <1>5, <1>15, <3>1, ThreadMade
    <3> QED
      BY <3>1, <3>2
  <2>2. /\ ConnectorFits(inst'[i])
        /\ Told(inst'[i]) => inst'[i].st["connector"] = "stopped" \/ inst'[i].loop # "run"
        /\ inst'[i].mem = "live" /\ inst'[i].loop = inst[i].loop /\ inst'[i].tinfo = inst[i].tinfo
        /\ inst'[i].left = inst[i].left
        /\ inst[i].st["connector"] = "stopped" => inst'[i].st["connector"] = "stopped"
    BY <1>10, <2>1
  <2>3. "started" \in Pcs /\ call[a].left \in SUBSET Threads
    BY <1>2, <1>5 DEF Pcs, StartPcs
  <2>4. Others(a) /\ call' \in [App -> Calls] /\ call'[a].pc = "started" /\ call'[a].i = i /\ call'[a].left = left
    <3>1. Goto(a, "started")
      BY <1>15
    <3>2. Others(a) /\ call' \in [App -> Calls] /\ call'[a].pc = "started" /\ call'[a].i = call[a].i
          /\ call'[a].left = call[a].left
      BY <2>3, <3>1, CallGoesTo
    <3> QED
      BY <1>1, <1>2, <3>2
  <2>5. LeftToStart(call'[a]) = left \ {t}
    BY <1>3, <2>4 DEF LeftToStart
  <2>6. TypeOK'
    BY <1>4, <1>15, <2>1, <2>4 DEF Inv, TypeOK
  <2>7. \A u \in LeftToStart(call'[a]) : NoneYet(inst'[i], u)
    BY <1>5, <1>6, <2>1, <2>5 DEF NoneYet
  <2>8. Solo' => Building(call'[a], inst'[i])
    <3> SUFFICES ASSUME Solo PROVE Building(call'[a], inst'[i])
      BY <1>15 DEF Solo
    <3>1. /\ inst[i].info = Threads \ left /\ inst[i].set = inst[i].info
          /\ inst[i].lock = inst[i].info /\ inst[i].alive = inst[i].info
          /\ inst[i].loop = "run" /\ inst[i].fsm \in {"off", "run"}
          /\ \A u \in inst[i].alive : inst[i].st[u] \in {"starting", "running"}
      BY <1>4, <1>5, <1>8 DEF Building
    <3>2. inst'[i].info = Threads \ (left \ {t})
      BY <1>5, <2>1, <3>1
    <3>3. \A u \in inst'[i].alive : inst'[i].st[u] \in {"starting", "running"}
      BY <2>1, <3>1
    <3> QED
      BY <2>1, <2>2, <2>4, <2>5, <3>1, <3>2, <3>3 DEF Building
  <2> QED
    BY <1>1, <1>4, <1>5, <1>15, <2>1, <2>2, <2>4, <2>6, <2>7, <2>8, StartWork DEF StartPcs
<1> QED
  BY <1>9, <1>12, <1>13, <1>14, <1>15

\* The instance is allocated; it may be memory that was an instance before.
LEMMA StartAllocStep ==
  ASSUME Inv, NEW a \in App, StartAlloc(a)
  PROVE  Inv'
<1>1. /\ wrong = "no" /\ call[a].pc = "alloc" /\ call[a].i = Null /\ UNCHANGED <<logging, past, wrong>>
  BY DEF StartAlloc, At, Inv, CallOK
<1>2. Solo => \A b \in App \ {a} : call[b].pc = "idle"
  BY <1>1 DEF Inv, SoloOK
<1>3. CASE Goto(a, "undolog") /\ UNCHANGED <<single, inst>>
  <2>1. /\ Others(a) /\ call' \in [App -> Calls] /\ call'[a].pc = "undolog" /\ call'[a].i = Null
    BY <1>1, <1>3, CallGoesTo DEF Pcs
  <2>2. Users' = Users /\ LiveInstances' = LiveInstances
    BY <1>1, <1>3, <2>1 DEF Users, Others, LiveInstances, Live
  <2>3. UsersOK'
    BY <1>1, <2>2, UsersKept
  <2>4. TypeOK'
    BY <1>1, <1>3, <2>1 DEF Inv, TypeOK
  <2>5. InstancesOK'
    BY <1>1, <1>3, InstancesKept
  <2>6. CallOK' /\ OneStarter' /\ SoloOK'
    BY <1>1, <1>2, <2>1 DEF Inv, CallOK, OneStarter, SoloOK, Others, Starts, StartPcs, StopPcs, Solo
  <2>7. StartOK' /\ StopOK'
    BY <1>1, <1>3, <2>1 DEF Inv, StartOK, StopOK, Others, StartPcs, Live
  <2>8. LockOK'
    BY <1>1, <1>2, <2>1 DEF Inv, LockOK, Solo, Others
  <2>9. SoloStart' /\ SoloStop'
    BY <1>1, <1>3, <2>1 DEF Inv, SoloStart, SoloStop, Others, StartPcs, Live, Solo
  <2>10. SoloStarted'
    BY <1>1, <1>3, <2>1, StartedKept DEF Others, Starts, Ending, StartPcs
  <2>11. FoundOK' /\ InfoGoneOK' /\ UseIsSafe'
    BY <1>1, <1>3, <2>1 DEF Inv, FoundOK, InfoGoneOK, UseIsSafe, Others, StartPcs, StopPcs, Live
  <2> QED
    BY <2>3, <2>4, <2>5, <2>6, <2>7, <2>8, <2>9, <2>10, <2>11 DEF Inv, InstancesOK
<1>4. ASSUME NEW i \in Instance, Unreferenced(i), inst' = [inst EXCEPT ![i] = Fresh], single' = i,
             call' = [call EXCEPT ![a].pc = "config", ![a].i = i]
      PROVE  Inv'
  <2>1. Fresh \in Instances
    BY DEF Fresh, Instances, Status, Parts, Threads
  <2>2. Besides(i) /\ inst'[i] = Fresh /\ inst' \in [Instance -> Instances]
    BY <1>4, <2>1, InstanceBecomes
  <2>3. Others(a) /\ call' \in [App -> Calls] /\ call'[a].pc = "config" /\ call'[a].i = i
    <3>1. call[a] \in Calls /\ call \in [App -> Calls]
      BY DEF Inv, TypeOK
    <3>2. PICK c : c = [[call[a] EXCEPT !.pc = "config"] EXCEPT !.i = i]
      OBVIOUS
    <3>3. c \in Calls /\ c.pc = "config" /\ c.i = i
      BY <3>1, <3>2 DEF Calls
    <3>4. call' = [call EXCEPT ![a] = c]
      BY <1>4, <3>1, <3>2
    <3> QED
      BY <3>3, <3>4, CallBecomes
  <2>4. ~Live(i) /\ \A b \in App : call[b].i # i
    BY <1>4 DEF Unreferenced, Live
  <2>5. /\ Fresh.mem = "live" /\ Fresh.info = {} /\ Fresh.set = {} /\ Fresh.lock = {} /\ Fresh.alive = {}
        /\ \A t \in Threads : Fresh.st[t] = "none"
        /\ Fresh.fsm = "off" /\ Fresh.loop = "run" /\ Fresh.end = "no" /\ Fresh.tinfo = "null"
    BY DEF Fresh
  <2> HIDE DEF Fresh
  <2>6. ConnectorFits(Fresh) /\ ~Told(Fresh)
    BY <2>5 DEF ConnectorFits, Told, Threads
  <2>7. InstancesOK'
    <3>1. ConnectorOK'
      BY <1>1, <2>2, <2>5, <2>6 DEF Inv, ConnectorOK, Live, Besides
    <3>2. ToldOK'
      BY <2>2, <2>6 DEF Inv, ToldOK, Live, Besides
    <3>3. SoloAbort'
      BY <1>1, <2>2, <2>5 DEF Inv, SoloAbort, Live, Solo, Besides
    <3>4. LeftOK'
      BY <1>1, <2>2, <2>5 DEF Inv, LeftOK, Solo, Besides
    <3> QED
      BY <3>1, <3>2, <3>3, <3>4 DEF InstancesOK
  <2>8. UsersOK'
    <3>1. Users' = Users \ {a} /\ a \in Users
      BY <1>1, <2>3 DEF Users, Others
    <3>2. LiveInstances' = LiveInstances \cup {i} /\ i \notin LiveInstances
      BY <2>2, <2>4, <2>5 DEF LiveInstances, Live, Besides
    <3>3. Cardinality(Users \ {a}) = Cardinality(Users) - 1
      BY <3>1, OneLess DEF Users
    <3>4. Cardinality(LiveInstances \cup {i}) = Cardinality(LiveInstances) + 1
      BY <3>2, OneMore DEF LiveInstances
    <3>5. Cardinality(LiveInstances) \in Nat /\ Cardinality(Users) \in Nat
      BY Counted DEF LiveInstances, Users
    <3>6. logging.users = Cardinality(LiveInstances \cup {i}) + Cardinality(Users \ {a})
      BY <3>3, <3>4, <3>5 DEF Inv, UsersOK
    <3> QED
      BY <1>1, <3>1, <3>2, <3>6 DEF UsersOK
  <2>9. TypeOK'
    BY <1>1, <1>4, <2>2, <2>3 DEF Inv, TypeOK
  <2>10. CallOK' /\ SoloOK'
    BY <1>1, <1>2, <2>3 DEF Inv, CallOK, SoloOK, Others, StartPcs, StopPcs, Solo
  <2>11. OneStarter'
    BY <1>1, <2>3, <2>4 DEF Inv, OneStarter, Others, Starts
  <2>12. \A b \in App \ {a} : /\ call'[b] = call[b]
                              /\ call[b].i \in Instance => inst'[call[b].i] = inst[call[b].i]
    BY <2>2, <2>3, <2>4 DEF Others, Besides
  <2>13. StartOK'
    <3> SUFFICES ASSUME NEW b \in App, call'[b].pc \in StartPcs, Live(call[b].i)' \/ b = a
                 PROVE  \A t \in LeftToStart(call'[b]) : NoneYet(inst'[call'[b].i], t)
      BY <2>12 DEF StartOK
    <3>1. CASE b = a
      BY <2>2, <2>3, <2>5, <3>1 DEF NoneYet, LeftToStart
    <3>2. CASE b # a
      BY <2>12, <3>2 DEF Inv, StartOK, Live, CallOK
    <3> QED
      BY <3>1, <3>2
  <2>14. StopOK'
    BY <2>3, <2>12 DEF Inv, StopOK, Live, CallOK, StopPcs
  <2>15. LockOK'
    BY <1>1, <1>2, <2>3 DEF Inv, LockOK, Solo, Others
  <2>16. SoloStart' /\ SoloStop'
    <3>1. Building(call'[a], Fresh)
      BY <2>3, <2>5 DEF Building, LeftToStart
    <3> QED
      BY <1>1, <1>2, <2>2, <2>3, <3>1 DEF SoloStart, SoloStop, Others, StartPcs, Solo
  <2>17. SoloStarted'
    <3> SUFFICES ASSUME Solo', NEW j \in Instance, Live(j)', \A b \in App : ~Starts(b, j)'
                 PROVE  /\ Complete(inst'[j])
                        /\ (\A b \in App : ~Ending(b, j)') /\ inst'[j].loop = "run" => inst'[j].lock = Threads
      BY DEF SoloStarted
    <3>1. j # i
      BY <2>3 DEF Starts, StartPcs
    <3>2. inst'[j] = inst[j] /\ Live(j) /\ Solo
      BY <1>1, <2>2, <3>1 DEF Besides, Live, Solo
    <3>3. \A b \in App : ~Starts(b, j) /\ ~Ending(b, j)
      BY <1>1, <1>2, <3>2 DEF Starts, Ending, StartPcs
    <3> QED
      BY <3>2, <3>3 DEF Inv, SoloStarted
  <2>18. FoundOK'
    <3> SUFFICES ASSUME past' = {} PROVE FoundOK'
      BY DEF FoundOK
    <3>1. Solo /\ past = {} /\ Live(single)'
      BY <1>1, <1>4, <2>2, <2>5 DEF Solo, Live
    <3>2. \A b \in App : call'[b].pc \in StartPcs \cup StopPcs \cup {"act"} => inst'[call'[b].i].mem = "live"
      BY <1>2, <3>1, <2>2, <2>3, <2>5 DEF StartPcs, StopPcs, Others
    <3>3. \A j \in Instance : ~Live(j)' => inst'[j].alive = {}
      BY <2>2, <2>5, <3>1 DEF Inv, FoundOK, Besides, Live
    <3> QED
      BY <3>1, <3>2, <3>3 DEF FoundOK, Live
  <2>19. InfoGoneOK'
    <3> SUFFICES ASSUME past \cap {"overlap", "refused"} = {}, NEW j \in Instance, Live(j)', inst'[j].tinfo = "freed",
                        inst'[j].loop = "run"
                 PROVE  \E b \in App : call'[b].pc \in {"terminate", "wait", "request", "await", "free"} /\ call'[b].i = j
      BY <1>1 DEF InfoGoneOK
    <3>1. j # i /\ Live(j) /\ inst[j].tinfo = "freed" /\ inst[j].loop = "run"
      BY <2>2, <2>5 DEF Live, Besides
    <3>2. PICK b \in App : call[b].pc \in {"terminate", "wait", "request", "await", "free"} /\ call[b].i = j
      BY <3>1 DEF Inv, InfoGoneOK
    <3> QED
      BY <1>1, <2>12, <3>2
  <2>20. UseIsSafe'
    BY <1>1 DEF UseIsSafe
  <2> QED
    BY <2>7, <2>8, <2>9, <2>10, <2>11, <2>13, <2>14, <2>15, <2>16, <2>17, <2>18, <2>19, <2>20
      DEF Inv, InstancesOK
<1> QED
  BY <1>3, <1>4 DEF StartAlloc

\* Freeing an instance.
LEMMA FreedIs ==
  ASSUME Inv, NEW i \in Instance, NEW end \in {"failed", "stopped", "aborted"}
  PROVE  LET r == Freed(i, end)
         IN  /\ r \in Instances /\ r.mem = "gone" /\ r.end = end /\ r.has = inst[i].has \cap {"handle"}
             /\ r.info = inst[i].info \ inst[i].set /\ r.set = {} /\ r.lock = inst[i].lock
             /\ r.alive = inst[i].alive
<1>1. inst[i] \in Instances
  BY InstanceType
<1> QED
  BY <1>1 DEF Freed, Instances

\* A step that frees an instance, of a call that started or stopped it or of
\* its own connector thread.
LEMMA InstanceFreed ==
  ASSUME Inv, NEW i \in Instance, Live(i), Besides(i), wrong = "no", UNCHANGED single,
         inst'[i].mem = "gone", inst'[i].end \in {"failed", "stopped", "aborted"},
         past' = past, wrong' \in {"no", "cond"}, TypeOK', UsersOK', LockOK', CallsOK',
         inst'[i].end = "stopped" /\ Solo => NothingLeft(inst'[i]) /\ inst'[i].lock = {},
         inst'[i].end = "aborted" /\ past \subseteq {"abort"} => NothingLeft(inst'[i]) /\ inst'[i].lock = {"connector"},
         inst'[i].end = "failed" /\ past = {} => inst'[i].has \subseteq {"handle"} /\ OneLeft(inst'[i]),
         past = {} => inst'[i].alive = {} /\ \E b \in App : call'[b].pc \in {"undolog", "freelog"},
         \A b \in App : \/ call'[b] = call[b] /\ (Solo => call[b].i # i \/ call[b].pc \notin StartPcs)
                        \/ call'[b].pc \in {"undolog", "freelog"} /\ call[b].i = i,
         past = {} => \A b \in App : call'[b].pc \in {"idle", "log", "alloc", "undolog", "freelog"}
  PROVE  Inv'
<1>1. \A j \in Instance : Live(j)' => j # i /\ Live(j) /\ inst'[j] = inst[j]
  BY DEF Live, Besides
<1>2. \A b \in App : call'[b].pc \in StartPcs \cup StopPcs \cup {"act"} => call'[b] = call[b]
  BY DEF StartPcs, StopPcs
<1>3. CallOK
  BY DEF Inv
<1>4. InstancesOK'
  <2>1. ConnectorOK' /\ ToldOK'
    BY <1>1 DEF Inv, ConnectorOK, ToldOK
  <2>2. SoloAbort'
    BY <1>1 DEF Inv, SoloAbort, Solo
  <2>3. LeftOK'
    BY DEF Inv, LeftOK, Solo, Besides
  <2> QED
    BY <2>1, <2>2, <2>3 DEF InstancesOK
<1>5. StartOK'
  BY <1>1, <1>2, <1>3 DEF Inv, StartOK, CallOK, Live, Besides
<1>6. StopOK'
  BY <1>1, <1>2, <1>3 DEF Inv, StopOK, CallOK, StopPcs, Live, Besides
<1>7. SoloStart'
  BY <1>1, <1>2, <1>3 DEF Inv, SoloStart, CallOK, StartPcs, Live, Besides, Solo
<1>8. SoloStop'
  BY <1>1, <1>2, <1>3 DEF Inv, SoloStop, CallOK, StopPcs, Live, Besides, Solo
<1>9. SoloStarted'
  <2> SUFFICES ASSUME Solo', NEW j \in Instance, Live(j)', \A b \in App : ~Starts(b, j)'
               PROVE  /\ Complete(inst'[j])
                      /\ (\A b \in App : ~Ending(b, j)') /\ inst'[j].loop = "run" => inst'[j].lock = Threads
    BY DEF SoloStarted
  <2>1. inst'[j] = inst[j] /\ Live(j) /\ Solo /\ j # i
    BY <1>1 DEF Solo
  <2>2. \A b \in App : ~Starts(b, j)
    BY <2>1 DEF Starts
  <2>3. (\A b \in App : ~Ending(b, j)') => (\A b \in App : ~Ending(b, j))
    BY <2>1 DEF Ending
  <2> QED
    BY <2>1, <2>2, <2>3 DEF Inv, SoloStarted
<1>10. FoundOK'
  BY DEF Inv, FoundOK, Live, Besides, StartPcs, StopPcs
<1>11. InfoGoneOK'
  <2> SUFFICES ASSUME past \cap {"overlap", "refused"} = {}, NEW j \in Instance, Live(j)', inst'[j].tinfo = "freed",
                      inst'[j].loop = "run"
               PROVE  \E b \in App : call'[b].pc \in {"terminate", "wait", "request", "await", "free"} /\ call'[b].i = j
    BY DEF InfoGoneOK
  <2>1. j # i /\ Live(j) /\ inst[j].tinfo = "freed" /\ inst[j].loop = "run"
    BY <1>1
  <2>2. PICK b \in App : call[b].pc \in {"terminate", "wait", "request", "await", "free"} /\ call[b].i = j
    BY <2>1 DEF Inv, InfoGoneOK
  <2> QED
    BY <2>1, <2>2
<1>12. UseIsSafe'
  BY DEF UseIsSafe
<1> QED
  BY <1>4, <1>5, <1>6, <1>7, <1>8, <1>9, <1>10, <1>11, <1>12 DEF Inv, InstancesOK, CallsOK

\* The call that freed its instance uses the logging lock in its place.
LEMMA UserMoved ==
  ASSUME Inv, NEW a \in App, NEW i \in Instance, Live(i), Besides(i), inst'[i].mem = "gone",
         call[a].pc \in StartPcs \cup StopPcs, Others(a), call'[a].pc \in {"undolog", "freelog"},
         UNCHANGED logging
  PROVE  UsersOK'
<1>1. Users' = Users \cup {a} /\ a \notin Users
  BY DEF Users, Others, StartPcs, StopPcs
<1>2. LiveInstances' = LiveInstances \ {i} /\ i \in LiveInstances
  BY DEF LiveInstances, Live, Besides
<1>3. Cardinality(Users \cup {a}) = Cardinality(Users) + 1
  BY <1>1, OneMore DEF Users
<1>4. Cardinality(LiveInstances \ {i}) = Cardinality(LiveInstances) - 1
  BY <1>2, OneLess DEF LiveInstances
<1>5. Cardinality(LiveInstances) \in Nat /\ Cardinality(Users) \in Nat
  BY Counted DEF LiveInstances, Users
<1>6. logging.users = Cardinality(LiveInstances \ {i}) + Cardinality(Users \cup {a})
  BY <1>3, <1>4, <1>5 DEF Inv, UsersOK
<1> QED
  BY <1>1, <1>2, <1>6 DEF UsersOK

\* A start that failed, and a stop, free their instance.
LEMMA FreeStep ==
  ASSUME Inv, NEW a \in App, StartUndo(a) \/ StopFree(a)
  PROVE  Inv'
<1>1. PICK i \in Instance : call[a].i = i
  BY DEF StartUndo, StopFree, On, At, Inv, CallOK, StartPcs, StopPcs
<1>2. /\ wrong = "no" /\ Live(i) /\ call[a].pc \in {"undo", "free"}
      /\ UNCHANGED <<single, logging, past>> /\ wrong' \in {"no", "cond"}
  BY <1>1 DEF StartUndo, StopFree, On, At
<1>3. PICK end \in {"failed", "stopped"} :
        /\ inst' = [inst EXCEPT ![i] = Freed(i, end)]
        /\ end = "failed" => call[a].pc = "undo" /\ Goto(a, "undolog")
        /\ end = "stopped" => call[a].pc = "free" /\ Goto(a, "freelog")
  <2>1. CASE StartUndo(a)
    BY <1>1, <2>1 DEF StartUndo, On, At
  <2>2. CASE StopFree(a)
    BY <1>1, <2>2 DEF StopFree, On, At
  <2> QED
    BY <2>1, <2>2
<1>4. PICK pc \in {"undolog", "freelog"} : pc \in Pcs /\ Goto(a, pc)
  BY <1>3 DEF Pcs
<1>5. Others(a) /\ call' \in [App -> Calls] /\ call'[a].pc \in {"undolog", "freelog"} /\ call'[a].i = i
  BY <1>1, <1>4, CallGoesTo
<1>6. PICK r : r = Freed(i, end)
  OBVIOUS
<1>7. /\ r \in Instances /\ r.mem = "gone" /\ r.end = end /\ r.has = inst[i].has \cap {"handle"}
      /\ r.info = inst[i].info \ inst[i].set /\ r.lock = inst[i].lock /\ r.alive = inst[i].alive
  BY <1>6, FreedIs
<1>8. Besides(i) /\ inst'[i] = r /\ inst' \in [Instance -> Instances]
  BY <1>3, <1>6, <1>7, InstanceBecomes
<1>9. TypeOK'
  BY <1>2, <1>5, <1>8 DEF Inv, TypeOK
<1>10. UsersOK'
  BY <1>1, <1>2, <1>5, <1>7, <1>8, UserMoved DEF StartPcs, StopPcs
<1>11. LockOK'
  BY <1>2, <1>5 DEF Inv, LockOK, Solo, Others
<1>12. CallsOK'
  <2>1. CallOK'
    BY <1>1, <1>2, <1>5 DEF Inv, CallOK, Others, StartPcs, StopPcs
  <2>2. OneStarter'
    BY <1>5 DEF Inv, OneStarter, Others, Starts, StartPcs
  <2>3. SoloOK'
    BY <1>2, <1>5 DEF Inv, SoloOK, Others, Solo
  <2> QED
    BY <2>1, <2>2, <2>3 DEF CallsOK
<1>13. Solo => \A b \in App \ {a} : call[b].pc = "idle"
  BY <1>2 DEF Inv, SoloOK
<1>14. ConnectorFits(inst[i])
  BY <1>2 DEF Inv, ConnectorOK
<1>15. end = "stopped" /\ Solo => NothingLeft(r) /\ r.lock = {}
  <2> SUFFICES ASSUME end = "stopped", Solo PROVE NothingLeft(r) /\ r.lock = {}
    OBVIOUS
  <2>1. inst[i].lock = {} /\ \A t \in Threads : inst[i].st[t] = "stopped"
    BY <1>1, <1>2, <1>3 DEF Inv, SoloStop, StopTook
  <2>2. inst[i].alive = {}
    BY <1>14, <2>1, InstanceType DEF ConnectorFits
  <2>3. "handle" \notin inst[i].has
    BY <1>14, <2>1 DEF ConnectorFits, Threads
  <2>4. inst[i].info = Threads /\ inst[i].set = Threads
    <3>1. \A b \in App : ~Starts(b, i)
      BY <1>3, <1>13 DEF Starts, StartPcs
    <3> QED
      BY <1>2, <3>1 DEF Inv, SoloStarted, Complete
  <2> QED
    BY <1>7, <2>1, <2>2, <2>3, <2>4 DEF NothingLeft
<1>16. end = "failed" /\ past = {} => r.has \subseteq {"handle"} /\ OneLeft(r) /\ r.alive = {}
  <2> SUFFICES ASSUME end = "failed", past = {} PROVE r.has \subseteq {"handle"} /\ OneLeft(r) /\ r.alive = {}
    OBVIOUS
  <2>1. inst[i].alive = {} /\ OneLeft(inst[i])
    BY <1>1, <1>3 DEF Inv, SoloStart, Solo
  <2> QED
    BY <1>7, <2>1 DEF OneLeft
<1>17. past = {} => Solo
  BY DEF Solo
<1>18. \A b \in App : \/ call'[b] = call[b] /\ (Solo => call[b].i # i \/ call[b].pc \notin StartPcs)
                      \/ call'[b].pc \in {"undolog", "freelog"} /\ call[b].i = i
  BY <1>1, <1>5, <1>13 DEF Others, StartPcs
<1>19. past = {} => /\ r.alive = {} /\ \E b \in App : call'[b].pc \in {"undolog", "freelog"}
                    /\ \A b \in App : call'[b].pc \in {"idle", "log", "alloc", "undolog", "freelog"}
  BY <1>5, <1>13, <1>15, <1>16, <1>17 DEF Others, NothingLeft
<1> QED
  BY <1>2, <1>7, <1>8, <1>9, <1>10, <1>11, <1>12, <1>15, <1>16, <1>18, <1>19, InstanceFreed

\* The connector thread frees the instance, and leaves the logging lock.
LEMMA AbortFreeStep ==
  ASSUME Inv, NEW i \in Instance, AbortFree(i)
  PROVE  Inv'
<1>1. /\ wrong = "no" /\ Live(i) /\ inst[i].loop = "free" /\ FreeLogging
      /\ UNCHANGED <<single, call, past, wrong>>
  BY DEF AbortFree, Alive
<1>2. PICK q : q = Freed(i, "aborted")
  OBVIOUS
<1>3. PICK r : r = [q EXCEPT !.alive = q.alive \ {"connector"}]
  OBVIOUS
<1>4. /\ q \in Instances /\ q.mem = "gone" /\ q.end = "aborted" /\ q.has = inst[i].has \cap {"handle"}
      /\ q.info = inst[i].info \ inst[i].set /\ q.lock = inst[i].lock /\ q.alive = inst[i].alive
  BY <1>2, FreedIs
<1>5. /\ r \in Instances /\ r.mem = "gone" /\ r.end = "aborted" /\ r.has = inst[i].has \cap {"handle"}
      /\ r.info = inst[i].info \ inst[i].set /\ r.lock = inst[i].lock /\ r.alive = inst[i].alive \ {"connector"}
  BY <1>3, <1>4 DEF Instances
<1>6. inst' = [inst EXCEPT ![i] = r]
  BY <1>2, <1>3 DEF AbortFree
<1>7. Besides(i) /\ inst'[i] = r /\ inst' \in [Instance -> Instances]
  BY <1>5, <1>6, InstanceBecomes
<1>8. Users' = Users /\ LiveInstances' = LiveInstances \ {i} /\ i \in LiveInstances
  BY <1>1, <1>5, <1>7 DEF Users, LiveInstances, Live, Besides
<1>9. Cardinality(LiveInstances') + Cardinality(Users') = Cardinality(LiveInstances) + Cardinality(Users) - 1
  <2>1. Cardinality(LiveInstances \ {i}) = Cardinality(LiveInstances) - 1
    BY <1>8, OneLess DEF LiveInstances
  <2>2. Cardinality(LiveInstances) \in Nat /\ Cardinality(Users) \in Nat
    BY Counted DEF LiveInstances, Users
  <2> QED
    BY <1>8, <2>1, <2>2
<1>10. /\ UsersOK' /\ logging' \in [users : 0..(Cardinality(Instance) + Cardinality(App)), lock : BOOLEAN]
       /\ logging'.users = logging.users - 1
       /\ logging'.lock <=> logging.lock /\ logging.users # 1
  BY <1>1, <1>8, <1>9, LoggingFreed
<1>11. TypeOK'
  BY <1>1, <1>7, <1>10 DEF Inv, TypeOK
<1>12. LockOK'
  <2>1. logging.users \in Nat /\ logging.users > 0 /\ (Users # {} => logging.users > 1)
    BY <1>8, UserCounted
  <2>2. (\E b \in App : call[b].pc \in {"log", "undolog"}) => logging.users > 1
    BY <2>1 DEF Users
  <2> QED
    BY <1>1, <1>10, <2>1, <2>2 DEF Inv, LockOK, Solo
<1>13. CallsOK'
  BY <1>1, CallsKept
<1>14. ConnectorFits(inst[i]) /\ "abort" \in past
  BY <1>1 DEF Inv, ConnectorOK
<1>15. Solo => \A b \in App : ~Starts(b, i)
  BY <1>1 DEF Inv, SoloStart, Building, Starts
<1>16. past \subseteq {"abort"} => NothingLeft(r) /\ r.lock = {"connector"}
  <2> SUFFICES ASSUME past \subseteq {"abort"} PROVE NothingLeft(r) /\ r.lock = {"connector"}
    OBVIOUS
  <2>1. Solo
    BY DEF Solo
  <2>2. inst[i].lock = {"connector"} /\ \A t \in Service : inst[i].st[t] = "stopped"
    BY <1>1, <2>1 DEF Inv, SoloAbort, AbortTook
  <2>3. inst[i].alive \subseteq {"connector"}
    BY <1>14, <2>2, InstanceType DEF ConnectorFits, Threads
  <2>4. "handle" \notin inst[i].has
    BY <1>1, <1>14 DEF ConnectorFits
  <2>5. inst[i].info = Threads /\ inst[i].set = Threads
    BY <1>1, <1>15, <2>1 DEF Inv, SoloStarted, Complete
  <2> QED
    BY <1>5, <2>2, <2>3, <2>4, <2>5 DEF NothingLeft
<1>17. \A b \in App : call'[b] = call[b] /\ (Solo => call[b].i # i \/ call[b].pc \notin StartPcs)
  BY <1>1, <1>15 DEF Starts
<1> QED
  BY <1>1, <1>5, <1>7, <1>10, <1>11, <1>12, <1>13, <1>14, <1>16, <1>17, InstanceFreed

\* A call that stops instance i, or asks CCFSM for something, goes on or returns.
CallWork(b, i) ==
  /\ call[b].i = i /\ call[b].pc \in StopPcs \cup {"act"}
  /\ \/ call'[b].pc = "idle" /\ call'[b].i = Null
     \/ call'[b].pc \in StopPcs /\ call'[b].i = i
  /\ call'[b].pc \in {"request", "await", "free"} <=> call[b].pc \in {"request", "await", "free"}
  /\ call'[b].pc \in {"request", "await"} => call'[b].left # {}
  /\ call[b].pc \in {"terminate", "wait"} => call'[b].pc \in {"terminate", "wait"} \/ "refused" \in past'

\* A step on an instance that is there, of a stop, of another call or of one of
\* its threads.
LEMMA InstanceWork ==
  ASSUME Inv, NEW i \in Instance, Live(i), Besides(i), TypeOK', UNCHANGED <<single, logging>>,
         past \subseteq past', UseIsSafe',
         \A b \in App : call'[b] = call[b] \/ CallWork(b, i),
         inst'[i].mem = "live", ConnectorFits(inst'[i]),
         inst'[i].loop # "run" => "abort" \in past',
         Told(inst'[i]) => inst'[i].st["connector"] = "stopped" \/ inst'[i].loop # "run",
         inst[i].st["connector"] = "stopped" => inst'[i].st["connector"] = "stopped",
         \A t \in Threads : NoneYet(inst[i], t) => NoneYet(inst'[i], t),
         Complete(inst[i]) => Complete(inst'[i]),
         Solo' /\ inst'[i].loop # "run" => AbortTook(inst'[i]),
         Solo' => \A b \in App : Starts(b, i) => Building(call[b], inst'[i]),
         past' = {} => inst'[i].lock = inst[i].lock \/ \A b \in App : ~Starts(b, i),
         inst'[i].info = inst[i].info, inst'[i].alive \subseteq inst[i].alive,
         Solo' => \A b \in App : Ending(b, i)' => StopTook(call'[b], inst'[i]),
         (\A b \in App : ~Ending(b, i)') /\ inst'[i].loop = "run" =>
           inst[i].loop = "run" /\ inst'[i].lock = inst[i].lock,
         inst'[i].tinfo = "freed" =>
           inst[i].tinfo = "freed" \/ inst'[i].loop # "run"
             \/ \E b \in App : call'[b].pc = "terminate" /\ call'[b].i = i
  PROVE  Inv'
<1>0. (Solo' => Solo) /\ (past' = {} => past = {})
      /\ (past' \cap {"overlap", "refused"} = {} => past \cap {"overlap", "refused"} = {})
  BY DEF Solo
<1>1. \A b \in App : call'[b].pc \in StartPcs \cup {"log", "alloc", "undolog", "freelog", "act"} => call'[b] = call[b]
  BY DEF CallWork, StartPcs, StopPcs
<1>2. \A b \in App : call[b].pc \in StartPcs \cup {"log", "alloc", "undolog", "freelog"} => call'[b] = call[b]
  BY DEF CallWork, StartPcs, StopPcs
<1>3. InstancesOK' /\ LiveInstances' = LiveInstances
  BY InstanceChanged
<1>4. Users' = Users
  BY <1>1, <1>2 DEF Users
<1>5. UsersOK'
  BY <1>3, <1>4, UsersKept
<1>6. CallsOK'
  <2>1. CallOK'
    BY DEF Inv, CallOK, CallWork, StartPcs, StopPcs
  <2>2. OneStarter'
    BY <1>1 DEF Inv, OneStarter, Starts
  <2>3. \A b \in App : call'[b].pc # "idle" => call[b].pc # "idle"
    BY DEF CallWork, StopPcs
  <2>4. SoloOK'
    BY <1>0, <2>3 DEF Inv, SoloOK
  <2> QED
    BY <2>1, <2>2, <2>4 DEF CallsOK
<1>7. StartOK'
  <2> SUFFICES ASSUME NEW b \in App, call'[b].pc \in StartPcs, Live(call[b].i)',
                      NEW t \in LeftToStart(call'[b])
               PROVE  NoneYet(inst'[call'[b].i], t)
    BY DEF StartOK
  <2>1. call'[b] = call[b] /\ call[b].i \in Instance /\ Live(call[b].i)
    BY <1>1 DEF Inv, CallOK, Live, Besides
  <2>2. NoneYet(inst[call[b].i], t)
    BY <2>1 DEF Inv, StartOK
  <2>3. t \in Threads
    <3>1. call[b] \in Calls
      BY DEF Inv, TypeOK
    <3> QED
      BY <2>1, <3>1 DEF LeftToStart, Calls
  <2> QED
    BY <2>1, <2>2, <2>3 DEF Besides
<1>8. StopOK'
  <2> SUFFICES ASSUME NEW b \in App, call'[b].pc \in {"request", "await", "free"}, Live(call[b].i)'
               PROVE  inst'[call'[b].i].st["connector"] = "stopped"
    BY DEF StopOK
  <2>1. call[b].pc \in {"request", "await", "free"} /\ call'[b].i = call[b].i /\ call[b].i \in Instance
    BY DEF CallWork, Inv, CallOK, StopPcs
  <2> QED
    BY <2>1 DEF Inv, StopOK, Live, Besides
<1>9. LockOK'
  BY <1>0, <1>1, <1>2 DEF Inv, LockOK
<1>10. SoloStart'
  <2> SUFFICES ASSUME Solo', NEW b \in App, call'[b].pc \in StartPcs
               PROVE  /\ Building(call'[b], inst'[call'[b].i])
                      /\ call'[b].pc = "undo" /\ past' = {} =>
                           inst'[call'[b].i].alive = {} /\ OneLeft(inst'[call'[b].i])
    BY DEF SoloStart, StartPcs
  <2>1. call'[b] = call[b] /\ call[b].i \in Instance
    BY <1>1 DEF Inv, CallOK
  <2>2. CASE call[b].i = i
    <3>1. Building(call'[b], inst'[call'[b].i])
      BY <2>1, <2>2 DEF Starts
    <3>2. ASSUME call'[b].pc = "undo", past' = {}
          PROVE  inst'[i].alive = {} /\ OneLeft(inst'[i])
      <4>1. inst[i].alive = {} /\ OneLeft(inst[i])
        BY <1>0, <2>1, <2>2, <3>2 DEF Inv, SoloStart
      <4>2. inst'[i].lock = inst[i].lock
        BY <2>1, <2>2, <3>2 DEF Starts
      <4> QED
        BY <4>1, <4>2 DEF OneLeft
    <3> QED
      BY <2>1, <2>2, <3>1, <3>2
  <2>3. CASE call[b].i # i
    BY <1>0, <2>1, <2>3 DEF Inv, SoloStart, Besides
  <2> QED
    BY <2>2, <2>3
<1>11. SoloStop'
  <2> SUFFICES ASSUME Solo', NEW b \in App, call'[b].pc \in {"request", "await", "free"}, Live(call[b].i)'
               PROVE  StopTook(call'[b], inst'[call'[b].i])
    BY DEF SoloStop
  <2>1. CASE call'[b].i = i
    BY <2>1 DEF Ending
  <2>2. CASE call'[b].i # i
    <3>1. call'[b] = call[b] /\ call[b].i \in Instance
      BY <2>2 DEF CallWork, Inv, CallOK, StopPcs
    <3> QED
      BY <1>0, <2>2, <3>1 DEF Inv, SoloStop, Live, Besides
  <2> QED
    BY <2>1, <2>2
<1>12. SoloStarted'
  <2> SUFFICES ASSUME Solo', NEW j \in Instance, Live(j)', \A b \in App : ~Starts(b, j)'
               PROVE  /\ Complete(inst'[j])
                      /\ (\A b \in App : ~Ending(b, j)') /\ inst'[j].loop = "run" => inst'[j].lock = Threads
    BY DEF SoloStarted
  <2>1. Live(j) /\ \A b \in App : ~Starts(b, j)
    BY <1>2 DEF Starts, Live, Besides
  <2>2. (\A b \in App : ~Ending(b, j)') => (\A b \in App : ~Ending(b, j))
    BY DEF Ending, CallWork
  <2>3. Complete(inst[j]) /\ ((\A b \in App : ~Ending(b, j)) /\ inst[j].loop = "run" => inst[j].lock = Threads)
    BY <1>0, <2>1 DEF Inv, SoloStarted
  <2> QED
    BY <2>2, <2>3 DEF Besides
<1>13. FoundOK'
  <2> SUFFICES ASSUME past' = {} PROVE FoundOK'
    BY DEF FoundOK
  <2>1. past = {} /\ \A j \in Instance : Live(j)' <=> Live(j)
    BY <1>0 DEF Live, Besides
  <2>2. single' = Null \/ Live(single)' \/ \E b \in App : call'[b].pc \in {"undolog", "freelog"}
    BY <1>2, <2>1 DEF Inv, FoundOK, TypeOK
  <2>3. \A b \in App : call'[b].pc \in StartPcs \cup StopPcs \cup {"act"} => Live(call[b].i)'
    BY <2>1 DEF Inv, FoundOK, CallWork, CallOK, StartPcs, StopPcs
  <2>4. \A j \in Instance : ~Live(j)' => inst'[j].alive = {}
    BY <2>1 DEF Inv, FoundOK, Besides
  <2> QED
    BY <2>2, <2>3, <2>4 DEF FoundOK
<1>14. InfoGoneOK'
  <2> SUFFICES ASSUME past' \cap {"overlap", "refused"} = {}, NEW j \in Instance, Live(j)', inst'[j].tinfo = "freed",
                      inst'[j].loop = "run", \A b \in App : ~Ending(b, j)'
               PROVE  \E b \in App : call'[b].pc \in {"terminate", "wait", "request", "await", "free"} /\ call'[b].i = j
    BY DEF InfoGoneOK, Ending
  <2>0. inst[j].loop = "run"
    BY DEF Besides
  <2>1. CASE inst[j].tinfo = "freed"
    <3>1. Live(j) /\ past \cap {"overlap", "refused"} = {}
      BY <1>0 DEF Live, Besides
    <3>2. PICK b \in App : call[b].pc \in {"terminate", "wait", "request", "await", "free"} /\ call[b].i = j
      BY <2>0, <2>1, <3>1 DEF Inv, InfoGoneOK
    <3>3. "refused" \notin past'
      OBVIOUS
    <3>4. call'[b].pc \in {"terminate", "wait", "request", "await", "free"} /\ call'[b].i = j
      BY <3>2, <3>3 DEF CallWork
    <3> QED
      BY <3>4
  <2>2. CASE inst[j].tinfo # "freed"
    BY <2>2 DEF Besides
  <2> QED
    BY <2>1, <2>2
<1> QED
  BY <1>3, <1>5, <1>6, <1>7, <1>8, <1>9, <1>10, <1>11, <1>12, <1>13, <1>14 DEF Inv, InstancesOK, CallsOK

\* A call that is neither starting CCAPI nor waiting for its threads leaves
\* those as they are.
LEMMA CallWorks ==
  ASSUME Inv, NEW a \in App, NEW i \in Instance, call[a].i = i, Live(i), UNCHANGED <<single, logging>>,
         call[a].pc \in {"transports", "terminate", "act"}, Others(a), CallWork(a, i), call' \in [App -> Calls],
         inst' \in [Instance -> Instances], Besides(i), SameThreads(i), inst'[i].has = inst[i].has,
         inst'[i].mem = inst[i].mem, inst'[i].loop = inst[i].loop, inst'[i].left = inst[i].left,
         inst'[i].end = inst[i].end, inst'[i].fsm = inst[i].fsm \/ (inst[i].fsm # "ended" /\ inst'[i].fsm # "ended"),
         inst'[i].tinfo = "freed" => inst[i].tinfo = "freed" \/ call'[a].pc = "terminate",
         past' \subseteq {"overlap", "abort", "late_failure", "refused"}, past \subseteq past',
         wrong' = "no" \/ (wrong' = "twice" /\ (past' \cap {"overlap", "refused"} # {} \/ inst[i].loop # "run"))
  PROVE  Inv'
<1>0. (Solo' => Solo) /\ (past' = {} => past = {} /\ Solo)
  BY DEF Solo
<1>1. TypeOK' /\ UseIsSafe'
  BY DEF Inv, TypeOK, UseIsSafe, TakenDown, Live
<1>2. ConnectorFits(inst[i]) /\ (inst[i].loop # "run" => "abort" \in past)
  BY DEF Inv, ConnectorOK
<1>3. ConnectorFits(inst'[i]) /\ (inst'[i].loop # "run" => "abort" \in past')
  <2>1. (inst'[i].fsm = "ended") <=> (inst[i].fsm = "ended")
    OBVIOUS
  <2> QED
    BY <1>2, <2>1 DEF ConnectorFits, SameThreads
<1>4. Told(inst'[i]) => inst'[i].st["connector"] = "stopped" \/ inst'[i].loop # "run"
  BY DEF Inv, ToldOK, Told, SameThreads
<1>5. /\ inst[i].st["connector"] = "stopped" => inst'[i].st["connector"] = "stopped"
      /\ \A t \in Threads : NoneYet(inst[i], t) => NoneYet(inst'[i], t)
      /\ Complete(inst[i]) => Complete(inst'[i])
  BY DEF NoneYet, Complete, SameThreads
<1>6. Solo' /\ inst'[i].loop # "run" => AbortTook(inst'[i])
  BY <1>0 DEF Inv, SoloAbort, AbortTook, SameThreads
<1>7. Solo' => \A b \in App \ {a} : call[b].pc = "idle" /\ call'[b].pc = "idle"
  BY <1>0 DEF Inv, SoloOK, Others
<1>8. Solo' => \A b \in App : ~Starts(b, i) /\ ~Ending(b, i)'
  BY <1>7 DEF Starts, Ending, StartPcs, CallWork
<1>9. \A b \in App : call'[b] = call[b] \/ CallWork(b, i)
  BY DEF Others
<1>10. inst'[i].mem = "live" /\ inst'[i].lock = inst[i].lock /\ inst'[i].info = inst[i].info
       /\ inst'[i].alive \subseteq inst[i].alive
  BY DEF Live, SameThreads
<1>11. inst'[i].tinfo = "freed" =>
         inst[i].tinfo = "freed" \/ \E b \in App : call'[b].pc = "terminate" /\ call'[b].i = i
  BY DEF CallWork
<1> QED
  BY <1>0, <1>1, <1>3, <1>4, <1>5, <1>6, <1>8, <1>9, <1>10, <1>11, InstanceWork

\* An instance of which one field, of CCFSM or the transport, may change.
LEMMA FieldChanged ==
  ASSUME Inv, NEW i \in Instance, NEW tinfo \in {"null", "there", "freed"},
         NEW fsm \in {"off", "run", "terminate", "ended"},
         \/ UNCHANGED inst /\ tinfo = inst[i].tinfo /\ fsm = inst[i].fsm
         \/ inst' = [inst EXCEPT ![i].tinfo = tinfo] /\ fsm = inst[i].fsm
         \/ inst' = [inst EXCEPT ![i].fsm = fsm] /\ tinfo = inst[i].tinfo
  PROVE  /\ inst' \in [Instance -> Instances] /\ Besides(i) /\ SameThreads(i) /\ inst'[i].has = inst[i].has
         /\ inst'[i].mem = inst[i].mem /\ inst'[i].loop = inst[i].loop /\ inst'[i].left = inst[i].left
         /\ inst'[i].end = inst[i].end /\ inst'[i].fsm = fsm /\ inst'[i].tinfo = tinfo
<1>1. inst[i] \in Instances /\ inst \in [Instance -> Instances]
  BY DEF Inv, TypeOK
<1>2. PICK r : r = [inst[i] EXCEPT !.tinfo = tinfo, !.fsm = fsm]
  OBVIOUS
<1>3. r \in Instances
  BY <1>1, <1>2 DEF Instances
<1>4. inst' = [inst EXCEPT ![i] = r]
  <2>1. CASE UNCHANGED inst /\ tinfo = inst[i].tinfo /\ fsm = inst[i].fsm
    <3>1. r = inst[i]
      BY <1>1, <1>2, <2>1 DEF Instances
    <3> QED
      BY <1>1, <2>1, <3>1
  <2>2. CASE inst' = [inst EXCEPT ![i].tinfo = tinfo] /\ fsm = inst[i].fsm
    <3>1. r = [inst[i] EXCEPT !.tinfo = tinfo]
      BY <1>1, <1>2, <2>2 DEF Instances
    <3> QED
      BY <1>1, <2>2, <3>1
  <2>3. CASE inst' = [inst EXCEPT ![i].fsm = fsm] /\ tinfo = inst[i].tinfo
    <3>1. r = [inst[i] EXCEPT !.fsm = fsm]
      BY <1>1, <1>2, <2>3 DEF Instances
    <3> QED
      BY <1>1, <2>3, <3>1
  <2> QED
    BY <2>1, <2>2, <2>3
<1>5. Besides(i) /\ inst'[i] = r /\ inst' \in [Instance -> Instances]
  BY <1>3, <1>4, InstanceBecomes
<1> QED
  BY <1>1, <1>2, <1>5 DEF SameThreads, Instances

\* A call finds an info that was freed only after CCFSM refused to end, beside
\* another call, or while the connector thread takes the instance down.
LEMMA InfoGone ==
  ASSUME Inv, NEW a \in App, call[a].pc \in {"transports", "act"}, NEW i \in Instance, Live(i),
         inst[i].tinfo = "freed"
  PROVE  past \cap {"overlap", "refused"} # {} \/ inst[i].loop # "run"
<1> SUFFICES ASSUME past \cap {"overlap", "refused"} = {}, inst[i].loop = "run" PROVE FALSE
  OBVIOUS
<1>1. PICK b \in App : call[b].pc \in {"terminate", "wait", "request", "await", "free"}
  BY DEF Inv, InfoGoneOK
<1> QED
  BY <1>1 DEF Inv, SoloOK, Solo

\* A stop frees the info of the transport, or finds it gone.
LEMMA StopTransportsStep ==
  ASSUME Inv, NEW a \in App, StopTransports(a)
  PROVE  Inv'
<1>1. PICK i \in Instance : call[a].i = i
  BY DEF StopTransports, On, At, Inv, CallOK, StopPcs
<1>2. /\ wrong = "no" /\ Live(i) /\ call[a].pc = "transports" /\ UNCHANGED <<single, logging, past>>
      /\ Goto(a, "terminate")
      /\ \/ inst' = [inst EXCEPT ![i].tinfo = "null"] /\ UNCHANGED wrong
         \/ inst' = [inst EXCEPT ![i].tinfo = "freed"] /\ UNCHANGED wrong
         \/ wrong' = "twice" /\ inst[i].tinfo = "freed" /\ UNCHANGED inst
  BY <1>1 DEF StopTransports, On, At
<1>3. "terminate" \in Pcs
  BY DEF Pcs, StopPcs
<1>4. Others(a) /\ call' \in [App -> Calls] /\ call'[a].pc = "terminate" /\ call'[a].i = i
  BY <1>1, <1>2, <1>3, CallGoesTo
<1>5. CallWork(a, i)
  BY <1>1, <1>2, <1>4 DEF CallWork, StopPcs
<1>6. inst[i].fsm \in {"off", "run", "terminate", "ended"} /\ inst[i].tinfo \in {"null", "there", "freed"}
  BY InstanceType DEF Instances
<1>7. PICK tinfo \in {"null", "there", "freed"} :
        (UNCHANGED inst /\ tinfo = inst[i].tinfo) \/ inst' = [inst EXCEPT ![i].tinfo = tinfo]
  BY <1>2, <1>6
<1>8. /\ inst' \in [Instance -> Instances] /\ Besides(i) /\ SameThreads(i) /\ inst'[i].has = inst[i].has
      /\ inst'[i].mem = inst[i].mem /\ inst'[i].loop = inst[i].loop /\ inst'[i].left = inst[i].left
      /\ inst'[i].end = inst[i].end /\ inst'[i].fsm = inst[i].fsm
  BY <1>6, <1>7, FieldChanged
<1>9. wrong' = "no" \/ (wrong' = "twice" /\ (past' \cap {"overlap", "refused"} # {} \/ inst[i].loop # "run"))
  BY <1>2, InfoGone
<1>10. past' \subseteq {"overlap", "abort", "late_failure", "refused"} /\ past \subseteq past'
  BY <1>2 DEF Inv, TypeOK
<1> QED
  BY <1>1, <1>2, <1>4, <1>5, <1>8, <1>9, <1>10, CallWorks

\* CCFSM is asked to end, or refuses.
LEMMA StopTerminateStep ==
  ASSUME Inv, NEW a \in App, StopTerminate(a)
  PROVE  Inv'
<1>1. PICK i \in Instance : call[a].i = i
  BY DEF StopTerminate, On, At, Inv, CallOK, StopPcs
<1>2. /\ wrong = "no" /\ Live(i) /\ call[a].pc = "terminate" /\ UNCHANGED <<single, logging, wrong>>
      /\ \/ /\ inst' = [inst EXCEPT ![i].fsm = IF inst[i].fsm = "run" THEN "terminate" ELSE inst[i].fsm]
            /\ Goto(a, "wait") /\ UNCHANGED past
         \/ Return(a, "NOT_STARTED") /\ past' = past \cup {"refused"} /\ UNCHANGED inst
  BY <1>1 DEF StopTerminate, On, At
<1>3. past' \subseteq {"overlap", "abort", "late_failure", "refused"} /\ past \subseteq past'
  BY <1>2 DEF Inv, TypeOK
<1>4. inst[i].fsm \in {"off", "run", "terminate", "ended"} /\ inst[i].tinfo \in {"null", "there", "freed"}
  BY InstanceType DEF Instances
<1>5. PICK fsm \in {"off", "run", "terminate", "ended"} :
        /\ fsm = inst[i].fsm \/ (inst[i].fsm # "ended" /\ fsm # "ended")
        /\ (UNCHANGED inst /\ fsm = inst[i].fsm) \/ inst' = [inst EXCEPT ![i].fsm = fsm]
  BY <1>2, <1>4 DEF Inv, TypeOK
<1>6. /\ inst' \in [Instance -> Instances] /\ Besides(i) /\ SameThreads(i) /\ inst'[i].has = inst[i].has
      /\ inst'[i].mem = inst[i].mem /\ inst'[i].loop = inst[i].loop /\ inst'[i].left = inst[i].left
      /\ inst'[i].end = inst[i].end /\ inst'[i].fsm = fsm /\ inst'[i].tinfo = inst[i].tinfo
  BY <1>4, <1>5, FieldChanged
<1>7. Others(a) /\ call' \in [App -> Calls] /\ CallWork(a, i)
  <2>1. CASE Goto(a, "wait")
    <3>1. "wait" \in Pcs
      BY DEF Pcs, StopPcs
    <3>2. Others(a) /\ call' \in [App -> Calls] /\ call'[a].pc = "wait" /\ call'[a].i = i
      BY <1>1, <2>1, <3>1, CallGoesTo
    <3> QED
      BY <1>1, <1>2, <3>2 DEF CallWork, StopPcs
  <2>2. CASE Return(a, "NOT_STARTED") /\ "refused" \in past'
    <3>1. Others(a) /\ call' \in [App -> Calls] /\ call'[a].pc = "idle" /\ call'[a].i = Null
      BY <2>2, CallReturns
    <3> QED
      BY <1>1, <1>2, <2>2, <3>1 DEF CallWork, StopPcs
  <2> QED
    BY <1>2, <2>1, <2>2
<1> QED
  BY <1>1, <1>2, <1>3, <1>5, <1>6, <1>7, CallWorks

\* A call asks CCFSM for something.
LEMMA UseActStep ==
  ASSUME Inv, NEW a \in App, UseAct(a)
  PROVE  Inv'
<1>1. PICK i \in Instance : call[a].i = i
  BY DEF UseAct, On, At, Inv, CallOK
<1>2. /\ wrong = "no" /\ Live(i) /\ call[a].pc = "act" /\ UNCHANGED <<single, logging, past>>
      /\ Return(a, "DONE")
      /\ UNCHANGED inst \/ \E after \in {"there", "null"} : inst' = [inst EXCEPT ![i].tinfo = after]
      /\ wrong' = "no" \/ (wrong' = "twice" /\ inst[i].tinfo = "freed")
  BY <1>1 DEF UseAct, On, At
<1>3. past' \subseteq {"overlap", "abort", "late_failure", "refused"} /\ past \subseteq past'
  BY <1>2 DEF Inv, TypeOK
<1>4. inst[i].fsm \in {"off", "run", "terminate", "ended"} /\ inst[i].tinfo \in {"null", "there", "freed"}
  BY InstanceType DEF Instances
<1>5. PICK tinfo \in {"null", "there", "freed"} :
        /\ tinfo = "freed" => inst[i].tinfo = "freed"
        /\ (UNCHANGED inst /\ tinfo = inst[i].tinfo) \/ inst' = [inst EXCEPT ![i].tinfo = tinfo]
  BY <1>2, <1>4 DEF Inv, TypeOK
<1>6. /\ inst' \in [Instance -> Instances] /\ Besides(i) /\ SameThreads(i) /\ inst'[i].has = inst[i].has
      /\ inst'[i].mem = inst[i].mem /\ inst'[i].loop = inst[i].loop /\ inst'[i].left = inst[i].left
      /\ inst'[i].end = inst[i].end /\ inst'[i].fsm = inst[i].fsm /\ inst'[i].tinfo = tinfo
  BY <1>4, <1>5, FieldChanged
<1>7. Others(a) /\ call' \in [App -> Calls] /\ call'[a].pc = "idle" /\ call'[a].i = Null
  BY <1>2, CallReturns
<1>8. CallWork(a, i)
  BY <1>1, <1>2, <1>7 DEF CallWork
<1>9. wrong' = "no" \/ (wrong' = "twice" /\ (past' \cap {"overlap", "refused"} # {} \/ inst[i].loop # "run"))
  BY <1>2, InfoGone
<1> QED
  BY <1>1, <1>2, <1>3, <1>5, <1>6, <1>7, <1>8, <1>9, CallWorks

\* What changes is the status of one thread, and whether it is alive.
OneStatus(i, t, st) ==
  /\ inst'[i].st[t] = st /\ \A u \in Threads \ {t} : inst'[i].st[u] = inst[i].st[u]
  /\ inst'[i].info = inst[i].info /\ inst'[i].set = inst[i].set /\ inst'[i].lock = inst[i].lock
  /\ inst'[i].mem = inst[i].mem /\ inst'[i].loop = inst[i].loop /\ inst'[i].tinfo = inst[i].tinfo
  /\ inst'[i].left = inst[i].left /\ inst'[i].end = inst[i].end

\* A step that changes the status of thread t alone.
LEMMA StatusChanged ==
  ASSUME Inv, NEW i \in Instance, NEW t \in Threads, NEW st \in Status, NEW r,
         r = [inst[i] EXCEPT !.st[t] = st]
  PROVE  /\ r \in Instances
         /\ inst' = [inst EXCEPT ![i] = r] =>
              /\ inst' \in [Instance -> Instances] /\ Besides(i) /\ inst'[i] = r /\ OneStatus(i, t, st)
              /\ inst'[i].alive = inst[i].alive /\ inst'[i].has = inst[i].has /\ inst'[i].fsm = inst[i].fsm
<1>1. inst[i] \in Instances /\ inst[i].st \in [Threads -> Status]
  BY InstanceType
<1>2. PICK s : s = [inst[i].st EXCEPT ![t] = st]
  OBVIOUS
<1>3. s \in [Threads -> Status] /\ s[t] = st /\ \A u \in Threads \ {t} : s[u] = inst[i].st[u]
  BY <1>1, <1>2
<1>4. r = [inst[i] EXCEPT !.st = s]
  BY <1>2
<1>5. r \in Instances /\ r.st = s
  BY <1>1, <1>3, <1>4 DEF Instances
<1>6. /\ r.info = inst[i].info /\ r.set = inst[i].set /\ r.lock = inst[i].lock
      /\ r.mem = inst[i].mem /\ r.loop = inst[i].loop /\ r.tinfo = inst[i].tinfo
      /\ r.left = inst[i].left /\ r.end = inst[i].end
      /\ r.alive = inst[i].alive /\ r.has = inst[i].has /\ r.fsm = inst[i].fsm
  BY <1>1, <1>4 DEF Instances
<1>7. ASSUME inst' = [inst EXCEPT ![i] = r]
      PROVE  /\ inst' \in [Instance -> Instances] /\ Besides(i) /\ inst'[i] = r /\ OneStatus(i, t, st)
             /\ inst'[i].alive = inst[i].alive /\ inst'[i].has = inst[i].has /\ inst'[i].fsm = inst[i].fsm
  <2>1. inst' \in [Instance -> Instances] /\ Besides(i) /\ inst'[i] = r
    BY <1>5, <1>7, InstanceBecomes
  <2>2. OneStatus(i, t, st)
    BY <1>3, <1>5, <1>6, <2>1 DEF OneStatus
  <2> QED
    BY <1>6, <2>1, <2>2
<1> QED
  BY <1>5, <1>7

\* A stop tells one more thread to end.
LEMMA RequestIs ==
  ASSUME Inv, NEW i \in Instance, NEW t \in Threads
  PROVE  \E st \in Status :
           /\ st = IF inst[i].st[t] = "running" THEN "stopping" ELSE inst[i].st[t]
           /\ Request(i, t) = [inst[i] EXCEPT !.st[t] = st]
<1>1. inst[i] \in Instances /\ inst[i].st \in [Threads -> Status]
  BY InstanceType
<1>2. PICK st : st = IF inst[i].st[t] = "running" THEN "stopping" ELSE inst[i].st[t]
  OBVIOUS
<1>3. st \in Status
  BY <1>1, <1>2 DEF Status
<1> QED
  BY <1>2, <1>3 DEF Request

\* A stop tells a thread to end.
LEMMA StopRequestStep ==
  ASSUME Inv, NEW a \in App, StopRequest(a)
  PROVE  Inv'
<1>1. PICK i \in Instance : call[a].i = i
  BY DEF StopRequest, On, At, Inv, CallOK, StopPcs
<1>2. PICK t : t = FirstOf(call[a].left)
  OBVIOUS
<1>3. /\ wrong = "no" /\ Live(i) /\ call[a].pc = "request" /\ UNCHANGED <<single, logging, past, wrong>>
      /\ Goto(a, "await") /\ inst' = [inst EXCEPT ![i] = Request(i, t)]
  BY <1>1, <1>2 DEF StopRequest, On, At
<1>4. call[a].left # {} /\ call[a].left \subseteq Threads
  BY <1>3 DEF Inv, CallOK, TypeOK, Calls
<1>5. t \in Threads /\ t \in call[a].left
  BY <1>2, <1>4, FirstIs
<1>6. PICK st \in Status : /\ st = IF inst[i].st[t] = "running" THEN "stopping" ELSE inst[i].st[t]
                           /\ Request(i, t) = [inst[i] EXCEPT !.st[t] = st]
  BY <1>5, RequestIs
<1>7. PICK r : r = [inst[i] EXCEPT !.st[t] = st]
  OBVIOUS
<1>8. inst' = [inst EXCEPT ![i] = r]
  BY <1>3, <1>6, <1>7
<1>9. /\ inst' \in [Instance -> Instances] /\ Besides(i) /\ OneStatus(i, t, st)
      /\ inst'[i].alive = inst[i].alive /\ inst'[i].has = inst[i].has /\ inst'[i].fsm = inst[i].fsm
  BY <1>5, <1>7, <1>8, StatusChanged
<1>10. /\ Others(a) /\ call' \in [App -> Calls] /\ call'[a].pc = "await" /\ call'[a].i = i
       /\ call'[a].left = call[a].left
  <2>1. "await" \in Pcs
    BY DEF Pcs, StopPcs
  <2> QED
    BY <1>1, <1>3, <2>1, CallGoesTo
<1>11. TypeOK' /\ UseIsSafe'
  BY <1>3, <1>9, <1>10 DEF Inv, TypeOK, UseIsSafe
<1>12. CallWork(a, i)
  BY <1>1, <1>3, <1>4, <1>10 DEF CallWork, StopPcs
<1>13. inst[i].st["connector"] = "stopped" /\ ConnectorFits(inst[i])
  BY <1>1, <1>3 DEF Inv, StopOK, ConnectorOK
<1>14. inst'[i].st["connector"] = "stopped" /\ inst'[i].loop = "run"
  <2>1. inst[i].loop = "run" /\ "connector" \in Threads
    BY <1>13 DEF ConnectorFits, Threads
  <2> QED
    BY <1>6, <1>9, <1>13, <2>1 DEF OneStatus
<1>15. ConnectorFits(inst'[i])
  <2>1. \A u \in inst'[i].alive : inst'[i].st[u] \in {"starting", "running", "stopping"}
    BY <1>6, <1>9, <1>13, InstanceType DEF ConnectorFits, OneStatus
  <2> QED
    BY <1>9, <1>13, <1>14, <2>1 DEF ConnectorFits, OneStatus
<1>16. \A u \in Threads : NoneYet(inst[i], u) => NoneYet(inst'[i], u)
  BY <1>6, <1>9 DEF NoneYet, OneStatus
<1>17. Solo => \A b \in App \ {a} : call[b].pc = "idle" /\ call'[b].pc = "idle"
  BY <1>3, <1>10 DEF Inv, SoloOK, Others
<1>18. Solo => StopTook(call'[a], inst'[i])
  <2> SUFFICES ASSUME Solo PROVE StopTook(call'[a], inst'[i])
    OBVIOUS
  <2>1. inst[i].lock = call[a].left /\ \A u \in Threads \ call[a].left : inst[i].st[u] = "stopped"
    BY <1>1, <1>3 DEF Inv, SoloStop, StopTook
  <2> QED
    BY <1>5, <1>9, <1>10, <2>1 DEF StopTook, OneStatus
<1>19. Solo' => /\ \A b \in App : ~Starts(b, i)
                /\ \A b \in App : Ending(b, i)' => StopTook(call'[b], inst'[i])
  BY <1>3, <1>17, <1>18 DEF Starts, Ending, StartPcs, Solo
<1>20. /\ inst'[i].mem = "live" /\ (Complete(inst[i]) => Complete(inst'[i]))
       /\ inst'[i].info = inst[i].info /\ inst'[i].lock = inst[i].lock /\ inst[i].loop = "run"
       /\ inst'[i].tinfo = inst[i].tinfo /\ inst'[i].alive \subseteq inst[i].alive
  BY <1>3, <1>9, <1>14 DEF Live, Complete, OneStatus
<1>21. past \subseteq past' /\ \A b \in App : call'[b] = call[b] \/ CallWork(b, i)
  BY <1>3, <1>10, <1>12 DEF Others
<1> QED
  BY <1>3, <1>9, <1>11, <1>14, <1>15, <1>16, <1>19, <1>20, <1>21, InstanceWork

\* A thread's lock is destroyed.
LEMMA EndedIs ==
  ASSUME Inv, NEW i \in Instance, NEW t
  PROVE  \E r \in Instances :
           /\ r = ThreadEnded(i, t) /\ r.lock = inst[i].lock \ {t}
           /\ r.info = inst[i].info /\ r.set = inst[i].set /\ r.st = inst[i].st
           /\ r.mem = inst[i].mem /\ r.loop = inst[i].loop /\ r.tinfo = inst[i].tinfo
           /\ r.left = inst[i].left /\ r.end = inst[i].end
           /\ r.alive = inst[i].alive /\ r.has = inst[i].has /\ r.fsm = inst[i].fsm
<1>1. inst[i] \in Instances
  BY InstanceType
<1>2. PICK r : r = [inst[i] EXCEPT !.lock = inst[i].lock \ {t}]
  OBVIOUS
<1>3. r \in Instances /\ r = ThreadEnded(i, t)
  BY <1>1, <1>2 DEF Instances, ThreadEnded
<1> QED
  BY <1>1, <1>2, <1>3 DEF Instances

\* A stop has seen a thread end.
LEMMA StopAwaitStep ==
  ASSUME Inv, NEW a \in App, StopAwait(a)
  PROVE  Inv'
<1>1. PICK i \in Instance : call[a].i = i
  BY DEF StopAwait, On, At, Inv, CallOK, StopPcs
<1>2. PICK t : t = FirstOf(call[a].left)
  OBVIOUS
<1>3. /\ wrong = "no" /\ Live(i) /\ call[a].pc = "await" /\ UNCHANGED <<single, logging, past, wrong>>
      /\ inst[i].st[t] = "stopped" /\ inst' = [inst EXCEPT ![i] = ThreadEnded(i, t)]
      /\ call' = [call EXCEPT ![a].left = call[a].left \ {t},
                              ![a].pc = IF call[a].left = {t} THEN "free" ELSE "request"]
  BY <1>1, <1>2 DEF StopAwait, On, At, Inv, TypeOK
<1>4. call[a].left # {} /\ call[a].left \subseteq Threads
  BY <1>3 DEF Inv, CallOK, TypeOK, Calls
<1>5. t \in Threads /\ t \in call[a].left
  BY <1>2, <1>4, FirstIs
<1>6. PICK r \in Instances :
           /\ r = ThreadEnded(i, t) /\ r.lock = inst[i].lock \ {t}
           /\ r.info = inst[i].info /\ r.set = inst[i].set /\ r.st = inst[i].st
           /\ r.mem = inst[i].mem /\ r.loop = inst[i].loop /\ r.tinfo = inst[i].tinfo
           /\ r.left = inst[i].left /\ r.end = inst[i].end
           /\ r.alive = inst[i].alive /\ r.has = inst[i].has /\ r.fsm = inst[i].fsm
  BY EndedIs
<1>7. Besides(i) /\ inst'[i] = r /\ inst' \in [Instance -> Instances]
  BY <1>3, <1>6, InstanceBecomes
<1>8. PICK pc : pc = IF call[a].left = {t} THEN "free" ELSE "request"
  OBVIOUS
<1>9. PICK left : left = call[a].left \ {t}
  OBVIOUS
<1>10. /\ Others(a) /\ call' \in [App -> Calls] /\ call'[a].pc = pc /\ call'[a].i = i
       /\ call'[a].left = left
  <2>1. pc \in Pcs /\ left \in SUBSET Threads
    BY <1>4, <1>8, <1>9 DEF Pcs, StopPcs
  <2>2. call' = [call EXCEPT ![a].left = left, ![a].pc = pc]
    BY <1>3, <1>8, <1>9
  <2> QED
    BY <1>1, <2>1, <2>2, CallGoes
<1>11. TypeOK' /\ UseIsSafe'
  BY <1>3, <1>7, <1>10 DEF Inv, TypeOK, UseIsSafe
<1>12. CallWork(a, i)
  BY <1>1, <1>3, <1>5, <1>8, <1>9, <1>10 DEF CallWork, StopPcs
<1>13. inst[i].st["connector"] = "stopped" /\ ConnectorFits(inst[i])
  BY <1>1, <1>3 DEF Inv, StopOK, ConnectorOK
<1>14. inst'[i].st["connector"] = "stopped" /\ inst'[i].loop = "run" /\ inst[i].loop = "run"
  BY <1>6, <1>7, <1>13 DEF ConnectorFits
<1>15. ConnectorFits(inst'[i])
  BY <1>6, <1>7, <1>13 DEF ConnectorFits
<1>16. \A u \in Threads : NoneYet(inst[i], u) => NoneYet(inst'[i], u)
  BY <1>6, <1>7 DEF NoneYet
<1>17. Solo => \A b \in App \ {a} : call[b].pc = "idle" /\ call'[b].pc = "idle"
  BY <1>3, <1>10 DEF Inv, SoloOK, Others
<1>18. Solo => StopTook(call'[a], inst'[i])
  <2> SUFFICES ASSUME Solo PROVE StopTook(call'[a], inst'[i])
    OBVIOUS
  <2>1. inst[i].lock = call[a].left /\ \A u \in Threads \ call[a].left : inst[i].st[u] = "stopped"
    BY <1>1, <1>3 DEF Inv, SoloStop, StopTook
  <2>2. inst'[i].lock = left /\ \A u \in Threads \ left : inst'[i].st[u] = "stopped"
    BY <1>3, <1>6, <1>7, <1>9, <2>1
  <2> QED
    BY <1>5, <1>8, <1>9, <1>10, <2>2 DEF StopTook
<1>19. Solo' => /\ \A b \in App : ~Starts(b, i)
                /\ \A b \in App : Ending(b, i)' => StopTook(call'[b], inst'[i])
  BY <1>3, <1>17, <1>18 DEF Starts, Ending, StartPcs, Solo
<1>20. /\ inst'[i].mem = "live" /\ (Complete(inst[i]) => Complete(inst'[i]))
       /\ inst'[i].info = inst[i].info /\ inst'[i].tinfo = inst[i].tinfo /\ inst'[i].alive \subseteq inst[i].alive
  BY <1>3, <1>6, <1>7 DEF Live, Complete
<1>21. past \subseteq past' /\ \A b \in App : call'[b] = call[b] \/ CallWork(b, i)
  BY <1>3, <1>10, <1>12 DEF Others
<1>22. Ending(a, i)'
  BY <1>8, <1>10 DEF Ending
<1>23. past' = {} => \A b \in App : ~Starts(b, i)
  BY <1>3, <1>19 DEF Solo
<1> QED
  BY <1>3, <1>7, <1>11, <1>14, <1>15, <1>16, <1>19, <1>20, <1>21, <1>22, <1>23, InstanceWork

\* A step of a thread, on its own instance.  Beside a start, a thread only
\* begins to run; no thread ends before CCFSM does.
LEMMA ThreadWork ==
  ASSUME Inv, NEW i \in Instance, wrong = "no", Live(i), NEW r \in Instances, inst' = [inst EXCEPT ![i] = r],
         UNCHANGED <<single, logging, call, past, wrong>>,
         r.mem = "live", ConnectorFits(r), r.loop # "run" => inst[i].loop # "run",
         Told(r) => r.st["connector"] = "stopped" \/ r.loop # "run",
         inst[i].st["connector"] = "stopped" => r.st["connector"] = "stopped",
         \A u \in Threads : NoneYet(inst[i], u) => NoneYet(r, u),
         \A u \in Threads : inst[i].st[u] = "stopped" => r.st[u] = "stopped",
         r.info = inst[i].info, r.set = inst[i].set, r.alive \subseteq inst[i].alive,
         "action_lock" \in inst[i].has => "action_lock" \in r.has,
         Solo /\ r.loop # "run" => AbortTook(r),
         Solo => \A b \in App : Starts(b, i) => Building(call[b], r),
         r.loop = "run" \/ inst[i].loop = "run" => inst[i].loop = "run" /\ r.lock = inst[i].lock,
         r.tinfo = inst[i].tinfo
  PROVE  Inv'
<1>1. Besides(i) /\ inst'[i] = r /\ inst' \in [Instance -> Instances]
  BY InstanceBecomes
<1>2. TypeOK' /\ UseIsSafe'
  BY <1>1 DEF Inv, TypeOK, UseIsSafe
<1>3. (Complete(inst[i]) => Complete(r)) /\ (inst[i].loop # "run" => "abort" \in past)
  BY DEF Complete, Inv, ConnectorOK
<1>4. Solo => \A b \in App : Ending(b, i) => StopTook(call[b], r)
  <2> SUFFICES ASSUME Solo, NEW b \in App, Ending(b, i) PROVE StopTook(call[b], r)
    OBVIOUS
  <2>1. StopTook(call[b], inst[i])
    BY DEF Ending, Inv, SoloStop
  <2>2. inst[i].st["connector"] = "stopped" /\ ConnectorFits(inst[i])
    BY DEF Ending, Inv, StopOK, ConnectorOK
  <2>3. r.lock = inst[i].lock
    BY <2>2 DEF ConnectorFits
  <2> QED
    BY <2>1, <2>3 DEF StopTook
<1>5. past = {} => inst'[i].lock = inst[i].lock \/ \A b \in App : ~Starts(b, i)
  <2> SUFFICES ASSUME past = {} PROVE r.lock = inst[i].lock
    BY <1>1
  <2>1. inst[i].loop = "run"
    BY <1>3
  <2> QED
    BY <2>1
<1> QED
  BY <1>1, <1>2, <1>3, <1>4, <1>5, InstanceWork DEF Starts, Ending, Solo

\* A thread begins to run.
LEMMA ThreadRunsStep ==
  ASSUME Inv, NEW i \in Instance, NEW t \in Threads, ThreadRuns(i, t)
  PROVE  Inv'
<1>1. /\ wrong = "no" /\ Live(i) /\ t \in inst[i].alive /\ inst[i].st[t] = "starting"
      /\ inst' = [inst EXCEPT ![i].st[t] = "running"]
      /\ UNCHANGED <<single, logging, call, past, wrong>>
  BY DEF ThreadRuns, Alive
<1>2. PICK r : r = [inst[i] EXCEPT !.st[t] = "running"]
  OBVIOUS
<1>3. r \in Instances /\ inst' = [inst EXCEPT ![i] = r]
  BY <1>1, <1>2, StatusChanged DEF Status
<1>4. /\ OneStatus(i, t, "running") /\ inst'[i] = r
      /\ inst'[i].alive = inst[i].alive /\ inst'[i].has = inst[i].has /\ inst'[i].fsm = inst[i].fsm
  BY <1>2, <1>3, StatusChanged DEF Status
<1>5. /\ r.st[t] = "running" /\ \A u \in Threads \ {t} : r.st[u] = inst[i].st[u]
      /\ r.info = inst[i].info /\ r.set = inst[i].set /\ r.lock = inst[i].lock
      /\ r.mem = "live" /\ r.loop = inst[i].loop /\ r.tinfo = inst[i].tinfo
      /\ r.left = inst[i].left /\ r.end = inst[i].end
      /\ r.alive = inst[i].alive /\ r.has = inst[i].has /\ r.fsm = inst[i].fsm
  BY <1>1, <1>4 DEF OneStatus, Live
<1>6. ConnectorFits(inst[i]) /\ "connector" \in Threads
  BY <1>1 DEF Inv, ConnectorOK, Threads
<1>7. ConnectorFits(r)
  BY <1>1, <1>5, <1>6, InstanceType DEF ConnectorFits
<1>8. Told(r) => Told(inst[i])
  BY <1>5 DEF Told, Threads
<1>9. inst[i].st["connector"] = "stopped" => r.st["connector"] = "stopped"
  BY <1>1, <1>5, <1>6
<1>10. Told(r) => r.st["connector"] = "stopped" \/ r.loop # "run"
  BY <1>1, <1>5, <1>8, <1>9 DEF Inv, ToldOK
<1>11. \A u \in Threads : NoneYet(inst[i], u) => NoneYet(r, u)
  BY <1>1, <1>5 DEF NoneYet
<1>12. \A u \in Threads : inst[i].st[u] = "stopped" => r.st[u] = "stopped"
  BY <1>1, <1>5
<1>13. Solo /\ r.loop # "run" => AbortTook(r)
  BY <1>1, <1>5, <1>12 DEF Inv, SoloAbort, AbortTook, Threads
<1>14. Solo => \A b \in App : Starts(b, i) => Building(call[b], r)
  <2> SUFFICES ASSUME Solo, NEW b \in App, Starts(b, i) PROVE Building(call[b], r)
    OBVIOUS
  <2>1. Building(call[b], inst[i])
    BY DEF Starts, Inv, SoloStart
  <2> QED
    BY <1>5, <2>1, InstanceType DEF Building
<1> QED
  BY <1>1, <1>3, <1>5, <1>7, <1>9, <1>10, <1>11, <1>12, <1>13, <1>14, ThreadWork

\* A start finds no thread that is told to end.
LEMMA NotStarting ==
  ASSUME Inv, NEW i \in Instance, Live(i), Solo,
         \/ inst[i].fsm \in {"terminate", "ended"}
         \/ inst[i].loop # "run"
         \/ \E t \in inst[i].alive : inst[i].st[t] \in {"stopping", "stopped"}
  PROVE  \A b \in App : ~Starts(b, i)
BY DEF Inv, SoloStart, Building, Starts

\* The thread of a service ends when it is told to.
LEMMA ServiceEndsStep ==
  ASSUME Inv, NEW i \in Instance, NEW t \in Threads, ServiceEnds(i, t)
  PROVE  Inv'
<1>1. /\ wrong = "no" /\ Live(i) /\ t \in inst[i].alive /\ inst[i].st[t] = "stopping" /\ t # "connector"
      /\ inst' = [inst EXCEPT ![i].st[t] = "stopped", ![i].alive = @ \ {t}]
      /\ UNCHANGED <<single, logging, call, past, wrong>>
  BY DEF ServiceEnds, Alive
<1>2. PICK q : q = [inst[i] EXCEPT !.st[t] = "stopped"]
  OBVIOUS
<1>3. PICK r : r = [q EXCEPT !.alive = inst[i].alive \ {t}]
  OBVIOUS
<1>4. q \in Instances
  BY <1>2, StatusChanged DEF Status
<1>5. /\ q.st[t] = "stopped" /\ \A u \in Threads \ {t} : q.st[u] = inst[i].st[u]
      /\ q.info = inst[i].info /\ q.set = inst[i].set /\ q.lock = inst[i].lock
      /\ q.mem = "live" /\ q.loop = inst[i].loop /\ q.tinfo = inst[i].tinfo
      /\ q.left = inst[i].left /\ q.end = inst[i].end /\ q.has = inst[i].has /\ q.fsm = inst[i].fsm
  BY <1>1, <1>2, InstanceType DEF Instances, Live
<1>6. /\ r \in Instances /\ r.alive = inst[i].alive \ {t}
      /\ r.st[t] = "stopped" /\ \A u \in Threads \ {t} : r.st[u] = inst[i].st[u]
      /\ r.info = inst[i].info /\ r.set = inst[i].set /\ r.lock = inst[i].lock
      /\ r.mem = "live" /\ r.loop = inst[i].loop /\ r.tinfo = inst[i].tinfo
      /\ r.left = inst[i].left /\ r.end = inst[i].end /\ r.has = inst[i].has /\ r.fsm = inst[i].fsm
  BY <1>3, <1>4, <1>5, InstanceType DEF Instances
<1>7. inst' = [inst EXCEPT ![i] = r]
  BY <1>1, <1>2, <1>3
<1>8. ConnectorFits(inst[i]) /\ "connector" \in Threads /\ t \in Service
  BY <1>1 DEF Inv, ConnectorOK, Threads
<1>9. ConnectorFits(r)
  BY <1>1, <1>6, <1>8, InstanceType DEF ConnectorFits
<1>10. r.st["connector"] = inst[i].st["connector"]
  BY <1>1, <1>6, <1>8
<1>11. r.st["connector"] = "stopped" \/ r.loop # "run"
  BY <1>1, <1>6, <1>8, <1>10 DEF Inv, ToldOK, Told
<1>12. \A u \in Threads : NoneYet(inst[i], u) => NoneYet(r, u)
  BY <1>1, <1>6 DEF NoneYet
<1>13. \A u \in Threads : inst[i].st[u] = "stopped" => r.st[u] = "stopped"
  BY <1>1, <1>6
<1>14. Solo /\ r.loop # "run" => AbortTook(r)
  BY <1>1, <1>6, <1>13 DEF Inv, SoloAbort, AbortTook, Threads
<1>15. Solo => \A b \in App : Starts(b, i) => Building(call[b], r)
  BY <1>1, NotStarting
<1> QED
  BY <1>1, <1>6, <1>7, <1>9, <1>10, <1>11, <1>12, <1>13, <1>14, <1>15, ThreadWork

\* CCFSM ends as it was asked to, and the connector thread with it.
LEMMA ConnectorTerminatedStep ==
  ASSUME Inv, NEW i \in Instance, ConnectorTerminated(i) \/ ConnectorEnds(i)
  PROVE  Inv'
<1> DEFINE c == "connector"
<1>1. /\ wrong = "no" /\ Live(i) /\ c \in inst[i].alive /\ inst[i].loop = "run"
      /\ UNCHANGED <<single, logging, call, past, wrong>> /\ c \in Threads
  BY DEF ConnectorTerminated, ConnectorEnds, Alive, Threads
<1>2. ConnectorFits(inst[i])
  BY <1>1 DEF Inv, ConnectorOK
<1>3. PICK st \in {"stopping", "stopped"}, r \in Instances :
        /\ inst' = [inst EXCEPT ![i] = r] /\ r.has = inst[i].has \ {"handle"} /\ r.fsm = "ended"
        /\ r.st[c] = st /\ \A u \in Threads \ {c} : r.st[u] = inst[i].st[u]
        /\ r.info = inst[i].info /\ r.set = inst[i].set /\ r.lock = inst[i].lock
        /\ r.mem = "live" /\ r.loop = "run" /\ r.tinfo = inst[i].tinfo
        /\ r.left = inst[i].left /\ r.end = inst[i].end
        /\ \/ st = "stopping" /\ r.alive = inst[i].alive /\ inst[i].st[c] = "running" /\ inst[i].fsm = "terminate"
           \/ st = "stopped" /\ r.alive = inst[i].alive \ {c} /\ inst[i].st[c] = "stopping"
  <2>1. inst[i] \in Instances /\ inst[i].mem = "live"
    BY <1>1, InstanceType DEF Live
  <2>2. CASE ConnectorTerminated(i)
    <3>1. PICK q : q = [inst[i] EXCEPT !.st[c] = "stopping"]
      OBVIOUS
    <3>2. PICK r : r = [q EXCEPT !.fsm = "ended", !.has = inst[i].has \ {"handle"}]
      OBVIOUS
    <3>3. q \in Instances
      BY <1>1, <3>1, StatusChanged DEF Status
    <3>4. /\ q.st[c] = "stopping" /\ \A u \in Threads \ {c} : q.st[u] = inst[i].st[u]
          /\ q.info = inst[i].info /\ q.set = inst[i].set /\ q.lock = inst[i].lock
          /\ q.mem = "live" /\ q.loop = inst[i].loop /\ q.tinfo = inst[i].tinfo
          /\ q.left = inst[i].left /\ q.end = inst[i].end /\ q.alive = inst[i].alive
      BY <1>1, <2>1, <3>1, InstanceType DEF Instances
    <3>5. r \in Instances /\ r.has = inst[i].has \ {"handle"} /\ r.fsm = "ended"
      BY <2>1, <3>2, <3>3 DEF Instances
    <3>6. /\ r.st = q.st /\ r.info = q.info /\ r.set = q.set /\ r.lock = q.lock
          /\ r.mem = q.mem /\ r.loop = q.loop /\ r.tinfo = q.tinfo
          /\ r.left = q.left /\ r.end = q.end /\ r.alive = q.alive
      BY <3>2, <3>3 DEF Instances
    <3>7. inst' = [inst EXCEPT ![i] = r]
      BY <2>2, <3>1, <3>2 DEF ConnectorTerminated
    <3>8. inst[i].st[c] = "running" /\ inst[i].fsm = "terminate"
      BY <2>2 DEF ConnectorTerminated
    <3> QED
      BY <1>1, <3>4, <3>5, <3>6, <3>7, <3>8
  <2>3. CASE ConnectorEnds(i)
    <3>1. PICK q : q = [inst[i] EXCEPT !.st[c] = "stopped"]
      OBVIOUS
    <3>2. PICK r : r = [q EXCEPT !.alive = inst[i].alive \ {c}]
      OBVIOUS
    <3>3. q \in Instances
      BY <1>1, <3>1, StatusChanged DEF Status
    <3>4. /\ q.st[c] = "stopped" /\ \A u \in Threads \ {c} : q.st[u] = inst[i].st[u]
          /\ q.info = inst[i].info /\ q.set = inst[i].set /\ q.lock = inst[i].lock
          /\ q.mem = "live" /\ q.loop = inst[i].loop /\ q.tinfo = inst[i].tinfo
          /\ q.left = inst[i].left /\ q.end = inst[i].end /\ q.has = inst[i].has /\ q.fsm = inst[i].fsm
      BY <1>1, <2>1, <3>1, InstanceType DEF Instances
    <3>5. r \in Instances /\ r.alive = inst[i].alive \ {c}
      BY <2>1, <3>2, <3>3 DEF Instances
    <3>6. /\ r.st = q.st /\ r.info = q.info /\ r.set = q.set /\ r.lock = q.lock
          /\ r.mem = q.mem /\ r.loop = q.loop /\ r.tinfo = q.tinfo
          /\ r.left = q.left /\ r.end = q.end /\ r.has = q.has /\ r.fsm = q.fsm
      BY <3>2, <3>3 DEF Instances
    <3>7. inst' = [inst EXCEPT ![i] = r]
      BY <2>3, <3>1, <3>2 DEF ConnectorEnds
    <3>8. inst[i].st[c] = "stopping" /\ inst[i].fsm = "ended" /\ inst[i].has = inst[i].has \ {"handle"}
      BY <1>2, <2>3 DEF ConnectorEnds, ConnectorFits
    <3> QED
      BY <1>1, <3>4, <3>5, <3>6, <3>7, <3>8
  <2> QED
    BY <2>2, <2>3
<1>4. ConnectorFits(r)
  <2>1. \A u \in r.alive : r.st[u] \in {"starting", "running", "stopping"}
    BY <1>2, <1>3, InstanceType DEF ConnectorFits
  <2> QED
    BY <1>2, <1>3, <2>1 DEF ConnectorFits
<1>5. ~Told(r)
  <2>1. ~Told(inst[i])
    BY <1>1, <1>3 DEF Inv, ToldOK
  <2> QED
    BY <1>3, <2>1, ServiceNames DEF Told, Threads
<1>6. /\ \A u \in Threads : NoneYet(inst[i], u) => NoneYet(r, u)
      /\ \A u \in Threads : inst[i].st[u] = "stopped" => r.st[u] = "stopped"
      /\ inst[i].st[c] = "stopped" => r.st[c] = "stopped"
  BY <1>1, <1>3 DEF NoneYet
<1>7. Solo => \A b \in App : Starts(b, i) => Building(call[b], r)
  BY <1>1, <1>3, NotStarting
<1>8. "action_lock" \in inst[i].has => "action_lock" \in r.has
  BY <1>3
<1> QED
  BY <1>1, <1>3, <1>4, <1>5, <1>6, <1>7, <1>8, ThreadWork

\* CCFSM gives up: no call may be under way, or calls overlap.
LEMMA AbortStep ==
  ASSUME Inv, NEW i \in Instance, Abort(i)
  PROVE  Inv'
<1>1. /\ wrong = "no" /\ Live(i) /\ inst[i].st["connector"] = "running" /\ inst[i].loop = "run"
      /\ UNCHANGED <<single, logging, call>> /\ wrong' = IF inst[i].tinfo = "freed" THEN "twice" ELSE "no"
      /\ past' = past \cup {"abort"} \cup (IF \E a \in App : call[a].pc # "idle" THEN {"overlap"} ELSE {})
  BY DEF Abort, Alive
<1>2. PICK loop : loop = IF Service = {} THEN "free" ELSE "request"
  OBVIOUS
<1>3. PICK has : has = inst[i].has \ {"handle"}
  OBVIOUS
<1>0. PICK tinfo : tinfo = IF inst[i].tinfo = "null" THEN "null" ELSE "freed"
  OBVIOUS
<1>4. PICK r : r = [inst[i] EXCEPT !.loop = loop, !.left = Service, !.fsm = "ended", !.has = has, !.tinfo = tinfo]
  OBVIOUS
<1>5. inst' = [inst EXCEPT ![i] = r]
  BY <1>0, <1>2, <1>3, <1>4 DEF Abort
<1>6. /\ r \in Instances /\ r.loop = loop /\ r.left = Service /\ r.fsm = "ended" /\ r.has = has
      /\ r.st = inst[i].st /\ r.info = inst[i].info /\ r.set = inst[i].set /\ r.lock = inst[i].lock
      /\ r.mem = "live" /\ r.end = inst[i].end /\ r.alive = inst[i].alive
  <2>1. inst[i] \in Instances /\ inst[i].mem = "live"
    BY <1>1, InstanceType DEF Live
  <2>2. loop \in {"free", "request"} /\ Service \subseteq Threads /\ has \subseteq Parts /\ tinfo \in {"null", "freed"}
    BY <1>0, <1>2, <1>3, InstanceType DEF Threads
  <2> QED
    BY <1>4, <2>1, <2>2 DEF Instances
<1>7. Besides(i) /\ inst'[i] = r /\ inst' \in [Instance -> Instances]
  BY <1>5, <1>6, InstanceBecomes
<1>8. past \subseteq past' /\ past' \subseteq {"overlap", "abort", "late_failure", "refused"} /\ "abort" \in past'
  BY <1>1 DEF Inv, TypeOK
<1>9. TypeOK'
  BY <1>1, <1>7, <1>8 DEF Inv, TypeOK
<1>10. UseIsSafe'
  <2>1. \A b \in App : call[b].pc # "idle" => "overlap" \in past'
    BY <1>1
  <2>2. inst[i].tinfo = "freed" => past' \cap {"overlap", "refused"} # {}
    <3>1. inst[i].tinfo = "freed" /\ past \cap {"overlap", "refused"} = {} => \E b \in App : call[b].pc # "idle"
      BY <1>1 DEF Inv, InfoGoneOK
    <3> QED
      BY <1>8, <2>1, <3>1
  <2> QED
    BY <1>1, <2>2 DEF UseIsSafe
<1>11. ConnectorFits(inst[i])
  BY <1>1 DEF Inv, ConnectorOK
<1>12. ConnectorFits(r) /\ r.loop # "run"
  BY <1>1, <1>2, <1>3, <1>6, <1>11 DEF ConnectorFits
<1>13. Solo' => Solo /\ \A b \in App : ~Starts(b, i) /\ ~Ending(b, i)
  <2>1. Solo' => Solo /\ \A b \in App : call[b].pc = "idle"
    BY <1>1 DEF Solo
  <2> QED
    BY <2>1 DEF Starts, Ending, StartPcs
<1>14. Solo' => AbortTook(r)
  <2> SUFFICES ASSUME Solo' PROVE AbortTook(r)
    OBVIOUS
  <2>1. inst[i].lock = Threads
    BY <1>1, <1>13 DEF Inv, SoloStarted
  <2> QED
    BY <1>2, <1>6, <2>1 DEF AbortTook, Threads
<1>15. /\ \A u \in Threads : NoneYet(inst[i], u) => NoneYet(r, u)
       /\ Complete(inst[i]) => Complete(r)
  BY <1>3, <1>6 DEF NoneYet, Complete
<1>16. \A b \in App : call'[b] = call[b] /\ (Starts(b, i)' <=> Starts(b, i)) /\ (Ending(b, i)' <=> Ending(b, i))
  BY <1>1 DEF Starts, Ending
<1> QED
  BY <1>1, <1>6, <1>7, <1>8, <1>9, <1>10, <1>12, <1>13, <1>14, <1>15, <1>16, InstanceWork

\* The stop by the connector thread, service by service; it passes one over only
\* beside a start.
LEMMA AbortRequestStep ==
  ASSUME Inv, NEW i \in Instance, AbortRequest(i) \/ AbortAwait(i)
  PROVE  Inv'
<1>1. PICK t : t = FirstOf(inst[i].left)
  OBVIOUS
<1>2. /\ wrong = "no" /\ Live(i) /\ inst[i].loop \in {"request", "await"}
      /\ UNCHANGED <<single, logging, call, past, wrong>>
  BY DEF AbortRequest, AbortAwait, Alive
<1>3. ConnectorFits(inst[i]) /\ inst[i].st["connector"] = "running"
  BY <1>2 DEF Inv, ConnectorOK, ConnectorFits
<1>4. t \in inst[i].left /\ t \in Service /\ t \in Threads /\ t # "connector"
  <2>1. inst[i].left # {} /\ inst[i].left \subseteq Service /\ inst[i].left \subseteq Threads
    BY <1>2, <1>3 DEF ConnectorFits, Threads
  <2> QED
    BY <1>1, <2>1, FirstIs, ServiceNames
<1>5. Solo => \A b \in App : ~Starts(b, i)
  BY <1>2, NotStarting
<1>6. PICK next : next = IF inst[i].left = {t} THEN "free" ELSE "request"
  OBVIOUS
<1>7. PICK left : left = inst[i].left \ {t}
  OBVIOUS
<1>8. PICK r \in Instances, st \in Status :
        /\ inst' = [inst EXCEPT ![i] = r]
        /\ r.st[t] = st /\ \A u \in Threads \ {t} : r.st[u] = inst[i].st[u]
        /\ r.info = inst[i].info /\ r.set = inst[i].set /\ r.mem = "live" /\ r.has = inst[i].has
        /\ r.tinfo = inst[i].tinfo /\ r.end = inst[i].end /\ r.alive = inst[i].alive /\ r.fsm = inst[i].fsm
        /\ \/ /\ st = IF inst[i].st[t] = "running" THEN "stopping" ELSE inst[i].st[t]
              /\ r.loop = "await" /\ r.left = inst[i].left /\ r.lock = inst[i].lock
           \/ /\ st = inst[i].st[t] /\ t \notin inst[i].set
              /\ r.loop = next /\ r.left = left /\ r.lock = inst[i].lock
           \/ /\ st = inst[i].st[t] /\ st = "stopped"
              /\ r.loop = next /\ r.left = left /\ r.lock = inst[i].lock \ {t}
  <2>1. inst[i] \in Instances /\ inst[i].mem = "live" /\ inst[i].st[t] \in Status
    BY <1>2, <1>4, InstanceType DEF Live
  <2>2. CASE AbortRequest(i) /\ t \in inst[i].set
    <3>1. PICK st \in Status : /\ st = IF inst[i].st[t] = "running" THEN "stopping" ELSE inst[i].st[t]
                               /\ Request(i, t) = [inst[i] EXCEPT !.st[t] = st]
      BY <1>4, RequestIs
    <3>2. PICK q : q = [inst[i] EXCEPT !.st[t] = st]
      OBVIOUS
    <3>3. PICK r : r = [q EXCEPT !.loop = "await"]
      OBVIOUS
    <3>4. q \in Instances
      BY <1>4, <3>2, StatusChanged
    <3>5. /\ q.st[t] = st /\ \A u \in Threads \ {t} : q.st[u] = inst[i].st[u]
          /\ q.info = inst[i].info /\ q.set = inst[i].set /\ q.lock = inst[i].lock
          /\ q.mem = "live" /\ q.has = inst[i].has /\ q.tinfo = inst[i].tinfo /\ q.fsm = inst[i].fsm
          /\ q.left = inst[i].left /\ q.end = inst[i].end /\ q.alive = inst[i].alive
      BY <1>4, <2>1, <3>2, InstanceType DEF Instances
    <3>6. /\ r \in Instances /\ r.loop = "await"
          /\ r.st = q.st /\ r.info = q.info /\ r.set = q.set /\ r.lock = q.lock
          /\ r.mem = q.mem /\ r.has = q.has /\ r.tinfo = q.tinfo /\ r.fsm = q.fsm
          /\ r.left = q.left /\ r.end = q.end /\ r.alive = q.alive
      BY <3>3, <3>4 DEF Instances
    <3>7. inst' = [inst EXCEPT ![i] = r]
      BY <1>1, <2>2, <3>1, <3>2, <3>3 DEF AbortRequest
    <3>8. /\ r.st[t] = st /\ \A u \in Threads \ {t} : r.st[u] = inst[i].st[u]
          /\ r.info = inst[i].info /\ r.set = inst[i].set /\ r.mem = "live" /\ r.has = inst[i].has
          /\ r.tinfo = inst[i].tinfo /\ r.end = inst[i].end /\ r.alive = inst[i].alive /\ r.fsm = inst[i].fsm
          /\ r.loop = "await" /\ r.left = inst[i].left /\ r.lock = inst[i].lock
      BY <3>5, <3>6
    <3>9. st = IF inst[i].st[t] = "running" THEN "stopping" ELSE inst[i].st[t]
      BY <3>1
    <3> QED
      BY <3>6, <3>7, <3>8, <3>9
  <2>3. CASE AbortRequest(i) /\ t \notin inst[i].set
    <3>1. PICK r : r = [inst[i] EXCEPT !.left = left, !.loop = next]
      OBVIOUS
    <3>2. left \subseteq Threads /\ next \in {"free", "request"}
      BY <1>6, <1>7, InstanceType
    <3>3. /\ r \in Instances /\ r.loop = next /\ r.left = left
          /\ r.st = inst[i].st /\ r.info = inst[i].info /\ r.set = inst[i].set /\ r.lock = inst[i].lock
          /\ r.mem = "live" /\ r.has = inst[i].has /\ r.tinfo = inst[i].tinfo /\ r.fsm = inst[i].fsm
          /\ r.end = inst[i].end /\ r.alive = inst[i].alive
      BY <2>1, <3>1, <3>2 DEF Instances
    <3>4. inst' = [inst EXCEPT ![i] = r]
      BY <1>1, <1>6, <1>7, <2>3, <3>1 DEF AbortRequest
    <3> QED
      BY <2>1, <2>3, <3>3, <3>4
  <2>4. CASE AbortAwait(i)
    <3>1. PICK q \in Instances :
             /\ q = ThreadEnded(i, t) /\ q.lock = inst[i].lock \ {t}
             /\ q.info = inst[i].info /\ q.set = inst[i].set /\ q.st = inst[i].st
             /\ q.mem = inst[i].mem /\ q.loop = inst[i].loop /\ q.tinfo = inst[i].tinfo
             /\ q.left = inst[i].left /\ q.end = inst[i].end
             /\ q.alive = inst[i].alive /\ q.has = inst[i].has /\ q.fsm = inst[i].fsm
      BY EndedIs
    <3>2. PICK r : r = [q EXCEPT !.left = left, !.loop = next]
      OBVIOUS
    <3>3. left \subseteq Threads /\ next \in {"free", "request"}
      BY <1>6, <1>7, InstanceType
    <3>4. /\ r \in Instances /\ r.loop = next /\ r.left = left
          /\ r.st = q.st /\ r.info = q.info /\ r.set = q.set /\ r.lock = q.lock
          /\ r.mem = q.mem /\ r.has = q.has /\ r.tinfo = q.tinfo /\ r.fsm = q.fsm
          /\ r.end = q.end /\ r.alive = q.alive
      BY <3>2, <3>3 DEF Instances
    <3>5. inst' = [inst EXCEPT ![i] = [q EXCEPT !.left = q.left \ {t}, !.loop = next]]
      BY <1>1, <1>6, <2>4, <3>1 DEF AbortAwait
    <3>6. inst' = [inst EXCEPT ![i] = r]
      BY <1>7, <3>1, <3>2, <3>5
    <3>7. inst[i].st[t] = "stopped"
      BY <1>1, <2>4 DEF AbortAwait
    <3>8. /\ r.info = inst[i].info /\ r.set = inst[i].set /\ r.mem = "live" /\ r.has = inst[i].has
          /\ r.tinfo = inst[i].tinfo /\ r.end = inst[i].end /\ r.alive = inst[i].alive
          /\ r.fsm = inst[i].fsm
      BY <2>1, <3>1, <3>4
    <3>9. /\ r.st = inst[i].st /\ r.loop = next /\ r.left = left
          /\ r.lock = inst[i].lock \ {t}
      BY <3>1, <3>4
    <3> QED
      BY <2>1, <3>4, <3>6, <3>7, <3>8, <3>9
  <2> QED
    BY <2>2, <2>3, <2>4, Zenon
<1>9. r.loop # "run" /\ r.st["connector"] = "running"
  BY <1>3, <1>4, <1>6, <1>8, ServiceNames DEF Threads
<1>10. ConnectorFits(r)
  <2>1. \A u \in r.alive : r.st[u] \in {"starting", "running", "stopping"}
    BY <1>3, <1>8, InstanceType DEF ConnectorFits
  <2>2. r.left \subseteq Service /\ (r.loop # "free" => r.left # {})
    BY <1>2, <1>3, <1>4, <1>6, <1>7, <1>8 DEF ConnectorFits
  <2> QED
    BY <1>2, <1>3, <1>8, <1>9, <2>1, <2>2 DEF ConnectorFits
<1>11. /\ \A u \in Threads : NoneYet(inst[i], u) => NoneYet(r, u)
       /\ \A u \in Threads : inst[i].st[u] = "stopped" => r.st[u] = "stopped"
       /\ inst[i].st["connector"] # "stopped"
  BY <1>3, <1>8 DEF NoneYet
<1>12. Solo => AbortTook(r)
  <2> SUFFICES ASSUME Solo PROVE AbortTook(r)
    OBVIOUS
  <2>1. t \in inst[i].set
    BY <1>2, <1>4, <1>5 DEF Inv, SoloStarted, Complete
  <2>2. inst[i].lock = {"connector"} \cup inst[i].left /\ \A u \in Service \ inst[i].left : inst[i].st[u] = "stopped"
    BY <1>2 DEF Inv, SoloAbort, AbortTook
  <2>3. CASE r.loop = "await" /\ r.left = inst[i].left /\ r.lock = inst[i].lock
    BY <1>11, <2>2, <2>3 DEF AbortTook, Threads
  <2>4. CASE r.loop = next /\ r.left = left /\ r.lock = inst[i].lock \ {t} /\ inst[i].st[t] = "stopped"
    <3>1. r.lock = {"connector"} \cup left
      BY <1>4, <1>7, <2>2, <2>4
    <3>2. \A u \in Service \ left : r.st[u] = "stopped"
      BY <1>7, <1>11, <2>2, <2>4 DEF Threads
    <3>3. next = "free" => left = {}
      BY <1>6, <1>7
    <3>4. next = "free" \/ next = "request"
      BY <1>6
    <3> QED
      BY <2>4, <3>1, <3>2, <3>3, <3>4 DEF AbortTook
  <2> QED
    BY <1>8, <2>1, <2>3, <2>4
<1> QED
  BY <1>2, <1>5, <1>8, <1>9, <1>10, <1>11, <1>12, ThreadWork

\* Memory that is not there: the rest is as it was.
LEMMA RestKept ==
  ASSUME Inv, UNCHANGED <<single, inst, logging, call>>, past \subseteq past',
         past' \subseteq {"overlap", "abort", "late_failure", "refused"},
         wrong' \in {"no", "freed", "null", "cond", "strings", "rci_data", "twice"}, UseIsSafe'
  PROVE  Inv'
<1>0. (Solo' => Solo) /\ (past' = {} => past = {})
      /\ (past' \cap {"overlap", "refused"} = {} => past \cap {"overlap", "refused"} = {})
  BY DEF Solo
<1>1. TypeOK'
  BY DEF Inv, TypeOK
<1>2. CallsOK' /\ InstancesOK'
  BY CallsKept, InstancesKept
<1>3. Users' = Users /\ LiveInstances' = LiveInstances
  BY DEF Users, LiveInstances, Live
<1>4. UsersOK'
  BY <1>3, UsersKept
<1>5. StartOK' /\ StopOK'
  BY DEF Inv, StartOK, StopOK, Live
<1>6. LockOK' /\ SoloStart' /\ SoloStop'
  BY <1>0 DEF Inv, LockOK, SoloStart, SoloStop, Live
<1>7. SoloStarted'
  BY StartedKept DEF Starts, Ending
<1>8. FoundOK' /\ InfoGoneOK'
  BY <1>0 DEF Inv, FoundOK, InfoGoneOK, Live
<1> QED
  BY <1>1, <1>2, <1>4, <1>5, <1>6, <1>7, <1>8 DEF Inv, InstancesOK, CallsOK

\* A call finds no instance that is not there, or not complete, if nothing went wrong before.
LEMMA BeginsWrongStep ==
  ASSUME Inv, NEW a \in App, BeginsWrong(a)
  PROVE  Inv'
<1>1. /\ wrong = "no" /\ call[a].pc = "idle" /\ UNCHANGED <<single, inst, logging, call>>
      /\ past' = IF \E b \in App \ {a} : call[b].pc # "idle" THEN past \cup {"overlap"} ELSE past
      /\ wrong' \in {"freed", "null"} /\ (RunningReadsFreed \/ RunningReadsNull)
  BY DEF BeginsWrong, Begins
<1>2. past \subseteq past' /\ past' \subseteq {"overlap", "abort", "late_failure", "refused"}
  BY <1>1 DEF Inv, TypeOK
<1>3. past' # {}
  <2> SUFFICES ASSUME past' = {} PROVE FALSE
    OBVIOUS
  <2>1. past = {} /\ Solo /\ \A b \in App : call[b].pc = "idle"
    BY <1>1, <1>2 DEF Solo
  <2>2. single # Null /\ single \in Instance /\ Live(single)
    BY <1>1, <2>1 DEF RunningReadsFreed, RunningReadsNull, Inv, FoundOK, TypeOK
  <2>3. \A b \in App : ~Starts(b, single)
    BY <2>1 DEF Starts, StartPcs
  <2>4. "connector" \in inst[single].set
    BY <2>1, <2>2, <2>3 DEF Inv, SoloStarted, Complete, Threads
  <2> QED
    BY <1>1, <2>2, <2>4 DEF RunningReadsFreed, RunningReadsNull
<1> QED
  BY <1>1, <1>2, <1>3, RestKept DEF UseIsSafe

\* Nor does a call that has its instance lose it.
LEMMA GoesWrongStep ==
  ASSUME Inv, NEW a \in App, GoesWrong(a)
  PROVE  Inv'
<1>1. /\ wrong = "no" /\ call[a].i # Null /\ UNCHANGED <<single, inst, logging, call, past>>
      /\ wrong' \in {"freed", "null"}
  BY DEF GoesWrong
<1>2. call[a].pc \notin {"undolog", "freelog"} => call[a].pc \in StartPcs \cup StopPcs \cup {"act"} /\ call[a].i \in Instance
  <2>1. call[a] \in Calls /\ call[a].pc \notin {"idle", "log", "alloc"}
    BY <1>1 DEF Inv, TypeOK, CallOK
  <2> QED
    BY <2>1 DEF Calls, StartPcs, StopPcs, Inv, CallOK
<1>3. past # {}
  <2> SUFFICES ASSUME past = {} PROVE FALSE
    OBVIOUS
  <2>1. Solo
    BY DEF Solo
  <2>2. Live(call[a].i) /\ call[a].pc \in {"terminate", "act"} /\ "action_lock" \notin inst[call[a].i].has
    BY <1>2 DEF GoesWrong, Mine, Inv, FoundOK
  <2>3. \A b \in App : ~Starts(b, call[a].i)
    BY <2>1, <2>2 DEF Inv, SoloOK, Starts, StartPcs
  <2> QED
    BY <1>2, <2>1, <2>2, <2>3 DEF Inv, SoloStarted, Complete
<1>4. past' \subseteq {"overlap", "abort", "late_failure", "refused"} /\ UseIsSafe'
  BY <1>1, <1>3 DEF Inv, TypeOK, UseIsSafe
<1> QED
  BY <1>1, <1>4, RestKept

\* Nor does a thread.
LEMMA ThreadGoesWrongStep ==
  ASSUME Inv, NEW i \in Instance, ThreadGoesWrong(i)
  PROVE  Inv'
<1>1. /\ wrong = "no" /\ ~Live(i) /\ inst[i].alive # {} /\ UNCHANGED <<single, inst, logging, call, past>>
      /\ wrong' = "freed"
  BY DEF ThreadGoesWrong
<1>2. past # {}
  BY <1>1 DEF Inv, FoundOK
<1>3. past' \subseteq {"overlap", "abort", "late_failure", "refused"} /\ UseIsSafe'
  BY <1>1, <1>2 DEF Inv, TypeOK, UseIsSafe
<1> QED
  BY <1>1, <1>3, RestKept

----------------------------------------------------------------------------
(* The theorems. *)

\* Before the first call there is no instance.
LEMMA InitInv == Init => Inv
<1> SUFFICES ASSUME Init PROVE Inv
  OBVIOUS
<1>1. /\ single = Null /\ inst = [i \in Instance |-> Unused] /\ logging = [users |-> 0, lock |-> FALSE]
      /\ call = [a \in App |-> NoCall] /\ past = {} /\ wrong = "no"
  BY DEF Init
<1>2. NoCall \in Calls /\ NoCall.pc = "idle" /\ NoCall.i = Null
  BY DEF NoCall, Calls
<1>3. Unused \in Instances /\ Unused.mem = "free" /\ Unused.end = "no" /\ Unused.alive = {}
  <2>1. Fresh \in Instances /\ Fresh.end = "no" /\ Fresh.alive = {}
    BY DEF Fresh, Instances, Status
  <2> QED
    BY <2>1 DEF Unused, Instances
<1>4. \A a \in App : call[a].pc = "idle" /\ call[a].i = Null
  BY <1>1, <1>2
<1>5. \A i \in Instance : ~Live(i) /\ inst[i].end = "no" /\ inst[i].alive = {}
  BY <1>1, <1>3 DEF Live
<1>6. UsersOK
  <2>1. LiveInstances = {} /\ Users = {}
    BY <1>4, <1>5 DEF LiveInstances, Users
  <2>2. Cardinality({}) = 0
    BY FS_EmptySet
  <2> QED
    BY <1>1, <2>1, <2>2 DEF UsersOK
<1>7. TypeOK
  <2>1. Cardinality(Instance) \in Nat /\ Cardinality(App) \in Nat
    BY Counted
  <2>2. logging \in [users : 0..(Cardinality(Instance) + Cardinality(App)), lock : BOOLEAN]
    BY <1>1, <2>1
  <2> QED
    BY <1>1, <1>2, <1>3, <2>2 DEF TypeOK
<1>8. CallOK /\ OneStarter /\ StartOK /\ StopOK
  BY <1>4 DEF CallOK, OneStarter, Starts, StartOK, StopOK, StartPcs, StopPcs
<1>9. ConnectorOK /\ ToldOK /\ SoloAbort /\ LeftOK /\ SoloStarted
  BY <1>5 DEF ConnectorOK, ToldOK, SoloAbort, LeftOK, SoloStarted
<1>10. SoloOK /\ LockOK /\ SoloStart /\ SoloStop
  BY <1>1, <1>4 DEF SoloOK, LockOK, SoloStart, SoloStop, StartPcs
<1>11. FoundOK /\ InfoGoneOK /\ UseIsSafe
  BY <1>1, <1>4, <1>5 DEF FoundOK, InfoGoneOK, UseIsSafe, StartPcs, StopPcs
<1> QED
  BY <1>6, <1>7, <1>8, <1>9, <1>10, <1>11 DEF Inv

\* Every step keeps the invariant.
LEMMA NextInv == Inv /\ [Next]_vars => Inv'
<1> SUFFICES ASSUME Inv, [Next]_vars PROVE Inv'
  OBVIOUS
<1>1. CASE UNCHANGED vars
  <2>1. UNCHANGED <<single, inst, logging, call, past, wrong>>
    BY <1>1 DEF vars
  <2>2. UseIsSafe' /\ past' \subseteq {"overlap", "abort", "late_failure", "refused"}
        /\ wrong' \in {"no", "freed", "null", "cond", "strings", "rci_data", "twice"}
    BY <2>1 DEF Inv, UseIsSafe, TakenDown, Live, TypeOK
  <2> QED
    BY <2>1, <2>2, RestKept
<1>2. ASSUME NEW a \in App, StartStep(a)
      PROVE  Inv'
  BY <1>2, StartLogLockStep, StartAllocStep, StartConfigStep, StartHandleStep, CreateThreadStep,
     ThreadStartedStep, StartLocksStep, FreeStep, LoggingDoneStep DEF StartStep
<1>3. ASSUME NEW a \in App, StopStep(a)
      PROVE  Inv'
  BY <1>3, StopTransportsStep, StopTerminateStep, StopWaitedStep, StopRequestStep, StopAwaitStep,
     FreeStep, LoggingDoneStep DEF StopStep
<1>4. ASSUME NEW a \in App, StartLogging(a) \/ StopBegin(a) \/ UseBegin(a) \/ UseAct(a)
      PROVE  Inv'
  BY <1>4, StartLoggingStep, UseBeginStep, UseActStep
<1>5. ASSUME NEW a \in App, BeginsWrong(a) \/ GoesWrong(a)
      PROVE  Inv'
  BY <1>5, BeginsWrongStep, GoesWrongStep
<1>6. ASSUME NEW i \in Instance, ThreadStep(i) \/ Abort(i) \/ ThreadGoesWrong(i)
      PROVE  Inv'
  <2>1. ASSUME NEW t \in Threads, ThreadRuns(i, t) \/ ServiceEnds(i, t)
        PROVE  Inv'
    BY <2>1, ThreadRunsStep, ServiceEndsStep
  <2>2. CASE ConnectorStep(i)
    BY <2>2, ConnectorTerminatedStep, AbortRequestStep, AbortFreeStep DEF ConnectorStep
  <2> QED
    BY <1>6, <2>1, <2>2, AbortStep, ThreadGoesWrongStep DEF ThreadStep
<1> QED
  BY <1>1, <1>2, <1>3, <1>4, <1>5, <1>6 DEF Next, Halted

\* The invariant holds of every behaviour of ccapi_start, ccapi_stop, the calls
\* between them and the threads of ccapi.c.
THEOREM Invariant == Spec => []Inv
BY InitInv, NextInv, PTL DEF Spec

\* What the invariant says of freed instances is what Leftovers says.
LEMMA LeftoversHold == Inv => Leftovers
<1> SUFFICES ASSUME Inv, NEW i \in Instance
             PROVE  /\ inst[i].end = "stopped" /\ "overlap" \notin past =>
                         inst[i].has = {} /\ inst[i].alive = {} /\ inst[i].lock = {} /\ inst[i].info = {}
                    /\ inst[i].end = "aborted" /\ past = {"abort"} =>
                         inst[i].has = {} /\ inst[i].alive = {} /\ inst[i].lock = {"connector"} /\ inst[i].info = {}
                    /\ inst[i].end = "failed" /\ past = {} =>
                         inst[i].has \subseteq {"handle"} /\ Cardinality(inst[i].lock \cup inst[i].info) <= 1
  BY DEF Leftovers
<1>1. OneLeft(inst[i]) => Cardinality(inst[i].lock \cup inst[i].info) <= 1
  <2> SUFFICES ASSUME NEW t \in Threads, inst[i].lock \cup inst[i].info \subseteq {t}
               PROVE  Cardinality(inst[i].lock \cup inst[i].info) <= 1
    BY DEF OneLeft
  <2>1. inst[i].lock \cup inst[i].info = {} \/ inst[i].lock \cup inst[i].info = {t}
    OBVIOUS
  <2>2. Cardinality({}) = 0 /\ Cardinality({t}) = 1
    BY FS_EmptySet, FS_Singleton
  <2> QED
    BY <2>1, <2>2
<1> QED
  BY <1>1 DEF Inv, LeftOK, NothingLeft, Solo

\* Between calls, the users of the logging lock are the instances.
LEMMA LoggingIsCounted == Inv => LoggingCounted
<1> SUFFICES ASSUME Inv, \A a \in App : call[a].pc = "idle", Solo
             PROVE  /\ logging.users = Cardinality({i \in Instance : Live(i)})
                    /\ logging.lock <=> logging.users > 0
  BY DEF LoggingCounted, Solo
<1>1. Users = {} /\ LiveInstances = {i \in Instance : Live(i)}
  BY DEF Users, LiveInstances
<1>2. Cardinality(Users) = 0 /\ Cardinality(LiveInstances) \in Nat
  BY <1>1, Counted DEF LiveInstances
<1>3. logging.users = Cardinality(LiveInstances)
  BY <1>2 DEF Inv, UsersOK
<1>4. logging.lock <=> logging.users > 0
  BY DEF Inv, LockOK, TypeOK
<1> QED
  BY <1>1, <1>3, <1>4

\* Everything an instance obtains is of its type, counted, and given back
\* (ccapi_init.c:237, :354, :796): nothing is left by a stop beside which no other
\* call ran, the lock of the connector thread by an abort, at most one thread's
\* lock or info by a failed start; the logging lock has as many users as there are
\* instances.
THEOREM ResourcesCorrect == Spec => []ResourcesHold
<1>1. Inv => ResourcesHold
  BY LeftoversHold, LoggingIsCounted DEF ResourcesHold, Inv
<1> QED
  BY <1>1, Invariant, PTL

\* Whoever uses an instance, or a thread of it, finds it (ccapi_init.c:983): freed
\* memory is used only after calls overlapped, CCFSM gave up or refused to end,
\* or a start failed with threads running, and a transport's info is freed twice
\* only after overlapping calls or a refusal, or by a call that comes while the
\* connector thread takes the instance down.
THEOREM UseCorrect == Spec => []UseFindsInstance
<1>1. Inv => CallbackFindsThread
  BY DEF Inv, ToldOK, Told, ConnectorOK, ConnectorFits, CallbackFindsThread
<1>2. Inv => UseFindsInstance
  BY <1>1 DEF UseFindsInstance, Inv
<1> QED
  BY <1>2, Invariant, PTL

----------------------------------------------------------------------------
(***************************************************************************)
(* The transports.  The invariant relates what is allocated to the place   *)
(* of the application's call, and the connection in CCFSM to the flag and  *)
(* to the cause with which the connector thread closes it.                 *)
(***************************************************************************)

\* The flag is up only in a phase in which CCFSM is connected.
FlagOK == up => ccfsm.ph = "up"

\* The connector thread is in network_close, with a cause, while CCFSM closes.
ClosingOK ==
  /\ closing # "none" <=> ccfsm.ph = "closing"
  /\ closing \in LostCauses \cup {"none", "stopped"}

\* How many infos are allocated, and which is pointed at, in each place of a call.
InfoOK ==
  /\ app.pc = "prepare" => info \in {NoInfo, FreedInfo} /\ live = 0
  /\ app.pc = "initiate" => info \in Infos
  /\ app.pc # "prepare" => info \in Infos \cup {NoInfo} /\ live = IF info = NoInfo THEN 0 ELSE 1

\* CCFSM finds the info, unless it closes at the application's request.
UsedOK == InUse /\ under = {} /\ closing # "stopped" => info \in Infos

\* udp and sms own the strings of their info.
StringsOK == kind # "tcp" => {info.pw, info.phone} \subseteq {"null", "own"}

\* What a start knows of the flag, and CCFSM of the start, once it is lowered.
WaitOK ==
  /\ app.pc \in {"initiate", "wait"} /\ up => app.made
  /\ app.pc = "initiate" /\ InUse /\ closing # "stopped" => under # {}
  /\ app.pc = "wait" => ~ccfsm.stop
  /\ closing = "stopped" => ccfsm.stop

TransportInv ==
  /\ TransportTypeOK /\ FlagOK /\ ClosingOK /\ InfoOK /\ UsedOK /\ StringsOK /\ WaitOK
  /\ StartIsHonest /\ CallbackSafe /\ FreesOwn

\* No info and a freed one are not infos.
LEMMA InfoTypes ==
  /\ NoInfo \notin Infos /\ FreedInfo \notin Infos /\ NoInfo # FreedInfo
  /\ NoInfo.pw = "null" /\ NoInfo.phone = "null"
  /\ FreedInfo.pw = "null" /\ FreedInfo.phone = "null"
  BY DEF Infos, NoInfo, FreedInfo

\* The causes of a lost connection, for each transport.
LEMMA LostTypes ==
  ASSUME TransportTypeOK
  PROVE  /\ kind \in {"tcp", "udp", "sms"}
         /\ LostCauses \subseteq TcpCauses
         /\ "none" \notin LostCauses /\ "stopped" \notin LostCauses
  BY KindsAreTransports DEF TransportTypeOK, LostCauses, TcpCauses, UdpCauses, SmsCauses

\* What a start puts together: when it goes on, the strings are its own.
LEMMA NewTypes ==
  ASSUME TransportTypeOK, NEW n \in NewInfos
  PROVE  n.ok => n.info \in Infos /\ {n.info.pw, n.info.phone} \subseteq {"null", "own"}
<1>1. kind \in {"tcp", "udp", "sms"}
  BY LostTypes
<1>2. ASSUME NEW wan \in BOOLEAN, NEW pw \in BOOLEAN, n \in TcpInfos(wan, pw)
      PROVE  n.ok => n.info \in Infos /\ {n.info.pw, n.info.phone} \subseteq {"null", "own"}
  BY <1>2 DEF TcpInfos, Infos, Strings
<1>3. n \in SmsInfos => n.info \in Infos /\ {n.info.pw, n.info.phone} \subseteq {"null", "own"}
  BY DEF SmsInfos, Infos, Strings
<1>4. n \in UdpInfos => n.info \in Infos /\ {n.info.pw, n.info.phone} \subseteq {"null", "own"}
  BY DEF UdpInfos, Infos, Strings
<1> QED
  BY <1>1, <1>2, <1>3, <1>4 DEF NewInfos

\* udp and sms free no string that is not their own.
LEMMA OwnFreed ==
  ASSUME TransportTypeOK, kind # "tcp", NEW i, {i.pw, i.phone} \subseteq {"null", "own"}, NEW f \in Frees(i)
  PROVE  f \subseteq {"own"}
  BY LostTypes DEF Frees, FreesSms, Pointer

\* Freeing the info that is there.
LEMMA FreeInfoStep ==
  ASSUME TransportInv, misused = "no", app.pc # "prepare", NEW p \in {NoInfo, FreedInfo}, FreeInfo(info, p)
  PROVE  /\ info' = p /\ live' = 0 /\ misused' \in {"no", "free"}
         /\ kind # "tcp" => misused' # "free"
<1>1. info' = p /\ live' = 0
  BY InfoTypes DEF FreeInfo, TransportInv, InfoOK
<1>2. misused' \in {"no", "free"}
  BY DEF FreeInfo
<1>3. kind # "tcp" => misused' # "free"
  BY OwnFreed DEF FreeInfo, TransportInv, StringsOK
<1> QED
  BY <1>1, <1>2, <1>3

\* The strings of a udp or sms info that a start could not fill are its own too.
LEMMA FailedTypes ==
  ASSUME TransportTypeOK, kind # "tcp", NEW n \in NewInfos, NEW f \in Frees(n.info)
  PROVE  f \subseteq {"own"}
<1>1. n \in SmsInfos \/ n \in UdpInfos
  BY LostTypes DEF NewInfos
<1>2. {n.info.pw, n.info.phone} \subseteq {"null", "own"}
  BY <1>1 DEF SmsInfos, UdpInfos
<1> QED
  BY <1>2, OwnFreed

\* No transport is up to begin with.
LEMMA TransportInitInv == TransportInit => TransportInv
<1> SUFFICES ASSUME TransportInit PROVE TransportInv
  OBVIOUS
<1>1. app \in TransportCalls /\ ccfsm \in [ph : {"off", "starting", "open", "up", "closing"}, stop : BOOLEAN]
  BY DEF TransportInit, NewCall, TransportCalls
<1>2. /\ kind \in Kinds /\ info = NoInfo /\ live = 0 /\ up = FALSE /\ closing = "none"
      /\ under = {} /\ misused = "no"
  BY DEF TransportInit
<1>3. TransportTypeOK
  <2>1. kind \in Kinds /\ info \in Infos \cup {NoInfo, FreedInfo}
    BY <1>2
  <2>2. live \in 0..2
    BY <1>2
  <2>3. up \in BOOLEAN /\ closing \in TcpCauses \cup {"none", "stopped"}
    BY <1>2
  <2>4. under \subseteq {"start", "lost"} /\ misused \in {"no", "info", "free"}
    BY <1>2
  <2> QED
    BY <1>1, <2>1, <2>2, <2>3, <2>4 DEF TransportTypeOK
<1> QED
  BY <1>3, InfoTypes DEF TransportInit, NewCall, TransportInv, FlagOK, ClosingOK, InfoOK, UsedOK, InUse,
    StringsOK, WaitOK, StartIsHonest, CallbackSafe, FreesOwn, NoInfo

\* The parts of the invariant that a call of the application leaves to show.
LEMMA TransportCallStep ==
  ASSUME TransportInv, TransportTypeOK', InfoOK', UsedOK', StringsOK', WaitOK', StartIsHonest',
         misused = "no",
         UNCHANGED <<kind, closing>>, ccfsm'.ph = "closing" <=> ccfsm.ph = "closing",
         up' => up /\ ccfsm'.ph = ccfsm.ph,
         misused' # "info", kind # "tcp" => misused' # "free"
  PROVE  TransportInv'
  BY DEF TransportInv, FlagOK, ClosingOK, LostCauses, CallbackSafe, FreesOwn

\* What the connector thread leaves as it is of a call.
CallKept ==
  /\ app' \in TransportCalls /\ app'.pc = app.pc /\ app'.res = app.res
  /\ app'.timed = app.timed /\ app'.failed = app.failed
  /\ app.made => app'.made
  /\ app.lost => app'.lost

\* A start that frees the info that is there, or has none.
LEMMA StartFreesStep ==
  ASSUME TransportInv, StartFrees, UNCHANGED closing, InUse' => InUse \/ info \in Infos, info' \notin Infos
  PROVE  UsedOK' /\ under' \subseteq {"start", "lost"}
  BY DEF TransportInv, TransportTypeOK, UsedOK, StartFrees

\* A call ends with anything but a connection.
LEMMA AnswerStep ==
  ASSUME TransportInv, UNCHANGED kind,
         NEW res \in {"TIMEOUT", "INIT", "MEMORY", "INVALID", "ALREADY", "STOPPED", "CCFSM", "ASSERT",
                      "NOT_STARTED"},
         Answer(res), closing' = "stopped" => ccfsm'.stop
  PROVE  app' \in TransportCalls /\ app'.pc = "idle" /\ app'.res = res /\ WaitOK' /\ StartIsHonest'
<1>1. app \in TransportCalls /\ app' = [app EXCEPT !.pc = "idle", !.res = res]
  BY DEF Answer, TransportInv, TransportTypeOK
<1>2. /\ app' \in TransportCalls /\ app'.pc = "idle" /\ app'.res = res
      /\ app'.failed = app.failed /\ app'.timed = app.timed
  BY <1>1 DEF TransportCalls
<1> QED
  BY <1>2 DEF TransportInv, WaitOK, StartIsHonest

\* A start is refused, is invalid, or begins.
LEMMA TransportStartStep ==
  ASSUME TransportInv, StartRefused \/ StartInvalid \/ (\E timed \in BOOLEAN : StartBegin(timed))
  PROVE  TransportInv'
<1>1. CASE StartRefused
  <2>1. /\ misused = "no" /\ app.pc = "idle" /\ Answer("ALREADY")
        /\ UNCHANGED <<kind, info, live, up, ccfsm, closing, under, misused>>
    BY <1>1 DEF StartRefused, Calling, CcfsmKept
  <2>2. app' \in TransportCalls /\ app'.pc = "idle" /\ WaitOK' /\ StartIsHonest'
    BY <2>1, AnswerStep DEF TransportInv, WaitOK
  <2>3. TransportTypeOK'
    BY <2>1, <2>2 DEF TransportInv, TransportTypeOK
  <2> QED
    BY <2>1, <2>2, <2>3, TransportCallStep DEF TransportInv, InfoOK, UsedOK, InUse, StringsOK, FreesOwn
<1>2. CASE StartInvalid
  <2>1. /\ misused = "no" /\ app.pc = "idle" /\ Answer("INVALID")
        /\ UNCHANGED <<kind, up, ccfsm, closing>> /\ StartFrees
    BY <1>2 DEF StartInvalid, Calling, CcfsmKept
  <2>2. /\ info' = NoInfo /\ live' = 0 /\ misused' \in {"no", "free"}
        /\ kind # "tcp" => misused' # "free"
    BY <1>2, <2>1, FreeInfoStep DEF StartInvalid
  <2>3. UsedOK' /\ under' \subseteq {"start", "lost"}
    BY <2>1, <2>2, InfoTypes, StartFreesStep DEF InUse
  <2>4. app' \in TransportCalls /\ app'.pc = "idle" /\ WaitOK' /\ StartIsHonest'
    BY <2>1, AnswerStep DEF TransportInv, WaitOK
  <2>5. TransportTypeOK'
    BY <2>1, <2>2, <2>3, <2>4 DEF TransportInv, TransportTypeOK
  <2>6. InfoOK' /\ StringsOK'
    BY <2>2, <2>4, InfoTypes DEF InfoOK, StringsOK
  <2> QED
    BY <2>1, <2>2, <2>3, <2>4, <2>5, <2>6, TransportCallStep
<1>3. CASE \E timed \in BOOLEAN : StartBegin(timed)
  <2>1. PICK timed \in BOOLEAN : StartBegin(timed)
    BY <1>3
  <2>2. /\ misused = "no" /\ app.pc = "idle"
        /\ app' = NewCall("prepare", timed)
        /\ UNCHANGED <<kind, up, ccfsm, closing>> /\ StartFrees
    BY <2>1 DEF StartBegin, Calling, CcfsmKept
  <2>3. /\ info' \in {NoInfo, FreedInfo} /\ live' = 0 /\ misused' \in {"no", "free"}
        /\ kind # "tcp" => misused' # "free"
    BY <2>1, <2>2, FreeInfoStep DEF StartBegin, FreedFirst
  <2>4. UsedOK' /\ under' \subseteq {"start", "lost"}
    BY <2>2, <2>3, InfoTypes, StartFreesStep DEF InUse
  <2>5. TransportTypeOK'
    BY <2>2, <2>3, <2>4 DEF NewCall, TransportInv, TransportTypeOK, TransportCalls
  <2>6. InfoOK' /\ StringsOK' /\ WaitOK' /\ StartIsHonest'
    BY <2>2, <2>3, InfoTypes DEF NewCall, TransportInv, InfoOK, StringsOK, WaitOK, StartIsHonest
  <2> QED
    BY <2>2, <2>3, <2>4, <2>5, <2>6, TransportCallStep
<1> QED
  BY <1>1, <1>2, <1>3

\* A start fills its info, or has no memory for it, or finds it invalid.
LEMMA StartPrepareStep ==
  ASSUME TransportInv, StartPrepare
  PROVE  TransportInv'
<1>1. misused = "no" /\ app.pc = "prepare" /\ info \in {NoInfo, FreedInfo} /\ live = 0
      /\ UNCHANGED <<kind, ccfsm, closing>> /\ app \in TransportCalls
  BY DEF StartPrepare, Calling, TransportInv, InfoOK, TransportTypeOK
<1>2. CASE info' = NoInfo /\ Answer("MEMORY") /\ StartFrees /\ UNCHANGED <<live, up, misused>>
  <2>1. app' \in TransportCalls /\ app'.pc = "idle" /\ WaitOK' /\ StartIsHonest'
    BY <1>1, <1>2, AnswerStep DEF TransportInv, WaitOK
  <2>2. UsedOK' /\ under' \subseteq {"start", "lost"}
    BY <1>1, <1>2, InfoTypes, StartFreesStep DEF InUse
  <2>3. TransportTypeOK'
    BY <1>1, <1>2, <2>1, <2>2 DEF TransportInv, TransportTypeOK
  <2>4. InfoOK' /\ StringsOK'
    BY <1>1, <1>2, <2>1, InfoTypes DEF InfoOK, StringsOK
  <2> QED
    BY <1>1, <1>2, <2>1, <2>2, <2>3, <2>4, TransportCallStep
<1>3. ASSUME NEW n \in NewInfos, ~n.ok,
             \E f \in Frees(n.info) : misused' = IF f \subseteq {"own"} THEN misused ELSE "free",
             info' = NoInfo, Answer("INVALID"), StartFrees, UNCHANGED <<live, up>>
      PROVE  TransportInv'
  <2>1. app' \in TransportCalls /\ app'.pc = "idle" /\ WaitOK' /\ StartIsHonest'
    BY <1>1, <1>3, AnswerStep DEF TransportInv, WaitOK
  <2>2. UsedOK' /\ under' \subseteq {"start", "lost"}
    BY <1>1, <1>3, InfoTypes, StartFreesStep DEF InUse
  <2>3. misused' \in {"no", "free"} /\ (kind # "tcp" => misused' # "free")
    BY <1>1, <1>3, FailedTypes DEF TransportInv
  <2>4. TransportTypeOK'
    BY <1>1, <1>3, <2>1, <2>2, <2>3 DEF TransportInv, TransportTypeOK
  <2>5. InfoOK' /\ StringsOK'
    BY <1>1, <1>3, <2>1, InfoTypes DEF InfoOK, StringsOK
  <2> QED
    BY <1>1, <1>3, <2>1, <2>2, <2>3, <2>4, <2>5, TransportCallStep
<1>4. ASSUME NEW n \in NewInfos, n.ok, info' = n.info, live' = live + 1, up' = FALSE,
             app' = [app EXCEPT !.pc = "initiate"], UNCHANGED <<under, misused>>
      PROVE  TransportInv'
  <2>1. info' \in Infos /\ {info'.pw, info'.phone} \subseteq {"null", "own"}
    BY <1>4, NewTypes DEF TransportInv
  <2>2. /\ app' \in TransportCalls /\ app'.pc = "initiate" /\ app'.res = app.res
        /\ app'.made = app.made /\ app'.failed = app.failed /\ app'.timed = app.timed
    BY <1>1, <1>4 DEF TransportCalls
  <2>3. live' = 1
    BY <1>1, <1>4
  <2>4. TransportTypeOK'
    <3>1. kind' \in Kinds /\ info' \in Infos \cup {NoInfo, FreedInfo} /\ live' \in 0..2
      BY <1>1, <2>1, <2>3 DEF TransportInv, TransportTypeOK
    <3>2. up' \in BOOLEAN /\ closing' \in TcpCauses \cup {"none", "stopped"}
      BY <1>1, <1>4 DEF TransportInv, TransportTypeOK
    <3>3. ccfsm' \in [ph : {"off", "starting", "open", "up", "closing"}, stop : BOOLEAN]
      BY <1>1 DEF TransportInv, TransportTypeOK
    <3>4. under' \subseteq {"start", "lost"} /\ misused' \in {"no", "info", "free"}
      BY <1>1, <1>4 DEF TransportInv, TransportTypeOK
    <3> QED
      BY <2>2, <3>1, <3>2, <3>3, <3>4 DEF TransportTypeOK
  <2>5. InfoOK' /\ StringsOK' /\ StartIsHonest' /\ UsedOK'
    BY <1>1, <2>1, <2>2, <2>3, InfoTypes DEF TransportInv, InfoOK, StringsOK, StartIsHonest, UsedOK
  <2>6. WaitOK'
    BY <1>1, <1>4, <2>2, InfoTypes DEF TransportInv, WaitOK, UsedOK, InUse
  <2> QED
    BY <1>1, <1>4, <2>4, <2>5, <2>6, TransportCallStep DEF TransportInv, FreesOwn
<1> QED
  BY <1>2, <1>3, <1>4 DEF StartPrepare, Lowered

\* CCFSM is asked to connect, or cannot be.
LEMMA StartInitiateStep ==
  ASSUME TransportInv, StartInitiate
  PROVE  TransportInv'
<1>1. misused = "no" /\ app.pc = "initiate" /\ info \in Infos /\ app \in TransportCalls
      /\ UNCHANGED <<kind, up, closing>>
  BY DEF StartInitiate, Calling, TransportInv, InfoOK, TransportTypeOK
<1>2. PICK accepted \in BOOLEAN, told \in BOOLEAN :
        /\ told => accepted
        /\ accepted => ~ccfsm.stop
        /\ ccfsm' = [ccfsm EXCEPT !.ph = IF accepted /\ @ = "off" THEN "starting" ELSE @]
        /\ IF told THEN app' = [app EXCEPT !.pc = "wait"] /\ UNCHANGED <<info, live, under, misused>>
           ELSE FreeInfo(info, NoInfo) /\ StartFrees /\ Answer("INIT")
  BY DEF StartInitiate
<1>3. /\ ccfsm' \in [ph : {"off", "starting", "open", "up", "closing"}, stop : BOOLEAN]
      /\ ccfsm'.ph = IF accepted /\ ccfsm.ph = "off" THEN "starting" ELSE ccfsm.ph
      /\ ccfsm'.stop = ccfsm.stop
  BY <1>2 DEF TransportInv, TransportTypeOK
<1>4. CASE told
  <2>1. app' = [app EXCEPT !.pc = "wait"] /\ UNCHANGED <<info, live, under, misused>> /\ ~ccfsm.stop
    BY <1>2, <1>4
  <2>2. /\ app' \in TransportCalls /\ app'.pc = "wait" /\ app'.res = app.res
        /\ app'.made = app.made /\ app'.failed = app.failed /\ app'.timed = app.timed
    BY <1>1, <2>1 DEF TransportCalls
  <2>3. TransportTypeOK'
    BY <1>1, <1>3, <2>1, <2>2 DEF TransportInv, TransportTypeOK
  <2>4. InfoOK' /\ StringsOK' /\ UsedOK'
    BY <1>1, <2>1, <2>2, InfoTypes DEF TransportInv, InfoOK, StringsOK, UsedOK
  <2>5. ccfsm'.ph # "off" /\ closing # "stopped"
    BY <1>2, <1>3, <1>4, <2>1 DEF TransportInv, WaitOK
  <2>6. StartIsHonest' /\ WaitOK'
    BY <1>1, <1>2, <1>3, <1>4, <2>1, <2>2, <2>5 DEF TransportInv, StartIsHonest, WaitOK, InUse
  <2> QED
    BY <1>1, <1>3, <2>1, <2>3, <2>4, <2>6, TransportCallStep DEF TransportInv, FreesOwn, FlagOK
<1>5. CASE ~told
  <2>1. FreeInfo(info, NoInfo) /\ StartFrees /\ Answer("INIT")
    BY <1>2, <1>5
  <2>2. app' \in TransportCalls /\ app'.pc = "idle" /\ WaitOK' /\ StartIsHonest'
    BY <1>1, <1>3, <2>1, AnswerStep DEF TransportInv, WaitOK
  <2>3. /\ info' = NoInfo /\ live' = 0 /\ misused' \in {"no", "free"}
        /\ kind # "tcp" => misused' # "free"
    BY <1>1, <2>1, FreeInfoStep
  <2>4. UsedOK' /\ under' \subseteq {"start", "lost"}
    BY <1>1, <2>1, <2>3, InfoTypes, StartFreesStep DEF InUse
  <2>5. TransportTypeOK'
    BY <1>1, <1>3, <2>2, <2>3, <2>4 DEF TransportInv, TransportTypeOK
  <2>6. InfoOK' /\ StringsOK'
    BY <2>2, <2>3, InfoTypes DEF InfoOK, StringsOK
  <2> QED
    BY <1>1, <1>3, <2>2, <2>3, <2>4, <2>5, <2>6, TransportCallStep DEF TransportInv, FlagOK
<1> QED
  BY <1>4, <1>5

\* A start that waits is told, or its time is up, or its wait fails.
LEMMA WaitStep ==
  ASSUME TransportInv, StartDone \/ StartTimeout \/ TcpWaitFails
  PROVE  TransportInv'
<1>1. /\ misused = "no" /\ app.pc = "wait" /\ app \in TransportCalls
      /\ UNCHANGED <<kind, up, ccfsm, closing>>
  BY DEF StartDone, StartTimeout, TcpWaitFails, Calling, CcfsmKept, TransportInv, TransportTypeOK
<1>2. CASE /\ app'.res = "OK" /\ app'.pc = "idle" /\ app' \in TransportCalls
           /\ app'.made \/ app'.failed
           /\ app'.failed => kind = "tcp" /\ ~app'.timed
           /\ UNCHANGED <<info, live, under, misused>>
  <2>1. TransportTypeOK'
    BY <1>1, <1>2 DEF TransportInv, TransportTypeOK
  <2>2. InfoOK' /\ StringsOK' /\ WaitOK' /\ StartIsHonest' /\ UsedOK'
    BY <1>1, <1>2 DEF TransportInv, InfoOK, StringsOK, WaitOK, StartIsHonest, UsedOK, InUse
  <2> QED
    BY <1>1, <1>2, <2>1, <2>2, TransportCallStep DEF TransportInv, FreesOwn
<1>3. CASE StartDone
  <2>1. app' = [app EXCEPT !.pc = "idle", !.res = "OK"] /\ up /\ UNCHANGED <<info, live, under, misused>>
    BY <1>3 DEF StartDone, Answer
  <2>2. /\ app' \in TransportCalls /\ app'.pc = "idle" /\ app'.res = "OK"
        /\ app'.made = app.made /\ app'.failed = app.failed /\ app'.timed = app.timed
    BY <1>1, <2>1 DEF TransportCalls
  <2>3. app.made /\ (app.failed => kind = "tcp" /\ ~app.timed)
    BY <1>1, <2>1 DEF TransportInv, WaitOK, StartIsHonest
  <2> QED
    BY <1>2, <2>1, <2>2, <2>3
<1>4. CASE kind = "tcp" /\ ~app.timed /\ app' = [app EXCEPT !.pc = "idle", !.res = "OK", !.failed = TRUE]
           /\ UNCHANGED <<info, live, under, misused>>
  <2>1. app' \in TransportCalls /\ app'.pc = "idle" /\ app'.res = "OK" /\ app'.failed /\ ~app'.timed
    BY <1>1, <1>4 DEF TransportCalls
  <2> QED
    BY <1>2, <1>4, <2>1
<1>5. ASSUME NEW res \in {"TIMEOUT", "INIT"}, Answer(res), FreeInfo(info, NoInfo), StartFrees
      PROVE  TransportInv'
  <2>1. app' \in TransportCalls /\ app'.pc = "idle" /\ WaitOK' /\ StartIsHonest'
    BY <1>1, <1>5, AnswerStep DEF TransportInv, WaitOK
  <2>2. /\ info' = NoInfo /\ live' = 0 /\ misused' \in {"no", "free"}
        /\ kind # "tcp" => misused' # "free"
    BY <1>1, <1>5, FreeInfoStep
  <2>3. UsedOK' /\ under' \subseteq {"start", "lost"}
    BY <1>1, <1>5, <2>2, InfoTypes, StartFreesStep DEF InUse
  <2>4. TransportTypeOK'
    BY <1>1, <2>1, <2>2, <2>3 DEF TransportInv, TransportTypeOK
  <2>5. InfoOK' /\ StringsOK'
    BY <2>1, <2>2, InfoTypes DEF InfoOK, StringsOK
  <2> QED
    BY <1>1, <2>1, <2>2, <2>3, <2>4, <2>5, TransportCallStep
<1>6. CASE StartTimeout
  BY <1>5, <1>6 DEF StartTimeout
<1>7. CASE TcpWaitFails
  BY <1>4, <1>5, <1>7 DEF TcpWaitFails
<1> QED
  BY <1>3, <1>6, <1>7

\* A stop, from its first check to the freed info.
LEMMA TransportStopStep ==
  ASSUME TransportInv, TransportStop \/ StopInitiate \/ TransportStopped
  PROVE  TransportInv'
<1>1. /\ misused = "no" /\ app.pc \in {"idle", "stop", "drain"} /\ app \in TransportCalls
      /\ UNCHANGED <<kind, up, closing>>
  BY DEF TransportStop, StopInitiate, TransportStopped, Calling, CcfsmKept, TransportInv, TransportTypeOK
<1>2. CASE TransportStop \/ StopInitiate
  <2>1. app' \in TransportCalls /\ app'.pc \in {"idle", "stop", "drain"} /\ app'.failed = app.failed
        /\ (app'.res = "OK" => app.res = "OK" /\ app'.made = app.made) /\ app'.timed = app.timed
    BY <1>1, <1>2 DEF TransportStop, StopInitiate, Answer, TransportCalls
  <2>2. UNCHANGED <<info, live, under, misused>>
    BY <1>2 DEF TransportStop, StopInitiate
  <2>3. /\ ccfsm' \in [ph : {"off", "starting", "open", "up", "closing"}, stop : BOOLEAN]
        /\ ccfsm'.ph = ccfsm.ph /\ (ccfsm.stop => ccfsm'.stop)
    BY <1>2 DEF TransportStop, StopInitiate, CcfsmKept, TransportInv, TransportTypeOK
  <2>4. TransportTypeOK'
    BY <1>1, <2>1, <2>2, <2>3 DEF TransportInv, TransportTypeOK
  <2>5. InfoOK' /\ StringsOK' /\ UsedOK'
    BY <1>1, <2>1, <2>2, <2>3 DEF TransportInv, InfoOK, StringsOK, UsedOK, InUse
  <2>6. WaitOK' /\ StartIsHonest'
    BY <1>1, <2>1, <2>3 DEF TransportInv, WaitOK, StartIsHonest
  <2> QED
    BY <1>1, <2>2, <2>3, <2>4, <2>5, <2>6, TransportCallStep DEF TransportInv, FreesOwn
<1>3. CASE TransportStopped /\ info = NoInfo
  <2>1. Answer("ASSERT") /\ UNCHANGED <<info, live, under, misused, ccfsm>>
    BY <1>3 DEF TransportStopped, CcfsmKept
  <2>2. app' \in TransportCalls /\ app'.pc = "idle" /\ WaitOK' /\ StartIsHonest'
    BY <1>1, <2>1, AnswerStep DEF TransportInv, WaitOK
  <2>3. TransportTypeOK'
    BY <1>1, <2>1, <2>2 DEF TransportInv, TransportTypeOK
  <2>4. InfoOK' /\ StringsOK' /\ UsedOK'
    BY <1>1, <2>1, <2>2 DEF TransportInv, InfoOK, StringsOK, UsedOK, InUse
  <2> QED
    BY <1>1, <2>1, <2>2, <2>3, <2>4, TransportCallStep DEF TransportInv, FreesOwn
<1>4. CASE TransportStopped /\ info # NoInfo
  <2>1. Answer("STOPPED") /\ UNCHANGED ccfsm
    BY <1>4 DEF TransportStopped, CcfsmKept
  <2>2. app' \in TransportCalls /\ app'.pc = "idle" /\ WaitOK' /\ StartIsHonest'
    BY <1>1, <2>1, AnswerStep DEF TransportInv, WaitOK
  <2>3. ~up /\ under' = IF InUse /\ ~up /\ closing # "stopped" THEN under \cup {"lost"} ELSE under
    BY <1>4 DEF TransportStopped, MayFree
  <2>4. /\ info' = NoInfo /\ live' = 0 /\ misused' \in {"no", "free"}
        /\ kind # "tcp" => misused' # "free"
    BY <1>1, <1>4, FreeInfoStep DEF TransportStopped
  <2>5. TransportTypeOK'
    BY <1>1, <2>1, <2>2, <2>3, <2>4 DEF TransportInv, TransportTypeOK
  <2>6. InfoOK' /\ StringsOK' /\ UsedOK'
    BY <1>1, <2>1, <2>2, <2>3, <2>4, InfoTypes DEF TransportInv, InfoOK, StringsOK, UsedOK, InUse
  <2> QED
    BY <1>1, <2>1, <2>2, <2>4, <2>5, <2>6, TransportCallStep
<1> QED
  BY <1>2, <1>3, <1>4

\* A callback changes no info, and of a call only what is remembered of it.
LEMMA CallbackStep ==
  ASSUME TransportInv, misused = "no", InfoKept, CallKept, WaitOK', StartIsHonest',
         ccfsm' \in [ph : {"off", "starting", "open", "up", "closing"}, stop : BOOLEAN],
         up' \in BOOLEAN, closing' \in LostCauses \cup {"none", "stopped"},
         misused' \in {"no", "info"}, misused' = "info" => under' # {},
         under' \in {{}, under}, FlagOK',
         closing' # "none" <=> ccfsm'.ph = "closing", UsedOK'
  PROVE  TransportInv'
<1>1. TransportTypeOK'
  BY LostTypes DEF TransportInv, TransportTypeOK, InfoKept, CallKept
<1> QED
  BY <1>1 DEF TransportInv, ClosingOK, LostCauses, InfoOK, StringsOK, CallbackSafe, FreesOwn, InfoKept, CallKept

\* The flag goes up, and a start learns of it.
LEMMA RaiseStep ==
  ASSUME TransportInv, Raise
  PROVE  /\ up' = TRUE /\ CallKept
         /\ app'.pc \in {"initiate", "wait"} => app'.made
<1>1. app \in TransportCalls
  BY DEF TransportInv, TransportTypeOK
<1> QED
  BY <1>1 DEF Raise, CallKept, TransportCalls

\* The network is opened, and CCFSM says that it is connected.
LEMMA ConnectedStep ==
  ASSUME TransportInv, TcpOpen \/ UdpOpen \/ SmsOpen \/ CommunicationStarted \/ Keepalive
  PROVE  TransportInv'
<1>1. /\ misused = "no" /\ InfoKept /\ closing' = closing /\ under' = under
      /\ ccfsm \in [ph : {"off", "starting", "open", "up", "closing"}, stop : BOOLEAN]
      /\ up \in BOOLEAN
  BY DEF TcpOpen, UdpOpen, SmsOpen, Open, CommunicationStarted, Keepalive, AppKept, TransportInv, TransportTypeOK
<1>2. /\ ccfsm.ph \in {"starting", "open", "up"}
      /\ ccfsm' \in [ph : {"off", "starting", "open", "up", "closing"}, stop : BOOLEAN]
      /\ ccfsm'.ph \in {"open", "up"} /\ (up => ccfsm'.ph = "up") /\ ccfsm'.stop = ccfsm.stop
  BY <1>1 DEF TcpOpen, UdpOpen, SmsOpen, Open, CommunicationStarted, Keepalive, TransportInv, FlagOK
<1>3. \/ Raise /\ ccfsm'.ph = "up"
      \/ UNCHANGED <<up, app>> /\ (ccfsm'.ph = "open" \/ UNCHANGED ccfsm)
  BY <1>1 DEF TcpOpen, UdpOpen, SmsOpen, Open, CommunicationStarted, Keepalive, AppKept
<1>4. CallKept /\ up' \in BOOLEAN /\ FlagOK'
  <2>1. CASE Raise /\ ccfsm'.ph = "up"
    BY <2>1, RaiseStep DEF FlagOK
  <2>2. CASE UNCHANGED <<up, app>>
    BY <1>1, <1>2, <2>2 DEF CallKept, TransportInv, TransportTypeOK, FlagOK
  <2> QED
    BY <1>3, <2>1, <2>2
<1>5. misused' \in {"no", "info"} /\ (misused' = "info" => info \notin Infos)
  BY <1>1 DEF TcpOpen, UdpOpen, SmsOpen, Open, CommunicationStarted, Keepalive, ReadInfo
<1>6. closing = "none" /\ (under = {} => info \in Infos)
  BY <1>2 DEF TransportInv, ClosingOK, UsedOK, InUse
<1>7. UsedOK'
  BY <1>1, <1>6 DEF UsedOK, InfoKept
<1>8. WaitOK' /\ StartIsHonest'
  <2>1. CASE Raise /\ ccfsm'.ph = "up"
    BY <1>1, <1>2, <1>4, <1>6, <2>1, RaiseStep
      DEF TransportInv, WaitOK, StartIsHonest, CallKept, InfoKept, InUse
  <2>2. CASE UNCHANGED <<up, app>> /\ (ccfsm'.ph = "open" \/ UNCHANGED ccfsm)
    BY <1>1, <1>2, <1>6, <2>2 DEF TransportInv, WaitOK, StartIsHonest, InfoKept, InUse
  <2> QED
    BY <1>3, <2>1, <2>2
<1> QED
  BY <1>1, <1>2, <1>4, <1>5, <1>6, <1>7, <1>8, CallbackStep

\* The connection is lost or closed.
LEMMA CloseStep ==
  ASSUME TransportInv, NetworkClose
  PROVE  TransportInv'
<1>1. \E lost \in {LostCauses} : Close(lost)
  BY DEF NetworkClose, TcpClose, UdpClose, SmsClose, LostCauses
<1>2. /\ misused = "no" /\ misused' = misused /\ AppKept /\ under' = under /\ up' = FALSE
      /\ ccfsm.ph \in {"open", "up"} /\ ccfsm' = [ccfsm EXCEPT !.ph = "closing"]
      /\ closing' \in LostCauses \cup {"stopped"}
  BY <1>1 DEF Close
<1>3. ccfsm' \in [ph : {"off", "starting", "open", "up", "closing"}, stop : BOOLEAN]
      /\ ccfsm'.ph = "closing"
  BY <1>2 DEF TransportInv, TransportTypeOK
<1>4. closing' # "none"
  BY <1>2, LostTypes DEF TransportInv
<1>5. UsedOK'
  BY <1>2 DEF TransportInv, ClosingOK, UsedOK, InUse, AppKept, InfoKept
<1>6. InfoKept /\ CallKept
  BY <1>2 DEF AppKept, CallKept, TransportInv, TransportTypeOK
<1>7. closing' = "stopped" => ccfsm.stop
  BY <1>1, LostTypes DEF Close, TransportInv
<1>8. ccfsm'.stop = ccfsm.stop
  BY <1>2 DEF TransportInv, TransportTypeOK
<1>9. WaitOK' /\ StartIsHonest'
  BY <1>2, <1>3, <1>7, <1>8 DEF TransportInv, ClosingOK, WaitOK, StartIsHonest, AppKept, InfoKept, InUse
<1> QED
  BY <1>2, <1>3, <1>4, <1>5, <1>6, <1>9, CallbackStep DEF FlagOK

\* The application says whether to connect again.
LEMMA ClosedStep ==
  ASSUME TransportInv, NetworkClosed
  PROVE  TransportInv'
<1>1. /\ misused = "no" /\ InfoKept /\ up' = up /\ closing' = "none" /\ ccfsm.ph = "closing"
      /\ IF Asks(closing) THEN ReadInfo ELSE UNCHANGED misused
  BY DEF NetworkClosed
<1>2. misused' \in {"no", "info"} /\ (misused' = "info" => Asks(closing) /\ info \notin Infos)
  BY <1>1 DEF ReadInfo
<1>3. Asks(closing) => (under = {} => info \in Infos)
  BY <1>1, LostTypes DEF Asks, TransportInv, UsedOK, InUse
<1>4. ~up
  BY <1>1 DEF TransportInv, FlagOK
<1>5. \/ /\ closing \in LostCauses /\ misused' = "no" /\ ccfsm' = [ccfsm EXCEPT !.ph = "starting"]
         /\ UNCHANGED <<under, app>>
      \/ /\ ccfsm' = [ccfsm EXCEPT !.ph = "off"]
         /\ IF misused' = "no" THEN under' = {} ELSE under' = under
         /\ app' = [app EXCEPT !.lost = @ \/ app.pc = "wait"]
  BY DEF NetworkClosed, Off
<1>6. /\ ccfsm' \in [ph : {"off", "starting", "open", "up", "closing"}, stop : BOOLEAN]
      /\ ccfsm'.ph \in {"starting", "off"} /\ ccfsm'.stop = ccfsm.stop
      /\ ccfsm'.ph = "starting" => closing \in LostCauses /\ under' = under
      /\ under' \in {{}, under} /\ (misused' = "info" => under' = under)
  BY <1>5 DEF TransportInv, TransportTypeOK
<1>7. UsedOK'
  BY <1>1, <1>3, <1>6 DEF UsedOK, InUse, InfoKept, Asks
<1>8. up' \in BOOLEAN /\ FlagOK'
  BY <1>1, <1>4 DEF FlagOK, TransportInv, TransportTypeOK
<1>9. CallKept /\ (app'.pc = "wait" /\ ccfsm'.ph = "off" => app'.lost)
  <2>1. app \in TransportCalls
    BY DEF TransportInv, TransportTypeOK
  <2>2. CASE app' = app /\ ccfsm' = [ccfsm EXCEPT !.ph = "starting"]
    BY <2>1, <2>2 DEF CallKept, TransportInv, TransportTypeOK
  <2>3. CASE app' = [app EXCEPT !.lost = @ \/ app.pc = "wait"]
    BY <2>1, <2>3 DEF CallKept, TransportCalls
  <2> QED
    BY <1>5, <2>2, <2>3
<1>10. WaitOK' /\ StartIsHonest'
  <2>1. InUse /\ closing \in LostCauses => closing # "stopped"
    BY LostTypes DEF TransportInv
  <2>2. InUse
    BY <1>1 DEF InUse
  <2>3. WaitOK'
    BY <1>1, <1>4, <1>6, <1>9, <2>1, <2>2 DEF TransportInv, WaitOK, CallKept, InUse
  <2>4. StartIsHonest'
    BY <1>1, <1>4, <1>6, <1>9 DEF TransportInv, StartIsHonest, CallKept, InfoKept
  <2> QED
    BY <2>3, <2>4
<1> QED
  BY <1>1, <1>2, <1>3, <1>6, <1>7, <1>8, <1>9, <1>10, CallbackStep

\* CCFSM has ended what it was asked to end.
LEMMA OffStep ==
  ASSUME TransportInv, ConnectStopped \/ StopCompleted
  PROVE  TransportInv'
<1>1. ccfsm \in [ph : {"off", "starting", "open", "up", "closing"}, stop : BOOLEAN] /\ up \in BOOLEAN
      /\ app \in TransportCalls
  BY DEF TransportInv, TransportTypeOK
<1>2. CASE ConnectStopped
  <2>1. /\ misused = "no" /\ misused' = "no" /\ InfoKept /\ closing' = closing
        /\ UNCHANGED <<up, app>> /\ under' = {} /\ ccfsm' = [ccfsm EXCEPT !.ph = "off"]
    BY <1>2 DEF ConnectStopped, Off, AppKept
  <2>2. ccfsm.ph = "starting" /\ ccfsm.stop
    <3>1. ccfsm = [ph |-> "starting", stop |-> TRUE]
      BY <1>2 DEF ConnectStopped
    <3> QED
      BY <3>1
  <2>3. /\ ccfsm' \in [ph : {"off", "starting", "open", "up", "closing"}, stop : BOOLEAN]
        /\ ccfsm'.ph = "off" /\ ccfsm'.stop = ccfsm.stop
    BY <1>1, <2>1
  <2>4. ~up /\ closing = "none"
    BY <2>2 DEF TransportInv, FlagOK, ClosingOK
  <2>5. FlagOK' /\ UsedOK'
    BY <2>1, <2>3, <2>4 DEF FlagOK, UsedOK, InUse
  <2>6. CallKept
    BY <1>1, <2>1 DEF CallKept
  <2>7. WaitOK' /\ StartIsHonest'
    BY <2>1, <2>2, <2>3, <2>4 DEF TransportInv, WaitOK, StartIsHonest, InfoKept, InUse
  <2> QED
    BY <1>1, <2>1, <2>3, <2>4, <2>5, <2>6, <2>7, CallbackStep
<1>3. CASE StopCompleted
  <2>1. /\ misused = "no" /\ misused' = "no" /\ InfoKept /\ closing' = closing /\ up' = FALSE
        /\ app' = app /\ under' = under /\ ccfsm' = [ccfsm EXCEPT !.stop = FALSE]
    BY <1>3 DEF StopCompleted, AppKept
  <2>2. ccfsm.ph = "off" /\ ccfsm.stop
    <3>1. ccfsm = [ph |-> "off", stop |-> TRUE]
      BY <1>3 DEF StopCompleted
    <3> QED
      BY <3>1
  <2>3. /\ ccfsm' \in [ph : {"off", "starting", "open", "up", "closing"}, stop : BOOLEAN]
        /\ ccfsm'.ph = "off"
    BY <1>1, <2>1, <2>2
  <2>4. closing = "none"
    BY <2>2 DEF TransportInv, ClosingOK
  <2>5. FlagOK' /\ UsedOK'
    BY <2>1, <2>3 DEF FlagOK, UsedOK, InUse
  <2>6. CallKept
    BY <1>1, <2>1 DEF CallKept
  <2>7. WaitOK' /\ StartIsHonest'
    BY <2>1, <2>2, <2>3, <2>4 DEF TransportInv, WaitOK, StartIsHonest, InfoKept, InUse
  <2> QED
    BY <2>1, <2>3, <2>4, <2>5, <2>6, <2>7, CallbackStep
<1> QED
  BY <1>2, <1>3

\* Every step of a transport keeps its invariant.
LEMMA TransportNextInv == TransportInv /\ [TransportNext]_transport_vars => TransportInv'
<1> SUFFICES ASSUME TransportInv, [TransportNext]_transport_vars PROVE TransportInv'
  OBVIOUS
<1>1. CASE \E timed \in BOOLEAN : TcpStart(timed) \/ UdpStart(timed) \/ SmsStart(timed)
  BY <1>1, TransportStartStep DEF TcpStart, UdpStart, SmsStart
<1>2. CASE StartNext \/ TcpWaitFails
  BY <1>2, StartPrepareStep, StartInitiateStep, WaitStep DEF StartNext, TcpWait, UdpWait, SmsWait
<1>3. CASE TcpStop \/ UdpStop \/ SmsStop \/ StopInitiate
  BY <1>3, TransportStopStep DEF TcpStop, UdpStop, SmsStop
<1>4. CASE TcpOpen \/ UdpOpen \/ SmsOpen \/ CommunicationStarted \/ Keepalive
  BY <1>4, ConnectedStep
<1>5. CASE NetworkClose \/ NetworkClosed \/ ConnectStopped \/ StopCompleted
  BY <1>5, CloseStep, ClosedStep, OffStep
<1>6. CASE TransportHalted \/ UNCHANGED transport_vars
  <2>1. UNCHANGED <<kind, info, live, up, ccfsm, closing, app, under, misused>>
    BY <1>6 DEF TransportHalted, transport_vars
  <2>2. TransportTypeOK'
    BY <2>1 DEF TransportInv, TransportTypeOK
  <2>3. FlagOK' /\ ClosingOK' /\ UsedOK'
    BY <2>1 DEF TransportInv, FlagOK, ClosingOK, LostCauses, UsedOK, InUse
  <2>4. InfoOK' /\ StringsOK'
    BY <2>1 DEF TransportInv, InfoOK, StringsOK
  <2>5. WaitOK' /\ StartIsHonest' /\ CallbackSafe' /\ FreesOwn'
    BY <2>1 DEF TransportInv, WaitOK, InUse, StartIsHonest, CallbackSafe, FreesOwn
  <2> QED
    BY <2>2, <2>3, <2>4, <2>5 DEF TransportInv
<1> QED
  BY <1>1, <1>2, <1>3, <1>4, <1>5, <1>6 DEF TransportNext

\* The invariant holds of every behaviour of a transport.
THEOREM TransportInvariant == TransportSpec => []TransportInv
  BY TransportInitInv, TransportNextInv, PTL DEF TransportSpec

\* A start answers that the transport is started for a connection made since it
\* lowered the flag, or because tcp's untimed wait failed; and while it waits,
\* there is something to wait for, but for the two cases named there
\* (ccapi_transport_tcp.c:292-371, and likewise for udp and sms).
THEOREM HonestCorrect == TransportSpec => []StartIsHonest
<1>1. TransportInv => StartIsHonest
  BY DEF TransportInv
<1> QED
  BY <1>1, TransportInvariant, PTL

\* Starts and stops, at whatever point they fail, neither leak an info nor free
\* one twice; the connector thread misses it only after a call that freed it
\* while CCFSM went on (ccapi_transport_tcp.c:386, :416); udp and sms free no
\* string that is not their own.
THEOREM InfoCorrect == TransportSpec => []InfoHolds
<1>1. TransportInv => InfoHolds
  <2> SUFFICES ASSUME TransportInv PROVE InfoHolds
    OBVIOUS
  <2>1. InfoNotLost
    BY InfoTypes DEF TransportInv, InfoOK, InfoNotLost
  <2>2. UpHasInfo
    BY DEF TransportInv, FlagOK, ClosingOK, UsedOK, InUse, UpHasInfo
  <2> QED
    BY <2>1, <2>2 DEF TransportInv, InfoHolds
<1> QED
  BY <1>1, TransportInvariant, PTL
=============================================================================
