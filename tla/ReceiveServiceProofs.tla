-------------------------- MODULE ReceiveServiceProofs --------------------------
(***************************************************************************)
(* Proofs about ReceiveService, for every number of sessions, request and  *)
(* reply size, configuration and interleaving; and, after those, about the *)
(* list of targets, ReceiveTargets.                                        *)
(***************************************************************************)
EXTENDS ReceiveService, ReceiveTargets, TLAPS

\* The context the target handler fills in has the type of a context.
LEMMA NewSessionType ==
    ASSUME NEW r \in BOOLEAN
    PROVE  NewSession(r) \in Contexts
BY DEF NewSession, Contexts, NoBuffer, NoLimit, Statuses, Errors, UserErrors

\* ccxapi_start establishes the types.
LEMMA TypeInit == Init => TypeOK
<1> SUFFICES ASSUME Init PROVE TypeOK
  OBVIOUS
<1>1. SessionsOK
  BY NewSessionType DEF Init, SessionsOK
<1>2. ThreadOK
  BY DEF Init, ThreadOK
<1>3. HistoryOK
  BY DEF Init, HistoryOK, NoReport, Errors, UserErrors, CloudErrors, Unasked
<1> QED BY <1>1, <1>2, <1>3 DEF TypeOK

\* A step of the target handler keeps the types.
LEMMA OpenType ==
    ASSUME TypeOK, NEW c \in Cells, NEW s \in Contexts, NEW n \in {"data", "reply", "status"},
           OpenSession(c, s, n), failures' \in Nat
    PROVE  TypeOK'
<1> USE DEF TypeOK, OpenSession
<1>1. SessionsOK'
  BY DEF SessionsOK
<1>2. ThreadOK'
  BY DEF ThreadOK, thread
<1>3. HistoryOK'
  BY DEF HistoryOK, outcome, ghosts
<1> QED BY <1>1, <1>2, <1>3

\* Every way out of the target handler keeps the types.
LEMMA TargetType ==
    ASSUME TypeOK, NEW c \in Cells, Target(c)
    PROVE  TypeOK'
<1>1. PICK r \in BOOLEAN, g \in BOOLEAN :
        \/ TargetNoMemory(c, r)
        \/ TargetRefused(c, r, g)
        \/ TargetAccepted(c, r, g)
  BY DEF Target
<1>2. AfterData(r) \in {"data", "reply", "status"}
  BY DEF AfterData
<1>3. failures \in Nat
  BY DEF TypeOK, HistoryOK
<1>4. CASE TargetNoMemory(c, r)
  <2>1. [NewSession(r) EXCEPT !.target = FALSE, !.error = "insufficient_memory"] \in Contexts
    BY NewSessionType DEF Contexts, Errors, TargetErrors
  <2> QED BY <2>1, <1>2, <1>3, <1>4, OpenType DEF TargetNoMemory
<1>5. CASE TargetRefused(c, r, g)
  <2>1. PICK e \in TargetRefusal(g) :
          OpenSession(c, [NewSession(r) EXCEPT !.error = e], AfterData(r))
    BY <1>5 DEF TargetRefused
  <2>2. e \in Errors
    BY DEF TargetRefusal, Errors, TargetErrors
  <2>3. [NewSession(r) EXCEPT !.error = e] \in Contexts
    BY <2>2, NewSessionType DEF Contexts
  <2> QED BY <2>1, <2>3, <1>2, <1>3, <1>5, OpenType DEF TargetRefused
<1>6. CASE TargetAccepted(c, r, g)
  <2>1. [NewSession(r) EXCEPT !.max_request_size =
           IF g THEN MaxRequestSize ELSE NoLimit] \in Contexts
    BY NewSessionType, ConfigAssumption DEF Contexts
  <2> QED BY <2>1, <1>3, <1>6, OpenType DEF TargetAccepted
<1> QED BY <1>1, <1>4, <1>5, <1>6

\* A step of the data handler keeps the types.
LEMMA DataType ==
    ASSUME TypeOK, NEW c \in Cells, Data(c)
    PROVE  TypeOK'
<1> USE DEF TypeOK
<1>0. session[c] \in Contexts /\ AfterData(session[c].required) \in {"reply", "status"}
  BY DEF SessionsOK, AfterData
<1>1. ASSUME NEW n \in PacketSizes, DataTooBig(c, n) \/ DataNoMemory(c, n)
      PROVE  TypeOK'
  <2>1. PICK e \in Errors : DataFails(c, e)
    BY <1>1 DEF DataTooBig, DataNoMemory, Errors, TargetErrors
  <2>2. given' = given /\ failures' \in Nat
    BY <1>1 DEF DataTooBig, DataNoMemory, HistoryOK
  <2>3. session' \in [Cells -> Contexts]
    <3>1. [session[c] EXCEPT !.error = e, !.status = "free"] \in Contexts
      BY <1>0 DEF Contexts, Statuses
    <3> QED BY <2>1, <3>1 DEF DataFails, SessionsOK
  <2>4. SessionsOK'
    <3>1. phase[c] = "data"
      BY <1>1 DEF DataTooBig, DataNoMemory, ServeData
    <3> QED BY <2>1, <2>3, <1>0, <3>1 DEF DataFails, SessionsOK
  <2>5. ThreadOK'
    BY <2>1 DEF DataFails, ThreadOK, thread
  <2>6. HistoryOK'
    BY <2>1, <2>2 DEF DataFails, HistoryOK, outcome
  <2> QED BY <2>4, <2>5, <2>6
<1>2. ASSUME NEW n \in PacketSizes, NEW more \in BOOLEAN, DataStored(c, n, more)
      PROVE  TypeOK'
  <2>1. n \in Nat
    BY LengthsAssumption
  <2>2. session' \in [Cells -> Contexts]
    <3> DEFINE st == IF more THEN "idle" ELSE "ready"
               ln == session[c].length + n
    <3>1. st \in Statuses /\ ln \in Nat
      BY <1>0, <2>1 DEF Statuses, Contexts
    <3>2. session' = [session EXCEPT ![c] = [session[c] EXCEPT
             !.length = ln, !.buffer = "held", !.status = st]]
      BY <1>2 DEF DataStored
    <3> HIDE DEF st, ln
    <3>3. [session[c] EXCEPT !.length = ln, !.buffer = "held", !.status = st] \in Contexts
      BY <1>0, <3>1 DEF Contexts
    <3> QED BY <3>2, <3>3 DEF SessionsOK
  <2>3. SessionsOK'
    BY <2>2, <1>2 DEF DataStored, SessionsOK
  <2>4. ThreadOK'
    BY <1>2 DEF DataStored, ThreadOK, thread
  <2>5. HistoryOK'
    BY <1>2, <2>1 DEF DataStored, HistoryOK, outcome, counts
  <2> QED BY <2>3, <2>4, <2>5
<1>3. CASE DataQueued(c)
  <2>2. session' \in [Cells -> Contexts]
    BY <1>3 DEF DataQueued, SessionsOK, Contexts, Statuses
  <2>3. SessionsOK'
    BY <2>2, <1>3 DEF DataQueued, SessionsOK
  <2>4. ThreadOK'
    BY <1>3 DEF DataQueued, ThreadOK
  <2>5. HistoryOK'
    BY <1>3 DEF DataQueued, HistoryOK, outcome, counts, ghosts
  <2> QED BY <2>3, <2>4, <2>5
<1>4. CASE DataProcessed(c)
  <2>1. session[c].response.length \in Nat
    BY <1>0 DEF Contexts
  <2>2. session' \in [Cells -> Contexts]
    <3>1. [session[c] EXCEPT !.buffer = "freed", !.status = "free",
             !.processing = IF session[c].required
                            THEN session[c].response.length
                            ELSE session[c].processing] \in Contexts
      BY <1>0, <2>1 DEF Contexts, Statuses
    <3> QED BY <1>4, <3>1 DEF DataProcessed, SessionsOK
  <2>3. SessionsOK'
    BY <2>2, <1>4, <1>0 DEF DataProcessed, SessionsOK, ServeData
  <2>4. ThreadOK'
    BY <1>4 DEF DataProcessed, ThreadOK, thread
  <2>5. HistoryOK'
    BY <1>4 DEF DataProcessed, HistoryOK, outcome, counts, ghosts
  <2> QED BY <2>3, <2>4, <2>5
<1> QED BY <1>1, <1>2, <1>3, <1>4 DEF Data

\* The message of fill_internal_error leaves a context.
LEMMA FillType ==
    ASSUME TypeOK, NEW c \in Cells, NEW f \in BOOLEAN
    PROVE  FillInternalError(c, f) \in Contexts
<1>1. session[c] \in Contexts
  BY DEF TypeOK, SessionsOK
<1> QED BY <1>1, LengthsAssumption
        DEF FillInternalError, Contexts, NoBuffer, Errors, TargetErrors

\* What is sent of a reply is no more than there is left of it.
LEMMA BytesToSendType ==
    ASSUME NEW s \in Contexts
    PROVE  BytesToSend(s) \in Nat /\ BytesToSend(s) <= s.processing /\ s.processing \in Nat
BY LengthsAssumption DEF BytesToSend, Contexts

\* Sending a part of the reply keeps the types.
LEMMA SendPartType ==
    ASSUME TypeOK, NEW c \in Cells, NEW s \in Contexts, SendPart(c, s), phase[c] # "none",
           UNCHANGED << allocated, svc_receive >>
    PROVE  SessionsOK' /\ sent' \in [Cells -> Nat]
<1> USE DEF TypeOK
<1>1. [s EXCEPT !.processing = s.processing - BytesToSend(s)] \in Contexts
  BY BytesToSendType DEF Contexts
<1>2. session' \in [Cells -> Contexts]
  BY <1>1 DEF SendPart, SessionsOK
<1>3. sent' \in [Cells -> Nat]
  BY BytesToSendType DEF SendPart, HistoryOK
<1>4. SessionsOK'
  BY <1>2 DEF SendPart, SessionsOK
<1> QED BY <1>3, <1>4

\* What can be lost is a response and what the application said with it.
LEMMA LosableType ==
    ASSUME TypeOK, NEW c \in Cells
    PROVE  Losable(c) \subseteq [length : Nat, verdict : UserErrors]
<1>1. session[c].response.length \in Nat /\ verdict[c] \in UserErrors
  BY DEF TypeOK, SessionsOK, HistoryOK, Contexts
<1> QED BY <1>1 DEF Losable

\* A step of the length or the response handler keeps the types.
LEMMA ResponseType ==
    ASSUME TypeOK, NEW c \in Cells, Response(c)
    PROVE  TypeOK'
<1> USE DEF TypeOK
<1>0. session[c] \in Contexts
  BY DEF SessionsOK
<1>1. CASE ReplyLength(c)
  <2>1. session[c].processing \in Nat
    BY <1>0 DEF Contexts
  <2>2. SessionsOK'
    BY <1>1 DEF ReplyLength, SessionsOK
  <2>3. ThreadOK'
    BY <1>1 DEF ReplyLength, ThreadOK, thread
  <2>4. HistoryOK'
    BY <1>1, <2>1 DEF ReplyLength, HistoryOK, outcome, counts
  <2> QED BY <2>2, <2>3, <2>4
<1>2. CASE Reply(c)
  <2>1. SessionsOK' /\ sent' \in [Cells -> Nat]
    BY <1>0, <1>2, SendPartType DEF Reply
  <2>2. ThreadOK'
    BY <1>2 DEF Reply, ThreadOK, thread
  <2>3. HistoryOK'
    BY <1>2, <2>1 DEF Reply, HistoryOK, outcome, counts
  <2> QED BY <2>1, <2>2, <2>3
<1>3. ASSUME NEW f \in BOOLEAN, ReplyInternal(c, f)
      PROVE  TypeOK'
  <2>1. SessionsOK' /\ sent' \in [Cells -> Nat]
    <3>1. FillInternalError(c, f) \in Contexts
      BY FillType
    <3>2. /\ SendPart(c, FillInternalError(c, f)) /\ phase[c] # "none"
          /\ UNCHANGED << allocated, svc_receive >>
      BY <1>3 DEF ReplyInternal
    <3> QED BY <3>1, <3>2, SendPartType
  <2>2. ThreadOK'
    BY <1>3 DEF ReplyInternal, ThreadOK, thread
  <2>3. lost' \subseteq [length : Nat, verdict : UserErrors] /\ failures' \in Nat
    BY <1>3, LosableType DEF ReplyInternal, HistoryOK
  <2>4. HistoryOK'
    BY <1>3, <2>1, <2>3 DEF ReplyInternal, HistoryOK
  <2> QED BY <2>1, <2>2, <2>4
<1>4. CASE ReplyCrashes(c)
  <2>1. SessionsOK'
    BY <1>4 DEF ReplyCrashes, SessionsOK
  <2>2. ThreadOK'
    BY <1>4 DEF ReplyCrashes, ThreadOK, thread
  <2>3. HistoryOK'
    BY <1>4 DEF ReplyCrashes, HistoryOK, outcome, counts, ghosts
  <2> QED BY <2>1, <2>2, <2>3
<1> QED BY <1>1, <1>2, <1>3, <1>4 DEF Response

\* The error reported at the end is one of the errors.
LEMMA FinalErrorType ==
    ASSUME TypeOK, NEW c \in Cells, NEW st \in {"none"} \cup CloudErrors
    PROVE  FinalError(c, st) \in Errors
<1>1. session[c].error \in Errors
  BY DEF TypeOK, SessionsOK, Contexts
<1> QED BY <1>1 DEF FinalError, Errors, UserErrors

\* The status handler keeps the types.
LEMMA StatusType ==
    ASSUME TypeOK, NEW c \in Cells, NEW st \in {"none"} \cup CloudErrors, Status(c, st)
    PROVE  TypeOK'
<1> USE DEF TypeOK
<1>1. session' \in [Cells -> Contexts]
  BY NewSessionType DEF Status, Forget, SessionsOK
<1>2. SessionsOK'
  BY <1>1 DEF Status, SessionsOK
<1>3. ThreadOK'
  BY DEF Status, ThreadOK, thread
<1>4. report' \in [made : BOOLEAN, error : Errors, final : {"none"} \cup CloudErrors,
                   calls : Nat, verdict : UserErrors]
  <2>1. calls[c] \in Nat /\ verdict[c] \in UserErrors /\ FinalError(c, st) \in Errors
    BY FinalErrorType DEF HistoryOK
  <2>2. [made |-> TRUE, error |-> FinalError(c, st), final |-> st, calls |-> calls[c],
         verdict |-> verdict[c]]
          \in [made : BOOLEAN, error : Errors, final : {"none"} \cup CloudErrors,
               calls : Nat, verdict : UserErrors]
    BY <2>1
  <2> QED BY <2>2 DEF Status, HistoryOK
<1>5. /\ leaked' \in BOOLEAN /\ dangling' \in BOOLEAN
      /\ lost' \subseteq [length : Nat, verdict : UserErrors]
  BY LosableType DEF Status, HistoryOK
<1>6. /\ given' \in [Cells -> Nat] /\ calls' \in [Cells -> Nat] /\ sent' \in [Cells -> Nat]
      /\ announced' \in [Cells -> Nat \cup {Unasked}]
      /\ verdict' \in [Cells -> UserErrors]
  BY DEF Status, Forget, HistoryOK, UserErrors
<1>7. HistoryOK'
  BY <1>4, <1>5, <1>6 DEF Status, HistoryOK, counts
<1> QED BY <1>2, <1>3, <1>7

\* What the application can answer.
LEMMA ResponsesType ==
    ASSUME NEW b \in Responses
    PROVE  b \in [owner : {"nobody", "user", "ccapi"}, length : Nat]
BY LengthsAssumption DEF Responses, NoBuffer

\* The receive thread keeps the types.
LEMMA ThreadType ==
    ASSUME TypeOK, ThreadStep
    PROVE  TypeOK'
<1> USE DEF TypeOK
<1>1. CASE ThreadAcquire \/ ThreadExit \/ ThreadAssertFails \/ ThreadClear
  <2>1. SessionsOK'
    BY <1>1 DEF ThreadAcquire, ThreadExit, ThreadAssertFails, ThreadClear, ThreadEnds, SessionsOK
  <2>2. ThreadOK'
    BY <1>1 DEF ThreadAcquire, ThreadExit, ThreadAssertFails, ThreadClear, ThreadEnds, ThreadOK
  <2>3. HistoryOK'
    BY <1>1 DEF ThreadAcquire, ThreadExit, ThreadAssertFails, ThreadClear, ThreadEnds,
                HistoryOK, outcome, counts, ghosts
  <2> QED BY <2>1, <2>2, <2>3
<1>2. CASE ThreadCall
  <2>0. svc_receive \in Cells /\ session[svc_receive] \in Contexts
    BY <1>2 DEF ThreadCall, SessionsOK
  <2>1. SessionsOK'
    BY <1>2 DEF ThreadCall, SessionsOK
  <2>2. wants' \in BOOLEAN
    BY <1>2, <2>0 DEF ThreadCall, Contexts
  <2>3. ThreadOK'
    BY <1>2, <2>0, <2>2 DEF ThreadCall, ThreadOK
  <2>4. HistoryOK'
    BY <1>2, <2>0 DEF ThreadCall, HistoryOK, outcome, counts
  <2> QED BY <2>1, <2>3, <2>4
<1>3. ASSUME NEW e \in UserErrors, NEW b \in Responses, ThreadReturn(e, b)
      PROVE  TypeOK'
  <2>0. held \in Cells
    BY <1>3 DEF ThreadReturn, ThreadOK
  <2>1. session' \in [Cells -> Contexts]
    <3> DEFINE x == IF wants THEN b ELSE session[held].response
    <3>1. session[held] \in Contexts
      BY <2>0 DEF SessionsOK
    <3>2. x \in [owner : {"nobody", "user", "ccapi"}, length : Nat]
      BY <3>1, ResponsesType DEF Contexts
    <3>3. session' = IF held \in allocated
                     THEN [session EXCEPT ![held] =
                             [session[held] EXCEPT !.error = e, !.response = x]]
                     ELSE session
      BY <1>3 DEF ThreadReturn
    <3> HIDE DEF x
    <3>4. [session[held] EXCEPT !.error = e, !.response = x] \in Contexts
      BY <3>1, <3>2 DEF Contexts, Errors
    <3> QED BY <2>0, <3>3, <3>4 DEF SessionsOK
  <2>2. SessionsOK'
    BY <1>3, <2>1 DEF ThreadReturn, SessionsOK
  <2>3. ThreadOK'
    BY <1>3 DEF ThreadReturn, ThreadOK
  <2>4. verdict' \in [Cells -> UserErrors]
    BY <1>3, <2>0 DEF ThreadReturn, HistoryOK
  <2>5. HistoryOK'
    BY <1>3, <2>4 DEF ThreadReturn, HistoryOK, outcome, counts
  <2> QED BY <2>2, <2>3, <2>5
<1>4. CASE ThreadUpdate
  <2>0. held \in Cells
    BY <1>4 DEF ThreadUpdate, ThreadOK
  <2>1. session' \in [Cells -> Contexts]
    BY <1>4, <2>0 DEF ThreadUpdate, SessionsOK, Contexts, Statuses
  <2>2. SessionsOK'
    BY <1>4, <2>1 DEF ThreadUpdate, SessionsOK
  <2>3. ThreadOK'
    BY <1>4 DEF ThreadUpdate, ThreadOK
  <2>4. HistoryOK'
    BY <1>4 DEF ThreadUpdate, HistoryOK, outcome, counts, ghosts
  <2> QED BY <2>2, <2>3, <2>4
<1> QED BY <1>1, <1>2, <1>3, <1>4 DEF ThreadStep

\* Every step keeps the types.
LEMMA TypeNext == TypeOK /\ [Next]_vars => TypeOK'
<1> SUFFICES ASSUME TypeOK, [Next]_vars PROVE TypeOK'
  OBVIOUS
<1>1. ASSUME NEW c \in Cells, Target(c) \/ Data(c) \/ Response(c)
      PROVE  TypeOK'
  BY <1>1, TargetType, DataType, ResponseType
<1>2. ASSUME NEW c \in Cells, NEW st \in {"none"} \cup CloudErrors, Status(c, st)
      PROVE  TypeOK'
  BY <1>2, StatusType
<1>3. CASE ThreadStep
  BY <1>3, ThreadType
<1>4. CASE StopThread
  <2>1. SessionsOK'
    BY <1>4 DEF StopThread, TypeOK, SessionsOK
  <2>2. ThreadOK'
    <3>1. status' \in {"running", "request_stop", "not_started"} /\ lock' \in Nat
      BY <1>4 DEF StopThread, TypeOK, ThreadOK
    <3> QED BY <1>4, <3>1 DEF StopThread, TypeOK, ThreadOK
  <2>3. HistoryOK'
    BY <1>4 DEF StopThread, TypeOK, HistoryOK, outcome, counts, ghosts
  <2> QED BY <2>1, <2>2, <2>3 DEF TypeOK
<1>5. CASE UNCHANGED vars
  BY <1>5 DEF vars, TypeOK, SessionsOK, ThreadOK, HistoryOK, thread, outcome, counts, ghosts
<1> QED BY <1>1, <1>2, <1>3, <1>4, <1>5 DEF Next

(***************************************************************************)
(* Type correctness: in particular the length of the reply still to send,  *)
(* unsigned in the code, never wraps.                                      *)
(***************************************************************************)
THEOREM TypeCorrect == Spec => []TypeOK
<1> QED BY TypeInit, TypeNext, PTL DEF Spec

-----------------------------------------------------------------------------
\* A session that a step does not touch keeps its part of the invariant, as
\* long as the thread does not move on with it.
LEMMA SessionKept ==
    ASSUME NEW d \in Cells, OneSessionInv(d), TypeOK,
           session'[d] = session[d], phase'[d] = phase[d], given'[d] = given[d],
           calls'[d] = calls[d], verdict'[d] = verdict[d],
           announced'[d] = announced[d], sent'[d] = sent[d],
           failures' \in Nat, failures' >= failures,
           session[d].status = "queued" => pc' = pc \/ {pc, pc'} \subseteq {"acquire", "check"}
    PROVE  OneSessionInv(d)'
<1>1. failures' = 0 => failures = 0
  BY DEF TypeOK, HistoryOK
<1>2. (CallbackMade(d)' <=> CallbackMade(d)) /\ (Answered(d)' <=> Answered(d))
  BY DEF CallbackMade, Answered
<1>3. DataInv(d)' <=> DataInv(d)
  BY <1>2 DEF DataInv, Fits
<1>4. ReplyInv(d)' <=> ReplyInv(d)
  BY DEF ReplyInv, NeedsInternalError
<1> QED BY <1>1, <1>3, <1>4 DEF OneSessionInv

\* The service starts with no session, no token and no history.
LEMMA ReceiveInit == Init => ReceiveInv
BY CellsAssumption DEF Init, ReceiveInv, SlotInv, SessionInv, FreshInv, Fresh, ReportIsHonest,
       WithThread, Tokens, InHand, NoReport

\* A new session starts without a history, whichever way the target handler
\* leaves it.
LEMMA OpenInv ==
    ASSUME TypeOK, ReceiveInv, NEW c \in Cells, NEW s \in Contexts,
           NEW n \in {"data", "reply", "status"}, ~dangling',
           OpenSession(c, s, n), failures' \in Nat, failures' >= failures,
           s.status = "idle", ~s.internal, s.processing = 0, s.response = NoBuffer,
           s.length = 0, s.error = "none" <=> n = "data",
           n = "reply" => s.required, n = "status" => ~s.required
    PROVE  ReceiveInv'
<1>0. SlotInv /\ SessionInv /\ FreshInv /\ ReportIsHonest /\ ~dangling
  BY DEF ReceiveInv, OpenSession, outcome
<1>1. c \notin allocated /\ allocated' = allocated \cup {c} /\ session'[c] = s /\ phase'[c] = n
  BY DEF OpenSession, TypeOK, SessionsOK
<1>2. \A d \in allocated : session'[d] = session[d] /\ phase'[d] = phase[d] /\ d # c
  BY <1>1 DEF OpenSession, TypeOK, SessionsOK
<1>3. UNCHANGED << svc_receive, thread, ccfsm, ghosts, report >>
  BY DEF OpenSession, outcome
<1>4. SlotInv'
  BY <1>0, <1>1, <1>2, <1>3 DEF SlotInv, WithThread, Tokens, InHand, thread
<1>5. SessionInv'
  <2>1. ASSUME NEW d \in allocated PROVE OneSessionInv(d)'
    <3>1. d \in Cells
      BY DEF TypeOK, SessionsOK
    <3> QED BY <1>0, <1>2, <1>3, <3>1, SessionKept DEF SessionInv, ghosts, thread
  <2>2. Fresh(c)
    BY <1>0, <1>1 DEF FreshInv
  <2>3. Fresh(c)'
    BY <1>3, <2>2 DEF Fresh, ghosts
  <2>4. n = "data" => DataInv(c)'
    BY <1>1, <2>3 DEF DataInv, CallbackMade, Answered, Fits, Fresh
  <2>5. n # "data" => ReplyInv(c)'
    BY <1>1, <2>3 DEF ReplyInv, NeedsInternalError, Fresh, NoBuffer
  <2>6. OneSessionInv(c)'
    BY <1>1, <2>3, <2>4, <2>5 DEF OneSessionInv, Fresh
  <2> QED BY <1>1, <2>1, <2>6 DEF SessionInv
<1>6. FreshInv'
  BY <1>0, <1>1, <1>3 DEF FreshInv, Fresh, ghosts
<1>7. ReportIsHonest'
  BY <1>0, <1>3 DEF ReportIsHonest, TypeOK, HistoryOK
<1> QED BY <1>4, <1>5, <1>6, <1>7 DEF ReceiveInv

\* The target handler keeps the invariant.
LEMMA TargetInv ==
    ASSUME TypeOK, ReceiveInv, NEW c \in Cells, Target(c), ~dangling'
    PROVE  ReceiveInv'
<1>1. PICK r \in BOOLEAN, g \in BOOLEAN :
        \/ TargetNoMemory(c, r)
        \/ TargetRefused(c, r, g)
        \/ TargetAccepted(c, r, g)
  BY DEF Target
<1>2. failures \in Nat /\ NewSession(r) \in Contexts
  BY NewSessionType DEF TypeOK, HistoryOK
<1>3. ASSUME NEW s \in Contexts, OpenSession(c, s, AfterData(r)),
             s.status = "idle", ~s.internal, s.processing = 0, s.response = NoBuffer,
             s.length = 0, s.error # "none", s.required = r,
             failures' \in Nat, failures' >= failures
      PROVE  ReceiveInv'
  <2>1. /\ AfterData(r) \in {"reply", "status"}
        /\ (AfterData(r) = "reply" => r) /\ (AfterData(r) = "status" => ~r)
    BY DEF AfterData
  <2> QED BY <1>3, <2>1, OpenInv
<1>4. CASE TargetNoMemory(c, r)
  <2> DEFINE s == [NewSession(r) EXCEPT !.target = FALSE, !.error = "insufficient_memory"]
  <2>1. s \in Contexts
    BY <1>2 DEF Contexts, Errors, TargetErrors
  <2>2. /\ s.status = "idle" /\ ~s.internal /\ s.processing = 0 /\ s.response = NoBuffer
        /\ s.length = 0 /\ s.error # "none" /\ s.required = r
    BY DEF NewSession
  <2>3. OpenSession(c, s, AfterData(r)) /\ failures' = failures + 1
    BY <1>4 DEF TargetNoMemory
  <2> HIDE DEF s
  <2> QED BY <1>2, <1>3, <2>1, <2>2, <2>3
<1>5. CASE TargetRefused(c, r, g)
  <2>1. PICK e \in TargetRefusal(g) :
          OpenSession(c, [NewSession(r) EXCEPT !.error = e], AfterData(r))
    BY <1>5 DEF TargetRefused
  <2> DEFINE s == [NewSession(r) EXCEPT !.error = e]
  <2>2. e \in Errors /\ e # "none"
    BY DEF TargetRefusal, TargetErrors, Errors
  <2>3. s \in Contexts
    BY <1>2, <2>2 DEF Contexts
  <2>4. /\ s.status = "idle" /\ ~s.internal /\ s.processing = 0 /\ s.response = NoBuffer
        /\ s.length = 0 /\ s.error # "none" /\ s.required = r
    BY <2>2 DEF NewSession
  <2>5. OpenSession(c, s, AfterData(r)) /\ failures' = failures
    BY <1>5, <2>1 DEF TargetRefused
  <2> HIDE DEF s
  <2> QED BY <1>2, <1>3, <2>3, <2>4, <2>5
<1>6. CASE TargetAccepted(c, r, g)
  <2> DEFINE s == [NewSession(r) EXCEPT !.max_request_size =
                      IF g THEN MaxRequestSize ELSE NoLimit]
  <2>1. s \in Contexts
    BY <1>2, ConfigAssumption DEF Contexts
  <2>2. /\ s.status = "idle" /\ ~s.internal /\ s.processing = 0 /\ s.response = NoBuffer
        /\ s.length = 0 /\ s.error = "none"
    BY DEF NewSession
  <2>3. OpenSession(c, s, "data") /\ failures' = failures
    BY <1>6 DEF TargetAccepted
  <2> HIDE DEF s
  <2> QED BY <1>2, <2>1, <2>2, <2>3, OpenInv
<1> QED BY <1>1, <1>4, <1>5, <1>6

\* A data handler that gives up or stores a packet leaves the thread alone.
LEMMA DataLocalInv ==
    ASSUME TypeOK, TypeOK', ReceiveInv, NEW c \in allocated, ~dangling',
           phase[c] = "data", session[c].status # "queued", session'[c].status # "queued",
           \A d \in Cells \ {c} : session'[d] = session[d] /\ phase'[d] = phase[d]
                                  /\ given'[d] = given[d] /\ calls'[d] = calls[d]
                                  /\ verdict'[d] = verdict[d] /\ sent'[d] = sent[d]
                                  /\ announced'[d] = announced[d],
           UNCHANGED << allocated, svc_receive, thread, ccfsm, outcome >>,
           failures' >= failures, OneSessionInv(c)'
    PROVE  ReceiveInv'
<1>0. /\ SlotInv /\ SessionInv /\ FreshInv /\ ReportIsHonest
      /\ allocated \subseteq Cells /\ failures \in Nat /\ failures' \in Nat
  BY DEF ReceiveInv, outcome, TypeOK, SessionsOK, HistoryOK
<1>1. SlotInv'
  BY <1>0 DEF SlotInv, WithThread, Tokens, InHand, thread
<1>2. SessionInv'
  <2> SUFFICES ASSUME NEW d \in allocated PROVE OneSessionInv(d)'
    BY DEF SessionInv
  <2> QED BY <1>0, SessionKept DEF SessionInv, thread
<1>3. FreshInv'
  BY <1>0 DEF FreshInv, Fresh
<1>4. ReportIsHonest'
  BY <1>0 DEF ReportIsHonest, outcome
<1> QED BY <1>1, <1>2, <1>3, <1>4 DEF ReceiveInv

\* The data handler keeps the invariant: a request is whole and within the
\* limit when it is queued, and only one is.
LEMMA DataHandlerInv ==
    ASSUME TypeOK, TypeOK', ReceiveInv, NEW c \in Cells, Data(c), ~dangling'
    PROVE  ReceiveInv'
<1>0. /\ SlotInv /\ SessionInv /\ FreshInv /\ ReportIsHonest /\ ~dangling
      /\ c \in allocated /\ phase[c] = "data" /\ DataInv(c) /\ ccfsm
      /\ session[c] \in Contexts /\ failures \in Nat /\ failures' \in Nat
  <2>1. ASSUME NEW n \in PacketSizes, NEW more \in BOOLEAN,
               DataTooBig(c, n) \/ DataNoMemory(c, n) \/ DataStored(c, n, more)
        PROVE  phase[c] = "data" /\ ~dangling /\ ccfsm
    BY <2>1 DEF DataTooBig, DataNoMemory, DataStored, DataFails, ServeData, CCFSMRuns, outcome
  <2>2. ASSUME DataQueued(c) \/ DataProcessed(c)
        PROVE  phase[c] = "data" /\ ~dangling /\ ccfsm
    BY <2>2 DEF DataQueued, DataProcessed, ServeData, CCFSMRuns, outcome
  <2>3. phase[c] = "data" /\ ~dangling /\ ccfsm
    BY <2>1, <2>2 DEF Data
  <2> QED BY <2>3 DEF ReceiveInv, TypeOK, SessionsOK, HistoryOK, SessionInv, OneSessionInv
<1>1. ASSUME NEW n \in PacketSizes, DataTooBig(c, n) \/ DataNoMemory(c, n)
      PROVE  ReceiveInv'
  <2>1. PICK e \in {"request_too_big", "insufficient_memory"} : DataFails(c, e)
    BY <1>1 DEF DataTooBig, DataNoMemory
  <2>2. /\ session[c].status = "idle" /\ given' = given /\ failures' >= failures
    BY <1>0, <1>1 DEF DataTooBig, DataNoMemory, ServeData
  <2>3. session'[c] = [session[c] EXCEPT !.error = e, !.status = "free"]
    BY <2>1 DEF DataFails, TypeOK, SessionsOK
  <2>4. /\ session'[c].error = e /\ session'[c].status = "free"
        /\ session'[c].response = session[c].response /\ session'[c].internal = session[c].internal
        /\ session'[c].required = session[c].required
        /\ session'[c].processing = session[c].processing
    BY <1>0, <2>3 DEF Contexts
  <2>5. phase'[c] = AfterData(session[c].required)
    BY <2>1 DEF DataFails, TypeOK, SessionsOK
  <2>6. session[c].response.length = 0 /\ verdict[c] = "none"
    BY <1>0, <2>2 DEF DataInv, Answered, NoBuffer
  <2>7. OneSessionInv(c)'
    BY <1>0, <2>1, <2>2, <2>4, <2>5, <2>6
       DEF OneSessionInv, ReplyInv, DataInv, DataFails, NeedsInternalError, AfterData
  <2>8. /\ UNCHANGED << allocated, svc_receive, thread, ccfsm, outcome, calls, verdict,
                        announced, sent >>
        /\ \A d \in Cells \ {c} : session'[d] = session[d] /\ phase'[d] = phase[d]
    BY <2>1 DEF DataFails, TypeOK, SessionsOK
  <2> QED BY <1>0, <2>2, <2>4, <2>7, <2>8, DataLocalInv
<1>2. ASSUME NEW n \in PacketSizes, NEW more \in BOOLEAN, DataStored(c, n, more)
      PROVE  ReceiveInv'
  <2> DEFINE st == IF more THEN "idle" ELSE "ready"
             ln == session[c].length + n
  <2>1. st \in {"idle", "ready"} /\ ln \in Nat /\ n \in Nat
    BY <1>0, LengthsAssumption DEF Contexts
  <2>2. /\ session[c].status = "idle" /\ given' = [given EXCEPT ![c] = @ + n]
        /\ session' = [session EXCEPT ![c] = [session[c] EXCEPT
             !.length = ln, !.buffer = "held", !.status = st]]
        /\ ~ExceedsLimit(c, n)
        /\ UNCHANGED << allocated, svc_receive, thread, phase, ccfsm, outcome, calls, verdict,
                        announced, sent, failures >>
    BY <1>2 DEF DataStored, ServeData, counts
  <2>3. given'[c] = given[c] + n /\ given[c] = session[c].length
    BY <1>0, <2>2 DEF TypeOK, HistoryOK, DataInv
  <2>4. session[c].max_request_size # NoLimit => ln <= session[c].max_request_size
    BY <1>0, <2>1, <2>2 DEF ExceedsLimit, Contexts, NoLimit
  <2>5. given'[c] = ln
    BY <2>3 DEF ln
  <2> HIDE DEF st, ln
  <2>6. session'[c] = [session[c] EXCEPT !.length = ln, !.buffer = "held", !.status = st]
    BY <2>2 DEF TypeOK, SessionsOK
  <2>7. /\ session'[c].length = ln /\ session'[c].buffer = "held" /\ session'[c].status = st
        /\ session'[c].response = session[c].response /\ session'[c].internal = session[c].internal
        /\ session'[c].error = session[c].error
        /\ session'[c].max_request_size = session[c].max_request_size
        /\ session'[c].processing = session[c].processing
    BY <1>0, <2>6 DEF Contexts
  <2>8. DataInv(c)'
    BY <1>0, <2>1, <2>2, <2>4, <2>5, <2>7 DEF DataInv, Fits, CallbackMade, Answered
  <2>9. OneSessionInv(c)'
    BY <1>0, <2>2, <2>8 DEF OneSessionInv, DataInv
  <2>10. \A d \in Cells \ {c} : session'[d] = session[d] /\ given'[d] = given[d]
    BY <2>2 DEF TypeOK, SessionsOK, HistoryOK
  <2> QED BY <1>0, <2>1, <2>2, <2>7, <2>9, <2>10, DataLocalInv
<1>3. CASE DataQueued(c)
  <2>1. /\ session[c].status = "ready" /\ svc_receive = NULL /\ svc_receive' = c
        /\ session' = [session EXCEPT ![c].status = "queued"] /\ lock' = lock + 1
        /\ UNCHANGED << allocated, status, pc, held, wants, phase, ccfsm, counts, ghosts, outcome >>
    BY <1>3 DEF DataQueued, ServeData, SlotFree
  <2>2. /\ session'[c] = [session[c] EXCEPT !.status = "queued"]
        /\ \A d \in Cells \ {c} : session'[d] = session[d]
    BY <2>1 DEF TypeOK, SessionsOK
  <2>3. pc \notin {"callback", "update", "clear", "check"} /\ lock = 0 /\ status = "running"
    BY <1>0, <2>1 DEF SlotInv, WithThread, Tokens, InHand, TypeOK, ThreadOK
  <2>4. SlotInv'
    BY <1>0, <2>1, <2>2, <2>3, CellsAssumption
       DEF SlotInv, WithThread, Tokens, InHand, TypeOK, SessionsOK, Contexts
  <2>5. DataInv(c)'
    BY <1>0, <2>1, <2>2, <2>3 DEF DataInv, Fits, CallbackMade, Answered, ghosts, Contexts
  <2>6. SessionInv'
    <3> SUFFICES ASSUME NEW d \in allocated PROVE OneSessionInv(d)'
      BY <2>1 DEF SessionInv
    <3>1. CASE d = c
      BY <3>1, <1>0, <2>1, <2>5 DEF OneSessionInv, DataInv
    <3>2. CASE d # c
      BY <3>2, <1>0, <2>1, <2>2, SessionKept DEF SessionInv, ghosts, counts, TypeOK, SessionsOK
    <3> QED BY <3>1, <3>2
  <2>7. FreshInv' /\ ReportIsHonest'
    BY <1>0, <2>1 DEF FreshInv, Fresh, ReportIsHonest, ghosts, outcome, counts
  <2> QED BY <2>4, <2>6, <2>7 DEF ReceiveInv
<1>4. CASE DataProcessed(c)
  <2> DEFINE x == IF session[c].required THEN session[c].response.length
                                         ELSE session[c].processing
  <2>1. /\ session[c].status = "processed"
        /\ session' = [session EXCEPT ![c] =
             [session[c] EXCEPT !.buffer = "freed", !.status = "free", !.processing = x]]
        /\ phase' = [phase EXCEPT ![c] = AfterData(session[c].required)]
        /\ UNCHANGED << allocated, svc_receive, thread, ccfsm, counts, ghosts, outcome >>
    BY <1>4 DEF DataProcessed, ServeData
  <2>2. x \in Nat /\ (session[c].required => x = session[c].response.length)
    BY <1>0 DEF Contexts
  <2> HIDE DEF x
  <2>3. session'[c] = [session[c] EXCEPT !.buffer = "freed", !.status = "free", !.processing = x]
    BY <2>1 DEF TypeOK, SessionsOK
  <2>4. /\ session'[c].status = "free" /\ session'[c].processing = x
        /\ session'[c].response = session[c].response /\ session'[c].internal = session[c].internal
        /\ session'[c].error = session[c].error /\ session'[c].required = session[c].required
    BY <1>0, <2>3 DEF Contexts
  <2>5. phase'[c] = AfterData(session[c].required)
    BY <2>1 DEF TypeOK, SessionsOK
  <2>6. /\ calls'[c] = 1 /\ verdict'[c] = session[c].error /\ sent'[c] = 0
        /\ announced'[c] = Unasked /\ ~session[c].internal
        /\ session[c].response.length \in Nat
    BY <1>0, <2>1 DEF DataInv, CallbackMade, ghosts, Contexts
  <2>7. OneSessionInv(c)'
    BY <2>2, <2>4, <2>5, <2>6 DEF OneSessionInv, ReplyInv, NeedsInternalError, AfterData
  <2>8. \A d \in Cells \ {c} : session'[d] = session[d] /\ phase'[d] = phase[d]
    BY <2>1 DEF TypeOK, SessionsOK
  <2> QED BY <1>0, <2>1, <2>4, <2>7, <2>8, DataLocalInv DEF ghosts, counts
<1> QED BY <1>1, <1>2, <1>3, <1>4 DEF Data

\* A step of a session that is past its data leaves the thread and the other
\* sessions alone.
LEMMA ReplyLocalInv ==
    ASSUME TypeOK, TypeOK', ReceiveInv, NEW c \in allocated, ~dangling', ~dangling,
           session[c].status # "queued", session'[c].status # "queued",
           \A d \in Cells \ {c} : session'[d] = session[d] /\ phase'[d] = phase[d]
                                  /\ sent'[d] = sent[d] /\ announced'[d] = announced[d],
           UNCHANGED << allocated, svc_receive, thread, ccfsm, given, calls, verdict, report >>,
           failures' >= failures, OneSessionInv(c)'
    PROVE  ReceiveInv'
<1>0. /\ SlotInv /\ SessionInv /\ FreshInv /\ ReportIsHonest
      /\ allocated \subseteq Cells /\ failures \in Nat /\ failures' \in Nat
  BY DEF ReceiveInv, TypeOK, SessionsOK, HistoryOK
<1>1. SlotInv'
  BY <1>0 DEF SlotInv, WithThread, Tokens, InHand, thread
<1>2. SessionInv'
  <2> SUFFICES ASSUME NEW d \in allocated PROVE OneSessionInv(d)'
    BY DEF SessionInv
  <2> QED BY <1>0, SessionKept DEF SessionInv, thread
<1>3. FreshInv'
  BY <1>0 DEF FreshInv, Fresh
<1>4. ReportIsHonest'
  BY <1>0 DEF ReportIsHonest
<1> QED BY <1>1, <1>2, <1>3, <1>4 DEF ReceiveInv

\* Sending a part keeps what is sent and what is left adding up to the reply.
LEMMA SendPartInv ==
    ASSUME TypeOK, TypeOK', NEW c \in allocated, NEW s \in Contexts, SendPart(c, s),
           UNCHANGED << calls, verdict, announced >>,
           s.status # "queued", s.required, failures' \in Nat,
           s.error = "none" => calls[c] = 1 /\ verdict[c] = "none",
           s.error = "none" \/ s.internal \/ s.response.length # 0,
           sent[c] + s.processing = s.response.length,
           announced[c] # Unasked /\ ~s.internal => announced[c] = s.response.length,
           verdict[c] # "none" /\ failures' = 0 => s.error = verdict[c]
    PROVE  OneSessionInv(c)' /\ session'[c].status # "queued"
<1> DEFINE x == s.processing - BytesToSend(s)
<1>0. c \in Cells /\ sent[c] \in Nat /\ s.response.length \in Nat /\ s.processing \in Nat
  BY DEF TypeOK, SessionsOK, HistoryOK, Contexts
<1>1. /\ session'[c] = [s EXCEPT !.processing = x]
      /\ sent'[c] = sent[c] + BytesToSend(s)
      /\ phase'[c] = IF session'[c].processing > 0 THEN "reply" ELSE "status"
  BY <1>0 DEF SendPart, TypeOK, SessionsOK, HistoryOK
<1>2. x \in Nat /\ sent'[c] + x = s.response.length
  BY <1>0, <1>1, BytesToSendType
<1> HIDE DEF x
<1>3. /\ session'[c].processing = x /\ session'[c].status = s.status
      /\ session'[c].required = s.required /\ session'[c].error = s.error
      /\ session'[c].internal = s.internal /\ session'[c].response = s.response
  BY <1>1 DEF Contexts
<1>4. ReplyInv(c)'
  BY <1>0, <1>1, <1>2, <1>3 DEF ReplyInv, NeedsInternalError
<1> QED BY <1>1, <1>3, <1>4 DEF OneSessionInv

\* The length and response handlers keep the invariant.
LEMMA ResponseInv ==
    ASSUME TypeOK, TypeOK', ReceiveInv, NEW c \in Cells, Response(c), ~dangling'
    PROVE  ReceiveInv'
<1>0. /\ SlotInv /\ SessionInv /\ FreshInv /\ ReportIsHonest /\ ~dangling
      /\ c \in allocated /\ phase[c] = "reply" /\ ReplyInv(c) /\ OneSessionInv(c)
      /\ session[c] \in Contexts /\ failures \in Nat /\ failures' \in Nat
  <2>1. ASSUME NEW f \in BOOLEAN,
               ReplyLength(c) \/ Reply(c) \/ ReplyInternal(c, f) \/ ReplyCrashes(c)
        PROVE  phase[c] = "reply" /\ ~dangling
    BY <2>1 DEF ReplyLength, Reply, ReplyInternal, ReplyCrashes, outcome
  <2>2. phase[c] = "reply" /\ ~dangling
    BY <2>1 DEF Response
  <2> QED BY <2>2 DEF ReceiveInv, TypeOK, SessionsOK, HistoryOK, SessionInv, OneSessionInv
<1>1. CASE ReplyLength(c)
  <2>1. /\ UNCHANGED << allocated, session, svc_receive, thread, phase, ccfsm, failures,
                        given, calls, verdict, sent, report >>
        /\ sent[c] = 0
        /\ announced' = [announced EXCEPT ![c] = session[c].processing]
    BY <1>1 DEF ReplyLength, outcome, counts
  <2>2. announced'[c] = session[c].processing /\ \A d \in Cells \ {c} : announced'[d] = announced[d]
    BY <2>1 DEF TypeOK, HistoryOK
  <2>3. session[c].processing = session[c].response.length
    BY <1>0, <2>1 DEF ReplyInv, NeedsInternalError, Contexts
  <2>4. ReplyInv(c)'
    BY <1>0, <2>1, <2>2, <2>3 DEF ReplyInv, NeedsInternalError
  <2>5. OneSessionInv(c)'
    BY <1>0, <2>1, <2>4 DEF OneSessionInv
  <2>6. session[c].status # "queued" /\ session'[c].status # "queued"
    BY <1>0, <2>1 DEF ReplyInv
  <2> QED BY <1>0, <2>1, <2>2, <2>5, <2>6, ReplyLocalInv
<1>2. CASE Reply(c)
  <2>1. /\ UNCHANGED << allocated, svc_receive, thread, ccfsm, failures,
                        given, calls, verdict, announced, report >>
        /\ ~NeedsInternalError(c) /\ SendPart(c, session[c])
    BY <1>2 DEF Reply, outcome, counts
  <2>2. \A d \in Cells \ {c} : session'[d] = session[d] /\ phase'[d] = phase[d] /\ sent'[d] = sent[d]
    BY <2>1 DEF SendPart, TypeOK, SessionsOK, HistoryOK
  <2>3. /\ session[c].status # "queued" /\ session[c].required
        /\ session[c].error = "none" => calls[c] = 1 /\ verdict[c] = "none"
        /\ session[c].error = "none" \/ session[c].internal \/ session[c].response.length # 0
        /\ sent[c] + session[c].processing = session[c].response.length
        /\ announced[c] # Unasked /\ ~session[c].internal =>
             announced[c] = session[c].response.length
        /\ verdict[c] # "none" /\ failures' = 0 => session[c].error = verdict[c]
    BY <1>0, <2>1 DEF ReplyInv, OneSessionInv, NeedsInternalError
  <2>4. OneSessionInv(c)' /\ session'[c].status # "queued"
    BY <1>0, <2>1, <2>3, SendPartInv
  <2> QED BY <1>0, <2>1, <2>2, <2>3, <2>4, ReplyLocalInv
<1>3. ASSUME NEW f \in BOOLEAN, ReplyInternal(c, f)
      PROVE  ReceiveInv'
  <2> DEFINE s == FillInternalError(c, f)
  <2>1. /\ UNCHANGED << allocated, svc_receive, thread, ccfsm, given, calls, verdict,
                        announced, report >>
        /\ NeedsInternalError(c) /\ SendPart(c, s)
        /\ failures' = IF f THEN failures + 1 ELSE failures
    BY <1>3 DEF ReplyInternal
  <2>2. s \in Contexts
    BY FillType
  <2>3. /\ s.status = session[c].status /\ s.required = session[c].required /\ s.internal
        /\ s.processing = s.response.length
        /\ s.error = IF f THEN "insufficient_memory" ELSE session[c].error
    BY <1>0 DEF FillInternalError, Contexts, NoBuffer
  <2>4. \A d \in Cells \ {c} : session'[d] = session[d] /\ phase'[d] = phase[d] /\ sent'[d] = sent[d]
    BY <2>1 DEF SendPart, TypeOK, SessionsOK, HistoryOK
  <2> HIDE DEF s
  <2>5. /\ session[c].status # "queued" /\ session[c].required
        /\ session[c].error # "none" /\ sent[c] = 0
        /\ verdict[c] # "none" /\ failures = 0 => session[c].error = verdict[c]
    BY <1>0, <2>1 DEF ReplyInv, OneSessionInv, NeedsInternalError
  <2>6. OneSessionInv(c)' /\ session'[c].status # "queued"
    <3>1. sent[c] + s.processing = s.response.length
      BY <2>2, <2>3, <2>5 DEF Contexts
    <3>2. s.error # "none" /\ (verdict[c] # "none" /\ failures' = 0 => s.error = verdict[c])
      BY <1>0, <2>1, <2>3, <2>5
    <3> QED BY <1>0, <2>1, <2>2, <2>3, <2>5, <3>1, <3>2, SendPartInv
  <2>7. failures' >= failures
    BY <1>0, <2>1
  <2> QED BY <1>0, <2>1, <2>4, <2>5, <2>6, <2>7, ReplyLocalInv
<1>4. CASE ReplyCrashes(c)
  <2>1. /\ UNCHANGED << allocated, session, svc_receive, thread, phase, ccfsm, failures,
                        given, calls, verdict, announced, sent, report >>
    BY <1>4 DEF ReplyCrashes, outcome, counts, ghosts
  <2>2. OneSessionInv(c)'
    BY <1>0, <2>1, SessionKept DEF thread
  <2>3. session[c].status # "queued" /\ session'[c].status # "queued"
    BY <1>0, <2>1 DEF ReplyInv
  <2> QED BY <1>0, <2>1, <2>2, <2>3, ReplyLocalInv
<1> QED BY <1>1, <1>2, <1>3, <1>4 DEF Response

\* The status handler keeps the invariant unless the thread still uses the
\* context, and its report is honest.
LEMMA StatusInv ==
    ASSUME TypeOK, TypeOK', ReceiveInv, NEW c \in Cells, NEW st \in {"none"} \cup CloudErrors,
           Status(c, st), ~dangling'
    PROVE  ReceiveInv'
<1>1. /\ ~dangling /\ ~InThread(c) /\ phase[c] # "none" /\ (st = "none" => phase[c] = "status")
      /\ allocated' = allocated \ {c} /\ Forget(c)
      /\ phase' = [phase EXCEPT ![c] = "none"]
      /\ UNCHANGED << svc_receive, thread, ccfsm, counts >>
  BY DEF Status
<1>2. /\ SlotInv /\ SessionInv /\ FreshInv /\ ReportIsHonest /\ c \in allocated
      /\ allocated \subseteq Cells /\ failures \in Nat /\ failures' = failures
  BY <1>1 DEF ReceiveInv, TypeOK, SessionsOK, HistoryOK, counts
<1>3. \A d \in Cells \ {c} : /\ session'[d] = session[d] /\ phase'[d] = phase[d]
                             /\ given'[d] = given[d] /\ calls'[d] = calls[d]
                             /\ verdict'[d] = verdict[d] /\ sent'[d] = sent[d]
                             /\ announced'[d] = announced[d]
  BY <1>1 DEF Forget, TypeOK, SessionsOK, HistoryOK
<1>4. SlotInv'
  BY <1>1, <1>2, <1>3 DEF SlotInv, WithThread, Tokens, InHand, thread, InThread
<1>5. SessionInv'
  <2> SUFFICES ASSUME NEW d \in allocated \ {c} PROVE OneSessionInv(d)'
    BY <1>1 DEF SessionInv
  <2> QED BY <1>1, <1>2, <1>3, SessionKept DEF SessionInv, thread
<1>6. FreshInv'
  <2>1. Fresh(c)'
    BY <1>1 DEF Fresh, Forget, TypeOK, HistoryOK
  <2> QED BY <1>1, <1>2, <1>3, <2>1 DEF FreshInv, Fresh
<1>7. ReportIsHonest'
  <2>1. CASE report' = report
    BY <1>1, <1>2, <2>1 DEF ReportIsHonest
  <2>2. CASE report' = [made |-> TRUE, error |-> FinalError(c, st), final |-> st,
                        calls |-> calls[c], verdict |-> verdict[c]]
    <3>1. OneSessionInv(c)
      BY <1>2 DEF SessionInv
    <3>2. FinalError(c, st) = "none" => st = "none" /\ calls[c] = 1 /\ verdict[c] = "none"
      BY <1>1, <3>1 DEF FinalError, OneSessionInv, ReplyInv
    <3>3. verdict[c] # "none" /\ failures = 0 => FinalError(c, st) = verdict[c]
      BY <3>1 DEF FinalError, OneSessionInv
    <3> QED BY <1>2, <2>2, <3>2, <3>3 DEF ReportIsHonest
  <2> QED BY <2>1, <2>2 DEF Status
<1> QED BY <1>4, <1>5, <1>6, <1>7 DEF ReceiveInv

\* The receive thread keeps the invariant: it never fails its assertions, and
\* the context it updates is the one that is queued.
LEMMA ThreadInv ==
    ASSUME TypeOK, TypeOK', ReceiveInv, ThreadStep, ~dangling'
    PROVE  ReceiveInv'
<1>0. /\ SlotInv /\ SessionInv /\ FreshInv /\ ReportIsHonest /\ ~dangling
      /\ UNCHANGED << allocated, phase, ccfsm, failures, given, announced, sent, report >>
      /\ allocated \subseteq Cells /\ failures \in Nat
  <2>1. ASSUME NEW e \in UserErrors, NEW b \in Responses, ThreadReturn(e, b)
        PROVE  UNCHANGED << allocated, phase, ccfsm, failures, given, announced, sent, report,
                            dangling >>
    BY <2>1 DEF ThreadReturn, counts, outcome
  <2>2. ASSUME ThreadAcquire \/ ThreadExit \/ ThreadAssertFails \/ ThreadCall
               \/ ThreadUpdate \/ ThreadClear
        PROVE  UNCHANGED << allocated, phase, ccfsm, failures, given, announced, sent, report,
                            dangling >>
    BY <2>2 DEF ThreadAcquire, ThreadExit, ThreadAssertFails, ThreadEnds, ThreadCall,
                ThreadUpdate, ThreadClear, ghosts, counts, outcome
  <2>3. UNCHANGED << allocated, phase, ccfsm, failures, given, announced, sent, report, dangling >>
    BY <2>1, <2>2 DEF ThreadStep
  <2> QED BY <2>3 DEF ReceiveInv, TypeOK, SessionsOK, HistoryOK
<1>1. ReportIsHonest'
  BY <1>0 DEF ReportIsHonest
<1>2. CASE ThreadAcquire \/ ThreadExit \/ ThreadAssertFails \/ ThreadClear
  <2>1. UNCHANGED << session, calls, verdict >>
    BY <1>2 DEF ThreadAcquire, ThreadExit, ThreadAssertFails, ThreadEnds, ThreadClear, ghosts
  <2>2. SlotInv'
    <3>1. CASE ThreadAcquire
      <4>1. /\ pc = "acquire" /\ pc' = "check" /\ lock' = lock - 1 /\ lock \in Nat
            /\ UNCHANGED << svc_receive, status, session >>
        BY <3>1 DEF ThreadAcquire, TypeOK, ThreadOK
      <4>2. Tokens' = Tokens /\ (WithThread' <=> WithThread)
        BY <4>1 DEF Tokens, WithThread, InHand
      <4> QED BY <1>0, <4>1, <4>2 DEF SlotInv
    <3>2. CASE ThreadExit
      BY <1>0, <3>2 DEF ThreadExit, ThreadEnds, SlotInv, WithThread, Tokens, InHand
    <3>3. CASE ThreadAssertFails
      BY <1>0, <3>3 DEF ThreadAssertFails, ThreadEnds, SlotInv, WithThread, Tokens, InHand,
                        TypeOK, ThreadOK
    <3>4. CASE ThreadClear
      BY <1>0, <3>4 DEF ThreadClear, SlotInv, WithThread, Tokens, InHand, TypeOK, ThreadOK
    <3> QED BY <1>2, <3>1, <3>2, <3>3, <3>4
  <2>3. SessionInv'
    <3> SUFFICES ASSUME NEW d \in allocated PROVE OneSessionInv(d)'
      BY <1>0 DEF SessionInv
    <3>1. /\ session[d].status = "queued" => WithThread
          /\ pc \in {"callback", "update"} => pc' = pc
          /\ pc' \in {"callback", "update"} => pc' = pc
      BY <1>0, <1>2 DEF SlotInv, ThreadAcquire, ThreadExit, ThreadAssertFails, ThreadEnds,
                        ThreadClear
    <3>2. (CallbackMade(d)' <=> CallbackMade(d)) /\ (Answered(d)' <=> Answered(d))
      BY <2>1, <3>1 DEF CallbackMade, Answered
    <3> QED BY <1>0, <2>1, <3>2
            DEF SessionInv, OneSessionInv, DataInv, ReplyInv, NeedsInternalError, Fits
  <2>4. FreshInv'
    BY <1>0, <2>1 DEF FreshInv, Fresh
  <2> QED BY <1>1, <2>2, <2>3, <2>4 DEF ReceiveInv
<1>3. ASSUME NEW d \in allocated, d # svc_receive, session'[d] = session[d],
             calls'[d] = calls[d], verdict'[d] = verdict[d]
      PROVE  OneSessionInv(d)'
  <2>1. session[d].status # "queued" /\ d \in Cells
    BY <1>0, <1>3 DEF SlotInv
  <2> QED BY <1>0, <1>3, <2>1, SessionKept DEF SessionInv
<1>4. ASSUME svc_receive \in allocated, session[svc_receive].status = "queued"
      PROVE  phase[svc_receive] = "data" /\ DataInv(svc_receive)
  BY <1>0, <1>4 DEF SessionInv, OneSessionInv, ReplyInv
<1>5. CASE ThreadCall
  <2>1. /\ svc_receive \in allocated /\ session[svc_receive].status = "queued" /\ svc_receive # NULL
        /\ pc = "check" /\ pc' = "callback" /\ held' = svc_receive
    BY <1>0, <1>5, CellsAssumption
       DEF ThreadCall, SlotInv, WithThread, Tokens, InHand, TypeOK, ThreadOK, SessionsOK
  <2>2. /\ UNCHANGED << session, svc_receive, status, lock, verdict >>
        /\ calls' = [calls EXCEPT ![svc_receive] = @ + 1]
    BY <1>5, <2>1 DEF ThreadCall
  <2>3. SlotInv'
    BY <1>0, <2>1, <2>2 DEF SlotInv, WithThread, Tokens, InHand
  <2>4. calls'[svc_receive] = 1 /\ \A d \in Cells \ {svc_receive} : calls'[d] = calls[d]
    BY <1>0, <1>4, <2>1, <2>2 DEF DataInv, CallbackMade, TypeOK, HistoryOK
  <2>5. OneSessionInv(svc_receive)'
    BY <1>0, <1>4, <2>1, <2>2, <2>4 DEF OneSessionInv, DataInv, CallbackMade, Answered, Fits
  <2>6. SessionInv'
    BY <1>0, <1>3, <2>2, <2>4, <2>5 DEF SessionInv
  <2>7. FreshInv'
    BY <1>0, <2>1, <2>2, <2>4 DEF FreshInv, Fresh
  <2> QED BY <1>1, <2>3, <2>6, <2>7 DEF ReceiveInv
<1>6. ASSUME NEW e \in UserErrors, NEW b \in Responses, ThreadReturn(e, b)
      PROVE  ReceiveInv'
  <2>1. /\ svc_receive \in allocated /\ session[svc_receive].status = "queued"
        /\ held = svc_receive /\ pc = "callback" /\ pc' = "update" /\ svc_receive # NULL
        /\ UNCHANGED << svc_receive, status, lock, held, calls >>
    BY <1>0, <1>6 DEF ThreadReturn, SlotInv, WithThread
  <2> DEFINE x == IF wants THEN b ELSE session[held].response
  <2>2. /\ session' = [session EXCEPT ![held] =
                         [session[held] EXCEPT !.error = e, !.response = x]]
        /\ verdict' = [verdict EXCEPT ![held] = e]
    BY <1>6, <2>1 DEF ThreadReturn
  <2> HIDE DEF x
  <2>3. held \in Cells /\ session[held] \in Contexts
    BY <1>0, <2>1 DEF TypeOK, SessionsOK
  <2>4. /\ session'[held] = [session[held] EXCEPT !.error = e, !.response = x]
        /\ verdict'[held] = e
        /\ \A d \in Cells \ {held} : session'[d] = session[d] /\ verdict'[d] = verdict[d]
    BY <2>2, <2>3 DEF TypeOK, SessionsOK, HistoryOK
  <2>5. /\ session'[held].error = e /\ session'[held].status = "queued"
        /\ session'[held].length = session[held].length
        /\ session'[held].buffer = session[held].buffer
        /\ session'[held].max_request_size = session[held].max_request_size
        /\ session'[held].internal = session[held].internal
        /\ session'[held].processing = session[held].processing
    BY <2>1, <2>3, <2>4 DEF Contexts
  <2>6. SlotInv'
    BY <1>0, <2>1, <2>4, <2>5 DEF SlotInv, WithThread, Tokens, InHand
  <2>7. OneSessionInv(held)'
    BY <1>0, <1>4, <2>1, <2>4, <2>5 DEF OneSessionInv, DataInv, CallbackMade, Answered, Fits
  <2>8. SessionInv'
    BY <1>0, <1>3, <2>1, <2>4, <2>7 DEF SessionInv
  <2>9. FreshInv'
    BY <1>0, <2>1, <2>4 DEF FreshInv, Fresh
  <2> QED BY <1>1, <2>6, <2>8, <2>9 DEF ReceiveInv
<1>7. CASE ThreadUpdate
  <2>1. /\ svc_receive \in allocated /\ session[svc_receive].status = "queued"
        /\ held = svc_receive /\ pc = "update" /\ pc' = "clear" /\ svc_receive # NULL
        /\ UNCHANGED << svc_receive, status, lock, held, calls, verdict >>
    BY <1>0, <1>7 DEF ThreadUpdate, SlotInv, WithThread, ghosts
  <2>2. session' = [session EXCEPT ![held].status = "processed"]
    BY <1>7, <2>1 DEF ThreadUpdate
  <2>3. held \in Cells /\ session[held] \in Contexts
    BY <1>0, <2>1 DEF TypeOK, SessionsOK
  <2>4. /\ session'[held] = [session[held] EXCEPT !.status = "processed"]
        /\ \A d \in Cells \ {held} : session'[d] = session[d]
    BY <2>2, <2>3 DEF TypeOK, SessionsOK
  <2>5. /\ session'[held].status = "processed"
        /\ session'[held].error = session[held].error
        /\ session'[held].length = session[held].length
        /\ session'[held].buffer = session[held].buffer
        /\ session'[held].max_request_size = session[held].max_request_size
        /\ session'[held].internal = session[held].internal
        /\ session'[held].processing = session[held].processing
    BY <2>3, <2>4 DEF Contexts
  <2>6. SlotInv'
    <3>1. ccfsm => status = "running" /\ Tokens = 1
      BY <1>0, <2>1 DEF SlotInv, WithThread
    <3>2. ccfsm => lock = 0 /\ lock' = 0
      BY <2>1, <3>1 DEF Tokens, InHand, TypeOK, ThreadOK
    <3>3. ccfsm => Tokens' = 0 /\ ~WithThread'
      BY <2>1, <3>2 DEF Tokens, InHand, WithThread
    <3>4. ASSUME NEW d \in allocated PROVE session'[d].status # "queued"
      <4>1. session[d].status = "queued" => d = held
        BY <1>0, <2>1 DEF SlotInv
      <4>2. d # held => session'[d] = session[d]
        BY <1>0, <2>4
      <4> QED BY <2>5, <4>1, <4>2
    <3> QED BY <1>0, <2>1, <3>1, <3>3, <3>4 DEF SlotInv, WithThread
  <2>7. OneSessionInv(held)'
    BY <1>0, <1>4, <2>1, <2>5 DEF OneSessionInv, DataInv, CallbackMade, Answered, Fits
  <2>8. SessionInv'
    BY <1>0, <1>3, <2>1, <2>4, <2>7 DEF SessionInv
  <2>9. FreshInv'
    BY <1>0, <2>1 DEF FreshInv, Fresh
  <2> QED BY <1>1, <2>6, <2>8, <2>9 DEF ReceiveInv
<1> QED BY <1>2, <1>5, <1>6, <1>7 DEF ThreadStep

\* Every step keeps the invariant.
LEMMA ReceiveNext ==
    TypeOK /\ TypeOK' /\ ReceiveInv /\ [Next]_vars => ReceiveInv'
<1> SUFFICES ASSUME TypeOK, TypeOK', ReceiveInv, [Next]_vars, ~dangling' PROVE ReceiveInv'
  BY DEF ReceiveInv
<1>1. ASSUME NEW c \in Cells, Target(c) \/ Data(c) \/ Response(c)
      PROVE  ReceiveInv'
  BY <1>1, TargetInv, DataHandlerInv, ResponseInv
<1>2. ASSUME NEW c \in Cells, NEW st \in {"none"} \cup CloudErrors, Status(c, st)
      PROVE  ReceiveInv'
  BY <1>2, StatusInv
<1>3. CASE ThreadStep
  BY <1>3, ThreadInv
<1>4. CASE StopThread
  <2>1. /\ UNCHANGED << allocated, session, svc_receive, pc, held, phase, failures, given, calls,
                        verdict, announced, sent, report, dangling >>
        /\ ccfsm /\ ~ccfsm' /\ status' = IF status = "running" THEN "request_stop" ELSE status
    BY <1>4 DEF StopThread, CCFSMRuns, ghosts, counts, outcome
  <2>2. SlotInv /\ SessionInv /\ FreshInv /\ ReportIsHonest /\ allocated \subseteq Cells
        /\ failures \in Nat
    BY <2>1 DEF ReceiveInv, TypeOK, SessionsOK, HistoryOK
  <2>3. SlotInv'
    BY <2>1, <2>2 DEF SlotInv, WithThread
  <2>4. SessionInv'
    BY <2>1, <2>2, SessionKept DEF SessionInv
  <2>5. FreshInv' /\ ReportIsHonest'
    BY <2>1, <2>2 DEF FreshInv, Fresh, ReportIsHonest
  <2> QED BY <2>3, <2>4, <2>5 DEF ReceiveInv
<1>5. CASE UNCHANGED vars
  BY <1>5 DEF vars, thread, ghosts, counts, outcome, ReceiveInv, SlotInv, SessionInv, FreshInv,
              Fresh, ReportIsHonest, WithThread, Tokens, InHand, OneSessionInv, DataInv, ReplyInv,
              NeedsInternalError, Fits, CallbackMade, Answered
<1> QED BY <1>1, <1>2, <1>3, <1>4, <1>5 DEF Next

\* The inductive invariant holds in every behaviour.
LEMMA ReceiveInvariant == Spec => []ReceiveInv
<1> QED BY TypeCorrect, ReceiveInit, ReceiveNext, PTL DEF Spec

-----------------------------------------------------------------------------
(***************************************************************************)
(* The assertions of ccapi_receive_thread (lines 44 and 45) hold whenever  *)
(* no context was freed under the thread: the slot holds one session, and  *)
(* it is queued.                                                           *)
(***************************************************************************)
THEOREM SlotCorrect == Spec => []SlotIsQueued
<1>1. TypeOK /\ ReceiveInv => SlotIsQueued
  BY DEF TypeOK, ThreadOK, ReceiveInv, SlotInv, SlotIsQueued, WithThread, Tokens, InHand
<1> QED BY <1>1, TypeCorrect, ReceiveInvariant, PTL

(***************************************************************************)
(* The application's data callback is called once for a session, with all  *)
(* the bytes CCFSM delivered, no more than the target's limit, and the     *)
(* buffer stays while it runs.                                             *)
(***************************************************************************)
THEOREM RequestCorrect == Spec => []RequestIsWhole
<1>1. TypeOK /\ ReceiveInv => RequestIsWhole
  <2> SUFFICES ASSUME TypeOK, ReceiveInv, ~dangling, pc = "callback"
               PROVE  /\ held \in allocated /\ phase[held] = "data"
                      /\ session[held].length = given[held]
                      /\ session[held].buffer = "held"
                      /\ calls[held] = 1
                      /\ session[held].max_request_size # NoLimit =>
                           session[held].length <= session[held].max_request_size
    BY DEF RequestIsWhole
  <2>1. held \in allocated /\ session[held].status = "queued"
    BY DEF ReceiveInv, SlotInv, WithThread
  <2>2. phase[held] = "data" /\ DataInv(held)
    BY <2>1 DEF ReceiveInv, SessionInv, OneSessionInv, ReplyInv
  <2> QED BY <2>1, <2>2 DEF DataInv, CallbackMade, Fits
<1> QED BY <1>1, TypeCorrect, ReceiveInvariant, PTL

(***************************************************************************)
(* At the end of a session all of the reply was sent, once, in whatever    *)
(* parts CCFSM asked for it.                                               *)
(***************************************************************************)
THEOREM ReplyCorrect == Spec => []ReplyIsAnswer
<1>1. TypeOK /\ ReceiveInv => ReplyIsAnswer
  <2> SUFFICES ASSUME TypeOK, ReceiveInv, ~dangling, NEW c \in allocated, phase[c] = "status"
               PROVE  /\ session[c].required => sent[c] = session[c].response.length
                      /\ session[c].required /\ announced[c] # Unasked /\ ~session[c].internal =>
                           announced[c] = sent[c]
                      /\ session[c].error = "none" => calls[c] = 1 /\ verdict[c] = "none"
    BY DEF ReplyIsAnswer
  <2>1. ReplyInv(c) /\ sent[c] \in Nat
    BY DEF ReceiveInv, SessionInv, OneSessionInv, TypeOK, SessionsOK, HistoryOK
  <2>2. session[c].required => sent[c] = session[c].response.length
    BY <2>1 DEF ReplyInv
  <2> QED BY <2>1, <2>2 DEF ReplyInv
<1> QED BY <1>1, TypeCorrect, ReceiveInvariant, PTL

(***************************************************************************)
(* The status callback is told of success only for a session whose request *)
(* the application accepted and that CCFSM completed, and of the           *)
(* application's own error before the cloud's.                             *)
(***************************************************************************)
THEOREM ReportCorrect == Spec => []ReportIsHonest
<1>1. ReceiveInv => ReportIsHonest
  BY DEF ReceiveInv, ReportIsHonest
<1> QED BY <1>1, ReceiveInvariant, PTL

-----------------------------------------------------------------------------
(***************************************************************************)
(* A response of the application is held by a session that requires one    *)
(* and has not been answered by CCAPI itself, and an error of that session *)
(* is the application's own; so only an empty response given with an error *)
(* can be lost.                                                            *)
(***************************************************************************)
Owed(c) ==
    session[c].response.owner = "user" =>
        /\ session[c].required /\ ~session[c].internal
        /\ session[c].error # "none" => verdict[c] # "none"

OwedInv ==
    ~dangling =>
        /\ \A response \in lost : response.length = 0 /\ response.verdict # "none"
        /\ \A c \in allocated : Owed(c)
        /\ pc = "callback" /\ held \in allocated /\ wants => session[held].required

\* The data handlers do not touch responses; a new session has none.
LEMMA OwedData ==
    ASSUME TypeOK, OwedInv, NEW c \in Cells, Target(c) \/ Data(c), ~dangling,
           ReceiveInv
    PROVE  OwedInv'
<1> USE DEF TypeOK, SessionsOK
<1>1. UNCHANGED << lost, dangling, pc, held, wants, verdict >>
  BY DEF Target, Data, TargetNoMemory, TargetRefused, TargetAccepted, OpenSession, DataTooBig,
         DataNoMemory, DataFails, DataStored, DataQueued, DataProcessed, thread, outcome, ghosts
<1>2. CASE Target(c)
  <2>1. PICK s \in Contexts : /\ c \notin allocated /\ allocated' = allocated \cup {c}
                              /\ session' = [session EXCEPT ![c] = s]
                              /\ s.response = NoBuffer
    <3>1. PICK required \in BOOLEAN, registered \in BOOLEAN :
            \/ TargetNoMemory(c, required)
            \/ TargetRefused(c, required, registered)
            \/ TargetAccepted(c, required, registered)
      BY <1>2 DEF Target
    <3>2. \E s : /\ c \notin allocated /\ allocated' = allocated \cup {c}
                 /\ session' = [session EXCEPT ![c] = s]
                 /\ s.response = NoBuffer
      <4>1. CASE TargetNoMemory(c, required)
        <5> DEFINE s == [NewSession(required) EXCEPT !.target = FALSE, !.error = "insufficient_memory"]
        <5>1. s.response = NoBuffer
          BY DEF NewSession
        <5>2. c \notin allocated /\ allocated' = allocated \cup {c} /\ session' = [session EXCEPT ![c] = s]
          BY <4>1 DEF TargetNoMemory, OpenSession
        <5> HIDE DEF s
        <5> QED BY <5>1, <5>2
      <4>2. CASE TargetRefused(c, required, registered)
        <5>0. PICK e \in TargetRefusal(registered) :
                OpenSession(c, [NewSession(required) EXCEPT !.error = e], AfterData(required))
          BY <4>2 DEF TargetRefused
        <5> DEFINE s == [NewSession(required) EXCEPT !.error = e]
        <5>1. s.response = NoBuffer
          BY DEF NewSession
        <5>2. c \notin allocated /\ allocated' = allocated \cup {c} /\ session' = [session EXCEPT ![c] = s]
          BY <5>0 DEF OpenSession
        <5> HIDE DEF s
        <5> QED BY <5>1, <5>2
      <4>3. CASE TargetAccepted(c, required, registered)
        <5> DEFINE s == [NewSession(required) EXCEPT !.max_request_size =
                             IF registered THEN MaxRequestSize ELSE NoLimit]
        <5>1. s.response = NoBuffer
          BY DEF NewSession
        <5>2. c \notin allocated /\ allocated' = allocated \cup {c} /\ session' = [session EXCEPT ![c] = s]
          BY <4>3 DEF TargetAccepted, OpenSession
        <5> HIDE DEF s
        <5> QED BY <5>1, <5>2
      <4> QED BY <3>1, <4>1, <4>2, <4>3
    <3>3. session' \in [Cells -> Contexts]
      BY <1>2, TargetType
    <3> QED BY <3>2, <3>3
  <2>2. \A d \in allocated : session'[d] = session[d]
    BY <2>1
  <2>3. Owed(c)'
    BY <2>1 DEF Owed, NoBuffer
  <2>4. held \in Cells \ allocated => pc # "callback"
    BY DEF ReceiveInv, SlotInv, WithThread
  <2> QED BY <1>1, <2>1, <2>2, <2>3, <2>4 DEF OwedInv, Owed
<1>3. CASE Data(c)
  <2>1. /\ c \in allocated /\ UNCHANGED allocated
        /\ \A d \in Cells : /\ session'[d].response = session[d].response
                            /\ session'[d].required = session[d].required
                            /\ session'[d].internal = session[d].internal
        /\ \A d \in Cells : session[d].response.owner = "user" =>
                                session'[d].error = session[d].error
    <3>1. c \in allocated /\ UNCHANGED allocated
      BY <1>3 DEF Data, DataTooBig, DataNoMemory, DataFails, DataStored, DataQueued,
                  DataProcessed, ServeData
    <3>2. \/ \E e : session' = [session EXCEPT ![c] =
                               [session[c] EXCEPT !.error = e, !.status = "free"]]
          \/ \E l, st : session' = [session EXCEPT ![c] =
                [session[c] EXCEPT !.length = l, !.buffer = "held", !.status = st]]
          \/ session' = [session EXCEPT ![c].status = "queued"]
          \/ \E l : session' = [session EXCEPT ![c] =
                [session[c] EXCEPT !.buffer = "freed", !.status = "free", !.processing = l]]
      <4>1. CASE \E n \in PacketSizes : DataTooBig(c, n) \/ DataNoMemory(c, n)
        BY <4>1 DEF DataTooBig, DataNoMemory, DataFails
      <4>2. CASE \E n \in PacketSizes, more \in BOOLEAN : DataStored(c, n, more)
        BY <4>2 DEF DataStored
      <4>3. CASE DataQueued(c)
        BY <4>3 DEF DataQueued
      <4>4. CASE DataProcessed(c)
        BY <4>4 DEF DataProcessed
      <4> QED BY <1>3, <4>1, <4>2, <4>3, <4>4 DEF Data
    <3>3. session[c] \in Contexts
      OBVIOUS
    <3>4. ASSUME NEW x, x.response = session[c].response, x.required = session[c].required,
                 x.internal = session[c].internal, session' = [session EXCEPT ![c] = x]
          PROVE  \A d \in Cells : /\ session'[d].response = session[d].response
                                  /\ session'[d].required = session[d].required
                                  /\ session'[d].internal = session[d].internal
      BY <3>4
    <3>6. \A d \in Cells : session[d].response.owner = "user" =>
                               session'[d].error = session[d].error
      <4>1. CASE \E n \in PacketSizes : DataTooBig(c, n) \/ DataNoMemory(c, n)
        <5>1. phase[c] = "data" /\ session[c].status = "idle" /\ c \in allocated
          BY <4>1 DEF DataTooBig, DataNoMemory, ServeData
        <5>2. session[c].response = NoBuffer
          BY <5>1 DEF ReceiveInv, SessionInv, OneSessionInv, DataInv, Answered
        <5>3. \A d \in Cells \ {c} : session'[d] = session[d]
          BY <4>1 DEF DataTooBig, DataNoMemory, DataFails
        <5> QED BY <5>2, <5>3 DEF NoBuffer
      <4>2. CASE \E n \in PacketSizes, more \in BOOLEAN : DataStored(c, n, more)
        BY <4>2, <3>3 DEF DataStored, Contexts
      <4>3. CASE DataQueued(c)
        BY <4>3, <3>3 DEF DataQueued, Contexts
      <4>4. CASE DataProcessed(c)
        BY <4>4, <3>3 DEF DataProcessed, Contexts
      <4> QED BY <1>3, <4>1, <4>2, <4>3, <4>4 DEF Data
    <3>5. \E x : /\ x.response = session[c].response /\ x.required = session[c].required
                 /\ x.internal = session[c].internal /\ session' = [session EXCEPT ![c] = x]
      <4> DEFINE Same(x) == /\ x.response = session[c].response
                            /\ x.required = session[c].required
                            /\ x.internal = session[c].internal
      <4>1. ASSUME NEW e PROVE Same([session[c] EXCEPT !.error = e, !.status = "free"])
        BY <3>3 DEF Contexts
      <4>2. ASSUME NEW l, NEW st
            PROVE  Same([session[c] EXCEPT !.length = l, !.buffer = "held", !.status = st])
        BY <3>3 DEF Contexts
      <4>3. Same([session[c] EXCEPT !.status = "queued"])
        BY <3>3 DEF Contexts
      <4>4. ASSUME NEW l
            PROVE  Same([session[c] EXCEPT !.buffer = "freed", !.status = "free",
                                           !.processing = l])
        BY <3>3 DEF Contexts
      <4>5. session' = [session EXCEPT ![c].status = "queued"]
              => session' = [session EXCEPT ![c] = [session[c] EXCEPT !.status = "queued"]]
        OBVIOUS
      <4>6. \E x : Same(x) /\ session' = [session EXCEPT ![c] = x]
        <5> HIDE DEF Same
        <5> QED BY <3>2, <4>1, <4>2, <4>3, <4>4, <4>5
      <4> QED BY <4>6
    <3> QED BY <3>1, <3>4, <3>5, <3>6
  <2> QED BY <1>1, <2>1 DEF OwedInv, Owed
<1> QED BY <1>2, <1>3

\* CCAPI answers for itself only when the application gave nothing to send: it
\* loses at most an empty response given with an error.
LEMMA OwedResponse ==
    ASSUME TypeOK, OwedInv, NEW c \in Cells, Response(c), ~dangling
    PROVE  OwedInv'
<1> USE DEF TypeOK, SessionsOK
<1>1. UNCHANGED << allocated, dangling, pc, held, wants, verdict >>
  BY DEF Response, ReplyLength, Reply, ReplyInternal, ReplyCrashes, thread, outcome, ghosts
<1>2. CASE ReplyLength(c) \/ ReplyCrashes(c)
  <2>1. UNCHANGED << session, lost >>
    BY <1>2 DEF ReplyLength, ReplyCrashes, outcome, ghosts
  <2> QED BY <1>1, <2>1 DEF OwedInv, Owed
<1>3. CASE Reply(c)
  <2>1. /\ lost' = lost
        /\ \A d \in Cells : /\ session'[d].response = session[d].response
                            /\ session'[d].required = session[d].required
                            /\ session'[d].internal = session[d].internal
                            /\ session'[d].error = session[d].error
    BY <1>3 DEF Reply, SendPart, outcome, Contexts
  <2> QED BY <1>1, <2>1 DEF OwedInv, Owed
<1>4. ASSUME NEW fails \in BOOLEAN, ReplyInternal(c, fails) PROVE OwedInv'
  <2>1. /\ c \in allocated /\ session[c].response.length = 0
        /\ session[c].error # "none" /\ lost' = lost \cup Losable(c)
    BY <1>4 DEF ReplyInternal, NeedsInternalError
  <2>2. session[c].response.owner = "user" => verdict[c] # "none"
    BY <2>1 DEF OwedInv, Owed
  <2>3. \A response \in lost' : response.length = 0 /\ response.verdict # "none"
    BY <2>1, <2>2 DEF Losable, OwedInv
  <2>4. /\ session'[c].response.owner # "user"
        /\ session'[c].required = session[c].required
        /\ \A d \in Cells \ {c} : session'[d] = session[d]
    BY <1>4 DEF ReplyInternal, SendPart, FillInternalError, NoBuffer, Contexts
  <2> QED BY <1>1, <2>1, <2>3, <2>4 DEF OwedInv, Owed
<1> QED BY <1>2, <1>3, <1>4 DEF Response

\* What the application returns goes to the session that asked for it, which
\* CCAPI has not answered.
LEMMA OwedThread ==
    ASSUME TypeOK, ReceiveInv, OwedInv, ThreadStep, ~dangling
    PROVE  OwedInv'
<1> USE DEF TypeOK, SessionsOK, ThreadOK
<1>1. UNCHANGED << allocated, lost, dangling >>
  BY DEF ThreadStep, ThreadAcquire, ThreadExit, ThreadAssertFails, ThreadEnds, ThreadCall,
         ThreadReturn, ThreadUpdate, ThreadClear, outcome, ghosts
<1>2. CASE ThreadAcquire \/ ThreadExit \/ ThreadAssertFails \/ ThreadClear
  <2>1. session' = session /\ verdict' = verdict /\ pc' # "callback"
    BY <1>2 DEF ThreadAcquire, ThreadExit, ThreadAssertFails, ThreadEnds, ThreadClear, ghosts
  <2> QED BY <1>1, <2>1 DEF OwedInv, Owed
<1>3. CASE ThreadCall
  <2>1. session' = session /\ verdict' = verdict /\ held' = svc_receive
        /\ (svc_receive \in allocated => wants' = session[svc_receive].required)
    BY <1>3 DEF ThreadCall
  <2> QED BY <1>1, <2>1 DEF OwedInv, Owed
<1>4. ASSUME NEW e \in UserErrors, NEW b \in Responses, ThreadReturn(e, b) PROVE OwedInv'
  <2>1. /\ pc = "callback" /\ pc' # "callback" /\ (b # NoBuffer => wants)
        /\ held' = held /\ held \in Cells /\ b.owner \in {"user", "nobody"}
    BY <1>4 DEF ThreadReturn, Responses, NoBuffer
  <2>2. held \in allocated /\ phase[held] = "data" /\ ~session[held].internal
    <3>1. held = svc_receive /\ held \in allocated /\ session[held].status = "queued"
      BY <2>1 DEF ReceiveInv, SlotInv, WithThread
    <3> QED BY <3>1 DEF ReceiveInv, SessionInv, OneSessionInv, ReplyInv, DataInv
  <2>3. session' = [session EXCEPT ![held] =
                     [session[held] EXCEPT !.error = e,
                       !.response = IF wants THEN b ELSE session[held].response]]
        /\ verdict' = [verdict EXCEPT ![held] = e]
    BY <1>4, <2>2 DEF ThreadReturn
  <2>4. /\ \A d \in Cells \ {held} : session'[d] = session[d] /\ verdict'[d] = verdict[d]
        /\ session'[held].error = e /\ verdict'[held] = e
        /\ session'[held].response = (IF wants THEN b ELSE session[held].response)
        /\ session'[held].required = session[held].required
        /\ session'[held].internal = session[held].internal
    BY <2>1, <2>3 DEF Contexts, HistoryOK
  <2>5. Owed(held)'
    BY <2>1, <2>2, <2>4 DEF Owed, OwedInv
  <2> QED BY <1>1, <2>1, <2>2, <2>4, <2>5 DEF OwedInv, Owed
<1>5. CASE ThreadUpdate
  <2>1. /\ pc' # "callback" /\ verdict' = verdict
        /\ \A d \in Cells : /\ session'[d].response = session[d].response
                            /\ session'[d].required = session[d].required
                            /\ session'[d].internal = session[d].internal
                            /\ session'[d].error = session[d].error
    BY <1>5 DEF ThreadUpdate, Contexts, ghosts
  <2> QED BY <1>1, <2>1 DEF OwedInv, Owed
<1> QED BY <1>2, <1>3, <1>4, <1>5 DEF ThreadStep

\* Every step keeps the responses owed.
LEMMA OwedNext ==
    TypeOK /\ ReceiveInv /\ OwedInv /\ [Next]_vars => OwedInv'
<1> SUFFICES ASSUME TypeOK, ReceiveInv, OwedInv, [Next]_vars, ~dangling' PROVE OwedInv'
  BY DEF OwedInv
<1>1. ~dangling
  <2>1. ASSUME NEW c \in Cells, Target(c) PROVE dangling' = dangling
    BY <2>1 DEF Target, TargetNoMemory, TargetRefused, TargetAccepted, OpenSession, outcome
  <2>2. ASSUME NEW c \in Cells, Data(c) PROVE dangling' = dangling
    BY <2>2 DEF Data, DataTooBig, DataNoMemory, DataFails, DataStored, DataQueued, DataProcessed,
                outcome
  <2>3. ASSUME NEW c \in Cells, Response(c) PROVE dangling' = dangling
    BY <2>3 DEF Response, ReplyLength, Reply, ReplyInternal, ReplyCrashes, outcome
  <2>4. ASSUME NEW c \in Cells, NEW st \in {"none"} \cup CloudErrors, Status(c, st)
        PROVE  dangling => dangling'
    BY <2>4 DEF Status
  <2>5. CASE ThreadStep \/ StopThread \/ UNCHANGED vars
    BY <2>5 DEF ThreadStep, ThreadAcquire, ThreadExit, ThreadAssertFails, ThreadEnds, ThreadCall,
                ThreadReturn, ThreadUpdate, ThreadClear, StopThread, vars, outcome
  <2> QED BY <2>1, <2>2, <2>3, <2>4, <2>5 DEF Next
<1>2. ASSUME NEW c \in Cells, Target(c) \/ Data(c) \/ Response(c) PROVE OwedInv'
  BY <1>2, <1>1, OwedData, OwedResponse
<1>3. ASSUME NEW c \in Cells, NEW st \in {"none"} \cup CloudErrors, Status(c, st) PROVE OwedInv'
  <2>1. c \in allocated /\ allocated' = allocated \ {c} /\ UNCHANGED << pc, held, wants >>
    BY <1>3 DEF Status, TypeOK, SessionsOK, thread
  <2>2. lost' = lost
    BY <1>1, <1>3, <2>1 DEF Status, ShouldUserFree, Losable, OwedInv, Owed, TypeOK, HistoryOK
  <2>3. \A d \in allocated' : session'[d] = session[d] /\ verdict'[d] = verdict[d]
    BY <1>3, <2>1 DEF Status, Forget, TypeOK, SessionsOK, HistoryOK
  <2> QED BY <1>1, <2>1, <2>2, <2>3 DEF OwedInv, Owed
<1>4. CASE ThreadStep
  BY <1>4, <1>1, OwedThread
<1>5. CASE StopThread \/ UNCHANGED vars
  <2>1. UNCHANGED << allocated, session, pc, held, wants, verdict, lost, dangling >>
    BY <1>5 DEF StopThread, vars, outcome, thread, ghosts
  <2> QED BY <2>1 DEF OwedInv, Owed
<1> QED BY <1>2, <1>3, <1>4, <1>5 DEF Next

(***************************************************************************)
(* Every response the application allocated comes back to it through the   *)
(* status callback, for any number of sessions, sizes (0 among them) and   *)
(* parts and whatever the application returns, until a context is freed    *)
(* under the thread; but for an empty response given with an error, which  *)
(* CCAPI's own answer overwrites.                                          *)
(***************************************************************************)
THEOREM ResponsesCorrect == Spec => []ResponseComesBack
<1>1. Init => OwedInv
  BY DEF Init, OwedInv
<1>2. OwedInv => ResponseComesBack
  BY DEF OwedInv, ResponseComesBack
<1>3. TypeOK /\ ReceiveInv /\ OwedInv /\ [Next]_vars => OwedInv'
  BY OwedNext
<1> QED BY <1>1, <1>2, <1>3, TypeCorrect, ReceiveInvariant, PTL DEF Spec

(***************************************************************************)
(* Proofs about ReceiveTargets, for every number of threads of the         *)
(* application, names, entries and failures.                               *)
(*                                                                         *)
(* The invariant is about the list as it is once the place that a removal  *)
(* is working on is mended (Chain, Root): each entry of it is alive and    *)
(* one pointer leads to it (ListIsChain), and all other entries have an    *)
(* owner (Accounted).  A call that no removal overlaps is at a place of    *)
(* that list, has before it the target it looks for if that was there,     *)
(* and behind it none of the name it adds (PlaceFits, LookupFits); what it *)
(* decided stays so until it holds the lock (DecisionFits).                *)
(***************************************************************************)

\* The place is being mended: the entry it points to was freed, and is taken out next.
Mends(p) == receive_lock \in Thread /\ call[receive_lock].pc = "relink" /\ call[receive_lock].place = p
Mending == \E p \in Cell \cup {Head} : Mends(p)

\* The list as it is when the place is mended.
Root == IF Mends(Head) THEN call[receive_lock].next ELSE head
Chain == [c \in Cell |-> IF Mends(c) THEN call[receive_lock].next ELSE entry[c].next]
Entries == Reach(Chain, Root)

CallTypes ==
  [pc : {"idle", "walk", "found", "acquire", "change", "relink", "release"},
   op : {"none", "add", "remove", "serve"}, name : Name \cup {Null}, place : Cell \cup {Head},
   new : Cell \cup {Null}, next : Cell \cup {Null}, met : {"nothing", "add", "removal"},
   twin : BOOLEAN, due : BOOLEAN]

\* Calls have the type of calls, the lock is held by the one that changes the
\* list, and an entry that is not freed has a name.
Shape ==
  /\ call \in [Thread -> CallTypes]
  /\ \A t \in Thread :
       /\ call[t].pc \in {"walk", "found", "acquire", "change"} => call[t].op # "none" /\ call[t].name \in Name
       /\ call[t].pc \in {"acquire", "change"} => call[t].op # "serve"
       /\ call[t].pc \in {"change", "relink", "release"} => receive_lock = t
       /\ call[t].new # Null <=> call[t].pc \in {"acquire", "change"} /\ call[t].op = "add"
  /\ \A c \in Cell : Live(c) => entry[c].name \in Name
  /\ stopped \in BOOLEAN /\ wrong \in BOOLEAN

\* One pointer leads to each entry of the list, and only the list's pointers lead
\* to entries.
ListIsChain ==
  /\ \A c \in Entries : Live(c) /\ (Chain[c] # Null => Chain[c] # Root)
  /\ \A c, d \in Entries : Chain[c] = Chain[d] /\ Chain[c] # Null => c = d
  /\ \A c \in Cell \ Entries : Chain[c] = Null

\* The entries that are not in the list are those of the calls that add them,
\* each its own, and those that were given up.
New == {call[t].new : t \in Thread} \ {Null}
Accounted ==
  /\ {c \in Cell : Live(c)} = Entries \cup New \cup orphans
  /\ Entries \cap New = {} /\ Entries \cap orphans = {} /\ New \cap orphans = {}
  /\ \A t, u \in Thread : call[t].new = call[u].new /\ call[t].new # Null => t = u

\* Who looks something up while an entry is taken out knows of it.
RemovalsMet == Mending => \A t \in Thread : Meets(t) => call[t].met = "removal"

\* What t has still before it.
Ahead(t) == Reach(Chain, Pointed(t))
Undisturbed(t, pcs) == call[t].pc \in pcs /\ call[t].met # "removal"

\* The place of a call that no removal overlaps is one of the list's; an addition
\* in front of it leaves it at the head, which points to the addition.
PlaceFits(t) ==
  Undisturbed(t, {"walk", "found", "acquire", "change"}) =>
    /\ call[t].new = Null => call[t].place \in Entries \cup {Head}
    /\ call[t].met = "add" => call[t].place = Head /\ call[t].pc # "walk" /\ head # Null

\* A target that was there is ahead; one that is added is not behind.
LookupFits(t) ==
  Undisturbed(t, {"walk", "found"}) =>
    /\ call[t].due => \E c \in Ahead(t) : entry[c].name = call[t].name
    /\ call[t].op = "add" /\ ~call[t].twin =>
         \A c \in Entries \ Ahead(t) : entry[c].name # call[t].name
    /\ call[t].pc = "found" /\ call[t].met = "nothing" /\ Pointed(t) # Null =>
         entry[Pointed(t)].name = call[t].name

\* What a call has decided to change still is as it decided.
DecisionFits(t) ==
  Undisturbed(t, {"acquire", "change"}) =>
    /\ call[t].op = "add" /\ ~call[t].twin => \A c \in Entries : entry[c].name # call[t].name
    /\ call[t].op = "remove" =>
         /\ Pointed(t) # Null
         /\ call[t].met = "nothing" => entry[Pointed(t)].name = call[t].name

CallsFit == \A t \in Thread : PlaceFits(t) /\ LookupFits(t) /\ DecisionFits(t)

NamesOK == \A c, d \in Entries : entry[c].name = entry[d].name /\ c # d => entry[c].name \in twins

\* A new entry has the name that is added.
NewNamed == \A t \in Thread : call[t].new # Null => entry[call[t].new].name = call[t].name

TargetsInv ==
  /\ TargetsTypeOK /\ Shape /\ ListIsChain /\ Accounted /\ RemovalsMet
  /\ CallsFit /\ NamesOK /\ NewNamed /\ WalkIsSafe

(***************************************************************************)
(* What can be reached along pointers.                                     *)
(***************************************************************************)
Pointers == [Cell -> Cell \cup {Null}]
ClosedUnder(nx, S) == \A d \in S : nx[d] \in S \cup {Null}

\* Nothing but cells is reached, and none from no pointer.
LEMMA ReachCells ==
    ASSUME NEW nx, NEW p
    PROVE  Reach(nx, p) \subseteq Cell
  BY DEF Reach

\* What is pointed to is reached.
LEMMA ReachRoot ==
    ASSUME NEW nx, NEW p \in Cell
    PROVE  p \in Reach(nx, p)
<1>1. \A S \in SUBSET Cell : p \in S \cup {Null} => p \in S
  BY NullIsNoCell
<1> QED BY <1>1 DEF Reach

\* What an entry that is reached points to is reached.
LEMMA ReachStep ==
    ASSUME NEW nx \in Pointers, NEW p, NEW c \in Reach(nx, p), nx[c] # Null
    PROVE  nx[c] \in Reach(nx, p)
<1>1. c \in Cell /\ nx[c] \in Cell
  BY ReachCells DEF Pointers
<1>2. ASSUME NEW S \in SUBSET Cell, p \in S \cup {Null}, \A d \in S : nx[d] \in S \cup {Null}
      PROVE  nx[c] \in S
  <2>1. c \in S
    BY <1>2 DEF Reach
  <2> QED BY <2>1, <1>2
<1> QED BY <1>1, <1>2 DEF Reach

\* Whatever holds the first entry and with each entry the next holds all.
LEMMA ReachLeast ==
    ASSUME NEW nx, NEW p, NEW S \in SUBSET Cell, p \in S \cup {Null}, ClosedUnder(nx, S)
    PROVE  Reach(nx, p) \subseteq S
  BY DEF Reach, ClosedUnder

\* The lemmas above as one fact.
LEMMA ReachClosed ==
    ASSUME NEW nx \in Pointers, NEW p \in Cell \cup {Null}
    PROVE  /\ Reach(nx, p) \in SUBSET Cell
           /\ p \in Reach(nx, p) \cup {Null}
           /\ ClosedUnder(nx, Reach(nx, p))
<1>1. p \in Cell => p \in Reach(nx, p)
  BY ReachRoot
<1>2. \A c \in Reach(nx, p) : nx[c] \in Reach(nx, p) \cup {Null}
  BY ReachStep
<1> QED BY <1>1, <1>2, ReachCells DEF ClosedUnder

\* Nothing is reached from no pointer.
LEMMA ReachNull ==
    ASSUME NEW nx
    PROVE  Reach(nx, Null) = {}
<1>1. ClosedUnder(nx, {}) /\ {} \in SUBSET Cell
  BY DEF ClosedUnder
<1> QED BY <1>1, ReachLeast

\* The first entry, then what it points to.
LEMMA ReachFirst ==
    ASSUME NEW nx \in Pointers, NEW p \in Cell
    PROVE  Reach(nx, p) = {p} \cup Reach(nx, nx[p])
<1> DEFINE R == Reach(nx, p)
           T == Reach(nx, nx[p])
<1>1. nx[p] \in Cell \cup {Null}
  BY DEF Pointers
<1>2. R \in SUBSET Cell /\ p \in R /\ ClosedUnder(nx, R)
  BY ReachClosed, ReachRoot
<1>3. T \in SUBSET Cell /\ nx[p] \in T \cup {Null} /\ ClosedUnder(nx, T)
  BY <1>1, ReachClosed
<1>4. R \subseteq {p} \cup T
  <2>1. ClosedUnder(nx, {p} \cup T) /\ {p} \cup T \in SUBSET Cell
    BY <1>3 DEF ClosedUnder
  <2> QED BY <2>1, ReachLeast
<1>5. T \subseteq R
  <2>1. nx[p] \in R \cup {Null}
    BY <1>2 DEF ClosedUnder
  <2> QED BY <2>1, <1>2, ReachLeast
<1> QED BY <1>2, <1>4, <1>5

\* Only the pointers of what is reached count.
LEMMA ReachSame ==
    ASSUME NEW nx \in Pointers, NEW my \in Pointers, NEW p \in Cell \cup {Null},
           \A c \in Reach(nx, p) : my[c] = nx[c]
    PROVE  Reach(my, p) = Reach(nx, p)
<1> DEFINE R == Reach(nx, p)
           T == Reach(my, p)
<1>1. R \in SUBSET Cell /\ p \in R \cup {Null} /\ ClosedUnder(nx, R)
  BY ReachClosed
<1>2. T \in SUBSET Cell /\ p \in T \cup {Null} /\ ClosedUnder(my, T)
  BY ReachClosed
<1>3. T \subseteq R
  <2>1. ClosedUnder(my, R)
    BY <1>1 DEF ClosedUnder
  <2> QED BY <2>1, <1>1, ReachLeast
<1>4. R \subseteq T
  <2>1. ClosedUnder(nx, T)
    BY <1>2, <1>3 DEF ClosedUnder
  <2> QED BY <2>1, <1>2, ReachLeast
<1> QED BY <1>3, <1>4

\* An entry is added in front.
LEMMA ReachAdd ==
    ASSUME NEW nx \in Pointers, NEW h \in Cell \cup {Null}, NEW x \in Cell,
           x \notin Reach(nx, h), NEW my, my = [nx EXCEPT ![x] = h]
    PROVE  /\ my \in Pointers
           /\ Reach(my, x) = {x} \cup Reach(nx, h)
           /\ Reach(my, h) = Reach(nx, h)
<1>1. my \in Pointers /\ my[x] = h /\ \A c \in Cell \ {x} : my[c] = nx[c]
  BY DEF Pointers
<1>2. Reach(my, h) = Reach(nx, h)
  <2>1. \A c \in Reach(nx, h) : my[c] = nx[c]
    BY <1>1, ReachCells
  <2> QED BY <2>1, <1>1, ReachSame
<1>3. Reach(my, x) = {x} \cup Reach(my, h)
  <2>1. Reach(my, x) = {x} \cup Reach(my, my[x])
    BY <1>1, ReachFirst
  <2> QED BY <2>1, <1>1
<1> QED BY <1>1, <1>2, <1>3

\* The first entry is taken out.
LEMMA ReachRemoveFirst ==
    ASSUME NEW nx \in Pointers, NEW h \in Cell,
           \A c \in Reach(nx, h) : nx[c] # h, NEW my, my = [nx EXCEPT ![h] = Null]
    PROVE  /\ my \in Pointers
           /\ Reach(my, nx[h]) = Reach(nx, h) \ {h}
<1>1. my \in Pointers /\ my[h] = Null /\ \A c \in Cell \ {h} : my[c] = nx[c]
  BY DEF Pointers
<1>2. nx[h] \in Cell \cup {Null}
  BY DEF Pointers
<1>3. Reach(nx, h) = {h} \cup Reach(nx, nx[h])
  BY ReachFirst
<1>4. h \notin Reach(nx, nx[h])
  <2> DEFINE R == Reach(nx, nx[h])
  <2>1. R \in SUBSET Cell /\ nx[h] \in R \cup {Null} /\ ClosedUnder(nx, R)
    BY <1>2, ReachClosed
  <2>2. nx[h] # h
    BY ReachRoot
  <2>3. ClosedUnder(nx, R \ {h}) /\ nx[h] \in (R \ {h}) \cup {Null}
    BY <2>1, <2>2, <1>3 DEF ClosedUnder
  <2>4. R \ {h} \in SUBSET Cell
    BY <2>1
  <2>5. R \subseteq R \ {h}
    BY <2>3, <2>4, ReachLeast
  <2> QED BY <2>5
<1>5. Reach(my, nx[h]) = Reach(nx, nx[h])
  <2>1. \A c \in Reach(nx, nx[h]) : my[c] = nx[c]
    BY <1>1, <1>4, ReachCells
  <2> QED BY <2>1, <1>1, <1>2, ReachSame
<1> QED BY <1>1, <1>3, <1>4, <1>5

\* An entry that only one other points to does not point to itself.
LEMMA ReachNoLoop ==
    ASSUME NEW nx \in Pointers, NEW h \in Cell \cup {Null}, NEW p \in Reach(nx, h), NEW x \in Cell,
           nx[p] = x, x # h,
           \A c \in Reach(nx, h) : nx[c] = x => c = p
    PROVE  p # x
<1> DEFINE R == Reach(nx, h)
<1>1. R \in SUBSET Cell /\ h \in R \cup {Null} /\ ClosedUnder(nx, R)
  BY ReachClosed
<1>2. p \in Cell /\ x \in R /\ x # Null
  BY <1>1, NullIsNoCell DEF ClosedUnder
<1>3. p # x
  <2>1. SUFFICES ASSUME p = x PROVE FALSE
    OBVIOUS
  <2>2. ClosedUnder(nx, R \ {x}) /\ h \in (R \ {x}) \cup {Null} /\ R \ {x} \in SUBSET Cell
    BY <1>1, <2>1 DEF ClosedUnder
  <2>3. R \subseteq R \ {x}
    BY <2>2, ReachLeast
  <2> QED BY <2>3, <1>2
<1> QED BY <1>3

\* An entry is taken out behind the only one that points to it.
LEMMA ReachRemove ==
    ASSUME NEW nx \in Pointers, NEW h \in Cell \cup {Null}, NEW p \in Reach(nx, h), NEW x \in Cell,
           nx[p] = x, x # h,
           \A c \in Reach(nx, h) : nx[c] = x => c = p,
           NEW my \in Pointers,
           \A c \in Cell : my[c] = IF c = p THEN nx[x] ELSE IF c = x THEN Null ELSE nx[c]
    PROVE  Reach(my, h) = Reach(nx, h) \ {x}
<1> DEFINE R == Reach(nx, h)
<1>1. R \in SUBSET Cell /\ h \in R \cup {Null} /\ ClosedUnder(nx, R)
  BY ReachClosed
<1>2. p \in Cell /\ x \in R /\ x # Null
  BY <1>1, NullIsNoCell DEF ClosedUnder
<1>3. p # x
  BY ReachNoLoop
<1> DEFINE T == Reach(my, h)
<1>4. /\ my[p] = nx[x] /\ my[x] = Null
      /\ \A c \in Cell \ {p, x} : my[c] = nx[c]
  BY <1>2, <1>3 DEF Pointers
<1>5. T \in SUBSET Cell /\ h \in T \cup {Null} /\ ClosedUnder(my, T)
  BY ReachClosed
<1>6. T \subseteq R \ {x}
  <2>1. nx[x] \in R \cup {Null} /\ nx[x] # x
    BY <1>1, <1>2, <1>3 DEF ClosedUnder
  <2>2. \A c \in R \ {x} : my[c] \in (R \ {x}) \cup {Null}
    <3> TAKE c \in R \ {x}
    <3>1. CASE c = p
      BY <3>1, <1>4, <2>1
    <3>2. CASE c # p
      <4>1. my[c] = nx[c] /\ nx[c] # x
        BY <3>2, <1>4, <1>1
      <4> QED BY <4>1, <1>1 DEF ClosedUnder
    <3> QED BY <3>1, <3>2
  <2>3. R \ {x} \in SUBSET Cell /\ h \in (R \ {x}) \cup {Null} /\ ClosedUnder(my, R \ {x})
    BY <1>1, <2>2 DEF ClosedUnder
  <2> QED BY <2>3, ReachLeast
<1>7. p \in T
  <2>1. SUFFICES ASSUME p \notin T PROVE FALSE
    OBVIOUS
  <2>2. ClosedUnder(nx, T)
    BY <2>1, <1>4, <1>5, <1>6 DEF ClosedUnder
  <2> QED BY <2>1, <2>2, <1>5, ReachLeast
<1>8. R \subseteq T \cup {x}
  <2>1. nx[x] \in T \cup {Null}
    BY <1>4, <1>5, <1>7 DEF ClosedUnder
  <2>2. \A c \in T \cup {x} : nx[c] \in T \cup {x} \cup {Null}
    <3> TAKE c \in T \cup {x}
    <3>1. CASE c = x
      BY <3>1, <2>1
    <3>2. CASE c = p
      BY <3>2
    <3>3. CASE c \notin {x, p}
      <4>1. c \in T /\ my[c] = nx[c]
        BY <3>3, <1>4, <1>5
      <4> QED BY <4>1, <1>5 DEF ClosedUnder
    <3> QED BY <3>1, <3>2, <3>3
  <2>3. T \cup {x} \in SUBSET Cell /\ h \in T \cup {x} \cup {Null} /\ ClosedUnder(nx, T \cup {x})
    BY <1>5, <2>2 DEF ClosedUnder
  <2> QED BY <2>3, ReachLeast
<1> QED BY <1>6, <1>8

(***************************************************************************)
(* The invariant and the steps.                                            *)
(***************************************************************************)
\* The list is empty at first, and nobody works on it.
LEMMA TargetsInitInv == TargetsInit => TargetsInv
<1> SUFFICES ASSUME TargetsInit PROVE TargetsInv
  OBVIOUS
<1> USE DEF TargetsInit
<1>1. \A t \in Thread : call[t] = NoCall
  OBVIOUS
<1>2. \A p : ~Mends(p)
  BY NullIsNoCell DEF Mends, Thread
<1>3. Root = Null /\ Entries = {}
  BY <1>2, ReachNull DEF Root, Entries
<1>4. TargetsTypeOK
  BY <1>1, FailuresAreCounted DEF TargetsTypeOK, NoCall, Head, Freed
<1>5. Shape
  <2>1. NoCall \in CallTypes
    BY DEF NoCall, CallTypes
  <2> QED BY <1>1, <2>1 DEF Shape, NoCall, Live
<1>6. ListIsChain
  <2>1. \A c \in Cell : Chain[c] = Null
    BY <1>2 DEF Chain, Freed
  <2> QED BY <1>3, <2>1 DEF ListIsChain
<1>7. Accounted
  <2>1. New = {}
    BY <1>1 DEF New, NoCall
  <2> QED BY <1>1, <1>3, <2>1 DEF Accounted, Live, NoCall
<1>8. RemovalsMet
  BY <1>2 DEF RemovalsMet, Mending
<1>9. CallsFit
  BY <1>1 DEF CallsFit, PlaceFits, LookupFits, DecisionFits, Undisturbed, NoCall
<1> QED BY <1>1, <1>3, <1>4, <1>5, <1>6, <1>7, <1>8, <1>9 DEF TargetsInv, NamesOK, NewNamed, NoCall, WalkIsSafe

\* A step that changes nothing but wrong, when a removal was met, keeps the rest.
LEMMA WrongKeeps ==
    ASSUME TargetsInv, wrong' = TRUE, \E t \in Thread : call[t].met = "removal",
           UNCHANGED <<head, entry, receive_lock, call, stopped, failed, orphans, twins>>
    PROVE  TargetsInv'
<1>1. Chain' = Chain /\ Root' = Root /\ Entries' = Entries /\ New' = New
  BY DEF Chain, Root, Entries, Mends, New
<1>2. TargetsTypeOK' /\ Shape' /\ ListIsChain' /\ Accounted' /\ RemovalsMet'
  BY <1>1 DEF TargetsInv, TargetsTypeOK, Shape, ListIsChain, Accounted, RemovalsMet, Live, Mending, Mends, Meets
<1>3. \A t \in Thread : Pointed(t)' = Pointed(t) /\ Ahead(t)' = Ahead(t)
  BY <1>1 DEF Pointed, Ahead
<1>4. CallsFit' /\ NamesOK' /\ NewNamed'
  BY <1>1, <1>3 DEF TargetsInv, CallsFit, PlaceFits, LookupFits, DecisionFits, NamesOK, NewNamed, Undisturbed
<1> QED BY <1>2, <1>4 DEF TargetsInv, WalkIsSafe

\* Pointers lead to cells.
LEMMA PointersType ==
    ASSUME TargetsTypeOK, Shape
    PROVE  /\ Chain \in Pointers /\ Root \in Cell \cup {Null}
           /\ Entries \in SUBSET Cell
           /\ Root \in Entries \cup {Null}
           /\ ClosedUnder(Chain, Entries)
<1>1. \A p : Mends(p) => call[receive_lock].next \in Cell \cup {Null}
  BY DEF Mends, Shape, CallTypes
<1>2. Chain \in Pointers /\ Root \in Cell \cup {Null}
  BY <1>1 DEF Chain, Root, Pointers, TargetsTypeOK
<1> QED BY <1>2, ReachClosed DEF Entries

\* Nobody mends while another call holds the lock or none does.
LEMMA NotMending ==
    ASSUME Shape, receive_lock = Null \/ \E t \in Thread : receive_lock = t /\ call[t].pc # "relink"
    PROVE  ~Mending
  BY NullIsNoCell DEF Mending, Mends, Thread

\* While nobody mends, the list is what its pointers say.
LEMMA Unmended ==
    ASSUME TargetsTypeOK, ~Mending
    PROVE  /\ Root = head
           /\ Chain = [c \in Cell |-> entry[c].next]
           /\ Entries = List
           /\ \A t \in Thread : call[t].place \in Cell =>
                Chain[call[t].place] = entry[call[t].place].next
<1>1. \A p \in Cell \cup {Head} : ~Mends(p)
  BY DEF Mending
<1> QED BY <1>1 DEF Root, Chain, Entries, List

\* The place of a call that no removal overlaps is there, and what it points to
\* is in the list.
LEMMA PlaceIsListed ==
    ASSUME TargetsInv, NEW t \in Thread, ~Mending, call[t].new = Null,
           Undisturbed(t, {"walk", "found", "acquire", "change"})
    PROVE  /\ PlaceThere(t)
           /\ call[t].place \in Entries \cup {Head}
           /\ Pointed(t) \in Entries \cup {Null}
           /\ Pointed(t) # Null => Live(Pointed(t)) /\ Pointed(t) \in Cell
<1>1. call[t].place \in Entries \cup {Head}
  BY DEF TargetsInv, CallsFit, PlaceFits
<1>2. /\ Entries \in SUBSET Cell /\ Root \in Entries \cup {Null} /\ ClosedUnder(Chain, Entries)
      /\ Root = head
      /\ call[t].place \in Cell => Chain[call[t].place] = entry[call[t].place].next
  BY PointersType, Unmended DEF TargetsInv
<1>3. \A c \in Entries : Live(c)
  BY DEF TargetsInv, ListIsChain
<1>4. Pointed(t) \in Entries \cup {Null}
  <2>1. CASE call[t].place = Head
    BY <2>1, <1>2 DEF Pointed
  <2>2. CASE call[t].place # Head
    <3>1. call[t].place \in Entries /\ call[t].place \in Cell
      BY <1>1, <1>2, <2>2
    <3> QED BY <3>1, <2>2, <1>2 DEF Pointed, ClosedUnder
  <2> QED BY <2>1, <2>2
<1> QED BY <1>1, <1>2, <1>3, <1>4 DEF PlaceThere

\* Freed memory is met by no call but those a removal overlaps.
LEMMA WalkNotGone ==
    ASSUME TargetsInv, NEW t \in Thread, call[t].pc \in {"walk", "found"},
           ~PlaceThere(t) \/ (Pointed(t) # Null /\ ~Live(Pointed(t)))
    PROVE  call[t].met = "removal"
<1>1. SUFFICES ASSUME call[t].met # "removal" PROVE FALSE
  OBVIOUS
<1>2. Undisturbed(t, {"walk", "found", "acquire", "change"}) /\ Meets(t)
  BY <1>1 DEF Undisturbed, Meets
<1>3. ~Mending
  BY <1>1, <1>2 DEF TargetsInv, RemovalsMet
<1>4. call[t].new = Null
  BY DEF TargetsInv, Shape
<1> QED BY <1>2, <1>3, <1>4, PlaceIsListed

\* Nor by a removal that none overlaps.
LEMMA FreeNotGone ==
    ASSUME TargetsInv, NEW t \in Thread, call[t].pc = "change", call[t].op = "remove",
           ~PlaceThere(t) \/ Pointed(t) = Null \/ ~Live(Pointed(t))
    PROVE  call[t].met = "removal"
<1>1. SUFFICES ASSUME call[t].met # "removal" PROVE FALSE
  OBVIOUS
<1>2. Undisturbed(t, {"walk", "found", "acquire", "change"}) /\ Undisturbed(t, {"acquire", "change"})
  BY <1>1 DEF Undisturbed
<1>3. ~Mending
  BY NotMending DEF TargetsInv, Shape
<1>4. call[t].new = Null
  BY DEF TargetsInv, Shape
<1>5. Pointed(t) # Null
  BY <1>2 DEF TargetsInv, CallsFit, DecisionFits
<1> QED BY <1>2, <1>3, <1>4, <1>5, PlaceIsListed

\* A step of t that changes neither the list nor an entry, and mends nothing,
\* leaves everything the others look at.
LEMMA QuietStep ==
    ASSUME TargetsInv, NEW t \in Thread, NEW r \in CallTypes, call' = [call EXCEPT ![t] = r],
           call[t].pc # "relink", r.pc # "relink", head' = head, entry' = entry,
           receive_lock' = receive_lock \/ (receive_lock \in {Null, t} /\ receive_lock' \in {Null, t})
    PROVE  /\ Chain' = Chain /\ Root' = Root /\ Entries' = Entries /\ Mending' = Mending
           /\ call' \in [Thread -> CallTypes] /\ call'[t] = r
           /\ \A u \in Thread \ {t} :
                call'[u] = call[u] /\ Pointed(u)' = Pointed(u) /\ Ahead(u)' = Ahead(u)
<1>1. call \in [Thread -> CallTypes] /\ Null \notin Thread
  BY NullIsNoCell DEF TargetsInv, Shape, Thread
<1>2. /\ call' \in [Thread -> CallTypes] /\ call'[t] = r
      /\ \A u \in Thread \ {t} : call'[u] = call[u]
  BY <1>1
<1>3. \A p : (Mends(p)' <=> Mends(p)) /\ (Mends(p) => receive_lock' = receive_lock /\ receive_lock # t)
  <2> TAKE p
  <2>1. CASE receive_lock \in {Null, t}
    <3>1. receive_lock' \in {Null, t}
      BY <2>1
    <3>2. ~Mends(p)
      BY <2>1, <1>1 DEF Mends
    <3>3. ~Mends(p)'
      <4>1. receive_lock' \in Thread => receive_lock' = t
        BY <3>1, <1>1
      <4>2. call'[t].pc # "relink"
        BY <1>2
      <4> QED BY <4>1, <4>2 DEF Mends
    <3> QED BY <3>2, <3>3
  <2>2. CASE receive_lock \notin {Null, t}
    <3>1. receive_lock' = receive_lock /\ (receive_lock \in Thread => call'[receive_lock] = call[receive_lock])
      BY <2>2, <1>2
    <3> QED BY <3>1, <2>2 DEF Mends
  <2> QED BY <2>1, <2>2
<1>4. \A p : Mends(p) => call'[receive_lock'].next = call[receive_lock].next
  BY <1>2, <1>3 DEF Mends
<1>5. Root' = Root
  BY <1>3, <1>4 DEF Root
<1>6. Chain' = Chain
  BY <1>3, <1>4 DEF Chain
<1>7. Entries' = Entries
  BY <1>5, <1>6 DEF Entries
<1>8. Mending' = Mending
  BY <1>3 DEF Mending
<1>9. ASSUME NEW u \in Thread \ {t} PROVE Pointed(u)' = Pointed(u) /\ Ahead(u)' = Ahead(u)
  BY <1>2, <1>6 DEF Pointed, Ahead
<1> QED BY <1>2, <1>5, <1>6, <1>7, <1>8, <1>9

\* What such a step has to see to is what it has itself.
LEMMA QuietKeeps ==
    ASSUME TargetsInv, NEW t \in Thread, NEW r \in CallTypes, call' = [call EXCEPT ![t] = r],
           call[t].pc # "relink", r.pc # "relink", head' = head, entry' = entry,
           receive_lock' = receive_lock \/ (receive_lock \in {Null, t} /\ receive_lock' \in {Null, t}),
           r.pc \in {"walk", "found", "acquire", "change"} => r.op # "none" /\ r.name \in Name,
           r.pc \in {"acquire", "change"} => r.op # "serve",
           r.pc \in {"change", "release"} => receive_lock' = t,
           r.new # Null <=> r.pc \in {"acquire", "change"} /\ r.op = "add",
           r.new # Null => r.name = call[t].name,
           \/ r.new = call[t].new /\ orphans' = orphans
           \/ r.new = Null /\ orphans' = orphans \cup ({call[t].new} \ {Null}),
           failed' \in 0..MaxFailures, twins' = twins, stopped' = stopped, wrong' = wrong, ~wrong,
           Mending /\ r.pc \in {"walk", "found", "acquire"} => r.met = "removal",
           PlaceFits(t)', LookupFits(t)', DecisionFits(t)'
    PROVE  TargetsInv'
<1>1. /\ Chain' = Chain /\ Root' = Root /\ Entries' = Entries /\ Mending' = Mending
      /\ call' \in [Thread -> CallTypes] /\ call'[t] = r
      /\ \A u \in Thread \ {t} :
           call'[u] = call[u] /\ Pointed(u)' = Pointed(u) /\ Ahead(u)' = Ahead(u)
  BY QuietStep
<1>2. call \in [Thread -> CallTypes] /\ Null \notin Thread
  BY NullIsNoCell DEF TargetsInv, Shape, Thread
<1>3. \A u \in Thread \ {t} : receive_lock = u => receive_lock' = u
  BY <1>2
<1>4. TargetsTypeOK'
  <2>1. orphans' \subseteq Cell
    BY <1>2 DEF TargetsInv, TargetsTypeOK, CallTypes
  <2>2. receive_lock' \in Thread \cup {Null}
    BY DEF TargetsInv, TargetsTypeOK
  <2>3. \A u \in Thread : /\ call'[u] \in CallTypes
                          /\ call'[u].pc \in {"change", "relink"} => receive_lock' = u
    <3> TAKE u \in Thread
    <3>1. CASE u = t
      BY <3>1, <1>1
    <3>2. CASE u # t
      BY <3>2, <1>1, <1>3 DEF TargetsInv, TargetsTypeOK
    <3> QED BY <3>1, <3>2
  <2>4. \A u \in Thread : /\ call'[u].pc \in {"idle", "walk", "found", "acquire", "change", "relink", "release"}
                          /\ call'[u].place \in Cell \cup {Head} /\ call'[u].new \in Cell \cup {Null}
    BY <2>3 DEF CallTypes
  <2>5. head' \in Cell \cup {Null} /\ entry' \in [Cell -> [name : Name \cup {Null}, next : Cell \cup {Null}]]
        /\ twins' \subseteq Name
    BY DEF TargetsInv, TargetsTypeOK
  <2> QED BY <2>1, <2>2, <2>3, <2>4, <2>5 DEF TargetsTypeOK
<1>5. Shape'
  <2>1. ASSUME NEW u \in Thread
        PROVE  /\ call'[u].pc \in {"walk", "found", "acquire", "change"} => call'[u].op # "none" /\ call'[u].name \in Name
               /\ call'[u].pc \in {"acquire", "change"} => call'[u].op # "serve"
               /\ call'[u].pc \in {"change", "relink", "release"} => receive_lock' = u
               /\ call'[u].new # Null <=> call'[u].pc \in {"acquire", "change"} /\ call'[u].op = "add"
    <3>1. CASE u = t
      BY <3>1, <1>1
    <3>2. CASE u # t
      BY <3>2, <1>1, <1>3 DEF TargetsInv, Shape
    <3> QED BY <3>1, <3>2
  <2>2. \A c \in Cell : (Live(c) => entry[c].name \in Name)'
    BY DEF TargetsInv, Shape, Live
  <2>3. stopped' \in BOOLEAN /\ wrong' \in BOOLEAN
    BY DEF TargetsInv, Shape
  <2> QED BY <1>1, <2>1, <2>2, <2>3 DEF Shape
<1>6. \A c \in Cell : Live(c)' = Live(c)
  BY DEF Live
<1>7. ListIsChain'
  <2>1. Entries \in SUBSET Cell
    BY PointersType DEF TargetsInv
  <2> QED BY <1>1, <1>6, <2>1 DEF TargetsInv, ListIsChain
<1>8. Accounted'
  <2>1. Accounted
    BY DEF TargetsInv
  <2>2. New = ({call[u].new : u \in Thread \ {t}} \cup {call[t].new}) \ {Null}
    BY DEF New
  <2>3. New' = ({call[u].new : u \in Thread \ {t}} \cup {r.new}) \ {Null}
    BY <1>1 DEF New
  <2>4. {c \in Cell : Live(c)}' = {c \in Cell : Live(c)}
    BY <1>6
  <2>5. \A u \in Thread \ {t} : call[t].new # Null => call[u].new # call[t].new
    BY <2>1 DEF Accounted
  <2>6. New' \cup orphans' = New \cup orphans
    BY <2>2, <2>3
  <2>7. New' \cap orphans' = {}
    BY <2>1, <2>2, <2>3, <2>5 DEF Accounted
  <2>8. \A u, v \in Thread : call'[u].new = call'[v].new /\ call'[u].new # Null => u = v
    BY <2>1, <1>1 DEF Accounted
  <2>9. Entries \cap (New' \cup orphans') = {}
    BY <2>1, <2>6 DEF Accounted
  <2>10. {c \in Cell : Live(c)} = Entries \cup New' \cup orphans'
    BY <2>1, <2>6 DEF Accounted
  <2> QED BY <2>4, <2>7, <2>8, <2>9, <2>10, <1>1 DEF Accounted
<1>9. RemovalsMet'
  BY <1>1 DEF TargetsInv, RemovalsMet, Meets
<1>10. CallsFit'
  <2>1. ASSUME NEW u \in Thread \ {t} PROVE (PlaceFits(u) /\ LookupFits(u) /\ DecisionFits(u))'
    BY <1>1 DEF TargetsInv, CallsFit, PlaceFits, LookupFits, DecisionFits, Undisturbed
  <2> QED BY <2>1 DEF CallsFit
<1>11. NamesOK' /\ WalkIsSafe'
  BY <1>1 DEF TargetsInv, NamesOK, WalkIsSafe
<1>12. NewNamed'
  BY <1>1 DEF TargetsInv, NewNamed
<1> QED BY <1>4, <1>5, <1>7, <1>8, <1>9, <1>10, <1>11, <1>12 DEF TargetsInv

\* The types of a call, and the bound on failures, in the form the steps use.
LEMMA CallShape ==
    ASSUME TargetsInv, NEW t \in Thread
    PROVE  /\ call \in [Thread -> CallTypes] /\ call[t] \in CallTypes
           /\ TargetsTypeOK /\ Shape /\ Null \notin Thread
           /\ failed \in 0..MaxFailures /\ (Fails => failed' \in 0..MaxFailures)
<1>1. failed \in 0..MaxFailures /\ MaxFailures \in Nat
  BY FailuresAreCounted DEF TargetsInv, TargetsTypeOK
<1>2. Fails => failed' \in 0..MaxFailures
  BY <1>1 DEF Fails
<1> QED BY <1>1, <1>2, NullIsNoCell DEF TargetsInv, Shape, Thread

\* A call begins at the head; the entries ahead are all there are.
LEMMA BeginKeeps ==
    ASSUME TargetsInv, NEW t \in Thread, NEW op \in {"add", "remove", "serve"}, NEW n \in Name,
           Begin(t, op, n)
    PROVE  TargetsInv'
<1> DEFINE m == IF \E u \in Thread : At(u, "relink") THEN "removal" ELSE "nothing"
<1>1. PICK r : r = [NoCall EXCEPT !.pc = "walk", !.op = op, !.name = n, !.due = Listed(n), !.met = m]
  OBVIOUS
<1>2. /\ call[t].pc = "idle" /\ ~wrong /\ call' = [call EXCEPT ![t] = r]
      /\ UNCHANGED <<head, entry, receive_lock, stopped, failed, orphans, twins, wrong>>
  BY <1>1 DEF Begin, At, Set
<1>3. /\ r \in CallTypes /\ r.pc = "walk" /\ r.op = op /\ r.name = n /\ r.place = Head /\ r.new = Null
      /\ r.met = m /\ r.twin = FALSE /\ r.due = Listed(n)
  BY <1>1 DEF NoCall, CallTypes, Listed, Head
<1>4. call[t].new = Null
  BY <1>2 DEF TargetsInv, Shape
<1>5. Mending => m = "removal"
  <2>1. SUFFICES ASSUME Mending PROVE \E u \in Thread : At(u, "relink")
    OBVIOUS
  <2>2. receive_lock \in Thread /\ call[receive_lock].pc = "relink"
    BY <2>1 DEF Mending, Mends
  <2> QED BY <2>2, <1>2 DEF At
<1>6. /\ Chain' = Chain /\ Root' = Root /\ Entries' = Entries
      /\ call' \in [Thread -> CallTypes] /\ call'[t] = r
  BY <1>2, <1>3, QuietStep
<1>7. PlaceFits(t)' /\ DecisionFits(t)'
  BY <1>3, <1>6 DEF PlaceFits, DecisionFits, Undisturbed
<1>8. LookupFits(t)'
  <2>1. CASE m = "removal"
    BY <2>1, <1>3, <1>6 DEF LookupFits, Undisturbed
  <2>2. CASE m # "removal"
    <3>1. Root = head /\ Entries = List
      BY <2>2, <1>5, Unmended DEF TargetsInv
    <3>2. Pointed(t)' = head
      BY <1>2, <1>3, <1>6 DEF Pointed
    <3>3. Ahead(t)' = Entries
      BY <3>1, <3>2, <1>6 DEF Ahead, Entries
    <3>4. Listed(n) => \E c \in Entries : entry'[c].name = n
      BY <3>1, <1>2 DEF Listed
    <3> QED BY <3>3, <3>4, <1>3, <1>6 DEF LookupFits, Undisturbed
  <2> QED BY <2>1, <2>2
<1>9. failed' \in 0..MaxFailures
  BY <1>2, CallShape
<1> HIDE DEF m
<1> QED BY <1>2, <1>3, <1>4, <1>5, <1>7, <1>8, <1>9, QuietKeeps

\* One entry further.
LEMMA WalkKeeps ==
    ASSUME TargetsInv, NEW t \in Thread, Walk(t)
    PROVE  TargetsInv'
<1> DEFINE found == Pointed(t)
           missed == ~PlaceThere(t) \/ (found # Null /\ ~Live(found))
<1>1. CASE missed
  <2>1. call[t].pc = "walk" /\ UseFails
    BY <1>1 DEF Walk, At
  <2>2. call[t].met = "removal"
    BY <2>1, <1>1, WalkNotGone
  <2> QED BY <2>1, <2>2, WrongKeeps DEF UseFails
<1>2. CASE ~missed
  <2>1. /\ call[t].pc = "walk" /\ ~wrong
        /\ IF found = Null \/ entry[found].name = call[t].name THEN Goes(t, "found")
           ELSE Set(t, [call[t] EXCEPT !.place = found])
        /\ UNCHANGED <<head, entry, receive_lock, stopped, failed, orphans, twins, wrong>>
    BY <1>2 DEF Walk, At
  <2>2. PICK r : /\ r = IF found = Null \/ entry[found].name = call[t].name
                        THEN [call[t] EXCEPT !.pc = "found"] ELSE [call[t] EXCEPT !.place = found]
                 /\ call' = [call EXCEPT ![t] = r]
    BY <2>1 DEF Goes, Set
  <2>3. call[t] \in CallTypes /\ TargetsTypeOK /\ Shape
    BY CallShape
  <2>4. found \in Cell \cup {Null}
    <3>1. call[t].place # Head => call[t].place \in Cell
      BY <2>3 DEF CallTypes
    <3> QED BY <2>3, <3>1 DEF TargetsTypeOK, Pointed
  <2>5. /\ r \in CallTypes /\ r.op = call[t].op /\ r.name = call[t].name /\ r.new = call[t].new
        /\ r.met = call[t].met /\ r.twin = call[t].twin /\ r.due = call[t].due
        /\ \/ r.pc = "found" /\ r.place = call[t].place /\ (found = Null \/ entry[found].name = call[t].name)
           \/ r.pc = "walk" /\ r.place = found /\ found # Null /\ entry[found].name # call[t].name
    BY <2>1, <2>2, <2>3, <2>4 DEF CallTypes
  <2>6. r.op # "none" /\ r.name \in Name /\ r.new = Null /\ r.op \in {"add", "remove", "serve"}
    BY <2>1, <2>3, <2>5 DEF Shape, CallTypes
  <2>7. /\ Chain' = Chain /\ Root' = Root /\ Entries' = Entries
        /\ call' \in [Thread -> CallTypes] /\ call'[t] = r
    BY <2>1, <2>2, <2>5, QuietStep
  <2>8. Mending => r.met = "removal"
    BY <2>1, <2>5 DEF TargetsInv, RemovalsMet, Meets
  <2>9. PlaceFits(t)' /\ LookupFits(t)' /\ DecisionFits(t)'
    <3>1. CASE r.met = "removal"
      BY <3>1, <2>7 DEF PlaceFits, LookupFits, DecisionFits, Undisturbed
    <3>2. CASE r.met # "removal"
      <4>1. /\ ~Mending /\ call[t].new = Null /\ Undisturbed(t, {"walk", "found", "acquire", "change"})
            /\ Undisturbed(t, {"walk", "found"})
        BY <3>2, <2>1, <2>5, <2>6, <2>8 DEF Undisturbed
      <4>2. /\ call[t].place \in Entries \cup {Head} /\ found \in Entries \cup {Null}
        BY <4>1, PlaceIsListed
      <4>3. PlaceFits(t) /\ LookupFits(t)
        BY DEF TargetsInv, CallsFit
      <4>4. PlaceFits(t)'
        <5>1. r.met # "add"
          BY <4>1, <4>3, <2>1, <2>5 DEF PlaceFits
        <5>2. r.place \in Entries \cup {Head}
          BY <4>2, <2>5
        <5> QED BY <5>1, <5>2, <2>7 DEF PlaceFits
      <4>5. DecisionFits(t)'
        BY <2>5, <2>7 DEF DecisionFits, Undisturbed
      <4>6. CASE r.pc = "found"
        <5>1. Pointed(t)' = found
          BY <4>6, <2>1, <2>5, <2>7 DEF Pointed
        <5>2. Ahead(t)' = Ahead(t)
          BY <5>1, <2>7 DEF Ahead
        <5>3. found # Null => entry[found].name = call[t].name
          BY <4>6, <2>5
        <5>4. LookupFits(t)'
          <6> HIDE DEF found
          <6> QED BY <5>1, <5>2, <5>3, <4>1, <4>3, <2>1, <2>5, <2>7 DEF LookupFits, Undisturbed
        <5> QED BY <5>4, <4>4, <4>5
      <4>7. CASE r.pc = "walk"
        <5>1. r.place = found /\ found \in Cell /\ found # Head /\ entry[found].name # call[t].name
          <6>1. found # Head
            BY <4>7, <2>4, <2>5, NullIsNoCell DEF Head
          <6> QED BY <6>1, <4>7, <2>4, <2>5
        <5>2. Pointed(t)' = entry[found].next
          BY <5>1, <2>1, <2>7 DEF Pointed
        <5>3. Chain[found] = entry[found].next
          BY <5>1, <4>1, Unmended, <2>3
        <5>4. Ahead(t) = {found} \cup Ahead(t)'
          BY <5>1, <5>2, <5>3, <2>3, <2>7, ReachFirst, PointersType DEF Ahead
        <5>5. LookupFits(t)'
          <6> HIDE DEF found
          <6> QED BY <5>1, <5>4, <4>1, <4>3, <4>7, <2>1, <2>5, <2>7 DEF LookupFits, Undisturbed
        <5> QED BY <5>5, <4>4, <4>5
      <4> QED BY <4>6, <4>7, <2>5
    <3> QED BY <3>1, <3>2
  <2>10. failed' \in 0..MaxFailures
    BY <2>1, CallShape
  <2> QED BY <2>1, <2>2, <2>5, <2>6, <2>8, <2>9, <2>10, QuietKeeps
<1> QED BY <1>1, <1>2

\* Only a call that a removal overlaps finds its place gone.
LEMMA FoundGoneKeeps ==
    ASSUME TargetsInv, NEW t \in Thread, FoundGone(t)
    PROVE  TargetsInv'
<1>1. call[t].met = "removal"
  BY WalkNotGone DEF FoundGone, At
<1> QED BY <1>1, WrongKeeps DEF FoundGone, UseFails

\* A call that ends has nothing to see to but its entry and the lock.
LEMMA ReturnKeeps ==
    ASSUME TargetsInv, NEW t \in Thread, Return(t), call[t].pc # "relink",
           head' = head, entry' = entry, twins' = twins, stopped' = stopped, wrong' = wrong, ~wrong,
           receive_lock' = receive_lock \/ (receive_lock \in {Null, t} /\ receive_lock' \in {Null, t}),
           orphans' = orphans \cup ({call[t].new} \ {Null}), failed' \in 0..MaxFailures
    PROVE  TargetsInv'
<1>1. /\ NoCall \in CallTypes /\ NoCall.pc = "idle" /\ NoCall.new = Null
      /\ call' = [call EXCEPT ![t] = NoCall]
  BY DEF NoCall, CallTypes, Return, Set
<1>2. call'[t] = NoCall
  BY <1>1, QuietStep
<1>3. PlaceFits(t)' /\ LookupFits(t)' /\ DecisionFits(t)'
  BY <1>1, <1>2 DEF PlaceFits, LookupFits, DecisionFits, Undisturbed
<1> HIDE DEF NoCall
<1> QED BY <1>1, <1>3, QuietKeeps

\* A session takes the callbacks and is done with the list.
LEMMA ServeKeeps ==
    ASSUME TargetsInv, NEW t \in Thread, Serve(t)
    PROVE  TargetsInv'
<1>1. call[t].pc = "found" /\ ~wrong
  BY DEF Serve, Found, At
<1>2. CASE Pointed(t) # Null /\ ~Live(Pointed(t))
  <2>1. call[t].met = "removal"
    BY <1>1, <1>2, WalkNotGone
  <2> QED BY <1>2, <2>1, WrongKeeps DEF Serve, UseFails
<1>3. CASE ~(Pointed(t) # Null /\ ~Live(Pointed(t)))
  <2>1. Return(t) /\ UNCHANGED <<head, entry, receive_lock, stopped, failed, orphans, twins, wrong>>
    BY <1>3 DEF Serve
  <2>2. call[t].new = Null
    BY <1>1 DEF TargetsInv, Shape
  <2> QED BY <1>1, <2>1, <2>2, CallShape, ReturnKeeps
<1> QED BY <1>2, <1>3

\* A refused call changes nothing.
LEMMA RefusedKeeps ==
    ASSUME TargetsInv, NEW t \in Thread, Refused(t)
    PROVE  TargetsInv'
<1>1. /\ call[t].pc = "found" /\ ~wrong /\ Return(t) /\ (failed' = failed \/ Fails)
      /\ UNCHANGED <<head, entry, receive_lock, stopped, orphans, twins, wrong>>
  BY DEF Refused, Found, At
<1>2. call[t].new = Null
  BY <1>1 DEF TargetsInv, Shape
<1> QED BY <1>1, <1>2, CallShape, ReturnKeeps

\* The change was made; the lock is given back or stays.
LEMMA ReleaseKeeps ==
    ASSUME TargetsInv, NEW t \in Thread, Release(t)
    PROVE  TargetsInv'
<1>1. /\ call[t].pc = "release" /\ ~wrong /\ Return(t) /\ (failed' = failed \/ Fails)
      /\ receive_lock' = Null \/ receive_lock' = receive_lock
      /\ UNCHANGED <<head, entry, stopped, orphans, twins, wrong>>
  BY DEF Release, At
<1>2. call[t].new = Null /\ receive_lock = t
  BY <1>1 DEF TargetsInv, Shape
<1> QED BY <1>1, <1>2, CallShape, ReturnKeeps

\* A removal has chosen what to remove.
LEMMA ChosenKeeps ==
    ASSUME TargetsInv, NEW t \in Thread, Chosen(t)
    PROVE  TargetsInv'
<1>1. PICK r : r = [call[t] EXCEPT !.pc = "acquire", !.due = FALSE]
  OBVIOUS
<1>2. /\ call[t].pc = "found" /\ call[t].op = "remove" /\ ~wrong /\ Pointed(t) # Null
      /\ call' = [call EXCEPT ![t] = r]
      /\ UNCHANGED <<head, entry, receive_lock, stopped, failed, orphans, twins, wrong>>
  BY <1>1 DEF Chosen, Found, At, Set
<1>3. call[t] \in CallTypes /\ Shape
  BY CallShape
<1>4. /\ r \in CallTypes /\ r.pc = "acquire" /\ r.op = "remove" /\ r.name = call[t].name
      /\ r.place = call[t].place /\ r.new = call[t].new /\ r.met = call[t].met
  BY <1>1, <1>2, <1>3 DEF CallTypes
<1>5. r.name \in Name /\ r.new = Null
  BY <1>2, <1>3, <1>4 DEF Shape
<1>6. Chain' = Chain /\ Entries' = Entries /\ call'[t] = r
  BY <1>2, <1>4, QuietStep
<1>7. Pointed(t)' = Pointed(t)
  BY <1>2, <1>4, <1>6 DEF Pointed
<1>8. Mending => r.met = "removal"
  BY <1>2, <1>4 DEF TargetsInv, RemovalsMet, Meets
<1>9. PlaceFits(t) /\ LookupFits(t)
  BY DEF TargetsInv, CallsFit
<1>10. PlaceFits(t)'
  BY <1>2, <1>4, <1>6, <1>9 DEF PlaceFits, Undisturbed
<1>11. LookupFits(t)'
  BY <1>4, <1>6 DEF LookupFits, Undisturbed
<1>12. DecisionFits(t)'
  BY <1>2, <1>4, <1>6, <1>7, <1>9 DEF LookupFits, DecisionFits, Undisturbed
<1>13. failed' \in 0..MaxFailures
  BY <1>2, CallShape
<1> QED BY <1>2, <1>4, <1>5, <1>8, <1>10, <1>11, <1>12, <1>13, QuietKeeps

\* The lock is taken, or the call given up.
LEMMA AcquireKeeps ==
    ASSUME TargetsInv, NEW t \in Thread, Acquire(t)
    PROVE  TargetsInv'
<1>1. call[t].pc = "acquire" /\ ~wrong /\ UNCHANGED <<head, entry, stopped, twins, wrong>>
  BY DEF Acquire, At
<1>2. call[t] \in CallTypes /\ Shape /\ TargetsTypeOK
  BY CallShape
<1>3. call[t].new # Null <=> call[t].op = "add"
  BY <1>1, <1>2 DEF Shape
<1>4. CASE Fails /\ Return(t) /\ UNCHANGED receive_lock
           /\ orphans' = IF call[t].op = "add" THEN orphans \cup {call[t].new} ELSE orphans
  <2>1. orphans' = orphans \cup ({call[t].new} \ {Null})
    BY <1>3, <1>4
  <2> QED BY <1>1, <1>4, <2>1, CallShape, ReturnKeeps
<1>5. CASE receive_lock = Null /\ receive_lock' = t /\ Goes(t, "change") /\ UNCHANGED <<failed, orphans>>
  <2>1. PICK r : r = [call[t] EXCEPT !.pc = "change"] /\ call' = [call EXCEPT ![t] = r]
    BY <1>5 DEF Goes, Set
  <2>2. /\ r \in CallTypes /\ r.pc = "change" /\ r.op = call[t].op /\ r.name = call[t].name
        /\ r.place = call[t].place /\ r.new = call[t].new /\ r.met = call[t].met /\ r.twin = call[t].twin
    BY <1>1, <1>2, <2>1 DEF CallTypes
  <2>3. r.name \in Name /\ r.op # "none" /\ r.op # "serve" /\ (r.new # Null <=> r.op = "add")
    BY <1>1, <1>2, <1>3, <2>2 DEF Shape
  <2>4. Chain' = Chain /\ Entries' = Entries /\ call'[t] = r
    BY <1>1, <1>5, <2>1, <2>2, QuietStep
  <2>5. Pointed(t)' = Pointed(t)
    BY <1>1, <2>2, <2>4 DEF Pointed
  <2>6. PlaceFits(t) /\ DecisionFits(t)
    BY DEF TargetsInv, CallsFit
  <2>7. PlaceFits(t)'
    BY <1>1, <2>2, <2>4, <2>6 DEF PlaceFits, Undisturbed
  <2>8. LookupFits(t)'
    BY <2>2, <2>4 DEF LookupFits, Undisturbed
  <2>9. DecisionFits(t)'
    BY <1>1, <2>2, <2>4, <2>5, <2>6 DEF DecisionFits, Undisturbed
  <2>10. failed' \in 0..MaxFailures
    BY <1>5, CallShape
  <2> QED BY <1>1, <1>5, <2>1, <2>2, <2>3, <2>7, <2>8, <2>9, <2>10, QuietKeeps
<1> QED BY <1>4, <1>5 DEF Acquire

\* What others have decided fits as long as the list, what they point to and the
\* names are as they were.
LEMMA OthersFit ==
    ASSUME TargetsInv, NEW u \in Thread, call'[u] = call[u], head' = head,
           Chain' = Chain, Entries' = Entries, Pointed(u)' = Pointed(u),
           \A c \in Cell : entry[c].name \in Name => entry'[c].name = entry[c].name
    PROVE  (PlaceFits(u) /\ LookupFits(u) /\ DecisionFits(u))'
<1>1. Entries \in SUBSET Cell /\ \A c \in Entries : entry[c].name \in Name
  BY PointersType DEF TargetsInv, ListIsChain, Shape
<1>2. Ahead(u)' = Ahead(u)
  BY DEF Ahead
<1>3. \A c \in Entries : entry'[c].name = entry[c].name
  BY <1>1
<1>4. PlaceFits(u) /\ LookupFits(u) /\ DecisionFits(u)
  BY DEF TargetsInv, CallsFit
<1>5. PlaceFits(u)'
  BY <1>4 DEF PlaceFits, Undisturbed
<1>6. ASSUME Undisturbed(u, {"walk", "found", "acquire", "change"}), call[u].new = Null
      PROVE  /\ Pointed(u) \in Entries \cup {Null}
             /\ Pointed(u) # Null => entry'[Pointed(u)].name = entry[Pointed(u)].name
             /\ Ahead(u) \subseteq Entries
  <2>1. ~Mending
    <3>1. CASE call[u].pc = "change"
      BY <3>1, NotMending DEF TargetsInv, Shape
    <3>2. CASE call[u].pc # "change"
      BY <3>2, <1>6 DEF TargetsInv, RemovalsMet, Meets, Undisturbed
    <3> QED BY <3>1, <3>2
  <2>2. Pointed(u) \in Entries \cup {Null}
    BY <1>6, <2>1, PlaceIsListed
  <2>3. Ahead(u) \subseteq Entries
    BY <2>2, PointersType, ReachLeast DEF Ahead, TargetsInv
  <2> QED BY <2>2, <2>3, <1>3
<1>7. LookupFits(u)'
  <2>1. SUFFICES ASSUME Undisturbed(u, {"walk", "found"}) PROVE LookupFits(u)'
    BY DEF LookupFits, Undisturbed
  <2>2. Undisturbed(u, {"walk", "found", "acquire", "change"}) /\ call[u].new = Null
    BY <2>1 DEF Undisturbed, TargetsInv, Shape
  <2>3. \A c \in Ahead(u) : entry'[c].name = entry[c].name
    BY <1>3, <1>6, <2>2
  <2> QED BY <1>2, <1>3, <1>4, <1>6, <2>1, <2>2, <2>3 DEF LookupFits
<1>8. DecisionFits(u)'
  <2>1. SUFFICES ASSUME Undisturbed(u, {"acquire", "change"}) PROVE DecisionFits(u)'
    BY DEF DecisionFits, Undisturbed
  <2>2. Undisturbed(u, {"walk", "found", "acquire", "change"}) /\ (call[u].op = "remove" => call[u].new = Null)
    BY <2>1 DEF Undisturbed, TargetsInv, Shape
  <2> QED BY <1>3, <1>4, <1>6, <2>1, <2>2 DEF DecisionFits
<1> QED BY <1>5, <1>7, <1>8

\* An entry that is made is in nobody's way.
LEMMA CreatedKeeps ==
    ASSUME TargetsInv, NEW t \in Thread, NEW c \in Cell, Created(t, c)
    PROVE  TargetsInv'
<1>1. PICK r : r = [call[t] EXCEPT !.pc = "acquire", !.new = c, !.place = Head, !.due = FALSE,
                                    !.met = IF @ = "add" THEN "nothing" ELSE @]
  OBVIOUS
<1>2. /\ call[t].pc = "found" /\ call[t].op = "add" /\ ~wrong /\ Pointed(t) = Null /\ ~Live(c)
      /\ call' = [call EXCEPT ![t] = r]
      /\ entry' = [entry EXCEPT ![c] = [name |-> call[t].name, next |-> Null]]
      /\ UNCHANGED <<head, receive_lock, stopped, failed, orphans, twins, wrong>>
  BY <1>1 DEF Created, Found, Taken, At, Set
<1>3. call \in [Thread -> CallTypes] /\ call[t] \in CallTypes /\ Shape /\ TargetsTypeOK /\ Null \notin Thread
  BY CallShape
<1>4. /\ r \in CallTypes /\ r.pc = "acquire" /\ r.op = "add" /\ r.name = call[t].name /\ r.place = Head
      /\ r.new = c /\ r.twin = call[t].twin
      /\ r.met = (IF call[t].met = "add" THEN "nothing" ELSE call[t].met)
  BY <1>1, <1>2, <1>3 DEF CallTypes
<1>5. call[t].new = Null /\ call[t].name \in Name /\ c # Null
  BY <1>2, <1>3, NullIsNoCell DEF Shape
<1>6. /\ entry \in [Cell -> [name : Name \cup {Null}, next : Cell \cup {Null}]]
      /\ entry[c].next = Null /\ entry[c].name = Null
  BY <1>2, <1>3 DEF TargetsTypeOK, Live, Freed
<1>7. /\ entry' \in [Cell -> [name : Name \cup {Null}, next : Cell \cup {Null}]]
      /\ entry'[c].name = call[t].name /\ entry'[c].next = Null
      /\ \A d \in Cell : d # c => entry'[d] = entry[d]
  BY <1>2, <1>5, <1>6
<1>8. \A d \in Cell : entry'[d].next = entry[d].next
  BY <1>6, <1>7
<1>9. \A d \in Cell : entry[d].name \in Name => entry'[d].name = entry[d].name
  BY <1>6, <1>7, NullIsNoCell
<1>10. /\ call' \in [Thread -> CallTypes] /\ call'[t] = r
       /\ \A u \in Thread \ {t} : call'[u] = call[u]
  BY <1>2, <1>3, <1>4
<1>11. \A p : (Mends(p)' <=> Mends(p)) /\ (Mends(p) => call'[receive_lock] = call[receive_lock])
  <2>1. receive_lock \in Thread /\ call[receive_lock].pc = "relink" => receive_lock # t
    BY <1>2
  <2>2. receive_lock = t => call'[receive_lock].pc # "relink"
    BY <1>4, <1>10
  <2> QED BY <1>2, <1>10, <2>1, <2>2 DEF Mends
<1>12. Root' = Root
  BY <1>2, <1>11 DEF Root
<1>13. Chain' = Chain
  BY <1>2, <1>8, <1>11 DEF Chain
<1>14. Entries' = Entries /\ Mending' = Mending
  BY <1>11, <1>12, <1>13 DEF Entries, Mending
<1>15. \A d \in Cell : Live(d)' <=> Live(d) \/ d = c
  <2>1. entry'[c] # Freed
    BY <1>5, <1>7, NullIsNoCell DEF Freed
  <2> QED BY <2>1, <1>7 DEF Live
<1>16. TargetsTypeOK'
  <2>1. \A u \in Thread : /\ call'[u] \in CallTypes
                          /\ call'[u].pc \in {"change", "relink"} => receive_lock' = u
    BY <1>2, <1>3, <1>4, <1>10 DEF TargetsTypeOK
  <2>2. \A u \in Thread : /\ call'[u].pc \in {"idle", "walk", "found", "acquire", "change", "relink", "release"}
                          /\ call'[u].place \in Cell \cup {Head} /\ call'[u].new \in Cell \cup {Null}
    BY <2>1 DEF CallTypes
  <2>3. /\ head' \in Cell \cup {Null} /\ receive_lock' \in Thread \cup {Null}
        /\ orphans' \subseteq Cell /\ twins' \subseteq Name /\ failed' \in 0..MaxFailures
    BY <1>2, <1>3 DEF TargetsTypeOK
  <2> QED BY <1>7, <2>1, <2>2, <2>3 DEF TargetsTypeOK
<1>17. Shape'
  <2>1. ASSUME NEW u \in Thread
        PROVE  /\ call'[u].pc \in {"walk", "found", "acquire", "change"} => call'[u].op # "none" /\ call'[u].name \in Name
               /\ call'[u].pc \in {"acquire", "change"} => call'[u].op # "serve"
               /\ call'[u].pc \in {"change", "relink", "release"} => receive_lock' = u
               /\ call'[u].new # Null <=> call'[u].pc \in {"acquire", "change"} /\ call'[u].op = "add"
    <3>1. CASE u = t
      BY <3>1, <1>4, <1>5, <1>10
    <3>2. CASE u # t
      BY <3>2, <1>2, <1>3, <1>10 DEF Shape
    <3> QED BY <3>1, <3>2
  <2>2. \A d \in Cell : Live(d)' => entry'[d].name \in Name
    BY <1>3, <1>5, <1>7, <1>15 DEF Shape
  <2>3. stopped' \in BOOLEAN /\ wrong' \in BOOLEAN
    BY <1>2, <1>3 DEF Shape
  <2> QED BY <1>10, <2>1, <2>2, <2>3 DEF Shape
<1>18. c \notin Entries /\ c \notin New /\ c \notin orphans
  BY <1>2 DEF TargetsInv, Accounted
<1>19. Entries \in SUBSET Cell
  BY <1>3, PointersType
<1>20. ListIsChain'
  BY <1>13, <1>12, <1>14, <1>15, <1>19 DEF TargetsInv, ListIsChain
<1>21. Accounted'
  <2>1. Accounted
    BY DEF TargetsInv
  <2>2. New' = New \cup {c}
    <3>1. New = ({call[u].new : u \in Thread \ {t}} \cup {call[t].new}) \ {Null}
      BY DEF New
    <3>2. New' = ({call[u].new : u \in Thread \ {t}} \cup {c}) \ {Null}
      BY <1>4, <1>10 DEF New
    <3> QED BY <3>1, <3>2, <1>5
  <2>3. {d \in Cell : Live(d)}' = {d \in Cell : Live(d)} \cup {c}
    BY <1>15
  <2>4. {d \in Cell : Live(d)}' = Entries \cup New' \cup orphans'
    BY <2>1, <2>2, <2>3, <1>2 DEF Accounted
  <2>5. Entries \cap New' = {} /\ Entries \cap orphans' = {} /\ New' \cap orphans' = {}
    BY <2>1, <2>2, <1>2, <1>18 DEF Accounted
  <2>6. \A u \in Thread : call[u].new # c
    BY <1>5, <1>18 DEF New
  <2>7. \A u, v \in Thread : call'[u].new = call'[v].new /\ call'[u].new # Null => u = v
    BY <2>1, <2>6, <1>4, <1>10 DEF Accounted
  <2> QED BY <2>4, <2>5, <2>7, <1>14 DEF Accounted
<1>22. RemovalsMet'
  <2>1. Mending => r.met = "removal"
    BY <1>2, <1>4 DEF TargetsInv, RemovalsMet, Meets
  <2> QED BY <2>1, <1>10, <1>14 DEF TargetsInv, RemovalsMet, Meets
<1>23. CallsFit'
  <2>1. ASSUME NEW u \in Thread \ {t} PROVE (PlaceFits(u) /\ LookupFits(u) /\ DecisionFits(u))'
    <3>1. call[u].place \in Cell \cup {Head}
      BY <1>3 DEF TargetsTypeOK
    <3>2. Pointed(u)' = Pointed(u)
      BY <3>1, <1>2, <1>8, <1>10 DEF Pointed
    <3> QED BY <3>2, <1>2, <1>9, <1>10, <1>13, <1>14, OthersFit
  <2>2. PlaceFits(t)'
    BY <1>4, <1>5, <1>10 DEF PlaceFits
  <2>3. LookupFits(t)'
    BY <1>4, <1>10 DEF LookupFits, Undisturbed
  <2>4. DecisionFits(t)'
    <3>1. SUFFICES ASSUME call[t].met # "removal", ~call[t].twin
                   PROVE  \A d \in Entries : entry'[d].name # call[t].name
      BY <1>4, <1>10, <1>14 DEF DecisionFits, Undisturbed
    <3>2. Ahead(t) = {}
      BY <1>2, ReachNull DEF Ahead
    <3>3. \A d \in Entries : entry[d].name # call[t].name
      BY <3>1, <3>2, <1>2 DEF TargetsInv, CallsFit, LookupFits, Undisturbed
    <3> QED BY <3>3, <1>7, <1>18, <1>19
  <2> QED BY <2>1, <2>2, <2>3, <2>4 DEF CallsFit
<1>24. NamesOK'
  <2>1. \A d \in Entries : entry'[d].name = entry[d].name
    BY <1>7, <1>18, <1>19
  <2> QED BY <2>1, <1>2, <1>14 DEF TargetsInv, NamesOK
<1>25. NewNamed'
  <2>1. ASSUME NEW u \in Thread \ {t}, call[u].new # Null
        PROVE  entry'[call[u].new].name = call[u].name
    <3>1. call[u].new # c /\ call[u].new \in Cell
      BY <2>1, <1>3, <1>5, <1>18 DEF New, TargetsTypeOK
    <3> QED BY <3>1, <2>1, <1>7 DEF TargetsInv, NewNamed
  <2> QED BY <2>1, <1>4, <1>7, <1>10 DEF NewNamed
<1>26. WalkIsSafe'
  BY <1>2 DEF WalkIsSafe
<1> QED BY <1>16, <1>17, <1>20, <1>21, <1>22, <1>23, <1>24, <1>25, <1>26 DEF TargetsInv

\* What an addition changes for a call.
LEMMA MeetAddIs ==
    ASSUME TargetsInv, NEW u \in Thread, NEW n, NEW r, r = MeetAdd(u, n)
    PROVE  /\ r \in CallTypes /\ r.pc = call[u].pc /\ r.op = call[u].op /\ r.name = call[u].name
           /\ r.place = call[u].place /\ r.new = call[u].new /\ r.due = call[u].due /\ r.next = call[u].next
           /\ r.met = "removal" <=> call[u].met = "removal"
           /\ r.met = "add" => call[u].met = "add" \/ (call[u].place = Head /\ call[u].pc # "walk")
           /\ Meets(u) /\ r.met # "removal" =>
                /\ ~r.twin => ~call[u].twin /\ ~(call[u].op = "add" /\ call[u].name = n)
                /\ call[u].place = Head /\ call[u].pc # "walk" => r.met = "add"
                /\ r.met = "nothing" => call[u].met = "nothing"
<1>1. call[u] \in CallTypes
  BY CallShape
<1>2. CASE ~Meets(u) \/ call[u].met = "removal"
  BY <1>1, <1>2 DEF MeetAdd
<1>3. CASE Meets(u) /\ call[u].met # "removal"
  <2> DEFINE w == call[u].twin \/ (call[u].op = "add" /\ call[u].name = n)
             m == IF call[u].place = Head /\ call[u].pc # "walk" THEN "add" ELSE call[u].met
  <2>1. r = [call[u] EXCEPT !.twin = w, !.met = m]
    BY <1>3 DEF MeetAdd
  <2>2. w \in BOOLEAN /\ m \in {"nothing", "add"}
    BY <1>1, <1>3 DEF CallTypes
  <2>3. /\ r \in CallTypes /\ r.pc = call[u].pc /\ r.op = call[u].op /\ r.name = call[u].name
        /\ r.place = call[u].place /\ r.new = call[u].new /\ r.due = call[u].due /\ r.next = call[u].next
        /\ r.twin = w /\ r.met = m
    <3> HIDE DEF w, m
    <3> QED BY <1>1, <2>1, <2>2 DEF CallTypes
  <2>4. call[u].met \in {"nothing", "add"}
    BY <1>1, <1>3 DEF CallTypes
  <2> QED BY <1>3, <2>2, <2>3, <2>4
<1> QED BY <1>2, <1>3

\* An entry is put in front of the list.
LEMMA LinkKeeps ==
    ASSUME TargetsInv, NEW t \in Thread, Link(t)
    PROVE  TargetsInv'
<1>1. PICK n : n = call[t].new
  OBVIOUS
<1>2. call \in [Thread -> CallTypes] /\ call[t] \in CallTypes /\ Shape /\ TargetsTypeOK /\ Null \notin Thread
  BY CallShape
<1>3. /\ call[t].pc = "change" /\ call[t].op = "add" /\ ~wrong
      /\ entry' = [entry EXCEPT ![n] = [entry[n] EXCEPT !.next = head]] /\ head' = n
      /\ call' = [u \in Thread |-> IF u = t THEN Changed ELSE MeetAdd(u, call[t].name)]
      /\ twins' = IF call[t].twin \/ call[t].met = "removal" THEN twins \cup {call[t].name} ELSE twins
      /\ UNCHANGED <<receive_lock, stopped, failed, orphans, wrong>>
  <2>1. [entry EXCEPT ![n].next = head] = [entry EXCEPT ![n] = [entry[n] EXCEPT !.next = head]]
    OBVIOUS
  <2> QED BY <1>1, <2>1 DEF Link, At
<1>4. /\ n \in Cell /\ n # Null /\ call[t].name \in Name /\ receive_lock = t
  BY <1>1, <1>2, <1>3 DEF Shape, TargetsTypeOK
<1>5. ~Mending
  BY <1>2, <1>3, <1>4, NotMending
<1>6. /\ Root = head /\ Chain = [c \in Cell |-> entry[c].next] /\ Entries = List
      /\ Chain \in Pointers /\ head \in Cell \cup {Null}
      /\ Entries \in SUBSET Cell /\ Root \in Entries \cup {Null} /\ ClosedUnder(Chain, Entries)
  BY <1>2, <1>5, Unmended, PointersType DEF TargetsTypeOK
<1>7. n \notin Entries /\ n \notin orphans /\ Live(n) /\ entry[n].name = call[t].name
  <2>1. n \in New
    BY <1>1, <1>4 DEF New
  <2> QED BY <2>1, <1>1, <1>4 DEF TargetsInv, Accounted, NewNamed
<1>8. entry \in [Cell -> [name : Name \cup {Null}, next : Cell \cup {Null}]]
  BY <1>2 DEF TargetsTypeOK
<1>9. /\ entry' \in [Cell -> [name : Name \cup {Null}, next : Cell \cup {Null}]]
      /\ entry'[n].next = head /\ entry'[n].name = entry[n].name
      /\ \A c \in Cell : c # n => entry'[c] = entry[c]
  BY <1>3, <1>4, <1>6, <1>8
<1>10. \A c \in Cell : entry'[c].name = entry[c].name
  BY <1>9
<1>11. ASSUME NEW u \in Thread \ {t}
       PROVE  /\ call'[u] \in CallTypes /\ call'[u].pc = call[u].pc /\ call'[u].op = call[u].op
              /\ call'[u].name = call[u].name /\ call'[u].place = call[u].place
              /\ call'[u].new = call[u].new /\ call'[u].due = call[u].due /\ call'[u].next = call[u].next
              /\ call'[u].met = "removal" <=> call[u].met = "removal"
              /\ call'[u].met = "add" => call[u].met = "add" \/ (call[u].place = Head /\ call[u].pc # "walk")
              /\ Meets(u) /\ call'[u].met # "removal" =>
                   /\ ~call'[u].twin => ~call[u].twin /\ ~(call[u].op = "add" /\ call[u].name = call[t].name)
                   /\ call[u].place = Head /\ call[u].pc # "walk" => call'[u].met = "add"
                   /\ call'[u].met = "nothing" => call[u].met = "nothing"
  <2>1. PICK r : r = call'[u]
    OBVIOUS
  <2>2. r = MeetAdd(u, call[t].name)
    BY <1>3, <2>1
  <2> QED BY <2>1, <2>2, MeetAddIs
<1>12. /\ call'[t] \in CallTypes /\ call'[t].pc = "release" /\ call'[t].new = Null
  BY <1>3 DEF Changed, NoCall, CallTypes, Head
<1>13. call' \in [Thread -> CallTypes]
  <2>1. DOMAIN call' = Thread /\ call' = [u \in Thread |-> call'[u]]
    BY <1>3
  <2>2. \A u \in Thread : call'[u] \in CallTypes
    BY <1>11, <1>12
  <2> QED BY <2>1, <2>2
<1>14. \A p : ~Mends(p)'
  BY <1>3, <1>4, <1>12 DEF Mends
<1>15. Root' = n
  BY <1>3, <1>14 DEF Root
<1>16. Chain' = [Chain EXCEPT ![n] = head]
  BY <1>4, <1>6, <1>9, <1>14 DEF Chain
<1>17. Entries' = {n} \cup Entries /\ Chain' \in Pointers /\ Reach(Chain', head) = Entries
  <2>1. n \notin Reach(Chain, head)
    BY <1>6, <1>7 DEF Entries
  <2>2. Reach(Chain', n) = {n} \cup Reach(Chain, head) /\ Chain' \in Pointers /\ Reach(Chain', head) = Reach(Chain, head)
    BY <1>4, <1>6, <1>16, <2>1, ReachAdd
  <2>3. Reach(Chain, head) = Entries
    BY <1>6 DEF Entries
  <2>4. Entries' = Reach(Chain', n)
    BY <1>15 DEF Entries
  <2> QED BY <2>2, <2>3, <2>4
<1>18. Chain'[n] = head /\ \A c \in Entries : Chain'[c] = Chain[c] /\ (Chain[c] # Null => Chain[c] \in Entries)
  BY <1>4, <1>6, <1>7, <1>16 DEF Pointers, ClosedUnder
<1>19. \A c \in Cell : Live(c)' <=> Live(c)
  <2>1. \A c \in Cell : Live(c) <=> entry[c].name \in Name
    BY <1>2, NullIsNoCell DEF Shape, Live, Freed
  <2>2. entry'[n] # Freed
    BY <2>1, <1>4, <1>7, <1>9, NullIsNoCell DEF Freed
  <2> QED BY <2>2, <1>7, <1>9 DEF Live
<1>20. TargetsTypeOK'
  <2>1. \A u \in Thread : /\ call'[u].pc \in {"idle", "walk", "found", "acquire", "change", "relink", "release"}
                          /\ call'[u].place \in Cell \cup {Head} /\ call'[u].new \in Cell \cup {Null}
    BY <1>13 DEF CallTypes
  <2>2. \A u \in Thread : call'[u].pc \in {"change", "relink"} => receive_lock' = u
    BY <1>2, <1>3, <1>11, <1>12 DEF TargetsTypeOK
  <2>3. /\ head' \in Cell \cup {Null} /\ receive_lock' \in Thread \cup {Null}
        /\ orphans' \subseteq Cell /\ twins' \subseteq Name /\ failed' \in 0..MaxFailures
    BY <1>2, <1>3, <1>4 DEF TargetsTypeOK
  <2> QED BY <1>9, <2>1, <2>2, <2>3 DEF TargetsTypeOK
<1>21. Shape'
  <2>1. ASSUME NEW u \in Thread
        PROVE  /\ call'[u].pc \in {"walk", "found", "acquire", "change"} => call'[u].op # "none" /\ call'[u].name \in Name
               /\ call'[u].pc \in {"acquire", "change"} => call'[u].op # "serve"
               /\ call'[u].pc \in {"change", "relink", "release"} => receive_lock' = u
               /\ call'[u].new # Null <=> call'[u].pc \in {"acquire", "change"} /\ call'[u].op = "add"
    <3>1. CASE u = t
      BY <3>1, <1>3, <1>4, <1>12
    <3>2. CASE u # t
      BY <3>2, <1>2, <1>3, <1>11 DEF Shape
    <3> QED BY <3>1, <3>2
  <2>2. \A c \in Cell : Live(c)' => entry'[c].name \in Name
    BY <1>2, <1>10, <1>19 DEF Shape
  <2>3. stopped' \in BOOLEAN /\ wrong' \in BOOLEAN
    BY <1>2, <1>3 DEF Shape
  <2> QED BY <1>13, <2>1, <2>2, <2>3 DEF Shape
<1>22. ListIsChain'
  <2>1. ListIsChain
    BY DEF TargetsInv
  <2>2. \A c \in Entries : Chain[c] # n /\ (Chain[c] # Null => Chain[c] # head) /\ Live(c)
    BY <1>6, <1>7, <1>18, <2>1, <1>4 DEF ListIsChain
  <2>3. \A c \in Entries' : Live(c)' /\ (Chain'[c] # Null => Chain'[c] # Root')
    <3> TAKE c \in Entries'
    <3>1. CASE c = n
      BY <3>1, <1>4, <1>6, <1>7, <1>15, <1>18, <1>19
    <3>2. CASE c \in Entries
      BY <3>2, <2>2, <1>6, <1>15, <1>18, <1>19
    <3> QED BY <3>1, <3>2, <1>17
  <2>4. \A c, d \in Entries' : Chain'[c] = Chain'[d] /\ Chain'[c] # Null => c = d
    <3>1. \A c, d \in Entries : Chain'[c] = Chain'[d] /\ Chain'[c] # Null => c = d
      BY <2>1, <1>18 DEF ListIsChain
    <3>2. \A c \in Entries : Chain'[c] # Null => Chain'[c] # Chain'[n]
      BY <2>2, <1>18
    <3> QED BY <3>1, <3>2, <1>17
  <2>5. \A c \in Cell \ Entries' : Chain'[c] = Null
    BY <2>1, <1>6, <1>16, <1>17 DEF ListIsChain, Pointers
  <2> QED BY <2>3, <2>4, <2>5 DEF ListIsChain
<1>23. Accounted'
  <2>1. Accounted
    BY DEF TargetsInv
  <2>3. New' = {call[u].new : u \in Thread \ {t}} \ {Null}
    BY <1>11, <1>12 DEF New
  <2>4. \A u \in Thread \ {t} : call[u].new # n
    BY <2>1, <1>1, <1>4 DEF Accounted
  <2>5. New' = New \ {n}
    <3>1. New = ({call[u].new : u \in Thread \ {t}} \cup {n}) \ {Null}
      BY <1>1 DEF New
    <3> QED BY <3>1, <2>3, <2>4
  <2>6. n \in New
    BY <1>1, <1>4 DEF New
  <2>7. {c \in Cell : Live(c)}' = {c \in Cell : Live(c)}
    BY <1>19
  <2>8. {c \in Cell : Live(c)}' = Entries' \cup New' \cup orphans'
    BY <2>1, <2>5, <2>6, <2>7, <1>3, <1>17 DEF Accounted
  <2>9. Entries' \cap New' = {} /\ Entries' \cap orphans' = {} /\ New' \cap orphans' = {}
    BY <2>1, <2>5, <1>3, <1>7, <1>17 DEF Accounted
  <2>10. \A u, v \in Thread : call'[u].new = call'[v].new /\ call'[u].new # Null => u = v
    BY <2>1, <1>11, <1>12 DEF Accounted
  <2> QED BY <2>8, <2>9, <2>10 DEF Accounted
<1>24. RemovalsMet'
  BY <1>14 DEF RemovalsMet, Mending
<1>25. CallsFit'
  <2>1. PlaceFits(t)' /\ LookupFits(t)' /\ DecisionFits(t)'
    BY <1>12 DEF PlaceFits, LookupFits, DecisionFits, Undisturbed
  <2>2. ASSUME NEW u \in Thread \ {t}, call[u].pc \in {"walk", "found", "acquire", "change"}, call'[u].met # "removal"
        PROVE  /\ Meets(u) /\ Undisturbed(u, {"walk", "found", "acquire", "change"})
               /\ PlaceFits(u)
               /\ call[u].pc \in {"walk", "found"} => call[u].new = Null
               /\ call[u].pc = "acquire" /\ call[u].op = "remove" => call[u].new = Null
    <3>1. call[u].pc # "change"
      BY <2>2, <1>2, <1>4 DEF Shape
    <3> QED BY <2>2, <3>1, <1>2, <1>11 DEF Meets, Undisturbed, TargetsInv, CallsFit, Shape
  <2>3. ASSUME NEW u \in Thread \ {t}, Undisturbed(u, {"walk", "found", "acquire", "change"}), call[u].new = Null
        PROVE  /\ call[u].place = Head => Pointed(u)' = n /\ Ahead(u)' = Entries' /\ Ahead(u) = Entries
               /\ call[u].place # Head =>
                    /\ Pointed(u)' = Pointed(u) /\ Ahead(u)' = Ahead(u)
                    /\ Pointed(u) \in Entries \cup {Null}
               /\ Ahead(u) \subseteq Entries
    <3>1. call[u].place \in Entries \cup {Head} /\ Pointed(u) \in Entries \cup {Null}
      BY <1>5, <2>3, PlaceIsListed
    <3>2. Ahead(u) \subseteq Entries
      BY <3>1, <1>6, ReachLeast DEF Ahead
    <3>3. CASE call[u].place = Head
      <4>1. Pointed(u)' = n /\ Pointed(u) = head
        BY <3>3, <1>3, <1>11 DEF Pointed
      <4>2. Ahead(u)' = Entries'
        BY <4>1, <1>15 DEF Ahead, Entries
      <4>3. Ahead(u) = Entries
        BY <4>1, <1>6 DEF Ahead, Entries
      <4> QED BY <3>3, <4>1, <4>2, <4>3
    <3>4. CASE call[u].place # Head
      <4>1. Pointed(u)' = Pointed(u)
        BY <3>1, <3>4, <1>6, <1>7, <1>9, <1>11 DEF Pointed
      <4>2. Pointed(u) \in Cell \cup {Null}
        BY <3>1, <1>6
      <4>3. \A c \in Reach(Chain, Pointed(u)) : Chain'[c] = Chain[c]
        BY <3>2, <1>18 DEF Ahead
      <4>4. Reach(Chain', Pointed(u)) = Reach(Chain, Pointed(u))
        BY <4>2, <4>3, <1>6, <1>17, ReachSame
      <4> QED BY <3>1, <3>2, <3>4, <4>1, <4>4 DEF Ahead
    <3> QED BY <3>2, <3>3, <3>4
  <2>4. ASSUME NEW u \in Thread \ {t} PROVE PlaceFits(u)'
    <3>1. SUFFICES ASSUME call[u].pc \in {"walk", "found", "acquire", "change"}, call'[u].met # "removal"
                   PROVE  PlaceFits(u)'
      BY <1>11 DEF PlaceFits, Undisturbed
    <3>2. PlaceFits(u) /\ Undisturbed(u, {"walk", "found", "acquire", "change"})
      BY <3>1, <2>2
    <3>3. call'[u].new = Null => call'[u].place \in Entries' \cup {Head}
      BY <3>2, <1>11, <1>17 DEF PlaceFits
    <3>4. call'[u].met = "add" => call'[u].place = Head /\ call'[u].pc # "walk" /\ head' # Null
      BY <3>2, <1>3, <1>4, <1>11 DEF PlaceFits
    <3> QED BY <3>3, <3>4 DEF PlaceFits
  <2>5. ASSUME NEW u \in Thread \ {t} PROVE LookupFits(u)'
    <3>1. SUFFICES ASSUME call[u].pc \in {"walk", "found"}, call'[u].met # "removal" PROVE LookupFits(u)'
      BY <1>11 DEF LookupFits, Undisturbed
    <3>2. /\ Meets(u) /\ Undisturbed(u, {"walk", "found", "acquire", "change"}) /\ Undisturbed(u, {"walk", "found"})
          /\ call[u].new = Null
      BY <3>1, <2>2 DEF Undisturbed
    <3>3. LookupFits(u)
      BY DEF TargetsInv, CallsFit
    <3>4. Ahead(u) \subseteq Ahead(u)' /\ Ahead(u) \subseteq Entries
          /\ (Entries' \ Ahead(u)') \subseteq (Entries \ Ahead(u)) \cup {n}
      BY <3>2, <2>3, <1>17
    <3>5. call'[u].due => \E c \in Ahead(u)' : entry'[c].name = call'[u].name
      BY <3>2, <3>3, <3>4, <1>6, <1>10, <1>11 DEF LookupFits
    <3>6. call'[u].op = "add" /\ ~call'[u].twin => \A c \in Entries' \ Ahead(u)' : entry'[c].name # call'[u].name
      <4>1. SUFFICES ASSUME call[u].op = "add", ~call'[u].twin, NEW c \in Entries' \ Ahead(u)'
                     PROVE  entry'[c].name # call[u].name
        BY <1>11
      <4>2. ~call[u].twin /\ call[u].name # call[t].name
        BY <4>1, <3>1, <3>2, <1>11
      <4>3. CASE c = n
        BY <4>2, <4>3, <1>7, <1>9
      <4>4. CASE c \in Entries \ Ahead(u)
        BY <4>1, <4>2, <4>4, <3>2, <3>3, <1>6, <1>10 DEF LookupFits
      <4> QED BY <4>1, <4>3, <4>4, <3>4
    <3>7. call'[u].pc = "found" /\ call'[u].met = "nothing" /\ Pointed(u)' # Null =>
             entry'[Pointed(u)'].name = call'[u].name
      <4>1. SUFFICES ASSUME call[u].pc = "found", call'[u].met = "nothing", Pointed(u)' # Null
                     PROVE  entry'[Pointed(u)'].name = call[u].name
        BY <1>11
      <4>2. call[u].place # Head /\ call[u].met = "nothing"
        BY <4>1, <3>1, <3>2, <1>11
      <4>3. Pointed(u)' = Pointed(u) /\ Pointed(u) \in Cell
        BY <4>1, <4>2, <3>2, <2>3, <1>6
      <4>4. entry[Pointed(u)].name = call[u].name
        BY <4>1, <4>2, <4>3, <3>2, <3>3 DEF LookupFits
      <4> QED BY <4>3, <4>4, <1>10
    <3> QED BY <3>5, <3>6, <3>7 DEF LookupFits
  <2>6. ASSUME NEW u \in Thread \ {t} PROVE DecisionFits(u)'
    <3>1. SUFFICES ASSUME call[u].pc \in {"acquire", "change"}, call'[u].met # "removal" PROVE DecisionFits(u)'
      BY <1>11 DEF DecisionFits, Undisturbed
    <3>2. /\ Meets(u) /\ Undisturbed(u, {"walk", "found", "acquire", "change"}) /\ call[u].pc = "acquire"
          /\ call[u].op = "remove" => call[u].new = Null
      BY <3>1, <2>2 DEF Undisturbed, Meets
    <3>3. DecisionFits(u) /\ Undisturbed(u, {"acquire", "change"})
      BY <3>1, <3>2 DEF TargetsInv, CallsFit, Undisturbed
    <3>4. call'[u].op = "add" /\ ~call'[u].twin => \A c \in Entries' : entry'[c].name # call'[u].name
      <4>1. SUFFICES ASSUME call[u].op = "add", ~call'[u].twin, NEW c \in Entries'
                     PROVE  entry'[c].name # call[u].name
        BY <1>11
      <4>2. ~call[u].twin /\ call[u].name # call[t].name
        BY <4>1, <3>1, <3>2, <1>11
      <4>3. CASE c = n
        BY <4>2, <4>3, <1>7, <1>9
      <4>4. CASE c \in Entries
        BY <4>1, <4>2, <4>4, <3>3, <1>6, <1>10 DEF DecisionFits
      <4> QED BY <4>1, <4>3, <4>4, <1>17
    <3>5. ASSUME call'[u].op = "remove"
          PROVE  /\ Pointed(u)' # Null
                 /\ call'[u].met = "nothing" => entry'[Pointed(u)'].name = call'[u].name
      <4>1. call[u].op = "remove" /\ call[u].new = Null /\ Pointed(u) # Null
        BY <3>2, <3>3, <3>5, <1>11 DEF DecisionFits
      <4>2. CASE call[u].place = Head
        <5>1. Pointed(u)' = n
          BY <4>1, <4>2, <3>2, <2>3
        <5>2. call'[u].met = "add"
          BY <4>2, <3>1, <3>2, <1>11
        <5> QED BY <5>1, <5>2, <1>4
      <4>3. CASE call[u].place # Head
        <5>1. Pointed(u)' = Pointed(u) /\ Pointed(u) \in Cell
          BY <4>1, <4>3, <3>2, <2>3, <1>6
        <5>2. call'[u].met = "nothing" => entry[Pointed(u)].name = call[u].name
          BY <4>1, <3>1, <3>2, <3>3, <1>11 DEF DecisionFits
        <5> QED BY <5>1, <5>2, <4>1, <1>10, <1>11
      <4> QED BY <4>2, <4>3
    <3> QED BY <3>4, <3>5 DEF DecisionFits
  <2> QED BY <2>1, <2>4, <2>5, <2>6 DEF CallsFit
<1>26. NamesOK'
  <2>1. \A c, d \in Entries : entry[c].name = entry[d].name /\ c # d => entry[c].name \in twins
    BY DEF TargetsInv, NamesOK
  <2>2. twins \subseteq twins'
    BY <1>3
  <2>3. ASSUME NEW c \in Entries, entry[c].name = call[t].name
        PROVE  call[t].name \in twins'
    <3>1. call[t].twin \/ call[t].met = "removal"
      BY <2>3, <1>3 DEF TargetsInv, CallsFit, DecisionFits, Undisturbed
    <3> QED BY <3>1, <1>3
  <2>4. ASSUME NEW c \in Entries', NEW d \in Entries', entry'[c].name = entry'[d].name, c # d
        PROVE  entry'[c].name \in twins'
    <3>1. entry[c].name = entry[d].name /\ entry'[c].name = entry[c].name
      BY <2>4, <1>4, <1>6, <1>10, <1>17
    <3>2. CASE c \in Entries /\ d \in Entries
      BY <3>1, <3>2, <2>1, <2>2, <2>4
    <3>3. CASE c = n /\ d \in Entries
      BY <3>1, <3>3, <2>3, <1>7
    <3>4. CASE d = n /\ c \in Entries
      BY <3>1, <3>4, <2>3, <1>7
    <3> QED BY <3>2, <3>3, <3>4, <2>4, <1>17
  <2> QED BY <2>4 DEF NamesOK
<1>27. NewNamed'
  <2>1. ASSUME NEW u \in Thread \ {t}, call[u].new # Null
        PROVE  entry'[call[u].new].name = call[u].name
    <3>1. call[u].new \in Cell
      BY <2>1, <1>2 DEF TargetsTypeOK
    <3> QED BY <3>1, <2>1, <1>10 DEF TargetsInv, NewNamed
  <2> QED BY <2>1, <1>11, <1>12 DEF NewNamed
<1>28. WalkIsSafe'
  BY <1>3 DEF WalkIsSafe
<1> QED BY <1>20, <1>21, <1>22, <1>23, <1>24, <1>25, <1>26, <1>27, <1>28 DEF TargetsInv

\* What a removal changes for a call.
LEMMA MeetRemovalIs ==
    ASSUME TargetsInv, NEW u \in Thread, NEW r, r = MeetRemoval(u)
    PROVE  /\ r \in CallTypes /\ r.pc = call[u].pc /\ r.op = call[u].op /\ r.name = call[u].name
           /\ r.place = call[u].place /\ r.new = call[u].new
           /\ Meets(u) => r.met = "removal"
           /\ ~Meets(u) => r = call[u]
<1>1. call[u] \in CallTypes
  BY CallShape
<1>2. CASE ~Meets(u)
  BY <1>1, <1>2 DEF MeetRemoval
<1>3. CASE Meets(u)
  <2>1. r = [call[u] EXCEPT !.met = "removal", !.twin = FALSE, !.due = FALSE]
    BY <1>3 DEF MeetRemoval
  <2> QED BY <1>1, <1>3, <2>1 DEF CallTypes
<1> QED BY <1>2, <1>3

\* The entry that a removal frees is in the list, and taking it out leaves the rest.
LEMMA FreeTakesOut ==
    ASSUME TargetsInv, NEW t \in Thread, call[t].pc = "change", call[t].op = "remove", ~Mending,
           PlaceThere(t), NEW x, x = Pointed(t), x # Null, NEW p, p = call[t].place,
           \A q : Mends(q)' <=> q = p, call'[receive_lock'].next = entry[x].next,
           entry' = [entry EXCEPT ![x] = Freed], head' = head
    PROVE  /\ x \in Entries /\ x \in Cell
           /\ Entries' = Entries \ {x}
           /\ ListIsChain'
<1>1. call \in [Thread -> CallTypes] /\ call[t] \in CallTypes /\ Shape /\ TargetsTypeOK
  BY CallShape
<1>2. /\ Root = head /\ Chain = [c \in Cell |-> entry[c].next] /\ Chain \in Pointers
      /\ Entries \in SUBSET Cell /\ Root \in Entries \cup {Null} /\ ClosedUnder(Chain, Entries)
      /\ Root \in Cell \cup {Null}
  BY <1>1, Unmended, PointersType
<1>3. ListIsChain
  BY DEF TargetsInv
<1>4. p \in Cell \cup {Head} /\ Head \notin Cell
  BY <1>1, NullIsNoCell DEF CallTypes, Head
<1>5. x \in Entries /\ x \in Cell /\ (p = Head => x = Root) /\ (p # Head => p \in Entries /\ Chain[p] = x)
  <2>1. CASE p = Head
    BY <2>1, <1>2 DEF Pointed
  <2>2. CASE p # Head
    <3>1. p \in Cell /\ x = entry[p].next /\ Chain[p] = x
      BY <2>2, <1>2, <1>4 DEF Pointed
    <3>2. p \in Entries
      BY <3>1, <1>3 DEF ListIsChain
    <3> QED BY <2>2, <3>1, <3>2, <1>2 DEF ClosedUnder
  <2> QED BY <2>1, <2>2
<1>6. Chain[x] = entry[x].next /\ Chain[x] \in Entries \cup {Null}
  BY <1>2, <1>5 DEF ClosedUnder
<1>7. /\ entry' \in [Cell -> [name : Name \cup {Null}, next : Cell \cup {Null}]]
      /\ entry'[x].next = Null /\ \A c \in Cell : c # x => entry'[c] = entry[c]
  BY <1>1, <1>5 DEF TargetsTypeOK, Freed
<1>8. \A c \in Cell : c # x => (Live(c)' <=> Live(c))
  BY <1>7 DEF Live
<1>9. CASE p = Head
  <2>1. Root' = Chain[x]
    BY <1>6, <1>9 DEF Root
  <2>2. \A c \in Cell : ~Mends(c)'
    BY <1>4, <1>9
  <2>3. Chain' = [Chain EXCEPT ![x] = Null]
    BY <2>2, <1>2, <1>5, <1>7 DEF Chain
  <2>4. \A c \in Reach(Chain, x) : Chain[c] # x
    <3>1. Reach(Chain, x) = Entries
      BY <1>5, <1>9 DEF Entries
    <3> QED BY <3>1, <1>3, <1>5, <1>9 DEF ListIsChain
  <2>5. Entries' = Entries \ {x}
    <3>1. Reach(Chain', Chain[x]) = Reach(Chain, x) \ {x}
      BY <1>2, <1>5, <2>3, <2>4, ReachRemoveFirst
    <3> QED BY <3>1, <2>1, <1>5, <1>9 DEF Entries
  <2>6. \A c \in Cell : Chain'[c] = IF c = x THEN Null ELSE Chain[c]
    BY <2>3, <1>2 DEF Pointers
  <2>7. ListIsChain'
    <3>1. \A c \in Entries \ {x} : Chain[c] # Null => Chain[c] # Chain[x]
      BY <1>3, <1>5 DEF ListIsChain
    <3>2. \A c \in Entries' : Live(c)' /\ (Chain'[c] # Null => Chain'[c] # Root')
      BY <3>1, <1>2, <1>3, <1>8, <2>1, <2>5, <2>6 DEF ListIsChain
    <3>3. \A c, d \in Entries' : Chain'[c] = Chain'[d] /\ Chain'[c] # Null => c = d
      BY <1>2, <1>3, <2>5, <2>6 DEF ListIsChain
    <3>4. \A c \in Cell \ Entries' : Chain'[c] = Null
      BY <1>3, <2>5, <2>6 DEF ListIsChain
    <3> QED BY <3>2, <3>3, <3>4 DEF ListIsChain
  <2> QED BY <1>5, <2>5, <2>7
<1>10. CASE p # Head
  <2>1. Root' = Root
    BY <1>2, <1>10 DEF Root
  <2>2. p \in Entries /\ Chain[p] = x /\ x # Root /\ (\A c \in Entries : Chain[c] = x => c = p)
    BY <1>3, <1>5, <1>10 DEF ListIsChain
  <2>3. p # x
    <3>1. p \in Reach(Chain, Root) /\ \A c \in Reach(Chain, Root) : Chain[c] = x => c = p
      BY <2>2 DEF Entries
    <3>2. Chain \in Pointers /\ Root \in Cell \cup {Null} /\ Chain[p] = x /\ x # Root /\ x \in Cell
      BY <1>2, <1>5, <2>2
    <3> QED BY <3>1, <3>2, ReachNoLoop
  <2>4. \A c \in Cell : Chain'[c] = IF c = p THEN Chain[x] ELSE IF c = x THEN Null ELSE Chain[c]
    BY <1>2, <1>6, <1>7, <1>10, <2>3 DEF Chain
  <2>5. Chain' \in Pointers
    <3>1. Chain' = [c \in Cell |-> Chain'[c]]
      BY DEF Chain
    <3>2. \A c \in Cell : Chain'[c] \in Cell \cup {Null}
      BY <2>4, <1>2, <1>5 DEF Pointers
    <3> QED BY <3>1, <3>2 DEF Pointers
  <2>6. Entries' = Entries \ {x}
    <3>1. p \in Reach(Chain, Root) /\ \A c \in Reach(Chain, Root) : Chain[c] = x => c = p
      BY <2>2 DEF Entries
    <3>2. Chain \in Pointers /\ Root \in Cell \cup {Null} /\ Chain[p] = x /\ x # Root /\ x \in Cell
      BY <1>2, <1>5, <2>2
    <3>3. Reach(Chain', Root) = Reach(Chain, Root) \ {x}
      BY <3>1, <3>2, <2>4, <2>5, ReachRemove
    <3> QED BY <3>3, <2>1 DEF Entries
  <2>7. ListIsChain'
    <3>1. \A c \in Entries \ {x} : Chain[c] # Null => Chain[c] # Chain[x]
      BY <1>3, <1>5 DEF ListIsChain
    <3>2. \A c \in Entries' : Live(c)' /\ (Chain'[c] # Null => Chain'[c] # Root')
      <4> TAKE c \in Entries'
      <4>1. c \in Entries /\ c # x /\ c \in Cell /\ Live(c)'
        BY <1>2, <1>3, <1>8, <2>6 DEF ListIsChain
      <4>2. Chain'[c] = Chain[x] \/ Chain'[c] = Chain[c]
        BY <4>1, <2>4
      <4> QED BY <4>1, <4>2, <1>3, <1>5, <2>1 DEF ListIsChain
    <3>3. \A c, d \in Entries' : Chain'[c] = Chain'[d] /\ Chain'[c] # Null => c = d
      BY <3>1, <1>2, <1>3, <2>4, <2>6 DEF ListIsChain
    <3>4. \A c \in Cell \ Entries' : Chain'[c] = Null
      BY <1>3, <2>2, <2>3, <2>4, <2>6 DEF ListIsChain
    <3> QED BY <3>2, <3>3, <3>4 DEF ListIsChain
  <2> QED BY <1>5, <2>6, <2>7
<1> QED BY <1>9, <1>10

\* An entry is freed: it is out of the list, and all that look for one know it.
LEMMA FreeKeeps ==
    ASSUME TargetsInv, NEW t \in Thread, Free(t)
    PROVE  TargetsInv'
<1>1. PICK x : x = Pointed(t)
  OBVIOUS
<1>2. call[t].pc = "change" /\ call[t].op = "remove" /\ ~wrong
  BY DEF Free, At
<1>3. CASE ~PlaceThere(t) \/ x = Null \/ ~Live(x)
  <2>1. UseFails
    BY <1>1, <1>3 DEF Free
  <2> QED BY <2>1, <1>1, <1>2, <1>3, FreeNotGone, WrongKeeps DEF UseFails
<1>4. CASE PlaceThere(t) /\ x # Null /\ Live(x)
  <2>1. PICK r : r = [call[t] EXCEPT !.pc = "relink", !.next = entry[x].next]
    OBVIOUS
  <2>2. /\ entry' = [entry EXCEPT ![x] = Freed]
        /\ call' = [u \in Thread |-> IF u # t THEN MeetRemoval(u) ELSE r]
        /\ UNCHANGED <<head, receive_lock, stopped, failed, orphans, twins, wrong>>
    BY <1>1, <1>4, <2>1 DEF Free
  <2>3. call \in [Thread -> CallTypes] /\ call[t] \in CallTypes /\ Shape /\ TargetsTypeOK /\ Null \notin Thread
    BY CallShape
  <2>4. receive_lock = t /\ ~Mending /\ call[t].new = Null
    BY <1>2, <2>3, NotMending DEF Shape
  <2>5. x \in Cell /\ entry \in [Cell -> [name : Name \cup {Null}, next : Cell \cup {Null}]]
    <3>1. call[t].place # Head => call[t].place \in Cell
      BY <2>3 DEF CallTypes
    <3> QED BY <1>1, <1>4, <2>3, <3>1 DEF TargetsTypeOK, Pointed
  <2>6. entry[x].next \in Cell \cup {Null}
    BY <2>5
  <2>7. /\ r \in CallTypes /\ r.pc = "relink" /\ r.new = Null /\ r.place = call[t].place
        /\ r.next = entry[x].next
    BY <2>1, <2>3, <2>4, <2>6 DEF CallTypes
  <2>8. ASSUME NEW u \in Thread \ {t}
        PROVE  /\ call'[u] \in CallTypes /\ call'[u].pc = call[u].pc /\ call'[u].op = call[u].op
               /\ call'[u].name = call[u].name /\ call'[u].place = call[u].place
               /\ call'[u].new = call[u].new
               /\ Meets(u) => call'[u].met = "removal"
    <3>1. PICK s : s = call'[u]
      OBVIOUS
    <3>2. s = MeetRemoval(u)
      BY <2>2, <3>1
    <3> QED BY <3>1, <3>2, MeetRemovalIs
  <2>9. call'[t] = r
    BY <2>2
  <2>10. call' \in [Thread -> CallTypes]
    <3>1. call' = [u \in Thread |-> call'[u]]
      BY <2>2
    <3>2. \A u \in Thread : call'[u] \in CallTypes
      BY <2>7, <2>8, <2>9
    <3> QED BY <3>1, <3>2
  <2>11. (\A q : Mends(q)' <=> q = call[t].place) /\ call'[receive_lock'].next = entry[x].next
    BY <2>2, <2>4, <2>7, <2>9 DEF Mends
  <2>12. x \in Entries /\ Entries' = Entries \ {x} /\ ListIsChain'
    BY <1>1, <1>2, <1>4, <2>2, <2>4, <2>11, FreeTakesOut
  <2>13. /\ entry' \in [Cell -> [name : Name \cup {Null}, next : Cell \cup {Null}]]
         /\ entry'[x] = Freed /\ \A c \in Cell : c # x => entry'[c] = entry[c]
    BY <2>2, <2>5 DEF Freed
  <2>14. \A c \in Cell : Live(c)' <=> Live(c) /\ c # x
    BY <2>13 DEF Live
  <2>15. TargetsTypeOK'
    <3>1. \A u \in Thread : /\ call'[u].pc \in {"idle", "walk", "found", "acquire", "change", "relink", "release"}
                            /\ call'[u].place \in Cell \cup {Head} /\ call'[u].new \in Cell \cup {Null}
      BY <2>10 DEF CallTypes
    <3>2. \A u \in Thread : call'[u].pc \in {"change", "relink"} => receive_lock' = u
      BY <2>2, <2>3, <2>4, <2>8 DEF TargetsTypeOK
    <3>3. /\ head' \in Cell \cup {Null} /\ receive_lock' \in Thread \cup {Null}
          /\ orphans' \subseteq Cell /\ twins' \subseteq Name /\ failed' \in 0..MaxFailures
      BY <2>2, <2>3 DEF TargetsTypeOK
    <3> QED BY <2>13, <3>1, <3>2, <3>3 DEF TargetsTypeOK
  <2>16. Shape'
    <3>1. ASSUME NEW u \in Thread
          PROVE  /\ call'[u].pc \in {"walk", "found", "acquire", "change"} => call'[u].op # "none" /\ call'[u].name \in Name
                 /\ call'[u].pc \in {"acquire", "change"} => call'[u].op # "serve"
                 /\ call'[u].pc \in {"change", "relink", "release"} => receive_lock' = u
                 /\ call'[u].new # Null <=> call'[u].pc \in {"acquire", "change"} /\ call'[u].op = "add"
      <4>1. CASE u = t
        BY <4>1, <2>2, <2>4, <2>7, <2>9
      <4>2. CASE u # t
        BY <4>2, <2>2, <2>3, <2>8 DEF Shape
      <4> QED BY <4>1, <4>2
    <3>2. \A c \in Cell : Live(c)' => entry'[c].name \in Name
      BY <2>3, <2>13, <2>14 DEF Shape
    <3>3. stopped' \in BOOLEAN /\ wrong' \in BOOLEAN
      BY <2>2, <2>3 DEF Shape
    <3> QED BY <2>10, <3>1, <3>2, <3>3 DEF Shape
  <2>17. Accounted'
    <3>1. Accounted
      BY DEF TargetsInv
    <3>2. \A u \in Thread : call'[u].new = call[u].new
      BY <2>4, <2>7, <2>8, <2>9
    <3>3. New' = New
      BY <3>2 DEF New
    <3>4. {c \in Cell : Live(c)}' = {c \in Cell : Live(c)} \ {x}
      BY <2>14
    <3>5. x \notin New /\ x \notin orphans
      BY <3>1, <2>12 DEF Accounted
    <3>6. {c \in Cell : Live(c)}' = Entries' \cup New' \cup orphans'
      BY <3>1, <3>3, <3>4, <3>5, <2>2, <2>12 DEF Accounted
    <3>7. Entries' \cap New' = {} /\ Entries' \cap orphans' = {} /\ New' \cap orphans' = {}
      BY <3>1, <3>3, <2>2, <2>12 DEF Accounted
    <3>8. \A u, v \in Thread : call'[u].new = call'[v].new /\ call'[u].new # Null => u = v
      BY <3>1, <3>2 DEF Accounted
    <3> QED BY <3>6, <3>7, <3>8 DEF Accounted
  <2>18. ASSUME NEW u \in Thread, call'[u].pc \in {"walk", "found", "acquire", "change"}
         PROVE  call'[u].met = "removal"
    <3>1. u # t
      BY <2>7, <2>9, <2>18
    <3>2. call[u].pc # "change"
      BY <3>1, <2>3, <2>4 DEF Shape
    <3> QED BY <3>1, <3>2, <2>8, <2>18 DEF Meets
  <2>19. RemovalsMet'
    BY <2>18 DEF RemovalsMet, Meets
  <2>20. CallsFit'
    BY <2>18 DEF CallsFit, PlaceFits, LookupFits, DecisionFits, Undisturbed
  <2>21. NamesOK'
    <3>1. Entries \in SUBSET Cell
      BY <2>3, PointersType
    <3>2. \A c \in Entries' : c \in Entries /\ entry'[c].name = entry[c].name
      BY <3>1, <2>12, <2>13
    <3> QED BY <3>2, <2>2 DEF TargetsInv, NamesOK
  <2>22. NewNamed'
    <3>1. ASSUME NEW u \in Thread \ {t}, call[u].new # Null
          PROVE  entry'[call[u].new].name = call[u].name
      <4>1. call[u].new \in Cell /\ call[u].new \in New
        BY <3>1, <2>3 DEF TargetsTypeOK, New
      <4>2. call[u].new # x
        BY <4>1, <2>12 DEF TargetsInv, Accounted
      <4> QED BY <3>1, <4>1, <4>2, <2>13 DEF TargetsInv, NewNamed
    <3> QED BY <3>1, <2>7, <2>8, <2>9 DEF NewNamed
  <2>23. WalkIsSafe'
    BY <1>2, <2>2 DEF WalkIsSafe
  <2> QED BY <2>12, <2>15, <2>16, <2>17, <2>19, <2>20, <2>21, <2>22, <2>23 DEF TargetsInv
<1> QED BY <1>3, <1>4

\* The place is mended: it points to what followed the freed entry, as Chain has it.
LEMMA RelinkKeeps ==
    ASSUME TargetsInv, NEW t \in Thread, Relink(t)
    PROVE  TargetsInv'
<1>1. PICK p : p = call[t].place
  OBVIOUS
<1>2. /\ call[t].pc = "relink" /\ ~wrong /\ call' = [call EXCEPT ![t] = Changed]
      /\ IF p = Head THEN head' = call[t].next /\ UNCHANGED entry
         ELSE entry' = [entry EXCEPT ![p] = [entry[p] EXCEPT !.next = call[t].next]] /\ UNCHANGED head
      /\ UNCHANGED <<receive_lock, stopped, failed, orphans, twins, wrong>>
  BY <1>1 DEF Relink, At, Set
<1>3. call \in [Thread -> CallTypes] /\ call[t] \in CallTypes /\ Shape /\ TargetsTypeOK /\ Null \notin Thread
  BY CallShape
<1>4. /\ receive_lock = t /\ call[t].new = Null /\ call[t].next \in Cell \cup {Null}
      /\ p \in Cell \cup {Head} /\ Head \notin Cell
  BY <1>1, <1>2, <1>3, NullIsNoCell DEF Shape, CallTypes, Head
<1>5. /\ Changed \in CallTypes /\ Changed.pc = "release" /\ Changed.new = Null
  BY DEF Changed, NoCall, CallTypes, Head
<1>6. /\ call' \in [Thread -> CallTypes] /\ call'[t] = Changed
      /\ \A u \in Thread \ {t} : call'[u] = call[u]
  BY <1>2, <1>3, <1>5
<1>7. \A q : Mends(q) <=> q = p
  BY <1>1, <1>2, <1>4 DEF Mends
<1>8. Mending
  BY <1>4, <1>7 DEF Mending
<1>9. \A q : ~Mends(q)'
  BY <1>2, <1>4, <1>5, <1>6 DEF Mends
<1>10. Root' = Root
  BY <1>2, <1>4, <1>7, <1>9 DEF Root
<1>11. entry \in [Cell -> [name : Name \cup {Null}, next : Cell \cup {Null}]]
  BY <1>3 DEF TargetsTypeOK
<1>12. /\ entry' \in [Cell -> [name : Name \cup {Null}, next : Cell \cup {Null}]]
       /\ \A c \in Cell : entry'[c].name = entry[c].name /\ (c # p => entry'[c] = entry[c])
       /\ p # Head => entry'[p].next = call[t].next
  BY <1>2, <1>4, <1>11
<1>13. Chain' = Chain
  <2>1. \A c \in Cell : entry'[c].next = IF c = p THEN call[t].next ELSE entry[c].next
    BY <1>4, <1>12
  <2> QED BY <2>1, <1>2, <1>4, <1>7, <1>9 DEF Chain
<1>14. Entries' = Entries
  BY <1>10, <1>13 DEF Entries
<1>15. Chain[p] = call[t].next \/ p = Head
  BY <1>4, <1>7 DEF Chain
<1>16. \A c \in Cell : Live(c)' <=> Live(c)
  <2> TAKE c \in Cell
  <2>1. CASE c # p
    BY <2>1, <1>12 DEF Live
  <2>2. CASE c = p /\ Live(c)
    <3>1. entry[c].name \in Name
      BY <2>2, <1>3 DEF Shape
    <3> QED BY <2>2, <3>1, <1>12, NullIsNoCell DEF Live, Freed
  <2>3. CASE c = p /\ ~Live(c)
    <3>1. c \notin Entries
      BY <2>3 DEF TargetsInv, ListIsChain
    <3>2. call[t].next = Null
      BY <2>3, <3>1, <1>4, <1>15 DEF TargetsInv, ListIsChain
    <3>3. entry'[c].name = Null /\ entry'[c].next = Null
      BY <2>3, <3>2, <1>4, <1>12 DEF Live, Freed
    <3>4. entry'[c] = Freed
      BY <3>3, <1>12 DEF Freed
    <3> QED BY <2>3, <3>4 DEF Live
  <2> QED BY <2>1, <2>2, <2>3
<1>17. TargetsTypeOK'
  <2>1. \A u \in Thread : /\ call'[u].pc \in {"idle", "walk", "found", "acquire", "change", "relink", "release"}
                          /\ call'[u].place \in Cell \cup {Head} /\ call'[u].new \in Cell \cup {Null}
    BY <1>6 DEF CallTypes
  <2>2. \A u \in Thread : call'[u].pc \in {"change", "relink"} => receive_lock' = u
    BY <1>2, <1>3, <1>5, <1>6 DEF TargetsTypeOK
  <2>3. /\ head' \in Cell \cup {Null} /\ receive_lock' \in Thread \cup {Null}
        /\ orphans' \subseteq Cell /\ twins' \subseteq Name /\ failed' \in 0..MaxFailures
    BY <1>2, <1>3, <1>4 DEF TargetsTypeOK
  <2> QED BY <1>12, <2>1, <2>2, <2>3 DEF TargetsTypeOK
<1>18. Shape'
  <2>1. ASSUME NEW u \in Thread
        PROVE  /\ call'[u].pc \in {"walk", "found", "acquire", "change"} => call'[u].op # "none" /\ call'[u].name \in Name
               /\ call'[u].pc \in {"acquire", "change"} => call'[u].op # "serve"
               /\ call'[u].pc \in {"change", "relink", "release"} => receive_lock' = u
               /\ call'[u].new # Null <=> call'[u].pc \in {"acquire", "change"} /\ call'[u].op = "add"
    <3>1. CASE u = t
      BY <3>1, <1>2, <1>4, <1>5, <1>6
    <3>2. CASE u # t
      BY <3>2, <1>2, <1>3, <1>6 DEF Shape
    <3> QED BY <3>1, <3>2
  <2>2. \A c \in Cell : Live(c)' => entry'[c].name \in Name
    BY <1>3, <1>12, <1>16 DEF Shape
  <2>3. stopped' \in BOOLEAN /\ wrong' \in BOOLEAN
    BY <1>2, <1>3 DEF Shape
  <2> QED BY <1>6, <2>1, <2>2, <2>3 DEF Shape
<1>19. Entries \in SUBSET Cell
  BY <1>3, PointersType
<1>20. ListIsChain'
  BY <1>10, <1>13, <1>14, <1>16, <1>19 DEF TargetsInv, ListIsChain
<1>21. Accounted'
  <2>1. Accounted
    BY DEF TargetsInv
  <2>2. \A u \in Thread : call'[u].new = call[u].new
    BY <1>4, <1>5, <1>6
  <2>3. New' = New
    BY <2>2 DEF New
  <2>4. {c \in Cell : Live(c)}' = {c \in Cell : Live(c)}
    BY <1>16
  <2> QED BY <2>1, <2>2, <2>3, <2>4, <1>2, <1>14 DEF Accounted
<1>22. RemovalsMet'
  BY <1>9 DEF RemovalsMet, Mending
<1>23. ASSUME NEW u \in Thread, call'[u].pc \in {"walk", "found", "acquire", "change"}
       PROVE  call'[u].met = "removal"
  <2>1. u # t
    BY <1>5, <1>6, <1>23
  <2>2. call[u].pc # "change"
    BY <2>1, <1>3, <1>4 DEF Shape
  <2> QED BY <2>1, <2>2, <1>6, <1>8, <1>23 DEF Meets, TargetsInv, RemovalsMet
<1>24. CallsFit'
  BY <1>23 DEF CallsFit, PlaceFits, LookupFits, DecisionFits, Undisturbed
<1>25. NamesOK'
  BY <1>2, <1>12, <1>14, <1>19 DEF TargetsInv, NamesOK
<1>26. NewNamed'
  <2>1. ASSUME NEW u \in Thread \ {t}, call[u].new # Null
        PROVE  entry'[call[u].new].name = call[u].name
    <3>1. call[u].new \in Cell
      BY <2>1, <1>3 DEF TargetsTypeOK
    <3> QED BY <3>1, <2>1, <1>12 DEF TargetsInv, NewNamed
  <2> QED BY <2>1, <1>5, <1>6 DEF NewNamed
<1>27. WalkIsSafe'
  BY <1>2 DEF WalkIsSafe
<1> QED BY <1>17, <1>18, <1>20, <1>21, <1>22, <1>24, <1>25, <1>26, <1>27 DEF TargetsInv

\* The list is freed.
LEMMA TargetsStopKeeps ==
    ASSUME TargetsInv, Stop
    PROVE  TargetsInv'
<1>1. /\ ~wrong /\ receive_lock = Null /\ \A t \in Thread : call[t].pc = "idle"
      /\ stopped' = TRUE /\ entry' = [c \in Cell |-> IF c \in List THEN Freed ELSE entry[c]] /\ head' = Null
      /\ UNCHANGED <<receive_lock, call, failed, orphans, twins, wrong>>
  BY DEF Stop
<1>2. TargetsTypeOK /\ Shape /\ Null \notin Thread
  BY NullIsNoCell DEF TargetsInv, Thread
<1>3. \A p : ~Mends(p) /\ ~Mends(p)'
  BY <1>1, <1>2 DEF Mends
<1>4. ~Mending
  BY <1>3 DEF Mending
<1>5. Entries = List /\ Chain = [c \in Cell |-> entry[c].next] /\ Entries \in SUBSET Cell
  BY <1>2, <1>4, Unmended, PointersType
<1>6. /\ entry' \in [Cell -> [name : Name \cup {Null}, next : Cell \cup {Null}]]
      /\ \A c \in Entries : entry'[c] = Freed
      /\ \A c \in Cell \ Entries : entry'[c] = entry[c] /\ entry[c].next = Null
  <2>1. \A c \in Cell \ Entries : Chain[c] = Null
    BY DEF TargetsInv, ListIsChain
  <2> QED BY <2>1, <1>1, <1>2, <1>5 DEF TargetsTypeOK, Freed
<1>7. Root' = Null
  BY <1>1, <1>3 DEF Root
<1>8. Entries' = {}
  BY <1>7, ReachNull DEF Entries
<1>9. \A c \in Cell : Chain'[c] = Null
  BY <1>3, <1>6 DEF Chain, Freed
<1>10. \A c \in Cell : Live(c)' <=> Live(c) /\ c \notin Entries
  BY <1>5, <1>6 DEF Live
<1>11. TargetsTypeOK'
  BY <1>1, <1>2, <1>6 DEF TargetsTypeOK
<1>12. Shape'
  <2>1. \A c \in Cell : Live(c)' => entry'[c].name \in Name
    BY <1>2, <1>6, <1>10 DEF Shape
  <2> QED BY <2>1, <1>1, <1>2 DEF Shape
<1>13. ListIsChain'
  BY <1>8, <1>9 DEF ListIsChain
<1>14. New = {} /\ New' = {}
  <2>1. \A t \in Thread : call[t].new = Null
    BY <1>1, <1>2 DEF Shape
  <2> QED BY <2>1, <1>1 DEF New
<1>15. Accounted'
  <2>1. {c \in Cell : Live(c)}' = {c \in Cell : Live(c)} \ Entries
    BY <1>10
  <2>2. Accounted
    BY DEF TargetsInv
  <2>3. {c \in Cell : Live(c)}' = orphans
    BY <2>1, <2>2, <1>14 DEF Accounted
  <2>4. \A t, u \in Thread : call[t].new = call[u].new /\ call[t].new # Null => t = u
    BY <2>2 DEF Accounted
  <2> QED BY <2>3, <2>4, <1>1, <1>8, <1>14 DEF Accounted
<1>16. RemovalsMet'
  BY <1>3 DEF RemovalsMet, Mending
<1>17. CallsFit'
  BY <1>1 DEF CallsFit, PlaceFits, LookupFits, DecisionFits, Undisturbed
<1>18. NamesOK' /\ WalkIsSafe'
  BY <1>1, <1>8 DEF NamesOK, WalkIsSafe
<1>19. NewNamed'
  BY <1>1, <1>2 DEF NewNamed, Shape
<1> QED BY <1>11, <1>12, <1>13, <1>15, <1>16, <1>17, <1>18, <1>19 DEF TargetsInv

\* Every step keeps the invariant.
LEMMA TargetsNextInv == TargetsInv /\ [TargetsNext]_targets_vars => TargetsInv'
<1> SUFFICES ASSUME TargetsInv, [TargetsNext]_targets_vars PROVE TargetsInv'
  OBVIOUS
<1>1. CASE UNCHANGED targets_vars
  <2>1. Chain' = Chain /\ Root' = Root /\ Entries' = Entries /\ New' = New
    BY <1>1 DEF Chain, Root, Entries, Mends, New, targets_vars
  <2>2. TargetsTypeOK' /\ Shape' /\ ListIsChain' /\ Accounted' /\ RemovalsMet' /\ NewNamed' /\ WalkIsSafe'
    BY <1>1, <2>1 DEF TargetsInv, TargetsTypeOK, Shape, ListIsChain, Accounted, RemovalsMet, Live, Mending, Mends,
         Meets, NewNamed, WalkIsSafe, targets_vars
  <2>3. \A t \in Thread : Pointed(t)' = Pointed(t) /\ Ahead(t)' = Ahead(t)
    BY <1>1, <2>1 DEF Pointed, Ahead, targets_vars
  <2>4. CallsFit' /\ NamesOK'
    BY <1>1, <2>1, <2>3 DEF TargetsInv, CallsFit, PlaceFits, LookupFits, DecisionFits, NamesOK, Undisturbed, targets_vars
  <2> QED BY <2>2, <2>4 DEF TargetsInv
<1>2. CASE Stop
  BY <1>2, TargetsStopKeeps
<1>3. ASSUME NEW t \in Thread, NEW op \in {"add", "remove", "serve"}, NEW n \in Name, Begin(t, op, n)
      PROVE  TargetsInv'
  BY <1>3, BeginKeeps
<1>4. ASSUME NEW t \in Thread, NEW c \in Cell, Created(t, c) PROVE TargetsInv'
  BY <1>4, CreatedKeeps
<1>5. ASSUME NEW t \in Thread, Walk(t) \/ FoundGone(t) \/ Serve(t) \/ Refused(t) \/ Chosen(t)
      PROVE  TargetsInv'
  BY <1>5, WalkKeeps, FoundGoneKeeps, ServeKeeps, RefusedKeeps, ChosenKeeps
<1>6. ASSUME NEW t \in Thread, Acquire(t) \/ Link(t) \/ Free(t) \/ Relink(t) \/ Release(t)
      PROVE  TargetsInv'
  BY <1>6, AcquireKeeps, LinkKeeps, FreeKeeps, RelinkKeeps, ReleaseKeeps
<1> QED BY <1>1, <1>2, <1>3, <1>4, <1>5, <1>6 DEF TargetsNext

\* The invariant holds of every behaviour of the calls on the list of targets.
THEOREM TargetsInvariant == TargetsSpec => []TargetsInv
  BY TargetsInitInv, TargetsNextInv, PTL DEF TargetsSpec

\* The invariant says what TargetsHold asks.
LEMMA InvTargetsHold == TargetsInv => TargetsHold
<1> SUFFICES ASSUME TargetsInv PROVE TargetsHold
  OBVIOUS
<1>1. FindsOwn
  <2>1. SUFFICES ASSUME NEW t \in Thread, call[t].pc \in {"found", "change"}, call[t].new = Null,
                        call[t].met = "nothing"
                 PROVE  IF Pointed(t) = Null THEN call[t].pc = "found" /\ ~call[t].due
                        ELSE entry[Pointed(t)].name = call[t].name
    BY DEF FindsOwn, PlaceHolds
  <2>2. PlaceFits(t) /\ LookupFits(t) /\ DecisionFits(t) /\ call[t] \in CallTypes
    BY CallShape DEF TargetsInv, CallsFit
  <2>3. CASE call[t].pc = "found"
    <3>1. Undisturbed(t, {"walk", "found"})
      BY <2>1, <2>3 DEF Undisturbed
    <3>2. CASE Pointed(t) = Null
      <4>1. Ahead(t) = {}
        BY <3>2, ReachNull DEF Ahead
      <4> QED BY <2>2, <2>3, <3>1, <3>2, <4>1 DEF LookupFits
    <3>3. CASE Pointed(t) # Null
      BY <2>1, <2>2, <2>3, <3>1, <3>3 DEF LookupFits
    <3> QED BY <3>2, <3>3
  <2>4. CASE call[t].pc = "change"
    <3>1. Undisturbed(t, {"acquire", "change"}) /\ call[t].op = "remove"
      BY <2>1, <2>2, <2>4 DEF Undisturbed, TargetsInv, Shape, CallTypes
    <3> QED BY <2>1, <2>2, <3>1 DEF DecisionFits
  <2> QED BY <2>1, <2>3, <2>4
<1>2. Whole => ~Mending
  BY DEF Whole, Mending, Mends
<1>3. Whole => Entries = List
  BY <1>2, Unmended DEF TargetsInv
<1>4. NamesUnique
  BY <1>3 DEF NamesUnique, TargetsInv, NamesOK
<1>5. NothingLost
  BY <1>3 DEF NothingLost, TargetsInv, Accounted, New
<1> QED BY <1>1, <1>4, <1>5 DEF TargetsHold, TargetsInv

\* The list holds every target once and nothing else, as far as calls that
\* overlap allow; who looks for a target finds that one and finds it when it is
\* there (ccapi_receive.c:121, :195, :214; ccapi_data_handler.c:302).
THEOREM TargetsCorrect == TargetsSpec => []TargetsHold
  BY TargetsInvariant, InvTargetsHold, PTL
=============================================================================
