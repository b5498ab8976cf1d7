----------------------------- MODULE DataPoints -----------------------------
(***************************************************************************)
(* A collection of data points: ccapi_datapoints.c, and the data point     *)
(* handler of ccapi.c on the connector thread's side of a send.            *)
(*                                                                         *)
(* A collection is a linked list of streams, each with its points, a count *)
(* of all the points, and a lock.  A stream is two blocks of memory that   *)
(* live and die together, the collection's and CCFSM's: `next' links the   *)
(* first, `cnext' the second.  CCFSM reads only the second, so the list is *)
(* chained again for every send.                                           *)
(*                                                                         *)
(* What a call does under the lock is one step.  A send keeps the lock     *)
(* while CCFSM works; it looks at the list before it has the lock, and     *)
(* remove_older_data_point never takes it: these are several steps.        *)
(*                                                                         *)
(* Of a point only that it is there is kept.  Formats, arguments, units,   *)
(* values and the hint are left out, and with them the calls that are      *)
(* refused because of them: they change nothing.  A block that cannot be   *)
(* allocated changes nothing either.  The platform may fail to release the *)
(* lock a send waits for, and the wait itself may fail; the locks of the   *)
(* collection and of initiate_action are released.                         *)
(***************************************************************************)
EXTENDS Integers, FiniteSets

CONSTANTS Thread,     \* threads of the application
          Id,         \* stream ids
          Block,      \* the memory for streams
          MaxPoints,  \* bound: the points of a stream
          MaxBroken,  \* bound: the calls stop once more than so many things broke
          Width,      \* the values of dp_count: 2^32 in the code
          Null        \* no block, no thread

ASSUME WidthHoldsAll ==
  MaxPoints \in Nat /\ Width \in Nat \ {0} /\ Width > MaxPoints * Cardinality(Block)
ASSUME BoundIsNatural == MaxBroken \in Nat
ASSUME MemoryIsFinite == IsFiniteSet(Block)
ASSUME NullIsNone == Null \notin Thread \cup Id \cup Block

VARIABLES mem,        \* the streams: a record, or Freed
          coll,       \* the collection: head of the list, dp_count, whether it exists
          lock,       \* who holds the collection's lock
          pc,         \* per thread, where in a call
          at,         \* remove_older: the stream it is at, and the count it read
          tx,         \* transaction_info of the send that holds the lock
          ccfsm,      \* CCFSM: what it does with the collection, what it read
          stale,      \* CCFSM: how far it is with the requests of sends that gave up
          snap,       \* history: the points in the list when CCFSM was asked to send
          cause,      \* history: what was done that breaks the list
          wrong       \* history: memory was used that is not there (the run ends)

vars == <<mem, coll, lock, pc, at, tx, ccfsm, stale, snap, cause, wrong>>

Freed == [id |-> Null, next |-> Null, cnext |-> Null, points |-> 0]
Stream == [id : Id, next : Block \cup {Null}, cnext : Block \cup {Null}, points : 0..MaxPoints]
NoTx == [resp |-> "none", status |-> "none", lock |-> "held"]
Quiet == [ph |-> "off", at |-> Null, read |-> [b \in Block |-> 0]]

ListOK ==
  /\ mem \in [Block -> Stream \cup {Freed}]
  /\ coll \in [head : Block \cup {Null}, count : 0..Width - 1, there : BOOLEAN]

CallsOK ==
  /\ lock \in Thread \cup {Null}
  /\ pc \in [Thread -> {"idle", "lock", "initiate", "wait", "older", "count"}]
  /\ at \in [Thread -> [stream : Block \cup {Null}, count : 0..Width - 1]]

SendOK ==
  /\ tx \in [resp : {"none", "success", "error"}, status : {"none", "complete", "error"},
             lock : {"held", "released", "stuck"}]
  /\ ccfsm \in [ph : {"off", "reading", "sent", "status"}, at : Block \cup {Null},
                read : [Block -> 0..MaxPoints]]
  /\ stale \subseteq Block \cup {Null}
  /\ snap \in [Block -> 0..MaxPoints]

Causes == {"head", "tail", "clear", "unlocked", "emptied"}

HistoryOK ==
  /\ cause \subseteq Causes
  /\ wrong \in {"no", "stream", "removed", "null", "chain", "stale", "point", "info"}

TypeOK == ListOK /\ CallsOK /\ SendOK /\ HistoryOK

Init ==
  /\ mem = [b \in Block |-> Freed]
  /\ coll = [head |-> Null, count |-> 0, there |-> FALSE]
  /\ lock = Null
  /\ pc = [t \in Thread |-> "idle"]
  /\ at = [t \in Thread |-> [stream |-> Null, count |-> 0]]
  /\ tx = NoTx /\ ccfsm = Quiet /\ stale = {} /\ snap = [b \in Block |-> 0]
  /\ cause = {} /\ wrong = "no"

----------------------------------------------------------------------------
(* The list. *)

Live(b) == mem[b] # Freed

\* The streams a walk along `next' comes to, freed ones among them.
Reach(next, pointer) ==
  {b \in Block : \A S \in SUBSET Block :
     pointer \in S \cup {Null} /\ (\A c \in S : next[c] \in S \cup {Null}) => b \in S}

List == Reach([b \in Block |-> mem[b].next], coll.head)

Dangles == \E b \in List : ~Live(b)

\* find_stream_id_in_collection
Find(id) == {b \in Block : b \in List /\ mem[b].id = id}

PointsOf(blocks) == Cardinality({p \in blocks \X (1..MaxPoints) : p[2] <= mem[p[1]].points})

\* dp_count is unsigned.
Less(n, k) == (n + Width - k) % Width

\* A thread that walks the list without the lock.
Unlocked(t) == \E u \in Thread \ {t} : pc[u] \in {"older", "count"}

Blame(t, new) == cause' = cause \cup new \cup (IF Unlocked(t) THEN {"unlocked"} ELSE {})

\* What broke the list or the send until now.
Broken == cause \cup (IF stale = {} THEN {} ELSE {"gave up"})

\* The application may call, whatever the calls before it came to.
Idle(t) == wrong = "no" /\ coll.there /\ pc[t] = "idle" /\ Cardinality(Broken) <= MaxBroken

\* A call that takes the lock and, in one step, does its work: if the list
\* dangles it reads freed memory instead.
Locked(t, work) ==
  /\ Idle(t) /\ lock = Null
  /\ IF Dangles THEN wrong' = "stream" /\ UNCHANGED <<mem, coll, cause>> ELSE work
  /\ UNCHANGED <<lock, pc, at, tx, ccfsm, stale, snap>>

----------------------------------------------------------------------------
(* The application: collections, streams and points. *)

\* ccapi_dp_create_collection
Create ==
  /\ wrong = "no" /\ ~coll.there
  /\ coll' = [head |-> Null, count |-> 0, there |-> TRUE]
  /\ UNCHANGED <<mem, lock, pc, at, tx, ccfsm, stale, snap, cause, wrong>>

\* ccapi_dp_add_data_stream_to_collection_extra: the new stream comes first.
AddStream(t, id) ==
  Locked(t,
    /\ Find(id) = {}
    /\ \E b \in Block :
         /\ ~Live(b)
         /\ mem' = [mem EXCEPT ![b] = [id |-> id, next |-> coll.head, cnext |-> Null, points |-> 0]]
         /\ coll' = [coll EXCEPT !.head = b]
    /\ Blame(t, {}) /\ UNCHANGED wrong)

\* The stream b is taken out of the list, and freed.
Unlink(b) ==
  [c \in Block |-> IF c = b THEN Freed
                   ELSE IF c \in List /\ mem[c].next = b THEN [mem[c] EXCEPT !.next = mem[b].next]
                   ELSE mem[c]]

\* Mutant: the points are freed and still counted.
UnlinkedUncounted(b) == [coll EXCEPT !.head = IF @ = b THEN Null ELSE @]

\* Removing the first stream makes the list empty, whatever follows it.
Unlinked(b) ==
  [coll EXCEPT !.head = IF @ = b THEN Null ELSE @,
               !.count = Less(@, mem[b].points)]

\* What removing b breaks: the rest of the list, or the chain of an earlier
\* send, which goes on to b from what is now the last stream.
Breaks(b) ==
  (IF coll.head = b /\ mem[b].next # Null THEN {"head"} ELSE {})
    \cup (IF mem[b].next = Null /\ \E c \in List : mem[c].next = b /\ mem[c].cnext # Null
          THEN {"tail"} ELSE {})
    \cup (IF coll.head = b /\ "lock" \in {pc[t] : t \in Thread} THEN {"emptied"} ELSE {})

\* ccapi_dp_remove_data_stream_from_collection: the walk goes on from the
\* stream it just freed, where it may still find what was there, or anything.
RemoveStream(t, id) ==
  Locked(t,
    \E b \in Find(id) :
      /\ mem' = Unlink(b) /\ coll' = Unlinked(b)
      /\ Blame(t, Breaks(b))
      /\ wrong' \in {wrong, "removed"})

\* ccapi_dp_add, with parse_argument_list_and_create_data_point
AddPoint(t, id) ==
  Locked(t,
    \E b \in Find(id) :
      /\ mem[b].points < MaxPoints
      /\ mem' = [mem EXCEPT ![b].points = @ + 1]
      /\ coll' = [coll EXCEPT !.count = (@ + 1) % Width]
      /\ Blame(t, {}) /\ UNCHANGED wrong)

\* free_collection
FreeList == [b \in Block |-> IF b \in List THEN Freed ELSE mem[b]]

\* ccapi_dp_clear_collection: neither the list nor the count is reset.
Clear(t) ==
  Locked(t,
    /\ mem' = FreeList /\ UNCHANGED <<coll, wrong>>
    /\ Blame(t, IF List = {} THEN {} ELSE {"clear"}))

\* ccapi_dp_destroy_collection; that no other call is under way is the
\* application's duty.
Destroy(t) ==
  /\ \A u \in Thread : pc[u] = "idle"
  /\ Locked(t,
       /\ mem' = FreeList
       /\ coll' = [head |-> Null, count |-> 0, there |-> FALSE]
       /\ cause' = cause \cap {"head"} /\ UNCHANGED wrong)

----------------------------------------------------------------------------
(* ccapi_dp_remove_older_data_point_from_streams, which takes no lock. *)

OlderBegin(t) ==
  /\ Idle(t) /\ coll.head # Null
  /\ at' = [at EXCEPT ![t].stream = coll.head]
  /\ pc' = [pc EXCEPT ![t] = "older"]
  /\ UNCHANGED <<mem, coll, lock, tx, ccfsm, stale, snap, cause, wrong>>

\* Walk on from b.
OlderOn(t, b) ==
  /\ at' = [at EXCEPT ![t] = [stream |-> mem[b].next, count |-> 0]]
  /\ pc' = [pc EXCEPT ![t] = IF mem[b].next = Null THEN "idle" ELSE "older"]

\* CCFSM is at the stream, with the request of a send or one that was given up.
ReadBy(b) == (ccfsm.ph = "reading" /\ ccfsm.at = b) \/ b \in stale

\* The first point of the stream goes; CCFSM may be reading it.
OlderTake(t) ==
  /\ wrong = "no" /\ pc[t] = "older"
  /\ LET b == at[t].stream
     IN  IF ~Live(b) THEN wrong' = "stream" /\ UNCHANGED <<mem, pc, at, cause>>
         ELSE IF mem[b].points = 0 THEN OlderOn(t, b) /\ UNCHANGED <<mem, cause, wrong>>
         ELSE /\ mem' = [mem EXCEPT ![b].points = @ - 1]
              /\ at' = [at EXCEPT ![t].count = coll.count]
              /\ pc' = [pc EXCEPT ![t] = "count"]
              /\ Blame(t, IF lock = Null THEN {} ELSE {"unlocked"})
              /\ wrong' \in (IF ReadBy(b) THEN {"no", "point"} ELSE {"no"})
  /\ UNCHANGED <<coll, lock, tx, ccfsm, stale, snap>>

\* dp_count -= 1: it was read, now it is written.
OlderCount(t) ==
  /\ wrong = "no" /\ pc[t] = "count"
  /\ coll' = [coll EXCEPT !.count = Less(at[t].count, 1)]
  /\ LET b == at[t].stream
     IN  IF ~Live(b) THEN wrong' = "stream" /\ UNCHANGED <<pc, at>>
         ELSE OlderOn(t, b) /\ UNCHANGED wrong
  /\ UNCHANGED <<mem, lock, tx, ccfsm, stale, snap, cause>>

----------------------------------------------------------------------------
(* send_collection *)

ListNotEmpty == coll.head # Null

\* Up to the lock of the collection: the list is looked at without it.
SendBegin(t) ==
  /\ Idle(t) /\ ListNotEmpty
  /\ pc' = [pc EXCEPT ![t] = "lock"]
  /\ UNCHANGED <<mem, coll, lock, at, tx, ccfsm, stale, snap, cause, wrong>>

\* Mutant: CCFSM's streams are not chained.
ChainForgotten == mem

\* chain_collection_ccfsm_data_streams: the last stream is left as it is.
Chain ==
  [b \in Block |-> IF b \in List /\ mem[b].next # Null THEN [mem[b] EXCEPT !.cnext = mem[b].next]
                   ELSE mem[b]]

\* The lock is taken, the streams are chained, the request is filled in.
SendChain(t) ==
  /\ wrong = "no" /\ pc[t] = "lock" /\ lock = Null
  /\ IF coll.head = Null THEN wrong' = "null" /\ UNCHANGED <<mem, lock, pc, tx>>
     ELSE IF Dangles THEN wrong' = "stream" /\ UNCHANGED <<mem, lock, pc, tx>>
     ELSE /\ mem' = Chain /\ lock' = t /\ tx' = NoTx
          /\ pc' = [pc EXCEPT ![t] = "initiate"] /\ UNCHANGED wrong
  /\ UNCHANGED <<coll, at, ccfsm, stale, snap, cause>>

\* What every end of a send does: the info is freed, the lock released.
SendEnd(t) == lock' = Null /\ tx' = NoTx /\ pc' = [pc EXCEPT ![t] = "idle"]

\* connector_initiate_action, repeated while CCFSM is busy: it takes the request,
\* or not, or takes it and the send is told that it did not, because the lock
\* around it could not be released.
SendInitiate(t) ==
  /\ wrong = "no" /\ pc[t] = "initiate"
  /\ \/ /\ ccfsm' = [Quiet EXCEPT !.ph = "reading", !.at = coll.head]
        /\ snap' = [b \in Block |-> IF b \in List THEN mem[b].points ELSE 0]
        /\ pc' = [pc EXCEPT ![t] = "wait"] /\ UNCHANGED <<lock, tx, stale>>
     \/ SendEnd(t) /\ UNCHANGED <<ccfsm, stale, snap>>
     \/ SendEnd(t) /\ stale' = stale \cup {coll.head} /\ UNCHANGED <<ccfsm, snap>>
  /\ UNCHANGED <<mem, coll, at, cause, wrong>>

\* Mutant: the status decides alone.
AcceptedByStatus == tx.status = "complete"

Accepted == tx.resp = "success" /\ tx.status = "complete"

\* free_data_points_from_collection: it chains the streams again.
FreePoints == [b \in Block |-> IF b \in List THEN [Chain[b] EXCEPT !.points = 0] ELSE mem[b]]

\* ccapi_lock_acquire(transaction_info->lock): the status callback released it.
Answered == tx.lock = "released"

\* CCFSM is done: the points it took are freed, also under a request that was
\* given up, or everything is kept.
SendDone(t) ==
  /\ wrong = "no" /\ pc[t] = "wait" /\ Answered
  /\ IF Accepted THEN /\ mem' = FreePoints /\ coll' = [coll EXCEPT !.count = 0]
                      /\ wrong' \in (IF List \cap stale = {} THEN {"no"} ELSE {"no", "point"})
     ELSE UNCHANGED <<mem, coll, wrong>>
  /\ SendEnd(t) /\ Blame(t, {})
  /\ ccfsm' = Quiet /\ snap' = [b \in Block |-> 0]
  /\ UNCHANGED <<at, stale>>

\* The wait itself fails: the send ends, and CCFSM goes on with what it has not
\* ended.
SendWaitFails(t) ==
  /\ wrong = "no" /\ pc[t] = "wait"
  /\ SendEnd(t)
  /\ stale' = stale \cup (IF ccfsm.ph = "off" THEN {} ELSE {ccfsm.at})
  /\ ccfsm' = Quiet /\ snap' = [b \in Block |-> 0]
  /\ UNCHANGED <<mem, coll, at, cause, wrong>>

----------------------------------------------------------------------------
(* CCFSM and the data point handler.  The info is there while a send waits. *)

InfoThere == \E t \in Thread : pc[t] = "wait"

\* CCFSM reads a stream, and goes on to the next of its chain.
Read ==
  /\ wrong = "no" /\ ccfsm.ph = "reading"
  /\ LET b == ccfsm.at
     IN  IF ~Live(b) THEN wrong' = "chain" /\ UNCHANGED ccfsm
         ELSE /\ ccfsm' = [ph |-> IF mem[b].cnext = Null THEN "sent" ELSE "reading",
                           at |-> mem[b].cnext, read |-> [ccfsm.read EXCEPT ![b] = mem[b].points]]
              /\ UNCHANGED wrong
  /\ UNCHANGED <<mem, coll, lock, pc, at, tx, stale, snap, cause>>

\* connector_request_id_data_point_response, which may not come when the
\* application asked for none.
Response(r) ==
  /\ wrong = "no" /\ ccfsm.ph = "sent" /\ tx.resp = "none"
  /\ IF InfoThere THEN tx' = [tx EXCEPT !.resp = r] /\ UNCHANGED wrong
     ELSE wrong' = "info" /\ UNCHANGED tx
  /\ UNCHANGED <<mem, coll, lock, pc, at, ccfsm, stale, snap, cause>>

\* Mutant: only a send that completed lets the application go on.
ReleasedOnComplete(s, r) == s = "complete" /\ r = "OK"

\* ccapi_lock_release: the lock is released whatever the status says, if the
\* platform does it.
Released(s, r) == r = "OK"

\* connector_request_id_data_point_status: CCFSM may fail whenever it likes
\* (cancel, timeout, session error).  It is its last word, but while the lock is
\* busy it is repeated; an error leaves the send waiting.
Status(s, r) ==
  /\ wrong = "no" /\ ccfsm.ph # "off"
  /\ s = "complete" => ccfsm.ph \in {"sent", "status"}
  /\ ccfsm.ph = "status" => s = tx.status
  /\ ccfsm' = [ccfsm EXCEPT !.ph = IF r = "BUSY" THEN "status" ELSE "off", !.at = Null]
  /\ IF ~InfoThere THEN wrong' = "info" /\ UNCHANGED tx
     ELSE /\ tx' = [tx EXCEPT !.status = s,
                              !.lock = IF Released(s, r) THEN "released"
                                       ELSE IF r = "ERROR" THEN "stuck" ELSE "held"]
          /\ UNCHANGED wrong
  /\ UNCHANGED <<mem, coll, lock, pc, at, stale, snap, cause>>

\* A request that was given up is read on, along what its chain is now; two that
\* are at the same stream go on as one.
StaleRead(b) ==
  /\ wrong = "no" /\ b \in stale \cap Block
  /\ IF ~Live(b) THEN wrong' = "stale" /\ UNCHANGED stale
     ELSE stale' = (stale \ {b}) \cup {mem[b].cnext} /\ UNCHANGED wrong
  /\ UNCHANGED <<mem, coll, lock, pc, at, tx, ccfsm, snap, cause>>

\* Its response or status comes: the info was freed when the send gave up.
StaleCallback ==
  /\ wrong = "no" /\ stale # {} /\ wrong' = "info"
  /\ UNCHANGED <<mem, coll, lock, pc, at, tx, ccfsm, stale, snap, cause>>

\* The end of a run: something is wrong, or the bound is reached.
Halted ==
  /\ wrong # "no" \/ Cardinality(Broken) > MaxBroken
  /\ UNCHANGED vars

----------------------------------------------------------------------------
SendNext(t) == SendInitiate(t) \/ SendDone(t)
StatusNext == \E s \in {"complete", "error"}, r \in {"OK", "BUSY", "ERROR"} : Status(s, r)

Next ==
  \/ Create
  \/ \E t \in Thread, id \in Id : AddStream(t, id) \/ RemoveStream(t, id) \/ AddPoint(t, id)
  \/ \E t \in Thread : Clear(t) \/ Destroy(t)
  \/ \E t \in Thread : OlderBegin(t) \/ OlderTake(t) \/ OlderCount(t)
  \/ \E t \in Thread : SendBegin(t) \/ SendChain(t) \/ SendInitiate(t) \/ SendDone(t) \/ SendWaitFails(t)
  \/ Read \/ (\E r \in {"success", "error"} : Response(r))
  \/ StatusNext
  \/ (\E b \in Block : StaleRead(b)) \/ StaleCallback
  \/ Halted

\* A send that has the lock goes on, and CCFSM ends what it accepted, if only
\* because it times out.
Fairness == (\A t \in Thread : WF_vars(SendNext(t))) /\ WF_vars(Read \/ StatusNext)

Spec == Init /\ [][Next]_vars /\ Fairness

----------------------------------------------------------------------------
(* Properties. *)

\* dp_count is the number of points in the list, whatever streams and points
\* come and go and however a send ends; not while remove_older_data_point is
\* between the two, nor after a removed first stream took the rest of the list
\* with it, a clear, or a walk without the lock (ccapi_datapoints.c:791, :1031,
\* :1072, :1117).
CountExact ==
  /\ wrong = "no" /\ coll.there /\ cause \cap {"head", "clear", "unlocked"} = {}
  /\ \A t \in Thread : pc[t] # "count"
  => coll.count = PointsOf(List)

\* The streams there are, are in the list: removing one loses no other and adding
\* one leaks none, but for the removal of the first (ccapi_datapoints.c:783).
OnlyFirstLosesRest ==
  wrong = "no" /\ "head" \notin cause => {b \in Block : Live(b)} \subseteq List

\* The calls walk over streams that are there; they meet a freed one only after
\* a clear, which leaves the list pointing to what it freed (ccapi_datapoints.c:173),
\* or when remove_older_data_point walks without the lock (:1059).
WalkIsSafe == wrong = "stream" => cause \cap {"clear", "unlocked"} # {}

\* A send that found the list not empty finds a stream when it has the lock,
\* unless another thread emptied the list in between (ccapi_datapoints.c:1127, :1202).
SendFindsStream == wrong = "null" => "emptied" \in cause

\* The last stream of the list points on, to one that was once behind it.
LooseEnd == \E b \in List : mem[b].next = Null /\ mem[b].cnext # Null

\* The chain CCFSM follows for a send is the list, and it reads every point in it.
\* It meets a freed stream only over a loose end, which the removal of the last
\* stream after a send leaves (nothing resets what the one before it points to,
\* ccapi_datapoints.c:1090) and which goes with the stream that has it; it meets a
\* freed point only when points were removed without the lock, or with a request
\* that was given up (ccapi_datapoints.c:1241, :1256).
ChainIsList ==
  /\ LooseEnd => "tail" \in cause
  /\ wrong = "chain" => LooseEnd
  /\ wrong = "point" => "unlocked" \in cause \/ stale # {}
  /\ ccfsm.ph = "sent" /\ "unlocked" \notin cause /\ ~LooseEnd => ccfsm.read = snap

\* The info is there for the callbacks of CCFSM, unless the send gave up on a
\* request that CCFSM has taken: its wait failed, or it was told that CCFSM
\* refused because a lock was not released (ccapi_datapoints.c:1291, ccapi.c:461).
InfoOutlivesCallbacks == wrong = "info" => stale # {}

\* Points go with a send only when CCFSM read all there were when it was asked,
\* they are the ones that are freed, and the server took them: a send that fails
\* after the points were read, or is answered with an error, keeps every point
\* (ccapi_datapoints.c:1258-1271).
OnlySentIsFreed ==
  [][\A t \in Thread :
       SendDone(t) /\ "unlocked" \notin cause' /\ ~LooseEnd /\ coll' # coll
         => /\ ccfsm.read = snap /\ tx.resp = "success" /\ tx.status = "complete"
            /\ \A b \in Block : mem'[b].points # mem[b].points => snap[b] = mem[b].points]_vars

\* A send that waits is going to be woken: CCFSM is not done with it yet or has
\* released the lock it waits for, whatever the status was and however often it
\* had to be repeated.  Only when the platform fails to release it does the send
\* wait for ever, with the collection's lock, which every other call needs
\* (ccapi.c:1570-1579).
WaitsForSomething ==
  wrong = "no" => \A t \in Thread :
    pc[t] = "wait" => ccfsm.ph # "off" \/ tx.lock \in {"released", "stuck"}

\* The streams and the points are all there, counted and of their types, and a
\* call meets a stream where it looks for one.
CollectionHolds ==
  TypeOK /\ CountExact /\ OnlyFirstLosesRest /\ WalkIsSafe /\ SendFindsStream

\* A send and CCFSM wait for each other: the one with its info, the other with
\* a status.
SendAwaitsCcfsm == InfoOutlivesCallbacks /\ WaitsForSomething

----------------------------------------------------------------------------
\* The inductive invariant behind SendAwaitsCcfsm.  The lock is held by the send
\* that is under way; what CCFSM has accepted and not ended is that send's, or
\* was given up; the status alone releases the send, and when it does is CCFSM's
\* last word.
Handshake ==
  /\ \A t \in Thread :
       /\ pc[t] \in {"initiate", "wait"} <=> lock = t
       /\ pc[t] = "initiate" => tx.lock = "held" /\ ccfsm.ph = "off" /\ coll.head \in Block
       /\ pc[t] = "wait" => ccfsm.ph # "off" \/ tx.lock \in {"released", "stuck"}
       /\ pc[t] # "idle" => coll.there
       /\ pc[t] \in {"older", "count"} => at[t].stream \in Block
  /\ tx.lock # "held" => ccfsm.ph = "off"
  /\ ccfsm.ph = "reading" => ccfsm.at \in Block
  /\ ccfsm.ph # "off" => InfoThere
  /\ wrong = "info" => stale # {}
=============================================================================
