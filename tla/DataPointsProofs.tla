------------------------- MODULE DataPointsProofs -------------------------
(* Proofs about DataPoints, for any number of threads, streams and points. *)
EXTENDS DataPoints, FiniteSetTheorems, TLAPS

StreamOrFreed == Stream \cup {Freed}

\* What is known of a block, freed or not.
LEMMA BlockType ==
  ASSUME TypeOK, NEW b \in Block
  PROVE  /\ mem[b] \in StreamOrFreed
         /\ mem[b].id \in Id \cup {Null}
         /\ mem[b].next \in Block \cup {Null} /\ mem[b].cnext \in Block \cup {Null}
         /\ mem[b].points \in 0..MaxPoints
         /\ Live(b) => mem[b] \in Stream
<1>1. mem[b] \in Stream \/ mem[b] = Freed
  BY DEF TypeOK, ListOK
<1>2. ASSUME mem[b] = Freed
      PROVE  /\ mem[b].id = Null /\ mem[b].next = Null /\ mem[b].cnext = Null
             /\ mem[b].points = 0
  BY <1>2 DEF Freed
<1>3. ASSUME mem[b] \in Stream
      PROVE  /\ mem[b].id \in Id /\ mem[b].next \in Block \cup {Null}
             /\ mem[b].cnext \in Block \cup {Null} /\ mem[b].points \in 0..MaxPoints
  BY <1>3 DEF Stream
<1>4. 0 \in 0..MaxPoints
  BY WidthHoldsAll
<1> QED BY <1>1, <1>2, <1>3, <1>4 DEF StreamOrFreed, Live

\* What is known of the collection.
LEMMA CollType ==
  ASSUME TypeOK
  PROVE  /\ coll.head \in Block \cup {Null} /\ coll.there \in BOOLEAN
         /\ coll.count \in 0..Width - 1 /\ coll.count \in Int
<1>1. coll \in [head : Block \cup {Null}, count : 0..Width - 1, there : BOOLEAN]
  BY DEF TypeOK, ListOK
<1>2. coll.count \in 0..Width - 1
  BY <1>1
<1> QED BY <1>1, <1>2, WidthHoldsAll

\* dp_count stays in its width.
LEMMA LessType ==
  ASSUME NEW n \in Int, NEW k \in Int
  PROVE  Less(n, k) \in 0..Width - 1 /\ (n + 1) % Width \in 0..Width - 1
BY WidthHoldsAll DEF Less

\* Chaining a stream leaves it a stream.
LEMMA ChainType ==
  ASSUME TypeOK
  PROVE  /\ Chain \in [Block -> StreamOrFreed]
         /\ \A b \in Block : [Chain[b] EXCEPT !.points = 0] \in StreamOrFreed
<1>1. ASSUME NEW b \in Block
      PROVE  /\ Chain[b] \in StreamOrFreed
             /\ [Chain[b] EXCEPT !.points = 0] \in StreamOrFreed
  <2>1. CASE b \in List /\ mem[b].next # Null
    <3>1. Chain[b] = [mem[b] EXCEPT !.cnext = mem[b].next]
      BY <2>1 DEF Chain
    <3>2. mem[b] # Freed /\ mem[b].next \in Block
      BY <2>1, BlockType DEF Freed
    <3>3. mem[b] \in Stream
      BY <3>2, BlockType DEF Live
    <3>4. [mem[b] EXCEPT !.cnext = mem[b].next] \in Stream
      BY <3>2, <3>3 DEF Stream
    <3>5. Chain[b] \in Stream
      BY <3>1, <3>4
    <3>6. [Chain[b] EXCEPT !.points = 0] \in Stream
      BY <3>5, WidthHoldsAll DEF Stream
    <3> QED BY <3>5, <3>6 DEF StreamOrFreed
  <2>2. CASE ~(b \in List /\ mem[b].next # Null)
    <3>1. Chain[b] = mem[b] /\ mem[b] \in StreamOrFreed
      BY <2>2, BlockType DEF Chain
    <3>2. mem[b] = Freed => [mem[b] EXCEPT !.points = 0] = Freed
      BY DEF Freed
    <3>3. mem[b] \in Stream => [mem[b] EXCEPT !.points = 0] \in Stream
      BY WidthHoldsAll DEF Stream
    <3> QED BY <3>1, <3>2, <3>3 DEF StreamOrFreed
  <2> QED BY <2>1, <2>2
<1> QED BY <1>1 DEF Chain

\* So does taking another out of the list.
LEMMA UnlinkType ==
  ASSUME TypeOK, NEW b \in Block
  PROVE  Unlink(b) \in [Block -> StreamOrFreed]
<1>1. ASSUME NEW c \in Block, c # b, mem[c].next = b
      PROVE  [mem[c] EXCEPT !.next = mem[b].next] \in StreamOrFreed
  <2>1. mem[c] # Freed
    BY <1>1, NullIsNone DEF Freed
  <2>2. mem[c] \in Stream
    BY <2>1, BlockType DEF Live
  <2>3. mem[b].next \in Block \cup {Null}
    BY BlockType
  <2> QED BY <2>2, <2>3 DEF Stream, StreamOrFreed
<1> QED BY <1>1, BlockType DEF Unlink, StreamOrFreed

----------------------------------------------------------------------------
(* Types. *)

\* What is there at first.
LEMMA TypeInit == Init => TypeOK
BY WidthHoldsAll DEF Init, TypeOK, ListOK, CallsOK, SendOK, HistoryOK, Freed, NoTx, Quiet

\* What Blame adds is named.
LEMMA CausesType ==
  ASSUME TypeOK, NEW t,
         NEW new \in SUBSET Causes,
         Blame(t, new)
  PROVE  /\ cause' \subseteq Causes
         /\ cause \subseteq cause' /\ new \subseteq cause'
BY DEF Blame, TypeOK, HistoryOK, Causes

\* A call with the lock is typed if its work is.
LEMMA LockedType ==
  ASSUME TypeOK, NEW t \in Thread,
         \/ \E id \in Id : AddStream(t, id) \/ RemoveStream(t, id) \/ AddPoint(t, id)
         \/ Clear(t) \/ Destroy(t)
  PROVE  TypeOK'
<1>1. UNCHANGED <<lock, pc, at, tx, ccfsm, stale, snap>>
  BY DEF AddStream, RemoveStream, AddPoint, Clear, Destroy, Locked
<1>2. CASE Dangles
  <2>1. UNCHANGED <<mem, coll, cause>> /\ wrong' = "stream"
    BY <1>2 DEF AddStream, RemoveStream, AddPoint, Clear, Destroy, Locked
  <2> QED BY <1>1, <2>1 DEF TypeOK, ListOK, CallsOK, SendOK, HistoryOK
<1>3. ASSUME ~Dangles, NEW id \in Id, AddStream(t, id) PROVE TypeOK'
  <2>1. PICK b \in Block :
          /\ mem' = [mem EXCEPT ![b] = [id |-> id, next |-> coll.head, cnext |-> Null, points |-> 0]]
          /\ coll' = [coll EXCEPT !.head = b]
    BY <1>3 DEF AddStream, Locked
  <2>2. Blame(t, {}) /\ wrong' = wrong
    BY <1>3 DEF AddStream, Locked
  <2>3. [id |-> id, next |-> coll.head, cnext |-> Null, points |-> 0] \in Stream
    BY WidthHoldsAll, CollType DEF Stream
  <2>4. mem' \in [Block -> Stream \cup {Freed}]
    BY <2>1, <2>3 DEF TypeOK, ListOK
  <2>5. coll' \in [head : Block \cup {Null}, count : 0..Width - 1, there : BOOLEAN]
    BY <2>1 DEF TypeOK, ListOK
  <2> QED BY <1>1, <2>2, <2>4, <2>5, CausesType DEF TypeOK, ListOK, CallsOK, SendOK, HistoryOK
<1>4. ASSUME ~Dangles, NEW id \in Id, RemoveStream(t, id) PROVE TypeOK'
  <2>1. PICK b \in Find(id) : /\ mem' = Unlink(b) /\ coll' = Unlinked(b)
                              /\ Blame(t, Breaks(b)) /\ wrong' \in {wrong, "removed"}
    BY <1>4 DEF RemoveStream, Locked
  <2>2. b \in Block
    BY DEF Find
  <2>3. mem' \in [Block -> Stream \cup {Freed}]
    BY <2>1, <2>2, UnlinkType DEF StreamOrFreed
  <2>4. Less(coll.count, mem[b].points) \in 0..Width - 1
    <3>1. mem[b].points \in Int
      BY <2>2, BlockType, WidthHoldsAll
    <3> QED BY <3>1, LessType, CollType
  <2>5. coll' \in [head : Block \cup {Null}, count : 0..Width - 1, there : BOOLEAN]
    BY <2>1, <2>4 DEF Unlinked, TypeOK, ListOK
  <2>6. Breaks(b) \in SUBSET Causes
    BY DEF Breaks, Causes
  <2>7. cause' \subseteq Causes
    BY <2>1, <2>6, CausesType
  <2> QED BY <1>1, <2>1, <2>3, <2>5, <2>7 DEF TypeOK, ListOK, CallsOK, SendOK, HistoryOK
<1>5. ASSUME ~Dangles, NEW id \in Id, AddPoint(t, id) PROVE TypeOK'
  <2>1. PICK b \in Find(id) : /\ mem[b].points < MaxPoints
                              /\ mem' = [mem EXCEPT ![b].points = @ + 1]
                              /\ coll' = [coll EXCEPT !.count = (@ + 1) % Width]
                              /\ Blame(t, {}) /\ wrong' = wrong
    BY <1>5 DEF AddPoint, Locked
  <2>2. b \in Block /\ mem[b] \in Stream
    BY <1>5, BlockType DEF Find, Dangles
  <2>3. [mem[b] EXCEPT !.points = mem[b].points + 1] \in Stream
    BY <2>1, <2>2, WidthHoldsAll DEF Stream
  <2>4. mem' = [mem EXCEPT ![b] = [mem[b] EXCEPT !.points = mem[b].points + 1]]
    BY <2>1
  <2>5. mem' \in [Block -> Stream \cup {Freed}]
    BY <2>2, <2>3, <2>4 DEF TypeOK, ListOK
  <2>6. (coll.count + 1) % Width \in 0..Width - 1
    BY LessType, CollType
  <2>7. coll' \in [head : Block \cup {Null}, count : 0..Width - 1, there : BOOLEAN]
    BY <2>1, <2>6 DEF TypeOK, ListOK
  <2> QED BY <1>1, <2>1, <2>5, <2>7, CausesType DEF TypeOK, ListOK, CallsOK, SendOK, HistoryOK
<1>6. FreeList \in [Block -> Stream \cup {Freed}]
  BY DEF FreeList, TypeOK, ListOK
<1>7. ASSUME ~Dangles, Clear(t) PROVE TypeOK'
  <2>1. /\ mem' = FreeList /\ UNCHANGED <<coll, wrong>>
        /\ Blame(t, IF List = {} THEN {} ELSE {"clear"})
    BY <1>7 DEF Clear, Locked
  <2>2. cause' \subseteq Causes
    <3>1. (IF List = {} THEN {} ELSE {"clear"})
            \in SUBSET Causes
      BY DEF Causes
    <3> QED BY <2>1, <3>1, CausesType
  <2>3. mem' \in [Block -> Stream \cup {Freed}] /\ coll' = coll /\ wrong' = wrong
    BY <2>1, <1>6
  <2> QED BY <1>1, <2>2, <2>3 DEF TypeOK, ListOK, CallsOK, SendOK, HistoryOK
<1>8. ASSUME ~Dangles, Destroy(t) PROVE TypeOK'
  <2>1. /\ mem' = FreeList /\ coll' = [head |-> Null, count |-> 0, there |-> FALSE]
        /\ cause' = cause \cap {"head"} /\ UNCHANGED wrong
    BY <1>8 DEF Destroy, Locked
  <2>2. coll' \in [head : Block \cup {Null}, count : 0..Width - 1, there : BOOLEAN]
    BY <2>1, WidthHoldsAll
  <2> QED BY <1>1, <1>6, <2>1, <2>2 DEF TypeOK, ListOK, CallsOK, SendOK, HistoryOK
<1> QED BY <1>2, <1>3, <1>4, <1>5, <1>7, <1>8

\* What a thread that walks without the lock is at.
LEMMA OlderType ==
  ASSUME TypeOK, Handshake, NEW t \in Thread, OlderBegin(t) \/ OlderTake(t) \/ OlderCount(t)
  PROVE  TypeOK'
<1>1. UNCHANGED <<lock, tx, ccfsm, stale, snap>>
  BY DEF OlderBegin, OlderTake, OlderCount
<1>2. ASSUME NEW b \in Block, OlderOn(t, b) PROVE CallsOK'
  <2>1. mem[b].next \in Block \cup {Null} /\ 0 \in 0..Width - 1
    BY BlockType, WidthHoldsAll
  <2>2. [stream |-> mem[b].next, count |-> 0]
          \in [stream : Block \cup {Null}, count : 0..Width - 1]
    BY <2>1
  <2> QED BY <1>1, <1>2, <2>2 DEF OlderOn, TypeOK, CallsOK
<1>3. CASE OlderBegin(t)
  <2>1. at' = [at EXCEPT ![t] = [at[t] EXCEPT !.stream = coll.head]]
    BY <1>3 DEF OlderBegin
  <2>2. [at[t] EXCEPT !.stream = coll.head] \in [stream : Block \cup {Null}, count : 0..Width - 1]
    BY CollType DEF TypeOK, CallsOK
  <2>3. UNCHANGED <<mem, coll, cause, wrong>> /\ pc' = [pc EXCEPT ![t] = "older"]
    BY <1>3 DEF OlderBegin
  <2> QED BY <1>1, <2>1, <2>2, <2>3 DEF TypeOK, ListOK, CallsOK, SendOK, HistoryOK
<1>4. CASE OlderTake(t)
  <2> DEFINE b == at[t].stream
  <2>1. b \in Block /\ coll' = coll
    BY <1>4 DEF OlderTake, Handshake
  <2>2. CASE ~Live(b)
    <3>1. UNCHANGED <<mem, pc, at, cause>> /\ wrong' = "stream"
      BY <1>4, <2>2 DEF OlderTake
    <3> QED BY <1>1, <2>1, <3>1 DEF TypeOK, ListOK, CallsOK, SendOK, HistoryOK
  <2>3. CASE Live(b) /\ mem[b].points = 0
    <3>1. OlderOn(t, b) /\ UNCHANGED <<mem, cause, wrong>>
      BY <1>4, <2>3 DEF OlderTake
    <3> QED BY <1>1, <1>2, <2>1, <3>1 DEF TypeOK, ListOK, SendOK, HistoryOK
  <2>4. CASE Live(b) /\ mem[b].points # 0
    <3>1. /\ mem' = [mem EXCEPT ![b] = [mem[b] EXCEPT !.points = mem[b].points - 1]]
          /\ at' = [at EXCEPT ![t] = [at[t] EXCEPT !.count = coll.count]]
          /\ pc' = [pc EXCEPT ![t] = "count"]
          /\ Blame(t, IF lock = Null THEN {} ELSE {"unlocked"})
          /\ wrong' \in {"no", "point"}
      BY <1>4, <2>4 DEF OlderTake
    <3>2. [mem[b] EXCEPT !.points = mem[b].points - 1] \in Stream
      <4>1. mem[b] \in Stream
        BY <2>1, <2>4, BlockType
      <4>2. mem[b].points - 1 \in 0..MaxPoints
        BY <2>1, <2>4, BlockType, WidthHoldsAll
      <4> QED BY <4>1, <4>2 DEF Stream
    <3>3. mem' \in [Block -> Stream \cup {Freed}]
      BY <2>1, <3>1, <3>2 DEF TypeOK, ListOK
    <3>4. [at[t] EXCEPT !.count = coll.count] \in [stream : Block \cup {Null}, count : 0..Width - 1]
      BY CollType DEF TypeOK, CallsOK
    <3>5. CallsOK'
      BY <1>1, <3>1, <3>4 DEF TypeOK, CallsOK
    <3>6. cause' \subseteq Causes
      <4>1. (IF lock = Null THEN {} ELSE {"unlocked"}) \in SUBSET Causes
        BY DEF Causes
      <4> QED BY <3>1, <4>1, CausesType
    <3>7. HistoryOK'
      BY <3>1, <3>6 DEF HistoryOK
    <3> QED BY <1>1, <2>1, <3>3, <3>5, <3>7 DEF TypeOK, ListOK, SendOK
  <2> QED BY <2>2, <2>3, <2>4
<1>5. CASE OlderCount(t)
  <2> DEFINE b == at[t].stream
  <2>1. b \in Block /\ UNCHANGED <<mem, cause>>
    BY <1>5 DEF OlderCount, Handshake
  <2>2. coll' = [coll EXCEPT !.count = Less(at[t].count, 1)]
    BY <1>5 DEF OlderCount
  <2>3. Less(at[t].count, 1) \in 0..Width - 1
    <3>1. at[t] \in [stream : Block \cup {Null}, count : 0..Width - 1]
      BY DEF TypeOK, CallsOK
    <3>2. at[t].count \in 0..Width - 1
      BY <3>1
    <3>3. at[t].count \in Int
      BY <3>2, WidthHoldsAll
    <3>4. \A n \in Int : Less(n, 1) \in 0..Width - 1
      BY WidthHoldsAll DEF Less
    <3> QED BY <3>3, <3>4
  <2>4. ListOK'
    BY <2>1, <2>2, <2>3 DEF TypeOK, ListOK
  <2>5. CallsOK' /\ HistoryOK'
    <3>1. CASE ~Live(b)
      <4>1. UNCHANGED <<pc, at>> /\ wrong' = "stream"
        BY <1>5, <3>1 DEF OlderCount
      <4> QED BY <1>1, <2>1, <4>1 DEF TypeOK, CallsOK, HistoryOK
    <3>2. CASE Live(b)
      <4>1. OlderOn(t, b) /\ wrong' = wrong
        BY <1>5, <3>2 DEF OlderCount
      <4> QED BY <1>2, <2>1, <4>1 DEF TypeOK, HistoryOK
    <3> QED BY <3>1, <3>2
  <2> QED BY <1>1, <2>4, <2>5 DEF TypeOK, SendOK
<1> QED BY <1>3, <1>4, <1>5

\* The steps of a send.
LEMMA SendType ==
  ASSUME TypeOK, NEW t \in Thread,
         SendBegin(t) \/ SendChain(t) \/ SendInitiate(t) \/ SendDone(t) \/ SendWaitFails(t)
  PROVE  TypeOK'
<1>1. UNCHANGED at
  BY DEF SendBegin, SendChain, SendInitiate, SendDone, SendWaitFails
<1>2. NoTx \in [resp : {"none", "success", "error"}, status : {"none", "complete", "error"},
                lock : {"held", "released", "stuck"}]
  BY DEF NoTx
<1>3. Quiet \in [ph : {"off", "reading", "sent", "status"}, at : Block \cup {Null},
                 read : [Block -> 0..MaxPoints]]
  BY WidthHoldsAll DEF Quiet
<1>4. CASE SendBegin(t)
  <2>1. UNCHANGED <<mem, coll, lock, at, tx, ccfsm, stale, snap, cause, wrong>>
        /\ pc' = [pc EXCEPT ![t] = "lock"]
    BY <1>4 DEF SendBegin
  <2> QED BY <2>1 DEF TypeOK, ListOK, CallsOK, SendOK, HistoryOK
<1>5. CASE SendChain(t)
  <2>1. UNCHANGED <<coll, at, ccfsm, stale, snap, cause>>
    BY <1>5 DEF SendChain
  <2>2. CASE UNCHANGED <<mem, lock, pc, tx>> /\ wrong' \in {"null", "stream"}
    BY <2>1, <2>2 DEF TypeOK, ListOK, CallsOK, SendOK, HistoryOK
  <2>3. CASE /\ mem' = Chain /\ lock' = t /\ tx' = NoTx
             /\ pc' = [pc EXCEPT ![t] = "initiate"] /\ UNCHANGED wrong
    <3>1. mem' \in [Block -> Stream \cup {Freed}]
      BY <2>3, ChainType DEF StreamOrFreed
    <3> QED BY <1>2, <2>1, <2>3, <3>1 DEF TypeOK, ListOK, CallsOK, SendOK, HistoryOK
  <2> QED BY <1>5, <2>2, <2>3 DEF SendChain
<1>6. ASSUME SendEnd(t) PROVE CallsOK' /\ tx' = NoTx
  BY <1>1, <1>6 DEF SendEnd, TypeOK, CallsOK
<1>7. CASE SendInitiate(t)
  <2>1. UNCHANGED <<mem, coll, at, cause, wrong>>
    BY <1>7 DEF SendInitiate
  <2>2. CASE SendEnd(t) /\ UNCHANGED <<ccfsm, snap>> /\ stale' \in {stale, stale \cup {coll.head}}
    <3>1. stale' \subseteq Block \cup {Null}
      BY <2>2, CollType DEF TypeOK, SendOK
    <3> QED BY <1>2, <1>6, <2>1, <2>2, <3>1 DEF TypeOK, ListOK, SendOK, HistoryOK
  <2>3. CASE /\ ccfsm' = [Quiet EXCEPT !.ph = "reading", !.at = coll.head]
             /\ snap' = [b \in Block |-> IF b \in List THEN mem[b].points ELSE 0]
             /\ pc' = [pc EXCEPT ![t] = "wait"] /\ UNCHANGED <<lock, tx, stale>>
    <3>1. ccfsm' \in [ph : {"off", "reading", "sent", "status"}, at : Block \cup {Null},
                      read : [Block -> 0..MaxPoints]]
      BY <1>3, <2>3, CollType
    <3>2. snap' \in [Block -> 0..MaxPoints]
      BY <2>3, BlockType, WidthHoldsAll
    <3>3. CallsOK'
      BY <1>1, <2>3 DEF TypeOK, CallsOK
    <3> QED BY <2>1, <2>3, <3>1, <3>2, <3>3 DEF TypeOK, ListOK, SendOK, HistoryOK
  <2> QED BY <1>7, <2>2, <2>3 DEF SendInitiate
<1>8. CASE SendDone(t)
  <2>1. SendEnd(t) /\ wrong' \in {"no", "point"} /\ Blame(t, {})
    BY <1>8 DEF SendDone
  <2>2. ListOK'
    <3>1. CASE mem' = FreePoints /\ coll' = [coll EXCEPT !.count = 0]
      <4>1. FreePoints \in [Block -> Stream \cup {Freed}]
        BY ChainType, BlockType DEF FreePoints, StreamOrFreed
      <4>2. 0 \in 0..Width - 1
        BY WidthHoldsAll
      <4> QED BY <3>1, <4>1, <4>2 DEF TypeOK, ListOK
    <3>2. CASE UNCHANGED <<mem, coll>>
      BY <3>2 DEF TypeOK, ListOK
    <3> QED BY <1>8, <3>1, <3>2 DEF SendDone
  <2>3. ccfsm' = Quiet /\ stale' = stale /\ snap' = [b \in Block |-> 0]
    BY <1>8 DEF SendDone
  <2>4. SendOK'
    BY <1>2, <1>3, <1>6, <2>1, <2>3, WidthHoldsAll DEF TypeOK, SendOK
  <2>5. HistoryOK'
    <3>1. {} \in SUBSET Causes
      OBVIOUS
    <3> QED BY <2>1, <3>1, CausesType DEF TypeOK, HistoryOK
  <2> QED BY <1>6, <2>1, <2>2, <2>4, <2>5 DEF TypeOK
<1>9. CASE SendWaitFails(t)
  <2>1. /\ SendEnd(t) /\ UNCHANGED <<mem, coll, at, cause, wrong>>
        /\ ccfsm' = Quiet /\ snap' = [b \in Block |-> 0]
        /\ stale' = stale \cup (IF ccfsm.ph = "off" THEN {} ELSE {ccfsm.at})
    BY <1>9 DEF SendWaitFails
  <2>2. stale' \subseteq Block \cup {Null}
    BY <2>1 DEF TypeOK, SendOK
  <2>3. SendOK'
    BY <1>2, <1>3, <1>6, <2>1, <2>2, WidthHoldsAll DEF TypeOK, SendOK
  <2> QED BY <1>6, <2>1, <2>3 DEF TypeOK, ListOK, HistoryOK
<1> QED BY <1>4, <1>5, <1>7, <1>8, <1>9

\* The callbacks of CCFSM.
LEMMA CcfsmType ==
  ASSUME TypeOK, Handshake,
         \/ Read
         \/ \E r \in {"success", "error"} : Response(r)
         \/ StatusNext \/ (\E b \in Block : StaleRead(b)) \/ StaleCallback
  PROVE  TypeOK'
<1>1. UNCHANGED <<mem, coll, lock, pc, at, snap, cause>>
  BY DEF Read, Response, Status, StatusNext, StaleRead, StaleCallback
<1>2. wrong' \in {wrong, "chain", "stale", "info"}
  BY DEF Read, Response, Status, StatusNext, StaleRead, StaleCallback
<1>3. ListOK' /\ CallsOK' /\ HistoryOK'
  BY <1>1, <1>2 DEF TypeOK, ListOK, CallsOK, HistoryOK
<1>4. CASE Read
  <2>1. UNCHANGED <<tx, stale>> /\ ccfsm.at \in Block
    BY <1>4 DEF Read, Handshake
  <2>2. CASE ccfsm' = ccfsm
    <3>1. SendOK'
      BY <1>1, <2>1, <2>2 DEF TypeOK, SendOK
    <3> QED BY <1>3, <3>1 DEF TypeOK
  <2>3. CASE ccfsm' # ccfsm
    <3> DEFINE b == ccfsm.at
    <3>1. ccfsm' = [ph |-> IF mem[b].cnext = Null THEN "sent" ELSE "reading",
                    at |-> mem[b].cnext, read |-> [ccfsm.read EXCEPT ![b] = mem[b].points]]
      BY <1>4, <2>3 DEF Read
    <3>2. [ccfsm.read EXCEPT ![b] = mem[b].points] \in [Block -> 0..MaxPoints]
      BY <2>1, BlockType DEF TypeOK, SendOK
    <3>3. mem[b].cnext \in Block \cup {Null}
      BY <2>1, BlockType
    <3>4. ccfsm' \in [ph : {"off", "reading", "sent", "status"}, at : Block \cup {Null},
                      read : [Block -> 0..MaxPoints]]
      BY <3>1, <3>2, <3>3
    <3>5. SendOK'
      BY <1>1, <2>1, <3>4 DEF TypeOK, SendOK
    <3> QED BY <1>3, <3>5 DEF TypeOK
  <2> QED BY <2>2, <2>3
<1>5. ASSUME NEW r \in {"success", "error"}, Response(r) PROVE TypeOK'
  <2>1. UNCHANGED <<ccfsm, stale>> /\ (tx' = tx \/ tx' = [tx EXCEPT !.resp = r])
    BY <1>5 DEF Response
  <2>2. SendOK'
    BY <1>1, <2>1 DEF TypeOK, SendOK
  <2> QED BY <1>3, <2>2 DEF TypeOK
<1>6. ASSUME NEW s \in {"complete", "error"}, NEW r \in {"OK", "BUSY", "ERROR"}, Status(s, r)
      PROVE  TypeOK'
  <2>1. PICK p \in {"off", "status"}, l \in {"held", "released", "stuck"} :
          /\ ccfsm' = [ccfsm EXCEPT !.ph = p, !.at = Null] /\ stale' = stale
          /\ tx' = tx \/ tx' = [tx EXCEPT !.status = s, !.lock = l]
    BY <1>6 DEF Status, Released
  <2>2. SendOK'
    BY <1>1, <2>1 DEF TypeOK, SendOK
  <2> QED BY <1>3, <2>2 DEF TypeOK
<1>7. ASSUME NEW b \in Block, StaleRead(b) PROVE TypeOK'
  <2>1. UNCHANGED <<tx, ccfsm>> /\ stale' \subseteq stale \cup {mem[b].cnext}
    BY <1>7 DEF StaleRead
  <2>2. SendOK'
    BY <1>1, <2>1, BlockType DEF TypeOK, SendOK
  <2> QED BY <1>3, <2>2 DEF TypeOK
<1>8. CASE StaleCallback
  BY <1>1, <1>3, <1>8 DEF StaleCallback, TypeOK, SendOK
<1> QED BY <1>4, <1>5, <1>6, <1>7, <1>8 DEF StatusNext

\* A new collection; the end of a run.
LEMMA CreateType ==
  ASSUME TypeOK, Create \/ UNCHANGED vars
  PROVE  TypeOK'
<1>1. CASE Create
  <2>1. [head |-> Null, count |-> 0, there |-> TRUE]
          \in [head : Block \cup {Null}, count : 0..Width - 1, there : BOOLEAN]
    BY WidthHoldsAll
  <2> QED BY <1>1, <2>1 DEF Create, TypeOK, ListOK, CallsOK, SendOK, HistoryOK
<1>2. CASE UNCHANGED vars
  BY <1>2 DEF vars, TypeOK, ListOK, CallsOK, SendOK, HistoryOK
<1> QED BY <1>1, <1>2

\* No step leaves the types.
LEMMA TypeNext ==
  ASSUME TypeOK, Handshake, [Next]_vars
  PROVE  TypeOK'
<1>1. CASE \E t \in Thread, id \in Id : AddStream(t, id) \/ RemoveStream(t, id) \/ AddPoint(t, id)
  BY <1>1, LockedType
<1>2. CASE \E t \in Thread : Clear(t) \/ Destroy(t)
  BY <1>2, LockedType
<1>3. CASE \E t \in Thread : OlderBegin(t) \/ OlderTake(t) \/ OlderCount(t)
  BY <1>3, OlderType
<1>4. CASE \E t \in Thread : \/ SendBegin(t) \/ SendChain(t) \/ SendInitiate(t)
                            \/ SendDone(t) \/ SendWaitFails(t)
  BY <1>4, SendType
<1>5. CASE \/ Read \/ (\E r \in {"success", "error"} : Response(r))
           \/ StatusNext \/ (\E b \in Block : StaleRead(b)) \/ StaleCallback
  BY <1>5, CcfsmType
<1>6. CASE Create \/ UNCHANGED vars
  BY <1>6, CreateType
<1> QED BY <1>1, <1>2, <1>3, <1>4, <1>5, <1>6 DEF Next, Halted

----------------------------------------------------------------------------
(* A send and CCFSM. *)

\* At first nobody sends.
LEMMA HandshakeInit == Init => Handshake
BY NullIsNone DEF Init, Handshake, NoTx, Quiet

\* The thread whose send is under way has the lock, alone.
LEMMA OneSends ==
  ASSUME Handshake, NEW t \in Thread, pc[t] \in {"initiate", "wait"}
  PROVE  lock = t /\ \A u \in Thread \ {t} : pc[u] \notin {"initiate", "wait"}
BY DEF Handshake

\* A call that has the lock meets no send, and CCFSM is not at work.
LEMMA LockedHandshake ==
  ASSUME TypeOK, Handshake, NEW t \in Thread,
         \/ \E id \in Id : AddStream(t, id) \/ RemoveStream(t, id) \/ AddPoint(t, id)
         \/ Clear(t) \/ Destroy(t)
  PROVE  Handshake'
<1>1. UNCHANGED <<lock, pc, at, tx, ccfsm, stale, snap>>
  BY DEF AddStream, RemoveStream, AddPoint, Clear, Destroy, Locked
<1>2. lock = Null /\ coll.there
  BY DEF AddStream, RemoveStream, AddPoint, Clear, Destroy, Locked, Idle
<1>3. \A u \in Thread : pc[u] \notin {"initiate", "wait"}
  BY <1>2, NullIsNone DEF Handshake
<1>4. ccfsm.ph = "off"
  BY <1>2, <1>3 DEF Handshake, InfoThere
<1>5. wrong' # "info"
  BY DEF AddStream, RemoveStream, AddPoint, Clear, Destroy, Locked, Idle
<1>6. coll'.there = coll.there \/ \A u \in Thread : pc[u] = "idle"
  <2>1. coll \in [head : Block \cup {Null}, count : 0..Width - 1, there : BOOLEAN]
    BY DEF TypeOK, ListOK
  <2> QED BY <2>1 DEF AddStream, RemoveStream, AddPoint, Clear, Destroy, Locked, Unlinked
<1> QED BY <1>1, <1>2, <1>3, <1>4, <1>5, <1>6 DEF Handshake

\* Who walks without the lock changes nothing a send and CCFSM agree on.
LEMMA OlderHandshake ==
  ASSUME TypeOK, Handshake, NEW t \in Thread, OlderBegin(t) \/ OlderTake(t) \/ OlderCount(t)
  PROVE  Handshake'
<1>1. UNCHANGED <<lock, tx, ccfsm, stale, snap>>
  BY DEF OlderBegin, OlderTake, OlderCount
<1>2. coll'.there = coll.there /\ coll'.head = coll.head /\ coll.there
  <2>1. coll \in [head : Block \cup {Null}, count : 0..Width - 1, there : BOOLEAN]
    BY DEF TypeOK, ListOK
  <2>2. coll.there
    BY DEF OlderBegin, OlderTake, OlderCount, Idle, Handshake
  <2>3. coll' = coll \/ coll' = [coll EXCEPT !.count = Less(at[t].count, 1)]
    BY DEF OlderBegin, OlderTake, OlderCount
  <2> QED BY <2>1, <2>2, <2>3
<1>3. /\ pc[t] \in {"idle", "older", "count"}
      /\ pc'[t] \in {"idle", "older", "count"}
      /\ \A u \in Thread \ {t} : pc'[u] = pc[u] /\ at'[u] = at[u]
  BY DEF OlderBegin, OlderTake, OlderCount, OlderOn, Idle, TypeOK, CallsOK
<1>4. pc'[t] \in {"older", "count"} => at'[t].stream \in Block
  <2>1. at[t] \in [stream : Block \cup {Null}, count : 0..Width - 1]
    BY DEF TypeOK, CallsOK
  <2>2. CASE OlderBegin(t)
    BY <2>1, <2>2, CollType DEF OlderBegin, TypeOK, CallsOK
  <2>3. CASE OlderTake(t) \/ OlderCount(t)
    <3>1. at[t].stream \in Block
      BY <2>3 DEF OlderTake, OlderCount, Handshake
    <3>2. \/ UNCHANGED <<pc, at>>
          \/ OlderOn(t, at[t].stream)
          \/ at' = [at EXCEPT ![t] = [at[t] EXCEPT !.count = coll.count]]
      BY <2>3 DEF OlderTake, OlderCount
    <3>3. CASE OlderOn(t, at[t].stream)
      <4>1. mem[at[t].stream].next \in Block \cup {Null}
        BY <3>1, BlockType
      <4>2. at'[t].stream = mem[at[t].stream].next
        BY <3>3 DEF OlderOn, TypeOK, CallsOK
      <4>3. pc'[t] \in {"older", "count"} => mem[at[t].stream].next # Null
        BY <3>3 DEF OlderOn, TypeOK, CallsOK
      <4> QED BY <4>1, <4>2, <4>3
    <3>4. CASE at' = [at EXCEPT ![t] = [at[t] EXCEPT !.count = coll.count]]
      BY <2>1, <3>1, <3>4 DEF TypeOK, CallsOK
    <3> QED BY <3>1, <3>2, <3>3, <3>4
  <2> QED BY <2>2, <2>3
<1>5. wrong' # "info"
  BY DEF OlderBegin, OlderTake, OlderCount, Idle
<1>6. InfoThere' <=> InfoThere
  BY <1>3 DEF InfoThere
<1> QED BY <1>1, <1>2, <1>3, <1>4, <1>5, <1>6 DEF Handshake

\* A send takes the lock, has CCFSM answer, or not, and gives the lock back.
LEMMA SendHandshake ==
  ASSUME TypeOK, Handshake, NEW t \in Thread,
         SendBegin(t) \/ SendChain(t) \/ SendInitiate(t) \/ SendDone(t) \/ SendWaitFails(t)
  PROVE  Handshake'
<1>1. UNCHANGED at
  BY DEF SendBegin, SendChain, SendInitiate, SendDone, SendWaitFails
<1>2. wrong' # "info" /\ coll.there
  BY DEF SendBegin, SendChain, SendInitiate, SendDone, SendWaitFails, Idle, Handshake
<1>3. coll'.there = coll.there /\ coll'.head = coll.head
  <2>1. coll \in [head : Block \cup {Null}, count : 0..Width - 1, there : BOOLEAN]
    BY DEF TypeOK, ListOK
  <2> QED BY <2>1 DEF SendBegin, SendChain, SendInitiate, SendDone, SendWaitFails
<1>4. pc \in [Thread -> {"idle", "lock", "initiate", "wait", "older", "count"}]
  BY DEF TypeOK, CallsOK
<1>5. ASSUME SendEnd(t), pc[t] \in {"initiate", "wait"}
      PROVE  /\ \A u \in Thread : pc'[u] \notin {"initiate", "wait"}
             /\ \A u \in Thread \ {t} : pc'[u] = pc[u]
             /\ lock' = Null /\ pc'[t] = "idle" /\ tx'.lock = "held"
  BY <1>4, <1>5, OneSends DEF SendEnd, NoTx
<1>6. CASE SendBegin(t)
  <2>1. /\ UNCHANGED <<lock, tx, ccfsm>> /\ pc' = [pc EXCEPT ![t] = "lock"]
        /\ pc[t] = "idle"
    BY <1>6 DEF SendBegin, Idle
  <2>2. pc'[t] = "lock" /\ \A u \in Thread \ {t} : pc'[u] = pc[u]
    BY <1>4, <2>1
  <2>3. InfoThere' <=> InfoThere
    BY <2>1, <2>2 DEF InfoThere
  <2> QED BY <1>1, <1>2, <1>3, <2>1, <2>2, <2>3 DEF Handshake
<1>7. CASE SendChain(t)
  <2>1. /\ lock = Null /\ pc[t] = "lock" /\ UNCHANGED <<at, ccfsm>>
        /\ \A u \in Thread : pc[u] \notin {"initiate", "wait"}
    BY <1>7, NullIsNone DEF SendChain, Handshake
  <2>2. CASE UNCHANGED <<lock, pc, tx>>
    BY <1>1, <1>2, <1>3, <2>1, <2>2 DEF Handshake, InfoThere
  <2>3. CASE /\ coll.head # Null /\ lock' = t /\ tx' = NoTx
             /\ pc' = [pc EXCEPT ![t] = "initiate"]
    <3>1. pc'[t] = "initiate" /\ \A u \in Thread \ {t} : pc'[u] = pc[u]
      BY <1>4, <2>3
    <3>2. coll'.head \in Block /\ tx'.lock = "held" /\ ccfsm'.ph = "off"
      BY <1>3, <2>1, <2>3, CollType DEF NoTx, Handshake, InfoThere
    <3>3. ~InfoThere /\ ~InfoThere'
      BY <2>1, <3>1 DEF InfoThere
    <3> QED BY <1>1, <1>2, <1>3, <2>1, <2>3, <3>1, <3>2, <3>3 DEF Handshake
  <2> QED BY <1>7, <2>2, <2>3 DEF SendChain
<1>8. CASE SendInitiate(t)
  <2>1. /\ pc[t] = "initiate" /\ lock = t /\ coll.head \in Block /\ tx.lock = "held" /\ ccfsm.ph = "off"
        /\ \A u \in Thread \ {t} : pc[u] \notin {"initiate", "wait"}
    BY <1>8, OneSends DEF SendInitiate, Handshake
  <2>2. CASE SendEnd(t) /\ UNCHANGED <<ccfsm, snap>>
    BY <1>1, <1>2, <1>3, <1>5, <2>1, <2>2, NullIsNone DEF Handshake
  <2>3. CASE /\ ccfsm' = [Quiet EXCEPT !.ph = "reading", !.at = coll.head]
             /\ pc' = [pc EXCEPT ![t] = "wait"] /\ UNCHANGED <<lock, tx, stale>>
    <3>1. ccfsm'.ph = "reading" /\ ccfsm'.at = coll.head
      BY <2>3 DEF Quiet
    <3>2. pc'[t] = "wait" /\ \A u \in Thread \ {t} : pc'[u] = pc[u]
      BY <1>4, <2>3
    <3>3. InfoThere'
      BY <3>2 DEF InfoThere
    <3> QED BY <1>1, <1>2, <1>3, <2>1, <2>3, <3>1, <3>2, <3>3 DEF Handshake
  <2> QED BY <1>8, <2>2, <2>3 DEF SendInitiate
<1>9. CASE SendDone(t) \/ SendWaitFails(t)
  <2>1. pc[t] = "wait" /\ SendEnd(t) /\ ccfsm' = Quiet
    BY <1>9 DEF SendDone, SendWaitFails
  <2>2. ccfsm'.ph = "off"
    BY <2>1 DEF Quiet
  <2> QED BY <1>1, <1>2, <1>3, <1>5, <2>1, <2>2, NullIsNone DEF Handshake
<1> QED BY <1>6, <1>7, <1>8, <1>9

\* CCFSM releases the send that waits when it is done with it, and not before.
LEMMA CcfsmHandshake ==
  ASSUME TypeOK, Handshake,
         \/ Read
         \/ \E r \in {"success", "error"} : Response(r)
         \/ StatusNext \/ (\E b \in Block : StaleRead(b)) \/ StaleCallback
  PROVE  Handshake'
<1>1. UNCHANGED <<coll, lock, pc, at>>
  BY DEF Read, Response, Status, StatusNext, StaleRead, StaleCallback
<1>2. InfoThere' <=> InfoThere
  BY <1>1 DEF InfoThere
<1>3. tx \in [resp : {"none", "success", "error"}, status : {"none", "complete", "error"},
              lock : {"held", "released", "stuck"}]
  BY DEF TypeOK, SendOK
<1>4. CASE Read
  <2>1. /\ UNCHANGED tx /\ ccfsm.ph = "reading" /\ ccfsm.at \in Block
        /\ wrong' # "info"
    BY <1>4 DEF Read, Handshake
  <2>2. ccfsm'.ph # "off" /\ (ccfsm'.ph = "reading" => ccfsm'.at \in Block)
    <3> DEFINE b == ccfsm.at
    <3>1. CASE ccfsm' = ccfsm
      BY <2>1, <3>1
    <3>2. CASE ccfsm' = [ph |-> IF mem[b].cnext = Null THEN "sent" ELSE "reading",
                         at |-> mem[b].cnext, read |-> [ccfsm.read EXCEPT ![b] = mem[b].points]]
      <4>1. mem[b].cnext \in Block \cup {Null}
        BY <2>1, BlockType
      <4> QED BY <3>2, <4>1
    <3> QED BY <1>4, <3>1, <3>2 DEF Read
  <2> QED BY <1>1, <1>2, <2>1, <2>2 DEF Handshake
<1>5. ASSUME NEW r \in {"success", "error"}, Response(r) PROVE Handshake'
  <2>1. UNCHANGED ccfsm /\ ccfsm.ph = "sent"
    BY <1>5 DEF Response
  <2>2. tx'.lock = tx.lock
    BY <1>3, <1>5 DEF Response
  <2>3. wrong' # "info"
    BY <1>5, <2>1 DEF Response, Handshake
  <2> QED BY <1>1, <1>2, <2>1, <2>2, <2>3 DEF Handshake
<1>6. ASSUME NEW s \in {"complete", "error"}, NEW r \in {"OK", "BUSY", "ERROR"}, Status(s, r)
      PROVE  Handshake'
  <2>1. ccfsm.ph # "off" /\ InfoThere /\ wrong' # "info" /\ tx.lock = "held"
    BY <1>3, <1>6 DEF Status, Handshake
  <2>2. /\ ccfsm'.ph = IF r = "BUSY" THEN "status" ELSE "off"
        /\ tx'.lock = IF r = "OK" THEN "released" ELSE IF r = "ERROR" THEN "stuck" ELSE "held"
    BY <1>3, <1>6, <2>1 DEF Status, Released, TypeOK, SendOK
  <2>3. \A u \in Thread : pc[u] # "initiate"
    BY <2>1, OneSends DEF InfoThere
  <2> QED BY <1>1, <1>2, <2>1, <2>2, <2>3 DEF Handshake
<1>7. ASSUME NEW b \in Block, StaleRead(b) PROVE Handshake'
  <2>1. UNCHANGED <<tx, ccfsm>> /\ wrong' # "info"
    BY <1>7 DEF StaleRead
  <2> QED BY <1>1, <1>2, <2>1 DEF Handshake
<1>8. CASE StaleCallback
  <2>1. UNCHANGED <<tx, ccfsm, stale>> /\ stale # {}
    BY <1>8 DEF StaleCallback
  <2> QED BY <1>1, <1>2, <2>1 DEF Handshake
<1> QED BY <1>4, <1>5, <1>6, <1>7, <1>8 DEF StatusNext

\* A collection is only created when there is none, and then nobody calls.
LEMMA CreateHandshake ==
  ASSUME TypeOK, Handshake, Create \/ UNCHANGED vars
  PROVE  Handshake'
<1>1. CASE Create
  <2>1. ~coll.there /\ wrong # "info" /\ UNCHANGED <<lock, pc, at, tx, ccfsm, stale, wrong>>
    BY <1>1 DEF Create
  <2>2. \A t \in Thread : pc[t] = "idle"
    BY <2>1 DEF Handshake
  <2> QED BY <2>1, <2>2 DEF Handshake, InfoThere
<1>2. CASE UNCHANGED vars
  BY <1>2 DEF vars, Handshake, InfoThere
<1> QED BY <1>1, <1>2

\* No step leaves the invariant.
LEMMA HandshakeNext ==
  ASSUME TypeOK, Handshake, [Next]_vars
  PROVE  Handshake'
<1>1. CASE \E t \in Thread, id \in Id : AddStream(t, id) \/ RemoveStream(t, id) \/ AddPoint(t, id)
  BY <1>1, LockedHandshake
<1>2. CASE \E t \in Thread : Clear(t) \/ Destroy(t)
  BY <1>2, LockedHandshake
<1>3. CASE \E t \in Thread : OlderBegin(t) \/ OlderTake(t) \/ OlderCount(t)
  BY <1>3, OlderHandshake
<1>4. CASE \E t \in Thread : \/ SendBegin(t) \/ SendChain(t) \/ SendInitiate(t)
                            \/ SendDone(t) \/ SendWaitFails(t)
  BY <1>4, SendHandshake
<1>5. CASE \/ Read \/ (\E r \in {"success", "error"} : Response(r))
           \/ StatusNext \/ (\E b \in Block : StaleRead(b)) \/ StaleCallback
  BY <1>5, CcfsmHandshake
<1>6. CASE Create \/ UNCHANGED vars
  BY <1>6, CreateHandshake
<1> QED BY <1>1, <1>2, <1>3, <1>4, <1>5, <1>6 DEF Next, Halted

\* The list, the calls and the send keep their types, and the send and CCFSM
\* their agreement, whatever the application and CCFSM do
\* (ccapi_datapoints.c:1083-1303, ccapi.c:1549-1604).
THEOREM HandshakeCorrect == Spec => [](TypeOK /\ Handshake)
<1>1. Init => TypeOK /\ Handshake
  BY TypeInit, HandshakeInit
<1>2. TypeOK /\ Handshake /\ [Next]_vars => (TypeOK /\ Handshake)'
  BY TypeNext, HandshakeNext
<1> QED BY <1>1, <1>2, PTL DEF Spec

\* The info of a send is there for the callbacks of CCFSM, unless the send gave
\* up waiting, and a send that waits is going to be woken
\* (ccapi_datapoints.c:1258-1291, ccapi.c:1570).
THEOREM SendCorrect == Spec => []SendAwaitsCcfsm
<1>1. Handshake => SendAwaitsCcfsm
  BY DEF Handshake, SendAwaitsCcfsm, InfoOutlivesCallbacks, WaitsForSomething
<1> QED BY <1>1, HandshakeCorrect, PTL

----------------------------------------------------------------------------
(***************************************************************************)
(* The list, its count and CCFSM's chain: the inductive invariant, with    *)
(* what breaks each part named in it as in the properties.                 *)
(***************************************************************************)

Nexts == [b \in Block |-> mem[b].next]

\* One pointer leads to each stream of the list; the streams are there until a
\* clear frees them and leaves the head pointing to the first.
ListIsChain ==
  /\ \A b \in List : Nexts[b] # Null => Nexts[b] # coll.head
  /\ \A b, c \in List : Nexts[b] = Nexts[c] /\ Nexts[b] # Null => b = c
  /\ "clear" \notin cause => \A b \in List : Live(b)
  /\ "clear" \in cause =>
       coll.head \in Block /\ ~Live(coll.head) /\ lock = Null /\ ccfsm.ph = "off"
  /\ ~coll.there => coll.head = Null /\ coll.count = 0

\* A stream that is there is in the list; the first took the others with it.
NoneLost == "head" \notin cause => \A b \in Block : Live(b) => b \in List

\* Unless a call changed it behind them, the threads that walk without the lock
\* are at a stream of the list, and one at a time is between the removal of a
\* point and its count.
Walking(t) == pc[t] \in {"older", "count"}
Counting(t) == pc[t] = "count"
OlderOK ==
  "unlocked" \notin cause =>
    /\ \A t \in Thread : Walking(t) => at[t].stream \in List
    /\ \A t \in Thread : Counting(t) => "clear" \notin cause /\ at[t].count = coll.count
    /\ \A t, u \in Thread : Counting(t) /\ Counting(u) => t = u

\* The count is that of the points, the one included that is being removed.
CountOK ==
  cause \cap {"head", "clear", "unlocked"} = {} =>
    coll.count = PointsOf(List) + (IF \E t \in Thread : Counting(t) THEN 1 ELSE 0)

\* What a send saw before it had the lock.
SendSaw == "emptied" \notin cause => \A t \in Thread : pc[t] = "lock" => coll.head # Null

\* CCFSM's chain: the last stream points nowhere until the one behind it was
\* removed, and while a send is under way the others point to the next.
ChainOK ==
  /\ "tail" \notin cause => ~LooseEnd
  /\ lock # Null => \A b \in List : mem[b].next # Null => mem[b].cnext = mem[b].next

\* CCFSM is at a stream of the list, unless it went over the loose end.
PlaceOK == ccfsm.ph = "reading" /\ ~LooseEnd => ccfsm.at \in List

\* What CCFSM has read is what was there when it was asked, but for what is ahead,
\* and that is still there while the send waits.
ReadingOK ==
  "unlocked" \notin cause /\ ~LooseEnd =>
    /\ InfoThere => snap = [b \in Block |-> IF b \in List THEN mem[b].points ELSE 0]
    /\ ccfsm.ph = "reading" =>
         \A b \in Block : b \in Reach(Nexts, ccfsm.at) \/ ccfsm.read[b] = snap[b]
    /\ ccfsm.ph = "sent" => ccfsm.read = snap
    /\ InfoThere /\ tx.status = "complete" => ccfsm.read = snap

StatusOK == tx.status # "none" => tx.lock # "held" \/ ccfsm.ph = "status"

WrongOK ==
  /\ wrong = "stream" => cause \cap {"clear", "unlocked"} # {}
  /\ wrong = "null" => "emptied" \in cause
  /\ wrong = "chain" => LooseEnd
  /\ wrong = "point" => "unlocked" \in cause \/ stale # {}

Inv ==
  /\ ListIsChain /\ NoneLost /\ OlderOK /\ CountOK /\ SendSaw
  /\ ChainOK /\ PlaceOK /\ ReadingOK /\ StatusOK /\ WrongOK

----------------------------------------------------------------------------
(***************************************************************************)
(* What can be reached along pointers.                                     *)
(***************************************************************************)
Pointers == [Block -> Block \cup {Null}]
ClosedUnder(nx, S) == \A d \in S : nx[d] \in S \cup {Null}

\* Nothing but streams is reached.
LEMMA ReachBlocks ==
    ASSUME NEW nx, NEW p
    PROVE  Reach(nx, p) \subseteq Block
  BY DEF Reach

\* What is pointed to is reached.
LEMMA ReachRoot ==
    ASSUME NEW nx, NEW p \in Block
    PROVE  p \in Reach(nx, p)
<1>1. \A S \in SUBSET Block : p \in S \cup {Null} => p \in S
  BY NullIsNone
<1> QED BY <1>1 DEF Reach

\* What a stream that is reached points to is reached.
LEMMA ReachStep ==
    ASSUME NEW nx \in Pointers, NEW p, NEW c \in Reach(nx, p), nx[c] # Null
    PROVE  nx[c] \in Reach(nx, p)
<1>1. c \in Block /\ nx[c] \in Block
  BY ReachBlocks DEF Pointers
<1>2. ASSUME NEW S \in SUBSET Block, p \in S \cup {Null}, \A d \in S : nx[d] \in S \cup {Null}
      PROVE  nx[c] \in S
  <2>1. c \in S
    BY <1>2 DEF Reach
  <2> QED BY <2>1, <1>2
<1> QED BY <1>1, <1>2 DEF Reach

\* Whatever holds the first stream and with each stream the next holds all.
LEMMA ReachLeast ==
    ASSUME NEW nx, NEW p, NEW S \in SUBSET Block, p \in S \cup {Null}, ClosedUnder(nx, S)
    PROVE  Reach(nx, p) \subseteq S
  BY DEF Reach, ClosedUnder

\* The lemmas above as one fact.
LEMMA ReachClosed ==
    ASSUME NEW nx \in Pointers, NEW p \in Block \cup {Null}
    PROVE  /\ Reach(nx, p) \in SUBSET Block
           /\ p \in Reach(nx, p) \cup {Null}
           /\ ClosedUnder(nx, Reach(nx, p))
<1>1. p \in Block => p \in Reach(nx, p)
  BY ReachRoot
<1>2. \A c \in Reach(nx, p) : nx[c] \in Reach(nx, p) \cup {Null}
  BY ReachStep
<1> QED BY <1>1, <1>2, ReachBlocks DEF ClosedUnder

\* From no pointer none is.
LEMMA ReachNull ==
    ASSUME NEW nx
    PROVE  Reach(nx, Null) = {}
<1>1. ClosedUnder(nx, {}) /\ {} \in SUBSET Block
  BY DEF ClosedUnder
<1> QED BY <1>1, ReachLeast

\* The first stream, then what it points to.
LEMMA ReachFirst ==
    ASSUME NEW nx \in Pointers, NEW p \in Block
    PROVE  Reach(nx, p) = {p} \cup Reach(nx, nx[p])
<1> DEFINE R == Reach(nx, p)
           T == Reach(nx, nx[p])
<1>1. nx[p] \in Block \cup {Null}
  BY DEF Pointers
<1>2. R \in SUBSET Block /\ p \in R /\ ClosedUnder(nx, R)
  BY ReachClosed, ReachRoot
<1>3. T \in SUBSET Block /\ nx[p] \in T \cup {Null} /\ ClosedUnder(nx, T)
  BY <1>1, ReachClosed
<1>4. R \subseteq {p} \cup T
  <2>1. ClosedUnder(nx, {p} \cup T) /\ {p} \cup T \in SUBSET Block
    BY <1>3 DEF ClosedUnder
  <2> QED BY <2>1, ReachLeast
<1>5. T \subseteq R
  <2>1. nx[p] \in R \cup {Null}
    BY <1>2 DEF ClosedUnder
  <2> QED BY <2>1, <1>2, ReachLeast
<1> QED BY <1>2, <1>4, <1>5

\* Only the pointers of what is reached count.
LEMMA ReachSame ==
    ASSUME NEW nx \in Pointers, NEW my \in Pointers, NEW p \in Block \cup {Null},
           \A c \in Reach(nx, p) : my[c] = nx[c]
    PROVE  Reach(my, p) = Reach(nx, p)
<1> DEFINE R == Reach(nx, p)
           T == Reach(my, p)
<1>1. R \in SUBSET Block /\ p \in R \cup {Null} /\ ClosedUnder(nx, R)
  BY ReachClosed
<1>2. T \in SUBSET Block /\ p \in T \cup {Null} /\ ClosedUnder(my, T)
  BY ReachClosed
<1>3. T \subseteq R
  <2>1. ClosedUnder(my, R)
    BY <1>1 DEF ClosedUnder
  <2> QED BY <2>1, <1>1, ReachLeast
<1>4. R \subseteq T
  <2>1. ClosedUnder(nx, T)
    BY <1>2, <1>3 DEF ClosedUnder
  <2> QED BY <2>1, <1>2, ReachLeast
<1> QED BY <1>3, <1>4

\* A stream is added in front.
LEMMA ReachAdd ==
    ASSUME NEW nx \in Pointers, NEW h \in Block \cup {Null}, NEW x \in Block,
           x \notin Reach(nx, h), NEW my \in Pointers,
           my[x] = h, \A c \in Block : c # x => my[c] = nx[c]
    PROVE  /\ Reach(my, x) = {x} \cup Reach(nx, h)
           /\ Reach(my, h) = Reach(nx, h)
<1>1. my \in Pointers /\ my[x] = h /\ \A c \in Block \ {x} : my[c] = nx[c]
  OBVIOUS
<1>2. Reach(my, h) = Reach(nx, h)
  <2>1. \A c \in Reach(nx, h) : my[c] = nx[c]
    BY <1>1, ReachBlocks
  <2> QED BY <2>1, <1>1, ReachSame
<1>3. Reach(my, x) = {x} \cup Reach(my, h)
  <2>1. Reach(my, x) = {x} \cup Reach(my, my[x])
    BY <1>1, ReachFirst
  <2> QED BY <2>1, <1>1
<1> QED BY <1>1, <1>2, <1>3

\* A stream that only one other points to does not point to itself.
LEMMA ReachNoLoop ==
    ASSUME NEW nx \in Pointers, NEW h \in Block \cup {Null}, NEW p \in Reach(nx, h), NEW x \in Block,
           nx[p] = x, x # h,
           \A c \in Reach(nx, h) : nx[c] = x => c = p
    PROVE  p # x
<1> DEFINE R == Reach(nx, h)
<1>1. R \in SUBSET Block /\ h \in R \cup {Null} /\ ClosedUnder(nx, R)
  BY ReachClosed
<1>2. p \in Block /\ x \in R /\ x # Null
  BY <1>1, NullIsNone DEF ClosedUnder
<1>3. p # x
  <2>1. SUFFICES ASSUME p = x PROVE FALSE
    OBVIOUS
  <2>2. ClosedUnder(nx, R \ {x}) /\ h \in (R \ {x}) \cup {Null} /\ R \ {x} \in SUBSET Block
    BY <1>1, <2>1 DEF ClosedUnder
  <2>3. R \subseteq R \ {x}
    BY <2>2, ReachLeast
  <2> QED BY <2>3, <1>2
<1> QED BY <1>3

\* A stream is taken out behind the only one that points to it.
LEMMA ReachRemove ==
    ASSUME NEW nx \in Pointers, NEW h \in Block \cup {Null}, NEW p \in Reach(nx, h), NEW x \in Block,
           nx[p] = x, x # h,
           \A c \in Reach(nx, h) : nx[c] = x => c = p,
           NEW my \in Pointers,
           \A c \in Block : my[c] = IF c = p THEN nx[x] ELSE IF c = x THEN Null ELSE nx[c]
    PROVE  Reach(my, h) = Reach(nx, h) \ {x}
<1> DEFINE R == Reach(nx, h)
<1>1. R \in SUBSET Block /\ h \in R \cup {Null} /\ ClosedUnder(nx, R)
  BY ReachClosed
<1>2. p \in Block /\ x \in R /\ x # Null
  BY <1>1, NullIsNone DEF ClosedUnder
<1>3. p # x
  BY ReachNoLoop
<1> DEFINE T == Reach(my, h)
<1>4. /\ my[p] = nx[x] /\ my[x] = Null
      /\ \A c \in Block \ {p, x} : my[c] = nx[c]
  BY <1>2, <1>3 DEF Pointers
<1>5. T \in SUBSET Block /\ h \in T \cup {Null} /\ ClosedUnder(my, T)
  BY ReachClosed
<1>6. T \subseteq R \ {x}
  <2>1. nx[x] \in R \cup {Null} /\ nx[x] # x
    BY <1>1, <1>2, <1>3 DEF ClosedUnder
  <2>2. \A c \in R \ {x} : my[c] \in (R \ {x}) \cup {Null}
    <3> TAKE c \in R \ {x}
    <3>1. CASE c = p
      BY <3>1, <1>4, <2>1
    <3>2. CASE c # p
      <4>1. my[c] = nx[c] /\ nx[c] # x
        BY <3>2, <1>4, <1>1
      <4> QED BY <4>1, <1>1 DEF ClosedUnder
    <3> QED BY <3>1, <3>2
  <2>3. R \ {x} \in SUBSET Block /\ h \in (R \ {x}) \cup {Null} /\ ClosedUnder(my, R \ {x})
    BY <1>1, <2>2 DEF ClosedUnder
  <2> QED BY <2>3, ReachLeast
<1>7. p \in T
  <2>1. SUFFICES ASSUME p \notin T PROVE FALSE
    OBVIOUS
  <2>2. ClosedUnder(nx, T)
    BY <2>1, <1>4, <1>5, <1>6 DEF ClosedUnder
  <2> QED BY <2>1, <2>2, <1>5, ReachLeast
<1>8. R \subseteq T \cup {x}
  <2>1. nx[x] \in T \cup {Null}
    BY <1>4, <1>5, <1>7 DEF ClosedUnder
  <2>2. \A c \in T \cup {x} : nx[c] \in T \cup {x} \cup {Null}
    <3> TAKE c \in T \cup {x}
    <3>1. CASE c = x
      BY <3>1, <2>1
    <3>2. CASE c = p
      BY <3>2
    <3>3. CASE c \notin {x, p}
      <4>1. c \in T /\ my[c] = nx[c]
        BY <3>3, <1>4, <1>5
      <4> QED BY <4>1, <1>5 DEF ClosedUnder
    <3> QED BY <3>1, <3>2, <3>3
  <2>3. T \cup {x} \in SUBSET Block /\ h \in T \cup {x} \cup {Null} /\ ClosedUnder(nx, T \cup {x})
    BY <1>5, <2>2 DEF ClosedUnder
  <2> QED BY <2>3, ReachLeast
<1> QED BY <1>6, <1>8

----------------------------------------------------------------------------
(* How many points there are in a set of streams. *)

PointCounts == [Block -> 0..MaxPoints]
PointSet(n, B) == {p \in B \X (1..MaxPoints) : p[2] <= n[p[1]]}
Points == [b \in Block |-> mem[b].points]

\* The points of one stream.
LEMMA OneStreamPoints ==
  ASSUME NEW n \in PointCounts, NEW b \in Block
  PROVE  IsFiniteSet(PointSet(n, {b})) /\ Cardinality(PointSet(n, {b})) = n[b]
<1> DEFINE P == PointSet(n, {b})
           f == [i \in 1..n[b] |-> <<b, i>>]
<1>1. n[b] \in Nat /\ n[b] <= MaxPoints
  BY WidthHoldsAll DEF PointCounts
<1>2. P = {<<b, i>> : i \in 1..n[b]}
  BY <1>1, WidthHoldsAll DEF PointSet
<1>3. f \in [1..n[b] -> P]
  BY <1>2
<1>4. f \in Injection(1..n[b], P)
  BY <1>3, Zenon DEF Injection, IsInjective
<1>5. f \in Surjection(1..n[b], P)
  BY <1>2, <1>3 DEF Surjection
<1>6. ExistsBijection(1..n[b], P)
  BY <1>4, <1>5 DEF ExistsBijection, Bijection
<1>7. IsFiniteSet(P)
  BY <1>1, <1>6, FS_NatBijection
<1>8. Cardinality(P) = n[b]
  BY <1>1, <1>6, FS_CountingElements
<1> QED BY <1>7, <1>8

\* The count fits in dp_count.
LEMMA PointSetBound ==
  ASSUME NEW n \in PointCounts, NEW B \in SUBSET Block
  PROVE  /\ IsFiniteSet(PointSet(n, B)) /\ Cardinality(PointSet(n, B)) \in Nat
         /\ Cardinality(PointSet(n, B)) < Width
<1> DEFINE All == Block \X (1..MaxPoints)
<1>1. IsFiniteSet(1..MaxPoints) /\ Cardinality(1..MaxPoints) = MaxPoints
  BY WidthHoldsAll, FS_Interval
<1>2. Cardinality(Block) \in Nat
  BY MemoryIsFinite, FS_CardinalityType
<1>3. IsFiniteSet(All) /\ Cardinality(All) = Cardinality(Block) * MaxPoints
  BY <1>1, MemoryIsFinite, FS_Product
<1>4. PointSet(n, B) \in SUBSET All
  BY DEF PointSet
<1>5. IsFiniteSet(PointSet(n, B)) /\ Cardinality(PointSet(n, B)) <= Cardinality(All)
  BY <1>3, <1>4, FS_Subset
<1>6. Cardinality(PointSet(n, B)) \in Nat
  BY <1>5, FS_CardinalityType
<1>7. MaxPoints * Cardinality(Block) = Cardinality(Block) * MaxPoints
  BY <1>2, WidthHoldsAll
<1>8. Cardinality(All) < Width
  BY <1>3, <1>7, WidthHoldsAll
<1>9. Cardinality(All) \in Nat
  BY <1>3, FS_CardinalityType
<1> HIDE DEF All
<1> QED BY <1>5, <1>6, <1>8, <1>9, WidthHoldsAll

\* Without one stream, there are so many fewer.
LEMMA PointSetRemove ==
  ASSUME NEW n \in PointCounts, NEW B \in SUBSET Block, NEW b \in B
  PROVE  Cardinality(PointSet(n, B)) = Cardinality(PointSet(n, B \ {b})) + n[b]
<1> DEFINE S == PointSet(n, B \ {b})
           T == PointSet(n, {b})
<1>1. IsFiniteSet(S) /\ Cardinality(S) \in Nat
  BY PointSetBound
<1>2. IsFiniteSet(T) /\ Cardinality(T) = n[b] /\ n[b] \in Nat
  BY OneStreamPoints, WidthHoldsAll DEF PointCounts
<1>3. PointSet(n, B) = S \cup T
  BY DEF PointSet
<1>4. S \cap T = {}
  BY DEF PointSet
<1>5. Cardinality(S \cap T) = 0
  BY <1>4, FS_EmptySet
<1>6. Cardinality(S \cup T) = Cardinality(S) + Cardinality(T) - Cardinality(S \cap T)
  BY <1>1, <1>2, FS_Union
<1> HIDE DEF S, T
<1>7. Cardinality(S \cup T) = Cardinality(S) + n[b]
  BY <1>1, <1>2, <1>5, <1>6
<1> QED BY <1>3, <1>7 DEF S

\* Only the numbers of points count.
LEMMA PointSetSame ==
  ASSUME NEW n, NEW k, NEW B, \A b \in B : n[b] = k[b]
  PROVE  PointSet(n, B) = PointSet(k, B)
BY DEF PointSet

\* A stream gets other points.
LEMMA PointSetChange ==
  ASSUME NEW n \in PointCounts, NEW k \in PointCounts, NEW B \in SUBSET Block, NEW b \in B,
         \A c \in B \ {b} : k[c] = n[c]
  PROVE  Cardinality(PointSet(k, B)) = (Cardinality(PointSet(n, B)) - n[b]) + k[b]
<1>1. PointSet(k, B \ {b}) = PointSet(n, B \ {b})
  BY PointSetSame
<1>2. Cardinality(PointSet(k, B)) = Cardinality(PointSet(n, B \ {b})) + k[b]
  BY <1>1, PointSetRemove
<1>3. Cardinality(PointSet(n, B)) = Cardinality(PointSet(n, B \ {b})) + n[b]
  BY PointSetRemove
<1>4. n[b] \in Nat /\ k[b] \in Nat /\ Cardinality(PointSet(n, B \ {b})) \in Nat
  BY PointSetBound, WidthHoldsAll DEF PointCounts
<1> QED BY <1>2, <1>3, <1>4

\* Streams without points count for nothing.
LEMMA PointSetNone ==
  ASSUME NEW n, NEW B, \A b \in B : n[b] = 0
  PROVE  Cardinality(PointSet(n, B)) = 0
<1>1. PointSet(n, B) = {}
  BY WidthHoldsAll DEF PointSet
<1> QED BY <1>1, FS_EmptySet

\* What the count is compared with.
LEMMA PointsOfIsCount ==
  ASSUME TypeOK
  PROVE  /\ Points \in PointCounts /\ \A b \in Block : Points[b] = mem[b].points
         /\ List \in SUBSET Block
         /\ PointsOf(List) = Cardinality(PointSet(Points, List))
         /\ PointsOf(List) \in Nat /\ PointsOf(List) < Width
<1>1. Points \in PointCounts /\ \A b \in Block : Points[b] = mem[b].points
  BY BlockType DEF Points, PointCounts
<1>2. List \in SUBSET Block
  BY DEF List, Reach
<1>3. \A p \in List \X (1..MaxPoints) : Points[p[1]] = mem[p[1]].points
  BY <1>1, <1>2
<1>4. PointsOf(List) = Cardinality(PointSet(Points, List))
  BY <1>3 DEF PointsOf, PointSet
<1> QED BY <1>1, <1>2, <1>4, PointSetBound

----------------------------------------------------------------------------
(* What a step that leaves the list as it is keeps. *)

ListKept ==
  /\ List' = List /\ Nexts' = Nexts
  /\ coll'.head = coll.head /\ coll'.there = coll.there
  /\ \A b \in Block : Live(b)' <=> Live(b)

PointsKept == \A b \in Block : mem'[b].points = mem[b].points

\* The pointers of the streams are pointers.
LEMMA NextsType ==
  ASSUME TypeOK
  PROVE  /\ Nexts \in Pointers /\ coll.head \in Block \cup {Null}
         /\ \A b \in Block : Nexts[b] = mem[b].next
         /\ List = Reach(Nexts, coll.head) /\ List \subseteq Block
<1>1. \A b \in Block : mem[b].next \in Block \cup {Null}
  BY BlockType
<1> QED BY <1>1, CollType, ReachBlocks DEF Nexts, Pointers, List

\* The list is what the pointers say.
LEMMA SameNexts ==
  ASSUME TypeOK, TypeOK', coll'.head = coll.head, \A b \in Block : mem'[b].next = mem[b].next
  PROVE  List' = List /\ Nexts' = Nexts
<1>1. Nexts' = Nexts
  BY DEF Nexts
<1> QED BY <1>1 DEF List, Nexts

\* Nothing changed, nothing changed.
LEMMA SameMemory ==
  ASSUME TypeOK, TypeOK', mem' = mem, coll'.head = coll.head, coll'.there = coll.there
  PROVE  ListKept /\ PointsKept
<1>1. List' = List /\ Nexts' = Nexts
  BY SameNexts
<1>2. \A b \in Block : Live(b)' <=> Live(b)
  BY DEF Live
<1> QED BY <1>1, <1>2 DEF ListKept, PointsKept

\* The list stays one, and no stream is lost.
LEMMA KeptChain ==
  ASSUME ListIsChain, NoneLost, ListKept, cause \subseteq cause',
         "clear" \in cause' => "clear" \in cause /\ lock' = Null /\ ccfsm'.ph = "off",
         ~coll.there => coll'.count = coll.count
  PROVE  ListIsChain' /\ NoneLost'
<1>1. NoneLost'
  BY DEF NoneLost, ListKept
<1>2. \A b \in List' : Nexts'[b] # Null => Nexts'[b] # coll'.head
  BY DEF ListIsChain, ListKept
<1>3. \A b, c \in List' : Nexts'[b] = Nexts'[c] /\ Nexts'[b] # Null => b = c
  BY DEF ListIsChain, ListKept
<1>4. "clear" \notin cause' => \A b \in List' : Live(b)'
  <2>1. List \subseteq Block
    BY DEF List, Reach
  <2> QED BY <2>1 DEF ListIsChain, ListKept
<1>5. "clear" \in cause' => /\ coll'.head \in Block /\ ~Live(coll.head)'
                            /\ lock' = Null /\ ccfsm'.ph = "off"
  BY DEF ListIsChain, ListKept
<1>6. ~coll'.there => coll'.head = Null /\ coll'.count = 0
  BY DEF ListIsChain, ListKept
<1> QED BY <1>1, <1>2, <1>3, <1>4, <1>5, <1>6 DEF ListIsChain, Live

\* The same for what is there after a step.
LEMMA PrimedPointsOf ==
  PointsOf(List)' = Cardinality(PointSet(Points', List'))
<1>1. List' \subseteq Block
  BY DEF List, Reach
<1>2. \A p \in List' \X (1..MaxPoints) : Points'[p[1]] = mem'[p[1]].points
  BY <1>1 DEF Points
<1> QED BY <1>2 DEF PointsOf, PointSet

\* And its type.
LEMMA PointsAfter ==
  ASSUME TypeOK'
  PROVE  Points' \in PointCounts
<1>1. \A b \in Block : mem'[b] \in Stream \/ mem'[b] = Freed
  BY DEF TypeOK, ListOK
<1>2. Freed.points \in 0..MaxPoints
  BY WidthHoldsAll DEF Freed
<1>3. \A b \in Block : mem'[b].points \in 0..MaxPoints
  BY <1>1, <1>2 DEF Stream
<1> QED BY <1>3 DEF Points, PointCounts

\* So are the pointers after a step.
LEMMA NextsAfter ==
  ASSUME TypeOK'
  PROVE  Nexts' \in Pointers
<1>1. \A b \in Block : mem'[b] \in Stream \/ mem'[b] = Freed
  BY DEF TypeOK, ListOK
<1>2. \A b \in Block : mem'[b].next \in Block \cup {Null}
  BY <1>1 DEF Stream, Freed
<1> QED BY <1>2 DEF Nexts, Pointers

\* As many points, as high a count.
LEMMA KeptCount ==
  ASSUME TypeOK, TypeOK', CountOK, ListKept, PointsKept, coll'.count = coll.count,
         cause \subseteq cause', "unlocked" \in cause' \/ \A t \in Thread : pc'[t] = "count" <=> pc[t] = "count"
  PROVE  CountOK'
<1>1. Points' = Points
  BY DEF Points, PointsKept
<1>2. PointsOf(List)' = PointsOf(List)
  <2>1. PointsOf(List)' = Cardinality(PointSet(Points', List'))
    BY PrimedPointsOf
  <2> QED BY <2>1, <1>1, PointsOfIsCount DEF ListKept
<1>3. ASSUME "unlocked" \notin cause'
      PROVE  (\E t \in Thread : Counting(t)') <=> (\E t \in Thread : Counting(t))
  BY <1>3 DEF Counting
<1> QED BY <1>2, <1>3 DEF CountOK

\* The chain of CCFSM stays.
LEMMA KeptCcfsmChain ==
  ASSUME ChainOK, ListKept, cause \subseteq cause',
         \A b \in List : mem'[b].next = mem[b].next /\ mem'[b].cnext = mem[b].cnext,
         lock' # Null => lock # Null
  PROVE  ChainOK' /\ (LooseEnd' <=> LooseEnd)
<1>1. LooseEnd' <=> LooseEnd
  BY DEF LooseEnd, ListKept
<1> QED BY <1>1 DEF ChainOK, ListKept

\* And what it read of it.
LEMMA KeptReading ==
  ASSUME PlaceOK, ReadingOK, ListKept, UNCHANGED <<mem, ccfsm, snap>>, cause \subseteq cause',
         InfoThere' => InfoThere,
         InfoThere' /\ tx'.status = "complete" => tx.status = "complete"
  PROVE  PlaceOK' /\ ReadingOK'
<1>1. LooseEnd' <=> LooseEnd
  BY DEF LooseEnd, ListKept
<1>2. PlaceOK'
  BY <1>1 DEF PlaceOK, ListKept
<1> SUFFICES ASSUME "unlocked" \notin cause', ~LooseEnd' PROVE ReadingOK'
  BY <1>2 DEF ReadingOK
<1>3. "unlocked" \notin cause /\ ~LooseEnd
  BY <1>1
<1>4. InfoThere' => snap' = [b \in Block |-> IF b \in List' THEN mem'[b].points ELSE 0]
  BY <1>3 DEF ReadingOK, ListKept
<1>5. ccfsm'.ph = "reading" =>
         \A b \in Block : b \in Reach(Nexts', ccfsm'.at) \/ ccfsm'.read[b] = snap'[b]
  BY <1>3 DEF ReadingOK, ListKept
<1>6. ccfsm'.ph = "sent" => ccfsm'.read = snap'
  BY <1>3 DEF ReadingOK
<1>7. InfoThere' /\ tx'.status = "complete" => ccfsm'.read = snap'
  BY <1>3 DEF ReadingOK
<1> QED BY <1>2, <1>4, <1>5, <1>6, <1>7 DEF ReadingOK

\* Where nobody waits there is nothing to read.
LEMMA NothingRead ==
  ASSUME ccfsm'.ph = "off", \A t \in Thread : pc'[t] # "wait"
  PROVE  PlaceOK' /\ ReadingOK'
BY DEF PlaceOK, ReadingOK, InfoThere

\* Who walks without the lock is where they were.
LEMMA KeptOlder ==
  ASSUME OlderOK, ListKept, coll'.count = coll.count, UNCHANGED at, cause \subseteq cause',
         "clear" \in cause' => "clear" \in cause,
         \A t \in Thread : pc'[t] = pc[t] \/ {pc[t], pc'[t]} \cap {"older", "count"} = {}
  PROVE  OlderOK'
<1>1. \A t \in Thread : (Walking(t)' <=> Walking(t)) /\ (Counting(t)' <=> Counting(t))
  BY DEF Walking, Counting
<1> QED BY <1>1 DEF OlderOK, ListKept

\* A call that has the lock blames who walks without: else there is nobody.
LEMMA NobodyWalks ==
  ASSUME TypeOK, NEW t \in Thread, NEW new, Blame(t, new), pc[t] \notin {"older", "count"},
         \A u \in Thread \ {t} : pc'[u] = pc[u], pc'[t] \notin {"older", "count"}
  PROVE  /\ cause \subseteq cause' /\ new \subseteq cause'
         /\ cause' \subseteq cause \cup new \cup {"unlocked"}
         /\ "unlocked" \notin cause' => /\ \A u \in Thread : ~Walking(u) /\ ~Counting(u)
                                        /\ \A u \in Thread : ~Walking(u)' /\ ~Counting(u)'
         /\ OlderOK'
<1>1. /\ cause \subseteq cause' /\ new \subseteq cause'
      /\ cause' \subseteq cause \cup new \cup {"unlocked"}
  BY DEF Blame
<1>2. ASSUME "unlocked" \notin cause'
      PROVE  \A u \in Thread : pc[u] \notin {"older", "count"} /\ pc'[u] \notin {"older", "count"}
  <2>1. ~Unlocked(t)
    BY <1>2 DEF Blame
  <2> QED BY <2>1 DEF Unlocked
<1>3. "unlocked" \notin cause' => /\ \A u \in Thread : ~Walking(u) /\ ~Counting(u)
                                  /\ \A u \in Thread : ~Walking(u)' /\ ~Counting(u)'
  BY <1>2 DEF Walking, Counting
<1> QED BY <1>1, <1>3 DEF OlderOK

----------------------------------------------------------------------------
(* The calls that have the lock. *)

UnderLock(t) ==
  \/ \E id \in Id : AddStream(t, id) \/ RemoveStream(t, id) \/ AddPoint(t, id)
  \/ Clear(t) \/ Destroy(t)

\* There is no send, and CCFSM does nothing.
LEMMA LockIsFree ==
  ASSUME TypeOK, Handshake, NEW t \in Thread, UnderLock(t)
  PROVE  /\ UNCHANGED <<lock, pc, at, tx, ccfsm, stale, snap>>
         /\ lock = Null /\ ccfsm.ph = "off" /\ wrong = "no" /\ coll.there /\ pc[t] = "idle"
         /\ \A u \in Thread : pc[u] \notin {"initiate", "wait"}
<1>1. UNCHANGED <<lock, pc, at, tx, ccfsm, stale, snap>>
  BY DEF UnderLock, AddStream, RemoveStream, AddPoint, Clear, Destroy, Locked
<1>2. /\ lock = Null /\ wrong = "no" /\ coll.there /\ pc[t] = "idle"
  BY DEF UnderLock, AddStream, RemoveStream, AddPoint, Clear, Destroy, Locked, Idle
<1>3. \A u \in Thread : pc[u] \notin {"initiate", "wait"}
  BY <1>2, NullIsNone DEF Handshake
<1>4. ccfsm.ph = "off"
  BY <1>2, <1>3 DEF Handshake, InfoThere
<1> QED BY <1>1, <1>2, <1>3, <1>4

\* What was read and said does not matter then.
LEMMA LockedReading ==
  ASSUME TypeOK, Handshake, StatusOK, NEW t \in Thread, UnderLock(t)
  PROVE  PlaceOK' /\ ReadingOK' /\ StatusOK'
<1>1. ccfsm' = ccfsm /\ ccfsm'.ph = "off" /\ (\A u \in Thread : pc'[u] # "wait") /\ tx' = tx
  BY LockIsFree
<1> QED BY <1>1, NothingRead DEF StatusOK

\* A walk meets what a clear freed.
LEMMA LockedDangles ==
  ASSUME TypeOK, TypeOK', Handshake, Inv, NEW t \in Thread, UnderLock(t), Dangles
  PROVE  Inv'
<1>1. /\ UNCHANGED <<lock, pc, at, tx, ccfsm, stale, snap>>
      /\ UNCHANGED <<mem, coll, cause>> /\ wrong' = "stream"
  BY DEF UnderLock, AddStream, RemoveStream, AddPoint, Clear, Destroy, Locked
<1>2. "clear" \in cause
  BY DEF Dangles, Inv, ListIsChain
<1>3. ListKept /\ PointsKept
  BY <1>1, SameMemory
<1>4. ListIsChain' /\ NoneLost'
  BY <1>1, <1>3, KeptChain DEF Inv, ListIsChain
<1>5. CountOK' /\ OlderOK'
  BY <1>1, <1>3, KeptCount, KeptOlder DEF Inv
<1>6. ChainOK' /\ PlaceOK' /\ ReadingOK' /\ StatusOK'
  BY <1>1, <1>3, KeptCcfsmChain, LockedReading DEF Inv
<1>7. SendSaw'
  BY <1>1 DEF Inv, SendSaw
<1>8. WrongOK'
  BY <1>1, <1>2 DEF WrongOK
<1> QED BY <1>4, <1>5, <1>6, <1>7, <1>8 DEF Inv

\* No walk meets a freed stream: there was no clear.
LEMMA NothingDangles ==
  ASSUME TypeOK, ListIsChain, ~Dangles
  PROVE  "clear" \notin cause /\ \A b \in List : Live(b)
<1>1. coll.head \in Block => coll.head \in List
  BY ReachRoot DEF List
<1> QED BY <1>1 DEF Dangles, ListIsChain

\* A stream is added.
LEMMA AddStreamKeeps ==
  ASSUME TypeOK, TypeOK', Handshake, Inv, NEW t \in Thread, NEW id \in Id, AddStream(t, id), ~Dangles
  PROVE  Inv'
<1>1. UnderLock(t)
  BY DEF UnderLock
<1>2. PICK b \in Block :
        /\ ~Live(b)
        /\ mem' = [mem EXCEPT ![b] = [id |-> id, next |-> coll.head, cnext |-> Null, points |-> 0]]
        /\ coll' = [coll EXCEPT !.head = b]
  BY DEF AddStream, Locked
<1>3. Blame(t, {}) /\ wrong' = wrong
  BY DEF AddStream, Locked
<1>4. /\ UNCHANGED <<lock, pc, at, tx, ccfsm, stale, snap>> /\ pc[t] = "idle"
      /\ lock = Null /\ ccfsm.ph = "off" /\ wrong = "no" /\ coll.there
  BY <1>1, LockIsFree
<1>5. /\ cause \subseteq cause' /\ cause' \subseteq cause \cup {"unlocked"} /\ OlderOK'
      /\ "unlocked" \notin cause' => /\ \A u \in Thread : ~Walking(u) /\ ~Counting(u)
                                     /\ \A u \in Thread : ~Walking(u)' /\ ~Counting(u)'
  BY <1>3, <1>4, NobodyWalks
<1>6. "clear" \notin cause /\ \A c \in List : Live(c)
  BY NothingDangles DEF Inv
<1>7. /\ mem'[b].id = id /\ mem'[b].next = coll.head /\ mem'[b].cnext = Null /\ mem'[b].points = 0
      /\ \A c \in Block \ {b} : mem'[c] = mem[c]
      /\ coll'.head = b /\ coll'.there = coll.there /\ coll'.count = coll.count
  BY <1>2 DEF TypeOK, ListOK
<1>8. b \notin List
  BY <1>2, <1>6
<1>9. /\ List' = {b} \cup List /\ Nexts'[b] = coll.head /\ \A c \in Block \ {b} : Nexts'[c] = Nexts[c]
  <2>1. Nexts' \in Pointers /\ Nexts'[b] = coll.head /\ \A c \in Block : c # b => Nexts'[c] = Nexts[c]
    <3>1. Nexts' = [c \in Block |-> mem'[c].next] /\ Nexts = [c \in Block |-> mem[c].next]
      BY DEF Nexts
    <3> QED BY <1>7, <3>1, NextsType DEF Pointers
  <2>2. Reach(Nexts', b) = {b} \cup Reach(Nexts, coll.head)
    BY <1>8, <2>1, NextsType, ReachAdd
  <2>3. List' = Reach(Nexts', coll'.head)
    BY DEF List, Nexts
  <2> QED BY <1>7, <2>1, <2>2, <2>3, NextsType DEF Pointers
<1>10. /\ List \subseteq Block /\ ClosedUnder(Nexts, List) /\ coll.head \in List \cup {Null}
  BY NextsType, ReachClosed
<1>11. \A c \in Block : Live(c)' <=> c = b \/ Live(c)
  <2>1. mem'[b] # Freed
    BY <1>7, NullIsNone DEF Freed
  <2> QED BY <1>7, <2>1 DEF Live
<1>12. ListIsChain'
  <2>1. \A c \in List' : Nexts'[c] # Null => Nexts'[c] # coll'.head
    BY <1>7, <1>8, <1>9, <1>10, NullIsNone DEF ClosedUnder
  <2>2. \A c, d \in List' : Nexts'[c] = Nexts'[d] /\ Nexts'[c] # Null => c = d
    BY <1>8, <1>9, <1>10 DEF Inv, ListIsChain
  <2>3. \A c \in List' : Live(c)'
    BY <1>6, <1>9, <1>10, <1>11
  <2>4. "clear" \notin cause' /\ coll'.there
    BY <1>4, <1>5, <1>6, <1>7
  <2> QED BY <2>1, <2>2, <2>3, <2>4 DEF ListIsChain
<1>13. NoneLost'
  BY <1>5, <1>9, <1>11 DEF Inv, NoneLost
<1>14. CountOK'
  <2> SUFFICES ASSUME cause' \cap {"head", "clear", "unlocked"} = {} PROVE CountOK'
    BY DEF CountOK
  <2>1. coll.count = PointsOf(List)
    BY <1>5, PointsOfIsCount DEF Inv, CountOK
  <2>2. PointsOf(List)' = PointsOf(List)
    <3>1. PointSet(Points', List') = PointSet(Points, List)
      <4>1. Points'[b] = 0 /\ \A c \in List : Points'[c] = Points[c]
        BY <1>7, <1>8, <1>10 DEF Points
      <4> QED BY <1>9, <4>1, WidthHoldsAll DEF PointSet
    <3> QED BY <3>1, PointsOfIsCount, PrimedPointsOf
  <2> QED BY <1>5, <1>7, <2>1, <2>2, PointsOfIsCount DEF CountOK
<1>15. SendSaw' /\ StatusOK' /\ PlaceOK' /\ ReadingOK'
  BY <1>1, <1>7, LockedReading, NullIsNone DEF Inv, SendSaw
<1>16. ChainOK'
  BY <1>4, <1>5, <1>7, <1>8, <1>9, <1>10 DEF Inv, ChainOK, LooseEnd
<1>17. WrongOK'
  BY <1>3, <1>4 DEF WrongOK
<1> QED BY <1>5, <1>12, <1>13, <1>14, <1>15, <1>16, <1>17 DEF Inv

\* What taking a stream out does to the others.
LEMMA UnlinkIs ==
  ASSUME TypeOK, NEW b \in List, mem' = Unlink(b), \A c \in List : Live(c)
  PROVE  /\ \A c \in Block : /\ Live(c)' <=> Live(c) /\ c # b
                             /\ c # b => mem'[c].points = mem[c].points /\ mem'[c].cnext = mem[c].cnext
                             /\ c # b /\ ~(c \in List /\ mem[c].next = b) => mem'[c].next = mem[c].next
                             /\ c # b /\ c \in List /\ mem[c].next = b => mem'[c].next = mem[b].next
         /\ mem'[b] = Freed /\ mem'[b].next = Null
<1>1. b \in Block /\ List \subseteq Block
  BY NextsType
<1>2. mem'[b] = Freed /\ mem'[b].next = Null
  BY <1>1 DEF Unlink, Freed
<1>3. ASSUME NEW c \in Block, c # b, ~(c \in List /\ mem[c].next = b)
      PROVE  mem'[c] = mem[c]
  BY <1>3 DEF Unlink
<1>4. ASSUME NEW c \in Block, c # b, c \in List, mem[c].next = b
      PROVE  /\ mem'[c] # Freed /\ mem'[c].next = mem[b].next
             /\ mem'[c].points = mem[c].points /\ mem'[c].cnext = mem[c].cnext
  <2>1. mem'[c] = [mem[c] EXCEPT !.next = mem[b].next]
    BY <1>4 DEF Unlink
  <2>2. mem[c] \in Stream /\ mem[c].id \in Id
    BY <1>4, BlockType DEF Stream
  <2>3. PICK r : r = mem[c]
    OBVIOUS
  <2>4. /\ mem'[c].next = mem[b].next /\ mem'[c].points = r.points /\ mem'[c].cnext = r.cnext
        /\ mem'[c].id = r.id
    BY <2>1, <2>2, <2>3 DEF Stream
  <2>5. mem'[c] # Freed
    BY <2>2, <2>3, <2>4, NullIsNone DEF Freed
  <2> QED BY <2>3, <2>4, <2>5
<1> QED BY <1>1, <1>2, <1>3, <1>4 DEF Live

\* The first stream is removed, and with it the list is empty.
LEMMA RemoveFirstKeeps ==
  ASSUME TypeOK, TypeOK', Handshake, Inv, NEW t \in Thread, UnderLock(t), ~Dangles, NEW b \in List,
         mem' = Unlink(b), coll' = Unlinked(b), Blame(t, Breaks(b)), wrong' \in {wrong, "removed"},
         coll.head = b
  PROVE  Inv'
<1>1. /\ UNCHANGED <<lock, pc, at, tx, ccfsm, stale, snap>> /\ pc[t] = "idle"
      /\ lock = Null /\ ccfsm.ph = "off" /\ wrong = "no" /\ coll.there
  BY LockIsFree
<1>2. /\ cause \subseteq cause' /\ Breaks(b) \subseteq cause'
      /\ cause' \subseteq cause \cup Breaks(b) \cup {"unlocked"} /\ OlderOK'
      /\ "unlocked" \notin cause' => /\ \A u \in Thread : ~Walking(u) /\ ~Counting(u)
                                     /\ \A u \in Thread : ~Walking(u)' /\ ~Counting(u)'
  BY <1>1, NobodyWalks
<1>3. "clear" \notin cause /\ \A c \in List : Live(c)
  BY NothingDangles DEF Inv
<1>4. b \in Block /\ List \subseteq Block
  BY NextsType
<1>5. coll'.head = Null /\ coll'.there = coll.there /\ coll'.count = Less(coll.count, mem[b].points)
  <2>1. coll \in [head : Block \cup {Null}, count : 0..Width - 1, there : BOOLEAN]
    BY DEF TypeOK, ListOK
  <2>2. coll' = [coll EXCEPT !.head = Null, !.count = Less(coll.count, mem[b].points)]
    BY DEF Unlinked
  <2> QED BY <2>1, <2>2
<1>6. List' = {}
  BY <1>5, ReachNull DEF List
<1>7. ListIsChain'
  BY <1>1, <1>2, <1>3, <1>5, <1>6 DEF ListIsChain, Breaks
<1>8. "head" \notin cause' => List = {b}
  <2>1. SUFFICES ASSUME "head" \notin cause' PROVE List = {b}
    OBVIOUS
  <2>2. mem[b].next = Null
    BY <1>2, <2>1 DEF Breaks
  <2>3. List = {b} \cup Reach(Nexts, Nexts[b])
    BY <1>4, NextsType, ReachFirst
  <2> QED BY <1>4, <2>2, <2>3, NextsType, ReachNull
<1>9. NoneLost'
  <2> SUFFICES ASSUME "head" \notin cause', NEW c \in Block, Live(c)' PROVE FALSE
    BY DEF NoneLost
  <2>1. Live(c) /\ c # b
    BY <1>3, UnlinkIs
  <2> QED BY <1>2, <1>8, <2>1 DEF Inv, NoneLost
<1>10. CountOK'
  <2> SUFFICES ASSUME cause' \cap {"head", "clear", "unlocked"} = {} PROVE CountOK'
    BY DEF CountOK
  <2>1. coll.count = PointsOf(List)
    BY <1>2, PointsOfIsCount DEF Inv, CountOK
  <2>2. PointsOf(List) = mem[b].points
    BY <1>4, <1>8, PointsOfIsCount, OneStreamPoints
  <2>3. coll'.count = 0
    <3>1. mem[b].points \in Int
      BY <2>2, PointsOfIsCount
    <3>2. mem[b].points + (Width - mem[b].points) = Width
      BY <3>1, WidthHoldsAll
    <3>3. Width % Width = 0
      BY WidthHoldsAll
    <3>4. coll'.count = (coll.count + (Width - mem[b].points)) % Width
      BY <1>5 DEF Less
    <3>5. coll.count = mem[b].points
      BY <2>1, <2>2
    <3> QED BY <3>2, <3>3, <3>4, <3>5
  <2>4. PointsOf(List)' = 0
    BY <1>6, PrimedPointsOf, PointSetNone
  <2> QED BY <1>2, <2>3, <2>4 DEF CountOK
<1>11. SendSaw'
  BY <1>1, <1>2 DEF SendSaw, Breaks
<1>12. ChainOK'
  BY <1>6 DEF ChainOK, LooseEnd
<1>13. PlaceOK' /\ ReadingOK' /\ StatusOK'
  BY LockedReading DEF Inv
<1>14. WrongOK'
  BY <1>1 DEF WrongOK
<1> QED BY <1>2, <1>7, <1>9, <1>10, <1>11, <1>12, <1>13, <1>14 DEF Inv

\* Another is: the one before it points to the one behind.
LEMMA RemoveOtherKeeps ==
  ASSUME TypeOK, TypeOK', Handshake, Inv, NEW t \in Thread, UnderLock(t), ~Dangles, NEW b \in List,
         mem' = Unlink(b), coll' = Unlinked(b), Blame(t, Breaks(b)), wrong' \in {wrong, "removed"},
         coll.head # b
  PROVE  Inv'
<1>1. /\ UNCHANGED <<lock, pc, at, tx, ccfsm, stale, snap>> /\ pc[t] = "idle"
      /\ lock = Null /\ ccfsm.ph = "off" /\ wrong = "no" /\ coll.there
  BY LockIsFree
<1>2. /\ cause \subseteq cause' /\ Breaks(b) \subseteq cause'
      /\ cause' \subseteq cause \cup Breaks(b) \cup {"unlocked"} /\ OlderOK'
      /\ "unlocked" \notin cause' => /\ \A u \in Thread : ~Walking(u) /\ ~Counting(u)
                                     /\ \A u \in Thread : ~Walking(u)' /\ ~Counting(u)'
  BY <1>1, NobodyWalks
<1>3. "clear" \notin cause /\ \A c \in List : Live(c)
  BY NothingDangles DEF Inv
<1>4. b \in Block /\ List \subseteq Block /\ b # Null
  BY NextsType, NullIsNone
<1>5. coll'.head = coll.head /\ coll'.there = coll.there /\ coll'.count = Less(coll.count, mem[b].points)
  <2>1. coll \in [head : Block \cup {Null}, count : 0..Width - 1, there : BOOLEAN]
    BY DEF TypeOK, ListOK
  <2>2. coll' = [coll EXCEPT !.head = coll.head, !.count = Less(coll.count, mem[b].points)]
    BY DEF Unlinked
  <2> QED BY <2>1, <2>2
<1>6. ClosedUnder(Nexts, List) /\ coll.head \in List \cup {Null}
  BY NextsType, ReachClosed
<1>7. PICK p \in List : Nexts[p] = b
  <2>1. SUFFICES ASSUME \A c \in List : Nexts[c] # b PROVE FALSE
    OBVIOUS
  <2>2. ClosedUnder(Nexts, List \ {b}) /\ coll.head \in (List \ {b}) \cup {Null}
    BY <1>6, <2>1 DEF ClosedUnder
  <2>3. List \ {b} \in SUBSET Block
    BY <1>4
  <2>4. List \subseteq List \ {b}
    BY <2>2, <2>3, NextsType, ReachLeast
  <2> QED BY <2>4
<1>8. \A c \in List : Nexts[c] = b => c = p
  BY <1>4, <1>7 DEF Inv, ListIsChain
<1>9. p # b
  <2>1. p \in Reach(Nexts, coll.head) /\ \A c \in Reach(Nexts, coll.head) : Nexts[c] = b => c = p
    BY <1>7, <1>8, NextsType
  <2> QED BY <1>4, <1>7, <2>1, NextsType, ReachNoLoop
<1>10. /\ Nexts' \in Pointers
       /\ \A c \in Block : Nexts'[c] = IF c = p THEN Nexts[b] ELSE IF c = b THEN Null ELSE Nexts[c]
  <2>1. ASSUME NEW c \in Block
        PROVE  mem'[c].next = IF c = p THEN Nexts[b] ELSE IF c = b THEN Null ELSE Nexts[c]
    <3>1. CASE c = b
      BY <1>3, <1>9, <3>1, UnlinkIs
    <3>2. CASE c = p
      BY <1>3, <1>4, <1>7, <1>9, <3>2, UnlinkIs, NextsType
    <3>3. CASE c # b /\ c # p
      BY <1>3, <1>8, <3>3, UnlinkIs, NextsType
    <3> QED BY <3>1, <3>2, <3>3
  <2>2. \A c \in Block : Nexts[c] \in Block \cup {Null}
    BY NextsType DEF Pointers
  <2>3. Nexts' = [c \in Block |-> mem'[c].next]
    BY DEF Nexts
  <2>4. \A c \in Block : mem'[c].next \in Block \cup {Null}
    BY <1>4, <2>1, <2>2
  <2> QED BY <2>1, <2>3, <2>4 DEF Pointers
<1>11. List' = List \ {b}
  <2>1. p \in Reach(Nexts, coll.head) /\ \A c \in Reach(Nexts, coll.head) : Nexts[c] = b => c = p
    BY <1>7, <1>8, NextsType
  <2>2. Reach(Nexts', coll.head) = Reach(Nexts, coll.head) \ {b}
    BY <1>4, <1>7, <1>10, <2>1, NextsType, ReachRemove
  <2>3. List' = Reach(Nexts', coll'.head)
    BY DEF List, Nexts
  <2> QED BY <1>5, <2>2, <2>3, NextsType
<1>12. ListIsChain'
  <2>1. \A c \in List' : Nexts'[c] # Null => Nexts'[c] # coll'.head
    BY <1>4, <1>5, <1>10, <1>11 DEF Inv, ListIsChain
  <2>2. \A c, d \in List' : Nexts'[c] = Nexts'[d] /\ Nexts'[c] # Null => c = d
    BY <1>4, <1>10, <1>11 DEF Inv, ListIsChain
  <2>3. \A c \in List' : Live(c)'
    BY <1>3, <1>4, <1>11, UnlinkIs
  <2>4. "clear" \notin cause' /\ coll'.there
    BY <1>1, <1>2, <1>3, <1>5 DEF Breaks
  <2> QED BY <2>1, <2>2, <2>3, <2>4 DEF ListIsChain
<1>13. NoneLost'
  <2> SUFFICES ASSUME "head" \notin cause', NEW c \in Block, Live(c)' PROVE c \in List'
    BY DEF NoneLost
  <2>1. Live(c) /\ c # b
    BY <1>3, UnlinkIs
  <2> QED BY <1>2, <1>11, <2>1 DEF Inv, NoneLost
<1>14. CountOK'
  <2> SUFFICES ASSUME cause' \cap {"head", "clear", "unlocked"} = {} PROVE CountOK'
    BY DEF CountOK
  <2>1. coll.count = PointsOf(List)
    BY <1>2, PointsOfIsCount DEF Inv, CountOK
  <2>2. PointsOf(List)' = Cardinality(PointSet(Points, List \ {b}))
    <3>1. \A c \in List \ {b} : Points'[c] = Points[c]
      BY <1>3, <1>4, UnlinkIs DEF Points
    <3>2. PointSet(Points', List \ {b}) = PointSet(Points, List \ {b})
      BY <3>1, PointSetSame
    <3> QED BY <1>11, <3>2, PrimedPointsOf
  <2>3. PointsOf(List) = Cardinality(PointSet(Points, List \ {b})) + mem[b].points
    BY <1>4, PointsOfIsCount, PointSetRemove
  <2> DEFINE k == Cardinality(PointSet(Points, List \ {b}))
             n == mem[b].points
  <2>4. k \in Nat /\ k < Width
    <3>1. List \ {b} \in SUBSET Block
      BY <1>4
    <3> QED BY <3>1, PointsOfIsCount, PointSetBound
  <2>5. n \in Nat
    BY <1>4, BlockType, WidthHoldsAll
  <2>6. coll'.count = k
    <3>1. coll'.count = ((k + n) + (Width - n)) % Width
      <4>1. coll'.count = (coll.count + (Width - n)) % Width
        BY <1>5 DEF Less
      <4>2. coll.count = k + n
        BY <2>1, <2>3
      <4> QED BY <4>1, <4>2
    <3> HIDE DEF k, n
    <3>2. (k + n) + (Width - n) = k + Width
      BY <2>4, <2>5, WidthHoldsAll
    <3>3. (k + Width) % Width = k
      BY <2>4, WidthHoldsAll
    <3> QED BY <3>1, <3>2, <3>3
  <2> QED BY <1>2, <2>2, <2>4, <2>6 DEF CountOK
<1>15. SendSaw'
  BY <1>1, <1>2, <1>5 DEF Inv, SendSaw
<1>16. ChainOK'
  <2> SUFFICES ASSUME "tail" \notin cause', NEW c \in List', mem'[c].next = Null
               PROVE  mem'[c].cnext = Null
    BY <1>1 DEF ChainOK, LooseEnd
  <2>1. c \in List /\ c \in Block /\ c # b /\ mem'[c].cnext = mem[c].cnext
    BY <1>3, <1>4, <1>11, UnlinkIs
  <2>2. CASE mem[c].next = b
    <3>1. mem[b].next = Null
      BY <1>3, <2>1, <2>2, UnlinkIs
    <3> QED BY <1>2, <2>1, <2>2, <3>1 DEF Breaks
  <2>3. CASE mem[c].next # b
    <3>1. mem[c].next = Null
      BY <1>3, <2>1, <2>3, UnlinkIs
    <3> QED BY <1>2, <2>1, <3>1 DEF Inv, ChainOK, LooseEnd
  <2> QED BY <2>2, <2>3
<1>17. PlaceOK' /\ ReadingOK' /\ StatusOK'
  BY LockedReading DEF Inv
<1>18. WrongOK'
  BY <1>1 DEF WrongOK
<1> QED BY <1>2, <1>12, <1>13, <1>14, <1>15, <1>16, <1>17, <1>18 DEF Inv

\* A point is added.
LEMMA AddPointKeeps ==
  ASSUME TypeOK, TypeOK', Handshake, Inv, NEW t \in Thread, NEW id \in Id, AddPoint(t, id), ~Dangles
  PROVE  Inv'
<1>1. UnderLock(t)
  BY DEF UnderLock
<1>2. PICK b \in Find(id) : /\ mem[b].points < MaxPoints
                            /\ mem' = [mem EXCEPT ![b].points = @ + 1]
                            /\ coll' = [coll EXCEPT !.count = (@ + 1) % Width]
                            /\ Blame(t, {}) /\ wrong' = wrong
  BY DEF AddPoint, Locked
<1>3. /\ UNCHANGED <<lock, pc, at, tx, ccfsm, stale, snap>> /\ pc[t] = "idle"
      /\ lock = Null /\ ccfsm.ph = "off" /\ wrong = "no" /\ coll.there
  BY <1>1, LockIsFree
<1>4. /\ cause \subseteq cause' /\ cause' \subseteq cause \cup {"unlocked"} /\ OlderOK'
      /\ "unlocked" \notin cause' => /\ \A u \in Thread : ~Walking(u) /\ ~Counting(u)
                                     /\ \A u \in Thread : ~Walking(u)' /\ ~Counting(u)'
  BY <1>2, <1>3, NobodyWalks
<1>5. "clear" \notin cause /\ \A c \in List : Live(c)
  BY NothingDangles DEF Inv
<1>6. b \in Block /\ b \in List /\ List \subseteq Block /\ Live(b) /\ mem[b] \in Stream
  BY <1>2, <1>5, BlockType, NextsType DEF Find
<1>7. /\ mem'[b].next = mem[b].next /\ mem'[b].cnext = mem[b].cnext
      /\ mem'[b].points = mem[b].points + 1 /\ mem'[b].id = mem[b].id
      /\ \A c \in Block \ {b} : mem'[c] = mem[c]
  <2>1. PICK r : r = mem[b]
    OBVIOUS
  <2>2. mem' = [mem EXCEPT ![b] = [r EXCEPT !.points = r.points + 1]]
    BY <1>2, <2>1
  <2>3. mem'[b] = [r EXCEPT !.points = r.points + 1] /\ \A c \in Block \ {b} : mem'[c] = mem[c]
    BY <1>6, <2>2 DEF TypeOK, ListOK
  <2> QED BY <1>6, <2>1, <2>3 DEF Stream
<1>8. coll'.head = coll.head /\ coll'.there = coll.there /\ coll'.count = (coll.count + 1) % Width
  BY <1>2 DEF TypeOK, ListOK
<1>9. \A c \in Block : Live(c)' <=> Live(c)
  <2>1. mem'[b] # Freed
    <3>1. mem[b].id \in Id
      BY <1>6 DEF Stream
    <3> QED BY <1>7, <3>1, NullIsNone DEF Freed
  <2> QED BY <1>6, <1>7, <2>1 DEF Live
<1>10. ListKept
  <2>1. \A c \in Block : mem'[c].next = mem[c].next
    BY <1>7
  <2> QED BY <1>8, <1>9, <2>1, SameNexts DEF ListKept
<1>11. ListIsChain' /\ NoneLost'
  BY <1>3, <1>4, <1>5, <1>10, KeptChain DEF Inv
<1>12. CountOK'
  <2> SUFFICES ASSUME cause' \cap {"head", "clear", "unlocked"} = {} PROVE CountOK'
    BY DEF CountOK
  <2>1. coll.count = PointsOf(List)
    BY <1>4, PointsOfIsCount DEF Inv, CountOK
  <2>2. PointsOf(List)' = PointsOf(List) + 1
    <3>1. Points' \in PointCounts
      BY PointsAfter
    <3>2. Points'[b] = Points[b] + 1 /\ \A c \in List \ {b} : Points'[c] = Points[c]
      BY <1>6, <1>7 DEF Points
    <3>3. Points[b] \in Int
      BY <1>6, BlockType, WidthHoldsAll DEF Points
    <3>4. Cardinality(PointSet(Points', List)) = (Cardinality(PointSet(Points, List)) - Points[b]) + Points'[b]
      BY <1>6, <3>1, <3>2, PointsOfIsCount, PointSetChange
    <3>5. PointsOf(List)' = Cardinality(PointSet(Points', List))
      BY <1>10, PrimedPointsOf DEF ListKept
    <3> DEFINE n == PointsOf(List)
    <3>6. PointsOf(List)' = (n - Points[b]) + (Points[b] + 1) /\ n \in Int
      BY <3>2, <3>4, <3>5, PointsOfIsCount
    <3> HIDE DEF n
    <3>7. (n - Points[b]) + (Points[b] + 1) = n + 1
      BY <3>3, <3>6
    <3> QED BY <3>6, <3>7 DEF n
  <2>3. PointsOf(List)' < Width
    <3>1. Points' \in PointCounts /\ List' \in SUBSET Block
      BY <1>6, <1>10, PointsAfter DEF ListKept
    <3> QED BY <3>1, PrimedPointsOf, PointSetBound
  <2>4. coll'.count = PointsOf(List)'
    <3> DEFINE n == PointsOf(List)
               k == PointsOf(List)'
    <3>1. coll'.count = (n + 1) % Width /\ n \in Nat /\ k = n + 1 /\ k < Width
      BY <1>8, <2>1, <2>2, <2>3, PointsOfIsCount
    <3> HIDE DEF n, k
    <3>2. (n + 1) % Width = n + 1
      BY <3>1, WidthHoldsAll
    <3> QED BY <3>1, <3>2 DEF k
  <2>5. PointsOf(List)' \in Nat
    BY <2>2, PointsOfIsCount
  <2> QED BY <1>4, <2>4, <2>5 DEF CountOK
<1>13. SendSaw'
  BY <1>3, <1>4, <1>8 DEF Inv, SendSaw
<1>14. ChainOK'
  BY <1>3, <1>4, <1>6, <1>7, <1>10, KeptCcfsmChain DEF Inv
<1>15. PlaceOK' /\ ReadingOK' /\ StatusOK'
  BY <1>1, LockedReading DEF Inv
<1>16. WrongOK'
  BY <1>2, <1>3 DEF WrongOK
<1> QED BY <1>4, <1>11, <1>12, <1>13, <1>14, <1>15, <1>16 DEF Inv

\* What freeing the list leaves.
LEMMA FreeListIs ==
  ASSUME TypeOK, mem' = FreeList
  PROVE  /\ \A b \in List : mem'[b] = Freed
         /\ \A b \in Block \ List : mem'[b] = mem[b]
         /\ \A b \in Block : Live(b)' <=> Live(b) /\ b \notin List
<1>1. List \subseteq Block
  BY NextsType
<1>2. /\ \A b \in List : mem'[b] = Freed
      /\ \A b \in Block \ List : mem'[b] = mem[b]
  BY <1>1 DEF FreeList
<1> QED BY <1>1, <1>2 DEF Live

\* The streams are freed, and the collection still points to the first.
LEMMA ClearKeeps ==
  ASSUME TypeOK, TypeOK', Handshake, Inv, NEW t \in Thread, Clear(t), ~Dangles
  PROVE  Inv'
<1>1. UnderLock(t)
  BY DEF UnderLock
<1> DEFINE new == IF List = {} THEN {} ELSE {"clear"}
<1>2. mem' = FreeList /\ coll' = coll /\ wrong' = wrong /\ Blame(t, new)
  BY DEF Clear, Locked
<1>3. /\ UNCHANGED <<lock, pc, at, tx, ccfsm, stale, snap>> /\ pc[t] = "idle"
      /\ lock = Null /\ ccfsm.ph = "off" /\ wrong = "no" /\ coll.there
  BY <1>1, LockIsFree
<1>4. /\ cause \subseteq cause' /\ new \subseteq cause' /\ cause' \subseteq cause \cup new \cup {"unlocked"}
      /\ OlderOK'
      /\ "unlocked" \notin cause' => /\ \A u \in Thread : ~Walking(u) /\ ~Counting(u)
                                     /\ \A u \in Thread : ~Walking(u)' /\ ~Counting(u)'
  BY <1>2, <1>3, NobodyWalks
<1>5. "clear" \notin cause
  BY NothingDangles DEF Inv
<1>6. /\ List = Reach(Nexts, coll.head) /\ coll.head \in Block \cup {Null}
  BY NextsType
<1>7. NoneLost'
  <2>1. "head" \notin cause' => \A c \in Block : ~Live(c)'
    BY <1>2, <1>4, FreeListIs DEF Inv, NoneLost
  <2> QED BY <2>1 DEF NoneLost
<1>8. CASE coll.head = Null
  <2>1. List = {} /\ List' = {}
    <3>1. List' = Reach(Nexts', coll'.head)
      BY DEF List, Nexts
    <3> QED BY <1>2, <1>6, <1>8, <3>1, ReachNull
  <2>2. "clear" \notin cause'
    BY <1>4, <1>5, <2>1
  <2>3. ListIsChain'
    BY <1>2, <1>3, <2>1, <2>2 DEF ListIsChain
  <2>4. CountOK'
    <3> SUFFICES ASSUME cause' \cap {"head", "clear", "unlocked"} = {} PROVE CountOK'
      BY DEF CountOK
    <3>1. coll.count = PointsOf(List) /\ PointsOf(List) = 0
      <4>1. PointsOf(List) = 0
        BY <2>1, PointsOfIsCount, PointSetNone
      <4> QED BY <1>4, <4>1 DEF Inv, CountOK
    <3>2. PointsOf(List)' = 0
      BY <2>1, PrimedPointsOf, PointSetNone
    <3> QED BY <1>2, <1>4, <3>1, <3>2 DEF CountOK
  <2>5. ChainOK'
    BY <1>3, <2>1 DEF ChainOK, LooseEnd
  <2>6. SendSaw' /\ WrongOK'
    BY <1>2, <1>3, <1>4 DEF Inv, SendSaw, WrongOK
  <2> QED BY <1>1, <1>4, <1>7, <2>3, <2>4, <2>5, <2>6, LockedReading DEF Inv
<1>9. CASE coll.head # Null
  <2> DEFINE h == coll.head
  <2>1. h \in Block /\ h \in List /\ "clear" \in cause'
    <3>1. h \in Block /\ h \in List
      BY <1>6, <1>9, ReachRoot
    <3>2. List # {}
      BY <3>1
    <3> QED BY <1>4, <3>1, <3>2
  <2>2. mem'[h] = Freed /\ mem'[h].next = Null /\ mem'[h].cnext = Null /\ ~Live(h)'
    BY <1>2, <2>1, FreeListIs DEF Freed, Live
  <2>3. List' = {h} /\ Nexts'[h] = Null
    <3>1. List' = Reach(Nexts', h) /\ Nexts'[h] = Null
      BY <1>2, <2>1, <2>2 DEF List, Nexts
    <3>2. Nexts' \in Pointers
      BY NextsAfter
    <3>3. Reach(Nexts', h) = {h} \cup Reach(Nexts', Nexts'[h])
      BY <2>1, <3>2, ReachFirst
    <3> QED BY <3>1, <3>3, ReachNull
  <2>4. ListIsChain'
    <3>1. coll'.head = h /\ ~Live(coll.head)'
      BY <1>2, <2>2 DEF Live
    <3> QED BY <1>3, <1>2, <2>1, <2>3, <3>1 DEF ListIsChain
  <2>5. CountOK' /\ ChainOK'
    BY <1>3, <2>1, <2>2, <2>3 DEF CountOK, ChainOK, LooseEnd
  <2>6. SendSaw' /\ WrongOK'
    BY <1>2, <1>3, <1>4 DEF Inv, SendSaw, WrongOK
  <2> QED BY <1>1, <1>4, <1>7, <2>4, <2>5, <2>6, LockedReading DEF Inv
<1> QED BY <1>8, <1>9

\* The collection goes.
LEMMA DestroyKeeps ==
  ASSUME TypeOK, TypeOK', Handshake, Inv, NEW t \in Thread, Destroy(t), ~Dangles
  PROVE  Inv'
<1>1. UnderLock(t)
  BY DEF UnderLock
<1>2. /\ mem' = FreeList /\ coll' = [head |-> Null, count |-> 0, there |-> FALSE]
      /\ cause' = cause \cap {"head"} /\ wrong' = wrong
      /\ \A u \in Thread : pc[u] = "idle"
  BY DEF Destroy, Locked
<1>3. UNCHANGED <<lock, pc, at, tx, ccfsm, stale, snap>> /\ wrong = "no"
  BY <1>1, LockIsFree
<1>4. List' = {}
  <2>1. List' = Reach(Nexts', coll'.head) /\ coll'.head = Null
    BY <1>2 DEF List, Nexts
  <2> QED BY <2>1, ReachNull
<1>5. ListIsChain' /\ ChainOK'
  BY <1>2, <1>3, <1>4, LockIsFree, <1>1 DEF ListIsChain, ChainOK, LooseEnd
<1>6. NoneLost'
  BY <1>2, FreeListIs DEF Inv, NoneLost
<1>7. OlderOK' /\ SendSaw' /\ WrongOK'
  BY <1>2, <1>3 DEF OlderOK, Walking, Counting, SendSaw, WrongOK
<1>8. CountOK'
  <2>1. PointsOf(List)' = 0
    BY <1>4, PrimedPointsOf, PointSetNone
  <2> QED BY <1>2, <1>3, <2>1 DEF CountOK, Counting
<1> QED BY <1>1, <1>5, <1>6, <1>7, <1>8, LockedReading DEF Inv

\* No call that has the lock leaves the invariant.
LEMMA UnderLockKeeps ==
  ASSUME TypeOK, TypeOK', Handshake, Inv, NEW t \in Thread, UnderLock(t)
  PROVE  Inv'
<1>1. CASE Dangles
  BY <1>1, LockedDangles
<1>2. CASE ~Dangles
  <2>1. ASSUME NEW id \in Id, AddStream(t, id) PROVE Inv'
    BY <1>2, <2>1, AddStreamKeeps
  <2>2. ASSUME NEW id \in Id, RemoveStream(t, id) PROVE Inv'
    <3>1. PICK b \in Find(id) : /\ mem' = Unlink(b) /\ coll' = Unlinked(b)
                                /\ Blame(t, Breaks(b)) /\ wrong' \in {wrong, "removed"}
      BY <1>2, <2>2 DEF RemoveStream, Locked
    <3>2. b \in List
      BY DEF Find
    <3> QED BY <1>2, <3>1, <3>2, RemoveFirstKeeps, RemoveOtherKeeps
  <2>3. ASSUME NEW id \in Id, AddPoint(t, id) PROVE Inv'
    BY <1>2, <2>3, AddPointKeeps
  <2>4. CASE Clear(t)
    BY <1>2, <2>4, ClearKeeps
  <2>5. CASE Destroy(t)
    BY <1>2, <2>5, DestroyKeeps
  <2> QED BY <2>1, <2>2, <2>3, <2>4, <2>5 DEF UnderLock
<1> QED BY <1>1, <1>2

----------------------------------------------------------------------------
(* remove_older_data_point, which has no lock. *)

\* What a thread that is none of them changes.
LEMMA PcOfOne ==
  ASSUME TypeOK, NEW t \in Thread, NEW p, pc' = [pc EXCEPT ![t] = p]
  PROVE  pc'[t] = p /\ \A u \in Thread \ {t} : pc'[u] = pc[u]
BY DEF TypeOK, CallsOK

\* The walk goes on to a stream of the list, or is over.
LEMMA WalksOn ==
  ASSUME TypeOK, TypeOK', OlderOK, NEW t \in Thread, pc[t] \in {"older", "count"},
         OlderOn(t, at[t].stream), at[t].stream \in Block, ListKept, UNCHANGED cause,
         coll' = coll \/ pc[t] = "count"
  PROVE  OlderOK'
<1> DEFINE b == at[t].stream
<1> SUFFICES ASSUME "unlocked" \notin cause PROVE OlderOK'
  BY DEF OlderOK
<1>1. pc'[t] \in {"idle", "older"} /\ \A u \in Thread \ {t} : pc'[u] = pc[u]
  BY PcOfOne DEF OlderOn
<1>2. /\ at'[t].stream = mem[b].next /\ \A u \in Thread \ {t} : at'[u] = at[u]
      /\ pc'[t] = "older" => mem[b].next # Null
  BY DEF OlderOn, TypeOK, CallsOK
<1>3. b \in List
  BY DEF OlderOK, Walking
<1>4. mem[b].next # Null => mem[b].next \in List
  <2>1. Nexts[b] # Null => Nexts[b] \in Reach(Nexts, coll.head)
    BY <1>3, NextsType, ReachStep
  <2> QED BY <2>1, NextsType
<1>5. \A u \in Thread : Walking(u)' => at'[u].stream \in List'
  BY <1>1, <1>2, <1>4 DEF OlderOK, Walking, ListKept
<1>6. \A u \in Thread : Counting(u)' => Counting(u) /\ u # t
  BY <1>1 DEF Counting
<1>7. \A u \in Thread : Counting(u)' => coll' = coll
  BY <1>6 DEF OlderOK, Counting
<1>8. \A u \in Thread : Counting(u)' => "clear" \notin cause' /\ at'[u].count = coll'.count
  BY <1>2, <1>6, <1>7 DEF OlderOK
<1>9. \A u, v \in Thread : Counting(u)' /\ Counting(v)' => u = v
  BY <1>6 DEF OlderOK
<1> QED BY <1>5, <1>8, <1>9 DEF OlderOK

\* The walk begins at the first stream.
LEMMA OlderBeginKeeps ==
  ASSUME TypeOK, TypeOK', Handshake, Inv, NEW t \in Thread, OlderBegin(t)
  PROVE  Inv'
<1>1. /\ UNCHANGED <<mem, coll, lock, tx, ccfsm, stale, snap, cause, wrong>>
      /\ pc[t] = "idle" /\ coll.head # Null
      /\ at' = [at EXCEPT ![t].stream = coll.head]
  BY DEF OlderBegin, Idle
<1>2. pc'[t] = "older" /\ \A u \in Thread \ {t} : pc'[u] = pc[u]
  BY PcOfOne DEF OlderBegin
<1>3. ListKept /\ PointsKept
  BY <1>1, SameMemory
<1>4. ListIsChain' /\ NoneLost' /\ ChainOK'
  BY <1>1, <1>3, KeptChain, KeptCcfsmChain DEF Inv, ListIsChain
<1>5. CountOK'
  BY <1>1, <1>2, <1>3, KeptCount DEF Inv
<1>6. PlaceOK' /\ ReadingOK' /\ StatusOK' /\ SendSaw' /\ WrongOK'
  <2>1. PlaceOK' /\ ReadingOK'
    BY <1>1, <1>2, <1>3, KeptReading DEF Inv, InfoThere
  <2>2. List' = List /\ (LooseEnd' <=> LooseEnd)
    BY <1>1, <1>3 DEF ListKept, LooseEnd
  <2>3. StatusOK' /\ SendSaw' /\ WrongOK'
    BY <1>1, <1>2, <2>2 DEF Inv, StatusOK, SendSaw, WrongOK
  <2> QED BY <2>1, <2>3
<1>7. OlderOK'
  <2> SUFFICES ASSUME "unlocked" \notin cause PROVE OlderOK'
    BY <1>1 DEF OlderOK
  <2>1. coll.head \in List
    BY <1>1, NextsType, ReachRoot
  <2>2. at'[t].stream = coll.head /\ \A u \in Thread \ {t} : at'[u] = at[u]
    BY <1>1 DEF TypeOK, CallsOK
  <2>3. \A u \in Thread : Walking(u)' => at'[u].stream \in List'
    <3>1. "unlocked" \notin cause /\ List' = List
      BY <1>1, <1>3 DEF ListKept
    <3>2. \A u \in Thread \ {t} : Walking(u)' => Walking(u) /\ at'[u] = at[u]
      BY <1>2, <2>2 DEF Walking
    <3>3. \A u \in Thread : Walking(u) => at[u].stream \in List
      BY <3>1 DEF Inv, OlderOK
    <3> QED BY <2>1, <2>2, <3>1, <3>2, <3>3
  <2>4. \A u \in Thread : Counting(u)' => Counting(u) /\ at'[u] = at[u]
    BY <1>2, <2>2 DEF Counting
  <2> QED BY <1>1, <2>3, <2>4 DEF Inv, OlderOK
<1> QED BY <1>4, <1>5, <1>6, <1>7 DEF Inv

\* A walk that is not blamed is over streams that are there.
LEMMA WalkIsOverThere ==
  ASSUME TypeOK, Inv, NEW t \in Thread, pc[t] \in {"older", "count"}, ~Live(at[t].stream)
  PROVE  cause \cap {"clear", "unlocked"} # {}
BY DEF Inv, OlderOK, ListIsChain, Walking

\* A point is removed: until it is counted the count is one too high.
LEMMA OlderTakeKeeps ==
  ASSUME TypeOK, TypeOK', Handshake, Inv, NEW t \in Thread, OlderTake(t)
  PROVE  Inv'
<1> DEFINE b == at[t].stream
<1>1. /\ UNCHANGED <<coll, lock, tx, ccfsm, stale, snap>> /\ wrong = "no" /\ pc[t] = "older" /\ b \in Block
  BY DEF OlderTake, Handshake
<1>2. CASE ~Live(b)
  <2>1. UNCHANGED <<mem, pc, at, cause>> /\ wrong' = "stream"
    BY <1>2 DEF OlderTake
  <2>2. ListKept /\ PointsKept
    BY <1>1, <2>1, SameMemory
  <2>3. ListIsChain' /\ NoneLost' /\ ChainOK'
    BY <1>1, <2>1, <2>2, KeptChain, KeptCcfsmChain DEF Inv, ListIsChain
  <2>4. CountOK' /\ OlderOK' /\ PlaceOK' /\ ReadingOK'
    BY <1>1, <2>1, <2>2, KeptCount, KeptOlder, KeptReading DEF Inv, InfoThere
  <2>5. StatusOK' /\ SendSaw'
    BY <1>1, <2>1 DEF Inv, StatusOK, SendSaw
  <2>6. WrongOK'
    <3>1. cause \cap {"clear", "unlocked"} # {}
      BY <1>1, <1>2, WalkIsOverThere
    <3> QED BY <2>1, <3>1 DEF WrongOK
  <2> QED BY <2>3, <2>4, <2>5, <2>6 DEF Inv
<1>3. CASE Live(b) /\ mem[b].points = 0
  <2>1. OlderOn(t, b) /\ UNCHANGED <<mem, cause, wrong>>
    BY <1>3 DEF OlderTake
  <2>2. ListKept /\ PointsKept
    BY <1>1, <2>1, SameMemory
  <2>3. ListIsChain' /\ NoneLost' /\ ChainOK'
    BY <1>1, <2>1, <2>2, KeptChain, KeptCcfsmChain DEF Inv, ListIsChain
  <2>4. pc'[t] \in {"idle", "older"} /\ \A u \in Thread \ {t} : pc'[u] = pc[u]
    BY <2>1, PcOfOne DEF OlderOn
  <2>5. CountOK' /\ PlaceOK' /\ ReadingOK'
    BY <1>1, <2>1, <2>2, <2>4, KeptCount, KeptReading DEF Inv, InfoThere
  <2>6. StatusOK' /\ SendSaw' /\ WrongOK'
    BY <1>1, <2>1, <2>4 DEF Inv, StatusOK, SendSaw, WrongOK
  <2>7. OlderOK'
    BY <1>1, <2>1, <2>2, WalksOn DEF Inv
  <2> QED BY <2>3, <2>5, <2>6, <2>7 DEF Inv
<1>4. CASE Live(b) /\ mem[b].points # 0
  <2> DEFINE new == IF lock = Null THEN {} ELSE {"unlocked"}
  <2>1. /\ mem' = [mem EXCEPT ![b].points = @ - 1]
        /\ at' = [at EXCEPT ![t].count = coll.count]
        /\ pc' = [pc EXCEPT ![t] = "count"]
        /\ Blame(t, new)
        /\ wrong' \in {"no", "point"}
    BY <1>4 DEF OlderTake
  <2>2. /\ mem'[b].next = mem[b].next /\ mem'[b].cnext = mem[b].cnext
        /\ mem'[b].points = mem[b].points - 1 /\ mem'[b] # Freed
        /\ \A c \in Block \ {b} : mem'[c] = mem[c]
    <3>1. PICK r : r = mem[b]
      OBVIOUS
    <3>2. mem' = [mem EXCEPT ![b] = [r EXCEPT !.points = r.points - 1]]
      BY <2>1, <3>1
    <3>3. mem'[b] = [r EXCEPT !.points = r.points - 1] /\ \A c \in Block \ {b} : mem'[c] = mem[c]
      BY <1>1, <3>2 DEF TypeOK, ListOK
    <3>4. r \in Stream
      BY <1>1, <1>4, <3>1, BlockType
    <3>5. /\ mem'[b].next = r.next /\ mem'[b].cnext = r.cnext /\ mem'[b].id \in Id
          /\ mem'[b].points = r.points - 1
      BY <3>3, <3>4 DEF Stream
    <3>6. mem'[b] # Freed
      BY <3>5, NullIsNone DEF Freed
    <3> QED BY <3>1, <3>3, <3>5, <3>6
  <2>3. \A c \in Block : Live(c)' <=> Live(c)
    BY <1>4, <2>2 DEF Live
  <2>4. \A c \in Block : mem'[c].next = mem[c].next /\ mem'[c].cnext = mem[c].cnext
    BY <2>2
  <2>5. ListKept
    BY <1>1, <2>3, <2>4, SameNexts DEF ListKept
  <2>6. cause \subseteq cause' /\ cause' \subseteq cause \cup {"unlocked"}
    BY <2>1 DEF Blame
  <2>7. pc'[t] = "count" /\ \A u \in Thread \ {t} : pc'[u] = pc[u]
    BY <2>1, PcOfOne
  <2>8. at'[t].stream = b /\ at'[t].count = coll.count /\ \A u \in Thread \ {t} : at'[u] = at[u]
    <3>1. PICK r : r = at[t]
      OBVIOUS
    <3>2. at' = [at EXCEPT ![t] = [r EXCEPT !.count = coll.count]]
      BY <2>1, <3>1
    <3>3. r \in [stream : Block \cup {Null}, count : 0..Width - 1]
      BY <3>1 DEF TypeOK, CallsOK
    <3>4. at'[t] = [r EXCEPT !.count = coll.count] /\ \A u \in Thread \ {t} : at'[u] = at[u]
      BY <3>2 DEF TypeOK, CallsOK
    <3> QED BY <3>1, <3>3, <3>4
  <2>9. ASSUME "unlocked" \notin cause'
        PROVE  /\ lock = Null /\ "unlocked" \notin cause
               /\ \A u \in Thread \ {t} : ~Walking(u) /\ ~Counting(u)
               /\ \A u \in Thread : ~Counting(u)
               /\ b \in List /\ "clear" \notin cause
    <3>1. lock = Null /\ "unlocked" \notin cause
      BY <2>1, <2>6, <2>9 DEF Blame
    <3>2. ~Unlocked(t)
      BY <2>1, <2>9 DEF Blame
    <3>3. \A u \in Thread \ {t} : ~Walking(u) /\ ~Counting(u)
      BY <3>2 DEF Unlocked, Walking, Counting
    <3>4. Walking(t) /\ ~Counting(t)
      BY <1>1 DEF Walking, Counting
    <3>5. b \in List
      BY <3>1, <3>4 DEF Inv, OlderOK
    <3>6. "clear" \notin cause
      <4>1. SUFFICES ASSUME "clear" \in cause PROVE FALSE
        OBVIOUS
      <4>2. coll.head \in Block /\ mem[coll.head] = Freed
        BY <4>1 DEF Inv, ListIsChain, Live
      <4>3. Nexts[coll.head] = Null
        BY <4>2, NextsType DEF Freed
      <4>4. List = {coll.head}
        BY <4>2, <4>3, NextsType, ReachFirst, ReachNull
      <4> QED BY <1>4, <3>5, <4>2, <4>4 DEF Live
    <3> QED BY <3>1, <3>3, <3>4, <3>5, <3>6
  <2>10. ListIsChain' /\ NoneLost'
    BY <1>1, <2>5, <2>6, KeptChain DEF Inv, ListIsChain
  <2>11. ChainOK'
    BY <1>1, <2>4, <2>5, <2>6, NextsType, KeptCcfsmChain DEF Inv
  <2>12. OlderOK'
    <3>1. SUFFICES ASSUME "unlocked" \notin cause' PROVE OlderOK'
      BY DEF OlderOK
    <3>2. \A u \in Thread : Walking(u)' => u = t
      BY <2>7, <2>9, <3>1 DEF Walking
    <3>3. \A u \in Thread : Counting(u)' => u = t
      BY <2>7, <2>9, <3>1 DEF Counting
    <3>4. cause' = cause
      BY <2>6, <3>1
    <3>5. at'[t].stream \in List' /\ "clear" \notin cause' /\ at'[t].count = coll'.count
      BY <1>1, <2>5, <2>8, <2>9, <3>1, <3>4 DEF ListKept
    <3> QED BY <3>2, <3>3, <3>5 DEF OlderOK
  <2>13. CountOK'
    <3>1. SUFFICES ASSUME cause' \cap {"head", "clear", "unlocked"} = {} PROVE CountOK'
      BY DEF CountOK
    <3>2. coll.count = PointsOf(List)
      <4>1. cause \cap {"head", "clear", "unlocked"} = {}
        BY <2>6, <3>1
      <4>2. \A u \in Thread : ~Counting(u)
        BY <2>9, <3>1
      <4> QED BY <4>1, <4>2, PointsOfIsCount DEF Inv, CountOK
    <3>3. Points' \in PointCounts
      BY PointsAfter
    <3>4. Points'[b] = Points[b] - 1 /\ \A c \in List \ {b} : Points'[c] = Points[c]
      BY <1>1, <2>2, NextsType DEF Points
    <3>5. Points[b] \in Int
      BY <1>1, BlockType, WidthHoldsAll DEF Points
    <3>6. b \in List
      BY <2>9, <3>1
    <3>7. Cardinality(PointSet(Points', List)) = (Cardinality(PointSet(Points, List)) - Points[b]) + Points'[b]
      BY <3>3, <3>4, <3>6, PointsOfIsCount, PointSetChange
    <3>8. PointsOf(List)' = Cardinality(PointSet(Points', List))
      BY <2>5, PrimedPointsOf DEF ListKept
    <3> DEFINE n == PointsOf(List)
    <3>9. PointsOf(List)' = (n - Points[b]) + (Points[b] - 1) /\ n \in Int
      BY <3>4, <3>7, <3>8, PointsOfIsCount
    <3> HIDE DEF n
    <3>10. PointsOf(List)' + 1 = n
      BY <3>5, <3>9
    <3>11. \E u \in Thread : Counting(u)'
      BY <2>7 DEF Counting
    <3> QED BY <1>1, <3>2, <3>10, <3>11 DEF CountOK, n
  <2>14. PlaceOK' /\ ReadingOK'
    <3>1. LooseEnd' <=> LooseEnd
      BY <1>1, <2>4, <2>5, <2>6, NextsType, KeptCcfsmChain DEF Inv
    <3>2. PlaceOK'
      BY <1>1, <2>5, <3>1 DEF Inv, PlaceOK, ListKept
    <3>3. SUFFICES ASSUME "unlocked" \notin cause' PROVE ReadingOK'
      BY <3>2 DEF ReadingOK
    <3>4. \A u \in Thread : pc[u] \notin {"initiate", "wait"}
      BY <2>9, <3>3, NullIsNone DEF Handshake
    <3>5. ccfsm.ph = "off" /\ ~InfoThere /\ ~InfoThere'
      BY <2>7, <3>4 DEF Handshake, InfoThere
    <3> QED BY <1>1, <3>5 DEF ReadingOK
  <2>15. StatusOK' /\ SendSaw'
    BY <1>1, <2>1, <2>6, <2>7 DEF Inv, StatusOK, SendSaw
  <2>16. wrong' = "point" => "unlocked" \in cause' \/ stale' # {}
    <3>1. wrong' = "point" => ccfsm.ph = "reading" \/ stale # {}
      BY <1>4 DEF OlderTake, ReadBy
    <3>2. ccfsm.ph = "reading" => lock # Null
      BY NullIsNone DEF Handshake, InfoThere
    <3> QED BY <1>1, <2>1, <3>1, <3>2 DEF Blame
  <2>17. WrongOK'
    BY <2>1, <2>16 DEF WrongOK
  <2> QED BY <2>10, <2>11, <2>12, <2>13, <2>14, <2>15, <2>17 DEF Inv
<1> QED BY <1>2, <1>3, <1>4

\* It is counted.
LEMMA OlderCountKeeps ==
  ASSUME TypeOK, TypeOK', Handshake, Inv, NEW t \in Thread, OlderCount(t)
  PROVE  Inv'
<1> DEFINE b == at[t].stream
<1>1. /\ UNCHANGED <<mem, lock, tx, ccfsm, stale, snap, cause>> /\ wrong = "no" /\ pc[t] = "count" /\ b \in Block
      /\ coll' = [coll EXCEPT !.count = Less(at[t].count, 1)]
  BY DEF OlderCount, Handshake
<1>2. coll'.head = coll.head /\ coll'.there = coll.there /\ coll'.count = Less(at[t].count, 1)
  BY <1>1 DEF TypeOK, ListOK
<1>3. ListKept /\ PointsKept
  BY <1>1, <1>2, SameMemory
<1>4. coll.there
  BY <1>1 DEF Handshake
<1>5. ListIsChain' /\ NoneLost' /\ ChainOK'
  BY <1>1, <1>3, <1>4, KeptChain, KeptCcfsmChain DEF Inv, ListIsChain
<1>6. /\ \A u \in Thread \ {t} : pc'[u] = pc[u]
      /\ pc'[t] \in {"idle", "older", "count"}
      /\ Live(b) => pc'[t] # "count"
  <2>1. CASE Live(b)
    <3>1. OlderOn(t, b)
      BY <2>1 DEF OlderCount
    <3>2. pc'[t] \in {"idle", "older"} /\ \A u \in Thread \ {t} : pc'[u] = pc[u]
      BY <3>1, PcOfOne DEF OlderOn
    <3> QED BY <3>2
  <2>2. CASE ~Live(b)
    <3>1. pc' = pc
      BY <2>2 DEF OlderCount
    <3> QED BY <1>1, <2>2, <3>1
  <2> QED BY <2>1, <2>2
<1>7. PlaceOK' /\ ReadingOK' /\ StatusOK'
  BY <1>1, <1>3, <1>6, KeptReading DEF Inv, StatusOK, InfoThere
<1>8. SendSaw'
  BY <1>1, <1>2, <1>6 DEF Inv, SendSaw
<1>9. "unlocked" \notin cause => Live(b)
  BY <1>1 DEF Inv, OlderOK, Walking, Counting, ListIsChain
<1>10. WrongOK'
  <2>1. CASE Live(b)
    BY <1>1, <2>1 DEF OlderCount, WrongOK
  <2>2. CASE ~Live(b)
    BY <1>1, <1>9, <2>2 DEF OlderCount, WrongOK
  <2> QED BY <2>1, <2>2
<1>11. OlderOK'
  <2>1. CASE Live(b)
    <3>1. OlderOn(t, b)
      BY <2>1 DEF OlderCount
    <3> QED BY <1>1, <1>3, <3>1, WalksOn DEF Inv
  <2>2. CASE ~Live(b)
    BY <1>1, <1>9, <2>2 DEF OlderOK
  <2> QED BY <2>1, <2>2
<1>12. CountOK'
  <2>1. SUFFICES ASSUME cause \cap {"head", "clear", "unlocked"} = {} PROVE CountOK'
    BY <1>1 DEF CountOK
  <2>2. Counting(t) /\ at[t].count = coll.count /\ \A u \in Thread : Counting(u) => u = t
    <3>1. Counting(t) /\ "unlocked" \notin cause
      BY <1>1, <2>1 DEF Counting
    <3> QED BY <3>1 DEF Inv, OlderOK
  <2>3. coll.count = PointsOf(List) + 1 /\ PointsOf(List) \in Nat
    BY <2>1, <2>2, PointsOfIsCount DEF Inv, CountOK
  <2>4. \A u \in Thread : ~Counting(u)'
    BY <1>6, <1>9, <2>1, <2>2 DEF Counting
  <2>5. PointsOf(List)' = PointsOf(List)
    <3>1. Points' = Points
      BY <1>3 DEF Points, PointsKept
    <3> QED BY <1>3, <3>1, PrimedPointsOf, PointsOfIsCount DEF ListKept
  <2>6. coll'.count = PointsOf(List)
    <3> DEFINE n == PointsOf(List)
    <3>1. coll'.count = ((n + 1) + (Width - 1)) % Width /\ n \in Nat /\ n < Width
      <4>1. coll'.count = (at[t].count + (Width - 1)) % Width
        BY <1>2 DEF Less
      <4> QED BY <2>2, <2>3, <4>1, PointsOfIsCount
    <3> HIDE DEF n
    <3>2. (n + 1) + (Width - 1) = n + Width
      BY <3>1, WidthHoldsAll
    <3>3. (n + Width) % Width = n
      BY <3>1, WidthHoldsAll
    <3> QED BY <3>1, <3>2, <3>3 DEF n
  <2> QED BY <2>3, <2>4, <2>5, <2>6 DEF CountOK
<1> QED BY <1>5, <1>7, <1>8, <1>10, <1>11, <1>12 DEF Inv

----------------------------------------------------------------------------
(* A send. *)

\* What the end of a send does.
LEMMA SendEnds ==
  ASSUME TypeOK, Handshake, NEW t \in Thread, SendEnd(t), pc[t] \in {"initiate", "wait"}
  PROVE  /\ pc'[t] = "idle" /\ \A u \in Thread \ {t} : pc'[u] = pc[u]
         /\ \A u \in Thread : pc'[u] \notin {"initiate", "wait"}
         /\ lock = t /\ lock # Null /\ lock' = Null /\ tx' = NoTx
<1>1. pc'[t] = "idle" /\ \A u \in Thread \ {t} : pc'[u] = pc[u]
  BY PcOfOne DEF SendEnd
<1>2. \A u \in Thread \ {t} : pc[u] \notin {"initiate", "wait"}
  BY OneSends
<1>3. lock = t /\ lock # Null
  BY NullIsNone DEF Handshake
<1> QED BY <1>1, <1>2, <1>3 DEF SendEnd

\* While a send has the lock nothing was cleared.
LEMMA NoClearMeanwhile ==
  ASSUME Inv, lock # Null \/ ccfsm.ph # "off"
  PROVE  "clear" \notin cause
BY DEF Inv, ListIsChain

\* The list was looked at, and may be emptied before the lock is there.
LEMMA SendBeginKeeps ==
  ASSUME TypeOK, TypeOK', Handshake, Inv, NEW t \in Thread, SendBegin(t)
  PROVE  Inv'
<1>1. /\ UNCHANGED <<mem, coll, lock, at, tx, ccfsm, stale, snap, cause, wrong>>
      /\ pc[t] = "idle" /\ coll.head # Null
  BY DEF SendBegin, Idle, ListNotEmpty
<1>2. pc'[t] = "lock" /\ \A u \in Thread \ {t} : pc'[u] = pc[u]
  BY PcOfOne DEF SendBegin
<1>3. ListKept /\ PointsKept
  BY <1>1, SameMemory
<1>4. ListIsChain' /\ NoneLost' /\ ChainOK'
  BY <1>1, <1>3, KeptChain, KeptCcfsmChain DEF Inv, ListIsChain
<1>5. CountOK' /\ OlderOK'
  BY <1>1, <1>2, <1>3, KeptCount, KeptOlder DEF Inv
<1>6. PlaceOK' /\ ReadingOK' /\ StatusOK' /\ SendSaw' /\ WrongOK'
  <2>1. PlaceOK' /\ ReadingOK'
    BY <1>1, <1>2, <1>3, KeptReading DEF Inv, InfoThere
  <2>2. List' = List /\ (LooseEnd' <=> LooseEnd)
    BY <1>1, <1>3 DEF ListKept, LooseEnd
  <2>3. StatusOK' /\ SendSaw' /\ WrongOK'
    BY <1>1, <1>2, <2>2 DEF Inv, StatusOK, SendSaw, WrongOK
  <2> QED BY <2>1, <2>3
<1> QED BY <1>4, <1>5, <1>6 DEF Inv

\* What chaining leaves as it is, and what not.
LEMMA ChainIs ==
  ASSUME TypeOK, NEW b \in Block
  PROVE  /\ Chain[b].next = mem[b].next /\ Chain[b].points = mem[b].points /\ Chain[b].id = mem[b].id
         /\ Chain[b].cnext = IF b \in List /\ mem[b].next # Null THEN mem[b].next ELSE mem[b].cnext
         /\ Chain[b] # Freed <=> mem[b] # Freed
<1>1. CASE b \in List /\ mem[b].next # Null
  <2>1. PICK r : r = mem[b]
    OBVIOUS
  <2>2. Chain[b] = [r EXCEPT !.cnext = r.next]
    BY <1>1, <2>1 DEF Chain
  <2>3. r # Freed /\ r \in Stream
    BY <1>1, <2>1, BlockType DEF Freed, Live
  <2>4. /\ Chain[b].next = r.next /\ Chain[b].points = r.points /\ Chain[b].id = r.id
        /\ Chain[b].cnext = r.next /\ r.id \in Id
    BY <2>2, <2>3 DEF Stream
  <2>5. Chain[b] # Freed
    BY <2>4, NullIsNone DEF Freed
  <2> QED BY <1>1, <2>1, <2>3, <2>4, <2>5
<1>2. CASE ~(b \in List /\ mem[b].next # Null)
  BY <1>2 DEF Chain
<1> QED BY <1>1, <1>2

\* CCFSM's streams are chained under the lock.
LEMMA SendChainKeeps ==
  ASSUME TypeOK, TypeOK', Handshake, Inv, NEW t \in Thread, SendChain(t)
  PROVE  Inv'
<1>1. /\ UNCHANGED <<coll, at, ccfsm, stale, snap, cause>> /\ wrong = "no" /\ pc[t] = "lock" /\ lock = Null
  BY DEF SendChain
<1>2. ASSUME UNCHANGED <<mem, lock, pc, tx>>, WrongOK' PROVE Inv'
  <2>1. ListKept /\ PointsKept
    BY <1>1, <1>2, SameMemory
  <2>2. ListIsChain' /\ NoneLost' /\ ChainOK'
    BY <1>1, <1>2, <2>1, KeptChain, KeptCcfsmChain DEF Inv, ListIsChain
  <2>3. CountOK' /\ OlderOK' /\ PlaceOK' /\ ReadingOK'
    BY <1>1, <1>2, <2>1, KeptCount, KeptOlder, KeptReading DEF Inv, InfoThere
  <2>4. StatusOK' /\ SendSaw'
    BY <1>1, <1>2 DEF Inv, StatusOK, SendSaw
  <2> QED BY <1>2, <2>2, <2>3, <2>4 DEF Inv
<1>3. CASE coll.head = Null
  <2>1. UNCHANGED <<mem, lock, pc, tx>> /\ wrong' = "null"
    BY <1>3 DEF SendChain
  <2>2. "emptied" \in cause
    BY <1>1, <1>3 DEF Inv, SendSaw
  <2>3. WrongOK'
    BY <1>1, <2>1, <2>2 DEF WrongOK
  <2> QED BY <1>2, <2>1, <2>3
<1>4. CASE coll.head # Null /\ Dangles
  <2>1. UNCHANGED <<mem, lock, pc, tx>> /\ wrong' = "stream"
    BY <1>4 DEF SendChain
  <2>2. "clear" \in cause
    BY <1>4 DEF Dangles, Inv, ListIsChain
  <2>3. WrongOK'
    BY <1>1, <2>1, <2>2 DEF WrongOK
  <2> QED BY <1>2, <2>1, <2>3
<1>5. CASE coll.head # Null /\ ~Dangles
  <2>1. /\ mem' = Chain /\ lock' = t /\ tx' = NoTx
        /\ pc' = [pc EXCEPT ![t] = "initiate"] /\ wrong' = wrong
    BY <1>5 DEF SendChain
  <2>2. pc'[t] = "initiate" /\ \A u \in Thread \ {t} : pc'[u] = pc[u]
    BY <2>1, PcOfOne
  <2>3. \A b \in Block : mem'[b].next = mem[b].next /\ (Live(b)' <=> Live(b))
    BY <2>1, ChainIs DEF Live
  <2>4. ListKept
    BY <1>1, <2>3, SameNexts DEF ListKept
  <2>5. PointsKept
    BY <2>1, ChainIs DEF PointsKept
  <2>6. "clear" \notin cause
    BY <1>5, NothingDangles DEF Inv
  <2>7. ListIsChain' /\ NoneLost'
    BY <1>1, <2>4, <2>6, KeptChain DEF Inv
  <2>8. CountOK' /\ OlderOK'
    BY <1>1, <2>2, <2>4, <2>5, KeptCount, KeptOlder DEF Inv
  <2>9. ChainOK'
    <3>1. \A b \in List : /\ mem'[b].next = mem[b].next
                          /\ mem[b].next = Null => mem'[b].cnext = mem[b].cnext
                          /\ mem[b].next # Null => mem'[b].cnext = mem[b].next
      BY <2>1, ChainIs, NextsType
    <3> QED BY <1>1, <2>4, <3>1 DEF Inv, ChainOK, LooseEnd, ListKept
  <2>10. PlaceOK' /\ ReadingOK'
    <3>1. ccfsm.ph = "off" /\ \A u \in Thread : pc[u] # "wait"
      BY <1>1, NullIsNone DEF Handshake, InfoThere
    <3> QED BY <1>1, <2>2, <3>1, NothingRead
  <2>11. StatusOK' /\ SendSaw' /\ WrongOK'
    BY <1>1, <2>1, <2>2 DEF Inv, StatusOK, SendSaw, WrongOK, NoTx
  <2> QED BY <2>7, <2>8, <2>9, <2>10, <2>11 DEF Inv
<1> QED BY <1>3, <1>4, <1>5

\* CCFSM takes the request, and is to read what is there now, or refuses it.
LEMMA SendInitiateKeeps ==
  ASSUME TypeOK, TypeOK', Handshake, Inv, NEW t \in Thread, SendInitiate(t)
  PROVE  Inv'
<1>1. /\ UNCHANGED <<mem, coll, at, cause, wrong>> /\ wrong = "no" /\ pc[t] = "initiate"
  BY DEF SendInitiate
<1>2. ListKept /\ PointsKept
  BY <1>1, SameMemory
<1>3. lock = t /\ lock # Null /\ coll.head \in Block /\ tx.lock = "held" /\ ccfsm.ph = "off"
  BY <1>1, NullIsNone DEF Handshake
<1>4. "clear" \notin cause
  BY <1>3, NoClearMeanwhile
<1>5. ListIsChain' /\ NoneLost'
  BY <1>1, <1>2, <1>4, KeptChain DEF Inv
<1>6. ChainOK'
  BY <1>1, <1>2, <1>3, KeptCcfsmChain DEF Inv
<1>7. CASE SendEnd(t) /\ UNCHANGED <<ccfsm, snap>>
  <2>1. /\ pc'[t] = "idle" /\ \A u \in Thread \ {t} : pc'[u] = pc[u]
        /\ \A u \in Thread : pc'[u] # "wait"
        /\ tx' = NoTx
    BY <1>1, <1>7, SendEnds
  <2>2. CountOK' /\ OlderOK'
    BY <1>1, <1>2, <2>1, KeptCount, KeptOlder DEF Inv
  <2>3. PlaceOK' /\ ReadingOK'
    BY <1>3, <1>7, <2>1, NothingRead
  <2>4. StatusOK' /\ SendSaw' /\ WrongOK'
    BY <1>1, <2>1 DEF Inv, StatusOK, SendSaw, WrongOK, NoTx
  <2> QED BY <1>5, <1>6, <2>2, <2>3, <2>4 DEF Inv
<1>8. CASE /\ ccfsm' = [Quiet EXCEPT !.ph = "reading", !.at = coll.head]
           /\ snap' = [b \in Block |-> IF b \in List THEN mem[b].points ELSE 0]
           /\ pc' = [pc EXCEPT ![t] = "wait"] /\ UNCHANGED <<lock, tx, stale>>
  <2>1. pc'[t] = "wait" /\ \A u \in Thread \ {t} : pc'[u] = pc[u]
    BY <1>8, PcOfOne
  <2>2. CountOK' /\ OlderOK'
    BY <1>1, <1>2, <2>1, KeptCount, KeptOlder DEF Inv
  <2>3. tx.status = "none"
    BY <1>3 DEF Inv, StatusOK
  <2>4. ccfsm'.ph = "reading" /\ ccfsm'.at = coll.head /\ ccfsm'.read = [b \in Block |-> 0]
    BY <1>8 DEF Quiet
  <2>5. StatusOK' /\ SendSaw' /\ WrongOK'
    BY <1>1, <1>8, <2>1, <2>3 DEF Inv, StatusOK, SendSaw, WrongOK
  <2>6. coll.head \in List
    BY <1>3, NextsType, ReachRoot
  <2>7. PlaceOK'
    BY <1>2, <2>4, <2>6 DEF PlaceOK, ListKept
  <2>8. ReadingOK'
    <3>1. snap' = [b \in Block |-> IF b \in List' THEN mem'[b].points ELSE 0]
      BY <1>1, <1>2, <1>8 DEF ListKept
    <3>2. \A b \in Block : b \in Reach(Nexts', ccfsm'.at) \/ ccfsm'.read[b] = snap'[b]
      <4>1. Reach(Nexts', ccfsm'.at) = List
        BY <1>2, <2>4, NextsType DEF ListKept
      <4>2. \A b \in Block : b \in List \/ snap'[b] = 0
        BY <1>8
      <4> QED BY <2>4, <4>1, <4>2
    <3>3. tx'.status # "complete"
      BY <1>8, <2>3
    <3> QED BY <2>4, <3>1, <3>2, <3>3 DEF ReadingOK
  <2> QED BY <1>5, <1>6, <2>2, <2>5, <2>7, <2>8 DEF Inv
<1> QED BY <1>7, <1>8 DEF SendInitiate

\* The wait fails: CCFSM goes on with what it was given.
LEMMA SendWaitFailsKeeps ==
  ASSUME TypeOK, TypeOK', Handshake, Inv, NEW t \in Thread, SendWaitFails(t)
  PROVE  Inv'
<1>1. /\ UNCHANGED <<mem, coll, at, cause, wrong>> /\ wrong = "no" /\ pc[t] = "wait"
      /\ SendEnd(t) /\ ccfsm' = Quiet
  BY DEF SendWaitFails
<1>2. ListKept /\ PointsKept
  BY <1>1, SameMemory
<1>3. /\ pc'[t] = "idle" /\ \A u \in Thread \ {t} : pc'[u] = pc[u]
      /\ \A u \in Thread : pc'[u] # "wait"
      /\ lock # Null /\ lock' = Null /\ tx' = NoTx
  BY <1>1, SendEnds
<1>4. "clear" \notin cause
  BY <1>3, NoClearMeanwhile
<1>5. ListIsChain' /\ NoneLost'
  BY <1>1, <1>2, <1>4, KeptChain DEF Inv
<1>6. ChainOK'
  BY <1>1, <1>2, <1>3, KeptCcfsmChain DEF Inv
<1>7. CountOK' /\ OlderOK'
  BY <1>1, <1>2, <1>3, KeptCount, KeptOlder DEF Inv
<1>8. PlaceOK' /\ ReadingOK'
  BY <1>1, <1>3, NothingRead DEF Quiet
<1>9. StatusOK' /\ SendSaw' /\ WrongOK'
  BY <1>1, <1>3 DEF Inv, StatusOK, SendSaw, WrongOK, NoTx
<1> QED BY <1>5, <1>6, <1>7, <1>8, <1>9 DEF Inv

\* What freeing the points leaves.
LEMMA FreePointsIs ==
  ASSUME TypeOK, NEW b \in Block
  PROVE  /\ FreePoints[b].next = mem[b].next
         /\ FreePoints[b].cnext = Chain[b].cnext
         /\ b \in List => FreePoints[b].points = 0
         /\ FreePoints[b] # Freed <=> mem[b] # Freed
<1>1. CASE b \in List
  <2>1. PICK r : r = Chain[b]
    OBVIOUS
  <2>2. FreePoints[b] = [r EXCEPT !.points = 0]
    BY <1>1, <2>1 DEF FreePoints
  <2>3. r \in Stream \/ r = Freed
    BY <2>1, ChainType DEF StreamOrFreed
  <2>4. ASSUME r \in Stream
        PROVE  /\ FreePoints[b].next = r.next /\ FreePoints[b].cnext = r.cnext
               /\ FreePoints[b].points = 0 /\ FreePoints[b].id = r.id /\ r.id \in Id
    BY <2>2, <2>4 DEF Stream
  <2>5. ASSUME r = Freed
        PROVE  FreePoints[b] = Freed /\ Freed.points = 0
    BY <2>2, <2>5 DEF Freed
  <2>6. r \in Stream => FreePoints[b] # Freed
    BY <2>4, NullIsNone DEF Freed
  <2>7. r \in Stream => r # Freed
    BY NullIsNone DEF Freed, Stream
  <2>8. mem[b].next = r.next /\ (r # Freed <=> mem[b] # Freed)
    BY <2>1, ChainIs
  <2> QED BY <1>1, <2>1, <2>3, <2>4, <2>5, <2>6, <2>7, <2>8
<1>2. CASE b \notin List
  BY <1>2 DEF FreePoints, Chain
<1> QED BY <1>1, <1>2

\* CCFSM is done, and the points it took go.
LEMMA SendDoneKeeps ==
  ASSUME TypeOK, TypeOK', Handshake, Inv, NEW t \in Thread, SendDone(t)
  PROVE  Inv'
<1>1. /\ UNCHANGED <<at, stale>> /\ wrong = "no" /\ pc[t] = "wait"
      /\ SendEnd(t) /\ Blame(t, {}) /\ ccfsm' = Quiet
      /\ wrong' = "no" \/ (wrong' = "point" /\ stale # {})
  BY DEF SendDone
<1>2. /\ pc'[t] = "idle" /\ \A u \in Thread \ {t} : pc'[u] = pc[u]
      /\ \A u \in Thread : pc'[u] # "wait"
      /\ lock # Null /\ lock' = Null /\ tx' = NoTx
  BY <1>1, SendEnds
<1>3. /\ cause \subseteq cause' /\ cause' \subseteq cause \cup {"unlocked"} /\ OlderOK'
      /\ "unlocked" \notin cause' => /\ \A u \in Thread : ~Walking(u) /\ ~Counting(u)
                                     /\ \A u \in Thread : ~Walking(u)' /\ ~Counting(u)'
  BY <1>1, <1>2, NobodyWalks
<1>4. "clear" \notin cause'
  BY <1>2, <1>3, NoClearMeanwhile
<1>5. ccfsm'.ph = "off"
  BY <1>1 DEF Quiet
<1>6. PlaceOK' /\ ReadingOK' /\ StatusOK' /\ WrongOK'
  BY <1>1, <1>2, <1>5, NothingRead DEF StatusOK, WrongOK, NoTx
<1>7. CASE UNCHANGED <<mem, coll>>
  <2>1. ListKept /\ PointsKept
    BY <1>7, SameMemory
  <2>2. ListIsChain' /\ NoneLost'
    BY <1>3, <1>4, <1>7, <2>1, KeptChain DEF Inv
  <2>3. ChainOK'
    BY <1>2, <1>3, <1>5, <1>7, <2>1, KeptCcfsmChain DEF Inv
  <2>4. CountOK'
    <3>1. "unlocked" \in cause' \/ \A u \in Thread : pc'[u] = "count" <=> pc[u] = "count"
      BY <1>1, <1>2
    <3>2. coll'.count = coll.count
      BY <1>7
    <3> QED BY <1>3, <2>1, <3>1, <3>2, KeptCount DEF Inv
  <2>5. SendSaw'
    BY <1>2, <1>3, <1>7 DEF Inv, SendSaw
  <2> QED BY <1>3, <1>6, <2>2, <2>3, <2>4, <2>5 DEF Inv
<1>8. CASE mem' = FreePoints /\ coll' = [coll EXCEPT !.count = 0]
  <2>1. coll'.head = coll.head /\ coll'.there = coll.there /\ coll'.count = 0 /\ coll.there
    BY <1>1, <1>8 DEF TypeOK, ListOK, Handshake
  <2>2. \A b \in Block : mem'[b].next = mem[b].next /\ (Live(b)' <=> Live(b))
    BY <1>8, FreePointsIs DEF Live
  <2>3. ListKept
    BY <2>1, <2>2, SameNexts DEF ListKept
  <2>4. ListIsChain' /\ NoneLost'
    BY <1>3, <1>4, <2>1, <2>3, KeptChain DEF Inv
  <2>5. ChainOK'
    <3>1. SUFFICES ASSUME "tail" \notin cause, NEW b \in List, mem'[b].next = Null
                   PROVE  mem'[b].cnext = Null
      BY <1>2, <1>3, <2>3 DEF ChainOK, LooseEnd, ListKept
    <3>2. b \in Block
      BY NextsType
    <3>3. mem[b].next = Null
      BY <2>2, <3>1, <3>2
    <3>4. mem'[b].cnext = mem[b].cnext
      BY <1>8, <3>2, <3>3, FreePointsIs, ChainIs
    <3> QED BY <3>1, <3>3, <3>4 DEF Inv, ChainOK, LooseEnd
  <2>6. CountOK'
    <3>1. \A b \in List : Points'[b] = 0
      BY <1>8, FreePointsIs, NextsType DEF Points
    <3>2. PointsOf(List)' = 0
      BY <2>3, <3>1, PrimedPointsOf, PointSetNone DEF ListKept
    <3> QED BY <1>3, <2>1, <3>2 DEF CountOK
  <2>7. SendSaw'
    BY <1>2, <1>3, <2>1 DEF Inv, SendSaw
  <2> QED BY <1>3, <1>6, <2>4, <2>5, <2>6, <2>7 DEF Inv
<1> QED BY <1>7, <1>8 DEF SendDone

----------------------------------------------------------------------------
(* CCFSM and the data point handler. *)

\* CCFSM reads on along its chain, which is the list.
LEMMA ReadKeeps ==
  ASSUME TypeOK, TypeOK', Handshake, Inv, Read
  PROVE  Inv'
<1> DEFINE b == ccfsm.at
<1>1. /\ UNCHANGED <<mem, coll, lock, pc, at, tx, snap, cause>> /\ wrong = "no"
      /\ ccfsm.ph = "reading" /\ b \in Block
  BY DEF Read, Handshake
<1>2. ListKept /\ PointsKept
  BY <1>1, SameMemory
<1>3. "clear" \notin cause
  BY <1>1, NoClearMeanwhile
<1>4. ListIsChain' /\ NoneLost'
  BY <1>1, <1>2, <1>3, KeptChain DEF Inv
<1>5. CountOK' /\ OlderOK'
  BY <1>1, <1>2, KeptCount, KeptOlder DEF Inv
<1>6. ChainOK'
  BY <1>1, <1>2, KeptCcfsmChain DEF Inv
<1>7. StatusOK' /\ SendSaw'
  BY <1>1 DEF Inv, StatusOK, SendSaw
<1>8. ~LooseEnd => b \in List /\ Live(b)
  BY <1>1, <1>3 DEF Inv, PlaceOK, ListIsChain
<1> DEFINE waits == \E t \in Thread : lock = t /\ pc[t] = "wait"
<1>11. waits /\ lock # Null /\ InfoThere /\ tx.status = "none" /\ (LooseEnd' <=> LooseEnd)
  <2>1. waits /\ lock # Null /\ InfoThere
    BY <1>1, NullIsNone DEF Handshake, InfoThere
  <2>2. LooseEnd' <=> LooseEnd
    BY <1>1, <1>2, KeptCcfsmChain DEF Inv
  <2> QED BY <1>1, <2>1, <2>2 DEF Inv, StatusOK, Handshake
<1>9. CASE ~Live(b)
  <2>1. ccfsm' = ccfsm /\ wrong' = "chain"
    BY <1>9 DEF Read
  <2>2. LooseEnd
    BY <1>8, <1>9
  <2>3. WrongOK' /\ PlaceOK' /\ ReadingOK'
    BY <1>1, <1>11, <2>1, <2>2 DEF WrongOK, PlaceOK, ReadingOK
  <2> QED BY <1>4, <1>5, <1>6, <1>7, <2>3 DEF Inv
<1>10. CASE Live(b)
  <2>1. /\ ccfsm'.ph = IF mem[b].cnext = Null THEN "sent" ELSE "reading"
        /\ ccfsm'.at = mem[b].cnext
        /\ ccfsm'.read = [ccfsm.read EXCEPT ![b] = mem[b].points]
        /\ wrong' = wrong
    BY <1>10 DEF Read
  <2>2. WrongOK'
    BY <1>1, <2>1 DEF WrongOK
  <2>3. b \in List /\ mem[b].next # Null => mem[b].next \in List
    <3>1. b \in Reach(Nexts, coll.head) /\ Nexts[b] # Null => Nexts[b] \in Reach(Nexts, coll.head)
      BY NextsType, ReachStep
    <3> QED BY <1>1, <3>1, NextsType
  <2>4. PlaceOK' /\ ReadingOK'
    <3> SUFFICES ASSUME ~LooseEnd PROVE PlaceOK' /\ ReadingOK'
      BY <1>11 DEF PlaceOK, ReadingOK
    <3>1. b \in List /\ mem[b].cnext = mem[b].next
      BY <1>8, <1>11 DEF Inv, ChainOK, LooseEnd
    <3>2. mem[b].next # Null => mem[b].next \in List
      BY <3>1, <2>3
    <3>3. PlaceOK'
      BY <1>2, <2>1, <3>1, <3>2 DEF PlaceOK, ListKept
    <3>4. SUFFICES ASSUME "unlocked" \notin cause PROVE ReadingOK'
      BY <1>1, <3>3 DEF ReadingOK
    <3>5. snap = [c \in Block |-> IF c \in List THEN mem[c].points ELSE 0]
      BY <1>11, <3>4 DEF Inv, ReadingOK
    <3>6. snap' = [c \in Block |-> IF c \in List' THEN mem'[c].points ELSE 0]
      BY <1>1, <1>2, <3>5 DEF ListKept
    <3>7. /\ ccfsm'.read[b] = snap'[b] /\ \A c \in Block : c # b => ccfsm'.read[c] = ccfsm.read[c]
          /\ ccfsm'.read \in [Block -> 0..MaxPoints] /\ snap' \in [Block -> 0..MaxPoints]
      BY <1>1, <2>1, <3>1, <3>5 DEF TypeOK, SendOK
    <3>8. \A c \in Block : c \in Reach(Nexts, mem[b].next) \/ ccfsm'.read[c] = snap'[c]
      <4>1. \A c \in Block : c \in Reach(Nexts, b) \/ ccfsm.read[c] = snap[c]
        BY <1>1, <3>4 DEF Inv, ReadingOK
      <4>2. Reach(Nexts, b) = {b} \cup Reach(Nexts, Nexts[b]) /\ Nexts[b] = mem[b].next
        BY <1>1, NextsType, ReachFirst
      <4> QED BY <1>1, <3>7, <4>1, <4>2
    <3>9. mem[b].next = Null => ccfsm'.read = snap'
      <4>1. mem[b].next = Null => \A c \in Block : ccfsm'.read[c] = snap'[c]
        BY <3>8, ReachNull
      <4> QED BY <3>7, <4>1
    <3>10. ccfsm'.ph = "reading" =>
             \A c \in Block : c \in Reach(Nexts', ccfsm'.at) \/ ccfsm'.read[c] = snap'[c]
      BY <1>2, <2>1, <3>1, <3>8 DEF ListKept
    <3>11. ccfsm'.ph = "sent" => ccfsm'.read = snap'
      BY <2>1, <3>1, <3>9
    <3>12. tx'.status # "complete"
      BY <1>1, <1>11
    <3> QED BY <3>3, <3>6, <3>10, <3>11, <3>12 DEF ReadingOK
  <2> QED BY <1>4, <1>5, <1>6, <1>7, <2>2, <2>4 DEF Inv
<1> QED BY <1>9, <1>10

\* What the server says.
LEMMA ResponseKeeps ==
  ASSUME TypeOK, TypeOK', Handshake, Inv, NEW r \in {"success", "error"}, Response(r)
  PROVE  Inv'
<1>1. /\ UNCHANGED <<mem, coll, lock, pc, at, ccfsm, stale, snap, cause>> /\ wrong = "no" /\ wrong' \in {"no", "info"}
  BY DEF Response
<1>2. tx'.status = tx.status /\ tx'.lock = tx.lock
  BY DEF Response, TypeOK, SendOK
<1>3. ListKept /\ PointsKept
  BY <1>1, SameMemory
<1>4. ListIsChain' /\ NoneLost' /\ ChainOK'
  BY <1>1, <1>3, KeptChain, KeptCcfsmChain DEF Inv, ListIsChain
<1>5. CountOK' /\ OlderOK'
  BY <1>1, <1>3, KeptCount, KeptOlder DEF Inv
<1>6. PlaceOK' /\ ReadingOK'
  BY <1>1, <1>2, <1>3, KeptReading DEF Inv, InfoThere
<1>7. StatusOK' /\ SendSaw' /\ WrongOK'
  BY <1>1, <1>2 DEF Inv, StatusOK, SendSaw, WrongOK
<1> QED BY <1>4, <1>5, <1>6, <1>7 DEF Inv

\* The last of CCFSM: it says complete only when it read all.
LEMMA StatusKeeps ==
  ASSUME TypeOK, TypeOK', Handshake, Inv,
         NEW s \in {"complete", "error"}, NEW r \in {"OK", "BUSY", "ERROR"}, Status(s, r)
  PROVE  Inv'
<1>1. /\ UNCHANGED <<mem, coll, lock, pc, at, stale, snap, cause>> /\ wrong = "no"
      /\ ccfsm.ph # "off" /\ (s = "complete" => ccfsm.ph \in {"sent", "status"})
      /\ (ccfsm.ph = "status" => s = tx.status)
  BY DEF Status
<1>2. InfoThere /\ InfoThere' /\ wrong' = "no"
  BY <1>1 DEF Status, Handshake, InfoThere
<1>3. /\ ccfsm'.ph \in {"off", "status"} /\ ccfsm'.read = ccfsm.read /\ tx'.status = s
      /\ tx'.lock # "held" \/ ccfsm'.ph = "status"
  BY <1>2 DEF Status, Released, TypeOK, SendOK
<1>4. ListKept /\ PointsKept
  BY <1>1, SameMemory
<1>5. "clear" \notin cause
  BY <1>1, NoClearMeanwhile
<1>6. ListIsChain' /\ NoneLost' /\ ChainOK' /\ (LooseEnd' <=> LooseEnd)
  BY <1>1, <1>4, <1>5, KeptChain, KeptCcfsmChain DEF Inv
<1>7. CountOK' /\ OlderOK'
  BY <1>1, <1>4, KeptCount, KeptOlder DEF Inv
<1>8. StatusOK' /\ SendSaw' /\ WrongOK'
  BY <1>1, <1>2, <1>3 DEF Inv, StatusOK, SendSaw, WrongOK
<1>9. PlaceOK' /\ ReadingOK'
  <2> SUFFICES ASSUME "unlocked" \notin cause, ~LooseEnd PROVE ReadingOK'
    BY <1>1, <1>3, <1>6 DEF PlaceOK, ReadingOK
  <2>1. snap' = [b \in Block |-> IF b \in List' THEN mem'[b].points ELSE 0]
    BY <1>1, <1>2, <1>4 DEF Inv, ReadingOK, ListKept
  <2>2. tx'.status = "complete" => ccfsm'.read = snap'
    BY <1>1, <1>2, <1>3 DEF Inv, ReadingOK
  <2> QED BY <1>3, <2>1, <2>2 DEF ReadingOK
<1> QED BY <1>6, <1>7, <1>8, <1>9 DEF Inv

\* A request that was given up touches nothing.
LEMMA StaleKeeps ==
  ASSUME TypeOK, TypeOK', Handshake, Inv, (\E b \in Block : StaleRead(b)) \/ StaleCallback
  PROVE  Inv'
<1>1. /\ UNCHANGED <<mem, coll, lock, pc, at, tx, ccfsm, snap, cause>>
      /\ wrong = "no" /\ wrong' \in {"no", "stale", "info"}
  BY DEF StaleRead, StaleCallback
<1>2. ListKept /\ PointsKept
  BY <1>1, SameMemory
<1>3. ListIsChain' /\ NoneLost' /\ ChainOK'
  BY <1>1, <1>2, KeptChain, KeptCcfsmChain DEF Inv, ListIsChain
<1>4. CountOK' /\ OlderOK' /\ PlaceOK' /\ ReadingOK'
  BY <1>1, <1>2, KeptCount, KeptOlder, KeptReading DEF Inv, InfoThere
<1>5. StatusOK' /\ SendSaw' /\ WrongOK'
  BY <1>1 DEF Inv, StatusOK, SendSaw, WrongOK
<1> QED BY <1>3, <1>4, <1>5 DEF Inv

\* A new collection is as empty as the one that was not there.
LEMMA CreateKeeps ==
  ASSUME TypeOK, TypeOK', Handshake, Inv, Create
  PROVE  Inv'
<1>1. /\ UNCHANGED <<mem, lock, pc, at, tx, ccfsm, stale, snap, cause, wrong>> /\ wrong = "no"
      /\ coll' = [head |-> Null, count |-> 0, there |-> TRUE]
      /\ coll.head = Null /\ coll.count = 0 /\ ~coll.there
  BY DEF Create, Inv, ListIsChain
<1>2. \A u \in Thread : pc[u] = "idle"
  BY <1>1 DEF Handshake
<1>3. List = {} /\ List' = {} /\ Nexts' = Nexts
  <2>1. List = Reach(Nexts, Null) /\ List' = Reach(Nexts', Null)
    BY <1>1 DEF List, Nexts
  <2> QED BY <1>1, <2>1, ReachNull DEF Nexts
<1>4. "clear" \notin cause
  BY <1>1, NullIsNone DEF Inv, ListIsChain
<1>5. ListIsChain' /\ ChainOK'
  BY <1>1, <1>3, <1>4 DEF ListIsChain, ChainOK, LooseEnd
<1>6. NoneLost'
  BY <1>1, <1>3 DEF Inv, NoneLost, Live
<1>7. CountOK'
  <2>1. PointsOf(List)' = 0
    BY <1>3, PrimedPointsOf, PointSetNone
  <2> QED BY <1>1, <1>2, <2>1 DEF CountOK, Counting
<1>8. OlderOK' /\ SendSaw' /\ StatusOK' /\ WrongOK'
  BY <1>1, <1>2 DEF Inv, OlderOK, Walking, Counting, SendSaw, StatusOK, WrongOK
<1>9. PlaceOK' /\ ReadingOK'
  <2>1. ccfsm.ph = "off"
    BY <1>2 DEF Handshake, InfoThere
  <2> QED BY <1>1, <1>2, <2>1, NothingRead
<1> QED BY <1>5, <1>6, <1>7, <1>8, <1>9 DEF Inv

----------------------------------------------------------------------------
(* The invariant, and what follows from it. *)

\* At first there is nothing.
LEMMA InvInit == Init => Inv
<1> SUFFICES ASSUME Init PROVE Inv
  OBVIOUS
<1>1. TypeOK
  BY TypeInit
<1>2. /\ coll.head = Null /\ coll.count = 0 /\ ~coll.there /\ cause = {} /\ wrong = "no" /\ lock = Null
      /\ \A b \in Block : ~Live(b)
      /\ \A t \in Thread : pc[t] = "idle"
      /\ tx.status = "none" /\ ccfsm.ph = "off"
  BY DEF Init, NoTx, Quiet, Live
<1>3. List = {}
  BY <1>2, ReachNull DEF List
<1>4. PointsOf(List) = 0
  BY <1>1, <1>3, PointsOfIsCount, PointSetNone
<1>5. ListIsChain /\ NoneLost /\ ChainOK
  BY <1>2, <1>3 DEF ListIsChain, NoneLost, ChainOK, LooseEnd
<1>6. CountOK
  BY <1>2, <1>4 DEF CountOK, Counting
<1>7. OlderOK /\ SendSaw /\ PlaceOK /\ ReadingOK /\ StatusOK /\ WrongOK
  BY <1>2 DEF OlderOK, Walking, Counting, SendSaw, PlaceOK, ReadingOK, InfoThere, StatusOK, WrongOK
<1> QED BY <1>5, <1>6, <1>7 DEF Inv

\* Where nothing happens, nothing breaks.
LEMMA InvStutter ==
  ASSUME TypeOK, TypeOK', Inv, UNCHANGED vars
  PROVE  Inv'
<1>1. UNCHANGED <<mem, coll, lock, pc, at, tx, ccfsm, stale, snap, cause, wrong>>
  BY DEF vars
<1>2. ListKept /\ PointsKept
  BY <1>1, SameMemory
<1>3. ListIsChain' /\ NoneLost' /\ ChainOK'
  BY <1>1, <1>2, KeptChain, KeptCcfsmChain DEF Inv, ListIsChain
<1>4. CountOK' /\ OlderOK' /\ PlaceOK' /\ ReadingOK'
  BY <1>1, <1>2, KeptCount, KeptOlder, KeptReading DEF Inv, InfoThere
<1>5. StatusOK' /\ SendSaw' /\ WrongOK'
  BY <1>1 DEF Inv, StatusOK, SendSaw, WrongOK, InfoThere, LooseEnd, List
<1> QED BY <1>3, <1>4, <1>5 DEF Inv

\* No step leaves the invariant.
LEMMA InvNext ==
  ASSUME TypeOK, TypeOK', Handshake, Inv, [Next]_vars
  PROVE  Inv'
<1>1. CASE \E t \in Thread, id \in Id : AddStream(t, id) \/ RemoveStream(t, id) \/ AddPoint(t, id)
  BY <1>1, UnderLockKeeps DEF UnderLock
<1>2. CASE \E t \in Thread : Clear(t) \/ Destroy(t)
  BY <1>2, UnderLockKeeps DEF UnderLock
<1>3. CASE \E t \in Thread : OlderBegin(t) \/ OlderTake(t) \/ OlderCount(t)
  BY <1>3, OlderBeginKeeps, OlderTakeKeeps, OlderCountKeeps
<1>4. CASE \E t \in Thread : \/ SendBegin(t) \/ SendChain(t) \/ SendInitiate(t)
                            \/ SendDone(t) \/ SendWaitFails(t)
  BY <1>4, SendBeginKeeps, SendChainKeeps, SendInitiateKeeps, SendDoneKeeps, SendWaitFailsKeeps
<1>5. CASE \/ Read \/ (\E r \in {"success", "error"} : Response(r))
           \/ StatusNext \/ (\E b \in Block : StaleRead(b)) \/ StaleCallback
  BY <1>5, ReadKeeps, ResponseKeeps, StatusKeeps, StaleKeeps DEF StatusNext
<1>6. CASE Create
  BY <1>6, CreateKeeps
<1>7. CASE UNCHANGED vars
  BY <1>7, InvStutter
<1> QED BY <1>1, <1>2, <1>3, <1>4, <1>5, <1>6, <1>7 DEF Next, Halted

\* The list, its count and CCFSM's chain are what the calls take them for, but
\* for what the named causes break (ccapi_datapoints.c:173, :783, :791, :1059,
\* :1072, :1090, :1117).
THEOREM CollectionInvariant == Spec => [](TypeOK /\ Handshake /\ Inv)
<1>1. Init => Inv
  BY InvInit
<1>2. TypeOK /\ TypeOK' /\ Handshake /\ Inv /\ [Next]_vars => Inv'
  BY InvNext
<1> QED BY <1>1, <1>2, HandshakeCorrect, PTL DEF Spec

\* dp_count is the number of points in the list, no stream is lost, and no walk
\* meets freed memory, but for the causes each part names
\* (ccapi_datapoints.c:783, :791, :1031, :1059, :1072, :1117, :1127).
THEOREM CollectionCorrect == Spec => []CollectionHolds
<1>1. TypeOK /\ Handshake /\ Inv => CollectionHolds
  <2> SUFFICES ASSUME TypeOK, Inv PROVE CollectionHolds
    OBVIOUS
  <2>1. CountExact
    <3>1. (\A t \in Thread : pc[t] # "count") => ~\E t \in Thread : Counting(t)
      BY DEF Counting
    <3> QED BY <3>1, PointsOfIsCount DEF Inv, CountOK, CountExact
  <2>2. OnlyFirstLosesRest /\ WalkIsSafe /\ SendFindsStream
    BY DEF Inv, NoneLost, OnlyFirstLosesRest, WrongOK, WalkIsSafe, SendFindsStream
  <2> QED BY <2>1, <2>2 DEF CollectionHolds
<1> QED BY <1>1, CollectionInvariant, PTL

\* The chain CCFSM follows is the list, and what it sent is what was there when
\* it was asked (ccapi_datapoints.c:1083-1111).
THEOREM ChainCorrect == Spec => []ChainIsList
<1>1. Inv => ChainIsList
  BY DEF Inv, WrongOK, ChainOK, ReadingOK, ChainIsList
<1> QED BY <1>1, CollectionInvariant, PTL

\* The points that go with a send are those CCFSM read and the server took
\* (ccapi_datapoints.c:1258-1271).
THEOREM FreedCorrect == Spec => OnlySentIsFreed
<1> DEFINE FreedIsSent ==
             \A t \in Thread :
               SendDone(t) /\ "unlocked" \notin cause' /\ ~LooseEnd /\ coll' # coll
                 => /\ ccfsm.read = snap /\ tx.resp = "success" /\ tx.status = "complete"
                    /\ \A b \in Block : mem'[b].points # mem[b].points => snap[b] = mem[b].points
<1>1. TypeOK /\ Inv /\ [Next]_vars => [FreedIsSent]_vars
  <2> SUFFICES ASSUME TypeOK, Inv, NEW t \in Thread, SendDone(t), "unlocked" \notin cause', ~LooseEnd,
                      coll' # coll
               PROVE  /\ ccfsm.read = snap /\ tx.resp = "success" /\ tx.status = "complete"
                      /\ \A b \in Block : mem'[b].points # mem[b].points => snap[b] = mem[b].points
    OBVIOUS
  <2>1. Accepted /\ InfoThere /\ mem' = FreePoints
    BY DEF SendDone, InfoThere
  <2>2. "unlocked" \notin cause
    BY DEF SendDone, Blame
  <2>3. snap = [b \in Block |-> IF b \in List THEN mem[b].points ELSE 0]
    BY <2>1, <2>2 DEF Inv, ReadingOK
  <2>4. \A b \in Block : b \notin List => mem'[b] = mem[b]
    BY <2>1 DEF FreePoints
  <2> QED BY <2>1, <2>2, <2>3, <2>4 DEF Accepted, Inv, ReadingOK
<1>2. Spec => [][FreedIsSent]_vars
  BY <1>1, CollectionInvariant, PTL DEF Spec
<1> QED BY <1>2 DEF OnlySentIsFreed
=============================================================================
