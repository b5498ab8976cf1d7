-------------------------- MODULE FileSystemProofs --------------------------
(***************************************************************************)
(* Proofs about FileSystem, for any number of sessions, threads, names,    *)
(* local directories and list entries.                                     *)
(*                                                                         *)
(* The walks of the application and the listings of CCFSM follow the list  *)
(* while it changes.  What they have still ahead of them is told by a      *)
(* rank: a number for each entry that falls along the list and that a new  *)
(* front entry gets anew, above all others.  An entry that was unlinked    *)
(* keeps its rank until it is freed, so that what it leads to is known.    *)
(***************************************************************************)
EXTENDS FileSystem, TLAPS, SequenceTheorems, WellFoundedInduction

----------------------------------------------------------------------------
(* The inductive invariant. *)

Linked == ToSet(list)
Freeing == {t \in App : app[t].pc = "free"}
\* Entries that are allocated: in the list, or unlinked and not freed yet.
Alive == Linked \cup {app[t].cell : t \in Freeing}

\* The list and its entries: each linked once, none freed while it is pointed at.
CellsOK ==
  /\ \A i, j \in DOMAIN list : list[i] = list[j] => i = j
  /\ \A e \in Linked : ent[e].name \in VDir /\ ent[e].loc \in LocalDir
  /\ \A t \in Freeing : app[t].cell \in Entry \ Linked /\ ent[app[t].cell].name \in VDir
  /\ \A t, u \in Freeing : app[t].cell = app[u].cell => t = u

\* A pointer that is not null, and not dangling, is to an allocated entry.
PointersOK ==
  /\ \A s \in Session : sess[s].pos \in Entry => sess[s].pos \in Alive
  /\ \A t \in App : app[t].pc = "lookup" /\ app[t].cell \in Entry => app[t].cell \in Alive
  /\ \A t \in Freeing : app[t].nxt \in Entry => app[t].nxt \in Alive

\* A thread that adds a name and has found no entry of it: there is none, but
\* for a thread that added it at once.
AddersOK ==
  /\ \A t \in App : Adding(t) => app[t].name \in VDir /\ app[t].loc \in LocalDir
  /\ \A t \in App : Adding(t) /\ (app[t].pc = "lookup" => app[t].cell = Null)
                      /\ app[t].name \in Mapped => app[t].name \in overlap
  /\ \A t, u \in App : t # u /\ Adding(t) /\ Adding(u) /\ app[t].name = app[u].name =>
                         app[t].name \in overlap

\* f is e, or comes after it.
From(rank, f, e) == f = e \/ rank[f] < rank[e]

\* What an unlinked entry leads to.
LeadsOn(rank, e, n) ==
  \A f \in Linked : rank[f] < rank[e] => n = Dangling \/ (n \in Entry /\ From(rank, f, n))

\* A root listing in session record x has ahead of it what it owes.
Owes(rank, x) ==
  x.ctx /\ x.pos \in Entry =>
    \A n \in x.due \ x.seen : \E f \in Linked : ent[f].name = n /\ From(rank, f, x.pos)

\* A walk that looks for a name has ahead of it every entry of that name.
Ahead(rank, t) ==
  app[t].pc = "lookup" /\ app[t].cell \in Entry /\ app[t].name \notin overlap =>
    \A f \in Linked : ent[f].name = app[t].name => From(rank, f, app[t].cell)

Ranked(rank, top) ==
  /\ rank \in [Entry -> Nat] /\ top \in Nat
  /\ \A e \in Entry : rank[e] < top
  /\ \A i, j \in DOMAIN list : i < j => rank[list[j]] < rank[list[i]]
  /\ \A t \in Freeing : LeadsOn(rank, app[t].cell, app[t].nxt)
  /\ \A s \in Session : Owes(rank, sess[s])
  /\ \A t \in App : Ahead(rank, t)

\* What is held for session s.
HeldOf(s) == {k \in Things : <<k, s>> \in held}

\* A session record x for which the things in H are held.
Sound(x, H) ==
  /\ x.req # "none" => x.req \in NextRequests(x)
  /\ x.err = Freed => x.req = "get_error"
  /\ x.err \in Causes => x.err = x.why
  /\ x.said \in {Null, x.why}
  /\ x.ph = "idle" => x.err = Null
  /\ x.hnd # NoHandle =>
       x.ph \in {"file", "over"} /\ x.hnd.loc # Null /\ "file" \in H /\ ~x.ctx /\ ~x.dir
  /\ x.ph = "file" => x.hnd # NoHandle /\ x.hnd.kind = x.kind
  /\ x.dirty # Null => x.hnd # NoHandle /\ x.hnd.loc = x.dirty /\ x.hnd.kind # "READ"
  /\ x.ctx => x.ph \in {"stat", "dir", "over"} /\ ~x.dir
  /\ x.dir => x.ph \in {"dir", "over"}
  /\ "handle" \in H \/ "file" \in H => x.hnd # NoHandle
  /\ "error" \in H => x.err \in Causes
  /\ "listing" \in H => x.ctx
  /\ "dir" \in H => x.dir

SessionsOK == \A s \in Session : Sound(sess[s], HeldOf(s))

Inv ==
  /\ TypeOK /\ CellsOK /\ PointersOK /\ AddersOK /\ SessionsOK
  /\ NamesUnique /\ ListingIsComplete
  /\ \E rank, top : Ranked(rank, top)

----------------------------------------------------------------------------
(* Lists. *)

\* A nonempty set of positions has a first one (the search of
\* get_pointer_to_dir_entry_from_virtual_dir_name ends at it).
LEMMA FirstPlace ==
  ASSUME NEW T, T \subseteq Nat, T # {}
  PROVE  \E i \in T : \A j \in T : i <= j
<1> DEFINE R == OpToRel(<, Nat)
<1>1. IsWellFoundedOn(R, Nat)
  BY NatLessThanWellFounded
<1>2. \A x, y \in Nat : x < y => <<x, y>> \in R
  BY DEF OpToRel
<1> HIDE DEF R
<1>3. PICK x \in T : \A y \in T : ~ (<<y, x>> \in R)
  BY <1>1, WFMin
<1>4. ASSUME NEW y \in T PROVE x <= y
  <2>1. x \in Nat /\ y \in Nat
    OBVIOUS
  <2>2. ~(y < x)
    BY <1>2, <1>3, <2>1
  <2> QED
    BY <2>1, <2>2
<1> QED
  BY <1>4

\* What is left of a list of distinct elements when one is taken out (the
\* unlinking of ccxapi_fs_remove_virtual_dir).
LEMMA RemoveAtFacts ==
  ASSUME NEW S, NEW q \in Seq(S), NEW i \in 1..Len(q)
  PROVE  /\ RemoveAt(q, i) \in Seq(S)
         /\ Len(RemoveAt(q, i)) = Len(q) - 1
         /\ \A j \in 1..(Len(q) - 1) : RemoveAt(q, i)[j] = IF j < i THEN q[j] ELSE q[j + 1]
<1> DEFINE a == SubSeq(q, 1, i - 1)
           b == SubSeq(q, i + 1, Len(q))
<1>1. a \in Seq(S) /\ Len(a) = i - 1 /\ \A j \in 1..(i - 1) : a[j] = q[j]
  <2>1. \A j \in 1..(i - 1) : q[j] \in S
    BY ElementOfSeq
  <2> QED
    BY <2>1, SubSeqProperties
<1>2. b \in Seq(S) /\ Len(b) = Len(q) - i /\ \A j \in 1..(Len(q) - i) : b[j] = q[i + j]
  <2>1. \A j \in (i + 1)..Len(q) : q[j] \in S
    BY ElementOfSeq
  <2> QED
    BY <2>1, SubSeqProperties
<1> HIDE DEF a, b
<1>3. /\ a \o b \in Seq(S)
      /\ Len(a \o b) = Len(a) + Len(b)
      /\ \A j \in 1..(Len(a) + Len(b)) : (a \o b)[j] = IF j <= Len(a) THEN a[j] ELSE b[j - Len(a)]
  BY <1>1, <1>2, ConcatProperties
<1>4. RemoveAt(q, i) = a \o b
  BY DEF RemoveAt, a, b
<1>5. Len(q) \in Nat /\ i \in Nat /\ Len(a) + Len(b) = Len(q) - 1
  BY <1>1, <1>2
<1>6. ASSUME NEW j \in 1..(Len(q) - 1)
      PROVE  (a \o b)[j] = IF j < i THEN q[j] ELSE q[j + 1]
  <2>1. j \in 1..(Len(a) + Len(b))
    BY <1>5
  <2>2. CASE j < i
    BY <1>1, <1>3, <1>5, <2>1, <2>2
  <2>3. CASE ~(j < i)
    <3>1. j - Len(a) \in 1..(Len(q) - i) /\ i + (j - Len(a)) = j + 1 /\ ~(j <= Len(a))
      BY <1>1, <1>5, <2>3
    <3>2. (a \o b)[j] = b[j - Len(a)]
      BY <1>3, <2>1, <3>1
    <3> QED
      BY <1>2, <2>3, <3>1, <3>2
  <2> QED
    BY <2>2, <2>3
<1> QED
  BY <1>3, <1>4, <1>5, <1>6

\* A list with a new element in front (add_virtual_dir_entry).
LEMMA AddFrontFacts ==
  ASSUME NEW S, NEW q \in Seq(S), NEW e \in S
  PROVE  /\ <<e>> \o q \in Seq(S)
         /\ Len(<<e>> \o q) = Len(q) + 1
         /\ \A j \in 1..(Len(q) + 1) : (<<e>> \o q)[j] = IF j = 1 THEN e ELSE q[j - 1]
  BY ConcatProperties

----------------------------------------------------------------------------
(* The list and its entries, as the calls see them. *)

\* A linked entry has a place in the list.
LEMMA LinkedPlace ==
  ASSUME TypeOK, NEW e \in Linked
  PROVE  /\ e \in Entry
         /\ PlaceOf(e) \in 1..Len(list) /\ list[PlaceOf(e)] = e
         /\ DOMAIN list = 1..Len(list) /\ Len(list) \in Nat
<1>1. list \in Seq(Entry)
  BY DEF TypeOK
<1>2. DOMAIN list = 1..Len(list) /\ Len(list) \in Nat
  BY <1>1
<1>3. PICK i \in DOMAIN list : list[i] = e
  BY DEF Linked, ToSet
<1>4. PlaceOf(e) \in DOMAIN list /\ list[PlaceOf(e)] = e
  BY <1>3 DEF PlaceOf
<1>5. e \in Entry
  BY <1>1, <1>2, <1>3, ElementOfSeq
<1> QED
  BY <1>2, <1>4, <1>5

\* Two places with the same entry are one.
LEMMA PlaceUnique ==
  ASSUME TypeOK, CellsOK, NEW i \in DOMAIN list
  PROVE  list[i] \in Linked /\ PlaceOf(list[i]) = i
<1>1. list[i] \in Linked
  BY DEF Linked, ToSet
<1>2. PlaceOf(list[i]) \in DOMAIN list /\ list[PlaceOf(list[i])] = list[i]
  BY DEF PlaceOf
<1> QED
  BY <1>1, <1>2 DEF CellsOK

\* next of a linked entry: linked too, and what comes after the entry comes
\* with or after its next.
LEMMA NextFacts ==
  ASSUME TypeOK, CellsOK, NEW rank, NEW top, Ranked(rank, top), NEW e \in Linked
  PROVE  NextOf(e) \in Linked \cup {Null} /\ LeadsOn(rank, e, NextOf(e))
<1> DEFINE i == PlaceOf(e)
<1>1. e \in Entry /\ i \in 1..Len(list) /\ list[i] = e /\ DOMAIN list = 1..Len(list) /\ Len(list) \in Nat
  BY LinkedPlace
<1> HIDE DEF i
<1>2. NextOf(e) = IF i = Len(list) THEN Null ELSE list[i + 1]
  BY DEF NextOf, i
<1>3. NextOf(e) \in Linked \cup {Null}
  <2>1. CASE i = Len(list)
    BY <1>2, <2>1
  <2>2. CASE i # Len(list)
    <3>1. i \in 1..Len(list) /\ Len(list) \in Nat
      BY <1>1
    <3>2. i + 1 \in 1..Len(list)
      BY <2>2, <3>1
    <3>3. i + 1 \in DOMAIN list
      BY <1>1, <3>2
    <3> QED
      BY <1>2, <2>2, <3>3 DEF Linked, ToSet
  <2> QED
    BY <2>1, <2>2
<1>4. ASSUME NEW f \in Linked, rank[f] < rank[e]
      PROVE  NextOf(e) \in Entry /\ From(rank, f, NextOf(e))
  <2> DEFINE j == PlaceOf(f)
  <2>1. f \in Entry /\ j \in 1..Len(list) /\ list[j] = f
    BY LinkedPlace
  <2> HIDE DEF j
  <2>2. rank[e] \in Nat /\ rank[f] \in Nat
    BY <1>1, <2>1 DEF Ranked
  <2>3. ~(j < i) /\ j # i
    BY <1>1, <1>4, <2>1, <2>2 DEF Ranked
  <2>4. i # Len(list) /\ i + 1 \in 1..Len(list) /\ (j = i + 1 \/ i + 1 < j)
    <3>1. i \in 1..Len(list) /\ j \in 1..Len(list) /\ Len(list) \in Nat
      BY <1>1, <2>1
    <3> QED
      BY <2>3, <3>1
  <2>5. NextOf(e) = list[i + 1]
    BY <1>2, <2>4
  <2>6. list[i + 1] \in Linked
    BY <1>1, <2>4 DEF Linked, ToSet
  <2>7. From(rank, f, list[i + 1])
    BY <1>1, <2>1, <2>4 DEF From, Ranked
  <2> QED
    BY <2>5, <2>6, <2>7, LinkedPlace
<1> QED
  BY <1>3, <1>4 DEF LeadsOn

\* next of an allocated entry.
LEMMA AfterFacts ==
  ASSUME TypeOK, CellsOK, PointersOK, NEW rank, NEW top, Ranked(rank, top), NEW e \in Alive
  PROVE  /\ After(e) \in Pointer
         /\ After(e) \in Entry => After(e) \in Alive
         /\ LeadsOn(rank, e, After(e))
<1>1. CASE e \in Linked
  <2>1. After(e) = NextOf(e)
    BY <1>1 DEF After, Linked
  <2>2. NextOf(e) \in Linked \cup {Null} /\ LeadsOn(rank, e, NextOf(e))
    BY <1>1, NextFacts
  <2>3. Linked \subseteq Entry
    BY LinkedPlace
  <2> QED
    BY <2>1, <2>2, <2>3, PathsApart DEF Pointer, Alive
<1>2. CASE e \notin Linked
  <2> DEFINE t == CHOOSE t \in App : app[t].pc = "free" /\ app[t].cell = e
  <2>1. After(e) = app[t].nxt
    BY <1>2 DEF After, Linked
  <2>2. \E u \in App : app[u].pc = "free" /\ app[u].cell = e
    BY <1>2 DEF Alive, Freeing
  <2>3. t \in Freeing /\ app[t].cell = e
    BY <2>2 DEF Freeing
  <2> HIDE DEF t
  <2>4. app[t].nxt \in Pointer
    BY <2>3 DEF TypeOK, CallState, Freeing
  <2>5. LeadsOn(rank, e, app[t].nxt)
    BY <2>3 DEF Ranked
  <2>6. app[t].nxt \in Entry => app[t].nxt \in Alive
    BY <2>3 DEF PointersOK
  <2> QED
    BY <2>1, <2>4, <2>5, <2>6
<1> QED
  BY <1>1, <1>2

\* The front of the list has all of it with or after it.
LEMMA HeadFacts ==
  ASSUME TypeOK, CellsOK, NEW rank, NEW top, Ranked(rank, top)
  PROVE  /\ Head1 \in Linked \cup {Null}
         /\ Head1 = Null => Linked = {}
         /\ Head1 \in Entry => \A f \in Linked : From(rank, f, Head1)
<1>1. CASE list = <<>>
  BY <1>1 DEF Head1, Linked, ToSet, PathsApart
<1>2. CASE list # <<>>
  <2>1. list \in Seq(Entry)
    BY DEF TypeOK
  <2>2. Len(list) \in Nat /\ Len(list) # 0 /\ DOMAIN list = 1..Len(list)
    BY <1>2, <2>1, EmptySeq
  <2>3. Head1 = list[1] /\ 1 \in DOMAIN list
    BY <1>2, <2>2 DEF Head1
  <2>4. Head1 \in Linked
    BY <2>3 DEF Linked, ToSet
  <2>5. Head1 # Null
    BY <2>4, LinkedPlace, PathsApart
  <2>6. ASSUME NEW f \in Linked PROVE From(rank, f, Head1)
    <3> DEFINE j == PlaceOf(f)
    <3>1. j \in 1..Len(list) /\ list[j] = f
      BY LinkedPlace
    <3> HIDE DEF j
    <3>2. j = 1 \/ 1 < j
      BY <2>2, <3>1
    <3> QED
      BY <2>2, <2>3, <3>1, <3>2 DEF From, Ranked
  <2> QED
    BY <2>4, <2>5, <2>6
<1> QED
  BY <1>1, <1>2

\* get_pointer_to_dir_entry_from_virtual_dir_name finds an entry of the name,
\* if there is one.
LEMMA EntryOfFacts ==
  ASSUME TypeOK, NEW n
  PROVE  \/ EntryOf(n) = Null /\ n \notin Mapped
         \/ EntryOf(n) \in Linked /\ EntryOf(n) \in Entry /\ EntryOf(n) # Null /\ ent[EntryOf(n)].name = n
<1> DEFINE hits == {i \in DOMAIN list : ent[list[i]].name = n}
<1>1. EntryOf(n) = IF hits = {} THEN Null ELSE list[CHOOSE i \in hits : \A j \in hits : i <= j]
  BY DEF EntryOf
<1>2. CASE hits = {}
  BY <1>1, <1>2 DEF Mapped, ToSet
<1>3. CASE hits # {}
  <2>1. hits \subseteq Nat
    BY DEF TypeOK
  <2> DEFINE k == CHOOSE i \in hits : \A j \in hits : i <= j
  <2> HIDE DEF hits
  <2>2. \E i \in hits : \A j \in hits : i <= j
    BY <1>3, <2>1, FirstPlace
  <2>3. k \in hits
    BY <2>2
  <2>4. EntryOf(n) = list[k]
    BY <1>1, <1>3
  <2> HIDE DEF k
  <2>5. k \in DOMAIN list /\ ent[list[k]].name = n
    BY <2>3 DEF hits
  <2>6. list[k] \in Linked
    BY <2>5 DEF Linked, ToSet
  <2> QED
    BY <2>4, <2>5, <2>6, LinkedPlace, PathsApart
<1> QED
  BY <1>2, <1>3

\* A translation is a local path, or there is none.
LEMMA LocalPathType ==
  ASSUME TypeOK, NEW p \in Paths \cup {Null}, NEW mem \in BOOLEAN
  PROVE  LocalPath(p, mem) \in Locals \cup {Null}
<1>1. EntryOf(p) = Null \/ EntryOf(p) \in Entry
  BY EntryOfFacts
<1> QED
  BY <1>1 DEF LocalPath, Locals, TypeOK

----------------------------------------------------------------------------
(* A step of one session. *)

\* The connector thread changes one session and what is held for it.
LEMMA SessionStep ==
  ASSUME Inv, NEW s \in Session, NEW y \in SessionState, NEW h \in SUBSET (Things \X Session),
         sess' = [sess EXCEPT ![s] = y], held' = h, ListKept, wrong' \in BOOLEAN,
         \A u \in Session \ {s}, k \in Things : <<k, u>> \in h <=> <<k, u>> \in held,
         Sound(y, {k \in Things : <<k, s>> \in h}),
         y.pos \in Entry => y.pos \in Alive,
         y.ctx /\ y.pos = Null => y.due \subseteq y.seen,
         \A rank, top : Ranked(rank, top) => Owes(rank, y)
  PROVE  Inv'
<1>1. sess \in [Session -> SessionState]
  BY DEF Inv, TypeOK
<1>2. sess'[s] = y /\ \A u \in Session \ {s} : sess'[u] = sess[u]
  BY <1>1
<1>3. TypeOK'
  <2>1. sess' \in [Session -> SessionState]
    BY <1>1
  <2> QED
    BY <2>1 DEF Inv, TypeOK, ListKept
<1>4. CellsOK' /\ Alive' = Alive /\ Linked' = Linked
  BY DEF Inv, CellsOK, Alive, Linked, Freeing, ListKept
<1>5. PointersOK'
  BY <1>2, <1>4 DEF Inv, PointersOK, Freeing, ListKept
<1>6. AddersOK' /\ NamesUnique'
  BY DEF Inv, AddersOK, Adding, Mapped, NamesUnique, ListKept
<1>7. SessionsOK'
  <2>1. ASSUME NEW u \in Session PROVE Sound(sess'[u], HeldOf(u)')
    <3>1. CASE u = s
      <4>1. HeldOf(u)' = {k \in Things : <<k, s>> \in h}
        BY <3>1 DEF HeldOf
      <4> QED
        BY <1>2, <3>1, <4>1
    <3>2. CASE u # s
      <4>1. HeldOf(u)' = HeldOf(u)
        BY <3>2 DEF HeldOf
      <4> QED
        BY <1>2, <3>2, <4>1 DEF Inv, SessionsOK
    <3> QED
      BY <3>1, <3>2
  <2> QED
    BY <2>1 DEF SessionsOK, Sound, NextRequests
<1>8. ListingIsComplete'
  BY <1>2 DEF Inv, ListingIsComplete
<1>9. PICK rank, top : Ranked(rank, top)
  BY DEF Inv
<1>10. Ranked(rank, top)'
  <2>1. \A u \in Session : Owes(rank, sess[u])'
    <3>1. \A u \in Session : Owes(rank, sess'[u])
      BY <1>2, <1>9 DEF Ranked
    <3> QED
      BY <1>4, <3>1 DEF Owes, ListKept
  <2>2. \A t \in App : Ahead(rank, t)'
    BY <1>4, <1>9 DEF Ranked, Ahead, ListKept
  <2>3. \A t \in Freeing' : LeadsOn(rank, app[t].cell, app[t].nxt)'
    BY <1>4, <1>9 DEF Ranked, LeadsOn, Freeing, ListKept
  <2> QED
    BY <1>9, <2>1, <2>2, <2>3 DEF Ranked, ListKept
<1> QED
  BY <1>3, <1>4, <1>5, <1>6, <1>7, <1>8, <1>10 DEF Inv

\* y lists the root where x does, or not at all.
Quiet(x, y) ==
  \/ y.ctx = x.ctx /\ y.pos = x.pos /\ y.due = x.due /\ y.seen = x.seen
  \/ y.ctx = FALSE /\ y.pos = Null

\* The same, when the root listing of the session does not move.
LEMMA QuietStep ==
  ASSUME Inv, NEW s \in Session, NEW y \in SessionState, NEW h \in SUBSET (Things \X Session),
         sess' = [sess EXCEPT ![s] = y], held' = h, ListKept, wrong' \in BOOLEAN,
         \A u \in Session \ {s}, k \in Things : <<k, u>> \in h <=> <<k, u>> \in held,
         Sound(y, {k \in Things : <<k, s>> \in h}),
         Quiet(sess[s], y)
  PROVE  Inv'
<1>1. y.pos \in Entry => y.pos \in Alive
  BY PathsApart DEF Inv, PointersOK, Quiet
<1>2. y.ctx /\ y.pos = Null => y.due \subseteq y.seen
  BY DEF Inv, ListingIsComplete, Quiet
<1>3. \A rank, top : Ranked(rank, top) => Owes(rank, y)
  BY DEF Ranked, Owes, Quiet
<1> QED
  BY <1>1, <1>2, <1>3, SessionStep

\* Memory was used that is not there: the service changes nothing.
LEMMA BrokenStep ==
  ASSUME Inv, NEW s \in Session, Broken
  PROVE  Inv'
<1>1. sess \in [Session -> SessionState]
  BY DEF Inv, TypeOK
<1>2. sess' = [sess EXCEPT ![s] = sess[s]] /\ held' = held /\ ListKept /\ wrong' \in BOOLEAN
  BY <1>1 DEF Broken
<1>3. Sound(sess[s], {k \in Things : <<k, s>> \in held})
  BY DEF Inv, SessionsOK, HeldOf
<1>4. held \in SUBSET (Things \X Session) /\ sess[s] \in SessionState
  BY <1>1 DEF Inv, TypeOK
<1>5. Quiet(sess[s], sess[s])
  BY DEF Quiet
<1> QED
  BY <1>2, <1>3, <1>4, <1>5, QuietStep

\* What a request says of the session it is made for.
LEMMA AskedFacts ==
  ASSUME Inv, NEW s \in Session, NEW r, Asked(s, r)
  PROVE  /\ sess[s] \in SessionState /\ held \in SUBSET (Things \X Session)
         /\ Sound(sess[s], HeldOf(s))
         /\ r \in NextRequests(sess[s])
  BY DEF Inv, TypeOK, SessionsOK, Asked, Sound

\* Answered BUSY.
LEMMA BusyStep ==
  ASSUME Inv, NEW s \in Session, NEW r \in Requests, Asked(s, r), Busy(s, r)
  PROVE  Inv'
<1> DEFINE x == sess[s]
           y == [x EXCEPT !.req = r]
<1>1. x \in SessionState /\ held \in SUBSET (Things \X Session)
      /\ Sound(x, HeldOf(s)) /\ r \in NextRequests(x)
  BY AskedFacts
<1>2. y \in SessionState
  BY <1>1 DEF SessionState
<1>3. Sound(y, HeldOf(s))
  <2> HIDE DEF x
  <2>1. r \in NextRequests(y)
    BY <1>1 DEF NextRequests, SessionState
  <2>2. x.err = Freed => r = "get_error"
    BY <1>1, PathsApart DEF NextRequests
  <2> QED
    BY <1>1, <2>1, <2>2 DEF Sound, SessionState
<1>4. Quiet(x, y)
  BY <1>1 DEF Quiet, SessionState
<1>5. wrong' \in BOOLEAN /\ sess' = [sess EXCEPT ![s] = y] /\ held' = held /\ ListKept
  BY DEF Busy, Inv, TypeOK
<1> QED
  BY <1>1, <1>2, <1>3, <1>4, <1>5, QuietStep DEF HeldOf

\* A session that is over has a record.
LEMMA OverTyped ==
  ASSUME NEW x \in SessionState
  PROVE  [x EXCEPT !.req = "none", !.ph = "over"] \in SessionState
  BY DEF SessionState

\* The record of a session that asks for a description again.
LEMMA AgainTyped ==
  ASSUME NEW x \in SessionState
  PROVE  [x EXCEPT !.err = Freed, !.req = "get_error"] \in SessionState
<1>1. "get_error" \in Requests
  BY DEF Requests
<1> QED
  BY <1>1 DEF SessionState

\* The record of a session whose request failed.
LEMMA ErrorTyped ==
  ASSUME NEW x \in SessionState, NEW why \in Causes, NEW mem \in BOOLEAN
  PROVE  /\ SetError(x, why, mem) \in SessionState
         /\ [SetError(x, why, mem) EXCEPT !.req = "none"] \in SessionState
         /\ [SetError(x, why, mem) EXCEPT !.req = "none", !.ph = "over"] \in SessionState
<1> DEFINE e == SetError(x, why, mem)
<1>1. e \in SessionState
  <2>1. CASE mem
    BY <2>1 DEF SetError, SessionState
  <2>2. CASE ~mem
    BY <2>2 DEF SetError, SessionState
  <2> QED
    BY <2>1, <2>2
<1> HIDE DEF e
<1>2. [e EXCEPT !.req = "none"] \in SessionState
  BY <1>1 DEF SessionState
<1>3. [e EXCEPT !.req = "none", !.ph = "over"] \in SessionState
  BY <1>1, OverTyped
<1> QED
  BY <1>1, <1>2, <1>3 DEF e

\* Answered with an error.
LEMMA FailStep ==
  ASSUME Inv, NEW s \in Session, NEW x \in SessionState, NEW why \in Causes, NEW mem \in BOOLEAN,
         Fail(s, x, why, mem), Sound(x, HeldOf(s)), x.err = Null, Quiet(sess[s], x)
  PROVE  Inv'
<1> DEFINE y == [SetError(x, why, mem) EXCEPT !.req = "none", !.ph = "over"]
           h == held \cup ErrorCell(s, mem)
<1>1. held \in SUBSET (Things \X Session)
  BY DEF Inv, TypeOK
<1>2. y \in SessionState
  BY ErrorTyped
<1>3. h \in SUBSET (Things \X Session)
      /\ \A u \in Session \ {s}, k \in Things : <<k, u>> \in h <=> <<k, u>> \in held
  BY <1>1 DEF ErrorCell, Things
<1>4. /\ y.req = "none" /\ y.ph = "over" /\ y.why = why /\ y.said = Null
      /\ y.err = (IF mem THEN why ELSE Null)
      /\ y.hnd = x.hnd /\ y.dirty = x.dirty /\ y.ctx = x.ctx /\ y.dir = x.dir
      /\ y.pos = x.pos /\ y.due = x.due /\ y.seen = x.seen
  BY DEF SetError, SessionState
<1>5. Sound(y, {k \in Things : <<k, s>> \in h})
  <2> DEFINE H == {k \in Things : <<k, s>> \in h}
  <2>1. \A k \in H : k \in HeldOf(s) \/ (mem /\ k = "error")
    BY DEF HeldOf, ErrorCell
  <2>2. HeldOf(s) \subseteq H
    BY DEF HeldOf
  <2>3. Null \notin Causes /\ Freed \notin Causes /\ Null # Freed
    BY PathsApart DEF Freed, Causes
  <2> HIDE DEF y, h, H
  <2>4. "error" \notin HeldOf(s)
    BY <2>3 DEF Sound
  <2> QED
    BY <1>4, <2>1, <2>2, <2>3, <2>4 DEF Sound, H
<1>6. Quiet(sess[s], y)
  BY <1>4 DEF Quiet
<1>7. wrong' \in BOOLEAN /\ sess' = [sess EXCEPT ![s] = y] /\ held' = h /\ ListKept
  BY DEF Fail, Inv, TypeOK
<1> HIDE DEF y, h
<1> QED
  BY <1>2, <1>3, <1>5, <1>6, <1>7, QuietStep

\* Answered OK; h is held from now on.
LEMMA DoneStep ==
  ASSUME Inv, NEW s \in Session, NEW x \in SessionState, NEW h \in SUBSET (Things \X Session),
         Done(s, x, h),
         \A u \in Session \ {s}, k \in Things : <<k, u>> \in h <=> <<k, u>> \in held,
         Sound([x EXCEPT !.req = "none"], {k \in Things : <<k, s>> \in h}),
         Quiet(sess[s], x)
  PROVE  Inv'
<1> DEFINE y == [x EXCEPT !.req = "none"]
<1>1. y \in SessionState /\ y.ctx = x.ctx /\ y.pos = x.pos /\ y.due = x.due /\ y.seen = x.seen
  BY DEF SessionState
<1>2. Quiet(sess[s], y)
  BY <1>1 DEF Quiet
<1>3. wrong' \in BOOLEAN /\ sess' = [sess EXCEPT ![s] = y] /\ held' = h /\ ListKept
  BY DEF Done, Inv, TypeOK
<1> HIDE DEF y
<1>4. Sound(y, {k \in Things : <<k, s>> \in h})
  BY DEF y
<1> QED
  BY <1>1, <1>2, <1>3, <1>4, QuietStep

\* ... with nothing obtained or released.
LEMMA DoneKeeps ==
  ASSUME Inv, NEW s \in Session, NEW x \in SessionState, Done(s, x, held),
         Sound([x EXCEPT !.req = "none"], HeldOf(s)), Quiet(sess[s], x)
  PROVE  Inv'
<1>1. held \in SUBSET (Things \X Session)
  BY DEF Inv, TypeOK
<1> QED
  BY <1>1, DoneStep DEF HeldOf

\* Where CCFSM is when it asks.
LEMMA RequestFacts ==
  ASSUME NEW x \in SessionState, NEW r, r \in NextRequests(x)
  PROVE  /\ r # "get_error" => x.err = Null
         /\ r = "get_error" => x.err # Null
         /\ r \in {"open", "remove", "stat"} => x.ph = "new"
         /\ r \in {"read", "lseek", "write", "ftruncate"} => x.ph = "file"
         /\ r \in {"write", "ftruncate"} => x.kind # "READ"
         /\ r = "close" => x.ph = "file" \/ (x.ph = "over" /\ x.hnd # NoHandle)
         /\ r = "opendir" => x.ph = "stat"
         /\ r = "hash" => x.ph \in {"stat", "dir"} /\ ~x.ctx
         /\ r \in {"readdir", "stat_dir_entry"} => x.ph = "dir"
         /\ r = "closedir" => x.ph = "dir" \/ (x.ph = "over" /\ x.hnd = NoHandle /\ (x.dir \/ x.ctx))
         /\ r = "session_error" => x.ph \in {"file", "dir"}
<1>1. CASE x.err # Null
  BY <1>1 DEF NextRequests
<1>2. CASE x.err = Null
  <2>1. r \in CASE x.ph = "new"  -> {"open", "remove", "stat"}
               [] x.ph = "file" -> {"read", "lseek", "close", "session_error"}
                                     \cup IF x.kind = "READ" THEN {} ELSE {"write", "ftruncate"}
               [] x.ph = "stat" -> {"opendir"} \cup IF x.ctx THEN {} ELSE {"hash"}
               [] x.ph = "dir"  -> {"readdir", "stat_dir_entry", "closedir", "session_error"}
                                     \cup IF x.ctx THEN {} ELSE {"hash"}
               [] x.ph = "over" -> IF x.hnd # NoHandle THEN {"close"}
                                   ELSE IF x.dir \/ x.ctx THEN {"closedir"} ELSE {}
               [] OTHER -> {}
    BY <1>2 DEF NextRequests
  <2>2. CASE x.ph = "new"
    BY <1>2, <2>1, <2>2
  <2>3. CASE x.ph = "file"
    BY <1>2, <2>1, <2>3
  <2>4. CASE x.ph = "stat"
    BY <1>2, <2>1, <2>4
  <2>5. CASE x.ph = "dir"
    BY <1>2, <2>1, <2>5
  <2>6. CASE x.ph = "over"
    BY <1>2, <2>1, <2>6
  <2>7. CASE x.ph = "idle"
    BY <1>2, <2>1, <2>7
  <2> QED
    BY <2>2, <2>3, <2>4, <2>5, <2>6, <2>7 DEF SessionState
<1> QED
  BY <1>1, <1>2

----------------------------------------------------------------------------
(* The callbacks. *)

\* A request fails for one of the causes, and nothing else has changed.
LEMMA FailSame ==
  ASSUME Inv, NEW s \in Session, NEW r, Asked(s, r), r # "get_error",
         NEW why \in Causes, NEW mem \in BOOLEAN, Fail(s, sess[s], why, mem)
  PROVE  Inv'
<1>1. sess[s] \in SessionState /\ Sound(sess[s], HeldOf(s)) /\ r \in NextRequests(sess[s])
  BY AskedFacts
<1>2. sess[s].err = Null
  BY <1>1, RequestFacts
<1>3. Quiet(sess[s], sess[s])
  BY DEF Quiet
<1> QED
  BY <1>1, <1>2, <1>3, FailStep

\* The path of a request has no translation, or is denied: the request fails.
LEMMA PathStep ==
  ASSUME Inv, NEW s \in Session, NEW r, Asked(s, r), r # "get_error",
         NEW mem \in BOOLEAN, NEW emem \in BOOLEAN,
         PathFails(s, mem, emem) \/ Denied(s, mem, emem)
  PROVE  Inv'
<1>1. "path" \in Causes /\ "denied" \in Causes
  BY DEF Causes
<1>2. CASE PathFails(s, mem, emem)
  BY <1>1, <1>2, FailSame DEF PathFails
<1>3. CASE Denied(s, mem, emem)
  BY <1>1, <1>3, FailSame DEF Denied
<1> QED
  BY <1>2, <1>3

\* OK changes nothing but that the request is no longer pending.
LEMMA DoneSame ==
  ASSUME Inv, NEW s \in Session, NEW r, Asked(s, r), r # "get_error", Done(s, sess[s], held)
  PROVE  Inv'
<1> DEFINE x == sess[s]
           y == [x EXCEPT !.req = "none"]
<1>1. x \in SessionState /\ Sound(x, HeldOf(s)) /\ r \in NextRequests(x)
  BY AskedFacts
<1>2. x.err = Null
  BY <1>1, RequestFacts
<1>3. Quiet(sess[s], x)
  BY DEF Quiet
<1>4. Sound(y, HeldOf(s))
  <2> HIDE DEF x
  <2> QED
    BY <1>1, <1>2, PathsApart DEF Sound, SessionState
<1> QED
  BY <1>1, <1>3, <1>4, DoneKeeps

\* The session has nothing left to ask for but to close what is open.
LEMMA DoneOver ==
  ASSUME Inv, NEW s \in Session, NEW r, Asked(s, r), r # "get_error",
         Done(s, [sess[s] EXCEPT !.ph = "over"], held)
  PROVE  Inv'
<1> DEFINE x == sess[s]
           z == [x EXCEPT !.ph = "over"]
           y == [z EXCEPT !.req = "none"]
<1>1. x \in SessionState /\ Sound(x, HeldOf(s)) /\ r \in NextRequests(x)
  BY AskedFacts
<1>2. x.err = Null
  BY <1>1, RequestFacts
<1>3. z \in SessionState
  BY <1>1 DEF SessionState
<1>4. Quiet(x, z)
  BY <1>1 DEF Quiet, SessionState
<1>5. Sound(y, HeldOf(s))
  <2> HIDE DEF x
  <2> QED
    BY <1>1, <1>2, PathsApart DEF Sound, SessionState
<1> HIDE DEF z, y
<1>6. Done(s, z, held) /\ Sound([z EXCEPT !.req = "none"], HeldOf(s))
  BY <1>5 DEF z, y
<1> QED
  BY <1>3, <1>4, <1>6, DoneKeeps

\* What was open is closed, and the platform reports an error.
LEMMA ErrorStep ==
  ASSUME Inv, NEW s \in Session, NEW y \in SessionState, NEW h \in SUBSET (Things \X Session),
         NEW mem \in BOOLEAN,
         sess' = [sess EXCEPT ![s] = SetError(y, "platform", mem)],
         held' = h \cup ErrorCell(s, mem), ListKept, wrong' \in BOOLEAN,
         \A u \in Session \ {s}, k \in Things : <<k, u>> \in h <=> <<k, u>> \in held,
         \A k \in Things : <<k, s>> \notin h,
         y.req = "none", y.ph = "over", y.hnd = NoHandle, ~y.ctx, ~y.dir, y.dirty = Null,
         Quiet(sess[s], y)
  PROVE  Inv'
<1> DEFINE z == SetError(y, "platform", mem)
           g == h \cup ErrorCell(s, mem)
<1>1. "platform" \in Causes
  BY DEF Causes
<1>2. z \in SessionState
  BY <1>1, ErrorTyped
<1>3. /\ z.req = "none" /\ z.ph = "over" /\ z.why = "platform" /\ z.said = Null
      /\ z.err = (IF mem THEN "platform" ELSE Null)
      /\ z.hnd = NoHandle /\ z.dirty = Null /\ ~z.ctx /\ ~z.dir
      /\ z.ctx = y.ctx /\ z.pos = y.pos /\ z.due = y.due /\ z.seen = y.seen
  BY DEF SetError, SessionState
<1> HIDE DEF z
<1>4. g \in SUBSET (Things \X Session)
      /\ \A u \in Session \ {s}, k \in Things : <<k, u>> \in g <=> <<k, u>> \in held
  BY DEF ErrorCell, Things
<1>5. \A k \in Things : <<k, s>> \in g => mem /\ k = "error"
  BY DEF ErrorCell
<1>6. Null \notin Causes /\ Freed \notin Causes /\ Null # Freed
  BY PathsApart DEF Freed, Causes
<1> HIDE DEF g
<1>7. Sound(z, {k \in Things : <<k, s>> \in g})
  BY <1>1, <1>3, <1>5, <1>6 DEF Sound
<1>8. Quiet(sess[s], z)
  BY <1>3 DEF Quiet
<1> QED
  BY <1>2, <1>4, <1>7, <1>8, QuietStep DEF z, g

\* ccapi_fs_file_open
LEMMA FileOpenStep ==
  ASSUME Inv, NEW s \in Session, FileOpen(s)
  PROVE  Inv'
<1> DEFINE x == sess[s]
<1>1. Asked(s, "open")
  BY DEF FileOpen
<1>2. /\ x \in SessionState /\ held \in SUBSET (Things \X Session)
      /\ Sound(x, HeldOf(s)) /\ "open" \in NextRequests(x)
  BY <1>1, AskedFacts
<1>3. x.err = Null /\ x.ph = "new"
  BY <1>2, RequestFacts
<1>4. PICK mem \in BOOLEAN, emem \in BOOLEAN, kind \in Kinds :
        \/ PathFails(s, mem, emem)
        \/ Denied(s, mem, emem)
        \/ /\ LocalPath(x.path, mem) # Null
           /\ \/ /\ sess' = [sess EXCEPT ![s] = [x EXCEPT !.req = "open", !.kind = kind]]
                 /\ UNCHANGED <<held, wrong>> /\ ListKept
              \/ Fail(s, x, "platform", emem)
              \/ Opened(s, LocalPath(x.path, mem), kind, emem)
  BY DEF FileOpen
<1>5. CASE PathFails(s, mem, emem) \/ Denied(s, mem, emem)
  BY <1>1, <1>5, PathStep
<1>6. CASE Fail(s, x, "platform", emem)
  <2>1. "platform" \in Causes
    BY DEF Causes
  <2> QED
    BY <1>1, <1>6, <2>1, FailSame
<1>7. CASE /\ sess' = [sess EXCEPT ![s] = [x EXCEPT !.req = "open", !.kind = kind]]
           /\ UNCHANGED <<held, wrong>> /\ ListKept
  <2> DEFINE y == [x EXCEPT !.req = "open", !.kind = kind]
  <2>1. y \in SessionState
    <3>1. "open" \in Requests
      BY DEF Requests
    <3> QED
      BY <1>2, <3>1 DEF SessionState
  <2>2. Quiet(x, y)
    BY <1>2 DEF SessionState, Quiet
  <2>3. Sound(y, HeldOf(s))
    <3> HIDE DEF x
    <3>1. y.ph = "new" /\ y.err = Null /\ y.req = "open" /\ y.why = x.why /\ y.said = x.said
          /\ y.hnd = x.hnd /\ y.dirty = x.dirty /\ y.ctx = x.ctx /\ y.dir = x.dir
      BY <1>2, <1>3 DEF SessionState
    <3> HIDE DEF y
    <3>2. "open" \in NextRequests(y)
      BY <3>1 DEF NextRequests
    <3>3. Null # Freed /\ Null \notin Causes
      BY PathsApart
    <3> QED
      BY <1>2, <1>3, <3>1, <3>2, <3>3 DEF Sound
  <2> HIDE DEF y
  <2>4. wrong' \in BOOLEAN /\ sess' = [sess EXCEPT ![s] = y] /\ held' = held /\ ListKept
    BY <1>7 DEF Inv, TypeOK, y
  <2> QED
    BY <1>2, <2>1, <2>2, <2>3, <2>4, QuietStep DEF HeldOf
<1>8. CASE LocalPath(x.path, mem) # Null /\ Opened(s, LocalPath(x.path, mem), kind, emem)
  <2> DEFINE loc == LocalPath(x.path, mem)
  <2>1. CASE Broken
    BY <2>1, BrokenStep
  <2>2. CASE \E trunc \in BOOLEAN :
               /\ trunc => kind # "READ"
               /\ Done(s, [x EXCEPT !.ph = "file", !.kind = kind, !.hnd = [loc |-> loc, kind |-> kind],
                             !.dirty = IF trunc THEN loc ELSE Null],
                       held \cup {<<"handle", s>>, <<"file", s>>})
    <3>1. PICK trunc \in BOOLEAN :
               /\ trunc => kind # "READ"
               /\ Done(s, [x EXCEPT !.ph = "file", !.kind = kind, !.hnd = [loc |-> loc, kind |-> kind],
                             !.dirty = IF trunc THEN loc ELSE Null],
                       held \cup {<<"handle", s>>, <<"file", s>>})
      BY <2>2
    <3>2. loc \in Locals \cup {Null} /\ loc # Null
      <4>1. x.path \in Paths \cup {Null}
        BY <1>2 DEF SessionState
      <4> QED
        BY <1>8, <4>1, LocalPathType DEF Inv
    <3> HIDE DEF x, loc
    <3> DEFINE fh == [loc |-> loc, kind |-> kind]
               d == IF trunc THEN loc ELSE Null
               z == [x EXCEPT !.ph = "file", !.kind = kind, !.hnd = fh, !.dirty = d]
               y == [z EXCEPT !.req = "none"]
               h == held \cup {<<"handle", s>>, <<"file", s>>}
    <3>3. fh \in FileHandle /\ fh # NoHandle /\ fh.loc = loc /\ fh.kind = kind
      BY <3>2 DEF FileHandle, NoHandle
    <3>4. d \in Locals \cup {Null} /\ (d # Null => d = loc /\ kind # "READ")
      BY <3>1, <3>2
    <3> HIDE DEF fh, d
    <3>5. z \in SessionState /\ z.ctx = x.ctx /\ z.pos = x.pos /\ z.due = x.due /\ z.seen = x.seen
      BY <1>2, <3>3, <3>4 DEF SessionState
    <3>6. Quiet(x, z)
      BY <3>5 DEF Quiet
    <3>7. h \in SUBSET (Things \X Session)
          /\ \A u \in Session \ {s}, k \in Things : <<k, u>> \in h <=> <<k, u>> \in held
      BY <1>2 DEF Things
    <3>8. /\ y.req = "none" /\ y.ph = "file" /\ y.kind = kind /\ y.hnd = fh /\ y.dirty = d
          /\ y.err = x.err /\ y.why = x.why /\ y.said = x.said /\ y.ctx = x.ctx /\ y.dir = x.dir
      BY <1>2 DEF SessionState
    <3>9. Sound(y, {k \in Things : <<k, s>> \in h})
      <4> DEFINE H == {k \in Things : <<k, s>> \in h}
      <4>1. "file" \in H /\ \A k \in H : k \in HeldOf(s) \/ k \in {"handle", "file"}
        BY DEF HeldOf, Things
      <4> HIDE DEF y, H
      <4>2. Null # Freed /\ Null \notin Causes
        BY PathsApart
      <4>3. ~x.ctx /\ ~x.dir
        BY <1>2, <1>3 DEF Sound, SessionState
      <4> QED
        BY <1>2, <1>3, <3>2, <3>3, <3>4, <3>8, <4>1, <4>2, <4>3 DEF Sound, H
    <3>10. Done(s, z, h)
      BY <3>1 DEF fh, d
    <3> HIDE DEF h, z
    <3> QED
      BY <3>5, <3>6, <3>7, <3>9, <3>10, DoneStep DEF x
  <2> QED
    BY <1>8, <2>1, <2>2 DEF Opened
<1> QED
  BY <1>4, <1>5, <1>6, <1>7, <1>8

\* ccapi_fs_file_read, ccapi_fs_file_seek
LEMMA PassOnStep ==
  ASSUME Inv, NEW s \in Session, NEW r \in Requests, r # "get_error", PassOn(s, r)
  PROVE  Inv'
<1>1. Asked(s, r)
  BY DEF PassOn
<1>2. CASE Busy(s, r)
  BY <1>1, <1>2, BusyStep
<1>3. CASE \E emem \in BOOLEAN : Fail(s, sess[s], "platform", emem)
  <2>1. "platform" \in Causes
    BY DEF Causes
  <2> QED
    BY <1>1, <1>3, <2>1, FailSame
<1>4. CASE Done(s, sess[s], held)
  BY <1>1, <1>4, DoneSame
<1> QED
  BY <1>2, <1>3, <1>4 DEF PassOn

\* A write that fails may have changed the file all the same.
LEMMA AlterStep ==
  ASSUME Inv, NEW s \in Session, NEW r \in {"write", "ftruncate"}, Alter(s, r)
  PROVE  Inv'
<1> DEFINE x == sess[s]
           z == [x EXCEPT !.dirty = x.hnd.loc]
           y == [z EXCEPT !.req = "none"]
<1>1. Asked(s, r) /\ r \in Requests /\ r # "get_error"
  BY DEF Alter, Requests
<1>2. x \in SessionState /\ Sound(x, HeldOf(s)) /\ r \in NextRequests(x)
  BY <1>1, AskedFacts
<1>3. x.err = Null /\ x.ph = "file" /\ x.kind # "READ"
  BY <1>2, RequestFacts
<1>4. x.hnd # NoHandle /\ x.hnd.kind # "READ" /\ x.hnd \in FileHandle
  BY <1>2, <1>3 DEF Sound, SessionState
<1>5. x.hnd.loc \in Locals
  BY <1>4 DEF FileHandle
<1> HIDE DEF x
<1>6. /\ z \in SessionState /\ z.err = Null /\ z.ph = "file" /\ z.req = x.req /\ z.why = x.why
      /\ z.said = x.said /\ z.hnd = x.hnd /\ z.kind = x.kind /\ z.dir = x.dir /\ z.dirty = x.hnd.loc
      /\ z.ctx = x.ctx /\ z.pos = x.pos /\ z.due = x.due /\ z.seen = x.seen
  BY <1>2, <1>3, <1>5 DEF SessionState
<1>7. /\ y.req = "none" /\ y.err = Null /\ y.ph = "file" /\ y.why = x.why
      /\ y.said = x.said /\ y.hnd = x.hnd /\ y.kind = x.kind /\ y.dir = x.dir /\ y.dirty = x.hnd.loc
      /\ y.ctx = x.ctx
  BY <1>2, <1>3, <1>5 DEF SessionState
<1>8. Quiet(x, z)
  BY <1>6 DEF Quiet
<1>9. NextRequests(z) = NextRequests(x)
  BY <1>3, <1>6 DEF NextRequests
<1>10. CASE Busy(s, r)
  BY <1>1, <1>10, BusyStep
<1>11. CASE \E emem \in BOOLEAN : Fail(s, z, "platform", emem)
  <2>1. "platform" \in Causes
    BY DEF Causes
  <2> HIDE DEF z, y
  <2>2. Sound(z, HeldOf(s))
    BY <1>2, <1>3, <1>4, <1>6, <1>9 DEF Sound
  <2> QED
    BY <1>6, <1>8, <1>11, <2>1, <2>2, FailStep DEF x
<1>12. CASE Done(s, z, held)
  <2> HIDE DEF z
  <2>1. Sound(y, HeldOf(s))
    <3> HIDE DEF y
    <3>1. Null # Freed /\ Null \notin Causes
      BY PathsApart
    <3> QED
      BY <1>2, <1>3, <1>4, <1>7, <3>1 DEF Sound
  <2> QED
    BY <1>6, <1>8, <1>12, <2>1, DoneKeeps DEF x
<1> QED
  BY <1>10, <1>11, <1>12 DEF Alter, x

\* The handle is freed, and the application told, unless the platform is busy.
LEMMA FileCloseStep ==
  ASSUME Inv, NEW s \in Session, FileClose(s)
  PROVE  Inv'
<1> DEFINE w == sess[s]
           x == Reported(w)
           y == [x EXCEPT !.hnd = NoHandle, !.ph = "over", !.req = "none"]
           left == held \ {<<"handle", s>>, <<"file", s>>}
<1>1. Asked(s, "close")
  BY DEF FileClose
<1>2. /\ w \in SessionState /\ held \in SUBSET (Things \X Session)
      /\ Sound(w, HeldOf(s)) /\ "close" \in NextRequests(w)
  BY <1>1, AskedFacts
<1> HIDE DEF w
<1>3. w.err = Null /\ w.hnd # NoHandle /\ ~w.ctx /\ ~w.dir /\ w.ph \in {"file", "over"}
  BY <1>2, RequestFacts DEF Sound
<1>4. /\ x \in SessionState /\ x.dirty = Null /\ x.err = Null /\ x.ph = w.ph /\ x.req = w.req
      /\ x.why = w.why /\ x.said = w.said /\ x.hnd = w.hnd /\ x.kind = w.kind /\ x.dir = w.dir
      /\ x.ctx = w.ctx /\ x.pos = w.pos /\ x.due = w.due /\ x.seen = w.seen
  <2>1. w.hnd \in FileHandle
    BY <1>2, <1>3 DEF SessionState
  <2>2. w.hnd.kind \in Kinds
    BY <2>1 DEF FileHandle
  <2>3. w.dirty # Null => w.hnd.kind \in {"WRITE", "READWRITE"} /\ w.dirty = w.hnd.loc
    BY <1>2, <2>2 DEF Sound, Kinds
  <2>4. (x = w /\ w.dirty = Null) \/ x = [w EXCEPT !.dirty = Null]
    BY <2>3 DEF Reported
  <2> QED
    BY <1>2, <1>3, <2>4 DEF SessionState
<1> HIDE DEF x
<1>5. /\ y \in SessionState /\ y.hnd = NoHandle /\ y.ph = "over" /\ y.req = "none" /\ y.dirty = Null
      /\ y.err = Null /\ y.why = w.why /\ y.said = w.said /\ ~y.dir /\ ~y.ctx
      /\ y.pos = w.pos /\ y.due = w.due /\ y.seen = w.seen
  BY <1>3, <1>4 DEF SessionState
<1> HIDE DEF y
<1>6. Quiet(w, x) /\ Quiet(w, y)
  BY <1>3, <1>4, <1>5 DEF Quiet, SessionState
<1>7. Null # Freed /\ Null \notin Causes /\ Freed \notin Causes
  BY PathsApart DEF Freed, Causes
<1>8. "error" \notin HeldOf(s) /\ "listing" \notin HeldOf(s) /\ "dir" \notin HeldOf(s)
  BY <1>2, <1>3, <1>7 DEF Sound
<1>9. left \in SUBSET (Things \X Session)
      /\ \A u \in Session \ {s}, k \in Things : <<k, u>> \in left <=> <<k, u>> \in held
  BY <1>2
<1>10. \A k \in Things : <<k, s>> \notin left
  BY <1>8 DEF Things, HeldOf
<1>11. wrong' \in BOOLEAN /\ ListKept
  BY DEF FileClose, Inv, TypeOK, Done, Fail
<1>12. PICK st \in Status :
        \/ /\ st = "BUSY"
           /\ sess' = [sess EXCEPT ![s] = [x EXCEPT !.req = "close"]]
           /\ UNCHANGED <<held, wrong>> /\ ListKept
        \/ /\ st = "OK"
           /\ Done(s, y, left)
        \/ /\ st = "ERROR"
           /\ \E emem \in BOOLEAN :
                /\ sess' = [sess EXCEPT ![s] = SetError(y, "platform", emem)]
                /\ held' = left \cup ErrorCell(s, emem)
                /\ UNCHANGED wrong /\ ListKept
  BY DEF FileClose, x, y, w
<1>13. CASE /\ sess' = [sess EXCEPT ![s] = [x EXCEPT !.req = "close"]]
            /\ UNCHANGED <<held, wrong>> /\ ListKept
  <2> DEFINE b == [x EXCEPT !.req = "close"]
  <2>1. /\ b.dirty = Null /\ b.err = Null /\ b.ph = w.ph /\ b.req = "close"
        /\ b.why = w.why /\ b.said = w.said /\ b.hnd = w.hnd /\ b.kind = w.kind /\ b.dir = w.dir
        /\ b.ctx = w.ctx /\ b.pos = w.pos /\ b.due = w.due /\ b.seen = w.seen
    BY <1>4 DEF SessionState
  <2>2. b \in SessionState
    <3>1. "close" \in Requests
      BY DEF Requests
    <3> QED
      BY <1>4, <3>1 DEF SessionState
  <2> HIDE DEF b
  <2>3. Quiet(w, b)
    BY <2>1 DEF Quiet
  <2>4. "close" \in NextRequests(b)
    BY <1>3, <2>1 DEF NextRequests
  <2>5. Sound(b, HeldOf(s))
    BY <1>2, <1>3, <1>7, <2>1, <2>4 DEF Sound
  <2>6. sess' = [sess EXCEPT ![s] = b] /\ held' = held
    BY <1>13 DEF b
  <2> QED
    BY <1>2, <1>11, <2>2, <2>3, <2>5, <2>6, QuietStep DEF HeldOf, w
<1>14. CASE Done(s, y, left)
  <2> DEFINE b == [y EXCEPT !.req = "none"]
  <2>1. b = y
    BY <1>5 DEF SessionState
  <2>2. Sound(y, {k \in Things : <<k, s>> \in left})
    BY <1>2, <1>5, <1>7, <1>10 DEF Sound
  <2> HIDE DEF left
  <2> QED
    BY <1>5, <1>6, <1>9, <1>14, <2>1, <2>2, DoneStep DEF w
<1>15. CASE \E emem \in BOOLEAN :
              /\ sess' = [sess EXCEPT ![s] = SetError(y, "platform", emem)]
              /\ held' = left \cup ErrorCell(s, emem)
              /\ UNCHANGED wrong /\ ListKept
  <2>1. PICK emem \in BOOLEAN :
              /\ sess' = [sess EXCEPT ![s] = SetError(y, "platform", emem)]
              /\ held' = left \cup ErrorCell(s, emem)
    BY <1>15
  <2> QED
    BY <1>5, <1>6, <1>9, <1>10, <1>11, <2>1, ErrorStep DEF w
<1> QED
  BY <1>12, <1>13, <1>14, <1>15

\* ccapi_fs_file_remove
LEMMA FileRemoveStep ==
  ASSUME Inv, NEW s \in Session, FileRemove(s)
  PROVE  Inv'
<1>1. Asked(s, "remove") /\ "remove" \in Requests
  BY DEF FileRemove, Requests
<1>2. PICK mem \in BOOLEAN, emem \in BOOLEAN :
        \/ PathFails(s, mem, emem)
        \/ Denied(s, mem, emem)
        \/ Busy(s, "remove")
        \/ Fail(s, sess[s], "platform", emem)
        \/ Done(s, [sess[s] EXCEPT !.ph = "over"], held)
  BY DEF FileRemove
<1>3. "platform" \in Causes
  BY DEF Causes
<1> QED
  BY <1>1, <1>2, <1>3, PathStep, BusyStep, FailSame, DoneOver

\* A session that is asked for the status of its path, and answered.
LEMMA NewStat ==
  ASSUME Inv, NEW s \in Session, Asked(s, "stat"), Done(s, [sess[s] EXCEPT !.ph = "stat"], held)
  PROVE  Inv'
<1> DEFINE x == sess[s]
           z == [x EXCEPT !.ph = "stat"]
           y == [z EXCEPT !.req = "none"]
<1>1. x \in SessionState /\ Sound(x, HeldOf(s)) /\ "stat" \in NextRequests(x)
  BY AskedFacts
<1>2. x.err = Null /\ x.ph = "new"
  BY <1>1, RequestFacts
<1>3. Null # Freed /\ Null \notin Causes
  BY PathsApart
<1> HIDE DEF x
<1>4. /\ z \in SessionState
      /\ z.ctx = x.ctx /\ z.pos = x.pos /\ z.due = x.due /\ z.seen = x.seen
  BY <1>1 DEF SessionState
<1>5. /\ y.req = "none" /\ y.ph = "stat" /\ y.err = Null /\ y.why = x.why /\ y.said = x.said
      /\ y.hnd = x.hnd /\ y.dirty = x.dirty /\ y.ctx = x.ctx /\ y.dir = x.dir
  BY <1>1, <1>2 DEF SessionState
<1>6. Quiet(x, z)
  BY <1>4 DEF Quiet
<1>7. Sound(y, HeldOf(s))
  <2> HIDE DEF y
  <2>1. x.hnd = NoHandle /\ ~x.ctx /\ ~x.dir /\ x.dirty = Null
    BY <1>1, <1>2 DEF Sound, SessionState
  <2> QED
    BY <1>1, <1>2, <1>3, <1>5, <2>1 DEF Sound
<1>8. Done(s, z, held) /\ Sound([z EXCEPT !.req = "none"], HeldOf(s))
  BY <1>7 DEF x
<1> HIDE DEF z, y
<1> QED
  BY <1>4, <1>6, <1>8, DoneKeeps DEF x

\* The listing of the root begins with every entry ahead of it.
LEMMA RootStatusStep ==
  ASSUME Inv, NEW s \in Session, Asked(s, "stat"), NEW mem \in BOOLEAN, RootStatus(s, mem)
  PROVE  Inv'
<1> DEFINE x == sess[s]
           z == [x EXCEPT !.ph = "stat", !.ctx = TRUE, !.pos = Head1, !.due = Mapped]
           y == [z EXCEPT !.req = "none"]
           h == held \cup {<<"listing", s>>}
<1>1. /\ x \in SessionState /\ held \in SUBSET (Things \X Session)
      /\ Sound(x, HeldOf(s)) /\ "stat" \in NextRequests(x)
  BY AskedFacts
<1>2. x.err = Null /\ x.ph = "new"
  BY <1>1, RequestFacts
<1>3. CASE ~mem
  BY <1>3, DoneOver DEF RootStatus
<1>4. CASE mem
  <2>1. Done(s, z, h)
    BY <1>4 DEF RootStatus
  <2> HIDE DEF x
  <2>2. PICK rank, top : Ranked(rank, top)
    BY DEF Inv
  <2>3. Head1 \in Linked \cup {Null} /\ (Head1 = Null => Linked = {})
    BY <2>2, HeadFacts DEF Inv
  <2>4. Linked \subseteq Entry
    BY LinkedPlace DEF Inv
  <2>5. Head1 \in Pointer /\ (Head1 \in Entry => Head1 \in Alive)
    BY <2>3, <2>4, PathsApart DEF Pointer, Alive
  <2>6. Mapped \in SUBSET VDir
    BY DEF Mapped, Linked, Inv, CellsOK
  <2>7. y \in SessionState
    BY <1>1, <2>5, <2>6 DEF SessionState
  <2>8. /\ y.req = "none" /\ y.ph = "stat" /\ y.err = Null /\ y.why = x.why /\ y.said = x.said
        /\ y.hnd = x.hnd /\ y.dirty = x.dirty /\ y.ctx /\ y.dir = x.dir
        /\ y.pos = Head1 /\ y.due = Mapped /\ y.seen = x.seen
    BY <1>1, <1>2 DEF SessionState
  <2> HIDE DEF y
  <2>9. h \in SUBSET (Things \X Session)
        /\ \A u \in Session \ {s}, k \in Things : <<k, u>> \in h <=> <<k, u>> \in held
    BY <1>1 DEF Things
  <2>10. Sound(y, {k \in Things : <<k, s>> \in h})
    <3>1. x.hnd = NoHandle /\ ~x.ctx /\ ~x.dir /\ x.dirty = Null
      BY <1>1, <1>2 DEF Sound, SessionState
    <3>2. Null # Freed /\ Null \notin Causes
      BY PathsApart
    <3>3. \A k \in {k \in Things : <<k, s>> \in h} : k \in HeldOf(s) \/ k = "listing"
      BY DEF HeldOf
    <3> HIDE DEF h
    <3> QED
      BY <1>1, <1>2, <2>8, <3>1, <3>2, <3>3 DEF Sound
  <2>11. y.pos = Null => y.due \subseteq y.seen
    BY <2>3, <2>8 DEF Mapped, Linked
  <2>12. ASSUME NEW rk, NEW tp, Ranked(rk, tp) PROVE Owes(rk, y)
    <3>1. Head1 \in Entry => \A f \in Linked : From(rk, f, Head1)
      BY <2>12, HeadFacts DEF Inv
    <3>2. \A n \in Mapped : \E f \in Linked : ent[f].name = n
      BY DEF Mapped, Linked
    <3> QED
      BY <2>8, <3>1, <3>2 DEF Owes
  <2>13. sess' = [sess EXCEPT ![s] = y] /\ held' = h /\ ListKept /\ wrong' \in BOOLEAN
    BY <2>1 DEF Done, Inv, TypeOK, y
  <2> HIDE DEF h
  <2> QED
    BY <2>5, <2>7, <2>8, <2>9, <2>10, <2>11, <2>12, <2>13, SessionStep
<1> QED
  BY <1>3, <1>4

\* ccapi_fs_hash_status
LEMMA HashStatusStep ==
  ASSUME Inv, NEW s \in Session, HashStatus(s)
  PROVE  Inv'
<1>1. Asked(s, "stat") /\ "stat" \in Requests
  BY DEF HashStatus, Requests
<1>2. PICK mem \in BOOLEAN, emem \in BOOLEAN : RootStatus(s, mem) \/ LocalStatus(s, mem, emem)
  BY DEF HashStatus
<1>3. CASE RootStatus(s, mem)
  BY <1>1, <1>3, RootStatusStep
<1>4. CASE LocalStatus(s, mem, emem)
  <2>1. "platform" \in Causes
    BY DEF Causes
  <2>2. CASE PathFails(s, mem, emem)
    BY <1>1, <2>2, PathStep
  <2>3. CASE Fail(s, sess[s], "platform", emem) \/ Busy(s, "stat")
    BY <1>1, <2>1, <2>3, FailSame, BusyStep
  <2>4. CASE \E ph \in {"stat", "over"} : Done(s, [sess[s] EXCEPT !.ph = ph], held)
    BY <1>1, <2>4, NewStat, DoneOver
  <2> QED
    BY <1>4, <2>2, <2>3, <2>4 DEF LocalStatus
<1> QED
  BY <1>2, <1>3, <1>4

\* A request on a directory that goes on, or another that is left open.
LEMMA GoesOn ==
  ASSUME Inv, NEW s \in Session, NEW r, Asked(s, r), r # "get_error",
         NEW z, z = [sess[s] EXCEPT !.ph = sess[s].ph], Done(s, z, held)
  PROVE  Inv'
<1>1. sess[s] \in SessionState
  BY AskedFacts
<1>2. z = sess[s]
  BY <1>1 DEF SessionState
<1> QED
  BY <1>2, DoneSame

\* ccapi_fs_dir_open
LEMMA DirOpenStep ==
  ASSUME Inv, NEW s \in Session, DirOpen(s)
  PROVE  Inv'
<1> DEFINE x == sess[s]
<1>1. Asked(s, "opendir") /\ "opendir" \in Requests
  BY DEF DirOpen, Requests
<1>2. /\ x \in SessionState /\ held \in SUBSET (Things \X Session)
      /\ Sound(x, HeldOf(s)) /\ "opendir" \in NextRequests(x)
  BY <1>1, AskedFacts
<1>3. x.err = Null /\ x.ph = "stat"
  BY <1>2, RequestFacts
<1>4. x.hnd = NoHandle /\ ~x.dir /\ x.dirty = Null
  BY <1>2, <1>3 DEF Sound, SessionState
<1>5. "platform" \in Causes /\ Null # Freed /\ Null \notin Causes
  BY PathsApart DEF Causes
<1>6. CASE Done(s, [x EXCEPT !.ph = "dir"], held)
  <2> DEFINE z == [x EXCEPT !.ph = "dir"]
             y == [z EXCEPT !.req = "none"]
  <2>1. Done(s, z, held)
    BY <1>6
  <2> HIDE DEF x
  <2>2. z \in SessionState /\ z.ctx = x.ctx /\ z.pos = x.pos /\ z.due = x.due /\ z.seen = x.seen
    BY <1>2 DEF SessionState
  <2>3. /\ y.req = "none" /\ y.ph = "dir" /\ y.err = Null /\ y.why = x.why /\ y.said = x.said
        /\ y.hnd = x.hnd /\ y.dirty = x.dirty /\ y.ctx = x.ctx /\ y.dir = x.dir
    BY <1>2, <1>3 DEF SessionState
  <2>4. Quiet(x, z)
    BY <2>2 DEF Quiet
  <2> HIDE DEF y
  <2>5. Sound(y, HeldOf(s))
    BY <1>2, <1>3, <1>4, <1>5, <2>3 DEF Sound
  <2>6. Sound([z EXCEPT !.req = "none"], HeldOf(s))
    BY <2>5 DEF y
  <2> HIDE DEF z
  <2> QED
    BY <2>1, <2>2, <2>4, <2>6, DoneKeeps DEF x
<1>7. CASE ~x.ctx /\ Done(s, [x EXCEPT !.ph = "dir", !.dir = TRUE], held \cup {<<"dir", s>>})
  <2> DEFINE z == [x EXCEPT !.ph = "dir", !.dir = TRUE]
             y == [z EXCEPT !.req = "none"]
             h == held \cup {<<"dir", s>>}
  <2>1. Done(s, z, h) /\ ~x.ctx
    BY <1>7
  <2> HIDE DEF x
  <2>2. z \in SessionState /\ z.ctx = x.ctx /\ z.pos = x.pos /\ z.due = x.due /\ z.seen = x.seen
    BY <1>2 DEF SessionState
  <2>3. /\ y.req = "none" /\ y.ph = "dir" /\ y.err = Null /\ y.why = x.why /\ y.said = x.said
        /\ y.hnd = x.hnd /\ y.dirty = x.dirty /\ y.ctx = x.ctx /\ y.dir
    BY <1>2, <1>3 DEF SessionState
  <2>4. Quiet(x, z)
    BY <2>2 DEF Quiet
  <2> HIDE DEF y
  <2>5. h \in SUBSET (Things \X Session)
        /\ \A u \in Session \ {s}, k \in Things : <<k, u>> \in h <=> <<k, u>> \in held
    BY <1>2 DEF Things
  <2>6. \A k \in Things : <<k, s>> \in h => k \in HeldOf(s) \/ k = "dir"
    BY DEF HeldOf
  <2> HIDE DEF h
  <2>7. Sound(y, {k \in Things : <<k, s>> \in h})
    BY <1>2, <1>3, <1>4, <1>5, <2>1, <2>3, <2>6 DEF Sound
  <2>8. Sound([z EXCEPT !.req = "none"], {k \in Things : <<k, s>> \in h})
    BY <2>7 DEF y
  <2> HIDE DEF z
  <2> QED
    BY <2>1, <2>2, <2>4, <2>5, <2>8, DoneStep DEF x
<1>8. CASE ~x.ctx /\ \E mem, emem \in BOOLEAN :
             \/ PathFails(s, mem, emem)
             \/ Denied(s, mem, emem)
             \/ Busy(s, "opendir")
             \/ Fail(s, sess[s], "platform", emem)
  BY <1>1, <1>5, <1>8, PathStep, BusyStep, FailSame
<1> QED
  BY <1>6, <1>7, <1>8 DEF DirOpen

\* A listing of the root names the entry it is at and moves to the next; what
\* it owes stays ahead of it.
LEMMA AdvanceStep ==
  ASSUME Inv, NEW s \in Session, NEW r, Asked(s, r), r # "get_error",
         sess[s].ctx, sess[s].pos \in Entry, Done(s, Advance(sess[s], sess[s].pos), held)
  PROVE  Inv'
<1> DEFINE x == sess[s]
           p == x.pos
           z == [x EXCEPT !.seen = @ \cup {ent[p].name}, !.pos = After(p)]
           y == [z EXCEPT !.req = "none"]
<1>1. /\ x \in SessionState /\ held \in SUBSET (Things \X Session)
      /\ Sound(x, HeldOf(s)) /\ r \in NextRequests(x)
  BY AskedFacts
<1>2. x.err = Null
  BY <1>1, RequestFacts
<1>3. p \in Alive
  BY DEF Inv, PointersOK
<1>4. ent[p].name \in VDir
  BY <1>3 DEF Inv, CellsOK, Alive
<1>5. PICK rank, top : Ranked(rank, top)
  BY DEF Inv
<1>6. After(p) \in Pointer /\ (After(p) \in Entry => After(p) \in Alive)
  BY <1>3, <1>5, AfterFacts DEF Inv
<1>7. sess' = [sess EXCEPT ![s] = y] /\ held' = held /\ ListKept /\ wrong' \in BOOLEAN
  BY DEF Done, Advance, Inv, TypeOK
<1>8. x.ctx /\ p \in Entry
  OBVIOUS
<1>9. \A rk, tp : Ranked(rk, tp) => Owes(rk, x)
  BY DEF Ranked
<1> HIDE DEF x
<1>10. y \in SessionState
  BY <1>1, <1>4, <1>6 DEF SessionState
<1>11. /\ y.req = "none" /\ y.ph = x.ph /\ y.err = Null /\ y.why = x.why /\ y.said = x.said
       /\ y.hnd = x.hnd /\ y.dirty = x.dirty /\ y.ctx = x.ctx /\ y.dir = x.dir /\ y.kind = x.kind
       /\ y.pos = After(p) /\ y.due = x.due /\ y.seen = x.seen \cup {ent[p].name}
  BY <1>1, <1>2 DEF SessionState
<1> HIDE DEF y, p
<1>12. Sound(y, {k \in Things : <<k, s>> \in held})
  <2>1. Null # Freed /\ Null \notin Causes
    BY PathsApart
  <2> QED
    BY <1>1, <1>2, <1>11, <2>1 DEF Sound, HeldOf
<1>13. ASSUME NEW rk, NEW tp, Ranked(rk, tp), NEW n \in y.due \ y.seen
       PROVE  /\ After(p) = Dangling \/ After(p) \in Entry
              /\ After(p) \in Entry => \E f \in Linked : ent[f].name = n /\ From(rk, f, After(p))
  <2>1. n \in x.due \ x.seen /\ n # ent[p].name
    BY <1>11
  <2>2. PICK f \in Linked : ent[f].name = n /\ From(rk, f, p)
    BY <1>8, <1>9, <1>13, <2>1 DEF Owes, p
  <2>3. rk[f] < rk[p]
    BY <2>1, <2>2 DEF From
  <2>4. LeadsOn(rk, p, After(p))
    BY <1>3, <1>13, AfterFacts DEF Inv
  <2>5. After(p) = Dangling \/ (After(p) \in Entry /\ From(rk, f, After(p)))
    BY <2>3, <2>4 DEF LeadsOn
  <2> QED
    BY <2>2, <2>5, PathsApart
<1>14. y.ctx /\ y.pos = Null => y.due \subseteq y.seen
  <2>1. SUFFICES ASSUME y.pos = Null, NEW n \in y.due \ y.seen PROVE FALSE
    OBVIOUS
  <2>2. After(p) = Dangling \/ After(p) \in Entry
    BY <1>5, <1>13
  <2> QED
    BY <1>11, <2>1, <2>2, PathsApart
<1>15. \A rk, tp : Ranked(rk, tp) => Owes(rk, y)
  BY <1>11, <1>13 DEF Owes
<1>16. held \in SUBSET (Things \X Session) /\ (y.pos \in Entry => y.pos \in Alive)
  BY <1>1, <1>6, <1>11
<1> QED
  BY <1>7, <1>10, <1>12, <1>14, <1>15, <1>16, SessionStep

\* ccapi_fs_dir_read_entry
LEMMA DirReadEntryStep ==
  ASSUME Inv, NEW s \in Session, DirReadEntry(s)
  PROVE  Inv'
<1> DEFINE x == sess[s]
<1>1. Asked(s, "readdir") /\ "readdir" \in Requests
  BY DEF DirReadEntry, Requests
<1>2. x \in SessionState /\ "readdir" \in NextRequests(x)
  BY <1>1, AskedFacts
<1>3. x.ph = "dir"
  BY <1>2, RequestFacts
<1>4. "platform" \in Causes
  BY DEF Causes
<1>5. CASE x.ctx /\ x.pos \in Entry /\ Done(s, Advance(x, x.pos), held)
  BY <1>1, <1>5, AdvanceStep
<1>6. CASE Broken
  BY <1>6, BrokenStep
<1>7. CASE Done(s, [x EXCEPT !.ph = "over"], held)
  BY <1>1, <1>7, DoneOver
<1>8. CASE Busy(s, "readdir") \/ \E emem \in BOOLEAN : Fail(s, x, "platform", emem)
  BY <1>1, <1>4, <1>8, BusyStep, FailSame
<1>9. CASE Done(s, [x EXCEPT !.ph = "dir"], held)
  BY <1>1, <1>3, <1>9, GoesOn
<1> QED
  BY <1>5, <1>6, <1>7, <1>8, <1>9 DEF DirReadEntry

\* ccapi_fs_dir_entry_status
LEMMA DirEntryStatusStep ==
  ASSUME Inv, NEW s \in Session, DirEntryStatus(s)
  PROVE  Inv'
<1>1. Asked(s, "stat_dir_entry") /\ "stat_dir_entry" \in Requests /\ "platform" \in Causes
  BY DEF DirEntryStatus, Requests, Causes
<1>2. \/ Done(s, sess[s], held)
      \/ \E mem, emem \in BOOLEAN :
           \/ PathFails(s, mem, emem)
           \/ Busy(s, "stat_dir_entry")
           \/ Fail(s, sess[s], "platform", emem)
           \/ Done(s, sess[s], held)
  BY DEF DirEntryStatus
<1> QED
  BY <1>1, <1>2, DoneSame, PathStep, BusyStep, FailSame

\* The root listing, or the platform's directory, is closed.
LEMMA DirCloseStep ==
  ASSUME Inv, NEW s \in Session, DirClose(s)
  PROVE  Inv'
<1> DEFINE w == sess[s]
           x == [w EXCEPT !.ph = "over", !.ctx = FALSE, !.pos = Null, !.dir = FALSE]
           y == [x EXCEPT !.req = "none"]
           left(k) == held \ {<<k, s>>}
<1>1. Asked(s, "closedir") /\ "closedir" \in Requests
  BY DEF DirClose, Requests
<1>2. /\ w \in SessionState /\ held \in SUBSET (Things \X Session)
      /\ Sound(w, HeldOf(s)) /\ "closedir" \in NextRequests(w)
  BY <1>1, AskedFacts
<1>3. w.err = Null /\ (w.ph = "dir" \/ (w.ph = "over" /\ w.hnd = NoHandle))
  BY <1>2, RequestFacts
<1>4. Null # Freed /\ Null \notin Causes /\ Freed \notin Causes
  BY PathsApart DEF Freed, Causes
<1>5. w.hnd = NoHandle /\ w.dirty = Null
  BY <1>2, <1>3 DEF Sound, SessionState
<1>6. "handle" \notin HeldOf(s) /\ "file" \notin HeldOf(s) /\ "error" \notin HeldOf(s)
      /\ ("listing" \in HeldOf(s) => w.ctx) /\ ("dir" \in HeldOf(s) => ~w.ctx)
  BY <1>2, <1>3, <1>4, <1>5 DEF Sound, SessionState
<1>7. \/ w.ctx /\ Done(s, x, left("listing"))
      \/ /\ ~w.ctx
         /\ \/ Busy(s, "closedir")
            \/ Done(s, x, left("dir"))
            \/ \E emem \in BOOLEAN :
                 /\ sess' = [sess EXCEPT ![s] = [SetError(x, "platform", emem) EXCEPT !.req = "none"]]
                 /\ held' = left("dir") \cup ErrorCell(s, emem)
                 /\ UNCHANGED wrong /\ ListKept
  BY DEF DirClose
<1> HIDE DEF w
<1>8. x \in SessionState /\ x.ctx = FALSE /\ x.pos = Null
  BY <1>2, PathsApart DEF SessionState, Pointer
<1>9. /\ y \in SessionState /\ y.hnd = NoHandle /\ y.ph = "over" /\ y.req = "none" /\ y.dirty = Null
      /\ y.err = Null /\ y.why = w.why /\ y.said = w.said /\ ~y.dir /\ y.ctx = FALSE /\ y.pos = Null
  BY <1>2, <1>3, <1>5 DEF SessionState, Pointer
<1>10. Quiet(w, x) /\ Quiet(w, y)
  BY <1>8, <1>9 DEF Quiet
<1>11. \A k \in Things :
         /\ left(k) \in SUBSET (Things \X Session)
         /\ \A u \in Session \ {s}, j \in Things : <<j, u>> \in left(k) <=> <<j, u>> \in held
  BY <1>2
<1>12. "listing" \in Things /\ "dir" \in Things
  BY DEF Things
<1>13. w.ctx => \A k \in Things : <<k, s>> \notin left("listing")
  BY <1>6 DEF Things, HeldOf
<1>14. ~w.ctx => \A k \in Things : <<k, s>> \notin left("dir")
  BY <1>6 DEF Things, HeldOf
<1> HIDE DEF left
<1>15. ASSUME NEW h \in SUBSET (Things \X Session), Done(s, x, h),
              \A u \in Session \ {s}, j \in Things : <<j, u>> \in h <=> <<j, u>> \in held,
              \A k \in Things : <<k, s>> \notin h
       PROVE  Inv'
  <2> HIDE DEF y
  <2>1. Sound(y, {k \in Things : <<k, s>> \in h})
    BY <1>2, <1>4, <1>9, <1>15 DEF Sound
  <2>2. Sound([x EXCEPT !.req = "none"], {k \in Things : <<k, s>> \in h})
    BY <2>1 DEF y
  <2> HIDE DEF x
  <2> QED
    BY <1>8, <1>10, <1>15, <2>2, DoneStep DEF w
<1>16. CASE w.ctx /\ Done(s, x, left("listing"))
  BY <1>11, <1>12, <1>13, <1>15, <1>16
<1>17. CASE ~w.ctx /\ Done(s, x, left("dir"))
  BY <1>11, <1>12, <1>14, <1>15, <1>17
<1>18. CASE Busy(s, "closedir")
  BY <1>1, <1>18, BusyStep
<1>19. CASE ~w.ctx /\ \E emem \in BOOLEAN :
              /\ sess' = [sess EXCEPT ![s] = [SetError(x, "platform", emem) EXCEPT !.req = "none"]]
              /\ held' = left("dir") \cup ErrorCell(s, emem)
              /\ UNCHANGED wrong /\ ListKept
  <2>1. PICK emem \in BOOLEAN :
              /\ sess' = [sess EXCEPT ![s] = [SetError(x, "platform", emem) EXCEPT !.req = "none"]]
              /\ held' = left("dir") \cup ErrorCell(s, emem)
              /\ UNCHANGED wrong /\ ListKept
    BY <1>19
  <2>2. [SetError(x, "platform", emem) EXCEPT !.req = "none"] = SetError(y, "platform", emem)
    <3> HIDE DEF x
    <3> QED
      BY <1>8 DEF SetError, SessionState
  <2>3. wrong' \in BOOLEAN
    BY <2>1 DEF Inv, TypeOK
  <2> HIDE DEF y, x
  <2>4. sess' = [sess EXCEPT ![s] = SetError(y, "platform", emem)]
    BY <2>1, <2>2
  <2> QED
    BY <1>9, <1>10, <1>11, <1>12, <1>14, <1>19, <2>1, <2>3, <2>4, ErrorStep DEF w
<1> QED
  BY <1>7, <1>16, <1>17, <1>18, <1>19

\* ccapi_fs_hash_file
LEMMA HashFileStep ==
  ASSUME Inv, NEW s \in Session, HashFile(s)
  PROVE  Inv'
<1> DEFINE x == sess[s]
<1>1. Asked(s, "hash") /\ "hash" \in Requests /\ "platform" \in Causes
  BY DEF HashFile, Requests, Causes
<1>2. x \in SessionState
  BY <1>1, AskedFacts
<1>3. [x EXCEPT !.ph = IF @ = "dir" THEN @ ELSE "over"] =
        IF x.ph = "dir" THEN [x EXCEPT !.ph = x.ph] ELSE [x EXCEPT !.ph = "over"]
  BY <1>2 DEF SessionState
<1>4. PICK mem \in BOOLEAN, emem \in BOOLEAN :
        \/ PathFails(s, mem, emem)
        \/ Busy(s, "hash")
        \/ Fail(s, x, "platform", emem)
        \/ Done(s, [x EXCEPT !.ph = IF @ = "dir" THEN @ ELSE "over"], held)
  BY DEF HashFile
<1>5. CASE PathFails(s, mem, emem) \/ Busy(s, "hash") \/ Fail(s, x, "platform", emem)
  BY <1>1, <1>5, PathStep, BusyStep, FailSame
<1>6. CASE Done(s, [x EXCEPT !.ph = IF @ = "dir" THEN @ ELSE "over"], held)
  <2>1. CASE x.ph = "dir"
    <3>1. Done(s, [x EXCEPT !.ph = x.ph], held)
      BY <1>3, <1>6, <2>1
    <3> QED
      BY <1>1, <3>1, GoesOn
  <2>2. CASE x.ph # "dir"
    <3>1. Done(s, [x EXCEPT !.ph = "over"], held)
      BY <1>3, <1>6, <2>2
    <3> QED
      BY <1>1, <3>1, DoneOver
  <2> QED
    BY <2>1, <2>2
<1> QED
  BY <1>4, <1>5, <1>6

\* ccapi_fs_session_error
LEMMA SessionErrorStep ==
  ASSUME Inv, NEW s \in Session, SessionError(s)
  PROVE  Inv'
<1>1. Asked(s, "session_error") /\ "session_error" \in Requests
  BY DEF SessionError, Requests
<1> QED
  BY <1>1, BusyStep, DoneOver DEF SessionError

\* The error handle is freed; what CCFSM is told is the session's own error.
LEMMA ErrorDescStep ==
  ASSUME Inv, NEW s \in Session, ErrorDesc(s)
  PROVE  Inv'
<1> DEFINE x == sess[s]
           known == [x EXCEPT !.said = Describe(x.err), !.err = Null]
           freed == HeldAfterError(s)
<1>1. Asked(s, "get_error")
  BY DEF ErrorDesc
<1>2. /\ x \in SessionState /\ held \in SUBSET (Things \X Session)
      /\ Sound(x, HeldOf(s)) /\ "get_error" \in NextRequests(x)
  BY <1>1, AskedFacts
<1>3. Null # Freed /\ Null \notin Causes /\ Freed \notin Causes
  BY PathsApart DEF Freed, Causes
<1>4. \/ Broken
      \/ x.err \in Causes /\ Done(s, known, freed)
      \/ x.err = "platform" /\ Done(s, [x EXCEPT !.err = Null], freed)
      \/ /\ x.err = "platform"
         /\ sess' = [sess EXCEPT ![s] = [x EXCEPT !.err = Freed, !.req = "get_error"]]
         /\ held' = freed
         /\ UNCHANGED wrong /\ ListKept
  BY DEF ErrorDesc
<1> HIDE DEF x
<1>5. freed \in SUBSET (Things \X Session)
      /\ \A u \in Session \ {s}, k \in Things : <<k, u>> \in freed <=> <<k, u>> \in held
  BY <1>2 DEF HeldAfterError
<1>6. /\ HeldOf(s) \subseteq Things
      /\ \A k \in Things : <<k, s>> \in freed <=> k \in HeldOf(s) /\ k # "error"
  BY DEF HeldAfterError, HeldOf
<1> HIDE DEF freed
\* An answer after which the session has no error any more.
<1>7. ASSUME NEW said \in Causes \cup {Null}, said \in {Null, x.why},
             NEW z, z = [x EXCEPT !.said = said, !.err = Null], Done(s, z, freed)
      PROVE  Inv'
  <2> DEFINE y == [z EXCEPT !.req = "none"]
  <2>1. z \in SessionState /\ z.ctx = x.ctx /\ z.pos = x.pos /\ z.due = x.due /\ z.seen = x.seen
    BY <1>2, <1>7 DEF SessionState
  <2>2. /\ y.req = "none" /\ y.ph = x.ph /\ y.err = Null /\ y.why = x.why /\ y.said = said
        /\ y.hnd = x.hnd /\ y.dirty = x.dirty /\ y.ctx = x.ctx /\ y.dir = x.dir /\ y.kind = x.kind
    BY <1>2, <1>7 DEF SessionState
  <2>3. Quiet(x, z)
    BY <2>1 DEF Quiet
  <2> HIDE DEF y
  <2>4. Sound(y, {k \in Things : <<k, s>> \in freed})
    BY <1>2, <1>3, <1>6, <1>7, <2>2 DEF Sound
  <2>5. Sound([z EXCEPT !.req = "none"], {k \in Things : <<k, s>> \in freed})
    BY <2>4 DEF y
  <2> QED
    BY <1>5, <1>7, <2>1, <2>3, <2>5, DoneStep DEF x
<1>8. CASE Broken
  BY <1>8, BrokenStep
<1>9. CASE x.err \in Causes /\ Done(s, known, freed)
  <2>1. Describe(x.err) = x.err
    BY <1>9 DEF Describe, Causes
  <2>2. x.err = x.why
    BY <1>2, <1>9 DEF Sound
  <2> QED
    BY <1>7, <1>9, <2>1, <2>2
<1>10. CASE Done(s, [x EXCEPT !.err = Null], freed)
  <2>1. [x EXCEPT !.err = Null] = [x EXCEPT !.said = x.said, !.err = Null]
    BY <1>2 DEF SessionState
  <2>2. x.said \in Causes \cup {Null} /\ x.said \in {Null, x.why}
    BY <1>2 DEF Sound, SessionState
  <2> QED
    BY <1>7, <1>10, <2>1, <2>2
<1>11. CASE /\ x.err = "platform"
            /\ sess' = [sess EXCEPT ![s] = [x EXCEPT !.err = Freed, !.req = "get_error"]]
            /\ held' = freed
            /\ UNCHANGED wrong /\ ListKept
  <2> DEFINE y == [x EXCEPT !.err = Freed, !.req = "get_error"]
  <2>1. y.ctx = x.ctx /\ y.pos = x.pos /\ y.due = x.due /\ y.seen = x.seen
    BY <1>2 DEF SessionState
  <2>2. /\ y.req = "get_error" /\ y.ph = x.ph /\ y.err = Freed /\ y.why = x.why /\ y.said = x.said
        /\ y.hnd = x.hnd /\ y.dirty = x.dirty /\ y.dir = x.dir /\ y.kind = x.kind
    BY <1>2 DEF SessionState
  <2> HIDE DEF y
  <2>3. Quiet(x, y)
    BY <2>1 DEF Quiet
  <2>4. "get_error" \in NextRequests(y)
    BY <1>3, <2>2 DEF NextRequests
  <2>5. x.ph # "idle"
    BY <1>2, <1>3, <1>11 DEF Sound, Causes
  <2>6. Sound(y, {k \in Things : <<k, s>> \in freed})
    BY <1>2, <1>3, <1>6, <2>1, <2>2, <2>4, <2>5 DEF Sound
  <2>7. wrong' \in BOOLEAN /\ sess' = [sess EXCEPT ![s] = y] /\ held' = freed /\ ListKept
    BY <1>11 DEF Inv, TypeOK, y
  <2>8. y \in SessionState
    BY <1>2, AgainTyped DEF y
  <2> QED
    BY <1>5, <2>3, <2>6, <2>7, <2>8, QuietStep DEF x
<1> QED
  BY <1>4, <1>8, <1>9, <1>10, <1>11

\* A callback that ccapi_filesystem_handler answers keeps the invariant.
LEMMA HandlerStep ==
  ASSUME Inv, NEW s \in Session, Handler(s)
  PROVE  Inv'
<1>1. /\ "read" \in Requests /\ "lseek" \in Requests
      /\ "read" # "get_error" /\ "lseek" # "get_error"
  BY DEF Requests
<1>2. CASE FileRead(s) \/ FileSeek(s)
  BY <1>1, <1>2, PassOnStep DEF FileRead, FileSeek
<1>3. CASE FileWrite(s) \/ FileTruncate(s)
  BY <1>3, AlterStep DEF FileWrite, FileTruncate
<1>4. CASE FileOpen(s) \/ FileClose(s) \/ FileRemove(s)
  BY <1>4, FileOpenStep, FileCloseStep, FileRemoveStep
<1>5. CASE DirOpen(s) \/ DirReadEntry(s) \/ DirEntryStatus(s) \/ DirClose(s)
  BY <1>5, DirOpenStep, DirReadEntryStep, DirEntryStatusStep, DirCloseStep
<1>6. CASE HashStatus(s) \/ HashFile(s) \/ ErrorDesc(s) \/ SessionError(s)
  BY <1>6, HashStatusStep, HashFileStep, ErrorDescStep, SessionErrorStep
<1> QED
  BY <1>2, <1>3, <1>4, <1>5, <1>6 DEF Handler

\* CCFSM begins a session: nothing was held for it.
LEMMA BeginStep ==
  ASSUME Inv, NEW s \in Session, Begin(s)
  PROVE  Inv'
<1> DEFINE w == sess[s]
<1>1. w \in SessionState /\ Sound(w, HeldOf(s)) /\ held \in SUBSET (Things \X Session)
  BY DEF Inv, TypeOK, SessionsOK
<1>2. PICK p \in Paths : sess' = [sess EXCEPT ![s] = [IdleSession EXCEPT !.ph = "new", !.path = p]]
  BY DEF Begin
<1> DEFINE y == [IdleSession EXCEPT !.ph = "new", !.path = p]
<1>3. y \in SessionState
  BY DEF SessionState, IdleSession, Kinds, Pointer
<1>4. /\ y.req = "none" /\ y.ph = "new" /\ y.err = Null /\ y.why = Null /\ y.said = Null
      /\ y.hnd = NoHandle /\ y.dirty = Null /\ y.ctx = FALSE /\ ~y.dir /\ y.pos = Null
  BY DEF IdleSession
<1>5. HeldOf(s) = {}
  <2>1. w.ph = "idle" /\ Null \notin Causes
    BY PathsApart DEF Begin
  <2> HIDE DEF w
  <2> QED
    BY <1>1, <2>1 DEF Sound, HeldOf, Things, SessionState
<1> HIDE DEF y
<1>6. Null # Freed /\ Null \notin Causes
  BY PathsApart
<1>7. Sound(y, HeldOf(s))
  BY <1>4, <1>5, <1>6 DEF Sound
<1>8. Quiet(w, y)
  BY <1>4 DEF Quiet
<1>9. wrong' \in BOOLEAN /\ held' = held /\ ListKept /\ sess' = [sess EXCEPT ![s] = y]
  BY <1>2 DEF Begin, Inv, TypeOK, ListKept, y
<1> QED
  BY <1>1, <1>3, <1>7, <1>8, <1>9, QuietStep DEF HeldOf

\* CCFSM ends a session: nothing is held for it any more.
LEMMA EndStep ==
  ASSUME Inv, NEW s \in Session, End(s)
  PROVE  Inv'
<1> DEFINE w == sess[s]
           y == IdleSession
<1>1. w \in SessionState /\ Sound(w, HeldOf(s)) /\ held \in SUBSET (Things \X Session)
  BY DEF Inv, TypeOK, SessionsOK
<1>2. y \in SessionState
  BY DEF SessionState, IdleSession, Kinds, Pointer
<1>3. /\ y.req = "none" /\ y.ph = "idle" /\ y.err = Null /\ y.why = Null /\ y.said = Null
      /\ y.hnd = NoHandle /\ y.dirty = Null /\ y.ctx = FALSE /\ ~y.dir /\ y.pos = Null
  BY DEF IdleSession
<1>4. Null # Freed /\ Null \notin Causes
  BY PathsApart
<1>5. w.ph = "over" /\ NextRequests(w) = {}
  BY DEF End
<1> HIDE DEF w
<1>6. w.err = Null /\ w.hnd = NoHandle /\ ~w.dir /\ ~w.ctx
  BY <1>5 DEF NextRequests
<1>7. HeldOf(s) = {}
  BY <1>1, <1>4, <1>6 DEF Sound, HeldOf, Things
<1> HIDE DEF y
<1>8. Sound(y, HeldOf(s))
  BY <1>3, <1>4, <1>7 DEF Sound
<1>9. Quiet(w, y)
  BY <1>3 DEF Quiet
<1>10. wrong' \in BOOLEAN /\ held' = held /\ ListKept /\ sess' = [sess EXCEPT ![s] = y]
  BY DEF End, Inv, TypeOK, ListKept, y
<1> QED
  BY <1>1, <1>2, <1>8, <1>9, <1>10, QuietStep DEF HeldOf, w

----------------------------------------------------------------------------
(* The calls of the application. *)

AddingCall(c) == c.pc \in {"lookup", "query", "link"}

\* A call touches no session.
LEMMA SessionsStay ==
  ASSUME SessionsOK, sess' = sess, held' = held
  PROVE  SessionsOK'
<1>1. ASSUME NEW s \in Session PROVE Sound(sess'[s], HeldOf(s)')
  <2>1. HeldOf(s)' = HeldOf(s)
    BY DEF HeldOf
  <2> QED
    BY <2>1 DEF SessionsOK
<1> QED
  BY <1>1 DEF SessionsOK, Sound, NextRequests

\* A thread changes its call, which frees nothing; the list stays.
LEMMA CallStep ==
  ASSUME Inv, NEW t \in App, NEW c \in CallState,
         app' = [app EXCEPT ![t] = c], UNCHANGED <<cast, list, ent, sess, held>>,
         lock' \in App \cup {Null}, wrong' \in BOOLEAN,
         overlap \subseteq overlap', overlap' \subseteq VDir,
         app[t].pc # "free", c.pc # "free",
         c.pc = "lookup" /\ c.cell \in Entry => c.cell \in Alive,
         AddingCall(c) => c.name \in VDir /\ c.loc \in LocalDir,
         AddingCall(c) /\ (c.pc = "lookup" => c.cell = Null) /\ c.name \in Mapped => c.name \in overlap',
         \A u \in App \ {t} : AddingCall(c) /\ Adding(u) /\ app[u].name = c.name => c.name \in overlap',
         \A rank, top : Ranked(rank, top) /\ c.pc = "lookup" /\ c.cell \in Entry /\ c.name \notin overlap' =>
           \A f \in Linked : ent[f].name = c.name => From(rank, f, c.cell)
  PROVE  Inv'
<1>1. app \in [App -> CallState]
  BY DEF Inv, TypeOK
<1>2. app'[t] = c /\ \A u \in App \ {t} : app'[u] = app[u]
  BY <1>1
<1>3. TypeOK'
  <2>1. app' \in [App -> CallState]
    BY <1>1
  <2> QED
    BY <2>1 DEF Inv, TypeOK
<1>4. Linked' = Linked /\ Freeing' = Freeing /\ t \notin Freeing /\ Mapped' = Mapped
  BY <1>2 DEF Linked, Freeing, Mapped
<1>5. Alive' = Alive
  BY <1>2, <1>4 DEF Alive
<1>6. CellsOK'
  BY <1>2, <1>4 DEF Inv, CellsOK
<1>7. PointersOK'
  BY <1>2, <1>4, <1>5 DEF Inv, PointersOK
<1>8. \A u \in App : Adding(u)' <=> (IF u = t THEN AddingCall(c) ELSE Adding(u))
  BY <1>2 DEF Adding, AddingCall
<1>9. AddersOK'
  <2>1. \A u \in App : Adding(u)' => (app[u].name \in VDir /\ app[u].loc \in LocalDir)'
    BY <1>2, <1>8 DEF Inv, AddersOK
  <2>2. ASSUME NEW u \in App, Adding(u)', app'[u].pc = "lookup" => app'[u].cell = Null,
               app'[u].name \in Mapped
        PROVE  app'[u].name \in overlap'
    <3>1. CASE u = t
      BY <1>2, <1>8, <2>2, <3>1
    <3>2. CASE u # t
      <4>1. app'[u] = app[u] /\ Adding(u)
        BY <1>2, <1>8, <2>2, <3>2
      <4>2. app[u].name \in overlap
        BY <2>2, <4>1 DEF Inv, AddersOK
      <4> QED
        BY <4>1, <4>2
    <3> QED
      BY <3>1, <3>2
  <2>3. \A u, v \in App : (/\ u # v /\ Adding(u) /\ Adding(v) /\ app[u].name = app[v].name
                             => app[u].name \in overlap)'
    BY <1>2, <1>8 DEF Inv, AddersOK
  <2> QED
    BY <1>4, <2>1, <2>2, <2>3 DEF AddersOK
<1>10. SessionsOK' /\ NamesUnique' /\ ListingIsComplete'
  <2>1. SessionsOK'
    BY SessionsStay DEF Inv
  <2>2. NamesUnique' /\ ListingIsComplete'
    BY DEF Inv, NamesUnique, ListingIsComplete
  <2> QED
    BY <2>1, <2>2
<1>11. PICK rank, top : Ranked(rank, top)
  BY DEF Inv
<1>12. Ranked(rank, top)'
  <2>1. \A u \in Session : Owes(rank, sess[u])'
    BY <1>4, <1>11 DEF Ranked, Owes
  <2>2. \A u \in App : Ahead(rank, u)'
    BY <1>2, <1>4, <1>11 DEF Ranked, Ahead
  <2>3. \A u \in Freeing' : LeadsOn(rank, app[u].cell, app[u].nxt)'
    BY <1>2, <1>4, <1>11 DEF Ranked, LeadsOn
  <2> QED
    BY <1>11, <2>1, <2>2, <2>3 DEF Ranked
<1> QED
  BY <1>3, <1>6, <1>7, <1>9, <1>10, <1>12 DEF Inv

\* A call returns, or is not to look at the list again.
LEMMA CallEnds ==
  ASSUME Inv, NEW t \in App, app' = [app EXCEPT ![t] = IdleCall],
         UNCHANGED <<cast, list, ent, sess, held, overlap>>,
         lock' \in App \cup {Null}, wrong' \in BOOLEAN, app[t].pc # "free"
  PROVE  Inv'
<1> DEFINE c == IdleCall
<1>1. c \in CallState /\ c.pc = "idle"
  BY DEF CallState, IdleCall, Pointer
<1>2. overlap \subseteq VDir
  BY DEF Inv, TypeOK
<1>3. ~AddingCall(c) /\ c.pc # "lookup" /\ c.pc # "free"
  BY <1>1 DEF AddingCall
<1> HIDE DEF c
<1>4. app' = [app EXCEPT ![t] = c]
  BY DEF c
<1> QED
  BY <1>1, <1>2, <1>3, <1>4, CallStep

\* ccxapi_fs_add_virtual_dir begins its walk at the front of the list.
LEMMA AddBeginStep ==
  ASSUME Inv, NEW t \in App, NEW n \in VDir, NEW l \in LocalDir, AddBegin(t, n, l)
  PROVE  Inv'
<1> DEFINE c == [IdleCall EXCEPT !.pc = "lookup", !.name = n, !.loc = l, !.cell = Head1]
<1>1. PICK rank, top : Ranked(rank, top)
  BY DEF Inv
<1>2. Linked \subseteq Entry
  BY LinkedPlace DEF Inv
<1>3. Head1 \in Linked \cup {Null} /\ (Head1 = Null => Linked = {})
  BY <1>1, HeadFacts DEF Inv
<1>4. Head1 \in Pointer /\ (Head1 \in Entry => Head1 \in Alive)
  BY <1>2, <1>3, PathsApart DEF Pointer, Alive
<1>5. c \in CallState /\ c.pc = "lookup" /\ c.name = n /\ c.loc = l /\ c.cell = Head1
  <2>1. IdleCall \in CallState
    BY DEF CallState, IdleCall, Pointer
  <2> QED
    BY <1>4, <2>1 DEF CallState
<1>6. app' = [app EXCEPT ![t] = c] /\ app[t].pc = "idle"
  BY DEF AddBegin
<1> HIDE DEF c
<1>7. overlap' = overlap \cup {m \in {n} : \E u \in App : Adding(u) /\ app[u].name = m}
  BY DEF AddBegin
<1>8. overlap \subseteq overlap' /\ overlap' \subseteq VDir
  BY <1>7 DEF Inv, TypeOK
<1>9. \A u \in App \ {t} : Adding(u) /\ app[u].name = c.name => c.name \in overlap'
  BY <1>5, <1>7
<1>10. c.cell = Null => c.name \notin Mapped
  BY <1>3, <1>5 DEF Mapped, Linked
<1>11. \A rk, tp : Ranked(rk, tp) /\ c.cell \in Entry => \A f \in Linked : From(rk, f, c.cell)
  BY <1>5, HeadFacts DEF Inv
<1>12. UNCHANGED <<cast, list, ent, sess, held>> /\ lock' \in App \cup {Null} /\ wrong' \in BOOLEAN
  BY DEF AddBegin, SessionsKept, Inv, TypeOK
<1> QED
  BY <1>4, <1>5, <1>6, <1>8, <1>9, <1>10, <1>11, <1>12, CallStep

\* The walk: what it passes does not have the name.
LEMMA AddLookupStep ==
  ASSUME Inv, NEW t \in App, AddLookup(t)
  PROVE  Inv'
<1> DEFINE e == app[t].cell
<1>1. app \in [App -> CallState] /\ app[t] \in CallState
  BY DEF Inv, TypeOK
<1>2. app[t].pc = "lookup" /\ e # Null /\ e \in Pointer
  BY <1>1 DEF AddLookup, CallState
<1>3. UNCHANGED <<cast, list, ent, sess, held, overlap>> /\ lock' \in App \cup {Null} /\ wrong' \in BOOLEAN
  BY DEF AddLookup, SessionsKept, Inv, TypeOK
<1>4. overlap \subseteq VDir
  BY DEF Inv, TypeOK
<1>5. CASE e = Dangling
  <2> DEFINE c == app[t]
  <2>1. app' = [app EXCEPT ![t] = c]
    BY <1>5 DEF AddLookup
  <2>2. c.cell \notin Entry /\ c.cell # Null /\ ~(c.pc = "lookup" /\ c.cell = Null)
    BY <1>2, <1>5, PathsApart
  <2>3. AddingCall(c) => c.name \in VDir /\ c.loc \in LocalDir
    BY DEF Inv, AddersOK, Adding, AddingCall
  <2>4. \A u \in App \ {t} : AddingCall(c) /\ Adding(u) /\ app[u].name = c.name => c.name \in overlap'
    BY <1>3 DEF Inv, AddersOK, Adding, AddingCall
  <2> QED
    BY <1>1, <1>2, <1>3, <1>4, <2>1, <2>2, <2>3, <2>4, CallStep
<1>6. CASE e # Dangling /\ IsNamed(e, app[t].name)
  <2>1. app' = [app EXCEPT ![t] = IdleCall]
    BY <1>6 DEF AddLookup
  <2> QED
    BY <1>2, <1>3, <2>1, CallEnds
<1>7. CASE e # Dangling /\ ~IsNamed(e, app[t].name)
  <2> DEFINE c == [app[t] EXCEPT !.cell = After(e)]
  <2>1. app' = [app EXCEPT ![t] = c]
    BY <1>7 DEF AddLookup
  <2>2. e \in Entry /\ e \in Alive
    BY <1>2, <1>7 DEF Pointer, Inv, PointersOK
  <2>3. PICK rank, top : Ranked(rank, top)
    BY DEF Inv
  <2>4. After(e) \in Pointer /\ (After(e) \in Entry => After(e) \in Alive)
    BY <2>2, <2>3, AfterFacts DEF Inv
  <2>5. c \in CallState /\ c.pc = "lookup" /\ c.name = app[t].name /\ c.loc = app[t].loc /\ c.cell = After(e)
    BY <1>1, <1>2, <2>4 DEF CallState
  <2> HIDE DEF c
  <2>6. c.name \in VDir /\ c.loc \in LocalDir
    BY <1>2, <2>5 DEF Inv, AddersOK, Adding
  <2>7. \A u \in App \ {t} : Adding(u) /\ app[u].name = c.name => c.name \in overlap
    BY <1>2, <2>5 DEF Inv, AddersOK, Adding
  \* An entry of the name is ahead of what comes next, too.
  <2>8. ASSUME NEW rk, NEW tp, Ranked(rk, tp), c.name \notin overlap,
               NEW f \in Linked, ent[f].name = c.name
        PROVE  After(e) # Null /\ (After(e) \in Entry => From(rk, f, After(e)))
    <3>1. From(rk, f, e)
      BY <1>2, <2>2, <2>5, <2>8 DEF Ranked, Ahead
    <3>2. f # e
      BY <1>7, <2>5, <2>8 DEF IsNamed
    <3>3. LeadsOn(rk, e, After(e))
      BY <2>2, <2>8, AfterFacts DEF Inv
    <3>4. After(e) = Dangling \/ (After(e) \in Entry /\ From(rk, f, After(e)))
      BY <3>1, <3>2, <3>3 DEF LeadsOn, From
    <3> QED
      BY <3>4, PathsApart
  <2>9. c.cell = Null /\ c.name \in Mapped => c.name \in overlap
    <3>1. SUFFICES ASSUME c.cell = Null, c.name \in Mapped, c.name \notin overlap PROVE FALSE
      OBVIOUS
    <3>2. PICK f \in Linked : ent[f].name = c.name
      BY <3>1 DEF Mapped, Linked
    <3> QED
      BY <2>3, <2>5, <2>8, <3>1, <3>2
  <2>10. \A rk, tp : Ranked(rk, tp) /\ c.cell \in Entry /\ c.name \notin overlap =>
           \A f \in Linked : ent[f].name = c.name => From(rk, f, c.cell)
    BY <2>5, <2>8
  <2> QED
    BY <1>2, <1>3, <1>4, <2>1, <2>4, <2>5, <2>6, <2>7, <2>9, <2>10, CallStep
<1> QED
  BY <1>5, <1>6, <1>7

\* The platform is asked whether the directory is there.
LEMMA AddOnStep ==
  ASSUME Inv, NEW t \in App, AddQuery(t) \/ AddAnswer(t) \/ AddNoMemory(t)
  PROVE  Inv'
<1>1. app \in [App -> CallState] /\ app[t] \in CallState
  BY DEF Inv, TypeOK
<1>2. app[t].pc \in {"lookup", "query", "link"} /\ (app[t].pc = "lookup" => app[t].cell = Null)
  BY DEF AddQuery, AddAnswer, AddNoMemory
<1>3. UNCHANGED <<cast, list, ent, sess, held, overlap>> /\ lock' \in App \cup {Null} /\ wrong' \in BOOLEAN
  BY DEF AddQuery, AddAnswer, AddNoMemory, SessionsKept, Inv, TypeOK
<1>4. CASE app' = [app EXCEPT ![t] = IdleCall]
  BY <1>2, <1>3, <1>4, CallEnds
<1>5. CASE \E pc \in {"query", "link"} : app' = [app EXCEPT ![t] = [app[t] EXCEPT !.pc = pc]]
  <2>1. PICK pc \in {"query", "link"} : app' = [app EXCEPT ![t] = [app[t] EXCEPT !.pc = pc]]
    BY <1>5
  <2> DEFINE c == [app[t] EXCEPT !.pc = pc]
  <2>2. /\ c \in CallState /\ c.pc \in {"query", "link"}
        /\ c.name = app[t].name /\ c.loc = app[t].loc
    BY <1>1 DEF CallState
  <2> HIDE DEF c
  <2>3. app' = [app EXCEPT ![t] = c]
    BY <2>1 DEF c
  <2>4. overlap \subseteq VDir
    BY DEF Inv, TypeOK
  <2>5. c.name \in VDir /\ c.loc \in LocalDir /\ (c.name \in Mapped => c.name \in overlap)
    BY <1>2, <2>2 DEF Inv, AddersOK, Adding
  <2>6. \A u \in App \ {t} : Adding(u) /\ app[u].name = c.name => c.name \in overlap
    BY <1>2, <2>2 DEF Inv, AddersOK, Adding
  <2> QED
    BY <1>2, <1>3, <2>2, <2>3, <2>4, <2>5, <2>6, CallStep
<1> QED
  BY <1>4, <1>5 DEF AddQuery, AddAnswer, AddNoMemory

\* A new entry in front of the list gets a rank above all others.
LEMMA AddLinkStep ==
  ASSUME Inv, NEW t \in App, AddLink(t)
  PROVE  Inv'
<1> DEFINE e == CHOOSE e \in FreeCells : TRUE
           n == app[t].name
           new == [name |-> app[t].name, loc |-> app[t].loc]
<1>1. /\ list \in Seq(Entry) /\ app \in [App -> CallState]
      /\ ent \in [Entry -> [name : VDir \cup {Null}, loc : LocalDir \cup {Null}]]
      /\ overlap \subseteq VDir
  BY DEF Inv, TypeOK
<1>2. /\ app[t].pc = "link"
      /\ ent' = [ent EXCEPT ![e] = new] /\ list' = <<e>> \o list
      /\ app' = [app EXCEPT ![t] = IdleCall]
      /\ UNCHANGED <<cast, lock, overlap, wrong, sess, held>>
  BY DEF AddLink, SessionsKept
<1>3. e \in Entry /\ ent[e].name = Null
  <2>1. FreeCells # {}
    BY DEF AddLink
  <2>2. e \in FreeCells
    BY <2>1
  <2> HIDE DEF e
  <2> QED
    BY <2>2 DEF FreeCells, FreeEntry
<1> HIDE DEF e
<1>4. e \notin Linked /\ \A u \in Freeing : app[u].cell # e
  BY <1>3, PathsApart DEF Inv, CellsOK
<1>5. n \in VDir /\ app[t].loc \in LocalDir /\ (n \in Mapped => n \in overlap)
      /\ \A u \in App \ {t} : Adding(u) /\ app[u].name = n => n \in overlap
  BY <1>2 DEF Inv, AddersOK, Adding
<1>6. IdleCall \in CallState /\ IdleCall.pc = "idle"
  BY DEF CallState, IdleCall, Pointer
<1>7. app'[t] = IdleCall /\ \A u \in App \ {t} : app'[u] = app[u]
  BY <1>1, <1>2
<1>8. ent'[e] = new /\ new.name = n /\ new.loc = app[t].loc /\ \A f \in Entry \ {e} : ent'[f] = ent[f]
  BY <1>1, <1>2, <1>3
<1>9. /\ list' \in Seq(Entry) /\ Len(list') = Len(list) + 1
      /\ \A j \in 1..(Len(list) + 1) : list'[j] = IF j = 1 THEN e ELSE list[j - 1]
  BY <1>1, <1>2, <1>3, AddFrontFacts
<1>10. /\ DOMAIN list = 1..Len(list) /\ Len(list) \in Nat /\ DOMAIN list' = 1..(Len(list) + 1)
  BY <1>1, <1>9
<1> HIDE DEF n, new
\* Where the entries of the new list are.
<1>11. \A j \in DOMAIN list' : \/ j = 1 /\ list'[j] = e
                               \/ j # 1 /\ j - 1 \in DOMAIN list /\ list'[j] = list[j - 1]
  BY <1>9, <1>10
<1>12. \A i \in DOMAIN list : i + 1 \in DOMAIN list' /\ list'[i + 1] = list[i]
  <2>1. ASSUME NEW i \in DOMAIN list PROVE i + 1 \in DOMAIN list' /\ list'[i + 1] = list[i]
    <3>1. i \in 1..Len(list) /\ Len(list) \in Nat
      BY <1>10
    <3>2. i + 1 \in 1..(Len(list) + 1) /\ i + 1 # 1 /\ (i + 1) - 1 = i
      BY <3>1
    <3> QED
      BY <1>9, <1>10, <3>2
  <2> QED
    BY <2>1
<1>13. Linked' = Linked \cup {e}
  <2>1. \A f \in Linked' : f \in Linked \cup {e}
    BY <1>11 DEF Linked, ToSet
  <2>2. \A f \in Linked : f \in Linked'
    BY <1>12 DEF Linked, ToSet
  <2>3. e \in Linked'
    <3>1. 1 \in DOMAIN list'
      BY <1>10
    <3> QED
      BY <1>11, <3>1 DEF Linked, ToSet
  <2> QED
    BY <2>1, <2>2, <2>3
<1>14. Freeing' = Freeing /\ \A u \in Freeing : u \in App /\ u # t /\ app'[u] = app[u]
  BY <1>2, <1>6, <1>7 DEF Freeing
<1>15. Alive' = Alive \cup {e}
  BY <1>7, <1>13, <1>14 DEF Alive
<1>16. Linked \subseteq Entry
  BY LinkedPlace DEF Inv
<1>17. Mapped' = Mapped \cup {n}
  BY <1>4, <1>8, <1>13, <1>16 DEF Mapped, Linked
<1>18. TypeOK'
  <2>1. new \in [name : VDir \cup {Null}, loc : LocalDir \cup {Null}]
    BY <1>5 DEF new, n
  <2>2. ent' \in [Entry -> [name : VDir \cup {Null}, loc : LocalDir \cup {Null}]]
    BY <1>1, <1>2, <2>1
  <2>3. app' \in [App -> CallState]
    BY <1>1, <1>2, <1>6
  <2> QED
    BY <1>2, <1>9, <2>2, <2>3 DEF Inv, TypeOK
<1>19. CellsOK'
  <2>1. ASSUME NEW i \in DOMAIN list', NEW j \in DOMAIN list', list'[i] = list'[j]
        PROVE  i = j
    <3>1. \A k \in DOMAIN list : list[k] \in Linked
      BY DEF Linked, ToSet
    <3>2. CASE i = 1 \/ j = 1
      BY <1>4, <1>11, <2>1, <3>1, <3>2
    <3>3. CASE i # 1 /\ j # 1
      <4>1. i - 1 = j - 1
        BY <1>11, <2>1, <3>3 DEF Inv, CellsOK
      <4>2. i \in Nat /\ j \in Nat
        BY <1>10
      <4> QED
        BY <4>1, <4>2
    <3> QED
      BY <3>2, <3>3
  <2>2. \A f \in Linked' : ent'[f].name \in VDir /\ ent'[f].loc \in LocalDir
    BY <1>4, <1>5, <1>8, <1>13, <1>16 DEF Inv, CellsOK
  <2>3. \A u \in Freeing' : app'[u].cell \in Entry \ Linked' /\ ent'[app'[u].cell].name \in VDir
    BY <1>4, <1>7, <1>8, <1>13, <1>14 DEF Inv, CellsOK
  <2>4. \A u, v \in Freeing' : app'[u].cell = app'[v].cell => u = v
    BY <1>7, <1>14 DEF Inv, CellsOK
  <2> QED
    BY <2>1, <2>2, <2>3, <2>4 DEF CellsOK
<1>20. PointersOK'
  BY <1>2, <1>6, <1>7, <1>14, <1>15 DEF Inv, PointersOK
<1>21. \A u \in App : Adding(u)' <=> u # t /\ Adding(u)
  BY <1>6, <1>7 DEF Adding
<1>22. AddersOK'
  <2>1. \A u \in App : Adding(u)' => app'[u].name \in VDir /\ app'[u].loc \in LocalDir
    BY <1>7, <1>21 DEF Inv, AddersOK
  <2>2. ASSUME NEW u \in App, Adding(u)', app'[u].pc = "lookup" => app'[u].cell = Null,
               app'[u].name \in Mapped'
        PROVE  app'[u].name \in overlap'
    <3>1. u # t /\ app'[u] = app[u] /\ Adding(u)
      BY <1>7, <1>21, <2>2
    <3>2. CASE app[u].name = n
      BY <1>2, <1>5, <3>1, <3>2
    <3>3. CASE app[u].name # n
      <4>1. app[u].name \in Mapped
        BY <1>17, <2>2, <3>1, <3>3
      <4> QED
        BY <1>2, <2>2, <3>1, <4>1 DEF Inv, AddersOK
    <3> QED
      BY <3>2, <3>3
  <2>3. \A u, v \in App : u # v /\ Adding(u)' /\ Adding(v)' /\ app'[u].name = app'[v].name =>
                            app'[u].name \in overlap'
    BY <1>2, <1>7, <1>21 DEF Inv, AddersOK
  <2> QED
    BY <2>1, <2>2, <2>3 DEF AddersOK
<1>23. SessionsOK'
  BY <1>2, SessionsStay DEF Inv
<1>24. ListingIsComplete'
  BY <1>2 DEF Inv, ListingIsComplete
<1>25. NamesUnique'
  <2>1. ASSUME NEW i \in DOMAIN list', NEW j \in DOMAIN list', i # j,
               ent'[list'[i]].name = ent'[list'[j]].name
        PROVE  ent'[list'[i]].name \in overlap'
    <3>1. \A k \in DOMAIN list : list[k] \in Linked /\ list[k] \in Entry /\ list[k] # e
                                  /\ ent'[list[k]] = ent[list[k]] /\ ent[list[k]].name \in Mapped
      BY <1>4, <1>8, <1>16 DEF Linked, ToSet, Mapped
    <3>2. CASE i = 1
      <4>1. ent'[list'[i]].name = n /\ j # 1
        BY <1>8, <1>11, <2>1, <3>2
      <4>2. n \in Mapped
        <5>1. j - 1 \in DOMAIN list /\ list'[j] = list[j - 1]
          BY <1>11, <4>1
        <5>2. ent'[list[j - 1]].name \in Mapped
          BY <3>1, <5>1
        <5> QED
          BY <2>1, <4>1, <5>1, <5>2
      <4> QED
        BY <1>2, <1>5, <4>1, <4>2
    <3>3. CASE j = 1
      <4>1. ent'[list'[j]].name = n /\ i # 1
        BY <1>8, <1>11, <2>1, <3>3
      <4>2. n \in Mapped
        BY <1>11, <2>1, <3>1, <4>1
      <4> QED
        BY <1>2, <1>5, <2>1, <4>1, <4>2
    <3>4. CASE i # 1 /\ j # 1
      <4>1. i - 1 \in DOMAIN list /\ list'[i] = list[i - 1] /\ j - 1 \in DOMAIN list /\ list'[j] = list[j - 1]
        BY <1>11, <3>4
      <4>2. i - 1 # j - 1
        <5>1. i \in Nat /\ j \in Nat
          BY <1>10
        <5> QED
          BY <2>1, <5>1
      <4> QED
        BY <1>2, <2>1, <3>1, <4>1, <4>2 DEF Inv, NamesUnique
    <3> QED
      BY <3>2, <3>3, <3>4
  <2> QED
    BY <2>1 DEF NamesUnique
<1>26. PICK rank, top : Ranked(rank, top)
  BY DEF Inv
<1>27. PICK r : r = [rank EXCEPT ![e] = top]
  OBVIOUS
<1>28. /\ rank \in [Entry -> Nat] /\ top \in Nat /\ \A f \in Entry : rank[f] < top
       /\ r \in [Entry -> Nat] /\ r[e] = top /\ \A f \in Entry \ {e} : r[f] = rank[f]
  BY <1>3, <1>26, <1>27 DEF Ranked
<1>29. \A f, g \in Entry \ {e} : From(r, f, g) <=> From(rank, f, g)
  BY <1>28 DEF From
<1>30. Ranked(r, top + 1)'
  <2>1. top + 1 \in Nat /\ \A f \in Entry : r[f] < top + 1
    BY <1>28
  <2>2. ASSUME NEW i \in DOMAIN list', NEW j \in DOMAIN list', i < j
        PROVE  r[list'[j]] < r[list'[i]]
    <3>1. i \in Nat /\ j \in Nat /\ 1 <= i
      BY <1>10
    <3>2. j # 1 /\ j - 1 \in DOMAIN list /\ list'[j] = list[j - 1]
      BY <1>11, <2>2, <3>1
    <3>3. list[j - 1] \in Entry \ {e}
      BY <1>4, <1>16, <3>2 DEF Linked, ToSet
    <3>4. CASE i = 1
      <4>1. list'[i] = e
        BY <1>11, <3>4
      <4> QED
        BY <1>28, <3>2, <3>3, <4>1
    <3>5. CASE i # 1
      <4>1. i - 1 \in DOMAIN list /\ list'[i] = list[i - 1]
        BY <1>11, <3>5
      <4>2. list[i - 1] \in Entry \ {e}
        BY <1>4, <1>16, <4>1 DEF Linked, ToSet
      <4>3. i - 1 < j - 1
        BY <2>2, <3>1
      <4>4. rank[list[j - 1]] < rank[list[i - 1]]
        BY <1>26, <3>2, <4>1, <4>3 DEF Ranked
      <4> QED
        BY <1>28, <3>2, <3>3, <4>1, <4>2, <4>4
    <3> QED
      BY <3>4, <3>5
  <2>3. ASSUME NEW u \in Freeing PROVE LeadsOn(r, app[u].cell, app[u].nxt)'
    <3>1. app'[u] = app[u]
      BY <1>7, <1>14
    <3>2. app[u].cell \in Entry \ {e}
      BY <1>4 DEF Inv, CellsOK
    <3>3. app[u].nxt \in Entry => app[u].nxt \in Entry \ {e}
      BY <1>4 DEF Inv, PointersOK, Alive
    <3>4. ASSUME NEW f \in Linked', r[f] < r[app[u].cell]
          PROVE  app[u].nxt = Dangling \/ (app[u].nxt \in Entry /\ From(r, f, app[u].nxt))
      <4>1. f # e
        BY <1>28, <3>2, <3>4
      <4>2. f \in Linked /\ f \in Entry \ {e} /\ rank[f] < rank[app[u].cell]
        BY <1>13, <1>16, <1>28, <3>2, <3>4, <4>1
      <4>3. app[u].nxt = Dangling \/ (app[u].nxt \in Entry /\ From(rank, f, app[u].nxt))
        BY <1>26, <4>2 DEF Ranked, LeadsOn
      <4> QED
        BY <1>29, <3>3, <4>2, <4>3
    <3> QED
      BY <3>1, <3>4 DEF LeadsOn, From
  <2>4. ASSUME NEW s \in Session PROVE Owes(r, sess[s])'
    <3> DEFINE x == sess[s]
    <3>1. ASSUME x.ctx, x.pos \in Entry, NEW m \in x.due \ x.seen
          PROVE  \E f \in Linked' : ent'[f].name = m /\ From(r, f, x.pos)
      <4>1. PICK f \in Linked : ent[f].name = m /\ From(rank, f, x.pos)
        BY <1>26, <3>1 DEF Ranked, Owes
      <4>2. x.pos \in Entry \ {e}
        BY <1>4, <3>1 DEF Inv, PointersOK, Alive
      <4>3. f \in Linked' /\ f \in Entry \ {e} /\ ent'[f].name = m
        BY <1>4, <1>8, <1>13, <1>16, <4>1
      <4> QED
        BY <1>29, <4>1, <4>2, <4>3
    <3> QED
      BY <1>2, <3>1 DEF Owes, From
  <2>5. ASSUME NEW u \in App PROVE Ahead(r, u)'
    <3>1. CASE u = t
      BY <1>6, <1>7, <3>1 DEF Ahead
    <3>2. CASE u # t
      <4>1. app'[u] = app[u]
        BY <1>7, <3>2
      <4>2. ASSUME app[u].pc = "lookup", app[u].cell \in Entry, app[u].name \notin overlap,
                   NEW f \in Linked', ent'[f].name = app[u].name
            PROVE  From(r, f, app[u].cell)
        <5>1. f # e
          BY <1>5, <1>8, <3>2, <4>2 DEF Adding
        <5>2. f \in Linked /\ f \in Entry \ {e} /\ ent[f].name = app[u].name
          BY <1>8, <1>13, <1>16, <4>2, <5>1
        <5>3. app[u].cell \in Entry \ {e}
          BY <1>4, <4>2 DEF Inv, PointersOK, Alive
        <5>4. From(rank, f, app[u].cell)
          BY <1>26, <4>2, <5>2 DEF Ranked, Ahead
        <5> QED
          BY <1>29, <5>2, <5>3, <5>4
      <4> QED
        BY <1>2, <4>1, <4>2 DEF Ahead, From
    <3> QED
      BY <3>1, <3>2
  <2> QED
    BY <1>14, <1>28, <2>1, <2>2, <2>3, <2>4, <2>5 DEF Ranked
<1> QED
  BY <1>18, <1>19, <1>20, <1>22, <1>23, <1>24, <1>25, <1>30 DEF Inv

\* What of a session is not about its listing is as sound after the listing changed.
LEMMA SoundStays ==
  ASSUME NEW x \in SessionState, NEW y \in SessionState, NEW H, Sound(x, H),
         y.ph = x.ph, y.req = x.req, y.kind = x.kind, y.hnd = x.hnd, y.ctx = x.ctx, y.dir = x.dir,
         y.err = x.err, y.why = x.why, y.said = x.said, y.dirty = x.dirty
  PROVE  Sound(y, H)
<1>1. NextRequests(y) = NextRequests(x)
  BY DEF NextRequests
<1> QED
  BY <1>1 DEF Sound

\* The record of a session whose listing owes other directories than before.
LEMMA DueChanged ==
  ASSUME NEW x \in SessionState, NEW d \in SUBSET VDir, NEW y, y = [x EXCEPT !.due = d]
  PROVE  /\ y \in SessionState /\ y.due = d
         /\ y.ph = x.ph /\ y.req = x.req /\ y.kind = x.kind /\ y.hnd = x.hnd /\ y.ctx = x.ctx
         /\ y.dir = x.dir /\ y.err = x.err /\ y.why = x.why /\ y.said = x.said
         /\ y.dirty = x.dirty /\ y.pos = x.pos /\ y.seen = x.seen
  BY DEF SessionState

\* The record of a session whose listing points elsewhere.
LEMMA PosChanged ==
  ASSUME NEW x \in SessionState, NEW p \in Pointer, NEW y, y = [x EXCEPT !.pos = p]
  PROVE  /\ y \in SessionState /\ y.pos = p
         /\ y.ph = x.ph /\ y.req = x.req /\ y.kind = x.kind /\ y.hnd = x.hnd /\ y.ctx = x.ctx
         /\ y.dir = x.dir /\ y.err = x.err /\ y.why = x.why /\ y.said = x.said
         /\ y.dirty = x.dirty /\ y.due = x.due /\ y.seen = x.seen
  BY DEF SessionState

\* An unlinked entry leads on to what came after it.
LEMMA RemoveUnlinkStep ==
  ASSUME Inv, NEW t \in App, NEW n \in VDir, RemoveUnlink(t, n)
  PROVE  Inv'
<1> DEFINE e == EntryOf(n)
           k == PlaceOf(e)
           c == [IdleCall EXCEPT !.pc = "free", !.cell = e, !.nxt = NextOf(e)]
           at(j) == IF j < k THEN j ELSE j + 1
<1>1. /\ list \in Seq(Entry) /\ app \in [App -> CallState] /\ sess \in [Session -> SessionState]
  BY DEF Inv, TypeOK
<1>2. /\ app[t].pc = "idle" /\ e # Null
      /\ app' = [app EXCEPT ![t] = c]
      /\ list' = RemoveAt(list, k)
      /\ sess' = [s \in Session |-> [sess[s] EXCEPT !.due = @ \ {n}]]
      /\ UNCHANGED <<cast, ent, lock, held, overlap, wrong>>
  BY DEF RemoveUnlink
<1>3. e \in Linked /\ e \in Entry /\ ent[e].name = n
  BY <1>2, EntryOfFacts DEF Inv
<1>4. PICK rank, top : Ranked(rank, top)
  BY DEF Inv
<1>5. NextOf(e) \in Linked \cup {Null} /\ LeadsOn(rank, e, NextOf(e))
  BY <1>3, <1>4, NextFacts DEF Inv
<1>6. k \in 1..Len(list) /\ list[k] = e /\ DOMAIN list = 1..Len(list) /\ Len(list) \in Nat
  BY <1>3, LinkedPlace DEF Inv
<1>7. Linked \subseteq Entry
  BY LinkedPlace DEF Inv
<1> HIDE DEF e, k
<1>8. /\ c \in CallState /\ c.pc = "free" /\ c.cell = e /\ c.nxt = NextOf(e)
  <2>1. IdleCall \in CallState
    BY DEF CallState, IdleCall, Pointer
  <2>2. e \in Pointer /\ NextOf(e) \in Pointer
    BY <1>3, <1>5, <1>7 DEF Pointer
  <2> QED
    BY <2>1, <2>2 DEF CallState
<1> HIDE DEF c
<1>9. app'[t] = c /\ \A u \in App \ {t} : app'[u] = app[u]
  BY <1>1, <1>2
<1>10. /\ list' \in Seq(Entry) /\ Len(list') = Len(list) - 1
       /\ \A j \in 1..(Len(list) - 1) : list'[j] = IF j < k THEN list[j] ELSE list[j + 1]
  BY <1>1, <1>2, <1>6, RemoveAtFacts
<1>11. DOMAIN list' = 1..(Len(list) - 1)
  BY <1>10
\* Where the entries of the new list were.
<1>12. \A j \in DOMAIN list' : /\ j \in Nat /\ at(j) \in DOMAIN list /\ at(j) # k
                               /\ list'[j] = list[at(j)]
  <2>1. ASSUME NEW j \in DOMAIN list'
        PROVE  j \in Nat /\ at(j) \in DOMAIN list /\ at(j) # k /\ list'[j] = list[at(j)]
    <3>1. j \in 1..(Len(list) - 1) /\ k \in 1..Len(list) /\ Len(list) \in Nat
      BY <1>6, <1>11
    <3>2. at(j) \in 1..Len(list) /\ at(j) # k /\ j \in Nat
      BY <3>1
    <3> QED
      BY <1>6, <1>10, <3>1, <3>2
  <2> QED
    BY <2>1
<1>13. \A i, j \in DOMAIN list' : i < j => at(i) < at(j)
  <2>1. k \in Nat
    BY <1>6
  <2> QED
    BY <1>12, <2>1
<1>14. Linked' = Linked \ {e}
  <2>1. \A f \in Linked' : f \in Linked \ {e}
    BY <1>6, <1>12 DEF Linked, ToSet, Inv, CellsOK
  <2>2. ASSUME NEW f \in Linked \ {e} PROVE f \in Linked'
    <3>1. PICK i \in DOMAIN list : list[i] = f
      BY DEF Linked, ToSet
    <3>2. i \in 1..Len(list) /\ i # k /\ k \in 1..Len(list) /\ Len(list) \in Nat
      BY <1>6, <3>1
    <3>3. CASE i < k
      <4>1. i \in 1..(Len(list) - 1)
        BY <3>2, <3>3
      <4>2. list'[i] = f /\ i \in DOMAIN list'
        BY <1>10, <1>11, <3>1, <3>3, <4>1
      <4> QED
        BY <4>2 DEF Linked, ToSet
    <3>4. CASE k < i
      <4>1. i - 1 \in 1..(Len(list) - 1) /\ ~(i - 1 < k) /\ (i - 1) + 1 = i
        BY <3>2, <3>4
      <4>2. list'[i - 1] = f /\ i - 1 \in DOMAIN list'
        BY <1>10, <1>11, <3>1, <4>1
      <4> QED
        BY <4>2 DEF Linked, ToSet
    <3> QED
      BY <3>2, <3>3, <3>4
  <2> QED
    BY <2>1, <2>2
<1> HIDE DEF at
<1>15. Freeing' = Freeing \cup {t} /\ t \notin Freeing /\ \A u \in Freeing : u \in App \ {t}
  BY <1>2, <1>8, <1>9 DEF Freeing
<1>16. \A u \in Freeing : app'[u] = app[u] /\ app[u].cell \in Entry \ Linked
  BY <1>9, <1>15 DEF Inv, CellsOK
<1>17. Alive' = Alive
  BY <1>3, <1>8, <1>9, <1>14, <1>15, <1>16 DEF Alive
<1>18. \A s \in Session :
         /\ sess'[s] \in SessionState /\ sess'[s].due = sess[s].due \ {n}
         /\ sess'[s].ph = sess[s].ph /\ sess'[s].req = sess[s].req /\ sess'[s].kind = sess[s].kind
         /\ sess'[s].hnd = sess[s].hnd /\ sess'[s].ctx = sess[s].ctx /\ sess'[s].dir = sess[s].dir
         /\ sess'[s].err = sess[s].err /\ sess'[s].why = sess[s].why /\ sess'[s].said = sess[s].said
         /\ sess'[s].dirty = sess[s].dirty /\ sess'[s].pos = sess[s].pos /\ sess'[s].seen = sess[s].seen
  <2>1. ASSUME NEW s \in Session
        PROVE  /\ sess'[s] \in SessionState /\ sess'[s].due = sess[s].due \ {n}
               /\ sess'[s].ph = sess[s].ph /\ sess'[s].req = sess[s].req /\ sess'[s].kind = sess[s].kind
               /\ sess'[s].hnd = sess[s].hnd /\ sess'[s].ctx = sess[s].ctx /\ sess'[s].dir = sess[s].dir
               /\ sess'[s].err = sess[s].err /\ sess'[s].why = sess[s].why /\ sess'[s].said = sess[s].said
               /\ sess'[s].dirty = sess[s].dirty /\ sess'[s].pos = sess[s].pos /\ sess'[s].seen = sess[s].seen
    <3>1. sess[s] \in SessionState /\ sess'[s] = [sess[s] EXCEPT !.due = sess[s].due \ {n}]
      BY <1>1, <1>2
    <3>2. sess[s].due \ {n} \in SUBSET VDir
      BY <3>1 DEF SessionState
    <3> QED
      BY <3>1, <3>2, DueChanged
  <2> QED
    BY <2>1
<1>19. TypeOK'
  <2>1. app' \in [App -> CallState]
    BY <1>1, <1>2, <1>8
  <2>2. sess' \in [Session -> SessionState]
    BY <1>2, <1>18
  <2> QED
    BY <1>2, <1>10, <2>1, <2>2 DEF Inv, TypeOK
<1>20. CellsOK'
  <2>1. ASSUME NEW i \in DOMAIN list', NEW j \in DOMAIN list', list'[i] = list'[j]
        PROVE  i = j
    <3>1. at(i) = at(j)
      BY <1>12, <2>1 DEF Inv, CellsOK
    <3>2. i \in Nat /\ j \in Nat /\ k \in Nat
      BY <1>6, <1>12
    <3> QED
      BY <3>1, <3>2 DEF at
  <2>2. \A f \in Linked' : ent'[f].name \in VDir /\ ent'[f].loc \in LocalDir
    BY <1>2, <1>14 DEF Inv, CellsOK
  <2>3. ASSUME NEW u \in Freeing'
        PROVE  app'[u].cell \in Entry \ Linked' /\ ent'[app'[u].cell].name \in VDir
    <3>1. CASE u = t
      BY <1>2, <1>3, <1>8, <1>9, <1>14, <3>1
    <3>2. CASE u # t
      BY <1>2, <1>14, <1>15, <1>16, <3>2 DEF Inv, CellsOK
    <3> QED
      BY <3>1, <3>2
  <2>4. ASSUME NEW u \in Freeing', NEW v \in Freeing', app'[u].cell = app'[v].cell PROVE u = v
    <3>1. CASE u # t /\ v # t
      BY <1>15, <1>16, <2>4, <3>1 DEF Inv, CellsOK
    <3>2. CASE u = t \/ v = t
      BY <1>3, <1>8, <1>9, <1>15, <1>16, <2>4, <3>2
    <3> QED
      BY <3>1, <3>2
  <2> QED
    BY <2>1, <2>2, <2>3, <2>4 DEF CellsOK
<1>21. PointersOK'
  <2>1. \A s \in Session : sess'[s].pos \in Entry => sess'[s].pos \in Alive'
    BY <1>17, <1>18 DEF Inv, PointersOK
  <2>2. ASSUME NEW u \in App, app'[u].pc = "lookup", app'[u].cell \in Entry
        PROVE  app'[u].cell \in Alive'
    BY <1>8, <1>9, <1>17, <2>2 DEF Inv, PointersOK
  <2>3. ASSUME NEW u \in Freeing', app'[u].nxt \in Entry PROVE app'[u].nxt \in Alive'
    <3>1. CASE u = t
      BY <1>5, <1>8, <1>9, <1>17, <2>3, <3>1, PathsApart DEF Alive
    <3>2. CASE u # t
      BY <1>15, <1>16, <1>17, <2>3, <3>2 DEF Inv, PointersOK
    <3> QED
      BY <3>1, <3>2
  <2> QED
    BY <2>1, <2>2, <2>3 DEF PointersOK
<1>22. \A u \in App : Adding(u)' <=> Adding(u) /\ u # t
  BY <1>2, <1>8, <1>9 DEF Adding
<1>23. Mapped' \subseteq Mapped
  BY <1>2, <1>14 DEF Mapped, Linked
<1>24. AddersOK'
  <2>1. \A u \in App : Adding(u)' => app'[u].name \in VDir /\ app'[u].loc \in LocalDir
    BY <1>9, <1>22 DEF Inv, AddersOK
  <2>2. ASSUME NEW u \in App, Adding(u)', app'[u].pc = "lookup" => app'[u].cell = Null,
               app'[u].name \in Mapped'
        PROVE  app'[u].name \in overlap'
    <3>1. u # t /\ app'[u] = app[u] /\ Adding(u) /\ app[u].name \in Mapped
      BY <1>9, <1>22, <1>23, <2>2
    <3> QED
      BY <1>2, <2>2, <3>1 DEF Inv, AddersOK
  <2>3. \A u, v \in App : u # v /\ Adding(u)' /\ Adding(v)' /\ app'[u].name = app'[v].name =>
                            app'[u].name \in overlap'
    BY <1>2, <1>9, <1>22 DEF Inv, AddersOK
  <2> QED
    BY <2>1, <2>2, <2>3 DEF AddersOK
<1>25. SessionsOK'
  <2>1. ASSUME NEW s \in Session PROVE Sound(sess'[s], HeldOf(s)')
    <3>1. HeldOf(s)' = HeldOf(s)
      BY <1>2 DEF HeldOf
    <3>2. sess[s] \in SessionState /\ Sound(sess[s], HeldOf(s))
      BY <1>1 DEF Inv, SessionsOK
    <3> QED
      BY <1>18, <3>1, <3>2, SoundStays
  <2> QED
    BY <2>1 DEF SessionsOK, Sound, NextRequests
<1>26. ListingIsComplete'
  BY <1>18 DEF Inv, ListingIsComplete
<1>27. NamesUnique'
  <2>1. ASSUME NEW i \in DOMAIN list', NEW j \in DOMAIN list', i # j,
               ent'[list'[i]].name = ent'[list'[j]].name
        PROVE  ent'[list'[i]].name \in overlap'
    <3>1. i \in Nat /\ j \in Nat /\ k \in Nat
      BY <1>6, <1>12
    <3>2. at(i) # at(j)
      BY <2>1, <3>1 DEF at
    <3> QED
      BY <1>2, <1>12, <2>1, <3>2 DEF Inv, NamesUnique
  <2> QED
    BY <2>1 DEF NamesUnique
<1>28. Ranked(rank, top)'
  <2>1. ASSUME NEW i \in DOMAIN list', NEW j \in DOMAIN list', i < j
        PROVE  rank[list'[j]] < rank[list'[i]]
    BY <1>4, <1>12, <1>13, <2>1 DEF Ranked
  <2>2. ASSUME NEW u \in Freeing' PROVE LeadsOn(rank, app[u].cell, app[u].nxt)'
    <3>1. CASE u = t
      BY <1>5, <1>8, <1>9, <1>14, <3>1 DEF LeadsOn, From
    <3>2. CASE u # t
      <4>1. LeadsOn(rank, app[u].cell, app[u].nxt) /\ app'[u] = app[u]
        BY <1>4, <1>15, <1>16, <3>2 DEF Ranked
      <4> QED
        BY <1>14, <4>1 DEF LeadsOn, From
    <3> QED
      BY <3>1, <3>2
  <2>3. ASSUME NEW s \in Session PROVE Owes(rank, sess[s])'
    <3>1. ASSUME sess'[s].ctx, sess'[s].pos \in Entry, NEW m \in sess'[s].due \ sess'[s].seen
          PROVE  \E f \in Linked' : ent'[f].name = m /\ From(rank, f, sess'[s].pos)
      <4>1. m # n /\ m \in sess[s].due \ sess[s].seen /\ sess[s].ctx /\ sess[s].pos \in Entry
        BY <1>18, <3>1
      <4>2. PICK f \in Linked : ent[f].name = m /\ From(rank, f, sess[s].pos)
        BY <1>4, <4>1 DEF Ranked, Owes
      <4>3. f \in Linked'
        BY <1>3, <1>14, <4>1, <4>2
      <4> QED
        BY <1>2, <1>18, <4>2, <4>3
    <3> QED
      BY <3>1 DEF Owes, From
  <2>4. ASSUME NEW u \in App PROVE Ahead(rank, u)'
    <3>1. CASE u = t
      BY <1>8, <1>9, <3>1 DEF Ahead
    <3>2. CASE u # t
      <4>1. app'[u] = app[u] /\ Ahead(rank, u)
        BY <1>4, <1>9, <3>2 DEF Ranked
      <4> QED
        BY <1>2, <1>14, <4>1 DEF Ahead, From
    <3> QED
      BY <3>1, <3>2
  <2> QED
    BY <1>4, <2>1, <2>2, <2>3, <2>4 DEF Ranked
<1> QED
  BY <1>19, <1>20, <1>21, <1>24, <1>25, <1>26, <1>27, <1>28 DEF Inv

\* The entry is freed: whoever pointed at it is left with a dangling pointer.
LEMMA RemoveFreeStep ==
  ASSUME Inv, NEW t \in App, RemoveFree(t)
  PROVE  Inv'
<1> DEFINE e == app[t].cell
           cleared(u) == [app[u] EXCEPT !.cell = Cleared(@, e), !.nxt = Cleared(@, e)]
<1>1. /\ list \in Seq(Entry) /\ app \in [App -> CallState] /\ sess \in [Session -> SessionState]
      /\ ent \in [Entry -> [name : VDir \cup {Null}, loc : LocalDir \cup {Null}]]
  BY DEF Inv, TypeOK
<1>2. /\ app[t].pc = "free"
      /\ ent' = [ent EXCEPT ![e] = FreeEntry]
      /\ sess' = [s \in Session |-> [sess[s] EXCEPT !.pos = Cleared(@, e)]]
      /\ app' = [u \in App |-> IF u = t THEN IdleCall ELSE cleared(u)]
      /\ UNCHANGED <<cast, list, lock, held, overlap, wrong>>
  BY DEF RemoveFree
<1>3. t \in Freeing /\ e \in Entry \ Linked
  BY <1>2 DEF Freeing, Inv, CellsOK
<1> HIDE DEF e
<1>4. ent' \in [Entry -> [name : VDir \cup {Null}, loc : LocalDir \cup {Null}]]
      /\ \A f \in Entry \ {e} : ent'[f] = ent[f]
  BY <1>1, <1>2, <1>3 DEF FreeEntry
<1>5. \A p \in Pointer : Cleared(p, e) \in Pointer /\ (Cleared(p, e) \in Entry => Cleared(p, e) = p /\ p # e)
                          /\ (p # e => Cleared(p, e) = p) /\ (Cleared(p, e) = Null => p = Null)
  BY PathsApart DEF Cleared, Pointer
<1>6. app'[t] = IdleCall /\ IdleCall \in CallState /\ IdleCall.pc = "idle"
  BY <1>2 DEF CallState, IdleCall, Pointer
<1>7. \A u \in App \ {t} :
        /\ app'[u] \in CallState /\ app'[u].pc = app[u].pc /\ app'[u].name = app[u].name
        /\ app'[u].loc = app[u].loc /\ app[u].cell \in Pointer /\ app[u].nxt \in Pointer
        /\ app'[u].cell = Cleared(app[u].cell, e) /\ app'[u].nxt = Cleared(app[u].nxt, e)
  <2>1. ASSUME NEW u \in App \ {t}
        PROVE  /\ app'[u] \in CallState /\ app'[u].pc = app[u].pc /\ app'[u].name = app[u].name
               /\ app'[u].loc = app[u].loc /\ app[u].cell \in Pointer /\ app[u].nxt \in Pointer
               /\ app'[u].cell = Cleared(app[u].cell, e) /\ app'[u].nxt = Cleared(app[u].nxt, e)
    <3>1. app'[u] = cleared(u) /\ app[u] \in CallState
      BY <1>1, <1>2
    <3>2. app[u].cell \in Pointer /\ app[u].nxt \in Pointer
      BY <3>1 DEF CallState
    <3>3. Cleared(app[u].cell, e) \in Pointer /\ Cleared(app[u].nxt, e) \in Pointer
      BY <1>5, <3>2
    <3> QED
      BY <3>1, <3>2, <3>3 DEF CallState
  <2> QED
    BY <2>1
<1>8. \A s \in Session :
         /\ sess'[s] \in SessionState /\ sess[s].pos \in Pointer
         /\ sess'[s].pos = Cleared(sess[s].pos, e) /\ sess'[s].due = sess[s].due
         /\ sess'[s].ph = sess[s].ph /\ sess'[s].req = sess[s].req /\ sess'[s].kind = sess[s].kind
         /\ sess'[s].hnd = sess[s].hnd /\ sess'[s].ctx = sess[s].ctx /\ sess'[s].dir = sess[s].dir
         /\ sess'[s].err = sess[s].err /\ sess'[s].why = sess[s].why /\ sess'[s].said = sess[s].said
         /\ sess'[s].dirty = sess[s].dirty /\ sess'[s].seen = sess[s].seen
  <2>1. ASSUME NEW s \in Session
        PROVE  /\ sess'[s] \in SessionState /\ sess[s].pos \in Pointer
               /\ sess'[s].pos = Cleared(sess[s].pos, e) /\ sess'[s].due = sess[s].due
               /\ sess'[s].ph = sess[s].ph /\ sess'[s].req = sess[s].req /\ sess'[s].kind = sess[s].kind
               /\ sess'[s].hnd = sess[s].hnd /\ sess'[s].ctx = sess[s].ctx /\ sess'[s].dir = sess[s].dir
               /\ sess'[s].err = sess[s].err /\ sess'[s].why = sess[s].why /\ sess'[s].said = sess[s].said
               /\ sess'[s].dirty = sess[s].dirty /\ sess'[s].seen = sess[s].seen
    <3>1. /\ sess[s] \in SessionState /\ sess[s].pos \in Pointer
                 /\ sess'[s] = [sess[s] EXCEPT !.pos = Cleared(sess[s].pos, e)]
      <4>1. sess[s] \in SessionState
        BY <1>1
      <4>2. sess'[s] = [sess[s] EXCEPT !.pos = Cleared(sess[s].pos, e)]
        BY <1>2
      <4> QED
        BY <4>1, <4>2 DEF SessionState
    <3> QED
      BY <1>5, <3>1, PosChanged
  <2> QED
    BY <2>1
<1> HIDE DEF cleared
<1>9. Linked' = Linked /\ \A f \in Linked : f \in Entry \ {e} /\ ent'[f] = ent[f]
  <2>1. Linked \subseteq Entry
    BY LinkedPlace DEF Inv
  <2> QED
    BY <1>2, <1>3, <1>4, <2>1 DEF Linked
<1>10. Freeing' = Freeing \ {t}
  BY <1>6, <1>7 DEF Freeing
<1>11. \A u \in Freeing \ {t} : /\ u \in App \ {t} /\ app[u].cell \in Entry \ Linked /\ app[u].cell # e
                                /\ app'[u].cell = app[u].cell
  BY <1>3, <1>5, <1>7 DEF Inv, CellsOK, Freeing, e
<1>12. Alive' = Alive \ {e}
  <2>1. \A f : f \in Alive' => f \in Alive /\ f # e
    BY <1>9, <1>10, <1>11 DEF Alive
  <2>2. \A f : f \in Alive /\ f # e => f \in Alive'
    BY <1>9, <1>10, <1>11 DEF Alive, e
  <2> QED
    BY <2>1, <2>2
<1>13. TypeOK'
  <2>1. app' \in [App -> CallState]
    BY <1>2, <1>6, <1>7
  <2>2. sess' \in [Session -> SessionState]
    BY <1>2, <1>8
  <2> QED
    BY <1>2, <1>4, <2>1, <2>2 DEF Inv, TypeOK
<1>14. CellsOK'
  <2>1. \A i, j \in DOMAIN list' : list'[i] = list'[j] => i = j
    BY <1>2 DEF Inv, CellsOK
  <2>2. \A f \in Linked' : ent'[f].name \in VDir /\ ent'[f].loc \in LocalDir
    BY <1>9 DEF Inv, CellsOK
  <2>3. \A u \in Freeing' : app'[u].cell \in Entry \ Linked' /\ ent'[app'[u].cell].name \in VDir
    BY <1>4, <1>9, <1>10, <1>11 DEF Inv, CellsOK
  <2>4. \A u, v \in Freeing' : app'[u].cell = app'[v].cell => u = v
    BY <1>10, <1>11 DEF Inv, CellsOK
  <2> QED
    BY <2>1, <2>2, <2>3, <2>4 DEF CellsOK
<1>15. PointersOK'
  <2>1. \A s \in Session : sess'[s].pos \in Entry => sess'[s].pos \in Alive'
    BY <1>5, <1>8, <1>12 DEF Inv, PointersOK
  <2>2. ASSUME NEW u \in App, app'[u].pc = "lookup", app'[u].cell \in Entry
        PROVE  app'[u].cell \in Alive'
    BY <1>5, <1>6, <1>7, <1>12, <2>2 DEF Inv, PointersOK
  <2>3. ASSUME NEW u \in Freeing', app'[u].nxt \in Entry PROVE app'[u].nxt \in Alive'
    BY <1>5, <1>7, <1>10, <1>11, <1>12, <2>3 DEF Inv, PointersOK
  <2> QED
    BY <2>1, <2>2, <2>3 DEF PointersOK
<1>16. \A u \in App : Adding(u)' <=> Adding(u) /\ u # t
  BY <1>2, <1>6, <1>7 DEF Adding
<1>17. Mapped' = Mapped
  BY <1>2, <1>9 DEF Mapped, Linked
<1>18. AddersOK'
  <2>1. \A u \in App : Adding(u)' => app'[u].name \in VDir /\ app'[u].loc \in LocalDir
    BY <1>7, <1>16 DEF Inv, AddersOK
  <2>2. ASSUME NEW u \in App, Adding(u)', app'[u].pc = "lookup" => app'[u].cell = Null,
               app'[u].name \in Mapped'
        PROVE  app'[u].name \in overlap'
    <3>1. u # t /\ app'[u].name = app[u].name /\ app'[u].pc = app[u].pc /\ Adding(u)
      BY <1>7, <1>16, <2>2
    <3>2. app[u].pc = "lookup" => app[u].cell = Null
      BY <1>5, <1>7, <2>2, <3>1
    <3> QED
      BY <1>2, <1>17, <2>2, <3>1, <3>2 DEF Inv, AddersOK
  <2>3. \A u, v \in App : u # v /\ Adding(u)' /\ Adding(v)' /\ app'[u].name = app'[v].name =>
                            app'[u].name \in overlap'
    BY <1>2, <1>7, <1>16 DEF Inv, AddersOK
  <2> QED
    BY <2>1, <2>2, <2>3 DEF AddersOK
<1>19. SessionsOK'
  <2>1. ASSUME NEW s \in Session PROVE Sound(sess'[s], HeldOf(s)')
    <3>1. HeldOf(s)' = HeldOf(s)
      BY <1>2 DEF HeldOf
    <3>2. sess[s] \in SessionState /\ Sound(sess[s], HeldOf(s))
      BY <1>1 DEF Inv, SessionsOK
    <3> QED
      BY <1>8, <3>1, <3>2, SoundStays
  <2> QED
    BY <2>1 DEF SessionsOK, Sound, NextRequests
<1>20. ListingIsComplete'
  BY <1>5, <1>8 DEF Inv, ListingIsComplete
<1>21. NamesUnique'
  <2>1. \A i \in DOMAIN list : ent'[list[i]] = ent[list[i]]
    BY <1>9 DEF Linked, ToSet
  <2> QED
    BY <1>2, <2>1 DEF Inv, NamesUnique
<1>22. PICK rank, top : Ranked(rank, top)
  BY DEF Inv
<1>23. Ranked(rank, top)'
  <2>1. ASSUME NEW u \in Freeing' PROVE LeadsOn(rank, app[u].cell, app[u].nxt)'
    <3>1. u \in Freeing /\ u \in App \ {t} /\ app'[u].cell = app[u].cell
          /\ app[u].nxt \in Pointer /\ app'[u].nxt = Cleared(app[u].nxt, e)
      BY <1>7, <1>10, <1>11
    <3>2. app'[u].nxt = app[u].nxt \/ app'[u].nxt = Dangling
      BY <3>1 DEF Cleared
    <3> QED
      BY <1>9, <1>22, <3>1, <3>2 DEF Ranked, LeadsOn, From
  <2>2. ASSUME NEW s \in Session PROVE Owes(rank, sess[s])'
    <3>1. ASSUME sess'[s].ctx, sess'[s].pos \in Entry, NEW m \in sess'[s].due \ sess'[s].seen
          PROVE  \E f \in Linked' : ent'[f].name = m /\ From(rank, f, sess'[s].pos)
      <4>1. sess[s].ctx /\ sess'[s].pos = sess[s].pos /\ m \in sess[s].due \ sess[s].seen
        BY <1>5, <1>8, <3>1
      <4>2. PICK f \in Linked : ent[f].name = m /\ From(rank, f, sess[s].pos)
        BY <1>22, <3>1, <4>1 DEF Ranked, Owes
      <4> QED
        BY <1>9, <4>1, <4>2
    <3> QED
      BY <3>1 DEF Owes, From
  <2>3. ASSUME NEW u \in App PROVE Ahead(rank, u)'
    <3>1. CASE u = t
      BY <1>6, <3>1 DEF Ahead
    <3>2. CASE u # t
      <4>1. ASSUME app'[u].pc = "lookup", app'[u].cell \in Entry, app'[u].name \notin overlap',
                   NEW f \in Linked', ent'[f].name = app'[u].name
            PROVE  From(rank, f, app'[u].cell)
        <5>1. app[u].pc = "lookup" /\ app'[u].cell = app[u].cell /\ app'[u].name = app[u].name
          BY <1>5, <1>7, <3>2, <4>1
        <5> QED
          BY <1>2, <1>9, <1>22, <4>1, <5>1 DEF Ranked, Ahead
      <4> QED
        BY <4>1 DEF Ahead, From
    <3> QED
      BY <3>1, <3>2
  <2> QED
    BY <1>2, <1>22, <2>1, <2>2, <2>3 DEF Ranked
<1> QED
  BY <1>13, <1>14, <1>15, <1>18, <1>19, <1>20, <1>21, <1>23 DEF Inv


----------------------------------------------------------------------------
(* The invariant. *)

\* The service starts with an empty list and no session.
LEMMA InitInv == Init => Inv
<1> SUFFICES ASSUME Init PROVE Inv
  OBVIOUS
<1>1. /\ list = <<>> /\ held = {} /\ lock = Null /\ overlap = {} /\ wrong = FALSE /\ cast \in Casts
      /\ ent = [e \in Entry |-> FreeEntry]
      /\ sess = [s \in Session |-> IdleSession] /\ app = [t \in App |-> IdleCall]
  BY DEF Init
<1>2. DOMAIN list = {} /\ Linked = {} /\ list \in Seq(Entry)
  BY <1>1 DEF Linked, ToSet
<1>3. /\ \A t \in App : app[t].pc = "idle"
      /\ Freeing = {}
  BY <1>1 DEF IdleCall, Freeing
<1>4. IdleSession \in SessionState
  BY DEF SessionState, IdleSession, Kinds, Pointer
<1>5. IdleCall \in CallState
  BY DEF CallState, IdleCall, Pointer
<1>6. TypeOK
  BY <1>1, <1>2, <1>4, <1>5 DEF TypeOK, FreeEntry
<1>7. CellsOK
  BY <1>2, <1>3 DEF CellsOK
<1>8. \A s \in Session : /\ sess[s].pos = Null /\ ~sess[s].ctx /\ sess[s] = IdleSession
  BY <1>1 DEF IdleSession
<1>9. PointersOK
  BY <1>3, <1>8, PathsApart DEF PointersOK
<1>10. AddersOK
  BY <1>3 DEF AddersOK, Adding
<1>11. Sound(IdleSession, {})
  <2> DEFINE y == IdleSession
  <2>1. /\ y.req = "none" /\ y.ph = "idle" /\ y.err = Null /\ y.why = Null /\ y.said = Null
        /\ y.hnd = NoHandle /\ y.dirty = Null /\ y.ctx = FALSE /\ ~y.dir /\ y.pos = Null
    BY DEF IdleSession
  <2>2. Null # Freed /\ Null \notin Causes
    BY PathsApart
  <2> HIDE DEF y
  <2> QED
    BY <2>1, <2>2 DEF Sound, y
<1>12. SessionsOK
  <2>1. ASSUME NEW s \in Session PROVE Sound(sess[s], HeldOf(s))
    <3>1. HeldOf(s) = {}
      BY <1>1 DEF HeldOf
    <3> QED
      BY <1>8, <1>11, <3>1
  <2> QED
    BY <2>1 DEF SessionsOK
<1>13. NamesUnique /\ ListingIsComplete
  BY <1>2, <1>8 DEF NamesUnique, ListingIsComplete
<1>14. \E rank, top : Ranked(rank, top)
  <2> DEFINE rank == [e \in Entry |-> 0]
  <2>1. rank \in [Entry -> Nat] /\ 1 \in Nat /\ \A e \in Entry : rank[e] < 1
    OBVIOUS
  <2>2. \A s \in Session : Owes(rank, sess[s])
    BY <1>8 DEF Owes
  <2>3. \A t \in App : Ahead(rank, t)
    BY <1>3 DEF Ahead
  <2>4. Ranked(rank, 1)
    BY <1>2, <1>3, <2>1, <2>2, <2>3 DEF Ranked
  <2> QED
    BY <2>4
<1> QED
  BY <1>6, <1>7, <1>9, <1>10, <1>12, <1>13, <1>14 DEF Inv

\* Nothing changes: the end of a run that used memory that is not there.
LEMMA StutterInv ==
  ASSUME Inv, UNCHANGED vars
  PROVE  Inv'
<1>1. /\ cast' = cast /\ list' = list /\ ent' = ent /\ lock' = lock /\ sess' = sess
      /\ held' = held /\ app' = app /\ overlap' = overlap /\ wrong' = wrong
  BY DEF vars
<1>2. Linked' = Linked /\ Freeing' = Freeing
  BY <1>1 DEF Linked, Freeing
<1>3. TypeOK' /\ CellsOK'
  BY <1>1, <1>2 DEF Inv, TypeOK, CellsOK
<1>4. Alive' = Alive
  BY <1>1, <1>2 DEF Alive
<1>5. PointersOK'
  BY <1>1, <1>2, <1>4 DEF Inv, PointersOK
<1>6. AddersOK'
  <2>1. Mapped' = Mapped
    BY <1>1 DEF Mapped
  <2> QED
    BY <1>1, <2>1 DEF Inv, AddersOK, Adding
<1>7. SessionsOK'
  BY <1>1, SessionsStay DEF Inv
<1>8. NamesUnique' /\ ListingIsComplete'
  BY <1>1 DEF Inv, NamesUnique, ListingIsComplete
<1>9. PICK rank, top : Ranked(rank, top)
  BY DEF Inv
<1>10. Ranked(rank, top)'
  BY <1>1, <1>2, <1>9 DEF Ranked, LeadsOn, Owes, Ahead, From
<1> QED
  BY <1>3, <1>5, <1>6, <1>7, <1>8, <1>10 DEF Inv

\* Every step of a callback or of a call keeps the invariant.
LEMMA NextInv == Inv /\ [Next]_vars => Inv'
<1> SUFFICES ASSUME Inv, [Next]_vars PROVE Inv'
  OBVIOUS
<1>1. ASSUME NEW s \in Session, Begin(s) \/ End(s) \/ Handler(s) PROVE Inv'
  BY <1>1, BeginStep, EndStep, HandlerStep
<1>2. ASSUME NEW t \in App, AppNext(t) PROVE Inv'
  BY <1>2, AddLookupStep, AddOnStep, AddLinkStep, RemoveFreeStep DEF AppNext
<1>3. ASSUME NEW t \in App, NEW n \in VDir, NEW l \in LocalDir, AddBegin(t, n, l) PROVE Inv'
  BY <1>3, AddBeginStep
<1>4. ASSUME NEW t \in App, NEW n \in VDir, RemoveUnlink(t, n) PROVE Inv'
  BY <1>4, RemoveUnlinkStep
<1>5. CASE Halted \/ UNCHANGED vars
  BY <1>5, StutterInv DEF Halted
<1> QED
  BY <1>1, <1>2, <1>3, <1>4, <1>5 DEF Next

\* The list, its entries, the pointers into it and what the sessions hold stay
\* as Inv says, through every callback of ccapi_filesystem_handler.c and every
\* call of ccapi_filesystem.c.
THEOREM Invariant == Spec => []Inv
<1>1. Init => Inv
  BY InitInv
<1>2. Inv /\ [Next]_vars => Inv'
  BY NextInv
<1> QED
  BY <1>1, <1>2, PTL DEF Spec

----------------------------------------------------------------------------
(* What it shows. *)

\* A session that is over has left nothing behind: every handle was freed and
\* every file and directory closed (ccapi_filesystem_handler.c:534, :826, :1019),
\* whichever of its requests failed and found no memory for the error.
THEOREM ReleasedCorrect == Spec => []NothingLeft
<1>1. Inv => NothingLeft
  <2> SUFFICES ASSUME Inv, NEW s \in Session, sess[s].ph = "idle", NEW k \in Things
               PROVE  <<k, s>> \notin held
    BY DEF NothingLeft
  <2>1. Sound(sess[s], HeldOf(s)) /\ Null \notin Causes
    BY PathsApart DEF Inv, SessionsOK
  <2>2. k \notin HeldOf(s)
    BY <2>1 DEF Sound, Things
  <2> QED
    BY <2>2 DEF HeldOf
<1> QED
  BY <1>1, Invariant, PTL

\* The application is told of every file that a session changed
\* (ccapi_fs_file_close), and CCFSM gets the description of the request that
\* failed (ccapi_fs_error_desc).
THEOREM ReportCorrect == Spec => []ReportIsTrue
<1>1. Inv => ReportIsTrue
  <2> SUFFICES ASSUME Inv, NEW s \in Session
               PROVE  /\ sess[s].dirty # Null =>
                           /\ sess[s].hnd # NoHandle
                           /\ sess[s].hnd.loc = sess[s].dirty /\ sess[s].hnd.kind # "READ"
                           /\ <<"file", s>> \in held
                      /\ sess[s].said \in {Null, sess[s].why}
    BY DEF ReportIsTrue, ChangeReported, AnswerIsOwn
  <2>1. Sound(sess[s], HeldOf(s))
    BY DEF Inv, SessionsOK
  <2> QED
    BY <2>1 DEF Sound, HeldOf
<1> QED
  BY <1>1, Invariant, PTL

\* The list of virtual directories stays a list that names a directory once,
\* but for names two threads added at once, and a listing of the root names
\* every directory that stays mapped, whatever is added and removed meanwhile.
THEOREM DirectoriesCorrect == Spec => []DirectoriesHold
<1>1. Inv => DirectoriesHold
  BY DEF Inv, DirectoriesHold
<1> QED
  BY <1>1, Invariant, PTL
=============================================================================
