--------------------------- MODULE ReceiveTargets ---------------------------
(***************************************************************************)
(* The targets an application registers for device requests:               *)
(* ccapi_receive.c, the lookup of ccapi_process_device_request_target, and *)
(* the end of the list when CCAPI stops.                                   *)
(*                                                                         *)
(* The targets are a linked list.  A call looks its target up without a    *)
(* lock and keeps what get_pointer_to_target_entry returns, the place of a *)
(* pointer: the list's head or the `next' of an entry.  It reads that      *)
(* place again, later, and changes it under receive_lock, where it does    *)
(* not look again.  One turn of the lookup's loop is one step.             *)
(*                                                                         *)
(* Callbacks and limits are left out: a session that finds an entry takes  *)
(* those of the entry's name.                                              *)
(***************************************************************************)
EXTENDS Naturals, FiniteSets

CONSTANTS App,          \* threads of the application
          Name,         \* names of targets
          Cell,         \* the memory for entries
          Connector,    \* the connector thread, which looks up for CCFSM
          Null,
          MaxFailures   \* bound: allocations and locks that fail

ASSUME NullIsNoCell ==
  Null \notin Cell \cup App \cup Name /\ Connector \notin App \cup {Null} /\ "head" \notin Cell
ASSUME FailuresAreCounted == MaxFailures \in Nat

VARIABLES head,      \* service.receive.target_list
          entry,     \* per cell, a ccapi_receive_target_t, or Freed
          receive_lock,      \* who holds receive_lock
          call,      \* per thread, where it is
          stopped,   \* ccapi_stop has freed the list
          failed,  \* for the bound
          orphans,    \* history: entries nobody will free
          twins,     \* history: names added by two calls at once
          wrong      \* history: memory was used that is not there (the run ends)

targets_vars == <<head, entry, receive_lock, call, stopped, failed, orphans, twins, wrong>>

Thread == App \cup {Connector}
Head == "head"                          \* the place &target_list
Freed == [name |-> Null, next |-> Null]
Live(c) == entry[c] # Freed

\* op, name: what the call is for; place: of the pointer it looks at; new: the
\* entry it adds; next: of the entry it removes; history: met, what others did
\* meanwhile that matters to it, twin, whether they added its target, and due,
\* whether that was there when it began.
NoCall == [pc |-> "idle", op |-> "none", name |-> Null, place |-> Head,
           new |-> Null, next |-> Null, met |-> "nothing", twin |-> FALSE, due |-> FALSE]

At(t, pc) == call[t].pc = pc /\ ~wrong
PlaceThere(t) == call[t].place \in {Head} \cup {c \in Cell : Live(c)}
Pointed(t) == IF call[t].place = Head THEN head ELSE entry[call[t].place].next

\* The entries that can be reached from a pointer, along the pointers `next'.
Reach(next, pointer) ==
  {c \in Cell : \A S \in SUBSET Cell :
     pointer \in S \cup {Null} /\ (\A d \in S : next[d] \in S \cup {Null}) => c \in S}

List == Reach([c \in Cell |-> entry[c].next], head)

Listed(n) == \E c \in List : entry[c].name = n

TargetsTypeOK ==
  /\ head \in Cell \cup {Null} /\ receive_lock \in Thread \cup {Null}
  /\ entry \in [Cell -> [name : Name \cup {Null}, next : Cell \cup {Null}]]
  /\ \A t \in Thread :
       /\ call[t].pc \in {"idle", "walk", "found", "acquire", "change", "relink", "release"}
       /\ call[t].place \in Cell \cup {Head} /\ call[t].new \in Cell \cup {Null}
       /\ call[t].pc \in {"change", "relink"} => receive_lock = t
  /\ orphans \subseteq Cell /\ twins \subseteq Name /\ failed \in 0..MaxFailures

TargetsInit ==
  /\ head = Null /\ entry = [c \in Cell |-> Freed] /\ receive_lock = Null
  /\ call = [t \in Thread |-> NoCall] /\ stopped = FALSE /\ failed = 0
  /\ orphans = {} /\ twins = {} /\ wrong = FALSE

----------------------------------------------------------------------------
Set(t, c) == call' = [call EXCEPT ![t] = c]
Goes(t, pc) == Set(t, [call[t] EXCEPT !.pc = pc])
Return(t) == Set(t, NoCall)
Changed == [NoCall EXCEPT !.pc = "release"]

\* An addition comes in front of what the others have looked up at the head, a
\* removal may take away what they look at.
Meets(u) == call[u].pc \in {"walk", "found", "acquire"}
MeetAdd(u, n) ==
  IF ~Meets(u) \/ call[u].met = "removal" THEN call[u]
  ELSE [call[u] EXCEPT !.twin = @ \/ (call[u].op = "add" /\ call[u].name = n),
          !.met = IF call[u].place = Head /\ call[u].pc # "walk" THEN "add" ELSE @]
MeetRemoval(u) ==
  IF Meets(u) THEN [call[u] EXCEPT !.met = "removal", !.twin = FALSE, !.due = FALSE] ELSE call[u]

Fails == failed < MaxFailures /\ failed' = failed + 1
UseFails == wrong' = TRUE
           /\ UNCHANGED <<head, entry, receive_lock, call, stopped, failed, orphans, twins>>

\* ccxapi_receive_add_target, ccxapi_receive_remove_target or CCFSM's target
\* callback begins to look for n.
Begin(t, op, n) ==
  /\ At(t, "idle") /\ ~stopped
  /\ t = Connector <=> op = "serve"
  /\ Set(t, [NoCall EXCEPT !.pc = "walk", !.op = op, !.name = n, !.due = Listed(n),
                 !.met = IF \E u \in Thread : At(u, "relink") THEN "removal" ELSE "nothing"])
  /\ UNCHANGED <<head, entry, receive_lock, stopped, failed, orphans, twins, wrong>>

\* A turn of the loop of get_pointer_to_target_entry.
Walk(t) ==
  /\ At(t, "walk")
  /\ LET found == Pointed(t) IN
       IF ~PlaceThere(t) \/ (found # Null /\ ~Live(found)) THEN UseFails
       ELSE /\ IF found = Null \/ entry[found].name = call[t].name THEN Goes(t, "found")
               ELSE Set(t, [call[t] EXCEPT !.place = found])
            /\ UNCHANGED <<head, entry, receive_lock, stopped, failed, orphans, twins, wrong>>

\* The place is read again.
Found(t, op) == At(t, "found") /\ call[t].op = op
FoundGone(t) == At(t, "found") /\ ~PlaceThere(t) /\ UseFails

\* ccapi_process_device_request_target: the session takes the entry's callbacks,
\* or, if there is none, those for any target.
Serve(t) ==
  /\ Found(t, "serve") /\ PlaceThere(t)
  /\ IF Pointed(t) # Null /\ ~Live(Pointed(t)) THEN UseFails
     ELSE Return(t) /\ UNCHANGED <<head, entry, receive_lock, stopped, failed, orphans, twins, wrong>>

\* Mutant: a target may be added again.
TakenNever(t) == FALSE

Taken(t) == Pointed(t) # Null

\* TARGET_ALREADY_ADDED, TARGET_NOT_ADDED, INSUFFICIENT_MEMORY
Refused(t) ==
  /\ PlaceThere(t)
  /\ \/ Found(t, "add") /\ Taken(t) /\ UNCHANGED failed
     \/ Found(t, "add") /\ ~Taken(t) /\ Fails
     \/ Found(t, "remove") /\ Pointed(t) = Null /\ UNCHANGED failed
  /\ Return(t)
  /\ UNCHANGED <<head, entry, receive_lock, stopped, orphans, twins, wrong>>

Created(t, c) ==
  /\ Found(t, "add") /\ PlaceThere(t) /\ ~Taken(t) /\ ~Live(c)
  /\ entry' = [entry EXCEPT ![c] = [name |-> call[t].name, next |-> Null]]
  /\ Set(t, [call[t] EXCEPT !.pc = "acquire", !.new = c, !.place = Head, !.due = FALSE,
                             !.met = IF @ = "add" THEN "nothing" ELSE @])
  /\ UNCHANGED <<head, receive_lock, stopped, failed, orphans, twins, wrong>>

Chosen(t) ==
  /\ Found(t, "remove") /\ PlaceThere(t) /\ Pointed(t) # Null
  /\ Set(t, [call[t] EXCEPT !.pc = "acquire", !.due = FALSE])
  /\ UNCHANGED <<head, entry, receive_lock, stopped, failed, orphans, twins, wrong>>

----------------------------------------------------------------------------
\* Without the lock the call gives up, and an add forgets its new entry.
Acquire(t) ==
  /\ At(t, "acquire")
  /\ \/ /\ receive_lock = Null /\ receive_lock' = t /\ Goes(t, "change") /\ UNCHANGED <<failed, orphans>>
     \/ /\ Fails /\ Return(t) /\ UNCHANGED receive_lock
        /\ orphans' = IF call[t].op = "add" THEN orphans \cup {call[t].new} ELSE orphans
  /\ UNCHANGED <<head, entry, stopped, twins, wrong>>

\* add_target_entry
Link(t) ==
  /\ At(t, "change") /\ call[t].op = "add"
  /\ entry' = [entry EXCEPT ![call[t].new].next = head] /\ head' = call[t].new
  /\ call' = [u \in Thread |-> IF u = t THEN Changed ELSE MeetAdd(u, call[t].name)]
  /\ twins' = IF call[t].twin \/ call[t].met = "removal" THEN twins \cup {call[t].name}
              ELSE twins
  /\ UNCHANGED <<receive_lock, stopped, failed, orphans, wrong>>

\* ccxapi_receive_remove_target: the entry the place points to by now is freed,
\* then taken out.
Free(t) ==
  /\ At(t, "change") /\ call[t].op = "remove"
  /\ LET target == Pointed(t) IN
       IF ~PlaceThere(t) \/ target = Null THEN UseFails
       ELSE IF ~Live(target) THEN UseFails
       ELSE /\ entry' = [entry EXCEPT ![target] = Freed]
            /\ call' = [u \in Thread |->
                 IF u # t THEN MeetRemoval(u)
                 ELSE [call[t] EXCEPT !.pc = "relink", !.next = entry[target].next]]
            /\ UNCHANGED <<head, receive_lock, stopped, failed, orphans, twins, wrong>>

Relink(t) ==
  /\ At(t, "relink") /\ Set(t, Changed)
  /\ IF call[t].place = Head THEN head' = call[t].next /\ UNCHANGED entry
     ELSE entry' = [entry EXCEPT ![call[t].place].next = call[t].next] /\ UNCHANGED head
  /\ UNCHANGED <<receive_lock, stopped, failed, orphans, twins, wrong>>

\* A lock that cannot be released stays taken; the change was made.
Release(t) ==
  /\ At(t, "release") /\ Return(t)
  /\ \/ receive_lock' = Null /\ UNCHANGED failed
     \/ Fails /\ UNCHANGED receive_lock
  /\ UNCHANGED <<head, entry, stopped, orphans, twins, wrong>>

\* free_receive_target_list, when the application's calls are over.
Stop ==
  /\ ~stopped /\ ~wrong /\ receive_lock = Null /\ \A t \in Thread : call[t].pc = "idle"
  /\ stopped' = TRUE /\ entry' = [c \in Cell |-> IF c \in List THEN Freed ELSE entry[c]]
  /\ head' = Null
  /\ UNCHANGED <<receive_lock, call, failed, orphans, twins, wrong>>

TargetsNext ==
  \/ \E t \in Thread :
       \/ \E op \in {"add", "remove", "serve"}, n \in Name : Begin(t, op, n)
       \/ Walk(t) \/ FoundGone(t) \/ Serve(t) \/ Refused(t) \/ Chosen(t)
       \/ \E c \in Cell : Created(t, c)
       \/ Acquire(t) \/ Link(t) \/ Free(t) \/ Relink(t) \/ Release(t)
  \/ Stop

TargetsSpec == TargetsInit /\ [][TargetsNext]_targets_vars

----------------------------------------------------------------------------
(* Properties. *)

\* The place a call kept still is what it looked up: no other call removed an
\* entry since, and none added one in front when the place is the list's head.
PlaceHolds(t) == call[t].met = "nothing"

\* What a call finds is its own target, and it finds it if it was there when it
\* began: also while others add targets.  A session gets no other target's
\* callbacks, an add is not refused for another target, and a removal frees no
\* other entry (ccapi_data_handler.c:302, ccapi_receive.c:121, :214).  When the
\* place no longer holds, they do.
FindsOwn ==
  \A t \in Thread :
    ~wrong /\ call[t].pc \in {"found", "change"} /\ call[t].new = Null /\ PlaceHolds(t) =>
      IF Pointed(t) = Null THEN call[t].pc = "found" /\ ~call[t].due
      ELSE entry[Pointed(t)].name = call[t].name

\* Nobody is between freeing an entry and taking it out.
Whole == ~wrong /\ \A t \in Thread : call[t].pc # "relink"

\* A name is in the list once, unless two calls added it together or a removal
\* misled the lookup, which is made before the lock (ccapi_receive.c:121, :31).
NamesUnique ==
  Whole => \A c, d \in List : entry[c].name = entry[d].name /\ c # d => entry[c].name \in twins

\* No target is lost: an entry is in the list, in the hands of the call that is
\* adding it, or was given up by one that did not get the lock
\* (ccapi_receive.c:39); a stop frees all of the list.
NothingLost ==
  Whole =>
    {c \in Cell : Live(c)} = List \cup ({call[t].new : t \in Thread} \ {Null}) \cup orphans

\* Freed memory is met only when a removal overlaps another call: the lock is
\* taken after the lookup (ccapi_receive.c:195, :202).
WalkIsSafe == wrong => \E t \in Thread : call[t].met = "removal"

\* The list holds every target once and nothing else, and who looks for a target
\* finds that one, as far as calls that overlap allow.
TargetsHold == TargetsTypeOK /\ FindsOwn /\ NamesUnique /\ NothingLost /\ WalkIsSafe
=============================================================================
