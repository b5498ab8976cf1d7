-------------------------- MODULE RciServiceProofs --------------------------
(***************************************************************************)
(* Proofs about RciService, for every application (the callbacks it        *)
(* provides and the errors it returns), all names and every depth of       *)
(* lists.                                                                  *)
(*                                                                         *)
(* The invariant has four layers: where CCFSM is in the request of the     *)
(* server (Where); that the thread and its queue of one are in step        *)
(* (InStep); what was called and what it returned (Told); what rci_info    *)
(* holds of the place CCFSM is in (Mirror).                                *)
(***************************************************************************)
EXTENDS RciService, TLAPS

Names(S) == S \cup {Zero}
Remotes ==
    [action : Actions, type : Types, compare_to : CompareTo, embed : BOOLEAN,
     group : Names(Groups), item : Names(Items), locked : BOOLEAN,
     depth : 0 .. MaxDepth, level : [Levels -> Names(Items)],
     level_locked : [Levels -> BOOLEAN], element : Names(Elements), user_context : BOOLEAN]
CallbackTypes == {"none", "base", "lock", "element", "transform"}
Callbacks == [type : CallbackTypes, function : Functions \cup {"none"}, error : AllErrors]
Verdicts == [error : AllErrors, matches : Writes]
Answers == [request : Requests \cup {"none"}, error : AllErrors, matches : BOOLEAN,
            carried : BOOLEAN]
Statuses == {"running", "request_stop", "not_started"}
Counters == {"acquire", "check", "callback", "update", "mark", "stopped"}
Places == {"none", "session", "action", "instances", "group", "list_instances"}

Typed ==
    /\ handlers \subseteq Functions
    /\ status \in Statuses /\ lock \in Nat /\ pc \in Counters
    /\ function \in Functions \cup {"none"}
    /\ rci_thread_status \in {"idle", "queued", "processed"}
    /\ callback \in Callbacks /\ rci_info \in Infos /\ remote \in Remotes
    /\ request \in Requests \cup {"none"} /\ place \in Places
    /\ answer \in Answers /\ verdict \in Verdicts /\ called \in Nat
    /\ stored \in BOOLEAN /\ carried \in BOOLEAN
    /\ ccfsm \in BOOLEAN /\ owed \in BOOLEAN /\ lostsync \in BOOLEAN /\ overrun \in BOOLEAN
    /\ handlers \in HandlerSets

-----------------------------------------------------------------------------
(* Where CCFSM is. *)

\* Where a request is made.
AskedIn(r) ==
    CASE r = "session_start" -> {"none"}
      [] r \in {"session_end", "action_start"} -> {"session"}
      [] r \in Commands \cup {"action_end", "group_instances_lock"} -> {"action"}
      [] r \in {"group_instances_set", "group_instance_remove", "group_instances_unlock"} ->
            {"instances"}
      [] r = "group_start" -> {"action", "instances"}
      [] r \in {"group_end", "list_instances_lock", "list_end", "element_process"} -> {"group"}
      [] r \in {"list_instances_set", "list_instance_remove", "list_instances_unlock"} ->
            {"list_instances"}
      [] r = "list_start" -> {"group", "list_instances"}

\* The requests that are about a list.
AboutList == ListInstances \cup {"list_start", "list_end"}

Where ==
    /\ request # "none" => place \in AskedIn(request)
    /\ request \in Commands => remote.action = request
    /\ request \in {"group_start", "group_instances_lock"} /\ place = "action" =>
         remote.action # "do_command"
    /\ place = "list_instances" \/ request \in AboutList => remote.depth > 0
    /\ place \notin {"group", "list_instances"} \/ request = "group_end" => remote.depth = 0

-----------------------------------------------------------------------------
(* What the operators of the handler return. *)

LEMMA Kinds ==
    /\ Requests \subseteq Functions \cup {"element_process"}
    /\ ElementFunctions \subseteq Functions /\ "element_process" \notin Functions
    /\ "none" \notin Functions \cup Requests
    /\ "none" \in AllErrors /\ "bad_value" \in AllErrors
BY DEF Requests, Functions, PlainRequests, ElementFunctions, AllErrors, Commands,
       GroupInstances, ListInstances

LEMMA InitialTypes ==
    /\ NewRemote \in Remotes /\ NoCallback \in Callbacks /\ NoVerdict \in Verdicts
    /\ NoAnswer \in Answers
    /\ \A old \in Garbage : NewInfo(old) \in Infos
<1>1. 0 \in 0 .. MaxDepth
  BY DepthAssumption
<1>2. NewRemote \in Remotes
  BY <1>1 DEF NewRemote, Remotes, Names, NoLevels, Actions, Types, CompareTo
<1>3. NoCallback \in Callbacks /\ NoVerdict \in Verdicts /\ NoAnswer \in Answers
  BY Kinds DEF NoCallback, Callbacks, CallbackTypes, NoVerdict, Verdicts, Writes, NoAnswer,
                  Answers
<1>4. ASSUME NEW old \in Garbage PROVE NewInfo(old) \in Infos
  <2>1. /\ old.action \in Actions /\ old.type \in Types
        /\ old.matches \in BOOLEAN /\ old.embed \in BOOLEAN
    BY GarbageAssumption DEF Actions, Types
  <2> QED BY <1>1, <2>1 DEF NewInfo, Infos, NoLevels, CompareTo
<1> QED BY <1>2, <1>3, <1>4

LEMMA Clears ==
    ASSUME NEW info \in Infos
    PROVE  /\ ClearGroup(info) \in Infos /\ ClearAllLists(info) \in Infos
           /\ ClearElement(info) \in Infos
           /\ \A l \in Levels : ClearList(info, l) \in Infos
<1>1. 0 \in 0 .. MaxDepth /\ NoLevels \in [Levels -> Items \cup {Zero}]
  BY DepthAssumption DEF NoLevels
<1>2. ClearGroup(info) \in Infos
  BY DEF ClearGroup, Infos
<1>3. ClearElement(info) \in Infos
  BY DEF ClearElement, Infos
<1>4. ClearAllLists(info) \in Infos
  BY <1>1 DEF ClearAllLists, Infos
<1>5. ASSUME NEW l \in Levels PROVE ClearList(info, l) \in Infos
  BY DEF ClearList, Infos
<1> QED BY <1>2, <1>3, <1>4, <1>5

\* ClearAll field by field.
LEMMA ClearAllIs ==
    ASSUME NEW info \in Infos
    PROVE  /\ ClearAll(info) \in Infos
           /\ ClearAll(info) = [info EXCEPT !.group = Zero, !.item = Zero, !.depth = 0,
                                            !.list = NoLevels, !.element = Zero]
<1>1. ClearAll(info) = [info EXCEPT !.group = Zero, !.item = Zero, !.depth = 0,
                                    !.list = NoLevels, !.element = Zero]
  BY DEF ClearAll, ClearElement, ClearAllLists, ClearGroup
<1>2. ClearAll(info) \in Infos
  BY Clears DEF ClearAll
<1> QED BY <1>1, <1>2


LEMMA EnterTypes ==
    ASSUME NEW info \in Infos, NEW m \in Remotes
    PROVE  /\ EnterGroup(info, m) \in Infos /\ EnterList(info, m) \in Infos
           /\ ElementPrepared(info, m) \in Infos
<1>1. [info EXCEPT !.group = m.group] \in Infos
  BY DEF Infos, Remotes, Names
<1>2. [info EXCEPT !.depth = m.depth] \in Infos
  BY DEF Infos, Remotes
<1>3. ElementPrepared(info, m) \in Infos
  BY DEF ElementPrepared, Infos, Remotes, Names
<1>4. EnterGroup(info, m) \in Infos
  BY <1>1, Clears DEF EnterGroup
<1>5. EnterList(info, m) \in Infos
  BY <1>2, Clears DEF EnterList
<1> QED BY <1>3, <1>4, <1>5

LEMMA StartTypes ==
    ASSUME NEW info \in Infos, NEW m \in Remotes
    PROVE  StartSession(info) \in Infos /\ StartAction(info, m) \in Infos
<1>1. ClearAll(info) \in Infos
  BY ClearAllIs
<1> DEFINE cleared == ClearAll(info)
<1> HIDE DEF cleared
<1>2. [cleared EXCEPT !.action = "query", !.type = "setting", !.compare_to = "none",
                      !.matches = FALSE, !.command = FALSE] \in Infos
  BY <1>1 DEF Infos, Actions, Types, CompareTo, cleared
<1>3. Embed(info, m) \in BOOLEAN
  BY DEF Embed, Infos, Remotes
<1>4. m.action \in Actions /\ m.type \in Types /\ m.compare_to \in CompareTo
  BY DEF Remotes
<1> DEFINE query == m.action = "query" /\ m.type = "setting"
<1>5. ASSUME NEW e \in BOOLEAN, NEW c \in CompareTo, NEW b \in BOOLEAN
      PROVE  [cleared EXCEPT !.action = m.action, !.type = m.type, !.compare_to = c,
                             !.matches = b, !.embed = e] \in Infos
  BY <1>1, <1>4 DEF Infos, cleared
<1>6. cleared.compare_to \in CompareTo /\ cleared.matches \in BOOLEAN
  BY <1>1 DEF Infos, cleared
<1>7. (IF query THEN m.compare_to ELSE cleared.compare_to) \in CompareTo
      /\ (IF query THEN FALSE ELSE cleared.matches) \in BOOLEAN
  BY <1>4, <1>6
<1> QED BY <1>2, <1>3, <1>5, <1>7 DEF StartSession, StartAction, cleared

LEMMA PreparedType ==
    ASSUME NEW r \in Requests, NEW info \in Infos, NEW m \in Remotes
    PROVE  Prepared(r, info, m) \in Infos
<1>1. CASE r = "session_start"
  BY <1>1, StartTypes DEF Prepared, GroupInstances, ListInstances
<1>2. CASE r = "action_start"
  BY <1>2, StartTypes DEF Prepared, GroupInstances, ListInstances
<1>3. CASE r = "do_command"
  BY <1>3 DEF Prepared, Infos, GroupInstances, ListInstances
<1>4. CASE r \in GroupInstances \cup {"group_start"}
  <2>1. ASSUME NEW i \in Infos PROVE [i EXCEPT !.item = m.item] \in Infos
    BY DEF Infos, Remotes, Names
  <2>2. GroupPrepared(r, info, m) \in Infos
    <3>1. CASE r \in {"group_instances_lock", "group_instances_unlock"}
      BY <3>1, EnterTypes DEF GroupPrepared
    <3>2. CASE r = "group_instances_set"
      BY <3>2, <2>1 DEF GroupPrepared
    <3>3. CASE r \in {"group_instance_remove", "group_start"}
      BY <3>3, <2>1, EnterTypes DEF GroupPrepared
    <3> QED BY <1>4, <3>1, <3>2, <3>3 DEF GroupInstances
  <2> QED BY <1>4, <2>2 DEF Prepared, GroupInstances, ListInstances
<1>5. CASE r \in ListInstances \cup {"list_start"}
  <2>1. ASSUME NEW i \in Infos PROVE [i EXCEPT !.list[m.depth] = m.level[m.depth]] \in Infos
    BY DEF Infos, Remotes, Names, Levels
  <2>2. ListPrepared(r, info, m) \in Infos
    <3>1. CASE r \in {"list_instances_lock", "list_instances_unlock"}
      BY <3>1, EnterTypes DEF ListPrepared
    <3>2. CASE r = "list_instances_set"
      BY <3>2, <2>1 DEF ListPrepared
    <3>3. CASE r \in {"list_instance_remove", "list_start"}
      BY <3>3, <2>1, EnterTypes DEF ListPrepared
    <3> QED BY <1>5, <3>1, <3>2, <3>3 DEF ListInstances
  <2> QED BY <1>5, <2>2 DEF Prepared, ListInstances, GroupInstances
<1>6. CASE r = "element_process"
  BY <1>6, EnterTypes DEF Prepared, GroupInstances, ListInstances
<1>7. CASE r = "list_end"
  BY <1>7 DEF Prepared, Infos, Remotes, GroupInstances, ListInstances
<1>8. CASE r \notin {"session_start", "action_start", "do_command", "group_start",
                     "list_start", "element_process", "list_end"}
                    \cup GroupInstances \cup ListInstances
  BY <1>8 DEF Prepared, GroupInstances, ListInstances
<1> QED BY <1>1, <1>2, <1>3, <1>4, <1>5, <1>6, <1>7, <1>8

LEMMA ClearedAfterType ==
    ASSUME Typed, NEW r \in Requests
    PROVE  ClearedAfter(r) \in Infos
<1>1. rci_info \in Infos
  BY DEF Typed
<1>2. MatchesAfterElement \in BOOLEAN
  BY DEF MatchesAfterElement
<1>3. ASSUME NEW b \in BOOLEAN PROVE /\ [rci_info EXCEPT !.matches = b] \in Infos
                                    /\ [rci_info EXCEPT !.command = @ /\ b] \in Infos
  BY <1>1 DEF Infos
<1>4. CASE r = "list_end"
  BY <1>1, <1>4, Clears DEF ClearedAfter
<1>5. CASE r = "group_end"
  BY <1>1, <1>5, ClearAllIs DEF ClearedAfter
<1>6. CASE r = "action_end"
  BY <1>3, <1>6 DEF ClearedAfter
<1>7. CASE r = "element_process"
  BY <1>2, <1>3, <1>7 DEF ClearedAfter
<1>8. CASE r \notin {"list_end", "group_end", "action_end", "element_process"}
  BY <1>1, <1>8 DEF ClearedAfter
<1> QED BY <1>4, <1>5, <1>6, <1>7, <1>8

LEMMA FunctionOfType ==
    ASSUME NEW r \in Requests
    PROVE  /\ FunctionOf(r) \in Functions \cup {"none"}
           /\ TypeOf(FunctionOf(r)) \in CallbackTypes
           /\ FunctionOf(r) # "none" => TypeOf(FunctionOf(r)) # "none"
<1>1. ElementFunction \in ElementFunctions \cup {"none"}
  BY DEF ElementFunction, ElementFunctions
<1>2. FunctionOf(r) \in Functions \cup {"none"}
  BY <1>1, Kinds DEF FunctionOf
<1>3. ASSUME NEW f PROVE TypeOf(f) \in CallbackTypes /\ (f # "none" => TypeOf(f) # "none")
  BY DEF TypeOf, CallbackTypes
<1> QED BY <1>2, <1>3


-----------------------------------------------------------------------------
(* The requests CCFSM makes, and where they leave it. *)

LEMMA ListDepthType ==
    ASSUME Typed, Where, Deeper \/ InList
    PROVE  ListDepth \in Levels /\ ListDepth >= remote.depth
<1>1. remote.depth \in 0 .. MaxDepth /\ MaxDepth \in Nat
  BY DepthAssumption DEF Typed, Remotes
<1>2. CASE InList
  BY <1>1, <1>2 DEF ListDepth, InList, Where, Levels
<1>3. CASE ~InList
  BY <1>1, <1>3 DEF ListDepth, Deeper, InList, Levels
<1> QED BY <1>2, <1>3

LEMMA AskedPlace ==
    ASSUME NEW r \in Requests, CanAsk(r)
    PROVE  place \in AskedIn(r) /\ (r \in Commands => remote.action = r)
<1>1. CASE r \in {"session_start", "session_end", "action_start", "action_end"}
  BY <1>1 DEF CanAsk, AskedIn, Commands, InAction, InList, Deeper
<1>2. CASE r \in Commands
  BY <1>2 DEF CanAsk, AskedIn, Commands, InAction, InList, Deeper
<1>3. CASE r \in GroupInstances \cup {"group_start", "group_end"}
  BY <1>3 DEF CanAsk, AskedIn, Commands, InAction, InList, Deeper, GroupInstances
<1>4. CASE r \in AboutList \cup {"element_process"}
  BY <1>4 DEF CanAsk, AskedIn, Commands, InAction, InList, Deeper, AboutList, ListInstances
<1> QED BY <1>1, <1>2, <1>3, <1>4 DEF Requests, PlainRequests, AboutList

\* The requests that go one level down or to another instance of a list.
IntoList == {"list_instances_lock", "list_instances_set", "list_instance_remove", "list_start"}

\* The requests whose remote_config is the one before.
Unchanged == Requests \ ({"session_start", "action_start", "group_start",
                           "group_instances_lock", "group_instances_set",
                           "group_instance_remove", "element_process"} \cup IntoList)

LEMMA AskedMembers ==
    /\ \A m \in AskedWith("session_start") : m = NewRemote
    /\ \A m \in AskedWith("action_start") : \E a \in StartedActions :
      m = [remote EXCEPT !.action = a.action, !.type = a.type,
                         !.compare_to = a.compare_to, !.embed = a.embed]
    /\ \A m \in AskedWith("group_instances_lock") :
            \E g \in Groups : m = [remote EXCEPT !.group = g, !.locked = TRUE]
    /\ \A m \in AskedWith("group_instances_set") :
            \E i \in Items : m = [remote EXCEPT !.item = i]
    /\ \A m \in AskedWith("group_instance_remove") :
            \E i \in Items : m = [remote EXCEPT !.item = i]
    /\ \A m \in AskedWith("group_start") :
            \E g \in IF remote.locked THEN {remote.group} ELSE Groups, i \in Items :
      m = [remote EXCEPT !.group = g, !.item = i]
    /\ \A m \in AskedWith("list_instances_lock") :
            m = [remote EXCEPT !.depth = ListDepth, !.level_locked[ListDepth] = TRUE]
    /\ \A m \in AskedWith("list_instances_set") : \E i \in Items :
      m = [remote EXCEPT !.depth = ListDepth, !.level[ListDepth] = i]
    /\ \A m \in AskedWith("list_instance_remove") : \E i \in Items :
      m = [remote EXCEPT !.depth = ListDepth, !.level[ListDepth] = i]
    /\ \A m \in AskedWith("list_start") : \E i \in Items :
      m = [remote EXCEPT !.depth = ListDepth, !.level[ListDepth] = i]
    /\ \A m \in AskedWith("element_process") :
            \E e \in Elements : m = [remote EXCEPT !.element = e]
    /\ \A r \in Unchanged : \A m \in AskedWith(r) : m = remote
<1>1. \A m \in AskedWith("session_start") : m = NewRemote
  <2>1. AskedWith("session_start") = {NewRemote}
    BY DEF AskedWith
  <2> QED BY <2>1
<1>2. \A m \in AskedWith("action_start") : \E a \in StartedActions :
      m = [remote EXCEPT !.action = a.action, !.type = a.type,
                         !.compare_to = a.compare_to, !.embed = a.embed]
  <2>1. AskedWith("action_start") = {[remote EXCEPT !.action = a.action, !.type = a.type,
                     !.compare_to = a.compare_to, !.embed = a.embed] : a \in StartedActions}
    BY DEF AskedWith
  <2> QED BY <2>1
<1>3. \A m \in AskedWith("group_instances_lock") :
        \E g \in Groups : m = [remote EXCEPT !.group = g, !.locked = TRUE]
  <2>1. AskedWith("group_instances_lock") =
          {[remote EXCEPT !.group = g, !.locked = TRUE] : g \in Groups}
    BY DEF AskedWith
  <2> QED BY <2>1
<1>4. \A m \in AskedWith("group_instances_set") :
        \E i \in Items : m = [remote EXCEPT !.item = i]
  <2>1. AskedWith("group_instances_set") = {[remote EXCEPT !.item = i] : i \in Items}
    BY DEF AskedWith
  <2> QED BY <2>1
<1>5. \A m \in AskedWith("group_instance_remove") :
        \E i \in Items : m = [remote EXCEPT !.item = i]
  <2>1. AskedWith("group_instance_remove") = {[remote EXCEPT !.item = i] : i \in Items}
    BY DEF AskedWith
  <2> QED BY <2>1
<1>6. \A m \in AskedWith("group_start") :
        \E g \in IF remote.locked THEN {remote.group} ELSE Groups, i \in Items :
      m = [remote EXCEPT !.group = g, !.item = i]
  <2> DEFINE open == IF remote.locked THEN {remote.group} ELSE Groups
  <2> DEFINE at(g, i) == [remote EXCEPT !.group = g, !.item = i]
  <2>1. AskedWith("group_start") = {at(g, i) : g \in open, i \in Items}
    BY DEF AskedWith
  <2> HIDE DEF open, at
  <2>2. \A m \in AskedWith("group_start") : \E g \in open, i \in Items : m = at(g, i)
    BY <2>1
  <2> QED BY <2>2 DEF open, at
<1>7. \A m \in AskedWith("list_instances_lock") :
        m = [remote EXCEPT !.depth = ListDepth, !.level_locked[ListDepth] = TRUE]
  <2>1. AskedWith("list_instances_lock") =
          {[remote EXCEPT !.depth = ListDepth, !.level_locked[ListDepth] = TRUE]}
    BY DEF AskedWith
  <2> QED BY <2>1
<1>8. \A m \in AskedWith("list_instances_set") : \E i \in Items :
      m = [remote EXCEPT !.depth = ListDepth, !.level[ListDepth] = i]
  <2>1. AskedWith("list_instances_set") =
          {[remote EXCEPT !.depth = ListDepth, !.level[ListDepth] = i] : i \in Items}
    BY DEF AskedWith
  <2> QED BY <2>1
<1>9. \A m \in AskedWith("list_instance_remove") : \E i \in Items :
      m = [remote EXCEPT !.depth = ListDepth, !.level[ListDepth] = i]
  <2>1. AskedWith("list_instance_remove") =
          {[remote EXCEPT !.depth = ListDepth, !.level[ListDepth] = i] : i \in Items}
    BY DEF AskedWith
  <2> QED BY <2>1
<1>10. \A m \in AskedWith("list_start") : \E i \in Items :
      m = [remote EXCEPT !.depth = ListDepth, !.level[ListDepth] = i]
  <2>1. AskedWith("list_start") =
          {[remote EXCEPT !.depth = ListDepth, !.level[ListDepth] = i] : i \in Items}
    BY DEF AskedWith
  <2> QED BY <2>1
<1>11. \A m \in AskedWith("element_process") :
        \E e \in Elements : m = [remote EXCEPT !.element = e]
  <2>1. AskedWith("element_process") = {[remote EXCEPT !.element = e] : e \in Elements}
    BY DEF AskedWith
  <2> QED BY <2>1
<1>12. \A r \in Unchanged : \A m \in AskedWith(r) : m = remote
  <2>1. AskedWith("session_end") = {remote}
    BY DEF AskedWith
  <2>2. AskedWith("action_end") = {remote}
    BY DEF AskedWith
  <2>3. AskedWith("do_command") = {remote}
    BY DEF AskedWith
  <2>4. AskedWith("reboot") = {remote}
    BY DEF AskedWith
  <2>5. AskedWith("set_factory_def") = {remote}
    BY DEF AskedWith
  <2>6. AskedWith("group_instances_unlock") = {remote}
    BY DEF AskedWith
  <2>7. AskedWith("group_end") = {remote}
    BY DEF AskedWith
  <2>8. AskedWith("list_instances_unlock") = {remote}
    BY DEF AskedWith
  <2>9. AskedWith("list_end") = {remote}
    BY DEF AskedWith
  <2>10. Unchanged = {"session_end", "action_end", "do_command", "reboot",
                      "set_factory_def", "group_instances_unlock", "group_end",
                      "list_instances_unlock", "list_end"}
    BY DEF Unchanged, IntoList, Requests, PlainRequests, Commands, GroupInstances, ListInstances
  <2> QED BY <2>1, <2>2, <2>3, <2>4, <2>5, <2>6, <2>7, <2>8, <2>9, <2>10
<1> QED BY <1>1, <1>2, <1>3, <1>4, <1>5, <1>6, <1>7, <1>8, <1>9, <1>10, <1>11, <1>12

LEMMA AskedFacts ==
    ASSUME Typed, Where, NEW r \in Requests, CanAsk(r), NEW m \in AskedWith(r)
    PROVE  /\ m \in Remotes
           /\ m.user_context = IF r = "session_start" THEN FALSE ELSE remote.user_context
           /\ r # "action_start" /\ r # "session_start" =>
                m.action = remote.action /\ m.type = remote.type
                /\ m.compare_to = remote.compare_to /\ m.embed = remote.embed
           /\ m.depth = IF r \in IntoList THEN ListDepth
                        ELSE IF r = "session_start" THEN 0 ELSE remote.depth
           /\ r # "session_start" =>
                \A l \in Levels : r \notin IntoList \/ l # ListDepth =>
                                    m.level[l] = remote.level[l]
           /\ r \notin GroupInstances \cup {"session_start", "group_start"} =>
                m.group = remote.group /\ m.item = remote.item
<1>1. remote \in Remotes
  BY DEF Typed
<1>2. CASE r = "session_start"
  <2>1. m = NewRemote
    BY <1>2, AskedMembers
  <2> QED BY <1>2, <2>1, InitialTypes DEF NewRemote, IntoList, GroupInstances
<1>3. CASE r = "action_start"
  <2>1. PICK a \in StartedActions :
          m = [remote EXCEPT !.action = a.action, !.type = a.type,
                             !.compare_to = a.compare_to, !.embed = a.embed]
    BY <1>3, AskedMembers
  <2>2. a.action \in Actions /\ a.type \in Types /\ a.compare_to \in CompareTo
        /\ a.embed \in BOOLEAN
    BY DEF StartedActions
  <2> QED BY <1>1, <1>3, <2>1, <2>2 DEF Remotes, IntoList, GroupInstances
<1>4. CASE r = "group_instances_lock"
  <2>1. PICK g \in Groups : m = [remote EXCEPT !.group = g, !.locked = TRUE]
    BY <1>4, AskedMembers
  <2> QED BY <1>1, <1>4, <2>1 DEF Remotes, Names, IntoList, GroupInstances
<1>5. CASE r \in {"group_instances_set", "group_instance_remove"}
  <2>1. PICK i \in Items : m = [remote EXCEPT !.item = i]
    BY <1>5, AskedMembers
  <2> QED BY <1>1, <1>5, <2>1 DEF Remotes, Names, IntoList, GroupInstances
<1>6. CASE r = "group_start"
  <2>1. PICK g \in IF remote.locked THEN {remote.group} ELSE Groups, i \in Items :
          m = [remote EXCEPT !.group = g, !.item = i]
    BY <1>6, AskedMembers
  <2>2. g \in Names(Groups) /\ i \in Names(Items)
    BY <1>1, <2>1 DEF Remotes, Names
  <2> QED BY <1>1, <1>6, <2>1, <2>2 DEF Remotes, IntoList, GroupInstances
<1>7. CASE r \in IntoList
  <2>1. ListDepth \in Levels
    BY <1>7, ListDepthType DEF CanAsk, IntoList, Commands
  <2>2. ListDepth \in 0 .. MaxDepth
    BY <2>1, DepthAssumption DEF Levels
  <2>3. CASE r = "list_instances_lock"
    <3>1. m = [remote EXCEPT !.depth = ListDepth, !.level_locked[ListDepth] = TRUE]
      BY <2>3, AskedMembers
    <3> HIDE DEF ListDepth
    <3> QED BY <1>1, <1>7, <2>1, <2>2, <2>3, <3>1 DEF Remotes, IntoList, GroupInstances
  <2>4. CASE r # "list_instances_lock"
    <3>1. PICK i \in Items : m = [remote EXCEPT !.depth = ListDepth, !.level[ListDepth] = i]
      BY <1>7, <2>4, AskedMembers DEF IntoList
    <3> QED BY <1>1, <1>7, <2>1, <2>2, <2>4, <3>1 DEF Remotes, IntoList, Names, GroupInstances
  <2> QED BY <2>3, <2>4
<1>8. CASE r = "element_process"
  <2>1. PICK e \in Elements : m = [remote EXCEPT !.element = e]
    BY <1>8, AskedMembers
  <2> QED BY <1>1, <1>8, <2>1 DEF Remotes, Names, IntoList, GroupInstances
<1>9. CASE r \notin {"session_start", "action_start", "group_start", "group_instances_lock",
                     "group_instances_set", "group_instance_remove", "element_process"}
                    \cup IntoList
  <2>1. m = remote
    BY <1>9, AskedMembers DEF Unchanged
  <2> QED BY <1>1, <1>9, <2>1
<1> QED BY <1>2, <1>3, <1>4, <1>5, <1>6, <1>7, <1>8, <1>9

LEMMA RemoteAfterType ==
    ASSUME Typed, Where, NEW r \in Requests, request = r
    PROVE  RemoteAfter(r) \in Remotes
<1>1. remote \in Remotes
  BY DEF Typed
<1>2. r \in AboutList => remote.depth \in Levels /\ remote.depth - 1 \in 0 .. MaxDepth
  BY <1>1, DepthAssumption DEF Where, Levels, Remotes
<1>3. r \in AboutList => Above(remote) \in Remotes
  BY <1>1, <1>2 DEF Above, Remotes, Names
<1>4. CASE r = "session_end"
  BY <1>4, InitialTypes DEF RemoteAfter
<1>5. CASE r = "action_end"
  <2>1. ASSUME NEW n \in Remotes PROVE [n EXCEPT !.user_context = remote.user_context] \in Remotes
    BY <1>1 DEF Remotes
  <2> QED BY <1>5, <2>1, InitialTypes DEF RemoteAfter
<1>6. CASE r = "group_instances_unlock"
  BY <1>1, <1>6 DEF RemoteAfter, Remotes, Names
<1>7. CASE r = "group_end"
  BY <1>1, <1>7 DEF RemoteAfter, Remotes, Names
<1>8. CASE r = "list_instances_unlock"
  BY <1>3, <1>8 DEF RemoteAfter, AboutList, ListInstances
<1>9. CASE r = "list_end"
  <2>1. [remote EXCEPT !.level[remote.depth] = Zero] \in Remotes
    BY <1>1 DEF Remotes, Names
  <2> QED BY <1>3, <1>9, <2>1 DEF RemoteAfter, AboutList
<1>10. CASE r = "element_process"
  BY <1>1, <1>10 DEF RemoteAfter, Remotes, Names
<1>11. CASE r \notin {"session_end", "action_end", "group_instances_unlock", "group_end",
                      "list_instances_unlock", "list_end", "element_process"}
  BY <1>1, <1>11 DEF RemoteAfter
<1> QED BY <1>4, <1>5, <1>6, <1>7, <1>8, <1>9, <1>10, <1>11

\* The depth in the place a request leads to.
LEMMA AfterFacts ==
    ASSUME Typed, Where, NEW r \in Requests, request = r
    PROVE  /\ PlaceAfter(r) \in Places
           /\ PlaceAfter(r) = "list_instances" => RemoteAfter(r).depth > 0
           /\ PlaceAfter(r) \notin {"group", "list_instances"} => RemoteAfter(r).depth = 0
<1>1. remote \in Remotes
  BY DEF Typed
<1>2. CASE r \in {"session_start", "action_start"} \cup Commands
  BY <1>1, <1>2 DEF PlaceAfter, RemoteAfter, Where, AskedIn, Places, Commands,
                    GroupInstances, ListInstances
<1>3. CASE r \in {"session_end", "action_end"}
  BY <1>1, <1>3 DEF PlaceAfter, RemoteAfter, Places, Commands, GroupInstances,
                    ListInstances, NewRemote
<1>4. CASE r \in GroupInstances
  BY <1>1, <1>4 DEF PlaceAfter, RemoteAfter, Where, AskedIn, Places, Commands,
                    GroupInstances, ListInstances, Remotes
<1>5. CASE r = "group_end"
  BY <1>1, <1>5 DEF PlaceAfter, RemoteAfter, Where, AskedIn, Places, Commands,
                    GroupInstances, ListInstances, Remotes
<1>6. CASE r = "list_end"
  BY <1>1, <1>6 DEF PlaceAfter, RemoteAfter, Where, AboutList, Places, Commands,
                    GroupInstances, ListInstances, Remotes
<1>7. CASE r \in ListInstances
  BY <1>1, <1>7 DEF PlaceAfter, RemoteAfter, Where, AboutList, Places, Commands,
                    GroupInstances, ListInstances
<1>8. CASE r \in {"group_start", "list_start", "element_process"}
  BY <1>8 DEF PlaceAfter, Places, Commands, GroupInstances, ListInstances
<1> QED BY <1>2, <1>3, <1>4, <1>5, <1>6, <1>7, <1>8 DEF Requests, PlainRequests


-----------------------------------------------------------------------------
(* What a request leaves as it is. *)

LEMMA RemoteAfterFacts ==
    ASSUME Typed, Where, NEW r \in Requests, request = r
    PROVE  /\ r \notin {"session_end", "action_end"} =>
                /\ RemoteAfter(r).action = remote.action /\ RemoteAfter(r).type = remote.type
                /\ RemoteAfter(r).compare_to = remote.compare_to
                /\ RemoteAfter(r).embed = remote.embed
           /\ r \notin {"session_end", "action_end", "group_instances_unlock", "group_end"} =>
                RemoteAfter(r).group = remote.group /\ RemoteAfter(r).item = remote.item
           /\ r \in {"session_end", "action_end"} => RemoteAfter(r).depth = 0
           /\ r = "list_instances_unlock" => RemoteAfter(r).depth = remote.depth - 1
           /\ r = "list_end" =>
                RemoteAfter(r).depth = IF remote.level_locked[remote.depth]
                                       THEN remote.depth ELSE remote.depth - 1
           /\ r \notin {"session_end", "action_end", "list_instances_unlock", "list_end"} =>
                RemoteAfter(r).depth = remote.depth
           /\ r \notin {"session_end", "action_end"} =>
                \A l \in Levels : l < remote.depth \/ r \notin AboutList =>
                                    RemoteAfter(r).level[l] = remote.level[l]
           /\ r \in AboutList \ {"list_instances_unlock", "list_end"} =>
                RemoteAfter(r).level = remote.level
<1>1. remote \in Remotes
  BY DEF Typed
<1>2. Above(remote).depth = remote.depth - 1
      /\ Above(remote).action = remote.action /\ Above(remote).type = remote.type
      /\ Above(remote).compare_to = remote.compare_to /\ Above(remote).embed = remote.embed
      /\ Above(remote).group = remote.group /\ Above(remote).item = remote.item
      /\ \A l \in Levels : l < remote.depth => Above(remote).level[l] = remote.level[l]
  BY <1>1 DEF Above, Remotes, Levels
<1>3. CASE r \in {"session_end", "action_end"}
  BY <1>3 DEF RemoteAfter, NewRemote, AboutList, ListInstances
<1>4. CASE r \in {"group_instances_unlock", "group_end"}
  BY <1>1, <1>4 DEF RemoteAfter, Remotes, AboutList, ListInstances
<1>5. CASE r = "list_instances_unlock"
  <2>1. RemoteAfter(r) = Above(remote)
    BY <1>5 DEF RemoteAfter
  <2> QED BY <1>2, <1>5, <2>1 DEF AboutList, ListInstances
<1>6. CASE r = "list_end"
  <2>1. CASE remote.level_locked[remote.depth]
    <3>1. RemoteAfter(r) = [remote EXCEPT !.level[remote.depth] = Zero]
      BY <1>6, <2>1 DEF RemoteAfter
    <3>2. \A l \in Levels : l < remote.depth => RemoteAfter(r).level[l] = remote.level[l]
      BY <1>1, <3>1 DEF Remotes, Levels
    <3>3. /\ RemoteAfter(r).action = remote.action /\ RemoteAfter(r).type = remote.type
          /\ RemoteAfter(r).compare_to = remote.compare_to
          /\ RemoteAfter(r).embed = remote.embed /\ RemoteAfter(r).group = remote.group
          /\ RemoteAfter(r).item = remote.item /\ RemoteAfter(r).depth = remote.depth
      BY <1>1, <3>1 DEF Remotes
    <3> QED BY <1>6, <2>1, <3>2, <3>3 DEF AboutList, ListInstances
  <2>2. CASE ~remote.level_locked[remote.depth]
    <3>1. RemoteAfter(r) = Above(remote)
      BY <1>6, <2>2 DEF RemoteAfter
    <3> QED BY <1>2, <1>6, <2>2, <3>1 DEF AboutList, ListInstances
  <2> QED BY <2>1, <2>2
<1>7. CASE r = "element_process"
  BY <1>1, <1>7 DEF RemoteAfter, Remotes, AboutList, ListInstances
<1>8. CASE r \notin {"session_end", "action_end", "group_instances_unlock", "group_end",
                     "list_instances_unlock", "list_end", "element_process"}
  BY <1>1, <1>8 DEF RemoteAfter, Remotes
<1> QED BY <1>3, <1>4, <1>5, <1>6, <1>7, <1>8

\* The requests that enter a list or an element of it.
SetsDepth == {"list_instances_lock", "list_instances_unlock", "list_instance_remove",
              "list_start", "list_end", "element_process"}
SetsLevel == {"list_instances_set", "list_instance_remove", "list_start"}
SetsGroup == GroupInstances \cup {"session_start", "action_start", "group_start"}

PreparedFacts(r, info, m, p) ==
    /\ p.user_context = info.user_context
    /\ p.action = IF r = "session_start" THEN "query"
                  ELSE IF r = "action_start" THEN m.action ELSE info.action
    /\ p.type = IF r = "session_start" THEN "setting"
                ELSE IF r = "action_start" THEN m.type ELSE info.type
    /\ r = "action_start" /\ m.action = "query" /\ m.type = "setting" =>
         p.compare_to = m.compare_to /\ ~p.matches
    /\ r = "action_start" /\ m.action = "set" /\ m.type = "setting" => p.embed = m.embed
    /\ r \notin {"session_start", "action_start"} =>
         p.compare_to = info.compare_to /\ p.matches = info.matches /\ p.embed = info.embed
    /\ r = "session_start" => ~p.matches /\ ~p.command
    /\ r \notin {"session_start", "do_command"} => p.command = info.command
    /\ r = "group_start" => p.group = m.group /\ p.item = m.item
    /\ r \notin SetsGroup => p.group = info.group /\ p.item = info.item
    /\ r \in SetsDepth => p.depth = m.depth
    /\ r \notin SetsDepth \cup SetsGroup => p.depth = info.depth
    /\ r \notin SetsGroup =>
         \A l \in Levels : p.list[l] = IF r \in SetsLevel /\ l = m.depth
                                       THEN m.level[l] ELSE info.list[l]
    /\ r = "element_process" => p.element = m.element
    /\ r \in {"group_start", "list_start"} => p.element = Zero

LEMMA PreparedFields ==
    ASSUME NEW r \in Requests, NEW info \in Infos, NEW m \in Remotes
    PROVE  PreparedFacts(r, info, m, Prepared(r, info, m))
<1> USE DEF PreparedFacts, SetsDepth, SetsLevel, SetsGroup, Prepared, GroupInstances,
            ListInstances
<1>1. ClearAll(info) = [info EXCEPT !.group = Zero, !.item = Zero, !.depth = 0,
                                    !.list = NoLevels, !.element = Zero]
  BY ClearAllIs
<1>2. CASE r = "session_start"
  BY <1>1, <1>2 DEF StartSession, Infos
<1>3. CASE r = "action_start"
  BY <1>1, <1>3 DEF StartAction, Embed, Infos
<1>4. CASE r = "do_command"
  BY <1>4 DEF Infos
<1>5. EnterGroup(info, m) = [info EXCEPT !.group = m.group, !.depth = 0, !.list = NoLevels,
                                         !.element = Zero]
  BY DEF EnterGroup, ClearElement, ClearAllLists, Infos
<1>6. CASE r \in GroupInstances
  BY <1>5, <1>6 DEF GroupPrepared, Infos
<1>7. CASE r = "group_start"
  BY <1>5, <1>7 DEF GroupPrepared, Infos
<1>8. EnterList(info, m) = [info EXCEPT !.depth = m.depth, !.element = Zero]
  BY DEF EnterList, ClearElement, Infos
<1>9. CASE r \in ListInstances
  BY <1>8, <1>9 DEF ListPrepared, Infos
<1>10. CASE r = "list_start"
  BY <1>8, <1>10 DEF ListPrepared, Infos
<1>11. CASE r = "element_process"
  BY <1>11 DEF ElementPrepared, Infos
<1>12. CASE r = "list_end"
  BY <1>12 DEF Infos
<1>13. CASE r \in {"session_end", "action_end", "group_end", "reboot", "set_factory_def"}
  BY <1>13
<1> QED BY <1>2, <1>3, <1>4, <1>6, <1>7, <1>9, <1>10, <1>11, <1>12, <1>13
        DEF Requests, PlainRequests, Commands

LEMMA ClearedFields ==
    ASSUME Typed, NEW r \in Requests
    PROVE  /\ ClearedAfter(r).user_context = rci_info.user_context
           /\ ClearedAfter(r).action = rci_info.action /\ ClearedAfter(r).type = rci_info.type
           /\ ClearedAfter(r).compare_to = rci_info.compare_to
           /\ ClearedAfter(r).embed = rci_info.embed
           /\ ClearedAfter(r).matches = (rci_info.matches /\ ~(r = "element_process" /\ QueriesSettings))
           /\ ClearedAfter(r).command =
                (rci_info.command /\ ~(r = "action_end" /\ rci_info.action = "do_command"))
           /\ r # "group_end" =>
                /\ ClearedAfter(r).group = rci_info.group /\ ClearedAfter(r).item = rci_info.item
                /\ ClearedAfter(r).depth = rci_info.depth
                /\ \A l \in Levels : r # "list_end" \/ l # rci_info.depth =>
                                       ClearedAfter(r).list[l] = rci_info.list[l]
<1>1. rci_info \in Infos
  BY DEF Typed
<1>2. CASE r = "list_end"
  <2>1. ASSUME NEW i \in Infos, NEW d \in Levels PROVE
          ClearElement(ClearList(i, d)) = [i EXCEPT !.list[d] = Zero, !.element = Zero]
    BY DEF ClearElement, ClearList
  <2>2. CASE ClearedLevel \in Levels
    <3>1. ClearedAfter(r) = [rci_info EXCEPT !.list[rci_info.depth] = Zero, !.element = Zero]
      BY <1>1, <1>2, <2>1, <2>2 DEF ClearedAfter, ClearedLevel
    <3> QED BY <1>1, <1>2, <3>1 DEF Infos
  <2>3. CASE ClearedLevel \notin Levels
    <3>1. ClearedAfter(r) = [rci_info EXCEPT !.element = Zero]
      BY <1>2, <2>3 DEF ClearedAfter, ClearElement
    <3> QED BY <1>1, <1>2, <3>1 DEF Infos
  <2> QED BY <2>2, <2>3
<1>3. CASE r = "group_end"
  <2>1. ClearedAfter(r) = [rci_info EXCEPT !.group = Zero, !.item = Zero, !.depth = 0,
                                           !.list = NoLevels, !.element = Zero]
    BY <1>1, <1>3, ClearAllIs DEF ClearedAfter
  <2> QED BY <1>1, <1>3, <2>1 DEF Infos
<1>4. CASE r = "action_end"
  BY <1>1, <1>4 DEF ClearedAfter, Infos
<1>5. CASE r = "element_process"
  BY <1>1, <1>5 DEF ClearedAfter, MatchesAfterElement, Infos
<1>6. CASE r \notin {"list_end", "group_end", "action_end", "element_process"}
  BY <1>1, <1>6 DEF ClearedAfter, Infos
<1> QED BY <1>2, <1>3, <1>4, <1>5, <1>6


-----------------------------------------------------------------------------
(* Types and places are kept. *)

LEMMA InitTyped ==
    ASSUME Init
    PROVE  Typed /\ Where
<1>1. Typed
  <2>1. PICK old \in Garbage : rci_info = NewInfo(old)
    BY DEF Init
  <2> QED BY <2>1, InitialTypes, Kinds, HandlersAssumption
          DEF Init, Typed, Statuses, Counters, Places
<1>2. Where
  BY Kinds DEF Init, Where, NewRemote, AboutList, Commands, ListInstances
<1> QED BY <1>1, <1>2

LEMMA BeginTyped ==
    ASSUME Typed, Where, NEW r \in Requests, CanAsk(r), NEW m \in AskedWith(r),
           BeginQueued(r, m) \/ BeginUnhandled(r, m)
    PROVE  Typed' /\ Where'
<1>1. /\ m \in Remotes
      /\ r # "session_start" /\ r # "action_start" => m.action = remote.action
      /\ m.depth = IF r \in IntoList THEN ListDepth
                   ELSE IF r = "session_start" THEN 0 ELSE remote.depth
  BY AskedFacts
<1>2. place \in AskedIn(r) /\ (r \in Commands => remote.action = r)
  BY AskedPlace
<1>3. /\ request' = r /\ remote' = m /\ called' = 0 /\ verdict' = NoVerdict
      /\ stored' = (stored /\ r # "session_start") /\ answer' = NoAnswer
      /\ lostsync' \in BOOLEAN /\ carried' \in BOOLEAN
      /\ UNCHANGED << handlers, status, pc, function, ccfsm, place, owed, overrun >>
  BY DEF BeginQueued, BeginUnhandled, NewRequest, Typed
<1> DEFINE info == [rci_info EXCEPT !.user_context = m.user_context]
<1>4. info \in Infos
  BY <1>1 DEF Typed, Infos, Remotes
<1>5. rci_info' \in Infos /\ callback' \in Callbacks
      /\ rci_thread_status' \in {"queued", "processed"} /\ lock' \in Nat
  <2>1. CASE BeginQueued(r, m)
    <3>1. /\ rci_info' = Prepared(r, info, m) /\ rci_thread_status' = "queued" /\ lock' = lock + 1
          /\ callback' = [type |-> TypeOf(FunctionOf(r)), function |-> FunctionOf(r),
                          error |-> "none"]
      BY <2>1 DEF BeginQueued, Post
    <3>2. Prepared(r, info, m) \in Infos
      BY <1>1, <1>4, PreparedType
    <3>3. callback' \in Callbacks
      BY <3>1, FunctionOfType, Kinds DEF Callbacks
    <3> QED BY <3>1, <3>2, <3>3 DEF Typed
  <2>2. CASE BeginUnhandled(r, m)
    BY <1>4, <2>2, InitialTypes DEF BeginUnhandled, Typed
  <2> QED BY <2>1, <2>2
<1>6. Typed'
  BY <1>1, <1>3, <1>5, InitialTypes, Kinds DEF Typed
<1>7. Where'
  <2>1. r \in Commands => m.action = r
    BY <1>1, <1>2 DEF Commands
  <2>2. r \in IntoList => ListDepth \in Levels
    BY ListDepthType DEF IntoList, CanAsk, Commands
  <2>3. place = "list_instances" \/ r \in AboutList => m.depth > 0
    <3>1. CASE r \in IntoList
      BY <1>1, <2>2, <3>1, DepthAssumption DEF Levels
    <3>2. CASE r \notin IntoList /\ r \in AboutList
      BY <1>1, <1>2, <3>2 DEF IntoList, AboutList, ListInstances, CanAsk, InList, Where, Commands
    <3>3. CASE r \notin AboutList
      BY <1>1, <1>2, <3>3 DEF IntoList, AboutList, ListInstances, AskedIn, Where, Commands
    <3> QED BY <3>1, <3>2, <3>3
  <2>4. place \notin {"group", "list_instances"} \/ r = "group_end" => m.depth = 0
    BY <1>1, <1>2 DEF IntoList, AskedIn, CanAsk, Where, Commands
  <2>5. r \in {"group_start", "group_instances_lock"} /\ place = "action" =>
          m.action # "do_command"
    BY <1>1 DEF CanAsk, InAction, Commands
  <2> QED BY <1>2, <1>3, <2>1, <2>3, <2>4, <2>5 DEF Where
<1> QED BY <1>6, <1>7

LEMMA FinishTyped ==
    ASSUME Typed, Where, NEW r \in Requests, Finish(r)
    PROVE  Typed' /\ Where'
<1>1. /\ request = r /\ rci_info' = ClearedAfter(r) /\ callback' = NoCallback
      /\ rci_thread_status' = "idle" /\ request' = "none" /\ place' = PlaceAfter(r)
      /\ UNCHANGED << handlers, status, lock, pc, function, ccfsm, called, verdict, stored,
                      owed, lostsync >>
  BY DEF Finish, thread
<1> DEFINE context == IF r = "session_end" THEN RemoteAfter(r).user_context ELSE ContextAfter
<1>2. remote' = [RemoteAfter(r) EXCEPT !.user_context = context]
  BY DEF Finish
<1>3. RemoteAfter(r) \in Remotes
  BY <1>1, RemoteAfterType
<1>4. context \in BOOLEAN
  BY <1>3 DEF ContextAfter, Typed, Infos, Remotes
<1> HIDE DEF context
<1>5. remote' \in Remotes /\ remote'.depth = RemoteAfter(r).depth
  BY <1>2, <1>3, <1>4 DEF Remotes
<1>6. /\ place' \in Places /\ (place' = "list_instances" => remote'.depth > 0)
      /\ place' \notin {"group", "list_instances"} => remote'.depth = 0
  BY <1>1, <1>5, AfterFacts
<1>7. answer' \in Answers
  <2>1. answer' = [request |-> r, error |-> callback.error,
                   matches |-> r \in ComparedRequests /\ QueriesSettings /\ rci_info.matches,
                   carried |-> carried]
    BY DEF Finish
  <2> QED BY <2>1 DEF Answers, Typed, Callbacks
<1>8. overrun' \in BOOLEAN /\ carried' \in BOOLEAN
  BY DEF Finish, Typed
<1>9. Typed'
  BY <1>1, <1>5, <1>6, <1>7, <1>8, ClearedAfterType, InitialTypes DEF Typed
<1>10. Where'
  BY <1>1, <1>6, Kinds DEF Where, Commands, AboutList, ListInstances
<1> QED BY <1>9, <1>10

LEMMA ReturnTyped ==
    ASSUME Typed, NEW e \in AllErrors, NEW matches \in Writes, NEW stores \in BOOLEAN,
           ThreadReturn(e, matches, stores)
    PROVE  /\ rci_info' \in Infos /\ callback' \in Callbacks /\ verdict' \in Verdicts
           /\ stored' \in BOOLEAN /\ carried' \in BOOLEAN
<1>1. callback' = [callback EXCEPT !.error = e]
      /\ rci_info' = [rci_info EXCEPT !.matches = Written(matches, @), !.user_context = @ \/ stores]
  BY DEF ThreadReturn
<1>2. rci_info' \in Infos
  BY <1>1 DEF Typed, Infos, Written
<1>3. callback' \in Callbacks
  BY <1>1 DEF Typed, Callbacks
<1>4. verdict' \in Verdicts
  BY DEF ThreadReturn, Typed, Verdicts
<1>5. stored' \in BOOLEAN /\ carried' \in BOOLEAN
  <2>1. carried' = carried \/ carried' = (matches = "yes" /\ function # "get_element")
    BY DEF ThreadReturn
  <2>2. stored' = stored \/ stored' = (stored \/ stores)
    BY DEF ThreadReturn
  <2> QED BY <2>1, <2>2 DEF Typed
<1> QED BY <1>2, <1>3, <1>4, <1>5

LEMMA TypedStep ==
    ASSUME Typed, Where, [Next]_vars
    PROVE  Typed' /\ Where'
<1>1. CASE \E r \in Requests : Begin(r)
  BY <1>1, BeginTyped DEF Begin
<1>2. CASE \E r \in Requests : Finish(r)
  BY <1>2, FinishTyped
<1>3. CASE Cancel
  <2>1. remote'.depth = 0
    BY <1>3 DEF Cancel, NewRemote
  <2>2. Typed'
    BY <1>3, InitialTypes, Kinds DEF Cancel, Typed, thread, history, Places
  <2>3. Where'
    BY <1>3, <2>1, Kinds DEF Cancel, Where, Commands, AboutList, ListInstances
  <2> QED BY <2>2, <2>3
<1>4. CASE ThreadStep
  <2>1. Where'
    <3>1. UNCHANGED cloud
      BY <1>4 DEF ThreadStep, ThreadAcquire, ThreadExit, ThreadAssertFails, ThreadCall,
                  ThreadReturn, ThreadUpdate, ThreadUpdateCancelled, ThreadMark
    <3> QED BY <3>1 DEF cloud, Where
  <2>2. CASE \E e \in AllErrors, matches \in Writes, stores \in BOOLEAN :
              ThreadReturn(e, matches, stores)
    <3>1. PICK e \in AllErrors, matches \in Writes, stores \in BOOLEAN :
            ThreadReturn(e, matches, stores)
      BY <2>2
    <3>2. rci_info' \in Infos /\ callback' \in Callbacks /\ verdict' \in Verdicts
          /\ stored' \in BOOLEAN /\ carried' \in BOOLEAN
      BY <3>1, ReturnTyped
    <3>3. Typed'
      BY <3>1, <3>2, Kinds DEF ThreadReturn, Typed, Counters, cloud, flags
    <3> QED BY <2>1, <3>3
  <2>3. CASE ThreadAcquire
    <3>1. lock' \in Nat
      BY <2>3 DEF ThreadAcquire, Wakes, Typed
    <3> QED BY <2>1, <2>3, <3>1 DEF ThreadAcquire, Typed, Counters, service, cloud, history, flags
  <2>4. CASE ThreadExit \/ ThreadAssertFails
    BY <2>1, <2>4 DEF ThreadExit, ThreadAssertFails, Ends, Typed, Counters, Statuses,
                      service, cloud, history, flags
  <2>5. CASE ThreadCall
    <3>1. function' \in Functions \cup {"none"} /\ called' \in Nat
      BY <2>5 DEF ThreadCall, Typed, Callbacks
    <3> QED BY <2>1, <2>5, <3>1 DEF ThreadCall, Typed, Counters, service, cloud, flags
  <2>6. CASE ThreadUpdate \/ ThreadUpdateCancelled \/ ThreadMark
    <3>1. pc' \in Counters /\ status' \in Statuses
      BY <2>6 DEF ThreadUpdate, ThreadUpdateCancelled, ThreadMark, Loop, Ends, Typed,
                  Counters, Statuses
    <3>2. /\ rci_thread_status' \in {"idle", "queued", "processed"} /\ owed' \in BOOLEAN
          /\ UNCHANGED << handlers, lock, function, callback, rci_info, cloud, history,
                          lostsync, overrun >>
      BY <2>6 DEF ThreadUpdate, ThreadUpdateCancelled, ThreadMark, Typed, service, flags
    <3> QED BY <2>1, <3>1, <3>2 DEF Typed, cloud, history
  <2> QED BY <1>4, <2>2, <2>3, <2>4, <2>5, <2>6 DEF ThreadStep
<1>5. CASE StopThread
  <2>1. status' \in Statuses /\ lock' \in Nat /\ ccfsm' \in BOOLEAN
    <3>1. status' = "request_stop" \/ status' = status
      BY <1>5 DEF StopThread
    <3>2. lock' = lock + 1 /\ ccfsm' = FALSE
      BY <1>5 DEF StopThread, Post
    <3>3. status \in Statuses /\ lock \in Nat
      BY DEF Typed
    <3>4. status' \in Statuses
      BY <3>1, <3>3 DEF Statuses
    <3>5. lock' \in Nat
      BY <3>2, <3>3
    <3> QED BY <3>2, <3>4, <3>5
  <2>2. /\ called' = 0 /\ verdict' = NoVerdict /\ answer' = NoAnswer /\ carried' = FALSE
        /\ UNCHANGED << handlers, pc, function, service, place, remote, request, stored, flags >>
    BY <1>5 DEF StopThread
  <2> QED BY <2>1, <2>2, InitialTypes DEF Typed, Where, service, flags
<1>6. CASE UNCHANGED vars
  BY <1>6 DEF vars, thread, service, cloud, history, flags, Typed, Where
<1> QED BY <1>1, <1>2, <1>3, <1>4, <1>5, <1>6 DEF Next


-----------------------------------------------------------------------------
(***************************************************************************)
(* The thread and its queue of one are in step: there is one token for the *)
(* request that is queued, none for any other, and the thread works on     *)
(* nothing but that request, or one that was cancelled while its callback  *)
(* was called.                                                             *)
(***************************************************************************)
Queued == rci_thread_status = "queued"

HasCallback == callback.type # "none" /\ (callback.function \in handlers \/ TransformMissing)

InStep ==
    /\ ccfsm <=> status = "running"
    /\ pc = "stopped" <=> status = "not_started"
    /\ request = "none" <=> rci_thread_status = "idle"
    /\ Queued => HasCallback
    /\ pc \in {"callback", "update"} => Queued \/ owed
    /\ pc = "mark" => Queued
    /\ owed => pc \in {"callback", "update"} /\ ~Queued
    /\ owed /\ pc = "callback" => request = "none" /\ place = "none"
    /\ status = "running" /\ Queued =>
         lock = IF pc = "acquire" THEN 1 ELSE 0
    /\ status = "running" /\ ~Queued => lock = 0 /\ pc # "check"

LEMMA FunctionIsProvided ==
    ASSUME NEW r \in Requests, FunctionOf(r) # "none"
    PROVE  \/ FunctionOf(r) \in handlers
           \/ FunctionOf(r) = "set_and_transform_element"
              /\ TypeOf(FunctionOf(r)) = "transform"
BY DEF FunctionOf, ElementFunction, TypeOf

LEMMA InStepStep ==
    ASSUME Typed, Where, ~lostsync => InStep, [Next]_vars
    PROVE  ~lostsync' => InStep'
<1> SUFFICES ASSUME ~lostsync' PROVE InStep'
  OBVIOUS
<1>1. CASE \E r \in Requests : Begin(r)
  <2>1. PICK r \in Requests : CanAsk(r) /\ \E m \in AskedWith(r) :
                                             BeginQueued(r, m) \/ BeginUnhandled(r, m)
    BY <1>1 DEF Begin
  <2>2. PICK m \in AskedWith(r) : BeginQueued(r, m) \/ BeginUnhandled(r, m)
    BY <2>1
  <2>3. /\ ccfsm /\ ~lostsync /\ request = "none" /\ rci_thread_status = "idle"
        /\ request' = r /\ ~(owed /\ (pc = "callback" \/ FunctionOf(r) # "none"))
        /\ UNCHANGED << handlers, status, pc, ccfsm, place, owed >>
    BY <2>2 DEF BeginQueued, BeginUnhandled, NewRequest, Sound
  <2>4. InStep
    BY <2>3
  <2>5. r # "none"
    BY Kinds
  <2>6. CASE BeginQueued(r, m)
    <3>1. /\ rci_thread_status' = "queued" /\ lock' = lock + 1 /\ FunctionOf(r) # "none"
          /\ callback' = [type |-> TypeOf(FunctionOf(r)), function |-> FunctionOf(r),
                          error |-> "none"]
      BY <2>6 DEF BeginQueued, Post
    <3>2. HasCallback'
      BY <2>3, <3>1, FunctionOfType, FunctionIsProvided DEF HasCallback, TransformMissing
    <3>3. status = "running" /\ pc = "acquire" /\ lock = 0
      BY <2>3, <2>4, <3>1 DEF InStep, Queued, Typed, Counters
    <3> QED BY <2>3, <2>4, <2>5, <3>1, <3>2, <3>3 DEF InStep, Queued
  <2>7. CASE BeginUnhandled(r, m)
    <3>1. rci_thread_status' = "processed" /\ UNCHANGED lock
      BY <2>7 DEF BeginUnhandled
    <3> QED BY <2>3, <2>4, <2>5, <3>1 DEF InStep, Queued
  <2> QED BY <2>2, <2>6, <2>7
<1>2. CASE \E r \in Requests : Finish(r)
  BY <1>2 DEF Finish, Sound, InStep, Queued, thread
<1>3. CASE Cancel
  <2>1. /\ ccfsm /\ ~lostsync /\ (place # "none" \/ request # "none")
        /\ rci_thread_status' = "idle" /\ place' = "none" /\ request' = "none"
        /\ owed' = (owed \/ pc \in {"callback", "update"})
        /\ ~(lock > 0 \/ pc \in {"check", "mark"})
        /\ UNCHANGED << handlers, status, lock, pc, ccfsm >>
    BY <1>3 DEF Cancel, Sound, thread
  <2>2. lock = 0
    BY <2>1 DEF Typed
  <2> QED BY <2>1, <2>2 DEF InStep, Queued, Typed, Counters
<1>4. CASE ThreadStep
  <2>1. ~lostsync /\ InStep
    <3>1. CASE ThreadAssertFails
      BY <3>1 DEF ThreadAssertFails
    <3>2. CASE ThreadUpdateCancelled
      BY <3>2 DEF ThreadUpdateCancelled
    <3>3. CASE ~ThreadAssertFails /\ ~ThreadUpdateCancelled
      <4>1. UNCHANGED flags
        BY <1>4, <3>3 DEF ThreadStep, ThreadAcquire, ThreadExit, ThreadCall, ThreadReturn,
                          ThreadUpdate, ThreadMark
      <4> QED BY <4>1 DEF flags
    <3> QED BY <3>1, <3>2, <3>3
  <2>2. CASE ThreadAcquire
    BY <2>1, <2>2 DEF ThreadAcquire, Wakes, InStep, Queued, HasCallback, TransformMissing,
                      Typed, service, cloud, history, flags
  <2>3. CASE ThreadExit
    BY <2>1, <2>3 DEF ThreadExit, Ends, InStep, Queued, HasCallback, TransformMissing,
                      service, cloud, history, flags
  <2>4. CASE ThreadAssertFails
    BY <2>4 DEF ThreadAssertFails
  <2>5. CASE ThreadCall
    BY <2>1, <2>5 DEF ThreadCall, InStep, CallbackQueued, Queued, HasCallback,
                      TransformMissing, service, cloud, flags
  <2>6. CASE \E e \in AllErrors, matches \in Writes, stores \in BOOLEAN :
              ThreadReturn(e, matches, stores)
    <3>1. PICK e \in AllErrors : pc = "callback" /\ pc' = "update"
            /\ callback' = [callback EXCEPT !.error = e]
            /\ UNCHANGED << handlers, status, lock, rci_thread_status, cloud, flags >>
      BY <2>6 DEF ThreadReturn
    <3>2. callback'.type = callback.type /\ callback'.function = callback.function
      BY <3>1 DEF Typed, Callbacks
    <3>3. HasCallback' <=> HasCallback
      BY <3>1, <3>2 DEF HasCallback, TransformMissing
    <3> QED BY <2>1, <3>1, <3>3 DEF InStep, Queued, cloud, flags
  <2>7. CASE ThreadUpdate
    BY <2>1, <2>7 DEF ThreadUpdate, InStep, Queued, HasCallback, TransformMissing,
                      service, cloud, history, flags
  <2>8. CASE ThreadUpdateCancelled
    BY <2>1, <2>8 DEF ThreadUpdateCancelled, Loop, Ends, InStep, Queued, service, cloud,
                      Typed, Statuses
  <2>9. CASE ThreadMark
    BY <2>1, <2>9 DEF ThreadMark, Loop, Ends, InStep, Queued, cloud, flags, Typed, Statuses
  <2> QED BY <1>4, <2>2, <2>3, <2>4, <2>5, <2>6, <2>7, <2>8, <2>9 DEF ThreadStep
<1>5. CASE StopThread
  BY <1>5 DEF StopThread, Post, InStep, Queued, HasCallback, TransformMissing, service,
              history, flags
<1>6. CASE UNCHANGED vars
  BY <1>6 DEF vars, thread, service, cloud, history, flags, InStep, Queued, HasCallback,
              TransformMissing
<1> QED BY <1>1, <1>2, <1>3, <1>4, <1>5, <1>6 DEF Next


-----------------------------------------------------------------------------
(***************************************************************************)
(* What rci_info holds of the place CCFSM is in, part by part, each for    *)
(* the applications whose callbacks have it copied.                        *)
(***************************************************************************)
InAnAction == {"action", "instances", "group", "list_instances"}

ActionMirror ==
    Handles({"action_start"}) /\ (place \in InAnAction \/ request = "action_start") =>
        /\ rci_info.action = remote.action /\ rci_info.type = remote.type
        /\ remote.action = "query" /\ remote.type = "setting" =>
             rci_info.compare_to = remote.compare_to
        /\ remote.action = "set" /\ remote.type = "setting" => rci_info.embed = remote.embed

GroupMirror ==
    Handles({"group_start"}) /\ (place \in {"group", "list_instances"} \/ request = "group_start") =>
        rci_info.group = remote.group /\ rci_info.item = remote.item

\* How many lists were started and have not ended.
InnerDepth ==
    IF (place = "list_instances" /\ request # "list_start") \/ request = "list_instances_lock"
    THEN remote.depth - 1 ELSE remote.depth

ListMirror ==
    Handles({"list_start"}) =>
        /\ rci_info.depth >= InnerDepth
        /\ \A l \in Levels : l <= InnerDepth => rci_info.list[l] = remote.level[l]

LockMirror ==
    /\ Handles({"list_instances_lock", "list_end"})
    /\ place = "list_instances" \/ request \in {"list_instances_lock", "list_end"}
    => rci_info.depth = remote.depth

CommandMirror ==
    /\ Handles({"session_start", "action_start"}) /\ (place # "none" \/ request # "none")
    /\ rci_info.command
    => place = "action" /\ remote.action = "do_command"

ContextMirror ==
    /\ request # "none" => rci_info.user_context = stored
    /\ request = "none" /\ place # "none" => remote.user_context = stored

\* What is copied for the callback that is queued.
Ready ==
    Queued =>
        /\ request # "element_process" => callback.function = request /\ request \in handlers
        /\ request = "element_process" =>
             /\ callback.function \in ElementFunctions
             /\ callback.function = "get_element" <=> rci_info.action = "query"
             /\ callback.function = "set_and_transform_element" <=>
                  rci_info.action = "set" /\ rci_info.embed
             /\ rci_info.element = remote.element
        /\ request \in SetsDepth => rci_info.depth = remote.depth
        /\ request \in SetsLevel => rci_info.list[remote.depth] = remote.level[remote.depth]
        /\ request \in {"group_start", "list_start"} => rci_info.element = Zero

Mirror ==
    /\ ActionMirror /\ GroupMirror /\ ListMirror /\ LockMirror /\ CommandMirror
    /\ ContextMirror /\ Ready

LEMMA BeginMirror ==
    ASSUME Typed, Where, InStep, Mirror, ~lostsync', NEW r \in Requests, CanAsk(r),
           NEW m \in AskedWith(r), BeginQueued(r, m) \/ BeginUnhandled(r, m)
    PROVE  Mirror'
<1>1. /\ m \in Remotes
      /\ m.user_context = IF r = "session_start" THEN FALSE ELSE remote.user_context
      /\ r # "action_start" /\ r # "session_start" =>
           m.action = remote.action /\ m.type = remote.type
           /\ m.compare_to = remote.compare_to /\ m.embed = remote.embed
      /\ m.depth = IF r \in IntoList THEN ListDepth
                   ELSE IF r = "session_start" THEN 0 ELSE remote.depth
      /\ r # "session_start" =>
           \A l \in Levels : r \notin IntoList \/ l # ListDepth => m.level[l] = remote.level[l]
      /\ r \notin GroupInstances \cup {"session_start", "group_start"} =>
           m.group = remote.group /\ m.item = remote.item
  BY AskedFacts
<1>2. place \in AskedIn(r) /\ (r \in Commands => remote.action = r)
  BY AskedPlace
<1>3. /\ request' = r /\ remote' = m /\ request = "none" /\ rci_thread_status = "idle"
      /\ stored' = (stored /\ r # "session_start")
      /\ UNCHANGED << handlers, place >>
  BY DEF BeginQueued, BeginUnhandled, NewRequest
<1>4. (Typed /\ Where)'
  BY BeginTyped
<1> DEFINE info == [rci_info EXCEPT !.user_context = m.user_context]
<1>5. /\ info \in Infos /\ info.user_context = m.user_context /\ info.action = rci_info.action
      /\ info.type = rci_info.type /\ info.compare_to = rci_info.compare_to
      /\ info.embed = rci_info.embed /\ info.group = rci_info.group
      /\ info.item = rci_info.item /\ info.depth = rci_info.depth
      /\ info.list = rci_info.list /\ info.command = rci_info.command
  BY <1>1 DEF Typed, Infos, Remotes
<1>6. BeginUnhandled(r, m) => rci_info' = info /\ rci_thread_status' = "processed"
                              /\ FunctionOf(r) = "none"
  BY DEF BeginUnhandled
<1>7. BeginQueued(r, m) => PreparedFacts(r, info, m, rci_info') /\ FunctionOf(r) # "none"
                           /\ callback'.function = FunctionOf(r)
  <2>1. Prepared(r, info, m) \in Infos /\ PreparedFacts(r, info, m, Prepared(r, info, m))
    BY <1>1, <1>5, PreparedFields, PreparedType
  <2>2. BeginQueued(r, m) => rci_info' = Prepared(r, info, m) /\ FunctionOf(r) # "none"
                             /\ callback' = [type |-> TypeOf(FunctionOf(r)),
                                             function |-> FunctionOf(r), error |-> "none"]
    BY DEF BeginQueued
  <2> QED BY <2>1, <2>2
<1>8. r # "element_process" /\ r \in handlers => BeginQueued(r, m)
  BY <1>6, Kinds DEF FunctionOf
<1> HIDE DEF info
<1>9. ActionMirror'
  <2>1. CASE r = "action_start"
    <3>1. r \in handlers => BeginQueued(r, m)
      BY <1>8, <2>1
    <3> QED BY <1>3, <1>7, <2>1, <3>1 DEF ActionMirror, PreparedFacts, Handles
  <2>2. CASE r # "action_start" /\ place \in InAnAction
    <3>1. r # "session_start"
      BY <1>2, <2>2 DEF AskedIn, InAnAction, Commands
    <3>2. /\ rci_info'.action = rci_info.action /\ rci_info'.type = rci_info.type
          /\ rci_info'.compare_to = rci_info.compare_to /\ rci_info'.embed = rci_info.embed
      BY <1>5, <1>6, <1>7, <2>2, <3>1 DEF PreparedFacts
    <3> QED BY <1>1, <1>3, <2>2, <3>1, <3>2 DEF Mirror, ActionMirror, Handles
  <2> QED BY <1>3, <2>1, <2>2 DEF ActionMirror
<1>10. GroupMirror'
  <2>1. CASE r = "group_start"
    <3>1. r \in handlers => BeginQueued(r, m)
      BY <1>8, <2>1
    <3> QED BY <1>3, <1>7, <2>1, <3>1 DEF GroupMirror, PreparedFacts, Handles
  <2>2. CASE r # "group_start" /\ place \in {"group", "list_instances"}
    <3>1. r \notin SetsGroup
      BY <1>2, <2>2 DEF AskedIn, SetsGroup, GroupInstances, Commands
    <3>2. rci_info'.group = rci_info.group /\ rci_info'.item = rci_info.item
      BY <1>5, <1>6, <1>7, <3>1 DEF PreparedFacts
    <3>3. m.group = remote.group /\ m.item = remote.item
      BY <1>1, <3>1 DEF SetsGroup
    <3> QED BY <1>3, <2>2, <3>2, <3>3 DEF Mirror, GroupMirror, Handles
  <2> QED BY <1>3, <2>1, <2>2 DEF GroupMirror
<1>11. CommandMirror'
  <2>1. CASE r = "session_start"
    <3>1. r \in handlers => BeginQueued(r, m)
      BY <1>8, <2>1
    <3> QED BY <1>3, <1>7, <2>1, <3>1 DEF CommandMirror, PreparedFacts, Handles
  <2>2. CASE r = "do_command"
    BY <1>1, <1>2, <1>3, <2>2 DEF CommandMirror, AskedIn, Commands
  <2>3. CASE r \notin {"session_start", "do_command"}
    <3>1. rci_info'.command = rci_info.command
      BY <1>5, <1>6, <1>7, <2>3 DEF PreparedFacts
    <3>2. place # "none"
      BY <1>2, <2>3 DEF AskedIn, Requests, PlainRequests, GroupInstances, ListInstances, Commands
    <3>3. r = "action_start" => place = "session"
      BY <1>2 DEF AskedIn, Commands
    <3> QED BY <1>1, <1>3, <2>3, <3>1, <3>2, <3>3 DEF Mirror, CommandMirror, Handles
  <2> QED BY <2>1, <2>2, <2>3
<1>12. ContextMirror'
  <2>1. rci_info'.user_context = m.user_context
    BY <1>5, <1>6, <1>7 DEF PreparedFacts
  <2>2. r # "session_start" => place # "none"
    BY <1>2 DEF AskedIn, Requests, PlainRequests, GroupInstances, ListInstances, Commands
  <2> QED BY <1>1, <1>3, <2>1, <2>2, Kinds DEF Mirror, ContextMirror, Typed
<1>13. LockMirror'
  <2>1. CASE r \in {"list_instances_lock", "list_end"}
    <3>1. r \in handlers => BeginQueued(r, m)
      BY <1>8, <2>1
    <3> QED BY <1>3, <1>7, <2>1, <3>1 DEF LockMirror, PreparedFacts, Handles, SetsDepth
  <2>2. CASE r \notin {"list_instances_lock", "list_end"} /\ place = "list_instances"
    <3>1. r \in ListInstances \cup {"list_start"}
      BY <1>2, <2>2 DEF AskedIn, ListInstances, Commands, Requests, PlainRequests, GroupInstances
    <3>2. m.depth = remote.depth
      BY <1>1, <2>2, <3>1 DEF IntoList, ListDepth, InList, ListInstances
    <3>3. rci_info'.depth = rci_info.depth \/ rci_info'.depth = m.depth
      BY <1>5, <1>6, <1>7, <3>1 DEF PreparedFacts, SetsDepth, SetsGroup, ListInstances,
                                    GroupInstances
    <3> QED BY <1>3, <2>2, <3>2, <3>3 DEF Mirror, LockMirror, Handles
  <2> QED BY <1>3, <2>1, <2>2 DEF LockMirror
<1>14. ListMirror'
  <2>1. ASSUME "list_start" \in handlers
        PROVE  /\ rci_info'.depth >= InnerDepth'
               /\ \A l \in Levels : l <= InnerDepth' => rci_info'.list[l] = m.level[l]
    <3>1. /\ remote.depth \in Int /\ m.depth \in Int /\ rci_info.depth \in Int
          /\ m.depth >= 0 /\ rci_info'.depth \in Int /\ rci_info'.depth >= 0
      BY <1>1, <1>4, DepthAssumption DEF Typed, Remotes, Infos
    <3>2. /\ rci_info.depth >= InnerDepth
          /\ \A l \in Levels : l <= InnerDepth => rci_info.list[l] = remote.level[l]
      BY <2>1 DEF Mirror, ListMirror, Handles
    <3>3. InnerDepth = IF place = "list_instances" THEN remote.depth - 1 ELSE remote.depth
      BY <1>3 DEF InnerDepth
    <3>4. InnerDepth' = IF (place = "list_instances" /\ r # "list_start") \/ r = "list_instances_lock"
                        THEN m.depth - 1 ELSE m.depth
      BY <1>3 DEF InnerDepth
    <3>5. ListDepth = IF place = "list_instances" THEN remote.depth ELSE remote.depth + 1
      BY DEF ListDepth, InList
    <3>6. CASE r = "list_start"
      <4>1. BeginQueued(r, m) /\ m.depth = InnerDepth + 1 /\ InnerDepth' = m.depth
        BY <1>1, <1>8, <2>1, <3>1, <3>3, <3>4, <3>5, <3>6 DEF IntoList
      <4>2. /\ rci_info'.depth = m.depth
            /\ \A l \in Levels :
                    rci_info'.list[l] = IF l = m.depth THEN m.level[l] ELSE rci_info.list[l]
        BY <1>5, <1>7, <3>6, <4>1 DEF PreparedFacts, SetsDepth, SetsLevel, SetsGroup, GroupInstances
      <4>3. m.depth = ListDepth /\ \A l \in Levels :
              l # ListDepth => m.level[l] = remote.level[l]
        BY <1>1, <3>6 DEF IntoList
      <4>4. InnerDepth \in Int
        BY <3>1, <3>3
      <4>5. ASSUME NEW l \in Levels, l <= InnerDepth' PROVE rci_info'.list[l] = m.level[l]
        BY <3>2, <4>1, <4>2, <4>3, <4>4, <4>5 DEF Levels
      <4> QED BY <3>1, <4>1, <4>2, <4>5
    <3>7. CASE r \in SetsGroup
      <4>1. place \notin {"group", "list_instances"} /\ r \notin IntoList
        BY <1>2, <3>7 DEF AskedIn, SetsGroup, GroupInstances, IntoList, Commands
      <4>2. m.depth = 0
        BY <1>3, <1>4, <4>1 DEF Where
      <4>3. InnerDepth' = 0
        BY <3>4, <4>1, <4>2 DEF IntoList
      <4> QED BY <3>1, <4>3 DEF Levels
    <3>8. CASE r \notin SetsGroup \cup {"list_start"}
      <4>1. r \in IntoList => r \in ListInstances
        BY <3>8 DEF IntoList, ListInstances
      <4>2. /\ r \in {"list_instances_set", "list_instance_remove"} => place = "list_instances"
            /\ r = "list_instances_lock" => place = "group"
        BY <1>2 DEF AskedIn, Commands
      <4>3. m.depth = IF r = "list_instances_lock" THEN remote.depth + 1 ELSE remote.depth
        BY <1>1, <3>5, <3>8, <4>2 DEF IntoList, SetsGroup
      <4>4. InnerDepth' = InnerDepth /\ m.depth >= InnerDepth /\ InnerDepth \in Int
        BY <3>1, <3>3, <3>4, <3>8, <4>2, <4>3
      <4>5. r \in SetsLevel => m.depth = InnerDepth + 1
        BY <3>1, <3>3, <3>8, <4>2, <4>3 DEF SetsLevel
      <4>6. rci_info'.depth \in {m.depth, rci_info.depth}
            /\ \A l \in Levels :
                    rci_info'.list[l] # rci_info.list[l] => r \in SetsLevel /\ l = m.depth
        BY <1>5, <1>6, <1>7, <3>8 DEF PreparedFacts
      <4>7. ASSUME NEW l \in Levels, l <= InnerDepth PROVE m.level[l] = remote.level[l]
        <5>1. l # ListDepth
          BY <3>1, <3>3, <3>5, <4>7 DEF Levels
        <5> QED BY <1>1, <3>8, <5>1 DEF SetsGroup
      <4>8. ASSUME NEW l \in Levels, l <= InnerDepth PROVE rci_info'.list[l] = m.level[l]
        BY <3>2, <4>4, <4>5, <4>6, <4>7, <4>8 DEF Levels
      <4> QED BY <3>1, <3>2, <4>4, <4>6, <4>8
    <3> QED BY <3>6, <3>7, <3>8
  <2> QED BY <1>3, <2>1 DEF ListMirror, Handles
<1>15. Ready'
  <2> SUFFICES ASSUME Queued' PROVE Ready'
    BY DEF Ready
  <2>1. BeginQueued(r, m)
    BY <1>6 DEF Queued
  <2>2. /\ FunctionOf(r) # "none" /\ callback'.function = FunctionOf(r)
        /\ PreparedFacts(r, info, m, rci_info')
    BY <1>7, <2>1
  <2>3. r # "element_process" => callback'.function = r /\ r \in handlers
    BY <2>2 DEF FunctionOf
  <2>4. r = "element_process" =>
          /\ callback'.function \in ElementFunctions
          /\ callback'.function = "get_element" <=> rci_info.action = "query"
          /\ callback'.function = "set_and_transform_element" <=>
               rci_info.action = "set" /\ rci_info.embed
    BY <2>2 DEF FunctionOf, ElementFunction, ElementFunctions
  <2>5. r = "element_process" =>
          /\ rci_info'.action = rci_info.action /\ rci_info'.embed = rci_info.embed
          /\ rci_info'.element = m.element
    BY <1>5, <2>2 DEF PreparedFacts
  <2>6. /\ r \in SetsDepth => rci_info'.depth = m.depth
        /\ r \in {"group_start", "list_start"} => rci_info'.element = Zero
    BY <2>2 DEF PreparedFacts
  <2>7. r \in SetsLevel => m.depth \in Levels /\ rci_info'.list[m.depth] = m.level[m.depth]
    <3>1. r \in SetsLevel => r \notin SetsGroup /\ r \in AboutList
      BY DEF SetsLevel, SetsGroup, GroupInstances, AboutList, ListInstances
    <3>2. r \in AboutList => m.depth \in Levels
      BY <1>1, <1>3, <1>4, DepthAssumption DEF Where, Levels, Remotes
    <3> QED BY <2>2, <3>1, <3>2 DEF PreparedFacts
  <2> QED BY <1>3, <2>3, <2>4, <2>5, <2>6, <2>7 DEF Ready
<1> QED BY <1>9, <1>10, <1>11, <1>12, <1>13, <1>14, <1>15 DEF Mirror


LEMMA FinishMirror ==
    ASSUME Typed, Where, Mirror, NEW r \in Requests, Finish(r)
    PROVE  Mirror' /\ (ListLevelExists => ListLevelExists')
<1>1. /\ request = r /\ rci_info' = ClearedAfter(r) /\ rci_thread_status' = "idle"
      /\ request' = "none" /\ place' = PlaceAfter(r)
      /\ overrun' = (overrun \/ (r = "list_end" /\ ClearedLevel \notin Levels))
      /\ UNCHANGED << handlers, stored >>
  BY DEF Finish
<1>2. place \in AskedIn(r) /\ (r \in Commands => remote.action = r)
  BY <1>1, Kinds DEF Where
<1>3. (Typed /\ Where)'
  BY FinishTyped
<1>4. /\ remote'.action = RemoteAfter(r).action /\ remote'.type = RemoteAfter(r).type
      /\ remote'.compare_to = RemoteAfter(r).compare_to
      /\ remote'.embed = RemoteAfter(r).embed /\ remote'.group = RemoteAfter(r).group
      /\ remote'.item = RemoteAfter(r).item /\ remote'.depth = RemoteAfter(r).depth
      /\ remote'.level = RemoteAfter(r).level
      /\ r # "session_end" => remote'.user_context = rci_info.user_context
  <2>1. remote' = [RemoteAfter(r) EXCEPT !.user_context =
                     IF r = "session_end" THEN @ ELSE ContextAfter]
    BY DEF Finish
  <2>2. RemoteAfter(r) \in Remotes
    BY <1>1, RemoteAfterType
  <2> QED BY <2>1, <2>2 DEF Remotes, ContextAfter
<1>5. place' = PlaceAfter(r) /\ (place' \in InAnAction => r \notin {"session_end", "action_end",
                                                                   "session_start"})
  BY <1>1 DEF PlaceAfter, InAnAction, Commands, GroupInstances, ListInstances
<1>6. r \notin {"session_end", "action_end", "session_start", "action_start"} => place \in InAnAction
  BY <1>2 DEF AskedIn, InAnAction, Requests, PlainRequests, GroupInstances, ListInstances, Commands
<1>7. ActionMirror'
  <2>1. CASE place' \in InAnAction
    <3>1. /\ remote'.action = remote.action /\ remote'.type = remote.type
          /\ remote'.compare_to = remote.compare_to /\ remote'.embed = remote.embed
      BY <1>1, <1>4, <1>5, <2>1, RemoteAfterFacts
    <3>2. /\ rci_info'.action = rci_info.action /\ rci_info'.type = rci_info.type
          /\ rci_info'.compare_to = rci_info.compare_to /\ rci_info'.embed = rci_info.embed
      BY <1>1, ClearedFields
    <3> QED BY <1>1, <1>5, <1>6, <2>1, <3>1, <3>2 DEF Mirror, ActionMirror, Handles
  <2> QED BY <1>1, <2>1 DEF ActionMirror
<1>8. GroupMirror'
  <2>1. CASE place' \in {"group", "list_instances"}
    <3>1. r \notin SetsGroup \cup Commands \cup {"session_end", "action_end", "group_end"}
          \/ r = "group_start"
      BY <1>1, <2>1 DEF PlaceAfter, SetsGroup, Commands, GroupInstances, ListInstances
    <3>2. place \in {"group", "list_instances"} \/ r = "group_start"
      BY <1>2, <3>1 DEF AskedIn, SetsGroup, Commands, GroupInstances, Requests,
                        PlainRequests, ListInstances
    <3>3. remote'.group = remote.group /\ remote'.item = remote.item
      BY <1>1, <1>4, <3>1, RemoteAfterFacts DEF SetsGroup, GroupInstances
    <3>4. rci_info'.group = rci_info.group /\ rci_info'.item = rci_info.item
      BY <1>1, <3>1, ClearedFields
    <3> QED BY <1>1, <3>2, <3>3, <3>4 DEF Mirror, GroupMirror, Handles
  <2> QED BY <1>1, <2>1 DEF GroupMirror
<1>9. LockMirror'
  <2>1. CASE place' = "list_instances"
    <3>1. \/ r \in {"list_instances_lock", "list_instances_set", "list_instance_remove"}
          \/ r = "list_end" /\ remote.level_locked[remote.depth]
      BY <1>1, <2>1 DEF PlaceAfter, Commands, GroupInstances, ListInstances
    <3>2. place = "list_instances" \/ r \in {"list_instances_lock", "list_end"}
      BY <1>2, <3>1 DEF AskedIn, Commands
    <3>3. remote'.depth = remote.depth
      BY <1>1, <1>4, <3>1, RemoteAfterFacts
    <3>4. rci_info'.depth = rci_info.depth
      BY <1>1, <3>1, ClearedFields
    <3> QED BY <1>1, <3>2, <3>3, <3>4 DEF Mirror, LockMirror, Handles
  <2> QED BY <1>1, <2>1 DEF LockMirror
<1>10. CommandMirror'
  <2>1. ASSUME Handles({"session_start", "action_start"}), rci_info'.command
        PROVE  place' = "action" /\ remote'.action = "do_command"
    <3>1. rci_info.command /\ ~(r = "action_end" /\ rci_info.action = "do_command")
      BY <1>1, <2>1, ClearedFields
    <3>2. place = "action" /\ remote.action = "do_command"
      BY <1>1, <2>1, <3>1, Kinds DEF Mirror, CommandMirror
    <3>3. rci_info.action = remote.action
      BY <2>1, <3>2 DEF Mirror, ActionMirror, InAnAction, Handles
    <3>4. r # "action_end"
      BY <3>1, <3>2, <3>3
    <3>5. r \in Commands \/ r \in {"group_start", "group_instances_lock"}
      BY <1>2, <3>2, <3>4 DEF AskedIn, Requests, PlainRequests, Commands, GroupInstances,
                              ListInstances
    <3>6. r \in Commands
      BY <1>1, <3>2, <3>5 DEF Where
    <3>7. place' = "action"
      BY <1>1, <3>6 DEF PlaceAfter, Commands, GroupInstances, ListInstances
    <3>8. remote'.action = remote.action
      BY <1>1, <1>4, <3>6, RemoteAfterFacts DEF Commands
    <3> QED BY <3>2, <3>7, <3>8
  <2> QED BY <1>1, <2>1 DEF CommandMirror, Handles
<1>11. ContextMirror'
  <2>1. r = "session_end" => place' = "none"
    BY <1>1 DEF PlaceAfter, Commands, GroupInstances, ListInstances
  <2> QED BY <1>1, <1>4, <2>1, Kinds DEF Mirror, ContextMirror
<1>12. ListMirror' /\ (ListLevelExists => ListLevelExists')
  <2> SUFFICES ASSUME "list_start" \in handlers
               PROVE  /\ rci_info'.depth >= InnerDepth'
                      /\ \A l \in Levels :
                              l <= InnerDepth' => rci_info'.list[l] = remote'.level[l]
                      /\ r = "list_end" => rci_info.depth \in Levels
    BY <1>1 DEF ListMirror, ListLevelExists, ClearedLevel, Handles
  <2>1. /\ remote.depth \in Int /\ rci_info.depth \in Int /\ rci_info.depth <= MaxDepth
        /\ rci_info'.depth \in Int /\ rci_info'.depth >= 0 /\ MaxDepth \in Int
    BY <1>3, DepthAssumption DEF Typed, Remotes, Infos
  <2>2. /\ rci_info.depth >= InnerDepth
        /\ \A l \in Levels : l <= InnerDepth => rci_info.list[l] = remote.level[l]
    BY DEF Mirror, ListMirror, Handles
  <2>3. InnerDepth = IF (place = "list_instances" /\ r # "list_start") \/ r = "list_instances_lock"
                     THEN remote.depth - 1 ELSE remote.depth
    BY <1>1 DEF InnerDepth
  <2>4. InnerDepth' = IF place' = "list_instances" THEN remote'.depth - 1 ELSE remote'.depth
    BY <1>1 DEF InnerDepth
  <2>5. CASE r \in AboutList \ {"list_instances_unlock", "list_end"}
    <3>1. remote'.depth = remote.depth /\ remote'.level = remote.level
      BY <1>1, <1>4, <2>5, RemoteAfterFacts DEF AboutList, ListInstances
    <3>2. /\ rci_info'.depth = rci_info.depth
          /\ \A l \in Levels : rci_info'.list[l] = rci_info.list[l]
      BY <1>1, <2>5, ClearedFields DEF AboutList, ListInstances
    <3>3. /\ place' = IF r = "list_start" THEN "group" ELSE "list_instances"
          /\ r \notin {"list_start", "list_instances_lock"} => place = "list_instances"
      BY <1>1, <1>2, <2>5 DEF AboutList, ListInstances, GroupInstances, Commands, PlaceAfter, AskedIn
    <3>4. InnerDepth' = InnerDepth
      BY <2>1, <2>3, <2>4, <3>1, <3>3
    <3> QED BY <2>2, <2>5, <3>1, <3>2, <3>4
  <2>6. CASE r = "list_instances_unlock"
    <3>1. /\ remote'.depth = remote.depth - 1
          /\ \A l \in Levels : l < remote.depth => remote'.level[l] = remote.level[l]
      BY <1>1, <1>4, <2>6, RemoteAfterFacts
    <3>2. /\ rci_info'.depth = rci_info.depth
          /\ \A l \in Levels : rci_info'.list[l] = rci_info.list[l]
      BY <1>1, <2>6, ClearedFields
    <3>3. place' = "group" /\ place = "list_instances"
      BY <1>1, <1>2, <2>6 DEF ListInstances, GroupInstances, Commands, PlaceAfter, AskedIn
    <3>4. InnerDepth' = InnerDepth /\ InnerDepth = remote.depth - 1
      BY <2>1, <2>3, <2>4, <2>6, <3>1, <3>3
    <3> QED BY <2>1, <2>2, <2>6, <3>1, <3>2, <3>4 DEF Levels
  <2>7. CASE r = "list_end"
    <3>1. /\ remote'.depth = IF remote.level_locked[remote.depth]
                             THEN remote.depth ELSE remote.depth - 1
          /\ \A l \in Levels : l < remote.depth => remote'.level[l] = remote.level[l]
      BY <1>1, <1>4, <2>7, RemoteAfterFacts
    <3>2. /\ rci_info'.depth = rci_info.depth
          /\ \A l \in Levels : l # rci_info.depth => rci_info'.list[l] = rci_info.list[l]
      BY <1>1, <2>7, ClearedFields
    <3>3. /\ place' = IF remote.level_locked[remote.depth] THEN "list_instances" ELSE "group"
          /\ place = "group"
      BY <1>1, <1>2, <2>7 DEF ListInstances, GroupInstances, Commands, PlaceAfter, AskedIn
    <3>4. InnerDepth' = remote.depth - 1 /\ InnerDepth = remote.depth
      BY <2>1, <2>3, <2>4, <2>7, <3>1, <3>3
    <3>5. remote.depth > 0
      BY <1>1, <2>7 DEF Where, AboutList
    <3> QED BY <2>1, <2>2, <3>1, <3>2, <3>4, <3>5 DEF Levels
  <2>8. CASE r = "element_process"
    <3>1. r \notin AboutList
      BY <2>8 DEF AboutList, ListInstances
    <3>2. /\ remote'.depth = remote.depth
          /\ \A l \in Levels : remote'.level[l] = remote.level[l]
      BY <1>1, <1>4, <2>8, <3>1, RemoteAfterFacts
    <3>3. /\ rci_info'.depth = rci_info.depth
          /\ \A l \in Levels : rci_info'.list[l] = rci_info.list[l]
      BY <1>1, <2>8, ClearedFields
    <3>4. place' = "group" /\ place = "group"
      BY <1>1, <1>2, <2>8 DEF ListInstances, GroupInstances, Commands, PlaceAfter, AskedIn
    <3>5. InnerDepth' = InnerDepth
      BY <2>3, <2>4, <2>8, <3>2, <3>4
    <3> QED BY <2>2, <2>8, <3>2, <3>3, <3>5
  <2>9. CASE r \notin AboutList \cup {"element_process"}
    <3>1. remote'.depth = 0 /\ place' # "list_instances"
      <4>1. CASE r = "group_start"
        <5>1. place \notin {"group", "list_instances"}
          BY <1>2, <4>1 DEF AskedIn, Commands
        <5>2. remote'.depth = remote.depth
          BY <1>1, <1>4, <4>1, RemoteAfterFacts
        <5>3. place' = "group"
          BY <1>1, <4>1 DEF ListInstances, GroupInstances, Commands, PlaceAfter
        <5> QED BY <5>1, <5>2, <5>3 DEF Where
      <4>2. CASE r # "group_start"
        <5>1. place' \notin {"group", "list_instances"}
          BY <1>1, <2>9, <4>2 DEF ListInstances, GroupInstances, Commands, PlaceAfter,
                                  AboutList, Requests, PlainRequests
        <5> QED BY <1>3, <5>1 DEF Where
      <4> QED BY <4>1, <4>2
    <3>2. InnerDepth' = 0
      BY <2>4, <3>1
    <3> QED BY <2>1, <2>9, <3>2 DEF Levels, AboutList
  <2> QED BY <2>5, <2>6, <2>7, <2>8, <2>9
<1>13. Ready'
  BY <1>1 DEF Ready, Queued
<1> QED BY <1>7, <1>8, <1>9, <1>10, <1>11, <1>12, <1>13 DEF Mirror


LEMMA CancelMirror ==
    ASSUME Typed, Cancel
    PROVE  Mirror' /\ (ListLevelExists => ListLevelExists')
<1>1. /\ place' = "none" /\ request' = "none" /\ remote' = NewRemote
      /\ rci_thread_status' = "idle" /\ UNCHANGED << handlers, overrun, rci_info >>
  BY DEF Cancel
<1>2. ActionMirror' /\ GroupMirror' /\ LockMirror' /\ CommandMirror' /\ ContextMirror' /\ Ready'
  BY <1>1 DEF ActionMirror, GroupMirror, LockMirror, CommandMirror, ContextMirror, Ready,
              InAnAction, Queued
<1>3. InnerDepth' = 0
  BY <1>1 DEF InnerDepth, NewRemote
<1>4. rci_info.depth >= 0
  BY DepthAssumption DEF Typed, Infos
<1>5. ListMirror'
  BY <1>1, <1>3, <1>4 DEF ListMirror, Levels
<1> QED BY <1>1, <1>2, <1>5 DEF Mirror, ListLevelExists

LEMMA QuietMirror ==
    ASSUME Mirror, Queued' => Queued,
           UNCHANGED << handlers, callback, rci_info, place, remote, request, stored >>
    PROVE  Mirror'
<1>1. ActionMirror' /\ GroupMirror'
  BY DEF Mirror, ActionMirror, GroupMirror, Handles
<1>2. ListMirror' /\ LockMirror'
  BY DEF Mirror, ListMirror, LockMirror, InnerDepth, Handles
<1>3. CommandMirror' /\ ContextMirror'
  BY DEF Mirror, CommandMirror, ContextMirror, Handles
<1>4. Ready'
  BY DEF Mirror, Ready
<1> QED BY <1>1, <1>2, <1>3, <1>4 DEF Mirror

LEMMA ReturnMirror ==
    ASSUME Typed, InStep, Mirror, NEW e \in AllErrors, NEW matches \in Writes,
           NEW stores \in BOOLEAN, ThreadReturn(e, matches, stores)
    PROVE  Mirror'
<1>1. /\ pc = "callback" /\ callback' = [callback EXCEPT !.error = e]
      /\ rci_info' = [rci_info EXCEPT !.matches = Written(matches, @), !.user_context = @ \/ stores]
      /\ ~owed => stored' = (stored \/ stores)
      /\ UNCHANGED << handlers, rci_thread_status, place, remote, request >>
  BY DEF ThreadReturn, cloud
<1>2. /\ rci_info'.action = rci_info.action /\ rci_info'.type = rci_info.type
      /\ rci_info'.compare_to = rci_info.compare_to /\ rci_info'.embed = rci_info.embed
      /\ rci_info'.group = rci_info.group /\ rci_info'.item = rci_info.item
      /\ rci_info'.depth = rci_info.depth /\ rci_info'.list = rci_info.list
      /\ rci_info'.element = rci_info.element /\ rci_info'.command = rci_info.command
      /\ rci_info'.user_context = (rci_info.user_context \/ stores)
  BY <1>1 DEF Typed, Infos
<1>3. callback'.function = callback.function
  BY <1>1 DEF Typed, Callbacks
<1>4. ActionMirror' /\ GroupMirror'
  BY <1>1, <1>2 DEF Mirror, ActionMirror, GroupMirror, Handles
<1>5. ListMirror' /\ LockMirror'
  BY <1>1, <1>2 DEF Mirror, ListMirror, LockMirror, InnerDepth, Handles
<1>6. CommandMirror'
  BY <1>1, <1>2 DEF Mirror, CommandMirror, Handles
<1>7. Ready'
  BY <1>1, <1>2, <1>3 DEF Mirror, Ready, Queued
<1>8. ContextMirror'
  <2>1. request # "none" => ~owed
    BY <1>1 DEF InStep
  <2>2. request = "none" => place = "none"
    BY <1>1 DEF InStep, Queued
  <2> QED BY <1>1, <1>2, <2>1, <2>2 DEF Mirror, ContextMirror
<1> QED BY <1>4, <1>5, <1>6, <1>7, <1>8 DEF Mirror

LEMMA StaysLost ==
    ASSUME [Next]_vars, ~lostsync'
    PROVE  ~lostsync
<1>1. CASE \E r \in Requests : Begin(r)
  BY <1>1 DEF Begin, BeginQueued, BeginUnhandled, NewRequest, Sound
<1>2. CASE (\E r \in Requests : Finish(r)) \/ Cancel
  BY <1>2 DEF Finish, Cancel, Sound
<1>3. CASE ThreadAssertFails
  BY <1>3 DEF ThreadAssertFails
<1>4. CASE ThreadStep /\ ~ThreadAssertFails
  <2>1. UNCHANGED lostsync
    BY <1>4 DEF ThreadStep, ThreadAcquire, ThreadExit, ThreadCall, ThreadReturn,
                ThreadUpdate, ThreadUpdateCancelled, ThreadMark, flags
  <2> QED BY <2>1
<1>5. CASE StopThread \/ UNCHANGED vars
  BY <1>5 DEF StopThread, vars, flags
<1> QED BY <1>1, <1>2, <1>3, <1>4, <1>5 DEF Next

Inv ==
    /\ Typed /\ Where /\ ListLevelExists
    /\ ~lostsync => InStep /\ Mirror

LEMMA MirrorStep ==
    ASSUME Inv, [Next]_vars
    PROVE  ListLevelExists' /\ (~lostsync' => Mirror')
<1>1. CASE \E r \in Requests : Begin(r)
  <2>1. PICK r \in Requests : CanAsk(r) /\ \E m \in AskedWith(r) :
                                             BeginQueued(r, m) \/ BeginUnhandled(r, m)
    BY <1>1 DEF Begin
  <2>2. PICK m \in AskedWith(r) : BeginQueued(r, m) \/ BeginUnhandled(r, m)
    BY <2>1
  <2>3. ~lostsync' => Mirror'
    BY <2>1, <2>2, BeginMirror, StaysLost DEF Inv
  <2>4. UNCHANGED << handlers, overrun >>
    BY <2>2 DEF BeginQueued, BeginUnhandled, NewRequest
  <2> QED BY <2>3, <2>4 DEF Inv, ListLevelExists
<1>2. CASE \E r \in Requests : Finish(r)
  <2>1. PICK r \in Requests : Finish(r)
    BY <1>2
  <2>2. ~lostsync
    BY <2>1 DEF Finish, Sound
  <2> QED BY <2>1, <2>2, FinishMirror DEF Inv
<1>3. CASE Cancel
  BY <1>3, CancelMirror DEF Inv
<1>4. CASE \E e \in AllErrors, matches \in Writes, stores \in BOOLEAN :
              ThreadReturn(e, matches, stores)
  <2>1. PICK e \in AllErrors, matches \in Writes, stores \in BOOLEAN :
          ThreadReturn(e, matches, stores)
    BY <1>4
  <2>2. UNCHANGED << handlers, overrun >>
    BY <2>1 DEF ThreadReturn, flags
  <2> QED BY <2>1, <2>2, ReturnMirror, StaysLost DEF Inv, ListLevelExists
<1>5. ASSUME UNCHANGED << handlers, callback, rci_info, place, remote, request, stored, overrun >>,
             Queued' => Queued
      PROVE  ListLevelExists' /\ (~lostsync' => Mirror')
  <2>1. ListLevelExists'
    BY <1>5 DEF Inv, ListLevelExists
  <2> QED BY <1>5, <2>1, QuietMirror, StaysLost DEF Inv
<1>6. CASE ThreadAcquire \/ ThreadExit \/ ThreadCall \/ ThreadUpdate
  <2>1. UNCHANGED << handlers, callback, rci_info, place, remote, request, stored, overrun,
                     rci_thread_status >>
    BY <1>6 DEF ThreadAcquire, ThreadExit, ThreadCall, ThreadUpdate, service, cloud, history, flags
  <2> QED BY <1>5, <2>1 DEF Queued
<1>7. CASE ThreadAssertFails \/ ThreadUpdateCancelled \/ ThreadMark
  <2>1. /\ UNCHANGED << handlers, callback, rci_info, place, remote, request, stored, overrun >>
        /\ rci_thread_status' \in {rci_thread_status, "processed"}
    BY <1>7 DEF ThreadAssertFails, ThreadUpdateCancelled, ThreadMark, service, cloud, history, flags
  <2> QED BY <1>5, <2>1 DEF Queued
<1>8. CASE StopThread \/ UNCHANGED vars
  <2>1. UNCHANGED << handlers, callback, rci_info, place, remote, request, stored, overrun,
                     rci_thread_status >>
    BY <1>8 DEF StopThread, vars, service, cloud, history, flags
  <2> QED BY <1>5, <2>1 DEF Queued
<1> QED BY <1>1, <1>2, <1>3, <1>4, <1>6, <1>7, <1>8 DEF Next, ThreadStep

LEMMA InitInv ==
    ASSUME Init
    PROVE  Inv
<1>1. Typed /\ Where
  BY InitTyped
<1>2. ListLevelExists
  BY DEF Init, ListLevelExists
<1>3. InStep
  BY DEF Init, InStep, Queued
<1>4. remote.depth = 0 /\ rci_info.depth = 0 /\ rci_info.command = FALSE
  BY DEF Init, NewRemote, NewInfo
<1>5. ActionMirror /\ GroupMirror /\ LockMirror /\ CommandMirror /\ ContextMirror
  BY DEF Init, ActionMirror, GroupMirror, LockMirror, CommandMirror, ContextMirror, InAnAction
<1>6. ListMirror
  <2>1. InnerDepth = 0
    BY <1>4 DEF Init, InnerDepth
  <2> QED BY <1>4, <2>1 DEF ListMirror, Levels
<1>7. Ready
  BY DEF Init, Ready, Queued
<1> QED BY <1>1, <1>2, <1>3, <1>5, <1>6, <1>7 DEF Inv, Mirror

LEMMA InvStep ==
    ASSUME Inv, [Next]_vars
    PROVE  Inv'
<1>1. Typed' /\ Where'
  BY TypedStep DEF Inv
<1>2. ~lostsync' => InStep'
  BY InStepStep DEF Inv
<1> QED BY <1>1, <1>2, MirrorStep DEF Inv


-----------------------------------------------------------------------------
(* What the invariant says. *)

LEMMA InvIsSound ==
    ASSUME Inv
    PROVE  ThreadIsSound
<1>1. TypeOK
  <2>1. remote.depth \in 0 .. MaxDepth /\ answer.error \in AllErrors /\ verdict.error \in AllErrors
    BY DEF Inv, Typed, Remotes, Answers, Verdicts
  <2> QED BY <2>1 DEF Inv, Typed, TypeOK, Statuses, Counters, Places, Callbacks, CallbackTypes
<1>2. WakesForCallback
  <2> SUFFICES ASSUME ~lostsync, pc = "check", status # "request_stop"
               PROVE  CallbackQueued \/ TransformMissing
    BY DEF WakesForCallback
  <2>1. InStep
    BY DEF Inv
  <2>2. status = "running"
    BY <2>1 DEF Inv, Typed, Statuses, InStep
  <2> QED BY <2>1, <2>2 DEF InStep, HasCallback, CallbackQueued, Queued
<1> QED BY <1>1, <1>2 DEF ThreadIsSound, Inv

LEMMA InvIsRight ==
    ASSUME Inv
    PROVE  CallbackIsRight
<1> SUFFICES ASSUME Calling PROVE CallbackIsRight
  BY DEF CallbackIsRight, PlaceIsRight, ElementCallbackIsRight, ContextIsSessions
<1>1. InStep /\ Mirror /\ Typed /\ Where
  BY DEF Calling, Inv
<1>2. Queued /\ request # "none" /\ request \in Requests
  BY <1>1 DEF Calling, InStep, Queued, Typed
<1>3. place \in AskedIn(request)
  BY <1>1, <1>2 DEF Where
<1>4. /\ request # "element_process" => request \in handlers
      /\ request = "element_process" =>
           /\ callback.function = "get_element" <=> rci_info.action = "query"
           /\ callback.function = "set_and_transform_element" <=>
                rci_info.action = "set" /\ rci_info.embed
           /\ rci_info.element = remote.element
      /\ request \in SetsDepth => rci_info.depth = remote.depth
      /\ request \in SetsLevel => rci_info.list[remote.depth] = remote.level[remote.depth]
      /\ request \in {"group_start", "list_start"} => rci_info.element = Zero
  BY <1>1, <1>2 DEF Mirror, Ready
<1>5. place # "none" /\ request # "session_end" =>
        place \in InAnAction \/ request = "action_start"
  BY <1>2, <1>3 DEF AskedIn, InAnAction, Requests, PlainRequests, Commands, GroupInstances,
                    ListInstances
<1>6. ContextIsSessions
  BY <1>1, <1>2 DEF ContextIsSessions, Mirror, ContextMirror
<1>7. Handles({"action_start"}) /\ place # "none" /\ request # "session_end" =>
        /\ rci_info.action = remote.action /\ rci_info.type = remote.type
        /\ remote.action = "query" /\ remote.type = "setting" =>
             rci_info.compare_to = remote.compare_to
        /\ remote.action = "set" /\ remote.type = "setting" => rci_info.embed = remote.embed
  BY <1>1, <1>5 DEF Mirror, ActionMirror
<1>8. ElementCallbackIsRight
  <2>1. request = "element_process" => place = "group"
    BY <1>3 DEF AskedIn, Commands
  <2> QED BY <1>4, <1>7, <2>1 DEF ElementCallbackIsRight
<1>9. PlaceIsRight
  <2>1. Handles({"group_start"}) /\ (place = "group" \/ request = "group_start") =>
          rci_info.group = remote.group /\ rci_info.item = remote.item
    BY <1>1 DEF Mirror, GroupMirror
  <2>2. request = "list_instances_set" /\ Handles({"list_instances_lock", "list_end"}) =>
          rci_info.depth = remote.depth
    <3>1. request = "list_instances_set" => place = "list_instances"
      BY <1>3 DEF AskedIn, Commands
    <3> QED BY <1>1, <3>1 DEF Mirror, LockMirror
  <2>3. request = "action_start" /\ Handles({"session_start"}) => ~rci_info.command
    <3>1. request = "action_start" => place = "session"
      BY <1>3 DEF AskedIn, Commands
    <3> QED BY <1>1, <1>4, <3>1 DEF Mirror, CommandMirror, Handles
  <2>4. ASSUME Handles({"list_start"}), NEW l \in 1 .. remote.depth,
               request \in {"list_start", "list_end", "list_instances_set",
                            "list_instance_remove", "element_process"}
        PROVE  rci_info.list[l] = remote.level[l]
    <3>1. /\ remote.depth \in 0 .. MaxDepth /\ l \in Levels /\ MaxDepth \in Nat
          /\ l \in Int /\ remote.depth \in Int
      BY <1>1, DepthAssumption DEF Typed, Remotes, Levels
    <3>2. l <= InnerDepth => rci_info.list[l] = remote.level[l]
      BY <1>1, <2>4, <3>1 DEF Mirror, ListMirror
    <3>3. CASE request \in {"list_instances_set", "list_instance_remove"}
      <4>1. InnerDepth = remote.depth - 1
        BY <1>3, <3>3 DEF InnerDepth, AskedIn, Commands
      <4>2. rci_info.list[remote.depth] = remote.level[remote.depth]
        BY <1>4, <3>3 DEF SetsLevel
      <4> QED BY <3>1, <3>2, <4>1, <4>2
    <3>4. CASE request \in {"list_start", "list_end", "element_process"}
      <4>1. InnerDepth = remote.depth
        BY <1>3, <3>4 DEF InnerDepth, AskedIn, Commands
      <4> QED BY <3>1, <3>2, <4>1
    <3> QED BY <2>4, <3>3, <3>4
  <2>5. request \in {"list_start", "list_end", "list_instance_remove", "element_process"} =>
          rci_info.depth = remote.depth
    BY <1>4 DEF SetsDepth
  <2> QED BY <1>4, <1>7, <2>1, <2>2, <2>3, <2>4, <2>5 DEF PlaceIsRight
<1> QED BY <1>6, <1>8, <1>9 DEF CallbackIsRight

(***************************************************************************)
(* The thread's assertions hold: a token of its semaphore stands for a     *)
(* queued request with a callback, until a session is cancelled that it    *)
(* has not finished with, and no level beside rci_info->list.data is       *)
(* cleared, for every application, every set of names and every depth of   *)
(* lists (ccapi_rci_thread, lines 252 to 367; ccapi_rci_handler, line      *)
(* 1008).                                                                  *)
(***************************************************************************)
THEOREM ThreadCorrect == Spec => []ThreadIsSound
<1>1. Init => Inv
  BY InitInv
<1>2. Inv /\ [Next]_vars => Inv'
  BY InvStep
<1>3. Inv => ThreadIsSound
  BY InvIsSound
<1> QED BY <1>1, <1>2, <1>3, PTL DEF Spec

(***************************************************************************)
(* The callback ccapi_rci_thread calls is the right one for the request    *)
(* and finds in rci_info the place of the server's request and the context *)
(* of its own session, although ccapi_rci_handler only copies what each    *)
(* request changes, and only for a callback the application provides.      *)
(***************************************************************************)
THEOREM CallbackCorrect == Spec => []CallbackIsRight
<1>1. Init => Inv
  BY InitInv
<1>2. Inv /\ [Next]_vars => Inv'
  BY InvStep
<1>3. Inv => CallbackIsRight
  BY InvIsRight
<1> QED BY <1>1, <1>2, <1>3, PTL DEF Spec


-----------------------------------------------------------------------------
(***************************************************************************)
(* What was called for a request, and what it returned.                    *)
(***************************************************************************)
\* The place CCFSM is in was entered with `matches' cleared.
MatchKnown ==
    \/ "session_start" \in handlers /\ (place # "none" \/ request # "none")
    \/ "action_start" \in handlers /\ (place \in InAnAction \/ request = "action_start")

Unreturned == Queued /\ pc \in {"acquire", "check", "stopped", "callback"}

Told ==
    /\ request # "none" => answer = NoAnswer /\ callback.error = verdict.error
    /\ Queued => called = IF pc \in {"acquire", "check", "stopped"} THEN 0 ELSE 1
    /\ Unreturned => verdict = NoVerdict
    /\ Queued /\ pc = "callback" => function = callback.function
    /\ rci_thread_status = "processed" /\ request # "element_process" =>
         called = IF request \in handlers THEN 1 ELSE 0
    /\ request # "none" /\ verdict.matches = "yes" => rci_info.matches
    /\ request # "none" /\ verdict.matches = "no" => ~rci_info.matches
    /\ MatchKnown /\ QueriesSettings /\ rci_info.matches =>
         carried \/ (request = "element_process" /\ verdict.matches = "yes")
    /\ answer.request # "none" =>
         /\ answer.error = verdict.error
         /\ answer.matches /\ handlers \cap {"session_start", "action_start"} # {} =>
              \/ verdict.matches = "yes"
              \/ verdict.matches = "nothing" /\ answer.carried
         /\ /\ verdict.matches = "yes" /\ answer.request \in ComparedRequests
            /\ "action_start" \in handlers /\ place # "none" /\ AsksSettings(remote)
            => answer.matches
         /\ answer.request # "element_process" =>
              called = IF answer.request \in handlers THEN 1 ELSE 0

LEMMA BeginTold ==
    ASSUME Inv, ~lostsync, ~lostsync', Told, NEW r \in Requests, CanAsk(r),
           NEW m \in AskedWith(r), BeginQueued(r, m) \/ BeginUnhandled(r, m)
    PROVE  Told'
<1>1. m \in Remotes
  BY AskedFacts DEF Inv
<1>2. /\ request' = r /\ request = "none" /\ called' = 0 /\ verdict' = NoVerdict
      /\ answer' = NoAnswer /\ carried' = (carried /\ ~Refreshed(r, m))
      /\ ~(owed /\ (pc = "callback" \/ FunctionOf(r) # "none"))
      /\ UNCHANGED << handlers, place, pc >>
  BY DEF BeginQueued, BeginUnhandled, NewRequest
<1>3. callback'.error = "none" /\ rci_thread_status' \in {"queued", "processed"}
      /\ (rci_thread_status' = "processed" => FunctionOf(r) = "none")
  BY DEF BeginQueued, BeginUnhandled, NoCallback
<1>4. pc \notin {"callback", "mark"} /\ (pc = "update" => rci_thread_status' = "processed")
  BY <1>2 DEF Inv, InStep, Queued, BeginQueued, BeginUnhandled, NewRequest
<1>5. pc \in Counters
  BY DEF Inv, Typed
<1>6. rci_thread_status' = "processed" /\ r # "element_process" => r \notin handlers
  BY <1>3, Kinds DEF FunctionOf
<1>7. MatchKnown' /\ QueriesSettings' /\ rci_info'.matches => carried'
  <2> DEFINE info == [rci_info EXCEPT !.user_context = m.user_context]
  <2>1. /\ info \in Infos /\ info.action = rci_info.action /\ info.type = rci_info.type
        /\ info.matches = rci_info.matches
    BY <1>1 DEF Inv, Typed, Infos, Remotes
  <2>2. BeginUnhandled(r, m) => rci_info' = info /\ FunctionOf(r) = "none"
    BY DEF BeginUnhandled
  <2>3. BeginQueued(r, m) => PreparedFacts(r, info, m, rci_info')
    <3>1. PreparedFacts(r, info, m, Prepared(r, info, m))
      BY <1>1, <2>1, PreparedFields
    <3> QED BY <3>1 DEF BeginQueued
  <2>4. r \in {"session_start", "action_start"} /\ r \in handlers => BeginQueued(r, m)
    BY <2>2, Kinds DEF FunctionOf
  <2> HIDE DEF info
  <2>5. MatchKnown /\ QueriesSettings /\ rci_info.matches => carried
    BY <1>2, Kinds DEF Told
  <2>6. place \in AskedIn(r)
    BY AskedPlace
  <2>7. CASE r = "session_start"
    <3>1. place = "none"
      BY <2>6, <2>7 DEF AskedIn, Commands
    <3> QED BY <1>2, <2>3, <2>4, <2>7, <3>1 DEF MatchKnown, PreparedFacts, InAnAction
  <2>8. CASE r = "action_start"
    <3>1. place = "session"
      BY <2>6, <2>8 DEF AskedIn, Commands
    <3>2. CASE BeginQueued(r, m)
      BY <2>3, <2>8, <3>2 DEF PreparedFacts, QueriesSettings
    <3>3. CASE BeginUnhandled(r, m)
      <4>1. QueriesSettings' = QueriesSettings /\ rci_info'.matches = rci_info.matches
        BY <2>1, <2>2, <3>3 DEF QueriesSettings
      <4>2. "action_start" \notin handlers
        BY <2>2, <2>8, <3>3, Kinds DEF FunctionOf
      <4> QED BY <1>2, <2>5, <2>8, <3>1, <4>1, <4>2 DEF MatchKnown, Refreshed
    <3> QED BY <3>2, <3>3
  <2>9. CASE r \notin {"session_start", "action_start"}
    <3>1. QueriesSettings' = QueriesSettings /\ rci_info'.matches = rci_info.matches
      BY <2>1, <2>2, <2>3, <2>9 DEF PreparedFacts, QueriesSettings
    <3>2. place # "none"
      BY <2>6, <2>9 DEF AskedIn, Requests, PlainRequests, GroupInstances, ListInstances, Commands
    <3> QED BY <1>2, <2>5, <2>9, <3>1, <3>2 DEF MatchKnown, Refreshed
  <2> QED BY <2>7, <2>8, <2>9
<1> QED BY <1>2, <1>3, <1>4, <1>5, <1>6, <1>7 DEF Told, Unreturned, Queued, NoVerdict,
                                                   NoAnswer, Counters

LEMMA FinishTold ==
    ASSUME Inv, ~lostsync, Told, NEW r \in Requests, Finish(r)
    PROVE  Told'
<1>1. /\ request = r /\ rci_thread_status = "processed" /\ rci_thread_status' = "idle"
      /\ rci_info' = ClearedAfter(r) /\ request' = "none" /\ place' = PlaceAfter(r)
      /\ carried' = (carried /\ ~(r = "element_process" /\ AsksSettings(remote)))
      /\ UNCHANGED << handlers, called, verdict >>
  BY DEF Finish
<1>2. /\ answer'.request = r /\ answer'.error = callback.error /\ answer'.carried = carried
      /\ answer'.matches = (r \in ComparedRequests /\ QueriesSettings /\ rci_info.matches)
  BY DEF Finish
<1>3. r # "none"
  BY Kinds
<1>4. /\ rci_info'.action = rci_info.action /\ rci_info'.type = rci_info.type
      /\ rci_info'.matches = (rci_info.matches /\ ~(r = "element_process" /\ QueriesSettings))
  BY <1>1, ClearedFields DEF Inv
<1>5. place \in AskedIn(r)
  BY <1>1, <1>3 DEF Inv, Where
<1>6. r \in ComparedRequests => place \in InAnAction
  BY <1>5 DEF AskedIn, InAnAction, Commands, ComparedRequests
<1>7. answer'.matches /\ handlers \cap {"session_start", "action_start"} # {} =>
        \/ verdict.matches = "yes"
        \/ verdict.matches = "nothing" /\ answer'.carried
  <2> SUFFICES ASSUME answer'.matches, handlers \cap {"session_start", "action_start"} # {},
                      verdict.matches # "yes"
               PROVE  verdict.matches = "nothing" /\ carried
    BY <1>2
  <2>1. verdict.matches \in Writes
    BY DEF Inv, Typed, Verdicts
  <2>2. verdict.matches # "no"
    BY <1>1, <1>2, <1>3 DEF Told
  <2>3. MatchKnown
    BY <1>1, <1>3, <1>2, <1>6 DEF MatchKnown
  <2>4. carried
    BY <1>2, <2>3 DEF Told
  <2> QED BY <2>1, <2>2, <2>4 DEF Writes
<1>11. verdict.matches = "yes" /\ r \in ComparedRequests /\ "action_start" \in handlers
       /\ AsksSettings(remote') => answer'.matches
  <2> SUFFICES ASSUME verdict.matches = "yes", r \in ComparedRequests,
                      "action_start" \in handlers, AsksSettings(remote')
               PROVE  answer'.matches
    OBVIOUS
  <2>1. rci_info.matches
    BY <1>1, <1>3 DEF Told
  <2>2. remote'.action = remote.action /\ remote'.type = remote.type
    <3>1. RemoteAfter(r) \in Remotes
      BY <1>1, RemoteAfterType DEF Inv
    <3>2. r \notin {"session_end", "action_end"}
      BY DEF ComparedRequests
    <3>3. RemoteAfter(r).action = remote.action /\ RemoteAfter(r).type = remote.type
      BY <1>1, <3>2, RemoteAfterFacts DEF Inv
    <3> QED BY <3>1, <3>3 DEF Finish, Remotes
  <2>3. rci_info.action = remote.action /\ rci_info.type = remote.type
    BY <1>6 DEF Inv, Mirror, ActionMirror, Handles
  <2> QED BY <1>2, <2>1, <2>2, <2>3 DEF AsksSettings, QueriesSettings
<1>8. MatchKnown' /\ QueriesSettings' /\ rci_info'.matches => carried'
  <2>1. QueriesSettings' = QueriesSettings
    BY <1>4 DEF QueriesSettings
  <2>2. place' \in InAnAction => place \in InAnAction \/ r = "action_start"
    <3>1. place' \in InAnAction => r \notin {"session_start", "session_end", "action_end"}
      BY <1>1 DEF PlaceAfter, InAnAction, Commands, GroupInstances, ListInstances
    <3>2. r \notin {"session_start", "session_end", "action_end", "action_start"} =>
            place \in InAnAction
      BY <1>5 DEF AskedIn, InAnAction, Requests, PlainRequests, Commands, GroupInstances,
                  ListInstances
    <3> QED BY <3>1, <3>2
  <2>3. MatchKnown' => MatchKnown
    BY <1>1, <1>3, <2>2 DEF MatchKnown
  <2> QED BY <1>1, <1>4, <2>1, <2>3 DEF Told
<1>9. answer'.error = verdict.error
  BY <1>1, <1>2, <1>3 DEF Told
<1>10. r # "element_process" => called = IF r \in handlers THEN 1 ELSE 0
  BY <1>1 DEF Told
<1> QED BY <1>1, <1>2, <1>7, <1>8, <1>9, <1>10, <1>11 DEF Told, Unreturned, Queued

LEMMA ReturnTold ==
    ASSUME Inv, ~lostsync, Told, NEW e \in AllErrors, NEW matches \in Writes, NEW stores \in BOOLEAN, ThreadReturn(e, matches, stores)
    PROVE  Told'
<1>1. /\ pc = "callback" /\ pc' = "update" /\ callback' = [callback EXCEPT !.error = e]
      /\ rci_info' = [rci_info EXCEPT !.matches = Written(matches, @), !.user_context = @ \/ stores]
      /\ carried' = IF matches = "nothing" THEN carried
                    ELSE matches = "yes" /\ function # "get_element"
      /\ IF owed THEN UNCHANGED verdict ELSE verdict' = [error |-> e, matches |-> matches]
      /\ UNCHANGED << handlers, rci_thread_status, place, remote, request, called, answer >>
  BY DEF ThreadReturn, cloud
<1>2. /\ rci_info'.action = rci_info.action /\ rci_info'.type = rci_info.type
      /\ rci_info'.matches = Written(matches, rci_info.matches) /\ callback'.error = e
  BY <1>1 DEF Inv, Typed, Infos, Callbacks
<1>3. QueriesSettings' = QueriesSettings /\ MatchKnown' = MatchKnown
  BY <1>1, <1>2 DEF QueriesSettings, MatchKnown
<1>4. InStep /\ Mirror
  BY DEF Inv
<1>5. CASE owed
  <2>1. request = "none" /\ place = "none" /\ ~Queued /\ rci_thread_status = "idle"
    BY <1>1, <1>4, <1>5 DEF InStep, Queued
  <2>2. ~MatchKnown
    BY <2>1 DEF MatchKnown, InAnAction
  <2> QED BY <1>1, <1>3, <1>5, <2>1, <2>2 DEF Told, Unreturned, Queued
<1>6. CASE ~owed
  <2>1. Queued /\ request # "none" /\ rci_thread_status = "queued" /\ called = 1
        /\ verdict = NoVerdict /\ function = callback.function /\ answer = NoAnswer
    BY <1>1, <1>4, <1>6 DEF InStep, Queued, Told, Unreturned
  <2>2. function = "get_element" => request = "element_process"
    <3>1. request \in Requests
      BY <2>1 DEF Inv, Typed
    <3>2. request # "element_process" => callback.function = request
      BY <1>4, <2>1 DEF Mirror, Ready
    <3>3. "get_element" \notin Requests
      BY DEF Requests, PlainRequests, Commands, GroupInstances, ListInstances
    <3> QED BY <1>1, <2>1, <3>1, <3>2, <3>3
  <2>3. verdict' = [error |-> e, matches |-> matches]
    BY <1>1, <1>6
  <2>4. ASSUME MatchKnown, QueriesSettings, rci_info'.matches
        PROVE  carried' \/ (request = "element_process" /\ matches = "yes")
    <3>1. CASE matches = "nothing"
      BY <1>1, <1>2, <2>1, <2>4, <3>1 DEF Told, NoVerdict, Written
    <3>2. CASE matches = "yes"
      BY <1>1, <2>2, <3>2
    <3>3. CASE matches = "no"
      BY <1>2, <2>4, <3>3 DEF Written
    <3> QED BY <3>1, <3>2, <3>3 DEF Writes
  <2>5. /\ matches = "yes" => rci_info'.matches
        /\ matches = "no" => ~rci_info'.matches
    BY <1>2 DEF Written
  <2> QED BY <1>1, <1>2, <1>3, <2>1, <2>3, <2>4, <2>5 DEF Told, Unreturned, Queued, NoAnswer
<1> QED BY <1>5, <1>6

\* CCFSM does not run again once it has been terminated, and is told nothing.
LEMMA StaysStopped ==
    ASSUME [Next]_vars, ccfsm'
    PROVE  ccfsm
<1>1. CASE \E r \in Requests : Begin(r) \/ Finish(r)
  BY <1>1 DEF Begin, BeginQueued, BeginUnhandled, NewRequest, Finish, Sound
<1>2. CASE Cancel \/ StopThread
  BY <1>2 DEF Cancel, Sound, StopThread
<1>3. CASE ThreadStep \/ UNCHANGED vars
  <2>1. UNCHANGED ccfsm
    BY <1>3 DEF ThreadStep, ThreadAcquire, ThreadExit, ThreadAssertFails, ThreadCall,
                ThreadReturn, ThreadUpdate, ThreadUpdateCancelled, ThreadMark, vars, cloud
  <2> QED BY <2>1
<1> QED BY <1>1, <1>2, <1>3 DEF Next

LEMMA StoppedStep ==
    ASSUME ~ccfsm => answer.request = "none", [Next]_vars, ~ccfsm'
    PROVE  answer'.request = "none"
<1>1. CASE \E r \in Requests : Begin(r) \/ Finish(r)
  <2>1. PICK r \in Requests : Begin(r) \/ Finish(r)
    BY <1>1
  <2>2. Begin(r) => ccfsm /\ ccfsm' = ccfsm
    BY DEF Begin, BeginQueued, BeginUnhandled, NewRequest, Sound
  <2>3. Finish(r) => ccfsm /\ ccfsm' = ccfsm
    BY DEF Finish, Sound
  <2> QED BY <2>1, <2>2, <2>3
<1>2. CASE Cancel
  BY <1>2 DEF Cancel, Sound, history
<1>3. CASE StopThread
  BY <1>3 DEF StopThread, NoAnswer
<1>4. CASE ThreadStep \/ UNCHANGED vars
  <2>1. UNCHANGED << ccfsm, answer >>
    BY <1>4 DEF ThreadStep, ThreadAcquire, ThreadExit, ThreadAssertFails, ThreadCall,
                ThreadReturn, ThreadUpdate, ThreadUpdateCancelled, ThreadMark, vars, cloud,
                history
  <2> QED BY <2>1
<1> QED BY <1>1, <1>2, <1>3, <1>4 DEF Next

LEMMA ToldStep ==
    ASSUME Inv, ccfsm /\ ~lostsync => Told, [Next]_vars
    PROVE  ccfsm' /\ ~lostsync' => Told'
<1> SUFFICES ASSUME ccfsm', ~lostsync' PROVE Told'
  OBVIOUS
<1>0. ccfsm
  BY StaysStopped
<1>1. ~lostsync /\ Told /\ InStep /\ Mirror /\ Typed
  BY <1>0, StaysLost DEF Inv
<1>2. CASE \E r \in Requests : Begin(r)
  BY <1>1, <1>2, BeginTold DEF Begin
<1>3. CASE \E r \in Requests : Finish(r)
  BY <1>1, <1>3, FinishTold
<1>4. CASE Cancel
  <2>1. /\ place' = "none" /\ request' = "none" /\ rci_thread_status' = "idle"
        /\ UNCHANGED << handlers, called, verdict, carried, answer >>
    BY <1>4 DEF Cancel, history
  <2>2. ~MatchKnown'
    BY <2>1 DEF MatchKnown, InAnAction
  <2> QED BY <1>1, <2>1, <2>2 DEF Told, Unreturned, Queued
<1>5. CASE \E e \in AllErrors, matches \in Writes, stores \in BOOLEAN :
              ThreadReturn(e, matches, stores)
  BY <1>1, <1>5, ReturnTold
<1>6. ASSUME UNCHANGED << handlers, callback, rci_info, place, remote, request, verdict, carried, answer >>
      PROVE  MatchKnown' = MatchKnown /\ QueriesSettings' = QueriesSettings
  BY <1>6 DEF MatchKnown, QueriesSettings
<1>7. CASE ThreadCall
  <2>1. /\ pc = "check" /\ Queued /\ pc' = "callback" /\ function' = callback.function
        /\ called' = called + 1
        /\ UNCHANGED << handlers, callback, rci_info, place, remote, request, verdict, carried,
                        answer, rci_thread_status >>
    BY <1>7 DEF ThreadCall, CallbackQueued, Queued, service, cloud
  <2>2. request # "none" /\ called = 0 /\ answer = NoAnswer
    BY <1>1, <2>1 DEF InStep, Told, Queued
  <2> QED BY <1>1, <1>6, <2>1, <2>2 DEF Told, Unreturned, Queued, NoAnswer
<1>8. CASE ThreadAcquire \/ ThreadExit
  <2>1. /\ pc \in {"acquire", "check"} /\ pc' \in {"check", "stopped"}
        /\ UNCHANGED << handlers, callback, rci_info, place, remote, request, verdict, carried,
                        answer, rci_thread_status, called, function >>
    BY <1>8 DEF ThreadAcquire, ThreadExit, Wakes, Ends, service, cloud, history
  <2> QED BY <1>1, <1>6, <2>1 DEF Told, Unreturned, Queued
<1>9. CASE ThreadUpdate
  <2>1. /\ pc = "update" /\ pc' = "mark"
        /\ UNCHANGED << handlers, callback, rci_info, place, remote, request, verdict, carried,
                        answer, rci_thread_status, called, function >>
    BY <1>9 DEF ThreadUpdate, service, cloud, history
  <2> QED BY <1>1, <1>6, <2>1 DEF Told, Unreturned, Queued
<1>10. CASE ThreadUpdateCancelled
  <2>1. /\ ~Queued
        /\ UNCHANGED << handlers, callback, rci_info, place, remote, request, verdict, carried,
                        answer, rci_thread_status, called, function >>
    BY <1>10 DEF ThreadUpdateCancelled, Queued, service, cloud, history
  <2> QED BY <1>1, <1>6, <2>1 DEF Told, Unreturned, Queued
<1>11. CASE ThreadMark
  <2>1. /\ pc = "mark" /\ rci_thread_status' = "processed"
        /\ UNCHANGED << handlers, callback, rci_info, place, remote, request, verdict, carried, answer,
                        called, function >>
    BY <1>11 DEF ThreadMark, cloud, history
  <2>2. Queued /\ called = 1 /\ (request # "element_process" => request \in handlers)
    BY <1>1, <2>1 DEF InStep, Told, Mirror, Ready
  <2> QED BY <1>1, <1>6, <2>1, <2>2 DEF Told, Unreturned, Queued
<1>12. CASE ThreadAssertFails
  BY <1>12 DEF ThreadAssertFails
<1>13. CASE StopThread
  BY <1>13 DEF StopThread
<1>14. CASE UNCHANGED vars
  <2>1. UNCHANGED << handlers, callback, rci_info, place, remote, request, verdict, carried, answer,
                     rci_thread_status, called, function, pc >>
    BY <1>14 DEF vars, thread, service, cloud, history
  <2> QED BY <1>1, <1>6, <2>1 DEF Told, Unreturned, Queued
<1> QED BY <1>2, <1>3, <1>4, <1>5, <1>7, <1>8, <1>9, <1>10, <1>11, <1>12, <1>13, <1>14
        DEF Next, ThreadStep

(***************************************************************************)
(* What CCFSM is told for a request is what its own callback returned,     *)
(* called once, and a match that callback set; or one that a callback      *)
(* other than get_element has set and nothing cleared (ccapi_rci_handler,  *)
(* lines 960 to 1047).  Any callback may write query_setting.matches.      *)
(***************************************************************************)
THEOREM AnswerCorrect == Spec => []AnswerIsOwn
<1> DEFINE IInv == /\ Inv /\ (ccfsm /\ ~lostsync => Told)
                   /\ ~ccfsm => answer.request = "none"
<1>1. Init => IInv
  <2> SUFFICES ASSUME Init PROVE Told /\ ccfsm
    BY InitInv
  <2>1. ~MatchKnown
    BY DEF Init, MatchKnown, InAnAction
  <2> QED BY <2>1 DEF Init, Told, Unreturned, Queued, NoAnswer
<1>2. IInv /\ [Next]_vars => IInv'
  BY InvStep, ToldStep, StoppedStep
<1>3. IInv => AnswerIsOwn
  BY DEF Told, AnswerIsOwn, Inv, Typed
<1> QED BY <1>1, <1>2, <1>3, PTL DEF Spec
=============================================================================
