------------------------------ MODULE RciService ------------------------------
(***************************************************************************)
(* The RCI (remote configuration) service of CCAPI                         *)
(* (source/ccapi_rci_handler.c).                                           *)
(*                                                                         *)
(* CCFSM (external) walks through a request of the server: it starts a     *)
(* session, in it actions, in them groups, lists and elements, and calls   *)
(* ccapi_rci_handler for each of them until it no longer answers busy.     *)
(* The handler copies what the request changes into rci_info, queues the   *)
(* application's callback for the RCI thread, if there is one, and reports *)
(* its result when the thread has called it.  There is one session, one    *)
(* rci_info and one callback slot; CCFSM can cancel the session at any     *)
(* time.                                                                   *)
(***************************************************************************)
EXTENDS Integers

CONSTANTS
    HandlerSets,        \* the application's choices of callbacks to provide
    Groups, Items, Elements,    \* identifiers of groups, instances, elements
    Zero,               \* the identifier or instance of a cleared field
    MaxDepth,           \* RCI_LIST_MAX_DEPTH
    Garbage,            \* what the memory of rci_info may hold at the start
    UserErrors          \* errors the application's callbacks return

Levels == 1 .. MaxDepth

Commands == {"do_command", "reboot", "set_factory_def"}
GroupInstances == {"group_instances_lock", "group_instances_set",
                   "group_instance_remove", "group_instances_unlock"}
ListInstances == {"list_instances_lock", "list_instances_set",
                  "list_instance_remove", "list_instances_unlock"}
ElementFunctions == {"get_element", "set_element", "set_and_transform_element"}
PlainRequests ==
    {"session_start", "session_end", "action_start", "action_end", "group_start",
     "group_end", "list_start", "list_end"} \cup Commands \cup GroupInstances \cup ListInstances
Requests == PlainRequests \cup {"element_process"}
Functions == PlainRequests \cup ElementFunctions

ASSUME HandlersAssumption ==
    HandlerSets # {} /\ HandlerSets \subseteq SUBSET Functions
ASSUME GarbageAssumption ==
    /\ Garbage # {}
    /\ Garbage \subseteq [action : {"query", "set"} \cup Commands, type : {"setting", "state"},
                         matches : BOOLEAN, embed : BOOLEAN]
ASSUME NamesAssumption == Zero \notin Groups \cup Items \cup Elements
ASSUME DepthAssumption == MaxDepth \in Nat \ {0}
ASSUME ErrorsAssumption == {"none", "bad_value"} \cap UserErrors = {}

VARIABLES
    handlers,           \* the callbacks of rci_data that are not NULL
    \* ccapi_data->thread.rci, the thread's program counter and its function
    status, lock, pc, function,
    rci_thread_status,
    callback,           \* service.rci.callback
    rci_info,           \* service.rci.rci_info
    \* CCFSM (external): it runs, the place it is in, its connector_remote_config_t
    \* and the request it calls the handler with
    ccfsm, place, remote, request,
    \* history
    called,             \* how many callbacks were called for the request
    verdict,            \* what they returned, and the matches they wrote
    carried,            \* the last callback that wrote matches set it, was not
                        \* get_element, and no start of a session or of a query
                        \* nor an answer for an element followed
    stored,             \* the context the application stored in the session
    answer,             \* what the handler reported last
    owed,               \* the thread is in the callback of a cancelled session
    lostsync,           \* a request was made, or cancelled, that the thread
                        \* mistakes for another one, or the thread has ended
    overrun             \* a level outside of rci_info->list.data was cleared

thread == << status, lock, pc, function >>
service == << rci_thread_status, callback, rci_info >>
cloud == << ccfsm, place, remote, request >>
history == << called, verdict, carried, stored, answer >>
flags == << owed, lostsync, overrun >>
vars == << handlers, thread, service, cloud, history, flags >>

-----------------------------------------------------------------------------
Actions == {"query", "set"} \cup Commands
Types == {"setting", "state"}
CompareTo == {"none", "current"}
AllErrors == {"none", "bad_value"} \cup UserErrors

NoCallback == [type |-> "none", function |-> "none", error |-> "none"]
NoLevels == [l \in Levels |-> Zero]
Writes == {"nothing", "yes", "no"}     \* what a callback writes to matches
NoVerdict == [error |-> "none", matches |-> "nothing"]
NoAnswer == [request |-> "none", error |-> "none", matches |-> FALSE, carried |-> FALSE]

\* The position in the request of the server, and its attributes.
NewRemote ==
    [action |-> "query", type |-> "setting", compare_to |-> "none", embed |-> FALSE,
     group |-> Zero, item |-> Zero, locked |-> FALSE,
     depth |-> 0, level |-> NoLevels, level_locked |-> [l \in Levels |-> FALSE],
     element |-> Zero, user_context |-> FALSE]

\* The memory that holds rci_info is not cleared; of what it may hold, this
\* decides something if no callback has it assigned first.
NewInfo(old) ==
    [action |-> old.action, type |-> old.type, compare_to |-> "none", matches |-> old.matches,
     embed |-> old.embed, group |-> Zero, item |-> Zero, depth |-> 0, list |-> NoLevels,
     element |-> Zero, command |-> FALSE, user_context |-> FALSE]

Init ==
    /\ handlers \in HandlerSets
    /\ status = "running" /\ lock = 0 /\ pc = "acquire" /\ function = "none"
    /\ rci_thread_status = "idle" /\ callback = NoCallback
    /\ \E old \in Garbage : rci_info = NewInfo(old)
    /\ ccfsm = TRUE /\ place = "none" /\ remote = NewRemote /\ request = "none"
    /\ called = 0 /\ verdict = NoVerdict /\ stored = FALSE /\ answer = NoAnswer
    /\ carried = FALSE
    /\ owed = FALSE /\ lostsync = FALSE /\ overrun = FALSE

-----------------------------------------------------------------------------
(***************************************************************************)
(* CCFSM's order (external): what it can ask in the place it is in, and    *)
(* the remote_config it then asks with.                                    *)
(***************************************************************************)
Editing == remote.action = "set"
InAction == place = "action" /\ remote.action \in {"query", "set"}
InList == place = "list_instances"
Deeper == place = "group" /\ remote.depth < MaxDepth

CanAsk(r) ==
    CASE r = "session_start" -> place = "none"
      [] r \in {"session_end", "action_start"} -> place = "session"
      [] r \in Commands -> place = "action" /\ remote.action = r
      [] r = "action_end" -> place = "action"
      [] r = "group_instances_lock" -> InAction
      [] r \in {"group_instances_set", "group_instance_remove"} ->
            place = "instances" /\ Editing
      [] r = "group_instances_unlock" -> place = "instances"
      [] r = "group_start" -> InAction \/ place = "instances"
      [] r = "group_end" -> place = "group" /\ remote.depth = 0
      [] r = "list_instances_lock" -> Deeper
      [] r \in {"list_instances_set", "list_instance_remove"} -> InList /\ Editing
      [] r = "list_instances_unlock" -> InList
      [] r = "list_start" -> Deeper \/ InList
      [] r = "list_end" -> place = "group" /\ remote.depth > 0
      [] r = "element_process" -> place = "group"

StartedActions ==
    {m \in [action : Actions, type : Types, compare_to : CompareTo, embed : BOOLEAN] :
        /\ m.action \in Commands => m.type = "setting"
        /\ m.compare_to # "none" => m.action = "query" /\ m.type = "setting"
        /\ m.embed => m.action = "set" /\ m.type = "setting"}

\* The depth of the list CCFSM starts or locks.
ListDepth == IF InList THEN remote.depth ELSE remote.depth + 1

AskedWith(r) ==
    CASE r = "session_start" -> {NewRemote}
      [] r = "action_start" ->
            {[remote EXCEPT !.action = a.action, !.type = a.type,
                            !.compare_to = a.compare_to, !.embed = a.embed] :
                a \in StartedActions}
      [] r = "group_instances_lock" ->
            {[remote EXCEPT !.group = g, !.locked = TRUE] : g \in Groups}
      [] r \in {"group_instances_set", "group_instance_remove"} ->
            {[remote EXCEPT !.item = i] : i \in Items}
      [] r = "group_start" ->
            {[remote EXCEPT !.group = g, !.item = i] :
                g \in IF remote.locked THEN {remote.group} ELSE Groups, i \in Items}
      [] r = "list_instances_lock" ->
            {[remote EXCEPT !.depth = ListDepth, !.level_locked[ListDepth] = TRUE]}
      [] r \in {"list_instances_set", "list_instance_remove", "list_start"} ->
            {[remote EXCEPT !.depth = ListDepth, !.level[ListDepth] = i] : i \in Items}
      [] r = "element_process" -> {[remote EXCEPT !.element = e] : e \in Elements}
      [] OTHER -> {remote}

\* Where CCFSM is once the request is answered, and its remote_config then.
PlaceAfter(r) ==
    CASE r \in {"session_start", "action_end"} -> "session"
      [] r = "session_end" -> "none"
      [] r \in {"action_start", "group_instances_unlock"} \cup Commands -> "action"
      [] r \in GroupInstances \ {"group_instances_unlock"} -> "instances"
      [] r = "group_end" -> IF remote.locked THEN "instances" ELSE "action"
      [] r \in ListInstances \ {"list_instances_unlock"} -> "list_instances"
      [] r = "list_end" -> IF remote.level_locked[remote.depth] THEN "list_instances"
                                                                ELSE "group"
      [] OTHER -> "group"

Above(m) == [m EXCEPT !.level[m.depth] = Zero, !.level_locked[m.depth] = FALSE,
                      !.depth = @ - 1]

RemoteAfter(r) ==
    CASE r = "session_end" -> NewRemote
      [] r = "action_end" -> [NewRemote EXCEPT !.user_context = remote.user_context]
      [] r = "group_instances_unlock" ->
            [remote EXCEPT !.group = Zero, !.item = Zero, !.locked = FALSE]
      [] r = "group_end" ->
            [remote EXCEPT !.group = IF remote.locked THEN @ ELSE Zero, !.item = Zero]
      [] r = "list_instances_unlock" -> Above(remote)
      [] r = "list_end" ->
            IF remote.level_locked[remote.depth]
            THEN [remote EXCEPT !.level[remote.depth] = Zero] ELSE Above(remote)
      [] r = "element_process" -> [remote EXCEPT !.element = Zero]
      [] OTHER -> remote

-----------------------------------------------------------------------------
ClearGroup(info) == [info EXCEPT !.group = Zero, !.item = Zero]
ClearList(info, l) == [info EXCEPT !.list[l] = Zero]
ClearAllLists(info) == [info EXCEPT !.depth = 0, !.list = NoLevels]
ClearElement(info) == [info EXCEPT !.element = Zero]
ClearAll(info) == ClearElement(ClearAllLists(ClearGroup(info)))

(***************************************************************************)
(* The callback a request is handled by, "none" if the application does    *)
(* not provide it.  Which of an element's callbacks it is depends on what  *)
(* rci_info holds of the action, and whether there is one on set_element   *)
(* alone.                                                                  *)
(***************************************************************************)
ElementFunction ==
    CASE rci_info.action = "query" /\ "get_element" \in handlers -> "get_element"
      [] rci_info.action = "set" /\ "set_element" \in handlers ->
            IF rci_info.embed THEN "set_and_transform_element" ELSE "set_element"
      [] OTHER -> "none"

FunctionOf(r) ==
    IF r = "element_process" THEN ElementFunction
    ELSE IF r \in handlers THEN r ELSE "none"

QueriesSettings == rci_info.action = "query" /\ rci_info.type = "setting"

TypeOf(f) ==
    CASE f \in {"group_instances_lock", "list_instances_lock"} -> "lock"
      [] f \in {"get_element", "set_element"} -> "element"
      [] f = "set_and_transform_element" -> "transform"
      [] f = "none" -> "none"
      [] OTHER -> "base"

(***************************************************************************)
(* What the handler copies into rci_info before it queues the callback     *)
(* (only if there is one).  An instance stands for the index, the key or   *)
(* the count of the union's member that the collection's type selects;     *)
(* names and the types of elements are only passed on.                     *)
(***************************************************************************)
StartSession(info) ==
    [ClearAll(info) EXCEPT !.action = "query", !.type = "setting", !.compare_to = "none",
                           !.matches = FALSE, !.command = FALSE]

Embed(info, m) == IF m.action = "set" /\ m.type = "setting" THEN m.embed ELSE info.embed

StartAction(info, m) ==
    LET query == m.action = "query" /\ m.type = "setting" IN
        [ClearAll(info) EXCEPT
            !.action = m.action, !.type = m.type,
            !.compare_to = IF query THEN m.compare_to ELSE @,
            !.matches = IF query THEN FALSE ELSE @,
            !.embed = Embed(info, m)]

EnterGroup(info, m) == ClearElement(ClearAllLists([info EXCEPT !.group = m.group]))
EnterList(info, m) == ClearElement([info EXCEPT !.depth = m.depth])

GroupPrepared(r, info, m) ==
    CASE r \in {"group_instances_lock", "group_instances_unlock"} -> EnterGroup(info, m)
      [] r = "group_instances_set" -> [info EXCEPT !.item = m.item]
      [] r \in {"group_instance_remove", "group_start"} ->
            [EnterGroup(info, m) EXCEPT !.item = m.item]

ListPrepared(r, info, m) ==
    CASE r \in {"list_instances_lock", "list_instances_unlock"} -> EnterList(info, m)
      [] r = "list_instances_set" -> [info EXCEPT !.list[m.depth] = m.level[m.depth]]
      [] r \in {"list_instance_remove", "list_start"} ->
            [EnterList(info, m) EXCEPT !.list[m.depth] = m.level[m.depth]]

ElementPrepared(info, m) == [info EXCEPT !.depth = m.depth, !.element = m.element]

Prepared(r, info, m) ==
    CASE r = "session_start" -> StartSession(info)
      [] r = "action_start" -> StartAction(info, m)
      [] r = "do_command" -> [info EXCEPT !.command = TRUE]
      [] r \in GroupInstances \cup {"group_start"} -> GroupPrepared(r, info, m)
      [] r \in ListInstances \cup {"list_start"} -> ListPrepared(r, info, m)
      [] r = "element_process" -> ElementPrepared(info, m)
      [] r = "list_end" -> [info EXCEPT !.depth = m.depth]
      [] OTHER -> info

\* The server asks for settings, which it may want compared.
AsksSettings(m) == m.action = "query" /\ m.type = "setting"

(***************************************************************************)
(* ccapi_rci_handler, idle: CCFSM makes a new request.  The counter of     *)
(* callbacks and their verdict start again.  If the thread is still in a   *)
(* callback of a cancelled session it reports that one's error for this    *)
(* request; if the callback has returned, and this request is queued, the  *)
(* thread takes the one for the other.                                     *)
(***************************************************************************)
Sound == ccfsm /\ ~lostsync

Refreshed(r, m) ==
    r \in handlers /\ (r = "session_start" \/ (r = "action_start" /\ AsksSettings(m)))

NewRequest(r, m) ==
    /\ Sound /\ request = "none" /\ rci_thread_status = "idle"
    /\ request' = r /\ remote' = m
    /\ called' = 0 /\ verdict' = NoVerdict
    /\ carried' = (carried /\ ~Refreshed(r, m))
    /\ stored' = (stored /\ r # "session_start")
    /\ answer' = NoAnswer
    /\ lostsync' = (owed /\ (pc = "callback" \/ FunctionOf(r) # "none"))
    /\ UNCHANGED << handlers, status, pc, function, ccfsm, place, owed, overrun >>

PostNothing == UNCHANGED lock
Post == lock' = lock + 1

BeginQueued(r, m) ==
    LET f == FunctionOf(r) IN
    /\ NewRequest(r, m) /\ f # "none"
    /\ rci_info' = Prepared(r, [rci_info EXCEPT !.user_context = m.user_context], m)
    /\ callback' = [type |-> TypeOf(f), function |-> f, error |-> "none"]
    /\ rci_thread_status' = "queued"
    /\ Post

BeginUnhandledPosts(r, m) ==
    /\ NewRequest(r, m) /\ FunctionOf(r) = "none"
    /\ rci_info' = [rci_info EXCEPT !.user_context = m.user_context]
    /\ callback' = NoCallback
    /\ rci_thread_status' = "processed"
    /\ Post

BeginUnhandled(r, m) ==
    /\ NewRequest(r, m) /\ FunctionOf(r) = "none"
    /\ rci_info' = [rci_info EXCEPT !.user_context = m.user_context]
    /\ callback' = NoCallback
    /\ rci_thread_status' = "processed"
    /\ UNCHANGED lock

Begin(r) ==
    CanAsk(r) /\ \E m \in AskedWith(r) : BeginQueued(r, m) \/ BeginUnhandled(r, m)

(***************************************************************************)
(* ccapi_rci_handler, processed: the request is answered, and what ends is *)
(* cleared in rci_info.  The list that ends is the one rci_info says the   *)
(* session is in.                                                          *)
(***************************************************************************)
OuterLevel == rci_info.depth - 1
ClearedLevel == rci_info.depth

MatchesStay == rci_info.matches
MatchesAfterElement == rci_info.matches /\ ~QueriesSettings

ContextAfter == rci_info.user_context

ClearedAfter(r) ==
    CASE r = "list_end" ->
            IF ClearedLevel \in Levels THEN ClearElement(ClearList(rci_info, ClearedLevel))
                                       ELSE ClearElement(rci_info)
      [] r = "group_end" -> ClearAll(rci_info)
      [] r = "action_end" ->
            [rci_info EXCEPT !.command = @ /\ rci_info.action # "do_command"]
      [] r = "element_process" ->
            [rci_info EXCEPT !.matches = MatchesAfterElement]
      [] OTHER -> rci_info

\* The requests whose answer has a compare_matches.
ComparedRequests == {"group_start", "list_start", "element_process"}

Finish(r) ==
    /\ Sound /\ request = r /\ rci_thread_status = "processed"
    /\ rci_info' = ClearedAfter(r)
    /\ overrun' = (overrun \/ (r = "list_end" /\ ClearedLevel \notin Levels))
    /\ answer' = [request |-> r, error |-> callback.error,
                  matches |-> r \in ComparedRequests /\ QueriesSettings /\ rci_info.matches,
                  carried |-> carried]
    /\ carried' = (carried /\ ~(r = "element_process" /\ AsksSettings(remote)))
    /\ callback' = NoCallback /\ rci_thread_status' = "idle"
    /\ request' = "none" /\ place' = PlaceAfter(r)
    /\ remote' = [RemoteAfter(r) EXCEPT !.user_context =
                    IF r = "session_end" THEN @ ELSE ContextAfter]
    /\ UNCHANGED << handlers, thread, ccfsm, called, verdict, stored, owed, lostsync >>

(***************************************************************************)
(* ccapi_rci_handler, session_cancel: the service is idle again, whatever  *)
(* the thread does.  It has been told to call a callback that is no longer *)
(* there, or is in one.                                                    *)
(***************************************************************************)
Cancel ==
    /\ Sound /\ (place # "none" \/ request # "none")
    /\ callback' = NoCallback /\ rci_thread_status' = "idle"
    /\ place' = "none" /\ remote' = NewRemote /\ request' = "none"
    /\ owed' = (owed \/ pc \in {"callback", "update"})
    /\ lostsync' = (lock > 0 \/ pc \in {"check", "mark"})
    /\ UNCHANGED << handlers, thread, rci_info, ccfsm, history, overrun >>

-----------------------------------------------------------------------------
(***************************************************************************)
(* ccapi_rci_thread                                                        *)
(***************************************************************************)
Wakes == pc = "acquire" /\ lock > 0

ThreadAcquire ==
    /\ Wakes
    /\ lock' = lock - 1 /\ pc' = "check"
    /\ UNCHANGED << handlers, status, function, service, cloud, history, flags >>

Ends == pc' = "stopped" /\ status' = "not_started"

ThreadExit ==
    /\ pc = "check" /\ status = "request_stop"
    /\ Ends
    /\ UNCHANGED << handlers, lock, function, service, cloud, history, flags >>

\* The assertions before a callback is called; one that fails ends the thread.
CallbackQueued ==
    /\ rci_thread_status = "queued" /\ callback.type # "none"
    /\ callback.function \in handlers

ThreadAssertFails ==
    /\ pc = "check" /\ status # "request_stop" /\ ~CallbackQueued
    /\ Ends /\ lostsync' = TRUE
    /\ UNCHANGED << handlers, lock, function, service, cloud, history, owed, overrun >>

ThreadCall ==
    /\ pc = "check" /\ status # "request_stop" /\ CallbackQueued
    /\ pc' = "callback" /\ function' = callback.function
    /\ called' = called + 1
    /\ UNCHANGED << handlers, status, lock, service, cloud, verdict, carried, stored, answer,
                    flags >>

(***************************************************************************)
(* The application's callback returns.  It may write matches, and store    *)
(* the session's context when the session starts.  The string it gives for *)
(* the value of an enumeration may be none of its names.                   *)
(***************************************************************************)
CallbackErrors(f) ==
    {"none"} \cup UserErrors \cup (IF f = "get_element" THEN {"bad_value"} ELSE {})

Written(matches, old) == IF matches = "nothing" THEN old ELSE matches = "yes"

ThreadReturn(e, matches, stores) ==
    /\ pc = "callback"
    /\ e \in CallbackErrors(function)
    /\ stores => function = "session_start"
    /\ callback' = [callback EXCEPT !.error = e]
    /\ rci_info' = [rci_info EXCEPT !.matches = Written(matches, @),
                                    !.user_context = @ \/ stores]
    /\ IF owed THEN UNCHANGED << verdict, stored >>
               ELSE /\ verdict' = [error |-> e, matches |-> matches]
                    /\ stored' = (stored \/ stores)
    /\ carried' = IF matches = "nothing" THEN carried
                  ELSE matches = "yes" /\ function # "get_element"
    /\ pc' = "update" /\ function' = "none"
    /\ UNCHANGED << handlers, status, lock, rci_thread_status, cloud, called, answer, flags >>

\* `Check if ccfsm has called cancel callback while we were waiting'
ThreadUpdate ==
    /\ pc = "update" /\ rci_thread_status = "queued"
    /\ pc' = "mark"
    /\ UNCHANGED << handlers, status, lock, function, service, cloud, history, flags >>

Loop == IF status = "running" THEN pc' = "acquire" /\ UNCHANGED status ELSE Ends

ThreadUpdateCancelled ==
    /\ pc = "update" /\ rci_thread_status # "queued"
    /\ Loop /\ owed' = FALSE
    /\ UNCHANGED << handlers, lock, function, service, cloud, history, lostsync, overrun >>

ThreadMark ==
    /\ pc = "mark"
    /\ rci_thread_status' = "processed"
    /\ Loop
    /\ UNCHANGED << handlers, lock, function, callback, rci_info, cloud, history, flags >>

ThreadStep ==
    \/ ThreadAcquire \/ ThreadExit \/ ThreadAssertFails \/ ThreadCall
    \/ \E e \in AllErrors, matches \in Writes, stores \in BOOLEAN :
         ThreadReturn(e, matches, stores)
    \/ ThreadUpdate \/ ThreadUpdateCancelled \/ ThreadMark

(***************************************************************************)
(* ccapi_stop_thread, called once CCFSM has been terminated: nobody looks   *)
(* at an answer any more, and the history ends.                            *)
(***************************************************************************)
StopThread ==
    /\ ccfsm /\ ccfsm' = FALSE
    /\ status' = IF status = "running" THEN "request_stop" ELSE status
    /\ Post
    /\ called' = 0 /\ verdict' = NoVerdict /\ carried' = FALSE /\ answer' = NoAnswer
    /\ UNCHANGED << handlers, pc, function, service, place, remote, request, stored, flags >>

-----------------------------------------------------------------------------
Next ==
    \/ \E r \in Requests : Begin(r) \/ Finish(r)
    \/ Cancel
    \/ ThreadStep
    \/ StopThread

(***************************************************************************)
(* The thread and the callbacks it calls make progress, and CCFSM calls a  *)
(* handler that answered busy again.  Nothing makes the server ask, cancel *)
(* or stop.                                                                *)
(***************************************************************************)
Fairness == WF_vars(ThreadStep) /\ \A r \in Requests : WF_vars(Finish(r))

Spec == Init /\ [][Next]_vars /\ Fairness

-----------------------------------------------------------------------------
Infos ==
    [action : Actions, type : Types, compare_to : CompareTo, matches : BOOLEAN,
     embed : BOOLEAN, group : Groups \cup {Zero}, item : Items \cup {Zero},
     depth : 0 .. MaxDepth, list : [Levels -> Items \cup {Zero}],
     element : Elements \cup {Zero}, command : BOOLEAN, user_context : BOOLEAN]

(***************************************************************************)
(* Every variable has the type of the field it models: among others, the   *)
(* depth of rci_info stays within RCI_LIST_MAX_DEPTH.                      *)
(***************************************************************************)
TypeOK ==
    /\ handlers \in HandlerSets
    /\ status \in {"running", "request_stop", "not_started"}
    /\ lock \in Nat
    /\ pc \in {"acquire", "check", "callback", "update", "mark", "stopped"}
    /\ function \in Functions \cup {"none"}
    /\ rci_thread_status \in {"idle", "queued", "processed"}
    /\ callback \in [type : {"none", "base", "lock", "element", "transform"},
                     function : Functions \cup {"none"}, error : AllErrors]
    /\ rci_info \in Infos
    /\ request \in Requests \cup {"none"}
    /\ place \in {"none", "session", "action", "instances", "group", "list_instances"}
    /\ remote.depth \in 0 .. MaxDepth
    /\ answer.error \in AllErrors /\ verdict.error \in AllErrors
    /\ called \in Nat /\ stored \in BOOLEAN /\ carried \in BOOLEAN
    /\ ccfsm \in BOOLEAN /\ owed \in BOOLEAN /\ lostsync \in BOOLEAN /\ overrun \in BOOLEAN

\* The one callback that is queued without a look whether there is one.
TransformMissing ==
    callback.type = "transform" /\ "set_and_transform_element" \notin handlers

(***************************************************************************)
(* The assertions of ccapi_rci_thread before it calls a callback (lines    *)
(* 252 to 367): a token of its semaphore means that a request is queued,   *)
(* with a callback the application provides.  They hold until a session is *)
(* cancelled that the thread has not finished with, and but for the server *)
(* that asks an application with no set_and_transform_element to transform *)
(* what set_element takes (line 349).                                      *)
(***************************************************************************)
WakesForCallback ==
    ~lostsync /\ pc = "check" /\ status # "request_stop" => CallbackQueued \/ TransformMissing

\* The thread is in a callback of the session CCFSM is in.
Calling == pc = "callback" /\ ~owed /\ ~lostsync

Handles(functions) == functions \subseteq handlers

(***************************************************************************)
(* A callback finds in rci_info the place of the request of the server it  *)
(* is called for, although the handler only copies what each request       *)
(* changes, and only for a callback there is: the action and its           *)
(* attributes, the group and instance, the instances of all the lists      *)
(* around it and no element of an earlier one.  For each of them the       *)
(* application must provide the callback that begins it, for a set of list *)
(* instances those that lock and end lists, for a fresh command the one    *)
(* that starts the session.                                                *)
(***************************************************************************)
PlaceIsRight ==
    Calling =>
      /\ Handles({"action_start"}) /\ place # "none" /\ request # "session_end" =>
            /\ rci_info.action = remote.action /\ rci_info.type = remote.type
            /\ remote.action = "query" /\ remote.type = "setting" =>
                 rci_info.compare_to = remote.compare_to
      /\ Handles({"group_start"}) /\ (place = "group" \/ request = "group_start") =>
            rci_info.group = remote.group /\ rci_info.item = remote.item
      /\ \/ request \in {"list_start", "list_end", "list_instance_remove", "element_process"}
         \/ request = "list_instances_set" /\ Handles({"list_instances_lock", "list_end"})
         => rci_info.depth = remote.depth
      /\ Handles({"list_start"}) /\
         request \in {"list_start", "list_end", "list_instances_set",
                     "list_instance_remove", "element_process"} =>
            \A l \in 1 .. remote.depth : rci_info.list[l] = remote.level[l]
      /\ request = "element_process" => rci_info.element = remote.element
      /\ request \in {"group_start", "list_start"} => rci_info.element = Zero
      /\ request = "action_start" /\ Handles({"session_start"}) => ~rci_info.command

(***************************************************************************)
(* An element is read by get_element and written by another callback; an   *)
(* element of the settings by set_and_transform_element exactly if the     *)
(* server asked for transformed values.  The application must handle the   *)
(* start of actions, which tells the service what the server wants.        *)
(***************************************************************************)
ElementCallbackIsRight ==
    Calling /\ request = "element_process" /\ Handles({"action_start"}) =>
        /\ callback.function = "get_element" <=> remote.action = "query"
        /\ remote.action = "set" /\ remote.type = "setting" =>
             (callback.function = "set_and_transform_element" <=> remote.embed)

(***************************************************************************)
(* The context the application stores in a session is given to all the     *)
(* callbacks of that session, and to those of no other.                    *)
(***************************************************************************)
ContextIsSessions == Calling => rci_info.user_context = stored

(***************************************************************************)
(* What CCFSM is told for a request is what that request's callback        *)
(* returned, which was called once, or a success if there is none: never   *)
(* the error of another one.  A match is reported for a group, a list or   *)
(* an element if its callback set it.  Otherwise, if the application       *)
(* handles the start of sessions or of actions, it is reported only where  *)
(* the callback left alone what one other than get_element had set: of     *)
(* those an answered element is the first thing to clear it (line 994).    *)
(***************************************************************************)
AnswerIsOwn ==
    ~lostsync /\ answer.request # "none" =>
        /\ answer.error = verdict.error
        /\ answer.matches /\ handlers \cap {"session_start", "action_start"} # {} =>
             \/ verdict.matches = "yes"
             \/ verdict.matches = "nothing" /\ answer.carried
        /\ /\ verdict.matches = "yes" /\ answer.request \in ComparedRequests
           /\ "action_start" \in handlers /\ place # "none" /\ AsksSettings(remote)
           => answer.matches
        /\ answer.request # "element_process" =>
             called = IF answer.request \in handlers THEN 1 ELSE 0

(***************************************************************************)
(* The list that ends is a level of rci_info->list.data, for applications  *)
(* that handle the start of lists.                                         *)
(***************************************************************************)
ListLevelExists == "list_start" \in handlers => ~overrun

(***************************************************************************)
(* The thread and its queue of one request keep their types, and the       *)
(* assertions of the thread hold.                                          *)
(***************************************************************************)
ThreadIsSound == TypeOK /\ WakesForCallback /\ ListLevelExists

(***************************************************************************)
(* A callback of the application is the right one, and finds in rci_info   *)
(* where the server is and the context of its own session.                 *)
(***************************************************************************)
CallbackIsRight == PlaceIsRight /\ ElementCallbackIsRight /\ ContextIsSessions

(***************************************************************************)
(* A request that is answered busy is answered in the end.                 *)
(***************************************************************************)
BusyResolves ==
    request # "none" ~> (request = "none" \/ lostsync \/ ~ccfsm)

(***************************************************************************)
(* ccapi_stop_thread returns, even if it was called while the thread waits *)
(* for a request or after it ended by itself.                              *)
(***************************************************************************)
StopCompletes == ~ccfsm ~> status = "not_started"

(***************************************************************************)
(* Neither CCFSM nor the application waits for the service for ever.       *)
(***************************************************************************)
Progress == BusyResolves /\ StopCompletes
=============================================================================
