---------------------------- MODULE FileSystem ----------------------------
(***************************************************************************)
(* The file system service: ccapi_filesystem_handler.c (the callbacks the  *)
(* connector thread takes for CCFSM) and ccapi_filesystem.c (the list of   *)
(* virtual directories, which the application changes from its own         *)
(* threads).                                                               *)
(*                                                                         *)
(* Every callback runs under file_system_lock, so it is one step; a        *)
(* callback answered BUSY is asked again, from the start, later.  The      *)
(* application's calls take the same lock for the platform query and for   *)
(* the change of the list, but walk the list without it when they add and  *)
(* free what they unlinked after releasing it.  Those are separate steps.  *)
(*                                                                         *)
(* Contents, offsets, hashes and buffers are left out.  A cloud path is    *)
(* the root or a file or directory below one first component (a VDir); its *)
(* local path is named by the directory it starts with.  Of an error only  *)
(* the cause is kept.                                                      *)
(***************************************************************************)
EXTENDS Naturals, Sequences, FiniteSets, SequencesExt

CONSTANTS Session,    \* the file system sessions CCFSM may have open
          App,        \* the application's threads
          VDir,       \* names of virtual directories
          LocalDir,   \* the local directories they are mapped to
          Entry,      \* the heap cells for list entries (bounds the list)
          Casts,      \* the sets of sessions and threads that may act together
          Root,       \* the cloud path "/"
          Null        \* no pointer

VARIABLES cast,       \* who acts in this behaviour
          list,       \* file_system.virtual_dir_list, front first
          ent,        \* the contents of each list entry
          lock,       \* the thread that holds file_system_lock across steps
          sess,       \* CCFSM's sessions: request data and user_context
          held,       \* what was allocated or opened for a session and not released
          app,        \* the application's calls
          overlap,    \* history: names two threads were adding at once
          wrong       \* history: memory was used that is not there (the run ends)

vars == <<cast, list, ent, lock, sess, held, app, overlap, wrong>>

\* A pointer to a list entry that has been freed.
Dangling == "dangling"
\* CCFSM's errnum after the handle behind it was freed and the call answered BUSY.
Freed == "freed"

Status == {"OK", "BUSY", "ERROR"}
Kinds == {"READ", "WRITE", "READWRITE"}
Causes == {"denied", "path", "platform"}

ASSUME PathsApart ==
  /\ Casts \subseteq SUBSET (Session \cup App)
  /\ Root \notin VDir /\ Dangling \notin Entry
  /\ Null \notin Entry \cup VDir \cup LocalDir \cup App \cup Causes \cup {Root, Dangling, Freed}

Requests == {"open", "read", "write", "lseek", "close", "ftruncate", "remove",
             "opendir", "readdir", "stat_dir_entry", "closedir", "stat", "hash",
             "get_error", "session_error"}
Things == {"handle", "error", "listing", "file", "dir"}
Paths == VDir \cup {Root}
Locals == LocalDir \cup Paths
Pointer == Entry \cup {Null, Dangling}
FileHandle == [loc : Locals, kind : Kinds]
NoHandle == [loc |-> Null, kind |-> "READ"]
FreeEntry == [name |-> Null, loc |-> Null]

\* A session that CCFSM has not begun.
IdleSession ==
  [ph |-> "idle", req |-> "none", path |-> Null, kind |-> "READ",
   hnd |-> NoHandle, ctx |-> FALSE, pos |-> Null, dir |-> FALSE,
   err |-> Null, why |-> Null, said |-> Null,
   seen |-> {}, due |-> {}, dirty |-> Null]

CallState ==
  [pc : {"idle", "lookup", "query", "link", "free"},
   name : VDir \cup {Null}, loc : LocalDir \cup {Null},
   cell : Pointer, nxt : Pointer]
IdleCall == [pc |-> "idle", name |-> Null, loc |-> Null, cell |-> Null, nxt |-> Null]

\* What is known of a session: of CCFSM ph (where it is), req (a request that was
\* answered BUSY), path and kind (as opened), hnd (the handle it got), ctx (the
\* user_context is a root listing, at pos), dir, and err (its errnum); as history
\* why (the cause of the last error), said (what CCFSM was told of it), seen and
\* due (what a listing named and owes), dirty (a change not reported yet).
SessionState ==
  [ph : {"idle", "new", "file", "stat", "dir", "over"},
   req : Requests \cup {"none"}, path : Paths \cup {Null}, kind : Kinds,
   hnd : FileHandle \cup {NoHandle}, ctx : BOOLEAN, pos : Pointer, dir : BOOLEAN,
   err : Causes \cup {Null, Freed}, why : Causes \cup {Null},
   said : Causes \cup {Null}, seen : SUBSET VDir, due : SUBSET VDir,
   dirty : Locals \cup {Null}]

TypeOK ==
  /\ cast \in Casts
  /\ list \in Seq(Entry)
  /\ ent \in [Entry -> [name : VDir \cup {Null}, loc : LocalDir \cup {Null}]]
  /\ lock \in App \cup {Null}
  /\ sess \in [Session -> SessionState]
  /\ held \subseteq Things \X Session
  /\ app \in [App -> CallState]
  /\ overlap \subseteq VDir
  /\ wrong \in BOOLEAN

Init ==
  /\ cast \in Casts
  /\ list = <<>> /\ ent = [e \in Entry |-> FreeEntry]
  /\ lock = Null
  /\ sess = [s \in Session |-> IdleSession]
  /\ held = {}
  /\ app = [t \in App |-> IdleCall]
  /\ overlap = {} /\ wrong = FALSE

----------------------------------------------------------------------------
(* The list of virtual directories. *)

Head1 == IF list = <<>> THEN Null ELSE Head(list)

\* Where a linked entry is in the list.
PlaceOf(e) == CHOOSE i \in DOMAIN list : list[i] = e

\* dir_entry->next of a linked entry.
NextOf(e) == IF PlaceOf(e) = Len(list) THEN Null ELSE list[PlaceOf(e) + 1]

\* dir_entry->next of an entry that may have been unlinked and not freed yet.
After(e) ==
  IF e \in ToSet(list)
  THEN NextOf(e)
  ELSE LET t == CHOOSE t \in App : app[t].pc = "free" /\ app[t].cell = e IN app[t].nxt

\* get_pointer_to_dir_entry_from_virtual_dir_name: the first entry of that name.
EntryOf(n) ==
  LET hits == {i \in DOMAIN list : ent[list[i]].name = n}
  IN  IF hits = {} THEN Null ELSE list[CHOOSE i \in hits : \A j \in hits : i <= j]

\* get_local_path_from_cloud_path: with no virtual directory the path is used
\* as it is; otherwise it must be below one, and the translation is allocated.
LocalPath(p, mem) ==
  IF list = <<>> THEN p
  ELSE IF EntryOf(p) = Null \/ ~mem THEN Null
  ELSE ent[EntryOf(p)].loc

Mapped == {ent[e].name : e \in ToSet(list)}

----------------------------------------------------------------------------
(* CCFSM: what a session asks for next. *)

\* What CCFSM may ask for in a session, from what the callbacks answered it.
\* An error is looked up before anything else; what is open is closed before
\* the session ends.
NextRequests(x) ==
  IF x.err # Null THEN {"get_error"}
  ELSE CASE x.ph = "new"  -> {"open", "remove", "stat"}
         [] x.ph = "file" -> {"read", "lseek", "close", "session_error"}
                               \cup IF x.kind = "READ" THEN {} ELSE {"write", "ftruncate"}
         [] x.ph = "stat" -> {"opendir"} \cup IF x.ctx THEN {} ELSE {"hash"}
         [] x.ph = "dir"  -> {"readdir", "stat_dir_entry", "closedir", "session_error"}
                               \cup IF x.ctx THEN {} ELSE {"hash"}
         [] x.ph = "over" -> IF x.hnd # NoHandle THEN {"close"}
                             ELSE IF x.dir \/ x.ctx THEN {"closedir"} ELSE {}
         [] OTHER -> {}

\* The connector thread is asked r for session s, and has file_system_lock.
Asked(s, r) ==
  /\ ~wrong /\ lock = Null
  /\ IF sess[s].req = "none" THEN r \in NextRequests(sess[s]) ELSE sess[s].req = r

\* CCFSM begins a session for a path.
Begin(s) ==
  /\ ~wrong /\ s \in cast /\ sess[s].ph = "idle"
  /\ \E p \in Paths :
       sess' = [sess EXCEPT ![s] = [IdleSession EXCEPT !.ph = "new", !.path = p]]
  /\ UNCHANGED <<cast, list, ent, lock, held, app, overlap, wrong>>

\* CCFSM ends a session it has nothing left to ask for.
End(s) ==
  /\ ~wrong /\ sess[s].ph = "over" /\ sess[s].req = "none"
  /\ NextRequests(sess[s]) = {}
  /\ sess' = [sess EXCEPT ![s] = IdleSession]
  /\ UNCHANGED <<cast, list, ent, lock, held, app, overlap, wrong>>

----------------------------------------------------------------------------
(* Answers. *)

\* The application and its list are not touched by a callback.
ListKept == UNCHANGED <<cast, list, ent, lock, app, overlap>>

\* BUSY: the same request comes again.
Busy(s, r) ==
  /\ sess' = [sess EXCEPT ![s].req = r]
  /\ UNCHANGED <<held, wrong>> /\ ListKept

\* ccapi_fs_set_internal_error, ccapi_fs_set_ccimp_error: errnum points at a
\* new error handle, or stays unset when there is no memory for one.
SetError(x, why, mem) == [x EXCEPT !.err = IF mem THEN why ELSE Null, !.why = why, !.said = Null]
ErrorCell(s, mem) == IF mem THEN {<<"error", s>>} ELSE {}

\* ERROR for a request of session s that now looks like x.
Fail(s, x, why, mem) ==
  /\ sess' = [sess EXCEPT ![s] = [SetError(x, why, mem) EXCEPT !.req = "none", !.ph = "over"]]
  /\ held' = held \cup ErrorCell(s, mem)
  /\ UNCHANGED wrong /\ ListKept

\* Mutant: the request stays pending once it was BUSY.
DoneKeepsRequest(s, x, h) ==
  /\ sess' = [sess EXCEPT ![s] = x]
  /\ held' = h
  /\ UNCHANGED wrong /\ ListKept

\* OK: the session goes on with x, and h is what is held for it.
Done(s, x, h) ==
  /\ sess' = [sess EXCEPT ![s] = [x EXCEPT !.req = "none"]]
  /\ held' = h
  /\ UNCHANGED wrong /\ ListKept

\* Memory is used that is not there: nothing is said of what follows.
Broken ==
  /\ wrong' = TRUE
  /\ UNCHANGED <<sess, held>> /\ ListKept

\* The checks every path request makes first: the path has a translation and
\* the application's access callback allows it (it is asked on every retry).
PathFails(s, mem, emem) ==
  /\ LocalPath(sess[s].path, mem) = Null
  /\ Fail(s, sess[s], "path", emem)

Denied(s, mem, emem) ==
  /\ LocalPath(sess[s].path, mem) # Null
  /\ Fail(s, sess[s], "denied", emem)

----------------------------------------------------------------------------
(* The callbacks on files. *)

\* The platform opened the file at loc: CCFSM gets a handle with its name and
\* kind.  trunc: the flags truncated the file.  When the handle cannot be
\* allocated the answer is still OK, and CCFSM goes on with one never set.
Opened(s, loc, kind, mem) ==
  \/ ~mem /\ Broken
  \/ \E trunc \in BOOLEAN :
       /\ trunc => kind # "READ"
       /\ Done(s, [sess[s] EXCEPT !.ph = "file", !.kind = kind,
                     !.hnd = [loc |-> loc, kind |-> kind],
                     !.dirty = IF trunc THEN loc ELSE Null],
               held \cup {<<"handle", s>>, <<"file", s>>})

\* ccapi_fs_file_open; kind: what CCFSM's flags ask for, the same on a retry.
FileOpen(s) ==
  /\ Asked(s, "open")
  /\ \E mem, emem \in BOOLEAN, kind \in Kinds :
       LET loc == LocalPath(sess[s].path, mem) IN
       /\ sess[s].req = "open" => kind = sess[s].kind
       /\ \/ PathFails(s, mem, emem)
          \/ Denied(s, mem, emem)
          \/ /\ loc # Null
             /\ \/ /\ sess' = [sess EXCEPT ![s] = [sess[s] EXCEPT !.req = "open", !.kind = kind]]
                   /\ UNCHANGED <<held, wrong>> /\ ListKept
                \/ Fail(s, sess[s], "platform", emem)
                \/ Opened(s, loc, kind, emem)

\* ccapi_fs_file_read and ccapi_fs_file_seek: the platform is asked and an
\* error is put where CCFSM finds it.
PassOn(s, r) ==
  /\ Asked(s, r)
  /\ \/ Busy(s, r)
     \/ \E emem \in BOOLEAN : Fail(s, sess[s], "platform", emem)
     \/ Done(s, sess[s], held)

FileRead(s) == PassOn(s, "read")
FileSeek(s) == PassOn(s, "lseek")

\* A platform call that changes the file the handle is open on.  One that
\* fails may have changed it.
Alter(s, r) ==
  LET x == [sess[s] EXCEPT !.dirty = sess[s].hnd.loc] IN
  /\ Asked(s, r)
  /\ \/ Busy(s, r)
     \/ \E emem \in BOOLEAN : Fail(s, x, "platform", emem)
     \/ Done(s, x, held)

\* ccapi_fs_file_write
FileWrite(s) == Alter(s, "write")
\* ccapi_fs_file_truncate
FileTruncate(s) == Alter(s, "ftruncate")

\* Mutant: a file open for both is not taken for one that was written.
ReportedWrite(x) ==
  IF x.hnd.kind = "WRITE" /\ x.dirty = x.hnd.loc THEN [x EXCEPT !.dirty = Null] ELSE x

\* The changed callback of ccapi_fs_file_close, called whatever the platform
\* answered: x after the application was told of the path in its handle.
Reported(x) ==
  IF x.hnd.kind \in {"WRITE", "READWRITE"} /\ x.dirty = x.hnd.loc
  THEN [x EXCEPT !.dirty = Null] ELSE x

\* ccapi_fs_file_close: the handle is freed unless the platform is busy.
FileClose(s) ==
  /\ Asked(s, "close")
  /\ \E st \in Status :
       LET x == Reported(sess[s])
           y == [x EXCEPT !.hnd = NoHandle, !.ph = "over", !.req = "none"]
           left == held \ {<<"handle", s>>, <<"file", s>>}
       IN \/ /\ st = "BUSY"
             /\ sess' = [sess EXCEPT ![s] = [x EXCEPT !.req = "close"]]
             /\ UNCHANGED <<held, wrong>> /\ ListKept
          \/ /\ st = "OK"
             /\ Done(s, y, left)
          \/ /\ st = "ERROR"
             /\ \E emem \in BOOLEAN :
                  /\ sess' = [sess EXCEPT ![s] = SetError(y, "platform", emem)]
                  /\ held' = left \cup ErrorCell(s, emem)
                  /\ UNCHANGED wrong /\ ListKept

\* ccapi_fs_file_remove: the changed callback is called once it is removed.
FileRemove(s) ==
  /\ Asked(s, "remove")
  /\ \E mem, emem \in BOOLEAN :
       \/ PathFails(s, mem, emem)
       \/ Denied(s, mem, emem)
       \/ /\ LocalPath(sess[s].path, mem) # Null
          /\ \/ Busy(s, "remove")
             \/ Fail(s, sess[s], "platform", emem)
             \/ Done(s, [sess[s] EXCEPT !.ph = "over"], held)

----------------------------------------------------------------------------
(* The callbacks on directories. *)

\* ccapi_fs_hash_status of the root, when there are virtual directories: the
\* user_context becomes a listing handle on the first of them.
RootStatus(s, mem) ==
  /\ list # <<>> /\ sess[s].path = Root
  /\ IF mem
     THEN Done(s, [sess[s] EXCEPT !.ph = "stat", !.ctx = TRUE, !.pos = Head1, !.due = Mapped],
               held \cup {<<"listing", s>>})
     ELSE Done(s, [sess[s] EXCEPT !.ph = "over"], held)

\* ccapi_fs_hash_status of any other path: two platform calls.  BUSY from the
\* first one is overwritten by what the second one answers.
LocalStatus(s, mem, emem) ==
  /\ list = <<>> \/ sess[s].path # Root
  /\ \/ PathFails(s, mem, emem)
     \/ /\ LocalPath(sess[s].path, mem) # Null
        /\ \/ Fail(s, sess[s], "platform", emem)
           \/ Busy(s, "stat")
           \/ \E ph \in {"stat", "over"} : Done(s, [sess[s] EXCEPT !.ph = ph], held)

HashStatus(s) ==
  /\ Asked(s, "stat")
  /\ \E mem, emem \in BOOLEAN : RootStatus(s, mem) \/ LocalStatus(s, mem, emem)

\* ccapi_fs_dir_open: a root listing is open already.
DirOpen(s) ==
  /\ Asked(s, "opendir")
  /\ \/ sess[s].ctx /\ Done(s, [sess[s] EXCEPT !.ph = "dir"], held)
     \/ /\ ~sess[s].ctx
        /\ \E mem, emem \in BOOLEAN :
             \/ PathFails(s, mem, emem)
             \/ Denied(s, mem, emem)
             \/ /\ LocalPath(sess[s].path, mem) # Null
                /\ \/ Busy(s, "opendir")
                   \/ Fail(s, sess[s], "platform", emem)
                   \/ Done(s, [sess[s] EXCEPT !.ph = "dir", !.dir = TRUE],
                           held \cup {<<"dir", s>>})

\* Mutant: the name is copied after the handle has moved on.
AdvanceFirst(x, e) ==
  [x EXCEPT !.seen = @ \cup {ent[f].name : f \in Entry \cap {After(e)}}, !.pos = After(e)]

\* The root listing after it reported the entry at e: it moves to e->next.
Advance(x, e) == [x EXCEPT !.seen = @ \cup {ent[e].name}, !.pos = After(e)]

\* ccapi_fs_dir_read_entry: the next virtual directory ("" at the end, and
\* CCFSM closes the directory), or the platform's next entry.
DirReadEntry(s) ==
  /\ Asked(s, "readdir")
  /\ LET p == sess[s].pos IN
     \/ sess[s].ctx /\ p \in Entry /\ Done(s, Advance(sess[s], p), held)
     \/ sess[s].ctx /\ p = Dangling /\ Broken
     \/ sess[s].ctx /\ p = Null /\ Done(s, [sess[s] EXCEPT !.ph = "over"], held)
     \/ /\ ~sess[s].ctx
        /\ \/ Busy(s, "readdir")
           \/ \E emem \in BOOLEAN : Fail(s, sess[s], "platform", emem)
           \/ \E ph \in {"dir", "over"} : Done(s, [sess[s] EXCEPT !.ph = ph], held)

\* ccapi_fs_dir_entry_status: an entry of the root listing is a directory.
DirEntryStatus(s) ==
  /\ Asked(s, "stat_dir_entry")
  /\ \/ sess[s].ctx /\ Done(s, sess[s], held)
     \/ /\ ~sess[s].ctx
        /\ \E mem, emem \in BOOLEAN :
             \/ PathFails(s, mem, emem)
             \/ /\ LocalPath(sess[s].path, mem) # Null
                /\ \/ Busy(s, "stat_dir_entry")
                   \/ Fail(s, sess[s], "platform", emem)
                   \/ Done(s, sess[s], held)

\* ccapi_fs_dir_close: the listing handle is freed, or the platform closes.
DirClose(s) ==
  /\ Asked(s, "closedir")
  /\ LET x == [sess[s] EXCEPT !.ph = "over", !.ctx = FALSE, !.pos = Null, !.dir = FALSE] IN
     \/ sess[s].ctx /\ Done(s, x, held \ {<<"listing", s>>})
     \/ /\ ~sess[s].ctx
        /\ \/ Busy(s, "closedir")
           \/ Done(s, x, held \ {<<"dir", s>>})
           \/ \E emem \in BOOLEAN :
                /\ sess' = [sess EXCEPT ![s] = [SetError(x, "platform", emem) EXCEPT !.req = "none"]]
                /\ held' = (held \ {<<"dir", s>>}) \cup ErrorCell(s, emem)
                /\ UNCHANGED wrong /\ ListKept

\* ccapi_fs_hash_file: of the session's path, or of an entry of its directory.
HashFile(s) ==
  /\ Asked(s, "hash")
  /\ \E mem, emem \in BOOLEAN :
       \/ PathFails(s, mem, emem)
       \/ /\ LocalPath(sess[s].path, mem) # Null
          /\ \/ Busy(s, "hash")
             \/ Fail(s, sess[s], "platform", emem)
             \/ Done(s, [sess[s] EXCEPT !.ph = IF @ = "dir" THEN @ ELSE "over"], held)

----------------------------------------------------------------------------
(* The callbacks on errors. *)

\* The error_status of an error handle: an internal error has its own, a
\* platform error is described by the platform.
Describe(err) ==
  CASE err = "denied" -> "denied"
    [] err = "path" -> "path"
    [] err = "platform" -> "platform"

\* Mutant: only an internal error's handle is freed.
HeldAfterInternal(s) == IF sess[s].err = "platform" THEN held ELSE held \ {<<"error", s>>}

\* ccapi_free(error_handle)
HeldAfterError(s) == held \ {<<"error", s>>}

\* ccapi_fs_error_desc: the handle is freed whatever the platform answered, so
\* a retry after BUSY reads it freed.
ErrorDesc(s) ==
  /\ Asked(s, "get_error")
  /\ LET freed == HeldAfterError(s)
         known == [sess[s] EXCEPT !.said = Describe(sess[s].err), !.err = Null]
     IN \/ sess[s].err = Freed /\ Broken
        \/ sess[s].err \in Causes /\ Done(s, known, freed)
        \/ /\ sess[s].err = "platform"
           /\ \/ Done(s, [sess[s] EXCEPT !.err = Null], freed)
              \/ /\ sess' = [sess EXCEPT ![s] = [sess[s] EXCEPT !.err = Freed, !.req = "get_error"]]
                 /\ held' = freed
                 /\ UNCHANGED wrong /\ ListKept

\* ccapi_fs_session_error: the platform is told; CCFSM then gives up the session.
SessionError(s) ==
  /\ Asked(s, "session_error")
  /\ \/ Busy(s, "session_error")
     \/ Done(s, [sess[s] EXCEPT !.ph = "over"], held)

\* ccapi_filesystem_handler
Handler(s) ==
  \/ FileOpen(s) \/ FileRead(s) \/ FileWrite(s) \/ FileSeek(s) \/ FileClose(s)
  \/ FileTruncate(s) \/ FileRemove(s) \/ DirOpen(s) \/ DirReadEntry(s)
  \/ DirEntryStatus(s) \/ DirClose(s) \/ HashStatus(s) \/ HashFile(s)
  \/ ErrorDesc(s) \/ SessionError(s)

----------------------------------------------------------------------------
(* The application: ccapi_filesystem.c. *)

SessionsKept == UNCHANGED <<sess, held>>

Adding(t) == app[t].pc \in {"lookup", "query", "link"}

\* ccxapi_fs_add_virtual_dir with arguments it accepts: the walk through the
\* list begins, without the lock.
AddBegin(t, n, l) ==
  /\ ~wrong /\ t \in cast /\ app[t].pc = "idle"
  /\ app' = [app EXCEPT ![t] = [IdleCall EXCEPT !.pc = "lookup", !.name = n, !.loc = l, !.cell = Head1]]
  /\ overlap' = overlap \cup {m \in {n} : \E u \in App : Adding(u) /\ app[u].name = m}
  /\ UNCHANGED <<cast, list, ent, lock, wrong>> /\ SessionsKept

\* The comparison of the walk.
IsNamed(e, n) == ent[e].name = n

\* One turn of the walk: ALREADY_MAPPED, or the next entry.
AddLookup(t) ==
  LET e == app[t].cell IN
  /\ ~wrong /\ app[t].pc = "lookup" /\ e # Null
  /\ wrong' = (e = Dangling)
  /\ app' = [app EXCEPT ![t] =
       IF e = Dangling THEN app[t]
       ELSE IF IsNamed(e, app[t].name) THEN IdleCall
       ELSE [app[t] EXCEPT !.cell = After(e)]]
  /\ UNCHANGED <<cast, list, ent, lock, overlap>> /\ SessionsKept

\* At the end of the list path_is_a_dir calls ccapi_get_dir_entry_status: the
\* platform is asked in a loop, with the lock held until it is no longer BUSY.
AddQuery(t) ==
  /\ ~wrong /\ app[t].pc = "lookup" /\ app[t].cell = Null /\ lock = Null
  /\ lock' = t
  /\ app' = [app EXCEPT ![t] = [app[t] EXCEPT !.pc = "query"]]
  /\ UNCHANGED <<cast, list, ent, overlap, wrong>> /\ SessionsKept

\* The platform answers: NOT_A_DIR, or the call goes on.
AddAnswer(t) ==
  /\ ~wrong /\ app[t].pc = "query"
  /\ lock' = Null
  /\ app' \in {[app EXCEPT ![t] = IdleCall], [app EXCEPT ![t] = [app[t] EXCEPT !.pc = "link"]]}
  /\ UNCHANGED <<cast, list, ent, overlap, wrong>> /\ SessionsKept

FreeCells == {e \in Entry : ent[e] = FreeEntry}

\* create_virtual_dir_entry: INSUFFICIENT_MEMORY.
AddNoMemory(t) ==
  /\ ~wrong /\ app[t].pc = "link"
  /\ app' = [app EXCEPT ![t] = IdleCall]
  /\ UNCHANGED <<cast, list, ent, lock, overlap, wrong>> /\ SessionsKept

\* create_virtual_dir_entry and add_virtual_dir_entry: a new entry in front.
AddLink(t) ==
  /\ ~wrong /\ app[t].pc = "link" /\ lock = Null /\ FreeCells # {}
  /\ LET e == CHOOSE e \in FreeCells : TRUE IN
     /\ ent' = [ent EXCEPT ![e] = [name |-> app[t].name, loc |-> app[t].loc]]
     /\ list' = <<e>> \o list
  /\ app' = [app EXCEPT ![t] = IdleCall]
  /\ UNCHANGED <<cast, lock, overlap, wrong>> /\ SessionsKept

\* ccxapi_fs_remove_virtual_dir under the lock: NOT_MAPPED, or the entry is
\* unlinked.  A listing stays owed only the directories that are still mapped.
RemoveUnlink(t, n) ==
  LET e == EntryOf(n) IN
  /\ ~wrong /\ t \in cast /\ app[t].pc = "idle" /\ lock = Null /\ e # Null
  /\ app' = [app EXCEPT ![t] = [IdleCall EXCEPT !.pc = "free", !.cell = e, !.nxt = NextOf(e)]]
  /\ list' = RemoveAt(list, PlaceOf(e))
  /\ sess' = [s \in Session |-> [sess[s] EXCEPT !.due = @ \ {n}]]
  /\ UNCHANGED <<cast, ent, lock, held, overlap, wrong>>

\* p, after the entry e was freed.
Cleared(p, e) == IF p = e THEN Dangling ELSE p

\* ... after the lock was released the entry is freed, whoever points at it.
RemoveFree(t) ==
  LET e == app[t].cell IN
  /\ ~wrong /\ app[t].pc = "free"
  /\ ent' = [ent EXCEPT ![e] = FreeEntry]
  /\ sess' = [s \in Session |-> [sess[s] EXCEPT !.pos = Cleared(@, e)]]
  /\ app' = [u \in App |-> IF u = t THEN IdleCall
                           ELSE [app[u] EXCEPT !.cell = Cleared(@, e), !.nxt = Cleared(@, e)]]
  /\ UNCHANGED <<cast, list, lock, held, overlap, wrong>>

AppNext(t) ==
  \/ AddLookup(t) \/ AddQuery(t) \/ AddAnswer(t) \/ AddNoMemory(t) \/ AddLink(t)
  \/ RemoveFree(t)

\* The run ends where memory was used that is not there.
Halted == wrong /\ UNCHANGED vars

Next ==
  \/ \E s \in Session : Begin(s) \/ End(s) \/ Handler(s)
  \/ \E t \in App : AppNext(t)
  \/ \E t \in App, n \in VDir, l \in LocalDir : AddBegin(t, n, l)
  \/ \E t \in App, n \in VDir : RemoveUnlink(t, n)
  \/ Halted

\* A request that is pending is asked again, and the platform does not answer
\* BUSY for ever; a call of the application goes on, and gets the lock that is
\* free again and again.
Resolve(s) == Handler(s) /\ (sess'[s].req = "none" \/ wrong')
Fairness ==
  /\ \A s \in Session : SF_vars(Resolve(s))
  /\ \A t \in App : SF_vars(AppNext(t))

Spec == Init /\ [][Next]_vars /\ Fairness

----------------------------------------------------------------------------
(* Properties. *)

\* When a session is over, nothing allocated or opened for it is left: the
\* handle, the error handle and the listing handle are freed and the platform's
\* file or directory is closed, however its requests failed (handles are freed
\* at ccapi_filesystem_handler.c:534, :826 and :1019).
NothingLeft ==
  \A s \in Session : sess[s].ph = "idle" => \A k \in Things : <<k, s>> \notin held

\* A file that a session changed and that the application has not been told of
\* is still open through a handle that will tell it, under the name it was
\* opened by, even when the directory has been mapped elsewhere since
\* (ccapi_fs_file_close, :511).
ChangeReported ==
  \A s \in Session : sess[s].dirty # Null =>
    /\ sess[s].hnd # NoHandle
    /\ sess[s].hnd.loc = sess[s].dirty /\ sess[s].hnd.kind # "READ"
    /\ <<"file", s>> \in held

\* The description CCFSM gets for an error is that of the request that failed
\* in the same session (ccapi_fs_error_desc, :982).
AnswerIsOwn == \A s \in Session : sess[s].said \in {Null, sess[s].why}

\* A listing of the root that has come to its end has named every directory
\* that was mapped when it began and has stayed mapped, while others were
\* added and removed (ccapi_fs_dir_read_entry, :712).
ListingIsComplete ==
  \A s \in Session : sess[s].ctx /\ sess[s].pos = Null => sess[s].due \subseteq sess[s].seen

\* A name is in the list twice only if two threads were adding it at once: the
\* lookup of ccxapi_fs_add_virtual_dir (ccapi_filesystem.c:148) is made without
\* the lock, long before the entry is linked.
NamesUnique ==
  \A i, j \in DOMAIN list :
    ent[list[i]].name = ent[list[j]].name /\ i # j => ent[list[i]].name \in overlap

\* The virtual directories stay a list, named once each, that a listing follows
\* to its end while it changes.
DirectoriesHold == TypeOK /\ NamesUnique /\ ListingIsComplete

\* What is told of a request is true: the application of every change, CCFSM of
\* the error.
ReportIsTrue == ChangeReported /\ AnswerIsOwn

\* A request answered BUSY is answered in the end, although the lock it needs
\* is also held by an application thread that loops over the platform's BUSY
\* (ccapi.c:410).
BusyResolves ==
  \A s \in Session : sess[s].req # "none" ~> sess[s].req = "none" \/ wrong

\* A call of the application returns, although the connector thread takes the
\* lock for every callback.
CallsReturn == \A t \in App : app[t].pc # "idle" ~> app[t].pc = "idle" \/ wrong

\* Neither CCFSM nor the application waits for the service for ever.
Progress == BusyResolves /\ CallsReturn
=============================================================================
