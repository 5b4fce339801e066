----------------------------- MODULE SessionPool -----------------------------
(***************************************************************************)
(* The pool of codex app-server processes behind the workspaces: the       *)
(* operations of shared/workspaces_core that attach a workspace to a       *)
(* session (connect, add, clone, git-url, worktree), replace the session   *)
(* (runtime codex args), detach workspaces (remove, remove worktree) and   *)
(* the daemon's re-synchronisation with workspaces.json.                   *)
(*                                                                         *)
(* Every operation is an async function.  It is split into one action per  *)
(* stretch of code between two awaits that touch shared state, so every    *)
(* interleaving the tokio scheduler may produce is a behaviour.  A request *)
(* that returns early without having changed anything is not a step.       *)
(***************************************************************************)
EXTENDS Naturals, FiniteSets

CONSTANTS
    Task,         \* request handlers that may be in flight at the same time
    Workspace,    \* workspace ids
    Proc,         \* app-server processes, and the WorkspaceSession each one owns
    None,         \* no workspace, process, task or argument override
    Parent,       \* parent_id of a worktree, None for a main workspace
    ArgSet,       \* codex argument strings
    DefaultArgs,  \* what resolve_workspace_codex_args yields
    InitEntries,  \* the workspaces loaded from workspaces.json at start
    Request       \* the requests clients send

Kinds == {"connect", "add", "clone", "gitUrl", "worktree", "args",
          "remove", "removeWorktree", "sync"}
AddKinds == {"add", "clone", "gitUrl", "worktree"}

RequestType ==
    [kind : Kinds, ws : Workspace, args : ArgSet \cup {None}]
NoRequest == [kind |-> "none", ws |-> None, args |-> None]

ASSUME NoneAssumption ==
    None \notin Workspace /\ None \notin Proc /\ None \notin Task /\ None \notin ArgSet
ASSUME RequestAssumption == Request \subseteq RequestType
ASSUME ParentAssumption ==
    /\ Parent \in [Workspace -> Workspace \cup {None}]
    /\ \A w \in Workspace : Parent[w] # None => Parent[Parent[w]] = None
ASSUME InitAssumption ==
    /\ DefaultArgs \in ArgSet
    /\ InitEntries \subseteq Workspace
    /\ \A w \in InitEntries : Parent[w] # None => Parent[w] \in InitEntries

VARIABLES
    entries,   \* AppState.workspaces: the in-memory map, by id
    written,   \* ids that have ever been saved to workspaces.json
    dirs,      \* worktree and clone checkouts that exist on disk
    sessions,  \* AppState.sessions: the session of each connected workspace
    proc,      \* status of each app-server process
    wsIds,     \* WorkspaceSession.workspace_ids, with its workspace_roots
    args,      \* WorkspaceSession.codex_args
    leaked,    \* history: live processes the code has dropped without a kill
    late,      \* history: workspaces attached too late (see GivenUp)
    lock,      \* holder of CONNECT_WORKSPACE_SPAWN_LOCK
    pc, req,   \* where each handler is, and the request it serves
    cur,       \* the Arc<WorkspaceSession> a handler cloned out of the map
    new,       \* the session a handler has spawned itself
    todo,      \* ids a handler still has to treat (children, keys, stored ids)
    gone,      \* removed_child_ids / ids_to_remove of a removal
    kept,      \* children whose checkout could not be deleted (failures)
    victim,    \* the id kill_session_by_id is running for
    doomed     \* the sessions a synchronisation took out of the map

shared == <<entries, written, dirs, sessions, proc, wsIds, args, leaked, late>>
removal == <<todo, gone, kept, victim, doomed>>
local == <<req, cur, new, todo, gone, kept, victim, doomed>>
vars == <<shared, lock, pc, local>>

------------------------------------------------------------------------------
InMap == {sessions[w] : w \in Workspace} \ {None}
Connected == {w \in Workspace : sessions[w] # None}
Children(w) == {c \in entries : Parent[c] = w}

\* The session a connecting handler is going to publish.
Held(t) == IF new[t] # None THEN new[t] ELSE cur[t]

\* Mutant: the override is taken as it is, unresolved.
TargetUnresolved(r) == r.args

\* The arguments a request asks for: the override, else the resolved default.
Target(r) == IF r.args # None THEN r.args ELSE DefaultArgs

\* Mutant: the child survives the kill.
NothingKilled(p) == proc

\* kill_child_process_tree
Killed(p) == [proc EXCEPT ![p] = IF @ = "live" THEN "killed" ELSE @]

\* The sessions map without the ids of S.
Without(S) == [w \in Workspace |-> IF w \in S THEN None ELSE sessions[w]]

\* A removal has decided to kill p, or has done it.
GivenUp(p) ==
    \/ proc[p] = "killed"
    \/ \E t \in Task : pc[t] \in {"unregisterLast", "killChild"} /\ cur[t] = p

\* A removal that took w out of the map has yet to unregister it.
BeingUnregistered(w) ==
    \E t \in Task : pc[t] \in {"unregisterShared", "unregisterLast"} /\ victim[t] = w

\* An id nothing refers to stands for a fresh Uuid::new_v4().
Fresh(w) ==
    /\ w \notin entries \cup written \cup dirs \cup Connected
    /\ \A t \in Task : req[t].ws # w

Goto(t, label) == pc' = [pc EXCEPT ![t] = label]

\* The handler returns and drops its locals.
Finish(t) ==
    /\ Goto(t, "idle")
    /\ req' = [req EXCEPT ![t] = NoRequest]
    /\ cur' = [cur EXCEPT ![t] = None]
    /\ new' = [new EXCEPT ![t] = None]
    /\ todo' = [todo EXCEPT ![t] = {}]
    /\ gone' = [gone EXCEPT ![t] = {}]
    /\ kept' = [kept EXCEPT ![t] = {}]
    /\ victim' = [victim EXCEPT ![t] = None]
    /\ doomed' = [doomed EXCEPT ![t] = {}]

\* Mutant: the guard is not dropped.
ReturnLocked(t) == Finish(t) /\ UNCHANGED lock

\* The handler returns while it owns the spawn lock: the guard is dropped too.
Return(t) == Finish(t) /\ lock' = None

\* A clone deletes the checkout it made when it fails; a worktree does not.
DirsAfterFailure(t) ==
    IF req[t].kind \in {"clone", "gitUrl"} THEN dirs \ {req[t].ws} ELSE dirs

------------------------------------------------------------------------------
Init ==
    /\ entries = InitEntries
    /\ written = InitEntries
    /\ dirs = {w \in InitEntries : Parent[w] # None}
    /\ sessions = [w \in Workspace |-> None]
    /\ proc = [p \in Proc |-> "unused"]
    /\ wsIds = [p \in Proc |-> {}]
    /\ args = [p \in Proc |-> DefaultArgs]
    /\ leaked = {}
    /\ late = {}
    /\ lock = None
    /\ pc = [t \in Task |-> "idle"]
    /\ req = [t \in Task |-> NoRequest]
    /\ cur = [t \in Task |-> None]
    /\ new = [t \in Task |-> None]
    /\ todo = [t \in Task |-> {}]
    /\ gone = [t \in Task |-> {}]
    /\ kept = [t \in Task |-> {}]
    /\ victim = [t \in Task |-> None]
    /\ doomed = [t \in Task |-> {}]

------------------------------------------------------------------------------
(* A request arrives.  What it looks up before its first await is part of  *)
(* this step.                                                               *)

Accept(t, r) == pc[t] = "idle" /\ req' = [req EXCEPT ![t] = r]

\* connect and runtime args resolve the entry before they take the lock.
BeginAttach(t, r) ==
    /\ r.kind \in {"connect", "args"}
    /\ r.ws \in entries
    /\ Accept(t, r) /\ Goto(t, "lock")
    /\ UNCHANGED <<shared, lock, cur, new, removal>>

BeginAdd(t, r) ==
    /\ r.kind = "add" /\ Parent[r.ws] = None /\ Fresh(r.ws)
    /\ Accept(t, r) /\ Goto(t, "lock")
    /\ UNCHANGED <<shared, lock, cur, new, removal>>

\* A clone needs an existing source, a worktree its parent.
BeginCheckout(t, r) ==
    /\ r.kind \in {"clone", "gitUrl", "worktree"} /\ Fresh(r.ws)
    /\ \/ r.kind = "clone" /\ Parent[r.ws] = None /\ entries # {}
       \/ r.kind = "gitUrl" /\ Parent[r.ws] = None
       \/ r.kind = "worktree" /\ Parent[r.ws] \in entries
    /\ Accept(t, r) /\ Goto(t, "checkout")
    /\ UNCHANGED <<shared, lock, cur, new, removal>>

BeginRemove(t, r) ==
    /\ r.kind = "remove" /\ r.ws \in entries /\ Parent[r.ws] = None
    /\ todo' = [todo EXCEPT ![t] = Children(r.ws)]
    /\ Accept(t, r) /\ Goto(t, "nextChild")
    /\ UNCHANGED <<shared, lock, cur, new, gone, kept, victim, doomed>>

BeginRemoveWorktree(t, r) ==
    /\ r.kind = "removeWorktree" /\ r.ws \in entries /\ Parent[r.ws] \in entries
    /\ victim' = [victim EXCEPT ![t] = r.ws]
    /\ Accept(t, r) /\ Goto(t, "kill")
    /\ UNCHANGED <<shared, lock, cur, new, todo, gone, kept, doomed>>

\* read_workspaces: the other process sharing the data directory may have
\* rewritten the file, with any parent-closed selection of known workspaces.
BeginSync(t, r) ==
    /\ r.kind = "sync"
    /\ \E stored \in SUBSET written :
         /\ \A w \in stored : Parent[w] # None => Parent[w] \in stored
         /\ todo' = [todo EXCEPT ![t] = stored]
    /\ Accept(t, r) /\ Goto(t, "syncSwap")
    /\ UNCHANGED <<shared, lock, cur, new, gone, kept, victim, doomed>>

Begin(t, r) ==
    \/ BeginAttach(t, r) \/ BeginAdd(t, r) \/ BeginCheckout(t, r)
    \/ BeginRemove(t, r) \/ BeginRemoveWorktree(t, r) \/ BeginSync(t, r)

\* git clone / git worktree add, outside the lock.
Checkout(t) ==
    /\ pc[t] = "checkout"
    /\ \/ dirs' = dirs \cup {req[t].ws} /\ Goto(t, "lock") /\ UNCHANGED local
       \/ Finish(t) /\ UNCHANGED dirs
    /\ UNCHANGED <<entries, written, sessions, proc, wsIds, args, leaked, late, lock>>

FirstLocked(r) ==
    CASE r.kind = "connect" -> "own"
      [] r.kind = "args" -> "readCurrent"
      [] OTHER -> "peek"

\* Mutant: the spawn lock is not waited for.
LockNotAwaited(t) ==
    /\ pc[t] = "lock"
    /\ lock' = t
    /\ Goto(t, FirstLocked(req[t]))
    /\ UNCHANGED <<shared, local>>

\* The tokio Mutex: granted to one waiter at a time.
Lock(t) ==
    /\ pc[t] = "lock" /\ lock = None
    /\ lock' = t
    /\ Goto(t, FirstLocked(req[t]))
    /\ UNCHANGED <<shared, local>>

------------------------------------------------------------------------------
(* Under the lock: find a live session to share.                            *)

\* connect first looks at the entry's own session...
Own(t) ==
    /\ pc[t] = "own"
    /\ \/ sessions[req[t].ws] # None
          /\ cur' = [cur EXCEPT ![t] = sessions[req[t].ws]] /\ Goto(t, "ownCheck")
       \/ sessions[req[t].ws] = None /\ Goto(t, "peek") /\ UNCHANGED cur
    /\ UNCHANGED <<shared, lock, req, new, removal>>

\* ... and is done if that one is alive.
OwnCheck(t) ==
    /\ pc[t] = "ownCheck"
    /\ \/ proc[cur[t]] = "live" /\ Return(t)
       \/ proc[cur[t]] # "live" /\ Goto(t, "prune") /\ UNCHANGED <<lock, local>>
    /\ UNCHANGED shared

\* take_live_shared_session: any session of the map will do, if it is alive.
Peek(t) ==
    /\ pc[t] = "peek"
    /\ \/ \E p \in InMap : cur' = [cur EXCEPT ![t] = p] /\ Goto(t, "check")
       \/ InMap = {} /\ cur' = [cur EXCEPT ![t] = None] /\ Goto(t, "spawn")
    /\ UNCHANGED <<shared, lock, req, new, removal>>

Check(t) ==
    /\ pc[t] = "check"
    /\ Goto(t, IF proc[cur[t]] # "live" THEN "prune"
               ELSE IF req[t].kind = "connect" THEN "attach" ELSE "persist")
    /\ UNCHANGED <<shared, lock, local>>

\* remove_session_references: forget the dead session everywhere.
Prune(t) ==
    /\ pc[t] = "prune"
    /\ sessions' = Without({w \in Workspace : sessions[w] = cur[t]})
    /\ Goto(t, "peek")
    /\ UNCHANGED <<entries, written, dirs, proc, wsIds, args, leaked, late, lock, local>>

------------------------------------------------------------------------------
(* Under the lock: spawn an app-server and initialize it.                   *)

Spawn(t) ==
    /\ pc[t] = "spawn"
    /\ \/ \E p \in Proc :
            /\ proc[p] = "unused"
            /\ proc' = [proc EXCEPT ![p] = "live"]
            /\ wsIds' = [wsIds EXCEPT ![p] = {req[t].ws}]
            /\ args' = [args EXCEPT ![p] = Target(req[t])]
            /\ new' = [new EXCEPT ![t] = p]
            /\ Goto(t, "initialize")
            /\ UNCHANGED <<dirs, lock, req, cur, removal>>
       \/ Return(t) /\ dirs' = DirsAfterFailure(t) /\ UNCHANGED <<proc, wsIds, args>>
    /\ UNCHANGED <<entries, written, sessions, leaked, late>>

InitializeOk(t) ==
    /\ pc[t] = "initialize" /\ proc[new[t]] = "live"
    /\ Goto(t, CASE req[t].kind = "connect" -> "attach"
                 [] req[t].kind = "args" -> "retarget"
                 [] OTHER -> "persist")
    /\ UNCHANGED <<shared, lock, local>>

\* No answer within 15 seconds: the child is killed.
InitializeTimeout(t) ==
    /\ pc[t] = "initialize"
    /\ proc' = Killed(new[t])
    /\ Return(t) /\ dirs' = DirsAfterFailure(t)
    /\ UNCHANGED <<entries, written, sessions, wsIds, args, leaked, late>>

\* The request fails (the pipe broke or output ended): the child is not killed.
InitializeError(t) ==
    /\ pc[t] = "initialize"
    /\ leaked' = leaked \cup {new[t]}
    /\ Return(t) /\ dirs' = DirsAfterFailure(t)
    /\ UNCHANGED <<entries, written, sessions, proc, wsIds, args, late>>

------------------------------------------------------------------------------
(* Under the lock: record a new workspace, then publish its session.        *)

\* The entry is inserted and the list written under the workspaces mutex.
Persist(t) ==
    /\ pc[t] = "persist"
    /\ entries' = entries \cup {req[t].ws}
    /\ \/ written' = written \cup entries'
          /\ Goto(t, "attach") /\ UNCHANGED <<leaked, lock, local>>
       \/ req[t].kind # "worktree"
          /\ Goto(t, "rollback") /\ UNCHANGED <<written, leaked, lock, local>>
       \/ req[t].kind = "worktree"
          /\ leaked' = leaked \cup ({new[t]} \ {None})
          /\ Return(t) /\ UNCHANGED written
    /\ UNCHANGED <<dirs, sessions, proc, wsIds, args, late>>

Rollback(t) ==
    /\ pc[t] = "rollback"
    /\ entries' = entries \ {req[t].ws}
    /\ \/ new[t] # None /\ Goto(t, "rollbackKill") /\ UNCHANGED <<dirs, lock, local>>
       \/ new[t] = None /\ Return(t) /\ dirs' = DirsAfterFailure(t)
    /\ UNCHANGED <<written, sessions, proc, wsIds, args, leaked, late>>

RollbackKill(t) ==
    /\ pc[t] = "rollbackKill"
    /\ proc' = Killed(new[t])
    /\ Return(t) /\ dirs' = DirsAfterFailure(t)
    /\ UNCHANGED <<entries, written, sessions, wsIds, args, leaked, late>>

\* register_workspace_with_path
Attach(t) ==
    /\ pc[t] = "attach"
    /\ wsIds' = [wsIds EXCEPT ![Held(t)] = @ \cup {req[t].ws}]
    /\ late' = IF BeingUnregistered(req[t].ws) THEN late \cup {req[t].ws}
                                                ELSE late \ {req[t].ws}
    /\ Goto(t, "insert")
    /\ UNCHANGED <<entries, written, dirs, sessions, proc, args, leaked, lock, local>>

Insert(t) ==
    /\ pc[t] = "insert"
    /\ sessions' = [sessions EXCEPT ![req[t].ws] = Held(t)]
    /\ late' = IF GivenUp(Held(t)) THEN late \cup {req[t].ws} ELSE late
    /\ Return(t)
    /\ UNCHANGED <<entries, written, dirs, proc, wsIds, args, leaked>>

------------------------------------------------------------------------------
(* Under the lock: respawn with other arguments.                            *)

ReadCurrent(t) ==
    /\ pc[t] = "readCurrent"
    /\ \/ sessions[req[t].ws] = None /\ Return(t)
       \/ /\ sessions[req[t].ws] # None
          /\ \E p \in InMap :
               \/ args[p] = Target(req[t]) /\ Return(t)
               \/ /\ args[p] # Target(req[t])
                  /\ cur' = [cur EXCEPT ![t] = p]
                  /\ Goto(t, "spawn")
                  /\ UNCHANGED <<lock, req, new, removal>>
    /\ UNCHANGED shared

\* Mutant: only the requested workspace is moved.
OneRetargeted(t) == [sessions EXCEPT ![req[t].ws] = new[t]]

\* The map with every key present now pointed at the new session.
Retargeted(t) == [w \in Workspace |-> IF w \in Connected THEN new[t] ELSE None]

Retarget(t) ==
    /\ pc[t] = "retarget"
    /\ sessions' = Retargeted(t)
    /\ todo' = [todo EXCEPT ![t] = Connected]
    /\ leaked' = IF Connected = {} THEN leaked \cup {new[t]} ELSE leaked
    /\ late' = {}
    /\ Goto(t, "reregister")
    /\ UNCHANGED <<entries, written, dirs, proc, wsIds, args, lock,
                   req, cur, new, gone, kept, victim, doomed>>

\* Mutant: the new session is not told its workspaces.
ReregisterSkipped(t) ==
    /\ pc[t] = "reregister" /\ Goto(t, "killOld")
    /\ UNCHANGED <<shared, lock, local>>

Reregister(t) ==
    /\ pc[t] = "reregister"
    /\ \/ \E w \in todo[t] :
            /\ wsIds' = [wsIds EXCEPT ![new[t]] = @ \cup {w}]
            /\ todo' = [todo EXCEPT ![t] = @ \ {w}]
            /\ UNCHANGED pc
       \/ todo[t] = {} /\ Goto(t, "killOld") /\ UNCHANGED <<wsIds, todo>>
    /\ UNCHANGED <<entries, written, dirs, sessions, proc, args, leaked, late, lock,
                   req, cur, new, gone, kept, victim, doomed>>

KillOld(t) ==
    /\ pc[t] = "killOld"
    /\ proc' = Killed(cur[t])
    /\ Return(t)
    /\ UNCHANGED <<entries, written, dirs, sessions, wsIds, args, leaked, late>>

------------------------------------------------------------------------------
(* Removal.  None of this takes the spawn lock.                             *)

\* Mutant: failures are ignored.
ParentGoesAnyway(t) == TRUE

\* The parent stays as long as one of its children could not be removed.
ParentGoes(t) == kept[t] = {}

NextChild(t) ==
    /\ pc[t] = "nextChild"
    /\ \/ \E c \in todo[t] :
            /\ victim' = [victim EXCEPT ![t] = c]
            /\ todo' = [todo EXCEPT ![t] = @ \ {c}]
            /\ Goto(t, "kill") /\ UNCHANGED gone
       \/ todo[t] = {} /\ ParentGoes(t)
          /\ victim' = [victim EXCEPT ![t] = req[t].ws]
          /\ gone' = [gone EXCEPT ![t] = @ \cup {req[t].ws}]
          /\ Goto(t, "kill") /\ UNCHANGED todo
       \/ todo[t] = {} /\ ~ParentGoes(t)
          /\ Goto(t, "drop") /\ UNCHANGED <<todo, gone, victim>>
    /\ UNCHANGED <<shared, lock, req, cur, new, kept, doomed>>

\* Where a removal goes on after kill_session_by_id.
AfterKill(t) ==
    IF req[t].kind = "remove" /\ victim[t] = req[t].ws THEN "drop" ELSE "rmdir"

\* still_referenced: another id shares the session of w.
StillReferenced(w) == \E v \in Workspace \ {w} : sessions[v] = sessions[w]

\* kill_session_by_id, under the sessions mutex: take the id out and see
\* whether another id still shares its session.
Kill(t) ==
    /\ pc[t] = "kill"
    /\ sessions' = Without({victim[t]})
    /\ cur' = [cur EXCEPT ![t] = sessions[victim[t]]]
    /\ Goto(t, IF sessions[victim[t]] = None THEN AfterKill(t)
               ELSE IF StillReferenced(victim[t])
                    THEN "unregisterShared" ELSE "unregisterLast")
    /\ UNCHANGED <<entries, written, dirs, proc, wsIds, args, leaked, late, lock,
                   req, new, removal>>

Unregister(t) ==
    /\ pc[t] \in {"unregisterShared", "unregisterLast"}
    /\ wsIds' = [wsIds EXCEPT ![cur[t]] = @ \ {victim[t]}]
    /\ Goto(t, IF pc[t] = "unregisterLast" THEN "killChild" ELSE AfterKill(t))
    /\ UNCHANGED <<entries, written, dirs, sessions, proc, args, leaked, late, lock, local>>

KillChild(t) ==
    /\ pc[t] = "killChild"
    /\ proc' = Killed(cur[t])
    /\ Goto(t, AfterKill(t))
    /\ UNCHANGED <<entries, written, dirs, sessions, wsIds, args, leaked, late, lock, local>>

\* git worktree remove, or remove_dir_all when the repository is gone.
RemoveDir(t) ==
    /\ pc[t] = "rmdir"
    /\ dirs' = dirs \ {victim[t]}
    /\ gone' = [gone EXCEPT ![t] = @ \cup {victim[t]}]
    /\ Goto(t, IF req[t].kind = "remove" THEN "nextChild" ELSE "drop")
    /\ UNCHANGED <<entries, written, sessions, proc, wsIds, args, leaked, late, lock,
                   req, cur, new, todo, kept, victim, doomed>>

RemoveDirFails(t) ==
    /\ pc[t] = "rmdir" /\ victim[t] \in dirs
    /\ \/ req[t].kind = "remove"
          /\ kept' = [kept EXCEPT ![t] = @ \cup {victim[t]}]
          /\ Goto(t, "nextChild")
          /\ UNCHANGED <<req, cur, new, todo, gone, victim, doomed>>
       \/ req[t].kind = "removeWorktree" /\ Finish(t)
    /\ UNCHANGED <<shared, lock>>

\* The ids leave the map even when the write that follows fails.
Drop(t) ==
    /\ pc[t] = "drop"
    /\ entries' = entries \ gone[t]
    /\ Finish(t)
    /\ UNCHANGED <<written, dirs, sessions, proc, wsIds, args, leaked, late, lock>>

------------------------------------------------------------------------------
(* The daemon's sync_workspaces_from_storage.  It takes no spawn lock.      *)

SyncSwap(t) ==
    /\ pc[t] = "syncSwap"
    /\ entries' = todo[t]
    /\ Goto(t, "syncPrune")
    /\ UNCHANGED <<written, dirs, sessions, proc, wsIds, args, leaked, late, lock, local>>

SyncPrune(t) ==
    /\ pc[t] = "syncPrune"
    /\ sessions' = Without(Connected \ todo[t])
    /\ doomed' = [doomed EXCEPT ![t] = {sessions[w] : w \in Connected \ todo[t]}]
    /\ Goto(t, "syncKill")
    /\ UNCHANGED <<entries, written, dirs, proc, wsIds, args, leaked, late, lock,
                   req, cur, new, todo, gone, kept, victim>>

SyncKill(t) ==
    /\ pc[t] = "syncKill"
    /\ \/ \E p \in doomed[t] :
            /\ proc' = Killed(p)
            /\ doomed' = [doomed EXCEPT ![t] = @ \ {p}]
            /\ UNCHANGED <<pc, req, cur, new, todo, gone, kept, victim>>
       \/ doomed[t] = {} /\ Finish(t) /\ UNCHANGED proc
    /\ UNCHANGED <<entries, written, dirs, sessions, wsIds, args, leaked, late, lock>>

------------------------------------------------------------------------------
\* An app-server may exit on its own at any time.
Crash(p) ==
    /\ proc[p] = "live"
    /\ proc' = [proc EXCEPT ![p] = "crashed"]
    /\ UNCHANGED <<entries, written, dirs, sessions, wsIds, args, leaked, late, lock, pc, local>>

FindSession(t) == Own(t) \/ OwnCheck(t) \/ Peek(t) \/ Check(t) \/ Prune(t)
SpawnSession(t) ==
    Spawn(t) \/ InitializeOk(t) \/ InitializeTimeout(t) \/ InitializeError(t)
Publish(t) ==
    Persist(t) \/ Rollback(t) \/ RollbackKill(t) \/ Attach(t) \/ Insert(t)
Respawn(t) == ReadCurrent(t) \/ Retarget(t) \/ Reregister(t) \/ KillOld(t)
Remove(t) ==
    NextChild(t) \/ Kill(t) \/ Unregister(t) \/ KillChild(t)
    \/ RemoveDir(t) \/ RemoveDirFails(t) \/ Drop(t)
Sync(t) == SyncSwap(t) \/ SyncPrune(t) \/ SyncKill(t)

\* What a handler does of its own accord once it runs.
Step(t) ==
    \/ Checkout(t) \/ FindSession(t) \/ SpawnSession(t) \/ Publish(t)
    \/ Respawn(t) \/ Remove(t) \/ Sync(t)

Next ==
    \/ \E t \in Task, r \in Request : Begin(t, r)
    \/ \E t \in Task : Lock(t) \/ Step(t)
    \/ \E p \in Proc : Crash(p)

\* tokio polls every ready task, and its Mutex is first-come first-served.
Fairness == \A t \in Task : WF_vars(Step(t)) /\ SF_vars(Lock(t))

Safety == Init /\ [][Next]_vars
Spec == Safety /\ Fairness

------------------------------------------------------------------------------
(* Properties                                                               *)

PcLabels ==
    {"idle", "checkout", "lock", "own", "ownCheck", "peek", "check", "prune", "spawn",
     "initialize", "persist", "rollback", "rollbackKill", "attach", "insert",
     "readCurrent", "retarget", "reregister", "killOld", "nextChild", "kill",
     "unregisterShared", "unregisterLast", "killChild", "rmdir", "drop",
     "syncSwap", "syncPrune", "syncKill"}

SharedTypeOK ==
    /\ entries \subseteq Workspace /\ written \subseteq Workspace /\ dirs \subseteq Workspace
    /\ sessions \in [Workspace -> Proc \cup {None}]
    /\ proc \in [Proc -> {"unused", "live", "crashed", "killed"}]
    /\ wsIds \in [Proc -> SUBSET Workspace]
    /\ args \in [Proc -> ArgSet]
    /\ leaked \subseteq Proc /\ late \subseteq Workspace
    /\ lock \in Task \cup {None}

LocalTypeOK ==
    /\ pc \in [Task -> PcLabels]
    /\ req \in [Task -> Request \cup {NoRequest}]
    /\ cur \in [Task -> Proc \cup {None}]
    /\ new \in [Task -> Proc \cup {None}]
    /\ todo \in [Task -> SUBSET Workspace]
    /\ gone \in [Task -> SUBSET Workspace]
    /\ kept \in [Task -> SUBSET Workspace]
    /\ victim \in [Task -> Workspace \cup {None}]
    /\ doomed \in [Task -> SUBSET Proc]

\* Every variable has its type; in particular a session always records concrete
\* arguments, which runtime_codex_args compares with the ones it resolves.
TypeOK == SharedTypeOK /\ LocalTypeOK

\* At any time all connected workspaces share one app-server, however connects,
\* adds, respawns, removals and synchronisations interleave.  This is what
\* sessions.values().next() in connect.rs and runtime_codex_args.rs relies on.
SingleSharedSession ==
    \A v, w \in Connected : sessions[v] = sessions[w]

\* The two kills that do not ask whether the process is still referenced (the
\* rollback of an add, the old process of a respawn) never hit a process some
\* workspace is connected to.
DirectKill(t) == pc[t] \in {"rollbackKill", "killOld"} /\ pc'[t] = "idle"
DirectKillIsPrivate ==
    [][\A t \in Task :
         DirectKill(t) => (IF pc[t] = "killOld" THEN cur[t] ELSE new[t]) \notin InMap]_vars

\* An add, clone or git-url request that fails after it took the lock leaves
\* nothing behind: no entry, no session, no checkout, no running process
\* (except the one a failing initialize drops, see InitializeError).
FailedAdd(t) ==
    /\ req[t].kind \in AddKinds \ {"worktree"}
    /\ pc[t] \in {"spawn", "initialize", "rollback", "rollbackKill"}
    /\ pc'[t] = "idle"
FailedAddLeavesNoTrace ==
    [][\A t \in Task :
         FailedAdd(t) =>
            /\ req[t].ws \notin entries' \cup dirs'
            /\ sessions'[req[t].ws] = None
            /\ new[t] # None => proc'[new[t]] # "live" \/ new[t] \in leaked']_vars

\* Every running app-server is accounted for: some workspace is connected to it,
\* or a handler holds it and will publish or kill it, or it is one of the known
\* leaks (failed initialize, failed worktree write, respawn that lost the race
\* with the last removal).
Holds(t, p) ==
    \/ new[t] = p
    \/ cur[t] = p /\ pc[t] \in {"unregisterLast", "killChild", "reregister", "killOld"}
    \/ p \in doomed[t]
NoUnknownOrphan ==
    \A p \in Proc :
        proc[p] = "live" => p \in InMap \cup leaked \/ \E t \in Task : Holds(t, p)

\* A connected workspace is registered with the session it is connected to
\* (otherwise it misses account events and its threads are not found), except
\* while a respawn is re-registering it, or when it was published while a
\* removal of the same id was still between its two awaits.
ConnectedIsRegistered ==
    \A w \in Connected \ late :
        \/ w \in wsIds[sessions[w]]
        \/ \E t \in Task : pc[t] = "reregister" /\ w \in todo[t]

\* No workspace stays connected to a process this program has killed (it may be
\* dead because it exited by itself), unless it was published after a removal
\* had already given the session up.  No other overlap of operations has this
\* effect: not two removals, not a removal and a respawn.
ConnectedNotKilled ==
    \A w \in Connected \ late : proc[sessions[w]] # "killed"

\* What a connected workspace points at serves it: the process was not killed,
\* and knows of the workspace.
ConnectedIsServed == ConnectedIsRegistered /\ ConnectedNotKilled

\* When an args request returns with its workspace connected, every connected
\* workspace runs with the requested arguments, not only the one asked for.
RespawnReachesEveryWorkspace ==
    [][\A t \in Task :
         /\ req[t].kind = "args" /\ pc[t] \in {"readCurrent", "killOld"} /\ pc'[t] = "idle"
         /\ sessions[req[t].ws] # None
         => \A w \in Connected : args[sessions[w]] = Target(req[t])]_vars

\* A worktree's parent is never removed before the worktree, provided no
\* worktree is being added: a child whose checkout could not be deleted keeps
\* its parent in the list, so it can still be removed later.
NoStrandedWorktree ==
    \A w \in entries : Parent[w] # None => Parent[w] \in entries

\* A session the synchronisation keeps in the map is still usable: the process
\* of a workspace that workspaces.json still lists is not killed by it.
SyncKeepsPersistedSessions ==
    [][\A t \in Task :
         pc[t] = "syncKill" => \A w \in Connected \cap todo[t] :
             proc[sessions[w]] = "live" /\ sessions[w] \in doomed[t]
                => proc'[sessions[w]] # "killed"]_vars

\* A request is being served; that it is answered in the end is checked in MCSettles.
Serves(t) == pc[t] # "idle"
==============================================================================
