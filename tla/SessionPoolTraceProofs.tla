----------------------- MODULE SessionPoolTraceProofs -----------------------
(***************************************************************************)
(* What the requests to SessionPool leave behind: no process is lost, a    *)
(* failed add leaves no trace, a respawn reaches every workspace, who is   *)
(* connected is served.  For any requests, handlers, workspaces and        *)
(* processes.                                                              *)
(***************************************************************************)
EXTENDS SessionPoolProofs

\* The handler of u is where it was.
Same(u) ==
    /\ pc'[u] = pc[u] /\ req'[u] = req[u] /\ cur'[u] = cur[u] /\ new'[u] = new[u]
    /\ todo'[u] = todo[u] /\ gone'[u] = gone[u] /\ kept'[u] = kept[u]
    /\ victim'[u] = victim[u] /\ doomed'[u] = doomed[u]

\* A handler's step leaves the locals of the others alone.
LEMMA OthersStay ==
    ASSUME TypeInv, NEW t \in Task, NEW u \in Task \ {t},
           Lock(t) \/ Step(t) \/ \E r \in Request : Begin(t, r)
    PROVE  Same(u)
  <1> USE DEF TypeInv, TypeOK, LocalTypeOK
  <1> USE DEF Same, Goto, shared, local, removal
  <1>f. Finish(t) => Same(u)
    BY DEF Finish
  <1>1. CASE \E r \in Request : Begin(t, r)
    BY <1>1 DEF Begin, BeginAttach, BeginAdd, BeginCheckout, BeginRemove,
                BeginRemoveWorktree, BeginSync, Accept
  <1>2. CASE Lock(t) \/ Checkout(t)
    BY <1>2, <1>f DEF Lock, Checkout
  <1>3. CASE FindSession(t)
    BY <1>3, <1>f DEF FindSession, Own, OwnCheck, Peek, Check, Prune, Return
  <1>4. CASE SpawnSession(t)
    BY <1>4, <1>f DEF SpawnSession, Spawn, InitializeOk, InitializeTimeout, InitializeError, Return
  <1>5. CASE Publish(t)
    BY <1>5, <1>f DEF Publish, Persist, Rollback, RollbackKill, Attach, Insert, Return
  <1>6. CASE Respawn(t)
    BY <1>6, <1>f DEF Respawn, ReadCurrent, Retarget, Reregister, KillOld, Return
  <1>7. CASE Remove(t)
    BY <1>7, <1>f DEF Remove, NextChild, Kill, Unregister, KillChild, RemoveDir,
                      RemoveDirFails, Drop
  <1>8. CASE Sync(t)
    BY <1>8, <1>f DEF Sync, SyncSwap, SyncPrune, SyncKill
  <1> QED
    BY <1>1, <1>2, <1>3, <1>4, <1>5, <1>6, <1>7, <1>8 DEF Step

\* What a handler's step does to the shared state.
SharedMoves(t) ==
    /\ \/ entries' \subseteq entries
       \/ pc[t] = "persist" /\ entries' = entries \cup {req[t].ws}
       \/ pc[t] = "syncSwap" /\ entries' = todo[t]
    /\ \/ written' = written
       \/ pc[t] = "persist" /\ written' = written \cup entries'
    /\ \/ dirs' \subseteq dirs
       \/ pc[t] = "checkout" /\ dirs' = dirs \cup {req[t].ws}
    /\ \A w \in Workspace :
          \/ sessions'[w] \in {sessions[w], None}
          \/ pc[t] = "insert" /\ w = req[t].ws /\ sessions'[w] = Held(t)
          \/ pc[t] = "retarget" /\ sessions[w] # None /\ sessions'[w] = new[t]
    /\ \A p \in Proc :
          \/ proc'[p] = proc[p] /\ args'[p] = args[p]
          \/ /\ pc[t] = "spawn" /\ proc[p] = "unused" /\ proc'[p] = "live"
             /\ new'[t] = p /\ args'[p] = Target(req[t])
          \/ proc[p] = "live" /\ proc'[p] = "killed" /\ args'[p] = args[p]

LEMMA SharedStep ==
    ASSUME TypeInv, NEW t \in Task,
           Lock(t) \/ Step(t) \/ \E r \in Request : Begin(t, r)
    PROVE  SharedMoves(t)
  <1> USE DEF TypeInv, TypeOK, LocalTypeOK, SharedTypeOK
  <1> USE DEF SharedMoves, shared, Killed
  <1>1. CASE \E r \in Request : Begin(t, r)
    BY <1>1 DEF Begin, BeginAttach, BeginAdd, BeginCheckout, BeginRemove,
                BeginRemoveWorktree, BeginSync
  <1>2. CASE Lock(t) \/ Checkout(t)
    BY <1>2 DEF Lock, Checkout
  <1>3. CASE FindSession(t)
    BY <1>3 DEF FindSession, Own, OwnCheck, Peek, Check, Prune, Without
  <1>4. CASE SpawnSession(t)
    BY <1>4 DEF SpawnSession, Spawn, InitializeOk, InitializeTimeout, InitializeError,
                DirsAfterFailure
  <1>5. CASE Publish(t)
    BY <1>5 DEF Publish, Persist, Rollback, RollbackKill, Attach, Insert, DirsAfterFailure
  <1>6. CASE Respawn(t)
    BY <1>6 DEF Respawn, ReadCurrent, Retarget, Retargeted, Connected, Reregister, KillOld
  <1>7. CASE Remove(t)
    BY <1>7 DEF Remove, NextChild, Kill, Unregister, KillChild, RemoveDir,
                RemoveDirFails, Drop, Without
  <1>8. CASE Sync(t)
    BY <1>8, SMTT(30) DEF Sync, SyncSwap, SyncPrune, SyncKill, Without
  <1> QED
    BY <1>1, <1>2, <1>3, <1>4, <1>5, <1>6, <1>7, <1>8 DEF Step

\* The step a handler takes at a label...
LEMMA StepAt ==
    ASSUME NEW t \in Task, Lock(t) \/ Step(t) \/ \E r \in Request : Begin(t, r)
    PROVE  /\ pc[t] = "spawn" => Spawn(t)
           /\ pc[t] = "initialize" => InitializeOk(t) \/ InitializeTimeout(t) \/ InitializeError(t)
           /\ pc[t] = "persist" => Persist(t)
           /\ pc[t] = "rollback" => Rollback(t)
           /\ pc[t] = "rollbackKill" => RollbackKill(t)
           /\ pc[t] = "attach" => Attach(t)
           /\ pc[t] = "insert" => Insert(t)
           /\ pc[t] = "readCurrent" => ReadCurrent(t)
           /\ pc[t] = "retarget" => Retarget(t)
           /\ pc[t] = "reregister" => Reregister(t)
           /\ pc[t] = "killOld" => KillOld(t)
           /\ pc[t] \in {"nextChild", "kill", "unregisterShared", "unregisterLast",
                         "killChild", "rmdir", "drop"} => Remove(t)
           /\ pc[t] \in {"unregisterShared", "unregisterLast"} => Unregister(t)
           /\ pc[t] = "killChild" => KillChild(t)
           /\ pc[t] = "syncKill" => SyncKill(t)
  BY SMTT(30)
     DEF Begin, BeginAttach, BeginAdd, BeginCheckout, BeginRemove, BeginRemoveWorktree,
         BeginSync, Accept, Lock, Step, Checkout, FindSession, Own, OwnCheck, Peek, Check,
         Prune, SpawnSession, Spawn, InitializeOk, InitializeTimeout, InitializeError,
         Publish, Persist, Rollback, RollbackKill, Attach, Insert, Respawn, ReadCurrent,
         Retarget, Reregister, KillOld, Remove, NextChild, Kill, Unregister, KillChild,
         RemoveDir, RemoveDirFails, Drop, Sync, SyncSwap, SyncPrune, SyncKill

\* ... the step that leads it to a label...
LEMMA StepTo ==
    ASSUME TypeInv, NEW t \in Task, Lock(t) \/ Step(t) \/ \E r \in Request : Begin(t, r)
    PROVE  /\ pc'[t] = "initialize" => Spawn(t)
           /\ pc'[t] = "retarget" => InitializeOk(t)
           /\ pc'[t] = "insert" => Attach(t)
           /\ pc'[t] \in {"unregisterShared", "unregisterLast"} => Kill(t)
           /\ pc'[t] = "killChild" => Unregister(t)
  BY DEF TypeInv, TypeOK, LocalTypeOK, Goto, Finish, Return,
         Begin, BeginAttach, BeginAdd, BeginCheckout, BeginRemove, BeginRemoveWorktree,
         BeginSync, Accept, Lock, FirstLocked, Step, Checkout, FindSession, Own, OwnCheck,
         Peek, Check, Prune, SpawnSession, Spawn, InitializeOk, InitializeTimeout,
         InitializeError, Publish, Persist, Rollback, RollbackKill, Attach, Insert, Respawn,
         ReadCurrent, Retarget, Reregister, KillOld, Remove, NextChild, Kill, AfterKill,
         Unregister, KillChild, RemoveDir, RemoveDirFails, Drop, Sync, SyncSwap, SyncPrune,
         SyncKill

\* ... and the steps that change a variable.
LEMMA StepOn ==
    ASSUME TypeInv, NEW t \in Task, Lock(t) \/ Step(t) \/ \E r \in Request : Begin(t, r)
    PROVE  /\ sessions' = sessions \/ Prune(t) \/ Insert(t) \/ Retarget(t) \/ Kill(t)
              \/ SyncPrune(t)
           /\ entries' = entries \/ Persist(t) \/ Rollback(t) \/ Drop(t) \/ SyncSwap(t)
           /\ late' = late \/ Attach(t) \/ Insert(t) \/ Retarget(t)
           /\ leaked \subseteq leaked'
           /\ cur' = cur \/ Finish(t) \/ Own(t) \/ Peek(t) \/ ReadCurrent(t) \/ Kill(t)
           /\ req'[t] \in {req[t], NoRequest} \/ \E r \in Request : Begin(t, r)
  <1>1. CASE \E r \in Request : Begin(t, r)
    <2>1. UNCHANGED shared
      BY <1>1 DEF Begin, BeginAttach, BeginAdd, BeginCheckout, BeginRemove,
                  BeginRemoveWorktree, BeginSync
    <2>2. UNCHANGED cur
      BY <1>1 DEF Begin, BeginAttach, BeginAdd, BeginCheckout, BeginRemove,
                  BeginRemoveWorktree, BeginSync
    <2> QED
      BY <1>1, <2>1, <2>2 DEF shared
  <1> DEFINE On == /\ sessions' = sessions \/ Prune(t) \/ Insert(t) \/ Retarget(t) \/ Kill(t)
                      \/ SyncPrune(t)
                   /\ entries' = entries \/ Persist(t) \/ Rollback(t) \/ Drop(t) \/ SyncSwap(t)
                   /\ late' = late \/ Attach(t) \/ Insert(t) \/ Retarget(t)
                   /\ leaked \subseteq leaked'
                   /\ cur' = cur \/ Finish(t) \/ Own(t) \/ Peek(t) \/ ReadCurrent(t) \/ Kill(t)
                   /\ req'[t] \in {req[t], NoRequest}
  <1>2. CASE Lock(t) \/ Checkout(t)
    <2> USE <1>2 DEF Lock, Checkout, shared, local
    <2>1. req'[t] \in {req[t], NoRequest}
      BY DEF Finish, TypeInv, TypeOK, LocalTypeOK
    <2>2. UNCHANGED <<sessions, entries, late, leaked>> /\ (cur' = cur \/ Finish(t))
      OBVIOUS
    <2> QED
      BY <2>1, <2>2
  <1>3. CASE FindSession(t)
    <2> USE <1>3 DEF FindSession, Own, OwnCheck, Peek, Check, Prune, Return, shared, local, removal
    <2>1. req'[t] \in {req[t], NoRequest} /\ leaked \subseteq leaked'
      BY DEF Finish, TypeInv, TypeOK, LocalTypeOK
    <2>2. sessions' = sessions \/ Prune(t) \/ Insert(t) \/ Retarget(t) \/ Kill(t) \/ SyncPrune(t)
      OBVIOUS
    <2>3. entries' = entries \/ Persist(t) \/ Rollback(t) \/ Drop(t) \/ SyncSwap(t)
      OBVIOUS
    <2>4. late' = late \/ Attach(t) \/ Insert(t) \/ Retarget(t)
      OBVIOUS
    <2>5. cur' = cur \/ Finish(t) \/ Own(t) \/ Peek(t) \/ ReadCurrent(t) \/ Kill(t)
      OBVIOUS
    <2> QED
      BY <2>1, <2>2, <2>3, <2>4, <2>5
  <1>4. CASE SpawnSession(t)
    <2> USE <1>4 DEF SpawnSession, Spawn, InitializeOk, InitializeTimeout, InitializeError, Return, shared, local, removal
    <2>1. req'[t] \in {req[t], NoRequest} /\ leaked \subseteq leaked'
      BY DEF Finish, TypeInv, TypeOK, LocalTypeOK
    <2>2. sessions' = sessions \/ Prune(t) \/ Insert(t) \/ Retarget(t) \/ Kill(t) \/ SyncPrune(t)
      OBVIOUS
    <2>3. entries' = entries \/ Persist(t) \/ Rollback(t) \/ Drop(t) \/ SyncSwap(t)
      OBVIOUS
    <2>4. late' = late \/ Attach(t) \/ Insert(t) \/ Retarget(t)
      OBVIOUS
    <2>5. cur' = cur \/ Finish(t) \/ Own(t) \/ Peek(t) \/ ReadCurrent(t) \/ Kill(t)
      OBVIOUS
    <2> QED
      BY <2>1, <2>2, <2>3, <2>4, <2>5
  <1>5. CASE Publish(t)
    <2> USE <1>5 DEF Publish, Persist, Rollback, RollbackKill, Attach, Insert, Return, shared, local, removal
    <2>1. req'[t] \in {req[t], NoRequest} /\ leaked \subseteq leaked'
      BY DEF Finish, TypeInv, TypeOK, LocalTypeOK
    <2>2. sessions' = sessions \/ Prune(t) \/ Insert(t) \/ Retarget(t) \/ Kill(t) \/ SyncPrune(t)
      OBVIOUS
    <2>3. entries' = entries \/ Persist(t) \/ Rollback(t) \/ Drop(t) \/ SyncSwap(t)
      OBVIOUS
    <2>4. late' = late \/ Attach(t) \/ Insert(t) \/ Retarget(t)
      OBVIOUS
    <2>5. cur' = cur \/ Finish(t) \/ Own(t) \/ Peek(t) \/ ReadCurrent(t) \/ Kill(t)
      OBVIOUS
    <2> QED
      BY <2>1, <2>2, <2>3, <2>4, <2>5
  <1>6. CASE Respawn(t)
    <2> USE <1>6 DEF Respawn, ReadCurrent, Retarget, Reregister, KillOld, Return, shared, local, removal
    <2>1. req'[t] \in {req[t], NoRequest} /\ leaked \subseteq leaked'
      BY DEF Finish, TypeInv, TypeOK, LocalTypeOK
    <2>2. sessions' = sessions \/ Prune(t) \/ Insert(t) \/ Retarget(t) \/ Kill(t) \/ SyncPrune(t)
      OBVIOUS
    <2>3. entries' = entries \/ Persist(t) \/ Rollback(t) \/ Drop(t) \/ SyncSwap(t)
      OBVIOUS
    <2>4. late' = late \/ Attach(t) \/ Insert(t) \/ Retarget(t)
      OBVIOUS
    <2>5. cur' = cur \/ Finish(t) \/ Own(t) \/ Peek(t) \/ ReadCurrent(t) \/ Kill(t)
      OBVIOUS
    <2> QED
      BY <2>1, <2>2, <2>3, <2>4, <2>5
  <1>7. CASE Remove(t)
    <2> USE <1>7 DEF Remove, NextChild, Kill, Unregister, KillChild, RemoveDir,
             RemoveDirFails, Drop, shared, local, removal
    <2>1. req'[t] \in {req[t], NoRequest} /\ leaked \subseteq leaked'
      BY DEF Finish, TypeInv, TypeOK, LocalTypeOK
    <2>2. sessions' = sessions \/ Prune(t) \/ Insert(t) \/ Retarget(t) \/ Kill(t) \/ SyncPrune(t)
      OBVIOUS
    <2>3. entries' = entries \/ Persist(t) \/ Rollback(t) \/ Drop(t) \/ SyncSwap(t)
      OBVIOUS
    <2>4. late' = late \/ Attach(t) \/ Insert(t) \/ Retarget(t)
      OBVIOUS
    <2>5. cur' = cur \/ Finish(t) \/ Own(t) \/ Peek(t) \/ ReadCurrent(t) \/ Kill(t)
      OBVIOUS
    <2> QED
      BY <2>1, <2>2, <2>3, <2>4, <2>5
  <1>8. CASE Sync(t)
    <2> USE <1>8 DEF Sync, SyncSwap, SyncPrune, SyncKill, shared, local, removal
    <2>1. req'[t] \in {req[t], NoRequest} /\ leaked \subseteq leaked'
      BY DEF Finish, TypeInv, TypeOK, LocalTypeOK
    <2>2. sessions' = sessions \/ Prune(t) \/ Insert(t) \/ Retarget(t) \/ Kill(t) \/ SyncPrune(t)
      OBVIOUS
    <2>3. entries' = entries \/ Persist(t) \/ Rollback(t) \/ Drop(t) \/ SyncSwap(t)
      OBVIOUS
    <2>4. late' = late \/ Attach(t) \/ Insert(t) \/ Retarget(t)
      OBVIOUS
    <2>5. cur' = cur \/ Finish(t) \/ Own(t) \/ Peek(t) \/ ReadCurrent(t) \/ Kill(t)
      OBVIOUS
    <2> QED
      BY <2>1, <2>2, <2>3, <2>4, <2>5
  <1> QED
    BY <1>1, <1>2, <1>3, <1>4, <1>5, <1>6, <1>7, <1>8 DEF Step

------------------------------------------------------------------------------
(* Which request is served at which label.                                  *)

RemovingPc == {"kill", "unregisterShared", "unregisterLast", "killChild", "rmdir", "drop"}

KindOf(t) ==
    /\ pc[t] = "idle" => req[t] = NoRequest
    /\ pc[t] = "checkout" => req[t].kind \in AddKinds \ {"add"}
    /\ pc[t] \in LockedPc \cup {"lock"} => req[t].kind \in AddKinds \cup {"connect", "args"}
    /\ pc[t] \in {"own", "ownCheck"} => req[t].kind = "connect"
    /\ pc[t] \in {"peek", "check", "prune", "attach", "insert"} => req[t].kind # "args"
    /\ pc[t] \in {"persist", "rollback", "rollbackKill"} => req[t].kind \in AddKinds
    /\ pc[t] \in {"readCurrent", "retarget", "reregister", "killOld"} => req[t].kind = "args"
    /\ pc[t] = "nextChild" => req[t].kind = "remove"
    /\ pc[t] \in RemovingPc => req[t].kind \in {"remove", "removeWorktree"}
    /\ pc[t] \in {"syncSwap", "syncPrune", "syncKill"} => req[t].kind = "sync"
KindInv == \A t \in Task : KindOf(t)

LEMMA KindNext ==
    ASSUME TypeInv, KindInv, [Next]_vars
    PROVE  KindInv'
  <1>1. ASSUME NEW t \in Task, Lock(t) \/ Step(t) \/ \E r \in Request : Begin(t, r)
        PROVE  KindInv'
    <2> USE DEF KindOf, LockedPc, AddKinds, RemovingPc
    <2>1. ASSUME NEW u \in Task \ {t} PROVE KindOf(u)'
      <3>1. Same(u)
        BY <1>1, OthersStay
      <3>2. KindOf(u)
        BY DEF KindInv
      <3> QED
        BY <3>1, <3>2 DEF Same
    <2>2. KindOf(t)'
      <3>0. KindOf(t) /\ LocalTypeOK
        BY DEF KindInv, TypeInv, TypeOK
      <3> USE <3>0 DEF Goto, LocalTypeOK
      <3>f. Finish(t) => KindOf(t)'
        BY DEF Finish
      <3>1. CASE \E r \in Request : Begin(t, r)
        BY <3>1 DEF Begin, BeginAttach, BeginAdd, BeginCheckout, BeginRemove,
                    BeginRemoveWorktree, BeginSync, Accept
      <3>2. CASE Lock(t)
        BY <3>2 DEF Lock, FirstLocked, local
      <3>3. CASE Checkout(t)
        BY <3>3, <3>f DEF Checkout, local
      <3>4. CASE FindSession(t)
        BY <3>4, <3>f DEF FindSession, Own, OwnCheck, Peek, Check, Prune, Return, local
      <3>5. CASE SpawnSession(t)
        BY <3>5, <3>f DEF SpawnSession, Spawn, InitializeOk, InitializeTimeout,
                          InitializeError, Return, local
      <3>6. CASE Publish(t)
        BY <3>6, <3>f DEF Publish, Persist, Rollback, RollbackKill, Attach, Insert,
                          Return, local
      <3>7. CASE Respawn(t)
        BY <3>7, <3>f DEF Respawn, ReadCurrent, Retarget, Reregister, KillOld, Return
      <3>8. CASE Remove(t)
        BY <3>8, <3>f DEF Remove, NextChild, Kill, AfterKill, Unregister, KillChild,
                          RemoveDir, RemoveDirFails, Drop, local, removal
      <3>9. CASE Sync(t)
        BY <3>9, <3>f DEF Sync, SyncSwap, SyncPrune, SyncKill, local
      <3> QED
        BY <1>1, <3>1, <3>2, <3>3, <3>4, <3>5, <3>6, <3>7, <3>8, <3>9 DEF Step
    <2> QED
      BY <2>1, <2>2 DEF KindInv
  <1>2. CASE UNCHANGED <<pc, req>>
    BY <1>2 DEF KindInv, KindOf
  <1> QED
    BY <1>1, <1>2 DEF Next, Crash, vars, local

------------------------------------------------------------------------------
(* No process is lost.                                                      *)

\* A handler outside the lock has spawned nothing, only a synchronisation has
\* doomed sessions, what is pruned is dead, and the process a respawn replaces
\* is the one of every connected workspace.
LocalsOf(t) ==
    /\ pc[t] \notin LockedPc => new[t] = None
    /\ pc[t] # "syncKill" => doomed[t] = {}
    /\ pc[t] = "prune" => proc[cur[t]] # "live"
    /\ pc[t] = "retarget" \/ (pc[t] \in {"spawn", "initialize"} /\ req[t].kind = "args")
          => Only(cur[t])
LocalsInv == \A t \in Task : LocalsOf(t)

\* A process is accounted for without the handlers that have published it.
Accounted(p) ==
    \/ p \in InMap \cup leaked
    \/ \E t \in Task :
         \/ new[t] = p /\ pc[t] \notin {"reregister", "killOld"}
         \/ cur[t] = p /\ pc[t] \in {"unregisterLast", "killChild", "reregister", "killOld"}
         \/ p \in doomed[t]
OrphanInv == \A p \in Proc : proc[p] = "live" => Accounted(p)

LEMMA LocalsNext ==
    ASSUME PoolInv, KindInv, LocalsInv, [Next]_vars
    PROVE  LocalsInv'
  <1>0. /\ TypeInv /\ LocalTypeOK /\ SharedTypeOK /\ Started /\ LockInv /\ SingleSharedSession
        /\ \A t \in Task : Knows(t)
    BY DEF PoolInv, TypeInv, TypeOK
  <1>d. ASSUME NEW t \in Task, pc[t] = "prune",
               \A p \in Proc : proc'[p] # proc[p] => proc[p] \in {"unused", "live"}
        PROVE  proc'[cur[t]] # "live"
    <2>1. cur[t] \in Proc /\ proc[cur[t]] \notin {"unused", "live"}
      BY <1>0, <1>d, NoneAssumption DEF LocalsInv, LocalsOf, Knows, Started
    <2> QED
      BY <1>d, <2>1
  <1>1. ASSUME NEW t \in Task, Lock(t) \/ Step(t) \/ \E r \in Request : Begin(t, r)
        PROVE  LocalsInv'
    <2>s. SharedMoves(t)
      BY <1>0, <1>1, SharedStep
    <2>1. ASSUME NEW u \in Task \ {t} PROVE LocalsOf(u)'
      <3>1. Same(u) /\ LocalsOf(u)
        BY <1>0, <1>1, OthersStay DEF LocalsInv
      <3>2. pc[u] = "prune" => proc'[cur[u]] # "live"
        BY <1>d, <2>s DEF SharedMoves
      <3>3. pc[u] \in LockedPc => pc[t] \notin {"insert", "retarget"}
        BY <1>0 DEF LockInv, LockedPc
      <3>4. pc[u] \in LockedPc /\ Only(cur[u]) => Only(cur[u])'
        BY <2>s, <3>1, <3>3 DEF SharedMoves, Only, Same
      <3> QED
        BY <3>1, <3>2, <3>4 DEF Same, LocalsOf, LockedPc
    <2>2. LocalsOf(t)'
      <3>0. LocalsOf(t) /\ KindOf(t) /\ Knows(t)
        BY <1>0 DEF LocalsInv, KindInv
      <3> USE <1>0, <3>0 DEF Goto, LocalTypeOK, LocalsOf, LockedPc
      <3>f. Finish(t) => LocalsOf(t)'
        BY DEF Finish
      <3>1. CASE \E r \in Request : Begin(t, r)
        BY <3>1 DEF Begin, BeginAttach, BeginAdd, BeginCheckout, BeginRemove,
                    BeginRemoveWorktree, BeginSync, Accept, shared, removal, Only
      <3>2. CASE Lock(t) \/ Checkout(t)
        BY <3>2, <3>f DEF Lock, FirstLocked, Checkout, local
      <3>3. CASE Own(t) \/ OwnCheck(t) \/ Peek(t)
        BY <3>3, <3>f DEF Own, OwnCheck, Peek, Return, local, shared, removal, KindOf
      <3>4. CASE Check(t) \/ Prune(t)
        BY <3>4 DEF Check, Prune, local, shared, KindOf
      <3>5. CASE SpawnSession(t)
        BY <3>5, <3>f DEF SpawnSession, Spawn, InitializeOk, InitializeTimeout,
                          InitializeError, Return, local, shared, removal, Only
      <3>6. CASE Publish(t)
        BY <3>6, <3>f DEF Publish, Persist, Rollback, RollbackKill, Attach, Insert,
                          Return, local
      <3>7. CASE ReadCurrent(t)
        <4>1. CASE Return(t)
          BY <3>f, <4>1 DEF Return
        <4>2. ASSUME NEW p \in InMap, cur' = [cur EXCEPT ![t] = p], Goto(t, "spawn"),
                     UNCHANGED <<lock, req, new, removal>>
              PROVE  LocalsOf(t)'
          <5>1. p \in Proc /\ Only(p)
            BY DEF InMap, SingleSharedSession, Connected, Only, SharedTypeOK
          <5> QED
            BY <3>7, <4>2, <5>1 DEF ReadCurrent, removal, shared, Only
        <4> QED
          BY <3>7, <4>1, <4>2 DEF ReadCurrent
      <3>8. CASE Retarget(t) \/ Reregister(t) \/ KillOld(t)
        BY <3>8, <3>f DEF Retarget, Reregister, KillOld, Return
      <3>9. CASE Remove(t)
        BY <3>9, <3>f DEF Remove, NextChild, Kill, AfterKill, Unregister, KillChild,
                          RemoveDir, RemoveDirFails, Drop, local, removal
      <3>10. CASE Sync(t)
        BY <3>10, <3>f DEF Sync, SyncSwap, SyncPrune, SyncKill, local
      <3> QED
        BY <1>1, <3>1, <3>2, <3>3, <3>4, <3>5, <3>6, <3>7, <3>8, <3>9, <3>10
        DEF Step, FindSession, Respawn
    <2> QED
      BY <2>1, <2>2 DEF LocalsInv
  <1>2. ASSUME NEW p \in Proc, Crash(p) PROVE LocalsInv'
    <2>1. ASSUME NEW t \in Task, pc[t] = "prune" PROVE proc'[cur[t]] # "live"
      BY <1>0, <1>2, <1>d, <2>1 DEF Crash, SharedTypeOK
    <2> QED
      BY <1>2, <2>1 DEF Crash, LocalsInv, LocalsOf, Only, local
  <1>3. CASE UNCHANGED vars
    BY <1>3 DEF LocalsInv, LocalsOf, Only, vars, shared, local
  <1> QED
    BY <1>1, <1>2, <1>3 DEF Next

\* A step that takes a live process out of the map leaves it in somebody's hands.
LEMMA MapStep ==
    ASSUME PoolInv, LocalsInv, NEW t \in Task,
           Lock(t) \/ Step(t) \/ \E r \in Request : Begin(t, r),
           NEW p \in Proc, p \in InMap, proc[p] = "live"
    PROVE  Accounted(p)'
  <1>0. /\ TypeInv /\ LocalTypeOK /\ SharedTypeOK /\ Started /\ SingleSharedSession
        /\ LocalsOf(t) /\ Knows(t)
    BY DEF PoolInv, TypeInv, TypeOK, LocalsInv
  <1>1. PICK w \in Workspace : sessions[w] = p
    BY NoneAssumption DEF InMap
  <1>2. CASE \E v \in Workspace : sessions'[v] = p
    BY <1>2, NoneAssumption DEF Accounted, InMap
  <1>3. CASE Prune(t)
    BY <1>0, <1>1, <1>2, <1>3 DEF Prune, Without, LocalsOf
  <1>4. CASE Insert(t)
    <2>1. w = req[t].ws => Held(t) = p
      BY <1>0, <1>1, <1>4, NoneAssumption DEF Insert, Knows, Only, Held
    <2> QED
      BY <1>0, <1>1, <1>2, <1>4, <2>1 DEF Insert, SharedTypeOK
  <1>5. CASE Retarget(t)
    <2>1. cur[t] = p
      BY <1>0, <1>1, <1>5, NoneAssumption DEF Retarget, LocalsOf, Only
    <2> QED
      BY <1>0, <1>5, <2>1 DEF Retarget, Goto, Accounted, LocalTypeOK
  <1>6. CASE Kill(t)
    <2>1. CASE StillReferenced(victim[t]) \/ w # victim[t]
      BY <1>0, <1>1, <1>2, <1>6, <2>1 DEF Kill, StillReferenced, Without
    <2>2. CASE ~StillReferenced(victim[t]) /\ w = victim[t]
      <3>1. cur'[t] = p /\ pc'[t] = "unregisterLast"
        BY <1>0, <1>1, <1>6, <2>2, NoneAssumption DEF Kill, Goto, LocalTypeOK
      <3> QED
        BY <3>1 DEF Accounted
    <2> QED
      BY <2>1, <2>2
  <1>7. CASE SyncPrune(t)
    <2>1. CASE w \in Connected \ todo[t]
      <3>1. p \in doomed'[t]
        BY <1>0, <1>1, <1>7, <2>1 DEF SyncPrune, LocalTypeOK
      <3> QED
        BY <3>1 DEF Accounted
    <2>2. CASE w \notin Connected \ todo[t]
      BY <1>1, <1>2, <1>7, <2>2 DEF SyncPrune, Without
    <2> QED
      BY <2>1, <2>2
  <1>8. CASE sessions' = sessions
    BY <1>1, <1>2, <1>8
  <1> QED
    BY <1>0, <1>3, <1>4, <1>5, <1>6, <1>7, <1>8, StepOn

\* A handler hands a live process on, publishes it, leaks it or kills it.
LEMMA HolderStep ==
    ASSUME PoolInv, KindInv, LocalsInv, NEW t \in Task,
           Lock(t) \/ Step(t) \/ \E r \in Request : Begin(t, r),
           NEW p \in Proc, proc[p] = "live", proc'[p] = "live",
           \/ new[t] = p /\ pc[t] \notin {"reregister", "killOld"}
           \/ cur[t] = p /\ pc[t] \in {"unregisterLast", "killChild", "reregister", "killOld"}
           \/ p \in doomed[t]
    PROVE  Accounted(p)'
  <1>0. /\ TypeInv /\ LocalTypeOK /\ SharedTypeOK /\ LocalsOf(t) /\ Knows(t) /\ KindOf(t)
        /\ Located
    BY DEF PoolInv, TypeInv, TypeOK, LocalsInv, KindInv
  <1>1. CASE new[t] = p /\ pc[t] \notin {"reregister", "killOld"}
    <2>0. pc[t] \in {"initialize", "retarget", "persist", "rollback", "rollbackKill",
                     "attach", "insert"}
      BY <1>0, <1>1, NoneAssumption DEF LocalsOf, Knows, EarlyPc, LockedPc
    <2>1. CASE new'[t] = p /\ pc'[t] \notin {"reregister", "killOld"}
      BY <2>1 DEF Accounted
    <2>2. CASE p \in leaked' \/ \E w \in Workspace : sessions'[w] = p
      BY <2>2, NoneAssumption DEF Accounted, InMap
    <2> USE <1>0, <1>1 DEF Goto, LocalTypeOK, SharedTypeOK
    <2>3. CASE InitializeOk(t)
      BY <2>1, <2>3 DEF InitializeOk, local
    <2>4. CASE InitializeTimeout(t) \/ RollbackKill(t)
      BY <2>4 DEF InitializeTimeout, RollbackKill, Killed
    <2>5. CASE InitializeError(t)
      BY <2>2, <2>5 DEF InitializeError
    <2>6. CASE Persist(t)
      BY <2>1, <2>2, <2>6, NoneAssumption DEF Persist, local
    <2>7. CASE Rollback(t)
      BY <2>1, <2>7, NoneAssumption DEF Rollback, local
    <2>8. CASE Attach(t)
      BY <2>1, <2>8 DEF Attach, local
    <2>9. CASE Insert(t)
      <3>1. req[t].ws \in Workspace
        BY <2>0, RequestFields DEF Located
      <3> QED
        BY <2>2, <2>9, <3>1, NoneAssumption DEF Insert, Held
    <2>10. CASE Retarget(t)
      <3>1. CASE Connected = {}
        BY <2>2, <2>10, <3>1 DEF Retarget
      <3>2. CASE Connected # {}
        BY <2>2, <2>10, <3>2 DEF Retarget, Retargeted, Connected
      <3> QED
        BY <3>1, <3>2
    <2> QED
      BY <2>0, <2>3, <2>4, <2>5, <2>6, <2>7, <2>8, <2>9, <2>10, StepAt
  <1>2. CASE cur[t] = p /\ pc[t] \in {"unregisterLast", "killChild", "reregister", "killOld"}
    <2>1. CASE cur'[t] = p /\ pc'[t] \in {"killChild", "reregister", "killOld"}
      BY <2>1 DEF Accounted
    <2> USE <1>0, <1>2 DEF Goto, LocalTypeOK, SharedTypeOK
    <2>2. CASE Unregister(t)
      BY <2>1, <2>2 DEF Unregister, local
    <2>3. CASE KillChild(t) \/ KillOld(t)
      BY <2>3 DEF KillChild, KillOld, Killed
    <2>4. CASE Reregister(t)
      BY <2>1, <2>4 DEF Reregister
    <2> QED
      BY <2>2, <2>3, <2>4, StepAt
  <1>3. CASE p \in doomed[t]
    <2>1. pc[t] = "syncKill"
      BY <1>0, <1>3 DEF LocalsOf
    <2>2. SyncKill(t)
      BY <2>1, StepAt
    <2>3. p \in doomed'[t]
      BY <1>0, <1>3, <2>2 DEF SyncKill, Killed, LocalTypeOK, SharedTypeOK
    <2> QED
      BY <2>3 DEF Accounted
  <1> QED
    BY <1>1, <1>2, <1>3

LEMMA OrphanNext ==
    ASSUME PoolInv, KindInv, LocalsInv, OrphanInv, [Next]_vars
    PROVE  OrphanInv'
  <1>0. TypeInv /\ LocalTypeOK /\ SharedTypeOK
    BY DEF PoolInv, TypeInv, TypeOK
  <1> SUFFICES ASSUME NEW p \in Proc, proc'[p] = "live" PROVE Accounted(p)'
    BY DEF OrphanInv
  <1>1. ASSUME NEW t \in Task, Lock(t) \/ Step(t) \/ \E r \in Request : Begin(t, r)
        PROVE  Accounted(p)'
    <2>1. SharedMoves(t)
      BY <1>0, <1>1, SharedStep
    <2>2. CASE proc[p] # "live"
      <3>1. Spawn(t) /\ new'[t] = p
        BY <1>1, <2>1, <2>2, StepAt DEF SharedMoves
      <3>2. pc'[t] = "initialize"
        BY <1>0, <2>2, <3>1, NoneAssumption DEF Spawn, Return, Finish, Goto, LocalTypeOK
      <3> QED
        BY <3>1, <3>2 DEF Accounted
    <2>3. CASE proc[p] = "live"
      <3>1. CASE p \in InMap
        BY <1>1, <2>3, <3>1, MapStep
      <3>2. CASE p \in leaked
        <4>1. p \in leaked'
          BY <1>0, <1>1, <3>2, StepOn
        <4> QED
          BY <4>1 DEF Accounted
      <3>3. ASSUME NEW u \in Task,
                   \/ new[u] = p /\ pc[u] \notin {"reregister", "killOld"}
                   \/ /\ cur[u] = p
                      /\ pc[u] \in {"unregisterLast", "killChild", "reregister", "killOld"}
                   \/ p \in doomed[u]
            PROVE  Accounted(p)'
        <4>1. CASE u = t
          BY <1>1, <2>3, <3>3, <4>1, HolderStep
        <4>2. CASE u # t
          <5>1. Same(u)
            BY <1>0, <1>1, <4>2, OthersStay
          <5> QED
            BY <3>3, <5>1 DEF Same, Accounted
        <4> QED
          BY <4>1, <4>2
      <3> QED
        BY <2>3, <3>1, <3>2, <3>3 DEF OrphanInv, Accounted
    <2> QED
      BY <2>2, <2>3
  <1>2. ASSUME NEW q \in Proc, Crash(q) PROVE Accounted(p)'
    BY <1>0, <1>2 DEF Crash, SharedTypeOK, OrphanInv, Accounted, InMap, local
  <1>3. CASE UNCHANGED vars
    BY <1>3 DEF OrphanInv, Accounted, InMap, vars, shared, local
  <1> QED
    BY <1>1, <1>2, <1>3 DEF Next

LEMMA TraceInit == Init => KindInv /\ LocalsInv /\ OrphanInv
  BY DEF Init, KindInv, KindOf, LockedPc, RemovingPc, LocalsInv, LocalsOf, OrphanInv

LEMMA TraceAlways == Spec => [](PoolInv /\ NewStarted /\ KindInv /\ LocalsInv /\ OrphanInv)
  <1>1. Init => PoolInv /\ NewStarted /\ KindInv /\ LocalsInv /\ OrphanInv
    BY PoolInit, TraceInit DEF Init, NewStarted
  <1>2. /\ PoolInv /\ NewStarted /\ KindInv /\ LocalsInv /\ OrphanInv
        /\ [Next]_vars
        => (PoolInv /\ NewStarted /\ KindInv /\ LocalsInv /\ OrphanInv)'
    BY PoolNext, KindNext, LocalsNext, OrphanNext DEF PoolInv
  <1> QED
    BY <1>1, <1>2, PTL DEF Spec, Safety

\* No running app-server is ever lost: a workspace is connected to it, a handler
\* will publish or kill it, or it is one of the known leaks (NoUnknownOrphan).
THEOREM NoProcessIsLost == Spec => []NoUnknownOrphan
  <1>1. OrphanInv => NoUnknownOrphan
    BY DEF OrphanInv, Accounted, NoUnknownOrphan, Holds
  <1> QED
    BY <1>1, TraceAlways, PTL

------------------------------------------------------------------------------
(* A respawn reaches every workspace.                                       *)

\* The process a respawn has started runs with the arguments it was asked for.
ArgsInv ==
    \A t \in Task :
        pc[t] \in {"initialize", "retarget", "reregister", "killOld"} /\ req[t].kind = "args"
            => args[new[t]] = Target(req[t])

LEMMA ArgsNext ==
    ASSUME PoolInv, NewStarted, ArgsInv, [Next]_vars
    PROVE  ArgsInv'
  <1>0. /\ TypeInv /\ LocalTypeOK /\ SharedTypeOK /\ Located
        /\ \A t \in Task : Knows(t)
    BY DEF PoolInv, TypeInv, TypeOK
  <1> DEFINE RespawnPc == {"initialize", "retarget", "reregister", "killOld"}
  <1> SUFFICES ASSUME NEW u \in Task, pc'[u] \in RespawnPc, req'[u].kind = "args"
               PROVE  args'[new'[u]] = Target(req'[u])
    BY DEF ArgsInv, Target
  <1>1. ASSUME pc[u] \in RespawnPc, req'[u] = req[u], new'[u] = new[u],
               args'[new[u]] = args[new[u]]
        PROVE  args'[new'[u]] = Target(req'[u])
    BY <1>1 DEF ArgsInv
  <1>2. ASSUME pc[u] \in RespawnPc, req[u].kind = "args" PROVE new[u] \in Proc /\ proc[new[u]] # "unused"
    BY <1>0, <1>2, NoneAssumption DEF Located, Knows, NewStarted
  <1>3. ASSUME NEW t \in Task, Lock(t) \/ Step(t) \/ \E r \in Request : Begin(t, r)
        PROVE  args'[new'[u]] = Target(req'[u])
    <2>1. SharedMoves(t)
      BY <1>0, <1>3, SharedStep
    <2>2. pc[u] \in RespawnPc /\ req[u].kind = "args" => args'[new[u]] = args[new[u]]
      BY <1>2, <2>1 DEF SharedMoves
    <2>3. CASE u # t
      <3>1. Same(u)
        BY <1>0, <1>3, <2>3, OthersStay
      <3> QED
        BY <1>1, <2>2, <3>1 DEF Same
    <2>4. CASE u = t
      <3> USE <1>0, <2>4 DEF Goto, LocalTypeOK, SharedTypeOK
      <3>1. CASE Spawn(t)
        BY <3>1 DEF Spawn, Return, Finish
      <3>2. CASE InitializeOk(t) \/ Retarget(t) \/ Reregister(t)
        <4>1. pc[t] \in RespawnPc /\ req' = req /\ new' = new
          BY <3>2 DEF InitializeOk, Retarget, Reregister, local
        <4> QED
          BY <1>1, <2>2, <4>1
      <3> QED
        BY <1>3, <3>1, <3>2
        DEF Begin, BeginAttach, BeginAdd, BeginCheckout, BeginRemove,
            BeginRemoveWorktree, BeginSync, Accept, Lock, FirstLocked, Step, Checkout,
            FindSession, Own, OwnCheck, Peek, Check, Prune, SpawnSession,
            InitializeTimeout, InitializeError, Publish, Persist, Rollback, RollbackKill,
            Attach, Insert, Respawn, ReadCurrent, KillOld,
            Remove, NextChild, Kill, AfterKill, Unregister, KillChild, RemoveDir,
            RemoveDirFails, Drop, Sync, SyncSwap, SyncPrune, SyncKill, Return, Finish
    <2> QED
      BY <2>3, <2>4
  <1>4. CASE UNCHANGED <<pc, req, new, args>>
    BY <1>1, <1>4
  <1> QED
    BY <1>3, <1>4 DEF Next, Crash, vars, shared, local

\* When a request for other codex arguments returns with its workspace connected,
\* every connected workspace runs with them (RespawnReachesEveryWorkspace),
\* whatever connects, removals and synchronisations ran meanwhile.
THEOREM RespawnsReachEverybody == Spec => RespawnReachesEveryWorkspace
  <1> DEFINE Reached == \A t \in Task :
                 /\ req[t].kind = "args" /\ pc[t] \in {"readCurrent", "killOld"} /\ pc'[t] = "idle"
                 /\ sessions[req[t].ws] # None
                 => \A w \in Connected : args[sessions[w]] = Target(req[t])
  <1>1. Init => ArgsInv
    BY DEF Init, ArgsInv
  <1>2. Spec => [](PoolInv /\ NewStarted /\ ArgsInv)
    <2>1. PoolInv /\ NewStarted /\ ArgsInv /\ [Next]_vars
          => (PoolInv /\ NewStarted /\ ArgsInv)'
      BY PoolNext, ArgsNext
    <2> QED
      BY <1>1, <2>1, PoolAlways, PTL DEF Spec, Safety
  <1>3. PoolInv /\ ArgsInv /\ [Next]_vars => Reached
    <2> SUFFICES ASSUME PoolInv, ArgsInv, [Next]_vars, NEW t \in Task,
                        req[t].kind = "args", pc[t] \in {"readCurrent", "killOld"},
                        pc'[t] = "idle", sessions[req[t].ws] # None,
                        NEW w \in Connected
                 PROVE  args[sessions[w]] = Target(req[t])
      OBVIOUS
    <2>0. /\ TypeInv /\ LocalTypeOK /\ SharedTypeOK /\ Knows(t) /\ SingleSharedSession
      BY DEF PoolInv, TypeInv, TypeOK
    <2>1. CASE pc[t] = "killOld"
      BY <2>0, <2>1 DEF Knows, Only, Connected, ArgsInv
    <2>2. CASE pc[t] = "readCurrent"
      <3>1. ReadCurrent(t)
        <4>1. PICK u \in Task : Lock(u) \/ Step(u) \/ \E r \in Request : Begin(u, r)
          BY <2>2 DEF Next, Crash, vars
        <4>2. u = t
          BY <2>0, <2>2, <4>1, OthersStay DEF Same
        <4> QED
          BY <2>2, <4>1, <4>2, StepAt
      <3>2. \E p \in InMap : args[p] = Target(req[t])
        BY <2>0, <2>2, <3>1 DEF ReadCurrent, Goto, LocalTypeOK
      <3> QED
        BY <2>0, <3>2 DEF InMap, SingleSharedSession, Connected
    <2> QED
      BY <2>1, <2>2
  <1> QED
    BY <1>2, <1>3, PTL DEF Spec, Safety, RespawnReachesEveryWorkspace

------------------------------------------------------------------------------
(* A failed add leaves no trace.                                            *)

AddingPc == {"checkout", "lock", "peek", "check", "prune", "spawn", "initialize", "persist"}

\* Nobody but a synchronisation, which ignores it, was sent the id of an add.
Unseen(t) ==
    /\ req[t].ws \notin entries
    /\ \A u \in Task \ {t} : req[u].ws = req[t].ws => req[u].kind = "sync"

AddsDiffer ==
    \A t, u \in Task :
        t # u /\ req[t].kind \in AddKinds /\ req[u].kind \in AddKinds => req[t].ws # req[u].ws

\* Until it has been persisted, the id of an add is known to its handler alone;
\* after a failed write it is not connected and will not be read back.
AddOf(t) ==
    /\ req[t].kind \in AddKinds /\ pc[t] \in AddingPc \cup {"rollback", "rollbackKill"} =>
          /\ req[t].ws \notin written
          /\ req[t].kind = "add" => req[t].ws \notin dirs
          /\ sessions[req[t].ws] = None
    /\ req[t].kind \in AddKinds /\ pc[t] \in AddingPc => Unseen(t)
    /\ pc[t] = "rollbackKill" => req[t].ws \notin entries
    /\ pc[t] = "syncSwap" => todo[t] \subseteq written
AddInv == AddsDiffer /\ \A t \in Task : AddOf(t)

LEMMA AddsDifferNext ==
    ASSUME TypeInv, KindInv, AddsDiffer, [Next]_vars
    PROVE  AddsDiffer'
  <1>1. ASSUME NEW t \in Task, Lock(t) \/ Step(t) \/ \E r \in Request : Begin(t, r)
        PROVE  AddsDiffer'
    <2>1. \A u \in Task \ {t} : req'[u] = req[u]
      BY <1>1, OthersStay DEF Same
    <2>2. CASE \E r \in Request : Begin(t, r)
      <3>1. PICK r \in Request : Begin(t, r)
        BY <2>2
      <3>2. r.kind \in AddKinds => \A u \in Task : req[u].ws # r.ws
        BY <3>1 DEF Begin, BeginAttach, BeginAdd, BeginCheckout, BeginRemove,
                    BeginRemoveWorktree, BeginSync, Fresh, AddKinds
      <3>3. req'[t] = r
        BY <3>1 DEF Begin, BeginAttach, BeginAdd, BeginCheckout, BeginRemove,
                    BeginRemoveWorktree, BeginSync, Accept, TypeInv, TypeOK, LocalTypeOK
      <3> QED
        BY <2>1, <3>2, <3>3 DEF AddsDiffer
    <2>3. CASE req'[t] \in {req[t], NoRequest}
      BY <2>1, <2>3 DEF AddsDiffer, NoRequest, AddKinds
    <2>4. req'[t] \in {req[t], NoRequest} \/ \E r \in Request : Begin(t, r)
      BY <1>1, StepOn
    <2> QED
      BY <1>1, <2>2, <2>3, <2>4
  <1>2. CASE UNCHANGED req
    BY <1>2 DEF AddsDiffer
  <1> QED
    BY <1>1, <1>2 DEF Next, Crash, vars, local

\* What another handler's step leaves of it.
LEMMA AddOthers ==
    ASSUME PoolInv, KindInv, AddInv, NEW t \in Task, NEW u \in Task \ {t},
           Lock(t) \/ Step(t) \/ \E r \in Request : Begin(t, r)
    PROVE  AddOf(u)'
  <1>0. /\ TypeInv /\ LocalTypeOK /\ SharedTypeOK /\ LockInv /\ Located
        /\ KindOf(t) /\ KindOf(u) /\ AddsDiffer /\ AddOf(t) /\ AddOf(u)
    BY DEF PoolInv, TypeInv, TypeOK, KindInv, AddInv
  <1>1. Same(u) /\ SharedMoves(t)
    BY <1>0, OthersStay, SharedStep
  <1>2. pc[u] # "idle" => req[u] \in Request /\ req[u].ws \in Workspace
    BY <1>0, RequestFields DEF Located
  <1>3. pc[t] \in LockedPc => pc[u] \notin LockedPc
    BY <1>0 DEF LockInv
  <1>w. written \subseteq written'
    BY <1>1 DEF SharedMoves
  <1>4. ASSUME req[u].kind \in AddKinds, pc[u] \in AddingPc \cup {"rollback", "rollbackKill"}
        PROVE  /\ req[u].ws \notin written'
               /\ req[u].kind = "add" => req[u].ws \notin dirs'
               /\ sessions'[req[u].ws] = None
    <2>1. req[u].ws \notin written'
      <3>1. CASE pc[t] = "persist"
        <4>1. pc[u] \in {"checkout", "lock"} /\ req[t].kind \in AddKinds
          BY <1>0, <1>3, <1>4, <3>1 DEF AddingPc, LockedPc, KindOf
        <4>2. req[u].ws \notin entries \cup {req[t].ws}
          BY <1>0, <1>4, <4>1 DEF AddOf, Unseen, AddsDiffer, AddingPc
        <4> QED
          BY <1>0, <1>1, <1>4, <3>1, <4>2 DEF AddOf, SharedMoves
      <3> QED
        BY <1>0, <1>1, <1>4, <3>1 DEF AddOf, SharedMoves
    <2>2. req[u].kind = "add" => req[u].ws \notin dirs'
      <3>1. pc[t] = "checkout" => req[t].ws # req[u].ws
        BY <1>0, <1>4 DEF KindOf, AddsDiffer
      <3> QED
        BY <1>0, <1>1, <1>4, <3>1 DEF AddOf, SharedMoves
    <2>3. sessions'[req[u].ws] = None
      <3>0. sessions[req[u].ws] = None /\ req[u].ws \in Workspace
        BY <1>0, <1>2, <1>4 DEF AddOf, AddingPc
      <3>1. pc[t] = "insert" => req[t].ws # req[u].ws
        <4> SUFFICES ASSUME pc[t] = "insert" PROVE req[t].ws # req[u].ws
          OBVIOUS
        <4>1. pc[u] \in {"checkout", "lock"} /\ req[t].kind \in AddKinds \cup {"connect"}
          BY <1>0, <1>3, <1>4 DEF AddingPc, LockedPc, KindOf
        <4> QED
          BY <1>0, <1>4, <4>1 DEF AddOf, Unseen, AddsDiffer, AddingPc, AddKinds
      <3> QED
        BY <1>1, <3>0, <3>1 DEF SharedMoves
    <2> QED
      BY <2>1, <2>2, <2>3
  <1>5. ASSUME req[u].kind \in AddKinds, pc[u] \in AddingPc PROVE Unseen(u)'
    <2>0. Unseen(u) /\ req[u].ws \notin written /\ req[u].ws \in Workspace
      BY <1>0, <1>2, <1>5 DEF AddOf, AddingPc
    <2>1. req[u].ws \notin entries'
      <3>1. pc[t] = "persist" => req[t].ws # req[u].ws
        BY <1>0, <1>5 DEF KindOf, AddsDiffer
      <3>2. pc[t] = "syncSwap" => todo[t] \subseteq written
        BY <1>0 DEF AddOf
      <3> QED
        BY <1>1, <2>0, <3>1, <3>2 DEF SharedMoves, Unseen
    <2>2. req'[t].ws = req[u].ws => req'[t].kind = "sync"
      <3>1. CASE \E r \in Request : Begin(t, r)
        <4>1. PICK r \in Request : Begin(t, r)
          BY <3>1
        <4>2. req'[t] = r
          BY <1>0, <4>1 DEF Begin, BeginAttach, BeginAdd, BeginCheckout, BeginRemove,
                      BeginRemoveWorktree, BeginSync, Accept, LocalTypeOK
        <4> QED
          BY <2>0, <4>1, <4>2
          DEF Begin, BeginAttach, BeginAdd, BeginCheckout, BeginRemove,
              BeginRemoveWorktree, BeginSync, Fresh, Unseen
      <3>2. CASE req'[t] = NoRequest
        BY <2>0, <3>2, NoneAssumption DEF NoRequest
      <3>3. CASE req'[t] = req[t]
        BY <2>0, <3>3 DEF Unseen
      <3>4. req'[t] \in {req[t], NoRequest} \/ \E r \in Request : Begin(t, r)
        BY <1>0, StepOn
      <3> QED
        BY <3>1, <3>2, <3>3, <3>4
    <2>3. ASSUME NEW v \in Task \ {u}, v # t PROVE req'[v] = req[v]
      BY <1>0, <2>3, OthersStay DEF Same
    <2> QED
      BY <1>1, <2>0, <2>1, <2>2, <2>3 DEF Unseen, Same
  <1>6. pc[u] = "rollbackKill" => req[u].ws \notin entries'
    <2> SUFFICES ASSUME pc[u] = "rollbackKill" PROVE req[u].ws \notin entries'
      OBVIOUS
    <2>1. pc[t] # "persist" /\ req[u].kind \in AddKinds
      BY <1>0, <1>3 DEF LockedPc, KindOf
    <2>2. req[u].ws \notin written /\ req[u].ws \notin entries
      BY <1>0, <2>1 DEF AddOf
    <2>3. pc[t] = "syncSwap" => todo[t] \subseteq written
      BY <1>0 DEF AddOf
    <2> QED
      BY <1>1, <2>1, <2>2, <2>3 DEF SharedMoves
  <1>7. pc[u] = "syncSwap" => todo[u] \subseteq written'
    BY <1>0, <1>w DEF AddOf
  <1> QED
    BY <1>1, <1>4, <1>5, <1>6, <1>7 DEF AddOf, Unseen, Same

\* What a handler's own step leaves of it.
LEMMA AddOwn ==
    ASSUME PoolInv, KindInv, AddInv, NEW t \in Task,
           Lock(t) \/ Step(t) \/ \E r \in Request : Begin(t, r)
    PROVE  AddOf(t)'
  <1>0. /\ TypeInv /\ LocalTypeOK /\ SharedTypeOK /\ Located /\ KindInv /\ KindOf(t) /\ AddOf(t)
    BY DEF PoolInv, TypeInv, TypeOK, KindInv, AddInv
  <1>1. \A u \in Task \ {t} : req'[u] = req[u]
    BY <1>0, OthersStay DEF Same
  <1>w. pc[t] # "idle" => req[t].ws \in Workspace
    BY <1>0, RequestFields DEF Located
  <1> USE <1>0 DEF LocalTypeOK
  <1>2. ASSUME pc'[t] \notin AddingPc \cup {"rollback", "rollbackKill", "syncSwap"}
        PROVE  AddOf(t)'
    BY <1>2 DEF AddOf, AddingPc
  <1>c. ASSUME req' = req, req[t].kind \notin AddKinds,
               pc'[t] \notin {"rollbackKill", "syncSwap"}
        PROVE  AddOf(t)'
    BY <1>c DEF AddOf
  <1>3. ASSUME req' = req, pc[t] \in AddingPc, pc'[t] \in AddingPc,
               entries' = entries, written' = written, dirs' = dirs,
               \A w \in Workspace : sessions'[w] \in {sessions[w], None}
        PROVE  AddOf(t)'
    <2>1. req[t].ws \in Workspace
      BY <1>3, <1>w DEF AddingPc
    <2> QED
      BY <1>3, <2>1 DEF AddOf, Unseen, AddingPc
  <1>4. CASE \E r \in Request : Begin(t, r)
    <2>1. PICK r \in Request : Begin(t, r)
      BY <1>4
    <2>2. CASE BeginAttach(t, r) \/ BeginRemove(t, r) \/ BeginRemoveWorktree(t, r)
      BY <2>2 DEF BeginAttach, BeginRemove, BeginRemoveWorktree, Accept, Goto, AddOf,
                  AddKinds, AddingPc
    <2>3. CASE BeginSync(t, r)
      BY <2>3 DEF BeginSync, Accept, Goto, AddOf, AddKinds, AddingPc, shared
    <2>4. CASE BeginAdd(t, r) \/ BeginCheckout(t, r)
      <3>1. /\ Fresh(r.ws) /\ req'[t] = r /\ pc'[t] \in {"lock", "checkout"}
            /\ UNCHANGED shared
        BY <2>4 DEF BeginAdd, BeginCheckout, Accept, Goto
      <3>2. sessions[r.ws] = None
        BY <3>1, RequestFields DEF Fresh, Connected
      <3> QED
        BY <1>1, <3>1, <3>2 DEF Fresh, AddOf, Unseen, AddingPc, shared
    <2> QED
      BY <2>1, <2>2, <2>3, <2>4 DEF Begin
  <1>f. Finish(t) => AddOf(t)'
    BY <1>2 DEF Finish, Goto, AddingPc
  <1>5. CASE Lock(t) \/ Checkout(t)
    <2>1. CASE Lock(t)
      <3>1. pc'[t] \in {"own", "readCurrent", "peek"}
        BY <2>1 DEF Lock, FirstLocked, Goto
      <3> QED
        BY <1>2, <1>3, <2>1, <3>1 DEF Lock, shared, local, AddingPc
    <2>2. CASE Checkout(t)
      <3>1. CASE /\ dirs' = dirs \cup {req[t].ws} /\ Goto(t, "lock") /\ UNCHANGED local
        <4>1. req[t].kind \in AddKinds \ {"add"} /\ Unseen(t)
          BY <2>2 DEF Checkout, KindOf, AddOf, AddingPc
        <4> QED
          BY <2>2, <3>1, <4>1 DEF Checkout, Goto, local, AddOf, Unseen, AddingPc
      <3> QED
        BY <1>f, <2>2, <3>1 DEF Checkout
    <2> QED
      BY <1>5, <2>1, <2>2
  <1>6. CASE Own(t) \/ OwnCheck(t) \/ Peek(t) \/ Check(t)
    <2>1. CASE Own(t) \/ OwnCheck(t)
      BY <1>c, <1>f, <2>1
      DEF Own, OwnCheck, Goto, Return, shared, local, KindOf, AddKinds
    <2>2. CASE Peek(t)
      BY <1>3, <2>2 DEF Peek, Goto, shared, AddingPc
    <2>3. CASE Check(t)
      <3>1. CASE Goto(t, "attach")
        BY <1>2, <3>1 DEF Goto, AddingPc
      <3>2. ASSUME NEW label \in {"prune", "persist"}, Goto(t, label) PROVE AddOf(t)'
        BY <1>3, <2>3, <3>2 DEF Check, Goto, shared, local, AddingPc
      <3> QED
        BY <2>3, <3>1, <3>2 DEF Check
    <2> QED
      BY <1>6, <2>1, <2>2, <2>3
  <1>7. CASE Prune(t)
    BY <1>3, <1>7 DEF Prune, Goto, local, AddingPc, Without
  <1>8. CASE Spawn(t)
    <2>1. CASE Return(t)
      BY <1>f, <2>1 DEF Return
    <2>2. CASE Goto(t, "initialize") /\ UNCHANGED <<dirs, lock, req, cur, removal>>
      BY <1>3, <1>8, <2>2 DEF Spawn, Goto, AddingPc
    <2> QED
      BY <1>8, <2>1, <2>2 DEF Spawn
  <1>9. CASE InitializeOk(t)
    <2>1. CASE Goto(t, "attach") \/ Goto(t, "retarget")
      BY <1>2, <2>1 DEF Goto, AddingPc
    <2>2. CASE Goto(t, "persist")
      BY <1>3, <1>9, <2>2 DEF InitializeOk, Goto, shared, local, AddingPc
    <2> QED
      BY <1>9, <2>1, <2>2 DEF InitializeOk
  <1>10. CASE InitializeTimeout(t) \/ InitializeError(t)
    BY <1>10, <1>f DEF InitializeTimeout, InitializeError, Return
  <1>11. CASE Persist(t)
    <2>1. CASE Return(t)
      BY <1>f, <2>1 DEF Return
    <2>2. CASE Goto(t, "attach")
      BY <1>2, <2>2 DEF Goto, AddingPc
    <2>3. CASE Goto(t, "rollback") /\ UNCHANGED <<written, leaked, lock, local>>
      BY <1>11, <2>3 DEF Persist, Goto, local, AddOf, AddingPc
    <2> QED
      BY <1>11, <2>1, <2>2, <2>3 DEF Persist
  <1>12. CASE Rollback(t)
    <2>1. CASE Goto(t, "rollbackKill") /\ UNCHANGED <<dirs, lock, local>>
      BY <1>12, <2>1 DEF Rollback, Goto, local, AddOf, AddingPc
    <2> QED
      BY <1>12, <1>f, <2>1 DEF Rollback, Return
  <1>13. CASE RollbackKill(t) \/ Insert(t)
    BY <1>13, <1>f DEF RollbackKill, Insert, Return
  <1>14. CASE Attach(t)
    BY <1>2, <1>14 DEF Attach, Goto, AddingPc
  <1>15. CASE Respawn(t)
    <2>1. req[t].kind \notin AddKinds
      BY <1>15 DEF Respawn, ReadCurrent, Retarget, Reregister, KillOld, KindOf, AddKinds
    <2>2. Finish(t) \/ (req' = req /\ pc'[t] \notin {"syncSwap", "rollbackKill"})
      BY <1>15 DEF Respawn, ReadCurrent, Retarget, Reregister, KillOld, Goto, Return
    <2> QED
      BY <1>c, <1>f, <2>1, <2>2
  <1>16. CASE Remove(t) \/ Sync(t)
    <2>1. Finish(t) \/ pc'[t] \in RemovingPc \cup {"nextChild", "syncPrune", "syncKill"}
      BY <1>16 DEF Remove, NextChild, Kill, AfterKill, Unregister, KillChild, RemoveDir,
                   RemoveDirFails, Drop, Sync, SyncSwap, SyncPrune, SyncKill, Goto, RemovingPc
    <2> QED
      BY <1>2, <1>f, <2>1 DEF AddingPc, RemovingPc
  <1> QED
    BY <1>4, <1>5, <1>6, <1>7, <1>8, <1>9, <1>10, <1>11, <1>12, <1>13, <1>14, <1>15, <1>16
    DEF Step, FindSession, SpawnSession, Publish

LEMMA AddNext ==
    ASSUME PoolInv, KindInv, AddInv, [Next]_vars
    PROVE  AddInv'
  <1>1. AddsDiffer'
    BY AddsDifferNext DEF PoolInv, AddInv
  <1>2. ASSUME NEW t \in Task, Lock(t) \/ Step(t) \/ \E r \in Request : Begin(t, r)
        PROVE  \A u \in Task : AddOf(u)'
    BY <1>2, AddOthers, AddOwn
  <1>3. ASSUME UNCHANGED <<entries, written, dirs, sessions, pc, req, todo>>
        PROVE  \A u \in Task : AddOf(u)'
    BY <1>3 DEF AddInv, AddOf, Unseen
  <1> QED
    BY <1>1, <1>2, <1>3 DEF AddInv, Next, Crash, vars, shared, local

\* An add, clone or git-url request that fails under the lock leaves no entry, no
\* session, no checkout and no running process (FailedAddLeavesNoTrace).
THEOREM FailedAddsLeaveNoTrace == Spec => FailedAddLeavesNoTrace
  <1> DEFINE Clean == \A t \in Task :
         FailedAdd(t) =>
            /\ req[t].ws \notin entries' \cup dirs'
            /\ sessions'[req[t].ws] = None
            /\ new[t] # None => proc'[new[t]] # "live" \/ new[t] \in leaked'
  <1>1. Init => AddInv
    BY DEF Init, AddInv, AddsDiffer, AddOf, AddingPc, NoRequest, AddKinds
  <1>2. Spec => [](PoolInv /\ NewStarted /\ KindInv /\ AddInv)
    <2>1. Init => KindInv
      BY TraceInit
    <2>2. PoolInv /\ NewStarted /\ KindInv /\ AddInv /\ [Next]_vars
          => (PoolInv /\ NewStarted /\ KindInv /\ AddInv)'
      BY PoolNext, KindNext, AddNext DEF PoolInv
    <2> QED
      BY <1>1, <2>1, <2>2, PoolAlways, PTL DEF Spec, Safety
  <1>3. PoolInv /\ KindInv /\ AddInv /\ [Next]_vars => Clean
    <2> SUFFICES ASSUME PoolInv, KindInv, AddInv, [Next]_vars, NEW t \in Task, FailedAdd(t)
                 PROVE  /\ req[t].ws \notin entries' \cup dirs'
                        /\ sessions'[req[t].ws] = None
                        /\ new[t] # None => proc'[new[t]] # "live" \/ new[t] \in leaked'
      OBVIOUS
    <2>0. /\ LocalTypeOK /\ SharedTypeOK /\ TypeInv /\ Located /\ Knows(t) /\ AddOf(t)
          /\ pc[t] \in {"spawn", "initialize", "rollback", "rollbackKill"} /\ pc'[t] = "idle"
          /\ req[t].kind \in {"add", "clone", "gitUrl"}
      BY DEF PoolInv, TypeInv, TypeOK, AddInv, FailedAdd, AddKinds
    <2>1. /\ sessions[req[t].ws] = None
          /\ req[t].kind = "add" => req[t].ws \notin dirs
          /\ pc[t] \in {"spawn", "initialize", "rollbackKill"} => req[t].ws \notin entries
      BY <2>0 DEF AddOf, Unseen, AddingPc, AddKinds
    <2>2. PICK u \in Task : Lock(u) \/ Step(u) \/ \E r \in Request : Begin(u, r)
      BY <2>0 DEF Next, Crash, vars
    <2>3. u = t
      BY <2>0, <2>2, OthersStay DEF Same
    <2>4. Spawn(t) \/ InitializeOk(t) \/ InitializeTimeout(t) \/ InitializeError(t)
          \/ Rollback(t) \/ RollbackKill(t)
      BY <2>0, <2>2, <2>3, StepAt
    <2>5. req[t].ws \notin DirsAfterFailure(t)
      BY <2>0, <2>1 DEF DirsAfterFailure
    <2> USE <2>0, <2>1, <2>5 DEF Goto, LocalTypeOK, SharedTypeOK
    <2>6. CASE Spawn(t)
      BY <2>6 DEF Spawn, Knows, EarlyPc
    <2>7. CASE InitializeOk(t)
      BY <2>7 DEF InitializeOk
    <2>8. CASE InitializeTimeout(t) \/ RollbackKill(t)
      BY <2>8 DEF InitializeTimeout, RollbackKill, Killed
    <2>9. CASE InitializeError(t)
      BY <2>9 DEF InitializeError
    <2>10. CASE Rollback(t)
      BY <2>10 DEF Rollback
    <2> QED
      BY <2>4, <2>6, <2>7, <2>8, <2>9, <2>10
  <1> QED
    BY <1>2, <1>3, PTL DEF Spec, Safety, FailedAddLeavesNoTrace

-----------------------------------------------------------------------------
(***************************************************************************)
(* Where no request synchronises the pool with workspaces.json, which only *)
(* the daemon does: a connected workspace is served by the process it      *)
(* points at, and a worktree is not stranded.                              *)
(***************************************************************************)
\* The requests of the desktop application.
SyncFree == \A r \in Request : r.kind # "sync"

\* What the steps of a handler change of the sets and histories that say who
\* is served.
ServedMoves(t) ==
    /\ \A p \in Proc, w \in Workspace :
          w \in wsIds[p] /\ proc[p] # "unused" =>
             \/ w \in wsIds'[p]
             \/ /\ pc[t] \in {"unregisterShared", "unregisterLast"}
                /\ p = cur[t] /\ w = victim[t]
    /\ \/ late' = late
       \/ Attach(t)
       \/ Insert(t) /\ late \subseteq late'
       \/ Retarget(t) /\ late' = {}
    /\ \A p \in Proc : proc'[p] = "killed" =>
          \/ proc[p] = "killed"
          \/ pc[t] \in {"initialize", "rollbackKill"} /\ p = new[t]
          \/ pc[t] \in {"killOld", "killChild"} /\ p = cur[t]
          \/ pc[t] = "syncKill"

LEMMA ServedStep ==
    ASSUME TypeInv, NEW t \in Task,
           Lock(t) \/ Step(t) \/ \E r \in Request : Begin(t, r)
    PROVE  ServedMoves(t)
  <1> USE DEF TypeInv, TypeOK, LocalTypeOK, SharedTypeOK
  <1> USE DEF ServedMoves, shared, Killed
  <1>1. CASE \E r \in Request : Begin(t, r)
    BY <1>1 DEF Begin, BeginAttach, BeginAdd, BeginCheckout, BeginRemove,
                BeginRemoveWorktree, BeginSync
  <1>2. CASE Lock(t) \/ Checkout(t)
    BY <1>2 DEF Lock, Checkout
  <1>3. CASE FindSession(t)
    BY <1>3 DEF FindSession, Own, OwnCheck, Peek, Check, Prune
  <1>4. CASE SpawnSession(t)
    BY <1>4 DEF SpawnSession, Spawn, InitializeOk, InitializeTimeout, InitializeError
  <1>5. CASE Publish(t)
    BY <1>5 DEF Publish, Persist, Rollback, RollbackKill, Attach, Insert
  <1>6. CASE Respawn(t)
    BY <1>6 DEF Respawn, ReadCurrent, Retarget, Reregister, KillOld
  <1>7. CASE Remove(t)
    BY <1>7 DEF Remove, NextChild, Kill, Unregister, KillChild, RemoveDir,
                RemoveDirFails, Drop
  <1>8. CASE Sync(t)
    BY <1>8 DEF Sync, SyncSwap, SyncPrune, SyncKill
  <1> QED
    BY <1>1, <1>2, <1>3, <1>4, <1>5, <1>6, <1>7, <1>8 DEF Step

------------------------------------------------------------------------------
(* The strengthening.  A removal takes an id out of the map in one step and *)
(* unregisters it, and kills the process, in later ones; these invariants   *)
(* say what the handlers that publish sessions meanwhile may rely on.       *)

\* The workspace a lock holder is going to publish is not connected yet.
Unpublished(t) ==
    pc[t] \in {"peek", "check", "spawn", "initialize", "persist", "attach", "insert"}
        /\ req[t].kind # "args" => sessions[req[t].ws] = None

\* Nobody else knows of a process before it is published: it is not killed.
Private(t) ==
    pc[t] \in {"initialize", "retarget"} =>
        proc[new[t]] # "killed" /\ \A u \in Task : cur[u] # new[t]

\* Nothing refers to a process a removal has given up, but late arrivals.
GivenUpOf(t) ==
    /\ pc[t] \in {"unregisterShared", "unregisterLast", "killChild"} => cur[t] \in Proc
    /\ pc[t] \in {"unregisterLast", "killChild"} =>
          \A w \in Workspace \ late : sessions[w] # cur[t]

\* An id that is being unregistered has not come back to the same session.
UnregisteredOf(t) ==
    pc[t] \in {"unregisterShared", "unregisterLast"} =>
        victim[t] \in late \/ sessions[victim[t]] # cur[t]

\* A workspace about to be published is registered and will stay so.
InsertedOf(t) ==
    pc[t] = "insert" /\ req[t].ws \notin late =>
        req[t].ws \in wsIds[Held(t)] /\ ~BeingUnregistered(req[t].ws)

ServedInv ==
    /\ \A t \in Task : /\ Unpublished(t) /\ Private(t) /\ GivenUpOf(t)
                       /\ UnregisteredOf(t) /\ InsertedOf(t)
    /\ ConnectedIsServed

\* What is known of the pool before each step.
Ground == PoolInv /\ NewStarted /\ KindInv /\ LocalsInv /\ AddInv

LEMMA GroundFacts ==
    ASSUME SyncFree, Ground
    PROVE  /\ TypeInv /\ LocalTypeOK /\ SharedTypeOK /\ Located /\ LockInv /\ Started
           /\ NewStarted /\ KindInv
           /\ \A t \in Task : /\ Knows(t) /\ KindOf(t) /\ LocalsOf(t) /\ AddOf(t)
                              /\ pc[t] \notin {"syncSwap", "syncPrune", "syncKill"}
                              /\ pc[t] # "idle" => req[t].ws \in Workspace
  <1>1. /\ TypeInv /\ LocalTypeOK /\ SharedTypeOK /\ Located /\ LockInv /\ Started
        /\ NewStarted /\ KindInv
        /\ \A t \in Task : Knows(t) /\ KindOf(t) /\ LocalsOf(t) /\ AddOf(t)
    BY DEF Ground, PoolInv, TypeInv, TypeOK, KindInv, LocalsInv, AddInv
  <1>2. ASSUME NEW t \in Task, pc[t] # "idle" PROVE req[t].ws \in Workspace /\ req[t].kind # "sync"
    BY <1>1, <1>2, RequestFields DEF Located, SyncFree
  <1> QED
    BY <1>1, <1>2 DEF KindOf

LEMMA UnpublishedNext ==
    ASSUME SyncFree, Ground, ServedInv, NEW t \in Task,
           Lock(t) \/ Step(t) \/ \E r \in Request : Begin(t, r), NEW u \in Task
    PROVE  Unpublished(u)'
  <1>0. /\ TypeInv /\ LocalTypeOK /\ LockInv /\ Located /\ Knows(t) /\ KindOf(t) /\ AddOf(t)
        /\ Unpublished(u) /\ (pc[u] # "idle" => req[u].ws \in Workspace)
    BY GroundFacts DEF ServedInv
  <1>1. SharedMoves(t)
    BY <1>0, SharedStep
  <1>2. CASE u # t
    <2>1. Same(u)
      BY <1>0, <1>2, OthersStay
    <2>2. pc[u] \in LockedPc => pc[t] \notin {"insert", "retarget"}
      BY <1>0, <1>2 DEF LockInv, LockedPc
    <2>3. pc[u] \in LockedPc /\ sessions[req[u].ws] = None => sessions'[req[u].ws] = None
      BY <1>0, <1>1, <2>2 DEF SharedMoves, LockedPc
    <2> QED
      BY <1>0, <2>1, <2>3 DEF Unpublished, Same, LockedPc
  <1>3. CASE u = t
    <2> USE <1>0, <1>3 DEF Goto, LocalTypeOK, Unpublished
    <2>f. Finish(t) => Unpublished(t)'
      BY DEF Finish
    <2>1. CASE \E r \in Request : Begin(t, r)
      BY <2>1 DEF Begin, BeginAttach, BeginAdd, BeginCheckout, BeginRemove,
                  BeginRemoveWorktree, BeginSync, Accept
    <2>2. CASE Lock(t)
      BY <2>2 DEF Lock, FirstLocked, local, shared, KindOf, AddOf, AddingPc
    <2>3. CASE Own(t) \/ OwnCheck(t) \/ Peek(t) \/ Check(t)
      BY <2>3, <2>f DEF Own, OwnCheck, Peek, Check, Return, local, shared
    <2>4. CASE Prune(t)
      <3>1. \A w \in Workspace : sessions'[w] = None
        BY <2>4 DEF Prune, Knows, Only, Without
      <3> QED
        BY <2>4, <3>1 DEF Prune, local
    <2>5. CASE SpawnSession(t)
      BY <2>5, <2>f DEF SpawnSession, Spawn, InitializeOk, InitializeTimeout,
                        InitializeError, Return, local, shared
    <2>6. CASE Publish(t)
      BY <2>6, <2>f DEF Publish, Persist, Rollback, RollbackKill, Attach, Insert, Return, local
    <2>7. CASE Respawn(t)
      BY <2>7, <2>f DEF Respawn, ReadCurrent, Retarget, Reregister, KillOld, Return, shared, KindOf
    <2>8. CASE Remove(t)
      BY <2>8, <2>f DEF Remove, NextChild, Kill, AfterKill, Unregister, KillChild, RemoveDir,
                        RemoveDirFails, Drop, local, removal
    <2>9. CASE Sync(t) \/ Checkout(t)
      BY <2>9, <2>f DEF Sync, SyncSwap, SyncPrune, SyncKill, Checkout
    <2> QED
      BY <2>1, <2>2, <2>3, <2>4, <2>5, <2>6, <2>7, <2>8, <2>9 DEF Step, FindSession
  <1> QED
    BY <1>2, <1>3

LEMMA PrivateNext ==
    ASSUME SyncFree, Ground, ServedInv, NEW t \in Task,
           Lock(t) \/ Step(t) \/ \E r \in Request : Begin(t, r), NEW u \in Task
    PROVE  Private(u)'
  <1>0. /\ TypeInv /\ LocalTypeOK /\ SharedTypeOK /\ LockInv /\ Located /\ Started /\ NewStarted
        /\ Knows(t) /\ KindOf(t) /\ LocalsOf(u) /\ Knows(u) /\ Private(u) /\ Private(t)
        /\ pc[t] \notin {"syncSwap", "syncPrune", "syncKill"}
    BY GroundFacts DEF ServedInv
  <1>1. SharedMoves(t) /\ ServedMoves(t)
    BY <1>0, SharedStep, ServedStep
  <1>2. CASE u # t
    <2> SUFFICES ASSUME pc[u] \in {"initialize", "retarget"}
                 PROVE  proc'[new[u]] # "killed" /\ \A v \in Task : cur'[v] # new[u]
      BY <1>0, <1>2, OthersStay DEF Same, Private
    <2>0. new[u] \in Proc /\ lock = u /\ pc[t] \notin LockedPc
          /\ proc[new[u]] # "killed" /\ \A v \in Task : cur[v] # new[u]
      BY <1>0, <1>2 DEF Private, Located, LockInv, LockedPc
    <2>1. proc'[new[u]] # "killed"
      BY <1>0, <1>1, <2>0 DEF ServedMoves, LockedPc
    <2>2. cur'[t] # new[u]
      <3>1. CASE Kill(t)
        <4>1. victim[t] \in Workspace /\ cur'[t] = sessions[victim[t]]
          BY <1>0, <3>1 DEF Kill, Located, KillPc, LocalTypeOK
        <4>2. Only(cur[u]) \/ Only(None)
          BY <1>0 DEF LocalsOf, Knows, KindOf
        <4> QED
          BY <1>0, <2>0, <4>1, <4>2, NoneAssumption DEF Only
      <3>2. CASE cur' = cur \/ Finish(t)
        BY <1>0, <2>0, <3>2, NoneAssumption DEF Finish, LocalTypeOK
      <3> QED
        BY <1>0, <2>0, <3>1, <3>2, StepOn DEF Own, Peek, ReadCurrent, LockedPc
    <2>3. ASSUME NEW v \in Task \ {t} PROVE cur'[v] # new[u]
      BY <1>0, <2>0, <2>3, OthersStay DEF Same
    <2> QED
      BY <2>1, <2>2, <2>3
  <1>3. CASE u = t
    <2> SUFFICES ASSUME pc'[t] \in {"initialize", "retarget"} PROVE Private(t)'
      BY <1>3 DEF Private
    <2>1. CASE Spawn(t)
      <3>1. PICK p \in Proc : /\ proc[p] = "unused" /\ proc' = [proc EXCEPT ![p] = "live"]
                              /\ new' = [new EXCEPT ![t] = p] /\ cur' = cur
        BY <1>0, <2>1 DEF Spawn, Return, Finish, Goto, LocalTypeOK
      <3>2. \A v \in Task : cur[v] # p
        BY <1>0, <3>1, NoneAssumption DEF Started
      <3> QED
        BY <1>0, <3>1, <3>2 DEF Private, LocalTypeOK, SharedTypeOK
    <2>2. CASE InitializeOk(t)
      BY <1>0, <2>2 DEF InitializeOk, Private, local, shared
    <2> QED
      BY <1>0, <2>1, <2>2, StepTo
  <1> QED
    BY <1>2, <1>3

\* How the histories of late arrivals and the map change together.
LEMMA LateMoves ==
    ASSUME SyncFree, Ground, ServedInv, NEW t \in Task,
           Lock(t) \/ Step(t) \/ \E r \in Request : Begin(t, r),
           NEW w \in Workspace, w \notin late', sessions'[w] # None
    PROVE  \/ w \notin late /\ sessions'[w] = sessions[w]
           \/ Insert(t) /\ w = req[t].ws /\ sessions'[w] = Held(t) /\ w \notin late
              /\ ~GivenUp(Held(t))
           \/ Retarget(t) /\ sessions'[w] = new[t]
  <1>0. /\ TypeInv /\ SharedTypeOK /\ LocalTypeOK /\ KindOf(t) /\ Unpublished(t)
        /\ (pc[t] # "idle" => req[t].ws \in Workspace)
    BY GroundFacts DEF ServedInv
  <1>1. SharedMoves(t) /\ ServedMoves(t)
    BY <1>0, SharedStep, ServedStep
  <1>2. CASE Attach(t)
    BY <1>0, <1>2 DEF Attach, KindOf, Unpublished
  <1>3. CASE Insert(t)
    BY <1>0, <1>3 DEF Insert, SharedTypeOK
  <1>4. CASE Retarget(t)
    BY <1>4 DEF Retarget, Retargeted
  <1>5. CASE late' = late /\ sessions'[w] = sessions[w]
    BY <1>5
  <1>6. sessions'[w] = sessions[w] \/ pc[t] \in {"insert", "retarget"}
    BY <1>1 DEF SharedMoves
  <1> QED
    BY <1>0, <1>1, <1>2, <1>3, <1>4, <1>5, <1>6, StepOn, StepAt

LEMMA GivenUpNext ==
    ASSUME SyncFree, Ground, ServedInv, NEW t \in Task,
           Lock(t) \/ Step(t) \/ \E r \in Request : Begin(t, r), NEW u \in Task
    PROVE  GivenUpOf(u)'
  <1>0. /\ TypeInv /\ LocalTypeOK /\ SharedTypeOK /\ LockInv /\ Located
        /\ Private(t) /\ GivenUpOf(u)
    BY GroundFacts DEF ServedInv
  <1>1. CASE u # t
    <2>1. Same(u)
      BY <1>0, <1>1, OthersStay
    <2>2. ASSUME pc[u] \in {"unregisterLast", "killChild"}, NEW w \in Workspace, w \notin late'
          PROVE  sessions'[w] # cur[u]
      <3>0. cur[u] \in Proc /\ cur[u] # None
        BY <1>0, <2>2, NoneAssumption DEF GivenUpOf
      <3>1. CASE sessions'[w] = None
        BY <3>0, <3>1
      <3>2. CASE w \notin late /\ sessions'[w] = sessions[w]
        BY <1>0, <2>2, <3>2 DEF GivenUpOf
      <3>3. CASE sessions'[w] = Held(t) /\ ~GivenUp(Held(t))
        BY <2>2, <3>3 DEF GivenUp
      <3>4. CASE Retarget(t) /\ sessions'[w] = new[t]
        BY <1>0, <3>4 DEF Retarget, Private
      <3> QED
        BY <2>2, <3>1, <3>2, <3>3, <3>4, LateMoves
    <2> QED
      BY <1>0, <2>1, <2>2 DEF GivenUpOf, Same
  <1>2. CASE u = t
    <2> SUFFICES ASSUME pc'[t] \in {"unregisterShared", "unregisterLast", "killChild"}
                 PROVE  GivenUpOf(t)'
      BY <1>2 DEF GivenUpOf
    <2>1. CASE Kill(t)
      <3>1. victim[t] \in Workspace
        BY <1>0, <2>1 DEF Located, Kill, KillPc
      <3>2. /\ cur'[t] = sessions[victim[t]] /\ cur'[t] # None
            /\ pc'[t] = "unregisterLast" => ~StillReferenced(victim[t])
        BY <1>0, <2>1 DEF Kill, AfterKill, Goto, LocalTypeOK
      <3>3. ASSUME NEW w \in Workspace, pc'[t] = "unregisterLast" PROVE sessions'[w] # cur'[t]
        BY <2>1, <3>1, <3>2, <3>3 DEF Kill, Without, StillReferenced
      <3>4. pc'[t] # "killChild"
        BY <1>0, <2>1 DEF Kill, AfterKill, Goto, LocalTypeOK
      <3> QED
        BY <1>0, <3>1, <3>2, <3>3, <3>4 DEF GivenUpOf, SharedTypeOK
    <2>2. CASE Unregister(t)
      BY <1>0, <1>2, <2>2 DEF Unregister, AfterKill, Goto, GivenUpOf, local, LocalTypeOK
    <2> QED
      BY <1>0, <2>1, <2>2, StepTo
  <1> QED
    BY <1>1, <1>2

LEMMA UnregisteredNext ==
    ASSUME SyncFree, Ground, ServedInv, NEW t \in Task,
           Lock(t) \/ Step(t) \/ \E r \in Request : Begin(t, r), NEW u \in Task
    PROVE  UnregisteredOf(u)'
  <1>0. /\ TypeInv /\ LocalTypeOK /\ SharedTypeOK /\ LockInv /\ Located
        /\ Private(t) /\ GivenUpOf(u) /\ UnregisteredOf(u) /\ InsertedOf(t)
    BY GroundFacts DEF ServedInv
  <1>1. CASE u # t
    <2>1. Same(u)
      BY <1>0, <1>1, OthersStay
    <2>2. ASSUME pc[u] \in {"unregisterShared", "unregisterLast"}, victim[u] \notin late'
          PROVE  sessions'[victim[u]] # cur[u]
      <3>0. cur[u] \in Proc /\ cur[u] # None /\ victim[u] \in Workspace
        BY <1>0, <2>2, NoneAssumption DEF GivenUpOf, Located, KillPc
      <3>1. CASE sessions'[victim[u]] = None
        BY <3>0, <3>1
      <3>2. CASE victim[u] \notin late /\ sessions'[victim[u]] = sessions[victim[u]]
        BY <1>0, <2>2, <3>2 DEF UnregisteredOf
      <3>3. CASE Insert(t) /\ victim[u] = req[t].ws /\ victim[u] \notin late
        BY <1>0, <2>2, <3>3 DEF Insert, InsertedOf, BeingUnregistered
      <3>4. CASE Retarget(t) /\ sessions'[victim[u]] = new[t]
        BY <1>0, <3>4 DEF Retarget, Private
      <3> QED
        BY <2>2, <3>0, <3>1, <3>2, <3>3, <3>4, LateMoves
    <2> QED
      BY <2>1, <2>2 DEF UnregisteredOf, Same
  <1>2. CASE u = t
    <2> SUFFICES ASSUME pc'[t] \in {"unregisterShared", "unregisterLast"}
                 PROVE  UnregisteredOf(t)'
      BY <1>2 DEF UnregisteredOf
    <2>1. Kill(t)
      BY <1>0, StepTo
    <2>2. victim[t] \in Workspace
      BY <1>0, <2>1 DEF Located, Kill, KillPc
    <2>3. sessions'[victim[t]] = None /\ cur'[t] # None /\ victim' = victim
      BY <1>0, <2>1, <2>2 DEF Kill, Without, AfterKill, Goto, LocalTypeOK, removal
    <2> QED
      BY <2>3 DEF UnregisteredOf
  <1> QED
    BY <1>1, <1>2

LEMMA InsertedNext ==
    ASSUME SyncFree, Ground, ServedInv, NEW t \in Task,
           Lock(t) \/ Step(t) \/ \E r \in Request : Begin(t, r), NEW u \in Task
    PROVE  InsertedOf(u)'
  <1>0. /\ TypeInv /\ LocalTypeOK /\ SharedTypeOK /\ LockInv /\ Located /\ Started /\ NewStarted
        /\ Knows(u) /\ KindOf(u) /\ InsertedOf(u) /\ Unpublished(u)
        /\ (pc[u] # "idle" => req[u].ws \in Workspace)
    BY GroundFacts DEF ServedInv
  <1>1. ServedMoves(t)
    BY <1>0, ServedStep
  <1>2. \A v \in Task \ {t} : Same(v)
    BY <1>0, OthersStay
  <1>3. CASE u # t
    <2> SUFFICES ASSUME pc[u] = "insert", req[u].ws \notin late'
                 PROVE  /\ req[u].ws \in wsIds'[Held(u)]
                        /\ ~BeingUnregistered(req[u].ws)'
      BY <1>2, <1>3 DEF InsertedOf, Held, Same, BeingUnregistered
    <2>0. lock = u /\ pc[t] \notin LockedPc /\ req[u].ws \in Workspace
          /\ sessions[req[u].ws] = None
      BY <1>0, <1>3 DEF LockInv, LockedPc, Unpublished, KindOf
    <2>1. req[u].ws \notin late
      BY <1>1, <2>0 DEF ServedMoves, Attach, Insert, Retarget, LockedPc
    <2>2. req[u].ws \in wsIds[Held(u)] /\ ~BeingUnregistered(req[u].ws)
      BY <1>0, <2>1 DEF InsertedOf
    <2>3. Held(u) \in Proc /\ proc[Held(u)] # "unused"
      BY <1>0, NoneAssumption DEF Knows, Held, Started, NewStarted, LocalTypeOK
    <2>4. req[u].ws \in wsIds'[Held(u)]
      BY <1>1, <2>0, <2>2, <2>3 DEF ServedMoves, BeingUnregistered
    <2>5. ~(pc'[t] \in {"unregisterShared", "unregisterLast"} /\ victim'[t] = req[u].ws)
      <3>1. CASE Kill(t)
        BY <1>0, <2>0, <3>1 DEF Kill, AfterKill, Goto, LocalTypeOK, removal
      <3> QED
        BY <1>0, <3>1, StepTo
    <2>6. ~BeingUnregistered(req[u].ws)'
      <3>1. req'[u] = req[u]
        BY <1>2, <1>3 DEF Same
      <3>2. ASSUME NEW v \in Task \ {t}
            PROVE  ~(pc'[v] \in {"unregisterShared", "unregisterLast"} /\ victim'[v] = req[u].ws)
        BY <1>2, <2>2 DEF BeingUnregistered, Same
      <3> QED
        BY <2>5, <3>1, <3>2 DEF BeingUnregistered
    <2> QED
      BY <2>4, <2>6
  <1>4. CASE u = t
    <2> SUFFICES ASSUME pc'[t] = "insert", req'[t].ws \notin late'
                 PROVE  /\ req'[t].ws \in wsIds'[Held(t)']
                        /\ ~BeingUnregistered(req[t].ws)'
      BY <1>4 DEF InsertedOf
    <2>1. Attach(t)
      BY <1>0, StepTo
    <2>2. Held(t) \in Proc /\ req[t].ws \in Workspace
      BY <1>0, <1>4, <2>1, NoneAssumption DEF Attach, Knows, Held, LocalTypeOK
    <2>3. Held(t)' = Held(t) /\ req' = req /\ victim' = victim
      BY <2>1 DEF Attach, Held, local
    <2>4. req[t].ws \in wsIds'[Held(t)]
      BY <1>0, <2>1, <2>2 DEF Attach, SharedTypeOK
    <2>5. ~BeingUnregistered(req[t].ws)
      BY <2>1, <2>3 DEF Attach
    <2> QED
      BY <1>2, <2>3, <2>4, <2>5 DEF BeingUnregistered, Same
  <1> QED
    BY <1>3, <1>4

LEMMA NotKilledNext ==
    ASSUME SyncFree, Ground, ServedInv, NEW t \in Task,
           Lock(t) \/ Step(t) \/ \E r \in Request : Begin(t, r)
    PROVE  ConnectedNotKilled'
  <1>0. /\ TypeInv /\ LocalTypeOK /\ SharedTypeOK /\ Located /\ Started
        /\ Knows(t) /\ KindOf(t) /\ LocalsOf(t) /\ Private(t) /\ GivenUpOf(t)
        /\ ConnectedNotKilled /\ pc[t] # "syncKill"
    BY GroundFacts DEF ServedInv, ConnectedIsServed
  <1>1. ServedMoves(t)
    BY <1>0, ServedStep
  <1> SUFFICES ASSUME NEW w \in Workspace, w \notin late', sessions'[w] # None
               PROVE  proc'[sessions'[w]] # "killed"
    BY DEF ConnectedNotKilled, Connected
  <1>2. CASE w \notin late /\ sessions'[w] = sessions[w]
    <2>1. sessions[w] \in Proc /\ proc[sessions[w]] # "killed"
      BY <1>0, <1>2 DEF SharedTypeOK, ConnectedNotKilled, Connected
    <2>2. pc[t] \in {"initialize", "rollbackKill"} => sessions[w] # new[t]
      BY <1>0, <2>1, NoneAssumption DEF Knows, Only, KindOf, LocalsOf, Located
    <2>3. pc[t] \in {"killOld", "killChild"} => sessions[w] # cur[t]
      BY <1>0, <1>2, <2>1, NoneAssumption DEF Knows, Only, GivenUpOf
    <2> QED
      BY <1>0, <1>1, <1>2, <2>1, <2>2, <2>3 DEF ServedMoves
  <1>3. CASE Insert(t) /\ sessions'[w] = Held(t) /\ ~GivenUp(Held(t))
    BY <1>3 DEF Insert, GivenUp
  <1>4. CASE Retarget(t) /\ sessions'[w] = new[t]
    BY <1>0, <1>4 DEF Retarget, Private
  <1> QED
    BY <1>2, <1>3, <1>4, LateMoves

LEMMA RegisteredNext ==
    ASSUME SyncFree, Ground, ServedInv, NEW t \in Task,
           Lock(t) \/ Step(t) \/ \E r \in Request : Begin(t, r)
    PROVE  ConnectedIsRegistered'
  <1>0. /\ TypeInv /\ LocalTypeOK /\ SharedTypeOK /\ Located /\ Started
        /\ Knows(t) /\ InsertedOf(t) /\ UnregisteredOf(t) /\ ConnectedIsRegistered
    BY GroundFacts DEF ServedInv, ConnectedIsServed
  <1>1. ServedMoves(t)
    BY <1>0, ServedStep
  <1> SUFFICES ASSUME NEW w \in Workspace, w \notin late', sessions'[w] # None
               PROVE  \/ w \in wsIds'[sessions'[w]]
                      \/ \E u \in Task : pc'[u] = "reregister" /\ w \in todo'[u]
    BY DEF ConnectedIsRegistered, Connected
  <1>2. CASE w \notin late /\ sessions'[w] = sessions[w]
    <2>0. sessions[w] \in Proc /\ proc[sessions[w]] # "unused"
      BY <1>0, <1>2 DEF SharedTypeOK, Started
    <2>1. CASE w \in wsIds[sessions[w]]
      BY <1>0, <1>1, <1>2, <2>0, <2>1 DEF ServedMoves, UnregisteredOf
    <2>2. ASSUME NEW u \in Task, pc[u] = "reregister", w \in todo[u], u # t
          PROVE  pc'[u] = "reregister" /\ w \in todo'[u]
      BY <1>0, <2>2, OthersStay DEF Same
    <2>3. CASE pc[t] = "reregister" /\ w \in todo[t]
      <3>1. Reregister(t)
        BY <2>3, StepAt
      <3>2. sessions[w] = new[t] /\ new[t] \in Proc
        BY <1>0, <1>2, <2>3, NoneAssumption DEF Knows, Only
      <3> QED
        BY <1>0, <1>2, <2>3, <3>1, <3>2 DEF Reregister, SharedTypeOK, LocalTypeOK
    <2> QED
      BY <1>0, <1>2, <2>1, <2>2, <2>3 DEF ConnectedIsRegistered, Connected
  <1>3. CASE Insert(t) /\ w = req[t].ws /\ sessions'[w] = Held(t) /\ w \notin late
    BY <1>0, <1>3 DEF Insert, InsertedOf
  <1>4. CASE Retarget(t) /\ sessions'[w] = new[t]
    <2>1. pc'[t] = "reregister" /\ w \in todo'[t]
      BY <1>0, <1>4 DEF Retarget, Retargeted, Connected, Goto, LocalTypeOK
    <2> QED
      BY <2>1
  <1> QED
    BY <1>2, <1>3, <1>4, LateMoves

LEMMA ServedNext ==
    ASSUME SyncFree, Ground, ServedInv, [Next]_vars
    PROVE  ServedInv'
  <1>1. ASSUME NEW t \in Task, Lock(t) \/ Step(t) \/ \E r \in Request : Begin(t, r)
        PROVE  ServedInv'
    <2>1. ASSUME NEW u \in Task
          PROVE  /\ Unpublished(u)' /\ Private(u)' /\ GivenUpOf(u)'
                 /\ UnregisteredOf(u)' /\ InsertedOf(u)'
      BY <1>1, UnpublishedNext, PrivateNext, GivenUpNext, UnregisteredNext, InsertedNext
    <2>2. ConnectedIsServed'
      BY <1>1, NotKilledNext, RegisteredNext DEF ConnectedIsServed
    <2> QED
      BY <2>1, <2>2 DEF ServedInv
  <1>2. ASSUME NEW p \in Proc, Crash(p) PROVE ServedInv'
    <2>0. /\ TypeInv /\ SharedTypeOK /\ LocalTypeOK
          /\ proc' = [proc EXCEPT ![p] = "crashed"]
          /\ UNCHANGED <<entries, written, dirs, sessions, wsIds, args, leaked, late, lock, pc, local>>
      BY <1>2, GroundFacts DEF Crash
    <2>1. \A q : proc[q] # "killed" => proc'[q] # "killed"
      BY <2>0 DEF SharedTypeOK
    <2>2. ASSUME NEW u \in Task
          PROVE  /\ Unpublished(u)' /\ Private(u)' /\ GivenUpOf(u)'
                 /\ UnregisteredOf(u)' /\ InsertedOf(u)'
      BY <2>0, <2>1 DEF ServedInv, Unpublished, Private, GivenUpOf, UnregisteredOf,
                        InsertedOf, Held, BeingUnregistered, local
    <2>3. ConnectedIsServed'
      BY <2>0, <2>1 DEF ServedInv, ConnectedIsServed, ConnectedNotKilled,
                        ConnectedIsRegistered, Connected, local
    <2> QED
      BY <2>2, <2>3 DEF ServedInv
  <1>3. CASE UNCHANGED vars
    BY <1>3 DEF ServedInv, Unpublished, Private, GivenUpOf, UnregisteredOf, InsertedOf, Held,
                BeingUnregistered, ConnectedIsServed, ConnectedNotKilled,
                ConnectedIsRegistered, Connected, vars, shared, local
  <1> QED
    BY <1>1, <1>2, <1>3 DEF Next

LEMMA GroundInit == Init => Ground
  BY PoolInit, TraceInit DEF Init, Ground, NewStarted, AddInv, AddsDiffer, AddOf, AddingPc,
                             NoRequest, AddKinds

LEMMA GroundNext == ASSUME Ground, [Next]_vars PROVE Ground'
  BY PoolNext, KindNext, LocalsNext, AddNext DEF Ground, PoolInv

\* In the desktop application, whatever connects, adds, respawns and removals
\* overlap, a connected workspace points at a process that was not killed and
\* knows of it, unless it arrived after a removal had given that process up
\* (ConnectedIsServed).
THEOREM ConnectedWorkspacesAreServed ==
    ASSUME SyncFree
    PROVE  Spec => []ConnectedIsServed
  <1>1. Init => ServedInv
    BY DEF Init, ServedInv, Unpublished, Private, GivenUpOf, UnregisteredOf, InsertedOf,
           ConnectedIsServed, ConnectedNotKilled, ConnectedIsRegistered, Connected
  <1>2. Ground /\ ServedInv /\ [Next]_vars => (Ground /\ ServedInv)'
    BY GroundNext, ServedNext
  <1>3. ServedInv => ConnectedIsServed
    BY DEF ServedInv
  <1> QED
    BY <1>1, <1>2, <1>3, GroundInit, PTL DEF Spec, Safety

------------------------------------------------------------------------------
(* Worktrees and their parents.  Where no worktree is added either, a       *)
(* removal meets every child of its workspace before the workspace goes.    *)

\* No worktree is being added.
NoNewWorktree == \A r \in Request : r.kind # "worktree"

\* A new workspace is no worktree, and has none.
NewcomerOf(t) ==
    req[t].kind \in AddKinds => Parent[req[t].ws] = None
NewHasNoChild(t) ==
    req[t].kind \in AddKinds /\ pc[t] \in AddingPc \cup {"rollback"} => Children(req[t].ws) = {}

\* What a removal is treating or has treated.
Treated(t) ==
    todo[t] \cup gone[t] \cup kept[t] \cup (IF pc[t] \in KillPc THEN {victim[t]} ELSE {})

\* A removal of a main workspace has met each of its worktrees, and drops the
\* workspace only if all of them are gone; whatever else it drops is a worktree.
RemovalOf(t) ==
    /\ pc[t] \in {"nextChild", "drop"} \cup KillPc /\ req[t].kind = "remove" =>
          /\ Parent[req[t].ws] = None
          /\ Children(req[t].ws) \subseteq Treated(t)
          /\ \A w \in todo[t] : Parent[w] # None
          /\ pc[t] = "nextChild" => req[t].ws \notin gone[t]
          /\ pc[t] = "rmdir" => victim[t] # req[t].ws
          /\ pc[t] \in KillPc => victim[t] = req[t].ws \/ Parent[victim[t]] # None
          /\ pc[t] \in KillPc /\ victim[t] # req[t].ws => req[t].ws \notin gone[t]
          /\ req[t].ws \in gone[t] => todo[t] = {} /\ kept[t] = {}
          /\ pc[t] \in KillPc /\ victim[t] = req[t].ws => req[t].ws \in gone[t]
    /\ pc[t] \in KillPc /\ req[t].kind = "removeWorktree" => Parent[victim[t]] # None
    /\ pc[t] \in {"nextChild", "drop"} \cup KillPc =>
          \A w \in gone[t] : Parent[w] # None \/ (req[t].kind = "remove" /\ w = req[t].ws)
    /\ pc[t] \notin {"nextChild", "drop"} \cup KillPc => gone[t] = {} /\ kept[t] = {}

FamilyInv ==
    /\ NoStrandedWorktree
    /\ \A t \in Task : NewcomerOf(t) /\ NewHasNoChild(t) /\ RemovalOf(t)

\* The list only grows by workspaces that are no worktrees.
LEMMA ChildrenShrink ==
    ASSUME SyncFree, Ground, FamilyInv, NEW t \in Task,
           Lock(t) \/ Step(t) \/ \E r \in Request : Begin(t, r)
    PROVE  \A w \in Workspace : Children(w)' \subseteq Children(w)
  <1>1. /\ TypeInv /\ KindOf(t) /\ NewcomerOf(t) /\ pc[t] # "syncSwap"
    BY GroundFacts DEF FamilyInv
  <1>2. SharedMoves(t)
    BY <1>1, SharedStep
  <1>3. pc[t] = "persist" => Parent[req[t].ws] = None
    BY <1>1 DEF KindOf, NewcomerOf
  <1> QED
    BY <1>1, <1>2, <1>3, NoneAssumption DEF SharedMoves, Children

LEMMA StrandedNext ==
    ASSUME SyncFree, Ground, FamilyInv, NEW t \in Task,
           Lock(t) \/ Step(t) \/ \E r \in Request : Begin(t, r)
    PROVE  NoStrandedWorktree'
  <1>0. /\ TypeInv /\ SharedTypeOK /\ KindOf(t) /\ NewcomerOf(t) /\ NewHasNoChild(t)
        /\ RemovalOf(t) /\ NoStrandedWorktree /\ pc[t] # "syncSwap"
    BY GroundFacts DEF FamilyInv
  <1> SUFFICES ASSUME NEW w \in entries', Parent[w] # None
               PROVE  Parent[w] \in entries'
    BY DEF NoStrandedWorktree
  <1>1. CASE entries' = entries
    BY <1>0, <1>1 DEF NoStrandedWorktree
  <1>2. CASE Persist(t)
    BY <1>0, <1>2 DEF Persist, NoStrandedWorktree, KindOf, NewcomerOf
  <1>3. CASE Rollback(t)
    <2>1. Children(req[t].ws) = {}
      BY <1>0, <1>3 DEF Rollback, NewHasNoChild, KindOf
    <2> QED
      BY <1>0, <1>3, <2>1 DEF Rollback, NoStrandedWorktree, Children
  <1>4. CASE Drop(t)
    <2>1. w \in entries /\ w \notin gone[t] /\ Parent[w] \in entries /\ w \in Workspace
      BY <1>0, <1>4 DEF Drop, NoStrandedWorktree, SharedTypeOK
    <2>2. ASSUME Parent[w] \in gone[t] PROVE FALSE
      <3>1. Parent[Parent[w]] = None
        BY <2>1, ParentAssumption
      <3>2. req[t].kind = "remove" /\ Parent[w] = req[t].ws
        BY <1>0, <1>4, <2>2, <3>1 DEF Drop, RemovalOf
      <3>3. w \in Treated(t) /\ todo[t] = {} /\ kept[t] = {} /\ pc[t] \notin KillPc
        BY <1>0, <1>4, <2>1, <2>2, <3>2 DEF Drop, RemovalOf, Children, KillPc
      <3> QED
        BY <2>1, <3>3 DEF Treated
    <2> QED
      BY <1>4, <2>1, <2>2 DEF Drop
  <1> QED
    BY <1>0, <1>1, <1>2, <1>3, <1>4, StepOn DEF SyncSwap

LEMMA NewcomersNext ==
    ASSUME SyncFree, NoNewWorktree, Ground, FamilyInv, NEW t \in Task,
           Lock(t) \/ Step(t) \/ \E r \in Request : Begin(t, r), NEW u \in Task
    PROVE  NewcomerOf(u)' /\ NewHasNoChild(u)'
  <1>0. /\ TypeInv /\ LocalTypeOK /\ SharedTypeOK /\ KindOf(u) /\ NewcomerOf(u) /\ NewHasNoChild(u)
        /\ (pc[u] # "idle" => req[u].ws \in Workspace)
        /\ NoStrandedWorktree
    BY GroundFacts DEF FamilyInv
  <1>1. \A w \in Workspace : Children(w)' \subseteq Children(w)
    BY ChildrenShrink
  <1>2. ASSUME req'[u] = req[u],
               pc'[u] \in AddingPc \cup {"rollback"} /\ req[u].kind \in AddKinds
                  => pc[u] \in AddingPc \cup {"rollback"}
        PROVE  NewcomerOf(u)' /\ NewHasNoChild(u)'
    <2>1. pc[u] \in AddingPc \cup {"rollback"} => Children(req[u].ws)' \subseteq Children(req[u].ws)
      <3>1. PICK x : x = req[u].ws
        OBVIOUS
      <3>2. pc[u] \in AddingPc \cup {"rollback"} => Children(x)' \subseteq Children(x)
        BY <1>0, <1>1, <3>1 DEF AddingPc
      <3> QED
        BY <1>2, <3>1, <3>2 DEF Children
    <2> QED
      BY <1>0, <1>2, <2>1 DEF NewcomerOf, NewHasNoChild, Children
  <1>3. CASE u # t
    BY <1>0, <1>2, <1>3, OthersStay DEF Same
  <1>4. CASE u = t
    <2> USE <1>0, <1>4 DEF LocalTypeOK
    <2>f. Finish(t) => NewcomerOf(t)' /\ NewHasNoChild(t)'
      BY DEF Finish, NewcomerOf, NewHasNoChild, NoRequest, AddKinds
    <2>1. CASE \E r \in Request : Begin(t, r)
      <3>1. PICK r \in Request : Begin(t, r)
        BY <2>1
      <3>2. req'[t] = r /\ entries' = entries
        BY <3>1 DEF Begin, BeginAttach, BeginAdd, BeginCheckout, BeginRemove,
                    BeginRemoveWorktree, BeginSync, Accept, shared
      <3>3. r.kind \in AddKinds => Parent[r.ws] = None /\ r.ws \notin entries
        BY <3>1 DEF Begin, BeginAttach, BeginAdd, BeginCheckout, BeginRemove,
                    BeginRemoveWorktree, BeginSync, Fresh, AddKinds, NoNewWorktree
      <3>4. r.ws \notin entries => Children(r.ws) = {}
        BY RequestFields, NoneAssumption, SMTT(30) DEF NoStrandedWorktree, Children
      <3> QED
        BY <3>2, <3>3, <3>4 DEF NewcomerOf, NewHasNoChild, Children
    <2>2. ASSUME Lock(t) \/ Step(t), ~Finish(t)
          PROVE  /\ req'[t] = req[t]
                 /\ pc'[t] \in AddingPc \cup {"rollback"} /\ req[t].kind \in AddKinds
                       => pc[t] \in AddingPc \cup {"rollback"}
      BY <2>2, ZenonT(60)
      DEF Lock, FirstLocked, Step, Checkout, FindSession, Own, OwnCheck, Peek, Check,
          Prune, SpawnSession, Spawn, InitializeOk, InitializeTimeout, InitializeError,
          Publish, Persist, Rollback, RollbackKill, Attach, Insert, Respawn, ReadCurrent,
          Retarget, Reregister, KillOld, Remove, NextChild, Kill, AfterKill, Unregister,
          KillChild, RemoveDir, RemoveDirFails, Drop, Sync, SyncSwap, SyncPrune, SyncKill,
          Return, Goto, local, removal, KindOf, AddKinds, AddingPc
    <2> QED
      BY <1>2, <2>f, <2>1, <2>2
  <1> QED
    BY <1>3, <1>4

LEMMA RemovalNext ==
    ASSUME SyncFree, Ground, FamilyInv, NEW t \in Task,
           Lock(t) \/ Step(t) \/ \E r \in Request : Begin(t, r), NEW u \in Task
    PROVE  RemovalOf(u)'
  <1>0. /\ TypeInv /\ LocalTypeOK /\ SharedTypeOK /\ Located /\ KindOf(u) /\ RemovalOf(u)
        /\ (pc[u] # "idle" => req[u].ws \in Workspace)
    BY GroundFacts DEF FamilyInv
  <1>1. \A w \in Workspace : Children(w)' \subseteq Children(w)
    BY ChildrenShrink
  <1> DEFINE RemovePc == {"nextChild", "drop"} \cup KillPc
  <1>2. ASSUME req'[u] = req[u], pc[u] # "idle"
        PROVE  Children(req[u].ws)' \subseteq Children(req[u].ws)
    <2>1. PICK x : x = req[u].ws
      OBVIOUS
    <2>2. Children(x)' \subseteq Children(x)
      BY <1>0, <1>1, <1>2, <2>1
    <2> QED
      BY <1>2, <2>1, <2>2 DEF Children
  <1>3. CASE u # t
    <2>1. Same(u)
      BY <1>0, <1>3, OthersStay
    <2> QED
      BY <1>0, <1>2, <2>1 DEF Same, RemovalOf, Treated, KillPc, Children
  <1>4. CASE u = t
    <2> USE <1>0, <1>4 DEF LocalTypeOK, Goto
    <2>0. ASSUME pc[t] \notin RemovePc, pc'[t] \notin RemovePc, gone' = gone, kept' = kept
          PROVE  RemovalOf(t)'
      BY <2>0 DEF RemovalOf, KillPc
    <2>f. Finish(t) => RemovalOf(t)'
      BY DEF Finish, KillPc, RemovalOf
    <2>1. CASE \E r \in Request : Begin(t, r)
      <3>1. PICK r \in Request : Begin(t, r)
        BY <2>1
      <3>2. CASE BeginRemove(t, r)
        <4>1. Children(r.ws) \subseteq Workspace
          BY DEF Children, SharedTypeOK
        <4>2. gone[t] = {} /\ kept[t] = {}
          BY <3>2 DEF BeginRemove, Accept, RemovalOf, KillPc
        <4>3. /\ pc'[t] = "nextChild" /\ req'[t] = r /\ Parent[r.ws] = None
              /\ todo'[t] = Children(r.ws) /\ gone' = gone /\ kept' = kept /\ entries' = entries
          BY <3>2, <4>1 DEF BeginRemove, Accept, shared
        <4>4. \A w \in Children(r.ws) : Parent[w] # None
          BY RequestFields, NoneAssumption DEF Children
        <4> QED
          BY <4>2, <4>3, <4>4 DEF RemovalOf, Treated, KillPc, Children
      <3>3. CASE BeginRemoveWorktree(t, r)
        <4>1. r.ws \in Workspace /\ Parent[r.ws] # None
          BY <3>3, RequestFields, NoneAssumption DEF BeginRemoveWorktree, SharedTypeOK
        <4>2. gone[t] = {} /\ kept[t] = {}
          BY <3>3 DEF BeginRemoveWorktree, Accept, RemovalOf, KillPc
        <4>3. /\ pc'[t] = "kill" /\ req'[t] = r /\ r.kind = "removeWorktree"
              /\ victim'[t] = r.ws /\ gone' = gone /\ kept' = kept
          BY <3>3, <4>1 DEF BeginRemoveWorktree, Accept
        <4> QED
          BY <4>1, <4>2, <4>3 DEF RemovalOf, KillPc
      <3>4. CASE ~BeginRemove(t, r) /\ ~BeginRemoveWorktree(t, r)
        <4>1. /\ pc[t] = "idle" /\ pc'[t] \in {"lock", "checkout", "syncSwap"}
              /\ gone' = gone /\ kept' = kept
          BY <3>1, <3>4 DEF Begin, BeginAttach, BeginAdd, BeginCheckout, BeginSync, Accept,
                            removal
        <4> QED
          BY <2>0, <4>1 DEF KillPc
      <3> QED
        BY <3>2, <3>3, <3>4
    <2> DEFINE ws == req[t].ws
    <2>2. CASE NextChild(t)
      <3>0. pc[t] = "nextChild" /\ req' = req /\ kept' = kept /\ entries' = entries
            /\ req[t].kind = "remove" /\ ws \notin gone[t]
        BY <2>2 DEF NextChild, KindOf, shared, RemovalOf
      <3>1. /\ Parent[ws] = None /\ Children(ws) \subseteq todo[t] \cup gone[t] \cup kept[t]
            /\ \A w \in todo[t] : Parent[w] # None
            /\ \A w \in gone[t] : Parent[w] # None \/ w = ws
        BY <3>0 DEF RemovalOf, Treated, KillPc
      <3>2. ASSUME NEW c \in todo[t], victim' = [victim EXCEPT ![t] = c],
                   todo' = [todo EXCEPT ![t] = @ \ {c}], Goto(t, "kill"), UNCHANGED gone
            PROVE  RemovalOf(t)'
        <4>1. /\ victim'[t] = c /\ todo'[t] = todo[t] \ {c} /\ pc'[t] = "kill" /\ c # ws
              /\ Parent[c] # None
          BY <3>1, <3>2
        <4> QED
          BY <3>0, <3>1, <3>2, <4>1 DEF RemovalOf, Treated, KillPc, Children
      <3>3. ASSUME todo[t] = {}, ParentGoes(t), victim' = [victim EXCEPT ![t] = ws],
                   gone' = [gone EXCEPT ![t] = @ \cup {ws}], Goto(t, "kill"), UNCHANGED todo
            PROVE  RemovalOf(t)'
        <4>1. victim'[t] = ws /\ gone'[t] = gone[t] \cup {ws} /\ pc'[t] = "kill" /\ kept[t] = {}
          BY <3>3 DEF ParentGoes
        <4> QED
          BY <3>0, <3>1, <3>3, <4>1 DEF RemovalOf, Treated, KillPc, Children
      <3>4. ASSUME todo[t] = {}, Goto(t, "drop"), UNCHANGED <<todo, gone, victim>>
            PROVE  RemovalOf(t)'
        BY <3>0, <3>1, <3>4 DEF RemovalOf, Treated, KillPc, Children
      <3> QED
        BY <2>2, <3>2, <3>3, <3>4 DEF NextChild
    <2>3. CASE Kill(t) \/ Unregister(t) \/ KillChild(t)
      <3>1. /\ pc[t] \in {"kill", "unregisterShared", "unregisterLast", "killChild"}
            /\ pc'[t] \in {"unregisterShared", "unregisterLast", "killChild", "rmdir", "drop"}
            /\ pc'[t] \in {"rmdir", "drop"} => pc'[t] = AfterKill(t)
            /\ req' = req /\ gone' = gone /\ kept' = kept /\ todo' = todo /\ victim' = victim
            /\ entries' = entries
        BY <2>3 DEF Kill, Unregister, KillChild, AfterKill, removal, local
      <3>2. pc'[t] = "drop" => req[t].kind = "remove" /\ victim[t] = ws
        BY <3>1 DEF AfterKill
      <3>3. pc'[t] = "rmdir" => ~(req[t].kind = "remove" /\ victim[t] = ws)
        BY <3>1 DEF AfterKill
      <3>4. req[t].kind \in {"remove", "removeWorktree"}
        BY <3>1 DEF KindOf, RemovingPc
      <3>5. CASE req[t].kind = "removeWorktree"
        BY <3>1, <3>2, <3>5 DEF RemovalOf, KillPc
      <3>6. CASE req[t].kind = "remove"
        <4>1. ws \in gone[t] /\ victim[t] = ws => victim[t] \notin Children(ws)
          BY <3>1, <3>6, NoneAssumption DEF RemovalOf, Children, KillPc
        <4> QED
          BY <3>1, <3>2, <3>3, <3>6, <4>1 DEF RemovalOf, Treated, KillPc, Children
      <3> QED
        BY <3>4, <3>5, <3>6
    <2>4. CASE RemoveDir(t)
      <3>1. /\ pc[t] = "rmdir" /\ gone'[t] = gone[t] \cup {victim[t]}
            /\ pc'[t] = IF req[t].kind = "remove" THEN "nextChild" ELSE "drop"
            /\ req' = req /\ kept' = kept /\ todo' = todo /\ victim' = victim
            /\ entries' = entries
            /\ req[t].kind \in {"remove", "removeWorktree"}
        BY <2>4 DEF RemoveDir, KindOf, RemovingPc
      <3> QED
        BY <3>1 DEF RemovalOf, Treated, KillPc, Children
    <2>5. CASE RemoveDirFails(t) /\ ~Finish(t)
      <3>1. /\ pc[t] = "rmdir" /\ kept'[t] = kept[t] \cup {victim[t]}
            /\ pc'[t] = "nextChild" /\ req[t].kind = "remove"
            /\ req' = req /\ gone' = gone /\ todo' = todo /\ victim' = victim
            /\ entries' = entries
        BY <2>5 DEF RemoveDirFails, shared
      <3> QED
        BY <3>1, SMTT(30) DEF RemovalOf, Treated, KillPc, Children
    <2>6. ASSUME Lock(t) \/ Step(t), ~Finish(t), pc[t] \notin RemovePc
          PROVE  pc'[t] \notin RemovePc /\ gone' = gone /\ kept' = kept
      BY <2>6
      DEF Lock, FirstLocked, Step, Checkout, FindSession, Own, OwnCheck, Peek, Check,
          Prune, SpawnSession, Spawn, InitializeOk, InitializeTimeout, InitializeError,
          Publish, Persist, Rollback, RollbackKill, Attach, Insert, Respawn, ReadCurrent,
          Retarget, Reregister, KillOld, Remove, NextChild, Kill, Unregister, KillChild,
          RemoveDir, RemoveDirFails, Drop, Sync, SyncSwap, SyncPrune, SyncKill,
          Return, local, removal, KillPc
    <2>7. CASE pc[t] \in RemovePc /\ Step(t)
      <3>1. Remove(t)
        BY <2>7, StepAt DEF KillPc
      <3> QED
        BY <2>f, <2>2, <2>3, <2>4, <2>5, <3>1 DEF Remove, Drop
    <2>8. pc[t] \in RemovePc => ~Lock(t)
      BY DEF Lock, KillPc
    <2> QED
      BY <2>0, <2>f, <2>1, <2>6, <2>7, <2>8
  <1> QED
    BY <1>3, <1>4

LEMMA FamilyNext ==
    ASSUME SyncFree, NoNewWorktree, Ground, FamilyInv, [Next]_vars
    PROVE  FamilyInv'
  <1>1. ASSUME NEW t \in Task, Lock(t) \/ Step(t) \/ \E r \in Request : Begin(t, r)
        PROVE  FamilyInv'
    BY <1>1, StrandedNext, NewcomersNext, RemovalNext DEF FamilyInv
  <1>2. CASE UNCHANGED <<entries, pc, req, todo, gone, kept, victim>>
    BY <1>2 DEF FamilyInv, NoStrandedWorktree, NewcomerOf, NewHasNoChild, RemovalOf, Treated,
                Children
  <1> QED
    BY <1>1, <1>2 DEF Next, Crash, vars, shared, local

\* While no worktree is added, a workspace never leaves the list before its
\* worktrees, however removals overlap and whichever checkouts cannot be deleted
\* (NoStrandedWorktree).
THEOREM NoWorktreeIsStranded ==
    ASSUME SyncFree, NoNewWorktree
    PROVE  Spec => []NoStrandedWorktree
  <1>1. Init => FamilyInv
    BY InitAssumption
    DEF Init, FamilyInv, NoStrandedWorktree, NewcomerOf, NewHasNoChild, RemovalOf, NoRequest,
        AddKinds, KillPc
  <1>2. Ground /\ FamilyInv /\ [Next]_vars => (Ground /\ FamilyInv)'
    BY GroundNext, FamilyNext
  <1>3. FamilyInv => NoStrandedWorktree
    BY DEF FamilyInv
  <1> QED
    BY <1>1, <1>2, <1>3, GroundInit, PTL DEF Spec, Safety

==============================================================================
