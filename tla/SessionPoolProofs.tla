-------------------------- MODULE SessionPoolProofs --------------------------
(***************************************************************************)
(* Theorems about SessionPool, for any number of handlers, workspaces and  *)
(* processes.                                                              *)
(***************************************************************************)
EXTENDS SessionPool, TLAPS

\* The requests have well-typed fields.
LEMMA RequestFields ==
    ASSUME NEW r \in Request
    PROVE  /\ r.kind \in Kinds
           /\ r.ws \in Workspace
           /\ Target(r) \in ArgSet
           /\ r # NoRequest
  BY RequestAssumption, NoneAssumption, InitAssumption DEF RequestType, Target, Kinds, NoRequest

\* The labels between a kill and the removal of the checkout.
KillPc == {"kill", "unregisterShared", "unregisterLast", "killChild", "rmdir"}

\* A handler that runs serves a request, one that has spawned a process knows
\* it, and kill_session_by_id has an id.
Located ==
    \A t \in Task :
        /\ pc[t] # "idle" => req[t] \in Request
        /\ pc[t] \in {"initialize", "retarget"} => new[t] \in Proc
        /\ pc[t] \in KillPc => victim[t] \in Workspace
TypeInv == TypeOK /\ Located

\* A handler that returns leaves its locals well typed.
LEMMA FinishType ==
    ASSUME TypeInv, NEW t \in Task, Finish(t)
    PROVE  LocalTypeOK' /\ Located'
  BY DEF TypeInv, TypeOK, LocalTypeOK, Located, Finish, Goto, PcLabels, KillPc

\* So does a handler that goes on without touching them.
LEMMA GotoType ==
    ASSUME TypeInv, NEW t \in Task, NEW label \in PcLabels \ (KillPc \cup {"initialize", "retarget"}),
           pc[t] # "idle", Goto(t, label), UNCHANGED local
    PROVE  LocalTypeOK' /\ Located'
  BY DEF TypeInv, TypeOK, LocalTypeOK, Located, Goto, PcLabels, KillPc, local

LEMMA TypeInit == Init => TypeInv
  <1> SUFFICES ASSUME Init PROVE TypeInv
    OBVIOUS
  <1> QED
    BY InitAssumption
    DEF Init, TypeInv, TypeOK, SharedTypeOK, LocalTypeOK, Located, PcLabels, KillPc

LEMMA TypeBegin ==
    ASSUME TypeInv, NEW t \in Task, NEW r \in Request, Begin(t, r)
    PROVE  TypeInv'
  <1> USE DEF TypeInv, TypeOK, SharedTypeOK, LocalTypeOK, Located, Accept, Goto,
              PcLabels, KillPc, shared, removal
  <1>1. CASE BeginAttach(t, r)
    BY <1>1 DEF BeginAttach
  <1>2. CASE BeginAdd(t, r)
    BY <1>2 DEF BeginAdd
  <1>3. CASE BeginCheckout(t, r)
    BY <1>3 DEF BeginCheckout
  <1>4. CASE BeginRemove(t, r)
    BY <1>4 DEF BeginRemove, Children
  <1>5. CASE BeginRemoveWorktree(t, r)
    BY <1>5, RequestFields DEF BeginRemoveWorktree
  <1>6. CASE BeginSync(t, r)
    BY <1>6 DEF BeginSync
  <1> QED
    BY <1>1, <1>2, <1>3, <1>4, <1>5, <1>6 DEF Begin

LEMMA TypeShared ==
    ASSUME TypeInv, NEW t \in Task, Step(t) \/ Lock(t)
    PROVE  SharedTypeOK'
  <1> USE DEF TypeInv, TypeOK, SharedTypeOK, LocalTypeOK, Located, Killed, shared
  <1>0. pc[t] # "idle" => req[t].ws \in Workspace /\ Target(req[t]) \in ArgSet
    BY RequestFields
  <1>1. CASE Checkout(t)
    BY <1>0, <1>1 DEF Checkout
  <1>2. CASE Lock(t)
    BY <1>2 DEF Lock
  <1>3. CASE FindSession(t)
    BY <1>3 DEF FindSession, Own, OwnCheck, Peek, Check, Prune, Without, Return
  <1>4. CASE Spawn(t)
    <2> USE <1>0, <1>4 DEF Spawn
    <2>1. CASE Return(t) /\ dirs' = DirsAfterFailure(t) /\ UNCHANGED <<proc, wsIds, args>>
      BY <2>1 DEF Return, DirsAfterFailure
    <2>2. CASE UNCHANGED <<dirs, lock, req, cur, removal>>
      BY <2>2, SMTT(30)
    <2> QED
      BY <2>1, <2>2
  <1>5. CASE InitializeOk(t) \/ InitializeTimeout(t) \/ InitializeError(t)
    BY <1>5 DEF InitializeOk, InitializeTimeout, InitializeError, Return, DirsAfterFailure
  <1>6. CASE Persist(t)
    BY <1>0, <1>6 DEF Persist, Return
  <1>7. CASE Rollback(t) \/ RollbackKill(t)
    BY <1>7 DEF Rollback, RollbackKill, Return, DirsAfterFailure
  <1>8. CASE Attach(t) \/ Insert(t)
    BY <1>0, <1>8 DEF Attach, Insert, Held, Return
  <1>9. CASE Respawn(t)
    <2>1. CASE ReadCurrent(t) \/ Reregister(t) \/ KillOld(t)
      BY <2>1 DEF ReadCurrent, Reregister, KillOld, Return
    <2>2. CASE Retarget(t)
      BY <2>2 DEF Retarget, Retargeted
    <2> QED
      BY <1>9, <2>1, <2>2 DEF Respawn
  <1>10. CASE Remove(t)
    BY <1>10 DEF Remove, NextChild, Kill, Unregister, KillChild, RemoveDir,
                 RemoveDirFails, Drop, Without
  <1>11. CASE Sync(t)
    BY <1>11 DEF Sync, SyncSwap, SyncPrune, SyncKill, Without
  <1> QED
    BY <1>1, <1>2, <1>3, <1>4, <1>5, <1>6, <1>7, <1>8, <1>9, <1>10, <1>11
    DEF Step, SpawnSession, Publish

LEMMA TypeLocal ==
    ASSUME TypeInv, NEW t \in Task, Step(t) \/ Lock(t)
    PROVE  LocalTypeOK' /\ Located'
  <1> DEFINE LT == LocalTypeOK' /\ Located'
  <1> HIDE DEF LT
  <1> SUFFICES LT
    BY DEF LT
  <1>f. Finish(t) => LT
    BY FinishType DEF LT
  <1>g. ASSUME NEW label \in PcLabels \ (KillPc \cup {"initialize", "retarget"}),
               pc[t] # "idle", Goto(t, label), UNCHANGED local
        PROVE  LT
    BY <1>g, GotoType DEF LT
  <1>w. pc[t] # "idle" => req[t].ws \in Workspace
    BY RequestFields DEF TypeInv, Located
  <1>1. CASE Checkout(t)
    <2>1. CASE Goto(t, "lock") /\ UNCHANGED local
      BY <1>1, <1>g, <2>1 DEF Checkout, PcLabels, KillPc
    <2> QED
      BY <1>1, <1>f, <2>1 DEF Checkout
  <1>2. CASE Lock(t)
    BY <1>2, <1>g DEF Lock, FirstLocked, PcLabels, KillPc
  <1>3. CASE Own(t) \/ Peek(t)
    BY <1>3, <1>w DEF Own, Peek, InMap, LT, TypeInv, TypeOK, SharedTypeOK, LocalTypeOK,
                Located, Goto, PcLabels, KillPc, removal
  <1>4. CASE OwnCheck(t)
    <2>1. CASE Goto(t, "prune") /\ UNCHANGED <<lock, local>>
      BY <1>4, <1>g, <2>1 DEF OwnCheck, PcLabels, KillPc, local
    <2> QED
      BY <1>4, <1>f, <2>1 DEF OwnCheck, Return
  <1>5. CASE Check(t) \/ Prune(t)
    BY <1>5, <1>g DEF Check, Prune, PcLabels, KillPc, local
  <1>6. CASE Spawn(t)
    <2>1. CASE Return(t)
      BY <1>f, <2>1 DEF Return
    <2>2. ASSUME NEW p \in Proc, new' = [new EXCEPT ![t] = p], Goto(t, "initialize"),
                 UNCHANGED <<dirs, lock, req, cur, removal>>, pc[t] = "spawn"
          PROVE  LT
      BY <2>2 DEF LT, TypeInv, TypeOK, LocalTypeOK, Located, Goto, PcLabels, KillPc, removal
    <2> QED
      BY <1>6, <2>1, <2>2 DEF Spawn
  <1>7. CASE InitializeOk(t)
    <2>1. CASE req[t].kind = "args"
      <3>1. Goto(t, "retarget") /\ pc[t] = "initialize" /\ UNCHANGED local
        BY <1>7, <2>1 DEF InitializeOk, local
      <3> QED
        BY <3>1 DEF LT, TypeInv, TypeOK, LocalTypeOK, Located, Goto, PcLabels, KillPc, local
    <2> QED
      BY <1>7, <1>g, <2>1 DEF InitializeOk, PcLabels, KillPc, local
  <1>8. CASE InitializeTimeout(t) \/ InitializeError(t)
    BY <1>8, <1>f DEF InitializeTimeout, InitializeError, Return
  <1>9. CASE Persist(t) \/ Rollback(t)
    <2>1. CASE Return(t)
      BY <1>f, <2>1 DEF Return
    <2>2. CASE UNCHANGED local /\ ~Return(t)
      BY <1>9, <1>g, <2>2 DEF Persist, Rollback, PcLabels, KillPc
    <2> QED
      BY <1>9, <2>1, <2>2 DEF Persist, Rollback
  <1>10. CASE RollbackKill(t) \/ Insert(t)
    BY <1>10, <1>f DEF RollbackKill, Insert, Return
  <1>11. CASE Attach(t)
    BY <1>11, <1>g DEF Attach, PcLabels, KillPc
  <1>12. CASE ReadCurrent(t)
    <2>1. CASE Return(t)
      BY <1>f, <2>1 DEF Return
    <2>2. ASSUME NEW p \in InMap, cur' = [cur EXCEPT ![t] = p], Goto(t, "spawn"),
                 UNCHANGED <<lock, req, new, removal>>, pc[t] = "readCurrent"
          PROVE  LT
      BY <2>2 DEF LT, InMap, TypeInv, TypeOK, SharedTypeOK, LocalTypeOK, Located, Goto,
                  PcLabels, KillPc, removal
    <2> QED
      BY <1>12, <2>1, <2>2 DEF ReadCurrent
  <1>13. CASE Retarget(t)
    BY <1>13 DEF Retarget, Connected, LT, TypeInv, TypeOK, LocalTypeOK, Located, Goto,
                 PcLabels, KillPc
  <1>13b. CASE Reregister(t)
    <2>1. CASE Goto(t, "killOld") /\ UNCHANGED <<wsIds, todo>>
      BY <1>13b, <1>g, <2>1 DEF Reregister, PcLabels, KillPc, local
    <2>2. CASE UNCHANGED pc
      BY <1>13b, <2>2 DEF Reregister, LT, TypeInv, TypeOK, LocalTypeOK, Located, KillPc
    <2> QED
      BY <1>13b, <2>1, <2>2 DEF Reregister
  <1>14. CASE KillOld(t)
    BY <1>14, <1>f DEF KillOld, Return
  <1>15. CASE NextChild(t)
    BY <1>15, <1>w DEF NextChild, LT, TypeInv, TypeOK, LocalTypeOK, Located, Goto, PcLabels, KillPc
  <1>16. CASE Kill(t)
    BY <1>16 DEF Kill, AfterKill, LT, TypeInv, TypeOK, SharedTypeOK, LocalTypeOK,
                 Located, Goto, PcLabels, KillPc, removal
  <1>17. CASE Unregister(t) \/ KillChild(t)
    BY <1>17 DEF Unregister, KillChild, AfterKill, LT, TypeInv, TypeOK, LocalTypeOK,
                 Located, Goto, PcLabels, KillPc, local
  <1>18. CASE RemoveDir(t)
    BY <1>18 DEF RemoveDir, LT, TypeInv, TypeOK, LocalTypeOK, Located, Goto, PcLabels, KillPc
  <1>19. CASE RemoveDirFails(t)
    <2>1. CASE Goto(t, "nextChild") /\ kept' = [kept EXCEPT ![t] = @ \cup {victim[t]}]
               /\ UNCHANGED <<req, cur, new, todo, gone, victim, doomed>>
      <3>1. victim[t] \in Workspace
        BY <1>19 DEF RemoveDirFails, TypeInv, TypeOK, SharedTypeOK
      <3> QED
        BY <1>19, <2>1, <3>1 DEF RemoveDirFails, LT, TypeInv, TypeOK, LocalTypeOK,
                                 Located, Goto, PcLabels, KillPc
    <2> QED
      BY <1>19, <1>f, <2>1 DEF RemoveDirFails
  <1>20. CASE Drop(t)
    BY <1>20, <1>f DEF Drop
  <1>21. CASE SyncSwap(t)
    BY <1>21, <1>g DEF SyncSwap, PcLabels, KillPc
  <1>22. CASE SyncPrune(t)
    BY <1>22 DEF SyncPrune, Connected, LT, TypeInv, TypeOK, SharedTypeOK, LocalTypeOK,
                 Located, Goto, PcLabels, KillPc
  <1>23. CASE SyncKill(t)
    <2>1. CASE Finish(t)
      BY <1>f, <2>1
    <2>2. CASE ~Finish(t)
      BY <1>23, <2>2 DEF SyncKill, LT, TypeInv, TypeOK, LocalTypeOK, Located, KillPc
    <2> QED
      BY <2>1, <2>2
  <1> QED
    BY <1>1, <1>2, <1>3, <1>4, <1>5, <1>6, <1>7, <1>8, <1>9, <1>10, <1>11, <1>12, <1>13, <1>13b,
       <1>14, <1>15, <1>16, <1>17, <1>18, <1>19, <1>20, <1>21, <1>22, <1>23
    DEF Step, FindSession, SpawnSession, Publish, Respawn, Remove, Sync

LEMMA TypeNext ==
    ASSUME TypeInv, [Next]_vars
    PROVE  TypeInv'
  <1>1. CASE \E t \in Task, r \in Request : Begin(t, r)
    BY <1>1, TypeBegin
  <1>2. CASE \E t \in Task : Lock(t) \/ Step(t)
    BY <1>2, TypeShared, TypeLocal DEF TypeInv, TypeOK
  <1>3. CASE \E p \in Proc : Crash(p)
    BY <1>3 DEF Crash, TypeInv, TypeOK, SharedTypeOK, LocalTypeOK, Located, local
  <1>4. CASE UNCHANGED vars
    BY <1>4 DEF vars, shared, local, TypeInv, TypeOK, SharedTypeOK, LocalTypeOK, Located, KillPc
  <1> QED
    BY <1>1, <1>2, <1>3, <1>4 DEF Next

\* Every variable keeps its type (TypeOK), whatever requests arrive.
THEOREM TypeCorrect == Spec => []TypeOK
  <1>1. Spec => []TypeInv
    BY TypeInit, TypeNext, PTL DEF Spec, Safety
  <1>2. TypeInv => TypeOK
    BY DEF TypeInv
  <1> QED
    BY <1>1, <1>2, PTL

------------------------------------------------------------------------------
(* One app-server for everybody.  Only the holder of the spawn lock adds   *)
(* ids to the map; the inductive invariant says what the holder knows of   *)
(* the map at each label, which stays true because everybody else can only *)
(* take ids out of it.                                                      *)

LockedPc ==
    {"own", "ownCheck", "peek", "check", "prune", "spawn", "initialize", "persist",
     "rollback", "rollbackKill", "attach", "insert", "readCurrent", "retarget",
     "reregister", "killOld"}
EarlyPc ==
    {"idle", "checkout", "lock", "own", "ownCheck", "peek", "check", "prune",
     "spawn", "readCurrent"}

\* A handler is between acquiring and dropping the guard iff it is the owner.
LockInv == \A t \in Task : pc[t] \in LockedPc <=> lock = t

\* No workspace is connected to anything but p.
Only(p) == \A w \in Workspace : sessions[w] \in {p, None}

\* Sessions that are referenced belong to processes that were started.
Started ==
    /\ \A w \in Workspace : sessions[w] # None => proc[sessions[w]] # "unused"
    /\ \A t \in Task : cur[t] # None => proc[cur[t]] # "unused"
NewStarted == \A t \in Task : new[t] # None => proc[new[t]] # "unused"

\* What handler t knows of the map, label by label.
Knows(t) ==
    /\ pc[t] \in EarlyPc => new[t] = None
    /\ pc[t] \in {"own", "ownCheck", "peek", "check", "prune"} => req[t].kind # "args"
    /\ pc[t] = "readCurrent" => req[t].kind = "args"
    /\ pc[t] \in {"ownCheck", "check", "prune"} => cur[t] \in Proc /\ Only(cur[t])
    /\ pc[t] \in {"persist", "rollback", "attach", "insert"} =>
          \/ new[t] = None /\ cur[t] \in Proc /\ Only(cur[t])
          \/ new[t] # None /\ Only(None)
    /\ pc[t] = "rollbackKill" => new[t] # None /\ Only(None)
    /\ pc[t] \in {"spawn", "initialize"} /\ req[t].kind # "args" => Only(None)
    /\ pc[t] = "spawn" /\ req[t].kind = "args" => cur[t] \in Proc
    /\ pc[t] = "initialize" /\ req[t].kind = "args" => cur[t] \in Proc /\ cur[t] # new[t]
    /\ pc[t] = "retarget" => cur[t] \in Proc /\ cur[t] # new[t]
    /\ pc[t] \in {"reregister", "killOld"} =>
          cur[t] \in Proc /\ new[t] \in Proc /\ cur[t] # new[t] /\ Only(new[t])

PoolInv ==
    /\ TypeInv
    /\ LockInv
    /\ SingleSharedSession
    /\ Started
    /\ \A t \in Task : Knows(t)

LEMMA PoolInit == Init => PoolInv
  <1> SUFFICES ASSUME Init PROVE PoolInv
    OBVIOUS
  <1>1. TypeInv
    BY TypeInit
  <1>2. LockInv
    BY NoneAssumption DEF Init, LockInv, LockedPc
  <1>3. SingleSharedSession /\ Started
    BY DEF Init, SingleSharedSession, Connected, Started
  <1>4. \A t \in Task : Knows(t)
    BY DEF Init, Knows, EarlyPc
  <1> QED
    BY <1>1, <1>2, <1>3, <1>4 DEF PoolInv

\* A step of a handler that is outside the lock, and takes ids out of the map
\* at most, disturbs nothing.
LEMMA OutsideStep ==
    ASSUME PoolInv, TypeInv', NEW t \in Task,
           pc[t] \notin LockedPc, pc'[t] \notin LockedPc,
           pc'[t] \in EarlyPc => new'[t] = None,
           cur'[t] # None => proc'[cur'[t]] # "unused",
           \A u \in Task \ {t} : /\ pc'[u] = pc[u] /\ req'[u] = req[u]
                                 /\ cur'[u] = cur[u] /\ new'[u] = new[u],
           \A w \in Workspace : sessions'[w] \in {sessions[w], None},
           \A p \in Proc : proc[p] # "unused" => proc'[p] # "unused",
           lock' = lock
    PROVE  PoolInv'
  <1>0. TypeOK /\ TypeOK' /\ LockInv /\ SingleSharedSession /\ Started
        /\ \A u \in Task : Knows(u)
    BY DEF PoolInv, TypeInv
  <1>1. LockInv'
    BY <1>0 DEF LockInv
  <1>2. SingleSharedSession'
    BY <1>0 DEF SingleSharedSession, Connected
  <1>3. Started'
    <2>1. ASSUME NEW w \in Workspace, sessions'[w] # None
          PROVE  proc'[sessions'[w]] # "unused"
      <3>1. sessions'[w] = sessions[w] /\ sessions[w] \in Proc
        BY <1>0, <2>1 DEF TypeOK, SharedTypeOK
      <3> QED
        BY <1>0, <2>1, <3>1 DEF Started
    <2>2. ASSUME NEW u \in Task, cur'[u] # None PROVE proc'[cur'[u]] # "unused"
      <3>1. CASE u # t
        <4>1. cur'[u] = cur[u] /\ cur[u] \in Proc
          BY <1>0, <2>2, <3>1 DEF TypeOK, LocalTypeOK
        <4> QED
          BY <1>0, <2>2, <4>1 DEF Started
      <3> QED
        BY <2>2, <3>1
    <2> QED
      BY <2>1, <2>2 DEF Started
  <1>4. ASSUME NEW u \in Task PROVE Knows(u)'
    <2>1. CASE u = t
      BY <1>0, <2>1 DEF Knows, LockedPc
    <2>2. CASE u # t
      <3>1. ASSUME NEW p, Only(p) PROVE Only(p)'
        BY <3>1 DEF Only
      <3>2. pc'[u] = pc[u] /\ req'[u] = req[u] /\ cur'[u] = cur[u] /\ new'[u] = new[u]
        BY <2>2
      <3>3. Knows(u)
        BY <1>0
      <3> QED
        BY <3>2, <3>3, <3>1 DEF Knows, Only
    <2> QED
      BY <2>1, <2>2
  <1> QED
    BY <1>1, <1>2, <1>3, <1>4 DEF PoolInv

\* A step of the owner of the lock only has to establish what it knows itself.
LEMMA InsideStep ==
    ASSUME PoolInv, TypeInv', NEW t \in Task, lock = t,
           (pc'[t] \in LockedPc /\ lock' = t) \/ (pc'[t] = "idle" /\ lock' = None),
           \A u \in Task \ {t} : /\ pc'[u] = pc[u] /\ req'[u] = req[u]
                                 /\ cur'[u] = cur[u] /\ new'[u] = new[u],
           SingleSharedSession', Started', Knows(t)'
    PROVE  PoolInv'
  <1>0. LockInv /\ \A u \in Task : Knows(u)
    BY DEF PoolInv
  <1>1. LockInv'
    BY <1>0, NoneAssumption DEF LockInv, LockedPc
  <1>2. ASSUME NEW u \in Task PROVE Knows(u)'
    <2>1. CASE u # t
      <3>1. pc[u] \notin LockedPc
        BY <1>0, <2>1 DEF LockInv
      <3> QED
        BY <1>0, <2>1, <3>1 DEF Knows, LockedPc
    <2> QED
      BY <2>1
  <1> QED
    BY <1>1, <1>2 DEF PoolInv

LEMMA PoolOutside ==
    ASSUME PoolInv, TypeInv', NEW t \in Task,
           \/ \E r \in Request : Begin(t, r)
           \/ Checkout(t) \/ Remove(t) \/ Sync(t)
    PROVE  PoolInv'
  <1>0. TypeOK /\ Started /\ Knows(t)
    BY DEF PoolInv, TypeInv
  <1>u. LocalTypeOK
    BY <1>0 DEF TypeOK
  <1>1. ASSUME NEW r \in Request, Begin(t, r) PROVE PoolInv'
    <2>1. /\ pc[t] = "idle" /\ pc' = [pc EXCEPT ![t] = pc'[t]]
          /\ pc'[t] \in {"lock", "checkout", "nextChild", "kill", "syncSwap"}
          /\ req' = [req EXCEPT ![t] = r]
          /\ UNCHANGED <<shared, lock, cur, new>>
      BY <1>1, <1>u DEF Begin, BeginAttach, BeginAdd, BeginCheckout, BeginRemove,
                        BeginRemoveWorktree, BeginSync, Accept, Goto, LocalTypeOK
    <2>2. new[t] = None
      BY <1>0, <2>1 DEF Knows, EarlyPc
    <2>3. pc[t] \notin LockedPc /\ pc'[t] \notin LockedPc
      BY <2>1 DEF LockedPc
    <2>4. cur'[t] # None => proc'[cur'[t]] # "unused"
      BY <1>0, <2>1 DEF Started, shared
    <2>5. \A u \in Task \ {t} : /\ pc'[u] = pc[u] /\ req'[u] = req[u]
                                /\ cur'[u] = cur[u] /\ new'[u] = new[u]
      BY <1>u, <2>1 DEF LocalTypeOK
    <2> QED
      BY <2>1, <2>2, <2>3, <2>4, <2>5, OutsideStep DEF shared
  <1>2. ASSUME Checkout(t) \/ Remove(t) \/ Sync(t) PROVE PoolInv'
    <2>1. /\ pc[t] \in {"checkout", "nextChild", "kill", "unregisterShared",
                        "unregisterLast", "killChild", "rmdir", "drop", "syncSwap",
                        "syncPrune", "syncKill"}
          /\ lock' = lock
      BY <1>2 DEF Checkout, Remove, Sync, NextChild, Kill, Unregister, KillChild,
                  RemoveDir, RemoveDirFails, Drop, SyncSwap, SyncPrune, SyncKill
    <2>2. \/ Finish(t)
          \/ /\ pc' = [pc EXCEPT ![t] = pc'[t]]
             /\ pc'[t] \in {"lock", "nextChild", "kill", "unregisterShared",
                            "unregisterLast", "killChild", "rmdir", "drop",
                            "syncPrune", "syncKill"}
             /\ pc'[t] = "lock" => pc[t] = "checkout"
             /\ UNCHANGED <<req, new>>
             /\ cur' = cur \/ (pc[t] = "kill" /\ cur' = [cur EXCEPT ![t] = sessions[victim[t]]])
      BY <1>2, <1>u DEF Checkout, Remove, Sync, NextChild, Kill, Unregister, KillChild,
                  RemoveDir, RemoveDirFails, Drop, SyncSwap, SyncPrune, SyncKill, Goto,
                  AfterKill, local, removal, LocalTypeOK
    <2>3. \A w \in Workspace : sessions'[w] \in {sessions[w], None}
      BY <1>2 DEF Checkout, Remove, Sync, NextChild, Kill, Unregister, KillChild,
                  RemoveDir, RemoveDirFails, Drop, SyncSwap, SyncPrune, SyncKill,
                  shared, Without
    <2>4. proc' = proc \/ \E p : proc' = Killed(p)
      BY <1>2 DEF Checkout, Remove, Sync, NextChild, Kill, Unregister, KillChild,
                  RemoveDir, RemoveDirFails, Drop, SyncSwap, SyncPrune, SyncKill, shared
    <2>5. \A p \in Proc : proc[p] # "unused" => proc'[p] # "unused"
      BY <1>0, <2>4 DEF Killed, TypeOK, SharedTypeOK
    <2>6. pc[t] \notin LockedPc /\ pc'[t] \notin LockedPc
      BY <2>1, <2>2, <1>u DEF LockedPc, Finish, Goto, LocalTypeOK
    <2>7. pc'[t] \in EarlyPc => new'[t] = None
      BY <1>0, <1>u, <2>1, <2>2 DEF EarlyPc, Finish, Goto, LocalTypeOK, Knows
    <2>8. cur'[t] # None => proc'[cur'[t]] # "unused"
      <3>1. CASE Finish(t)
        BY <3>1, <1>u DEF Finish, LocalTypeOK
      <3>2. CASE cur' = cur
        BY <3>2, <2>5, <1>0, <1>u DEF Started, LocalTypeOK
      <3>3. CASE pc[t] = "kill" /\ cur' = [cur EXCEPT ![t] = sessions[victim[t]]]
        <4>1. victim[t] \in Workspace
          BY <3>3 DEF PoolInv, TypeInv, Located, KillPc
        <4> QED
          BY <3>3, <4>1, <2>5, <1>0, <1>u DEF Started, LocalTypeOK, TypeOK, SharedTypeOK
      <3> QED
        BY <2>2, <3>1, <3>2, <3>3
    <2>9. \A u \in Task \ {t} : /\ pc'[u] = pc[u] /\ req'[u] = req[u]
                                /\ cur'[u] = cur[u] /\ new'[u] = new[u]
      BY <1>u, <2>2 DEF LocalTypeOK, Finish, Goto
    <2> QED
      BY <2>1, <2>3, <2>5, <2>6, <2>7, <2>8, <2>9, OutsideStep
  <1> QED
    BY <1>1, <1>2

LEMMA PoolLock ==
    ASSUME PoolInv, TypeInv', NEW t \in Task, Lock(t)
    PROVE  PoolInv'
  <1>0. /\ LocalTypeOK /\ LockInv /\ SingleSharedSession /\ Started
        /\ \A u \in Task : Knows(u)
    BY DEF PoolInv, TypeInv, TypeOK
  <1>1. /\ pc[t] = "lock" /\ lock = None /\ lock' = t
        /\ pc' = [pc EXCEPT ![t] = pc'[t]] /\ pc'[t] \in {"own", "readCurrent", "peek"}
        /\ pc'[t] = "readCurrent" <=> req[t].kind = "args"
        /\ UNCHANGED <<shared, local>>
    BY <1>0 DEF Lock, FirstLocked, Goto, LocalTypeOK
  <1>2. \A u \in Task : pc[u] \notin LockedPc
    BY <1>0, <1>1, NoneAssumption DEF LockInv
  <1>3. LockInv'
    BY <1>0, <1>1, <1>2 DEF LockInv, LockedPc, LocalTypeOK
  <1>4. SingleSharedSession' /\ Started'
    BY <1>0, <1>1 DEF SingleSharedSession, Connected, Started, shared, local
  <1>5. ASSUME NEW u \in Task PROVE Knows(u)'
    <2>1. CASE u = t
      BY <1>0, <1>1, <2>1 DEF Knows, EarlyPc, local
    <2>2. CASE u # t
      BY <1>0, <1>1, <1>2, <2>2 DEF Knows, LockedPc, EarlyPc, local, LocalTypeOK
    <2> QED
      BY <2>1, <2>2
  <1> QED
    BY <1>3, <1>4, <1>5 DEF PoolInv

\* Returning gives the lock back and leaves nothing to know.
LEMMA ReturnStep ==
    ASSUME PoolInv, TypeInv', NEW t \in Task, lock = t, Return(t),
           SingleSharedSession',
           \A w \in Workspace : sessions'[w] # None => proc'[sessions'[w]] # "unused",
           \A p \in Proc : proc[p] # "unused" => proc'[p] # "unused"
    PROVE  PoolInv'
  <1>0. LocalTypeOK /\ Started
    BY DEF PoolInv, TypeInv, TypeOK
  <1>1. /\ pc'[t] = "idle" /\ lock' = None /\ cur'[t] = None /\ new'[t] = None
        /\ \A u \in Task \ {t} : /\ pc'[u] = pc[u] /\ req'[u] = req[u]
                                 /\ cur'[u] = cur[u] /\ new'[u] = new[u]
    BY <1>0 DEF Return, Finish, Goto, LocalTypeOK
  <1>2. Started'
    BY <1>0, <1>1 DEF Started, LocalTypeOK
  <1>3. Knows(t)'
    BY <1>1 DEF Knows
  <1> QED
    BY <1>1, <1>2, <1>3, InsideStep

\* Going on inside the lock, with the map and the processes as they were.
LEMMA LookStep ==
    ASSUME PoolInv, TypeInv', NEW t \in Task, lock = t, NEW label \in LockedPc,
           Goto(t, label), lock' = lock, req' = req, new' = new,
           cur' = [cur EXCEPT ![t] = cur'[t]],
           sessions' = sessions, proc' = proc,
           cur'[t] # None => proc[cur'[t]] # "unused",
           Knows(t)'
    PROVE  PoolInv'
  <1>0. LocalTypeOK /\ Started /\ SingleSharedSession
    BY DEF PoolInv, TypeInv, TypeOK
  <1>1. /\ pc'[t] \in LockedPc
        /\ \A u \in Task \ {t} : /\ pc'[u] = pc[u] /\ req'[u] = req[u]
                                 /\ cur'[u] = cur[u] /\ new'[u] = new[u]
    BY <1>0 DEF Goto, LocalTypeOK
  <1>2. SingleSharedSession'
    BY <1>0 DEF SingleSharedSession, Connected
  <1>3. Started'
    BY <1>0, <1>1 DEF Started, LocalTypeOK
  <1> QED
    BY <1>1, <1>2, <1>3, InsideStep

LEMMA PoolFind ==
    ASSUME PoolInv, TypeInv', NEW t \in Task, FindSession(t)
    PROVE  PoolInv'
  <1>0. /\ LocalTypeOK /\ SharedTypeOK /\ LockInv /\ SingleSharedSession /\ Started
        /\ Knows(t) /\ Located
    BY DEF PoolInv, TypeInv, TypeOK
  <1>1. pc[t] \in LockedPc /\ lock = t
    BY <1>0 DEF FindSession, Own, OwnCheck, Peek, Check, Prune, LockInv, LockedPc
  <1>2. req[t] \in Request /\ req[t].ws \in Workspace
    BY <1>0, <1>1, RequestFields DEF Located, LockedPc
  <1>3. CASE Own(t)
    <2>1. CASE sessions[req[t].ws] # None /\ cur' = [cur EXCEPT ![t] = sessions[req[t].ws]]
               /\ Goto(t, "ownCheck")
      <3>1. Only(sessions[req[t].ws])
        BY <1>0, <1>2, <2>1 DEF SingleSharedSession, Connected, Only
      <3>2. Knows(t)'
        BY <1>0, <1>2, <1>3, <2>1, <3>1
        DEF Own, Knows, Goto, Only, LocalTypeOK, SharedTypeOK, EarlyPc, shared
      <3> QED
        BY <1>0, <1>1, <1>2, <1>3, <2>1, <3>2, LookStep
        DEF Own, shared, LockedPc, Started, LocalTypeOK
    <2>2. CASE Goto(t, "peek") /\ UNCHANGED cur
      <3>1. Knows(t)'
        BY <1>0, <1>3, <2>2 DEF Own, Knows, Goto, LocalTypeOK, EarlyPc
      <3> QED
        BY <1>0, <1>1, <1>3, <2>2, <3>1, LookStep
        DEF Own, shared, LockedPc, Started, LocalTypeOK
    <2> QED
      BY <1>3, <2>1, <2>2 DEF Own
  <1>4. CASE OwnCheck(t)
    <2>1. CASE Return(t)
      BY <1>0, <1>1, <1>4, <2>1, ReturnStep
      DEF OwnCheck, shared, SingleSharedSession, Connected, Started
    <2>2. CASE Goto(t, "prune") /\ UNCHANGED <<lock, local>>
      <3>1. Knows(t)'
        BY <1>0, <1>4, <2>2
        DEF OwnCheck, Knows, Goto, Only, LocalTypeOK, EarlyPc, shared, local
      <3> QED
        BY <1>0, <1>1, <1>4, <2>2, <3>1, LookStep
        DEF OwnCheck, shared, local, LockedPc, Started, LocalTypeOK
    <2> QED
      BY <1>4, <2>1, <2>2 DEF OwnCheck
  <1>5. CASE Peek(t)
    <2>1. ASSUME NEW p \in InMap, cur' = [cur EXCEPT ![t] = p], Goto(t, "check")
          PROVE  PoolInv'
      <3>1. p \in Proc /\ Only(p) /\ proc[p] # "unused"
        BY <1>0 DEF InMap, SingleSharedSession, Connected, Only, SharedTypeOK, Started
      <3>2. Knows(t)'
        BY <1>0, <1>5, <2>1, <3>1
        DEF Peek, Knows, Goto, Only, LocalTypeOK, EarlyPc, shared
      <3> QED
        BY <1>0, <1>1, <1>5, <2>1, <3>1, <3>2, LookStep
        DEF Peek, shared, LockedPc, LocalTypeOK
    <2>2. CASE InMap = {} /\ cur' = [cur EXCEPT ![t] = None] /\ Goto(t, "spawn")
      <3>1. Only(None)
        BY <2>2 DEF InMap, Only
      <3>2. req[t].kind # "args"
        BY <1>0, <1>5 DEF Peek, Knows
      <3>3. Knows(t)'
        BY <1>0, <1>5, <2>2, <3>1, <3>2
        DEF Peek, Knows, Goto, Only, LocalTypeOK, EarlyPc, shared
      <3> QED
        BY <1>0, <1>1, <1>5, <2>2, <3>3, LookStep
        DEF Peek, shared, LockedPc, LocalTypeOK
    <2> QED
      BY <1>5, <2>1, <2>2 DEF Peek
  <1>6. CASE Check(t)
    <2>1. ASSUME NEW label \in {"prune", "attach", "persist"}, Goto(t, label) PROVE PoolInv'
      <3>1. Knows(t)'
        BY <1>0, <1>6, <2>1
        DEF Check, Knows, Goto, Only, LocalTypeOK, EarlyPc, shared, local
      <3> QED
        BY <1>0, <1>1, <1>6, <2>1, <3>1, LookStep
        DEF Check, shared, local, LockedPc, Started, LocalTypeOK
    <2> QED
      BY <1>6, <2>1 DEF Check
  <1>7. CASE Prune(t)
    <2>1. Only(cur[t])
      BY <1>0, <1>7 DEF Prune, Knows
    <2>2. \A w \in Workspace : sessions'[w] = None
      BY <1>7, <2>1 DEF Prune, Only, Without
    <2>3. SingleSharedSession'
      BY <2>2 DEF SingleSharedSession, Connected
    <2>4. Started'
      BY <1>0, <1>7, <2>2 DEF Prune, Started, local
    <2>5. Knows(t)'
      BY <1>0, <1>7, <2>2 DEF Prune, Knows, Goto, LocalTypeOK, EarlyPc, local
    <2> QED
      BY <1>0, <1>1, <1>7, <2>3, <2>4, <2>5, InsideStep
      DEF Prune, Goto, local, LockedPc, LocalTypeOK
  <1> QED
    BY <1>3, <1>4, <1>5, <1>6, <1>7 DEF FindSession

LEMMA PoolSpawn ==
    ASSUME PoolInv, TypeInv', NEW t \in Task, SpawnSession(t)
    PROVE  PoolInv'
  <1>0. /\ LocalTypeOK /\ SharedTypeOK /\ LockInv /\ SingleSharedSession /\ Started
        /\ Knows(t) /\ Located
    BY DEF PoolInv, TypeInv, TypeOK
  <1>1. pc[t] \in {"spawn", "initialize"} /\ lock = t
    BY <1>0 DEF SpawnSession, Spawn, InitializeOk, InitializeTimeout, InitializeError,
                LockInv, LockedPc
  <1>2. /\ sessions' = sessions
        /\ \A p \in Proc : proc[p] # "unused" => proc'[p] # "unused"
    BY <1>0 DEF SpawnSession, Spawn, InitializeOk, InitializeTimeout, InitializeError,
                SharedTypeOK, Killed, shared
  <1>3. SingleSharedSession'
    BY <1>0, <1>2 DEF SingleSharedSession, Connected
  <1>4. \A w \in Workspace : sessions'[w] # None => proc'[sessions'[w]] # "unused"
    BY <1>0, <1>2 DEF Started, SharedTypeOK
  <1>r. CASE Return(t)
    BY <1>1, <1>2, <1>3, <1>4, <1>r, ReturnStep
  <1>5. ASSUME NEW p \in Proc, pc[t] = "spawn", proc[p] = "unused",
               new' = [new EXCEPT ![t] = p], Goto(t, "initialize"),
               UNCHANGED <<dirs, lock, req, cur, removal>>
        PROVE  PoolInv'
    <2>1. Started'
      BY <1>0, <1>2, <1>4, <1>5 DEF Started, LocalTypeOK
    <2>2. req[t].kind = "args" => cur[t] \in Proc /\ cur[t] # p
      BY <1>0, <1>5, NoneAssumption DEF Knows, Started
    <2>3. Knows(t)'
      BY <1>0, <1>2, <1>5, <2>2 DEF Knows, Goto, Only, LocalTypeOK, EarlyPc
    <2> QED
      BY <1>0, <1>1, <1>3, <1>5, <2>1, <2>3, InsideStep DEF Goto, LockedPc, LocalTypeOK
  <1>6. CASE InitializeOk(t)
    <2>1. ASSUME NEW label \in {"attach", "retarget", "persist"}, Goto(t, label),
                 label = "retarget" <=> req[t].kind = "args"
          PROVE  PoolInv'
      <3>1. new[t] \in Proc
        BY <1>0, <1>6 DEF InitializeOk, Located
      <3>2. Knows(t)'
        BY <1>0, <1>6, <2>1, <3>1, NoneAssumption
        DEF InitializeOk, Knows, Goto, Only, LocalTypeOK, EarlyPc, shared, local
      <3> QED
        BY <1>0, <1>1, <1>6, <2>1, <3>2, LookStep
        DEF InitializeOk, shared, local, LockedPc, Started, LocalTypeOK
    <2> QED
      BY <1>6, <2>1 DEF InitializeOk
  <1> QED
    BY <1>r, <1>5, <1>6
    DEF SpawnSession, Spawn, InitializeOk, InitializeTimeout, InitializeError

LEMMA PoolPublish ==
    ASSUME PoolInv, NewStarted, TypeInv', NEW t \in Task, Publish(t)
    PROVE  PoolInv'
  <1>0. /\ LocalTypeOK /\ SharedTypeOK /\ LockInv /\ SingleSharedSession /\ Started
        /\ Knows(t) /\ Located
    BY DEF PoolInv, TypeInv, TypeOK
  <1>1. pc[t] \in LockedPc /\ lock = t
    BY <1>0 DEF Publish, Persist, Rollback, RollbackKill, Attach, Insert, LockInv, LockedPc
  <1>2. \A p \in Proc : proc[p] # "unused" => proc'[p] # "unused"
    BY <1>0 DEF Publish, Persist, Rollback, RollbackKill, Attach, Insert, SharedTypeOK, Killed
  <1>3. CASE Return(t) /\ sessions' = sessions
    <2>1. SingleSharedSession'
      BY <1>0, <1>3 DEF SingleSharedSession, Connected
    <2>2. \A w \in Workspace : sessions'[w] # None => proc'[sessions'[w]] # "unused"
      BY <1>0, <1>2, <1>3 DEF Started, SharedTypeOK
    <2> QED
      BY <1>1, <1>2, <1>3, <2>1, <2>2, ReturnStep
  <1>4. ASSUME NEW label \in {"attach", "rollback", "insert"}, Goto(t, label),
               pc[t] \in {"persist", "attach"},
               UNCHANGED <<sessions, proc, lock, local>>
        PROVE  PoolInv'
    <2>1. Knows(t)'
      BY <1>0, <1>4 DEF Knows, Goto, Only, LocalTypeOK, EarlyPc, local
    <2> QED
      BY <1>0, <1>1, <1>4, <2>1, LookStep DEF local, LockedPc, Started, LocalTypeOK
  <1>5. CASE Persist(t)
    BY <1>3, <1>4, <1>5 DEF Persist
  <1>6. CASE Rollback(t)
    <2>1. CASE new[t] # None /\ Goto(t, "rollbackKill") /\ UNCHANGED <<dirs, lock, local>>
      <3>1. Knows(t)'
        BY <1>0, <1>6, <2>1
        DEF Rollback, Knows, Goto, Only, LocalTypeOK, EarlyPc, local
      <3> QED
        BY <1>0, <1>1, <1>6, <2>1, <3>1, LookStep
        DEF Rollback, local, LockedPc, Started, LocalTypeOK
    <2> QED
      BY <1>3, <1>6, <2>1 DEF Rollback
  <1>7. CASE RollbackKill(t)
    BY <1>3, <1>7 DEF RollbackKill
  <1>8. CASE Attach(t)
    BY <1>4, <1>8 DEF Attach
  <1>9. CASE Insert(t)
    <2>1. Only(Held(t)) /\ Held(t) \in Proc
      BY <1>0, <1>9 DEF Insert, Knows, Held, Only, LocalTypeOK
    <2>2. \A w \in Workspace : sessions'[w] \in {Held(t), None}
      BY <1>0, <1>9, <2>1 DEF Insert, Only, SharedTypeOK
    <2>3. SingleSharedSession'
      BY <2>2 DEF SingleSharedSession, Connected
    <2>4. proc[Held(t)] # "unused"
      <3>1. CASE new[t] = None
        BY <1>0, <2>1, <3>1, NoneAssumption DEF Held, Started
      <3>2. CASE new[t] # None
        BY <3>2 DEF Held, NewStarted
      <3> QED
        BY <3>1, <3>2
    <2> QED
      BY <1>1, <1>2, <1>9, <2>2, <2>3, <2>4, NoneAssumption, ReturnStep DEF Insert
  <1> QED
    BY <1>5, <1>6, <1>7, <1>8, <1>9 DEF Publish

LEMMA PoolRespawn ==
    ASSUME PoolInv, NewStarted, TypeInv', NEW t \in Task, Respawn(t)
    PROVE  PoolInv'
  <1>0. /\ LocalTypeOK /\ SharedTypeOK /\ LockInv /\ SingleSharedSession /\ Started
        /\ Knows(t) /\ Located
    BY DEF PoolInv, TypeInv, TypeOK
  <1>1. pc[t] \in LockedPc /\ lock = t
    BY <1>0 DEF Respawn, ReadCurrent, Retarget, Reregister, KillOld, LockInv, LockedPc
  <1>2. \A p \in Proc : proc[p] # "unused" => proc'[p] # "unused"
    BY <1>0 DEF Respawn, ReadCurrent, Retarget, Reregister, KillOld, SharedTypeOK, Killed,
                shared
  <1>3. CASE Return(t) /\ sessions' = sessions
    <2>1. SingleSharedSession'
      BY <1>0, <1>3 DEF SingleSharedSession, Connected
    <2>2. \A w \in Workspace : sessions'[w] # None => proc'[sessions'[w]] # "unused"
      BY <1>0, <1>2, <1>3 DEF Started, SharedTypeOK
    <2> QED
      BY <1>1, <1>2, <1>3, <2>1, <2>2, ReturnStep
  <1>4. CASE ReadCurrent(t)
    <2>1. ASSUME NEW p \in InMap, cur' = [cur EXCEPT ![t] = p], Goto(t, "spawn"),
                 UNCHANGED <<lock, req, new, removal>>
          PROVE  PoolInv'
      <3>1. p \in Proc /\ proc[p] # "unused"
        BY <1>0 DEF InMap, SharedTypeOK, Started
      <3>2. Knows(t)'
        BY <1>0, <1>4, <2>1, <3>1
        DEF ReadCurrent, Knows, Goto, Only, LocalTypeOK, EarlyPc, shared
      <3> QED
        BY <1>0, <1>1, <1>4, <2>1, <3>1, <3>2, LookStep
        DEF ReadCurrent, shared, LockedPc, LocalTypeOK
    <2> QED
      BY <1>3, <1>4, <2>1 DEF ReadCurrent, shared
  <1>5. CASE Retarget(t)
    <2>1. new[t] \in Proc /\ cur[t] \in Proc /\ cur[t] # new[t] /\ proc[new[t]] # "unused"
      BY <1>0, <1>5, NoneAssumption DEF Retarget, Knows, Located, NewStarted
    <2>2. \A w \in Workspace : sessions'[w] \in {new[t], None}
      BY <1>5 DEF Retarget, Retargeted
    <2>3. SingleSharedSession'
      BY <2>2 DEF SingleSharedSession, Connected
    <2>4. Started'
      BY <1>0, <1>5, <2>1, <2>2 DEF Retarget, Started
    <2>5. Knows(t)'
      BY <1>0, <1>5, <2>1, <2>2 DEF Retarget, Knows, Goto, Only, LocalTypeOK, EarlyPc
    <2> QED
      BY <1>0, <1>1, <1>5, <2>3, <2>4, <2>5, InsideStep
      DEF Retarget, Goto, LockedPc, LocalTypeOK
  <1>6. CASE Reregister(t)
    <2>1. pc'[t] \in {"reregister", "killOld"} /\ Goto(t, pc'[t])
      BY <1>0, <1>6 DEF Reregister, Goto, LocalTypeOK
    <2>2. Knows(t)'
      BY <1>0, <1>6, <2>1 DEF Reregister, Knows, Goto, Only, LocalTypeOK, EarlyPc
    <2> QED
      BY <1>0, <1>1, <1>6, <2>1, <2>2, LookStep
      DEF Reregister, LockedPc, LocalTypeOK, Started
  <1>7. CASE KillOld(t)
    BY <1>3, <1>7 DEF KillOld
  <1> QED
    BY <1>4, <1>5, <1>6, <1>7 DEF Respawn

LEMMA PoolCrash ==
    ASSUME PoolInv, TypeInv', NEW p \in Proc, Crash(p)
    PROVE  PoolInv'
  <1>0. /\ LocalTypeOK /\ SharedTypeOK /\ LockInv /\ SingleSharedSession /\ Started
        /\ \A t \in Task : Knows(t)
    BY DEF PoolInv, TypeInv, TypeOK
  <1>1. /\ UNCHANGED <<sessions, lock, pc, local>>
        /\ \A q \in Proc : proc[q] # "unused" => proc'[q] # "unused"
    BY <1>0 DEF Crash, SharedTypeOK
  <1>2. LockInv'
    BY <1>0, <1>1 DEF LockInv
  <1>3. SingleSharedSession'
    BY <1>0, <1>1 DEF SingleSharedSession, Connected
  <1>4. Started'
    BY <1>0, <1>1 DEF Started, SharedTypeOK, LocalTypeOK, local
  <1>5. \A t \in Task : Knows(t)'
    BY <1>0, <1>1 DEF Knows, Only, local
  <1> QED
    BY <1>2, <1>3, <1>4, <1>5 DEF PoolInv

\* Processes are never un-started, and a handler's new session only becomes one
\* it has just spawned.
LEMMA NewStartedNext ==
    ASSUME TypeInv, NewStarted, [Next]_vars
    PROVE  NewStarted'
  <1>0. SharedTypeOK /\ LocalTypeOK
    BY DEF TypeInv, TypeOK
  <1>1. SUFFICES ASSUME NEW u \in Task, new'[u] # None PROVE proc'[new'[u]] # "unused"
    BY DEF NewStarted
  <1>2. CASE proc' = proc /\ (new' = new \/ \E t \in Task : new' = [new EXCEPT ![t] = None])
    BY <1>0, <1>1, <1>2 DEF NewStarted, LocalTypeOK
  <1>3. CASE /\ \E p : proc' = Killed(p)
             /\ new' = new \/ \E t \in Task : new' = [new EXCEPT ![t] = None]
    BY <1>0, <1>1, <1>3 DEF NewStarted, Killed, LocalTypeOK, SharedTypeOK
  <1>4. CASE \E t \in Task, r \in Request : Begin(t, r)
    BY <1>2, <1>4 DEF Begin, BeginAttach, BeginAdd, BeginCheckout, BeginRemove,
                      BeginRemoveWorktree, BeginSync, shared
  <1>6. ASSUME NEW t \in Task, Lock(t) \/ Step(t), ~Spawn(t)
        PROVE  /\ proc' = proc \/ \E p : proc' = Killed(p)
               /\ new' = new \/ new' = [new EXCEPT ![t] = None]
    BY <1>6 DEF Step, Lock, Checkout, FindSession, Own, OwnCheck, Peek, Check, Prune,
                SpawnSession, InitializeOk, InitializeTimeout, InitializeError,
                Publish, Persist, Rollback, RollbackKill, Attach, Insert,
                Respawn, ReadCurrent, Retarget, Reregister, KillOld,
                Remove, NextChild, Kill, Unregister, KillChild, RemoveDir,
                RemoveDirFails, Drop, Sync, SyncSwap, SyncPrune, SyncKill,
                Return, Finish, shared, local
  <1>7. ASSUME NEW t \in Task, Spawn(t) PROVE proc'[new'[u]] # "unused"
    <2>1. CASE Return(t) /\ UNCHANGED <<proc, wsIds, args>>
      BY <1>2, <2>1 DEF Return, Finish
    <2>2. ASSUME NEW p \in Proc, proc' = [proc EXCEPT ![p] = "live"],
                 new' = [new EXCEPT ![t] = p]
          PROVE  proc'[new'[u]] # "unused"
      BY <1>0, <1>1, <2>2 DEF NewStarted, LocalTypeOK, SharedTypeOK
    <2> QED
      BY <1>7, <2>1, <2>2 DEF Spawn
  <1>8. CASE \E t \in Task : Lock(t) \/ Step(t)
    BY <1>2, <1>3, <1>6, <1>7, <1>8
  <1>9. CASE \E p \in Proc : Crash(p)
    BY <1>0, <1>1, <1>9 DEF Crash, NewStarted, SharedTypeOK, LocalTypeOK, local
  <1>10. CASE UNCHANGED vars
    BY <1>2, <1>10 DEF vars, shared, local
  <1> QED
    BY <1>4, <1>8, <1>9, <1>10 DEF Next

LEMMA PoolNext ==
    ASSUME PoolInv, NewStarted, [Next]_vars
    PROVE  PoolInv' /\ NewStarted'
  <1>1. TypeInv /\ TypeInv'
    BY TypeNext DEF PoolInv
  <1>2. NewStarted'
    BY <1>1, NewStartedNext
  <1>3. CASE \E t \in Task, r \in Request : Begin(t, r)
    BY <1>1, <1>2, <1>3, PoolOutside
  <1>4. CASE \E t \in Task : Lock(t) \/ Step(t)
    BY <1>1, <1>2, <1>4, PoolLock, PoolOutside, PoolFind, PoolSpawn, PoolPublish, PoolRespawn
    DEF Step
  <1>5. CASE \E p \in Proc : Crash(p)
    BY <1>1, <1>2, <1>5, PoolCrash
  <1>6. CASE UNCHANGED vars
    BY <1>1, <1>2, <1>6 DEF vars, shared, local, PoolInv, LockInv, SingleSharedSession,
                      Connected, Started, Knows, Only
  <1> QED
    BY <1>3, <1>4, <1>5, <1>6 DEF Next

LEMMA PoolAlways == Spec => [](PoolInv /\ NewStarted)
  <1>1. Init => NewStarted
    BY DEF Init, NewStarted
  <1> QED
    BY <1>1, PoolInit, PoolNext, PTL DEF Spec, Safety

\* All connected workspaces always share one app-server (SingleSharedSession),
\* for any number of concurrent connects, adds, respawns, removals and
\* synchronisations, crashes and failures included.
THEOREM OneSharedSession == Spec => []SingleSharedSession
  <1>1. PoolInv => SingleSharedSession
    BY DEF PoolInv
  <1> QED
    BY <1>1, PoolAlways, PTL

\* The rollback of an add and the end of a respawn, which kill a process without
\* asking who refers to it, never kill one a workspace is connected to.
THEOREM DirectKillsArePrivate == Spec => DirectKillIsPrivate
  <1> DEFINE Spares == \A t \in Task :
        DirectKill(t) => (IF pc[t] = "killOld" THEN cur[t] ELSE new[t]) \notin InMap
  <1>1. PoolInv => Spares
    <2> SUFFICES ASSUME PoolInv, NEW t \in Task, pc[t] \in {"rollbackKill", "killOld"}
                 PROVE  (IF pc[t] = "killOld" THEN cur[t] ELSE new[t]) \notin InMap
      BY DEF DirectKill
    <2>1. Knows(t)
      BY DEF PoolInv
    <2> QED
      BY <2>1, NoneAssumption DEF Knows, Only, InMap
  <1> QED
    BY <1>1, PoolAlways, PTL DEF DirectKillIsPrivate
==============================================================================
