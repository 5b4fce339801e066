------------------------ MODULE AppServerSessionProofs ------------------------
(***************************************************************************)
(* Theorems about AppServerSession, for any number of callers, workspaces, *)
(* threads and requests.                                                   *)
(***************************************************************************)
EXTENDS AppServerSession, TLAPS

\* What the types leave open: which locals are set at which label.
Located ==
    /\ \A c \in Caller :
         /\ (pc[c] = "idle") <=> (id[c] = 0)
         /\ pc[c] # "idle" => call[c] \in Call
         /\ pc[c] = "map" => call[c].thread \in Thread
    /\ at \in {"assign", "answer"} => line \in Answers
    /\ at \in {"route", "deliver"} => line \in Events
    /\ at = "assign" => from \in Contexts
    /\ at = "deliver" => routed \in Workspace

TypeInv == TypeOK /\ Located

\* What a call contains.
LEMMA CallFields ==
    ASSUME NEW r \in Call
    PROVE  /\ r.ws \in Workspace
           /\ r.method \in Plain \cup Names
           /\ r.thread # None => r.thread \in Thread
           /\ [ws |-> r.ws, method |-> r.method] \in Contexts
  BY DEF Call, Contexts

\* An answer and an event tell themselves apart by their kind.
LEMMA LineFields ==
    /\ \A l \in Answers : /\ l.kind = "reply" /\ l.id \in 1..MaxId /\ l.req \in Call
                          /\ l.related \subseteq Thread /\ l.listed \subseteq Thread
    /\ \A l \in Events : /\ l.kind # "reply" /\ l.thread \in Thread \cup {None}
                         /\ l.related \subseteq Thread
  BY DEF Answers, Events

LEMMA TypeInit == Init => TypeInv
  <1> SUFFICES ASSUME Init PROVE TypeInv
    OBVIOUS
  <1>1. TablesTypeOK
    BY SessionAssumption DEF Init, TablesTypeOK
  <1>2. CallersTypeOK
    BY SessionAssumption DEF Init, CallersTypeOK
  <1>3. ReaderTypeOK
    BY DEF Init, ReaderTypeOK
  <1>4. ServerTypeOK
    BY SessionAssumption DEF Init, ServerTypeOK
  <1>5. Located
    BY DEF Init, Located
  <1> QED
    BY <1>1, <1>2, <1>3, <1>4, <1>5 DEF TypeInv, TypeOK

\* Registration touches the sets of workspaces and of callbacks only.
LEMMA TypeRegistration ==
    ASSUME TypeInv,
           \/ \E w \in Workspace : Attach(w) \/ Unregister(w)
           \/ \E t \in Thread : AddCallback(t) \/ RemoveCallback(t)
    PROVE  TypeInv'
  <1> USE DEF TypeInv, TypeOK, TablesTypeOK, CallersTypeOK, ReaderTypeOK, ServerTypeOK, Located,
              callers, reader, server
  <1>1. ASSUME NEW w \in Workspace, Attach(w) PROVE TypeInv'
    BY <1>1 DEF Attach
  <1>2. ASSUME NEW w \in Workspace, Unregister(w) PROVE TypeInv'
    BY <1>2 DEF Unregister
  <1>3. ASSUME NEW t \in Thread, AddCallback(t) PROVE TypeInv'
    BY <1>3 DEF AddCallback
  <1>4. ASSUME NEW t \in Thread, RemoveCallback(t) PROVE TypeInv'
    BY <1>4 DEF RemoveCallback
  <1> QED
    BY <1>1, <1>2, <1>3, <1>4

LEMMA TypeReturn ==
    ASSUME TypeInv, NEW c \in Caller, Return(c), UNCHANGED <<at, line, from, routed>>
    PROVE  CallersTypeOK' /\ Located'
  <1>1. CallersTypeOK'
    <2>1. pc' \in [Caller -> {"idle", "register", "pend", "context", "map", "write",
                             "wait", "unpend", "uncontext"}]
      BY DEF TypeInv, TypeOK, CallersTypeOK, Return
    <2>2. call' \in [Caller -> Call \cup {None}] /\ answer' \in [Caller -> Call \cup {None}]
      BY DEF TypeInv, TypeOK, CallersTypeOK, Return
    <2>3. id' \in [Caller -> 0..MaxId]
      BY SessionAssumption DEF TypeInv, TypeOK, CallersTypeOK, Return
    <2> QED
      BY <2>1, <2>2, <2>3 DEF TypeInv, TypeOK, CallersTypeOK, Return
  <1>2. \A d \in Caller : /\ (pc'[d] = "idle") <=> (id'[d] = 0)
                          /\ pc'[d] # "idle" => call'[d] = call[d] /\ pc'[d] = pc[d]
    BY DEF TypeInv, TypeOK, CallersTypeOK, Located, Return
  <1>3. Located'
    BY <1>2 DEF TypeInv, Located
  <1> QED
    BY <1>1, <1>3

LEMMA TypeCaller ==
    ASSUME TypeInv, NEW c \in Caller,
           Step(c) \/ Timeout(c) \/ \E r \in Call : Obtain(c, r)
    PROVE  TypeInv'
  <1> USE DEF TypeInv, TypeOK, TablesTypeOK, CallersTypeOK, ReaderTypeOK, ServerTypeOK, Located
  <1>0. pc[c] # "idle" => id[c] \in 1..MaxId
    OBVIOUS
  <1>1. ASSUME NEW r \in Call, Obtain(c, r) PROVE TypeInv'
    BY <1>1, SessionAssumption, SMTT(30) DEF Obtain, NextId, tables, reader, server
  <1>2. CASE Register(c)
    BY <1>2, CallFields, ZenonT(60) DEF Register, reader, server
  <1>3. CASE Pend(c)
    BY <1>0, <1>3 DEF Pend, Put, reader, server
  <1>4. CASE Context(c)
    BY <1>0, <1>4, CallFields DEF Context, Put, reader, server
  <1>5. CASE MapParam(c)
    BY <1>5, CallFields, ZenonT(60) DEF MapParam, reader, server
  <1>6. CASE Write(c)
    <2>1. CallersTypeOK' /\ TablesTypeOK' /\ ReaderTypeOK' /\ Located'
      BY <1>6, ZenonT(60) DEF Write, tables, reader
    <2>2. [id |-> id[c], req |-> call[c]] \in [id : 1..MaxId, req : Call]
      BY <1>0, <1>6 DEF Write
    <2>3. ServerTypeOK'
      BY <1>6, <2>2 DEF Write
    <2> QED
      BY <2>1, <2>3
  <1>7. CASE Canceled(c) \/ Answered(c)
    <2>1. CallersTypeOK' /\ Located'
      BY <1>7, TypeReturn DEF Canceled, Answered, reader
    <2>2. TablesTypeOK' /\ ReaderTypeOK' /\ ServerTypeOK'
      BY <1>7 DEF Canceled, Answered, Return, tables, reader, server
    <2> QED
      BY <2>1, <2>2
  <1>8. CASE Timeout(c)
    BY <1>8 DEF Timeout, tables, reader, server
  <1>9. CASE Unpend(c)
    BY <1>9 DEF Unpend, Drop, reader, server
  <1>10. CASE Uncontext(c)
    <2>1. CallersTypeOK' /\ Located'
      BY <1>10, TypeReturn DEF Uncontext, reader
    <2>2. TablesTypeOK' /\ ReaderTypeOK' /\ ServerTypeOK'
      BY <1>10 DEF Uncontext, ContextLeft, Drop, reader, server
    <2> QED
      BY <2>1, <2>2
  <1> QED
    BY <1>1, <1>2, <1>3, <1>4, <1>5, <1>6, <1>7, <1>8, <1>9, <1>10 DEF Step

LEMMA TypeReader ==
    ASSUME TypeInv, Reader
    PROVE  TypeInv'
  <1> USE LineFields
          DEF TypeInv, TypeOK, TablesTypeOK, CallersTypeOK, ReaderTypeOK, ServerTypeOK, Located
  <1>1. CASE Read
    <2>1. Head(out) \in Answers \cup Events /\ Tail(out) \in Seq(Answers \cup Events)
             /\ Len(Tail(out)) <= MaxOut
      BY <1>1, SessionAssumption DEF Read
    <2>2. CASE Head(out).kind = "reply"
      BY <1>1, <2>1, <2>2 DEF Read, Drop, callers
    <2>3. CASE Head(out).kind # "reply"
      BY <1>1, <2>1, <2>3 DEF Read, callers
    <2> QED
      BY <2>2, <2>3
  <1>2. CASE AssignRelated
    BY <1>2 DEF AssignRelated, Contexts, callers, server
  <1>3. CASE AssignListed
    BY <1>3 DEF AssignListed, callers, server
  <1>4. CASE Answer
    BY <1>4 DEF Answer, Handled, Drop, server
  <1>5. CASE Route
    BY <1>5, SessionAssumption DEF Route, RouteOf, tables, callers, server
  <1>6. CASE Announce
    BY <1>6, SessionAssumption DEF Announce, StartsMemory, HiddenAtStart, Emission, Handled, callers, server
  <1>7. CASE Suppress
    BY <1>7 DEF Suppress, Handled, tables, callers, server
  <1>8. CASE Emit
    BY <1>8 DEF Emit, Mentioned, Forgotten, Emission, Handled, callers, server
  <1>9. CASE ClearPending
    BY <1>9 DEF ClearPending, PendingAtEnd, callers, server
  <1>10. CASE ClearContext
    BY <1>10 DEF ClearContext, callers, server
  <1> QED
    BY <1>1, <1>2, <1>3, <1>4, <1>5, <1>6, <1>7, <1>8, <1>9, <1>10 DEF Reader

LEMMA TypeServer ==
    ASSUME TypeInv, Server
    PROVE  TypeInv'
  <1> USE DEF TypeInv, TypeOK, TablesTypeOK, CallersTypeOK, ReaderTypeOK, ServerTypeOK, Located
  <1>0. ASSUME NEW l \in Answers \cup Events, Writes(l)
        PROVE  /\ out' \in Seq(Answers \cup Events) /\ Len(out') <= MaxOut
               /\ UNCHANGED <<tables, callers, reader, alive>>
    BY <1>0, SessionAssumption DEF Writes
  <1>1. CASE Serve
    <2>1. PICK r \in inbox :
            /\ inbox' = inbox \ {r}
            /\ \/ \E t \in Thread : StartThread(r, t)
               \/ ListThreads(r) \/ UseThread(r) \/ Refuse(r)
      BY <1>1 DEF Serve
    <2>2. r.id \in 1..MaxId /\ r.req \in Call
      OBVIOUS
    <2>3. ASSUME NEW rel \in SUBSET Thread, NEW lst \in SUBSET Thread
          PROVE  Reply(r.id, r.req, rel, lst) \in Answers \cup Events
      BY <2>2 DEF Reply, Answers
    <2>4. ASSUME NEW t \in Thread, StartThread(r, t) PROVE TypeInv'
      <3>1. Writes(Reply(r.id, r.req, {t}, {}))
        BY <2>4 DEF StartThread
      <3> QED
        BY <1>0, <2>1, <2>2, <2>3, <2>4, <3>1, CallFields DEF StartThread, tables, callers, reader
    <2>5. CASE ListThreads(r)
      <3>1. Writes(Reply(r.id, r.req, {}, Known)) /\ Known \subseteq Thread
        BY <2>5 DEF ListThreads, Known
      <3> QED
        BY <1>0, <2>1, <2>3, <2>5, <3>1 DEF ListThreads, tables, callers, reader
    <2>6. CASE UseThread(r)
      <3>1. PICK rel \in SUBSET Thread : Writes(Reply(r.id, r.req, rel, {}))
        BY <2>2, <2>6, SessionAssumption DEF UseThread, Call, Plain, Names
      <3>2. r.req.thread \in Thread
        BY <2>2, <2>6 DEF UseThread, Call, Plain, Names
      <3> QED
        BY <1>0, <2>1, <2>3, <2>6, <3>1, <3>2 DEF UseThread, tables, callers, reader
    <2>7. CASE Refuse(r)
      <3>1. Writes(Reply(r.id, r.req, {}, {}))
        BY <2>7 DEF Refuse
      <3> QED
        BY <1>0, <2>1, <2>3, <2>7, <3>1 DEF Refuse, tables, callers, reader
    <2> QED
      BY <2>1, <2>4, <2>5, <2>6, <2>7
  <1>2. CASE Exit
    BY <1>2 DEF Exit, tables, callers, reader
  <1>3. ASSUME NEW t \in Thread, NEW u \in Thread, Spawn(t, u) PROVE TypeInv'
    <2>1. Event("item/started", t, {t, u}) \in Answers \cup Events
      BY DEF Event, Events
    <2> QED
      BY <1>0, <1>3, <2>1 DEF Spawn, tables, callers, reader
  <1>4. ASSUME NEW t \in Thread \cup {None}, Consolidate(t) \/ Tell(t) \/ Archive(t)
        PROVE  TypeInv'
    <2>1. ASSUME NEW k \in {"thread/started", "turn/completed", "thread/updated", "thread/archived"}
          PROVE  Event(k, t, {}) \in Answers \cup Events
      BY DEF Event, Events
    <2>2. CASE Consolidate(t)
      BY <1>0, <2>1, <2>2, SessionAssumption DEF Consolidate, tables, callers, reader
    <2>3. CASE Tell(t)
      BY <1>0, <2>1, <2>3 DEF Tell, tables, callers, reader
    <2>4. CASE Archive(t)
      BY <1>0, <2>1, <2>4 DEF Archive, Known, tables, callers, reader
    <2> QED
      BY <1>4, <2>2, <2>3, <2>4
  <1> QED
    BY <1>1, <1>2, <1>3, <1>4 DEF Server

LEMMA TypeNext ==
    ASSUME TypeInv, [Next]_vars
    PROVE  TypeInv'
  <1>1. CASE UNCHANGED vars
    BY <1>1 DEF vars, tables, callers, reader, server, TypeInv, TypeOK, TablesTypeOK,
                CallersTypeOK, ReaderTypeOK, ServerTypeOK, Located
  <1> QED
    BY <1>1, TypeRegistration, TypeCaller, TypeReader, TypeServer DEF Next

\* Every variable stays within its type (AppServerSession, all actions).
THEOREM TypeCorrect == Spec => []TypeOK
  <1>1. Spec => []TypeInv
    BY TypeInit, TypeNext, PTL DEF Spec, Safety
  <1> QED
    BY <1>1, PTL DEF TypeInv

----------------------------------------------------------------------------
(* The tables of open requests                                              *)

\* The labels at which a request has been written, and at which it may have an
\* entry in pending, in ctx.
Sent == {"wait", "unpend", "uncontext"}
HasPending == {"context", "map", "write", "wait", "unpend"}
HasContext == {"map", "write", "wait", "unpend", "uncontext"}

\* An id is used once.
IdsInv ==
    \A c \in Caller : /\ id[c] < nextId
                      /\ \A d \in Caller : c # d /\ id[c] = id[d] => id[c] = 0

\* Whoever has id i made request r and has sent it.
Matches(i, r) ==
    /\ i < nextId
    /\ \A c \in Caller : id[c] = i => call[c] = r /\ pc[c] \in Sent

\* ... and that is so for everything the process knows or says.
ReplyInv ==
    /\ \A r \in inbox : Matches(r.id, r.req)
    /\ \A k \in 1..Len(out) : out[k] \in Answers => Matches(out[k].id, out[k].req)
    /\ at \in {"assign", "answer"} => Matches(line.id, line.req) /\ line.id \notin DOMAIN ctx

PendingInv ==
    \A i \in DOMAIN pending : id[pending[i]] = i /\ pc[pending[i]] \in HasPending

\* After the end of output no request that waits has a context.
ContextInv ==
    at # "clearContext" =>
      \A i \in DOMAIN ctx : \E c \in Caller :
         id[c] = i /\ pc[c] \in HasContext /\ (at = "done" => pc[c] # "wait")

\* Whoever has its answer is in neither table any more.
AnswerInv ==
    \A c \in Caller : answer[c] # None =>
      /\ pc[c] = "wait" /\ answer[c] = call[c]
      /\ id[c] \notin DOMAIN pending /\ id[c] \notin DOMAIN ctx

\* Only the end of output takes a request out of pending without an answer.
EndInv ==
    /\ at \in {"clearContext", "done"} => ~alive
    /\ \A c \in Caller :
         /\ pc[c] \in {"context", "map", "write", "wait"} /\ answer[c] = None
         /\ id[c] \notin DOMAIN pending
         => at \in {"clearContext", "done"}

RequestInv == /\ TypeInv /\ IdsInv /\ ReplyInv /\ PendingInv
              /\ ContextInv /\ AnswerInv /\ EndInv

\* The ids the process knows or says.
LEMMA RepliesNumbered ==
    ASSUME TypeInv
    PROVE  /\ \A r \in inbox : r.id \in 1..MaxId
           /\ \A k \in 1..Len(out) : out[k] \in Answers => out[k].id \in 1..MaxId
           /\ at \in {"assign", "answer"} => line.id \in 1..MaxId
  BY LineFields DEF TypeInv, TypeOK, ServerTypeOK, Located

LEMMA RequestInit == Init => RequestInv
  <1> SUFFICES ASSUME Init PROVE RequestInv
    OBVIOUS
  <1>1. TypeInv
    BY TypeInit
  <1>2. IdsInv /\ PendingInv /\ ContextInv /\ AnswerInv /\ EndInv
    BY DEF Init, IdsInv, PendingInv, ContextInv, AnswerInv, EndInv
  <1>3. ReplyInv
    BY DEF Init, ReplyInv
  <1> QED
    BY <1>1, <1>2, <1>3 DEF RequestInv

LEMMA RequestRegistration ==
    ASSUME RequestInv,
           \/ \E w \in Workspace : Attach(w) \/ Unregister(w)
           \/ \E t \in Thread : AddCallback(t) \/ RemoveCallback(t)
    PROVE  RequestInv'
  <1>1. UNCHANGED <<pending, ctx, callers, reader, server>>
    BY DEF Attach, Unregister, AddCallback, RemoveCallback
  <1>2. TypeInv'
    BY TypeRegistration DEF RequestInv
  <1> QED
    BY <1>1, <1>2 DEF RequestInv, IdsInv, ReplyInv, Matches, PendingInv, ContextInv, AnswerInv,
                      EndInv, callers, reader, server

LEMMA RequestCaller ==
    ASSUME RequestInv, NEW c \in Caller,
           Step(c) \/ Timeout(c) \/ \E r \in Call : Obtain(c, r)
    PROVE  RequestInv'
  <1>t. TypeInv'
    BY TypeCaller DEF RequestInv
  <1> USE DEF RequestInv, TypeInv, TypeOK, CallersTypeOK, TablesTypeOK, Located, Sent, HasPending, HasContext
  <1>1. ASSUME NEW r \in Call, Obtain(c, r) PROVE RequestInv'
    <2> USE <1>1 DEF Obtain, NextId, tables, reader, server
    <2>1. IdsInv'
      BY DEF IdsInv
    <2>2. ReplyInv'
      <3>1. ASSUME NEW i \in 1..MaxId, NEW q, Matches(i, q) PROVE Matches(i, q)'
        BY <3>1 DEF IdsInv, Matches
      <3> QED
        BY <3>1, RepliesNumbered DEF ReplyInv
    <2>3. PendingInv'
      BY DEF IdsInv, PendingInv
    <2>4. ContextInv'
      BY DEF IdsInv, PendingInv, ContextInv, AnswerInv, EndInv
    <2>5. AnswerInv'
      BY DEF IdsInv, AnswerInv
    <2>6. EndInv'
      BY DEF IdsInv, PendingInv, EndInv
    <2> QED
      BY <1>t, <2>1, <2>2, <2>3, <2>4, <2>5, <2>6
  <1>2. CASE Register(c)
    <2> USE <1>2 DEF Register, reader, server
    <2>1. IdsInv'
      BY DEF IdsInv
    <2>2. ReplyInv'
      BY DEF IdsInv, ReplyInv, Matches
    <2>3. PendingInv'
      BY DEF IdsInv, PendingInv
    <2>4. ContextInv'
      BY DEF IdsInv, PendingInv, ContextInv, AnswerInv, EndInv
    <2>5. AnswerInv'
      BY DEF IdsInv, AnswerInv
    <2>6. EndInv'
      BY DEF IdsInv, PendingInv, EndInv
    <2> QED
      BY <1>t, <2>1, <2>2, <2>3, <2>4, <2>5, <2>6
  <1>3. CASE Pend(c)
    <2> USE <1>3 DEF Pend, Put, reader, server
    <2>1. IdsInv'
      BY DEF IdsInv
    <2>2. ReplyInv'
      BY DEF IdsInv, ReplyInv, Matches
    <2>3. PendingInv'
      BY DEF IdsInv, PendingInv
    <2>4. ContextInv'
      BY DEF IdsInv, PendingInv, ContextInv, AnswerInv, EndInv
    <2>5. AnswerInv'
      BY DEF IdsInv, AnswerInv
    <2>6. EndInv'
      BY DEF IdsInv, PendingInv, EndInv
    <2> QED
      BY <1>t, <2>1, <2>2, <2>3, <2>4, <2>5, <2>6
  <1>4. CASE Context(c)
    <2> USE <1>4 DEF Context, Put, reader, server
    <2>1. IdsInv'
      BY DEF IdsInv
    <2>2. ReplyInv'
      BY DEF IdsInv, ReplyInv, Matches
    <2>3. PendingInv'
      BY DEF IdsInv, PendingInv
    <2>4. ContextInv'
      BY DEF IdsInv, PendingInv, ContextInv, AnswerInv, EndInv
    <2>5. AnswerInv'
      BY DEF IdsInv, AnswerInv
    <2>6. EndInv'
      BY DEF IdsInv, PendingInv, EndInv
    <2> QED
      BY <1>t, <2>1, <2>2, <2>3, <2>4, <2>5, <2>6
  <1>5. CASE MapParam(c)
    <2> USE <1>5 DEF MapParam, reader, server
    <2>1. IdsInv'
      BY DEF IdsInv
    <2>2. ReplyInv'
      BY DEF IdsInv, ReplyInv, Matches
    <2>3. PendingInv'
      BY DEF IdsInv, PendingInv
    <2>4. ContextInv'
      BY DEF IdsInv, PendingInv, ContextInv, AnswerInv, EndInv
    <2>5. AnswerInv'
      BY DEF IdsInv, AnswerInv
    <2>6. EndInv'
      BY DEF IdsInv, PendingInv, EndInv
    <2> QED
      BY <1>t, <2>1, <2>2, <2>3, <2>4, <2>5, <2>6
  <1>6. CASE Write(c)
    <2> USE <1>6 DEF Write, tables, reader
    <2>1. IdsInv'
      BY DEF IdsInv
    <2>2. ReplyInv'
      <3>1. ASSUME NEW i \in 1..MaxId, NEW q, Matches(i, q) PROVE Matches(i, q)'
        BY <3>1 DEF IdsInv, Matches
      <3>2. alive => Matches(id[c], call[c])'
        BY DEF IdsInv, Matches
      <3> QED
        BY <3>1, <3>2, RepliesNumbered DEF ReplyInv
    <2>3. PendingInv'
      BY DEF IdsInv, PendingInv
    <2>4. ContextInv'
      BY DEF IdsInv, PendingInv, ContextInv, AnswerInv, EndInv
    <2>5. AnswerInv'
      BY DEF IdsInv, AnswerInv
    <2>6. EndInv'
      BY DEF IdsInv, PendingInv, EndInv
    <2> QED
      BY <1>t, <2>1, <2>2, <2>3, <2>4, <2>5, <2>6
  <1>7. CASE Canceled(c)
    <2> USE <1>7 DEF Canceled, Return, tables, reader, server
    <2>1. IdsInv'
      BY DEF IdsInv
    <2>2. ReplyInv'
      <3>1. ASSUME NEW i \in 1..MaxId, NEW q, Matches(i, q) PROVE Matches(i, q)'
        BY <3>1 DEF IdsInv, Matches
      <3> QED
        BY <3>1, RepliesNumbered DEF ReplyInv
    <2>3. PendingInv'
      BY DEF IdsInv, PendingInv
    <2>4. ContextInv'
      BY DEF IdsInv, PendingInv, ContextInv, AnswerInv, EndInv
    <2>5. AnswerInv'
      BY DEF IdsInv, AnswerInv
    <2>6. EndInv'
      BY DEF IdsInv, PendingInv, EndInv
    <2> QED
      BY <1>t, <2>1, <2>2, <2>3, <2>4, <2>5, <2>6
  <1>8. CASE Answered(c)
    <2> USE <1>8 DEF Answered, Return, tables, reader, server
    <2>1. IdsInv'
      BY DEF IdsInv
    <2>2. ReplyInv'
      <3>1. ASSUME NEW i \in 1..MaxId, NEW q, Matches(i, q) PROVE Matches(i, q)'
        BY <3>1 DEF IdsInv, Matches
      <3> QED
        BY <3>1, RepliesNumbered DEF ReplyInv
    <2>3. PendingInv'
      BY DEF IdsInv, PendingInv, AnswerInv
    <2>4. ContextInv'
      BY DEF IdsInv, PendingInv, ContextInv, AnswerInv, EndInv
    <2>5. AnswerInv'
      BY DEF IdsInv, AnswerInv
    <2>6. EndInv'
      BY DEF IdsInv, PendingInv, EndInv
    <2> QED
      BY <1>t, <2>1, <2>2, <2>3, <2>4, <2>5, <2>6
  <1>9. CASE Timeout(c)
    <2> USE <1>9 DEF Timeout, tables, reader, server
    <2>1. IdsInv'
      BY DEF IdsInv
    <2>2. ReplyInv'
      BY DEF IdsInv, ReplyInv, Matches
    <2>3. PendingInv'
      BY DEF IdsInv, PendingInv
    <2>4. ContextInv'
      BY DEF IdsInv, PendingInv, ContextInv, AnswerInv, EndInv
    <2>5. AnswerInv'
      BY DEF IdsInv, AnswerInv
    <2>6. EndInv'
      BY DEF IdsInv, PendingInv, EndInv
    <2> QED
      BY <1>t, <2>1, <2>2, <2>3, <2>4, <2>5, <2>6
  <1>10. CASE Unpend(c)
    <2> USE <1>10 DEF Unpend, Drop, reader, server
    <2>1. IdsInv'
      BY DEF IdsInv
    <2>2. ReplyInv'
      BY DEF IdsInv, ReplyInv, Matches
    <2>3. PendingInv'
      BY DEF IdsInv, PendingInv
    <2>4. ContextInv'
      BY DEF IdsInv, PendingInv, ContextInv, AnswerInv, EndInv
    <2>5. AnswerInv'
      BY DEF IdsInv, AnswerInv
    <2>6. EndInv'
      BY DEF IdsInv, PendingInv, EndInv
    <2> QED
      BY <1>t, <2>1, <2>2, <2>3, <2>4, <2>5, <2>6
  <1>11. CASE Uncontext(c)
    <2> USE <1>11 DEF Uncontext, ContextLeft, Return, Drop, reader, server
    <2>1. IdsInv'
      BY DEF IdsInv
    <2>2. ReplyInv'
      <3>1. ASSUME NEW i \in 1..MaxId, NEW q, Matches(i, q) PROVE Matches(i, q)'
        BY <3>1 DEF IdsInv, Matches
      <3> QED
        BY <3>1, RepliesNumbered DEF ReplyInv
    <2>3. PendingInv'
      BY DEF IdsInv, PendingInv
    <2>4. ContextInv'
      BY DEF IdsInv, PendingInv, ContextInv, AnswerInv, EndInv
    <2>5. AnswerInv'
      BY DEF IdsInv, AnswerInv
    <2>6. EndInv'
      BY DEF IdsInv, PendingInv, EndInv
    <2> QED
      BY <1>t, <2>1, <2>2, <2>3, <2>4, <2>5, <2>6
  <1> QED
    BY <1>1, <1>2, <1>3, <1>4, <1>5, <1>6, <1>7, <1>8, <1>9, <1>10, <1>11 DEF Step

LEMMA RequestReader ==
    ASSUME RequestInv, Reader
    PROVE  RequestInv'
  <1>t. TypeInv'
    BY TypeReader DEF RequestInv
  <1> USE <1>t DEF RequestInv, TypeInv, TypeOK, CallersTypeOK, TablesTypeOK, Located,
                   HasPending, HasContext, Sent
  <1>1. CASE Read
    <2> USE <1>1 DEF Read, callers
    <2>1. Head(out) = out[1] /\ 1 \in 1..Len(out)
             /\ \A k \in 1..Len(Tail(out)) : Tail(out)[k] = out[k + 1] /\ k + 1 \in 1..Len(out)
      BY DEF ServerTypeOK
    <2>2. line' = out[1] /\ out[1] \in Answers \cup Events
      BY <2>1 DEF ServerTypeOK
    <2>3. ReplyInv'
      <3>1. at' \in {"assign", "answer"} => out[1] \in Answers /\ line'.id \notin DOMAIN ctx'
        BY <2>2, LineFields DEF Drop
      <3> QED
        BY <2>1, <2>2, <3>1 DEF ReplyInv, Matches
    <2>4. IdsInv' /\ PendingInv' /\ EndInv'
      BY DEF IdsInv, PendingInv, EndInv
    <2>5. ContextInv' /\ AnswerInv'
      BY DEF ContextInv, AnswerInv, Drop
    <2> QED
      BY <2>3, <2>4, <2>5
  <1>2. CASE AssignRelated \/ AssignListed \/ Route \/ Announce \/ Suppress \/ Emit
    <2>1. /\ UNCHANGED <<pending, ctx, callers, server>>
          /\ at' \in {"answer", "deliver", "read"}
          /\ at' = "answer" => at = "assign" /\ line' = line
          /\ at \in {"assign", "route", "deliver"}
      BY <1>2 DEF AssignRelated, AssignListed, Route, Announce, Suppress, Emit, Handled, tables
    <2> QED
      BY <2>1 DEF IdsInv, ReplyInv, Matches, PendingInv, ContextInv, AnswerInv, EndInv,
                  callers, server
  <1>3. CASE Answer
    <2> USE <1>3 DEF Answer, Handled, server
    <2>1. line.id \in 1..MaxId /\ line.req \in Call
      BY LineFields
    <2>2. \A c \in Caller : line.id \in DOMAIN pending /\ pending[line.id] = c
                             => id[c] = line.id /\ call[c] = line.req
      BY DEF PendingInv, ReplyInv, Matches
    <2>3. IdsInv' /\ ReplyInv' /\ PendingInv'
      BY DEF IdsInv, ReplyInv, Matches, PendingInv, Drop
    <2>4. ContextInv'
      BY DEF ContextInv
    <2>5. AnswerInv'
      BY <2>2 DEF AnswerInv, ReplyInv, Drop
    <2>6. EndInv'
      <3> SUFFICES ASSUME NEW c \in Caller,
                          pc[c] \in {"context", "map", "write", "wait"}, answer'[c] = None,
                          id[c] \notin DOMAIN pending', id[c] \in DOMAIN pending
                   PROVE  FALSE
        BY <2>1, NoCallAssumption DEF EndInv
      <3>1. id[c] = line.id
        BY DEF Drop
      <3>2. pending[line.id] = c
        BY <2>1, <3>1 DEF PendingInv, IdsInv
      <3>3. pc[c] = "wait"
        BY <3>1 DEF ReplyInv, Matches
      <3> QED
        BY <2>1, <3>1, <3>2, <3>3, NoCallAssumption
    <2> QED
      BY <2>3, <2>4, <2>5, <2>6
  <1>4. CASE ClearPending
    BY <1>4 DEF ClearPending, PendingAtEnd, callers, server, IdsInv, ReplyInv, Matches,
                PendingInv, ContextInv, AnswerInv, EndInv
  <1>5. CASE ClearContext
    BY <1>5 DEF ClearContext, callers, server, IdsInv, ReplyInv, Matches,
                PendingInv, ContextInv, AnswerInv, EndInv
  <1> QED
    BY <1>1, <1>2, <1>3, <1>4, <1>5 DEF Reader

\* A line the process may write: if it is an answer, to a request it has read.
Said(l) == l \in Answers => \E r \in inbox : l.id = r.id /\ l.req = r.req

\* What the process can do to the rest of the system.
LEMMA ServerFrame ==
    ASSUME TypeInv, Server
    PROVE  /\ UNCHANGED <<tables, callers, reader>>
           /\ alive' => alive
           /\ inbox' \subseteq inbox
           /\ out' = out \/ \E l : Said(l) /\ out' = Append(out, l)
  <1> DEFINE Frame == /\ UNCHANGED <<tables, callers, reader>>
                      /\ alive' => alive
                      /\ inbox' \subseteq inbox
                      /\ out' = out \/ \E l : Said(l) /\ out' = Append(out, l)
  <1>1. \A k, t, rel : Said(Event(k, t, rel))
    <2> SUFFICES ASSUME NEW k, NEW t, NEW rel, Event(k, t, rel) \in Answers PROVE FALSE
      BY DEF Said
    <2> QED
      BY DEF Event, Answers
  <1>2. CASE Serve
    <2>1. PICK r \in inbox :
            /\ inbox' = inbox \ {r}
            /\ \E rel, lst : Writes(Reply(r.id, r.req, rel, lst))
      BY <1>2 DEF Serve, StartThread, ListThreads, UseThread, Refuse
    <2>2. PICK rel, lst : Writes(Reply(r.id, r.req, rel, lst))
      BY <2>1
    <2>3. Said(Reply(r.id, r.req, rel, lst))
      BY DEF Said, Reply
    <2> QED
      BY <2>1, <2>2, <2>3 DEF Writes
  <1>3. CASE Exit
    BY <1>3 DEF Exit
  <1>4. ASSUME NEW t, NEW u, Spawn(t, u) PROVE Frame
    BY <1>1, <1>4 DEF Spawn, Writes
  <1>5. ASSUME NEW t, Consolidate(t) \/ Tell(t) \/ Archive(t) PROVE Frame
    BY <1>1, <1>5 DEF Consolidate, Tell, Archive, Writes
  <1> QED
    BY <1>2, <1>3, <1>4, <1>5 DEF Server

LEMMA RequestServer ==
    ASSUME RequestInv, Server
    PROVE  RequestInv'
  <1>1. TypeInv'
    BY TypeServer DEF RequestInv
  <1>2. /\ UNCHANGED <<tables, callers, reader>>
        /\ alive' => alive
        /\ inbox' \subseteq inbox
        /\ out' = out \/ \E l : Said(l) /\ out' = Append(out, l)
    BY ServerFrame DEF RequestInv
  <1>3. IdsInv' /\ PendingInv' /\ ContextInv' /\ AnswerInv' /\ EndInv'
    BY <1>2 DEF RequestInv, IdsInv, PendingInv, ContextInv, AnswerInv, EndInv,
                tables, callers, reader
  <1>4. ReplyInv'
    <2>1. ASSUME NEW i, NEW q, Matches(i, q) PROVE Matches(i, q)'
      BY <1>2, <2>1 DEF Matches, callers
    <2>2. ASSUME NEW k \in 1..Len(out'), out'[k] \in Answers
          PROVE  Matches(out'[k].id, out'[k].req)
      <3>1. CASE out' = out
        BY <2>2, <3>1 DEF RequestInv, ReplyInv
      <3>2. ASSUME NEW l, Said(l), out' = Append(out, l)
            PROVE  Matches(out'[k].id, out'[k].req)
        <4>1. out'[k] = IF k = Len(out) + 1 THEN l ELSE out[k]
          BY <3>2 DEF RequestInv, TypeInv, TypeOK, ServerTypeOK
        <4>2. k = Len(out) + 1 \/ k \in 1..Len(out)
          BY <3>2 DEF RequestInv, TypeInv, TypeOK, ServerTypeOK
        <4> QED
          BY <2>2, <3>2, <4>1, <4>2 DEF Said, RequestInv, ReplyInv
      <3> QED
        BY <1>2, <3>1, <3>2
    <2> QED
      BY <1>2, <2>1, <2>2 DEF RequestInv, ReplyInv, tables, reader
  <1> QED
    BY <1>1, <1>3, <1>4 DEF RequestInv

LEMMA RequestNext ==
    ASSUME RequestInv, [Next]_vars
    PROVE  RequestInv'
  <1>1. CASE UNCHANGED vars
    <2>1. TypeInv'
      BY <1>1, TypeNext DEF RequestInv
    <2> QED
      BY <1>1, <2>1 DEF vars, tables, callers, reader, server, RequestInv, IdsInv, ReplyInv,
                        Matches, PendingInv, ContextInv, AnswerInv, EndInv
  <1> QED
    BY <1>1, RequestRegistration, RequestCaller, RequestReader, RequestServer DEF Next

LEMMA RequestsSound == Spec => []RequestInv
  BY RequestInit, RequestNext, PTL DEF Spec, Safety

\* An answer reaches the caller whose request it answers: the property OwnAnswer
\* of send_request_for_workspace and the reader.
THEOREM AnswersReachTheirRequest == Spec => []OwnAnswer
  <1>1. RequestInv => OwnAnswer
    BY DEF RequestInv, AnswerInv, OwnAnswer
  <1> QED
    BY <1>1, RequestsSound, PTL

\* The tables hold no entry of a request that has returned: the property
\* NoForgottenRequest of pending and request_context.
THEOREM TablesForgetReturned == Spec => []NoForgottenRequest
  <1>1. RequestInv => NoForgottenRequest
    BY DEF RequestInv, PendingInv, ContextInv, NoForgottenRequest, HasPending, HasContext
  <1> QED
    BY <1>1, RequestsSound, PTL
===============================================================================
