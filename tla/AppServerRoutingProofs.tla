------------------------ MODULE AppServerRoutingProofs ------------------------
(***************************************************************************)
(* Theorems about where AppServerSession sends events, for any number of   *)
(* workspaces, nested roots, threads, callers and requests.                *)
(***************************************************************************)
EXTENDS AppServerSessionProofs

\* The lines on their way, in the order in which the reader comes to them: number
\* 0 is the one it holds.
Line(k) == IF k = 0 THEN line ELSE out[k]
Tells(k, t) == Line(k) \in Events /\ Line(k).thread = t
OfTurn(kind) == kind \in {"item/started", "turn/completed"}

\* Which threads the process has made for whom.
ThreadInv ==
    /\ hidden \subseteq Memory
    /\ \A t \in Memory : creator[t] = None
    /\ \A t \in begun \ Memory : creator[t] # None
    /\ archived \cap Memory \subseteq begun
    /\ \A t \in Thread : creator[t] = None => thread_workspace[t] = None

\* A request names a thread of its own workspace.
NamedInv ==
    /\ \A c \in Caller : call[c] # None /\ call[c].thread # None
                           => creator[call[c].thread] = call[c].ws
    /\ \A r \in inbox : r.req.thread # None => creator[r.req.thread] = r.req.ws

\* What the reader has looked up is the request the answer belongs to.
FromInv ==
    /\ at # "clearContext" =>
         \A c \in Caller : id[c] \in DOMAIN ctx =>
            ctx[id[c]] = [ws |-> call[c].ws, method |-> call[c].method]
    /\ at = "assign" => from = [ws |-> line.req.ws, method |-> line.req.method]
    /\ at \in {"read", "clearContext", "done"} => line = NoLine

\* What answers say of threads.
AnswersInv ==
    \A k \in 0..Len(out) : Line(k) \in Answers =>
      /\ \A t \in Line(k).related : creator[t] = Line(k).req.ws
      /\ \A t \in Line(k).listed \ Memory : creator[t] # None

\* What events say of threads, and that a thread's archiving is the last of it.
EventsInv ==
    \A k \in 0..Len(out) : Line(k) \in Events =>
      /\ OfTurn(Line(k).kind) => Line(k).thread \in begun
      /\ Line(k).kind = "thread/updated" => Line(k).thread \notin Memory
      /\ Line(k).kind = "item/started" => Line(k).thread \notin Memory
      /\ \A t \in Line(k).related : /\ Line(k).kind = "item/started" /\ t \notin Memory
                                    /\ creator[t] = creator[Line(k).thread]
      /\ Line(k).kind = "thread/archived" =>
           /\ Line(k).thread \in archived
           /\ \A j \in (k + 1)..Len(out) : ~Tells(j, Line(k).thread)

\* A consolidation thread is hidden, or will be when the reader comes to line k.
Aware(k, t) == \/ t \in hidden
               \/ \E j \in 0..(k - 1) : Tells(j, t) /\ Line(j).kind = "thread/started"

MemoryInv ==
    \A t \in Memory :
      /\ \A k \in 0..Len(out) :
           Tells(k, t) /\ Line(k).kind \notin {"thread/started", "thread/archived"} => Aware(k, t)
      /\ t \in begun \ archived => Aware(Len(out) + 1, t)

\* A thread is in the routing table, or will be when the reader comes to line k.
Mapped(k, t) == \/ thread_workspace[t] # None
                \/ \E j \in 0..(k - 1) : Line(j) \in Events /\ t \in Line(j).related

MappedInv ==
    /\ \A t \in Thread \ Memory :
         /\ \A k \in 0..Len(out) : Tells(k, t) /\ OfTurn(Line(k).kind) => Mapped(k, t)
         /\ t \in begun \ archived => Mapped(Len(out) + 1, t)
    /\ \A r \in inbox : r.req.thread \in Thread \ archived
                          => thread_workspace[r.req.thread] # None
    /\ \A c \in Caller : pc[c] = "write" /\ call[c].thread \in Thread \ archived
                           => thread_workspace[call[c].thread] # None

\* What has been routed, and shown, goes to the workspace of the thread.
RoutedInv ==
    at = "deliver" /\ OfTurn(line.kind) /\ line.thread \notin Memory
       /\ creator[line.thread] \in workspace_roots
    => routed = creator[line.thread]

ShownInv ==
    shown # None => /\ shown.thread \in Memory
                         => shown.kind \in {"codex/backgroundThread", "thread/archived"}
                    /\ OfTurn(shown.kind) => shown.thread \in begun

RoutingInv == /\ ThreadInv /\ NamedInv /\ FromInv /\ AnswersInv /\ EventsInv /\ MemoryInv
              /\ MappedInv /\ RoutedInv /\ ShownInv /\ EventsGoHome

----------------------------------------------------------------------------
(* How the lines on their way move                                          *)

LEMMA NoLineIsNone == NoLine \notin Answers /\ NoLine \notin Events
  BY DEF NoLine, Answers, Events

LEMMA EventIsNoAnswer == Answers \cap Events = {}
  BY LineFields

\* The reader takes the next line.
LEMMA LinesRead ==
    ASSUME TypeInv, Read
    PROVE  /\ Len(out') = Len(out) - 1 /\ Len(out) \in Nat /\ Len(out') \in Nat
           /\ \A k \in 0..Len(out') : Line(k)' = Line(k + 1) /\ k + 1 \in 1..Len(out)
           /\ \A k \in 1..Len(out) : Line(k - 1)' = Line(k) /\ k - 1 \in 0..Len(out')
  BY DEF TypeInv, TypeOK, ServerTypeOK, Read, Line

\* The line it holds has been handled.
LEMMA LinesHandled ==
    ASSUME TypeInv, out' = out, line' = NoLine
    PROVE  /\ Len(out) \in Nat
           /\ Line(0)' = NoLine /\ \A k \in 1..Len(out) : Line(k)' = Line(k)
  BY DEF TypeInv, TypeOK, ServerTypeOK, Line

\* The process writes a line.
LEMMA LinesWritten ==
    ASSUME TypeInv, NEW l, out' = Append(out, l), line' = line
    PROVE  /\ Len(out) \in Nat /\ Len(out') = Len(out) + 1
           /\ \A k \in Nat : k = Len(out) + 1 => Line(k)' = l
           /\ \A k \in 0..Len(out) : Line(k)' = Line(k)
  <1>1. Len(out) \in Nat /\ Len(out') = Len(out) + 1 /\ out'[Len(out) + 1] = l
          /\ \A k \in 1..Len(out) : out'[k] = out[k]
    BY DEF TypeInv, TypeOK, ServerTypeOK
  <1>2. ASSUME NEW k \in Nat, k = Len(out) + 1 PROVE Line(k)' = l
    BY <1>1, <1>2 DEF Line
  <1>3. ASSUME NEW k \in 0..Len(out) PROVE Line(k)' = Line(k)
    BY <1>1 DEF Line
  <1> QED
    BY <1>1, <1>2, <1>3

\* What holds of the lines alone and of the threads stays when they stay.
LEMMA LinesKept ==
    ASSUME RoutingInv, UNCHANGED <<hidden, creator, begun, archived, line, out>>
    PROVE  AnswersInv' /\ EventsInv' /\ MemoryInv'
  BY DEF RoutingInv, AnswersInv, EventsInv, MemoryInv, Line, Tells, Aware

LEMMA MappedKept ==
    ASSUME UNCHANGED <<line, out>>, NEW k, NEW t, Mapped(k, t),
           thread_workspace[t] # None => thread_workspace'[t] # None
    PROVE  Mapped(k, t)'
  BY DEF Mapped, Line

----------------------------------------------------------------------------
(* The actions                                                              *)

LEMMA RoutingInit == Init => RoutingInv
  <1> SUFFICES ASSUME Init PROVE RoutingInv
    OBVIOUS
  <1>1. Len(out) = 0 /\ \A k \in 0..Len(out) : Line(k) = NoLine
    BY DEF Init, Line
  <1>2. AnswersInv /\ EventsInv /\ MemoryInv /\ MappedInv
    BY <1>1, NoLineIsNone DEF Init, AnswersInv, EventsInv, MemoryInv, MappedInv, Tells
  <1>3. ThreadInv /\ NamedInv /\ FromInv /\ RoutedInv /\ ShownInv
    BY SessionAssumption DEF Init, ThreadInv, NamedInv, FromInv, RoutedInv, ShownInv
  <1>4. EventsGoHome
    BY DEF Init, EventsGoHome, RoutesToCreator, TurnEventsReachTheirWorkspace
  <1> QED
    BY <1>2, <1>3, <1>4 DEF RoutingInv

\* The thread of an event of a turn that is no consolidation has a workspace.
LEMMA TurnsHaveWorkspace ==
    ASSUME TypeInv, RoutingInv
    PROVE  /\ at \in {"route", "deliver"} /\ OfTurn(line.kind) /\ line.thread \notin Memory
                => line.thread \in Thread /\ creator[line.thread] \in Workspace
           /\ shown # None /\ OfTurn(shown.kind) /\ shown.thread \notin Memory
                => shown.thread \in Thread /\ creator[shown.thread] \in Workspace
  <1> USE DEF TypeInv, TypeOK, ServerTypeOK, RoutingInv, ThreadInv
  <1>1. at \in {"route", "deliver"} /\ OfTurn(line.kind) => line.thread \in begun
    BY DEF Located, EventsInv, Line
  <1>2. shown # None /\ OfTurn(shown.kind) => shown.thread \in begun
    BY DEF ShownInv
  <1> QED
    BY <1>1, <1>2

\* Workspaces come and go, and callbacks.
LEMMA RoutingRegistration ==
    ASSUME TypeInv, RoutingInv,
           \/ \E w \in Workspace : Attach(w) \/ Unregister(w)
           \/ \E t \in Thread : AddCallback(t) \/ RemoveCallback(t)
    PROVE  RoutingInv'
  <1>1. UNCHANGED <<pending, ctx, hidden, thread_workspace, callers, reader, server>>
    BY DEF Attach, Unregister, AddCallback, RemoveCallback
  <1>2. \A t \in Thread : creator[t] \in workspace_roots' => creator[t] \in workspace_roots
    BY DEF Attach, Unregister, AddCallback, RemoveCallback
  <1>3. AnswersInv' /\ EventsInv' /\ MemoryInv'
    BY <1>1, LinesKept DEF reader, server
  <1>4. ThreadInv' /\ NamedInv' /\ FromInv' /\ ShownInv'
    BY <1>1 DEF RoutingInv, ThreadInv, NamedInv, FromInv, ShownInv, callers, reader, server
  <1>5. MappedInv'
    BY <1>1 DEF RoutingInv, MappedInv, Mapped, Line, Tells, callers, reader, server
  <1>6. RoutedInv' /\ TurnEventsReachTheirWorkspace'
    BY <1>1, <1>2, TurnsHaveWorkspace DEF RoutingInv, RoutedInv, EventsGoHome, OfTurn,
       TurnEventsReachTheirWorkspace, callers, reader, server
  <1>7. RoutesToCreator'
    BY <1>1, <1>2 DEF RoutingInv, EventsGoHome, RoutesToCreator, server
  <1> QED
    BY <1>3, <1>4, <1>5, <1>6, <1>7 DEF RoutingInv, EventsGoHome

\* A caller fills the routing table before it writes.
LEMMA RoutingMapParam ==
    ASSUME TypeInv, RoutingInv, NEW c \in Caller, MapParam(c)
    PROVE  RoutingInv'
  <1> USE DEF MapParam
  <1>0. UNCHANGED <<reader, server, hidden, call, id, ctx, workspace_roots>>
    OBVIOUS
  <1>1. PICK t \in Thread \ Memory :
          /\ call[c].thread = t /\ call[c].ws \in Workspace /\ creator[t] = call[c].ws
          /\ thread_workspace' = [thread_workspace EXCEPT ![t] = creator[t]]
    <2>1. call[c] \in Call /\ call[c].thread \in Thread /\ call[c] # None
      BY NoCallAssumption DEF TypeInv, Located
    <2>2. call[c].ws \in Workspace /\ call[c].thread # None
      BY <2>1, CallFields, SessionAssumption
    <2>3. creator[call[c].thread] = call[c].ws
      BY <2>1, <2>2 DEF RoutingInv, NamedInv
    <2> QED
      BY <2>1, <2>2, <2>3, SessionAssumption DEF RoutingInv, ThreadInv
  <1>2. /\ thread_workspace'[t] = creator[t] /\ creator[t] # None
        /\ \A u \in Thread : u # t => thread_workspace'[u] = thread_workspace[u]
        /\ \A u \in Thread : thread_workspace[u] # None => thread_workspace'[u] # None
    BY <1>1, SessionAssumption DEF TypeInv, TypeOK, TablesTypeOK
  <1>3. AnswersInv' /\ EventsInv' /\ MemoryInv'
    BY <1>0, LinesKept DEF reader, server
  <1>4. ThreadInv' /\ NamedInv' /\ FromInv' /\ ShownInv'
    BY <1>0, <1>1, <1>2 DEF RoutingInv, ThreadInv, NamedInv, FromInv, ShownInv, reader, server
  <1>5. MappedInv'
    <2>1. ASSUME NEW k, NEW u \in Thread, Mapped(k, u) PROVE Mapped(k, u)'
      BY <1>0, <1>2, <2>1, MappedKept DEF reader, server
    <2>2. \A d \in Caller : pc'[d] = "write" => pc[d] = "write" \/ d = c
      BY DEF TypeInv, TypeOK, CallersTypeOK
    <2>3. \A u \in Thread \ Memory :
            /\ \A k \in 0..Len(out') : Tells(k, u)' /\ OfTurn(Line(k)'.kind) => Mapped(k, u)'
            /\ u \in begun' \ archived' => Mapped(Len(out) + 1, u)'
      BY <1>0, <2>1 DEF RoutingInv, MappedInv, Line, Tells, reader, server
    <2> QED
      BY <1>0, <1>1, <1>2, <2>2, <2>3 DEF RoutingInv, MappedInv, server
  <1>6. RoutedInv' /\ TurnEventsReachTheirWorkspace'
    BY <1>0 DEF RoutingInv, RoutedInv, EventsGoHome,
       TurnEventsReachTheirWorkspace, reader, server
  <1>7. RoutesToCreator'
    BY <1>0, <1>2 DEF RoutingInv, EventsGoHome, RoutesToCreator, server
  <1> QED
    BY <1>3, <1>4, <1>5, <1>6, <1>7 DEF RoutingInv, EventsGoHome

\* Every other step of a caller: the requests it makes are about threads of its
\* own workspace, and a request is written once its thread is in the table.
LEMMA RoutingCaller ==
    ASSUME RequestInv, RoutingInv, NEW c \in Caller,
           Step(c) \/ Timeout(c) \/ \E r \in Call : Obtain(c, r)
    PROVE  RoutingInv'
  <1>t. TypeInv /\ TypeInv'
    BY TypeCaller DEF RequestInv
  <1>1. CASE MapParam(c)
    BY <1>t, <1>1, RoutingMapParam
  <1>2. CASE ~MapParam(c)
    <2>0. /\ UNCHANGED <<thread_workspace, hidden, callbacks, workspace_roots, reader>>
          /\ UNCHANGED <<alive, out, creator, begun, archived>>
      BY <1>2 DEF Step, Register, Pend, Context, Write, Canceled, Answered, Unpend, Uncontext,
                  Return, Timeout, Obtain, tables, server
    <2>1. AnswersInv' /\ EventsInv' /\ MemoryInv'
      BY <2>0, LinesKept DEF reader
    <2>2. ThreadInv' /\ ShownInv'
      BY <2>0 DEF RoutingInv, ThreadInv, ShownInv, reader
    <2>3. RoutedInv' /\ TurnEventsReachTheirWorkspace' /\ RoutesToCreator'
      BY <2>0 DEF RoutingInv, RoutedInv, EventsGoHome, RoutesToCreator,
         TurnEventsReachTheirWorkspace, reader
    <2>4. \A d \in Caller :
            \/ call'[d] = call[d]
            \/ call'[d] = None
            \/ call'[d].thread # None => creator[call'[d].thread] = call'[d].ws
      BY <1>2, <1>t DEF TypeInv, TypeOK, CallersTypeOK,
         Step, Register, Pend, Context, Write, Canceled, Answered, Unpend, Uncontext,
         Return, Timeout, Obtain
    <2>5. inbox' = inbox \/ (pc[c] = "write" /\ inbox' = inbox \cup {[id |-> id[c], req |-> call[c]]})
      BY <1>2 DEF Step, Register, Pend, Context, Write, Canceled, Answered, Unpend, Uncontext,
                  Return, Timeout, Obtain, server
    <2>6. pc[c] # "idle" => call[c] # None
      BY <1>t, NoCallAssumption DEF TypeInv, Located
    <2>7. NamedInv'
      BY <2>0, <2>4, <2>5, <2>6 DEF RoutingInv, NamedInv
    <2>8. MappedInv'
      <3>1. \A u \in Thread \ Memory :
              /\ \A k \in 0..Len(out') : Tells(k, u)' /\ OfTurn(Line(k)'.kind) => Mapped(k, u)'
              /\ u \in begun' \ archived' => Mapped(Len(out) + 1, u)'
        BY <2>0 DEF RoutingInv, MappedInv, Mapped, Line, Tells, reader
      <3>2. \A d \in Caller :
              pc'[d] = "write" => \/ pc[d] = "write" /\ call'[d] = call[d]
                                  \/ d = c /\ call[d].thread = None /\ call'[d] = call[d]
        BY <1>2, <1>t DEF TypeInv, TypeOK, CallersTypeOK,
           Step, Register, Pend, Context, Write, Canceled, Answered, Unpend, Uncontext,
           Return, Timeout, Obtain
      <3>3. \A r \in inbox' : r.req.thread \in Thread \ archived'
                                => thread_workspace'[r.req.thread] # None
        BY <2>0, <2>5 DEF RoutingInv, MappedInv
      <3> QED
        BY <2>0, <3>1, <3>2, <3>3, SessionAssumption DEF RoutingInv, MappedInv
    <2>9. FromInv'
      <3>1. /\ at' = "assign" => from' = [ws |-> line'.req.ws, method |-> line'.req.method]
            /\ at' \in {"read", "clearContext", "done"} => line' = NoLine
        BY <2>0 DEF RoutingInv, FromInv, reader
      <3>2. ASSUME at # "clearContext", NEW d \in Caller, id'[d] \in DOMAIN ctx'
            PROVE  ctx'[id'[d]] = [ws |-> call'[d].ws, method |-> call'[d].method]
        <4>0. \A i \in DOMAIN ctx : i < nextId /\ i # 0
          BY <1>t, <3>2 DEF RequestInv, ContextInv, IdsInv, TypeInv, TypeOK, TablesTypeOK
        <4>1. DOMAIN ctx' \subseteq 1..MaxId
          BY <1>t DEF TypeInv, TypeOK, TablesTypeOK
        <4>2. ASSUME NEW r \in Call, Obtain(c, r)
              PROVE  ctx'[id'[d]] = [ws |-> call'[d].ws, method |-> call'[d].method]
          BY <1>t, <3>2, <4>0, <4>2 DEF RoutingInv, FromInv, TypeInv, TypeOK, CallersTypeOK,
             Obtain, tables
        <4>3. CASE Context(c)
          BY <1>t, <3>2, <4>3 DEF RequestInv, IdsInv, RoutingInv, FromInv,
             TypeInv, TypeOK, CallersTypeOK, Located, Context, Put
        <4>4. CASE Canceled(c) \/ Answered(c)
          BY <1>t, <3>2, <4>1, <4>4 DEF RoutingInv, FromInv,
             TypeInv, TypeOK, CallersTypeOK, Canceled, Answered, Return, tables
        <4>5. CASE Uncontext(c)
          BY <1>t, <3>2, <4>1, <4>5 DEF RoutingInv, FromInv,
             TypeInv, TypeOK, CallersTypeOK, Uncontext, ContextLeft, Drop, Return
        <4>6. CASE Register(c) \/ Pend(c) \/ Write(c) \/ Unpend(c) \/ Timeout(c)
          <5>1. UNCHANGED <<ctx, id, call>>
            BY <4>6 DEF Register, Pend, Write, Unpend, Timeout, tables
          <5> QED
            BY <3>2, <5>1 DEF RoutingInv, FromInv
        <4> QED
          BY <1>2, <4>2, <4>3, <4>4, <4>5, <4>6 DEF Step
      <3> QED
        BY <2>0, <3>1, <3>2 DEF FromInv, reader
    <2> QED
      BY <2>1, <2>2, <2>3, <2>7, <2>8, <2>9 DEF RoutingInv, EventsGoHome
  <1> QED
    BY <1>1, <1>2

\* Only one enclosing root can be the longest: that of the workspace a thread was
\* created for, when it is attached.
LEMMA DeepestIsCreator ==
    ASSUME TypeInv, NEW t \in Thread, creator[t] \in workspace_roots
    PROVE  Deepest(t) = {creator[t]}
  <1>1. creator[t] \in Workspace /\ creator[t] # None /\ workspace_roots \subseteq Workspace
    BY SessionAssumption DEF TypeInv, TypeOK, TablesTypeOK, ServerTypeOK
  <1>2. Enclosing(t) = Under[creator[t]] \cap workspace_roots /\ creator[t] \in Enclosing(t)
    BY <1>1, SessionAssumption DEF Enclosing
  <1>3. \A v \in Enclosing(t) : v # creator[t] => Root[v] < Root[creator[t]]
    BY <1>1, <1>2, SessionAssumption
  <1>4. \A v \in Enclosing(t) : Root[v] \in Nat
    BY <1>1, <1>2, SessionAssumption
  <1> QED
    BY <1>2, <1>3, <1>4 DEF Deepest

\* Answers of thread/start and thread/resume.
LEMMA RoutingAssignRelated ==
    ASSUME TypeInv, RoutingInv, AssignRelated
    PROVE  RoutingInv'
  <1> USE DEF AssignRelated
  <1>0. /\ UNCHANGED <<hidden, workspace_roots, callers, line, out, from, shown, server, ctx>>
        /\ at' = "answer" /\ line \in Answers /\ line.req \in Call
    BY LineFields DEF TypeInv, Located, server
  <1>1. \A t \in line.related : t \in Thread /\ creator[t] = from.ws /\ from.ws \in Workspace
    <2>1. from.ws = line.req.ws /\ line.related \subseteq Thread /\ line.req.ws \in Workspace
      BY <1>0, LineFields, CallFields DEF RoutingInv, FromInv
    <2>2. 0 \in 0..Len(out) /\ Line(0) = line
      BY DEF Line, TypeInv, TypeOK, ServerTypeOK
    <2> QED
      BY <1>0, <2>1, <2>2 DEF RoutingInv, AnswersInv
  <1>2. \A t \in Thread : /\ thread_workspace'[t] \in {thread_workspace[t], creator[t]}
                          /\ thread_workspace[t] # None => thread_workspace'[t] # None
    BY <1>1, SessionAssumption DEF TypeInv, TypeOK, TablesTypeOK
  <1>3. AnswersInv' /\ EventsInv' /\ MemoryInv'
    BY <1>0, LinesKept DEF server
  <1>4. ThreadInv' /\ NamedInv' /\ FromInv' /\ ShownInv'
    BY <1>0, <1>2 DEF RoutingInv, ThreadInv, NamedInv, FromInv, ShownInv, callers, server
  <1>5. MappedInv'
    <2>1. ASSUME NEW k, NEW u \in Thread, Mapped(k, u) PROVE Mapped(k, u)'
      BY <1>0, <1>2, <2>1, MappedKept
    <2>2. \A u \in Thread \ Memory :
            /\ \A k \in 0..Len(out') : Tells(k, u)' /\ OfTurn(Line(k)'.kind) => Mapped(k, u)'
            /\ u \in begun' \ archived' => Mapped(Len(out) + 1, u)'
      BY <1>0, <2>1 DEF RoutingInv, MappedInv, Line, Tells, server
    <2> QED
      BY <1>0, <1>2, <2>2 DEF RoutingInv, MappedInv, callers, server
  <1>6. RoutedInv' /\ TurnEventsReachTheirWorkspace'
    BY <1>0 DEF RoutingInv, RoutedInv, EventsGoHome, TurnEventsReachTheirWorkspace, server
  <1>7. RoutesToCreator'
    BY <1>0, <1>2 DEF RoutingInv, EventsGoHome, RoutesToCreator, server
  <1> QED
    BY <1>3, <1>4, <1>5, <1>6, <1>7 DEF RoutingInv, EventsGoHome

\* A list another workspace asked for.
LEMMA RoutingAssignListed ==
    ASSUME TypeInv, RoutingInv, AssignListed
    PROVE  RoutingInv'
  <1> USE DEF AssignListed
  <1>0. /\ UNCHANGED <<workspace_roots, callers, line, out, from, shown, server, ctx>>
        /\ hidden \subseteq hidden' /\ hidden' \subseteq hidden \cup Memory
        /\ at' = "answer" /\ line \in Answers
    BY DEF TypeInv, Located, server
  <1>1. PICK home \in [line.listed \ Memory -> Workspace] :
          /\ \A t \in line.listed \ Memory : Deepest(t) # {} => home[t] \in Deepest(t)
          /\ thread_workspace' =
               [t \in Thread |->
                  CASE t \in line.listed \cap Memory -> None
                    [] t \in line.listed \ Memory /\ Deepest(t) # {} -> home[t]
                    [] OTHER -> thread_workspace[t]]
    OBVIOUS
  <1>2. \A t \in line.listed \ Memory : creator[t] # None
    <2>1. 0 \in 0..Len(out) /\ Line(0) = line
      BY DEF Line, TypeInv, TypeOK, ServerTypeOK
    <2> QED
      BY <1>0, <2>1 DEF RoutingInv, AnswersInv
  <1>3. \A t \in Memory : thread_workspace'[t] = None
    BY <1>1, SessionAssumption DEF RoutingInv, ThreadInv
  <1>4. ASSUME NEW t \in Thread \ Memory
        PROVE  /\ creator[t] = None => thread_workspace'[t] = None
               /\ thread_workspace[t] # None => thread_workspace'[t] # None
               /\ creator[t] \in workspace_roots /\ thread_workspace'[t] # None
                    => thread_workspace'[t] = creator[t]
    <2>1. CASE t \in line.listed /\ Deepest(t) # {}
      <3>1. thread_workspace'[t] = home[t] /\ home[t] \in Workspace /\ home[t] \in Deepest(t)
        BY <1>1, <2>1
      <3> QED
        BY <1>2, <2>1, <3>1, DeepestIsCreator, SessionAssumption
    <2>2. CASE ~(t \in line.listed /\ Deepest(t) # {})
      <3>1. thread_workspace'[t] = thread_workspace[t]
        BY <1>1, <2>2
      <3> QED
        BY <3>1 DEF RoutingInv, ThreadInv, EventsGoHome, RoutesToCreator
    <2> QED
      BY <2>1, <2>2
  <1>5. AnswersInv' /\ EventsInv'
    BY <1>0 DEF RoutingInv, AnswersInv, EventsInv, Line, Tells, server
  <1>6. MemoryInv'
    BY <1>0 DEF RoutingInv, MemoryInv, Line, Tells, Aware, server
  <1>7. ThreadInv' /\ NamedInv' /\ FromInv' /\ ShownInv'
    BY <1>0, <1>3, <1>4 DEF RoutingInv, ThreadInv, NamedInv, FromInv, ShownInv, callers, server
  <1>8. MappedInv'
    <2>1. ASSUME NEW k, NEW u \in Thread \ Memory, Mapped(k, u) PROVE Mapped(k, u)'
      BY <1>0, <1>4, <2>1, MappedKept
    <2>2. \A u \in Thread \ Memory :
            /\ \A k \in 0..Len(out') : Tells(k, u)' /\ OfTurn(Line(k)'.kind) => Mapped(k, u)'
            /\ u \in begun' \ archived' => Mapped(Len(out) + 1, u)'
      BY <1>0, <2>1 DEF RoutingInv, MappedInv, Line, Tells, server
    <2>3. \A u \in Memory : thread_workspace[u] = None
      BY SessionAssumption DEF RoutingInv, ThreadInv
    <2> QED
      BY <1>0, <1>4, <2>2, <2>3 DEF RoutingInv, MappedInv, callers, server
  <1>9. RoutedInv' /\ TurnEventsReachTheirWorkspace'
    BY <1>0 DEF RoutingInv, RoutedInv, EventsGoHome, TurnEventsReachTheirWorkspace, server
  <1>10. RoutesToCreator'
    BY <1>0, <1>3, <1>4 DEF RoutingInv, EventsGoHome, RoutesToCreator, server
  <1> QED
    BY <1>5, <1>6, <1>7, <1>8, <1>9, <1>10 DEF RoutingInv, EventsGoHome

\* The reader takes the next line: the others move up.
LEMMA RoutingRead ==
    ASSUME RequestInv, RoutingInv, Read
    PROVE  RoutingInv'
  <1> USE DEF Read
  <1>t. TypeInv /\ TypeInv'
    BY TypeReader DEF RequestInv, Reader
  <1>0. /\ UNCHANGED <<thread_workspace, hidden, workspace_roots, callers,
                       inbox, creator, begun, archived>>
        /\ at = "read" /\ line = NoLine /\ shown' = None
        /\ at' \in {"route", "answer", "assign"}
    BY DEF RoutingInv, FromInv
  <1>1. /\ Len(out') = Len(out) - 1 /\ Len(out) \in Nat /\ Len(out') \in Nat
        /\ \A k \in 0..Len(out') : Line(k)' = Line(k + 1) /\ k + 1 \in 1..Len(out)
        /\ \A k \in 1..Len(out) : Line(k - 1)' = Line(k) /\ k - 1 \in 0..Len(out')
    BY <1>t, LinesRead
  <1>2. Line(0) \notin Events /\ Line(0) \notin Answers
    BY <1>0, NoLineIsNone DEF Line
  <1>3. Answers' = Answers /\ Events' = Events
    BY DEF Answers, Events
  <1>4. AnswersInv'
    BY <1>0, <1>1, <1>3 DEF RoutingInv, AnswersInv
  <1>5. EventsInv'
    BY <1>0, <1>1, <1>3 DEF RoutingInv, EventsInv, Tells
  <1>6. ASSUME NEW t, NEW k \in Nat, k <= Len(out') + 1, Aware(k + 1, t)
        PROVE  Aware(k, t)'
    <2>1. CASE t \in hidden
      BY <1>0, <2>1 DEF Aware
    <2>2. ASSUME NEW j \in 0..k, Tells(j, t), Line(j).kind = "thread/started"
          PROVE  Aware(k, t)'
      <3>1. j # 0
        BY <1>2, <2>2 DEF Tells
      <3>2. j - 1 \in 0..(k - 1) /\ Line(j - 1)' = Line(j)
        BY <1>1, <1>6, <3>1
      <3> QED
        BY <1>3, <2>2, <3>2 DEF Aware, Tells
    <2> QED
      BY <1>6, <2>1, <2>2 DEF Aware
  <1>7. MemoryInv'
    BY <1>0, <1>1, <1>3, <1>6 DEF RoutingInv, MemoryInv, Tells
  <1>8. ASSUME NEW t, NEW k \in Nat, k <= Len(out') + 1, Mapped(k + 1, t)
        PROVE  Mapped(k, t)'
    <2>1. CASE thread_workspace[t] # None
      BY <1>0, <2>1 DEF Mapped
    <2>2. ASSUME NEW j \in 0..k, Line(j) \in Events, t \in Line(j).related
          PROVE  Mapped(k, t)'
      <3>1. j # 0
        BY <1>2, <2>2
      <3>2. j - 1 \in 0..(k - 1) /\ Line(j - 1)' = Line(j)
        BY <1>1, <1>8, <3>1
      <3> QED
        BY <1>3, <2>2, <3>2 DEF Mapped
    <2> QED
      BY <1>8, <2>1, <2>2 DEF Mapped
  <1>9. MappedInv'
    BY <1>0, <1>1, <1>3, <1>8 DEF RoutingInv, MappedInv, Tells, callers
  <1>10. FromInv'
    <2>1. \A c \in Caller : id'[c] \in DOMAIN ctx' =>
            ctx'[id'[c]] = [ws |-> call'[c].ws, method |-> call'[c].method]
      BY <1>0 DEF RoutingInv, FromInv, Drop, callers
    <2>2. ASSUME at' = "assign" PROVE from' = [ws |-> line'.req.ws, method |-> line'.req.method]
      <3>1. line'.id \in DOMAIN ctx /\ from' = ctx[line'.id] /\ line' = out[1] /\ out[1] \in Answers
        BY <1>0, <1>t, <2>2, LineFields DEF TypeInv, TypeOK, ServerTypeOK, Located
      <3>2. PICK c \in Caller : id[c] = line'.id
        BY <1>0, <3>1 DEF RequestInv, ContextInv
      <3>3. call[c] = line'.req
        BY <3>1, <3>2, <1>1 DEF RequestInv, ReplyInv, Matches
      <3> QED
        BY <1>0, <3>1, <3>2, <3>3 DEF RoutingInv, FromInv
    <2> QED
      BY <1>0, <2>1, <2>2 DEF FromInv
  <1>11. ThreadInv' /\ NamedInv' /\ RoutedInv' /\ ShownInv' /\ EventsGoHome'
    BY <1>0 DEF RoutingInv, ThreadInv, NamedInv, RoutedInv, ShownInv, EventsGoHome,
       RoutesToCreator, TurnEventsReachTheirWorkspace, callers
  <1> QED
    BY <1>4, <1>5, <1>7, <1>9, <1>10, <1>11 DEF RoutingInv

\* What the line the reader holds has to leave in the tables when it goes.
Archives(t) == line \in Events /\ line.kind = "thread/archived" /\ line.thread = t

LEMMA LineGone ==
    ASSUME TypeInv, RoutingInv, UNCHANGED <<inbox, out, creator, begun, archived, pc, call>>,
           line' = NoLine,
           \A t \in Memory : Aware(1, t) => t \in hidden' \/ Archives(t),
           \A t \in Thread \ Memory : Mapped(1, t) => thread_workspace'[t] # None \/ Archives(t)
    PROVE  AnswersInv' /\ EventsInv' /\ MemoryInv' /\ MappedInv'
  <1>0. Answers' = Answers /\ Events' = Events
    BY DEF Answers, Events
  <1>1. /\ Len(out) \in Nat
        /\ Line(0)' = NoLine /\ \A k \in 1..Len(out) : Line(k)' = Line(k)
    BY LinesHandled
  <1>2. AnswersInv' /\ EventsInv'
    BY <1>0, <1>1, NoLineIsNone DEF RoutingInv, AnswersInv, EventsInv, Tells
  <1>3. \A t : Archives(t) => /\ t \in archived
                              /\ \A j \in 1..Len(out) : ~Tells(j, t)
    BY <1>1 DEF Archives, RoutingInv, EventsInv, Line
  <1>4. ASSUME NEW t \in Memory, ~Archives(t), NEW k \in 1..(Len(out) + 1), Aware(k, t)
        PROVE  Aware(k, t)'
    <2>1. CASE Aware(1, t)
      BY <1>4, <2>1 DEF Aware
    <2>2. CASE ~Aware(1, t)
      <3>1. PICK j \in 0..(k - 1) : Tells(j, t) /\ Line(j).kind = "thread/started"
        BY <1>4, <2>2 DEF Aware
      <3>2. j # 0
        BY <2>2, <3>1 DEF Aware
      <3>3. Line(j)' = Line(j)
        BY <1>1, <1>4, <3>2
      <3> QED
        BY <1>0, <3>1, <3>3 DEF Aware, Tells
    <2> QED
      BY <2>1, <2>2
  <1>5. MemoryInv'
    BY <1>0, <1>1, <1>3, <1>4, NoLineIsNone DEF RoutingInv, MemoryInv, Tells
  <1>6. ASSUME NEW t \in Thread \ Memory, ~Archives(t), NEW k \in 1..(Len(out) + 1), Mapped(k, t)
        PROVE  Mapped(k, t)'
    <2>1. CASE Mapped(1, t)
      BY <1>6, <2>1 DEF Mapped
    <2>2. CASE ~Mapped(1, t)
      <3>1. PICK j \in 0..(k - 1) : Line(j) \in Events /\ t \in Line(j).related
        BY <1>6, <2>2 DEF Mapped
      <3>2. j # 0
        BY <2>2, <3>1 DEF Mapped
      <3>3. Line(j)' = Line(j)
        BY <1>1, <1>6, <3>2
      <3> QED
        BY <1>0, <3>1, <3>3 DEF Mapped
    <2> QED
      BY <2>1, <2>2
  <1>7. \A t \in Thread \ archived : thread_workspace[t] # None => thread_workspace'[t] # None
    <2>1. \A t \in Memory : thread_workspace[t] = None
      BY SessionAssumption DEF RoutingInv, ThreadInv
    <2> QED
      BY <1>3, <2>1 DEF Mapped
  <1>8. MappedInv'
    BY <1>0, <1>1, <1>3, <1>6, <1>7, NoLineIsNone DEF RoutingInv, MappedInv, Tells
  <1> QED
    BY <1>2, <1>5, <1>8

\* The steps of the reader that leave the routing table alone.
LEMMA RoutingAnswer ==
    ASSUME TypeInv, RoutingInv, Answer
    PROVE  RoutingInv'
  <1> USE DEF Answer, Handled
  <1>0. line \notin Events
    BY LineFields DEF TypeInv, Located
  <1>1. 0..(1 - 1) = {0} /\ Line(0) = line
    BY DEF Line
  <1>2. AnswersInv' /\ EventsInv' /\ MemoryInv' /\ MappedInv'
    <2>1. \A t \in Memory : Aware(1, t) => t \in hidden'
      BY <1>0, <1>1 DEF Aware, Tells
    <2>2. \A t \in Thread \ Memory : Mapped(1, t) => thread_workspace'[t] # None
      BY <1>0, <1>1 DEF Mapped
    <2>3. UNCHANGED <<inbox, out, creator, begun, archived, pc, call>>

      BY DEF server
    <2> QED
      BY <2>1, <2>2, <2>3, LineGone
  <1>3. ThreadInv' /\ NamedInv' /\ FromInv' /\ RoutedInv' /\ ShownInv' /\ EventsGoHome'
    BY DEF RoutingInv, ThreadInv, NamedInv, FromInv, RoutedInv, ShownInv, EventsGoHome,
       RoutesToCreator, TurnEventsReachTheirWorkspace, server
  <1> QED
    BY <1>2, <1>3 DEF RoutingInv

LEMMA RoutingRoute ==
    ASSUME TypeInv, RoutingInv, Route
    PROVE  RoutingInv'
  <1> USE DEF Route
  <1>0. UNCHANGED <<line, shown, callers, server, tables>> /\ at = "route" /\ at' = "deliver"
    OBVIOUS
  <1>1. AnswersInv' /\ EventsInv' /\ MemoryInv'
    BY <1>0, LinesKept DEF server, tables
  <1>2. MappedInv'
    BY <1>0 DEF RoutingInv, MappedInv, Mapped, Line, Tells, callers, server, tables
  <1>3. RoutedInv'
    <2> SUFFICES ASSUME OfTurn(line.kind), line.thread \notin Memory,
                        creator[line.thread] \in workspace_roots
                 PROVE  routed' = creator[line.thread]
      BY <1>0 DEF RoutedInv, server, tables
    <2>1. line.thread \in Thread /\ line.thread # None
      BY <1>0, TurnsHaveWorkspace, SessionAssumption
    <2>2. 0 \in 0..Len(out) /\ Line(0) = line /\ 0..(0 - 1) = {} /\ line \in Events
      BY <1>0 DEF Line, TypeInv, TypeOK, ServerTypeOK, Located
    <2>3. thread_workspace[line.thread] # None
      BY <2>1, <2>2 DEF RoutingInv, MappedInv, Mapped, Tells
    <2> QED
      BY <2>1, <2>3 DEF RouteOf, RoutingInv, EventsGoHome, RoutesToCreator
  <1>4. ThreadInv' /\ NamedInv' /\ FromInv' /\ ShownInv' /\ EventsGoHome'
    BY <1>0 DEF RoutingInv, ThreadInv, NamedInv, FromInv, ShownInv, EventsGoHome,
       RoutesToCreator, TurnEventsReachTheirWorkspace, callers, server, tables
  <1> QED
    BY <1>1, <1>2, <1>3, <1>4 DEF RoutingInv

LEMMA RoutingAnnounce ==
    ASSUME TypeInv, RoutingInv, Announce
    PROVE  RoutingInv'
  <1> USE DEF Announce, Handled, StartsMemory, HiddenAtStart
  <1>0. /\ UNCHANGED <<thread_workspace, workspace_roots, ctx, callers, server>>
        /\ line \in Events /\ line.kind = "thread/started" /\ line.thread \in Memory
        /\ hidden' = hidden \cup {line.thread}
    BY DEF TypeInv, Located
  <1>1. 0..(1 - 1) = {0} /\ Line(0) = line /\ 0 \in 0..Len(out)
    BY DEF Line, TypeInv, TypeOK, ServerTypeOK
  <1>2. AnswersInv' /\ EventsInv' /\ MemoryInv' /\ MappedInv'
    <2>1. \A t \in Memory : Aware(1, t) => t \in hidden'
      BY <1>0, <1>1 DEF Aware, Tells
    <2>2. line.related = {}
      BY <1>0, <1>1, LineFields DEF RoutingInv, EventsInv
    <2>3. \A t \in Thread \ Memory : Mapped(1, t) => thread_workspace'[t] # None
      BY <1>0, <1>1, <2>2 DEF Mapped
    <2>4. UNCHANGED <<inbox, out, creator, begun, archived, pc, call>>
      BY <1>0 DEF server, callers
    <2> QED
      BY <2>1, <2>3, <2>4, LineGone
  <1>3. shown'.kind = "codex/backgroundThread" /\ ~OfTurn(shown'.kind)
    BY DEF Emission, OfTurn
  <1>4. ShownInv' /\ TurnEventsReachTheirWorkspace'
    BY <1>3 DEF ShownInv, TurnEventsReachTheirWorkspace, OfTurn
  <1>5. ThreadInv' /\ NamedInv' /\ FromInv' /\ RoutedInv' /\ RoutesToCreator'
    BY <1>0 DEF RoutingInv, ThreadInv, NamedInv, FromInv, RoutedInv, EventsGoHome,
       RoutesToCreator, callers, server
  <1> QED
    BY <1>2, <1>4, <1>5 DEF RoutingInv, EventsGoHome

LEMMA RoutingSuppress ==
    ASSUME TypeInv, RoutingInv, Suppress
    PROVE  RoutingInv'
  <1> USE DEF Suppress, Handled, Suppressed
  <1>0. /\ UNCHANGED <<tables, shown, callers, server>>
        /\ line \in Events /\ line.thread \in Memory
    BY DEF TypeInv, Located, RoutingInv, ThreadInv
  <1>1. 0..(1 - 1) = {0} /\ Line(0) = line /\ 0 \in 0..Len(out)
    BY DEF Line, TypeInv, TypeOK, ServerTypeOK
  <1>2. AnswersInv' /\ EventsInv' /\ MemoryInv' /\ MappedInv'
    <2>1. \A t \in Memory : Aware(1, t) => t \in hidden'
      BY <1>0, <1>1 DEF Aware, Tells, tables
    <2>2. line.related = {}
      BY <1>0, <1>1, LineFields DEF RoutingInv, EventsInv
    <2>3. \A t \in Thread \ Memory : Mapped(1, t) => thread_workspace'[t] # None
      BY <1>0, <1>1, <2>2 DEF Mapped, tables
    <2>4. UNCHANGED <<inbox, out, creator, begun, archived, pc, call>>
      BY <1>0 DEF server, callers
    <2> QED
      BY <2>1, <2>3, <2>4, LineGone
  <1>3. ThreadInv' /\ NamedInv' /\ FromInv' /\ RoutedInv' /\ ShownInv' /\ EventsGoHome'
    BY <1>0 DEF RoutingInv, ThreadInv, NamedInv, FromInv, RoutedInv, ShownInv, EventsGoHome,
       RoutesToCreator, TurnEventsReachTheirWorkspace, callers, server, tables
  <1> QED
    BY <1>2, <1>3 DEF RoutingInv

\* What a line mentions goes where its thread goes.
LEMMA RoutingEmit ==
    ASSUME TypeInv, RoutingInv, Emit
    PROVE  RoutingInv'
  <1> USE DEF Emit, Handled
  <1>0. /\ UNCHANGED <<workspace_roots, workspace_ids, ctx, callers, server>>
        /\ line \in Events /\ at = "deliver" /\ routed \in Workspace /\ at' = "read"
        /\ line.related \subseteq Thread
    BY LineFields DEF TypeInv, Located
  <1>1. 0..(1 - 1) = {0} /\ Line(0) = line /\ 0 \in 0..Len(out)
    BY DEF Line, TypeInv, TypeOK, ServerTypeOK
  <1>2. \A t \in Thread : /\ Archives(t) <=> Forgotten(t)
                          /\ thread_workspace'[t] = IF Forgotten(t) THEN None ELSE Mentioned(t)
                          /\ t \in hidden' <=> t \in hidden /\ ~Forgotten(t)
    BY <1>0 DEF Archives, Forgotten
  <1>3. \A t \in line.related : /\ OfTurn(line.kind) /\ line.thread \notin Memory
                                /\ t \notin Memory /\ creator[t] = creator[line.thread]
    BY <1>0, <1>1 DEF RoutingInv, EventsInv, OfTurn
  <1>4. \A t \in line.related : /\ creator[t] # None
                                /\ creator[t] \in workspace_roots => routed = creator[t]
    BY <1>0, <1>3, TurnsHaveWorkspace, SessionAssumption DEF RoutingInv, RoutedInv
  <1>5. AnswersInv' /\ EventsInv' /\ MemoryInv' /\ MappedInv'
    <2>1. \A t \in Memory : Aware(1, t) => t \in hidden' \/ Archives(t)
      BY <1>0, <1>1, <1>2, SessionAssumption DEF Aware, Tells, StartsMemory
    <2>2. \A t \in Thread \ Memory : Mapped(1, t) => thread_workspace'[t] # None \/ Archives(t)
      BY <1>0, <1>1, <1>2, SessionAssumption DEF Mapped, Mentioned
    <2>3. UNCHANGED <<inbox, out, creator, begun, archived, pc, call>>
      BY <1>0 DEF server, callers
    <2> QED
      BY <2>1, <2>2, <2>3, LineGone
  <1>6. ThreadInv'
    BY <1>0, <1>2, <1>4 DEF RoutingInv, ThreadInv, Mentioned, server
  <1>7. RoutesToCreator'
    BY <1>0, <1>2, <1>4 DEF RoutingInv, EventsGoHome, RoutesToCreator, Mentioned, server
  <1>8. ASSUME shown' # None
        PROVE  /\ shown'.thread = line.thread /\ shown'.kind = line.kind
               /\ line.thread # None => shown'.to = {routed}
    BY <1>8 DEF Emission
  <1>9. OfTurn(line.kind) => line.thread \in begun /\ line.thread # None
    BY <1>0, <1>1, SessionAssumption DEF RoutingInv, EventsInv, TypeInv, TypeOK, ServerTypeOK
  <1>10. TurnEventsReachTheirWorkspace'
    BY <1>0, <1>8, <1>9 DEF RoutingInv, RoutedInv, TurnEventsReachTheirWorkspace, OfTurn, server
  <1>11. ShownInv'
    <2>1. ASSUME line.thread \in Memory, line.kind # "thread/archived" PROVE FALSE
      <3>1. line.kind # "thread/started"
        BY <2>1 DEF StartsMemory
      <3>2. Aware(0, line.thread)
        BY <1>0, <1>1, <2>1, <3>1 DEF RoutingInv, MemoryInv, Tells
      <3>3. line.thread \in hidden
        BY <3>2 DEF Aware
      <3> QED
        BY <2>1, <3>3 DEF Suppressed
    <2> QED
      BY <1>0, <1>8, <1>9, <2>1 DEF ShownInv, server
  <1>12. NamedInv' /\ FromInv' /\ RoutedInv'
    BY <1>0 DEF RoutingInv, NamedInv, FromInv, RoutedInv, callers, server
  <1> QED
    BY <1>5, <1>6, <1>7, <1>10, <1>11, <1>12 DEF RoutingInv, EventsGoHome

LEMMA RoutingReader ==
    ASSUME RequestInv, RoutingInv, Reader
    PROVE  RoutingInv'
  <1>0. TypeInv
    BY DEF RequestInv
  <1>1. CASE ClearPending \/ ClearContext
    <2>0. /\ UNCHANGED <<thread_workspace, hidden, workspace_roots, callers, line, shown, server>>
          /\ at' # "deliver" /\ at' # "assign" /\ at # "assign" /\ at' # "read"
      BY <1>1 DEF ClearPending, ClearContext
    <2>1. AnswersInv' /\ EventsInv' /\ MemoryInv'
      BY <2>0, LinesKept DEF server
    <2>2. MappedInv'
      BY <2>0 DEF RoutingInv, MappedInv, Mapped, Line, Tells, callers, server
    <2>3. FromInv'
      BY <1>1, <2>0 DEF RoutingInv, FromInv, ClearPending, ClearContext
    <2>4. ThreadInv' /\ NamedInv' /\ RoutedInv' /\ ShownInv' /\ EventsGoHome'
      BY <2>0 DEF RoutingInv, ThreadInv, NamedInv, RoutedInv, ShownInv, EventsGoHome,
         RoutesToCreator, TurnEventsReachTheirWorkspace, callers, server
    <2> QED
      BY <2>1, <2>2, <2>3, <2>4 DEF RoutingInv
  <1> QED
    BY <1>0, <1>1, RoutingRead, RoutingAssignRelated, RoutingAssignListed, RoutingAnswer,
       RoutingRoute, RoutingAnnounce, RoutingSuppress, RoutingEmit DEF Reader

----------------------------------------------------------------------------
(* The process                                                              *)

\* One line more, behind the others: what is known of those stays.
LEMMA LineAdded ==
    ASSUME TypeInv, RoutingInv, NEW l, l \in Answers \cup Events, out' = Append(out, l),
           UNCHANGED <<tables, callers, reader>>,
           \A t \in Thread : creator[t] # None => creator'[t] = creator[t],
           begun \subseteq begun', archived \subseteq archived',
           l \in Answers => /\ \A t \in l.related : creator'[t] = l.req.ws
                            /\ \A t \in l.listed \ Memory : creator'[t] # None,
           l \in Events =>
             /\ l.thread \notin archived
             /\ OfTurn(l.kind) => l.thread \in begun'
             /\ l.kind \in {"thread/updated", "item/started"} => l.thread \notin Memory
             /\ \A t \in l.related : /\ l.kind = "item/started" /\ t \notin Memory
                                     /\ creator'[t] = creator'[l.thread]
             /\ l.kind = "thread/archived" => l.thread \in archived'
    PROVE  AnswersInv' /\ EventsInv'
  <1>0. Answers' = Answers /\ Events' = Events
    BY DEF Answers, Events
  <1>1. /\ Len(out) \in Nat /\ Len(out') = Len(out) + 1
        /\ \A k \in Nat : k = Len(out) + 1 => Line(k)' = l
        /\ \A k \in 0..Len(out) : Line(k)' = Line(k)
    BY LinesWritten DEF reader
  <1>2. \A k \in 0..Len(out') : k = Len(out) + 1 \/ k \in 0..Len(out)
    BY <1>1
  <1>3. \A k \in 0..Len(out) : Line(k) \in Answers =>
          /\ Line(k).related \subseteq Thread /\ Line(k).listed \subseteq Thread
          /\ Line(k).req.ws \in Workspace
    BY LineFields, CallFields
  <1>4. AnswersInv'
    <2> SUFFICES ASSUME NEW k \in 0..Len(out'), Line(k)' \in Answers
                 PROVE  /\ \A t \in Line(k)'.related : creator'[t] = Line(k)'.req.ws
                        /\ \A t \in Line(k)'.listed \ Memory : creator'[t] # None
      BY <1>0 DEF AnswersInv
    <2>1. CASE k = Len(out) + 1
      BY <1>1, <2>1
    <2>2. CASE k \in 0..Len(out)
      BY <1>1, <1>3, <2>2, SessionAssumption DEF RoutingInv, AnswersInv
    <2> QED
      BY <1>2, <2>1, <2>2
  <1>5. \A k \in 0..Len(out) : Line(k) \in Events =>
          /\ Line(k).related \subseteq Thread
          /\ OfTurn(Line(k).kind) => Line(k).thread \in begun
          /\ Line(k).kind = "item/started" => creator[Line(k).thread] # None /\ Line(k).thread \in Thread
    BY LineFields DEF RoutingInv, EventsInv, ThreadInv, OfTurn, TypeInv, TypeOK, ServerTypeOK
  <1>6. EventsInv'
    <2>1. ASSUME NEW k \in 0..Len(out'), Line(k)' \in Events
          PROVE  /\ OfTurn(Line(k)'.kind) => Line(k)'.thread \in begun'
                 /\ Line(k)'.kind = "thread/updated" => Line(k)'.thread \notin Memory
                 /\ Line(k)'.kind = "item/started" => Line(k)'.thread \notin Memory
                 /\ \A t \in Line(k)'.related : /\ Line(k)'.kind = "item/started" /\ t \notin Memory
                                                /\ creator'[t] = creator'[Line(k)'.thread]
                 /\ Line(k)'.kind = "thread/archived" => Line(k)'.thread \in archived'
      <3>1. CASE k = Len(out) + 1
        BY <1>1, <2>1, <3>1
      <3>2. CASE k \in 0..Len(out)
        BY <1>1, <1>5, <2>1, <3>2 DEF RoutingInv, EventsInv
      <3> QED
        BY <1>2, <3>1, <3>2
    <2>2. ASSUME NEW k \in 0..Len(out'), Line(k)' \in Events, Line(k)'.kind = "thread/archived",
                 NEW j \in (k + 1)..Len(out'), Line(j)' \in Events, Line(j)'.thread = Line(k)'.thread
          PROVE  FALSE
      <3>1. k \in 0..Len(out) /\ Line(k)' = Line(k)
        BY <1>1, <2>2
      <3>2. Line(k).thread \in archived
        BY <2>2, <3>1 DEF RoutingInv, EventsInv
      <3>3. CASE j = Len(out) + 1
        BY <1>1, <2>2, <3>1, <3>2, <3>3
      <3>4. CASE j \in 0..Len(out)
        BY <1>1, <2>2, <3>1, <3>4 DEF RoutingInv, EventsInv, Tells
      <3> QED
        BY <1>2, <3>3, <3>4, <1>1
    <2> QED
      BY <1>0, <2>1, <2>2 DEF EventsInv, Tells
  <1> QED
    BY <1>4, <1>6

LEMMA LineAddedTables ==
    ASSUME TypeInv, RoutingInv, NEW l, out' = Append(out, l),
           UNCHANGED <<tables, callers, reader>>,
           inbox' \subseteq inbox, begun \subseteq begun', archived \subseteq archived',
           l \in Events =>
             /\ l.thread \in Memory /\ l.kind \notin {"thread/started", "thread/archived"}
                  => l.thread \in begun \ archived
             /\ l.thread \notin Memory /\ OfTurn(l.kind) => l.thread \in begun \ archived,
           \A t \in Memory \cap (begun' \ begun) :
             l \in Events /\ l.thread = t /\ l.kind = "thread/started",
           \A t \in (begun' \ begun) \ Memory :
             thread_workspace[t] # None \/ (l \in Events /\ t \in l.related)
    PROVE  MemoryInv' /\ MappedInv'
  <1>0. Answers' = Answers /\ Events' = Events
    BY DEF Answers, Events
  <1>1. /\ Len(out) \in Nat /\ Len(out') = Len(out) + 1
        /\ \A k \in Nat : k = Len(out) + 1 => Line(k)' = l
        /\ \A k \in 0..Len(out) : Line(k)' = Line(k)
    BY LinesWritten DEF reader
  <1>2. /\ \A k \in 0..Len(out') : k = Len(out) + 1 \/ k \in 0..Len(out)
        /\ Len(out) + 1 \in 0..(Len(out') + 1)
    BY <1>1
  <1>3. UNCHANGED <<hidden, thread_workspace, pc, call>>
    BY DEF tables, callers
  <1>4. ASSUME NEW k \in 0..(Len(out) + 1), NEW n \in Nat, k <= n, NEW t, Aware(k, t)
        PROVE  Aware(n, t)'
    <2>1. CASE t \in hidden
      BY <1>3, <2>1 DEF Aware
    <2>2. ASSUME NEW j \in 0..(k - 1), Tells(j, t), Line(j).kind = "thread/started"
          PROVE  Aware(n, t)'
      <3>1. Line(j)' = Line(j) /\ j \in 0..(n - 1)
        BY <1>1, <1>4
      <3> QED
        BY <1>0, <2>2, <3>1 DEF Aware, Tells
    <2> QED
      BY <1>4, <2>1, <2>2 DEF Aware
  <1>5. ASSUME NEW t \in Memory
        PROVE  /\ \A k \in 0..Len(out') :
                    Tells(k, t)' /\ Line(k)'.kind \notin {"thread/started", "thread/archived"}
                      => Aware(k, t)'
               /\ \A n \in Nat : n = Len(out') + 1 /\ t \in begun' \ archived' => Aware(n, t)'
    <2>1. ASSUME NEW k \in 0..Len(out'), Tells(k, t)',
                 Line(k)'.kind \notin {"thread/started", "thread/archived"}
          PROVE  Aware(k, t)'
      <3>1. CASE k = Len(out) + 1
        <4>1. t \in begun \ archived
          BY <1>0, <1>1, <2>1, <3>1 DEF Tells
        <4>2. Aware(k, t)
          BY <3>1, <4>1 DEF RoutingInv, MemoryInv
        <4> QED
          BY <1>1, <1>4, <3>1, <4>2
      <3>2. CASE k \in 0..Len(out)
        <4>1. Aware(k, t)
          BY <1>0, <1>1, <2>1, <3>2 DEF RoutingInv, MemoryInv, Tells
        <4> QED
          BY <1>1, <1>4, <3>2, <4>1
      <3> QED
        BY <1>2, <3>1, <3>2
    <2>2. ASSUME NEW n \in Nat, n = Len(out') + 1, t \in begun' \ archived'
          PROVE  Aware(n, t)'
      <3>1. CASE t \in begun
        <4>1. Aware(Len(out) + 1, t)
          BY <2>2, <3>1 DEF RoutingInv, MemoryInv
        <4> QED
          BY <1>1, <1>4, <2>2, <4>1
      <3>2. CASE t \notin begun
        <4>1. PICK j \in Nat : j = Len(out) + 1
          BY <1>1
        <4>2. j \in 0..(n - 1) /\ Line(j)' = l
          BY <1>1, <2>2, <4>1
        <4> QED
          BY <1>0, <2>2, <3>2, <4>2 DEF Aware, Tells
      <3> QED
        BY <3>1, <3>2
    <2> QED
      BY <2>1, <2>2
  <1>6. MemoryInv'
    BY <1>1, <1>5 DEF MemoryInv
  <1>7. ASSUME NEW k \in 0..(Len(out) + 1), NEW n \in Nat, k <= n, NEW t, Mapped(k, t)
        PROVE  Mapped(n, t)'
    <2>1. CASE thread_workspace[t] # None
      BY <1>3, <2>1 DEF Mapped
    <2>2. ASSUME NEW j \in 0..(k - 1), Line(j) \in Events, t \in Line(j).related
          PROVE  Mapped(n, t)'
      <3>1. Line(j)' = Line(j) /\ j \in 0..(n - 1)
        BY <1>1, <1>7
      <3> QED
        BY <1>0, <2>2, <3>1 DEF Mapped
    <2> QED
      BY <1>7, <2>1, <2>2 DEF Mapped
  <1>8. ASSUME NEW t \in Thread \ Memory
        PROVE  /\ \A k \in 0..Len(out') : Tells(k, t)' /\ OfTurn(Line(k)'.kind) => Mapped(k, t)'
               /\ \A n \in Nat : n = Len(out') + 1 /\ t \in begun' \ archived' => Mapped(n, t)'
    <2>1. ASSUME NEW k \in 0..Len(out'), Tells(k, t)', OfTurn(Line(k)'.kind)
          PROVE  Mapped(k, t)'
      <3>1. CASE k = Len(out) + 1
        <4>1. t \in begun \ archived
          BY <1>0, <1>1, <2>1, <3>1 DEF Tells
        <4>2. Mapped(k, t)
          BY <3>1, <4>1 DEF RoutingInv, MappedInv
        <4> QED
          BY <1>1, <1>7, <3>1, <4>2
      <3>2. CASE k \in 0..Len(out)
        <4>1. Mapped(k, t)
          BY <1>0, <1>1, <2>1, <3>2 DEF RoutingInv, MappedInv, Tells
        <4> QED
          BY <1>1, <1>7, <3>2, <4>1
      <3> QED
        BY <1>2, <3>1, <3>2
    <2>2. ASSUME NEW n \in Nat, n = Len(out') + 1, t \in begun' \ archived'
          PROVE  Mapped(n, t)'
      <3>1. CASE t \in begun
        <4>1. Mapped(Len(out) + 1, t)
          BY <2>2, <3>1 DEF RoutingInv, MappedInv
        <4> QED
          BY <1>1, <1>7, <2>2, <4>1
      <3>2. CASE t \notin begun
        <4>1. PICK j \in Nat : j = Len(out) + 1
          BY <1>1
        <4>2. j \in 0..(n - 1) /\ Line(j)' = l
          BY <1>1, <2>2, <4>1
        <4> QED
          BY <1>0, <1>3, <2>2, <3>2, <4>2 DEF Mapped
      <3> QED
        BY <3>1, <3>2
    <2> QED
      BY <2>1, <2>2
  <1>9. MappedInv'
    BY <1>1, <1>3, <1>8 DEF RoutingInv, MappedInv
  <1> QED
    BY <1>6, <1>9

\* Whatever the process does: it names only threads it has made, and begins one
\* only for a request that has entered it in the table, or in an item.
LEMMA RoutingServer ==
    ASSUME RequestInv, RoutingInv, Server
    PROVE  RoutingInv'
  <1>t. TypeInv /\ TypeInv'
    BY TypeServer DEF RequestInv
  <1>0. /\ UNCHANGED <<tables, callers, reader>>
        /\ inbox' \subseteq inbox
    BY <1>t, ServerFrame
  <1> DEFINE Rest == /\ NamedInv' /\ FromInv' /\ RoutedInv' /\ ShownInv' /\ EventsGoHome'
  <1>1. ASSUME \A t \in Thread : creator[t] # None => creator'[t] = creator[t],
               \A t \in Thread : creator'[t] # creator[t] => thread_workspace[t] = None,
               begun \subseteq begun'
        PROVE  Rest
    <2>1. NamedInv'
      <3>0. \A r \in Call : r.ws # None /\ (r.thread # None => r.thread \in Thread)
        BY CallFields, SessionAssumption
      <3>1. \A c \in Caller : call[c] # None /\ call[c].thread # None
              => call[c].thread \in Thread /\ creator[call[c].thread] # None
        <4>1. \A c \in Caller : call[c] # None => call[c] \in Call
          BY <1>t DEF TypeInv, TypeOK, CallersTypeOK
        <4> QED
          BY <3>0, <4>1 DEF RoutingInv, NamedInv
      <3>2. \A r \in inbox : r.req.thread # None
              => r.req.thread \in Thread /\ creator[r.req.thread] # None
        <4>1. \A r \in inbox : r.req \in Call
          BY <1>t DEF TypeInv, TypeOK, ServerTypeOK
        <4> QED
          BY <3>0, <4>1 DEF RoutingInv, NamedInv
      <3> QED
        BY <1>0, <1>1, <3>1, <3>2 DEF RoutingInv, NamedInv, callers
    <2>2. FromInv'
      BY <1>0 DEF RoutingInv, FromInv, tables, callers, reader
    <2>3. RoutedInv' /\ TurnEventsReachTheirWorkspace'
      BY <1>0, <1>1, <1>t, TurnsHaveWorkspace, SessionAssumption
         DEF RoutingInv, RoutedInv, EventsGoHome, TurnEventsReachTheirWorkspace, OfTurn,
             tables, reader
    <2>4. ShownInv'
      BY <1>0, <1>1 DEF RoutingInv, ShownInv, reader
    <2>5. RoutesToCreator'
      BY <1>0, <1>1 DEF RoutingInv, EventsGoHome, RoutesToCreator, tables
    <2> QED
      BY <2>1, <2>2, <2>3, <2>4, <2>5 DEF EventsGoHome
  <1>2. Known \subseteq Thread \ archived /\ None \notin Known
           /\ \A t \in Known : IF t \in Memory THEN t \in begun ELSE creator[t] # None
    BY SessionAssumption DEF Known, RoutingInv, ThreadInv
  <1>3. begun \subseteq Thread /\ archived \subseteq Thread /\ None \notin archived /\ None \notin Memory
    BY <1>t, SessionAssumption DEF TypeInv, TypeOK, ServerTypeOK
  <1>4. CASE Serve
    <2>1. PICK r \in inbox :
            \/ \E t \in Thread : StartThread(r, t)
            \/ ListThreads(r) \/ UseThread(r) \/ Refuse(r)
      BY <1>4 DEF Serve
    <2>2. /\ r.id \in 1..MaxId /\ r.req \in Call /\ r.req.ws \in Workspace
          /\ r.req.thread # None => r.req.thread \in Thread /\ creator[r.req.thread] = r.req.ws
      BY <1>t, CallFields DEF TypeInv, TypeOK, ServerTypeOK, RoutingInv, NamedInv
    <2>3. ASSUME NEW rel \in SUBSET Thread, NEW lst \in SUBSET Thread
          PROVE  /\ Reply(r.id, r.req, rel, lst) \in Answers
                 /\ Reply(r.id, r.req, rel, lst) \notin Events
                 /\ Reply(r.id, r.req, rel, lst).related = rel
                 /\ Reply(r.id, r.req, rel, lst).listed = lst
                 /\ Reply(r.id, r.req, rel, lst).req = r.req
      BY <2>2, EventIsNoAnswer DEF Reply, Answers
    <2>4. ASSUME NEW rel \in SUBSET Thread, NEW lst \in SUBSET Thread,
                 out' = Append(out, Reply(r.id, r.req, rel, lst)),
                 \A t \in Thread : creator[t] # None => creator'[t] = creator[t],
                 \A t \in rel : creator'[t] = r.req.ws,
                 \A t \in lst \ Memory : creator'[t] # None,
                 \A t \in Memory : creator'[t] = None,
                 UNCHANGED archived,
                 begun \subseteq begun',
                 \A t \in begun' \ begun : /\ t \notin Memory /\ creator[t] # None
                                           /\ thread_workspace[t] # None
          PROVE  RoutingInv'
      <3>1. AnswersInv' /\ EventsInv'
        BY <1>0, <1>t, <2>3, <2>4, LineAdded
      <3>2. MemoryInv' /\ MappedInv'
        BY <1>0, <1>t, <2>3, <2>4, LineAddedTables
      <3>3. \A t \in Thread : creator'[t] # creator[t] => thread_workspace[t] = None
        BY <2>4 DEF RoutingInv, ThreadInv
      <3>4. Rest
        BY <1>1, <2>4, <3>3
      <3>5. ThreadInv'
        <4>1. UNCHANGED <<hidden, thread_workspace>>
          BY <1>0 DEF tables
        <4>2. \A t \in Thread : creator'[t] = None => creator[t] = None
          BY <2>4
        <4>3. \A t \in begun' \ Memory : t \in Thread /\ creator[t] # None
          <5>1. begun' \subseteq Thread
            BY <1>t DEF TypeInv, TypeOK, ServerTypeOK
          <5> QED
            BY <2>4, <5>1 DEF RoutingInv, ThreadInv
        <4> QED
          BY <2>4, <4>1, <4>2, <4>3 DEF RoutingInv, ThreadInv
      <3> QED
        BY <3>1, <3>2, <3>4, <3>5 DEF RoutingInv
    <2>5. ASSUME NEW t \in Thread, StartThread(r, t) PROVE RoutingInv'
      <3>1. /\ out' = Append(out, Reply(r.id, r.req, {t}, {}))
            /\ t \notin Memory /\ creator[t] = None /\ creator' = [creator EXCEPT ![t] = r.req.ws]
            /\ UNCHANGED <<begun, archived>>
        BY <2>5 DEF StartThread, Writes
      <3>2. creator'[t] = r.req.ws /\ \A u \in Thread : u # t => creator'[u] = creator[u]
        BY <1>t, <3>1 DEF TypeInv, TypeOK, ServerTypeOK
      <3>3. {t} \in SUBSET Thread /\ {} \in SUBSET Thread
        OBVIOUS
      <3>4. \A u \in Memory : creator'[u] = None
        BY <3>1, <3>2, SessionAssumption DEF RoutingInv, ThreadInv
      <3> QED
        BY <2>4, <3>1, <3>2, <3>3, <3>4
    <2>6. CASE ListThreads(r)
      <3>1. /\ out' = Append(out, Reply(r.id, r.req, {}, Known))
            /\ UNCHANGED <<creator, begun, archived>>
        BY <2>6 DEF ListThreads, Writes
      <3>2. {} \in SUBSET Thread /\ Known \in SUBSET Thread
        BY <1>2
      <3>3. /\ \A u \in Known \ Memory : creator'[u] # None
            /\ \A u \in Memory : creator'[u] = None
        BY <1>2, <3>1 DEF RoutingInv, ThreadInv
      <3> QED
        BY <2>4, <3>1, <3>2, <3>3
    <2>7. CASE UseThread(r)
      <3>1. r.req.thread \in Thread \ archived
        BY <2>2, <2>7 DEF UseThread, Call, Plain, Names
      <3>2. PICK rel \in {{}, {r.req.thread}} :
              /\ out' = Append(out, Reply(r.id, r.req, rel, {}))
              /\ UNCHANGED <<creator, archived>> /\ begun' = begun \cup {r.req.thread}
        BY <2>7 DEF UseThread, Writes
      <3>3. creator[r.req.thread] = r.req.ws /\ thread_workspace[r.req.thread] # None
        BY <2>2, <3>1, SessionAssumption DEF RoutingInv, MappedInv
      <3>4. r.req.thread \notin Memory /\ \A u \in Memory : creator'[u] = None
        BY <2>2, <3>2, <3>3, SessionAssumption DEF RoutingInv, ThreadInv
      <3>5. rel \in SUBSET Thread /\ {} \in SUBSET Thread
        BY <3>1
      <3>6. r.req.ws # None
        BY <2>2, SessionAssumption
      <3> QED
        BY <2>4, <3>2, <3>3, <3>4, <3>5, <3>6
    <2>8. CASE Refuse(r)
      <3>1. /\ out' = Append(out, Reply(r.id, r.req, {}, {}))
            /\ UNCHANGED <<creator, begun, archived>>
        BY <2>8 DEF Refuse, Writes
      <3>2. {} \in SUBSET Thread /\ \A u \in Memory : creator'[u] = None
        BY <3>1 DEF RoutingInv, ThreadInv
      <3> QED
        BY <2>4, <3>1, <3>2
    <2> QED
      BY <2>1, <2>5, <2>6, <2>7, <2>8
  <1>5. CASE Exit
    <2>0. UNCHANGED <<hidden, creator, begun, archived, line, out, inbox, tables, callers, reader>>
      BY <1>5 DEF Exit, tables, reader
    <2>1. AnswersInv' /\ EventsInv' /\ MemoryInv'
      BY <2>0, LinesKept
    <2>2. MappedInv'
      BY <2>0 DEF RoutingInv, MappedInv, Mapped, Line, Tells, callers, tables
    <2>3. ThreadInv' /\ Rest
      BY <1>1, <2>0 DEF RoutingInv, ThreadInv, tables
    <2> QED
      BY <2>1, <2>2, <2>3 DEF RoutingInv
  <1>6. ASSUME NEW k \in {"thread/started", "item/started", "turn/completed", "thread/updated",
                          "thread/archived"},
               NEW t \in Thread \cup {None}, NEW rel \in SUBSET Thread
        PROVE  /\ Event(k, t, rel) \in Events /\ Event(k, t, rel) \notin Answers
               /\ Event(k, t, rel).kind = k /\ Event(k, t, rel).thread = t
               /\ Event(k, t, rel).related = rel
    <2>1. Event(k, t, rel) \in Events
      BY DEF Event, Events
    <2> QED
      BY <2>1, EventIsNoAnswer DEF Event
  <1>7. ASSUME NEW t \in Thread, NEW u \in Thread, Spawn(t, u) PROVE RoutingInv'
    <2>1. /\ t \in begun \ archived /\ t \notin Memory /\ u \notin Memory /\ creator[u] = None
          /\ creator' = [creator EXCEPT ![u] = creator[t]]
          /\ begun' = begun \cup {u} /\ UNCHANGED archived
          /\ out' = Append(out, Event("item/started", t, {t, u}))
      BY <1>7 DEF Spawn, Writes
    <2>2. creator[t] # None /\ t # u
      BY <2>1 DEF RoutingInv, ThreadInv
    <2>3. creator'[u] = creator[t] /\ \A v \in Thread : v # u => creator'[v] = creator[v]
      BY <1>t, <2>1 DEF TypeInv, TypeOK, ServerTypeOK
    <2>4. {t, u} \in SUBSET Thread
      OBVIOUS
    <2>5. AnswersInv' /\ EventsInv'
      BY <1>0, <1>t, <1>6, <2>1, <2>2, <2>3, <2>4, LineAdded DEF OfTurn
    <2>6. MemoryInv' /\ MappedInv'
      BY <1>0, <1>t, <1>6, <2>1, <2>4, LineAddedTables
    <2>7. Rest
      BY <1>1, <2>1, <2>2, <2>3 DEF RoutingInv, ThreadInv
    <2>8. ThreadInv'
      BY <1>0, <1>3, <2>1, <2>2, <2>3, SessionAssumption DEF RoutingInv, ThreadInv, tables
    <2> QED
      BY <2>5, <2>6, <2>7, <2>8 DEF RoutingInv
  <1>8. ASSUME NEW t \in Thread \cup {None}, Consolidate(t) \/ Tell(t) \/ Archive(t)
        PROVE  RoutingInv'
    <2>1. PICK k \in {"thread/started", "turn/completed", "thread/updated", "thread/archived"} :
            /\ out' = Append(out, Event(k, t, {}))
            /\ UNCHANGED creator
            /\ \/ k = "thread/started" /\ t \in Memory \ begun /\ begun' = begun \cup {t}
                    /\ UNCHANGED archived
               \/ k = "turn/completed" /\ t \in Known /\ t \in begun /\ UNCHANGED <<begun, archived>>
               \/ k = "thread/updated" /\ t \in Known \cup {None} /\ t \notin begun
                    /\ UNCHANGED <<begun, archived>>
               \/ k = "thread/archived" /\ t \in Known /\ UNCHANGED begun
                    /\ archived' = archived \cup {t}
      BY <1>3, <1>8, <1>t, SessionAssumption
         DEF Consolidate, Tell, Archive, Writes, TypeInv, TypeOK, ServerTypeOK
    <2>2. {} \in SUBSET Thread
      OBVIOUS
    <2>3. t \notin archived
      BY <1>2, <1>3, <2>1 DEF RoutingInv, ThreadInv
    <2>4. k = "thread/updated" => t \notin Memory
      BY <1>2, <1>3, <2>1
    <2>5. AnswersInv' /\ EventsInv'
      <3>1. \A u \in Thread : creator[u] # None => creator'[u] = creator[u]
        BY <2>1
      <3>2. begun \subseteq begun' /\ archived \subseteq archived'
        BY <2>1
      <3>3. (OfTurn(k) => t \in begun') /\ (k = "thread/archived" => t \in archived')
              /\ k # "item/started"
        BY <2>1 DEF OfTurn
      <3>4. PICK l : l = Event(k, t, {})
        OBVIOUS
      <3>5. /\ l \in Events /\ l \notin Answers
            /\ l.kind = k /\ l.thread = t /\ l.related = {}
        BY <1>6, <2>2, <3>4
      <3>6. out' = Append(out, l)
        BY <2>1, <3>4
      <3> QED
        BY <1>0, <1>t, <2>3, <2>4, <3>1, <3>2, <3>3, <3>5, <3>6, LineAdded
    <2>6. MemoryInv' /\ MappedInv'
      <3>1. begun \subseteq begun' /\ archived \subseteq archived'
        BY <2>1
      <3>2. /\ t \in Memory /\ k \notin {"thread/started", "thread/archived"} => t \in begun \ archived
            /\ t \notin Memory /\ OfTurn(k) => t \in begun \ archived
        BY <2>1, <2>3, <2>4 DEF OfTurn
      <3>3. \A u \in begun' \ begun : u \in Memory /\ u = t /\ k = "thread/started"
        BY <2>1
      <3> QED
        BY <1>0, <1>t, <1>6, <2>1, <2>2, <3>1, <3>2, <3>3, LineAddedTables
    <2>7. Rest
      BY <1>1, <2>1
    <2>8. ThreadInv'
      BY <1>0, <1>2, <1>3, <2>1 DEF RoutingInv, ThreadInv, tables
    <2> QED
      BY <2>5, <2>6, <2>7, <2>8 DEF RoutingInv
  <1> QED
    BY <1>4, <1>5, <1>7, <1>8 DEF Server

LEMMA RoutingNext ==
    ASSUME RequestInv, RoutingInv, [Next]_vars
    PROVE  RoutingInv'
  <1>0. TypeInv
    BY DEF RequestInv
  <1>1. CASE UNCHANGED vars
    <2>1. AnswersInv' /\ EventsInv' /\ MemoryInv'
      BY <1>1, LinesKept DEF vars, tables, reader, server
    <2>2. MappedInv'
      BY <1>1 DEF RoutingInv, MappedInv, Mapped, Line, Tells, vars, callers, tables, reader, server
    <2>3. ThreadInv' /\ NamedInv' /\ FromInv' /\ RoutedInv' /\ ShownInv' /\ EventsGoHome'
      BY <1>1 DEF RoutingInv, ThreadInv, NamedInv, FromInv, RoutedInv, ShownInv, EventsGoHome,
         RoutesToCreator, TurnEventsReachTheirWorkspace, vars, callers, tables, reader, server
    <2> QED
      BY <2>1, <2>2, <2>3 DEF RoutingInv
  <1> QED
    BY <1>0, <1>1, RoutingRegistration, RoutingCaller, RoutingReader, RoutingServer DEF Next

LEMMA RoutingSound == Spec => []RoutingInv
  BY RequestInit, RequestNext, RoutingInit, RoutingNext, PTL DEF Spec, Safety

\* Events go to the workspace their thread belongs to: the property EventsGoHome
\* of thread_workspace and the reader, whatever roots are nested and whichever
\* workspaces come and go.
THEOREM EventsReachTheirWorkspace == Spec => []EventsGoHome
  BY RoutingSound, PTL DEF RoutingInv

\* Nothing of a memory consolidation is shown but the order to hide it and its
\* archiving: the property MemoryStaysHidden of hidden_thread_ids.
THEOREM ConsolidationIsHidden == Spec => []MemoryStaysHidden
  <1>1. RoutingInv => MemoryStaysHidden
    BY DEF RoutingInv, ShownInv, MemoryStaysHidden
  <1> QED
    BY <1>1, RoutingSound, PTL

==============================================================================
