--------------------------- MODULE AppServerSession ---------------------------
(***************************************************************************)
(* One WorkspaceSession (src-tauri/src/backend/app_server.rs): the client   *)
(* side of a `codex app-server` process that several workspaces share.      *)
(*                                                                          *)
(* Callers (Tauri commands, or the daemon's RPC tasks) send requests over   *)
(* its stdin and wait for the answer; one reader task reads its stdout,     *)
(* gives answers to the callers and events to the workspace they concern.   *)
(* They share five tables, each behind a mutex of its own, so every lock    *)
(* taken is a step: pending, request_context (here ctx), thread_workspace,  *)
(* hidden_thread_ids (hidden), workspace_ids and workspace_roots.           *)
(*                                                                          *)
(* The process itself is not in this repository.  It is modelled by what    *)
(* the reader relies on: it answers a request at most once, in any order,   *)
(* speaks about a thread only after the answer that created it, about a     *)
(* turn only after a request that names the thread, and announces the       *)
(* threads it starts by itself (memory consolidation).  It never sends      *)
(* codex/backgroundThread, an event of this program's own                   *)
(* (docs/app-server-events.md), for which the reader has a branch too.      *)
(***************************************************************************)
EXTENDS Integers, Sequences, FiniteSets

CONSTANTS
    Caller,      \* tasks that send requests
    Workspace,   \* workspaces that may share the session
    Thread,      \* conversation threads
    Memory,      \* the threads the process starts for memory consolidation
    Owner,       \* owner_workspace_id, also the reader's fallback
    Root,        \* length of each workspace's root path
    Under,       \* Under[w]: the workspaces whose root is w's root or above it
    None,
    Prompt,      \* threads that background prompts run in
    Method,      \* the methods callers use
    MaxId,       \* bound: requests sent
    MaxOut       \* bound: lines written by the process and not read yet

ASSUME SessionAssumption ==
    /\ None \notin Workspace \cup Thread \cup Caller
    /\ Memory \subseteq Thread /\ Prompt \subseteq Thread
    /\ Owner \in Workspace
    /\ Root \in [Workspace -> Nat]
    /\ Under \in [Workspace -> SUBSET Workspace]
    /\ \A w \in Workspace : w \in Under[w]
    /\ \A w \in Workspace : \A v \in Under[w] \ {w} : Root[v] < Root[w]
    /\ MaxId \in Nat /\ MaxOut \in Nat

VARIABLES
    nextId,           \* the atomic counter
    pending,          \* id -> the caller that holds the other end
    ctx,              \* id -> workspace and method of the request
    thread_workspace, \* where a thread's events go, None when not known
    hidden,           \* threads whose events are suppressed
    workspace_ids,    \* workspaces registered with the session
    callbacks,        \* threads whose events a background prompt takes
    workspace_roots,  \* ... and the ones among them whose root is known
    pc, call, id, answer,       \* per caller: the request it makes
    at, line, from, routed,     \* the reader: the line it handles
    shown,            \* history: what the reader emitted for that line
    alive, inbox, out,          \* the process: its pipes
    creator,          \* workspace a thread was created for, None before
    begun, archived   \* threads a request has named; threads it archived

tables == <<pending, ctx, thread_workspace, hidden, callbacks,
            workspace_ids, workspace_roots>>
callers == <<nextId, pc, call, id, answer>>
reader == <<at, line, from, routed, shown>>
server == <<alive, inbox, out, creator, begun, archived>>
vars == <<tables, callers, reader, server>>

----------------------------------------------------------------------------
Names == {"thread/resume", "turn/start", "thread/archive"}
Plain == {"thread/start", "thread/list"}

\* A request names the thread it is about, or none.  The front end offers a
\* thread only in the workspace it belongs to.
Call == [ws : Workspace, method : Plain \cap Method, thread : {None}]
          \cup [ws : Workspace, method : Names \cap Method, thread : Thread]

ASSUME NoCallAssumption == None \notin Call

\* A line of output.  An answer carries the id of its request; related are the
\* thread ids found in it (extract_related_thread_ids), listed the entries of a
\* thread list.  req, the request it answers, is there for OwnAnswer only.
NoLine == [kind |-> None]
Reply(i, r, rel, lst) ==
    [kind |-> "reply", id |-> i, req |-> r, related |-> rel, listed |-> lst]
Event(k, t, rel) == [kind |-> k, thread |-> t, related |-> rel]

Put(f, k, v) == [x \in DOMAIN f \cup {k} |-> IF x = k THEN v ELSE f[x]]
Drop(f, K) == [x \in DOMAIN f \ K |-> f[x]]

Init ==
    /\ nextId = 1
    /\ pending = <<>> /\ ctx = <<>>
    /\ thread_workspace = [t \in Thread |-> None]
    /\ hidden = {} /\ callbacks = {}
    /\ workspace_ids = {Owner} /\ workspace_roots = {Owner}
    /\ pc = [c \in Caller |-> "idle"]
    /\ call = [c \in Caller |-> None]
    /\ id = [c \in Caller |-> 0]
    /\ answer = [c \in Caller |-> None]
    /\ at = "read" /\ line = NoLine /\ from = None /\ routed = None /\ shown = None
    /\ alive = TRUE /\ inbox = {} /\ out = <<>>
    /\ creator = [t \in Thread |-> None]
    /\ begun = {} /\ archived = {}

----------------------------------------------------------------------------
(* Registration, called by the session pool                                 *)

\* The id of a removed workspace is never used again.
Attach(w) ==
    /\ w \notin workspace_ids
    /\ \A t \in Thread : creator[t] # w
    /\ \A c \in Caller : call[c] # None => call[c].ws # w
    /\ workspace_ids' = workspace_ids \cup {w}
    /\ workspace_roots' = workspace_roots \cup {w}
    /\ UNCHANGED <<callbacks, pending, ctx, thread_workspace, hidden, callers, reader, server>>

Unregister(w) ==
    /\ w \in workspace_ids
    /\ workspace_ids' = workspace_ids \ {w}
    /\ workspace_roots' = workspace_roots \ {w}
    /\ UNCHANGED <<callbacks, pending, ctx, thread_workspace, hidden, callers, reader, server>>

\* A background prompt takes the events of its thread from the answer to
\* thread/start on until it has its text, an error or its timeout.
AddCallback(t) ==
    /\ t \in Prompt \ callbacks /\ creator[t] # None
    /\ callbacks' = callbacks \cup {t}
    /\ UNCHANGED <<pending, ctx, thread_workspace, hidden, workspace_ids, workspace_roots,
                   callers, reader, server>>

RemoveCallback(t) ==
    /\ t \in callbacks
    /\ callbacks' = callbacks \ {t}
    /\ UNCHANGED <<pending, ctx, thread_workspace, hidden, workspace_ids, workspace_roots,
                   callers, reader, server>>

----------------------------------------------------------------------------
(* A caller: send_request_for_workspace                                     *)

\* Mutant: the id counter is read but not advanced.
IdReused(i) == i

NextId(i) == i + 1

\* It has found the session in the pool's map and takes the next id; the removal
\* of the workspace may come between this and the next step.
Obtain(c, r) ==
    /\ pc[c] = "idle"
    /\ nextId <= MaxId
    /\ r.ws \in workspace_ids
    /\ r.thread # None => creator[r.thread] = r.ws
    /\ call' = [call EXCEPT ![c] = r]
    /\ id' = [id EXCEPT ![c] = nextId]
    /\ nextId' = NextId(nextId)
    /\ pc' = [pc EXCEPT ![c] = "register"]
    /\ UNCHANGED <<answer, tables, reader, server>>

Register(c) ==
    /\ pc[c] = "register"
    /\ workspace_ids' = workspace_ids \cup {call[c].ws}
    /\ pc' = [pc EXCEPT ![c] = "pend"]
    /\ UNCHANGED <<callbacks, pending, ctx, thread_workspace, hidden, workspace_roots,
                   nextId, call, id, answer, reader, server>>

Pend(c) ==
    /\ pc[c] = "pend"
    /\ pending' = Put(pending, id[c], c)
    /\ pc' = [pc EXCEPT ![c] = "context"]
    /\ UNCHANGED <<callbacks, ctx, thread_workspace, hidden, workspace_ids, workspace_roots,
                   nextId, call, id, answer, reader, server>>

Context(c) ==
    /\ pc[c] = "context"
    /\ ctx' = Put(ctx, id[c], [ws |-> call[c].ws, method |-> call[c].method])
    /\ pc' = [pc EXCEPT ![c] = IF call[c].thread = None THEN "write" ELSE "map"]
    /\ UNCHANGED <<callbacks, pending, thread_workspace, hidden, workspace_ids, workspace_roots,
                   nextId, call, id, answer, reader, server>>

MapParam(c) ==
    /\ pc[c] = "map"
    /\ thread_workspace' = [thread_workspace EXCEPT ![call[c].thread] = call[c].ws]
    /\ pc' = [pc EXCEPT ![c] = "write"]
    /\ UNCHANGED <<callbacks, pending, ctx, hidden, workspace_ids, workspace_roots,
                   nextId, call, id, answer, reader, server>>

\* The pipe takes the line as long as the process lives.
Write(c) ==
    /\ pc[c] = "write"
    /\ IF alive
       THEN /\ inbox' = inbox \cup {[id |-> id[c], req |-> call[c]]}
            /\ pc' = [pc EXCEPT ![c] = "wait"]
       ELSE /\ pc' = [pc EXCEPT ![c] = "unpend"]
            /\ UNCHANGED inbox
    /\ UNCHANGED <<tables, nextId, call, id, answer, reader,
                   alive, out, creator, begun, archived>>

\* The call returns and its locals go.
Return(c) ==
    /\ pc' = [pc EXCEPT ![c] = "idle"]
    /\ call' = [call EXCEPT ![c] = None]
    /\ id' = [id EXCEPT ![c] = 0]
    /\ answer' = [answer EXCEPT ![c] = None]
    /\ UNCHANGED nextId

\* The reader dropped the sender: "request canceled".
Canceled(c) ==
    /\ pc[c] = "wait" /\ answer[c] = None
    /\ ~ \E i \in DOMAIN pending : pending[i] = c
    /\ Return(c)
    /\ UNCHANGED <<tables, reader, server>>

Answered(c) ==
    /\ pc[c] = "wait" /\ answer[c] # None
    /\ Return(c)
    /\ UNCHANGED <<tables, reader, server>>

\* REQUEST_TIMEOUT: an answer already given wins.
Timeout(c) ==
    /\ pc[c] = "wait" /\ answer[c] = None
    /\ \E i \in DOMAIN pending : pending[i] = c
    /\ pc' = [pc EXCEPT ![c] = "unpend"]
    /\ UNCHANGED <<tables, nextId, call, id, answer, reader, server>>

\* An answer that comes now is dropped with the receiver.
Unpend(c) ==
    /\ pc[c] = "unpend"
    /\ pending' = Drop(pending, {id[c]})
    /\ pc' = [pc EXCEPT ![c] = "uncontext"]
    /\ UNCHANGED <<callbacks, ctx, thread_workspace, hidden, workspace_ids, workspace_roots,
                   nextId, call, id, answer, reader, server>>

\* Mutant: a timed-out request leaves its context behind.
ContextKept(c) == ctx

ContextLeft(c) == Drop(ctx, {id[c]})

Uncontext(c) ==
    /\ pc[c] = "uncontext"
    /\ ctx' = ContextLeft(c)
    /\ Return(c)
    /\ UNCHANGED <<callbacks, pending, thread_workspace, hidden, workspace_ids, workspace_roots,
                   reader, server>>

Step(c) == \/ Register(c) \/ Pend(c) \/ Context(c) \/ MapParam(c) \/ Write(c)
           \/ Canceled(c) \/ Answered(c) \/ Unpend(c) \/ Uncontext(c)

----------------------------------------------------------------------------
(* The reader task                                                          *)

\* The line has been handled.
Handled == at' = "read" /\ line' = NoLine /\ from' = None /\ routed' = None

\* The next line; for an answer, also what is known of its request.
Read ==
    /\ at = "read" /\ out # <<>>
    /\ line' = Head(out) /\ out' = Tail(out)
    /\ shown' = None
    /\ IF line'.kind = "reply"
       THEN /\ from' = IF line'.id \in DOMAIN ctx THEN ctx[line'.id] ELSE None
            /\ ctx' = Drop(ctx, {line'.id})
            /\ at' = IF from' = None THEN "answer" ELSE "assign"
       ELSE /\ from' = None
            /\ at' = "route"
            /\ UNCHANGED ctx
    /\ UNCHANGED <<callbacks, pending, thread_workspace, hidden, workspace_ids, workspace_roots,
                   callers, routed, alive, inbox, creator, begun, archived>>

\* resolve_workspace_for_cwd: of the known roots that contain the thread's
\* directory, the longest.
Enclosing(t) == IF creator[t] = None THEN {} ELSE Under[creator[t]] \cap workspace_roots
\* Mutant: any enclosing root is taken, not the longest.
AnyEnclosing(t) == Enclosing(t)

Deepest(t) == {v \in Enclosing(t) : \A u \in Enclosing(t) : Root[u] <= Root[v]}

\* The threads of an answer belong to the workspace that asked.
AssignRelated ==
    /\ at = "assign" /\ from.method # "thread/list"
    /\ thread_workspace' = [t \in Thread |-> IF t \in line.related THEN from.ws
                                             ELSE thread_workspace[t]]
    /\ at' = "answer"
    /\ UNCHANGED <<callbacks, pending, ctx, hidden, workspace_ids, workspace_roots,
                   callers, line, from, routed, shown, server>>

\* A list holds the threads of every workspace; each is given to the one its
\* directory lies in, and memory consolidation is hidden.
AssignListed ==
    /\ at = "assign" /\ from.method = "thread/list"
    /\ \E home \in [line.listed \ Memory -> Workspace] :
         /\ \A t \in line.listed \ Memory : Deepest(t) # {} => home[t] \in Deepest(t)
         /\ thread_workspace' =
              [t \in Thread |->
                 CASE t \in line.listed \cap Memory -> None
                   [] t \in line.listed \ Memory /\ Deepest(t) # {} -> home[t]
                   [] OTHER -> thread_workspace[t]]
    /\ hidden' = hidden \cup (line.listed \cap Memory)
    /\ at' = "answer"
    /\ UNCHANGED <<callbacks, pending, ctx, workspace_ids, workspace_roots,
                   callers, line, from, routed, shown, server>>

\* The answer goes to whoever still waits under its id.
Answer ==
    /\ at = "answer"
    /\ answer' = [c \in Caller |->
                    IF line.id \in DOMAIN pending /\ pending[line.id] = c /\ pc[c] = "wait"
                    THEN line.req ELSE answer[c]]
    /\ pending' = Drop(pending, {line.id})
    /\ Handled
    /\ UNCHANGED <<callbacks, ctx, thread_workspace, hidden, workspace_ids, workspace_roots,
                   nextId, pc, call, id, shown, server>>

\* Mutant: a thread that is in no table has no fallback.
NoFallback(t) == IF t # None THEN thread_workspace[t] ELSE Owner

\* Where the events of a thread go.
RouteOf(t) == IF t # None /\ thread_workspace[t] # None THEN thread_workspace[t] ELSE Owner

Route ==
    /\ at = "route"
    /\ routed' = RouteOf(line.thread)
    /\ at' = "deliver"
    /\ UNCHANGED <<tables, callers, line, from, shown, server>>

Emission(kind, to) == [kind |-> kind, thread |-> line.thread, to |-> to]
StartsMemory == line.kind = "thread/started" /\ line.thread \in Memory
Suppressed == line.thread \in hidden /\ line.kind # "thread/archived"

\* Mutant: the start of a memory consolidation is announced but not remembered.
NotHidden == hidden

HiddenAtStart == hidden \cup {line.thread}

\* The start of a memory consolidation is replaced by the order to hide it.
Announce ==
    /\ at = "deliver" /\ StartsMemory
    /\ hidden' = HiddenAtStart
    /\ shown' = Emission("codex/backgroundThread", {routed})
    /\ Handled
    /\ UNCHANGED <<callbacks, pending, ctx, thread_workspace, workspace_ids, workspace_roots,
                   callers, server>>

Suppress ==
    /\ at = "deliver" /\ ~StartsMemory /\ Suppressed
    /\ Handled
    /\ UNCHANGED <<tables, callers, shown, server>>

\* The table after an event: threads an item mentions go where the item goes
\* unless they are known already; an archived thread is forgotten.  What a
\* background prompt takes is not shown, and what the account does is told to
\* every registered workspace.
Mentioned(t) == IF t \in line.related /\ thread_workspace[t] = None
                THEN routed ELSE thread_workspace[t]
Forgotten(t) == line.kind = "thread/archived" /\ t = line.thread

Emit ==
    /\ at = "deliver" /\ ~StartsMemory /\ ~Suppressed
    /\ thread_workspace' =
         [t \in Thread |-> IF Forgotten(t) THEN None ELSE Mentioned(t)]
    /\ hidden' = {t \in hidden : ~Forgotten(t)}
    /\ shown' = CASE line.thread \in callbacks -> None
                  [] line.thread = None /\ workspace_ids # {} -> Emission(line.kind, workspace_ids)
                  [] OTHER -> Emission(line.kind, {routed})
    /\ Handled
    /\ UNCHANGED <<callbacks, pending, ctx, workspace_ids, workspace_roots,
                   callers, server>>

\* Mutant: pending is left as it is at the end of output.
PendingLeft == pending

\* End of output: no request may wait for an answer that cannot come.
PendingAtEnd == <<>>

ClearPending ==
    /\ at = "read" /\ ~alive /\ out = <<>>
    /\ pending' = PendingAtEnd
    /\ at' = "clearContext"
    /\ UNCHANGED <<callbacks, ctx, thread_workspace, hidden, workspace_ids, workspace_roots,
                   callers, line, from, routed, shown, server>>

ClearContext ==
    /\ at = "clearContext"
    /\ ctx' = <<>>
    /\ at' = "done"
    /\ UNCHANGED <<callbacks, pending, thread_workspace, hidden, workspace_ids, workspace_roots,
                   callers, line, from, routed, shown, server>>

Reader == \/ Read \/ AssignRelated \/ AssignListed \/ Answer \/ Route
          \/ Announce \/ Suppress \/ Emit \/ ClearPending \/ ClearContext

----------------------------------------------------------------------------
(* The process                                                              *)

Writes(l) == /\ alive /\ Len(out) < MaxOut
             /\ out' = Append(out, l)
             /\ UNCHANGED <<tables, callers, reader, alive>>

Known == {t \in Thread : creator[t] # None \/ (t \in Memory /\ t \in begun)} \ archived

StartThread(r, t) ==
    /\ r.req.method = "thread/start"
    /\ t \notin Memory /\ creator[t] = None
    /\ creator' = [creator EXCEPT ![t] = r.req.ws]
    /\ Writes(Reply(r.id, r.req, {t}, {}))
    /\ UNCHANGED <<begun, archived>>

ListThreads(r) ==
    /\ r.req.method = "thread/list"
    /\ Writes(Reply(r.id, r.req, {}, Known))
    /\ UNCHANGED <<creator, begun, archived>>

UseThread(r) ==
    /\ r.req.method \in Names \ {"thread/archive"} /\ r.req.thread \notin archived
    /\ begun' = begun \cup {r.req.thread}
    /\ Writes(Reply(r.id, r.req, IF r.req.method = "thread/resume" THEN {r.req.thread} ELSE {}, {}))
    /\ UNCHANGED <<creator, archived>>

Refuse(r) ==
    /\ Writes(Reply(r.id, r.req, {}, {}))
    /\ UNCHANGED <<creator, begun, archived>>

Serve == \E r \in inbox :
    /\ inbox' = inbox \ {r}
    /\ \/ \E t \in Thread : StartThread(r, t)
       \/ ListThreads(r)
       \/ UseThread(r)
       \/ Refuse(r)

\* An item of a thread's turn starts a sub-agent's thread.
Spawn(t, u) ==
    /\ t \in begun \ (archived \cup Memory)
    /\ u \notin Memory /\ creator[u] = None
    /\ creator' = [creator EXCEPT ![u] = creator[t]]
    /\ begun' = begun \cup {u}
    /\ Writes(Event("item/started", t, {t, u}))
    /\ UNCHANGED <<inbox, archived>>

Consolidate(t) ==
    /\ t \in Memory \ begun
    /\ begun' = begun \cup {t}
    /\ Writes(Event("thread/started", t, {}))
    /\ UNCHANGED <<inbox, creator, archived>>

\* An event of a turn, of a thread without one, or (None) of the account; a
\* request of the process, such as an approval, takes the same way.
Tell(t) ==
    /\ t \in Known \cup {None}
    /\ Writes(Event(IF t \in begun THEN "turn/completed" ELSE "thread/updated", t, {}))
    /\ UNCHANGED <<inbox, creator, begun, archived>>

Archive(t) ==
    /\ t \in Known
    /\ archived' = archived \cup {t}
    /\ Writes(Event("thread/archived", t, {}))
    /\ UNCHANGED <<inbox, creator, begun>>

Exit ==
    /\ alive
    /\ alive' = FALSE
    /\ UNCHANGED <<tables, callers, reader, inbox, out, creator, begun, archived>>

Server == \/ Serve \/ Exit
          \/ \E t, u \in Thread : Spawn(t, u)
          \/ \E t \in Thread \cup {None} : Consolidate(t) \/ Tell(t) \/ Archive(t)

Next == \/ \E w \in Workspace : Attach(w) \/ Unregister(w)
        \/ \E t \in Thread : AddCallback(t) \/ RemoveCallback(t)
        \/ \E c \in Caller : Step(c) \/ Timeout(c) \/ \E r \in Call : Obtain(c, r)
        \/ Reader \/ Server

\* The runtime polls every task it has woken; nothing makes a timer expire.
Fairness == WF_vars(Reader) /\ \A c \in Caller : WF_vars(Step(c))

Safety == Init /\ [][Next]_vars
Spec == Safety /\ Fairness

----------------------------------------------------------------------------
(* Properties                                                               *)

Answers == [kind : {"reply"}, id : 1..MaxId, req : Call,
            related : SUBSET Thread, listed : SUBSET Thread]
Events == [kind : {"thread/started", "item/started", "turn/completed", "thread/updated",
                   "thread/archived"},
           thread : Thread \cup {None}, related : SUBSET Thread]
Contexts == [ws : Workspace, method : Plain \cup Names]

TablesTypeOK ==
    /\ DOMAIN pending \subseteq 1..MaxId /\ \A i \in DOMAIN pending : pending[i] \in Caller
    /\ DOMAIN ctx \subseteq 1..MaxId /\ \A i \in DOMAIN ctx : ctx[i] \in Contexts
    /\ thread_workspace \in [Thread -> Workspace \cup {None}]
    /\ hidden \subseteq Thread /\ callbacks \subseteq Thread
    /\ workspace_ids \subseteq Workspace /\ workspace_roots \subseteq Workspace
CallersTypeOK ==
    /\ nextId \in 1..(MaxId + 1)
    /\ pc \in [Caller -> {"idle", "register", "pend", "context", "map", "write",
                          "wait", "unpend", "uncontext"}]
    /\ call \in [Caller -> Call \cup {None}]
    /\ id \in [Caller -> 0..MaxId]
    /\ answer \in [Caller -> Call \cup {None}]
ReaderTypeOK ==
    /\ at \in {"read", "assign", "answer", "route", "deliver", "clearContext", "done"}
    /\ line \in Answers \cup Events \cup {NoLine}
    /\ from \in Contexts \cup {None}
    /\ routed \in Workspace \cup {None}
    /\ \/ shown = None
       \/ shown.thread \in Thread \cup {None} /\ shown.to \subseteq Workspace
ServerTypeOK ==
    /\ alive \in BOOLEAN
    /\ inbox \subseteq [id : 1..MaxId, req : Call]
    /\ out \in Seq(Answers \cup Events) /\ Len(out) <= MaxOut
    /\ creator \in [Thread -> Workspace \cup {None}]
    /\ begun \subseteq Thread /\ archived \subseteq Thread

\* Every variable stays within its type: ids, table entries, the line under way.
TypeOK == TablesTypeOK /\ CallersTypeOK /\ ReaderTypeOK /\ ServerTypeOK

\* An answer reaches the caller whose request it answers, although answers come
\* in any order, requests time out and their callers send others
\* (send_request_for_workspace, pending).
OwnAnswer == \A c \in Caller : answer[c] # None => answer[c] = call[c]

\* The tables of open requests hold no entry of a request that has returned:
\* an answer, a timeout, a failed write and the end of output all clean up both.
\* (The end of output empties them one after the other.)
NoForgottenRequest ==
    /\ \A i \in DOMAIN pending : pc[pending[i]] # "idle" /\ id[pending[i]] = i
    /\ at # "clearContext" =>
         \A i \in DOMAIN ctx : \E c \in Caller : id[c] = i /\ pc[c] # "idle"

\* Nothing a memory consolidation thread does reaches the front end but the
\* order to hide it and its archiving, in whichever workspace and however thread
\* lists and its own events come to the reader after its start (hidden_thread_ids).
MemoryStaysHidden ==
    shown # None /\ shown.thread \in Memory
      => shown.kind \in {"codex/backgroundThread", "thread/archived"}

\* The routing table never gives a thread to another workspace than the one it
\* was created for, as long as that one is attached: neither an answer, nor a
\* list another workspace asked for, nor a nested root makes it stray
\* (thread_workspace, resolve_workspace_for_cwd).
RoutesToCreator ==
    \A t \in Thread : thread_workspace[t] # None /\ creator[t] \in workspace_roots
                        => thread_workspace[t] = creator[t]

\* The events of a turn, sub-agents' threads included, reach the workspace the
\* thread belongs to and not the fallback owner: the request that started the
\* turn has entered the thread before it was written.
TurnEventsReachTheirWorkspace ==
    shown # None /\ shown.kind \in {"item/started", "turn/completed"} =>
      (shown.thread \notin Memory /\ creator[shown.thread] \in workspace_roots
         => shown.to = {creator[shown.thread]})

\* An event goes to the workspace its thread belongs to.
EventsGoHome == RoutesToCreator /\ TurnEventsReachTheirWorkspace

\* Once the process has exited every request returns, without its 300 s timeout:
\* the reader clears pending at the end of output, and a request that is added
\* after that fails to write.
ExitSettlesRequests ==
    \A c \in Caller : (~alive /\ pc[c] # "idle") ~> (pc[c] = "idle")

==============================================================================
