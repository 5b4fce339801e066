----------------------------- MODULE ThreadList -----------------------------
(***************************************************************************)
(* The rows of a workspace's threads: how they are listed page by page     *)
(* (useThreadActions.ts), started, forked, read, removed and archived, how *)
(* a thread learns its parent (useThreadLinking.ts), and how the archive   *)
(* of a thread reaches the agents it spawned (useThreads.ts).              *)
(*                                                                         *)
(* A thread is its rank by creation: rows are listed from the newest, and  *)
(* a cursor is the rank of the last thread of a page.  An answer is        *)
(* handled with the state of the server it was read from, so it may        *)
(* overtake notifications written before it, which are handled in order.   *)
(***************************************************************************)
EXTENDS ThreadStore, SequencesExt, FiniteSetsExt

CONSTANTS
  Workspace,    \* the workspace listed
  Foreign,      \* threads of other folders, which a page also holds
  Memory,       \* background threads, which have no row
  Spawner,      \* the thread an agent was spawned by, or None
  ReviewOf,     \* the thread a detached review reviews, or None
  PageSize,     \* THREAD_LIST_PAGE_SIZE
  Target,       \* THREAD_LIST_TARGET_COUNT
  MaxPages,     \* THREAD_LIST_MAX_PAGES_DEFAULT and _OLDER
  PageStart,    \* THREAD_LIST_CURSOR_PAGE_START
  Plans         \* what may happen in a run, see below

ASSUME ListAssumption ==
  /\ IsFiniteSet(Threads) /\ Threads = 1..Cardinality(Threads)
  /\ Workspace \in Workspaces
  /\ Foreign \cup Memory \subseteq Threads
  /\ {Spawner, ReviewOf} \subseteq [Threads -> (Threads \ (Foreign \cup Memory)) \cup {None}]
  /\ \A t \in Threads : Spawner[t] # None => Spawner[t] < t /\ ReviewOf[t] = None
  /\ \A t \in Threads : ReviewOf[t] # None => ReviewOf[t] < t
  /\ \A t \in Foreign \cup Memory : Spawner[t] = None /\ ReviewOf[t] = None
  /\ {PageSize, Target, MaxPages} \subseteq Nat \ {0}
  /\ PageStart \notin Threads \cup {None}

(***************************************************************************)
(* A plan: the threads there are and those that may come; how often the    *)
(* app lists, the user opens or removes a thread, an agent reports, other  *)
(* clients archive and a request fails; and whether the last list that was *)
(* begun has shown the workspace (listed).                                 *)
(***************************************************************************)
Plan ==
  [alive : SUBSET Threads, unborn : SUBSET Threads, listed : BOOLEAN, lists : Nat,
   opens : Nat, removals : Nat, reports : Nat, archives : Nat, faults : Nat]

ASSUME PlansAssumption ==
  Plans \subseteq {p \in Plan : ~p.listed /\ p.unborn \cap (p.alive \cup Foreign) = {}}

VARIABLES
  store,      \* the reducer's state
  seen,       \* what the last render saw of it
  loaded,     \* loadedThreadsRef
  agents,     \* subagentThreadByWorkspaceThreadRef
  skips,      \* cascadeArchiveSkipRef
  links,      \* detachedReviewLinksByWorkspaceRef: pairs <<child, parent>>
  calls,      \* operations that wait for an answer
  server,     \* threads alive and to come, what it wrote, archives asked of it
  plan,       \* what may still happen
  past        \* history: threads that came or went while a list was in flight
              \* (late), living ones whose row an older page's stale rows or a
              \* refused archive took until the next list (lost), archives the
              \* cascade asked for (asked) and owes (due),
              \* agents that acted before anything told of their parent, or whose
              \* parent went with a row the server did not archive (orphans),
              \* threads an agent of theirs reported to (told), and whether one
              \* did before its own link was on screen (crossed)

app == <<loaded, agents, skips, links>>
vars == <<store, seen, app, calls, server, plan, past>>

Own(t) == t \notin Foreign
Shown(t) == Own(t) /\ t \notin Memory
Row(t) == [id |-> t, name |-> "new", at |-> 0]
Rows(ids) == [i \in DOMAIN ids |-> Row(ids[i])]
ByAge == [i \in 1..Cardinality(Threads) |-> Cardinality(Threads) + 1 - i]
Newest(threads) == Those(ByAge, threads)
FirstOf(n, seq) == SubSeq(seq, 1, IF n < Len(seq) THEN n ELSE Len(seq))
Spend(what) == plan[what] > 0 /\ plan' = [plan EXCEPT ![what] = @ - 1]
Idle(op) == \A c \in calls : c.op # op

(***************************************************************************)
(* useThreadLinking.ts.  A thread that has a parent keeps it; a link that  *)
(* would close a circle is refused.  Both are read off the last render.    *)
(***************************************************************************)
CreatesCycle(p, child) == child = p \/ child \in Ancestors(seen, p)

\* Mutant: the circle is not looked for.
MayHangAnywhere(p, t) == t # p /\ seen.parent[t] = None
MayHang(p, t) == t # p /\ seen.parent[t] = None /\ ~CreatesCycle(p, t)

UpdateThreadParent(s, p, children) ==
  [s EXCEPT !.parent = [t \in Threads |-> IF t \in children /\ MayHang(p, t) THEN p ELSE @[t]]]

\* The parent named by a thread's source (getParentThreadIdFromThread).
LinkedAll(s, threads) ==
  [s EXCEPT !.parent = [t \in Threads |->
     IF t \in threads /\ Spawner[t] # None /\ MayHang(Spawner[t], t) THEN Spawner[t] ELSE @[t]]]
Linked(s, t) == LinkedAll(s, {t})
Spawned(threads) == {t \in threads : Spawner[t] # None}

\* Rendered: then the effect of useThreads hangs the detached reviews that were
\* saved under their threads.
Render ==
  /\ seen # store
  /\ seen' = store
  /\ store' = [store EXCEPT !.parent = [t \in Threads |->
       IF /\ <<t, ReviewOf[t]>> \in links
          /\ {t, ReviewOf[t]} \subseteq ListIds(store, Workspace)
          /\ @[t] = None
          /\ t \notin Ancestors(store, ReviewOf[t])
         THEN ReviewOf[t] ELSE @[t]]]
  /\ UNCHANGED <<app, calls, server, plan, past>>

(***************************************************************************)
(* A page of thread/list.                                                  *)
(***************************************************************************)
Page(cursor) ==
  LET older == Newest({t \in server.alive : cursor = None \/ t < cursor})
  IN [threads |-> FirstOf(PageSize, older),
      next |-> IF Len(older) > PageSize THEN older[PageSize] ELSE None]
\* hideThread for each background thread of the page.
HideMemory(s, page) ==
  LET hides == {t \in ToSet(page.threads) : Own(t) /\ t \in Memory} \ s.hidden[Workspace]
      rest == Of(s.list[Workspace], ListIds(s, Workspace) \ hides)
  IN [s EXCEPT !.hidden[Workspace] = @ \cup hides,
               !.list[Workspace] = rest,
               !.active[Workspace] = IF @ \in hides THEN FirstOr(rest) ELSE @]
Matching(c, page) == c.got \o Those(page.threads, {t \in Threads : Shown(t)})

\* What the closure of a list captures of the render it belongs to.
Captured ==
  [active |-> seen.active[Workspace], rows |-> seen.list[Workspace],
   running |-> {t \in Threads : seen.status[t].processing}, parent |-> seen.parent]

\* listThreadsForWorkspaces: what it decides with is what the last render saw.
ListThreads(preserve) ==
  /\ Idle("list")
  /\ plan.lists > 0
  /\ plan' = [plan EXCEPT !.lists = @ - 1,
       !.listed = @ /\ preserve /\ (past.late \cup past.lost) \cap server.alive = {}]
  /\ past' = IF calls = {} /\ server.wire = <<>>
               THEN [past EXCEPT !.late = @ \ server.alive, !.lost = {}] ELSE past
  /\ store' = IF preserve THEN store
              ELSE SetListCursor(SetListLoading(store, Workspace, TRUE), Workspace, None)
  /\ calls' = calls \cup
       {[op |-> "list", thread |-> None, preserve |-> preserve, cursor |-> None, pages |-> 0,
         got |-> <<>>, resume |-> None, saw |-> Captured]}
  /\ UNCHANGED <<seen, app, server>>

\* The first Target threads, and further down those the user is in, that run,
\* or that are above one of these.
Summaries(c, got) ==
  LET first == FirstOf(Target, got)
      anchors == {t \in ToSet(got) : t = c.saw.active \/ t \in c.saw.running}
      kept == ToSet(first) \cup anchors
      above == UNION {AncestorsIn(c.saw.parent, t) : t \in kept}
  IN Rows(first \o Those(got, (anchors \cup above) \ ToSet(first)))

Listed(c, s, got, cursor) ==
  LET rows == AnchorThreads(LinkedAll(s, ToSet(got)), Workspace, Summaries(c, got))
  IN SetListCursor(IF c.preserve THEN rows ELSE SetListLoading(rows, Workspace, FALSE),
                   Workspace, cursor)

\* Mutant: the page the target was reached on is not read again.
ListPageSkips(c) ==
  LET page == Page(c.cursor)
      got == Matching(c, page)
  IN /\ c.op = "list"
     /\ calls' = calls \ {c}
     /\ store' = Listed(c, HideMemory(store, page), got, page.next)
     /\ agents' = agents \cup Spawned(ToSet(got))
     /\ plan' = [plan EXCEPT !.listed = Idle("older")]
     /\ UNCHANGED <<seen, loaded, skips, links, server, past>>

ListPage(c) ==
  LET page == Page(c.cursor)
      got == Matching(c, page)
      full == Len(got) > Target /\ c.resume = None
      resume == IF full THEN IF c.cursor = None THEN PageStart ELSE c.cursor ELSE c.resume
      hid == HideMemory(store, page)
  IN /\ c.op = "list"
     /\ IF page.next # None /\ c.pages + 1 < MaxPages
          THEN /\ calls' = (calls \ {c}) \cup
                    {[c EXCEPT !.cursor = page.next, !.pages = @ + 1, !.got = got, !.resume = resume]}
               /\ store' = hid
               /\ UNCHANGED <<agents, plan>>
          ELSE /\ calls' = calls \ {c}
               /\ store' = Listed(c, hid, got, IF resume # None THEN resume ELSE page.next)
               /\ agents' = agents \cup Spawned(ToSet(got))
               /\ plan' = [plan EXCEPT !.listed = Idle("older")]
     /\ UNCHANGED <<seen, loaded, skips, links, server, past>>

\* loadOlderThreadsForWorkspace: the rows it will put back are the last render's,
\* and those that have come meanwhile are lost.
LoadOlder ==
  /\ seen.cursor[Workspace] # None
  /\ Idle("older")
  /\ Spend("lists")
  /\ store' = SetListPaging(store, Workspace, TRUE)
  /\ calls' = calls \cup
       {[op |-> "older", thread |-> None, preserve |-> FALSE,
         cursor |-> IF seen.cursor[Workspace] = PageStart THEN None ELSE seen.cursor[Workspace],
         pages |-> 0, got |-> <<>>, resume |-> None, saw |-> Captured]}
  /\ UNCHANGED <<seen, app, server, past>>

Additions(c, got) == Those(got, ToSet(got) \ IdsOf(c.saw.rows))

Older(c, s, got, cursor) ==
  LET new == Additions(c, got)
      rows == IF new = <<>> THEN s
              ELSE ReplaceThreads(LinkedAll(s, ToSet(new)), Workspace,
                                  c.saw.rows \o Rows(new))
  IN SetListPaging(SetListCursor(rows, Workspace, cursor), Workspace, FALSE)

OlderPage(c) ==
  LET page == Page(c.cursor)
      got == Matching(c, page)
      hid == HideMemory(store, page)
  IN /\ c.op = "older"
     /\ IF page.next # None /\ c.pages + 1 < MaxPages /\ Len(got) < Target
          THEN /\ calls' = (calls \ {c}) \cup
                    {[c EXCEPT !.cursor = page.next, !.pages = @ + 1, !.got = got]}
               /\ store' = hid
               /\ UNCHANGED past
          ELSE /\ calls' = calls \ {c}
               /\ store' = Older(c, hid, got, page.next)
               /\ past' = [past EXCEPT !.lost =
                    @ \cup (ListIds(hid, Workspace) \ ListIds(store', Workspace))]
     /\ UNCHANGED <<seen, app, server, plan>>

ListFails(c) ==
  /\ c.op \in {"list", "older"}
  /\ Spend("faults")
  /\ calls' = calls \ {c}
  /\ store' = IF c.op = "older" THEN SetListPaging(store, Workspace, FALSE)
              ELSE IF c.preserve THEN store ELSE SetListLoading(store, Workspace, FALSE)
  /\ UNCHANGED <<seen, app, server, past>>

(***************************************************************************)
(* Starting, forking, opening and reading a thread.                        *)
(***************************************************************************)
Ask(op, t) ==
  [op |-> op, thread |-> t, preserve |-> FALSE, cursor |-> None, pages |-> 0, got |-> <<>>,
   resume |-> None, saw |-> <<>>]

\* A thread the user starts is nobody's agent.
Born(t) ==
  /\ t \in server.unborn
  /\ \A u \in server.unborn : t <= u
Note(type, t) == [type |-> type, thread |-> t, others |-> {}]

\* What comes or goes while a list is in flight may be in it or not.
Listing == ~(Idle("list") /\ Idle("older"))
Missed(t) == past' = IF Listing THEN [past EXCEPT !.late = @ \cup {t}] ELSE past

StartThread ==
  /\ Spend("opens")
  /\ calls' = calls \cup {Ask("start", None)}
  /\ UNCHANGED <<store, seen, app, server, past>>

ForkThread(t) ==
  /\ t \in ListIds(seen, Workspace)
  /\ Spend("opens")
  /\ calls' = calls \cup {Ask("fork", t)}
  /\ UNCHANGED <<store, seen, app, server, past>>

\* The new thread is listed and opened; a fork is then read.
Started(c, t) ==
  /\ c.op \in {"start", "fork"}
  /\ Born(t) /\ Shown(t) /\ Spawner[t] = None /\ ReviewOf[t] = None
  /\ c.op = "fork" => c.thread \in server.alive
  /\ store' = SetActiveThreadId(EnsureThread(store, Workspace, t), Workspace, t)
  /\ IF c.op = "start"
       THEN loaded' = loaded \cup {t} /\ calls' = calls \ {c}
       ELSE loaded' = loaded \ {t} /\ calls' = (calls \ {c}) \cup {Ask("resume", t)}
  /\ server' = [server EXCEPT !.alive = @ \cup {t}, !.unborn = @ \ {t},
                              !.wire = Append(@, Note("thread/started", t))]
  /\ Missed(t)
  /\ UNCHANGED <<seen, agents, skips, links, plan>>

NotStarted(c) ==
  /\ \/ c.op \in {"start", "fork", "review"} /\ Spend("faults")
     \/ c.op \in {"resume", "fork"} /\ c.thread \notin server.alive /\ UNCHANGED plan
     \/ /\ c.op \in {"start", "fork", "review"}
        /\ server.unborn = {}
        /\ UNCHANGED plan
  /\ calls' = calls \ {c}
  /\ UNCHANGED <<store, seen, app, server, past>>

SelectThread(t) ==
  /\ t \in ListIds(seen, Workspace) /\ t \in ListIds(store, Workspace)
  /\ Spend("opens")
  /\ store' = SetActiveThreadId(store, Workspace, t)
  /\ calls' = IF t \in loaded THEN calls ELSE calls \cup {Ask("resume", t)}
  /\ UNCHANGED <<seen, app, server, past>>

\* resumeThreadForWorkspace: the thread gets its row and its links, its own and
\* those of the agents its items mention.
Resumed(c) ==
  LET t == c.thread
      children == {u \in server.alive : Spawner[u] = t}
      ensured == EnsureThread(store, Workspace, t)
  IN /\ c.op = "resume" /\ t \in server.alive
     /\ store' = Linked(UpdateThreadParent(ensured, t, children), t)
     /\ loaded' = loaded \cup {t}
     /\ agents' = agents \cup children \cup Spawned({t})
     /\ calls' = calls \ {c}
     /\ UNCHANGED <<seen, skips, links, server, plan, past>>

\* resetWorkspaceThreads, when the workspace reconnects.
ResetWorkspaceThreads ==
  /\ Spend("lists")
  /\ loaded' = loaded \ (ListIds(seen, Workspace) \cup {seen.active[Workspace]})
  /\ UNCHANGED <<store, seen, agents, skips, links, calls, server, past>>

\* A detached review of the open thread; its thread hangs under the reviewed one.
StartReview ==
  /\ seen.active[Workspace] # None
  /\ Spend("opens")
  /\ calls' = calls \cup {Ask("review", seen.active[Workspace])}
  /\ UNCHANGED <<store, seen, app, server, past>>

RegisterDetachedReviewChild(c, t) ==
  /\ c.op = "review"
  /\ Born(t) /\ ReviewOf[t] = c.thread
  /\ store' = UpdateThreadParent(store, c.thread, {t})
  /\ links' = links \cup {<<t, c.thread>>}
  /\ calls' = calls \ {c}
  /\ server' = [server EXCEPT !.alive = @ \cup {t}, !.unborn = @ \ {t},
                              !.wire = Append(@, Note("thread/started", t))]
  /\ Missed(t)
  /\ UNCHANGED <<seen, loaded, agents, skips, plan>>

(***************************************************************************)
(* Removal and the cascade.                                                *)
(***************************************************************************)
RemoveThreadRow(t) ==
  /\ t \in ListIds(seen, Workspace)
  /\ Spend("removals")
  /\ store' = RemoveThread(store, Workspace, t)
  /\ calls' = calls \cup {Ask("archive", t)}
  /\ UNCHANGED <<seen, app, server, past>>

\* The row is gone already; a failed request is logged, and the thread lives on.
Archived(s, t) ==
  [s EXCEPT !.alive = @ \ {t}, !.gone = @ \cup {t}, !.wire = Append(@, Note("thread/archived", t))]

ArchiveAnswer(c) ==
  /\ c.op = "archive"
  /\ \/ /\ c.thread \in server.alive
        /\ server' = Archived(server, c.thread)
        /\ Missed(c.thread)
        /\ UNCHANGED plan
     \/ c.thread \notin server.alive /\ UNCHANGED <<server, plan, past>>
     \/ /\ c.thread \in server.alive
        /\ Spend("faults")
        /\ past' = [past EXCEPT !.lost = @ \cup ({c.thread} \ ListIds(store, Workspace)),
                                !.orphans = @ \cup Spawned({c.thread})]
        /\ UNCHANGED server
  /\ calls' = calls \ {c}
  /\ UNCHANGED <<store, seen, app>>

\* getSubagentDescendantThreadIds: through any thread, but agents only.
Below(t) == {u \in Threads \ {t} : t \in Ancestors(seen, u)}
DescendantsOfAnyKind(t) == Below(t)     \* mutant: detached reviews too
Descendants(t) == Below(t) \cap agents

\* An archive the cascade asked for does not cascade again.
OnThreadArchived(note) ==
  LET t == note.thread
      family == Newest(Descendants(t))
  IN /\ note.type = "thread/archived"
     /\ store' = RemoveThread(store, Workspace, t)
     /\ skips' = skips \ {t}
     /\ calls' = IF t \in skips \/ family = <<>> THEN calls
                 ELSE calls \cup {[Ask("cascade", None) EXCEPT !.got = family]}
     /\ past' = [past EXCEPT
          !.due = IF t \in skips THEN @ ELSE @ \cup (Descendants(t) \cap server.alive),
          !.late = IF Listing THEN @ \cup {t} ELSE @]
     /\ UNCHANGED <<seen, loaded, agents, links, plan>>

\* The cascade asks for one archive after the other; a failed one is skipped.
CascadeAsks(c) ==
  /\ c.op = "cascade" /\ c.thread = None
  /\ skips' = skips \cup {Head(c.got)}
  /\ calls' = (calls \ {c}) \cup {[c EXCEPT !.thread = Head(c.got), !.got = Tail(c.got)]}
  /\ UNCHANGED <<store, seen, loaded, agents, links, server, plan, past>>

CascadeAnswer(c) ==
  LET t == c.thread
      on == (calls \ {c}) \cup (IF c.got = <<>> THEN {} ELSE {[c EXCEPT !.thread = None]})
  IN /\ c.op = "cascade" /\ t # None
     /\ \/ /\ t \in server.alive
           /\ server' = Archived(server, t)
           /\ past' = [past EXCEPT !.asked = @ \cup {t},
                                   !.late = IF Listing THEN @ \cup {t} ELSE @]
           /\ UNCHANGED <<skips, plan>>
        \/ /\ t \notin server.alive
           /\ skips' = skips \ {t}
           /\ UNCHANGED <<server, past, plan>>
        \/ /\ Spend("faults")
           /\ skips' = skips \ {t}
           /\ past' = [past EXCEPT !.due = @ \ {t}]
           /\ UNCHANGED server
     /\ calls' = on
     /\ UNCHANGED <<store, seen, loaded, agents, links>>

(***************************************************************************)
(* The app-server (external), other clients, and the notifications.        *)
(***************************************************************************)
Emit(note) == server' = [server EXCEPT !.wire = Append(@, note)]

\* An agent is spawned; what says so may leave out its parent, and the item of
\* the parent that mentions it follows.
ServerSpawns(t, informed) ==
  /\ Born(t) /\ (Spawner[t] # None \/ t \in Memory)
  /\ Spawner[t] # None => Spawner[t] \in server.alive
  /\ server' = [server EXCEPT !.alive = @ \cup {t}, !.unborn = @ \ {t},
       !.wire = @ \o <<[Note("thread/started", t) EXCEPT !.others = IF informed THEN {t} ELSE {}]>>
                  \o (IF t \in Memory THEN <<>>
                      ELSE <<[Note("collab", Spawner[t]) EXCEPT !.others = {t}],
                             Note("turn/started", t)>>)]
  /\ Missed(t)
  /\ UNCHANGED <<store, seen, app, calls, plan>>

\* An agent reports to the thread that spawned it.
ServerReports(t) ==
  /\ t \in server.alive /\ Spawner[t] # None
  /\ Spend("reports")
  /\ Emit([Note("collab", t) EXCEPT !.others = {Spawner[t]}])
  /\ UNCHANGED <<store, seen, app, calls, past>>

ServerArchives(t) ==
  /\ t \in server.alive /\ Own(t)
  /\ Spend("archives")
  /\ server' = Archived(server, t)
  /\ Missed(t)
  /\ UNCHANGED <<store, seen, app, calls>>

ServerUnarchives(t) ==
  /\ t \in server.gone \ server.alive
  /\ Shown(t)
  /\ Spend("archives")
  /\ server' = [server EXCEPT !.alive = @ \cup {t}, !.wire = Append(@, Note("thread/unarchived", t))]
  /\ past' = [past EXCEPT !.due = @ \ {t}, !.late = IF Listing THEN @ \cup {t} ELSE @]
  /\ UNCHANGED <<store, seen, app, calls>>

\* An agent without a known parent waits for richer news.
OnThreadStarted(note) ==
  LET t == note.thread IN
  /\ note.type = "thread/started"
  /\ store' = IF t \in seen.hidden[Workspace] THEN store
              ELSE IF t \in Memory THEN HideThread(store, Workspace, t)
              ELSE IF Spawner[t] # None /\ t \notin note.others THEN store
              ELSE Linked(EnsureThread(store, Workspace, t), t)
  /\ agents' = IF t \in note.others THEN agents \cup Spawned({t}) ELSE agents
  /\ UNCHANGED <<seen, loaded, skips, links, calls, plan, past>>

OnThreadUnarchived(note) ==
  /\ note.type = "thread/unarchived"
  /\ store' = EnsureThread(store, Workspace, note.thread)
  /\ UNCHANGED <<seen, app, calls, plan, past>>

\* applyCollabThreadLinks, as handleItemUpdate calls it after it has seen to it
\* that the sender is listed.
OnCollab(note) ==
  /\ note.type = "collab"
  /\ store' = UpdateThreadParent(EnsureThread(store, Workspace, note.thread),
                                 note.thread, note.others)
  /\ agents' = agents \cup note.others
  /\ LET reported == {u \in note.others : u < note.thread}
         open == {u \in reported : seen.parent[note.thread] = None /\ seen.parent[u] = None}
     IN past' = [past EXCEPT
          !.orphans = IF store.parent[note.thread] = None THEN @ \cup Spawned({note.thread}) ELSE @,
          !.told = @ \cup reported,
          !.crossed = @ \/ open # {}]
  /\ UNCHANGED <<seen, loaded, skips, links, calls, plan>>

OnTurnStarted(note) ==
  /\ note.type = "turn/started"
  /\ store' = EnsureThread(store, Workspace, note.thread)
  /\ UNCHANGED <<seen, app, calls, plan, past>>

Notifications ==
  /\ server.wire # <<>>
  /\ LET note == Head(server.wire)
     IN \/ OnThreadStarted(note) \/ OnThreadArchived(note) \/ OnThreadUnarchived(note)
        \/ OnCollab(note) \/ OnTurnStarted(note)
  /\ server' = [server EXCEPT !.wire = Tail(@)]

(***************************************************************************)
(* The specification.                                                      *)
(***************************************************************************)
Init ==
  /\ store = InitialState
  /\ seen = InitialState
  /\ loaded = {} /\ agents = {} /\ skips = {} /\ links = {}
  /\ calls = {}
  /\ plan \in Plans
  /\ server = [alive |-> plan.alive, unborn |-> plan.unborn, gone |-> {}, wire |-> <<>>]
  /\ past = [late |-> {}, lost |-> {}, asked |-> {}, due |-> {}, orphans |-> {}, told |-> {}, crossed |-> FALSE]

User ==
  \/ \E preserve \in BOOLEAN : ListThreads(preserve)
  \/ LoadOlder \/ StartThread \/ StartReview \/ ResetWorkspaceThreads
  \/ \E t \in Threads : ForkThread(t) \/ SelectThread(t) \/ RemoveThreadRow(t)

Answers ==
  \E c \in calls :
    \/ ListPage(c) \/ OlderPage(c) \/ ListFails(c) \/ NotStarted(c) \/ Resumed(c)
    \/ ArchiveAnswer(c) \/ CascadeAsks(c) \/ CascadeAnswer(c)
    \/ \E t \in Threads : Started(c, t) \/ RegisterDetachedReviewChild(c, t)

ServerActs ==
  \E t \in Threads :
    \/ \E informed \in BOOLEAN : ServerSpawns(t, informed)
    \/ ServerReports(t) \/ ServerArchives(t) \/ ServerUnarchives(t)

\* The user acts on what is on screen.
Next ==
  \/ seen = store /\ User
  \/ Render \/ Answers \/ ServerActs \/ Notifications

Spec == Init /\ [][Next]_vars

(***************************************************************************)
(* Properties.                                                             *)
(***************************************************************************)
Quiet == calls = {} /\ server.wire = <<>> /\ seen = store
ListedNow == ListIds(store, Workspace)

\* The open thread has a row, background threads and other folders' have none,
\* and once all is handled a row is that of a thread that is not archived: no
\* page, resume, cascade or stale row brings one back.  Nothing is claimed of a
\* thread archived while a list or an older page was in flight (late): the code
\* may list it again or put it back from stale rows.
RowsAreRight ==
  /\ store.active[Workspace] # None => store.active[Workspace] \in ListedNow
  /\ ListedNow \cap (Memory \cup Foreign) = {}
  /\ Quiet => ListedNow \subseteq server.alive \cup past.late

\* Whatever the pages were cut at, and whatever is started, opened, removed or
\* archived meanwhile, a thread the server has is in its row or below the cursor
\* that loadOlderThreadsForWorkspace goes on from: the list shows Target rows,
\* but goes on from the page on which it had that many.  The exceptions, each
\* until a list made when all is quiet: a thread that came or went while a list
\* or an older page was in flight (late), a row that an older page's stale rows
\* left out, and one the user removed although the server then refused to archive
\* it (lost).  Nothing is claimed before a list has been shown, after a list
\* that is not preserving has failed, and after one that ended with an older page
\* in flight, whose cursor then takes the place of its own (listed).
EveryThreadIsReachable ==
  LET cursor == store.cursor[Workspace]
      below(t) == cursor = PageStart \/ (cursor # None /\ t < cursor)
  IN Quiet /\ plan.listed =>
       \A t \in server.alive \ (past.late \cup past.lost) :
         Shown(t) => t \in ListedNow \/ below(t)

\* The parents form a tree although each link is checked against the parents of
\* the last render only, and an agent that is listed hangs under the thread that
\* spawned it, in whatever order its own start, its spawner's item, a list, a
\* resume or a report told of it.  The exceptions: a report that comes when the
\* agent's own link is not on screen, for which the code takes the spawner for
\* the agent; an agent of before that acts before it is listed or read; and one
\* whose row the user removed although the server refused to archive it.
FamilyIsATree ==
  ~past.crossed =>
    /\ \A t \in Threads : LET p == store.parent[t]
         IN p # None => t # p /\ t \notin Ancestors(store, p)
    /\ Quiet => \A t \in ListedNow \ (server.gone \cup past.orphans) :
         Spawner[t] \in ListedNow => store.parent[t] = Spawner[t]

\* The archive of a thread reaches every agent known to be below it, through
\* detached reviews, and only agents: never a thread of the user's, and a review
\* only if an agent of its own reported to it, which the code takes for a sign
\* that the review is an agent.  (An archive the cascade itself asked for goes no
\* further: what is spawned below it meanwhile stays.)
CascadeReachesFamily ==
  /\ \A t \in past.asked : Spawner[t] # None \/ t \in past.told
  /\ Quiet => past.due \cap server.alive = {}
=============================================================================
