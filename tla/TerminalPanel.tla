---------------------------- MODULE TerminalPanel ----------------------------
(***************************************************************************)
(* The terminal panel: the tabs of each workspace, the session hook that   *)
(* opens a shell for the tab on screen, the launch scripts that restart a  *)
(* tab's shell and write to it once it is ready, the script that sets up a *)
(* new worktree, and the backend's table of shells.                        *)
(*                                                                         *)
(* Calls are served and answered in any order.  The effects a change of    *)
(* the panel triggers are part of the action that changes it.              *)
(***************************************************************************)
EXTENDS Naturals, Sequences, FiniteSets, SequencesExt

CONSTANTS
  Workspace, First, \* the workspaces, the one selected at the start
  Tree,             \* the worktree that is new
  MaxTabs,          \* bound: tabs with a number as their title
  MaxCalls,         \* bound: calls under way
  MaxRuns,          \* bound: launches
  Budgets           \* bound: what may happen in a behaviour, a set of records

VARIABLES
  ui,     \* the hooks: see Panel0
  shells, \* the backend's table: what it holds for a key
  calls,  \* calls under way
  exits,  \* terminal-exit events not handled yet
  log,    \* history: the launches written, with when they were asked
  left

vars == <<ui, shells, calls, exits, log, left>>

NoKey == [ws |-> "none", tab |-> "none"]
Numbered(n) == <<"tab", n>>
LaunchTab == <<"launch", 0>>
SetupTab == <<"setup", 0>>
NoTab == <<"none", 0>>
Tab == {Numbered(n) : n \in 1..MaxTabs} \cup {LaunchTab, SetupTab}
Key == [ws : Workspace, tab : Tab]
K(w, t) == [ws |-> w, tab |-> t]

Panel0 == [
  ws |-> First,                              \* activeWorkspaceId
  open |-> FALSE,                            \* terminalOpen
  tabs |-> [w \in Workspace |-> <<>>],
  active |-> [w \in Workspace |-> NoTab],
  made |-> 0,                                \* ids are never used again
  opened |-> {},                             \* openedSessionsRef
  ready |-> NoKey,                            \* readyKey
  screen |-> NoKey,                           \* renderedKeyRef
  pending |-> [key |-> NoKey, run |-> 0, visit |-> 0],
  runs |-> 0, visit |-> 1,
  setup |-> "new"]                           \* of the new worktree's script

Spend(what) == left[what] > 0 /\ left' = [left EXCEPT ![what] = @ - 1]
Call(op, k, by, run) == [op |-> op, key |-> k, by |-> by, run |-> run, at |-> "sent"]
Done(i) == SubSeq(calls, 1, i - 1) \o SubSeq(calls, i + 1, Len(calls))

(***************************************************************************)
(* Tabs.                                                                   *)
(***************************************************************************)
Tabs(u, w) == ToSet(u.tabs[w])
Created(u, w) ==
  [u EXCEPT !.made = @ + 1, !.tabs[w] = Append(@, Numbered(u.made + 1)),
            !.active[w] = Numbered(u.made + 1)]
WithTab(u, w, t) ==
  [u EXCEPT !.tabs[w] = IF t \in Tabs(u, w) THEN @ ELSE Append(@, t), !.active[w] = t]
Closed(u, w, t) ==
  LET rest == SelectSeq(u.tabs[w], LAMBDA x : x # t) IN
  [u EXCEPT !.tabs[w] = rest,
            !.active[w] = IF @ # t THEN @ ELSE IF rest = <<>> THEN NoTab ELSE Last(rest)]
OnlyTab(u, w, t) == w = u.ws /\ u.tabs[w] = <<t>>
ActiveKey(u) == IF u.active[u.ws] = NoTab THEN NoKey ELSE K(u.ws, u.active[u.ws])

\* cleanupTerminalSession: forget the session, so that the effect opens it again.
CleanedUp(u, k) ==
  [u EXCEPT !.opened = @ \ {k}, !.ready = IF @ = k THEN NoKey ELSE @]

(***************************************************************************)
(* The effects of a render.                                                *)
(***************************************************************************)
\* Mutant: a launch waits for its workspace to come back.
LeftBehindKeeps(old, u) == u
\* The launch hook's effect on the workspace.
LeftBehind(old, u) ==
  IF u.ws = old.ws THEN u ELSE [u EXCEPT !.pending = Panel0.pending]

\* While the panel is open the workspace has a tab.
Ensured(u) == IF u.open /\ u.active[u.ws] = NoTab THEN Created(u, u.ws) ELSE u

\* A session known to be open is shown at once.
OnScreen(u, k) == [u EXCEPT !.ready = k, !.screen = k]
Opens(old, u, again) ==
  u.open /\ (again \/ ActiveKey(u) # ActiveKey(old) \/ ~old.open)
    /\ ActiveKey(u) # NoKey /\ ActiveKey(u) \notin u.opened
Presented(old, u, again) ==
  CASE ~u.open -> [u EXCEPT !.ready = NoKey, !.screen = NoKey]
    [] u.open /\ ActiveKey(u) = NoKey -> [u EXCEPT !.ready = NoKey]
    [] u.open /\ ActiveKey(u) \in u.opened /\ (again \/ ActiveKey(u) # ActiveKey(old) \/ ~old.open) ->
         OnScreen(u, ActiveKey(u))
    [] OTHER -> u

\* The launch hook's other effect: it runs when the key on screen, the ready
\* key or the workspace changes.
Launches(old, u) ==
  /\ u.pending.key # NoKey /\ u.ready = u.pending.key /\ ActiveKey(u) = u.pending.key
  /\ u.ready # old.ready \/ ActiveKey(u) # ActiveKey(old)

Write(p) == Call("write", p.key, "launch", p.run)
Rendered(u, again, sends) ==
  LET w == Ensured(LeftBehind(ui, u))
      x == Presented(ui, w, again)
      asks == IF Opens(ui, w, again) THEN <<Call("open", ActiveKey(w), "effect", 0)>> ELSE <<>>
      go == Launches(ui, x)
  IN /\ ui' = IF go THEN [x EXCEPT !.pending = Panel0.pending] ELSE x
     /\ calls' = sends \o asks \o (IF go THEN <<Write(x.pending)>> ELSE <<>>)
     /\ log' = IF go THEN Append(log, [run |-> x.pending.run, asked |-> x.pending.visit, at |-> x.visit])
               ELSE log
     /\ Len(calls') <= MaxCalls /\ ui'.made <= MaxTabs

(***************************************************************************)
(* The user.                                                               *)
(***************************************************************************)
Select(w) ==
  /\ w # ui.ws /\ Spend("moves")
  /\ Rendered([ui EXCEPT !.ws = w, !.visit = @ + 1], FALSE, calls)
  /\ UNCHANGED <<shells, exits>>
\* The workspace is another object: the effect on it runs again.
Refreshed ==
  /\ Spend("refreshes") /\ Rendered(ui, TRUE, calls)
  /\ UNCHANGED <<shells, exits>>
Toggle ==
  /\ Spend("panels") /\ Rendered([ui EXCEPT !.open = ~@], FALSE, calls)
  /\ UNCHANGED <<shells, exits>>
NewTab ==
  /\ ui.open /\ Spend("tabs") /\ Rendered(Created(ui, ui.ws), FALSE, calls)
  /\ UNCHANGED <<shells, exits>>
SelectTab(t) ==
  /\ ui.open /\ t \in Tabs(ui, ui.ws) /\ t # ui.active[ui.ws] /\ Spend("tabs")
  /\ Rendered([ui EXCEPT !.active[ui.ws] = t], FALSE, calls)
  /\ UNCHANGED <<shells, exits>>
\* The last tab takes the panel with it.
CloseTab(t) ==
  /\ ui.open /\ t \in Tabs(ui, ui.ws) /\ Spend("tabs")
  /\ LET u == CleanedUp(Closed(ui, ui.ws, t), K(ui.ws, t)) IN
     Rendered(IF OnlyTab(ui, ui.ws, t) THEN [u EXCEPT !.open = FALSE] ELSE u, TRUE,
              Append(calls, Call("close", K(ui.ws, t), "tab", 0)))
  /\ UNCHANGED <<shells, exits>>

\* A launch script: its tab is shown and its shell restarted; the script is
\* written when the tab is ready.
Run ==
  /\ ui.runs < MaxRuns /\ Spend("launches")
  /\ LET k == K(ui.ws, LaunchTab)
         u == CleanedUp(WithTab([ui EXCEPT !.open = TRUE], ui.ws, LaunchTab), k) IN
     Rendered([u EXCEPT !.runs = @ + 1, !.pending = [key |-> k, run |-> ui.runs + 1, visit |-> ui.visit]],
              TRUE, Append(calls, Call("close", k, "launch", ui.runs + 1)))
  /\ UNCHANGED <<shells, exits>>

(***************************************************************************)
(* The script of a new worktree: whether to run it is asked, then its tab  *)
(* is shown, its shell closed, opened and written to, and the script       *)
(* marked as run, each when the call before is answered.                   *)
(***************************************************************************)
Setup ==
  /\ ui.setup = "new" /\ Spend("setups")
  /\ ui' = [ui EXCEPT !.setup = "running"]
  /\ calls' = Append(calls, Call("status", K(Tree, SetupTab), "setup", 0))
  /\ Len(calls') <= MaxCalls
  /\ UNCHANGED <<shells, exits, log>>
SetupNext(c) ==
  CASE c.op = "status" -> "close" [] c.op = "close" -> "open"
    [] c.op = "open" -> "write" [] c.op = "write" -> "mark" [] OTHER -> "none"
SetupAnswered(i) ==
  LET c == calls[i]
      k == c.key
      next == SetupNext(c)
  IN
  /\ c.by = "setup"
  /\ IF next = "none" \/ (c.at = "failed" /\ c.op # "close")
       THEN ui' = [ui EXCEPT !.setup = "ended"] /\ calls' = Done(i) /\ log' = log
     ELSE LET sends == Append(Done(i), Call(next, k, "setup", 0)) IN
       IF next = "close"
         THEN Rendered(CleanedUp(WithTab([ui EXCEPT !.open = TRUE], Tree, SetupTab), k), TRUE, sends)
         ELSE ui' = ui /\ calls' = sends /\ log' = log

(***************************************************************************)
(* The backend.                                                            *)
(***************************************************************************)
Fails(i) == Spend("fails") /\ calls' = [calls EXCEPT ![i].at = "failed"]
Served(i) == calls' = [calls EXCEPT ![i].at = "done"] /\ left' = left

\* A session in the table is returned as it is, even one whose shell ended.
ServeOpen(i) ==
  /\ calls[i].op = "open" /\ calls[i].at = "sent"
  /\ \/ /\ Served(i)
        /\ shells' = [shells EXCEPT ![calls[i].key] = IF @ = "none" THEN "live" ELSE @]
     \/ shells[calls[i].key] = "none" /\ Fails(i) /\ shells' = shells
  /\ UNCHANGED <<ui, exits, log>>
\* The reader of a killed shell tells the client, by its key.
Ended(k) == exits' = IF shells[k] = "live" THEN exits \cup {k} ELSE exits
ServeClose(i) ==
  /\ calls[i].op = "close" /\ calls[i].at = "sent"
  /\ Served(i)   \* "Terminal session not found" is ignored
  /\ Ended(calls[i].key)
  /\ shells' = [shells EXCEPT ![calls[i].key] = "none"]
  /\ UNCHANGED <<ui, log>>
ServeWrite(i) ==
  /\ calls[i].op = "write" /\ calls[i].at = "sent"
  /\ calls' = [calls EXCEPT ![i].at = IF shells[calls[i].key] = "live" THEN "done" ELSE "failed"]
  /\ shells' = [shells EXCEPT ![calls[i].key] = IF @ = "dead" THEN "none" ELSE @]
  /\ UNCHANGED <<ui, exits, log, left>>
ServeOther(i) ==
  /\ calls[i].op \in {"status", "mark"} /\ calls[i].at = "sent"
  /\ Served(i) \/ Fails(i)
  /\ UNCHANGED <<ui, shells, exits, log>>
\* A shell ends by itself: the event is sent before the table forgets it.
ShellEnds(k) ==
  /\ shells[k] = "live" /\ Spend("ends")
  /\ shells' = [shells EXCEPT ![k] = "dead"] /\ exits' = exits \cup {k}
  /\ UNCHANGED <<ui, calls, log>>
Forgotten(k) ==
  /\ shells[k] = "dead" /\ shells' = [shells EXCEPT ![k] = "none"]
  /\ UNCHANGED <<ui, calls, exits, log, left>>

(***************************************************************************)
(* Answers and events.                                                     *)
(***************************************************************************)
\* The session hook: whatever is on screen by now, the answered key is ready
\* and its text is shown.
Answered(i) ==
  LET c == calls[i] IN
  /\ c.op = "open" /\ c.by = "effect"
  /\ IF c.at = "done"
       THEN LET u == [ui EXCEPT !.opened = @ \cup {c.key}] IN Rendered(OnScreen(u, c.key), FALSE, Done(i))
       ELSE ui' = ui /\ calls' = Done(i) /\ log' = log
WriteAnswered(i) ==
  /\ calls[i].op = "write" /\ calls[i].by = "launch"
  /\ calls' = Done(i) /\ UNCHANGED <<ui, log>>
CloseAnswered(i) ==
  /\ calls[i].op = "close" /\ calls[i].by # "setup"
  /\ calls' = Done(i) /\ UNCHANGED <<ui, log>>
Answer(i) ==
  /\ calls[i].at # "sent"
  /\ SetupAnswered(i) \/ Answered(i) \/ WriteAnswered(i) \/ CloseAnswered(i)
  /\ UNCHANGED <<shells, exits, left>>

\* A shell ended: its tab is closed, which closes the session of that key,
\* the one opened in its place if the tab was restarted.
Exit(k) ==
  /\ k \in exits /\ exits' = exits \ {k}
  /\ LET u == CleanedUp(Closed(ui, k.ws, k.tab), k) IN
     Rendered(IF OnlyTab(ui, k.ws, k.tab) THEN [u EXCEPT !.open = FALSE] ELSE u, TRUE,
              Append(calls, Call("close", k, "tab", 0)))
  /\ UNCHANGED <<shells, left>>

----------------------------------------------------------------------------
Init ==
  /\ ui = Panel0 /\ shells = [k \in Key |-> "none"]
  /\ calls = <<>> /\ exits = {} /\ log = <<>> /\ left \in Budgets

Next ==
  \/ \E w \in Workspace : Select(w)
  \/ \E t \in Tab : SelectTab(t) \/ CloseTab(t)
  \/ Refreshed \/ Toggle \/ NewTab \/ Run \/ Setup
  \/ \E i \in 1..Len(calls) : ServeOpen(i) \/ ServeClose(i) \/ ServeWrite(i) \/ ServeOther(i) \/ Answer(i)
  \/ \E k \in Key : ShellEnds(k) \/ Forgotten(k) \/ Exit(k)

Spec == Init /\ [][Next]_vars

----------------------------------------------------------------------------
\* A launch script is written at most once, and never after the user has left
\* the workspace it was launched in, though its shell is restarted and may be
\* ready only much later (useWorkspaceLaunchScripts.ts:116, :317).
LaunchedWhereAsked ==
  \A i \in DOMAIN log :
    log[i].asked = log[i].at /\ \A j \in DOMAIN log : log[j].run = log[i].run => j = i
=============================================================================
