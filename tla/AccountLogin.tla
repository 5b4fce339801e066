------------------------------- MODULE AccountLogin -------------------------------
(***************************************************************************)
(* Switching the account of a workspace: the button starts a login, which  *)
(* the backend asks of the workspace's app-server and the user completes   *)
(* in the browser, unless it is cancelled, here or there.  The window      *)
(* (useAccountSwitching) tracks one login; the backend (codex_login_core)  *)
(* keeps for each workspace what a cancel has to reach.  Answers and       *)
(* events come as they will.  Attempts are numbered, also as login ids.    *)
(***************************************************************************)
EXTENDS Naturals, Sequences, FiniteSets

CONSTANTS
  Workspace, First,
  None,
  Budgets \* bound: what may happen in a behaviour, a set of records

VARIABLES
  active,  \* the workspace on screen
  hook,    \* accountSwitching and the refs: canceled, loginId, loginWorkspaceId
  jobs,    \* what the window awaits: see NewJob
  cancels, \* codex_login_cancels: what a cancel of a workspace's login reaches
  server,  \* the app-servers: the logins asked for, and those that may be completed
  wire,    \* the events of each workspace still to come
  log,     \* history: see Init
  left

vars == <<active, hook, jobs, cancels, server, wire, log, left>>

Spend(what) == left[what] > 0 /\ left' = [left EXCEPT ![what] = @ - 1]
MaySpend(ok) == IF ok THEN left' = left ELSE Spend("fails")
NewJob == [kind |-> "login", ws |-> active, n |-> log.presses, id |-> 0, step |-> "called", got |-> None, of |-> 0]
Becomes(j, k) == jobs' = (jobs \ {j}) \cup {k}
Pending(n) == [kind |-> "pending", n |-> n]
LoginId(n) == [kind |-> "id", n |-> n]
Idle == [on |-> FALSE, canceled |-> FALSE, id |-> None, ws |-> None]
\* What comes of an attempt meets the refs of a later one.
Mixes(n) == IF n = log.presses THEN {} ELSE {n, log.presses}

(***************************************************************************)
(* The window.                                                             *)
(***************************************************************************)
\* Another workspace on screen: its indicator is off, the login goes on.
SelectWorkspace(w) ==
  /\ w # active /\ Spend("moves") /\ active' = w
  /\ hook' = [hook EXCEPT !.on = @ /\ (w = None \/ hook.ws \in {None, w})]
  /\ UNCHANGED <<jobs, cancels, server, wire, log>>
handleSwitchAccount ==
  /\ active # None /\ ~hook.on /\ Spend("presses")
  /\ hook' = [on |-> TRUE, canceled |-> FALSE, id |-> None, ws |-> active]
  /\ log' = [log EXCEPT !.presses = @ + 1] /\ jobs' = jobs \cup {[NewJob EXCEPT !.n = @ + 1]}
  /\ UNCHANGED <<active, cancels, server, wire>>
handleCancelSwitchAccount ==
  /\ active # None /\ hook.on /\ Spend("cancels") /\ hook' = [hook EXCEPT !.canceled = TRUE]
  /\ jobs' = jobs \cup {[NewJob EXCEPT !.kind = "cancel", !.id = left.cancels,
                                       !.ws = IF hook.ws # None THEN hook.ws ELSE active]}
  /\ log' = [log EXCEPT !.canceled = @ \cup {log.presses}]
  /\ UNCHANGED <<active, cancels, server, wire>>

\* The login is answered: its page is opened, unless it was cancelled, which is
\* then told the backend once more; so it is when the page cannot be opened.
Cancels(j, kind) == Becomes(j, [j EXCEPT !.kind = kind, !.step = "called"])
Opens(j) == ~hook.canceled
Wrong(j) == IF Opens(j) THEN j.n \in log.canceled \ log.told ELSE j.n \notin log.canceled
LoginReturns(j) ==
  /\ j.kind = "login" /\ j.step = "replied"
  /\ IF j.got = "ok" /\ Opens(j) THEN hook' = [hook EXCEPT !.id = j.n] /\ Becomes(j, [j EXCEPT !.kind = "open"])
     ELSE IF j.got = "ok" THEN hook' = [hook EXCEPT !.id = j.n] /\ Cancels(j, "recancel")
     ELSE IF hook.canceled \/ j.got = "canceled" \/ hook.id = None THEN hook' = Idle /\ jobs' = jobs \ {j}
     ELSE hook' = hook /\ Cancels(j, "recancel")
  /\ log' = [log EXCEPT !.mixed = @ \cup Mixes(j.n),
                        !.wrong = IF j.got = "ok" /\ Wrong(j) THEN @ \cup {j.n} ELSE @]
  /\ UNCHANGED <<active, cancels, server, wire, left>>
PageOpens(j, ok) ==
  /\ j.kind = "open" /\ MaySpend(ok)
  /\ IF ok THEN jobs' = jobs \ {j} /\ hook' = hook /\ log' = [log EXCEPT !.opened = @ \cup {j.n}]
     ELSE /\ log' = [log EXCEPT !.mixed = @ \cup Mixes(j.n)]
          /\ IF hook.canceled \/ hook.id = None THEN hook' = Idle /\ jobs' = jobs \ {j}
             ELSE hook' = hook /\ Cancels(j, "recancel")
  /\ UNCHANGED <<active, cancels, server, wire>>
\* A cancel ends, with an error or not.  The one that was pressed leaves the
\* mark, so that what comes of the login later is not told.
CancelReturns(j) ==
  /\ j.kind \in {"cancel", "recancel"} /\ j.step = "replied" /\ jobs' = jobs \ {j}
  /\ hook' = [Idle EXCEPT !.canceled = j.kind = "cancel" /\ hook.canceled]
  /\ log' = [log EXCEPT !.mixed = @ \cup Mixes(j.n)]
  /\ UNCHANGED <<active, cancels, server, wire, left>>

\* An event counts for the workspace of the login that is tracked, or for the
\* one on screen; the end of a login only if it is not known to be another's.
Matched == IF hook.ws # None THEN hook.ws ELSE active
Ended(w, e) == Matched = w /\ e.kind = "completed" /\ hook.id \in {None, e.n}
Updated(w, e) == Matched = w /\ e.kind = "updated" /\ hook.on /\ ~hook.canceled
\* The account is read again when the login went well and was not cancelled.
Reads(w, e) == Ended(w, e) /\ e.ok /\ ~hook.canceled
Missed(w, e) ==
  e.kind = "completed" /\ e.ok /\ e.n = log.presses /\ e.n \notin log.canceled /\ ~Reads(w, e)
Hear(w) ==
  LET e == Head(wire[w]) IN
  /\ wire[w] # <<>> /\ wire' = [wire EXCEPT ![w] = Tail(@)]
  /\ hook' = (IF Ended(w, e) THEN Idle ELSE IF Updated(w, e) THEN [hook EXCEPT !.on = FALSE] ELSE hook)
  /\ log' = [log EXCEPT !.told = IF Ended(w, e) THEN @ \cup {e.n} ELSE @,
                        !.mixed = IF Ended(w, e) THEN @ \cup Mixes(e.n) ELSE @,
                        !.missed = IF Missed(w, e) THEN @ \cup {e.n} ELSE @]
  /\ UNCHANGED <<active, jobs, cancels, server, left>>

(***************************************************************************)
(* The backend: codex_login_core and codex_login_cancel_core.              *)
(***************************************************************************)
Reply(j, got) == Becomes(j, [j EXCEPT !.step = "replied", !.got = got])
\* What an earlier login left in the map is signalled or dropped: either way
\* that one is no longer the workspace's.  Without a session there is an error.
Waiting(w) == {j.n : j \in {x \in jobs : x.kind = "login" /\ x.step = "waiting" /\ x.ws = w}}
LoginBegins(j, ok) ==
  /\ j.kind = "login" /\ j.step = "called" /\ MaySpend(ok)
  /\ IF ok
     THEN /\ cancels' = [cancels EXCEPT ![j.ws] = Pending(j.n)] /\ Becomes(j, [j EXCEPT !.step = "waiting"])
          /\ server' = [server EXCEPT !.asked = @ \cup {[n |-> j.n, ws |-> j.ws]}]
          /\ log' = [log EXCEPT !.last[j.ws] = j.n,
                                !.overlap = IF Waiting(j.ws) = {} THEN @ ELSE @ \cup Waiting(j.ws) \cup {j.n}]
     ELSE Reply(j, "error") /\ UNCHANGED <<cancels, server, log>>
  /\ UNCHANGED <<active, hook, wire>>
\* The loop, every 150 ms: a login that is no longer the workspace's ends, and
\* one that takes too long; both remove what is in the map, whosever it is.
LoginGivesUp(j) ==
  /\ j.kind = "login" /\ j.step = "waiting"
  /\ \/ cancels[j.ws] # Pending(j.n) /\ Reply(j, "canceled") /\ left' = left
     \/ cancels[j.ws] = Pending(j.n) /\ j.got = None /\ Spend("fails") /\ Reply(j, "timeout")
  /\ cancels' = [cancels EXCEPT ![j.ws] = None] /\ UNCHANGED <<active, hook, server, wire, log>>
\* The answer, which may come between the signal and the look at it; an error
\* leaves the entry in the map.
LoginAnswered(j) ==
  /\ j.kind = "login" /\ j.step = "waiting" /\ j.got # None /\ Reply(j, j.got)
  /\ cancels' = (IF j.got = "ok" THEN [cancels EXCEPT ![j.ws] = LoginId(j.n)] ELSE cancels)
  /\ UNCHANGED <<active, hook, server, wire, log, left>>
CancelTakes(j) ==
  /\ j.kind \in {"cancel", "recancel"} /\ j.step = "called" /\ cancels' = [cancels EXCEPT ![j.ws] = None]
  /\ IF cancels[j.ws] # None /\ cancels[j.ws].kind = "id"
     THEN /\ Becomes(j, [j EXCEPT !.step = "asked", !.of = cancels[j.ws].n])
          /\ log' = [log EXCEPT !.tried = @ \cup {cancels[j.ws].n}]
     ELSE Reply(j, None) /\ log' = log
  /\ UNCHANGED <<active, hook, server, wire, left>>

(***************************************************************************)
(* The app-server and the browser, as the code expects them.               *)
(***************************************************************************)
Live == {l.n : l \in server.live}
Ends(l, ok, updates) ==
  /\ server' = [server EXCEPT !.live = @ \ {l}]
  /\ wire' = [wire EXCEPT ![l.ws] = @ \o <<[kind |-> "completed", n |-> l.n, ok |-> ok]>> \o updates]
ServerAnswers(l, ok) ==
  /\ MaySpend(ok)
  /\ server' = [server EXCEPT !.asked = @ \ {l}, !.live = IF ok THEN @ \cup {l} ELSE @]
  /\ jobs' = {IF j.kind = "login" /\ j.step = "waiting" /\ j.n = l.n
              THEN [j EXCEPT !.got = IF ok THEN "ok" ELSE "error"] ELSE j : j \in jobs}
  /\ UNCHANGED <<active, hook, cancels, wire, log>>
ServerCancels(j, ok) ==
  /\ j.step = "asked" /\ Reply(j, None) /\ MaySpend(ok)
  /\ IF ok /\ j.of \in Live THEN Ends(CHOOSE l \in server.live : l.n = j.of, FALSE, <<>>) ELSE UNCHANGED <<server, wire>>
  /\ UNCHANGED <<active, hook, cancels, log>>
UserLogsIn(l, ok) ==
  /\ l.n \in log.opened /\ MaySpend(ok)
  /\ Ends(l, ok, IF ok THEN <<[kind |-> "updated", n |-> l.n, ok |-> TRUE]>> ELSE <<>>)
  /\ UNCHANGED <<active, hook, jobs, cancels, log>>

----------------------------------------------------------------------------
Init ==
  /\ active = First /\ hook = Idle /\ jobs = {} /\ cancels = [w \in Workspace |-> None]
  /\ server = [asked |-> {}, live |-> {}] /\ wire = [w \in Workspace |-> <<>>] /\ left \in Budgets
  /\ log = [presses |-> 0,     \* how many logins were begun; the rest are sets of them:
            canceled |-> {},   \* by the user
            opened |-> {},     \* whose page was opened
            told |-> {},       \* whose end was heard
            missed |-> {},     \* the last begun, and its good end passed over
            wrong |-> {},      \* opened though cancelled and not ended yet, or not though not cancelled
            mixed |-> {},      \* see Mixes
            overlap |-> {},    \* waited for at once, in one workspace
            tried |-> {},      \* that a cancel took out of the map
            last |-> [w \in Workspace |-> 0]]

Next ==
  \/ \E w \in Workspace \cup {None} : SelectWorkspace(w)
  \/ handleSwitchAccount \/ handleCancelSwitchAccount
  \/ \E w \in Workspace : Hear(w)
  \/ \E j \in jobs : \/ LoginReturns(j) \/ CancelReturns(j) \/ LoginGivesUp(j) \/ LoginAnswered(j) \/ CancelTakes(j)
                     \/ \E ok \in BOOLEAN : PageOpens(j, ok) \/ LoginBegins(j, ok) \/ ServerCancels(j, ok)
  \/ \E l \in server.asked, ok \in BOOLEAN : ServerAnswers(l, ok)
  \/ \E l \in server.live, ok \in BOOLEAN : UserLogsIn(l, ok)

Spec == Init /\ [][Next]_vars

----------------------------------------------------------------------------
\* The indicator is that of the workspace on screen.
IndicatorIsHere == hook.on => active \in {None, hook.ws}

\* The indicator turns while something of the login is to come: an answer, the
\* user's doing in the browser, or the event that tells of it; unless an earlier
\* login's answer or end was taken for its own.
SwitchingIsALogin ==
  hook.on => \/ log.presses \in log.mixed \cup Live \/ \E j \in jobs : j.n = log.presses
             \/ \E w \in Workspace : \E i \in DOMAIN wire[w] : wire[w][i].n = log.presses

\* The page of a login that is answered is opened, but not when it was cancelled
\* and its end was not told before; and when the last login begun succeeds, the
\* account is read again, wherever the user is.  All unless it was mixed with
\* another.
LoginIsFollowed == log.wrong \cup log.missed \subseteq log.mixed

\* A login that may be completed in the browser can be cancelled: the backend
\* keeps its id, until a cancel has taken it or the workspace begins another.
\* Two logins of one workspace at once may lose each other's.
LoginCanBeCancelled ==
  \A l \in server.live :
    l.n \in log.opened \ (log.tried \cup log.overlap) /\ log.last[l.ws] = l.n => cancels[l.ws] = LoginId(l.n)
=============================================================================
