---------------------------- MODULE LiveConnection ----------------------------
(***************************************************************************)
(* The thread on the screen of a client of a remote daemon.                *)
(*   useRemoteThreadLiveConnection  attaches to the thread again after a   *)
(*     switch, a return to the window, a detach or a new session           *)
(*   useRemoteThreadRefreshOnFocus  resumes it on return, and by polling   *)
(*     unless the connection is called live or a turn is shown running     *)
(*   useWorkspaceRefreshOnFocus     asks for the workspaces now and then   *)
(* The daemon keeps no subscription: it answers, and tells every client    *)
(* who attached or detached.  An attempt to attach is superseded by a      *)
(* later one, or by a blur; the sequence number is kept as `current`.      *)
(***************************************************************************)
EXTENDS Naturals, Sequences, FiniteSets

CONSTANTS
  Thread, None,
  First,        \* the thread being watched at first
  MaxAttempts,  \* bound: attempts under way when the user moves
  MaxWire,      \* bound: events on their way when there is more to tell
  Budgets       \* bounds of a behaviour: switches of thread, losses of focus, times the
                \* window is hidden, news, acts of other clients, failed requests, lost
                \* connections, ended sessions

VARIABLES
  key,      \* the selected thread, as rendered
  listed,   \* workspace.connected in the list of workspaces
  win,      \* the document is visible, the window has focus, a second focus event is due
  hook,     \* the refs of useRemoteThreadLiveConnection; up: connected as rendered;
            \* astray (history): since the last attempt began, a mark left for an attempt's
            \* own detach took another's, or an attempt ended when no thread was selected
  poll,     \* the effect of useRemoteThreadRefreshOnFocus
  seen,     \* the news of each thread that the client has, and the threads it has loaded
  wire,     \* events on their way to the client
  leaving,  \* unsubscribe requests nobody waits for, by thread
  daemon,   \* session: of the workspace; link: to the client; news: of each thread;
            \* attached (history): the threads whose last event was an attachment
  left,     \* what may still happen
  sound,    \* nothing fails in this behaviour
  back      \* history: the user came back to the window, joining no attempt, and since then
            \* the connection did not break and no attempt failed to read the thread

vars == <<key, listed, win, hook, poll, seen, wire, leaving, daemon, left, sound, back>>

\* A turn is under way after every odd piece of news.
Processing == key # None /\ \E n \in seen.news[key] : n % 2 = 1 /\ \A m \in seen.news[key] : m <= n

(***************************************************************************)
(* useRemoteThreadLiveConnection.                                          *)
(***************************************************************************)
ReconcileDisconnectedState(h) ==
  [h EXCEPT !.state = IF h.up THEN "polling" ELSE "disconnected"]

\* From the first await of an attempt that resumed, or need not, to its second.
Attach(h, a) ==
  IF h.active = a.key
    THEN [h EXCEPT !.ignore = @ \cup {a.key}, !.attempts = @ \cup {[a EXCEPT !.at = "unsubscribe"]}]
    ELSE [h EXCEPT !.attempts = @ \cup {[a EXCEPT !.at = "subscribe"]}]

\* A current attempt for the same thread is joined: there is at most one, and it is
\* the one of inFlightReconnectRef.  Mutant: one that a blur called off is, too.
JoinsAny(h, k) == \E a \in h.attempts : a.key = k
Joins(h, k) == \E a \in h.attempts : a.current /\ a.key = k

\* reconnectLive up to its first await.
ReconnectLive(h, k, resume, keep) ==
  IF Joins(h, k) THEN [h EXCEPT !.desired = k]
  ELSE LET older == {[a EXCEPT !.current = FALSE] : a \in h.attempts}
           id == CHOOSE n \in 1 .. Cardinality(h.attempts) + 1 : \A a \in h.attempts : a.id # n
           a == [id |-> id, key |-> k, resume |-> resume, keep |-> keep, current |-> TRUE,
                 at |-> IF h.up THEN "resume" ELSE "connect"]
           begun == [h EXCEPT !.desired = k, !.attempts = older, !.astray = FALSE,
                              !.state = CASE ~h.up -> "disconnected"
                                          [] h.up /\ (resume \/ ~keep) -> "polling"
                                          [] OTHER -> "live"]
       IN IF ~h.up \/ resume THEN [begun EXCEPT !.attempts = @ \cup {a}] ELSE Attach(begun, a)

Room == Cardinality(hook.attempts) < MaxAttempts
Without(h, a) == [h EXCEPT !.attempts = @ \ {a}]
Unsubscribe(k) == leaving' = [leaving EXCEPT ![k] = @ + 1]

\* Sequence checks of a stale attempt: it stops, and detaches what nobody wants.
Stop(h, a) == Without(h, a)
Done(a) ==
  LET h == Without(hook, a)
  IN IF a.current
       THEN [h EXCEPT !.active = a.key, !.astray = @ \/ key = None,
                      !.state = IF a.resume \/ ~a.keep THEN "polling" ELSE "live"]
       ELSE IF h.desired # a.key THEN [h EXCEPT !.attempts = @ \cup {[a EXCEPT !.at = "cleanup"]}] ELSE h
Caught(a) == LET h == Without(hook, a) IN IF a.current THEN ReconcileDisconnectedState(h) ELSE h

\* The effect of the selected thread and its workspace's connection.
KeyEffect(h, k) ==
  LET leaves == h.active # None /\ h.active # k
      h1 == [h EXCEPT !.desired = k, !.active = IF leaves THEN None ELSE @]
  IN IF k = None \/ ~win.visible THEN ReconcileDisconnectedState(h1)
     ELSE IF h1.active = k /\ h1.state # "disconnected" /\ h.up THEN h1
     ELSE ReconnectLive(h1, k, k \notin seen.loaded, TRUE)

HandleBlur(h) ==
  LET gone == [h EXCEPT !.desired = None, !.attempts = {[a EXCEPT !.current = FALSE] : a \in h.attempts}]
  IN IF h.active = None THEN gone ELSE ReconcileDisconnectedState([gone EXCEPT !.active = None])
BlurUnsubscribes == IF hook.active = None THEN UNCHANGED leaving ELSE Unsubscribe(hook.active)

ReconnectActiveThread(h) == IF key = None THEN h ELSE ReconnectLive(h, key, TRUE, FALSE)

(***************************************************************************)
(* The user: thread and window.  useRemoteThreadRefreshOnFocus hears the   *)
(* same window events.                                                     *)
(***************************************************************************)
Deps == <<key, Processing, hook.state = "live">>
Suspended == hook.state = "live"
RefreshSoon == poll' = [poll EXCEPT !.focused = TRUE, !.timer = @ \/ ~Suspended]

Select(k) ==
  /\ k # key /\ left.switches > 0 /\ Room
  /\ key' = k
  /\ hook' = KeyEffect(hook, k)
  /\ IF hook.active \notin {None, k} THEN Unsubscribe(hook.active) ELSE UNCHANGED leaving
  /\ left' = [left EXCEPT !.switches = @ - 1]
  /\ back' = FALSE
  /\ UNCHANGED <<listed, win, poll, seen, wire, daemon, sound>>

\* What the list says of the connection is rendered.
Render ==
  /\ listed # hook.up
  /\ hook' = KeyEffect([hook EXCEPT !.up = listed], key)
  /\ UNCHANGED <<key, listed, win, poll, seen, wire, leaving, daemon, left, sound, back>>

Blur ==
  /\ win.focused /\ left.blurs > 0
  /\ win' = [win EXCEPT !.focused = FALSE, !.echo = FALSE]
  /\ hook' = HandleBlur(hook)
  /\ BlurUnsubscribes
  /\ poll' = [poll EXCEPT !.focused = FALSE]
  /\ left' = [left EXCEPT !.blurs = @ - 1]
  /\ back' = FALSE
  /\ UNCHANGED <<key, listed, seen, wire, daemon, sound>>

Hide ==
  /\ win.visible /\ left.hides > 0
  /\ win' = [visible |-> FALSE, focused |-> FALSE, echo |-> FALSE]
  /\ hook' = HandleBlur(hook)
  /\ BlurUnsubscribes
  /\ poll' = [poll EXCEPT !.focused = FALSE]
  /\ left' = [left EXCEPT !.hides = @ - 1]
  /\ back' = FALSE
  /\ UNCHANGED <<key, listed, seen, wire, daemon, sound>>

Show ==
  /\ ~win.visible /\ Room
  /\ win' = [win EXCEPT !.visible = TRUE]
  /\ hook' = ReconnectActiveThread(hook)
  /\ RefreshSoon
  /\ UNCHANGED <<key, listed, seen, wire, leaving, daemon, left, sound, back>>

\* The DOM and the window each announce the focus.
Focus ==
  /\ win.visible
  /\ ~win.focused \/ win.echo
  /\ Room
  /\ win' = [win EXCEPT !.focused = TRUE, !.echo = ~win.focused]
  /\ hook' = ReconnectActiveThread(hook)
  /\ RefreshSoon
  /\ back' = (back \/ (~win.focused /\ ~Joins(hook, key)))
  /\ UNCHANGED <<key, listed, seen, wire, leaving, daemon, left, sound>>

(***************************************************************************)
(* The daemon.  A request restores a lost connection before it is sent.    *)
(***************************************************************************)
Send(e) == wire' = Append(wire, e)
Linked(d) == [d EXCEPT !.link = TRUE]
\* A request was served: its event goes to every client.
Tell(e) ==
  /\ Send(e)
  /\ daemon' = [Linked(daemon) EXCEPT !.attached = IF e.is = "attached" THEN @ \cup {e.key} ELSE @ \ {e.key}]
Detach(t, by) ==
  IF daemon.session THEN Tell([is |-> "detached", key |-> t, n |-> by])
  ELSE daemon' = Linked(daemon) /\ UNCHANGED wire
Fails == left.fails > 0 /\ left' = [left EXCEPT !.fails = @ - 1]

\* A thread has news: every client that is connected is told.
News(t) ==
  /\ daemon.session /\ left.news > 0
  /\ daemon.link => Len(wire) < MaxWire
  /\ left' = [left EXCEPT !.news = @ - 1]
  /\ daemon' = [daemon EXCEPT !.news[t] = @ + 1]
  /\ IF daemon.link THEN Send([is |-> "news", key |-> t, n |-> daemon.news[t] + 1]) ELSE UNCHANGED wire
  /\ UNCHANGED <<key, listed, win, hook, poll, seen, leaving, sound, back>>

\* The connection breaks: what was on its way is lost.
Drop ==
  /\ daemon.link /\ left.drops > 0
  /\ left' = [left EXCEPT !.drops = @ - 1]
  /\ daemon' = [daemon EXCEPT !.link = FALSE]
  /\ wire' = <<>>
  /\ back' = FALSE
  /\ UNCHANGED <<key, listed, win, hook, poll, seen, leaving, sound>>

SessionEnds ==
  /\ daemon.session /\ left.ends > 0
  /\ left' = [left EXCEPT !.ends = @ - 1]
  /\ daemon' = [daemon EXCEPT !.session = FALSE]
  /\ UNCHANGED <<key, listed, win, hook, poll, seen, wire, leaving, sound, back>>

\* Another client attaches to a thread, or leaves it.
OtherClient(t) ==
  /\ left.others > 0 /\ daemon.link /\ Len(wire) < MaxWire
  /\ left' = [left EXCEPT !.others = @ - 1]
  /\ \E is \in {"attached", "detached"} : Tell([is |-> is, key |-> t, n |-> 0])
  /\ UNCHANGED <<key, listed, win, hook, poll, seen, leaving, sound, back>>

DaemonUnsubscribes(t) ==
  /\ leaving[t] > 0
  /\ leaving' = [leaving EXCEPT ![t] = @ - 1]
  /\ Detach(t, 0)
  /\ UNCHANGED <<key, listed, win, hook, poll, seen, left, sound, back>>

(***************************************************************************)
(* The awaits of an attempt.                                               *)
(***************************************************************************)
Move(a, at) == [hook EXCEPT !.attempts = (@ \ {a}) \cup {[a EXCEPT !.at = at]}]
CaughtUp(t) == [news |-> [seen.news EXCEPT ![t] = 1 .. daemon.news[t]], loaded |-> seen.loaded \cup {t}]

\* connectWorkspace
Connected(a) ==
  /\ a.at = "connect"
  /\ daemon' = [daemon EXCEPT !.session = TRUE, !.link = TRUE]
  /\ IF daemon.session THEN UNCHANGED wire ELSE Send([is |-> "connected", key |-> None, n |-> 0])
  /\ listed' = TRUE
  /\ hook' = IF ~a.current THEN Stop(hook, a)
             ELSE IF a.resume THEN Move(a, "resume") ELSE Attach(Without(hook, a), a)
  /\ UNCHANGED <<key, win, poll, seen, leaving, left, sound, back>>

NotConnected(a) ==
  /\ a.at = "connect" /\ Fails
  /\ hook' = Caught(a)
  /\ UNCHANGED <<key, listed, win, poll, seen, wire, leaving, daemon, sound, back>>

\* refreshThread; a failure is not thrown.
Resumed(a) ==
  /\ a.at = "resume"
  /\ \/ /\ daemon.session /\ seen' = CaughtUp(a.key) /\ daemon' = Linked(daemon)
        /\ UNCHANGED <<left, back>>
     \/ /\ ~daemon.session /\ daemon' = Linked(daemon) /\ back' = FALSE
        /\ UNCHANGED <<seen, left>>
     \/ Fails /\ back' = FALSE /\ UNCHANGED <<seen, daemon>>
  /\ hook' = IF a.current THEN Attach(Without(hook, a), a) ELSE Stop(hook, a)
  /\ UNCHANGED <<key, listed, win, poll, wire, leaving, sound>>

\* The unsubscribe of its own subscription, whose event is to be ignored.
Unsubscribed(a) ==
  /\ a.at = "unsubscribe"
  /\ \/ /\ Detach(a.key, a.id) /\ UNCHANGED left
     \/ Fails /\ UNCHANGED <<wire, daemon>>
  /\ hook' = [Move(a, "subscribe") EXCEPT !.active = None]
  /\ UNCHANGED <<key, listed, win, poll, seen, leaving, sound, back>>

\* The event of a subscription and its answer leave together, and arrive in either
\* order.
Subscribes(a) ==
  LET event == [is |-> "attached", key |-> a.key, n |-> 0]
      answer == [is |-> "answer", key |-> a.key, n |-> a.id]
  IN /\ a.at = "subscribe" /\ daemon.session
     /\ \E both \in {<<event, answer>>, <<answer, event>>} : wire' = wire \o both
     /\ daemon' = [Linked(daemon) EXCEPT !.attached = @ \cup {a.key}]
     /\ hook' = Move(a, "subscribed")
     /\ UNCHANGED <<key, listed, win, poll, seen, leaving, left, sound, back>>
Answers(a) == \E i \in DOMAIN wire : wire[i].is = "answer" /\ wire[i].n = a.id
NotSubscribed(a) ==
  /\ \/ a.at = "subscribe" /\ ~daemon.session /\ UNCHANGED left
     \/ a.at = "subscribed" /\ ~Answers(a) /\ UNCHANGED left
     \/ a.at = "subscribe" /\ Fails
  /\ hook' = Caught(a)
  /\ UNCHANGED <<key, listed, win, poll, seen, wire, leaving, daemon, sound, back>>

CleanedUp(a) ==
  /\ a.at = "cleanup"
  /\ Detach(a.key, 0)
  /\ hook' = Without(hook, a)
  /\ UNCHANGED <<key, listed, win, poll, seen, leaving, left, sound, back>>

(***************************************************************************)
(* Events, in order.  Those of a thread reach its rows whoever is shown.   *)
(***************************************************************************)
IgnoresItsOwn(h) == key \in h.ignore
OnDetached(h, by) ==
  IF IgnoresItsOwn(h) THEN [h EXCEPT !.ignore = @ \ {key}, !.astray = @ \/ by = 0]
  ELSE LET off == ReconcileDisconnectedState([h EXCEPT !.active = None])
       IN IF win.visible /\ win.focused THEN ReconnectLive(off, key, TRUE, FALSE) ELSE off

Heard(h, e) ==
  CASE e.is = "connected" /\ win.visible -> ReconnectLive(h, key, FALSE, FALSE)
    [] e.is = "attached" /\ e.key = key ->
         [h EXCEPT !.active = key, !.state = IF @ = "polling" THEN @ ELSE "live"]
    [] e.is = "detached" /\ e.key = key -> OnDetached(h, e.n)
    [] e.is = "news" /\ e.key = key -> [h EXCEPT !.state = "live"]
    [] OTHER -> h

\* Mutant: news that comes before the connection is live is dropped.
NotedWhenLive(e) ==
  IF e.is = "news" /\ hook.state = "live" THEN [seen EXCEPT !.news[e.key] = @ \cup {e.n}] ELSE seen
Noted(e) == IF e.is = "news" THEN [seen EXCEPT !.news[e.key] = @ \cup {e.n}] ELSE seen

Hear ==
  /\ wire # <<>>
  /\ LET e == Head(wire)
     IN /\ wire' = Tail(wire)
        /\ hook' = IF e.is = "answer" THEN Done(CHOOSE a \in hook.attempts : a.id = e.n)
                  ELSE IF key = None THEN hook ELSE Heard(hook, e)
        /\ listed' = IF e.is = "connected" THEN TRUE ELSE listed
        /\ seen' = Noted(e)
  /\ UNCHANGED <<key, win, poll, leaving, daemon, left, sound, back>>

(***************************************************************************)
(* useRemoteThreadRefreshOnFocus: a refresh half a second after a return,  *)
(* one every twelve seconds, one at a time; a change of thread, turn or    *)
(* connection starts over, and leaves a refresh under way to itself.       *)
(***************************************************************************)
PollEffect ==
  /\ poll.deps # Deps
  /\ poll' = [poll EXCEPT !.deps = Deps, !.timer = FALSE, !.busy = FALSE, !.focused = win.visible]
  /\ UNCHANGED <<key, listed, win, hook, seen, wire, leaving, daemon, left, sound, back>>

Polls == key # None /\ ~Suspended /\ ~Processing /\ poll.focused /\ win.visible

\* runRefresh, from the timer or the interval: it connects first where needed.
\* (One that finds nothing new, its workspace connected, is left out.)
Useful == key # None /\ (~hook.up \/ ~daemon.session \/ seen.news[key] # 1 .. daemon.news[key])
RunRefresh ==
  /\ poll.timer \/ (Polls /\ Useful /\ ~poll.busy)
  /\ LET runs == Useful /\ ~poll.busy
     IN poll' = [poll EXCEPT !.timer = FALSE, !.busy = @ \/ runs,
                             !.runs = IF runs THEN [@ EXCEPT ![key] = IF hook.up THEN "resume" ELSE "connect"]
                                      ELSE @]
  /\ UNCHANGED <<key, listed, win, hook, seen, wire, leaving, daemon, left, sound, back>>

RefreshConnects(t) ==
  /\ poll.runs[t] = "connect"
  /\ daemon' = [daemon EXCEPT !.session = TRUE, !.link = TRUE]
  /\ IF daemon.session THEN UNCHANGED wire ELSE Send([is |-> "connected", key |-> None, n |-> 0])
  /\ listed' = TRUE
  /\ poll' = [poll EXCEPT !.runs[t] = "resume"]
  /\ UNCHANGED <<key, win, hook, seen, leaving, left, sound, back>>

RefreshResumes(t) ==
  /\ poll.runs[t] = "resume"
  /\ \/ daemon.session /\ seen' = CaughtUp(t) /\ UNCHANGED left
     \/ ~daemon.session /\ UNCHANGED <<seen, left>>
     \/ Fails /\ UNCHANGED seen
  /\ daemon' = Linked(daemon)
  /\ poll' = [poll EXCEPT !.runs[t] = "no", !.busy = @ /\ key # t]
  /\ UNCHANGED <<key, listed, win, hook, wire, leaving, sound, back>>

\* useWorkspaceRefreshOnFocus: the list of workspaces is read again.
RefreshWorkspaces ==
  /\ win.visible
  /\ listed' = daemon.session
  /\ daemon' = Linked(daemon)
  /\ UNCHANGED <<key, win, hook, poll, seen, wire, leaving, left, sound, back>>

(***************************************************************************)
(* The specification.                                                      *)
(***************************************************************************)
\* The client has been watching a thread.
Init ==
  /\ key = First
  /\ listed = TRUE
  /\ win = [visible |-> TRUE, focused |-> TRUE, echo |-> FALSE]
  /\ hook = [state |-> "polling", active |-> key, desired |-> key, ignore |-> {}, attempts |-> {},
             up |-> TRUE, astray |-> FALSE]
  /\ poll = [deps |-> <<key, FALSE, FALSE>>, timer |-> FALSE, busy |-> FALSE, focused |-> TRUE,
             runs |-> [t \in Thread |-> "no"]]
  /\ seen = [news |-> [t \in Thread |-> {}], loaded |-> {key}]
  /\ wire = <<>>
  /\ leaving = [t \in Thread |-> 0]
  /\ daemon = [session |-> TRUE, link |-> TRUE, news |-> [t \in Thread |-> 0], attached |-> {First}]
  /\ left \in Budgets
  /\ sound = (left.fails + left.drops + left.ends = 0)
  /\ back = FALSE

Goes(a) == Connected(a) \/ Resumed(a) \/ Unsubscribed(a) \/ Subscribes(a)
           \/ NotSubscribed(a) \/ CleanedUp(a)

\* What is rendered, and the effects of it, come before anything else happens.
Rendered == listed = hook.up /\ poll.deps = Deps

Next ==
  \/ Render \/ PollEffect
  \/ /\ Rendered
     /\ \/ \E k \in Thread \cup {None} : Select(k)
        \/ Blur \/ Hide \/ Show \/ Focus
        \/ \E t \in Thread : News(t) \/ OtherClient(t) \/ DaemonUnsubscribes(t)
        \/ Drop \/ SessionEnds
        \/ \E a \in hook.attempts : Goes(a) \/ NotConnected(a)
        \/ Hear \/ RunRefresh
        \/ \E t \in Thread : RefreshConnects(t) \/ RefreshResumes(t)
        \/ RefreshWorkspaces

\* Renders and effects run, events are heard, requests are answered, timers fire;
\* of the user, a second focus event follows the first.
Hears == Rendered /\ Hear
Refreshes == Rendered /\ RunRefresh
FocusComes == Rendered /\ win.echo /\ Focus
Relists == Rendered /\ RefreshWorkspaces
AttemptGoes(n) == Rendered /\ \E a \in hook.attempts : a.id = n /\ Goes(a)
Leaves(t) == Rendered /\ DaemonUnsubscribes(t)
Resumes(t) == Rendered /\ (RefreshConnects(t) \/ RefreshResumes(t))
Fairness ==
  /\ WF_vars(Render) /\ WF_vars(PollEffect)
  /\ WF_vars(Hears) /\ WF_vars(Refreshes) /\ WF_vars(FocusComes) /\ WF_vars(Relists)
  /\ \A n \in 1 .. MaxAttempts + 2 : WF_vars(AttemptGoes(n))
  /\ \A t \in Thread : WF_vars(Leaves(t)) /\ WF_vars(Resumes(t))

Spec == Init /\ [][Next]_vars /\ Fairness

(***************************************************************************)
(* Properties.                                                             *)
(***************************************************************************)
\* A user who stays with a thread is attached to it in the end, as far as the
\* daemon has told its clients, and the attempts end, in whatever order switches,
\* blurs, focus events, detach events of its own and of other clients, and answers
\* came in.  Two ways astray, of which the code has nothing, are left out: the mark
\* that an attempt left for its own detach event takes that of an earlier unsubscribe
\* (of a switch and back while the attempt waits), and an attempt ends when no thread
\* is selected, whose detach event then goes unheard.  (activeSubscriptionKeyRef may
\* still say otherwise: an attempt that was superseded while it detached clears it.)
Watches == key # None /\ win.visible /\ win.focused /\ sound /\ ~hook.astray
Attached == key \in daemon.attached /\ hook.attempts = {}

\* The thread on screen has all its news in the end, whatever was lost while the
\* connection was down, in two cases: it is polled, whatever else failed and
\* whatever attempt a return joined; or the user came back in an attempt that began
\* with the return and read the thread, also when nothing polls it.  (So a client
\* may miss news for good that came back, joined an attempt that had read the thread
\* already, or whose read failed, and that then is called live by the next event, or
\* shows a turn as running: neither is polled.)
Returned == back /\ key # None /\ daemon.session
Reads == Returned \/ Polls
UpToDate == key # None => seen.news[key] = 1 .. daemon.news[key]
===============================================================================
