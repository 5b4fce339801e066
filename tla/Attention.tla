----------------------------- MODULE Attention -----------------------------
(* What calls the user back to the window: notices of requests that wait    *)
(* for an answer and of plans, notices and sounds of turns that have ended, *)
(* and the threads such a notice, or the tray, opens.                       *)
EXTENDS Naturals, Sequences, FiniteSets, SequencesExt
CONSTANTS Owner,    \* [threads -> workspaces]
          Subagents,\* the threads that are a subagent's
          Ids,      \* what a server numbers its requests with
          Missing,  \* the workspaces that are gone
          Nothing,
          Budgets   \* how often each thing may happen
VARIABLES
  view,      \* focused, enabled, subagents: of the window and the settings
  asks,      \* the requests that wait for an answer, oldest first
  notes,     \* the refs of the hook that tells of requests and plans
  turns,     \* [threads -> the turn that runs there]
  watch,     \* [notice, sound -> [threads -> what the hook has noted]]
  link,      \* the thread to open, and the navigations under way
  told,      \* what was told of, and when it should not have been
  budget

vars == <<view, asks, notes, turns, watch, link, told, budget>>

Threads == DOMAIN Owner
Workspaces == {Owner[t] : t \in Threads}
Kinds == {"approval", "question"}
\* The hook of sounds decides as the one of notices does, but mutes nobody.
Hooks == {"notice", "sound"}
NoRefs == [told |-> {}, seen |-> [k \in Kinds |-> Nothing], plans |-> << >>, plansTold |-> {},
           recent |-> FALSE, timer |-> "none"]
NoTurn == [on |-> FALSE, n |-> 0, age |-> 0, heard |-> TRUE]
NoWatch == [byThread |-> Nothing, byId |-> Nothing, last |-> Nothing, recent |-> FALSE]
NoLink == [pending |-> Nothing, jobs |-> << >>, refreshing |-> FALSE, loaded |-> FALSE, known |-> {},
           connected |-> {}, changed |-> FALSE, opened |-> Nothing, n |-> 0]

Init == /\ view \in [focused : BOOLEAN, enabled : {TRUE}, subagents : BOOLEAN]
        /\ asks = << >> /\ notes = NoRefs
        /\ turns = [t \in Threads |-> NoTurn]
        /\ watch = [h \in Hooks |-> [t \in Threads |-> NoWatch]]
        /\ link = NoLink
        /\ told = [open |-> {}, wrong |-> FALSE, of |-> Nothing, due |-> Nothing, done |-> {}, held |-> {}]
        /\ budget \in Budgets

Spend(b) == budget[b] > 0 /\ budget' = [budget EXCEPT ![b] = @ - 1]

(* Requests and plans. One step is an event and the effects of the render   *)
(* it leads to; `s' holds the refs, what was told and the requests open.    *)
Key(r) == <<r.kind, r.id>>
shouldMute(v, t) == ~v.subagents /\ t \in Subagents
latestUnnotified(v, open, refs, k) ==
  LET left == SelectSeq(open, LAMBDA r : r.kind = k /\ Key(r) \notin refs.told /\ ~shouldMute(v, r.of))
  IN IF left = << >> THEN Nothing ELSE Last(left)
canNotifyNow(v, s) == v.enabled /\ ~v.focused /\ ~s.refs.recent
scheduleRetry(v, s) ==
  IF ~v.enabled \/ v.focused \/ s.refs.timer # "none" THEN s
  ELSE [s EXCEPT !.refs.timer = IF s.refs.recent THEN "waits" ELSE "due"]
notify(s, key) ==
  [s EXCEPT !.refs.recent = TRUE, !.told.open = @ \cup {key},
            !.told.wrong = @ \/ key \in s.told.open \/ key \notin s.wanted]
TellRequest(v, forced, k, latest, s) ==
  LET seen == [s EXCEPT !.refs.seen[k] = latest] IN
  IF latest = Nothing \/ (~forced /\ latest = s.refs.seen[k]) THEN seen
  ELSE IF ~canNotifyNow(v, s) THEN scheduleRetry(v, seen)
  ELSE scheduleRetry(v, notify([seen EXCEPT !.refs.told = @ \cup {Key(latest)}], Key(latest)))
TellPlan(v, s) ==
  IF s.refs.plans = << >> THEN s
  ELSE IF ~canNotifyNow(v, s) THEN scheduleRetry(v, s)
  ELSE LET p == Head(s.refs.plans)
           t == notify([s EXCEPT !.refs.plans = Tail(@), !.refs.plansTold = @ \cup {p}], <<"plan", p>>)
       IN IF t.refs.plans # << >> THEN scheduleRetry(v, t) ELSE t
Pruned(open, refs) == [refs EXCEPT !.told = @ \cap {Key(r) : r \in ToSet(open)}]
Effects(v, open, forced, refs, seen) ==
  LET at == [k \in Kinds |-> latestUnnotified(v, open, refs, k)]
      wanted == {Key(r) : r \in {r \in ToSet(open) : ~shouldMute(v, r.of)}}
                \cup {<<"plan", p>> : p \in ToSet(refs.plans)}
      s == [refs |-> Pruned(open, refs), told |-> seen, wanted |-> wanted]
      a == TellRequest(v, forced, "approval", at["approval"], s)
      q == TellRequest(v, forced, "question", at["question"], a)
  IN IF forced THEN TellPlan(v, q) ELSE q
Renders(v, open, forced, refs, seen) ==
  LET s == Effects(v, open, forced, refs, seen)
  IN notes' = s.refs /\ told' = s.told /\ view' = v /\ asks' = open

Asked == /\ Spend("asks")
         /\ \E k \in Kinds, i \in Ids, t \in Threads :
              /\ \A n \in DOMAIN asks : asks[n].id # i
              /\ Renders(view, Append(asks, [kind |-> k, id |-> i, of |-> t]), FALSE, notes, told)
         /\ UNCHANGED <<turns, watch, link>>
Answered == \E n \in DOMAIN asks :
  /\ Renders(view, RemoveAt(asks, n), FALSE, notes, [told EXCEPT !.open = @ \ {Key(asks[n])}])
  /\ UNCHANGED <<turns, watch, link, budget>>
onItemCompleted ==
  /\ Spend("plans")
  /\ \E p \in Threads :
       LET s == [refs |-> notes, told |-> told, wanted |-> {<<"plan", p>>}]
           t == notify([s EXCEPT !.refs.plansTold = @ \cup {p}], <<"plan", p>>)
           held == scheduleRetry(view, [s EXCEPT !.refs.plans = Append(@, p)])
       IN \/ /\ shouldMute(view, p) \/ p \in notes.plansTold \/ p \in ToSet(notes.plans)
             /\ UNCHANGED <<view, asks, notes, told>>
          \/ /\ ~shouldMute(view, p) /\ p \notin notes.plansTold /\ p \notin ToSet(notes.plans)
             /\ IF canNotifyNow(view, s)
                THEN notes' = t.refs /\ told' = t.told /\ UNCHANGED <<view, asks>>
                ELSE Renders(view, asks, FALSE, held.refs, told)
  /\ UNCHANGED <<turns, watch, link>>
Rerenders == Renders(view, asks, FALSE, notes, told) /\ UNCHANGED <<turns, watch, link, budget>>
RetryFires == /\ notes.timer = "due"
              /\ Renders(view, asks, TRUE, [notes EXCEPT !.timer = "none"], told)
              /\ UNCHANGED <<turns, watch, link, budget>>
Configured == /\ Spend("settings") /\ view.focused
              /\ \/ Renders([view EXCEPT !.enabled = ~@], asks, TRUE, notes, told)
                 \/ Renders([view EXCEPT !.subagents = ~@], asks, FALSE, notes, told)
              /\ UNCHANGED <<turns, watch, link>>

(* Turns. Ages count half minutes; a second and a half is less than one.    *)
Aged(a) == IF a = Nothing THEN a ELSE IF a < 2 THEN a + 1 ELSE 2
Cooled == [notes EXCEPT !.recent = FALSE, !.timer = IF @ = "waits" THEN "due" ELSE @]
HalfMinute ==
  /\ Spend("ticks")
  /\ notes' = Cooled
  /\ turns' = [t \in Threads |-> [turns[t] EXCEPT !.age = Aged(@)]]
  /\ watch' = [h \in Hooks |-> [t \in Threads |->
       [watch[h][t] EXCEPT !.byThread = Aged(@), !.byId = Aged(@), !.recent = FALSE]]]
  /\ UNCHANGED <<view, asks, link, told>>
SecondPasses ==
  /\ notes' = Cooled
  /\ watch' = [h \in Hooks |-> [t \in Threads |-> [watch[h][t] EXCEPT !.recent = FALSE]]]
  /\ UNCHANGED <<view, asks, turns, link, told, budget>>

consumeDuration(w, byId) ==
  IF byId /\ w.byId # Nothing THEN w.byId ELSE w.byThread
Consumed(w, byId) == [w EXCEPT !.byThread = Nothing, !.byId = IF byId THEN Nothing ELSE @]
shouldNotify(h, t, w, age) ==
  /\ age # Nothing /\ age >= 2
  /\ view.enabled /\ ~view.focused /\ ~w.recent
  /\ h = "notice" => ~shouldMute(view, t)
(* The end of a turn, or a message of it: body is what the notice says.     *)
queuePendingThreadLink(t) ==
  [link EXCEPT !.pending = [of |-> t, old |-> FALSE, n |-> link.n], !.n = @ + 1]
Ends(t, byId, message, error) ==
  LET w == [h \in Hooks |-> IF message = Nothing THEN watch[h][t] ELSE [watch[h][t] EXCEPT !.last = message]]
      rings == [h \in Hooks |-> shouldNotify(h, t, w[h], consumeDuration(w[h], byId))]
      body == IF error \/ w["notice"].last = Nothing THEN turns[t].n ELSE w["notice"].last
  IN /\ watch' = [h \in Hooks |-> [watch[h] EXCEPT ![t] =
          IF rings[h] THEN [Consumed(w[h], byId) EXCEPT !.recent = TRUE, !.last = Nothing]
          ELSE Consumed(w[h], byId)]]
     /\ told' = [told EXCEPT !.of = [turn |-> turns[t], body |-> body, rings |-> rings, end |-> byId,
                                     quiet |-> ~view.enabled \/ view.focused \/ shouldMute(view, t)
                                               \/ watch["notice"][t].recent],
                             !.held = IF rings["notice"] THEN @ \cup {link.n} ELSE @,
                             !.due = IF ~rings["notice"] THEN @
                                     ELSE IF link.jobs = << >> THEN link.n ELSE Nothing]
     /\ link' = IF rings["notice"] THEN queuePendingThreadLink(t) ELSE link
recordStartIfMissing(t) ==
  watch' = [h \in Hooks |-> [watch[h] EXCEPT ![t].byThread = IF @ = Nothing THEN 0 ELSE @]]

(* The start of a turn is not heard when the connection was lost meanwhile. *)
onTurnStarted(t) ==
  /\ Spend("turns") /\ ~turns[t].on
  /\ \E heard \in BOOLEAN :
       /\ turns' = [turns EXCEPT ![t] = [on |-> TRUE, n |-> @.n + 1, age |-> 0, heard |-> heard]]
       /\ watch' = IF ~heard THEN watch ELSE
            [h \in Hooks |-> [watch[h] EXCEPT ![t] = [@ EXCEPT !.byThread = 0, !.byId = 0, !.last = Nothing]]]
  /\ UNCHANGED <<view, asks, notes, link, told>>
onItemStarted(t) == /\ turns[t].on /\ recordStartIfMissing(t)
                    /\ UNCHANGED <<view, asks, notes, turns, link, told, budget>>
onAgentMessageCompleted(t) ==
  /\ Spend("messages") /\ turns[t].on
  /\ Ends(t, FALSE, turns[t].n, FALSE)
  /\ UNCHANGED <<view, asks, notes, turns>>
onTurnCompleted(t) ==
  /\ turns[t].on
  /\ turns' = [turns EXCEPT ![t].on = FALSE]
  /\ \E error \in BOOLEAN : Ends(t, TRUE, Nothing, error)
  /\ UNCHANGED <<view, asks, notes, budget>>

(* Links. A job waits for the list of workspaces or for its workspace to be *)
(* connected; changed says that an effect waits for the list it has set.    *)
Opens(l, p) == [l EXCEPT !.pending = Nothing, !.opened = p]
Waits(l, step) == [l EXCEPT !.jobs = Append(@, [of |-> l.pending, step |-> step])]
tryNavigateToLink(l) ==
  LET w == Owner[l.pending.of] IN
  IF l.pending = Nothing THEN l
  ELSE IF l.pending.old THEN [l EXCEPT !.pending = Nothing]
  ELSE IF w \in l.known \cap l.connected THEN Opens(l, l.pending)
  ELSE IF w \in l.known THEN Waits(l, "connect")
  ELSE IF l.loaded /\ ~l.refreshing THEN [Waits(l, "refresh") EXCEPT !.refreshing = TRUE]
  ELSE [l EXCEPT !.pending = Nothing]
(* What becomes of the link that was asked for last, and of one done with.  *)
Navigates(l) ==
  /\ Len(l.jobs) < 2
  /\ link' = tryNavigateToLink(l)
  /\ told' = [told EXCEPT
       !.wrong = @ \/ (l.pending # Nothing /\ l.pending.n \in told.done),
       !.done = IF link'.opened = Nothing THEN @ ELSE @ \cup {link'.opened.n},
       !.due = IF l.pending # Nothing /\ (l.pending.old \/ ~l.loaded) THEN Nothing ELSE @]
openThreadLinkOrQueue ==
  /\ Spend("links")
  /\ \E t \in Threads :
       LET l == [queuePendingThreadLink(t) EXCEPT !.changed = FALSE] IN
       /\ link' = IF l.loaded THEN tryNavigateToLink(l) ELSE l
       /\ told' = [told EXCEPT !.due = IF link.jobs = << >> THEN link.n ELSE Nothing,
                               !.done = IF link'.opened = Nothing THEN @ ELSE @ \cup {link'.opened.n}]
  /\ Len(link.jobs) < 2
  /\ UNCHANGED <<view, asks, notes, turns, watch>>
(* The tray brings the window to the front before it sends its event.       *)
Focuses ==
  /\ Spend("moves") /\ ~view.focused
  /\ LET s == Effects([view EXCEPT !.focused = TRUE], asks, TRUE, notes, told) IN notes' = s.refs
  /\ view' = [view EXCEPT !.focused = TRUE]
  /\ Navigates(link)
  /\ UNCHANGED <<asks, turns, watch>>
Blurs == /\ view.focused /\ Renders([view EXCEPT !.focused = FALSE], asks, TRUE, notes, told)
         /\ UNCHANGED <<turns, watch, link, budget>>
Loaded == /\ ~link.loaded /\ Spend("loads")
          /\ \E k \in SUBSET (Workspaces \ Missing), c \in SUBSET Workspaces :
               /\ c \subseteq k
               /\ link' = [link EXCEPT !.loaded = TRUE, !.known = k, !.connected = c, !.changed = TRUE]
          /\ UNCHANGED <<view, asks, notes, turns, watch, told>>
NavigateEffect == /\ link.changed /\ link.loaded
                  /\ Navigates([link EXCEPT !.changed = FALSE])
                  /\ UNCHANGED <<view, asks, notes, turns, watch, budget>>
Expires == /\ Spend("ticks") /\ link.pending # Nothing
           /\ link' = [link EXCEPT !.pending.old = TRUE]
           /\ UNCHANGED <<view, asks, notes, turns, watch, told>>
(* The answer a job has waited for; without an answer the list is not read. *)
Connects(l, p) == IF Owner[p.of] \in l.connected THEN Opens(l, p)
                  ELSE [l EXCEPT !.jobs = Append(@, [of |-> p, step |-> "connect"])]
JobReturns == \E n \in DOMAIN link.jobs :
  LET j == link.jobs[n]  w == Owner[j.of.of]
      l == [link EXCEPT !.jobs = RemoveAt(@, n)]
      read == [l EXCEPT !.refreshing = FALSE, !.known = Workspaces \ Missing, !.changed = TRUE]
  IN /\ \/ /\ j.step = "connect" /\ UNCHANGED budget
           /\ link' = Opens([l EXCEPT !.connected = @ \cup {w}, !.changed = TRUE], j.of)
        \/ /\ j.step = "connect" /\ Spend("fails")
           /\ link' = Opens(l, j.of)
        \/ /\ j.step = "refresh" /\ UNCHANGED budget
           /\ link' = IF w \in Missing THEN [read EXCEPT !.pending = Nothing] ELSE Connects(read, j.of)
        \/ /\ j.step = "refresh" /\ Spend("fails")
           /\ link' = [l EXCEPT !.refreshing = FALSE]
     /\ told' = [told EXCEPT
          !.held = IF link'.pending = Nothing THEN @ ELSE @ \cup {link'.pending.n},
          !.due = IF (w \in Missing /\ @ = j.of.n) \/ (w \notin link'.known /\ link'.pending = Nothing)
                  THEN Nothing ELSE @,
          !.done = IF link'.opened = Nothing THEN @ ELSE @ \cup {link'.opened.n}]
     /\ UNCHANGED <<view, asks, notes, turns, watch>>

Next ==
  \/ Asked \/ Answered \/ onItemCompleted \/ Rerenders \/ RetryFires \/ Configured
  \/ HalfMinute \/ SecondPasses
  \/ \E t \in Threads : onTurnStarted(t) \/ onItemStarted(t) \/ onAgentMessageCompleted(t) \/ onTurnCompleted(t)
  \/ openThreadLinkOrQueue \/ Focuses \/ Blurs \/ Loaded \/ NavigateEffect \/ Expires \/ JobReturns

----------------------------------------------------------------------------
(* A request is told of once, while it waits and is not muted; a plan once; *)
(* and a link that was followed is not followed again.                      *)
ToldRightly == ~told.wrong
(* Away from the window nothing stays untold: what was held back by the     *)
(* second and a half between notices has a timer that comes back to it.     *)
NothingUntold ==
  (view.enabled /\ ~view.focused /\ notes.timer = "none") =>
     /\ notes.plans = << >>
     /\ \A n \in DOMAIN asks : shouldMute(view, asks[n].of) \/ Key(asks[n]) \in told.open
(* A notice or a sound says that a turn of a minute or more, or a message   *)
(* of it, has ended, and a notice quotes that turn.                         *)
SaysWhatEnded ==
  (told.of # Nothing /\ told.of.turn.heard) =>
     \A h \in Hooks : told.of.rings[h] => told.of.turn.age >= 2 /\ told.of.body = told.of.turn.n
(* and the end of such a turn is told of, to a user who is away.            *)
LongTurnsAreTold ==
  (told.of # Nothing /\ told.of.end /\ told.of.turn.heard /\ told.of.turn.age >= 2) =>
     told.of.quiet \/ told.of.rings["notice"]
(* Back at the window the thread told of last is open, if its workspace is  *)
(* there, the notice is not too old and no link was being followed then;    *)
(* what waits after the list of workspaces has come waits for the window.   *)
LinkIsFollowed ==
  (link.loaded /\ link.jobs = << >> /\ ~link.changed) =>
     IF link.pending # Nothing THEN link.pending.n \in told.held
     ELSE told.due # Nothing => link.opened # Nothing /\ link.opened.n = told.due
=============================================================================
