------------------------------ MODULE ThreadNews ------------------------------
(***************************************************************************)
(* What an agent says of its threads and its account beside the items: it  *)
(* is handed to the handler of its method, when it says what it is of, and *)
(* becomes the plan, the diff, the name and the hooks of a thread, and the *)
(* limits of a workspace.  The handlers go on from what was rendered last: *)
(* what came after that they do not see.                                   *)
(***************************************************************************)
EXTENDS Integers, Sequences, TLC

CONSTANTS
  Workspace, Thread, Name,
  Plans,  \* what may be said of a plan: see normalizePlanUpdate
  Limits, \* and of limits: see normalizeRateLimits
  Diffs,  \* and of a diff
  None,
  Budgets \* bound: what may happen in a behaviour, a set of records

VARIABLES
  state,  \* of the threads and the workspaces: see Init
  shown,  \* as it was rendered last
  turn,   \* of a thread, the turn that is known to run
  custom, \* of a thread, the name the user gave it
  log,    \* history: see Init
  left

vars == <<state, shown, turn, custom, log, left>>

Spend(what) == left[what] > 0 /\ left' = [left EXCEPT ![what] = @ - 1]

(***************************************************************************)
(* Methods and handlers.                                                   *)
(***************************************************************************)
Supported ==
  {"app/list/updated", "account/login/completed", "account/rateLimits/updated", "account/updated",
   "codex/backgroundThread", "codex/connected", "codex/event/skills_update_available", "error",
   "hook/completed", "hook/started", "item/agentMessage/delta", "item/commandExecution/outputDelta",
   "item/commandExecution/terminalInteraction", "item/completed", "item/fileChange/outputDelta",
   "item/plan/delta", "item/reasoning/summaryPartAdded", "item/reasoning/summaryTextDelta",
   "item/reasoning/textDelta", "item/started", "item/tool/requestUserInput", "thread/archived",
   "thread/closed", "thread/name/updated", "thread/status/changed", "thread/started",
   "thread/tokenUsage/updated", "thread/unarchived", "turn/completed", "turn/diff/updated",
   "turn/plan/updated", "turn/started"}
HandledOutside == {"app/list/updated", "codex/event/skills_update_available"}
Routed == Supported \ HandledOutside
isApprovalRequestMethod(m) == m \in {"item/commandExecution/requestApproval", "item/fileChange/requestApproval"}

\* An event: its method, and what of what it may say it does say.
Event(method, has) == [method |-> method, has |-> has]
HasItem(e) == {"thread", "item"} \subseteq e.has
Pieces(e) ==
  /\ e.method \in {"item/reasoning/summaryTextDelta", "item/reasoning/textDelta", "item/plan/delta",
                   "item/commandExecution/outputDelta", "item/fileChange/outputDelta"}
  /\ HasItem(e) /\ "body" \in e.has
Touches(e) ==
  e.method \in {"item/reasoning/summaryPartAdded", "item/commandExecution/terminalInteraction"} /\ HasItem(e)
AgentMessageDelta(e) == e.method = "item/agentMessage/delta" /\ HasItem(e) /\ "body" \in e.has
ItemNews(e) == e.method \in {"item/started", "item/completed"} /\ {"thread", "body"} \subseteq e.has
ThreadEvents(e) ==
  \/ e.method = "thread/started" /\ "body" \in e.has
  \/ /\ e.method \in {"thread/name/updated", "thread/closed", "thread/archived", "thread/unarchived",
                      "codex/backgroundThread"}
     /\ "thread" \in e.has
  \/ e.method = "thread/status/changed" /\ {"thread", "body"} \subseteq e.has
parseHookEvent(e) == {"thread", "body"} \subseteq e.has
HookNews(e) == e.method \in {"hook/started", "hook/completed"} /\ parseHookEvent(e)
TurnStarted(e) == e.method = "turn/started" /\ "thread" \in e.has
TurnNews(e) ==
  \/ e.method \in {"error", "turn/completed", "turn/plan/updated"} /\ "thread" \in e.has
  \/ e.method \in {"turn/diff/updated", "thread/tokenUsage/updated"} /\ {"thread", "body"} \subseteq e.has
AccountNews(e) ==
  \/ e.method = "account/rateLimits/updated" /\ "body" \in e.has
  \/ e.method \in {"account/updated", "account/login/completed"}
Connected(e) == e.method = "codex/connected"
Request(e) == (isApprovalRequestMethod(e.method) \/ e.method = "item/tool/requestUserInput") /\ "id" \in e.has
\* Whether its handler is called, and the other one of an agent's message.
Handled(e) ==
  \/ Connected(e) \/ Request(e)
  \/ /\ e.method \in Supported
     /\ \/ AgentMessageDelta(e) \/ TurnStarted(e) \/ HookNews(e) \/ ThreadEvents(e) \/ TurnNews(e)
        \/ AccountNews(e) \/ ItemNews(e) \/ Pieces(e) \/ Touches(e)

(***************************************************************************)
(* What is said, as it is kept.                                            *)
(***************************************************************************)
\* Steps without a text are left out, and a plan without steps and a note.
normalizePlanStepStatus(status) == IF status \in {"inProgress", "completed"} THEN status ELSE "pending"
normalizePlanUpdate(n, said) ==
  LET told == SelectSeq(said.steps, LAMBDA step : step.text)
      steps == [i \in DOMAIN told |-> normalizePlanStepStatus(told[i].status)] IN
  IF steps = <<>> /\ ~said.note THEN None ELSE [turn |-> n, note |-> said.note, steps |-> steps]

\* An update says of each part that it is nothing, what is new of it, something
\* else, or does not mention it.
Part(kind, val) == [kind |-> kind, val |-> val]
clampPercent(n) == IF n < 0 THEN 0 ELSE IF n > 100 THEN 100 ELSE n
Or(source, field, before) == IF field \in DOMAIN source THEN source[field] ELSE before
Of(before, field) == IF before = None THEN None ELSE before[field]
normalizeRateLimitWindow(source, before) ==
  LET used == IF "used" \in DOMAIN source THEN clampPercent(source.used)
              ELSE IF "remaining" \in DOMAIN source THEN clampPercent(100 - source.remaining)
              ELSE Of(before, "used") IN
  IF used = None THEN None ELSE [used |-> used, mins |-> Or(source, "mins", Of(before, "mins"))]
normalizeCreditsSnapshot(source, before) ==
  LET was == IF before = None THEN [has |-> FALSE, unlimited |-> FALSE, balance |-> None] ELSE before
      unlimited == Or(source, "unlimited", was.unlimited)
      inferred == \/ unlimited
                  \/ IF "balance" \in DOMAIN source THEN source.balance # None /\ source.balance > 0 ELSE was.has IN
  [has |-> Or(source, "has", inferred), unlimited |-> unlimited, balance |-> Or(source, "balance", was.balance)]
Merged(raw, part, before, normal) ==
  IF part \notin DOMAIN raw \/ raw[part].kind = "other" THEN before
  ELSE IF raw[part].kind = "null" THEN None ELSE normal
normalizeRateLimits(raw, before) ==
  LET Window(part) == Merged(raw, part, Of(before, part), normalizeRateLimitWindow(raw[part].val, Of(before, part))) IN
  [primary |-> Window("primary"),
   secondary |-> Window("secondary"),
   credits |-> Merged(raw, "credits", Of(before, "credits"),
                      normalizeCreditsSnapshot(raw["credits"].val, Of(before, "credits"))),
   planType |-> IF "planType" \in DOMAIN raw THEN raw["planType"].val ELSE Of(before, "planType")]
normalizeTokenUsage(raw) == IF raw = None THEN 0 ELSE raw

(***************************************************************************)
(* The handlers.  A thread that is not in the list is put there.           *)
(***************************************************************************)
ensureThread(s, t) ==
  IF t \in s.rows THEN s ELSE [s EXCEPT !.rows = @ \cup {t}, !.name[t] = None]
setThreadName(s, t, n) == IF t \in s.rows THEN [s EXCEPT !.name[t] = n] ELSE s

\* (A turn that is to be stopped as it starts is not known to run.)
OnTurnStarted(t) ==
  /\ Spend("turns") /\ log' = [log EXCEPT !.turns = @ + 1] /\ turn' = [turn EXCEPT ![t] = log.turns + 1]
  /\ state' = ensureThread(state, t) /\ UNCHANGED <<shown, custom>>
OnTurnPlanUpdated(t, n, said) ==
  /\ Spend("plans") /\ state' = [ensureThread(state, t) EXCEPT !.plan[t] = normalizePlanUpdate(n, said)]
  /\ log' = [log EXCEPT !.plan[t] = [turn |-> n, said |-> said], !.ends[t] = {}]
  /\ UNCHANGED <<shown, turn, custom>>
shouldClearCompletedPlan(plan, n) ==
  /\ plan # None /\ plan.steps # <<>> /\ n \in {None, plan.turn}
  /\ \A i \in DOMAIN plan.steps : plan.steps[i] = "completed"
OnTurnCompleted(t, n) ==
  /\ Spend("turns")
  /\ IF n # None /\ turn[t] # None /\ n # turn[t] THEN UNCHANGED <<state, turn, log>>
     ELSE /\ turn' = [turn EXCEPT ![t] = None]
          /\ state' = IF shouldClearCompletedPlan(shown.plan[t], n) THEN [state EXCEPT !.plan[t] = None] ELSE state
          /\ log' = [log EXCEPT !.ends[t] = @ \cup {n},
                                !.unseen = IF state.plan[t] # shown.plan[t] THEN @ \cup {t} ELSE @]
  /\ UNCHANGED <<shown, custom>>
OnThreadStatusChanged(t, status) ==
  /\ Spend("turns")
  /\ turn' = IF status \in {"idle", "notloaded", "systemerror"} THEN [turn EXCEPT ![t] = None] ELSE turn
  /\ UNCHANGED <<state, shown, custom, log>>
OnTurnDiffUpdated(t, diff) ==
  /\ Spend("plans") /\ state' = [ensureThread(state, t) EXCEPT !.diff[t] = diff]
  /\ UNCHANGED <<shown, turn, custom, log>>
OnThreadTokenUsageUpdated(t, raw) ==
  /\ Spend("plans") /\ state' = [ensureThread(state, t) EXCEPT !.usage[t] = normalizeTokenUsage(raw)]
  /\ UNCHANGED <<shown, turn, custom, log>>

\* A name that is only the thread's own id is no name.
OnThreadNameUpdated(t, n) ==
  /\ Spend("names") /\ state' = IF n = None \/ custom[t] # None THEN state ELSE setThreadName(state, t, n)
  /\ UNCHANGED <<shown, turn, custom, log>>
renameThread(t, n) ==
  /\ Spend("names") /\ t \in state.rows
  /\ custom' = [custom EXCEPT ![t] = n] /\ state' = setThreadName(state, t, n) /\ UNCHANGED <<shown, turn, log>>
removeThread(s, t) ==
  [s EXCEPT !.rows = @ \ {t}, !.name[t] = None, !.plan[t] = None, !.diff[t] = None, !.hook[t] = None]
OnThreadArchived(t) ==
  /\ Spend("names") /\ state' = removeThread(state, t)
  /\ log' = [log EXCEPT !.plan[t] = None, !.row[t] = None, !.archived = @ \cup {t}] /\ UNCHANGED <<shown, turn, custom>>
OnThreadUnarchived(t) ==
  LET back == ensureThread(state, t) IN
  /\ Spend("names") /\ state' = IF custom[t] = None THEN back ELSE setThreadName(back, t, custom[t])
  /\ log' = [log EXCEPT !.archived = @ \ {t}] /\ UNCHANGED <<shown, turn, custom>>

\* A hook has a row while it runs, if it has something to say, and when it ends
\* with something to say, otherwise than well, or with a row already.
upsertHookItem(t, status) == state' = [ensureThread(state, t) EXCEPT !.hook[t] = status]
onHookStarted(t, says) ==
  /\ Spend("hooks") /\ log.hook[t] = None
  /\ IF says THEN upsertHookItem(t, "running") ELSE UNCHANGED state
  /\ log' = [log EXCEPT !.hook[t] = "running", !.row[t] = IF says THEN "running" ELSE @]
  /\ UNCHANGED <<shown, turn, custom>>
shouldCreateVisibleCompletion(status, says) == status # "completed" \/ says
onHookCompleted(t, status, says) ==
  /\ Spend("hooks") /\ log.hook[t] = "running"
  /\ IF shown.hook[t] # None \/ shouldCreateVisibleCompletion(status, says)
     THEN upsertHookItem(t, status) ELSE UNCHANGED state
  /\ log' = [log EXCEPT !.hook[t] = status, !.row[t] = IF @ # None \/ says \/ status = "failed" THEN status ELSE @,
                        !.unseen = IF state.hook[t] # shown.hook[t] THEN @ \cup {t} ELSE @]
  /\ UNCHANGED <<shown, turn, custom>>

\* Limits come unasked, and as an answer.
Told(raw, part, told) ==
  IF part \notin DOMAIN raw \/ raw[part].kind = "other" THEN told
  ELSE IF raw[part].kind = "null" THEN <<>>
  ELSE LET said == raw[part].val
           rest == [f \in DOMAIN said \ {"remaining"} |-> IF f = "used" THEN clampPercent(said[f]) ELSE said[f]]
           all == rest @@ (IF "remaining" \in DOMAIN said THEN "used" :> clampPercent(100 - said.remaining) ELSE <<>>) @@ told
       IN IF part = "credits" \/ "used" \in DOMAIN all THEN all ELSE <<>>
OnAccountRateLimitsUpdated(w, raw) ==
  /\ Spend("limits") /\ state' = [state EXCEPT !.limits[w] = normalizeRateLimits(raw, shown.limits[w])]
  /\ log' = [log EXCEPT !.told[w] = [part \in DOMAIN @ |-> Told(raw, part, @[part])],
                        !.type[w] = IF "planType" \in DOMAIN raw THEN raw["planType"].val ELSE @,
                        !.unseen = IF state.limits[w] # shown.limits[w] THEN @ \cup {w} ELSE @]
  /\ UNCHANGED <<shown, turn, custom>>

\* Whatever else comes.
Fields == {"thread", "item", "body", "id"}
OnAppServerEvent(e) ==
  /\ Spend("others") /\ log' = [log EXCEPT !.event = e, !.handled = Handled(e)]
  /\ UNCHANGED <<state, shown, turn, custom>>
Render == shown # state /\ shown' = state /\ UNCHANGED <<state, turn, custom, log, left>>

----------------------------------------------------------------------------
Init ==
  LET nothing == [t \in Thread |-> None] IN
  /\ state = [rows |-> Thread, name |-> nothing, plan |-> nothing, diff |-> nothing, usage |-> nothing,
              hook |-> nothing, \* the row of the hook
              limits |-> [w \in Workspace |-> None]]
  /\ shown = state /\ turn = nothing /\ custom = nothing
  /\ log = [turns |-> 0,
            plan |-> nothing,   \* what was last said of the plan
            ends |-> [t \in Thread |-> {}], \* and the turns that ended since
            hook |-> nothing,   \* how the hook of a thread goes on
            row |-> nothing,    \* and the row it should have
            told |-> [w \in Workspace |-> [part \in {"primary", "secondary", "credits"} |-> <<>>]], \* of the limits
            type |-> [w \in Workspace |-> None],
            archived |-> {},
            unseen |-> {},      \* threads and workspaces of which something came before
                                \* what it goes on from was rendered
            event |-> None, handled |-> FALSE] \* the last of the other events
  /\ left \in Budgets

Next ==
  \/ Render
  \/ \E t \in Thread :
       \/ OnTurnStarted(t) \/ OnThreadArchived(t) \/ OnThreadUnarchived(t)
       \/ \E n \in 1..log.turns :
            \/ \E said \in Plans : OnTurnPlanUpdated(t, n, said)
            \/ OnTurnCompleted(t, n)
       \/ OnTurnCompleted(t, None)
       \/ \E status \in {"active", "idle"} : OnThreadStatusChanged(t, status)
       \/ \E diff \in Diffs : OnTurnDiffUpdated(t, diff)
       \/ \E raw \in {None, 1} : OnThreadTokenUsageUpdated(t, raw)
       \/ \E n \in Name : renameThread(t, n)
       \/ \E n \in Name \cup {None} : OnThreadNameUpdated(t, n)
       \/ \E says \in BOOLEAN :
            \/ onHookStarted(t, says)
            \/ \E status \in {"completed", "failed"} : onHookCompleted(t, status, says)
  \/ \E w \in Workspace, raw \in Limits : OnAccountRateLimitsUpdated(w, raw)
  \/ \E m \in Supported \cup {"item/fileChange/requestApproval", "codex/stderr"}, has \in SUBSET Fields :
       OnAppServerEvent(Event(m, has))

Spec == Init /\ [][Next]_vars

----------------------------------------------------------------------------
\* A plan is shown from when something is said of it until the turn it is of
\* ends with every step done, when what it goes on from was rendered.
PlanIsAsSaid ==
  \A t \in Thread \ log.unseen :
    LET last == log.plan[t]
        steps == {last.said.steps[i] : i \in {j \in DOMAIN last.said.steps : last.said.steps[j].text}}
        over == /\ steps # {} /\ \A step \in steps : step.status = "completed"
                /\ \E n \in log.ends[t] : n \in {None, last.turn} IN
    IF last = None THEN state.plan[t] = None
    ELSE /\ state.plan[t] # None <=> (steps # {} \/ last.said.note) /\ ~over
         /\ state.plan[t] # None => state.plan[t].turn = last.turn

\* A hook that has something to say, or goes wrong, has a row, that says how it
\* goes on, likewise.
HookRowIsRight == \A t \in Thread \ log.unseen : state.hook[t] = log.row[t]

\* The limits are what was last told of each of their parts, and there are
\* credits when that is told or follows, likewise.
LimitsAreAsTold ==
  \A w \in Workspace \ log.unseen :
    LET now == state.limits[w] IN
    now # None =>
      /\ now.planType = log.type[w]
      /\ \A part \in {"primary", "secondary"} :
           LET told == log.told[w][part] IN
           IF told = <<>> THEN now[part] = None
           ELSE now[part] # None /\ now[part].used = told.used /\ now[part].mins = Or(told, "mins", None)
      /\ LET told == log.told[w]["credits"]
             has == told # <<>> /\ IF "has" \in DOMAIN told THEN told.has
                                   ELSE Or(told, "unlimited", FALSE) \/ Or(told, "balance", None) \notin {None, 0} IN
         has => now.credits # None /\ now.credits.has

\* The name the user gave a thread stays, but for a thread that is archived and
\* that late news bring back.
NameIsTheUsers ==
  \A t \in state.rows \ log.archived : custom[t] # None => state.name[t] = custom[t]

\* What says all it may is handed on, but for what is of others; what does not
\* say which thread or request it is of is not.
NothingIsUnheard ==
  log.event # None /\ log.event.has = Fields =>
    (log.handled <=> log.event.method \in Routed \/ isApprovalRequestMethod(log.event.method))
NothingIsGuessed ==
  log.event # None /\ log.handled =>
    \/ log.event.method \in {"codex/connected", "thread/started"}
    \/ log.event.method \in {"account/login/completed", "account/rateLimits/updated", "account/updated"}
    \/ "thread" \in log.event.has
    \/ /\ isApprovalRequestMethod(log.event.method) \/ log.event.method = "item/tool/requestUserInput"
       /\ "id" \in log.event.has
=============================================================================
