------------------------------- MODULE MCFront -------------------------------
(***************************************************************************)
(* Small instances of the parts of the front end that are modelled apart.  *)
(* Each has its own state and touches no other's, so one behaviour looks   *)
(* at one part: `focus' says which, and the variables hold the state of    *)
(* that part and nothing more.                                             *)
(***************************************************************************)
EXTENDS Naturals, TLC

CONSTANT None, Absent, Unset

VARIABLES
  focus,
  s1, s2, s3, s4, s5, s6, s7, s8, s9, s10, s11, s12

\* Every hook of PanelData, over two subjects.
DataHooks ==
  {"log", "commit", "issues", "pulls", "pullDiffs", "pullComments", "remote", "scan", "diffs",
   "status", "usage", "defaults", "branches", "skills", "models", "prompts", "modes", "files", "apps"}
Panel == INSTANCE PanelData WITH
  Subject <- {"a", "b"}, Size <- [s \in {"a", "b"} |-> 1], Hooks <- DataHooks,
  MaxFlight <- 2, MaxVersion <- 2, MaxMoves <- 3, MaxFaults <- 1, hook <- s1, want <- s2,
  ran <- s3, shown <- s4, flight <- s5, busy <- s6, fetched <- s7, kept <- s8, apps <- s9,
  world <- s10, left <- s11, best <- s12

\* Every form, with two subjects to edit.
FormBudgets ==
  LET B(s, z, t, c, h, f) ==
        [switches |-> s, zooms |-> z, types |-> t, commits |-> c, choices |-> h, fails |-> f] IN
  {B(0, 0, 2, 2, 2, 1), B(1, 1, 1, 1, 1, 1), B(2, 2, 0, 0, 0, 1)}
Forms == INSTANCE SettingsForms WITH
  Subject <- {"a", "b"}, Main <- "a",
  Forms <- {"remote", "apps", "codex", "groups", "environments"}, MaxTexts <- 2,
  MaxQueue <- 3, Budgets <- FormBudgets, form <- s1, settings <- s2, stored <- s3,
  queue <- s4, loading <- s5, draft <- s6, base <- s7, pick <- s8, save <- s9,
  behind <- s10, left <- s11

\* A workspace and a new worktree.
TerminalBudgets ==
  LET B(m, r, p, t, l, s, e, f) ==
        [moves |-> m, refreshes |-> r, panels |-> p, tabs |-> t, launches |-> l, setups |-> s, ends |-> e, fails |-> f] IN
  {B(2, 0, 1, 0, 1, 0, 0, 0), B(0, 0, 1, 2, 1, 0, 0, 0), B(0, 1, 0, 0, 2, 0, 0, 0),
   B(1, 0, 0, 0, 0, 1, 0, 1), B(0, 0, 1, 1, 0, 0, 1, 1)}
Terminal == INSTANCE TerminalPanel WITH
  Workspace <- {"w1", "w2"}, First <- "w1", Tree <- "w2", MaxTabs <- 2, MaxCalls <- 3,
  MaxRuns <- 2, Budgets <- TerminalBudgets, ui <- s1, shells <- s2, calls <- s3,
  exits <- s4, log <- s5, left <- s6

\* Messages of two tokens, in a list of three rows.
ItemBudgets ==
  LET B(u, a, t, p, c, e, r, s) ==
        [user |-> u, agent |-> a, think |-> t, plan |-> p, command |-> c, edit |-> e, review |-> r, resume |-> s] IN
  {B(0, 0, 0, 0, 3, 0, 0, 0), B(0, 1, 0, 0, 2, 0, 0, 1), B(1, 1, 0, 0, 0, 0, 0, 1),
   B(0, 1, 1, 0, 0, 0, 0, 1), B(0, 1, 0, 0, 1, 0, 1, 0), B(0, 1, 0, 1, 0, 1, 0, 0)}
Items == INSTANCE ThreadItems WITH
  Texts <- {<<"a", "a">>, <<"a", "b">>}, Plain <- <<"a">>, MaxItems <- 4, MaxWire <- 2,
  MaxOpen <- 3, Limit <- 3, Budgets <- ItemBudgets, items <- s1, wire <- s2, rows <- s3,
  asked <- s4, overtaken <- s5, left <- s6

\* A workspace and a worktree.
PromptBudgets ==
  LET B(m, o, e, x, c, p, f, a, d) ==
        [moves |-> m, opens |-> o, edits |-> e, closes |-> x, confirms |-> c, picks |-> p, fails |-> f, asks |-> a, drops |-> d] IN
  {B(0, 2, 1, 0, 2, 0, 1, 0, 0), B(1, 2, 1, 1, 1, 0, 0, 0, 0),
   B(0, 1, 1, 0, 1, 1, 1, 0, 0), B(0, 1, 1, 1, 1, 0, 0, 2, 2)}
Prompts == INSTANCE WorkspacePrompts WITH
  Workspace <- {"w", "t"}, First <- "t", Trees <- {"t"}, Text <- {"", "a", "b"},
  Budgets <- PromptBudgets, active <- s1, prompt <- s2, jobs <- s3, paths <- s4,
  drops <- s5, backend <- s6, log <- s7, left <- s8

\* Two repositories, or folders still to be made one.
GitBudgets ==
  LET B(m, p, t, c, o, f) ==
        [moves |-> m, presses |-> p, types |-> t, changes |-> c, opens |-> o, fails |-> f] IN
  {B(2, 1, 1, 0, 0, 0), B(1, 2, 1, 0, 0, 0), B(1, 1, 0, 0, 2, 0), B(0, 2, 0, 0, 1, 1),
   B(1, 1, 0, 1, 1, 1)}
Git == INSTANCE GitActions WITH
  Workspace <- {"w", "v"}, First <- "w", Budgets <- GitBudgets, ws <- s1, box <- s2,
  panel <- s3, repo <- s4, jobs <- s5, log <- s6, left <- s7

\* Two workspaces with two changed files each, and commits and pull requests to look at.
DiffBudgets ==
  LET B(m, c, s, e, f) == [moves |-> m, clicks |-> c, starts |-> s, edits |-> e, fails |-> f] IN
  {B(1, 3, 0, 0, 0), B(0, 3, 0, 1, 0), B(1, 2, 1, 0, 0), B(1, 1, 0, 0, 2),
   B(0, 1, 2, 1, 0), B(0, 2, 2, 0, 0)}
Diffs_ == INSTANCE DiffPanel WITH
  Workspaces <- <<"w", "v">>, First <- "w", Files <- <<"f", "g">>, Budgets <- DiffBudgets,
  ui <- s1, repo <- s2, failing <- s3, jobs <- s4, log <- s5, left <- s6

\* Two threads of two workspaces, and the draft of a new agent.
ComposerBudgets ==
  LET B(m, t, s, i, u, p, d, c, f) ==
        [moves |-> m, types |-> t, sends |-> s, images |-> i, turns |-> u, prefills |-> p, talks |-> d, choices |-> c, fails |-> f] IN
  {B(2, 2, 1, 0, 0, 0, 0, 0, 0), B(1, 1, 1, 2, 0, 0, 0, 0, 0),
   B(0, 2, 2, 1, 1, 0, 0, 0, 1), B(2, 1, 0, 0, 0, 1, 1, 0, 0),
   B(1, 2, 2, 0, 0, 0, 0, 3, 0), B(1, 3, 2, 0, 0, 0, 0, 0, 0)}
Composer == INSTANCE Composer WITH
  Owner <- [t |-> "w", u |-> "v", draft |-> "w"], Draft <- "draft", First <- "t",
  MaxText <- 2, Budgets <- ComposerBudgets, at <- s1, area <- s2, drafts <- s3,
  images <- s4, queue <- s5, recall <- s6, prompt <- s7, state <- s8, jobs <- s9,
  sent <- s10, left <- s11

\* Three threads of two workspaces, one of them started meanwhile; two values of each option, and every sequence of up to three tokens as arguments.
OptionBudgets ==
  LET B(m, p, s, f, d, r, a) ==
        [moves |-> m, picks |-> p, sends |-> s, fasts |-> f, detections |-> d, restarts |-> r, tokens |-> a] IN
  {B(3, 2, 0, 0, 0, 0, 0), B(2, 1, 1, 0, 0, 0, 0), B(1, 1, 1, 0, 1, 0, 0),
   B(2, 1, 0, 0, 0, 1, 0), B(3, 0, 1, 2, 0, 0, 0), B(0, 1, 0, 0, 0, 0, 3),
   B(0, 1, 1, 0, 0, 0, 2)}
Options_ == INSTANCE ThreadOptions WITH
  Owner <- [t |-> "w", n |-> "w", u |-> "v"], NewThread <- "n", Draft <- "draft",
  Menu <- {"v1", "v2"}, Budgets <- OptionBudgets, Absent <- Absent, Unset <- Unset,
  Null <- None, opt <- s1, ui <- s2, thread <- s3, alive <- s4, starting <- s5,
  typing <- s6, running <- s7, picks <- s8, shown <- s9, budget <- s10

\* A thread and a subagent, of two workspaces, and a window that is looked at or not.
AttentionBudgets ==
  LET B(a, p, s, u, m, t, l, o, v, f) ==
        [asks |-> a, plans |-> p, settings |-> s, turns |-> u, messages |-> m, ticks |-> t, links |-> l, loads |-> o, moves |-> v, fails |-> f] IN
  {B(3, 0, 0, 0, 0, 0, 0, 0, 1, 0), B(1, 1, 1, 0, 0, 0, 0, 0, 1, 0),
   B(0, 2, 0, 0, 0, 0, 0, 0, 1, 0), B(0, 0, 0, 2, 1, 2, 0, 0, 0, 0),
   B(0, 0, 0, 1, 0, 2, 0, 1, 1, 1), B(0, 0, 0, 0, 0, 1, 2, 1, 1, 1)}
Attention_ == INSTANCE Attention WITH
  Owner <- [t |-> "w", s |-> "v"], Subagents <- {"s"}, Ids <- {1, 2}, Missing <- {},
  Nothing <- None, Budgets <- AttentionBudgets, view <- s1, asks <- s2, notes <- s3,
  turns <- s4, watch <- s5, link <- s6, told <- s7, budget <- s8

\* An app that updates itself up to twice.
UpdateBudgets ==
  LET B(s, m, p, e, q, r, f) ==
        [subscriptions |-> s, menus |-> m, presses |-> p, effects |-> e, quits |-> q, releases |-> r, fails |-> f] IN
  {B(3, 1, 0, 0, 0, 0, 1), B(1, 2, 1, 0, 0, 1, 0), B(0, 0, 2, 1, 1, 1, 1),
   B(0, 0, 2, 2, 0, 1, 0), B(0, 0, 3, 0, 0, 2, 0)}
Updates_ == INSTANCE Updates WITH
  Nothing <- None, MaxVersion <- 3, Budgets <- UpdateBudgets, hub <- s1, heard <- s2,
  hook <- s3, release <- s4, notice <- s5, kept <- s6, budget <- s7

\* A workspace and a worktree of it, with two models to run agents on.
HomeBudgets ==
  LET B(m, t, i, c, r, o, f) ==
        [moves |-> m, types |-> t, images |-> i, choices |-> c, runs |-> r, offers |-> o, fails |-> f] IN
  {B(2, 2, 0, 0, 2, 0, 1), B(2, 0, 2, 0, 1, 0, 1), B(1, 1, 0, 3, 1, 0, 1),
   B(0, 2, 0, 2, 2, 0, 1), B(0, 1, 0, 2, 1, 1, 1), B(1, 0, 2, 2, 1, 0, 0)}
Home_ == INSTANCE WorkspaceHome WITH
  Workspace <- {"w", "v"}, First <- "w", Trees <- {"v"}, Model <- {"m", "n"},
  Nothing <- None, MaxCount <- 2, Budgets <- HomeBudgets, at <- s1, home <- s2, image <- s3,
  past <- s4, list <- s5, jobs <- s6, log <- s7, left <- s8

\* Two agents, and a name for a third.
AgentBudgets ==
  LET B(c, t, m, f) == [calls |-> c, types |-> t, moves |-> m, fails |-> f] IN
  {B(2, 1, 2, 0), B(2, 0, 1, 1), B(3, 0, 1, 0)}
Agents_ == INSTANCE AgentSettings WITH
  Name <- {"x", "y", "z"}, Agents <- {"x", "y"}, MaxThreads <- 3, Budgets <- AgentBudgets,
  stored <- s1, shown <- s2, edit <- s3, create <- s4, editor <- s5, flags <- s6,
  jobs <- s7, ids <- s8, left <- s9

\* Three files, one of them a picture, in a folder and one more.
TreeLines == (<<"d", "e", "f">> :> 0) @@ (<<"d", "g">> :> 2) @@ (<<"h">> :> 1)
TreeBudgets ==
  LET B(m, n, i, c, p, a, f) ==
        [moves |-> m, news |-> n, filters |-> i, clicks |-> c, points |-> p, inserts |-> a, fails |-> f] IN
  {B(1, 1, 0, 2, 2, 1, 1), B(0, 1, 0, 1, 4, 1, 0), B(0, 2, 2, 1, 0, 0, 0),
   B(1, 2, 0, 2, 0, 1, 0)}
Tree_ == INSTANCE FileTree WITH
  Workspace <- {"w", "v"}, First <- "w", Path <- DOMAIN TreeLines,
  Images <- {<<"d", "e", "f">>}, Lines <- TreeLines, Query <- {"e", "g"},
  Budgets <- TreeBudgets, ws <- s1, given <- s2, tree <- s3, preview <- s4, reading <- s5,
  log <- s6, left <- s7

\* A prompt of a workspace, one of the user, and another workspace; one says a word, a named and an escaped placeholder, the other takes numbered arguments.
Said(v) == [kind |-> "word", val |-> <<None, v>>]
Token(k, v) == [kind |-> k, val |-> v]
Named == <<Said("a"), Token("named", "N"), Token("escaped", "M")>>
Numbered == <<Token("numbered", 2), Token("all", 0)>>
Typed ==
  LET A(k, v) == [key |-> k, val |-> v] IN {<<A("N", "x")>>, <<A("N", "y"), A("N", "x")>>, <<A(None, "x")>>}
CustomBudgets ==
  LET B(m, o, t, s, a, n, f) ==
        [moves |-> m, opens |-> o, types |-> t, saves |-> s, args |-> a, sends |-> n, fails |-> f] IN
  {B(1, 1, 1, 2, 0, 0, 0), B(0, 2, 1, 2, 0, 0, 1), B(0, 0, 0, 0, 2, 2, 0),
   B(2, 0, 0, 1, 0, 0, 1)}
Custom == INSTANCE CustomPrompts WITH
  Workspace <- {"w", "v"}, First <- "w", Name <- {"p", "q"},
  Content <- {<<Said("a")>>, Named, Numbered}, Arguments <- Typed,
  Files <- (<<"w", "p">> :> Named) @@ (<<"global", "q">> :> Numbered),
  Budgets <- CustomBudgets, ws <- s1, stored <- s2, given <- s3, editor <- s4, panel <- s5,
  jobs <- s6, log <- s7, left <- s8

\* The account shown at home, of two workspaces.
AccountBudgets ==
  LET B(c, h, n, w, d, t, l, r) ==
        [choices |-> c, homes |-> h, connections |-> n, workspaces |-> w, data |-> d, threads |-> t, lists |-> l, reads |-> r] IN
  {B(2, 1, 0, 1, 0, 0, 0, 0), B(1, 0, 1, 0, 1, 0, 0, 0), B(0, 0, 1, 0, 2, 1, 1, 0),
   B(0, 1, 1, 0, 0, 0, 0, 1), B(0, 0, 1, 0, 2, 0, 2, 0)}
Account_ == INSTANCE HomeAccount WITH
  Order <- <<"w", "v">>, MaxTime <- 1, Budgets <- AccountBudgets, given <- s1, sel <- s2,
  calls <- s3, asked <- s4, left <- s5

\* Two workspaces whose account is switched.
LoginBudgets ==
  LET B(m, p, c, f) == [moves |-> m, presses |-> p, cancels |-> c, fails |-> f] IN
  {B(1, 1, 1, 1), B(0, 2, 1, 1), B(2, 2, 0, 0), B(1, 2, 0, 1), B(1, 2, 1, 0)}
Login == INSTANCE AccountLogin WITH
  Workspace <- {"w", "v"}, First <- "w", Budgets <- LoginBudgets, active <- s1, hook <- s2,
  jobs <- s3, cancels <- s4, server <- s5, wire <- s6, log <- s7, left <- s8

\* A phone that knows two servers and has a name for a third.
Server(n, name, host) == [id |-> n, name |-> name, host |-> host, token |-> "token"]
ServerBudgets ==
  LET B(l, e, a, t, s, c, f) ==
        [lists |-> l, edits |-> e, adds |-> a, tests |-> t, setups |-> s, closes |-> c, fails |-> f] IN
  {B(2, 0, 0, 0, 0, 0, 1), B(1, 1, 0, 0, 0, 0, 0), B(1, 0, 1, 0, 0, 0, 0),
   B(0, 0, 1, 0, 0, 0, 3), B(0, 0, 1, 0, 1, 0, 1), B(0, 0, 0, 1, 1, 0, 1),
   B(0, 1, 0, 0, 1, 1, 1), B(1, 0, 0, 0, 1, 0, 1)}
Servers_ == INSTANCE RemoteServers WITH
  Name <- {"x", "y", "z"}, Host <- {"h", "g"},
  Known <- <<Server(1, "x", "h"), Server(2, "y", "g")>>, Budgets <- ServerBudgets,
  settings <- s1, stored <- s2, queue <- s3, jobs <- s4, ui <- s5, log <- s6, left <- s7

\* A model for dictation that is there and one that is not.
DictationBudgets ==
  LET B(k, c, m, f) == [keys |-> k, clicks |-> c, models |-> m, fails |-> f] IN
  {B(2, 0, 0, 1), B(1, 1, 0, 1), B(0, 3, 0, 0), B(1, 2, 0, 0), B(0, 0, 3, 0),
   B(0, 0, 2, 1), B(0, 1, 2, 0)}
Dictation_ == INSTANCE Dictation WITH
  Model <- {"a", "b"}, First <- "a", Files <- {"a"}, Budgets <- DictationBudgets, app <- s1,
  mic <- s2, models <- s3, calls <- s4, events <- s5, log <- s6, left <- s7

\* Two threads and two workspaces of which an agent has news.
PlanSaid(note, steps) == [note |-> note, steps |-> steps]
PlanStep(text, status) == [text |-> text, status |-> status]
NewsPlans ==
  {PlanSaid(FALSE, <<>>), PlanSaid(TRUE, <<>>), PlanSaid(TRUE, <<PlanStep(TRUE, "other")>>),
   PlanSaid(FALSE, <<PlanStep(TRUE, "completed"), PlanStep(FALSE, "other")>>),
   PlanSaid(FALSE, <<PlanStep(TRUE, "inProgress"), PlanStep(TRUE, "completed")>>)}
NewsOf(part, kind, val) == part :> [kind |-> kind, val |-> val]
NewsLimits ==
  {NewsOf("primary", "object", "used" :> 120 @@ "mins" :> 5), NewsOf("primary", "object", "remaining" :> 130),
   NewsOf("primary", "object", "mins" :> 7), NewsOf("credits", "object", "unlimited" :> TRUE),
   NewsOf("credits", "object", "has" :> FALSE @@ "balance" :> 3), NewsOf("credits", "null", None),
   NewsOf("credits", "object", "unlimited" :> FALSE @@ "balance" :> None),
   NewsOf("primary", "null", None) @@ NewsOf("secondary", "object", "remaining" :> 40),
   NewsOf("primary", "other", None) @@ NewsOf("planType", "text", "pro"),
   NewsOf("planType", "null", None) @@ NewsOf("credits", "object", "balance" :> 3)}
NewsBudgets ==
  LET B(p, t, n, h, l, o) ==
        [plans |-> p, turns |-> t, names |-> n, hooks |-> h, limits |-> l, others |-> o] IN
  {B(2, 2, 0, 0, 0, 0), B(1, 2, 1, 0, 0, 0), B(1, 3, 0, 0, 0, 0), B(1, 0, 3, 0, 0, 0),
   B(0, 0, 1, 2, 0, 0), B(0, 1, 0, 2, 0, 0), B(0, 0, 0, 0, 3, 0), B(0, 0, 0, 0, 0, 1)}
News_ == INSTANCE ThreadNews WITH
  Workspace <- {"w", "v"}, Thread <- {"t", "u"}, Name <- {"x", "y"}, Plans <- NewsPlans,
  Limits <- NewsLimits, Diffs <- {"d"}, Budgets <- NewsBudgets, state <- s1, shown <- s2,
  turn <- s3, custom <- s4, log <- s5, left <- s6

----------------------------------------------------------------------------
vars == <<focus, s1, s2, s3, s4, s5, s6, s7, s8, s9, s10, s11, s12>>
Unused == "unused"

Init ==
  \/ focus = "panel" /\ Panel!Init
  \/ focus = "forms" /\ Forms!Init /\ s12 = Unused
  \/ focus = "terminal" /\ Terminal!Init /\ s7 = Unused /\ s8 = Unused /\ s9 = Unused /\ s10 = Unused /\ s11 = Unused /\ s12 = Unused
  \/ focus = "items" /\ Items!Init /\ s7 = Unused /\ s8 = Unused /\ s9 = Unused /\ s10 = Unused /\ s11 = Unused /\ s12 = Unused
  \/ focus = "prompts" /\ Prompts!Init /\ s9 = Unused /\ s10 = Unused /\ s11 = Unused /\ s12 = Unused
  \/ focus = "git" /\ Git!Init /\ s8 = Unused /\ s9 = Unused /\ s10 = Unused /\ s11 = Unused /\ s12 = Unused
  \/ focus = "diffs" /\ Diffs_!Init /\ s7 = Unused /\ s8 = Unused /\ s9 = Unused /\ s10 = Unused /\ s11 = Unused /\ s12 = Unused
  \/ focus = "composer" /\ Composer!Init /\ s12 = Unused
  \/ focus = "options" /\ Options_!Init /\ s11 = Unused /\ s12 = Unused
  \/ focus = "attention" /\ Attention_!Init /\ s9 = Unused /\ s10 = Unused /\ s11 = Unused /\ s12 = Unused
  \/ focus = "updates" /\ Updates_!Init /\ s8 = Unused /\ s9 = Unused /\ s10 = Unused /\ s11 = Unused /\ s12 = Unused
  \/ focus = "home" /\ Home_!Init /\ s9 = Unused /\ s10 = Unused /\ s11 = Unused /\ s12 = Unused
  \/ focus = "agents" /\ Agents_!Init /\ s10 = Unused /\ s11 = Unused /\ s12 = Unused
  \/ focus = "tree" /\ Tree_!Init /\ s8 = Unused /\ s9 = Unused /\ s10 = Unused /\ s11 = Unused /\ s12 = Unused
  \/ focus = "custom" /\ Custom!Init /\ s9 = Unused /\ s10 = Unused /\ s11 = Unused /\ s12 = Unused
  \/ focus = "account" /\ Account_!Init /\ s6 = Unused /\ s7 = Unused /\ s8 = Unused /\ s9 = Unused /\ s10 = Unused /\ s11 = Unused /\ s12 = Unused
  \/ focus = "login" /\ Login!Init /\ s9 = Unused /\ s10 = Unused /\ s11 = Unused /\ s12 = Unused
  \/ focus = "servers" /\ Servers_!Init /\ s8 = Unused /\ s9 = Unused /\ s10 = Unused /\ s11 = Unused /\ s12 = Unused
  \/ focus = "dictation" /\ Dictation_!Init /\ s8 = Unused /\ s9 = Unused /\ s10 = Unused /\ s11 = Unused /\ s12 = Unused
  \/ focus = "news" /\ News_!Init /\ s7 = Unused /\ s8 = Unused /\ s9 = Unused /\ s10 = Unused /\ s11 = Unused /\ s12 = Unused

Next ==
  \/ focus = "panel" /\ Panel!Next /\ UNCHANGED <<focus>>
  \/ focus = "forms" /\ Forms!Next /\ UNCHANGED <<focus, s12>>
  \/ focus = "terminal" /\ Terminal!Next /\ UNCHANGED <<focus, s7, s8, s9, s10, s11, s12>>
  \/ focus = "items" /\ Items!Next /\ UNCHANGED <<focus, s7, s8, s9, s10, s11, s12>>
  \/ focus = "prompts" /\ Prompts!Next /\ UNCHANGED <<focus, s9, s10, s11, s12>>
  \/ focus = "git" /\ Git!Next /\ UNCHANGED <<focus, s8, s9, s10, s11, s12>>
  \/ focus = "diffs" /\ Diffs_!Next /\ UNCHANGED <<focus, s7, s8, s9, s10, s11, s12>>
  \/ focus = "composer" /\ Composer!Next /\ UNCHANGED <<focus, s12>>
  \/ focus = "options" /\ Options_!Next /\ UNCHANGED <<focus, s11, s12>>
  \/ focus = "attention" /\ Attention_!Next /\ UNCHANGED <<focus, s9, s10, s11, s12>>
  \/ focus = "updates" /\ Updates_!Next /\ UNCHANGED <<focus, s8, s9, s10, s11, s12>>
  \/ focus = "home" /\ Home_!Next /\ UNCHANGED <<focus, s9, s10, s11, s12>>
  \/ focus = "agents" /\ Agents_!Next /\ UNCHANGED <<focus, s10, s11, s12>>
  \/ focus = "tree" /\ Tree_!Next /\ UNCHANGED <<focus, s8, s9, s10, s11, s12>>
  \/ focus = "custom" /\ Custom!Next /\ UNCHANGED <<focus, s9, s10, s11, s12>>
  \/ focus = "account" /\ Account_!Next /\ UNCHANGED <<focus, s6, s7, s8, s9, s10, s11, s12>>
  \/ focus = "login" /\ Login!Next /\ UNCHANGED <<focus, s9, s10, s11, s12>>
  \/ focus = "servers" /\ Servers_!Next /\ UNCHANGED <<focus, s8, s9, s10, s11, s12>>
  \/ focus = "dictation" /\ Dictation_!Next /\ UNCHANGED <<focus, s8, s9, s10, s11, s12>>
  \/ focus = "news" /\ News_!Next /\ UNCHANGED <<focus, s7, s8, s9, s10, s11, s12>>

Spec == Init /\ [][Next]_vars

----------------------------------------------------------------------------
\* What is on screen is of what is selected, and so: no hook shows data of a subject
\* that was left (panel), the git panel no news of another workspace (git), a form no text
\* typed for another subject and no setting that was never stored (forms, agents), the
\* viewer, the panel and the composer of the diffs are about one change and a new error is
\* not hidden by an old dismissal (diffs); the composer's text and review prompt (composer),
\* a thread's options (options), the home of a workspace (home), a file's preview (tree),
\* the account (account) and the indicator of a login (login) are those of what is shown;
\* an update that is offered is there (updates), the server in use is one of the list
\* (servers), a name is the user's and no event is shown of a thread it does not name
\* (news), and dictation shows the state it is in (dictation).
OnScreenIsOwn ==
  /\ focus = "panel" => Panel!ShownIsOfTheSubject
  /\ focus = "git" => Git!NewsOfThisWorkspace
  /\ focus = "forms" => Forms!TypedForIt /\ Forms!ShownIsStored
  /\ focus = "diffs" => Diffs_!OneSubject /\ Diffs_!NewErrorsShow
  /\ focus = "composer" => Composer!OwnText /\ Composer!PromptIsHere
  /\ focus = "options" => Options_!OwnOption
  /\ focus = "updates" => Updates_!OffersAnUpdate
  /\ focus = "home" => Home_!HomesAreApart
  /\ focus = "agents" => Agents_!FormsAreApart /\ Agents_!LimitIsSettled
  /\ focus = "tree" => Tree_!PreviewIsOfItsFile
  /\ focus = "account" => Account_!BestIsShown
  /\ focus = "login" => Login!IndicatorIsHere
  /\ focus = "servers" => Servers_!ServersAreConsistent
  /\ focus = "dictation" => Dictation_!ShownIsSo
  /\ focus = "news" => News_!NameIsTheUsers /\ News_!NothingIsGuessed

\* What was asked is done once, where it was asked and in its order, and what was said
\* is told.  Asked: a launch script (terminal), the answer of a dialog (prompts), the steps
\* of a git operation (git), a jump, a discard, a review (diffs), what is sent from the
\* composer (composer), the start of an agent with the options shown (options), the thread
\* of a notice (attention), a run (home), an agent's settings (agents), lines put into the
\* composer (tree), a prompt kept and filled in (custom), the account read when shown
\* (account), a login followed or cancelled (login), a server added and checked (servers);
\* a microphone that listens only for its session, stops with its key, and inserts only
\* what was wanted, a download that ends when cancelled, a failure that is told
\* (dictation).  Said: a thread's rows (items), requests, ends of turns and plans, none
\* left untold (attention), an event heard once, what is new (updates), a plan, hooks and
\* limits (news).
DoneAsAsked ==
  /\ focus = "terminal" => Terminal!LaunchedWhereAsked
  /\ focus = "prompts" => Prompts!DoneOnce
  /\ focus = "git" => Git!InOrder
  /\ focus = "items" => Items!ShownIsSaid
  /\ focus = "diffs" => Diffs_!OneJumpPerChoice /\ Diffs_!DiscardedAsConfirmed /\ Diffs_!OneReview
  /\ focus = "composer" => Composer!SentFromHere
  /\ focus = "options" => Options_!StartsAsShown /\ Options_!RuntimeArgs
  /\ focus = "attention" => Attention_!ToldRightly /\ Attention_!SaysWhatEnded /\ Attention_!LongTurnsAreTold /\ Attention_!NothingUntold /\ Attention_!LinkIsFollowed
  /\ focus = "updates" => Updates_!HeardOnce /\ Updates_!SaysWhatIsNew
  /\ focus = "home" => Home_!RunSaysWhatRan
  /\ focus = "agents" => Agents_!SentWhenChanged
  /\ focus = "tree" => Tree_!InsertedIsOfTheFile
  /\ focus = "custom" => Custom!NoPromptIsLost /\ Custom!SentIsFilled
  /\ focus = "account" => Account_!AskedWhenShown
  /\ focus = "login" => Login!LoginIsFollowed /\ Login!LoginCanBeCancelled
  /\ focus = "servers" => Servers_!ServersAreAsAsked /\ Servers_!ReadyIsReached
  /\ focus = "dictation" => Dictation_!MicIsHeld /\ Dictation_!KeyStopsIt /\ Dictation_!CancelEndsDownload /\ Dictation_!TextIsWanted /\ Dictation_!FailureIsTold
  /\ focus = "news" => News_!PlanIsAsSaid /\ News_!HookRowIsRight /\ News_!LimitsAreAsTold /\ News_!NothingIsUnheard

\* What says it is busy waits for something: a dialog (prompts), a check for updates
\* (updates), a submission (home), a button (agents, servers), a preview that loads
\* (tree), a save (custom), a login (login), a transcription (dictation).
BusyMeansWaiting ==
  /\ focus = "prompts" => Prompts!WaitsForSomething
  /\ focus = "updates" => Updates_!WaitsForSomething
  /\ focus = "home" => Home_!SubmittingIsARun
  /\ focus = "agents" => Agents_!BusyIsUnderWay
  /\ focus = "tree" => Tree_!LoadingIsReading
  /\ focus = "custom" => Custom!SavingIsUnderWay
  /\ focus = "login" => Login!SwitchingIsALogin
  /\ focus = "servers" => Servers_!ServersAreUnderWay
  /\ focus = "dictation" => Dictation_!ProcessingIsUnderWay

\* A late answer replaces no newer news (see PanelData), and lists that are read
\* again move no account that is shown (see HomeAccount).
NewsNeverGoBack == [][(focus = "panel" => Panel!NewsStep) /\ (focus = "account" => Account_!StaysStep)]_vars
=============================================================================
