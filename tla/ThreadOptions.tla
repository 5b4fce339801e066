--------------------------- MODULE ThreadOptions ---------------------------
(* The options an agent is sent with: model, effort, service tier,          *)
(* collaboration mode, access mode and codex arguments. Each is chosen in   *)
(* the bar under the composer, kept for the thread on screen, or for the    *)
(* draft of a new agent of the workspace, and shown again when the thread   *)
(* comes back. The six are kept apart by the code: a behaviour follows one  *)
(* of them, opt.                                                            *)
EXTENDS Naturals, Sequences, FiniteSets, SequencesExt
CONSTANTS Owner,    \* [threads -> workspaces]
          NewThread,\* the thread an agent started here gets
          Draft,    \* stands for a thread in the scope of a new agent
          Menu,  \* the values of an option but the arguments
          Budgets,  \* how often each thing may happen
          Absent, Unset, Null  \* no entry for a scope; undefined; null
VARIABLES
  opt,       \* the option this behaviour follows
  ui,        \* the state and the refs of the hooks
  thread,    \* [workspaces -> the thread open in it, or the draft]
  alive,     \* the threads there are
  starting,  \* the workspace an agent is being started in
  typing,    \* a "/fast" that waits for its thread
  running,   \* [workspaces -> the arguments its process was last told]
  picks,     \* [scopes -> what the user last chose there]
  shown,     \* what a message that starts an agent was sent with
  budget

vars == <<opt, ui, thread, alive, starting, typing, running, picks, shown, budget>>

Workspaces == {Owner[t] : t \in DOMAIN Owner}
Scopes == {<<Owner[t], t>> : t \in DOMAIN Owner} \cup (Workspaces \X {Draft})
NO_THREAD_SCOPE(w) == <<w, Draft>>
Options == {"model", "effort", "tier", "mode", "access", "args"}
Default == CHOOSE v \in Menu : TRUE

(* Arguments are a sequence of tokens: a word, or a flag that wants a value *)
(* (or takes one, or none), written after it or joined with "=".            *)
Word == [kind |-> "word", joined |-> "no"]
Flags == [kind : {"required", "optional", "ignored"}, joined : {"no", "value", "empty"}]
         \cup [kind : {"unknown", "ignoredAlone"}, joined : {"no"}]
Profiles(n) == UNION {[1..k -> {Word} \cup Flags] : k \in 1..n}
isIgnored(token) == token.kind \in {"ignored", "ignoredAlone"}
consumesNext(p, i) == /\ p[i].kind \in {"required", "optional", "ignored"}
                      /\ p[i].joined = "no"
                      /\ i < Len(p) /\ p[i + 1] = Word
isValid(p, i) == \/ p[i].kind = "optional" \/ p[i].joined = "value" \/ consumesNext(p, i)
Kept(p, i) ==
  CASE p[i].kind \in {"word", "unknown"} -> <<p[i]>>
    [] isIgnored(p[i]) \/ ~isValid(p, i) -> << >>
    [] p[i].joined = "empty" -> <<[p[i] EXCEPT !.joined = "no"]>>
    [] OTHER -> <<p[i]>> \o (IF consumesNext(p, i) THEN <<Word>> ELSE << >>)
parseCodexArgsProfile(p) ==
  LET read(r, i) == IF r.skip THEN [r EXCEPT !.skip = FALSE]
                    ELSE [out |-> r.out \o Kept(p, i), skip |-> consumesNext(p, i),
                          flags |-> r.flags \o
                             IF p[i].kind \notin {"required", "optional"} \/ ~isValid(p, i) THEN << >>
                             ELSE <<[flag |-> p[i].kind, value |-> p[i].joined = "value" \/ consumesNext(p, i)]>>]
  IN FoldLeftDomain(read, [out |-> << >>, skip |-> FALSE, flags |-> << >>], p)
sanitizeRuntimeCodexArgs(v) ==
  IF v \in {Null, Unset, Absent} \/ parseCodexArgsProfile(v).out = << >> THEN Null
  ELSE parseCodexArgsProfile(v).out

Values == CASE opt = "args" -> {Null} \cup IF budget.tokens = 0 THEN {<<Word>>} ELSE Profiles(budget.tokens)
            [] opt = "tier" -> {Null, Default}
            [] OTHER -> Menu

(* The stored entry of a scope, and what a thread is shown with.            *)
getThreadCodexParams(u, s) == u.stored[s]
DEFAULT_ENTRY == IF opt = "tier" THEN Unset ELSE Null
Has(v) == v \notin {Absent, Unset, Null}
patchThreadCodexParams(u, s, v) == [u EXCEPT !.stored[s] = v, !.bumped = TRUE]
patchAnother(u, s) ==
  [u EXCEPT !.stored[s] = IF @ = Absent THEN DEFAULT_ENTRY ELSE @, !.bumped = TRUE]

SeedFor(u, w) == u.seed /= Null /\ u.seed[1] = w
Inherited(v) == IF v = Absent THEN Unset ELSE v
resolveThreadCodexState(u) ==
  LET w == u.at[1]
      mine == getThreadCodexParams(u, u.at)
      scope == getThreadCodexParams(u, NO_THREAD_SCOPE(w))
  IN CASE opt \in {"model", "effort"} -> IF Has(mine) THEN mine ELSE u.lastComposer
       [] opt = "access" -> IF Has(mine) THEN mine
                            ELSE IF u.at[2] /= Draft /\ SeedFor(u, w) THEN u.seed[2] ELSE Default
       [] opt = "mode" -> IF Has(mine) THEN mine
                          ELSE IF u.at[2] /= Draft /\ SeedFor(u, w) THEN u.seed[2] ELSE Null
       [] opt = "tier" -> Inherited(IF mine \in {Absent, Unset} /\ u.at[2] /= Draft THEN scope ELSE mine)
       [] opt = "args" -> IF mine \notin {Absent, Unset} THEN mine
                          ELSE IF u.at[2] = Draft THEN Null
                          ELSE IF SeedFor(u, w) THEN u.seed[2]
                          ELSE IF scope \in {Absent, Unset} THEN Null ELSE scope

(* One render: the layout effect first; then the other effects, which see   *)
(* the state as it was rendered.                                            *)
LayoutEffect(u) ==
  IF ~u.bumped /\ u.laid = u.at THEN u
  ELSE LET r == resolveThreadCodexState(u)
       IN [u EXCEPT !.laid = u.at, !.bumped = FALSE, !.key = u.at, !.pref = r,
                    !.sel = IF opt = "access" THEN r ELSE @]

hasUserSelected(u) == u.userSelected /\ u.key = u.lastKey
Wanted(v) == IF Has(v) THEN v ELSE Default
useModels(u, n) ==
  IF hasUserSelected(u) \/ u.ran = <<u.pref, u.sel>>
  THEN [n EXCEPT !.userSelected = hasUserSelected(u)]
  ELSE [n EXCEPT !.userSelected = FALSE, !.sel = Wanted(u.pref)]
useCollaborationModes(u, n) == IF u.key = u.lastKey THEN n ELSE [n EXCEPT !.sel = Wanted(u.pref)]
showPreferred(u, n) == IF u.ran = <<u.pref, u.key>> THEN n ELSE [n EXCEPT !.sel = u.pref]

buildThreadCodexSeedPatch(u) ==
  CASE opt \in {"model", "effort"} -> u.sel
    [] SeedFor(u, u.at[1]) -> u.seed[2]
    [] opt = "tier" -> Unset
    [] OTHER -> u.sel
SeedEffect(u, n) ==
  IF u.at[2] = Draft \/ u.at \in u.seeded THEN n
  ELSE IF u.stored[u.at] /= Absent THEN [n EXCEPT !.seeded = @ \cup {u.at}]
  ELSE [patchThreadCodexParams(n, u.at, buildThreadCodexSeedPatch(u))
          EXCEPT !.seeded = @ \cup {u.at}, !.seed = IF SeedFor(u, u.at[1]) THEN Null ELSE @]
TierEffect(u, n) ==
  LET s == NO_THREAD_SCOPE(u.at[1])
  IN IF opt = "tier" /\ u.at[2] /= Draft /\ u.sel /= Unset /\ n.stored[s] \in {Absent, Unset}
     THEN patchThreadCodexParams(n, s, u.sel) ELSE n

Rendered(u) ==
  LET laid == LayoutEffect(u)
      chosen == CASE opt \in {"model", "effort"} -> useModels(u, laid)
                  [] opt = "mode" -> useCollaborationModes(u, laid)
                  [] opt \in {"args", "tier"} -> showPreferred(u, laid)
                  [] OTHER -> laid
      deps == <<u.pref, IF opt \in {"model", "effort"} THEN u.sel ELSE u.key>>
  IN TierEffect(u, SeedEffect(u, [chosen EXCEPT !.ran = deps, !.lastKey = u.key]))
settled == Rendered(ui) = ui

Spend(k) == budget[k] > 0 /\ budget' = [budget EXCEPT ![k] = @ - 1]
Fresh(kept, last, w) ==
  [at |-> NO_THREAD_SCOPE(w), laid |-> Absent, bumped |-> FALSE, key |-> Null, lastKey |-> Null,
   pref |-> IF opt = "tier" THEN Unset ELSE Null,
   sel |-> CASE opt = "access" -> Default [] opt = "tier" -> Unset [] OTHER -> Null,
   userSelected |-> FALSE, ran |-> Absent, stored |-> kept, seeded |-> {}, seed |-> Null,
   lastComposer |-> last]

Init == /\ opt \in Options /\ budget \in Budgets
        /\ (opt /= "args" => budget.tokens = 0) /\ (opt /= "tier" => budget.fasts = 0)
        /\ \E w \in Workspaces : ui = Fresh([s \in Scopes |-> Absent], Null, w)
        /\ thread = [w \in Workspaces |-> Draft]
        /\ alive = DOMAIN Owner \ {NewThread}
        /\ starting = Null /\ typing = Null /\ shown = Null
        /\ running = [w \in Workspaces |-> Null]
        /\ picks = [s \in Scopes |-> Absent]

(* The workspace's process is told the arguments of the thread it is about  *)
(* to serve.                                                                *)
resolveWorkspaceRuntimeCodexArgsOverride(w, t) ==
  LET mine == IF t = Draft THEN Absent ELSE ui.stored[<<w, t>>]
  IN sanitizeRuntimeCodexArgs(IF mine \in {Absent, Unset} THEN ui.stored[NO_THREAD_SCOPE(w)] ELSE mine)
ensureWorkspaceRuntimeCodexArgs(w, t) ==
  running' = IF opt /= "args" THEN running
             ELSE [running EXCEPT ![w] = resolveWorkspaceRuntimeCodexArgsOverride(w, t)]

Render == ~settled /\ ui' = Rendered(ui)
          /\ UNCHANGED <<opt, thread, alive, starting, typing, running, picks, shown, budget>>

(* The user.                                                                *)
selectWorkspace(w) ==
  /\ settled /\ w /= ui.at[1] /\ Spend("moves")
  /\ ui' = [ui EXCEPT !.at = <<w, thread[w]>>]
  /\ shown' = Null
  /\ UNCHANGED <<opt, thread, alive, starting, typing, running, picks>>
setActiveThreadId(t) ==
  /\ settled /\ t \in alive /\ ui.at /= <<Owner[t], t>> /\ Spend("moves")
  /\ thread' = [thread EXCEPT ![Owner[t]] = t]
  /\ ui' = [ui EXCEPT !.at = <<Owner[t], t>>]
  /\ \/ ensureWorkspaceRuntimeCodexArgs(Owner[t], t)
     \/ UNCHANGED running   \* the thread is loaded, or another one is working
  /\ shown' = Null
  /\ UNCHANGED <<opt, alive, starting, typing, picks>>
openDraft ==
  LET w == ui.at[1]
  IN /\ settled /\ thread[w] /= Draft /\ Spend("moves")
     /\ thread' = [thread EXCEPT ![w] = Draft]
     /\ ui' = [ui EXCEPT !.at = NO_THREAD_SCOPE(w)]
     /\ shown' = Null
     /\ UNCHANGED <<opt, alive, starting, typing, running, picks>>

persistThreadCodexParams(u, v) ==
  LET n == patchThreadCodexParams(u, u.at, v)
  IN IF opt = "tier" /\ u.at[2] /= Draft THEN patchThreadCodexParams(n, NO_THREAD_SCOPE(u.at[1]), v) ELSE n
Selected(v) ==
  /\ ui' = persistThreadCodexParams(
             [ui EXCEPT !.sel = v,
                        !.userSelected = @ \/ opt \in {"model", "effort"},
                        !.lastComposer = IF opt \in {"model", "effort"} /\ ui.at[2] = Draft THEN v ELSE @], v)
  /\ picks' = [s \in Scopes |-> IF s = ui.at \/ (opt = "tier" /\ s = NO_THREAD_SCOPE(ui.at[1])) THEN v
                                ELSE picks[s]]
  /\ shown' = Null
onSelect == /\ settled /\ opt /= "tier" /\ Spend("picks")
            /\ \E v \in Values \ {ui.sel} : Selected(v)
            /\ UNCHANGED <<opt, thread, alive, starting, typing, running>>
CycleOrder == SetToSeq(Menu)
NextInOrder(v) ==
  LET at == IF v \in Menu THEN CHOOSE i \in DOMAIN CycleOrder : CycleOrder[i] = v ELSE 0
  IN CycleOrder[(at % Len(CycleOrder)) + 1]
cycle == /\ settled /\ opt \in {"model", "effort", "mode", "access"} /\ Spend("picks")
         /\ Selected(NextInOrder(ui.sel))
         /\ UNCHANGED <<opt, thread, alive, starting, typing, running>>
(* Another option of the scope is chosen: the entry is there from now on.   *)
selectAnother ==
  /\ settled /\ ui.stored[ui.at] = Absent /\ Spend("picks")
  /\ ui' = patchAnother(ui, ui.at)
  /\ UNCHANGED <<opt, thread, alive, starting, typing, running, picks, shown>>

(* A message: what the draft is sent with is remembered for the thread that *)
(* is started for it.                                                       *)
createPendingThreadSeed ==
  IF ui.at[2] /= Draft THEN Null ELSE <<ui.at[1], ui.sel>>
handleComposerSendWithDraftStart ==
  /\ settled /\ Spend("sends") /\ NewThread \notin alive /\ starting = Null
  /\ ui' = [ui EXCEPT !.seed = createPendingThreadSeed]
  /\ ensureWorkspaceRuntimeCodexArgs(ui.at[1], ui.at[2])
  /\ IF ui.at = NO_THREAD_SCOPE(Owner[NewThread])
     THEN starting' = Owner[NewThread] /\ shown' = <<ui.sel>>
     ELSE UNCHANGED <<starting, shown>>
  /\ UNCHANGED <<opt, thread, alive, typing, picks>>
ThreadStarted ==
  LET w == starting
  IN /\ settled /\ starting /= Null /\ starting' = Null
     /\ \/ /\ alive' = alive \cup {NewThread}
           /\ thread' = [thread EXCEPT ![w] = NewThread]
           /\ ui' = IF ui.at[1] = w THEN [ui EXCEPT !.at = <<w, NewThread>>] ELSE ui
           /\ UNCHANGED shown
        \/ shown' = Null /\ UNCHANGED <<alive, thread, ui>>   \* thread/start failed
     /\ UNCHANGED <<opt, typing, running, picks, budget>>

(* "/fast": the tier is that of the render it was typed in; it is stored    *)
(* for the thread on screen when the thread is ready.                       *)
startFast ==
  /\ settled /\ opt = "tier" /\ ui.at[2] /= Draft /\ typing = Null /\ Spend("fasts")
  /\ typing' = <<IF ui.sel = Default THEN Null ELSE Default>>
  /\ UNCHANGED <<opt, ui, thread, alive, starting, running, picks, shown>>
FastReady ==
  /\ settled /\ typing /= Null /\ typing' = Null
  /\ Selected(typing[1])
  /\ UNCHANGED <<opt, thread, alive, starting, running, budget>>

(* The agent tells what a thread runs with: the latest turn that names it.  *)
extractThreadCodexMetadata(turns) ==
  LET named == SelectSeq(turns, Has) IN IF named = << >> THEN Null ELSE Last(named)
onThreadCodexMetadataDetected(t, turns) ==
  LET s == <<Owner[t], t>>
      v == extractThreadCodexMetadata(turns)
  IN /\ settled /\ t \in alive /\ Has(v) /\ Spend("detections")
     /\ IF opt \in {"model", "effort"}
        THEN ~Has(ui.stored[s]) /\ ui' = patchThreadCodexParams(ui, s, v)
        ELSE ui.stored[s] = Absent /\ ui' = patchAnother(ui, s)
     /\ UNCHANGED <<opt, thread, alive, starting, typing, running, picks, shown>>

(* The program is started again: what was stored is read back.              *)
Restart ==
  /\ settled /\ Spend("restarts")
  /\ \E w \in Workspaces : ui' = Fresh(ui.stored, ui.lastComposer, w)
  /\ thread' = [w \in Workspaces |-> Draft] /\ running' = [w \in Workspaces |-> Null]
  /\ starting' = Null /\ typing' = Null /\ shown' = Null
  /\ UNCHANGED <<opt, alive, picks>>

Next == \/ Render \/ openDraft \/ onSelect \/ selectAnother \/ cycle
        \/ handleComposerSendWithDraftStart \/ ThreadStarted \/ startFast \/ FastReady \/ Restart
        \/ \E w \in Workspaces : selectWorkspace(w)
        \/ \E t \in DOMAIN Owner : setActiveThreadId(t)
        \/ \E t \in DOMAIN Owner, turns \in [1..2 -> Menu \cup {Null}] : onThreadCodexMetadataDetected(t, turns)
Spec == Init /\ [][Next]_vars

(* What the user last chose for a thread, or for a workspace's new agents,  *)
(* is what is shown whenever it is on screen, whatever was opened, started, *)
(* reported or restarted meanwhile.                                         *)
OwnOption == settled /\ picks[ui.at] /= Absent => ui.sel = picks[ui.at]
(* An agent started by a message has what was shown when it was sent, when  *)
(* the user waited for it.                                                  *)
StartsAsShown == settled /\ shown /= Null /\ ui.at[2] = NewThread => ui.sel = shown[1]
(* The arguments chosen, less the flags a turn sets itself with their       *)
(* values, and less the flags that lack one, are what a process is told;    *)
(* and reading what it was told once more changes nothing.                  *)
ValueOf(p, i) == /\ i > 1 /\ p[i] = Word /\ p[i - 1].joined = "no"
                 /\ p[i - 1].kind \in {"required", "optional", "ignored"}
Stays(p, i) == CASE p[i].kind = "word" -> ~(ValueOf(p, i) /\ p[i - 1].kind = "ignored")
                 [] p[i].kind = "required" -> p[i].joined = "value" \/ (i < Len(p) /\ ValueOf(p, i + 1))
                 [] OTHER -> p[i].kind \in {"unknown", "optional"}
Kinds(p) == [i \in DOMAIN p |-> p[i].kind]
RuntimeArgs ==
  /\ \A s \in Scopes : opt = "args" /\ picks[s] \notin {Absent, Null} =>
        LET p == picks[s]
            told == sanitizeRuntimeCodexArgs(p)
            kept == SelectSeq([i \in DOMAIN p |-> i], LAMBDA i : Stays(p, i))
        IN Kinds(IF told = Null THEN << >> ELSE told) = [k \in DOMAIN kept |-> p[kept[k]].kind]
  /\ \A w \in Workspaces : running[w] /= Null => sanitizeRuntimeCodexArgs(running[w]) = running[w]
=============================================================================
