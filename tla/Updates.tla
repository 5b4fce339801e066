------------------------------ MODULE Updates ------------------------------
(* How the app updates itself: the hook behind the toast and the one behind *)
(* the About page, each with its own state; the release notes shown after   *)
(* the restart; and the hub that hands an event of the menu to whoever      *)
(* listens, which is how the toast's hook is told to look.                  *)
EXTENDS Naturals, Sequences, FiniteSets, SequencesExt
CONSTANTS Nothing,
          MaxVersion, \* of the releases; the first one runs at the start
          Budgets     \* how often each thing may happen
VARIABLES
  hub,       \* who listens, and what was asked of the runtime
  heard,     \* [listeners -> how often the last event came, or -1 for none]
  hook,      \* [toast, about -> the state of the hook, its refs and calls]
  release,   \* the newest release, and the version installed and running
  notice,    \* what is new, as shown after an update
  kept,      \* the version kept in local storage for the next start
  budget

vars == <<hub, heard, hook, release, notice, kept, budget>>

Hooks == {"toast", "about"}
Listeners == {"toast", "other"}
Fresh == [stage |-> "idle", version |-> Nothing, ref |-> Nothing, timer |-> FALSE,
          checks |-> << >>, loads |-> << >>]
NoNotice == [stage |-> "none", version |-> Nothing, of |-> Nothing, gen |-> 0, fetches |-> << >>, dismissed |-> FALSE]
NoHub == [listeners |-> {}, promise |-> FALSE, unlisten |-> FALSE, asked |-> 0, native |-> 0]

Spend(b) == budget[b] > 0 /\ budget' = [budget EXCEPT ![b] = @ - 1]

(* The hub. asked and native count what the runtime is still to attach and  *)
(* has attached; promise and unlisten are what the hub knows of it.         *)
start(h) == IF h.unlisten \/ h.promise THEN h
            ELSE [h EXCEPT !.promise = TRUE, !.asked = @ + 1]
stop(h) == IF h.unlisten THEN [h EXCEPT !.unlisten = FALSE, !.native = @ - 1] ELSE h
subscribe(l) == start([hub EXCEPT !.listeners = @ \cup {l}])
unsubscribe(l) ==
  LET h == [hub EXCEPT !.listeners = @ \ {l}] IN IF h.listeners = {} THEN stop(h) ELSE h
Subscribes == /\ \E l \in Listeners \ hub.listeners : hub' = subscribe(l) /\ Spend("subscriptions")
              /\ UNCHANGED <<heard, hook, release, notice, kept>>
Unsubscribes == /\ \E l \in hub.listeners : hub' = unsubscribe(l)
                /\ UNCHANGED <<heard, hook, release, notice, kept, budget>>
Listens == /\ hub.asked > 0
           /\ hub' = IF hub.listeners = {}
                     THEN [hub EXCEPT !.promise = FALSE, !.asked = @ - 1]
                     ELSE [hub EXCEPT !.promise = FALSE, !.asked = @ - 1, !.native = @ + 1, !.unlisten = TRUE]
           /\ UNCHANGED <<heard, hook, release, notice, kept, budget>>
ListenFails == /\ hub.asked > 0 /\ Spend("fails")
               /\ hub' = [hub EXCEPT !.promise = FALSE, !.asked = @ - 1]
               /\ UNCHANGED <<heard, hook, release, notice, kept>>

(* The hooks. `about' looks when it is opened, `toast' when the app starts. *)
checkForUpdates(h, announce) ==
  [h EXCEPT !.timer = FALSE, !.stage = "checking", !.version = Nothing,
            !.checks = Append(@, [announce |-> announce])]
startUpdate(h) ==
  IF h.ref = Nothing THEN checkForUpdates(h, FALSE)
  ELSE [h EXCEPT !.stage = "downloading", !.loads = Append(@, [of |-> h.ref, step |-> "download"])]
resetToIdle(h) == [h EXCEPT !.timer = FALSE, !.ref = Nothing, !.stage = "idle", !.version = Nothing]
MenuChecks == /\ Spend("menus")
              /\ heard' = [l \in Listeners |-> IF l \in hub.listeners THEN hub.native ELSE 0]
              /\ hook' = IF heard'["toast"] > 0
                         THEN [hook EXCEPT !["toast"] = checkForUpdates(@, TRUE)] ELSE hook
              /\ UNCHANGED <<hub, release, notice, kept>>
CheckReturns(k) == \E n \in DOMAIN hook[k].checks :
  LET h == [hook[k] EXCEPT !.checks = RemoveAt(@, n)] IN
  /\ \/ /\ release.newest > release.running /\ UNCHANGED budget
        /\ hook' = [hook EXCEPT ![k] = [h EXCEPT !.ref = release.newest, !.stage = "available", !.version = release.newest]]
     \/ /\ release.newest = release.running /\ UNCHANGED budget
        /\ hook' = [hook EXCEPT ![k] =
             IF hook[k].checks[n].announce THEN [h EXCEPT !.stage = "latest", !.version = Nothing, !.timer = TRUE]
             ELSE [h EXCEPT !.stage = "idle", !.version = Nothing]]
     \/ /\ Spend("fails")
        /\ hook' = [hook EXCEPT ![k] = [h EXCEPT !.stage = "error", !.version = Nothing]]
  /\ UNCHANGED <<hub, heard, release, notice, kept>>
LatestExpires(k) ==
  /\ hook[k].timer
  /\ hook' = [hook EXCEPT ![k] = [@ EXCEPT !.timer = FALSE, !.stage = "idle", !.version = Nothing]]
  /\ UNCHANGED <<hub, heard, release, notice, kept, budget>>
(* A download ends with the installation, and that with the restart.        *)
LoadGoes(k) == \E n \in DOMAIN hook[k].loads :
  LET j == hook[k].loads[n]
      rest == [hook[k] EXCEPT !.loads = RemoveAt(@, n)]
  IN \/ /\ j.step = "download"
        /\ hook' = [hook EXCEPT ![k].stage = "installing", ![k].loads[n].step = "install"]
        /\ UNCHANGED <<hub, heard, release, notice, kept, budget>>
     \/ /\ j.step = "install"
        /\ hook' = [hook EXCEPT ![k].stage = "restarting", ![k].loads[n].step = "restart"]
        /\ release' = [release EXCEPT !.installed = j.of]
        /\ kept' = j.of
        /\ UNCHANGED <<hub, heard, notice, budget>>
     \/ /\ Spend("fails")
        /\ hook' = [hook EXCEPT ![k] = [rest EXCEPT !.stage = "error"]]
        /\ UNCHANGED <<hub, heard, release, notice, kept>>

(* What the toast and the About page offer.                                 *)
PressUpdate(k) == /\ Spend("presses")
                  /\ \/ hook[k].stage = "available"
                     \/ k = "toast" /\ hook[k].stage = "error"
                  /\ k = "toast" => notice.stage = "none"
                  /\ hook' = [hook EXCEPT ![k] = startUpdate(@)]
                  /\ UNCHANGED <<hub, heard, release, notice, kept>>
PressCheck == /\ Spend("presses")
              /\ hook["about"].stage \in {"idle", "latest", "error"}
              /\ hook' = [hook EXCEPT !["about"] = checkForUpdates(@, TRUE)]
              /\ UNCHANGED <<hub, heard, release, notice, kept>>
Dismisses == /\ notice.stage = "none"
             /\ hook["toast"].stage \in {"available", "latest", "error"}
             /\ hook' = [hook EXCEPT !["toast"] = resetToIdle(@)]
             /\ UNCHANGED <<hub, heard, release, notice, kept, budget>>

(* After the start, and whenever the effect runs again: the notes of the    *)
(* version the last run has left behind, if it is the one that runs.        *)
Announces(n, running) ==
  IF kept = Nothing \/ kept # running THEN n
  ELSE [n EXCEPT !.stage = "loading", !.version = kept, !.of = Nothing, !.gen = @ + 1,
                 !.fetches = Append(@, [of |-> kept, gen |-> n.gen + 1, cancelled |-> FALSE])]
CleanedUp(n) ==
  LET cancelled(f) == [f EXCEPT !.cancelled = TRUE] IN
  [n EXCEPT !.fetches = [i \in DOMAIN n.fetches |-> cancelled(n.fetches[i])]]
StillKept(running) == IF kept # running THEN Nothing ELSE kept
EffectAgain == /\ Spend("effects")
               /\ notice' = Announces(CleanedUp(notice), release.running)
               /\ kept' = StillKept(release.running)
               /\ UNCHANGED <<hub, heard, hook, release>>
NotesReturn == \E n \in DOMAIN notice.fetches :
  LET f == notice.fetches[n]
      rest == [notice EXCEPT !.fetches = RemoveAt(@, n)]
  IN /\ notice' \in IF f.cancelled \/ f.gen # notice.gen THEN {rest}
                    ELSE {[rest EXCEPT !.stage = "ready", !.version = f.of, !.of = f.of],
                          [rest EXCEPT !.stage = "fallback", !.version = f.of]}
     /\ UNCHANGED <<hub, heard, hook, release, kept, budget>>
dismissPostUpdateNotice ==
  /\ notice.stage # "none"
  /\ notice' = [notice EXCEPT !.gen = @ + 1, !.stage = "none", !.version = Nothing, !.of = Nothing, !.dismissed = TRUE]
  /\ kept' = Nothing
  /\ UNCHANGED <<hub, heard, hook, release, budget>>
(* The app starts again, by itself or because its user has quit it.         *)
Restarts ==
  /\ \/ \E k \in Hooks : \E n \in DOMAIN hook[k].loads : hook[k].loads[n].step = "restart" /\ UNCHANGED budget
     \/ Spend("quits")
  /\ release' = [release EXCEPT !.running = release.installed]
  /\ hook' = [toast |-> checkForUpdates(Fresh, FALSE), about |-> Fresh]
  /\ notice' = Announces(NoNotice, release.installed)
  /\ kept' = StillKept(release.installed)
  /\ hub' = NoHub /\ heard' = [l \in Listeners |-> 0]
Publishes == /\ Spend("releases") /\ release.newest < MaxVersion
             /\ release' = [release EXCEPT !.newest = @ + 1]
             /\ UNCHANGED <<hub, heard, hook, notice, kept>>

Init == /\ hub = NoHub /\ heard = [l \in Listeners |-> 0]
        /\ hook = [toast |-> checkForUpdates(Fresh, FALSE), about |-> Fresh]
        /\ release = [newest |-> 1, installed |-> 1, running |-> 1]
        /\ notice = NoNotice /\ kept = Nothing
        /\ budget \in Budgets

Next == \/ Subscribes \/ Unsubscribes \/ Listens \/ ListenFails \/ MenuChecks
        \/ \E k \in Hooks : CheckReturns(k) \/ LatestExpires(k) \/ LoadGoes(k) \/ PressUpdate(k)
        \/ PressCheck \/ Dismisses
        \/ EffectAgain \/ NotesReturn \/ dismissPostUpdateNotice \/ Restarts \/ Publishes

----------------------------------------------------------------------------
(* Whoever listens hears an event once if the runtime was asked to listen   *)
(* and has not refused, and nothing listens for nobody.                     *)
HeardOnce == /\ hub.native + hub.asked <= 1
             /\ hub.native = (IF hub.unlisten THEN 1 ELSE 0)
             /\ hub.listeners = {} => hub.native = 0
             /\ \A l \in Listeners : heard[l] <= 1
(* What is offered is there to be installed, and is newer than what runs.   *)
OffersAnUpdate == \A k \in Hooks :
  hook[k].stage = "available" => /\ hook[k].ref = hook[k].version
                                 /\ hook[k].ref > release.running
(* A hook that says it is looking or installing is waiting for an answer.   *)
WaitsForSomething == \A k \in Hooks :
  /\ hook[k].stage = "checking" => hook[k].checks # << >>
  /\ hook[k].stage \in {"downloading", "installing", "restarting"} => hook[k].loads # << >>
(* What is new is said of the version that runs, until it is dismissed, and *)
(* then not again; the notes are those of that version.                     *)
SaysWhatIsNew ==
  /\ notice.stage # "none" => notice.version = release.running /\ ~notice.dismissed
  /\ notice.stage = "ready" => notice.of = notice.version
  /\ notice.stage = "loading" => \E n \in DOMAIN notice.fetches :
        notice.fetches[n].gen = notice.gen /\ ~notice.fetches[n].cancelled
  /\ kept = release.running /\ kept > 1 => notice.stage # "none"
=============================================================================
