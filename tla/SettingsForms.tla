---------------------------- MODULE SettingsForms ----------------------------
(***************************************************************************)
(* The application's settings and the forms that edit them.  A save writes *)
(* all settings, built from what is shown, and saves are done one after    *)
(* the other; some changes are shown before they are saved, others when    *)
(* the answer comes.  A form edits one field of a subject (a remote        *)
(* backend, a workspace group, a project, the codex binary, the list of    *)
(* applications) in a draft; forms differ in what replaces the draft.      *)
(*                                                                         *)
(* A text is known by the subject it was typed for and a number.  Every    *)
(* other field of the settings is one number.                              *)
(***************************************************************************)
EXTENDS Naturals, Sequences, FiniteSets

CONSTANTS
  Subject, Main,  \* what a form edits; the one chosen at the start
  Forms,          \* the forms of this instance
  MaxTexts,       \* bound: texts typed for one subject
  MaxQueue,       \* bound: saves under way
  Budgets         \* bound: what may happen in a behaviour, a set of records

VARIABLES
  form,      \* the form at work
  settings,  \* what is shown: a text for each subject, the chosen one, the rest
  stored,    \* what the backend has
  queue,     \* saves, the first one at the backend
  loading,   \* whether getAppSettings is still out, and what it read
  draft,     \* what is typed: by subject if the form has an input for each
  base,      \* environmentSavedScript: what the draft is compared with
  pick,      \* the subject chosen in the form itself
  save,      \* onUpdateWorkspaceSettings under way
  behind,    \* history: what is shown was never stored, since a save or the load failed
  left

vars == <<form, settings, stored, queue, loading, draft, base, pick, save, behind, left>>

(***************************************************************************)
(* The forms.                                                              *)
(*   chooses  the subject is a field of the settings, chosen in the form,  *)
(*            or fixed; with an input for each the drafts are apart        *)
(*   resets   the draft is replaced when its saved text changes, when any  *)
(*            save is answered, when it changes and nothing is typed,      *)
(*            or never                                                     *)
(*   writes   all settings, or a patch of the subject's own                *)
(***************************************************************************)
Remote == [chooses |-> "settings", resets |-> "any", writes |-> "all"]
OpenApps == [chooses |-> "fixed", resets |-> "any", writes |-> "all"]
Codex == [chooses |-> "fixed", resets |-> "own", writes |-> "all"]
Groups == [chooses |-> "each", resets |-> "never", writes |-> "all"]
Environments == [chooses |-> "form", resets |-> "clean", writes |-> "patch"]
F == CASE form = "remote" -> Remote [] form = "apps" -> OpenApps [] form = "codex" -> Codex
       [] form = "groups" -> Groups [] form = "environments" -> Environments

NoText == [by |-> "none", n |-> 0]
Text(s, n) == [by |-> s, n |-> n]
Subject0 == [text |-> [s \in Subject |-> Text(s, 0)], chosen |-> Main, rest |-> 0]
Defaults == Subject0
Chosen == IF F.chooses = "settings" THEN settings.chosen ELSE pick
Spend(what) == left[what] > 0 /\ left' = [left EXCEPT ![what] = @ - 1]

(***************************************************************************)
(* What a render shows, and the effects that replace the draft.            *)
(***************************************************************************)
\* Mutant: a clean draft is left as it is.
ReplacedKeeps(s, next, d, b) == d # b
Replaced(s, next, d, b) == d = b /\ b # next.text[s]
Rendered(next, d, b) ==
  LET s == IF F.chooses = "settings" THEN next.chosen ELSE pick IN
  /\ settings' = next
  /\ CASE F.resets = "any" -> draft' = [x \in Subject |-> next.text[s]] /\ base' = next.text[s]
       [] F.resets = "own" ->
            /\ draft' = IF next.text[s] # settings.text[s] THEN [d EXCEPT ![s] = next.text[s]] ELSE d
            /\ base' = next.text[s]
       [] F.resets = "clean" ->
            IF Replaced(s, next, d[s], b)
              THEN draft' = [x \in Subject |-> next.text[s]] /\ base' = next.text[s]
              ELSE draft' = d /\ base' = b
       [] F.resets = "never" -> draft' = d /\ base' = b

(***************************************************************************)
(* Saves.  The first of the queue is at the backend; what it answers       *)
(* replaces what is shown.                                                 *)
(***************************************************************************)
Saving(next, shown) == [next |-> next, shown |-> shown, at |-> "waiting"]
\* Mutant: a save does not wait for the one before.
BeginsAny(i) == TRUE
Begins(i) == i = 1
Queue(next, shown) == Len(queue) < MaxQueue /\ queue' = Append(queue, Saving(next, shown))
WithoutSave(i) == SubSeq(queue, 1, i - 1) \o SubSeq(queue, i + 1, Len(queue))

\* The setup scripts are no part of the settings: workspaces keep them.
Merged(next, scripts) == IF F.writes = "all" THEN next ELSE [next EXCEPT !.text = scripts.text]

Served(i) ==
  /\ Begins(i) /\ queue[i].at = "waiting"
  /\ stored' = Merged(queue[i].next, stored)
  /\ queue' = [queue EXCEPT ![i].at = "stored"]
  /\ UNCHANGED <<form, settings, loading, draft, base, pick, save, behind, left>>
Saved(i) ==
  /\ queue[i].at = "stored" /\ queue' = WithoutSave(i)
  /\ Rendered(Merged(queue[i].next, settings), draft, base)
  /\ behind' = FALSE
  /\ UNCHANGED <<form, stored, loading, pick, save, left>>
\* A change that was shown already stays on screen.
SaveFails(i) ==
  /\ Begins(i) /\ queue[i].at = "waiting" /\ Spend("fails")
  /\ queue' = WithoutSave(i)
  /\ behind' = (behind \/ queue[i].shown)
  /\ UNCHANGED <<form, settings, stored, loading, draft, base, pick, save>>

LoadRead ==
  /\ loading.is = "asked" /\ loading' = [is |-> "read", got |-> stored]
  /\ UNCHANGED <<form, settings, stored, queue, draft, base, pick, save, behind, left>>
Loaded ==
  /\ loading.is = "read" /\ loading' = [loading EXCEPT !.is = "done"]
  /\ Rendered(Merged(loading.got, settings), draft, base)
  /\ UNCHANGED <<form, stored, queue, pick, save, behind, left>>
LoadFails ==
  /\ loading.is = "asked" /\ Spend("fails")
  /\ loading' = [loading EXCEPT !.is = "done"] /\ behind' = TRUE
  /\ UNCHANGED <<form, settings, stored, queue, draft, base, pick, save>>

(***************************************************************************)
(* The user, once the settings are loaded.                                 *)
(***************************************************************************)
Ready == loading.is = "done"

\* A switch of the settings panel: shown when it is saved.
Switch ==
  /\ Ready /\ Spend("switches")
  /\ \E n \in 1..2 : n # settings.rest /\ Queue([settings EXCEPT !.rest = n], FALSE)
  /\ UNCHANGED <<form, settings, stored, loading, draft, base, pick, save, behind>>
\* The zoom, the model and the application of choice: shown at once.
Zoom ==
  /\ Ready /\ Spend("zooms")
  /\ \E n \in 3..4 : LET next == [settings EXCEPT !.rest = n] IN
       n # settings.rest /\ Queue(next, TRUE) /\ Rendered(next, draft, base)
  /\ UNCHANGED <<form, stored, loading, pick, save, behind>>

Type ==
  /\ Ready /\ Spend("types")
  /\ \E s \in Subject, n \in 1..MaxTexts :
       /\ F.chooses = "each" \/ s = Chosen
       /\ draft' = [draft EXCEPT ![s] = Text(s, n)] /\ draft' # draft
  /\ UNCHANGED <<form, settings, stored, queue, loading, base, pick, save, behind>>

\* Saving a draft: all settings with the text in its place.
CommitAll ==
  /\ Ready /\ F.writes = "all" /\ Spend("commits")
  /\ \E s \in Subject :
       /\ F.chooses = "each" \/ s = Chosen
       /\ draft[s] # settings.text[s]
       /\ Queue([settings EXCEPT !.text[s] = draft[s]], FALSE)
  /\ UNCHANGED <<form, settings, stored, loading, draft, base, pick, save, behind>>
\* The setup script of a project; one at a time.  Another draft, the worktrees
\* folder, is saved with it and lets the user save when this one is clean.
CommitPatch ==
  /\ Ready /\ F.writes = "patch" /\ Spend("commits")
  /\ save.is = "none"
  /\ save' = [is |-> "asked", of |-> pick, text |-> draft[pick]]
  /\ UNCHANGED <<form, settings, stored, queue, loading, draft, base, pick, behind>>
PatchStored ==
  /\ save.is = "asked" /\ save' = [save EXCEPT !.is = "stored"]
  /\ stored' = [stored EXCEPT !.text[save.of] = save.text]
  /\ UNCHANGED <<form, settings, queue, loading, draft, base, pick, behind, left>>
\* The answer: the draft becomes what was saved, whoever is chosen by now.
PatchSaved ==
  /\ save.is = "stored" /\ save' = [save EXCEPT !.is = "none"]
  /\ Rendered([settings EXCEPT !.text[save.of] = save.text],
              [x \in Subject |-> save.text], save.text)
  /\ UNCHANGED <<form, stored, queue, loading, pick, behind, left>>
PatchFails ==
  /\ save.is = "asked" /\ Spend("fails") /\ save' = [save EXCEPT !.is = "none"]
  /\ UNCHANGED <<form, settings, stored, queue, loading, draft, base, pick, behind>>

\* Another remote becomes the active one.
ChooseRemote ==
  /\ Ready /\ F.chooses = "settings" /\ Spend("choices")
  /\ \E s \in Subject \ {settings.chosen} : Queue([settings EXCEPT !.chosen = s], FALSE)
  /\ UNCHANGED <<form, settings, stored, loading, draft, base, pick, save, behind>>
\* Another project is chosen: the effect loads its script.
ChooseProject ==
  /\ Ready /\ F.chooses = "form" /\ Spend("choices")
  /\ pick' \in Subject \ {pick}
  /\ draft' = [x \in Subject |-> settings.text[pick']] /\ base' = settings.text[pick']
  /\ UNCHANGED <<form, settings, stored, queue, loading, save, behind>>

----------------------------------------------------------------------------
Init ==
  /\ form \in Forms
  /\ settings = Defaults
  /\ stored = [Defaults EXCEPT !.rest = 1]
  /\ queue = <<>>
  /\ loading = [is |-> "asked", got |-> Defaults]
  /\ draft = Defaults.text /\ base = Defaults.text[Main] /\ pick = Main
  /\ save = [is |-> "none", of |-> Main, text |-> NoText]
  /\ behind = FALSE /\ left \in Budgets

Next ==
  \/ Switch \/ Zoom \/ Type \/ CommitAll \/ CommitPatch \/ PatchStored \/ PatchSaved \/ PatchFails
  \/ ChooseRemote \/ ChooseProject \/ LoadRead \/ Loaded \/ LoadFails
  \/ \E i \in 1..Len(queue) : Served(i) \/ Saved(i) \/ SaveFails(i)

Spec == Init /\ [][Next]_vars

----------------------------------------------------------------------------
\* What is stored for a subject was typed for it: a draft never follows the
\* user to another remote, group or project, though the subject may change, and
\* the draft be replaced, while a save is under way (useSettingsEnvironmentsSection.ts:85).
TypedForIt == \A s \in Subject : stored.text[s].by = s

\* When no save is under way, what is shown is what is stored, unless a change
\* shown at once, or the load, failed: saves are made one after the other and
\* each builds on what is shown (useUiScaleShortcuts.ts:44).
ShownIsStored ==
  (queue = <<>> /\ save.is = "none" /\ loading.is = "done" /\ ~behind) => settings = stored
=============================================================================
