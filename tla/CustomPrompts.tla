------------------------------ MODULE CustomPrompts ------------------------------
(***************************************************************************)
(* The panel of custom prompts: files of the workspace or of the user that *)
(* are listed, made, edited, moved between the two and deleted, and whose  *)
(* text, with arguments put in the place of its placeholders, is sent.     *)
(* Each change is made by the server of the workspace shown at the press   *)
(* and followed by a new list, unless a list is being fetched already.     *)
(***************************************************************************)
EXTENDS Naturals, Sequences, FiniteSets, SequencesExt

CONSTANTS
  Workspace, First,
  Name, Content,  \* what a prompt may be called, and say: a sequence of tokens (see Token)
  Arguments,      \* what may be typed as arguments: sequences of [key, val]; key None: no "="
  Files,          \* the files at the start: a function from paths to contents
  None,
  Budgets         \* bound: what may happen in a behaviour, a set of records

VARIABLES
  ws,      \* the workspace shown
  stored,  \* the files: path -> [id, text]; a path is the place, a workspace or Global, and the name
  given,   \* prompts, and lastFetchedWorkspaceId
  editor,  \* the form: None, or see startCreate and startEdit
  panel,   \* isSaving, pendingDeletePath, and the arguments typed, by path
  jobs,
  log,     \* history: how many prompts were made, which were confirmed to be deleted, what was sent
  left

vars == <<ws, stored, given, editor, panel, jobs, log, left>>

Global == "global"
Spend(what) == left[what] > 0 /\ left' = [left EXCEPT ![what] = @ - 1]
Shown == DOMAIN given.seen
Scope(p) == IF p[1] = Global THEN Global ELSE "workspace"
Place(w, scope) == IF scope = Global THEN Global ELSE w

(***************************************************************************)
(* What is sent: the text of a prompt with its placeholders filled.  A     *)
(* token is [kind, val]: a word, a named placeholder ($NAME), a numbered   *)
(* one ($1), all arguments ($ARGUMENTS), or one that is escaped ($$NAME).  *)
(***************************************************************************)
Required(text) == {t.val : t \in {x \in ToSet(text) : x.kind = "named"}}
HasNumbered(text) == \E t \in ToSet(text) : t.kind \in {"numbered", "all"}
\* There is a field for arguments only when the text takes some.
TakesArguments(text) == Required(text) # {} \/ HasNumbered(text)
\* key=value, the last of a key; with a token that is not so, an error.
Inputs(args) == [k \in {a.key : a \in ToSet(args)} |->
                   args[CHOOSE n \in DOMAIN args : args[n].key = k /\ \A m \in DOMAIN args : args[m].key = k => m <= n].val]
Parsed(args) == \A a \in ToSet(args) : a.key # None
Word(key, v) == [kind |-> "word", val |-> <<key, v>>]
ExpandNamed(text, inputs) ==
  [n \in DOMAIN text |-> IF text[n].kind = "named" THEN Word(None, inputs[text[n].val]) ELSE text[n]]
ExpandNumbered(text, args) ==
  FlattenSeq([n \in DOMAIN text |->
    CASE text[n].kind = "numbered" -> IF text[n].val \in DOMAIN args THEN <<Word(args[text[n].val].key, args[text[n].val].val)>> ELSE <<>>
      [] text[n].kind = "all" -> [m \in DOMAIN args |-> Word(args[m].key, args[m].val)]
      [] OTHER -> <<text[n]>>])
Fails(text, args) == Required(text) # {} /\ ~(Parsed(args) /\ Required(text) \subseteq DOMAIN Inputs(args))
Expand(text, args) == IF Required(text) # {} THEN ExpandNamed(text, Inputs(args)) ELSE ExpandNumbered(text, args)

Args(p) == IF TakesArguments(given.seen[p].text) /\ p \in DOMAIN panel.args THEN panel.args[p] ELSE <<>>
TypeArguments(p, args) ==
  /\ TakesArguments(given.seen[p].text) /\ Spend("args")
  /\ panel' = [panel EXCEPT !.args = [q \in DOMAIN @ \cup {p} |-> IF q = p THEN args ELSE @[q]]]
  /\ UNCHANGED <<ws, stored, given, editor, jobs, log>>
\* With an error, or with nothing to say, nothing is sent.
Send(p) ==
  LET text == given.seen[p].text IN
  /\ ~Fails(text, Args(p)) /\ Expand(text, Args(p)) # <<>> /\ Spend("sends")
  /\ log' = [log EXCEPT !.sent = @ \cup {[text |-> text, args |-> Args(p), out |-> Expand(text, Args(p))]}]
  /\ UNCHANGED <<ws, stored, given, editor, panel, jobs>>

(***************************************************************************)
(* The form, and the other things a prompt's menu offers.                  *)
(***************************************************************************)
startCreate(scope) ==
  /\ Spend("opens") /\ editor' = [mode |-> "create", scope |-> scope, path |-> None, name |-> None, text |-> <<>>]
  /\ panel' = [panel EXCEPT !.pending = None] /\ UNCHANGED <<ws, stored, given, jobs, log>>
startEdit(p) ==
  /\ Spend("opens")
  /\ editor' = [mode |-> "edit", scope |-> Scope(p), path |-> p, name |-> p[2], text |-> given.seen[p].text]
  /\ panel' = [panel EXCEPT !.pending = None] /\ UNCHANGED <<ws, stored, given, jobs, log>>
updateEditor(e) ==
  /\ editor # None /\ e # editor /\ Spend("types") /\ editor' = e
  /\ UNCHANGED <<ws, stored, given, panel, jobs, log>>
CancelEditor ==
  /\ editor # None /\ ~panel.saving /\ Spend("opens") /\ editor' = None
  /\ UNCHANGED <<ws, stored, given, panel, jobs, log>>
NoJob == [kind |-> None, ws |-> ws, path |-> None, scope |-> None, name |-> None, text |-> <<>>]
handleSave ==
  /\ editor # None /\ ~panel.saving /\ editor.name # None /\ Spend("saves")
  /\ panel' = [panel EXCEPT !.saving = TRUE]
  /\ jobs' = jobs \cup {[NoJob EXCEPT !.kind = editor.mode, !.path = editor.path, !.scope = editor.scope,
                                      !.name = editor.name, !.text = editor.text]}
  /\ UNCHANGED <<ws, stored, given, editor, log>>
handleDeleteRequest(p) ==
  /\ panel.pending # p /\ Spend("opens") /\ panel' = [panel EXCEPT !.pending = p]
  /\ UNCHANGED <<ws, stored, given, editor, jobs, log>>
CancelDelete ==
  /\ panel.pending # None /\ Spend("opens") /\ panel' = [panel EXCEPT !.pending = None]
  /\ UNCHANGED <<ws, stored, given, editor, jobs, log>>
handleDeleteConfirm(p) ==
  /\ panel.pending = p /\ Spend("saves") /\ jobs' = jobs \cup {[NoJob EXCEPT !.kind = "delete", !.path = p]}
  /\ log' = [log EXCEPT !.confirmed = @ \cup {p}] /\ UNCHANGED <<ws, stored, given, editor, panel>>
handleMove(p) ==
  /\ Spend("saves")
  /\ jobs' = jobs \cup {[NoJob EXCEPT !.kind = "move", !.path = p,
                                      !.scope = IF Scope(p) = Global THEN "workspace" ELSE Global]}
  /\ UNCHANGED <<ws, stored, given, editor, panel, log>>

(***************************************************************************)
(* The server: prompts_core.rs, and what is done when it has answered.     *)
(***************************************************************************)
Allowed(j) == j.path[1] \in {j.ws, Global}
Next_path(j) ==
  CASE j.kind = "create" -> <<Place(j.ws, j.scope), j.name>>
    [] j.kind = "edit" -> <<j.path[1], j.name>>
    [] j.kind = "move" -> <<Place(j.ws, j.scope), j.path[2]>>
Possible(j) ==
  CASE j.kind = "create" -> Next_path(j) \notin DOMAIN stored
    [] j.kind = "edit" -> /\ j.path \in DOMAIN stored /\ Allowed(j)
                          /\ Next_path(j) = j.path \/ Next_path(j) \notin DOMAIN stored
    [] j.kind = "move" -> j.path \in DOMAIN stored /\ Allowed(j) /\ Next_path(j) \notin DOMAIN stored
    [] j.kind = "delete" -> j.path \in DOMAIN stored => Allowed(j)
Without(p) == [q \in DOMAIN stored \ {p} |-> stored[q]]
With(f, p, v) == [q \in DOMAIN f \cup {p} |-> IF q = p THEN v ELSE f[q]]
Done(j) ==
  CASE j.kind = "create" -> With(stored, Next_path(j), [id |-> log.made + 1, text |-> j.text])
    [] j.kind = "edit" -> With(Without(j.path), Next_path(j), [stored[j.path] EXCEPT !.text = j.text])
    [] j.kind = "move" -> With(Without(j.path), Next_path(j), stored[j.path])
    [] j.kind = "delete" -> Without(j.path)
\* What the handler does in the end, also after an error: that was told by then.
Ended(j, e, p) ==
  /\ editor' = (IF j.kind \in {"create", "edit"} THEN None ELSE e)
  /\ panel' = [p EXCEPT !.saving = IF j.kind \in {"create", "edit"} THEN FALSE ELSE @,
                        !.pending = IF j.kind = "delete" /\ @ = j.path THEN None ELSE @]
Fetching == \E j \in jobs : j.kind = "list"
Serve(j, ok) ==
  /\ j.kind # "list" /\ (ok => Possible(j)) /\ (IF ~ok /\ Possible(j) THEN Spend("fails") ELSE left' = left)
  /\ stored' = (IF ok THEN Done(j) ELSE stored)
  /\ log' = (IF ~ok THEN log
             ELSE [log EXCEPT !.made = IF j.kind = "create" THEN @ + 1 ELSE @,
                              !.deleted = @ \cup (IF j.kind = "delete" /\ j.path \in DOMAIN stored
                                                  THEN {<<j.path, stored[j.path].id>>} ELSE {})])
  /\ IF ok /\ ~Fetching
     THEN jobs' = (jobs \ {j}) \cup {[kind |-> "list", ws |-> j.ws, by |-> j]} /\ UNCHANGED <<editor, panel>>
     ELSE jobs' = jobs \ {j} /\ Ended(j, editor, panel)
  /\ UNCHANGED <<ws, given>>
\* The list is taken whatever workspace is shown now; a deletion to be confirmed
\* is forgotten when its prompt is gone.
Visible(w) == [p \in {q \in DOMAIN stored : q[1] \in {w, Global}} |-> stored[p]]
Listed(j, ok) ==
  LET seen == IF ok THEN Visible(j.ws) ELSE given.seen
      p == [panel EXCEPT !.pending = IF @ \in DOMAIN seen THEN @ ELSE None] IN
  /\ j.kind = "list" /\ jobs' = jobs \ {j} /\ (IF ok THEN left' = left ELSE Spend("fails"))
  /\ given' = (IF ok THEN [seen |-> seen, fetched |-> j.ws] ELSE given)
  /\ IF j.by = None THEN panel' = p /\ editor' = editor ELSE Ended(j.by, editor, p)
  /\ UNCHANGED <<ws, stored, log>>
\* A workspace's list is fetched when it is shown, unless one is being fetched.
SelectWorkspace(w) ==
  /\ w # ws /\ Spend("moves") /\ ws' = w
  /\ jobs' = (IF given.fetched = w \/ Fetching THEN jobs ELSE jobs \cup {[kind |-> "list", ws |-> w, by |-> None]})
  /\ UNCHANGED <<stored, given, editor, panel, log>>

----------------------------------------------------------------------------
Init ==
  LET id == CHOOSE f \in [DOMAIN Files -> 1 .. Cardinality(DOMAIN Files)] : IsInjective(f) IN
  /\ ws = First /\ stored = [p \in DOMAIN Files |-> [id |-> id[p], text |-> Files[p]]]
  /\ given = [seen |-> Visible(First), fetched |-> First] /\ editor = None
  /\ panel = [saving |-> FALSE, pending |-> None, args |-> <<>>] /\ jobs = {}
  /\ log = [made |-> Cardinality(DOMAIN Files), confirmed |-> {}, deleted |-> {}, sent |-> {}]
  /\ left \in Budgets

Next ==
  \/ \E w \in Workspace : SelectWorkspace(w)
  \/ \E scope \in {"workspace", Global} : \/ startCreate(scope)
                                          \/ editor # None /\ editor.mode = "create" /\ updateEditor([editor EXCEPT !.scope = scope])
  \/ \E n \in Name : editor # None /\ updateEditor([editor EXCEPT !.name = n])
  \/ \E c \in Content : editor # None /\ updateEditor([editor EXCEPT !.text = c])
  \/ CancelEditor \/ handleSave \/ CancelDelete
  \/ \E p \in Shown : \/ startEdit(p) \/ handleDeleteRequest(p) \/ handleDeleteConfirm(p) \/ handleMove(p) \/ Send(p)
                      \/ \E args \in Arguments : TypeArguments(p, args)
  \/ \E j \in jobs, ok \in BOOLEAN : Serve(j, ok) \/ Listed(j, ok)

Spec == Init /\ [][Next]_vars

----------------------------------------------------------------------------
\* No prompt is lost and none is there twice: the files are those that were
\* there and were made, without the ones whose deletion was confirmed, though
\* they are renamed, moved and made by forms that show an older list.
NoPromptIsLost ==
  LET ids == [p \in DOMAIN stored |-> stored[p].id] IN
  /\ \A p, q \in DOMAIN ids : ids[p] = ids[q] => p = q
  /\ {ids[p] : p \in DOMAIN ids} = (1 .. log.made) \ {d[2] : d \in log.deleted}
  /\ \A d \in log.deleted : d[1] \in log.confirmed

\* What is sent says, but for what was typed as arguments, the words of the
\* prompt in their order, with no placeholder left that is not escaped; and
\* every named placeholder has its word.
SentIsFilled ==
  \A s \in log.sent :
    LET Typed == UNION {{<<a.key, a.val>>, <<None, a.val>>} : a \in ToSet(s.args)} IN
    /\ SelectSeq(s.out, LAMBDA t : ~(t.kind = "word" /\ t.val \in Typed)) =
         SelectSeq(s.text, LAMBDA t : t.kind \in {"word", "escaped"})
    /\ Required(s.text) # {} => Len(s.out) = Len(s.text)

\* The form says it is saving exactly while a save, or the list after it, is
\* to be answered.
SavingIsUnderWay ==
  panel.saving = \E j \in jobs : LET by == IF j.kind = "list" THEN j.by ELSE j IN by # None /\ by.kind \in {"create", "edit"}
=============================================================================
