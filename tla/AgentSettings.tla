----------------------------- MODULE AgentSettings -----------------------------
(***************************************************************************)
(* The agents section of the settings: what is stored of the agents, the   *)
(* copy that is shown, and the forms over it - a new agent, the edit of    *)
(* one, the editor of its configuration file, the confirmation of a        *)
(* deletion.  Every call of useSettingsAgentsSection answers later, and    *)
(* the handler that made it goes on with the form it finds then.  An       *)
(* agent's instructions are its file's: one text stands for both.          *)
(***************************************************************************)
EXTENDS Naturals, FiniteSets, FiniteSetsExt

CONSTANTS
  Name, Agents,   \* the names an agent may have, and those there at the start
  MaxThreads,     \* the largest limit (MAX_MAX_THREADS)
  None,
  Budgets         \* bound: what may happen in a behaviour, a set of records

VARIABLES
  stored, \* what is stored: the limit, whether there are several agents, and the agents
  shown,  \* settings, the limit in the stepper, and whether an update of the limit failed since
  edit,   \* the agent edited, the name and text in its form, and whether they were touched
  create, \* the form for a new agent
  editor, \* the configuration file that is open: see handleOpenConfigEditor
  flags,  \* what the buttons say is under way, and the agent whose deletion is to be confirmed
  jobs,
  ids,    \* history: the agents there ever were
  left

vars == <<stored, shown, edit, create, editor, flags, jobs, ids, left>>

\* A text is of an agent (0: of the form for a new one); it may have been generated.
Text(id, n) == [of |-> id, n |-> n, made |-> FALSE]
Generated(id) == [of |-> id, n |-> 0, made |-> TRUE]
NoText == Text(0, 0)
Listed == IF shown.seen = None THEN {} ELSE DOMAIN shown.seen.agents
Agent(n) == shown.seen.agents[n]
EditOpen == edit.name \in Listed
EditorOpen == editor.name \in Listed

Spend(what) == left[what] > 0 /\ left' = [left EXCEPT ![what] = @ - 1]
NoJob == [kind |-> None, name |-> None, to |-> None, text |-> None, limit |-> 0, multi |-> FALSE,
          open |-> None, meant |-> TRUE, step |-> "asked", reply |-> None]
Call(j) == jobs' = jobs \cup {j}
Raise(flag, v) == flags' = [flags EXCEPT ![flag] = v]

(***************************************************************************)
(* The limits.                                                             *)
(***************************************************************************)
refresh ==
  /\ ~flags.loading /\ Spend("calls") /\ Raise("loading", TRUE) /\ Call([NoJob EXCEPT !.kind = "get"])
  /\ UNCHANGED <<stored, shown, edit, create, editor, ids>>
applyCoreSettings(multi, limit) ==
  /\ Raise("core", TRUE) /\ Call([NoJob EXCEPT !.kind = "core", !.multi = multi, !.limit = limit])
\* The buttons are off while an update is under way.
CanSet == shown.seen # None /\ ~flags.core
handleToggleMultiAgent ==
  /\ CanSet /\ Spend("calls") /\ applyCoreSettings(~shown.seen.multi, shown.seen.limit)
  /\ UNCHANGED <<stored, shown, edit, create, editor, ids>>
Clamp(n) == Max({1, Min({n, MaxThreads})})
handleMaxThreadsStep(up) ==
  LET next == Clamp(IF up THEN shown.draft + 1 ELSE shown.draft - 1) IN
  /\ CanSet /\ next # shown.draft /\ Spend("calls") /\ shown' = [shown EXCEPT !.draft = next]
  /\ IF next # shown.seen.limit THEN applyCoreSettings(shown.seen.multi, next) ELSE UNCHANGED <<jobs, flags>>
  /\ UNCHANGED <<stored, edit, create, editor, ids>>

(***************************************************************************)
(* The forms.                                                              *)
(***************************************************************************)
\* The fields of the new agent are off while one is created; its button is not.
CreateType(n) ==
  /\ ~flags.creating /\ Spend("types") /\ create' = [name |-> n, text |-> Text(0, left.types)]
  /\ UNCHANGED <<stored, shown, edit, editor, flags, jobs, ids>>
handleCreateAgent ==
  /\ create.name # None /\ Spend("calls") /\ Raise("creating", TRUE)
  /\ Call([NoJob EXCEPT !.kind = "create", !.name = create.name, !.text = create.text])
  /\ UNCHANGED <<stored, shown, edit, create, editor, ids>>

Idle(n) == flags.updating # n /\ flags.deleting # n
startEditing(n) ==
  /\ n \in Listed /\ flags.pending # n /\ Idle(n) /\ Spend("moves")
  /\ edit' = [name |-> n, id |-> Agent(n).id, to |-> n, text |-> Agent(n).text,
              was |-> Agent(n).text, touched |-> FALSE]
  /\ UNCHANGED <<stored, shown, create, editor, flags, jobs, ids>>
EditType(to) ==
  /\ EditOpen /\ flags.updating # edit.name /\ Spend("types")
  /\ edit' = IF to = edit.to THEN [edit EXCEPT !.text = Text(edit.id, left.types), !.touched = TRUE]
             ELSE [edit EXCEPT !.to = to]
  /\ UNCHANGED <<stored, shown, create, editor, flags, jobs, ids>>
CancelEdit ==
  /\ EditOpen /\ flags.updating # edit.name /\ Spend("moves") /\ edit' = [edit EXCEPT !.name = None]
  /\ UNCHANGED <<stored, shown, create, editor, flags, jobs, ids>>
\* The instructions go along only when they are not those that are shown.
Changed == edit.text # Agent(edit.name).text
handleUpdateAgent ==
  /\ EditOpen /\ flags.updating # edit.name /\ Spend("calls") /\ Raise("updating", edit.name)
  /\ Call([NoJob EXCEPT !.kind = "update", !.name = edit.name, !.to = edit.to, !.open = editor.name,
                        !.text = IF Changed THEN edit.text ELSE None,
                        !.meant = edit.touched \/ edit.was # Agent(edit.name).text])
  /\ UNCHANGED <<stored, shown, edit, create, editor, ids>>

\* What is generated for a form is put into the form that is there when it comes.
GenerateCreate ==
  /\ ~flags.creating /\ flags.making # "create" /\ create.name # None /\ Spend("calls")
  /\ Raise("making", "create") /\ Call([NoJob EXCEPT !.kind = "make", !.to = "create", !.text = Generated(0)])
  /\ UNCHANGED <<stored, shown, edit, create, editor, ids>>
GenerateEdit ==
  /\ EditOpen /\ flags.updating # edit.name /\ flags.making # "edit" /\ Spend("calls")
  /\ Raise("making", "edit") /\ Call([NoJob EXCEPT !.kind = "make", !.to = "edit", !.text = Generated(edit.id)])
  /\ UNCHANGED <<stored, shown, edit, create, editor, ids>>

handleDeleteAgent(n) ==
  /\ n \in Listed /\ flags.pending # n /\ Idle(n) /\ Spend("moves") /\ Raise("pending", n)
  /\ UNCHANGED <<stored, shown, edit, create, editor, jobs, ids>>
CancelDelete ==
  /\ flags.pending \in Listed /\ flags.deleting # flags.pending /\ Spend("moves") /\ Raise("pending", None)
  /\ UNCHANGED <<stored, shown, edit, create, editor, jobs, ids>>
handleConfirmDeleteAgent ==
  /\ flags.pending \in Listed /\ flags.deleting # flags.pending /\ Spend("calls")
  /\ Raise("deleting", flags.pending)
  /\ Call([NoJob EXCEPT !.kind = "delete", !.name = flags.pending, !.open = editor.name])
  /\ UNCHANGED <<stored, shown, edit, create, editor, ids>>

handleOpenConfigEditor(n) ==
  /\ n \in Listed /\ flags.reading # n /\ flags.writing # n /\ Spend("calls") /\ Raise("reading", n)
  /\ Call([NoJob EXCEPT !.kind = "read", !.name = n])
  /\ UNCHANGED <<stored, shown, edit, create, editor, ids>>
EditorType ==
  /\ EditorOpen /\ Spend("types") /\ editor' = [editor EXCEPT !.text = Text(@.of, left.types), !.dirty = TRUE]
  /\ UNCHANGED <<stored, shown, edit, create, flags, jobs, ids>>
CloseEditor ==
  /\ EditorOpen /\ Spend("moves") /\ editor' = [editor EXCEPT !.name = None, !.dirty = FALSE]
  /\ UNCHANGED <<stored, shown, edit, create, flags, jobs, ids>>
handleSaveConfigEditor ==
  /\ EditorOpen /\ editor.dirty /\ flags.writing # editor.name /\ Spend("calls")
  /\ Raise("writing", editor.name)
  /\ Call([NoJob EXCEPT !.kind = "write", !.name = editor.name, !.text = editor.text])
  /\ UNCHANGED <<stored, shown, edit, create, editor, ids>>

(***************************************************************************)
(* The server: a call is done at once, or not at all, and answered with    *)
(* all that is stored then.                                                *)
(***************************************************************************)
Without(n) == [m \in DOMAIN stored.agents \ {n} |-> stored.agents[m]]
With(f, n, a) == [m \in DOMAIN f \cup {n} |-> IF m = n THEN a ELSE f[m]]
Possible(j) ==
  CASE j.kind = "create" -> j.name \notin DOMAIN stored.agents
    [] j.kind = "update" -> /\ j.name \in DOMAIN stored.agents
                            /\ j.to = j.name \/ j.to \notin DOMAIN stored.agents
    [] j.kind \in {"delete", "read", "write"} -> j.name \in DOMAIN stored.agents
    [] OTHER -> TRUE
Done(j) ==
  CASE j.kind = "core" -> [stored EXCEPT !.limit = j.limit, !.multi = j.multi]
    [] j.kind = "create" ->
       [stored EXCEPT !.agents = With(@, j.name, [id |-> ids + 1, text |-> [j.text EXCEPT !.of = ids + 1]])]
    [] j.kind = "update" ->
       [stored EXCEPT !.agents = With(Without(j.name), j.to,
          IF j.text = None THEN @[j.name] ELSE [@[j.name] EXCEPT !.text = j.text])]
    [] j.kind = "delete" -> [stored EXCEPT !.agents = Without(j.name)]
    [] j.kind = "write" -> [stored EXCEPT !.agents[j.name].text = j.text]
    [] OTHER -> stored
Served(j, ok) ==
  LET reply == IF ~ok THEN None ELSE IF j.kind = "read" THEN stored.agents[j.name].text
               ELSE IF j.kind = "make" THEN j.text ELSE stored' IN
  /\ j.step = "asked" /\ (ok => Possible(j)) /\ stored' = (IF ok THEN Done(j) ELSE stored)
  /\ IF ~ok /\ Possible(j) THEN Spend("fails") ELSE left' = left
  /\ jobs' = (jobs \ {j}) \cup {[j EXCEPT !.step = IF ok THEN "ok" ELSE "failed", !.reply = reply]}
  /\ ids' = (IF ok /\ j.kind = "create" THEN ids + 1 ELSE ids)
  /\ UNCHANGED <<shown, edit, create, editor, flags>>

(***************************************************************************)
(* The answers.                                                            *)
(***************************************************************************)
Show(reply) == shown' = [seen |-> reply, draft |-> reply.limit, failed |-> FALSE]
Ok(j) == j.step = "ok"
Ends(j) == j \in jobs /\ j.step # "asked" /\ jobs' = jobs \ {j} /\ UNCHANGED <<stored, ids, left>>
Lower(flag, n) == flags' = [flags EXCEPT ![flag] = IF @ = n THEN None ELSE @]

GetReturns(j) ==
  /\ j.kind = "get" /\ Ends(j) /\ Raise("loading", FALSE)
  /\ IF Ok(j) THEN Show(j.reply) ELSE shown' = shown
  /\ UNCHANGED <<edit, create, editor>>
CoreReturns(j) ==
  /\ j.kind = "core" /\ Ends(j) /\ Raise("core", FALSE)
  /\ IF Ok(j) THEN Show(j.reply) ELSE shown' = [shown EXCEPT !.failed = TRUE]
  /\ UNCHANGED <<edit, create, editor>>
CreateReturns(j) ==
  /\ j.kind = "create" /\ Ends(j) /\ Raise("creating", FALSE)
  /\ IF Ok(j) THEN Show(j.reply) /\ create' = [name |-> None, text |-> NoText] ELSE UNCHANGED <<shown, create>>
  /\ UNCHANGED <<edit, editor>>
\* The form is closed, whichever it is by then, and the editor that was open on
\* the agent at the press is taken to be open on it now.
UpdateReturns(j) ==
  /\ j.kind = "update" /\ Ends(j) /\ Lower("updating", j.name)
  /\ IF Ok(j) THEN /\ Show(j.reply) /\ edit' = [edit EXCEPT !.name = None]
                   /\ editor' = [editor EXCEPT !.name = IF j.open = j.name THEN j.to ELSE @,
                                               !.moved = @ \/ j.open = j.name]
     ELSE UNCHANGED <<shown, edit, editor>>
  /\ UNCHANGED create
Closed == [name |-> None, at |-> None, text |-> NoText, dirty |-> FALSE, moved |-> FALSE]
DeleteReturns(j) ==
  /\ j.kind = "delete" /\ Ends(j)
  /\ flags' = [flags EXCEPT !.deleting = IF @ = j.name THEN None ELSE @,
                            !.pending = IF Ok(j) /\ @ = j.name THEN None ELSE @]
  /\ IF Ok(j) THEN Show(j.reply) ELSE shown' = shown
  /\ editor' = (IF Ok(j) /\ j.open = j.name THEN Closed ELSE editor)
  /\ UNCHANGED <<edit, create>>
ReadReturns(j) ==
  /\ j.kind = "read" /\ Ends(j) /\ Lower("reading", j.name)
  /\ editor' = (IF Ok(j) THEN [name |-> j.name, at |-> j.name, text |-> j.reply, dirty |-> FALSE, moved |-> FALSE]
                ELSE editor)
  /\ UNCHANGED <<shown, edit, create>>
\* The agents are read again after a write, whose handler waits for that.
WriteReturns(j) ==
  /\ j.kind = "write" /\ j \in jobs /\ j.step # "asked"
  /\ IF Ok(j) THEN /\ Raise("loading", TRUE)
                   /\ jobs' = (jobs \ {j}) \cup {[NoJob EXCEPT !.kind = "again", !.name = j.name]}
     ELSE Lower("writing", j.name) /\ jobs' = jobs \ {j}
  /\ UNCHANGED <<stored, shown, edit, create, editor, ids, left>>
AgainReturns(j) ==
  /\ j.kind = "again" /\ Ends(j) /\ (IF Ok(j) THEN Show(j.reply) ELSE shown' = shown)
  /\ flags' = [flags EXCEPT !.loading = FALSE, !.writing = IF @ = j.name THEN None ELSE @]
  /\ editor' = [editor EXCEPT !.dirty = FALSE] /\ UNCHANGED <<edit, create>>
MakeReturns(j) ==
  /\ j.kind = "make" /\ Ends(j) /\ Lower("making", j.to)
  /\ create' = (IF Ok(j) /\ j.to = "create" THEN [create EXCEPT !.text = j.reply] ELSE create)
  /\ edit' = (IF Ok(j) /\ j.to = "edit" THEN [edit EXCEPT !.text = j.reply, !.touched = TRUE] ELSE edit)
  /\ UNCHANGED <<shown, editor>>

----------------------------------------------------------------------------
Init ==
  LET all == CHOOSE f \in [Agents -> 1 .. Cardinality(Agents)] : \A a, b \in Agents : f[a] = f[b] => a = b IN
  /\ stored = [limit |-> MaxThreads - 1, multi |-> FALSE,
               agents |-> [n \in Agents |-> [id |-> all[n], text |-> Text(all[n], 0)]]]
  /\ shown = [seen |-> None, draft |-> MaxThreads, failed |-> FALSE]
  /\ edit = [name |-> None, id |-> 0, to |-> None, text |-> NoText, was |-> NoText, touched |-> FALSE]
  /\ create = [name |-> None, text |-> NoText] /\ editor = Closed
  /\ flags = [loading |-> TRUE, core |-> FALSE, creating |-> FALSE, updating |-> None, deleting |-> None,
              reading |-> None, writing |-> None, making |-> None, pending |-> None]
  /\ jobs = {[NoJob EXCEPT !.kind = "get"]} /\ ids = Cardinality(Agents) /\ left \in Budgets

Next ==
  \/ refresh \/ handleToggleMultiAgent \/ \E up \in BOOLEAN : handleMaxThreadsStep(up)
  \/ handleCreateAgent \/ CancelEdit \/ handleUpdateAgent \/ GenerateCreate \/ GenerateEdit
  \/ CancelDelete \/ handleConfirmDeleteAgent \/ EditorType \/ CloseEditor \/ handleSaveConfigEditor
  \/ \E n \in Name : \/ CreateType(n) \/ startEditing(n) \/ EditType(n)
                     \/ handleDeleteAgent(n) \/ handleOpenConfigEditor(n)
  \/ \E j \in jobs : \/ \E ok \in BOOLEAN : Served(j, ok)
                     \/ GetReturns(j) \/ CoreReturns(j) \/ CreateReturns(j) \/ UpdateReturns(j)
                     \/ DeleteReturns(j) \/ ReadReturns(j) \/ WriteReturns(j) \/ AgainReturns(j) \/ MakeReturns(j)

Spec == Init /\ [][Next]_vars

----------------------------------------------------------------------------
\* A form holds no text typed or stored for another agent, though answers come
\* when another form is open; and the editor holds the file that was read under
\* the name it says, unless an agent was renamed meanwhile.
FormsAreApart ==
  /\ create.text.of = 0 /\ (edit.name # None /\ ~edit.text.made => edit.text.of = edit.id)
  /\ editor.name # None /\ ~editor.moved => editor.at = editor.name

\* The limit in the stepper is the one the settings say, but while an update of
\* it is under way, or when it failed.
LimitIsSettled ==
  shown.seen # None /\ shown.draft # shown.seen.limit =>
    shown.failed \/ \E j \in jobs : j.kind = "core"

\* Instructions are sent with a save only when they were typed or generated in
\* the form, or when the agent's were changed since the form was opened.
SentWhenChanged == \A j \in jobs : j.kind = "update" /\ j.text # None => j.meant

\* What a button says is under way is: a call of that kind is to be answered.
BusyIsUnderWay ==
  LET Waits(kind, n) == \E j \in jobs : j.kind = kind /\ n \in {j.name, j.to} IN
  /\ flags.loading => Waits("get", None) \/ \E j \in jobs : j.kind = "again"
  /\ flags.core = Waits("core", None) /\ (flags.creating => \E j \in jobs : j.kind = "create")
  /\ \A f \in {<<"updating", "update">>, <<"deleting", "delete">>, <<"reading", "read">>, <<"making", "make">>} :
       flags[f[1]] # None => Waits(f[2], flags[f[1]])
  /\ flags.writing # None => Waits("write", flags.writing) \/ Waits("again", flags.writing)
=============================================================================
