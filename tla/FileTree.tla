-------------------------------- MODULE FileTree --------------------------------
(***************************************************************************)
(* The tree of a workspace's files: the files as folders that are opened   *)
(* and closed, a filter by text (settled after a pause) and by what is     *)
(* modified, and the preview of a file, whose lines are selected with the  *)
(* mouse and added to the composer.                                        *)
(***************************************************************************)
EXTENDS Naturals, Sequences, FiniteSets, SequencesExt

CONSTANTS
  Workspace, First,
  Path, Images, Lines, \* the files there may be (sequences of names), the pictures, how many lines each has
  Query,               \* what may be typed to filter: names
  None,
  Budgets              \* bound: what may happen in a behaviour, a set of records

VARIABLES
  ws,      \* the workspace shown
  given,   \* its files, and the modified ones, as the hooks say
  tree,    \* filterMode, query and debouncedQuery, expandedFolders, hasManualToggle
  preview, \* see Closed
  reading, \* the read whose answer the preview waits for, or None
  log,     \* history: what was put into the composer
  left

vars == <<ws, given, tree, preview, reading, log, left>>

NoText == [of |-> None, in |-> None]
NoDrag == [on |-> FALSE, anchor |-> 0, moved |-> FALSE]
Closed == [path |-> None, content |-> NoText, loading |-> FALSE, failed |-> FALSE, sel |-> <<>>, drag |-> NoDrag]

Spend(what) == left[what] > 0 /\ left' = [left EXCEPT ![what] = @ - 1]

(***************************************************************************)
(* The tree.                                                               *)
(***************************************************************************)
\* The files left by the filters, the folders they are in, and the rows: what
\* is in folders that are all open.
Visible(g, t) ==
  {p \in g.files : /\ t.mode = "modified" => p \in g.modified
                   /\ t.settled = "" \/ t.settled \in ToSet(p)}
Above(p) == {SubSeq(p, 1, n) : n \in 1 .. Len(p) - 1}
Folders(g, t) == UNION {Above(p) : p \in Visible(g, t)}
Rows == {p \in Visible(given, tree) \cup Folders(given, tree) : Above(p) \subseteq tree.open}
\* The effect that opens and closes folders when the tree changes: all are
\* opened for a filter; else those that are gone are forgotten and, if none is
\* left, the topmost are opened.
Expanded(g, t) ==
  LET folders == Folders(g, t)
      kept == t.open \cap folders IN
  [t EXCEPT !.touched = FALSE,
            !.open = IF t.settled # "" \/ t.mode = "modified" THEN folders
                     ELSE IF kept = {} /\ ~t.manual THEN {f \in folders : Len(f) = 1} ELSE kept]

\* A list of files that says nothing new is no change; what git says is modified
\* is always a new list, and one for the tree when only those are shown.
FilesArrive(files) ==
  LET g == [given EXCEPT !.files = files] IN
  /\ files # given.files /\ Spend("news") /\ given' = g /\ tree' = Expanded(g, tree)
  /\ UNCHANGED <<ws, preview, reading, log>>
StatusArrives(modified) ==
  LET g == [given EXCEPT !.modified = modified] IN
  /\ Spend("news") /\ given' = g /\ tree' = (IF tree.mode = "modified" THEN Expanded(g, tree) ELSE tree)
  /\ UNCHANGED <<ws, preview, reading, log>>
Type(q) ==
  /\ q # tree.query /\ Spend("filters") /\ tree' = [tree EXCEPT !.query = q]
  /\ UNCHANGED <<ws, given, preview, reading, log>>
Settles ==
  /\ tree.settled # tree.query /\ tree' = Expanded(given, [tree EXCEPT !.settled = tree.query])
  /\ UNCHANGED <<ws, given, preview, reading, log, left>>
SwitchFilter ==
  /\ Spend("filters")
  /\ tree' = Expanded(given, [tree EXCEPT !.mode = IF @ = "all" THEN "modified" ELSE "all"])
  /\ UNCHANGED <<ws, given, preview, reading, log>>
toggleAllFolders ==
  LET folders == Folders(given, tree) IN
  /\ folders # {} /\ Spend("clicks")
  /\ tree' = [tree EXCEPT !.manual = TRUE, !.touched = TRUE,
                          !.open = IF folders \subseteq @ THEN @ \ folders ELSE @ \cup folders]
  /\ UNCHANGED <<ws, given, preview, reading, log>>
toggleFolder(f) ==
  /\ f \in Rows \cap Folders(given, tree) /\ Spend("clicks")
  /\ tree' = [tree EXCEPT !.touched = TRUE, !.open = IF f \in @ THEN @ \ {f} ELSE @ \cup {f}]
  /\ UNCHANGED <<ws, given, preview, reading, log>>

(***************************************************************************)
(* The preview.                                                            *)
(***************************************************************************)
\* A text is read when its path or the workspace is new to the preview, and the
\* answer to an earlier read is dropped; a picture is shown from where it is.
Reads(w, p) ==
  IF p.path \in Images THEN reading' = None /\ preview' = [p EXCEPT !.content = NoText, !.loading = FALSE, !.failed = FALSE]
  ELSE reading' = [of |-> p.path, in |-> w] /\ preview' = [p EXCEPT !.loading = TRUE, !.failed = FALSE]
openPreview(f) ==
  LET p == [preview EXCEPT !.path = f, !.sel = <<>>, !.drag = NoDrag] IN
  /\ f \in Rows \cap given.files /\ Spend("clicks")
  /\ IF f = preview.path THEN preview' = p /\ reading' = reading ELSE Reads(ws, p)
  /\ UNCHANGED <<ws, given, tree, log>>
closePreview ==
  /\ preview.path # None /\ Spend("clicks") /\ preview' = Closed /\ reading' = None
  /\ UNCHANGED <<ws, given, tree, log>>
\* The preview is closed; the effect that reads has already begun to read the
\* path in the new workspace, which is given up, but still says it is loading.
SelectWorkspace(w) ==
  LET g == [files |-> {}, modified |-> {}] IN
  /\ w # ws /\ Spend("moves") /\ ws' = w /\ given' = g /\ tree' = Expanded(g, tree)
  /\ preview' = [Closed EXCEPT !.loading = preview.path # None /\ preview.path \notin Images]
  /\ reading' = None /\ log' = log
Read(ok) ==
  /\ reading # None /\ reading' = None /\ (IF ok THEN left' = left ELSE Spend("fails"))
  /\ preview' = [preview EXCEPT !.loading = FALSE, !.failed = ~ok,
                                !.content = IF ok THEN [of |-> reading.of, in |-> reading.in] ELSE @]
  /\ UNCHANGED <<ws, given, tree, log>>

\* The lines that are shown, and the pointer over them.
Text == preview.path # None /\ preview.path \notin Images /\ ~preview.loading /\ ~preview.failed
Shown == IF Text /\ preview.content.of # None THEN 1 .. Lines[preview.content.of] ELSE {}
Between(a, b) == IF a <= b THEN <<a, b>> ELSE <<b, a>>
Anchor(n, shift) == IF shift /\ preview.sel # <<>> THEN preview.sel[1] ELSE n
Points(p) == preview' = p /\ Spend("points") /\ UNCHANGED <<ws, given, tree, reading, log>>
handleLineMouseDown(n, shift) ==
  /\ n \in Shown
  /\ Points([preview EXCEPT !.drag = [on |-> TRUE, anchor |-> Anchor(n, shift), moved |-> FALSE],
                            !.sel = Between(Anchor(n, shift), n)])
handleLineMouseEnter(n) ==
  /\ n \in Shown /\ preview.drag.on
  /\ Points([preview EXCEPT !.drag.moved = @ \/ preview.drag.anchor # n, !.sel = Between(preview.drag.anchor, n)])
handleLineMouseUp == preview.drag.on /\ Points([preview EXCEPT !.drag.on = FALSE, !.drag.anchor = 0])
\* The click that ends a drag selects nothing.
handleSelectLine(n, shift) ==
  /\ n \in Shown /\ ~preview.drag.on
  /\ Points(IF preview.drag.moved THEN [preview EXCEPT !.drag.moved = FALSE]
            ELSE [preview EXCEPT !.sel = Between(Anchor(n, shift), n)])
ClearSelection == Text /\ preview.sel # <<>> /\ Points([preview EXCEPT !.sel = <<>>])

\* Nothing is inserted when the composer takes none (canInsertText).
Inserts(what) == log' = log \cup {what} /\ Spend("inserts")
Mention(f) ==
  /\ f \in Rows /\ Inserts([of |-> f, in |-> ws, lines |-> <<>>, text |-> NoText])
  /\ UNCHANGED <<ws, given, tree, preview, reading>>
handleAddSelection ==
  /\ Text /\ preview.sel # <<>>
  /\ Inserts([of |-> preview.path, in |-> ws, lines |-> preview.sel, text |-> preview.content])
  /\ preview' = Closed /\ reading' = None /\ UNCHANGED <<ws, given, tree>>

----------------------------------------------------------------------------
Init ==
  /\ ws = First /\ given = [files |-> {}, modified |-> {}] /\ preview = Closed /\ reading = None /\ log = {}
  /\ tree = [mode |-> "all", query |-> "", settled |-> "", open |-> {}, manual |-> FALSE, touched |-> FALSE]
  /\ left \in Budgets

Next ==
  \/ \E w \in Workspace : SelectWorkspace(w)
  \/ \E files \in SUBSET Path : FilesArrive(files) \/ StatusArrives(files)
  \/ \E q \in Query \cup {""} : Type(q)
  \/ Settles \/ SwitchFilter \/ toggleAllFolders \/ closePreview \/ \E ok \in BOOLEAN : Read(ok)
  \/ \E p \in Rows : toggleFolder(p) \/ openPreview(p) \/ Mention(p)
  \/ \E n \in Shown : \/ handleLineMouseEnter(n)
                      \/ \E shift \in BOOLEAN : handleLineMouseDown(n, shift) \/ handleSelectLine(n, shift)
  \/ handleLineMouseUp \/ ClearSelection \/ handleAddSelection

Spec == Init /\ [][Next]_vars

----------------------------------------------------------------------------
\* The lines shown are those of the file and the workspace that are named above
\* them, though a read is answered after another file is opened, and the
\* selection is among them.  Only folders that are there are open.
PreviewIsOfItsFile ==
  /\ Text => preview.content = [of |-> preview.path, in |-> ws]
  /\ preview.sel # <<>> => /\ preview.sel[1] \in Shown /\ preview.sel[2] \in Shown
                           /\ preview.sel[1] <= preview.sel[2]
  /\ tree.open \subseteq Folders(given, tree)

\* What is put into the composer as lines of a file are lines of that file, in
\* the workspace shown then; and what a filter finds has its row at once.
InsertedIsOfTheFile ==
  /\ \A i \in log : i.lines # <<>> =>
       i.text = [of |-> i.of, in |-> i.in] /\ i.lines[2] <= Lines[i.of]
  /\ (tree.settled # "" \/ tree.mode = "modified") /\ ~tree.touched => Visible(given, tree) \subseteq Rows

\* A preview that says it is loading waits for a read of its file.
LoadingIsReading == preview.path # None => preview.loading = (reading # None /\ reading = [of |-> preview.path, in |-> ws])
=============================================================================
