----------------------------- MODULE ThreadItems -----------------------------
(***************************************************************************)
(* The rows of a conversation: what the item events and the deltas of a    *)
(* turn make of the list, how commands that only explore are folded into   *)
(* one row, how much of the list is kept, and a thread/resume answer that  *)
(* replaces it.                                                            *)
(*                                                                         *)
(* A text is a sequence of tokens; a delta is one token.  An item has a    *)
(* number, the order in which the agent began it.                          *)
(***************************************************************************)
EXTENDS Naturals, Sequences, FiniteSets, SequencesExt

CONSTANTS
  Texts,     \* what a message or a thought may say in the end
  Plain,     \* what any other item says
  MaxItems,  \* bound: items of the thread
  MaxWire,   \* bound: events on their way
  MaxOpen,   \* bound: commands that run at the same time
  Limit,     \* maxItemsPerThread
  Budgets    \* bound: what may happen in a behaviour, a set of records

VARIABLES
  items,     \* the app-server's thread
  wire,      \* events on their way, in order
  rows,      \* itemsByThread of the thread
  asked,     \* the thread/resume under way and what it read
  overtaken, \* history: a list was replaced by one read before an event it knew,
             \* or read while a command ran that began before one that had ended
  left

vars == <<items, wire, rows, asked, overtaken, left>>

Spend(what) == left[what] > 0 /\ left' = [left EXCEPT ![what] = @ - 1]
IsTool(kind) == kind \in {"command", "edit", "plan"}

(***************************************************************************)
(* A row: the ids of a review's end and of its start are the same at the   *)
(* app-server, so an id has a suffix.  covers is what it stands for.       *)
(***************************************************************************)
Row(id, kind, text, state) ==
  [id |-> <<id, 0>>, kind |-> kind, text |-> text, state |-> state, covers |-> {id}]
Index(list, id) ==
  IF \E i \in DOMAIN list : list[i].id = id
    THEN CHOOSE i \in DOMAIN list : list[i].id = id /\ \A j \in 1..(i - 1) : list[j].id # id
    ELSE 0

\* mergeStreamingText: a delta the text begins with is taken for a repetition,
\* and what its end and the delta's beginning have in common is written once.
Overlaps(text, delta) ==
  {n \in 0..Len(delta) : n <= Len(text) /\ SubSeq(text, Len(text) - n + 1, Len(text)) = SubSeq(delta, 1, n)}
MergeStreamingText(text, delta) ==
  IF IsPrefix(delta, text) THEN text
  ELSE text \o SubSeq(delta, Max(Overlaps(text, delta)) + 1, Len(delta))

(***************************************************************************)
(* prepareThreadItems.                                                     *)
(***************************************************************************)
\* An answer that only repeats the review before it is left out.
Repeats(list, i) ==
  /\ i > 1 /\ list[i].kind = "agent"
  /\ list[i - 1].kind = "review" /\ list[i - 1].state = "completed"
  /\ list[i].text = list[i - 1].text
Filtered(list) ==
  LET keep == SelectSeq([i \in DOMAIN list |-> i], LAMBDA i : ~Repeats(list, i)) IN
  [i \in DOMAIN keep |-> list[keep[i]]]
Limited(list) == IF Len(list) > Limit THEN SubSeq(list, Len(list) - Limit + 1, Len(list)) ELSE list

\* A command each part of which only reads, lists or searches is of the kind
\* "command", any other is an "edit" to the list.
OnlyExplores(row) == row.kind = "command"
\* Such a command is summarized, unless it failed.
SummarizeCommandExecution(row) ==
  IF ~OnlyExplores(row) \/ row.state = "failed" THEN row
  ELSE [row EXCEPT !.kind = "explore", !.text = <<>>]

\* Mutant: whatever their status.
SameStatusAny(a, b) == TRUE
SameStatus(a, b) == a.state = b.state
\* A row is folded into the one before it if both explore, with one status.
Fold(list, next) ==
  LET row == SummarizeCommandExecution(next) IN
  IF list # <<>> /\ row.kind = "explore" /\ Last(list).kind = "explore" /\ SameStatus(Last(list), row)
    THEN [list EXCEPT ![Len(list)].covers = @ \cup row.covers]
    ELSE Append(list, row)
SummarizeExploration(list) == FoldLeft(Fold, <<>>, list)
PrepareThreadItems(list) == SummarizeExploration(Limited(Filtered(list)))

(***************************************************************************)
(* The reducer.                                                            *)
(***************************************************************************)
Longer(new, old) == IF Len(new) >= Len(old) THEN new ELSE old
NonEmpty(new, old) == IF new # <<>> THEN new ELSE old
\* upsertItem of utils: a row of another kind is replaced.
Merged(old, new) ==
  IF old.kind # new.kind THEN new
  ELSE [new EXCEPT !.text = IF IsTool(new.kind) THEN NonEmpty(new.text, old.text)
                            ELSE Longer(new.text, old.text)]
Upserted(list, row) ==
  LET i == Index(list, row.id) IN
  IF i = 0 THEN Append(list, row) ELSE [list EXCEPT ![i] = Merged(list[i], row)]

\* A review that is listed already, with its state and text, is not listed
\* again; the end of a review has the id of its start and gets one of its own.
IsDuplicateReview(list, row) ==
  \E i \in DOMAIN list : list[i].kind = "review" /\ list[i].state = row.state /\ list[i].text = row.text
EnsureUniqueReviewId(list, row) ==
  IF row.kind = "review" /\ Index(list, row.id) # 0
    THEN [row EXCEPT !.id[2] = CHOOSE n \in 1..Len(list) :
                                 /\ Index(list, <<row.id[1], n>>) = 0
                                 /\ \A m \in 1..(n - 1) : Index(list, <<row.id[1], m>>) # 0]
    ELSE row
UpsertItem(list, row) ==
  IF row.kind = "review" /\ IsDuplicateReview(list, row) THEN list
  ELSE PrepareThreadItems(Upserted(list, EnsureUniqueReviewId(list, row)))

\* A delta of a message, of reasoning or of a plan makes the row it needs;
\* the output of a command or of an edit does not.
AppendTo(list, id, kind, delta) ==
  LET i == Index(list, <<id, 0>>)
      fresh == Row(id, kind, delta, "running")
  IN IF i = 0 THEN Append(list, fresh)
     ELSE IF list[i].kind = kind THEN [list EXCEPT ![i].text = MergeStreamingText(@, delta)]
     ELSE [list EXCEPT ![i] = fresh]
\* appendAgentDelta adds a second row rather than replace one of another kind.
AppendAgentDelta(list, id, delta) ==
  LET i == Index(list, <<id, 0>>) IN
  PrepareThreadItems(IF i # 0 /\ list[i].kind # "agent" THEN Append(list, Row(id, "agent", delta, "running"))
                     ELSE AppendTo(list, id, "agent", delta))
AppendReasoning(list, id, delta) == PrepareThreadItems(AppendTo(list, id, "think", delta))
AppendPlanDelta(list, id, delta) == PrepareThreadItems(AppendTo(list, id, "plan", delta))
AppendToolOutput(list, id, kind, delta) ==
  LET i == Index(list, <<id, 0>>) IN
  IF i = 0 \/ ~IsTool(list[i].kind) THEN list
  ELSE PrepareThreadItems([list EXCEPT ![i].text = MergeStreamingText(@, delta)])
CompleteAgentMessage(list, id, text) ==
  LET i == Index(list, <<id, 0>>) IN
  PrepareThreadItems(
    IF i # 0 /\ list[i].kind = "agent"
      THEN [list EXCEPT ![i].text = NonEmpty(text, @), ![i].state = "completed"]
      ELSE Append(list, Row(id, "agent", text, "completed")))

(***************************************************************************)
(* Events.  An event carries the item as it is when it is sent.            *)
(***************************************************************************)
\* buildConversationItem: an agent's message comes by its own events.
Built(id, item) ==
  CASE item.kind = "review" -> Row(id, "review", item.text, item.state)
    [] item.kind = "review end" -> [Row(id - 1, "review", item.text, "completed") EXCEPT !.covers = {id}]
    [] OTHER -> Row(id, item.kind, IF item.state = "running" THEN <<>> ELSE item.text, item.state)
HandleItemUpdate(list, e) ==
  IF e.item.kind = "agent" THEN list ELSE UpsertItem(list, Built(e.id, e.item))
HandleDelta(list, e) ==
  CASE e.item.kind = "agent" -> AppendAgentDelta(list, e.id, e.delta)
    [] e.item.kind = "think" -> AppendReasoning(list, e.id, e.delta)
    [] e.item.kind = "plan" -> AppendPlanDelta(list, e.id, e.delta)
    [] OTHER -> AppendToolOutput(list, e.id, e.item.kind, e.delta)
Handled(list, e) ==
  CASE e.op = "delta" -> HandleDelta(list, e)
    [] e.op = "completed" /\ e.item.kind = "agent" -> CompleteAgentMessage(list, e.id, e.item.text)
    [] OTHER -> HandleItemUpdate(list, e)

Handle ==
  /\ wire # <<>> /\ wire' = Tail(wire)
  /\ rows' = Handled(rows, Head(wire))
  /\ asked' = [asked EXCEPT !.before = IF @ > 0 THEN @ - 1 ELSE 0]
  /\ overtaken' = (overtaken \/ (asked.is = "read" /\ asked.before = 0))
  /\ UNCHANGED <<items, left>>

(***************************************************************************)
(* The agent.  Commands may run side by side; it goes on when they ended.  *)
(***************************************************************************)
Streams(kind) == kind \in {"agent", "think", "plan", "command", "edit"}
Open == {i \in DOMAIN items : items[i].state = "running"}
Event(op, id, item, delta) == [op |-> op, id |-> id, item |-> item, delta |-> delta]
Send(e) == Len(wire) < MaxWire /\ wire' = Append(wire, e)
Item(kind, text, state) == [kind |-> kind, text |-> text, state |-> state, said |-> 0]

Begin(kind, text) ==
  LET item == Item(kind, text, "running") IN
  /\ kind \in {"agent", "think"} \/ text = Plain
  /\ Len(items) < MaxItems /\ Spend(kind)
  /\ \/ Open = {}
     \/ kind = "command" /\ Cardinality(Open) < MaxOpen /\ \A i \in Open : items[i].kind = "command"
  /\ items' = Append(items, item) /\ Send(Event("started", Len(items) + 1, item, <<>>))
  /\ UNCHANGED <<rows, asked, overtaken>>
Say(i) ==
  LET item == items[i] IN
  /\ item.state = "running" /\ Streams(item.kind) /\ item.said < Len(item.text)
  /\ items' = [items EXCEPT ![i].said = @ + 1]
  /\ Send(Event("delta", i, item, <<item.text[item.said + 1]>>))
  /\ UNCHANGED <<rows, asked, overtaken, left>>
End(i, state) ==
  LET item == [items[i] EXCEPT !.state = state] IN
  /\ items[i].state = "running" /\ items[i].kind # "review"
  /\ state = "failed" => item.kind = "command"
  /\ items' = [items EXCEPT ![i] = item] /\ Send(Event("completed", i, item, <<>>))
  /\ UNCHANGED <<rows, asked, overtaken, left>>
\* A review starts and, as another item, ends; its answer is a message with
\* the text of its end.
Review ==
  LET item == Item("review", <<"start">>, "started") IN
  /\ Len(items) + 2 < MaxItems /\ Spend("review") /\ Open = {}
  /\ items' = Append(items, item) /\ Send(Event("completed", Len(items) + 1, item, <<>>))
  /\ UNCHANGED <<rows, asked, overtaken>>
EndReview(text) ==
  LET item == Item("review end", text, "completed") IN
  /\ items # <<>> /\ Last(items).kind = "review"
  /\ items' = Append(items, item) /\ Send(Event("completed", Len(items) + 1, item, <<>>))
  /\ UNCHANGED <<rows, asked, overtaken, left>>

(***************************************************************************)
(* thread/resume with the list to be replaced.  The app-server answers     *)
(* with the items that ended; events it sent before are handled before.    *)
(***************************************************************************)
Resume ==
  /\ asked.is = "none" /\ Spend("resume") /\ asked' = [asked EXCEPT !.is = "asked"]
  /\ UNCHANGED <<items, wire, rows, overtaken>>
Read ==
  /\ asked.is = "asked"
  /\ asked' = [is |-> "read", before |-> Len(wire), got |-> items]
  /\ overtaken' = (overtaken \/ \E i \in Open : \E j \in DOMAIN items : i < j /\ j \notin Open)
  /\ UNCHANGED <<items, wire, rows, left>>
\* buildItemsFromThread
BuildItemsFromThread(got) ==
  LET ended == SelectSeq([i \in DOMAIN got |-> i], LAMBDA i : got[i].state # "running") IN
  [k \in DOMAIN ended |-> Built(ended[k], got[ended[k]])]
Replaced ==
  /\ asked.is = "read" /\ asked.before = 0
  /\ LET list == BuildItemsFromThread(asked.got) IN
     rows' = IF list = <<>> THEN rows ELSE PrepareThreadItems(list)
  /\ asked' = [asked EXCEPT !.is = "none"]
  /\ UNCHANGED <<items, wire, overtaken, left>>

----------------------------------------------------------------------------
Init ==
  /\ items = <<>> /\ wire = <<>> /\ rows = <<>>
  /\ asked = [is |-> "none", before |-> 0, got |-> <<>>]
  /\ overtaken = FALSE /\ left \in Budgets

Next ==
  \/ \E kind \in {"user", "agent", "think", "plan", "command", "edit"}, text \in Texts \cup {Plain} : Begin(kind, text)
  \/ \E i \in DOMAIN items : Say(i) \/ End(i, "completed") \/ End(i, "failed")
  \/ Review \/ \E text \in Texts : EndReview(text)
  \/ Handle \/ Resume \/ Read \/ Replaced

Spec == Init /\ [][Next]_vars

----------------------------------------------------------------------------
Quiet == wire = <<>> /\ asked.is = "none" /\ Open = {} /\ ~overtaken
Beside(a, b) == \A i \in a..b : items[i].kind = "command"
Says(row) ==
  row.kind = "explore" \/ \E i \in row.covers : row.text = items[i].text /\ row.state = items[i].state
Silent(i) == \* the answer that repeats its review
  i > 1 /\ items[i].kind = "agent" /\ items[i - 1].kind = "review end" /\ items[i].text = items[i - 1].text

\* When every event is handled the list shows what the thread says: each row
\* what its item says in the end, each item in one row, in the agent's order
\* (commands one after the other in any), none of the last Limit items missing, whatever the deltas made of the
\* texts and however rows were folded on the way (threadItems.ts:610, :648).
ShownIsSaid ==
  Quiet =>
    /\ \A k \in DOMAIN rows : Says(rows[k])
    /\ \A j, k \in DOMAIN rows : j < k =>
         /\ rows[j].covers \cap rows[k].covers = {}
         /\ \A a \in rows[k].covers, b \in rows[j].covers : a < b => Beside(a, b)
    /\ \A i \in DOMAIN items : (i > Len(items) - Limit /\ ~Silent(i)) => \E k \in DOMAIN rows : i \in rows[k].covers
=============================================================================
