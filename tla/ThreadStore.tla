----------------------------- MODULE ThreadStore -----------------------------
(***************************************************************************)
(* The reducer of the conversation front end (useThreadsReducer.ts): what  *)
(* the window knows of the workspaces' threads, and one operator per       *)
(* reducer action.  A dispatch takes effect on the store at once; what a   *)
(* callback reads is the store of the last render, which the modules that  *)
(* use this one keep beside it.                                            *)
(*                                                                         *)
(* A record the code has not written yet reads as its default, so every    *)
(* map of the code is a total function here.  The conversation items have  *)
(* a module of their own (ThreadItems); here a thread only has items or    *)
(* has none.                                                               *)
(***************************************************************************)
EXTENDS Integers, FiniteSets, SequencesExt

CONSTANTS Workspaces, Threads, None

ASSUME NoneAssumption == None \notin Threads \cup Workspaces

\* A status the reducer has not written: not processing, read, not in review.
Unwritten ==
  [processing |-> FALSE, unread |-> FALSE, reviewing |-> FALSE, since |-> 0]

InitialState ==
  [active    |-> [w \in Workspaces |-> None],
   list      |-> [w \in Workspaces |-> <<>>],
   hidden    |-> [w \in Workspaces |-> {}],
   parent    |-> [t \in Threads |-> None],
   status    |-> [t \in Threads |-> Unwritten],
   turn      |-> [t \in Threads |-> None],
   filled    |-> {},
   plan      |-> [t \in Threads |-> None],
   last      |-> [t \in Threads |-> 0],
   resuming  |-> {},
   listing   |-> {},
   paging    |-> {},
   cursor    |-> [w \in Workspaces |-> None],
   approvals |-> <<>>,
   inputs    |-> <<>>]

IdsOf(list) == {list[i].id : i \in 1..Len(list)}
ListIds(s, w) == IdsOf(s.list[w])

\* The elements of a sequence that are in a set, in their order: SelectSeq as a
\* recursive function, which a proof can unfold.
Those(seq, set) ==
  LET kept[i \in Nat] ==
        IF i = 0 THEN <<>>
        ELSE IF seq[i] \in set THEN Append(kept[i - 1], seq[i]) ELSE kept[i - 1]
  IN kept[Len(seq)]

\* The rows of a list whose thread is one of these.
Of(list, ids) == Those(list, {summary \in ToSet(list) : summary.id \in ids})
Without(list, t) == Of(list, IdsOf(list) \ {t})
FirstOr(list) == IF list = <<>> THEN None ELSE list[1].id

(***************************************************************************)
(* threadLifecycleSlice.ts                                                 *)
(***************************************************************************)
SetActiveThreadId(s, w, t) ==
  [s EXCEPT !.active[w] = t,
            !.status = IF t = None THEN @ ELSE [@ EXCEPT ![t].unread = FALSE]]

\* A thread that is hidden or listed already is left as it is.
EnsureThread(s, w, t) ==
  IF t \in s.hidden[w] \/ t \in ListIds(s, w)
    THEN s
    ELSE [s EXCEPT !.list[w] = <<[id |-> t, name |-> "new", at |-> 0]>> \o @,
                   !.status[t] = Unwritten,
                   !.active[w] = IF @ = None THEN t ELSE @]

ActiveWithout(s, w, t) ==
  IF s.active[w] = t THEN FirstOr(Without(s.list[w], t)) ELSE s.active[w]

HideThread(s, w, t) ==
  IF t \in s.hidden[w]
    THEN s
    ELSE [s EXCEPT !.hidden[w] = @ \cup {t},
                   !.list[w] = Without(@, t),
                   !.active[w] = ActiveWithout(s, w, t)]

\* Mutant: the row goes, the thread stays open.
RemoveThreadStaysOpen(s, w, t) ==
  [s EXCEPT !.list[w] = Without(@, t), !.filled = @ \ {t}, !.parent[t] = None]

RemoveThread(s, w, t) ==
  [s EXCEPT !.list[w] = Without(@, t),
            !.filled = @ \ {t},
            !.status[t] = Unwritten,
            !.turn[t] = None,
            !.plan[t] = None,
            !.parent[t] = None,
            !.active[w] = ActiveWithout(s, w, t)]

SetThreadParent(s, t, p) ==
  IF p = None \/ p = t THEN s ELSE [s EXCEPT !.parent[t] = p]

\* The processing clock starts once and survives a second mark.
MarkProcessing(s, t, on, now) ==
  [s EXCEPT !.status[t].processing = on,
            !.status[t].since =
               IF ~on THEN 0
               ELSE IF s.status[t].processing /\ @ > 0 THEN @ ELSE now]

SetActiveTurnIdToThread(s, t, turn) == [s EXCEPT !.turn[t] = t]   \* mutant: wrong id
SetActiveTurnId(s, t, turn) == [s EXCEPT !.turn[t] = turn]
MarkReviewing(s, t, on) == [s EXCEPT !.status[t].reviewing = on]
MarkUnread(s, t, on) == [s EXCEPT !.status[t].unread = on]

SetThreadName(s, w, t, name) ==
  [s EXCEPT !.list[w] =
     [i \in DOMAIN @ |-> IF @[i].id = t THEN [@[i] EXCEPT !.name = name] ELSE @[i]]]

\* A newer activity moves the thread to the front when the list is sorted by
\* activity.
SetThreadTimestamp(s, w, t, now, byUpdate) ==
  LET list == s.list[w]
      stale == {i \in DOMAIN list : list[i].id = t /\ list[i].at < now}
      next == [i \in DOMAIN list |->
                 IF i \in stale THEN [list[i] EXCEPT !.at = now] ELSE list[i]]
  IN IF stale = {}
       THEN s
       ELSE [s EXCEPT !.list[w] =
               IF byUpdate THEN Of(next, {t}) \o Without(next, t) ELSE next]

Visible(s, w, threads) == Of(threads, IdsOf(threads) \ s.hidden[w])

\* setThreads as the pagination dispatches it: the list is replaced, and a
\* thread that is no longer in it is no longer open.
ReplaceThreads(s, w, threads) ==
  LET shown == Visible(s, w, threads)
  IN [s EXCEPT !.list[w] = shown,
               !.active[w] = IF @ # None /\ @ \in IdsOf(shown) THEN @ ELSE FirstOr(shown)]

\* The chain of parents of a thread; a cycle ends it.
AncestorsIn(parent, t) ==
  LET up[n \in Nat] == IF n = 0 THEN {t}
                       ELSE up[n - 1] \cup ({parent[u] : u \in up[n - 1]} \ {None})
  IN up[Cardinality(Threads)] \ {t}
Ancestors(s, t) == AncestorsIn(s.parent, t)

\* setThreads with preserveAnchors: the open thread, the threads that run and
\* the ancestors of all that is listed keep their row, freshened, in that order.
AnchorThreads(s, w, threads) ==
  LET shown == Visible(s, w, threads)
      old == Visible(s, w, s.list[w])
      fresh(summary) ==
        LET marks == {summary.at, s.last[summary.id], s.status[summary.id].since}
        IN [summary EXCEPT !.at = CHOOSE m \in marks : \A n \in marks : m >= n]
      lost == Of(old, IdsOf(old) \ IdsOf(shown))
      running == {t \in IdsOf(lost) \ {s.active[w]} : s.status[t].processing}
      seeds == Of(lost, {s.active[w]}) \o Of(lost, running)
      kept == IdsOf(shown) \cup IdsOf(seeds)
      above == UNION {Ancestors(s, t) : t \in kept} \ kept
      rows == seeds \o Of(lost, above)
  IN [s EXCEPT !.list[w] = shown \o [i \in DOMAIN rows |-> fresh(rows[i])]]

SetResumeLoading(s, t, on) ==
  [s EXCEPT !.resuming = IF on THEN @ \cup {t} ELSE @ \ {t}]
SetListLoading(s, w, on) ==
  [s EXCEPT !.listing = IF on THEN @ \cup {w} ELSE @ \ {w}]
SetListPaging(s, w, on) ==
  [s EXCEPT !.paging = IF on THEN @ \cup {w} ELSE @ \ {w}]
SetListCursor(s, w, cursor) == [s EXCEPT !.cursor[w] = cursor]

(***************************************************************************)
(* threadQueueSlice.ts: approvals and questions the server waits on,       *)
(* one row per request.                                                    *)
(***************************************************************************)
Added(seq, request) ==
  IF \E i \in DOMAIN seq : seq[i] = request THEN seq ELSE Append(seq, request)
Removed(seq, request) == RemoveFirst(seq, request)

AddApproval(s, request) == [s EXCEPT !.approvals = Added(@, request)]
RemoveApproval(s, request) == [s EXCEPT !.approvals = Removed(@, request)]
AddUserInputRequest(s, request) == [s EXCEPT !.inputs = Added(@, request)]
RemoveUserInputRequest(s, request) == [s EXCEPT !.inputs = Removed(@, request)]

(***************************************************************************)
(* threadSnapshotSlice.ts and the part of threadItemsSlice.ts a thread's   *)
(* row depends on.                                                         *)
(***************************************************************************)
SetLastAgentMessage(s, t, now) ==
  IF s.last[t] >= now THEN s ELSE [s EXCEPT !.last[t] = now]
SetThreadPlan(s, t, plan) == [s EXCEPT !.plan[t] = plan]
FillItems(s, t) == [s EXCEPT !.filled = @ \cup {t}]
=============================================================================
