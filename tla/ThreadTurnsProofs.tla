--------------------------- MODULE ThreadTurnsProofs ---------------------------
(***************************************************************************)
(* Theorems about ThreadTurns: its types, and that no submitted message is *)
(* lost between the composer, the queue, the requests and their answers.   *)
(***************************************************************************)
EXTENDS ThreadTurns, SequenceTheorems, WellFoundedInduction, TLAPS

----------------------------------------------------------------------------
(* Sequences                                                                *)

LEMMA SeqIn ==
    ASSUME NEW S, NEW s \in Seq(S)
    PROVE  /\ DOMAIN s = 1..Len(s) /\ Len(s) \in Nat
           /\ \A i \in DOMAIN s : s[i] \in S
  OBVIOUS

\* Every entry but the one at i stays, and none comes.
LEMMA RemoveAtKeeps ==
    ASSUME NEW S, NEW s \in Seq(S), NEW i \in 1..Len(s)
    PROVE  /\ RemoveAt(s, i) \in Seq(S)
           /\ \A j \in 1..Len(s) : j # i =>
                \E k \in 1..Len(RemoveAt(s, i)) : RemoveAt(s, i)[k] = s[j]
           /\ \A k \in 1..Len(RemoveAt(s, i)) :
                \E j \in 1..Len(s) : RemoveAt(s, i)[k] = s[j]
  <1> DEFINE a == SubSeq(s, 1, i - 1)
             b == SubSeq(s, i + 1, Len(s))
  <1>1. /\ a \in Seq(S) /\ Len(a) = i - 1
        /\ \A k \in 1..(i - 1) : a[k] = s[k]
    OBVIOUS
  <1>2. /\ b \in Seq(S) /\ Len(b) = Len(s) - i
        /\ \A k \in 1..(Len(s) - i) : b[k] = s[i + k]
    OBVIOUS
  <1> HIDE DEF a, b
  <1>3. /\ a \o b \in Seq(S) /\ Len(a \o b) = Len(s) - 1
        /\ \A k \in 1..(Len(s) - 1) : (a \o b)[k] = IF k < i THEN s[k] ELSE s[k + 1]
    <2>1. a \o b \in Seq(S) /\ Len(a \o b) = Len(s) - 1
      BY <1>1, <1>2
    <2>2. ASSUME NEW k \in 1..(Len(s) - 1), k < i
          PROVE  (a \o b)[k] = s[k]
      BY <1>1, <1>2, <2>2
    <2>3. ASSUME NEW k \in 1..(Len(s) - 1), ~ k < i
          PROVE  (a \o b)[k] = s[k + 1]
      <3>1. k - (i - 1) \in 1..(Len(s) - i)
        BY <2>3
      <3>2. (a \o b)[k] = b[k - (i - 1)]
        BY <1>1, <1>2, <2>3
      <3>3. b[k - (i - 1)] = s[i + (k - (i - 1))]
        BY <1>2, <3>1
      <3> QED
        BY <3>2, <3>3
    <2> QED
      BY <2>1, <2>2, <2>3
  <1>4. RemoveAt(s, i) = a \o b
    BY DEF RemoveAt, a, b
  <1>5. ASSUME NEW j \in 1..Len(s), j # i
        PROVE  \E k \in 1..Len(a \o b) : (a \o b)[k] = s[j]
    <2>1. CASE j < i
      <3>1. j \in 1..Len(a \o b) /\ (a \o b)[j] = s[j]
        BY <1>3, <2>1
      <3> QED
        BY <3>1
    <2>2. CASE j > i
      <3>1. j - 1 \in 1..(Len(s) - 1) /\ ~(j - 1 < i)
        BY <2>2
      <3>2. (a \o b)[j - 1] = s[(j - 1) + 1]
        BY <1>3, <3>1
      <3>3. j - 1 \in 1..Len(a \o b) /\ (a \o b)[j - 1] = s[j]
        BY <1>3, <3>1, <3>2
      <3> QED
        BY <3>3
    <2> QED
      BY <1>5, <2>1, <2>2
  <1>6. ASSUME NEW k \in 1..Len(a \o b)
        PROVE  \E j \in 1..Len(s) : (a \o b)[k] = s[j]
    <2>1. k \in 1..Len(s) /\ k + 1 \in 1..Len(s)
      BY <1>3
    <2> QED
      BY <1>3, <2>1
  <1> QED
    BY <1>3, <1>4, <1>5, <1>6

LEMMA LeastIndex ==
    ASSUME NEW I \in SUBSET Nat, I # {}
    PROVE  \E i \in I : \A j \in I : i <= j
  <1>1. PICK i \in I : \A j \in I : ~ (<<j, i>> \in OpToRel(<, Nat))
    BY WFMin, NatLessThanWellFounded
  <1>2. ASSUME NEW j \in I
        PROVE  i <= j
    <2>1. ~ (<<j, i>> \in OpToRel(<, Nat))
      BY <1>1
    <2>2. <<j, i>> \in Nat \X Nat
      OBVIOUS
    <2>3. ~ (j < i)
      BY <2>1, <2>2 DEF OpToRel
    <2> QED
      BY <2>3
  <1> QED
    BY <1>2

\* Only e goes from s.
LEMMA RemoveFirstKeeps ==
    ASSUME NEW S, NEW s \in Seq(S), NEW e
    PROVE  /\ RemoveFirst(s, e) \in Seq(S)
           /\ \A x : x # e /\ Contains(s, x) => Contains(RemoveFirst(s, e), x)
  <1>1. CASE \E i \in 1..Len(s) : s[i] = e
    <2> DEFINE I == {i \in 1..Len(s) : s[i] = e}
    <2>1. I \in SUBSET Nat /\ I # {}
      BY <1>1
    <2>2. PICK i \in I : \A j \in I : i <= j
      BY <2>1, LeastIndex
    <2>3. Min(I) \in I
      BY <2>1, <2>2 DEF Min
    <2>4. SelectInSeq(s, LAMBDA v : v = e) = Min(I)
      BY <2>1 DEF SelectInSeq
    <2>5. RemoveFirst(s, e) = RemoveAt(s, Min(I))
      BY <1>1, <2>4 DEF RemoveFirst
    <2>6. Min(I) \in 1..Len(s) /\ s[Min(I)] = e
      BY <2>3
    <2> HIDE DEF I
    <2>7. RemoveAt(s, Min(I)) \in Seq(S)
      BY <2>6, RemoveAtKeeps
    <2>8. ASSUME NEW x, x # e, Contains(s, x)
          PROVE  Contains(RemoveAt(s, Min(I)), x)
      BY <2>6, <2>8, RemoveAtKeeps DEF Contains
    <2> QED
      BY <2>5, <2>7, <2>8
  <1>2. CASE ~ \E i \in 1..Len(s) : s[i] = e
    BY <1>2 DEF RemoveFirst
  <1> QED
    BY <1>1, <1>2

----------------------------------------------------------------------------
(* Types                                                                    *)

OrNone(S) == S \cup {None}
Status == [processing : BOOLEAN, unread : BOOLEAN, reviewing : BOOLEAN, since : Nat]
Request == [thread : Threads, turn : Turn]

\* The reducer's state, with whatever rows; approvals and paging are left alone.
StoreWith(rows) ==
    [active : [Workspaces -> OrNone(Threads)], list : [Workspaces -> rows],
     hidden : [Workspaces -> {{}}], parent : [Threads -> OrNone(Threads)],
     status : [Threads -> Status], turn : [Threads -> Turn], filled : SUBSET Threads,
     plan : [Threads -> {None}], last : [Threads -> {0}], resuming : SUBSET Threads,
     listing : {{}}, paging : {{}}, cursor : [Workspaces -> {None}],
     approvals : {<<>>}, inputs : Seq(Request)]
IsStore(s) == \E rows : s \in StoreWith(rows)

LEMMA StoreFields ==
    ASSUME NEW s, IsStore(s)
    PROVE  /\ s.active \in [Workspaces -> OrNone(Threads)]
           /\ s.status \in [Threads -> Status]
           /\ s.turn \in [Threads -> Turn]
           /\ s.filled \in SUBSET Threads
           /\ s.inputs \in Seq(Request)
           /\ s.hidden \in [Workspaces -> {{}}]
  BY DEF IsStore, StoreWith

LEMMA InitialIsStore == IsStore(InitialState)
  <1>1. InitialState \in StoreWith({<<>>})
    <2>1. Unwritten \in Status
      BY DEF Unwritten, Status
    <2> QED
      BY <2>1 DEF InitialState, StoreWith, OrNone, Turn
  <1> QED
    BY <1>1 DEF IsStore

LEMMA SetActiveIsStore ==
    ASSUME NEW s, IsStore(s), NEW w \in Workspaces, NEW t \in Threads
    PROVE  IsStore(SetActiveThreadId(s, w, t))
  <1>1. PICK rows : s \in StoreWith(rows)
    BY DEF IsStore
  <1> DEFINE read == [s.status EXCEPT ![t].unread = FALSE]
             open == [s.active EXCEPT ![w] = t]
  <1>2. read \in [Threads -> Status] /\ open \in [Workspaces -> OrNone(Threads)]
    <2>1. s.status[t] \in Status
      BY <1>1 DEF StoreWith
    <2>2. [s.status[t] EXCEPT !.unread = FALSE] \in Status
      BY <2>1 DEF Status
    <2> QED
      BY <1>1, <2>2 DEF StoreWith, OrNone
  <1>3. SetActiveThreadId(s, w, t) = [s EXCEPT !.active = open, !.status = read]
    BY NoneAssumption DEF SetActiveThreadId
  <1> HIDE DEF read, open
  <1>4. SetActiveThreadId(s, w, t) \in StoreWith(rows)
    BY <1>1, <1>2, <1>3 DEF StoreWith
  <1> QED
    BY <1>4 DEF IsStore

LEMMA SetTurnIsStore ==
    ASSUME NEW s, IsStore(s), NEW t \in Threads, NEW turn \in Turn
    PROVE  IsStore(SetActiveTurnId(s, t, turn))
  BY DEF IsStore, StoreWith, SetActiveTurnId

LEMMA MarksAreStore ==
    ASSUME NEW s, IsStore(s), NEW t \in Threads, NEW on \in BOOLEAN
    PROVE  /\ IsStore(MarkProcessing(s, t, on, 1))
           /\ IsStore(MarkReviewing(s, t, on))
           /\ IsStore(MarkUnread(s, t, on))
           /\ IsStore(SetResumeLoading(s, t, on))
  <1>1. PICK rows : s \in StoreWith(rows)
    BY DEF IsStore
  <1>2. s.status[t] \in Status
    BY <1>1 DEF StoreWith
  <1>3. ASSUME NEW mark \in Status
        PROVE  [s EXCEPT !.status[t] = mark] \in StoreWith(rows)
    BY <1>1 DEF StoreWith
  <1>4. MarkProcessing(s, t, on, 1) \in StoreWith(rows)
    <2> DEFINE since == IF ~on THEN 0
                        ELSE IF s.status[t].processing /\ s.status[t].since > 0
                        THEN s.status[t].since ELSE 1
               mark == [s.status[t] EXCEPT !.processing = on, !.since = since]
    <2>1. mark \in Status
      BY <1>2 DEF Status
    <2>2. MarkProcessing(s, t, on, 1) = [s EXCEPT !.status[t] = mark]
      BY <1>1 DEF MarkProcessing, StoreWith
    <2> QED
      BY <1>3, <2>1, <2>2
  <1>5. /\ MarkReviewing(s, t, on) \in StoreWith(rows)
        /\ MarkUnread(s, t, on) \in StoreWith(rows)
    <2>1. /\ [s.status[t] EXCEPT !.reviewing = on] \in Status
          /\ [s.status[t] EXCEPT !.unread = on] \in Status
      BY <1>2 DEF Status
    <2>2. /\ MarkReviewing(s, t, on) = [s EXCEPT !.status[t] = [s.status[t] EXCEPT !.reviewing = on]]
          /\ MarkUnread(s, t, on) = [s EXCEPT !.status[t] = [s.status[t] EXCEPT !.unread = on]]
      BY <1>1 DEF MarkReviewing, MarkUnread, StoreWith
    <2> QED
      BY <1>3, <2>1, <2>2
  <1>6. SetResumeLoading(s, t, on) \in StoreWith(rows)
    BY <1>1 DEF SetResumeLoading, StoreWith
  <1> QED
    BY <1>4, <1>5, <1>6 DEF IsStore

LEMMA FillIsStore ==
    ASSUME NEW s, IsStore(s), NEW t \in Threads
    PROVE  IsStore(FillItems(s, t))
  BY DEF IsStore, StoreWith, FillItems

LEMMA ParentIsStore ==
    ASSUME NEW s, IsStore(s), NEW t \in Threads, NEW p \in Threads
    PROVE  IsStore(SetThreadParent(s, t, p))
  BY DEF IsStore, StoreWith, SetThreadParent, OrNone

\* Whatever the rows become, the rest of the state is what it was.
LEMMA RowsAreStore ==
    ASSUME NEW s, IsStore(s), NEW w \in Workspaces, NEW t \in Threads
    PROVE  /\ IsStore(EnsureThread(s, w, t))
           /\ IsStore(SetThreadTimestamp(s, w, t, 1, TRUE))
  <1>1. PICK rows : s \in StoreWith(rows)
    BY DEF IsStore
  <1>2. ASSUME NEW x
        PROVE  IsStore([s EXCEPT !.list[w] = x])
    <2>1. [s EXCEPT !.list[w] = x] \in StoreWith(rows \cup {x})
      BY <1>1 DEF StoreWith
    <2> QED
      BY <2>1 DEF IsStore
  <1>3. ASSUME NEW x
        PROVE  IsStore([s EXCEPT !.list[w] = x, !.status[t] = Unwritten,
                                 !.active[w] = IF @ = None THEN t ELSE @])
    <2>1. Unwritten \in Status
      BY DEF Unwritten, Status
    <2>2. [s EXCEPT !.list[w] = x, !.status[t] = Unwritten,
                    !.active[w] = IF @ = None THEN t ELSE @] \in StoreWith(rows \cup {x})
      BY <1>1, <2>1 DEF StoreWith, OrNone
    <2> QED
      BY <2>2 DEF IsStore
  <1>4. IsStore(EnsureThread(s, w, t))
    BY <1>3 DEF EnsureThread
  <1>5. IsStore(SetThreadTimestamp(s, w, t, 1, TRUE))
    BY <1>2 DEF SetThreadTimestamp
  <1> QED
    BY <1>4, <1>5

LEMMA InputsAreStore ==
    ASSUME NEW s, IsStore(s), NEW r \in Request
    PROVE  /\ IsStore(AddUserInputRequest(s, r))
           /\ IsStore(RemoveUserInputRequest(s, r))
  <1>1. PICK rows : s \in StoreWith(rows)
    BY DEF IsStore
  <1>2. s.inputs \in Seq(Request)
    BY <1>1 DEF StoreWith
  <1>3. Added(s.inputs, r) \in Seq(Request) /\ Removed(s.inputs, r) \in Seq(Request)
    BY <1>2, RemoveFirstKeeps DEF Added, Removed
  <1>4. /\ AddUserInputRequest(s, r) \in StoreWith(rows)
        /\ RemoveUserInputRequest(s, r) \in StoreWith(rows)
    BY <1>1, <1>3 DEF AddUserInputRequest, RemoveUserInputRequest, StoreWith
  <1> QED
    BY <1>4 DEF IsStore

Ops == {"send", "new", "review", "command", "read", "stop", "reply"}
From == {"composer", "queue", "user", "event", "select", "refresh"}
CallRec ==
    [op : Ops, msg : OrNone(Messages), from : From, home : OrNone(Threads),
     thread : OrNone(Threads), stage : {"opening", "ensure", "opened", "issued", "sent"},
     processing : BOOLEAN, turn : Turn, intent : {"default", "queue", "steer"},
     steer : BOOLEAN, filled : BOOLEAN, answer : {None}]

NoteRec ==
    [type : {"thread/started", "turn/started", "turn/completed", "error", "thread/closed",
             "active", "idle", "notLoaded", "item/started", "entered", "exited", "ask"},
     thread : Threads, turn : Turn]
AnswerRec ==
    [type : {"answer"}, passed : Nat, call : CallRec, ok : BOOLEAN, turn : Turn,
     child : OrNone(Threads), review : BOOLEAN, sure : BOOLEAN, stale : BOOLEAN]
Line == NoteRec \cup AnswerRec

ServerRec ==
    [turn : [Threads -> Turn], review : [Threads -> BOOLEAN], asking : [Threads -> BOOLEAN],
     ran : SUBSET Threads, threads : SUBSET Threads, next : Nat \ {0}, wire : Seq(Line)]

WindowTyped ==
    /\ IsStore(store)
    /\ queued \in [Threads -> Seq(Messages)]
    /\ inFlight \in [Threads -> OrNone(Messages)]
    /\ started \in [Threads -> BOOLEAN]
    /\ known \in [Threads -> [turn : Turn \cup {Unset}, reducer : Turn \cup {Unset},
                              optimistic : BOOLEAN]]
    /\ pending \in SUBSET Threads
    /\ loaded \in SUBSET Threads

ViewTyped ==
    /\ IsStore(seen.store)
    /\ seen.queued \in [Threads -> Seq(Messages)]
    /\ seen.inFlight \in [Threads -> OrNone(Messages)]
    /\ seen.started \in [Threads -> BOOLEAN]
    /\ effects \in BOOLEAN
    /\ handled \in 0..Batch

MessagesTyped ==
    /\ fate \in [Messages -> {"open", "accepted", "told", "unstarted", "removed"}]
    /\ drafts \in SUBSET Messages
    /\ scene \in Scene

(***************************************************************************)
(* A call under way: only reads, stops and replies carry no message; a     *)
(* call without a thread waits for one; what the queue sent, or what is to *)
(* steer, belongs to a thread.                                             *)
(***************************************************************************)
Proper(c) ==
    /\ c \in CallRec
    /\ c.msg = None <=> c.op \in {"read", "stop", "reply"}
    /\ c.op = "command" => c.stage = "sent"
    /\ c.op \in {"stop", "reply"} => c.stage \in {"issued", "sent"}
    /\ c.op = "read" => c.stage \in {"opening", "ensure"}
    /\ c.op = "new" => c.stage \notin {"issued", "sent"}
    /\ c.thread = None => \/ c.op = "command"
                          \/ c.op \in {"send", "new", "review"} /\ c.stage \in {"opening", "ensure"}
    /\ c.from = "queue" \/ c.steer => c.home # None

CallsProper ==
    /\ calls \in Seq(CallRec)
    /\ \A i \in 1..Len(calls) : Proper(calls[i]) /\ calls[i].stage # "opened"

\* The fate of a message is settled before its answer says that all is well.
ProperLine(l) ==
    l.type = "answer" =>
        /\ Proper(l.call)
        /\ l.call.stage \in {"ensure", "opened", "sent"}
        /\ l.ok /\ l.call.stage = "sent" /\ l.call.op \in {"send", "review"} =>
             fate[l.call.msg] # "open"
        /\ l.ok /\ l.call.op = "review" => l.child # None

WireProper ==
    /\ server \in ServerRec
    /\ \A i \in 1..Len(server.wire) : ProperLine(server.wire[i])

TypeInv == WindowTyped /\ ViewTyped /\ MessagesTyped /\ CallsProper /\ WireProper

----------------------------------------------------------------------------
(* Calls                                                                    *)

LEMMA OpenTyped ==
    ASSUME ViewTyped
    PROVE  /\ Open \in OrNone(Threads)
           /\ Open # None => Open \in Threads
           /\ \A t \in Threads : /\ Processing(t) \in BOOLEAN /\ Reviewing(t) \in BOOLEAN
                                 /\ seen.store.turn[t] \in Turn
  BY StoreFields, TurnsAssumption DEF ViewTyped, Open, OrNone, Processing, Reviewing, Status

\* A new call: it belongs to the thread it was made for and waits to be opened.
IsNewCall(c, op, m, from, t) ==
    /\ c \in CallRec /\ c.op = op /\ c.msg = m /\ c.from = from /\ c.home = t
    /\ c.thread = t /\ c.stage = "opening" /\ c.steer = FALSE

LEMMA CallTyped ==
    ASSUME ViewTyped
    PROVE  \A op \in Ops, m \in OrNone(Messages), from \in From, t \in OrNone(Threads) :
             IsNewCall(Call(op, m, from, t), op, m, from, t)
  <1> SUFFICES ASSUME NEW op \in Ops, NEW m \in OrNone(Messages), NEW from \in From,
                      NEW t \in OrNone(Threads)
               PROVE  IsNewCall(Call(op, m, from, t), op, m, from, t)
    OBVIOUS
  <1>1. (t # None /\ Processing(t)) \in BOOLEAN
    OBVIOUS
  <1>2. (IF t = None THEN None ELSE seen.store.turn[t]) \in Turn
    BY OpenTyped DEF OrNone, Turn
  <1> QED
    BY <1>1, <1>2 DEF Call, CallRec, OrNone, IsNewCall

\* A call added to those under way keeps all of them.
LEMMA AppendKeeps ==
    ASSUME CallsProper, NEW c, Proper(c), c.stage # "opened", calls' = Append(calls, c)
    PROVE  /\ CallsProper'
           /\ \E k \in 1..Len(calls') : calls'[k].msg = c.msg
           /\ \A i \in 1..Len(calls) : \E k \in 1..Len(calls') : calls'[k].msg = calls[i].msg
  <1>1. c \in CallRec /\ calls \in Seq(CallRec)
    BY DEF Proper, CallsProper
  <1>2. /\ calls' \in Seq(CallRec) /\ Len(calls') = Len(calls) + 1
        /\ calls'[Len(calls) + 1] = c
        /\ \A i \in 1..Len(calls) : calls'[i] = calls[i]
    BY <1>1
  <1>3. \A i \in 1..Len(calls') : i \in 1..Len(calls) \/ i = Len(calls) + 1
    BY <1>1, <1>2
  <1>4. CallsProper'
    BY <1>2, <1>3 DEF CallsProper, Proper
  <1>5. \A i \in 1..Len(calls) : i \in 1..Len(calls')
    BY <1>1, <1>2
  <1>6. Len(calls) + 1 \in 1..Len(calls')
    BY <1>1, <1>2
  <1> QED
    BY <1>2, <1>4, <1>5, <1>6

Fates == {"open", "accepted", "told", "unstarted", "removed"}

\* No call is dropped, and a message whose fate is settled stays so.
CallsKept == \A i \in 1..Len(calls) : \E k \in 1..Len(calls') : calls'[k].msg = calls[i].msg
FateKept ==
    /\ fate' \in [Messages -> Fates]
    /\ \A n \in Messages : fate[n] # "open" => fate'[n] # "open"

LEMMA FateSet ==
    ASSUME MessagesTyped, NEW m, NEW f \in Fates \ {"open"},
           fate' = [fate EXCEPT ![m] = f]
    PROVE  FateKept /\ (m \in Messages => fate'[m] # "open")
  BY DEF MessagesTyped, FateKept, Fates

LEMMA FateUnchanged ==
    ASSUME MessagesTyped, UNCHANGED fate
    PROVE  FateKept
  BY DEF MessagesTyped, FateKept, Fates

LEMMA CallsUnchanged ==
    ASSUME CallsProper, UNCHANGED calls
    PROVE  CallsProper' /\ CallsKept
  BY DEF CallsProper, Proper, CallsKept

LEMMA ToldIsStore ==
    ASSUME ViewTyped, NEW s, IsStore(s), NEW t \in Threads
    PROVE  IsStore(Told(s, t))
  BY FillIsStore, MarksAreStore DEF Told

LEMMA BegunIsStore ==
    ASSUME NEW s, IsStore(s), NEW t \in Threads
    PROVE  IsStore(Begun(s, t)) /\ IsStore(Reviewed(s, t))
  <1>1. IsStore(SetThreadTimestamp(s, Workspace, t, 1, TRUE))
    BY RowsAreStore, TurnsAssumption
  <1>2. IsStore(MarkProcessing(s, t, TRUE, 1))
    BY MarksAreStore
  <1> QED
    BY <1>1, <1>2, MarksAreStore DEF Begun, Reviewed

\* A call that has its thread issues its request.
LEMMA IssuedProper ==
    ASSUME NEW c \in CallRec, Proper(c), NEW t \in Threads, c.op \in {"send", "new"}
    PROVE  /\ Proper(Issued([c EXCEPT !.op = "send"], t))
           /\ Issued([c EXCEPT !.op = "send"], t).msg = c.msg
           /\ Issued([c EXCEPT !.op = "send"], t).stage = "issued"
  <1> DEFINE d == [c EXCEPT !.op = "send"]
             steers == d.intent # "queue" /\ t = d.home /\ CanSteer(d.processing, d.turn)
  <1>1. d \in CallRec /\ d.op = "send" /\ d.msg = c.msg /\ d.home = c.home /\ d.from = c.from
    BY DEF CallRec, Ops
  <1>2. steers \in BOOLEAN
    OBVIOUS
  <1>3. steers => d.home # None
    BY NoneAssumption
  <1>4. Issued(d, t) = [d EXCEPT !.thread = t, !.stage = "issued", !.steer = steers]
    BY DEF Issued
  <1> HIDE DEF d, steers
  <1>5. /\ Issued(d, t) \in CallRec
        /\ Issued(d, t).op = "send" /\ Issued(d, t).msg = c.msg
        /\ Issued(d, t).home = c.home /\ Issued(d, t).from = c.from
        /\ Issued(d, t).stage = "issued" /\ Issued(d, t).thread = t
        /\ Issued(d, t).steer = steers
    BY <1>1, <1>2, <1>4 DEF CallRec, OrNone
  <1>6. Proper(Issued(d, t))
    BY <1>1, <1>3, <1>5, NoneAssumption DEF Proper
  <1> QED
    BY <1>5, <1>6 DEF d

(***************************************************************************)
(* What a message that is run becomes: a call, or a row that tells why it  *)
(* is none.                                                                *)
(***************************************************************************)
LEMMA RunKeeps ==
    ASSUME TypeInv, NEW m \in Messages, NEW from \in {"composer", "queue"},
           NEW intent \in {"default", "queue", "steer"},
           from = "queue" => Open # None, Run(m, from, intent)
    PROVE  /\ IsStore(store') /\ CallsProper' /\ CallsKept /\ FateKept
           /\ fate'[m] # "open" \/ \E k \in 1..Len(calls') : calls'[k].msg = m
  <1>0. IsStore(store) /\ ViewTyped /\ MessagesTyped /\ CallsProper
    BY DEF TypeInv, WindowTyped
  <1>1. /\ m \in OrNone(Messages) /\ m # None /\ from \in From
        /\ Open \in OrNone(Threads) /\ (Open # None => Open \in Threads)
    BY <1>0, OpenTyped, TurnsAssumption DEF From, OrNone
  <1>2. scene.kind[m] \in {"text", "command", "review", "new", "broken"}
    BY <1>0 DEF MessagesTyped, Scene
  <1>3. CASE scene.kind[m] \in {"command", "review", "new"}
    <2> DEFINE k == Call(scene.kind[m], m, from, Open)
               ready == k.op = "review" /\ Open # None /\ Open \in loaded
               c == [k EXCEPT !.stage = IF k.op = "command" THEN "sent"
                                        ELSE IF ready THEN "issued" ELSE @,
                              !.thread = IF k.op = "new" THEN None ELSE @]
    <2>1. Slash(m, from)
      BY <1>3 DEF Run
    <2>2. calls' = Append(calls, c) /\ UNCHANGED fate
          /\ store' = IF ready THEN Reviewed(store, Open) ELSE store
      BY <2>1 DEF Slash
    <2>3. /\ k \in CallRec /\ k.op = scene.kind[m] /\ k.msg = m /\ k.from = from
          /\ k.home = Open /\ k.thread = Open /\ k.stage = "opening" /\ k.steer = FALSE
      <3>1. PICK op \in Ops : op = scene.kind[m]
        BY <1>3 DEF Ops
      <3>2. k = Call(op, m, from, Open)
        BY <3>1
      <3>3. IsNewCall(k, op, m, from, Open)
        BY <1>0, <1>1, <3>2, CallTyped
      <3> HIDE DEF k
      <3> QED
        BY <3>1, <3>3 DEF IsNewCall
    <2> HIDE DEF k
    <2>4. /\ c \in CallRec /\ c.op = k.op /\ c.msg = m /\ c.from = from /\ c.home = Open
          /\ c.thread = (IF k.op = "new" THEN None ELSE Open) /\ c.steer = FALSE
          /\ c.stage = IF k.op = "command" THEN "sent" ELSE IF ready THEN "issued" ELSE "opening"
      BY <2>3 DEF CallRec, OrNone
    <2> HIDE DEF c
    <2>5. Proper(c) /\ c.stage # "opened"
      BY <1>1, <1>3, <2>3, <2>4 DEF Proper
    <2>6. CallsProper' /\ CallsKept /\ \E i \in 1..Len(calls') : calls'[i].msg = m
      BY <1>0, <2>2, <2>4, <2>5, AppendKeeps DEF CallsKept
    <2>7. IsStore(store')
      BY <1>0, <1>1, <2>2, BegunIsStore
    <2> QED
      BY <1>0, <2>2, <2>6, <2>7, FateUnchanged
  <1>4. CASE scene.kind[m] = "broken"
    <2>1. Send(m, from, intent)
      BY <1>4 DEF Run
    <2>2. /\ store' = IF Open = None THEN store ELSE Told(store, Open)
          /\ fate' = [fate EXCEPT ![m] = "told"] /\ UNCHANGED calls
      BY <1>4, <2>1 DEF Send, ToldOf
    <2>3. FateKept /\ fate'[m] # "open"
      BY <1>0, <2>2, FateSet DEF Fates
    <2> QED
      BY <1>0, <1>1, <2>2, <2>3, CallsUnchanged, ToldIsStore
  <1>5. CASE scene.kind[m] = "text"
    <2> DEFINE k == Call("send", m, from, Open)
               c == [k EXCEPT !.intent = intent]
    <2>1. Send(m, from, intent)
      BY <1>5 DEF Run
    <2>2. /\ k \in CallRec /\ k.op = "send" /\ k.msg = m /\ k.from = from
          /\ k.home = Open /\ k.thread = Open /\ k.stage = "opening" /\ k.steer = FALSE
      <3>1. "send" \in Ops
        BY DEF Ops
      <3>2. IsNewCall(k, "send", m, from, Open)
        BY <1>0, <1>1, <3>1, CallTyped
      <3> HIDE DEF k
      <3> QED
        BY <3>2 DEF IsNewCall
    <2>3. /\ UNCHANGED fate
          /\ \/ /\ Open # None /\ calls' = Append(calls, Issued(c, Open))
                /\ store' = Begun(store, Open)
             \/ calls' = Append(calls, c) /\ UNCHANGED store
      BY <1>5, <2>1 DEF Send
    <2> HIDE DEF k
    <2>4. /\ c \in CallRec /\ c.op = "send" /\ c.msg = m /\ c.from = from
          /\ c.home = Open /\ c.thread = Open /\ c.stage = "opening" /\ c.steer = FALSE
      BY <2>2 DEF CallRec
    <2>5. [c EXCEPT !.op = "send"] = c
      BY <2>4 DEF CallRec
    <2> HIDE DEF c
    <2>6. Proper(c)
      BY <1>1, <2>4 DEF Proper
    <2>7. CASE calls' = Append(calls, c) /\ UNCHANGED store
      BY <1>0, <2>3, <2>4, <2>6, <2>7, AppendKeeps, FateUnchanged DEF CallsKept
    <2>8. CASE Open # None /\ calls' = Append(calls, Issued(c, Open)) /\ store' = Begun(store, Open)
      <3>1. /\ Proper(Issued(c, Open)) /\ Issued(c, Open).msg = m
            /\ Issued(c, Open).stage = "issued"
        BY <1>1, <2>4, <2>5, <2>6, <2>8, IssuedProper
      <3>2. CallsProper' /\ CallsKept /\ \E i \in 1..Len(calls') : calls'[i].msg = m
        BY <1>0, <2>8, <3>1, AppendKeeps DEF CallsKept
      <3>3. IsStore(store')
        BY <1>0, <1>1, <2>8, BegunIsStore
      <3> QED
        BY <1>0, <2>3, <3>2, <3>3, FateUnchanged
    <2> QED
      BY <2>3, <2>7, <2>8
  <1> QED
    BY <1>2, <1>3, <1>4, <1>5

----------------------------------------------------------------------------
(* Where a message is                                                       *)

InQueue(m) == \E t \in Threads : Contains(queued[t], m)
InCall(m) == \E i \in DOMAIN calls : calls[i].msg = m
OnWire(m) == \E i \in DOMAIN server.wire :
               server.wire[i].type = "answer" /\ server.wire[i].call.msg = m

\* What each message is held by stays, or its fate is settled.
HeldKept == \A m \in Messages : fate'[m] = "open" /\ Held(m) => Held(m)'

LEMMA HeldParts == \A m : Held(m) <=> InQueue(m) \/ InCall(m) \/ OnWire(m)
  BY DEF Held, InQueue, InCall, OnWire

LEMMA HeldPartsNext == \A m : Held(m)' <=> InQueue(m)' \/ InCall(m)' \/ OnWire(m)'
  BY DEF Held, InQueue, InCall, OnWire

LEMMA KeptMeansNoneVanishes ==
    ASSUME NoMessageVanishes, FateKept, HeldKept,
           \A m \in Messages : m \in drafts \ drafts' /\ fate'[m] = "open" => Held(m)'
    PROVE  NoMessageVanishes'
  <1> SUFFICES ASSUME NEW m \in Messages, m \notin drafts', fate'[m] = "open"
               PROVE  Held(m)'
    BY DEF NoMessageVanishes
  <1>1. fate[m] = "open"
    BY DEF FateKept
  <1> QED
    BY <1>1 DEF NoMessageVanishes, HeldKept

LEMMA QueueSame ==
    ASSUME UNCHANGED queued
    PROVE  \A m : InQueue(m) => InQueue(m)'
  BY DEF InQueue

LEMMA CallsKeptHold ==
    ASSUME CallsProper, CallsProper', CallsKept
    PROVE  \A m : InCall(m) => InCall(m)'
  <1>1. /\ DOMAIN calls = 1..Len(calls) /\ DOMAIN calls' = 1..Len(calls')
    BY DEF CallsProper
  <1> QED
    BY <1>1 DEF InCall, CallsKept

LEMMA WireSame ==
    ASSUME UNCHANGED server
    PROVE  \A m : OnWire(m) => OnWire(m)'
  BY DEF OnWire

\* A message joins its queue at the end; one leaves it.
LEMMA QueueGrows ==
    ASSUME WindowTyped, NEW t \in Threads, NEW m \in Messages,
           queued' = [queued EXCEPT ![t] = Append(@, m)]
    PROVE  /\ queued' \in [Threads -> Seq(Messages)]
           /\ InQueue(m)' /\ \A n : InQueue(n) => InQueue(n)'
  <1>1. queued[t] \in Seq(Messages) /\ queued \in [Threads -> Seq(Messages)]
    BY DEF WindowTyped
  <1> DEFINE q == Append(queued[t], m)
  <1>2. /\ q \in Seq(Messages) /\ Len(q) = Len(queued[t]) + 1 /\ q[Len(queued[t]) + 1] = m
        /\ \A i \in 1..Len(queued[t]) : q[i] = queued[t][i]
    BY <1>1
  <1>3. Len(queued[t]) + 1 \in 1..Len(q) /\ \A i \in 1..Len(queued[t]) : i \in 1..Len(q)
    BY <1>1, <1>2
  <1>4. queued' = [queued EXCEPT ![t] = q]
    OBVIOUS
  <1> HIDE DEF q
  <1>5. queued' \in [Threads -> Seq(Messages)] /\ queued'[t] = q
        /\ \A u \in Threads : u # t => queued'[u] = queued[u]
    BY <1>1, <1>2, <1>4
  <1>6. Contains(q, m) /\ \A n : Contains(queued[t], n) => Contains(q, n)
    BY <1>2, <1>3 DEF Contains
  <1>7. InQueue(m)'
    BY <1>5, <1>6 DEF InQueue
  <1>8. ASSUME NEW n, InQueue(n)
        PROVE  InQueue(n)'
    BY <1>5, <1>6, <1>8 DEF InQueue
  <1> QED
    BY <1>5, <1>7, <1>8

----------------------------------------------------------------------------
(* The wire                                                                 *)

\* A settled fate stays settled, so what is written stays proper.
LEMMA LineKept ==
    ASSUME FateKept
    PROVE  \A l \in Line : ProperLine(l) => ProperLine(l)'
  <1> SUFFICES ASSUME NEW l \in Line, ProperLine(l), l.type = "answer"
               PROVE  ProperLine(l)'
    BY DEF ProperLine
  <1>1. l \in AnswerRec
    BY DEF Line, NoteRec, AnswerRec
  <1>2. l.call \in CallRec /\ (l.call.op \in {"send", "review"} => l.call.msg \in Messages)
    BY <1>1 DEF AnswerRec, ProperLine, Proper, CallRec, OrNone
  <1>3. Proper(l.call)'
    BY DEF ProperLine, Proper
  <1> QED
    BY <1>2, <1>3 DEF ProperLine, FateKept

LEMMA WireFields ==
    ASSUME WireProper
    PROVE  /\ server.wire \in Seq(Line) /\ DOMAIN server.wire = 1..Len(server.wire)
           /\ \A i \in DOMAIN server.wire : server.wire[i] \in Line /\ ProperLine(server.wire[i])
           /\ server.turn \in [Threads -> Turn] /\ server.review \in [Threads -> BOOLEAN]
           /\ server.asking \in [Threads -> BOOLEAN] /\ server.ran \in SUBSET Threads
           /\ server.threads \in SUBSET Threads /\ server.next \in Nat \ {0}
  BY DEF WireProper, ServerRec

LEMMA AnswerFields ==
    ASSUME WireProper, NEW i \in DOMAIN server.wire, server.wire[i].type = "answer"
    PROVE  /\ server.wire[i] \in AnswerRec
           /\ server.wire[i].call \in CallRec /\ Proper(server.wire[i].call)
           /\ server.wire[i].call.stage \in {"ensure", "opened", "sent"}
           /\ server.wire[i].ok \in BOOLEAN /\ server.wire[i].turn \in Turn
           /\ server.wire[i].child \in OrNone(Threads)
           /\ ProperLine(server.wire[i])
  <1>1. server.wire[i] \in Line /\ ProperLine(server.wire[i])
    BY WireFields
  <1>2. server.wire[i] \in AnswerRec
    BY <1>1 DEF Line, NoteRec, AnswerRec
  <1> QED
    BY <1>1, <1>2 DEF AnswerRec, ProperLine

LEMMA NoteFields ==
    ASSUME WireProper, NEW i \in DOMAIN server.wire, server.wire[i].type # "answer"
    PROVE  server.wire[i].thread \in Threads /\ server.wire[i].turn \in Turn
  <1>1. server.wire[i] \in Line
    BY WireFields
  <1>2. server.wire[i] \in NoteRec
    BY <1>1 DEF Line, NoteRec, AnswerRec
  <1> QED
    BY <1>2 DEF NoteRec

\* The server writes: what was on the wire is still there.
LEMMA WireGrows ==
    ASSUME WireProper, FateKept, NEW state \in ServerRec, state.wire = server.wire,
           NEW notes \in Seq(Line), \A k \in 1..Len(notes) : ProperLine(notes[k])',
           server' = [state EXCEPT !.wire = @ \o notes]
    PROVE  /\ WireProper'
           /\ \A m : OnWire(m) => OnWire(m)'
           /\ \A k \in 1..Len(notes) : notes[k].type = "answer" => OnWire(notes[k].call.msg)'
  <1>1. PICK old \in Seq(Line) : old = server.wire
    BY WireFields
  <1>2. PICK new : new = old \o notes
    OBVIOUS
  <1>3. /\ new \in Seq(Line) /\ Len(new) = Len(old) + Len(notes)
        /\ \A k \in 1..Len(old) : new[k] = old[k] /\ k \in 1..Len(new)
        /\ \A k \in 1..Len(notes) : Len(old) + k \in 1..Len(new) /\ new[Len(old) + k] = notes[k]
    BY <1>2
  <1>4. server' \in ServerRec /\ server'.wire = new
    BY <1>1, <1>2, <1>3 DEF ServerRec
  <1>5. ASSUME NEW k \in 1..Len(new)
        PROVE  \E l \in Line : l = new[k] /\ ProperLine(l)'
    <2>1. CASE k \in 1..Len(old)
      <3>1. old[k] \in Line /\ ProperLine(old[k])
        BY <1>1, <2>1 DEF WireProper
      <3> QED
        BY <1>3, <2>1, <3>1, LineKept
    <2>2. CASE k \notin 1..Len(old)
      <3>1. k - Len(old) \in 1..Len(notes) /\ k = Len(old) + (k - Len(old))
        BY <1>3, <2>2
      <3>2. new[k] = notes[k - Len(old)]
        BY <1>3, <3>1
      <3> QED
        BY <3>1, <3>2
    <2> QED
      BY <2>1, <2>2
  <1>6. WireProper'
    BY <1>4, <1>5 DEF WireProper
  <1>7. /\ DOMAIN server.wire = 1..Len(old) /\ DOMAIN (server'.wire) = 1..Len(new)
    BY <1>1, <1>3, <1>4
  <1>8. \A m : OnWire(m) => OnWire(m)'
    BY <1>1, <1>3, <1>4, <1>7 DEF OnWire
  <1>9. ASSUME NEW k \in 1..Len(notes), notes[k].type = "answer"
        PROVE  \A m : m = notes[k].call.msg => OnWire(m)'
    BY <1>3, <1>4, <1>7, <1>9, ZenonT(60) DEF OnWire
  <1> QED
    BY <1>6, <1>8, <1>9

\* A call is answered: it leaves the calls, and its answer is written.
LEMMA ServeKeeps ==
    ASSUME CallsProper, WireProper, FateKept, NEW c, NEW state \in ServerRec,
           state.wire = server.wire, NEW notes \in Seq(Line), Len(notes) > 0,
           \A k \in 1..Len(notes) : ProperLine(notes[k])',
           notes[1].type = "answer", notes[1].call.msg = c.msg, Serve(c, state, notes)
    PROVE  /\ CallsProper' /\ WireProper' /\ UNCHANGED <<store, queue, view, refs, drafts>>
           /\ HeldKept
  <1>1. /\ UNCHANGED <<store, queue, view, refs, drafts>>
        /\ server' = [state EXCEPT !.wire = @ \o notes]
        /\ \E i \in DOMAIN calls : calls[i] = c /\ calls' = RemoveAt(calls, i)
    BY DEF Serve
  <1>2. calls \in Seq(CallRec) /\ DOMAIN calls = 1..Len(calls)
    BY DEF CallsProper
  <1>3. PICK i \in 1..Len(calls) : calls[i] = c /\ calls' = RemoveAt(calls, i)
    BY <1>1, <1>2
  <1>4. /\ calls' \in Seq(CallRec)
        /\ \A j \in 1..Len(calls) : j # i => \E k \in 1..Len(calls') : calls'[k] = calls[j]
        /\ \A k \in 1..Len(calls') : \E j \in 1..Len(calls) : calls'[k] = calls[j]
    BY <1>2, <1>3, RemoveAtKeeps
  <1>5. CallsProper'
    BY <1>4 DEF CallsProper, Proper
  <1>6. /\ WireProper' /\ \A m : OnWire(m) => OnWire(m)'
        /\ \A k \in 1..Len(notes) : notes[k].type = "answer" => OnWire(notes[k].call.msg)'
    BY <1>1, WireGrows
  <1>7. 1 \in 1..Len(notes)
    OBVIOUS
  <1>8. \A m : m = c.msg => OnWire(m)'
    BY <1>6, <1>7
  <1>9. DOMAIN calls' = 1..Len(calls')
    BY <1>4
  <1>10. ASSUME NEW m, InCall(m), m # c.msg
         PROVE  InCall(m)'
    <2>1. PICK j \in 1..Len(calls) : calls[j].msg = m
      BY <1>2, <1>10 DEF InCall
    <2>2. PICK k \in 1..Len(calls') : calls'[k] = calls[j]
      BY <1>3, <1>4, <1>10, <2>1
    <2> QED
      BY <1>9, <2>1, <2>2 DEF InCall
  <1>11. \A m : InQueue(m) => InQueue(m)'
    BY <1>1 DEF queue, InQueue
  <1> QED
    BY <1>1, <1>5, <1>6, <1>8, <1>10, <1>11, HeldParts, HeldPartsNext DEF HeldKept

\* Without an answered call: what the server does of itself.
LEMMA EmitKeeps ==
    ASSUME CallsProper, WireProper, FateKept, NEW state \in ServerRec,
           state.wire = server.wire, NEW notes \in Seq(Line),
           \A k \in 1..Len(notes) : ProperLine(notes[k])', Emit(state, notes)
    PROVE  /\ CallsProper' /\ WireProper'
           /\ UNCHANGED <<store, queue, view, refs, drafts, fate>> /\ HeldKept
  <1>1. /\ UNCHANGED <<store, queue, view, refs, calls, drafts, fate>>
        /\ server' = [state EXCEPT !.wire = @ \o notes]
    BY DEF Emit
  <1>2. WireProper' /\ \A m : OnWire(m) => OnWire(m)'
    BY <1>1, WireGrows
  <1>3. CallsProper' /\ CallsKept
    BY <1>1, CallsUnchanged
  <1>4. \A m : (InQueue(m) => InQueue(m)') /\ (InCall(m) => InCall(m)')
    BY <1>1 DEF queue, InQueue, InCall
  <1> QED
    BY <1>1, <1>2, <1>3, <1>4, HeldParts, HeldPartsNext DEF HeldKept

LEMMA HandlesKeeps ==
    ASSUME ViewTyped, TurnsAssumption, Handles
    PROVE  handled' \in 0..Batch /\ UNCHANGED <<seen, effects>> /\ ViewTyped'
  BY DEF ViewTyped, Handles

\* An answer leaves the wire for its handler.
LEMMA TakeKeeps ==
    ASSUME ViewTyped, WireProper, FateKept, NEW i \in DOMAIN server.wire, TakeAny(i)
    PROVE  /\ server.wire[i].type = "answer"
           /\ WireProper' /\ ViewTyped'
           /\ UNCHANGED <<seen, effects, known, pending, drafts, scene>>
           /\ \A m : OnWire(m) => OnWire(m)' \/ m = server.wire[i].call.msg
  <1>1. /\ server.wire[i].type = "answer" /\ Handles
        /\ server' = [server EXCEPT !.wire = RemoveAt(@, i)]
        /\ UNCHANGED <<known, pending, drafts, scene>>
    BY DEF TakeAny
  <1>2. PICK old \in Seq(Line) : old = server.wire
    BY WireFields
  <1>3. i \in 1..Len(old)
    BY <1>2
  <1>4. PICK new : new = RemoveAt(old, i)
    OBVIOUS
  <1>5. /\ new \in Seq(Line)
        /\ \A j \in 1..Len(old) : j # i => \E k \in 1..Len(new) : new[k] = old[j]
        /\ \A k \in 1..Len(new) : \E j \in 1..Len(old) : new[k] = old[j]
    BY <1>3, <1>4, RemoveAtKeeps
  <1>6. server' \in ServerRec /\ server'.wire = new
    BY <1>1, <1>2, <1>4, <1>5 DEF WireProper, ServerRec
  <1>7. ASSUME NEW k \in 1..Len(new)
        PROVE  \E l \in Line : l = new[k] /\ ProperLine(l)'
    <2>1. PICK j \in 1..Len(old) : new[k] = old[j]
      BY <1>5
    <2>2. old[j] \in Line /\ ProperLine(old[j])
      BY <1>2 DEF WireProper
    <2> QED
      BY <2>1, <2>2, LineKept
  <1>8. WireProper'
    BY <1>6, <1>7 DEF WireProper
  <1>9. DOMAIN (server'.wire) = 1..Len(new)
    BY <1>5, <1>6
  <1>10. ASSUME NEW m, OnWire(m), m # server.wire[i].call.msg
         PROVE  OnWire(m)'
    <2>1. PICK j \in 1..Len(old) : old[j].type = "answer" /\ old[j].call.msg = m
      BY <1>2, <1>10 DEF OnWire
    <2>2. PICK k \in 1..Len(new) : new[k] = old[j]
      BY <1>2, <1>5, <1>10, <2>1
    <2> QED
      BY <1>6, <1>9, <2>1, <2>2 DEF OnWire
  <1> QED
    BY <1>1, <1>8, <1>10, TurnsAssumption, HandlesKeeps

\* A notification leaves the wire; the answers before it count it.
LEMMA NotedKeeps ==
    ASSUME ViewTyped, WireProper, MessagesTyped, NEW i \in DOMAIN server.wire, NEW type,
           type # "answer", Noted(type, i)
    PROVE  /\ server.wire[i].thread \in Threads /\ server.wire[i].turn \in Turn
           /\ WireProper' /\ ViewTyped' /\ MessagesTyped' /\ FateKept
           /\ UNCHANGED <<queue, seen, effects, drafts, fate>>
           /\ \A m : OnWire(m) => OnWire(m)'
  <1>1. /\ server.wire[i].type = type /\ Leading(i) /\ Handles
        /\ server' = [server EXCEPT !.wire = RemoveAt(Overtaken(@, i), i)]
        /\ UNCHANGED <<queue, drafts, fate, scene>>
    BY DEF Noted
  <1>2. PICK old \in Seq(Line) : old = server.wire
    BY WireFields
  <1>3. i \in 1..Len(old)
    BY <1>2
  <1>4. \A j \in 1..(i - 1) : old[j].type = "answer"
    BY <1>1, <1>2 DEF Leading
  <1>5. FateKept /\ MessagesTyped'
    BY <1>1, FateUnchanged DEF MessagesTyped
  <1>6. PICK told : told = Overtaken(old, i)
    OBVIOUS
  <1>7. ASSUME NEW j \in 1..Len(old)
        PROVE  /\ told[j] \in Line /\ told[j].type = old[j].type
               /\ told[j].type = "answer" => told[j].call.msg = old[j].call.msg
               /\ ProperLine(told[j])
    <2>1. old[j] \in Line /\ ProperLine(old[j])
      BY <1>2 DEF WireProper
    <2>2. CASE j < i
      <3>1. old[j].type = "answer"
        BY <1>3, <1>4, <2>2
      <3>2. old[j] \in AnswerRec
        BY <2>1, <3>1 DEF Line, NoteRec, AnswerRec
      <3>3. PICK l \in AnswerRec : l = old[j]
        BY <3>2
      <3>4. told[j] = [l EXCEPT !.passed = @ + 1]
        BY <1>6, <2>2, <3>3 DEF Overtaken
      <3>5. /\ told[j] \in AnswerRec /\ told[j].type = l.type /\ told[j].call = l.call
            /\ told[j].ok = l.ok /\ told[j].child = l.child
        BY <3>4 DEF AnswerRec
      <3>6. ProperLine(told[j])
        BY <2>1, <3>3, <3>5 DEF ProperLine
      <3> QED
        BY <3>3, <3>5, <3>6 DEF Line
    <2>3. CASE ~(j < i)
      BY <1>6, <2>1, <2>3 DEF Overtaken
    <2> QED
      BY <2>2, <2>3
  <1>8. told \in Seq(Line) /\ Len(told) = Len(old)
    <2>1. told = [j \in 1..Len(old) |->
                    IF j < i THEN [old[j] EXCEPT !.passed = @ + 1] ELSE old[j]]
      BY <1>6 DEF Overtaken
    <2> QED
      BY <1>7, <2>1
  <1>9. PICK new : new = RemoveAt(told, i)
    OBVIOUS
  <1>10. /\ new \in Seq(Line)
         /\ \A j \in 1..Len(told) : j # i => \E k \in 1..Len(new) : new[k] = told[j]
         /\ \A k \in 1..Len(new) : \E j \in 1..Len(told) : new[k] = told[j]
    <2>1. i \in 1..Len(told)
      BY <1>3, <1>8
    <2> QED
      BY <1>8, <1>9, <2>1, RemoveAtKeeps
  <1>11. server' \in ServerRec /\ server'.wire = new
    <2>1. server' = [server EXCEPT !.wire = new]
      BY <1>1, <1>2, <1>6, <1>9
    <2> QED
      BY <1>10, <2>1 DEF WireProper, ServerRec
  <1>12. ASSUME NEW k \in 1..Len(new)
         PROVE  \E l \in Line : l = new[k] /\ ProperLine(l)'
    <2>1. PICK j \in 1..Len(old) : new[k] = told[j]
      BY <1>8, <1>10
    <2>2. told[j] \in Line /\ ProperLine(told[j])
      BY <1>7
    <2> QED
      BY <1>5, <2>1, <2>2, LineKept
  <1>13. WireProper'
    BY <1>11, <1>12 DEF WireProper
  <1>14. DOMAIN (server'.wire) = 1..Len(new)
    BY <1>10, <1>11
  <1>15. ASSUME NEW m, OnWire(m)
         PROVE  OnWire(m)'
    <2>1. PICK j \in 1..Len(old) : old[j].type = "answer" /\ old[j].call.msg = m
      BY <1>2, <1>15 DEF OnWire
    <2>2. j # i
      BY <1>1, <1>2, <2>1
    <2>3. told[j].type = "answer" /\ told[j].call.msg = m
      BY <1>7, <2>1
    <2>4. PICK k \in 1..Len(new) : new[k] = told[j]
      BY <1>8, <1>10, <2>2
    <2> QED
      BY <1>11, <1>14, <2>3, <2>4 DEF OnWire
  <1>16. server.wire[i].thread \in Threads /\ server.wire[i].turn \in Turn
    BY <1>1, NoteFields
  <1>17. ViewTyped' /\ UNCHANGED <<seen, effects>>
    BY <1>1, TurnsAssumption, HandlesKeeps
  <1> QED
    BY <1>1, <1>5, <1>13, <1>15, <1>16, <1>17

----------------------------------------------------------------------------
(* The app-server                                                           *)

\* An answer and, after it, notifications.
Written(s, r) ==
    /\ s \in Seq(Line) /\ Len(s) > 0 /\ s[1] = r
    /\ \A k \in 1..Len(s) : k = 1 \/ s[k] \in NoteRec

LEMMA WrittenAlone ==
    ASSUME NEW r \in AnswerRec
    PROVE  Written(<<r>>, r)
  <1>1. r \in Line
    BY DEF Line
  <1> QED
    BY <1>1 DEF Written

LEMMA WrittenMore ==
    ASSUME NEW s, NEW r, Written(s, r), NEW ns \in Seq(NoteRec)
    PROVE  Written(s \o ns, r)
  <1>1. s \in Seq(Line) /\ ns \in Seq(Line)
    BY DEF Written, Line
  <1>2. s \o ns \in Seq(Line) /\ Len(s \o ns) = Len(s) + Len(ns)
    BY <1>1
  <1>3. (s \o ns)[1] = r
    BY <1>1 DEF Written
  <1>4. ASSUME NEW k \in 1..Len(s \o ns), k # 1
        PROVE  (s \o ns)[k] \in NoteRec
    <2>1. CASE k \in 1..Len(s)
      BY <1>1, <1>4, <2>1 DEF Written
    <2>2. CASE k \notin 1..Len(s)
      <3>1. k - Len(s) \in 1..Len(ns) /\ (s \o ns)[k] = ns[k - Len(s)]
        BY <1>1, <1>2, <2>2
      <3> QED
        BY <3>1
    <2> QED
      BY <2>1, <2>2
  <1> QED
    BY <1>1, <1>2, <1>3, <1>4 DEF Written

LEMMA NoteProper == \A l \in NoteRec : l.type # "answer" /\ ProperLine(l)'
  BY DEF NoteRec, ProperLine

LEMMA ServeWritten ==
    ASSUME CallsProper, WireProper, FateKept, NEW c, NEW r \in AnswerRec, ProperLine(r)',
           r.call.msg = c.msg, NEW notes, Written(notes, r), NEW state \in ServerRec,
           state.wire = server.wire, Serve(c, state, notes)
    PROVE  /\ CallsProper' /\ WireProper' /\ UNCHANGED <<store, queue, view, refs, drafts>>
           /\ HeldKept
  <1>1. notes \in Seq(Line) /\ Len(notes) > 0 /\ notes[1] = r
    BY DEF Written
  <1>2. \A k \in 1..Len(notes) : ProperLine(notes[k])'
    BY NoteProper DEF Written
  <1>3. notes[1].type = "answer" /\ notes[1].call.msg = c.msg
    BY <1>1 DEF AnswerRec
  <1> QED
    BY <1>1, <1>2, <1>3, ServeKeeps

IsReply(r, c, ok, turn) ==
    /\ r \in AnswerRec /\ r.type = "answer" /\ r.call = c /\ r.ok = ok /\ r.turn = turn
    /\ r.child = c.thread

LEMMA ReplyTyped ==
    ASSUME WireProper
    PROVE  \A c \in CallRec, ok \in BOOLEAN, turn \in Turn :
             IsReply(Reply(c, ok, turn), c, ok, turn)
  <1> SUFFICES ASSUME NEW c \in CallRec, NEW ok \in BOOLEAN, NEW turn \in Turn
               PROVE  IsReply(Reply(c, ok, turn), c, ok, turn)
    OBVIOUS
  <1>1. c.thread \in OrNone(Threads)
    BY DEF CallRec
  <1>2. (c.thread # None /\ server.review[c.thread]) \in BOOLEAN
    BY <1>1, WireFields DEF OrNone
  <1> QED
    BY <1>1, <1>2 DEF Reply, AnswerRec, IsReply

LEMMA NoteTyped ==
    \A type \in {"thread/started", "turn/started", "turn/completed", "error", "thread/closed",
                 "active", "idle", "notLoaded", "item/started", "entered", "exited", "ask"},
     t \in Threads, turn \in Turn :
      Note(type, t, turn) \in NoteRec
  BY DEF Note, NoteRec

\* A note alone, or with its status before or after it.
LEMMA StatusTyped ==
    \A status \in {"active", "idle", "notLoaded"}, n \in NoteRec :
      WithStatus(status, n) \in Seq(NoteRec)
  <1> SUFFICES ASSUME NEW status \in {"active", "idle", "notLoaded"}, NEW n \in NoteRec
               PROVE  WithStatus(status, n) \in Seq(NoteRec)
    OBVIOUS
  <1>1. n.thread \in Threads /\ None \in Turn
    BY DEF NoteRec, Turn
  <1>2. PICK told : told = Note(status, n.thread, None)
    OBVIOUS
  <1>3. told \in NoteRec
    BY <1>1, <1>2, NoteTyped
  <1>4. <<told, n>> \in Seq(NoteRec) /\ <<n, told>> \in Seq(NoteRec) /\ <<n>> \in Seq(NoteRec)
    BY <1>3
  <1>5. WithStatus(status, n) = CASE scene.tells = "before" -> <<told, n>>
                                  [] scene.tells = "after" -> <<n, told>>
                                  [] OTHER -> <<n>>
    BY <1>2 DEF WithStatus
  <1> QED
    BY <1>4, <1>5

LEMMA EndedTyped ==
    ASSUME WireProper
    PROVE  \A t \in Threads : Ended(t) \in Seq(NoteRec)
  <1> SUFFICES ASSUME NEW t \in Threads
               PROVE  Ended(t) \in Seq(NoteRec)
    OBVIOUS
  <1>1. None \in Turn /\ server.turn[t] \in Turn
    BY WireFields DEF Turn
  <1>2. /\ Note("exited", t, None) \in NoteRec
        /\ Note("turn/completed", t, server.turn[t]) \in NoteRec
    BY <1>1, NoteTyped
  <1>3. /\ (IF server.review[t] THEN <<Note("exited", t, None)>> ELSE <<>>) \in Seq(NoteRec)
        /\ (IF server.turn[t] = None THEN <<>>
            ELSE WithStatus("idle", Note("turn/completed", t, server.turn[t])))
             \in Seq(NoteRec)
    BY <1>2, StatusTyped
  <1> QED
    BY <1>3 DEF Ended

\* What a call that is answered leaves alone.
LEMMA ServedRest ==
    ASSUME TypeInv, FateKept, UNCHANGED <<store, queue, view, refs, drafts>>, scene' \in Scene
    PROVE  WindowTyped' /\ ViewTyped' /\ MessagesTyped'
  BY DEF TypeInv, WindowTyped, ViewTyped, MessagesTyped, FateKept, Fates, queue, view, refs

LEMMA CallAmong ==
    ASSUME CallsProper
    PROVE  \A c \in ToSet(calls) : /\ c \in CallRec /\ Proper(c) /\ c.stage # "opened"
                                   /\ \E i \in 1..Len(calls) : calls[i] = c
  BY DEF CallsProper, ToSet

\* What a step of the server, and the handling of what it wrote, keep.
StepKept ==
    /\ TypeInv' /\ FateKept /\ HeldKept /\ drafts' = drafts
    /\ UNCHANGED <<seen, effects>>

LEMMA ServeDone ==
    ASSUME TypeInv, FateKept, scene' \in Scene, NEW c, NEW r \in AnswerRec, ProperLine(r)',
           r.call.msg = c.msg, NEW notes, Written(notes, r), NEW state \in ServerRec,
           state.wire = server.wire, Serve(c, state, notes)
    PROVE  StepKept
  <1>1. CallsProper /\ WireProper
    BY DEF TypeInv
  <1>2. /\ CallsProper' /\ WireProper' /\ UNCHANGED <<store, queue, view, refs, drafts>>
        /\ HeldKept
    BY <1>1, ServeWritten
  <1>3. WindowTyped' /\ ViewTyped' /\ MessagesTyped'
    BY <1>2, ServedRest
  <1> QED
    BY <1>2, <1>3 DEF StepKept, TypeInv, queue, view

LEMMA ServerFields == WireProper => server \in ServerRec
  BY DEF WireProper

LEMMA ServeThreadKeeps ==
    ASSUME TypeInv, NEW c \in ToSet(calls), ServeThread(c)
    PROVE  StepKept
  <1>1. WireProper /\ CallsProper /\ MessagesTyped
    BY DEF TypeInv
  <1>2. /\ c \in CallRec /\ Proper(c) /\ c.stage = "ensure" /\ c.thread = None
        /\ UNCHANGED <<fate, stops, scene>> /\ server.threads # Threads
    BY <1>1, CallAmong DEF ServeThread
  <1>3. PICK t \in Threads : t = Fresh
    <2>1. \E t \in Threads : t \notin server.threads
      BY <1>1, <1>2, WireFields
    <2> QED
      BY <2>1 DEF Fresh
  <1>4. PICK d : d = [c EXCEPT !.thread = t, !.stage = "opened"]
    OBVIOUS
  <1>5. /\ d \in CallRec /\ d.msg = c.msg /\ d.stage = "opened" /\ d.thread = t
        /\ d.op = c.op /\ d.from = c.from /\ d.home = c.home /\ d.steer = c.steer
    BY <1>2, <1>4 DEF CallRec, OrNone
  <1>6. Proper(d)
    BY <1>2, <1>5, NoneAssumption DEF Proper
  <1>7. None \in Turn
    BY DEF Turn
  <1>8. PICK r : r = Reply(d, TRUE, None)
    OBVIOUS
  <1>9. IsReply(r, d, TRUE, None)
    BY <1>1, <1>5, <1>7, <1>8, ReplyTyped
  <1>10. PICK note : note = Note("thread/started", t, None)
    OBVIOUS
  <1>11. <<note>> \in Seq(NoteRec)
    BY <1>7, <1>10, NoteTyped
  <1>12. PICK state : state = [server EXCEPT !.threads = @ \cup {t}]
    OBVIOUS
  <1>13. state \in ServerRec /\ state.wire = server.wire
    BY <1>1, <1>12, ServerFields DEF ServerRec
  <1>14. Serve(c, state, <<r, note>>)
    BY <1>3, <1>4, <1>8, <1>10, <1>12 DEF ServeThread
  <1>15. Written(<<r, note>>, r)
    <2>1. r \in Line /\ note \in Line
      BY <1>9, <1>11 DEF IsReply, Line
    <2>2. /\ <<r, note>> \in Seq(Line) /\ Len(<<r, note>>) = 2
          /\ <<r, note>>[1] = r /\ <<r, note>>[2] = note
      BY <2>1
    <2>3. \A k \in 1..2 : k = 1 \/ k = 2
      OBVIOUS
    <2> QED
      BY <1>11, <2>2, <2>3 DEF Written
  <1>16. ProperLine(r)'
    BY <1>5, <1>6, <1>9 DEF ProperLine, IsReply, Proper
  <1>17. FateKept /\ scene' \in Scene
    BY <1>1, <1>2, FateUnchanged DEF MessagesTyped
  <1> QED
    BY <1>5, <1>9, <1>13, <1>14, <1>15, <1>16, <1>17, ServeDone DEF IsReply

\* Calls that are answered with one line and leave the wire's state alone.
LEMMA ServeAloneKeeps ==
    ASSUME TypeInv, NEW c \in ToSet(calls), c.stage \in {"ensure", "sent"},
           NEW ok \in BOOLEAN, NEW turn \in Turn, NEW r,
           r \in {Reply(c, ok, turn), [Reply(c, ok, turn) EXCEPT !.stale = TRUE]},
           ok /\ c.stage = "sent" /\ c.op \in {"send", "review"} => fate'[c.msg] # "open",
           ok /\ c.op = "review" => c.thread # None,
           FateKept, scene' \in Scene, NEW state \in ServerRec, state.wire = server.wire,
           Serve(c, state, <<r>>)
    PROVE  StepKept
  <1>1. WireProper /\ CallsProper
    BY DEF TypeInv
  <1>2. c \in CallRec /\ Proper(c)
    BY <1>1, CallAmong
  <1>3. PICK plain : plain = Reply(c, ok, turn)
    OBVIOUS
  <1>4. IsReply(plain, c, ok, turn)
    BY <1>1, <1>2, <1>3, ReplyTyped
  <1>5. IsReply(r, c, ok, turn)
    BY <1>3, <1>4 DEF IsReply, AnswerRec
  <1>6. ProperLine(r)'
    <2>1. Proper(c)'
      BY <1>2 DEF Proper
    <2> QED
      BY <1>5, <2>1 DEF ProperLine, IsReply
  <1>7. Written(<<r>>, r)
    BY <1>5, WrittenAlone DEF IsReply
  <1> QED
    BY <1>5, <1>6, <1>7, ServeDone DEF IsReply

LEMMA SceneLess ==
    ASSUME MessagesTyped
    PROVE  /\ scene.faults > 0 => [scene EXCEPT !.faults = @ - 1] \in Scene
           /\ scene.asks > 0 => [scene EXCEPT !.asks = @ - 1] \in Scene
           /\ scene.stops > 0 => [scene EXCEPT !.stops = @ - 1] \in Scene
           /\ scene.reads > 0 => [scene EXCEPT !.reads = @ - 1] \in Scene
  BY DEF MessagesTyped, Scene

LEMMA ServeReadKeeps ==
    ASSUME TypeInv, NEW c \in ToSet(calls), ServeRead(c)
    PROVE  StepKept
  <1>1. WireProper /\ MessagesTyped /\ CallsProper
    BY DEF TypeInv
  <1>2. /\ c.stage = "ensure" /\ c.thread # None /\ UNCHANGED <<fate, scene>>
        /\ Serve(c, server, <<Reply(c, TRUE, server.turn[c.thread])>>)
    BY DEF ServeRead
  <1>3. c \in CallRec
    BY <1>1, CallAmong
  <1>4. server.turn[c.thread] \in Turn
    BY <1>1, <1>2, <1>3, WireFields DEF CallRec, OrNone
  <1>5. FateKept /\ scene' \in Scene
    BY <1>1, <1>2, FateUnchanged DEF MessagesTyped
  <1> QED
    BY <1>1, <1>2, <1>4, <1>5, ServeAloneKeeps, ServerFields

LEMMA ServeFaultKeeps ==
    ASSUME TypeInv, NEW c \in ToSet(calls), ServeFault(c)
    PROVE  StepKept
  <1>1. WireProper /\ MessagesTyped /\ CallsProper
    BY DEF TypeInv
  <1>2. /\ c.stage \in {"ensure", "sent"} /\ UNCHANGED fate
        /\ Serve(c, server, <<Reply(c, FALSE, None)>>)
        /\ UNCHANGED scene \/ (scene.faults > 0 /\ scene' = [scene EXCEPT !.faults = @ - 1])
    BY DEF ServeFault
  <1>3. None \in Turn
    BY DEF Turn
  <1>4. FateKept /\ scene' \in Scene
    BY <1>1, <1>2, FateUnchanged, SceneLess DEF MessagesTyped
  <1> QED
    BY <1>1, <1>2, <1>3, <1>4, ServeAloneKeeps, ServerFields

LEMMA ServeCommandKeeps ==
    ASSUME TypeInv, NEW c \in ToSet(calls), ServeCommand(c)
    PROVE  StepKept
  <1>1. WireProper /\ MessagesTyped /\ CallsProper
    BY DEF TypeInv
  <1>2. /\ c.op = "command" /\ c.stage = "sent" /\ UNCHANGED scene
        /\ fate' = [fate EXCEPT ![c.msg] = "accepted"]
        /\ Serve(c, server, <<Reply(c, TRUE, None)>>)
    BY DEF ServeCommand
  <1>3. None \in Turn
    BY DEF Turn
  <1>4. FateKept /\ scene' \in Scene
    BY <1>1, <1>2, FateSet DEF MessagesTyped, Fates
  <1> QED
    BY <1>1, <1>2, <1>3, <1>4, ServeAloneKeeps, ServerFields

LEMMA ServeReplyKeeps ==
    ASSUME TypeInv, NEW c \in ToSet(calls), ServeReply(c)
    PROVE  StepKept
  <1>1. WireProper /\ MessagesTyped /\ CallsProper
    BY DEF TypeInv
  <1>2. PICK state : state = IF server.turn[c.thread] = c.turn
                               THEN [server EXCEPT !.asking[c.thread] = FALSE] ELSE server
    OBVIOUS
  <1>3. /\ c.op = "reply" /\ c.stage = "sent" /\ UNCHANGED <<fate, scene>>
        /\ Serve(c, state, <<Reply(c, TRUE, c.turn)>>)
    BY <1>2 DEF ServeReply
  <1>4. c \in CallRec /\ c.turn \in Turn /\ Proper(c)
    BY <1>1, CallAmong DEF CallRec
  <1>5. state \in ServerRec /\ state.wire = server.wire
    BY <1>1, <1>2, ServerFields DEF ServerRec
  <1>6. FateKept /\ scene' \in Scene
    BY <1>1, <1>3, FateUnchanged DEF MessagesTyped
  <1> QED
    BY <1>1, <1>3, <1>4, <1>5, <1>6, ServeAloneKeeps

LEMMA ServeSteerKeeps ==
    ASSUME TypeInv, NEW c \in ToSet(calls), ServeSteer(c)
    PROVE  StepKept
  <1>1. WireProper /\ MessagesTyped /\ CallsProper
    BY DEF TypeInv
  <1>2. c.op = "send" /\ c.stage = "sent" /\ UNCHANGED scene
    BY DEF ServeSteer
  <1>3. c \in CallRec /\ c.turn \in Turn /\ None \in Turn /\ c.msg \in Messages
    BY <1>1, <1>2, CallAmong DEF CallRec, Turn, Proper, OrNone
  <1>4. scene' \in Scene
    BY <1>1, <1>2 DEF MessagesTyped
  <1>5. CASE server.turn[c.thread] = c.turn
    <2>1. /\ Serve(c, server, <<Reply(c, TRUE, c.turn)>>)
          /\ fate' = [fate EXCEPT ![c.msg] = "accepted"]
      BY <1>5 DEF ServeSteer
    <2>2. FateKept /\ fate'[c.msg] # "open"
      BY <1>1, <1>3, <2>1, FateSet DEF Fates
    <2> QED
      BY <1>1, <1>2, <1>3, <1>4, <2>1, <2>2, ServeAloneKeeps, ServerFields
  <1>6. CASE server.turn[c.thread] # c.turn
    <2>1. Serve(c, server, <<[Reply(c, FALSE, None) EXCEPT !.stale = TRUE]>>) /\ UNCHANGED fate
      BY <1>6 DEF ServeSteer
    <2>2. FateKept
      BY <1>1, <2>1, FateUnchanged
    <2> QED
      BY <1>1, <1>2, <1>3, <1>4, <2>1, <2>2, ServeAloneKeeps, ServerFields
  <1> QED
    BY <1>5, <1>6

LEMMA StartedTyped ==
    ASSUME WireProper, server.next <= MaxTurns
    PROVE  \A t \in Threads :
             /\ StartTurn(t) \in ServerRec /\ StartTurn(t).wire = server.wire
             /\ [StartTurn(t) EXCEPT !.review[t] = FALSE] \in ServerRec
             /\ [StartTurn(t) EXCEPT !.review[t] = FALSE].wire = server.wire
             /\ [StartTurn(t) EXCEPT !.review[t] = TRUE, !.threads = @ \cup {t}] \in ServerRec
             /\ [StartTurn(t) EXCEPT !.review[t] = TRUE, !.threads = @ \cup {t}].wire = server.wire
             /\ server.next \in Turn
  <1>1. server \in ServerRec /\ server.next \in Turn
    BY TurnsAssumption DEF WireProper, ServerRec, Turn, TurnIds
  <1> SUFFICES ASSUME NEW t \in Threads
               PROVE  /\ StartTurn(t) \in ServerRec /\ StartTurn(t).wire = server.wire
                      /\ [StartTurn(t) EXCEPT !.review[t] = FALSE] \in ServerRec
                      /\ [StartTurn(t) EXCEPT !.review[t] = FALSE].wire = server.wire
                      /\ [StartTurn(t) EXCEPT !.review[t] = TRUE, !.threads = @ \cup {t}]
                           \in ServerRec
                      /\ [StartTurn(t) EXCEPT !.review[t] = TRUE, !.threads = @ \cup {t}].wire
                           = server.wire
    BY <1>1
  <1>2. PICK s : s = StartTurn(t)
    OBVIOUS
  <1>3. s \in ServerRec /\ s.wire = server.wire
    <2>1. PICK turns \in [Threads -> Turn] : turns = [server.turn EXCEPT ![t] = server.next]
      BY <1>1 DEF ServerRec
    <2>2. PICK asks \in [Threads -> BOOLEAN] : asks = [server.asking EXCEPT ![t] = FALSE]
      BY <1>1 DEF ServerRec
    <2>3. PICK next \in Nat \ {0} : next = server.next + 1
      BY <1>1 DEF ServerRec
    <2>4. s = [server EXCEPT !.turn = turns, !.next = next, !.asking = asks]
      BY <1>2, <2>1, <2>2, <2>3 DEF StartTurn
    <2> QED
      BY <1>1, <2>4 DEF ServerRec
  <1>4. /\ [s EXCEPT !.review[t] = FALSE] \in ServerRec
        /\ [s EXCEPT !.review[t] = FALSE].wire = server.wire
        /\ [s EXCEPT !.review[t] = TRUE, !.threads = @ \cup {t}] \in ServerRec
        /\ [s EXCEPT !.review[t] = TRUE, !.threads = @ \cup {t}].wire = server.wire
    BY <1>3 DEF ServerRec
  <1> QED
    BY <1>2, <1>3, <1>4

LEMMA StoppedTyped ==
    ASSUME WireProper, NEW t \in Threads
    PROVE  /\ [server EXCEPT !.turn[t] = None, !.review[t] = FALSE, !.asking[t] = FALSE,
                             !.ran = @ \cup {t}] \in ServerRec
           /\ [server EXCEPT !.turn[t] = None, !.review[t] = FALSE, !.asking[t] = FALSE,
                             !.ran = @ \cup {t}].wire = server.wire
           /\ [server EXCEPT !.turn[t] = None, !.review[t] = FALSE, !.ran = @ \cup {t}]
                \in ServerRec
           /\ [server EXCEPT !.turn[t] = None, !.review[t] = FALSE, !.ran = @ \cup {t}].wire
                = server.wire
           /\ [server EXCEPT !.asking[t] = TRUE] \in ServerRec
           /\ [server EXCEPT !.asking[t] = TRUE].wire = server.wire
  BY ServerFields DEF ServerRec, Turn

LEMMA ServeSendKeeps ==
    ASSUME TypeInv, NEW c \in ToSet(calls), ServeSend(c)
    PROVE  StepKept
  <1>1. WireProper /\ MessagesTyped /\ CallsProper
    BY DEF TypeInv
  <1>2. /\ c.op = "send" /\ c.stage = "sent" /\ UNCHANGED scene /\ server.next <= MaxTurns
        /\ fate' = [fate EXCEPT ![c.msg] = "accepted"]
    BY DEF ServeSend, Accepted
  <1>3. /\ c \in CallRec /\ Proper(c) /\ c.msg \in Messages
        /\ \E t \in Threads : t = c.thread
    BY <1>1, <1>2, CallAmong DEF CallRec, Proper, OrNone
  <1>4. PICK t \in Threads : t = c.thread
    BY <1>3
  <1>5. PICK state : state = [StartTurn(t) EXCEPT !.review[t] = FALSE]
    OBVIOUS
  <1>6. state \in ServerRec /\ state.wire = server.wire /\ server.next \in Turn
    BY <1>1, <1>2, <1>5, StartedTyped
  <1>7. PICK r : r = Reply(c, TRUE, server.next)
    OBVIOUS
  <1>8. IsReply(r, c, TRUE, server.next)
    BY <1>1, <1>3, <1>6, <1>7, ReplyTyped
  <1>9. PICK notes : notes = <<r>> \o Ended(t)
                              \o WithStatus("active", Note("turn/started", t, server.next))
    OBVIOUS
  <1>10. Written(notes, r)
    <2>1. WithStatus("active", Note("turn/started", t, server.next)) \in Seq(NoteRec)
      BY <1>6, NoteTyped, StatusTyped
    <2>2. Ended(t) \in Seq(NoteRec)
      BY <1>1, EndedTyped
    <2>3. Written(<<r>>, r)
      BY <1>8, WrittenAlone DEF IsReply
    <2>4. Written(<<r>> \o Ended(t), r)
      BY <2>2, <2>3, WrittenMore
    <2> QED
      BY <1>9, <2>1, <2>4, WrittenMore
  <1>11. Serve(c, state, notes)
    BY <1>4, <1>5, <1>7, <1>9 DEF ServeSend
  <1>12. FateKept /\ fate'[c.msg] # "open" /\ scene' \in Scene
    BY <1>1, <1>2, <1>3, FateSet DEF Fates, MessagesTyped
  <1>13. ProperLine(r)'
    <2>1. Proper(c)'
      BY <1>3 DEF Proper
    <2> QED
      BY <1>2, <1>8, <1>12, <2>1 DEF ProperLine, IsReply
  <1> QED
    BY <1>6, <1>8, <1>10, <1>11, <1>12, <1>13, ServeDone DEF IsReply

LEMMA ServeReviewKeeps ==
    ASSUME TypeInv, NEW c \in ToSet(calls), ServeReview(c)
    PROVE  StepKept
  <1>1. WireProper /\ MessagesTyped /\ CallsProper
    BY DEF TypeInv
  <1>2. /\ c.op = "review" /\ c.stage = "sent" /\ UNCHANGED scene /\ server.next <= MaxTurns
        /\ fate' = [fate EXCEPT ![c.msg] = "accepted"]
        /\ scene.detached => server.threads # Threads
    BY DEF ServeReview, Accepted
  <1>3. c \in CallRec /\ Proper(c) /\ c.msg \in Messages /\ c.thread \in Threads
    BY <1>1, <1>2, CallAmong DEF CallRec, Proper, OrNone
  <1>4. PICK t \in Threads : t = IF scene.detached THEN Fresh ELSE c.thread
    <2>1. CASE scene.detached
      <3>1. \E t \in Threads : t \notin server.threads
        BY <1>1, <1>2, <2>1, WireFields
      <3> QED
        BY <2>1, <3>1 DEF Fresh
    <2>2. CASE ~scene.detached
      BY <1>3, <2>2
    <2> QED
      BY <2>1, <2>2
  <1>5. PICK state : state = [StartTurn(t) EXCEPT !.review[t] = TRUE, !.threads = @ \cup {t}]
    OBVIOUS
  <1>6. state \in ServerRec /\ state.wire = server.wire /\ server.next \in Turn
    BY <1>1, <1>2, <1>5, StartedTyped
  <1>7. PICK plain : plain = Reply(c, TRUE, server.next)
    OBVIOUS
  <1>8. IsReply(plain, c, TRUE, server.next)
    BY <1>1, <1>3, <1>6, <1>7, ReplyTyped
  <1>9. PICK r : r = [plain EXCEPT !.child = t]
    OBVIOUS
  <1>10. r \in AnswerRec /\ r.call = c /\ r.child = t /\ r.type = "answer"
    BY <1>8, <1>9 DEF IsReply, AnswerRec, OrNone
  <1>11. PICK notes : notes = <<r>> \o Ended(t)
                               \o WithStatus("active", Note("turn/started", t, server.next))
                               \o <<Note("entered", t, server.next)>>
    OBVIOUS
  <1>12. Written(notes, r)
    <2>1. /\ WithStatus("active", Note("turn/started", t, server.next)) \in Seq(NoteRec)
          /\ <<Note("entered", t, server.next)>> \in Seq(NoteRec)
      <3>1. /\ Note("turn/started", t, server.next) \in NoteRec
            /\ Note("entered", t, server.next) \in NoteRec
        BY <1>6, NoteTyped
      <3> QED
        BY <3>1, StatusTyped
    <2>2. Ended(t) \in Seq(NoteRec)
      BY <1>1, EndedTyped
    <2>3. Written(<<r>>, r)
      BY <1>10, WrittenAlone
    <2>4. Written(<<r>> \o Ended(t), r)
      BY <2>2, <2>3, WrittenMore
    <2>5. Written(<<r>> \o Ended(t)
                    \o WithStatus("active", Note("turn/started", t, server.next)), r)
      BY <2>1, <2>4, WrittenMore
    <2> QED
      BY <1>11, <2>1, <2>5, WrittenMore
  <1>13. Serve(c, state, notes)
    BY <1>4, <1>5, <1>7, <1>9, <1>11 DEF ServeReview
  <1>14. FateKept /\ fate'[c.msg] # "open" /\ scene' \in Scene
    BY <1>1, <1>2, <1>3, FateSet DEF Fates, MessagesTyped
  <1>15. ProperLine(r)'
    <2>1. Proper(c)'
      BY <1>3 DEF Proper
    <2>2. t # None
      BY NoneAssumption
    <2> QED
      BY <1>2, <1>10, <1>14, <2>1, <2>2 DEF ProperLine
  <1> QED
    BY <1>6, <1>10, <1>12, <1>13, <1>14, <1>15, ServeDone

LEMMA ServeStopKeeps ==
    ASSUME TypeInv, NEW c \in ToSet(calls), ServeStop(c)
    PROVE  StepKept
  <1>1. WireProper /\ MessagesTyped /\ CallsProper
    BY DEF TypeInv
  <1>2. c.op = "stop" /\ c.stage = "sent" /\ UNCHANGED <<fate, scene>>
    BY DEF ServeStop
  <1>3. c \in CallRec /\ Proper(c) /\ c.thread \in Threads /\ None \in Turn
    BY <1>1, <1>2, CallAmong DEF CallRec, Proper, OrNone, Turn
  <1>4. FateKept /\ scene' \in Scene
    BY <1>1, <1>2, FateUnchanged DEF MessagesTyped
  <1>5. CASE c.turn # None /\ server.turn[c.thread] = c.turn
    <2>1. PICK t \in Threads : t = c.thread
      BY <1>3
    <2>2. PICK state : state = [server EXCEPT !.turn[t] = None, !.review[t] = FALSE,
                                              !.asking[t] = FALSE, !.ran = @ \cup {t}]
      BY SMTT(30)
    <2>3. state \in ServerRec /\ state.wire = server.wire
      BY <1>1, <2>2, StoppedTyped
    <2>4. PICK r : r = Reply(c, TRUE, None)
      OBVIOUS
    <2>5. IsReply(r, c, TRUE, None)
      BY <1>1, <1>3, <2>4, ReplyTyped
    <2>6. PICK notes : notes = <<r>> \o Ended(t)
      OBVIOUS
    <2>7. Written(notes, r)
      <3>1. Ended(t) \in Seq(NoteRec)
        BY <1>1, EndedTyped
      <3> QED
        BY <2>5, <2>6, <3>1, WrittenAlone, WrittenMore DEF IsReply
    <2>8. Serve(c, state, notes)
      BY <1>5, <2>1, <2>2, <2>4, <2>6 DEF ServeStop
    <2>9. ProperLine(r)'
      <3>1. Proper(c)'
        BY <1>3 DEF Proper
      <3> QED
        BY <1>2, <2>5, <3>1 DEF ProperLine, IsReply
    <2> QED
      BY <1>4, <2>3, <2>5, <2>7, <2>8, <2>9, ServeDone DEF IsReply
  <1>6. CASE ~(c.turn # None /\ server.turn[c.thread] = c.turn)
    <2>1. Serve(c, server, <<Reply(c, FALSE, None)>>)
      BY <1>6 DEF ServeStop
    <2> QED
      BY <1>1, <1>2, <1>3, <1>4, <2>1, ServeAloneKeeps, ServerFields
  <1> QED
    BY <1>5, <1>6

LEMMA ServerAnswersKeeps ==
    ASSUME TypeInv, ServerAnswers
    PROVE  StepKept
  BY ServeThreadKeeps, ServeReadKeeps, ServeSendKeeps, ServeSteerKeeps, ServeStopKeeps,
     ServeReviewKeeps, ServeCommandKeeps, ServeReplyKeeps, ServeFaultKeeps DEF ServerAnswers

LEMMA EmitDone ==
    ASSUME TypeInv, scene' \in Scene, NEW state \in ServerRec, state.wire = server.wire,
           NEW notes \in Seq(NoteRec), Emit(state, notes)
    PROVE  StepKept
  <1>1. CallsProper /\ WireProper /\ MessagesTyped
    BY DEF TypeInv
  <1>2. fate' = fate
    BY DEF Emit
  <1>3. FateKept
    BY <1>1, <1>2, FateUnchanged
  <1>4. notes \in Seq(Line) /\ \A k \in 1..Len(notes) : ProperLine(notes[k])'
    <2>1. \A k \in 1..Len(notes) : notes[k] \in NoteRec
      OBVIOUS
    <2> QED
      BY <2>1, NoteProper DEF Line
  <1>5. /\ CallsProper' /\ WireProper' /\ HeldKept
        /\ UNCHANGED <<store, queue, view, refs, drafts, fate>>
    BY <1>1, <1>3, <1>4, EmitKeeps
  <1>6. WindowTyped' /\ ViewTyped' /\ MessagesTyped'
    BY <1>3, <1>5, ServedRest
  <1> QED
    BY <1>3, <1>5, <1>6 DEF StepKept, TypeInv, queue, view

LEMMA ServerActsKeeps ==
    ASSUME TypeInv, NEW t \in Threads, ServerWorks(t) \/ ServerUnloads(t) \/ ServerEnds(t)
    PROVE  StepKept
  <1>1. WireProper /\ MessagesTyped /\ server \in ServerRec /\ scene \in Scene
    BY ServerFields DEF TypeInv, MessagesTyped
  <1>2. /\ None \in Turn /\ server.turn[t] \in Turn
        /\ Ended(t) \in Seq(NoteRec)
    BY <1>1, WireFields, EndedTyped DEF Turn
  <1>3. \A type \in {"item/started", "error"}, turn \in Turn :
          <<Note(type, t, turn)>> \in Seq(NoteRec)
    BY NoteTyped
  <1>4. /\ WithStatus("active", Note("ask", t, server.turn[t])) \in Seq(NoteRec)
        /\ WithStatus("notLoaded", Note("thread/closed", t, None)) \in Seq(NoteRec)
    BY <1>2, NoteTyped, StatusTyped
  <1>5. CASE ServerWorks(t)
    <2>1. scene' \in Scene
      BY <1>1, <1>5, SceneLess DEF ServerWorks
    <2>2. PICK asking : asking = [server EXCEPT !.asking[t] = TRUE]
      OBVIOUS
    <2>3. asking \in ServerRec /\ asking.wire = server.wire
      BY <1>1, <2>2, StoppedTyped
    <2>4. \/ Emit(server, <<Note("item/started", t, None)>>)
          \/ Emit(asking, WithStatus("active", Note("ask", t, server.turn[t])))
      BY <1>5, <2>2 DEF ServerWorks
    <2> QED
      BY <1>1, <1>2, <1>3, <1>4, <2>1, <2>3, <2>4, EmitDone
  <1>6. CASE ServerUnloads(t)
    <2>1. scene' \in Scene /\ Emit(server, WithStatus("notLoaded", Note("thread/closed", t, None)))
      BY <1>1, <1>6, SceneLess DEF ServerUnloads
    <2> QED
      BY <1>1, <1>4, <2>1, EmitDone
  <1>7. CASE ServerEnds(t)
    <2>1. PICK over : over = [server EXCEPT !.turn[t] = None, !.review[t] = FALSE,
                                            !.ran = @ \cup {t}]
      OBVIOUS
    <2>2. over \in ServerRec /\ over.wire = server.wire
      BY <1>1, <2>1, StoppedTyped
    <2>3. /\ scene' \in Scene
          /\ \/ Emit(over, Ended(t))
             \/ Emit(over, <<Note("error", t, server.turn[t])>> \o Ended(t))
      BY <1>1, <1>7, <2>1, SceneLess DEF ServerEnds
    <2>4. <<Note("error", t, server.turn[t])>> \o Ended(t) \in Seq(NoteRec)
      BY <1>2, <1>3
    <2> QED
      BY <1>2, <2>2, <2>3, <2>4, EmitDone
  <1> QED
    BY <1>5, <1>6, <1>7

----------------------------------------------------------------------------
(* The handlers of answers                                                  *)

LEMMA AnswerDone ==
    ASSUME TypeInv, NEW i \in DOMAIN server.wire, TakeAny(i), FateKept, IsStore(store'),
           loaded' \in SUBSET Threads, CallsProper', CallsKept,
           queued' \in [Threads -> Seq(Messages)] /\ (\A m : InQueue(m) => InQueue(m)'),
           inFlight' \in [Threads -> OrNone(Messages)] /\ started' \in [Threads -> BOOLEAN],
           \A m \in Messages : m = server.wire[i].call.msg =>
             fate'[m] # "open" \/ InQueue(m)' \/ InCall(m)'
    PROVE  StepKept
  <1>1. WireProper /\ ViewTyped /\ MessagesTyped /\ CallsProper /\ WindowTyped
    BY DEF TypeInv
  <1>2. /\ WireProper' /\ ViewTyped'
        /\ UNCHANGED <<seen, effects, known, pending, drafts, scene>>
        /\ \A m : OnWire(m) => OnWire(m)' \/ m = server.wire[i].call.msg
    BY <1>1, TakeKeeps
  <1>3. MessagesTyped'
    BY <1>1, <1>2 DEF MessagesTyped, FateKept, Fates
  <1>4. WindowTyped'
    BY <1>1, <1>2 DEF WindowTyped
  <1>5. \A m : InCall(m) => InCall(m)'
    BY <1>1, CallsKeptHold
  <1>6. HeldKept
    BY <1>2, <1>5, HeldParts, HeldPartsNext DEF HeldKept
  <1> QED
    BY <1>2, <1>3, <1>4, <1>6 DEF StepKept, TypeInv

\* The answers that move nothing but the store and the fate.
LEMMA PlainAnswerDone ==
    ASSUME TypeInv, NEW i \in DOMAIN server.wire, TakeAny(i), FateKept, IsStore(store'),
           UNCHANGED <<queue, loaded, calls>>,
           \A m \in Messages : m = server.wire[i].call.msg => fate'[m] # "open"
    PROVE  StepKept
  <1>1. WindowTyped /\ CallsProper
    BY DEF TypeInv
  <1>2. CallsProper' /\ CallsKept
    BY <1>1, CallsUnchanged
  <1>3. /\ queued' = queued /\ inFlight' = inFlight /\ started' = started /\ loaded' = loaded
    BY DEF queue
  <1>4. /\ queued' \in [Threads -> Seq(Messages)] /\ loaded' \in SUBSET Threads
        /\ inFlight' \in [Threads -> OrNone(Messages)] /\ started' \in [Threads -> BOOLEAN]
    BY <1>1, <1>3 DEF WindowTyped
  <1>5. \A m : InQueue(m) => InQueue(m)'
    BY <1>3, QueueSame
  <1> QED
    BY <1>2, <1>4, <1>5, AnswerDone

LEMMA GoOnKeeps ==
    ASSUME CallsProper, NEW c \in CallRec, Proper(c), c.stage \in {"ensure", "opened"},
           NEW t \in Threads, NEW s, IsStore(s), GoOn(c, t, s)
    PROVE  /\ CallsProper' /\ CallsKept /\ IsStore(store')
           /\ \A m \in Messages : m = c.msg => InCall(m)'
  <1>1. CASE c.op \in {"send", "new"}
    <2>1. PICK d : d = Issued([c EXCEPT !.op = "send"], t)
      OBVIOUS
    <2>2. calls' = Append(calls, d) /\ store' = Begun(s, t)
      BY <1>1, <2>1 DEF GoOn
    <2>3. Proper(d) /\ d.msg = c.msg /\ d.stage = "issued"
      BY <1>1, <2>1, IssuedProper
    <2>4. CallsProper' /\ CallsKept /\ \E k \in 1..Len(calls') : calls'[k].msg = c.msg
      BY <2>2, <2>3, AppendKeeps DEF CallsKept
    <2> QED
      BY <2>2, <2>4, BegunIsStore DEF InCall, CallsProper
  <1>2. CASE c.op = "review"
    <2>1. PICK d : d = [c EXCEPT !.thread = t, !.stage = "issued"]
      OBVIOUS
    <2>2. calls' = Append(calls, d) /\ store' = Reviewed(s, t)
      BY <1>2, <2>1 DEF GoOn
    <2>3. /\ d \in CallRec /\ d.msg = c.msg /\ d.stage = "issued" /\ d.thread = t
          /\ d.op = c.op /\ d.from = c.from /\ d.home = c.home /\ d.steer = c.steer
      BY <2>1 DEF CallRec, OrNone
    <2>4. Proper(d)
      BY <1>2, <2>3, NoneAssumption DEF Proper
    <2>5. CallsProper' /\ CallsKept /\ \E k \in 1..Len(calls') : calls'[k].msg = c.msg
      BY <2>2, <2>3, <2>4, AppendKeeps DEF CallsKept
    <2> QED
      BY <2>2, <2>5, BegunIsStore DEF InCall, CallsProper
  <1>3. CASE c.op \notin {"send", "new", "review"}
    <2>1. UNCHANGED calls /\ store' = s
      BY <1>3 DEF GoOn
    <2>2. c.msg = None
      BY <1>3 DEF Proper, CallRec, Ops
    <2> QED
      BY <2>1, <2>2, CallsUnchanged, TurnsAssumption
  <1> QED
    BY <1>1, <1>2, <1>3

LEMMA FinishedIsStore ==
    ASSUME NEW s, IsStore(s), NEW t \in Threads
    PROVE  /\ IsStore(SetActiveTurnId(MarkProcessing(s, t, FALSE, 1), t, None))
           /\ IsStore(SetActiveTurnId(MarkReviewing(MarkProcessing(s, t, FALSE, 1), t, FALSE),
                                      t, None))
  <1>1. None \in Turn
    BY DEF Turn
  <1>2. IsStore(MarkProcessing(s, t, FALSE, 1))
    BY MarksAreStore
  <1>3. IsStore(MarkReviewing(MarkProcessing(s, t, FALSE, 1), t, FALSE))
    BY <1>2, MarksAreStore
  <1> QED
    BY <1>1, <1>2, <1>3, SetTurnIsStore

LEMMA SendAnswerKeeps ==
    ASSUME TypeInv, NEW i \in DOMAIN server.wire, SendAnswer(i)
    PROVE  StepKept
  <1>1. WindowTyped /\ WireProper /\ ViewTyped /\ MessagesTyped
    BY DEF TypeInv
  <1>2. PICK a : a = server.wire[i]
    OBVIOUS
  <1>3. /\ a.call.op = "send" /\ a.call.stage = "sent" /\ TakeAny(i)
        /\ store' = IF a.ok THEN SetActiveTurnId(store, a.call.thread, a.turn)
                    ELSE Told(SetActiveTurnId(MarkProcessing(
                                store, a.call.thread, FALSE, 1), a.call.thread, None),
                              a.call.thread)
        /\ IF a.ok THEN UNCHANGED fate ELSE fate' = [fate EXCEPT ![a.call.msg] = "told"]
        /\ UNCHANGED <<queue, loaded, calls>>
    BY <1>2 DEF SendAnswer, ToldOf
  <1>4. a.type = "answer"
    BY <1>2, <1>3 DEF TakeAny
  <1>5. /\ a.call \in CallRec /\ Proper(a.call) /\ a.ok \in BOOLEAN /\ a.turn \in Turn
        /\ ProperLine(a)
    BY <1>1, <1>2, <1>4, AnswerFields
  <1>6. a.call.thread \in Threads
    BY <1>3, <1>5 DEF Proper, CallRec, OrNone
  <1>7. IsStore(store')
    BY <1>1, <1>3, <1>5, <1>6, SetTurnIsStore, FinishedIsStore, ToldIsStore DEF WindowTyped
  <1>8. FateKept /\ \A m \in Messages : m = a.call.msg => fate'[m] # "open"
    <2>1. CASE a.ok
      BY <1>1, <1>3, <1>4, <1>5, <2>1, FateUnchanged DEF ProperLine
    <2>2. CASE ~a.ok
      BY <1>1, <1>3, <2>2, FateSet DEF Fates
    <2> QED
      BY <2>1, <2>2
  <1> QED
    BY <1>2, <1>3, <1>7, <1>8, PlainAnswerDone

LEMMA SteerAnswerKeeps ==
    ASSUME TypeInv, NEW i \in DOMAIN server.wire, SteerAnswer(i)
    PROVE  StepKept
  <1>1. WindowTyped /\ WireProper /\ ViewTyped /\ MessagesTyped /\ CallsProper
    BY DEF TypeInv
  <1>2. PICK a : a = server.wire[i]
    OBVIOUS
  <1>3. PICK t : t = a.call.thread
    OBVIOUS
  <1>4. /\ a.call.op = "send" /\ a.call.stage = "sent" /\ a.call.steer /\ TakeAny(i)
        /\ store' = IF a.ok THEN SetActiveTurnId(store, t, a.turn)
                    ELSE Told(IF a.stale
                                THEN SetActiveTurnId(MarkProcessing(store, t, FALSE, 1), t, None)
                                ELSE store, t)
        /\ IF ~a.ok /\ a.call.from = "composer"
             THEN /\ queued' = [queued EXCEPT ![a.call.home] = Append(@, a.call.msg)]
                  /\ UNCHANGED fate
             ELSE /\ IF a.ok THEN UNCHANGED fate ELSE fate' = [fate EXCEPT ![a.call.msg] = "told"]
                  /\ UNCHANGED queued
        /\ UNCHANGED <<inFlight, started, loaded, calls>>
    BY <1>2, <1>3 DEF SteerAnswer, ToldOf
  <1>5. a.type = "answer"
    BY <1>2, <1>4 DEF TakeAny
  <1>6. /\ a.call \in CallRec /\ Proper(a.call) /\ a.ok \in BOOLEAN /\ a.turn \in Turn
        /\ ProperLine(a)
    BY <1>1, <1>2, <1>5, AnswerFields
  <1>7. t \in Threads /\ a.call.home \in Threads /\ a.call.msg \in Messages
    BY <1>3, <1>4, <1>6 DEF Proper, CallRec, OrNone
  <1>8. IsStore(store')
    BY <1>1, <1>4, <1>6, <1>7, SetTurnIsStore, FinishedIsStore, ToldIsStore DEF WindowTyped
  <1>9. CallsProper' /\ CallsKept
    BY <1>1, <1>4, CallsUnchanged
  <1>10. /\ loaded' \in SUBSET Threads /\ inFlight' \in [Threads -> OrNone(Messages)]
         /\ started' \in [Threads -> BOOLEAN]
    BY <1>1, <1>4 DEF WindowTyped
  <1>11. CASE ~a.ok /\ a.call.from = "composer"
    <2>1. /\ queued' \in [Threads -> Seq(Messages)]
          /\ \A n : InQueue(n) => InQueue(n)'
          /\ \A m \in Messages : m = a.call.msg => InQueue(m)'
      <3>1. PICK h \in Threads : h = a.call.home
        BY <1>7
      <3>2. PICK m \in Messages : m = a.call.msg
        BY <1>7
      <3>3. queued' = [queued EXCEPT ![h] = Append(@, m)]
        BY <1>4, <1>11, <3>1, <3>2
      <3>4. /\ queued' \in [Threads -> Seq(Messages)]
            /\ InQueue(m)' /\ \A n : InQueue(n) => InQueue(n)'
        BY <1>1, <3>3, QueueGrows
      <3> QED
        BY <3>2, <3>4
    <2>2. FateKept
      BY <1>1, <1>4, <1>11, FateUnchanged
    <2> QED
      BY <1>2, <1>4, <1>8, <1>9, <1>10, <2>1, <2>2, AnswerDone
  <1>12. CASE ~(~a.ok /\ a.call.from = "composer")
    <2>1. UNCHANGED queued /\ UNCHANGED queue
      BY <1>4, <1>12 DEF queue
    <2>2. FateKept /\ \A m \in Messages : m = a.call.msg => fate'[m] # "open"
      <3>1. CASE a.ok
        BY <1>1, <1>4, <1>5, <1>6, <1>12, <3>1, FateUnchanged DEF ProperLine
      <3>2. CASE ~a.ok
        BY <1>1, <1>4, <1>12, <3>2, FateSet, ZenonT(60) DEF Fates
      <3> QED
        BY <3>1, <3>2
    <2> QED
      BY <1>2, <1>4, <1>8, <2>1, <2>2, PlainAnswerDone
  <1> QED
    BY <1>11, <1>12

LEMMA ReviewAnswerKeeps ==
    ASSUME TypeInv, NEW i \in DOMAIN server.wire, ReviewAnswer(i)
    PROVE  StepKept
  <1>1. WindowTyped /\ WireProper /\ ViewTyped /\ MessagesTyped
    BY DEF TypeInv
  <1>2. PICK a : a = server.wire[i]
    OBVIOUS
  <1>3. PICK t : t = a.call.thread
    OBVIOUS
  <1>4. /\ a.call.op = "review" /\ a.call.stage = "sent" /\ TakeAny(i)
        /\ store' = IF a.ok
                      THEN IF a.child = t THEN store
                           ELSE Told(SetThreadParent(store, a.child, t), t)
                    ELSE IF scene.detached THEN Told(store, t)
                    ELSE Told(SetActiveTurnId(MarkReviewing(MarkProcessing(
                                store, t, FALSE, 1), t, FALSE), t, None), t)
        /\ IF a.ok THEN UNCHANGED fate ELSE fate' = [fate EXCEPT ![a.call.msg] = "told"]
        /\ UNCHANGED <<queue, loaded, calls>>
    BY <1>2, <1>3 DEF ReviewAnswer, ToldOf
  <1>5. a.type = "answer"
    BY <1>2, <1>4 DEF TakeAny
  <1>6. /\ a.call \in CallRec /\ Proper(a.call) /\ a.ok \in BOOLEAN
        /\ a.child \in OrNone(Threads) /\ ProperLine(a)
    BY <1>1, <1>2, <1>5, AnswerFields
  <1>7. t \in Threads /\ (a.ok => a.child \in Threads)
    BY <1>3, <1>4, <1>5, <1>6 DEF Proper, ProperLine, CallRec, OrNone
  <1>8. IsStore(store')
    BY <1>1, <1>4, <1>7, ParentIsStore, FinishedIsStore, ToldIsStore DEF WindowTyped
  <1>9. FateKept /\ \A m \in Messages : m = a.call.msg => fate'[m] # "open"
    <2>1. CASE a.ok
      BY <1>1, <1>4, <1>5, <1>6, <2>1, FateUnchanged DEF ProperLine
    <2>2. CASE ~a.ok
      BY <1>1, <1>4, <2>2, FateSet DEF Fates
    <2> QED
      BY <2>1, <2>2
  <1> QED
    BY <1>2, <1>4, <1>8, <1>9, PlainAnswerDone

LEMMA CommandAnswerKeeps ==
    ASSUME TypeInv, NEW i \in DOMAIN server.wire, CommandAnswer(i)
    PROVE  StepKept
  <1>1. WindowTyped /\ WireProper /\ MessagesTyped
    BY DEF TypeInv
  <1>2. PICK a : a = server.wire[i]
    OBVIOUS
  <1>3. /\ a.call.op \in {"command", "stop"} /\ TakeAny(i)
        /\ store' = IF a.call.op = "command" /\ a.call.thread # None
                      THEN FillItems(store, a.call.thread) ELSE store
        /\ IF a.call.op = "command" THEN fate' = [fate EXCEPT ![a.call.msg] = "told"]
           ELSE UNCHANGED fate
        /\ UNCHANGED <<queue, loaded, calls>>
    BY <1>2 DEF CommandAnswer, Take, ToldOf
  <1>4. a.type = "answer"
    BY <1>2, <1>3 DEF TakeAny
  <1>5. a.call \in CallRec /\ Proper(a.call)
    BY <1>1, <1>2, <1>4, AnswerFields
  <1>6. IsStore(store')
    BY <1>1, <1>3, <1>5, FillIsStore DEF WindowTyped, CallRec, OrNone
  <1>7. FateKept /\ \A m \in Messages : m = a.call.msg => fate'[m] # "open"
    <2>1. CASE a.call.op = "command"
      BY <1>1, <1>3, <2>1, FateSet DEF Fates
    <2>2. CASE a.call.op = "stop"
      BY <1>1, <1>3, <1>5, <2>2, FateUnchanged, TurnsAssumption DEF Proper
    <2> QED
      BY <1>3, <2>1, <2>2
  <1> QED
    BY <1>2, <1>3, <1>6, <1>7, PlainAnswerDone

LEMMA UserInputAnswerKeeps ==
    ASSUME TypeInv, NEW i \in DOMAIN server.wire, UserInputAnswer(i)
    PROVE  StepKept
  <1>1. WindowTyped /\ WireProper /\ MessagesTyped
    BY DEF TypeInv
  <1>2. PICK a : a = server.wire[i]
    OBVIOUS
  <1>3. PICK request : request = [thread |-> a.call.thread, turn |-> a.call.turn]
    OBVIOUS
  <1>4. /\ a.call.op = "reply" /\ a.call.stage = "sent" /\ TakeAny(i)
        /\ store' = IF a.ok
                      THEN RemoveUserInputRequest(FillItems(store, a.call.thread), request)
                      ELSE store
        /\ UNCHANGED <<queue, loaded, calls, fate>>
    BY <1>2, <1>3 DEF UserInputAnswer, Take
  <1>5. a.type = "answer"
    BY <1>2, <1>4 DEF TakeAny
  <1>6. a.call \in CallRec /\ Proper(a.call) /\ a.call.turn \in Turn
    BY <1>1, <1>2, <1>5, AnswerFields DEF CallRec
  <1>7. a.call.thread \in Threads /\ a.call.msg = None
    BY <1>4, <1>6 DEF Proper, CallRec, OrNone
  <1>8. request \in Request
    BY <1>3, <1>6, <1>7 DEF Request
  <1>9. IsStore(store')
    BY <1>1, <1>4, <1>7, <1>8, FillIsStore, InputsAreStore DEF WindowTyped
  <1>10. FateKept
    BY <1>1, <1>4, FateUnchanged
  <1> QED
    BY <1>2, <1>4, <1>7, <1>9, <1>10, PlainAnswerDone, TurnsAssumption

LEMMA WindowRest ==
    ASSUME WindowTyped, UNCHANGED queue
    PROVE  /\ queued' \in [Threads -> Seq(Messages)] /\ \A m : InQueue(m) => InQueue(m)'
           /\ inFlight' \in [Threads -> OrNone(Messages)] /\ started' \in [Threads -> BOOLEAN]
  BY QueueSame DEF WindowTyped, queue

LEMMA ThreadAnswerKeeps ==
    ASSUME TypeInv, NEW i \in DOMAIN server.wire, ThreadAnswer(i)
    PROVE  StepKept
  <1>1. WindowTyped /\ WireProper /\ MessagesTyped /\ CallsProper
    BY DEF TypeInv
  <1>2. PICK a : a = server.wire[i]
    OBVIOUS
  <1>3. PICK t : t = a.call.thread
    OBVIOUS
  <1>4. PICK s : s = SetActiveThreadId(EnsureThread(store, Workspace, t), Workspace, t)
    OBVIOUS
  <1>5. /\ a.call.stage = "opened" /\ TakeAny(i) /\ loaded' = loaded \cup {t}
        /\ GoOn(a.call, t, s) /\ UNCHANGED <<queue, fate>>
    BY <1>2, <1>3, <1>4 DEF ThreadAnswer, Take
  <1>6. a.type = "answer"
    BY <1>2, <1>5 DEF TakeAny
  <1>7. a.call \in CallRec /\ Proper(a.call)
    BY <1>1, <1>2, <1>6, AnswerFields
  <1>8. t \in Threads
    BY <1>3, <1>5, <1>7 DEF Proper, CallRec, OrNone
  <1>9. IsStore(s)
    <2>1. IsStore(EnsureThread(store, Workspace, t))
      BY <1>1, <1>8, RowsAreStore, TurnsAssumption DEF WindowTyped
    <2> QED
      BY <1>4, <1>8, <2>1, SetActiveIsStore, TurnsAssumption
  <1>10. /\ CallsProper' /\ CallsKept /\ IsStore(store')
         /\ \A m \in Messages : m = a.call.msg => InCall(m)'
    BY <1>1, <1>5, <1>7, <1>8, <1>9, GoOnKeeps
  <1>11. FateKept
    BY <1>1, <1>5, FateUnchanged
  <1>12. loaded' \in SUBSET Threads
    BY <1>1, <1>5, <1>8 DEF WindowTyped
  <1> QED
    BY <1>1, <1>2, <1>5, <1>10, <1>11, <1>12, WindowRest, AnswerDone

LEMMA ResumedIsStore ==
    ASSUME ViewTyped, NEW s, IsStore(s), NEW a \in AnswerRec, a.call.thread \in Threads
    PROVE  IsStore(Resumed(s, a))
  <1>1. PICK t \in Threads : t = a.call.thread
    OBVIOUS
  <1>2. PICK keep : keep = (Processing(t) /\ a.turn = None /\ ~a.sure)
    OBVIOUS
  <1>3. PICK turn : turn = IF keep THEN seen.store.turn[t] ELSE a.turn
    OBVIOUS
  <1>4. turn \in Turn
    BY <1>3, OpenTyped DEF AnswerRec
  <1>5. PICK e : e = EnsureThread(s, Workspace, t)
    OBVIOUS
  <1>6. IsStore(e)
    BY <1>5, RowsAreStore, TurnsAssumption
  <1>7. PICK on \in BOOLEAN : on = (keep \/ turn # None)
    BY <1>2
  <1>8. PICK p : p = MarkProcessing(e, t, on, 1)
    OBVIOUS
  <1>9. IsStore(p)
    BY <1>6, <1>8, MarksAreStore
  <1>10. PICK q : q = SetActiveTurnId(p, t, turn)
    OBVIOUS
  <1>11. IsStore(q)
    BY <1>4, <1>9, <1>10, SetTurnIsStore
  <1>12. IsStore(MarkReviewing(q, t, a.review))
    BY <1>11, MarksAreStore DEF AnswerRec
  <1>13. Resumed(s, a) = IF a.call.filled THEN e ELSE MarkReviewing(q, t, a.review)
    BY <1>1, <1>2, <1>3, <1>5, <1>7, <1>8, <1>10 DEF Resumed, KeepsMark
  <1> QED
    BY <1>6, <1>12, <1>13

LEMMA ReadAnswerKeeps ==
    ASSUME TypeInv, NEW i \in DOMAIN server.wire, ReadAnswer(i)
    PROVE  StepKept
  <1>1. WindowTyped /\ WireProper /\ MessagesTyped /\ CallsProper /\ ViewTyped
    BY DEF TypeInv
  <1>2. PICK a : a = server.wire[i]
    OBVIOUS
  <1>3. PICK t : t = a.call.thread
    OBVIOUS
  <1>4. PICK read : read = IF a.ok THEN Resumed(store, a) ELSE store
    OBVIOUS
  <1>5. PICK s : s = IF \E c \in ToSet(calls) : c.stage \in {"opening", "ensure"} /\ c.thread = t
                       THEN read ELSE SetResumeLoading(read, t, FALSE)
    OBVIOUS
  <1>6. /\ a.call.stage = "ensure" /\ t # None /\ TakeAny(i)
        /\ loaded' = IF a.ok THEN loaded \cup {t} ELSE loaded
        /\ GoOn(a.call, t, s) /\ UNCHANGED <<queue, fate>>
    BY <1>2, <1>3, <1>4, <1>5 DEF ReadAnswer
  <1>7. a.type = "answer"
    BY <1>2, <1>6 DEF TakeAny
  <1>8. a \in AnswerRec /\ a.call \in CallRec /\ Proper(a.call)
    BY <1>1, <1>2, <1>7, AnswerFields
  <1>9. t \in Threads
    BY <1>3, <1>6, <1>8 DEF CallRec, OrNone
  <1>10. IsStore(read)
    BY <1>1, <1>3, <1>4, <1>8, <1>9, ResumedIsStore DEF WindowTyped
  <1>11. IsStore(s)
    BY <1>5, <1>9, <1>10, MarksAreStore
  <1>12. /\ CallsProper' /\ CallsKept /\ IsStore(store')
         /\ \A m \in Messages : m = a.call.msg => InCall(m)'
    BY <1>1, <1>6, <1>8, <1>9, <1>11, GoOnKeeps
  <1>13. FateKept
    BY <1>1, <1>6, FateUnchanged
  <1>14. loaded' \in SUBSET Threads
    BY <1>1, <1>6, <1>9 DEF WindowTyped
  <1> QED
    BY <1>1, <1>2, <1>6, <1>12, <1>13, <1>14, WindowRest, AnswerDone

\* A message that goes back to the front of its queue is in it.
LEMMA GiveBackKeeps ==
    ASSUME WindowTyped, NEW c \in CallRec, c.home \in Threads, c.msg \in Messages, GiveBack(c)
    PROVE  /\ queued' \in [Threads -> Seq(Messages)]
           /\ inFlight' \in [Threads -> OrNone(Messages)] /\ started' \in [Threads -> BOOLEAN]
           /\ \A m : InQueue(m) \/ m = c.msg => InQueue(m)'
  <1>1. PICK t \in Threads : t = c.home
    OBVIOUS
  <1>2. PICK q : q = <<c.msg>> \o queued[t]
    OBVIOUS
  <1>3. /\ queued' = [queued EXCEPT ![t] = q] /\ inFlight' = [inFlight EXCEPT ![t] = None]
        /\ started' = [started EXCEPT ![t] = FALSE]
    BY <1>1, <1>2 DEF GiveBack
  <1>4. queued[t] \in Seq(Messages) /\ queued \in [Threads -> Seq(Messages)]
    BY DEF WindowTyped
  <1>5. /\ q \in Seq(Messages) /\ Len(q) = Len(queued[t]) + 1 /\ q[1] = c.msg
        /\ \A i \in 1..Len(queued[t]) : q[i + 1] = queued[t][i]
    BY <1>2, <1>4
  <1>6. 1 \in 1..Len(q) /\ \A i \in 1..Len(queued[t]) : i + 1 \in 1..Len(q)
    BY <1>4, <1>5
  <1>7. \A m : Contains(queued[t], m) \/ m = c.msg => Contains(q, m)
    BY <1>5, <1>6 DEF Contains
  <1>8. queued' \in [Threads -> Seq(Messages)] /\ queued'[t] = q
        /\ \A u \in Threads : u # t => queued'[u] = queued[u]
    BY <1>3, <1>4, <1>5
  <1>9. \A m : InQueue(m) \/ m = c.msg => InQueue(m)'
    BY <1>7, <1>8 DEF InQueue
  <1>10. inFlight' \in [Threads -> OrNone(Messages)] /\ started' \in [Threads -> BOOLEAN]
    BY <1>3 DEF WindowTyped, OrNone
  <1> QED
    BY <1>8, <1>9, <1>10

LEMMA ThreadFailedKeeps ==
    ASSUME TypeInv, NEW i \in DOMAIN server.wire, ThreadFailed(i)
    PROVE  StepKept
  <1>1. WindowTyped /\ WireProper /\ MessagesTyped /\ CallsProper
    BY DEF TypeInv
  <1>2. PICK a : a = server.wire[i]
    OBVIOUS
  <1>3. /\ a.call.stage = "ensure" /\ a.call.thread = None /\ TakeAny(i)
        /\ \/ a.call.from = "queue" /\ GiveBack(a.call) /\ UNCHANGED fate
           \/ fate' = [fate EXCEPT ![a.call.msg] = "unstarted"] /\ UNCHANGED queue
        /\ UNCHANGED <<store, loaded, calls>>
    BY <1>2 DEF ThreadFailed, Take
  <1>4. a.type = "answer"
    BY <1>2, <1>3 DEF TakeAny
  <1>5. a.call \in CallRec /\ Proper(a.call)
    BY <1>1, <1>2, <1>4, AnswerFields
  <1>6. /\ a.call.msg \in Messages
        /\ a.call.from = "queue" => a.call.home \in Threads
    BY <1>3, <1>5 DEF Proper, CallRec, OrNone
  <1>7. IsStore(store') /\ loaded' \in SUBSET Threads /\ CallsProper' /\ CallsKept
    BY <1>1, <1>3, CallsUnchanged DEF WindowTyped
  <1>8. CASE a.call.from = "queue" /\ GiveBack(a.call) /\ UNCHANGED fate
    <2>1. /\ queued' \in [Threads -> Seq(Messages)]
          /\ inFlight' \in [Threads -> OrNone(Messages)] /\ started' \in [Threads -> BOOLEAN]
          /\ \A m : InQueue(m) \/ m = a.call.msg => InQueue(m)'
      BY <1>1, <1>3, <1>5, <1>6, <1>8, GiveBackKeeps
    <2>2. FateKept
      BY <1>1, <1>3, <1>8, FateUnchanged
    <2> QED
      BY <1>2, <1>3, <1>7, <2>1, <2>2, AnswerDone
  <1>9. CASE fate' = [fate EXCEPT ![a.call.msg] = "unstarted"] /\ UNCHANGED queue
    <2>1. FateKept /\ \A m \in Messages : m = a.call.msg => fate'[m] # "open"
      BY <1>1, <1>3, <1>9, FateSet DEF Fates
    <2> QED
      BY <1>2, <1>3, <1>7, <1>9, <2>1, PlainAnswerDone
  <1> QED
    BY <1>3, <1>8, <1>9

LEMMA AnswersKeeps ==
    ASSUME TypeInv, Answers
    PROVE  StepKept
  BY ThreadAnswerKeeps, ThreadFailedKeeps, ReadAnswerKeeps, SendAnswerKeeps, SteerAnswerKeeps,
     ReviewAnswerKeeps, CommandAnswerKeeps, UserInputAnswerKeeps DEF Answers

----------------------------------------------------------------------------
(* The handlers of notifications                                            *)

Known == [turn : Turn \cup {Unset}, reducer : Turn \cup {Unset}, optimistic : BOOLEAN]

LEMMA NoteDone ==
    ASSUME TypeInv, NEW i \in DOMAIN server.wire, NEW type, type # "answer", Noted(type, i),
           IsStore(store'), known' \in [Threads -> Known], pending' \in SUBSET Threads,
           loaded' \in SUBSET Threads, CallsProper', CallsKept
    PROVE  StepKept
  <1>1. WindowTyped /\ WireProper /\ ViewTyped /\ MessagesTyped /\ CallsProper
    BY DEF TypeInv
  <1>2. /\ WireProper' /\ ViewTyped' /\ MessagesTyped' /\ FateKept
        /\ UNCHANGED <<queue, seen, effects, drafts, fate>>
        /\ \A m : OnWire(m) => OnWire(m)'
    BY <1>1, NotedKeeps
  <1>3. WindowTyped'
    BY <1>1, <1>2, WindowRest DEF WindowTyped, Known
  <1>4. \A m : (InCall(m) => InCall(m)') /\ (InQueue(m) => InQueue(m)')
    BY <1>1, <1>2, CallsKeptHold, WindowRest
  <1>5. HeldKept
    BY <1>2, <1>4, HeldParts, HeldPartsNext DEF HeldKept
  <1> QED
    BY <1>2, <1>3, <1>5 DEF StepKept, TypeInv

LEMMA WindowFields ==
    ASSUME WindowTyped
    PROVE  /\ IsStore(store) /\ known \in [Threads -> Known]
           /\ pending \in SUBSET Threads /\ loaded \in SUBSET Threads
  BY DEF WindowTyped, Known

LEMMA NotedThread ==
    ASSUME TypeInv, NEW i \in DOMAIN server.wire, NEW type, type # "answer", Noted(type, i)
    PROVE  /\ server.wire[i].thread \in Threads /\ server.wire[i].turn \in Turn
           /\ server.wire[i].type = type
  BY NotedKeeps DEF TypeInv, Noted

\* A stop or a reply on its way.
LEMMA AskProper ==
    ASSUME NEW op \in {"stop", "reply"}, NEW from \in {"user", "event"}, NEW t \in Threads,
           NEW turn \in Turn, NEW c, IsNewCall(c, op, None, from, t)
    PROVE  /\ Proper([c EXCEPT !.turn = turn, !.stage = "issued"])
           /\ [c EXCEPT !.turn = turn, !.stage = "issued"].stage # "opened"
           /\ Proper([c EXCEPT !.stage = "issued"])
           /\ [c EXCEPT !.stage = "issued"].stage # "opened"
  <1>1. t # None
    BY NoneAssumption
  <1>2. PICK d : d = [c EXCEPT !.turn = turn, !.stage = "issued"]
    OBVIOUS
  <1>3. PICK e : e = [c EXCEPT !.stage = "issued"]
    OBVIOUS
  <1>4. /\ d \in CallRec /\ d.op = op /\ d.msg = None /\ d.from = from /\ d.thread = t
        /\ d.stage = "issued" /\ d.steer = FALSE
    BY <1>2 DEF IsNewCall, CallRec
  <1>5. /\ e \in CallRec /\ e.op = op /\ e.msg = None /\ e.from = from /\ e.thread = t
        /\ e.stage = "issued" /\ e.steer = FALSE
    BY <1>3 DEF IsNewCall, CallRec
  <1>6. Proper(d)
    BY <1>1, <1>4 DEF Proper
  <1>7. Proper(e)
    BY <1>1, <1>5 DEF Proper
  <1> QED
    BY <1>2, <1>3, <1>4, <1>5, <1>6, <1>7

LEMMA LatestTyped ==
    ASSUME ViewTyped, WindowTyped
    PROVE  \A t \in Threads : /\ LatestKnown(t).known \in Known
                              /\ [LatestKnown(t).known EXCEPT !.turn = None, !.optimistic = FALSE]
                                   \in Known
  <1> SUFFICES ASSUME NEW t \in Threads
               PROVE  /\ LatestKnown(t).known \in Known
                      /\ [LatestKnown(t).known EXCEPT !.turn = None, !.optimistic = FALSE] \in Known
    OBVIOUS
  <1>1. PICK k \in Known : k = known[t]
    BY WindowFields
  <1>2. PICK rendered \in Turn : rendered = seen.store.turn[t]
    BY OpenTyped
  <1>3. None \in Turn
    BY DEF Turn
  <1>4. PICK l : l = LatestKnown(t).known
    OBVIOUS
  <1>5. \/ l = [k EXCEPT !.reducer = rendered]
        \/ \E turn \in {rendered, k.turn} :
             l = [turn |-> turn, reducer |-> rendered, optimistic |-> FALSE]
    BY <1>1, <1>2, <1>4 DEF LatestKnown
  <1>6. l \in Known
    <2>1. rendered \in Turn \cup {Unset} /\ k.turn \in Turn \cup {Unset}
      BY <1>2 DEF Known
    <2>2. [k EXCEPT !.reducer = rendered] \in Known
      BY <2>1 DEF Known
    <2>3. \A turn \in {rendered, k.turn} :
            [turn |-> turn, reducer |-> rendered, optimistic |-> FALSE] \in Known
      BY <2>1 DEF Known
    <2> QED
      BY <1>5, <2>2, <2>3
  <1>7. [l EXCEPT !.turn = None, !.optimistic = FALSE] \in Known
    BY <1>3, <1>6 DEF Known
  <1> QED
    BY <1>4, <1>6, <1>7

LEMMA OnThreadStartedKeeps ==
    ASSUME TypeInv, NEW i \in DOMAIN server.wire, OnThreadStarted(i)
    PROVE  StepKept
  <1>1. WindowTyped /\ CallsProper
    BY DEF TypeInv
  <1>2. PICK t : t = server.wire[i].thread
    OBVIOUS
  <1>3. /\ Noted("thread/started", i) /\ UNCHANGED <<refs, calls>>
        /\ store' = IF t \in seen.store.hidden[Workspace] THEN store
                    ELSE SetThreadTimestamp(EnsureThread(store, Workspace, t), Workspace, t, 1, TRUE)
    BY <1>2 DEF OnThreadStarted
  <1>4. t \in Threads
    BY <1>2, <1>3, NotedThread
  <1>5. IsStore(EnsureThread(store, Workspace, t))
    BY <1>1, <1>4, RowsAreStore, TurnsAssumption DEF WindowTyped
  <1>6. IsStore(SetThreadTimestamp(EnsureThread(store, Workspace, t), Workspace, t, 1, TRUE))
    BY <1>4, <1>5, RowsAreStore, TurnsAssumption
  <1>7. IsStore(store')
    BY <1>1, <1>3, <1>6, WindowFields
  <1>8. CallsProper' /\ CallsKept
    BY <1>1, <1>3, CallsUnchanged
  <1>9. /\ known' \in [Threads -> Known] /\ pending' \in SUBSET Threads
        /\ loaded' \in SUBSET Threads
    BY <1>1, <1>3, WindowFields DEF refs
  <1> QED
    BY <1>3, <1>7, <1>8, <1>9, NoteDone

LEMMA OnTurnStartedKeeps ==
    ASSUME TypeInv, NEW i \in DOMAIN server.wire, OnTurnStarted(i)
    PROVE  StepKept
  <1>1. WindowTyped /\ CallsProper /\ ViewTyped
    BY DEF TypeInv
  <1>2. PICK t : t = server.wire[i].thread
    OBVIOUS
  <1>3. PICK turn : turn = server.wire[i].turn
    OBVIOUS
  <1>4. PICK e : e = EnsureThread(store, Workspace, t)
    OBVIOUS
  <1>5. /\ Noted("turn/started", i) /\ UNCHANGED loaded
        /\ IF t \in pending
             THEN /\ pending' = pending \ {t}
                  /\ calls' = Append(calls, [Call("stop", None, "event", t) EXCEPT
                                               !.turn = turn, !.stage = "issued"])
                  /\ store' = e
                  /\ UNCHANGED known
             ELSE /\ store' = SetActiveTurnId(MarkProcessing(e, t, TRUE, 1), t, turn)
                  /\ known' = [known EXCEPT ![t] =
                       [turn |-> turn, reducer |-> seen.store.turn[t], optimistic |-> TRUE]]
                  /\ UNCHANGED <<pending, calls>>
    BY <1>2, <1>3, <1>4 DEF OnTurnStarted
  <1>6. t \in Threads /\ turn \in Turn
    BY <1>2, <1>3, <1>5, NotedThread
  <1>7. IsStore(e)
    BY <1>1, <1>4, <1>6, RowsAreStore, TurnsAssumption DEF WindowTyped
  <1>8. IsStore(SetActiveTurnId(MarkProcessing(e, t, TRUE, 1), t, turn))
    BY <1>6, <1>7, MarksAreStore, SetTurnIsStore
  <1>9. loaded' \in SUBSET Threads
    BY <1>1, <1>5, WindowFields
  <1>10. CASE t \in pending
    <2>1. PICK c : c = Call("stop", None, "event", t)
      OBVIOUS
    <2>2. IsNewCall(c, "stop", None, "event", t)
      <3>1. /\ "stop" \in Ops /\ None \in OrNone(Messages) /\ "event" \in From
            /\ t \in OrNone(Threads)
        BY <1>6 DEF Ops, OrNone, From
      <3> QED
        BY <1>1, <2>1, <3>1, CallTyped
    <2>3. PICK d : d = [c EXCEPT !.turn = turn, !.stage = "issued"]
      OBVIOUS
    <2>4. Proper(d) /\ d.stage # "opened"
      BY <1>6, <2>2, <2>3, AskProper
    <2>5. calls' = Append(calls, d)
      BY <1>5, <1>10, <2>1, <2>3
    <2>6. CallsProper' /\ CallsKept
      BY <1>1, <2>4, <2>5, AppendKeeps DEF CallsKept
    <2>7. known' \in [Threads -> Known] /\ pending' \in SUBSET Threads /\ IsStore(store')
      BY <1>1, <1>5, <1>7, <1>10, WindowFields
    <2> QED
      BY <1>5, <1>9, <2>6, <2>7, NoteDone
  <1>11. CASE t \notin pending
    <2>1. CallsProper' /\ CallsKept
      BY <1>1, <1>5, <1>11, CallsUnchanged
    <2>2. [turn |-> turn, reducer |-> seen.store.turn[t], optimistic |-> TRUE] \in Known
      BY <1>1, <1>6, OpenTyped DEF Known
    <2>3. known' \in [Threads -> Known]
      BY <1>1, <1>5, <1>6, <1>11, <2>2, WindowFields
    <2>4. pending' \in SUBSET Threads /\ IsStore(store')
      BY <1>1, <1>5, <1>8, <1>11, WindowFields
    <2> QED
      BY <1>5, <1>9, <2>1, <2>3, <2>4, NoteDone
  <1> QED
    BY <1>10, <1>11

LEMMA OnTurnCompletedKeeps ==
    ASSUME TypeInv, NEW i \in DOMAIN server.wire, OnTurnCompleted(i)
    PROVE  StepKept
  <1>1. WindowTyped /\ CallsProper /\ ViewTyped
    BY DEF TypeInv
  <1>2. PICK t : t = server.wire[i].thread
    OBVIOUS
  <1>3. PICK latest : latest = LatestKnown(t)
    OBVIOUS
  <1>4. /\ Noted("turn/completed", i) /\ UNCHANGED <<loaded, calls>>
        /\ \/ known' = [known EXCEPT ![t] = latest.known] /\ UNCHANGED <<store, pending>>
           \/ /\ store' = Finished(store, t)
              /\ known' = [known EXCEPT ![t] = [latest.known EXCEPT
                             !.turn = None, !.optimistic = FALSE]]
              /\ pending' = pending \ {t}
    BY <1>2, <1>3 DEF OnTurnCompleted
  <1>5. t \in Threads
    BY <1>2, <1>4, NotedThread
  <1>6. latest.known \in Known /\ [latest.known EXCEPT !.turn = None, !.optimistic = FALSE] \in Known
    BY <1>1, <1>3, <1>5, LatestTyped
  <1>7. IsStore(store')
    <2>1. IsStore(store) /\ IsStore(Finished(store, t))
      BY <1>1, <1>5, WindowFields, FinishedIsStore DEF Finished
    <2> QED
      BY <1>4, <2>1
  <1>8. known' \in [Threads -> Known]
    BY <1>1, <1>4, <1>5, <1>6, WindowFields
  <1>9. pending' \in SUBSET Threads /\ loaded' \in SUBSET Threads
    BY <1>1, <1>4, WindowFields
  <1>10. CallsProper' /\ CallsKept
    BY <1>1, <1>4, CallsUnchanged
  <1> QED
    BY <1>4, <1>7, <1>8, <1>9, <1>10, NoteDone

LEMMA OnTurnErrorKeeps ==
    ASSUME TypeInv, NEW i \in DOMAIN server.wire, OnTurnError(i)
    PROVE  StepKept
  <1>1. WindowTyped /\ CallsProper /\ ViewTyped
    BY DEF TypeInv
  <1>2. PICK t : t = server.wire[i].thread
    OBVIOUS
  <1>3. PICK latest : latest = LatestKnown(t)
    OBVIOUS
  <1>4. PICK e : e = EnsureThread(store, Workspace, t)
    OBVIOUS
  <1>5. /\ Noted("error", i) /\ UNCHANGED <<pending, loaded, calls>>
        /\ \/ known' = [known EXCEPT ![t] = latest.known] /\ UNCHANGED store
           \/ /\ store' = Told(MarkReviewing(Finished(e, t), t, FALSE), t)
              /\ known' = [known EXCEPT ![t] = [latest.known EXCEPT
                             !.turn = None, !.optimistic = FALSE]]
    BY <1>2, <1>3, <1>4 DEF OnTurnError
  <1>6. t \in Threads
    BY <1>2, <1>5, NotedThread
  <1>7. latest.known \in Known /\ [latest.known EXCEPT !.turn = None, !.optimistic = FALSE] \in Known
    BY <1>1, <1>3, <1>6, LatestTyped
  <1>8. IsStore(e)
    BY <1>1, <1>4, <1>6, RowsAreStore, TurnsAssumption DEF WindowTyped
  <1>9. IsStore(Finished(e, t))
    BY <1>6, <1>8, FinishedIsStore DEF Finished
  <1>10. IsStore(Told(MarkReviewing(Finished(e, t), t, FALSE), t))
    BY <1>1, <1>6, <1>9, MarksAreStore, ToldIsStore
  <1>11. IsStore(store')
    BY <1>1, <1>5, <1>10, WindowFields
  <1>12. known' \in [Threads -> Known]
    BY <1>1, <1>5, <1>6, <1>7, WindowFields
  <1>13. pending' \in SUBSET Threads /\ loaded' \in SUBSET Threads
    BY <1>1, <1>5, WindowFields
  <1>14. CallsProper' /\ CallsKept
    BY <1>1, <1>5, CallsUnchanged
  <1> QED
    BY <1>5, <1>11, <1>12, <1>13, <1>14, NoteDone

LEMMA SettledTyped ==
    ASSUME WindowTyped, NEW t \in Threads, Settled(t)
    PROVE  known' \in [Threads -> Known]
  <1>1. PICK k \in Known : k = known[t]
    BY WindowFields
  <1>2. PICK l : l = [k EXCEPT !.turn = None, !.optimistic = FALSE]
    OBVIOUS
  <1>3. l \in Known
    BY <1>2 DEF Known, Turn
  <1>4. known' = [known EXCEPT ![t] = l]
    BY <1>1, <1>2, WindowFields DEF Settled
  <1> QED
    BY <1>3, <1>4, WindowFields

LEMMA OnThreadClosedKeeps ==
    ASSUME TypeInv, NEW i \in DOMAIN server.wire, OnThreadClosed(i)
    PROVE  StepKept
  <1>1. WindowTyped /\ CallsProper
    BY DEF TypeInv
  <1>2. PICK t : t = server.wire[i].thread
    OBVIOUS
  <1>3. /\ Noted("thread/closed", i) /\ loaded' = loaded \ {t} /\ pending' = pending \ {t}
        /\ store' = MarkReviewing(Finished(store, t), t, FALSE)
        /\ Settled(t)
        /\ UNCHANGED calls
    BY <1>2 DEF OnThreadClosed
  <1>4. t \in Threads
    BY <1>2, <1>3, NotedThread
  <1>5. IsStore(Finished(store, t))
    BY <1>1, <1>4, WindowFields, FinishedIsStore DEF Finished
  <1>6. IsStore(store')
    BY <1>3, <1>4, <1>5, MarksAreStore
  <1>7. known' \in [Threads -> Known]
    BY <1>1, <1>3, <1>4, SettledTyped
  <1>8. pending' \in SUBSET Threads /\ loaded' \in SUBSET Threads
    BY <1>1, <1>3, WindowFields
  <1>9. CallsProper' /\ CallsKept
    BY <1>1, <1>3, CallsUnchanged
  <1> QED
    BY <1>3, <1>6, <1>7, <1>8, <1>9, NoteDone

LEMMA OnThreadStatusChangedKeeps ==
    ASSUME TypeInv, NEW i \in DOMAIN server.wire, OnThreadStatusChanged(i)
    PROVE  StepKept
  <1>1. WindowTyped /\ CallsProper
    BY DEF TypeInv
  <1>2. PICK t : t = server.wire[i].thread
    OBVIOUS
  <1>3. /\ UNCHANGED calls
        /\ \/ /\ Noted("active", i) /\ store' = MarkProcessing(store, t, TRUE, 1)
              /\ UNCHANGED refs
           \/ /\ Noted("idle", i) /\ store' = Finished(store, t)
              /\ Settled(t) /\ pending' = pending \ {t} /\ UNCHANGED loaded
           \/ /\ Noted("notLoaded", i) /\ store' = MarkReviewing(Finished(store, t), t, FALSE)
              /\ Settled(t) /\ pending' = pending \ {t} /\ loaded' = loaded \ {t}
    BY <1>2 DEF OnThreadStatusChanged
  <1>4. PICK type \in {"active", "idle", "notLoaded"} : Noted(type, i)
    BY <1>3
  <1>5. type # "answer"
    OBVIOUS
  <1>6. t \in Threads
    BY <1>2, <1>4, <1>5, NotedThread
  <1>7. IsStore(MarkProcessing(store, t, TRUE, 1)) /\ IsStore(Finished(store, t))
    BY <1>1, <1>6, WindowFields, MarksAreStore, FinishedIsStore DEF Finished
  <1>8. IsStore(store')
    BY <1>3, <1>6, <1>7, MarksAreStore
  <1>9. known' \in [Threads -> Known]
    BY <1>1, <1>3, <1>6, SettledTyped, WindowFields DEF refs
  <1>10. pending' \in SUBSET Threads /\ loaded' \in SUBSET Threads
    BY <1>1, <1>3, WindowFields DEF refs
  <1>11. CallsProper' /\ CallsKept
    BY <1>1, <1>3, CallsUnchanged
  <1> QED
    BY <1>4, <1>5, <1>8, <1>9, <1>10, <1>11, NoteDone

LEMMA OnItemKeeps ==
    ASSUME TypeInv, NEW i \in DOMAIN server.wire, OnItem(i)
    PROVE  StepKept
  <1>1. WindowTyped /\ CallsProper
    BY DEF TypeInv
  <1>2. PICK t : t = server.wire[i].thread
    OBVIOUS
  <1>3. PICK e : e = FillItems(EnsureThread(store, Workspace, t), t)
    OBVIOUS
  <1>4. /\ \E type \in {"item/started", "entered", "exited"} : Noted(type, i)
        /\ UNCHANGED <<refs, calls>>
        /\ \/ store' = MarkProcessing(e, t, TRUE, 1)
           \/ store' = MarkReviewing(MarkProcessing(e, t, TRUE, 1), t, TRUE)
           \/ store' = MarkProcessing(MarkReviewing(e, t, FALSE), t, FALSE, 1)
    BY <1>2, <1>3 DEF OnItem
  <1>5. PICK type \in {"item/started", "entered", "exited"} : Noted(type, i)
    BY <1>4
  <1>6. type # "answer"
    OBVIOUS
  <1>7. t \in Threads
    BY <1>2, <1>5, <1>6, NotedThread
  <1>8. IsStore(EnsureThread(store, Workspace, t))
    BY <1>1, <1>7, RowsAreStore, TurnsAssumption DEF WindowTyped
  <1>9. IsStore(e)
    BY <1>3, <1>7, <1>8, FillIsStore
  <1>10. IsStore(MarkProcessing(e, t, TRUE, 1)) /\ IsStore(MarkReviewing(e, t, FALSE))
    BY <1>7, <1>9, MarksAreStore
  <1>11. IsStore(store')
    BY <1>4, <1>7, <1>10, MarksAreStore
  <1>12. CallsProper' /\ CallsKept
    BY <1>1, <1>4, CallsUnchanged
  <1>13. /\ known' \in [Threads -> Known] /\ pending' \in SUBSET Threads
         /\ loaded' \in SUBSET Threads
    BY <1>1, <1>4, WindowFields DEF refs
  <1> QED
    BY <1>5, <1>6, <1>11, <1>12, <1>13, NoteDone

LEMMA OnRequestUserInputKeeps ==
    ASSUME TypeInv, NEW i \in DOMAIN server.wire, OnRequestUserInput(i)
    PROVE  StepKept
  <1>1. WindowTyped /\ CallsProper
    BY DEF TypeInv
  <1>2. PICK request : request = [thread |-> server.wire[i].thread, turn |-> server.wire[i].turn]
    OBVIOUS
  <1>3. /\ Noted("ask", i) /\ store' = AddUserInputRequest(store, request)
        /\ UNCHANGED <<refs, calls>>
    BY <1>2 DEF OnRequestUserInput
  <1>4. request \in Request
    BY <1>2, <1>3, NotedThread DEF Request
  <1>5. IsStore(store')
    BY <1>1, <1>3, <1>4, InputsAreStore, WindowFields
  <1>6. CallsProper' /\ CallsKept
    BY <1>1, <1>3, CallsUnchanged
  <1>7. /\ known' \in [Threads -> Known] /\ pending' \in SUBSET Threads
        /\ loaded' \in SUBSET Threads
    BY <1>1, <1>3, WindowFields DEF refs
  <1> QED
    BY <1>3, <1>5, <1>6, <1>7, NoteDone

LEMMA NotificationsKeeps ==
    ASSUME TypeInv, Notifications
    PROVE  StepKept
  BY OnThreadStartedKeeps, OnTurnStartedKeeps, OnTurnCompletedKeeps, OnTurnErrorKeeps,
     OnThreadClosedKeeps, OnThreadStatusChangedKeeps, OnItemKeeps, OnRequestUserInputKeeps
     DEF Notifications

----------------------------------------------------------------------------
(* The user, the render and its effects                                     *)

\* What a step of the window itself keeps: a message it takes from the drafts
\* is held.
WindowKept ==
    /\ TypeInv' /\ FateKept /\ HeldKept
    /\ \A m \in Messages : m \in drafts \ drafts' /\ fate'[m] = "open" => Held(m)'

LEMMA WindowDone ==
    ASSUME TypeInv, UNCHANGED <<server, known>>, ViewTyped', IsStore(store'),
           pending' \in SUBSET Threads /\ loaded' \in SUBSET Threads,
           queued' \in [Threads -> Seq(Messages)],
           inFlight' \in [Threads -> OrNone(Messages)] /\ started' \in [Threads -> BOOLEAN],
           CallsProper' /\ CallsKept, FateKept,
           scene' \in Scene /\ drafts' \in SUBSET Messages,
           \A m \in Messages : fate'[m] = "open" /\ InQueue(m) => InQueue(m)' \/ InCall(m)',
           \A m \in Messages : m \in drafts \ drafts' /\ fate'[m] = "open" =>
             InQueue(m)' \/ InCall(m)'
    PROVE  WindowKept
  <1>1. WindowTyped /\ WireProper /\ MessagesTyped /\ CallsProper
    BY DEF TypeInv
  <1>2. WindowTyped'
    BY <1>1 DEF WindowTyped
  <1>3. MessagesTyped'
    BY DEF MessagesTyped, FateKept, Fates
  <1>4. server.wire \in Seq(Line)
    BY <1>1, WireFields
  <1>5. ASSUME NEW k \in 1..Len(server.wire)
        PROVE  \E l \in Line : l = server.wire[k] /\ ProperLine(l)'
    <2>1. server.wire[k] \in Line /\ ProperLine(server.wire[k])
      BY <1>1, <1>4, <1>5, WireFields
    <2> QED
      BY <2>1, LineKept
  <1>6. WireProper'
    BY <1>1, <1>5 DEF WireProper
  <1>7. \A m : (OnWire(m) => OnWire(m)') /\ (InCall(m) => InCall(m)')
    BY <1>1, WireSame, CallsKeptHold
  <1>8. HeldKept
    BY <1>7, HeldParts, HeldPartsNext DEF HeldKept
  <1> QED
    BY <1>2, <1>3, <1>6, <1>8, HeldPartsNext DEF WindowKept, TypeInv

LEMMA ViewSame ==
    ASSUME ViewTyped, UNCHANGED view
    PROVE  ViewTyped'
  BY DEF ViewTyped, view

LEMMA EffectiveTyped ==
    \A submit : /\ EffectiveIntent(submit) \in {"default", "queue", "steer"}
                /\ EffectiveIntent(submit) = "queue" => Open # None
  BY DEF EffectiveIntent

LEMMA HandleSendKeeps ==
    ASSUME TypeInv, NEW m \in Messages, NEW submit, HandleSend(m, submit)
    PROVE  WindowKept
  <1>1. /\ WindowTyped /\ MessagesTyped /\ CallsProper /\ ViewTyped
        /\ scene \in Scene /\ drafts \in SUBSET Messages
    BY DEF TypeInv, MessagesTyped
  <1>2. /\ drafts' = drafts \ {m}
        /\ UNCHANGED <<inFlight, started, view, refs, server, scene>>
    BY DEF HandleSend
  <1>3. /\ inFlight' \in [Threads -> OrNone(Messages)] /\ started' \in [Threads -> BOOLEAN]
        /\ pending' \in SUBSET Threads /\ loaded' \in SUBSET Threads
        /\ UNCHANGED <<server, known>> /\ ViewTyped'
        /\ scene' \in Scene /\ drafts' \in SUBSET Messages
    BY <1>1, <1>2, ViewSame DEF WindowTyped, refs
  <1>4. CASE EffectiveIntent(submit) = "queue"
    <2>1. PICK t \in Threads : t = Open
      BY <1>1, <1>4, EffectiveTyped, OpenTyped
    <2>2. queued' = [queued EXCEPT ![t] = Append(@, m)] /\ UNCHANGED <<store, calls, fate>>
      BY <1>4, <2>1 DEF HandleSend
    <2>3. /\ queued' \in [Threads -> Seq(Messages)]
          /\ InQueue(m)' /\ \A n : InQueue(n) => InQueue(n)'
      BY <1>1, <2>2, QueueGrows
    <2>4. IsStore(store') /\ CallsProper' /\ CallsKept /\ FateKept
      BY <1>1, <2>2, WindowFields, CallsUnchanged, FateUnchanged
    <2>5. \A n \in Messages : n \in drafts \ drafts' => n = m
      BY <1>2
    <2> QED
      BY <1>3, <2>3, <2>4, <2>5, WindowDone
  <1>5. CASE EffectiveIntent(submit) # "queue"
    <2>1. PICK intent \in {"default", "queue", "steer"} : intent = EffectiveIntent(submit)
      BY EffectiveTyped
    <2>2. Run(m, "composer", intent) /\ UNCHANGED queued
      BY <1>5, <2>1 DEF HandleSend
    <2>3. /\ IsStore(store') /\ CallsProper' /\ CallsKept /\ FateKept
          /\ fate'[m] # "open" \/ \E k \in 1..Len(calls') : calls'[k].msg = m
      BY <2>2, RunKeeps
    <2>4. fate'[m] # "open" \/ InCall(m)'
      BY <2>3 DEF InCall, CallsProper
    <2>5. queued' \in [Threads -> Seq(Messages)] /\ \A n : InQueue(n) => InQueue(n)'
      BY <1>1, <2>2, QueueSame DEF WindowTyped
    <2>6. \A n \in Messages : n \in drafts \ drafts' => n = m
      BY <1>2
    <2> QED
      BY <1>3, <2>3, <2>4, <2>5, <2>6, WindowDone
  <1> QED
    BY <1>4, <1>5

LEMMA QueueMessageKeeps ==
    ASSUME TypeInv, NEW m \in Messages, QueueMessage(m)
    PROVE  WindowKept
  <1>1. /\ WindowTyped /\ MessagesTyped /\ CallsProper /\ ViewTyped
        /\ scene \in Scene /\ drafts \in SUBSET Messages
    BY DEF TypeInv, MessagesTyped
  <1>2. PICK t \in Threads : t = Open
    BY <1>1, OpenTyped DEF QueueMessage
  <1>3. /\ drafts' = drafts \ {m} /\ queued' = [queued EXCEPT ![t] = Append(@, m)]
        /\ UNCHANGED <<store, inFlight, started, view, refs, calls, server, fate, scene>>
    BY <1>2 DEF QueueMessage
  <1>4. /\ inFlight' \in [Threads -> OrNone(Messages)] /\ started' \in [Threads -> BOOLEAN]
        /\ pending' \in SUBSET Threads /\ loaded' \in SUBSET Threads
        /\ UNCHANGED <<server, known>> /\ ViewTyped'
        /\ scene' \in Scene /\ drafts' \in SUBSET Messages
    BY <1>1, <1>3, ViewSame DEF WindowTyped, refs
  <1>5. /\ queued' \in [Threads -> Seq(Messages)]
        /\ InQueue(m)' /\ \A n : InQueue(n) => InQueue(n)'
    BY <1>1, <1>3, QueueGrows
  <1>6. IsStore(store') /\ CallsProper' /\ CallsKept /\ FateKept
    BY <1>1, <1>3, WindowFields, CallsUnchanged, FateUnchanged
  <1>7. \A n \in Messages : n \in drafts \ drafts' => n = m
    BY <1>3
  <1> QED
    BY <1>4, <1>5, <1>6, <1>7, WindowDone

LEMMA RemoveQueuedMessageKeeps ==
    ASSUME TypeInv, NEW m \in Messages, RemoveQueuedMessage(m)
    PROVE  WindowKept
  <1>1. /\ WindowTyped /\ MessagesTyped /\ CallsProper /\ ViewTyped
        /\ scene \in Scene /\ drafts \in SUBSET Messages
    BY DEF TypeInv, MessagesTyped
  <1>2. PICK t \in Threads : t = Open
    BY <1>1, OpenTyped DEF RemoveQueuedMessage
  <1>3. PICK q : q = RemoveFirst(queued[t], m)
    OBVIOUS
  <1>4. /\ queued' = [queued EXCEPT ![t] = q] /\ fate' = [fate EXCEPT ![m] = "removed"]
        /\ UNCHANGED <<store, inFlight, started, view, refs, calls, server, drafts, scene>>
    BY <1>2, <1>3 DEF RemoveQueuedMessage
  <1>5. queued \in [Threads -> Seq(Messages)] /\ queued[t] \in Seq(Messages)
    BY <1>1 DEF WindowTyped
  <1>6. q \in Seq(Messages) /\ \A x : x # m /\ Contains(queued[t], x) => Contains(q, x)
    BY <1>3, <1>5, RemoveFirstKeeps
  <1>7. /\ queued' \in [Threads -> Seq(Messages)] /\ queued'[t] = q
        /\ \A u \in Threads : u # t => queued'[u] = queued[u]
    BY <1>4, <1>5, <1>6
  <1>8. \A x : x # m /\ InQueue(x) => InQueue(x)'
    BY <1>6, <1>7 DEF InQueue
  <1>9. FateKept /\ fate'[m] # "open"
    BY <1>1, <1>4, FateSet DEF Fates
  <1>10. /\ inFlight' \in [Threads -> OrNone(Messages)] /\ started' \in [Threads -> BOOLEAN]
         /\ pending' \in SUBSET Threads /\ loaded' \in SUBSET Threads
         /\ UNCHANGED <<server, known>> /\ ViewTyped'
         /\ scene' \in Scene /\ drafts' \in SUBSET Messages
    BY <1>1, <1>4, ViewSame DEF WindowTyped, refs
  <1>11. IsStore(store') /\ CallsProper' /\ CallsKept
    BY <1>1, <1>4, WindowFields, CallsUnchanged
  <1>12. \A n \in Messages : n \notin drafts \ drafts'
    BY <1>4
  <1> QED
    BY <1>7, <1>8, <1>9, <1>10, <1>11, <1>12, WindowDone

\* The steps that add a call at most, and leave the queue and the fates alone.
LEMMA CallDone ==
    ASSUME TypeInv, UNCHANGED <<queue, view, known, server, drafts, fate>>,
           IsStore(store'), pending' \in SUBSET Threads /\ loaded' \in SUBSET Threads,
           CallsProper' /\ CallsKept, scene' \in Scene
    PROVE  WindowKept
  <1>1. WindowTyped /\ MessagesTyped /\ ViewTyped
    BY DEF TypeInv
  <1>2. FateKept /\ ViewTyped' /\ drafts' \in SUBSET Messages
    BY <1>1, FateUnchanged, ViewSame DEF MessagesTyped
  <1>3. /\ queued' \in [Threads -> Seq(Messages)] /\ \A m : InQueue(m) => InQueue(m)'
        /\ inFlight' \in [Threads -> OrNone(Messages)] /\ started' \in [Threads -> BOOLEAN]
    BY <1>1, WindowRest
  <1>4. \A m \in Messages : m \notin drafts \ drafts'
    OBVIOUS
  <1> QED
    BY <1>2, <1>3, <1>4, WindowDone

LEMMA InterruptTurnKeeps ==
    ASSUME TypeInv, InterruptTurn
    PROVE  WindowKept
  <1>1. WindowTyped /\ MessagesTyped /\ ViewTyped /\ CallsProper
    BY DEF TypeInv
  <1>2. PICK t \in Threads : t = Open
    BY <1>1, OpenTyped DEF InterruptTurn
  <1>3. PICK c : c = Call("stop", None, "user", t)
    OBVIOUS
  <1>4. PICK d : d = [c EXCEPT !.stage = "issued"]
    OBVIOUS
  <1>5. /\ scene.stops > 0 /\ scene' = [scene EXCEPT !.stops = @ - 1]
        /\ store' = FillItems(SetActiveTurnId(MarkProcessing(store, t, FALSE, 1), t, None), t)
        /\ pending' \in {pending, pending \cup {t}}
        /\ calls' = Append(calls, d)
        /\ UNCHANGED <<queue, view, known, loaded, server, drafts, fate>>
    BY <1>2, <1>3, <1>4 DEF InterruptTurn
  <1>6. IsNewCall(c, "stop", None, "user", t)
    <2>1. /\ "stop" \in Ops /\ None \in OrNone(Messages) /\ "user" \in From
          /\ t \in OrNone(Threads)
      BY DEF Ops, OrNone, From
    <2> QED
      BY <1>1, <1>3, <2>1, CallTyped
  <1>7. Proper(d) /\ d.stage # "opened"
    <2>1. None \in Turn
      BY DEF Turn
    <2> QED
      BY <1>4, <1>6, <2>1, AskProper
  <1>8. CallsProper' /\ CallsKept
    BY <1>1, <1>5, <1>7, AppendKeeps DEF CallsKept
  <1>9. IsStore(store')
    BY <1>1, <1>5, WindowFields, FinishedIsStore, FillIsStore
  <1>10. pending' \in SUBSET Threads /\ loaded' \in SUBSET Threads
    BY <1>1, <1>5, WindowFields
  <1>11. scene' \in Scene
    BY <1>1, <1>5, SceneLess
  <1> QED
    BY <1>5, <1>8, <1>9, <1>10, <1>11, CallDone

LEMMA ReadProper ==
    ASSUME ViewTyped
    PROVE  \A t \in Threads, replace \in BOOLEAN :
             Proper(Read(t, replace)) /\ Read(t, replace).stage # "opened"
  <1> SUFFICES ASSUME NEW t \in Threads, NEW replace \in BOOLEAN
               PROVE  Proper(Read(t, replace)) /\ Read(t, replace).stage # "opened"
    OBVIOUS
  <1>1. PICK from \in {"refresh", "select"} : from = IF replace THEN "refresh" ELSE "select"
    OBVIOUS
  <1>2. PICK c : c = Call("read", None, from, t)
    OBVIOUS
  <1>3. IsNewCall(c, "read", None, from, t)
    <2>1. /\ "read" \in Ops /\ None \in OrNone(Messages) /\ from \in From /\ t \in OrNone(Threads)
      BY DEF Ops, OrNone, From
    <2> QED
      BY <1>2, <2>1, CallTyped
  <1>4. PICK filled \in BOOLEAN : filled = (~replace /\ t \in seen.store.filled)
    OBVIOUS
  <1>5. PICK d : d = [c EXCEPT !.filled = filled]
    OBVIOUS
  <1>6. Read(t, replace) = d
    BY <1>1, <1>2, <1>4, <1>5 DEF Read
  <1>7. /\ d \in CallRec /\ d.op = "read" /\ d.msg = None /\ d.from = from /\ d.thread = t
        /\ d.stage = "opening" /\ d.steer = FALSE
    BY <1>3, <1>5 DEF IsNewCall, CallRec
  <1>8. Proper(d)
    BY <1>7, NoneAssumption DEF Proper
  <1> QED
    BY <1>6, <1>7, <1>8

LEMMA ReadsKeep ==
    ASSUME TypeInv, NEW t \in Threads, SelectThread(t) \/ RefreshThread(t)
    PROVE  WindowKept
  <1>1. WindowTyped /\ MessagesTyped /\ ViewTyped /\ CallsProper
    BY DEF TypeInv
  <1>2. PICK opened : opened = SetActiveThreadId(store, Workspace, t)
    OBVIOUS
  <1>3. /\ scene.reads > 0 /\ scene' = [scene EXCEPT !.reads = @ - 1]
        /\ store' \in {opened, SetResumeLoading(opened, t, TRUE), SetResumeLoading(store, t, TRUE)}
        /\ loaded' \in {loaded, loaded \cup {t}} /\ pending' = pending
        /\ UNCHANGED calls \/ (\E replace \in BOOLEAN : calls' = Append(calls, Read(t, replace)))
        /\ UNCHANGED <<queue, view, known, server, drafts, fate>>
    BY <1>2 DEF SelectThread, RefreshThread, refs
  <1>4. IsStore(opened) /\ IsStore(store)
    BY <1>1, <1>2, WindowFields, SetActiveIsStore, TurnsAssumption
  <1>5. IsStore(store')
    BY <1>3, <1>4, MarksAreStore
  <1>6. pending' \in SUBSET Threads /\ loaded' \in SUBSET Threads
    BY <1>1, <1>3, WindowFields
  <1>7. CallsProper' /\ CallsKept
    <2>1. CASE UNCHANGED calls
      BY <1>1, <2>1, CallsUnchanged
    <2>2. CASE \E replace \in BOOLEAN : calls' = Append(calls, Read(t, replace))
      <3>1. PICK replace \in BOOLEAN : calls' = Append(calls, Read(t, replace))
        BY <2>2
      <3>2. PICK d : d = Read(t, replace)
        OBVIOUS
      <3>3. Proper(d) /\ d.stage # "opened"
        BY <1>1, <3>2, ReadProper
      <3> QED
        BY <1>1, <3>1, <3>2, <3>3, AppendKeeps DEF CallsKept
    <2> QED
      BY <1>3, <2>1, <2>2
  <1>8. scene' \in Scene
    BY <1>1, <1>3, SceneLess
  <1> QED
    BY <1>3, <1>5, <1>6, <1>7, <1>8, CallDone

LEMMA UserAnswersKeeps ==
    ASSUME TypeInv, UserAnswers
    PROVE  WindowKept
  <1>1. WindowTyped /\ MessagesTyped /\ ViewTyped /\ CallsProper
    BY DEF TypeInv
  <1>2. PICK i \in DOMAIN seen.store.inputs : SubmitUserInput(seen.store.inputs[i])
    BY DEF UserAnswers
  <1>3. PICK request \in Request : request = seen.store.inputs[i]
    BY <1>1, StoreFields DEF ViewTyped
  <1>4. PICK t \in Threads : t = request.thread
    BY DEF Request
  <1>5. PICK turn \in Turn : turn = request.turn
    BY DEF Request
  <1>6. PICK c : c = Call("reply", None, "user", t)
    OBVIOUS
  <1>7. PICK d : d = [c EXCEPT !.turn = turn, !.stage = "issued"]
    OBVIOUS
  <1>8. /\ calls' = Append(calls, d)
        /\ UNCHANGED <<store, queue, view, refs, server, ghosts>>
    BY <1>2, <1>3, <1>4, <1>5, <1>6, <1>7 DEF SubmitUserInput
  <1>9. IsNewCall(c, "reply", None, "user", t)
    <2>1. /\ "reply" \in Ops /\ None \in OrNone(Messages) /\ "user" \in From
          /\ t \in OrNone(Threads)
      BY DEF Ops, OrNone, From
    <2> QED
      BY <1>1, <1>6, <2>1, CallTyped
  <1>10. Proper(d) /\ d.stage # "opened"
    BY <1>7, <1>9, AskProper
  <1>11. CallsProper' /\ CallsKept
    BY <1>1, <1>8, <1>10, AppendKeeps DEF CallsKept
  <1>12. /\ IsStore(store') /\ pending' \in SUBSET Threads /\ loaded' \in SUBSET Threads
         /\ UNCHANGED <<queue, view, known, server, drafts, fate>> /\ scene' \in Scene
    BY <1>1, <1>8, WindowFields DEF refs, ghosts, MessagesTyped
  <1> QED
    BY <1>11, <1>12, CallDone

\* An effect that sends nothing.
LEMMA QuietEffectKeeps ==
    ASSUME TypeInv, TrackInFlight \/ NoEffect
    PROVE  WindowKept /\ effects' = FALSE
  <1>1. WindowTyped /\ MessagesTyped /\ ViewTyped /\ CallsProper
    BY DEF TypeInv
  <1>2. /\ effects' = FALSE
        /\ UNCHANGED <<store, queued, seen, handled, refs, calls, server, ghosts>>
    BY DEF TrackInFlight, NoEffect, queue
  <1>3. /\ inFlight' \in [Threads -> OrNone(Messages)] /\ started' \in [Threads -> BOOLEAN]
    BY <1>1 DEF TrackInFlight, NoEffect, queue, WindowTyped, OrNone
  <1>4. ViewTyped' /\ FateKept /\ CallsProper' /\ CallsKept
    BY <1>1, <1>2, FateUnchanged, CallsUnchanged DEF ViewTyped, ghosts
  <1>5. /\ IsStore(store') /\ pending' \in SUBSET Threads /\ loaded' \in SUBSET Threads
        /\ UNCHANGED <<server, known>> /\ scene' \in Scene /\ drafts' \in SUBSET Messages
        /\ drafts' = drafts
    BY <1>1, <1>2, WindowFields DEF refs, ghosts, MessagesTyped
  <1>6. queued' \in [Threads -> Seq(Messages)] /\ \A m : InQueue(m) => InQueue(m)'
    BY <1>1, <1>2, QueueSame DEF WindowTyped
  <1> QED
    BY <1>2, <1>3, <1>4, <1>5, <1>6, WindowDone

\* The flush takes the message it sends from the front of its queue: the queue
\* is the one the render saw.
LEMMA FlushNextKeeps ==
    ASSUME TypeInv, seen.queued = queued, FlushNext
    PROVE  WindowKept /\ effects' = FALSE
  <1>1. WindowTyped /\ MessagesTyped /\ ViewTyped /\ CallsProper
    BY DEF TypeInv
  <1>2. PICK t \in Threads : t = Open
    BY <1>1, OpenTyped DEF FlushNext, MayFlush
  <1>3. queued[t] \in Seq(Messages) /\ queued[t] # <<>> /\ queued \in [Threads -> Seq(Messages)]
    BY <1>1, <1>2 DEF WindowTyped, FlushNext, MayFlush
  <1>4. PICK m \in Messages : m = Head(queued[t])
    BY <1>3
  <1>5. PICK q : q = Tail(queued[t])
    OBVIOUS
  <1>6. /\ effects' = FALSE /\ UNCHANGED <<seen, handled, refs, server, drafts, scene>>
        /\ inFlight' = [inFlight EXCEPT ![t] = m]
        /\ started' = [started EXCEPT ![t] = FALSE]
        /\ Run(m, "queue", "default")
    BY <1>2, <1>4 DEF FlushNext
  <1>7. queued' = [queued EXCEPT ![t] = q]
    <2>1. queued' = [queued EXCEPT ![t] = IF queued[t] = <<>> THEN queued[t] ELSE Tail(queued[t])]
      BY <1>2 DEF FlushNext
    <2> QED
      BY <1>3, <1>5, <2>1
  <1>8. /\ q \in Seq(Messages) /\ Len(q) = Len(queued[t]) - 1 /\ m = queued[t][1]
        /\ \A i \in 1..Len(q) : q[i] = queued[t][i + 1]
    BY <1>3, <1>4, <1>5
  <1>9. \A n : Contains(queued[t], n) => n = m \/ Contains(q, n)
    <2> SUFFICES ASSUME NEW i \in 1..Len(queued[t]), i # 1
                 PROVE  \E k \in 1..Len(q) : q[k] = queued[t][i]
      BY <1>8 DEF Contains
    <2>1. i - 1 \in 1..Len(q) /\ (i - 1) + 1 = i
      BY <1>3, <1>8
    <2> QED
      BY <1>8, <2>1
  <1>10. /\ queued' \in [Threads -> Seq(Messages)] /\ queued'[t] = q
         /\ \A u \in Threads : u # t => queued'[u] = queued[u]
    BY <1>3, <1>7, <1>8
  <1>11. \A n : InQueue(n) => InQueue(n)' \/ n = m
    BY <1>9, <1>10 DEF InQueue
  <1>12. /\ IsStore(store') /\ CallsProper' /\ CallsKept /\ FateKept
         /\ fate'[m] # "open" \/ \E k \in 1..Len(calls') : calls'[k].msg = m
    BY <1>2, <1>6, RunKeeps, NoneAssumption
  <1>13. fate'[m] # "open" \/ InCall(m)'
    BY <1>12 DEF InCall, CallsProper
  <1>14. /\ inFlight' \in [Threads -> OrNone(Messages)] /\ started' \in [Threads -> BOOLEAN]
    BY <1>1, <1>6 DEF WindowTyped, OrNone
  <1>15. ViewTyped'
    BY <1>1, <1>6 DEF ViewTyped
  <1>16. /\ pending' \in SUBSET Threads /\ loaded' \in SUBSET Threads
         /\ UNCHANGED <<server, known>> /\ scene' \in Scene /\ drafts' \in SUBSET Messages
         /\ drafts' = drafts
    BY <1>1, <1>6, WindowFields DEF refs, MessagesTyped
  <1> QED
    BY <1>6, <1>10, <1>11, <1>12, <1>13, <1>14, <1>15, <1>16, WindowDone

\* A render sends the requests that were issued on their way.
LEMMA RenderKeeps ==
    ASSUME TypeInv, Render
    PROVE  WindowKept /\ seen'.queued = queued'
  <1>1. WindowTyped /\ MessagesTyped /\ ViewTyped /\ CallsProper
    BY DEF TypeInv
  <1>2. /\ seen' = Now /\ effects' = TRUE /\ handled' = 0
        /\ calls' = [i \in DOMAIN calls |-> Departs(calls[i])]
        /\ UNCHANGED <<store, queue, refs, server, ghosts>>
    BY DEF Render
  <1>3. calls \in Seq(CallRec) /\ DOMAIN calls = 1..Len(calls)
    BY <1>1 DEF CallsProper
  <1>4. ASSUME NEW c \in CallRec, Proper(c), c.stage # "opened"
        PROVE  /\ Departs(c) \in CallRec /\ Proper(Departs(c)) /\ Departs(c).stage # "opened"
               /\ Departs(c).msg = c.msg
    <2>1. PICK stage \in {"opening", "ensure", "issued", "sent"} :
            stage = CASE c.stage = "opening" -> "ensure" [] c.stage = "issued" -> "sent"
                      [] OTHER -> c.stage
      BY <1>4 DEF CallRec
    <2>2. PICK d : d = [c EXCEPT !.stage = stage]
      OBVIOUS
    <2>3. Departs(c) = d
      BY <2>1, <2>2 DEF Departs
    <2>4. /\ d \in CallRec /\ d.stage = stage /\ d.msg = c.msg /\ d.op = c.op /\ d.from = c.from
          /\ d.home = c.home /\ d.thread = c.thread /\ d.steer = c.steer
      BY <2>2 DEF CallRec
    <2>5. Proper(d)
      BY <1>4, <2>1, <2>4 DEF Proper
    <2> QED
      BY <2>3, <2>4, <2>5
  <1>5. \A i \in 1..Len(calls) : /\ Departs(calls[i]) \in CallRec /\ Proper(Departs(calls[i]))
                                 /\ Departs(calls[i]).stage # "opened"
                                 /\ Departs(calls[i]).msg = calls[i].msg
    BY <1>1, <1>3, <1>4 DEF CallsProper
  <1>6. calls' = [i \in 1..Len(calls) |-> Departs(calls[i])]
    BY <1>2, <1>3
  <1>7. /\ calls' \in Seq(CallRec) /\ Len(calls') = Len(calls)
        /\ \A i \in 1..Len(calls) : calls'[i] = Departs(calls[i])
    BY <1>3, <1>5, <1>6
  <1>8. CallsProper' /\ CallsKept
    BY <1>5, <1>7 DEF CallsProper, Proper, CallsKept
  <1>9. /\ IsStore(seen'.store) /\ seen'.queued = queued /\ seen'.inFlight = inFlight
        /\ seen'.started = started
    BY <1>1, <1>2 DEF Now, WindowTyped
  <1>10. ViewTyped'
    BY <1>1, <1>2, <1>9, TurnsAssumption DEF ViewTyped, WindowTyped
  <1>11. /\ FateKept /\ IsStore(store') /\ pending' \in SUBSET Threads
         /\ loaded' \in SUBSET Threads /\ UNCHANGED <<server, known>>
         /\ scene' \in Scene /\ drafts' \in SUBSET Messages /\ drafts' = drafts
    BY <1>1, <1>2, FateUnchanged, WindowFields DEF refs, ghosts, MessagesTyped
  <1>12. /\ queued' \in [Threads -> Seq(Messages)] /\ \A m : InQueue(m) => InQueue(m)'
         /\ inFlight' \in [Threads -> OrNone(Messages)] /\ started' \in [Threads -> BOOLEAN]
    BY <1>1, <1>2, WindowRest
  <1>13. WindowKept
    BY <1>8, <1>10, <1>11, <1>12, WindowDone
  <1> QED
    BY <1>2, <1>9, <1>13 DEF queue

----------------------------------------------------------------------------
(* The invariant and the theorems                                           *)

\* What the effects of a render flush is the queue that render saw.
FlushesWhatIsQueued == effects => seen.queued = queued

TurnsInv == TypeInv /\ NoMessageVanishes /\ FlushesWhatIsQueued

LEMMA InitTurnsInv == Init => TurnsInv
  <1> SUFFICES ASSUME Init
               PROVE  TurnsInv
    OBVIOUS
  <1>1. PICK open \in {{}, {First}} :
          /\ store = IF open = {} THEN InitialState
                     ELSE EnsureThread(InitialState, Workspace, First)
          /\ loaded = open
          /\ server = [turn |-> [t \in Threads |-> None], review |-> [t \in Threads |-> FALSE],
                       asking |-> [t \in Threads |-> FALSE], ran |-> {}, threads |-> open,
                       next |-> 1, wire |-> <<>>]
    BY DEF Init
  <1>2. First \in Threads
    BY TurnsAssumption DEF First
  <1>3. IsStore(store) /\ loaded \in SUBSET Threads /\ open \in SUBSET Threads
    BY <1>1, <1>2, InitialIsStore, RowsAreStore, TurnsAssumption
  <1>4. WindowTyped
    BY <1>3 DEF Init, WindowTyped, OrNone, NoTurnKnown, Turn
  <1>5. ViewTyped
    <2>1. /\ seen.store = store /\ seen.queued = queued /\ seen.inFlight = inFlight
          /\ seen.started = started /\ effects = FALSE /\ handled = 0
      BY DEF Init, Now
    <2>2. handled \in 0..Batch
      BY <2>1, TurnsAssumption
    <2> QED
      BY <1>4, <2>1, <2>2 DEF ViewTyped, WindowTyped
  <1>6. WireProper
    BY <1>1, <1>3 DEF WireProper, ServerRec, Turn
  <1>7. CallsProper
    BY DEF Init, CallsProper
  <1>8. MessagesTyped /\ NoMessageVanishes /\ FlushesWhatIsQueued
    BY TurnsAssumption DEF Init, MessagesTyped, NoMessageVanishes, FlushesWhatIsQueued
  <1> QED
    BY <1>4, <1>5, <1>6, <1>7, <1>8 DEF TurnsInv, TypeInv

LEMMA StepKeepsTurnsInv ==
    ASSUME TurnsInv, StepKept, ~effects
    PROVE  TurnsInv'
  BY KeptMeansNoneVanishes DEF TurnsInv, StepKept, FlushesWhatIsQueued

LEMMA WindowKeepsTurnsInv ==
    ASSUME TurnsInv, WindowKept, effects' = FALSE \/ seen'.queued = queued'
    PROVE  TurnsInv'
  BY KeptMeansNoneVanishes DEF TurnsInv, WindowKept, FlushesWhatIsQueued

LEMMA NextTurnsInv == TurnsInv /\ [Next]_vars => TurnsInv'
  <1> SUFFICES ASSUME TurnsInv, [Next]_vars
               PROVE  TurnsInv'
    OBVIOUS
  <1>1. TypeInv
    BY DEF TurnsInv
  <1>2. CASE effects /\ Effects
    <2>1. WindowKept /\ effects' = FALSE
      BY <1>1, <1>2, QuietEffectKeeps, FlushNextKeeps DEF Effects, TurnsInv, FlushesWhatIsQueued
    <2> QED
      BY <2>1, WindowKeepsTurnsInv
  <1>3. CASE ~effects /\ Render
    BY <1>1, <1>3, RenderKeeps, WindowKeepsTurnsInv
  <1>4. CASE ~effects /\ User
    <2>1. WindowKept
      BY <1>1, <1>4, HandleSendKeeps, QueueMessageKeeps, RemoveQueuedMessageKeeps,
         InterruptTurnKeeps, ReadsKeep DEF User
    <2>2. effects' = FALSE
      <3>1. UNCHANGED view
        BY <1>4 DEF User, HandleSend, QueueMessage, RemoveQueuedMessage, InterruptTurn,
           SelectThread, RefreshThread
      <3> QED
        BY <1>1, <1>4, <3>1 DEF view, TypeInv, ViewTyped
    <2> QED
      BY <2>1, <2>2, WindowKeepsTurnsInv
  <1>5. CASE ~effects /\ UserAnswers
    <2>1. effects' = FALSE
      BY <1>1, <1>5 DEF UserAnswers, SubmitUserInput, view, TypeInv, ViewTyped
    <2> QED
      BY <1>1, <1>5, <2>1, UserAnswersKeeps, WindowKeepsTurnsInv
  <1>6. CASE ~effects /\ (Answers \/ Notifications \/ ServerAnswers \/ ServerActs
                          \/ \E t \in Threads : ServerEnds(t))
    <2>1. StepKept
      BY <1>1, <1>6, AnswersKeeps, NotificationsKeeps, ServerAnswersKeeps, ServerActsKeeps
         DEF ServerActs
    <2> QED
      BY <1>6, <2>1, StepKeepsTurnsInv
  <1>7. CASE UNCHANGED vars
    <2>1. UNCHANGED vars
      BY <1>7
    <2>2. WindowTyped'
      BY <1>1, <2>1 DEF vars, queue, view, refs, ghosts, TypeInv, WindowTyped
    <2>3. ViewTyped'
      BY <1>1, <2>1 DEF vars, queue, view, refs, ghosts, TypeInv, ViewTyped
    <2>4. MessagesTyped'
      BY <1>1, <2>1 DEF vars, queue, view, refs, ghosts, TypeInv, MessagesTyped
    <2>5. CallsProper'
      BY <1>1, <2>1 DEF vars, queue, view, refs, ghosts, TypeInv, CallsProper, Proper
    <2>6. WireProper'
      BY <1>1, <2>1 DEF vars, queue, view, refs, ghosts, TypeInv, WireProper, ProperLine, Proper
    <2>7. NoMessageVanishes' /\ FlushesWhatIsQueued'
      BY <2>1 DEF vars, queue, view, refs, ghosts, TurnsInv, NoMessageVanishes, Held,
         FlushesWhatIsQueued
    <2> QED
      BY <2>2, <2>3, <2>4, <2>5, <2>6, <2>7 DEF TurnsInv, TypeInv
  <1> QED
    BY <1>2, <1>3, <1>4, <1>5, <1>6, <1>7 DEF Next

LEMMA TurnsInvariant == Spec => []TurnsInv
  BY InitTurnsInv, NextTurnsInv, PTL DEF Spec

LEMMA TypeInvIsTypeOK == TypeInv => TypeOK
  BY StoreFields DEF TypeInv, WindowTyped, ViewTyped, MessagesTyped, TypeOK, OrNone

\* The types of the window's state, of the calls under way and of what the
\* server has written (useThreadsReducer.ts and the hooks' refs).
THEOREM TypeCorrect == Spec => []TypeOK
  <1>1. TurnsInv => TypeOK
    BY TypeInvIsTypeOK DEF TurnsInv
  <1> QED
    BY <1>1, TurnsInvariant, PTL

\* For every number of threads and messages, whatever the order of answers and
\* notifications, and however many requests fail: a submitted message is queued,
\* under way, accepted, removed by the user, or told to have failed.
THEOREM NoMessageIsLost == Spec => []NoMessageVanishes
  <1>1. TurnsInv => NoMessageVanishes
    BY DEF TurnsInv
  <1> QED
    BY <1>1, TurnsInvariant, PTL

==============================================================================
