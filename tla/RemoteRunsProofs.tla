--------------------------- MODULE RemoteRunsProofs ---------------------------
(***************************************************************************)
(* Theorems about RemoteSystem: how often a call runs, what its result     *)
(* says about that, and that the system implements RpcChannel.             *)
(***************************************************************************)
EXTENDS RemoteSystemProofs, FiniteSetTheorems

----------------------------------------------------------------------------
(* One request per id                                                       *)

Distinct(s) == \A i, j \in DOMAIN s : s[i].id = s[j].id => i = j

\* An id of connection c is in one place only: with its call, in a line of
\* either queue, or in a task.
ApartAt(c) ==
    /\ Distinct(queue[c]) /\ Distinct(up[c])
    /\ \A l \in Range(queue[c]), m \in Range(up[c]) : l.id # m.id
    /\ \A l \in Range(queue[c]) \cup Range(up[c]), t \in tasks : t.conn = c => t.id # l.id
    /\ \A t, u \in tasks : t.conn = c /\ u.conn = c /\ t.id = u.id => t = u
    /\ \A k \in Call : pc[k] \in {"pend", "send"} /\ use[k] = c =>
         /\ \A l \in Range(queue[c]) \cup Range(up[c]) : l.id # id[k]
         /\ \A t \in tasks : t.conn = c => t.id # id[k]

ApartInv == \A c \in Conn : ApartAt(c)

----------------------------------------------------------------------------
(* How often a call may run                                                 *)

\* The requests of call k that may still be run, by connection and id.
Carries(x, k) ==
    \/ \E l \in Range(queue[x[1]]) \cup Range(up[x[1]]) : l.id = x[2] /\ l.method = k
    \/ \E t \in tasks : t.conn = x[1] /\ t.id = x[2] /\ t.method = k /\ t.stage = "waiting"
InFlight(k) == {x \in Conn \X Nat : Carries(x, k)}

\* How many more requests call k may send, in this attempt and in the next.
MaySend(k) == pc[k] \notin {"clear", "done"} /\ (pc[k] = "wait" => asks[k] = Auth)
MayRetry(k) == k \in Retryable /\ attempt[k] = 1 /\ pc[k] # "done"
Chances(k) == (IF MaySend(k) THEN 1 ELSE 0) + (IF MayRetry(k) THEN 1 ELSE 0)

Budget(k) == IF k \in Retryable THEN 2 ELSE 1

BudgetInv ==
    \A k \in Call :
        /\ IsFiniteSet(InFlight(k))
        /\ executed[k] + Cardinality(InFlight(k)) + Chances(k) <= Budget(k)

----------------------------------------------------------------------------
(* What results say                                                         *)

\* "ok" is said only of what has run.
OkInv ==
    /\ \A c \in Conn : \A a \in Range(outq[c]) \cup Range(down[c]) :
         a.status = "ok" /\ a.method \in Call => executed[a.method] > 0
    /\ \A t \in tasks : t.stage = "ran" /\ t.method \in Call => executed[t.method] > 0
    /\ \A k \in Call :
         /\ reply[k] \in Answers /\ reply[k].status = "ok" /\ reply[k].method \in Call =>
              executed[reply[k].method] > 0
         /\ result[k] = "ok" => executed[k] > 0

\* Nothing is left of call k that could run it.
Idle(k) == executed[k] = 0 /\ InFlight(k) = {} /\ Chances(k) = 0

\* Call k is said not to have been run, now or on some wire.
ToldUnsent(k) ==
    \/ result[k] \in {"unreachable", "refused"}
    \/ \E c \in Conn : \E a \in Range(outq[c]) \cup Range(down[c]) :
         a.method = k /\ a.status = "refused"
    \/ \E j \in Call : reply[j] = [method |-> k, status |-> "refused"]

UnsentInv == \A k \in Call \ Retryable : ToldUnsent(k) => Idle(k)

RunsInv == ApartInv /\ BudgetInv /\ OkInv /\ UnsentInv

----------------------------------------------------------------------------
(* Sequences of lines                                                       *)

LEMMA DistinctEmpty == Distinct(<< >>)
  BY DEF Distinct

LEMMA DistinctAppend ==
    ASSUME NEW S, NEW s \in Seq(S), NEW x \in S, Distinct(s), \A l \in Range(s) : l.id # x.id
    PROVE  Distinct(Append(s, x))
  <1>1. /\ DOMAIN Append(s, x) = 1..(Len(s) + 1) /\ DOMAIN s = 1..Len(s) /\ Len(s) \in Nat
        /\ \A i \in 1..Len(s) : Append(s, x)[i] = s[i]
        /\ Append(s, x)[Len(s) + 1] = x
    OBVIOUS
  <1>2. \A i \in 1..Len(s) : s[i] \in Range(s)
    BY <1>1 DEF Range
  <1>3. ASSUME NEW i \in 1..(Len(s) + 1), NEW j \in 1..(Len(s) + 1),
               Append(s, x)[i].id = Append(s, x)[j].id
        PROVE  i = j
    <2>1. CASE i \in 1..Len(s) /\ j \in 1..Len(s)
      BY <1>1, <1>3, <2>1 DEF Distinct
    <2>2. CASE i = Len(s) + 1 /\ j \in 1..Len(s)
      BY <1>1, <1>2, <1>3, <2>2
    <2>3. CASE i \in 1..Len(s) /\ j = Len(s) + 1
      BY <1>1, <1>2, <1>3, <2>3
    <2>4. CASE i = Len(s) + 1 /\ j = Len(s) + 1
      BY <2>4
    <2> QED
      BY <1>1, <2>1, <2>2, <2>3, <2>4
  <1> QED
    BY <1>1, <1>3 DEF Distinct

LEMMA DistinctTail ==
    ASSUME NEW S, NEW s \in Seq(S), s # << >>, Distinct(s)
    PROVE  /\ Distinct(Tail(s))
           /\ \A l \in Range(Tail(s)) : l.id # Head(s).id
  <1>1. /\ DOMAIN Tail(s) = 1..(Len(s) - 1) /\ DOMAIN s = 1..Len(s) /\ Len(s) \in Nat \ {0}
        /\ \A i \in 1..(Len(s) - 1) : Tail(s)[i] = s[i + 1] /\ i + 1 \in 1..Len(s)
        /\ Head(s) = s[1] /\ 1 \in 1..Len(s)
    OBVIOUS
  <1>2. ASSUME NEW i \in 1..(Len(s) - 1), NEW j \in 1..(Len(s) - 1), Tail(s)[i].id = Tail(s)[j].id
        PROVE  i = j
    <2>1. i + 1 = j + 1
      BY <1>1, <1>2 DEF Distinct
    <2> QED
      BY <1>1, <2>1
  <1>3. ASSUME NEW l \in Range(Tail(s)), l.id = Head(s).id PROVE FALSE
    <2>1. PICK i \in 1..(Len(s) - 1) : l = Tail(s)[i]
      BY <1>1 DEF Range
    <2>2. i + 1 = 1
      BY <1>1, <1>3, <2>1 DEF Distinct
    <2> QED
      BY <1>1, <2>2
  <1> QED
    BY <1>1, <1>2, <1>3 DEF Distinct

----------------------------------------------------------------------------
(* What a step does to the requests under way                               *)

\* Some are lost, or a task is over; or nothing happens to them.
Dwindle ==
    /\ UNCHANGED executed /\ tasks' \subseteq tasks
    /\ \A c \in Conn : queue'[c] \in {queue[c], << >>} /\ up'[c] \in {up[c], << >>}

Sends(k) ==
    /\ pc[k] = "send" /\ pc'[k] = "wait" /\ asks'[k] = asks[k] /\ attempt'[k] = attempt[k]
    /\ use[k] \in Conn /\ Line(k) \in Requests
    /\ queue' = [queue EXCEPT ![use[k]] = Append(@, Line(k))]
    /\ UNCHANGED <<up, tasks, executed>>

Writes(c) ==
    /\ queue[c] # << >>
    /\ queue' = [queue EXCEPT ![c] = Tail(@)]
    /\ up' = [up EXCEPT ![c] = IF closed[c] THEN @ ELSE Append(@, Head(queue[c]))]
    /\ UNCHANGED <<tasks, executed>>

Spawned(c) ==
    [conn |-> c, id |-> Head(up[c]).id, method |-> Head(up[c]).method,
     stage |-> "waiting", status |-> "none"]

Receives(c) ==
    /\ up[c] # << >>
    /\ up' = [up EXCEPT ![c] = Tail(@)]
    /\ UNCHANGED tasks \/ tasks' = tasks \cup {Spawned(c)}
    /\ UNCHANGED <<queue, executed>>

Runs(t) ==
    /\ t.stage = "waiting"
    /\ \E n \in Tasks :
         /\ tasks' = (tasks \ {t}) \cup {n}
         /\ n.conn = t.conn /\ n.id = t.id /\ n.method = t.method /\ n.stage = "ran"
    /\ executed' = IF t.method = Auth THEN executed
                   ELSE [executed EXCEPT ![t.method] = @ + 1]
    /\ UNCHANGED <<queue, up>>

LEMMA LineMoves ==
    ASSUME TypeInv, [Next]_vars
    PROVE  \/ Dwindle
           \/ \E k \in Call : Sends(k)
           \/ \E c \in Conn : Writes(c) \/ Receives(c)
           \/ \E t \in tasks : Runs(t)
  <1>1. CASE UNCHANGED vars \/ Saves \/ Resets
    BY <1>1 DEF vars, Saves, SaveSettings, Resets, ResetClient, clientVars, inner, wires, served,
                Dwindle
  <1>2. ASSUME NEW k \in Call, ClientSteps(k) PROVE Dwindle \/ Sends(k)
    <2>1. CASE Send(k)
      <3>1. Line(k) \in Requests /\ use[k] \in Conn
        <4>1. /\ use[k] \in Conn /\ asks[k] \in Methods /\ id[k] \in Nat
              /\ asks[k] = Auth => cfg[k].token \in Token \cup {None}
          BY <2>1, SettingFields DEF Send, Methods, TypeInv, CallsTyped, Located, InCall
        <4> QED
          BY <4>1 DEF Line, Requests, Methods
      <3> QED
        BY <1>2, <2>1, <3>1 DEF Send, Sends, ClientSteps, served, wires, Goto, TypeInv, CallsTyped
    <2>2. CASE ~Send(k)
      BY <1>2, <2>2 DEF ClientSteps, CallStep, Look, Resolve, ConnectFails, Publish, Check,
             CheckLost, Pend, SendFails, ReceiveOk, ReceiveError, Timeout, Clear, inner, wires,
             served, Dwindle
    <2> QED
      BY <2>1, <2>2
  <1>3. ASSUME NEW k \in Call, NEW c \in Conn, Connects(k, c) PROVE Dwindle
    BY <1>3 DEF Connects, Connect, D!Accept, wires, Dwindle
  <1>4. ASSUME NEW c \in Conn, ConnSteps(c) PROVE Dwindle \/ Writes(c)
    <2>1. CASE WriteOk(c)
      BY <1>4, <2>1 DEF WriteOk, Writes, ConnSteps, served
    <2>2. CASE ~WriteOk(c)
      BY <1>4, <2>2 DEF ConnSteps, ConnStep, WriteFails, WriterEnds, Read, ReadEnds, wires,
             served, Dwindle, TypeInv, ClientTyped
    <2> QED
      BY <2>1, <2>2
  <1>5. ASSUME NEW c \in Conn, ServeSteps(c) PROVE Dwindle \/ Receives(c)
    <2>1. UNCHANGED queue
      BY <1>5 DEF ServeSteps, untouched, inner
    <2>2. CASE D!Authenticate(c) \/ D!Refuse(c) \/ D!Spawn(c)
      BY <2>1, <2>2 DEF D!Authenticate, D!Refuse, D!Spawn, D!Reads, Receives, Spawned
    <2>3. CASE D!WriteOut(c) \/ D!Close(c)
      BY <2>1, <2>3 DEF D!WriteOut, D!Close, Dwindle
    <2> QED
      BY <1>5, <2>2, <2>3 DEF ServeSteps, D!ServeStep
  <1>6. ASSUME NEW c \in Conn, TaskSteps(c) PROVE Dwindle \/ \E t \in tasks : Runs(t)
    <2>1. PICK t \in tasks : D!TaskStep(t) /\ UNCHANGED queue
      BY <1>6 DEF TaskSteps, untouched, inner
    <2>2. CASE D!Respond(t)
      BY <2>1, <2>2 DEF D!Respond, Dwindle
    <2>3. CASE D!Execute(t)
      <3>1. PICK s \in {"ok", "error"} :
              tasks' = (tasks \ {t}) \cup {[t EXCEPT !.stage = "ran", !.status = s]}
        BY <2>3 DEF D!Execute
      <3> DEFINE n == [t EXCEPT !.stage = "ran", !.status = s]
      <3>2. n \in Tasks /\ n.conn = t.conn /\ n.id = t.id /\ n.method = t.method /\ n.stage = "ran"
        BY DEF Tasks, TypeInv, ServedTyped
      <3> HIDE DEF n
      <3>3. tasks' = (tasks \ {t}) \cup {n}
        BY <3>1 DEF n
      <3> QED
        BY <2>1, <2>3, <3>2, <3>3 DEF D!Execute, Runs
    <2> QED
      BY <2>1, <2>2, <2>3 DEF D!TaskStep
  <1>7. ASSUME NEW c \in Conn, Break(c) PROVE Dwindle
    BY <1>7 DEF Break, clientVars, inner, served, Dwindle, TypeInv, ServedTyped
  <1>8. ASSUME NEW host \in Host, Crash(host) PROVE Dwindle
    BY <1>8 DEF Crash, clientVars, inner, Dwindle
  <1> QED
    BY <1>1, <1>2, <1>3, <1>4, <1>5, <1>6, <1>7, <1>8 DEF Next

\* A call about to send has its id already, or takes the next one.
LEMMA ToSend ==
    ASSUME TypeInv, [Next]_vars, NEW k \in Call, pc'[k] \in {"pend", "send"}
    PROVE  \/ pc[k] \in {"pend", "send"} /\ use'[k] = use[k] /\ id'[k] = id[k]
           \/ Takes(k)
  <1>1. CASE ClientSteps(k)
    <2> USE DEF TypeInv, CallsTyped, Goto
    <2>1. ASSUME NEW r, Return(k, r) PROVE pc'[k] = "done"
      BY <2>1 DEF Return
    <2>2. ASSUME NEW r, Fail(k, r) PROVE pc'[k] \in {"clear", "done"}
      BY <2>1, <2>2 DEF Fail
    <2>3. CASE Check(k)
      BY <2>3 DEF Check, IdTaken, Takes
    <2>4. CASE Pend(k)
      BY <2>4 DEF Pend
    <2>5. CASE ~Check(k) /\ ~Pend(k)
      BY <1>1, <2>1, <2>2, <2>5 DEF ClientSteps, CallStep, Look, Resolve, ConnectFails, Publish,
         CheckLost, Send, SendFails, ReceiveOk, ReceiveError, Timeout, Clear
    <2> QED
      BY <2>3, <2>4, <2>5
  <1>2. CASE \E j \in Call \ {k} : ClientSteps(j)
    BY <1>2, CallMoves DEF Alone
  <1>3. CASE \A j \in Call : ~ClientSteps(j)
    BY <1>3, OthersMove DEF Alone, InCall
  <1> QED
    BY <1>1, <1>2, <1>3

\* Its id is in no line and in no task yet.
LEMMA FreshId ==
    ASSUME TypeInv, TrafficInv, ApartInv, [Next]_vars, NEW k \in Call, NEW c \in Conn,
           pc'[k] \in {"pend", "send"}, use'[k] = c
    PROVE  /\ \A l \in Range(queue[c]) \cup Range(up[c]) : l.id # id'[k]
           /\ \A t \in tasks : t.conn = c => t.id # id'[k]
  <1>1. CASE pc[k] \in {"pend", "send"} /\ use'[k] = use[k] /\ id'[k] = id[k]
    BY <1>1 DEF ApartInv, ApartAt
  <1>2. CASE Takes(k)
    <2>1. id'[k] = nextId[c] /\ nextId[c] \in Nat
      BY <1>2 DEF Takes, TypeInv, ClientTyped
    <2>2. \A n \in Nat : ~(n < n)
      OBVIOUS
    <2> QED
      BY <2>1, <2>2 DEF TrafficInv, Asked
  <1> QED
    BY <1>1, <1>2, ToSend

LEMMA ApartInit == Init => ApartInv
  BY RangeEmpty, DistinctEmpty
     DEF Init, ClientInit, WireInit, D!ServedInit, ApartInv, ApartAt

\* Ids stay apart when the places of connection c lose some, or the calls move.
LEMMA ApartFewer ==
    ASSUME TypeInv, TrafficInv, ApartInv, [Next]_vars, NEW c \in Conn,
           Distinct(queue'[c]), Range(queue'[c]) \subseteq Range(queue[c]),
           Distinct(up'[c]), Range(up'[c]) \subseteq Range(up[c]),
           \A t \in tasks' : t.conn = c => t \in tasks
    PROVE  ApartAt(c)'
  <1>1. ASSUME NEW k \in Call, pc'[k] \in {"pend", "send"}, use'[k] = c
        PROVE  /\ \A l \in Range(queue'[c]) \cup Range(up'[c]) : l.id # id'[k]
               /\ \A t \in tasks' : t.conn = c => t.id # id'[k]
    BY <1>1, FreshId
  <1>2. ApartAt(c)
    BY DEF ApartInv
  <1> QED
    BY <1>1, <1>2 DEF ApartAt

LEMMA ApartNext ==
    ASSUME TypeInv, IdsInv, TrafficInv, ApartInv, [Next]_vars
    PROVE  ApartInv'
  <1> SUFFICES ASSUME NEW c \in Conn PROVE ApartAt(c)'
    BY DEF ApartInv
  <1>0. /\ ApartAt(c) /\ queue[c] \in Seq(Requests) /\ up[c] \in Seq(Requests)
        /\ queue \in [Conn -> Seq(Requests)] /\ up \in [Conn -> Seq(Requests)]
        /\ tasks \subseteq Tasks
    BY DEF ApartInv, TypeInv, ClientTyped, ServedTyped
  <1>1. CASE Dwindle
    <2>1. /\ Distinct(queue'[c]) /\ Range(queue'[c]) \subseteq Range(queue[c])
          /\ Distinct(up'[c]) /\ Range(up'[c]) \subseteq Range(up[c])
          /\ \A t \in tasks' : t \in tasks
      BY <1>0, <1>1, DistinctEmpty, RangeEmpty DEF Dwindle, ApartAt
    <2> QED
      BY <2>1, ApartFewer
  <1>2. ASSUME NEW k \in Call, Sends(k) PROVE ApartAt(c)'
    <2>1. CASE use[k] # c
      <3>1. queue'[c] = queue[c] /\ UNCHANGED <<up, tasks>>
        BY <1>0, <1>2, <2>1 DEF Sends
      <3> QED
        BY <1>0, <3>1, ApartFewer DEF ApartAt
    <2>2. CASE use[k] = c
      <3> DEFINE l == Line(k)
      <3>1. /\ queue'[c] = Append(queue[c], l) /\ UNCHANGED <<up, tasks>>
            /\ l \in Requests /\ l.id = id[k] /\ pc[k] = "send" /\ pc'[k] = "wait"
        BY <1>0, <1>2, <2>2 DEF Sends, Line
      <3> HIDE DEF l
      <3>2. /\ \A m \in Range(queue[c]) \cup Range(up[c]) : m.id # l.id
            /\ \A t \in tasks : t.conn = c => t.id # l.id
        BY <1>0, <2>2, <3>1 DEF ApartAt
      <3>3. Distinct(queue'[c]) /\ Range(queue'[c]) = Range(queue[c]) \cup {l}
        BY <1>0, <3>1, <3>2, DistinctAppend, RangeAppend DEF ApartAt
      <3>4. ASSUME NEW j \in Call, pc'[j] \in {"pend", "send"}, use'[j] = c
            PROVE  /\ \A m \in Range(queue'[c]) \cup Range(up'[c]) : m.id # id'[j]
                   /\ \A t \in tasks' : t.conn = c => t.id # id'[j]
        <4>1. l.id # id'[j]
          <5>1. CASE pc[j] \in {"pend", "send"} /\ use'[j] = use[j] /\ id'[j] = id[j]
            BY <2>2, <3>1, <3>4, <5>1 DEF IdsInv, InCall
          <5>2. CASE Takes(j)
            <6>1. id'[j] = nextId[c] /\ nextId[c] \in Nat /\ id[k] < nextId[c]
              BY <2>2, <3>1, <3>4, <5>2 DEF Takes, IdsInv, InCall, TypeInv, ClientTyped
            <6> QED
              BY <3>1, <6>1
          <5> QED
            BY <3>4, <5>1, <5>2, ToSend
        <4> QED
          BY <3>1, <3>3, <3>4, <4>1, FreshId
      <3> QED
        BY <1>0, <3>1, <3>2, <3>3, <3>4 DEF ApartAt
    <2> QED
      BY <2>1, <2>2
  <1>3. ASSUME NEW d \in Conn, Writes(d) PROVE ApartAt(c)'
    <2>1. CASE d # c
      <3>1. queue'[c] = queue[c] /\ up'[c] = up[c] /\ UNCHANGED tasks
        BY <1>0, <1>3, <2>1 DEF Writes
      <3> QED
        BY <1>0, <3>1, ApartFewer DEF ApartAt
    <2>2. CASE d = c
      <3> DEFINE l == Head(queue[c])
      <3>1. /\ queue[c] # << >> /\ queue'[c] = Tail(queue[c]) /\ UNCHANGED tasks
            /\ up'[c] = up[c] \/ up'[c] = Append(up[c], l)
        BY <1>0, <1>3, <2>2 DEF Writes
      <3>2. /\ l \in Requests /\ Range(queue[c]) = Range(queue'[c]) \cup {l}
            /\ Distinct(queue'[c]) /\ \A m \in Range(queue'[c]) : m.id # l.id
        BY <1>0, <3>1, RangeTail, DistinctTail DEF ApartAt
      <3> HIDE DEF l
      <3>3. CASE up'[c] = up[c]
        BY <1>0, <3>1, <3>2, <3>3, ApartFewer DEF ApartAt
      <3>4. CASE up'[c] = Append(up[c], l)
        <4>1. \A m \in Range(up[c]) : m.id # l.id
          BY <1>0, <3>2 DEF ApartAt
        <4>2. Distinct(up'[c]) /\ Range(up'[c]) = Range(up[c]) \cup {l}
          BY <1>0, <3>2, <3>4, <4>1, DistinctAppend, RangeAppend DEF ApartAt
        <4>3. Range(queue'[c]) \cup Range(up'[c]) \subseteq Range(queue[c]) \cup Range(up[c])
          BY <3>2, <4>2
        <4>4. ASSUME NEW j \in Call, pc'[j] \in {"pend", "send"}, use'[j] = c
              PROVE  /\ \A m \in Range(queue'[c]) \cup Range(up'[c]) : m.id # id'[j]
                     /\ \A t \in tasks' : t.conn = c => t.id # id'[j]
          BY <3>1, <4>3, <4>4, FreshId
        <4>5. \A m \in Range(queue'[c]), n \in Range(up'[c]) : m.id # n.id
          BY <1>0, <3>2, <4>2 DEF ApartAt
        <4> QED
          BY <1>0, <3>1, <3>2, <4>2, <4>3, <4>4, <4>5 DEF ApartAt
      <3> QED
        BY <3>1, <3>3, <3>4
    <2> QED
      BY <2>1, <2>2
  <1>4. ASSUME NEW d \in Conn, Receives(d) PROVE ApartAt(c)'
    <2> DEFINE n == Spawned(d)
    <2>1. /\ up[d] # << >> /\ up' = [up EXCEPT ![d] = Tail(@)] /\ UNCHANGED queue
          /\ UNCHANGED tasks \/ tasks' = tasks \cup {n}
          /\ n.conn = d /\ n.id = Head(up[d]).id
      BY <1>4 DEF Receives, Spawned
    <2> HIDE DEF n
    <2>2. CASE d # c
      <3>1. queue'[c] = queue[c] /\ up'[c] = up[c] /\ \A t \in tasks' : t.conn = c => t \in tasks
        BY <1>0, <2>1, <2>2
      <3> QED
        BY <1>0, <3>1, ApartFewer DEF ApartAt
    <2>3. CASE d = c
      <3>1. /\ Head(up[c]) \in Requests /\ Range(up[c]) = Range(up'[c]) \cup {Head(up[c])}
            /\ Distinct(up'[c]) /\ \A m \in Range(up'[c]) : m.id # Head(up[c]).id
        BY <1>0, <2>1, <2>3, RangeTail, DistinctTail DEF ApartAt
      <3>2. CASE UNCHANGED tasks
        BY <1>0, <2>1, <3>1, <3>2, ApartFewer DEF ApartAt
      <3>3. CASE tasks' = tasks \cup {n}
        <4>1. /\ \A m \in Range(queue'[c]) \cup Range(up'[c]) : m.id # n.id
              /\ \A t \in tasks : t.conn = c => t.id # n.id
          BY <1>0, <2>1, <2>3, <3>1 DEF ApartAt
        <4>2. ASSUME NEW j \in Call, pc'[j] \in {"pend", "send"}, use'[j] = c
              PROVE  /\ \A m \in Range(queue'[c]) \cup Range(up'[c]) : m.id # id'[j]
                     /\ \A t \in tasks' : t.conn = c => t.id # id'[j]
          <5>1. n.id # id'[j]
            BY <2>1, <2>3, <3>1, <4>2, FreshId
          <5> QED
            BY <2>1, <3>1, <3>3, <4>2, <5>1, FreshId
        <4> QED
          BY <1>0, <2>1, <3>1, <3>3, <4>1, <4>2 DEF ApartAt
      <3> QED
        BY <2>1, <3>2, <3>3
    <2> QED
      BY <2>2, <2>3
  <1>5. ASSUME NEW t \in tasks, Runs(t) PROVE ApartAt(c)'
    <2>1. PICK n \in Tasks : /\ tasks' = (tasks \ {t}) \cup {n}
                             /\ n.conn = t.conn /\ n.id = t.id
      BY <1>5 DEF Runs
    <2>2. UNCHANGED <<queue, up>>
      BY <1>5 DEF Runs
    <2>3. \A u \in tasks' : \E v \in tasks : /\ u.conn = v.conn /\ u.id = v.id
                                             /\ u # v => u = n /\ v = t
      BY <2>1
    <2>4. ASSUME NEW j \in Call, pc'[j] \in {"pend", "send"}, use'[j] = c
          PROVE  /\ \A m \in Range(queue'[c]) \cup Range(up'[c]) : m.id # id'[j]
                 /\ \A u \in tasks' : u.conn = c => u.id # id'[j]
      BY <2>2, <2>3, <2>4, FreshId
    <2>5. ASSUME NEW u \in tasks', NEW v \in tasks', u.conn = c, v.conn = c, u.id = v.id
          PROVE  u = v
      <3>1. \A p, q \in tasks : p.conn = c /\ q.conn = c /\ p.id = q.id => p = q
        BY <1>0 DEF ApartAt
      <3>2. CASE u # n /\ v # n
        BY <2>1, <2>5, <3>1, <3>2
      <3>3. CASE u = n \/ v = n
        <4>1. t.conn = c /\ t.id = u.id /\ t.id = v.id
          BY <2>1, <2>5, <3>3
        <4>2. \A w \in tasks' : w.conn = c /\ w.id = t.id => w = n
          <5>1. \A w \in tasks' : w = n \/ (w \in tasks /\ w # t)
            BY <2>1
          <5> QED
            BY <3>1, <4>1, <5>1
        <4> QED
          BY <2>5, <4>1, <4>2
      <3> QED
        BY <3>2, <3>3
    <2>6. ASSUME NEW l \in Range(queue'[c]) \cup Range(up'[c]), NEW u \in tasks', u.conn = c
          PROVE  u.id # l.id
      <3>1. PICK v \in tasks : v.conn = c /\ v.id = u.id
        BY <2>3, <2>6
      <3>2. l \in Range(queue[c]) \cup Range(up[c])
        BY <2>2
      <3> QED
        BY <1>0, <3>1, <3>2 DEF ApartAt
    <2> QED
      BY <1>0, <2>2, <2>4, <2>5, <2>6 DEF ApartAt
  <1> QED
    BY <1>1, <1>2, <1>3, <1>4, <1>5, LineMoves

----------------------------------------------------------------------------
(* Nobody runs a call too often                                             *)

\* Sending the call itself adds a request, running it takes one away.
LEMMA FlightMoves ==
    ASSUME TypeInv, ApartInv, [Next]_vars, NEW k \in Call
    PROVE  \/ executed'[k] = executed[k] /\ InFlight(k)' \subseteq InFlight(k)
           \/ /\ Sends(k) /\ asks[k] = k /\ executed'[k] = executed[k]
              /\ InFlight(k)' \subseteq InFlight(k) \cup {<<use[k], id[k]>>}
           \/ \E t \in tasks : /\ Runs(t) /\ t.method = k /\ executed'[k] = executed[k] + 1
                               /\ <<t.conn, t.id>> \in InFlight(k)
                               /\ InFlight(k)' \subseteq InFlight(k) \ {<<t.conn, t.id>>}
  <1>0. /\ queue \in [Conn -> Seq(Requests)] /\ up \in [Conn -> Seq(Requests)]
        /\ tasks \subseteq Tasks /\ executed \in [Call -> Nat] /\ Auth \notin Call
    BY SettingFields DEF TypeInv, ClientTyped, ServedTyped
  <1>1. ASSUME \A x \in Conn \X Nat : Carries(x, k)' => Carries(x, k)
        PROVE  InFlight(k)' \subseteq InFlight(k)
    BY <1>1 DEF InFlight
  <1>2. CASE Dwindle
    <2>1. /\ executed'[k] = executed[k] /\ \A t \in tasks' : t \in tasks
          /\ \A c \in Conn : Range(queue'[c]) \subseteq Range(queue[c])
                             /\ Range(up'[c]) \subseteq Range(up[c])
      BY <1>2, RangeEmpty DEF Dwindle
    <2>2. \A x \in Conn \X Nat : Carries(x, k)' => Carries(x, k)
      BY <2>1 DEF Carries
    <2> QED
      BY <1>1, <2>1, <2>2
  <1>3. ASSUME NEW j \in Call, Sends(j)
        PROVE  \/ executed'[k] = executed[k] /\ InFlight(k)' \subseteq InFlight(k)
               \/ /\ j = k /\ asks[k] = k /\ executed'[k] = executed[k]
                  /\ InFlight(k)' \subseteq InFlight(k) \cup {<<use[k], id[k]>>}
    <2> DEFINE l == Line(j)
    <2>1. /\ UNCHANGED <<up, tasks, executed>> /\ queue' = [queue EXCEPT ![use[j]] = Append(@, l)]
          /\ l \in Requests /\ l.id = id[j] /\ l.method = asks[j] /\ asks[j] \in {j, Auth}
          /\ use[j] \in Conn /\ id[j] \in Nat
      BY <1>3 DEF Sends, Line, TypeInv, CallsTyped, Located, InCall
    <2> HIDE DEF l
    <2>2. /\ Range(queue'[use[j]]) = Range(queue[use[j]]) \cup {l}
          /\ \A c \in Conn \ {use[j]} : queue'[c] = queue[c]
      <3>1. queue'[use[j]] = Append(queue[use[j]], l) /\ queue[use[j]] \in Seq(Requests)
        BY <1>0, <2>1
      <3> QED
        BY <1>0, <2>1, <3>1, RangeAppend
    <2>3. CASE asks[j] = k
      <3>1. j = k
        BY <1>0, <2>1, <2>3
      <3>2. \A x \in Conn \X Nat : Carries(x, k)' => Carries(x, k) \/ x = <<use[j], id[j]>>
        BY <2>1, <2>2 DEF Carries
      <3> QED
        BY <2>1, <2>3, <3>1, <3>2 DEF InFlight
    <2>4. CASE asks[j] # k
      <3>1. \A x \in Conn \X Nat : Carries(x, k)' => Carries(x, k)
        BY <2>1, <2>2, <2>4 DEF Carries
      <3> QED
        BY <1>1, <2>1, <3>1
    <2> QED
      BY <2>3, <2>4
  <1>4. ASSUME NEW d \in Conn, Writes(d)
        PROVE  executed'[k] = executed[k] /\ InFlight(k)' \subseteq InFlight(k)
    <2>1. UNCHANGED <<tasks, executed>>
      BY <1>4 DEF Writes
    <2>2. \A c \in Conn : Range(queue'[c]) \cup Range(up'[c]) \subseteq
                            Range(queue[c]) \cup Range(up[c])
      <3> SUFFICES ASSUME NEW c \in Conn
                   PROVE  Range(queue'[c]) \cup Range(up'[c]) \subseteq
                            Range(queue[c]) \cup Range(up[c])
        OBVIOUS
      <3>1. CASE c = d
        <4>1. /\ queue'[c] = Tail(queue[c]) /\ queue[c] # << >> /\ queue[c] \in Seq(Requests)
              /\ up[c] \in Seq(Requests)
              /\ up'[c] = up[c] \/ up'[c] = Append(up[c], Head(queue[c]))
          BY <1>0, <1>4, <3>1 DEF Writes
        <4>2. /\ Head(queue[c]) \in Requests
              /\ Range(queue[c]) = Range(queue'[c]) \cup {Head(queue[c])}
          BY <4>1, RangeTail
        <4>3. CASE up'[c] = up[c]
          BY <4>2, <4>3
        <4>4. CASE up'[c] = Append(up[c], Head(queue[c]))
          <5>1. Range(up'[c]) = Range(up[c]) \cup {Head(queue[c])}
            BY <4>1, <4>2, <4>4, RangeAppend
          <5> QED
            BY <4>2, <5>1
        <4> QED
          BY <4>1, <4>3, <4>4
      <3>2. CASE c # d
        BY <1>0, <1>4, <3>2 DEF Writes
      <3> QED
        BY <3>1, <3>2
    <2>3. \A x \in Conn \X Nat : Carries(x, k)' => Carries(x, k)
      BY <2>1, <2>2 DEF Carries
    <2> QED
      BY <1>1, <2>1, <2>3
  <1>5. ASSUME NEW d \in Conn, Receives(d)
        PROVE  executed'[k] = executed[k] /\ InFlight(k)' \subseteq InFlight(k)
    <2> DEFINE n == Spawned(d)
    <2>1. /\ UNCHANGED <<queue, executed>> /\ \A t \in tasks' : t \in tasks \/ t = n
          /\ n.conn = d /\ n.id = Head(up[d]).id /\ n.method = Head(up[d]).method
      BY <1>5 DEF Receives, Spawned
    <2> HIDE DEF n
    <2>2. Head(up[d]) \in Range(up[d]) /\ \A c \in Conn : Range(up'[c]) \subseteq Range(up[c])
      <3>1. /\ up[d] # << >> /\ up'[d] = Tail(up[d]) /\ up[d] \in Seq(Requests)
            /\ \A c \in Conn \ {d} : up'[c] = up[c]
        BY <1>0, <1>5 DEF Receives
      <3> QED
        BY <3>1, RangeTail
    <2>3. ASSUME NEW x \in Conn \X Nat, Carries(x, k)' PROVE Carries(x, k)
      BY <2>1, <2>2, <2>3 DEF Carries
    <2> QED
      BY <1>1, <2>1, <2>3
  <1>6. ASSUME NEW t \in tasks, Runs(t)
        PROVE  \/ executed'[k] = executed[k] /\ InFlight(k)' \subseteq InFlight(k)
               \/ /\ t.method = k /\ executed'[k] = executed[k] + 1
                  /\ <<t.conn, t.id>> \in InFlight(k)
                  /\ InFlight(k)' \subseteq InFlight(k) \ {<<t.conn, t.id>>}
    <2>1. PICK n \in Tasks : tasks' = (tasks \ {t}) \cup {n} /\ n.stage = "ran"
      BY <1>6 DEF Runs
    <2>2. UNCHANGED <<queue, up>> /\ t.stage = "waiting" /\ t.conn \in Conn /\ t.id \in Nat
      BY <1>0, <1>6 DEF Runs, Tasks
    <2>3. \A x \in Conn \X Nat : Carries(x, k)' => Carries(x, k)
      BY <2>1, <2>2 DEF Carries
    <2>4. CASE t.method # k
      BY <1>0, <1>1, <1>6, <2>3, <2>4 DEF Runs
    <2>5. CASE t.method = k
      <3> DEFINE x == <<t.conn, t.id>>
      <3>1. x \in Conn \X Nat /\ Carries(x, k)
        BY <2>2, <2>5 DEF Carries
      <3>2. ~Carries(x, k)'
        <4>1. ApartAt(t.conn)
          BY <2>2 DEF ApartInv
        <4> QED
          BY <2>1, <2>2, <4>1 DEF Carries, ApartAt
      <3>3. executed'[k] = executed[k] + 1
        BY <1>0, <1>6, <2>5 DEF Runs
      <3> QED
        BY <2>3, <2>5, <3>1, <3>2, <3>3 DEF InFlight
    <2> QED
      BY <2>4, <2>5
  <1> QED
    BY <1>2, <1>3, <1>4, <1>5, <1>6, LineMoves

\* Chances are spent, never won.
LEMMA ChancesMove ==
    ASSUME TypeInv, [Next]_vars, NEW k \in Call
    PROVE  /\ MayRetry(k)' => MayRetry(k)
           /\ MaySend(k)' => MaySend(k) \/ (MayRetry(k) /\ ~MayRetry(k)')
           /\ Sends(k) /\ asks[k] = k => MaySend(k) /\ ~MaySend(k)'
  <1> USE DEF MaySend, MayRetry
  <1>0. k # Auth
    BY SettingFields
  <1>1. CASE ClientSteps(k)
    <2> USE DEF TypeInv, CallsTyped, Goto
    <2>1. ASSUME NEW r, Return(k, r) PROVE pc'[k] = "done"
      BY <2>1 DEF Return
    <2>2. ASSUME NEW r, Fail(k, r) PROVE pc'[k] \in {"clear", "done"}
      BY <2>1, <2>2 DEF Fail
    <2>3. CASE Clear(k)
      <3>1. pc[k] = "clear" /\ pc'[k] # "send"
        BY <2>1, <2>3 DEF Clear
      <3> QED
        BY <2>1, <2>3, <3>1 DEF Clear, Retries, Sends
    <2>4. CASE Look(k) \/ Resolve(k) \/ ConnectFails(k) \/ Publish(k)
      BY <2>1, <2>4 DEF Look, Resolve, ConnectFails, Publish, Sends
    <2>5. CASE Check(k) \/ CheckLost(k) \/ Pend(k) \/ SendFails(k)
      BY <2>2, <2>5 DEF Check, CheckLost, Pend, SendFails, Sends
    <2>6. CASE Send(k)
      BY <1>0, <2>6 DEF Send, Sends
    <2>7. CASE ReceiveOk(k) \/ ReceiveError(k) \/ Timeout(k)
      BY <2>1, <2>2, <2>7 DEF ReceiveOk, ReceiveError, Timeout, Received, Sends
    <2> QED
      BY <1>1, <2>3, <2>4, <2>5, <2>6, <2>7 DEF ClientSteps, CallStep
  <1>2. CASE \E j \in Call \ {k} : ClientSteps(j)
    <2>1. pc'[k] = pc[k] /\ asks'[k] = asks[k] /\ attempt'[k] = attempt[k]
      BY <1>2, CallMoves DEF Alone
    <2> QED
      BY <2>1 DEF Sends
  <1>3. CASE \A j \in Call : ~ClientSteps(j)
    <2>1. CASE pc'[k] = pc[k] /\ asks'[k] = asks[k] /\ attempt'[k] = attempt[k]
      BY <2>1 DEF Sends
    <2>2. ASSUME NEW c \in Conn, Connects(k, c)
          PROVE  /\ pc[k] = "connect" /\ pc'[k] \in {"check", "publish"}
                 /\ attempt'[k] = attempt[k]
      BY <2>2 DEF Connects, Connect, Goto, AfterConnect, TypeInv, CallsTyped
    <2>3. CASE \E c \in Conn : Connects(k, c)
      BY <2>2, <2>3 DEF Sends
    <2> QED
      BY <1>3, <2>1, <2>3, OthersMove DEF Alone
  <1> QED
    BY <1>1, <1>2, <1>3

LEMMA ChancesLess ==
    ASSUME TypeInv, [Next]_vars, NEW k \in Call
    PROVE  /\ Chances(k) \in 0..2 /\ Chances(k)' \in 0..2 /\ Chances(k)' <= Chances(k)
           /\ Sends(k) /\ asks[k] = k => Chances(k)' + 1 <= Chances(k)
  <1>1. /\ MayRetry(k)' => MayRetry(k)
        /\ MaySend(k)' => MaySend(k) \/ (MayRetry(k) /\ ~MayRetry(k)')
        /\ Sends(k) /\ asks[k] = k => MaySend(k) /\ ~MaySend(k)'
    BY ChancesMove
  <1> QED
    BY <1>1 DEF Chances

LEMMA BudgetInit == Init => BudgetInv
  <1> SUFFICES ASSUME Init, NEW k \in Call
               PROVE  /\ IsFiniteSet(InFlight(k))
                      /\ executed[k] + Cardinality(InFlight(k)) + Chances(k) <= Budget(k)
    BY DEF BudgetInv
  <1>1. InFlight(k) = {}
    BY RangeEmpty DEF Init, ClientInit, WireInit, D!ServedInit, InFlight, Carries
  <1>2. executed[k] = 0 /\ Chances(k) <= Budget(k) /\ Chances(k) \in 0..2 /\ Budget(k) \in 1..2
    BY DEF Init, ClientInit, D!ServedInit, Chances, Budget, MaySend, MayRetry
  <1> QED
    BY <1>1, <1>2, FS_EmptySet

LEMMA BudgetNext ==
    ASSUME TypeInv, ApartInv, BudgetInv, [Next]_vars
    PROVE  BudgetInv'
  <1> SUFFICES ASSUME NEW k \in Call
               PROVE  /\ IsFiniteSet(InFlight(k))'
                      /\ (executed[k] + Cardinality(InFlight(k)) + Chances(k) <= Budget(k))'
    BY DEF BudgetInv
  <1> DEFINE F == InFlight(k)
             G == InFlight(k)'
  <1>0. /\ IsFiniteSet(F) /\ executed[k] + Cardinality(F) + Chances(k) <= Budget(k)
        /\ executed[k] \in Nat /\ Cardinality(F) \in Nat /\ Budget(k)' = Budget(k)
        /\ Budget(k) \in Nat
    BY FS_CardinalityType DEF BudgetInv, TypeInv, ServedTyped, Budget
  <1>1. /\ Chances(k) \in 0..2 /\ Chances(k)' \in 0..2 /\ Chances(k)' <= Chances(k)
        /\ Sends(k) /\ asks[k] = k => Chances(k)' + 1 <= Chances(k)
    BY ChancesLess
  <1>2. CASE executed'[k] = executed[k] /\ G \subseteq F
    <2>1. IsFiniteSet(G) /\ Cardinality(G) \in Nat /\ Cardinality(G) <= Cardinality(F)
      BY <1>0, <1>2, FS_Subset, FS_CardinalityType
    <2> HIDE DEF F, G
    <2>2. executed'[k] + Cardinality(G) + Chances(k)' <= Budget(k)'
      BY <1>0, <1>1, <1>2, <2>1
    <2> QED
      BY <2>1, <2>2 DEF G
  <1>3. CASE /\ Sends(k) /\ asks[k] = k /\ executed'[k] = executed[k]
             /\ G \subseteq F \cup {<<use[k], id[k]>>}
    <2> DEFINE H == F \cup {<<use[k], id[k]>>}
    <2> HIDE DEF F
    <2>0. ASSUME NEW x
          PROVE  IsFiniteSet(F \cup {x}) /\ Cardinality(F \cup {x}) <= Cardinality(F) + 1
      <3>1. /\ IsFiniteSet(F \cup {x})
            /\ Cardinality(F \cup {x}) =
                 IF x \in F THEN Cardinality(F) ELSE Cardinality(F) + 1
        BY <1>0, FS_AddElement, Zenon
      <3> QED
        BY <1>0, <3>1
    <2>1. IsFiniteSet(H) /\ Cardinality(H) \in Nat /\ Cardinality(H) <= Cardinality(F) + 1
      BY <2>0, FS_CardinalityType
    <2>2. IsFiniteSet(G) /\ Cardinality(G) \in Nat /\ Cardinality(G) <= Cardinality(H)
      BY <1>3, <2>1, FS_Subset, FS_CardinalityType
    <2> HIDE DEF F, G, H
    <2>3. executed'[k] + Cardinality(G) + Chances(k)' <= Budget(k)'
      BY <1>0, <1>1, <1>3, <2>1, <2>2
    <2> QED
      BY <2>2, <2>3 DEF G
  <1>4. ASSUME NEW t \in tasks, executed'[k] = executed[k] + 1, <<t.conn, t.id>> \in F,
               G \subseteq F \ {<<t.conn, t.id>>}
        PROVE  IsFiniteSet(G) /\ executed'[k] + Cardinality(G) + Chances(k)' <= Budget(k)'
    <2> DEFINE H == F \ {<<t.conn, t.id>>}
    <2>1. IsFiniteSet(H) /\ Cardinality(H) \in Nat /\ Cardinality(H) = Cardinality(F) - 1
      BY <1>0, <1>4, FS_RemoveElement, FS_CardinalityType
    <2>2. IsFiniteSet(G) /\ Cardinality(G) \in Nat /\ Cardinality(G) <= Cardinality(H)
      BY <1>4, <2>1, FS_Subset, FS_CardinalityType
    <2> HIDE DEF F, G, H
    <2> QED
      BY <1>0, <1>1, <1>4, <2>1, <2>2
  <1> QED
    BY <1>2, <1>3, <1>4, FlightMoves

\* What the budget leaves to a call that is not retry-safe.
LEMMA OneRun ==
    ASSUME TypeInv, BudgetInv, NEW k \in Call
    PROVE  /\ executed[k] <= Budget(k)
           /\ InFlight(k) # {} => executed[k] < Budget(k)
           /\ k \notin Retryable /\ Chances(k) = 1 => executed[k] = 0 /\ InFlight(k) = {}
           /\ k \notin Retryable /\ InFlight(k) # {} =>
                executed[k] = 0 /\ Chances(k) = 0 /\ \E x : InFlight(k) = {x}
  <1>1. /\ IsFiniteSet(InFlight(k)) /\ Cardinality(InFlight(k)) \in Nat /\ executed[k] \in Nat
        /\ executed[k] + Cardinality(InFlight(k)) + Chances(k) <= Budget(k)
        /\ Chances(k) \in 0..2 /\ Budget(k) \in 1..2 /\ (k \notin Retryable => Budget(k) = 1)
    BY FS_CardinalityType DEF BudgetInv, TypeInv, ServedTyped, Budget, Chances
  <1>2. Cardinality(InFlight(k)) = 0 <=> InFlight(k) = {}
    BY <1>1, FS_EmptySet
  <1>3. Cardinality(InFlight(k)) = 1 => \E x : InFlight(k) = {x}
    BY <1>1, FS_Singleton
  <1> QED
    BY <1>1, <1>2, <1>3

----------------------------------------------------------------------------
(* Results are real                                                         *)

LEMMA RunsGrow ==
    ASSUME TypeInv, ApartInv, [Next]_vars, NEW k \in Call, executed[k] > 0
    PROVE  executed'[k] > 0
  <1>1. executed[k] \in Nat
    BY DEF TypeInv, ServedTyped
  <1>2. executed'[k] = executed[k] \/ executed'[k] = executed[k] + 1
    BY FlightMoves
  <1> QED
    BY <1>1, <1>2

\* What a call hears: its own answer, that nobody could be reached, or no answer.
LEMMA ResultMoves ==
    ASSUME TypeInv, [Next]_vars, NEW k \in Call
    PROVE  \/ result'[k] \in {result[k], None, "disconnected", "timeout"}
           \/ /\ pc[k] = "wait" /\ result'[k] = reply[k].status
              /\ reply[k] \in Answers
              /\ reply[k].status = "ok" => asks[k] # Auth
              /\ asks[k] = Auth => pc'[k] = "done"
           \/ pc[k] = "connect" /\ pc'[k] = "done" /\ result'[k] = "unreachable"
  <1>1. CASE ClientSteps(k)
    <2> USE DEF TypeInv, CallsTyped, Goto
    <2>1. ASSUME NEW r, Return(k, r) PROVE result'[k] = r /\ pc'[k] = "done"
      BY <2>1 DEF Return
    <2>2. ASSUME NEW r, Fail(k, r)
          PROVE  result'[k] = r /\ (asks[k] = Auth => pc'[k] = "done")
      BY <2>1, <2>2 DEF Fail
    <2>3. CASE ReceiveOk(k)
      <3>1. /\ pc[k] = "wait" /\ reply[k].status = "ok" /\ reply[k] \in Answers
        BY <2>3, ReplyFields DEF ReceiveOk, Received
      <3>2. UNCHANGED result \/ (asks[k] # Auth /\ result'[k] = "ok")
        BY <2>1, <2>3 DEF ReceiveOk
      <3> QED
        BY <3>1, <3>2
    <2>4. CASE ReceiveError(k)
      <3>1. /\ pc[k] = "wait" /\ reply[k].status # "ok"
            /\ result'[k] = reply[k].status /\ (asks[k] = Auth => pc'[k] = "done")
        BY <2>2, <2>4 DEF ReceiveError, Received
      <3>2. reply[k] \in Answers \/ reply[k].status = "disconnected"
        BY <2>4, ReplyFields DEF ReceiveError, Received
      <3> QED
        BY <3>1, <3>2
    <2>5. CASE ConnectFails(k)
      BY <2>1, <2>5 DEF ConnectFails
    <2>6. CASE CheckLost(k) \/ SendFails(k) \/ Timeout(k)
      BY <2>2, <2>6 DEF CheckLost, SendFails, Timeout
    <2>7. CASE Clear(k)
      BY <2>1, <2>7 DEF Clear
    <2>8. CASE Look(k) \/ Resolve(k) \/ Publish(k) \/ Check(k) \/ Pend(k) \/ Send(k)
      BY <2>8 DEF Look, Resolve, Publish, Check, Pend, Send
    <2> QED
      BY <1>1, <2>3, <2>4, <2>5, <2>6, <2>7, <2>8 DEF ClientSteps, CallStep
  <1>2. CASE \E j \in Call \ {k} : ClientSteps(j)
    BY <1>2, CallMoves DEF Alone
  <1>3. CASE \A j \in Call : ~ClientSteps(j)
    <2>1. ASSUME NEW j \in Call, NEW c \in Conn, Connects(j, c) PROVE UNCHANGED result
      BY <2>1 DEF Connects, Connect
    <2> QED
      BY <1>3, <2>1, OthersMove
  <1> QED
    BY <1>1, <1>2, <1>3

\* An answer handed over comes from the connection it was read on.
LEMMA ReplySource ==
    ASSUME TypeInv, [Next]_vars, NEW k \in Call, reply'[k] \in Answers
    PROVE  \/ reply'[k] = reply[k]
           \/ \E c \in Conn : \E a \in Range(down[c]) :
                reply'[k].method = a.method /\ reply'[k].status = a.status
  <1>1. CASE reply'[k] \in {reply[k], NoReply, Disconnected}
    BY <1>1, ReplyFields
  <1>2. ASSUME NEW c \in Conn, Read(c)
        PROVE  \/ reply'[k] = reply[k]
               \/ \E a \in Range(down[c]) :
                    reply'[k].method = a.method /\ reply'[k].status = a.status
    <2>1. Head(down[c]) \in Range(down[c])
      <3>1. down[c] \in Seq(DaemonAnswers) /\ down[c] # << >>
        BY <1>2 DEF Read, TypeInv, ServedTyped
      <3> QED
        BY <3>1, RangeTail
    <2>2. CASE UNCHANGED reply
      BY <2>2
    <2>3. ASSUME NEW e \in Awaiting(c),
                 reply' = [reply EXCEPT ![e.call] =
                     [method |-> Head(down[c]).method, status |-> Head(down[c]).status]]
          PROVE  \/ reply'[k] = reply[k]
                 \/ \E a \in Range(down[c]) :
                      reply'[k].method = a.method /\ reply'[k].status = a.status
      <3>1. CASE e.call = k
        BY <2>1, <2>3, <3>1 DEF TypeInv, CallsTyped
      <3>2. CASE e.call # k
        BY <2>3, <3>2 DEF TypeInv, CallsTyped
      <3> QED
        BY <3>1, <3>2
    <2> QED
      BY <1>2, <2>2, <2>3 DEF Read
  <1> QED
    BY <1>1, <1>2, ReplyMoves

LEMMA OkNext ==
    ASSUME TypeInv, ApartInv, ReplyInv, OkInv, [Next]_vars
    PROVE  OkInv'
  <1>0. /\ \A k \in Call : executed[k] > 0 => executed'[k] > 0
        /\ Auth \notin Call /\ TaskFrame
    BY RunsGrow, SettingFields, Frame
  <1>1. ASSUME NEW c \in Conn, NEW a \in Range(outq'[c]), a.status = "ok", a.method \in Call
        PROVE  executed'[a.method] > 0
    <2>1. CASE a \in Range(outq[c])
      BY <1>0, <1>1, <2>1 DEF OkInv
    <2>2. ASSUME NEW t \in tasks, t.stage = "ran", a.method = t.method
          PROVE  executed'[a.method] > 0
      BY <1>0, <1>1, <2>2 DEF OkInv
    <2> QED
      BY <1>0, <1>1, <2>1, <2>2, Frame DEF ReplyFrame
  <1>2. ASSUME NEW c \in Conn, NEW a \in Range(down'[c]), a.status = "ok", a.method \in Call
        PROVE  executed'[a.method] > 0
    <2>1. a \in Range(down[c]) \cup Range(outq[c])
      BY Frame DEF ReplyFrame
    <2> QED
      BY <1>0, <1>2, <2>1 DEF OkInv
  <1>3. ASSUME NEW t \in tasks', t.stage = "ran", t.method \in Call
        PROVE  executed'[t.method] > 0
    <2>1. CASE t \in tasks
      BY <1>0, <1>3, <2>1 DEF OkInv
    <2>2. ASSUME NEW u \in tasks, D!Execute(u), t.method = u.method PROVE executed'[t.method] > 0
      BY <1>0, <1>3, <2>2 DEF D!Execute, TypeInv, ServedTyped
    <2> QED
      BY <1>0, <1>3, <2>1, <2>2 DEF TaskFrame
  <1>4. ASSUME NEW k \in Call, reply'[k] \in Answers, reply'[k].status = "ok",
               reply'[k].method \in Call
        PROVE  executed'[reply'[k].method] > 0
    BY <1>0, <1>4, ReplySource DEF OkInv
  <1>5. ASSUME NEW k \in Call, result'[k] = "ok" PROVE executed'[k] > 0
    <2>1. CASE result[k] = "ok"
      BY <1>0, <2>1 DEF OkInv
    <2>2. CASE /\ pc[k] = "wait" /\ reply[k].status = "ok" /\ reply[k] \in Answers
               /\ asks[k] # Auth
      <3>1. reply[k].method = asks[k] /\ asks[k] = k
        BY <2>2 DEF ReplyInv, TypeInv, Located, InCall
      <3> QED
        BY <1>0, <2>2, <3>1 DEF OkInv
    <2> QED
      BY <1>5, <2>1, <2>2, ResultMoves, ClientNames
  <1> QED
    BY <1>1, <1>2, <1>3, <1>4, <1>5 DEF OkInv

----------------------------------------------------------------------------
(* Who is told that nothing was sent may try again                          *)

\* A call that has not run and cannot run does not come back.
LEMMA IdleNext ==
    ASSUME TypeInv, ApartInv, [Next]_vars, NEW k \in Call,
           executed[k] = 0, InFlight(k) = {}, pc[k] # "send", Chances(k)' = 0
    PROVE  Idle(k)'
  <1>1. ~Sends(k)
    BY DEF Sends
  <1> QED
    BY <1>1, FlightMoves DEF Idle

LEMMA IdleStays ==
    ASSUME TypeInv, ApartInv, [Next]_vars, NEW k \in Call, Idle(k)
    PROVE  Idle(k)'
  <1>1. pc[k] # "send"
    BY DEF Idle, Chances, MaySend
  <1>2. Chances(k)' = 0
    BY ChancesLess DEF Idle
  <1> QED
    BY <1>1, <1>2, IdleNext DEF Idle

\* A daemon refuses the only request of a call: that is the end of it.
LEMMA RefusedIsIdle ==
    ASSUME TypeInv, ApartInv, BudgetInv, [Next]_vars, NEW k \in Call \ Retryable, NEW c \in Conn,
           D!Refuse(c), UNCHANGED queue, Head(up[c]).method = k
    PROVE  Idle(k)'
  <1>0. PICK l, x : l = Head(up[c]) /\ x = <<c, l.id>>
    OBVIOUS
  <1>1. /\ up[c] # << >> /\ up'[c] = Tail(up[c]) /\ UNCHANGED tasks /\ up[c] \in Seq(Requests)
    BY DEF D!Refuse, D!Reads, TypeInv, ServedTyped
  <1>2. /\ l \in Requests /\ l \in Range(up[c]) /\ Range(up'[c]) \subseteq Range(up[c])
        /\ \A m \in Range(up'[c]) : m.id # l.id
    BY <1>0, <1>1, RangeTail, DistinctTail DEF ApartInv, ApartAt
  <1>3. l.id \in Nat /\ l.method = k
    BY <1>0, <1>2 DEF Requests
  <1>4. x \in InFlight(k)
    BY <1>0, <1>2, <1>3 DEF InFlight, Carries
  <1>5. executed[k] = 0 /\ Chances(k) = 0 /\ InFlight(k) = {x}
    BY <1>4, OneRun
  <1>6. ~Carries(x, k)'
    <2>1. ApartAt(c)
      BY DEF ApartInv
    <2> QED
      BY <1>0, <1>1, <1>2, <2>1 DEF Carries, ApartAt
  <1>7. ~Sends(k) /\ Chances(k)' = 0
    BY <1>5, ChancesLess DEF Sends, Chances, MaySend
  <1>8. executed'[k] = 0 /\ InFlight(k)' \subseteq InFlight(k)
    <2>1. ASSUME NEW t \in tasks, Runs(t) PROVE FALSE
      <3>1. PICK n : tasks' = (tasks \ {t}) \cup {n} /\ n.stage = "ran" /\ t.stage = "waiting"
        BY <2>1 DEF Runs
      <3> QED
        BY <1>1, <3>1
    <2> QED
      BY <1>5, <1>7, <2>1, FlightMoves
  <1>9. InFlight(k)' = {}
    BY <1>5, <1>6, <1>8 DEF InFlight
  <1> QED
    BY <1>7, <1>8, <1>9 DEF Idle

LEMMA UnsentNext ==
    ASSUME TypeInv, ApartInv, BudgetInv, ReplyInv, UnsentInv, [Next]_vars
    PROVE  UnsentInv'
  <1> SUFFICES ASSUME NEW k \in Call \ Retryable, ToldUnsent(k)' PROVE Idle(k)'
    BY DEF UnsentInv
  <1>0. ToldUnsent(k) => Idle(k)'
    BY IdleStays DEF UnsentInv
  <1>1. CASE result'[k] \in {"unreachable", "refused"}
    <2>1. CASE result'[k] = result[k]
      BY <1>0, <1>1, <2>1 DEF ToldUnsent
    <2>2. ASSUME pc[k] = "connect" \/ (pc[k] = "wait" /\ asks[k] = Auth), pc'[k] = "done"
          PROVE  Idle(k)'
      <3>1. Chances(k) = 1 /\ Chances(k)' = 0 /\ pc[k] # "send"
        BY <2>2 DEF Chances, MaySend, MayRetry
      <3> QED
        BY <3>1, OneRun, IdleNext
    <2>3. CASE pc[k] = "wait" /\ asks[k] # Auth /\ reply[k] \in Answers
               /\ result'[k] = reply[k].status
      <3>1. reply[k].method = k /\ reply[k].status = "refused"
        BY <1>1, <2>3, ReplyFields DEF ReplyInv, TypeInv, Located, InCall
      <3>2. reply[k] = [method |-> k, status |-> "refused"]
        BY <2>3, <3>1 DEF Answers
      <3> QED
        BY <1>0, <3>2 DEF ToldUnsent
    <2> QED
      BY <1>1, <2>1, <2>2, <2>3, ResultMoves, ClientNames
  <1>2. ASSUME NEW c \in Conn, NEW a \in Range(outq'[c]), a.method = k, a.status = "refused"
        PROVE  Idle(k)'
    <2>1. CASE a \in Range(outq[c])
      BY <1>0, <1>2, <2>1 DEF ToldUnsent
    <2>2. CASE D!Refuse(c) /\ UNCHANGED queue /\ Head(up[c]).method = k
      BY <2>2, RefusedIsIdle
    <2>3. \A t \in tasks : t.status # "refused"
      BY DEF TypeInv, ServedTyped, Tasks
    <2> QED
      BY <1>2, <2>1, <2>2, <2>3, Frame DEF ReplyFrame
  <1>3. ASSUME NEW c \in Conn, NEW a \in Range(down'[c]), a.method = k, a.status = "refused"
        PROVE  Idle(k)'
    <2>1. a \in Range(down[c]) \cup Range(outq[c])
      BY Frame DEF ReplyFrame
    <2> QED
      BY <1>0, <1>3, <2>1 DEF ToldUnsent
  <1>4. ASSUME NEW j \in Call, reply'[j] = [method |-> k, status |-> "refused"]
        PROVE  Idle(k)'
    <2>1. reply'[j] \in Answers /\ reply'[j].method = k /\ reply'[j].status = "refused"
      BY <1>4 DEF Answers
    <2>2. CASE reply'[j] = reply[j]
      BY <1>0, <1>4, <2>2 DEF ToldUnsent
    <2>3. CASE \E c \in Conn : \E a \in Range(down[c]) :
                 reply'[j].method = a.method /\ reply'[j].status = a.status
      BY <1>0, <2>1, <2>3 DEF ToldUnsent
    <2> QED
      BY <2>1, <2>2, <2>3, ReplySource
  <1> QED
    BY <1>1, <1>2, <1>3, <1>4 DEF ToldUnsent

LEMMA ResultInit == Init => OkInv /\ UnsentInv
  BY RangeEmpty, ClientNames, SettingFields, ReplyFields
     DEF Init, ClientInit, WireInit, D!ServedInit, OkInv, UnsentInv, ToldUnsent, NoReply

LEMMA RunsSound == Spec => [](AnswerInv /\ RunsInv)
  <1>1. Init => RunsInv
    BY ApartInit, BudgetInit, ResultInit DEF RunsInv
  <1>2. AnswerInv /\ RunsInv /\ [Next]_vars => RunsInv'
    BY ApartNext, BudgetNext, OkNext, UnsentNext DEF RunsInv, AnswerInv, TableInv
  <1> QED
    BY <1>1, <1>2, AnswersSound, PTL DEF Spec

\* What a call returns says what became of it (call_remote's results and its
\* retry after a disconnection), for any number of calls, connections and faults:
\* "ok" only for what has run; nothing runs twice but what is retry-safe, and
\* that at most twice; what was refused, or found nobody to send to, has not run.
THEOREM ResultsSayWhatRan == Spec => []ResultsTellWhatRan
  <1>1. ASSUME AnswerInv, RunsInv PROVE ResultsTellWhatRan
    <2>1. ResultsAreReal
      BY <1>1 DEF RunsInv, OkInv, ResultsAreReal
    <2>2. NotRepeated
      BY <1>1, OneRun DEF AnswerInv, RunsInv, NotRepeated, Budget
    <2>3. UnsentNeverRuns
      BY <1>1 DEF RunsInv, UnsentInv, ToldUnsent, Idle, UnsentNeverRuns
    <2> QED
      BY <2>1, <2>2, <2>3 DEF ResultsTellWhatRan
  <1> QED
    BY <1>1, RunsSound, PTL

----------------------------------------------------------------------------
(* The channel                                                              *)

\* What the sender of call k has been told.
told == [k \in Call |-> IF pc[k] = "done" THEN result[k] ELSE None]

\* A call that has returned stays so; one that returns does that alone.
LEMMA DoneStays ==
    ASSUME TypeInv, [Next]_vars, NEW k \in Call
    PROVE  /\ pc[k] = "done" => pc'[k] = "done" /\ result'[k] = result[k]
           /\ pc[k] # "done" /\ pc'[k] = "done" => ClientSteps(k)
  <1>1. CASE ClientSteps(k)
    <2>1. pc[k] # "done"
      BY <1>1 DEF ClientSteps, CallStep, Look, Resolve, ConnectFails, Publish, Check, CheckLost,
             Pend, Send, SendFails, ReceiveOk, ReceiveError, Timeout, Clear, Received
    <2> QED
      BY <1>1, <2>1
  <1>2. CASE \E j \in Call \ {k} : ClientSteps(j)
    BY <1>2, CallMoves DEF Alone
  <1>3. CASE \A j \in Call : ~ClientSteps(j)
    <2>1. ASSUME NEW c \in Conn, Connects(k, c)
          PROVE  pc[k] = "connect" /\ pc'[k] # "done"
      BY <2>1 DEF Connects, Connect, Goto, AfterConnect, TypeInv, CallsTyped
    <2> QED
      BY <1>3, <2>1, OthersMove DEF Alone
  <1> QED
    BY <1>1, <1>2, <1>3

LEMMA ChannelInit == Init => Channel!Init
  <1>1. Init => executed = [k \in Call |-> 0] /\ \A k \in Call : pc[k] # "done"
    BY DEF Init, ClientInit, D!ServedInit
  <1> QED
    BY <1>1 DEF Channel!Init

LEMMA ChannelNext ==
    ASSUME AnswerInv, RunsInv, AnswerInv', RunsInv', [Next]_vars
    PROVE  Channel!Next \/ UNCHANGED <<executed, told>>
  <1>0. TypeInv /\ TypeInv'
    BY DEF AnswerInv
  <1>1. ASSUME NEW k \in Call, pc[k] # "done", pc'[k] = "done"
        PROVE  Channel!Next
    <2>1. ClientSteps(k)
      BY <1>0, <1>1, DoneStays
    <2>2. UNCHANGED executed
      BY <2>1 DEF ClientSteps, served
    <2>3. told[k] = None /\ told' = [told EXCEPT ![k] = result'[k]]
      BY <1>0, <1>1, <2>1, CallMoves DEF told, Alone
    <2>4. PICK r : r = result'[k]
      OBVIOUS
    <2>5. CASE r = "ok"
      <3>1. executed[k] > 0 /\ Channel!Tell(k, "ok")
        BY <2>2, <2>3, <2>4, <2>5 DEF RunsInv, OkInv, Channel!Tell, told
      <3> QED
        BY <3>1 DEF Channel!Next, Channel!Settle, Channel!Succeed
    <2>6. CASE r \in {"unreachable", "refused"}
      <3>1. k \in Retryable \/ executed[k] = 0
        BY <2>2, <2>4, <2>6 DEF RunsInv, UnsentInv, ToldUnsent, Idle
      <3>2. Channel!Tell(k, r)
        BY <2>2, <2>3, <2>4 DEF Channel!Tell, told
      <3> QED
        BY <2>6, <3>1, <3>2 DEF Channel!Next, Channel!Settle, Channel!Fail, Channel!NotSent
    <2>7. CASE r \in {"error", "disconnected", "timeout"}
      <3>1. Channel!Tell(k, r)
        BY <2>2, <2>3, <2>4 DEF Channel!Tell, told
      <3> QED
        BY <2>7, <3>1 DEF Channel!Next, Channel!Settle, Channel!Fail, Channel!Unknown
    <2>8. result'[k] \in Results \ {None}
      BY <1>0, <1>1 DEF TypeInv, CallsTyped, Located
    <2> QED
      BY <2>4, <2>5, <2>6, <2>7, <2>8 DEF Results
  <1>2. ASSUME \A k \in Call : pc'[k] = "done" => pc[k] = "done"
        PROVE  Channel!Next \/ UNCHANGED <<executed, told>>
    <2>1. UNCHANGED told
      BY <1>0, <1>2, DoneStays DEF told
    <2>2. ASSUME NEW t \in tasks, Runs(t)
          PROVE  Channel!Next \/ UNCHANGED executed
      <3>1. CASE t.method = Auth
        BY <2>2, <3>1 DEF Runs
      <3>2. CASE t.method # Auth
        <4> DEFINE k == t.method
        <4>1. k \in Call /\ t.conn \in Conn /\ t.id \in Nat
          BY <1>0, <3>2 DEF TypeInv, ServedTyped, Tasks, Methods
        <4>2. <<t.conn, t.id>> \in InFlight(k)
          BY <2>2, <4>1 DEF InFlight, Carries, Runs
        <4>3. executed' = [executed EXCEPT ![k] = @ + 1]
          BY <2>2, <3>2 DEF Runs
        <4> HIDE DEF k
        <4>4. executed[k] < Budget(k) /\ (k \notin Retryable => executed[k] = 0)
          BY <1>0, <4>1, <4>2, OneRun DEF RunsInv
        <4>5. k \notin Retryable => told[k] \notin Channel!NotSent
          <5>1. k \notin Retryable => result[k] \notin {"unreachable", "refused"}
            BY <4>1, <4>2 DEF RunsInv, UnsentInv, ToldUnsent, Idle
          <5> QED
            BY <4>1, <5>1, ClientNames DEF told, Channel!NotSent
        <4>6. Channel!MayRun(k)
          BY <4>1, <4>4, <4>5 DEF Channel!MayRun, Budget, told
        <4>7. Channel!Run(k)
          BY <2>1, <4>3, <4>6 DEF Channel!Run, told
        <4> QED
          BY <4>1, <4>7 DEF Channel!Next
      <3> QED
        BY <3>1, <3>2
    <2>3. UNCHANGED executed \/ \E t \in tasks : Runs(t)
      BY <1>0, LineMoves DEF Dwindle, Sends, Writes, Receives
    <2> QED
      BY <2>1, <2>2, <2>3
  <1> QED
    BY <1>1, <1>2

\* Remote mode (RemoteBackend and DaemonConnection) implements RpcChannel, the
\* safety part of ImplementsFairChannel: whatever connections, faults and
\* settings updates are behind it, a call is run and its sender told as there.
THEOREM ImplementsChannel == Spec => Channel!Spec
  <1>1. AnswerInv /\ RunsInv /\ (AnswerInv /\ RunsInv)' /\ [Next]_vars
          => [Channel!Next]_(Channel!channelVars)
    BY ChannelNext DEF Channel!channelVars, told
  <1> QED
    BY <1>1, ChannelInit, RunsSound, PTL DEF Spec, Channel!Spec

==============================================================================
