-------------------------- MODULE RemoteSystemProofs --------------------------
(***************************************************************************)
(* Theorems about RemoteSystem, for any number of calls, connections and   *)
(* daemons, any queue length and any number of faults.                     *)
(***************************************************************************)
EXTENDS RemoteSystem, Functions, TLAPS

Methods == Call \cup {Auth}
DaemonAnswers == [id : Nat, method : Methods, status : {"ok", "error", "refused"}]
Tasks == {t \in [conn : Conn, id : Nat, method : Methods,
                 stage : {"waiting", "ran"}, status : {"none", "ok", "error"}] :
             t.stage = "ran" => t.status # "none"}
Results == {None, "ok", "error", "refused", "disconnected", "timeout", "unreachable"}
Labels == {"look", "resolve", "connect", "publish", "check", "pend",
           "send", "wait", "clear", "done"}

----------------------------------------------------------------------------
(* Types                                                                    *)

CallsTyped ==
    /\ pc \in [Call -> Labels]
    /\ attempt \in [Call -> 1..2]
    /\ cfg \in [Call -> Setting \cup {None}]
    /\ use \in [Call -> Conn \cup {None}]
    /\ first \in [Call -> Conn \cup {None}]
    /\ asks \in [Call -> Methods \cup {None}]
    /\ id \in [Call -> Nat]
    /\ reply \in [Call -> Answers \cup {NoReply, Disconnected}]
    /\ result \in [Call -> Results]
    /\ late \subseteq Call

ClientTyped ==
    /\ settings \in Setting /\ resetting \in BOOLEAN
    /\ cached \in Conn \cup {None}
    /\ target \in [Conn -> Setting \cup {None}]
    /\ connected \in [Conn -> BOOLEAN]
    /\ pending \in [Conn -> SUBSET [id : Nat, call : Call]]
    /\ nextId \in [Conn -> Nat]
    /\ queue \in [Conn -> Seq(Requests)]
    /\ writing \in [Conn -> BOOLEAN] /\ reading \in [Conn -> BOOLEAN]
    /\ overtaken \subseteq Conn

ServedTyped ==
    /\ up \in [Conn -> Seq(Requests)] /\ down \in [Conn -> Seq(DaemonAnswers)]
    /\ broken \in [Conn -> BOOLEAN] /\ closed \in [Conn -> BOOLEAN]
    /\ authed \in [Conn -> BOOLEAN]
    /\ tasks \subseteq Tasks
    /\ outq \in [Conn -> Seq(DaemonAnswers)]
    /\ executed \in [Call -> Nat]
    /\ events \in Nat

\* The labels of RemoteBackend::call between taking an id and its answer.
InCall == {"pend", "send", "wait"}

\* What the types leave open: which locals are set at which label.
Located ==
    /\ \A k \in Call :
         /\ pc[k] \in InCall \cup {"check"} => use[k] \in Conn /\ asks[k] \in {k, Auth}
         /\ pc[k] = "publish" => use[k] \in Conn /\ asks[k] = Auth
         /\ pc[k] = "clear" =>
              /\ use[k] \in Conn /\ asks[k] = k
              /\ result[k] \in {"error", "refused", "disconnected", "timeout"}
         /\ pc[k] \in {"look", "resolve", "connect", "done"} => use[k] = None
         /\ pc[k] = "connect" => cfg[k] \in Setting
         /\ use[k] \in Conn /\ asks[k] = Auth =>
              cfg[k] \in Setting /\ target[use[k]] = cfg[k]
         /\ use[k] \in Conn => target[use[k]] \in Setting
         /\ pc[k] \notin {"clear", "done"} => result[k] = None
         /\ pc[k] = "done" => result[k] # None
    /\ cached \in Conn => target[cached] \in Setting

\* Nothing is there of a connection that has not been made.
Unmade ==
    \A c \in Conn : target[c] = None =>
        /\ ~writing[c] /\ ~reading[c] /\ ~connected[c] /\ ~broken[c] /\ ~closed[c]
        /\ pending[c] = {} /\ queue[c] = << >> /\ up[c] = << >>
        /\ down[c] = << >> /\ outq[c] = << >>
        /\ \A t \in tasks : t.conn # c

TypeInv == CallsTyped /\ ClientTyped /\ ServedTyped /\ Located /\ Unmade

----------------------------------------------------------------------------
(* Requests and their answers                                               *)

\* An id is taken once per connection.
IdsInv ==
    \A k \in Call : pc[k] \in InCall =>
        /\ id[k] < nextId[use[k]]
        /\ \A j \in Call \ {k} : pc[j] \in InCall /\ use[j] = use[k] => id[j] # id[k]

\* Whoever waits on c for id i asked for m.
Asked(c, i, m) ==
    /\ i < nextId[c]
    /\ \A k \in Call : pc[k] \in InCall /\ use[k] = c /\ id[k] = i => asks[k] = m

\* ... and that is so for everything that is under way.
TrafficInv ==
    /\ \A c \in Conn :
         /\ \A l \in Range(queue[c]) : Asked(c, l.id, l.method)
         /\ \A l \in Range(up[c]) : Asked(c, l.id, l.method)
         /\ \A a \in Range(outq[c]) : Asked(c, a.id, a.method)
         /\ \A a \in Range(down[c]) : Asked(c, a.id, a.method)
    /\ \A t \in tasks : Asked(t.conn, t.id, t.method)

ReplyInv ==
    \A k \in Call : pc[k] \in InCall /\ reply[k] \in Answers => reply[k].method = asks[k]

\* A call that has asked and not been told has an entry in pending, on a
\* connection not drained since, or came too late for the drain.
WaitInv ==
    \A k \in Call : pc[k] \in {"send", "wait"} /\ reply[k] = NoReply /\ k \notin late =>
        connected[use[k]] /\ [id |-> id[k], call |-> k] \in pending[use[k]]

\* What has an entry in pending, or is about to get one, has not been told.
EntryInv ==
    /\ \A c \in Conn : \A e \in pending[c] : reply[e.call] = NoReply
    /\ \A k \in Call : pc[k] = "pend" => reply[k] = NoReply

TableInv == ReplyInv /\ NoForgottenRequest /\ EntryInv /\ WaitInv

AnswerInv == TypeInv /\ IdsInv /\ TrafficInv /\ TableInv

----------------------------------------------------------------------------
(* Sequences and records                                                    *)

LEMMA RangeEmpty == Range(<< >>) = {}
  BY DEF Range

LEMMA RangeIn ==
    ASSUME NEW S, NEW s \in Seq(S)
    PROVE  Range(s) \subseteq S
  BY DEF Range

\* What is appended comes to what was there.
LEMMA RangeAppend ==
    ASSUME NEW S, NEW s \in Seq(S), NEW x \in S
    PROVE  Append(s, x) \in Seq(S) /\ Range(Append(s, x)) = Range(s) \cup {x}
  <1>1. Append(s, x) \in Seq(S) /\ Len(Append(s, x)) = Len(s) + 1
    OBVIOUS
  <1>2. \A i \in 1..Len(s) : Append(s, x)[i] = s[i]
    OBVIOUS
  <1>3. Append(s, x)[Len(s) + 1] = x
    OBVIOUS
  <1>4. ASSUME NEW y \in Range(Append(s, x)) PROVE y \in Range(s) \cup {x}
    <2>1. PICK i \in 1..(Len(s) + 1) : y = Append(s, x)[i]
      BY <1>1 DEF Range
    <2> QED
      BY <1>2, <1>3, <2>1 DEF Range
  <1>5. ASSUME NEW y \in Range(s) \cup {x} PROVE y \in Range(Append(s, x))
    <2>1. CASE y = x
      BY <1>1, <1>3, <2>1 DEF Range
    <2>2. CASE y \in Range(s)
      BY <1>1, <1>2, <2>2 DEF Range
    <2> QED
      BY <2>1, <2>2
  <1> QED
    BY <1>1, <1>4, <1>5

\* A queue holds its head and its tail.
LEMMA RangeTail ==
    ASSUME NEW S, NEW s \in Seq(S), s # << >>
    PROVE  /\ Head(s) \in S /\ Tail(s) \in Seq(S)
           /\ Range(s) = Range(Tail(s)) \cup {Head(s)}
  <1>1. /\ Head(s) \in S /\ Tail(s) \in Seq(S) /\ Len(s) \in Nat \ {0}
        /\ Len(Tail(s)) = Len(s) - 1 /\ Head(s) = s[1]
    OBVIOUS
  <1>2. \A i \in 1..(Len(s) - 1) : Tail(s)[i] = s[i + 1]
    OBVIOUS
  <1>3. ASSUME NEW y \in Range(s) PROVE y \in Range(Tail(s)) \cup {Head(s)}
    <2>1. PICK i \in 1..Len(s) : y = s[i]
      BY DEF Range
    <2>2. CASE i = 1
      BY <1>1, <2>1, <2>2
    <2>3. CASE i # 1
      <3>1. i - 1 \in 1..(Len(s) - 1) /\ Tail(s)[i - 1] = y
        BY <1>1, <1>2, <2>1, <2>3
      <3>2. DOMAIN Tail(s) = 1..(Len(s) - 1)
        BY <1>1
      <3> QED
        BY <3>1, <3>2 DEF Range
    <2> QED
      BY <2>2, <2>3
  <1>4. ASSUME NEW y \in Range(Tail(s)) PROVE y \in Range(s)
    <2>1. PICK i \in 1..(Len(s) - 1) : y = Tail(s)[i]
      BY <1>1 DEF Range
    <2>2. i + 1 \in 1..Len(s) /\ s[i + 1] = y
      BY <1>1, <1>2, <2>1
    <2> QED
      BY <2>2 DEF Range
  <1>5. Head(s) \in Range(s)
    BY <1>1 DEF Range
  <1> QED
    BY <1>1, <1>3, <1>4, <1>5

LEMMA SettingFields ==
    /\ \A s \in Setting : s.host \in Host /\ s.token \in Token \cup {None}
    /\ None \notin Setting /\ None \notin Conn /\ None \notin Call
    /\ Auth # None /\ None \notin Token /\ Auth \notin Call
  BY ClientAssumption, ClientNames

LEMMA ReplyFields ==
    /\ \A a \in Answers : a # NoReply /\ a # Disconnected
    /\ NoReply # Disconnected
    /\ \A a \in Answers : a.method \in Methods /\ a.status \in {"ok", "error", "refused"}
    /\ NoReply.status = "none" /\ Disconnected.status = "disconnected"
  BY ClientNames DEF Answers, NoReply, Disconnected, Methods

LEMMA TypeInit == Init => TypeInv
  <1> SUFFICES ASSUME Init PROVE TypeInv
    OBVIOUS
  <1> USE DEF Init, ClientInit, WireInit, D!ServedInit
  <1>1. CallsTyped
    BY DEF CallsTyped, Labels, Results
  <1>2. ClientTyped
    <2>1. pending \in [Conn -> SUBSET [id : Nat, call : Call]]
      OBVIOUS
    <2>2. queue \in [Conn -> Seq(Requests)] /\ nextId \in [Conn -> Nat]
      OBVIOUS
    <2> QED
      BY <2>1, <2>2 DEF ClientTyped
  <1>3. ServedTyped
    BY DEF ServedTyped
  <1>4. Located
    BY SettingFields DEF Located, InCall
  <1>5. Unmade
    BY DEF Unmade
  <1> QED
    BY <1>1, <1>2, <1>3, <1>4, <1>5 DEF TypeInv

\* A call returns: it is nowhere, and has a result.
LEMMA TypeReturn ==
    ASSUME TypeInv, NEW k \in Call, NEW r \in Results \ {None}, Return(k, r),
           UNCHANGED <<attempt, cfg, asks, id, reply, late, target, cached>>
    PROVE  CallsTyped' /\ Located'
  <1>1. /\ pc' \in [Call -> Labels] /\ use' \in [Call -> Conn \cup {None}]
        /\ first' \in [Call -> Conn \cup {None}] /\ result' \in [Call -> Results]
    BY DEF TypeInv, CallsTyped, Return, Goto, Labels
  <1>2. CallsTyped'
    BY <1>1 DEF TypeInv, CallsTyped
  <1>3. /\ pc'[k] = "done" /\ result'[k] = r /\ use'[k] = None
        /\ \A j \in Call \ {k} : pc'[j] = pc[j] /\ result'[j] = result[j] /\ use'[j] = use[j]
    BY DEF TypeInv, CallsTyped, Return, Goto
  <1>4. Located'
    BY <1>3, SettingFields DEF TypeInv, Located, InCall
  <1> QED
    BY <1>2, <1>4

LEMMA TypeFail ==
    ASSUME TypeInv, NEW k \in Call, use[k] \in Conn, asks[k] \in {k, Auth},
           NEW r \in {"error", "refused", "disconnected", "timeout"}, Fail(k, r),
           UNCHANGED <<attempt, cfg, asks, id, reply, late, target, cached>>
    PROVE  CallsTyped' /\ Located'
  <1>1. CASE asks[k] = Auth
    <2>1. Return(k, r) /\ r \in Results \ {None}
      BY <1>1, ClientNames DEF Fail, Results
    <2> QED
      BY <2>1, TypeReturn
  <1>2. CASE asks[k] = k
    <2>1. /\ pc' = [pc EXCEPT ![k] = "clear"] /\ result' = [result EXCEPT ![k] = r]
          /\ UNCHANGED <<use, first>>
      BY <1>2, SettingFields DEF Fail, Goto
    <2>2. pc' \in [Call -> Labels] /\ result' \in [Call -> Results]
      BY <2>1 DEF TypeInv, CallsTyped, Labels, Results
    <2>3. CallsTyped'
      BY <2>1, <2>2 DEF TypeInv, CallsTyped
    <2>4. /\ pc'[k] = "clear" /\ result'[k] = r
          /\ \A j \in Call \ {k} : pc'[j] = pc[j] /\ result'[j] = result[j]
      BY <2>1 DEF TypeInv, CallsTyped
    <2>5. Located'
      BY <1>2, <2>1, <2>4, SettingFields, SMTT(20) DEF TypeInv, Located, InCall
    <2> QED
      BY <2>3, <2>5
  <1> QED
    BY <1>1, <1>2

LEMMA TypeCall ==
    ASSUME TypeInv, NEW k \in Call, ClientSteps(k)
    PROVE  TypeInv'
  <1> UNCHANGED <<served, events>>
    BY DEF ClientSteps
  <1>f. ASSUME NEW r \in {"error", "refused", "disconnected", "timeout"}, Fail(k, r),
               pc[k] \in {"check", "send", "wait"},
               UNCHANGED <<attempt, cfg, asks, id, reply, late, target, cached>>
        PROVE  CallsTyped' /\ Located'
    <2>1. use[k] \in Conn /\ asks[k] \in {k, Auth}
      BY <1>f DEF TypeInv, Located, InCall
    <2> QED
      BY <1>f, <2>1, TypeFail
  <1>w. UNCHANGED wires
    BY DEF ClientSteps, CallStep, Look, Resolve, ConnectFails, Publish, Check, CheckLost,
           Pend, Send, SendFails, ReceiveOk, ReceiveError, Timeout, Clear
  <1>s. ServedTyped'
    BY <1>w DEF TypeInv, ServedTyped, served, wires
  <1> USE SettingFields
      DEF TypeInv, CallsTyped, ClientTyped, Located, Unmade, InCall, Goto,
          served, inner, wires, caller
  <1>1. CASE Look(k)
    <2> USE <1>1 DEF Look
    <2>1. CallsTyped' /\ Located'
      <3>1. CASE cached # None
        <4>1. /\ use' = [use EXCEPT ![k] = cached] /\ asks' = [asks EXCEPT ![k] = k]
              /\ pc' = [pc EXCEPT ![k] = "check"]
          BY <3>1
        <4>2. /\ use' \in [Call -> Conn \cup {None}] /\ asks' \in [Call -> Methods \cup {None}]
              /\ pc' \in [Call -> Labels]
          BY <4>1 DEF Labels, Methods
        <4>3. Located'
          BY <3>1, <4>1
        <4> QED
          BY <4>2, <4>3
      <3>2. CASE cached = None
        <4>1. pc' = [pc EXCEPT ![k] = "resolve"] /\ UNCHANGED <<use, asks>>
          BY <3>2
        <4>2. pc' \in [Call -> Labels]
          BY <4>1 DEF Labels
        <4>3. Located'
          BY <4>1
        <4> QED
          BY <4>1, <4>2, <4>3
      <3> QED
        BY <3>1, <3>2
    <2>2. ClientTyped'
      OBVIOUS
    <2>4. Unmade'
      OBVIOUS
    <2> QED
      BY <1>s, <2>1, <2>2, <2>4
  <1>2. CASE Resolve(k)
    <2> USE <1>2 DEF Resolve
    <2>1. CallsTyped'
      BY DEF Labels, Results, Methods
    <2>2. ClientTyped'
      OBVIOUS
    <2>3. Located'
      BY SMTT(20)
    <2>4. Unmade'
      OBVIOUS
    <2> QED
      BY <1>s, <2>1, <2>2, <2>3, <2>4
  <1>3. CASE ConnectFails(k)
    <2> USE <1>3 DEF ConnectFails
    <2>1. CallsTyped' /\ Located'
      BY ClientNames, TypeReturn DEF Results
    <2>2. ClientTyped'
      OBVIOUS
    <2>4. Unmade'
      OBVIOUS
    <2> QED
      BY <1>s, <2>1, <2>2, <2>4
  <1>4. CASE Publish(k)
    <2> USE <1>4 DEF Publish
    <2>1. CallsTyped'
      BY DEF Labels, Results, Methods
    <2>2. ClientTyped'
      OBVIOUS
    <2>3. Located'
      BY SMTT(20)
    <2>4. Unmade'
      OBVIOUS
    <2> QED
      BY <1>s, <2>1, <2>2, <2>3, <2>4
  <1>5. CASE Check(k)
    <2> USE <1>5 DEF Check, IdTaken
    <2>1. CallsTyped'
      BY DEF Labels, Results, Methods
    <2>2. ClientTyped'
      OBVIOUS
    <2>3. Located'
      BY SMTT(20)
    <2>4. Unmade'
      OBVIOUS
    <2> QED
      BY <1>s, <2>1, <2>2, <2>3, <2>4
  <1>6. CASE CheckLost(k)
    <2> USE <1>6 DEF CheckLost
    <2>1. CallsTyped' /\ Located'
      BY <1>f
    <2>2. ClientTyped'
      OBVIOUS
    <2>4. Unmade'
      OBVIOUS
    <2> QED
      BY <1>s, <2>1, <2>2, <2>4
  <1>7. CASE Pend(k)
    <2> USE <1>7 DEF Pend
    <2>1. CallsTyped'
      BY DEF Labels, Results, Methods
    <2>2. ClientTyped'
      OBVIOUS
    <2>3. Located'
      BY SMTT(20)
    <2>4. Unmade'
      OBVIOUS
    <2> QED
      BY <1>s, <2>1, <2>2, <2>3, <2>4
  <1>8. CASE Send(k)
    <2> USE <1>8 DEF Send
    <2>1. CallsTyped'
      BY DEF Labels, Results, Methods
    <2>2. Line(k) \in Requests
      BY DEF Line, Requests, Methods
    <2>5. queue' \in [Conn -> Seq(Requests)]
      BY <2>2
    <2>6. ClientTyped'
      BY <2>5
    <2>3. Located'
      BY SMTT(20)
    <2>4. Unmade'
      OBVIOUS
    <2> QED
      BY <1>s, <2>1, <2>3, <2>4, <2>6
  <1>9. CASE SendFails(k)
    <2> USE <1>9 DEF SendFails, Unpend
    <2>1. CallsTyped' /\ Located'
      BY <1>f
    <2>2. pending' \in [Conn -> SUBSET [id : Nat, call : Call]]
      OBVIOUS
    <2>3. ClientTyped'
      BY <2>2
    <2>4. Unmade'
      OBVIOUS
    <2> QED
      BY <1>s, <2>1, <2>3, <2>4
  <1>10. CASE ReceiveOk(k)
    <2> USE <1>10 DEF ReceiveOk, Received
    <2>3. ClientTyped'
      OBVIOUS
    <2>4. Unmade'
      OBVIOUS
    <2>1. CASE asks[k] = Auth
      <3>1. pc' = [pc EXCEPT ![k] = "publish"] /\ UNCHANGED <<use, first, result>>
        BY <2>1
      <3>2. pc' \in [Call -> Labels]
        BY <3>1 DEF Labels
      <3>3. CallsTyped'
        BY <3>1, <3>2
      <3>4. Located'
        BY <2>1, <3>1
      <3> QED
        BY <1>s, <3>3, <3>4, <2>3, <2>4
    <2>2. CASE asks[k] # Auth
      <3>1. Return(k, "ok") /\ "ok" \in Results \ {None}
        BY <2>2, ClientNames DEF Results
      <3>2. CallsTyped' /\ Located'
        BY <3>1, TypeReturn
      <3> QED
        BY <1>s, <3>2, <2>3, <2>4
    <2> QED
      BY <2>1, <2>2
  <1>11. CASE ReceiveError(k)
    <2> USE <1>11 DEF ReceiveError, Received
    <2>1. reply[k].status \in {"error", "refused", "disconnected", "timeout"}
      BY ReplyFields
    <2>2. CallsTyped' /\ Located'
      <3>1. PICK r \in {"error", "refused", "disconnected", "timeout"} : Fail(k, r)
        BY <2>1
      <3> QED
        BY <1>f, <3>1
    <2>3. ClientTyped'
      OBVIOUS
    <2>4. Unmade'
      OBVIOUS
    <2> QED
      BY <1>s, <2>2, <2>3, <2>4
  <1>12. CASE Timeout(k)
    <2> USE <1>12 DEF Timeout, Unpend
    <2>1. CallsTyped' /\ Located'
      BY <1>f
    <2>2. pending' \in [Conn -> SUBSET [id : Nat, call : Call]]
      OBVIOUS
    <2>3. ClientTyped'
      BY <2>2
    <2>4. Unmade'
      OBVIOUS
    <2> QED
      BY <1>s, <2>1, <2>3, <2>4
  <1>13. CASE Clear(k)
    <2> USE <1>13 DEF Clear
    <2>1. CASE Retries(k)
      <3>1. /\ attempt' = [attempt EXCEPT ![k] = 2] /\ first' = [first EXCEPT ![k] = use[k]]
            /\ use' = [use EXCEPT ![k] = None] /\ result' = [result EXCEPT ![k] = None]
            /\ pc' = [pc EXCEPT ![k] = "look"]
        BY <2>1
      <3>2. pc' \in [Call -> Labels] /\ result' \in [Call -> Results]
        BY <3>1 DEF Labels, Results
      <3>3. CallsTyped'
        BY <3>1, <3>2
      <3>4. Located'
        BY <3>1
      <3> QED
        BY <1>s, <3>3, <3>4
    <2>2. CASE ~Retries(k)
      <3>1. Return(k, result[k]) /\ UNCHANGED attempt /\ result[k] \in Results \ {None}
        BY <2>2, ClientNames DEF Results
      <3>2. pc' = [pc EXCEPT ![k] = "done"] /\ result' = [result EXCEPT ![k] = result[k]]
            /\ use' = [use EXCEPT ![k] = None] /\ first' = [first EXCEPT ![k] = None]
        BY <3>1 DEF Return
      <3>3. pc' \in [Call -> Labels] /\ result' = result
        BY <3>2 DEF Labels
      <3>4. CallsTyped'
        BY <3>2, <3>3
      <3>5. Located'
        BY <3>1, <3>2, <3>3
      <3> QED
        BY <1>s, <3>4, <3>5
    <2>3. ClientTyped'
      OBVIOUS
    <2>4. Unmade'
      OBVIOUS
    <2> QED
      BY <1>s, <2>1, <2>2, <2>3, <2>4
  <1> QED
    BY <1>1, <1>2, <1>3, <1>4, <1>5, <1>6, <1>7, <1>8, <1>9, <1>10, <1>11, <1>12, <1>13 DEF ClientSteps, CallStep

\* The accept loop takes the connection the client opens.
LEMMA TypeConnects ==
    ASSUME TypeInv, NEW k \in Call, NEW c \in Conn, Connects(k, c)
    PROVE  TypeInv'
  <1> USE SettingFields, DaemonAssumption
      DEF TypeInv, ClientTyped, ServedTyped, Located, Unmade, InCall, Goto,
          Connects, Connect, D!Accept, wires
  <1>1. AfterConnect(k) \in {"check", "publish"} /\ cfg[k] \in Setting
    BY DEF AfterConnect
  <1>2. CallsTyped'
    <2>1. pc' \in [Call -> Labels] /\ use' \in [Call -> Conn \cup {None}]
          /\ asks' \in [Call -> Methods \cup {None}]
      BY <1>1 DEF CallsTyped, Labels, Methods
    <2> QED
      BY <2>1 DEF CallsTyped
  <1>3. ClientTyped'
    BY <1>1
  <1>4. ServedTyped'
    <2>1. D!AuthedAtFirst(cfg[k].host) \in BOOLEAN
      BY DEF D!AuthedAtFirst
    <2> QED
      BY <2>1
  <1>5. Located'
    BY <1>1 DEF CallsTyped
  <1>6. Unmade'
    BY <1>1
  <1> QED
    BY <1>2, <1>3, <1>4, <1>5, <1>6

\* The tasks of a connection tell those they drain; they write, read and stop.
LEMMA TypeConn ==
    ASSUME TypeInv, NEW c \in Conn, ConnSteps(c)
    PROVE  TypeInv'
  <1> UNCHANGED <<served, events>>
    BY DEF ConnSteps
  <1> USE SettingFields, ReplyFields
      DEF TypeInv, ClientTyped, ServedTyped, Located, Unmade, InCall, served, inner, wires, caller
  <1>1. ASSUME MarkDisconnected(c)
        PROVE  /\ reply' \in [Call -> Answers \cup {NoReply, Disconnected}]
               /\ connected' \in [Conn -> BOOLEAN]
               /\ pending' \in [Conn -> SUBSET [id : Nat, call : Call]]
               /\ ~connected'[c] /\ pending'[c] = {}
               /\ \A d \in Conn \ {c} : connected'[d] = connected[d] /\ pending'[d] = pending[d]
    BY <1>1 DEF MarkDisconnected, CallsTyped
  <1>2. CASE WriteOk(c)
    <2> USE <1>2 DEF WriteOk
    <2>1. Head(queue[c]) \in Requests /\ Tail(queue[c]) \in Seq(Requests)
      OBVIOUS
    <2>2. CallsTyped' /\ ClientTyped'
      BY <2>1 DEF CallsTyped
    <2>3. up' \in [Conn -> Seq(Requests)]
      BY <2>1
    <2>4. ServedTyped'
      BY <2>3
    <2>5. Located' /\ Unmade'
      OBVIOUS
    <2> QED
      BY <2>2, <2>4, <2>5
  <1>3. CASE WriteFails(c)
    <2> USE <1>3 DEF WriteFails
    <2>3. queue' \in [Conn -> Seq(Requests)] /\ writing' \in [Conn -> BOOLEAN]
      OBVIOUS
    <2>1. CallsTyped' /\ ClientTyped' /\ ServedTyped'
      BY <1>1, <2>3 DEF CallsTyped
    <2>2. Located' /\ Unmade'
      BY <1>1
    <2> QED
      BY <2>1, <2>2
  <1>4. CASE WriterEnds(c)
    <2> USE <1>4 DEF WriterEnds
    <2>1. CallsTyped' /\ ClientTyped' /\ ServedTyped'
      BY DEF CallsTyped
    <2>2. Located' /\ Unmade'
      OBVIOUS
    <2> QED
      BY <2>1, <2>2
  <1>5. CASE Read(c)
    <2> USE <1>5 DEF Read
    <2>1. Head(down[c]) \in DaemonAnswers /\ Tail(down[c]) \in Seq(DaemonAnswers)
      OBVIOUS
    <2>2. [method |-> Head(down[c]).method, status |-> Head(down[c]).status] \in Answers
      BY <2>1 DEF DaemonAnswers, Answers, Methods
    <2>3. /\ reply' \in [Call -> Answers \cup {NoReply, Disconnected}]
          /\ pending' \in [Conn -> SUBSET [id : Nat, call : Call]]
          /\ \A d \in Conn : pending'[d] \subseteq pending[d]
      <3>1. CASE Awaiting(c) = {} /\ UNCHANGED <<pending, reply>>
        BY <3>1 DEF CallsTyped
      <3>2. ASSUME NEW e \in pending[c],
                   pending' = [pending EXCEPT ![c] = @ \ {e}],
                   reply' = [reply EXCEPT ![e.call] =
                       [method |-> Head(down[c]).method, status |-> Head(down[c]).status]]
            PROVE  /\ reply' \in [Call -> Answers \cup {NoReply, Disconnected}]
                   /\ pending' \in [Conn -> SUBSET [id : Nat, call : Call]]
                   /\ \A d \in Conn : pending'[d] \subseteq pending[d]
        <4>1. pending' \in [Conn -> SUBSET [id : Nat, call : Call]]
          BY <3>2
        <4>2. reply' \in [Call -> Answers \cup {NoReply, Disconnected}]
          BY <2>2, <3>2 DEF CallsTyped
        <4>3. \A d \in Conn : pending'[d] \subseteq pending[d]
          BY <3>2
        <4> QED
          BY <4>1, <4>2, <4>3
      <3> QED
        BY <3>1, <3>2 DEF Awaiting
    <2>4. CallsTyped' /\ ClientTyped' /\ ServedTyped'
      BY <2>1, <2>3 DEF CallsTyped
    <2>5. Located' /\ Unmade'
      BY <2>3
    <2> QED
      BY <2>4, <2>5
  <1>6. CASE ReadEnds(c)
    <2> USE <1>6 DEF ReadEnds
    <2>1. CallsTyped' /\ ClientTyped' /\ ServedTyped'
      BY <1>1 DEF CallsTyped
    <2>2. Located' /\ Unmade'
      BY <1>1
    <2> QED
      BY <2>1, <2>2
  <1> QED
    BY <1>2, <1>3, <1>4, <1>5, <1>6 DEF ConnSteps, ConnStep

\* A daemon moves: the client's variables stay.
LEMMA TypeServe ==
    ASSUME TypeInv, NEW c \in Conn, ServeSteps(c)
    PROVE  TypeInv'
  <1> UNCHANGED untouched
    BY DEF ServeSteps
  <1>0. CallsTyped' /\ ClientTyped' /\ Located'
    BY DEF TypeInv, CallsTyped, ClientTyped, Located, InCall, untouched, inner, caller
  <1> USE SettingFields
      DEF TypeInv, ServedTyped, Unmade, untouched, inner, caller, D!Open, D!Answer, D!Put
  <1>1. ASSUME D!Reads(c)
        PROVE  /\ Head(up[c]) \in Requests /\ Tail(up[c]) \in Seq(Requests)
               /\ target[c] # None /\ up' \in [Conn -> Seq(Requests)]
               /\ \A d \in Conn \ {c} : up'[d] = up[d]
               /\ UNCHANGED <<target, writing, down, broken, closed>>
    BY <1>1 DEF D!Reads
  <1>2. ASSUME NEW a \in DaemonAnswers, D!Put(c, a)
        PROVE  /\ outq' \in [Conn -> Seq(DaemonAnswers)]
               /\ \A d \in Conn \ {c} : outq'[d] = outq[d]
    BY <1>2
  <1>3. ASSUME NEW l \in Requests, NEW s \in {"ok", "refused"}
        PROVE  D!Answer(l.id, l.method, s) \in DaemonAnswers
    BY DEF Requests, DaemonAnswers, Methods
  <1>4. CASE D!Authenticate(c)
    <2>1. D!Answer(Head(up[c]).id, Auth, "ok") \in DaemonAnswers
      BY <1>1, <1>4 DEF D!Authenticate, Requests, DaemonAnswers, Methods
    <2>4. authed' \in [Conn -> BOOLEAN] /\ outq' \in [Conn -> Seq(DaemonAnswers)]
      BY <1>2, <1>4, <2>1 DEF D!Authenticate
    <2>2. ServedTyped'
      BY <1>1, <1>4, <2>4 DEF D!Authenticate
    <2>5. D!Reads(c) /\ (\A d \in Conn \ {c} : outq'[d] = outq[d]) /\ UNCHANGED tasks
      BY <1>2, <1>4, <2>1 DEF D!Authenticate
    <2>3. Unmade'
      BY <1>1, <2>5
    <2> QED
      BY <1>0, <2>2, <2>3
  <1>5. CASE D!Refuse(c)
    <2>1. D!Answer(Head(up[c]).id, Head(up[c]).method, "refused") \in DaemonAnswers
      BY <1>1, <1>3, <1>5 DEF D!Refuse
    <2>4. /\ outq' \in [Conn -> Seq(DaemonAnswers)]
          /\ \A d \in Conn \ {c} : outq'[d] = outq[d]
          /\ D!Reads(c) /\ UNCHANGED <<authed, tasks, executed, events>>
      BY <1>2, <1>5, <2>1 DEF D!Refuse, ServeSteps
    <2>2. ServedTyped'
      BY <1>1, <2>4
    <2>3. Unmade'
      BY <1>1, <2>4
    <2> QED
      BY <1>0, <2>2, <2>3
  <1>6. CASE D!Spawn(c)
    <2>1. [conn |-> c, id |-> Head(up[c]).id, method |-> Head(up[c]).method,
           stage |-> "waiting", status |-> "none"] \in Tasks
      BY <1>1, <1>6 DEF D!Spawn, Requests, Tasks, Methods
    <2>2. ServedTyped'
      BY <1>1, <1>6, <2>1 DEF D!Spawn
    <2>3. Unmade'
      BY <1>1, <1>6 DEF D!Spawn
    <2> QED
      BY <1>0, <2>2, <2>3
  <1>7. CASE D!WriteOut(c)
    <2> USE <1>7 DEF D!WriteOut
    <2>1. Head(outq[c]) \in DaemonAnswers /\ Tail(outq[c]) \in Seq(DaemonAnswers)
      OBVIOUS
    <2>2. down' \in [Conn -> Seq(DaemonAnswers)] /\ outq' \in [Conn -> Seq(DaemonAnswers)]
      BY <2>1
    <2>3. ServedTyped'
      BY <2>2
    <2>4. Unmade'
      OBVIOUS
    <2> QED
      BY <1>0, <2>3, <2>4
  <1>8. CASE D!Close(c)
    <2> USE <1>8 DEF D!Close
    <2>1. ServedTyped'
      OBVIOUS
    <2>2. Unmade'
      OBVIOUS
    <2> QED
      BY <1>0, <2>1, <2>2
  <1> QED
    BY <1>4, <1>5, <1>6, <1>7, <1>8 DEF ServeSteps, D!ServeStep

LEMMA TypeTask ==
    ASSUME TypeInv, NEW c \in Conn, TaskSteps(c)
    PROVE  TypeInv'
  <1> UNCHANGED untouched
    BY DEF TaskSteps
  <1>0. CallsTyped' /\ ClientTyped' /\ Located'
    BY DEF TypeInv, CallsTyped, ClientTyped, Located, InCall, untouched, inner, caller
  <1> USE SettingFields DEF TypeInv, ServedTyped, Unmade, untouched, inner, caller
  <1>1. PICK t \in tasks : t.conn = c /\ D!TaskStep(t)
    BY DEF TaskSteps
  <1>2. /\ t \in Tasks /\ t.conn \in Conn /\ t.id \in Nat /\ t.method \in Methods
        /\ t.status \in {"none", "ok", "error"} /\ target[c] # None
    BY <1>1 DEF Tasks
  <1>3. CASE D!Execute(t)
    <2>1. PICK s \in {"ok", "error"} :
             tasks' = (tasks \ {t}) \cup {[t EXCEPT !.stage = "ran", !.status = s]}
      BY <1>3 DEF D!Execute
    <2>2. /\ [t EXCEPT !.stage = "ran", !.status = s] \in Tasks
          /\ [t EXCEPT !.stage = "ran", !.status = s].conn = c
      BY <1>1, <1>2 DEF Tasks
    <2>3. executed' \in [Call -> Nat]
      <3>1. CASE t.method = Auth
        BY <1>3, <3>1 DEF D!Execute
      <3>2. CASE t.method \in Call
        <4>1. executed' = [executed EXCEPT ![t.method] = @ + 1]
          BY <1>3, <3>2 DEF D!Execute
        <4> QED
          BY <3>2, <4>1
      <3> QED
        BY <1>2, <3>1, <3>2 DEF Methods
    <2>4. ServedTyped'
      BY <1>3, <2>1, <2>2, <2>3 DEF D!Execute
    <2>6. \A u \in tasks' : u \in tasks \/ u.conn = c
      BY <2>1, <2>2
    <2>7. Unmade'
      BY <1>2, <1>3, <2>6 DEF D!Execute
    <2> QED
      BY <1>0, <2>4, <2>7
  <1>4. CASE D!Respond(t)
    <2> USE <1>4 DEF D!Respond
    <2>2. D!Answer(t.id, t.method, t.status) \in DaemonAnswers
      BY <1>2 DEF Tasks, D!Answer, DaemonAnswers
    <2>1. /\ outq' \in [Conn -> Seq(DaemonAnswers)]
          /\ \A d \in Conn \ {c} : outq'[d] = outq[d]
      <3>1. CASE closed[c]
        BY <1>1, <3>1 DEF D!SendAnswer
      <3>2. CASE ~closed[c]
        <4>1. outq' = [outq EXCEPT ![c] = Append(@, D!Answer(t.id, t.method, t.status))]
          BY <1>1, <3>2 DEF D!SendAnswer, D!Put
        <4> QED
          BY <2>2, <4>1
      <3> QED
        BY <3>1, <3>2
    <2>4. ServedTyped'
      BY <2>1
    <2>5. Unmade'
      BY <1>2, <2>1
    <2> QED
      BY <1>0, <2>4, <2>5
  <1> QED
    BY <1>1, <1>3, <1>4 DEF D!TaskStep

\* Settings are saved, the client is reset, the network and daemons fail.
LEMMA TypeEvents ==
    ASSUME TypeInv,
           \/ Saves \/ Resets
           \/ \E c \in Conn : Break(c)
           \/ \E host \in Host : Crash(host)
    PROVE  TypeInv'
  <1> USE SettingFields
      DEF TypeInv, Located, Unmade, InCall, served, clientVars, inner, caller, wires
  <1>1. CASE Saves
    BY <1>1 DEF Saves, SaveSettings, CallsTyped, ClientTyped, ServedTyped
  <1>2. CASE Resets
    BY <1>2 DEF Resets, ResetClient, CallsTyped, ClientTyped, ServedTyped
  <1>3. ASSUME NEW c \in Conn, Break(c) PROVE TypeInv'
    <2> USE <1>3 DEF Break
    <2>1. CallsTyped' /\ ClientTyped'
      BY DEF CallsTyped, ClientTyped
    <2>2. ServedTyped'
      BY DEF ServedTyped
    <2>3. Located' /\ Unmade'
      BY DEF ServedTyped
    <2> QED
      BY <2>1, <2>2, <2>3
  <1>4. ASSUME NEW host \in Host, Crash(host) PROVE TypeInv'
    <2> DEFINE lost == {c \in Conn : D!Open(c) /\ target[c].host = host}
               reset == {c \in lost : up[c] # << >>}
    <2>1. /\ closed' = [c \in Conn |-> closed[c] \/ c \in lost]
          /\ broken' = [c \in Conn |-> broken[c] \/ c \in reset]
          /\ up' = [c \in Conn |-> IF c \in lost THEN << >> ELSE up[c]]
          /\ down' = [c \in Conn |-> IF c \in reset THEN << >> ELSE down[c]]
          /\ outq' = [c \in Conn |-> IF c \in lost THEN << >> ELSE outq[c]]
          /\ tasks' \subseteq tasks /\ events' = events + 1
          /\ UNCHANGED <<clientVars, authed, executed>>
      BY <1>4 DEF Crash
    <2>2. \A c \in lost : target[c] # None
      BY DEF D!Open, ServedTyped
    <2>3. reset \subseteq lost
      OBVIOUS
    <2> HIDE DEF lost, reset
    <2>4. /\ up' \in [Conn -> Seq(Requests)] /\ down' \in [Conn -> Seq(DaemonAnswers)]
          /\ broken' \in [Conn -> BOOLEAN] /\ closed' \in [Conn -> BOOLEAN]
          /\ outq' \in [Conn -> Seq(DaemonAnswers)]
      BY <2>1 DEF ServedTyped
    <2>5. CallsTyped' /\ ClientTyped'
      BY <2>1 DEF CallsTyped, ClientTyped
    <2>6. ServedTyped'
      BY <2>1, <2>4 DEF ServedTyped
    <2>7. Located'
      BY <2>1
    <2>8. Unmade'
      BY <2>1, <2>2, <2>3
    <2> QED
      BY <2>5, <2>6, <2>7, <2>8
  <1> QED
    BY <1>1, <1>2, <1>3, <1>4

LEMMA TypeNext ==
    ASSUME TypeInv, [Next]_vars
    PROVE  TypeInv'
  <1>1. CASE UNCHANGED vars
    BY <1>1 DEF vars, clientVars, caller, inner, wires, served, TypeInv, CallsTyped, ClientTyped,
                ServedTyped, Located, InCall, Unmade
  <1> QED
    BY <1>1, TypeCall, TypeConnects, TypeConn, TypeServe, TypeTask, TypeEvents DEF Next

----------------------------------------------------------------------------
(* What a step does to the calls and to what is under way                   *)

\* Call k goes on with what it has asked, takes an id, or is not in a call.
Stays(k) ==
    /\ pc[k] \in InCall /\ use'[k] = use[k] /\ id'[k] = id[k] /\ asks'[k] = asks[k]
    /\ UNCHANGED nextId
Takes(k) ==
    /\ pc[k] = "check" /\ pc'[k] = "pend" /\ use'[k] = use[k] /\ asks'[k] = asks[k]
    /\ id'[k] = nextId[use[k]] /\ nextId' = [nextId EXCEPT ![use[k]] = @ + 1]
    /\ reply' = [reply EXCEPT ![k] = NoReply]

\* At most one call moves.
Alone(k) ==
    \A j \in Call \ {k} : /\ pc'[j] = pc[j] /\ use'[j] = use[j] /\ id'[j] = id[j]
                          /\ asks'[j] = asks[j] /\ result'[j] = result[j]
                          /\ attempt'[j] = attempt[j]

LEMMA CallMoves ==
    ASSUME TypeInv, NEW k \in Call, ClientSteps(k)
    PROVE  /\ Alone(k)
           /\ \/ Takes(k)
              \/ UNCHANGED nextId /\ (pc'[k] \in InCall => Stays(k))
  <1> USE SettingFields
      DEF TypeInv, CallsTyped, ClientTyped, Located, InCall, Goto, inner, Takes, Stays, Alone
  <1>1. ASSUME NEW r, Return(k, r), UNCHANGED <<nextId, id, asks>>,
               \A j \in Call \ {k} : attempt'[j] = attempt[j]
        PROVE  Alone(k) /\ UNCHANGED nextId /\ pc'[k] \notin InCall
    BY <1>1 DEF Return
  <1>2. ASSUME NEW r, Fail(k, r), UNCHANGED <<nextId, id, asks>>,
               \A j \in Call \ {k} : attempt'[j] = attempt[j]
        PROVE  Alone(k) /\ UNCHANGED nextId /\ pc'[k] \notin InCall
    <2>1. CASE Return(k, r)
      BY <1>1, <1>2, <2>1
    <2>2. CASE ~Return(k, r)
      BY <1>2, <2>2 DEF Fail
    <2> QED
      BY <2>1, <2>2
  <1>3. CASE Look(k)
    BY <1>3 DEF Look
  <1>4. CASE Resolve(k)
    BY <1>4 DEF Resolve
  <1>5. CASE ConnectFails(k)
    BY <1>1, <1>5 DEF ConnectFails
  <1>6. CASE Publish(k)
    BY <1>6 DEF Publish
  <1>7. CASE Check(k)
    BY <1>7 DEF Check, IdTaken
  <1>8. CASE CheckLost(k)
    BY <1>2, <1>8 DEF CheckLost
  <1>9. CASE Pend(k)
    BY <1>9 DEF Pend
  <1>10. CASE Send(k)
    BY <1>10 DEF Send
  <1>11. CASE SendFails(k)
    BY <1>2, <1>11 DEF SendFails
  <1>12. CASE ReceiveOk(k)
    BY <1>1, <1>12 DEF ReceiveOk
  <1>13. CASE ReceiveError(k)
    BY <1>2, <1>13 DEF ReceiveError
  <1>14. CASE Timeout(k)
    BY <1>2, <1>14 DEF Timeout
  <1>15. CASE Clear(k)
    BY <1>1, <1>15 DEF Clear
  <1> QED
    BY <1>3, <1>4, <1>5, <1>6, <1>7, <1>8, <1>9, <1>10, <1>11, <1>12, <1>13, <1>14, <1>15
       DEF ClientSteps, CallStep

\* The other steps leave the calls where they are, but for the one that connects.
LEMMA OthersMove ==
    ASSUME TypeInv, [Next]_vars, \A k \in Call : ~ClientSteps(k)
    PROVE  /\ UNCHANGED <<nextId, id>>
           /\ \/ UNCHANGED <<pc, use, asks, result, cfg, attempt>>
              \/ \E k \in Call, c \in Conn : /\ Connects(k, c) /\ Alone(k) /\ pc[k] = "connect"
                                             /\ pc'[k] \notin InCall
  <1> USE DEF clientVars, caller, inner, served, untouched
  <1>1. CASE UNCHANGED vars
    BY <1>1 DEF vars
  <1>2. ASSUME NEW k \in Call, NEW c \in Conn, Connects(k, c)
        PROVE  UNCHANGED <<nextId, id>> /\ Alone(k) /\ pc[k] = "connect" /\ pc'[k] \notin InCall
    BY <1>2 DEF TypeInv, CallsTyped, Connects, Connect, Goto, Alone, AfterConnect, InCall
  <1>3. ASSUME NEW c \in Conn, ConnSteps(c)
        PROVE  UNCHANGED <<nextId, id, pc, use, asks, result, cfg, attempt>>
    BY <1>3 DEF ConnSteps, ConnStep, WriteOk, WriteFails, WriterEnds, Read, ReadEnds
  <1>4. ASSUME NEW c \in Conn, ServeSteps(c) \/ TaskSteps(c)
        PROVE  UNCHANGED <<nextId, id, pc, use, asks, result, cfg, attempt>>
    BY <1>4 DEF ServeSteps, TaskSteps
  <1>5. CASE \/ Saves \/ Resets
             \/ \E c \in Conn : Break(c)
             \/ \E host \in Host : Crash(host)
    BY <1>5 DEF Saves, SaveSettings, Resets, ResetClient, Break, Crash
  <1> QED
    BY <1>1, <1>2, <1>3, <1>4, <1>5 DEF Next

LEMMA CallFrame ==
    ASSUME TypeInv, [Next]_vars
    PROVE  /\ \A c \in Conn : nextId[c] <= nextId'[c]
           /\ \A k \in Call : pc'[k] \in InCall =>
                \/ /\ pc[k] \in InCall /\ use'[k] = use[k]
                   /\ id'[k] = id[k] /\ asks'[k] = asks[k]
                \/ Takes(k) /\ Alone(k)
  <1>1. ASSUME NEW k \in Call, ClientSteps(k)
        PROVE  /\ \A c \in Conn : nextId[c] <= nextId'[c]
               /\ \A j \in Call : pc'[j] \in InCall =>
                \/ /\ pc[j] \in InCall /\ use'[j] = use[j]
                   /\ id'[j] = id[j] /\ asks'[j] = asks[j]
                \/ Takes(j) /\ Alone(j)
    <2>1. \A c \in Conn : nextId[c] <= nextId'[c]
      <3>1. \A n \in Nat : n <= n /\ n <= n + 1
        OBVIOUS
      <3>2. CASE UNCHANGED nextId
        BY <3>1, <3>2 DEF TypeInv, ClientTyped
      <3>3. CASE Takes(k)
        BY <3>1, <3>3 DEF Takes, TypeInv, ClientTyped
      <3> QED
        BY <1>1, <3>2, <3>3, CallMoves
    <2>2. \A j \in Call \ {k} : pc'[j] = pc[j] /\ use'[j] = use[j] /\ id'[j] = id[j]
                                /\ asks'[j] = asks[j]
      BY <1>1, CallMoves DEF Alone
    <2>3. pc'[k] \in InCall => Stays(k) \/ (Takes(k) /\ Alone(k))
      BY <1>1, CallMoves
    <2> QED
      BY <2>1, <2>2, <2>3 DEF Stays
  <1>2. CASE \A k \in Call : ~ClientSteps(k)
    <2>1. \A c \in Conn : nextId[c] <= nextId'[c]
      <3>1. nextId' = nextId /\ nextId \in [Conn -> Nat]
        BY <1>2, OthersMove DEF TypeInv, ClientTyped
      <3>2. \A n \in Nat : n <= n
        OBVIOUS
      <3> QED
        BY <3>1, <3>2
    <2> QED
      BY <1>2, <2>1, OthersMove DEF Alone
  <1> QED
    BY <1>1, <1>2

\* Where the lines, answers and tasks of the next state come from.
LineFrame(c) ==
    /\ \A l \in Range(queue'[c]) :
         l \in Range(queue[c]) \/ \E k \in Call : Send(k) /\ use[k] = c /\ l = Line(k)
    /\ \A l \in Range(up'[c]) : l \in Range(up[c]) \cup Range(queue[c])

ReplyFrame(c) ==
    /\ \A a \in Range(outq'[c]) :
         \/ a \in Range(outq[c])
         \/ \E l \in Range(up[c]) :
              /\ a.id = l.id /\ a.method = l.method
              /\ \/ D!Authenticate(c) /\ l.method = Auth /\ a.status = "ok"
                 \/ D!Refuse(c) /\ ~D!RightAuth(c, l) /\ l = Head(up[c]) /\ a.status = "refused"
                    /\ UNCHANGED queue
         \/ \E t \in tasks : /\ t.conn = c /\ t.stage = "ran" /\ a.id = t.id
                             /\ a.method = t.method /\ a.status = t.status
    /\ \A a \in Range(down'[c]) : a \in Range(down[c]) \cup Range(outq[c])

TaskFrame ==
    \A t \in tasks' :
        \/ t \in tasks
        \/ \E l \in Range(up[t.conn]) :
             /\ D!Spawn(t.conn) /\ l = Head(up[t.conn])
             /\ t.id = l.id /\ t.method = l.method /\ t.stage = "waiting" /\ t.status = "none"
        \/ \E u \in tasks : /\ D!Execute(u) /\ t.conn = u.conn /\ t.id = u.id
                            /\ t.method = u.method /\ t.stage = "ran"
                            /\ t.method = Auth => t.status # "ok"

LEMMA FrameClient ==
    ASSUME TypeInv, NEW k \in Call, ClientSteps(k) \/ \E c \in Conn : Connects(k, c)
    PROVE  (\A c \in Conn : LineFrame(c) /\ ReplyFrame(c)) /\ TaskFrame
  <1>1. UNCHANGED <<up, down, outq, tasks>>
    BY DEF ClientSteps, CallStep, Connects, Connect, D!Accept, served, wires, Look, Resolve,
           ConnectFails, Publish, Check, CheckLost, Pend, Send, SendFails, ReceiveOk, ReceiveError,
           Timeout, Clear
  <1>2. ASSUME NEW c \in Conn, NEW l \in Range(queue'[c])
        PROVE  l \in Range(queue[c]) \/ (Send(k) /\ use[k] = c /\ l = Line(k))
    <2>1. CASE Send(k)
      <3>1. Line(k) \in Requests /\ use[k] \in Conn
        <4>1. /\ use[k] \in Conn /\ asks[k] \in Methods /\ id[k] \in Nat
              /\ asks[k] = Auth => cfg[k].token \in Token \cup {None}
          BY <2>1, SettingFields DEF Send, Methods, TypeInv, CallsTyped, Located, InCall
        <4> QED
          BY <4>1 DEF Line, Requests, Methods
      <3>2. queue' = [queue EXCEPT ![use[k]] = Append(@, Line(k))]
        BY <2>1 DEF Send
      <3>3. CASE c = use[k]
        <4>1. queue'[c] = Append(queue[c], Line(k)) /\ queue[c] \in Seq(Requests)
          BY <3>2, <3>3 DEF TypeInv, ClientTyped
        <4> QED
          BY <1>2, <2>1, <3>1, <3>3, <4>1, RangeAppend
      <3>4. CASE c # use[k]
        BY <1>2, <3>2, <3>4 DEF TypeInv, ClientTyped
      <3> QED
        BY <3>3, <3>4
    <2>2. CASE ~Send(k)
      <3>1. UNCHANGED queue
        BY <2>2 DEF ClientSteps, CallStep, Connects, Connect, inner, Look, Resolve,
           ConnectFails, Publish, Check, CheckLost, Pend, SendFails, ReceiveOk, ReceiveError,
           Timeout, Clear
      <3> QED
        BY <1>2, <3>1
    <2> QED
      BY <2>1, <2>2
  <1> QED
    BY <1>1, <1>2 DEF LineFrame, ReplyFrame, TaskFrame

LEMMA FrameConn ==
    ASSUME TypeInv, NEW c \in Conn, ConnSteps(c)
    PROVE  (\A d \in Conn : LineFrame(d) /\ ReplyFrame(d)) /\ TaskFrame
  <1>1. UNCHANGED <<outq, tasks>>
    BY DEF ConnSteps, served
  <1>2. /\ queue[c] # << >> => /\ Tail(queue[c]) \in Seq(Requests)
                               /\ Head(queue[c]) \in Range(queue[c])
                               /\ Range(Tail(queue[c])) \subseteq Range(queue[c])
        /\ queue[c] # << >> => /\ Head(queue[c]) \in Requests
                               /\ Range(Append(up[c], Head(queue[c]))) =
                                    Range(up[c]) \cup {Head(queue[c])}
        /\ down[c] # << >> => Range(Tail(down[c])) \subseteq Range(down[c])
    <2>1. queue[c] \in Seq(Requests) /\ up[c] \in Seq(Requests) /\ down[c] \in Seq(DaemonAnswers)
      BY DEF TypeInv, ClientTyped, ServedTyped
    <2> QED
      BY <2>1, RangeTail, RangeAppend
  <1>3. ASSUME NEW d \in Conn
        PROVE  /\ Range(queue'[d]) \subseteq Range(queue[d])
               /\ Range(up'[d]) \subseteq Range(up[d]) \cup Range(queue[d])
               /\ Range(down'[d]) \subseteq Range(down[d])
    <2> USE <1>2, RangeEmpty DEF TypeInv, ClientTyped, ServedTyped
    <2>1. CASE WriteOk(c)
      <3>1. /\ UNCHANGED down
            /\ queue' = [queue EXCEPT ![c] = Tail(@)]
            /\ up' = [up EXCEPT ![c] = IF closed[c] THEN @ ELSE Append(@, Head(queue[c]))]
            /\ queue[c] # << >>
        BY <2>1 DEF WriteOk
      <3>2. CASE c = d
        BY <3>1, <3>2
      <3>3. CASE c # d
        BY <3>1, <3>3
      <3> QED
        BY <3>2, <3>3
    <2>2. CASE WriteFails(c)
      <3>1. UNCHANGED <<up, down>> /\ queue' = [queue EXCEPT ![c] = << >>]
        BY <2>2 DEF WriteFails, wires
      <3> QED
        BY <3>1
    <2>3. CASE WriterEnds(c) \/ ReadEnds(c)
      BY <2>3 DEF WriterEnds, ReadEnds, wires
    <2>4. CASE Read(c)
      <3>1. UNCHANGED <<queue, up>> /\ down' = [down EXCEPT ![c] = Tail(@)] /\ down[c] # << >>
        BY <2>4 DEF Read
      <3> QED
        BY <3>1
    <2> QED
      BY <2>1, <2>2, <2>3, <2>4 DEF ConnSteps, ConnStep
  <1> QED
    BY <1>1, <1>3 DEF LineFrame, ReplyFrame, TaskFrame

LEMMA FrameServe ==
    ASSUME TypeInv, NEW c \in Conn, ServeSteps(c)
    PROVE  (\A d \in Conn : LineFrame(d) /\ ReplyFrame(d)) /\ TaskFrame
  <1>1. UNCHANGED queue
    BY DEF ServeSteps, untouched, inner
  <1>2. up[c] \in Seq(Requests) /\ outq[c] \in Seq(DaemonAnswers) /\ down[c] \in Seq(DaemonAnswers)
    BY DEF TypeInv, ServedTyped
  <1>3. ASSUME D!Reads(c)
        PROVE  /\ Head(up[c]) \in Range(up[c]) /\ Head(up[c]) \in Requests
               /\ Range(up'[c]) \subseteq Range(up[c])
               /\ \A d \in Conn \ {c} : up'[d] = up[d]
               /\ UNCHANGED down
    <2>1. up'[c] = Tail(up[c]) /\ up[c] # << >> /\ UNCHANGED down
      BY <1>3 DEF D!Reads, TypeInv, ServedTyped
    <2> QED
      BY <1>2, <1>3, <2>1, RangeTail DEF D!Reads, TypeInv, ServedTyped
  <1>4. ASSUME NEW a \in DaemonAnswers, D!Put(c, a)
        PROVE  /\ Range(outq'[c]) = Range(outq[c]) \cup {a}
               /\ \A d \in Conn \ {c} : outq'[d] = outq[d]
    <2>1. outq'[c] = Append(outq[c], a)
      BY <1>4 DEF D!Put, TypeInv, ServedTyped
    <2> QED
      BY <1>2, <1>4, <2>1, RangeAppend DEF D!Put, TypeInv, ServedTyped
  <1>5. CASE D!Authenticate(c)
    <2> DEFINE a == D!Answer(Head(up[c]).id, Auth, "ok")
    <2>1. /\ D!Reads(c) /\ Head(up[c]).method = Auth /\ D!Put(c, a) /\ UNCHANGED tasks
      BY <1>5 DEF D!Authenticate, D!RightAuth
    <2>2. a \in DaemonAnswers /\ a.id = Head(up[c]).id /\ a.method = Auth /\ a.status = "ok"
      BY <1>3, <2>1 DEF D!Answer, Requests, DaemonAnswers, Methods
    <2>3. \A d \in Conn : LineFrame(d)
      BY <1>1, <1>3, <2>1 DEF LineFrame
    <2>4. \A d \in Conn \ {c} : ReplyFrame(d)
      BY <1>3, <1>4, <2>1, <2>2 DEF ReplyFrame
    <2>5. ReplyFrame(c)
      BY <1>3, <1>4, <1>5, <2>1, <2>2 DEF ReplyFrame
    <2> QED
      BY <2>1, <2>3, <2>4, <2>5 DEF TaskFrame
  <1>6. CASE D!Refuse(c)
    <2> DEFINE a == D!Answer(Head(up[c]).id, Head(up[c]).method, "refused")
    <2>1. /\ D!Reads(c) /\ ~D!RightAuth(c, Head(up[c])) /\ D!Put(c, a) /\ UNCHANGED tasks
      BY <1>6 DEF D!Refuse
    <2>2. /\ a \in DaemonAnswers /\ a.id = Head(up[c]).id /\ a.method = Head(up[c]).method
          /\ a.status = "refused"
      BY <1>3, <2>1 DEF D!Answer, Requests, DaemonAnswers, Methods
    <2>3. \A d \in Conn : LineFrame(d)
      BY <1>1, <1>3, <2>1 DEF LineFrame
    <2>4. \A d \in Conn \ {c} : ReplyFrame(d)
      BY <1>3, <1>4, <2>1, <2>2 DEF ReplyFrame
    <2>5. ReplyFrame(c)
      BY <1>1, <1>3, <1>4, <1>6, <2>1, <2>2 DEF ReplyFrame
    <2> QED
      BY <2>1, <2>3, <2>4, <2>5 DEF TaskFrame
  <1>7. CASE D!Spawn(c)
    <2>1. D!Reads(c) /\ UNCHANGED outq
      BY <1>7 DEF D!Spawn
    <2>2. \A d \in Conn : LineFrame(d) /\ ReplyFrame(d)
      BY <1>1, <1>3, <2>1 DEF LineFrame, ReplyFrame
    <2>3. TaskFrame
      BY <1>3, <1>7, <2>1 DEF TaskFrame, D!Spawn
    <2> QED
      BY <2>2, <2>3
  <1>8. CASE D!WriteOut(c)
    <2>1. /\ down' = [down EXCEPT ![c] = Append(@, Head(outq[c]))] /\ outq[c] # << >>
          /\ outq' = [outq EXCEPT ![c] = Tail(@)] /\ UNCHANGED <<up, tasks>>
      BY <1>8 DEF D!WriteOut
    <2>2. /\ Range(outq'[c]) \subseteq Range(outq[c])
          /\ Range(down'[c]) \subseteq Range(down[c]) \cup Range(outq[c])
      <3>1. outq'[c] = Tail(outq[c]) /\ down'[c] = Append(down[c], Head(outq[c]))
        BY <2>1 DEF TypeInv, ServedTyped
      <3>2. /\ Head(outq[c]) \in DaemonAnswers /\ Head(outq[c]) \in Range(outq[c])
            /\ Range(Tail(outq[c])) \subseteq Range(outq[c])
        BY <1>2, <2>1, RangeTail
      <3> QED
        BY <1>2, <3>1, <3>2, RangeAppend
    <2>3. \A d \in Conn \ {c} : outq'[d] = outq[d] /\ down'[d] = down[d]
      BY <2>1 DEF TypeInv, ServedTyped
    <2> QED
      BY <1>1, <2>1, <2>2, <2>3 DEF LineFrame, ReplyFrame, TaskFrame
  <1>9. CASE D!Close(c)
    <2>1. outq' = [outq EXCEPT ![c] = << >>] /\ UNCHANGED <<up, down, tasks>>
      BY <1>9 DEF D!Close
    <2>2. \A d \in Conn : Range(outq'[d]) \subseteq Range(outq[d])
      BY <2>1, RangeEmpty DEF TypeInv, ServedTyped
    <2> QED
      BY <1>1, <2>1, <2>2 DEF LineFrame, ReplyFrame, TaskFrame
  <1> QED
    BY <1>5, <1>6, <1>7, <1>8, <1>9 DEF ServeSteps, D!ServeStep

LEMMA FrameTask ==
    ASSUME TypeInv, NEW c \in Conn, TaskSteps(c)
    PROVE  (\A d \in Conn : LineFrame(d) /\ ReplyFrame(d)) /\ TaskFrame
  <1>1. UNCHANGED queue
    BY DEF TaskSteps, untouched, inner
  <1>2. PICK t \in tasks : t.conn = c /\ D!TaskStep(t)
    BY DEF TaskSteps
  <1>3. t \in Tasks /\ outq[c] \in Seq(DaemonAnswers)
    BY DEF TypeInv, ServedTyped
  <1>4. CASE D!Execute(t)
    <2>1. /\ \E s \in IF t.method = Auth THEN {"error"} ELSE {"ok", "error"} :
               tasks' = (tasks \ {t}) \cup {[t EXCEPT !.stage = "ran", !.status = s]}
          /\ UNCHANGED <<up, down, outq>>
      BY <1>4 DEF D!Execute
    <2>2. TaskFrame
      <3>1. PICK s \in {"ok", "error"} :
              /\ tasks' = (tasks \ {t}) \cup {[t EXCEPT !.stage = "ran", !.status = s]}
              /\ t.method = Auth => s = "error"
        BY <2>1
      <3> DEFINE n == [t EXCEPT !.stage = "ran", !.status = s]
      <3>2. /\ n.conn = t.conn /\ n.id = t.id /\ n.method = t.method /\ n.stage = "ran"
            /\ n.status = s
        BY <1>3 DEF Tasks
      <3> HIDE DEF n
      <3> QED
        BY <1>4, <3>1, <3>2 DEF TaskFrame, n
    <2> QED
      BY <1>1, <2>1, <2>2 DEF LineFrame, ReplyFrame
  <1>5. CASE D!Respond(t)
    <2>1. /\ tasks' \subseteq tasks /\ UNCHANGED <<up, down>> /\ t.stage = "ran"
          /\ UNCHANGED outq \/ D!Put(c, D!Answer(t.id, t.method, t.status))
      BY <1>2, <1>5 DEF D!Respond, D!SendAnswer
    <2> DEFINE a == D!Answer(t.id, t.method, t.status)
    <2>2. a \in DaemonAnswers /\ a.id = t.id /\ a.method = t.method /\ a.status = t.status
      BY <1>3, <2>1 DEF Tasks, D!Answer, DaemonAnswers
    <2> HIDE DEF a
    <2>3. \A d \in Conn \ {c} : outq'[d] = outq[d]
      BY <2>1 DEF D!Put, TypeInv, ServedTyped
    <2>4. Range(outq'[c]) \subseteq Range(outq[c]) \cup {a}
      <3>1. CASE UNCHANGED outq
        BY <3>1
      <3>2. CASE D!Put(c, a)
        <4>1. outq'[c] = Append(outq[c], a)
          BY <3>2 DEF D!Put, TypeInv, ServedTyped
        <4> QED
          BY <1>3, <2>2, <4>1, RangeAppend
      <3> QED
        BY <2>1, <3>1, <3>2 DEF a
    <2>5. \A d \in Conn : ReplyFrame(d)
      BY <1>2, <2>1, <2>2, <2>3, <2>4 DEF ReplyFrame
    <2> QED
      BY <1>1, <2>1, <2>5 DEF LineFrame, TaskFrame
  <1> QED
    BY <1>2, <1>4, <1>5 DEF D!TaskStep

LEMMA Frame ==
    ASSUME TypeInv, [Next]_vars
    PROVE  (\A d \in Conn : LineFrame(d) /\ ReplyFrame(d)) /\ TaskFrame
  <1>1. CASE UNCHANGED vars
    BY <1>1 DEF vars, clientVars, inner, wires, served, LineFrame, ReplyFrame, TaskFrame
  <1>2. CASE Saves \/ Resets
    BY <1>2 DEF Saves, SaveSettings, Resets, ResetClient, inner, wires, served,
                LineFrame, ReplyFrame, TaskFrame
  <1>3. ASSUME NEW c \in Conn, Break(c)
        PROVE  (\A d \in Conn : LineFrame(d) /\ ReplyFrame(d)) /\ TaskFrame
    <2>1. /\ UNCHANGED <<queue, outq, tasks>>
          /\ up' = [up EXCEPT ![c] = << >>] /\ down' = [down EXCEPT ![c] = << >>]
      BY <1>3 DEF Break, clientVars, inner, served
    <2>2. \A d \in Conn : /\ Range(up'[d]) \subseteq Range(up[d])
                          /\ Range(down'[d]) \subseteq Range(down[d])
      BY <2>1, RangeEmpty DEF TypeInv, ServedTyped
    <2> QED
      BY <2>1, <2>2 DEF LineFrame, ReplyFrame, TaskFrame
  <1>4. ASSUME NEW host \in Host, Crash(host)
        PROVE  (\A d \in Conn : LineFrame(d) /\ ReplyFrame(d)) /\ TaskFrame
    <2>1. /\ UNCHANGED queue /\ tasks' \subseteq tasks
          /\ \A d \in Conn : /\ up'[d] \in {up[d], << >>} /\ down'[d] \in {down[d], << >>}
                             /\ outq'[d] \in {outq[d], << >>}
      BY <1>4 DEF Crash, clientVars, inner
    <2>2. \A d \in Conn : /\ Range(up'[d]) \subseteq Range(up[d])
                          /\ Range(down'[d]) \subseteq Range(down[d])
                          /\ Range(outq'[d]) \subseteq Range(outq[d])
      BY <2>1, RangeEmpty
    <2> QED
      BY <2>1, <2>2 DEF LineFrame, ReplyFrame, TaskFrame
  <1> QED
    BY <1>1, <1>2, <1>3, <1>4, FrameClient, FrameConn, FrameServe, FrameTask DEF Next

\* Only the reader of a connection hands an answer over.
LEMMA ReplyMoves ==
    ASSUME TypeInv, [Next]_vars, NEW k \in Call
    PROVE  \/ reply'[k] \in {reply[k], NoReply, Disconnected}
           \/ \E c \in Conn : Read(c) /\ reply' # reply
  <1>1. ASSUME NEW j \in Call, ClientSteps(j) PROVE reply'[k] \in {reply[k], NoReply}
    BY <1>1 DEF ClientSteps, CallStep, Look, Resolve, ConnectFails, Publish, Check, CheckLost,
           Pend, Send, SendFails, ReceiveOk, ReceiveError, Timeout, Clear, TypeInv, CallsTyped
  <1>2. ASSUME NEW c \in Conn, ConnSteps(c)
        PROVE  reply'[k] \in {reply[k], Disconnected} \/ (Read(c) /\ reply' # reply)
    BY <1>2 DEF ConnSteps, ConnStep, WriteOk, WriteFails, WriterEnds, Read, ReadEnds,
           MarkDisconnected, caller
  <1>3. ASSUME NEW j \in Call, NEW c \in Conn, Connects(j, c) PROVE reply' = reply
    BY <1>3 DEF Connects, Connect
  <1>4. ASSUME NEW c \in Conn, ServeSteps(c) \/ TaskSteps(c) \/ Break(c) PROVE reply' = reply
    BY <1>4 DEF ServeSteps, TaskSteps, Break, untouched, clientVars, caller
  <1>5. CASE \/ UNCHANGED vars \/ Saves \/ Resets \/ \E host \in Host : Crash(host)
    BY <1>5 DEF vars, Saves, SaveSettings, Resets, ResetClient, Crash, clientVars, caller
  <1> QED
    BY <1>1, <1>2, <1>3, <1>4, <1>5 DEF Next

----------------------------------------------------------------------------
(* Answers reach their calls                                                *)

LEMMA AskedStays ==
    ASSUME TypeInv, [Next]_vars, NEW c \in Conn, NEW i \in Nat, NEW m, Asked(c, i, m)
    PROVE  Asked(c, i, m)'
  <1>1. i < nextId'[c]
    BY CallFrame, TypeNext DEF Asked, TypeInv, ClientTyped
  <1>2. ASSUME NEW k \in Call, pc'[k] \in InCall, use'[k] = c, id'[k] = i PROVE asks'[k] = m
    <2>1. CASE /\ pc[k] \in InCall /\ use'[k] = use[k]
               /\ id'[k] = id[k] /\ asks'[k] = asks[k]
      BY <1>2, <2>1 DEF Asked
    <2>2. CASE Takes(k)
      <3>1. id'[k] = nextId[c] /\ nextId[c] \in Nat
        BY <1>2, <2>2 DEF Takes, TypeInv, ClientTyped
      <3> QED
        BY <1>2, <3>1 DEF Asked
    <2> QED
      BY <1>2, <2>1, <2>2, CallFrame
  <1> QED
    BY <1>1, <1>2 DEF Asked, InCall

\* What a call sends is what it asks for.
LEMMA LineAsked ==
    ASSUME TypeInv, IdsInv, NEW k \in Call, pc[k] \in InCall
    PROVE  Asked(use[k], Line(k).id, Line(k).method)
  BY DEF IdsInv, Asked, Line, TypeInv, CallsTyped, Located

LEMMA TrafficTyped ==
    ASSUME TypeInv, NEW c \in Conn
    PROVE  /\ Range(queue[c]) \subseteq Requests /\ Range(up[c]) \subseteq Requests
           /\ Range(outq[c]) \subseteq DaemonAnswers /\ Range(down[c]) \subseteq DaemonAnswers
           /\ \A l \in Requests : l.id \in Nat /\ l.method \in Methods
           /\ \A a \in DaemonAnswers : a.id \in Nat /\ a.method \in Methods
                                       /\ a.status \in {"ok", "error", "refused"}
  <1>1. /\ queue[c] \in Seq(Requests) /\ up[c] \in Seq(Requests)
        /\ outq[c] \in Seq(DaemonAnswers) /\ down[c] \in Seq(DaemonAnswers)
    BY DEF TypeInv, ClientTyped, ServedTyped
  <1> QED
    BY <1>1, RangeIn DEF Requests, DaemonAnswers, Methods

LEMMA IdsNext ==
    ASSUME TypeInv, IdsInv, [Next]_vars
    PROVE  IdsInv'
  <1>1. ASSUME NEW k \in Call, pc'[k] \in InCall PROVE id'[k] < nextId'[use'[k]]
    <2>1. use'[k] \in Conn
      BY <1>1, TypeNext DEF TypeInv, Located
    <2>2. CASE /\ pc[k] \in InCall /\ use'[k] = use[k] /\ id'[k] = id[k]
      <3>1. /\ id[k] < nextId[use[k]] /\ nextId[use[k]] <= nextId'[use[k]]
            /\ id[k] \in Nat /\ nextId[use[k]] \in Nat /\ nextId'[use[k]] \in Nat
        BY <2>1, <2>2, CallFrame, TypeNext DEF IdsInv, TypeInv, CallsTyped, ClientTyped
      <3> QED
        BY <2>2, <3>1
    <2>3. CASE Takes(k)
      BY <2>1, <2>3 DEF Takes, TypeInv, ClientTyped
    <2> QED
      BY <1>1, <2>2, <2>3, CallFrame
  <1>2. ASSUME NEW k \in Call, NEW j \in Call \ {k}, pc'[k] \in InCall, pc'[j] \in InCall,
               use'[j] = use'[k]
        PROVE  id'[j] # id'[k]
    <2>0. \A i \in Call : pc[i] \in InCall =>
             id[i] < nextId[use[i]] /\ id[i] \in Nat /\ nextId[use[i]] \in Nat
      BY DEF IdsInv, TypeInv, CallsTyped, ClientTyped, Located
    <2>1. CASE Takes(k) /\ Alone(k)
      <3>1. /\ pc[j] \in InCall /\ use[j] = use[k] /\ id'[j] = id[j] /\ id'[k] = nextId[use[k]]
        BY <1>2, <2>1 DEF Takes, Alone
      <3> QED
        BY <2>0, <3>1
    <2>2. CASE Takes(j) /\ Alone(j)
      <3>1. /\ pc[k] \in InCall /\ use[j] = use[k] /\ id'[k] = id[k] /\ id'[j] = nextId[use[j]]
        BY <1>2, <2>2 DEF Takes, Alone
      <3> QED
        BY <2>0, <3>1
    <2>3. CASE /\ pc[k] \in InCall /\ use'[k] = use[k] /\ id'[k] = id[k]
               /\ pc[j] \in InCall /\ use'[j] = use[j] /\ id'[j] = id[j]
      BY <1>2, <2>3 DEF IdsInv
    <2> QED
      BY <1>2, <2>1, <2>2, <2>3, CallFrame
  <1> QED
    BY <1>1, <1>2 DEF IdsInv

LEMMA TrafficNext ==
    ASSUME TypeInv, IdsInv, TrafficInv, [Next]_vars
    PROVE  TrafficInv'
  <1>1. ASSUME NEW c \in Conn, NEW l \in Range(queue'[c]) PROVE Asked(c, l.id, l.method)'
    <2>1. CASE l \in Range(queue[c])
      BY <2>1, AskedStays, TrafficTyped DEF TrafficInv
    <2>2. ASSUME NEW k \in Call, Send(k), use[k] = c, l = Line(k) PROVE Asked(c, l.id, l.method)'
      <3>1. pc[k] \in InCall /\ l.id \in Nat
        BY <2>2 DEF Send, InCall, Line, TypeInv, CallsTyped
      <3> QED
        BY <2>2, <3>1, AskedStays, LineAsked
    <2> QED
      BY <1>1, <2>1, <2>2, Frame DEF LineFrame
  <1>2. ASSUME NEW c \in Conn, NEW l \in Range(up'[c]) PROVE Asked(c, l.id, l.method)'
    BY <1>2, AskedStays, TrafficTyped, Frame DEF TrafficInv, LineFrame
  <1>3. ASSUME NEW t \in tasks' PROVE Asked(t.conn, t.id, t.method)'
    <2>1. CASE t \in tasks
      BY <2>1, AskedStays DEF TrafficInv, TypeInv, ServedTyped, Tasks
    <2>2. t.conn \in Conn
      BY <1>3, TypeNext DEF TypeInv, ServedTyped, Tasks
    <2>3. CASE \E l \in Range(up[t.conn]) : t.id = l.id /\ t.method = l.method
      BY <2>2, <2>3, AskedStays, TrafficTyped DEF TrafficInv
    <2>4. CASE \E u \in tasks : t.conn = u.conn /\ t.id = u.id /\ t.method = u.method
      BY <2>4, AskedStays DEF TrafficInv, TypeInv, ServedTyped, Tasks
    <2> QED
      BY <1>3, <2>1, <2>3, <2>4, Frame DEF TaskFrame
  <1>4. ASSUME NEW c \in Conn, NEW a \in Range(outq'[c]) PROVE Asked(c, a.id, a.method)'
    <2>1. CASE a \in Range(outq[c])
      BY <2>1, AskedStays, TrafficTyped DEF TrafficInv
    <2>2. CASE \E l \in Range(up[c]) : a.id = l.id /\ a.method = l.method
      BY <2>2, AskedStays, TrafficTyped DEF TrafficInv
    <2>3. CASE \E t \in tasks : t.conn = c /\ a.id = t.id /\ a.method = t.method
      BY <2>3, AskedStays DEF TrafficInv, TypeInv, ServedTyped, Tasks
    <2> QED
      BY <1>4, <2>1, <2>2, <2>3, Frame DEF ReplyFrame
  <1>5. ASSUME NEW c \in Conn, NEW a \in Range(down'[c]) PROVE Asked(c, a.id, a.method)'
    BY <1>5, AskedStays, TrafficTyped, Frame DEF TrafficInv, ReplyFrame
  <1> QED
    BY <1>1, <1>2, <1>3, <1>4, <1>5 DEF TrafficInv

\* The entries of a connection are told apart by their calls as by their ids.
LEMMA EntriesApart ==
    ASSUME TypeInv, IdsInv, TableInv, NEW c \in Conn, NEW e \in pending[c]
    PROVE  /\ e.id \in Nat /\ e.call \in Call /\ e = [id |-> e.id, call |-> e.call]
           /\ pc[e.call] \in {"send", "wait"} /\ use[e.call] = c /\ id[e.call] = e.id
           /\ \A d \in Conn : \A f \in pending[d] :
                f.call = e.call \/ (d = c /\ f.id = e.id) => d = c /\ f = e
  <1>1. \A d \in Conn : \A f \in pending[d] :
           /\ f.id \in Nat /\ f.call \in Call /\ f = [id |-> f.id, call |-> f.call]
           /\ pc[f.call] \in {"send", "wait"} /\ use[f.call] = d /\ id[f.call] = f.id
    BY DEF TypeInv, ClientTyped, TableInv, NoForgottenRequest
  <1>2. ASSUME NEW d \in Conn, NEW f \in pending[d], f.call = e.call PROVE d = c /\ f = e
    BY <1>1, <1>2
  <1>3. ASSUME NEW f \in pending[c], f.id = e.id PROVE f = e
    BY <1>1, <1>3 DEF IdsInv, InCall
  <1> QED
    BY <1>1, <1>2, <1>3

\* A call that returns, or gives up, has no entry any more.
LEMMA TableLeave ==
    ASSUME TypeInv, IdsInv, TableInv, NEW k \in Call, Alone(k), pc'[k] \notin InCall,
           UNCHANGED <<reply, late, connected>>,
           \/ /\ pc[k] \in {"send", "wait"}
              /\ pending' = [pending EXCEPT ![use[k]] = {e \in @ : e.id # id[k]}]
           \/ pending' = pending /\ ~(pc[k] \in {"send", "wait"} /\ reply[k] = NoReply)
    PROVE  TableInv'
  <1>1. \A c \in Conn : pending'[c] \subseteq pending[c]
    BY ZenonT(30) DEF TypeInv, ClientTyped
  <1>2. ASSUME NEW c \in Conn, NEW e \in pending'[c] PROVE e.call # k
    <2>1. e \in pending[c] /\ pc[e.call] \in {"send", "wait"} /\ use[e.call] = c
             /\ id[e.call] = e.id /\ reply[e.call] = NoReply
      BY <1>1, <1>2 DEF TableInv, NoForgottenRequest, EntryInv
    <2> QED
      BY <1>2, <2>1 DEF TypeInv, ClientTyped
  <1>3. NoForgottenRequest' /\ EntryInv'
    <2>1. \A c \in Conn : \A e \in pending'[c] : e.call \in Call \ {k}
      BY <1>1, <1>2 DEF TypeInv, ClientTyped
    <2> QED
      BY <1>1, <2>1 DEF TableInv, NoForgottenRequest, EntryInv, Alone, InCall
  <1>4. ReplyInv'
    BY DEF TableInv, ReplyInv, Alone
  <1>5. WaitInv'
    <2>1. ASSUME NEW j \in Call, pc'[j] \in {"send", "wait"}, reply'[j] = NoReply, j \notin late'
          PROVE  connected'[use'[j]] /\ [id |-> id'[j], call |-> j] \in pending'[use'[j]]
      <3>1. /\ j # k /\ pc[j] = pc'[j] /\ use'[j] = use[j] /\ id'[j] = id[j] /\ use[j] \in Conn
        BY <2>1 DEF Alone, TypeInv, Located, InCall
      <3>2. connected[use[j]] /\ [id |-> id[j], call |-> j] \in pending[use[j]]
        BY <2>1, <3>1 DEF TableInv, WaitInv
      <3>3. ~(pc[k] \in InCall /\ use[k] = use[j] /\ id[k] = id[j])
        BY <2>1, <3>1 DEF IdsInv, InCall
      <3>4. CASE pending' = pending
        BY <3>1, <3>2, <3>4, <2>1
      <3>5. CASE /\ pc[k] \in {"send", "wait"}
                 /\ pending' = [pending EXCEPT ![use[k]] = {e \in @ : e.id # id[k]}]
        BY <3>1, <3>2, <3>3, <3>5 DEF TypeInv, ClientTyped, InCall
      <3> QED
        BY <3>4, <3>5
    <2> QED
      BY <2>1 DEF WaitInv
  <1> QED
    BY <1>3, <1>4, <1>5 DEF TableInv

LEMMA TableCall ==
    ASSUME TypeInv, IdsInv, TableInv, NEW k \in Call, ClientSteps(k)
    PROVE  TableInv'
  <1>0. Alone(k)
    BY CallMoves
  <1>1. ASSUME pc[k] \notin {"pend", "send", "wait"}, pc'[k] \notin InCall,
               UNCHANGED <<reply, late, connected, pending>>
        PROVE  TableInv'
    BY <1>0, <1>1, TableLeave
  <1>2. CASE Look(k) \/ Resolve(k) \/ Publish(k)
    BY <1>1, <1>2 DEF Look, Resolve, Publish, Goto, inner, InCall, TypeInv, CallsTyped
  <1>3. CASE ConnectFails(k) \/ CheckLost(k) \/ Clear(k)
    <2>1. pc'[k] \notin InCall
      BY <1>3 DEF ConnectFails, CheckLost, Clear, Fail, Return, Goto, InCall, TypeInv, CallsTyped
    <2> QED
      BY <1>1, <1>3, <2>1 DEF ConnectFails, CheckLost, Clear, inner
  <1>4. CASE Check(k)
    <2>1. /\ pc[k] = "check" /\ reply' = [reply EXCEPT ![k] = NoReply]
          /\ pc'[k] = "pend" /\ UNCHANGED <<late, connected, pending>>
      BY <1>4 DEF Check, Goto, TypeInv, CallsTyped
    <2>2. reply'[k] = NoReply /\ \A j \in Call \ {k} : reply'[j] = reply[j]
      BY <2>1 DEF TypeInv, CallsTyped
    <2>3. \A c \in Conn : \A e \in pending[c] : e.call \in Call \ {k}
      BY <2>1, EntriesApart
    <2>4. ReplyInv'
      BY <1>0, <2>2, ReplyFields DEF TableInv, ReplyInv, Alone
    <2>5. NoForgottenRequest'
      BY <1>0, <2>1, <2>3 DEF TableInv, NoForgottenRequest, Alone
    <2>6. EntryInv'
      BY <1>0, <2>1, <2>2, <2>3 DEF TableInv, EntryInv, Alone
    <2>7. WaitInv'
      BY <1>0, <2>1, <2>2 DEF TableInv, WaitInv, Alone
    <2> QED
      BY <2>4, <2>5, <2>6, <2>7 DEF TableInv
  <1>5. CASE Pend(k)
    <2>1. /\ pc[k] = "pend" /\ pc'[k] = "send" /\ use'[k] = use[k] /\ id'[k] = id[k]
          /\ asks'[k] = asks[k] /\ use[k] \in Conn /\ UNCHANGED <<reply, connected>>
          /\ late' = IF connected[use[k]] THEN late ELSE late \cup {k}
      BY <1>5 DEF Pend, Goto, TypeInv, CallsTyped, Located, InCall
    <2>2. /\ pending'[use[k]] = pending[use[k]] \cup {[id |-> id[k], call |-> k]}
          /\ \A c \in Conn \ {use[k]} : pending'[c] = pending[c]
      BY <1>5, <2>1 DEF Pend, TypeInv, ClientTyped
    <2>3. reply[k] = NoReply
      BY <2>1 DEF TableInv, EntryInv
    <2>4. ReplyInv'
      BY <1>0, <2>1, <2>3, ReplyFields DEF TableInv, ReplyInv, Alone, InCall
    <2>5. ASSUME NEW c \in Conn, NEW e \in pending'[c]
          PROVE  /\ pc'[e.call] \in {"send", "wait"} /\ use'[e.call] = c
                 /\ id'[e.call] = e.id /\ reply'[e.call] = NoReply
      <3>1. CASE e \in pending[c]
        <4>1. e.call \in Call /\ e.call # k
          BY <2>1, <3>1, EntriesApart
        <4> QED
          BY <1>0, <2>1, <3>1, <4>1 DEF TableInv, NoForgottenRequest, EntryInv, Alone
      <3>2. CASE e = [id |-> id[k], call |-> k] /\ c = use[k]
        BY <2>1, <2>3, <3>2
      <3> QED
        BY <2>2, <2>5, <3>1, <3>2
    <2>6. NoForgottenRequest' /\ EntryInv'
      <3>1. \A j \in Call : pc'[j] = "pend" => reply'[j] = NoReply
        BY <1>0, <2>1 DEF TableInv, EntryInv, Alone
      <3> QED
        BY <2>5, <3>1 DEF NoForgottenRequest, EntryInv
    <2>7. ASSUME NEW j \in Call, pc'[j] \in {"send", "wait"}, reply'[j] = NoReply, j \notin late'
          PROVE  connected'[use'[j]] /\ [id |-> id'[j], call |-> j] \in pending'[use'[j]]
      <3>1. CASE j = k
        BY <2>1, <2>2, <2>7, <3>1
      <3>2. CASE j # k
        <4>1. /\ connected[use[j]] /\ [id |-> id[j], call |-> j] \in pending[use[j]]
              /\ use[j] \in Conn /\ use'[j] = use[j] /\ id'[j] = id[j]
          BY <1>0, <2>1, <2>7, <3>2 DEF TableInv, WaitInv, Alone, TypeInv, Located, InCall
        <4> QED
          BY <2>1, <2>2, <4>1
      <3> QED
        BY <3>1, <3>2
    <2> QED
      BY <2>4, <2>6, <2>7 DEF TableInv, WaitInv
  <1>6. CASE Send(k)
    <2>1. /\ pc[k] = "send" /\ pc'[k] = "wait" /\ use'[k] = use[k] /\ id'[k] = id[k]
          /\ asks'[k] = asks[k] /\ UNCHANGED <<reply, late, connected, pending>>
      BY <1>6 DEF Send, Goto, TypeInv, CallsTyped
    <2>2. ReplyInv'
      BY <1>0, <2>1 DEF TableInv, ReplyInv, Alone, InCall
    <2>3. NoForgottenRequest' /\ EntryInv'
      <3>1. \A c \in Conn : \A e \in pending[c] : e.call \in Call
        BY EntriesApart
      <3> QED
        BY <1>0, <2>1, <3>1 DEF TableInv, NoForgottenRequest, EntryInv, Alone
    <2>4. WaitInv'
      BY <1>0, <2>1 DEF TableInv, WaitInv, Alone
    <2> QED
      BY <2>2, <2>3, <2>4 DEF TableInv
  <1>7. CASE SendFails(k) \/ Timeout(k)
    <2>1. pc'[k] \notin InCall
      BY <1>7, TypeNext DEF SendFails, Timeout, Fail, Return, Goto, InCall, TypeInv, CallsTyped
    <2> QED
      BY <1>0, <1>7, <2>1, TableLeave DEF SendFails, Timeout, Unpend
  <1>8. CASE ReceiveOk(k) \/ ReceiveError(k)
    <2>1. pc'[k] \notin InCall /\ reply[k] # NoReply
      BY <1>8 DEF ReceiveOk, ReceiveError, Received, Fail, Return, Goto, InCall, TypeInv, CallsTyped
    <2> QED
      BY <1>0, <1>8, <2>1, TableLeave DEF ReceiveOk, ReceiveError, inner
  <1> QED
    BY <1>2, <1>3, <1>4, <1>5, <1>6, <1>7, <1>8 DEF ClientSteps, CallStep

LEMMA TableConnects ==
    ASSUME TypeInv, IdsInv, TableInv, NEW k \in Call, NEW c \in Conn, Connects(k, c)
    PROVE  TableInv'
  <1>1. /\ pc[k] \notin InCall /\ pc'[k] \notin InCall /\ target[c] = None
        /\ UNCHANGED <<reply, late, pending, id>> /\ Alone(k)
        /\ connected' = [connected EXCEPT ![c] = TRUE]
    BY DEF Connects, Connect, AfterConnect, Goto, InCall, Alone, TypeInv, CallsTyped
  <1>2. \A d \in Conn : connected[d] => connected'[d]
    BY <1>1 DEF TypeInv, ClientTyped
  <1>3. \A d \in Conn : \A e \in pending[d] : e.call \in Call \ {k}
    BY <1>1, EntriesApart DEF InCall
  <1>4. ReplyInv' /\ NoForgottenRequest' /\ EntryInv'
    BY <1>1, <1>3 DEF TableInv, ReplyInv, NoForgottenRequest, EntryInv, Alone, InCall
  <1>5. WaitInv'
    BY <1>1, <1>2 DEF TableInv, WaitInv, Alone, InCall, TypeInv, Located
  <1> QED
    BY <1>4, <1>5 DEF TableInv

\* The drain tells everybody in the table, and nobody else.
LEMMA TableDrain ==
    ASSUME TypeInv, IdsInv, TableInv, NEW c \in Conn, MarkDisconnected(c),
           UNCHANGED <<pc, use, id, asks, late>>
    PROVE  TableInv'
  <1>1. /\ pending'[c] = {} /\ connected' = [connected EXCEPT ![c] = FALSE]
        /\ \A d \in Conn \ {c} : pending'[d] = pending[d] /\ connected'[d] = connected[d]
        /\ \A k \in Call : reply'[k] = IF \E e \in pending[c] : e.call = k THEN Disconnected
                                       ELSE reply[k]
    BY DEF MarkDisconnected, TypeInv, ClientTyped, CallsTyped
  <1>2. ReplyInv'
    BY <1>1, ReplyFields DEF TableInv, ReplyInv
  <1>3. ASSUME NEW d \in Conn, NEW e \in pending'[d]
        PROVE  d # c /\ e \in pending[d] /\ e.call \in Call /\ reply'[e.call] = reply[e.call]
    <2>1. d # c /\ e \in pending[d]
      BY <1>1, <1>3
    <2> QED
      BY <1>1, <2>1, EntriesApart
  <1>4. NoForgottenRequest' /\ EntryInv'
    <2>1. ASSUME NEW k \in Call, pc[k] = "pend" PROVE reply'[k] = reply[k]
      BY <1>1, <2>1, EntriesApart
    <2> QED
      BY <1>3, <2>1 DEF TableInv, NoForgottenRequest, EntryInv
  <1>5. ASSUME NEW k \in Call, pc[k] \in {"send", "wait"}, reply'[k] = NoReply, k \notin late
        PROVE  connected'[use[k]] /\ [id |-> id[k], call |-> k] \in pending'[use[k]]
    <2>1. reply[k] = NoReply /\ \A e \in pending[c] : e.call # k
      BY <1>1, <1>5, ReplyFields
    <2>2. /\ connected[use[k]] /\ [id |-> id[k], call |-> k] \in pending[use[k]]
          /\ use[k] \in Conn
      BY <1>5, <2>1 DEF TableInv, WaitInv, TypeInv, Located, InCall
    <2>3. use[k] # c
      BY <2>1, <2>2
    <2> QED
      BY <1>1, <2>2, <2>3
  <1>6. WaitInv'
    BY <1>5 DEF WaitInv
  <1> QED
    BY <1>2, <1>4, <1>6 DEF TableInv

\* The reader hands an answer to the call whose entry it takes.
LEMMA TableRead ==
    ASSUME TypeInv, IdsInv, TrafficInv, TableInv, NEW c \in Conn, Read(c)
    PROVE  TableInv'
  <1>1. UNCHANGED <<pc, use, id, asks, late, connected>>
    BY DEF Read
  <1>2. CASE UNCHANGED <<pending, reply>>
    BY <1>1, <1>2 DEF TableInv, ReplyInv, NoForgottenRequest, EntryInv, WaitInv
  <1>3. ASSUME NEW e \in pending[c], e.id = Head(down[c]).id, down[c] # << >>,
               pending' = [pending EXCEPT ![c] = @ \ {e}],
               reply' = [reply EXCEPT ![e.call] =
                 [method |-> Head(down[c]).method, status |-> Head(down[c]).status]]
        PROVE  TableInv'
    <2>1. /\ e.call \in Call /\ pc[e.call] \in {"send", "wait"} /\ use[e.call] = c
          /\ id[e.call] = e.id /\ e = [id |-> e.id, call |-> e.call]
      BY EntriesApart
    <2>2. Head(down[c]) \in Range(down[c]) /\ Head(down[c]) \in DaemonAnswers
      <3>1. down[c] \in Seq(DaemonAnswers)
        BY DEF TypeInv, ServedTyped
      <3> QED
        BY <1>3, <3>1, RangeTail
    <2>3. Head(down[c]).method = asks[e.call]
      BY <1>3, <2>1, <2>2 DEF TrafficInv, Asked, InCall
    <2>4. /\ reply'[e.call] = [method |-> Head(down[c]).method, status |-> Head(down[c]).status]
          /\ reply'[e.call] # NoReply
          /\ \A k \in Call \ {e.call} : reply'[k] = reply[k]
      <3>1. [method |-> Head(down[c]).method, status |-> Head(down[c]).status] \in Answers
        BY <2>2 DEF DaemonAnswers, Answers, Methods
      <3> QED
        BY <1>3, <2>1, <3>1, ReplyFields DEF TypeInv, CallsTyped
    <2>5. /\ pending'[c] = pending[c] \ {e}
          /\ \A d \in Conn \ {c} : pending'[d] = pending[d]
      BY <1>3 DEF TypeInv, ClientTyped
    <2>6. ReplyInv'
      BY <1>1, <2>3, <2>4 DEF TableInv, ReplyInv
    <2>7. ASSUME NEW d \in Conn, NEW f \in pending'[d]
          PROVE  f \in pending[d] /\ f.call \in Call \ {e.call}
      <3>1. f \in pending[d] /\ ~(d = c /\ f = e)
        BY <2>5, <2>7
      <3>2. f.call \in Call
        BY <3>1, EntriesApart
      <3>3. f.call # e.call
        BY <3>1, EntriesApart
      <3> QED
        BY <3>1, <3>2, <3>3
    <2>8. NoForgottenRequest' /\ EntryInv'
      BY <1>1, <2>1, <2>4, <2>7 DEF TableInv, NoForgottenRequest, EntryInv
    <2>9. WaitInv'
      <3>1. ASSUME NEW k \in Call, pc[k] \in {"send", "wait"}, reply'[k] = NoReply, k \notin late
            PROVE  connected[use[k]] /\ [id |-> id[k], call |-> k] \in pending'[use[k]]
        <4>1. k # e.call /\ reply[k] = NoReply
          BY <2>4, <3>1
        <4>2. /\ connected[use[k]] /\ [id |-> id[k], call |-> k] \in pending[use[k]]
              /\ use[k] \in Conn
          BY <3>1, <4>1 DEF TableInv, WaitInv, TypeInv, Located, InCall
        <4>3. [id |-> id[k], call |-> k] # e
          BY <4>1
        <4> QED
          BY <2>5, <4>2, <4>3
      <3> QED
        BY <1>1, <3>1 DEF WaitInv
    <2> QED
      BY <2>6, <2>8, <2>9 DEF TableInv
  <1> QED
    BY <1>2, <1>3 DEF Read, Awaiting

LEMMA TableNext ==
    ASSUME TypeInv, IdsInv, TrafficInv, TableInv, [Next]_vars
    PROVE  TableInv'
  <1>1. CASE UNCHANGED <<pc, use, id, asks, reply, late, pending, connected>>
    BY <1>1 DEF TableInv, ReplyInv, NoForgottenRequest, EntryInv, WaitInv
  <1>2. ASSUME NEW c \in Conn, ConnSteps(c) PROVE TableInv'
    <2>1. CASE WriteOk(c) \/ WriterEnds(c)
      BY <1>1, <2>1 DEF WriteOk, WriterEnds, caller
    <2>2. CASE WriteFails(c) \/ ReadEnds(c)
      BY <2>2, TableDrain DEF WriteFails, ReadEnds
    <2> QED
      BY <1>2, <2>1, <2>2, TableRead DEF ConnSteps, ConnStep
  <1>3. CASE UNCHANGED vars
    BY <1>1, <1>3 DEF vars, clientVars, caller, inner
  <1>4. ASSUME NEW c \in Conn, ServeSteps(c) \/ TaskSteps(c) \/ Break(c) PROVE TableInv'
    BY <1>1, <1>4 DEF ServeSteps, TaskSteps, Break, untouched, clientVars, caller, inner
  <1>5. CASE Saves \/ Resets \/ \E host \in Host : Crash(host)
    BY <1>1, <1>5 DEF Saves, SaveSettings, Resets, ResetClient, Crash, clientVars, caller, inner
  <1> QED
    BY <1>2, <1>3, <1>4, <1>5, TableCall, TableConnects DEF Next

LEMMA AnswerInit == Init => AnswerInv
  <1> SUFFICES ASSUME Init PROVE AnswerInv
    OBVIOUS
  <1>1. IdsInv /\ TableInv
    BY ReplyFields DEF Init, ClientInit, IdsInv, TableInv, ReplyInv, NoForgottenRequest, EntryInv,
                       WaitInv, InCall
  <1>2. TrafficInv
    BY RangeEmpty DEF Init, ClientInit, WireInit, D!ServedInit, TrafficInv
  <1> QED
    BY <1>1, <1>2, TypeInit DEF AnswerInv

LEMMA AnswerNext ==
    ASSUME AnswerInv, [Next]_vars
    PROVE  AnswerInv'
  BY TypeNext, IdsNext, TrafficNext, TableNext DEF AnswerInv

LEMMA AnswersSound == Spec => []AnswerInv
  BY AnswerInit, AnswerNext, PTL DEF Spec

\* The answer a call gets is the answer to what it asked, whatever requests of
\* other calls travel on the same connection (dispatch_incoming_line).
THEOREM AnswersReachTheirCall == Spec => []OwnAnswer
  <1>1. AnswerInv => OwnAnswer
    BY DEF AnswerInv, TableInv, ReplyInv, OwnAnswer, InCall
  <1> QED
    BY <1>1, AnswersSound, PTL

\* The pending table of a connection holds exactly what somebody waits for: no
\* request of a call that has given up, and none that a lost connection left
\* untold, but for those that entered the table after it had been drained.
THEOREM TableMatchesWaiters == Spec => []PendingIsAwaited
  <1>1. AnswerInv => PendingIsAwaited
    BY DEF AnswerInv, TableInv, WaitInv, PendingIsAwaited, LostWaitersAreTold
  <1> QED
    BY <1>1, AnswersSound, PTL

----------------------------------------------------------------------------
(* Tokens                                                                   *)

\* The handshake on c is over if it can succeed.
Shaken(c) == target[c].token = D!Required(c) => authed[c]

AuthedInv ==
    \A c \in Conn : target[c] \in Setting /\ authed[c] =>
        D!Required(c) \in {None, target[c].token}

\* A client is shared, or used for a call of its own, after the handshake.
SharedInv ==
    /\ cached \in Conn => Shaken(cached)
    /\ \A k \in Call :
         use[k] \in Conn /\ (pc[k] = "publish" \/ asks[k] # Auth) => Shaken(use[k])

\* The auth request carries the token of the settings; others come after it.
LinesInv ==
    \A c \in Conn : \A l \in Range(queue[c]) \cup Range(up[c]) :
        IF l.method = Auth THEN l.token = target[c].token ELSE Shaken(c)

\* What an answer says about the connection it was given on.
Tells(c, m, s) ==
    /\ m = Auth /\ s = "ok" => authed[c]
    /\ m # Auth /\ s = "refused" => target[c].token # D!Required(c)

ToldInv ==
    /\ \A c \in Conn : \A a \in Range(outq[c]) \cup Range(down[c]) : Tells(c, a.method, a.status)
    /\ \A k \in Call : pc[k] \in InCall /\ reply[k] \in Answers =>
         Tells(use[k], reply[k].method, reply[k].status)
    /\ \A t \in tasks : authed[t.conn] /\ (t.method = Auth => t.status # "ok")

TokenInv == AuthedInv /\ SharedInv /\ LinesInv /\ ToldInv

----------------------------------------------------------------------------
(* The cached client                                                        *)

FreshInv ==
    /\ CachedIsCurrent
    /\ \A k \in Call : use[k] \in Conn /\ asks[k] = Auth =>
         target[use[k]] = settings \/ use[k] \in overtaken

----------------------------------------------------------------------------
(* The token alone decides                                                  *)

\* A connection is made for one setting; who is let in stays in.
LEMMA TargetFrame ==
    ASSUME TypeInv, [Next]_vars, NEW c \in Conn, target[c] \in Setting
    PROVE  target'[c] = target[c] /\ (authed[c] => authed'[c])
  <1>0. target[c] # None
    BY SettingFields
  <1>1. ASSUME NEW k \in Call, NEW d \in Conn, Connects(k, d)
        PROVE  target'[c] = target[c] /\ authed'[c] = authed[c]
    BY <1>0, <1>1 DEF Connects, Connect, D!Accept, TypeInv, ClientTyped, ServedTyped
  <1>2. CASE \/ UNCHANGED vars \/ Saves \/ Resets
             \/ \E k \in Call : ClientSteps(k)
             \/ \E host \in Host : Crash(host)
    BY <1>2, SMTT(20) DEF vars, ClientSteps, Saves, SaveSettings, Resets, ResetClient, Crash,
           clientVars, served, CallStep, Look, Resolve, ConnectFails, Publish, Check, CheckLost,
           Pend, Send, SendFails, ReceiveOk, ReceiveError, Timeout, Clear
  <1>3. ASSUME NEW d \in Conn, ConnSteps(d) \/ Break(d) \/ TaskSteps(d)
        PROVE  UNCHANGED <<target, authed>>
    BY <1>3 DEF ConnSteps, ConnStep, WriteOk, WriteFails, WriterEnds, Read, ReadEnds,
           Break, TaskSteps, D!TaskStep, D!Execute, D!Respond, untouched, clientVars, served
  <1>4. ASSUME NEW d \in Conn, ServeSteps(d)
        PROVE  target'[c] = target[c] /\ (authed[c] => authed'[c])
    <2>1. UNCHANGED target
      BY <1>4 DEF ServeSteps, untouched
    <2>2. CASE D!Authenticate(d)
      BY <2>1, <2>2 DEF D!Authenticate, TypeInv, ServedTyped
    <2>3. CASE D!Refuse(d) \/ D!Spawn(d) \/ D!WriteOut(d) \/ D!Close(d)
      BY <2>1, <2>3 DEF D!Refuse, D!Spawn, D!WriteOut, D!Close
    <2> QED
      BY <1>4, <2>2, <2>3 DEF ServeSteps, D!ServeStep
  <1> QED
    BY <1>1, <1>2, <1>3, <1>4 DEF Next

\* What is known of the handshake, and of answers, stays true.
LEMMA HandshakeStays ==
    ASSUME TypeInv, [Next]_vars, NEW c \in Conn, target[c] \in Setting
    PROVE  /\ Shaken(c) => Shaken(c)'
           /\ \A m, s : Tells(c, m, s) => Tells(c, m, s)'
  BY TargetFrame DEF Shaken, Tells, D!Required

\* Only a daemon that wants no token, or the token itself, lets a connection in.
LEMMA AuthedNext ==
    ASSUME TypeInv, AuthedInv, LinesInv, [Next]_vars
    PROVE  AuthedInv'
  <1> SUFFICES ASSUME NEW c \in Conn, target'[c] \in Setting, authed'[c]
               PROVE  D!Required(c)' \in {None, target'[c].token}
    BY DEF AuthedInv, D!Required
  <1>1. CASE target[c] \in Setting /\ authed[c]
    BY <1>1, TargetFrame DEF AuthedInv, D!Required
  <1>2. CASE UNCHANGED <<target, authed>>
    BY <1>2 DEF AuthedInv, D!Required
  <1>3. ASSUME NEW k \in Call, NEW d \in Conn, Connects(k, d)
        PROVE  D!Required(c)' \in {None, target'[c].token}
    <2>1. CASE c = d
      BY <1>3, <2>1 DEF Connects, Connect, D!Accept, D!AuthedAtFirst, D!Required, TypeInv,
                        ClientTyped, ServedTyped
    <2>2. CASE c # d
      BY <1>1, <1>3, <2>2 DEF Connects, Connect, D!Accept, TypeInv, ClientTyped, ServedTyped
    <2> QED
      BY <2>1, <2>2
  <1>4. ASSUME NEW d \in Conn, ServeSteps(d)
        PROVE  D!Required(c)' \in {None, target'[c].token}
    <2>1. UNCHANGED target
      BY <1>4 DEF ServeSteps, untouched
    <2>2. CASE D!Authenticate(d) /\ c = d
      <3>1. Head(up[c]) \in Range(up[c])
        BY <2>2, RangeTail DEF D!Authenticate, D!Reads, TypeInv, ServedTyped
      <3>2. /\ Head(up[c]).method = Auth /\ Head(up[c]).token = D!Required(c)
        BY <2>2 DEF D!Authenticate, D!RightAuth
      <3> QED
        BY <2>1, <3>1, <3>2 DEF LinesInv, D!Required
    <2>3. CASE D!Authenticate(d) /\ c # d
      BY <1>1, <2>1, <2>3 DEF D!Authenticate, TypeInv, ServedTyped
    <2>4. CASE D!Refuse(d) \/ D!Spawn(d) \/ D!WriteOut(d) \/ D!Close(d)
      BY <1>2, <2>1, <2>4 DEF D!Refuse, D!Spawn, D!WriteOut, D!Close
    <2> QED
      BY <1>4, <2>2, <2>3, <2>4 DEF ServeSteps, D!ServeStep
  <1>5. CASE \/ UNCHANGED vars \/ Saves \/ Resets
             \/ \E k \in Call : ClientSteps(k)
             \/ \E host \in Host : Crash(host)
    <2>1. UNCHANGED <<target, authed>>
      BY <1>5, SMTT(20) DEF vars, ClientSteps, Saves, SaveSettings, Resets, ResetClient, Crash,
           clientVars, served, CallStep, Look, Resolve, ConnectFails, Publish, Check, CheckLost,
           Pend, Send, SendFails, ReceiveOk, ReceiveError, Timeout, Clear
    <2> QED
      BY <1>2, <2>1
  <1>6. ASSUME NEW d \in Conn, ConnSteps(d) \/ Break(d) \/ TaskSteps(d)
        PROVE  UNCHANGED <<target, authed>>
    BY <1>6 DEF ConnSteps, ConnStep, WriteOk, WriteFails, WriterEnds, Read, ReadEnds,
           Break, TaskSteps, D!TaskStep, D!Execute, D!Respond, untouched, clientVars, served
  <1> QED
    BY <1>2, <1>3, <1>4, <1>5, <1>6 DEF Next

LEMMA SharedNext ==
    ASSUME AnswerInv, TokenInv, [Next]_vars
    PROVE  SharedInv'
  <1> USE DEF AnswerInv, TokenInv, SharedInv
  <1>0. ASSUME NEW c \in Conn, target[c] \in Setting, Shaken(c) PROVE Shaken(c)'
    BY <1>0, HandshakeStays
  <1>1. /\ cached \in Conn => target[cached] \in Setting
        /\ \A j \in Call : use[j] \in Conn => target[use[j]] \in Setting
    BY DEF TypeInv, Located
  <1>2. CASE /\ cached' \in {cached, None}
             /\ \A j \in Call : use'[j] \in Conn /\ (pc'[j] = "publish" \/ asks'[j] # Auth) =>
                  use[j] = use'[j] /\ (pc[j] = "publish" \/ asks[j] # Auth)
    BY <1>0, <1>1, <1>2, SettingFields
  <1>3. ASSUME NEW k \in Call, ClientSteps(k) PROVE SharedInv'
    <2>0. /\ \A j \in Call \ {k} : pc'[j] = pc[j] /\ use'[j] = use[j] /\ asks'[j] = asks[j]
          /\ pc[k] \in Labels
      BY <1>3, CallMoves DEF Alone, TypeInv, CallsTyped
    <2>1. CASE Look(k)
      <3>1. /\ cached' = cached /\ (cached = None => use'[k] = use[k] /\ use[k] = None)
            /\ cached # None => use'[k] = cached
        BY <2>1 DEF Look, TypeInv, CallsTyped, Located
      <3>2. cached \in Conn \cup {None}
        BY DEF TypeInv, ClientTyped
      <3> QED
        BY <1>0, <1>1, <2>0, <3>1, <3>2, SettingFields
    <2>2. CASE Publish(k)
      <3>1. /\ cached' = use[k] /\ use'[k] = use[k] /\ pc[k] = "publish" /\ use[k] \in Conn
        BY <2>2 DEF Publish, TypeInv, Located
      <3> QED
        BY <1>0, <1>1, <2>0, <3>1
    <2>3. CASE ReceiveOk(k)
      <3>1. /\ cached' = cached /\ asks'[k] = asks[k] /\ pc[k] = "wait" /\ use[k] \in Conn
            /\ use'[k] \in {use[k], None}
        BY <2>3 DEF ReceiveOk, Received, Return, TypeInv, CallsTyped, Located, InCall
      <3>2. CASE asks[k] = Auth
        <4>1. reply[k] \in Answers /\ reply[k].method = Auth /\ reply[k].status = "ok"
          BY <2>3, <3>1, <3>2, ReplyFields DEF ReceiveOk, Received, TableInv, ReplyInv, InCall,
                                               TypeInv, CallsTyped
        <4>2. Shaken(use[k])
          BY <3>1, <4>1 DEF ToldInv, Tells, Shaken, InCall
        <4> QED
          BY <1>0, <1>1, <2>0, <3>1, <4>2, SettingFields
      <3>3. CASE asks[k] # Auth
        BY <1>2, <2>0, <3>1, <3>3, SettingFields
      <3> QED
        BY <3>2, <3>3
    <2>4. CASE \/ Resolve(k) \/ ConnectFails(k) \/ Check(k) \/ CheckLost(k) \/ Pend(k) \/ Send(k)
               \/ SendFails(k) \/ ReceiveError(k) \/ Timeout(k) \/ Clear(k)
      <3>1. /\ cached' \in {cached, None} /\ asks'[k] = asks[k] /\ pc'[k] # "publish"
            /\ use'[k] \in {use[k], None}
        BY <2>4 DEF Resolve, ConnectFails, Check, CheckLost, Pend, Send, SendFails, ReceiveError,
                    Timeout, Clear, Fail, Return, Goto, TypeInv, CallsTyped
      <3> QED
        BY <1>2, <2>0, <3>1, SettingFields
    <2> QED
      BY <1>3, <2>1, <2>2, <2>3, <2>4 DEF ClientSteps, CallStep
  <1>4. ASSUME NEW k \in Call, NEW c \in Conn, Connects(k, c) PROVE SharedInv'
    <2>1. /\ cached' = cached /\ use'[k] = c /\ asks'[k] = Auth /\ cfg[k] \in Setting
          /\ pc'[k] = AfterConnect(k) /\ target'[c] = cfg[k]
          /\ authed'[c] = D!AuthedAtFirst(cfg[k].host)
          /\ \A j \in Call \ {k} : pc'[j] = pc[j] /\ use'[j] = use[j] /\ asks'[j] = asks[j]
      BY <1>4 DEF Connects, Connect, Goto, D!Accept, TypeInv, CallsTyped, ClientTyped,
                  ServedTyped, Located
    <2>2. pc'[k] = "publish" => Shaken(c)'
      BY <2>1, ZenonT(30) DEF AfterConnect, Shaken, D!AuthedAtFirst, D!Required
    <2> QED
      BY <1>0, <1>1, <2>1, <2>2
  <1>5. ASSUME NEW c \in Conn, ConnSteps(c) \/ ServeSteps(c) \/ TaskSteps(c) \/ Break(c)
        PROVE  SharedInv'
    <2>1. UNCHANGED <<cached, use, pc, asks>>
      BY <1>5 DEF ConnSteps, ConnStep, WriteOk, WriteFails, WriterEnds, Read, ReadEnds,
           ServeSteps, TaskSteps, Break, untouched, clientVars, caller
    <2> QED
      BY <1>2, <2>1
  <1>6. CASE \/ UNCHANGED vars \/ Saves \/ Resets \/ \E host \in Host : Crash(host)
    <2>1. cached' \in {cached, None} /\ UNCHANGED <<use, pc, asks>>
      BY <1>6 DEF vars, Saves, SaveSettings, Resets, ResetClient, Crash, clientVars, caller
    <2> QED
      BY <1>2, <2>1
  <1> QED
    BY <1>3, <1>4, <1>5, <1>6 DEF Next

\* Something is under way only on connections that have been made.
LEMMA TrafficMade ==
    ASSUME TypeInv, NEW c \in Conn,
           \/ Range(queue[c]) # {} \/ Range(up[c]) # {}
           \/ Range(outq[c]) # {} \/ Range(down[c]) # {}
           \/ \E t \in tasks : t.conn = c
    PROVE  target[c] \in Setting
  <1>1. target[c] # None
    BY RangeEmpty DEF TypeInv, Unmade
  <1> QED
    BY <1>1 DEF TypeInv, ClientTyped

LEMMA LinesNext ==
    ASSUME AnswerInv, TokenInv, [Next]_vars
    PROVE  LinesInv'
  <1> SUFFICES ASSUME NEW c \in Conn, NEW l \in Range(queue'[c]) \cup Range(up'[c])
               PROVE  IF l.method = Auth THEN l.token = target'[c].token ELSE Shaken(c)'
    BY DEF LinesInv, Shaken, D!Required
  <1>1. CASE l \in Range(queue[c]) \cup Range(up[c])
    <2>1. target[c] \in Setting
      BY <1>1, TrafficMade DEF AnswerInv
    <2>2. IF l.method = Auth THEN l.token = target[c].token ELSE Shaken(c)
      BY <1>1 DEF TokenInv, LinesInv
    <2> QED
      BY <2>1, <2>2, TargetFrame, HandshakeStays DEF AnswerInv
  <1>2. ASSUME NEW k \in Call, Send(k), use[k] = c, l = Line(k)
        PROVE  IF l.method = Auth THEN l.token = target'[c].token ELSE Shaken(c)'
    <2>1. /\ use[k] \in Conn /\ asks[k] \in {k, Auth} /\ target[c] \in Setting
          /\ asks[k] = Auth => target[c] = cfg[k]
      BY <1>2 DEF Send, AnswerInv, TypeInv, Located, InCall
    <2>2. l.method = asks[k] /\ (asks[k] = Auth => l.token = cfg[k].token)
      BY <1>2 DEF Line
    <2>3. asks[k] # Auth => Shaken(c)
      BY <1>2, <2>1 DEF TokenInv, SharedInv
    <2> QED
      BY <2>1, <2>2, <2>3, TargetFrame, HandshakeStays DEF AnswerInv
  <1> QED
    BY <1>1, <1>2, Frame DEF AnswerInv, LineFrame

\* An answer given on c tells what is so.
LEMMA AnswersTell ==
    ASSUME AnswerInv, TokenInv, [Next]_vars, NEW c \in Conn, NEW a \in Range(outq'[c])
    PROVE  Tells(c, a.method, a.status)'
  <1>1. CASE a \in Range(outq[c])
    <2>1. target[c] \in Setting
      BY <1>1, TrafficMade DEF AnswerInv
    <2> QED
      BY <1>1, <2>1, HandshakeStays DEF AnswerInv, TokenInv, ToldInv
  <1>2. ASSUME D!Authenticate(c), a.method = Auth, a.status = "ok"
        PROVE  Tells(c, a.method, a.status)'
    BY <1>2 DEF D!Authenticate, Tells, AnswerInv, TypeInv, ServedTyped
  <1>3. ASSUME NEW l \in Range(up[c]), a.method = l.method, D!Refuse(c), a.status = "refused"
        PROVE  Tells(c, a.method, a.status)'
    <2>1. target[c] \in Setting
      BY TrafficMade DEF AnswerInv
    <2>2. Tells(c, a.method, a.status)
      BY <1>3 DEF D!Refuse, TokenInv, LinesInv, Shaken, Tells
    <2> QED
      BY <2>1, <2>2, HandshakeStays DEF AnswerInv
  <1>4. ASSUME NEW t \in tasks, t.conn = c, t.stage = "ran", a.method = t.method,
               a.status = t.status
        PROVE  Tells(c, a.method, a.status)'
    <2>1. target[c] \in Setting
      BY <1>4, TrafficMade DEF AnswerInv
    <2>2. t.status # "refused"
      BY DEF AnswerInv, TypeInv, ServedTyped, Tasks
    <2>3. Tells(c, a.method, a.status)
      BY <1>4, <2>2 DEF TokenInv, ToldInv, Tells
    <2> QED
      BY <2>1, <2>3, HandshakeStays DEF AnswerInv
  <1> QED
    BY <1>1, <1>2, <1>3, <1>4, Frame DEF AnswerInv, ReplyFrame

LEMMA RepliesTell ==
    ASSUME AnswerInv, TokenInv, [Next]_vars,
           NEW k \in Call, pc'[k] \in InCall, reply'[k] \in Answers
    PROVE  Tells(use[k], reply[k].method, reply[k].status)'
  <1>0. use[k] \in Conn /\ use'[k] = use[k] /\ target[use[k]] \in Setting
    BY CallFrame DEF Takes, AnswerInv, TypeInv, Located
  <1>1. CASE pc[k] \in InCall /\ reply'[k] = reply[k]
    BY <1>0, <1>1, HandshakeStays DEF AnswerInv, TokenInv, ToldInv
  <1>2. ASSUME NEW c \in Conn, Read(c), reply' # reply
        PROVE  Tells(use[k], reply[k].method, reply[k].status)'
    <2>1. PICK e \in pending[c] : reply' = [reply EXCEPT ![e.call] =
                       [method |-> Head(down[c]).method, status |-> Head(down[c]).status]]
      BY <1>2 DEF Read, Awaiting
    <2>2. e.call \in Call /\ use[e.call] = c
      BY EntriesApart DEF AnswerInv
    <2>3. CASE k = e.call
      <3>1. Head(down[c]) \in Range(down[c])
        BY <1>2, RangeTail DEF Read, AnswerInv, TypeInv, ServedTyped
      <3>2. PICK a \in Range(down[c]) : a = Head(down[c])
        BY <3>1
      <3>3. Tells(c, a.method, a.status)'
        <4>1. Tells(c, a.method, a.status)
          BY DEF TokenInv, ToldInv
        <4> QED
          BY <1>0, <2>2, <2>3, <4>1, HandshakeStays DEF AnswerInv
      <3>4. reply'[k] = [method |-> a.method, status |-> a.status] /\ use'[k] = c
        BY <1>0, <2>1, <2>2, <2>3, <3>2 DEF AnswerInv, TypeInv, CallsTyped
      <3>5. reply'[k].method = a.method /\ reply'[k].status = a.status
        BY <3>4
      <3> QED
        BY <3>3, <3>4, <3>5 DEF Tells, D!Required
    <2>4. CASE k # e.call
      <3>1. reply'[k] = reply[k] /\ pc[k] = pc'[k]
        BY <1>2, <2>1, <2>4 DEF Read, AnswerInv, TypeInv, CallsTyped
      <3> QED
        BY <1>1, <3>1
    <2> QED
      BY <2>3, <2>4
  <1>3. CASE reply'[k] \in {reply[k], NoReply, Disconnected}
    <2>1. reply'[k] = reply[k]
      BY <1>3, ReplyFields
    <2>2. pc[k] \in InCall
      <3>1. ~Takes(k)
        BY ReplyFields DEF Takes, AnswerInv, TypeInv, CallsTyped
      <3> QED
        BY <3>1, CallFrame DEF AnswerInv
    <2> QED
      BY <1>1, <2>1, <2>2
  <1> QED
    BY <1>2, <1>3, ReplyMoves DEF AnswerInv

LEMMA ToldNext ==
    ASSUME AnswerInv, TokenInv, [Next]_vars
    PROVE  ToldInv'
  <1>1. ASSUME NEW c \in Conn, NEW a \in Range(outq'[c]) \cup Range(down'[c])
        PROVE  Tells(c, a.method, a.status)'
    <2>1. CASE a \in Range(down[c]) \cup Range(outq[c])
      <3>1. target[c] \in Setting
        BY <2>1, TrafficMade DEF AnswerInv
      <3> QED
        BY <2>1, <3>1, HandshakeStays DEF AnswerInv, TokenInv, ToldInv
    <2> QED
      BY <1>1, <2>1, AnswersTell, Frame DEF AnswerInv, ReplyFrame
  <1>2. ASSUME NEW t \in tasks'
        PROVE  authed'[t.conn] /\ (t.method = Auth => t.status # "ok")
    <2>1. ASSUME NEW u \in tasks, u.conn = t.conn PROVE authed'[t.conn]
      <3>1. u.conn \in Conn /\ target[u.conn] \in Setting /\ authed[u.conn]
        BY TrafficMade DEF AnswerInv, TypeInv, ServedTyped, Tasks, TokenInv, ToldInv
      <3> QED
        BY <2>1, <3>1, TargetFrame DEF AnswerInv
    <2>2. CASE t \in tasks
      BY <2>1, <2>2 DEF TokenInv, ToldInv
    <2>3. CASE D!Spawn(t.conn) /\ t.status = "none"
      BY <2>3 DEF D!Spawn
    <2> QED
      BY <1>2, <2>1, <2>2, <2>3, Frame DEF AnswerInv, TaskFrame
  <1>3. \A k \in Call : pc'[k] \in InCall /\ reply'[k] \in Answers =>
          Tells(use[k], reply[k].method, reply[k].status)'
    BY RepliesTell
  <1> QED
    BY <1>1, <1>2, <1>3 DEF ToldInv, InCall, Answers

LEMMA TokenInit == Init => TokenInv
  <1> SUFFICES ASSUME Init PROVE TokenInv
    OBVIOUS
  <1>1. AuthedInv /\ SharedInv
    BY SettingFields DEF Init, ClientInit, D!ServedInit, AuthedInv, SharedInv
  <1>2. LinesInv /\ ToldInv
    BY RangeEmpty DEF Init, ClientInit, WireInit, D!ServedInit, LinesInv, ToldInv, InCall
  <1> QED
    BY <1>1, <1>2 DEF TokenInv

LEMMA TokensSound == Spec => [](AnswerInv /\ TokenInv)
  <1>1. AnswerInv /\ TokenInv /\ [Next]_vars => (AnswerInv /\ TokenInv)'
    BY AnswerNext, AuthedNext, SharedNext, LinesNext, ToldNext DEF AnswerInv, TokenInv
  <1> QED
    BY <1>1, AnswerInit, TokenInit, PTL DEF Spec

\* A daemon runs requests only for those who hold its token, and a call that
\* travels with the token is not refused (parse_auth_token, "unauthorized").
THEOREM TokenAloneDecides == Spec => []TokensDecide
  <1>1. ASSUME AnswerInv, TokenInv PROVE TokensDecide
    <2>1. OnlyTokenHolders
      <3>1. ASSUME NEW t \in tasks, D!Required(t.conn) # None
            PROVE  target[t.conn].token = D!Required(t.conn)
        <4>1. t.conn \in Conn /\ target[t.conn] \in Setting /\ authed[t.conn]
          BY <1>1, TrafficMade DEF AnswerInv, TypeInv, ServedTyped, Tasks, TokenInv, ToldInv
        <4> QED
          BY <1>1, <3>1, <4>1 DEF TokenInv, AuthedInv
      <3> QED
        BY <3>1 DEF OnlyTokenHolders
    <2>2. TokenHolderServed
      <3>1. ASSUME NEW k \in Call, pc[k] = "wait", reply[k] = [method |-> k, status |-> "refused"]
            PROVE  target[use[k]].token # D!Required(use[k])
        <4>1. reply[k] \in Answers /\ reply[k].method = k /\ reply[k].status = "refused" /\ k # Auth
          BY <3>1, SettingFields DEF Answers
        <4> QED
          BY <1>1, <3>1, <4>1 DEF TokenInv, ToldInv, Tells, InCall
      <3> QED
        BY <3>1 DEF TokenHolderServed
    <2> QED
      BY <2>1, <2>2 DEF TokensDecide
  <1> QED
    BY <1>1, TokensSound, PTL

----------------------------------------------------------------------------
(* The cached client                                                        *)

LEMMA FreshNext ==
    ASSUME TypeInv, FreshInv, [Next]_vars
    PROVE  FreshInv'
  <1> USE SettingFields DEF FreshInv, CachedIsCurrent, TypeInv, CallsTyped, ClientTyped, Located
  <1>1. CASE /\ cached' \in {cached, None} /\ UNCHANGED <<settings, target, resetting>>
             /\ overtaken \subseteq overtaken'
             /\ \A j \in Call : use'[j] \in Conn /\ asks'[j] = Auth =>
                  use'[j] = use[j] /\ asks[j] = Auth
    BY <1>1
  <1>2. ASSUME NEW k \in Call, ClientSteps(k) PROVE FreshInv'
    <2>0. UNCHANGED <<settings, target, resetting, overtaken>> /\ Alone(k)
      BY <1>2, CallMoves DEF ClientSteps, CallStep, Look, Resolve, ConnectFails, Publish, Check,
            CheckLost, Pend, Send, SendFails, ReceiveOk, ReceiveError, Timeout, Clear
    <2>1. CASE Publish(k)
      BY <2>0, <2>1 DEF Publish, Alone
    <2>2. CASE ~Publish(k)
      <3>1. /\ cached' \in {cached, None}
            /\ use'[k] \in Conn /\ asks'[k] = Auth => use'[k] = use[k] /\ asks[k] = Auth
        BY <1>2, <2>2 DEF ClientSteps, CallStep, Look, Resolve, ConnectFails, Check, CheckLost,
            Pend, Send, SendFails, ReceiveOk, ReceiveError, Timeout, Clear, Fail, Return
      <3> QED
        BY <1>1, <2>0, <3>1 DEF Alone
    <2> QED
      BY <2>1, <2>2
  <1>3. ASSUME NEW k \in Call, NEW c \in Conn, Connects(k, c) PROVE FreshInv'
    <2>1. /\ UNCHANGED <<settings, cached, resetting>> /\ use'[k] = c /\ asks'[k] = Auth
          /\ target' = [target EXCEPT ![c] = cfg[k]] /\ target[c] = None /\ cfg[k] \in Setting
          /\ overtaken' = IF cfg[k] = settings THEN overtaken ELSE overtaken \cup {c}
          /\ \A j \in Call \ {k} : use'[j] = use[j] /\ asks'[j] = asks[j]
      BY <1>3 DEF Connects, Connect
    <2>2. target'[c] = cfg[k] /\ \A d \in Conn \ {c} : target'[d] = target[d]
      BY <2>1
    <2>3. cached # c /\ \A j \in Call \ {k} : use[j] # c
      BY <2>1
    <2>4. CachedIsCurrent'
      BY <2>1, <2>2, <2>3
    <2>5. ASSUME NEW j \in Call, use'[j] \in Conn, asks'[j] = Auth
          PROVE  target'[use'[j]] = settings' \/ use'[j] \in overtaken'
      <3>1. CASE j = k
        BY <2>1, <2>2, <3>1
      <3>2. CASE j # k
        <4>1. /\ use'[j] = use[j] /\ use[j] \in Conn \ {c} /\ target'[use[j]] = target[use[j]]
              /\ target[use[j]] = settings \/ use[j] \in overtaken
          BY <2>1, <2>2, <2>3, <2>5, <3>2
        <4> QED
          BY <2>1, <4>1
      <3> QED
        BY <3>1, <3>2
    <2> QED
      BY <2>4, <2>5
  <1>4. ASSUME NEW c \in Conn, ConnSteps(c) \/ ServeSteps(c) \/ TaskSteps(c) \/ Break(c)
        PROVE  FreshInv'
    <2>1. UNCHANGED <<cached, use, asks, settings, target, resetting, overtaken>>
      BY <1>4 DEF ConnSteps, ConnStep, WriteOk, WriteFails, WriterEnds, Read, ReadEnds,
           ServeSteps, TaskSteps, Break, untouched, clientVars, caller
    <2> QED
      BY <1>1, <2>1
  <1>5. CASE Saves
    <2>1. /\ UNCHANGED <<cached, use, asks, target>> /\ resetting'
          /\ overtaken' = overtaken \cup {c \in Conn : Establishing(c)}
      BY <1>5 DEF Saves, SaveSettings, caller
    <2> QED
      BY <2>1 DEF Establishing
  <1>6. CASE Resets
    BY <1>6 DEF Resets, ResetClient, caller
  <1>7. CASE UNCHANGED vars \/ \E host \in Host : Crash(host)
    <2>1. UNCHANGED <<cached, use, asks, settings, target, resetting, overtaken>>
      BY <1>7 DEF vars, Crash, clientVars, caller
    <2> QED
      BY <1>1, <2>1
  <1> QED
    BY <1>2, <1>3, <1>4, <1>5, <1>6, <1>7 DEF Next

\* The cached client is the one of the saved settings, unless their update is
\* still being carried out or met the client on its way to be shared
\* (update_app_settings resets the client after it has saved).
THEOREM CachedClientIsCurrent == Spec => []CachedIsCurrent
  <1>1. Init => FreshInv
    BY SettingFields DEF Init, ClientInit, FreshInv, CachedIsCurrent
  <1>2. TypeInv /\ FreshInv /\ [Next]_vars => (TypeInv /\ FreshInv)'
    BY TypeNext, FreshNext
  <1>3. FreshInv => CachedIsCurrent
    BY DEF FreshInv
  <1> QED
    BY <1>1, <1>2, <1>3, TypeInit, PTL DEF Spec

==============================================================================
