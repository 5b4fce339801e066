-------------------------------- MODULE HomeAccount --------------------------------
(***************************************************************************)
(* Whose account the home screen shows.  Each workspace has an account and *)
(* rate limits of its own; the user may choose a workspace, and else one   *)
(* is resolved from what is connected, has data and was used last.  That   *)
(* choice is kept once the lists of threads are there, so that the account *)
(* shown does not change with every message (useHomeAccount).              *)
(***************************************************************************)
EXTENDS Naturals, Sequences, FiniteSets, SequencesExt

CONSTANTS
  Order,    \* the workspaces there may be, in the order of the list
  MaxTime,  \* bound: the time of a thread's last update
  None,
  Budgets   \* bound: what may happen in a behaviour, a set of records

VARIABLES
  given, \* what the hook is given: see Init
  sel,   \* aggregateHomeAccountSelection
  calls, \* the reads to be answered: a workspace, and its account or its limits
  asked, \* history: the workspace last asked about since its account is shown
  left

vars == <<given, sel, calls, asked, left>>

Workspace == ToSet(Order)
Spend(what) == left[what] > 0 /\ left' = [left EXCEPT ![what] = @ - 1]

(***************************************************************************)
(* What is derived.                                                        *)
(***************************************************************************)
\* Data that says nothing (an unknown account, no limits) is as none.
HasData(g, w) == g.data[w] # {}
Live(g) == {w \in g.there : w \in g.connected}
LiveWithData(g) == {w \in Live(g) : HasData(g, w)}

\* The one used last; of several, the first in the list.
Place(w) == CHOOSE n \in DOMAIN Order : Order[n] = w
Before(g, v, w) ==
  \/ g.updated[v] > g.updated[w]
  \/ g.updated[v] = g.updated[w] /\ Place(v) < Place(w)
First(g, ws) == CHOOSE w \in ws : \A v \in ws \ {w} : Before(g, w, v)
Resolved(g) ==
  LET of == <<LiveWithData(g), Live(g), {w \in g.there : HasData(g, w)}, g.there>>
      found == {n \in DOMAIN of : of[n] # {}} IN
  IF g.chosen \in g.there THEN g.chosen
  ELSE IF found = {} THEN None
  ELSE First(g, of[CHOOSE n \in found : \A m \in found : n <= m])

Settled(g) == g.chosen = None /\ \A w \in Live(g) : g.lists[w] = "there"
Retains(g, w) ==
  /\ w \in g.there /\ HasData(g, w)
  /\ w \in g.connected \/ ~Settled(g) \/ LiveWithData(g) = {}
Stable(g, s) ==
  IF g.chosen \in g.there THEN g.chosen
  ELSE IF s.committed /\ Retains(g, s.ws) THEN s.ws ELSE Resolved(g)
Shown == Stable(given, sel)

(***************************************************************************)
(* Each change is rendered, and the effects run: a chosen workspace that   *)
(* is gone is forgotten, the selection is brought up to date, which        *)
(* renders once more, and an account that has come into view is read.      *)
(***************************************************************************)
Selected(g, s) ==
  IF g.chosen # None THEN [ws |-> None, committed |-> FALSE]
  ELSE [ws |-> Stable(g, s), committed |-> Settled(g) \/ (s.ws = Stable(g, s) /\ s.committed)]
Kept(g) == IF g.chosen \in g.there THEN g ELSE [g EXCEPT !.chosen = None]
View(g, s) == [ws |-> Stable(g, s), live |-> Stable(g, s) \in Live(g), home |-> g.home]
Asks(old, new) == IF new.home /\ new.live /\ new # old THEN new.ws ELSE None
Reads(ws) == ws \X {"account", "limits"}
Renders(g, others) ==
  LET s == Selected(g, sel)
      first == Asks(View(given, sel), View(g, sel))
      second == Asks(View(g, sel), View(Kept(g), s)) IN
  /\ given' = Kept(g) /\ sel' = Selected(Kept(g), s)
  /\ calls' = others \cup Reads({first, second} \ {None})
  /\ asked' = IF second # None THEN second
              ELSE IF ~(View(Kept(g), s).home /\ View(Kept(g), s).live) THEN None
              ELSE IF first # None THEN first ELSE asked

Moves(what, g) == Spend(what) /\ Renders(g, calls)
setUsageWorkspaceId(w) ==
  w # given.chosen /\ w \in given.there \cup {None} /\ Moves("choices", [given EXCEPT !.chosen = w])
ShowHome == Moves("homes", [given EXCEPT !.home = ~@])
Connection(w) ==
  /\ w \in given.there
  /\ Moves("connections", [given EXCEPT !.connected = IF w \in @ THEN @ \ {w} ELSE @ \cup {w}])
Comes(w) == w \notin given.there /\ Moves("workspaces", [given EXCEPT !.there = @ \cup {w}])
Goes(w) ==
  w \in given.there /\ Moves("workspaces", [given EXCEPT !.there = @ \ {w}, !.connected = @ \ {w}])
ThreadsMove(w, t) == t # given.updated[w] /\ Moves("threads", [given EXCEPT !.updated[w] = t])
ListsThreads(w) ==
  Moves("lists", [given EXCEPT !.lists[w] = IF @ = "loading" THEN "there" ELSE "loading"])

\* Accounts and limits are read here, and for the workspace that is active, and
\* limits also come unasked; either may say nothing.  A read may fail, and an
\* answer of limits that has none changes nothing.
Arrives(w, kind, usable) == [given EXCEPT !.data[w] = IF usable THEN @ \cup {kind} ELSE @ \ {kind}]
ReadsActive(w) ==
  /\ w \in Live(given) /\ Spend("reads") /\ calls' = calls \cup Reads({w}) /\ UNCHANGED <<given, sel, asked>>
Answered(c, usable) == c \in calls /\ Spend("data") /\ Renders(Arrives(c[1], c[2], usable), calls \ {c})
Unanswered(c) == c \in calls /\ calls' = calls \ {c} /\ UNCHANGED <<given, sel, asked, left>>
LimitsUpdated(w, usable) == Moves("data", Arrives(w, "limits", usable))

----------------------------------------------------------------------------
Init ==
  \E there, connected \in SUBSET Workspace, home \in BOOLEAN :
    /\ connected \subseteq there
    /\ given = [chosen |-> None, there |-> there, connected |-> connected, home |-> home,
                data |-> [w \in Workspace |-> {}], updated |-> [w \in Workspace |-> 0],
                lists |-> [w \in Workspace |-> "unknown"]]
    /\ sel = [ws |-> Resolved(given), committed |-> Settled(given)]
    /\ asked = IF home /\ Resolved(given) \in Live(given) THEN Resolved(given) ELSE None
    /\ calls = Reads({asked} \ {None})
    /\ left \in Budgets

Next ==
  \/ ShowHome \/ setUsageWorkspaceId(None)
  \/ \E w \in Workspace : \/ setUsageWorkspaceId(w) \/ Connection(w) \/ Comes(w) \/ Goes(w) \/ ListsThreads(w)
                          \/ \E t \in 0 .. MaxTime : ThreadsMove(w, t)
                          \/ ReadsActive(w) \/ \E usable \in BOOLEAN : LimitsUpdated(w, usable)
  \/ \E c \in calls : Unanswered(c) \/ \E usable \in BOOLEAN : Answered(c, usable)

Spec == Init /\ [][Next]_vars

----------------------------------------------------------------------------
\* The account shown is of the workspace chosen while it is there, or else of one that is,
\* that has data if one that is connected has, and that is itself connected
\* when the lists of threads are there; however data, connections and
\* workspaces came and went before.
BestIsShown ==
  IF given.chosen # None THEN given.chosen \in given.there /\ Shown = given.chosen
  ELSE /\ IF given.there = {} THEN Shown = None ELSE Shown \in given.there
       /\ LiveWithData(given) # {} => HasData(given, Shown) /\ (Settled(given) => Shown \in given.connected)

\* The account on screen was asked for since it is: since the home is shown,
\* its workspace is connected, and it is the one shown.
AskedWhenShown == given.home /\ Shown \in Live(given) => asked = Shown

\* An account shown when the lists of threads were there stays, whatever moves
\* in the threads of others, while it has data and is connected or no other
\* that is connected has data.
StaysStep ==
  given.chosen = None /\ given'.chosen = None /\ Settled(given) /\ Shown # None =>
    LET lives == Shown \in given'.connected \/ LiveWithData(given') = {} IN
    Shown \in given'.there /\ HasData(given', Shown) /\ lives => Shown' = Shown
=============================================================================
