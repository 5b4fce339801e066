-------------------------- MODULE ThreadListProofs --------------------------
(***************************************************************************)
(* Theorems about ThreadList: its types, the rows on screen, the threads a *)
(* cascaded archive reaches, the parents of the threads, and the threads   *)
(* that paging can still reach.                                            *)
(***************************************************************************)
EXTENDS ThreadList, SequenceTheorems, FiniteSetTheorems, WellFoundedInduction, TLAPS

----------------------------------------------------------------------------
(* Induction over sets of naturals, and the functions defined by it         *)

\* A set of naturals that is not empty has a least member.
LEMMA LeastIndex ==
    ASSUME NEW I \in SUBSET Nat, I # {}
    PROVE  \E i \in I : \A j \in I : i <= j
  <1>1. PICK i \in I : \A j \in I : ~ (<<j, i>> \in OpToRel(<, Nat))
    BY WFMin, NatLessThanWellFounded
  <1>2. ASSUME NEW j \in I
        PROVE  i <= j
    <2>1. ~ (<<j, i>> \in OpToRel(<, Nat))
      BY <1>1
    <2>2. ~ (j < i)
      BY <2>1 DEF OpToRel
    <2> QED
      BY <2>2
  <1> QED
    BY <1>2

\* A set that holds zero and the successor of each of its members holds every natural.
LEMMA SetInduction ==
    ASSUME NEW S, 0 \in S, \A n \in Nat : n \in S => n + 1 \in S
    PROVE  Nat \subseteq S
  <1> SUFFICES ASSUME Nat \ S # {}
               PROVE  FALSE
    OBVIOUS
  <1>1. PICK n \in Nat \ S : \A m \in Nat \ S : n <= m
    BY LeastIndex
  <1>2. n # 0 /\ n - 1 \in Nat
    BY <1>1
  <1>3. n - 1 \in S
    BY <1>1, <1>2
  <1>4. (n - 1) + 1 \in S
    BY <1>2, <1>3
  <1> QED
    BY <1>1, <1>4

\* The values of a function that starts with a and goes on by G.
Runs(f, n, a, G) ==
  /\ f[0] = a
  /\ \A k \in 1..n : f[k] = G[<<k, f[k - 1]>>]

\* Two runs of the same recursion agree as far as both go.
LEMMA RunsAgree ==
    ASSUME NEW X, NEW a \in X, NEW G \in [Nat \X X -> X], NEW n \in Nat, NEW m \in Nat,
           NEW f, NEW g, Runs(f, n, a, G), Runs(g, m, a, G)
    PROVE  \A k \in Nat : k <= n /\ k <= m => f[k] = g[k]
  <1> DEFINE S == {k \in Nat : k <= n /\ k <= m => f[k] = g[k]}
  <1>1. 0 \in S
    BY DEF Runs
  <1>2. ASSUME NEW k \in Nat, k \in S
        PROVE  k + 1 \in S
    <2> SUFFICES ASSUME k + 1 <= n, k + 1 <= m
                 PROVE  f[k + 1] = g[k + 1]
      OBVIOUS
    <2>1. f[k] = g[k]
      BY <1>2
    <2>2. k + 1 \in 1..n /\ k + 1 \in 1..m /\ (k + 1) - 1 = k
      OBVIOUS
    <2> QED
      BY <2>1, <2>2 DEF Runs
  <1> HIDE DEF S
  <1>3. Nat \subseteq S
    BY <1>1, <1>2, SetInduction
  <1> QED
    BY <1>3 DEF S

\* A recursion runs as far as one likes.
LEMMA RunExists ==
    ASSUME NEW X, NEW a \in X, NEW G \in [Nat \X X -> X]
    PROVE  \A n \in Nat : \E f \in [0..n -> X] : Runs(f, n, a, G)
  <1> DEFINE S == {n \in Nat : \E f \in [0..n -> X] : Runs(f, n, a, G)}
  <1>1. 0 \in S
    <2> DEFINE f == [k \in 0..0 |-> a]
    <2>1. f \in [0..0 -> X] /\ Runs(f, 0, a, G)
      BY DEF Runs
    <2> QED
      BY <2>1
  <1>2. ASSUME NEW n \in Nat, n \in S
        PROVE  n + 1 \in S
    <2>1. PICK f \in [0..n -> X] : Runs(f, n, a, G)
      BY <1>2
    <2> DEFINE g == [k \in 0..(n + 1) |-> IF k = n + 1 THEN G[<<n + 1, f[n]>>] ELSE f[k]]
    <2>2. f[n] \in X
      BY <2>1
    <2>3. G[<<n + 1, f[n]>>] \in X
      BY <2>2
    <2>4. g \in [0..(n + 1) -> X]
      BY <2>1, <2>3
    <2>5. g[0] = a
      BY <2>1 DEF Runs
    <2>6. ASSUME NEW k \in 1..(n + 1)
          PROVE  g[k] = G[<<k, g[k - 1]>>]
      <3>1. CASE k = n + 1
        <4>1. k - 1 = n /\ n \in 0..(n + 1) /\ g[n] = f[n] /\ g[k] = G[<<n + 1, f[n]>>]
          BY <3>1
        <4> QED
          BY <3>1, <4>1
      <3>2. CASE k # n + 1
        <4>1. k \in 1..n /\ g[k] = f[k] /\ g[k - 1] = f[k - 1]
          BY <3>2
        <4> QED
          BY <2>1, <4>1 DEF Runs
      <3> QED
        BY <3>1, <3>2
    <2>7. Runs(g, n + 1, a, G)
      BY <2>5, <2>6 DEF Runs
    <2> QED
      BY <2>4, <2>7
  <1> HIDE DEF S
  <1>3. Nat \subseteq S
    BY <1>1, <1>2, SetInduction
  <1> QED
    BY <1>3 DEF S

\* f is defined by recursion on the naturals: it starts with a and goes on by G.
Recursion(f, a, G) == f[0] = a /\ \A n \in Nat : n # 0 => f[n] = G[<<n, f[n - 1]>>]

\* There is a function of every recursion, so the recursive functions of the model have
\* the values their definitions say.
LEMMA RecursionExists ==
    ASSUME NEW X, NEW a \in X, NEW G \in [Nat \X X -> X]
    PROVE  \E f \in [Nat -> X] : Recursion(f, a, G)
  <1> DEFINE run(n) == CHOOSE f \in [0..n -> X] : Runs(f, n, a, G)
             h == [n \in Nat |-> run(n)[n]]
  <1>1. ASSUME NEW n \in Nat
        PROVE  run(n) \in [0..n -> X] /\ Runs(run(n), n, a, G)
    BY RunExists
  <1> HIDE DEF run
  <1>2. h \in [Nat -> X]
    BY <1>1
  <1>3. ASSUME NEW n \in Nat, n # 0
        PROVE  h[n] = G[<<n, h[n - 1]>>]
    <2>1. n - 1 \in Nat /\ n \in 1..n /\ n - 1 <= n
      BY <1>3
    <2>2. Runs(run(n), n, a, G) /\ Runs(run(n - 1), n - 1, a, G)
      BY <1>1, <2>1
    <2>3. run(n)[n - 1] = run(n - 1)[n - 1]
      BY <2>1, <2>2, RunsAgree
    <2>4. run(n)[n] = G[<<n, run(n)[n - 1]>>]
      BY <2>1, <2>2 DEF Runs
    <2> QED
      BY <2>1, <2>3, <2>4
  <1>4. h[0] = a
    BY <1>1 DEF Runs
  <1> HIDE DEF h
  <1> QED
    BY <1>2, <1>3, <1>4 DEF Recursion

----------------------------------------------------------------------------
(* Sequences                                                                *)

\* A sequence lies in the set of its elements.
LEMMA SeqIn ==
    ASSUME NEW S, NEW s \in Seq(S)
    PROVE  /\ DOMAIN s = 1..Len(s) /\ Len(s) \in Nat
           /\ \A i \in DOMAIN s : s[i] \in S
           /\ ToSet(s) \subseteq S
  BY DEF ToSet

LEMMA AppendSet ==
    ASSUME NEW S, NEW s \in Seq(S), NEW e \in S
    PROVE  Append(s, e) \in Seq(S) /\ ToSet(Append(s, e)) = ToSet(s) \cup {e}
  <1>1. ToSet(Append(s, e)) = ToSet(s) \cup {e}
    <2>1. ASSUME NEW i \in DOMAIN s
          PROVE  s[i] \in ToSet(Append(s, e))
      <3>1. i \in 1..Len(Append(s, e)) /\ Append(s, e)[i] = s[i]
        OBVIOUS
      <3> QED
        BY <3>1 DEF ToSet
    <2>2. e \in ToSet(Append(s, e))
      <3>1. Len(s) + 1 \in 1..Len(Append(s, e)) /\ Append(s, e)[Len(s) + 1] = e
        OBVIOUS
      <3> QED
        BY <3>1 DEF ToSet
    <2>3. ASSUME NEW i \in DOMAIN Append(s, e)
          PROVE  Append(s, e)[i] \in ToSet(s) \cup {e}
      BY DEF ToSet
    <2> QED
      BY <2>1, <2>2, <2>3 DEF ToSet
  <1> QED
    BY <1>1

LEMMA ConcatSet ==
    ASSUME NEW S, NEW s \in Seq(S), NEW u \in Seq(S)
    PROVE  s \o u \in Seq(S) /\ ToSet(s \o u) = ToSet(s) \cup ToSet(u)
  <1>1. ToSet(s \o u) = ToSet(s) \cup ToSet(u)
    <2>1. ASSUME NEW i \in DOMAIN (s \o u)
          PROVE  (s \o u)[i] \in ToSet(s) \cup ToSet(u)
      <3>1. CASE i <= Len(s)
        BY <3>1 DEF ToSet
      <3>2. CASE i > Len(s)
        <4>1. i - Len(s) \in 1..Len(u) /\ (s \o u)[i] = u[i - Len(s)]
          BY <3>2
        <4> QED
          BY <4>1 DEF ToSet
      <3> QED
        BY <3>1, <3>2
    <2>2. ASSUME NEW i \in DOMAIN s
          PROVE  s[i] \in ToSet(s \o u)
      <3>1. i \in 1..Len(s \o u) /\ (s \o u)[i] = s[i]
        OBVIOUS
      <3> QED
        BY <3>1 DEF ToSet
    <2>3. ASSUME NEW i \in DOMAIN u
          PROVE  u[i] \in ToSet(s \o u)
      <3>1. i + Len(s) \in 1..Len(s \o u) /\ (s \o u)[i + Len(s)] = u[i]
        OBVIOUS
      <3> QED
        BY <3>1 DEF ToSet
    <2> QED
      BY <2>1, <2>2, <2>3 DEF ToSet
  <1> QED
    BY <1>1

LEMMA HeadTailSet ==
    ASSUME NEW S, NEW s \in Seq(S), s # <<>>
    PROVE  /\ Head(s) \in S /\ Tail(s) \in Seq(S)
           /\ ToSet(s) = {Head(s)} \cup ToSet(Tail(s))
  <1>1. ToSet(s) = {Head(s)} \cup ToSet(Tail(s))
    <2>1. Len(s) >= 1 /\ Head(s) = s[1] /\ Tail(s) \in Seq(S) /\ Len(Tail(s)) = Len(s) - 1
      OBVIOUS
    <2>2. ASSUME NEW i \in 1..Len(s)
          PROVE  s[i] \in {Head(s)} \cup ToSet(Tail(s))
      <3>1. CASE i = 1
        BY <2>1, <3>1
      <3>2. CASE i # 1
        <4>1. i - 1 \in 1..Len(Tail(s)) /\ Tail(s)[i - 1] = s[i]
          BY <2>1, <3>2
        <4>2. i - 1 \in DOMAIN Tail(s)
          BY <2>1, <4>1
        <4>3. Tail(s)[i - 1] \in ToSet(Tail(s))
          BY <4>2 DEF ToSet
        <4> QED
          BY <4>1, <4>3
      <3> QED
        BY <3>1, <3>2
    <2>3. ASSUME NEW i \in 1..Len(Tail(s))
          PROVE  Tail(s)[i] \in ToSet(s)
      <3>1. i + 1 \in 1..Len(s) /\ Tail(s)[i] = s[i + 1]
        BY <2>1
      <3> QED
        BY <3>1 DEF ToSet
    <2>4. Head(s) \in ToSet(s)
      BY <2>1 DEF ToSet
    <2> QED
      BY <2>2, <2>3, <2>4 DEF ToSet
  <1> QED
    BY <1>1

LEMMA EmptySet ==
    ASSUME NEW S, NEW s \in Seq(S)
    PROVE  (s = <<>>) <=> (ToSet(s) = {})
  BY DEF ToSet

\* The values Those goes through.
Sifts(kept, seq, set) ==
  /\ kept[0] = <<>>
  /\ \A n \in Nat : n # 0 =>
       kept[n] = IF seq[n] \in set THEN Append(kept[n - 1], seq[n]) ELSE kept[n - 1]

LEMMA ThoseUnfolds ==
    ASSUME NEW S, NEW seq \in Seq(S), NEW set
    PROVE  \E kept : Those(seq, set) = kept[Len(seq)] /\ Sifts(kept, seq, set)
  <1> DEFINE X == Seq(S \cup {seq[i] : i \in Nat})
             G == [p \in Nat \X X |->
                     IF seq[p[1]] \in set THEN Append(p[2], seq[p[1]]) ELSE p[2]]
             k == CHOOSE f : f = [i \in Nat |->
                       IF i = 0 THEN <<>>
                       ELSE IF seq[i] \in set THEN Append(f[i - 1], seq[i]) ELSE f[i - 1]]
  <1>1. <<>> \in X /\ G \in [Nat \X X -> X]
    OBVIOUS
  <1>2. PICK f \in [Nat -> X] : Recursion(f, <<>>, G)
    <2> HIDE DEF X, G
    <2> QED
      BY <1>1, RecursionExists
  <1>3. f = [i \in Nat |-> IF i = 0 THEN <<>>
               ELSE IF seq[i] \in set THEN Append(f[i - 1], seq[i]) ELSE f[i - 1]]
    <2>1. ASSUME NEW n \in Nat, n # 0
          PROVE  f[n] = IF seq[n] \in set THEN Append(f[n - 1], seq[n]) ELSE f[n - 1]
      <3>1. n - 1 \in Nat
        BY <2>1
      <3>2. f[n - 1] \in X
        <4> HIDE DEF X
        <4> QED
          BY <3>1
      <3>3. <<n, f[n - 1]>> \in Nat \X X
        <4> HIDE DEF X
        <4> QED
          BY <3>2
      <3>4. f[n] = G[<<n, f[n - 1]>>]
        BY <1>2, <2>1 DEF Recursion
      <3> QED
        BY <3>3, <3>4
    <2>2. f = [i \in Nat |-> f[i]]
      <3> HIDE DEF X
      <3> QED
        OBVIOUS
    <2> HIDE DEF G, X
    <2> QED
      BY <1>2, <2>1, <2>2 DEF Recursion
  <1>4. k = [i \in Nat |-> IF i = 0 THEN <<>>
                 ELSE IF seq[i] \in set THEN Append(k[i - 1], seq[i]) ELSE k[i - 1]]
    BY <1>3
  <1>5. Those(seq, set) = k[Len(seq)]
    BY DEF Those
  <1> HIDE DEF k
  <1>6. k[0] = <<>>
    BY <1>4
  <1>7. \A n \in Nat : n # 0 => k[n] = IF seq[n] \in set THEN Append(k[n - 1], seq[n])
                                          ELSE k[n - 1]
    BY <1>4
  <1>8. Sifts(k, seq, set)
    BY <1>6, <1>7 DEF Sifts
  <1> QED
    BY <1>5, <1>8

\* Those keeps the elements of the set, and nothing else.
LEMMA ThoseOf ==
    ASSUME NEW S, NEW seq \in Seq(S), NEW set
    PROVE  /\ Those(seq, set) \in Seq(S)
           /\ ToSet(Those(seq, set)) = ToSet(seq) \cap set
  <1>1. PICK kept : Those(seq, set) = kept[Len(seq)] /\ Sifts(kept, seq, set)
    BY ThoseUnfolds
  <1>2. /\ kept[0] = <<>>
        /\ \A n \in Nat : n # 0 =>
             kept[n] = IF seq[n] \in set THEN Append(kept[n - 1], seq[n]) ELSE kept[n - 1]
    BY <1>1 DEF Sifts
  <1>3. Those(seq, set) = kept[Len(seq)]
    BY <1>1
  <1> DEFINE upto(n) == {seq[i] : i \in 1..n}
             T == {n \in Nat : n <= Len(seq) =>
                     kept[n] \in Seq(S) /\ ToSet(kept[n]) = upto(n) \cap set}
  <1>4. 0 \in T
    <2>1. kept[0] = <<>>
      BY <1>2
    <2>2. upto(0) = {} /\ ToSet(<<>>) = {} /\ <<>> \in Seq(S)
      BY DEF ToSet
    <2> HIDE DEF upto
    <2> QED
      BY <2>1, <2>2
  <1>5. ASSUME NEW n \in Nat, n \in T
        PROVE  n + 1 \in T
    <2>1. upto(n + 1) = upto(n) \cup {seq[n + 1]}
      <3>1. 1..(n + 1) = 1..n \cup {n + 1}
        OBVIOUS
      <3> QED
        BY <3>1
    <2>2. kept[n + 1] = IF seq[n + 1] \in set THEN Append(kept[n], seq[n + 1]) ELSE kept[n]
      <3>1. n + 1 \in Nat /\ n + 1 # 0 /\ (n + 1) - 1 = n
        OBVIOUS
      <3> QED
        BY <1>2, <3>1
    <2> HIDE DEF upto
    <2> SUFFICES ASSUME n + 1 <= Len(seq)
                 PROVE  /\ kept[n + 1] \in Seq(S)
                        /\ ToSet(kept[n + 1]) = upto(n + 1) \cap set
      OBVIOUS
    <2>3. kept[n] \in Seq(S) /\ ToSet(kept[n]) = upto(n) \cap set
      BY <1>5
    <2>4. seq[n + 1] \in S
      OBVIOUS
    <2>5. /\ Append(kept[n], seq[n + 1]) \in Seq(S)
          /\ ToSet(Append(kept[n], seq[n + 1])) = ToSet(kept[n]) \cup {seq[n + 1]}
      BY <2>3, <2>4, AppendSet
    <2> QED
      BY <2>1, <2>2, <2>3, <2>5
  <1> HIDE DEF T
  <1>6. Len(seq) \in T
    BY <1>4, <1>5, SetInduction
  <1>7. ToSet(seq) = {seq[i] : i \in 1..Len(seq)}
    BY DEF ToSet
  <1> QED
    BY <1>3, <1>6, <1>7 DEF T

\* The first lines of a list are lines of the list.
LEMMA FirstOfIn ==
    ASSUME NEW S, NEW seq \in Seq(S), NEW n \in Nat
    PROVE  FirstOf(n, seq) \in Seq(S) /\ ToSet(FirstOf(n, seq)) \subseteq ToSet(seq)
  <1> DEFINE m == IF n < Len(seq) THEN n ELSE Len(seq)
  <1>1. m \in 0..Len(seq) /\ FirstOf(n, seq) = SubSeq(seq, 1, m)
    BY DEF FirstOf
  <1> HIDE DEF m
  <1>2. /\ SubSeq(seq, 1, m) \in Seq(S) /\ Len(SubSeq(seq, 1, m)) = m
        /\ \A i \in 1..m : SubSeq(seq, 1, m)[i] = seq[i]
    BY <1>1
  <1> QED
    BY <1>1, <1>2 DEF ToSet

\* The newest lines of a set are lines of that set.
LEMMA NewestOf ==
    ASSUME NEW set \in SUBSET Threads
    PROVE  Newest(set) \in Seq(Threads) /\ ToSet(Newest(set)) = set
  <1> DEFINE N == Cardinality(Threads)
  <1>1. N \in Nat /\ Threads = 1..N
    BY ListAssumption, FS_CardinalityType
  <1> HIDE DEF N
  <1>2. ByAge = [i \in 1..N |-> N + 1 - i]
    BY DEF ByAge, N
  <1>3. ByAge \in Seq(Threads)
    BY <1>1, <1>2
  <1>4. ToSet(ByAge) = Threads
    <2>0. ToSet(ByAge) \subseteq Threads
      BY <1>3, SeqIn
    <2>1. ASSUME NEW t \in Threads
          PROVE  t \in ToSet(ByAge)
      <3>1. N + 1 - t \in 1..N /\ N + 1 - (N + 1 - t) = t
        BY <1>1
      <3>2. N + 1 - t \in DOMAIN ByAge /\ ByAge[N + 1 - t] = t
        BY <1>2, <3>1
      <3> QED
        BY <3>2 DEF ToSet
    <2> QED
      BY <2>0, <2>1
  <1>5. /\ Those(ByAge, set) \in Seq(Threads)
        /\ ToSet(Those(ByAge, set)) = ToSet(ByAge) \cap set
    BY <1>3, ThoseOf
  <1> QED
    BY <1>4, <1>5 DEF Newest

----------------------------------------------------------------------------
(* Ancestors                                                                *)

OrNone(S) == S \cup {None}

\* Threads are numbered by age.
LEMMA ThreadsAreRanks ==
    /\ Cardinality(Threads) \in Nat
    /\ Threads = 1..Cardinality(Threads)
    /\ Workspace \in Workspaces
    /\ None \notin Threads
    /\ \A t \in Threads : Spawner[t] \in OrNone(Threads) /\ ReviewOf[t] \in OrNone(Threads)
  <1>1. Spawner \in [Threads -> (Threads \ (Foreign \cup Memory)) \cup {None}]
        /\ ReviewOf \in [Threads -> (Threads \ (Foreign \cup Memory)) \cup {None}]
    BY ListAssumption
  <1>2. Cardinality(Threads) \in Nat
    BY ListAssumption, FS_CardinalityType
  <1>3. Threads = 1..Cardinality(Threads) /\ Workspace \in Workspaces
    BY ListAssumption
  <1>4. None \notin Threads
    BY NoneAssumption
  <1> QED
    BY <1>1, <1>2, <1>3, <1>4 DEF OrNone

\* The sets AncestorsIn goes through, each the last and its parents.
Climbs(up, parent, t) ==
  /\ up \in [Nat -> SUBSET Threads]
  /\ up[0] = {t}
  /\ \A n \in Nat : n # 0 => up[n] = up[n - 1] \cup ({parent[u] : u \in up[n - 1]} \ {None})

\* What is above a thread: its parents, and what is above them.
LEMMA AncestorsClimb ==
    ASSUME NEW parent \in [Threads -> OrNone(Threads)], NEW t \in Threads
    PROVE  \E up : /\ Climbs(up, parent, t)
                   /\ AncestorsIn(parent, t) = up[Cardinality(Threads)] \ {t}
  <1> DEFINE X == SUBSET Threads
             a == {t}
             above(S) == S \cup ({parent[u] : u \in S} \ {None})
             G == [p \in Nat \X X |-> above(p[2])]
             up == CHOOSE f : f = [n \in Nat |->
                     IF n = 0 THEN {t} ELSE f[n - 1] \cup ({parent[u] : u \in f[n - 1]} \ {None})]
  <1>1. \A S \in X : above(S) \in X
    BY DEF OrNone
  <1> HIDE DEF above
  <1>2. a \in X /\ G \in [Nat \X X -> X]
    BY <1>1
  <1>3. PICK f \in [Nat -> X] : Recursion(f, a, G)
    <2> HIDE DEF X, G, a
    <2> QED
      BY <1>2, RecursionExists
  <1>4. f[0] = {t} /\ \A n \in Nat : n # 0 => f[n] = above(f[n - 1])
    <2>1. ASSUME NEW n \in Nat, n # 0
          PROVE  f[n] = above(f[n - 1])
      <3>1. n - 1 \in Nat
        BY <2>1
      <3>2. f[n - 1] \in X
        <4> HIDE DEF X
        <4> QED
          BY <3>1
      <3>3. G[<<n, f[n - 1]>>] = above(f[n - 1])
        <4> HIDE DEF X
        <4> QED
          BY <3>2
      <3>4. f[n] = G[<<n, f[n - 1]>>]
        <4> HIDE DEF G
        <4> QED
          BY <1>3, <2>1 DEF Recursion
      <3> QED
        BY <3>3, <3>4
    <2> QED
      BY <1>3, <2>1 DEF Recursion
  <1>5. Climbs(f, parent, t)
    BY <1>4 DEF Climbs, above
  <1>6. f = [n \in Nat |->
              IF n = 0 THEN {t} ELSE f[n - 1] \cup ({parent[u] : u \in f[n - 1]} \ {None})]
    <2>1. f = [n \in Nat |-> f[n]]
      <3> HIDE DEF X
      <3> QED
        OBVIOUS
    <2> QED
      BY <1>5, <2>1 DEF Climbs
  <1>7. up = [n \in Nat |->
               IF n = 0 THEN {t} ELSE up[n - 1] \cup ({parent[u] : u \in up[n - 1]} \ {None})]
    BY <1>6
  <1>8. AncestorsIn(parent, t) = up[Cardinality(Threads)] \ {t}
    BY DEF AncestorsIn
  <1> HIDE DEF up
  <1> DEFINE S == {n \in Nat : up[n] = f[n]}
  <1>9. 0 \in S
    BY <1>4, <1>7
  <1>10. ASSUME NEW n \in Nat, n \in S
         PROVE  n + 1 \in S
    <2>1. n + 1 \in Nat /\ n + 1 # 0 /\ (n + 1) - 1 = n
      OBVIOUS
    <2>2. up[n + 1] = up[n] \cup ({parent[u] : u \in up[n]} \ {None})
      BY <1>7, <2>1
    <2>3. f[n + 1] = f[n] \cup ({parent[u] : u \in f[n]} \ {None})
      BY <1>6, <2>1
    <2>4. up[n] = f[n]
      BY <1>10
    <2> HIDE DEF up
    <2>5. up[n + 1] = f[n + 1]
      BY <2>2, <2>3, <2>4
    <2> QED
      BY <2>1, <2>5
  <1> HIDE DEF S
  <1>11. Cardinality(Threads) \in S
    BY <1>9, <1>10, SetInduction, ThreadsAreRanks
  <1> QED
    BY <1>5, <1>8, <1>11 DEF S

\* The parent of a thread is above it.
LEMMA ParentIsAbove ==
    ASSUME NEW parent \in [Threads -> OrNone(Threads)], NEW t \in Threads,
           parent[t] # None, parent[t] # t
    PROVE  parent[t] \in AncestorsIn(parent, t)
  <1>1. PICK up : /\ Climbs(up, parent, t)
                  /\ AncestorsIn(parent, t) = up[Cardinality(Threads)] \ {t}
    BY AncestorsClimb
  <1> DEFINE S == {n \in Nat : parent[t] \in up[n + 1]}
  <1>2. 0 \in S
    <2>1. up[1] = up[0] \cup ({parent[u] : u \in up[0]} \ {None}) /\ up[0] = {t}
      <3>1. 1 \in Nat /\ 1 # 0 /\ 1 - 1 = 0
        OBVIOUS
      <3> QED
        BY <1>1, <3>1 DEF Climbs
    <2> QED
      BY <2>1
  <1>3. ASSUME NEW n \in Nat, n \in S
        PROVE  n + 1 \in S
    <2>1. (n + 1) + 1 \in Nat /\ (n + 1) + 1 # 0 /\ ((n + 1) + 1) - 1 = n + 1
      OBVIOUS
    <2>2. up[n + 1] \subseteq up[(n + 1) + 1]
      BY <1>1, <2>1 DEF Climbs
    <2> QED
      BY <1>3, <2>2
  <1> HIDE DEF S
  <1>4. Nat \subseteq S
    BY <1>2, <1>3, SetInduction
  <1>5. Cardinality(Threads) - 1 \in Nat
    BY ThreadsAreRanks
  <1>6. Cardinality(Threads) - 1 \in S
    BY <1>4, <1>5
  <1>7. (Cardinality(Threads) - 1) + 1 = Cardinality(Threads)
    BY ThreadsAreRanks
  <1> QED
    BY <1>1, <1>6, <1>7 DEF S

\* Where every link goes to an older thread, whatever is above one is older.
LEMMA AncestorsAreOlder ==
    ASSUME NEW parent \in [Threads -> OrNone(Threads)], NEW t \in Threads,
           \A u \in Threads : parent[u] # None => parent[u] < u
    PROVE  \A u \in AncestorsIn(parent, t) : u \in Threads /\ u < t
  <1>1. PICK up : /\ Climbs(up, parent, t)
                  /\ AncestorsIn(parent, t) = up[Cardinality(Threads)] \ {t}
    BY AncestorsClimb
  <1> DEFINE S == {n \in Nat : \A u \in up[n] : u \in Threads /\ u <= t}
  <1>2. 0 \in S
    BY <1>1, ThreadsAreRanks DEF Climbs
  <1>3. ASSUME NEW n \in Nat, n \in S
        PROVE  n + 1 \in S
    <2>1. n + 1 \in Nat /\ n + 1 # 0 /\ (n + 1) - 1 = n
      OBVIOUS
    <2>2. up[n + 1] = up[n] \cup ({parent[u] : u \in up[n]} \ {None})
      BY <1>1, <2>1 DEF Climbs
    <2>3. ASSUME NEW u \in up[n], parent[u] # None
          PROVE  parent[u] \in Threads /\ parent[u] <= t
      <3>1. u \in Threads /\ u <= t
        BY <1>3
      <3>2. parent[u] \in Threads /\ parent[u] < u
        BY <2>3, <3>1 DEF OrNone
      <3> QED
        BY <3>1, <3>2, ThreadsAreRanks
    <2> QED
      BY <1>3, <2>2, <2>3
  <1> HIDE DEF S
  <1>4. Cardinality(Threads) \in S
    BY <1>2, <1>3, SetInduction, ThreadsAreRanks
  <1> QED
    BY <1>1, <1>4, ThreadsAreRanks DEF S

----------------------------------------------------------------------------
(* The reducer: what each action does to the rows, the open thread and the  *)
(* parents of the workspace.                                                *)

\* What the store of a window holds of this workspace.
Line == [id : Threads, name : {"new"}, at : {0}]
Mark == [processing : BOOLEAN, unread : BOOLEAN, reviewing : BOOLEAN, since : {0}]
Store ==
  [active : [Workspaces -> OrNone(Threads)], list : [Workspaces -> Seq(Line)],
   hidden : [Workspaces -> SUBSET Memory], parent : [Threads -> OrNone(Threads)],
   status : [Threads -> Mark], turn : [Threads -> {None}], filled : {{}},
   plan : [Threads -> {None}], last : [Threads -> {0}], resuming : {{}},
   listing : SUBSET Workspaces, paging : SUBSET Workspaces,
   cursor : [Workspaces -> OrNone(Threads) \cup {PageStart}],
   approvals : {<<>>}, inputs : {<<>>}]

\* The rows of the workspace.
Ids(s) == ListIds(s, Workspace)
Opened(s) == s.active[Workspace] # None => s.active[Workspace] \in Ids(s)

\* The threads of a list of rows.
LEMMA IdsOfSet ==
    ASSUME NEW list \in Seq(Line)
    PROVE  /\ IdsOf(list) = {line.id : line \in ToSet(list)}
           /\ IdsOf(list) \subseteq Threads
           /\ (list = <<>>) <=> (IdsOf(list) = {})
  <1>1. IdsOf(list) = {line.id : line \in ToSet(list)}
    BY DEF IdsOf, ToSet
  <1>2. ToSet(list) \subseteq Line
    BY SeqIn
  <1>3. (list = <<>>) <=> (ToSet(list) = {})
    BY DEF ToSet
  <1> QED
    BY <1>1, <1>2, <1>3 DEF Line

LEMMA IdsOfParts ==
    ASSUME NEW a \in Seq(Line), NEW b \in Seq(Line)
    PROVE  a \o b \in Seq(Line) /\ IdsOf(a \o b) = IdsOf(a) \cup IdsOf(b)
  <1>1. a \o b \in Seq(Line) /\ ToSet(a \o b) = ToSet(a) \cup ToSet(b)
    BY ConcatSet
  <1> QED
    BY <1>1, IdsOfSet

LEMMA OfIds ==
    ASSUME NEW list \in Seq(Line), NEW ids
    PROVE  Of(list, ids) \in Seq(Line) /\ IdsOf(Of(list, ids)) = IdsOf(list) \cap ids
  <1> DEFINE set == {line \in ToSet(list) : line.id \in ids}
  <1>1. Those(list, set) \in Seq(Line) /\ ToSet(Those(list, set)) = ToSet(list) \cap set
    <2> HIDE DEF set
    <2> QED
      BY ThoseOf
  <1>2. Of(list, ids) = Those(list, set)
    BY DEF Of
  <1>3. IdsOf(Those(list, set)) = {line.id : line \in ToSet(list) \cap set}
    BY <1>1, IdsOfSet
  <1>4. IdsOf(list) = {line.id : line \in ToSet(list)}
    BY IdsOfSet
  <1> QED
    BY <1>1, <1>2, <1>3, <1>4

LEMMA WithoutIds ==
    ASSUME NEW list \in Seq(Line), NEW t
    PROVE  Without(list, t) \in Seq(Line) /\ IdsOf(Without(list, t)) = IdsOf(list) \ {t}
  BY OfIds DEF Without

LEMMA FirstOrIn ==
    ASSUME NEW list \in Seq(Line)
    PROVE  FirstOr(list) \in OrNone(Threads) /\ (FirstOr(list) # None => FirstOr(list) \in IdsOf(list))
  <1>1. CASE list = <<>>
    BY <1>1 DEF FirstOr, OrNone
  <1>2. CASE list # <<>>
    <2>1. 1 \in 1..Len(list) /\ list[1] \in Line
      BY <1>2
    <2> QED
      BY <1>2, <2>1 DEF FirstOr, IdsOf, Line, OrNone
  <1> QED
    BY <1>1, <1>2

LEMMA RowsIds ==
    ASSUME NEW ids \in Seq(Threads)
    PROVE  Rows(ids) \in Seq(Line) /\ IdsOf(Rows(ids)) = ToSet(ids)
  <1>1. Rows(ids) = [i \in 1..Len(ids) |-> [id |-> ids[i], name |-> "new", at |-> 0]]
    BY DEF Rows, Row
  <1>2. Rows(ids) \in Seq(Line) /\ Len(Rows(ids)) = Len(ids)
    BY <1>1 DEF Line
  <1> QED
    BY <1>1, <1>2 DEF IdsOf, ToSet

\* The types of the fields of a store.
LEMMA StoreFields ==
    ASSUME NEW s \in Store
    PROVE  /\ s.active \in [Workspaces -> OrNone(Threads)]
           /\ s.list \in [Workspaces -> Seq(Line)]
           /\ s.hidden \in [Workspaces -> SUBSET Memory]
           /\ s.parent \in [Threads -> OrNone(Threads)]
           /\ s.status \in [Threads -> Mark]
           /\ s.last \in [Threads -> {0}]
           /\ s.cursor \in [Workspaces -> OrNone(Threads) \cup {PageStart}]
           /\ s.list[Workspace] \in Seq(Line)
           /\ s.active[Workspace] \in OrNone(Threads)
           /\ s.hidden[Workspace] \subseteq Memory
           /\ s.cursor[Workspace] \in OrNone(Threads) \cup {PageStart}
           /\ Ids(s) = IdsOf(s.list[Workspace]) /\ Ids(s) \subseteq Threads
  <1>1. /\ s.active \in [Workspaces -> OrNone(Threads)]
        /\ s.list \in [Workspaces -> Seq(Line)]
        /\ s.hidden \in [Workspaces -> SUBSET Memory]
        /\ s.parent \in [Threads -> OrNone(Threads)]
        /\ s.status \in [Threads -> Mark]
        /\ s.last \in [Threads -> {0}]
        /\ s.cursor \in [Workspaces -> OrNone(Threads) \cup {PageStart}]
    BY DEF Store
  <1>2. Workspace \in Workspaces
    BY ListAssumption
  <1>3. s.list[Workspace] \in Seq(Line)
    BY <1>1, <1>2
  <1>4. Ids(s) = IdsOf(s.list[Workspace]) /\ Ids(s) \subseteq Threads
    BY <1>3, IdsOfSet DEF Ids, ListIds
  <1> QED
    BY <1>1, <1>2, <1>3, <1>4

LEMMA InitialIsStore ==
    InitialState \in Store /\ Ids(InitialState) = {} /\ Opened(InitialState)
  <1>1. Unwritten \in Mark
    BY DEF Unwritten, Mark
  <1>2. Workspace \in Workspaces
    BY ListAssumption
  <1>3. InitialState \in Store
    BY <1>1 DEF InitialState, Store, OrNone
  <1> QED
    BY <1>2, <1>3 DEF InitialState, Ids, ListIds, IdsOf, Opened

\* Opening a thread changes which one is open and no row.
LEMMA SetActiveEffect ==
    ASSUME NEW s \in Store, NEW t \in Threads
    PROVE  LET r == SetActiveThreadId(s, Workspace, t) IN
           r \in Store /\ Ids(r) = Ids(s) /\ r.parent = s.parent /\ r.active[Workspace] = t
           /\ r.cursor = s.cursor
  <1>1. Workspace \in Workspaces /\ t # None
    BY ListAssumption, NoneAssumption
  <1>2. [s.status[t] EXCEPT !.unread = FALSE] \in Mark
    <2>1. s.status[t] \in Mark
      BY StoreFields
    <2> QED
      BY <2>1 DEF Mark
  <1> DEFINE mark == [s.status EXCEPT ![t] = [s.status[t] EXCEPT !.unread = FALSE]]
  <1>3. mark \in [Threads -> Mark]
    BY <1>2, StoreFields
  <1>4. SetActiveThreadId(s, Workspace, t) = [s EXCEPT !.active[Workspace] = t, !.status = mark]
    BY <1>1, StoreFields DEF SetActiveThreadId
  <1> HIDE DEF mark
  <1>5. [s EXCEPT !.active[Workspace] = t, !.status = mark] \in Store
    BY <1>1, <1>3 DEF Store, OrNone
  <1>6. LET r == [s EXCEPT !.active[Workspace] = t, !.status = mark] IN
          r.list = s.list /\ r.parent = s.parent /\ r.active[Workspace] = t /\ r.cursor = s.cursor
    BY <1>1 DEF Store
  <1> QED
    BY <1>4, <1>5, <1>6 DEF Ids, ListIds

\* ENSURE_THREAD adds the row of a thread unless it is there or hidden.
LEMMA EnsureEffect ==
    ASSUME NEW s \in Store, NEW t \in Threads
    PROVE  LET r == EnsureThread(s, Workspace, t) IN
           /\ r \in Store /\ r.parent = s.parent /\ r.cursor = s.cursor
           /\ Ids(r) = IF t \in s.hidden[Workspace] THEN Ids(s) ELSE Ids(s) \cup {t}
           /\ Opened(s) => Opened(r)
           /\ r.hidden = s.hidden
  <1> DEFINE r == EnsureThread(s, Workspace, t)
  <1>1. CASE t \in s.hidden[Workspace] \/ t \in Ids(s)
    <2>1. r = s
      BY <1>1 DEF EnsureThread, Ids
    <2> QED
      BY <1>1, <2>1
  <1>2. CASE ~(t \in s.hidden[Workspace] \/ t \in Ids(s))
    <2> DEFINE line == [id |-> t, name |-> "new", at |-> 0]
               rows == <<line>> \o s.list[Workspace]
               open == IF s.active[Workspace] = None THEN t ELSE s.active[Workspace]
               mark == [s.status EXCEPT ![t] = Unwritten]
    <2>1. line \in Line /\ <<line>> \in Seq(Line) /\ IdsOf(<<line>>) = {t}
      BY DEF Line, IdsOf
    <2>2. rows \in Seq(Line) /\ IdsOf(rows) = {t} \cup Ids(s)
      BY <2>1, IdsOfParts, StoreFields
    <2>3. open \in OrNone(Threads) /\ (open # None => open \in {t, s.active[Workspace]})
      BY StoreFields DEF OrNone
    <2>4. mark \in [Threads -> Mark]
      <3>1. Unwritten \in Mark
        BY DEF Unwritten, Mark
      <3> QED
        BY <3>1, StoreFields
    <2>5. r = [s EXCEPT !.list[Workspace] = rows, !.status = mark, !.active[Workspace] = open]
      BY <1>2, StoreFields DEF EnsureThread, Ids
    <2> HIDE DEF rows, open, mark, line, r
    <2>6. Workspace \in Workspaces
      BY ListAssumption
    <2>7. r \in Store
      BY <2>2, <2>3, <2>4, <2>5, <2>6 DEF Store
    <2>8. /\ r.list[Workspace] = rows /\ r.active[Workspace] = open
          /\ r.parent = s.parent /\ r.cursor = s.cursor /\ r.hidden = s.hidden
      BY <2>5, <2>6 DEF Store
    <2>9. Ids(r) = Ids(s) \cup {t}
      BY <2>2, <2>8 DEF Ids, ListIds
    <2>10. Opened(s) => Opened(r)
      BY <2>3, <2>8, <2>9 DEF Opened, open
    <2> QED
      BY <1>2, <2>7, <2>8, <2>9, <2>10 DEF r
  <1> QED
    BY <1>1, <1>2

\* Hiding a background thread takes its row away, and closes it.
LEMMA HideEffect ==
    ASSUME NEW s \in Store, NEW t \in Memory
    PROVE  LET r == HideThread(s, Workspace, t) IN
           /\ r \in Store /\ r.parent = s.parent /\ r.cursor = s.cursor
           /\ Ids(r) \subseteq Ids(s)
           /\ \A u \in Ids(s) : u # t => u \in Ids(r)
           /\ Opened(s) => Opened(r)
  <1> DEFINE r == HideThread(s, Workspace, t)
  <1>1. CASE t \in s.hidden[Workspace]
    <2>1. r = s
      BY <1>1 DEF HideThread
    <2> QED
      BY <2>1
  <1>2. CASE t \notin s.hidden[Workspace]
    <2> DEFINE rows == Without(s.list[Workspace], t)
               open == ActiveWithout(s, Workspace, t)
               hid == s.hidden[Workspace] \cup {t}
    <2>1. rows \in Seq(Line) /\ IdsOf(rows) = Ids(s) \ {t}
      BY WithoutIds, StoreFields
    <2>2. open \in OrNone(Threads) /\ (open # None /\ Opened(s) => open \in IdsOf(rows))
      BY <2>1, FirstOrIn, StoreFields DEF ActiveWithout, Opened
    <2>3. hid \in SUBSET Memory
      BY StoreFields
    <2>4. r = [s EXCEPT !.hidden[Workspace] = hid, !.list[Workspace] = rows,
                        !.active[Workspace] = open]
      BY <1>2, StoreFields DEF HideThread
    <2> HIDE DEF rows, open, hid, r
    <2>5. Workspace \in Workspaces
      BY ListAssumption
    <2>6. r \in Store
      BY <2>1, <2>2, <2>3, <2>4, <2>5 DEF Store
    <2>7. /\ r.list[Workspace] = rows /\ r.active[Workspace] = open
          /\ r.parent = s.parent /\ r.cursor = s.cursor
      BY <2>4, <2>5 DEF Store
    <2> QED
      BY <2>1, <2>2, <2>6, <2>7 DEF r, Ids, ListIds, Opened
  <1> QED
    BY <1>1, <1>2

\* REMOVE_THREAD takes the row and the parent away; if the thread was open another is.
LEMMA RemoveEffect ==
    ASSUME NEW s \in Store, NEW t \in Threads
    PROVE  LET r == RemoveThread(s, Workspace, t) IN
           /\ r \in Store /\ r.parent = [s.parent EXCEPT ![t] = None] /\ r.cursor = s.cursor
           /\ Ids(r) = Ids(s) \ {t}
           /\ Opened(s) => Opened(r)
  <1> DEFINE r == RemoveThread(s, Workspace, t)
             rows == Without(s.list[Workspace], t)
             open == ActiveWithout(s, Workspace, t)
             parent == [s.parent EXCEPT ![t] = None]
             mark == [s.status EXCEPT ![t] = Unwritten]
  <1>1. rows \in Seq(Line) /\ IdsOf(rows) = Ids(s) \ {t}
    BY WithoutIds, StoreFields
  <1>2. open \in OrNone(Threads) /\ (open # None /\ Opened(s) => open \in IdsOf(rows))
    BY <1>1, FirstOrIn, StoreFields DEF ActiveWithout, Opened
  <1>3. parent \in [Threads -> OrNone(Threads)]
    BY StoreFields DEF OrNone
  <1>4. mark \in [Threads -> Mark]
    <2>1. Unwritten \in Mark
      BY DEF Unwritten, Mark
    <2> QED
      BY <2>1, StoreFields
  <1>5. s.filled \ {t} = s.filled /\ [s.turn EXCEPT ![t] = None] = s.turn
        /\ [s.plan EXCEPT ![t] = None] = s.plan
    BY DEF Store
  <1>6. r = [s EXCEPT !.list[Workspace] = rows, !.status = mark, !.parent = parent,
                      !.active[Workspace] = open]
    <2> DEFINE filled == s.filled \ {t}
               turn == [s.turn EXCEPT ![t] = None]
               plan0 == [s.plan EXCEPT ![t] = None]
    <2>1. r = [s EXCEPT !.list[Workspace] = rows, !.filled = filled, !.status = mark,
                        !.turn = turn, !.plan = plan0, !.parent = parent,
                        !.active[Workspace] = open]
      BY DEF RemoveThread
    <2>2. filled = s.filled /\ turn = s.turn /\ plan0 = s.plan
      BY <1>5
    <2> HIDE DEF filled, turn, plan0
    <2> HIDE DEF rows, open, parent, mark, r
    <2> QED
      BY <2>1, <2>2 DEF Store
  <1> HIDE DEF rows, open, parent, mark, r
  <1>7. Workspace \in Workspaces
    BY ListAssumption
  <1>8. r \in Store
    BY <1>1, <1>2, <1>3, <1>4, <1>6, <1>7 DEF Store
  <1>9. /\ r.list[Workspace] = rows /\ r.active[Workspace] = open
        /\ r.parent = parent /\ r.cursor = s.cursor
    BY <1>6, <1>7 DEF Store
  <1> QED
    BY <1>1, <1>2, <1>8, <1>9 DEF r, parent, Ids, ListIds, Opened

\* Neither rows nor parents change.
Keeps(s, r) ==
  /\ r \in Store /\ r.list = s.list /\ r.active = s.active
  /\ r.parent = s.parent /\ r.hidden = s.hidden /\ r.cursor = s.cursor

LEMMA LoadingEffect ==
    ASSUME NEW s \in Store, NEW on \in BOOLEAN
    PROVE  Keeps(s, SetListLoading(s, Workspace, on)) /\ Keeps(s, SetListPaging(s, Workspace, on))
  <1>1. Workspace \in Workspaces
    BY ListAssumption
  <1>2. /\ s.listing \cup {Workspace} \in SUBSET Workspaces /\ s.listing \ {Workspace} \in SUBSET Workspaces
        /\ s.paging \cup {Workspace} \in SUBSET Workspaces /\ s.paging \ {Workspace} \in SUBSET Workspaces
    BY <1>1 DEF Store
  <1>3. ASSUME NEW set \in SUBSET Workspaces
        PROVE  Keeps(s, [s EXCEPT !.listing = set]) /\ Keeps(s, [s EXCEPT !.paging = set])
    BY DEF Store, Keeps
  <1>4. PICK a \in SUBSET Workspaces : SetListLoading(s, Workspace, on) = [s EXCEPT !.listing = a]
    BY <1>2 DEF SetListLoading, Store
  <1>5. PICK b \in SUBSET Workspaces : SetListPaging(s, Workspace, on) = [s EXCEPT !.paging = b]
    BY <1>2 DEF SetListPaging, Store
  <1> QED
    BY <1>3, <1>4, <1>5

LEMMA CursorEffect ==
    ASSUME NEW s \in Store, NEW cursor \in OrNone(Threads) \cup {PageStart}
    PROVE  LET r == SetListCursor(s, Workspace, cursor) IN
           /\ r \in Store /\ r.list = s.list /\ r.active = s.active /\ r.parent = s.parent
           /\ r.hidden = s.hidden /\ r.cursor[Workspace] = cursor
  <1>1. Workspace \in Workspaces
    BY ListAssumption
  <1> QED
    BY <1>1 DEF Store, SetListCursor

\* The same rows are open.
LEMMA SameRows ==
    ASSUME NEW s, NEW r, r.list = s.list
    PROVE  Ids(r) = Ids(s) /\ (r.active = s.active => Opened(s) = Opened(r))
  BY DEF Ids, ListIds, Opened

LEMMA ParentEffect ==
    ASSUME NEW s \in Store, NEW parent \in [Threads -> OrNone(Threads)]
    PROVE  LET r == [s EXCEPT !.parent = parent] IN
           /\ r \in Store /\ r.list = s.list /\ r.active = s.active /\ r.parent = parent
           /\ r.hidden = s.hidden /\ r.cursor = s.cursor
  BY DEF Store

\* The parent LinkedAll gives t.
Spawners(s, set) ==
  [t \in Threads |->
     IF t \in set /\ Spawner[t] # None /\ MayHang(Spawner[t], t) THEN Spawner[t] ELSE s.parent[t]]
Hangs(s, p, set) ==
  [t \in Threads |-> IF t \in set /\ MayHang(p, t) THEN p ELSE s.parent[t]]

\* LinkedAll changes parents alone.
LEMMA LinkedEffect ==
    ASSUME NEW s \in Store, NEW set
    PROVE  LET r == LinkedAll(s, set) IN
           /\ r \in Store /\ r.list = s.list /\ r.active = s.active
           /\ r.hidden = s.hidden /\ r.cursor = s.cursor
           /\ r.parent = Spawners(s, set)
  <1>1. Spawners(s, set) \in [Threads -> OrNone(Threads)]
    BY StoreFields, ThreadsAreRanks DEF Spawners
  <1>2. LinkedAll(s, set) = [s EXCEPT !.parent = Spawners(s, set)]
    BY DEF LinkedAll, Spawners, Store
  <1> QED
    BY <1>1, <1>2, ParentEffect

\* UpdateThreadParent changes parents alone.
LEMMA HangEffect ==
    ASSUME NEW s \in Store, NEW set, NEW p \in Threads
    PROVE  LET r == UpdateThreadParent(s, p, set) IN
           /\ r \in Store /\ r.list = s.list /\ r.active = s.active
           /\ r.hidden = s.hidden /\ r.cursor = s.cursor
           /\ r.parent = Hangs(s, p, set)
  <1>1. Hangs(s, p, set) \in [Threads -> OrNone(Threads)]
    BY StoreFields DEF Hangs, OrNone
  <1>2. UpdateThreadParent(s, p, set) = [s EXCEPT !.parent = Hangs(s, p, set)]
    BY DEF UpdateThreadParent, Hangs, Store
  <1> QED
    BY <1>1, <1>2, ParentEffect

\* Hiding the background threads of a page.
LEMMA HideMemoryEffect ==
    ASSUME NEW s \in Store, NEW page
    PROVE  LET r == HideMemory(s, page) IN
           /\ r \in Store /\ r.parent = s.parent /\ r.cursor = s.cursor
           /\ Ids(r) \subseteq Ids(s)
           /\ Ids(s) \ Memory \subseteq Ids(r)
           /\ Opened(s) => Opened(r)
  <1> DEFINE hides == {t \in ToSet(page.threads) : Own(t) /\ t \in Memory} \ s.hidden[Workspace]
             rows == Of(s.list[Workspace], Ids(s) \ hides)
             open == IF s.active[Workspace] \in hides THEN FirstOr(rows) ELSE s.active[Workspace]
             hid == s.hidden[Workspace] \cup hides
             r == HideMemory(s, page)
  <1>1. rows \in Seq(Line) /\ IdsOf(rows) = Ids(s) \ hides
    <2> HIDE DEF hides
    <2> QED
      BY OfIds, StoreFields
  <1>2. hides \subseteq Memory
    OBVIOUS
  <1>3. hid \in SUBSET Memory
    BY <1>2, StoreFields
  <1>4. r = [s EXCEPT !.hidden[Workspace] = hid, !.list[Workspace] = rows,
                      !.active[Workspace] = open]
    BY StoreFields DEF HideMemory, Ids, ListIds
  <1> HIDE DEF hides, rows, hid, r
  <1>5. open \in OrNone(Threads) /\ (open # None /\ Opened(s) => open \in IdsOf(rows))
    BY <1>1, FirstOrIn, StoreFields DEF Opened
  <1> HIDE DEF open
  <1>6. Workspace \in Workspaces
    BY ListAssumption
  <1>7. r \in Store
    BY <1>1, <1>3, <1>4, <1>5, <1>6 DEF Store
  <1>8. /\ r.list[Workspace] = rows /\ r.active[Workspace] = open
        /\ r.parent = s.parent /\ r.cursor = s.cursor
    BY <1>4, <1>6 DEF Store
  <1>9. Ids(r) = Ids(s) \ hides
    BY <1>1, <1>8 DEF Ids, ListIds
  <1> QED
    BY <1>1, <1>2, <1>5, <1>7, <1>8, <1>9 DEF r, Opened

\* SET_THREADS replaces the rows by those of the answer.
LEMMA ReplaceEffect ==
    ASSUME NEW s \in Store, NEW threads \in Seq(Line)
    PROVE  LET r == ReplaceThreads(s, Workspace, threads) IN
           /\ r \in Store /\ r.parent = s.parent /\ r.cursor = s.cursor
           /\ Ids(r) = IdsOf(threads) \ s.hidden[Workspace]
           /\ Opened(r)
  <1> DEFINE rows == Visible(s, Workspace, threads)
             open == IF s.active[Workspace] # None /\ s.active[Workspace] \in IdsOf(rows)
                     THEN s.active[Workspace] ELSE FirstOr(rows)
             r == ReplaceThreads(s, Workspace, threads)
  <1>1. rows \in Seq(Line) /\ IdsOf(rows) = IdsOf(threads) \ s.hidden[Workspace]
    BY OfIds DEF Visible
  <1>2. open \in OrNone(Threads) /\ (open # None => open \in IdsOf(rows))
    BY <1>1, FirstOrIn, StoreFields
  <1>3. r = [s EXCEPT !.list[Workspace] = rows, !.active[Workspace] = open]
    BY StoreFields DEF ReplaceThreads
  <1> HIDE DEF rows, open, r
  <1>4. Workspace \in Workspaces
    BY ListAssumption
  <1>5. r \in Store
    BY <1>1, <1>2, <1>3, <1>4 DEF Store
  <1>6. /\ r.list[Workspace] = rows /\ r.active[Workspace] = open
        /\ r.parent = s.parent /\ r.cursor = s.cursor
    BY <1>3, <1>4 DEF Store
  <1> QED
    BY <1>1, <1>2, <1>5, <1>6 DEF r, Ids, ListIds, Opened

\* The rows an answer leaves out but keeps are those that were on screen.
LEMMA AnchorEffect ==
    ASSUME NEW s \in Store, NEW threads \in Seq(Line)
    PROVE  LET r == AnchorThreads(s, Workspace, threads) IN
           /\ r \in Store /\ r.parent = s.parent /\ r.cursor = s.cursor
           /\ Ids(r) \subseteq IdsOf(threads) \cup Ids(s)
           /\ IdsOf(threads) \ s.hidden[Workspace] \subseteq Ids(r)
           /\ Opened(s) /\ s.active[Workspace] \notin s.hidden[Workspace] => Opened(r)
  <1> DEFINE shown == Visible(s, Workspace, threads)
             old == Visible(s, Workspace, s.list[Workspace])
             lost == Of(old, IdsOf(old) \ IdsOf(shown))
             running == {t \in IdsOf(lost) \ {s.active[Workspace]} : s.status[t].processing}
             seeds == Of(lost, {s.active[Workspace]}) \o Of(lost, running)
             kept == IdsOf(shown) \cup IdsOf(seeds)
             above == UNION {Ancestors(s, t) : t \in kept} \ kept
             rows == seeds \o Of(lost, above)
             fresh(line) == [line EXCEPT !.at = CHOOSE m \in {line.at, s.last[line.id], s.status[line.id].since} :
                               \A n \in {line.at, s.last[line.id], s.status[line.id].since} : m >= n]
             r == AnchorThreads(s, Workspace, threads)
             new == shown \o [i \in DOMAIN rows |-> fresh(rows[i])]
  <1>1. r = [s EXCEPT !.list[Workspace] = new]
    BY DEF AnchorThreads
  <1>2. shown \in Seq(Line) /\ IdsOf(shown) = IdsOf(threads) \ s.hidden[Workspace]
    BY OfIds DEF Visible
  <1>3. old \in Seq(Line) /\ IdsOf(old) = Ids(s) \ s.hidden[Workspace]
    <2>1. s.list[Workspace] \in Seq(Line) /\ IdsOf(s.list[Workspace]) = Ids(s)
      BY StoreFields
    <2> QED
      BY <2>1, OfIds DEF Visible
  <1> HIDE DEF shown, old
  <1>4. lost \in Seq(Line) /\ IdsOf(lost) = (Ids(s) \ s.hidden[Workspace]) \ IdsOf(shown)
    BY <1>3, OfIds
  <1> HIDE DEF lost, running
  <1>5. /\ Of(lost, {s.active[Workspace]}) \in Seq(Line) /\ Of(lost, running) \in Seq(Line)
        /\ IdsOf(Of(lost, {s.active[Workspace]})) = IdsOf(lost) \cap {s.active[Workspace]}
        /\ IdsOf(Of(lost, running)) \subseteq IdsOf(lost)
    BY <1>4, OfIds
  <1>6. /\ seeds \in Seq(Line) /\ IdsOf(seeds) \subseteq IdsOf(lost)
        /\ IdsOf(lost) \cap {s.active[Workspace]} \subseteq IdsOf(seeds)
    BY <1>5, IdsOfParts
  <1> HIDE DEF seeds, above
  <1>7. Of(lost, above) \in Seq(Line) /\ IdsOf(Of(lost, above)) \subseteq IdsOf(lost)
    BY <1>4, OfIds
  <1>8. /\ rows \in Seq(Line) /\ IdsOf(rows) \subseteq IdsOf(lost)
        /\ IdsOf(seeds) \subseteq IdsOf(rows)
    BY <1>6, <1>7, IdsOfParts
  <1> HIDE DEF rows
  <1>9. ASSUME NEW line \in Line
        PROVE  fresh(line) = line
    <2>1. line.at = 0 /\ s.last[line.id] = 0 /\ s.status[line.id].since = 0
      <3>1. line.at = 0 /\ line.id \in Threads
        BY DEF Line
      <3>2. s.last[line.id] \in {0} /\ s.status[line.id] \in Mark
        BY <3>1, StoreFields
      <3> QED
        BY <3>1, <3>2 DEF Mark
    <2>2. fresh(line) = [line EXCEPT !.at = 0]
      BY <2>1
    <2> QED
      BY <2>1, <2>2 DEF Line
  <1> HIDE DEF fresh
  <1>10. [i \in DOMAIN rows |-> fresh(rows[i])] = rows
    <2>1. \A i \in DOMAIN rows : fresh(rows[i]) = rows[i]
      BY <1>8, <1>9
    <2>2. rows = [i \in DOMAIN rows |-> rows[i]]
      BY <1>8
    <2> QED
      BY <2>1, <2>2
  <1>11. new = shown \o rows
    BY <1>10
  <1>12. new \in Seq(Line) /\ IdsOf(new) = IdsOf(shown) \cup IdsOf(rows)
    BY <1>2, <1>8, <1>11, IdsOfParts
  <1> HIDE DEF new, r
  <1>13. Workspace \in Workspaces
    BY ListAssumption
  <1>14. r \in Store
    BY <1>1, <1>12, <1>13 DEF Store
  <1>15. /\ r.list[Workspace] = new /\ r.active = s.active
         /\ r.parent = s.parent /\ r.cursor = s.cursor
    BY <1>1, <1>13 DEF Store
  <1>16. Ids(r) = IdsOf(shown) \cup IdsOf(rows)
    BY <1>12, <1>15 DEF Ids, ListIds
  <1>17. Opened(s) /\ s.active[Workspace] \notin s.hidden[Workspace] => Opened(r)
    BY <1>2, <1>4, <1>6, <1>8, <1>15, <1>16 DEF Opened
  <1> QED
    BY <1>2, <1>4, <1>8, <1>14, <1>15, <1>16, <1>17 DEF r

----------------------------------------------------------------------------
(* Types                                                                    *)

\* The threads this workspace may show.
Ours == Threads \ (Memory \cup Foreign)
Capture == [active : OrNone(Threads), rows : Seq(Line), running : SUBSET Threads,
            parent : [Threads -> OrNone(Threads)]]
Ops == {"list", "older", "start", "fork", "resume", "review", "archive", "cascade"}
Call == [op : Ops, thread : OrNone(Threads), preserve : BOOLEAN, cursor : OrNone(Threads),
         pages : Nat, got : Seq(Threads), resume : OrNone(Threads) \cup {PageStart},
         saw : {<<>>} \cup Capture]
Kinds == {"thread/started", "thread/archived", "thread/unarchived", "collab", "turn/started"}
Notice == [type : Kinds, thread : Threads, others : SUBSET Threads]
Server == [alive : SUBSET Threads, unborn : SUBSET Threads, gone : SUBSET Threads,
           wire : Seq(Notice)]
Past == [late : SUBSET Threads, lost : SUBSET Threads, asked : SUBSET Threads,
         due : SUBSET Threads, orphans : SUBSET Threads, told : SUBSET Threads, crossed : BOOLEAN]

CallType(c) ==
  /\ c \in Call
  /\ c.op \in {"list", "older"} => c.saw \in Capture
  /\ c.op \in {"fork", "resume", "review", "archive"} => c.thread \in Threads
  /\ c.op = "cascade" /\ c.thread = None => c.got # <<>>

TypeOK ==
  /\ store \in Store /\ seen \in Store
  /\ agents \subseteq Threads
  /\ \A c \in calls : CallType(c)
  /\ server \in Server
  /\ past \in Past

\* Rows are lost, or an agent loses its parent, and the rest of the history stays.
LEMMA LosesType ==
    ASSUME past \in Past, NEW S \in SUBSET Threads, NEW T \in SUBSET Threads,
           past' = [past EXCEPT !.lost = @ \cup S, !.orphans = @ \cup T]
    PROVE  /\ past' \in Past /\ past'.late = past.late /\ past'.lost = past.lost \cup S
           /\ past'.orphans = past.orphans \cup T /\ past'.crossed = past.crossed
           /\ past'.asked = past.asked /\ past'.due = past.due /\ past'.told = past.told
  BY DEF Past

\* A row may be lost, and the rest of the history stays.
Losing ==
  /\ past' \in Past /\ past'.late = past.late /\ past.lost \subseteq past'.lost
  /\ past'.orphans = past.orphans /\ past'.crossed = past.crossed
  /\ past'.asked = past.asked /\ past'.due = past.due /\ past'.told = past.told

LEMMA CapturedType ==
    ASSUME seen \in Store
    PROVE  /\ Captured \in Capture
           /\ IdsOf(Captured.rows) = Ids(seen)
  <1>1. Captured.rows = seen.list[Workspace]
    BY DEF Captured
  <1> QED
    BY <1>1, StoreFields DEF Captured, Capture, Ids, ListIds

\* A page holds living threads only.
LEMMA PageOf ==
    ASSUME server \in Server, NEW cursor \in OrNone(Threads)
    PROVE  /\ Page(cursor) = [threads |-> Page(cursor).threads, next |-> Page(cursor).next]
           /\ Page(cursor).threads \in Seq(Threads)
           /\ ToSet(Page(cursor).threads) \subseteq server.alive
           /\ Page(cursor).next \in OrNone(Threads)
  <1> DEFINE set == {t \in server.alive : cursor = None \/ t < cursor}
             older == Newest(set)
  <1>1. set \in SUBSET Threads /\ set \subseteq server.alive
    BY DEF Server
  <1>2. older \in Seq(Threads) /\ ToSet(older) = set
    <2> HIDE DEF set
    <2> QED
      BY <1>1, NewestOf
  <1>3. Page(cursor) = [threads |-> FirstOf(PageSize, older),
                        next |-> IF Len(older) > PageSize THEN older[PageSize] ELSE None]
    BY DEF Page
  <1> HIDE DEF older, set
  <1>4. PageSize \in Nat /\ PageSize >= 1
    BY ListAssumption
  <1>5. FirstOf(PageSize, older) \in Seq(Threads) /\ ToSet(FirstOf(PageSize, older)) \subseteq set
    BY <1>2, <1>4, FirstOfIn
  <1>6. Len(older) > PageSize => older[PageSize] \in Threads
    BY <1>2, <1>4
  <1> QED
    BY <1>1, <1>3, <1>5, <1>6 DEF OrNone

LEMMA MatchingOf ==
    ASSUME NEW c, c.got \in Seq(Threads), NEW page, page.threads \in Seq(Threads)
    PROVE  /\ Matching(c, page) \in Seq(Threads)
           /\ ToSet(Matching(c, page)) = ToSet(c.got) \cup (ToSet(page.threads) \cap Ours)
  <1> DEFINE set == {t \in Threads : Shown(t)}
  <1>1. set = Ours
    BY DEF Shown, Own, Ours
  <1>2. Matching(c, page) = c.got \o Those(page.threads, set)
    BY DEF Matching
  <1> HIDE DEF set
  <1>3. Those(page.threads, set) \in Seq(Threads) /\ ToSet(Those(page.threads, set)) = ToSet(page.threads) \cap set
    BY ThoseOf
  <1> QED
    BY <1>1, <1>2, <1>3, ConcatSet

LEMMA SummariesOf ==
    ASSUME NEW c, NEW got \in Seq(Threads)
    PROVE  /\ Summaries(c, got) \in Seq(Line)
           /\ IdsOf(Summaries(c, got)) \subseteq ToSet(got)
           /\ ToSet(FirstOf(Target, got)) \subseteq IdsOf(Summaries(c, got))
  <1> DEFINE first == FirstOf(Target, got)
             anchors == {t \in ToSet(got) : t = c.saw.active \/ t \in c.saw.running}
             kept == ToSet(first) \cup anchors
             above == UNION {AncestorsIn(c.saw.parent, t) : t \in kept}
             set == (anchors \cup above) \ ToSet(first)
  <1>1. Summaries(c, got) = Rows(first \o Those(got, set))
    BY DEF Summaries
  <1>2. first \in Seq(Threads) /\ ToSet(first) \subseteq ToSet(got)
    BY FirstOfIn, ListAssumption
  <1> HIDE DEF first, set
  <1>3. Those(got, set) \in Seq(Threads) /\ ToSet(Those(got, set)) \subseteq ToSet(got)
    BY ThoseOf
  <1>4. /\ first \o Those(got, set) \in Seq(Threads)
        /\ ToSet(first \o Those(got, set)) = ToSet(first) \cup ToSet(Those(got, set))
    BY <1>2, <1>3, ConcatSet
  <1> QED
    BY <1>1, <1>2, <1>3, <1>4, RowsIds DEF first

\* What the last page of a list writes into the store.
LEMMA ListedEffect ==
    ASSUME NEW s \in Store, NEW c \in Call, NEW got \in Seq(Threads),
           NEW cursor \in OrNone(Threads) \cup {PageStart}
    PROVE  LET r == Listed(c, s, got, cursor) IN
           /\ r \in Store
           /\ Ids(r) \subseteq Ids(s) \cup ToSet(got)
           /\ r.parent = Spawners(s, ToSet(got))
           /\ Opened(s) /\ s.active[Workspace] \notin s.hidden[Workspace] => Opened(r)
           /\ r.cursor[Workspace] = cursor
           /\ ToSet(FirstOf(Target, got)) \ s.hidden[Workspace] \subseteq Ids(r)
  <1> DEFINE linked == LinkedAll(s, ToSet(got))
             threads == Summaries(c, got)
             rows == AnchorThreads(linked, Workspace, threads)
             set == IF c.preserve THEN rows ELSE SetListLoading(rows, Workspace, FALSE)
             r == Listed(c, s, got, cursor)
  <1>1. /\ linked \in Store /\ linked.list = s.list /\ linked.active = s.active
        /\ linked.hidden = s.hidden /\ linked.parent = Spawners(s, ToSet(got))
    BY LinkedEffect
  <1>2. Ids(linked) = Ids(s) /\ Opened(s) = Opened(linked)
    BY <1>1, SameRows
  <1>3. /\ threads \in Seq(Line) /\ IdsOf(threads) \subseteq ToSet(got)
        /\ ToSet(FirstOf(Target, got)) \subseteq IdsOf(threads)
    BY SummariesOf
  <1>4. r = SetListCursor(set, Workspace, cursor)
    BY DEF Listed
  <1> HIDE DEF linked, threads, r
  <1>5. /\ rows \in Store /\ rows.parent = linked.parent
        /\ Ids(rows) \subseteq IdsOf(threads) \cup Ids(linked)
        /\ IdsOf(threads) \ linked.hidden[Workspace] \subseteq Ids(rows)
        /\ Opened(linked) /\ linked.active[Workspace] \notin linked.hidden[Workspace] => Opened(rows)
    BY <1>1, <1>3, AnchorEffect
  <1> HIDE DEF rows
  <1>6. set \in Store /\ set.list = rows.list /\ set.active = rows.active /\ set.parent = rows.parent
    <2>1. Keeps(rows, SetListLoading(rows, Workspace, FALSE))
      BY <1>5, LoadingEffect
    <2> QED
      BY <1>5, <2>1 DEF Keeps
  <1> HIDE DEF set
  <1>7. r \in Store /\ r.list = set.list /\ r.active = set.active /\ r.parent = set.parent
        /\ r.cursor[Workspace] = cursor
    BY <1>4, <1>6, CursorEffect
  <1>8. Ids(r) = Ids(rows) /\ Opened(rows) = Opened(r)
    BY <1>6, <1>7, SameRows
  <1> QED
    BY <1>1, <1>2, <1>3, <1>5, <1>6, <1>7, <1>8 DEF r

\* Nothing read was new, or the rows seen are put back with those read.
PutsBack(c, s, got, r) ==
  \/ Ids(r) = Ids(s) /\ r.parent = s.parent /\ ToSet(got) \subseteq IdsOf(c.saw.rows)
  \/ /\ Ids(r) = (IdsOf(c.saw.rows) \cup ToSet(got)) \ s.hidden[Workspace]
     /\ r.parent = Spawners(s, ToSet(got) \ IdsOf(c.saw.rows))

\* What a page of older threads writes into the store.
LEMMA OlderEffect ==
    ASSUME NEW s \in Store, NEW c \in Call, c.saw \in Capture, NEW got \in Seq(Threads),
           NEW cursor \in OrNone(Threads)
    PROVE  LET r == Older(c, s, got, cursor) IN
           /\ r \in Store
           /\ PutsBack(c, s, got, r)
           /\ Opened(s) => Opened(r)
           /\ r.cursor[Workspace] = cursor
  <1> DEFINE new == Additions(c, got)
             linked == LinkedAll(s, ToSet(new))
             threads == c.saw.rows \o Rows(new)
             rows == IF new = <<>> THEN s ELSE ReplaceThreads(linked, Workspace, threads)
             set == SetListCursor(rows, Workspace, cursor)
             r == Older(c, s, got, cursor)
  <1>1. new \in Seq(Threads) /\ ToSet(new) = ToSet(got) \ IdsOf(c.saw.rows)
    <2>1. new = Those(got, ToSet(got) \ IdsOf(c.saw.rows))
      BY DEF Additions
    <2> QED
      BY <2>1, ThoseOf
  <1>2. r = SetListPaging(set, Workspace, FALSE)
    BY DEF Older
  <1> HIDE DEF new, r
  <1>3. /\ linked \in Store /\ linked.hidden = s.hidden
        /\ linked.parent = Spawners(s, ToSet(got) \ IdsOf(c.saw.rows))
    BY <1>1, LinkedEffect
  <1>4. /\ threads \in Seq(Line)
        /\ IdsOf(threads) = IdsOf(c.saw.rows) \cup ToSet(got)
    <2>1. c.saw.rows \in Seq(Line)
      BY DEF Capture
    <2>2. Rows(new) \in Seq(Line) /\ IdsOf(Rows(new)) = ToSet(new)
      BY <1>1, RowsIds
    <2>3. threads \in Seq(Line) /\ IdsOf(threads) = IdsOf(c.saw.rows) \cup IdsOf(Rows(new))
      BY <2>1, <2>2, IdsOfParts
    <2> QED
      BY <1>1, <2>2, <2>3
  <1> HIDE DEF linked, threads
  <1>5. /\ rows \in Store
        /\ \/ Ids(rows) = Ids(s) /\ rows.parent = s.parent /\ ToSet(got) \subseteq IdsOf(c.saw.rows)
           \/ /\ Ids(rows) = (IdsOf(c.saw.rows) \cup ToSet(got)) \ s.hidden[Workspace]
              /\ rows.parent = Spawners(s, ToSet(got) \ IdsOf(c.saw.rows))
        /\ Opened(s) => Opened(rows)
    <2>1. CASE new = <<>>
      <3>1. ToSet(new) = {}
        BY <1>1, <2>1, EmptySet
      <3> QED
        BY <1>1, <2>1, <3>1
    <2>2. CASE new # <<>>
      BY <1>3, <1>4, <2>2, ReplaceEffect
    <2> QED
      BY <2>1, <2>2
  <1> HIDE DEF rows
  <1>6. /\ set \in Store /\ set.list = rows.list /\ set.active = rows.active
        /\ set.parent = rows.parent /\ set.cursor[Workspace] = cursor
    BY <1>5, CursorEffect
  <1> HIDE DEF set
  <1>7. Keeps(set, r)
    BY <1>2, <1>6, LoadingEffect
  <1>8. /\ Ids(r) = Ids(rows) /\ Opened(r) = Opened(rows) /\ r.parent = rows.parent
        /\ r \in Store /\ r.cursor[Workspace] = cursor
    BY <1>6, <1>7, SameRows DEF Keeps
  <1>9. PutsBack(c, s, got, r)
    BY <1>5, <1>8 DEF PutsBack
  <1> QED
    BY <1>5, <1>8, <1>9 DEF r

LEMMA AskType ==
    ASSUME NEW op \in {"start", "fork", "resume", "review", "archive"}, NEW t \in OrNone(Threads),
           op # "start" => t \in Threads
    PROVE  CallType(Ask(op, t)) /\ Ask(op, t).op = op /\ Ask(op, t).thread = t
  BY DEF CallType, Ask, Call, Ops, OrNone

LEMMA NoteType ==
    ASSUME NEW type \in Kinds, NEW t \in Threads
    PROVE  Note(type, t) \in Notice /\ Note(type, t).type = type /\ Note(type, t).thread = t
           /\ Note(type, t).others = {}
  BY DEF Note, Notice

LEMMA ServerFields ==
    ASSUME server \in Server
    PROVE  /\ server.alive \subseteq Threads /\ server.unborn \subseteq Threads
           /\ server.gone \subseteq Threads /\ server.wire \in Seq(Notice)
           /\ \A i \in DOMAIN server.wire : server.wire[i] \in Notice
  BY DEF Server

----------------------------------------------------------------------------
(* What each action does to the rows and the parents, and that it keeps the *)
(* types.                                                                   *)

\* No row comes but those of X, and the open thread keeps its row.
Shows(X) ==
  /\ TypeOK'
  /\ Ids(store') \subseteq Ids(store) \cup X
  /\ Opened(store) /\ Ids(store) \cap Memory = {} => Opened(store')

\* A render takes the store as it is.
LEMMA RenderDoes ==
    ASSUME TypeOK, Render
    PROVE  /\ Shows({})
           /\ \A t \in Threads : \/ store'.parent[t] = store.parent[t]
                                 \/ store.parent[t] = None /\ store'.parent[t] = ReviewOf[t]
  <1> DEFINE hung(t) == /\ <<t, ReviewOf[t]>> \in links
                        /\ {t, ReviewOf[t]} \subseteq ListIds(store, Workspace)
                        /\ store.parent[t] = None
                        /\ t \notin Ancestors(store, ReviewOf[t])
             parent == [t \in Threads |-> IF hung(t) THEN ReviewOf[t] ELSE store.parent[t]]
  <1>1. store \in Store /\ UNCHANGED <<app, calls, server, plan, past>> /\ seen' = store
    BY DEF TypeOK, Render
  <1>2. store' = [store EXCEPT !.parent = parent]
    BY <1>1, StoreFields DEF Render
  <1> HIDE DEF hung
  <1>3. parent \in [Threads -> OrNone(Threads)]
    BY <1>1, StoreFields, ThreadsAreRanks
  <1>4. /\ store' \in Store /\ store'.list = store.list /\ store'.active = store.active
        /\ store'.parent = parent
    <2> HIDE DEF parent
    <2> QED
      BY <1>1, <1>2, <1>3, ParentEffect
  <1>5. Ids(store') = Ids(store) /\ Opened(store) = Opened(store')
    BY <1>4, SameRows
  <1>6. TypeOK'
    BY <1>1, <1>4 DEF TypeOK, app
  <1>7. \A t \in Threads : \/ store'.parent[t] = store.parent[t]
                           \/ store.parent[t] = None /\ store'.parent[t] = ReviewOf[t]
    BY <1>4 DEF hung
  <1> QED
    BY <1>5, <1>6, <1>7 DEF Shows

LEMMA ListThreadsDoes ==
    ASSUME TypeOK, NEW preserve \in BOOLEAN, ListThreads(preserve)
    PROVE  Shows({}) /\ store'.parent = store.parent
  <1> DEFINE c == [op |-> "list", thread |-> None, preserve |-> preserve, cursor |-> None,
                   pages |-> 0, got |-> <<>>, resume |-> None, saw |-> Captured]
             loading == SetListLoading(store, Workspace, TRUE)
  <1>1. store \in Store /\ calls' = calls \cup {c} /\ UNCHANGED <<seen, app, server>>
    BY DEF TypeOK, ListThreads
  <1>2. CallType(c)
    BY CapturedType DEF TypeOK, CallType, Call, Ops, OrNone
  <1>3. Keeps(store, loading)
    BY <1>1, LoadingEffect
  <1>4. store' = store \/ store' = SetListCursor(loading, Workspace, None)
    BY DEF ListThreads
  <1> HIDE DEF c, loading
  <1>5. /\ store' \in Store /\ store'.list = store.list /\ store'.active = store.active
        /\ store'.parent = store.parent
    <2>1. loading \in Store /\ None \in OrNone(Threads) \cup {PageStart}
      BY <1>3 DEF Keeps, OrNone
    <2> QED
      BY <1>1, <1>3, <1>4, <2>1, CursorEffect DEF Keeps
  <1>6. Ids(store') = Ids(store) /\ Opened(store) = Opened(store')
    BY <1>5, SameRows
  <1>7. past' \in Past
    BY DEF TypeOK, ListThreads, Past
  <1>8. TypeOK'
    BY <1>1, <1>2, <1>5, <1>7 DEF TypeOK, app
  <1> QED
    BY <1>5, <1>6, <1>8 DEF Shows

\* A page of a list hides background threads, and the last one lists.
LEMMA ListPageDoes ==
    ASSUME TypeOK, NEW c \in calls, ListPage(c)
    PROVE  LET got == Matching(c, Page(c.cursor)) IN
           /\ Shows(ToSet(got))
           /\ got \in Seq(Threads) /\ ToSet(got) \subseteq ToSet(c.got) \cup (server.alive \cap Ours)
           /\ UNCHANGED <<seen, server, past>>
           /\ \/ /\ store'.parent = store.parent /\ agents' = agents /\ Shows({})
                 /\ \E d : /\ calls' = (calls \ {c}) \cup {d}
                           /\ d.op = "list" /\ d.got = got /\ d.saw = c.saw /\ d.thread = c.thread
              \/ /\ store'.parent = Spawners(store, ToSet(got)) /\ calls' = calls \ {c}
                 /\ agents' = agents \cup Spawned(ToSet(got))
  <1> DEFINE page == Page(c.cursor)
             got == Matching(c, page)
             full == Len(got) > Target /\ c.resume = None
             resume == IF full THEN IF c.cursor = None THEN PageStart ELSE c.cursor ELSE c.resume
             hid == HideMemory(store, page)
             d == [c EXCEPT !.cursor = page.next, !.pages = @ + 1, !.got = got, !.resume = resume]
  <1>1. /\ store \in Store /\ c \in Call /\ c.op = "list" /\ c.saw \in Capture
        /\ UNCHANGED <<seen, server, past>> /\ server \in Server
    BY DEF TypeOK, CallType, ListPage
  <1>2. c.cursor \in OrNone(Threads) /\ c.got \in Seq(Threads) /\ c.preserve \in BOOLEAN
        /\ c.pages \in Nat /\ c.resume \in OrNone(Threads) \cup {PageStart}
        /\ c.thread \in OrNone(Threads)
    BY <1>1 DEF Call
  <1>3. /\ page.threads \in Seq(Threads) /\ ToSet(page.threads) \subseteq server.alive
        /\ page.next \in OrNone(Threads)
    BY <1>1, <1>2, PageOf
  <1>4. IF page.next # None /\ c.pages + 1 < MaxPages
          THEN calls' = (calls \ {c}) \cup {d} /\ store' = hid /\ UNCHANGED <<agents, plan>>
          ELSE /\ calls' = calls \ {c}
               /\ store' = Listed(c, hid, got, IF resume # None THEN resume ELSE page.next)
               /\ agents' = agents \cup Spawned(ToSet(got))
    BY DEF ListPage
  <1> HIDE DEF page
  <1>5. /\ got \in Seq(Threads)
        /\ ToSet(got) = ToSet(c.got) \cup (ToSet(page.threads) \cap Ours)
    BY <1>2, <1>3, MatchingOf
  <1>6. /\ hid \in Store /\ hid.parent = store.parent
        /\ Ids(hid) \subseteq Ids(store)
        /\ Opened(store) => Opened(hid)
    BY <1>1, HideMemoryEffect
  <1>7. resume \in OrNone(Threads) \cup {PageStart}
    BY <1>2
  <1> HIDE DEF got, hid, resume
  <1>8. CallType(d) /\ d.op = "list" /\ d.got = got /\ d.saw = c.saw /\ d.thread = c.thread
    <2>1. d.op = "list" /\ d.got = got /\ d.saw = c.saw /\ d.thread = c.thread
      BY <1>1 DEF Call
    <2>2. c.pages + 1 \in Nat
      BY <1>2
    <2>3. d \in Call
      BY <1>1, <1>2, <1>3, <1>5, <1>7, <2>2 DEF Call
    <2> HIDE DEF d
    <2> QED
      BY <1>1, <2>1, <2>3 DEF CallType
  <1> HIDE DEF d
  <1>9. CASE page.next # None /\ c.pages + 1 < MaxPages
    <2>1. calls' = (calls \ {c}) \cup {d} /\ store' = hid /\ agents' = agents
      BY <1>4, <1>9
    <2>2. TypeOK'
      BY <1>1, <1>6, <1>8, <2>1 DEF TypeOK
    <2>3. Shows({}) /\ Shows(ToSet(got))
      BY <1>6, <2>1, <2>2 DEF Shows
    <2> QED
      BY <1>1, <1>3, <1>5, <1>6, <1>8, <2>1, <2>3 DEF got, page
  <1>10. CASE ~(page.next # None /\ c.pages + 1 < MaxPages)
    <2> DEFINE cursor == IF resume # None THEN resume ELSE page.next
    <2>1. /\ calls' = calls \ {c} /\ agents' = agents \cup Spawned(ToSet(got))
          /\ store' = Listed(c, hid, got, cursor)
      BY <1>4, <1>10
    <2>2. cursor \in OrNone(Threads) \cup {PageStart}
      BY <1>3, <1>7
    <2> HIDE DEF cursor
    <2> DEFINE r == Listed(c, hid, got, cursor)
    <2>a. /\ r \in Store /\ Ids(r) \subseteq Ids(hid) \cup ToSet(got)
          /\ r.parent = Spawners(hid, ToSet(got))
          /\ Opened(hid) /\ hid.active[Workspace] \notin hid.hidden[Workspace] => Opened(r)
      <3>1. c \in Call
        BY <1>1
      <3>2. got \in Seq(Threads)
        BY <1>5
      <3>3. hid \in Store
        BY <1>6
      <3>4. r \in Store
        BY <3>1, <3>2, <3>3, <2>2, ListedEffect
      <3> QED
        BY <3>1, <3>2, <3>3, <2>2, ListedEffect
    <2>3. /\ store' \in Store /\ Ids(store') \subseteq Ids(hid) \cup ToSet(got)
          /\ store'.parent = Spawners(hid, ToSet(got))
          /\ Opened(hid) /\ hid.active[Workspace] \notin hid.hidden[Workspace] => Opened(store')
      BY <2>1, <2>a
    <2>4. Opened(store) /\ Ids(store) \cap Memory = {} => Opened(store')
      <3> SUFFICES ASSUME Opened(store), Ids(store) \cap Memory = {}
                   PROVE  Opened(store')
        OBVIOUS
      <3>1. hid.active[Workspace] # None => hid.active[Workspace] \in Ids(store)
        BY <1>6 DEF Opened
      <3>2. hid.hidden[Workspace] \subseteq Memory /\ Memory \subseteq Threads /\ None \notin Threads
        BY <1>6, StoreFields, ThreadsAreRanks, ListAssumption
      <3>3. hid.active[Workspace] \notin hid.hidden[Workspace]
        BY <3>1, <3>2
      <3> QED
        BY <1>6, <2>3, <3>3
    <2>5. agents' \subseteq Threads
      <3>1. ToSet(got) \subseteq Threads
        BY <1>5, SeqIn
      <3> QED
        BY <2>1, <3>1 DEF TypeOK, Spawned
    <2>6. TypeOK'
      BY <1>1, <2>1, <2>3, <2>5 DEF TypeOK
    <2>7. Shows(ToSet(got))
      BY <1>6, <2>3, <2>4, <2>6 DEF Shows
    <2>8. store'.parent = Spawners(store, ToSet(got))
      BY <1>6, <2>3 DEF Spawners
    <2> QED
      BY <1>1, <1>3, <1>5, <2>1, <2>7, <2>8 DEF got, page
  <1> QED
    BY <1>9, <1>10

\* The store is as it was.
LEMMA StoreStays ==
    ASSUME TypeOK', store' = store
    PROVE  Shows({}) /\ store'.parent = store.parent
  BY DEF Shows

LEMMA LoadOlderDoes ==
    ASSUME TypeOK, LoadOlder
    PROVE  Shows({}) /\ store'.parent = store.parent
  <1> DEFINE d == [op |-> "older", thread |-> None, preserve |-> FALSE,
                   cursor |-> IF seen.cursor[Workspace] = PageStart THEN None ELSE seen.cursor[Workspace],
                   pages |-> 0, got |-> <<>>, resume |-> None, saw |-> Captured]
  <1>1. /\ store \in Store /\ seen \in Store /\ calls' = calls \cup {d}
        /\ store' = SetListPaging(store, Workspace, TRUE)
        /\ UNCHANGED <<seen, app, server, past>>
    BY DEF TypeOK, LoadOlder
  <1>2. seen.cursor[Workspace] \in OrNone(Threads) \cup {PageStart}
    BY <1>1, StoreFields
  <1>3. CallType(d)
    BY <1>2, CapturedType DEF TypeOK, CallType, Call, Ops, OrNone
  <1>4. Keeps(store, store')
    BY <1>1, LoadingEffect
  <1> HIDE DEF d
  <1>5. Ids(store') = Ids(store) /\ Opened(store) = Opened(store')
    BY <1>4, SameRows DEF Keeps
  <1>6. TypeOK'
    BY <1>1, <1>3, <1>4 DEF TypeOK, app, Keeps
  <1> QED
    BY <1>4, <1>5, <1>6 DEF Shows, Keeps

LEMMA OlderPageDoes ==
    ASSUME TypeOK, NEW c \in calls, OlderPage(c)
    PROVE  LET got == Matching(c, Page(c.cursor)) IN
           /\ Shows(ToSet(got) \cup IdsOf(c.saw.rows))
           /\ got \in Seq(Threads) /\ ToSet(got) \subseteq ToSet(c.got) \cup (server.alive \cap Ours)
           /\ UNCHANGED <<seen, app, server, plan>> /\ Losing /\ c.op = "older"
           /\ \/ /\ store'.parent = store.parent /\ Shows({})
                 /\ \E d : /\ calls' = (calls \ {c}) \cup {d}
                           /\ d.op = "older" /\ d.got = got /\ d.saw = c.saw /\ d.thread = c.thread
              \/ store'.parent = store.parent /\ calls' = calls \ {c} /\ Shows({})
              \/ /\ store'.parent = Spawners(store, ToSet(got) \ IdsOf(c.saw.rows))
                 /\ calls' = calls \ {c}
                 /\ Ids(store') \subseteq IdsOf(c.saw.rows) \cup ToSet(got)
  <1> DEFINE page == Page(c.cursor)
             got == Matching(c, page)
             hid == HideMemory(store, page)
             d == [c EXCEPT !.cursor = page.next, !.pages = @ + 1, !.got = got]
             more == page.next # None /\ c.pages + 1 < MaxPages /\ Len(got) < Target
  <1>1. /\ store \in Store /\ c \in Call /\ c.op = "older" /\ c.saw \in Capture
        /\ UNCHANGED <<seen, app, server, plan>> /\ server \in Server /\ past \in Past
    BY DEF TypeOK, CallType, OlderPage
  <1>2. c.cursor \in OrNone(Threads) /\ c.got \in Seq(Threads) /\ c.pages \in Nat
        /\ c.thread \in OrNone(Threads)
    BY <1>1 DEF Call
  <1>3. /\ page.threads \in Seq(Threads) /\ ToSet(page.threads) \subseteq server.alive
        /\ page.next \in OrNone(Threads)
    BY <1>1, <1>2, PageOf
  <1>4. IF more
          THEN calls' = (calls \ {c}) \cup {d} /\ store' = hid /\ past' = past
          ELSE /\ calls' = calls \ {c} /\ store' = Older(c, hid, got, page.next)
               /\ past' = [past EXCEPT !.lost = @ \cup (Ids(hid) \ Ids(store'))]
    BY DEF OlderPage, Ids
  <1> HIDE DEF page, more
  <1>5. /\ got \in Seq(Threads)
        /\ ToSet(got) = ToSet(c.got) \cup (ToSet(page.threads) \cap Ours)
    BY <1>2, <1>3, MatchingOf
  <1>6. /\ hid \in Store /\ hid.parent = store.parent
        /\ Ids(hid) \subseteq Ids(store)
        /\ Opened(store) => Opened(hid)
    BY <1>1, HideMemoryEffect
  <1> HIDE DEF got, hid
  <1>8. CallType(d) /\ d.op = "older" /\ d.got = got /\ d.saw = c.saw /\ d.thread = c.thread
    <2>1. d.op = "older" /\ d.got = got /\ d.saw = c.saw /\ d.thread = c.thread
      BY <1>1 DEF Call
    <2>2. c.pages + 1 \in Nat
      BY <1>2
    <2>3. d \in Call
      BY <1>1, <1>2, <1>3, <1>5, <2>2 DEF Call
    <2> HIDE DEF d
    <2> QED
      BY <1>1, <2>1, <2>3 DEF CallType
  <1> HIDE DEF d
  <1>9. CASE more
    <2>1. calls' = (calls \ {c}) \cup {d} /\ store' = hid /\ Losing
      BY <1>1, <1>4, <1>9 DEF Losing
    <2>2. TypeOK'
      BY <1>1, <1>6, <1>8, <2>1 DEF TypeOK, app, Losing
    <2>3. Shows({}) /\ Shows(ToSet(got) \cup IdsOf(c.saw.rows))
      BY <1>6, <2>1, <2>2 DEF Shows
    <2> QED
      BY <1>1, <1>3, <1>5, <1>6, <1>8, <2>1, <2>3 DEF got, page
  <1>10. CASE ~more
    <2>1. calls' = calls \ {c} /\ store' = Older(c, hid, got, page.next)
      BY <1>4, <1>10
    <2>7. Losing
      <3> DEFINE gone == Ids(hid) \ Ids(store')
      <3>1. gone \subseteq Threads
        BY <1>6, StoreFields, IdsOfSet DEF Ids
      <3>2. past' = [past EXCEPT !.lost = @ \cup gone]
        BY <1>4, <1>10
      <3> HIDE DEF gone
      <3> QED
        BY <1>1, <3>1, <3>2 DEF Past, Losing
    <2> DEFINE r == Older(c, hid, got, page.next)
               new == ToSet(got) \ IdsOf(c.saw.rows)
    <2>2. /\ r \in Store
          /\ \/ Ids(r) = Ids(hid) /\ r.parent = hid.parent /\ ToSet(got) \subseteq IdsOf(c.saw.rows)
             \/ /\ Ids(r) = (IdsOf(c.saw.rows) \cup ToSet(got)) \ hid.hidden[Workspace]
                /\ r.parent = Spawners(hid, new)
          /\ Opened(hid) => Opened(r)
      <3>1. c \in Call /\ c.saw \in Capture
        BY <1>1
      <3>2. got \in Seq(Threads)
        BY <1>5
      <3>3. hid \in Store
        BY <1>6
      <3>4. page.next \in OrNone(Threads)
        BY <1>3
      <3>5. r \in Store /\ PutsBack(c, hid, got, r) /\ (Opened(hid) => Opened(r))
        BY <3>1, <3>2, <3>3, <3>4, OlderEffect
      <3> HIDE DEF r
      <3> QED
        BY <3>5 DEF PutsBack
    <2> HIDE DEF r
    <2>3. TypeOK'
      BY <1>1, <2>1, <2>2, <2>7 DEF TypeOK, app, r, Losing
    <2>4. Spawners(hid, new) = Spawners(store, new)
      BY <1>6 DEF Spawners
    <2>5. CASE Ids(r) = Ids(hid) /\ r.parent = hid.parent
      <3>1. Shows({}) /\ Shows(ToSet(got) \cup IdsOf(c.saw.rows))
        BY <1>6, <2>1, <2>2, <2>3, <2>5 DEF Shows, r
      <3> QED
        BY <1>1, <1>3, <1>5, <1>6, <2>1, <2>5, <2>7, <3>1 DEF got, page, r
    <2>6. CASE /\ Ids(r) = (IdsOf(c.saw.rows) \cup ToSet(got)) \ hid.hidden[Workspace]
               /\ r.parent = Spawners(hid, new)
      <3>1. Shows(ToSet(got) \cup IdsOf(c.saw.rows))
        BY <1>6, <2>1, <2>2, <2>3, <2>6 DEF Shows, r
      <3>2. Ids(store') \subseteq IdsOf(c.saw.rows) \cup ToSet(got) /\ store'.parent = Spawners(store, new)
        BY <2>1, <2>4, <2>6 DEF r
      <3> QED
        BY <1>1, <1>3, <1>5, <2>1, <2>7, <3>1, <3>2 DEF got, page
    <2> QED
      BY <2>2, <2>5, <2>6
  <1> QED
    BY <1>9, <1>10

LEMMA ListFailsDoes ==
    ASSUME TypeOK, NEW c \in calls, ListFails(c)
    PROVE  Shows({}) /\ store'.parent = store.parent
  <1>1. store \in Store /\ calls' = calls \ {c} /\ UNCHANGED <<seen, app, server, past>>
    BY DEF TypeOK, ListFails
  <1>2. Keeps(store, store')
    <2>1. Keeps(store, store)
      BY <1>1 DEF Keeps
    <2>2. /\ Keeps(store, SetListPaging(store, Workspace, FALSE))
          /\ Keeps(store, SetListLoading(store, Workspace, FALSE))
      BY <1>1, LoadingEffect
    <2>3. \/ store' = store \/ store' = SetListPaging(store, Workspace, FALSE)
          \/ store' = SetListLoading(store, Workspace, FALSE)
      BY DEF ListFails
    <2> QED
      BY <2>1, <2>2, <2>3
  <1>3. Ids(store') = Ids(store) /\ Opened(store) = Opened(store')
    BY <1>2, SameRows DEF Keeps
  <1>4. TypeOK'
    BY <1>1, <1>2 DEF TypeOK, app, Keeps
  <1> QED
    BY <1>2, <1>3, <1>4 DEF Shows, Keeps

LEMMA StartThreadDoes ==
    ASSUME TypeOK, StartThread
    PROVE  Shows({}) /\ store'.parent = store.parent
  <1>1. CallType(Ask("start", None))
    <2>1. None \in OrNone(Threads)
      BY DEF OrNone
    <2> QED
      BY <2>1, AskType
  <1>2. TypeOK'
    BY <1>1 DEF TypeOK, StartThread, app
  <1> QED
    BY <1>2, StoreStays DEF StartThread

LEMMA ForkThreadDoes ==
    ASSUME TypeOK, NEW t \in Threads, ForkThread(t)
    PROVE  Shows({}) /\ store'.parent = store.parent
  <1>1. CallType(Ask("fork", t))
    <2>1. t \in OrNone(Threads)
      BY DEF OrNone
    <2> QED
      BY <2>1, AskType
  <1>2. TypeOK'
    BY <1>1 DEF TypeOK, ForkThread, app
  <1> QED
    BY <1>2, StoreStays DEF ForkThread

LEMMA NotStartedDoes ==
    ASSUME TypeOK, NEW c \in calls, NotStarted(c)
    PROVE  Shows({}) /\ store'.parent = store.parent
  <1>1. TypeOK'
    BY DEF TypeOK, NotStarted, app
  <1> QED
    BY <1>1, StoreStays DEF NotStarted

LEMMA ResetDoes ==
    ASSUME TypeOK, ResetWorkspaceThreads
    PROVE  Shows({}) /\ store'.parent = store.parent
  <1>1. TypeOK'
    BY DEF TypeOK, ResetWorkspaceThreads
  <1> QED
    BY <1>1, StoreStays DEF ResetWorkspaceThreads

LEMMA StartReviewDoes ==
    ASSUME TypeOK, StartReview
    PROVE  Shows({}) /\ store'.parent = store.parent
  <1>1. seen.active[Workspace] \in Threads
    <2>1. seen \in Store
      BY DEF TypeOK
    <2>2. seen.active[Workspace] \in OrNone(Threads) /\ seen.active[Workspace] # None
      BY <2>1, StoreFields DEF StartReview
    <2> QED
      BY <2>2 DEF OrNone
  <1>2. CallType(Ask("review", seen.active[Workspace]))
    <2>1. seen.active[Workspace] \in OrNone(Threads)
      BY <1>1 DEF OrNone
    <2> QED
      BY <1>1, <2>1, AskType
  <1>3. TypeOK'
    BY <1>2 DEF TypeOK, StartReview, app
  <1> QED
    BY <1>3, StoreStays DEF StartReview

LEMMA SelectThreadDoes ==
    ASSUME TypeOK, NEW t \in Threads, SelectThread(t)
    PROVE  Shows({}) /\ store'.parent = store.parent
  <1>1. store \in Store /\ UNCHANGED <<seen, app, server, past>> /\ t \in Ids(store)
        /\ store' = SetActiveThreadId(store, Workspace, t)
        /\ (calls' = calls \/ calls' = calls \cup {Ask("resume", t)})
    BY DEF TypeOK, SelectThread, Ids
  <1>2. CallType(Ask("resume", t))
    <2>1. t \in OrNone(Threads)
      BY DEF OrNone
    <2> QED
      BY <2>1, AskType
  <1>3. /\ store' \in Store /\ Ids(store') = Ids(store) /\ store'.parent = store.parent
        /\ store'.active[Workspace] = t
    BY <1>1, SetActiveEffect
  <1>4. TypeOK'
    BY <1>1, <1>2, <1>3 DEF TypeOK, app
  <1> QED
    BY <1>1, <1>3, <1>4 DEF Shows, Opened

LEMMA RemoveThreadRowDoes ==
    ASSUME TypeOK, NEW t \in Threads, RemoveThreadRow(t)
    PROVE  Shows({}) /\ store'.parent = [store.parent EXCEPT ![t] = None]
           /\ t \notin Ids(store')
  <1>1. store \in Store /\ UNCHANGED <<seen, app, server, past>>
        /\ store' = RemoveThread(store, Workspace, t) /\ calls' = calls \cup {Ask("archive", t)}
    BY DEF TypeOK, RemoveThreadRow
  <1>2. CallType(Ask("archive", t))
    <2>1. t \in OrNone(Threads)
      BY DEF OrNone
    <2> QED
      BY <2>1, AskType
  <1>3. /\ store' \in Store /\ store'.parent = [store.parent EXCEPT ![t] = None]
        /\ Ids(store') = Ids(store) \ {t}
        /\ Opened(store) => Opened(store')
    BY <1>1, RemoveEffect
  <1>4. TypeOK'
    BY <1>1, <1>2, <1>3 DEF TypeOK, app
  <1> QED
    BY <1>3, <1>4 DEF Shows

LEMMA BornType ==
    ASSUME server \in Server, NEW t \in Threads, NEW wire \in Seq(Notice)
    PROVE  LET r == [server EXCEPT !.alive = @ \cup {t}, !.unborn = @ \ {t}, !.wire = wire] IN
           /\ r \in Server /\ r.alive = server.alive \cup {t} /\ r.unborn = server.unborn \ {t}
           /\ r.gone = server.gone /\ r.wire = wire
  BY DEF Server

LEMMA ArchivedType ==
    ASSUME server \in Server, NEW t \in Threads
    PROVE  LET r == Archived(server, t) IN
           /\ r \in Server /\ r.alive = server.alive \ {t} /\ r.unborn = server.unborn
           /\ r.gone = server.gone \cup {t}
           /\ r.wire = Append(server.wire, Note("thread/archived", t))
  <1>1. Note("thread/archived", t) \in Notice
    BY NoteType DEF Kinds
  <1>2. Append(server.wire, Note("thread/archived", t)) \in Seq(Notice)
    BY <1>1, ServerFields
  <1> QED
    BY <1>2 DEF Archived, Server

LEMMA WireType ==
    ASSUME server \in Server, NEW wire \in Seq(Notice)
    PROVE  LET r == [server EXCEPT !.wire = wire] IN
           /\ r \in Server /\ r.alive = server.alive /\ r.unborn = server.unborn
           /\ r.gone = server.gone /\ r.wire = wire
  BY DEF Server

LEMMA MissedType ==
    ASSUME past \in Past, NEW t \in Threads, Missed(t)
    PROVE  /\ past' \in Past /\ past'.asked = past.asked /\ past'.due = past.due
           /\ past'.orphans = past.orphans /\ past'.told = past.told /\ past'.crossed = past.crossed
           /\ past'.late = IF Listing THEN past.late \cup {t} ELSE past.late
           /\ past'.lost = past.lost
  BY DEF Missed, Past

LEMMA BornOf ==
    ASSUME server \in Server, NEW t \in Threads, NEW w \in Seq(Notice),
           server' = [server EXCEPT !.alive = @ \cup {t}, !.unborn = @ \ {t}, !.wire = w]
    PROVE  /\ server' \in Server /\ server'.alive = server.alive \cup {t}
           /\ server'.unborn = server.unborn \ {t} /\ server'.gone = server.gone
           /\ server'.wire = w
  BY BornType

LEMMA StartedDoes ==
    ASSUME TypeOK, NEW c \in calls, NEW t \in Threads, Started(c, t)
    PROVE  Shows({t}) /\ store'.parent = store.parent
  <1>1. /\ store \in Store /\ server \in Server /\ past \in Past
        /\ UNCHANGED <<seen, agents, skips, links, plan>> /\ Shown(t) /\ Missed(t)
        /\ store' = SetActiveThreadId(EnsureThread(store, Workspace, t), Workspace, t)
        /\ server' = [server EXCEPT !.alive = @ \cup {t}, !.unborn = @ \ {t},
                                    !.wire = Append(@, Note("thread/started", t))]
        /\ (calls' = calls \ {c} \/ calls' = (calls \ {c}) \cup {Ask("resume", t)})
    BY DEF TypeOK, Started
  <1> DEFINE e == EnsureThread(store, Workspace, t)
  <1>2. /\ e \in Store /\ e.parent = store.parent
        /\ Ids(e) = IF t \in store.hidden[Workspace] THEN Ids(store) ELSE Ids(store) \cup {t}
    BY <1>1, EnsureEffect
  <1>3. t \notin store.hidden[Workspace]
    BY <1>1, StoreFields DEF Shown
  <1> HIDE DEF e
  <1>4. /\ store' \in Store /\ Ids(store') = Ids(e) /\ store'.parent = e.parent
        /\ store'.active[Workspace] = t
    BY <1>1, <1>2, SetActiveEffect DEF e
  <1>5. CallType(Ask("resume", t))
    <2>1. t \in OrNone(Threads)
      BY DEF OrNone
    <2> QED
      BY <2>1, AskType
  <1>6. server' \in Server
    <2>1. Note("thread/started", t) \in Notice
      BY NoteType DEF Kinds
    <2>2. Append(server.wire, Note("thread/started", t)) \in Seq(Notice)
      BY <1>1, <2>1, ServerFields
    <2> QED
      BY <1>1, <2>2, BornOf
  <1>7. past' \in Past
    BY <1>1, MissedType
  <1>8. TypeOK'
    BY <1>1, <1>4, <1>5, <1>6, <1>7 DEF TypeOK
  <1> QED
    BY <1>2, <1>3, <1>4, <1>8 DEF Shows, Opened

\* The children a resumed thread's items mention, and its own source.
LEMMA ResumedDoes ==
    ASSUME TypeOK, NEW c \in calls, Resumed(c)
    PROVE  LET t == c.thread
               children == {u \in server.alive : Spawner[u] = t}
           IN /\ Shows({t}) /\ t \in server.alive /\ t \in Threads
              /\ store'.parent = [u \in Threads |->
                   IF u = t /\ Spawner[t] # None /\ MayHang(Spawner[t], t) THEN Spawner[t]
                   ELSE IF u \in children /\ MayHang(t, u) THEN t ELSE store.parent[u]]
  <1> DEFINE t == c.thread
             children == {u \in server.alive : Spawner[u] = t}
             e == EnsureThread(store, Workspace, t)
             h == UpdateThreadParent(e, t, children)
  <1>1. /\ store \in Store /\ server \in Server /\ t \in server.alive
        /\ UNCHANGED <<seen, skips, links, server, plan, past>>
        /\ store' = LinkedAll(h, {t})
        /\ agents' = agents \cup children \cup Spawned({t})
        /\ calls' = calls \ {c}
    BY DEF TypeOK, Resumed, Linked
  <1>2. t \in Threads
    BY <1>1, ServerFields
  <1> HIDE DEF t
  <1>3. /\ e \in Store /\ e.parent = store.parent /\ (Opened(store) => Opened(e))
        /\ Ids(e) = IF t \in store.hidden[Workspace] THEN Ids(store) ELSE Ids(store) \cup {t}
    BY <1>1, <1>2, EnsureEffect
  <1> HIDE DEF e
  <1>4. h \in Store /\ h.list = e.list /\ h.active = e.active /\ h.parent = Hangs(e, t, children)
    <2> HIDE DEF children
    <2> QED
      BY <1>2, <1>3, HangEffect
  <1> HIDE DEF h
  <1>5. /\ store' \in Store /\ store'.list = h.list /\ store'.active = h.active
        /\ store'.parent = Spawners(h, {t})
    BY <1>1, <1>4, LinkedEffect
  <1>6. Ids(store') = Ids(e) /\ Opened(store') = Opened(e)
    <2>1. store'.list = e.list /\ store'.active = e.active
      BY <1>4, <1>5
    <2> QED
      BY <2>1, SameRows
  <1>7. agents' \subseteq Threads
    BY <1>1, <1>2, ServerFields DEF TypeOK, Spawned
  <1>8. TypeOK'
    BY <1>1, <1>5, <1>7 DEF TypeOK
  <1>9. Shows({t})
    BY <1>3, <1>6, <1>8 DEF Shows
  <1>10. store'.parent = [u \in Threads |->
           IF u = t /\ Spawner[t] # None /\ MayHang(Spawner[t], t) THEN Spawner[t]
           ELSE IF u \in children /\ MayHang(t, u) THEN t ELSE store.parent[u]]
    BY <1>3, <1>4, <1>5 DEF Spawners, Hangs
  <1> QED
    BY <1>1, <1>2, <1>9, <1>10 DEF t

LEMMA RegisterDoes ==
    ASSUME TypeOK, NEW c \in calls, NEW t \in Threads, RegisterDetachedReviewChild(c, t)
    PROVE  Shows({}) /\ c.thread \in Threads /\ store'.parent = Hangs(store, c.thread, {t})
  <1>1. /\ store \in Store /\ server \in Server /\ past \in Past /\ CallType(c) /\ c.op = "review"
        /\ UNCHANGED <<seen, loaded, agents, skips, plan>> /\ Missed(t)
        /\ store' = UpdateThreadParent(store, c.thread, {t})
        /\ server' = [server EXCEPT !.alive = @ \cup {t}, !.unborn = @ \ {t},
                                    !.wire = Append(@, Note("thread/started", t))]
        /\ calls' = calls \ {c}
    BY DEF TypeOK, RegisterDetachedReviewChild
  <1>2. c.thread \in Threads
    BY <1>1 DEF CallType
  <1>3. /\ store' \in Store /\ store'.list = store.list /\ store'.active = store.active
        /\ store'.parent = Hangs(store, c.thread, {t})
    BY <1>1, <1>2, HangEffect
  <1>4. Ids(store') = Ids(store) /\ Opened(store) = Opened(store')
    BY <1>3, SameRows
  <1>5. server' \in Server
    <2>1. Note("thread/started", t) \in Notice
      BY NoteType DEF Kinds
    <2>2. Append(server.wire, Note("thread/started", t)) \in Seq(Notice)
      BY <1>1, <2>1, ServerFields
    <2> QED
      BY <1>1, <2>2, BornOf
  <1>6. past' \in Past
    BY <1>1, MissedType
  <1>7. TypeOK'
    BY <1>1, <1>3, <1>5, <1>6 DEF TypeOK
  <1> QED
    BY <1>2, <1>3, <1>4, <1>7 DEF Shows

\* The server refuses to archive a thread: its row may be lost, and its parent.
Refused(t) ==
  past' = [past EXCEPT !.lost = @ \cup ({t} \ ListIds(store, Workspace)),
                       !.orphans = @ \cup Spawned({t})]

LEMMA RefusedType ==
    ASSUME past \in Past, NEW t \in Threads, Refused(t)
    PROVE  /\ past' \in Past /\ past'.late = past.late /\ past.lost \subseteq past'.lost
           /\ t \in Ids(store) \cup past'.lost
           /\ past'.orphans = past.orphans \cup Spawned({t}) /\ past'.crossed = past.crossed
           /\ past'.asked = past.asked /\ past'.due = past.due /\ past'.told = past.told
  <1> DEFINE S == {t} \ Ids(store)
             T == Spawned({t})
  <1>1. S \in SUBSET Threads /\ T \in SUBSET Threads /\ t \in Ids(store) \cup S
    BY DEF Spawned
  <1>2. past' = [past EXCEPT !.lost = @ \cup S, !.orphans = @ \cup T]
    BY DEF Refused, Ids
  <1>3. T = Spawned({t})
    OBVIOUS
  <1> HIDE DEF S, T
  <1>4. /\ past' \in Past /\ past'.late = past.late /\ past'.lost = past.lost \cup S
        /\ past'.orphans = past.orphans \cup T /\ past'.crossed = past.crossed
        /\ past'.asked = past.asked /\ past'.due = past.due /\ past'.told = past.told
    BY <1>1, <1>2 DEF Past
  <1> QED
    BY <1>1, <1>3, <1>4

LEMMA ArchiveAnswerDoes ==
    ASSUME TypeOK, NEW c \in calls, ArchiveAnswer(c)
    PROVE  Shows({}) /\ store'.parent = store.parent /\ c.thread \in Threads
  <1>1. /\ UNCHANGED <<store, seen, app>> /\ calls' = calls \ {c} /\ c.op = "archive"
        /\ server \in Server /\ past \in Past /\ CallType(c)
        /\ \/ server' = Archived(server, c.thread) /\ Missed(c.thread)
           \/ UNCHANGED <<server, plan, past>>
           \/ UNCHANGED server /\ Refused(c.thread)
    BY DEF TypeOK, ArchiveAnswer, Refused
  <1>2. c.thread \in Threads
    BY <1>1 DEF CallType
  <1>3. server' \in Server /\ past' \in Past
    BY <1>1, <1>2, ArchivedType, MissedType, RefusedType
  <1>4. TypeOK'
    BY <1>1, <1>3 DEF TypeOK, app
  <1> QED
    BY <1>1, <1>2, <1>4, StoreStays

LEMMA CascadeAsksDoes ==
    ASSUME TypeOK, NEW c \in calls, CascadeAsks(c)
    PROVE  /\ Shows({}) /\ store'.parent = store.parent
           /\ c.got \in Seq(Threads) /\ c.got # <<>> /\ Head(c.got) \in Threads
           /\ LET d == [c EXCEPT !.thread = Head(c.got), !.got = Tail(c.got)] IN
              /\ calls' = (calls \ {c}) \cup {d}
              /\ d.op = "cascade" /\ d.thread = Head(c.got) /\ d.got = Tail(c.got)
  <1> DEFINE d == [c EXCEPT !.thread = Head(c.got), !.got = Tail(c.got)]
  <1>1. /\ UNCHANGED <<store, seen, loaded, agents, links, server, plan, past>>
        /\ calls' = (calls \ {c}) \cup {d}
        /\ CallType(c) /\ c.op = "cascade" /\ c.thread = None
    BY DEF TypeOK, CascadeAsks
  <1>2. c \in Call /\ c.got \in Seq(Threads) /\ c.got # <<>>
    BY <1>1 DEF CallType, Call
  <1>3. Head(c.got) \in Threads /\ Tail(c.got) \in Seq(Threads)
    BY <1>2
  <1>4. d \in Call /\ d.op = "cascade" /\ d.thread = Head(c.got) /\ d.got = Tail(c.got)
    BY <1>1, <1>2, <1>3 DEF Call, OrNone
  <1> HIDE DEF d
  <1>5. CallType(d)
    BY <1>3, <1>4, ThreadsAreRanks DEF CallType
  <1>6. TypeOK'
    BY <1>1, <1>5 DEF TypeOK
  <1> QED
    BY <1>1, <1>2, <1>3, <1>4, <1>6, StoreStays DEF d

LEMMA CascadeAnswerDoes ==
    ASSUME TypeOK, NEW c \in calls, CascadeAnswer(c)
    PROVE  /\ Shows({}) /\ store'.parent = store.parent /\ c.thread \in Threads
           /\ c.got \in Seq(Threads) /\ c.op = "cascade"
           /\ \/ calls' = calls \ {c} /\ c.got = <<>>
              \/ \E d : /\ calls' = (calls \ {c}) \cup {d}
                        /\ d.op = "cascade" /\ d.thread = None /\ d.got = c.got /\ c.got # <<>>
           /\ \/ server' = Archived(server, c.thread) /\ c.thread \in server.alive
              \/ server' = server /\ past'.late = past.late
           /\ past'.told = past.told /\ past'.crossed = past.crossed /\ past'.orphans = past.orphans
           /\ past.late \subseteq past'.late /\ past'.lost = past.lost /\ past'.due \subseteq past.due
           /\ past'.asked \subseteq past.asked \cup {c.thread}
           /\ c.thread \notin past'.due \cap server'.alive
           /\ server'.alive \subseteq server.alive /\ server'.unborn = server.unborn
  <1> DEFINE next == [c EXCEPT !.thread = None]
             archived == [past EXCEPT !.asked = @ \cup {c.thread},
                                      !.late = IF Listing THEN @ \cup {c.thread} ELSE @]
             forgotten == [past EXCEPT !.due = @ \ {c.thread}]
  <1>1. /\ UNCHANGED <<store, seen, loaded, agents, links>>
        /\ calls' = (calls \ {c}) \cup (IF c.got = <<>> THEN {} ELSE {next})
        /\ CallType(c) /\ c.op = "cascade" /\ c.thread # None
        /\ \/ server' = Archived(server, c.thread) /\ c.thread \in server.alive /\ past' = archived
           \/ c.thread \notin server.alive /\ server' = server /\ past' = past
           \/ server' = server /\ past' = forgotten
        /\ server \in Server /\ past \in Past
    BY DEF TypeOK, CascadeAnswer
  <1>2. c \in Call /\ c.got \in Seq(Threads) /\ c.thread \in Threads
    BY <1>1 DEF CallType, Call, OrNone
  <1>3. next \in Call /\ next.op = "cascade" /\ next.thread = None /\ next.got = c.got
    BY <1>1, <1>2 DEF Call, OrNone
  <1>4. /\ archived \in Past /\ archived.told = past.told /\ archived.crossed = past.crossed
        /\ archived.orphans = past.orphans /\ past.late \subseteq archived.late /\ archived.lost = past.lost
        /\ archived.due = past.due /\ archived.asked = past.asked \cup {c.thread}
    BY <1>1, <1>2 DEF Past
  <1>5. /\ forgotten \in Past /\ forgotten.told = past.told /\ forgotten.crossed = past.crossed
        /\ forgotten.orphans = past.orphans /\ forgotten.late = past.late /\ forgotten.lost = past.lost
        /\ forgotten.due = past.due \ {c.thread} /\ forgotten.asked = past.asked
    BY <1>1 DEF Past
  <1> HIDE DEF next, archived, forgotten
  <1>6. c.got # <<>> => CallType(next)
    BY <1>3 DEF CallType
  <1>7. /\ server' \in Server /\ server'.unborn = server.unborn
        /\ server'.alive = server.alive \/ server'.alive = server.alive \ {c.thread}
        /\ server' = Archived(server, c.thread) => server'.alive = server.alive \ {c.thread}
    BY <1>1, <1>2, ArchivedType
  <1>8. past' \in Past
    BY <1>1, <1>4, <1>5
  <1>9. TypeOK'
    BY <1>1, <1>6, <1>7, <1>8 DEF TypeOK
  <1>10. /\ past'.told = past.told /\ past'.crossed = past.crossed /\ past'.orphans = past.orphans
         /\ past.late \subseteq past'.late /\ past'.lost = past.lost /\ past'.due \subseteq past.due
         /\ past'.asked \subseteq past.asked \cup {c.thread}
    BY <1>1, <1>4, <1>5
  <1>11. c.thread \notin past'.due \cap server'.alive
    BY <1>1, <1>5, <1>7
  <1>12. \/ server' = Archived(server, c.thread) /\ c.thread \in server.alive
         \/ server' = server /\ past'.late = past.late
    BY <1>1, <1>5
  <1> QED
    BY <1>1, <1>2, <1>3, <1>7, <1>9, <1>10, <1>11, <1>12, StoreStays

LEMMA ConcatAt ==
    ASSUME NEW S, NEW s \in Seq(S), NEW u \in Seq(S)
    PROVE  /\ s \o u \in Seq(S) /\ Len(s \o u) = Len(s) + Len(u)
           /\ \A i \in 1..Len(s) : (s \o u)[i] = s[i]
           /\ \A i \in 1..Len(u) : (s \o u)[Len(s) + i] = u[i]
  OBVIOUS

\* What ServerSpawns writes.
Birth(t, informed) ==
  <<[Note("thread/started", t) EXCEPT !.others = IF informed THEN {t} ELSE {}]>>
    \o (IF t \in Memory THEN <<>>
        ELSE <<[Note("collab", Spawner[t]) EXCEPT !.others = {t}], Note("turn/started", t)>>)

LEMMA BirthType ==
    ASSUME NEW t \in Threads, NEW informed \in BOOLEAN, Spawner[t] # None \/ t \in Memory
    PROVE  /\ Birth(t, informed) \in Seq(Notice)
           /\ Birth(t, informed)[1].type = "thread/started"
           /\ Birth(t, informed)[1].thread = t /\ Birth(t, informed)[1].others \subseteq {t}
           /\ \/ t \in Memory /\ Len(Birth(t, informed)) = 1
              \/ /\ t \notin Memory /\ Len(Birth(t, informed)) = 3
                 /\ Birth(t, informed)[2].type = "collab"
                 /\ Birth(t, informed)[2].thread = Spawner[t]
                 /\ Birth(t, informed)[2].others = {t}
                 /\ Birth(t, informed)[3].type = "turn/started"
                 /\ Birth(t, informed)[3].thread = t
  <1> DEFINE a == [Note("thread/started", t) EXCEPT !.others = IF informed THEN {t} ELSE {}]
             b == [Note("collab", Spawner[t]) EXCEPT !.others = {t}]
             d == Note("turn/started", t)
  <1>1. a \in Notice /\ a.type = "thread/started" /\ a.thread = t /\ a.others \subseteq {t}
    BY DEF Note, Notice, Kinds
  <1>2. d \in Notice /\ d.type = "turn/started" /\ d.thread = t
    BY DEF Note, Notice, Kinds
  <1>3. Birth(t, informed) = <<a>> \o (IF t \in Memory THEN <<>> ELSE <<b, d>>)
    BY DEF Birth
  <1>4. CASE t \in Memory
    <2> HIDE DEF a, b, d
    <2>1. Birth(t, informed) = <<a>>
      BY <1>1, <1>3, <1>4
    <2> QED
      BY <1>1, <1>4, <2>1
  <1>5. CASE t \notin Memory
    <2>1. Spawner[t] \in Threads
      BY <1>5, ThreadsAreRanks DEF OrNone
    <2>2. b \in Notice /\ b.type = "collab" /\ b.thread = Spawner[t] /\ b.others = {t}
      BY <2>1 DEF Note, Notice, Kinds
    <2> HIDE DEF a, b, d
    <2> DEFINE s == <<a>>
               u == <<b, d>>
    <2>3. s \in Seq(Notice) /\ Len(s) = 1 /\ s[1] = a
      BY <1>1
    <2>4. u \in Seq(Notice) /\ Len(u) = 2 /\ u[1] = b /\ u[2] = d
      BY <1>2, <2>2
    <2>5. Birth(t, informed) = s \o u
      BY <1>3, <1>5
    <2> HIDE DEF s, u
    <2>6. /\ s \o u \in Seq(Notice) /\ Len(s \o u) = Len(s) + Len(u)
          /\ \A i \in 1..Len(s) : (s \o u)[i] = s[i]
          /\ \A i \in 1..Len(u) : (s \o u)[Len(s) + i] = u[i]
      <3>1. s \in Seq(Notice)
        BY <2>3
      <3>2. u \in Seq(Notice)
        BY <2>4
      <3> QED
        BY <3>1, <3>2, ConcatAt
    <2>7. /\ Len(s \o u) = 3 /\ (s \o u)[1] = s[1]
          /\ (s \o u)[2] = u[1] /\ (s \o u)[3] = u[2]
      <3>1. 1 \in 1..Len(s) /\ 1 \in 1..Len(u) /\ 2 \in 1..Len(u)
            /\ Len(s) + 1 = 2 /\ Len(s) + 2 = 3 /\ Len(s) + Len(u) = 3
        BY <2>3, <2>4
      <3> QED
        BY <2>6, <3>1
    <2> QED
      BY <1>1, <1>2, <1>5, <2>2, <2>3, <2>4, <2>5, <2>6, <2>7
  <1> QED
    BY <1>4, <1>5

LEMMA ServerSpawnsDoes ==
    ASSUME TypeOK, NEW t \in Threads, NEW informed \in BOOLEAN, ServerSpawns(t, informed)
    PROVE  /\ Shows({}) /\ store'.parent = store.parent
           /\ server'.wire = server.wire \o Birth(t, informed)
           /\ server'.alive = server.alive \cup {t} /\ server'.unborn = server.unborn \ {t}
           /\ server'.gone = server.gone
  <1>1. /\ UNCHANGED <<store, seen, app, calls, plan>> /\ Missed(t)
        /\ server \in Server /\ past \in Past /\ (Spawner[t] # None \/ t \in Memory)
        /\ server' = [server EXCEPT !.alive = @ \cup {t}, !.unborn = @ \ {t},
             !.wire = @ \o <<[Note("thread/started", t) EXCEPT !.others = IF informed THEN {t} ELSE {}]>>
                        \o (IF t \in Memory THEN <<>>
                            ELSE <<[Note("collab", Spawner[t]) EXCEPT !.others = {t}],
                                   Note("turn/started", t)>>)]
    BY DEF TypeOK, ServerSpawns
  <1> DEFINE a == <<[Note("thread/started", t) EXCEPT !.others = IF informed THEN {t} ELSE {}]>>
             b == IF t \in Memory THEN <<>>
                  ELSE <<[Note("collab", Spawner[t]) EXCEPT !.others = {t}], Note("turn/started", t)>>
  <1>2. Birth(t, informed) = a \o b /\ Birth(t, informed) \in Seq(Notice)
    BY <1>1, BirthType DEF Birth
  <1>3. a \in Seq(Notice) /\ b \in Seq(Notice)
    <2>1. [Note("thread/started", t) EXCEPT !.others = IF informed THEN {t} ELSE {}] \in Notice
      BY DEF Note, Notice, Kinds
    <2>2. Note("turn/started", t) \in Notice
      BY DEF Note, Notice, Kinds
    <2>3. t \notin Memory => Spawner[t] \in Threads
      BY <1>1, ThreadsAreRanks DEF OrNone
    <2>4. t \notin Memory => [Note("collab", Spawner[t]) EXCEPT !.others = {t}] \in Notice
      BY <2>3 DEF Note, Notice, Kinds
    <2> QED
      BY <2>1, <2>2, <2>4
  <1>4. server' = [server EXCEPT !.alive = @ \cup {t}, !.unborn = @ \ {t},
                                 !.wire = (server.wire \o a) \o b]
    BY <1>1 DEF Server
  <1> HIDE DEF a, b
  <1>5. server.wire \in Seq(Notice)
    BY <1>1, ServerFields
  <1>6. (server.wire \o a) \o b = server.wire \o (a \o b)
    <2>1. \A x, y, z \in Seq(Notice) : (x \o y) \o z = x \o (y \o z)
      BY ConcatAssociative
    <2> QED
      BY <1>3, <1>5, <2>1
  <1>7. server.wire \o Birth(t, informed) \in Seq(Notice)
    BY <1>2, <1>5
  <1>8. server' = [server EXCEPT !.alive = @ \cup {t}, !.unborn = @ \ {t},
                                 !.wire = server.wire \o Birth(t, informed)]
    BY <1>2, <1>4, <1>6
  <1>9. /\ server' \in Server /\ server'.alive = server.alive \cup {t}
        /\ server'.unborn = server.unborn \ {t} /\ server'.gone = server.gone
        /\ server'.wire = server.wire \o Birth(t, informed)
    BY <1>1, <1>7, <1>8, BornOf
  <1>10. past' \in Past
    BY <1>1, MissedType
  <1>11. TypeOK'
    BY <1>1, <1>9, <1>10 DEF TypeOK, app
  <1> QED
    BY <1>1, <1>9, <1>11, StoreStays

LEMMA ServerReportsDoes ==
    ASSUME TypeOK, NEW t \in Threads, ServerReports(t)
    PROVE  LET note == [Note("collab", t) EXCEPT !.others = {Spawner[t]}] IN
           /\ Shows({}) /\ store'.parent = store.parent
           /\ note \in Notice /\ note.type = "collab" /\ note.thread = t
           /\ note.others = {Spawner[t]}
           /\ server'.wire = Append(server.wire, note)
           /\ server'.alive = server.alive /\ server'.unborn = server.unborn
           /\ server'.gone = server.gone
  <1> DEFINE note == [Note("collab", t) EXCEPT !.others = {Spawner[t]}]
  <1>1. /\ UNCHANGED <<store, seen, app, calls, past>> /\ server \in Server
        /\ Spawner[t] # None
        /\ server' = [server EXCEPT !.wire = Append(@, note)]
    BY DEF TypeOK, ServerReports, Emit
  <1>2. Spawner[t] \in Threads
    BY <1>1, ThreadsAreRanks DEF OrNone
  <1>3. note \in Notice /\ note.type = "collab" /\ note.thread = t /\ note.others = {Spawner[t]}
    BY <1>2 DEF Note, Notice, Kinds
  <1>4. server' = [server EXCEPT !.wire = Append(server.wire, note)]
    BY <1>1 DEF Server
  <1> HIDE DEF note
  <1>5. Append(server.wire, note) \in Seq(Notice)
    BY <1>1, <1>3, ServerFields
  <1>6. /\ server' \in Server /\ server'.alive = server.alive /\ server'.unborn = server.unborn
        /\ server'.gone = server.gone /\ server'.wire = Append(server.wire, note)
    <2> DEFINE wire == Append(server.wire, note)
    <2> HIDE DEF wire
    <2>1. wire \in Seq(Notice) /\ server' = [server EXCEPT !.wire = wire]
      BY <1>4, <1>5 DEF wire
    <2>2. server \in Server
      BY <1>1
    <2>3. /\ server' \in Server /\ server'.alive = server.alive /\ server'.unborn = server.unborn
          /\ server'.gone = server.gone /\ server'.wire = wire
      BY <2>1, <2>2 DEF Server
    <2> QED
      BY <2>3 DEF wire
  <1>7. TypeOK'
    BY <1>1, <1>6 DEF TypeOK, app
  <1> QED
    BY <1>1, <1>3, <1>6, <1>7, StoreStays DEF note

LEMMA ServerArchivesDoes ==
    ASSUME TypeOK, NEW t \in Threads, ServerArchives(t)
    PROVE  Shows({}) /\ store'.parent = store.parent
  <1>1. /\ UNCHANGED <<store, seen, app, calls>> /\ server \in Server /\ past \in Past
        /\ server' = Archived(server, t) /\ Missed(t)
    BY DEF TypeOK, ServerArchives
  <1>2. server' \in Server /\ past' \in Past
    BY <1>1, ArchivedType, MissedType
  <1>3. TypeOK'
    BY <1>1, <1>2 DEF TypeOK, app
  <1> QED
    BY <1>1, <1>3, StoreStays

LEMMA ServerUnarchivesDoes ==
    ASSUME TypeOK, NEW t \in Threads, ServerUnarchives(t)
    PROVE  /\ Shows({}) /\ store'.parent = store.parent
           /\ server'.alive = server.alive \cup {t} /\ server'.unborn = server.unborn
           /\ server'.gone = server.gone
           /\ server'.wire = Append(server.wire, Note("thread/unarchived", t))
           /\ past'.due = past.due \ {t} /\ past'.asked = past.asked /\ past'.lost = past.lost
           /\ past'.orphans = past.orphans /\ past'.told = past.told /\ past'.crossed = past.crossed
           /\ past'.late = IF Listing THEN past.late \cup {t} ELSE past.late
  <1>1. /\ UNCHANGED <<store, seen, app, calls>> /\ server \in Server /\ past \in Past
        /\ server' = [server EXCEPT !.alive = @ \cup {t},
                                    !.wire = Append(@, Note("thread/unarchived", t))]
        /\ past' = [past EXCEPT !.due = @ \ {t}, !.late = IF Listing THEN @ \cup {t} ELSE @]
    BY DEF TypeOK, ServerUnarchives
  <1>2. Append(server.wire, Note("thread/unarchived", t)) \in Seq(Notice)
    <2>1. Note("thread/unarchived", t) \in Notice
      BY NoteType DEF Kinds
    <2> QED
      BY <1>1, <2>1, ServerFields
  <1>3. /\ server' \in Server /\ server'.alive = server.alive \cup {t}
        /\ server'.unborn = server.unborn /\ server'.gone = server.gone
        /\ server'.wire = Append(server.wire, Note("thread/unarchived", t))
    BY <1>1, <1>2 DEF Server
  <1>4. /\ past' \in Past /\ past'.due = past.due \ {t} /\ past'.asked = past.asked
        /\ past'.lost = past.lost
        /\ past'.orphans = past.orphans /\ past'.told = past.told /\ past'.crossed = past.crossed
        /\ past'.late = IF Listing THEN past.late \cup {t} ELSE past.late
    BY <1>1 DEF Past
  <1>5. TypeOK'
    BY <1>1, <1>3, <1>4 DEF TypeOK, app
  <1> QED
    BY <1>1, <1>3, <1>4, <1>5, StoreStays

----------------------------------------------------------------------------
(* The notifications                                                        *)

\* The head of the wire is handled.
Handles(note) ==
  /\ server.wire # <<>> /\ note = Head(server.wire)
  /\ server' = [server EXCEPT !.wire = Tail(@)]

LEMMA HandlesType ==
    ASSUME server \in Server, NEW note, Handles(note)
    PROVE  /\ note \in Notice /\ server.wire \in Seq(Notice) /\ note = server.wire[1]
           /\ Len(server.wire) >= 1
           /\ server' \in Server /\ server'.alive = server.alive
           /\ server'.unborn = server.unborn /\ server'.gone = server.gone
           /\ server'.wire = Tail(server.wire) /\ Len(server'.wire) = Len(server.wire) - 1
           /\ \A i \in 1..Len(server'.wire) : server'.wire[i] = server.wire[i + 1]
  <1>1. server.wire \in Seq(Notice) /\ server.wire # <<>> /\ note = Head(server.wire)
    BY ServerFields DEF Handles
  <1>2. /\ note \in Notice /\ note = server.wire[1] /\ Len(server.wire) >= 1
        /\ Tail(server.wire) \in Seq(Notice) /\ Len(Tail(server.wire)) = Len(server.wire) - 1
        /\ \A i \in 1..(Len(server.wire) - 1) : Tail(server.wire)[i] = server.wire[i + 1]
    BY <1>1
  <1>3. server' = [server EXCEPT !.wire = Tail(server.wire)]
    BY DEF Handles, Server
  <1>4. /\ server' \in Server /\ server'.alive = server.alive
        /\ server'.unborn = server.unborn /\ server'.gone = server.gone
        /\ server'.wire = Tail(server.wire)
    BY <1>2, <1>3, WireType
  <1> QED
    BY <1>1, <1>2, <1>4

LEMMA OnThreadStartedDoes ==
    ASSUME TypeOK, NEW note, Handles(note), OnThreadStarted(note)
    PROVE  LET t == note.thread IN
           /\ Shows({t} \ Memory)
           /\ \/ store'.parent = store.parent /\ Shows({})
              \/ /\ store'.parent = Spawners(store, {t})
                 /\ Spawner[t] = None \/ t \in note.others
                 /\ t \notin Memory
  <1> DEFINE t == note.thread
             e == EnsureThread(store, Workspace, t)
  <1>1. /\ store \in Store /\ server \in Server /\ UNCHANGED <<seen, loaded, skips, links, calls, plan, past>>
        /\ \/ store' = store
           \/ t \in Memory /\ store' = HideThread(store, Workspace, t)
           \/ /\ t \notin Memory /\ store' = LinkedAll(e, {t})
              /\ Spawner[t] = None \/ t \in note.others
        /\ (agents' = agents \/ agents' = agents \cup Spawned({t}))
    BY DEF TypeOK, OnThreadStarted, Linked
  <1>2. note \in Notice /\ server' \in Server
    BY <1>1, HandlesType
  <1>3. t \in Threads
    BY <1>2 DEF Notice
  <1>4. agents' \subseteq Threads
    BY <1>1, <1>3 DEF TypeOK, Spawned
  <1> HIDE DEF t
  <1>5. CASE store' = store
    <2>1. TypeOK'
      BY <1>1, <1>2, <1>4, <1>5 DEF TypeOK
    <2> QED
      BY <1>5, <2>1 DEF Shows, t
  <1>6. CASE t \in Memory /\ store' = HideThread(store, Workspace, t)
    <2>1. /\ store' \in Store /\ store'.parent = store.parent /\ Ids(store') \subseteq Ids(store)
          /\ Opened(store) => Opened(store')
      BY <1>1, <1>6, HideEffect
    <2>2. TypeOK'
      BY <1>1, <1>2, <1>4, <2>1 DEF TypeOK
    <2> QED
      BY <2>1, <2>2 DEF Shows, t
  <1>7. CASE /\ t \notin Memory /\ store' = LinkedAll(e, {t})
             /\ Spawner[t] = None \/ t \in note.others
    <2>1. /\ e \in Store /\ e.parent = store.parent /\ (Opened(store) => Opened(e))
          /\ Ids(e) \subseteq Ids(store) \cup {t}
      BY <1>1, <1>3, EnsureEffect
    <2> HIDE DEF e
    <2>2. /\ store' \in Store /\ store'.list = e.list /\ store'.active = e.active
          /\ store'.parent = Spawners(e, {t})
      BY <1>7, <2>1, LinkedEffect
    <2>3. Ids(store') = Ids(e) /\ Opened(store') = Opened(e)
      BY <2>2, SameRows
    <2>4. TypeOK'
      BY <1>1, <1>2, <1>4, <2>2 DEF TypeOK
    <2>5. Spawners(e, {t}) = Spawners(store, {t})
      BY <2>1 DEF Spawners
    <2> QED
      BY <1>7, <2>1, <2>2, <2>3, <2>4, <2>5 DEF Shows, t
  <1> QED
    BY <1>1, <1>5, <1>6, <1>7

LEMMA EnsuresDoes ==
    ASSUME TypeOK, NEW note, Handles(note),
           OnThreadUnarchived(note) \/ OnTurnStarted(note)
    PROVE  Shows({note.thread}) /\ store'.parent = store.parent
  <1>1. /\ store \in Store /\ server \in Server /\ UNCHANGED <<seen, app, calls, plan, past>>
        /\ store' = EnsureThread(store, Workspace, note.thread)
    BY DEF TypeOK, OnThreadUnarchived, OnTurnStarted
  <1>2. note \in Notice /\ server' \in Server
    BY <1>1, HandlesType
  <1>3. note.thread \in Threads
    BY <1>2 DEF Notice
  <1>4. /\ store' \in Store /\ store'.parent = store.parent /\ (Opened(store) => Opened(store'))
        /\ Ids(store') \subseteq Ids(store) \cup {note.thread}
    BY <1>1, <1>3, EnsureEffect
  <1>5. TypeOK'
    BY <1>1, <1>2, <1>4 DEF TypeOK, app
  <1> QED
    BY <1>4, <1>5 DEF Shows

LEMMA OnCollabDoes ==
    ASSUME TypeOK, NEW note, Handles(note), OnCollab(note)
    PROVE  /\ Shows({note.thread}) /\ note.thread \in Threads /\ note.others \subseteq Threads
           /\ store'.parent = Hangs(store, note.thread, note.others)
           /\ past'.late = past.late /\ past'.lost = past.lost /\ past'.asked = past.asked /\ past'.due = past.due
           /\ past'.orphans = IF store.parent[note.thread] = None
                            THEN past.orphans \cup Spawned({note.thread}) ELSE past.orphans
           /\ past'.told = past.told \cup {u \in note.others : u < note.thread}
           /\ past'.crossed = (past.crossed \/ \E u \in note.others :
                  u < note.thread /\ seen.parent[note.thread] = None /\ seen.parent[u] = None)
  <1> DEFINE t == note.thread
             e == EnsureThread(store, Workspace, t)
             reported == {u \in note.others : u < note.thread}
             open == {u \in reported : seen.parent[note.thread] = None /\ seen.parent[u] = None}
  <1>1. /\ store \in Store /\ server \in Server /\ past \in Past
        /\ UNCHANGED <<seen, loaded, skips, links, calls, plan>>
        /\ store' = UpdateThreadParent(e, t, note.others)
        /\ agents' = agents \cup note.others
        /\ past' = [past EXCEPT
             !.orphans = IF store.parent[t] = None THEN @ \cup Spawned({t}) ELSE @,
             !.told = @ \cup reported,
             !.crossed = @ \/ open # {}]
    BY DEF TypeOK, OnCollab
  <1>2. note \in Notice /\ server' \in Server
    BY <1>1, HandlesType
  <1>3. t \in Threads /\ note.others \subseteq Threads
    BY <1>2 DEF Notice
  <1>4. /\ e \in Store /\ e.parent = store.parent /\ (Opened(store) => Opened(e))
        /\ Ids(e) \subseteq Ids(store) \cup {t}
    BY <1>1, <1>3, EnsureEffect
  <1> HIDE DEF e
  <1>5. /\ store' \in Store /\ store'.list = e.list /\ store'.active = e.active
        /\ store'.parent = Hangs(e, t, note.others)
    BY <1>1, <1>3, <1>4, HangEffect
  <1>6. Ids(store') = Ids(e) /\ Opened(store') = Opened(e)
    BY <1>5, SameRows
  <1>7. Hangs(e, t, note.others) = Hangs(store, t, note.others)
    BY <1>4 DEF Hangs
  <1>8. /\ past' \in Past /\ past'.late = past.late /\ past'.lost = past.lost /\ past'.asked = past.asked
        /\ past'.due = past.due
        /\ past'.orphans = IF store.parent[t] = None THEN past.orphans \cup Spawned({t}) ELSE past.orphans
        /\ past'.told = past.told \cup reported
        /\ past'.crossed = (past.crossed \/ open # {})
    <2>1. Spawned({t}) \subseteq Threads /\ reported \subseteq Threads
      BY <1>3 DEF Spawned
    <2> HIDE DEF reported, open, t
    <2> QED
      BY <1>1, <2>1 DEF Past
  <1>9. TypeOK'
    BY <1>1, <1>2, <1>3, <1>5, <1>8 DEF TypeOK
  <1>10. (open # {}) <=> \E u \in note.others :
            u < t /\ seen.parent[t] = None /\ seen.parent[u] = None
    OBVIOUS
  <1> QED
    BY <1>3, <1>4, <1>5, <1>6, <1>7, <1>8, <1>9, <1>10 DEF Shows

LEMMA OnThreadArchivedDoes ==
    ASSUME TypeOK, NEW note, Handles(note), OnThreadArchived(note)
    PROVE  LET t == note.thread IN
           /\ Shows({}) /\ t \in Threads
           /\ store'.parent = [store.parent EXCEPT ![t] = None] /\ t \notin Ids(store')
           /\ past'.asked = past.asked /\ past'.orphans = past.orphans
           /\ past'.told = past.told /\ past'.crossed = past.crossed /\ past'.lost = past.lost
           /\ past'.late = IF Listing THEN past.late \cup {t} ELSE past.late
           /\ past'.due = IF t \in skips THEN past.due
                          ELSE past.due \cup (Descendants(t) \cap server.alive)
           /\ Descendants(t) \subseteq agents
           /\ \/ calls' = calls /\ (t \in skips \/ Descendants(t) = {})
              \/ \E d : /\ calls' = calls \cup {d} /\ d.op = "cascade" /\ d.thread = None
                        /\ d.got \in Seq(Threads) /\ d.got # <<>> /\ ToSet(d.got) = Descendants(t)
  <1> DEFINE t == note.thread
             family == Newest(Descendants(t))
             d == [Ask("cascade", None) EXCEPT !.got = family]
  <1>1. /\ store \in Store /\ server \in Server /\ past \in Past
        /\ UNCHANGED <<seen, loaded, agents, links, plan>>
        /\ store' = RemoveThread(store, Workspace, t)
        /\ calls' = IF t \in skips \/ family = <<>> THEN calls ELSE calls \cup {d}
        /\ past' = [past EXCEPT
             !.due = IF t \in skips THEN @ ELSE @ \cup (Descendants(t) \cap server.alive),
             !.late = IF Listing THEN @ \cup {t} ELSE @]
        /\ agents \subseteq Threads
    BY DEF TypeOK, OnThreadArchived
  <1>2. note \in Notice /\ server' \in Server
    BY <1>1, HandlesType
  <1>3. t \in Threads
    BY <1>2 DEF Notice
  <1>4. Descendants(t) \subseteq agents /\ Descendants(t) \in SUBSET Threads
    BY <1>1 DEF Descendants
  <1>5. family \in Seq(Threads) /\ ToSet(family) = Descendants(t)
    BY <1>4, NewestOf
  <1>6. (family = <<>>) <=> (Descendants(t) = {})
    <2> HIDE DEF family
    <2>1. (family = <<>>) <=> (ToSet(family) = {})
      BY <1>5, EmptySet
    <2> QED
      BY <1>5, <2>1
  <1> HIDE DEF family, t
  <1>7. d \in Call /\ d.op = "cascade" /\ d.thread = None /\ d.got = family
    BY <1>5 DEF Ask, Call, Ops, OrNone
  <1> HIDE DEF d
  <1>8. family # <<>> => CallType(d)
    BY <1>7 DEF CallType
  <1>9. /\ store' \in Store /\ store'.parent = [store.parent EXCEPT ![t] = None]
        /\ Ids(store') = Ids(store) \ {t}
        /\ Opened(store) => Opened(store')
    BY <1>1, <1>3, RemoveEffect
  <1>10. /\ past' \in Past /\ past'.asked = past.asked /\ past'.orphans = past.orphans
         /\ past'.told = past.told /\ past'.crossed = past.crossed /\ past'.lost = past.lost
         /\ past'.late = IF Listing THEN past.late \cup {t} ELSE past.late
         /\ past'.due = IF t \in skips THEN past.due
                        ELSE past.due \cup (Descendants(t) \cap server.alive)
    BY <1>1, <1>3, <1>4 DEF Past
  <1>11. TypeOK'
    BY <1>1, <1>2, <1>8, <1>9, <1>10 DEF TypeOK
  <1>12. Shows({}) /\ t \notin Ids(store')
    BY <1>9, <1>11 DEF Shows
  <1>13. \/ calls' = calls /\ (t \in skips \/ Descendants(t) = {})
         \/ /\ calls' = calls \cup {d} /\ d.op = "cascade" /\ d.thread = None
            /\ d.got \in Seq(Threads) /\ d.got # <<>> /\ ToSet(d.got) = Descendants(t)
    BY <1>1, <1>5, <1>6, <1>7
  <1> QED
    BY <1>3, <1>4, <1>9, <1>10, <1>12, <1>13 DEF t

\* A notification is handled when it is the head of the wire.
LEMMA HandledIs ==
    ASSUME Notifications
    PROVE  \E note : /\ Handles(note)
                     /\ \/ OnThreadStarted(note) \/ OnThreadArchived(note) \/ OnThreadUnarchived(note)
                        \/ OnCollab(note) \/ OnTurnStarted(note)
  BY DEF Notifications, Handles

LEMMA InitTypes ==
    ASSUME Init
    PROVE  /\ TypeOK
           /\ server.unborn \cap server.alive = {} /\ server.unborn \cap Foreign = {}
           /\ server.gone = {} /\ server.wire = <<>>
  <1>1. plan \in Plan /\ plan.unborn \cap (plan.alive \cup Foreign) = {}
    BY PlansAssumption DEF Init
  <1>2. plan.alive \subseteq Threads /\ plan.unborn \subseteq Threads
    BY <1>1 DEF Plan
  <1>3. server = [alive |-> plan.alive, unborn |-> plan.unborn, gone |-> {}, wire |-> <<>>]
    BY DEF Init
  <1>4. server \in Server
    BY <1>2, <1>3 DEF Server
  <1>5. past \in Past
    BY DEF Init, Past
  <1>6. TypeOK
    BY <1>4, <1>5, InitialIsStore DEF Init, TypeOK
  <1> QED
    BY <1>1, <1>3, <1>6

LEMMA TypesStutter ==
    ASSUME TypeOK, UNCHANGED vars
    PROVE  TypeOK'
  BY DEF TypeOK, vars, app

\* What every step of the app or the server does to the rows.
LEMMA StepShows ==
    ASSUME TypeOK, Next
    PROVE  \E X : Shows(X)
  <1>2. CASE User
    <2>1. ASSUME NEW preserve \in BOOLEAN, ListThreads(preserve) PROVE \E X : Shows(X)
      BY <2>1, ListThreadsDoes
    <2>2. CASE LoadOlder
      BY <2>2, LoadOlderDoes
    <2>3. CASE StartThread
      BY <2>3, StartThreadDoes
    <2>4. CASE StartReview
      BY <2>4, StartReviewDoes
    <2>5. CASE ResetWorkspaceThreads
      BY <2>5, ResetDoes
    <2>6. ASSUME NEW t \in Threads, ForkThread(t) PROVE \E X : Shows(X)
      BY <2>6, ForkThreadDoes
    <2>7. ASSUME NEW t \in Threads, SelectThread(t) PROVE \E X : Shows(X)
      BY <2>7, SelectThreadDoes
    <2>8. ASSUME NEW t \in Threads, RemoveThreadRow(t) PROVE \E X : Shows(X)
      BY <2>8, RemoveThreadRowDoes
    <2> QED
      BY <1>2, <2>1, <2>2, <2>3, <2>4, <2>5, <2>6, <2>7, <2>8 DEF User
  <1>3. CASE Render
    BY <1>3, RenderDoes
  <1>4. CASE Answers
    <2>1. PICK c \in calls :
            \/ ListPage(c) \/ OlderPage(c) \/ ListFails(c) \/ NotStarted(c) \/ Resumed(c)
            \/ ArchiveAnswer(c) \/ CascadeAsks(c) \/ CascadeAnswer(c)
            \/ \E t \in Threads : Started(c, t) \/ RegisterDetachedReviewChild(c, t)
      BY <1>4 DEF Answers
    <2>2. CASE ListPage(c)
      BY <2>2, ListPageDoes
    <2>3. CASE OlderPage(c)
      BY <2>3, OlderPageDoes
    <2>4. CASE ListFails(c)
      BY <2>4, ListFailsDoes
    <2>5. CASE NotStarted(c)
      BY <2>5, NotStartedDoes
    <2>6. CASE Resumed(c)
      BY <2>6, ResumedDoes
    <2>7. CASE ArchiveAnswer(c)
      BY <2>7, ArchiveAnswerDoes
    <2>8. CASE CascadeAsks(c)
      BY <2>8, CascadeAsksDoes
    <2>9. CASE CascadeAnswer(c)
      BY <2>9, CascadeAnswerDoes
    <2>10. ASSUME NEW t \in Threads, Started(c, t) PROVE \E X : Shows(X)
      BY <2>10, StartedDoes
    <2>11. ASSUME NEW t \in Threads, RegisterDetachedReviewChild(c, t) PROVE \E X : Shows(X)
      BY <2>11, RegisterDoes
    <2> QED
      BY <2>1, <2>2, <2>3, <2>4, <2>5, <2>6, <2>7, <2>8, <2>9, <2>10, <2>11
  <1>5. CASE ServerActs
    <2>1. ASSUME NEW t \in Threads, NEW informed \in BOOLEAN, ServerSpawns(t, informed)
          PROVE  \E X : Shows(X)
      BY <2>1, ServerSpawnsDoes
    <2>2. ASSUME NEW t \in Threads, ServerReports(t) PROVE \E X : Shows(X)
      BY <2>2, ServerReportsDoes
    <2>3. ASSUME NEW t \in Threads, ServerArchives(t) PROVE \E X : Shows(X)
      BY <2>3, ServerArchivesDoes
    <2>4. ASSUME NEW t \in Threads, ServerUnarchives(t) PROVE \E X : Shows(X)
      BY <2>4, ServerUnarchivesDoes
    <2> QED
      BY <1>5, <2>1, <2>2, <2>3, <2>4 DEF ServerActs
  <1>6. CASE Notifications
    <2>1. PICK note : /\ Handles(note)
                      /\ \/ OnThreadStarted(note) \/ OnThreadArchived(note) \/ OnThreadUnarchived(note)
                         \/ OnCollab(note) \/ OnTurnStarted(note)
      BY <1>6, HandledIs
    <2>2. CASE OnThreadStarted(note)
      BY <2>1, <2>2, OnThreadStartedDoes
    <2>3. CASE OnThreadArchived(note)
      BY <2>1, <2>3, OnThreadArchivedDoes
    <2>4. CASE OnThreadUnarchived(note) \/ OnTurnStarted(note)
      BY <2>1, <2>4, EnsuresDoes
    <2>5. CASE OnCollab(note)
      BY <2>1, <2>5, OnCollabDoes
    <2> QED
      BY <2>1, <2>2, <2>3, <2>4, <2>5
  <1> QED
    BY <1>2, <1>3, <1>4, <1>5, <1>6 DEF Next

\* Every step keeps the types.
LEMMA TypesStep ==
    ASSUME TypeOK, [Next]_vars
    PROVE  TypeOK'
  <1>1. CASE UNCHANGED vars
    BY <1>1, TypesStutter
  <1>2. CASE Next
    BY <1>2, StepShows DEF Shows
  <1> QED
    BY <1>1, <1>2

----------------------------------------------------------------------------
(* What is listed, asked for or written about is the workspace's own and    *)
(* has been on the server.                                                  *)

\* The threads that have been on the server.
Known == server.alive \cup server.gone

CallKnown(c, known) ==
  /\ c.op \in {"list", "older"} => ToSet(c.got) \cup IdsOf(c.saw.rows) \subseteq Ours \cap known
  /\ c.op = "resume" => c.thread \in Ours
  /\ c.op = "archive" => c.thread \in known

NoteKnown(n, known, gone) ==
  /\ n.thread \in known
  /\ n.type # "thread/archived" => n.thread \notin Foreign
  /\ n.type \in {"thread/unarchived", "collab", "turn/started"} => n.thread \in Ours
  /\ n.type \in {"thread/unarchived", "thread/archived"} => n.thread \in gone
  /\ n.type = "thread/started" => n.others \subseteq {n.thread}
  /\ n.type = "collab" => \A u \in n.others : Spawner[u] = n.thread \/ u = Spawner[n.thread]
  /\ n.type = "turn/started" => Spawner[n.thread] # None

\* Whatever the window holds, asks for or is told about is such a thread of its own.
KnownOK ==
  /\ Known \cap server.unborn = {} /\ server.unborn \cap Foreign = {}
  /\ Ids(store) \cup Ids(seen) \subseteq Ours \cap Known
  /\ \A c \in calls : CallKnown(c, Known)
  /\ \A n \in ToSet(server.wire) : NoteKnown(n, Known, server.gone)

LEMMA OursOf ==
    /\ Ours \cap Memory = {} /\ Ours \cap Foreign = {} /\ Ours \subseteq Threads
    /\ \A t \in Threads : Spawner[t] # None => t \in Ours /\ Spawner[t] \in Ours
    /\ \A t \in Threads : Spawner[t] # None => Spawner[t] < t /\ ReviewOf[t] = None
    /\ \A t \in Threads : ReviewOf[t] # None => t \in Ours /\ ReviewOf[t] \in Ours
    /\ \A t \in Threads : ReviewOf[t] # None => ReviewOf[t] < t
  <1>1. /\ Spawner \in [Threads -> (Threads \ (Foreign \cup Memory)) \cup {None}]
        /\ ReviewOf \in [Threads -> (Threads \ (Foreign \cup Memory)) \cup {None}]
    BY ListAssumption
  <1>2. \A t \in Foreign \cup Memory : Spawner[t] = None /\ ReviewOf[t] = None
    BY ListAssumption
  <1>3. /\ \A t \in Threads : Spawner[t] # None => Spawner[t] < t /\ ReviewOf[t] = None
        /\ \A t \in Threads : ReviewOf[t] # None => ReviewOf[t] < t
    BY ListAssumption
  <1> QED
    BY <1>1, <1>2, <1>3 DEF Ours

\* A step that forgets no thread, and lists, asks for and writes about known ones.
LEMMA KnownStep ==
    ASSUME KnownOK, Known \subseteq Known', server.gone \subseteq server'.gone,
           Known' \cap server'.unborn = {}, server'.unborn \subseteq server.unborn,
           Ids(store') \cup Ids(seen') \subseteq Ids(store) \cup Ids(seen) \cup (Ours \cap Known'),
           \A c \in calls' : c \in calls \/ CallKnown(c, Known'),
           \A n \in ToSet(server'.wire) : n \in ToSet(server.wire) \/ NoteKnown(n, Known', server'.gone)
    PROVE  KnownOK'
  <1>1. \A c : CallKnown(c, Known) => CallKnown(c, Known')
    BY DEF CallKnown
  <1>2. \A n : NoteKnown(n, Known, server.gone) => NoteKnown(n, Known', server'.gone)
    BY DEF NoteKnown
  <1>3. Ids(store') \cup Ids(seen') \subseteq Ours \cap Known'
    BY DEF KnownOK
  <1> QED
    BY <1>1, <1>2, <1>3 DEF KnownOK

LEMMA InitKnown == Init => KnownOK
  <1> SUFFICES ASSUME Init
               PROVE  KnownOK
    OBVIOUS
  <1>1. /\ server.unborn \cap server.alive = {} /\ server.unborn \cap Foreign = {}
        /\ server.gone = {} /\ server.wire = <<>>
    BY InitTypes
  <1>2. Ids(store) = {} /\ Ids(seen) = {} /\ calls = {}
    BY InitialIsStore DEF Init
  <1>3. ToSet(server.wire) = {}
    BY <1>1 DEF ToSet
  <1> QED
    BY <1>1, <1>2, <1>3 DEF KnownOK, Known

LEMMA KnownStutter ==
    ASSUME KnownOK, UNCHANGED <<store, seen, calls, server>>
    PROVE  KnownOK'
  BY DEF KnownOK, Known

LEMMA AskKnown ==
    ASSUME NEW op, NEW t, NEW known, op = "resume" => t \in Ours, op = "archive" => t \in known,
           op \notin {"list", "older"}
    PROVE  CallKnown(Ask(op, t), known)
  BY DEF CallKnown, Ask

\* The server is as it was.
LEMMA KnownQuiet ==
    ASSUME KnownOK, UNCHANGED server,
           Ids(store') \cup Ids(seen') \subseteq Ids(store) \cup Ids(seen) \cup (Ours \cap Known),
           \A c \in calls' : c \in calls \/ CallKnown(c, Known)
    PROVE  KnownOK'
  <1>1. Known' = Known
    BY DEF Known
  <1> QED
    BY <1>1, KnownStep DEF KnownOK

\* One more note on the wire.
LEMMA KnownAppend ==
    ASSUME TypeOK, KnownOK, NEW n \in Notice, server'.wire = Append(server.wire, n),
           Known \subseteq Known', server.gone \subseteq server'.gone,
           Known' \cap server'.unborn = {}, server'.unborn \subseteq server.unborn,
           NoteKnown(n, Known', server'.gone),
           Ids(store') \cup Ids(seen') \subseteq Ids(store) \cup Ids(seen) \cup (Ours \cap Known'),
           \A c \in calls' : c \in calls \/ CallKnown(c, Known')
    PROVE  KnownOK'
  <1>1. server.wire \in Seq(Notice)
    BY ServerFields DEF TypeOK
  <1>2. ToSet(Append(server.wire, n)) = ToSet(server.wire) \cup {n}
    BY <1>1, AppendSet
  <1>3. ToSet(server'.wire) = ToSet(server.wire) \cup {n}
    BY <1>2
  <1> QED
    BY <1>3, KnownStep

\* The head of the wire is taken off.
LEMMA KnownHandles ==
    ASSUME TypeOK, KnownOK, NEW note, Handles(note),
           Ids(store') \cup Ids(seen') \subseteq Ids(store) \cup Ids(seen) \cup (Ours \cap Known),
           \A c \in calls' : c \in calls \/ CallKnown(c, Known)
    PROVE  KnownOK'
  <1>1. /\ server.wire \in Seq(Notice) /\ server.wire # <<>>
        /\ server'.wire = Tail(server.wire)
        /\ server'.alive = server.alive /\ server'.unborn = server.unborn
        /\ server'.gone = server.gone
    BY HandlesType DEF TypeOK, Handles
  <1>2. ToSet(server.wire) = {Head(server.wire)} \cup ToSet(Tail(server.wire))
    BY <1>1, HeadTailSet
  <1>3. ToSet(server'.wire) \subseteq ToSet(server.wire)
    BY <1>1, <1>2
  <1>4. Known' = Known
    BY <1>1 DEF Known
  <1> QED
    BY <1>1, <1>3, <1>4, KnownStep DEF KnownOK

LEMMA HandledKnown ==
    ASSUME TypeOK, KnownOK, NEW note, Handles(note)
    PROVE  note \in Notice /\ NoteKnown(note, Known, server.gone) /\ note.thread \in Threads
  <1>1. server.wire \in Seq(Notice) /\ server.wire # <<>> /\ note = Head(server.wire)
    BY ServerFields DEF TypeOK, Handles
  <1>2. ToSet(server.wire) = {Head(server.wire)} \cup ToSet(Tail(server.wire)) /\ note \in Notice
    BY <1>1, HeadTailSet
  <1> QED
    BY <1>1, <1>2 DEF KnownOK, Notice

\* What a closure captured are rows that were on screen.
LEMMA CapturedKnown ==
    ASSUME TypeOK, KnownOK, NEW c, c.got = <<>>, c.saw = Captured, c.op \in {"list", "older"}
    PROVE  CallKnown(c, Known)
  <1>1. IdsOf(c.saw.rows) = Ids(seen) /\ ToSet(c.got) = {}
    BY CapturedType DEF TypeOK, ToSet
  <1> QED
    BY <1>1 DEF KnownOK, CallKnown

LEMMA ListThreadsKnown ==
    ASSUME TypeOK, KnownOK, NEW preserve \in BOOLEAN, ListThreads(preserve)
    PROVE  KnownOK'
  <1> DEFINE c == [op |-> "list", thread |-> None, preserve |-> preserve, cursor |-> None,
                   pages |-> 0, got |-> <<>>, resume |-> None, saw |-> Captured]
  <1>1. calls' = calls \cup {c} /\ UNCHANGED <<seen, server>>
    BY DEF ListThreads
  <1>2. c.op = "list" /\ c.got = <<>> /\ c.saw = Captured
    OBVIOUS
  <1> HIDE DEF c
  <1>3. CallKnown(c, Known)
    BY <1>2, CapturedKnown
  <1>4. Ids(store') \subseteq Ids(store)
    BY ListThreadsDoes DEF Shows
  <1> QED
    BY <1>1, <1>3, <1>4, KnownQuiet

LEMMA LoadOlderKnown ==
    ASSUME TypeOK, KnownOK, LoadOlder
    PROVE  KnownOK'
  <1> DEFINE c == [op |-> "older", thread |-> None, preserve |-> FALSE,
                   cursor |-> IF seen.cursor[Workspace] = PageStart THEN None ELSE seen.cursor[Workspace],
                   pages |-> 0, got |-> <<>>, resume |-> None, saw |-> Captured]
  <1>1. calls' = calls \cup {c} /\ UNCHANGED <<seen, server>>
    BY DEF LoadOlder
  <1>2. c.op = "older" /\ c.got = <<>> /\ c.saw = Captured
    OBVIOUS
  <1> HIDE DEF c
  <1>3. CallKnown(c, Known)
    BY <1>2, CapturedKnown
  <1>4. Ids(store') \subseteq Ids(store)
    BY LoadOlderDoes DEF Shows
  <1> QED
    BY <1>1, <1>3, <1>4, KnownQuiet

\* What a list has read and captured.
LEMMA CallReads ==
    ASSUME TypeOK, KnownOK, NEW c \in calls, c.op \in {"list", "older"}, NEW got,
           got \subseteq ToSet(c.got) \cup (server.alive \cap Ours)
    PROVE  /\ got \subseteq Ours \cap Known /\ IdsOf(c.saw.rows) \subseteq Ours \cap Known
           /\ \A d : d.op = c.op /\ ToSet(d.got) = got /\ d.saw = c.saw => CallKnown(d, Known)
  <1>1. CallKnown(c, Known)
    BY DEF KnownOK
  <1>2. got \subseteq Ours \cap Known /\ IdsOf(c.saw.rows) \subseteq Ours \cap Known
    BY <1>1 DEF CallKnown, Known
  <1> QED
    BY <1>2 DEF CallKnown

LEMMA ListPageKnown ==
    ASSUME TypeOK, KnownOK, NEW c \in calls, ListPage(c)
    PROVE  KnownOK'
  <1> DEFINE got == Matching(c, Page(c.cursor))
  <1>1. /\ Shows(ToSet(got)) /\ UNCHANGED <<seen, server>>
        /\ ToSet(got) \subseteq ToSet(c.got) \cup (server.alive \cap Ours)
        /\ \/ \E d : /\ calls' = (calls \ {c}) \cup {d}
                     /\ d.op = "list" /\ d.got = got /\ d.saw = c.saw
           \/ calls' = calls \ {c}
    BY ListPageDoes
  <1> HIDE DEF got
  <1>2. c.op = "list"
    BY DEF ListPage
  <1>3. /\ ToSet(got) \subseteq Ours \cap Known
        /\ \A d : d.op = c.op /\ ToSet(d.got) = ToSet(got) /\ d.saw = c.saw => CallKnown(d, Known)
    BY <1>1, <1>2, CallReads
  <1>4. Ids(store') \subseteq Ids(store) \cup ToSet(got)
    BY <1>1 DEF Shows
  <1>5. \A d \in calls' : d \in calls \/ CallKnown(d, Known)
    BY <1>1, <1>2, <1>3
  <1> QED
    BY <1>1, <1>3, <1>4, <1>5, KnownQuiet

LEMMA OlderPageKnown ==
    ASSUME TypeOK, KnownOK, NEW c \in calls, OlderPage(c)
    PROVE  KnownOK'
  <1> DEFINE got == Matching(c, Page(c.cursor))
  <1>1. /\ Shows(ToSet(got) \cup IdsOf(c.saw.rows)) /\ UNCHANGED <<seen, server>>
        /\ ToSet(got) \subseteq ToSet(c.got) \cup (server.alive \cap Ours) /\ c.op = "older"
        /\ \/ \E d : /\ calls' = (calls \ {c}) \cup {d}
                     /\ d.op = "older" /\ d.got = got /\ d.saw = c.saw
           \/ calls' = calls \ {c}
    BY OlderPageDoes
  <1> HIDE DEF got
  <1>3. /\ ToSet(got) \subseteq Ours \cap Known /\ IdsOf(c.saw.rows) \subseteq Ours \cap Known
        /\ \A d : d.op = c.op /\ ToSet(d.got) = ToSet(got) /\ d.saw = c.saw => CallKnown(d, Known)
    BY <1>1, CallReads
  <1>4. Ids(store') \subseteq Ids(store) \cup ToSet(got) \cup IdsOf(c.saw.rows)
    BY <1>1 DEF Shows
  <1>5. \A d \in calls' : d \in calls \/ CallKnown(d, Known)
    BY <1>1, <1>3
  <1> QED
    BY <1>1, <1>3, <1>4, <1>5, KnownQuiet

\* A step of the app that brings no row and asks for what it may.
LEMMA AsksKnown ==
    ASSUME TypeOK, KnownOK, Shows({}), UNCHANGED <<seen, server>>,
           \A d \in calls' : d \in calls \/ CallKnown(d, Known)
    PROVE  KnownOK'
  <1>1. Ids(store') \subseteq Ids(store)
    BY DEF Shows
  <1> QED
    BY <1>1, KnownQuiet

LEMMA UserKnown ==
    ASSUME TypeOK, KnownOK, User
    PROVE  KnownOK'
  <1>1. ASSUME NEW preserve \in BOOLEAN, ListThreads(preserve) PROVE KnownOK'
    BY <1>1, ListThreadsKnown
  <1>2. CASE LoadOlder
    BY <1>2, LoadOlderKnown
  <1>3. CASE StartThread
    <2>1. Shows({}) /\ UNCHANGED <<seen, server>> /\ calls' = calls \cup {Ask("start", None)}
      BY <1>3, StartThreadDoes DEF StartThread
    <2>2. CallKnown(Ask("start", None), Known)
      BY AskKnown
    <2> QED
      BY <2>1, <2>2, AsksKnown
  <1>4. CASE StartReview
    <2>1. /\ Shows({}) /\ UNCHANGED <<seen, server>>
          /\ calls' = calls \cup {Ask("review", seen.active[Workspace])}
      BY <1>4, StartReviewDoes DEF StartReview
    <2>2. CallKnown(Ask("review", seen.active[Workspace]), Known)
      BY AskKnown
    <2> QED
      BY <2>1, <2>2, AsksKnown
  <1>5. CASE ResetWorkspaceThreads
    <2>1. Shows({}) /\ UNCHANGED <<seen, server, calls>>
      BY <1>5, ResetDoes DEF ResetWorkspaceThreads
    <2> QED
      BY <2>1, AsksKnown
  <1>6. ASSUME NEW t \in Threads, ForkThread(t) PROVE KnownOK'
    <2>1. Shows({}) /\ UNCHANGED <<seen, server>> /\ calls' = calls \cup {Ask("fork", t)}
      BY <1>6, ForkThreadDoes DEF ForkThread
    <2>2. CallKnown(Ask("fork", t), Known)
      BY AskKnown
    <2> QED
      BY <2>1, <2>2, AsksKnown
  <1>7. ASSUME NEW t \in Threads, SelectThread(t) PROVE KnownOK'
    <2>1. /\ Shows({}) /\ UNCHANGED <<seen, server>> /\ t \in Ids(seen)
          /\ calls' = calls \/ calls' = calls \cup {Ask("resume", t)}
      BY <1>7, SelectThreadDoes DEF SelectThread, Ids
    <2>2. CallKnown(Ask("resume", t), Known)
      BY <2>1, AskKnown DEF KnownOK
    <2> QED
      BY <2>1, <2>2, AsksKnown
  <1>8. ASSUME NEW t \in Threads, RemoveThreadRow(t) PROVE KnownOK'
    <2>1. /\ Shows({}) /\ UNCHANGED <<seen, server>> /\ t \in Ids(seen)
          /\ calls' = calls \cup {Ask("archive", t)}
      BY <1>8, RemoveThreadRowDoes DEF RemoveThreadRow, Ids
    <2>2. CallKnown(Ask("archive", t), Known)
      BY <2>1, AskKnown DEF KnownOK
    <2> QED
      BY <2>1, <2>2, AsksKnown
  <1> QED
    BY <1>1, <1>2, <1>3, <1>4, <1>5, <1>6, <1>7, <1>8 DEF User

LEMMA RenderKnown ==
    ASSUME TypeOK, KnownOK, Render
    PROVE  KnownOK'
  <1>1. Ids(store') \subseteq Ids(store) /\ seen' = store /\ UNCHANGED <<calls, server>>
    BY RenderDoes DEF Shows, Render
  <1> QED
    BY <1>1, KnownQuiet

\* A thread comes to the server, which writes that it started.
LEMMA BornKnown ==
    ASSUME TypeOK, KnownOK, NEW t \in Threads, t \in server.unborn,
           server' = [server EXCEPT !.alive = @ \cup {t}, !.unborn = @ \ {t},
                                    !.wire = Append(@, Note("thread/started", t))],
           Ids(store') \cup Ids(seen') \subseteq Ids(store) \cup Ids(seen) \cup (Ours \cap {t}),
           \A d \in calls' : d \in calls \/ (d.op \notin {"list", "older", "archive"}
                                             /\ (d.op = "resume" => d.thread \in Ours))
    PROVE  KnownOK'
  <1> DEFINE n == Note("thread/started", t)
  <1>1. server \in Server /\ n \in Notice /\ n.type = "thread/started" /\ n.thread = t /\ n.others = {}
    BY NoteType DEF TypeOK, Kinds
  <1> HIDE DEF n
  <1>2. Append(server.wire, n) \in Seq(Notice)
    BY <1>1, ServerFields
  <1>3. server' = [server EXCEPT !.alive = @ \cup {t}, !.unborn = @ \ {t}, !.wire = Append(server.wire, n)]
    BY <1>1 DEF Server, n
  <1>4. /\ server'.alive = server.alive \cup {t} /\ server'.unborn = server.unborn \ {t}
        /\ server'.gone = server.gone /\ server'.wire = Append(server.wire, n)
    <2> DEFINE w == Append(server.wire, n)
    <2>1. w \in Seq(Notice)
      BY <1>2
    <2>2. server' = [server EXCEPT !.alive = @ \cup {t}, !.unborn = @ \ {t}, !.wire = w]
      BY <1>3
    <2> HIDE DEF w
    <2>3. /\ server'.alive = server.alive \cup {t} /\ server'.unborn = server.unborn \ {t}
          /\ server'.gone = server.gone /\ server'.wire = w
      BY <1>1, <2>1, <2>2, BornOf
    <2> QED
      BY <2>3 DEF w
  <1>5. Known' = Known \cup {t}
    BY <1>4 DEF Known
  <1>6. t \notin Foreign /\ Known \cap server.unborn = {}
    BY DEF KnownOK
  <1>7. NoteKnown(n, Known', server'.gone)
    BY <1>1, <1>5, <1>6 DEF NoteKnown
  <1>8. \A d \in calls' : d \in calls \/ CallKnown(d, Known')
    BY DEF CallKnown
  <1>9. Known' \cap server'.unborn = {} /\ server'.unborn \subseteq server.unborn
    BY <1>4, <1>5, <1>6
  <1> QED
    BY <1>1, <1>4, <1>5, <1>7, <1>8, <1>9, KnownAppend

LEMMA StartedKnown ==
    ASSUME TypeOK, KnownOK, NEW c \in calls, NEW t \in Threads, Started(c, t)
    PROVE  KnownOK'
  <1>1. /\ t \in server.unborn /\ t \in Ours /\ UNCHANGED seen
        /\ server' = [server EXCEPT !.alive = @ \cup {t}, !.unborn = @ \ {t},
                                    !.wire = Append(@, Note("thread/started", t))]
        /\ calls' = calls \ {c} \/ calls' = (calls \ {c}) \cup {Ask("resume", t)}
    BY DEF Started, Born, Shown, Own, Ours
  <1>2. Ids(store') \subseteq Ids(store) \cup {t}
    BY StartedDoes DEF Shows
  <1>3. Ask("resume", t).op = "resume" /\ Ask("resume", t).thread = t
    BY DEF Ask
  <1>4. \A d \in calls' : d \in calls \/ (d.op \notin {"list", "older", "archive"}
                                          /\ (d.op = "resume" => d.thread \in Ours))
    BY <1>1, <1>3
  <1>5. Ids(store') \cup Ids(seen') \subseteq Ids(store) \cup Ids(seen) \cup (Ours \cap {t})
    BY <1>1, <1>2
  <1> QED
    BY <1>1, <1>4, <1>5, BornKnown

LEMMA RegisterKnown ==
    ASSUME TypeOK, KnownOK, NEW c \in calls, NEW t \in Threads, RegisterDetachedReviewChild(c, t)
    PROVE  KnownOK'
  <1>1. /\ t \in server.unborn /\ UNCHANGED seen
        /\ server' = [server EXCEPT !.alive = @ \cup {t}, !.unborn = @ \ {t},
                                    !.wire = Append(@, Note("thread/started", t))]
        /\ calls' = calls \ {c}
    BY DEF RegisterDetachedReviewChild, Born
  <1>2. Ids(store') \subseteq Ids(store)
    BY RegisterDoes DEF Shows
  <1> QED
    BY <1>1, <1>2, BornKnown

\* A thread goes, and the server writes that it is archived.
LEMMA GoesKnown ==
    ASSUME TypeOK, KnownOK, NEW t \in Threads, t \in server.alive, server' = Archived(server, t),
           Ids(store') \cup Ids(seen') \subseteq Ids(store) \cup Ids(seen),
           \A d \in calls' : d \in calls \/ d.op \notin {"list", "older", "resume", "archive"}
    PROVE  KnownOK'
  <1> DEFINE n == Note("thread/archived", t)
  <1>1. n \in Notice /\ n.type = "thread/archived" /\ n.thread = t /\ n.others = {} /\ server \in Server
    BY NoteType DEF TypeOK, Kinds
  <1>2. /\ server'.alive = server.alive \ {t} /\ server'.unborn = server.unborn
        /\ server'.gone = server.gone \cup {t} /\ server'.wire = Append(server.wire, n)
    BY <1>1, ArchivedType
  <1> HIDE DEF n
  <1>3. Known' = Known
    BY <1>2 DEF Known
  <1>4. NoteKnown(n, Known', server'.gone)
    BY <1>1, <1>2, <1>3 DEF NoteKnown, Known
  <1>5. \A d \in calls' : d \in calls \/ CallKnown(d, Known')
    BY DEF CallKnown
  <1> QED
    BY <1>1, <1>2, <1>3, <1>4, <1>5, KnownAppend DEF KnownOK

LEMMA ArchiveAnswerKnown ==
    ASSUME TypeOK, KnownOK, NEW c \in calls, ArchiveAnswer(c)
    PROVE  KnownOK'
  <1>1. /\ calls' = calls \ {c} /\ UNCHANGED <<store, seen>>
        /\ \/ c.thread \in server.alive /\ server' = Archived(server, c.thread)
           \/ UNCHANGED server
    BY DEF ArchiveAnswer
  <1>2. Shows({}) /\ c.thread \in Threads
    BY ArchiveAnswerDoes
  <1>3. CASE UNCHANGED server
    BY <1>1, <1>2, <1>3, AsksKnown
  <1>4. CASE c.thread \in server.alive /\ server' = Archived(server, c.thread)
    BY <1>1, <1>2, <1>4, GoesKnown
  <1> QED
    BY <1>1, <1>3, <1>4

LEMMA CascadeAnswerKnown ==
    ASSUME TypeOK, KnownOK, NEW c \in calls, CascadeAnswer(c)
    PROVE  KnownOK'
  <1>1. /\ Shows({}) /\ c.thread \in Threads
        /\ \/ calls' = calls \ {c}
           \/ \E d : /\ calls' = (calls \ {c}) \cup {d}
                     /\ d.op = "cascade" /\ d.thread = None /\ d.got = c.got
        /\ \/ server' = Archived(server, c.thread) /\ c.thread \in server.alive
           \/ UNCHANGED server
    BY CascadeAnswerDoes
  <1>2. UNCHANGED <<store, seen>>
    BY DEF CascadeAnswer
  <1>3. \A d \in calls' : d \in calls \/ d.op = "cascade"
    BY <1>1
  <1>4. CASE UNCHANGED server
    <2>1. \A d \in calls' : d \in calls \/ CallKnown(d, Known)
      BY <1>3 DEF CallKnown
    <2> QED
      BY <1>1, <1>2, <1>4, <2>1, AsksKnown
  <1>5. CASE server' = Archived(server, c.thread) /\ c.thread \in server.alive
    BY <1>1, <1>2, <1>3, <1>5, GoesKnown
  <1> QED
    BY <1>1, <1>4, <1>5

LEMMA ResumedKnown ==
    ASSUME TypeOK, KnownOK, NEW c \in calls, Resumed(c)
    PROVE  KnownOK' /\ c.thread \in Ours
  <1>1. /\ Shows({c.thread}) /\ c.thread \in server.alive
    BY ResumedDoes
  <1>2. UNCHANGED <<seen, server>> /\ calls' = calls \ {c} /\ c.op = "resume"
    BY DEF Resumed
  <1>3. c.thread \in Ours
    BY <1>2 DEF KnownOK, CallKnown
  <1>4. Ids(store') \subseteq Ids(store) \cup {c.thread}
    BY <1>1 DEF Shows
  <1>5. c.thread \in Known
    BY <1>1 DEF Known
  <1> QED
    BY <1>2, <1>3, <1>4, <1>5, KnownQuiet

LEMMA AnswersKnown ==
    ASSUME TypeOK, KnownOK, Answers
    PROVE  KnownOK'
  <1>1. PICK c \in calls :
          \/ ListPage(c) \/ OlderPage(c) \/ ListFails(c) \/ NotStarted(c) \/ Resumed(c)
          \/ ArchiveAnswer(c) \/ CascadeAsks(c) \/ CascadeAnswer(c)
          \/ \E t \in Threads : Started(c, t) \/ RegisterDetachedReviewChild(c, t)
    BY DEF Answers
  <1>2. CASE ListPage(c)
    BY <1>2, ListPageKnown
  <1>3. CASE OlderPage(c)
    BY <1>3, OlderPageKnown
  <1>4. CASE ListFails(c)
    <2>1. Shows({}) /\ UNCHANGED <<seen, server>> /\ calls' = calls \ {c}
      BY <1>4, ListFailsDoes DEF ListFails
    <2> QED
      BY <2>1, AsksKnown
  <1>5. CASE NotStarted(c)
    <2>1. Shows({}) /\ UNCHANGED <<seen, server>> /\ calls' = calls \ {c}
      BY <1>5, NotStartedDoes DEF NotStarted
    <2> QED
      BY <2>1, AsksKnown
  <1>6. CASE Resumed(c)
    BY <1>6, ResumedKnown
  <1>7. CASE ArchiveAnswer(c)
    BY <1>7, ArchiveAnswerKnown
  <1>8. CASE CascadeAsks(c)
    <2> DEFINE d == [c EXCEPT !.thread = Head(c.got), !.got = Tail(c.got)]
    <2>1. Shows({}) /\ calls' = (calls \ {c}) \cup {d} /\ d.op = "cascade"
      BY <1>8, CascadeAsksDoes
    <2> HIDE DEF d
    <2>2. UNCHANGED <<seen, server>>
      BY <1>8 DEF CascadeAsks
    <2>3. CallKnown(d, Known)
      BY <2>1 DEF CallKnown
    <2> QED
      BY <2>1, <2>2, <2>3, AsksKnown
  <1>9. CASE CascadeAnswer(c)
    BY <1>9, CascadeAnswerKnown
  <1>10. ASSUME NEW t \in Threads, Started(c, t) PROVE KnownOK'
    BY <1>10, StartedKnown
  <1>11. ASSUME NEW t \in Threads, RegisterDetachedReviewChild(c, t) PROVE KnownOK'
    BY <1>11, RegisterKnown
  <1> QED
    BY <1>1, <1>2, <1>3, <1>4, <1>5, <1>6, <1>7, <1>8, <1>9, <1>10, <1>11

LEMMA ServerSpawnsKnown ==
    ASSUME TypeOK, KnownOK, NEW t \in Threads, NEW informed \in BOOLEAN, ServerSpawns(t, informed)
    PROVE  KnownOK'
  <1> DEFINE b == Birth(t, informed)
  <1>1. /\ t \in server.unborn /\ UNCHANGED <<store, seen, calls>>
        /\ Spawner[t] # None \/ t \in Memory
        /\ Spawner[t] # None => Spawner[t] \in server.alive
    BY DEF ServerSpawns, Born, app
  <1>2. /\ server'.wire = server.wire \o b
        /\ server'.alive = server.alive \cup {t} /\ server'.unborn = server.unborn \ {t}
        /\ server'.gone = server.gone
    BY ServerSpawnsDoes
  <1>3. /\ b \in Seq(Notice) /\ b[1].type = "thread/started" /\ b[1].thread = t /\ b[1].others \subseteq {t}
        /\ \/ t \in Memory /\ Len(b) = 1
           \/ /\ t \notin Memory /\ Len(b) = 3
              /\ b[2].type = "collab" /\ b[2].thread = Spawner[t] /\ b[2].others = {t}
              /\ b[3].type = "turn/started" /\ b[3].thread = t
    BY <1>1, BirthType
  <1> HIDE DEF b
  <1>4. Known' = Known \cup {t} /\ t \notin Foreign /\ Known \cap server.unborn = {}
    BY <1>1, <1>2 DEF Known, KnownOK
  <1>5. Spawner[t] # None => t \in Ours /\ Spawner[t] \in Ours /\ Spawner[t] \in Known
    BY <1>1, OursOf DEF Known
  <1>6. NoteKnown(b[1], Known', server'.gone)
    BY <1>3, <1>4 DEF NoteKnown
  <1>7. t \notin Memory => /\ NoteKnown(b[2], Known', server'.gone)
                           /\ NoteKnown(b[3], Known', server'.gone)
    <2> SUFFICES ASSUME t \notin Memory
                 PROVE  NoteKnown(b[2], Known', server'.gone) /\ NoteKnown(b[3], Known', server'.gone)
      OBVIOUS
    <2>1. t \in Ours /\ Spawner[t] \in Ours \cap Known /\ Spawner[t] # None
      BY <1>1, <1>5
    <2>2. Spawner[t] \notin Foreign
      BY <2>1 DEF Ours
    <2> QED
      BY <1>3, <1>4, <2>1, <2>2 DEF NoteKnown
  <1>8. \A n \in ToSet(b) : NoteKnown(n, Known', server'.gone)
    BY <1>3, <1>6, <1>7 DEF ToSet
  <1>9. ToSet(server'.wire) = ToSet(server.wire) \cup ToSet(b)
    <2>1. server.wire \in Seq(Notice)
      BY ServerFields DEF TypeOK
    <2>2. ToSet(server.wire \o b) = ToSet(server.wire) \cup ToSet(b)
      BY <1>3, <2>1, ConcatSet
    <2> QED
      BY <1>2, <2>2
  <1>10. Known' \cap server'.unborn = {} /\ server'.unborn \subseteq server.unborn
    BY <1>2, <1>4
  <1> QED
    BY <1>1, <1>2, <1>4, <1>8, <1>9, <1>10, KnownStep

LEMMA ServerActsKnown ==
    ASSUME TypeOK, KnownOK, ServerActs
    PROVE  KnownOK'
  <1>1. ASSUME NEW t \in Threads, NEW informed \in BOOLEAN, ServerSpawns(t, informed) PROVE KnownOK'
    BY <1>1, ServerSpawnsKnown
  <1>2. ASSUME NEW t \in Threads, ServerReports(t) PROVE KnownOK'
    <2> DEFINE n == [Note("collab", t) EXCEPT !.others = {Spawner[t]}]
    <2>1. /\ n \in Notice /\ n.type = "collab" /\ n.thread = t /\ n.others = {Spawner[t]}
          /\ server'.wire = Append(server.wire, n)
          /\ server'.alive = server.alive /\ server'.unborn = server.unborn
          /\ server'.gone = server.gone
      BY <1>2, ServerReportsDoes
    <2> HIDE DEF n
    <2>2. t \in server.alive /\ Spawner[t] # None /\ UNCHANGED <<store, seen, calls>>
      BY <1>2 DEF ServerReports, app
    <2>3. Known' = Known /\ t \in Known /\ t \in Ours /\ t \notin Foreign
      BY <2>1, <2>2, OursOf DEF Known, Ours
    <2>4. NoteKnown(n, Known', server'.gone)
      BY <2>1, <2>3 DEF NoteKnown
    <2> QED
      BY <2>1, <2>2, <2>3, <2>4, KnownAppend DEF KnownOK
  <1>3. ASSUME NEW t \in Threads, ServerArchives(t) PROVE KnownOK'
    <2>1. t \in server.alive /\ server' = Archived(server, t) /\ UNCHANGED <<store, seen, calls>>
      BY <1>3 DEF ServerArchives, app
    <2> QED
      BY <2>1, GoesKnown
  <1>4. ASSUME NEW t \in Threads, ServerUnarchives(t) PROVE KnownOK'
    <2> DEFINE n == Note("thread/unarchived", t)
    <2>1. /\ server'.alive = server.alive \cup {t} /\ server'.unborn = server.unborn
          /\ server'.gone = server.gone /\ server'.wire = Append(server.wire, n)
      BY <1>4, ServerUnarchivesDoes
    <2>2. /\ t \in server.gone /\ t \in Ours /\ UNCHANGED <<store, seen, calls>>
      BY <1>4 DEF ServerUnarchives, app, Shown, Own, Ours
    <2>3. n \in Notice /\ n.type = "thread/unarchived" /\ n.thread = t
      BY NoteType DEF Kinds
    <2> HIDE DEF n
    <2>4. Known' = Known /\ t \in Known /\ t \notin Foreign
      BY <2>1, <2>2 DEF Known, Ours
    <2>5. NoteKnown(n, Known', server'.gone)
      BY <2>1, <2>2, <2>3, <2>4 DEF NoteKnown
    <2> QED
      BY <2>1, <2>2, <2>3, <2>4, <2>5, KnownAppend DEF KnownOK
  <1> QED
    BY <1>1, <1>2, <1>3, <1>4 DEF ServerActs

LEMMA NotificationsKnown ==
    ASSUME TypeOK, KnownOK, Notifications
    PROVE  KnownOK'
  <1>1. PICK note : /\ Handles(note)
                    /\ \/ OnThreadStarted(note) \/ OnThreadArchived(note) \/ OnThreadUnarchived(note)
                       \/ OnCollab(note) \/ OnTurnStarted(note)
    BY HandledIs
  <1>2. note \in Notice /\ NoteKnown(note, Known, server.gone) /\ note.thread \in Threads
    BY <1>1, HandledKnown
  <1>3. CASE OnThreadStarted(note)
    <2>1. Ids(store') \subseteq Ids(store) \cup ({note.thread} \ Memory)
      BY <1>1, <1>3, OnThreadStartedDoes DEF Shows
    <2>2. note.thread \notin Foreign /\ note.thread \in Known /\ UNCHANGED <<seen, calls>>
      BY <1>2, <1>3 DEF NoteKnown, OnThreadStarted
    <2>3. {note.thread} \ Memory \subseteq Ours
      BY <1>2, <2>2 DEF Ours
    <2> QED
      BY <1>1, <2>1, <2>2, <2>3, KnownHandles
  <1>4. CASE OnThreadArchived(note)
    <2>1. /\ Ids(store') \subseteq Ids(store)
          /\ \/ calls' = calls
             \/ \E d : calls' = calls \cup {d} /\ d.op = "cascade"
      BY <1>1, <1>4, OnThreadArchivedDoes DEF Shows
    <2>2. \A d \in calls' : d \in calls \/ CallKnown(d, Known)
      BY <2>1 DEF CallKnown
    <2>3. UNCHANGED seen
      BY <1>4 DEF OnThreadArchived
    <2> QED
      BY <1>1, <2>1, <2>2, <2>3, KnownHandles
  <1>5. CASE OnThreadUnarchived(note) \/ OnTurnStarted(note)
    <2>1. Ids(store') \subseteq Ids(store) \cup {note.thread}
      BY <1>1, <1>5, EnsuresDoes DEF Shows
    <2>2. note.thread \in Ours \cap Known /\ UNCHANGED <<seen, calls>>
      BY <1>2, <1>5 DEF NoteKnown, OnThreadUnarchived, OnTurnStarted
    <2> QED
      BY <1>1, <2>1, <2>2, KnownHandles
  <1>6. CASE OnCollab(note)
    <2>1. Ids(store') \subseteq Ids(store) \cup {note.thread}
      BY <1>1, <1>6, OnCollabDoes DEF Shows
    <2>2. note.thread \in Ours \cap Known /\ UNCHANGED <<seen, calls>>
      BY <1>2, <1>6 DEF NoteKnown, OnCollab
    <2> QED
      BY <1>1, <2>1, <2>2, KnownHandles
  <1> QED
    BY <1>1, <1>3, <1>4, <1>5, <1>6

\* Every step keeps that.
LEMMA StepKnown ==
    ASSUME TypeOK, KnownOK, [Next]_vars
    PROVE  KnownOK'
  <1>1. CASE UNCHANGED vars
    BY <1>1, KnownStutter DEF vars
  <1> QED
    BY <1>1, UserKnown, RenderKnown, AnswersKnown, ServerActsKnown, NotificationsKnown DEF Next

----------------------------------------------------------------------------
(* The open thread has a row.                                               *)

\* Every step leaves the open thread with a row.
LEMMA StepOpened ==
    ASSUME TypeOK, KnownOK, Opened(store), [Next]_vars
    PROVE  Opened(store')
  <1>1. CASE UNCHANGED vars
    BY <1>1 DEF vars
  <1>2. CASE Next
    <2>1. Ids(store) \cap Memory = {}
      BY OursOf DEF KnownOK
    <2>2. \E X : Shows(X)
      BY <1>2, StepShows
    <2> QED
      BY <2>1, <2>2 DEF Shows
  <1> QED
    BY <1>1, <1>2

----------------------------------------------------------------------------
(* What is listed, read or written about is alive, went while a list was    *)
(* reading, or has its archive still to come on the wire.                   *)

\* The wire holds, from place i on, that t is archived.
Goes(wire, i, t) ==
  \E j \in DOMAIN wire : j > i /\ wire[j].type = "thread/archived" /\ wire[j].thread = t
Fresh(i, t) == t \in server.alive \cup past.late \/ Goes(server.wire, i, t)

Reads(c) == ToSet(c.got) \cup IdsOf(c.saw.rows)

FreshOK ==
  /\ \A t \in Ids(store) : Fresh(0, t)
  /\ \A c \in calls : c.op \in {"list", "older"} => \A t \in Reads(c) : Fresh(0, t)
  /\ \A i \in DOMAIN server.wire :
       server.wire[i].type # "thread/archived" => Fresh(i, server.wire[i].thread)

\* The server writes w.
LEMMA FreshWrites ==
    ASSUME TypeOK, FreshOK, NEW w \in Seq(Notice), server'.wire = server.wire \o w,
           \A t \in server.alive \cup past.late :
             t \in server'.alive \cup past'.late \/ Goes(w, 0, t),
           \A j \in DOMAIN w : w[j].type # "thread/archived" => w[j].thread \in server'.alive,
           \A t \in Ids(store') : t \in Ids(store) \/ Fresh(0, t) \/ t \in server'.alive,
           \A d \in calls' : d \in calls \/ (d.op \in {"list", "older"} => \A t \in Reads(d) : Fresh(0, t))
    PROVE  FreshOK'
  <1> DEFINE s == server.wire
             r == server'.wire
  <1>1. s \in Seq(Notice)
    BY ServerFields DEF TypeOK
  <1>2. /\ s \o w \in Seq(Notice) /\ Len(s \o w) = Len(s) + Len(w)
        /\ \A i \in 1..Len(s) : (s \o w)[i] = s[i]
        /\ \A i \in 1..Len(w) : (s \o w)[Len(s) + i] = w[i]
    <2> HIDE DEF s
    <2> QED
      BY <1>1, ConcatAt
  <1>3. /\ r \in Seq(Notice) /\ Len(r) = Len(s) + Len(w)
        /\ \A i \in 1..Len(s) : r[i] = s[i]
        /\ \A i \in 1..Len(w) : r[Len(s) + i] = w[i]
    BY <1>2
  <1>4. Len(s) \in Nat /\ Len(w) \in Nat /\ DOMAIN s = 1..Len(s) /\ DOMAIN w = 1..Len(w)
        /\ DOMAIN r = 1..(Len(s) + Len(w))
    BY <1>1, <1>3
  <1>5. ASSUME NEW i \in 0..Len(s), NEW t, Fresh(i, t)
        PROVE  Fresh(i, t)'
    <2>1. CASE Goes(s, i, t)
      <3>1. PICK j \in DOMAIN s : j > i /\ s[j].type = "thread/archived" /\ s[j].thread = t
        BY <2>1 DEF Goes
      <3>2. j \in DOMAIN r /\ r[j] = s[j]
        BY <1>3, <1>4
      <3>3. Goes(r, i, t)
        BY <3>1, <3>2 DEF Goes
      <3> QED
        BY <3>3 DEF Fresh
    <2>2. CASE Goes(w, 0, t)
      <3>1. PICK j \in DOMAIN w : w[j].type = "thread/archived" /\ w[j].thread = t
        BY <2>2 DEF Goes
      <3>2. Len(s) + j \in DOMAIN r /\ r[Len(s) + j] = w[j] /\ Len(s) + j > i
        <4> HIDE DEF s, r
        <4>1. j \in 1..Len(w)
          BY <1>4
        <4>2. Len(s) + j \in DOMAIN r /\ Len(s) + j > i
          BY <1>4, <4>1
        <4> QED
          BY <1>3, <4>1, <4>2
      <3>3. Goes(r, i, t)
        BY <3>1, <3>2 DEF Goes
      <3> QED
        BY <3>3 DEF Fresh
    <2>3. CASE t \in server'.alive \cup past'.late
      BY <2>3 DEF Fresh
    <2> QED
      BY <1>5, <2>1, <2>2, <2>3 DEF Fresh
  <1>6. \A t : Fresh(0, t) => Fresh(0, t)'
    BY <1>4, <1>5
  <1>7. \A t \in Ids(store') : Fresh(0, t)'
    <2>1. \A t \in server'.alive : Fresh(0, t)'
      BY DEF Fresh
    <2> QED
      BY <1>6, <2>1 DEF FreshOK
  <1>8. \A d \in calls' : d.op \in {"list", "older"} => \A t \in Reads(d) : Fresh(0, t)'
    BY <1>6 DEF FreshOK
  <1>9. ASSUME NEW i \in DOMAIN r, r[i].type # "thread/archived", NEW t, t = r[i].thread
        PROVE  Fresh(i, t)'
    <2>1. CASE i \in 1..Len(s)
      <3>1. r[i] = s[i] /\ i \in DOMAIN s /\ i \in 0..Len(s)
        BY <1>3, <1>4, <2>1
      <3>2. Fresh(i, t)
        BY <1>9, <3>1 DEF FreshOK
      <3> QED
        BY <1>5, <3>1, <3>2
    <2>2. CASE i \notin 1..Len(s)
      <3>1. i - Len(s) \in 1..Len(w) /\ i = Len(s) + (i - Len(s))
        BY <1>4, <2>2
      <3>2. r[i] = w[i - Len(s)] /\ i - Len(s) \in DOMAIN w
        BY <1>3, <1>4, <3>1
      <3>3. t \in server'.alive
        BY <1>9, <3>2
      <3> QED
        BY <3>3 DEF Fresh
    <2> QED
      BY <2>1, <2>2
  <1>10. \A i \in DOMAIN r : r[i].type # "thread/archived" =>
            r[i].thread \in server'.alive \cup past'.late \/ Goes(r, i, r[i].thread)
    BY <1>9 DEF Fresh
  <1>11. \A t : Fresh(0, t)' <=> t \in server'.alive \cup past'.late \/ Goes(r, 0, t)
    BY DEF Fresh
  <1> QED
    BY <1>7, <1>8, <1>10, <1>11 DEF FreshOK, Fresh, Reads

\* The server writes nothing, or one note.
LEMMA FreshQuiet ==
    ASSUME TypeOK, FreshOK, server'.wire = server.wire,
           server.alive \cup past.late \subseteq server'.alive \cup past'.late,
           \A t \in Ids(store') : t \in Ids(store) \/ Fresh(0, t) \/ t \in server'.alive,
           \A d \in calls' : d \in calls \/ (d.op \in {"list", "older"} => \A t \in Reads(d) : Fresh(0, t))
    PROVE  FreshOK'
  <1>1. server.wire \in Seq(Notice)
    BY ServerFields DEF TypeOK
  <1> DEFINE w == <<>>
  <1>2. w \in Seq(Notice) /\ server'.wire = server.wire \o w /\ DOMAIN w = {}
    BY <1>1
  <1> HIDE DEF w
  <1> QED
    BY <1>2, FreshWrites

LEMMA FreshAppend ==
    ASSUME TypeOK, FreshOK, NEW n \in Notice, server'.wire = Append(server.wire, n),
           \A t \in server.alive \cup past.late :
             t \in server'.alive \cup past'.late \/ (n.type = "thread/archived" /\ n.thread = t),
           n.type # "thread/archived" => n.thread \in server'.alive,
           \A t \in Ids(store') : t \in Ids(store) \/ Fresh(0, t) \/ t \in server'.alive,
           \A d \in calls' : d \in calls \/ (d.op \in {"list", "older"} => \A t \in Reads(d) : Fresh(0, t))
    PROVE  FreshOK'
  <1>1. server.wire \in Seq(Notice)
    BY ServerFields DEF TypeOK
  <1> DEFINE w == <<n>>
  <1>2. w \in Seq(Notice) /\ server'.wire = server.wire \o w /\ DOMAIN w = {1} /\ w[1] = n
    BY <1>1
  <1> HIDE DEF w
  <1>3. \A t : n.type = "thread/archived" /\ n.thread = t => Goes(w, 0, t)
    BY <1>2 DEF Goes
  <1>4. \A t \in server.alive \cup past.late : t \in server'.alive \cup past'.late \/ Goes(w, 0, t)
    BY <1>3
  <1>5. \A j \in DOMAIN w : w[j].type # "thread/archived" => w[j].thread \in server'.alive
    BY <1>2
  <1> QED
    BY <1>2, <1>4, <1>5, FreshWrites

\* The head of the wire is handled: what it archives has no row any more, and a
\* list that read it remembers that it went.
LEMMA FreshHandles ==
    ASSUME TypeOK, FreshOK, NEW note, Handles(note), past.late \subseteq past'.late,
           note.type # "thread/archived" => Ids(store') \subseteq Ids(store) \cup {note.thread},
           note.type = "thread/archived" => /\ Ids(store') \subseteq Ids(store) \ {note.thread}
                                            /\ Listing => note.thread \in past'.late,
           \A d \in calls' : d \in calls \/ d.op \notin {"list", "older"}
    PROVE  FreshOK'
  <1> DEFINE s == server.wire
             r == server'.wire
  <1>1. /\ note \in Notice /\ s \in Seq(Notice) /\ note = s[1] /\ Len(s) >= 1
        /\ server'.alive = server.alive /\ Len(r) = Len(s) - 1
        /\ \A i \in 1..Len(r) : r[i] = s[i + 1]
        /\ server' \in Server
    BY HandlesType DEF TypeOK
  <1>2. r \in Seq(Notice) /\ DOMAIN r = 1..Len(r) /\ DOMAIN s = 1..Len(s) /\ Len(s) \in Nat /\ Len(r) \in Nat
    BY <1>1 DEF Server
  <1>3. ASSUME NEW i \in Nat, NEW t, Fresh(i + 1, t)
        PROVE  Fresh(i, t)'
    <2>1. CASE Goes(s, i + 1, t)
      <3>1. PICK j \in DOMAIN s : j > i + 1 /\ s[j].type = "thread/archived" /\ s[j].thread = t
        BY <2>1 DEF Goes
      <3>2. j - 1 \in 1..Len(r) /\ (j - 1) + 1 = j /\ j - 1 > i
        <4>1. j \in 1..Len(s) /\ Len(r) = Len(s) - 1 /\ Len(s) \in Nat /\ j > i + 1
          BY <1>1, <1>2, <3>1
        <4> HIDE DEF r, s
        <4> QED
          BY <4>1
      <3>3. r[j - 1] = s[j]
        BY <1>1, <3>2
      <3>4. Goes(r, i, t)
        BY <1>2, <3>1, <3>2, <3>3 DEF Goes
      <3> QED
        BY <3>4 DEF Fresh
    <2>2. CASE t \in server.alive \cup past.late
      BY <1>1, <2>2 DEF Fresh
    <2> QED
      BY <1>3, <2>1, <2>2 DEF Fresh
  <1>4. ASSUME NEW t, Fresh(0, t), ~(note.type = "thread/archived" /\ note.thread = t)
        PROVE  Fresh(0, t)'
    <2>1. CASE Goes(s, 0, t)
      <3>1. PICK j \in DOMAIN s : j > 0 /\ s[j].type = "thread/archived" /\ s[j].thread = t
        BY <2>1 DEF Goes
      <3>2. j # 1
        BY <1>1, <1>4, <3>1
      <3>3. Goes(s, 1, t)
        BY <1>2, <3>1, <3>2 DEF Goes
      <3>4. Fresh(0 + 1, t)
        BY <3>3 DEF Fresh
      <3> QED
        BY <1>3, <3>4
    <2>2. CASE t \in server.alive \cup past.late
      BY <1>1, <2>2 DEF Fresh
    <2> QED
      BY <1>4, <2>1, <2>2 DEF Fresh
  <1>5. note.type # "thread/archived" => Fresh(0, note.thread)'
    <2> SUFFICES ASSUME note.type # "thread/archived"
                 PROVE  Fresh(0, note.thread)'
      OBVIOUS
    <2> DEFINE u == note.thread
    <2>1. 1 \in DOMAIN s /\ s[1] = note
      BY <1>1, <1>2
    <2>2. Fresh(0 + 1, u)
      BY <2>1 DEF FreshOK
    <2> QED
      BY <1>3, <2>2
  <1>6. \A t \in Ids(store') : Fresh(0, t)'
    <2> SUFFICES ASSUME NEW t \in Ids(store')
                 PROVE  Fresh(0, t)'
      OBVIOUS
    <2>1. CASE t \in Ids(store) /\ ~(note.type = "thread/archived" /\ note.thread = t)
      BY <1>4, <2>1 DEF FreshOK
    <2>2. CASE note.type # "thread/archived" /\ t = note.thread
      BY <1>5, <2>2 DEF Fresh
    <2> QED
      BY <2>1, <2>2
  <1>7. ASSUME NEW d \in calls', d.op \in {"list", "older"}, NEW t \in Reads(d)
        PROVE  Fresh(0, t)'
    <2>1. d \in calls /\ Listing
      BY <1>7 DEF Listing, Idle
    <2>2. Fresh(0, t)
      BY <1>7, <2>1 DEF FreshOK
    <2>3. CASE note.type = "thread/archived" /\ note.thread = t
      BY <2>1, <2>3 DEF Fresh
    <2> QED
      BY <1>4, <2>2, <2>3
  <1>8. ASSUME NEW i \in DOMAIN r, r[i].type # "thread/archived", NEW t, t = r[i].thread
        PROVE  Fresh(i, t)'
    <2>1. i \in Nat /\ i + 1 \in DOMAIN s /\ r[i] = s[i + 1]
      <3> HIDE DEF s, r
      <3>1. i \in 1..Len(r)
        BY <1>2, <1>8
      <3>2. i \in Nat /\ i + 1 \in DOMAIN s
        BY <1>1, <1>2, <3>1
      <3> QED
        BY <1>1, <3>1, <3>2
    <2>2. Fresh(i + 1, t)
      BY <1>8, <2>1 DEF FreshOK
    <2> QED
      BY <1>3, <2>1, <2>2
  <1>9. \A i \in DOMAIN r : r[i].type # "thread/archived" =>
            r[i].thread \in server'.alive \cup past'.late \/ Goes(r, i, r[i].thread)
    BY <1>8 DEF Fresh
  <1> QED
    BY <1>6, <1>7, <1>9 DEF FreshOK, Fresh, Reads

\* A step of the app that brings no row and reads no list.
LEMMA AsksFresh ==
    ASSUME TypeOK, FreshOK, Shows({}), server' = server, past'.late = past.late,
           \A d \in calls' : d \in calls \/ d.op \notin {"list", "older"}
    PROVE  FreshOK'
  <1>1. Ids(store') \subseteq Ids(store)
    BY DEF Shows
  <1> QED
    BY <1>1, FreshQuiet

LEMMA CapturedFresh ==
    ASSUME TypeOK, FreshOK, seen = store, NEW c, c.got = <<>>, c.saw = Captured
    PROVE  \A t \in Reads(c) : Fresh(0, t)
  <1>1. IdsOf(c.saw.rows) = Ids(seen) /\ ToSet(c.got) = {}
    BY CapturedType DEF TypeOK, ToSet
  <1> QED
    BY <1>1 DEF FreshOK, Reads

LEMMA UserFresh ==
    ASSUME TypeOK, FreshOK, seen = store, User
    PROVE  FreshOK'
  <1>1. ASSUME NEW preserve \in BOOLEAN, ListThreads(preserve) PROVE FreshOK'
    <2> DEFINE c == [op |-> "list", thread |-> None, preserve |-> preserve, cursor |-> None,
                     pages |-> 0, got |-> <<>>, resume |-> None, saw |-> Captured]
    <2>1. calls' = calls \cup {c} /\ UNCHANGED server
      BY <1>1 DEF ListThreads
    <2>2. c.got = <<>> /\ c.saw = Captured
      OBVIOUS
    <2> HIDE DEF c
    <2>3. \A t \in Reads(c) : Fresh(0, t)
      BY <2>2, CapturedFresh
    <2>4. Ids(store') \subseteq Ids(store)
      BY <1>1, ListThreadsDoes DEF Shows
    <2>5. past.late \subseteq past'.late \cup server.alive
      BY <1>1 DEF ListThreads, TypeOK, Past
    <2> QED
      BY <2>1, <2>3, <2>4, <2>5, FreshQuiet
  <1>2. CASE LoadOlder
    <2> DEFINE c == [op |-> "older", thread |-> None, preserve |-> FALSE,
                     cursor |-> IF seen.cursor[Workspace] = PageStart THEN None ELSE seen.cursor[Workspace],
                     pages |-> 0, got |-> <<>>, resume |-> None, saw |-> Captured]
    <2>1. calls' = calls \cup {c} /\ UNCHANGED <<server, past>>
      BY <1>2 DEF LoadOlder
    <2>2. c.got = <<>> /\ c.saw = Captured
      OBVIOUS
    <2> HIDE DEF c
    <2>3. \A t \in Reads(c) : Fresh(0, t)
      BY <2>2, CapturedFresh
    <2>4. Ids(store') \subseteq Ids(store)
      BY <1>2, LoadOlderDoes DEF Shows
    <2> QED
      BY <2>1, <2>3, <2>4, FreshQuiet
  <1>3. CASE StartThread
    <2>1. /\ Shows({}) /\ UNCHANGED <<server, past>> /\ calls' = calls \cup {Ask("start", None)}
          /\ Ask("start", None).op = "start"
      BY <1>3, StartThreadDoes DEF StartThread, Ask
    <2> QED
      BY <2>1, AsksFresh
  <1>4. CASE StartReview
    <2> DEFINE d == Ask("review", seen.active[Workspace])
    <2>1. Shows({}) /\ UNCHANGED <<server, past>> /\ calls' = calls \cup {d} /\ d.op = "review"
      BY <1>4, StartReviewDoes DEF StartReview, Ask
    <2> QED
      BY <2>1, AsksFresh
  <1>5. CASE ResetWorkspaceThreads
    <2>1. Shows({}) /\ UNCHANGED <<server, past, calls>>
      BY <1>5, ResetDoes DEF ResetWorkspaceThreads
    <2> QED
      BY <2>1, AsksFresh
  <1>6. ASSUME NEW t \in Threads, ForkThread(t) PROVE FreshOK'
    <2> DEFINE d == Ask("fork", t)
    <2>1. Shows({}) /\ UNCHANGED <<server, past>> /\ calls' = calls \cup {d} /\ d.op = "fork"
      BY <1>6, ForkThreadDoes DEF ForkThread, Ask
    <2> QED
      BY <2>1, AsksFresh
  <1>7. ASSUME NEW t \in Threads, SelectThread(t) PROVE FreshOK'
    <2> DEFINE d == Ask("resume", t)
    <2>1. /\ Shows({}) /\ UNCHANGED <<server, past>> /\ d.op = "resume"
          /\ calls' = calls \/ calls' = calls \cup {d}
      BY <1>7, SelectThreadDoes DEF SelectThread, Ask
    <2> QED
      BY <2>1, AsksFresh
  <1>8. ASSUME NEW t \in Threads, RemoveThreadRow(t) PROVE FreshOK'
    <2> DEFINE d == Ask("archive", t)
    <2>1. Shows({}) /\ UNCHANGED <<server, past>> /\ calls' = calls \cup {d} /\ d.op = "archive"
      BY <1>8, RemoveThreadRowDoes DEF RemoveThreadRow, Ask
    <2> QED
      BY <2>1, AsksFresh
  <1> QED
    BY <1>1, <1>2, <1>3, <1>4, <1>5, <1>6, <1>7, <1>8 DEF User

\* What a list has read is fresh as it goes on.
LEMMA ReadsFresh ==
    ASSUME FreshOK, NEW c \in calls, c.op \in {"list", "older"}, NEW got,
           got \subseteq ToSet(c.got) \cup (server.alive \cap Ours)
    PROVE  /\ \A t \in got \cup IdsOf(c.saw.rows) : Fresh(0, t)
           /\ \A d : ToSet(d.got) = got /\ d.saw = c.saw => \A t \in Reads(d) : Fresh(0, t)
  <1>1. \A t \in server.alive : Fresh(0, t)
    BY DEF Fresh
  <1>2. \A t \in got \cup IdsOf(c.saw.rows) : Fresh(0, t)
    BY <1>1 DEF FreshOK, Reads
  <1> QED
    BY <1>2 DEF Reads

LEMMA ListPageFresh ==
    ASSUME TypeOK, FreshOK, NEW c \in calls, ListPage(c)
    PROVE  FreshOK'
  <1> DEFINE got == Matching(c, Page(c.cursor))
  <1>1. /\ Shows(ToSet(got)) /\ UNCHANGED <<server, past>>
        /\ ToSet(got) \subseteq ToSet(c.got) \cup (server.alive \cap Ours)
        /\ \/ \E d : /\ calls' = (calls \ {c}) \cup {d} /\ d.got = got /\ d.saw = c.saw
           \/ calls' = calls \ {c}
    BY ListPageDoes
  <1> HIDE DEF got
  <1>2. c.op = "list"
    BY DEF ListPage
  <1>3. /\ \A t \in ToSet(got) : Fresh(0, t)
        /\ \A d : ToSet(d.got) = ToSet(got) /\ d.saw = c.saw => \A t \in Reads(d) : Fresh(0, t)
    BY <1>1, <1>2, ReadsFresh
  <1>4. Ids(store') \subseteq Ids(store) \cup ToSet(got)
    BY <1>1 DEF Shows
  <1>5. \A d \in calls' : d \in calls \/ \A t \in Reads(d) : Fresh(0, t)
    BY <1>1, <1>3
  <1> QED
    BY <1>1, <1>3, <1>4, <1>5, FreshQuiet

LEMMA OlderPageFresh ==
    ASSUME TypeOK, FreshOK, NEW c \in calls, OlderPage(c)
    PROVE  FreshOK'
  <1> DEFINE got == Matching(c, Page(c.cursor))
  <1>1. /\ Shows(ToSet(got) \cup IdsOf(c.saw.rows)) /\ UNCHANGED server /\ past'.late = past.late
        /\ ToSet(got) \subseteq ToSet(c.got) \cup (server.alive \cap Ours) /\ c.op = "older"
        /\ \/ \E d : /\ calls' = (calls \ {c}) \cup {d} /\ d.got = got /\ d.saw = c.saw
           \/ calls' = calls \ {c}
    BY OlderPageDoes DEF Losing
  <1> HIDE DEF got
  <1>3. /\ \A t \in ToSet(got) \cup IdsOf(c.saw.rows) : Fresh(0, t)
        /\ \A d : ToSet(d.got) = ToSet(got) /\ d.saw = c.saw => \A t \in Reads(d) : Fresh(0, t)
    BY <1>1, ReadsFresh
  <1>4. Ids(store') \subseteq Ids(store) \cup ToSet(got) \cup IdsOf(c.saw.rows)
    BY <1>1 DEF Shows
  <1>5. \A d \in calls' : d \in calls \/ \A t \in Reads(d) : Fresh(0, t)
    BY <1>1, <1>3
  <1> QED
    BY <1>1, <1>3, <1>4, <1>5, FreshQuiet

\* A thread is born, which only adds to what is alive.
LEMMA BornFresh ==
    ASSUME TypeOK, FreshOK, NEW t \in Threads, Missed(t),
           server' = [server EXCEPT !.alive = @ \cup {t}, !.unborn = @ \ {t},
                                    !.wire = Append(@, Note("thread/started", t))],
           Ids(store') \subseteq Ids(store) \cup {t},
           \A d \in calls' : d \in calls \/ d.op \notin {"list", "older"}
    PROVE  FreshOK'
  <1> DEFINE n == Note("thread/started", t)
  <1>1. server \in Server /\ past \in Past /\ n \in Notice /\ n.type = "thread/started" /\ n.thread = t
    BY NoteType DEF TypeOK, Kinds
  <1>2. server'.alive = server.alive \cup {t} /\ server'.wire = Append(server.wire, n)
    BY <1>1 DEF Server
  <1>3. past.late \subseteq past'.late
    BY <1>1, MissedType
  <1> HIDE DEF n
  <1> QED
    BY <1>1, <1>2, <1>3, FreshAppend

LEMMA GoesFresh ==
    ASSUME TypeOK, FreshOK, NEW t \in Threads, server' = Archived(server, t),
           past.late \subseteq past'.late, Shows({}),
           \A d \in calls' : d \in calls \/ d.op \notin {"list", "older"}
    PROVE  FreshOK'
  <1> DEFINE n == Note("thread/archived", t)
  <1>1. n \in Notice /\ n.type = "thread/archived" /\ n.thread = t /\ server \in Server
    BY NoteType DEF TypeOK, Kinds
  <1>2. server'.alive = server.alive \ {t} /\ server'.wire = Append(server.wire, n)
    BY <1>1, ArchivedType
  <1>3. Ids(store') \subseteq Ids(store)
    BY DEF Shows
  <1> HIDE DEF n
  <1> QED
    BY <1>1, <1>2, <1>3, FreshAppend

LEMMA AnswersFresh ==
    ASSUME TypeOK, FreshOK, Answers
    PROVE  FreshOK'
  <1>1. PICK c \in calls :
          \/ ListPage(c) \/ OlderPage(c) \/ ListFails(c) \/ NotStarted(c) \/ Resumed(c)
          \/ ArchiveAnswer(c) \/ CascadeAsks(c) \/ CascadeAnswer(c)
          \/ \E t \in Threads : Started(c, t) \/ RegisterDetachedReviewChild(c, t)
    BY DEF Answers
  <1>2. CASE ListPage(c)
    BY <1>2, ListPageFresh
  <1>3. CASE OlderPage(c)
    BY <1>3, OlderPageFresh
  <1>4. CASE ListFails(c)
    <2>1. Shows({}) /\ UNCHANGED <<server, past>> /\ calls' = calls \ {c}
      BY <1>4, ListFailsDoes DEF ListFails
    <2> QED
      BY <2>1, AsksFresh
  <1>5. CASE NotStarted(c)
    <2>1. Shows({}) /\ UNCHANGED <<server, past>> /\ calls' = calls \ {c}
      BY <1>5, NotStartedDoes DEF NotStarted
    <2> QED
      BY <2>1, AsksFresh
  <1>6. CASE Resumed(c)
    <2>1. Shows({c.thread}) /\ c.thread \in server.alive
      BY <1>6, ResumedDoes
    <2>2. UNCHANGED <<server, past>> /\ calls' = calls \ {c}
      BY <1>6 DEF Resumed
    <2>3. Ids(store') \subseteq Ids(store) \cup {c.thread}
      BY <2>1 DEF Shows
    <2> QED
      BY <2>1, <2>2, <2>3, FreshQuiet
  <1>7. CASE ArchiveAnswer(c)
    <2>1. Shows({}) /\ c.thread \in Threads
      BY <1>7, ArchiveAnswerDoes
    <2>2. /\ calls' = calls \ {c}
          /\ \/ server' = Archived(server, c.thread) /\ Missed(c.thread)
             \/ UNCHANGED <<server, past>>
             \/ UNCHANGED server /\ Refused(c.thread)
      BY <1>7 DEF ArchiveAnswer, Refused
    <2>3. /\ Missed(c.thread) => past.late \subseteq past'.late
          /\ Refused(c.thread) => past'.late = past.late
      BY <2>1, MissedType, RefusedType DEF TypeOK
    <2> QED
      BY <2>1, <2>2, <2>3, AsksFresh, GoesFresh
  <1>8. CASE CascadeAsks(c)
    <2> DEFINE d == [c EXCEPT !.thread = Head(c.got), !.got = Tail(c.got)]
    <2>1. Shows({}) /\ calls' = (calls \ {c}) \cup {d} /\ d.op = "cascade"
      BY <1>8, CascadeAsksDoes
    <2> HIDE DEF d
    <2>2. UNCHANGED <<server, past>>
      BY <1>8 DEF CascadeAsks
    <2> QED
      BY <2>1, <2>2, AsksFresh
  <1>9. CASE CascadeAnswer(c)
    <2>1. /\ Shows({}) /\ c.thread \in Threads
          /\ \/ calls' = calls \ {c}
             \/ \E d : calls' = (calls \ {c}) \cup {d} /\ d.op = "cascade"
          /\ \/ server' = Archived(server, c.thread)
             \/ server' = server /\ past'.late = past.late
          /\ past.late \subseteq past'.late
      BY <1>9, CascadeAnswerDoes
    <2>2. \A d \in calls' : d \in calls \/ d.op \notin {"list", "older"}
      BY <2>1
    <2> QED
      BY <2>1, <2>2, AsksFresh, GoesFresh
  <1>10. ASSUME NEW t \in Threads, Started(c, t) PROVE FreshOK'
    <2>1. /\ server' = [server EXCEPT !.alive = @ \cup {t}, !.unborn = @ \ {t},
                                      !.wire = Append(@, Note("thread/started", t))]
          /\ calls' = calls \ {c} \/ calls' = (calls \ {c}) \cup {Ask("resume", t)}
          /\ Ask("resume", t).op = "resume" /\ Missed(t)
      BY <1>10 DEF Started, Ask
    <2>2. Ids(store') \subseteq Ids(store) \cup {t}
      BY <1>10, StartedDoes DEF Shows
    <2> QED
      BY <2>1, <2>2, BornFresh
  <1>11. ASSUME NEW t \in Threads, RegisterDetachedReviewChild(c, t) PROVE FreshOK'
    <2>1. /\ server' = [server EXCEPT !.alive = @ \cup {t}, !.unborn = @ \ {t},
                                      !.wire = Append(@, Note("thread/started", t))]
          /\ calls' = calls \ {c} /\ Missed(t)
      BY <1>11 DEF RegisterDetachedReviewChild
    <2>2. Ids(store') \subseteq Ids(store)
      BY <1>11, RegisterDoes DEF Shows
    <2> QED
      BY <2>1, <2>2, BornFresh
  <1> QED
    BY <1>1, <1>2, <1>3, <1>4, <1>5, <1>6, <1>7, <1>8, <1>9, <1>10, <1>11

LEMMA ServerActsFresh ==
    ASSUME TypeOK, FreshOK, ServerActs
    PROVE  FreshOK'
  <1>1. ASSUME NEW t \in Threads, NEW informed \in BOOLEAN, ServerSpawns(t, informed) PROVE FreshOK'
    <2> DEFINE b == Birth(t, informed)
    <2>1. /\ UNCHANGED <<store, calls>> /\ Missed(t)
          /\ Spawner[t] # None \/ t \in Memory
          /\ Spawner[t] # None => Spawner[t] \in server.alive
      BY <1>1 DEF ServerSpawns
    <2>2. /\ server'.wire = server.wire \o b /\ server'.alive = server.alive \cup {t}
      BY <1>1, ServerSpawnsDoes
    <2>3. /\ b \in Seq(Notice) /\ b[1].thread = t
          /\ \/ Len(b) = 1
             \/ t \notin Memory /\ Len(b) = 3 /\ b[2].thread = Spawner[t] /\ b[3].thread = t
      BY <2>1, BirthType
    <2> HIDE DEF b
    <2>4. \A j \in DOMAIN b : b[j].thread \in server'.alive
      <3>1. DOMAIN b = 1..Len(b)
        BY <2>3
      <3> QED
        BY <2>1, <2>2, <2>3, <3>1
    <2>5. past.late \subseteq past'.late
      BY <2>1, MissedType DEF TypeOK
    <2> QED
      BY <2>1, <2>2, <2>3, <2>4, <2>5, FreshWrites
  <1>2. ASSUME NEW t \in Threads, ServerReports(t) PROVE FreshOK'
    <2> DEFINE n == [Note("collab", t) EXCEPT !.others = {Spawner[t]}]
    <2>1. /\ n \in Notice /\ n.type = "collab" /\ n.thread = t
          /\ server'.wire = Append(server.wire, n) /\ server'.alive = server.alive
      BY <1>2, ServerReportsDoes
    <2> HIDE DEF n
    <2>2. t \in server.alive /\ UNCHANGED <<store, calls, past>>
      BY <1>2 DEF ServerReports
    <2> QED
      BY <2>1, <2>2, FreshAppend
  <1>3. ASSUME NEW t \in Threads, ServerArchives(t) PROVE FreshOK'
    <2>1. server' = Archived(server, t) /\ UNCHANGED calls /\ Missed(t)
      BY <1>3 DEF ServerArchives
    <2>2. past.late \subseteq past'.late
      BY <2>1, MissedType DEF TypeOK
    <2>3. Shows({})
      BY <1>3, ServerArchivesDoes
    <2> QED
      BY <2>1, <2>2, <2>3, GoesFresh
  <1>4. ASSUME NEW t \in Threads, ServerUnarchives(t) PROVE FreshOK'
    <2> DEFINE n == Note("thread/unarchived", t)
    <2>1. /\ server'.alive = server.alive \cup {t} /\ server'.wire = Append(server.wire, n)
          /\ past.late \subseteq past'.late
      BY <1>4, ServerUnarchivesDoes
    <2>2. UNCHANGED <<store, calls>>
      BY <1>4 DEF ServerUnarchives
    <2>3. n \in Notice /\ n.type = "thread/unarchived" /\ n.thread = t
      BY NoteType DEF Kinds
    <2> HIDE DEF n
    <2> QED
      BY <2>1, <2>2, <2>3, FreshAppend
  <1> QED
    BY <1>1, <1>2, <1>3, <1>4 DEF ServerActs

LEMMA NotificationsFresh ==
    ASSUME TypeOK, FreshOK, Notifications
    PROVE  FreshOK'
  <1>1. PICK note : /\ Handles(note)
                    /\ \/ OnThreadStarted(note) \/ OnThreadArchived(note) \/ OnThreadUnarchived(note)
                       \/ OnCollab(note) \/ OnTurnStarted(note)
    BY HandledIs
  <1>3. CASE OnThreadStarted(note)
    <2>1. Ids(store') \subseteq Ids(store) \cup {note.thread}
      BY <1>1, <1>3, OnThreadStartedDoes DEF Shows
    <2>2. UNCHANGED <<calls, past>> /\ note.type # "thread/archived"
      BY <1>3 DEF OnThreadStarted
    <2> QED
      BY <1>1, <2>1, <2>2, FreshHandles
  <1>4. CASE OnThreadArchived(note)
    <2>1. /\ Ids(store') \subseteq Ids(store) \ {note.thread}
          /\ past.late \subseteq past'.late /\ (Listing => note.thread \in past'.late)
          /\ \/ calls' = calls
             \/ \E d : calls' = calls \cup {d} /\ d.op = "cascade"
      BY <1>1, <1>4, OnThreadArchivedDoes DEF Shows
    <2>2. note.type = "thread/archived"
      BY <1>4 DEF OnThreadArchived
    <2> QED
      BY <1>1, <2>1, <2>2, FreshHandles
  <1>5. CASE OnThreadUnarchived(note) \/ OnTurnStarted(note)
    <2>1. Ids(store') \subseteq Ids(store) \cup {note.thread}
      BY <1>1, <1>5, EnsuresDoes DEF Shows
    <2>2. UNCHANGED <<calls, past>> /\ note.type # "thread/archived"
      BY <1>5 DEF OnThreadUnarchived, OnTurnStarted
    <2> QED
      BY <1>1, <2>1, <2>2, FreshHandles
  <1>6. CASE OnCollab(note)
    <2>1. Ids(store') \subseteq Ids(store) \cup {note.thread} /\ past'.late = past.late
      BY <1>1, <1>6, OnCollabDoes DEF Shows
    <2>2. UNCHANGED calls /\ note.type # "thread/archived"
      BY <1>6 DEF OnCollab
    <2> QED
      BY <1>1, <2>1, <2>2, FreshHandles
  <1> QED
    BY <1>1, <1>3, <1>4, <1>5, <1>6

\* Every step keeps what is listed fresh.
LEMMA StepFresh ==
    ASSUME TypeOK, FreshOK, [Next]_vars
    PROVE  FreshOK'
  <1>1. CASE UNCHANGED vars
    BY <1>1 DEF vars, FreshOK, Fresh
  <1>2. CASE Render
    <2>1. Shows({})
      BY <1>2, RenderDoes
    <2>2. UNCHANGED <<calls, server, past>>
      BY <1>2 DEF Render
    <2> QED
      BY <2>1, <2>2, AsksFresh
  <1>3. CASE seen = store /\ User
    BY <1>3, UserFresh
  <1> QED
    BY <1>1, <1>2, <1>3, AnswersFresh, ServerActsFresh, NotificationsFresh DEF Next

LEMMA InitFresh ==
    ASSUME Init
    PROVE  FreshOK
  <1>1. Ids(store) = {} /\ calls = {}
    BY InitialIsStore DEF Init
  <1>2. server.wire = <<>>
    BY InitTypes
  <1> QED
    BY <1>1, <1>2 DEF FreshOK

----------------------------------------------------------------------------
(* The theorems                                                             *)

\* The inductive invariant of the rows.
RowsInv == TypeOK /\ KnownOK /\ Opened(store) /\ FreshOK

\* The store and the screen, the calls under way, the server and its wire and the histories
\* keep their types, for any threads, page sizes and plans of the server.
THEOREM TypesAreRight == Spec => []TypeOK
  <1>1. Init => TypeOK
    BY InitTypes
  <1>2. TypeOK /\ [Next]_vars => TypeOK'
    BY TypesStep
  <1> QED
    BY <1>1, <1>2, PTL DEF Spec

\* Whatever the order in which lists, pages, opened and forked threads, removals and news
\* of the server arrive: the open thread has a row, no background thread and no thread of
\* another directory is listed, and once all is quiet a listed thread is alive unless it
\* was archived while the list that brought it was being read.
THEOREM RowsStayRight == Spec => []RowsAreRight
  <1>1. Init => RowsInv
    <2> SUFFICES ASSUME Init
                 PROVE  RowsInv
      OBVIOUS
    <2>1. store = InitialState
      BY DEF Init
    <2> QED
      BY <2>1, InitTypes, InitKnown, InitFresh, InitialIsStore DEF RowsInv
  <1>2. RowsInv /\ [Next]_vars => RowsInv'
    <2> SUFFICES ASSUME RowsInv, [Next]_vars
                 PROVE  RowsInv'
      OBVIOUS
    <2>1. TypeOK /\ KnownOK /\ Opened(store) /\ FreshOK
      BY DEF RowsInv
    <2>2. TypeOK' /\ KnownOK' /\ FreshOK'
      BY <2>1, TypesStep, StepKnown, StepFresh
    <2>3. Opened(store')
      BY <2>1, StepOpened
    <2> QED
      BY <2>2, <2>3 DEF RowsInv
  <1>3. RowsInv => RowsAreRight
    <2> SUFFICES ASSUME RowsInv
                 PROVE  RowsAreRight
      OBVIOUS
    <2>1. ListedNow = Ids(store)
      BY DEF ListedNow, Ids
    <2>2. store.active[Workspace] # None => store.active[Workspace] \in ListedNow
      BY <2>1 DEF RowsInv, Opened
    <2>3. ListedNow \cap (Memory \cup Foreign) = {}
      BY <2>1, OursOf DEF RowsInv, KnownOK
    <2>4. Quiet => ListedNow \subseteq server.alive \cup past.late
      BY <2>1 DEF RowsInv, FreshOK, Fresh, Goes, Quiet
    <2> QED
      BY <2>2, <2>3, <2>4 DEF RowsAreRight
  <1> QED
    BY <1>1, <1>2, <1>3, PTL DEF Spec

----------------------------------------------------------------------------
(* The cascade: who it may ask the archive of, and who it still has to.     *)

\* Who may be asked to be archived along with another: the agents, and those an item of
\* a thread has told of.
Family == {t \in Threads : Spawner[t] # None} \cup past.told
\* The cascade c is archiving t or still has to.
Carries(c, t) == c.op = "cascade" /\ (c.thread = t \/ t \in ToSet(c.got))

\* What a cascade asks for is in the family, and whatever is due and alive some cascade
\* carries.
CascadeOK ==
  /\ agents \cup past.asked \subseteq Family
  /\ \A c \in calls : c.op = "cascade" => ToSet(c.got) \subseteq Family
                                          /\ c.thread \in OrNone(Family)
  /\ past.due \cap server.unborn = {}
  /\ \A t \in past.due \cap server.alive : \E c \in calls : Carries(c, t)

LEMMA InitCascade ==
    ASSUME Init
    PROVE  CascadeOK
  BY DEF Init, CascadeOK

\* A step that leaves the cascades alone.
LEMMA CascadesStay ==
    ASSUME TypeOK, CascadeOK, past.told \subseteq past'.told, past'.asked = past.asked,
           past'.due \subseteq past.due, server'.unborn \subseteq server.unborn,
           \A u \in server'.alive : u \in past'.due => u \in server.alive,
           agents' \subseteq agents \cup Family',
           \A c \in calls : c.op = "cascade" => c \in calls',
           \A c \in calls' : c.op = "cascade" => c \in calls
    PROVE  CascadeOK'
  <1>1. Family \subseteq Family'
    BY DEF Family
  <1>2. agents' \cup past'.asked \subseteq Family'
    BY <1>1 DEF CascadeOK
  <1>3. \A c \in calls' : c.op = "cascade" => ToSet(c.got) \subseteq Family'
                                             /\ c.thread \in OrNone(Family')
    BY <1>1 DEF CascadeOK, OrNone
  <1>4. past'.due \cap server'.unborn = {}
    BY DEF CascadeOK
  <1>5. \A t \in past'.due \cap server'.alive : \E c \in calls' : Carries(c, t)
    <2> SUFFICES ASSUME NEW t \in past'.due \cap server'.alive
                 PROVE  \E c \in calls' : Carries(c, t)
      OBVIOUS
    <2>1. PICK c \in calls : Carries(c, t)
      BY DEF CascadeOK
    <2>2. c \in calls'
      BY <2>1 DEF Carries
    <2> QED
      BY <2>1, <2>2
  <1> QED
    BY <1>2, <1>3, <1>4, <1>5 DEF CascadeOK

\* Neither the server nor the archives asked for change.
LEMMA CascadesQuiet ==
    ASSUME TypeOK, CascadeOK, UNCHANGED server, past'.told = past.told,
           past'.asked = past.asked, past'.due = past.due, agents' \subseteq agents \cup Family,
           \A c \in calls : c.op = "cascade" => c \in calls',
           \A c \in calls' : c.op = "cascade" => c \in calls
    PROVE  CascadeOK'
  <1>1. Family' = Family
    BY DEF Family
  <1> QED
    BY <1>1, CascadesStay

LEMMA UserCascade ==
    ASSUME TypeOK, CascadeOK, User
    PROVE  CascadeOK'
  <1>a. \A op, t : Ask(op, t).op = op
    BY DEF Ask
  <1>1. ASSUME NEW preserve \in BOOLEAN, ListThreads(preserve) PROVE CascadeOK'
    <2> DEFINE c == [op |-> "list", thread |-> None, preserve |-> preserve, cursor |-> None,
                     pages |-> 0, got |-> <<>>, resume |-> None, saw |-> Captured]
    <2>1. calls' = calls \cup {c} /\ UNCHANGED <<server, agents>>
      BY <1>1 DEF ListThreads, app
    <2>2. c.op # "cascade"
      OBVIOUS
    <2> HIDE DEF c
    <2>3. past'.told = past.told /\ past'.asked = past.asked /\ past'.due = past.due
      BY <1>1 DEF ListThreads, TypeOK, Past
    <2> QED
      BY <2>1, <2>2, <2>3, CascadesStay
  <1>2. CASE LoadOlder
    <2> DEFINE c == [op |-> "older", thread |-> None, preserve |-> FALSE,
                     cursor |-> IF seen.cursor[Workspace] = PageStart THEN None ELSE seen.cursor[Workspace],
                     pages |-> 0, got |-> <<>>, resume |-> None, saw |-> Captured]
    <2>1. calls' = calls \cup {c} /\ UNCHANGED <<server, past, agents>>
      BY <1>2 DEF LoadOlder, app
    <2>2. c.op # "cascade"
      OBVIOUS
    <2> HIDE DEF c
    <2> QED
      BY <2>1, <2>2, CascadesQuiet
  <1>3. CASE StartThread
    <2>1. UNCHANGED <<server, past, agents>> /\ calls' = calls \cup {Ask("start", None)}
      BY <1>3 DEF StartThread, app
    <2> QED
      BY <1>a, <2>1, CascadesQuiet
  <1>4. CASE StartReview
    <2>1. UNCHANGED <<server, past, agents>> /\ calls' = calls \cup {Ask("review", seen.active[Workspace])}
      BY <1>4 DEF StartReview, app
    <2> QED
      BY <1>a, <2>1, CascadesQuiet
  <1>5. CASE ResetWorkspaceThreads
    <2>1. UNCHANGED <<server, past, agents, calls>>
      BY <1>5 DEF ResetWorkspaceThreads
    <2> QED
      BY <2>1, CascadesQuiet
  <1>6. ASSUME NEW t \in Threads, ForkThread(t) PROVE CascadeOK'
    <2>1. UNCHANGED <<server, past, agents>> /\ calls' = calls \cup {Ask("fork", t)}
      BY <1>6 DEF ForkThread, app
    <2> QED
      BY <1>a, <2>1, CascadesQuiet
  <1>7. ASSUME NEW t \in Threads, SelectThread(t) PROVE CascadeOK'
    <2>1. /\ UNCHANGED <<server, past, agents>>
          /\ calls' = calls \/ calls' = calls \cup {Ask("resume", t)}
      BY <1>7 DEF SelectThread, app
    <2> QED
      BY <1>a, <2>1, CascadesQuiet
  <1>8. ASSUME NEW t \in Threads, RemoveThreadRow(t) PROVE CascadeOK'
    <2>1. UNCHANGED <<server, past, agents>> /\ calls' = calls \cup {Ask("archive", t)}
      BY <1>8 DEF RemoveThreadRow, app
    <2> QED
      BY <1>a, <2>1, CascadesQuiet
  <1> QED
    BY <1>1, <1>2, <1>3, <1>4, <1>5, <1>6, <1>7, <1>8 DEF User

LEMMA SpawnedFamily ==
    ASSUME NEW set, set \subseteq Threads
    PROVE  Spawned(set) \subseteq Family
  BY DEF Spawned, Family

\* A thread comes: it is not one the cascade owes.
LEMMA BornCascade ==
    ASSUME TypeOK, CascadeOK, NEW t \in Threads, t \in server.unborn, Missed(t),
           server'.alive = server.alive \cup {t}, server'.unborn = server.unborn \ {t},
           UNCHANGED agents,
           \A c \in calls : c.op = "cascade" => c \in calls',
           \A c \in calls' : c.op = "cascade" => c \in calls
    PROVE  CascadeOK'
  <1>1. past'.told = past.told /\ past'.asked = past.asked /\ past'.due = past.due
    BY MissedType DEF TypeOK
  <1>2. t \notin past.due
    BY DEF CascadeOK
  <1> QED
    BY <1>1, <1>2, CascadesStay

LEMMA CascadeAsksCascade ==
    ASSUME TypeOK, CascadeOK, NEW c \in calls, CascadeAsks(c)
    PROVE  CascadeOK'
  <1> DEFINE d == [c EXCEPT !.thread = Head(c.got), !.got = Tail(c.got)]
  <1>1. /\ calls' = (calls \ {c}) \cup {d} /\ c.got \in Seq(Threads) /\ c.got # <<>>
        /\ d.op = "cascade" /\ d.thread = Head(c.got) /\ d.got = Tail(c.got)
    BY CascadeAsksDoes
  <1> HIDE DEF d
  <1>2. UNCHANGED <<server, past, agents>> /\ c.op = "cascade" /\ c.thread = None
    BY DEF CascadeAsks
  <1>3. ToSet(c.got) = {d.thread} \cup ToSet(d.got)
    BY <1>1, HeadTailSet
  <1>4. Family' = Family
    BY <1>2 DEF Family
  <1>5. ToSet(d.got) \subseteq Family /\ d.thread \in OrNone(Family)
    BY <1>2, <1>3 DEF CascadeOK, OrNone
  <1>6. \A t \in past.due \cap server.alive : \E e \in calls' : Carries(e, t)
    <2> SUFFICES ASSUME NEW t \in past.due \cap server.alive
                 PROVE  \E e \in calls' : Carries(e, t)
      OBVIOUS
    <2>1. PICK e \in calls : Carries(e, t)
      BY DEF CascadeOK
    <2>2. t # None
      BY NoneAssumption DEF TypeOK, Past
    <2>3. CASE e = c
      <3>1. Carries(d, t)
        BY <1>1, <1>2, <1>3, <2>1, <2>2, <2>3 DEF Carries
      <3> QED
        BY <1>1, <3>1
    <2>4. CASE e # c
      BY <1>1, <2>1, <2>4
    <2> QED
      BY <2>3, <2>4
  <1> QED
    BY <1>1, <1>2, <1>4, <1>5, <1>6 DEF CascadeOK

LEMMA CascadeAnswerCascade ==
    ASSUME TypeOK, CascadeOK, NEW c \in calls, CascadeAnswer(c)
    PROVE  CascadeOK'
  <1>1. /\ c.thread \in Threads /\ c.got \in Seq(Threads) /\ c.op = "cascade"
        /\ \/ calls' = calls \ {c} /\ c.got = <<>>
           \/ \E d : /\ calls' = (calls \ {c}) \cup {d}
                     /\ d.op = "cascade" /\ d.thread = None /\ d.got = c.got
        /\ past'.told = past.told /\ past'.due \subseteq past.due
        /\ past'.asked \subseteq past.asked \cup {c.thread}
        /\ c.thread \notin past'.due \cap server'.alive
        /\ server'.alive \subseteq server.alive /\ server'.unborn = server.unborn
    BY CascadeAnswerDoes
  <1>2. UNCHANGED agents
    BY DEF CascadeAnswer
  <1>3. Family' = Family
    BY <1>1 DEF Family
  <1>4. ToSet(c.got) \subseteq Family /\ c.thread \in Family
    BY <1>1, NoneAssumption DEF CascadeOK, OrNone
  <1>5. \A d \in calls' : d \in calls \/ (d.got = c.got /\ d.thread = None)
    BY <1>1
  <1>6. \A d \in calls' : d.op = "cascade" => ToSet(d.got) \subseteq Family' /\ d.thread \in OrNone(Family')
    BY <1>3, <1>4, <1>5 DEF CascadeOK, OrNone
  <1>7. \A t \in past'.due \cap server'.alive : \E e \in calls' : Carries(e, t)
    <2> SUFFICES ASSUME NEW t \in past'.due \cap server'.alive
                 PROVE  \E e \in calls' : Carries(e, t)
      OBVIOUS
    <2>1. PICK e \in calls : Carries(e, t)
      BY <1>1 DEF CascadeOK
    <2>2. t # c.thread
      BY <1>1
    <2>3. CASE e = c
      <3>1. t \in ToSet(c.got)
        BY <2>1, <2>2, <2>3 DEF Carries
      <3>2. c.got # <<>>
        BY <3>1, <1>1, EmptySet
      <3>3. PICK d : d \in calls' /\ d.op = "cascade" /\ d.got = c.got
        BY <1>1, <3>2
      <3>4. Carries(d, t)
        BY <3>1, <3>3 DEF Carries
      <3> QED
        BY <3>3, <3>4
    <2>4. CASE e # c
      BY <1>1, <2>1, <2>4
    <2> QED
      BY <2>3, <2>4
  <1> QED
    BY <1>2, <1>1, <1>3, <1>4, <1>6, <1>7 DEF CascadeOK

LEMMA AnswersCascade ==
    ASSUME TypeOK, CascadeOK, Answers
    PROVE  CascadeOK'
  <1>a. \A op, t : Ask(op, t).op = op
    BY DEF Ask
  <1>1. PICK c \in calls :
          \/ ListPage(c) \/ OlderPage(c) \/ ListFails(c) \/ NotStarted(c) \/ Resumed(c)
          \/ ArchiveAnswer(c) \/ CascadeAsks(c) \/ CascadeAnswer(c)
          \/ \E t \in Threads : Started(c, t) \/ RegisterDetachedReviewChild(c, t)
    BY DEF Answers
  <1>2. CASE ListPage(c)
    <2> DEFINE got == Matching(c, Page(c.cursor))
    <2>1. /\ UNCHANGED <<server, past>> /\ got \in Seq(Threads)
          /\ \/ \E d : calls' = (calls \ {c}) \cup {d} /\ d.op = "list"
             \/ calls' = calls \ {c}
          /\ agents' \subseteq agents \cup Spawned(ToSet(got))
      BY <1>2, ListPageDoes
    <2> HIDE DEF got
    <2>2. Spawned(ToSet(got)) \subseteq Family
      <3>1. ToSet(got) \subseteq Threads
        BY <2>1, SeqIn
      <3> QED
        BY <3>1, SpawnedFamily
    <2>3. c.op = "list"
      BY <1>2 DEF ListPage
    <2>4. /\ \A d \in calls : d.op = "cascade" => d \in calls'
          /\ \A d \in calls' : d.op = "cascade" => d \in calls
      BY <2>1, <2>3
    <2> QED
      BY <2>1, <2>2, <2>4, CascadesQuiet
  <1>3. CASE OlderPage(c)
    <2>1. /\ UNCHANGED <<server, app>> /\ Losing /\ c.op = "older"
          /\ \/ \E d : calls' = (calls \ {c}) \cup {d} /\ d.op = "older"
             \/ calls' = calls \ {c}
      BY <1>3, OlderPageDoes
    <2>2. UNCHANGED agents
      BY <2>1 DEF app
    <2>3. /\ \A d \in calls : d.op = "cascade" => d \in calls'
          /\ \A d \in calls' : d.op = "cascade" => d \in calls
      BY <2>1
    <2> QED
      BY <2>1, <2>2, <2>3, CascadesQuiet DEF Losing
  <1>4. CASE ListFails(c)
    <2>1. UNCHANGED <<server, past, agents>> /\ calls' = calls \ {c} /\ c.op \in {"list", "older"}
      BY <1>4 DEF ListFails, app
    <2> QED
      BY <2>1, CascadesQuiet
  <1>5. CASE NotStarted(c)
    <2>1. /\ UNCHANGED <<server, past, agents>> /\ calls' = calls \ {c}
          /\ c.op \in {"start", "fork", "review", "resume"}
      BY <1>5 DEF NotStarted, app
    <2> QED
      BY <2>1, CascadesQuiet
  <1>6. CASE Resumed(c)
    <2>1. /\ UNCHANGED <<server, past>> /\ calls' = calls \ {c} /\ c.op = "resume"
          /\ agents' = agents \cup {u \in server.alive : Spawner[u] = c.thread} \cup Spawned({c.thread})
      BY <1>6 DEF Resumed
    <2>2. c.thread \in Threads /\ c.thread # None
      BY <1>6, ResumedDoes, NoneAssumption
    <2>3. Spawned({c.thread}) \subseteq Family
      BY <2>2, SpawnedFamily
    <2>4. {u \in server.alive : Spawner[u] = c.thread} \subseteq Family
      BY <2>2, ServerFields DEF TypeOK, Family
    <2> QED
      BY <2>1, <2>3, <2>4, CascadesQuiet
  <1>7. CASE ArchiveAnswer(c)
    <2>1. c.thread \in Threads
      BY <1>7, ArchiveAnswerDoes
    <2>2. /\ calls' = calls \ {c} /\ c.op = "archive" /\ UNCHANGED agents
          /\ \/ server' = Archived(server, c.thread) /\ Missed(c.thread)
             \/ UNCHANGED <<server, past>>
             \/ UNCHANGED server /\ Refused(c.thread)
      BY <1>7 DEF ArchiveAnswer, Refused, app
    <2>5. CASE UNCHANGED server /\ Refused(c.thread)
      <3>1. past'.told = past.told /\ past'.asked = past.asked /\ past'.due = past.due
        BY <2>1, <2>5, RefusedType DEF TypeOK
      <3> QED
        BY <2>2, <2>5, <3>1, CascadesQuiet
    <2>3. CASE UNCHANGED <<server, past>>
      BY <2>2, <2>3, CascadesQuiet
    <2>4. CASE server' = Archived(server, c.thread) /\ Missed(c.thread)
      <3>1. server'.alive \subseteq server.alive /\ server'.unborn = server.unborn
        BY <2>1, <2>4, ArchivedType DEF TypeOK
      <3>2. past'.told = past.told /\ past'.asked = past.asked /\ past'.due = past.due
        BY <2>1, <2>4, MissedType DEF TypeOK
      <3> QED
        BY <2>2, <3>1, <3>2, CascadesStay
    <2> QED
      BY <2>2, <2>3, <2>4, <2>5
  <1>8. CASE CascadeAsks(c)
    BY <1>8, CascadeAsksCascade
  <1>9. CASE CascadeAnswer(c)
    BY <1>9, CascadeAnswerCascade
  <1>10. ASSUME NEW t \in Threads, Started(c, t) PROVE CascadeOK'
    <2>1. /\ server' = [server EXCEPT !.alive = @ \cup {t}, !.unborn = @ \ {t},
                                      !.wire = Append(@, Note("thread/started", t))]
          /\ calls' = calls \ {c} \/ calls' = (calls \ {c}) \cup {Ask("resume", t)}
          /\ c.op \in {"start", "fork"} /\ Missed(t) /\ t \in server.unborn /\ UNCHANGED agents
      BY <1>10 DEF Started, Born
    <2>2. server'.alive = server.alive \cup {t} /\ server'.unborn = server.unborn \ {t}
      BY <2>1 DEF TypeOK, Server
    <2>3. /\ \A d \in calls : d.op = "cascade" => d \in calls'
          /\ \A d \in calls' : d.op = "cascade" => d \in calls
      BY <1>a, <2>1
    <2> QED
      BY <2>1, <2>2, <2>3, BornCascade
  <1>11. ASSUME NEW t \in Threads, RegisterDetachedReviewChild(c, t) PROVE CascadeOK'
    <2>1. /\ server' = [server EXCEPT !.alive = @ \cup {t}, !.unborn = @ \ {t},
                                      !.wire = Append(@, Note("thread/started", t))]
          /\ calls' = calls \ {c} /\ Missed(t) /\ c.op = "review" /\ t \in server.unborn
          /\ UNCHANGED agents
      BY <1>11 DEF RegisterDetachedReviewChild, Born
    <2>2. server'.alive = server.alive \cup {t} /\ server'.unborn = server.unborn \ {t}
      BY <2>1 DEF TypeOK, Server
    <2> QED
      BY <2>1, <2>2, BornCascade
  <1> QED
    BY <1>1, <1>2, <1>3, <1>4, <1>5, <1>6, <1>7, <1>8, <1>9, <1>10, <1>11

LEMMA ServerActsCascade ==
    ASSUME TypeOK, CascadeOK, ServerActs
    PROVE  CascadeOK'
  <1>1. ASSUME NEW t \in Threads, NEW informed \in BOOLEAN, ServerSpawns(t, informed) PROVE CascadeOK'
    <2>1. UNCHANGED <<calls, agents>> /\ Missed(t) /\ t \in server.unborn
      BY <1>1 DEF ServerSpawns, Born, app
    <2>2. server'.alive = server.alive \cup {t} /\ server'.unborn = server.unborn \ {t}
      BY <1>1, ServerSpawnsDoes
    <2> QED
      BY <2>1, <2>2, BornCascade
  <1>2. ASSUME NEW t \in Threads, ServerReports(t) PROVE CascadeOK'
    <2>1. server'.alive = server.alive /\ server'.unborn = server.unborn
      BY <1>2, ServerReportsDoes
    <2>2. UNCHANGED <<calls, past, agents>>
      BY <1>2 DEF ServerReports, app
    <2> QED
      BY <2>1, <2>2, CascadesStay
  <1>3. ASSUME NEW t \in Threads, ServerArchives(t) PROVE CascadeOK'
    <2>1. server' = Archived(server, t) /\ UNCHANGED <<calls, agents>> /\ Missed(t)
      BY <1>3 DEF ServerArchives, app
    <2>2. past'.told = past.told /\ past'.asked = past.asked /\ past'.due = past.due
      BY <2>1, MissedType DEF TypeOK
    <2>3. server'.alive \subseteq server.alive /\ server'.unborn = server.unborn
      BY <2>1, ArchivedType DEF TypeOK
    <2> QED
      BY <2>1, <2>2, <2>3, CascadesStay
  <1>4. ASSUME NEW t \in Threads, ServerUnarchives(t) PROVE CascadeOK'
    <2>1. /\ server'.alive = server.alive \cup {t} /\ server'.unborn = server.unborn
          /\ past'.due = past.due \ {t} /\ past'.asked = past.asked /\ past'.told = past.told
      BY <1>4, ServerUnarchivesDoes
    <2>2. UNCHANGED <<calls, agents>>
      BY <1>4 DEF ServerUnarchives, app
    <2> QED
      BY <2>1, <2>2, CascadesStay
  <1> QED
    BY <1>1, <1>2, <1>3, <1>4 DEF ServerActs

LEMMA NotificationsCascade ==
    ASSUME TypeOK, KnownOK, CascadeOK, Notifications
    PROVE  CascadeOK'
  <1>1. PICK note : /\ Handles(note)
                    /\ \/ OnThreadStarted(note) \/ OnThreadArchived(note) \/ OnThreadUnarchived(note)
                       \/ OnCollab(note) \/ OnTurnStarted(note)
    BY HandledIs
  <1>2. note \in Notice /\ NoteKnown(note, Known, server.gone) /\ note.thread \in Threads
    BY <1>1, HandledKnown
  <1>3. server'.alive = server.alive /\ server'.unborn = server.unborn
    BY <1>1, HandlesType DEF TypeOK
  <1>4. CASE OnThreadStarted(note)
    <2>1. /\ UNCHANGED <<calls, past>>
          /\ agents' = agents \/ agents' = agents \cup Spawned({note.thread})
      BY <1>4 DEF OnThreadStarted
    <2>2. Spawned({note.thread}) \subseteq Family /\ Family' = Family
      BY <1>2, <2>1, SpawnedFamily DEF Family
    <2> QED
      BY <1>3, <2>1, <2>2, CascadesStay
  <1>5. CASE OnThreadArchived(note)
    <2> DEFINE set == Descendants(note.thread)
    <2>1. /\ past'.asked = past.asked /\ past'.told = past.told
          /\ past'.due = IF note.thread \in skips THEN past.due ELSE past.due \cup (set \cap server.alive)
          /\ set \subseteq agents
          /\ \/ calls' = calls /\ (note.thread \in skips \/ set = {})
             \/ \E d : /\ calls' = calls \cup {d} /\ d.op = "cascade" /\ d.thread = None
                       /\ ToSet(d.got) = set
      BY <1>1, <1>5, OnThreadArchivedDoes
    <2>2. UNCHANGED agents
      BY <1>5 DEF OnThreadArchived
    <2> HIDE DEF set
    <2>3. CASE calls' = calls /\ (note.thread \in skips \/ set = {})
      <3>1. past'.due = past.due
        BY <2>1, <2>3
      <3> QED
        BY <1>3, <2>1, <2>2, <2>3, <3>1, CascadesStay
    <2>4. CASE \E d : /\ calls' = calls \cup {d} /\ d.op = "cascade" /\ d.thread = None
                      /\ ToSet(d.got) = set
      <3>1. PICK d : /\ calls' = calls \cup {d} /\ d.op = "cascade" /\ d.thread = None
                     /\ ToSet(d.got) = set
        BY <2>4
      <3>2. Family' = Family /\ set \subseteq Family
        BY <2>1 DEF Family, CascadeOK
      <3>3. \A t \in set : Carries(d, t)
        BY <3>1 DEF Carries
      <3>4. past'.due \cap server'.unborn = {}
        <4>1. past'.due \subseteq past.due \cup server.alive
          BY <2>1
        <4>2. server.alive \cap server.unborn = {}
          BY DEF KnownOK, Known
        <4> QED
          BY <1>3, <4>1, <4>2 DEF CascadeOK
      <3>5. \A t \in past'.due \cap server'.alive : \E e \in calls' : Carries(e, t)
        <4>1. past'.due \subseteq past.due \cup set
          BY <2>1
        <4> QED
          BY <1>3, <3>1, <3>3, <4>1 DEF CascadeOK
      <3>6. \A e \in calls' : e.op = "cascade" => ToSet(e.got) \subseteq Family /\ e.thread \in OrNone(Family)
        BY <3>1, <3>2 DEF CascadeOK, OrNone
      <3> QED
        BY <2>1, <2>2, <3>2, <3>4, <3>5, <3>6 DEF CascadeOK
    <2> QED
      BY <2>1, <2>3, <2>4
  <1>6. CASE OnThreadUnarchived(note) \/ OnTurnStarted(note)
    <2>1. UNCHANGED <<calls, past, agents>>
      BY <1>6 DEF OnThreadUnarchived, OnTurnStarted, app
    <2> QED
      BY <1>3, <2>1, CascadesStay
  <1>7. CASE OnCollab(note)
    <2>1. /\ note.others \subseteq Threads /\ past'.asked = past.asked /\ past'.due = past.due
          /\ past'.told = past.told \cup {u \in note.others : u < note.thread}
      BY <1>1, <1>7, OnCollabDoes
    <2>2. UNCHANGED calls /\ agents' = agents \cup note.others /\ note.type = "collab"
      BY <1>7 DEF OnCollab
    <2>3. note.others \subseteq Family'
      <3> SUFFICES ASSUME NEW u \in note.others
                   PROVE  u \in Family'
        OBVIOUS
      <3>1. u \in Threads /\ (Spawner[u] = note.thread \/ u = Spawner[note.thread])
        BY <1>2, <2>1, <2>2 DEF NoteKnown
      <3>2. u = Spawner[note.thread] => u < note.thread
        BY <1>2, <3>1, OursOf, NoneAssumption
      <3>3. Spawner[u] = note.thread => Spawner[u] # None
        BY <1>2, NoneAssumption
      <3> QED
        BY <2>1, <3>1, <3>2, <3>3 DEF Family
    <2> QED
      BY <1>3, <2>1, <2>2, <2>3, CascadesStay
  <1> QED
    BY <1>1, <1>4, <1>5, <1>6, <1>7

\* Every step keeps that.
LEMMA StepCascade ==
    ASSUME TypeOK, KnownOK, CascadeOK, [Next]_vars
    PROVE  CascadeOK'
  <1>1. CASE UNCHANGED vars
    <2>1. UNCHANGED <<server, past, agents, calls>>
      BY <1>1 DEF vars, app
    <2> QED
      BY <2>1, CascadesQuiet
  <1>2. CASE Render
    <2>1. UNCHANGED <<server, past, agents, calls>>
      BY <1>2 DEF Render, app
    <2> QED
      BY <2>1, CascadesQuiet
  <1> QED
    BY <1>1, <1>2, UserCascade, AnswersCascade, ServerActsCascade, NotificationsCascade DEF Next

\* The inductive invariant of the cascade.
CascadeInv == TypeOK /\ KnownOK /\ CascadeOK

\* The cascade of handleThreadArchived asks to archive agents and told-of threads only, and
\* when all is quiet none it found below the archived thread is left alive.
THEOREM CascadeStaysInFamily == Spec => []CascadeReachesFamily
  <1>1. Init => CascadeInv
    BY InitTypes, InitKnown, InitCascade DEF CascadeInv
  <1>2. CascadeInv /\ [Next]_vars => CascadeInv'
    BY TypesStep, StepKnown, StepCascade DEF CascadeInv
  <1>3. CascadeInv => CascadeReachesFamily
    <2> SUFFICES ASSUME CascadeInv
                 PROVE  CascadeReachesFamily
      OBVIOUS
    <2>1. \A t \in past.asked : Spawner[t] # None \/ t \in past.told
      BY DEF CascadeInv, CascadeOK, Family
    <2>2. Quiet => past.due \cap server.alive = {}
      BY DEF Quiet, CascadeInv, CascadeOK
    <2> QED
      BY <2>1, <2>2 DEF CascadeReachesFamily
  <1> QED
    BY <1>1, <1>2, <1>3, PTL DEF Spec

----------------------------------------------------------------------------
(* The tree.  An agent is tied once its parent is its spawner; it stays     *)
(* tied until it is archived, unless a report crossed its own link or the   *)
(* server refused to archive what the user removed.                         *)

\* Every parent is the spawner or the reviewed thread.
Links(s) == \A t \in Threads : s.parent[t] # None => s.parent[t] \in {Spawner[t], ReviewOf[t]}
Removing == {c.thread : c \in {d \in calls : d.op = "archive"}}
Tied(t) == past.crossed \/ t \in server.gone \cup Removing \/ store.parent[t] = Spawner[t]
Hung(t) == Spawner[t] # None => t \in past.orphans \/ Tied(t)

\* The spawner's item that mentions t is on the wire before place i.
Announced(wire, i, t) ==
  \E j \in DOMAIN wire : j < i /\ wire[j].type = "collab" /\ wire[j].thread = Spawner[t]
                         /\ t \in wire[j].others

\* Without a crossed report all parents are links of the server, and every agent in sight
\* is tied to its spawner, or the item that ties it is ahead of its turn on the wire.
TreeOK ==
  /\ ~past.crossed => Links(store) /\ Links(seen)
  /\ \A t \in Threads : seen.parent[t] # None => Hung(t)
  /\ \A t \in Ids(store) \cup Ids(seen) : Hung(t)
  /\ \A c \in calls : c.op \in {"list", "older"} => \A t \in IdsOf(c.saw.rows) : Hung(t)
  /\ \A i \in DOMAIN server.wire : server.wire[i].type = "turn/started" =>
       Hung(server.wire[i].thread) \/ Announced(server.wire, i, server.wire[i].thread)

\* Links lead to older threads.
LEMMA LinksAreOlder ==
    ASSUME NEW s \in Store, Links(s)
    PROVE  /\ \A t \in Threads : s.parent[t] # None => s.parent[t] \in Threads /\ s.parent[t] < t
           /\ \A t \in Threads : \A u \in Ancestors(s, t) : u \in Threads /\ u < t
           /\ \A t \in Threads : Spawner[t] # None /\ s.parent[t] # None => s.parent[t] = Spawner[t]
  <1>1. s.parent \in [Threads -> OrNone(Threads)]
    BY StoreFields
  <1>2. ASSUME NEW t \in Threads, s.parent[t] # None
        PROVE  s.parent[t] \in Threads /\ s.parent[t] < t
    BY <1>1, <1>2, OursOf DEF Links, OrNone
  <1>3. ASSUME NEW t \in Threads
        PROVE  \A u \in Ancestors(s, t) : u \in Threads /\ u < t
    <2> DEFINE parent == s.parent
    <2>1. parent \in [Threads -> OrNone(Threads)] /\ \A u \in Threads : parent[u] # None => parent[u] < u
      BY <1>1, <1>2
    <2> HIDE DEF parent
    <2>2. \A u \in AncestorsIn(parent, t) : u \in Threads /\ u < t
      BY <2>1, AncestorsAreOlder
    <2> QED
      BY <2>2 DEF Ancestors, parent
  <1>4. \A t \in Threads : Spawner[t] # None /\ s.parent[t] # None => s.parent[t] = Spawner[t]
    BY OursOf DEF Links
  <1> QED
    BY <1>2, <1>3, <1>4

\* The parents of a family without a crossed report form a tree.
LEMMA LinksAreATree ==
    ASSUME NEW s \in Store, Links(s), NEW t \in Threads, s.parent[t] # None
    PROVE  t # s.parent[t] /\ t \notin Ancestors(s, s.parent[t])
  <1>1. s.parent[t] \in Threads /\ s.parent[t] < t
    BY LinksAreOlder
  <1>2. \A u \in Ancestors(s, s.parent[t]) : u \in Threads /\ u < s.parent[t]
    BY <1>1, LinksAreOlder
  <1>3. Threads \subseteq Nat
    BY ThreadsAreRanks
  <1> QED
    BY <1>1, <1>2, <1>3

\* An agent that may not be hung under its spawner is hung already.
LEMMA MayHangOrHung ==
    ASSUME TypeOK, TreeOK, NEW t \in Threads, Spawner[t] # None
    PROVE  MayHang(Spawner[t], t) \/ Hung(t)
  <1> SUFFICES ASSUME ~MayHang(Spawner[t], t), ~past.crossed
               PROVE  Hung(t)
    BY DEF Hung, Tied
  <1>1. Links(seen) /\ seen \in Store
    BY DEF TreeOK, TypeOK
  <1>2. Spawner[t] \in Threads /\ Spawner[t] < t /\ Threads \subseteq Nat
    BY OursOf, ThreadsAreRanks
  <1>3. \A u \in Ancestors(seen, Spawner[t]) : u \in Threads /\ u < Spawner[t]
    BY <1>1, <1>2, LinksAreOlder
  <1>4. t # Spawner[t] /\ t \notin Ancestors(seen, Spawner[t])
    <2> DEFINE p == Spawner[t]
    <2>1. t \in Nat /\ p \in Nat /\ p < t
      BY <1>2
    <2>2. t \in Ancestors(seen, p) => t < p
      BY <1>3
    <2> HIDE DEF p
    <2>3. t # p /\ t \notin Ancestors(seen, p)
      BY <2>1, <2>2
    <2> QED
      BY <2>3 DEF p
  <1>5. seen.parent[t] # None
    BY <1>4 DEF MayHang, CreatesCycle
  <1> QED
    BY <1>5 DEF TreeOK

\* What the parents may become: the spawner, a reviewed thread, or none when the
\* thread is on its way out.
ParentsGo ==
  ~past'.crossed => \A t \in Threads :
     \/ store'.parent[t] = store.parent[t]
     \/ store'.parent[t] = Spawner[t]
     \/ Spawner[t] = None /\ store'.parent[t] = ReviewOf[t]
     \/ store'.parent[t] = None /\ (t \in server'.gone \/ \E c \in calls' : c.op = "archive" /\ c.thread = t)

\* Nothing that ties an agent is lost.
TiesGo ==
  /\ past.crossed => past'.crossed
  /\ past.orphans \subseteq past'.orphans
  /\ server.gone \subseteq server'.gone
  /\ \A c \in calls : c.op = "archive" =>
       \/ c \in calls' \/ c.thread \in server'.gone
       \/ Spawner[c.thread] # None => c.thread \in past'.orphans
  /\ ParentsGo

LEMMA TiesStay ==
    ASSUME TiesGo, NEW t \in Threads, Hung(t)
    PROVE  Hung(t)'
  <1>1. ASSUME Spawner[t] # None, Tied(t), ~past'.crossed
        PROVE  t \in past'.orphans \/ Tied(t)'
    <2>1. CASE t \in server.gone
      BY <2>1 DEF TiesGo, Tied
    <2>2. CASE t \in Removing
      <3>1. PICK c \in calls : c.op = "archive" /\ c.thread = t
        BY <2>2 DEF Removing
      <3> QED
        BY <1>1, <3>1 DEF TiesGo, Tied, Removing
    <2>3. CASE store.parent[t] = Spawner[t]
      <3>1. \/ store'.parent[t] = Spawner[t]
            \/ t \in server'.gone \/ \E c \in calls' : c.op = "archive" /\ c.thread = t
        BY <1>1, <2>3 DEF TiesGo, ParentsGo
      <3> QED
        BY <3>1 DEF Tied, Removing
    <2> QED
      BY <1>1, <2>1, <2>2, <2>3 DEF Tied, TiesGo
  <1>2. past'.crossed => Tied(t)'
    BY DEF Tied
  <1> QED
    BY <1>1, <1>2 DEF Hung, TiesGo

LEMMA LinksGo ==
    ASSUME TypeOK, TreeOK, TiesGo, ~past'.crossed
    PROVE  Links(store')
  <1>1. Links(store)
    BY DEF TreeOK, TiesGo
  <1> QED
    BY <1>1 DEF Links, TiesGo, ParentsGo

\* A step of the app, whatever the server wrote.
LEMMA TreeStep ==
    ASSUME TypeOK, TypeOK', TreeOK, TiesGo, seen' = seen \/ seen' = store,
           \A t \in Ids(store') : t \in Ids(store) \/ Hung(t) \/ Hung(t)',
           \A c \in calls' : c \in calls \/ (c.op \in {"list", "older"} =>
                                              \A t \in IdsOf(c.saw.rows) : Hung(t)),
           \A i \in DOMAIN server'.wire : \A t \in Threads :
             server'.wire[i].type = "turn/started" /\ t = server'.wire[i].thread =>
               Hung(t) \/ Hung(t)' \/ Announced(server'.wire, i, t)
    PROVE  TreeOK'
  <1>1. ~past'.crossed => Links(store') /\ Links(seen')
    <2> SUFFICES ASSUME ~past'.crossed
                 PROVE  Links(store') /\ Links(seen')
      OBVIOUS
    <2>1. Links(store) /\ Links(seen)
      BY DEF TreeOK, TiesGo
    <2> QED
      BY <2>1, LinksGo
  <1>2. ASSUME NEW t \in Threads, store.parent[t] # None
        PROVE  Hung(t)
    <2>0. CASE Spawner[t] = None
      BY <2>0 DEF Hung
    <2>1. CASE past.crossed
      BY <2>1 DEF Hung, Tied
    <2>2. CASE ~past.crossed /\ Spawner[t] # None
      <3>1. store.parent[t] = Spawner[t]
        BY <1>2, <2>2, LinksAreOlder DEF TypeOK, TreeOK
      <3> QED
        BY <3>1 DEF Hung, Tied
    <2> QED
      BY <2>0, <2>1, <2>2
  <1>3. \A t \in Threads : seen'.parent[t] # None => Hung(t)'
    BY <1>2, TiesStay DEF TreeOK
  <1>4. \A t \in Threads : Hung(t) => Hung(t)'
    BY TiesStay
  <1>5. Ids(store') \subseteq Threads /\ Ids(seen') \subseteq Threads
    BY StoreFields DEF TypeOK
  <1>6. \A t \in Ids(store') \cup Ids(seen') : Hung(t)'
    BY <1>4, <1>5 DEF TreeOK
  <1>7. \A c \in calls' : c.op \in {"list", "older"} => \A t \in IdsOf(c.saw.rows) : Hung(t)'
    <2> SUFFICES ASSUME NEW c \in calls', c.op \in {"list", "older"}, NEW t \in IdsOf(c.saw.rows)
                 PROVE  Hung(t)'
      OBVIOUS
    <2>1. c.saw.rows \in Seq(Line)
      BY DEF TypeOK, CallType, Capture
    <2>2. t \in Threads
      BY <2>1, IdsOfSet
    <2>3. Hung(t)
      BY DEF TreeOK
    <2> QED
      BY <1>4, <2>2, <2>3
  <1>8. server'.wire \in Seq(Notice)
    BY DEF TypeOK, Server
  <1>9. \A i \in DOMAIN server'.wire : \A t :
          server'.wire[i].type = "turn/started" /\ t = server'.wire[i].thread =>
            Hung(t)' \/ Announced(server'.wire, i, t)
    <2> SUFFICES ASSUME NEW i \in DOMAIN server'.wire, NEW t, server'.wire[i].type = "turn/started",
                        t = server'.wire[i].thread
                 PROVE  Hung(t)' \/ Announced(server'.wire, i, t)
      OBVIOUS
    <2>1. server'.wire[i] \in Notice
      BY <1>8
    <2>2. t \in Threads
      BY <2>1 DEF Notice
    <2> QED
      BY <1>4, <2>2
  <1>10. \A t : Hung(t)' <=> (Spawner[t] # None => t \in past'.orphans
            \/ past'.crossed \/ t \in server'.gone \cup Removing' \/ store'.parent[t] = Spawner[t])
    BY DEF Hung, Tied
  <1>11. \A i \in DOMAIN server'.wire : server'.wire[i].type = "turn/started" =>
           \/ (Spawner[server'.wire[i].thread] # None => server'.wire[i].thread \in past'.orphans
               \/ past'.crossed \/ server'.wire[i].thread \in server'.gone \cup Removing'
               \/ store'.parent[server'.wire[i].thread] = Spawner[server'.wire[i].thread])
           \/ Announced(server'.wire, i, server'.wire[i].thread)
    BY <1>9, <1>10
  <1> QED
    BY <1>1, <1>3, <1>6, <1>7, <1>11 DEF TreeOK, Hung, Tied

\* The turns on the wire, when the server writes w or nothing.
LEMMA TurnsWrite ==
    ASSUME TypeOK, TreeOK, NEW w \in Seq(Notice), server'.wire = server.wire \o w,
           \A i \in DOMAIN w : w[i].type = "turn/started" => Announced(w, i, w[i].thread)
    PROVE  \A i \in DOMAIN server'.wire : \A t \in Threads :
             server'.wire[i].type = "turn/started" /\ t = server'.wire[i].thread =>
               Hung(t) \/ Announced(server'.wire, i, t)
  <1> DEFINE s == server.wire
             r == server'.wire
  <1>1. s \in Seq(Notice)
    BY ServerFields DEF TypeOK
  <1>2. /\ s \o w \in Seq(Notice) /\ Len(s \o w) = Len(s) + Len(w)
        /\ \A i \in 1..Len(s) : (s \o w)[i] = s[i]
        /\ \A i \in 1..Len(w) : (s \o w)[Len(s) + i] = w[i]
    <2> HIDE DEF s
    <2> QED
      BY <1>1, ConcatAt
  <1>3. /\ r \in Seq(Notice) /\ Len(r) = Len(s) + Len(w)
        /\ \A i \in 1..Len(s) : r[i] = s[i]
        /\ \A i \in 1..Len(w) : r[Len(s) + i] = w[i]
    BY <1>2
  <1>4. Len(s) \in Nat /\ Len(w) \in Nat /\ DOMAIN s = 1..Len(s) /\ DOMAIN w = 1..Len(w)
        /\ DOMAIN r = 1..(Len(s) + Len(w))
    BY <1>1, <1>3
  <1> SUFFICES ASSUME NEW i \in DOMAIN r, NEW t \in Threads,
                      r[i].type = "turn/started", t = r[i].thread
               PROVE  Hung(t) \/ Announced(r, i, t)
    OBVIOUS
  <1>5. CASE i \in 1..Len(s)
    <2>1. r[i] = s[i] /\ i \in DOMAIN s
      BY <1>3, <1>4, <1>5
    <2>2. Hung(t) \/ Announced(s, i, t)
      BY <2>1 DEF TreeOK
    <2>3. ASSUME Announced(s, i, t)
          PROVE  Announced(r, i, t)
      <3> HIDE DEF s, r
      <3>1. PICK j \in DOMAIN s : j < i /\ s[j].type = "collab" /\ s[j].thread = Spawner[t]
                                  /\ t \in s[j].others
        BY <2>3 DEF Announced
      <3>2. j \in DOMAIN r /\ r[j] = s[j]
        BY <1>3, <1>4
      <3> QED
        BY <3>1, <3>2 DEF Announced
    <2> QED
      BY <2>2, <2>3
  <1>6. CASE i \notin 1..Len(s)
    <2>1. i - Len(s) \in 1..Len(w) /\ i = Len(s) + (i - Len(s))
      BY <1>4, <1>6
    <2>2. r[i] = w[i - Len(s)] /\ i - Len(s) \in DOMAIN w
      BY <1>3, <1>4, <2>1
    <2>3. Announced(w, i - Len(s), t)
      BY <2>2
    <2>4. PICK j \in DOMAIN w : j < i - Len(s) /\ w[j].type = "collab" /\ w[j].thread = Spawner[t]
                                /\ t \in w[j].others
      BY <2>3 DEF Announced
    <2>5. Len(s) + j \in DOMAIN r /\ Len(s) + j < i /\ r[Len(s) + j] = w[j]
      <3> HIDE DEF s, r
      <3>1. j \in 1..Len(w)
        BY <1>4
      <3>2. Len(s) + j \in DOMAIN r /\ Len(s) + j < i
        BY <1>4, <2>1, <2>4, <3>1
      <3> QED
        BY <1>3, <3>1, <3>2
    <2>6. Announced(r, i, t)
      BY <2>4, <2>5 DEF Announced
    <2> QED
      BY <2>6
  <1> QED
    BY <1>5, <1>6

\* The turns on the wire, when its head is handled.
LEMMA TurnsHandle ==
    ASSUME TypeOK, TreeOK, NEW note, Handles(note),
           note.type = "collab" => \A t \in note.others : Spawner[t] = note.thread => Hung(t)'
    PROVE  \A i \in DOMAIN server'.wire : \A t \in Threads :
             server'.wire[i].type = "turn/started" /\ t = server'.wire[i].thread =>
               Hung(t) \/ Hung(t)' \/ Announced(server'.wire, i, t)
  <1> DEFINE s == server.wire
             r == server'.wire
  <1>1. /\ note \in Notice /\ s \in Seq(Notice) /\ note = s[1] /\ Len(s) >= 1
        /\ Len(r) = Len(s) - 1 /\ \A i \in 1..Len(r) : r[i] = s[i + 1]
        /\ server' \in Server
    BY HandlesType DEF TypeOK
  <1>2. r \in Seq(Notice) /\ DOMAIN r = 1..Len(r) /\ DOMAIN s = 1..Len(s) /\ Len(s) \in Nat /\ Len(r) \in Nat
    BY <1>1 DEF Server
  <1> SUFFICES ASSUME NEW i \in DOMAIN r, NEW t \in Threads,
                      r[i].type = "turn/started", t = r[i].thread
               PROVE  Hung(t) \/ Hung(t)' \/ Announced(r, i, t)
    OBVIOUS
  <1>3. i \in 1..Len(r) /\ i + 1 \in DOMAIN s /\ r[i] = s[i + 1]
    BY <1>1, <1>2
  <1>4. Hung(t) \/ Announced(s, i + 1, t)
    BY <1>3 DEF TreeOK
  <1>5. ASSUME Announced(s, i + 1, t)
        PROVE  Hung(t)' \/ Announced(r, i, t)
    <2>1. PICK j \in DOMAIN s : j < i + 1 /\ s[j].type = "collab" /\ s[j].thread = Spawner[t]
                                /\ t \in s[j].others
      BY <1>5 DEF Announced
    <2>2. CASE j = 1
      BY <1>1, <2>1, <2>2
    <2>3. CASE j # 1
      <3>1. j - 1 \in 1..Len(r) /\ (j - 1) + 1 = j /\ j - 1 < i
        <4>1. j \in 1..Len(s) /\ Len(r) = Len(s) - 1 /\ Len(s) \in Nat /\ j < i + 1 /\ j # 1 /\ i \in Nat
          BY <1>1, <1>2, <1>3, <2>1, <2>3
        <4> HIDE DEF r, s
        <4> QED
          BY <4>1
      <3>2. r[j - 1] = s[j] /\ j - 1 \in DOMAIN r
        BY <1>1, <1>2, <3>1
      <3> QED
        BY <2>1, <3>1, <3>2 DEF Announced
    <2> QED
      BY <2>2, <2>3
  <1> QED
    BY <1>4, <1>5

\* A step after which the server's wire is as it was.
LEMMA TreeQuiet ==
    ASSUME TypeOK, TypeOK', TreeOK, UNCHANGED server, seen' = seen \/ seen' = store,
           past'.crossed = past.crossed, past.orphans \subseteq past'.orphans,
           \A c \in calls : c.op = "archive" =>
             \/ c \in calls' \/ c.thread \in server.gone
             \/ Spawner[c.thread] # None => c.thread \in past'.orphans,
           ParentsGo,
           \A t \in Ids(store') : t \in Ids(store) \/ Hung(t) \/ Hung(t)',
           \A c \in calls' : c \in calls \/ (c.op \in {"list", "older"} =>
                                              \A t \in IdsOf(c.saw.rows) : Hung(t))
    PROVE  TreeOK'
  <1>1. TiesGo
    BY DEF TiesGo
  <1>2. server.wire \in Seq(Notice)
    BY ServerFields DEF TypeOK
  <1> DEFINE w == <<>>
  <1>3. w \in Seq(Notice) /\ server'.wire = server.wire \o w /\ DOMAIN w = {}
    BY <1>2
  <1> HIDE DEF w
  <1>4. \A i \in DOMAIN server'.wire : \A t \in Threads :
             server'.wire[i].type = "turn/started" /\ t = server'.wire[i].thread =>
               Hung(t) \/ Announced(server'.wire, i, t)
    BY <1>3, TurnsWrite
  <1> QED
    BY <1>1, <1>4, TreeStep

\* A step of the app that changes neither rows nor parents.
LEMMA AsksTree ==
    ASSUME TypeOK, TreeOK, Shows({}), store'.parent = store.parent, UNCHANGED <<server, seen>>,
           past'.crossed = past.crossed, past.orphans \subseteq past'.orphans,
           \A c \in calls : c.op = "archive" =>
             \/ c \in calls' \/ c.thread \in server.gone
             \/ Spawner[c.thread] # None => c.thread \in past'.orphans,
           \A c \in calls' : c \in calls \/ (c.op \in {"list", "older"} =>
                                              \A t \in IdsOf(c.saw.rows) : Hung(t))
    PROVE  TreeOK'
  <1>1. TypeOK' /\ Ids(store') \subseteq Ids(store)
    BY DEF Shows
  <1>2. ParentsGo
    BY DEF ParentsGo
  <1> QED
    BY <1>1, <1>2, TreeQuiet

LEMMA CapturedHung ==
    ASSUME TypeOK, TreeOK
    PROVE  \A t \in IdsOf(Captured.rows) : Hung(t)
  BY CapturedType DEF TypeOK, TreeOK

LEMMA UserTree ==
    ASSUME TypeOK, TreeOK, User
    PROVE  TreeOK'
  <1>a. \A op, t : Ask(op, t).op = op /\ Ask(op, t).thread = t
    BY DEF Ask
  <1>1. ASSUME NEW preserve \in BOOLEAN, ListThreads(preserve) PROVE TreeOK'
    <2> DEFINE c == [op |-> "list", thread |-> None, preserve |-> preserve, cursor |-> None,
                     pages |-> 0, got |-> <<>>, resume |-> None, saw |-> Captured]
    <2>1. calls' = calls \cup {c} /\ UNCHANGED <<server, seen>>
      BY <1>1 DEF ListThreads
    <2>2. \A t \in IdsOf(c.saw.rows) : Hung(t)
      BY CapturedHung
    <2> HIDE DEF c
    <2>3. past'.crossed = past.crossed /\ past'.orphans = past.orphans
      BY <1>1 DEF ListThreads, TypeOK, Past
    <2>4. Shows({}) /\ store'.parent = store.parent
      BY <1>1, ListThreadsDoes
    <2> QED
      BY <2>1, <2>2, <2>3, <2>4, AsksTree
  <1>2. CASE LoadOlder
    <2> DEFINE c == [op |-> "older", thread |-> None, preserve |-> FALSE,
                     cursor |-> IF seen.cursor[Workspace] = PageStart THEN None ELSE seen.cursor[Workspace],
                     pages |-> 0, got |-> <<>>, resume |-> None, saw |-> Captured]
    <2>1. calls' = calls \cup {c} /\ UNCHANGED <<server, seen, past>>
      BY <1>2 DEF LoadOlder
    <2>2. \A t \in IdsOf(c.saw.rows) : Hung(t)
      BY CapturedHung
    <2> HIDE DEF c
    <2>4. Shows({}) /\ store'.parent = store.parent
      BY <1>2, LoadOlderDoes
    <2> QED
      BY <2>1, <2>2, <2>4, AsksTree
  <1>3. CASE StartThread
    <2>1. UNCHANGED <<server, seen, past>> /\ calls' = calls \cup {Ask("start", None)}
      BY <1>3 DEF StartThread
    <2> QED
      BY <1>3, <1>a, <2>1, StartThreadDoes, AsksTree
  <1>4. CASE StartReview
    <2>1. UNCHANGED <<server, seen, past>> /\ calls' = calls \cup {Ask("review", seen.active[Workspace])}
      BY <1>4 DEF StartReview
    <2> QED
      BY <1>4, <1>a, <2>1, StartReviewDoes, AsksTree
  <1>5. CASE ResetWorkspaceThreads
    <2>1. UNCHANGED <<server, seen, past, calls>>
      BY <1>5 DEF ResetWorkspaceThreads
    <2> QED
      BY <1>5, <2>1, ResetDoes, AsksTree
  <1>6. ASSUME NEW t \in Threads, ForkThread(t) PROVE TreeOK'
    <2>1. UNCHANGED <<server, seen, past>> /\ calls' = calls \cup {Ask("fork", t)}
      BY <1>6 DEF ForkThread
    <2> QED
      BY <1>6, <1>a, <2>1, ForkThreadDoes, AsksTree
  <1>7. ASSUME NEW t \in Threads, SelectThread(t) PROVE TreeOK'
    <2>1. /\ UNCHANGED <<server, seen, past>>
          /\ calls' = calls \/ calls' = calls \cup {Ask("resume", t)}
      BY <1>7 DEF SelectThread
    <2> QED
      BY <1>7, <1>a, <2>1, SelectThreadDoes, AsksTree
  <1>8. ASSUME NEW t \in Threads, RemoveThreadRow(t) PROVE TreeOK'
    <2>1. UNCHANGED <<server, seen, past>> /\ calls' = calls \cup {Ask("archive", t)}
      BY <1>8 DEF RemoveThreadRow
    <2>2. Shows({}) /\ store'.parent = [store.parent EXCEPT ![t] = None]
      BY <1>8, RemoveThreadRowDoes
    <2>3. ParentsGo
      <3>1. store.parent \in [Threads -> OrNone(Threads)]
        BY StoreFields DEF TypeOK
      <3>2. \A u \in Threads : u # t => store'.parent[u] = store.parent[u]
        BY <2>2, <3>1
      <3>3. store'.parent[t] = None
        BY <2>2, <3>1
      <3>4. \E c \in calls' : c.op = "archive" /\ c.thread = t
        BY <1>a, <2>1
      <3> QED
        BY <3>2, <3>3, <3>4 DEF ParentsGo
    <2>4. TypeOK' /\ Ids(store') \subseteq Ids(store)
      BY <2>2 DEF Shows
    <2> QED
      BY <1>a, <2>1, <2>3, <2>4, TreeQuiet
  <1> QED
    BY <1>1, <1>2, <1>3, <1>4, <1>5, <1>6, <1>7, <1>8 DEF User

LEMMA RenderTree ==
    ASSUME TypeOK, TreeOK, Render
    PROVE  TreeOK'
  <1>1. /\ Shows({})
        /\ \A t \in Threads : \/ store'.parent[t] = store.parent[t]
                              \/ store.parent[t] = None /\ store'.parent[t] = ReviewOf[t]
    BY RenderDoes
  <1>2. UNCHANGED <<server, past, calls>> /\ seen' = store
    BY DEF Render
  <1>3. ParentsGo
    <2> SUFFICES ASSUME NEW t \in Threads
                 PROVE  \/ store'.parent[t] = store.parent[t]
                        \/ store'.parent[t] = Spawner[t]
                        \/ Spawner[t] = None /\ store'.parent[t] = ReviewOf[t]
      BY DEF ParentsGo
    <2>1. CASE Spawner[t] = None
      BY <1>1, <2>1
    <2>2. CASE Spawner[t] # None
      <3>1. ReviewOf[t] = None
        BY <2>2, OursOf
      <3> QED
        BY <1>1, <3>1
    <2> QED
      BY <2>1, <2>2
  <1>4. TypeOK' /\ Ids(store') \subseteq Ids(store)
    BY <1>1 DEF Shows
  <1> QED
    BY <1>2, <1>3, <1>4, TreeQuiet

\* Agents that are linked are tied.
LEMMA SpawnersTie ==
    ASSUME TypeOK, TreeOK, NEW set, store'.parent = Spawners(store, set)
    PROVE  /\ ParentsGo
           /\ TiesGo => \A t \in Threads \cap set : Hung(t)'
  <1>1. \A t \in Threads : store'.parent[t] = IF t \in set /\ Spawner[t] # None /\ MayHang(Spawner[t], t)
                                              THEN Spawner[t] ELSE store.parent[t]
    BY DEF Spawners
  <1>2. ParentsGo
    BY <1>1 DEF ParentsGo
  <1>3. ASSUME TiesGo, NEW t \in Threads \cap set, Spawner[t] # None
        PROVE  Hung(t)'
    <2>1. CASE MayHang(Spawner[t], t)
      <3>1. store'.parent[t] = Spawner[t]
        BY <1>1, <1>3, <2>1
      <3> QED
        BY <3>1 DEF Hung, Tied
    <2>2. CASE Hung(t)
      BY <1>3, <2>2, TiesStay
    <2> QED
      BY <1>3, <2>1, <2>2, MayHangOrHung
  <1> QED
    BY <1>2, <1>3 DEF Hung

LEMMA ListPageTree ==
    ASSUME TypeOK, TreeOK, NEW c \in calls, ListPage(c)
    PROVE  TreeOK'
  <1> DEFINE got == Matching(c, Page(c.cursor))
  <1>1. /\ Shows(ToSet(got)) /\ UNCHANGED <<seen, server, past>> /\ got \in Seq(Threads)
        /\ \/ /\ store'.parent = store.parent /\ Shows({})
              /\ \E d : calls' = (calls \ {c}) \cup {d} /\ d.op = "list" /\ d.saw = c.saw
           \/ /\ store'.parent = Spawners(store, ToSet(got)) /\ calls' = calls \ {c}
    BY ListPageDoes
  <1> HIDE DEF got
  <1>2. c.op = "list"
    BY DEF ListPage
  <1>3. \A t \in IdsOf(c.saw.rows) : Hung(t)
    BY <1>2 DEF TreeOK
  <1>4. CASE /\ store'.parent = store.parent /\ Shows({})
             /\ \E d : calls' = (calls \ {c}) \cup {d} /\ d.op = "list" /\ d.saw = c.saw
    <2>1. /\ \A d \in calls : d.op = "archive" => d \in calls'
          /\ \A d \in calls' : d \in calls \/ \A t \in IdsOf(d.saw.rows) : Hung(t)
      BY <1>2, <1>3, <1>4
    <2> QED
      BY <1>1, <1>4, <2>1, AsksTree
  <1>5. CASE store'.parent = Spawners(store, ToSet(got)) /\ calls' = calls \ {c}
    <2>1. /\ ParentsGo
          /\ TiesGo => \A t \in Threads \cap ToSet(got) : Hung(t)'
      BY <1>5, SpawnersTie
    <2>2. TiesGo
      BY <1>1, <1>2, <1>5, <2>1 DEF TiesGo
    <2>3. ToSet(got) \subseteq Threads
      BY <1>1, SeqIn
    <2>4. TypeOK' /\ \A t \in Ids(store') : t \in Ids(store) \/ Hung(t)'
      BY <1>1, <2>1, <2>2, <2>3 DEF Shows
    <2>5. \A d \in calls : d.op = "archive" => d \in calls'
      BY <1>2, <1>5
    <2> QED
      BY <1>1, <1>5, <2>1, <2>4, <2>5, TreeQuiet
  <1> QED
    BY <1>1, <1>4, <1>5

LEMMA OlderPageTree ==
    ASSUME TypeOK, TreeOK, NEW c \in calls, OlderPage(c)
    PROVE  TreeOK'
  <1> DEFINE got == Matching(c, Page(c.cursor))
             new == ToSet(got) \ IdsOf(c.saw.rows)
  <1>1. /\ Shows(ToSet(got) \cup IdsOf(c.saw.rows)) /\ UNCHANGED <<seen, app, server, plan>> /\ Losing
        /\ got \in Seq(Threads) /\ c.op = "older"
        /\ \/ /\ store'.parent = store.parent /\ Shows({})
              /\ \E d : calls' = (calls \ {c}) \cup {d} /\ d.op = "older" /\ d.saw = c.saw
           \/ store'.parent = store.parent /\ calls' = calls \ {c} /\ Shows({})
           \/ /\ store'.parent = Spawners(store, new) /\ calls' = calls \ {c}
              /\ Ids(store') \subseteq IdsOf(c.saw.rows) \cup ToSet(got)
    BY OlderPageDoes
  <1>a. ToSet(got) \subseteq Threads
    <2> HIDE DEF got
    <2> QED
      BY <1>1, SeqIn
  <1>3. \A t \in IdsOf(c.saw.rows) : Hung(t)
    BY <1>1 DEF TreeOK
  <1>b. ToSet(got) \subseteq IdsOf(c.saw.rows) \cup (Threads \cap new)
    BY <1>a
  <1> HIDE DEF got, new
  <1>4. CASE /\ store'.parent = store.parent /\ Shows({})
             /\ \E d : calls' = (calls \ {c}) \cup {d} /\ d.op = "older" /\ d.saw = c.saw
    <2>1. /\ \A d \in calls : d.op = "archive" => d \in calls'
          /\ \A d \in calls' : d \in calls \/ \A t \in IdsOf(d.saw.rows) : Hung(t)
      BY <1>1, <1>3, <1>4
    <2> QED
      BY <1>1, <1>4, <2>1, AsksTree DEF Losing
  <1>5. CASE store'.parent = store.parent /\ calls' = calls \ {c} /\ Shows({})
    BY <1>1, <1>5, AsksTree DEF Losing
  <1>6. CASE /\ store'.parent = Spawners(store, new) /\ calls' = calls \ {c}
             /\ Ids(store') \subseteq IdsOf(c.saw.rows) \cup ToSet(got)
    <2>1. /\ ParentsGo
          /\ TiesGo => \A t \in Threads \cap new : Hung(t)'
      BY <1>6, SpawnersTie
    <2>2. TiesGo
      BY <1>1, <1>6, <2>1 DEF TiesGo, Losing
    <2>4. TypeOK' /\ \A t \in Ids(store') : Hung(t) \/ Hung(t)'
      BY <1>1, <1>3, <1>6, <1>b, <2>1, <2>2 DEF Shows
    <2>5. \A d \in calls : d.op = "archive" => d \in calls'
      BY <1>1, <1>6
    <2> QED
      BY <1>1, <1>6, <2>1, <2>4, <2>5, TreeQuiet DEF Losing
  <1> QED
    BY <1>1, <1>4, <1>5, <1>6

\* The server writes one note, which is no turn.
LEMMA TreeAppend ==
    ASSUME TypeOK, TypeOK', TreeOK, NEW n \in Notice, n.type # "turn/started",
           server'.wire = Append(server.wire, n), server.gone \subseteq server'.gone,
           UNCHANGED seen, past'.crossed = past.crossed, past'.orphans = past.orphans,
           \A c \in calls : c.op = "archive" => c \in calls' \/ c.thread \in server'.gone,
           ParentsGo,
           \A t \in Ids(store') : t \in Ids(store) \/ Hung(t),
           \A c \in calls' : c \in calls \/ c.op \notin {"list", "older"}
    PROVE  TreeOK'
  <1>1. TiesGo
    BY DEF TiesGo
  <1>2. server.wire \in Seq(Notice)
    BY ServerFields DEF TypeOK
  <1> DEFINE w == <<n>>
  <1>3. w \in Seq(Notice) /\ server'.wire = server.wire \o w /\ DOMAIN w = {1} /\ w[1] = n
    BY <1>2
  <1> HIDE DEF w
  <1>4. \A i \in DOMAIN server'.wire : \A t \in Threads :
             server'.wire[i].type = "turn/started" /\ t = server'.wire[i].thread =>
               Hung(t) \/ Announced(server'.wire, i, t)
    BY <1>3, TurnsWrite
  <1> QED
    BY <1>1, <1>4, TreeStep

\* A thread that is nobody's agent comes.
LEMMA BornTree ==
    ASSUME TypeOK, TypeOK', TreeOK, NEW t \in Threads, Missed(t), Spawner[t] = None,
           server' = [server EXCEPT !.alive = @ \cup {t}, !.unborn = @ \ {t},
                                    !.wire = Append(@, Note("thread/started", t))],
           UNCHANGED seen, Ids(store') \subseteq Ids(store) \cup {t}, ParentsGo,
           \A c \in calls : c.op = "archive" => c \in calls',
           \A c \in calls' : c \in calls \/ c.op \notin {"list", "older"}
    PROVE  TreeOK'
  <1> DEFINE n == Note("thread/started", t)
  <1>1. server \in Server /\ past \in Past /\ n \in Notice /\ n.type = "thread/started"
    BY NoteType DEF TypeOK, Kinds
  <1>2. server'.gone = server.gone /\ server'.wire = Append(server.wire, n)
    BY <1>1 DEF Server
  <1>3. past'.crossed = past.crossed /\ past'.orphans = past.orphans
    BY <1>1, MissedType
  <1>4. Hung(t)
    BY DEF Hung
  <1> HIDE DEF n
  <1> QED
    BY <1>1, <1>2, <1>3, <1>4, TreeAppend

\* A thread goes: it has no need of its parent any more.
LEMMA GoesTree ==
    ASSUME TypeOK, TreeOK, NEW t \in Threads, server' = Archived(server, t), Shows({}),
           store'.parent = store.parent, UNCHANGED seen,
           past'.crossed = past.crossed, past'.orphans = past.orphans,
           \A c \in calls : c.op = "archive" => c \in calls' \/ c.thread = t,
           \A c \in calls' : c \in calls \/ c.op \notin {"list", "older"}
    PROVE  TreeOK'
  <1> DEFINE n == Note("thread/archived", t)
  <1>1. n \in Notice /\ n.type = "thread/archived" /\ server \in Server
    BY NoteType DEF TypeOK, Kinds
  <1>2. server'.gone = server.gone \cup {t} /\ server'.wire = Append(server.wire, n)
    BY <1>1, ArchivedType
  <1>3. TypeOK' /\ Ids(store') \subseteq Ids(store)
    BY DEF Shows
  <1>4. ParentsGo
    BY DEF ParentsGo
  <1> HIDE DEF n
  <1> QED
    BY <1>1, <1>2, <1>3, <1>4, TreeAppend

LEMMA ResumedTree ==
    ASSUME TypeOK, TreeOK, NEW c \in calls, Resumed(c)
    PROVE  TreeOK'
  <1> DEFINE t == c.thread
             children == {u \in server.alive : Spawner[u] = t}
  <1>1. /\ Shows({t}) /\ t \in Threads
        /\ store'.parent = [u \in Threads |->
             IF u = t /\ Spawner[t] # None /\ MayHang(Spawner[t], t) THEN Spawner[t]
             ELSE IF u \in children /\ MayHang(t, u) THEN t ELSE store.parent[u]]
    BY ResumedDoes
  <1>2. UNCHANGED <<seen, server, past>> /\ calls' = calls \ {c} /\ c.op = "resume"
    BY DEF Resumed
  <1>3. \A u \in Threads : \/ store'.parent[u] = store.parent[u]
                           \/ store'.parent[u] = Spawner[u]
    BY <1>1
  <1>4. Spawner[t] # None /\ MayHang(Spawner[t], t) => store'.parent[t] = Spawner[t]
    BY <1>1
  <1> HIDE DEF children, t
  <1>5. ParentsGo
    BY <1>3 DEF ParentsGo
  <1>6. TiesGo
    BY <1>2, <1>5 DEF TiesGo
  <1>7. Hung(t)'
    <2> SUFFICES ASSUME Spawner[t] # None
                 PROVE  Hung(t)'
      BY DEF Hung
    <2>1. CASE MayHang(Spawner[t], t)
      <3>1. store'.parent[t] = Spawner[t]
        BY <1>4, <2>1
      <3> QED
        BY <3>1 DEF Hung, Tied
    <2>2. CASE Hung(t)
      BY <1>1, <1>6, <2>2, TiesStay
    <2> QED
      BY <1>1, <2>1, <2>2, MayHangOrHung
  <1>8. TypeOK' /\ Ids(store') \subseteq Ids(store) \cup {t}
    BY <1>1 DEF Shows
  <1>9. \A u \in Ids(store') : u \in Ids(store) \/ Hung(u)'
    BY <1>7, <1>8
  <1> QED
    BY <1>2, <1>5, <1>8, <1>9, TreeQuiet

LEMMA ArchiveAnswerTree ==
    ASSUME TypeOK, KnownOK, TreeOK, NEW c \in calls, ArchiveAnswer(c)
    PROVE  TreeOK'
  <1>1. Shows({}) /\ store'.parent = store.parent /\ c.thread \in Threads
    BY ArchiveAnswerDoes
  <1>2. /\ calls' = calls \ {c} /\ c.op = "archive" /\ UNCHANGED seen
        /\ \/ server' = Archived(server, c.thread) /\ Missed(c.thread)
           \/ c.thread \notin server.alive /\ UNCHANGED <<server, past>>
           \/ UNCHANGED server /\ Refused(c.thread)
    BY DEF ArchiveAnswer, Refused
  <1>3. CASE c.thread \notin server.alive /\ UNCHANGED <<server, past>>
    <2>1. c.thread \in server.gone
      BY <1>2, <1>3 DEF KnownOK, CallKnown, Known
    <2> QED
      BY <1>1, <1>2, <1>3, <2>1, AsksTree
  <1>4. CASE server' = Archived(server, c.thread) /\ Missed(c.thread)
    <2>1. past'.crossed = past.crossed /\ past'.orphans = past.orphans
      BY <1>1, <1>4, MissedType DEF TypeOK
    <2> QED
      BY <1>1, <1>2, <1>4, <2>1, GoesTree
  <1>5. CASE UNCHANGED server /\ Refused(c.thread)
    <2>1. past'.crossed = past.crossed /\ past'.orphans = past.orphans \cup Spawned({c.thread})
      BY <1>1, <1>5, RefusedType DEF TypeOK
    <2>2. Spawner[c.thread] # None => c.thread \in Spawned({c.thread})
      BY DEF Spawned
    <2> QED
      BY <1>1, <1>2, <1>5, <2>1, <2>2, AsksTree
  <1> QED
    BY <1>2, <1>3, <1>4, <1>5

LEMMA CascadeAnswerTree ==
    ASSUME TypeOK, TreeOK, NEW c \in calls, CascadeAnswer(c)
    PROVE  TreeOK'
  <1>1. /\ Shows({}) /\ store'.parent = store.parent /\ c.thread \in Threads /\ c.op = "cascade"
        /\ \/ calls' = calls \ {c}
           \/ \E d : calls' = (calls \ {c}) \cup {d} /\ d.op = "cascade"
        /\ server' = Archived(server, c.thread) \/ server' = server
        /\ past'.crossed = past.crossed /\ past'.orphans = past.orphans
    BY CascadeAnswerDoes
  <1>2. UNCHANGED seen
    BY DEF CascadeAnswer
  <1>3. /\ \A d \in calls : d.op = "archive" => d \in calls'
        /\ \A d \in calls' : d \in calls \/ d.op \notin {"list", "older"}
    BY <1>1
  <1>4. CASE server' = server
    BY <1>1, <1>2, <1>3, <1>4, AsksTree
  <1>5. CASE server' = Archived(server, c.thread)
    BY <1>1, <1>2, <1>3, <1>5, GoesTree
  <1> QED
    BY <1>1, <1>4, <1>5

LEMMA RegisterTree ==
    ASSUME TypeOK, TreeOK, NEW c \in calls, NEW t \in Threads, RegisterDetachedReviewChild(c, t)
    PROVE  TreeOK'
  <1>1. /\ server' = [server EXCEPT !.alive = @ \cup {t}, !.unborn = @ \ {t},
                                    !.wire = Append(@, Note("thread/started", t))]
        /\ calls' = calls \ {c} /\ Missed(t) /\ c.op = "review" /\ ReviewOf[t] = c.thread
        /\ UNCHANGED seen
    BY DEF RegisterDetachedReviewChild
  <1>2. Shows({}) /\ c.thread \in Threads /\ store'.parent = Hangs(store, c.thread, {t})
    BY RegisterDoes
  <1>3. Spawner[t] = None
    BY <1>1, <1>2, OursOf, NoneAssumption
  <1>4. ParentsGo
    <2>1. \A u \in Threads : store'.parent[u] = store.parent[u] \/ (u = t /\ store'.parent[u] = ReviewOf[t])
      BY <1>1, <1>2 DEF Hangs
    <2> QED
      BY <1>3, <2>1 DEF ParentsGo
  <1>5. TypeOK' /\ Ids(store') \subseteq Ids(store)
    BY <1>2 DEF Shows
  <1> QED
    BY <1>1, <1>3, <1>4, <1>5, BornTree

LEMMA AnswersTree ==
    ASSUME TypeOK, KnownOK, TreeOK, Answers
    PROVE  TreeOK'
  <1>a. \A op, t : Ask(op, t).op = op
    BY DEF Ask
  <1>1. PICK c \in calls :
          \/ ListPage(c) \/ OlderPage(c) \/ ListFails(c) \/ NotStarted(c) \/ Resumed(c)
          \/ ArchiveAnswer(c) \/ CascadeAsks(c) \/ CascadeAnswer(c)
          \/ \E t \in Threads : Started(c, t) \/ RegisterDetachedReviewChild(c, t)
    BY DEF Answers
  <1>2. CASE ListPage(c)
    BY <1>2, ListPageTree
  <1>3. CASE OlderPage(c)
    BY <1>3, OlderPageTree
  <1>4. CASE ListFails(c)
    <2>1. UNCHANGED <<server, seen, past>> /\ calls' = calls \ {c} /\ c.op \in {"list", "older"}
      BY <1>4 DEF ListFails
    <2> QED
      BY <1>4, <2>1, ListFailsDoes, AsksTree
  <1>5. CASE NotStarted(c)
    <2>1. /\ UNCHANGED <<server, seen, past>> /\ calls' = calls \ {c}
          /\ c.op \in {"start", "fork", "review", "resume"}
      BY <1>5 DEF NotStarted
    <2> QED
      BY <1>5, <2>1, NotStartedDoes, AsksTree
  <1>6. CASE Resumed(c)
    BY <1>6, ResumedTree
  <1>7. CASE ArchiveAnswer(c)
    BY <1>7, ArchiveAnswerTree
  <1>8. CASE CascadeAsks(c)
    <2> DEFINE d == [c EXCEPT !.thread = Head(c.got), !.got = Tail(c.got)]
    <2>1. /\ Shows({}) /\ store'.parent = store.parent
          /\ calls' = (calls \ {c}) \cup {d} /\ d.op = "cascade"
      BY <1>8, CascadeAsksDoes
    <2> HIDE DEF d
    <2>2. UNCHANGED <<server, seen, past>> /\ c.op = "cascade"
      BY <1>8 DEF CascadeAsks
    <2> QED
      BY <2>1, <2>2, AsksTree
  <1>9. CASE CascadeAnswer(c)
    BY <1>9, CascadeAnswerTree
  <1>10. ASSUME NEW t \in Threads, Started(c, t) PROVE TreeOK'
    <2>1. /\ server' = [server EXCEPT !.alive = @ \cup {t}, !.unborn = @ \ {t},
                                      !.wire = Append(@, Note("thread/started", t))]
          /\ calls' = calls \ {c} \/ calls' = (calls \ {c}) \cup {Ask("resume", t)}
          /\ c.op \in {"start", "fork"} /\ Missed(t) /\ Spawner[t] = None /\ UNCHANGED seen
      BY <1>10 DEF Started
    <2>2. TypeOK' /\ Ids(store') \subseteq Ids(store) \cup {t} /\ store'.parent = store.parent
      BY <1>10, StartedDoes DEF Shows
    <2>3. ParentsGo
      BY <2>2 DEF ParentsGo
    <2>4. /\ \A d \in calls : d.op = "archive" => d \in calls'
          /\ \A d \in calls' : d \in calls \/ d.op \notin {"list", "older"}
      BY <1>a, <2>1
    <2> QED
      BY <2>1, <2>2, <2>3, <2>4, BornTree
  <1>11. ASSUME NEW t \in Threads, RegisterDetachedReviewChild(c, t) PROVE TreeOK'
    BY <1>11, RegisterTree
  <1> QED
    BY <1>1, <1>2, <1>3, <1>4, <1>5, <1>6, <1>7, <1>8, <1>9, <1>10, <1>11

LEMMA ServerActsTree ==
    ASSUME TypeOK, TreeOK, ServerActs
    PROVE  TreeOK'
  <1>1. ASSUME NEW t \in Threads, NEW informed \in BOOLEAN, ServerSpawns(t, informed) PROVE TreeOK'
    <2> DEFINE b == Birth(t, informed)
    <2>1. /\ UNCHANGED <<store, seen, calls>> /\ Missed(t)
          /\ Spawner[t] # None \/ t \in Memory
      BY <1>1 DEF ServerSpawns
    <2>2. /\ server'.wire = server.wire \o b /\ server'.gone = server.gone /\ TypeOK'
      BY <1>1, ServerSpawnsDoes DEF Shows
    <2>3. /\ b \in Seq(Notice) /\ b[1].type = "thread/started"
          /\ \/ Len(b) = 1
             \/ /\ Len(b) = 3 /\ b[2].type = "collab" /\ b[2].thread = Spawner[t] /\ b[2].others = {t}
                /\ b[3].type = "turn/started" /\ b[3].thread = t
      BY <2>1, BirthType
    <2> HIDE DEF b
    <2>4. \A i \in DOMAIN b : b[i].type = "turn/started" => Announced(b, i, b[i].thread)
      <3>1. DOMAIN b = 1..Len(b)
        BY <2>3
      <3>2. CASE Len(b) = 1
        BY <2>3, <3>1, <3>2
      <3>3. CASE /\ Len(b) = 3 /\ b[2].type = "collab" /\ b[2].thread = Spawner[t] /\ b[2].others = {t}
                 /\ b[3].type = "turn/started" /\ b[3].thread = t
        <4>1. 2 \in DOMAIN b /\ DOMAIN b = {1, 2, 3}
          BY <3>1, <3>3
        <4>2. Announced(b, 3, b[3].thread)
          BY <3>3, <4>1 DEF Announced
        <4>3. b[1].type # "turn/started" /\ b[2].type # "turn/started"
          BY <2>3, <3>3
        <4> QED
          BY <4>1, <4>2, <4>3
      <3> QED
        BY <2>3, <3>2, <3>3
    <2>5. past'.crossed = past.crossed /\ past'.orphans = past.orphans
      BY <2>1, MissedType DEF TypeOK
    <2>6. TiesGo
      BY <2>1, <2>2, <2>5 DEF TiesGo, ParentsGo
    <2>7. \A i \in DOMAIN server'.wire : \A u \in Threads :
             server'.wire[i].type = "turn/started" /\ u = server'.wire[i].thread =>
               Hung(u) \/ Announced(server'.wire, i, u)
      BY <2>2, <2>3, <2>4, TurnsWrite
    <2> QED
      BY <2>1, <2>2, <2>6, <2>7, TreeStep
  <1>2. ASSUME NEW t \in Threads, ServerReports(t) PROVE TreeOK'
    <2> DEFINE n == [Note("collab", t) EXCEPT !.others = {Spawner[t]}]
    <2>1. /\ n \in Notice /\ n.type = "collab" /\ Shows({}) /\ store'.parent = store.parent
          /\ server'.wire = Append(server.wire, n) /\ server'.gone = server.gone
      BY <1>2, ServerReportsDoes
    <2> HIDE DEF n
    <2>2. UNCHANGED <<store, seen, calls, past>>
      BY <1>2 DEF ServerReports
    <2>3. ParentsGo /\ TypeOK'
      BY <2>1 DEF ParentsGo, Shows
    <2> QED
      BY <2>1, <2>2, <2>3, TreeAppend
  <1>3. ASSUME NEW t \in Threads, ServerArchives(t) PROVE TreeOK'
    <2>1. server' = Archived(server, t) /\ UNCHANGED <<calls, seen>> /\ Missed(t)
      BY <1>3 DEF ServerArchives
    <2>2. past'.crossed = past.crossed /\ past'.orphans = past.orphans
      BY <2>1, MissedType DEF TypeOK
    <2>3. Shows({}) /\ store'.parent = store.parent
      BY <1>3, ServerArchivesDoes
    <2> QED
      BY <2>1, <2>2, <2>3, GoesTree
  <1>4. ASSUME NEW t \in Threads, ServerUnarchives(t) PROVE TreeOK'
    <2> DEFINE n == Note("thread/unarchived", t)
    <2>1. /\ server'.gone = server.gone /\ server'.wire = Append(server.wire, n)
          /\ past'.crossed = past.crossed /\ past'.orphans = past.orphans
          /\ Shows({}) /\ store'.parent = store.parent
      BY <1>4, ServerUnarchivesDoes
    <2>2. UNCHANGED <<store, seen, calls>>
      BY <1>4 DEF ServerUnarchives
    <2>3. n \in Notice /\ n.type = "thread/unarchived"
      BY NoteType DEF Kinds
    <2> HIDE DEF n
    <2>4. ParentsGo /\ TypeOK'
      BY <2>1 DEF ParentsGo, Shows
    <2> QED
      BY <2>1, <2>2, <2>3, <2>4, TreeAppend
  <1> QED
    BY <1>1, <1>2, <1>3, <1>4 DEF ServerActs

\* A notification that is no item of a thread.
LEMMA TreeHandles ==
    ASSUME TypeOK, TypeOK', TreeOK, NEW note, Handles(note), note.type # "collab",
           UNCHANGED seen, past'.crossed = past.crossed, past'.orphans = past.orphans, ParentsGo,
           \A c \in calls : c.op = "archive" => c \in calls',
           \A t \in Ids(store') : t \in Ids(store) \/ Hung(t) \/ Hung(t)',
           \A c \in calls' : c \in calls \/ c.op \notin {"list", "older"}
    PROVE  TreeOK'
  <1>1. server'.gone = server.gone
    BY HandlesType DEF TypeOK
  <1>2. TiesGo
    BY <1>1 DEF TiesGo
  <1>3. \A i \in DOMAIN server'.wire : \A t \in Threads :
             server'.wire[i].type = "turn/started" /\ t = server'.wire[i].thread =>
               Hung(t) \/ Hung(t)' \/ Announced(server'.wire, i, t)
    BY TurnsHandle
  <1> QED
    BY <1>2, <1>3, TreeStep

LEMMA OnCollabTree ==
    ASSUME TypeOK, KnownOK, TreeOK, NEW note, Handles(note), OnCollab(note)
    PROVE  TreeOK'
  <1> DEFINE p == note.thread
  <1>1. /\ Shows({p}) /\ p \in Threads /\ note.others \subseteq Threads
        /\ store'.parent = Hangs(store, p, note.others)
        /\ past'.orphans = IF store.parent[p] = None THEN past.orphans \cup Spawned({p}) ELSE past.orphans
        /\ past'.crossed = (past.crossed \/ \E u \in note.others :
               u < p /\ seen.parent[p] = None /\ seen.parent[u] = None)
    BY OnCollabDoes
  <1>2. UNCHANGED <<seen, calls>> /\ note.type = "collab"
    BY DEF OnCollab
  <1>3. NoteKnown(note, Known, server.gone)
    BY HandledKnown
  <1>4. server'.gone = server.gone
    BY HandlesType DEF TypeOK
  <1>5. \A u \in note.others : Spawner[u] = p \/ u = Spawner[p]
    BY <1>2, <1>3 DEF NoteKnown
  <1> HIDE DEF p
  <1>6. \A u \in Threads : store'.parent[u] = IF u \in note.others /\ MayHang(p, u)
                                              THEN p ELSE store.parent[u]
    BY <1>1 DEF Hangs
  <1>7. ASSUME NEW u \in note.others, MayHang(p, u), ~past'.crossed
        PROVE  Spawner[u] = p
    <2> SUFFICES ASSUME u = Spawner[p]
                 PROVE  FALSE
      BY <1>5
    <2>1. u \in Threads /\ Spawner[p] # None /\ u < p
      BY <1>1, OursOf, NoneAssumption
    <2>2. seen.parent[u] = None
      BY <1>7 DEF MayHang
    <2>3. seen.parent[p] # None
      BY <1>1, <1>7, <2>1, <2>2
    <2>4. ~past.crossed /\ seen \in Store
      BY <1>1, <1>7 DEF TypeOK
    <2>5. Links(seen)
      BY <2>4 DEF TreeOK
    <2>6. seen.parent[p] = u /\ u # p
      <3>1. seen.parent[p] = Spawner[p] /\ seen.parent[p] < p /\ seen.parent[p] \in Threads
        BY <1>1, <2>1, <2>3, <2>4, <2>5, LinksAreOlder
      <3>2. Threads \subseteq Nat
        BY ThreadsAreRanks
      <3> QED
        BY <1>1, <3>1, <3>2
    <2>7. u \in Ancestors(seen, p)
      <3> DEFINE parent == seen.parent
      <3>1. parent \in [Threads -> OrNone(Threads)] /\ parent[p] # None /\ parent[p] # p /\ parent[p] = u
        BY <2>3, <2>4, <2>6, StoreFields
      <3> HIDE DEF parent
      <3>2. u \in AncestorsIn(parent, p)
        BY <1>1, <3>1, ParentIsAbove
      <3> QED
        BY <3>2 DEF parent, Ancestors
    <2> QED
      BY <1>7, <2>7 DEF MayHang, CreatesCycle
  <1>8. ParentsGo
    BY <1>6, <1>7 DEF ParentsGo
  <1>9. TiesGo
    BY <1>1, <1>2, <1>4, <1>8 DEF TiesGo
  <1>10. ASSUME NEW t \in note.others, Spawner[t] = p
         PROVE  Hung(t)'
    <2>1. t \in Threads /\ Spawner[t] # None
      BY <1>1, <1>10, NoneAssumption
    <2>2. CASE MayHang(p, t)
      <3>1. store'.parent[t] = Spawner[t]
        BY <1>6, <1>10, <2>1, <2>2
      <3> QED
        BY <3>1 DEF Hung, Tied
    <2>3. CASE Hung(t)
      BY <1>9, <2>1, <2>3, TiesStay
    <2> QED
      BY <1>10, <2>1, <2>2, <2>3, MayHangOrHung
  <1>11. \A i \in DOMAIN server'.wire : \A t \in Threads :
             server'.wire[i].type = "turn/started" /\ t = server'.wire[i].thread =>
               Hung(t) \/ Hung(t)' \/ Announced(server'.wire, i, t)
    <2>1. \A t \in note.others : Spawner[t] = note.thread => Hung(t)'
      BY <1>10 DEF p
    <2> QED
      BY <2>1, TurnsHandle
  <1>12. Hung(p)'
    <2> SUFFICES ASSUME Spawner[p] # None, ~past'.crossed
                 PROVE  p \in past'.orphans \/ Tied(p)'
      BY DEF Hung, Tied
    <2>1. CASE store.parent[p] = None
      <3>1. p \in Spawned({p})
        BY DEF Spawned
      <3> QED
        BY <1>1, <2>1, <3>1
    <2>2. CASE store.parent[p] # None
      <3>1. ~past.crossed /\ store \in Store
        BY <1>1 DEF TypeOK
      <3>2. Links(store)
        BY <3>1 DEF TreeOK
      <3>3. store.parent[p] = Spawner[p]
        BY <1>1, <2>2, <3>1, <3>2, LinksAreOlder
      <3>4. Hung(p)
        BY <3>3 DEF Hung, Tied
      <3> QED
        BY <1>1, <1>9, <3>4, TiesStay DEF Hung
    <2> QED
      BY <2>1, <2>2
  <1>13. TypeOK' /\ \A t \in Ids(store') : t \in Ids(store) \/ Hung(t)'
    BY <1>1, <1>12 DEF Shows
  <1> QED
    BY <1>2, <1>9, <1>11, <1>13, TreeStep

LEMMA NotificationsTree ==
    ASSUME TypeOK, KnownOK, TreeOK, Notifications
    PROVE  TreeOK'
  <1>1. PICK note : /\ Handles(note)
                    /\ \/ OnThreadStarted(note) \/ OnThreadArchived(note) \/ OnThreadUnarchived(note)
                       \/ OnCollab(note) \/ OnTurnStarted(note)
    BY HandledIs
  <1>2. note \in Notice /\ NoteKnown(note, Known, server.gone) /\ note.thread \in Threads
    BY <1>1, HandledKnown
  <1>3. server'.gone = server.gone
    BY <1>1, HandlesType DEF TypeOK
  <1>4. CASE OnThreadStarted(note)
    <2> DEFINE t == note.thread
    <2>1. /\ Shows({t} \ Memory)
          /\ \/ store'.parent = store.parent /\ Shows({})
             \/ store'.parent = Spawners(store, {t})
      BY <1>1, <1>4, OnThreadStartedDoes
    <2>2. UNCHANGED <<seen, calls, past>> /\ note.type # "collab"
      BY <1>4 DEF OnThreadStarted
    <2> HIDE DEF t
    <2>3. CASE store'.parent = store.parent /\ Shows({})
      <3>1. ParentsGo /\ TypeOK' /\ Ids(store') \subseteq Ids(store)
        BY <2>3 DEF ParentsGo, Shows
      <3> QED
        BY <1>1, <2>2, <3>1, TreeHandles
    <2>4. CASE store'.parent = Spawners(store, {t})
      <3>1. /\ ParentsGo
            /\ TiesGo => \A u \in Threads \cap {t} : Hung(u)'
        BY <2>4, SpawnersTie
      <3>2. TiesGo
        BY <1>3, <2>2, <3>1 DEF TiesGo
      <3>3. TypeOK' /\ Ids(store') \subseteq Ids(store) \cup {t}
        BY <2>1 DEF Shows
      <3>4. Hung(t)'
        BY <1>2, <3>1, <3>2 DEF t
      <3>5. \A u \in Ids(store') : u \in Ids(store) \/ Hung(u)'
        BY <3>3, <3>4
      <3> QED
        BY <1>1, <2>2, <3>1, <3>3, <3>5, TreeHandles
    <2> QED
      BY <2>1, <2>3, <2>4
  <1>5. CASE OnThreadArchived(note)
    <2> DEFINE t == note.thread
    <2>1. /\ Shows({}) /\ store'.parent = [store.parent EXCEPT ![t] = None]
          /\ past'.orphans = past.orphans /\ past'.crossed = past.crossed
          /\ \/ calls' = calls
             \/ \E d : calls' = calls \cup {d} /\ d.op = "cascade"
      BY <1>1, <1>5, OnThreadArchivedDoes
    <2>2. UNCHANGED seen /\ note.type = "thread/archived"
      BY <1>5 DEF OnThreadArchived
    <2>3. t \in server'.gone
      BY <1>2, <1>3, <2>2 DEF NoteKnown
    <2> HIDE DEF t
    <2>4. ParentsGo
      <3>1. store.parent \in [Threads -> OrNone(Threads)]
        BY StoreFields DEF TypeOK
      <3>2. \A u \in Threads : store'.parent[u] = IF u = t THEN None ELSE store.parent[u]
        BY <2>1, <3>1
      <3> QED
        BY <2>3, <3>2 DEF ParentsGo
    <2>5. TypeOK' /\ Ids(store') \subseteq Ids(store)
      BY <2>1 DEF Shows
    <2>6. /\ \A c \in calls : c.op = "archive" => c \in calls'
          /\ \A c \in calls' : c \in calls \/ c.op \notin {"list", "older"}
      BY <2>1
    <2> QED
      BY <1>1, <2>1, <2>2, <2>4, <2>5, <2>6, TreeHandles
  <1>6. CASE OnThreadUnarchived(note)
    <2>1. Shows({note.thread}) /\ store'.parent = store.parent
      BY <1>1, <1>6, EnsuresDoes
    <2>2. UNCHANGED <<seen, calls, past>> /\ note.type = "thread/unarchived"
      BY <1>6 DEF OnThreadUnarchived, app
    <2>3. Hung(note.thread)
      BY <1>2, <2>2 DEF NoteKnown, Hung, Tied
    <2>4. TypeOK' /\ ParentsGo /\ \A t \in Ids(store') : t \in Ids(store) \/ Hung(t)
      BY <2>1, <2>3 DEF Shows, ParentsGo
    <2> QED
      BY <1>1, <2>2, <2>4, TreeHandles
  <1>7. CASE OnTurnStarted(note)
    <2>1. Shows({note.thread}) /\ store'.parent = store.parent
      BY <1>1, <1>7, EnsuresDoes
    <2>2. UNCHANGED <<seen, calls, past>> /\ note.type = "turn/started"
      BY <1>7 DEF OnTurnStarted, app
    <2>3. Hung(note.thread)
      <3>1. server.wire \in Seq(Notice) /\ note = server.wire[1] /\ Len(server.wire) >= 1
        BY <1>1, HandlesType DEF TypeOK
      <3>2. 1 \in DOMAIN server.wire /\ \A j \in DOMAIN server.wire : ~(j < 1)
        BY <3>1
      <3> QED
        BY <2>2, <3>1, <3>2 DEF TreeOK, Announced
    <2>4. TypeOK' /\ ParentsGo /\ \A t \in Ids(store') : t \in Ids(store) \/ Hung(t)
      BY <2>1, <2>3 DEF Shows, ParentsGo
    <2> QED
      BY <1>1, <2>2, <2>4, TreeHandles
  <1>8. CASE OnCollab(note)
    BY <1>1, <1>8, OnCollabTree
  <1> QED
    BY <1>1, <1>4, <1>5, <1>6, <1>7, <1>8

\* Every step keeps that.
LEMMA StepTree ==
    ASSUME TypeOK, KnownOK, TreeOK, [Next]_vars
    PROVE  TreeOK'
  <1>1. CASE UNCHANGED vars
    BY <1>1 DEF vars, TreeOK, Hung, Tied, Removing
  <1> QED
    BY <1>1, UserTree, RenderTree, AnswersTree, ServerActsTree, NotificationsTree DEF Next

LEMMA InitTree ==
    ASSUME Init
    PROVE  TreeOK
  <1>1. /\ Ids(store) = {} /\ Ids(seen) = {} /\ calls = {}
        /\ store = InitialState /\ seen = InitialState
    BY InitialIsStore DEF Init
  <1>2. server.wire = <<>>
    BY InitTypes
  <1>3. \A t \in Threads : store.parent[t] = None /\ seen.parent[t] = None
    BY <1>1 DEF InitialState
  <1> QED
    BY <1>1, <1>2, <1>3 DEF TreeOK, Links

\* The inductive invariant of the families.
TreeInv == TypeOK /\ KnownOK /\ TreeOK

\* Unless an agent reported before its own link was on screen: no thread is its own
\* ancestor, and once all is quiet every listed agent hangs under its listed spawner.
THEOREM FamilyStaysATree == Spec => []FamilyIsATree
  <1>1. Init => TreeInv
    BY InitTypes, InitKnown, InitTree DEF TreeInv
  <1>2. TreeInv /\ [Next]_vars => TreeInv'
    BY TypesStep, StepKnown, StepTree DEF TreeInv
  <1>3. TreeInv => FamilyIsATree
    <2> SUFFICES ASSUME TreeInv, ~past.crossed
                 PROVE  /\ \A t \in Threads : LET p == store.parent[t]
                             IN p # None => t # p /\ t \notin Ancestors(store, p)
                        /\ Quiet => \A t \in ListedNow \ (server.gone \cup past.orphans) :
                             Spawner[t] \in ListedNow => store.parent[t] = Spawner[t]
      BY DEF FamilyIsATree
    <2>1. store \in Store /\ Links(store)
      BY DEF TreeInv, TypeOK, TreeOK
    <2>2. \A t \in Threads : store.parent[t] # None =>
            t # store.parent[t] /\ t \notin Ancestors(store, store.parent[t])
      BY <2>1, LinksAreATree
    <2>3. ASSUME Quiet, NEW t \in ListedNow \ (server.gone \cup past.orphans), Spawner[t] \in ListedNow
          PROVE  store.parent[t] = Spawner[t]
      <3>1. ListedNow = Ids(store) /\ Ids(store) \subseteq Threads
        BY <2>1, StoreFields DEF ListedNow, Ids
      <3>2. Hung(t) /\ Spawner[t] # None
        BY <2>3, <3>1, NoneAssumption DEF TreeInv, TreeOK
      <3>3. Removing = {}
        BY <2>3 DEF Quiet, Removing
      <3> QED
        BY <2>3, <3>2, <3>3 DEF Hung, Tied
    <2> QED
      BY <2>2, <2>3
  <1> QED
    BY <1>1, <1>2, <1>3, PTL DEF Spec

----------------------------------------------------------------------------
(* The order of a page                                                      *)

Descends(seq) == \A i, j \in DOMAIN seq : i < j => seq[i] > seq[j]

\* What is kept of a descending sequence descends.
LEMMA ThoseDescend ==
    ASSUME NEW seq \in Seq(Nat), Descends(seq), NEW set
    PROVE  Descends(Those(seq, set))
  <1>0. PICK kept : Those(seq, set) = kept[Len(seq)] /\ Sifts(kept, seq, set)
    BY ThoseUnfolds
  <1>1. /\ Those(seq, set) = kept[Len(seq)] /\ kept[0] = <<>>
        /\ \A n \in Nat : n # 0 =>
             kept[n] = IF seq[n] \in set THEN Append(kept[n - 1], seq[n]) ELSE kept[n - 1]
    BY <1>0 DEF Sifts
  <1> DEFINE T == {n \in Nat : n <= Len(seq) =>
                     /\ kept[n] \in Seq(Nat) /\ Descends(kept[n])
                     /\ \A i \in DOMAIN kept[n] : \E j \in 1..n : kept[n][i] = seq[j]}
  <1>2. 0 \in T
    <2>1. kept[0] \in Seq(Nat) /\ DOMAIN kept[0] = {}
      BY <1>1
    <2> QED
      BY <2>1 DEF Descends
  <1>3. ASSUME NEW n \in Nat, n \in T
        PROVE  n + 1 \in T
    <2> SUFFICES ASSUME n + 1 <= Len(seq)
                 PROVE  /\ kept[n + 1] \in Seq(Nat) /\ Descends(kept[n + 1])
                        /\ \A i \in DOMAIN kept[n + 1] : \E j \in 1..(n + 1) : kept[n + 1][i] = seq[j]
      OBVIOUS
    <2>1. kept[n + 1] = IF seq[n + 1] \in set THEN Append(kept[n], seq[n + 1]) ELSE kept[n]
      <3>1. n + 1 \in Nat /\ n + 1 # 0 /\ (n + 1) - 1 = n
        OBVIOUS
      <3> QED
        BY <1>1, <3>1
    <2> DEFINE k == kept[n]
               e == seq[n + 1]
    <2>2. /\ k \in Seq(Nat) /\ Descends(k)
          /\ \A i \in DOMAIN k : \E j \in 1..n : k[i] = seq[j]
      BY <1>3
    <2>3. e \in Nat /\ \A j \in 1..n : seq[j] > e
      <3>1. n + 1 \in DOMAIN seq /\ \A j \in 1..n : j \in DOMAIN seq /\ j < n + 1
        OBVIOUS
      <3> QED
        BY <3>1 DEF Descends
    <2> HIDE DEF k, e
    <2>4. /\ Append(k, e) \in Seq(Nat) /\ Len(Append(k, e)) = Len(k) + 1
          /\ \A i \in 1..Len(k) : Append(k, e)[i] = k[i]
          /\ Append(k, e)[Len(k) + 1] = e /\ Len(k) \in Nat /\ DOMAIN k = 1..Len(k)
          /\ DOMAIN Append(k, e) = 1..(Len(k) + 1)
      BY <2>2, <2>3
    <2> DEFINE a == Append(k, e)
    <2> HIDE DEF a
    <2>5. \A i \in DOMAIN a : \/ i \in 1..Len(k) /\ a[i] = k[i]
                              \/ i = Len(k) + 1 /\ a[i] = e
      BY <2>4 DEF a
    <2>6. Descends(a)
      <3> SUFFICES ASSUME NEW i \in DOMAIN a, NEW j \in DOMAIN a, i < j
                   PROVE  a[i] > a[j]
        BY DEF Descends
      <3>1. i \in 1..Len(k) /\ a[i] = k[i]
        BY <2>4, <2>5 DEF a
      <3>2. k[i] > e
        BY <2>2, <2>3, <2>4, <3>1
      <3>3. CASE j \in 1..Len(k)
        BY <2>2, <2>4, <2>5, <3>1, <3>3 DEF Descends
      <3>4. CASE j = Len(k) + 1
        BY <2>4, <3>1, <3>2, <3>4 DEF a
      <3> QED
        BY <2>5, <3>3, <3>4
    <2>7. \A i \in DOMAIN a : \E j \in 1..(n + 1) : a[i] = seq[j]
      <3>1. 1..n \subseteq 1..(n + 1) /\ n + 1 \in 1..(n + 1)
        OBVIOUS
      <3> QED
        BY <2>2, <2>4, <2>5, <3>1 DEF e
    <2>8. \A i \in DOMAIN k : \E j \in 1..(n + 1) : k[i] = seq[j]
      <3>1. 1..n \subseteq 1..(n + 1)
        OBVIOUS
      <3> QED
        BY <2>2, <3>1
    <2>9. CASE seq[n + 1] \in set
      <3>1. kept[n + 1] = a
        BY <2>1, <2>9 DEF a, k, e
      <3>2. a \in Seq(Nat)
        BY <2>4 DEF a
      <3> QED
        BY <2>6, <2>7, <3>1, <3>2
    <2>10. CASE seq[n + 1] \notin set
      <3>1. kept[n + 1] = k
        BY <2>1, <2>10 DEF k
      <3> QED
        BY <2>2, <2>8, <3>1
    <2> QED
      BY <2>9, <2>10
  <1> HIDE DEF T
  <1>4. Len(seq) \in Nat
    OBVIOUS
  <1>5. Len(seq) \in T
    BY <1>2, <1>3, <1>4, SetInduction
  <1> QED
    BY <1>1, <1>5 DEF T

LEMMA NewestDescends ==
    ASSUME NEW set \in SUBSET Threads
    PROVE  Descends(Newest(set))
  <1> DEFINE N == Cardinality(Threads)
  <1>1. N \in Nat
    BY ListAssumption, FS_CardinalityType
  <1> HIDE DEF N
  <1>2. ByAge = [i \in 1..N |-> N + 1 - i]
    BY DEF ByAge, N
  <1>3. ByAge \in Seq(Nat) /\ Descends(ByAge)
    BY <1>1, <1>2 DEF Descends
  <1> QED
    BY <1>3, ThoseDescend DEF Newest

LEMMA FirstOfMost ==
    ASSUME NEW S, NEW seq \in Seq(S), NEW n \in Nat
    PROVE  /\ FirstOf(n, seq) \in Seq(S)
           /\ \A i \in DOMAIN seq : i <= n => seq[i] \in ToSet(FirstOf(n, seq))
           /\ Len(seq) <= n => ToSet(seq) \subseteq ToSet(FirstOf(n, seq))
  <1> DEFINE m == IF n < Len(seq) THEN n ELSE Len(seq)
  <1>1. m \in 0..Len(seq) /\ FirstOf(n, seq) = SubSeq(seq, 1, m)
    BY DEF FirstOf
  <1>2. \A i \in DOMAIN seq : i <= n => i \in 1..m
    OBVIOUS
  <1>3. Len(seq) <= n => m = Len(seq)
    OBVIOUS
  <1> HIDE DEF m
  <1>4. /\ SubSeq(seq, 1, m) \in Seq(S) /\ DOMAIN SubSeq(seq, 1, m) = 1..m
        /\ \A i \in 1..m : SubSeq(seq, 1, m)[i] = seq[i]
    BY <1>1
  <1>5. \A i \in DOMAIN seq : i <= n => seq[i] \in ToSet(FirstOf(n, seq))
    BY <1>1, <1>2, <1>4 DEF ToSet
  <1>6. Len(seq) <= n => ToSet(seq) \subseteq ToSet(FirstOf(n, seq))
    <2> SUFFICES ASSUME Len(seq) <= n, NEW i \in DOMAIN seq
                 PROVE  seq[i] \in ToSet(FirstOf(n, seq))
      BY DEF ToSet
    <2>1. i <= n
      OBVIOUS
    <2> QED
      BY <1>5, <2>1
  <1> QED
    BY <1>1, <1>4, <1>5, <1>6

\* The first lines of a longer list are still among its first.
LEMMA FirstOfLonger ==
    ASSUME NEW S, NEW s \in Seq(S), NEW u \in Seq(S), NEW n \in Nat
    PROVE  ToSet(FirstOf(n, s)) \subseteq ToSet(FirstOf(n, s \o u))
  <1> DEFINE m == IF n < Len(s) THEN n ELSE Len(s)
  <1>1. m \in 0..Len(s) /\ m <= n /\ FirstOf(n, s) = SubSeq(s, 1, m)
    BY DEF FirstOf
  <1> HIDE DEF m
  <1>2. /\ DOMAIN SubSeq(s, 1, m) = 1..m
        /\ \A i \in 1..m : SubSeq(s, 1, m)[i] = s[i]
    BY <1>1
  <1>3. /\ s \o u \in Seq(S) /\ Len(s \o u) = Len(s) + Len(u)
        /\ \A i \in 1..Len(s) : (s \o u)[i] = s[i]
    BY ConcatAt
  <1>4. \A i \in 1..m : i \in DOMAIN (s \o u) /\ (s \o u)[i] = s[i] /\ i <= n
    BY <1>1, <1>3
  <1> DEFINE r == s \o u
  <1> HIDE DEF r
  <1>5. \A i \in DOMAIN r : i <= n => r[i] \in ToSet(FirstOf(n, r))
    BY <1>3, FirstOfMost DEF r
  <1>6. \A i \in 1..m : s[i] \in ToSet(FirstOf(n, r))
    BY <1>4, <1>5 DEF r
  <1> QED
    BY <1>1, <1>2, <1>6 DEF ToSet, r

\* A page leaves out no thread between its cursor and the next.
LEMMA PageCovers ==
    ASSUME server \in Server, NEW cursor \in OrNone(Threads), NEW t \in server.alive,
           cursor = None \/ t < cursor
    PROVE  \/ t \in ToSet(Page(cursor).threads)
           \/ Page(cursor).next # None /\ t < Page(cursor).next
  <1> DEFINE set == {u \in server.alive : cursor = None \/ u < cursor}
             older == Newest(set)
  <1>1. set \in SUBSET Threads /\ t \in set
    BY DEF Server
  <1>2. older \in Seq(Threads) /\ ToSet(older) = set /\ Descends(older)
    <2> HIDE DEF set
    <2> QED
      BY <1>1, NewestOf, NewestDescends
  <1>3. Page(cursor) = [threads |-> FirstOf(PageSize, older),
                        next |-> IF Len(older) > PageSize THEN older[PageSize] ELSE None]
    BY DEF Page
  <1> HIDE DEF older, set
  <1>4. PageSize \in Nat /\ PageSize >= 1
    BY ListAssumption
  <1>5. PICK i \in DOMAIN older : older[i] = t
    BY <1>1, <1>2 DEF ToSet
  <1>6. CASE i <= PageSize
    BY <1>2, <1>3, <1>4, <1>5, <1>6, FirstOfMost
  <1>7. CASE i > PageSize
    <2>1. Len(older) > PageSize /\ PageSize \in DOMAIN older
      BY <1>2, <1>4, <1>7
    <2>2. older[PageSize] \in Threads /\ older[PageSize] > t
      BY <1>2, <1>5, <1>7, <2>1 DEF Descends
    <2>3. None \notin Threads
      BY NoneAssumption
    <2>4. t \in Nat /\ older[PageSize] \in Nat
      BY <1>1, <2>2, ThreadsAreRanks
    <2> QED
      BY <1>3, <2>1, <2>2, <2>3, <2>4
  <1> QED
    BY <1>2, <1>4, <1>6, <1>7

----------------------------------------------------------------------------
(* Every thread is reachable                                                *)

\* The note gives the thread a row.
Brings(n, t) ==
  /\ n.thread = t
  /\ \/ n.type \in {"thread/unarchived", "turn/started"}
     \/ n.type = "thread/started" /\ (Spawner[t] = None \/ t \in n.others)
\* A note still to be handled gives it one, and none after it takes it away.
Coming(wire, t) == \E i \in DOMAIN wire : Brings(wire[i], t) /\ ~Goes(wire, i, t)

\* The threads the lists are answerable for.
Settled == (server.alive \cap Ours) \ (past.late \cup past.lost)
After(cursor, t) == cursor = PageStart \/ (cursor # None /\ t < cursor)
Held(t) == t \in Ids(store) \cup Removing

\* A living thread that was archived is about to be brought back.
ComesOK ==
  \A t \in server.alive \cap Ours : Goes(server.wire, 0, t) => Coming(server.wire, t)

\* A list has read all that is above its cursor, and shows all that is above the
\* cursor it will go on from.
PagesOK ==
  \A c \in calls : c.op = "list" =>
    /\ c.cursor # None => \A t \in Settled : t >= c.cursor => t \in ToSet(c.got)
    /\ c.resume = None => Len(c.got) <= Target
    /\ c.resume \in Threads =>
         \A t \in Settled : t >= c.resume => t \in ToSet(FirstOf(Target, c.got))

\* While the listing counts: what an older page saw, what it has read, what is
\* below its cursor, and what is held or comes by itself is everything, and the
\* rows it will put back are still there.
OlderOK ==
  plan.listed => \A c \in calls : c.op = "older" =>
    /\ \A t \in Settled :
         \/ t \in IdsOf(c.saw.rows) \cup ToSet(c.got)
         \/ Held(t) \/ Coming(server.wire, t)
         \/ c.cursor = None /\ c.pages = 0
         \/ c.cursor # None /\ t < c.cursor
    /\ \A t \in Settled \cap IdsOf(c.saw.rows) : Held(t)

ReachOK ==
  plan.listed => \A t \in Settled :
    Coming(server.wire, t) \/ Held(t) \/ After(store.cursor[Workspace], t)

PlanStays == plan' \in Plan /\ plan'.listed = plan.listed
PastGrows == past.late \subseteq past'.late /\ past.lost \subseteq past'.lost

\* A step that lists nothing: rows stay but for those that are archived, and what
\* comes is on its way.
Gentle ==
  /\ PlanStays
  /\ store'.cursor = store.cursor
  /\ PastGrows
  /\ \A c \in calls' : c.op \in {"list", "older"} => c \in calls
  /\ \A t \in server'.alive \cap Ours :
       /\ \/ t \in server.alive
          \/ Coming(server'.wire, t) /\ (Listing => t \in past'.late)
       /\ t \in Removing => t \in Removing' \cup Ids(store') \cup past'.lost
       /\ Goes(server'.wire, 0, t) => Goes(server.wire, 0, t) \/ Coming(server'.wire, t)
       /\ Coming(server.wire, t) =>
            \/ Coming(server'.wire, t)
            \/ t \in Ids(store') /\ ~Goes(server'.wire, 0, t)
       /\ t \in Ids(store) =>
            \/ t \in Ids(store') \cup Removing'
            \/ Coming(server'.wire, t) /\ (Listing => t \in past'.late)

LEMMA GentleStep ==
    ASSUME Gentle, ComesOK, PagesOK, OlderOK, ReachOK
    PROVE  ComesOK' /\ PagesOK' /\ OlderOK' /\ ReachOK'
  <1>1. \A t \in Settled' : t \in Settled \/ (Coming(server'.wire, t) /\ ~Listing)
    BY DEF Gentle, Settled, PastGrows
  <1>2. \A c \in calls : c.op \in {"list", "older"} => Listing
    BY DEF Listing, Idle
  <1>3. ComesOK'
    <2> SUFFICES ASSUME NEW t \in server'.alive \cap Ours, Goes(server'.wire, 0, t)
                 PROVE  Coming(server'.wire, t)
      BY DEF ComesOK
    <2>1. CASE t \in server.alive
      BY <2>1 DEF Gentle, ComesOK
    <2>2. CASE t \notin server.alive
      BY <2>2 DEF Gentle
    <2> QED
      BY <2>1, <2>2
  <1>4. PagesOK'
    <2> SUFFICES ASSUME NEW c \in calls', c.op = "list"
                 PROVE  /\ c.cursor # None => \A t \in Settled' : t >= c.cursor => t \in ToSet(c.got)
                        /\ c.resume = None => Len(c.got) <= Target
                        /\ c.resume \in Threads =>
                             \A t \in Settled' : t >= c.resume => t \in ToSet(FirstOf(Target, c.got))
      BY DEF PagesOK
    <2>1. c \in calls /\ Settled' \subseteq Settled
      BY <1>1, <1>2 DEF Gentle
    <2> QED
      BY <2>1 DEF PagesOK
  <1>5. ASSUME Listing, NEW t \in Settled'
        PROVE  /\ t \in Settled /\ (Held(t) => Held(t)')
               /\ Coming(server.wire, t) => Coming(server'.wire, t) \/ Held(t)'
    BY <1>1, <1>5 DEF Gentle, Settled, Held
  <1>6. OlderOK'
    <2> SUFFICES ASSUME plan'.listed, NEW c \in calls', c.op = "older"
                 PROVE  /\ \A t \in Settled' :
                             \/ t \in IdsOf(c.saw.rows) \cup ToSet(c.got)
                             \/ Held(t)' \/ Coming(server'.wire, t)
                             \/ c.cursor = None /\ c.pages = 0
                             \/ c.cursor # None /\ t < c.cursor
                        /\ \A t \in Settled' \cap IdsOf(c.saw.rows) : Held(t)'
      BY DEF OlderOK
    <2>1. c \in calls /\ Listing /\ plan.listed
      BY <1>2 DEF Gentle, PlanStays
    <2>2. \A t \in Settled' :
             \/ t \in IdsOf(c.saw.rows) \cup ToSet(c.got)
             \/ Held(t)' \/ Coming(server'.wire, t)
             \/ c.cursor = None /\ c.pages = 0
             \/ c.cursor # None /\ t < c.cursor
      BY <1>5, <2>1 DEF OlderOK
    <2>3. \A t \in Settled' \cap IdsOf(c.saw.rows) : Held(t)'
      BY <1>5, <2>1 DEF OlderOK
    <2> QED
      BY <2>2, <2>3
  <1>7. ReachOK'
    <2> SUFFICES ASSUME plan'.listed, NEW t \in Settled'
                 PROVE  Coming(server'.wire, t) \/ Held(t)' \/ After(store'.cursor[Workspace], t)
      BY DEF ReachOK
    <2>1. plan.listed /\ store'.cursor = store.cursor /\ t \in server'.alive \cap Ours
      BY DEF Gentle, PlanStays, Settled
    <2>2. CASE t \in Settled
      <3>1. Coming(server.wire, t) \/ Held(t) \/ After(store.cursor[Workspace], t)
        BY <2>1, <2>2 DEF ReachOK
      <3> QED
        BY <2>1, <3>1 DEF Gentle, Held, Settled
    <2> QED
      BY <1>1, <2>2
  <1> QED
    BY <1>3, <1>4, <1>6, <1>7

----------------------------------------------------------------------------
(* The wire                                                                 *)

\* Of a thread none of the new notes takes away: what was coming still is.
LEMMA ComingWritten ==
    ASSUME NEW s \in Seq(Notice), NEW w \in Seq(Notice), NEW t, ~Goes(w, 0, t)
    PROVE  /\ Coming(s, t) => Coming(s \o w, t)
           /\ Goes(s \o w, 0, t) => Goes(s, 0, t)
           /\ Coming(w, t) => Coming(s \o w, t)
  <1> DEFINE r == s \o w
  <1>1. /\ Len(r) = Len(s) + Len(w) /\ r \in Seq(Notice)
        /\ \A i \in 1..Len(s) : r[i] = s[i]
        /\ \A i \in 1..Len(w) : r[Len(s) + i] = w[i]
    BY ConcatAt
  <1> HIDE DEF r
  <1>2. /\ Len(s) \in Nat /\ Len(w) \in Nat /\ DOMAIN s = 1..Len(s) /\ DOMAIN w = 1..Len(w)
        /\ DOMAIN r = 1..(Len(s) + Len(w))
    BY <1>1
  <1>3. ASSUME NEW i \in DOMAIN r
        PROVE  \/ i \in DOMAIN s /\ r[i] = s[i]
               \/ i - Len(s) \in DOMAIN w /\ r[i] = w[i - Len(s)] /\ i > Len(s)
    <2>1. CASE i \in 1..Len(s)
      BY <1>1, <1>2, <2>1
    <2>2. CASE i \notin 1..Len(s)
      <3>1. i - Len(s) \in 1..Len(w) /\ i = Len(s) + (i - Len(s)) /\ i > Len(s)
        BY <1>2, <2>2
      <3> QED
        BY <1>1, <1>2, <3>1
    <2> QED
      BY <2>1, <2>2
  <1>4. \A i \in DOMAIN w : ~(w[i].type = "thread/archived" /\ w[i].thread = t)
    BY <1>2 DEF Goes
  <1>5. ASSUME NEW i \in Nat, Goes(r, i, t)
        PROVE  Goes(s, i, t) /\ i <= Len(s)
    <2>1. PICK j \in DOMAIN r : j > i /\ r[j].type = "thread/archived" /\ r[j].thread = t
      BY <1>5 DEF Goes
    <2>2. j \in DOMAIN s /\ r[j] = s[j]
      BY <1>3, <1>4, <2>1
    <2> QED
      BY <1>2, <2>1, <2>2 DEF Goes
  <1>6. ASSUME Coming(s, t)
        PROVE  Coming(r, t)
    <2>1. PICK i \in DOMAIN s : Brings(s[i], t) /\ ~Goes(s, i, t)
      BY <1>6 DEF Coming
    <2>2. i \in DOMAIN r /\ r[i] = s[i] /\ i \in Nat
      BY <1>1, <1>2
    <2> QED
      BY <1>5, <2>1, <2>2 DEF Coming
  <1>7. ASSUME Coming(w, t)
        PROVE  Coming(r, t)
    <2>1. PICK i \in DOMAIN w : Brings(w[i], t)
      BY <1>7 DEF Coming
    <2>2. Len(s) + i \in DOMAIN r /\ r[Len(s) + i] = w[i] /\ Len(s) + i \in Nat /\ Len(s) + i > Len(s)
      <3>1. i \in 1..Len(w)
        BY <1>2
      <3>2. Len(s) + i \in 1..(Len(s) + Len(w)) /\ Len(s) + i > Len(s) /\ Len(s) + i \in Nat
        BY <1>2, <3>1
      <3> QED
        BY <1>1, <1>2, <3>1, <3>2
    <2>3. ~Goes(r, Len(s) + i, t)
      BY <1>2, <1>5, <2>2
    <2> QED
      BY <2>1, <2>2, <2>3 DEF Coming
  <1> QED
    BY <1>5, <1>6, <1>7 DEF r

\* When the head is handled, what was coming still is, or the head brought it.
LEMMA ComingHandled ==
    ASSUME server \in Server, NEW note, Handles(note), NEW t
    PROVE  /\ Goes(server'.wire, 0, t) => Goes(server.wire, 0, t)
           /\ Coming(server.wire, t) =>
                \/ Coming(server'.wire, t)
                \/ Brings(note, t) /\ ~Goes(server'.wire, 0, t)
           /\ note.type = "thread/archived" /\ note.thread = t => Goes(server.wire, 0, t)
  <1> DEFINE s == server.wire
             r == server'.wire
  <1>1. /\ note \in Notice /\ s \in Seq(Notice) /\ note = s[1] /\ Len(s) >= 1
        /\ Len(r) = Len(s) - 1 /\ \A i \in 1..Len(r) : r[i] = s[i + 1]
        /\ server' \in Server
    BY HandlesType
  <1>2. /\ r \in Seq(Notice) /\ DOMAIN r = 1..Len(r) /\ DOMAIN s = 1..Len(s)
        /\ Len(s) \in Nat /\ Len(r) \in Nat
    BY <1>1 DEF Server
  <1> HIDE DEF r, s
  <1>3. ASSUME NEW i \in Nat
        PROVE  Goes(r, i, t) <=> Goes(s, i + 1, t)
    <2>1. ASSUME Goes(r, i, t)
          PROVE  Goes(s, i + 1, t)
      <3>1. PICK j \in DOMAIN r : j > i /\ r[j].type = "thread/archived" /\ r[j].thread = t
        BY <2>1 DEF Goes
      <3>2. j + 1 \in DOMAIN s /\ s[j + 1] = r[j] /\ j + 1 > i + 1
        BY <1>1, <1>2, <3>1
      <3> QED
        BY <3>1, <3>2 DEF Goes
    <2>2. ASSUME Goes(s, i + 1, t)
          PROVE  Goes(r, i, t)
      <3>1. PICK j \in DOMAIN s : j > i + 1 /\ s[j].type = "thread/archived" /\ s[j].thread = t
        BY <2>2 DEF Goes
      <3>2. j - 1 \in 1..Len(r) /\ (j - 1) + 1 = j /\ j - 1 > i
        BY <1>1, <1>2, <3>1
      <3>3. r[j - 1] = s[j]
        BY <1>1, <3>2
      <3> QED
        BY <1>2, <3>1, <3>2, <3>3 DEF Goes
    <2> QED
      BY <2>1, <2>2
  <1>4. Goes(s, 1, t) => Goes(s, 0, t)
    BY <1>2 DEF Goes
  <1>5. Goes(r, 0, t) <=> Goes(s, 1, t)
    BY <1>3
  <1>6. ASSUME Coming(s, t)
        PROVE  Coming(r, t) \/ (Brings(note, t) /\ ~Goes(r, 0, t))
    <2>1. PICK i \in DOMAIN s : Brings(s[i], t) /\ ~Goes(s, i, t)
      BY <1>6 DEF Coming
    <2>2. CASE i = 1
      BY <1>1, <1>5, <2>1, <2>2
    <2>3. CASE i # 1
      <3>1. i - 1 \in 1..Len(r) /\ (i - 1) + 1 = i /\ i - 1 \in Nat
        BY <1>1, <1>2, <2>3
      <3>2. r[i - 1] = s[i] /\ i - 1 \in DOMAIN r
        BY <1>1, <1>2, <3>1
      <3>3. ~Goes(r, i - 1, t)
        BY <1>3, <2>1, <3>1
      <3> QED
        BY <2>1, <3>2, <3>3 DEF Coming
    <2> QED
      BY <2>2, <2>3
  <1>7. note.type = "thread/archived" /\ note.thread = t => Goes(s, 0, t)
    BY <1>1, <1>2 DEF Goes
  <1> QED
    BY <1>4, <1>5, <1>6, <1>7 DEF r, s

----------------------------------------------------------------------------
(* The steps that list nothing                                              *)

LEMMA Spends ==
    ASSUME plan \in Plan, NEW what \in {"lists", "opens", "removals", "reports", "archives", "faults"},
           Spend(what)
    PROVE  PlanStays
  <1>1. plan[what] \in Nat /\ plan[what] > 0
    BY DEF Plan, Spend
  <1>2. plan[what] - 1 \in Nat /\ plan' = [plan EXCEPT ![what] = plan[what] - 1]
    BY <1>1 DEF Spend, Plan
  <1> QED
    BY <1>2 DEF Plan, PlanStays

LEMMA KeepsPlan ==
    ASSUME plan \in Plan, UNCHANGED plan
    PROVE  PlanStays
  BY DEF PlanStays

\* No list is asked for, and no archive is forgotten but of a thread that is gone, or
\* that has its row or lost it.
CallsStay ==
  /\ \A c \in calls' : c.op \in {"list", "older"} => c \in calls
  /\ \A c \in calls : c.op = "archive" =>
       c \in calls' \/ c.thread \notin server'.alive \/ c.thread \in Ids(store') \cup past'.lost

LEMMA RemovingStays ==
    ASSUME CallsStay
    PROVE  \A t \in server'.alive : t \in Removing => t \in Removing' \cup Ids(store') \cup past'.lost
  BY DEF CallsStay, Removing

LEMMA GentleWrites ==
    ASSUME server \in Server, PlanStays, CallsStay, store'.cursor = store.cursor,
           PastGrows,
           NEW w \in Seq(Notice), server'.wire = server.wire \o w,
           \A t \in server'.alive \cap Ours :
             /\ ~Goes(w, 0, t)
             /\ t \in server.alive \/ (Coming(w, t) /\ (Listing => t \in past'.late))
             /\ t \in Ids(store) => t \in Ids(store') \cup Removing'
    PROVE  Gentle
  <1>1. server.wire \in Seq(Notice)
    BY ServerFields
  <1>2. \A t \in server'.alive \cap Ours :
           /\ Coming(server.wire, t) => Coming(server'.wire, t)
           /\ Goes(server'.wire, 0, t) => Goes(server.wire, 0, t)
           /\ Coming(w, t) => Coming(server'.wire, t)
    BY <1>1, ComingWritten
  <1>3. \A t \in server'.alive : t \in Removing => t \in Removing' \cup Ids(store') \cup past'.lost
    BY RemovingStays
  <1> QED
    BY <1>2, <1>3 DEF Gentle, CallsStay

LEMMA GentleQuiet ==
    ASSUME server \in Server, PlanStays, CallsStay, store'.cursor = store.cursor,
           UNCHANGED <<server, past>>,
           \A t \in server.alive : t \in Ids(store) => t \in Ids(store') \cup Removing'
    PROVE  Gentle
  <1> DEFINE w == <<>>
  <1>1. server.wire \in Seq(Notice)
    BY ServerFields
  <1>2. w \in Seq(Notice) /\ server'.wire = server.wire \o w /\ \A t : ~Goes(w, 0, t)
    BY <1>1 DEF Goes
  <1> HIDE DEF w
  <1>3. PastGrows
    BY DEF PastGrows
  <1> QED
    BY <1>2, <1>3, GentleWrites

\* One note is written, of an archive or not.
LEMMA GentleAppends ==
    ASSUME server \in Server, PlanStays, CallsStay, store'.cursor = store.cursor,
           PastGrows,
           NEW n \in Notice, server'.wire = Append(server.wire, n),
           \A t \in server'.alive \cap Ours :
             /\ ~(n.type = "thread/archived" /\ n.thread = t)
             /\ t \in server.alive \/ (Brings(n, t) /\ (Listing => t \in past'.late))
             /\ t \in Ids(store) => t \in Ids(store') \cup Removing'
    PROVE  Gentle
  <1> DEFINE w == <<n>>
  <1>1. server.wire \in Seq(Notice)
    BY ServerFields
  <1>2. w \in Seq(Notice) /\ server'.wire = server.wire \o w /\ DOMAIN w = {1} /\ w[1] = n
    BY <1>1
  <1> HIDE DEF w
  <1>3. ASSUME NEW t \in server'.alive \cap Ours
        PROVE  /\ ~Goes(w, 0, t) /\ (Brings(n, t) => Coming(w, t))
    <2>1. \A i \in DOMAIN w : ~(w[i].type = "thread/archived" /\ w[i].thread = t)
      BY <1>2
    <2> QED
      BY <1>2, <2>1 DEF Goes, Coming
  <1> QED
    BY <1>2, <1>3, GentleWrites

LEMMA GentleHandles ==
    ASSUME server \in Server, ComesOK, PlanStays, CallsStay, store'.cursor = store.cursor,
           PastGrows, NEW note, Handles(note),
           note.type = "thread/archived" =>
             /\ Listing => note.thread \in past'.late
             /\ \A t \in Ids(store) : t # note.thread => t \in Ids(store'),
           note.type # "thread/archived" => \A t \in Ids(store) \cap Ours : t \in Ids(store'),
           \A t \in server.alive \cap Ours : Brings(note, t) => t \in Ids(store')
    PROVE  Gentle
  <1>1. server'.alive = server.alive
    BY HandlesType
  <1>2. \A t : /\ Goes(server'.wire, 0, t) => Goes(server.wire, 0, t)
               /\ Coming(server.wire, t) =>
                    \/ Coming(server'.wire, t)
                    \/ Brings(note, t) /\ ~Goes(server'.wire, 0, t)
               /\ note.type = "thread/archived" /\ note.thread = t => Goes(server.wire, 0, t)
    BY ComingHandled
  <1>3. \A t \in server'.alive : t \in Removing => t \in Removing' \cup Ids(store') \cup past'.lost
    BY RemovingStays
  <1>4. ASSUME NEW t \in server'.alive \cap Ours, t \in Ids(store), t \notin Ids(store')
        PROVE  Coming(server'.wire, t) /\ (Listing => t \in past'.late)
    <2>1. note.type = "thread/archived" /\ note.thread = t
      BY <1>4
    <2>2. Coming(server.wire, t)
      BY <1>1, <1>2, <2>1 DEF ComesOK
    <2>3. ~Brings(note, t)
      BY <2>1 DEF Brings
    <2> QED
      BY <1>2, <2>1, <2>2, <2>3
  <1> QED
    BY <1>1, <1>2, <1>3, <1>4 DEF Gentle, CallsStay

LEMMA AsksStay ==
    ASSUME NEW op, op \notin {"list", "older"}, NEW t, calls' = calls \cup {Ask(op, t)}
    PROVE  CallsStay
  BY DEF CallsStay, Ask

LEMMA EndsStay ==
    ASSUME NEW c, calls' = calls \ {c}, c.op # "archive" \/ c.thread \notin server'.alive
    PROVE  CallsStay
  BY DEF CallsStay

LEMMA RenderGentle ==
    ASSUME TypeOK, plan \in Plan, Render
    PROVE  Gentle
  <1> DEFINE parent == [t \in Threads |->
       IF /\ <<t, ReviewOf[t]>> \in links
          /\ {t, ReviewOf[t]} \subseteq ListIds(store, Workspace)
          /\ store.parent[t] = None
          /\ t \notin Ancestors(store, ReviewOf[t])
         THEN ReviewOf[t] ELSE store.parent[t]]
  <1>1. store \in Store /\ server \in Server /\ UNCHANGED <<app, calls, server, plan, past>>
    BY DEF TypeOK, Render
  <1>2. store' = [store EXCEPT !.parent = parent]
    BY <1>1 DEF Render, Store
  <1> HIDE DEF parent
  <1>3. store'.list = store.list /\ store'.cursor = store.cursor
    BY <1>1, <1>2 DEF Store
  <1>4. Ids(store') = Ids(store)
    BY <1>3 DEF Ids, ListIds
  <1>5. PlanStays /\ CallsStay
    BY <1>1, KeepsPlan DEF CallsStay
  <1> QED
    BY <1>1, <1>3, <1>4, <1>5, GentleQuiet

\* What the user does but for the lists.
LEMMA UserGentle ==
    ASSUME TypeOK, plan \in Plan,
           \/ StartThread \/ StartReview \/ ResetWorkspaceThreads
           \/ \E t \in Threads : ForkThread(t) \/ SelectThread(t) \/ RemoveThreadRow(t)
    PROVE  Gentle
  <1>1. store \in Store /\ server \in Server
    BY DEF TypeOK
  <1>2. CASE StartThread
    <2>1. PlanStays
      BY <1>2, Spends DEF StartThread
    <2>2. CallsStay
      BY <1>2, AsksStay DEF StartThread
    <2> QED
      BY <1>1, <1>2, <2>1, <2>2, GentleQuiet DEF StartThread
  <1>3. CASE StartReview
    <2>1. PlanStays
      BY <1>3, Spends DEF StartReview
    <2>2. CallsStay
      BY <1>3, AsksStay DEF StartReview
    <2> QED
      BY <1>1, <1>3, <2>1, <2>2, GentleQuiet DEF StartReview
  <1>4. CASE ResetWorkspaceThreads
    <2>1. PlanStays
      BY <1>4, Spends DEF ResetWorkspaceThreads
    <2>2. CallsStay
      BY <1>4 DEF ResetWorkspaceThreads, CallsStay
    <2> QED
      BY <1>1, <1>4, <2>1, <2>2, GentleQuiet DEF ResetWorkspaceThreads
  <1>5. ASSUME NEW t \in Threads, ForkThread(t)
        PROVE  Gentle
    <2>1. PlanStays
      BY <1>5, Spends DEF ForkThread
    <2>2. CallsStay
      BY <1>5, AsksStay DEF ForkThread
    <2> QED
      BY <1>1, <1>5, <2>1, <2>2, GentleQuiet DEF ForkThread
  <1>6. ASSUME NEW t \in Threads, SelectThread(t)
        PROVE  Gentle
    <2>1. PlanStays
      BY <1>6, Spends DEF SelectThread
    <2>2. CallsStay
      <3>1. calls' = calls \/ calls' = calls \cup {Ask("resume", t)}
        BY <1>6 DEF SelectThread
      <3> QED
        BY <3>1, AsksStay DEF CallsStay
    <2>3. Ids(store') = Ids(store) /\ store'.cursor = store.cursor
      BY <1>1, <1>6, SetActiveEffect DEF SelectThread
    <2> QED
      BY <1>1, <1>6, <2>1, <2>2, <2>3, GentleQuiet DEF SelectThread
  <1>7. ASSUME NEW t \in Threads, RemoveThreadRow(t)
        PROVE  Gentle
    <2>1. PlanStays
      BY <1>7, Spends DEF RemoveThreadRow
    <2>2. CallsStay
      BY <1>7, AsksStay DEF RemoveThreadRow
    <2>3. Ids(store') = Ids(store) \ {t} /\ store'.cursor = store.cursor
      BY <1>1, <1>7, RemoveEffect DEF RemoveThreadRow
    <2>4. t \in Removing'
      <3>1. Ask("archive", t) \in calls' /\ Ask("archive", t).op = "archive"
            /\ Ask("archive", t).thread = t
        BY <1>7 DEF RemoveThreadRow, Ask
      <3> QED
        BY <3>1 DEF Removing
    <2> QED
      BY <1>1, <1>7, <2>1, <2>2, <2>3, <2>4, GentleQuiet DEF RemoveThreadRow
  <1> QED
    BY <1>2, <1>3, <1>4, <1>5, <1>6, <1>7

LEMMA ListFailsGentle ==
    ASSUME TypeOK, plan \in Plan, NEW c \in calls, ListFails(c)
    PROVE  Gentle
  <1>1. store \in Store /\ server \in Server /\ UNCHANGED <<server, past>> /\ CallsStay
    BY DEF TypeOK, ListFails, CallsStay
  <1>2. PlanStays
    BY Spends DEF ListFails
  <1>3. store' = store \/ Keeps(store, store')
    BY <1>1, LoadingEffect DEF ListFails
  <1>4. Ids(store') = Ids(store) /\ store'.cursor = store.cursor
    BY <1>3, SameRows DEF Keeps
  <1> QED
    BY <1>1, <1>2, <1>4, GentleQuiet

LEMMA NotStartedGentle ==
    ASSUME TypeOK, plan \in Plan, NEW c \in calls, NotStarted(c)
    PROVE  Gentle
  <1>1. server \in Server /\ UNCHANGED <<store, server, past>>
    BY DEF TypeOK, NotStarted
  <1>2. CallsStay
    BY EndsStay DEF NotStarted
  <1>3. PlanStays
    BY Spends, KeepsPlan DEF NotStarted
  <1> QED
    BY <1>1, <1>2, <1>3, GentleQuiet

LEMMA ResumedGentle ==
    ASSUME TypeOK, plan \in Plan, NEW c \in calls, Resumed(c)
    PROVE  Gentle
  <1> DEFINE t == c.thread
             children == {u \in server.alive : Spawner[u] = t}
             e == EnsureThread(store, Workspace, t)
             h == UpdateThreadParent(e, t, children)
  <1>1. /\ store \in Store /\ server \in Server /\ t \in server.alive /\ c.op = "resume"
        /\ UNCHANGED <<server, plan, past>>
        /\ store' = LinkedAll(h, {t}) /\ calls' = calls \ {c}
    BY DEF TypeOK, Resumed, Linked
  <1>2. t \in Threads
    BY <1>1, ServerFields
  <1> HIDE DEF t
  <1>3. e \in Store /\ e.cursor = store.cursor /\ Ids(store) \subseteq Ids(e)
    BY <1>1, <1>2, EnsureEffect
  <1> HIDE DEF e
  <1>4. h \in Store /\ h.list = e.list /\ h.cursor = e.cursor
    <2> HIDE DEF children
    <2> QED
      BY <1>2, <1>3, HangEffect
  <1> HIDE DEF h
  <1>5. store'.list = h.list /\ store'.cursor = h.cursor
    BY <1>1, <1>4, LinkedEffect
  <1>6. Ids(store') = Ids(e)
    BY <1>4, <1>5, SameRows
  <1>7. CallsStay /\ PlanStays
    BY <1>1, EndsStay, KeepsPlan
  <1> QED
    BY <1>1, <1>3, <1>4, <1>5, <1>6, <1>7, GentleQuiet

LEMMA CascadeAsksGentle ==
    ASSUME TypeOK, plan \in Plan, NEW c \in calls, CascadeAsks(c)
    PROVE  Gentle
  <1>1. server \in Server /\ UNCHANGED <<store, server, plan, past>> /\ c.op = "cascade"
    BY DEF TypeOK, CascadeAsks
  <1>2. PICK d : calls' = (calls \ {c}) \cup {d} /\ d.op = "cascade"
    BY CascadeAsksDoes
  <1>3. CallsStay /\ PlanStays
    BY <1>1, <1>2, KeepsPlan DEF CallsStay
  <1> QED
    BY <1>1, <1>3, GentleQuiet

\* A thread is archived.
LEMMA GoesGentle ==
    ASSUME TypeOK, PlanStays, CallsStay, UNCHANGED store, PastGrows,
           NEW t \in Threads, server' = Archived(server, t)
    PROVE  Gentle
  <1> DEFINE n == Note("thread/archived", t)
  <1>1. server \in Server /\ n \in Notice /\ n.thread = t /\ n.type = "thread/archived"
    BY NoteType DEF TypeOK, Kinds
  <1>2. server'.alive = server.alive \ {t} /\ server'.wire = Append(server.wire, n)
    BY <1>1, ArchivedType
  <1> HIDE DEF n
  <1> QED
    BY <1>1, <1>2, GentleAppends

LEMMA ArchiveAnswerGentle ==
    ASSUME TypeOK, plan \in Plan, NEW c \in calls, ArchiveAnswer(c)
    PROVE  Gentle
  <1>1. /\ server \in Server /\ past \in Past /\ calls' = calls \ {c} /\ UNCHANGED store
        /\ \/ c.thread \in server.alive /\ server' = Archived(server, c.thread) /\ Missed(c.thread)
           \/ c.thread \notin server.alive /\ UNCHANGED <<server, past>>
           \/ UNCHANGED server /\ Refused(c.thread)
    BY DEF TypeOK, ArchiveAnswer, Refused
  <1>2. c.thread \in Threads /\ PlanStays
    BY ArchiveAnswerDoes, KeepsPlan, Spends DEF ArchiveAnswer
  <1>3. CASE c.thread \notin server.alive /\ UNCHANGED <<server, past>>
    <2>1. CallsStay
      BY <1>1, <1>3, EndsStay
    <2> QED
      BY <1>1, <1>2, <1>3, <2>1, GentleQuiet
  <1>4. CASE server' = Archived(server, c.thread) /\ Missed(c.thread)
    <2>1. server'.alive = server.alive \ {c.thread}
      BY <1>1, <1>2, <1>4, ArchivedType
    <2>2. CallsStay
      BY <1>1, <2>1, EndsStay
    <2>3. PastGrows
      BY <1>1, <1>2, <1>4, MissedType DEF PastGrows
    <2> QED
      BY <1>1, <1>2, <1>4, <2>2, <2>3, GoesGentle
  <1>5. CASE UNCHANGED server /\ Refused(c.thread)
    <2>1. /\ past'.late = past.late /\ past.lost \subseteq past'.lost
          /\ c.thread \in Ids(store) \cup past'.lost
      BY <1>1, <1>2, <1>5, RefusedType
    <2>2. CallsStay /\ PastGrows /\ Ids(store') = Ids(store)
      BY <1>1, <2>1 DEF CallsStay, PastGrows, Ids
    <2> DEFINE w == <<>>
    <2>3. server.wire \in Seq(Notice)
      BY <1>1, ServerFields
    <2>4. w \in Seq(Notice) /\ server'.wire = server.wire \o w /\ \A t : ~Goes(w, 0, t)
      BY <1>5, <2>3 DEF Goes
    <2> HIDE DEF w
    <2> QED
      BY <1>1, <1>2, <1>5, <2>2, <2>4, GentleWrites
  <1> QED
    BY <1>1, <1>3, <1>4, <1>5

LEMMA CascadeAnswerGentle ==
    ASSUME TypeOK, plan \in Plan, NEW c \in calls, CascadeAnswer(c)
    PROVE  Gentle
  <1>1. /\ c.thread \in Threads /\ c.op = "cascade"
        /\ \/ calls' = calls \ {c}
           \/ \E d : calls' = (calls \ {c}) \cup {d} /\ d.op = "cascade"
        /\ server' = Archived(server, c.thread) \/ (server' = server /\ past'.late = past.late)
        /\ PastGrows
    BY CascadeAnswerDoes DEF PastGrows
  <1>2. server \in Server /\ UNCHANGED store /\ CallsStay
    BY <1>1 DEF TypeOK, CascadeAnswer, CallsStay
  <1>3. PlanStays
    BY Spends, KeepsPlan DEF CascadeAnswer
  <1>4. CASE server' = Archived(server, c.thread)
    BY <1>1, <1>2, <1>3, <1>4, GoesGentle
  <1>5. CASE server' = server /\ past'.late = past.late
    <2> DEFINE w == <<>>
    <2>1. server.wire \in Seq(Notice)
      BY <1>2, ServerFields
    <2>2. w \in Seq(Notice) /\ server'.wire = server.wire \o w /\ \A t : ~Goes(w, 0, t)
      BY <1>5, <2>1 DEF Goes
    <2> HIDE DEF w
    <2>3. QED
      <3>1. store'.cursor = store.cursor /\ Ids(store') = Ids(store)
        BY <1>2 DEF Ids
      <3>2. PastGrows
        BY <1>1
      <3>3. \A t \in server'.alive \cap Ours :
              /\ ~Goes(w, 0, t)
              /\ t \in server.alive \/ (Coming(w, t) /\ (Listing => t \in past'.late))
              /\ t \in Ids(store) => t \in Ids(store') \cup Removing'
        BY <1>5, <2>2, <3>1
      <3> QED
        BY <1>2, <1>3, <2>2, <3>1, <3>2, <3>3, GentleWrites
  <1> QED
    BY <1>1, <1>4, <1>5

\* A thread that is nobody's agent comes.
LEMMA BornGentle ==
    ASSUME TypeOK, PlanStays, CallsStay, store'.cursor = store.cursor,
           Ids(store) \subseteq Ids(store'), NEW t \in Threads, Missed(t), Spawner[t] = None,
           server' = [server EXCEPT !.alive = @ \cup {t}, !.unborn = @ \ {t},
                                    !.wire = Append(@, Note("thread/started", t))]
    PROVE  Gentle
  <1> DEFINE n == Note("thread/started", t)
  <1>1. /\ server \in Server /\ past \in Past /\ n \in Notice /\ n.type = "thread/started"
        /\ n.thread = t
    BY NoteType DEF TypeOK, Kinds
  <1>2. server'.alive = server.alive \cup {t} /\ server'.wire = Append(server.wire, n)
    BY <1>1 DEF Server
  <1>3. past'.late = IF Listing THEN past.late \cup {t} ELSE past.late
    BY <1>1, MissedType
  <1>5. PastGrows
    BY <1>1, MissedType DEF PastGrows
  <1>4. Brings(n, t)
    BY <1>1 DEF Brings
  <1> HIDE DEF n
  <1> QED
    BY <1>1, <1>2, <1>3, <1>4, <1>5, GentleAppends

LEMMA StartedGentle ==
    ASSUME TypeOK, plan \in Plan, NEW c \in calls, NEW t \in Threads, Started(c, t)
    PROVE  Gentle
  <1>1. /\ store \in Store /\ Missed(t) /\ Spawner[t] = None /\ UNCHANGED plan
        /\ store' = SetActiveThreadId(EnsureThread(store, Workspace, t), Workspace, t)
        /\ server' = [server EXCEPT !.alive = @ \cup {t}, !.unborn = @ \ {t},
                                    !.wire = Append(@, Note("thread/started", t))]
        /\ c.op \in {"start", "fork"}
        /\ (calls' = calls \ {c} \/ calls' = (calls \ {c}) \cup {Ask("resume", t)})
    BY DEF TypeOK, Started
  <1> DEFINE e == EnsureThread(store, Workspace, t)
  <1>2. e \in Store /\ Ids(store) \subseteq Ids(e) /\ e.cursor = store.cursor
    BY <1>1, EnsureEffect
  <1> HIDE DEF e
  <1>3. Ids(store') = Ids(e) /\ store'.cursor = e.cursor
    BY <1>1, <1>2, SetActiveEffect DEF e
  <1>4. CallsStay /\ PlanStays
    BY <1>1, KeepsPlan DEF CallsStay, Ask
  <1> QED
    BY <1>1, <1>2, <1>3, <1>4, BornGentle

LEMMA RegisterGentle ==
    ASSUME TypeOK, plan \in Plan, NEW c \in calls, NEW t \in Threads,
           RegisterDetachedReviewChild(c, t)
    PROVE  Gentle
  <1>1. /\ store \in Store /\ Missed(t) /\ UNCHANGED plan /\ c.op = "review"
        /\ store' = UpdateThreadParent(store, c.thread, {t}) /\ ReviewOf[t] = c.thread
        /\ server' = [server EXCEPT !.alive = @ \cup {t}, !.unborn = @ \ {t},
                                    !.wire = Append(@, Note("thread/started", t))]
        /\ calls' = calls \ {c}
    BY DEF TypeOK, RegisterDetachedReviewChild
  <1>2. c.thread \in Threads
    BY RegisterDoes
  <1>3. Spawner[t] = None
    BY <1>1, <1>2, OursOf, NoneAssumption
  <1>4. store'.list = store.list /\ store'.cursor = store.cursor
    BY <1>1, <1>2, HangEffect
  <1>5. Ids(store') = Ids(store)
    BY <1>4, SameRows
  <1>6. CallsStay /\ PlanStays
    BY <1>1, EndsStay, KeepsPlan
  <1> QED
    BY <1>1, <1>3, <1>4, <1>5, <1>6, BornGentle

LEMMA ServerSpawnsGentle ==
    ASSUME TypeOK, plan \in Plan, NEW t \in Threads, NEW informed \in BOOLEAN,
           ServerSpawns(t, informed)
    PROVE  Gentle
  <1> DEFINE w == Birth(t, informed)
  <1>1. /\ server \in Server /\ past \in Past /\ Missed(t) /\ UNCHANGED <<store, calls, plan>>
        /\ Spawner[t] # None \/ t \in Memory
    BY DEF TypeOK, ServerSpawns
  <1>2. server'.wire = server.wire \o w /\ server'.alive = server.alive \cup {t}
    BY ServerSpawnsDoes
  <1>3. /\ w \in Seq(Notice) /\ w[1].type = "thread/started"
        /\ \/ t \in Memory /\ Len(w) = 1
           \/ /\ t \notin Memory /\ Len(w) = 3 /\ w[2].type = "collab"
              /\ w[3].type = "turn/started" /\ w[3].thread = t
    BY <1>1, BirthType
  <1> HIDE DEF w
  <1>4. DOMAIN w = 1..Len(w)
    BY <1>3
  <1>5. \A u : ~Goes(w, 0, u)
    <2>1. \A i \in DOMAIN w : i \in {1, 2, 3} /\ (i # 1 => Len(w) = 3)
      BY <1>3, <1>4
    <2>2. \A i \in DOMAIN w : w[i].type # "thread/archived"
      BY <1>3, <2>1
    <2> QED
      BY <2>2 DEF Goes
  <1>6. t \in Ours => Coming(w, t)
    <2> SUFFICES ASSUME t \notin Memory
                 PROVE  Coming(w, t)
      BY DEF Ours
    <2>1. 3 \in DOMAIN w /\ Brings(w[3], t)
      BY <1>3, <1>4 DEF Brings
    <2>2. ~Goes(w, 3, t)
      BY <1>3, <1>4 DEF Goes
    <2> QED
      BY <2>1, <2>2 DEF Coming
  <1>7. past'.late = IF Listing THEN past.late \cup {t} ELSE past.late
    BY <1>1, MissedType
  <1>10. PastGrows
    BY <1>1, MissedType DEF PastGrows
  <1>8. CallsStay /\ PlanStays
    BY <1>1, KeepsPlan DEF CallsStay
  <1>9. \A u \in server'.alive \cap Ours :
          u \in server.alive \/ (Coming(w, u) /\ (Listing => u \in past'.late))
    BY <1>2, <1>6, <1>7
  <1> QED
    BY <1>1, <1>2, <1>3, <1>5, <1>8, <1>9, <1>10, GentleWrites

LEMMA ServerReportsGentle ==
    ASSUME TypeOK, plan \in Plan, NEW t \in Threads, ServerReports(t)
    PROVE  Gentle
  <1> DEFINE n == [Note("collab", t) EXCEPT !.others = {Spawner[t]}]
  <1>1. server \in Server /\ UNCHANGED <<store, calls, past>>
    BY DEF TypeOK, ServerReports, Emit
  <1>2. /\ n \in Notice /\ n.type = "collab" /\ server'.wire = Append(server.wire, n)
        /\ server'.alive = server.alive
    BY ServerReportsDoes
  <1>3. PlanStays
    BY Spends DEF ServerReports
  <1>4. CallsStay /\ PastGrows
    BY <1>1 DEF CallsStay, PastGrows
  <1> HIDE DEF n
  <1> QED
    BY <1>1, <1>2, <1>3, <1>4, GentleAppends

LEMMA ServerArchivesGentle ==
    ASSUME TypeOK, plan \in Plan, NEW t \in Threads, ServerArchives(t)
    PROVE  Gentle
  <1>1. past \in Past /\ UNCHANGED <<store, calls>> /\ Missed(t) /\ server' = Archived(server, t)
    BY DEF TypeOK, ServerArchives
  <1>2. PlanStays
    BY Spends DEF ServerArchives
  <1>3. CallsStay /\ PastGrows
    BY <1>1, MissedType DEF CallsStay, PastGrows
  <1> QED
    BY <1>1, <1>2, <1>3, GoesGentle

LEMMA ServerUnarchivesGentle ==
    ASSUME TypeOK, plan \in Plan, NEW t \in Threads, ServerUnarchives(t)
    PROVE  Gentle
  <1> DEFINE n == Note("thread/unarchived", t)
  <1>1. /\ server \in Server /\ UNCHANGED <<store, calls>>
        /\ n \in Notice /\ n.type = "thread/unarchived" /\ n.thread = t
    BY NoteType DEF TypeOK, ServerUnarchives, Kinds
  <1>2. /\ server'.alive = server.alive \cup {t} /\ server'.wire = Append(server.wire, n)
        /\ past'.late = IF Listing THEN past.late \cup {t} ELSE past.late
        /\ PastGrows
    BY ServerUnarchivesDoes DEF PastGrows
  <1>3. PlanStays
    BY Spends DEF ServerUnarchives
  <1>4. CallsStay /\ Brings(n, t)
    BY <1>1 DEF CallsStay, Brings
  <1> HIDE DEF n
  <1> QED
    BY <1>1, <1>2, <1>3, <1>4, GentleAppends

LEMMA OnThreadStartedGentle ==
    ASSUME TypeOK, plan \in Plan, ComesOK, NEW note, Handles(note), OnThreadStarted(note)
    PROVE  Gentle
  <1> DEFINE t == note.thread
             e == EnsureThread(store, Workspace, t)
  <1>1. /\ store \in Store /\ seen \in Store /\ server \in Server /\ UNCHANGED <<calls, plan, past>>
        /\ note.type = "thread/started"
        /\ store' = IF t \in seen.hidden[Workspace] THEN store
                    ELSE IF t \in Memory THEN HideThread(store, Workspace, t)
                    ELSE IF Spawner[t] # None /\ t \notin note.others THEN store
                    ELSE LinkedAll(e, {t})
    BY DEF TypeOK, OnThreadStarted, Linked
  <1>2. t \in Threads
    BY <1>1, HandlesType DEF Notice
  <1>3. seen.hidden[Workspace] \subseteq Memory /\ store.hidden[Workspace] \subseteq Memory
    BY <1>1, StoreFields
  <1>4. \A u \in Ours : Brings(note, u) =>
          u = t /\ t \notin Memory /\ (Spawner[t] = None \/ t \in note.others)
    BY <1>1 DEF Brings, Ours
  <1>5. PlanStays /\ CallsStay /\ PastGrows
    BY <1>1, KeepsPlan DEF CallsStay, PastGrows
  <1> HIDE DEF t
  <1>6. /\ e \in Store /\ e.cursor = store.cursor /\ Ids(store) \subseteq Ids(e)
        /\ t \notin Memory => t \in Ids(e)
    BY <1>1, <1>2, <1>3, EnsureEffect
  <1> HIDE DEF e
  <1>7. LinkedAll(e, {t}).list = e.list /\ LinkedAll(e, {t}).cursor = e.cursor
    BY <1>6, LinkedEffect
  <1>8. Ids(LinkedAll(e, {t})) = Ids(e)
    BY <1>7, SameRows
  <1>9. t \in Memory => LET r == HideThread(store, Workspace, t) IN
          r.cursor = store.cursor /\ \A u \in Ids(store) : u # t => u \in Ids(r)
    BY <1>1, HideEffect
  <1>10. store'.cursor = store.cursor
    BY <1>1, <1>6, <1>7, <1>9
  <1>11. \A u \in Ids(store) \cap Ours : u \in Ids(store')
    BY <1>1, <1>6, <1>8, <1>9 DEF Ours
  <1>12. \A u \in Ours : Brings(note, u) => u \in Ids(store')
    BY <1>1, <1>3, <1>4, <1>6, <1>8
  <1> QED
    BY <1>1, <1>5, <1>10, <1>11, <1>12, GentleHandles

LEMMA EnsuresGentle ==
    ASSUME TypeOK, plan \in Plan, ComesOK, NEW note, Handles(note),
           OnThreadUnarchived(note) \/ OnTurnStarted(note)
    PROVE  Gentle
  <1>1. /\ store \in Store /\ server \in Server /\ UNCHANGED <<calls, plan, past>>
        /\ note.type # "thread/archived"
        /\ store' = EnsureThread(store, Workspace, note.thread)
    BY DEF TypeOK, OnThreadUnarchived, OnTurnStarted
  <1>2. note.thread \in Threads /\ store.hidden[Workspace] \subseteq Memory
    BY <1>1, HandlesType, StoreFields DEF Notice
  <1>3. /\ Ids(store) \subseteq Ids(store') /\ store'.cursor = store.cursor
        /\ note.thread \notin Memory => note.thread \in Ids(store')
    BY <1>1, <1>2, EnsureEffect
  <1>4. \A u \in Ours : Brings(note, u) => u \in Ids(store')
    BY <1>3 DEF Brings, Ours
  <1>5. PlanStays /\ CallsStay /\ PastGrows
    BY <1>1, KeepsPlan DEF CallsStay, PastGrows
  <1> QED
    BY <1>1, <1>3, <1>4, <1>5, GentleHandles

LEMMA OnCollabGentle ==
    ASSUME TypeOK, plan \in Plan, ComesOK, NEW note, Handles(note), OnCollab(note)
    PROVE  Gentle
  <1> DEFINE t == note.thread
             e == EnsureThread(store, Workspace, t)
  <1>1. /\ store \in Store /\ server \in Server /\ UNCHANGED <<calls, plan>> /\ note.type = "collab"
        /\ store' = UpdateThreadParent(e, t, note.others)
    BY DEF TypeOK, OnCollab
  <1>2. t \in Threads /\ past'.late = past.late /\ PastGrows
    BY OnCollabDoes DEF PastGrows
  <1>3. e \in Store /\ e.cursor = store.cursor /\ Ids(store) \subseteq Ids(e)
    BY <1>1, <1>2, EnsureEffect
  <1> HIDE DEF e
  <1>4. store'.list = e.list /\ store'.cursor = e.cursor
    BY <1>1, <1>2, <1>3, HangEffect
  <1>5. Ids(store') = Ids(e)
    BY <1>4, SameRows
  <1>6. \A u : ~Brings(note, u)
    BY <1>1 DEF Brings
  <1>7. PlanStays /\ CallsStay
    BY <1>1, KeepsPlan DEF CallsStay
  <1> QED
    BY <1>1, <1>2, <1>3, <1>4, <1>5, <1>6, <1>7, GentleHandles

LEMMA OnThreadArchivedGentle ==
    ASSUME TypeOK, plan \in Plan, ComesOK, NEW note, Handles(note), OnThreadArchived(note)
    PROVE  Gentle
  <1> DEFINE t == note.thread
  <1>1. /\ store \in Store /\ server \in Server /\ UNCHANGED plan /\ note.type = "thread/archived"
        /\ store' = RemoveThread(store, Workspace, t)
    BY DEF TypeOK, OnThreadArchived
  <1>2. /\ t \in Threads /\ PastGrows /\ past'.late = IF Listing THEN past.late \cup {t} ELSE past.late
        /\ \/ calls' = calls
           \/ \E d : calls' = calls \cup {d} /\ d.op = "cascade"
    BY OnThreadArchivedDoes DEF PastGrows
  <1>3. Ids(store') = Ids(store) \ {t} /\ store'.cursor = store.cursor
    BY <1>1, <1>2, RemoveEffect
  <1>4. \A u : ~Brings(note, u)
    BY <1>1 DEF Brings
  <1>5. PlanStays /\ CallsStay
    BY <1>1, <1>2, KeepsPlan DEF CallsStay
  <1> QED
    BY <1>1, <1>2, <1>3, <1>4, <1>5, GentleHandles

----------------------------------------------------------------------------
(* The lists                                                                *)

\* What a call had not read above its cursor is in the page, or below the next.
LEMMA PageReads ==
    ASSUME server \in Server, NEW c \in Call, NEW t \in server.alive \cap Ours,
           \/ c.cursor = None
           \/ t < c.cursor
           \/ t \in ToSet(c.got)
    PROVE  \/ t \in ToSet(Matching(c, Page(c.cursor)))
           \/ Page(c.cursor).next # None /\ t < Page(c.cursor).next
  <1>1. c.cursor \in OrNone(Threads) /\ c.got \in Seq(Threads)
    BY DEF Call
  <1> DEFINE page == Page(c.cursor)
  <1>2. page.threads \in Seq(Threads)
    BY <1>1, PageOf
  <1>3. c.cursor = None \/ t < c.cursor =>
          t \in ToSet(page.threads) \/ (page.next # None /\ t < page.next)
    BY <1>1, PageCovers
  <1> HIDE DEF page
  <1>4. ToSet(Matching(c, page)) = ToSet(c.got) \cup (ToSet(page.threads) \cap Ours)
    BY <1>1, <1>2, MatchingOf
  <1> QED
    BY <1>3, <1>4 DEF page

LEMMA ListThreadsReach ==
    ASSUME TypeOK, plan \in Plan, ComesOK, OlderOK, ReachOK,
           NEW preserve \in BOOLEAN, ListThreads(preserve)
    PROVE  plan' \in Plan /\ ComesOK' /\ PagesOK' /\ OlderOK' /\ ReachOK'
  <1> DEFINE c == [op |-> "list", thread |-> None, preserve |-> preserve, cursor |-> None,
                   pages |-> 0, got |-> <<>>, resume |-> None, saw |-> Captured]
  <1>1. /\ UNCHANGED server /\ calls' = calls \cup {c} /\ Idle("list")
        /\ preserve => store' = store
        /\ past \in Past
        /\ \/ past' = past
           \/ /\ calls = {} /\ server.wire = <<>>
              /\ past' = [past EXCEPT !.late = @ \ server.alive, !.lost = {}]
    BY DEF TypeOK, ListThreads
  <1>2. /\ plan' \in Plan
        /\ plan'.listed => preserve /\ plan.listed /\ (past.late \cup past.lost) \cap server.alive = {}
    <2>1. /\ plan.lists \in Nat /\ plan.lists > 0
          /\ plan' = [plan EXCEPT !.lists = plan.lists - 1,
                                  !.listed = /\ plan.listed /\ preserve
                                             /\ (past.late \cup past.lost) \cap server.alive = {}]
      BY DEF Plan, ListThreads
    <2>2. plan.lists - 1 \in Nat
      BY <2>1
    <2> QED
      BY <2>1, <2>2 DEF Plan
  <1>3. /\ c.op = "list" /\ c.cursor = None /\ c.resume = None /\ c.got = <<>>
    OBVIOUS
  <1> HIDE DEF c
  <1>4. ComesOK'
    BY <1>1 DEF ComesOK
  <1>5. PagesOK'
    <2>1. Len(c.got) <= Target
      BY <1>3, ListAssumption
    <2>2. None \notin Threads
      BY NoneAssumption
    <2>3. \A d \in calls' : d.op = "list" => d = c
      BY <1>1 DEF Idle
    <2> QED
      BY <1>3, <2>1, <2>2, <2>3 DEF PagesOK
  <1>a. plan'.listed => Settled' \subseteq Settled /\ \A t : Held(t) => Held(t)'
    BY <1>1, <1>2 DEF Settled, Held, Removing
  <1>6. OlderOK'
    BY <1>1, <1>2, <1>3, <1>a DEF OlderOK
  <1>7. ReachOK'
    <2> SUFFICES ASSUME plan'.listed, NEW t \in Settled'
                 PROVE  Coming(server'.wire, t) \/ Held(t)' \/ After(store'.cursor[Workspace], t)
      BY DEF ReachOK
    <2>1. t \in Settled /\ (Held(t) => Held(t)')
      BY <1>a
    <2> QED
      BY <1>1, <1>2, <2>1 DEF ReachOK
  <1> QED
    BY <1>2, <1>4, <1>5, <1>6, <1>7

LEMMA LoadOlderReach ==
    ASSUME TypeOK, plan \in Plan, ComesOK, PagesOK, OlderOK, ReachOK, seen = store, LoadOlder
    PROVE  plan' \in Plan /\ ComesOK' /\ PagesOK' /\ OlderOK' /\ ReachOK'
  <1> DEFINE cursor == store.cursor[Workspace]
             c == [op |-> "older", thread |-> None, preserve |-> FALSE,
                   cursor |-> IF cursor = PageStart THEN None ELSE cursor,
                   pages |-> 0, got |-> <<>>, resume |-> None, saw |-> Captured]
  <1>1. /\ UNCHANGED <<server, past>> /\ calls' = calls \cup {c} /\ cursor # None
        /\ Idle("older")
        /\ store \in Store /\ store' = SetListPaging(store, Workspace, TRUE)
    BY DEF TypeOK, LoadOlder
  <1>2. PlanStays
    BY Spends DEF LoadOlder
  <1>3. Keeps(store, store')
    BY <1>1, LoadingEffect
  <1>4. Ids(store') = Ids(store) /\ store'.cursor = store.cursor
    BY <1>3, SameRows DEF Keeps
  <1>5. IdsOf(c.saw.rows) = Ids(store)
    BY <1>1, CapturedType
  <1>6. /\ c.op = "older" /\ c.pages = 0
        /\ c.cursor = IF cursor = PageStart THEN None ELSE cursor
    OBVIOUS
  <1> HIDE DEF c, cursor
  <1>7. ComesOK'
    BY <1>1 DEF ComesOK
  <1>8. PagesOK'
    BY <1>1, <1>6 DEF PagesOK, Settled
  <1>9. Settled' = Settled /\ \A t \in Settled : Held(t) => Held(t)'
    BY <1>1, <1>4 DEF Settled, Held, Removing
  <1>10. ReachOK'
    BY <1>1, <1>2, <1>4, <1>9 DEF ReachOK, PlanStays
  <1>11. OlderOK'
    <2>1. \A d \in calls' : d.op = "older" => d = c
      BY <1>1 DEF Idle
    <2>2. \A t : After(cursor, t) =>
             (c.cursor = None /\ c.pages = 0) \/ (c.cursor # None /\ t < c.cursor)
      BY <1>1, <1>6 DEF After
    <2>3. plan'.listed => \A t \in Settled : Coming(server.wire, t) \/ Held(t) \/ After(cursor, t)
      BY <1>2 DEF ReachOK, PlanStays, cursor
    <2>4. \A t \in IdsOf(c.saw.rows) : Held(t)'
      BY <1>4, <1>5 DEF Held
    <2> QED
      BY <1>1, <1>9, <2>1, <2>2, <2>3, <2>4 DEF OlderOK
  <1> QED
    BY <1>2, <1>7, <1>8, <1>10, <1>11 DEF PlanStays

\* No page is read over, whatever it was read for.
LEMMA PageSettles ==
    ASSUME server \in Server, NEW c \in Call, NEW t \in Settled,
           c.cursor # None => t < c.cursor \/ t \in ToSet(c.got)
    PROVE  LET page == Page(c.cursor)
               got == Matching(c, page)
           IN t \in ToSet(got) \/ (page.next # None /\ t < page.next)
  BY PageReads DEF Settled

\* What the end of a list and of an older page shows, and where the next goes on.
LEMMA ListedShows ==
    ASSUME NEW s \in Store, NEW c \in Call, NEW got \in Seq(Threads),
           NEW cursor \in OrNone(Threads) \cup {PageStart}, NEW r, r = Listed(c, s, got, cursor)
    PROVE  /\ r.cursor[Workspace] = cursor
           /\ ToSet(FirstOf(Target, got)) \ s.hidden[Workspace] \subseteq Ids(r)
  BY ListedEffect

LEMMA OlderShows ==
    ASSUME NEW s \in Store, NEW c \in Call, c.saw \in Capture, NEW got \in Seq(Threads),
           NEW cursor \in OrNone(Threads), NEW r, r = Older(c, s, got, cursor)
    PROVE  /\ r.cursor[Workspace] = cursor
           /\ \/ Ids(r) = Ids(s) /\ ToSet(got) \subseteq IdsOf(c.saw.rows)
              \/ Ids(r) = (IdsOf(c.saw.rows) \cup ToSet(got)) \ s.hidden[Workspace]
  <1>1. r.cursor[Workspace] = cursor /\ PutsBack(c, s, got, r)
    BY OlderEffect
  <1> QED
    BY <1>1 DEF PutsBack

LEMMA ListPageReach ==
    ASSUME TypeOK, plan \in Plan, ComesOK, PagesOK, OlderOK, ReachOK, NEW c \in calls, ListPage(c)
    PROVE  plan' \in Plan /\ ComesOK' /\ PagesOK' /\ OlderOK' /\ ReachOK'
  <1> DEFINE page == Page(c.cursor)
             got == Matching(c, page)
             full == Len(got) > Target /\ c.resume = None
             resume == IF full THEN IF c.cursor = None THEN PageStart ELSE c.cursor ELSE c.resume
             hid == HideMemory(store, page)
             d == [c EXCEPT !.cursor = page.next, !.pages = @ + 1, !.got = got, !.resume = resume]
             more == page.next # None /\ c.pages + 1 < MaxPages
  <1>1. /\ store \in Store /\ c \in Call /\ c.op = "list" /\ server \in Server
        /\ UNCHANGED <<server, past>> /\ Target \in Nat
    BY ListAssumption DEF TypeOK, CallType, ListPage
  <1>2. /\ c.cursor \in OrNone(Threads) /\ c.got \in Seq(Threads)
        /\ c.resume \in OrNone(Threads) \cup {PageStart}
    BY <1>1 DEF Call
  <1>3. page.threads \in Seq(Threads) /\ page.next \in OrNone(Threads)
    BY <1>1, <1>2, PageOf
  <1>4. IF more
          THEN calls' = (calls \ {c}) \cup {d} /\ store' = hid /\ UNCHANGED plan
          ELSE /\ calls' = calls \ {c}
               /\ store' = Listed(c, hid, got, IF resume # None THEN resume ELSE page.next)
               /\ plan' = [plan EXCEPT !.listed = Idle("older")]
    BY DEF ListPage
  <1>5. Threads \subseteq Nat /\ PageStart \notin OrNone(Threads) /\ None \notin Threads
    BY ThreadsAreRanks, ListAssumption DEF OrNone
  <1>6. /\ \A t \in Settled : t \in Nat /\ t \in Ours
        /\ \A t \in Settled, u \in Threads : t < u <=> ~(t >= u)
    <2>1. \A t, u \in Nat : t < u <=> ~(t >= u)
      OBVIOUS
    <2> QED
      BY <1>1, <1>5, <2>1 DEF Settled, Server
  <1>7. \A t \in Settled : c.cursor # None => t < c.cursor \/ t \in ToSet(c.got)
    <2>1. \A t \in Settled : c.cursor # None => c.cursor \in Nat /\ (t >= c.cursor => t \in ToSet(c.got))
      BY <1>1, <1>2, <1>5 DEF PagesOK, OrNone
    <2> QED
      BY <1>6, <2>1
  <1>8. \A t \in Settled : t \in ToSet(got) \/ (page.next # None /\ t < page.next)
    BY <1>1, <1>7, PageSettles
  <1> DEFINE rest == Those(page.threads, {t \in Threads : Shown(t)})
  <1>9. got = c.got \o rest /\ rest \in Seq(Threads) /\ got \in Seq(Threads)
    <2>1. rest \in Seq(Threads)
      BY <1>3, ThoseOf
    <2> QED
      BY <1>2, <1>3, <2>1, MatchingOf DEF Matching
  <1> HIDE DEF page, rest
  <1>10. hid \in Store /\ hid.cursor = store.cursor /\ Ids(store) \ Memory \subseteq Ids(hid)
    BY <1>1, HideMemoryEffect
  <1>11. /\ d.op = "list" /\ d.cursor = page.next /\ d.got = got /\ d.resume = resume
    BY <1>1 DEF Call
  <1> HIDE DEF got, hid
  <1>12. ToSet(FirstOf(Target, c.got)) \subseteq ToSet(FirstOf(Target, got))
    BY <1>1, <1>2, <1>9, FirstOfLonger
  <1>13. resume = None => c.resume = None /\ Len(got) <= Target
    <2>1. Len(got) \in Nat
      BY <1>9
    <2> QED
      BY <1>1, <1>5, <2>1 DEF OrNone
  <1>14. \A t \in Settled : resume \in Threads => t < resume \/ t \in ToSet(FirstOf(Target, got))
    <2> SUFFICES ASSUME NEW t \in Settled, resume \in Threads, ~(t < resume)
                 PROVE  t \in ToSet(FirstOf(Target, c.got))
      BY <1>12
    <2> HIDE DEF resume
    <2>1. t >= resume
      BY <1>6
    <2> USE DEF resume
    <2>2. CASE full
      <3>1. c.cursor # None /\ resume = c.cursor /\ c.resume = None
        BY <1>5, <2>2 DEF OrNone
      <3>2. t \in ToSet(c.got) /\ Len(c.got) <= Target
        BY <1>1, <2>1, <3>1 DEF PagesOK
      <3> QED
        BY <1>1, <1>2, <3>2, FirstOfMost
    <2>3. CASE ~full
      <3>1. resume = c.resume
        BY <2>3
      <3> QED
        BY <1>1, <2>1, <3>1 DEF PagesOK
    <2> QED
      BY <2>2, <2>3
  <1>15. resume \in OrNone(Threads) \cup {PageStart}
    BY <1>2
  <1> HIDE DEF d, resume, more
  <1>16. ComesOK' /\ Settled' = Settled
    BY <1>1 DEF ComesOK, Settled
  <1>17. /\ plan' \in Plan
         /\ more => plan' = plan
         /\ ~more => plan'.listed = Idle("older")
    <2>1. Idle("older") \in BOOLEAN
      BY DEF Idle
    <2> QED
      BY <1>4, <2>1 DEF Plan
  <1>18. \A e \in calls' : e \in calls \/ (more /\ e = d)
    BY <1>4
  <1>19. Removing' = Removing
    <2>1. \A e : e.op = "archive" => (e \in calls' <=> e \in calls)
      BY <1>1, <1>4, <1>11
    <2> QED
      BY <2>1 DEF Removing
  <1>20. PagesOK'
    <2> SUFFICES ASSUME NEW e \in calls', e.op = "list"
                 PROVE  /\ e.cursor # None => \A t \in Settled : t >= e.cursor => t \in ToSet(e.got)
                        /\ e.resume = None => Len(e.got) <= Target
                        /\ e.resume \in Threads =>
                             \A t \in Settled : t >= e.resume => t \in ToSet(FirstOf(Target, e.got))
      BY <1>16 DEF PagesOK
    <2>1. CASE e \in calls
      BY <2>1 DEF PagesOK
    <2>2. CASE e = d
      <3>1. page.next # None => \A t \in Settled : t >= page.next => t \in ToSet(got)
        BY <1>3, <1>6, <1>8 DEF OrNone
      <3>2. resume \in Threads =>
              \A t \in Settled : t >= resume => t \in ToSet(FirstOf(Target, got))
        BY <1>5, <1>6, <1>14
      <3> QED
        BY <1>11, <1>13, <2>2, <3>1, <3>2
    <2> QED
      BY <1>18, <2>1, <2>2
  <1>21. OlderOK'
    <2>1. ASSUME more
          PROVE  OlderOK'
      <3>1. store' = hid /\ plan' = plan
        BY <1>4, <2>1
      <3>2. \A t \in Settled : Held(t) => Held(t)'
        BY <1>6, <1>10, <1>19, <3>1 DEF Held, Ours
      <3>3. \A e \in calls' : e.op = "older" => e \in calls
        BY <1>11, <1>18
      <3> QED
        BY <1>1, <1>16, <3>1, <3>2, <3>3 DEF OlderOK
    <2>2. ASSUME ~more, plan'.listed, NEW e \in calls', e.op = "older"
          PROVE  FALSE
      BY <1>17, <1>18, <2>2 DEF Idle
    <2> QED
      BY <2>1, <2>2 DEF OlderOK
  <1>22. ReachOK'
    <2> SUFFICES ASSUME plan'.listed, NEW t \in Settled
                 PROVE  Coming(server.wire, t) \/ Held(t)' \/ After(store'.cursor[Workspace], t)
      BY <1>1, <1>16 DEF ReachOK
    <2>0. t \in Ours /\ t \notin Memory
      BY <1>6 DEF Ours
    <2>1. CASE more
      <3>1. store' = hid /\ plan' = plan
        BY <1>4, <2>1
      <3>2. Coming(server.wire, t) \/ Held(t) \/ After(store.cursor[Workspace], t)
        BY <3>1 DEF ReachOK
      <3>3. Held(t) => Held(t)'
        BY <1>10, <1>19, <2>0, <3>1 DEF Held
      <3> QED
        BY <1>10, <3>1, <3>2, <3>3
    <2>2. CASE ~more
      <3> DEFINE cursor == IF resume # None THEN resume ELSE page.next
      <3>1. store' = Listed(c, hid, got, cursor)
        BY <1>4, <2>2
      <3>2. cursor \in OrNone(Threads) \cup {PageStart}
        BY <1>3, <1>15
      <3> HIDE DEF cursor
      <3>3. /\ store'.cursor[Workspace] = cursor
            /\ ToSet(FirstOf(Target, got)) \ hid.hidden[Workspace] \subseteq Ids(store')
        <4>1. c \in Call /\ got \in Seq(Threads) /\ hid \in Store
          BY <1>1, <1>9, <1>10
        <4> QED
          BY <3>1, <3>2, <4>1, ListedShows
      <3>4. hid.hidden[Workspace] \subseteq Memory
        BY <1>10, StoreFields, ThreadsAreRanks
      <3>5. t \in ToSet(FirstOf(Target, got)) => Held(t)'
        BY <2>0, <3>3, <3>4 DEF Held
      <3>6. CASE resume = None
        <4>1. ToSet(got) \subseteq ToSet(FirstOf(Target, got))
          BY <1>1, <1>9, <1>13, <3>6, FirstOfMost
        <4>2. cursor = page.next
          BY <3>6 DEF cursor
        <4> QED
          BY <1>8, <3>3, <3>5, <4>1, <4>2 DEF After
      <3>7. CASE resume = PageStart
        BY <1>5, <3>3, <3>7 DEF After, cursor, OrNone
      <3>8. CASE resume \in Threads
        <4>1. cursor = resume /\ cursor # None
          BY <1>5, <3>8 DEF cursor
        <4> QED
          BY <1>14, <3>3, <3>5, <3>8, <4>1 DEF After
      <3> QED
        BY <1>15, <3>6, <3>7, <3>8 DEF OrNone
    <2> QED
      BY <2>1, <2>2
  <1> QED
    BY <1>16, <1>17, <1>20, <1>21, <1>22

LEMMA OlderPageReach ==
    ASSUME TypeOK, plan \in Plan, ComesOK, PagesOK, OlderOK, ReachOK, NEW c \in calls, OlderPage(c)
    PROVE  plan' \in Plan /\ ComesOK' /\ PagesOK' /\ OlderOK' /\ ReachOK'
  <1> DEFINE page == Page(c.cursor)
             got == Matching(c, page)
             hid == HideMemory(store, page)
             d == [c EXCEPT !.cursor = page.next, !.pages = @ + 1, !.got = got]
             more == page.next # None /\ c.pages + 1 < MaxPages /\ Len(got) < Target
             saw == IdsOf(c.saw.rows)
  <1>1. /\ store \in Store /\ c \in Call /\ c.op = "older" /\ c.saw \in Capture
        /\ server \in Server /\ past \in Past /\ UNCHANGED <<server, plan>>
    BY DEF TypeOK, CallType, OlderPage
  <1>2. c.cursor \in OrNone(Threads) /\ c.got \in Seq(Threads)
    BY <1>1 DEF Call
  <1>3. page.threads \in Seq(Threads) /\ page.next \in OrNone(Threads)
    BY <1>1, <1>2, PageOf
  <1>4. IF more
          THEN calls' = (calls \ {c}) \cup {d} /\ store' = hid /\ past' = past
          ELSE /\ calls' = calls \ {c} /\ store' = Older(c, hid, got, page.next)
               /\ past' = [past EXCEPT !.lost = @ \cup (Ids(hid) \ Ids(store'))]
    BY DEF OlderPage, Ids
  <1>5. /\ got \in Seq(Threads) /\ ToSet(c.got) \subseteq ToSet(got)
    BY <1>2, <1>3, MatchingOf
  <1>6. ASSUME NEW t \in Settled, c.cursor # None => t < c.cursor \/ t \in ToSet(c.got)
        PROVE  t \in ToSet(got) \/ (page.next # None /\ t < page.next)
    BY <1>1, <1>6, PageSettles
  <1> HIDE DEF page
  <1>7. hid \in Store /\ hid.cursor = store.cursor /\ Ids(store) \ Memory \subseteq Ids(hid)
    BY <1>1, HideMemoryEffect
  <1>8. d.op = "older" /\ d.cursor = page.next /\ d.got = got /\ d.saw = c.saw
    BY <1>1 DEF Call
  <1>9. hid.hidden[Workspace] \subseteq Memory
    BY <1>7, StoreFields, ThreadsAreRanks
  <1> HIDE DEF got, hid, d, more
  <1>10. /\ ComesOK' /\ Settled' \subseteq Settled
         /\ more => Settled' = Settled
         /\ ~more => \A t \in Settled' : t \in Ids(hid) => t \in Ids(store')
    BY <1>1, <1>4 DEF ComesOK, Settled, Past
  <1>11. \A e \in calls' : (e \in calls /\ e # c) \/ (more /\ e = d)
    BY <1>1, <1>4
  <1>12. Removing' = Removing
    <2>1. \A e : e.op = "archive" => (e \in calls' <=> e \in calls)
      BY <1>1, <1>4, <1>8
    <2> QED
      BY <2>1 DEF Removing
  <1>13. PagesOK'
    BY <1>8, <1>10, <1>11 DEF PagesOK
  <1>14. \A t \in Settled : t \notin Memory
    BY DEF Settled, Ours
  \* What it has read, saw, or is still to read, and what has its row or comes by
  \* itself is everything.
  <1>15. ASSUME plan.listed, NEW t \in Settled
         PROVE  \/ t \in saw \cup ToSet(got)
                \/ Held(t) \/ Coming(server.wire, t)
                \/ page.next # None /\ t < page.next
    <2>1. \/ t \in saw \cup ToSet(c.got)
          \/ Held(t) \/ Coming(server.wire, t)
          \/ c.cursor = None
          \/ c.cursor # None /\ t < c.cursor
      BY <1>1, <1>15 DEF OlderOK
    <2> QED
      BY <1>5, <1>6, <2>1
  <1>16. ASSUME plan.listed, NEW e \in calls, e.op = "older", NEW t \in Settled \cap IdsOf(e.saw.rows)
         PROVE  Held(t)
    BY <1>16 DEF OlderOK
  \* A settled row stays, or it is lost.
  <1>17. \A t \in Settled' : Held(t) => Held(t)'
    <2>1. more => store' = hid
      BY <1>4
    <2> QED
      BY <1>7, <1>10, <1>12, <1>14, <2>1 DEF Held
  <1>18. OlderOK'
    <2> SUFFICES ASSUME plan.listed, NEW e \in calls', e.op = "older"
                 PROVE  /\ \A t \in Settled' :
                             \/ t \in IdsOf(e.saw.rows) \cup ToSet(e.got)
                             \/ Held(t)' \/ Coming(server.wire, t)
                             \/ e.cursor = None /\ e.pages = 0
                             \/ e.cursor # None /\ t < e.cursor
                        /\ \A t \in Settled' \cap IdsOf(e.saw.rows) : Held(t)'
      BY <1>1 DEF OlderOK
    <2>1. CASE e \in calls
      BY <1>10, <1>17, <2>1 DEF OlderOK
    <2>2. CASE more /\ e = d
      <3>1. \A t \in Settled' : \/ t \in saw \cup ToSet(got)
                                \/ Held(t)' \/ Coming(server.wire, t)
                                \/ page.next # None /\ t < page.next
        BY <1>10, <1>15, <1>17
      <3>2. \A t \in Settled' \cap saw : Held(t)'
        BY <1>1, <1>10, <1>16, <1>17
      <3> QED
        BY <1>8, <2>2, <3>1, <3>2
    <2> QED
      BY <1>11, <2>1, <2>2
  <1>19. CASE more
    <2>1. ReachOK'
      BY <1>1, <1>4, <1>7, <1>10, <1>17, <1>19 DEF ReachOK
    <2> QED
      BY <1>1, <1>10, <1>13, <1>18, <2>1
  <1>20. CASE ~more
    <2>1. calls' = calls \ {c} /\ store' = Older(c, hid, got, page.next)
      BY <1>4, <1>20
    <2>2. /\ store'.cursor[Workspace] = page.next
          /\ \/ Ids(store') = Ids(hid) /\ ToSet(got) \subseteq IdsOf(c.saw.rows)
             \/ Ids(store') = (IdsOf(c.saw.rows) \cup ToSet(got)) \ hid.hidden[Workspace]
      BY <1>1, <1>3, <1>5, <1>7, <2>1, OlderShows
    <2>3. ReachOK'
      <3> SUFFICES ASSUME plan.listed, NEW t \in Settled'
                   PROVE  Coming(server.wire, t) \/ Held(t)' \/ After(page.next, t)
        BY <1>1, <2>2 DEF ReachOK
      <3>1. t \in Settled
        BY <1>10
      <3>2. CASE t \in saw
        BY <1>1, <1>16, <1>17, <3>1, <3>2
      <3>3. CASE t \in ToSet(got) /\ t \notin saw
        BY <1>9, <1>14, <2>2, <3>1, <3>3 DEF Held
      <3>4. CASE Held(t)
        BY <1>17, <3>4
      <3>5. CASE page.next # None /\ t < page.next
        BY <3>5 DEF After
      <3> QED
        BY <1>15, <3>1, <3>2, <3>3, <3>4, <3>5
    <2> QED
      BY <1>1, <1>10, <1>13, <1>18, <2>3
  <1> QED
    BY <1>19, <1>20

\* Every step keeps that.
LEMMA StepReach ==
    ASSUME TypeOK, plan \in Plan, ComesOK, PagesOK, OlderOK, ReachOK, [Next]_vars
    PROVE  plan' \in Plan /\ ComesOK' /\ PagesOK' /\ OlderOK' /\ ReachOK'
  <1>1. Gentle => plan' \in Plan /\ ComesOK' /\ PagesOK' /\ OlderOK' /\ ReachOK'
    BY GentleStep DEF Gentle, PlanStays
  <1>2. CASE UNCHANGED vars
    BY <1>2 DEF vars, ComesOK, PagesOK, OlderOK, ReachOK, Settled, Held, Removing
  <1>3. ASSUME seen = store, User
        PROVE  plan' \in Plan /\ ComesOK' /\ PagesOK' /\ OlderOK' /\ ReachOK'
    <2>1. ASSUME NEW preserve \in BOOLEAN, ListThreads(preserve)
          PROVE  plan' \in Plan /\ ComesOK' /\ PagesOK' /\ OlderOK' /\ ReachOK'
      BY <2>1, ListThreadsReach
    <2>2. CASE LoadOlder
      BY <1>3, <2>2, LoadOlderReach
    <2>3. \/ \E preserve \in BOOLEAN : ListThreads(preserve)
          \/ LoadOlder
          \/ StartThread \/ StartReview \/ ResetWorkspaceThreads
          \/ \E t \in Threads : ForkThread(t) \/ SelectThread(t) \/ RemoveThreadRow(t)
      BY <1>3 DEF User
    <2> QED
      BY <1>1, <2>1, <2>2, <2>3, UserGentle
  <1>4. CASE Render
    BY <1>1, <1>4, RenderGentle
  <1>5. CASE Answers
    <2>1. PICK c \in calls :
            \/ ListPage(c) \/ OlderPage(c) \/ ListFails(c) \/ NotStarted(c) \/ Resumed(c)
            \/ ArchiveAnswer(c) \/ CascadeAsks(c) \/ CascadeAnswer(c)
            \/ \E t \in Threads : Started(c, t) \/ RegisterDetachedReviewChild(c, t)
      BY <1>5 DEF Answers
    <2>2. CASE ListPage(c)
      BY <2>2, ListPageReach
    <2>3. CASE OlderPage(c)
      BY <2>3, OlderPageReach
    <2>4. ListFails(c) \/ NotStarted(c) \/ Resumed(c) => Gentle
      BY ListFailsGentle, NotStartedGentle, ResumedGentle
    <2>5. ArchiveAnswer(c) \/ CascadeAsks(c) \/ CascadeAnswer(c) => Gentle
      BY ArchiveAnswerGentle, CascadeAsksGentle, CascadeAnswerGentle
    <2>6. (\E t \in Threads : Started(c, t) \/ RegisterDetachedReviewChild(c, t)) => Gentle
      BY StartedGentle, RegisterGentle
    <2> QED
      BY <1>1, <2>1, <2>2, <2>3, <2>4, <2>5, <2>6
  <1>6. CASE ServerActs
    <2>1. PICK t \in Threads :
            \/ \E informed \in BOOLEAN : ServerSpawns(t, informed)
            \/ ServerReports(t) \/ ServerArchives(t) \/ ServerUnarchives(t)
      BY <1>6 DEF ServerActs
    <2>2. (\E informed \in BOOLEAN : ServerSpawns(t, informed)) \/ ServerReports(t) => Gentle
      BY ServerSpawnsGentle, ServerReportsGentle
    <2>3. ServerArchives(t) \/ ServerUnarchives(t) => Gentle
      BY ServerArchivesGentle, ServerUnarchivesGentle
    <2> QED
      BY <1>1, <2>1, <2>2, <2>3
  <1>7. CASE Notifications
    <2>1. PICK note :
            /\ Handles(note)
            /\ \/ OnThreadStarted(note) \/ OnThreadArchived(note) \/ OnThreadUnarchived(note)
               \/ OnCollab(note) \/ OnTurnStarted(note)
      BY <1>7, HandledIs
    <2>2. OnThreadStarted(note) \/ OnThreadArchived(note) \/ OnCollab(note) => Gentle
      BY <2>1, OnThreadStartedGentle, OnThreadArchivedGentle, OnCollabGentle
    <2>3. OnThreadUnarchived(note) \/ OnTurnStarted(note) => Gentle
      BY <2>1, EnsuresGentle
    <2> QED
      BY <1>1, <2>1, <2>2, <2>3
  <1> QED
    BY <1>2, <1>3, <1>4, <1>5, <1>6, <1>7 DEF Next

LEMMA InitReach ==
    ASSUME Init
    PROVE  plan \in Plan /\ ComesOK /\ PagesOK /\ OlderOK /\ ReachOK
  <1>1. plan \in Plan /\ ~plan.listed
    BY PlansAssumption DEF Init
  <1>2. calls = {} /\ server.wire = <<>>
    BY InitTypes DEF Init
  <1>3. \A t : ~Goes(server.wire, 0, t)
    BY <1>2 DEF Goes
  <1> QED
    BY <1>1, <1>2, <1>3 DEF ComesOK, PagesOK, OlderOK, ReachOK

\* The inductive invariant of the lists.
ReachInv == TypeOK /\ plan \in Plan /\ ComesOK /\ PagesOK /\ OlderOK /\ ReachOK

\* Whatever the pages are cut at, and whatever is started, opened, archived, removed,
\* reported or refused meanwhile: once a list has been shown and all is quiet, a thread of
\* the server has its row or is below the cursor the next older page goes on from.  The
\* exceptions, each until the next list made when all is quiet: a thread that came or went
\* while a list or an older page was under way, a row that an older page's stale rows left
\* out, and a row the user removed although the server then refused to archive the thread.
THEOREM ThreadsStayReachable == Spec => []EveryThreadIsReachable
  <1>1. Init => ReachInv
    BY InitTypes, InitReach DEF ReachInv
  <1>2. ReachInv /\ [Next]_vars => ReachInv'
    BY TypesStep, StepReach DEF ReachInv
  <1>3. ReachInv => EveryThreadIsReachable
    <2> SUFFICES ASSUME ReachInv, Quiet, plan.listed,
                        NEW t \in server.alive \ (past.late \cup past.lost), Shown(t)
                 PROVE  t \in ListedNow \/ After(store.cursor[Workspace], t)
      BY DEF EveryThreadIsReachable, After
    <2>1. calls = {} /\ server.wire = <<>>
      BY DEF Quiet
    <2>2. t \in Settled
      BY DEF ReachInv, TypeOK, Server, Settled, Ours, Shown, Own
    <2>3. Coming(server.wire, t) \/ Held(t) \/ After(store.cursor[Workspace], t)
      BY <2>2 DEF ReachInv, ReachOK
    <2>4. ~Coming(server.wire, t) /\ Removing = {}
      BY <2>1 DEF Coming, Removing
    <2> QED
      BY <2>3, <2>4 DEF Held, ListedNow, Ids
  <1> QED
    BY <1>1, <1>2, <1>3, PTL DEF Spec

=============================================================================
