-------------------------- MODULE RecursionProofs ---------------------------
(***************************************************************************)
(* Proofs about Sums and Rounds.  A recursive function on an interval is   *)
(* shown to exist, and to have a property everywhere, by looking at the    *)
(* least place where it would not.                                         *)
(***************************************************************************)
EXTENDS Rounds, Sums, FiniteSetTheorems, WellFoundedInduction, TLAPS

\* A set of natural numbers has a least element.
LEMMA Least ==
    ASSUME NEW S \in SUBSET Nat, S # {}
    PROVE  \E x \in S : \A y \in S : x <= y
  <1>1. PICK x \in S : \A y \in S : ~(<<y, x>> \in OpToRel(<, Nat))
    BY NatLessThanWellFounded, WFMin
  <1>2. \A y \in S : ~(y < x)
    BY <1>1 DEF OpToRel
  <1> QED
    BY <1>2

-----------------------------------------------------------------------------
(* Rounds.                                                                 *)

Follows(R, n, start, step) ==
    /\ R = [m \in 0..n |-> R[m]]
    /\ R[0] = start
    /\ \A m \in 1..n : R[m] = Follow(R[m - 1], step)

LEMMA RoundsExist ==
    ASSUME NEW N \in Nat, NEW start, NEW step
    PROVE  \E R : Follows(R, N, start, step)
  <1> DEFINE Bad == {n \in Nat : ~\E R : Follows(R, n, start, step)}
  <1> SUFFICES ASSUME Bad # {} PROVE FALSE
    OBVIOUS
  <1>1. PICK n \in Bad : \A k \in Bad : n <= k
    BY Least
  <1>2. n # 0
    <2> DEFINE R == [m \in 0..0 |-> start]
    <2>1. Follows(R, 0, start, step)
      BY DEF Follows
    <2> QED
      BY <2>1
  <1>3. n \in Nat /\ n - 1 \in Nat /\ n - 1 \notin Bad
    BY <1>1, <1>2
  <1>4. PICK R : Follows(R, n - 1, start, step)
    BY <1>3
  <1> DEFINE T == [m \in 0..n |-> IF m = n THEN Follow(R[n - 1], step) ELSE R[m]]
  <1>5. Follows(T, n, start, step)
    <2>1. T = [m \in 0..n |-> T[m]] /\ T[0] = start
      BY <1>2, <1>3, <1>4 DEF Follows
    <2>2. ASSUME NEW m \in 1..n PROVE T[m] = Follow(T[m - 1], step)
      <3>1. T[m - 1] = R[m - 1] /\ m - 1 \in 0..(n - 1)
        BY <1>3
      <3>2. CASE m = n
        BY <1>3, <3>1, <3>2
      <3>3. CASE m # n
        <4>1. m \in 1..(n - 1) /\ T[m] = R[m]
          BY <1>3, <3>3
        <4> QED
          BY <1>4, <3>1, <4>1 DEF Follows
      <3> QED
        BY <3>2, <3>3
    <2> HIDE DEF T
    <2> QED
      BY <2>1, <2>2 DEF Follows
  <1> QED
    BY <1>1, <1>5

LEMMA ReachedInRounds ==
    ASSUME NEW start, NEW step, Cardinality(DOMAIN step) \in Nat
    PROVE  \E R : /\ Follows(R, Cardinality(DOMAIN step), start, step)
                  /\ ReachedIn(start, step) = R[Cardinality(DOMAIN step)]
  <1> DEFINE N == Cardinality(DOMAIN step)
             Rounds(T) == [n \in 0..N |-> IF n = 0 THEN start ELSE Follow(T[n - 1], step)]
             R == CHOOSE T : T = Rounds(T)
  <1>0. N \in Nat
    OBVIOUS
  <1>4. ReachedIn(start, step) = R[N]
    BY DEF ReachedIn
  <1> HIDE DEF N
  <1>1. PICK Q : Follows(Q, N, start, step)
    BY <1>0, RoundsExist
  <1>2. Q = Rounds(Q)
    <2>1. Q = [n \in 0..N |-> Q[n]]
      BY <1>1 DEF Follows
    <2>2. ASSUME NEW n \in 0..N
          PROVE  Q[n] = IF n = 0 THEN start ELSE Follow(Q[n - 1], step)
      <3>1. n = 0 \/ n \in 1..N
        BY <1>0
      <3> QED
        BY <1>1, <3>1 DEF Follows
    <2> QED
      BY <2>1, <2>2
  <1>3. R = Rounds(R)
    <2> HIDE DEF Rounds
    <2> QED
      BY <1>2
  <1>5. Follows(R, N, start, step)
    <2> HIDE DEF R
    <2> QED
      BY <1>0, <1>3 DEF Follows
  <1> QED
    BY <1>4, <1>5 DEF N

\* The rounds stay within every closed set around the start, ...
LEMMA RoundsWithin ==
    ASSUME NEW R, NEW N \in Nat, NEW start, NEW step, Follows(R, N, start, step),
           NEW C, start \subseteq C, Closed(C, step)
    PROVE  \A n \in 0..N : R[n] \subseteq C
  <1> DEFINE Bad == {n \in 0..N : ~(R[n] \subseteq C)}
  <1> SUFFICES ASSUME Bad # {} PROVE FALSE
    OBVIOUS
  <1>1. PICK n \in Bad : \A k \in Bad : n <= k
    <2>1. Bad \in SUBSET Nat
      OBVIOUS
    <2> HIDE DEF Bad
    <2> QED
      BY <2>1, Least
  <1>2. n \in 1..N
    BY <1>1 DEF Follows
  <1>3. n - 1 \in 0..N /\ R[n - 1] \subseteq C
    BY <1>1, <1>2
  <1>4. R[n] = Follow(R[n - 1], step)
    BY <1>2 DEF Follows
  <1>5. Follow(R[n - 1], step) \subseteq C
    BY <1>3 DEF Follow, Closed
  <1> QED
    BY <1>1, <1>4, <1>5

LEMMA ReachedWithin ==
    ASSUME NEW start, NEW step, IsFiniteSet(DOMAIN step),
           NEW C, start \subseteq C, Closed(C, step)
    PROVE  ReachedIn(start, step) \subseteq C
  <1>1. Cardinality(DOMAIN step) \in Nat
    BY FS_CardinalityType
  <1>2. PICK R : /\ Follows(R, Cardinality(DOMAIN step), start, step)
                 /\ ReachedIn(start, step) = R[Cardinality(DOMAIN step)]
    BY <1>1, ReachedInRounds
  <1> QED
    BY <1>1, <1>2, RoundsWithin

\* ... and a round that adds something follows one that added a source.
LEMMA RoundsGrow ==
    ASSUME NEW R, NEW N \in Nat, NEW start, NEW step, IsFiniteSet(DOMAIN step),
           Follows(R, N, start, step),
           NEW n \in 1..N, R[n] # R[n - 1]
    PROVE  Cardinality(R[n - 1] \cap DOMAIN step) >= n
  <1> DEFINE Seen(m) == R[m] \cap DOMAIN step
             Bad     == {m \in 1..N : R[m] # R[m - 1] /\ ~(Cardinality(Seen(m - 1)) >= m)}
  <1>0. \A m : IsFiniteSet(Seen(m)) /\ Cardinality(Seen(m)) \in Nat
    BY FS_Subset, FS_CardinalityType
  <1> SUFFICES ASSUME Bad # {} PROVE FALSE
    OBVIOUS
  <1>1. PICK m \in Bad : \A k \in Bad : m <= k
    <2>1. Bad \in SUBSET Nat
      OBVIOUS
    <2> HIDE DEF Bad
    <2> QED
      BY <2>1, Least
  <1>2. m \in 1..N /\ R[m] # R[m - 1] /\ R[m] = Follow(R[m - 1], step)
    BY <1>1 DEF Follows
  <1>3. PICK x \in Seen(m - 1) : ~(step[x] \subseteq R[m - 1])
    BY <1>2 DEF Follow
  <1>4. CASE m = 1
    <2>1. Cardinality(Seen(0)) # 0
      BY <1>0, <1>3, <1>4, FS_EmptySet
    <2>2. Cardinality(Seen(0)) \in Nat /\ ~(Cardinality(Seen(0)) >= 1)
      BY <1>0, <1>1, <1>4
    <2> HIDE DEF Seen
    <2> QED
      BY <2>1, <2>2
  <1>5. CASE m # 1
    <2> DEFINE l == m - 1
    <2>1. l \in 1..N /\ l < m /\ l - 1 \in 0..N /\ m = l + 1
      BY <1>2, <1>5
    <2> HIDE DEF l
    <2>2. R[l] = Follow(R[l - 1], step)
      BY <2>1 DEF Follows
    <2>3. x \notin Seen(l - 1)
      <3> SUFFICES ASSUME x \in Seen(l - 1) PROVE FALSE
        OBVIOUS
      <3>1. step[x] \subseteq R[l]
        BY <2>2 DEF Follow
      <3> QED
        BY <1>3, <3>1 DEF l
    <2>4. R[l] # R[l - 1] /\ l \notin Bad
      BY <1>1, <1>3, <2>1, <2>3 DEF l
    <2>5. Cardinality(Seen(l - 1)) >= l
      BY <2>1, <2>4
    <2>6. Seen(l - 1) \cup {x} \subseteq Seen(l)
      BY <1>3, <2>2 DEF Follow, l
    <2>7. Cardinality(Seen(l - 1) \cup {x}) = Cardinality(Seen(l - 1)) + 1
      BY <1>0, <2>3, FS_AddElement
    <2>8. Cardinality(Seen(l - 1) \cup {x}) <= Cardinality(Seen(l))
      BY <1>0, <2>6, FS_Subset
    <2>9. Cardinality(Seen(l)) >= m
      <3> HIDE DEF Seen
      <3> QED
        BY <1>0, <2>1, <2>5, <2>7, <2>8
    <2> QED
      BY <1>1, <2>9 DEF l
  <1> QED
    BY <1>4, <1>5

LEMMA ReachedClosed ==
    ASSUME NEW start, NEW step, IsFiniteSet(DOMAIN step)
    PROVE  start \subseteq ReachedIn(start, step) /\ Closed(ReachedIn(start, step), step)
  <1> DEFINE N == Cardinality(DOMAIN step)
  <1>1. N \in Nat
    BY FS_CardinalityType
  <1>2. PICK R : Follows(R, N, start, step) /\ ReachedIn(start, step) = R[N]
    BY <1>1, ReachedInRounds
  <1> HIDE DEF N
  <1>3. start \subseteq R[N]
    <2> DEFINE Bad == {n \in 0..N : ~(start \subseteq R[n])}
    <2> SUFFICES ASSUME Bad # {} PROVE FALSE
      BY <1>1
    <2>1. PICK n \in Bad : \A k \in Bad : n <= k
      <3>1. Bad \in SUBSET Nat
        OBVIOUS
      <3> HIDE DEF Bad
      <3> QED
        BY <3>1, Least
    <2>2. n \in 1..N
      BY <1>1, <1>2, <2>1 DEF Follows
    <2>3. R[n] = Follow(R[n - 1], step) /\ start \subseteq R[n - 1]
      BY <1>1, <1>2, <2>1, <2>2 DEF Follows
    <2> QED
      BY <2>1, <2>3 DEF Follow
  <1>4. Closed(R[N], step)
    <2> DEFINE T == [n \in 0..(N + 1) |-> IF n = N + 1 THEN Follow(R[N], step) ELSE R[n]]
    <2>1. Follows(T, N + 1, start, step)
      <3>1. T = [n \in 0..(N + 1) |-> T[n]] /\ T[0] = start
        BY <1>1, <1>2 DEF Follows
      <3>2. ASSUME NEW n \in 1..(N + 1) PROVE T[n] = Follow(T[n - 1], step)
        <4>1. T[n - 1] = R[n - 1]
          BY <1>1
        <4>2. CASE n = N + 1
          BY <1>1, <4>1, <4>2
        <4>3. CASE n # N + 1
          <5>1. n \in 1..N /\ T[n] = R[n]
            BY <1>1, <4>3
          <5> QED
            BY <1>2, <4>1, <5>1 DEF Follows
        <4> QED
          BY <4>2, <4>3
      <3> HIDE DEF T
      <3> QED
        BY <3>1, <3>2 DEF Follows
    <2>2. T[N + 1] = Follow(R[N], step) /\ T[(N + 1) - 1] = R[N]
      BY <1>1
    <2> HIDE DEF T
    <2>3. CASE T[N + 1] = T[(N + 1) - 1]
      BY <2>2, <2>3 DEF Follow, Closed
    <2>4. CASE T[N + 1] # T[(N + 1) - 1]
      <3>1. N + 1 \in Nat /\ N + 1 \in 1..(N + 1)
        BY <1>1
      <3>2. Cardinality(T[(N + 1) - 1] \cap DOMAIN step) >= N + 1
        BY <2>1, <2>4, <3>1, RoundsGrow
      <3>3. /\ Cardinality(R[N] \cap DOMAIN step) <= N
            /\ Cardinality(R[N] \cap DOMAIN step) \in Nat
        BY FS_Subset, FS_CardinalityType DEF N
      <3> QED
        BY <1>1, <2>2, <3>2, <3>3
    <2> QED
      BY <2>3, <2>4
  <1> QED
    BY <1>2, <1>3, <1>4

-----------------------------------------------------------------------------
(* Sums.                                                                   *)

Adds(S, f, n) ==
    /\ S = [k \in 0..n |-> S[k]]
    /\ S[0] = 0
    /\ \A k \in 1..n : S[k] = S[k - 1] + f[k]

LEMMA AddsExist ==
    ASSUME NEW N \in Nat, NEW f
    PROVE  \E S : Adds(S, f, N)
  <1> DEFINE Bad == {n \in Nat : ~\E S : Adds(S, f, n)}
  <1> SUFFICES ASSUME Bad # {} PROVE FALSE
    OBVIOUS
  <1>1. PICK n \in Bad : \A k \in Bad : n <= k
    BY Least
  <1>2. n # 0
    <2> DEFINE S == [k \in 0..0 |-> 0]
    <2>1. Adds(S, f, 0)
      BY DEF Adds
    <2> QED
      BY <2>1
  <1>3. n \in Nat /\ n - 1 \in Nat /\ n - 1 \notin Bad
    BY <1>1, <1>2
  <1>4. PICK S : Adds(S, f, n - 1)
    BY <1>3
  <1> DEFINE T == [k \in 0..n |-> IF k = n THEN S[n - 1] + f[n] ELSE S[k]]
  <1>5. Adds(T, f, n)
    <2>1. T = [k \in 0..n |-> T[k]] /\ T[0] = 0
      BY <1>2, <1>3, <1>4 DEF Adds
    <2>2. ASSUME NEW k \in 1..n PROVE T[k] = T[k - 1] + f[k]
      <3>1. T[k - 1] = S[k - 1] /\ k - 1 \in 0..(n - 1)
        BY <1>3
      <3>2. CASE k = n
        BY <1>3, <3>1, <3>2
      <3>3. CASE k # n
        <4>1. k \in 1..(n - 1) /\ T[k] = S[k]
          BY <1>3, <3>3
        <4> QED
          BY <1>4, <3>1, <4>1 DEF Adds
      <3> QED
        BY <3>2, <3>3
    <2> HIDE DEF T
    <2> QED
      BY <2>1, <2>2 DEF Adds
  <1> QED
    BY <1>1, <1>5

LEMMA AddsSame ==
    ASSUME NEW N \in Nat, NEW f, NEW S, NEW T, Adds(S, f, N), Adds(T, f, N),
           NEW n \in 0..N
    PROVE  S[n] = T[n]
  <1> DEFINE Bad == {k \in 0..N : S[k] # T[k]}
  <1> SUFFICES ASSUME Bad # {} PROVE FALSE
    OBVIOUS
  <1>1. PICK k \in Bad : \A l \in Bad : k <= l
    <2>1. Bad \in SUBSET Nat
      OBVIOUS
    <2> HIDE DEF Bad
    <2> QED
      BY <2>1, Least
  <1>2. k \in 1..N
    BY <1>1 DEF Adds
  <1>3. k - 1 \in 0..N /\ S[k - 1] = T[k - 1]
    BY <1>1, <1>2
  <1> QED
    BY <1>1, <1>2, <1>3 DEF Adds

\* What adds up the terms gives the sum.
LEMMA SumIs ==
    ASSUME NEW N \in Nat, NEW f, NEW S, Adds(S, f, N)
    PROVE  SumTo(f, N) = S[N]
  <1> DEFINE Terms(T) == [k \in 0..N |-> IF k = 0 THEN 0 ELSE T[k - 1] + f[k]]
             R == CHOOSE T : T = Terms(T)
  <1>1. SumTo(f, N) = R[N]
    BY DEF SumTo
  <1>2. S = Terms(S)
    <2>1. S = [k \in 0..N |-> S[k]]
      BY DEF Adds
    <2>2. ASSUME NEW k \in 0..N PROVE S[k] = IF k = 0 THEN 0 ELSE S[k - 1] + f[k]
      <3>1. k = 0 \/ k \in 1..N
        OBVIOUS
      <3> QED
        BY <3>1 DEF Adds
    <2> QED
      BY <2>1, <2>2
  <1>3. R = Terms(R)
    <2> HIDE DEF Terms
    <2> QED
      BY <1>2
  <1>4. Adds(R, f, N)
    <2> HIDE DEF R
    <2>1. DOMAIN R = 0..N /\ R = [k \in 0..N |-> R[k]]
      BY <1>3
    <2>2. ASSUME NEW k \in 0..N
          PROVE  R[k] = IF k = 0 THEN 0 ELSE R[k - 1] + f[k]
      BY <1>3
    <2>3. R[0] = 0
      BY <2>2
    <2>4. ASSUME NEW k \in 1..N PROVE R[k] = R[k - 1] + f[k]
      BY <2>2
    <2> QED
      BY <2>1, <2>3, <2>4 DEF Adds
  <1> HIDE DEF R
  <1>5. R[N] = S[N]
    BY <1>4, AddsSame
  <1> QED
    BY <1>1, <1>5

LEMMA SumZero == ASSUME NEW f PROVE SumTo(f, 0) = 0
  <1>1. PICK S : Adds(S, f, 0)
    BY AddsExist
  <1> QED
    BY <1>1, SumIs DEF Adds

LEMMA SumNext ==
    ASSUME NEW n \in Nat, NEW f
    PROVE  SumTo(f, n + 1) = SumTo(f, n) + f[n + 1]
  <1> DEFINE N == n + 1
  <1>0. N \in Nat /\ N - 1 = n /\ N \in 1..N /\ n \in 0..N
    OBVIOUS
  <1> HIDE DEF N
  <1>1. PICK S : Adds(S, f, N)
    BY <1>0, AddsExist
  <1>2. SumTo(f, N) = S[N]
    BY <1>0, <1>1, SumIs
  <1> DEFINE T == [k \in 0..n |-> S[k]]
  <1>3. Adds(T, f, n)
    <2>1. \A k \in 1..n : k \in 1..N /\ k - 1 \in 0..n /\ k \in 0..n
      BY DEF N
    <2>2. T = [k \in 0..n |-> T[k]]
      OBVIOUS
    <2>3. T[0] = 0
      <3>1. 0 \in 0..n /\ S[0] = 0
        BY <1>1 DEF Adds
      <3> QED
        BY <3>1
    <2>4. ASSUME NEW k \in 1..n PROVE T[k] = T[k - 1] + f[k]
      <3>1. S[k] = S[k - 1] + f[k]
        BY <1>1, <2>1 DEF Adds
      <3>2. T[k] = S[k] /\ T[k - 1] = S[k - 1]
        BY <2>1
      <3> QED
        BY <3>1, <3>2
    <2> HIDE DEF T
    <2> QED
      BY <2>2, <2>3, <2>4 DEF Adds
  <1>4. T[n] = S[n]
    OBVIOUS
  <1> HIDE DEF T
  <1>5. SumTo(f, n) = S[n]
    BY <1>3, <1>4, SumIs
  <1>6. S[N] = S[n] + f[N]
    BY <1>0, <1>1 DEF Adds
  <1> QED
    BY <1>2, <1>5, <1>6 DEF N

LEMMA SumType ==
    ASSUME NEW n \in Nat, NEW f, \A k \in 1..n : f[k] \in Int
    PROVE  \A k \in 0..n : SumTo(f, k) \in Int
  <1> DEFINE Bad == {k \in 0..n : SumTo(f, k) \notin Int}
  <1> SUFFICES ASSUME Bad # {} PROVE FALSE
    OBVIOUS
  <1>1. PICK k \in Bad : \A l \in Bad : k <= l
    <2>1. Bad \in SUBSET Nat
      OBVIOUS
    <2> HIDE DEF Bad
    <2> QED
      BY <2>1, Least
  <1>2. k # 0
    BY <1>1, SumZero
  <1>3. PICK l \in Nat : k = l + 1
    BY <1>1, <1>2
  <1>4. SumTo(f, l) \in Int /\ f[l + 1] \in Int
    BY <1>1, <1>3
  <1> QED
    BY <1>1, <1>3, <1>4, SumNext

LEMMA SumNat ==
    ASSUME NEW n \in Nat, NEW f, \A k \in 1..n : f[k] \in Nat
    PROVE  SumTo(f, n) \in Nat
  <1> DEFINE Bad == {k \in 0..n : SumTo(f, k) \notin Nat}
  <1> SUFFICES ASSUME Bad # {} PROVE FALSE
    OBVIOUS
  <1>1. PICK k \in Bad : \A l \in Bad : k <= l
    <2>1. Bad \in SUBSET Nat
      OBVIOUS
    <2> HIDE DEF Bad
    <2> QED
      BY <2>1, Least
  <1>2. k # 0
    BY <1>1, SumZero
  <1>3. PICK l \in Nat : k = l + 1
    BY <1>1, <1>2
  <1>4. SumTo(f, l) \in Nat /\ f[l + 1] \in Nat
    BY <1>1, <1>3
  <1> QED
    BY <1>1, <1>3, <1>4, SumNext

LEMMA SumSame ==
    ASSUME NEW n \in Nat, NEW f, NEW g, \A k \in 1..n : f[k] = g[k]
    PROVE  SumTo(f, n) = SumTo(g, n)
  <1> DEFINE Bad == {k \in 0..n : SumTo(f, k) # SumTo(g, k)}
  <1> SUFFICES ASSUME Bad # {} PROVE FALSE
    OBVIOUS
  <1>1. PICK k \in Bad : \A l \in Bad : k <= l
    <2>1. Bad \in SUBSET Nat
      OBVIOUS
    <2> HIDE DEF Bad
    <2> QED
      BY <2>1, Least
  <1>2. k # 0
    BY <1>1, SumZero
  <1>3. PICK l \in Nat : k = l + 1
    BY <1>1, <1>2
  <1>4. SumTo(f, l) = SumTo(g, l) /\ f[l + 1] = g[l + 1]
    BY <1>1, <1>3
  <1> QED
    BY <1>1, <1>3, <1>4, SumNext

\* Sums are linear: the terms of h are those of f and c times those of g.
LEMMA SumLinear ==
    ASSUME NEW n \in Nat, NEW f, NEW g, NEW h, NEW c \in Int,
           \A k \in 1..n : f[k] \in Int /\ g[k] \in Int /\ h[k] = f[k] + c * g[k]
    PROVE  SumTo(h, n) = SumTo(f, n) + c * SumTo(g, n)
  <1> DEFINE Bad == {k \in 0..n : SumTo(h, k) # SumTo(f, k) + c * SumTo(g, k)}
  <1> SUFFICES ASSUME Bad # {} PROVE FALSE
    OBVIOUS
  <1>1. PICK k \in Bad : \A l \in Bad : k <= l
    <2>1. Bad \in SUBSET Nat
      OBVIOUS
    <2> HIDE DEF Bad
    <2> QED
      BY <2>1, Least
  <1>2. k # 0
    BY <1>1, SumZero
  <1>3. PICK l \in Nat : k = l + 1
    BY <1>1, <1>2
  <1>4. PICK a \in Int, b \in Int : a = SumTo(f, l) /\ b = SumTo(g, l)
    BY <1>1, <1>3, SumType, SMTT(20)
  <1>5. PICK u \in Int, v \in Int : u = f[l + 1] /\ v = g[l + 1]
    BY <1>1, <1>3
  <1>6. SumTo(h, l) = a + c * b /\ h[l + 1] = u + c * v
    BY <1>1, <1>3, <1>4, <1>5
  <1>7. SumTo(h, k) = (a + c * b) + (u + c * v)
    BY <1>3, <1>6, SumNext
  <1>8. SumTo(f, k) = a + u /\ SumTo(g, k) = b + v
    BY <1>3, <1>4, <1>5, SumNext
  <1>9. (a + c * b) + (u + c * v) = (a + u) + c * (b + v)
    OBVIOUS
  <1> QED
    BY <1>1, <1>7, <1>8, <1>9

\* A sum of zeros.
LEMMA SumZeros ==
    ASSUME NEW n \in Nat, NEW f, \A k \in 1..n : f[k] = 0
    PROVE  SumTo(f, n) = 0
  <1>1. PICK s \in Int : s = SumTo(f, n)
    BY SumNat
  <1>2. SumTo(f, n) = SumTo(f, n) + 1 * SumTo(f, n)
    <2>1. \A k \in 1..n : f[k] \in Int /\ f[k] = f[k] + 1 * f[k]
      OBVIOUS
    <2> QED
      BY <2>1, SumLinear
  <1>3. s = s + 1 * s
    BY <1>1, <1>2
  <1>4. s = 0
    BY <1>3
  <1> QED
    BY <1>1, <1>4

\* Sums of terms that differ at one place differ as much.
LEMMA SumChange ==
    ASSUME NEW n \in Nat, NEW f, NEW g, NEW j \in 1..n,
           \A k \in 1..n : f[k] \in Int /\ g[k] \in Int,
           \A k \in 1..n : k # j => g[k] = f[k]
    PROVE  SumTo(g, n) = SumTo(f, n) + (g[j] - f[j])
  <1> DEFINE Bad == {k \in 0..n : SumTo(g, k) # SumTo(f, k) + (IF k < j THEN 0 ELSE g[j] - f[j])}
  <1> SUFFICES ASSUME Bad # {} PROVE FALSE
    <2>1. n \in 0..n /\ ~(n < j)
      OBVIOUS
    <2> QED
      BY <2>1
  <1>1. PICK k \in Bad : \A l \in Bad : k <= l
    <2>1. Bad \in SUBSET Nat
      OBVIOUS
    <2> HIDE DEF Bad
    <2> QED
      BY <2>1, Least
  <1>2. k # 0
    BY <1>1, SumZero
  <1>3. PICK l \in Nat : k = l + 1
    BY <1>1, <1>2
  <1>4. PICK a \in Int : a = SumTo(f, l)
    BY <1>1, <1>3, SumType
  <1>5. l \in 0..n /\ l \notin Bad /\ l + 1 \in 1..n
    BY <1>1, <1>3
  <1>6. SumTo(g, l) = a + (IF l < j THEN 0 ELSE g[j] - f[j])
    BY <1>4, <1>5
  <1>7. SumTo(g, k) = (a + (IF l < j THEN 0 ELSE g[j] - f[j])) + g[l + 1] /\ SumTo(f, k) = a + f[l + 1]
    BY <1>3, <1>4, <1>6, SumNext
  <1>8. /\ f[l + 1] \in Int /\ g[l + 1] \in Int /\ f[j] \in Int /\ g[j] \in Int
        /\ l + 1 # j => g[l + 1] = f[l + 1]
    BY <1>5
  <1>9. SumTo(g, k) # SumTo(f, k) + (IF k < j THEN 0 ELSE g[j] - f[j])
    BY <1>1
  <1>10. j \in Int
    OBVIOUS
  <1> HIDE DEF Bad
  <1>11. CASE l + 1 = j
    BY <1>3, <1>4, <1>7, <1>8, <1>9, <1>10, <1>11
  <1>12. CASE l + 1 # j
    BY <1>3, <1>4, <1>7, <1>8, <1>9, <1>10, <1>12
  <1> QED
    BY <1>11, <1>12

\* Sums of natural numbers grow.
LEMMA SumGrows ==
    ASSUME NEW n \in Nat, NEW f, \A k \in 1..n : f[k] \in Nat, NEW a \in 0..n, NEW b \in a..n
    PROVE  SumTo(f, a) <= SumTo(f, b)
  <1> DEFINE Bad == {k \in a..n : ~(SumTo(f, a) <= SumTo(f, k))}
  <1> SUFFICES ASSUME Bad # {} PROVE FALSE
    OBVIOUS
  <1>1. PICK k \in Bad : \A l \in Bad : k <= l
    <2>1. Bad \in SUBSET Nat
      OBVIOUS
    <2> HIDE DEF Bad
    <2> QED
      BY <2>1, Least
  <1>2. PICK s \in Int : s = SumTo(f, a)
    BY SumType
  <1>3. k # a
    BY <1>1, <1>2
  <1>4. PICK l \in Nat : k = l + 1
    BY <1>1, <1>3
  <1>5. l \in 0..n /\ l + 1 \in 1..n /\ l \notin Bad /\ l \in a..n
    BY <1>1, <1>3, <1>4
  <1>6. PICK t \in Int : t = SumTo(f, l)
    BY <1>5, SumType
  <1>7. f[l + 1] \in Nat /\ s <= t
    BY <1>2, <1>5, <1>6
  <1>8. SumTo(f, k) = t + f[l + 1]
    BY <1>4, <1>6, SumNext
  <1>9. s <= SumTo(f, k)
    BY <1>7, <1>8
  <1> QED
    BY <1>1, <1>2, <1>9

\* A sum in two parts.
LEMMA SumSplit ==
    ASSUME NEW a \in Nat, NEW n \in Nat, NEW f, NEW g, \A k \in 1..(a + n) : f[k] \in Int,
           \A k \in 1..n : g[k] = f[a + k]
    PROVE  SumTo(f, a + n) = SumTo(f, a) + SumTo(g, n)
  <1> DEFINE Bad == {k \in 0..n : SumTo(f, a + k) # SumTo(f, a) + SumTo(g, k)}
  <1> SUFFICES ASSUME Bad # {} PROVE FALSE
    OBVIOUS
  <1>1. PICK k \in Bad : \A l \in Bad : k <= l
    <2>1. Bad \in SUBSET Nat
      OBVIOUS
    <2> HIDE DEF Bad
    <2> QED
      BY <2>1, Least
  <1>2. PICK s \in Int : s = SumTo(f, a)
    BY SumType
  <1>3. k # 0
    BY <1>1, <1>2, SumZero
  <1>4. PICK l \in Nat : k = l + 1
    BY <1>1, <1>3
  <1>5. l \in 0..n /\ l \notin Bad /\ l + 1 \in 1..n /\ a + l \in Nat
    BY <1>1, <1>4
  <1>6. PICK t \in Int : t = SumTo(g, l)
    <2>1. \A j \in 1..n : g[j] \in Int
      OBVIOUS
    <2> QED
      BY <1>5, <2>1, SumType
  <1>7. SumTo(f, a + l) = s + t
    BY <1>2, <1>5, <1>6
  <1>8. PICK u \in Int : u = f[a + k] /\ u = g[l + 1]
    BY <1>4, <1>5
  <1>9. SumTo(f, a + k) = (s + t) + u
    <2>1. a + k = (a + l) + 1
      BY <1>4
    <2> QED
      BY <1>5, <1>7, <1>8, <2>1, SumNext
  <1>10. SumTo(g, k) = t + u
    BY <1>4, <1>6, <1>8, SumNext
  <1> QED
    BY <1>1, <1>2, <1>9, <1>10

\* The sum of a table of r rows of w numbers, one behind the other, is that of
\* the sums of its rows.
SumsRows(g, f, h, r, w) ==
    /\ \A k \in 1..(r * w) : f[k] \in Int
    /\ \A c \in 1..r : g[c] = SumTo(h[c], w)
    /\ \A c \in 1..r : \A p \in 1..w : h[c][p] = f[(c - 1) * w + p]

LEMMA SumRows ==
    ASSUME NEW r \in Nat, NEW w \in Nat, NEW f, NEW g, NEW h, SumsRows(g, f, h, r, w)
    PROVE  SumTo(f, r * w) = SumTo(g, r)
  <1> USE DEF SumsRows
  <1> DEFINE Bad == {c \in 0..r : SumTo(f, c * w) # SumTo(g, c)}
  <1> SUFFICES ASSUME Bad # {} PROVE FALSE
    OBVIOUS
  <1>1. PICK c \in Bad : \A d \in Bad : c <= d
    <2>1. Bad \in SUBSET Nat
      OBVIOUS
    <2> HIDE DEF Bad
    <2> QED
      BY <2>1, Least
  <1>2. c # 0
    BY <1>1, SumZero
  <1>3. PICK d \in Nat : c = d + 1
    BY <1>1, <1>2
  <1>4. d \in 0..r /\ d \notin Bad /\ d + 1 \in 1..r
    BY <1>1, <1>3
  <1>5. PICK a \in Nat : a = d * w
    <2>1. d * w \in Nat
      OBVIOUS
    <2> QED
      BY <2>1
  <1>6. c * w = a + w /\ a + w <= r * w
    <2>1. (d + 1) * w = d * w + w
      OBVIOUS
    <2>2. PICK e \in Nat : r = d + 1 + e
      <3>1. r - (d + 1) \in Nat /\ r = d + 1 + (r - (d + 1))
        BY <1>4
      <3> QED
        BY <3>1
    <2>3. r * w = d * w + w + e * w /\ e * w \in Nat
      BY <2>2
    <2> QED
      BY <1>3, <1>5, <2>1, <2>3
  <1>7. \A k \in 1..(a + w) : f[k] \in Int
    <2>1. r * w \in Int
      OBVIOUS
    <2> QED
      BY <1>6, <2>1
  <1>8. \A p \in 1..w : h[c][p] = f[a + p]
    BY <1>3, <1>4, <1>5
  <1>9. SumTo(f, a + w) = SumTo(f, a) + SumTo(h[c], w)
    BY <1>7, <1>8, SumSplit
  <1>10. SumTo(f, a) = SumTo(g, d)
    BY <1>4, <1>5
  <1>11. g[d + 1] = SumTo(h[c], w)
    BY <1>3, <1>4
  <1>12. SumTo(g, c) = SumTo(g, d) + SumTo(h[c], w)
    BY <1>3, <1>11, SumNext
  <1> QED
    BY <1>1, <1>6, <1>9, <1>10, <1>12

\* The sum of a number for each member of a set of places.
LEMMA SumMembers ==
    ASSUME NEW n \in Nat, NEW S \in SUBSET (1..n), NEW c \in Int, NEW f,
           \A k \in 1..n : f[k] = IF k \in S THEN c ELSE 0
    PROVE  SumTo(f, n) = c * Cardinality(S)
  <1> DEFINE Bad == {k \in 0..n : SumTo(f, k) # c * Cardinality(S \cap (1..k))}
  <1> SUFFICES ASSUME Bad # {} PROVE FALSE
    <2>1. n \in 0..n
      OBVIOUS
    <2>2. n \notin Bad
      OBVIOUS
    <2>3. S \cap (1..n) = S
      BY Zenon
    <2> QED
      BY <2>1, <2>2, <2>3
  <1>1. PICK k \in Bad : \A l \in Bad : k <= l
    <2>1. Bad \in SUBSET Nat
      OBVIOUS
    <2> HIDE DEF Bad
    <2> QED
      BY <2>1, Least
  <1>2. k # 0
    <2>1. S \cap (1..0) = {}
      OBVIOUS
    <2> QED
      BY <1>1, <2>1, SumZero, FS_EmptySet
  <1>3. PICK l \in Nat : k = l + 1
    BY <1>1, <1>2
  <1>4. l \in 0..n /\ l \notin Bad /\ k \in 1..n
    BY <1>1, <1>3
  <1> DEFINE T == S \cap (1..l)
  <1>5. IsFiniteSet(T) /\ Cardinality(T) \in Nat /\ k \notin T
    <2>1. IsFiniteSet(1..l)
      BY FS_Interval
    <2>2. IsFiniteSet(T)
      BY <2>1, FS_Subset
    <2> QED
      BY <1>3, <2>2, FS_CardinalityType
  <1>6. PICK a \in Nat : a = Cardinality(T)
    BY <1>5
  <1>7. SumTo(f, l) = c * a
    BY <1>4, <1>6
  <1>8. SumTo(f, k) = c * a + f[k]
    BY <1>3, <1>7, SumNext
  <1>9. CASE k \in S
    <2>1. S \cap (1..k) = T \cup {k}
      BY <1>3, <1>9
    <2>2. Cardinality(S \cap (1..k)) = a + 1
      BY <1>5, <1>6, <2>1, FS_AddElement
    <2>3. c * (a + 1) = c * a + c
      OBVIOUS
    <2> QED
      BY <1>1, <1>4, <1>8, <1>9, <2>2, <2>3
  <1>10. CASE k \notin S
    <2>1. S \cap (1..k) = T
      BY <1>3, <1>10
    <2>2. c * a + 0 = c * a
      OBVIOUS
    <2> QED
      BY <1>1, <1>4, <1>6, <1>8, <1>10, <2>1, <2>2
  <1> QED
    BY <1>9, <1>10

\* One of finitely many numbers is the greatest.
LEMMA Greatest ==
    ASSUME NEW n \in Nat \ {0}, NEW f, \A k \in 1..n : f[k] \in Int
    PROVE  \E k \in 1..n : \A l \in 1..n : f[l] <= f[k]
  <1> DEFINE Bad == {m \in 1..n : ~\E k \in 1..m : \A l \in 1..m : f[l] <= f[k]}
  <1> SUFFICES ASSUME Bad # {} PROVE FALSE
    BY n \in 1..n
  <1>1. PICK m \in Bad : \A l \in Bad : m <= l
    <2>1. Bad \in SUBSET Nat
      OBVIOUS
    <2> HIDE DEF Bad
    <2> QED
      BY <2>1, Least
  <1>2. m # 1
    <2>1. 1 \in 1..1 /\ \A l \in 1..1 : l = 1
      OBVIOUS
    <2>2. f[1] \in Int
      OBVIOUS
    <2> QED
      BY <1>1, <2>1, <2>2
  <1>3. m - 1 \in 1..n /\ m - 1 \notin Bad /\ m \in 1..n
    <2>1. m \in 1..n
      BY <1>1
    <2>2. m - 1 \in 1..n /\ ~(m <= m - 1)
      BY <1>2, <2>1
    <2> HIDE DEF Bad
    <2> QED
      BY <1>1, <2>1, <2>2
  <1>4. PICK k \in 1..(m - 1) : \A l \in 1..(m - 1) : f[l] <= f[k]
    BY <1>3
  <1>5. f[k] \in Int /\ f[m] \in Int /\ \A l \in 1..(m - 1) : f[l] \in Int
    BY <1>3
  <1>6. k \in 1..m /\ m \in 1..m /\ \A l \in 1..m : l = m \/ l \in 1..(m - 1)
    BY <1>3
  <1>7. CASE f[m] <= f[k]
    BY <1>1, <1>4, <1>6, <1>7
  <1>8. CASE ~(f[m] <= f[k])
    <2>1. \A l \in 1..m : f[l] <= f[m]
      BY <1>4, <1>5, <1>6, <1>8, SMTT(20)
    <2> QED
      BY <1>1, <1>6, <2>1
  <1> QED
    BY <1>7, <1>8
=============================================================================
