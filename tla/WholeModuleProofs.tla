-------------------------- MODULE WholeModuleProofs -------------------------
(***************************************************************************)
(* The two parts of IRSlicer that walk the whole module, before and after  *)
(* slicing: CGFilter and GlobalVarDCE.                                     *)
(*                                                                         *)
(* For every set of modules: a number of CGFilter belongs to one function, *)
(* the ranges of functions nest as their calls do, and judgeIns is the     *)
(* order of a walk along the calls; GlobalVarDCE deletes exactly what is   *)
(* not needed, and nothing that is still used.                             *)
(*                                                                         *)
(* The numbers of CGFilter are times: a clock ticks whenever the walk      *)
(* enters or leaves a function with a body.                                *)
(***************************************************************************)
EXTENDS CGFilter, GlobalVarDCE, FiniteSetTheorems, WellFoundedInduction, TLAPS

\* A set of natural numbers has a least element.
LEMMA Least ==
    ASSUME NEW S \in SUBSET Nat, S # {}
    PROVE  \E x \in S : \A y \in S : x <= y
<1>1. PICK x \in S : \A y \in S : ~(<<y, x>> \in OpToRel(<, Nat))
  BY NatLessThanWellFounded, WFMin
<1>2. \A y \in S : ~(y < x)
  BY <1>1 DEF OpToRel
<1> QED
  BY <1>2

Call(f, k) == M.calls[f][k]
First(f)   == order[f].first

\* In the first loop: the functions that have not been left, and the records
\* that were looked at.
Opened     == IF phase = "pre" THEN {path[p].node : p \in DOMAIN path} ELSE {}
Left       == DOMAIN order \ Opened
Seen(f, k) == phase = "pre" => \A p \in DOMAIN path : path[p].node = f => k < path[p].next

\* The clock before record k of f is looked at, when leave says at what time
\* functions were left.
At(leave, f, k) ==
    LET before == {l \in Valid(f) : l < k}
    IN  IF before = {} THEN First(f) ELSE leave[Call(f, Max(before)).node]

\* Every tick of the clock enters or leaves one function.
Ticks(leave) ==
    /\ leave \in [M.fns -> Nat]
    /\ \A f, g \in DOMAIN order : First(f) = First(g) => f = g
    /\ \A f \in DOMAIN order, g \in Left : First(f) # leave[g]
    /\ \A f, g \in Left : leave[f] = leave[g] => f = g

\* The calls along which functions were entered.
Entries(leave) ==
    /\ \A f \in DOMAIN order : \A k \in Valid(f) :
          /\ Seen(f, k) /\ Call(f, k).node \in DOMAIN order
          /\ First(f) < First(Call(f, k).node)
          /\ f \in Left => Call(f, k).node \in Left /\ leave[Call(f, k).node] < leave[f]
    /\ \A f, g \in DOMAIN order : \A k \in Valid(f), l \in Valid(g) :
          Call(f, k).node = Call(g, l).node => f = g /\ k = l
    /\ \A x \in only : x[1] \in DOMAIN order

\* Functions are entered when their calls are looked at, if they were not before.
Times(leave) ==
    /\ \A f \in Left : First(f) < leave[f]
    /\ \A f \in Left, n \in Nat : n = Len(M.calls[f]) + 1 => leave[f] = At(leave, f, n) + 1
    /\ \A f \in DOMAIN order : \A k \in DOMAIN M.calls[f] :
          Seen(f, k) /\ Call(f, k).node \in M.fns =>
              /\ Call(f, k).node \in DOMAIN order
              /\ IF k \in Valid(f) THEN First(Call(f, k).node) = At(leave, f, k) + 1
                 ELSE First(Call(f, k).node) <= At(leave, f, k)
    /\ DOMAIN order # {} => Main \in DOMAIN order /\ First(Main) = 0

\* A function is left before one that was entered later is entered, or after
\* that is left.
Nested(leave) ==
    \A f \in Left, g \in DOMAIN order :
        First(f) < First(g) => leave[f] < First(g) \/ (g \in Left /\ leave[g] < leave[f])

\* The first d nodes of the stack are functions.
Stack(d) ==
    /\ d \in 0..Len(path) /\ (path # <<>> => d > 0 /\ path[1].node = Main)
    /\ \A p \in DOMAIN path : IF p <= d THEN path[p].node \in DOMAIN order ELSE path[p].node \notin M.fns
    /\ \A p \in 1..d : path[p].next \in 1..(Len(M.calls[path[p].node]) + 1)
    /\ \A p \in 1..d : \A f : \A k \in Nat :
          p < d /\ path[p].node = f /\ path[p].next = k + 1 =>
              k \in Valid(f) /\ Call(f, k).node = path[p + 1].node
    /\ \A p, q \in 1..d : p < q => First(path[p].node) < First(path[q].node)

\* The clock stands at c.
Clock(leave, d, c) ==
    /\ c \in Int
    /\ \A f, k : d > 0 /\ path[d] = [node |-> f, next |-> k] => c = At(leave, f, k)

\* In the first loop i + LastPathLen is the clock and the depth together (so the
\* number the code computes is the next time), and all functions visited are numbered.
InFirst(leave, d, c) ==
    phase = "pre" =>
        /\ c + d = i + lastLen
        /\ DOMAIN order = visited \cap M.fns
        /\ \A f \in DOMAIN order : First(f) <= c
        /\ \A f \in Left : leave[f] <= c
        /\ \A f \in DOMAIN order : \A k \in DOMAIN M.calls[f] : Seen(f, k) => Call(f, k).node \in visited
        /\ visited = {} => c = -1
        /\ visited # {} => Main \in visited
        /\ visited # {} /\ path = <<>> => c = leave[Main]

\* The second loop comes to the functions at the times of the first; those it
\* has left have their range.
InSecond(leave, c) ==
    phase # "pre" =>
        /\ Main \in DOMAIN order /\ \A f \in DOMAIN order : First(f) <= leave[Main]
        /\ phase = "post" /\ path # <<>> => visited \cap M.fns = {f \in DOMAIN order : First(f) <= c}
        /\ path = <<>> => visited = {} \/ visited \cap M.fns = DOMAIN order
        /\ \A f \in visited \cap M.fns :
              (\A p \in DOMAIN path : path[p].node # f) => order[f].last = leave[f]
        /\ phase = "done" => path = <<>> /\ \A f \in DOMAIN order : order[f].last = leave[f]

\* TypeOK without RangesNest.
Typed ==
    /\ WellFormed(M)
    /\ phase \in {"pre", "post", "done"}
    /\ visited \subseteq M.fns \cup M.decls \cup {External}
    /\ path \in Seq([node : visited, next : Nat \ {0}])
    /\ i \in Nat \cup {-1} /\ lastLen \in Nat
    /\ DOMAIN order \subseteq M.fns /\ order \in [DOMAIN order -> [first : Nat, last : Nat]]
    /\ only \subseteq Ins(M)

\* The times of a tree of calls.
Tree(leave) == Ticks(leave) /\ Entries(leave) /\ Times(leave) /\ Nested(leave)
\* Where the walk is in it.
Walk(leave, d, c) == Stack(d) /\ Clock(leave, d, c) /\ InFirst(leave, d, c) /\ InSecond(leave, c)

\* The inductive invariant.
IInv == Typed /\ \E leave, d, c : Tree(leave) /\ Walk(leave, d, c)
-----------------------------------------------------------------------------
(* Call graphs.                                                            *)

\* What WellFormed says about the records of a function.
LEMMA GraphFacts ==
    ASSUME WellFormed(M)
    PROVE  /\ Main \in M.fns /\ None \notin M.fns /\ External \notin M.fns /\ M.fns \cap M.decls = {}
           /\ \A f \in M.fns :
                 /\ Records(M, f) = M.calls[f] /\ Len(M.calls[f]) \in Nat
                 /\ DOMAIN M.calls[f] = 1..Len(M.calls[f])
                 /\ \A k \in DOMAIN M.calls[f] :
                       /\ Call(f, k).node \in M.fns \cup M.decls \cup {External}
                       /\ Call(f, k).site \in Ins(M) /\ Call(f, k).site[1] = f
                       /\ Call(f, k).site[2] \in Nat
                 /\ \A k, l \in DOMAIN M.calls[f] : k < l => Less(Call(f, k).site, Call(f, l).site)
<1> DEFINE R == [site : Ins(M), node : M.fns \cup M.decls \cup {External}]
<1>1. Main \in M.fns /\ None \notin M.fns /\ External \notin M.fns /\ M.fns \cap M.decls = {}
  BY DEF WellFormed
<1> SUFFICES ASSUME NEW f \in M.fns
             PROVE  /\ Records(M, f) = M.calls[f] /\ Len(M.calls[f]) \in Nat
                    /\ DOMAIN M.calls[f] = 1..Len(M.calls[f])
                    /\ \A k \in DOMAIN M.calls[f] :
                          /\ Call(f, k).node \in M.fns \cup M.decls \cup {External}
                          /\ Call(f, k).site \in Ins(M) /\ Call(f, k).site[1] = f
                          /\ Call(f, k).site[2] \in Nat
                    /\ \A k, l \in DOMAIN M.calls[f] : k < l => Less(Call(f, k).site, Call(f, l).site)
  BY <1>1
<1>2. M.calls[f] \in Seq(R)
  BY DEF WellFormed
<1>3. Len(M.calls[f]) \in Nat /\ DOMAIN M.calls[f] = 1..Len(M.calls[f])
      /\ \A k \in DOMAIN M.calls[f] : M.calls[f][k] \in R
  <2> HIDE DEF R
  <2> QED
    BY <1>2
<1>4. ASSUME NEW k \in DOMAIN M.calls[f] PROVE Call(f, k).site[2] \in Nat
  <2>1. Call(f, k).site \in Ins(M)
    BY <1>3 DEF Call
  <2>2. PICK g \in M.fns : Call(f, k).site \in {g} \X (1..M.size[g])
    BY <2>1 DEF Ins
  <2>3. M.size[g] \in Nat
    BY DEF WellFormed
  <2> QED
    BY <2>2, <2>3
<1>5. \A k, l \in DOMAIN M.calls[f] :
         Call(f, k).site[1] = f /\ (k < l => Less(Call(f, k).site, Call(f, l).site))
  BY DEF WellFormed, Call
<1>6. Records(M, f) = M.calls[f]
  BY DEF Records
<1> QED
  BY <1>3, <1>4, <1>5, <1>6 DEF Call

\* Other nodes have at most the record that leads to External.
LEMMA OutsideFacts ==
    ASSUME WellFormed(M), NEW n, n \notin M.fns
    PROVE  /\ Records(M, n) \in Seq([site : {<<n, 0>>}, node : {External}])
           /\ DOMAIN Records(M, n) \subseteq {1}
           /\ \A k \in DOMAIN Records(M, n) : Records(M, n)[k].node = External
<1>1. CASE n \in M.decls
  BY <1>1 DEF Records
<1>2. CASE n \notin M.decls
  BY <1>2 DEF Records
<1> QED
  BY <1>1, <1>2

\* Entries are records, so there are finitely many.
LEMMA ValidFacts ==
    ASSUME WellFormed(M), NEW f \in M.fns
    PROVE  /\ Valid(f) = {k \in DOMAIN M.calls[f] : Call(f, k).node \in M.fns /\ Call(f, k).site \in only}
           /\ Valid(f) \subseteq 1..Len(M.calls[f]) /\ Valid(f) \subseteq Nat \ {0}
           /\ IsFiniteSet(Valid(f))
<1>1. /\ Records(M, f) = M.calls[f] /\ Len(M.calls[f]) \in Nat
      /\ DOMAIN M.calls[f] = 1..Len(M.calls[f])
  BY GraphFacts
<1>2. Valid(f) = {k \in DOMAIN M.calls[f] : Call(f, k).node \in M.fns /\ Call(f, k).site \in only}
  BY <1>1 DEF Valid, Call
<1>3. Valid(f) \subseteq 1..Len(M.calls[f])
  BY <1>1, <1>2
<1>4. IsFiniteSet(1..Len(M.calls[f]))
  BY <1>1, FS_Interval
<1> QED
  BY <1>1, <1>2, <1>3, <1>4, FS_Subset

\* A bounded set of numbers has a maximum, and Max is it.
LEMMA MaxFacts ==
    ASSUME NEW S \in SUBSET Nat, NEW n \in Nat, S # {}, \A x \in S : x <= n
    PROVE  Max(S) \in S /\ \A x \in S : x <= Max(S)
<1> DEFINE T == {n - x : x \in S}
<1>0. T \in SUBSET Nat /\ T # {}
  <2>1. \A x \in S : n - x \in Nat
    OBVIOUS
  <2>2. T \in SUBSET Nat
    BY <2>1
  <2>3. PICK x \in S : TRUE
    OBVIOUS
  <2>4. n - x \in T
    OBVIOUS
  <2> QED
    BY <2>2, <2>4
<1>1. \E x \in S : \A y \in S : x >= y
  <2>1. PICK t \in T : \A u \in T : t <= u
    <3> HIDE DEF T
    <3> QED
      BY <1>0, Least
  <2>2. PICK x \in S : t = n - x
    OBVIOUS
  <2>3. ASSUME NEW y \in S PROVE x >= y
    <3>1. n - y \in T
      OBVIOUS
    <3> QED
      BY <2>1, <2>2, <3>1
  <2> QED
    BY <2>3
<1> QED
  BY <1>1 DEF Max

\* A set of numbers has a minimum, and Min is it.
LEMMA MinFacts ==
    ASSUME NEW S \in SUBSET Nat, S # {}
    PROVE  Min(S) \in S /\ \A x \in S : Min(S) <= x
<1>1. \E x \in S : \A y \in S : x =< y
  BY Least
<1> QED
  BY <1>1 DEF Min

-----------------------------------------------------------------------------
(* The clock within a function.                                            *)

\* Before its first record the clock shows when a function was entered,
LEMMA AtFirst ==
    ASSUME WellFormed(M), NEW f \in M.fns, NEW leave
    PROVE  At(leave, f, 1) = First(f)
<1>1. Valid(f) \subseteq Nat \ {0}
  BY ValidFacts
<1>2. {l \in Valid(f) : l < 1} = {}
  BY <1>1
<1> QED
  BY <1>2 DEF At

\* behind an entry when the function entered was left,
LEMMA AtEntered ==
    ASSUME WellFormed(M), NEW f \in M.fns, NEW leave, NEW k \in Valid(f)
    PROVE  At(leave, f, k + 1) = leave[Call(f, k).node]
<1> DEFINE B == {l \in Valid(f) : l < k + 1}
<1>1. Valid(f) \subseteq Nat /\ k \in Nat
  BY ValidFacts
<1>2. k \in B /\ B \in SUBSET Nat /\ \A l \in B : l <= k
  BY <1>1
<1> HIDE DEF B
<1>3. Max(B) \in B /\ k <= Max(B)
  BY <1>1, <1>2, MaxFacts
<1>4. Max(B) = k
  <2> DEFINE m == Max(B)
  <2>1. m \in Nat /\ m <= k /\ k <= m
    BY <1>2, <1>3
  <2> QED
    BY <1>1, <2>1
<1>5. At(leave, f, k + 1) = IF B = {} THEN First(f) ELSE leave[Call(f, Max(B)).node]
  BY DEF At, B
<1> QED
  BY <1>2, <1>4, <1>5

\* behind any other record what it showed before that,
LEMMA AtPassed ==
    ASSUME WellFormed(M), NEW f \in M.fns, NEW leave, NEW k \in Nat, k \notin Valid(f)
    PROVE  At(leave, f, k + 1) = At(leave, f, k)
<1>1. Valid(f) \subseteq Nat
  BY ValidFacts
<1>2. {l \in Valid(f) : l < k + 1} = {l \in Valid(f) : l < k}
  BY <1>1
<1> QED
  BY <1>2 DEF At

\* and nothing else.
LEMMA AtIs ==
    ASSUME WellFormed(M), NEW f \in M.fns, NEW leave, NEW k \in Nat
    PROVE  \/ At(leave, f, k) = First(f)
           \/ \E l \in Valid(f) : l < k /\ At(leave, f, k) = leave[Call(f, l).node]
<1> DEFINE B == {l \in Valid(f) : l < k}
<1>1. Valid(f) \subseteq Nat
  BY ValidFacts
<1>2. B \in SUBSET Nat /\ \A l \in B : l <= k
  BY <1>1
<1>3. At(leave, f, k) = IF B = {} THEN First(f) ELSE leave[Call(f, Max(B)).node]
  BY DEF At
<1> HIDE DEF B
<1>4. CASE B = {}
  BY <1>3, <1>4
<1>5. CASE B # {}
  <2>1. Max(B) \in B
    BY <1>2, <1>5, MaxFacts
  <2> QED
    BY <1>3, <1>5, <2>1 DEF B
<1> QED
  BY <1>4, <1>5

-----------------------------------------------------------------------------
(* What the times say about the numbers.                                   *)

\* All functions were left and have their ranges.
Finished(leave) ==
    /\ Typed /\ Tree(leave)
    /\ Left = DOMAIN order /\ \A f \in DOMAIN order : order[f].last = leave[f]
    /\ \A f, k : Seen(f, k)

\* What a function has on its clock is one of its ticks.
LEMMA AtInside ==
    ASSUME NEW leave, Finished(leave), NEW f \in DOMAIN order, NEW k \in Nat
    PROVE  At(leave, f, k) \in First(f)..(leave[f] - 1)
<1>1. f \in M.fns /\ WellFormed(M) /\ First(f) \in Nat /\ leave[f] \in Nat /\ First(f) < leave[f]
  BY DEF Finished, Typed, Tree, Ticks, Times, First
<1>2. CASE At(leave, f, k) = First(f)
  BY <1>1, <1>2
<1>3. ASSUME NEW l \in Valid(f), At(leave, f, k) = leave[Call(f, l).node]
      PROVE  At(leave, f, k) \in First(f)..(leave[f] - 1)
  <2> DEFINE g == Call(f, l).node
  <2>1. g \in DOMAIN order /\ First(f) < First(g) /\ leave[g] < leave[f]
    BY DEF Finished, Tree, Entries
  <2>2. First(g) \in Nat /\ leave[g] \in Nat /\ First(g) < leave[g]
    BY <2>1 DEF Finished, Typed, Tree, Ticks, Times, First
  <2> QED
    BY <1>1, <1>3, <2>1, <2>2
<1> QED
  BY <1>1, <1>2, <1>3, AtIs

\* Every time belongs to one function.
LEMMA AtOwner ==
    ASSUME NEW leave, Finished(leave), NEW f \in DOMAIN order, NEW g \in DOMAIN order,
           NEW k \in Nat, NEW l \in Nat, At(leave, f, k) = At(leave, g, l)
    PROVE  f = g
<1>1. f \in M.fns /\ g \in M.fns /\ WellFormed(M)
  BY DEF Finished, Typed
<1>2. \/ At(leave, f, k) = First(f)
      \/ \E n \in Valid(f) : At(leave, f, k) = leave[Call(f, n).node]
  BY <1>1, AtIs
<1>3. \/ At(leave, g, l) = First(g)
      \/ \E n \in Valid(g) : At(leave, g, l) = leave[Call(g, n).node]
  BY <1>1, AtIs
<1>4. /\ \A n \in Valid(f) : Call(f, n).node \in DOMAIN order
      /\ \A n \in Valid(g) : Call(g, n).node \in DOMAIN order
  BY DEF Finished, Tree, Entries
<1>5. /\ \A m, n \in DOMAIN order : First(m) = First(n) => m = n
      /\ \A m, n \in DOMAIN order : First(m) # leave[n]
      /\ \A m, n \in DOMAIN order : leave[m] = leave[n] => m = n
  BY DEF Finished, Tree, Ticks
<1>6. \A m \in Valid(f), n \in Valid(g) : Call(f, m).node = Call(g, n).node => f = g
  BY DEF Finished, Tree, Entries
<1> QED
  BY <1>2, <1>3, <1>4, <1>5, <1>6

\* The number of an instruction is the time before its call is looked at, or
\* before the next call behind it is.
LEMMA IndexIs ==
    ASSUME NEW leave, Finished(leave), NEW x \in Reached
    PROVE  /\ \E k \in Nat : indexof(x) = At(leave, x[1], k)
           /\ \A k \in Valid(x[1]) : x = Call(x[1], k).site => indexof(x) = At(leave, x[1], k)
<1> DEFINE f == x[1]
           n == Len(M.calls[f])
           B == {k \in Valid(f) : x = Call(f, k).site \/ Less(x, Call(f, k).site)}
<1>1. f \in DOMAIN order /\ f \in M.fns /\ WellFormed(M)
  BY DEF Reached, Finished, Typed
<1>2. Records(M, f) = M.calls[f] /\ n \in Nat /\ DOMAIN M.calls[f] = 1..n
  BY <1>1, GraphFacts
<1>3. Valid(f) \subseteq Nat /\ Valid(f) \subseteq 1..n
  BY <1>1, ValidFacts
<1>4. indexof(x) = IF M.calls[f] = <<>> THEN First(f)
                   ELSE IF B = {} THEN order[f].last - 1
                   ELSE First(Call(f, Min(B)).node) - 1
  BY <1>1, <1>2 DEF indexof, First, Call
<1>5. /\ \A k \in Valid(f) : First(Call(f, k).node) = At(leave, f, k) + 1
      /\ order[f].last = At(leave, f, n + 1) + 1
  <2>1. \A k \in Valid(f) : k \in DOMAIN M.calls[f] /\ Call(f, k).node \in M.fns
    BY <1>1, ValidFacts
  <2> QED
    BY <1>1, <2>1 DEF Finished, Tree, Times
<1>6. \A k \in Nat : At(leave, f, k) \in Int
  <2>1. First(f) \in Nat /\ leave[f] \in Nat
    BY <1>1 DEF Finished, Typed, Tree, Ticks, First
  <2> QED
    BY <1>1, <2>1, AtInside
<1>7. CASE M.calls[f] = <<>>
  <2>1. n = 0 /\ Valid(f) = {}
    BY <1>2, <1>3, <1>7
  <2>2. At(leave, f, 1) = First(f)
    BY <1>1, AtFirst
  <2> QED
    BY <1>4, <1>7, <2>1, <2>2
<1>8. CASE M.calls[f] # <<>> /\ B = {}
  <2>1. indexof(x) = At(leave, f, n + 1) /\ n + 1 \in Nat
    BY <1>2, <1>4, <1>5, <1>6, <1>8
  <2> QED
    BY <1>8, <2>1
<1>9. CASE M.calls[f] # <<>> /\ B # {}
  <2>1. B \in SUBSET Nat
    BY <1>3
  <2>2. PICK k \in B : k = Min(B) /\ \A l \in B : k <= l
    <3> HIDE DEF B
    <3> QED
      BY <1>9, <2>1, MinFacts
  <2>3. indexof(x) = At(leave, f, k) /\ k \in Nat
    <3>1. k \in Valid(f)
      OBVIOUS
    <3>2. At(leave, f, k) \in Int /\ First(Call(f, k).node) = At(leave, f, k) + 1 /\ k \in Nat
      BY <1>3, <1>5, <1>6, <3>1
    <3> HIDE DEF B
    <3> QED
      BY <1>4, <1>9, <2>2, <3>2
  <2>4. ASSUME NEW l \in Valid(f), x = Call(f, l).site PROVE l = k
    <3>1. k <= l /\ l \in 1..n /\ k \in 1..n
      BY <1>3, <2>2, <2>4
    <3>2. CASE k < l
      <4>1. Less(Call(f, k).site, x)
        BY <1>1, <1>2, <2>4, <3>1, <3>2, GraphFacts
      <4>2. Call(f, k).site[2] \in Nat /\ x[2] \in Nat
        <5>1. k \in DOMAIN M.calls[f] /\ l \in DOMAIN M.calls[f]
          BY <1>2, <3>1
        <5>2. Call(f, k).site[2] \in Nat /\ Call(f, l).site[2] \in Nat
          BY <1>1, <5>1, GraphFacts
        <5> QED
          BY <2>4, <5>2
      <4>3. Call(f, k).site[2] < x[2]
        BY <4>1 DEF Less
      <4>4. x = Call(f, k).site \/ Less(x, Call(f, k).site)
        BY <2>2
      <4>5. x[2] = Call(f, k).site[2] \/ x[2] < Call(f, k).site[2]
        BY <4>4 DEF Less
      <4> QED
        BY <4>2, <4>3, <4>5
    <3> QED
      BY <3>1, <3>2
  <2> QED
    BY <2>3, <2>4
<1> QED
  BY <1>7, <1>8, <1>9

\* Numbers are times at which their function was on top, ranges are the times
\* from entering to leaving: what is asked of them follows from Tree.
LEMMA RangesFollow ==
    ASSUME NEW leave, Finished(leave)
    PROVE  RangesNest /\ OneFunctionPerIndex
<1>1. \A f \in DOMAIN order : First(f) \in Nat /\ leave[f] \in Nat /\ First(f) < leave[f]
  BY DEF Finished, Typed, Tree, Ticks, Times, First
<1>2. \A f \in DOMAIN order : RangeOf(f) = First(f)..(leave[f] - 1)
  BY DEF RangeOf, First, Finished
<1>3. ASSUME NEW x \in Reached PROVE indexof(x) \in RangeOf(x[1]) /\ x[1] \in DOMAIN order
  <2>1. x[1] \in DOMAIN order
    BY DEF Reached
  <2> QED
    BY <1>2, <2>1, IndexIs, AtInside
<1>4. ASSUME NEW f \in DOMAIN order, NEW g \in DOMAIN order
      PROVE  RangeOf(f) \subseteq RangeOf(g) \/ RangeOf(g) \subseteq RangeOf(f) \/ RangeOf(f) \cap RangeOf(g) = {}
  <2>1. CASE First(f) < First(g)
    <3>1. leave[f] < First(g) \/ leave[g] < leave[f]
      BY <2>1 DEF Finished, Tree, Nested
    <3> QED
      BY <1>1, <1>2, <2>1, <3>1
  <2>2. CASE First(g) < First(f)
    <3>1. leave[g] < First(f) \/ leave[f] < leave[g]
      BY <2>2 DEF Finished, Tree, Nested
    <3> QED
      BY <1>1, <1>2, <2>2, <3>1
  <2>3. CASE First(f) = First(g)
    BY <2>3 DEF Finished, Tree, Ticks
  <2> QED
    BY <1>1, <2>1, <2>2, <2>3
<1>5. ASSUME NEW f \in DOMAIN order, NEW k \in Valid(f)
      PROVE  RangeOf(Records(M, f)[k].node) \subseteq RangeOf(f) \ {indexof(Records(M, f)[k].site)}
  <2> DEFINE g == Call(f, k).node
             x == Call(f, k).site
  <2>1. f \in M.fns /\ WellFormed(M)
    BY DEF Finished, Typed
  <2>2. Records(M, f) = M.calls[f] /\ k \in DOMAIN M.calls[f] /\ k \in Nat /\ g \in M.fns
    BY <2>1, GraphFacts, ValidFacts
  <2>3. g \in DOMAIN order /\ First(f) < First(g) /\ leave[g] < leave[f]
    BY DEF Finished, Tree, Entries
  <2>4. x[1] = f /\ x \in Reached
    BY <2>1, <2>2, GraphFacts DEF Reached
  <2>5. indexof(x) = At(leave, f, k)
    BY <2>4, IndexIs
  <2>6. First(g) = At(leave, f, k) + 1 /\ At(leave, f, k) \in Int
    <3>1. At(leave, f, k) \in First(f)..(leave[f] - 1)
      BY <2>2, AtInside
    <3> QED
      BY <1>1, <2>2, <3>1 DEF Finished, Tree, Times
  <2>7. RangeOf(g) \subseteq RangeOf(f) \ {indexof(x)}
    BY <1>1, <1>2, <2>3, <2>5, <2>6
  <2> QED
    BY <2>2, <2>7 DEF Call
<1>6. ASSUME NEW x \in Reached, NEW y \in Reached, indexof(x) = indexof(y) PROVE x[1] = y[1]
  <2>1. PICK k \in Nat : indexof(x) = At(leave, x[1], k)
    BY IndexIs
  <2>2. PICK l \in Nat : indexof(y) = At(leave, y[1], l)
    BY IndexIs
  <2> QED
    BY <1>3, <1>6, <2>1, <2>2, AtOwner
<1> QED
  BY <1>3, <1>4, <1>5, <1>6 DEF RangesNest, OneFunctionPerIndex

-----------------------------------------------------------------------------
(* Steps that enter and leave no function of the first loop keep the tree. *)

\* The times of f and its first records do not depend on anything else.
LEMMA AtSame ==
    ASSUME NEW f, NEW one, NEW two, NEW k, First(f)' = First(f), UNCHANGED M,
           {l \in Valid(f)' : l < k} = {l \in Valid(f) : l < k},
           \A l \in Valid(f) : l < k => two[Call(f, l).node] = one[Call(f, l).node],
           {l \in Valid(f) : l < k} # {} =>
               Max({l \in Valid(f) : l < k}) \in {l \in Valid(f) : l < k}
    PROVE  At(two, f, k)' = At(one, f, k)
<1> DEFINE B == {l \in Valid(f) : l < k}
<1>1. At(one, f, k) = IF B = {} THEN First(f) ELSE one[Call(f, Max(B)).node]
  BY DEF At
<1>2. At(two, f, k)' = IF B = {} THEN First(f) ELSE two[Call(f, Max(B)).node]
  BY DEF At, Call
<1>3. B # {} => two[Call(f, Max(B)).node] = one[Call(f, Max(B)).node]
  <2>1. B # {} => Max(B) \in B
    OBVIOUS
  <2>2. \A l \in B : two[Call(f, l).node] = one[Call(f, l).node]
    OBVIOUS
  <2> HIDE DEF B
  <2> QED
    BY <2>1, <2>2
<1> QED
  BY <1>1, <1>2, <1>3

\* The last entry before record k.
LEMMA MaxValid ==
    ASSUME WellFormed(M), NEW f \in M.fns, NEW k \in Nat, {l \in Valid(f) : l < k} # {}
    PROVE  /\ Max({l \in Valid(f) : l < k}) \in {l \in Valid(f) : l < k}
           /\ \A l \in {m \in Valid(f) : m < k} : l <= Max({m \in Valid(f) : m < k})
<1> DEFINE B == {l \in Valid(f) : l < k}
<1>1. Valid(f) \subseteq Nat
  BY ValidFacts
<1>2. B \in SUBSET Nat /\ \A l \in B : l <= k
  BY <1>1
<1> HIDE DEF B
<1>3. B # {} => Max(B) \in B /\ \A l \in B : l <= Max(B)
  BY <1>2, MaxFacts
<1> QED
  BY <1>3 DEF B

\* A step that enters and leaves nothing leaves the times as they are.
LEMMA TreeFrame ==
    ASSUME NEW leave, Typed, Tree(leave), UNCHANGED <<M, only>>,
           DOMAIN order' = DOMAIN order, \A f \in DOMAIN order : order'[f].first = order[f].first,
           Left' = Left,
           \A f \in DOMAIN order : \A k \in DOMAIN M.calls[f] : Seen(f, k) => Seen(f, k)',
           \A f \in DOMAIN order : \A k \in DOMAIN M.calls[f] :
               Seen(f, k)' /\ ~Seen(f, k) /\ Call(f, k).node \in M.fns =>
                   /\ Call(f, k).node \in DOMAIN order /\ k \notin Valid(f)
                   /\ First(Call(f, k).node) <= At(leave, f, k)
    PROVE  Tree(leave)'
<1> WellFormed(M)
  BY DEF Typed
<1>1. \A f \in DOMAIN order : f \in M.fns /\ First(f)' = First(f)
  BY DEF First, Typed
<1>2. \A f : Valid(f)' = Valid(f)
  BY DEF Valid, Records
<1>3. \A f, k : Call(f, k)' = Call(f, k)
  BY DEF Call
<1>4. ASSUME NEW f \in DOMAIN order, NEW k \in Nat PROVE At(leave, f, k)' = At(leave, f, k)
  BY <1>1, <1>2, MaxValid, AtSame
<1>5. \A f \in DOMAIN order : /\ Len(M.calls[f]) \in Nat /\ DOMAIN M.calls[f] = 1..Len(M.calls[f])
                              /\ Valid(f) \subseteq DOMAIN M.calls[f]
  BY <1>1, GraphFacts, ValidFacts
<1>6. Ticks(leave)'
  <2>1. leave \in [M.fns -> Nat] /\ Left \subseteq DOMAIN order
    BY DEF Tree, Ticks, Left
  <2>2. /\ \A f, g \in DOMAIN order : First(f) = First(g) => f = g
        /\ \A f \in DOMAIN order, g \in Left : First(f) # leave[g]
        /\ \A f, g \in Left : leave[f] = leave[g] => f = g
    BY DEF Tree, Ticks
  <2> QED
    BY <1>1, <2>1, <2>2 DEF Ticks
<1>7. Entries(leave)'
  <2>1. \A f \in DOMAIN order : \A k \in Valid(f) :
          /\ Seen(f, k)' /\ Call(f, k).node \in DOMAIN order
          /\ First(f) < First(Call(f, k).node)
          /\ f \in Left => Call(f, k).node \in Left /\ leave[Call(f, k).node] < leave[f]
    BY <1>5 DEF Tree, Entries
  <2>2. \A f, g \in DOMAIN order : \A k \in Valid(f), l \in Valid(g) :
          Call(f, k).node = Call(g, l).node => f = g /\ k = l
    BY DEF Tree, Entries
  <2>3. \A x \in only : x[1] \in DOMAIN order
    BY DEF Tree, Entries
  <2> QED
    BY <1>1, <1>2, <1>3, <2>1, <2>2, <2>3 DEF Entries
<1>8. Times(leave)'
  <2>1. /\ Left \subseteq DOMAIN order
        /\ \A f \in Left : First(f) < leave[f]
        /\ \A f \in Left, n \in Nat : n = Len(M.calls[f]) + 1 => leave[f] = At(leave, f, n) + 1
    BY DEF Tree, Times, Left
  <2>2. /\ \A f \in Left' : First(f)' < leave[f]
        /\ \A f \in Left', n \in Nat : n = Len(M'.calls[f]) + 1 => leave[f] = At(leave, f, n)' + 1
    BY <1>1, <1>4, <2>1
  <2>3. ASSUME NEW f \in DOMAIN order, NEW k \in DOMAIN M.calls[f], Seen(f, k)', Call(f, k).node \in M.fns
        PROVE  /\ Call(f, k).node \in DOMAIN order
               /\ IF k \in Valid(f) THEN First(Call(f, k).node) = At(leave, f, k) + 1
                  ELSE First(Call(f, k).node) <= At(leave, f, k)
    BY <2>3 DEF Tree, Times
  <2>4. \A f \in DOMAIN order : \A k \in DOMAIN M.calls[f] : At(leave, f, k)' = At(leave, f, k)
    BY <1>4, <1>5
  <2>5. DOMAIN order # {} => Main \in DOMAIN order /\ First(Main) = 0
    BY DEF Tree, Times
  <2>6. \A f \in DOMAIN order' : \A k \in DOMAIN M'.calls[f] :
           Seen(f, k)' /\ Call(f, k)'.node \in M'.fns =>
              /\ Call(f, k)'.node \in DOMAIN order'
              /\ IF k \in Valid(f)' THEN First(Call(f, k).node)' = At(leave, f, k)' + 1
                 ELSE First(Call(f, k).node)' <= At(leave, f, k)'
    <3> SUFFICES ASSUME NEW f \in DOMAIN order, NEW k \in DOMAIN M.calls[f], Seen(f, k)', Call(f, k).node \in M.fns
                 PROVE  /\ Call(f, k).node \in DOMAIN order
                        /\ IF k \in Valid(f)' THEN First(Call(f, k).node)' = At(leave, f, k)' + 1
                           ELSE First(Call(f, k).node)' <= At(leave, f, k)'
      BY <1>3
    <3>1. Call(f, k).node \in DOMAIN order
      BY <2>3
    <3>2. First(Call(f, k).node)' = First(Call(f, k).node)
      <4> DEFINE g == Call(f, k).node
      <4>1. g' = g
        BY <1>3
      <4>2. order'[g].first = order[g].first
        BY <3>1
      <4> QED
        BY <4>1, <4>2 DEF First
    <3> QED
      BY <1>2, <2>3, <2>4, <3>1, <3>2
  <2> QED
    BY <1>1, <2>2, <2>5, <2>6 DEF Times, First, Call
<1>9. Nested(leave)'
  <2>1. \A f \in Left, g \in DOMAIN order :
          First(f) < First(g) => leave[f] < First(g) \/ (g \in Left /\ leave[g] < leave[f])
    BY DEF Tree, Nested
  <2>2. Left \subseteq DOMAIN order
    BY DEF Left
  <2> QED
    BY <1>1, <2>1, <2>2 DEF Nested
<1> QED
  BY <1>6, <1>7, <1>8, <1>9 DEF Tree

-----------------------------------------------------------------------------
(* A function is entered in the first loop.                                *)

\* The stack grows by n; the last node of it moves to its next record.
Pushed(n) ==
    /\ path' \in Seq([node : visited', next : Nat \ {0}]) /\ Len(path') = Len(path) + 1
    /\ path'[Len(path) + 1] = [node |-> n, next |-> 1]
    /\ \A p \in DOMAIN path :
          /\ path'[p].node = path[p].node
          /\ path'[p].next = IF p = Len(path) THEN path[p].next + 1 ELSE path[p].next

\* Record k of function t is looked at, or it is the beginning.
Opens(leave, n, d, c, t, k) ==
    /\ Typed /\ Tree(leave) /\ Walk(leave, d, c) /\ phase = "pre" /\ UNCHANGED phase /\ UNCHANGED M
    /\ n \in M.fns /\ n \notin visited /\ visited' = visited \cup {n}
    /\ Pushed(n) /\ d = Len(path)
    /\ IF d = 0 THEN t = None /\ k = 0 /\ n = Main /\ visited = {} /\ only' = only
       ELSE /\ path[d] = [node |-> t, next |-> k] /\ k \in DOMAIN M.calls[t] /\ Call(t, k).node = n
            /\ only' = only \cup {Call(t, k).site}
    /\ order' = [g \in DOMAIN order \cup {n} |-> IF g = n THEN [first |-> c + 1, last |-> 0] ELSE order[g]]
    /\ i' = c + 1 /\ lastLen' = d + 1

\* What a step that enters a function changes.
LEMMA OpensFacts ==
    ASSUME NEW leave, NEW n, NEW d, NEW c, NEW t, NEW k, Opens(leave, n, d, c, t, k)
    PROVE  /\ WellFormed(M) /\ d \in Nat /\ DOMAIN path = 1..d /\ DOMAIN path' = 1..(d + 1)
           /\ DOMAIN order \subseteq M.fns /\ n \notin DOMAIN order /\ DOMAIN order' = DOMAIN order \cup {n}
           /\ c \in Int /\ c >= -1 /\ (d > 0 => t \in DOMAIN order) /\ (d = 0 => t \notin M.fns)
           /\ \A f \in DOMAIN order : First(f)' = First(f) /\ First(f) \in Nat /\ First(f) <= c
           /\ First(n)' = c + 1
<1>1. WellFormed(M) /\ path \in Seq([node : visited, next : Nat \ {0}])
  BY DEF Opens, Typed
<1>2. d \in Nat /\ DOMAIN path = 1..d /\ d = Len(path)
  BY <1>1 DEF Opens
<1>3. DOMAIN path' = 1..(d + 1)
  BY <1>2 DEF Opens, Pushed
<1>4. DOMAIN order \subseteq M.fns /\ DOMAIN order = visited \cap M.fns
  BY DEF Opens, Typed, Walk, InFirst
<1>5. n \notin DOMAIN order /\ DOMAIN order' = DOMAIN order \cup {n}
  BY <1>4 DEF Opens
<1>6. \A f \in DOMAIN order : First(f)' = First(f) /\ First(f) \in Nat /\ First(f) <= c
  <2>1. \A f \in DOMAIN order : First(f) \in Nat
    BY DEF Opens, Typed, First
  <2>2. \A f \in DOMAIN order : First(f)' = First(f)
    BY <1>5 DEF Opens, First
  <2>3. \A f \in DOMAIN order : First(f) <= c
    BY DEF Opens, Walk, InFirst
  <2> QED
    BY <2>1, <2>2, <2>3
<1>7. First(n)' = c + 1
  BY DEF Opens, First
<1>8. c \in Int
  BY DEF Opens, Walk, Clock
<1>9. d > 0 => t \in DOMAIN order
  <2>1. d > 0 => d \in DOMAIN path /\ path[d].node = t
    BY <1>2 DEF Opens
  <2> QED
    BY <2>1, <1>2 DEF Opens, Walk, Stack
<1>10. d = 0 => t \notin M.fns
  BY <1>1, GraphFacts DEF Opens
<1>11. c >= -1
  <2>1. CASE d = 0
    BY <2>1 DEF Opens, Walk, InFirst
  <2>2. CASE d > 0
    BY <1>6, <1>8, <1>9, <2>2
  <2> QED
    BY <1>2, <2>1, <2>2
<1> QED
  BY <1>1, <1>2, <1>3, <1>4, <1>5, <1>6, <1>7, <1>8, <1>9, <1>10, <1>11

\* The functions on the stack differ.
LEMMA StackDiffers ==
    ASSUME NEW d, Typed, Stack(d), NEW p \in 1..d, NEW q \in 1..d, path[p].node = path[q].node
    PROVE  p = q
<1>1. d \in Nat /\ d <= Len(path) /\ Len(path) \in Nat /\ DOMAIN path = 1..Len(path)
  BY DEF Typed, Stack
<1>2. p \in DOMAIN path /\ q \in DOMAIN path /\ p <= d /\ q <= d /\ p \in Int /\ q \in Int
  BY <1>1
<1>3. path[p].node \in DOMAIN order
  BY <1>2 DEF Stack
<1>4. First(path[p].node) \in Nat
  BY <1>3 DEF Typed, First
<1>5. \A m, n \in 1..d : m < n => First(path[m].node) < First(path[n].node)
  BY DEF Stack
<1>6. CASE p < q
  BY <1>4, <1>5, <1>6
<1>7. CASE q < p
  BY <1>4, <1>5, <1>7
<1> QED
  BY <1>2, <1>6, <1>7

\* Entering leaves no function,
LEMMA OpensLeft ==
    ASSUME NEW leave, NEW n, NEW d, NEW c, NEW t, NEW k, Opens(leave, n, d, c, t, k)
    PROVE  /\ Left' = Left /\ Left \subseteq DOMAIN order
           /\ \A f \in Left : leave[f] \in Nat /\ leave[f] <= c
<1>1. /\ DOMAIN path = 1..d /\ DOMAIN path' = 1..(d + 1) /\ d \in Nat
      /\ DOMAIN order' = DOMAIN order \cup {n} /\ n \notin DOMAIN order
  BY OpensFacts
<1>2. /\ \A p \in 1..d : path'[p].node = path[p].node
      /\ path'[d + 1].node = n
  BY <1>1 DEF Opens, Pushed
<1>3. {path'[p].node : p \in 1..(d + 1)} = {path[p].node : p \in 1..d} \cup {n}
  <2>1. \A p \in 1..(d + 1) : p \in 1..d \/ p = d + 1
    BY <1>1
  <2>2. \A p \in 1..d : p \in 1..(d + 1)
    BY <1>1
  <2>3. d + 1 \in 1..(d + 1)
    BY <1>1
  <2> QED
    BY <1>2, <2>1, <2>2, <2>3
<1>4. Opened' = Opened \cup {n}
  BY <1>1, <1>3 DEF Opened, Opens
<1>5. Left' = Left
  BY <1>1, <1>4 DEF Left
<1>6. \A f \in Left : leave[f] \in Nat /\ leave[f] <= c
  BY DEF Opens, Typed, Tree, Ticks, Walk, InFirst, Left
<1> QED
  BY <1>5, <1>6 DEF Left

\* The function entered has no records yet, and t has one more.
LEMMA OpensValid ==
    ASSUME NEW leave, NEW n, NEW d, NEW c, NEW t, NEW k, Opens(leave, n, d, c, t, k)
    PROVE  /\ \A f \in DOMAIN order : f # t => Valid(f)' = Valid(f)
           /\ d > 0 => /\ Valid(t)' = Valid(t) \cup {k} /\ k \notin Valid(t) /\ k \in Nat
                       /\ \A l \in Valid(t) : l < k
           /\ Valid(n)' = {}
<1>0. /\ WellFormed(M) /\ DOMAIN order \subseteq M.fns /\ n \notin DOMAIN order /\ n \in M.fns
      /\ (d > 0 => t \in DOMAIN order) /\ d \in Nat /\ DOMAIN path = 1..d
  BY OpensFacts DEF Opens
<1>1. \A f \in M.fns : /\ Valid(f) = {l \in DOMAIN M.calls[f] : Call(f, l).node \in M.fns /\ Call(f, l).site \in only}
                       /\ Valid(f)' = {l \in DOMAIN M.calls[f] : Call(f, l).node \in M.fns /\ Call(f, l).site \in only'}
  <2>1. \A f \in M.fns : Records(M, f) = M.calls[f]
    BY <1>0, GraphFacts
  <2>2. M' = M
    BY DEF Opens
  <2> QED
    BY <2>1, <2>2 DEF Valid, Call
<1>2. \A f \in M.fns : \A l \in DOMAIN M.calls[f] : Call(f, l).site[1] = f
  BY <1>0, GraphFacts
<1>3. only' \subseteq only \cup {Call(t, k).site} /\ only \subseteq only'
  BY DEF Opens
<1>4. d > 0 => /\ k \in DOMAIN M.calls[t] /\ Call(t, k).node = n /\ only' = only \cup {Call(t, k).site}
               /\ Call(t, k).site[1] = t
  BY <1>0, <1>2 DEF Opens
<1>5. \A f \in M.fns : f # t => Valid(f)' = Valid(f)
  <2>1. d = 0 => only' = only
    BY DEF Opens
  <2> SUFFICES ASSUME NEW f \in M.fns, f # t PROVE Valid(f)' = Valid(f)
    OBVIOUS
  <2>2. ASSUME NEW l \in DOMAIN M.calls[f] PROVE Call(f, l).site \in only' <=> Call(f, l).site \in only
    <3>1. Call(f, l).site[1] = f
      BY <1>2
    <3>2. CASE d > 0
      <4>1. Call(f, l).site # Call(t, k).site
        BY <1>4, <3>1, <3>2
      <4> QED
        BY <1>4, <3>2, <4>1
    <3> QED
      BY <1>0, <2>1, <3>2
  <2> QED
    BY <1>1, <2>2
<1>6. Valid(n) = {} /\ n # t
  <2>1. \A x \in only : x[1] \in DOMAIN order
    BY DEF Opens, Tree, Entries
  <2>2. Valid(n) = {}
    BY <1>0, <1>1, <1>2, <2>1
  <2>3. d = 0 => t \notin M.fns
    BY OpensFacts
  <2> QED
    BY <1>0, <2>2, <2>3
<1>7. ASSUME d > 0
      PROVE  /\ Valid(t)' = Valid(t) \cup {k} /\ k \notin Valid(t) /\ k \in Nat
             /\ \A l \in Valid(t) : l < k
  <2>1. t \in M.fns /\ k \in DOMAIN M.calls[t] /\ Call(t, k).node = n
    BY <1>0, <1>4, <1>7
  <2>2. DOMAIN M.calls[t] = 1..Len(M.calls[t]) /\ Len(M.calls[t]) \in Nat
    BY <1>0, <2>1, GraphFacts
  <2>3. ASSUME NEW l \in DOMAIN M.calls[t], Call(t, l).site = Call(t, k).site PROVE l = k
    <3>1. l \in Int /\ k \in Int
      BY <2>1, <2>2
    <3>2. \A m, o \in DOMAIN M.calls[t] : m < o => Less(Call(t, m).site, Call(t, o).site)
      BY <1>0, <2>1, GraphFacts
    <3>3. Call(t, k).site[2] \in Nat /\ ~Less(Call(t, k).site, Call(t, k).site)
      BY <1>0, <2>1, GraphFacts DEF Less
    <3> QED
      BY <2>1, <2>3, <3>1, <3>2, <3>3
  <2>4. Valid(t)' = Valid(t) \cup {k}
    BY <1>0, <1>1, <1>4, <1>7, <2>1, <2>3 DEF Opens
  <2>5. \A l \in Valid(t) : Seen(t, l)
    BY <1>0, <1>7 DEF Opens, Tree, Entries
  <2>6. d \in DOMAIN path /\ path[d].node = t /\ path[d].next = k
    BY <1>0, <1>7 DEF Opens
  <2>7. \A l \in Valid(t) : l < k
    BY <2>5, <2>6 DEF Seen, Opens
  <2> QED
    BY <2>1, <2>2, <2>4, <2>7
<1> QED
  BY <1>0, <1>5, <1>6, <1>7

\* Record k of t is seen now; no record of n is.
LEMMA OpensSeen ==
    ASSUME NEW leave, NEW n, NEW d, NEW c, NEW t, NEW k, Opens(leave, n, d, c, t, k)
    PROVE  /\ \A f \in DOMAIN order : \A l : f # t => (Seen(f, l)' <=> Seen(f, l))
           /\ d > 0 => \A l : (Seen(t, l) <=> l < k) /\ (Seen(t, l)' <=> l < k + 1)
           /\ \A l : Seen(n, l)' => l < 1
<1>0. /\ WellFormed(M) /\ DOMAIN path = 1..d /\ DOMAIN path' = 1..(d + 1) /\ d \in Nat
      /\ n \notin DOMAIN order /\ (d > 0 => t \in DOMAIN order)
  BY OpensFacts
<1>1. /\ \A p \in 1..d : path'[p].node = path[p].node
                         /\ path'[p].next = IF p = d THEN path[p].next + 1 ELSE path[p].next
      /\ path'[d + 1].node = n /\ path'[d + 1].next = 1
  BY <1>0 DEF Opens, Pushed
<1>2. /\ \A f, l : Seen(f, l) <=> \A p \in 1..d : path[p].node = f => l < path[p].next
      /\ \A f, l : Seen(f, l)' <=> \A p \in 1..(d + 1) : path'[p].node = f => l < path'[p].next
  BY <1>0 DEF Seen, Opens
<1>3. \A f \in DOMAIN order : \A l :
          Seen(f, l)' <=> \A p \in 1..d : path[p].node = f => l < path'[p].next
  <2>1. \A p \in 1..(d + 1) : p \in 1..d \/ p = d + 1
    BY <1>0
  <2>2. \A p \in 1..d : p \in 1..(d + 1)
    BY <1>0
  <2> QED
    BY <1>0, <1>1, <1>2, <2>1, <2>2
<1>4. d > 0 => path[d].node = t /\ path[d].next = k /\ d \in 1..d
  BY <1>0 DEF Opens
<1>5. ASSUME NEW f \in DOMAIN order, NEW l, f # t PROVE Seen(f, l)' <=> Seen(f, l)
  <2>1. \A p \in 1..d : path[p].node = f => path'[p].next = path[p].next
    BY <1>1, <1>4, <1>5
  <2> QED
    BY <1>2, <1>3, <2>1
<1>6. ASSUME d > 0, NEW l PROVE (Seen(t, l) <=> l < k) /\ (Seen(t, l)' <=> l < k + 1)
  <2>1. \A p \in 1..d : path[p].node = t => p = d
    BY <1>4, <1>6, StackDiffers DEF Opens, Walk
  <2>2. path'[d].next = k + 1
    BY <1>1, <1>4, <1>6
  <2>3. t \in DOMAIN order
    BY <1>0, <1>6
  <2>4. Seen(t, l) <=> l < k
    BY <1>2, <1>4, <1>6, <2>1
  <2>5. Seen(t, l)' <=> l < k + 1
    BY <1>3, <1>4, <1>6, <2>1, <2>2, <2>3
  <2> QED
    BY <2>4, <2>5
<1>7. \A l : Seen(n, l)' => l < 1
  <2>1. d + 1 \in 1..(d + 1)
    BY <1>0
  <2> QED
    BY <1>1, <1>2, <2>1
<1> QED
  BY <1>5, <1>6, <1>7

\* and changes no time before it.
LEMMA OpensAt ==
    ASSUME NEW leave, NEW n, NEW d, NEW c, NEW t, NEW k, Opens(leave, n, d, c, t, k)
    PROVE  /\ \A f \in DOMAIN order, l \in Nat : f # t \/ l <= k => At(leave, f, l)' = At(leave, f, l)
           /\ At(leave, n, 1)' = c + 1
           /\ d > 0 => At(leave, t, k) = c
<1>0. /\ WellFormed(M) /\ DOMAIN order \subseteq M.fns
      /\ \A f \in DOMAIN order : First(f)' = First(f)
  BY OpensFacts
<1>1. ASSUME NEW f \in DOMAIN order, NEW l \in Nat, f # t \/ l <= k
      PROVE  At(leave, f, l)' = At(leave, f, l)
  <2>1. {m \in Valid(f)' : m < l} = {m \in Valid(f) : m < l}
    <3>1. CASE f # t
      BY <3>1, OpensValid
    <3>2. CASE f = t
      <4>0. d \in Nat /\ (d = 0 => t \notin M.fns) /\ t \in M.fns
        BY <1>0, <3>2, OpensFacts
      <4>1. d > 0 /\ l <= k
        BY <1>1, <3>2, <4>0
      <4>2. Valid(t)' = Valid(t) \cup {k} /\ k \in Nat /\ ~(k < l)
        BY <1>1, <4>1, OpensValid
      <4> QED
        BY <3>2, <4>2
    <3> QED
      BY <3>1, <3>2
  <2>2. UNCHANGED M
    BY DEF Opens
  <2>3. {m \in Valid(f) : m < l} # {} => Max({m \in Valid(f) : m < l}) \in {m \in Valid(f) : m < l}
    BY <1>0, MaxValid
  <2> QED
    BY <1>0, <2>1, <2>2, <2>3, AtSame
<1>2. At(leave, n, 1)' = c + 1
  <2>1. {m \in Valid(n)' : m < 1} = {}
    BY OpensValid
  <2>2. First(n)' = c + 1
    BY OpensFacts
  <2> QED
    BY <2>1, <2>2 DEF At
<1>3. d > 0 => At(leave, t, k) = c
  <2>1. d > 0 => path[d] = [node |-> t, next |-> k]
    BY DEF Opens, Pushed
  <2> QED
    BY <2>1 DEF Opens, Walk, Clock
<1> QED
  BY <1>1, <1>2, <1>3

\* Entering preserves the three parts of the invariant.
LEMMA OpensTree ==
    ASSUME NEW leave, NEW n, NEW d, NEW c, NEW t, NEW k, Opens(leave, n, d, c, t, k)
    PROVE  Tree(leave)'
<1>0. /\ WellFormed(M) /\ DOMAIN order \subseteq M.fns /\ n \notin DOMAIN order
      /\ DOMAIN order' = DOMAIN order \cup {n} /\ c \in Int /\ c >= -1 /\ d \in Nat
      /\ (d > 0 => t \in DOMAIN order) /\ (d = 0 => t \notin M.fns)
  BY OpensFacts
<1>1. /\ \A f \in DOMAIN order : First(f)' = First(f) /\ First(f) \in Nat /\ First(f) <= c
      /\ First(n)' = c + 1
  BY OpensFacts
<1>2. /\ Left' = Left /\ Left \subseteq DOMAIN order
      /\ \A f \in Left : leave[f] \in Nat /\ leave[f] <= c
  BY OpensLeft
<1>3. \A f, l : Call(f, l)' = Call(f, l)
  BY DEF Call, Opens
<1>m. M' = M /\ n \in M.fns
  BY DEF Opens
<1>t. ASSUME d > 0
      PROVE  /\ t \in DOMAIN order /\ t # n /\ k \in DOMAIN M.calls[t] /\ Call(t, k).node = n /\ k \in Nat
             /\ t \notin Left
  <2>1. path[d].node = t /\ d \in DOMAIN path
    BY <1>t, OpensFacts DEF Opens
  <2>2. t \in Opened
    BY <2>1 DEF Opened, Opens
  <2> QED
    BY <1>0, <1>t, <2>2, OpensValid DEF Opens, Left
<1>v. \A f \in DOMAIN order' : \A l \in Valid(f)' : f \in DOMAIN order /\ (l \in Valid(f) \/ (d > 0 /\ f = t /\ l = k))
  BY <1>0, OpensValid
<1>4. Ticks(leave)'
  <2>1. leave \in [M.fns -> Nat]
    BY DEF Opens, Tree, Ticks
  <2>2. /\ \A f, g \in DOMAIN order : First(f) = First(g) => f = g
        /\ \A f \in DOMAIN order, g \in Left : First(f) # leave[g]
        /\ \A f, g \in Left : leave[f] = leave[g] => f = g
    BY DEF Opens, Tree, Ticks
  <2>3. \A f, g \in DOMAIN order' : First(f)' = First(g)' => f = g
    BY <1>0, <1>1, <2>2
  <2>4. \A f \in DOMAIN order', g \in Left : First(f)' # leave[g]
    BY <1>0, <1>1, <1>2, <2>2
  <2> QED
    BY <1>2, <1>m, <2>1, <2>2, <2>3, <2>4 DEF Ticks
<1>5. Entries(leave)'
  <2>0. /\ \A f \in DOMAIN order : \A l \in Valid(f) :
              /\ Seen(f, l) /\ Call(f, l).node \in DOMAIN order
              /\ First(f) < First(Call(f, l).node)
              /\ f \in Left => Call(f, l).node \in Left /\ leave[Call(f, l).node] < leave[f]
        /\ \A f, g \in DOMAIN order : \A l \in Valid(f), m \in Valid(g) :
              Call(f, l).node = Call(g, m).node => f = g /\ l = m
    BY DEF Opens, Tree, Entries
  <2>1. ASSUME NEW f \in DOMAIN order', NEW l \in Valid(f)'
        PROVE  /\ Seen(f, l)' /\ Call(f, l).node \in DOMAIN order'
               /\ First(f)' < First(Call(f, l).node)'
               /\ f \in Left => Call(f, l).node \in Left /\ leave[Call(f, l).node] < leave[f]
    <3> DEFINE g == Call(f, l).node
    <3>1. First(g)' = order'[g].first
      BY <1>3 DEF First
    <3>2. CASE l \in Valid(f) /\ f \in DOMAIN order
      <4>1. Seen(f, l) /\ g \in DOMAIN order /\ First(f) < First(g)
            /\ (f \in Left => g \in Left /\ leave[g] < leave[f])
        BY <2>0, <3>2
      <4>2. Seen(f, l)'
        <5>1. CASE f # t
          BY <3>2, <4>1, <5>1, OpensSeen
        <5>2. CASE f = t
          <6>1. d > 0 /\ l < k /\ l \in Nat /\ k \in Nat
            <7>1. d > 0
              BY <1>0, <3>2, <5>2
            <7>2. l \in Nat
              BY <1>0, <3>2, ValidFacts
            <7> QED
              BY <3>2, <5>2, <7>1, <7>2, OpensValid
          <6>2. l < k + 1
            BY <6>1
          <6> QED
            BY <5>2, <6>1, <6>2, OpensSeen
        <5> QED
          BY <5>1, <5>2
      <4>3. order'[g].first = First(g)
        BY <1>1, <4>1 DEF First
      <4> QED
        BY <1>0, <1>1, <3>1, <3>2, <4>1, <4>2, <4>3
    <3>3. CASE d > 0 /\ f = t /\ l = k
      <4>1. k < k + 1 /\ k \in Nat
        BY <1>t, <3>3
      <4>2. Seen(f, l)'
        BY <3>3, <4>1, OpensSeen
      <4>3. g = n /\ t \in DOMAIN order /\ t \notin Left
        BY <1>t, <3>3
      <4>4. order'[g].first = c + 1
        BY <4>3, <1>1 DEF First
      <4>5. First(f)' = First(t) /\ First(t) < c + 1
        BY <1>0, <1>1, <3>3, <4>3
      <4> QED
        BY <1>0, <3>1, <3>3, <4>2, <4>3, <4>4, <4>5
    <3> QED
      BY <1>v, <3>2, <3>3
  <2>2. ASSUME NEW f \in DOMAIN order', NEW g \in DOMAIN order', NEW l \in Valid(f)', NEW m \in Valid(g)',
               Call(f, l).node = Call(g, m).node
        PROVE  f = g /\ l = m
    <3>1. f \in DOMAIN order /\ g \in DOMAIN order
      BY <1>v
    <3>2. \A a \in DOMAIN order : \A b \in Valid(a) : Call(a, b).node # n
      BY <1>0, <2>0
    <3> QED
      BY <1>v, <1>t, <2>0, <2>2, <3>1, <3>2
  <2>3. \A x \in only' : x[1] \in DOMAIN order'
    <3>1. \A x \in only : x[1] \in DOMAIN order
      BY DEF Opens, Tree, Entries
    <3>2. d > 0 => Call(t, k).site[1] = t
      BY <1>0, <1>t, GraphFacts
    <3> QED
      BY <1>0, <1>t, <3>1, <3>2 DEF Opens
  <2> QED
    BY <1>2, <1>3, <2>1, <2>2, <2>3 DEF Entries
<1>6. Times(leave)'
  <2>1. /\ \A f \in Left' : First(f)' < leave[f]
        /\ \A f \in Left', l \in Nat : l = Len(M'.calls[f]) + 1 => leave[f] = At(leave, f, l)' + 1
    <3>1. /\ \A f \in Left : First(f) < leave[f]
          /\ \A f \in Left, l \in Nat : l = Len(M.calls[f]) + 1 => leave[f] = At(leave, f, l) + 1
      BY DEF Opens, Tree, Times
    <3>2. \A f \in Left : f \in DOMAIN order /\ f # t
      BY <1>0, <1>2, <1>t
    <3> QED
      BY <1>1, <1>2, <1>m, <3>1, <3>2, OpensAt
  <2>2. ASSUME NEW f \in DOMAIN order', NEW l \in DOMAIN M.calls[f], Seen(f, l)', Call(f, l).node \in M.fns
        PROVE  /\ Call(f, l).node \in DOMAIN order'
               /\ IF l \in Valid(f)' THEN order'[Call(f, l).node].first = At(leave, f, l)' + 1
                  ELSE order'[Call(f, l).node].first <= At(leave, f, l)'
    <3> DEFINE g == Call(f, l).node
    <3>1. f \in M.fns /\ DOMAIN M.calls[f] = 1..Len(M.calls[f]) /\ Len(M.calls[f]) \in Nat
      BY <1>0, <1>m, GraphFacts
    <3>2. l \in Nat /\ l >= 1
      BY <3>1
    <3>3. f \in DOMAIN order
      BY <1>0, <2>2, <3>2, OpensSeen
    <3>4. CASE Seen(f, l) /\ (f = t => d > 0 /\ l < k /\ k \in Nat)
      <4>1. /\ g \in DOMAIN order
            /\ IF l \in Valid(f) THEN First(g) = At(leave, f, l) + 1 ELSE First(g) <= At(leave, f, l)
        BY <2>2, <3>3, <3>4 DEF Opens, Tree, Times
      <4>2. f # t \/ l <= k
        BY <3>2, <3>4
      <4>3. At(leave, f, l)' = At(leave, f, l)
        BY <3>2, <3>3, <4>2, OpensAt
      <4>4. l \in Valid(f)' <=> l \in Valid(f)
        <5>1. CASE f # t
          BY <3>3, <5>1, OpensValid
        <5>2. CASE f = t
          BY <3>2, <3>4, <5>2, OpensValid
        <5> QED
          BY <5>1, <5>2
      <4>5. order'[g].first = First(g)
        BY <1>1, <4>1 DEF First
      <4> QED
        BY <1>0, <4>1, <4>3, <4>4, <4>5
    <3>5. CASE d > 0 /\ f = t /\ l = k
      <4>1. g = n /\ l \in Valid(f)' /\ k <= k /\ k \in Nat
        BY <1>t, <3>5, OpensValid
      <4>2. At(leave, f, l)' = c
        BY <3>3, <3>5, <4>1, OpensAt
      <4>3. order'[g].first = c + 1
        BY <1>1, <4>1 DEF First
      <4> QED
        BY <1>0, <4>1, <4>2, <4>3
    <3>6. f # t => Seen(f, l)
      BY <2>2, <3>3, OpensSeen
    <3>7. f = t => d > 0
      BY <1>0, <3>3
    <3>8. f = t => l < k + 1 /\ k \in Nat
      BY <1>t, <2>2, <3>7, OpensSeen
    <3>9. f = t /\ l < k => Seen(f, l)
      BY <3>7, OpensSeen
    <3>10. l < k + 1 /\ k \in Nat => l < k \/ l = k
      BY <3>2
    <3> QED
      BY <3>4, <3>5, <3>6, <3>7, <3>8, <3>9, <3>10
  <2>3. Main \in DOMAIN order' /\ First(Main)' = 0
    <3>1. CASE d = 0
      <4>1. n = Main /\ c = -1
        BY <3>1 DEF Opens, Walk, InFirst
      <4> QED
        BY <1>0, <1>1, <4>1
    <3>2. CASE d > 0
      <4>1. Main \in DOMAIN order /\ First(Main) = 0
        BY <1>t, <3>2 DEF Opens, Tree, Times
      <4> QED
        BY <1>0, <1>1, <4>1
    <3> QED
      BY <1>0, <3>1, <3>2
  <2>4. \A f \in DOMAIN order' : \A l \in DOMAIN M'.calls[f] :
           Seen(f, l)' /\ Call(f, l)'.node \in M'.fns =>
              /\ Call(f, l)'.node \in DOMAIN order'
              /\ IF l \in Valid(f)' THEN order'[Call(f, l)'.node].first = At(leave, f, l)' + 1
                 ELSE order'[Call(f, l)'.node].first <= At(leave, f, l)'
    BY <1>3, <1>m, <2>2
  <2> QED
    BY <2>1, <2>3, <2>4 DEF Times, First
<1>7. Nested(leave)'
  <2>1. \A f \in Left, g \in DOMAIN order :
          First(f) < First(g) => leave[f] < First(g) \/ (g \in Left /\ leave[g] < leave[f])
    BY DEF Opens, Tree, Nested
  <2>2. \A f \in Left : leave[f] < c + 1
    BY <1>0, <1>2
  <2> QED
    BY <1>0, <1>1, <1>2, <2>1, <2>2 DEF Nested
<1> QED
  BY <1>4, <1>5, <1>6, <1>7 DEF Tree

LEMMA OpensWalk ==
    ASSUME NEW leave, NEW n, NEW d, NEW c, NEW t, NEW k, Opens(leave, n, d, c, t, k)
    PROVE  Walk(leave, d + 1, c + 1)'
<1>0. /\ WellFormed(M) /\ d \in Nat /\ DOMAIN path = 1..d /\ DOMAIN path' = 1..(d + 1)
      /\ DOMAIN order \subseteq M.fns /\ n \notin DOMAIN order /\ DOMAIN order' = DOMAIN order \cup {n}
      /\ c \in Int /\ c >= -1 /\ (d > 0 => t \in DOMAIN order) /\ (d = 0 => t \notin M.fns)
  BY OpensFacts
<1>1. /\ \A f \in DOMAIN order : First(f)' = First(f) /\ First(f) \in Nat /\ First(f) <= c
      /\ First(n)' = c + 1
  BY OpensFacts
<1>2. /\ \A p \in 1..d : path'[p].node = path[p].node
                         /\ path'[p].next = IF p = d THEN path[p].next + 1 ELSE path[p].next
      /\ path'[d + 1].node = n /\ path'[d + 1].next = 1 /\ path'[d + 1] = [node |-> n, next |-> 1]
      /\ Len(path') = d + 1
  <2>1. Pushed(n) /\ d = Len(path)
    BY DEF Opens
  <2>2. path'[d + 1] = [node |-> n, next |-> 1] /\ Len(path') = d + 1
    BY <2>1 DEF Pushed
  <2>3. path'[d + 1].node = n /\ path'[d + 1].next = 1
    BY <2>2
  <2>4. \A p \in 1..d : path'[p].node = path[p].node
                        /\ path'[p].next = IF p = d THEN path[p].next + 1 ELSE path[p].next
    BY <1>0, <2>1 DEF Pushed
  <2> QED
    BY <2>2, <2>3, <2>4
<1>m. M' = M /\ n \in M.fns /\ phase = "pre" /\ phase' = "pre" /\ visited' = visited \cup {n}
  BY DEF Opens
<1>s. Stack(d)
  BY DEF Opens, Walk
<1>t. d > 0 => path[d].node = t /\ path[d].next = k /\ k \in DOMAIN M.calls[t] /\ Call(t, k).node = n
  BY <1>0 DEF Opens
<1>3. \A p \in 1..d : path[p].node \in DOMAIN order
  <2>1. \A p \in 1..d : p \in DOMAIN path /\ p <= d
    BY <1>0
  <2> QED
    BY <1>s, <2>1 DEF Stack
<1>4. \A p \in 1..(d + 1) : p \in 1..d \/ p = d + 1
  BY <1>0
<1>5. Stack(d + 1)'
  <2>1. d + 1 \in 0..Len(path') /\ d + 1 > 0
    BY <1>0, <1>2
  <2>2. path'[1].node = Main
    <3>1. CASE d = 0
      BY <1>2, <3>1 DEF Opens
    <3>2. CASE d > 0
      <4>1. 1 \in 1..d /\ path # <<>>
        BY <1>0, <3>2
      <4> QED
        BY <1>2, <1>s, <4>1 DEF Stack
    <3> QED
      BY <1>0, <3>1, <3>2
  <2>3. \A p \in 1..(d + 1) : path'[p].node \in DOMAIN order'
    BY <1>0, <1>2, <1>3, <1>4
  <2>4. ASSUME NEW p \in 1..(d + 1)
        PROVE  path'[p].next \in 1..(Len(M.calls[path'[p].node]) + 1)
    <3>1. /\ \A f \in M.fns : Len(M.calls[f]) \in Nat /\ DOMAIN M.calls[f] = 1..Len(M.calls[f])
      BY <1>0, GraphFacts
    <3>2. CASE p = d + 1
      <4>1. Len(M.calls[n]) \in Nat
        BY <1>m, <3>1
      <4> QED
        BY <1>2, <3>2, <4>1
    <3>3. CASE p \in 1..d /\ p # d
      BY <1>2, <1>s, <3>3 DEF Stack
    <3>4. CASE p = d /\ d > 0
      <4>1. t \in M.fns /\ k \in 1..Len(M.calls[t]) /\ Len(M.calls[t]) \in Nat
        BY <1>0, <1>t, <3>1, <3>4
      <4>2. path'[p].node = t /\ path'[p].next = k + 1
        BY <1>0, <1>2, <1>t, <3>4
      <4>3. k + 1 \in 1..(Len(M.calls[t]) + 1)
        BY <4>1
      <4> QED
        BY <4>2, <4>3
    <3> QED
      BY <1>0, <1>4, <3>2, <3>3, <3>4
  <2>5. ASSUME NEW p \in 1..(d + 1), NEW f, NEW l \in Nat,
               p < d + 1, path'[p].node = f, path'[p].next = l + 1
        PROVE  l \in Valid(f)' /\ Call(f, l).node = path'[p + 1].node
    <3>1. p \in 1..d /\ path[p].node = f /\ f \in DOMAIN order
      BY <1>0, <1>2, <1>3, <2>5
    <3>2. CASE p = d
      <4>1. d > 0 /\ f = t /\ path'[d].next = k + 1 /\ k \in Nat
        BY <1>0, <1>2, <1>t, <3>1, <3>2, OpensValid
      <4>2. l = k
        BY <2>5, <3>2, <4>1
      <4>3. k \in Valid(t)'
        BY <4>1, OpensValid
      <4> QED
        BY <1>2, <1>t, <3>2, <4>1, <4>2, <4>3
    <3>3. CASE p # d
      <4>1. p < d /\ p + 1 \in 1..d /\ path[p].next = l + 1
        BY <1>0, <1>2, <2>5, <3>1, <3>3
      <4>2. l \in Valid(f) /\ Call(f, l).node = path[p + 1].node
        BY <1>s, <3>1, <4>1 DEF Stack
      <4>3. f # t
        <5>1. d \in 1..d /\ path[d].node = t
          BY <1>0, <1>t, <4>1
        <5> QED
          BY <1>s, <3>1, <3>3, <5>1, StackDiffers DEF Opens
      <4>4. Valid(f)' = Valid(f)
        BY <3>1, <4>3, OpensValid
      <4>5. path'[p + 1].node = path[p + 1].node
        BY <1>2, <4>1
      <4> QED
        BY <4>2, <4>4, <4>5
    <3> QED
      BY <3>2, <3>3
  <2>6. ASSUME NEW p \in 1..(d + 1), NEW q \in 1..(d + 1), p < q
        PROVE  order'[path'[p].node].first < order'[path'[q].node].first
    <3>1. p \in 1..d
      BY <1>0, <2>6
    <3>2. path'[p].node = path[p].node /\ path[p].node \in DOMAIN order
      BY <1>2, <1>3, <3>1
    <3>3. order'[path'[p].node].first = First(path[p].node) /\ First(path[p].node) <= c
          /\ First(path[p].node) \in Nat
      BY <1>1, <3>2 DEF First
    <3>4. CASE q = d + 1
      <4>1. order'[path'[q].node].first = c + 1
        BY <1>1, <1>2, <3>4 DEF First
      <4> QED
        BY <1>0, <3>3, <4>1
    <3>5. CASE q \in 1..d
      <4>1. order'[path'[q].node].first = First(path[q].node)
        BY <1>1, <1>2, <1>3, <3>5 DEF First
      <4>2. First(path[p].node) < First(path[q].node)
        BY <1>s, <2>6, <3>1, <3>5 DEF Stack
      <4> QED
        BY <3>3, <4>1, <4>2
    <3> QED
      BY <1>4, <3>4, <3>5
  <2>7. \A p \in DOMAIN path' : p <= d + 1
    BY <1>0
  <2> QED
    BY <1>0, <1>m, <2>1, <2>2, <2>3, <2>4, <2>5, <2>6, <2>7 DEF Stack, First, Call
<1>6. Clock(leave, d + 1, c + 1)'
  <2>1. \A f, l : path'[d + 1] = [node |-> f, next |-> l] => f = n /\ l = 1
    BY <1>2
  <2>2. At(leave, n, 1)' = c + 1
    BY OpensAt
  <2> QED
    BY <1>0, <2>1, <2>2 DEF Clock
<1>7. InFirst(leave, d + 1, c + 1)'
  <2>1. (c + 1) + (d + 1) = i' + lastLen'
    BY <1>0 DEF Opens
  <2>2. DOMAIN order' = visited' \cap M.fns
    BY <1>0, <1>m DEF Opens, Walk, InFirst
  <2>3. \A f \in DOMAIN order' : First(f)' <= c + 1
    BY <1>0, <1>1
  <2>4. \A f \in Left' : leave[f] <= c + 1
    BY <1>0, OpensLeft
  <2>5. ASSUME NEW f \in DOMAIN order', NEW l \in DOMAIN M.calls[f], Seen(f, l)'
        PROVE  Call(f, l).node \in visited'
    <3>1. DOMAIN M.calls[f] = 1..Len(M.calls[f]) /\ Len(M.calls[f]) \in Nat
      BY <1>0, <1>m, GraphFacts
    <3>2. l \in Nat /\ ~(l < 1)
      BY <3>1
    <3>3. f \in DOMAIN order
      BY <1>0, <2>5, <3>2, OpensSeen
    <3>4. Seen(f, l) => Call(f, l).node \in visited
      BY <1>m, <3>3 DEF Opens, Walk, InFirst
    <3>5. CASE f # t
      BY <1>m, <2>5, <3>3, <3>4, <3>5, OpensSeen
    <3>6. CASE f = t
      <4>1. d > 0
        BY <1>0, <3>3, <3>6
      <4>2. l < k + 1 /\ k \in Nat
        BY <2>5, <3>6, <4>1, OpensSeen, OpensValid
      <4>3. CASE l < k
        BY <1>m, <3>4, <3>6, <4>1, <4>3, OpensSeen
      <4>4. CASE l = k
        BY <1>m, <1>t, <3>6, <4>1, <4>4
      <4> QED
        BY <3>2, <4>2, <4>3, <4>4
    <3> QED
      BY <3>5, <3>6
  <2>6. visited' # {} /\ path' # <<>>
    BY <1>0, <1>m, <1>2
  <2>7. Main \in visited'
    <3>1. CASE d = 0
      BY <1>m, <3>1 DEF Opens
    <3>2. CASE d > 0
      <4>1. visited # {}
        BY <1>0, <3>2 DEF Opens, Walk, InFirst
      <4> QED
        BY <1>m, <4>1 DEF Opens, Walk, InFirst
    <3> QED
      BY <1>0, <3>1, <3>2
  <2>8. \A f, l : Call(f, l)' = Call(f, l)
    BY <1>m DEF Call
  <2> QED
    BY <1>m, <2>1, <2>2, <2>3, <2>4, <2>5, <2>6, <2>7, <2>8 DEF InFirst
<1>8. InSecond(leave, c + 1)'
  BY <1>m DEF InSecond
<1> QED
  BY <1>5, <1>6, <1>7, <1>8 DEF Walk

LEMMA OpensTyped ==
    ASSUME NEW leave, NEW n, NEW d, NEW c, NEW t, NEW k, Opens(leave, n, d, c, t, k)
    PROVE  Typed'
<1>0. /\ WellFormed(M) /\ d \in Nat /\ DOMAIN order \subseteq M.fns /\ DOMAIN order' = DOMAIN order \cup {n}
      /\ c \in Int /\ c >= -1 /\ (d > 0 => t \in DOMAIN order)
  BY OpensFacts
<1>m. M' = M /\ n \in M.fns /\ phase' = "pre" /\ visited' = visited \cup {n}
  BY DEF Opens
<1>1. WellFormed(M)'
  BY <1>0, <1>m DEF WellFormed, Ins, Less
<1>2. visited' \subseteq M'.fns \cup M'.decls \cup {External}
  BY <1>m DEF Opens, Typed
<1>3. path' \in Seq([node : visited', next : Nat \ {0}])
  BY DEF Opens, Pushed
<1>4. i' \in Nat \cup {-1} /\ lastLen' \in Nat
  BY <1>0 DEF Opens
<1>5. DOMAIN order' \subseteq M'.fns /\ order' \in [DOMAIN order' -> [first : Nat, last : Nat]]
  <2>1. [first |-> c + 1, last |-> 0] \in [first : Nat, last : Nat]
    BY <1>0
  <2>2. \A g \in DOMAIN order : order[g] \in [first : Nat, last : Nat]
    BY DEF Opens, Typed
  <2>3. order' = [g \in DOMAIN order \cup {n} |-> IF g = n THEN [first |-> c + 1, last |-> 0] ELSE order[g]]
    BY DEF Opens
  <2>4. order' \in [DOMAIN order \cup {n} -> [first : Nat, last : Nat]]
    BY <2>1, <2>2, <2>3
  <2> QED
    BY <1>0, <1>m, <2>4
<1>6. only' \subseteq Ins(M)'
  <2>1. Ins(M)' = Ins(M) /\ only \subseteq Ins(M)
    BY <1>m DEF Ins, Opens, Typed
  <2>2. d > 0 => Call(t, k).site \in Ins(M)
    <3>1. d > 0 => k \in DOMAIN M.calls[t] /\ t \in M.fns
      BY <1>0 DEF Opens
    <3> QED
      BY <1>0, <3>1, GraphFacts
  <2> QED
    BY <1>0, <2>1, <2>2 DEF Opens
<1> QED
  BY <1>1, <1>2, <1>3, <1>4, <1>5, <1>6, <1>m DEF Typed

-----------------------------------------------------------------------------
(* A function is left in the first loop.                                   *)

Popped ==
    /\ path' \in Seq([node : visited', next : Nat \ {0}]) /\ Len(path') = Len(path) - 1
    /\ \A p \in 1..(Len(path) - 1) : path'[p] = path[p]

\* All records of f, of which there are k - 1, were looked at.
Closes(leave, d, c, f, k) ==
    /\ Typed /\ Tree(leave) /\ Walk(leave, d, c) /\ phase = "pre"
    /\ UNCHANGED phase /\ UNCHANGED M /\ UNCHANGED visited /\ UNCHANGED order /\ UNCHANGED only
    /\ UNCHANGED i /\ UNCHANGED lastLen
    /\ Popped /\ d = Len(path) /\ d > 0
    /\ path[d] = [node |-> f, next |-> k] /\ k = Len(M.calls[f]) + 1

\* The times with that of f.
With(leave, f, time) == [leave EXCEPT ![f] = time]

\* What a step that leaves a function changes.
LEMMA ClosesFacts ==
    ASSUME NEW leave, NEW d, NEW c, NEW f, NEW k, Closes(leave, d, c, f, k)
    PROVE  /\ WellFormed(M) /\ d \in Nat /\ DOMAIN path = 1..d /\ DOMAIN path' = 1..(d - 1)
           /\ DOMAIN order \subseteq M.fns /\ f \in DOMAIN order /\ c \in Int /\ c >= 0
           /\ \A g \in DOMAIN order : First(g) \in Nat /\ First(g) <= c
           /\ \A p \in 1..d : path[p].node \in DOMAIN order
           /\ path[d].node = f /\ d \in 1..d /\ f \in Opened /\ f \notin Left
<1>1. WellFormed(M) /\ path \in Seq([node : visited, next : Nat \ {0}])
  BY DEF Closes, Typed
<1>2. d \in Nat /\ DOMAIN path = 1..d /\ d = Len(path) /\ d > 0
  BY <1>1 DEF Closes
<1>3. DOMAIN path' = 1..(d - 1)
  BY <1>2 DEF Closes, Popped
<1>4. DOMAIN order \subseteq M.fns
  BY DEF Closes, Typed
<1>5. \A p \in 1..d : path[p].node \in DOMAIN order
  <2>1. \A p \in 1..d : p \in DOMAIN path /\ p <= d
    BY <1>2
  <2> QED
    BY <2>1 DEF Closes, Walk, Stack
<1>6. path[d].node = f /\ d \in 1..d
  BY <1>2 DEF Closes
<1>7. f \in DOMAIN order
  BY <1>5, <1>6
<1>8. \A g \in DOMAIN order : First(g) \in Nat /\ First(g) <= c
  BY DEF Closes, Typed, First, Walk, InFirst
<1>9. c \in Int
  BY DEF Closes, Walk, Clock
<1>10. c >= 0
  BY <1>7, <1>8, <1>9
<1>11. f \in Opened
  BY <1>2, <1>6 DEF Closes, Opened
<1>12. f \notin Left
  BY <1>11 DEF Left
<1> QED
  BY <1>1, <1>2, <1>3, <1>4, <1>5, <1>6, <1>7, <1>8, <1>9, <1>10, <1>11, <1>12

\* The last function of the stack was entered last of those that are open.
LEMMA ClosesLast ==
    ASSUME NEW leave, NEW d, NEW c, NEW f, NEW k, Closes(leave, d, c, f, k)
    PROVE  \A g \in DOMAIN order : First(f) < First(g) => g \in Left
<1>0. /\ d \in Nat /\ DOMAIN path = 1..d /\ path[d].node = f /\ d \in 1..d
      /\ \A g \in DOMAIN order : First(g) \in Nat /\ First(g) <= c
      /\ \A p \in 1..d : path[p].node \in DOMAIN order
  BY ClosesFacts
<1>1. ASSUME NEW p \in 1..d PROVE ~(First(f) < First(path[p].node))
  <2>1. CASE p = d
    BY <1>0, <2>1
  <2>2. CASE p # d
    <3>1. p < d
      BY <1>0, <2>2
    <3>2. First(path[p].node) < First(f)
      BY <1>0, <3>1 DEF Closes, Walk, Stack
    <3> QED
      BY <1>0, <3>2
  <2> QED
    BY <2>1, <2>2
<1>2. \A g \in Opened : ~(First(f) < First(g))
  BY <1>0, <1>1 DEF Opened
<1> QED
  BY <1>2 DEF Left

\* Leaving adds one function to those left,
LEMMA ClosesLeft ==
    ASSUME NEW leave, NEW d, NEW c, NEW f, NEW k, Closes(leave, d, c, f, k)
    PROVE  /\ Left' = Left \cup {f} /\ Left \subseteq DOMAIN order
           /\ \A g \in Left : leave[g] \in Nat /\ leave[g] <= c
<1>0. /\ d \in Nat /\ DOMAIN path = 1..d /\ DOMAIN path' = 1..(d - 1) /\ path[d].node = f /\ d \in 1..d
      /\ f \in DOMAIN order
  BY ClosesFacts
<1>1. Opened = {path[p].node : p \in 1..d} /\ Opened' = {path'[p].node : p \in 1..(d - 1)}
  BY <1>0 DEF Opened, Closes
<1>2. \A p \in 1..(d - 1) : path'[p].node = path[p].node /\ p \in 1..d /\ p # d
  BY <1>0 DEF Closes, Popped
<1>3. \A p \in 1..(d - 1) : path[p].node # f
  BY <1>0, <1>2, StackDiffers DEF Closes, Walk
<1>4. Opened' = Opened \ {f}
  <2>1. \A p \in 1..d : p = d \/ p \in 1..(d - 1)
    BY <1>0
  <2> QED
    BY <1>0, <1>1, <1>2, <1>3, <2>1
<1>5. Left' = Left \cup {f}
  BY <1>0, <1>4 DEF Left, Closes
<1>6. \A g \in Left : leave[g] \in Nat /\ leave[g] <= c
  BY DEF Closes, Typed, Tree, Ticks, Walk, InFirst, Left
<1> QED
  BY <1>5, <1>6 DEF Left

\* all of whose records were looked at,
LEMMA ClosesSeen ==
    ASSUME NEW leave, NEW d, NEW c, NEW f, NEW k, Closes(leave, d, c, f, k)
    PROVE  /\ \A g \in DOMAIN order : \A l : g # f => (Seen(g, l)' <=> Seen(g, l))
           /\ \A l \in DOMAIN M.calls[f] : Seen(f, l)
           /\ \A l : Seen(f, l)'
<1>0. /\ WellFormed(M) /\ d \in Nat /\ DOMAIN path = 1..d /\ DOMAIN path' = 1..(d - 1) /\ path[d].node = f /\ d \in 1..d
      /\ f \in M.fns
  BY ClosesFacts
<1>1. /\ \A g, l : Seen(g, l) <=> \A p \in 1..d : path[p].node = g => l < path[p].next
      /\ \A g, l : Seen(g, l)' <=> \A p \in 1..(d - 1) : path'[p].node = g => l < path'[p].next
  BY <1>0 DEF Seen, Closes
<1>2. \A p \in 1..(d - 1) : path'[p] = path[p] /\ p \in 1..d /\ p # d
  BY <1>0 DEF Closes, Popped
<1>3. \A p \in 1..d : p = d \/ p \in 1..(d - 1)
  BY <1>0
<1>4. \A p \in 1..d : path[p].node = f => p = d
  BY <1>0, StackDiffers DEF Closes, Walk
<1>5. \A g, l : g # f => (Seen(g, l)' <=> Seen(g, l))
  BY <1>0, <1>1, <1>2, <1>3
<1>6. \A l : Seen(f, l)'
  BY <1>1, <1>2, <1>4
<1>7. \A l \in DOMAIN M.calls[f] : Seen(f, l)
  <2>1. DOMAIN M.calls[f] = 1..Len(M.calls[f]) /\ Len(M.calls[f]) \in Nat
    BY <1>0, GraphFacts
  <2>2. path[d].next = Len(M.calls[f]) + 1
    BY <1>0 DEF Closes
  <2>3. \A l \in DOMAIN M.calls[f] : l < path[d].next
    BY <2>1, <2>2
  <2> QED
    BY <1>1, <1>4, <2>3
<1> QED
  BY <1>5, <1>6, <1>7

\* The record along which f was entered is the last one its caller has seen.
LEMMA ClosesEntry ==
    ASSUME NEW leave, NEW d, NEW c, NEW f, NEW k, Closes(leave, d, c, f, k),
           NEW g \in DOMAIN order, NEW m \in Valid(g), Call(g, m).node = f, NEW l \in Nat, m < l
    PROVE  ~Seen(g, l)'
<1>0. /\ WellFormed(M) /\ DOMAIN order \subseteq M.fns /\ f \in DOMAIN order
      /\ d \in Nat /\ DOMAIN path = 1..d /\ path[d].node = f /\ d \in 1..d
      /\ \A h \in DOMAIN order : First(h) \in Nat
      /\ \A p \in 1..d : path[p].node \in DOMAIN order
  BY ClosesFacts
<1>1. First(g) < First(f) /\ g # f
  BY <1>0 DEF Closes, Tree, Entries
<1>2. d > 1
  <2>1. CASE d = 1
    <3>1. f = Main /\ First(Main) = 0
      BY <1>0, <2>1 DEF Closes, Walk, Stack, Tree, Times
    <3> QED
      BY <1>0, <1>1, <3>1
  <2> QED
    BY <1>0, <2>1
<1>3. PICK p \in 1..d : p + 1 = d /\ p < d /\ p \in DOMAIN path
  <2>1. d - 1 \in 1..d /\ (d - 1) + 1 = d /\ d - 1 < d
    BY <1>0, <1>2
  <2> QED
    BY <1>0, <2>1
<1> DEFINE h == path[p].node
<1>4. h \in DOMAIN order /\ path[p].next \in 1..(Len(M.calls[h]) + 1) /\ Len(M.calls[h]) \in Nat
  <2>1. h \in M.fns
    BY <1>0, <1>3
  <2>2. Len(M.calls[h]) \in Nat
    BY <1>0, <2>1, GraphFacts
  <2> QED
    BY <1>0, <1>3, <2>2 DEF Closes, Walk, Stack
<1>5. PICK j \in Nat : path[p].next = j + 1
  <2>1. path[p].next - 1 \in Nat /\ path[p].next = (path[p].next - 1) + 1
    BY <1>4
  <2> QED
    BY <2>1
<1>6. j \in Valid(h) /\ Call(h, j).node = f
  <2>1. Stack(d)
    BY DEF Closes, Walk
  <2>2. path[p + 1].node = f
    BY <1>0, <1>3
  <2> QED
    BY <1>3, <1>5, <2>1, <2>2 DEF Stack
<1>7. g = h /\ m = j
  BY <1>4, <1>6 DEF Closes, Tree, Entries
<1>8. Seen(g, l) => l < j + 1
  BY <1>0, <1>3, <1>5, <1>7 DEF Seen, Closes
<1> QED
  BY <1>1, <1>5, <1>7, <1>8, ClosesSeen

\* and changes no time before it.
LEMMA ClosesAt ==
    ASSUME NEW leave, NEW d, NEW c, NEW f, NEW k, Closes(leave, d, c, f, k),
           NEW g \in DOMAIN order, NEW l \in Nat
    PROVE  /\ (\A m \in Valid(g) : m < l => Call(g, m).node # f) =>
                  At(With(leave, f, c + 1), g, l)' = At(leave, g, l)
           /\ Seen(g, l)' => At(With(leave, f, c + 1), g, l)' = At(leave, g, l)
           /\ l \in Valid(g) /\ Call(g, l).node = f => At(With(leave, f, c + 1), g, l + 1)' = c + 1
<1> DEFINE new == With(leave, f, c + 1)
<1>0. /\ WellFormed(M) /\ DOMAIN order \subseteq M.fns /\ f \in M.fns /\ UNCHANGED M
  BY ClosesFacts DEF Closes
<1>1. Valid(g)' = Valid(g) /\ First(g)' = First(g)
  BY DEF Valid, Records, First, Closes
<1>2. leave \in [M.fns -> Nat]
  BY DEF Closes, Tree, Ticks
<1>3. /\ new[f] = c + 1
      /\ \A h \in M.fns : h # f => new[h] = leave[h]
  BY <1>0, <1>2 DEF With
<1>4. \A m \in Valid(g) : Call(g, m).node \in M.fns
  BY <1>0 DEF Closes, Tree, Entries
<1> HIDE DEF new
<1>5. ASSUME \A m \in Valid(g) : m < l => Call(g, m).node # f
      PROVE  At(new, g, l)' = At(leave, g, l)
  <2>1. \A m \in Valid(g) : m < l => new[Call(g, m).node] = leave[Call(g, m).node]
    BY <1>3, <1>4, <1>5
  <2>2. {m \in Valid(g) : m < l} # {} => Max({m \in Valid(g) : m < l}) \in {m \in Valid(g) : m < l}
    BY <1>0, MaxValid
  <2> QED
    BY <1>0, <1>1, <2>1, <2>2, AtSame
<1>6. ASSUME Seen(g, l)' PROVE At(new, g, l)' = At(leave, g, l)
  BY <1>5, <1>6, ClosesEntry
<1>7. ASSUME l \in Valid(g), Call(g, l).node = f PROVE At(new, g, l + 1)' = c + 1
  <2>1. At(new, g, l + 1) = new[f]
    BY <1>0, <1>7, AtEntered
  <2>2. l + 1 \in Nat
    OBVIOUS
  <2>3. {m \in Valid(g) : m < l + 1} # {} => Max({m \in Valid(g) : m < l + 1}) \in {m \in Valid(g) : m < l + 1}
    BY <1>0, <2>2, MaxValid
  <2>4. At(new, g, l + 1)' = At(new, g, l + 1)
    BY <1>0, <1>1, <2>3, AtSame
  <2> QED
    BY <1>3, <2>1, <2>4
<1> QED
  BY <1>5, <1>6, <1>7 DEF new

\* Leaving preserves the three parts of the invariant, with one more time.
LEMMA ClosesTree ==
    ASSUME NEW leave, NEW d, NEW c, NEW f, NEW k, Closes(leave, d, c, f, k)
    PROVE  Tree(With(leave, f, c + 1))'
<1> DEFINE new == With(leave, f, c + 1)
<1>0. /\ WellFormed(M) /\ DOMAIN order \subseteq M.fns /\ f \in DOMAIN order /\ f \notin Left
      /\ c \in Int /\ c >= 0
      /\ \A g \in DOMAIN order : First(g) \in Nat /\ First(g) <= c
  BY ClosesFacts
<1>m. /\ M' = M /\ order' = order /\ only' = only
      /\ \A g : Valid(g)' = Valid(g) /\ First(g)' = First(g)
      /\ \A g, l : Call(g, l)' = Call(g, l)
  BY DEF Closes, Valid, Records, First, Call
<1>1. /\ Left' = Left \cup {f} /\ Left \subseteq DOMAIN order
      /\ \A g \in Left : leave[g] \in Nat /\ leave[g] <= c
  BY ClosesLeft
<1>2. new \in [M.fns -> Nat] /\ new[f] = c + 1 /\ \A g \in M.fns : g # f => new[g] = leave[g]
  BY <1>0 DEF With, Closes, Tree, Ticks
<1>3. \A g \in Left : new[g] = leave[g] /\ g \in DOMAIN order /\ g # f
  BY <1>0, <1>1, <1>2
<1>4. \A g \in DOMAIN order : First(f) < First(g) => g \in Left
  BY ClosesLast
<1> HIDE DEF new
<1>e. /\ \A g \in DOMAIN order : \A l \in Valid(g) :
            /\ Seen(g, l) /\ Call(g, l).node \in DOMAIN order
            /\ First(g) < First(Call(g, l).node)
            /\ g \in Left => Call(g, l).node \in Left /\ leave[Call(g, l).node] < leave[g]
      /\ \A g, h \in DOMAIN order : \A l \in Valid(g), m \in Valid(h) :
            Call(g, l).node = Call(h, m).node => g = h /\ l = m
      /\ \A x \in only : x[1] \in DOMAIN order
  BY DEF Closes, Tree, Entries
<1>5. Ticks(new)'
  <2>1. /\ \A g, h \in DOMAIN order : First(g) = First(h) => g = h
        /\ \A g \in DOMAIN order, h \in Left : First(g) # leave[h]
        /\ \A g, h \in Left : leave[g] = leave[h] => g = h
    BY DEF Closes, Tree, Ticks
  <2>2. \A g \in DOMAIN order, h \in Left' : First(g) # new[h]
    BY <1>0, <1>1, <1>2, <1>3, <2>1
  <2>3. \A g, h \in Left' : new[g] = new[h] => g = h
    BY <1>0, <1>1, <1>2, <1>3, <2>1
  <2> QED
    BY <1>2, <1>m, <2>1, <2>2, <2>3 DEF Ticks
<1>6. Entries(new)'
  <2>1. ASSUME NEW g \in DOMAIN order, NEW l \in Valid(g)
        PROVE  /\ Seen(g, l)' /\ (g \in Left' => Call(g, l).node \in Left' /\ new[Call(g, l).node] < new[g])
    <3> DEFINE h == Call(g, l).node
    <3>1. Seen(g, l)'
      BY <1>e, ClosesSeen
    <3>2. CASE g \in Left
      BY <1>1, <1>3, <1>e, <3>1, <3>2
    <3>3. CASE g = f
      <4>1. h \in Left
        BY <1>4, <1>e, <3>3
      <4> QED
        BY <1>0, <1>1, <1>2, <1>3, <3>1, <3>3, <4>1
    <3> QED
      BY <1>1, <3>1, <3>2, <3>3
  <2> QED
    BY <1>e, <1>m, <2>1 DEF Entries, First
<1>7. Times(new)'
  <2>0. /\ \A g \in Left : First(g) < leave[g]
        /\ \A g \in Left, l \in Nat : l = Len(M.calls[g]) + 1 => leave[g] = At(leave, g, l) + 1
        /\ \A g \in DOMAIN order : \A l \in DOMAIN M.calls[g] :
              Seen(g, l) /\ Call(g, l).node \in M.fns =>
                  /\ Call(g, l).node \in DOMAIN order
                  /\ IF l \in Valid(g) THEN First(Call(g, l).node) = At(leave, g, l) + 1
                     ELSE First(Call(g, l).node) <= At(leave, g, l)
        /\ Main \in DOMAIN order /\ First(Main) = 0
    BY <1>0 DEF Closes, Tree, Times
  <2>1. \A g \in Left' : First(g) < new[g]
    BY <1>0, <1>1, <1>2, <1>3, <2>0
  <2>2. ASSUME NEW g \in Left', NEW l \in Nat, l = Len(M.calls[g]) + 1
        PROVE  new[g] = At(new, g, l)' + 1
    <3>1. CASE g \in Left
      <4>1. \A m \in Valid(g) : Call(g, m).node # f
        BY <1>0, <1>1, <1>e, <3>1
      <4>2. At(new, g, l)' = At(leave, g, l)
        BY <1>1, <3>1, <4>1, ClosesAt DEF new
      <4> QED
        BY <1>3, <2>0, <2>2, <3>1, <4>2
    <3>2. CASE g = f
      <4>1. \A m \in Valid(f) : Call(f, m).node # f
        BY <1>0, <1>e
      <4>2. At(new, f, l)' = At(leave, f, l)
        BY <1>0, <4>1, ClosesAt DEF new
      <4>3. At(leave, f, l) = c
        BY <2>2, <3>2 DEF Closes, Walk, Clock
      <4> QED
        BY <1>2, <3>2, <4>2, <4>3
    <3> QED
      BY <1>1, <3>1, <3>2
  <2>3. ASSUME NEW g \in DOMAIN order, NEW l \in DOMAIN M.calls[g], Seen(g, l)', Call(g, l).node \in M.fns
        PROVE  /\ Call(g, l).node \in DOMAIN order
               /\ IF l \in Valid(g) THEN order[Call(g, l).node].first = At(new, g, l)' + 1
                  ELSE order[Call(g, l).node].first <= At(new, g, l)'
    <3>1. Seen(g, l)
      BY <2>3, ClosesSeen
    <3>2. l \in Nat
      <4>1. DOMAIN M.calls[g] = 1..Len(M.calls[g])
        BY <1>0, GraphFacts
      <4> QED
        BY <4>1
    <3>3. At(new, g, l)' = At(leave, g, l)
      BY <2>3, <3>2, ClosesAt DEF new
    <3> QED
      BY <2>0, <2>3, <3>1, <3>3 DEF First
  <2>4. /\ \A g \in Left' : First(g)' < new[g]
        /\ \A g \in Left', l \in Nat : l = Len(M'.calls[g]) + 1 => new[g] = At(new, g, l)' + 1
    BY <1>m, <2>1, <2>2
  <2>5. \A g \in DOMAIN order' : \A l \in DOMAIN M'.calls[g] :
           Seen(g, l)' /\ Call(g, l)'.node \in M'.fns =>
              /\ Call(g, l)'.node \in DOMAIN order'
              /\ IF l \in Valid(g)' THEN order'[Call(g, l)'.node].first = At(new, g, l)' + 1
                 ELSE order'[Call(g, l)'.node].first <= At(new, g, l)'
    BY <1>m, <2>3
  <2> QED
    BY <1>m, <2>0, <2>4, <2>5 DEF Times, First
<1>8. Nested(new)'
  <2>1. \A g \in Left, h \in DOMAIN order :
          First(g) < First(h) => leave[g] < First(h) \/ (h \in Left /\ leave[h] < leave[g])
    BY DEF Closes, Tree, Nested
  <2>2. \A h \in Left : new[h] < c + 1
    BY <1>0, <1>1, <1>3
  <2>3. ASSUME NEW g \in Left', NEW h \in DOMAIN order, First(g) < First(h)
        PROVE  new[g] < First(h) \/ (h \in Left' /\ new[h] < new[g])
    <3>1. CASE g \in Left
      BY <1>1, <1>3, <2>1, <2>3, <3>1
    <3>2. CASE g = f
      BY <1>1, <1>2, <1>4, <2>2, <2>3, <3>2
    <3> QED
      BY <1>1, <3>1, <3>2
  <2> QED
    BY <1>m, <2>3 DEF Nested
<1> QED
  BY <1>5, <1>6, <1>7, <1>8 DEF Tree, new

LEMMA ClosesWalk ==
    ASSUME NEW leave, NEW d, NEW c, NEW f, NEW k, Closes(leave, d, c, f, k)
    PROVE  Walk(With(leave, f, c + 1), d - 1, c + 1)'
<1> DEFINE new == With(leave, f, c + 1)
<1>0. /\ WellFormed(M) /\ DOMAIN order \subseteq M.fns /\ f \in DOMAIN order
      /\ d \in Nat /\ DOMAIN path = 1..d /\ DOMAIN path' = 1..(d - 1) /\ d \in 1..d
      /\ path[d].node = f /\ c \in Int /\ c >= 0
      /\ \A g \in DOMAIN order : First(g) \in Nat /\ First(g) <= c
  BY ClosesFacts
<1>1. /\ \A p \in 1..(d - 1) : path'[p] = path[p] /\ p \in 1..d /\ p < d
      /\ Len(path') = d - 1
  BY <1>0 DEF Closes, Popped
<1>m. /\ M' = M /\ order' = order /\ only' = only /\ visited' = visited /\ phase = "pre" /\ phase' = "pre"
      /\ \A g : Valid(g)' = Valid(g) /\ First(g)' = First(g)
      /\ \A g, l : Call(g, l)' = Call(g, l)
  BY DEF Closes, Valid, Records, First, Call
<1>s. Stack(d)
  BY DEF Closes, Walk
<1>2. Stack(d - 1)'
  <2>1. d - 1 \in 0..Len(path') /\ (path' # <<>> => d - 1 > 0)
    <3>1. path' # <<>> => d - 1 # 0
      BY <1>0
    <3> QED
      BY <1>0, <1>1, <3>1
  <2>2. path' # <<>> => path'[1].node = Main
    <3> SUFFICES ASSUME path' # <<>> PROVE path'[1].node = Main
      OBVIOUS
    <3>1. 1 \in 1..(d - 1) /\ path # <<>>
      BY <1>0, <2>1
    <3> QED
      BY <1>1, <1>s, <3>1 DEF Stack
  <2>3. \A p \in 1..(d - 1) : path'[p].node \in DOMAIN order /\ p <= d - 1
    <3>1. \A p \in 1..d : path[p].node \in DOMAIN order
      BY ClosesFacts
    <3> QED
      BY <1>0, <1>1, <3>1
  <2>4. \A p \in 1..(d - 1) : path'[p].next \in 1..(Len(M.calls[path'[p].node]) + 1)
    BY <1>1, <1>s DEF Stack
  <2>5. ASSUME NEW p \in 1..(d - 1), NEW g, NEW l \in Nat,
               p < d - 1, path'[p].node = g, path'[p].next = l + 1
        PROVE  l \in Valid(g) /\ Call(g, l).node = path'[p + 1].node
    <3>1. p + 1 \in 1..(d - 1)
      BY <1>0, <2>5
    <3>2. l \in Valid(g) /\ Call(g, l).node = path[p + 1].node
      BY <1>1, <1>s, <2>5 DEF Stack
    <3> QED
      BY <1>1, <3>1, <3>2
  <2>6. \A p, q \in 1..(d - 1) : p < q => First(path'[p].node) < First(path'[q].node)
    BY <1>1, <1>s DEF Stack
  <2> QED
    BY <1>0, <1>m, <2>1, <2>2, <2>3, <2>4, <2>5, <2>6 DEF Stack, First, Call
<1>3. Clock(new, d - 1, c + 1)'
  <2> SUFFICES ASSUME NEW g, NEW o, d - 1 > 0, path'[d - 1] = [node |-> g, next |-> o]
               PROVE  At(new, g, o)' = c + 1
    BY <1>0 DEF Clock
  <2>1. PICK p \in 1..d : p = d - 1 /\ p \in 1..(d - 1) /\ p < d /\ p + 1 = d
    <3>1. d - 1 \in 1..d /\ d - 1 \in 1..(d - 1) /\ d - 1 < d /\ (d - 1) + 1 = d
      BY <1>0
    <3> QED
      BY <3>1
  <2>2. path[p].node = g /\ path[p].next = o
    BY <1>1, <2>1
  <2>3. g \in DOMAIN order
    <3>1. \A q \in 1..d : path[q].node \in DOMAIN order
      BY ClosesFacts
    <3> QED
      BY <2>1, <2>2, <3>1
  <2>4. o \in 1..(Len(M.calls[g]) + 1) /\ Len(M.calls[g]) \in Nat
    <3>1. Len(M.calls[g]) \in Nat
      BY <1>0, <2>3, GraphFacts
    <3> QED
      BY <1>s, <2>1, <2>2, <3>1 DEF Stack
  <2>5. PICK l \in Nat : o = l + 1
    <3>1. o - 1 \in Nat /\ o = (o - 1) + 1
      BY <2>4
    <3> QED
      BY <3>1
  <2>6. l \in Valid(g) /\ Call(g, l).node = f
    <3>1. path[p + 1].node = f
      BY <1>0, <2>1
    <3> QED
      BY <1>s, <2>1, <2>2, <2>5, <3>1 DEF Stack
  <2>7. At(new, g, l + 1)' = c + 1
    BY <2>3, <2>6, ClosesAt
  <2> QED
    BY <2>5, <2>7
<1>4. InFirst(new, d - 1, c + 1)'
  <2>0. /\ c + d = i + lastLen /\ DOMAIN order = visited \cap M.fns
        /\ \A g \in DOMAIN order : \A l \in DOMAIN M.calls[g] : Seen(g, l) => Call(g, l).node \in visited
        /\ visited # {} => Main \in visited
    BY <1>m DEF Closes, Walk, InFirst
  <2>1. (c + 1) + (d - 1) = i' + lastLen'
    BY <1>0, <2>0 DEF Closes
  <2>2. \A g \in DOMAIN order : First(g) <= c + 1
    BY <1>0
  <2>3. new[f] = c + 1 /\ \A g \in Left' : new[g] <= c + 1
    <3>1. new[f] = c + 1 /\ \A g \in M.fns : g # f => new[g] = leave[g]
      BY <1>0 DEF With, Closes, Tree, Ticks
    <3>2. Left' = Left \cup {f} /\ Left \subseteq M.fns /\ \A g \in Left : leave[g] \in Nat /\ leave[g] <= c
      BY <1>0, ClosesLeft
    <3> HIDE DEF new
    <3> QED
      BY <1>0, <3>1, <3>2
  <2>4. \A g \in DOMAIN order : \A l \in DOMAIN M.calls[g] : Seen(g, l)' => Call(g, l).node \in visited
    BY <2>0, ClosesSeen
  <2>5. visited # {}
    BY <1>0, <2>0
  <2>6. path' = <<>> => c + 1 = new[Main]
    <3> SUFFICES ASSUME path' = <<>> PROVE f = Main
      BY <2>3
    <3>1. d = 1 /\ path # <<>>
      <4>1. Len(path') = 0
        OBVIOUS
      <4>2. d = 1 /\ 1 \in DOMAIN path
        BY <1>0, <1>1, <4>1
      <4> QED
        BY <4>2
    <3> QED
      BY <1>0, <1>s, <3>1 DEF Stack
  <2> HIDE DEF new
  <2> QED
    BY <1>m, <2>0, <2>1, <2>2, <2>3, <2>4, <2>5, <2>6 DEF InFirst
<1>5. InSecond(new, c + 1)'
  BY <1>m DEF InSecond
<1> QED
  BY <1>2, <1>3, <1>4, <1>5 DEF Walk

-----------------------------------------------------------------------------
(* The walk goes on without entering or leaving a function.                *)

Moves(t, k) ==
    /\ k \in DOMAIN M.calls[t] /\ Call(t, k).node \in visited'
    /\ Call(t, k).node \in M.fns => Call(t, k).node \in visited

\* The clock does not tick: the last function of the stack may move to its next
\* record, nodes that are no functions come and go.
Keeps(leave, d, c, t, k) ==
    /\ Typed /\ Tree(leave) /\ Walk(leave, d, c) /\ path # <<>>
    /\ UNCHANGED phase /\ UNCHANGED M /\ UNCHANGED order /\ UNCHANGED only /\ UNCHANGED i /\ UNCHANGED lastLen
    /\ path' \in Seq([node : visited', next : Nat \ {0}]) /\ d <= Len(path')
    /\ visited \subseteq visited' /\ visited' \cap M.fns = visited \cap M.fns
    /\ visited' \subseteq M.fns \cup M.decls \cup {External}
    /\ path[d] = [node |-> t, next |-> k]
    /\ \A p \in 1..d : path'[p].node = path[p].node /\ (p < d => path'[p].next = path[p].next)
    /\ path'[d].next = k \/ (path'[d].next = k + 1 /\ Moves(t, k))
    /\ \A p \in DOMAIN path' : p > d => path'[p].node \notin M.fns

\* What a step within a function, or outside all, changes.
LEMMA KeepsFacts ==
    ASSUME NEW leave, NEW d, NEW c, NEW t, NEW k, Keeps(leave, d, c, t, k)
    PROVE  /\ WellFormed(M) /\ d \in Nat \ {0} /\ d \in Nat /\ d \in 1..d /\ path' # <<>>
           /\ Len(path) \in Nat /\ d <= Len(path) /\ DOMAIN path = 1..Len(path)
           /\ Len(path') \in Nat /\ DOMAIN path' = 1..Len(path')
           /\ DOMAIN order \subseteq M.fns /\ t \in DOMAIN order /\ t \in M.fns
           /\ path[d].node = t /\ path[d].next = k /\ path'[d].node = t
           /\ k \in Nat \ {0} /\ k \in Nat /\ k \in 1..(Len(M.calls[t]) + 1) /\ Len(M.calls[t]) \in Nat
           /\ DOMAIN M.calls[t] = 1..Len(M.calls[t])
           /\ At(leave, t, k) = c /\ Main \in DOMAIN order
           /\ \A p \in 1..d : p \in DOMAIN path /\ p \in DOMAIN path' /\ path[p].node \in DOMAIN order
           /\ \A p \in DOMAIN path : ~(p \in 1..d) => path[p].node \notin M.fns
           /\ \A p \in DOMAIN path' : ~(p \in 1..d) => path'[p].node \notin M.fns
<1>1. WellFormed(M) /\ DOMAIN order \subseteq M.fns
  BY DEF Keeps, Typed
<1>2. Len(path) \in Nat /\ DOMAIN path = 1..Len(path) /\ Len(path') \in Nat /\ DOMAIN path' = 1..Len(path')
  BY DEF Keeps, Typed
<1>3. Stack(d)
  BY DEF Keeps, Walk
<1>4. d \in Nat \ {0} /\ d <= Len(path)
  BY <1>2, <1>3 DEF Stack, Keeps
<1>5. d \in 1..d /\ d \in Nat /\ d <= Len(path')
  BY <1>4 DEF Keeps
<1>6. path' # <<>>
  BY <1>4, <1>5
<1>7. \A p \in 1..d : p \in DOMAIN path /\ p \in DOMAIN path' /\ p <= d
  BY <1>2, <1>4, <1>5
<1>8. \A p \in 1..d : path[p].node \in DOMAIN order
  BY <1>3, <1>7 DEF Stack
<1>9. path[d].node = t /\ path[d].next = k /\ path'[d].node = t
  BY <1>5 DEF Keeps
<1>10. t \in DOMAIN order /\ t \in M.fns
  BY <1>1, <1>5, <1>8, <1>9
<1>11. Len(M.calls[t]) \in Nat /\ DOMAIN M.calls[t] = 1..Len(M.calls[t])
  BY <1>1, <1>10, GraphFacts
<1>12. k \in 1..(Len(M.calls[t]) + 1)
  BY <1>3, <1>5, <1>9 DEF Stack
<1>13. At(leave, t, k) = c
  BY <1>4 DEF Keeps, Walk, Clock
<1>14. Main \in DOMAIN order
  BY <1>10 DEF Keeps, Tree, Times
<1>15. \A p \in DOMAIN path : ~(p \in 1..d) => path[p].node \notin M.fns
  BY <1>2, <1>3, <1>4 DEF Stack
<1>16. \A p \in DOMAIN path' : ~(p \in 1..d) => path'[p].node \notin M.fns
  BY <1>2, <1>4 DEF Keeps
<1> QED
  BY <1>1, <1>2, <1>4, <1>5, <1>6, <1>7, <1>8, <1>9, <1>10, <1>11, <1>12, <1>13, <1>14, <1>15, <1>16

LEMMA KeepsSame ==
    ASSUME NEW leave, NEW d, NEW c, NEW t, NEW k, Keeps(leave, d, c, t, k)
    PROVE  /\ M' = M /\ order' = order /\ only' = only /\ phase' = phase
           /\ \A f : Valid(f)' = Valid(f) /\ First(f)' = First(f)
           /\ \A f, l : Call(f, l)' = Call(f, l)
           /\ \A f, l : At(leave, f, l)' = At(leave, f, l)
           /\ Left' = Left
<1>1. M' = M /\ order' = order /\ only' = only /\ phase' = phase
  BY DEF Keeps
<1>2. \A f : Valid(f)' = Valid(f) /\ First(f)' = First(f)
  BY <1>1 DEF Valid, Records, First
<1>3. \A f, l : Call(f, l)' = Call(f, l)
  BY <1>1 DEF Call
<1>4. \A f, l : At(leave, f, l)' = At(leave, f, l)
  BY <1>2, <1>3 DEF At, Call, First
<1>5. Left' = Left
  <2>0. /\ DOMAIN order \subseteq M.fns
        /\ \A p \in 1..d : p \in DOMAIN path /\ p \in DOMAIN path'
        /\ \A p \in DOMAIN path : ~(p \in 1..d) => path[p].node \notin M.fns
        /\ \A p \in DOMAIN path' : ~(p \in 1..d) => path'[p].node \notin M.fns
    BY KeepsFacts
  <2>1. \A p \in 1..d : path'[p].node = path[p].node
    BY DEF Keeps
  <2>2. \A f \in DOMAIN order : f \in Opened' <=> f \in Opened
    <3>1. CASE phase = "pre"
      <4>1. Opened = {path[p].node : p \in DOMAIN path} /\ Opened' = {path'[p].node : p \in DOMAIN path'}
        BY <1>1, <3>1 DEF Opened
      <4> QED
        BY <2>0, <2>1, <4>1
    <3>2. CASE phase # "pre"
      BY <1>1, <3>2 DEF Opened
    <3> QED
      BY <3>1, <3>2
  <2> QED
    BY <1>1, <2>2 DEF Left
<1> QED
  BY <1>1, <1>2, <1>3, <1>4, <1>5

LEMMA KeepsSeen ==
    ASSUME NEW leave, NEW d, NEW c, NEW t, NEW k, Keeps(leave, d, c, t, k), phase = "pre"
    PROVE  /\ \A f \in DOMAIN order : \A l : f # t => (Seen(f, l)' <=> Seen(f, l))
           /\ \A l : Seen(t, l) <=> l < k
           /\ \A l : Seen(t, l)' <=> l < path'[d].next
<1>0. /\ DOMAIN order \subseteq M.fns /\ t \in DOMAIN order /\ d \in 1..d /\ d \in Nat
      /\ path[d].node = t /\ path[d].next = k /\ path'[d].node = t
      /\ \A p \in 1..d : p \in DOMAIN path /\ p \in DOMAIN path'
      /\ \A p \in DOMAIN path : ~(p \in 1..d) => path[p].node \notin M.fns
      /\ \A p \in DOMAIN path' : ~(p \in 1..d) => path'[p].node \notin M.fns
  BY KeepsFacts
<1>1. /\ \A p \in 1..d : path'[p].node = path[p].node
      /\ \A p \in 1..d : p # d => path'[p].next = path[p].next
  BY <1>0 DEF Keeps
<1>2. /\ \A f \in DOMAIN order : \A l : Seen(f, l) <=> \A p \in 1..d : path[p].node = f => l < path[p].next
      /\ \A f \in DOMAIN order : \A l : Seen(f, l)' <=> \A p \in 1..d : path[p].node = f => l < path'[p].next
  <2>1. phase' = "pre"
    BY KeepsSame
  <2>2. ASSUME NEW f \in DOMAIN order, NEW l
        PROVE  Seen(f, l) <=> \A p \in 1..d : path[p].node = f => l < path[p].next
    BY <1>0 DEF Seen
  <2>3. ASSUME NEW f \in DOMAIN order, NEW l
        PROVE  Seen(f, l)' <=> \A p \in 1..d : path[p].node = f => l < path'[p].next
    BY <1>0, <1>1, <2>1 DEF Seen
  <2> QED
    BY <2>2, <2>3
<1>3. \A p \in 1..d : path[p].node = t => p = d
  BY <1>0, StackDiffers DEF Keeps, Walk
<1>4. \A f \in DOMAIN order : \A l : f # t => (Seen(f, l)' <=> Seen(f, l))
  <2>1. \A f : f # t => \A p \in 1..d : path[p].node = f => path'[p].next = path[p].next
    BY <1>0, <1>1
  <2> QED
    BY <1>2, <2>1
<1>5. \A l : Seen(t, l) <=> l < k
  BY <1>0, <1>2, <1>3
<1>6. \A l : Seen(t, l)' <=> l < path'[d].next
  BY <1>0, <1>2, <1>3
<1> QED
  BY <1>4, <1>5, <1>6

\* A record that is passed over leads to no function, or to one entered before.
LEMMA KeepsPassed ==
    ASSUME NEW leave, NEW d, NEW c, NEW t, NEW k, Keeps(leave, d, c, t, k), Moves(t, k)
    PROVE  /\ k \notin Valid(t)
           /\ Call(t, k).node \in M.fns => Call(t, k).node \in DOMAIN order /\ First(Call(t, k).node) <= c
           /\ At(leave, t, k + 1) = c
<1> DEFINE g == Call(t, k).node
<1>0. /\ WellFormed(M) /\ t \in DOMAIN order /\ t \in M.fns /\ DOMAIN order \subseteq M.fns
      /\ k \in Nat /\ At(leave, t, k) = c /\ c \in Int
  BY KeepsFacts DEF Keeps, Walk, Clock
<1>1. k \in Valid(t) => g \in M.fns /\ k \in DOMAIN M.calls[t]
  BY <1>0, ValidFacts
<1>2. g \in M.fns => g \in visited
  BY DEF Moves
<1>3. CASE phase = "pre"
  <2>1. k \notin Valid(t)
    <3>1. k \in Valid(t) => Seen(t, k)
      BY <1>0 DEF Keeps, Tree, Entries
    <3> QED
      BY <1>0, <1>3, <3>1, KeepsSeen
  <2>2. g \in M.fns => g \in DOMAIN order /\ First(g) <= c
    BY <1>2, <1>3 DEF Keeps, Walk, InFirst
  <2> QED
    BY <1>0, <2>1, <2>2, AtPassed
<1>4. CASE phase # "pre"
  <2>1. phase = "post" /\ path # <<>>
    BY <1>4 DEF Keeps, Typed, Walk, InSecond
  <2>2. visited \cap M.fns = {f \in DOMAIN order : First(f) <= c}
    BY <1>4, <2>1 DEF Keeps, Walk, InSecond
  <2>3. g \in M.fns => g \in DOMAIN order /\ First(g) <= c
    BY <1>2, <2>2
  <2>4. k \notin Valid(t)
    <3>1. Seen(t, k)
      BY <1>4 DEF Seen
    <3>2. k \in Valid(t) => First(g) = c + 1
      BY <1>0, <1>1, <3>1 DEF Keeps, Tree, Times
    <3> QED
      BY <1>0, <1>1, <2>3, <3>2
  <2> QED
    BY <1>0, <2>3, <2>4, AtPassed
<1> QED
  BY <1>3, <1>4

\* It preserves the three parts of the invariant.
LEMMA KeepsTree ==
    ASSUME NEW leave, NEW d, NEW c, NEW t, NEW k, Keeps(leave, d, c, t, k)
    PROVE  Tree(leave)'
<1>0. /\ WellFormed(M) /\ DOMAIN order \subseteq M.fns /\ t \in DOMAIN order /\ k \in Nat
      /\ At(leave, t, k) = c
  BY KeepsFacts
<1>1. /\ M' = M /\ order' = order /\ only' = only /\ phase' = phase /\ Left' = Left
  BY KeepsSame
<1>2. ASSUME NEW f \in DOMAIN order, NEW l \in DOMAIN M.calls[f]
      PROVE  /\ Seen(f, l) => Seen(f, l)'
             /\ Seen(f, l)' /\ ~Seen(f, l) => f = t /\ l = k /\ Moves(t, k)
  <2>1. CASE phase # "pre"
    BY <1>1, <2>1 DEF Seen
  <2>2. CASE phase = "pre" /\ f # t
    BY <2>2, KeepsSeen
  <2>3. CASE phase = "pre" /\ f = t
    <3>1. DOMAIN M.calls[f] = 1..Len(M.calls[f]) /\ Len(M.calls[f]) \in Nat
      BY <1>0, GraphFacts
    <3>2. l \in Nat
      BY <3>1
    <3>3. (Seen(f, l) <=> l < k) /\ (Seen(f, l)' <=> l < path'[d].next)
      BY <2>3, KeepsSeen
    <3>4. path'[d].next = k \/ (path'[d].next = k + 1 /\ Moves(t, k))
      BY DEF Keeps
    <3> QED
      BY <1>0, <2>3, <3>2, <3>3, <3>4
  <2> QED
    BY <2>1, <2>2, <2>3
<1>3. ASSUME NEW f \in DOMAIN order, NEW l \in DOMAIN M.calls[f],
             Seen(f, l)', ~Seen(f, l), Call(f, l).node \in M.fns
      PROVE  /\ Call(f, l).node \in DOMAIN order /\ l \notin Valid(f)
             /\ First(Call(f, l).node) <= At(leave, f, l)
  <2>1. f = t /\ l = k /\ Moves(t, k)
    BY <1>2, <1>3
  <2> QED
    BY <1>0, <1>3, <2>1, KeepsPassed
<1>4. Typed /\ Tree(leave)
  BY DEF Keeps
<1> QED
  BY <1>1, <1>2, <1>3, <1>4, TreeFrame

LEMMA KeepsTyped ==
    ASSUME NEW leave, NEW d, NEW c, NEW t, NEW k, Keeps(leave, d, c, t, k)
    PROVE  Typed'
<1>1. M' = M /\ order' = order /\ only' = only /\ phase' = phase
  BY KeepsSame
<1>2. WellFormed(M)' /\ Ins(M)' = Ins(M)
  BY <1>1 DEF Keeps, Typed, WellFormed, Ins, Less
<1> QED
  BY <1>1, <1>2 DEF Keeps, Typed

LEMMA KeepsWalk ==
    ASSUME NEW leave, NEW d, NEW c, NEW t, NEW k, Keeps(leave, d, c, t, k)
    PROVE  Walk(leave, d, c)'
<1>0. /\ WellFormed(M) /\ d \in Nat \ {0} /\ d \in Nat /\ d \in 1..d /\ path' # <<>>
      /\ Len(path') \in Nat /\ DOMAIN path' = 1..Len(path')
      /\ DOMAIN order \subseteq M.fns /\ t \in DOMAIN order /\ t \in M.fns
      /\ path[d].node = t /\ path[d].next = k /\ path'[d].node = t
      /\ k \in Nat \ {0} /\ k \in Nat /\ k \in 1..(Len(M.calls[t]) + 1) /\ Len(M.calls[t]) \in Nat
      /\ DOMAIN M.calls[t] = 1..Len(M.calls[t])
      /\ At(leave, t, k) = c /\ Main \in DOMAIN order
  BY KeepsFacts
<1>1. /\ \A p \in 1..d : p \in DOMAIN path /\ p \in DOMAIN path' /\ path[p].node \in DOMAIN order
      /\ \A p \in DOMAIN path : ~(p \in 1..d) => path[p].node \notin M.fns
      /\ \A p \in DOMAIN path' : ~(p \in 1..d) => path'[p].node \notin M.fns
  BY KeepsFacts
<1>m. /\ M' = M /\ order' = order /\ only' = only /\ phase' = phase /\ Left' = Left
      /\ \A f : Valid(f)' = Valid(f) /\ First(f)' = First(f)
      /\ \A f, l : Call(f, l)' = Call(f, l)
      /\ \A f, l : At(leave, f, l)' = At(leave, f, l)
  BY KeepsSame
<1>2. /\ \A p \in 1..d : path'[p].node = path[p].node
      /\ \A p \in 1..d : p # d => path'[p].next = path[p].next
      /\ d <= Len(path')
      /\ path'[d].next = k \/ (path'[d].next = k + 1 /\ Moves(t, k))
  BY <1>0 DEF Keeps
<1>s. Stack(d)
  BY DEF Keeps, Walk
<1>3. Stack(d)'
  <2>1. d \in 0..Len(path') /\ d > 0
    BY <1>0, <1>2
  <2>2. path'[1].node = Main
    <3>1. 1 \in 1..d
      BY <1>0
    <3> QED
      BY <1>2, <1>s, <3>1 DEF Stack, Keeps
  <2>3. \A p \in DOMAIN path' : IF p <= d THEN path'[p].node \in DOMAIN order ELSE path'[p].node \notin M.fns
    <3>1. \A p \in DOMAIN path' : p <= d => p \in 1..d
      BY <1>0
    <3>2. \A p \in DOMAIN path' : ~(p <= d) => ~(p \in 1..d)
      BY <1>0
    <3> QED
      BY <1>1, <1>2, <3>1, <3>2
  <2>4. ASSUME NEW p \in 1..d PROVE path'[p].next \in 1..(Len(M.calls[path'[p].node]) + 1)
    <3>1. CASE p # d
      BY <1>2, <1>s, <3>1 DEF Stack
    <3>2. CASE p = d
      BY <1>0, <1>2, <3>2 DEF Moves
    <3> QED
      BY <3>1, <3>2
  <2>5. ASSUME NEW p \in 1..d, NEW f, NEW l \in Nat, p < d, path'[p].node = f, path'[p].next = l + 1
        PROVE  l \in Valid(f) /\ Call(f, l).node = path'[p + 1].node
    <3>1. p + 1 \in 1..d /\ p # d
      BY <1>0, <2>5
    <3> QED
      BY <1>2, <1>s, <2>5, <3>1 DEF Stack
  <2>6. \A p, q \in 1..d : p < q => First(path'[p].node) < First(path'[q].node)
    BY <1>2, <1>s DEF Stack
  <2> QED
    BY <1>m, <2>1, <2>2, <2>3, <2>4, <2>5, <2>6 DEF Stack, First, Call
<1>4. Clock(leave, d, c)'
  <2>1. c \in Int
    BY DEF Keeps, Walk, Clock
  <2>2. ASSUME NEW f, NEW l, path'[d] = [node |-> f, next |-> l] PROVE c = At(leave, f, l)
    <3>1. f = t /\ (l = k \/ (l = k + 1 /\ Moves(t, k)))
      BY <1>0, <1>2, <2>2
    <3> QED
      BY <1>0, <3>1, KeepsPassed
  <2> QED
    BY <1>m, <2>1, <2>2 DEF Clock
<1>v. /\ visited \subseteq visited' /\ visited' \cap M.fns = visited \cap M.fns
      /\ i' = i /\ lastLen' = lastLen /\ path # <<>>
  BY DEF Keeps
<1>5. InFirst(leave, d, c)'
  <2> SUFFICES ASSUME phase = "pre" PROVE InFirst(leave, d, c)'
    BY <1>m DEF InFirst
  <2>1. /\ c + d = i + lastLen /\ DOMAIN order = visited \cap M.fns
        /\ \A f \in DOMAIN order : First(f) <= c
        /\ \A f \in Left : leave[f] <= c
        /\ \A f \in DOMAIN order : \A l \in DOMAIN M.calls[f] : Seen(f, l) => Call(f, l).node \in visited
        /\ visited # {} => Main \in visited
    BY DEF Keeps, Walk, InFirst
  <2>2. visited # {} /\ visited' # {} /\ Main \in visited'
    BY <1>0, <1>v, <2>1
  <2>3. ASSUME NEW f \in DOMAIN order, NEW l \in DOMAIN M.calls[f], Seen(f, l)'
        PROVE  Call(f, l).node \in visited'
    <3>1. CASE Seen(f, l)
      BY <1>v, <2>1, <3>1
    <3>2. CASE ~Seen(f, l)
      <4>1. f = t
        BY <2>3, <3>2, KeepsSeen
      <4>2. l \in Nat
        BY <1>0, <4>1
      <4>3. ~(l < k) /\ l < path'[d].next
        BY <2>3, <3>2, <4>1, KeepsSeen
      <4>4. l = k /\ Moves(t, k)
        BY <1>0, <1>2, <4>2, <4>3
      <4> QED
        BY <4>1, <4>4 DEF Moves
    <3> QED
      BY <3>1, <3>2
  <2> QED
    BY <1>0, <1>m, <1>v, <2>1, <2>2, <2>3 DEF InFirst
<1>6. InSecond(leave, c)'
  <2> SUFFICES ASSUME phase # "pre" PROVE InSecond(leave, c)'
    BY <1>m DEF InSecond
  <2>1. /\ Main \in DOMAIN order /\ \A f \in DOMAIN order : First(f) <= leave[Main]
        /\ phase = "post" /\ path # <<>> => visited \cap M.fns = {f \in DOMAIN order : First(f) <= c}
        /\ \A f \in visited \cap M.fns :
              (\A p \in DOMAIN path : path[p].node # f) => order[f].last = leave[f]
        /\ phase # "done"
    BY <1>v DEF Keeps, Walk, InSecond
  <2>2. ASSUME NEW f \in visited \cap M.fns, \A p \in DOMAIN path' : path'[p].node # f
        PROVE  order[f].last = leave[f]
    <3>1. \A p \in DOMAIN path : path[p].node # f
      BY <1>1, <1>2, <2>2
    <3> QED
      BY <2>1, <3>1
  <2> QED
    BY <1>0, <1>m, <1>v, <2>1, <2>2 DEF InSecond
<1> QED
  BY <1>3, <1>4, <1>5, <1>6 DEF Walk

LEMMA ClosesTyped ==
    ASSUME NEW leave, NEW d, NEW c, NEW f, NEW k, Closes(leave, d, c, f, k)
    PROVE  Typed'
<1>1. M' = M /\ phase' = phase /\ visited' = visited /\ order' = order /\ only' = only /\ i' = i /\ lastLen' = lastLen
  BY DEF Closes
<1>2. WellFormed(M)' /\ Ins(M)' = Ins(M)
  BY <1>1 DEF Closes, Typed, WellFormed, Ins, Less
<1>3. path' \in Seq([node : visited', next : Nat \ {0}])
  BY DEF Closes, Popped
<1> QED
  BY <1>1, <1>2, <1>3 DEF Closes, Typed

-----------------------------------------------------------------------------
(* A function is entered in the second loop.                               *)

\* As Opens, but everything has its time.
Reopens(leave, n, d, c, t, k) ==
    /\ Typed /\ Tree(leave) /\ Walk(leave, d, c) /\ phase = "post" /\ UNCHANGED phase /\ UNCHANGED M
    /\ UNCHANGED order /\ UNCHANGED only /\ UNCHANGED i /\ UNCHANGED lastLen
    /\ n \in M.fns /\ n \notin visited /\ visited' = visited \cup {n}
    /\ Pushed(n) /\ d = Len(path)
    /\ IF d = 0 THEN n = Main /\ visited = {} /\ c = -1
       ELSE path[d] = [node |-> t, next |-> k] /\ k \in DOMAIN M.calls[t] /\ Call(t, k).node = n

\* The second walk enters the functions in the order of their times.
LEMMA ReopensFacts ==
    ASSUME NEW leave, NEW n, NEW d, NEW c, NEW t, NEW k, Reopens(leave, n, d, c, t, k)
    PROVE  /\ WellFormed(M) /\ d \in Nat /\ DOMAIN path = 1..d /\ DOMAIN path' = 1..(d + 1)
           /\ DOMAIN order \subseteq M.fns /\ n \in DOMAIN order /\ First(n) = c + 1 /\ c \in Int
           /\ d > 0 => t \in DOMAIN order /\ k \in Valid(t) /\ d \in 1..d
           /\ \A p \in 1..d : path[p].node \in DOMAIN order /\ First(path[p].node) <= c
           /\ visited' \cap M.fns = {f \in DOMAIN order : First(f) <= c + 1}
           /\ \A f \in DOMAIN order : First(f) \in Nat
<1>1. WellFormed(M) /\ DOMAIN order \subseteq M.fns /\ \A f \in DOMAIN order : First(f) \in Nat
  BY DEF Reopens, Typed, First
<1>2. d \in Nat /\ DOMAIN path = 1..d
  BY DEF Reopens, Typed
<1>3. DOMAIN path' = 1..(d + 1)
  BY <1>2 DEF Reopens, Pushed
<1>4. c \in Int
  BY DEF Reopens, Walk, Clock
<1>s. Stack(d) /\ Main \in DOMAIN order /\ First(Main) = 0
  BY DEF Reopens, Walk, InSecond, Tree, Times
<1>5. \A p \in 1..d : path[p].node \in DOMAIN order /\ path[p].node \in visited
  <2>1. \A p \in 1..d : p \in DOMAIN path /\ p <= d
    BY <1>2
  <2> DEFINE R == [node : visited, next : Nat \ {0}]
  <2>2. path \in Seq(R) /\ d = Len(path) /\ \A r \in R : r.node \in visited
    BY DEF Reopens, Typed
  <2> HIDE DEF R
  <2>3. \A p \in 1..d : path[p] \in R
    BY <2>2
  <2> QED
    BY <1>s, <2>1, <2>2, <2>3 DEF Stack
<1>6. d > 0 => d \in 1..d /\ path # <<>>
  BY <1>2
<1>7. d > 0 => visited \cap M.fns = {f \in DOMAIN order : First(f) <= c}
  BY <1>6 DEF Reopens, Walk, InSecond
<1>8. \A p \in 1..d : First(path[p].node) <= c
  <2>1. \A p \in 1..d : d > 0
    BY <1>2
  <2> QED
    BY <1>1, <1>5, <1>7, <2>1
<1>9. ASSUME d > 0
      PROVE  t \in DOMAIN order /\ k \in Valid(t) /\ n \in DOMAIN order /\ First(n) = c + 1
  <2>1. path[d] = [node |-> t, next |-> k] /\ k \in DOMAIN M.calls[t] /\ Call(t, k).node = n
    BY <1>9, <1>6 DEF Reopens
  <2>2. t \in DOMAIN order
    BY <1>5, <1>6, <1>9, <2>1
  <2>3. c = At(leave, t, k)
    BY <1>9, <2>1 DEF Reopens, Walk, Clock
  <2>4. Seen(t, k) /\ n \in M.fns /\ n \notin visited
    BY DEF Seen, Reopens
  <2>5. /\ n \in DOMAIN order
        /\ IF k \in Valid(t) THEN First(n) = c + 1 ELSE First(n) <= c
    BY <2>1, <2>2, <2>3, <2>4 DEF Reopens, Tree, Times
  <2>6. ~(First(n) <= c)
    BY <1>7, <1>9, <2>4, <2>5
  <2> QED
    BY <2>2, <2>5, <2>6
<1>10. d = 0 => n \in DOMAIN order /\ First(n) = c + 1 /\ c = -1 /\ visited = {}
  BY <1>s DEF Reopens
<1>11. n \in DOMAIN order /\ First(n) = c + 1
  BY <1>2, <1>9, <1>10
<1>12. \A f \in DOMAIN order : First(f) = First(n) => f = n
  BY <1>11 DEF Reopens, Tree, Ticks
<1>13. visited \cap M.fns = {f \in DOMAIN order : First(f) <= c}
  BY <1>1, <1>2, <1>7, <1>10
<1>14. visited' \cap M.fns = {f \in DOMAIN order : First(f) <= c + 1}
  <2>1. visited' \cap M.fns = (visited \cap M.fns) \cup {n}
    BY DEF Reopens
  <2>2. \A f \in DOMAIN order : First(f) <= c + 1 <=> (First(f) <= c \/ First(f) = First(n))
    BY <1>1, <1>4, <1>11
  <2> QED
    BY <1>11, <1>12, <1>13, <2>1, <2>2
<1> QED
  BY <1>1, <1>2, <1>3, <1>4, <1>5, <1>6, <1>8, <1>9, <1>11, <1>14

LEMMA ReopensTyped ==
    ASSUME NEW leave, NEW n, NEW d, NEW c, NEW t, NEW k, Reopens(leave, n, d, c, t, k)
    PROVE  Typed'
<1>1. /\ M' = M /\ phase' = phase /\ order' = order /\ only' = only /\ i' = i /\ lastLen' = lastLen
      /\ visited' = visited \cup {n} /\ n \in M.fns
  BY DEF Reopens
<1>2. WellFormed(M)' /\ Ins(M)' = Ins(M)
  BY <1>1 DEF Reopens, Typed, WellFormed, Ins, Less
<1>3. path' \in Seq([node : visited', next : Nat \ {0}])
  BY DEF Reopens, Pushed
<1> QED
  BY <1>1, <1>2, <1>3 DEF Reopens, Typed

LEMMA ReopensTree ==
    ASSUME NEW leave, NEW n, NEW d, NEW c, NEW t, NEW k, Reopens(leave, n, d, c, t, k)
    PROVE  Tree(leave)'
<1>1. M' = M /\ order' = order /\ only' = only /\ phase = "post" /\ phase' = "post"
  BY DEF Reopens
<1>2. Left' = Left
  BY <1>1 DEF Left, Opened
<1>3. \A f, l : Seen(f, l) /\ Seen(f, l)'
  BY <1>1 DEF Seen
<1>4. Typed /\ Tree(leave)
  BY DEF Reopens
<1> QED
  BY <1>1, <1>2, <1>3, <1>4, TreeFrame

LEMMA ReopensWalk ==
    ASSUME NEW leave, NEW n, NEW d, NEW c, NEW t, NEW k, Reopens(leave, n, d, c, t, k)
    PROVE  Walk(leave, d + 1, c + 1)'
<1>0. /\ WellFormed(M) /\ d \in Nat /\ DOMAIN path = 1..d /\ DOMAIN path' = 1..(d + 1)
      /\ DOMAIN order \subseteq M.fns /\ n \in DOMAIN order /\ First(n) = c + 1 /\ c \in Int
      /\ d > 0 => t \in DOMAIN order /\ k \in Valid(t) /\ d \in 1..d
      /\ \A p \in 1..d : path[p].node \in DOMAIN order /\ First(path[p].node) <= c
      /\ visited' \cap M.fns = {f \in DOMAIN order : First(f) <= c + 1}
      /\ \A f \in DOMAIN order : First(f) \in Nat
  BY ReopensFacts
<1>m. /\ M' = M /\ order' = order /\ only' = only /\ phase = "post" /\ phase' = "post"
      /\ \A f : Valid(f)' = Valid(f) /\ First(f)' = First(f)
      /\ \A f, l : Call(f, l)' = Call(f, l)
      /\ \A f, l : At(leave, f, l)' = At(leave, f, l)
  <2>1. M' = M /\ order' = order /\ only' = only /\ phase = "post" /\ phase' = "post"
    BY DEF Reopens
  <2> QED
    BY <2>1 DEF Valid, Records, First, Call, At
<1>1. /\ Len(path') = d + 1 /\ path'[d + 1].node = n /\ path'[d + 1].next = 1
      /\ path'[d + 1] = [node |-> n, next |-> 1]
      /\ \A p \in 1..d : path'[p].node = path[p].node
      /\ \A p \in 1..d : p # d => path'[p].next = path[p].next
      /\ d > 0 => path'[d].next = path[d].next + 1
  <2>1. Pushed(n) /\ d = Len(path)
    BY DEF Reopens
  <2>2. Len(path') = d + 1 /\ path'[d + 1] = [node |-> n, next |-> 1]
    BY <2>1 DEF Pushed
  <2>3. \A p \in 1..d : /\ path'[p].node = path[p].node
                        /\ path'[p].next = IF p = d THEN path[p].next + 1 ELSE path[p].next
    BY <1>0, <2>1 DEF Pushed
  <2> QED
    BY <1>0, <2>2, <2>3
<1>2. \A p \in 1..(d + 1) : p = d + 1 \/ (p \in 1..d /\ p # d + 1)
  BY <1>0
<1>t. d > 0 => /\ path[d].node = t /\ path[d].next = k /\ k \in 1..Len(M.calls[t]) /\ Call(t, k).node = n
               /\ Len(M.calls[t]) \in Nat
  <2> SUFFICES ASSUME d > 0
               PROVE  /\ path[d].node = t /\ path[d].next = k /\ k \in 1..Len(M.calls[t]) /\ Call(t, k).node = n
                      /\ Len(M.calls[t]) \in Nat
    OBVIOUS
  <2>1. path[d] = [node |-> t, next |-> k] /\ k \in DOMAIN M.calls[t] /\ Call(t, k).node = n
    BY <1>0 DEF Reopens
  <2>2. t \in M.fns
    BY <1>0
  <2> QED
    BY <1>0, <2>1, <2>2, GraphFacts
<1>s. Stack(d)
  BY DEF Reopens, Walk
<1>3. Stack(d + 1)'
  <2>1. d + 1 \in 0..Len(path') /\ d + 1 > 0
    BY <1>0, <1>1
  <2>2. path'[1].node = Main
    <3>1. CASE d = 0
      BY <1>1, <3>1 DEF Reopens
    <3>2. CASE d > 0
      <4>1. 1 \in 1..d /\ path # <<>>
        BY <1>0, <3>2
      <4> QED
        BY <1>1, <1>s, <4>1 DEF Stack
    <3> QED
      BY <1>0, <3>1, <3>2
  <2>3. \A p \in 1..(d + 1) : path'[p].node \in DOMAIN order /\ p <= d + 1
    BY <1>0, <1>1, <1>2
  <2>4. ASSUME NEW p \in 1..(d + 1) PROVE path'[p].next \in 1..(Len(M.calls[path'[p].node]) + 1)
    <3>1. CASE p = d + 1
      <4>1. Len(M.calls[n]) \in Nat
        BY <1>0, GraphFacts
      <4> QED
        BY <1>1, <3>1, <4>1
    <3>2. CASE p \in 1..d /\ p # d
      BY <1>1, <1>s, <3>2 DEF Stack
    <3>3. CASE p \in 1..d /\ p = d
      <4>1. d > 0
        BY <1>0, <3>3
      <4>2. path'[p].next = k + 1 /\ path'[p].node = t /\ k \in 1..Len(M.calls[t]) /\ Len(M.calls[t]) \in Nat
        BY <1>1, <1>t, <3>3, <4>1
      <4> QED
        BY <4>2
    <3> QED
      BY <1>2, <3>1, <3>2, <3>3
  <2>5. ASSUME NEW p \in 1..(d + 1), NEW f, NEW l \in Nat,
               p < d + 1, path'[p].node = f, path'[p].next = l + 1
        PROVE  l \in Valid(f) /\ Call(f, l).node = path'[p + 1].node
    <3>1. p \in 1..d /\ (p # d => p < d /\ p + 1 \in 1..d)
      BY <1>0, <2>5
    <3>2. CASE p # d
      <4>1. l \in Valid(f) /\ Call(f, l).node = path[p + 1].node
        BY <1>1, <1>s, <2>5, <3>1, <3>2 DEF Stack
      <4> QED
        BY <1>1, <3>1, <3>2, <4>1
    <3>3. CASE p = d
      <4>1. d > 0
        BY <1>0, <3>1, <3>3
      <4>2. f = t /\ l + 1 = k + 1 /\ k \in 1..Len(M.calls[t]) /\ Len(M.calls[t]) \in Nat
        BY <1>1, <1>t, <2>5, <3>1, <3>3, <4>1
      <4>3. l = k
        BY <4>2
      <4> QED
        BY <1>0, <1>1, <1>t, <3>3, <4>1, <4>2, <4>3
    <3> QED
      BY <3>2, <3>3
  <2>6. ASSUME NEW p \in 1..(d + 1), NEW q \in 1..(d + 1), p < q
        PROVE  First(path'[p].node) < First(path'[q].node)
    <3>1. p \in 1..d
      BY <1>0, <2>6
    <3>2. CASE q \in 1..d
      BY <1>1, <1>s, <2>6, <3>1, <3>2 DEF Stack
    <3>3. CASE q = d + 1
      <4>1. First(path[p].node) \in Nat /\ First(path[p].node) <= c /\ path'[p].node = path[p].node
        BY <1>0, <1>1, <3>1
      <4>2. First(path'[q].node) = c + 1
        BY <1>0, <1>1, <3>3
      <4> QED
        BY <1>0, <4>1, <4>2
    <3> QED
      BY <1>2, <3>2, <3>3
  <2> QED
    BY <1>0, <1>m, <2>1, <2>2, <2>3, <2>4, <2>5, <2>6 DEF Stack, First, Call
<1>4. Clock(leave, d + 1, c + 1)'
  <2>1. At(leave, n, 1) = c + 1
    BY <1>0, AtFirst
  <2> QED
    BY <1>0, <1>1, <1>m, <2>1 DEF Clock
<1>5. InFirst(leave, d + 1, c + 1)'
  BY <1>m DEF InFirst
<1>6. InSecond(leave, c + 1)'
  <2>1. /\ Main \in DOMAIN order /\ \A f \in DOMAIN order : First(f) <= leave[Main]
        /\ \A f \in visited \cap M.fns :
              (\A p \in DOMAIN path : path[p].node # f) => order[f].last = leave[f]
    BY <1>m DEF Reopens, Walk, InSecond
  <2>2. path' # <<>>
    BY <1>0
  <2>3. ASSUME NEW f \in visited' \cap M.fns, \A p \in DOMAIN path' : path'[p].node # f
        PROVE  order[f].last = leave[f]
    <3>1. f # n
      <4>1. d + 1 \in DOMAIN path'
        BY <1>0
      <4> QED
        BY <1>1, <2>3, <4>1
    <3>2. f \in visited \cap M.fns
      BY <3>1 DEF Reopens
    <3>3. \A p \in DOMAIN path : path[p].node # f
      <4>1. \A p \in 1..d : p \in 1..(d + 1)
        BY <1>0
      <4> QED
        BY <1>0, <1>1, <2>3, <4>1
    <3> QED
      BY <2>1, <3>2, <3>3
  <2> QED
    BY <1>0, <1>m, <2>1, <2>2, <2>3 DEF InSecond
<1> QED
  BY <1>3, <1>4, <1>5, <1>6 DEF Walk

-----------------------------------------------------------------------------
(* A function is left in the second loop, where its range ends.            *)

\* As Closes, with the end of the range.
Recloses(leave, d, c, f, k) ==
    /\ Typed /\ Tree(leave) /\ Walk(leave, d, c) /\ phase = "post" /\ UNCHANGED phase /\ UNCHANGED M
    /\ UNCHANGED visited /\ UNCHANGED only /\ UNCHANGED i /\ UNCHANGED lastLen
    /\ Popped /\ d = Len(path) /\ d > 0
    /\ path[d] = [node |-> f, next |-> k] /\ k = Len(M.calls[f]) + 1
    /\ order' = [order EXCEPT ![f].last =
                    IF LastChild(f) = None THEN order[f].first + 1 ELSE order[LastChild(f)].last + 1]

\* The second walk leaves the functions at their times.
LEMMA ReclosesFacts ==
    ASSUME NEW leave, NEW d, NEW c, NEW f, NEW k, Recloses(leave, d, c, f, k)
    PROVE  /\ WellFormed(M) /\ d \in Nat /\ DOMAIN path = 1..d /\ DOMAIN path' = 1..(d - 1) /\ d \in 1..d
           /\ Len(path') = d - 1 /\ path[d].node = f /\ c \in Int
           /\ DOMAIN order \subseteq M.fns /\ f \in DOMAIN order /\ Left = DOMAIN order
           /\ \A g \in DOMAIN order : First(g) \in Nat /\ leave[g] \in Nat
           /\ \A p \in 1..d : path[p].node \in DOMAIN order
           /\ leave[f] = c + 1 /\ c = At(leave, f, k) /\ k \in Nat
           /\ visited \cap M.fns = {g \in DOMAIN order : First(g) <= c + 1}
<1>1. WellFormed(M) /\ DOMAIN order \subseteq M.fns /\ \A g \in DOMAIN order : First(g) \in Nat
  BY DEF Recloses, Typed, First
<1>2. d \in Nat /\ DOMAIN path = 1..d /\ d \in 1..d /\ d > 0 /\ path # <<>>
  <2>1. path \in Seq([node : visited, next : Nat \ {0}]) /\ d = Len(path) /\ d > 0
    BY DEF Recloses, Typed
  <2> QED
    BY <2>1
<1>3. Len(path') = d - 1 /\ DOMAIN path' = 1..(d - 1)
  <2>1. path' \in Seq([node : visited', next : Nat \ {0}]) /\ Len(path') = d - 1
    BY DEF Recloses, Popped
  <2> QED
    BY <2>1
<1>4. path[d].node = f /\ path[d] = [node |-> f, next |-> k] /\ k = Len(M.calls[f]) + 1
  BY <1>2 DEF Recloses
<1>5. \A p \in 1..d : path[p].node \in DOMAIN order
  <2>1. \A p \in 1..d : p \in DOMAIN path /\ p <= d
    BY <1>2
  <2> QED
    BY <2>1 DEF Recloses, Walk, Stack
<1>6. f \in DOMAIN order
  BY <1>2, <1>4, <1>5
<1>7. Left = DOMAIN order
  BY DEF Left, Opened, Recloses
<1>8. c \in Int /\ c = At(leave, f, k)
  BY <1>2, <1>4 DEF Recloses, Walk, Clock
<1>9. k \in Nat
  BY <1>1, <1>4, <1>6, GraphFacts
<1>10. leave[f] = c + 1
  BY <1>4, <1>6, <1>7, <1>8, <1>9 DEF Recloses, Tree, Times
<1>11. leave \in [M.fns -> Nat] /\ \A g \in DOMAIN order : First(g) # leave[f]
  BY <1>6, <1>7 DEF Recloses, Tree, Ticks
<1>12. \A g \in DOMAIN order : leave[g] \in Nat
  BY <1>1, <1>11
<1>13. visited \cap M.fns = {g \in DOMAIN order : First(g) <= c + 1}
  <2>1. visited \cap M.fns = {g \in DOMAIN order : First(g) <= c}
    BY <1>2 DEF Recloses, Walk, InSecond
  <2>2. \A g \in DOMAIN order : First(g) <= c + 1 <=> First(g) <= c
    BY <1>1, <1>8, <1>10, <1>11
  <2> QED
    BY <2>1, <2>2
<1> QED
  BY <1>1, <1>2, <1>3, <1>4, <1>5, <1>6, <1>7, <1>8, <1>9, <1>10, <1>12, <1>13

\* The range ends at the time of leaving.
LEMMA ReclosesLast ==
    ASSUME NEW leave, NEW d, NEW c, NEW f, NEW k, Recloses(leave, d, c, f, k)
    PROVE  /\ DOMAIN order' = DOMAIN order
           /\ \A g \in DOMAIN order : order'[g].first = order[g].first
           /\ \A g \in DOMAIN order : g # f => order'[g] = order[g]
           /\ order'[f].last = leave[f]
           /\ order' \in [DOMAIN order -> [first : Nat, last : Nat]]
<1> DEFINE last == IF LastChild(f) = None THEN order[f].first + 1 ELSE order[LastChild(f)].last + 1
<1>0. /\ WellFormed(M) /\ d \in Nat /\ DOMAIN path = 1..d /\ d \in 1..d /\ path[d].node = f /\ c \in Int
      /\ DOMAIN order \subseteq M.fns /\ f \in DOMAIN order /\ Left = DOMAIN order
      /\ \A g \in DOMAIN order : First(g) \in Nat /\ leave[g] \in Nat
      /\ \A p \in 1..d : path[p].node \in DOMAIN order
      /\ leave[f] = c + 1 /\ c = At(leave, f, k) /\ k \in Nat
      /\ visited \cap M.fns = {g \in DOMAIN order : First(g) <= c + 1}
  BY ReclosesFacts
<1>1. order \in [DOMAIN order -> [first : Nat, last : Nat]]
  BY DEF Recloses, Typed
<1>2. order' = [order EXCEPT ![f].last = last]
  BY DEF Recloses
<1>3. {l \in Valid(f) : l < k} = Valid(f)
  <2>1. Valid(f) \subseteq 1..Len(M.calls[f]) /\ Len(M.calls[f]) \in Nat /\ k = Len(M.calls[f]) + 1
    BY <1>0, ValidFacts, GraphFacts DEF Recloses
  <2> QED
    BY <2>1
<1>4. last = leave[f]
  <2>1. CASE Valid(f) = {}
    <3>1. At(leave, f, k) = First(f) /\ LastChild(f) = None
      BY <1>3, <2>1 DEF At, LastChild
    <3> QED
      BY <1>0, <3>1 DEF First
  <2>2. CASE Valid(f) # {}
    <3> DEFINE m == Max(Valid(f))
               g == Call(f, m).node
    <3>1. m \in Valid(f)
      BY <1>0, <1>3, <2>2, MaxValid
    <3>2. At(leave, f, k) = leave[g]
      BY <1>3, <2>2 DEF At
    <3>3. g \in M.fns /\ LastChild(f) = g /\ g # None
      <4>1. LastChild(f) = Records(M, f)[m].node
        BY <2>2 DEF LastChild
      <4>2. Records(M, f) = M.calls[f] /\ None \notin M.fns
        BY <1>0, GraphFacts
      <4>3. g \in M.fns
        BY <1>0, <3>1, ValidFacts
      <4> QED
        BY <4>1, <4>2, <4>3 DEF Call
    <3>4. g \in DOMAIN order /\ First(f) < First(g)
      BY <1>0, <3>1 DEF Recloses, Tree, Entries
    <3>5. First(g) < leave[g]
      BY <1>0, <3>4 DEF Recloses, Tree, Times
    <3>6. g \in visited \cap M.fns
      BY <1>0, <3>2, <3>4, <3>5
    <3>7. \A p \in 1..d : path[p].node # g
      <4>1. \A p \in 1..d : p = d \/ p < d
        BY <1>0
      <4>2. \A p \in 1..d : p < d => First(path[p].node) < First(f)
        BY <1>0 DEF Recloses, Walk, Stack
      <4> QED
        BY <1>0, <3>4, <4>1, <4>2
    <3>8. order[g].last = leave[g]
      BY <1>0, <3>6, <3>7 DEF Recloses, Walk, InSecond
    <3> HIDE DEF g
    <3> QED
      BY <1>0, <3>2, <3>3, <3>8
  <2> QED
    BY <2>1, <2>2
<1> HIDE DEF last
<1>5. last \in Nat
  BY <1>0, <1>4
<1>6. /\ DOMAIN order' = DOMAIN order /\ order'[f] = [order[f] EXCEPT !.last = last]
      /\ \A g \in DOMAIN order : g # f => order'[g] = order[g]
  BY <1>0, <1>1, <1>2
<1>7. order'[f].first = order[f].first /\ order'[f].last = last /\ order'[f] \in [first : Nat, last : Nat]
  BY <1>0, <1>1, <1>5, <1>6
<1>8. order' \in [DOMAIN order -> [first : Nat, last : Nat]]
  BY <1>0, <1>1, <1>2, <1>5
<1> QED
  BY <1>4, <1>6, <1>7, <1>8

LEMMA ReclosesTyped ==
    ASSUME NEW leave, NEW d, NEW c, NEW f, NEW k, Recloses(leave, d, c, f, k)
    PROVE  Typed'
<1>1. M' = M /\ phase' = phase /\ visited' = visited /\ only' = only /\ i' = i /\ lastLen' = lastLen
  BY DEF Recloses
<1>2. WellFormed(M)' /\ Ins(M)' = Ins(M)
  BY <1>1 DEF Recloses, Typed, WellFormed, Ins, Less
<1>3. path' \in Seq([node : visited', next : Nat \ {0}])
  BY DEF Recloses, Popped
<1>4. DOMAIN order' = DOMAIN order /\ order' \in [DOMAIN order' -> [first : Nat, last : Nat]]
  BY ReclosesLast
<1> QED
  BY <1>1, <1>2, <1>3, <1>4 DEF Recloses, Typed

LEMMA ReclosesTree ==
    ASSUME NEW leave, NEW d, NEW c, NEW f, NEW k, Recloses(leave, d, c, f, k)
    PROVE  Tree(leave)'
<1>1. M' = M /\ only' = only /\ phase = "post" /\ phase' = "post"
  BY DEF Recloses
<1>2. DOMAIN order' = DOMAIN order /\ \A g \in DOMAIN order : order'[g].first = order[g].first
  BY ReclosesLast
<1>3. Left' = Left
  BY <1>1, <1>2 DEF Left, Opened
<1>4. \A g, l : Seen(g, l) /\ Seen(g, l)'
  BY <1>1 DEF Seen
<1>5. Typed /\ Tree(leave)
  BY DEF Recloses
<1> QED
  BY <1>1, <1>2, <1>3, <1>4, <1>5, TreeFrame

LEMMA ReclosesWalk ==
    ASSUME NEW leave, NEW d, NEW c, NEW f, NEW k, Recloses(leave, d, c, f, k)
    PROVE  Walk(leave, d - 1, c + 1)'
<1>0. /\ WellFormed(M) /\ d \in Nat /\ DOMAIN path = 1..d /\ DOMAIN path' = 1..(d - 1) /\ d \in 1..d
      /\ Len(path') = d - 1 /\ path[d].node = f /\ c \in Int
      /\ DOMAIN order \subseteq M.fns /\ f \in DOMAIN order
      /\ \A g \in DOMAIN order : First(g) \in Nat /\ leave[g] \in Nat
      /\ \A p \in 1..d : path[p].node \in DOMAIN order
      /\ leave[f] = c + 1
      /\ visited \cap M.fns = {g \in DOMAIN order : First(g) <= c + 1}
  BY ReclosesFacts
<1>1. \A p \in 1..(d - 1) : path'[p] = path[p] /\ p \in 1..d /\ p < d
  BY <1>0 DEF Recloses, Popped
<1>m. /\ M' = M /\ only' = only /\ visited' = visited /\ phase = "post" /\ phase' = "post"
      /\ DOMAIN order' = DOMAIN order
      /\ \A g \in DOMAIN order : order'[g].first = order[g].first
      /\ \A g : Valid(g)' = Valid(g)
      /\ \A g, l : Call(g, l)' = Call(g, l)
  <2>1. M' = M /\ only' = only /\ visited' = visited /\ phase = "post" /\ phase' = "post"
    BY DEF Recloses
  <2>2. DOMAIN order' = DOMAIN order /\ \A g \in DOMAIN order : order'[g].first = order[g].first
    BY ReclosesLast
  <2> QED
    BY <2>1, <2>2 DEF Valid, Records, First, Call
<1>s. Stack(d)
  BY DEF Recloses, Walk
<1>2. Stack(d - 1)'
  <2>1. d - 1 \in 0..Len(path') /\ (path' # <<>> => d - 1 > 0)
    <3>1. path' # <<>> => d - 1 # 0
      BY <1>0
    <3> QED
      BY <1>0, <3>1
  <2>2. path' # <<>> => path'[1].node = Main
    <3> SUFFICES ASSUME path' # <<>> PROVE path'[1].node = Main
      OBVIOUS
    <3>1. 1 \in 1..(d - 1) /\ path # <<>>
      BY <1>0, <2>1
    <3> QED
      BY <1>1, <1>s, <3>1 DEF Stack
  <2>3. \A p \in 1..(d - 1) : path'[p].node \in DOMAIN order /\ p <= d - 1
    BY <1>0, <1>1
  <2>4. \A p \in 1..(d - 1) : path'[p].next \in 1..(Len(M.calls[path'[p].node]) + 1)
    BY <1>1, <1>s DEF Stack
  <2>5. ASSUME NEW p \in 1..(d - 1), NEW g, NEW l \in Nat,
               p < d - 1, path'[p].node = g, path'[p].next = l + 1
        PROVE  l \in Valid(g) /\ Call(g, l).node = path'[p + 1].node
    <3>1. p + 1 \in 1..(d - 1)
      BY <1>0, <2>5
    <3>2. l \in Valid(g) /\ Call(g, l).node = path[p + 1].node
      BY <1>1, <1>s, <2>5 DEF Stack
    <3> QED
      BY <1>1, <3>1, <3>2
  <2>6. \A p, q \in 1..(d - 1) : p < q => order'[path'[p].node].first < order'[path'[q].node].first
    <3>1. \A p \in 1..(d - 1) : order'[path'[p].node].first = First(path[p].node)
      BY <1>0, <1>1, <1>m DEF First
    <3> QED
      BY <1>1, <1>s, <3>1 DEF Stack
  <2> QED
    BY <1>0, <1>m, <2>1, <2>2, <2>3, <2>4, <2>5, <2>6 DEF Stack, First, Call
<1>3. Clock(leave, d - 1, c + 1)'
  <2> SUFFICES ASSUME NEW g, NEW o, d - 1 > 0, path'[d - 1] = [node |-> g, next |-> o]
               PROVE  At(leave, g, o)' = c + 1
    BY <1>0 DEF Clock
  <2>1. PICK p \in 1..d : p = d - 1 /\ p \in 1..(d - 1) /\ p < d /\ p + 1 = d
    <3>1. d - 1 \in 1..d /\ d - 1 \in 1..(d - 1) /\ d - 1 < d /\ (d - 1) + 1 = d
      BY <1>0
    <3> QED
      BY <3>1
  <2>2. path[p].node = g /\ path[p].next = o
    BY <1>1, <2>1
  <2>3. g \in DOMAIN order
    BY <1>0, <2>1, <2>2
  <2>4. o \in 1..(Len(M.calls[g]) + 1) /\ Len(M.calls[g]) \in Nat
    <3>1. Len(M.calls[g]) \in Nat
      BY <1>0, <2>3, GraphFacts
    <3> QED
      BY <1>s, <2>1, <2>2, <3>1 DEF Stack
  <2>5. PICK l \in Nat : o = l + 1
    <3>1. o - 1 \in Nat /\ o = (o - 1) + 1
      BY <2>4
    <3> QED
      BY <3>1
  <2>6. l \in Valid(g) /\ Call(g, l).node = f
    <3>1. path[p + 1].node = f
      BY <1>0, <2>1
    <3> QED
      BY <1>s, <2>1, <2>2, <2>5, <3>1 DEF Stack
  <2>7. At(leave, g, l + 1) = c + 1
    BY <1>0, <2>3, <2>6, AtEntered
  <2>8. At(leave, g, o)' = At(leave, g, o)
    <3>1. First(g)' = First(g) /\ Valid(g)' = Valid(g) /\ M' = M
      BY <1>m, <2>3 DEF First
    <3> QED
      BY <3>1 DEF At, Call
  <2> QED
    BY <2>5, <2>7, <2>8
<1>4. InFirst(leave, d - 1, c + 1)'
  BY <1>m DEF InFirst
<1>5. InSecond(leave, c + 1)'
  <2>1. /\ Main \in DOMAIN order /\ \A g \in DOMAIN order : First(g) <= leave[Main]
        /\ \A g \in visited \cap M.fns :
              (\A p \in DOMAIN path : path[p].node # g) => order[g].last = leave[g]
    BY <1>m DEF Recloses, Walk, InSecond
  <2>2. path' = <<>> => visited \cap M.fns = DOMAIN order
    <3> SUFFICES ASSUME path' = <<>> PROVE visited \cap M.fns = DOMAIN order
      OBVIOUS
    <3>1. d = 1 /\ path # <<>>
      <4>1. Len(path') = 0
        OBVIOUS
      <4>2. d = 1 /\ 1 \in DOMAIN path
        BY <1>0, <4>1
      <4> QED
        BY <4>2
    <3>2. f = Main
      BY <1>0, <1>s, <3>1 DEF Stack
    <3> QED
      BY <1>0, <2>1, <3>2
  <2>3. ASSUME NEW g \in visited \cap M.fns, \A p \in DOMAIN path' : path'[p].node # g
        PROVE  order'[g].last = leave[g]
    <3>1. CASE g = f
      BY <3>1, ReclosesLast
    <3>2. CASE g # f
      <4>1. \A p \in DOMAIN path : path[p].node # g
        <5>1. \A p \in 1..d : p = d \/ p \in 1..(d - 1)
          BY <1>0
        <5> QED
          BY <1>0, <1>1, <2>3, <3>2, <5>1
      <4>2. g \in DOMAIN order
        BY <1>0
      <4> QED
        BY <2>1, <3>2, <4>1, <4>2, ReclosesLast
    <3> QED
      BY <3>1, <3>2
  <2>4. \A g \in DOMAIN order : order'[g].first <= leave[Main]
    BY <1>m, <2>1 DEF First
  <2> QED
    BY <1>0, <1>m, <2>1, <2>2, <2>3, <2>4 DEF InSecond, First
<1> QED
  BY <1>2, <1>3, <1>4, <1>5 DEF Walk

-----------------------------------------------------------------------------
(* The loops begin and end.                                                *)

\* The invariant holds before the first loop.
LEMMA Starts == ASSUME Init PROVE IInv
<1> DEFINE leave == [f \in M.fns |-> 0]
<1>1. M \in Modules /\ WellFormed(M)
  BY ModulesAssumption DEF Init
<1>2. /\ phase = "pre" /\ path = <<>> /\ visited = {} /\ i = -1 /\ lastLen = 0
      /\ order = <<>> /\ only = {}
  BY DEF Init, Fresh
<1>3. DOMAIN order = {} /\ DOMAIN path = {} /\ Left = {} /\ Len(path) = 0
  BY <1>2 DEF Left
<1>4. Typed
  <2>1. order \in [DOMAIN order -> [first : Nat, last : Nat]]
    BY <1>2
  <2> QED
    BY <1>1, <1>2, <1>3, <2>1 DEF Typed
<1>5. leave \in [M.fns -> Nat]
  OBVIOUS
<1> HIDE DEF leave
<1>6. Tree(leave)
  BY <1>2, <1>3, <1>5 DEF Tree, Ticks, Entries, Times, Nested
<1>7. Walk(leave, 0, -1)
  BY <1>2, <1>3 DEF Walk, Stack, Clock, InFirst, InSecond
<1> QED
  BY <1>4, <1>6, <1>7 DEF IInv

\* Between the loops the clock is set back.
LEMMA Loops ==
    ASSUME NEW leave, NEW d, NEW c, Typed, Tree(leave), Walk(leave, d, c), EndLoop
    PROVE  Typed' /\ Tree(leave)' /\ Walk(leave, d, c)'
<1>1. /\ phase \in {"pre", "post"} /\ phase' = (IF phase = "pre" THEN "post" ELSE "done")
      /\ path = <<>> /\ path' = <<>> /\ visited # {} /\ visited' = {}
      /\ M' = M /\ i' = i /\ lastLen' = lastLen /\ order' = order /\ only' = only
  BY DEF EndLoop, Typed
<1>2. DOMAIN path = {} /\ Len(path) = 0
  BY <1>1
<1>3. Left = DOMAIN order /\ Left' = DOMAIN order
  BY <1>1, <1>2 DEF Left, Opened
<1>4. \A f, l : Seen(f, l) /\ Seen(f, l)'
  BY <1>1, <1>2 DEF Seen
<1>5. Tree(leave)'
  BY <1>1, <1>3, <1>4, TreeFrame
<1>6. Typed'
  <2>1. WellFormed(M)' /\ Ins(M)' = Ins(M)
    BY <1>1 DEF Typed, WellFormed, Ins, Less
  <2>2. path' \in Seq([node : visited', next : Nat \ {0}])
    BY <1>1
  <2> QED
    BY <1>1, <2>1, <2>2 DEF Typed
<1>7. d = 0 /\ c \in Int
  BY <1>2 DEF Walk, Stack, Clock
<1>8. Stack(0)' /\ Clock(leave, 0, c)' /\ InFirst(leave, 0, c)'
  BY <1>1, <1>2, <1>7 DEF Stack, Clock, InFirst
<1>9. Main \in DOMAIN order /\ \A f \in DOMAIN order : First(f) <= leave[Main]
  <2>1. CASE phase = "pre"
    <3>1. Main \in M.fns
      BY GraphFacts DEF Typed
    <3> QED
      BY <1>1, <2>1, <3>1 DEF Walk, InFirst
  <2>2. CASE phase # "pre"
    BY <2>2 DEF Walk, InSecond
  <2> QED
    BY <2>1, <2>2
<1>10. phase = "post" => \A f \in DOMAIN order : order[f].last = leave[f]
  BY <1>1, <1>2 DEF Walk, InSecond
<1>11. InSecond(leave, c)'
  BY <1>1, <1>9, <1>10 DEF InSecond, First
<1> QED
  BY <1>5, <1>6, <1>7, <1>8, <1>11 DEF Walk

-----------------------------------------------------------------------------
(* What the actions do to the stack.                                       *)

\* The last node of the stack.
LEMMA TopFacts ==
    ASSUME NEW d, Typed, Stack(d), path # <<>>
    PROVE  /\ Len(path) \in Nat \ {0} /\ DOMAIN path = 1..Len(path) /\ d \in 1..Len(path)
           /\ Len(path) \in Nat /\ Len(path) > 0 /\ d \in Nat /\ d > 0 /\ d <= Len(path) /\ d \in 1..d
           /\ \A p \in 1..Len(path) : /\ path[p] = [node |-> path[p].node, next |-> path[p].next]
                                      /\ path[p].node \in visited /\ path[p].next \in Nat \ {0}
           /\ Top = path[Len(path)] /\ (Top.node \in M.fns <=> d = Len(path))
           /\ \A p \in 1..Len(path) : p > d => path[p].node \notin M.fns
           /\ path[d].node \in DOMAIN order /\ path[d].node \in M.fns
<1> DEFINE R == [node : visited, next : Nat \ {0}]
<1>1. path \in Seq(R) /\ \A r \in R : r = [node |-> r.node, next |-> r.next] /\ r.node \in visited /\ r.next \in Nat \ {0}
  BY DEF Typed
<1> HIDE DEF R
<1>2. Len(path) \in Nat \ {0} /\ DOMAIN path = 1..Len(path) /\ \A p \in 1..Len(path) : path[p] \in R
  BY <1>1
<1>3. d \in 1..Len(path)
  BY <1>2 DEF Stack
<1>4. \A p \in 1..Len(path) : IF p <= d THEN path[p].node \in DOMAIN order ELSE path[p].node \notin M.fns
  BY <1>2 DEF Stack
<1>5. DOMAIN order \subseteq M.fns
  BY DEF Typed
<1>6. path[d].node \in DOMAIN order
  BY <1>3, <1>4
<1>7. Top.node \in M.fns <=> d = Len(path)
  <2>0. \A L \in Nat \ {0} : d \in 1..L => L \in 1..L /\ (L <= d <=> d = L)
    OBVIOUS
  <2>1. Len(path) \in 1..Len(path) /\ (Len(path) <= d <=> d = Len(path))
    BY <1>2, <1>3, <2>0
  <2>2. IF Len(path) <= d THEN path[Len(path)].node \in DOMAIN order ELSE path[Len(path)].node \notin M.fns
    BY <1>4, <2>1
  <2> QED
    BY <1>5, <2>1, <2>2 DEF Top
<1>8. \A p \in 1..Len(path) : p > d => path[p].node \notin M.fns
  BY <1>3, <1>4
<1>9. Len(path) \in Nat /\ Len(path) > 0 /\ d \in Nat /\ d > 0 /\ d <= Len(path) /\ d \in 1..d
  <2>1. \A L \in Nat \ {0} : d \in 1..L => L \in Nat /\ L > 0 /\ d \in Nat /\ d > 0 /\ d <= L /\ d \in 1..d
    OBVIOUS
  <2> QED
    BY <1>2, <1>3, <2>1
<1> QED
  BY <1>1, <1>2, <1>3, <1>5, <1>6, <1>7, <1>8, <1>9 DEF Top

\* The stack after the steps of the iterator: Moved,
LEMMA MovedFacts ==
    ASSUME NEW d, Typed, Stack(d), path # <<>>
    PROVE  /\ Moved \in Seq([node : visited, next : Nat \ {0}]) /\ Len(Moved) = Len(path)
           /\ \A p \in 1..Len(path) :
                 /\ Moved[p].node = path[p].node
                 /\ Moved[p].next = IF p = Len(path) THEN path[p].next + 1 ELSE path[p].next
<1> DEFINE R == [node : visited, next : Nat \ {0}]
           L == Len(path)
           r == [path[L] EXCEPT !.next = @ + 1]
<1>1. L \in Nat \ {0} /\ DOMAIN path = 1..L /\ L \in 1..L
  BY TopFacts
<1>2. path[L] = [node |-> path[L].node, next |-> path[L].next] /\ path[L].node \in visited /\ path[L].next \in Nat \ {0}
  BY <1>1, TopFacts
<1>3. r \in R /\ r.node = path[L].node /\ r.next = path[L].next + 1
  BY <1>2
<1>4. path \in Seq(R)
  BY DEF Typed
<1>5. Moved = [path EXCEPT ![L] = r]
  BY DEF Moved
<1> HIDE DEF R, r
<1>6. Moved \in Seq(R) /\ Len(Moved) = L /\ Moved[L] = r /\ \A p \in 1..L : p # L => Moved[p] = path[p]
  <2> HIDE DEF L
  <2>1. path \in [1..L -> R]
    BY <1>1, <1>4 DEF L
  <2>2. Moved \in [1..L -> R] /\ Moved[L] = r /\ \A p \in 1..L : p # L => Moved[p] = path[p]
    BY <1>1, <1>3, <1>5, <2>1
  <2>3. L \in Nat
    BY <1>1
  <2> QED
    BY <2>2, <2>3
<1> QED
  BY <1>1, <1>3, <1>6 DEF R

\* The stack with n on it.
LEMMA GrownFacts ==
    ASSUME NEW d, NEW n, Typed, Stack(d), path # <<>>,
           path' = Append(Moved, [node |-> n, next |-> 1]), visited' = visited \cup {n}
    PROVE  Pushed(n)
<1> DEFINE R == [node : visited, next : Nat \ {0}]
           S == [node : visited', next : Nat \ {0}]
           r == [node |-> n, next |-> 1]
<1>1. Moved \in Seq(R) /\ Len(Moved) = Len(path)
  BY MovedFacts
<1>2. \A p \in 1..Len(path) :
         /\ Moved[p].node = path[p].node
         /\ Moved[p].next = IF p = Len(path) THEN path[p].next + 1 ELSE path[p].next
  BY MovedFacts
<1>3. r \in S /\ R \subseteq S
  OBVIOUS
<1>4. path' = Append(Moved, r)
  OBVIOUS
<1>5. Len(path) \in Nat /\ DOMAIN path = 1..Len(path)
  BY TopFacts
<1> HIDE DEF R, S, r
<1>6. Moved \in Seq(S)
  BY <1>1, <1>3
<1>7. path' \in Seq(S)
  BY <1>3, <1>4, <1>6
<1>8. Len(path') = Len(path) + 1 /\ path'[Len(path) + 1] = r /\ \A p \in 1..Len(path) : path'[p] = Moved[p]
  BY <1>1, <1>4
<1> QED
  BY <1>2, <1>5, <1>7, <1>8 DEF Pushed, S, r

\* and Front.
LEMMA ShrunkFacts ==
    ASSUME NEW d, Typed, Stack(d), path # <<>>, path' = Front(path), visited' = visited
    PROVE  Popped
<1> DEFINE R == [node : visited, next : Nat \ {0}]
<1>1. path \in Seq(R) /\ path' = SubSeq(path, 1, Len(path) - 1)
  BY DEF Typed, Front
<1>2. Len(path) \in Nat /\ Len(path) > 0
  BY TopFacts
<1> HIDE DEF R
<1>3. path' \in Seq(R) /\ Len(path') = Len(path) - 1 /\ \A p \in 1..(Len(path) - 1) : path'[p] = path[p]
  <2>1. PICK L \in Nat : L = Len(path) /\ L > 0
    BY <1>2
  <2>2. \A p \in 1..(L - 1) : p \in 1..L
    BY <2>1
  <2>3. path' = [p \in 1..(L - 1) |-> path[p]]
    BY <1>1, <2>1
  <2>4. path' \in [1..(L - 1) -> R]
    <3>1. \A p \in 1..(L - 1) : path[p] \in R
      BY <1>1, <2>1, <2>2
    <3> QED
      BY <2>3, <3>1
  <2>5. L - 1 \in Nat
    BY <2>1
  <2>6. path' \in Seq(R) /\ Len(path') = L - 1
    BY <2>4, <2>5
  <2> QED
    BY <2>1, <2>3, <2>6
<1> QED
  BY <1>3 DEF Popped, R

\* The record at the top, which leads to a function only if it is a function's.
LEMMA ChildFacts ==
    ASSUME NEW d, Typed, Stack(d), HasNext
    PROVE  /\ path # <<>>
           /\ d = Len(path) => /\ Top.next \in DOMAIN M.calls[Top.node] /\ Child = Call(Top.node, Top.next).node
                               /\ Top.node \in DOMAIN order
           /\ d # Len(path) => Child \notin M.fns
           /\ Child \in M.fns \cup M.decls \cup {External}
<1>1. path # <<>> /\ Top.next \in DOMAIN Records(M, Top.node) /\ WellFormed(M)
  BY DEF HasNext, Typed
<1>2. Child = Records(M, Top.node)[Top.next].node
  BY DEF Child
<1>3. CASE d = Len(path)
  <2>1. Top.node \in M.fns
    BY <1>1, <1>3, TopFacts
  <2>2. /\ Records(M, Top.node) = M.calls[Top.node]
        /\ \A k \in DOMAIN M.calls[Top.node] : Call(Top.node, k).node \in M.fns \cup M.decls \cup {External}
    BY <1>1, <2>1, GraphFacts
  <2>3. Top.node \in DOMAIN order
    BY <1>1, <1>3, TopFacts
  <2> QED
    BY <1>1, <1>2, <1>3, <2>1, <2>2, <2>3 DEF Call
<1>4. CASE d # Len(path)
  <2>1. Top.node \notin M.fns
    BY <1>1, <1>4, TopFacts
  <2>2. Child = External
    BY <1>1, <1>2, <2>1, OutsideFacts
  <2>3. External \notin M.fns
    BY <1>1, GraphFacts
  <2> QED
    BY <1>1, <1>4, <2>2, <2>3
<1> QED
  BY <1>3, <1>4

\* The walk comes to a node outside the module's functions, or to one again.
LEMMA StepsAside ==
    ASSUME NEW leave, NEW d, NEW c, Typed, Tree(leave), Walk(leave, d, c),
           Skip \/ (Descend /\ Child \notin M.fns) \/ (Leave /\ Top.node \notin M.fns)
    PROVE  Typed' /\ Tree(leave)' /\ Walk(leave, d, c)'
<1> DEFINE t == path[d].node
           k == path[d].next
<1>s. Stack(d)
  BY DEF Walk
<1>1. path # <<>>
  BY DEF Skip, Descend, Leave, HasNext
<1>2. PICK L \in Nat :
      /\ L = Len(path) /\ L > 0 /\ DOMAIN path = 1..L /\ d \in 1..L /\ d \in Nat /\ d > 0 /\ d <= L /\ d \in 1..d
      /\ \A p \in 1..L : path[p].node \in visited
      /\ path[d] = [node |-> t, next |-> k]
      /\ Top = path[L] /\ (Top.node \in M.fns <=> d = L)
      /\ \A p \in 1..L : p > d => path[p].node \notin M.fns
      /\ t \in DOMAIN order
  BY <1>1, <1>s, TopFacts
<1>3. \A p \in 1..d : p \in 1..L /\ (p < d => p # L) /\ (p = d \/ p < d)
  BY <1>2
<1>4. UNCHANGED phase /\ UNCHANGED M /\ UNCHANGED only /\ UNCHANGED i /\ UNCHANGED lastLen /\ UNCHANGED order
  BY DEF Skip, Descend, Leave, Enter
<1>v. /\ visited \subseteq visited' /\ visited' \cap M.fns = visited \cap M.fns
      /\ visited' \subseteq M.fns \cup M.decls \cup {External}
  <2>1. HasNext => Child \in M.fns \cup M.decls \cup {External}
    BY <1>s, ChildFacts
  <2>2. CASE Descend /\ Child \notin M.fns
    BY <2>1, <2>2 DEF Descend, Enter, Typed
  <2>3. CASE Skip \/ Leave
    BY <2>3 DEF Skip, Leave, Typed
  <2> QED
    BY <2>2, <2>3
<1>5. /\ path' \in Seq([node : visited', next : Nat \ {0}]) /\ d <= Len(path')
      /\ \A p \in 1..d : path'[p].node = path[p].node /\ (p < d => path'[p].next = path[p].next)
      /\ path'[d].next = k \/ (path'[d].next = k + 1 /\ Moves(t, k))
      /\ \A p \in DOMAIN path' : p > d => path'[p].node \notin M.fns
  <2>1. CASE Skip
    <3>1. HasNext /\ Child \in visited /\ path' = Moved /\ visited' = visited
      BY <2>1 DEF Skip
    <3>2. /\ path' \in Seq([node : visited', next : Nat \ {0}]) /\ Len(path') = L
          /\ \A p \in 1..L :
                /\ path'[p].node = path[p].node
                /\ path'[p].next = IF p = L THEN path[p].next + 1 ELSE path[p].next
      BY <1>1, <1>2, <1>s, <3>1, MovedFacts
    <3>3. DOMAIN path' = 1..L
      BY <3>2
    <3>4. d = L => Moves(t, k)
      BY <1>2, <1>s, <3>1, ChildFacts DEF Moves
    <3>5. path'[d].next = IF d = L THEN k + 1 ELSE k
      BY <1>2, <3>2
    <3> QED
      BY <1>2, <1>3, <3>2, <3>3, <3>4, <3>5
  <2>2. CASE Descend /\ Child \notin M.fns
    <3>1. /\ HasNext /\ path' = Append(Moved, [node |-> Child, next |-> 1])
          /\ visited' = visited \cup {Child}
      BY <2>2 DEF Descend, Enter
    <3>2. Pushed(Child)
      BY <1>1, <1>s, <3>1, GrownFacts
    <3>3. /\ path' \in Seq([node : visited', next : Nat \ {0}]) /\ Len(path') = L + 1
          /\ path'[L + 1].node = Child
          /\ \A p \in 1..L :
                /\ path'[p].node = path[p].node
                /\ path'[p].next = IF p = L THEN path[p].next + 1 ELSE path[p].next
      BY <1>2, <3>2 DEF Pushed
    <3>4. DOMAIN path' = 1..(L + 1)
      BY <3>3
    <3>5. \A p \in DOMAIN path' : p = L + 1 \/ p \in 1..L
      BY <1>2, <3>4
    <3>6. d = L => Moves(t, k)
      BY <1>2, <1>s, <2>2, <3>1, ChildFacts DEF Moves
    <3>7. path'[d].next = IF d = L THEN k + 1 ELSE k
      BY <1>2, <3>3
    <3>8. d <= Len(path')
      BY <1>2, <3>3
    <3> QED
      BY <1>2, <1>3, <2>2, <3>3, <3>5, <3>6, <3>7, <3>8
  <2>3. CASE Leave /\ Top.node \notin M.fns
    <3>1. path' = Front(path) /\ visited' = visited
      BY <2>3 DEF Leave
    <3>2. Popped
      BY <1>1, <1>s, <3>1, ShrunkFacts
    <3>3. /\ path' \in Seq([node : visited', next : Nat \ {0}]) /\ Len(path') = L - 1
          /\ \A p \in 1..(L - 1) : path'[p] = path[p]
      BY <1>2, <3>2 DEF Popped
    <3>4. DOMAIN path' = 1..(L - 1)
      BY <1>2, <3>3
    <3>5. d <= L - 1 /\ \A p \in DOMAIN path' : p \in 1..L
      BY <1>2, <2>3, <3>4
    <3>6. \A p \in 1..d : p \in 1..(L - 1)
      BY <1>2, <3>5
    <3> QED
      BY <1>2, <3>3, <3>4, <3>5, <3>6
  <2> QED
    BY <2>1, <2>2, <2>3
<1>6. Keeps(leave, d, c, t, k)
  BY <1>1, <1>4, <1>5, <1>v, <1>2 DEF Keeps
<1> QED
  BY <1>6, KeepsTyped, KeepsTree, KeepsWalk

\* A function's number and the call along which it was entered.
LEMMA NumberFacts ==
    ASSUME NEW n, NEW stack, Number(n, stack)
    PROVE  /\ i' = i + lastLen - Len(stack) + 2 /\ lastLen' = Len(stack)
           /\ order' = [g \in DOMAIN order \cup {n} |-> IF g = n THEN [first |-> i', last |-> 0] ELSE order[g]]
           /\ only' = only \cup EnteredBy(n, stack)
  BY DEF Number, Numbered

\* The steps of the model are those of the clock: df_begin and po_begin,
LEMMA Begins ==
    ASSUME NEW leave, NEW d, NEW c, Typed, Tree(leave), Walk(leave, d, c), Begin
    PROVE  Typed' /\ Tree(leave)' /\ \E e, b : Walk(leave, e, b)'
<1> DEFINE stack == <<[node |-> Main, next |-> 1]>>
<1>1. /\ phase \in {"pre", "post"} /\ path = <<>> /\ visited = {} /\ Enter(Main, stack)
  BY DEF Begin, Typed
<1>2. path' = stack /\ visited' = visited \cup {Main} /\ UNCHANGED phase /\ UNCHANGED M
  BY <1>1 DEF Enter
<1>3. DOMAIN path = {} /\ Len(path) = 0
  BY <1>1
<1>4. Main \in M.fns
  BY GraphFacts DEF Typed
<1>5. Pushed(Main)
  <2>1. Len(stack) = 1 /\ stack[1] = [node |-> Main, next |-> 1]
    OBVIOUS
  <2>2. [node |-> Main, next |-> 1] \in [node : visited', next : Nat \ {0}]
    BY <1>2
  <2>3. stack \in Seq([node : visited', next : Nat \ {0}])
    BY <2>2
  <2> HIDE DEF stack
  <2> QED
    BY <1>2, <1>3, <2>1, <2>3 DEF Pushed
<1>6. d = 0 /\ c \in Int
  BY <1>3 DEF Walk, Stack, Clock
<1>7. CASE phase = "pre"
  <2>1. Number(Main, stack)
    BY <1>1, <1>4, <1>7 DEF Enter
  <2>2. EnteredBy(Main, stack) = {} /\ Len(stack) = 1
    BY DEF EnteredBy
  <2> HIDE DEF stack
  <2>3. c = -1 /\ c + d = i + lastLen
    BY <1>1, <1>7 DEF Walk, InFirst
  <2>4. i \in Int /\ lastLen \in Int
    BY DEF Typed
  <2>5. i' = c + 1 /\ lastLen' = d + 1 /\ only' = only
    BY <1>6, <2>1, <2>2, <2>3, <2>4, NumberFacts
  <2>6. order' = [g \in DOMAIN order \cup {Main} |-> IF g = Main THEN [first |-> c + 1, last |-> 0] ELSE order[g]]
    BY <2>1, <2>5, NumberFacts
  <2>7. Opens(leave, Main, d, c, None, 0)
    BY <1>1, <1>2, <1>3, <1>4, <1>5, <1>6, <1>7, <2>5, <2>6 DEF Opens
  <2> QED
    BY <2>7, OpensTyped, OpensTree, OpensWalk
<1>8. CASE phase = "post"
  <2>1. UNCHANGED order /\ UNCHANGED only /\ UNCHANGED i /\ UNCHANGED lastLen
    BY <1>1, <1>8 DEF Enter
  <2>2. Walk(leave, 0, -1)
    BY <1>1, <1>3, <1>6, <1>8 DEF Walk, Clock, InFirst, InSecond
  <2>3. Reopens(leave, Main, 0, -1, None, 0)
    BY <1>1, <1>2, <1>3, <1>4, <1>5, <1>8, <2>1, <2>2 DEF Reopens
  <2> QED
    BY <2>3, ReopensTyped, ReopensTree, ReopensWalk
<1> QED
  BY <1>1, <1>7, <1>8

\* a call of a function not visited,
LEMMA Descends ==
    ASSUME NEW leave, NEW d, NEW c, Typed, Tree(leave), Walk(leave, d, c), Descend, Child \in M.fns
    PROVE  Typed' /\ Tree(leave)' /\ \E e, b : Walk(leave, e, b)'
<1> DEFINE n == Child
           t == path[d].node
           k == path[d].next
           stack == Append(Moved, [node |-> n, next |-> 1])
<1>s. Stack(d) /\ WellFormed(M)
  BY DEF Walk, Typed
<1>1. HasNext /\ path # <<>> /\ n \notin visited /\ Enter(n, stack)
  BY DEF Descend, HasNext
<1>2. path' = stack /\ visited' = visited \cup {n} /\ UNCHANGED phase /\ UNCHANGED M
  BY <1>1 DEF Enter
<1>3. d = Len(path)
  BY <1>1, <1>s, ChildFacts
<1>4. /\ k \in DOMAIN M.calls[t] /\ Call(t, k).node = n /\ t \in DOMAIN order /\ t \in M.fns
      /\ path[d] = [node |-> t, next |-> k] /\ d \in Nat /\ d > 0 /\ d \in 1..d
  BY <1>1, <1>3, <1>s, ChildFacts, TopFacts
<1>5. Pushed(n)
  BY <1>1, <1>2, <1>s, GrownFacts
<1>6. CASE phase = "pre"
  <2>1. Number(n, stack)
    BY <1>1, <1>6 DEF Enter
  <2>2. Len(stack) = d + 1 /\ stack[d].node = t
    BY <1>2, <1>3, <1>4, <1>5 DEF Pushed
  <2>3. DOMAIN M.calls[t] = 1..Len(M.calls[t]) /\ Records(M, t) = M.calls[t]
    BY <1>4, <1>s, GraphFacts
  <2>4. \A l \in DOMAIN M.calls[t] : l < k => Call(t, l).node # n
    <3>1. ASSUME NEW l \in DOMAIN M.calls[t], l < k PROVE Seen(t, l)
      <4>1. \A p \in DOMAIN path : path[p].node = t => p = d
        BY <1>3, <1>4, <1>s, StackDiffers, TopFacts, <1>1
      <4> QED
        BY <3>1, <4>1 DEF Seen
    <3> QED
      BY <1>1, <1>4, <1>6, <3>1 DEF Walk, InFirst
  <2>5. SelectInSeq(M.calls[t], LAMBDA r : r.node = n) = k
    <3> DEFINE I == {l \in 1..Len(M.calls[t]) : M.calls[t][l].node = n}
    <3>1. I \subseteq Nat /\ k \in I /\ \A l \in I : ~(l < k)
      BY <1>4, <2>3, <2>4 DEF Call
    <3> HIDE DEF I
    <3>2. I # {}
      BY <3>1
    <3>3. Min(I) = k
      <4>1. Min(I) \in I /\ \A x \in I : Min(I) <= x
        BY <3>1, <3>2, MinFacts
      <4>2. Min(I) \in Nat /\ k \in Nat /\ ~(Min(I) < k) /\ Min(I) <= k
        BY <3>1, <4>1
      <4> HIDE DEF k
      <4> QED
        BY <4>2
    <3> QED
      BY <3>2, <3>3 DEF SelectInSeq, I
  <2>6. EnteredBy(n, stack) = {Call(t, k).site}
    <3>1. Len(stack) # 1 /\ stack[Len(stack) - 1].node = t
      BY <1>4, <2>2
    <3> HIDE DEF stack, t, k, n
    <3> QED
      BY <2>3, <2>5, <3>1 DEF EnteredBy, Call
  <2> HIDE DEF stack
  <2>7. c + d = i + lastLen /\ c \in Int
    BY <1>6 DEF Walk, InFirst, Clock
  <2>8. i \in Int /\ lastLen \in Int
    BY DEF Typed
  <2>9. i' = c + 1 /\ lastLen' = d + 1 /\ only' = only \cup {Call(t, k).site}
    <3>1. i' = i + lastLen - (d + 1) + 2 /\ lastLen' = d + 1
      BY <2>1, <2>2, NumberFacts
    <3>2. only' = only \cup {Call(t, k).site}
      BY <2>1, <2>6, NumberFacts
    <3> HIDE DEF t, k
    <3> QED
      BY <1>4, <2>7, <2>8, <3>1, <3>2
  <2>10. order' = [g \in DOMAIN order \cup {n} |-> IF g = n THEN [first |-> c + 1, last |-> 0] ELSE order[g]]
    <3>1. order' = [g \in DOMAIN order \cup {n} |-> IF g = n THEN [first |-> i', last |-> 0] ELSE order[g]]
      BY <2>1, NumberFacts
    <3> QED
      BY <2>9, <3>1
  <2>11. Opens(leave, n, d, c, t, k)
    <3> HIDE DEF n, t, k
    <3>1. n \in M.fns
      BY DEF n
    <3> QED
      BY <1>1, <1>2, <1>3, <1>4, <1>5, <1>6, <2>9, <2>10, <3>1 DEF Opens
  <2> QED
    BY <2>11, OpensTyped, OpensTree, OpensWalk
<1>7. CASE phase # "pre"
  <2>1. phase = "post"
    BY <1>1, <1>7 DEF Walk, InSecond, Typed
  <2>2. UNCHANGED order /\ UNCHANGED only /\ UNCHANGED i /\ UNCHANGED lastLen
    BY <1>1, <1>7 DEF Enter
  <2>3. Reopens(leave, n, d, c, t, k)
    <3> HIDE DEF n, t, k
    <3>1. n \in M.fns
      BY DEF n
    <3> QED
      BY <1>1, <1>2, <1>3, <1>4, <1>5, <2>1, <2>2, <3>1 DEF Reopens
  <2> QED
    BY <2>3, ReopensTyped, ReopensTree, ReopensWalk
<1> QED
  BY <1>6, <1>7

\* the end of a function.
LEMMA Leaves ==
    ASSUME NEW leave, NEW d, NEW c, Typed, Tree(leave), Walk(leave, d, c), Leave, Top.node \in M.fns
    PROVE  Typed' /\ \E e, a, b : Tree(e)' /\ Walk(e, a, b)'
<1> DEFINE f == path[d].node
           k == path[d].next
<1>s. Stack(d) /\ WellFormed(M)
  BY DEF Walk, Typed
<1>1. /\ path # <<>> /\ ~HasNext /\ path' = Front(path)
      /\ UNCHANGED M /\ UNCHANGED phase /\ UNCHANGED visited /\ UNCHANGED i /\ UNCHANGED lastLen /\ UNCHANGED only
  BY DEF Leave
<1>2. Popped
  BY <1>1, <1>s, ShrunkFacts
<1>3. /\ d = Len(path) /\ d > 0 /\ path[d] = [node |-> f, next |-> k] /\ f \in M.fns /\ d \in 1..d
      /\ Top = path[d]
  BY <1>1, <1>s, TopFacts
<1>4. k = Len(M.calls[f]) + 1
  <2>1. Records(M, f) = M.calls[f] /\ DOMAIN M.calls[f] = 1..Len(M.calls[f]) /\ Len(M.calls[f]) \in Nat
    BY <1>3, <1>s, GraphFacts
  <2>2. k \notin DOMAIN M.calls[f]
    BY <1>1, <1>3, <2>1 DEF HasNext
  <2>3. k \in 1..(Len(M.calls[f]) + 1)
    BY <1>3, <1>s DEF Stack
  <2> HIDE DEF k, f
  <2> QED
    BY <2>1, <2>2, <2>3
<1>5. CASE phase = "pre"
  <2>1. UNCHANGED order
    BY <1>5 DEF Leave
  <2>2. Closes(leave, d, c, f, k)
    BY <1>1, <1>2, <1>3, <1>4, <1>5, <2>1 DEF Closes
  <2> QED
    BY <2>2, ClosesTyped, ClosesTree, ClosesWalk
<1>6. CASE phase # "pre"
  <2>1. phase = "post"
    BY <1>1, <1>6 DEF Walk, InSecond, Typed
  <2>2. order' = [order EXCEPT ![f].last =
                     IF LastChild(f) = None THEN order[f].first + 1 ELSE order[LastChild(f)].last + 1]
    BY <1>3, <2>1 DEF Leave
  <2>3. Recloses(leave, d, c, f, k)
    BY <1>1, <1>2, <1>3, <1>4, <2>1, <2>2 DEF Recloses
  <2> QED
    BY <2>3, ReclosesTyped, ReclosesTree, ReclosesWalk
<1> QED
  BY <1>5, <1>6

-----------------------------------------------------------------------------
(* Every step of the walk.                                                 *)

\* The invariant is inductive.
LEMMA Steps == ASSUME IInv, [Next]_vars PROVE IInv'
<1>1. PICK leave, d, c : Typed /\ Tree(leave) /\ Walk(leave, d, c)
  BY DEF IInv
<1>2. CASE Begin
  BY <1>1, <1>2, Begins DEF IInv
<1>3. CASE Descend /\ Child \in M.fns
  BY <1>1, <1>3, Descends DEF IInv
<1>4. CASE Leave /\ Top.node \in M.fns
  BY <1>1, <1>4, Leaves DEF IInv
<1>5. CASE Skip \/ (Descend /\ Child \notin M.fns) \/ (Leave /\ Top.node \notin M.fns)
  BY <1>1, <1>5, StepsAside DEF IInv
<1>6. CASE EndLoop
  BY <1>1, <1>6, Loops DEF IInv
<1>7. CASE UNCHANGED vars
  <2>1. /\ M' = M /\ phase' = phase /\ path' = path /\ visited' = visited
        /\ i' = i /\ lastLen' = lastLen /\ order' = order /\ only' = only
    BY <1>7 DEF vars
  <2>2. Typed'
    BY <1>1, <2>1 DEF Typed, WellFormed, Ins, Less
  <2>3. Left' = Left /\ \A f, k : Seen(f, k)' <=> Seen(f, k)
    BY <2>1 DEF Left, Opened, Seen
  <2>4. Tree(leave)'
    BY <1>1, <2>1, <2>3, TreeFrame
  <2>5. /\ \A f, k : Valid(f)' = Valid(f) /\ Call(f, k)' = Call(f, k) /\ First(f)' = First(f)
        /\ \A f, k : At(leave, f, k)' = At(leave, f, k)
    BY <2>1 DEF Valid, Records, Call, First, At
  <2>6. Stack(d)'
    BY <1>1, <2>1, <2>5 DEF Walk, Stack, Call, First
  <2>7. Clock(leave, d, c)'
    BY <1>1, <2>1, <2>5 DEF Walk, Clock
  <2>8. InFirst(leave, d, c)'
    BY <1>1, <2>1, <2>3, <2>5 DEF Walk, InFirst, First, Call
  <2>9. InSecond(leave, c)'
    BY <1>1, <2>1 DEF Walk, InSecond, First
  <2> QED
    BY <2>2, <2>4, <2>6, <2>7, <2>8, <2>9 DEF IInv, Walk
<1> QED
  BY <1>2, <1>3, <1>4, <1>5, <1>6, <1>7 DEF Next

\* When the loops are done, every function has been left.
LEMMA Done == ASSUME IInv PROVE RangesNest /\ OneFunctionPerIndex
<1> CASE phase = "done"
  <2>1. PICK leave, d, c : Typed /\ Tree(leave) /\ Walk(leave, d, c)
    BY DEF IInv
  <2>2. Left = DOMAIN order
    BY DEF Left, Opened
  <2>3. \A f, k : Seen(f, k)
    BY DEF Seen
  <2>4. \A f \in DOMAIN order : order[f].last = leave[f]
    BY <2>1 DEF Walk, InSecond
  <2>5. Finished(leave)
    BY <2>1, <2>2, <2>3, <2>4 DEF Finished
  <2> QED
    BY <2>5, RangesFollow
<1> CASE phase # "done"
  BY DEF RangesNest, OneFunctionPerIndex
<1> QED
  OBVIOUS

\* The inductive invariant of the two loops of CGFilter::CGFilter: the ranges
\* computed so far are times at which the walks entered and left the functions,
\* and those on the iterator's stack are entered and not left yet.
THEOREM Inductive == Spec => [](IInv /\ M \in Modules)
<1>1. Init => IInv /\ M \in Modules
  BY Starts DEF Init
<1>2. IInv /\ M \in Modules /\ [Next]_vars => (IInv /\ M \in Modules)'
  <2> SUFFICES ASSUME IInv, M \in Modules, [Next]_vars PROVE IInv' /\ M' \in Modules
    OBVIOUS
  <2>1. M' = M
    BY DEF Next, vars, Begin, Descend, Skip, Leave, EndLoop, Enter
  <2> QED
    BY <2>1, Steps
<1> QED
  BY <1>1, <1>2, PTL DEF Spec

\* TypeOK, for every module: what CGFilter holds belongs to the module, and when
\* the constructor is done the number of every instruction main reaches is in
\* the range of its function (CGFilter.h:27), the ranges nest as the calls do
\* that entered the functions, and no other two overlap.
THEOREM TypeCorrect == Spec => []TypeOK
<1>1. IInv /\ M \in Modules => TypeOK
  BY Done DEF IInv, Typed, TypeOK
<1> QED
  BY <1>1, Inductive, PTL

\* What CGFilter.cpp:140 asserts, for every module: two instructions to which
\* indexof gives the same number are instructions of one function.
THEOREM NumbersAreOwn == Spec => []OneFunctionPerIndex
<1>1. IInv => OneFunctionPerIndex
  BY Done
<1> QED
  BY <1>1, Inductive, PTL

-----------------------------------------------------------------------------
(* The order of instructions.  After n steps the walk of OrderIsWalk has   *)
(* entered the functions whose time has come and come upon the             *)
(* instructions whose number is not above the clock, in the order of       *)
(* judgeIns (WalkInv).                                                     *)

\* A walk of n steps from s.
Stepwise(w, m, n, s) ==
    /\ w = [k \in 0..n |-> w[k]] /\ w[0] = s
    /\ \A k \in 1..n : w[k] = WalkOn(m, w[k - 1])

\* There is a walk of any length.
LEMMA StepwiseExists ==
    ASSUME NEW m, NEW N \in Nat, NEW s
    PROVE  \E w : Stepwise(w, m, N, s)
<1> DEFINE Bad == {n \in Nat : ~\E w : Stepwise(w, m, n, s)}
<1> SUFFICES ASSUME Bad # {} PROVE FALSE
  OBVIOUS
<1>1. PICK n \in Bad : \A k \in Bad : n <= k
  BY Least
<1>2. n # 0
  <2> DEFINE w == [k \in 0..0 |-> s]
  <2>1. Stepwise(w, m, 0, s)
    BY DEF Stepwise
  <2> QED
    BY <2>1
<1>3. n \in Nat /\ n - 1 \in Nat /\ n - 1 \notin Bad
  BY <1>1, <1>2
<1>4. PICK w : Stepwise(w, m, n - 1, s)
  BY <1>3
<1> DEFINE v == [k \in 0..n |-> IF k = n THEN WalkOn(m, w[n - 1]) ELSE w[k]]
<1>5. Stepwise(v, m, n, s)
  <2>1. v = [k \in 0..n |-> v[k]] /\ v[0] = s
    BY <1>2, <1>3, <1>4 DEF Stepwise
  <2>2. ASSUME NEW k \in 1..n PROVE v[k] = WalkOn(m, v[k - 1])
    <3>1. v[k - 1] = w[k - 1] /\ k - 1 \in 0..(n - 1)
      BY <1>3
    <3>2. CASE k = n
      BY <1>3, <3>1, <3>2
    <3>3. CASE k # n
      <4>1. k \in 1..(n - 1) /\ v[k] = w[k]
        BY <1>3, <3>3
      <4> QED
        BY <1>4, <3>1, <4>1 DEF Stepwise
    <3> QED
      BY <3>2, <3>3
  <2> HIDE DEF v
  <2> QED
    BY <2>1, <2>2 DEF Stepwise
<1> QED
  BY <1>1, <1>5

\* WalkOrder is what a walk of WalkLength steps comes upon.
LEMMA WalkIs ==
    ASSUME NEW m, WalkLength(m) \in Nat
    PROVE  \E w : Stepwise(w, m, WalkLength(m), WalkStart) /\ WalkOrder(m) = w[WalkLength(m)].upon
<1> DEFINE N == WalkLength(m)
           Next1(u) == [n \in 0..N |-> IF n = 0 THEN WalkStart ELSE WalkOn(m, u[n - 1])]
           w == CHOOSE u : u = Next1(u)
<1>1. WalkOrder(m) = w[N].upon
  BY DEF WalkOrder
<1> HIDE DEF N
<1>2. PICK v : Stepwise(v, m, N, WalkStart)
  BY StepwiseExists DEF N
<1>3. v = Next1(v)
  <2>1. v = [n \in 0..N |-> v[n]]
    BY <1>2 DEF Stepwise
  <2>2. ASSUME NEW n \in 0..N
        PROVE  v[n] = IF n = 0 THEN WalkStart ELSE WalkOn(m, v[n - 1])
    <3>1. n = 0 \/ n \in 1..N
      BY DEF N
    <3> QED
      BY <1>2, <3>1 DEF Stepwise
  <2> QED
    BY <2>1, <2>2
<1>4. w = Next1(w)
  <2> HIDE DEF Next1
  <2> QED
    BY <1>3
<1>5. Stepwise(w, m, N, WalkStart)
  <2> HIDE DEF w
  <2>1. N \in Nat
    BY DEF N
  <2>2. w = [n \in 0..N |-> w[n]] /\ w[0] = WalkStart
    BY <1>4, <2>1
  <2>3. ASSUME NEW n \in 1..N PROVE w[n] = WalkOn(m, w[n - 1])
    <3>1. n \in 0..N /\ n # 0
      BY <2>1
    <3> QED
      BY <1>4, <3>1
  <2> QED
    BY <2>2, <2>3 DEF Stepwise
<1> QED
  BY <1>1, <1>5 DEF N

\* Where the walk is at instruction k of f, the next record is l.
Comes(f, k, l) ==
    /\ l \in 1..(Len(M.calls[f]) + 1)
    /\ \A n \in DOMAIN M.calls[f] : n < l <=> Call(f, n).site[2] < k

\* At the first instruction of a function no record has come yet.
LEMMA ComesStart ==
    ASSUME WellFormed(M), NEW f \in M.fns
    PROVE  Comes(f, 1, 1)
<1>1. /\ Len(M.calls[f]) \in Nat /\ DOMAIN M.calls[f] = 1..Len(M.calls[f])
      /\ \A n \in DOMAIN M.calls[f] : Call(f, n).site \in Ins(M) /\ Call(f, n).site[1] = f
  BY GraphFacts
<1>2. ASSUME NEW n \in DOMAIN M.calls[f] PROVE Call(f, n).site[2] \in 1..M.size[f]
  BY <1>1 DEF Ins
<1>3. M.size[f] \in Nat
  BY DEF WellFormed
<1> QED
  BY <1>1, <1>2, <1>3 DEF Comes

\* Behind an instruction that calls nothing it is the same,
LEMMA ComesPast ==
    ASSUME WellFormed(M), NEW f \in M.fns, NEW k \in Nat, NEW l, Comes(f, k, l),
           \A n \in DOMAIN M.calls[f] : Call(f, n).site # <<f, k>>
    PROVE  Comes(f, k + 1, l)
<1>1. ASSUME NEW n \in DOMAIN M.calls[f] PROVE Call(f, n).site[2] \in Nat /\ Call(f, n).site[2] # k
  <2>1. Call(f, n).site \in Ins(M) /\ Call(f, n).site[1] = f /\ Call(f, n).site[2] \in Nat
    BY GraphFacts
  <2>2. Call(f, n).site = <<Call(f, n).site[1], Call(f, n).site[2]>>
    BY <2>1 DEF Ins
  <2> QED
    BY <2>1, <2>2
<1> QED
  BY <1>1 DEF Comes

\* behind a call it is the one behind that of the call,
LEMMA ComesBehind ==
    ASSUME WellFormed(M), NEW f \in M.fns, NEW k \in Nat, NEW l, Comes(f, k, l),
           NEW n \in DOMAIN M.calls[f], Call(f, n).site = <<f, k>>
    PROVE  n = l /\ Comes(f, k + 1, l + 1)
<1>1. /\ Len(M.calls[f]) \in Nat /\ DOMAIN M.calls[f] = 1..Len(M.calls[f])
      /\ \A j \in DOMAIN M.calls[f] : Call(f, j).site[2] \in Nat
      /\ \A i1, j \in DOMAIN M.calls[f] : i1 < j => Less(Call(f, i1).site, Call(f, j).site)
  BY GraphFacts
<1>2. Call(f, n).site[2] = k
  OBVIOUS
<1>3. \A i1, j \in DOMAIN M.calls[f] : i1 < j => Call(f, i1).site[2] < Call(f, j).site[2]
  BY <1>1 DEF Less
<1>4. l \in 1..(Len(M.calls[f]) + 1) /\ \A j \in DOMAIN M.calls[f] : j < l <=> Call(f, j).site[2] < k
  BY DEF Comes
<1>5. n = l
  <2>1. ~(n < l)
    BY <1>2, <1>4
  <2>2. ~(l < n)
    <3> SUFFICES ASSUME l < n PROVE FALSE
      OBVIOUS
    <3>1. l \in DOMAIN M.calls[f] /\ ~(l < l)
      BY <1>1, <1>4
    <3>2. Call(f, l).site[2] < k
      BY <1>2, <1>3, <3>1
    <3> QED
      BY <1>4, <3>1, <3>2
  <2> QED
    BY <1>1, <1>4, <2>1, <2>2
<1>6. ASSUME NEW j \in DOMAIN M.calls[f] PROVE j < l + 1 <=> Call(f, j).site[2] < k + 1
  <2>1. j \in Nat /\ l \in Nat /\ Call(f, j).site[2] \in Nat
    BY <1>1, <1>4
  <2>2. CASE j < l
    BY <1>4, <2>1, <2>2
  <2>3. CASE j = l
    BY <1>2, <1>5, <2>1, <2>3
  <2>4. CASE l < j
    BY <1>2, <1>3, <1>5, <2>1, <2>4
  <2> QED
    BY <2>1, <2>2, <2>3, <2>4
<1>7. l + 1 \in 1..(Len(M.calls[f]) + 1)
  BY <1>1, <1>4, <1>5
<1> QED
  BY <1>5, <1>6, <1>7 DEF Comes

\* and behind the last instruction there is none.
LEMMA ComesEnd ==
    ASSUME WellFormed(M), NEW f \in M.fns, NEW l, Comes(f, M.size[f] + 1, l)
    PROVE  l = Len(M.calls[f]) + 1
<1>1. /\ Len(M.calls[f]) \in Nat /\ DOMAIN M.calls[f] = 1..Len(M.calls[f])
      /\ \A n \in DOMAIN M.calls[f] : Call(f, n).site \in Ins(M) /\ Call(f, n).site[1] = f
  BY GraphFacts
<1>2. ASSUME NEW n \in DOMAIN M.calls[f] PROVE Call(f, n).site[2] \in 1..M.size[f]
  BY <1>1 DEF Ins
<1>3. M.size[f] \in Nat
  BY DEF WellFormed
<1>4. \A n \in DOMAIN M.calls[f] : n < l
  <2>1. \A n \in DOMAIN M.calls[f] : Call(f, n).site[2] < M.size[f] + 1
    BY <1>2, <1>3
  <2> QED
    BY <2>1 DEF Comes
<1> QED
  BY <1>1, <1>4 DEF Comes

\* What is known when both loops are done, and how large a module is.
Ended(leave) ==
    /\ Finished(leave) /\ phase = "done"
    /\ Main \in DOMAIN order /\ First(Main) = 0 /\ \A f \in DOMAIN order : First(f) <= leave[Main]
    /\ IsFiniteSet(M.fns) /\ IsFiniteSet(Ins(M)) /\ 2 * Cardinality(M.fns) <= UINT_MAX

\* All that is needed of times.
LEMMA TickFacts ==
    ASSUME NEW leave, Ended(leave)
    PROVE  /\ WellFormed(M) /\ DOMAIN order \subseteq M.fns
           /\ \A f \in DOMAIN order : First(f) \in Nat /\ leave[f] \in Nat /\ First(f) < leave[f]
           /\ \A f, g \in DOMAIN order : (First(f) = First(g) => f = g) /\ First(f) # leave[g]
           /\ \A f \in DOMAIN order : \A k \in Nat : At(leave, f, k) \in Nat
           /\ \A f \in DOMAIN order : leave[f] = At(leave, f, Len(M.calls[f]) + 1) + 1
           /\ \A f \in DOMAIN order : order[f].last = leave[f]
<1>1. WellFormed(M) /\ DOMAIN order \subseteq M.fns
  BY DEF Ended, Finished, Typed
<1>2. \A f \in DOMAIN order : First(f) \in Nat /\ leave[f] \in Nat /\ First(f) < leave[f]
  BY <1>1 DEF Ended, Finished, Typed, Tree, Ticks, Times, First
<1>3. \A f, g \in DOMAIN order : (First(f) = First(g) => f = g) /\ First(f) # leave[g]
  BY DEF Ended, Finished, Tree, Ticks
<1>4. ASSUME NEW f \in DOMAIN order, NEW k \in Nat PROVE At(leave, f, k) \in Nat
  <2>1. At(leave, f, k) \in First(f)..(leave[f] - 1)
    BY AtInside DEF Ended
  <2> QED
    BY <1>2, <2>1
<1>5. \A f \in DOMAIN order : leave[f] = At(leave, f, Len(M.calls[f]) + 1) + 1
  <2> TAKE f \in DOMAIN order
  <2>1. Len(M.calls[f]) + 1 \in Nat /\ f \in Left
    BY <1>1, GraphFacts DEF Ended, Finished
  <2> QED
    BY <2>1 DEF Ended, Finished, Tree, Times
<1>6. \A f \in DOMAIN order : order[f].last = leave[f]
  BY DEF Ended, Finished
<1> QED
  BY <1>1, <1>2, <1>3, <1>4, <1>5, <1>6

\* A call leads to a function that was entered before, or enters it next.
LEMMA CallTicks ==
    ASSUME NEW leave, Ended(leave), NEW f \in DOMAIN order, NEW l \in DOMAIN M.calls[f],
           Call(f, l).node \in M.fns
    PROVE  /\ l \in Nat /\ Call(f, l).node \in DOMAIN order
           /\ IF l \in Valid(f) THEN First(Call(f, l).node) = At(leave, f, l) + 1
              ELSE First(Call(f, l).node) <= At(leave, f, l)
<1>1. l \in Nat
  <2>1. f \in M.fns /\ WellFormed(M)
    BY TickFacts
  <2>2. DOMAIN M.calls[f] = 1..Len(M.calls[f])
    BY <2>1, GraphFacts
  <2> QED
    BY <2>2
<1> QED
  BY <1>1 DEF Ended, Finished, Tree, Times

\* The functions entered up to a time, and up to the next.
LEMMA NextTick ==
    ASSUME NEW leave, Ended(leave), NEW c \in Nat
    PROVE  /\ \A g \in DOMAIN order : First(g) = c + 1 =>
                  {f \in DOMAIN order : First(f) <= c + 1} = {f \in DOMAIN order : First(f) <= c} \cup {g}
           /\ \A g \in DOMAIN order : leave[g] = c + 1 =>
                  {f \in DOMAIN order : First(f) <= c + 1} = {f \in DOMAIN order : First(f) <= c}
<1>1. \A f \in DOMAIN order : First(f) \in Nat
  BY TickFacts
<1>2. \A f, g \in DOMAIN order : (First(f) = First(g) => f = g) /\ First(f) # leave[g]
  BY TickFacts
<1>3. \A f \in DOMAIN order : First(f) <= c + 1 <=> First(f) <= c \/ First(f) = c + 1
  BY <1>1
<1>4. ASSUME NEW g \in DOMAIN order, First(g) = c + 1
      PROVE {f \in DOMAIN order : First(f) <= c + 1} = {f \in DOMAIN order : First(f) <= c} \cup {g}
  BY <1>2, <1>3, <1>4
<1>5. ASSUME NEW g \in DOMAIN order, leave[g] = c + 1
      PROVE {f \in DOMAIN order : First(f) <= c + 1} = {f \in DOMAIN order : First(f) <= c}
  BY <1>2, <1>3, <1>5
<1> QED
  BY <1>4, <1>5

\* The number of an instruction is the time when the walk comes to it.
LEMMA IndexAt ==
    ASSUME NEW leave, Ended(leave), NEW f \in DOMAIN order, NEW k \in Nat, <<f, k>> \in Ins(M),
           NEW l, Comes(f, k, l)
    PROVE  indexof(<<f, k>>) = At(leave, f, l)
<1> DEFINE x == <<f, k>>
           n == Len(M.calls[f])
           B == {j \in Valid(f) : x = Call(f, j).site \/ Less(x, Call(f, j).site)}
<1>1. f \in M.fns /\ WellFormed(M) /\ Finished(leave)
  BY TickFacts DEF Ended
<1>2. Records(M, f) = M.calls[f] /\ n \in Nat /\ DOMAIN M.calls[f] = 1..n
  BY <1>1, GraphFacts
<1>3. Valid(f) \subseteq Nat /\ Valid(f) \subseteq 1..n
  BY <1>1, ValidFacts
<1>4. indexof(x) = IF M.calls[f] = <<>> THEN First(f)
                   ELSE IF B = {} THEN order[f].last - 1
                   ELSE First(Call(f, Min(B)).node) - 1
  BY <1>1, <1>2 DEF indexof, First, Call
<1>5. \A j \in Valid(f) : First(Call(f, j).node) = At(leave, f, j) + 1
  <2>1. \A j \in Valid(f) : j \in DOMAIN M.calls[f] /\ Call(f, j).node \in M.fns
    BY <1>1, ValidFacts
  <2> QED
    BY <2>1, CallTicks
<1>6. l \in 1..(n + 1) /\ \A j \in 1..n : j < l <=> Call(f, j).site[2] < k
  BY <1>2 DEF Comes
<1>7. B = {j \in Valid(f) : l <= j}
  <2>1. ASSUME NEW j \in Valid(f)
        PROVE  (x = Call(f, j).site \/ Less(x, Call(f, j).site)) <=> l <= j
    <3>1. j \in DOMAIN M.calls[f] /\ j \in 1..n
      BY <1>2, <1>3
    <3>2. Call(f, j).site[1] = f /\ Call(f, j).site \in Ins(M) /\ Call(f, j).site[2] \in Nat
      BY <1>1, <3>1, GraphFacts
    <3>3. Call(f, j).site = <<f, Call(f, j).site[2]>>
      BY <3>2 DEF Ins
    <3>4. (x = Call(f, j).site \/ Less(x, Call(f, j).site)) <=> k <= Call(f, j).site[2]
      BY <3>2, <3>3 DEF Less
    <3> QED
      BY <1>2, <1>6, <3>1, <3>2, <3>4
  <2> QED
    BY <2>1
<1>8. \A j \in Nat : At(leave, f, j) \in Nat
  BY TickFacts
<1>9. ASSUME NEW m \in Nat, {j \in Valid(f) : j < m} = {j \in Valid(f) : j < l}
      PROVE  At(leave, f, m) = At(leave, f, l)
  BY <1>9 DEF At
<1> HIDE DEF B
<1>10. CASE M.calls[f] = <<>>
  <2>1. n = 0 /\ l = 1
    BY <1>2, <1>6, <1>10
  <2> QED
    BY <1>1, <1>4, <1>10, <2>1, AtFirst
<1>11. CASE M.calls[f] # <<>> /\ B = {}
  <2>1. {j \in Valid(f) : j < n + 1} = {j \in Valid(f) : j < l}
    BY <1>2, <1>3, <1>6, <1>7, <1>11
  <2>2. n + 1 \in Nat /\ order[f].last = At(leave, f, n + 1) + 1
    <3>1. n + 1 \in Nat
      BY <1>2
    <3>2. leave[f] = At(leave, f, n + 1) + 1
      BY TickFacts
    <3>3. order[f].last = leave[f]
      BY TickFacts
    <3> QED
      BY <3>1, <3>2, <3>3
  <2>3. At(leave, f, n + 1) = At(leave, f, l)
    BY <1>9, <2>1, <2>2
  <2>4. At(leave, f, l) \in Nat
    BY <1>6, <1>8
  <2>5. order[f].last - 1 = At(leave, f, l)
    BY <2>2, <2>3, <2>4
  <2> QED
    BY <1>4, <1>11, <2>5
<1>12. CASE M.calls[f] # <<>> /\ B # {}
  <2>1. B \in SUBSET Nat
    BY <1>3, <1>7
  <2>2. PICK m \in B : m = Min(B) /\ \A j \in B : m <= j
    BY <1>12, <2>1, MinFacts
  <2>3. m \in Valid(f) /\ m \in Nat /\ l <= m
    BY <1>3, <1>7
  <2>4. {j \in Valid(f) : j < m} = {j \in Valid(f) : j < l}
    <3> SUFFICES ASSUME NEW j \in Valid(f) PROVE j < m <=> j < l
      OBVIOUS
    <3>1. j \in Nat /\ m \in Nat /\ l \in Nat /\ l <= m
      BY <1>2, <1>3, <1>6, <2>3
    <3>2. l <= j => m <= j
      BY <1>7, <2>2
    <3> QED
      BY <3>1, <3>2
  <2>5. At(leave, f, m) = At(leave, f, l) /\ First(Call(f, m).node) = At(leave, f, m) + 1 /\ At(leave, f, m) \in Nat
    BY <1>5, <1>8, <1>9, <2>3, <2>4
  <2>6. First(Call(f, m).node) - 1 = At(leave, f, l)
    BY <2>5
  <2> QED
    BY <1>4, <1>12, <2>2, <2>6
<1> QED
  BY <1>10, <1>11, <1>12

WalkPlaces == (DOMAIN order) \X (Nat \ {0})

\* The functions the walk is in are entered one along a call of the other.
Frames(a) ==
    /\ a \in Seq(WalkPlaces) /\ (a # <<>> => a[1][1] = Main)
    /\ \A p \in DOMAIN a : a[p][2] <= M.size[a[p][1]] + 1
    /\ \A p, q \in DOMAIN a : p < q => First(a[p][1]) < First(a[q][1])
    /\ \A p \in DOMAIN a : p + 1 \in DOMAIN a =>
          \E l \in Valid(a[p][1]) : Comes(a[p][1], a[p][2], l + 1) /\ Call(a[p][1], l).node = a[p + 1][1]

\* The instructions the walk has come upon, if it has entered these functions.
Passed(a, entered) ==
    {x \in Ins(M) : x[1] \in entered /\ \A p \in DOMAIN a : a[p][1] = x[1] => x[2] < a[p][2]}

\* a without its top, with another top.
TopIs(a, y)  == Append(Front(a), y)

\* Sequences without their last element,
LEMMA FrontFacts ==
    ASSUME NEW S, NEW a \in Seq(S), a # <<>>
    PROVE  /\ Len(a) \in Nat \ {0} /\ DOMAIN a = 1..Len(a)
           /\ Front(a) \in Seq(S) /\ Len(Front(a)) = Len(a) - 1
           /\ \A p \in 1..(Len(a) - 1) : Front(a)[p] = a[p]
<1>1. Len(a) \in Nat /\ Len(a) > 0 /\ DOMAIN a = 1..Len(a)
  OBVIOUS
<1>2. PICK L \in Nat : L = Len(a) /\ L > 0
  BY <1>1
<1>3. \A p \in 1..(L - 1) : p \in 1..L
  BY <1>2
<1>4. Front(a) = [p \in 1..(L - 1) |-> a[p]]
  BY <1>2 DEF Front
<1>5. \A p \in 1..(L - 1) : a[p] \in S
  BY <1>2, <1>3
<1>6. Front(a) \in [1..(L - 1) -> S] /\ L - 1 \in Nat
  BY <1>2, <1>4, <1>5
<1>7. Front(a) \in Seq(S) /\ Len(Front(a)) = L - 1
  BY <1>6
<1> QED
  BY <1>1, <1>2, <1>4, <1>7

\* their elements,
LEMMA SeqFacts ==
    ASSUME NEW S, NEW a \in Seq(S)
    PROVE  Len(a) \in Nat /\ DOMAIN a = 1..Len(a) /\ \A p \in DOMAIN a : a[p] \in S
OBVIOUS

\* The places where the walk goes on.
LEMMA PlaceFacts ==
    ASSUME NEW y \in WalkPlaces
    PROVE  y = <<y[1], y[2]>> /\ y[1] \in DOMAIN order /\ y[2] \in Nat \ {0}
BY DEF WalkPlaces

LEMMA PlaceIs ==
    ASSUME NEW f \in DOMAIN order, NEW k \in Nat \ {0}
    PROVE  <<f, k>> \in WalkPlaces /\ <<f, k>>[1] = f /\ <<f, k>>[2] = k
BY DEF WalkPlaces

\* with one more,
LEMMA AppendFacts ==
    ASSUME NEW S, NEW a \in Seq(S), NEW y \in S
    PROVE  /\ Append(a, y) \in Seq(S) /\ Len(Append(a, y)) = Len(a) + 1 /\ Append(a, y) # <<>>
           /\ DOMAIN Append(a, y) = 1..(Len(a) + 1)
           /\ Append(a, y)[Len(a) + 1] = y /\ \A p \in 1..Len(a) : Append(a, y)[p] = a[p]
OBVIOUS

\* and with another one in its place.
LEMMA TopFactsIs ==
    ASSUME NEW S, NEW a \in Seq(S), a # <<>>, NEW y \in S
    PROVE  /\ TopIs(a, y) \in Seq(S) /\ Len(TopIs(a, y)) = Len(a) /\ TopIs(a, y) # <<>>
           /\ DOMAIN TopIs(a, y) = 1..Len(a)
           /\ TopIs(a, y)[Len(a)] = y /\ \A p \in 1..(Len(a) - 1) : TopIs(a, y)[p] = a[p]
<1>1. /\ Len(a) \in Nat \ {0} /\ Front(a) \in Seq(S) /\ Len(Front(a)) = Len(a) - 1
      /\ \A p \in 1..(Len(a) - 1) : Front(a)[p] = a[p]
  BY FrontFacts
<1>2. Len(Front(a)) + 1 = Len(a)
  BY <1>1
<1> QED
  BY <1>1, <1>2, AppendFacts DEF TopIs

\* A frame is a function with the place the walk goes on at.
LEMMA FrameFacts ==
    ASSUME WellFormed(M), DOMAIN order \subseteq M.fns, NEW a, Frames(a)
    PROVE  /\ Len(a) \in Nat /\ DOMAIN a = 1..Len(a)
           /\ \A p \in DOMAIN a : /\ a[p] = <<a[p][1], a[p][2]>> /\ a[p][1] \in DOMAIN order
                                  /\ a[p][1] \in M.fns /\ a[p][2] \in Nat \ {0}
                                  /\ M.size[a[p][1]] \in Nat
<1> DEFINE S == WalkPlaces
<1>1. a \in Seq(S)
  BY DEF Frames
<1>2. Len(a) \in Nat /\ DOMAIN a = 1..Len(a) /\ \A p \in DOMAIN a : a[p] \in S
  <2> HIDE DEF S
  <2> QED
    BY <1>1, SeqFacts
<1>3. \A f \in M.fns : M.size[f] \in Nat
  BY DEF WellFormed
<1>4. \A p \in DOMAIN a : a[p] = <<a[p][1], a[p][2]>> /\ a[p][1] \in DOMAIN order /\ a[p][2] \in Nat \ {0}
  BY <1>2, PlaceFacts
<1> QED
  BY <1>2, <1>3, <1>4

\* The walk leaves a function,
LEMMA FramesPop ==
    ASSUME NEW a, Frames(a), a # <<>>
    PROVE  Frames(Front(a))
<1> DEFINE S == WalkPlaces
           b == Front(a)
           n == Len(a) - 1
<1>1. a \in Seq(S)
  BY DEF Frames
<1> HIDE DEF S
<1>2. /\ n \in Nat /\ DOMAIN a = 1..(n + 1) /\ b \in Seq(S) /\ Len(b) = n /\ \A p \in 1..n : b[p] = a[p]
  BY <1>1, FrontFacts
<1>3. DOMAIN b = 1..n
  BY <1>2
<1> HIDE DEF b, n
<1>4. b # <<>> => b[1][1] = Main
  <2> SUFFICES ASSUME b # <<>> PROVE b[1][1] = Main
    OBVIOUS
  <2>1. n > 0
    BY <1>2
  <2> QED
    BY <1>2, <2>1 DEF Frames
<1>5. \A p \in DOMAIN b : p \in DOMAIN a /\ b[p] = a[p] /\ p + 1 \in DOMAIN a
  BY <1>2, <1>3
<1>6. \A p \in DOMAIN b : b[p][2] <= M.size[b[p][1]] + 1
  BY <1>5 DEF Frames
<1>7. \A p, q \in DOMAIN b : p < q => First(b[p][1]) < First(b[q][1])
  BY <1>5 DEF Frames
<1>8. \A p \in DOMAIN b : p + 1 \in DOMAIN b =>
          \E l \in Valid(b[p][1]) : Comes(b[p][1], b[p][2], l + 1) /\ Call(b[p][1], l).node = b[p + 1][1]
  BY <1>5 DEF Frames
<1> QED
  BY <1>2, <1>4, <1>6, <1>7, <1>8 DEF Frames, b, S

\* goes on in one,
LEMMA FramesMove ==
    ASSUME NEW a, Frames(a), a # <<>>, NEW f \in DOMAIN order, NEW k \in Nat \ {0},
           a[Len(a)] = <<f, k>>, M.size[f] \in Nat, k <= M.size[f]
    PROVE  Frames(TopIs(a, <<f, k + 1>>))
<1> DEFINE S == WalkPlaces
           y == <<f, k + 1>>
           b == TopIs(a, y)
           n == Len(a)
<1>1. a \in Seq(S) /\ y \in S /\ y[1] = f /\ y[2] = k + 1
  <2>1. a \in Seq(S)
    BY DEF Frames
  <2>2. k + 1 \in Nat \ {0}
    OBVIOUS
  <2> QED
    BY <2>1, <2>2, PlaceIs
<1>2. n \in Nat \ {0} /\ DOMAIN a = 1..n
  <2> HIDE DEF S
  <2> QED
    BY <1>1, FrontFacts
<1>3. /\ b \in Seq(S) /\ DOMAIN b = 1..n /\ b # <<>> /\ b[n] = y /\ \A p \in 1..(n - 1) : b[p] = a[p]
  <2> HIDE DEF S, y
  <2> QED
    BY <1>1, TopFactsIs
<1>4. a[n][1] = f
  OBVIOUS
<1> HIDE DEF S, b, n, y
<1>5. \A p \in DOMAIN b : p \in DOMAIN a /\ b[p][1] = a[p][1] /\ (p + 1 \in DOMAIN b => p + 1 \in DOMAIN a /\ b[p] = a[p])
  <2> TAKE p \in DOMAIN b
  <2>1. p = n \/ p \in 1..(n - 1)
    BY <1>2, <1>3
  <2> QED
    BY <1>1, <1>2, <1>3, <1>4, <2>1
<1>6. \A p \in DOMAIN b : b[p][2] <= M.size[b[p][1]] + 1
  <2> TAKE p \in DOMAIN b
  <2>1. p = n \/ p \in 1..(n - 1)
    BY <1>2, <1>3
  <2>2. CASE p = n
    BY <1>1, <1>3, <2>2
  <2>3. CASE p \in 1..(n - 1)
    BY <1>3, <1>5, <2>3 DEF Frames
  <2> QED
    BY <2>1, <2>2, <2>3
<1>7. \A p, q \in DOMAIN b : p < q => First(b[p][1]) < First(b[q][1])
  BY <1>5 DEF Frames
<1>8. \A p \in DOMAIN b : p + 1 \in DOMAIN b =>
          \E l \in Valid(b[p][1]) : Comes(b[p][1], b[p][2], l + 1) /\ Call(b[p][1], l).node = b[p + 1][1]
  BY <1>5 DEF Frames
<1>9. b[1][1] = Main
  <2>1. 1 \in DOMAIN b /\ a # <<>>
    BY <1>2, <1>3
  <2> QED
    BY <1>5, <2>1 DEF Frames
<1> QED
  BY <1>3, <1>6, <1>7, <1>8, <1>9 DEF Frames, b, S, y

\* and enters another.
LEMMA FramesPush ==
    ASSUME NEW a, Frames(a), a # <<>>, NEW f \in DOMAIN order, NEW k,
           a[Len(a)] = <<f, k>>, NEW l \in Valid(f), Comes(f, k, l + 1),
           NEW g \in DOMAIN order, Call(f, l).node = g, \A h \in DOMAIN order : First(h) \in Nat,
           First(f) < First(g), M.size[g] \in Nat
    PROVE  Frames(Append(a, <<g, 1>>))
<1> DEFINE S == WalkPlaces
           y == <<g, 1>>
           b == Append(a, y)
           n == Len(a)
<1>1. a \in Seq(S) /\ y \in S /\ y[1] = g /\ y[2] = 1 /\ a[n][1] = f /\ a[n][2] = k
  <2>1. a \in Seq(S)
    BY DEF Frames
  <2>2. y \in S /\ y[1] = g /\ y[2] = 1
    <3>1. 1 \in Nat \ {0}
      OBVIOUS
    <3> QED
      BY <3>1, PlaceIs
  <2>3. a[n][1] = f /\ a[n][2] = k
    OBVIOUS
  <2> QED
    BY <2>1, <2>2, <2>3
<1>2. n \in Nat \ {0} /\ DOMAIN a = 1..n /\ \A p \in DOMAIN a : a[p][1] \in DOMAIN order
  <2>1. n \in Nat \ {0} /\ DOMAIN a = 1..n /\ \A p \in DOMAIN a : a[p] \in S
    <3> HIDE DEF S
    <3> QED
      BY <1>1, FrontFacts, SeqFacts
  <2> QED
    BY <2>1, PlaceFacts
<1>3. /\ b \in Seq(S) /\ DOMAIN b = 1..(n + 1) /\ b # <<>> /\ b[n + 1] = y /\ \A p \in 1..n : b[p] = a[p]
  <2> HIDE DEF S, y
  <2> QED
    BY <1>1, AppendFacts
<1> HIDE DEF S, b, n, y
<1>4. \A p \in DOMAIN b : p = n + 1 \/ (p \in DOMAIN a /\ b[p] = a[p] /\ p <= n)
  BY <1>2, <1>3
<1>5. \A p \in DOMAIN b : b[p][2] <= M.size[b[p][1]] + 1
  <2> TAKE p \in DOMAIN b
  <2>2. CASE p = n + 1
    BY <1>1, <1>3, <2>2
  <2>3. CASE p \in DOMAIN a /\ b[p] = a[p]
    BY <2>3 DEF Frames
  <2> QED
    BY <1>4, <2>2, <2>3
<1>6. \A p \in DOMAIN a : First(a[p][1]) < First(g)
  <2> TAKE p \in DOMAIN a
  <2>1. p = n \/ p < n
    BY <1>2
  <2>2. n \in DOMAIN a
    BY <1>2
  <2>3. p < n => First(a[p][1]) < First(f)
    BY <1>1, <2>2 DEF Frames
  <2>4. First(a[p][1]) \in Nat /\ First(f) \in Nat /\ First(g) \in Nat
    BY <1>2
  <2> QED
    BY <1>1, <2>1, <2>3, <2>4
<1>7. ASSUME NEW p \in DOMAIN b, NEW q \in DOMAIN b, p < q PROVE First(b[p][1]) < First(b[q][1])
  <2>1. p # n + 1
    BY <1>2, <1>3, <1>7
  <2>2. p \in DOMAIN a /\ b[p] = a[p]
    BY <1>4, <2>1
  <2>3. CASE q = n + 1
    BY <1>1, <1>3, <1>6, <2>2, <2>3
  <2>4. CASE q \in DOMAIN a /\ b[q] = a[q]
    BY <1>7, <2>2, <2>4 DEF Frames
  <2> QED
    BY <1>4, <2>3, <2>4
<1>8. ASSUME NEW p \in DOMAIN b, p + 1 \in DOMAIN b
      PROVE  \E j \in Valid(b[p][1]) : Comes(b[p][1], b[p][2], j + 1) /\ Call(b[p][1], j).node = b[p + 1][1]
  <2>1. p \in 1..n
    BY <1>2, <1>3, <1>8
  <2>2. p \in DOMAIN a /\ b[p] = a[p]
    BY <1>2, <1>3, <2>1
  <2>3. CASE p = n
    <3>1. b[p][1] = f /\ b[p][2] = k /\ b[p + 1][1] = g
      BY <1>1, <1>3, <2>2, <2>3
    <3> QED
      BY <3>1
  <2>4. CASE p # n
    <3>1. p + 1 \in DOMAIN a /\ b[p + 1] = a[p + 1]
      BY <1>2, <1>3, <2>1, <2>4
    <3> QED
      BY <2>2, <3>1 DEF Frames
  <2> QED
    BY <2>3, <2>4
<1>9. b[1][1] = Main
  <2>1. b[1] = a[1]
    BY <1>2, <1>3
  <2> QED
    BY <2>1 DEF Frames
<1> QED
  BY <1>3, <1>5, <1>7, <1>8, <1>9 DEF Frames, b, S, y

\* An instruction is its function and a place in it.
LEMMA InsFacts ==
    ASSUME WellFormed(M)
    PROVE  /\ \A x \in Ins(M) : x = <<x[1], x[2]>> /\ x[1] \in M.fns /\ x[2] \in Nat \ {0} /\ x[2] <= M.size[x[1]]
           /\ \A f \in M.fns, k \in Nat \ {0} : <<f, k>> \in Ins(M) <=> k <= M.size[f]
<1>1. \A f \in M.fns : M.size[f] \in Nat
  BY DEF WellFormed
<1>2. ASSUME NEW x \in Ins(M)
      PROVE x = <<x[1], x[2]>> /\ x[1] \in M.fns /\ x[2] \in Nat \ {0} /\ x[2] <= M.size[x[1]]
  <2>1. PICK f \in M.fns : x \in {f} \X (1..M.size[f])
    BY DEF Ins
  <2>2. x = <<x[1], x[2]>> /\ x[1] = f /\ x[2] \in 1..M.size[f]
    BY <2>1
  <2> QED
    BY <1>1, <2>2
<1>3. ASSUME NEW f \in M.fns, NEW k \in Nat \ {0}
      PROVE  <<f, k>> \in Ins(M) <=> k <= M.size[f]
  <2>1. ASSUME <<f, k>> \in Ins(M) PROVE k <= M.size[f]
    <3>1. PICK g \in M.fns : <<f, k>> \in {g} \X (1..M.size[g])
      BY <2>1 DEF Ins
    <3>2. f = g /\ k \in 1..M.size[g]
      BY <3>1
    <3> QED
      BY <1>1, <3>2
  <2>2. ASSUME k <= M.size[f] PROVE <<f, k>> \in Ins(M)
    <3>1. k \in 1..M.size[f]
      BY <1>1, <2>2
    <3>2. <<f, k>> \in {f} \X (1..M.size[f])
      BY <3>1
    <3> QED
      BY <3>2 DEF Ins
  <2> QED
    BY <2>1, <2>2
<1> QED
  BY <1>2, <1>3

\* The walk is in a function once.
LEMMA FramesDiffer ==
    ASSUME WellFormed(M), DOMAIN order \subseteq M.fns, \A f \in DOMAIN order : First(f) \in Nat,
           NEW a, Frames(a), NEW p \in DOMAIN a, NEW q \in DOMAIN a, p # q
    PROVE  a[p][1] # a[q][1]
<1>1. DOMAIN a = 1..Len(a) /\ Len(a) \in Nat /\ a[p][1] \in DOMAIN order /\ a[q][1] \in DOMAIN order
  BY FrameFacts
<1>2. p < q \/ q < p
  BY <1>1
<1>3. First(a[p][1]) < First(a[q][1]) \/ First(a[q][1]) < First(a[p][1])
  BY <1>2 DEF Frames
<1> QED
  BY <1>1, <1>3

\* Leaving a function passes nothing, ...
LEMMA PassedPop ==
    ASSUME WellFormed(M), DOMAIN order \subseteq M.fns, \A f \in DOMAIN order : First(f) \in Nat,
           NEW a, Frames(a), a # <<>>, NEW E, a[Len(a)][2] > M.size[a[Len(a)][1]]
    PROVE  Passed(Front(a), E) = Passed(a, E)
<1> DEFINE n == Len(a)
           b == Front(a)
<1>1. /\ n \in Nat \ {0} /\ DOMAIN a = 1..n
      /\ \A p \in DOMAIN a : a[p][1] \in M.fns /\ a[p][2] \in Nat /\ M.size[a[p][1]] \in Nat
  <2>1. a \in Seq(WalkPlaces)
    BY DEF Frames
  <2> QED
    BY <2>1, FrontFacts, FrameFacts
<1>2. DOMAIN b = 1..(n - 1) /\ \A p \in 1..(n - 1) : b[p] = a[p]
  <2>1. a \in Seq(WalkPlaces)
    BY DEF Frames
  <2>2. b \in Seq(WalkPlaces) /\ Len(b) = n - 1 /\ \A p \in 1..(n - 1) : b[p] = a[p]
    BY <2>1, FrontFacts
  <2> QED
    BY <2>2, SeqFacts
<1>3. a[n][2] > M.size[a[n][1]]
  OBVIOUS
<1> HIDE DEF n, b
<1>4. ASSUME NEW x \in Ins(M)
      PROVE  (\A p \in DOMAIN a : a[p][1] = x[1] => x[2] < a[p][2])
             <=> (\A p \in DOMAIN b : b[p][1] = x[1] => x[2] < b[p][2])
  <2>1. x[2] \in Nat /\ x[2] <= M.size[x[1]]
    BY InsFacts
  <2>2. n \in DOMAIN a /\ (a[n][1] = x[1] => x[2] < a[n][2])
    BY <1>1, <1>3, <2>1
  <2>3. \A p \in DOMAIN a : p = n \/ p \in DOMAIN b
    BY <1>1, <1>2
  <2>4. \A p \in DOMAIN b : p \in DOMAIN a /\ b[p] = a[p]
    BY <1>1, <1>2
  <2> QED
    BY <2>2, <2>3, <2>4
<1> QED
  BY <1>4 DEF Passed, b

\* going on passes one instruction, the last so far of its function, ...
LEMMA PassedMove ==
    ASSUME WellFormed(M), DOMAIN order \subseteq M.fns, \A f \in DOMAIN order : First(f) \in Nat,
           NEW a, Frames(a), a # <<>>, NEW E, NEW f \in E, NEW k \in Nat \ {0},
           a[Len(a)] = <<f, k>>, <<f, k>> \in Ins(M)
    PROVE  /\ Passed(TopIs(a, <<f, k + 1>>), E) = Passed(a, E) \cup {<<f, k>>}
           /\ \A x \in Passed(a, E) : x[1] = f => x[2] < k
<1> DEFINE n == Len(a)
           y == <<f, k + 1>>
           b == TopIs(a, y)
<1>1. /\ n \in Nat \ {0} /\ DOMAIN a = 1..n /\ a[n][1] = f /\ a[n][2] = k
      /\ \A p \in DOMAIN a : a[p][1] \in DOMAIN order
  <2>1. a \in Seq(WalkPlaces)
    BY DEF Frames
  <2> QED
    BY <2>1, FrontFacts, FrameFacts
<1>2. DOMAIN b = 1..n /\ \A p \in 1..(n - 1) : b[p] = a[p]
  <2>1. a \in Seq(WalkPlaces)
    BY DEF Frames
  <2>2. y \in WalkPlaces
    <3>1. k + 1 \in Nat \ {0} /\ f \in DOMAIN order
      BY <1>1
    <3> QED
      BY <3>1, PlaceIs
  <2> HIDE DEF y
  <2> QED
    BY <2>1, <2>2, TopFactsIs
<1>3. b[n] = y /\ y[1] = f /\ y[2] = k + 1
  <2>1. a \in Seq(WalkPlaces) /\ y[1] = f /\ y[2] = k + 1
    BY DEF Frames
  <2>2. y \in WalkPlaces
    <3>1. k + 1 \in Nat \ {0} /\ f \in DOMAIN order
      BY <1>1
    <3> QED
      BY <3>1, PlaceIs
  <2> HIDE DEF y
  <2> QED
    BY <2>1, <2>2, TopFactsIs
<1> HIDE DEF n, b, y
<1>4. \A p \in 1..(n - 1) : a[p][1] # f
  <2> TAKE p \in 1..(n - 1)
  <2>1. p \in DOMAIN a /\ n \in DOMAIN a /\ p # n
    BY <1>1
  <2> QED
    BY <1>1, <2>1, FramesDiffer
<1>5. ASSUME NEW x \in Ins(M)
      PROVE  /\ (\A p \in DOMAIN b : b[p][1] = x[1] => x[2] < b[p][2])
                <=> (\A p \in DOMAIN a : a[p][1] = x[1] => x[2] < a[p][2]) \/ x = <<f, k>>
             /\ (\A p \in DOMAIN a : a[p][1] = x[1] => x[2] < a[p][2]) => (x[1] = f => x[2] < k)
  <2>1. x = <<x[1], x[2]>> /\ x[2] \in Nat
    BY InsFacts
  <2>2. CASE x[1] = f
    <3>1. (\A p \in DOMAIN b : b[p][1] = x[1] => x[2] < b[p][2]) <=> x[2] < k + 1
      <4>1. \A p \in DOMAIN b : b[p][1] = f <=> p = n
        BY <1>1, <1>2, <1>3, <1>4
      <4>2. n \in DOMAIN b
        BY <1>1, <1>2
      <4> QED
        BY <1>3, <2>2, <4>1, <4>2
    <3>2. (\A p \in DOMAIN a : a[p][1] = x[1] => x[2] < a[p][2]) <=> x[2] < k
      <4>1. \A p \in DOMAIN a : a[p][1] = f <=> p = n
        BY <1>1, <1>4
      <4>2. n \in DOMAIN a
        BY <1>1
      <4> QED
        BY <1>1, <2>2, <4>1, <4>2
    <3>3. x = <<f, k>> <=> x[2] = k
      BY <2>1, <2>2
    <3> QED
      BY <2>1, <3>1, <3>2, <3>3
  <2>3. CASE x[1] # f
    <3>1. x # <<f, k>>
      BY <2>3
    <3>2. \A p \in 1..n : p = n \/ (p \in 1..(n - 1) /\ b[p] = a[p])
      BY <1>1, <1>2
    <3>3. \A p \in 1..n : (b[p][1] = x[1] => x[2] < b[p][2]) <=> (a[p][1] = x[1] => x[2] < a[p][2])
      BY <1>1, <1>3, <2>3, <3>2
    <3> QED
      BY <1>1, <1>2, <2>3, <3>1, <3>3
  <2> QED
    BY <2>2, <2>3
<1>6. <<f, k>>[1] = f
  OBVIOUS
<1> QED
  BY <1>5, <1>6 DEF Passed, b, y

\* and entering a function for the first time passes nothing.
LEMMA PassedPush ==
    ASSUME WellFormed(M), NEW a \in Seq(WalkPlaces), NEW E, NEW g, g \notin E, NEW y \in WalkPlaces,
           y[1] = g, y[2] = 1
    PROVE  Passed(Append(a, y), E \cup {g}) = Passed(a, E)
<1> DEFINE n == Len(a)
           b == Append(a, y)
<1>1. /\ n \in Nat /\ DOMAIN a = 1..n /\ DOMAIN b = 1..(n + 1)
      /\ b[n + 1] = y /\ \A p \in 1..n : b[p] = a[p]
  BY AppendFacts, SeqFacts
<1> HIDE DEF n, b
<1>2. ASSUME NEW x \in Ins(M), x[1] = g PROVE ~ \A p \in DOMAIN b : b[p][1] = x[1] => x[2] < b[p][2]
  <2>1. x[2] \in Nat \ {0}
    BY InsFacts
  <2>2. n + 1 \in DOMAIN b /\ b[n + 1][1] = g /\ ~ (x[2] < b[n + 1][2])
    BY <1>1, <2>1
  <2> QED
    BY <1>2, <2>2
<1>3. ASSUME NEW x \in Ins(M), x[1] # g
      PROVE  (\A p \in DOMAIN b : b[p][1] = x[1] => x[2] < b[p][2])
             <=> (\A p \in DOMAIN a : a[p][1] = x[1] => x[2] < a[p][2])
  <2>1. \A p \in DOMAIN b : p = n + 1 \/ (p \in DOMAIN a /\ b[p] = a[p])
    BY <1>1
  <2>2. \A p \in DOMAIN a : p \in DOMAIN b /\ b[p] = a[p]
    BY <1>1
  <2> QED
    BY <1>1, <1>3, <2>1, <2>2
<1> QED
  BY <1>2, <1>3 DEF Passed, b

\* What a step of the walk does: it leaves a function,
LEMMA WalkLeaves ==
    ASSUME NEW s, s.ahead # <<>>, Last(s.ahead) \notin Ins(M)
    PROVE  WalkOn(M, s) = [s EXCEPT !.ahead = Front(s.ahead)]
BY DEF WalkOn

\* The calls of functions not entered yet at f's instruction k.
NewCalls(f, k, E) == {r \in Range(M.calls[f]) : r.site = <<f, k>> /\ r.node \in M.fns \ E}

\* or goes on in it,
LEMMA WalkGoesOn ==
    ASSUME NEW s, s.ahead # <<>>, NEW f, NEW k, Last(s.ahead) = <<f, k>>, <<f, k>> \in Ins(M),
           NewCalls(f, k, s.entered) = {}
    PROVE  WalkOn(M, s) = [s EXCEPT !.ahead = TopIs(s.ahead, <<f, k + 1>>), !.upon = Append(s.upon, <<f, k>>)]
<1>1. <<f, k>>[1] = f /\ <<f, k>>[2] = k
  OBVIOUS
<1> QED
  BY <1>1 DEF WalkOn, NewCalls, TopIs

\* or enters another.
LEMMA WalkEnters ==
    ASSUME NEW s, s.ahead # <<>>, NEW f, NEW k, Last(s.ahead) = <<f, k>>, <<f, k>> \in Ins(M),
           NewCalls(f, k, s.entered) # {}
    PROVE  \E r \in NewCalls(f, k, s.entered) :
             WalkOn(M, s) = [ahead   |-> Append(TopIs(s.ahead, <<f, k + 1>>), <<r.node, 1>>),
                             entered |-> s.entered \cup {r.node},
                             upon    |-> Append(s.upon, <<f, k>>)]
<1>1. <<f, k>>[1] = f /\ <<f, k>>[2] = k
  OBVIOUS
<1> DEFINE r == CHOOSE q \in NewCalls(f, k, s.entered) : TRUE
<1>2. r \in NewCalls(f, k, s.entered)
  OBVIOUS
<1>3. WalkOn(M, s) = [ahead   |-> Append(TopIs(s.ahead, <<f, k + 1>>), <<r.node, 1>>),
                      entered |-> s.entered \cup {r.node},
                      upon    |-> Append(s.upon, <<f, k>>)]
  BY <1>1 DEF WalkOn, NewCalls, TopIs
<1> QED
  BY <1>2, <1>3

\* The instructions come upon are in the order of their numbers, up to c.
Ordered(u, c) ==
    /\ u \in Seq(Ins(M))
    /\ \A j \in DOMAIN u : indexof(u[j]) \in Nat /\ indexof(u[j]) <= c
    /\ \A j, m \in DOMAIN u : j < m => judgeIns(u[j], u[m])

\* The next has the greatest number so far, or is in the function that has it.
LEMMA OrderedGrows ==
    ASSUME NEW leave, Ended(leave), NEW u, NEW c \in Nat, Ordered(u, c),
           NEW x \in Ins(M), indexof(x) = c, x[1] \in DOMAIN order,
           \A y \in Range(u) : y[1] \in DOMAIN order /\ (y[1] = x[1] => y[2] < x[2])
    PROVE  Ordered(Append(u, x), c) /\ Range(Append(u, x)) = Range(u) \cup {x}
<1> DEFINE v == Append(u, x)
           n == Len(u)
<1>1. /\ n \in Nat /\ DOMAIN u = 1..n /\ DOMAIN v = 1..(n + 1) /\ v \in Seq(Ins(M))
      /\ v[n + 1] = x /\ \A p \in 1..n : v[p] = u[p] /\ u[p] \in Ins(M)
  <2>1. u \in Seq(Ins(M))
    BY DEF Ordered
  <2> QED
    BY <2>1, AppendFacts, SeqFacts
<1> HIDE DEF v, n
<1>2. \A j \in 1..n : indexof(u[j]) \in Nat /\ indexof(u[j]) <= c
  BY <1>1 DEF Ordered
<1>3. ASSUME NEW j \in 1..n PROVE judgeIns(u[j], x)
  <2>1. u[j] \in Range(u)
    BY <1>1 DEF Range
  <2>2. u[j] \in Reached /\ x \in Reached
    BY <1>1, <2>1 DEF Reached
  <2>3. indexof(u[j]) = indexof(x) => u[j][1] = x[1]
    BY <2>2, RangesFollow DEF Ended, OneFunctionPerIndex
  <2>4. indexof(u[j]) = indexof(x) => Less(u[j], x)
    BY <2>1, <2>3 DEF Less
  <2>5. indexof(u[j]) # indexof(x) => indexof(u[j]) < indexof(x)
    BY <1>2
  <2> QED
    BY <2>4, <2>5 DEF judgeIns
<1>4. ASSUME NEW j \in DOMAIN v, NEW m \in DOMAIN v, j < m PROVE judgeIns(v[j], v[m])
  <2>1. j \in 1..n /\ v[j] = u[j]
    BY <1>1, <1>4
  <2>2. CASE m = n + 1
    BY <1>1, <1>3, <2>1, <2>2
  <2>3. CASE m # n + 1
    <3>1. m \in 1..n /\ v[m] = u[m]
      BY <1>1, <2>3
    <3> QED
      BY <1>1, <1>4, <2>1, <3>1 DEF Ordered
  <2> QED
    BY <2>2, <2>3
<1>5. \A j \in DOMAIN v : j = n + 1 \/ (j \in 1..n /\ v[j] = u[j])
  BY <1>1
<1>6. \A j \in DOMAIN v : indexof(v[j]) \in Nat /\ indexof(v[j]) <= c
  BY <1>1, <1>2, <1>5
<1>7. Range(v) = Range(u) \cup {x}
  <2>1. n + 1 \in DOMAIN v /\ \A j \in 1..n : j \in DOMAIN v
    BY <1>1
  <2> QED
    BY <1>1, <1>5, <2>1 DEF Range
<1> QED
  BY <1>1, <1>4, <1>6, <1>7 DEF Ordered, v

\* The clock ticks.
LEMMA OrderedLater ==
    ASSUME NEW u, NEW c \in Nat, Ordered(u, c)
    PROVE  Ordered(u, c + 1)
<1>1. \A j \in DOMAIN u : indexof(u[j]) \in Nat /\ indexof(u[j]) <= c + 1
  BY DEF Ordered
<1> QED
  BY <1>1 DEF Ordered

\* At the end all numbers are in order, and no instruction came twice.
LEMMA OrderedOnce ==
    ASSUME NEW u, NEW c, Ordered(u, c), IsFiniteSet(Ins(M)), WellFormed(M)
    PROVE  /\ Len(u) \in Nat /\ DOMAIN u = 1..Len(u) /\ Len(u) <= Cardinality(Ins(M))
           /\ \A j, m \in DOMAIN u : u[j] = u[m] => j = m
<1>1. Len(u) \in Nat /\ DOMAIN u = 1..Len(u) /\ \A p \in DOMAIN u : u[p] \in Ins(M)
  <2>1. u \in Seq(Ins(M))
    BY DEF Ordered
  <2> QED
    BY <2>1, SeqFacts
<1>2. \A x \in Ins(M) : ~judgeIns(x, x)
  <2> TAKE x \in Ins(M)
  <2>1. x[2] \in Nat
    BY InsFacts
  <2> QED
    BY <2>1 DEF judgeIns, Less
<1>3. ASSUME NEW j \in DOMAIN u, NEW m \in DOMAIN u, u[j] = u[m] PROVE j = m
  <2>1. ~(j < m) /\ ~(m < j)
    BY <1>1, <1>2, <1>3 DEF Ordered
  <2> QED
    BY <1>1, <2>1
<1>4. u \in Injection(1..Len(u), Ins(M))
  <2>1. u \in [1..Len(u) -> Ins(M)]
    <3>1. u \in Seq(Ins(M))
      BY DEF Ordered
    <3> QED
      BY <3>1
  <2> QED
    BY <1>1, <1>3, <2>1 DEF Injection, IsInjective
<1>5. Cardinality(1..Len(u)) = Len(u)
  BY <1>1, FS_Interval
<1>6. Cardinality(1..Len(u)) <= Cardinality(Ins(M))
  BY <1>4, FS_Injection
<1> QED
  BY <1>1, <1>3, <1>5, <1>6

\* The clock stands at c when the walk is at the top of a.
OnTop(leave, a, c) ==
    IF a = <<>> THEN c = leave[Main]
    ELSE \E l : Comes(a[Len(a)][1], a[Len(a)][2], l) /\ c = At(leave, a[Len(a)][1], l)

\* The walk after n steps, at time c: it has entered the functions whose time
\* has come, and come upon the instructions whose number is not above the clock.
\* Each step is an instruction come upon or a function left, each tick of the
\* clock a function entered or left.
WalkInv(leave, s, n, c) ==
    /\ s = [ahead |-> s.ahead, entered |-> s.entered, upon |-> s.upon]
    /\ Frames(s.ahead) /\ c \in Nat /\ OnTop(leave, s.ahead, c)
    /\ s.entered = {f \in DOMAIN order : First(f) <= c}
    /\ Range(s.upon) = Passed(s.ahead, s.entered) /\ Ordered(s.upon, c)
    /\ c = 2 * Cardinality(s.entered) - Len(s.ahead) - 1
    /\ s.ahead # <<>> => n = Len(s.upon) + Cardinality(s.entered) - Len(s.ahead)

\* The walk begins in main at time 0.
LEMMA WalkBegins ==
    ASSUME NEW leave, Ended(leave)
    PROVE  WalkInv(leave, WalkStart, 0, 0)
<1> DEFINE s == WalkStart
           a == <<<<Main, 1>>>>
<1>1. s.ahead = a /\ s.entered = {Main} /\ s.upon = <<>>
      /\ s = [ahead |-> s.ahead, entered |-> s.entered, upon |-> s.upon]
  BY DEF WalkStart
<1>2. WellFormed(M) /\ DOMAIN order \subseteq M.fns /\ Main \in DOMAIN order /\ First(Main) = 0
      /\ \A f \in DOMAIN order : First(f) \in Nat
  BY TickFacts DEF Ended
<1>3. M.size[Main] \in Nat /\ 1 \in Nat \ {0}
  BY <1>2 DEF WellFormed
<1>4. a \in Seq(WalkPlaces) /\ Len(a) = 1 /\ a # <<>> /\ DOMAIN a = {1} /\ a[1] = <<Main, 1>>
      /\ a[1][1] = Main /\ a[1][2] = 1
  <2> DEFINE y == <<Main, 1>>
  <2>1. y \in WalkPlaces /\ y[1] = Main /\ y[2] = 1
    BY <1>2, <1>3, PlaceIs
  <2> HIDE DEF y
  <2>2. <<y>> \in Seq(WalkPlaces) /\ Len(<<y>>) = 1 /\ <<y>> # <<>> /\ DOMAIN <<y>> = {1} /\ <<y>>[1] = y
    BY <2>1
  <2> QED
    BY <2>1, <2>2 DEF y
<1> HIDE DEF a
<1>5. Frames(a)
  BY <1>3, <1>4 DEF Frames
<1>6. OnTop(leave, a, 0)
  <2>1. Comes(Main, 1, 1) /\ At(leave, Main, 1) = 0
    BY <1>2, ComesStart, AtFirst
  <2> QED
    BY <1>4, <2>1 DEF OnTop
<1>7. {Main} = {f \in DOMAIN order : First(f) <= 0}
  <2>1. \A f \in DOMAIN order : First(f) = First(Main) => f = Main
    BY <1>2, TickFacts
  <2> QED
    BY <1>2, <2>1
<1>8. Range(<<>>) = {} /\ Ordered(<<>>, 0)
  BY DEF Range, Ordered
<1>9. Passed(a, {Main}) = {}
  <2> SUFFICES ASSUME NEW x \in Passed(a, {Main}) PROVE FALSE
    OBVIOUS
  <2>1. x \in Ins(M) /\ x[1] = Main /\ x[2] < 1
    BY <1>4 DEF Passed
  <2>2. x[2] \in Nat \ {0}
    BY <1>2, <2>1, InsFacts
  <2> QED
    BY <2>1, <2>2
<1>10. Cardinality({Main}) = 1 /\ Len(<<>>) = 0
  BY FS_Singleton
<1>11. 0 = 2 * Cardinality({Main}) - Len(a) - 1 /\ 0 = Len(<<>>) + Cardinality({Main}) - Len(a)
  BY <1>4, <1>10
<1> HIDE DEF s
<1>12. 0 \in Nat /\ s.ahead = a /\ s.entered = {Main} /\ s.upon = <<>>
  BY <1>1
<1>13. WalkInv(leave, s, 0, 0)
  <2>1. Frames(s.ahead) /\ 0 \in Nat /\ OnTop(leave, s.ahead, 0)
    BY <1>5, <1>6, <1>12
  <2>2. s.entered = {f \in DOMAIN order : First(f) <= 0}
    BY <1>7, <1>12
  <2>3. Range(s.upon) = Passed(s.ahead, s.entered) /\ Ordered(s.upon, 0)
    BY <1>8, <1>9, <1>12
  <2>4. 0 = 2 * Cardinality(s.entered) - Len(s.ahead) - 1
    BY <1>11, <1>12
  <2>5. 0 = Len(s.upon) + Cardinality(s.entered) - Len(s.ahead)
    BY <1>11, <1>12
  <2> QED
    BY <1>1, <2>1, <2>2, <2>3, <2>4, <2>5, Zenon DEF WalkInv
<1> QED
  BY <1>13 DEF s

\* What WalkInv says of the top.
LEMMA WalkTop ==
    ASSUME NEW leave, Ended(leave), NEW s, NEW n, NEW c, WalkInv(leave, s, n, c), s.ahead # <<>>
    PROVE  \E f \in DOMAIN order, k \in Nat \ {0}, l \in Nat \ {0} :
             /\ s.ahead[Len(s.ahead)] = <<f, k>> /\ Last(s.ahead) = <<f, k>>
             /\ k <= M.size[f] + 1 /\ M.size[f] \in Nat /\ f \in M.fns /\ WellFormed(M)
             /\ Comes(f, k, l) /\ c = At(leave, f, l) /\ f \in s.entered
             /\ Len(s.ahead) \in Nat \ {0} /\ s.ahead \in Seq(WalkPlaces)
<1> DEFINE a == s.ahead
           L == Len(a)
           f == a[L][1]
           k == a[L][2]
<1>1. WellFormed(M) /\ DOMAIN order \subseteq M.fns
  BY TickFacts
<1>2. Frames(a) /\ OnTop(leave, a, c) /\ c \in Nat /\ s.entered = {g \in DOMAIN order : First(g) <= c}
  BY DEF WalkInv
<1>3. a \in Seq(WalkPlaces) /\ L \in Nat \ {0} /\ L \in DOMAIN a
  <2>1. a \in Seq(WalkPlaces)
    BY <1>2 DEF Frames
  <2>2. L \in Nat \ {0} /\ DOMAIN a = 1..L
    BY <2>1, FrontFacts
  <2> QED
    BY <2>1, <2>2
<1>4. a[L] = <<f, k>> /\ f \in DOMAIN order /\ f \in M.fns /\ k \in Nat \ {0} /\ M.size[f] \in Nat
  BY <1>1, <1>2, <1>3, FrameFacts
<1>5. k <= M.size[f] + 1
  BY <1>2, <1>3 DEF Frames
<1>6. PICK l : Comes(f, k, l) /\ c = At(leave, f, l)
  BY <1>2 DEF OnTop
<1>7. l \in Nat \ {0}
  BY <1>1, <1>4, <1>6, GraphFacts DEF Comes
<1>8. First(f) <= c
  <2>1. At(leave, f, l) \in First(f)..(leave[f] - 1)
    BY <1>4, <1>7, AtInside DEF Ended
  <2>2. First(f) \in Nat
    BY <1>4, TickFacts
  <2> QED
    BY <1>6, <2>1, <2>2
<1>9. Last(a) = a[L]
  BY DEF Last
<1> HIDE DEF L, f, k
<1> QED
  BY <1>1, <1>2, <1>3, <1>4, <1>5, <1>6, <1>7, <1>8, <1>9 DEF L

LEMMA EmptySeq == ASSUME NEW S, NEW a \in Seq(S) PROVE Len(a) \in Nat /\ (Len(a) = 0 => a = <<>>)
OBVIOUS

\* The functions entered can be counted.
LEMMA EnteredFacts ==
    ASSUME NEW leave, Ended(leave), NEW s, NEW n, NEW c, WalkInv(leave, s, n, c)
    PROVE  /\ IsFiniteSet(s.entered) /\ Cardinality(s.entered) \in Nat
           /\ Cardinality(s.entered) <= Cardinality(M.fns) /\ Cardinality(M.fns) \in Nat
           /\ Len(s.upon) \in Nat /\ Len(s.ahead) \in Nat
<1>1. s.entered \subseteq M.fns
  BY TickFacts DEF WalkInv
<1>2. IsFiniteSet(M.fns)
  BY DEF Ended
<1>3. s.upon \in Seq(Ins(M)) /\ s.ahead \in Seq(WalkPlaces)
  BY DEF WalkInv, Ordered, Frames
<1> QED
  BY <1>1, <1>2, <1>3, FS_Subset, FS_CardinalityType, SeqFacts

\* The walk leaves a function as the clock ticks,
LEMMA StepLeaves ==
    ASSUME NEW leave, Ended(leave), NEW s, NEW n \in Nat, NEW c, WalkInv(leave, s, n, c),
           s.ahead # <<>>, Last(s.ahead) \notin Ins(M)
    PROVE  WalkInv(leave, WalkOn(M, s), n + 1, c + 1)
<1> DEFINE a == s.ahead
           b == Front(a)
           t == WalkOn(M, s)
<1>1. PICK f \in DOMAIN order, k \in Nat \ {0}, l \in Nat \ {0} :
             /\ s.ahead[Len(s.ahead)] = <<f, k>> /\ Last(s.ahead) = <<f, k>>
             /\ k <= M.size[f] + 1 /\ M.size[f] \in Nat /\ f \in M.fns /\ WellFormed(M)
             /\ Comes(f, k, l) /\ c = At(leave, f, l) /\ f \in s.entered
             /\ Len(s.ahead) \in Nat \ {0} /\ s.ahead \in Seq(WalkPlaces)
  BY WalkTop
<1>2. t.ahead = b /\ t.entered = s.entered /\ t.upon = s.upon
      /\ t = [ahead |-> t.ahead, entered |-> t.entered, upon |-> t.upon]
  <2>1. t = [s EXCEPT !.ahead = b]
    BY WalkLeaves
  <2>2. s = [ahead |-> s.ahead, entered |-> s.entered, upon |-> s.upon]
    BY DEF WalkInv
  <2> HIDE DEF t
  <2> QED
    BY <2>1, <2>2
<1> HIDE DEF t
<1>3. k = M.size[f] + 1
  BY <1>1, InsFacts
<1>4. l = Len(M.calls[f]) + 1
  BY <1>1, <1>3, ComesEnd
<1>5. leave[f] = c + 1 /\ c \in Nat /\ c + 1 \in Nat
  <2>1. leave[f] = At(leave, f, l) + 1
    BY <1>4, TickFacts
  <2>2. c \in Nat
    BY DEF WalkInv
  <2> QED
    BY <1>1, <2>1, <2>2
<1>6. s.entered = {g \in DOMAIN order : First(g) <= c + 1}
  <2>1. s.entered = {g \in DOMAIN order : First(g) <= c}
    BY DEF WalkInv
  <2>2. {g \in DOMAIN order : First(g) <= c + 1} = {g \in DOMAIN order : First(g) <= c}
    BY <1>5, NextTick
  <2> QED
    BY <2>1, <2>2
<1>7. Frames(a) /\ Frames(b)
  BY FramesPop DEF WalkInv
<1>8. /\ Len(b) = Len(a) - 1 /\ b \in Seq(WalkPlaces) /\ \A p \in 1..(Len(a) - 1) : b[p] = a[p]
      /\ DOMAIN a = 1..Len(a) /\ Len(a) \in Nat \ {0}
  BY <1>1, FrontFacts
<1> HIDE DEF b
<1>9. OnTop(leave, b, c + 1)
  <2>1. CASE b = <<>>
    <3>1. Len(a) = 1
      BY <1>8, <2>1
    <3>2. a[1][1] = Main /\ a[1][1] = f
      BY <1>1, <1>7, <3>1 DEF Frames
    <3> QED
      BY <1>5, <2>1, <3>2 DEF OnTop
  <2>2. CASE b # <<>>
    <3> DEFINE q == Len(a) - 1
    <3>1. q \in Nat \ {0} /\ q + 1 = Len(a)
      <4>1. Len(b) \in Nat /\ Len(b) # 0
        BY <1>8, <2>2, EmptySeq
      <4>2. Len(a) \in Nat /\ Len(b) = Len(a) - 1
        BY <1>8
      <4> QED
        BY <4>1, <4>2
    <3>2. q \in DOMAIN a /\ q + 1 \in DOMAIN a /\ Len(b) = q /\ b[q] = a[q]
      <4>1. \A Q \in Nat \ {0} : Q \in 1..Q /\ Q \in 1..(Q + 1) /\ Q + 1 \in 1..(Q + 1)
        OBVIOUS
      <4> QED
        BY <1>8, <3>1, <4>1
    <3>3. a[q + 1][1] = f
      BY <1>1, <3>1
    <3> HIDE DEF q
    <3>4. PICK m \in Valid(a[q][1]) : Comes(a[q][1], a[q][2], m + 1) /\ Call(a[q][1], m).node = f
      BY <1>7, <3>2, <3>3 DEF Frames
    <3>5. a[q][1] \in M.fns
      BY <1>1, <1>7, <3>2, FrameFacts, TickFacts
    <3>6. At(leave, a[q][1], m + 1) = leave[f]
      BY <1>1, <3>4, <3>5, AtEntered
    <3> QED
      BY <1>5, <2>2, <3>2, <3>4, <3>6 DEF OnTop
  <2> QED
    BY <2>1, <2>2
<1>10. Passed(b, s.entered) = Passed(a, s.entered)
  <2>1. a[Len(a)][2] > M.size[a[Len(a)][1]]
    BY <1>1, <1>3
  <2> QED
    BY <1>1, <1>7, <2>1, PassedPop, TickFacts DEF b
<1>11. Ordered(s.upon, c + 1)
  BY <1>5, OrderedLater DEF WalkInv
<1>12. c + 1 = 2 * Cardinality(s.entered) - Len(b) - 1
       /\ (b # <<>> => n + 1 = Len(s.upon) + Cardinality(s.entered) - Len(b))
  <2>1. c = 2 * Cardinality(s.entered) - Len(a) - 1 /\ n = Len(s.upon) + Cardinality(s.entered) - Len(a)
    BY DEF WalkInv
  <2>2. Cardinality(s.entered) \in Nat /\ Len(s.upon) \in Nat
    BY EnteredFacts
  <2>3. PICK N \in Nat, L \in Nat, U \in Nat : N = Cardinality(s.entered) /\ L = Len(a) /\ U = Len(s.upon)
    BY <1>8, <2>2
  <2>4. Len(b) = L - 1 /\ c = 2 * N - L - 1 /\ n = U + N - L
    BY <1>8, <2>1, <2>3
  <2>5. c + 1 = 2 * N - (L - 1) - 1 /\ n + 1 = U + N - (L - 1)
    BY <1>5, <2>4
  <2> QED
    BY <2>3, <2>4, <2>5
<1>13. Range(s.upon) = Passed(a, s.entered)
  BY DEF WalkInv
<1>14. WalkInv(leave, t, n + 1, c + 1)
  BY <1>2, <1>5, <1>6, <1>7, <1>9, <1>10, <1>11, <1>12, <1>13 DEF WalkInv
<1> QED
  BY <1>14 DEF t

\* With b and u the walk has come upon one instruction more than in s, and goes
\* on at y.
WentUpon(s, c, b, u, y) ==
    /\ Frames(b) /\ b \in Seq(WalkPlaces) /\ Len(b) = Len(s.ahead) /\ b # <<>> /\ b[Len(b)] = y
    /\ Ordered(u, c) /\ Range(u) = Passed(b, s.entered) /\ Len(u) = Len(s.upon) + 1

\* With another place on top, the walk is as deep as before.
LEMMA TopOfWalk ==
    ASSUME NEW a \in Seq(WalkPlaces), a # <<>>, NEW y \in WalkPlaces
    PROVE  /\ TopIs(a, y) \in Seq(WalkPlaces) /\ Len(TopIs(a, y)) = Len(a) /\ TopIs(a, y) # <<>>
           /\ TopIs(a, y)[Len(a)] = y
BY TopFactsIs

\* The instruction the walk comes upon is the next in the order.
LEMMA ComesUpon ==
    ASSUME NEW leave, Ended(leave), NEW s, NEW n, NEW c, WalkInv(leave, s, n, c),
           s.ahead # <<>>, NEW f \in DOMAIN order, NEW k \in Nat \ {0}, s.ahead[Len(s.ahead)] = <<f, k>>,
           <<f, k>> \in Ins(M), f \in s.entered, NEW l, Comes(f, k, l), c = At(leave, f, l)
    PROVE  WentUpon(s, c, TopIs(s.ahead, <<f, k + 1>>), Append(s.upon, <<f, k>>), <<f, k + 1>>)
<1> DEFINE a == s.ahead
           y == <<f, k + 1>>
           b == TopIs(a, y)
           x == <<f, k>>
           u == Append(s.upon, x)
<1>1. WellFormed(M) /\ DOMAIN order \subseteq M.fns /\ \A g \in DOMAIN order : First(g) \in Nat
  BY TickFacts
<1>2. Frames(a) /\ c \in Nat /\ Ordered(s.upon, c) /\ Range(s.upon) = Passed(a, s.entered)
      /\ s.entered \subseteq DOMAIN order
  BY DEF WalkInv
<1>3. k <= M.size[f] /\ M.size[f] \in Nat
  BY <1>1, InsFacts DEF WellFormed
<1>4. Frames(b)
  BY <1>2, <1>3, FramesMove
<1>5. b \in Seq(WalkPlaces) /\ Len(b) = Len(a) /\ b # <<>> /\ b[Len(a)] = y
  <2>1. y \in WalkPlaces
    <3>1. k + 1 \in Nat \ {0}
      OBVIOUS
    <3> QED
      BY <3>1, PlaceIs
  <2>2. a \in Seq(WalkPlaces)
    BY <1>2 DEF Frames
  <2> HIDE DEF y
  <2> QED
    BY <2>1, <2>2, TopOfWalk
<1>6. Passed(b, s.entered) = Passed(a, s.entered) \cup {x}
      /\ \A z \in Passed(a, s.entered) : z[1] = f => z[2] < k
  BY <1>1, <1>2, PassedMove
<1>7. indexof(x) = c
  BY IndexAt
<1>8. x[1] = f /\ x[2] = k
  OBVIOUS
<1> HIDE DEF x
<1>9. \A z \in Range(s.upon) : z[1] \in DOMAIN order /\ (z[1] = x[1] => z[2] < x[2])
  BY <1>2, <1>6, <1>8 DEF Passed
<1>10. x \in Ins(M)
  BY DEF x
<1>11. Ordered(u, c) /\ Range(u) = Range(s.upon) \cup {x}
  BY <1>2, <1>7, <1>8, <1>9, <1>10, OrderedGrows
<1>12. Len(u) = Len(s.upon) + 1
  <2>1. s.upon \in Seq(Ins(M))
    BY <1>2 DEF Ordered
  <2> QED
    BY <1>10, <2>1, AppendFacts
<1>13. Range(u) = Passed(b, s.entered)
  BY <1>2, <1>6, <1>11
<1> HIDE DEF b, y, u
<1>14. WentUpon(s, c, b, u, y)
  BY <1>4, <1>5, <1>11, <1>12, <1>13 DEF WentUpon, a
<1> QED
  BY <1>14 DEF b, y, u, x, a

\* comes upon an instruction and goes on behind it at the same time,
LEMMA StepGoesOn ==
    ASSUME NEW leave, Ended(leave), NEW s, NEW n \in Nat, NEW c, WalkInv(leave, s, n, c),
           s.ahead # <<>>, NEW f \in DOMAIN order, NEW k \in Nat \ {0}, NEW l \in Nat \ {0},
           s.ahead[Len(s.ahead)] = <<f, k>>, Last(s.ahead) = <<f, k>>,
           <<f, k>> \in Ins(M), f \in s.entered, Comes(f, k, l), c = At(leave, f, l),
           NewCalls(f, k, s.entered) = {}
    PROVE  WalkInv(leave, WalkOn(M, s), n + 1, c)
<1> DEFINE b == TopIs(s.ahead, <<f, k + 1>>)
           u == Append(s.upon, <<f, k>>)
           t == WalkOn(M, s)
<1>1. t.ahead = b /\ t.entered = s.entered /\ t.upon = u
      /\ t = [ahead |-> t.ahead, entered |-> t.entered, upon |-> t.upon]
  <2>1. t = [s EXCEPT !.ahead = b, !.upon = u]
    BY WalkGoesOn
  <2>2. s = [ahead |-> s.ahead, entered |-> s.entered, upon |-> s.upon]
    BY DEF WalkInv
  <2> HIDE DEF t, b, u
  <2> QED
    BY <2>1, <2>2
<1>2. /\ Frames(b) /\ b \in Seq(WalkPlaces) /\ Len(b) = Len(s.ahead) /\ b # <<>>
      /\ b[Len(b)] = <<f, k + 1>>
      /\ Ordered(u, c) /\ Range(u) = Passed(b, s.entered) /\ Len(u) = Len(s.upon) + 1
  <2>1. WentUpon(s, c, b, u, <<f, k + 1>>)
    BY ComesUpon
  <2> HIDE DEF b, u
  <2> QED
    BY <2>1 DEF WentUpon
<1> HIDE DEF t, b, u
<1>3. WellFormed(M) /\ f \in M.fns
  BY TickFacts
<1>4. \E m : Comes(f, k + 1, m) /\ c = At(leave, f, m)
  <2>1. CASE \A j \in DOMAIN M.calls[f] : Call(f, j).site # <<f, k>>
    <3>1. Comes(f, k + 1, l)
      BY <1>3, <2>1, ComesPast
    <3> QED
      BY <3>1
  <2>2. ASSUME NEW j \in DOMAIN M.calls[f], Call(f, j).site = <<f, k>>
        PROVE  \E m : Comes(f, k + 1, m) /\ c = At(leave, f, m)
    <3>1. j = l /\ Comes(f, k + 1, l + 1)
      BY <1>3, <2>2, ComesBehind
    <3>2. l \notin Valid(f)
      <4> SUFFICES ASSUME l \in Valid(f) PROVE FALSE
        OBVIOUS
      <4>1. Call(f, l).node \in M.fns
        BY <1>3, ValidFacts
      <4>2. First(Call(f, l).node) = c + 1 /\ Call(f, l).node \in DOMAIN order
        BY <3>1, <4>1, CallTicks
      <4>3. Call(f, l).node \in s.entered
        <5>1. Call(f, l) \in Range(M.calls[f])
          BY <3>1 DEF Range, Call
        <5> QED
          BY <2>2, <3>1, <4>1, <5>1 DEF NewCalls
      <4>4. First(Call(f, l).node) <= c /\ c \in Nat
        BY <4>3 DEF WalkInv
      <4> QED
        BY <4>2, <4>4
    <3>3. At(leave, f, l + 1) = At(leave, f, l)
      BY <1>3, <3>2, AtPassed
    <3> QED
      BY <3>1, <3>3
  <2> QED
    BY <2>1, <2>2
<1>5. OnTop(leave, b, c)
  <2>1. b[Len(b)][1] = f /\ b[Len(b)][2] = k + 1
    BY <1>2
  <2> QED
    BY <1>2, <1>4, <2>1 DEF OnTop
<1>6. c = 2 * Cardinality(s.entered) - Len(b) - 1 /\ n + 1 = Len(u) + Cardinality(s.entered) - Len(b)
  <2>1. c = 2 * Cardinality(s.entered) - Len(s.ahead) - 1
        /\ n = Len(s.upon) + Cardinality(s.entered) - Len(s.ahead)
    BY DEF WalkInv
  <2>2. Cardinality(s.entered) \in Nat /\ Len(s.upon) \in Nat /\ Len(s.ahead) \in Nat
    BY EnteredFacts
  <2>3. PICK N \in Nat, L \in Nat, U \in Nat :
            N = Cardinality(s.entered) /\ L = Len(s.ahead) /\ U = Len(s.upon)
    BY <2>2
  <2>4. Len(b) = L /\ Len(u) = U + 1 /\ c = 2 * N - L - 1 /\ n = U + N - L
    BY <1>2, <2>1, <2>3
  <2>5. n + 1 = U + 1 + N - L
    BY <2>4
  <2> QED
    BY <2>3, <2>4, <2>5
<1>7. c \in Nat /\ s.entered = {g \in DOMAIN order : First(g) <= c}
  BY DEF WalkInv
<1>8. WalkInv(leave, t, n + 1, c)
  BY <1>1, <1>2, <1>5, <1>6, <1>7 DEF WalkInv
<1> QED
  BY <1>8 DEF t

\* A set with one element more.
LEMMA OneMore ==
    ASSUME NEW S, IsFiniteSet(S), NEW e, e \notin S
    PROVE  Cardinality(S \cup {e}) = Cardinality(S) + 1
BY FS_AddElement

\* or goes on in the function called there, as the clock ticks.
LEMMA StepEnters ==
    ASSUME NEW leave, Ended(leave), NEW s, NEW n \in Nat, NEW c, WalkInv(leave, s, n, c),
           s.ahead # <<>>, NEW f \in DOMAIN order, NEW k \in Nat \ {0}, NEW l \in Nat \ {0},
           s.ahead[Len(s.ahead)] = <<f, k>>, Last(s.ahead) = <<f, k>>,
           <<f, k>> \in Ins(M), f \in s.entered, Comes(f, k, l), c = At(leave, f, l),
           NewCalls(f, k, s.entered) # {}
    PROVE  WalkInv(leave, WalkOn(M, s), n + 1, c + 1)
<1>1. PICK r \in NewCalls(f, k, s.entered) :
             WalkOn(M, s) = [ahead   |-> Append(TopIs(s.ahead, <<f, k + 1>>), <<r.node, 1>>),
                             entered |-> s.entered \cup {r.node},
                             upon    |-> Append(s.upon, <<f, k>>)]
  BY WalkEnters
<1> DEFINE b == TopIs(s.ahead, <<f, k + 1>>)
           u == Append(s.upon, <<f, k>>)
           t == WalkOn(M, s)
           g == r.node
           y == <<g, 1>>
           d == Append(b, y)
           E == s.entered \cup {g}
<1>2. t.ahead = d /\ t.entered = E /\ t.upon = u
      /\ t = [ahead |-> t.ahead, entered |-> t.entered, upon |-> t.upon]
  <2>1. t = [ahead |-> d, entered |-> E, upon |-> u]
    BY <1>1
  <2> HIDE DEF t, d, E, u
  <2> QED
    BY <2>1
<1>3. /\ Frames(b) /\ b \in Seq(WalkPlaces) /\ Len(b) = Len(s.ahead) /\ b # <<>>
      /\ b[Len(b)] = <<f, k + 1>>
      /\ Ordered(u, c) /\ Range(u) = Passed(b, s.entered) /\ Len(u) = Len(s.upon) + 1
  <2>1. WentUpon(s, c, b, u, <<f, k + 1>>)
    BY ComesUpon
  <2> HIDE DEF b, u
  <2> QED
    BY <2>1 DEF WentUpon
<1>4. WellFormed(M) /\ f \in M.fns /\ DOMAIN order \subseteq M.fns /\ \A h \in DOMAIN order : First(h) \in Nat
  BY TickFacts
<1>5. c \in Nat /\ s.entered = {h \in DOMAIN order : First(h) <= c}
  BY DEF WalkInv
<1>6. r \in Range(M.calls[f]) /\ r.site = <<f, k>> /\ g \in M.fns /\ g \notin s.entered
  BY DEF NewCalls
<1>7. PICK j \in DOMAIN M.calls[f] : Call(f, j) = r
  BY <1>6 DEF Range, Call
<1>8. j = l /\ Comes(f, k + 1, l + 1)
  BY <1>4, <1>6, <1>7, ComesBehind
<1> HIDE DEF t, b, u, g, E
<1>9. l \in Valid(f) /\ g \in DOMAIN order /\ First(g) = c + 1 /\ Call(f, l).node = g
  <2>1. Call(f, l).node = g
    BY <1>7, <1>8 DEF g
  <2>2. g \in DOMAIN order /\ IF l \in Valid(f) THEN First(g) = c + 1 ELSE First(g) <= c
    BY <1>6, <1>7, <1>8, <2>1, CallTicks
  <2>3. ~(First(g) <= c)
    BY <1>5, <1>6, <2>2
  <2> QED
    BY <2>1, <2>2, <2>3
<1>10. M.size[g] \in Nat /\ First(f) < First(g)
  <2>1. First(f) <= c /\ First(f) \in Nat
    BY <1>4, <1>5
  <2> QED
    BY <1>4, <1>5, <1>6, <1>9, <2>1 DEF WellFormed
<1>11. y \in WalkPlaces /\ y[1] = g /\ y[2] = 1
  <2>1. 1 \in Nat \ {0}
    OBVIOUS
  <2> QED
    BY <1>9, <2>1, PlaceIs
<1>12. Frames(d)
  <2>1. \E z : z = k + 1 /\ b[Len(b)] = <<f, z>> /\ Comes(f, z, l + 1)
    BY <1>3, <1>8
  <2> QED
    BY <1>3, <1>4, <1>9, <1>10, <2>1, FramesPush
<1> HIDE DEF y
<1>13. d \in Seq(WalkPlaces) /\ Len(d) = Len(b) + 1 /\ d # <<>> /\ d[Len(d)] = y
  BY <1>3, <1>11, AppendFacts
<1>14. OnTop(leave, d, c + 1)
  <2>1. Comes(g, 1, 1)
    BY <1>4, <1>6, ComesStart
  <2>2. At(leave, g, 1) = c + 1
    BY <1>4, <1>6, <1>9, AtFirst
  <2>3. d[Len(d)][1] = g /\ d[Len(d)][2] = 1 /\ d # <<>>
    BY <1>11, <1>13
  <2> HIDE DEF d
  <2> QED
    BY <2>1, <2>2, <2>3 DEF OnTop
<1>15. E = {h \in DOMAIN order : First(h) <= c + 1}
  <2>1. {h \in DOMAIN order : First(h) <= c + 1} = {h \in DOMAIN order : First(h) <= c} \cup {g}
    BY <1>5, <1>9, NextTick
  <2>2. E = s.entered \cup {g}
    BY DEF E
  <2> QED
    BY <1>5, <2>1, <2>2
<1>16. Passed(d, E) = Passed(b, s.entered)
  <2>1. b \in Seq(WalkPlaces) /\ WellFormed(M) /\ g \notin s.entered /\ y \in WalkPlaces /\ y[1] = g /\ y[2] = 1
    BY <1>3, <1>4, <1>6, <1>11
  <2>2. Passed(Append(b, y), s.entered \cup {g}) = Passed(b, s.entered)
    BY <2>1, PassedPush
  <2> QED
    BY <2>2 DEF E
<1>17. Ordered(u, c + 1)
  BY <1>3, <1>5, OrderedLater
<1>18. c + 1 = 2 * Cardinality(E) - Len(d) - 1 /\ n + 1 = Len(u) + Cardinality(E) - Len(d)
  <2>1. c = 2 * Cardinality(s.entered) - Len(s.ahead) - 1
        /\ n = Len(s.upon) + Cardinality(s.entered) - Len(s.ahead)
    BY DEF WalkInv
  <2>2. /\ Cardinality(s.entered) \in Nat /\ Len(s.upon) \in Nat /\ Len(s.ahead) \in Nat
        /\ IsFiniteSet(s.entered)
    BY EnteredFacts
  <2>3. Cardinality(E) = Cardinality(s.entered) + 1
    <3>1. Cardinality(s.entered \cup {g}) = Cardinality(s.entered) + 1
      <4>1. g \notin s.entered /\ IsFiniteSet(s.entered)
        BY <1>6, <2>2
      <4> QED
        BY <4>1, OneMore
    <3> QED
      BY <3>1 DEF E
  <2>4. PICK N \in Nat, L \in Nat, U \in Nat :
            N = Cardinality(s.entered) /\ L = Len(s.ahead) /\ U = Len(s.upon)
    BY <2>2
  <2>5. Len(d) = L + 1 /\ Len(u) = U + 1 /\ Cardinality(E) = N + 1
    BY <1>3, <1>13, <2>3, <2>4
  <2>6. c = 2 * N - L - 1 /\ n = U + N - L
    BY <2>1, <2>4
  <2> QED
    BY <2>5, <2>6
<1>19. c + 1 \in Nat
  BY <1>5
<1>20. WalkInv(leave, t, n + 1, c + 1)
  BY <1>2, <1>3, <1>12, <1>14, <1>15, <1>16, <1>17, <1>18, <1>19 DEF WalkInv
<1> QED
  BY <1>20 DEF t

\* Every step does one of these.
LEMMA StepWalks ==
    ASSUME NEW leave, Ended(leave), NEW s, NEW n \in Nat, NEW c, WalkInv(leave, s, n, c)
    PROVE  \E d : WalkInv(leave, WalkOn(M, s), n + 1, d)
<1>1. CASE s.ahead = <<>>
  <2>1. WalkOn(M, s) = s
    BY <1>1 DEF WalkOn
  <2>2. WalkInv(leave, s, n + 1, c)
    BY <1>1 DEF WalkInv
  <2> QED
    BY <2>1, <2>2
<1>2. CASE s.ahead # <<>> /\ Last(s.ahead) \notin Ins(M)
  BY <1>2, StepLeaves
<1>3. CASE s.ahead # <<>> /\ Last(s.ahead) \in Ins(M)
  <2>1. PICK f \in DOMAIN order, k \in Nat \ {0}, l \in Nat \ {0} :
             /\ s.ahead[Len(s.ahead)] = <<f, k>> /\ Last(s.ahead) = <<f, k>>
             /\ k <= M.size[f] + 1 /\ M.size[f] \in Nat /\ f \in M.fns /\ WellFormed(M)
             /\ Comes(f, k, l) /\ c = At(leave, f, l) /\ f \in s.entered
             /\ Len(s.ahead) \in Nat \ {0} /\ s.ahead \in Seq(WalkPlaces)
    BY <1>3, WalkTop
  <2>2. CASE NewCalls(f, k, s.entered) = {}
    BY <1>3, <2>1, <2>2, StepGoesOn
  <2>3. CASE NewCalls(f, k, s.entered) # {}
    BY <1>3, <2>1, <2>3, StepEnters
  <2> QED
    BY <2>2, <2>3
<1> QED
  BY <1>1, <1>2, <1>3

\* So the invariant holds however far the walk has gone.
LEMMA AllWalk ==
    ASSUME NEW leave, Ended(leave), NEW w, NEW N \in Nat, Stepwise(w, M, N, WalkStart)
    PROVE  \E c : WalkInv(leave, w[N], N, c)
<1> DEFINE Bad == {n \in 0..N : ~\E c : WalkInv(leave, w[n], n, c)}
<1> SUFFICES ASSUME Bad # {} PROVE FALSE
  OBVIOUS
<1>1. PICK n \in Bad : \A k \in Bad : n <= k
  <2>1. Bad \in SUBSET Nat
    OBVIOUS
  <2> HIDE DEF Bad
  <2> QED
    BY <2>1, Least
<1>2. n # 0
  <2>1. w[0] = WalkStart
    BY DEF Stepwise
  <2> QED
    BY <2>1, WalkBegins
<1>3. n \in 1..N /\ n - 1 \in Nat /\ n - 1 \in 0..N /\ n - 1 \notin Bad /\ (n - 1) + 1 = n
  BY <1>1, <1>2
<1>4. PICK c : WalkInv(leave, w[n - 1], n - 1, c)
  BY <1>3
<1>5. w[n] = WalkOn(M, w[n - 1])
  BY <1>3 DEF Stepwise
<1>6. \E d : WalkInv(leave, w[n], n, d)
  <2>1. \E d : WalkInv(leave, WalkOn(M, w[n - 1]), (n - 1) + 1, d)
    BY <1>3, <1>4, StepWalks
  <2> QED
    BY <1>3, <1>5, <2>1
<1> QED
  BY <1>1, <1>6

\* After as many steps as WalkOrder makes the walk is back from main.
LEMMA WalkEnds ==
    ASSUME NEW leave, Ended(leave), NEW s, NEW c, WalkInv(leave, s, WalkLength(M), c)
    PROVE  s.ahead = <<>>
<1> SUFFICES ASSUME s.ahead # <<>> PROVE FALSE
  OBVIOUS
<1>1. WellFormed(M) /\ IsFiniteSet(Ins(M))
  BY TickFacts DEF Ended
<1>2. WalkLength(M) = Len(s.upon) + Cardinality(s.entered) - Len(s.ahead) /\ Ordered(s.upon, c)
      /\ s.ahead \in Seq(WalkPlaces)
  BY DEF WalkInv, Frames
<1>3. Len(s.upon) \in Nat /\ Len(s.upon) <= Cardinality(Ins(M)) /\ Cardinality(Ins(M)) \in Nat
  BY <1>1, <1>2, OrderedOnce, FS_CardinalityType
<1>4. /\ Cardinality(s.entered) \in Nat /\ Cardinality(s.entered) <= Cardinality(M.fns)
      /\ Cardinality(M.fns) \in Nat
  BY EnteredFacts
<1>5. Len(s.ahead) \in Nat /\ Len(s.ahead) # 0
  BY <1>2, EmptySeq
<1>6. WalkLength(M) = Cardinality(Ins(M)) + Cardinality(M.fns)
  BY DEF WalkLength
<1> QED
  BY <1>2, <1>3, <1>4, <1>5, <1>6

\* Then it has come upon all that main reaches.
LEMMA WalkedAll ==
    ASSUME NEW leave, Ended(leave), NEW s, NEW n, NEW c, WalkInv(leave, s, n, c), s.ahead = <<>>
    PROVE  /\ Range(s.upon) = Reached /\ Ordered(s.upon, c)
           /\ c \in Nat /\ c < UINT_MAX
<1>1. c = leave[Main] /\ s.entered = {f \in DOMAIN order : First(f) <= c} /\ c \in Nat
      /\ Range(s.upon) = Passed(s.ahead, s.entered) /\ Ordered(s.upon, c)
      /\ c = 2 * Cardinality(s.entered) - Len(s.ahead) - 1
  BY DEF WalkInv, OnTop
<1>2. s.entered = DOMAIN order
  BY <1>1 DEF Ended
<1>3. Passed(s.ahead, s.entered) = Reached
  BY <1>2 DEF Passed, Reached
<1>4. c < UINT_MAX
  <2>1. /\ Cardinality(s.entered) \in Nat /\ Cardinality(s.entered) <= Cardinality(M.fns)
        /\ Cardinality(M.fns) \in Nat
    BY EnteredFacts
  <2>2. 2 * Cardinality(M.fns) <= UINT_MAX /\ UINT_MAX \in Nat /\ Len(s.ahead) = 0
    BY NumberAssumption DEF Ended
  <2> QED
    BY <1>1, <2>1, <2>2
<1> QED
  BY <1>1, <1>3, <1>4

\* judgeIns is asymmetric.
LEMMA JudgedOnce ==
    ASSUME WellFormed(M), NEW x \in Ins(M), NEW y \in Ins(M), indexof(x) \in Nat, indexof(y) \in Nat,
           judgeIns(x, y)
    PROVE  ~judgeIns(y, x)
<1>1. x[2] \in Nat /\ y[2] \in Nat
  BY InsFacts
<1> QED
  BY <1>1 DEF judgeIns, Less

\* What the walk comes upon is in the order of judgeIns, with no instruction twice.
LEMMA WalkedInOrder ==
    ASSUME NEW leave, Ended(leave), NEW u, NEW c \in Nat, Ordered(u, c), Range(u) = Reached
    PROVE  LET Place(x) == CHOOSE n \in DOMAIN u : u[n] = x
           IN  \A x, y \in Reached : judgeIns(x, y) <=> Place(x) < Place(y)
<1> DEFINE Place(x) == CHOOSE n \in DOMAIN u : u[n] = x
<1>1. WellFormed(M) /\ IsFiniteSet(Ins(M))
  BY TickFacts DEF Ended
<1>2. Len(u) \in Nat /\ DOMAIN u = 1..Len(u)
  BY <1>1, OrderedOnce
<1>3. ASSUME NEW x \in Reached PROVE Place(x) \in DOMAIN u /\ u[Place(x)] = x
  <2>1. \E n \in DOMAIN u : u[n] = x
    BY DEF Range
  <2> QED
    BY <2>1
<1> HIDE DEF Place
<1>4. ASSUME NEW x \in Reached, NEW y \in Reached PROVE judgeIns(x, y) <=> Place(x) < Place(y)
  <2>1. PICK p \in DOMAIN u : p = Place(x) /\ u[p] = x
    BY <1>3
  <2>2. PICK q \in DOMAIN u : q = Place(y) /\ u[q] = y
    BY <1>3
  <2>3. p < q => judgeIns(x, y)
    BY <2>1, <2>2 DEF Ordered
  <2>4. q < p => judgeIns(y, x)
    BY <2>1, <2>2 DEF Ordered
  <2>5. p \in Nat /\ q \in Nat
    BY <1>2
  <2>6. judgeIns(x, y) => ~judgeIns(y, x)
    <3>1. indexof(x) \in Nat /\ indexof(y) \in Nat
      BY <2>1, <2>2 DEF Ordered
    <3>2. x \in Ins(M) /\ y \in Ins(M)
      BY DEF Reached
    <3> QED
      BY <1>1, <3>1, <3>2, JudgedOnce
  <2>7. p = q => x = y
    BY <2>1, <2>2
  <2>8. judgeIns(x, y) => p < q
    <3> SUFFICES ASSUME judgeIns(x, y) PROVE p < q
      OBVIOUS
    <3>1. p # q
      BY <2>6, <2>7
    <3>2. ~(q < p)
      BY <2>4, <2>6
    <3> QED
      BY <2>5, <3>1, <3>2
  <2> QED
    BY <2>1, <2>2, <2>3, <2>8
<1> QED
  BY <1>4 DEF Place

\* The number of an instruction main does not reach is above the clock.
LEMMA OthersBehind ==
    ASSUME NEW leave, Ended(leave), NEW u, NEW c \in Nat, c < UINT_MAX, Ordered(u, c), Range(u) = Reached,
           NEW x \in Reached, NEW y \in Ins(M) \ Reached
    PROVE  judgeIns(x, y) /\ ~judgeIns(y, x)
<1>1. indexof(x) \in Nat /\ indexof(x) <= c
  <2>1. \E n \in DOMAIN u : u[n] = x
    BY DEF Range
  <2> QED
    BY <2>1 DEF Ordered
<1>2. indexof(y) = UINT_MAX /\ UINT_MAX \in Nat
  BY NumberAssumption DEF indexof, Reached
<1>3. indexof(x) < indexof(y) /\ ~(indexof(y) < indexof(x)) /\ indexof(x) # indexof(y)
  BY <1>1, <1>2
<1> QED
  BY <1>3 DEF judgeIns

\* When both loops are done, judgeIns is the order of the walk.
LEMMA EndedWalk == ASSUME NEW leave, Ended(leave) PROVE OrderIsWalk
<1> DEFINE u == WalkOrder(M)
           N == WalkLength(M)
<1>1. N \in Nat
  <2>1. IsFiniteSet(M.fns) /\ IsFiniteSet(Ins(M))
    BY DEF Ended
  <2>2. Cardinality(M.fns) \in Nat /\ Cardinality(Ins(M)) \in Nat
    BY <2>1, FS_CardinalityType
  <2> QED
    BY <2>2 DEF WalkLength
<1>2. PICK w : Stepwise(w, M, N, WalkStart) /\ u = w[N].upon
  BY <1>1, WalkIs
<1> HIDE DEF u
<1>3. PICK c : WalkInv(leave, w[N], N, c)
  BY <1>1, <1>2, AllWalk
<1>4. w[N].ahead = <<>>
  BY <1>3, WalkEnds
<1>5. Range(u) = Reached /\ Ordered(u, c) /\ c \in Nat /\ c < UINT_MAX
  BY <1>2, <1>3, <1>4, WalkedAll
<1>6. Reached = {u[n] : n \in DOMAIN u}
  BY <1>5 DEF Range
<1>7. LET Place(x) == CHOOSE n \in DOMAIN u : u[n] = x
      IN  \A x, y \in Reached : judgeIns(x, y) <=> Place(x) < Place(y)
  BY <1>5, WalkedInOrder
<1>8. \A x \in Reached, y \in Ins(M) \ Reached : judgeIns(x, y) /\ ~judgeIns(y, x)
  BY <1>5, OthersBehind
<1> QED
  BY <1>6, <1>7, <1>8 DEF OrderIsWalk, u

\* A module has finitely many instructions.
LEMMA InsFinite ==
    ASSUME WellFormed(M), IsFiniteSet(M.fns)
    PROVE  IsFiniteSet(Ins(M))
<1> DEFINE g == [f \in M.fns |-> {f} \X (1..M.size[f])]
           T == {{f} \X (1..M.size[f]) : f \in M.fns}
<1>1. g \in Surjection(M.fns, T)
  <2>1. g \in [M.fns -> T]
    OBVIOUS
  <2>2. \A t \in T : \E f \in M.fns : g[f] = t
    OBVIOUS
  <2> QED
    BY <2>1, <2>2 DEF Surjection
<1>2. IsFiniteSet(T)
  <2> HIDE DEF g, T
  <2> QED
    BY <1>1, FS_Surjection
<1>3. \A t \in T : IsFiniteSet(t)
  <2> SUFFICES ASSUME NEW f \in M.fns PROVE IsFiniteSet({f} \X (1..M.size[f]))
    OBVIOUS
  <2>1. M.size[f] \in Int /\ 1 \in Int
    BY DEF WellFormed
  <2>2. IsFiniteSet(1..M.size[f])
    BY <2>1, FS_Interval
  <2>3. IsFiniteSet({f})
    BY FS_Singleton
  <2> QED
    BY <2>2, <2>3, FS_Product
<1>4. IsFiniteSet(UNION T)
  <2> HIDE DEF T
  <2> QED
    BY <1>2, <1>3, FS_UNION
<1> QED
  BY <1>4 DEF Ins

\* When both loops are done.
LEMMA InOrder == ASSUME IInv, M \in Modules PROVE OrderIsWalk
<1> CASE phase = "done"
  <2>1. PICK leave, d, c : Typed /\ Tree(leave) /\ Walk(leave, d, c)
    BY DEF IInv
  <2>2. Left = DOMAIN order
    BY DEF Left, Opened
  <2>3. \A f, k : Seen(f, k)
    BY DEF Seen
  <2>4. /\ \A f \in DOMAIN order : order[f].last = leave[f]
        /\ Main \in DOMAIN order /\ \A f \in DOMAIN order : First(f) <= leave[Main]
    BY <2>1 DEF Walk, InSecond
  <2>5. Finished(leave)
    BY <2>1, <2>2, <2>3, <2>4 DEF Finished
  <2>6. First(Main) = 0
    BY <2>1, <2>4 DEF Tree, Times
  <2>7. IsFiniteSet(M.fns) /\ 2 * Cardinality(M.fns) <= UINT_MAX
    BY NumberAssumption
  <2>8. IsFiniteSet(Ins(M))
    BY <2>1, <2>7, InsFinite DEF Typed
  <2>9. Ended(leave)
    BY <2>4, <2>5, <2>6, <2>7, <2>8 DEF Ended
  <2> QED
    BY <2>9, EndedWalk
<1> CASE phase # "done"
  BY DEF OrderIsWalk
<1> QED
  OBVIOUS

\* OrderIsWalk, for every module: judgeIns orders the instructions of all the
\* functions that main reaches as a walk comes upon them that goes into a
\* function where it is called first, and orders all others behind them.
THEOREM OrderIsTheWalk == Spec => []OrderIsWalk
<1>1. IInv /\ M \in Modules => OrderIsWalk
  BY InOrder
<1> QED
  BY <1>1, Inductive, PTL

-----------------------------------------------------------------------------
(* GlobalVarDCE.                                                           *)

LEMMA ModuleFacts ==
    ASSUME DCETypeOK
    PROVE  /\ Globals(linked) \cap Constants(linked) = {}
           /\ linked.uses \in [Globals(linked) -> SUBSET (Globals(linked) \cup Constants(linked))]
           /\ linked.operands \in [Constants(linked) -> SUBSET (Globals(linked) \cup Constants(linked))]
           /\ linked.kind \in [Globals(linked) -> Kinds]
           /\ linked.globals \in Seq(Globals(linked))
BY LinkedAssumption DEF DCETypeOK, WellLinked, Constants

LEMMA LoopFacts ==
    ASSUME DCETypeOK
    PROVE  /\ DOMAIN linked.globals = 1..Len(linked.globals) /\ Len(linked.globals) \in Nat
           /\ \A n \in DOMAIN linked.globals : linked.globals[n] \in Globals(linked)
           /\ \A g \in Globals(linked) : \E n \in DOMAIN linked.globals : linked.globals[n] = g
           /\ cur \in Nat \ {0}
<1>1. linked.globals \in Seq(Globals(linked))
  BY ModuleFacts
<1> QED
  BY <1>1 DEF Globals, DCETypeOK

\* What a scan comes upon.
LEMMA ScanFacts ==
    ASSUME DCETypeOK
    PROVE  /\ NewOperands(linked, todo, seen) \subseteq Globals(linked) \cup Constants(linked)
           /\ Found(linked, todo, seen) \subseteq Globals(linked) \cup Constants(linked)
           /\ \A g \in todo \cap Globals(linked) : linked.uses[g] \subseteq Found(linked, todo, seen)
           /\ \A c \in todo \cap Constants(linked) : linked.operands[c] \subseteq seen \cup NewOperands(linked, todo, seen)
           /\ NewOperands(linked, todo, seen) \subseteq Found(linked, todo, seen)
<1>1. \A c \in todo \cap Constants(linked) : linked.operands[c] \subseteq Globals(linked) \cup Constants(linked)
  BY ModuleFacts
<1>2. \A g \in todo \cap Globals(linked) : linked.uses[g] \subseteq Globals(linked) \cup Constants(linked)
  BY ModuleFacts
<1>3. NewOperands(linked, todo, seen) \subseteq Globals(linked) \cup Constants(linked)
  BY <1>1 DEF NewOperands
<1>4. Found(linked, todo, seen) \subseteq Globals(linked) \cup Constants(linked)
  BY <1>2, <1>3 DEF Found
<1>5. \A g \in todo \cap Globals(linked) : linked.uses[g] \subseteq Found(linked, todo, seen)
  BY DEF Found
<1>6. \A c \in todo \cap Constants(linked) : linked.operands[c] \subseteq seen \cup NewOperands(linked, todo, seen)
  BY DEF NewOperands
<1>7. NewOperands(linked, todo, seen) \subseteq Found(linked, todo, seen)
  BY DEF Found
<1> QED
  BY <1>3, <1>4, <1>5, <1>6, <1>7

LEMMA InitDCEInv == DCEInit => DCEInv
<1> SUFFICES ASSUME DCEInit PROVE DCEInv
  OBVIOUS
<1>1. DCETypeOK
  BY DEF DCEInit, DCETypeOK
<1>2. OnlyNeeded
  BY DEF DCEInit, OnlyNeeded
<1>3. Scanned
  BY DEF DCEInit, Scanned
<1>4. Marked
  <2>1. \A n \in DOMAIN linked.globals : ~(n < cur)
    BY <1>1, LoopFacts DEF DCEInit
  <2> QED
    BY <2>1 DEF DCEInit, Marked
<1>5. Dropped /\ Erased
  BY DEF DCEInit, Dropped, Erased
<1> QED
  BY <1>1, <1>2, <1>3, <1>4, <1>5 DEF DCEInv

LEMMA NextTypeOK == DCEInv /\ [DCENext]_dceVars => DCETypeOK'
<1> SUFFICES ASSUME DCEInv, [DCENext]_dceVars PROVE DCETypeOK'
  OBVIOUS
<1>t. DCETypeOK
  BY DEF DCEInv
<1>0. cur \in Nat \ {0} /\ cur + 1 \in Nat \ {0} /\ 1 \in Nat \ {0}
  BY <1>t DEF DCETypeOK
<1>1. CASE MarkRoot
  BY <1>t, <1>0, <1>1, LoopFacts DEF MarkRoot, DCETypeOK
<1>2. CASE GlobalIsNeeded
  BY <1>t, <1>0, <1>2, ScanFacts, ModuleFacts DEF GlobalIsNeeded, DCETypeOK
<1>3. CASE StartDropping
  BY <1>t, <1>0, <1>3 DEF StartDropping, DCETypeOK
<1>4. CASE DropPass
  BY <1>t, <1>0, <1>4 DEF DropPass, DCETypeOK, Dead, OfKind
<1>5. CASE StartErasing
  BY <1>t, <1>0, <1>5 DEF StartErasing, DCETypeOK
<1>6. CASE Erase
  BY <1>t, <1>0, <1>6 DEF Erase, DCETypeOK
<1>7. CASE Finish
  BY <1>t, <1>0, <1>7 DEF Finish, DCETypeOK, DCEInv, Marked
<1>8. CASE UNCHANGED dceVars
  BY <1>t, <1>8 DEF dceVars, DCETypeOK
<1> QED
  BY <1>1, <1>2, <1>3, <1>4, <1>5, <1>6, <1>7, <1>8 DEF DCENext

\* A root is in every closed set, and so is what its members are made of.
LEMMA StepStaysInside ==
    ASSUME DCEInv, [DCENext]_dceVars,
           NEW S \in SUBSET (Globals(linked) \cup Constants(linked)), Closed(linked, S)
    PROVE  alive' \subseteq S /\ seen' \subseteq S /\ todo' \subseteq S
<1>0. alive \subseteq S /\ seen \subseteq S /\ todo \subseteq S
  BY DEF DCEInv, OnlyNeeded
<1>1. CASE MarkRoot
  <2>1. \A n \in DOMAIN linked.globals : Root(linked, linked.globals[n]) => linked.globals[n] \in S
    BY LoopFacts DEF Closed, DCEInv
  <2> QED
    BY <1>0, <1>1, <2>1 DEF MarkRoot
<1>2. CASE GlobalIsNeeded
  <2>1. /\ \A c \in todo \cap Constants(linked) : linked.operands[c] \subseteq S
        /\ \A g \in todo \cap Globals(linked) : linked.uses[g] \subseteq S
    BY <1>0 DEF Closed
  <2>2. NewOperands(linked, todo, seen) \subseteq S
    BY <2>1 DEF NewOperands
  <2>3. Found(linked, todo, seen) \subseteq S
    BY <2>1, <2>2 DEF Found
  <2> QED
    BY <1>0, <1>2, <2>2, <2>3 DEF GlobalIsNeeded
<1>3. CASE StartDropping \/ DropPass \/ StartErasing \/ Erase \/ Finish \/ UNCHANGED dceVars
  BY <1>0, <1>3 DEF StartDropping, DropPass, StartErasing, Erase, Finish, dceVars
<1> QED
  BY <1>1, <1>2, <1>3 DEF DCENext

LEMMA NextOnlyNeeded == DCEInv /\ [DCENext]_dceVars => OnlyNeeded'
<1> SUFFICES ASSUME DCEInv, [DCENext]_dceVars PROVE OnlyNeeded'
  OBVIOUS
<1>1. linked' = linked
  BY DEF DCENext, MarkRoot, GlobalIsNeeded, StartDropping, DropPass, StartErasing, Erase, Finish, dceVars
<1>2. ASSUME NEW S \in SUBSET (Globals(linked) \cup Constants(linked)), Closed(linked, S)
      PROVE  alive' \subseteq S /\ seen' \subseteq S /\ todo' \subseteq S
  BY <1>2, StepStaysInside
<1>3. Globals(linked)' = Globals(linked) /\ Constants(linked)' = Constants(linked)
  BY <1>1 DEF Globals, Constants
<1>4. \A S : Closed(linked, S)' => Closed(linked, S)
  BY <1>1, <1>3 DEF Closed, Root
<1> QED
  BY <1>2, <1>3, <1>4 DEF OnlyNeeded

\* The scanned have their parts marked, seen or waiting.
LEMMA NextScanned == DCEInv /\ [DCENext]_dceVars => Scanned'
<1> SUFFICES ASSUME DCEInv, [DCENext]_dceVars PROVE Scanned'
  OBVIOUS
<1>t. DCETypeOK /\ Scanned
  BY DEF DCEInv
<1>1. CASE MarkRoot
  <2>1. /\ UNCHANGED <<linked, seen, stage>> /\ stage = "mark" /\ todo = {}
        /\ alive' = alive \cup todo' /\ todo' \cap alive = {}
    BY <1>1 DEF MarkRoot
  <2>2. todo' \subseteq Globals(linked)
    BY <1>1, <1>t, LoopFacts DEF MarkRoot
  <2> QED
    BY <1>t, <2>1, <2>2, ModuleFacts DEF Scanned, Globals, Constants
<1>2. CASE GlobalIsNeeded
  <2> DEFINE found == Found(linked, todo, seen)
             fresh == NewOperands(linked, todo, seen)
  <2>1. /\ UNCHANGED <<linked, stage>> /\ stage = "mark"
        /\ alive' = alive \cup (found \cap Globals(linked))
        /\ todo' = (found \cap Constants(linked)) \cup ((found \cap Globals(linked)) \ alive)
        /\ seen' = seen \cup fresh
    BY <1>2 DEF GlobalIsNeeded
  <2>f. /\ fresh \subseteq found
        /\ \A g \in todo \cap Globals(linked) : linked.uses[g] \subseteq found
        /\ \A c \in todo \cap Constants(linked) : linked.operands[c] \subseteq seen \cup fresh
    BY <1>t, ScanFacts
  <2>s. /\ \A g \in alive \ todo :
              /\ linked.uses[g] \cap Globals(linked) \subseteq alive
              /\ \A c \in linked.uses[g] \cap Constants(linked) : c \in todo \/ linked.operands[c] \subseteq seen
        /\ \A c \in seen \cap Constants(linked) : c \in todo \/ linked.operands[c] \subseteq seen
        /\ seen \cap Globals(linked) \subseteq alive
        /\ alive \subseteq Globals(linked)
        /\ Globals(linked) \cap Constants(linked) = {}
    BY <1>t, <2>1, ModuleFacts DEF Scanned, DCETypeOK
  <2> HIDE DEF found, fresh
  <2>2. ASSUME NEW g \in alive' \ todo'
        PROVE  /\ linked.uses[g] \cap Globals(linked) \subseteq alive'
               /\ \A c \in linked.uses[g] \cap Constants(linked) : c \in todo' \/ linked.operands[c] \subseteq seen'
    <3>1. g \in alive
      BY <2>1, <2>2
    <3>2. CASE g \in todo
      <4>1. linked.uses[g] \subseteq found
        BY <2>f, <2>s, <3>1, <3>2
      <4> QED
        BY <2>1, <4>1
    <3>3. CASE g \notin todo
      <4>1. /\ linked.uses[g] \cap Globals(linked) \subseteq alive
            /\ \A c \in linked.uses[g] \cap Constants(linked) : c \in todo \/ linked.operands[c] \subseteq seen
        BY <2>s, <3>1, <3>3
      <4> QED
        BY <2>1, <2>f, <4>1
    <3> QED
      BY <3>2, <3>3
  <2>3. ASSUME NEW c \in seen' \cap Constants(linked)
        PROVE  c \in todo' \/ linked.operands[c] \subseteq seen'
    <3>1. CASE c \in fresh
      BY <2>1, <2>f, <2>3, <3>1
    <3>2. CASE c \in seen
      BY <2>1, <2>f, <2>s, <2>3, <3>2
    <3> QED
      BY <2>1, <2>3, <3>1, <3>2
  <2>4. seen' \cap Globals(linked) \subseteq alive'
    BY <2>1, <2>f, <2>s
  <2> QED
    BY <2>1, <2>2, <2>3, <2>4 DEF Scanned, Globals, Constants
<1>3. CASE StartDropping \/ DropPass \/ StartErasing \/ Erase
  <2>1. UNCHANGED <<linked, alive, seen, todo>> /\ stage # "done"
    BY <1>3 DEF StartDropping, DropPass, StartErasing, Erase
  <2> QED
    BY <1>t, <2>1 DEF Scanned, Globals, Constants
<1>4. CASE Finish
  BY <1>4 DEF Finish, Scanned
<1>5. CASE UNCHANGED dceVars
  BY <1>t, <1>5 DEF Scanned, Globals, Constants, dceVars
<1> QED
  BY <1>1, <1>2, <1>3, <1>4, <1>5 DEF DCENext

\* When the marking is over, what is marked is what is needed.
LEMMA AliveIsNeeded ==
    ASSUME DCEInv, stage \in {"drop", "erase"}
    PROVE  alive = Needed(linked)
<1>t. DCETypeOK /\ todo = {} /\ \A g \in Globals(linked) : Root(linked, g) => g \in alive
  BY DEF DCEInv, Marked
<1>1. alive \subseteq Needed(linked)
  BY <1>t DEF DCEInv, OnlyNeeded, Needed, DCETypeOK
<1>2. Needed(linked) \subseteq alive
  <2> DEFINE parts == UNION {linked.uses[g] \cap Constants(linked) : g \in alive}
             S == alive \cup seen \cup parts
  <2>s. /\ \A g \in alive :
              /\ linked.uses[g] \cap Globals(linked) \subseteq alive
              /\ \A c \in linked.uses[g] \cap Constants(linked) : linked.operands[c] \subseteq seen
        /\ \A c \in seen \cap Constants(linked) : linked.operands[c] \subseteq seen
        /\ seen \cap Globals(linked) \subseteq alive
    BY <1>t DEF DCEInv, Scanned
  <2>m. /\ Globals(linked) \cap Constants(linked) = {}
        /\ \A g \in Globals(linked) : linked.uses[g] \subseteq Globals(linked) \cup Constants(linked)
        /\ alive \subseteq Globals(linked)
        /\ seen \subseteq Globals(linked) \cup Constants(linked)
    BY <1>t, ModuleFacts DEF DCETypeOK
  <2>1. S \in SUBSET (Globals(linked) \cup Constants(linked))
    BY <2>m
  <2>2. S \cap Globals(linked) \subseteq alive
    BY <2>s, <2>m
  <2>3. \A g \in S \cap Globals(linked) : linked.uses[g] \subseteq S
    <3> SUFFICES ASSUME NEW g \in alive, NEW x \in linked.uses[g] PROVE x \in S
      BY <2>2
    <3>1. x \in Globals(linked) \/ x \in Constants(linked)
      BY <2>m
    <3>2. CASE x \in Globals(linked)
      BY <2>s, <3>2
    <3>3. CASE x \in Constants(linked)
      BY <3>3
    <3> QED
      BY <3>1, <3>2, <3>3
  <2>4. \A c \in S \cap Constants(linked) : linked.operands[c] \subseteq S
    <3> SUFFICES ASSUME NEW c \in S \cap Constants(linked) PROVE linked.operands[c] \subseteq seen
      OBVIOUS
    <3> QED
      BY <2>s, <2>m
  <2>5. Closed(linked, S)
    BY <1>t, <2>3, <2>4 DEF Closed
  <2> QED
    BY <2>1, <2>2, <2>5 DEF Needed
<1> QED
  BY <1>1, <1>2

LEMMA NextMarked == DCEInv /\ [DCENext]_dceVars => Marked'
<1> SUFFICES ASSUME DCEInv, [DCENext]_dceVars PROVE Marked'
  OBVIOUS
<1>t. DCETypeOK /\ Marked /\ Dropped
  BY DEF DCEInv
<1>1. CASE MarkRoot
  <2>1. \A n \in DOMAIN linked.globals : n < cur + 1 => n < cur \/ n = cur
    BY <1>t, LoopFacts
  <2> QED
    BY <1>t, <1>1, <2>1 DEF MarkRoot, Marked, Root, Globals
<1>2. CASE GlobalIsNeeded
  BY <1>t, <1>2 DEF GlobalIsNeeded, Marked, Root, Globals
<1>3. CASE StartDropping
  <2>1. \A n \in DOMAIN linked.globals : n < cur
    BY <1>t, <1>3, LoopFacts DEF StartDropping
  <2>2. \A g \in Globals(linked) : Root(linked, g) => g \in alive
    BY <1>t, <1>3, <2>1, LoopFacts DEF StartDropping, Marked
  <2> QED
    BY <1>t, <1>3, <2>2 DEF StartDropping, Marked, Root, Globals
<1>4. CASE DropPass \/ StartErasing \/ Erase
  BY <1>t, <1>4 DEF DropPass, StartErasing, Erase, Marked, Root, Globals
<1>5. CASE Finish
  BY <1>5 DEF Finish, Marked
<1>6. CASE UNCHANGED dceVars
  BY <1>t, <1>6 DEF dceVars, Marked, Root, Globals
<1> QED
  BY <1>1, <1>2, <1>3, <1>4, <1>5, <1>6 DEF DCENext

LEMMA NextDropped == DCEInv /\ [DCENext]_dceVars => Dropped'
<1> SUFFICES ASSUME DCEInv, [DCENext]_dceVars PROVE Dropped'
  OBVIOUS
<1>t. DCETypeOK /\ Marked /\ Dropped
  BY DEF DCEInv
<1>d. DOMAIN DropOrder = 1..3 /\ \A k \in Kinds : \E n \in 1..3 : DropOrder[n] = k
  <2>1. DropOrder[1] = "variable" /\ DropOrder[2] = "function" /\ DropOrder[3] = "alias"
    BY DEF DropOrder
  <2> QED
    BY <2>1 DEF DropOrder, Kinds
<1>1. CASE MarkRoot \/ GlobalIsNeeded
  BY <1>t, <1>1 DEF MarkRoot, GlobalIsNeeded, Dropped
<1>2. CASE StartDropping
  <2>1. stage = "mark" /\ stage' = "drop" /\ cur' = 1 /\ UNCHANGED <<linked, alive, dropped, exists>>
    BY <1>2 DEF StartDropping
  <2>2. dropped = {} /\ exists = Globals(linked)
    BY <1>t, <2>1 DEF Dropped, Marked
  <2> QED
    BY <2>1, <2>2 DEF Dropped, Globals
<1>3. CASE DropPass
  <2>1. /\ stage = "drop" /\ stage' = "drop" /\ cur \in 1..3 /\ cur' = cur + 1
        /\ UNCHANGED <<linked, alive, exists>>
        /\ dropped' = dropped \cup Dead(DropOrder[cur])
    BY <1>3, <1>d DEF DropPass
  <2>2. \A n \in 1..3 : n < cur + 1 <=> n < cur \/ n = cur
    BY <2>1
  <2>3. \A g \in Globals(linked) : g \in Dead(DropOrder[cur]) <=> g \notin alive /\ linked.kind[g] = DropOrder[cur]
    BY DEF Dead, OfKind
  <2>4. \A g \in Globals(linked) :
           g \in dropped <=> g \notin alive /\ \E n \in 1..3 : n < cur /\ linked.kind[g] = DropOrder[n]
    BY <1>t, <2>1 DEF Dropped
  <2>5. \A g \in Globals(linked) :
           g \in dropped' <=> g \notin alive /\ \E n \in 1..3 : n < cur + 1 /\ linked.kind[g] = DropOrder[n]
    BY <2>1, <2>2, <2>3, <2>4
  <2>6. cur' \in 1..4 /\ exists' = Globals(linked)
    BY <1>t, <2>1 DEF Dropped
  <2> QED
    BY <2>1, <2>5, <2>6 DEF Dropped, Globals
<1>4. CASE StartErasing
  <2>1. /\ stage = "drop" /\ stage' = "erase" /\ cur \notin 1..3
        /\ UNCHANGED <<linked, alive, dropped>>
    BY <1>4, <1>d DEF StartErasing
  <2>2. cur = 4
    BY <1>t, <2>1 DEF Dropped
  <2>3. \A g \in Globals(linked) : \E n \in 1..3 : n < cur /\ linked.kind[g] = DropOrder[n]
    BY <1>t, <1>d, <2>2, ModuleFacts
  <2>4. \A g \in Globals(linked) : g \in dropped <=> g \notin alive
    BY <1>t, <2>1, <2>3 DEF Dropped
  <2> QED
    BY <1>t, <2>1, <2>4 DEF Dropped, Globals, DCETypeOK
<1>5. CASE Erase \/ Finish
  BY <1>t, <1>5 DEF Erase, Finish, Dropped, Globals
<1>6. CASE UNCHANGED dceVars
  BY <1>t, <1>6 DEF dceVars, Dropped, Globals
<1> QED
  BY <1>1, <1>2, <1>3, <1>4, <1>5, <1>6 DEF DCENext

LEMMA NextErased == DCEInv /\ [DCENext]_dceVars => Erased'
<1> SUFFICES ASSUME DCEInv, [DCENext]_dceVars PROVE Erased'
  OBVIOUS
<1>t. DCETypeOK /\ Dropped /\ Erased
  BY DEF DCEInv
<1>1. CASE MarkRoot \/ GlobalIsNeeded \/ StartDropping \/ DropPass
  BY <1>1 DEF MarkRoot, GlobalIsNeeded, StartDropping, DropPass, Erased
<1>2. CASE StartErasing
  <2>1. \A n \in DOMAIN linked.globals : ~(n < 1)
    BY <1>t, LoopFacts
  <2> QED
    BY <1>t, <1>2, <2>1 DEF StartErasing, Erased, Dropped, Globals
<1>3. CASE Erase
  <2>1. /\ stage = "erase" /\ stage' = "erase" /\ cur \in DOMAIN linked.globals /\ cur' = cur + 1
        /\ UNCHANGED <<linked, alive>>
        /\ exists' = IF linked.globals[cur] \in alive THEN exists ELSE exists \ {linked.globals[cur]}
    BY <1>3 DEF Erase
  <2>2. \A n \in DOMAIN linked.globals : n < cur + 1 <=> n < cur \/ n = cur
    BY <1>t, LoopFacts
  <2>3. \A g \in Globals(linked) : g \in exists <=>
              g \in alive \/ ~\E n \in DOMAIN linked.globals : n < cur /\ linked.globals[n] = g
    BY <1>t, <2>1 DEF Erased
  <2>4. \A g \in Globals(linked) : g \in exists' <=>
              g \in alive \/ ~\E n \in DOMAIN linked.globals : n < cur + 1 /\ linked.globals[n] = g
    BY <2>1, <2>2, <2>3
  <2> QED
    BY <2>1, <2>4 DEF Erased, Globals
<1>4. CASE Finish
  <2>1. stage = "erase" /\ stage' = "done" /\ cur \notin DOMAIN linked.globals /\ UNCHANGED <<linked, exists, dropped>>
    BY <1>4 DEF Finish
  <2>2. \A g \in Globals(linked) : \E n \in DOMAIN linked.globals : n < cur /\ linked.globals[n] = g
    BY <1>t, <2>1, LoopFacts
  <2>3. \A g \in Globals(linked) : g \in exists <=> g \in alive
    BY <1>t, <2>1, <2>2 DEF Erased
  <2>4. exists = alive
    BY <1>t, <2>3 DEF DCETypeOK
  <2>5. exists = Needed(linked) /\ dropped = Globals(linked) \ exists
    BY <1>t, <2>1, <2>4, AliveIsNeeded DEF Dropped
  <2> QED
    BY <2>1, <2>5 DEF Erased, Needed, Closed, Root, Globals, Constants
<1>5. CASE UNCHANGED dceVars
  BY <1>t, <1>5 DEF dceVars, Erased, Needed, Closed, Root, Globals, Constants
<1> QED
  BY <1>1, <1>2, <1>3, <1>4, <1>5 DEF DCENext

\* The inductive invariant
THEOREM CleaningInvariant == DCESpec => []DCEInv
<1>1. DCEInit => DCEInv
  BY InitDCEInv
<1>2. DCEInv /\ [DCENext]_dceVars => DCEInv'
  BY NextTypeOK, NextOnlyNeeded, NextScanned, NextMarked, NextDropped, NextErased DEF DCEInv
<1> QED
  BY <1>1, <1>2, PTL DEF DCESpec

\* DCETypeOK, for every module: what is marked, dropped or left is a global of the module.
THEOREM CleaningTypeCorrect == DCESpec => []DCETypeOK
<1>1. DCEInv => DCETypeOK
  BY DEF DCEInv
<1> QED
  BY <1>1, CleaningInvariant, PTL

\* GlobalVarDCE keeps the globals the program needs and no other.
THEOREM DeletionExact == DCESpec => []DeletesExactly
<1>1. DCEInv => DeletesExactly
  BY DEF DCEInv, Erased, DeletesExactly
<1> QED
  BY <1>1, CleaningInvariant, PTL

\* Whatever is erased, nothing left uses it.
THEOREM NoDanglingUse == DCESpec => []NothingDangles
<1>1. DCEInv => NothingDangles
  <2> SUFFICES ASSUME DCEInv, NEW g \in exists \ dropped, NEW h \in Globals(linked), RefersTo(linked, g, h)
               PROVE  h \in exists
    BY DEF NothingDangles
  <2>t. DCETypeOK /\ g \in Globals(linked) /\ stage \in {"mark", "drop", "erase", "done"}
    BY DEF DCEInv, DCETypeOK
  <2>m. /\ Globals(linked) \cap Constants(linked) = {}
        /\ linked.uses[g] \subseteq Globals(linked) \cup Constants(linked)
        /\ seen \subseteq Globals(linked) \cup Constants(linked)
    BY <2>t, ModuleFacts DEF DCETypeOK
  <2>1. CASE stage \in {"mark", "drop"}
    BY <2>1 DEF DCEInv, Marked, Dropped
  <2>2. CASE stage = "erase"
    <3> DEFINE S == linked.uses[g] \cup seen
    <3>1. g \in alive /\ todo = {}
      BY <2>t, <2>2 DEF DCEInv, Dropped, Marked
    <3>2. /\ linked.uses[g] \cap Globals(linked) \subseteq alive
          /\ \A c \in linked.uses[g] \cap Constants(linked) : linked.operands[c] \subseteq seen
          /\ \A c \in seen \cap Constants(linked) : linked.operands[c] \subseteq seen
          /\ seen \cap Globals(linked) \subseteq alive
      BY <2>2, <3>1 DEF DCEInv, Scanned
    <3>3. h \in S
      BY <2>m, <3>2 DEF RefersTo
    <3> QED
      BY <2>2, <3>2, <3>3 DEF DCEInv, Erased
  <2>3. CASE stage = "done"
    <3>1. exists = Needed(linked)
      BY <2>3 DEF DCEInv, Erased
    <3>2. ASSUME NEW S \in SUBSET (Globals(linked) \cup Constants(linked)), Closed(linked, S)
          PROVE  h \in S
      <4>1. g \in S
        BY <3>1, <3>2 DEF Needed
      <4> QED
        BY <2>t, <3>2, <4>1 DEF Closed, RefersTo
    <3> QED
      BY <3>1, <3>2 DEF Needed
  <2> QED
    BY <2>t, <2>1, <2>2, <2>3
<1> QED
  BY <1>1, CleaningInvariant, PTL
=============================================================================
