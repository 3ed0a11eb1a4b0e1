-------------------------- MODULE ComputeInsProofs --------------------------
(***************************************************************************)
(* For every module and every profile, also one that was cut off: the      *)
(* types of ComputeIns and what its tables hold; the rows it uses are      *)
(* those the file holds completely; places are judged by calls; the        *)
(* prediction adds up, and so does the number OutputOmpResult prints.      *)
(***************************************************************************)
EXTENDS OutputOmpResult, RecursionProofs

-----------------------------------------------------------------------------
(* Tables.                                                                 *)

\* Every entry of a table is in one row, at one place.
LEMMA EntryAt ==
    ASSUME NEW n \in Nat \ {0}, NEW e \in Nat \ {0}
    PROVE  /\ RowAt(e, n) \in Nat \ {0} /\ PlaceAt(e, n) \in 1..n
           /\ e = (RowAt(e, n) - 1) * n + PlaceAt(e, n)
<1> DEFINE d == (e - 1) \div n m == (e - 1) % n
<1>1. d \in Nat /\ m \in 0..(n - 1) /\ e - 1 = n * d + m
  OBVIOUS
<1> HIDE DEF d, m
<1>2. RowAt(e, n) = d + 1 /\ PlaceAt(e, n) = m + 1
  BY DEF RowAt, PlaceAt, d, m
<1>3. (d + 1 - 1) * n = n * d
  BY <1>1
<1>4. e = (d + 1 - 1) * n + (m + 1)
  BY <1>1, <1>3
<1> QED
  BY <1>1, <1>2, <1>4

LEMMA EntryOf ==
    ASSUME NEW n \in Nat \ {0}, NEW c \in Nat \ {0}, NEW p \in 1..n
    PROVE  RowAt((c - 1) * n + p, n) = c /\ PlaceAt((c - 1) * n + p, n) = p
<1>1. PICK e \in Nat \ {0} : e = (c - 1) * n + p
  <2>1. (c - 1) * n \in Nat
    OBVIOUS
  <2> QED
    BY <2>1
<1>2. PICK d \in Nat \ {0}, q \in 1..n : d = RowAt(e, n) /\ q = PlaceAt(e, n) /\ e = (d - 1) * n + q
  <2>1. /\ RowAt(e, n) \in Nat \ {0} /\ PlaceAt(e, n) \in 1..n
        /\ e = (RowAt(e, n) - 1) * n + PlaceAt(e, n)
    BY EntryAt
  <2> QED
    BY <2>1, Zenon
<1> DEFINE x == d - c
<1>3. x \in Int /\ x * n = p - q
  <2>1. (d - 1) * n = (c - 1) * n + (d - c) * n
    OBVIOUS
  <2> QED
    BY <1>1, <1>2, <2>1
<1> HIDE DEF x
<1>4. x >= 1 => x * n >= n
  BY <1>3
<1>5. x <= -1 => x * n <= -n
  BY <1>3
<1>6. x = 0
  BY <1>3, <1>4, <1>5
<1>7. d = c /\ q = p
  BY <1>2, <1>3, <1>6 DEF x
<1> QED
  BY <1>1, <1>2, <1>7

\* The rows of the entries of a table of r rows are among these.
LEMMA EntryInTable ==
    ASSUME NEW n \in Nat \ {0}, NEW r \in Nat, NEW e \in 1..(r * n)
    PROVE  RowAt(e, n) \in 1..r
<1>1. r * n \in Nat /\ e \in Nat \ {0}
  <2>1. r * n \in Nat
    OBVIOUS
  <2> QED
    BY <2>1
<1>2. PICK d \in Nat \ {0}, q \in 1..n : d = RowAt(e, n) /\ e = (d - 1) * n + q
  <2>1. /\ RowAt(e, n) \in Nat \ {0} /\ PlaceAt(e, n) \in 1..n
        /\ e = (RowAt(e, n) - 1) * n + PlaceAt(e, n)
    BY <1>1, EntryAt
  <2> QED
    BY <2>1, Zenon
<1>3. ASSUME ~(d <= r) PROVE FALSE
  <2>1. PICK x \in Nat : d - 1 = r + x
    <3>1. d - 1 - r \in Nat
      BY <1>3
    <3> QED
      BY <3>1
  <2>2. (r + x) * n = r * n + x * n /\ x * n \in Nat
    OBVIOUS
  <2> QED
    BY <1>1, <1>2, <2>1, <2>2
<1> QED
  BY <1>2, <1>3

LEMMA TablePlace ==
    ASSUME NEW n \in Nat \ {0}, NEW r \in Nat, NEW e \in 1..(r * n)
    PROVE  PlaceAt(e, n) \in 1..n /\ RowAt(e, n) \in 1..r
<1>1. e \in Nat \ {0}
  <2>1. r * n \in Nat
    OBVIOUS
  <2> QED
    BY <2>1
<1>2. PlaceAt(e, n) \in 1..n
  BY <1>1, EntryAt
<1>3. RowAt(e, n) \in 1..r
  BY EntryInTable
<1> QED
  BY <1>2, <1>3

\* The entry of place p in row c.
LEMMA EntryBound ==
    ASSUME NEW n \in Nat \ {0}, NEW r \in Nat, NEW c \in 1..r, NEW p \in 1..n
    PROVE  (c - 1) * n + p \in 1..(r * n)
<1>1. PICK x \in Nat : r = c + x
  <2>1. r - c \in Nat
    OBVIOUS
  <2> QED
    BY <2>1
<1>2. (c - 1) * n \in Nat /\ x * n \in Nat /\ (c + x) * n = (c - 1) * n + n + x * n
  OBVIOUS
<1> QED
  BY <1>1, <1>2

\* A multiple of n that lies less than n above r * n is r * n.
LEMMA Multiple ==
    ASSUME NEW n \in Nat \ {0}, NEW r \in Nat, NEW l \in 1..n, NEW s \in Nat,
           s % n = 0, r * n + l = s + 1
    PROVE  r * n = s
<1> DEFINE q == s \div n d == q - r
<1>1. q \in Int /\ s = n * q
  BY DEF q
<1>2. d \in Int /\ d * n = l - 1
  BY <1>1
<1> HIDE DEF d
<1>3. d >= 1 => d * n >= n
  BY <1>2
<1>4. d <= -1 => d * n <= -n
  BY <1>2
<1>5. d = 0
  BY <1>2, <1>3, <1>4
<1> QED
  BY <1>2, <1>5

-----------------------------------------------------------------------------
(* Modules and their places.                                               *)

LEMMA BlockFacts ==
    ASSUME NEW m \in Modules
    PROVE  /\ Len(m.blocks) \in Nat /\ DOMAIN m.blocks = 1..Len(m.blocks)
           /\ \A n \in DOMAIN m.blocks :
                 /\ Code(m, n) \in Seq([op : Ops, callee : 0..Len(m.kind)])
                 /\ Len(Code(m, n)) \in Nat /\ DOMAIN Code(m, n) = 1..Len(Code(m, n))
                 /\ m.blocks[n].fn \in DOMAIN m.kind
           /\ Walked(m) \subseteq DOMAIN m.blocks
<1>1. m.blocks \in Seq([fn : DOMAIN m.kind, code : Seq([op : Ops, callee : 0..Len(m.kind)])])
  BY ModulesAssumption DEF WellFormed
<1> DEFINE I == [op : Ops, callee : 0..Len(m.kind)]
           F == DOMAIN m.kind
<1> HIDE DEF I, F
<1>2. m.blocks \in Seq([fn : F, code : Seq(I)])
  BY <1>1 DEF I, F
<1>3. Len(m.blocks) \in Nat /\ DOMAIN m.blocks = 1..Len(m.blocks)
  BY <1>2
<1>4. ASSUME NEW n \in DOMAIN m.blocks
      PROVE  /\ Code(m, n) \in Seq(I) /\ Len(Code(m, n)) \in Nat
             /\ DOMAIN Code(m, n) = 1..Len(Code(m, n)) /\ m.blocks[n].fn \in F
  <2> DEFINE B == [fn : F, code : Seq(I)]
  <2>1. m.blocks \in Seq(B) /\ n \in 1..Len(m.blocks)
    BY <1>2, <1>3
  <2>2. m.blocks[n] \in B
    <3> HIDE DEF B
    <3> QED
      BY <2>1
  <2>3. m.blocks[n].fn \in F /\ m.blocks[n].code \in Seq(I)
    BY <2>2
  <2>4. Code(m, n) = m.blocks[n].code
    BY DEF Code
  <2> QED
    BY <2>3, <2>4
<1> QED
  BY <1>3, <1>4 DEF I, F, Walked

\* The fork calls of a block.
LEMMA Finite ==
    ASSUME NEW m \in Modules, NEW n \in DOMAIN m.blocks
    PROVE  \A S \in SUBSET DOMAIN Code(m, n) : IsFiniteSet(S) /\ Cardinality(S) \in Nat
<1>1. IsFiniteSet(DOMAIN Code(m, n))
  <2>1. PICK l \in Nat : DOMAIN Code(m, n) = 1..l
    BY BlockFacts
  <2> QED
    BY <2>1, FS_Interval
<1> QED
  BY <1>1, FS_Subset, FS_CardinalityType

LEMMA PlacesType ==
    ASSUME NEW m \in Modules, NEW n \in DOMAIN m.blocks
    PROVE  /\ Places(m, n) \in Nat /\ (n \in Walked(m) => Places(m, n) >= 1)
           /\ \A k \in DOMAIN Code(m, n) : ForksBefore(m, n, k) \in 0..Cardinality(At(m, n, "fork"))
           /\ \A q : Cardinality(InPlace(m, n, q)) \in Nat
<1>1. At(m, n, "fork") \in SUBSET DOMAIN Code(m, n)
  BY DEF At
<1>2. IsFiniteSet(At(m, n, "fork")) /\ Cardinality(At(m, n, "fork")) \in Nat
  BY <1>1, Finite
<1>3. ASSUME NEW k \in DOMAIN Code(m, n)
      PROVE  ForksBefore(m, n, k) \in 0..Cardinality(At(m, n, "fork"))
  <2>1. {j \in At(m, n, "fork") : j < k} \in SUBSET At(m, n, "fork")
    OBVIOUS
  <2>2. Cardinality({j \in At(m, n, "fork") : j < k}) \in Nat
    BY <1>1, Finite
  <2>3. Cardinality({j \in At(m, n, "fork") : j < k}) <= Cardinality(At(m, n, "fork"))
    BY <1>2, <2>1, FS_Subset
  <2> QED
    BY <1>2, <2>2, <2>3 DEF ForksBefore
<1>4. ASSUME NEW q PROVE Cardinality(InPlace(m, n, q)) \in Nat
  BY Finite DEF InPlace
<1> QED
  BY <1>2, <1>3, <1>4 DEF Places

LEMMA BeforeNext ==
    ASSUME NEW m \in Modules
    PROVE  /\ Before(m, 1) = 0
           /\ \A n \in DOMAIN m.blocks : /\ Before(m, n) \in Nat /\ Before(m, n + 1) \in Nat
                                         /\ Before(m, n + 1) = Before(m, n) + Places(m, n)
           /\ NumPlaces(m) = Before(m, Len(m.blocks) + 1) /\ NumPlaces(m) \in Nat
<1> DEFINE f == [b \in DOMAIN m.blocks |-> Places(m, b)]
<1>1. PICK l \in Nat : l = Len(m.blocks) /\ DOMAIN m.blocks = 1..l
  BY BlockFacts
<1>2. \A k \in 1..l : f[k] = Places(m, k) /\ f[k] \in Nat
  BY <1>1, PlacesType
<1> HIDE DEF f
<1>3. ASSUME NEW n \in 1..(l + 1) PROVE Before(m, n) = SumTo(f, n - 1) /\ Before(m, n) \in Nat
  <2>1. Before(m, n) = SumTo(f, n - 1)
    BY DEF Before, f
  <2>2. PICK j \in 0..l : j = n - 1
    OBVIOUS
  <2>3. SumTo(f, j) \in Nat
    BY <1>2, SumNat
  <2> QED
    BY <2>1, <2>2, <2>3
<1>4. Before(m, 1) = 0
  BY <1>1, <1>3, SumZero
<1>5. ASSUME NEW n \in 1..l PROVE Before(m, n + 1) = Before(m, n) + Places(m, n)
  <2>1. PICK j \in Nat : n = j + 1
    <3>1. n - 1 \in Nat /\ n = (n - 1) + 1
      OBVIOUS
    <3> QED
      BY <3>1
  <2>2. SumTo(f, j + 1) = SumTo(f, j) + f[j + 1]
    BY SumNext
  <2>3. Before(m, n + 1) = SumTo(f, (n + 1) - 1) /\ Before(m, n) = SumTo(f, n - 1)
    BY <1>3
  <2>4. (n + 1) - 1 = j + 1 /\ n - 1 = j
    BY <2>1
  <2> QED
    BY <1>2, <2>1, <2>2, <2>3, <2>4
<1>6. \A n \in 1..l : n \in 1..(l + 1) /\ n + 1 \in 1..(l + 1)
  OBVIOUS
<1>7. l + 1 \in 1..(l + 1)
  OBVIOUS
<1> QED
  BY <1>1, <1>3, <1>4, <1>5, <1>6, <1>7 DEF NumPlaces

\* The places of a block precede those of the blocks behind it.
LEMMA BeforeGrows ==
    ASSUME NEW m \in Modules, NEW b \in 1..(Len(m.blocks) + 1), NEW a \in 1..b
    PROVE  Before(m, a) <= Before(m, b)
<1> DEFINE f == [n \in DOMAIN m.blocks |-> Places(m, n)]
<1>1. PICK l \in Nat : l = Len(m.blocks) /\ DOMAIN m.blocks = 1..l
  BY BlockFacts
<1>2. \A k \in 1..l : f[k] \in Nat
  BY <1>1, PlacesType
<1> HIDE DEF f
<1>3. a - 1 \in 0..l /\ b - 1 \in (a - 1)..l
  BY <1>1
<1>4. SumTo(f, a - 1) <= SumTo(f, b - 1)
  <2>1. PICK c \in 0..l : c = a - 1
    BY <1>3
  <2>2. PICK d \in c..l : d = b - 1
    BY <1>3, <2>1
  <2>3. SumTo(f, c) <= SumTo(f, d)
    BY <1>2, SumGrows
  <2> QED
    BY <2>1, <2>2, <2>3
<1> QED
  BY <1>4 DEF Before, f

LEMMA SomePlace ==
    ASSUME NEW m \in Modules
    PROVE  NumPlaces(m) \in Nat \ {0}
<1>1. PICK n \in DOMAIN m.blocks : n \in Walked(m)
  BY ModulesAssumption, BlockFacts DEF WellFormed
<1>2. PICK l \in Nat : l = Len(m.blocks) /\ DOMAIN m.blocks = 1..l
  BY BlockFacts
<1>3. Before(m, n + 1) = Before(m, n) + Places(m, n) /\ Before(m, n) \in Nat /\ NumPlaces(m) \in Nat
  BY BeforeNext
<1>4. Places(m, n) \in Nat /\ Places(m, n) >= 1
  BY <1>1, PlacesType
<1>5. Before(m, n + 1) <= NumPlaces(m)
  <2>1. n + 1 \in 1..(l + 1) /\ l + 1 \in 1..(l + 1)
    BY <1>2
  <2> QED
    BY <1>2, <2>1, BeforeGrows DEF NumPlaces
<1> QED
  BY <1>3, <1>4, <1>5

-----------------------------------------------------------------------------
(* The walks.                                                              *)

N       == BBNum
Row(t)  == [DOMAIN Kinds[t] -> Nat]
Regions == -1..Cardinality(Outlined(M))
Ended   == {"crashed", "exhausted"}

Types ==
    /\ M \in Modules /\ pc \in Phases /\ stray \in Nat
    /\ order \in Bijection(1..Cardinality(Outlined(M)), Outlined(M))
    /\ blk \in 1..(Len(M.blocks) + 1) /\ N \in Nat
    /\ DOMAIN counts = DOMAIN Kinds /\ \A t \in DOMAIN Kinds : counts[t] \in Seq(Row(t))
    /\ isParaRegion \in Seq(Regions)

\* A table is empty before its method, and has an entry for each place the
\* method has come by.
Filling(entries, before, method) ==
    entries = IF pc \in before THEN 0 ELSE IF pc = method THEN Before(M, blk) ELSE NumPlaces(M)

ToMaths      == {"getBBNum"}
ToJudge      == ToMaths \cup {"getMathInsNumInBB", "getBBFrequency"}
ToInsKind    == ToJudge \cup {"judgeIsParallel"}
ToBinaryOP   == ToInsKind \cup {"getInsKind"}

Walks ==
    pc \notin Ended =>
        /\ Filling(N, {}, "getBBNum")
        /\ Filling(Len(counts["maths"]), ToMaths, "getMathInsNumInBB")
        /\ Filling(Len(isParaRegion), ToJudge, "judgeIsParallel")
        /\ Filling(Len(counts["memory"]), ToInsKind, "getInsKind")
        /\ Filling(Len(counts["arithmetic"]), ToBinaryOP, "getBinaryOPNum")
        /\ pc = "getBBFrequency" => blk = 1

WInv == Types /\ Walks

LEMMA KindsType ==
    /\ DOMAIN Kinds = {"memory", "arithmetic", "maths"}
    /\ \A t \in DOMAIN Kinds : Len(Kinds[t]) \in Nat /\ DOMAIN Kinds[t] = 1..Len(Kinds[t])
<1>1. /\ Kinds["memory"] = <<"load", "store">> /\ Kinds["arithmetic"] = Arithmetic
      /\ Kinds["maths"] = Maths /\ DOMAIN Kinds = {"memory", "arithmetic", "maths"}
  BY DEF Kinds
<1>2. Arithmetic \in Seq(STRING) /\ Maths \in Seq(STRING)
  BY KindsAssumption
<1>3. \A s \in Seq(STRING) : Len(s) \in Nat /\ DOMAIN s = 1..Len(s)
  OBVIOUS
<1>4. Len(<<"load", "store">>) = 2 /\ DOMAIN <<"load", "store">> = 1..2
  OBVIOUS
<1> QED
  BY <1>1, <1>2, <1>3, <1>4

LEMMA OutlinedType ==
    ASSUME M \in Modules
    PROVE  /\ IsFiniteSet(Outlined(M)) /\ Cardinality(Outlined(M)) \in Nat
           /\ \A f \in Outlined(M) : parallelRegion(f) \in 1..Cardinality(Outlined(M))
<1>1. PICK l \in Nat : DOMAIN M.kind = 1..l
  <2>1. M.kind \in Seq({"outlined", "writer", "plain"})
    BY ModulesAssumption DEF WellFormed
  <2> QED
    BY <2>1
<1>2. Outlined(M) \in SUBSET (1..l)
  BY <1>1 DEF Outlined
<1>3. IsFiniteSet(Outlined(M)) /\ Cardinality(Outlined(M)) \in Nat
  <2>1. IsFiniteSet(1..l)
    BY FS_Interval
  <2> QED
    BY <1>2, <2>1, FS_Subset, FS_CardinalityType
<1>4. ASSUME NEW f \in Outlined(M) PROVE parallelRegion(f) \in 1..Cardinality(Outlined(M))
  <2> DEFINE S == {g \in Outlined(M) : g <= f}
  <2>1. S \in SUBSET Outlined(M) /\ f \in S
    BY <1>2
  <2>2. IsFiniteSet(S) /\ Cardinality(S) \in Nat /\ Cardinality(S) <= Cardinality(Outlined(M))
    BY <1>3, <2>1, FS_Subset, FS_CardinalityType
  <2>3. Cardinality(S) # 0
    BY <2>1, <2>2, FS_EmptySet
  <2> QED
    BY <1>3, <2>2, <2>3 DEF parallelRegion
<1> QED
  BY <1>3, <1>4

\* The region judgeIsParallel gives a function.
LEMMA RegionOfType ==
    ASSUME Types, NEW f
    PROVE  /\ RegionOf(f) \in Regions
           /\ f \in Outlined(M) => RegionOf(f) = parallelRegion(f)
           /\ f \notin Outlined(M) /\ Outlined(M) # {} =>
                 IF \E a \in Outlined(M) : Calls(M, a, f)
                 THEN \E a \in Outlined(M) : Calls(M, a, f) /\ RegionOf(f) = parallelRegion(a)
                 ELSE RegionOf(f) = 0
<1>1. PICK l \in Nat : l = Cardinality(Outlined(M))
  BY OutlinedType DEF Types
<1>2. /\ \A a \in Outlined(M) : parallelRegion(a) \in 1..l
      /\ order \in [1..l -> Outlined(M)] /\ \A a \in Outlined(M) : \E n \in 1..l : order[n] = a
      /\ Regions = -1..l
  BY <1>1, OutlinedType DEF Types, Bijection, Surjection, Injection, Regions
<1>3. CASE f \in Outlined(M)
  BY <1>1, <1>2, <1>3 DEF RegionOf
<1>4. CASE f \notin Outlined(M) /\ order = <<>>
  <2>1. RegionOf(f) = -1
    BY <1>4 DEF RegionOf
  <2>2. \A n \in 1..l : FALSE
    <3>1. DOMAIN <<>> = {}
      OBVIOUS
    <3>2. DOMAIN order = 1..l
      BY <1>2
    <3> QED
      BY <1>4, <3>1, <3>2
  <2>3. Outlined(M) = {}
    BY <1>2, <2>2
  <2> QED
    BY <1>1, <1>2, <1>4, <2>1, <2>3
<1>5. CASE f \notin Outlined(M) /\ order # <<>>
  <2> DEFINE S == {n \in DOMAIN order : Calls(M, order[n], f)}
  <2>1. RegionOf(f) = IF S = {} THEN 0 ELSE parallelRegion(order[Min(S)])
    BY <1>5 DEF RegionOf
  <2>2. DOMAIN order = 1..l
    BY <1>2
  <2>3. CASE S = {}
    BY <1>1, <1>2, <1>5, <2>1, <2>2, <2>3, SMTT(20)
  <2>4. CASE S # {}
    <3>1. S \in SUBSET Nat
      BY <2>2
    <3>2. Min(S) \in S
      <4> HIDE DEF S
      <4>1. \E x \in S : \A y \in S : x <= y
        BY <2>4, <3>1, Least
      <4> QED
        BY <4>1 DEF Min
    <3>3. order[Min(S)] \in Outlined(M) /\ Calls(M, order[Min(S)], f)
      BY <1>2, <2>2, <3>2
    <3>4. RegionOf(f) = parallelRegion(order[Min(S)])
      BY <2>1, <2>4
    <3> HIDE DEF S
    <3>5. PICK a \in Outlined(M) : Calls(M, a, f) /\ RegionOf(f) = parallelRegion(a)
      BY <3>3, <3>4
    <3> QED
      BY <1>1, <1>2, <1>5, <3>5, SMTT(20)
  <2> QED
    BY <2>3, <2>4
<1> QED
  BY <1>3, <1>4, <1>5

LEMMA EntriesType ==
    ASSUME M \in Modules, NEW t \in DOMAIN Kinds, NEW n \in DOMAIN M.blocks
    PROVE  Entries(t, n) \in Seq(Row(t)) /\ Len(Entries(t, n)) = Places(M, n)
<1>1. PICK p \in Nat : p = Places(M, n)
  BY PlacesType
<1> DEFINE e(q) == [k \in DOMAIN Kinds[t] |-> Cardinality(At(M, n, Kinds[t][k]) \cap InPlace(M, n, q))]
<1>2. ASSUME NEW q \in 1..p PROVE e(q) \in Row(t)
  <2>1. \A k \in DOMAIN Kinds[t] : Cardinality(At(M, n, Kinds[t][k]) \cap InPlace(M, n, q)) \in Nat
    BY Finite DEF InPlace
  <2> QED
    BY <2>1 DEF Row
<1>3. Entries(t, n) = [q \in 1..p |-> e(q)]
  BY <1>1 DEF Entries
<1> HIDE DEF e
<1> QED
  BY <1>1, <1>2, <1>3

-----------------------------------------------------------------------------
LEMMA InitWInv == Init => WInv
<1> SUFFICES ASSUME Init PROVE WInv
  OBVIOUS
<1>1. M \in Modules
  BY DEF Init
<1>2. Types
  <2>1. stray \in Nat /\ pc \in Phases /\ N \in Nat
    BY TimesAssumption DEF Init, Phases, N
  <2>2. blk \in 1..(Len(M.blocks) + 1)
    BY <1>1, BlockFacts DEF Init
  <2>3. DOMAIN counts = DOMAIN Kinds /\ \A t \in DOMAIN Kinds : counts[t] = <<>>
    BY DEF Init
  <2>4. \A S : <<>> \in Seq(S)
    OBVIOUS
  <2> QED
    BY <1>1, <2>1, <2>2, <2>3, <2>4 DEF Types, Init
<1>3. Walks
  BY <1>1, <1>2, BeforeNext, KindsType
     DEF Init, Types, Walks, Filling, ToMaths, ToJudge, ToInsKind, ToBinaryOP, N
<1> QED
  BY <1>2, <1>3 DEF WInv

LEMMA CountPlacesWInv == WInv /\ CountPlaces => WInv'
<1> SUFFICES ASSUME WInv, CountPlaces PROVE WInv'
  OBVIOUS
<1>1. /\ M \in Modules /\ pc = "getBBNum" /\ blk \in DOMAIN M.blocks
      /\ UNCHANGED <<M, order, stray, counts, isParaRegion>>
      /\ \/ pc' = "crashed" /\ BBNum' = BBNum /\ blk' = blk
         \/ pc' = pc /\ BBNum' = BBNum + Places(M, blk) /\ blk' = blk + 1
  BY DEF CountPlaces, input, WInv, Types
<1>2. Len(M.blocks) \in Nat /\ DOMAIN M.blocks = 1..Len(M.blocks) /\ Places(M, blk) \in Nat
  BY <1>1, BlockFacts, PlacesType
<1>3. Types'
  BY <1>1, <1>2 DEF WInv, Types, N, Regions, Phases
<1>4. Walks'
  <2>1. Before(M, blk + 1) = Before(M, blk) + Places(M, blk)
    BY <1>1, BeforeNext
  <2> QED
    BY <1>1, <2>1 DEF WInv, Walks, Filling, ToMaths, ToJudge, ToInsKind, ToBinaryOP, N, Ended
<1> QED
  BY <1>3, <1>4 DEF WInv

LEMMA CountInstructionsWInv == WInv /\ CountInstructions => WInv'
<1> SUFFICES ASSUME WInv, CountInstructions PROVE WInv'
  OBVIOUS
<1>1. PICK t \in DOMAIN Kinds :
          /\ \/ pc = "getMathInsNumInBB" /\ t = "maths"
             \/ pc = "getInsKind" /\ t = "memory"
             \/ pc = "getBinaryOPNum" /\ t = "arithmetic"
          /\ counts' = [counts EXCEPT ![t] = @ \o Entries(t, blk)]
  <2>1. /\ pc \in {"getMathInsNumInBB", "getInsKind", "getBinaryOPNum"}
        /\ counts' = [counts EXCEPT ![Filled[pc]] = @ \o Entries(Filled[pc], blk)]
    BY DEF CountInstructions, Filled
  <2>2. /\ Filled["getMathInsNumInBB"] = "maths" /\ Filled["getInsKind"] = "memory"
        /\ Filled["getBinaryOPNum"] = "arithmetic"
    BY DEF Filled
  <2> QED
    BY <2>1, <2>2, KindsType
<1>2. /\ M \in Modules /\ blk \in DOMAIN M.blocks /\ blk' = blk + 1
      /\ UNCHANGED <<M, order, stray, pc, BBNum, isParaRegion>>
      /\ DOMAIN counts = DOMAIN Kinds /\ \A u \in DOMAIN Kinds : counts[u] \in Seq(Row(u))
  BY DEF CountInstructions, input, WInv, Types
<1>3. Len(M.blocks) \in Nat /\ DOMAIN M.blocks = 1..Len(M.blocks) /\ Places(M, blk) \in Nat
  BY <1>2, BlockFacts, PlacesType
<1>4. Entries(t, blk) \in Seq(Row(t)) /\ Len(Entries(t, blk)) = Places(M, blk)
  BY <1>2, EntriesType
<1>5. /\ counts'[t] = counts[t] \o Entries(t, blk) /\ DOMAIN counts' = DOMAIN Kinds
      /\ \A u \in DOMAIN Kinds : u # t => counts'[u] = counts[u]
  BY <1>1, <1>2
<1>6. counts'[t] \in Seq(Row(t)) /\ Len(counts'[t]) = Len(counts[t]) + Places(M, blk)
  <2> DEFINE s == counts[t] e == Entries(t, blk) S == Row(t)
  <2>1. s \in Seq(S) /\ e \in Seq(S) /\ counts'[t] = s \o e
    BY <1>2, <1>4, <1>5
  <2> HIDE DEF s, e, S
  <2>2. counts'[t] \in Seq(S) /\ Len(counts'[t]) = Len(s) + Len(e)
    BY <2>1
  <2> QED
    BY <1>4, <2>2 DEF s, e, S
<1>7. Types'
  <2>1. blk' \in 1..(Len(M.blocks) + 1)
    BY <1>2, <1>3
  <2>2. \A u \in DOMAIN Kinds : counts'[u] \in Seq(Row(u))
    BY <1>2, <1>5, <1>6
  <2> QED
    BY <1>2, <1>5, <2>1, <2>2 DEF WInv, Types, N, Regions
<1>8. Walks'
  <2>1. Before(M, blk + 1) = Before(M, blk) + Places(M, blk)
    BY <1>2, BeforeNext
  <2>2. pc \notin Ended => Len(counts[t]) = Before(M, blk)
    BY <1>1 DEF WInv, Walks, Filling, ToMaths, ToJudge, ToInsKind, ToBinaryOP
  <2>3. Len(counts'[t]) = Before(M, blk')
    BY <1>1, <1>2, <1>6, <2>1, <2>2 DEF Ended
  <2> QED
    BY <1>1, <1>2, <1>5, <2>3, KindsType
       DEF WInv, Walks, Filling, ToMaths, ToJudge, ToInsKind, ToBinaryOP, N, Ended
<1> QED
  BY <1>7, <1>8 DEF WInv

LEMMA JudgeBlockWInv == WInv /\ JudgeBlock => WInv'
<1> SUFFICES ASSUME WInv, JudgeBlock PROVE WInv'
  OBVIOUS
<1> DEFINE p == Places(M, blk)
           e == [q \in 1..p |-> IF q < p THEN 0 ELSE RegionOf(M.blocks[blk].fn)]
<1>1. /\ M \in Modules /\ blk \in DOMAIN M.blocks /\ blk' = blk + 1 /\ pc = "judgeIsParallel"
      /\ UNCHANGED <<M, order, stray, pc, BBNum, counts>>
      /\ isParaRegion' = isParaRegion \o e /\ isParaRegion \in Seq(Regions)
  BY DEF JudgeBlock, input, WInv, Types
<1>2. Len(M.blocks) \in Nat /\ DOMAIN M.blocks = 1..Len(M.blocks) /\ p \in Nat
  BY <1>1, BlockFacts, PlacesType
<1>3. e \in Seq(Regions) /\ Len(e) = p
  <2>1. RegionOf(M.blocks[blk].fn) \in Regions /\ 0 \in Regions
    BY <1>1, RegionOfType, OutlinedType DEF WInv, Regions
  <2> HIDE DEF p
  <2>2. \A q \in 1..p : e[q] \in Regions
    BY <2>1
  <2>3. e = [q \in 1..p |-> e[q]]
    OBVIOUS
  <2> HIDE DEF e
  <2> QED
    BY <1>2, <2>2, <2>3
<1>4. isParaRegion' \in Seq(Regions) /\ Len(isParaRegion') = Len(isParaRegion) + p
  <2> DEFINE S == Regions
  <2>1. isParaRegion \in Seq(S) /\ e \in Seq(S) /\ isParaRegion' = isParaRegion \o e
    BY <1>1, <1>3
  <2> HIDE DEF e, S
  <2>2. isParaRegion' \in Seq(S) /\ Len(isParaRegion') = Len(isParaRegion) + Len(e)
    BY <2>1
  <2> QED
    BY <1>3, <2>2 DEF S
<1>5. Types'
  <2>1. Regions' = Regions
    BY <1>1 DEF Regions
  <2> QED
    BY <1>1, <1>2, <1>4, <2>1 DEF WInv, Types, N
<1>6. Walks'
  <2>1. Before(M, blk + 1) = Before(M, blk) + Places(M, blk)
    BY <1>1, BeforeNext
  <2>2. Len(isParaRegion) = Before(M, blk)
    BY <1>1 DEF WInv, Walks, Filling, ToJudge, ToMaths, Ended
  <2>3. Len(isParaRegion') = Before(M, blk')
    BY <1>1, <1>4, <2>1, <2>2
  <2> QED
    BY <1>1, <2>3 DEF WInv, Walks, Filling, ToMaths, ToJudge, ToInsKind, ToBinaryOP, N, Ended
<1> QED
  BY <1>5, <1>6 DEF WInv

\* The methods behind a walk.
LEMMA EndWalkWInv ==
    ASSUME NEW method, NEW next, WInv, EndWalk(method, next),
           <<method, next>> \in {<<"getBBNum", "getMathInsNumInBB">>,
                                 <<"getMathInsNumInBB", "getBBFrequency">>,
                                 <<"judgeIsParallel", "getInsKind">>,
                                 <<"getInsKind", "getBinaryOPNum">>,
                                 <<"getBinaryOPNum", "getMathInsNumTotal">>}
    PROVE  WInv'
<1>1. /\ M \in Modules /\ pc = method /\ pc' = next /\ blk \notin DOMAIN M.blocks /\ blk' = 1
      /\ UNCHANGED <<M, order, stray, BBNum, counts, isParaRegion>>
  BY DEF EndWalk, input, WInv, Types
<1>2. Len(M.blocks) \in Nat /\ DOMAIN M.blocks = 1..Len(M.blocks)
  BY <1>1, BlockFacts
<1>3. blk = Len(M.blocks) + 1
  BY <1>1, <1>2 DEF WInv, Types
<1>4. Before(M, blk) = NumPlaces(M) /\ Before(M, blk') = 0
  BY <1>1, <1>3, BeforeNext
<1>5. Types'
  BY <1>1, <1>2 DEF WInv, Types, N, Regions, Phases
<1>6. Walks'
  BY <1>1, <1>4 DEF WInv, Walks, Filling, ToMaths, ToJudge, ToInsKind, ToBinaryOP, N, Ended
<1> QED
  BY <1>5, <1>6 DEF WInv

LEMMA EndWalksWInv ==
    WInv /\ (GetBBNum \/ GetMathInsNumInBB \/ EndJudge \/ GetInsKind \/ GetBinaryOPNum) => WInv'
<1>1. WInv /\ GetBBNum => WInv'
  BY EndWalkWInv DEF GetBBNum
<1>2. WInv /\ GetMathInsNumInBB => WInv'
  BY EndWalkWInv DEF GetMathInsNumInBB
<1>3. WInv /\ EndJudge => WInv'
  BY EndWalkWInv DEF EndJudge
<1>4. WInv /\ GetInsKind => WInv'
  BY EndWalkWInv DEF GetInsKind
<1>5. WInv /\ GetBinaryOPNum => WInv'
  BY EndWalkWInv DEF GetBinaryOPNum
<1> QED
  BY <1>1, <1>2, <1>3, <1>4, <1>5

\* Other steps leave the tables the walks fill, and come to no other walk but
\* judgeIsParallel.
Walkless ==
    \/ pc = "getBBFrequency" /\ pc' \in {pc, "judgeIsParallel", "exhausted"}
    \/ pc = "getMathInsNumTotal" /\ pc' = "memory"
    \/ pc \in {"memory", "arithmetic", "maths", "parallel"}
       /\ pc' \in {"memory", "arithmetic", "maths", "parallel", "done", "crashed"}
    \/ pc' = pc

LEMMA OtherWInv ==
    ASSUME WInv, Walkless, UNCHANGED <<M, order, stray, BBNum, counts, isParaRegion, blk>>
    PROVE  WInv'
<1>1. Types'
  BY DEF WInv, Types, Walkless, N, Regions, Phases
<1>2. Walks'
  <2>1. M \in Modules
    BY DEF WInv, Types
  <2>2. Before(M, 1) = 0
    BY <2>1, BeforeNext
  <2> QED
    BY <2>2 DEF WInv, Types, Walks, Walkless, Filling, ToMaths, ToJudge, ToInsKind, ToBinaryOP, N, Ended, Phases
<1> QED
  BY <1>1, <1>2 DEF WInv

Others == \/ ReadNumber \/ ReadUnopened \/ EndRead \/ GetMathInsNumTotal
          \/ AddMemory \/ EndMemory \/ AddTime("arithmetic") \/ EndArithmetic
          \/ AddTime("maths") \/ EndMaths \/ AddRegion \/ Finish \/ UNCHANGED vars

LEMMA OthersWalk ==
    Others => Walkless /\ UNCHANGED <<M, order, stray, BBNum, counts, isParaRegion, blk>>
<1> USE DEF Walkless, input, stream, serial
<1>1. (ReadNumber \/ ReadUnopened \/ EndRead) =>
          Walkless /\ UNCHANGED <<M, order, stray, BBNum, counts, isParaRegion, blk>>
  BY DEF ReadNumber, ReadUnopened, EndRead
<1>2. (GetMathInsNumTotal \/ EndMemory \/ EndArithmetic \/ EndMaths) =>
          Walkless /\ UNCHANGED <<M, order, stray, BBNum, counts, isParaRegion, blk>>
  BY DEF GetMathInsNumTotal, EndMemory, EndArithmetic, EndMaths, EndTable
<1>3. (AddMemory \/ AddTime("arithmetic") \/ AddTime("maths")) =>
          Walkless /\ UNCHANGED <<M, order, stray, BBNum, counts, isParaRegion, blk>>
  BY DEF AddMemory, AddTime, AddEntry
<1>4. (AddRegion \/ Finish) =>
          Walkless /\ UNCHANGED <<M, order, stray, BBNum, counts, isParaRegion, blk>>
  BY DEF AddRegion, Finish
<1>5. UNCHANGED vars => Walkless /\ UNCHANGED <<M, order, stray, BBNum, counts, isParaRegion, blk>>
  BY DEF vars
<1> QED
  BY <1>1, <1>2, <1>3, <1>4, <1>5 DEF Others

LEMMA NextWInv == WInv /\ [Next]_vars => WInv'
<1>1. [Next]_vars => \/ CountPlaces \/ CountInstructions \/ JudgeBlock \/ Others
                     \/ GetBBNum \/ GetMathInsNumInBB \/ EndJudge \/ GetInsKind \/ GetBinaryOPNum
  BY DEF Next, Others
<1> QED
  BY <1>1, CountPlacesWInv, CountInstructionsWInv, JudgeBlockWInv, EndWalksWInv, OthersWalk, OtherWInv


-----------------------------------------------------------------------------
(* Reading the profile.                                                    *)

Numbers == M.file.numbers
R       == Len(BBFreq)
L       == Len(thread)

\* The methods before the profile is read, and those behind it.
Early  == {"getBBNum", "getMathInsNumInBB"}
Behind == {"judgeIsParallel", "getInsKind", "getBinaryOPNum", "getMathInsNumTotal",
           "memory", "arithmetic", "maths", "parallel", "done"}

Unread == pc \in Early => read = 0 /\ eof = FALSE /\ num = 0 /\ thread = <<>> /\ BBFreq = <<>>

\* The rows read are complete and as the run counted them.
Rowed ==
    /\ BBFreq \in Seq(Seq(Nat))
    /\ \A c \in 1..R : BBFreq[c] = [p \in 1..N |-> M.freq[(c - 1) * N + p]]

\* What was read is in the rows and in the row in hand; when the end of the
\* file was looked for, the last number of the latter is there twice.
Reading ==
    pc = "getBBFrequency" =>
        /\ read \in 0..Numbers /\ num \in Nat /\ eof \in BOOLEAN
        /\ thread \in Seq(Nat) /\ L <= N
        /\ R * N + L = read \/ (eof /\ R * N + L = read + 1)
        /\ \A p \in 1..L : R * N + p <= read => thread[p] = M.freq[R * N + p]
        /\ eof => /\ L >= 1 /\ read = Numbers
                  /\ M.file.space => R * N + L = read + 1
        /\ Rowed

Read ==
    pc \in Behind =>
        /\ Rowed
        /\ R * N <= Numbers
        /\ Numbers = Len(M.freq) => R * N = Len(M.freq)

RInv == Unread /\ Reading /\ Read

LEMMA Profile ==
    ASSUME M \in Modules
    PROVE  /\ NumPlaces(M) \in Nat \ {0} /\ M.freq \in Seq(Nat) /\ Len(M.freq) \in Nat
           /\ Len(M.freq) % NumPlaces(M) = 0
           /\ Numbers \in 0..Len(M.freq) /\ \A n \in 1..Len(M.freq) : M.freq[n] \in Nat
           /\ Numbers = Len(M.freq) => M.file.space
<1>1. WellFormed(M) /\ NumPlaces(M) \in Nat \ {0}
  BY ModulesAssumption, SomePlace
<1>2. M.freq \in Seq(Nat) /\ Len(M.freq) % NumPlaces(M) = 0 /\ M.file.numbers \in 0..Len(M.freq)
      /\ (M.file.numbers = Len(M.freq) => M.file.space)
  BY <1>1 DEF WellFormed
<1>3. Len(M.freq) \in Nat /\ \A n \in 1..Len(M.freq) : M.freq[n] \in Nat
  BY <1>2
<1> QED
  BY <1>1, <1>2, <1>3 DEF Numbers

\* The number n is pushed.
LEMMA Pushing ==
    ASSUME M \in Modules, N = NumPlaces(M), Rowed, thread \in Seq(Nat), L <= N, NEW n \in Nat, Push(n),
           NEW s \in Nat, R * N + L = s,
           \A p \in 1..L : thread[p] = M.freq[R * N + p],
           M' = M, BBNum' = BBNum
    PROVE  /\ Rowed' /\ thread' \in Seq(Nat) /\ L' \in 1..N /\ R' * N + L' = s + 1
           /\ thread'[L'] = n
           /\ \A p \in 1..(L' - 1) : thread'[p] = M.freq[R' * N + p]
<1>1. /\ N \in Nat \ {0} /\ R \in Nat /\ L \in Nat /\ N' = N /\ BBFreq \in Seq(Seq(Nat))
      /\ DOMAIN thread = 1..L
  BY Profile DEF Rowed, R, L, N
<1>2. CASE L < N
  <2>1. thread' = Append(thread, n) /\ BBFreq' = BBFreq
    BY <1>2 DEF Push, L, N
  <2>2. R' = R /\ L' = L + 1 /\ thread' \in Seq(Nat)
    BY <2>1 DEF R, L
  <2>3. thread'[L + 1] = n /\ \A p \in 1..L : thread'[p] = thread[p]
    BY <2>1 DEF L
  <2>4. Rowed'
    BY <1>1, <2>1, <2>2 DEF Rowed
  <2>5. R' * N + L' = s + 1 /\ L' \in 1..N
    BY <1>1, <1>2, <2>2
  <2>6. \A p \in 1..(L' - 1) : thread'[p] = M.freq[R' * N + p]
    <3>1. R' * N = R * N /\ L' - 1 = L
      BY <1>1, <2>2
    <3> QED
      BY <2>3, <3>1
  <2> QED
    BY <2>2, <2>3, <2>4, <2>5, <2>6
<1>3. CASE ~(L < N)
  <2>1. thread' = <<n>> /\ BBFreq' = Append(BBFreq, thread) /\ L = N
    BY <1>1, <1>3 DEF Push, L, N
  <2>2. R' = R + 1 /\ L' = 1 /\ thread' \in Seq(Nat) /\ thread'[1] = n
    BY <1>1, <2>1 DEF R, L
  <2>3. BBFreq' \in Seq(Seq(Nat)) /\ BBFreq'[R + 1] = thread /\ \A c \in 1..R : BBFreq'[c] = BBFreq[c]
    BY <1>1, <2>1 DEF R
  <2>4. ASSUME NEW c, c = R + 1 PROVE thread = [p \in 1..N |-> M.freq[(c - 1) * N + p]]
    <3>1. thread = [p \in 1..N |-> thread[p]]
      BY <1>1, <2>1
    <3>2. (c - 1) * N = R * N
      BY <1>1, <2>4
    <3>3. \A p \in 1..N : thread[p] = M.freq[(c - 1) * N + p]
      BY <2>1, <3>2
    <3> QED
      BY <3>1, <3>3
  <2>5. Rowed'
    <3>1. ASSUME NEW c \in 1..(R + 1)
          PROVE  BBFreq'[c] = [p \in 1..N |-> M.freq[(c - 1) * N + p]]
      <4>1. CASE c = R + 1
        <5>1. thread = [p \in 1..N |-> M.freq[(c - 1) * N + p]]
          BY <2>4, <4>1
        <5>2. BBFreq'[c] = thread
          BY <2>3, <4>1
        <5> QED
          BY <5>1, <5>2, Zenon
      <4>2. CASE c # R + 1
        <5>1. c \in 1..R
          BY <1>1, <4>2
        <5> QED
          BY <2>3, <5>1, Zenon DEF Rowed
      <4> QED
        BY <4>1, <4>2
    <3>2. \A c \in 1..R' : BBFreq'[c] = [p \in 1..N' |-> M'.freq[(c - 1) * N' + p]]
      BY <1>1, <2>2, <3>1, Zenon
    <3> QED
      BY <2>3, <3>2, Zenon DEF Rowed
  <2>6. R' * N + L' = s + 1
    <3>1. (R + 1) * N = R * N + N
      BY <1>1
    <3> QED
      BY <1>1, <2>1, <2>2, <3>1
  <2> QED
    BY <1>1, <2>2, <2>5, <2>6
<1> QED
  BY <1>2, <1>3

LEMMA ReadNumberRInv == WInv /\ RInv /\ ReadNumber => RInv'
<1> SUFFICES ASSUME WInv, RInv, ReadNumber PROVE RInv'
  OBVIOUS
<1>1. /\ M \in Modules /\ pc = "getBBFrequency" /\ pc' = pc /\ M' = M /\ BBNum' = BBNum
      /\ N = NumPlaces(M) /\ ~eof /\ Push(num')
      /\ IF read = Numbers
         THEN eof' = TRUE /\ read' = read /\ num' = num
         ELSE read' = read + 1 /\ num' = M.freq[read'] /\ eof' = (read' = Numbers /\ ~M.file.space)
  BY DEF WInv, Types, Walks, Filling, Ended, ReadNumber, input, Numbers, N
<1>2. /\ read \in 0..Numbers /\ num \in Nat /\ thread \in Seq(Nat) /\ L <= N
      /\ R * N + L = read /\ Rowed
      /\ \A p \in 1..L : R * N + p <= read => thread[p] = M.freq[R * N + p]
  BY <1>1 DEF RInv, Reading
<1>3. /\ N \in Nat \ {0} /\ Numbers \in 0..Len(M.freq) /\ Len(M.freq) \in Nat
      /\ \A n \in 1..Len(M.freq) : M.freq[n] \in Nat
  BY <1>1, Profile
<1>4. /\ read' \in 0..Numbers /\ num' \in Nat /\ eof' \in BOOLEAN
      /\ eof' => read' = Numbers
  <2>1. read # Numbers => read + 1 \in 1..Len(M.freq) /\ read + 1 \in 0..Numbers
    BY <1>2, <1>3
  <2> QED
    BY <1>1, <1>2, <1>3, <2>1
<1>5. R \in Nat /\ L \in Nat
  BY <1>2 DEF R, L, Rowed
<1>6. \A p \in 1..L : thread[p] = M.freq[R * N + p]
  <2> SUFFICES ASSUME NEW p \in 1..L PROVE R * N + p <= read
    BY <1>2
  <2>1. R * N \in Nat
    BY <1>3, <1>5
  <2> QED
    BY <1>2, <1>5, <2>1
<1>7. /\ Rowed' /\ thread' \in Seq(Nat) /\ L' \in 1..N /\ R' * N + L' = read + 1
      /\ thread'[L'] = num'
      /\ \A p \in 1..(L' - 1) : thread'[p] = M.freq[R' * N + p]
  <2>1. PICK n \in Nat : n = num'
    BY <1>4
  <2>2. PICK s \in Nat : s = read
    BY <1>2, <1>3
  <2>3. Push(n) /\ R * N + L = s
    BY <1>1, <1>2, <2>1, <2>2
  <2>4. /\ Rowed' /\ thread' \in Seq(Nat) /\ L' \in 1..N /\ R' * N + L' = s + 1
        /\ thread'[L'] = n
        /\ \A p \in 1..(L' - 1) : thread'[p] = M.freq[R' * N + p]
    BY <1>1, <1>2, <1>6, <2>3, Pushing
  <2> QED
    BY <2>1, <2>2, <2>4
<1>8. R' * N \in Nat
  <2>1. R' \in Nat
    BY <1>7 DEF Rowed, R
  <2>2. PICK r \in Nat : r = R'
    BY <2>1
  <2>3. r * N \in Nat
    BY <1>3
  <2> QED
    BY <2>2, <2>3
<1>9. N' = N /\ Numbers' = Numbers
  BY <1>1 DEF N, Numbers
<1>10. \A p \in 1..L' : R' * N + p <= read' => thread'[p] = M.freq[R' * N + p]
  <2> SUFFICES ASSUME NEW p \in 1..L', R' * N + p <= read' PROVE thread'[p] = M.freq[R' * N + p]
    OBVIOUS
  <2>1. CASE p = L'
    <3>1. read # Numbers /\ R' * N + p = read'
      BY <1>1, <1>2, <1>3, <1>7, <1>8, <2>1
    <3> QED
      BY <1>1, <1>7, <2>1, <3>1
  <2>2. CASE p # L'
    <3>2. PICK l \in Nat : l = L'
      BY <1>3, <1>7
    <3>4. p \in Nat /\ 1 <= p /\ p <= l /\ p # l
      BY <2>2, <3>2
    <3>3. p \in 1..(l - 1)
      BY <3>4
    <3>1. p \in 1..(L' - 1)
      BY <3>2, <3>3
    <3> QED
      BY <1>7, <3>1
  <2> QED
    BY <2>1, <2>2
<1>11. /\ R' * N + L' = read' \/ (eof' /\ R' * N + L' = read' + 1)
       /\ eof' /\ M.file.space => R' * N + L' = read' + 1
  BY <1>1, <1>7
<1>12. Reading'
  <2>1. R' * N' = R' * N
    BY <1>9
  <2>2. M'.freq = M.freq /\ M'.file = M.file
    BY <1>1
  <2>3. L' <= N' /\ (eof' => L' >= 1)
    BY <1>7, <1>9, <1>3
  <2> QED
    BY <1>4, <1>7, <1>9, <1>10, <1>11, <2>1, <2>2, <2>3 DEF Reading
<1>13. Unread' /\ Read'
  BY <1>1 DEF Unread, Read, Behind, Early
<1> QED
  BY <1>12, <1>13 DEF RInv

LEMMA EndReadRInv == WInv /\ RInv /\ EndRead => RInv'
<1> SUFFICES ASSUME WInv, RInv, EndRead PROVE RInv'
  OBVIOUS
<1>1. /\ M \in Modules /\ pc = "getBBFrequency" /\ pc' = "judgeIsParallel" /\ M' = M
      /\ BBNum' = BBNum /\ BBFreq' = BBFreq /\ eof /\ N = NumPlaces(M)
  BY DEF WInv, Types, Walks, Filling, Ended, EndRead, input, N
<1>2. /\ Rowed /\ L >= 1 /\ L <= N /\ read = Numbers /\ thread \in Seq(Nat)
      /\ R * N + L = read \/ R * N + L = read + 1
      /\ M.file.space => R * N + L = read + 1
  BY <1>1 DEF RInv, Reading
<1>3. R \in Nat /\ L \in Nat /\ N \in Nat \ {0} /\ R * N \in Nat /\ Numbers \in 0..Len(M.freq)
      /\ Len(M.freq) \in Nat
  <2>1. R \in Nat /\ L \in Nat
    BY <1>2 DEF R, L, Rowed
  <2>2. N \in Nat \ {0} /\ Numbers \in 0..Len(M.freq) /\ Len(M.freq) \in Nat
    BY <1>1, Profile
  <2>3. R * N \in Nat
    BY <2>1, <2>2
  <2> QED
    BY <2>1, <2>2, <2>3
<1>4. R * N <= Numbers
  BY <1>2, <1>3
<1>5. ASSUME Numbers = Len(M.freq) PROVE R * N = Len(M.freq)
  <2>1. Len(M.freq) % N = 0 /\ M.file.space
    BY <1>1, <1>5, Profile
  <2>2. L \in 1..N /\ R * N + L = Len(M.freq) + 1
    BY <1>2, <1>3, <1>5, <2>1
  <2> QED
    BY <1>3, <2>1, <2>2, Multiple
<1>6. N' = N /\ R' = R /\ Numbers' = Numbers /\ Rowed' /\ M'.freq = M.freq
  BY <1>1, <1>2 DEF N, R, Numbers, Rowed
<1>7. Read'
  BY <1>4, <1>5, <1>6 DEF Read
<1>8. Unread' /\ Reading'
  BY <1>1 DEF Unread, Reading, Early
<1> QED
  BY <1>7, <1>8 DEF RInv

LEMMA EarlyRInv ==
    ASSUME RInv, pc \in Early, pc' \in Early \cup {"crashed"}, UNCHANGED stream
    PROVE  RInv'
  BY DEF RInv, Unread, Reading, Read, Early, Behind, stream

LEMMA GetMathInsNumInBBRInv == WInv /\ RInv /\ GetMathInsNumInBB => RInv'
<1> SUFFICES ASSUME WInv, RInv, GetMathInsNumInBB PROVE RInv'
  OBVIOUS
<1>1. /\ M \in Modules /\ pc = "getMathInsNumInBB" /\ pc' = "getBBFrequency" /\ N = NumPlaces(M)
      /\ M' = M /\ BBNum' = BBNum
      /\ read' = 0 /\ eof' = FALSE /\ num' = 0 /\ thread' = <<>> /\ BBFreq' = <<>>
  BY DEF RInv, WInv, Types, Walks, Filling, Ended, Unread, GetMathInsNumInBB, EndWalk, Early, input, stream, N
<1>2. Reading'
  <2>1. N' = N /\ N \in Nat \ {0} /\ Numbers' = Numbers /\ Numbers \in Nat
    BY <1>1, Profile DEF N, Numbers
  <2>2. R' = 0 /\ L' = 0
    BY <1>1 DEF R, L
  <2>3. Rowed'
    BY <1>1, <2>2 DEF Rowed
  <2>4. R' * N' + L' = read' /\ L' <= N'
    BY <1>1, <2>1, <2>2
  <2>5. thread' \in Seq(Nat) /\ read' \in 0..Numbers' /\ num' \in Nat /\ eof' = FALSE
    BY <1>1, <2>1
  <2>6. \A p \in 1..L' : FALSE
    BY <2>2
  <2> QED
    BY <2>3, <2>4, <2>5, <2>6 DEF Reading
<1>3. Unread' /\ Read'
  BY <1>1 DEF Unread, Read, Behind, Early
<1> QED
  BY <1>2, <1>3 DEF RInv

\* What comes behind the reading leaves the rows.
LEMMA BehindRInv ==
    ASSUME RInv, pc \in Behind, pc' \in Behind \cup {"crashed"}, UNCHANGED <<M, BBNum, BBFreq>>
    PROVE  RInv'
<1>1. Unread' /\ Reading'
  BY DEF Unread, Reading, Behind, Early
<1>2. Read'
  <2>1. Rowed' = Rowed /\ N' = N /\ R' = R /\ Numbers' = Numbers
    BY DEF Rowed, N, R, Numbers
  <2> QED
    BY <2>1 DEF RInv, Read
<1> QED
  BY <1>1, <1>2 DEF RInv

LEMMA LaterRInv ==
    RInv /\ (\/ JudgeBlock \/ EndJudge \/ GetInsKind \/ GetBinaryOPNum \/ GetMathInsNumTotal
             \/ AddMemory \/ EndMemory \/ AddTime("arithmetic") \/ EndArithmetic
             \/ AddTime("maths") \/ EndMaths \/ AddRegion \/ Finish) => RInv'
<1> USE DEF input, stream, Behind
<1>1. RInv /\ (JudgeBlock \/ EndJudge) => RInv'
  BY BehindRInv DEF JudgeBlock, EndJudge, EndWalk
<1>2. RInv /\ (GetInsKind \/ GetBinaryOPNum \/ GetMathInsNumTotal) => RInv'
  BY BehindRInv DEF GetInsKind, GetBinaryOPNum, EndWalk, GetMathInsNumTotal
<1>3. RInv /\ (AddMemory \/ AddTime("arithmetic") \/ AddTime("maths")) => RInv'
  BY BehindRInv DEF AddMemory, AddTime, AddEntry
<1>4. RInv /\ (EndMemory \/ EndArithmetic \/ EndMaths) => RInv'
  BY BehindRInv DEF EndMemory, EndArithmetic, EndMaths, EndTable
<1>5. RInv /\ (AddRegion \/ Finish) => RInv'
  BY BehindRInv DEF AddRegion, Finish
<1> QED
  BY <1>1, <1>2, <1>3, <1>4, <1>5

LEMMA StutterRInv == RInv /\ UNCHANGED <<M, pc, BBNum, stream>> => RInv'
<1> SUFFICES ASSUME RInv, UNCHANGED <<M, pc, BBNum, stream>> PROVE RInv'
  OBVIOUS
<1>1. /\ Rowed' = Rowed /\ N' = N /\ R' = R /\ L' = L /\ Numbers' = Numbers
      /\ UNCHANGED <<M, pc, read, eof, num, thread, BBFreq>>
  BY DEF Rowed, N, R, L, Numbers, stream
<1>2. Unread' /\ Reading' /\ Read'
  BY <1>1 DEF RInv, Unread, Reading, Read
<1> QED
  BY <1>2 DEF RInv

LEMMA NextRInv == WInv /\ RInv /\ [Next]_vars => RInv'
<1> USE DEF input, stream
<1>1. RInv /\ CountPlaces => RInv'
  BY EarlyRInv DEF CountPlaces, Early
<1>2. RInv /\ GetBBNum => RInv'
  BY EarlyRInv DEF GetBBNum, EndWalk, Early
<1>3. RInv /\ CountInstructions => RInv'
  BY StutterRInv DEF CountInstructions
<1>4. RInv /\ ReadUnopened => RInv'
  BY DEF ReadUnopened, RInv, Unread, Reading, Read, Early, Behind
<1>5. RInv /\ UNCHANGED vars => RInv'
  BY StutterRInv DEF vars
<1> QED
  BY <1>1, <1>2, <1>3, <1>4, <1>5, GetMathInsNumInBBRInv, ReadNumberRInv, EndReadRInv, LaterRInv DEF Next

LEMMA InitRInv == Init => RInv
<1> SUFFICES ASSUME Init PROVE RInv
  OBVIOUS
<1> QED
  BY DEF Init, RInv, Unread, Reading, Read, Early, Behind

-----------------------------------------------------------------------------
(* The stream, in all states.                                              *)

Stream ==
    /\ read \in 0..Numbers /\ eof \in BOOLEAN /\ num \in Nat
    /\ thread \in Seq(Nat) /\ L <= N /\ BBFreq \in Seq(Seq(Nat))

LEMMA NextStream == WInv /\ RInv /\ Stream /\ [Next]_vars => Stream'
<1> SUFFICES ASSUME WInv, RInv, Stream, [Next]_vars PROVE Stream'
  OBVIOUS
<1>1. CASE UNCHANGED <<M, BBNum, stream>>
  <2>1. UNCHANGED <<Numbers, N, L, read, eof, num, thread, BBFreq>>
    BY <1>1 DEF Numbers, N, L, stream
  <2> QED
    BY <2>1 DEF Stream
<1>2. CASE ReadNumber
  <2>1. RInv' /\ pc' = "getBBFrequency"
    BY <1>2, NextRInv DEF ReadNumber, RInv, Reading
  <2> QED
    BY <2>1 DEF RInv, Reading, Rowed, Stream
<1>3. CASE EndRead
  <2>1. /\ UNCHANGED <<Numbers, N, read, eof, num, BBFreq>> /\ thread' = Front(thread)
        /\ L >= 1
    BY <1>3 DEF EndRead, input, Numbers, N, RInv, Reading
  <2>2. thread' = SubSeq(thread, 1, L - 1)
    BY <2>1 DEF Front, L
  <2>3. thread' \in Seq(Nat) /\ Len(thread') = L - 1 /\ L \in Nat /\ L <= N
    <3>1. \A s \in Seq(Nat) : \A l \in 0..Len(s) : SubSeq(s, 1, l) \in Seq(Nat) /\ Len(SubSeq(s, 1, l)) = l
      OBVIOUS
    <3>2. thread \in Seq(Nat) /\ L \in Nat /\ L <= N
      BY DEF Stream, L
    <3>3. L - 1 \in 0..Len(thread)
      BY <2>1, <3>2 DEF L
    <3> QED
      BY <2>2, <3>1, <3>2, <3>3
  <2>4. L' <= N' /\ thread' \in Seq(Nat)
    BY <2>1, <2>3 DEF WInv, Types, L
  <2> QED
    BY <2>1, <2>4 DEF Stream
<1>4. CASE CountPlaces
  <2>1. UNCHANGED <<M, stream>> /\ pc = "getBBNum"
    BY <1>4 DEF CountPlaces, input
  <2>2. N' \in Nat
    BY NextWInv DEF WInv, Types
  <2>3. L' = 0 /\ Numbers' = Numbers
    BY <2>1 DEF RInv, Unread, Early, stream, L, Numbers
  <2> QED
    BY <2>1, <2>2, <2>3 DEF Stream, stream
<1>5. UNCHANGED <<M, BBNum, stream>> \/ ReadNumber \/ EndRead \/ CountPlaces
  <2> USE DEF input
  <2>1. (GetBBNum \/ GetMathInsNumInBB \/ EndJudge \/ GetInsKind \/ GetBinaryOPNum)
            => UNCHANGED <<M, BBNum, stream>>
    BY DEF GetBBNum, GetMathInsNumInBB, EndJudge, GetInsKind, GetBinaryOPNum, EndWalk
  <2>2. (CountInstructions \/ JudgeBlock \/ ReadUnopened \/ GetMathInsNumTotal)
            => UNCHANGED <<M, BBNum, stream>>
    BY DEF CountInstructions, JudgeBlock, ReadUnopened, GetMathInsNumTotal
  <2>3. (AddMemory \/ AddTime("arithmetic") \/ AddTime("maths")) => UNCHANGED <<M, BBNum, stream>>
    BY DEF AddMemory, AddTime, AddEntry
  <2>4. (EndMemory \/ EndArithmetic \/ EndMaths \/ AddRegion \/ Finish)
            => UNCHANGED <<M, BBNum, stream>>
    BY DEF EndMemory, EndArithmetic, EndMaths, EndTable, AddRegion, Finish
  <2>5. UNCHANGED vars => UNCHANGED <<M, BBNum, stream>>
    BY DEF vars
  <2> QED
    BY <2>1, <2>2, <2>3, <2>4, <2>5 DEF Next
<1> QED
  BY <1>1, <1>2, <1>3, <1>4, <1>5

LEMMA InitStream == Init => Stream
<1> SUFFICES ASSUME Init PROVE Stream
  OBVIOUS
<1>1. M \in Modules /\ N = 0 /\ read = 0 /\ eof = FALSE /\ num = 0 /\ thread = <<>> /\ BBFreq = <<>>
  BY DEF Init, N
<1>2. Numbers \in Nat
  BY <1>1, Profile
<1>3. L = 0 /\ thread \in Seq(Nat) /\ BBFreq \in Seq(Seq(Nat))
  BY <1>1 DEF L
<1>4. read \in 0..Numbers /\ num \in Nat /\ L <= N
  BY <1>1, <1>2, <1>3
<1>5. eof \in BOOLEAN
  BY <1>1
<1> QED
  BY <1>3, <1>4, <1>5 DEF Stream

-----------------------------------------------------------------------------
(* The judgement of places.                                                *)

JudgedOf(n) ==
    \A q \in 1..Places(M, n) :
        isParaRegion[Before(M, n) + q] =
            IF q < Places(M, n) THEN 0 ELSE RegionOf(M.blocks[n].fn)

Judged ==
    /\ pc = "judgeIsParallel" => \A n \in DOMAIN M.blocks : n < blk => JudgedOf(n)
    /\ pc = "getInsKind" => \A n \in DOMAIN M.blocks : JudgedOf(n)

LEMMA SameJudgedOf ==
    UNCHANGED <<M, order, isParaRegion>> => \A n : JudgedOf(n)' = JudgedOf(n)
<1> SUFFICES ASSUME UNCHANGED <<M, order, isParaRegion>>, NEW n PROVE JudgedOf(n)' = JudgedOf(n)
  OBVIOUS
<1>1. RegionOf(M.blocks[n].fn)' = RegionOf(M.blocks[n].fn)
  BY DEF RegionOf, parallelRegion
<1> QED
  BY <1>1 DEF JudgedOf

LEMMA JudgeBlockJudged == WInv /\ Judged /\ JudgeBlock => Judged'
<1> SUFFICES ASSUME WInv, Judged, JudgeBlock PROVE Judged'
  OBVIOUS
<1> DEFINE p == Places(M, blk)
           r == RegionOf(M.blocks[blk].fn)
           e == [q \in 1..p |-> IF q < p THEN 0 ELSE r]
           l == Len(isParaRegion)
<1>1. /\ M \in Modules /\ blk \in DOMAIN M.blocks /\ blk' = blk + 1 /\ pc = "judgeIsParallel" /\ pc' = pc
      /\ UNCHANGED <<M, order>> /\ isParaRegion' = isParaRegion \o e /\ isParaRegion \in Seq(Regions)
  BY DEF JudgeBlock, input, WInv, Types
<1>2. /\ Len(M.blocks) \in Nat /\ DOMAIN M.blocks = 1..Len(M.blocks) /\ p \in Nat
      /\ l = Before(M, blk) /\ l \in Nat
  <2>1. Len(isParaRegion) = Before(M, blk)
    BY <1>1 DEF WInv, Walks, Filling, ToJudge, ToMaths, Ended
  <2> QED
    BY <1>1, <2>1, BlockFacts, PlacesType
<1>3. /\ \A j \in 1..l : isParaRegion'[j] = isParaRegion[j]
      /\ \A q \in 1..p : isParaRegion'[l + q] = IF q < p THEN 0 ELSE r
  <2> DEFINE S == Regions
  <2>1. isParaRegion \in Seq(S) /\ isParaRegion' = isParaRegion \o e /\ e \in Seq({0, r}) /\ Len(e) = p
    <3> HIDE DEF p, r
    <3> QED
      BY <1>1, <1>2
  <2>2. \A q \in 1..p : e[q] = IF q < p THEN 0 ELSE r
    OBVIOUS
  <2> HIDE DEF e, S, p, r
  <2> QED
    BY <2>1, <2>2
<1> HIDE DEF e
<1>4. ASSUME NEW n \in DOMAIN M.blocks, n < blk' PROVE JudgedOf(n)'
  <2>1. RegionOf(M.blocks[n].fn)' = RegionOf(M.blocks[n].fn)
    BY <1>1 DEF RegionOf, parallelRegion
  <2>2. CASE n = blk
    BY <1>1, <1>2, <1>3, <2>1, <2>2 DEF JudgedOf
  <2>3. CASE n # blk
    <3>1. n < blk /\ JudgedOf(n)
      BY <1>1, <1>2, <1>4, <2>3 DEF Judged
    <3>2. Before(M, n + 1) = Before(M, n) + Places(M, n) /\ Before(M, n) \in Nat /\ Places(M, n) \in Nat
      BY <1>1, BeforeNext, PlacesType
    <3>3. Before(M, n + 1) <= l
      <4>1. blk \in 1..(Len(M.blocks) + 1) /\ n + 1 \in 1..blk
        BY <1>1, <1>2, <3>1
      <4> QED
        BY <1>1, <1>2, <4>1, BeforeGrows
    <3>4. ASSUME NEW q \in 1..Places(M, n)
          PROVE  isParaRegion'[Before(M, n) + q] = isParaRegion[Before(M, n) + q]
      <4>1. Before(M, n) + q \in 1..l
        BY <1>2, <3>2, <3>3
      <4> QED
        BY <1>3, <4>1
    <3> QED
      BY <1>1, <2>1, <3>1, <3>4 DEF JudgedOf
  <2> QED
    BY <2>2, <2>3
<1> QED
  BY <1>1, <1>4 DEF Judged

LEMMA NextJudged == WInv /\ Judged /\ [Next]_vars => Judged'
<1> SUFFICES ASSUME WInv, Judged, [Next]_vars PROVE Judged'
  OBVIOUS
<1> USE DEF input
<1>1. CASE pc' \notin {"judgeIsParallel", "getInsKind"}
  BY <1>1 DEF Judged
<1>2. CASE JudgeBlock
  BY <1>2, JudgeBlockJudged
<1>3. CASE EndJudge
  <2>1. /\ pc = "judgeIsParallel" /\ pc' = "getInsKind" /\ UNCHANGED <<M, order, isParaRegion>>
        /\ M \in Modules /\ blk \notin DOMAIN M.blocks
    BY <1>3 DEF EndJudge, EndWalk, WInv, Types
  <2>2. \A n \in DOMAIN M.blocks : n < blk
    <3>1. PICK l \in Nat : l = Len(M.blocks) /\ DOMAIN M.blocks = 1..l
      BY <2>1, BlockFacts
    <3>2. blk \in 1..(l + 1) /\ blk \notin 1..l
      BY <2>1, <3>1 DEF WInv, Types
    <3> QED
      BY <3>1, <3>2
  <2>3. \A n : JudgedOf(n)' = JudgedOf(n)
    BY <2>1, SameJudgedOf
  <2> QED
    BY <2>1, <2>2, <2>3 DEF Judged
<1>4. CASE EndRead
  <2>1. pc = "getBBFrequency" /\ pc' = "judgeIsParallel" /\ blk' = blk /\ M' = M
    BY <1>4 DEF EndRead
  <2>2. blk' = 1 /\ M \in Modules
    BY <2>1 DEF WInv, Walks, Types, Ended
  <2>3. \A n \in DOMAIN M.blocks : ~(n < 1)
    <3>1. PICK l \in Nat : DOMAIN M.blocks = 1..l
      BY <2>2, BlockFacts
    <3> QED
      BY <3>1
  <2> QED
    BY <2>1, <2>2, <2>3 DEF Judged
<1>5. CASE CountInstructions
  <2>1. UNCHANGED <<pc, M, order, isParaRegion>> /\ pc # "judgeIsParallel"
    BY <1>5 DEF CountInstructions, Filled
  <2>2. \A n : JudgedOf(n)' = JudgedOf(n)
    BY <2>1, SameJudgedOf
  <2> QED
    BY <2>1, <2>2 DEF Judged
<1>6. CASE UNCHANGED vars
  <2>1. UNCHANGED <<pc, M, order, isParaRegion, blk>>
    BY <1>6 DEF vars
  <2>2. \A n : JudgedOf(n)' = JudgedOf(n)
    BY <2>1, SameJudgedOf
  <2> QED
    BY <2>1, <2>2 DEF Judged
<1>7. \/ pc' \notin {"judgeIsParallel", "getInsKind"}
      \/ JudgeBlock \/ EndJudge \/ EndRead \/ CountInstructions \/ UNCHANGED vars
  <2>1. (CountPlaces \/ GetBBNum \/ GetMathInsNumInBB \/ GetInsKind \/ GetBinaryOPNum)
            => pc' \notin {"judgeIsParallel", "getInsKind"}
    BY DEF CountPlaces, GetBBNum, GetMathInsNumInBB, GetInsKind, GetBinaryOPNum, EndWalk
  <2>2. (ReadNumber \/ ReadUnopened \/ GetMathInsNumTotal) => pc' \notin {"judgeIsParallel", "getInsKind"}
    BY DEF ReadNumber, ReadUnopened, GetMathInsNumTotal
  <2>3. (AddMemory \/ AddTime("arithmetic") \/ AddTime("maths"))
            => pc' \notin {"judgeIsParallel", "getInsKind"}
    BY DEF AddMemory, AddTime, AddEntry
  <2>4. (EndMemory \/ EndArithmetic \/ EndMaths \/ AddRegion \/ Finish)
            => pc' \notin {"judgeIsParallel", "getInsKind"}
    BY DEF EndMemory, EndArithmetic, EndMaths, EndTable, AddRegion, Finish
  <2> QED
    BY <2>1, <2>2, <2>3, <2>4 DEF Next
<1> QED
  BY <1>1, <1>2, <1>3, <1>4, <1>5, <1>6, <1>7

\* What is judged is what JudgedByCalls says.
LEMMA JudgedRight == WInv /\ Judged => JudgedByCalls
<1> SUFFICES ASSUME WInv, Judged, pc = "getInsKind", Outlined(M) # {}, NoNestedRegions,
                    NEW n \in Walked(M), NEW q \in 1..Places(M, n)
             PROVE  IF isParaRegion[Before(M, n) + q] = 0 THEN ~InRegion(M.blocks[n].fn)
                    ELSE \E a \in Outlined(M) : /\ isParaRegion[Before(M, n) + q] = parallelRegion(a)
                                                /\ M.blocks[n].fn \in Executes(a)
  BY DEF JudgedByCalls
<1> DEFINE f == M.blocks[n].fn
           r == isParaRegion[Before(M, n) + q]
<1>1. M \in Modules /\ n \in DOMAIN M.blocks /\ f \in DOMAIN M.kind
  BY BlockFacts DEF WInv, Types
<1>2. r = IF q < Places(M, n) THEN 0 ELSE RegionOf(f)
  BY <1>1 DEF Judged, JudgedOf
<1>3. \A a \in Outlined(M) : parallelRegion(a) # 0 /\ a \in DOMAIN M.kind
  BY <1>1, OutlinedType DEF Outlined
<1>4. InRegion(f) <=> f \in Outlined(M) \/ \E a \in Outlined(M) : Calls(M, a, f)
  BY <1>1 DEF InRegion, Executes
<1> HIDE DEF f, r
<1>5. CASE q < Places(M, n)
  <2>1. Cardinality(At(M, n, "fork")) # 0
    <3>1. Places(M, n) = Cardinality(At(M, n, "fork")) + 1
      BY DEF Places
    <3> QED
      BY <1>5, <3>1
  <2>2. At(M, n, "fork") # {}
    BY <2>1, FS_EmptySet
  <2>3. ~InRegion(f)
    BY <2>2 DEF NoNestedRegions, f
  <2> QED
    BY <1>2, <1>5, <2>3 DEF f, r
<1>6. CASE ~(q < Places(M, n))
  <2>1. r = RegionOf(f)
    BY <1>2, <1>6
  <2>2. CASE f \in Outlined(M)
    <3>1. r = parallelRegion(f) /\ r # 0 /\ f \in Executes(f)
      BY <1>3, <2>1, <2>2, RegionOfType DEF WInv, Executes
    <3> QED
      BY <2>2, <3>1 DEF f, r
  <2>3. CASE f \notin Outlined(M)
    <3>1. IF \E a \in Outlined(M) : Calls(M, a, f)
          THEN \E a \in Outlined(M) : Calls(M, a, f) /\ r = parallelRegion(a)
          ELSE r = 0
      BY <2>1, <2>3, RegionOfType DEF WInv
    <3>2. \A a \in Outlined(M) : Calls(M, a, f) => f \in Executes(a)
      BY <1>1 DEF Executes, f
    <3> QED
      BY <1>3, <1>4, <2>3, <3>1, <3>2 DEF f, r
  <2> QED
    BY <2>2, <2>3
<1> QED
  BY <1>5, <1>6

-----------------------------------------------------------------------------
(* The tables of executed instructions.                                    *)

Multiplied(t) ==
    total[t] = [e \in 1..(R * N) |->
                   [k \in DOMAIN Kinds[t] |->
                       counts[t][PlaceAt(e, N)][k] * BBFreq[RowAt(e, N)][PlaceAt(e, N)]]]

Totals ==
    /\ DOMAIN total = DOMAIN Kinds /\ \A t \in DOMAIN Kinds : total[t] \in Seq(Row(t))
    /\ pc \in {"getBinaryOPNum", "getMathInsNumTotal"} \/ Predicting => Multiplied("memory")
    /\ pc = "getMathInsNumTotal" \/ Predicting => Multiplied("arithmetic")
    /\ Predicting => Multiplied("maths")

\* What the walks and the reading leave behind.
LEMMA BehindFacts ==
    ASSUME WInv, RInv, pc \in Behind
    PROVE  /\ M \in Modules /\ N = NumPlaces(M) /\ N \in Nat \ {0}
           /\ R \in Nat /\ DOMAIN BBFreq = 1..R
           /\ \A c \in 1..R : \A p \in 1..N : /\ BBFreq[c][p] = M.freq[(c - 1) * N + p]
                                             /\ BBFreq[c][p] \in Nat
           /\ \A c \in 1..R : Len(BBFreq[c]) = N
<1>1. M \in Modules /\ N = NumPlaces(M)
  BY DEF WInv, Types, Walks, Filling, Ended, Behind
<1>2. N \in Nat \ {0}
  BY <1>1, SomePlace
<1>3. Rowed
  BY DEF RInv, Read
<1>4. R \in Nat /\ DOMAIN BBFreq = 1..R /\ \A c \in 1..R : BBFreq[c] \in Seq(Nat)
  BY <1>3 DEF Rowed, R
<1>5. ASSUME NEW c \in 1..R
      PROVE  Len(BBFreq[c]) = N /\ \A p \in 1..N : /\ BBFreq[c][p] = M.freq[(c - 1) * N + p]
                                                  /\ BBFreq[c][p] \in Nat
  <2>1. BBFreq[c] = [p \in 1..N |-> M.freq[(c - 1) * N + p]]
    BY <1>3 DEF Rowed
  <2>2. BBFreq[c] \in Seq(Nat) /\ DOMAIN BBFreq[c] = 1..N
    BY <1>4, <2>1
  <2>3. Len(BBFreq[c]) = N
    BY <1>2, <2>2
  <2>4. \A p \in 1..N : BBFreq[c][p] \in Nat
    BY <2>2, <2>3
  <2>5. \A p \in 1..N : BBFreq[c][p] = M.freq[(c - 1) * N + p]
    BY <2>1
  <2> QED
    BY <2>3, <2>4, <2>5
<1> QED
  BY <1>1, <1>2, <1>4, <1>5

LEMMA MultiplyTotal ==
    ASSUME WInv, RInv, Totals, pc \in Behind, NEW t \in DOMAIN Kinds, Len(counts[t]) = N,
           Multiply(t), UNCHANGED <<BBNum, BBFreq, counts>>
    PROVE  /\ DOMAIN total' = DOMAIN Kinds /\ \A u \in DOMAIN Kinds : total'[u] \in Seq(Row(u))
           /\ \A u \in DOMAIN Kinds : u # t => total'[u] = total[u]
           /\ Multiplied(t)'
<1> DEFINE e0(e) == [k \in DOMAIN Kinds[t] |->
                        counts[t][PlaceAt(e, N)][k] * BBFreq[RowAt(e, N)][PlaceAt(e, N)]]
           T == [e \in 1..(R * N) |-> e0(e)]
<1>1. total' = [total EXCEPT ![t] = T]
  BY DEF Multiply, R, N
<1>2. /\ DOMAIN total = DOMAIN Kinds /\ \A u \in DOMAIN Kinds : total[u] \in Seq(Row(u))
      /\ counts[t] \in Seq(Row(t))
  BY DEF Totals, WInv, Types
<1>3. /\ N \in Nat \ {0} /\ R \in Nat
      /\ \A c \in 1..R : \A p \in 1..N : BBFreq[c][p] \in Nat
  BY BehindFacts
<1>4. PICK l \in Nat : l = R * N
  <2>1. R * N \in Nat
    BY <1>3
  <2> QED
    BY <2>1
<1>5. ASSUME NEW e \in 1..l PROVE e0(e) \in Row(t)
  <2>1. PlaceAt(e, N) \in 1..N /\ RowAt(e, N) \in 1..R
    BY <1>3, <1>4, TablePlace
  <2>2. PICK f \in Nat : f = BBFreq[RowAt(e, N)][PlaceAt(e, N)]
    BY <1>3, <2>1
  <2>3. counts[t][PlaceAt(e, N)] \in Row(t)
    <3> DEFINE S == Row(t) s == counts[t] q == PlaceAt(e, N)
    <3>1. s \in Seq(S) /\ q \in 1..Len(s)
      BY <1>2, <2>1
    <3> HIDE DEF S, s, q
    <3>2. s[q] \in S
      BY <3>1
    <3> QED
      BY <3>2 DEF S, s, q
  <2>4. \A k \in DOMAIN Kinds[t] : counts[t][PlaceAt(e, N)][k] \in Nat
    BY <2>3 DEF Row
  <2>5. \A k \in DOMAIN Kinds[t] :
            counts[t][PlaceAt(e, N)][k] * BBFreq[RowAt(e, N)][PlaceAt(e, N)] \in Nat
    BY <2>2, <2>4
  <2> QED
    BY <2>5 DEF Row
<1> HIDE DEF e0
<1>6. T \in Seq(Row(t))
  BY <1>4, <1>5
<1>7. total'[t] = T /\ DOMAIN total' = DOMAIN Kinds /\ \A u \in DOMAIN Kinds : u # t => total'[u] = total[u]
  BY <1>1, <1>2
<1>8. Multiplied(t)'
  <2>1. R' = R /\ N' = N
    BY DEF R, N
  <2> QED
    BY <1>7, <2>1 DEF Multiplied, e0
<1>9. \A u \in DOMAIN Kinds : total'[u] \in Seq(Row(u))
  BY <1>2, <1>6, <1>7
<1> QED
  BY <1>7, <1>8, <1>9

LEMMA SameMultiplied ==
    ASSUME UNCHANGED <<BBNum, BBFreq>>
    PROVE  \A t : total'[t] = total[t] /\ counts'[t] = counts[t] => Multiplied(t)' = Multiplied(t)
<1>1. R' = R /\ N' = N
  BY DEF R, N
<1> QED
  BY <1>1 DEF Multiplied

\* A step that leaves the tables, and adds no claim about them.
LEMMA StillTotals ==
    ASSUME Totals, UNCHANGED <<total, counts>>,
           \/ UNCHANGED <<BBNum, BBFreq>> /\ (Predicting' => Predicting)
              /\ (pc' = pc \/ pc' \notin {"getBinaryOPNum", "getMathInsNumTotal"})
           \/ ~Predicting' /\ pc' \notin {"getBinaryOPNum", "getMathInsNumTotal"}
    PROVE  Totals'
<1>1. CASE UNCHANGED <<BBNum, BBFreq>>
  <2>1. \A t : Multiplied(t)' = Multiplied(t)
    BY <1>1, SameMultiplied
  <2> QED
    BY <2>1 DEF Totals, Predicting
<1>2. CASE ~Predicting' /\ pc' \notin {"getBinaryOPNum", "getMathInsNumTotal"}
  BY <1>2 DEF Totals
<1> QED
  BY <1>1, <1>2

LEMMA EndTotals ==
    ASSUME WInv, RInv, Totals, [Next]_vars,
           GetInsKind \/ GetBinaryOPNum \/ GetMathInsNumTotal
    PROVE  Totals'
<1>1. WInv' /\ RInv'
  BY NextWInv, NextRInv
<1>2. CASE GetInsKind
  <2>1. /\ pc = "getInsKind" /\ pc' = "getBinaryOPNum" /\ Multiply("memory")
        /\ UNCHANGED <<BBNum, BBFreq, counts, M>>
    BY <1>2 DEF GetInsKind, EndWalk, input, stream
  <2>2. Len(counts["memory"]) = N
    BY <1>1, <2>1 DEF WInv, Walks, Filling, Ended, ToMaths, ToJudge, ToInsKind, N
  <2>3. /\ DOMAIN total' = DOMAIN Kinds /\ \A u \in DOMAIN Kinds : total'[u] \in Seq(Row(u))
        /\ Multiplied("memory")'
    BY <2>1, <2>2, MultiplyTotal, KindsType DEF Behind
  <2> QED
    BY <2>1, <2>3 DEF Totals, Predicting, Row
<1>3. CASE GetBinaryOPNum
  <2>1. /\ pc = "getBinaryOPNum" /\ pc' = "getMathInsNumTotal" /\ Multiply("arithmetic")
        /\ UNCHANGED <<BBNum, BBFreq, counts, M>>
    BY <1>3 DEF GetBinaryOPNum, EndWalk, input, stream
  <2>2. Len(counts["arithmetic"]) = N
    BY <1>1, <2>1 DEF WInv, Walks, Filling, Ended, ToMaths, ToJudge, ToInsKind, ToBinaryOP, N
  <2>3. /\ DOMAIN total' = DOMAIN Kinds /\ \A u \in DOMAIN Kinds : total'[u] \in Seq(Row(u))
        /\ Multiplied("arithmetic")' /\ total'["memory"] = total["memory"]
    BY <2>1, <2>2, MultiplyTotal, KindsType DEF Behind
  <2>4. Multiplied("memory")'
    BY <2>1, <2>3, SameMultiplied DEF Totals
  <2> QED
    BY <2>1, <2>3, <2>4 DEF Totals, Predicting, Row
<1>4. CASE GetMathInsNumTotal
  <2>1. /\ pc = "getMathInsNumTotal" /\ pc' = "memory" /\ Multiply("maths")
        /\ UNCHANGED <<BBNum, BBFreq, counts, M>>
    BY <1>4 DEF GetMathInsNumTotal, input, stream
  <2>2. Len(counts["maths"]) = N
    BY <1>1, <2>1 DEF WInv, Walks, Filling, Ended, ToMaths, N
  <2>3. /\ DOMAIN total' = DOMAIN Kinds /\ \A u \in DOMAIN Kinds : total'[u] \in Seq(Row(u))
        /\ Multiplied("maths")' /\ total'["memory"] = total["memory"]
        /\ total'["arithmetic"] = total["arithmetic"]
    BY <2>1, <2>2, MultiplyTotal, KindsType DEF Behind
  <2>4. Multiplied("memory")' /\ Multiplied("arithmetic")'
    BY <2>1, <2>3, SameMultiplied DEF Totals
  <2> QED
    BY <2>1, <2>3, <2>4 DEF Totals, Predicting, Row
<1> QED
  BY <1>2, <1>3, <1>4

LEMMA NextTotals == WInv /\ RInv /\ Totals /\ [Next]_vars => Totals'
<1> SUFFICES ASSUME WInv, RInv, Totals, [Next]_vars PROVE Totals'
  OBVIOUS
<1> USE DEF input, stream, Predicting
<1>1. CASE CountPlaces \/ GetBBNum \/ GetMathInsNumInBB \/ EndJudge
  BY <1>1, StillTotals DEF CountPlaces, GetBBNum, GetMathInsNumInBB, EndJudge, EndWalk
<1>2. CASE JudgeBlock \/ ReadNumber \/ ReadUnopened \/ EndRead
  BY <1>2, StillTotals DEF JudgeBlock, ReadNumber, ReadUnopened, EndRead
<1>3. CASE AddMemory \/ AddTime("arithmetic") \/ AddTime("maths")
  BY <1>3, StillTotals DEF AddMemory, AddTime, AddEntry
<1>4. CASE EndMemory \/ EndArithmetic \/ EndMaths \/ AddRegion \/ Finish
  BY <1>4, StillTotals DEF EndMemory, EndArithmetic, EndMaths, EndTable, AddRegion, Finish
<1>5. CASE UNCHANGED vars
  BY <1>5, StillTotals DEF vars
<1>6. CASE CountInstructions
  <2>1. /\ UNCHANGED <<pc, BBNum, BBFreq, total>> /\ pc \in DOMAIN Filled
        /\ counts' = [counts EXCEPT ![Filled[pc]] = @ \o Entries(Filled[pc], blk)]
    BY <1>6 DEF CountInstructions
  <2>2. pc \in {"getMathInsNumInBB", "getInsKind", "getBinaryOPNum"}
        /\ (pc = "getBinaryOPNum" => Filled[pc] = "arithmetic")
    BY <2>1 DEF Filled
  <2>3. pc = "getBinaryOPNum" => counts'["memory"] = counts["memory"]
    BY <2>1, <2>2, KindsType DEF WInv, Types
  <2>4. pc = "getBinaryOPNum" => Multiplied("memory")'
    BY <2>1, <2>3, SameMultiplied DEF Totals
  <2> QED
    BY <2>1, <2>2, <2>4 DEF Totals, Row
<1> QED
  BY <1>1, <1>2, <1>3, <1>4, <1>5, <1>6, EndTotals DEF Next

LEMMA InitTotals == Init => Totals
<1> SUFFICES ASSUME Init PROVE Totals
  OBVIOUS
<1>1. pc = "getBBNum" /\ DOMAIN total = DOMAIN Kinds /\ \A t \in DOMAIN Kinds : total[t] = <<>>
  BY DEF Init
<1>2. \A S : <<>> \in Seq(S)
  OBVIOUS
<1> QED
  BY <1>1, <1>2 DEF Totals, Predicting


-----------------------------------------------------------------------------
(* The loops over the serial places.                                       *)

Looping == {"memory", "arithmetic", "maths"}

\* The time the entries of a table add, and that of the first n.
SerialCost(t) == [e \in 1..(R * N) |-> IF isParaRegion[PlaceAt(e, N)] = 0 THEN Cost(t, e) ELSE 0]
Spent(t, n)   == SumTo(SerialCost(t), n)
Whole(t)      == Spent(t, R * N)

\* The rows a loop has left, and the place in the next.
RowsOver == IF pc = "memory" THEN Len(timeInf) ELSE i - 1
Position ==
    /\ entry \in 1..(R * N + 1) /\ RowsOver \in Nat
    /\ entry = RowsOver * N + BBFlag
    /\ RowsOver = 0 \/ RowsOver < R

Gathered == SumTo(timeInf, Len(timeInf))

SerialTypes ==
    /\ timeInf \in Seq(Nat) /\ time_tmp \in Nat /\ entry \in Nat \ {0} /\ BBFlag \in 1..(N + 1)
    /\ i \in Nat

SerialInv ==
    /\ SerialTypes
    /\ pc \in ToBinaryOP \cup {"getBinaryOPNum", "getMathInsNumTotal"} =>
          entry = 1 /\ BBFlag = 1 /\ time_tmp = 0 /\ i = 1 /\ timeInf = <<>>
    /\ pc \in Looping => Position
    /\ pc \in {"arithmetic", "maths"} => Len(timeInf) >= 1 /\ Len(timeInf) >= R
    /\ pc = "memory" => Gathered + time_tmp = Spent("memory", entry - 1)
    /\ pc = "arithmetic" =>
          Gathered + time_tmp = Whole("memory") + Spent("arithmetic", entry - 1)
    /\ pc = "maths" =>
          Gathered + time_tmp = Whole("memory") + Whole("arithmetic") + Spent("maths", entry - 1)
    /\ pc \in {"parallel", "done"} =>
          Gathered = Whole("memory") + Whole("arithmetic") + Whole("maths")

\* The tables and the rows when times are added.
Tables == WInv /\ RInv /\ Totals /\ Predicting

LEMMA TablesFacts ==
    ASSUME Tables
    PROVE  /\ N \in Nat \ {0} /\ R \in Nat /\ R * N \in Nat /\ Len(isParaRegion) = N
           /\ M \in Modules /\ N = NumPlaces(M) /\ \A t \in DOMAIN Kinds : Len(counts[t]) = N
           /\ \A t \in DOMAIN Kinds : /\ Multiplied(t) /\ DOMAIN total[t] = 1..(R * N)
                                      /\ \A e \in 1..(R * N) : total[t][e] \in Row(t)
<1>1. pc \in Behind /\ pc \notin Ended /\ pc \notin ToBinaryOP \cup {"getBinaryOPNum", "getMathInsNumTotal"}
  BY DEF Tables, Predicting, Behind, Ended, ToBinaryOP, ToInsKind, ToJudge, ToMaths
<1>2. N \in Nat \ {0} /\ R \in Nat /\ M \in Modules /\ N = NumPlaces(M)
  BY <1>1, BehindFacts DEF Tables
<1>3. R * N \in Nat
  BY <1>2
<1>4. Len(isParaRegion) = N /\ \A t \in DOMAIN Kinds : Len(counts[t]) = N
  BY <1>1, <1>2, KindsType DEF Tables, Predicting, WInv, Walks, Filling, Ended, ToMaths, ToJudge, ToInsKind, ToBinaryOP
<1>5. ASSUME NEW t \in DOMAIN Kinds
      PROVE  /\ Multiplied(t) /\ DOMAIN total[t] = 1..(R * N)
             /\ \A e \in 1..(R * N) : total[t][e] \in Row(t)
  <2>1. Multiplied(t)
    BY KindsType DEF Tables, Totals
  <2>2. DOMAIN total[t] = 1..(R * N)
    BY <2>1 DEF Multiplied
  <2>3. total[t] \in Seq(Row(t))
    BY DEF Tables, Totals
  <2> DEFINE S == Row(t) s == total[t]
  <2>4. s \in Seq(S)
    BY <2>3
  <2> HIDE DEF S, s
  <2>5. DOMAIN s = 1..Len(s) /\ \A e \in 1..Len(s) : s[e] \in S
    BY <2>4
  <2> QED
    BY <2>1, <2>2, <2>5 DEF S, s
<1> QED
  BY <1>2, <1>3, <1>4, <1>5

LEMMA TimeType ==
    \A t \in DOMAIN Kinds : t # "maths" => \A k \in DOMAIN Kinds[t] : Time[Kinds[t][k]] \in Nat
<1>1. Time \in [{"load", "store"} \cup Range(Arithmetic) -> Nat]
  BY TimesAssumption
<1>2. \A k \in DOMAIN Arithmetic : Arithmetic[k] \in Range(Arithmetic)
  BY DEF Range
<1>3. \A k \in DOMAIN <<"load", "store">> : <<"load", "store">>[k] \in {"load", "store"}
  <2>1. DOMAIN <<"load", "store">> = {1, 2}
    OBVIOUS
  <2> QED
    BY <2>1
<1>4. Kinds["memory"] = <<"load", "store">> /\ Kinds["arithmetic"] = Arithmetic
  BY DEF Kinds
<1> QED
  BY <1>1, <1>2, <1>3, <1>4, KindsType

LEMMA CostType ==
    ASSUME Tables, NEW t \in DOMAIN Kinds, NEW e \in 1..(R * N)
    PROVE  Cost(t, e) \in Nat
<1> DEFINE f == [k \in DOMAIN Kinds[t] |->
                    total[t][e][k] * (IF t = "maths" THEN stray ELSE Time[Kinds[t][k]])]
<1>1. PICK n \in Nat : n = Len(Kinds[t]) /\ DOMAIN Kinds[t] = 1..n
  BY KindsType
<1>2. total[t][e] \in [1..n -> Nat]
  BY <1>1, TablesFacts DEF Row
<1>3. ASSUME NEW k \in 1..n PROVE f[k] \in Nat
  <2>1. (IF t = "maths" THEN stray ELSE Time[Kinds[t][k]]) \in Nat
    BY <1>1, TimeType DEF Tables, WInv, Types
  <2>2. PICK d \in Nat : d = (IF t = "maths" THEN stray ELSE Time[Kinds[t][k]])
    BY <2>1
  <2>3. total[t][e][k] \in Nat
    BY <1>2
  <2>4. total[t][e][k] * d \in Nat
    BY <2>3
  <2> QED
    BY <1>1, <2>2, <2>4
<1>4. Cost(t, e) = SumTo(f, n)
  BY <1>1 DEF Cost
<1> HIDE DEF f
<1>5. SumTo(f, n) \in Nat
  BY <1>3, SumNat
<1> QED
  BY <1>4, <1>5

LEMMA SerialCostType ==
    ASSUME Tables, NEW t \in DOMAIN Kinds
    PROVE  /\ \A e \in 1..(R * N) : SerialCost(t)[e] \in Nat
           /\ Spent(t, 0) = 0 /\ \A n \in 0..(R * N) : Spent(t, n) \in Int
           /\ \A e \in 1..(R * N) : Spent(t, e) = Spent(t, e - 1) + SerialCost(t)[e]
<1>1. ASSUME NEW e \in 1..(R * N) PROVE SerialCost(t)[e] \in Nat
  <2>1. Cost(t, e) \in Nat
    BY CostType
  <2> QED
    BY <2>1 DEF SerialCost
<1>2. PICK l \in Nat : l = R * N
  BY TablesFacts
<1>3. Spent(t, 0) = 0
  BY SumZero DEF Spent
<1>4. \A n \in 0..l : Spent(t, n) \in Int
  <2> DEFINE f == SerialCost(t)
  <2>1. \A k \in 1..l : f[k] \in Int
    BY <1>1, <1>2
  <2> HIDE DEF f
  <2>2. \A k \in 0..l : SumTo(f, k) \in Int
    BY <2>1, SumType
  <2> QED
    BY <2>2 DEF f, Spent
<1>5. ASSUME NEW e \in 1..l PROVE Spent(t, e) = Spent(t, e - 1) + SerialCost(t)[e]
  <2>1. PICK j \in Nat : j = e - 1 /\ e = j + 1
    <3>1. e - 1 \in Nat /\ e = (e - 1) + 1
      OBVIOUS
    <3> QED
      BY <3>1
  <2> DEFINE f == SerialCost(t)
  <2> HIDE DEF f
  <2>2. SumTo(f, j + 1) = SumTo(f, j) + f[j + 1]
    BY SumNext
  <2> QED
    BY <2>1, <2>2 DEF Spent, f
<1> QED
  BY <1>1, <1>2, <1>3, <1>4, <1>5

LEMMA WholeType ==
    ASSUME Tables
    PROVE  \A t \in DOMAIN Kinds : Whole(t) \in Int
<1>1. R * N \in 0..(R * N)
  <2>1. R * N \in Nat
    BY TablesFacts
  <2> QED
    BY <2>1
<1> QED
  BY <1>1, SerialCostType DEF Whole

LEMMA SameSpent ==
    ASSUME UNCHANGED <<BBNum, BBFreq, isParaRegion, total, stray>>
    PROVE  \A t, n : Spent(t, n)' = Spent(t, n) /\ Whole(t)' = Whole(t)
<1>1. R' = R /\ N' = N /\ \A t, e : Cost(t, e)' = Cost(t, e)
  BY DEF R, N, Cost
<1>2. \A t : SerialCost(t)' = SerialCost(t)
  BY <1>1 DEF SerialCost
<1> QED
  BY <1>1, <1>2 DEF Spent, Whole

\* One pass of a loop.
LEMMA Pass ==
    ASSUME Tables, SerialInv, NEW t \in Looping, AddEntry(t)
    PROVE  /\ pc = t /\ pc' = t /\ entry' = entry + 1 /\ entry \in 1..(R * N)
           /\ BBFlag' \in 1..(N + 1)
           /\ SerialCost(t)[entry] \in Nat
           /\ time_tmp' = (IF RowBegins THEN 0 ELSE time_tmp) + SerialCost(t)[entry]
           /\ Spent(t, entry) = Spent(t, entry - 1) + SerialCost(t)[entry]
           /\ IF RowBegins THEN entry' = (RowsOver + 1) * N + BBFlag' /\ RowsOver + 1 < R
                           ELSE entry' = RowsOver * N + BBFlag'
<1>1. /\ pc = t /\ pc' = t /\ entry \in DOMAIN total[t] /\ entry' = entry + 1
      /\ time_tmp' = (IF RowBegins THEN 0 ELSE time_tmp)
                     + (IF isParaRegion[Place] = 0 THEN Cost(t, entry) ELSE 0)
      /\ BBFlag' = Place + 1
  BY DEF AddEntry
<1>2. PICK n \in Nat \ {0} : n = N
  BY TablesFacts
<1>3. PICK r \in Nat : r = R
  BY TablesFacts
<1>4. t \in DOMAIN Kinds /\ DOMAIN total[t] = 1..(r * n)
  BY <1>2, <1>3, TablesFacts, KindsType DEF Looping
<1>5. PICK d \in Nat : d = RowsOver
  BY <1>1 DEF SerialInv, Position
<1>6. PICK b \in 1..(n + 1) : b = BBFlag
  BY <1>2 DEF SerialInv, SerialTypes
<1>7. PICK e \in 1..(r * n) : e = entry /\ e = d * n + b /\ (d = 0 \/ d < r)
  BY <1>1, <1>2, <1>3, <1>4, <1>5, <1>6 DEF SerialInv, Position
<1>8. PICK q \in 1..n : q = Place
  BY <1>2, <1>6 DEF Place, RowBegins, N
<1>9. /\ PlaceAt(e, n) = q
      /\ IF RowBegins THEN e + 1 = (d + 1) * n + (q + 1) /\ d + 1 < r
                      ELSE e + 1 = d * n + (q + 1)
  <2>1. CASE b > n
    <3>1. RowBegins /\ q = 1 /\ b = n + 1
      BY <1>2, <1>6, <1>8, <2>1 DEF Place, RowBegins, N
    <3>2. (d + 1) * n = d * n + n
      OBVIOUS
    <3>3. PICK c \in Nat \ {0} : c - 1 = d + 1
      <4>1. d + 2 \in Nat \ {0} /\ (d + 2) - 1 = d + 1
        OBVIOUS
      <4> QED
        BY <4>1
    <3>4. PlaceAt((c - 1) * n + q, n) = q
      BY EntryOf
    <3>5. e = (c - 1) * n + q
      BY <1>7, <3>1, <3>2, <3>3
    <3>6. ASSUME ~(d + 1 < r) PROVE FALSE
      <4>1. PICK x \in Nat : d + 1 = r + x
        <5>1. d + 1 - r \in Nat
          BY <3>6
        <5> QED
          BY <5>1
      <4>2. (r + x) * n = r * n + x * n /\ x * n \in Nat /\ r * n \in Nat
        OBVIOUS
      <4> QED
        BY <1>7, <3>1, <3>2, <4>1, <4>2
    <3>7. e + 1 = (d + 1) * n + (q + 1)
      BY <1>7, <3>1, <3>2
    <3> QED
      BY <3>1, <3>4, <3>5, <3>6, <3>7
  <2>2. CASE ~(b > n)
    <3>1. ~RowBegins /\ q = b
      BY <1>2, <1>6, <1>8, <2>2 DEF Place, RowBegins, N
    <3>2. PICK c \in Nat \ {0} : c - 1 = d
      <4>1. d + 1 \in Nat \ {0} /\ (d + 1) - 1 = d
        OBVIOUS
      <4> QED
        BY <4>1
    <3>3. PlaceAt((c - 1) * n + q, n) = q
      BY EntryOf
    <3>4. e = (c - 1) * n + q
      BY <1>7, <3>1, <3>2
    <3>5. e + 1 = d * n + (q + 1)
      <4>1. d * n \in Nat
        OBVIOUS
      <4> QED
        BY <1>7, <3>1, <4>1
    <3> QED
      BY <3>1, <3>3, <3>4, <3>5
  <2> QED
    BY <2>1, <2>2
<1>10. /\ SerialCost(t)[entry] \in Nat
       /\ Spent(t, entry) = Spent(t, entry - 1) + SerialCost(t)[entry]
  BY <1>2, <1>3, <1>4, <1>7, SerialCostType
<1>11. SerialCost(t)[entry] = IF isParaRegion[Place] = 0 THEN Cost(t, entry) ELSE 0
  BY <1>2, <1>3, <1>7, <1>8, <1>9 DEF SerialCost
<1>12. BBFlag' \in 1..(N + 1)
  BY <1>1, <1>2, <1>8
<1>13. IF RowBegins THEN entry' = (RowsOver + 1) * N + BBFlag' /\ RowsOver + 1 < R
                    ELSE entry' = RowsOver * N + BBFlag'
  BY <1>1, <1>2, <1>3, <1>5, <1>7, <1>8, <1>9
<1> QED
  BY <1>1, <1>2, <1>3, <1>7, <1>10, <1>11, <1>12, <1>13

\* The tables outlast a pass, and so do what they add.
LEMMA TablesStay ==
    ASSUME Tables, UNCHANGED <<input, counts, BBNum, BBFreq, isParaRegion, total>>
    PROVE  N' = N /\ R' = R /\ \A t, n : Spent(t, n)' = Spent(t, n) /\ Whole(t)' = Whole(t)
  BY SameSpent DEF N, R, input

LEMMA AddMemorySerial ==
    ASSUME Tables, SerialInv, AddMemory
    PROVE  SerialInv'
<1>1. /\ AddEntry("memory") /\ pc = "memory" /\ pc' = "memory"
      /\ timeInf' = IF RowBegins THEN Append(timeInf, time_tmp) ELSE timeInf
      /\ i' = i
      /\ N' = N /\ R' = R /\ \A t, n : Spent(t, n)' = Spent(t, n) /\ Whole(t)' = Whole(t)
  BY TablesStay DEF AddMemory, AddEntry, stream
<1>2. SerialTypes /\ Position /\ Gathered + time_tmp = Spent("memory", entry - 1)
  BY <1>1 DEF SerialInv, Looping
<1>3. PICK l \in Nat : /\ l = Len(timeInf) /\ l = RowsOver /\ timeInf \in Seq(Nat)
                       /\ DOMAIN timeInf = 1..l
  BY <1>1, <1>2 DEF SerialTypes, RowsOver
<1>4. PICK c \in Nat : /\ c = SerialCost("memory")[entry]
                       /\ time_tmp' = (IF RowBegins THEN 0 ELSE time_tmp) + c
                       /\ Spent("memory", entry) = Spent("memory", entry - 1) + c
  BY <1>1, Pass DEF Looping
<1>5. /\ entry' = entry + 1 /\ entry \in 1..(R * N) /\ BBFlag' \in 1..(N + 1)
      /\ IF RowBegins THEN entry' = (RowsOver + 1) * N + BBFlag' /\ RowsOver + 1 < R
                      ELSE entry' = RowsOver * N + BBFlag'
  BY <1>1, Pass DEF Looping
<1>6. entry' \in 1..(R * N + 1) /\ entry' - 1 = entry
  <2>1. R * N \in Nat
    BY TablesFacts
  <2> QED
    BY <1>5, <2>1
<1>7. time_tmp \in Nat /\ Gathered \in Int /\ Gathered = SumTo(timeInf, l)
  <2>1. \A k \in 1..l : timeInf[k] \in Nat
    BY <1>3
  <2>2. SumTo(timeInf, l) \in Nat
    BY <2>1, SumNat
  <2> QED
    BY <1>2, <1>3, <2>2 DEF SerialTypes, Gathered
<1>8. CASE RowBegins
  <2>1. timeInf' = Append(timeInf, time_tmp)
    BY <1>1, <1>8
  <2>2. /\ timeInf' \in Seq(Nat) /\ Len(timeInf') = l + 1 /\ timeInf'[l + 1] = time_tmp
        /\ \A k \in 1..l : timeInf'[k] = timeInf[k]
    BY <1>3, <1>7, <2>1
  <2>3. Gathered' = Gathered + time_tmp
    <3>1. SumTo(timeInf', l + 1) = SumTo(timeInf', l) + timeInf'[l + 1]
      BY SumNext
    <3>2. SumTo(timeInf', l) = SumTo(timeInf, l)
      BY <2>2, SumSame
    <3> QED
      BY <1>7, <2>2, <3>1, <3>2 DEF Gathered
  <2>4. RowsOver' = l + 1
    BY <1>1, <2>2 DEF RowsOver
  <2>5. Position'
    BY <1>1, <1>3, <1>5, <1>6, <1>8, <2>4 DEF Position
  <2>6. Gathered' + time_tmp' = Spent("memory", entry' - 1)
    BY <1>2, <1>4, <1>6, <1>7, <1>8, <2>3
  <2>7. SerialTypes'
    BY <1>1, <1>2, <1>4, <1>5, <1>8, <2>2 DEF SerialTypes
  <2> QED
    BY <1>1, <2>5, <2>6, <2>7 DEF SerialInv, ToBinaryOP, ToInsKind, ToJudge, ToMaths
<1>9. CASE ~RowBegins
  <2>1. timeInf' = timeInf
    BY <1>1, <1>9
  <2>2. Gathered' = Gathered /\ RowsOver' = RowsOver
    BY <1>1, <2>1 DEF Gathered, RowsOver
  <2>3. Position'
    BY <1>1, <1>2, <1>5, <1>6, <1>9, <2>2 DEF Position
  <2>4. Gathered' + time_tmp' = Spent("memory", entry' - 1)
    BY <1>2, <1>4, <1>6, <1>7, <1>9, <2>2
  <2>5. SerialTypes'
    BY <1>1, <1>2, <1>4, <1>5, <1>7, <1>9, <2>1, SMTT(20) DEF SerialTypes
  <2> QED
    BY <1>1, <2>3, <2>4, <2>5 DEF SerialInv, ToBinaryOP, ToInsKind, ToJudge, ToMaths
<1> QED
  BY <1>8, <1>9

LEMMA AddTimeSerial ==
    ASSUME Tables, SerialInv, NEW t \in {"arithmetic", "maths"}, AddTime(t)
    PROVE  SerialInv'
<1> DEFINE W == IF t = "arithmetic" THEN Whole("memory") ELSE Whole("memory") + Whole("arithmetic")
<1>1. /\ AddEntry(t) /\ pc = t /\ pc' = t
      /\ timeInf' = IF RowBegins THEN [timeInf EXCEPT ![i] = @ + time_tmp] ELSE timeInf
      /\ i' = (IF RowBegins THEN i + 1 ELSE i)
      /\ N' = N /\ R' = R /\ \A u, n : Spent(u, n)' = Spent(u, n) /\ Whole(u)' = Whole(u)
  BY TablesStay DEF AddTime, AddEntry, stream
<1>2. /\ SerialTypes /\ Position /\ Gathered + time_tmp = W + Spent(t, entry - 1)
      /\ Len(timeInf) >= 1 /\ Len(timeInf) >= R
  BY <1>1 DEF SerialInv, Looping
<1>3. PICK l \in Nat : l = Len(timeInf) /\ timeInf \in Seq(Nat) /\ DOMAIN timeInf = 1..l
  BY <1>1, <1>2 DEF SerialTypes
<1>4. PICK c \in Nat : /\ c = SerialCost(t)[entry]
                       /\ time_tmp' = (IF RowBegins THEN 0 ELSE time_tmp) + c
                       /\ Spent(t, entry) = Spent(t, entry - 1) + c
  BY <1>1, Pass DEF Looping
<1>5. /\ entry' = entry + 1 /\ entry \in 1..(R * N) /\ BBFlag' \in 1..(N + 1)
      /\ IF RowBegins THEN entry' = (RowsOver + 1) * N + BBFlag' /\ RowsOver + 1 < R
                      ELSE entry' = RowsOver * N + BBFlag'
  BY <1>1, Pass DEF Looping
<1>6. entry' \in 1..(R * N + 1) /\ entry' - 1 = entry
  <2>1. R * N \in Nat
    BY TablesFacts
  <2> QED
    BY <1>5, <2>1
<1>7. time_tmp \in Nat /\ Gathered \in Int /\ Gathered = SumTo(timeInf, l)
      /\ \A k \in 1..l : timeInf[k] \in Nat
  <2>1. \A k \in 1..l : timeInf[k] \in Nat
    BY <1>3
  <2>2. SumTo(timeInf, l) \in Nat
    BY <2>1, SumNat
  <2> QED
    BY <1>2, <1>3, <2>1, <2>2 DEF SerialTypes, Gathered
<1>8. i \in 1..l /\ RowsOver = i - 1
  BY <1>1, <1>2, <1>3, TablesFacts DEF Position, RowsOver, SerialTypes
<1>9. Spent(t, entry) \in Int /\ Spent(t, entry - 1) \in Int /\ W \in Int
  <2>1. entry \in 0..(R * N) /\ entry - 1 \in 0..(R * N) /\ R * N \in 0..(R * N)
    <3>1. R * N \in Nat
      BY TablesFacts
    <3> QED
      BY <1>5, <3>1
  <2>2. \A u \in DOMAIN Kinds : Whole(u) \in Int
    BY <2>1, SerialCostType DEF Whole
  <2>3. t \in DOMAIN Kinds
    BY KindsType
  <2>4. \A n \in 0..(R * N) : Spent(t, n) \in Int
    BY <2>3, SerialCostType
  <2>5. Spent(t, entry) \in Int /\ Spent(t, entry - 1) \in Int
    BY <2>1, <2>4, Zenon
  <2>6. W \in Int
    BY <2>2, KindsType
  <2> QED
    BY <2>5, <2>6
<1> HIDE DEF W
<1>10. CASE RowBegins
  <2>1. timeInf' = [timeInf EXCEPT ![i] = @ + time_tmp] /\ i' = i + 1
    BY <1>1, <1>10
  <2>2. /\ timeInf' \in Seq(Nat) /\ Len(timeInf') = l /\ timeInf'[i] = timeInf[i] + time_tmp
        /\ \A k \in 1..l : k # i => timeInf'[k] = timeInf[k]
    <3>1. timeInf[i] + time_tmp \in Nat
      BY <1>7, <1>8
    <3> QED
      BY <1>3, <1>8, <2>1, <3>1
  <2>3. Gathered' = Gathered + time_tmp
    <3>1. PICK j \in 1..l : j = i
      BY <1>8
    <3>2. timeInf'[j] - timeInf[j] = time_tmp
      BY <1>7, <2>2, <3>1
    <3>3. \A k \in 1..l : timeInf[k] \in Int /\ timeInf'[k] \in Int
      BY <1>3, <2>2
    <3>4. SumTo(timeInf', l) = SumTo(timeInf, l) + (timeInf'[j] - timeInf[j])
      BY <2>2, <3>1, <3>3, SumChange, ZenonT(40)
    <3> QED
      BY <1>7, <2>2, <3>2, <3>4 DEF Gathered
  <2>4. RowsOver' = RowsOver + 1
    BY <1>1, <1>8, <2>1 DEF RowsOver
  <2>5. Position'
    <3>1. RowsOver \in Nat
      BY <1>2 DEF Position
    <3> QED
      BY <1>1, <1>5, <1>6, <1>10, <2>4, <3>1 DEF Position
  <2>6. Gathered' + time_tmp' = W + Spent(t, entry' - 1)
    BY <1>2, <1>4, <1>6, <1>7, <1>9, <1>10, <2>3, SMTT(20)
  <2>7. SerialTypes'
    BY <1>1, <1>2, <1>4, <1>5, <1>10, <2>1, <2>2 DEF SerialTypes
  <2> QED
    BY <1>1, <1>2, <1>3, <2>2, <2>5, <2>6, <2>7 DEF W, SerialInv, ToBinaryOP, ToInsKind, ToJudge, ToMaths
<1>11. CASE ~RowBegins
  <2>1. timeInf' = timeInf /\ i' = i
    BY <1>1, <1>11
  <2>2. Gathered' = Gathered /\ RowsOver' = RowsOver
    BY <1>1, <2>1 DEF Gathered, RowsOver
  <2>3. Position'
    BY <1>1, <1>2, <1>5, <1>6, <1>11, <2>2 DEF Position
  <2>4. Gathered' + time_tmp' = W + Spent(t, entry' - 1)
    <3>1. Gathered + time_tmp = W + Spent(t, entry - 1) /\ Gathered' = Gathered
      BY <1>2, <2>2
    <3>2. time_tmp' = time_tmp + c /\ Spent(t, entry) = Spent(t, entry - 1) + c
      BY <1>4, <1>11
    <3> QED
      BY <1>6, <1>7, <1>9, <3>1, <3>2
  <2>5. SerialTypes'
    BY <1>1, <1>2, <1>4, <1>5, <1>7, <1>11, <2>1, SMTT(20) DEF SerialTypes
  <2> QED
    BY <1>1, <1>2, <2>1, <2>3, <2>4, <2>5 DEF W, SerialInv, ToBinaryOP, ToInsKind, ToJudge, ToMaths
<1> QED
  BY <1>10, <1>11

\* Where a loop ends.
LEMMA LoopOver ==
    ASSUME Tables, SerialInv, NEW t \in Looping, pc = t, entry \notin DOMAIN total[t]
    PROVE  /\ entry - 1 = R * N /\ RowsOver \in Nat /\ RowsOver + 1 >= R
           /\ Spent(t, entry - 1) = Whole(t)
<1>1. PICK n \in Nat \ {0} : n = N
  BY TablesFacts
<1>2. PICK r \in Nat : r = R
  BY TablesFacts
<1>3. DOMAIN total[t] = 1..(r * n)
  BY <1>1, <1>2, TablesFacts, KindsType DEF Looping
<1>4. PICK d \in Nat : d = RowsOver
  BY DEF SerialInv, Position
<1>5. PICK b \in 1..(n + 1) : b = BBFlag
  BY <1>1 DEF SerialInv, SerialTypes
<1>6. PICK l \in Nat : l = r * n
  OBVIOUS
<1>7. PICK e \in 1..(l + 1) : e = entry /\ e = d * n + b
  BY <1>1, <1>2, <1>4, <1>5, <1>6 DEF SerialInv, Position
<1>8. e = l + 1
  BY <1>3, <1>6, <1>7
<1>9. d + 1 >= r
  <2>1. ASSUME ~(d + 1 >= r) PROVE FALSE
    <3>1. PICK x \in Nat : r = (d + 2) + x
      <4>1. r - (d + 2) \in Nat
        BY <2>1
      <4> QED
        BY <4>1
    <3>2. ((d + 2) + x) * n = d * n + n + n + x * n /\ x * n \in Nat /\ d * n \in Nat
      OBVIOUS
    <3> QED
      BY <1>6, <1>7, <1>8, <3>1, <3>2
  <2> QED
    BY <2>1
<1>10. entry - 1 = R * N
  BY <1>1, <1>2, <1>6, <1>7, <1>8
<1> QED
  BY <1>2, <1>4, <1>9, <1>10 DEF Whole

\* The next loop begins.
LEMMA FirstPosition ==
    ASSUME Tables, N' = N, R' = R, entry' = 1, BBFlag' = 1, RowsOver' = 0
    PROVE  Position'
<1>1. R * N \in Nat /\ N \in Nat
  BY TablesFacts
<1>2. PICK n \in Nat : n = N
  BY <1>1
<1>3. 1 = 0 * n + 1
  OBVIOUS
<1> QED
  BY <1>1, <1>2, <1>3 DEF Position

LEMMA EndMemorySerial ==
    ASSUME Tables, SerialInv, EndMemory
    PROVE  SerialInv'
<1>1. /\ pc = "memory" /\ entry \notin DOMAIN total["memory"] /\ pc' = "arithmetic"
      /\ entry' = 1 /\ BBFlag' = 1 /\ time_tmp' = 0 /\ i' = 1 /\ timeInf' = Append(timeInf, time_tmp)
      /\ N' = N /\ R' = R /\ \A t, n : Spent(t, n)' = Spent(t, n) /\ Whole(t)' = Whole(t)
  BY TablesStay DEF EndMemory, EndTable, stream
<1>2. /\ SerialTypes /\ Gathered + time_tmp = Spent("memory", entry - 1)
  BY <1>1 DEF SerialInv, Looping
<1>3. /\ RowsOver \in Nat /\ RowsOver + 1 >= R /\ Spent("memory", entry - 1) = Whole("memory")
  BY <1>1, LoopOver DEF Looping
<1>4. PICK l \in Nat : /\ l = Len(timeInf) /\ l = RowsOver /\ timeInf \in Seq(Nat)
                       /\ DOMAIN timeInf = 1..l
  BY <1>1, <1>2 DEF SerialTypes, RowsOver
<1>5. time_tmp \in Nat
  BY <1>2 DEF SerialTypes
<1>6. /\ timeInf' \in Seq(Nat) /\ Len(timeInf') = l + 1 /\ timeInf'[l + 1] = time_tmp
      /\ \A k \in 1..l : timeInf'[k] = timeInf[k]
  BY <1>1, <1>4, <1>5
<1>7. Gathered' = Gathered + time_tmp /\ Gathered' \in Int
  <2>1. SumTo(timeInf', l + 1) = SumTo(timeInf', l) + timeInf'[l + 1]
    BY SumNext
  <2>2. SumTo(timeInf', l) = SumTo(timeInf, l)
    BY <1>6, SumSame
  <2>3. \A k \in 1..l : timeInf[k] \in Nat
    BY <1>4
  <2>4. SumTo(timeInf, l) \in Nat
    BY <2>3, SumNat
  <2> QED
    BY <1>4, <1>5, <1>6, <2>1, <2>2, <2>4 DEF Gathered
<1>8. Gathered' = Whole("memory")
  BY <1>2, <1>3, <1>7
<1>9. RowsOver' = 0
  BY <1>1 DEF RowsOver
<1>10. Position'
  BY <1>1, <1>9, FirstPosition
<1>11. SerialTypes'
  <2>1. N' \in Nat
    BY <1>1, TablesFacts
  <2> QED
    BY <1>1, <1>6, <2>1 DEF SerialTypes
<1>12. Len(timeInf') >= 1 /\ Len(timeInf') >= R'
  BY <1>1, <1>3, <1>4, <1>6
<1>13. Gathered' + time_tmp' = Whole("memory")' + Spent("arithmetic", entry - 1)'
  <2>1. entry' - 1 = 0
    BY <1>1
  <2>2. Spent("arithmetic", entry - 1)' = 0
    BY <2>1, SumZero DEF Spent
  <2> QED
    BY <1>1, <1>7, <1>8, <2>2
<1> QED
  BY <1>1, <1>10, <1>11, <1>12, <1>13 DEF SerialInv, ToBinaryOP, ToInsKind, ToJudge, ToMaths

LEMMA EndArithmeticSerial ==
    ASSUME Tables, SerialInv, EndArithmetic
    PROVE  SerialInv'
<1>1. /\ pc = "arithmetic" /\ entry \notin DOMAIN total["arithmetic"] /\ pc' = "maths"
      /\ entry' = 1 /\ BBFlag' = 1 /\ time_tmp' = time_tmp /\ i' = 1 /\ timeInf' = timeInf
      /\ N' = N /\ R' = R /\ \A t, n : Spent(t, n)' = Spent(t, n) /\ Whole(t)' = Whole(t)
  BY TablesStay DEF EndArithmetic, EndTable, stream
<1>2. /\ SerialTypes /\ Len(timeInf) >= 1 /\ Len(timeInf) >= R
      /\ Gathered + time_tmp = Whole("memory") + Spent("arithmetic", entry - 1)
  BY <1>1 DEF SerialInv, Looping
<1>3. Spent("arithmetic", entry - 1) = Whole("arithmetic")
  BY <1>1, LoopOver DEF Looping
<1>4. Gathered' = Gathered
  BY <1>1 DEF Gathered
<1>5. Position'
  <2>1. RowsOver' = 0
    BY <1>1 DEF RowsOver
  <2> QED
    BY <1>1, <2>1, FirstPosition
<1>6. SerialTypes'
  <2>1. N' \in Nat
    BY <1>1, TablesFacts
  <2> QED
    BY <1>1, <1>2, <2>1 DEF SerialTypes
<1>7. Gathered' + time_tmp' = Whole("memory")' + Whole("arithmetic")' + Spent("maths", entry - 1)'
  <2>1. entry' - 1 = 0
    BY <1>1
  <2>2. Spent("maths", entry - 1)' = 0
    BY <2>1, SumZero DEF Spent
  <2>3. Whole("memory") \in Int /\ Whole("arithmetic") \in Int
    BY WholeType, KindsType
  <2> QED
    BY <1>1, <1>2, <1>3, <1>4, <2>1, <2>2, <2>3
<1> QED
  BY <1>1, <1>2, <1>5, <1>6, <1>7 DEF SerialInv, ToBinaryOP, ToInsKind, ToJudge, ToMaths

LEMMA EndMathsSerial ==
    ASSUME Tables, SerialInv, EndMaths
    PROVE  SerialInv'
<1>1. /\ pc = "maths" /\ entry \notin DOMAIN total["maths"] /\ pc' = "parallel"
      /\ entry' = 1 /\ BBFlag' = 1 /\ time_tmp' = time_tmp /\ i' = i
      /\ timeInf' = [timeInf EXCEPT ![i] = @ + time_tmp]
      /\ N' = N /\ R' = R /\ \A t, n : Spent(t, n)' = Spent(t, n) /\ Whole(t)' = Whole(t)
  BY TablesStay DEF EndMaths, EndTable, stream
<1>2. /\ SerialTypes /\ Position /\ Len(timeInf) >= 1 /\ Len(timeInf) >= R
      /\ Gathered + time_tmp = Whole("memory") + Whole("arithmetic") + Spent("maths", entry - 1)
  BY <1>1 DEF SerialInv, Looping
<1>3. Spent("maths", entry - 1) = Whole("maths")
  BY <1>1, LoopOver DEF Looping
<1>4. PICK l \in Nat : l = Len(timeInf) /\ timeInf \in Seq(Nat) /\ DOMAIN timeInf = 1..l
  BY <1>1, <1>2 DEF SerialTypes
<1>5. i \in 1..l
  BY <1>1, <1>2, <1>4, TablesFacts DEF Position, RowsOver, SerialTypes
<1>6. time_tmp \in Nat /\ \A k \in 1..l : timeInf[k] \in Nat
  BY <1>2, <1>4 DEF SerialTypes
<1>7. /\ timeInf' \in Seq(Nat) /\ Len(timeInf') = l /\ timeInf'[i] = timeInf[i] + time_tmp
      /\ \A k \in 1..l : k # i => timeInf'[k] = timeInf[k]
  <2>1. timeInf[i] + time_tmp \in Nat
    BY <1>5, <1>6
  <2> QED
    BY <1>1, <1>4, <1>5, <2>1
<1>8. Gathered' = Gathered + time_tmp
  <2>1. PICK j \in 1..l : j = i
    BY <1>5
  <2>2. timeInf'[j] - timeInf[j] = time_tmp
    BY <1>6, <1>7, <2>1
  <2>3. \A k \in 1..l : timeInf[k] \in Int /\ timeInf'[k] \in Int
    BY <1>6, <1>7
  <2>4. SumTo(timeInf', l) = SumTo(timeInf, l) + (timeInf'[j] - timeInf[j])
    BY <1>7, <2>1, <2>3, SumChange
  <2> QED
    BY <1>4, <1>7, <2>2, <2>4 DEF Gathered
<1>9. SerialTypes'
  <2>1. N' \in Nat
    BY <1>1, TablesFacts
  <2> QED
    BY <1>1, <1>2, <1>7, <2>1 DEF SerialTypes
<1>10. Gathered' = Whole("memory")' + Whole("arithmetic")' + Whole("maths")'
  BY <1>1, <1>2, <1>3, <1>8
<1> QED
  BY <1>1, <1>9, <1>10 DEF SerialInv, Looping, ToBinaryOP, ToInsKind, ToJudge, ToMaths

Waiting == ToBinaryOP \cup {"getBinaryOPNum", "getMathInsNumTotal"}

\* The walks leave the loops alone.
LEMMA WaitingSerial ==
    ASSUME SerialInv, pc \in Waiting, pc' \in Waiting \cup Ended, UNCHANGED serial, N' \in Nat
    PROVE  SerialInv'
<1>1. /\ entry' = 1 /\ BBFlag' = 1 /\ time_tmp' = 0 /\ i' = 1 /\ timeInf' = <<>>
  BY DEF SerialInv, Waiting, serial
<1>2. SerialTypes'
  <2>1. \A S : <<>> \in Seq(S)
    OBVIOUS
  <2>2. PICK n \in Nat : n = N'
    OBVIOUS
  <2>3. 1 \in 1..(n + 1) /\ 1 \in Nat \ {0} /\ 0 \in Nat /\ 1 \in Nat
    OBVIOUS
  <2> QED
    BY <1>1, <2>1, <2>2, <2>3, Zenon DEF SerialTypes
<1> QED
  BY <1>1, <1>2 DEF SerialInv, Waiting, Ended, Looping, ToBinaryOP, ToInsKind, ToJudge, ToMaths

LEMMA BeginSerial ==
    ASSUME WInv, RInv, SerialInv, GetMathInsNumTotal
    PROVE  SerialInv'
<1>1. /\ pc = "getMathInsNumTotal" /\ pc' = "memory" /\ N' = N /\ R' = R
      /\ UNCHANGED <<entry, BBFlag, time_tmp, i, timeInf>>
  BY DEF GetMathInsNumTotal, stream, serial, N, R
<1>2. entry = 1 /\ BBFlag = 1 /\ time_tmp = 0 /\ i = 1 /\ timeInf = <<>> /\ SerialTypes
  BY <1>1 DEF SerialInv
<1>3. N \in Nat /\ R \in Nat
  BY <1>1, BehindFacts DEF Behind
<1>4. Position'
  <2>1. RowsOver' = 0
    BY <1>1, <1>2 DEF RowsOver
  <2>2. R * N \in Nat /\ 1 = 0 * N + 1
    BY <1>3
  <2> QED
    BY <1>1, <1>2, <2>1, <2>2 DEF Position
<1>5. SerialTypes'
  BY <1>1, <1>2 DEF SerialTypes
<1>6. Gathered' + time_tmp' = Spent("memory", entry - 1)'
  <2>1. entry' - 1 = 0 /\ timeInf' = <<>> /\ Len(<<>>) = 0 /\ time_tmp' = 0
    BY <1>1, <1>2
  <2>2. Gathered' = 0
    BY <2>1, SumZero DEF Gathered
  <2>3. Spent("memory", entry - 1)' = 0
    BY <2>1, SumZero DEF Spent
  <2> QED
    BY <2>1, <2>2, <2>3
<1> QED
  BY <1>1, <1>4, <1>5, <1>6 DEF SerialInv, Looping, ToBinaryOP, ToInsKind, ToJudge, ToMaths

LEMMA StillSerial ==
    ASSUME SerialInv, UNCHANGED <<serial, BBNum, BBFreq, isParaRegion, total, stray>>,
           \/ pc' = pc \/ pc' = "crashed" \/ (pc = "parallel" /\ pc' = "done")
    PROVE  SerialInv'
<1>1. /\ \A t, n : Spent(t, n)' = Spent(t, n) /\ Whole(t)' = Whole(t)
      /\ N' = N /\ R' = R /\ Gathered' = Gathered /\ SerialTypes' = SerialTypes
      /\ UNCHANGED <<entry, BBFlag, time_tmp, i, timeInf>>
  BY SameSpent DEF N, R, Gathered, SerialTypes, serial
<1>2. pc' = pc => Position' = Position
  BY <1>1 DEF Position, RowsOver
<1>3. CASE pc' = pc
  BY <1>1, <1>2, <1>3 DEF SerialInv
<1>4. CASE pc' = "crashed" \/ (pc = "parallel" /\ pc' = "done")
  BY <1>1, <1>4 DEF SerialInv, Looping, ToBinaryOP, ToInsKind, ToJudge, ToMaths
<1> QED
  BY <1>3, <1>4

LEMMA NextSerial == WInv /\ RInv /\ Totals /\ SerialInv /\ [Next]_vars => SerialInv'
<1> SUFFICES ASSUME WInv, RInv, Totals, SerialInv, [Next]_vars PROVE SerialInv'
  OBVIOUS
<1> USE DEF stream
<1>1. N' \in Nat
  BY NextWInv DEF WInv, Types
<1>2. pc \in {"memory", "arithmetic", "maths", "parallel"} => Tables
  BY DEF Tables, Predicting
<1>3. CASE CountPlaces \/ CountInstructions \/ GetBBNum \/ GetMathInsNumInBB
  <2> USE DEF Waiting, ToBinaryOP, ToInsKind, ToJudge, ToMaths, Ended
  <2>1. CASE CountPlaces
    BY <1>1, <2>1, WaitingSerial DEF CountPlaces
  <2>2. CASE CountInstructions
    BY <1>1, <2>2, WaitingSerial DEF CountInstructions, Filled
  <2>3. CASE GetBBNum \/ GetMathInsNumInBB
    BY <1>1, <2>3, WaitingSerial DEF GetBBNum, GetMathInsNumInBB, EndWalk
  <2> QED
    BY <1>3, <2>1, <2>2, <2>3
<1>4. CASE ReadNumber \/ ReadUnopened \/ EndRead
  <2>1. UNCHANGED serial /\ pc = "getBBFrequency" /\ pc' \in {"getBBFrequency", "exhausted", "judgeIsParallel"}
    BY <1>4 DEF ReadNumber, ReadUnopened, EndRead
  <2> QED
    BY <1>1, <2>1, WaitingSerial DEF Waiting, ToBinaryOP, ToInsKind, ToJudge, ToMaths, Ended
<1>5. CASE JudgeBlock \/ EndJudge \/ GetInsKind \/ GetBinaryOPNum
  <2>1. /\ UNCHANGED serial /\ pc \in {"judgeIsParallel", "getInsKind", "getBinaryOPNum"}
        /\ pc' \in {"judgeIsParallel", "getInsKind", "getBinaryOPNum", "getMathInsNumTotal"}
    BY <1>5 DEF JudgeBlock, EndJudge, GetInsKind, GetBinaryOPNum, EndWalk
  <2> QED
    BY <1>1, <2>1, WaitingSerial DEF Waiting, ToBinaryOP, ToInsKind, ToJudge, ToMaths
<1>6. CASE GetMathInsNumTotal
  BY <1>6, BeginSerial
<1>7. CASE AddMemory
  <2>1. Tables
    BY <1>2, <1>7 DEF AddMemory, AddEntry
  <2> QED
    BY <1>7, <2>1, AddMemorySerial
<1>8. ASSUME NEW t \in {"arithmetic", "maths"}, AddTime(t) PROVE SerialInv'
  <2>1. Tables
    BY <1>2, <1>8 DEF AddTime, AddEntry
  <2> QED
    BY <1>8, <2>1, AddTimeSerial
<1>9. CASE EndMemory
  <2>1. Tables
    BY <1>2, <1>9 DEF EndMemory, EndTable
  <2> QED
    BY <1>9, <2>1, EndMemorySerial
<1>10. CASE EndArithmetic
  <2>1. Tables
    BY <1>2, <1>10 DEF EndArithmetic, EndTable
  <2> QED
    BY <1>10, <2>1, EndArithmeticSerial
<1>11. CASE EndMaths
  <2>1. Tables
    BY <1>2, <1>11 DEF EndMaths, EndTable
  <2> QED
    BY <1>11, <2>1, EndMathsSerial
<1>12. CASE AddRegion \/ Finish \/ UNCHANGED vars
  <2>1. /\ UNCHANGED <<serial, BBNum, BBFreq, isParaRegion, total, stray>>
        /\ pc' = pc \/ pc' = "crashed" \/ (pc = "parallel" /\ pc' = "done")
    BY <1>12 DEF AddRegion, Finish, vars, input
  <2> QED
    BY <2>1, StillSerial
<1> QED
  BY <1>3, <1>4, <1>5, <1>6, <1>7, <1>8, <1>9, <1>10, <1>11, <1>12 DEF Next

LEMMA InitSerial == Init => SerialInv
<1> SUFFICES ASSUME Init PROVE SerialInv
  OBVIOUS
<1>1. /\ pc = "getBBNum" /\ N = 0 /\ entry = 1 /\ BBFlag = 1 /\ time_tmp = 0 /\ i = 1 /\ timeInf = <<>>
  BY DEF Init, N
<1>2. \A S : <<>> \in Seq(S)
  OBVIOUS
<1> QED
  BY <1>1, <1>2 DEF SerialInv, SerialTypes, Looping

-----------------------------------------------------------------------------
(* What the times are.                                                     *)

LEMMA BehindPredicting == Predicting => pc \in Behind
  BY DEF Predicting, Behind

LEMMA CountsType ==
    ASSUME Tables, NEW t \in DOMAIN Kinds, NEW p \in 1..N
    PROVE  \A k \in DOMAIN Kinds[t] : counts[t][p][k] \in Nat
<1>1. counts[t] \in Seq(Row(t)) /\ Len(counts[t]) = N
  BY TablesFacts DEF Tables, WInv, Types
<1> DEFINE S == Row(t) s == counts[t]
<1> HIDE DEF S, s
<1>2. s \in Seq(S) /\ p \in 1..Len(s)
  BY <1>1 DEF S, s
<1>3. s[p] \in S
  BY <1>2
<1> QED
  BY <1>3 DEF S, s, Row

\* The times of an entry of the tables are those of its place, as often as the
\* row counts it.
LEMMA CostOnce ==
    ASSUME Tables, NEW t \in {"memory", "arithmetic"}, NEW c \in 1..R, NEW p \in 1..N
    PROVE  /\ Cost(t, (c - 1) * N + p) = M.freq[(c - 1) * N + p] * TimeOnce(t, p)
           /\ TimeOnce(t, p) \in Nat /\ M.freq[(c - 1) * N + p] \in Nat
           /\ (c - 1) * N + p \in 1..(R * N)
<1>1. PICK n \in Nat \ {0} : n = N
  BY TablesFacts
<1>2. PICK r \in Nat : r = R
  BY TablesFacts
<1>3. c \in 1..r /\ p \in 1..n
  BY <1>1, <1>2
<1> DEFINE e == (c - 1) * n + p
<1>4. e \in 1..(r * n)
  BY <1>3, EntryBound
<1>5. RowAt(e, n) = c /\ PlaceAt(e, n) = p
  <2>1. c \in Nat \ {0}
    BY <1>3
  <2> QED
    BY <1>3, <2>1, EntryOf
<1>6. PICK F \in Nat : F = BBFreq[c][p] /\ F = M.freq[e]
  BY <1>1, <1>2, <1>3, BehindFacts, BehindPredicting DEF Tables
<1> HIDE DEF e
<1>7. PICK l \in Nat : l = Len(Kinds[t]) /\ DOMAIN Kinds[t] = 1..l
  BY KindsType
<1>8. \A k \in 1..l : total[t][e][k] = counts[t][p][k] * F
  <2>1. Multiplied(t)
    BY TablesFacts, KindsType
  <2>2. e \in 1..(R * N)
    BY <1>1, <1>2, <1>4
  <2>3. total[t][e] = [k \in DOMAIN Kinds[t] |->
                          counts[t][PlaceAt(e, N)][k] * BBFreq[RowAt(e, N)][PlaceAt(e, N)]]
    BY <2>1, <2>2, Zenon DEF Multiplied
  <2>4. total[t][e] = [k \in 1..l |-> counts[t][p][k] * F]
    BY <1>1, <1>5, <1>6, <1>7, <2>3, Zenon
  <2> QED
    BY <2>4
<1>9. \A k \in 1..l : counts[t][p][k] \in Nat
  BY <1>1, <1>3, <1>7, CountsType, KindsType
<1>10. \A k \in 1..l : Time[Kinds[t][k]] \in Nat
  BY <1>7, TimeType, KindsType
<1> DEFINE z == [k \in 1..l |-> 0]
           g == [k \in DOMAIN Kinds[t] |-> Time[Kinds[t][k]] * counts[t][p][k]]
           h == [k \in DOMAIN Kinds[t] |->
                    total[t][e][k] * (IF t = "maths" THEN stray ELSE Time[Kinds[t][k]])]
<1>11. ASSUME NEW k \in 1..l
       PROVE  g[k] \in Nat /\ z[k] = 0 /\ h[k] = z[k] + F * g[k]
  <2>1. PICK a \in Nat : a = counts[t][p][k]
    BY <1>9
  <2>2. PICK b \in Nat : b = Time[Kinds[t][k]]
    BY <1>10
  <2>3. g[k] = b * a /\ h[k] = (a * F) * b /\ z[k] = 0
    BY <1>7, <1>8, <2>1, <2>2
  <2>4. (a * F) * b = 0 + F * (b * a) /\ b * a \in Nat
    OBVIOUS
  <2> QED
    BY <2>3, <2>4
<1>12. Cost(t, e) = SumTo(h, l) /\ TimeOnce(t, p) = SumTo(g, l)
  BY <1>7 DEF Cost, TimeOnce
<1> HIDE DEF g, h, z
<1>13. SumTo(g, l) \in Nat
  BY <1>11, SumNat
<1>14. SumTo(z, l) = 0
  BY <1>11, SumZeros
<1>15. SumTo(h, l) = SumTo(z, l) + F * SumTo(g, l)
  <2>1. \A k \in 1..l : z[k] \in Int /\ g[k] \in Int /\ h[k] = z[k] + F * g[k]
    BY <1>11
  <2> QED
    BY <2>1, SumLinear
<1>16. F * SumTo(g, l) \in Nat
  BY <1>13
<1>17. Cost(t, e) = F * TimeOnce(t, p)
  BY <1>12, <1>14, <1>15, <1>16
<1> QED
  BY <1>1, <1>2, <1>4, <1>6, <1>12, <1>13, <1>17 DEF e

\* Without calls of library functions in serial places these take no time.
LEMMA MathsNothing ==
    ASSUME Tables, NoMathsInSerial
    PROVE  Whole("maths") = 0
<1>1. PICK n \in Nat \ {0} : n = N
  BY TablesFacts
<1>2. PICK r \in Nat : r = R
  BY TablesFacts
<1>3. PICK l \in Nat : l = Len(Kinds["maths"]) /\ DOMAIN Kinds["maths"] = 1..l
  BY KindsType
<1>4. ASSUME NEW e \in 1..(r * n), isParaRegion[PlaceAt(e, n)] = 0
      PROVE  Cost("maths", e) = 0
  <2>1. PICK p \in 1..n : p = PlaceAt(e, n)
    BY TablePlace
  <2>2. PICK c \in 1..r : c = RowAt(e, n)
    BY TablePlace
  <2>3. PICK F \in Nat : F = BBFreq[c][p]
    BY <1>1, <1>2, BehindFacts, BehindPredicting DEF Tables
  <2>4. PICK s \in Nat : s = stray
    BY DEF Tables, WInv, Types
  <2>5. ASSUME NEW k \in 1..l PROVE total["maths"][e][k] = 0
    <3>1. counts["maths"][p][k] = 0
      BY <1>1, <1>3, <1>4, <2>1 DEF NoMathsInSerial, N, Kinds
    <3>2. Multiplied("maths")
      BY TablesFacts, KindsType
    <3>3. total["maths"][e][k] = counts["maths"][p][k] * F
      BY <1>1, <1>2, <1>3, <2>1, <2>2, <2>3, <3>2 DEF Multiplied
    <3> QED
      BY <3>1, <3>3
  <2> DEFINE h == [k \in DOMAIN Kinds["maths"] |->
                      total["maths"][e][k] * (IF "maths" = "maths" THEN stray ELSE Time[Kinds["maths"][k]])]
  <2>6. \A k \in 1..l : h[k] = 0
    BY <1>3, <2>4, <2>5
  <2>7. Cost("maths", e) = SumTo(h, l)
    BY <1>3 DEF Cost
  <2> HIDE DEF h
  <2> QED
    BY <2>6, <2>7, SumZeros
<1> DEFINE f == SerialCost("maths")
<1>5. \A e \in 1..(r * n) : f[e] = 0
  BY <1>1, <1>2, <1>4 DEF SerialCost
<1>6. PICK m \in Nat : m = r * n
  OBVIOUS
<1> HIDE DEF f
<1>7. SumTo(f, m) = 0
  BY <1>5, <1>6, SumZeros
<1> QED
  BY <1>1, <1>2, <1>6, <1>7 DEF f, Whole, Spent

LEMMA RegionTimes ==
    ASSUME Tables, NEW c \in 1..R, NEW r
    PROVE  RegionTime(r, c) = TimeIn(c, r) /\ RegionTime(r, c) \in Nat
<1>1. PICK n \in Nat \ {0} : n = N /\ n = Len(isParaRegion) /\ DOMAIN isParaRegion = 1..n
  <2>1. N \in Nat \ {0} /\ Len(isParaRegion) = N /\ isParaRegion \in Seq(Regions)
    BY TablesFacts DEF Tables, WInv, Types
  <2> QED
    BY <2>1
<1> DEFINE f == [p \in DOMAIN isParaRegion |->
                    IF isParaRegion[p] # r THEN 0
                    ELSE LET e == p + (c - 1) * BBNum IN Cost("memory", e) + Cost("arithmetic", e)]
           g == [p \in 1..BBNum |-> IF isParaRegion[p] = r THEN TimeOf(c, p) ELSE 0]
<1>2. ASSUME NEW p \in 1..n PROVE f[p] = g[p] /\ f[p] \in Nat
  <2>1. PICK e \in 1..(R * N) : e = (c - 1) * N + p
    BY <1>1, CostOnce
  <2>2. PICK a \in Nat, b \in Nat, F \in Nat :
            /\ a = TimeOnce("memory", p) /\ b = TimeOnce("arithmetic", p) /\ F = M.freq[(c - 1) * N + p]
            /\ Cost("memory", e) = F * a /\ Cost("arithmetic", e) = F * b
    BY <1>1, <2>1, CostOnce
  <2>3. p + (c - 1) * BBNum = e
    <3>1. PICK x \in Int : x = (c - 1) * n
      <4>1. c \in Int
        BY TablesFacts
      <4> QED
        BY <4>1
    <3>2. (c - 1) * BBNum = x
      BY <1>1, <3>1, Zenon DEF N
    <3>3. p + x = x + p
      BY <1>1, <3>1
    <3> QED
      BY <2>1, <3>2, <3>3, Zenon DEF N
  <2>4. F * a + F * b = F * (a + b) /\ F * (a + b) \in Nat
    OBVIOUS
  <2>5. TimeOf(c, p) = F * (a + b)
    BY <2>2 DEF TimeOf, N
  <2>6. f[p] = IF isParaRegion[p] # r THEN 0 ELSE Cost("memory", e) + Cost("arithmetic", e)
    BY <1>1, <2>3
  <2>7. g[p] = IF isParaRegion[p] = r THEN TimeOf(c, p) ELSE 0
    BY <1>1 DEF N
  <2> HIDE DEF f, g
  <2>8. CASE isParaRegion[p] = r
    BY <2>2, <2>4, <2>5, <2>6, <2>7, <2>8
  <2>9. CASE isParaRegion[p] # r
    BY <2>6, <2>7, <2>9
  <2> QED
    BY <2>8, <2>9
<1>3. RegionTime(r, c) = SumTo(f, n) /\ TimeIn(c, r) = SumTo(g, n)
  BY <1>1 DEF RegionTime, TimeIn, N
<1> HIDE DEF f, g
<1>4. SumTo(f, n) = SumTo(g, n)
  BY <1>2, SumSame
<1>5. SumTo(f, n) \in Nat
  BY <1>2, SumNat
<1> QED
  BY <1>3, <1>4, <1>5

\* The serial places of all rows.
LEMMA SerialTimes ==
    ASSUME Tables
    PROVE  Whole("memory") + Whole("arithmetic")
               = SumTo([c \in DOMAIN BBFreq |-> TimeIn(c, 0)], Len(BBFreq))
<1>1. PICK n \in Nat \ {0} : n = N
  BY TablesFacts
<1>2. PICK r \in Nat : r = R /\ DOMAIN BBFreq = 1..r
  BY BehindFacts, BehindPredicting DEF Tables
<1>3. PICK m \in Nat : m = r * n
  OBVIOUS
<1> DEFINE a == SerialCost("memory")
           b == SerialCost("arithmetic")
           f == [e \in 1..m |-> a[e] + b[e]]
           g == [c \in DOMAIN BBFreq |-> TimeIn(c, 0)]
           h == [c \in 1..r |-> [p \in 1..BBNum |-> IF isParaRegion[p] = 0 THEN TimeOf(c, p) ELSE 0]]
<1>4. \A e \in 1..m : a[e] \in Nat /\ b[e] \in Nat
  BY <1>1, <1>2, <1>3, SerialCostType, KindsType
<1>5. Whole("memory") = SumTo(a, m) /\ Whole("arithmetic") = SumTo(b, m)
  BY <1>1, <1>2, <1>3 DEF Whole, Spent
<1>6. \A c \in 1..r : g[c] = SumTo(h[c], n)
  BY <1>1, <1>2 DEF TimeIn, N
<1>7. ASSUME NEW c \in 1..r, NEW p \in 1..n PROVE h[c][p] = f[(c - 1) * n + p]
  <2>1. PICK e \in 1..m : e = (c - 1) * n + p
    BY <1>1, <1>2, <1>3, CostOnce
  <2>2. PlaceAt(e, n) = p
    <3>1. c \in Nat \ {0}
      BY <1>2
    <3> QED
      BY <2>1, <3>1, EntryOf
  <2>3. /\ a[e] = (IF isParaRegion[p] = 0 THEN Cost("memory", e) ELSE 0)
        /\ b[e] = (IF isParaRegion[p] = 0 THEN Cost("arithmetic", e) ELSE 0)
    BY <1>1, <1>2, <1>3, <2>2 DEF SerialCost
  <2>4. PICK x \in Nat, y \in Nat, F \in Nat :
            /\ x = TimeOnce("memory", p) /\ y = TimeOnce("arithmetic", p) /\ F = M.freq[(c - 1) * N + p]
            /\ Cost("memory", e) = F * x /\ Cost("arithmetic", e) = F * y
    BY <1>1, <1>2, <2>1, CostOnce
  <2>5. F * x + F * y = F * (x + y)
    OBVIOUS
  <2>6. TimeOf(c, p) = F * (x + y)
    BY <2>4 DEF TimeOf, N
  <2>7. h[c][p] = IF isParaRegion[p] = 0 THEN TimeOf(c, p) ELSE 0
    BY <1>1 DEF N
  <2>8. f[e] = a[e] + b[e]
    OBVIOUS
  <2>9. h[c][p] = f[e]
    <3> HIDE DEF a, b, f, h
    <3> QED
      BY <2>3, <2>4, <2>5, <2>6, <2>7, <2>8
  <2> QED
    BY <2>1, <2>9
<1>8. \A e \in 1..m : f[e] = a[e] + 1 * b[e] /\ f[e] \in Int
  <2> HIDE DEF a, b
  <2> QED
    BY <1>4
<1> HIDE DEF a, b, f, g, h
<1>9. SumTo(f, m) = SumTo(a, m) + 1 * SumTo(b, m)
  <2>1. \A e \in 1..m : a[e] \in Int /\ b[e] \in Int /\ f[e] = a[e] + 1 * b[e]
    BY <1>4, <1>8
  <2> QED
    BY <2>1, SumLinear
<1>10. SumTo(f, r * n) = SumTo(g, r)
  <2>1. \A k \in 1..(r * n) : f[k] \in Int
    BY <1>3, <1>8
  <2>2. \A c \in 1..r : \A p \in 1..n : h[c][p] = f[(c - 1) * n + p]
    BY <1>7
  <2>3. SumsRows(g, f, h, r, n)
    BY <1>6, <2>1, <2>2, Zenon DEF SumsRows
  <2> QED
    BY <2>3, SumRows
<1>11. SumTo(b, m) \in Nat
  BY <1>4, SumNat
<1> QED
  BY <1>2, <1>3, <1>5, <1>9, <1>10, <1>11 DEF g, R

-----------------------------------------------------------------------------
(* The regions.                                                            *)

\* A time taken for a region is that of the row that spends most in it.
Slowest(r) == /\ \E c \in 1..R : parallel[r] = RegionTime(r, c)
              /\ \A c \in 1..R : RegionTime(r, c) <= parallel[r]

ParallelInv ==
    /\ parallel \in Seq(Nat)
    /\ pc \in Waiting \cup Looping => parallel = <<>>
    /\ pc \in {"parallel", "done"} => \A r \in 1..Len(parallel) : Slowest(r)
    /\ pc = "done" => Len(parallel) = parallelSize

LEMMA SlowestOf ==
    ASSUME Tables, NEW r, BBFreq # <<>>
    PROVE  LET m == Max({RegionTime(r, c) : c \in DOMAIN BBFreq})
           IN  /\ m \in Nat /\ \E c \in 1..R : m = RegionTime(r, c)
               /\ \A c \in 1..R : RegionTime(r, c) <= m
<1>1. PICK n \in Nat \ {0} : n = R /\ DOMAIN BBFreq = 1..n
  <2>1. R \in Nat /\ DOMAIN BBFreq = 1..R /\ BBFreq \in Seq(Seq(Nat))
    BY BehindFacts, BehindPredicting DEF Tables, RInv, Read, Rowed
  <2>2. R # 0
    BY <2>1 DEF R
  <2> QED
    BY <2>1, <2>2
<1> DEFINE f == [c \in 1..n |-> RegionTime(r, c)]
           S == {RegionTime(r, c) : c \in DOMAIN BBFreq}
<1>2. \A c \in 1..n : f[c] = RegionTime(r, c) /\ f[c] \in Nat
  BY <1>1, RegionTimes
<1>3. \E k \in 1..n : \A l \in 1..n : f[l] <= f[k]
  <2> HIDE DEF f
  <2>1. \A k \in 1..n : f[k] \in Int
    BY <1>2
  <2> QED
    BY <2>1, Greatest
<1>4. \E x \in S : \A y \in S : x >= y
  <2>1. PICK k \in 1..n : \A l \in 1..n : f[l] <= f[k]
    BY <1>3
  <2>2. RegionTime(r, k) \in S
    BY <1>1
  <2>3. \A y \in S : RegionTime(r, k) >= y
    <3> SUFFICES ASSUME NEW l \in 1..n PROVE RegionTime(r, k) >= RegionTime(r, l)
      BY <1>1
    <3> QED
      BY <1>2, <2>1
  <2> QED
    BY <2>2, <2>3
<1>5. Max(S) \in S /\ \A y \in S : Max(S) >= y
  <2> HIDE DEF S
  <2> QED
    BY <1>4 DEF Max
<1>6. PICK k \in 1..n : Max(S) = RegionTime(r, k)
  BY <1>1, <1>5
<1>7. \A c \in 1..n : RegionTime(r, c) <= Max(S) /\ Max(S) \in Nat
  <2> SUFFICES ASSUME NEW c \in 1..n PROVE RegionTime(r, c) <= Max(S) /\ Max(S) \in Nat
    OBVIOUS
  <2>1. RegionTime(r, c) \in S
    BY <1>1
  <2>2. PICK a \in Nat, b \in Nat : a = RegionTime(r, c) /\ b = Max(S)
    BY <1>2, <1>6
  <2> HIDE DEF S
  <2>3. b >= a
    BY <1>5, <2>1, <2>2
  <2> QED
    BY <2>2, <2>3
<1> QED
  BY <1>1, <1>6, <1>7

LEMMA NextParallel == WInv /\ RInv /\ Totals /\ ParallelInv /\ [Next]_vars => ParallelInv'
<1> SUFFICES ASSUME WInv, RInv, Totals, ParallelInv, [Next]_vars PROVE ParallelInv'
  OBVIOUS
<1> USE DEF input, stream
<1>1. ASSUME UNCHANGED parallel, pc \in Waiting \cup Looping, pc' \notin {"done"} PROVE ParallelInv'
  <2>1. parallel' = <<>> /\ Len(<<>>) = 0 /\ \A r \in 1..0 : FALSE
    BY <1>1 DEF ParallelInv
  <2>2. \A S : <<>> \in Seq(S)
    OBVIOUS
  <2> QED
    BY <1>1, <2>1, <2>2 DEF ParallelInv
<1> HIDE DEF input, stream
<1>2. CASE CountPlaces \/ CountInstructions \/ GetBBNum \/ GetMathInsNumInBB
  <2> USE DEF Waiting, ToBinaryOP, ToInsKind, ToJudge, ToMaths
  <2>1. CASE CountPlaces
    BY <1>1, <2>1 DEF CountPlaces
  <2>2. CASE CountInstructions
    BY <1>1, <2>2 DEF CountInstructions, Filled
  <2>3. CASE GetBBNum \/ GetMathInsNumInBB
    BY <1>1, <2>3 DEF GetBBNum, GetMathInsNumInBB, EndWalk
  <2> QED
    BY <1>2, <2>1, <2>2, <2>3
<1>3. CASE ReadNumber \/ ReadUnopened \/ EndRead
  <2>1. /\ UNCHANGED parallel /\ pc = "getBBFrequency"
        /\ pc' \in {"getBBFrequency", "exhausted", "judgeIsParallel"}
    BY <1>3 DEF ReadNumber, ReadUnopened, EndRead
  <2> QED
    BY <1>1, <2>1 DEF Waiting, ToBinaryOP, ToInsKind, ToJudge, ToMaths
<1>4. CASE JudgeBlock \/ EndJudge \/ GetInsKind \/ GetBinaryOPNum \/ GetMathInsNumTotal
  <2>1. /\ UNCHANGED parallel
        /\ pc \in {"judgeIsParallel", "getInsKind", "getBinaryOPNum", "getMathInsNumTotal"}
        /\ pc' \in {"judgeIsParallel", "getInsKind", "getBinaryOPNum", "getMathInsNumTotal", "memory"}
    BY <1>4 DEF JudgeBlock, EndJudge, GetInsKind, GetBinaryOPNum, EndWalk, GetMathInsNumTotal
  <2> QED
    BY <1>1, <2>1 DEF Waiting, ToBinaryOP, ToInsKind, ToJudge, ToMaths
<1>5. CASE AddMemory \/ AddTime("arithmetic") \/ AddTime("maths")
  <2>1. UNCHANGED parallel /\ pc \in Looping /\ pc' = pc
    BY <1>5 DEF AddMemory, AddTime, AddEntry, Looping
  <2> QED
    BY <1>1, <2>1 DEF Looping
<1>6. CASE EndMemory \/ EndArithmetic \/ EndMaths
  <2>1. UNCHANGED parallel /\ pc \in Looping /\ pc' \in {"arithmetic", "maths", "parallel"}
    BY <1>6 DEF EndMemory, EndArithmetic, EndMaths, EndTable, Looping
  <2> QED
    BY <1>1, <2>1
<1>7. CASE AddRegion
  <2>1. /\ pc = "parallel" /\ UNCHANGED <<M, stray, BBNum, BBFreq, isParaRegion, total>>
        /\ IF BBFreq = <<>> THEN pc' = "crashed" /\ parallel' = parallel
           ELSE /\ parallel' = Append(parallel, Max({RegionTime(Len(parallel) + 1, c) : c \in DOMAIN BBFreq}))
                /\ pc' = pc
    BY <1>7 DEF AddRegion, input, stream
  <2>2. CASE BBFreq = <<>>
    BY <2>1, <2>2 DEF ParallelInv, Waiting, Looping, ToBinaryOP, ToInsKind, ToJudge, ToMaths
  <2>3. CASE BBFreq # <<>>
    <3>1. PICK l \in Nat : /\ l = Len(parallel) /\ parallel \in Seq(Nat) /\ DOMAIN parallel = 1..l
                           /\ \A r \in 1..l : Slowest(r)
      BY <2>1 DEF ParallelInv
    <3>2. Tables
      BY <2>1 DEF Tables, Predicting
    <3>3. PICK m \in Nat : /\ parallel' = Append(parallel, m)
                           /\ \E c \in 1..R : m = RegionTime(l + 1, c)
                           /\ \A c \in 1..R : RegionTime(l + 1, c) <= m
      <4> DEFINE m == Max({RegionTime(l + 1, c) : c \in DOMAIN BBFreq})
      <4>1. /\ m \in Nat /\ \E c \in 1..R : m = RegionTime(l + 1, c)
            /\ \A c \in 1..R : RegionTime(l + 1, c) <= m
        BY <2>3, <3>2, SlowestOf
      <4>2. parallel' = Append(parallel, m)
        BY <2>1, <2>3, <3>1
      <4> QED
        BY <4>1, <4>2
    <3>4. /\ parallel' \in Seq(Nat) /\ Len(parallel') = l + 1 /\ parallel'[l + 1] = m
          /\ \A r \in 1..l : parallel'[r] = parallel[r]
      BY <3>1, <3>3
    <3>5. R' = R /\ \A r, c : RegionTime(r, c)' = RegionTime(r, c)
      BY <2>1 DEF R, RegionTime, Cost
    <3>6. ASSUME NEW r \in 1..(l + 1) PROVE Slowest(r)'
      <4>1. CASE r = l + 1
        BY <3>3, <3>4, <3>5, <4>1 DEF Slowest
      <4>2. CASE r # l + 1
        <5>1. r \in 1..l
          BY <4>2
        <5>2. Slowest(r) /\ parallel'[r] = parallel[r]
          BY <3>1, <3>4, <5>1
        <5> QED
          BY <3>5, <5>2 DEF Slowest
      <4> QED
        BY <4>1, <4>2
    <3> QED
      BY <2>1, <2>3, <3>4, <3>6 DEF ParallelInv, Waiting, Looping, ToBinaryOP, ToInsKind, ToJudge, ToMaths
  <2> QED
    BY <2>2, <2>3
<1>8. CASE Finish \/ UNCHANGED vars
  <2>1. /\ UNCHANGED <<M, stray, BBNum, BBFreq, isParaRegion, total, parallel>>
        /\ pc' = pc \/ (pc = "parallel" /\ pc' = "done" /\ Len(parallel) = parallelSize)
    BY <1>8 DEF Finish, vars, input, stream
  <2>2. R' = R /\ parallelSize' = parallelSize /\ \A r, c : RegionTime(r, c)' = RegionTime(r, c)
    BY <2>1 DEF R, RegionTime, Cost, parallelSize
  <2>3. \A r : Slowest(r)' = Slowest(r)
    BY <2>1, <2>2 DEF Slowest
  <2> QED
    BY <2>1, <2>2, <2>3 DEF ParallelInv, Waiting, Looping, ToBinaryOP, ToInsKind, ToJudge, ToMaths
<1> QED
  BY <1>2, <1>3, <1>4, <1>5, <1>6, <1>7, <1>8 DEF Next

LEMMA InitParallel == Init => ParallelInv
<1> SUFFICES ASSUME Init PROVE ParallelInv
  OBVIOUS
<1>1. parallel = <<>> /\ pc = "getBBNum"
  BY DEF Init
<1>2. \A S : <<>> \in Seq(S)
  OBVIOUS
<1> QED
  BY <1>1, <1>2 DEF ParallelInv

-----------------------------------------------------------------------------
(* The theorems.                                                           *)

IInv == WInv /\ RInv /\ Stream /\ Judged /\ Totals /\ SerialInv /\ ParallelInv

LEMMA InitIInv == Init => IInv
<1> SUFFICES ASSUME Init PROVE IInv
  OBVIOUS
<1>1. Judged
  BY DEF Init, Judged
<1> QED
  BY <1>1, InitWInv, InitRInv, InitStream, InitTotals, InitSerial, InitParallel DEF IInv

LEMMA NextIInv == IInv /\ [Next]_vars => IInv'
  BY NextWInv, NextRInv, NextStream, NextJudged, NextTotals, NextSerial, NextParallel DEF IInv

\* What holds of the tables, the rows, the regions and the times added so far.
THEOREM Invariant == Spec => []IInv
  BY InitIInv, NextIInv, PTL DEF Spec

LEMMA IInvTypes == IInv => TypeOK
<1> SUFFICES ASSUME IInv PROVE TypeOK
  OBVIOUS
<1>1. /\ pc \in Phases /\ blk \in 1..(Len(M.blocks) + 1)
      /\ \A t \in DOMAIN Kinds : counts[t] \in Seq([DOMAIN Kinds[t] -> Nat])
      /\ isParaRegion \in Seq(-1..Cardinality(Outlined(M)))
  BY DEF IInv, WInv, Types, Row, Regions
<1>2. \A t \in DOMAIN Kinds : total[t] \in Seq([DOMAIN Kinds[t] -> Nat])
  BY DEF IInv, Totals, Row
<1>3. /\ read \in 0..M.file.numbers /\ eof \in BOOLEAN /\ num \in Nat
      /\ thread \in Seq(Nat) /\ Len(thread) <= BBNum /\ BBFreq \in Seq(Seq(Nat))
  BY DEF IInv, Stream, Numbers, L, N
<1>4. /\ entry \in Nat \ {0} /\ BBFlag \in 1..(BBNum + 1) /\ time_tmp \in Nat
      /\ timeInf \in Seq(Nat) /\ parallel \in Seq(Nat)
  BY DEF IInv, SerialInv, SerialTypes, ParallelInv, N
<1>5. ASSUME pc \in {"arithmetic", "maths"} PROVE i \in DOMAIN timeInf
  <2>1. Position /\ Len(timeInf) >= 1 /\ Len(timeInf) >= R /\ SerialTypes
    BY <1>5 DEF IInv, SerialInv, Looping
  <2>2. PICK l \in Nat : l = Len(timeInf) /\ DOMAIN timeInf = 1..l
    BY <1>4
  <2>3. R \in Nat
    BY <1>3 DEF R
  <2> QED
    BY <1>5, <2>1, <2>2, <2>3 DEF Position, RowsOver, SerialTypes
<1>6. ASSUME Predicting
      PROVE  /\ \A t \in DOMAIN Kinds : /\ Len(counts[t]) = BBNum
                                        /\ Len(total[t]) = BBNum * Len(BBFreq)
             /\ Len(isParaRegion) = BBNum
             /\ \A c \in DOMAIN BBFreq : Len(BBFreq[c]) = BBNum
  <2>1. Tables
    BY <1>6 DEF Tables, IInv
  <2>2. \A t \in DOMAIN Kinds : Len(counts[t]) = BBNum /\ DOMAIN total[t] = 1..(R * N)
    BY <2>1, TablesFacts DEF N
  <2>3. Len(isParaRegion) = BBNum
    BY <2>1, TablesFacts DEF N
  <2>4. \A c \in DOMAIN BBFreq : Len(BBFreq[c]) = BBNum
    BY <1>6, BehindFacts, BehindPredicting DEF IInv, N
  <2>5. PICK n \in Nat, r \in Nat : n = BBNum /\ r = Len(BBFreq)
    BY <2>1, TablesFacts DEF N, R
  <2>6. PICK m \in Nat : m = r * n /\ m = n * r
    OBVIOUS
  <2>7. ASSUME NEW t \in DOMAIN Kinds PROVE Len(total[t]) = BBNum * Len(BBFreq)
    <3>1. DOMAIN total[t] = 1..m
      BY <2>2, <2>5, <2>6 DEF N, R
    <3>2. total[t] \in Seq([DOMAIN Kinds[t] -> Nat])
      BY <1>2
    <3> DEFINE S == [DOMAIN Kinds[t] -> Nat] s == total[t]
    <3> HIDE DEF S, s
    <3>3. s \in Seq(S) /\ DOMAIN s = 1..m
      BY <3>1, <3>2 DEF S, s
    <3>4. Len(s) = m
      BY <3>3
    <3> QED
      BY <2>5, <2>6, <3>4 DEF s
  <2> QED
    BY <2>2, <2>3, <2>4, <2>7
<1> QED
  BY <1>1, <1>2, <1>3, <1>4, <1>5, <1>6 DEF TypeOK, OneEntryPerPlace

\* ComputeIns keeps to its types: all tables and rows have an entry for each
\* place, and no loop of getProTime leaves its tables.
THEOREM TypeCorrect == Spec => []TypeOK
  BY Invariant, IInvTypes, PTL

\* ComputeIns uses the rows data.txt holds completely, whatever it ends with.
THEOREM RowsAreComplete == Spec => []RowsComplete
<1>1. IInv => RowsComplete
  <2> SUFFICES ASSUME IInv, pc \in Behind PROVE RowsComplete
    BY DEF RowsComplete, Predicting, Behind
  <2> QED
    BY BehindFacts DEF IInv, RInv, Read, Rowed, RowsComplete, R, N, Numbers
<1> QED
  BY <1>1, Invariant, PTL

\* judgeIsParallel finds the places that parallel regions execute.
THEOREM PlacesJudgedByCalls == Spec => []JudgedByCalls
<1>1. IInv => JudgedByCalls
  BY JudgedRight DEF IInv
<1> QED
  BY <1>1, Invariant, PTL

LEMMA IInvAddsUp == IInv => TimesAddUp
<1> SUFFICES ASSUME IInv, pc = "done", NoMathsInSerial
             PROVE  /\ SumTo(timeInf, Len(timeInf))
                           = SumTo([c \in DOMAIN BBFreq |-> TimeIn(c, 0)], Len(BBFreq))
                    /\ Len(parallel) = parallelSize
                    /\ \A r \in DOMAIN parallel : /\ \E c \in DOMAIN BBFreq : parallel[r] = TimeIn(c, r)
                                                  /\ \A c \in DOMAIN BBFreq : TimeIn(c, r) <= parallel[r]
  BY DEF TimesAddUp
<1>1. Tables
  BY DEF IInv, Tables, Predicting
<1>2. Gathered = SumTo([c \in DOMAIN BBFreq |-> TimeIn(c, 0)], Len(BBFreq))
  <2>1. Gathered = Whole("memory") + Whole("arithmetic") + Whole("maths")
    BY DEF IInv, SerialInv
  <2>2. Whole("memory") \in Int /\ Whole("arithmetic") \in Int
    BY <1>1, WholeType, KindsType
  <2>3. Gathered = Whole("memory") + Whole("arithmetic")
    BY <1>1, <2>1, <2>2, MathsNothing
  <2> QED
    BY <1>1, <2>3, SerialTimes
<1>3. DOMAIN BBFreq = 1..R
  BY BehindFacts, BehindPredicting, <1>1 DEF Tables
<1>4. /\ Len(parallel) = parallelSize /\ DOMAIN parallel = 1..Len(parallel)
      /\ \A r \in 1..Len(parallel) : Slowest(r)
  BY DEF IInv, ParallelInv
<1>5. ASSUME NEW r \in DOMAIN parallel
      PROVE  /\ \E c \in DOMAIN BBFreq : parallel[r] = TimeIn(c, r)
             /\ \A c \in DOMAIN BBFreq : TimeIn(c, r) <= parallel[r]
  <2>1. Slowest(r)
    BY <1>4
  <2>2. \A c \in 1..R : RegionTime(r, c) = TimeIn(c, r)
    BY <1>1, RegionTimes
  <2> QED
    BY <1>3, <2>1, <2>2, Zenon DEF Slowest
<1> QED
  BY <1>2, <1>4, <1>5 DEF Gathered

\* The times getProTime predicts are those of the serial places of all rows,
\* and for each region those of the slowest row.
THEOREM PredictionAddsUp == Spec => []TimesAddUp
  BY Invariant, IInvAddsUp, PTL

-----------------------------------------------------------------------------
(* OutputOmpResult: where places are.                                      *)

LEMMA EveryPlace ==
    ASSUME NEW m \in Modules, NEW p \in 1..NumPlaces(m)
    PROVE  \E b \in Walked(m) : \E q \in 1..Places(m, b) : p = Before(m, b) + q
<1>1. PICK l \in Nat : l = Len(m.blocks) /\ DOMAIN m.blocks = 1..l
  BY BlockFacts
<1> DEFINE S == {n \in 1..l : Before(m, n + 1) >= p}
<1>2. NumPlaces(m) = Before(m, l + 1) /\ NumPlaces(m) \in Nat /\ Before(m, 1) = 0
  BY <1>1, BeforeNext
<1>3. l \in S
  <2>1. l # 0
    BY <1>2
  <2>2. l \in 1..l
    BY <2>1
  <2> QED
    BY <1>2, <2>2
<1>4. PICK b \in S : \A n \in S : b <= n
  <2>1. S \in SUBSET Nat
    OBVIOUS
  <2> HIDE DEF S
  <2> QED
    BY <1>3, <2>1, Least
<1>5. /\ b \in DOMAIN m.blocks /\ Before(m, b) \in Nat /\ Before(m, b + 1) \in Nat
      /\ Before(m, b + 1) = Before(m, b) + Places(m, b) /\ Places(m, b) \in Nat
  BY <1>1, <1>4, BeforeNext, PlacesType
<1>6. Before(m, b) < p
  <2>1. CASE b = 1
    BY <1>2, <2>1
  <2>2. CASE b # 1
    <3>1. PICK c \in 1..l : b = c + 1
      <4>1. b - 1 \in 1..l /\ b = (b - 1) + 1
        BY <1>4, <2>2
      <4> QED
        BY <4>1
    <3>2. c \notin S
      BY <1>4, <3>1
    <3>3. ~(Before(m, b) >= p)
      BY <3>1, <3>2
    <3> QED
      BY <1>5, <3>3
  <2> QED
    BY <2>1, <2>2
<1>7. PICK q \in Nat : q = p - Before(m, b)
  BY <1>5, <1>6
<1>8. q \in 1..Places(m, b) /\ p = Before(m, b) + q
  BY <1>4, <1>5, <1>6, <1>7
<1>9. b \in Walked(m)
  <2>1. Places(m, b) # 0
    BY <1>5, <1>8
  <2> QED
    BY <2>1 DEF Places
<1> QED
  BY <1>8, <1>9

LEMMA PlaceRange ==
    ASSUME NEW m \in Modules, NEW n \in Walked(m), NEW k \in DOMAIN Code(m, n)
    PROVE  /\ ForksBefore(m, n, k) \in Nat
           /\ Before(m, n) + ForksBefore(m, n, k) + 1 \in (Before(m, n) + 1)..Before(m, n + 1)
<1>1. n \in DOMAIN m.blocks
  BY BlockFacts
<1>2. /\ Before(m, n) \in Nat /\ Before(m, n + 1) = Before(m, n) + Places(m, n)
      /\ Places(m, n) \in Nat
  BY <1>1, BeforeNext, PlacesType
<1>3. PICK c \in Nat : c = Cardinality(At(m, n, "fork")) /\ ForksBefore(m, n, k) \in 0..c
  <2>1. At(m, n, "fork") \in SUBSET DOMAIN Code(m, n)
    BY DEF At
  <2> QED
    BY <1>1, <2>1, Finite, PlacesType
<1>4. Places(m, n) = c + 1
  BY <1>3 DEF Places
<1> QED
  BY <1>2, <1>3, <1>4

LEMMA OtherBlock ==
    ASSUME NEW m \in Modules, NEW a \in DOMAIN m.blocks, NEW b \in DOMAIN m.blocks, a # b,
           NEW p \in (Before(m, a) + 1)..Before(m, a + 1)
    PROVE  p \notin (Before(m, b) + 1)..Before(m, b + 1)
<1>1. PICK l \in Nat : l = Len(m.blocks) /\ DOMAIN m.blocks = 1..l
  BY BlockFacts
<1>2. /\ Before(m, a) \in Nat /\ Before(m, a + 1) \in Nat
      /\ Before(m, b) \in Nat /\ Before(m, b + 1) \in Nat
  BY BeforeNext
<1>3. CASE a < b
  <2>1. b \in 1..(l + 1) /\ a + 1 \in 1..b
    BY <1>1, <1>3
  <2>2. Before(m, a + 1) <= Before(m, b)
    BY <1>1, <2>1, BeforeGrows
  <2> QED
    BY <1>2, <2>2
<1>4. CASE b < a
  <2>1. a \in 1..(l + 1) /\ b + 1 \in 1..a
    BY <1>1, <1>4
  <2>2. Before(m, b + 1) <= Before(m, a)
    BY <1>1, <2>1, BeforeGrows
  <2> QED
    BY <1>2, <2>2
<1> QED
  BY <1>1, <1>3, <1>4

-----------------------------------------------------------------------------
(* What has been executed by the first numbers of the profile.             *)

ExecutedTo(p, a) ==
    SumTo([j \in DOMAIN bbfreq |-> IF PlaceAt(j, NumPlaces(M)) = p THEN bbfreq[j] ELSE 0], a)
BlockTo(n, a) ==
    SumTo([k \in DOMAIN Code(M, n) |-> ExecutedTo(PlaceOf(n, k), a)], Len(Code(M, n)))
AllTo(a) ==
    SumTo([n \in DOMAIN M.blocks |-> IF n \in Walked(M) THEN BlockTo(n, a) ELSE 0], Len(M.blocks))

LEMMA BbfreqType ==
    ASSUME M \in Modules
    PROVE  /\ Len(bbfreq) \in Nat /\ DOMAIN bbfreq = 1..Len(bbfreq)
           /\ \A j \in 1..Len(bbfreq) : bbfreq[j] \in Nat
<1>1. bbfreq \in Seq(Nat)
  <2>1. M.freq \in Seq(Nat) /\ Numbers \in 0..Len(M.freq)
    BY Profile
  <2>2. \A s \in Seq(Nat) : \A l \in 0..Len(s) : SubSeq(s, 1, l) \in Seq(Nat)
    OBVIOUS
  <2>3. SubSeq(M.freq, 1, Numbers) \in Seq(Nat)
    BY <2>1, <2>2
  <2>4. \A S : <<>> \in Seq(S)
    OBVIOUS
  <2> QED
    BY <2>3, <2>4 DEF bbfreq, Numbers
<1> DEFINE s == bbfreq
<1> HIDE DEF s
<1>2. s \in Seq(Nat)
  BY <1>1 DEF s
<1>3. Len(s) \in Nat /\ DOMAIN s = 1..Len(s) /\ \A j \in 1..Len(s) : s[j] \in Nat
  BY <1>2
<1> QED
  BY <1>3 DEF s

LEMMA ExecutedToNext ==
    ASSUME M \in Modules, NEW a \in Nat, a < Len(bbfreq), NEW p
    PROVE  /\ ExecutedTo(p, a) \in Nat /\ ExecutedTo(p, a + 1) \in Nat
           /\ ExecutedTo(p, a + 1) =
                 ExecutedTo(p, a) + (IF PlaceAt(a + 1, NumPlaces(M)) = p THEN bbfreq[a + 1] ELSE 0)
<1> DEFINE f == [j \in DOMAIN bbfreq |-> IF PlaceAt(j, NumPlaces(M)) = p THEN bbfreq[j] ELSE 0]
<1>1. PICK l \in Nat : l = Len(bbfreq) /\ DOMAIN bbfreq = 1..l /\ \A j \in 1..l : bbfreq[j] \in Nat
  BY BbfreqType
<1>2. PICK b \in 1..l : b = a + 1
  BY <1>1
<1>3. \A j \in 1..l : f[j] \in Nat
  BY <1>1
<1>4. f[b] = IF PlaceAt(b, NumPlaces(M)) = p THEN bbfreq[b] ELSE 0
  BY <1>1
<1>5. ExecutedTo(p, a) = SumTo(f, a) /\ ExecutedTo(p, a + 1) = SumTo(f, a + 1)
  BY DEF ExecutedTo
<1> HIDE DEF f
<1>6. SumTo(f, a) \in Nat
  <2>1. \A j \in 1..a : f[j] \in Nat
    BY <1>2, <1>3
  <2> QED
    BY <2>1, SumNat
<1>7. SumTo(f, b) \in Nat
  <2>1. \A j \in 1..b : f[j] \in Nat
    BY <1>3
  <2> QED
    BY <2>1, SumNat
<1>8. SumTo(f, a + 1) = SumTo(f, a) + f[a + 1]
  BY SumNext
<1> QED
  BY <1>2, <1>4, <1>5, <1>6, <1>7, <1>8

\* One number adds to a block what its instructions in one place count.
LEMMA BlockToNext ==
    ASSUME M \in Modules, NEW a \in Nat, a < Len(bbfreq), NEW n \in Walked(M)
    PROVE  LET S == {k \in DOMAIN Code(M, n) : PlaceOf(n, k) = PlaceAt(a + 1, NumPlaces(M))}
           IN  /\ BlockTo(n, a) \in Nat /\ BlockTo(n, a + 1) \in Nat
               /\ BlockTo(n, a + 1) = BlockTo(n, a) + bbfreq[a + 1] * Cardinality(S)
<1> DEFINE p == PlaceAt(a + 1, NumPlaces(M))
           S == {k \in DOMAIN Code(M, n) : PlaceOf(n, k) = p}
           f == [k \in DOMAIN Code(M, n) |-> ExecutedTo(PlaceOf(n, k), a)]
           h == [k \in DOMAIN Code(M, n) |-> ExecutedTo(PlaceOf(n, k), a + 1)]
<1>1. PICK l \in Nat : l = Len(Code(M, n)) /\ DOMAIN Code(M, n) = 1..l
  BY BlockFacts
<1>2. PICK F \in Nat : F = bbfreq[a + 1]
  BY BbfreqType
<1> DEFINE g == [k \in 1..l |-> IF k \in S THEN F ELSE 0]
<1>3. ASSUME NEW k \in 1..l
      PROVE  f[k] \in Nat /\ h[k] \in Nat /\ g[k] \in Nat /\ h[k] = f[k] + 1 * g[k]
  <2>1. f[k] = ExecutedTo(PlaceOf(n, k), a) /\ h[k] = ExecutedTo(PlaceOf(n, k), a + 1)
    BY <1>1
  <2>2. /\ ExecutedTo(PlaceOf(n, k), a) \in Nat /\ ExecutedTo(PlaceOf(n, k), a + 1) \in Nat
        /\ ExecutedTo(PlaceOf(n, k), a + 1) =
              ExecutedTo(PlaceOf(n, k), a) + (IF p = PlaceOf(n, k) THEN F ELSE 0)
    BY <1>2, ExecutedToNext
  <2>3. g[k] = IF p = PlaceOf(n, k) THEN F ELSE 0
    BY <1>1
  <2> HIDE DEF f, g, h, p
  <2> QED
    BY <2>1, <2>2, <2>3
<1>4. BlockTo(n, a) = SumTo(f, l) /\ BlockTo(n, a + 1) = SumTo(h, l)
  BY <1>1 DEF BlockTo
<1>5. S \in SUBSET (1..l) /\ \A k \in 1..l : g[k] = IF k \in S THEN F ELSE 0
  BY <1>1
<1> HIDE DEF f, g, h, S
<1>6. SumTo(h, l) = SumTo(f, l) + 1 * SumTo(g, l)
  <2>1. \A k \in 1..l : f[k] \in Int /\ g[k] \in Int /\ h[k] = f[k] + 1 * g[k]
    BY <1>3
  <2> QED
    BY <2>1, SumLinear
<1>7. SumTo(g, l) = F * Cardinality(S)
  BY <1>5, SumMembers
<1>8. SumTo(f, l) \in Nat /\ SumTo(h, l) \in Nat /\ SumTo(g, l) \in Nat
  BY <1>3, SumNat
<1> QED
  BY <1>2, <1>4, <1>6, <1>7, <1>8 DEF S

\* ... and that place is one of one block.
LEMMA AllToNext ==
    ASSUME M \in Modules, NEW a \in Nat, a < Len(bbfreq),
           NEW b \in Walked(M), NEW q \in 1..Places(M, b),
           PlaceAt(a + 1, NumPlaces(M)) = Before(M, b) + q
    PROVE  /\ AllTo(a) \in Int
           /\ AllTo(a + 1) = AllTo(a) + bbfreq[a + 1] * Cardinality(InPlace(M, b, q))
<1> DEFINE p == PlaceAt(a + 1, NumPlaces(M))
           S(n) == {k \in DOMAIN Code(M, n) : PlaceOf(n, k) = p}
           f == [n \in DOMAIN M.blocks |-> IF n \in Walked(M) THEN BlockTo(n, a) ELSE 0]
           h == [n \in DOMAIN M.blocks |-> IF n \in Walked(M) THEN BlockTo(n, a + 1) ELSE 0]
<1>1. PICK l \in Nat : l = Len(M.blocks) /\ DOMAIN M.blocks = 1..l /\ Walked(M) \subseteq 1..l
  BY BlockFacts
<1>2. PICK F \in Nat : F = bbfreq[a + 1]
  BY BbfreqType
<1>3. ASSUME NEW n \in Walked(M)
      PROVE  /\ BlockTo(n, a) \in Nat /\ BlockTo(n, a + 1) \in Nat
             /\ BlockTo(n, a + 1) = BlockTo(n, a) + F * Cardinality(S(n))
  BY <1>2, BlockToNext
<1>4. p \in (Before(M, b) + 1)..Before(M, b + 1)
  <2>1. /\ Before(M, b) \in Nat /\ Before(M, b + 1) = Before(M, b) + Places(M, b)
        /\ Places(M, b) \in Nat
    BY <1>1, BeforeNext, PlacesType
  <2> QED
    BY <2>1
<1>5. ASSUME NEW n \in Walked(M), n # b PROVE S(n) = {}
  <2>1. p \notin (Before(M, n) + 1)..Before(M, n + 1)
    <3> HIDE DEF p
    <3> QED
      BY <1>1, <1>4, <1>5, OtherBlock
  <2>2. \A k \in DOMAIN Code(M, n) : PlaceOf(n, k) \in (Before(M, n) + 1)..Before(M, n + 1)
    BY PlaceRange DEF PlaceOf
  <2> HIDE DEF p
  <2> QED
    BY <2>1, <2>2
<1>6. S(b) = InPlace(M, b, q)
  <2>1. Before(M, b) \in Nat
    BY <1>1, BeforeNext
  <2>2. ASSUME NEW k \in DOMAIN Code(M, b)
        PROVE  PlaceOf(b, k) = p <=> ForksBefore(M, b, k) = q - 1
    <3>1. ForksBefore(M, b, k) \in Nat
      BY PlaceRange
    <3>2. q \in Int
      OBVIOUS
    <3> HIDE DEF p
    <3> QED
      BY <2>1, <3>1, <3>2 DEF PlaceOf, p
  <2> QED
    BY <2>2 DEF InPlace
<1> HIDE DEF p, S
<1>7. \A n \in 1..l : f[n] \in Int /\ h[n] \in Int
  BY <1>1, <1>3
<1>8. \A n \in 1..l : n # b => h[n] = f[n]
  <2> SUFFICES ASSUME NEW n \in 1..l, n # b PROVE h[n] = f[n]
    OBVIOUS
  <2>1. CASE n \in Walked(M)
    <3>1. Cardinality(S(n)) = 0
      BY <1>5, <2>1, FS_EmptySet
    <3>2. BlockTo(n, a + 1) = BlockTo(n, a)
      BY <1>3, <2>1, <3>1
    <3> QED
      BY <1>1, <2>1, <3>2
  <2>2. CASE n \notin Walked(M)
    BY <1>1, <2>2
  <2> QED
    BY <2>1, <2>2
<1>9. h[b] - f[b] = F * Cardinality(InPlace(M, b, q)) /\ b \in 1..l
  <2>1. f[b] = BlockTo(b, a) /\ h[b] = BlockTo(b, a + 1)
    BY <1>1
  <2>2. F * Cardinality(InPlace(M, b, q)) \in Int
    <3>1. PICK c \in Nat : c = Cardinality(InPlace(M, b, q))
      BY <1>1, PlacesType
    <3>2. F * c \in Int
      OBVIOUS
    <3> QED
      BY <3>1, <3>2
  <2> HIDE DEF f, h
  <2> QED
    BY <1>1, <1>3, <1>6, <2>1, <2>2
<1>10. AllTo(a) = SumTo(f, l) /\ AllTo(a + 1) = SumTo(h, l)
  BY <1>1 DEF AllTo
<1> HIDE DEF f, h
<1>11. SumTo(h, l) = SumTo(f, l) + (h[b] - f[b])
  BY <1>7, <1>8, <1>9, SumChange
<1>12. SumTo(f, l) \in Int
  <2>1. \A k \in 0..l : SumTo(f, k) \in Int
    BY <1>7, SumType
  <2> QED
    BY <2>1
<1> QED
  BY <1>2, <1>9, <1>10, <1>11, <1>12

LEMMA NothingYet ==
    ASSUME M \in Modules
    PROVE  AllTo(0) = 0
<1>1. PICK l \in Nat : l = Len(M.blocks) /\ DOMAIN M.blocks = 1..l
  BY BlockFacts
<1>2. \A p : ExecutedTo(p, 0) = 0
  BY SumZero DEF ExecutedTo
<1>3. ASSUME NEW n \in DOMAIN M.blocks PROVE BlockTo(n, 0) = 0
  <2> DEFINE f == [k \in DOMAIN Code(M, n) |-> ExecutedTo(PlaceOf(n, k), 0)]
  <2>1. PICK c \in Nat : c = Len(Code(M, n)) /\ DOMAIN Code(M, n) = 1..c
    BY BlockFacts
  <2>2. \A k \in 1..c : f[k] = 0
    BY <1>2, <2>1
  <2>3. BlockTo(n, 0) = SumTo(f, c)
    BY <2>1 DEF BlockTo
  <2> HIDE DEF f
  <2> QED
    BY <2>2, <2>3, SumZeros
<1> DEFINE f == [n \in DOMAIN M.blocks |-> IF n \in Walked(M) THEN BlockTo(n, 0) ELSE 0]
<1>4. \A n \in 1..l : f[n] = 0
  BY <1>1, <1>3
<1>5. AllTo(0) = SumTo(f, l)
  BY <1>1 DEF AllTo
<1> HIDE DEF f
<1> QED
  BY <1>4, <1>5, SumZeros

\* The sizes counted so far are those of the places come by.
Counted ==
    /\ EachBBInstNum \in Seq(Nat) /\ NumBlocks = Before(M, walked + 1)
    /\ \A n \in 1..walked : \A q \in 1..Places(M, n) :
          EachBBInstNum[Before(M, n) + q] = Cardinality(InPlace(M, n, q))

OutputInv ==
    /\ M \in Modules /\ walked \in 0..Len(M.blocks)
    /\ output = "no" => walked = 0 /\ EachBBInstNum = <<>> /\ added = 0 /\ instNum = 0
    /\ output = "count" => added = 0 /\ instNum = 0
    /\ output \in {"count", "add"} => Counted
    /\ output = "add" => walked = Len(M.blocks) /\ added \in 0..Len(bbfreq) /\ instNum = AllTo(added)
    /\ output = "done" /\ walked > 0 => instNum = AllTo(Len(bbfreq))

LEMMA SameModule == [Next]_vars => M' = M
<1> SUFFICES ASSUME [Next]_vars PROVE M' = M
  OBVIOUS
<1> USE DEF input
<1>1. CASE CountPlaces \/ CountInstructions \/ GetBBNum \/ GetMathInsNumInBB
  BY <1>1 DEF CountPlaces, CountInstructions, GetBBNum, GetMathInsNumInBB, EndWalk
<1>2. CASE ReadNumber \/ ReadUnopened \/ EndRead \/ JudgeBlock \/ EndJudge
  BY <1>2 DEF ReadNumber, ReadUnopened, EndRead, JudgeBlock, EndJudge, EndWalk
<1>3. CASE GetInsKind \/ GetBinaryOPNum \/ GetMathInsNumTotal
  BY <1>3 DEF GetInsKind, GetBinaryOPNum, EndWalk, GetMathInsNumTotal
<1>4. CASE AddMemory \/ AddTime("arithmetic") \/ AddTime("maths")
  BY <1>4 DEF AddMemory, AddTime, AddEntry
<1>5. CASE EndMemory \/ EndArithmetic \/ EndMaths \/ AddRegion \/ Finish \/ UNCHANGED vars
  BY <1>5 DEF EndMemory, EndArithmetic, EndMaths, EndTable, AddRegion, Finish, vars
<1> QED
  BY <1>1, <1>2, <1>3, <1>4, <1>5 DEF Next

LEMMA SameAll ==
    ASSUME M' = M
    PROVE  bbfreq' = bbfreq /\ \A a : AllTo(a)' = AllTo(a)
<1>1. bbfreq' = bbfreq
  BY DEF bbfreq
<1>2. \A p, a : ExecutedTo(p, a)' = ExecutedTo(p, a)
  BY <1>1 DEF ExecutedTo
<1>3. \A n, k : PlaceOf(n, k)' = PlaceOf(n, k)
  BY DEF PlaceOf
<1>4. \A n, a : BlockTo(n, a)' = BlockTo(n, a)
  BY <1>2, <1>3 DEF BlockTo
<1> QED
  BY <1>1, <1>4 DEF AllTo

LEMMA CountBlockOutput == OutputInv /\ CountBlock => OutputInv'
<1> SUFFICES ASSUME OutputInv, CountBlock PROVE OutputInv'
  OBVIOUS
<1>1. /\ M \in Modules /\ M' = M /\ output = "count" /\ walked' = walked + 1 /\ walked < Len(M.blocks)
      /\ UNCHANGED <<added, instNum>> /\ walked \in 0..Len(M.blocks) /\ Counted
      /\ added = 0 /\ instNum = 0
  BY DEF OutputInv, CountBlock, vars, input
<1>2. PICK b \in DOMAIN M.blocks : b = walked + 1 /\ b = walked'
  BY <1>1, BlockFacts
<1>3. CASE output' = "crashed"
  BY <1>1, <1>2, <1>3, BlockFacts DEF OutputInv
<1>4. CASE output' # "crashed"
  <2> DEFINE c == Places(M, b)
             e == [q \in 1..c |-> Cardinality(InPlace(M, b, q))]
             l == NumBlocks
  <2>1. EachBBInstNum' = EachBBInstNum \o e /\ output' = output
    BY <1>2, <1>4 DEF CountBlock
  <2>2. /\ c \in Nat /\ \A q \in 1..c : e[q] \in Nat /\ e[q] = Cardinality(InPlace(M, b, q))
        /\ l = Before(M, b) /\ Before(M, b + 1) = Before(M, b) + c /\ l \in Nat
        /\ EachBBInstNum \in Seq(Nat)
    BY <1>1, <1>2, PlacesType, BeforeNext DEF Counted
  <2>3. e \in Seq(Nat) /\ Len(e) = c
    <3> HIDE DEF c
    <3> QED
      BY <2>2
  <2> HIDE DEF e, c
  <2>4. /\ EachBBInstNum' \in Seq(Nat) /\ Len(EachBBInstNum') = l + c
        /\ \A j \in 1..l : EachBBInstNum'[j] = EachBBInstNum[j]
        /\ \A q \in 1..c : EachBBInstNum'[l + q] = e[q]
    <3>1. l = Len(EachBBInstNum)
      BY DEF NumBlocks
    <3> HIDE DEF l
    <3> QED
      BY <2>1, <2>2, <2>3, <3>1
  <2>5. ASSUME NEW n \in 1..b, NEW q \in 1..Places(M, n)
        PROVE  EachBBInstNum'[Before(M, n) + q] = Cardinality(InPlace(M, n, q))
    <3>1. CASE n = b
      BY <2>2, <2>4, <2>5, <3>1 DEF c
    <3>2. CASE n # b
      <4>1. n \in 1..walked /\ n \in DOMAIN M.blocks /\ n + 1 \in 1..b /\ b \in 1..(Len(M.blocks) + 1)
        BY <1>1, <1>2, <3>2, BlockFacts
      <4>2. /\ Before(M, n) \in Nat /\ Before(M, n + 1) = Before(M, n) + Places(M, n)
            /\ Places(M, n) \in Nat
        BY <1>1, <4>1, BeforeNext, PlacesType
      <4>3. Before(M, n + 1) <= l
        BY <1>1, <2>2, <4>1, BeforeGrows
      <4>4. Before(M, n) + q \in 1..l
        BY <2>2, <4>2, <4>3
      <4> QED
        BY <1>1, <2>4, <4>1, <4>4 DEF Counted
    <3> QED
      BY <3>1, <3>2
  <2>6. Counted'
    BY <1>1, <1>2, <2>2, <2>4, <2>5 DEF Counted, NumBlocks
  <2>7. walked' \in 0..Len(M.blocks)
    BY <1>1, BlockFacts
  <2> QED
    BY <1>1, <2>1, <2>6, <2>7 DEF OutputInv
<1> QED
  BY <1>3, <1>4

LEMMA AddNumberOutput == OutputInv /\ AddNumber => OutputInv'
<1> SUFFICES ASSUME OutputInv, AddNumber PROVE OutputInv'
  OBVIOUS
<1>1. /\ M \in Modules /\ M' = M /\ output = "add" /\ output' = "add" /\ walked = Len(M.blocks)
      /\ UNCHANGED <<walked, EachBBInstNum>> /\ Counted /\ added' = added + 1
      /\ added \in 0..Len(bbfreq) /\ added < Len(bbfreq) /\ instNum = AllTo(added)
      /\ instNum' = instNum + bbfreq[added + 1] * EachBBInstNum[PlaceAt(added + 1, NumBlocks)]
  BY DEF OutputInv, AddNumber, vars, input
<1>2. PICK a \in Nat : a = added /\ a < Len(bbfreq)
  BY <1>1, BbfreqType
<1>3. NumBlocks = NumPlaces(M) /\ NumPlaces(M) \in Nat \ {0}
  BY <1>1, SomePlace DEF Counted, NumPlaces
<1>4. PICK p \in 1..NumPlaces(M) : p = PlaceAt(a + 1, NumPlaces(M))
  <2>1. a + 1 \in Nat \ {0}
    OBVIOUS
  <2> QED
    BY <1>3, <2>1, EntryAt
<1>5. PICK b \in Walked(M) : \E q \in 1..Places(M, b) : p = Before(M, b) + q
  BY <1>1, EveryPlace
<1>6. PICK q \in 1..Places(M, b) : p = Before(M, b) + q
  BY <1>5
<1>7. EachBBInstNum[p] = Cardinality(InPlace(M, b, q))
  <2>1. b \in 1..walked
    BY <1>1, BlockFacts
  <2> QED
    BY <1>1, <1>6, <2>1 DEF Counted
<1>8. AllTo(a + 1) = AllTo(a) + bbfreq[a + 1] * Cardinality(InPlace(M, b, q))
  BY <1>1, <1>2, <1>4, <1>6, AllToNext
<1>9. instNum' = AllTo(added')
  BY <1>1, <1>2, <1>3, <1>4, <1>7, <1>8
<1>10. bbfreq' = bbfreq /\ \A x : AllTo(x)' = AllTo(x)
  BY <1>1, SameAll
<1>11. instNum' = AllTo(added)'
  <2>1. PICK x \in Nat : x = a + 1
    OBVIOUS
  <2>2. AllTo(x)' = AllTo(x) /\ added' = x
    BY <1>1, <1>2, <1>10, <2>1
  <2>3. instNum' = AllTo(x)
    BY <1>9, <2>2
  <2>4. AllTo(added)' = AllTo(x)'
    BY <2>2 DEF AllTo, BlockTo, ExecutedTo
  <2> QED
    BY <2>2, <2>3, <2>4
<1>12. Counted'
  BY <1>1 DEF Counted, NumBlocks
<1>13. added' \in 0..Len(bbfreq')
  BY <1>1, <1>2, <1>10, BbfreqType
<1> QED
  BY <1>1, <1>11, <1>12, <1>13, BlockFacts DEF OutputInv

LEMMA NextOutput == OutputInv /\ [OutputNext]_<<vars, outputVars>> => OutputInv'
<1> SUFFICES ASSUME OutputInv, [OutputNext]_<<vars, outputVars>> PROVE OutputInv'
  OBVIOUS
<1>1. ASSUME M' = M, UNCHANGED outputVars PROVE OutputInv'
  <2>1. bbfreq' = bbfreq /\ \A a : AllTo(a)' = AllTo(a)
    BY <1>1, SameAll
  <2>2. Counted' = Counted /\ UNCHANGED <<output, walked, EachBBInstNum, added, instNum>>
    BY <1>1 DEF Counted, NumBlocks, outputVars
  <2>3. AllTo(added)' = AllTo(added) /\ AllTo(Len(bbfreq))' = AllTo(Len(bbfreq))
    <3>1. PICK x, y : x = added /\ y = Len(bbfreq) /\ x = added' /\ y = Len(bbfreq')
      BY <2>1, <2>2
    <3>2. AllTo(x)' = AllTo(x) /\ AllTo(y)' = AllTo(y)
      BY <2>1
    <3>3. AllTo(added)' = AllTo(x)' /\ AllTo(Len(bbfreq))' = AllTo(y)'
      BY <3>1 DEF AllTo, BlockTo, ExecutedTo
    <3> QED
      BY <3>1, <3>2, <3>3
  <2> QED
    BY <1>1, <2>1, <2>2, <2>3 DEF OutputInv
<1>2. CASE Compute
  BY <1>1, <1>2, SameModule DEF Compute
<1>3. CASE GetEnv
  <2>1. /\ M' = M /\ output = "no" /\ output' \in {"count", "done"}
        /\ UNCHANGED <<walked, EachBBInstNum, added, instNum>>
    BY <1>3 DEF GetEnv, vars, input
  <2>2. M \in Modules /\ walked = 0 /\ EachBBInstNum = <<>> /\ added = 0 /\ instNum = 0
    BY <2>1 DEF OutputInv
  <2>3. Counted'
    <3>1. Len(<<>>) = 0 /\ \A S : <<>> \in Seq(S)
      OBVIOUS
    <3>2. Before(M, 0 + 1) = 0
      BY <2>2, BeforeNext
    <3>3. \A n \in 1..0 : FALSE
      OBVIOUS
    <3> QED
      BY <2>1, <2>2, <3>1, <3>2, <3>3 DEF Counted, NumBlocks
  <2> QED
    BY <2>1, <2>2, <2>3, BlockFacts DEF OutputInv
<1>4. CASE EndCount
  <2>1. /\ M' = M /\ output = "count" /\ output' = "add" /\ walked = Len(M.blocks)
        /\ UNCHANGED <<walked, EachBBInstNum, added, instNum>>
    BY <1>4 DEF EndCount, vars, input
  <2>2. M \in Modules /\ Counted /\ added = 0 /\ instNum = 0 /\ walked \in 0..Len(M.blocks)
    BY <2>1 DEF OutputInv
  <2>3. Counted'
    BY <2>1, <2>2 DEF Counted, NumBlocks
  <2>4. instNum' = AllTo(added)'
    <3>1. AllTo(0)' = 0
      BY <2>1, <2>2, NothingYet, SameAll
    <3>2. AllTo(added)' = AllTo(0)'
      BY <2>1, <2>2 DEF AllTo, BlockTo, ExecutedTo
    <3> QED
      BY <2>1, <2>2, <3>1, <3>2
  <2>5. added' \in 0..Len(bbfreq')
    BY <2>1, <2>2, SameAll, BbfreqType
  <2> QED
    BY <2>1, <2>2, <2>3, <2>4, <2>5 DEF OutputInv
<1>5. CASE EndOutput
  <2>1. /\ M' = M /\ output = "add" /\ output' = "done" /\ added = Len(bbfreq)
        /\ UNCHANGED <<walked, EachBBInstNum, added, instNum>>
    BY <1>5 DEF EndOutput, vars, input
  <2>2. M \in Modules /\ instNum = AllTo(added) /\ walked \in 0..Len(M.blocks)
    BY <2>1 DEF OutputInv
  <2>3. instNum' = AllTo(Len(bbfreq))'
    <3>1. bbfreq' = bbfreq /\ \A a : AllTo(a)' = AllTo(a)
      BY <2>1, SameAll
    <3>2. PICK x : x = added /\ x = Len(bbfreq')
      BY <2>1, <3>1
    <3>3. AllTo(x)' = AllTo(x)
      BY <3>1
    <3>4. AllTo(Len(bbfreq))' = AllTo(x)'
      BY <3>2 DEF AllTo, BlockTo, ExecutedTo
    <3> QED
      BY <2>1, <2>2, <3>2, <3>3, <3>4
  <2> QED
    BY <2>1, <2>2, <2>3 DEF OutputInv
<1>6. CASE UNCHANGED <<vars, outputVars>>
  BY <1>1, <1>6 DEF vars, input
<1> QED
  BY <1>2, <1>3, <1>4, <1>5, <1>6, CountBlockOutput, AddNumberOutput DEF OutputNext

\* OutputOmpResult prints the number of executed instructions.
THEOREM InstNumIsExact == OutputSpec => []InstNumAddsUp
<1>1. OutputInit => OutputInv
  <2> SUFFICES ASSUME OutputInit PROVE OutputInv
    OBVIOUS
  <2>1. /\ M \in Modules /\ output = "no" /\ walked = 0 /\ EachBBInstNum = <<>>
        /\ added = 0 /\ instNum = 0
    BY DEF OutputInit, Init
  <2> QED
    BY <2>1, BlockFacts DEF OutputInv
<1>2. OutputInv => InstNumAddsUp
  <2> SUFFICES ASSUME OutputInv, output = "done", walked > 0
               PROVE  instNum = SumTo([n \in DOMAIN M.blocks |-> IF n \in Walked(M) THEN ExecutedIn(n) ELSE 0],
                                      Len(M.blocks))
    BY DEF InstNumAddsUp
  <2>1. \A n : ExecutedIn(n) = BlockTo(n, Len(bbfreq))
    BY DEF ExecutedIn, BlockTo, Executed, ExecutedTo
  <2>2. instNum = AllTo(Len(bbfreq))
    BY DEF OutputInv
  <2> QED
    BY <2>1, <2>2 DEF AllTo
<1> QED
  BY <1>1, <1>2, NextOutput, PTL DEF OutputSpec
=============================================================================
