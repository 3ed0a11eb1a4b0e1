------------------------- MODULE OmpProfilingProofs -------------------------
(***************************************************************************)
(* For every set of well-formed modules: the pass numbers the counters     *)
(* without a gap and reserves as many places as it uses, every place is    *)
(* counted, with the core number read last before it, and the profile is   *)
(* written once.                                                           *)
(***************************************************************************)
EXTENDS OmpProfiling, FiniteSetTheorems, WellFoundedInduction, TLAPS

Item == {Instr(op) : op \in Ops} \cup {Write} \cup {Read(n) : n \in Nat}
        \cup {Count(n, r) : n \in Nat, r \in Nat}

\* s has become r: w instructions were inserted behind the p-th.
Widened(r, s, p, w) ==
    /\ w \in {1, 2} /\ p \in 0..Len(s) /\ Len(r) = Len(s) + w
    /\ \A k \in 1..p : r[k] = s[k]
    /\ \A k \in (p + 1)..Len(s) : r[k + w] = s[k]

\* The instructions of a kind behind the p-th.
Behind(c, op, p) == {k \in Positions(c, op) : k > p}
\* Those of them that were not inserted.
Kept(r, op, p, w, low) == {k \in Positions(r, op) : k > low /\ (k <= p \/ k > p + w)}

\* The instructions have the numbers they can have, n and r are given next.
Bound(C, n, r) ==
    \A b \in DOMAIN C : \A k \in DOMAIN C[b] :
        /\ C[b][k].op = "count"  => C[b][k].n < n /\ C[b][k].core \in 1..r
        /\ C[b][k].op = "getcpu" => C[b][k].n <= r

\* Every number below n has one counter, and a core number is read once.
Numbered(C, n) ==
    /\ \A m \in 0..(n - 1) : \E b \in DOMAIN C : \E k \in DOMAIN C[b] :
          C[b][k].op = "count" /\ C[b][k].n = m
    /\ \A b, d \in DOMAIN C : \A k \in DOMAIN C[b] : \A l \in DOMAIN C[d] :
          C[b][k].op = "count" /\ C[d][l].op = "count" /\ C[b][k].n = C[d][l].n => b = d /\ k = l
ReadOnce(C) ==
    \A b, d \in DOMAIN C : \A k \in DOMAIN C[b] : \A l \in DOMAIN C[d] :
        C[b][k].op = "getcpu" /\ C[d][l].op = "getcpu" /\ C[b][k].n = C[d][l].n /\ C[b][k].n > 0
            => b = d /\ k = l

\* The first counter of a block comes before all but phi nodes and readings of
\* the core number, and up to q a counter follows every fork call.
Scanned(c, q) ==
    /\ \E k \in DOMAIN c : c[k].op = "count" /\ \A l \in 1..(k - 1) : c[l].op \in {"phi", "getcpu"}
    /\ \A k \in DOMAIN c : c[k].op = "count" /\ k >= q =>
          \A l \in 1..(k - 1) : c[l].op \in {"phi", "getcpu"}
    /\ \A k \in DOMAIN c : c[k].op = "phi" => \A l \in 1..k : c[l].op = "phi"
    /\ \A k \in DOMAIN c : k < q /\ c[k].op = "fork" =>
          /\ k + 2 < q /\ c[k + 1].op = "getcpu" /\ c[k + 2].op = "count"
          /\ c[k + 2].core = c[k + 1].n
    /\ Cardinality(Positions(c, "count")) + Cardinality(Behind(c, "fork", q - 1))
          = Cardinality(Positions(c, "fork")) + 1

Following(x, y) == y = x + 1

\* There are instructions, the last is where the block ends.
Body(c) == c \in Seq(Item) /\ c # <<>> /\ c[Len(c)].op \in {"br", "ret"}

\* Core number n was read in b's function before the k-th instruction of b, and
\* there is no fork call since.
Precedes(d, l, b, k) == d < b \/ (d = b /\ l < k)
ReadsCore(m, C, d, l, b, k, n) ==
    /\ C[d][l].op = "getcpu" /\ C[d][l].n = n
    /\ m.blocks[d].fn = m.blocks[b].fn /\ Precedes(d, l, b, k)
    /\ \A e \in DOMAIN C : \A j \in DOMAIN C[e] :
          C[e][j].op = "fork" => ~(Precedes(d, l, e, j) /\ Precedes(e, j, b, k))
CoreAt(m, C, b, k, n) == \E d \in DOMAIN C : \E l \in DOMAIN C[d] : ReadsCore(m, C, d, l, b, k, n)
Latest(m, C) ==
    \A b \in DOMAIN C : \A k \in DOMAIN C[b] :
        C[b][k].op = "count" => CoreAt(m, C, b, k, C[b][k].core)

\* The places before block n that get a counter: the block, and behind a fork.
PlacesOf(m, b)     == {b} \X ({0} \cup Positions(m.blocks[b].code, "fork"))
PlacesBefore(m, n) == {x \in (1..(n - 1)) \X Nat :
                          Instrumented(m, x[1]) /\ x \in PlacesOf(m, x[1])}
NumberOfPlaces(m, n) == Cardinality(PlacesBefore(m, n))

Walking  == phase \in {"find", "count", "instrument", "hook"}
Instrumenting == phase \in {"instrument", "hook"}
Begun(b) == Instrumenting /\ Instrumented(M, b) /\ (b < blk \/ (b = blk /\ pos > 0))
UpTo(b)  == IF b = blk THEN pos ELSE Len(code[b]) + 1

Types ==
    /\ M \in Modules /\ DOMAIN code = DOMAIN M.blocks
    /\ phase \in {"find", "count", "instrument", "hook", "done", "crashed"}
    /\ blk \in 1..(Len(M.blocks) + 1) /\ pos \in Nat /\ hook \in BOOLEAN
    /\ num \in Nat /\ i \in Nat /\ reads \in Nat /\ core \in 0..reads

Bodies ==
    /\ \A b \in DOMAIN code : Body(code[b])
    /\ Bound(code, i, reads)
    /\ phase # "done" => \A b \in DOMAIN code : Positions(code[b], "write") = {}

Counting ==
    /\ phase \in {"find", "count"} => pos = 0 /\ i = 0 /\ core = 0 /\ reads = 0
    /\ phase = "find" => blk = 1 /\ num = 0
    /\ phase = "count" => num = NumberOfPlaces(M, blk)
    /\ Instrumenting => num = NumberOfPlaces(M, Len(M.blocks) + 1)
    /\ phase = "hook" => blk = Len(M.blocks) + 1 /\ pos = 0
    /\ phase \in {"count", "instrument", "hook", "crashed"} => HasMain(M)

Scanning ==
    /\ pos > 0 /\ Instrumenting => blk \in DOMAIN M.blocks /\ Instrumented(M, blk) /\ pos <= Len(code[blk]) + 1
    /\ Instrumenting => IF pos = 0 THEN i = NumberOfPlaces(M, blk)
                    ELSE i + Cardinality(Behind(code[blk], "fork", pos - 1)) = NumberOfPlaces(M, blk + 1)
    /\ Walking => \A b \in DOMAIN code : IF Begun(b) THEN Scanned(code[b], UpTo(b))
                                         ELSE code[b] = M.blocks[b].code

Numbers == Instrumenting => Numbered(code, i) /\ ReadOnce(code)

Cores ==
    Instrumenting =>
        /\ Latest(M, code)
        /\ blk \in DOMAIN M.blocks /\ Instrumented(M, blk) /\ (pos > 0 \/ ~IsEntry(M, blk)) =>
              core > 0 /\ CoreAt(M, code, blk, IF pos = 1 THEN 2 ELSE pos, core)

IInv == Types /\ Bodies /\ Counting /\ Scanning /\ Numbers /\ Cores /\ WrittenOnce

-----------------------------------------------------------------------------
LEMMA Element ==
    ASSUME NEW S, NEW s \in Seq(S)
    PROVE  Len(s) \in Nat /\ DOMAIN s = 1..Len(s) /\ \A n \in DOMAIN s : s[n] \in S
  OBVIOUS

LEMMA Joined ==
    ASSUME NEW S, NEW s \in Seq(S), NEW t \in Seq(S)
    PROVE  /\ s \o t \in Seq(S) /\ Len(s \o t) = Len(s) + Len(t)
           /\ \A n \in 1..Len(s) : (s \o t)[n] = s[n]
           /\ \A n \in 1..Len(t) : (s \o t)[Len(s) + n] = t[n]
  OBVIOUS

LEMMA Single ==
    ASSUME NEW S, NEW e \in S
    PROVE  <<e>> \in Seq(S) /\ Len(<<e>>) = 1 /\ <<e>>[1] = e
  OBVIOUS

LEMMA Part ==
    ASSUME NEW S, NEW s \in Seq(S), NEW a \in Nat \ {0}, NEW b \in 0..Len(s), a <= b + 1
    PROVE  /\ SubSeq(s, a, b) \in Seq(S) /\ Len(SubSeq(s, a, b)) = b - a + 1
           /\ \A n \in 1..(b - a + 1) : SubSeq(s, a, b)[n] = s[a + n - 1]
<1>1. Len(s) \in Nat /\ \A n \in 1..Len(s) : s[n] \in S
  OBVIOUS
<1>2. SubSeq(s, a, b) = [n \in 1..(b - a + 1) |-> s[a + n - 1]]
  BY <1>1
<1>3. \A n \in 1..(b - a + 1) : s[a + n - 1] \in S
  BY <1>1
<1>4. b - a + 1 \in Nat
  BY <1>1
<1> DEFINE t == [n \in 1..(b - a + 1) |-> s[a + n - 1]]
<1>5. t \in [1..(b - a + 1) -> S]
  BY <1>3
<1>6. t \in Seq(S) /\ Len(t) = b - a + 1
  BY <1>4, <1>5
<1> QED
  BY <1>2, <1>6

LEMMA Inserting ==
    ASSUME NEW S, NEW s \in Seq(S), NEW e \in S, NEW p \in 0..Len(s)
    PROVE  /\ InsertAt(s, p + 1, e) \in Seq(S)
           /\ Widened(InsertAt(s, p + 1, e), s, p, 1)
           /\ InsertAt(s, p + 1, e)[p + 1] = e
<1> DEFINE L == Len(s)
           a == SubSeq(s, 1, (p + 1) - 1)  d == a \o <<e>>  c == SubSeq(s, p + 1, L)
<1>1. L \in Nat /\ p \in Nat /\ p <= L
  OBVIOUS
<1>2. a \in Seq(S) /\ Len(a) = p /\ \A n \in 1..p : a[n] = s[n]
  <2> DEFINE q == (p + 1) - 1
  <2>1. q = p /\ q - 1 + 1 = p /\ q \in 0..Len(s) /\ 1 <= q + 1 /\ \A n \in 1..p : 1 + n - 1 = n
    BY <1>1
  <2> HIDE DEF q
  <2>2. a \in Seq(S) /\ Len(a) = q - 1 + 1 /\ \A n \in 1..(q - 1 + 1) : a[n] = s[1 + n - 1]
    BY <2>1, Part DEF q
  <2> HIDE DEF a
  <2> QED
    BY <2>1, <2>2
<1>3. c \in Seq(S) /\ Len(c) = L - p /\ \A n \in 1..(L - p) : c[n] = s[p + n]
  <2>1. /\ p + 1 \in Nat \ {0} /\ L \in 0..Len(s) /\ p + 1 <= L + 1
        /\ L - (p + 1) + 1 = L - p /\ \A n \in 1..(L - p) : p + 1 + n - 1 = p + n
    BY <1>1
  <2>2. /\ c \in Seq(S) /\ Len(c) = L - (p + 1) + 1
        /\ \A n \in 1..(L - (p + 1) + 1) : c[n] = s[p + 1 + n - 1]
    BY <2>1, Part, ZenonT(40)
  <2> HIDE DEF c
  <2> QED
    BY <2>1, <2>2
<1> HIDE DEF a, c
<1>4. d \in Seq(S) /\ Len(d) = p + 1 /\ d[p + 1] = e /\ \A n \in 1..p : d[n] = s[n]
  <2>1. /\ d \in Seq(S) /\ Len(d) = Len(a) + Len(<<e>>)
        /\ \A n \in 1..Len(a) : d[n] = a[n]
        /\ \A n \in 1..Len(<<e>>) : d[Len(a) + n] = <<e>>[n]
    BY <1>2, Single, Joined
  <2> HIDE DEF d
  <2> QED
    BY <1>1, <1>2, <2>1, Single
<1> HIDE DEF d
<1> DEFINE r == d \o c
<1>5. /\ r \in Seq(S) /\ Len(r) = Len(d) + Len(c)
      /\ \A n \in 1..Len(d) : r[n] = d[n]
      /\ \A n \in 1..Len(c) : r[Len(d) + n] = c[n]
  <2>1. d \in Seq(S) /\ c \in Seq(S)
    BY <1>3, <1>4
  <2> QED
    BY <2>1, Joined
<1>6. InsertAt(s, p + 1, e) = r
  BY Zenon DEF InsertAt, r, d, a, c
<1> HIDE DEF r
<1>7. Len(r) = L + 1 /\ r[p + 1] = e /\ \A k \in 1..p : r[k] = s[k]
  BY <1>1, <1>3, <1>4, <1>5
<1>8. ASSUME NEW k \in (p + 1)..L PROVE r[k + 1] = s[k]
  <2>1. k - p \in 1..(L - p) /\ (p + 1) + (k - p) = k + 1 /\ p + (k - p) = k
    BY <1>1
  <2>2. c[k - p] = s[k]
    BY <1>3, <2>1, Zenon
  <2>3. r[k + 1] = c[k - p]
    BY <1>3, <1>4, <1>5, <2>1, Zenon
  <2> QED
    BY <2>2, <2>3
<1> QED
  BY <1>1, <1>5, <1>6, <1>7, <1>8 DEF Widened

\* First y, then x before it.
LEMMA InsertingTwo ==
    ASSUME NEW S, NEW s \in Seq(S), NEW x \in S, NEW y \in S,
           NEW p \in 0..Len(s), NEW f, NEW e, Following(p, f), Following(f, e),
           NEW r, r = InsertAt(InsertAt(s, f, y), f, x)
    PROVE  r \in Seq(S) /\ Widened(r, s, p, 2) /\ r[f] = x /\ r[e] = y
<1> DEFINE q == InsertAt(s, p + 1, y)
<1>1. q \in Seq(S) /\ Widened(q, s, p, 1) /\ q[p + 1] = y
  BY Inserting
<1>0. r = InsertAt(q, p + 1, x) /\ f = p + 1 /\ e = p + 2
  <2>1. f = p + 1 /\ e = p + 2
    BY DEF Following
  <2>2. r = InsertAt(q, p + 1, x)
    BY <2>1
  <2> QED
    BY <2>1, <2>2
<1> HIDE DEF q
<1>2. Len(s) \in Nat /\ p \in 0..Len(q)
  BY <1>1 DEF Widened
<1>3. r \in Seq(S) /\ Widened(r, q, p, 1) /\ r[p + 1] = x
  BY <1>0, <1>1, <1>2, Inserting
<1>4. PICK L \in Nat : L = Len(s)
  BY <1>2
<1>5. /\ Len(q) = L + 1 /\ Len(r) = L + 2 /\ p \in 0..L
      /\ \A k \in 1..p : q[k] = s[k] /\ r[k] = q[k]
      /\ \A k \in (p + 1)..L : q[k + 1] = s[k]
      /\ \A k \in (p + 1)..(L + 1) : r[k + 1] = q[k]
  BY <1>1, <1>3, <1>4 DEF Widened
<1>6. r[p + 2] = y
  <2>1. p + 1 \in (p + 1)..(L + 1) /\ p + 1 + 1 = p + 2
    BY <1>5
  <2> QED
    BY <1>1, <1>5, <2>1
<1>7. ASSUME NEW k \in (p + 1)..L PROVE r[k + 2] = s[k]
  <2>1. k + 1 \in (p + 1)..(L + 1) /\ k + 1 + 1 = k + 2
    BY <1>5
  <2> QED
    BY <1>5, <2>1
<1>8. Widened(r, s, p, 2)
  BY <1>4, <1>5, <1>7 DEF Widened
<1> QED
  BY <1>0, <1>3, <1>6, <1>8

\* x comes first, and y second.
LEMMA Leading ==
    ASSUME NEW S, NEW s \in Seq(S), NEW x \in S, NEW y \in S,
           NEW r, r = InsertAt(<<x>> \o s, 2, y)
    PROVE  r \in Seq(S) /\ Widened(r, s, 0, 2) /\ r[1] = x /\ r[2] = y
<1> DEFINE q == <<x>> \o s
<1>0. r = InsertAt(q, 2, y)
  OBVIOUS
<1>1. /\ q \in Seq(S) /\ Len(q) = 1 + Len(s) /\ q[1] = x
      /\ \A k \in 1..Len(s) : q[1 + k] = s[k]
  <2>1. /\ q \in Seq(S) /\ Len(q) = Len(<<x>>) + Len(s)
        /\ \A n \in 1..Len(<<x>>) : q[n] = <<x>>[n]
        /\ \A n \in 1..Len(s) : q[Len(<<x>>) + n] = s[n]
    BY Single, Joined
  <2> HIDE DEF q
  <2> QED
    BY <2>1, Single
<1> HIDE DEF q
<1>2. 1 \in 0..Len(q) /\ Len(s) \in Nat
  BY <1>1
<1>3. r \in Seq(S) /\ Widened(r, q, 1, 1) /\ r[2] = y
  <2>1. 1 + 1 = 2
    OBVIOUS
  <2> QED
    BY <1>0, <1>1, <1>2, <2>1, Inserting
<1>4. PICK L \in Nat : L = Len(s)
  BY <1>2
<1>5. /\ Len(q) = 1 + L /\ Len(r) = L + 2 /\ r[1] = q[1]
      /\ \A k \in 2..(L + 1) : r[k + 1] = q[k]
      /\ \A k \in 1..L : q[1 + k] = s[k]
  BY <1>1, <1>3, <1>4 DEF Widened
<1>6. ASSUME NEW k \in 1..L PROVE r[k + 2] = s[k]
  <2>1. 1 + k \in 2..(L + 1) /\ 1 + k + 1 = k + 2
    OBVIOUS
  <2> QED
    BY <1>5, <2>1
<1>7. Widened(r, s, 0, 2)
  BY <1>4, <1>5, <1>6 DEF Widened
<1> QED
  BY <1>1, <1>3, <1>5, <1>7

-----------------------------------------------------------------------------
(* Positions of instructions.                                              *)

LEMMA Items ==
    ASSUME NEW x \in Item
    PROVE  /\ x.op \in Ops \cup {"count", "write"}
           /\ x.op = "count" => x.n \in Nat /\ x.core \in Nat /\ x = Count(x.n, x.core)
           /\ x.op = "getcpu" => x.n \in Nat /\ x = Read(x.n)
           /\ x.op \in Ops \ {"getcpu"} => x = Instr(x.op)
           /\ x.op = "write" => x = Write
<1>1. CASE \E op \in Ops : x = Instr(op)
  BY <1>1 DEF Instr, Read, Ops
<1>2. CASE x = Write
  BY <1>2 DEF Write, Ops
<1>3. CASE \E n \in Nat : x = Read(n)
  BY <1>3 DEF Read, Ops
<1>4. CASE \E n, r \in Nat : x = Count(n, r)
  BY <1>4 DEF Count, Ops
<1> QED
  BY <1>1, <1>2, <1>3, <1>4 DEF Item

LEMMA Amount ==
    ASSUME NEW s \in Seq(Item), NEW op
    PROVE  /\ IsFiniteSet(Positions(s, op)) /\ Cardinality(Positions(s, op)) \in Nat
           /\ \A p : IsFiniteSet(Behind(s, op, p)) /\ Cardinality(Behind(s, op, p)) \in Nat
           /\ Behind(s, op, 0) = Positions(s, op)
           /\ Cardinality(Behind(s, op, Len(s))) = 0
<1>1. Len(s) \in Nat /\ DOMAIN s = 1..Len(s)
  OBVIOUS
<1>2. IsFiniteSet(1..Len(s))
  BY <1>1, FS_Interval
<1>3. Positions(s, op) \in SUBSET (1..Len(s)) /\ \A p : Behind(s, op, p) \in SUBSET (1..Len(s))
  BY <1>1 DEF Positions, Behind
<1>4. IsFiniteSet(Positions(s, op)) /\ \A p : IsFiniteSet(Behind(s, op, p))
  BY <1>2, <1>3, FS_Subset
<1>5. Behind(s, op, 0) = Positions(s, op) /\ Behind(s, op, Len(s)) = {}
  BY <1>1 DEF Behind, Positions
<1> QED
  BY <1>4, <1>5, FS_CardinalityType, FS_EmptySet

LEMMA NextPosition ==
    ASSUME NEW s \in Seq(Item), NEW op, NEW p \in 1..Len(s)
    PROVE  Cardinality(Behind(s, op, p - 1))
              = Cardinality(Behind(s, op, p)) + (IF s[p].op = op THEN 1 ELSE 0)
<1>1. Len(s) \in Nat /\ DOMAIN s = 1..Len(s)
  OBVIOUS
<1>2. CASE s[p].op = op
  <2>1. Behind(s, op, p - 1) = Behind(s, op, p) \cup {p}
    BY <1>1, <1>2 DEF Behind, Positions
  <2>2. p \notin Behind(s, op, p)
    BY DEF Behind
  <2> QED
    BY <1>2, <2>1, <2>2, Amount, FS_AddElement, ZenonT(40)
<1>3. CASE s[p].op # op
  <2>1. Behind(s, op, p - 1) = Behind(s, op, p)
    BY <1>1, <1>3 DEF Behind, Positions
  <2>2. Cardinality(Behind(s, op, p)) \in Nat
    BY Amount
  <2> QED
    BY <1>3, <2>1, <2>2
<1> QED
  BY <1>2, <1>3

\* Where an instruction of the wider sequence was before.
LEMMA Wide ==
    ASSUME NEW s \in Seq(Item), NEW r \in Seq(Item), NEW p, NEW w, Widened(r, s, p, w)
    PROVE  /\ Len(s) \in Nat /\ p \in 0..Len(s) /\ w \in {1, 2}
           /\ DOMAIN s = 1..Len(s) /\ DOMAIN r = 1..(Len(s) + w)
           /\ \A k \in DOMAIN s : /\ k <= p => k \in DOMAIN r /\ r[k] = s[k]
                                  /\ k > p => k + w \in DOMAIN r /\ r[k + w] = s[k]
           /\ \A k \in DOMAIN r :
                 /\ k <= p => k \in DOMAIN s /\ r[k] = s[k]
                 /\ k > p + w => k - w \in DOMAIN s /\ k - w > p /\ r[k] = s[k - w]
                 /\ k > p /\ k <= p + w => (k = p + w \/ (w = 2 /\ k = p + 1))
<1>1. PICK L \in Nat : L = Len(s)
  OBVIOUS
<1>2. /\ w \in {1, 2} /\ p \in 0..L /\ DOMAIN s = 1..L /\ DOMAIN r = 1..(L + w)
      /\ \A k \in 1..p : r[k] = s[k]
      /\ \A k \in (p + 1)..L : r[k + w] = s[k]
  BY <1>1 DEF Widened
<1>3. ASSUME NEW k \in DOMAIN s
      PROVE  /\ k <= p => k \in DOMAIN r /\ r[k] = s[k]
             /\ k > p => k + w \in DOMAIN r /\ r[k + w] = s[k]
  BY <1>2
<1>4. ASSUME NEW k \in DOMAIN r
      PROVE  /\ k <= p => k \in DOMAIN s /\ r[k] = s[k]
             /\ k > p + w => k - w \in DOMAIN s /\ k - w > p /\ r[k] = s[k - w]
             /\ k > p /\ k <= p + w => (k = p + w \/ (w = 2 /\ k = p + 1))
  <2>1. k <= p => k \in DOMAIN s /\ r[k] = s[k]
    BY <1>2
  <2>2. ASSUME k > p + w PROVE k - w \in DOMAIN s /\ k - w > p /\ r[k] = s[k - w]
    <3>1. k - w \in (p + 1)..L /\ k - w + w = k
      BY <1>2, <2>2
    <3> QED
      BY <1>2, <3>1
  <2>3. k > p /\ k <= p + w => (k = p + w \/ (w = 2 /\ k = p + 1))
    BY <1>2
  <2> QED
    BY <2>1, <2>2, <2>3
<1> QED
  BY <1>1, <1>2, <1>3, <1>4

LEMMA SamePositions ==
    ASSUME NEW s \in Seq(Item), NEW r \in Seq(Item), NEW p, NEW w, Widened(r, s, p, w),
           NEW op, NEW low \in {0, p}
    PROVE  /\ IsFiniteSet(Kept(r, op, p, w, low))
           /\ Cardinality(Kept(r, op, p, w, low)) = Cardinality(Behind(s, op, low))
<1> DEFINE A == Behind(s, op, low)
           T == Kept(r, op, p, w, low)
           f == [k \in A |-> IF k <= p THEN k ELSE k + w]
<1>1. /\ Len(s) \in Nat /\ p \in 0..Len(s) /\ w \in {1, 2}
      /\ DOMAIN s = 1..Len(s) /\ DOMAIN r = 1..(Len(s) + w)
      /\ \A k \in DOMAIN s : /\ k <= p => k \in DOMAIN r /\ r[k] = s[k]
                             /\ k > p => k + w \in DOMAIN r /\ r[k + w] = s[k]
      /\ \A k \in DOMAIN r :
            /\ k <= p => k \in DOMAIN s /\ r[k] = s[k]
            /\ k > p + w => k - w \in DOMAIN s /\ k - w > p /\ r[k] = s[k - w]
  BY Wide
<1>2. A \subseteq Nat /\ \A k \in A : k \in DOMAIN s /\ s[k].op = op /\ k > low
  BY <1>1 DEF Behind, Positions
<1>3. \A k \in A : f[k] \in T
  BY <1>1, <1>2 DEF Positions, Kept
<1>4. \A k, l \in A : f[k] = f[l] => k = l
  BY <1>1, <1>2
<1>5. ASSUME NEW k \in T PROVE \E l \in A : f[l] = k
  <2>1. CASE k <= p
    BY <1>1, <2>1 DEF Behind, Positions, Kept
  <2>2. CASE k > p + w
    <3>1. k - w \in A
      BY <1>1, <2>2 DEF Behind, Positions, Kept
    <3>2. k - w > p /\ k - w + w = k /\ ~(k - w <= p)
      BY <1>1, <2>2 DEF Positions, Kept
    <3>3. f[k - w] = k
      BY <3>1, <3>2, Zenon
    <3> QED
      BY <3>1, <3>3
  <2>3. k <= p \/ k > p + w
    BY DEF Kept
  <2> QED
    BY <2>1, <2>2, <2>3
<1>6. f \in Bijection(A, T)
  <2> HIDE DEF A, T
  <2>1. f \in [A -> T]
    BY <1>3
  <2> HIDE DEF f
  <2> QED
    BY <1>4, <1>5, <2>1 DEF Bijection, Injection, Surjection, IsInjective
<1>7. ExistsBijection(A, T)
  BY <1>6 DEF ExistsBijection
<1> QED
  BY <1>7, Amount, FS_Bijection

\* What an insertion does to the numbers of forks and of counters.
LEMMA Amounts ==
    ASSUME NEW s \in Seq(Item), NEW r \in Seq(Item), NEW p, NEW w, Widened(r, s, p, w),
           r[p + w].op = "count", w = 2 => r[p + 1].op = "getcpu"
    PROVE  /\ Cardinality(Positions(r, "fork")) = Cardinality(Positions(s, "fork"))
           /\ Cardinality(Behind(r, "fork", p + w)) = Cardinality(Behind(s, "fork", p))
           /\ Cardinality(Positions(r, "count")) = Cardinality(Positions(s, "count")) + 1
<1>1. /\ p \in Nat /\ w \in {1, 2} /\ DOMAIN r = 1..(Len(s) + w) /\ Len(s) \in Nat /\ p \in 0..Len(s)
      /\ \A k \in DOMAIN r : k > p /\ k <= p + w => (k = p + w \/ (w = 2 /\ k = p + 1))
  BY Wide
<1>2. Positions(r, "fork") = Kept(r, "fork", p, w, 0)
  BY <1>1 DEF Positions, Kept
<1>3. Behind(r, "fork", p + w) = Kept(r, "fork", p, w, p)
  BY <1>1 DEF Positions, Behind, Kept
<1> DEFINE T == Kept(r, "count", p, w, 0)
<1>4. Positions(r, "count") = T \cup {p + w} /\ p + w \notin T
  BY <1>1 DEF Positions, Kept
<1>5. IsFiniteSet(T) /\ Cardinality(T) = Cardinality(Positions(s, "count"))
  BY SamePositions, Amount
<1>6. Cardinality(Positions(r, "fork")) = Cardinality(Positions(s, "fork"))
  BY <1>2, SamePositions, Amount
<1>7. Cardinality(Behind(r, "fork", p + w)) = Cardinality(Behind(s, "fork", p))
  BY <1>3, SamePositions
<1>8. Cardinality(Positions(r, "count")) = Cardinality(Positions(s, "count")) + 1
  BY <1>4, <1>5, FS_AddElement
<1> QED
  BY <1>6, <1>7, <1>8

-----------------------------------------------------------------------------
(* A block is widened by a counter, and perhaps a reading of the core      *)
(* number before it.                                                       *)

LEMMA Origin ==
    ASSUME NEW C, \A b \in DOMAIN C : C[b] \in Seq(Item), NEW a \in DOMAIN C,
           NEW r \in Seq(Item), NEW p, NEW w, Widened(r, C[a], p, w),
           NEW D, D = [C EXCEPT ![a] = r]
    PROVE  /\ DOMAIN D = DOMAIN C /\ D[a] = r /\ p \in Nat /\ w \in {1, 2}
           /\ \A b \in DOMAIN C : b # a => D[b] = C[b]
           /\ \A b \in DOMAIN C : DOMAIN C[b] \subseteq Nat /\ DOMAIN D[b] \subseteq Nat
           /\ p + w \in DOMAIN r /\ p + 1 \in DOMAIN r
           /\ \A k \in DOMAIN C[a] : \E l \in DOMAIN r :
                 r[l] = C[a][k] /\ ((k <= p /\ l = k) \/ (k > p /\ l = k + w))
           /\ \A l \in DOMAIN r :
                 \/ l = p + w \/ (w = 2 /\ l = p + 1)
                 \/ \E k \in DOMAIN C[a] :
                       r[l] = C[a][k] /\ ((k <= p /\ l = k) \/ (k > p /\ l = k + w))
<1> DEFINE s == C[a]
<1>1. s \in Seq(Item) /\ Widened(r, s, p, w)
  OBVIOUS
<1>2. DOMAIN D = DOMAIN C /\ D[a] = r /\ \A b \in DOMAIN C : b # a => D[b] = C[b]
  OBVIOUS
<1>3. \A b \in DOMAIN C : DOMAIN C[b] \subseteq Nat /\ DOMAIN D[b] \subseteq Nat
  <2>1. \A b \in DOMAIN C : C[b] \in Seq(Item) /\ D[b] \in Seq(Item)
    BY <1>2
  <2>2. ASSUME NEW t \in Seq(Item) PROVE DOMAIN t \subseteq Nat
    OBVIOUS
  <2> QED
    BY <2>1, <2>2
<1> HIDE DEF s
<1>4. /\ Len(s) \in Nat /\ p \in 0..Len(s) /\ w \in {1, 2}
      /\ DOMAIN s = 1..Len(s) /\ DOMAIN r = 1..(Len(s) + w)
      /\ \A k \in DOMAIN s : /\ k <= p => k \in DOMAIN r /\ r[k] = s[k]
                             /\ k > p => k + w \in DOMAIN r /\ r[k + w] = s[k]
      /\ \A k \in DOMAIN r :
            /\ k <= p => k \in DOMAIN s /\ r[k] = s[k]
            /\ k > p + w => k - w \in DOMAIN s /\ k - w > p /\ r[k] = s[k - w]
            /\ k > p /\ k <= p + w => (k = p + w \/ (w = 2 /\ k = p + 1))
  BY <1>1, Wide
<1>5. p + w \in DOMAIN r /\ p + 1 \in DOMAIN r /\ p \in Nat
  BY <1>4
<1>6. ASSUME NEW k \in DOMAIN s
      PROVE  \E l \in DOMAIN r : r[l] = s[k] /\ ((k <= p /\ l = k) \/ (k > p /\ l = k + w))
  <2>1. CASE k <= p
    BY <1>4, <2>1
  <2>2. CASE k > p
    BY <1>4, <2>2
  <2> QED
    BY <1>4, <2>1, <2>2
<1>7. ASSUME NEW l \in DOMAIN r
      PROVE  \/ l = p + w \/ (w = 2 /\ l = p + 1)
             \/ \E k \in DOMAIN s : r[l] = s[k] /\ ((k <= p /\ l = k) \/ (k > p /\ l = k + w))
  <2>1. CASE l <= p
    BY <1>4, <2>1
  <2>2. CASE l > p + w
    <3>1. l - w \in DOMAIN s /\ l - w > p /\ r[l] = s[l - w] /\ l - w + w = l
      BY <1>4, <2>2
    <3> QED
      BY <3>1
  <2>3. CASE l > p /\ l <= p + w
    BY <1>4, <2>3
  <2> QED
    BY <1>4, <2>1, <2>2, <2>3
<1> QED
  BY <1>2, <1>3, <1>4, <1>5, <1>6, <1>7 DEF s

LEMMA PlacingNumbers ==
    ASSUME NEW C, \A b \in DOMAIN C : C[b] \in Seq(Item), NEW a \in DOMAIN C,
           NEW r \in Seq(Item), NEW p, NEW w, Widened(r, C[a], p, w),
           NEW D, D = [C EXCEPT ![a] = r],
           NEW n \in Nat, NEW rd \in Nat, NEW cr, r[p + w] = Count(n, cr),
           w = 2 => r[p + 1] = Read(cr) /\ cr = rd + 1, w = 1 => cr \in 1..rd,
           Bound(C, n, rd), Numbered(C, n), ReadOnce(C)
    PROVE  Bound(D, n + 1, rd + w - 1) /\ Numbered(D, n + 1) /\ ReadOnce(D)
<1> DEFINE Old(k, l) == r[l] = C[a][k] /\ ((k <= p /\ l = k) \/ (k > p /\ l = k + w))
<1>1. /\ DOMAIN D = DOMAIN C /\ D[a] = r /\ p \in Nat /\ w \in {1, 2}
      /\ \A b \in DOMAIN C : b # a => D[b] = C[b]
      /\ \A b \in DOMAIN C : DOMAIN C[b] \subseteq Nat /\ DOMAIN D[b] \subseteq Nat
      /\ p + w \in DOMAIN r /\ p + 1 \in DOMAIN r
      /\ \A k \in DOMAIN C[a] : \E l \in DOMAIN r : Old(k, l)
      /\ \A l \in DOMAIN r :
            l = p + w \/ (w = 2 /\ l = p + 1) \/ \E k \in DOMAIN C[a] : Old(k, l)
  BY Origin
<1>2. /\ r[p + w].op = "count" /\ r[p + w].n = n /\ r[p + w].core = cr
      /\ w = 2 => r[p + 1].op = "getcpu" /\ r[p + 1].n = rd + 1
  BY DEF Count, Read
<1>3. rd + w - 1 \in Nat /\ cr \in 1..(rd + w - 1) /\ rd <= rd + w - 1
  BY <1>1
<1>4. \A b \in DOMAIN C : \A k \in DOMAIN C[b] : C[b][k] \in Item
  <2>1. ASSUME NEW t \in Seq(Item) PROVE \A k \in DOMAIN t : t[k] \in Item
    OBVIOUS
  <2> QED
    BY <2>1
<1>5. Bound(D, n + 1, rd + w - 1)
  <2> DEFINE Fits(x, m, q) == /\ x.op = "count"  => x.n < m /\ x.core \in 1..q
                              /\ x.op = "getcpu" => x.n <= q
  <2>1. ASSUME NEW x \in Item, Fits(x, n, rd) PROVE Fits(x, n + 1, rd + w - 1)
    BY <1>3, <2>1, Items
  <2>2. \A b \in DOMAIN C : \A k \in DOMAIN C[b] : Fits(C[b][k], n, rd)
    BY DEF Bound
  <2>3. Fits(r[p + w], n + 1, rd + w - 1) /\ (w = 2 => Fits(r[p + 1], n + 1, rd + w - 1))
    BY <1>2, <1>3
  <2> HIDE DEF Fits
  <2>4. \A b \in DOMAIN C : \A k \in DOMAIN C[b] : Fits(C[b][k], n + 1, rd + w - 1)
    BY <1>4, <2>1, <2>2
  <2>5. \A b \in DOMAIN D : \A k \in DOMAIN D[b] : Fits(D[b][k], n + 1, rd + w - 1)
    <3> SUFFICES ASSUME NEW b \in DOMAIN C, NEW k \in DOMAIN D[b] PROVE Fits(D[b][k], n + 1, rd + w - 1)
      BY <1>1
    <3>1. CASE b # a
      BY <1>1, <2>4, <3>1, Zenon
    <3>2. CASE b = a /\ (k = p + w \/ (w = 2 /\ k = p + 1))
      BY <1>1, <2>3, <3>2, Zenon
    <3>3. CASE b = a /\ \E l \in DOMAIN C[a] : Old(l, k)
      BY <1>1, <2>4, <3>3, Zenon
    <3> QED
      BY <1>1, <3>1, <3>2, <3>3, Zenon
  <2> QED
    BY <2>5, Zenon DEF Bound, Fits
<1>6. \A b \in DOMAIN C : \A k \in DOMAIN C[b] :
         /\ C[b][k].op = "count" => C[b][k].n # n
         /\ C[b][k].op = "getcpu" => C[b][k].n # rd + 1
  BY <1>4, Items DEF Bound
<1> DEFINE Alike(x, y) == \/ x.op = "count" /\ y.op = "count" /\ x.n = y.n
                          \/ x.op = "getcpu" /\ y.op = "getcpu" /\ x.n = y.n /\ x.n > 0
<1>7. ASSUME NEW b \in DOMAIN C, NEW d \in DOMAIN C, NEW k \in DOMAIN D[b], NEW l \in DOMAIN D[d],
             Alike(D[b][k], D[d][l])
      PROVE  b = d /\ k = l
  <2>1. \A e, g \in DOMAIN C : \A x \in DOMAIN C[e] : \A y \in DOMAIN C[g] :
           Alike(C[e][x], C[g][y]) => e = g /\ x = y
    BY DEF Numbered, ReadOnce
  <2>2. \A e \in DOMAIN C : \A x \in DOMAIN C[e] :
           /\ ~Alike(C[e][x], r[p + w]) /\ ~Alike(r[p + w], C[e][x])
           /\ w = 2 => ~Alike(C[e][x], r[p + 1]) /\ ~Alike(r[p + 1], C[e][x])
    BY <1>2, <1>6
  <2>3. w = 2 => ~Alike(r[p + 1], r[p + w]) /\ ~Alike(r[p + w], r[p + 1])
    BY <1>2
  <2> HIDE DEF Alike
  <2> DEFINE New(e, x) == e = a /\ (x = p + w \/ (w = 2 /\ x = p + 1))
  <2>4. \A e \in DOMAIN C : \A x \in DOMAIN D[e] : New(e, x) \/ \E y \in DOMAIN C[e] : D[e][x] = C[e][y]
    BY <1>1
  <2>5. CASE New(b, k) /\ New(d, l)
    BY <1>1, <1>7, <2>3, <2>5
  <2>6. ~(New(b, k) /\ ~New(d, l)) /\ ~(~New(b, k) /\ New(d, l))
    BY <1>1, <1>7, <2>2, <2>4, SMTT(20)
  <2>7. CASE ~New(b, k) /\ ~New(d, l)
    <3>1. PICK x \in DOMAIN C[b] : D[b][k] = C[b][x] /\ (b = a => Old(x, k)) /\ (b # a => x = k)
      BY <1>1, <2>7
    <3>2. PICK y \in DOMAIN C[d] : D[d][l] = C[d][y] /\ (d = a => Old(y, l)) /\ (d # a => y = l)
      BY <1>1, <2>7
    <3>3. b = d /\ x = y
      BY <1>7, <2>1, <3>1, <3>2
    <3> QED
      BY <1>1, <3>1, <3>2, <3>3
  <2> QED
    BY <2>5, <2>6, <2>7
<1>8. ASSUME NEW m \in 0..n
      PROVE  \E b \in DOMAIN D : \E k \in DOMAIN D[b] : D[b][k].op = "count" /\ D[b][k].n = m
  <2>1. CASE m = n
    BY <1>1, <1>2, <2>1
  <2>2. CASE m # n
    <3>1. m \in 0..(n - 1)
      BY <2>2
    <3>5. \E b \in DOMAIN C : \E k \in DOMAIN C[b] : C[b][k].op = "count" /\ C[b][k].n = m
      BY <3>1, Zenon DEF Numbered
    <3>6. PICK b \in DOMAIN C : \E k \in DOMAIN C[b] : C[b][k].op = "count" /\ C[b][k].n = m
      BY <3>5, Zenon
    <3>2. PICK k \in DOMAIN C[b] : C[b][k].op = "count" /\ C[b][k].n = m
      BY <3>6, Zenon
    <3>3. \E l \in DOMAIN D[b] : D[b][l] = C[b][k]
      BY <1>1, <3>2
    <3> QED
      BY <1>1, <3>2, <3>3
  <2> QED
    BY <2>1, <2>2
<1> HIDE DEF Alike
<1>9. Numbered(D, n + 1) /\ ReadOnce(D)
  <2>1. (n + 1) - 1 = n
    OBVIOUS
  <2>2. \A m \in 0..((n + 1) - 1) :
           \E b \in DOMAIN D : \E k \in DOMAIN D[b] : D[b][k].op = "count" /\ D[b][k].n = m
    BY <1>8, <2>1, Zenon
  <2>3. \A b, d \in DOMAIN D : \A k \in DOMAIN D[b] : \A l \in DOMAIN D[d] :
           Alike(D[b][k], D[d][l]) => b = d /\ k = l
    BY <1>1, <1>7, Zenon
  <2>4. \A b, d \in DOMAIN D : \A k \in DOMAIN D[b] : \A l \in DOMAIN D[d] :
           D[b][k].op = "count" /\ D[d][l].op = "count" /\ D[b][k].n = D[d][l].n => b = d /\ k = l
    BY <2>3 DEF Alike
  <2>5. ReadOnce(D)
    BY <2>3 DEF ReadOnce, Alike
  <2>6. Numbered(D, n + 1)
    BY <2>2, <2>4, Zenon DEF Numbered
  <2> QED
    BY <2>5, <2>6
<1> QED
  BY <1>5, <1>9

-----------------------------------------------------------------------------
(* What WellFormed says of a module.                                       *)

\* A set of natural numbers has a least element.
LEMMA Least ==
    ASSUME NEW S \in SUBSET Nat, S # {}
    PROVE  \E x \in S : \A y \in S : x <= y
<1>1. PICK x \in S : \A y \in S : ~(<<y, x>> \in OpToRel(<, Nat))
  BY NatLessThanWellFounded, WFMin
<1>2. \A y \in S : ~(y < x)
  BY <1>1 DEF OpToRel
<1> QED
  BY <1>2

LEMMA PhisFirst ==
    ASSUME NEW c \in Seq(Item), \A k \in 2..Len(c) : c[k].op = "phi" => c[k - 1].op = "phi"
    PROVE  \A k \in DOMAIN c : c[k].op = "phi" => \A l \in 1..k : c[l].op = "phi"
<1> SUFFICES ASSUME NEW k \in DOMAIN c, c[k].op = "phi", NEW l \in 1..k, c[l].op # "phi" PROVE FALSE
  OBVIOUS
<1>1. k \in Nat /\ k <= Len(c) /\ l \in Nat /\ l >= 1 /\ Len(c) \in Nat
  OBVIOUS
<1> DEFINE S == {x \in Nat : l <= x /\ x <= k /\ c[x].op = "phi"}
<1>2. S \in SUBSET Nat /\ k \in S
  BY <1>1
<1>3. PICK x \in S : \A y \in S : x <= y
  BY <1>2, Least
<1>4. x - 1 \in S
  BY <1>1, <1>3
<1> QED
  BY <1>1, <1>3, <1>4

LEMMA Shape ==
    ASSUME NEW m \in Modules
    PROVE  /\ Len(m.blocks) \in Nat /\ DOMAIN m.blocks = 1..Len(m.blocks)
           /\ \A b \in DOMAIN m.blocks :
                 /\ Body(m.blocks[b].code)
                 /\ \A k \in DOMAIN m.blocks[b].code :
                       /\ m.blocks[b].code[k].op \in Ops /\ m.blocks[b].code[k].n = 0
                       /\ m.blocks[b].code[k].op = "phi" =>
                             \A l \in 1..k : m.blocks[b].code[l].op = "phi"
                       /\ IsEntry(m, b) => m.blocks[b].code[k].op # "phi"
                 /\ b + 1 \in DOMAIN m.blocks /\ ~IsEntry(m, b + 1) =>
                       m.blocks[b].fn = m.blocks[b + 1].fn
<1> DEFINE I == {Instr(op) : op \in Ops}
           B == [fn : DOMAIN m.kind, succ : SUBSET DOMAIN m.blocks, code : Seq(I)]
<1>1. WellFormed(m)
  BY ModulesAssumption
<1>2. m.blocks \in Seq(B)
  BY <1>1 DEF WellFormed
<1>3. /\ Len(m.blocks) \in Nat /\ DOMAIN m.blocks = 1..Len(m.blocks)
      /\ \A b \in DOMAIN m.blocks : m.blocks[b] \in B
  <2> HIDE DEF B
  <2> QED
    BY <1>2, Element
<1>4. ASSUME NEW b \in DOMAIN m.blocks
      PROVE  /\ Body(m.blocks[b].code)
             /\ \A k \in DOMAIN m.blocks[b].code :
                   /\ m.blocks[b].code[k].op \in Ops /\ m.blocks[b].code[k].n = 0
                   /\ m.blocks[b].code[k].op = "phi" =>
                         \A l \in 1..k : m.blocks[b].code[l].op = "phi"
                   /\ IsEntry(m, b) => m.blocks[b].code[k].op # "phi"
  <2> DEFINE c == m.blocks[b].code
  <2>1. c \in Seq(I)
    BY <1>3
  <2>2. /\ c # <<>> /\ c[Len(c)].op \in {"br", "ret"}
        /\ \A k \in 2..Len(c) : c[k].op = "phi" => c[k - 1].op = "phi"
        /\ IsEntry(m, b) => c[1].op # "phi"
    BY <1>1 DEF WellFormed
  <2> HIDE DEF c
  <2>3. /\ Len(c) \in Nat \ {0} /\ DOMAIN c = 1..Len(c)
        /\ \A k \in DOMAIN c : c[k] \in I
    <3> HIDE DEF I
    <3>1. Len(c) \in Nat /\ DOMAIN c = 1..Len(c) /\ \A k \in DOMAIN c : c[k] \in I
      BY <2>1, Element
    <3>2. Len(c) # 0
      BY <2>1, <2>2
    <3> QED
      BY <3>1, <3>2
  <2>4. \A k \in DOMAIN c : c[k] \in Item /\ c[k].op \in Ops /\ c[k].n = 0
    BY <2>3 DEF Item, Instr
  <2>5. c \in Seq(Item)
    <3>1. c \in [1..Len(c) -> Item]
      BY <2>1, <2>3, <2>4
    <3> QED
      BY <2>3, <3>1
  <2>6. \A k \in DOMAIN c : c[k].op = "phi" => \A l \in 1..k : c[l].op = "phi"
    BY <2>2, <2>5, PhisFirst
  <2>7. ASSUME IsEntry(m, b), NEW k \in DOMAIN c PROVE c[k].op # "phi"
    <3>1. 1 \in 1..k
      BY <2>3
    <3> QED
      BY <2>2, <2>6, <2>7, <3>1
  <2> QED
    BY <2>2, <2>4, <2>5, <2>6, <2>7 DEF Body, c
<1>5. ASSUME NEW b \in DOMAIN m.blocks, b + 1 \in DOMAIN m.blocks, ~IsEntry(m, b + 1)
      PROVE  m.blocks[b].fn = m.blocks[b + 1].fn
  <2>1. b \in Nat /\ b + 1 - 1 = b
    BY <1>3
  <2>2. PICK a \in 1..b : m.blocks[a].fn = m.blocks[b + 1].fn
    BY <1>5, <2>1 DEF IsEntry
  <2>3. CASE a = b
    BY <2>2, <2>3
  <2>4. CASE a # b
    <3>1. a \in DOMAIN m.blocks /\ a < b /\ b < b + 1
      BY <1>3, <2>1, <2>4
    <3> QED
      BY <1>1, <1>5, <2>2, <3>1 DEF WellFormed
  <2> QED
    BY <2>3, <2>4
<1> QED
  BY <1>3, <1>4, <1>5

LEMMA CounterPlace ==
    ASSUME NEW c, Body(c), \A k \in DOMAIN c : c[k].op = "phi" => \A l \in 1..k : c[l].op = "phi"
    PROVE  /\ CounterPos(c) \in 1..Len(c)
           /\ \A l \in 1..(CounterPos(c) - 1) : c[l].op \in {"phi", "getcpu"}
           /\ \A l \in DOMAIN c : c[l].op = "phi" => l < CounterPos(c)
<1>1. Len(c) \in Nat \ {0} /\ DOMAIN c = 1..Len(c) /\ c[Len(c)].op \in {"br", "ret"}
  BY DEF Body
<1>2. CASE c[1].op = "getcpu"
  <2>1. CounterPos(c) = 2
    BY <1>2 DEF CounterPos
  <2>2. Len(c) # 1
    BY <1>1, <1>2
  <2>3. \A l \in DOMAIN c : c[l].op # "phi"
    BY <1>1, <1>2
  <2> QED
    BY <1>1, <1>2, <2>1, <2>2, <2>3
<1>3. CASE c[1].op \in Calls \ {"getcpu"}
  <2>1. CounterPos(c) = 1
    BY <1>3 DEF CounterPos
  <2>2. \A l \in DOMAIN c : c[l].op # "phi"
    BY <1>1, <1>3 DEF Calls
  <2> QED
    BY <1>1, <2>1, <2>2
<1>4. CASE c[1].op \notin Calls
  <2> DEFINE S == {k \in 1..Len(c) : c[k].op # "phi"}
  <2>1. S \in SUBSET Nat /\ Len(c) \in S
    BY <1>1
  <2>2. PICK k \in S : \A l \in S : k <= l
    BY <2>1, Least
  <2>3. k \in DOMAIN c /\ c[k].op # "phi" /\ \A l \in 1..(k - 1) : c[l].op = "phi"
    BY <1>1, <2>2
  <2>4. CounterPos(c) = CHOOSE x \in DOMAIN c : c[x].op # "phi" /\ \A l \in 1..(x - 1) : c[l].op = "phi"
    BY <1>4, Zenon DEF CounterPos, Calls
  <2>5. /\ CounterPos(c) \in DOMAIN c /\ c[CounterPos(c)].op # "phi"
        /\ \A l \in 1..(CounterPos(c) - 1) : c[l].op = "phi"
    BY <2>3, <2>4, Zenon
  <2>6. ASSUME NEW l \in DOMAIN c, c[l].op = "phi" PROVE l < CounterPos(c)
    BY <1>1, <2>5, <2>6
  <2> QED
    BY <1>1, <2>5, <2>6
<1> QED
  BY <1>2, <1>3, <1>4

-----------------------------------------------------------------------------
(* The places of blocks.                                                   *)

LEMMA PlacesOfBlock ==
    ASSUME NEW m \in Modules, NEW b \in DOMAIN m.blocks
    PROVE  /\ IsFiniteSet(PlacesOf(m, b))
           /\ Cardinality(PlacesOf(m, b)) = Cardinality(Positions(m.blocks[b].code, "fork")) + 1
           /\ Cardinality(Positions(m.blocks[b].code, "fork")) \in Nat
<1> DEFINE P == Positions(m.blocks[b].code, "fork")
           A == P \cup {0}
           f == [k \in A |-> <<b, k>>]
<1>1. m.blocks[b].code \in Seq(Item)
  BY Shape DEF Body
<1>2. IsFiniteSet(P) /\ Cardinality(P) \in Nat
  BY <1>1, Amount
<1>3. 0 \notin P
  BY <1>1 DEF Positions
<1>4. IsFiniteSet(A) /\ Cardinality(A) = Cardinality(P) + 1
  BY <1>2, <1>3, FS_AddElement
<1>5. PlacesOf(m, b) = {<<b, k>> : k \in A}
  BY DEF PlacesOf
<1> HIDE DEF A
<1>6. f \in Bijection(A, PlacesOf(m, b))
  <2>1. f \in [A -> PlacesOf(m, b)] /\ \A k \in A : f[k] = <<b, k>>
    BY <1>5
  <2> HIDE DEF f
  <2> QED
    BY <1>5, <2>1 DEF Bijection, Injection, Surjection, IsInjective
<1>7. ExistsBijection(A, PlacesOf(m, b))
  BY <1>6 DEF ExistsBijection
<1> QED
  BY <1>2, <1>4, <1>7, FS_Bijection

LEMMA FinitePlaces ==
    ASSUME NEW m \in Modules, NEW n \in 1..(Len(m.blocks) + 1)
    PROVE  IsFiniteSet(PlacesBefore(m, n)) /\ NumberOfPlaces(m, n) \in Nat
<1> DEFINE T == {b \in 1..(n - 1) : Instrumented(m, b)}
           U == {PlacesOf(m, b) : b \in T}
           f == [b \in T |-> PlacesOf(m, b)]
<1>1. Len(m.blocks) \in Nat /\ DOMAIN m.blocks = 1..Len(m.blocks)
  BY Shape
<1>2. T \in SUBSET (1..(n - 1)) /\ IsFiniteSet(1..(n - 1)) /\ T \subseteq DOMAIN m.blocks
  <2>1. n - 1 \in Int /\ n - 1 <= Len(m.blocks)
    BY <1>1
  <2>2. IsFiniteSet(1..(n - 1))
    BY <2>1, FS_Interval
  <2> QED
    BY <1>1, <2>1, <2>2
<1>3. IsFiniteSet(T)
  BY <1>2, FS_Subset
<1>4. f \in Surjection(T, U)
  <2> HIDE DEF T
  <2> QED
    BY DEF Surjection
<1>5. IsFiniteSet(U)
  BY <1>3, <1>4, FS_Surjection
<1>6. \A S \in U : IsFiniteSet(S)
  BY <1>2, PlacesOfBlock
<1>7. IsFiniteSet(UNION U)
  BY <1>5, <1>6, FS_UNION
<1>8. PlacesBefore(m, n) \in SUBSET (UNION U)
  BY DEF PlacesBefore
<1> QED
  BY <1>7, <1>8, FS_Subset, FS_CardinalityType DEF NumberOfPlaces

LEMMA Numbering ==
    ASSUME NEW m \in Modules
    PROVE  /\ NumberOfPlaces(m, 1) = 0
           /\ \A n \in DOMAIN m.blocks :
                 NumberOfPlaces(m, n + 1) = NumberOfPlaces(m, n)
                    + (IF Instrumented(m, n) THEN Cardinality(Positions(m.blocks[n].code, "fork")) + 1 ELSE 0)
<1>1. NumberOfPlaces(m, 1) = 0
  <2>1. PlacesBefore(m, 1) = {}
    BY DEF PlacesBefore
  <2> QED
    BY <2>1, FS_EmptySet DEF NumberOfPlaces
<1>2. ASSUME NEW n \in DOMAIN m.blocks
      PROVE  NumberOfPlaces(m, n + 1) = NumberOfPlaces(m, n)
                + (IF Instrumented(m, n) THEN Cardinality(Positions(m.blocks[n].code, "fork")) + 1 ELSE 0)
  <2>1. Len(m.blocks) \in Nat /\ DOMAIN m.blocks = 1..Len(m.blocks)
    BY Shape
  <2>2. n \in Nat \ {0} /\ (n + 1) - 1 = n /\ n \in 1..(Len(m.blocks) + 1)
    BY <2>1
  <2>3. IsFiniteSet(PlacesBefore(m, n)) /\ NumberOfPlaces(m, n) \in Nat
    BY <2>2, FinitePlaces
  <2>4. CASE Instrumented(m, n)
    <3>1. PlacesOf(m, n) \subseteq {n} \X Nat
      <4>1. m.blocks[n].code \in Seq(Item)
        BY Shape DEF Body
      <4>2. Positions(m.blocks[n].code, "fork") \subseteq Nat
        BY <4>1 DEF Positions
      <4> QED
        BY <4>2 DEF PlacesOf
    <3>2. PlacesBefore(m, n + 1) = PlacesBefore(m, n) \cup PlacesOf(m, n)
      <4>1. 1..((n + 1) - 1) = 1..(n - 1) \cup {n}
        BY <2>2
      <4>2. \A x \in PlacesOf(m, n) : x[1] = n /\ x \in (1..((n + 1) - 1)) \X Nat
        BY <3>1, <4>1
      <4>3. \A x \in (1..((n + 1) - 1)) \X Nat : x[1] = n \/ x \in (1..(n - 1)) \X Nat
        BY <4>1
      <4>4. (1..(n - 1)) \X Nat \subseteq (1..((n + 1) - 1)) \X Nat
        BY <4>1
      <4> QED
        BY <2>4, <4>2, <4>3, <4>4, Zenon DEF PlacesBefore
    <3>3. PlacesBefore(m, n) \cap PlacesOf(m, n) = {}
      BY <2>2, <3>1 DEF PlacesBefore
    <3> QED
      <4>1. /\ IsFiniteSet(PlacesOf(m, n))
            /\ Cardinality(PlacesOf(m, n)) = Cardinality(Positions(m.blocks[n].code, "fork")) + 1
            /\ Cardinality(Positions(m.blocks[n].code, "fork")) \in Nat
        BY PlacesOfBlock
      <4>2. Cardinality(PlacesBefore(m, n) \cup PlacesOf(m, n))
               = Cardinality(PlacesBefore(m, n)) + Cardinality(PlacesOf(m, n)) - 0
        <5>1. Cardinality(PlacesBefore(m, n) \cup PlacesOf(m, n))
                 = Cardinality(PlacesBefore(m, n)) + Cardinality(PlacesOf(m, n))
                      - Cardinality(PlacesBefore(m, n) \cap PlacesOf(m, n))
          BY <2>3, <4>1, FS_Union
        <5> QED
          BY <3>3, <5>1, FS_EmptySet, Zenon
      <4>3. NumberOfPlaces(m, n + 1) = NumberOfPlaces(m, n) + Cardinality(PlacesOf(m, n)) - 0
        BY <3>2, <4>2, Zenon DEF NumberOfPlaces
      <4> QED
        BY <2>3, <2>4, <4>1, <4>3
  <2>5. CASE ~Instrumented(m, n)
    <3>1. PlacesBefore(m, n + 1) = PlacesBefore(m, n)
      <4>1. 1..((n + 1) - 1) = 1..(n - 1) \cup {n}
        BY <2>2
      <4> QED
        BY <2>5, <4>1 DEF PlacesBefore
    <3> QED
      BY <2>3, <2>5, <3>1 DEF NumberOfPlaces
  <2> QED
    BY <2>4, <2>5
<1> QED
  BY <1>1, <1>2

-----------------------------------------------------------------------------
(* How far a block was scanned.                                            *)

LEMMA BodyWider ==
    ASSUME NEW s, Body(s), NEW r \in Seq(Item), NEW p, NEW w, Widened(r, s, p, w), p < Len(s)
    PROVE  Body(r)
<1>1. s \in Seq(Item) /\ s[Len(s)].op \in {"br", "ret"}
  BY DEF Body
<1>2. Len(s) \in Nat /\ p \in Nat /\ w \in {1, 2} /\ Len(r) = Len(s) + w
  BY <1>1 DEF Widened
<1>3. r[Len(s) + w] = s[Len(s)]
  BY <1>1, <1>2 DEF Widened
<1>4. r # <<>>
  BY <1>2
<1> QED
  BY <1>1, <1>2, <1>3, <1>4 DEF Body

\* A block is begun: its counter comes behind the p-th instruction.
LEMMA ScanBegins ==
    ASSUME NEW s \in Seq(Item), NEW r \in Seq(Item), NEW p, NEW w, Widened(r, s, p, w),
           r[p + w].op = "count", w = 2 => p = 0 /\ r[p + 1].op = "getcpu",
           \A k \in DOMAIN s : /\ s[k].op # "count"
                               /\ k <= p => s[k].op \in {"phi", "getcpu"}
                               /\ s[k].op = "phi" => \A l \in 1..k : s[l].op = "phi"
                               /\ s[k].op = "phi" => k <= p
    PROVE  Scanned(r, 1)
<1>1. /\ Len(s) \in Nat /\ p \in 0..Len(s) /\ w \in {1, 2}
      /\ DOMAIN s = 1..Len(s) /\ DOMAIN r = 1..(Len(s) + w)
      /\ \A k \in DOMAIN r :
            /\ k <= p => k \in DOMAIN s /\ r[k] = s[k]
            /\ k > p + w => k - w \in DOMAIN s /\ k - w > p /\ r[k] = s[k - w]
            /\ k > p /\ k <= p + w => (k = p + w \/ (w = 2 /\ k = p + 1))
  BY Wide
<1>2. PICK z \in DOMAIN r : /\ z = p + w /\ r[z].op = "count"
                           /\ \A l \in 1..(z - 1) : r[l].op \in {"phi", "getcpu"}
  <2>1. p + w \in DOMAIN r /\ \A l \in 1..((p + w) - 1) : r[l].op \in {"phi", "getcpu"}
    BY <1>1
  <2> DEFINE z == p + w
  <2>2. z \in DOMAIN r /\ r[z].op = "count" /\ \A l \in 1..(z - 1) : r[l].op \in {"phi", "getcpu"}
    BY <2>1, Zenon
  <2> HIDE DEF z
  <2> QED
    BY <2>2 DEF z
<1>3. ASSUME NEW k \in DOMAIN r, r[k].op = "count" PROVE k = z
  BY <1>1, <1>2, <1>3
<1>4. ASSUME NEW k \in DOMAIN r, r[k].op = "phi" PROVE \A l \in 1..k : r[l].op = "phi"
  <2>1. k <= p
    BY <1>1, <1>4
  <2> QED
    BY <1>1, <1>4, <2>1
<1>5. Cardinality(Positions(r, "count")) + Cardinality(Behind(r, "fork", 1 - 1))
         = Cardinality(Positions(r, "fork")) + 1
  <2>1. Positions(s, "count") = {}
    BY DEF Positions
  <2>2. Cardinality(Positions(s, "count")) = 0
    BY <2>1, FS_EmptySet
  <2>3. Cardinality(Positions(r, "count")) = 1
    BY <2>2, Amounts
  <2>4. Behind(r, "fork", 1 - 1) = Positions(r, "fork")
    BY Amount
  <2> QED
    BY <2>3, <2>4, Amount
<1>6. \A k \in DOMAIN r : ~(k < 1)
  BY <1>1
<1>7. \A k \in DOMAIN r : r[k].op = "count" => \A l \in 1..(k - 1) : r[l].op \in {"phi", "getcpu"}
  BY <1>2, <1>3, Zenon
<1>8. \E k \in DOMAIN r : r[k].op = "count" /\ \A l \in 1..(k - 1) : r[l].op \in {"phi", "getcpu"}
  BY <1>2, Zenon
<1> QED
  BY <1>4, <1>5, <1>6, <1>7, <1>8, Zenon DEF Scanned

\* Another instruction than a fork call is passed.
LEMMA ScanPasses ==
    ASSUME NEW s \in Seq(Item), NEW q \in DOMAIN s, Scanned(s, q), s[q].op # "fork"
    PROVE  Scanned(s, q + 1)
<1>1. Len(s) \in Nat /\ DOMAIN s = 1..Len(s) /\ q \in 1..Len(s) /\ (q + 1) - 1 = q
  OBVIOUS
<1>2. Cardinality(Behind(s, "fork", q - 1)) = Cardinality(Behind(s, "fork", q))
  BY <1>1, NextPosition, Amount
<1>3. \A k \in DOMAIN s : /\ k >= q + 1 => k >= q
                          /\ k < q + 1 /\ s[k].op = "fork" => k < q
                          /\ k + 2 < q => k + 2 < q + 1
  BY <1>1
<1>4. Cardinality(Positions(s, "count")) + Cardinality(Behind(s, "fork", (q + 1) - 1))
         = Cardinality(Positions(s, "fork")) + 1
  BY <1>1, <1>2 DEF Scanned
<1> QED
  BY <1>3, <1>4, Zenon DEF Scanned

\* Behind a fork call the core number is read and counted.
LEMMA ScanCounts ==
    ASSUME NEW s \in Seq(Item), NEW q \in DOMAIN s, Scanned(s, q), s[q].op = "fork",
           NEW r \in Seq(Item), Widened(r, s, q, 2),
           NEW n, NEW x, r[q + 1] = Read(x), r[q + 2] = Count(n, x)
    PROVE  Scanned(r, q + 3)
<1>1. /\ Len(s) \in Nat /\ q \in Nat
      /\ DOMAIN s = 1..Len(s) /\ DOMAIN r = 1..(Len(s) + 2)
      /\ \A k \in DOMAIN s : k <= q => r[k] = s[k]
      /\ \A k \in DOMAIN r :
            /\ k <= q => k \in DOMAIN s /\ r[k] = s[k]
            /\ k > q + 2 => k - 2 \in DOMAIN s /\ k - 2 > q /\ r[k] = s[k - 2]
  BY Wide
<1>2. /\ r[q + 1].op = "getcpu" /\ r[q + 1].n = x
      /\ r[q + 2].op = "count" /\ r[q + 2].core = x
  BY DEF Read, Count
<1>3. \A k \in DOMAIN s : s[k].op = "count" => k < q
  BY <1>1 DEF Scanned
<1>4. \E k \in DOMAIN r : r[k].op = "count" /\ \A l \in 1..(k - 1) : r[l].op \in {"phi", "getcpu"}
  <2>1. PICK k \in DOMAIN s : s[k].op = "count" /\ \A l \in 1..(k - 1) : s[l].op \in {"phi", "getcpu"}
    BY DEF Scanned
  <2>2. k < q
    BY <1>3, <2>1
  <2>3. k \in DOMAIN r /\ r[k] = s[k]
    BY <1>1, <2>2
  <2>4. \A l \in 1..(k - 1) : l \in DOMAIN s /\ l <= q
    BY <1>1, <2>2
  <2>5. \A l \in 1..(k - 1) : r[l] = s[l]
    BY <1>1, <2>4, Zenon
  <2> QED
    BY <2>1, <2>3, <2>5, Zenon
<1>5. ASSUME NEW k \in DOMAIN r, r[k].op = "count", k >= q + 3 PROVE FALSE
  BY <1>1, <1>3, <1>5
<1>6. ASSUME NEW k \in DOMAIN r, r[k].op = "phi" PROVE \A l \in 1..k : r[l].op = "phi"
  <2>1. \A j \in DOMAIN s : s[j].op = "phi" => j < q
    BY <1>1 DEF Scanned
  <2>2. k < q
    BY <1>1, <1>2, <1>6, <2>1
  <2>3. k \in DOMAIN s /\ r[k] = s[k] /\ \A l \in 1..k : r[l] = s[l]
    BY <1>1, <2>2, SMTT(20)
  <2>4. \A l \in 1..k : s[l].op = "phi"
    BY <1>6, <2>3, Zenon DEF Scanned
  <2> QED
    BY <2>3, <2>4, Zenon
<1>7. ASSUME NEW k \in DOMAIN r, k < q + 3, r[k].op = "fork"
      PROVE  /\ k + 2 < q + 3 /\ r[k + 1].op = "getcpu" /\ r[k + 2].op = "count"
             /\ r[k + 2].core = r[k + 1].n
  <2>1. k <= q
    BY <1>1, <1>2, <1>7
  <2>2. CASE k = q
    BY <1>1, <1>2, <2>2
  <2>3. CASE k < q
    <3>1. /\ k + 2 < q /\ s[k + 1].op = "getcpu" /\ s[k + 2].op = "count"
          /\ s[k + 2].core = s[k + 1].n
      BY <1>1, <1>7, <2>3, SMTT(20) DEF Scanned
    <3> QED
      BY <1>1, <3>1
  <2> QED
    BY <1>1, <2>1, <2>2, <2>3
<1>8. Cardinality(Positions(r, "count")) + Cardinality(Behind(r, "fork", (q + 3) - 1))
         = Cardinality(Positions(r, "fork")) + 1
  <2>1. /\ Cardinality(Positions(r, "fork")) = Cardinality(Positions(s, "fork"))
        /\ Cardinality(Behind(r, "fork", q + 2)) = Cardinality(Behind(s, "fork", q))
        /\ Cardinality(Positions(r, "count")) = Cardinality(Positions(s, "count")) + 1
    BY <1>2, Amounts
  <2>2. Cardinality(Behind(s, "fork", q - 1)) = Cardinality(Behind(s, "fork", q)) + 1
    BY <1>1, NextPosition
  <2>3. (q + 3) - 1 = q + 2
    BY <1>1
  <2>4. /\ Cardinality(Positions(s, "fork")) \in Nat /\ Cardinality(Positions(s, "count")) \in Nat
        /\ Cardinality(Behind(s, "fork", q)) \in Nat
    BY Amount
  <2>5. Cardinality(Positions(s, "count")) + Cardinality(Behind(s, "fork", q - 1))
           = Cardinality(Positions(s, "fork")) + 1
    BY DEF Scanned
  <2> QED
    BY <2>1, <2>2, <2>3, <2>4, <2>5
<1> QED
  BY <1>4, <1>5, <1>6, <1>7, <1>8, Zenon DEF Scanned

-----------------------------------------------------------------------------
(* Where a core number is read.                                            *)

\* What comes before the place of an insertion stays as it is.
LEMMA CoreKept ==
    ASSUME NEW C, \A b \in DOMAIN C : C[b] \in Seq(Item), DOMAIN C \subseteq Nat, NEW a \in DOMAIN C,
           NEW r \in Seq(Item), NEW p, NEW w, Widened(r, C[a], p, w),
           NEW D, D = [C EXCEPT ![a] = r],
           NEW m, NEW n, NEW b \in DOMAIN C, NEW k \in Nat, b < a \/ (b = a /\ k <= p),
           CoreAt(m, C, b, k, n)
    PROVE  CoreAt(m, D, b, k, n)
<1>1. /\ p \in Nat
      /\ \A l \in DOMAIN C[a] : l <= p => l \in DOMAIN r /\ r[l] = C[a][l]
      /\ \A l \in DOMAIN r : l <= p => l \in DOMAIN C[a] /\ r[l] = C[a][l]
  BY Wide
<1>2. /\ DOMAIN D = DOMAIN C /\ D[a] = r /\ \A e \in DOMAIN C : e # a => D[e] = C[e]
      /\ \A e \in DOMAIN C : DOMAIN C[e] \subseteq Nat /\ DOMAIN D[e] \subseteq Nat
  BY Origin
<1>3. PICK d \in DOMAIN C : \E l \in DOMAIN C[d] : ReadsCore(m, C, d, l, b, k, n)
  BY DEF CoreAt
<1>4. PICK l \in DOMAIN C[d] :
         /\ C[d][l].op = "getcpu" /\ C[d][l].n = n
         /\ m.blocks[d].fn = m.blocks[b].fn /\ Precedes(d, l, b, k)
         /\ \A e \in DOMAIN C : \A j \in DOMAIN C[e] :
               C[e][j].op = "fork" => ~(Precedes(d, l, e, j) /\ Precedes(e, j, b, k))
  BY <1>3 DEF ReadsCore
<1>5. ASSUME NEW e \in DOMAIN C, NEW j \in Nat, Precedes(e, j, b, k) PROVE e # a \/ j <= p
  BY <1>1, <1>5 DEF Precedes
<1>6. l \in DOMAIN D[d] /\ D[d][l] = C[d][l]
  <2>1. d # a \/ l <= p
    BY <1>2, <1>4, <1>5
  <2> QED
    BY <1>1, <1>2, <2>1
<1>7. ASSUME NEW e \in DOMAIN C, NEW j \in DOMAIN D[e], D[e][j].op = "fork"
      PROVE  ~(Precedes(d, l, e, j) /\ Precedes(e, j, b, k))
  <2>1. CASE e # a
    BY <1>2, <1>4, <1>7, <2>1
  <2>2. CASE e = a /\ j <= p
    BY <1>1, <1>2, <1>4, <1>7, <2>2
  <2>3. j \in Nat
    BY <1>2
  <2>4. CASE ~Precedes(e, j, b, k)
    BY <2>4
  <2> QED
    BY <1>5, <2>1, <2>2, <2>3, <2>4
<1>8. \A e \in DOMAIN D : \A j \in DOMAIN D[e] :
         D[e][j].op = "fork" => ~(Precedes(d, l, e, j) /\ Precedes(e, j, b, k))
  BY <1>2, <1>7, Zenon
<1>9. ReadsCore(m, D, d, l, b, k, n)
  BY <1>4, <1>6, <1>8, Zenon DEF ReadsCore
<1> QED
  BY <1>2, <1>6, <1>9, Zenon DEF CoreAt

\* No fork call is passed.
LEMMA CoreLater ==
    ASSUME NEW C, \A b \in DOMAIN C : C[b] \in Seq(Item), DOMAIN C \subseteq Nat,
           NEW m, NEW n, NEW b \in DOMAIN C, NEW k \in Nat, NEW q \in Nat, k <= q,
           \A j \in DOMAIN C[b] : k <= j /\ j < q => C[b][j].op # "fork",
           CoreAt(m, C, b, k, n)
    PROVE  CoreAt(m, C, b, q, n)
<1>1. PICK d \in DOMAIN C : \E l \in DOMAIN C[d] : ReadsCore(m, C, d, l, b, k, n)
  BY DEF CoreAt
<1>2. PICK l \in DOMAIN C[d] :
         /\ C[d][l].op = "getcpu" /\ C[d][l].n = n
         /\ m.blocks[d].fn = m.blocks[b].fn /\ Precedes(d, l, b, k)
         /\ \A e \in DOMAIN C : \A j \in DOMAIN C[e] :
               C[e][j].op = "fork" => ~(Precedes(d, l, e, j) /\ Precedes(e, j, b, k))
  BY <1>1 DEF ReadsCore
<1>3. \A e \in DOMAIN C : DOMAIN C[e] \subseteq Nat
  BY Element
<1>4. Precedes(d, l, b, q)
  BY <1>2, <1>3 DEF Precedes
<1>5. ASSUME NEW e \in DOMAIN C, NEW j \in DOMAIN C[e], C[e][j].op = "fork", Precedes(e, j, b, q)
      PROVE  Precedes(e, j, b, k)
  BY <1>3, <1>5 DEF Precedes
<1> QED
  BY <1>2, <1>4, <1>5, Zenon DEF CoreAt, ReadsCore

\* The core number was read in the block.
LEMMA CoreHere ==
    ASSUME NEW C, \A b \in DOMAIN C : C[b] \in Seq(Item), DOMAIN C \subseteq Nat,
           NEW m, NEW n, NEW b \in DOMAIN C, NEW l \in DOMAIN C[b], NEW q \in Nat, l < q,
           C[b][l].op = "getcpu", C[b][l].n = n,
           \A j \in DOMAIN C[b] : l < j /\ j < q => C[b][j].op # "fork"
    PROVE  CoreAt(m, C, b, q, n)
<1>1. \A e \in DOMAIN C : DOMAIN C[e] \subseteq Nat
  BY Element
<1>2. Precedes(b, l, b, q)
  BY DEF Precedes
<1>3. ASSUME NEW e \in DOMAIN C, NEW j \in DOMAIN C[e], C[e][j].op = "fork"
      PROVE  ~(Precedes(b, l, e, j) /\ Precedes(e, j, b, q))
  BY <1>1, <1>3 DEF Precedes
<1> QED
  BY <1>2, <1>3, Zenon DEF CoreAt, ReadsCore

\* And so for the block behind it, of the same function.
LEMMA CoreNext ==
    ASSUME NEW C, \A b \in DOMAIN C : C[b] \in Seq(Item), DOMAIN C \subseteq Nat,
           NEW m, NEW n, NEW b \in DOMAIN C, NEW k \in Nat, b + 1 \in DOMAIN C,
           m.blocks[b].fn = m.blocks[b + 1].fn,
           \A j \in DOMAIN C[b] : k <= j => C[b][j].op # "fork",
           CoreAt(m, C, b, k, n)
    PROVE  CoreAt(m, C, b + 1, 0, n)
<1>1. PICK d \in DOMAIN C : \E l \in DOMAIN C[d] : ReadsCore(m, C, d, l, b, k, n)
  BY DEF CoreAt
<1>2. PICK l \in DOMAIN C[d] :
         /\ C[d][l].op = "getcpu" /\ C[d][l].n = n
         /\ m.blocks[d].fn = m.blocks[b].fn /\ Precedes(d, l, b, k)
         /\ \A e \in DOMAIN C : \A j \in DOMAIN C[e] :
               C[e][j].op = "fork" => ~(Precedes(d, l, e, j) /\ Precedes(e, j, b, k))
  BY <1>1 DEF ReadsCore
<1>3. \A e \in DOMAIN C : DOMAIN C[e] \subseteq Nat
  BY Element
<1>4. Precedes(d, l, b + 1, 0)
  BY <1>2, <1>3 DEF Precedes
<1>5. ASSUME NEW e \in DOMAIN C, NEW j \in DOMAIN C[e], C[e][j].op = "fork", Precedes(e, j, b + 1, 0)
      PROVE  Precedes(e, j, b, k)
  <2>1. e \in Nat /\ j \in Nat /\ b \in Nat
    BY <1>3
  <2>2. e < b \/ e = b
    BY <1>5, <2>1 DEF Precedes
  <2> QED
    BY <1>5, <2>1, <2>2 DEF Precedes
<1> QED
  BY <1>2, <1>4, <1>5, Zenon DEF CoreAt, ReadsCore

\* A counter, and perhaps a reading before it, are put in, and all holds of the
\* module that did so before.
\* A counter can be inserted behind the p-th instruction of block a: n and rd
\* are the numbers of counters and of readings of the core number so far.
Sound(m, C, n, rd) ==
    /\ DOMAIN C \subseteq Nat /\ n \in Nat /\ rd \in Nat
    /\ \A b \in DOMAIN C : Body(C[b]) /\ Positions(C[b], "write") = {}
    /\ Bound(C, n, rd) /\ Numbered(C, n) /\ ReadOnce(C) /\ Latest(m, C)
Ready(m, C, a, p, n, rd) ==
    /\ Sound(m, C, n, rd) /\ a \in DOMAIN C /\ p < Len(C[a])
    /\ \A b \in DOMAIN C : \A k \in DOMAIN C[b] :
          C[b][k].op = "count" => b < a \/ (b = a /\ k <= p)

\* It was, alone or behind a new reading of the core number.
Inserted(m, C, a, p, n, rd, D, r, w, cr) ==
    /\ r \in Seq(Item) /\ Widened(r, C[a], p, w) /\ D = [C EXCEPT ![a] = r]
    /\ r[p + w] = Count(n, cr) /\ CoreAt(m, D, a, p + w, cr)
    /\ w = 1 => cr \in 1..rd
    /\ w = 2 => r[p + 1] = Read(cr) /\ cr = rd + 1

LEMMA Placing ==
    ASSUME NEW m, NEW C, NEW a, NEW p, NEW n, NEW rd, Ready(m, C, a, p, n, rd),
           NEW D, NEW r, NEW w, NEW cr, Inserted(m, C, a, p, n, rd, D, r, w, cr)
    PROVE  /\ DOMAIN D = DOMAIN C /\ D[a] = r /\ \A b \in DOMAIN C : b # a => D[b] = C[b]
           /\ \A b \in DOMAIN D : Body(D[b]) /\ Positions(D[b], "write") = {}
           /\ Bound(D, n + 1, rd + w - 1) /\ Numbered(D, n + 1) /\ ReadOnce(D)
           /\ Latest(m, D)
<1> USE DEF Sound, Ready, Inserted
<1>1. \A b \in DOMAIN C : C[b] \in Seq(Item)
  BY DEF Body
<1>2. /\ DOMAIN D = DOMAIN C /\ D[a] = r /\ p \in Nat /\ w \in {1, 2}
      /\ \A b \in DOMAIN C : b # a => D[b] = C[b]
      /\ \A b \in DOMAIN C : DOMAIN C[b] \subseteq Nat /\ DOMAIN D[b] \subseteq Nat
      /\ \A l \in DOMAIN r :
            \/ l = p + w \/ (w = 2 /\ l = p + 1)
            \/ \E k \in DOMAIN C[a] :
                  r[l] = C[a][k] /\ ((k <= p /\ l = k) \/ (k > p /\ l = k + w))
  BY <1>1, Origin
<1>3. Bound(D, n + 1, rd + w - 1) /\ Numbered(D, n + 1) /\ ReadOnce(D)
  BY <1>1, PlacingNumbers
<1>4. /\ r[p + w].op = "count" /\ r[p + w].core = cr
      /\ w = 2 => r[p + 1].op = "getcpu"
  BY DEF Count, Read
<1>5. Body(r)
  BY BodyWider
<1>6. Positions(r, "write") = {}
  BY <1>2, <1>4 DEF Positions
<1>7. \A b \in DOMAIN D : Body(D[b]) /\ Positions(D[b], "write") = {}
  BY <1>2, <1>5, <1>6, Zenon
<1>8. ASSUME NEW b \in DOMAIN D, NEW k \in DOMAIN D[b], D[b][k].op = "count"
      PROVE  CoreAt(m, D, b, k, D[b][k].core)
  <2>1. CASE b = a /\ k = p + w
    BY <1>2, <1>4, <2>1
  <2>2. CASE ~(b = a /\ k = p + w)
    <3>1. k \in DOMAIN C[b] /\ C[b][k] = D[b][k]
      <4>1. CASE b # a
        BY <1>2, <4>1
      <4>2. CASE b = a
        <5>1. PICK j \in DOMAIN C[a] :
                 r[k] = C[a][j] /\ ((j <= p /\ k = j) \/ (j > p /\ k = j + w))
          BY <1>2, <1>4, <1>8, <2>2, <4>2
        <5>2. j <= p
          BY <1>2, <1>8, <4>2, <5>1
        <5> QED
          BY <1>2, <4>2, <5>1, <5>2
      <4> QED
        BY <4>1, <4>2
    <3>2. b \in DOMAIN C /\ k \in Nat /\ (b < a \/ (b = a /\ k <= p))
      BY <1>2, <1>8, <3>1
    <3>3. CoreAt(m, C, b, k, C[b][k].core)
      BY <1>8, <3>1, <3>2 DEF Latest
    <3>4. /\ r \in Seq(Item) /\ Widened(r, C[a], p, w) /\ D = [C EXCEPT ![a] = r]
          /\ DOMAIN C \subseteq Nat /\ a \in DOMAIN C
      OBVIOUS
    <3> HIDE DEF Sound, Ready, Inserted
    <3>5. PICK c : c = C[b][k].core
      OBVIOUS
    <3>6. CoreAt(m, C, b, k, c)
      BY <3>3, <3>5
    <3>7. CoreAt(m, D, b, k, c)
      BY <1>1, <3>2, <3>4, <3>6, CoreKept
    <3> QED
      BY <3>1, <3>5, <3>7
  <2> QED
    BY <2>1, <2>2
<1>9. Latest(m, D)
  BY <1>8 DEF Latest
<1> QED
  BY <1>2, <1>3, <1>7, <1>9

-----------------------------------------------------------------------------
(* The invariant.                                                          *)

LEMMA InitIInv == Init => IInv
<1> SUFFICES ASSUME Init PROVE IInv
  OBVIOUS
<1>0. /\ M \in Modules /\ code = [b \in DOMAIN M.blocks |-> M.blocks[b].code]
      /\ phase = "find" /\ blk = 1 /\ pos = 0 /\ hook = FALSE
      /\ num = 0 /\ i = 0 /\ core = 0 /\ reads = 0
  BY DEF Init
<1>1. /\ Len(M.blocks) \in Nat /\ DOMAIN M.blocks = 1..Len(M.blocks)
      /\ DOMAIN code = DOMAIN M.blocks /\ \A b \in DOMAIN code : code[b] = M.blocks[b].code
  BY <1>0, Shape
<1>2. Types
  <2>1. hook \in BOOLEAN
    BY <1>0, Zenon
  <2>2. blk \in 1..(Len(M.blocks) + 1) /\ core \in 0..reads
    BY <1>0, <1>1
  <2> QED
    BY <1>0, <1>1, <2>1, <2>2 DEF Types
<1>3. \A b \in DOMAIN code : /\ Body(code[b])
                            /\ \A k \in DOMAIN code[b] : code[b][k].op \in Ops /\ code[b][k].n = 0
  BY <1>0, <1>1, Shape
<1>4. Bodies
  <2>1. Bound(code, i, reads)
    <3>1. \A b \in DOMAIN code : \A k \in DOMAIN code[b] : code[b][k].op # "count" /\ code[b][k].n <= reads
      BY <1>0, <1>3 DEF Ops
    <3> QED
      BY <3>1 DEF Bound
  <2>2. \A b \in DOMAIN code : Positions(code[b], "write") = {}
    BY <1>3 DEF Positions, Ops
  <2> QED
    BY <1>3, <2>1, <2>2 DEF Bodies
<1>5. Counting
  BY <1>0 DEF Counting, Instrumenting
<1>6. Scanning
  BY <1>0, <1>1 DEF Scanning, Instrumenting, Begun
<1>7. Numbers /\ Cores /\ WrittenOnce
  BY <1>0 DEF Numbers, Cores, WrittenOnce, Instrumenting
<1> QED
  BY <1>2, <1>4, <1>5, <1>6, <1>7 DEF IInv

LEMMA FindFunctionsIInv == IInv /\ FindFunctions => IInv'
<1> SUFFICES ASSUME IInv, FindFunctions PROVE IInv'
  OBVIOUS
<1>1. /\ phase = "find" /\ phase' \in {"count", "done"} /\ (phase' = "done" => ~HasMain(M))
      /\ (phase' = "count" => HasMain(M)) /\ hook' \in BOOLEAN
      /\ M' = M /\ code' = code /\ blk' = blk /\ pos' = pos /\ num' = num /\ i' = i
      /\ core' = core /\ reads' = reads
  BY DEF FindFunctions, IInv, Types
<1>2. Types'
  BY <1>1 DEF IInv, Types
<1>3. Bodies'
  BY <1>1 DEF IInv, Bodies
<1>4. Counting'
  <2>1. blk = 1 /\ num = 0 /\ pos = 0 /\ i = 0 /\ core = 0 /\ reads = 0
    BY <1>1 DEF IInv, Counting
  <2>2. NumberOfPlaces(M, 1) = 0
    BY Numbering DEF IInv, Types
  <2> QED
    BY <1>1, <2>1, <2>2 DEF Counting, Instrumenting
<1>5. Scanning'
  <2>1. ~Instrumenting' /\ ~Instrumenting
    BY <1>1 DEF Instrumenting
  <2>2. \A b \in DOMAIN code : code[b] = M.blocks[b].code
    BY <1>1, <2>1 DEF IInv, Scanning, Walking, Begun
  <2> QED
    BY <1>1, <2>1, <2>2 DEF Scanning, Begun
<1>6. Numbers' /\ Cores'
  BY <1>1 DEF Numbers, Cores, Instrumenting
<1>7. WrittenOnce'
  BY <1>1 DEF WrittenOnce, HasMain
<1> QED
  BY <1>2, <1>3, <1>4, <1>5, <1>6, <1>7 DEF IInv

LEMMA CountBlockIInv == IInv /\ CountBlock => IInv'
<1> SUFFICES ASSUME IInv, CountBlock PROVE IInv'
  OBVIOUS
<1>1. /\ phase = "count" /\ blk \in DOMAIN M.blocks /\ Instrumented(M, blk)
      /\ M' = M /\ code' = code /\ hook' = hook /\ pos' = pos /\ i' = i
      /\ core' = core /\ reads' = reads
      /\ \/ phase' = "crashed" /\ num' = num /\ blk' = blk
         \/ /\ phase' = "count" /\ blk' = blk + 1
            /\ num' = num + Cardinality(Positions(code[blk], "fork")) + 1
  BY DEF CountBlock, AtBlock
<1>2. M \in Modules /\ Len(M.blocks) \in Nat /\ DOMAIN M.blocks = 1..Len(M.blocks)
  BY Shape DEF IInv, Types
<1>3. ~Instrumenting /\ ~Instrumenting'
  BY <1>1 DEF Instrumenting
<1>4. \A b \in DOMAIN code : code[b] = M.blocks[b].code
  BY <1>1, <1>3 DEF IInv, Scanning, Walking, Begun
<1>5. /\ Cardinality(Positions(M.blocks[blk].code, "fork")) \in Nat
      /\ code[blk] = M.blocks[blk].code
  BY <1>1, <1>2, <1>4, PlacesOfBlock DEF IInv, Types
<1>6. Types'
  BY <1>1, <1>2, <1>5 DEF IInv, Types
<1>7. Bodies'
  BY <1>1 DEF IInv, Bodies
<1>8. Counting'
  <2>1. num = NumberOfPlaces(M, blk) /\ HasMain(M) /\ pos = 0 /\ i = 0 /\ core = 0 /\ reads = 0
    BY <1>1 DEF IInv, Counting
  <2>2. phase' = "count" => num' = NumberOfPlaces(M, blk + 1)
    BY <1>1, <1>2, <1>5, <2>1, Numbering DEF IInv, Types
  <2> QED
    BY <1>1, <1>3, <2>1, <2>2 DEF Counting
<1>9. Scanning'
  BY <1>1, <1>3, <1>4 DEF Scanning, Begun
<1>10. Numbers' /\ Cores' /\ WrittenOnce'
  BY <1>1, <1>3 DEF Numbers, Cores, WrittenOnce
<1> QED
  BY <1>6, <1>7, <1>8, <1>9, <1>10 DEF IInv

LEMMA EndCountIInv == IInv /\ EndCount => IInv'
<1> SUFFICES ASSUME IInv, EndCount PROVE IInv'
  OBVIOUS
<1>1. /\ phase = "count" /\ blk \notin DOMAIN M.blocks /\ phase' = "instrument" /\ blk' = 1
      /\ M' = M /\ code' = code /\ hook' = hook /\ pos' = pos /\ i' = i
      /\ core' = core /\ reads' = reads /\ num' = num
  BY DEF EndCount, AtBlock
<1>2. M \in Modules /\ Len(M.blocks) \in Nat /\ DOMAIN M.blocks = 1..Len(M.blocks)
  BY Shape DEF IInv, Types
<1>3. ~Instrumenting /\ Instrumenting'
  BY <1>1 DEF Instrumenting
<1>4. DOMAIN code = DOMAIN M.blocks /\ \A b \in DOMAIN code : code[b] = M.blocks[b].code
  BY <1>1, <1>3 DEF IInv, Types, Scanning, Walking, Begun
<1>5. pos = 0 /\ i = 0 /\ core = 0 /\ reads = 0 /\ HasMain(M) /\ num = NumberOfPlaces(M, blk)
  BY <1>1 DEF IInv, Counting
<1>6. blk = Len(M.blocks) + 1
  BY <1>1, <1>2 DEF IInv, Types
<1>7. Types'
  BY <1>1, <1>2 DEF IInv, Types
<1>8. Bodies'
  BY <1>1 DEF IInv, Bodies
<1>9. Counting'
  BY <1>1, <1>5, <1>6 DEF Counting
<1>10. Scanning'
  <2>1. \A b \in DOMAIN code : ~Begun(b)'
    BY <1>1, <1>2, <1>4, <1>5 DEF Begun
  <2>2. i' = NumberOfPlaces(M, 1)
    BY <1>1, <1>2, <1>5, Numbering
  <2> QED
    BY <1>1, <1>4, <1>5, <2>1, <2>2 DEF Scanning
<1>11. \A b \in DOMAIN code : \A k \in DOMAIN code[b] :
          code[b][k].op # "count" /\ code[b][k].n = 0
  <2>1. \A b \in DOMAIN code : \A k \in DOMAIN code[b] : code[b][k].op \in Ops /\ code[b][k].n = 0
    BY <1>2, <1>4, Shape
  <2> QED
    BY <2>1 DEF Ops
<1>12. Numbers'
  <2>1. Numbered(code, 0) /\ ReadOnce(code)
    BY <1>11 DEF Numbered, ReadOnce
  <2> QED
    BY <1>1, <1>5, <2>1 DEF Numbers
<1>13. Cores'
  <2>1. Latest(M, code)
    BY <1>11 DEF Latest
  <2>2. IsEntry(M, 1)
    BY DEF IsEntry
  <2> QED
    BY <1>1, <1>5, <2>1, <2>2 DEF Cores
<1>14. WrittenOnce'
  BY <1>1 DEF WrittenOnce
<1> QED
  BY <1>7, <1>8, <1>9, <1>10, <1>12, <1>13, <1>14 DEF IInv

LEMMA SkipBlockIInv == IInv /\ SkipBlock => IInv'
<1> SUFFICES ASSUME IInv, SkipBlock PROVE IInv'
  OBVIOUS
<1>1. /\ phase \in {"count", "instrument"} /\ blk \in DOMAIN M.blocks /\ ~Instrumented(M, blk)
      /\ blk' = blk + 1 /\ phase' = phase
      /\ M' = M /\ code' = code /\ hook' = hook /\ pos' = pos /\ i' = i
      /\ core' = core /\ reads' = reads /\ num' = num
  BY DEF SkipBlock, AtBlock
<1>2. M \in Modules /\ Len(M.blocks) \in Nat /\ DOMAIN M.blocks = 1..Len(M.blocks)
  BY Shape DEF IInv, Types
<1>3. DOMAIN code = DOMAIN M.blocks /\ blk \in Nat /\ pos \in Nat
  BY <1>1, <1>2 DEF IInv, Types
<1>4. Instrumenting' = Instrumenting /\ Walking' = Walking /\ Walking
  BY <1>1 DEF Instrumenting, Walking
<1>5. pos = 0
  BY <1>1, <1>3 DEF IInv, Scanning, Counting, Instrumenting
<1>6. NumberOfPlaces(M, blk + 1) = NumberOfPlaces(M, blk)
  <2>1. blk \in 1..(Len(M.blocks) + 1)
    BY <1>1, <1>2
  <2>2. NumberOfPlaces(M, blk) \in Nat
    BY <1>2, <2>1, FinitePlaces
  <2>3. NumberOfPlaces(M, blk + 1) = NumberOfPlaces(M, blk) + 0
    BY <1>1, <1>2, Numbering
  <2> QED
    BY <2>2, <2>3
<1>7. Types'
  BY <1>1, <1>2 DEF IInv, Types
<1>8. Bodies'
  BY <1>1 DEF IInv, Bodies
<1>9. Counting'
  BY <1>1, <1>4, <1>6 DEF IInv, Counting
<1>10. Scanning'
  <2>1. ASSUME NEW b \in DOMAIN code PROVE Begun(b)' = Begun(b) /\ (Begun(b) => UpTo(b)' = UpTo(b))
    BY <1>1, <1>2, <1>3, <1>4, <1>5 DEF Begun, UpTo
  <2>2. \A b \in DOMAIN code : IF Begun(b) THEN Scanned(code[b], UpTo(b)) ELSE code[b] = M.blocks[b].code
    BY <1>4 DEF IInv, Scanning
  <2>3. \A b \in DOMAIN code' : IF Begun(b)' THEN Scanned(code'[b], UpTo(b)') ELSE code'[b] = M'.blocks[b].code
    BY <1>1, <2>1, <2>2
  <2>4. Instrumenting => i = NumberOfPlaces(M, blk)
    BY <1>5 DEF IInv, Scanning
  <2>5. Instrumenting' => i' = NumberOfPlaces(M', blk')
    BY <1>1, <1>4, <1>6, <2>4
  <2>6. pos' = 0
    BY <1>1, <1>5
  <2> QED
    BY <2>3, <2>5, <2>6 DEF Scanning
<1>11. Numbers'
  BY <1>1, <1>4 DEF IInv, Numbers
<1>12. Cores'
  <2>1. ~(blk + 1 \in DOMAIN M.blocks /\ Instrumented(M, blk + 1) /\ ~IsEntry(M, blk + 1))
    <3> SUFFICES ASSUME blk + 1 \in DOMAIN M.blocks, ~IsEntry(M, blk + 1)
                 PROVE  M.blocks[blk].fn = M.blocks[blk + 1].fn
      BY <1>1 DEF Instrumented
    <3> QED
      BY <1>1, <1>2, Shape
  <2> QED
    BY <1>1, <1>4, <1>5, <2>1 DEF IInv, Cores
<1>13. WrittenOnce'
  BY <1>1 DEF WrittenOnce
<1> QED
  BY <1>7, <1>8, <1>9, <1>10, <1>11, <1>12, <1>13 DEF IInv

LEMMA EndBlockIInv == IInv /\ EndBlock => IInv'
<1> SUFFICES ASSUME IInv, EndBlock PROVE IInv'
  OBVIOUS
<1>1. /\ phase = "instrument" /\ blk \in DOMAIN M.blocks /\ pos > Len(code[blk])
      /\ blk' = blk + 1 /\ pos' = 0 /\ phase' = phase
      /\ M' = M /\ code' = code /\ hook' = hook /\ i' = i
      /\ core' = core /\ reads' = reads /\ num' = num
  BY DEF EndBlock, AtBlock
<1>2. M \in Modules /\ Len(M.blocks) \in Nat /\ DOMAIN M.blocks = 1..Len(M.blocks)
  BY Shape DEF IInv, Types
<1>3. /\ DOMAIN code = DOMAIN M.blocks /\ blk \in Nat /\ pos \in Nat
      /\ \A b \in DOMAIN code : code[b] \in Seq(Item)
  BY <1>1, <1>2 DEF IInv, Types, Bodies, Body
<1>4. code[blk] \in Seq(Item) /\ Len(code[blk]) \in Nat \ {0} /\ DOMAIN code[blk] = 1..Len(code[blk])
  <2>1. code[blk] \in Seq(Item) /\ code[blk] # <<>>
    BY <1>1, <1>3 DEF IInv, Bodies, Body
  <2> QED
    BY <2>1
<1>5. Instrumenting' /\ Instrumenting /\ Walking' /\ Walking
  BY <1>1 DEF Instrumenting, Walking
<1>6. Instrumented(M, blk) /\ pos = Len(code[blk]) + 1 /\ pos > 1
  BY <1>1, <1>3, <1>4, <1>5 DEF IInv, Scanning
<1>7. i = NumberOfPlaces(M, blk + 1)
  <2>1. i + Cardinality(Behind(code[blk], "fork", pos - 1)) = NumberOfPlaces(M, blk + 1)
    BY <1>5, <1>6 DEF IInv, Scanning
  <2>2. pos - 1 = Len(code[blk]) /\ i \in Nat
    BY <1>4, <1>6 DEF IInv, Types
  <2>3. Cardinality(Behind(code[blk], "fork", Len(code[blk]))) = 0
    BY <1>4, Amount
  <2> QED
    BY <2>1, <2>2, <2>3
<1>8. Types'
  BY <1>1, <1>2 DEF IInv, Types
<1>9. Bodies'
  BY <1>1 DEF IInv, Bodies
<1>10. Counting'
  BY <1>1, <1>5 DEF IInv, Counting
<1>11. Scanning'
  <2>1. ASSUME NEW b \in DOMAIN code PROVE Begun(b)' = Begun(b) /\ (Begun(b) => UpTo(b)' = UpTo(b))
    BY <1>1, <1>2, <1>3, <1>5, <1>6 DEF Begun, UpTo
  <2>2. \A b \in DOMAIN code : IF Begun(b) THEN Scanned(code[b], UpTo(b)) ELSE code[b] = M.blocks[b].code
    BY <1>5 DEF IInv, Scanning
  <2>3. \A b \in DOMAIN code' : IF Begun(b)' THEN Scanned(code'[b], UpTo(b)') ELSE code'[b] = M'.blocks[b].code
    BY <1>1, <2>1, <2>2
  <2> QED
    BY <1>1, <1>7, <2>3 DEF Scanning
<1>12. Numbers'
  BY <1>1, <1>5 DEF IInv, Numbers
<1>13. Cores'
  <2>1. /\ Latest(M, code) /\ core > 0
        /\ CoreAt(M, code, blk, IF pos = 1 THEN 2 ELSE pos, core)
    BY <1>1, <1>5, <1>6 DEF IInv, Cores
  <2>2. CoreAt(M, code, blk, pos, core)
    BY <1>6, <2>1
  <2>3. ASSUME blk + 1 \in DOMAIN M.blocks, ~IsEntry(M, blk + 1) PROVE CoreAt(M, code, blk + 1, 0, core)
    <3>1. M.blocks[blk].fn = M.blocks[blk + 1].fn
      BY <1>1, <1>2, <2>3, Shape
    <3>2. \A j \in DOMAIN code[blk] : ~(pos <= j)
      BY <1>4, <1>6
    <3>3. PICK C : C = code
      OBVIOUS
    <3>4. DOMAIN C \subseteq Nat /\ blk \in DOMAIN C /\ blk + 1 \in DOMAIN C
      BY <1>1, <1>2, <1>3, <2>3, <3>3
    <3>5. CoreAt(M, C, blk + 1, 0, core)
      BY <1>3, <2>2, <3>1, <3>2, <3>3, <3>4, CoreNext
    <3> QED
      BY <3>3, <3>5
  <2> QED
    BY <1>1, <2>1, <2>3 DEF Cores
<1>14. WrittenOnce'
  BY <1>1 DEF WrittenOnce
<1> QED
  BY <1>8, <1>9, <1>10, <1>11, <1>12, <1>13, <1>14 DEF IInv

LEMMA EndInstrumentIInv == IInv /\ EndInstrument => IInv'
<1> SUFFICES ASSUME IInv, EndInstrument PROVE IInv'
  OBVIOUS
<1>1. /\ phase = "instrument" /\ blk \notin DOMAIN M.blocks /\ phase' = "hook"
      /\ M' = M /\ code' = code /\ hook' = hook /\ i' = i /\ blk' = blk /\ pos' = pos
      /\ core' = core /\ reads' = reads /\ num' = num
  BY DEF EndInstrument, AtBlock
<1>2. M \in Modules /\ Len(M.blocks) \in Nat /\ DOMAIN M.blocks = 1..Len(M.blocks)
  BY Shape DEF IInv, Types
<1>3. Instrumenting' /\ Instrumenting /\ Walking' /\ Walking
  BY <1>1 DEF Instrumenting, Walking
<1>4. blk = Len(M.blocks) + 1 /\ pos = 0
  BY <1>1, <1>2, <1>3 DEF IInv, Types, Scanning
<1>5. Types'
  BY <1>1 DEF IInv, Types
<1>6. Bodies'
  BY <1>1 DEF IInv, Bodies
<1>7. Counting'
  BY <1>1, <1>3, <1>4 DEF IInv, Counting
<1>8. Scanning'
  <2>1. ASSUME NEW b \in DOMAIN code PROVE Begun(b)' = Begun(b) /\ UpTo(b)' = UpTo(b)
    BY <1>1, <1>3 DEF Begun, UpTo
  <2> QED
    BY <1>1, <1>3, <2>1 DEF IInv, Scanning
<1>9. Numbers'
  BY <1>1, <1>3 DEF IInv, Numbers
<1>10. Cores'
  BY <1>1, <1>3 DEF IInv, Cores
<1>11. WrittenOnce'
  BY <1>1 DEF WrittenOnce
<1> QED
  BY <1>5, <1>6, <1>7, <1>8, <1>9, <1>10, <1>11 DEF IInv

\* Counters are in the blocks the loop came to.
LEMMA CountersBegun ==
    ASSUME IInv, phase = "instrument"
    PROVE  \A b \in DOMAIN code : \A k \in DOMAIN code[b] :
              code[b][k].op = "count" => b < blk \/ (b = blk /\ pos > 0)
<1> SUFFICES ASSUME NEW b \in DOMAIN code, NEW k \in DOMAIN code[b], code[b][k].op = "count"
             PROVE  b < blk \/ (b = blk /\ pos > 0)
  OBVIOUS
<1>1. M \in Modules /\ b \in DOMAIN M.blocks
  BY DEF IInv, Types
<1>2. CASE Begun(b)
  BY <1>2 DEF Begun
<1>3. CASE ~Begun(b)
  <2>1. code[b] = M.blocks[b].code
    BY <1>3 DEF IInv, Scanning, Walking
  <2>2. code[b][k].op \in Ops
    BY <1>1, <2>1, Shape
  <2> QED
    BY <2>2 DEF Ops
<1> QED
  BY <1>2, <1>3

LEMMA ScanOther ==
    ASSUME IInv, ScanInstruction, code[blk][pos].op # "fork"
    PROVE  IInv'
<1>1. /\ phase = "instrument" /\ blk \in DOMAIN M.blocks /\ pos \in DOMAIN code[blk]
      /\ blk' = blk /\ pos' = pos + 1 /\ phase' = phase
      /\ M' = M /\ code' = code /\ hook' = hook /\ i' = i
      /\ core' = core /\ reads' = reads /\ num' = num
  BY DEF ScanInstruction, AtBlock
<1>2. M \in Modules /\ Len(M.blocks) \in Nat /\ DOMAIN M.blocks = 1..Len(M.blocks)
  BY Shape DEF IInv, Types
<1>3. /\ DOMAIN code = DOMAIN M.blocks /\ blk \in Nat /\ pos \in Nat
      /\ \A b \in DOMAIN code : code[b] \in Seq(Item)
  BY <1>1, <1>2 DEF IInv, Types, Bodies, Body
<1>4. /\ code[blk] \in Seq(Item) /\ Len(code[blk]) \in Nat /\ DOMAIN code[blk] = 1..Len(code[blk])
      /\ pos \in 1..Len(code[blk])
  <2>1. code[blk] \in Seq(Item)
    BY <1>1, <1>3
  <2> QED
    BY <1>1, <2>1
<1>5. Instrumenting' /\ Instrumenting /\ Walking' /\ Walking
  BY <1>1 DEF Instrumenting, Walking
<1>6. Instrumented(M, blk) /\ pos > 0
  BY <1>1, <1>4, <1>5 DEF IInv, Scanning
<1>7. i + Cardinality(Behind(code[blk], "fork", pos' - 1)) = NumberOfPlaces(M, blk + 1)
  <2>1. i + Cardinality(Behind(code[blk], "fork", pos - 1)) = NumberOfPlaces(M, blk + 1)
    BY <1>5, <1>6 DEF IInv, Scanning
  <2>2. pos' - 1 = pos
    BY <1>1, <1>4
  <2>3. Cardinality(Behind(code[blk], "fork", pos - 1)) = Cardinality(Behind(code[blk], "fork", pos)) + 0
    BY <1>4, NextPosition
  <2>4. Cardinality(Behind(code[blk], "fork", pos)) \in Nat
    BY <1>4, Amount
  <2> QED
    BY <2>1, <2>2, <2>3, <2>4
<1>8. Types'
  BY <1>1, <1>3 DEF IInv, Types
<1>9. Bodies'
  BY <1>1 DEF IInv, Bodies
<1>10. Counting'
  BY <1>1, <1>5 DEF IInv, Counting
<1>11. Scanning'
  <2>1. ASSUME NEW b \in DOMAIN code
        PROVE  /\ Begun(b)' = Begun(b) /\ (b = blk => Begun(b) /\ UpTo(b)' = pos + 1 /\ UpTo(b) = pos)
               /\ (b # blk => UpTo(b)' = UpTo(b))
    BY <1>1, <1>3, <1>5, <1>6 DEF Begun, UpTo
  <2>2. \A b \in DOMAIN code : IF Begun(b) THEN Scanned(code[b], UpTo(b)) ELSE code[b] = M.blocks[b].code
    BY <1>5 DEF IInv, Scanning
  <2>3. Scanned(code[blk], pos + 1)
    BY <1>1, <1>3, <1>4, <2>1, <2>2, ScanPasses
  <2>4. \A b \in DOMAIN code' : IF Begun(b)' THEN Scanned(code'[b], UpTo(b)') ELSE code'[b] = M'.blocks[b].code
    BY <1>1, <2>1, <2>2, <2>3
  <2>5. pos' <= Len(code'[blk']) + 1 /\ pos' # 0
    BY <1>1, <1>4
  <2> QED
    BY <1>1, <1>6, <1>7, <2>4, <2>5 DEF Scanning
<1>12. Numbers'
  BY <1>1, <1>5 DEF IInv, Numbers
<1>13. Cores'
  <2>1. /\ Latest(M, code) /\ core > 0
        /\ CoreAt(M, code, blk, IF pos = 1 THEN 2 ELSE pos, core)
    BY <1>1, <1>5, <1>6 DEF IInv, Cores
  <2>2. CoreAt(M, code, blk, pos + 1, core)
    <3>1. CASE pos = 1
      BY <2>1, <3>1
    <3>2. CASE pos # 1
      <4>1. CoreAt(M, code, blk, pos, core)
        BY <2>1, <3>2
      <4>2. \A j \in DOMAIN code[blk] : pos <= j /\ j < pos + 1 => code[blk][j].op # "fork"
        BY <1>4
      <4>3. PICK C : C = code
        OBVIOUS
      <4>4. DOMAIN C \subseteq Nat /\ blk \in DOMAIN C /\ pos + 1 \in Nat /\ pos <= pos + 1
        BY <1>1, <1>2, <1>3, <4>3
      <4>5. CoreAt(M, C, blk, pos + 1, core)
        BY <1>3, <4>1, <4>2, <4>3, <4>4, CoreLater
      <4> QED
        BY <4>3, <4>5
    <3> QED
      BY <3>1, <3>2
  <2>3. pos' # 1
    BY <1>1, <1>4
  <2> QED
    BY <1>1, <2>1, <2>2, <2>3 DEF Cores
<1>14. WrittenOnce'
  BY <1>1 DEF WrittenOnce
<1> QED
  BY <1>8, <1>9, <1>10, <1>11, <1>12, <1>13, <1>14 DEF IInv

\* The second loop is at a fork call.
AtFork(m, C, a, q, n, rd) ==
    /\ Sound(m, C, n, rd) /\ a \in DOMAIN C /\ q \in DOMAIN C[a]
    /\ C[a][q].op = "fork" /\ Scanned(C[a], q)
    /\ \A b \in DOMAIN C : \A k \in DOMAIN C[b] : C[b][k].op = "count" => b < a \/ b = a

\* It has passed it: the block is t now, and the code D.
ForkPassed(C, a, q, n, rd, f, e, g, n1, cr, t, D) ==
    /\ Following(q, f) /\ Following(f, e) /\ Following(e, g)
    /\ Following(n, n1) /\ Following(rd, cr)
    /\ t = InsertAt(InsertAt(C[a], f, Count(n, cr)), f, Read(cr))
    /\ D = [C EXCEPT ![a] = t]

\* What the code is when a fork call was passed: D, with t for its block.
LEMMA Forking ==
    ASSUME NEW m, NEW C, NEW a, NEW q, NEW n, NEW rd, AtFork(m, C, a, q, n, rd),
           NEW f, NEW e, NEW g, NEW n1, NEW cr, NEW t, NEW D,
           ForkPassed(C, a, q, n, rd, f, e, g, n1, cr, t, D)
    PROVE  /\ DOMAIN D = DOMAIN C /\ D[a] = t /\ \A b \in DOMAIN C : b # a => D[b] = C[b]
           /\ \A b \in DOMAIN D : Body(D[b]) /\ Positions(D[b], "write") = {}
           /\ Bound(D, n1, cr) /\ Numbered(D, n1) /\ ReadOnce(D) /\ Latest(m, D)
           /\ CoreAt(m, D, a, g, cr) /\ Scanned(t, g) /\ g <= Len(t) + 1
           /\ Cardinality(Behind(C[a], "fork", q - 1)) = Cardinality(Behind(t, "fork", e)) + 1
           /\ Cardinality(Behind(t, "fork", e)) \in Nat
<1> USE DEF Sound, AtFork, ForkPassed
<1> DEFINE s == C[a]
<1>1. s \in Seq(Item) /\ s[Len(s)].op \in {"br", "ret"} /\ s[q].op = "fork"
  BY DEF Body
<1>2. Len(s) \in Nat /\ DOMAIN s = 1..Len(s)
  BY <1>1, Element
<1>3. q \in 1..Len(s)
  BY <1>2
<1>4. q # Len(s)
  BY <1>1
<1>5. q \in Nat /\ q > 0 /\ q < Len(s) /\ q \in 0..Len(s)
  BY <1>2, <1>3, <1>4
<1>0. f = q + 1 /\ e = q + 2 /\ g = q + 3 /\ n1 = n + 1 /\ cr = rd + 1
  BY <1>5 DEF Following
<1>6. t \in Seq(Item) /\ Widened(t, s, q, 2) /\ t[f] = Read(cr) /\ t[e] = Count(n, cr)
  <2>1. cr \in Nat /\ f + 1 = e /\ f \in Nat /\ f - 1 = q /\ f - 1 \in 0..Len(s)
    BY <1>0, <1>5
  <2>2. Count(n, cr) \in Item /\ Read(cr) \in Item
    BY <2>1 DEF Item
  <2>3. t = InsertAt(InsertAt(s, f, Count(n, cr)), f, Read(cr))
    OBVIOUS
  <2>4. PICK x, y : x = Read(cr) /\ y = Count(n, cr)
    OBVIOUS
  <2> HIDE DEF s
  <2>5. /\ x \in Item /\ y \in Item /\ t = InsertAt(InsertAt(s, f, y), f, x)
    BY <2>2, <2>3, <2>4
  <2>6. s \in Seq(Item)
    BY <1>1
  <2>7. q \in 0..Len(s)
    BY <1>5
  <2>8. t \in Seq(Item) /\ Widened(t, s, q, 2) /\ t[f] = x /\ t[e] = y
    BY <2>5, <2>6, <2>7, InsertingTwo
  <2> QED
    BY <2>4, <2>8
<1>7. t[f].op = "getcpu" /\ t[f].n = cr /\ t[e].op = "count"
  BY <1>6 DEF Read, Count
<1>8. DOMAIN t = 1..(Len(s) + 2)
  BY <1>1, <1>6, Wide
<1>9. Len(t) = Len(s) + 2
  BY <1>6 DEF Widened
<1>10. DOMAIN t \subseteq Nat /\ f \in DOMAIN t
  BY <1>0, <1>2, <1>5, <1>8
<1>11. DOMAIN D = DOMAIN C /\ D[a] = t /\ \A b \in DOMAIN D : D[b] \in Seq(Item)
  BY <1>6 DEF Body
<1>12. \A j \in DOMAIN D[a] : f < j /\ j < g => D[a][j].op # "fork"
  <2> SUFFICES ASSUME NEW j \in DOMAIN t, f < j, j < g PROVE t[j].op # "fork"
    BY <1>11
  <2>1. j = e
    BY <1>0, <1>5, <1>10
  <2> QED
    BY <1>7, <2>1
<1>13. \A j \in DOMAIN D[a] : f < j /\ j < e => D[a][j].op # "fork"
  BY <1>0, <1>5, <1>10, <1>11
<1>14. e \in Nat /\ g \in Nat /\ f < e /\ f < g
  BY <1>0, <1>5
<1>15. a \in DOMAIN D /\ DOMAIN D \subseteq Nat
  BY <1>11
<1> HIDE DEF s
<1>16. D[a][f].op = "getcpu" /\ D[a][f].n = cr /\ f \in DOMAIN D[a]
  BY <1>7, <1>10, <1>11
<1>17. CoreAt(m, D, a, e, cr) /\ CoreAt(m, D, a, g, cr)
  <2>1. CoreAt(m, D, a, e, cr)
    BY <1>11, <1>13, <1>14, <1>15, <1>16, CoreHere, ZenonT(40)
  <2>2. CoreAt(m, D, a, g, cr)
    BY <1>11, <1>12, <1>14, <1>15, <1>16, CoreHere, ZenonT(40)
  <2> QED
    BY <2>1, <2>2
<1>18. \A b \in DOMAIN C : \A k \in DOMAIN C[b] :
          C[b][k].op = "count" => b < a \/ (b = a /\ k <= q)
  <2> SUFFICES ASSUME NEW b \in DOMAIN C, NEW k \in DOMAIN C[b], C[b][k].op = "count", ~(b < a)
               PROVE  b = a /\ k <= q
    OBVIOUS
  <2>1. b = a
    OBVIOUS
  <2>2. k \in DOMAIN s /\ s[k].op = "count"
    BY <2>1 DEF s
  <2>3. k \in Nat
    BY <1>2, <2>2
  <2>4. ASSUME k > q PROVE FALSE
    <3>1. k >= q /\ q \in 1..(k - 1)
      BY <1>5, <2>3, <2>4
    <3>2. Scanned(s, q)
      BY DEF s
    <3>3. s[q].op \in {"phi", "getcpu"}
      BY <2>2, <3>1, <3>2, Zenon DEF Scanned
    <3> QED
      BY <1>1, <3>3
  <2> QED
    BY <1>5, <2>1, <2>3, <2>4
<1>19. /\ DOMAIN D = DOMAIN C /\ D[a] = t /\ \A b \in DOMAIN C : b # a => D[b] = C[b]
       /\ \A b \in DOMAIN D : Body(D[b]) /\ Positions(D[b], "write") = {}
       /\ Bound(D, n1, cr) /\ Numbered(D, n1) /\ ReadOnce(D) /\ Latest(m, D)
  <2>1. q < Len(C[a])
    BY <1>5 DEF s
  <2>2. Ready(m, C, a, q, n, rd)
    BY <1>18, <2>1 DEF Ready
  <2>3. Inserted(m, C, a, q, n, rd, D, t, 2, cr)
    BY <1>0, <1>6, <1>17 DEF Inserted, s
  <2>4. PICK w : w = 2
    OBVIOUS
  <2>5. Inserted(m, C, a, q, n, rd, D, t, w, cr)
    BY <2>3, <2>4
  <2>6. /\ DOMAIN D = DOMAIN C /\ D[a] = t /\ \A b \in DOMAIN C : b # a => D[b] = C[b]
        /\ \A b \in DOMAIN D : Body(D[b]) /\ Positions(D[b], "write") = {}
        /\ Bound(D, n + 1, rd + w - 1) /\ Numbered(D, n + 1) /\ ReadOnce(D) /\ Latest(m, D)
    BY <2>2, <2>5, Placing
  <2>7. n + 1 = n1 /\ rd + w - 1 = cr
    BY <1>0, <2>4
  <2> QED
    BY <2>6, <2>7
<1>20. Scanned(t, g)
  <2>1. Scanned(s, q) /\ q \in DOMAIN s
    BY DEF s
  <2>2. t[q + 1] = Read(cr) /\ t[q + 2] = Count(n, cr)
    BY <1>0, <1>6
  <2>3. Scanned(t, q + 3)
    BY <1>1, <1>6, <2>1, <2>2, ScanCounts
  <2> QED
    BY <1>0, <2>3
<1>21. Cardinality(Behind(s, "fork", q - 1)) = Cardinality(Behind(s, "fork", q)) + 1
  BY <1>1, <1>3, NextPosition
<1>22. /\ Cardinality(Behind(t, "fork", e)) = Cardinality(Behind(s, "fork", q))
       /\ Cardinality(Behind(s, "fork", q)) \in Nat
  <2>1. t[q + 2].op = "count" /\ t[q + 1].op = "getcpu"
    BY <1>0, <1>7
  <2>2. Cardinality(Behind(t, "fork", q + 2)) = Cardinality(Behind(s, "fork", q))
    BY <1>1, <1>6, <2>1, Amounts
  <2> QED
    BY <1>0, <1>1, <2>2, Amount
<1>23. /\ Cardinality(Behind(C[a], "fork", q - 1)) = Cardinality(Behind(t, "fork", e)) + 1
       /\ Cardinality(Behind(t, "fork", e)) \in Nat
  BY <1>21, <1>22 DEF s
<1>24. g <= Len(t) + 1
  BY <1>0, <1>2, <1>5, <1>9
<1> QED
  BY <1>17, <1>19, <1>20, <1>23, <1>24

LEMMA ScanFork ==
    ASSUME IInv, ScanInstruction, code[blk][pos].op = "fork"
    PROVE  IInv'
<1> DEFINE r == InsertAt(InsertAt(code[blk], pos + 1, Count(i, core')), pos + 1, Read(core'))
<1>1. /\ phase = "instrument" /\ blk \in DOMAIN M.blocks /\ pos \in DOMAIN code[blk]
      /\ blk' = blk /\ pos' = pos + 3 /\ phase' = phase
      /\ M' = M /\ hook' = hook /\ i' = i + 1
      /\ core' = reads + 1 /\ reads' = reads + 1 /\ num' = num
      /\ code' = [code EXCEPT ![blk] = r]
  BY DEF ScanInstruction, AtBlock
<1>2. M \in Modules /\ Len(M.blocks) \in Nat /\ DOMAIN M.blocks = 1..Len(M.blocks)
  BY Shape DEF IInv, Types
<1>3. /\ DOMAIN code = DOMAIN M.blocks /\ blk \in Nat /\ pos \in Nat /\ i \in Nat /\ reads \in Nat
      /\ hook \in BOOLEAN /\ num \in Nat /\ blk \in 1..(Len(M.blocks) + 1)
  BY <1>1, <1>2 DEF IInv, Types
<1>4. /\ \A b \in DOMAIN code : Body(code[b]) /\ Positions(code[b], "write") = {}
      /\ Bound(code, i, reads)
  BY <1>1 DEF IInv, Bodies
<1>5. Instrumenting' /\ Instrumenting /\ Walking' /\ Walking
  BY <1>1 DEF Instrumenting, Walking
<1>6. pos > 0
  <2>1. code[blk] \in Seq(Item)
    BY <1>1, <1>3, <1>4 DEF Body
  <2>2. pos \in 1..Len(code[blk])
    BY <1>1, <2>1, Element
  <2> QED
    BY <1>3, <2>2
<1>7. Instrumented(M, blk)
  BY <1>5, <1>6 DEF IInv, Scanning
<1>8. Scanned(code[blk], pos)
  BY <1>1, <1>3, <1>5, <1>6, <1>7 DEF IInv, Scanning, Begun, UpTo
<1>9. Numbered(code, i) /\ ReadOnce(code) /\ Latest(M, code)
  BY <1>5 DEF IInv, Numbers, Cores
<1>10. \A b \in DOMAIN code : \A k \in DOMAIN code[b] : code[b][k].op = "count" => b < blk \/ b = blk
  BY <1>1, CountersBegun
<1>11. PICK C, D, t, m, a : C = code /\ D = code' /\ t = r /\ m = M /\ a = blk
  OBVIOUS
<1>12. PICK q, n, rd \in Nat : q = pos /\ n = i /\ rd = reads
  BY <1>3
<1>13. PICK f, e, g, n1, cr : f = q + 1 /\ e = q + 2 /\ g = q + 3 /\ n1 = n + 1 /\ cr = rd + 1
  OBVIOUS
<1>14. /\ DOMAIN D = DOMAIN C /\ D[a] = t /\ \A b \in DOMAIN C : b # a => D[b] = C[b]
       /\ \A b \in DOMAIN D : Body(D[b]) /\ Positions(D[b], "write") = {}
       /\ Bound(D, n1, cr) /\ Numbered(D, n1) /\ ReadOnce(D) /\ Latest(m, D)
       /\ CoreAt(m, D, a, g, cr) /\ Scanned(t, g) /\ g <= Len(t) + 1
       /\ Cardinality(Behind(C[a], "fork", q - 1)) = Cardinality(Behind(t, "fork", e)) + 1
       /\ Cardinality(Behind(t, "fork", e)) \in Nat
  <2>1. /\ t = InsertAt(InsertAt(C[a], f, Count(n, cr)), f, Read(cr))
        /\ D = [C EXCEPT ![a] = t]
    BY <1>1, <1>11, <1>12, <1>13
  <2>2. /\ \A b \in DOMAIN C : Body(C[b]) /\ Positions(C[b], "write") = {}
        /\ Bound(C, n, rd) /\ Numbered(C, n) /\ ReadOnce(C) /\ Latest(m, C) /\ Scanned(C[a], q)
        /\ \A b \in DOMAIN C : \A k \in DOMAIN C[b] : C[b][k].op = "count" => b < a \/ b = a
    BY <1>4, <1>8, <1>9, <1>10, <1>11, <1>12, Zenon
  <2>3. DOMAIN C \subseteq Nat /\ a \in DOMAIN C /\ q \in DOMAIN C[a] /\ C[a][q].op = "fork"
    BY <1>1, <1>2, <1>3, <1>11, <1>12
  <2>4. Following(q, f) /\ Following(f, e) /\ Following(e, g) /\ Following(n, n1) /\ Following(rd, cr)
    BY <1>13 DEF Following
  <2> HIDE DEF r
  <2>5. AtFork(m, C, a, q, n, rd)
    BY <2>2, <2>3 DEF AtFork, Sound
  <2>6. ForkPassed(C, a, q, n, rd, f, e, g, n1, cr, t, D)
    BY <2>1, <2>4 DEF ForkPassed
  <2> QED
    BY <2>5, <2>6, Forking
<1> HIDE DEF r
<1>15. /\ DOMAIN code' = DOMAIN code /\ code'[blk] = t /\ \A b \in DOMAIN code : b # blk => code'[b] = code[b]
       /\ \A b \in DOMAIN code' : Body(code'[b]) /\ Positions(code'[b], "write") = {}
       /\ Bound(code', i + 1, reads + 1) /\ Numbered(code', i + 1) /\ ReadOnce(code') /\ Latest(M, code')
       /\ CoreAt(M, code', blk, pos + 3, reads + 1) /\ Scanned(t, pos + 3) /\ pos + 3 <= Len(t) + 1
       /\ Cardinality(Behind(code[blk], "fork", pos - 1)) = Cardinality(Behind(t, "fork", pos + 2)) + 1
       /\ Cardinality(Behind(t, "fork", pos + 2)) \in Nat
  BY <1>11, <1>12, <1>14, <1>13
<1>16. Types'
  BY <1>1, <1>2, <1>3, <1>15 DEF IInv, Types
<1>17. Bodies'
  BY <1>1, <1>15 DEF Bodies
<1>18. Counting'
  BY <1>1, <1>5 DEF IInv, Counting
<1>19. Scanning'
  <2>1. ASSUME NEW b \in DOMAIN code, b # blk PROVE Begun(b)' = Begun(b) /\ UpTo(b)' = UpTo(b)
    BY <1>1, <1>5, <1>15, <2>1 DEF Begun, UpTo
  <2>2. \A b \in DOMAIN code : IF Begun(b) THEN Scanned(code[b], UpTo(b)) ELSE code[b] = M.blocks[b].code
    BY <1>5 DEF IInv, Scanning
  <2>3. UpTo(blk)' = pos + 3
    BY <1>1 DEF UpTo
  <2>4. ASSUME NEW b \in DOMAIN code
        PROVE  IF Begun(b)' THEN Scanned(code'[b], UpTo(b)') ELSE code'[b] = M'.blocks[b].code
    <3>1. CASE b = blk
      <4>1. pos' > 0
        BY <1>1, <1>3
      <4>2. Begun(b)'
        BY <1>1, <1>5, <1>7, <3>1, <4>1 DEF Begun, Instrumented
      <4>3. code'[b] = t /\ UpTo(b)' = pos + 3
        BY <1>1, <1>15, <3>1 DEF UpTo
      <4> QED
        BY <1>15, <4>2, <4>3
    <3>2. CASE b # blk
      <4>1. code'[b] = code[b]
        BY <1>15, <3>2
      <4> QED
        BY <1>1, <2>1, <2>2, <3>2, <4>1
    <3> QED
      BY <3>1, <3>2
  <2>5. i' + Cardinality(Behind(code'[blk], "fork", pos' - 1)) = NumberOfPlaces(M, blk + 1)
    <3>1. i + Cardinality(Behind(code[blk], "fork", pos - 1)) = NumberOfPlaces(M, blk + 1)
      BY <1>5, <1>6 DEF IInv, Scanning
    <3>2. pos' - 1 = pos + 2
      BY <1>1, <1>3
    <3> QED
      BY <1>1, <1>3, <1>15, <3>1, <3>2
  <2>6. pos' <= Len(code'[blk]) + 1 /\ pos' # 0
    BY <1>1, <1>3, <1>15
  <2> QED
    BY <1>1, <1>7, <1>15, <2>4, <2>5, <2>6 DEF Scanning, Instrumented
<1>20. Numbers'
  BY <1>1, <1>15 DEF Numbers
<1>21. Cores'
  <2>1. pos' # 1 /\ core' > 0
    BY <1>1, <1>3
  <2>2. CoreAt(M', code', blk', pos', core') /\ Latest(M', code')
    BY <1>1, <1>15
  <2> QED
    BY <2>1, <2>2 DEF Cores
<1>22. WrittenOnce'
  BY <1>1 DEF WrittenOnce
<1> QED
  BY <1>16, <1>17, <1>18, <1>19, <1>20, <1>21, <1>22 DEF IInv

LEMMA ScanInstructionIInv == IInv /\ ScanInstruction => IInv'
  BY ScanOther, ScanFork

\* The second loop comes to block a; c is the core number read last.
AtStart(m, C, a, n, rd, c) ==
    /\ Sound(m, C, n, rd) /\ m \in Modules /\ a \in DOMAIN C /\ a \in DOMAIN m.blocks
    /\ C[a] = m.blocks[a].code
    /\ \A b \in DOMAIN C : \A k \in DOMAIN C[b] : C[b][k].op = "count" => b < a
    /\ ~IsEntry(m, a) => c \in 1..rd /\ CoreAt(m, C, a, 0, c)

\* It goes to the first instruction: the block is t now, and the code D.
StartPassed(m, C, a, n, rd, c, n1, rd1, cr, t, D) ==
    /\ Following(n, n1) /\ D = [C EXCEPT ![a] = t]
    /\ IsEntry(m, a) => /\ Following(rd, rd1) /\ cr = rd1
                        /\ t = InsertAt(<<Read(cr)>> \o C[a], CounterPos(<<Read(cr)>> \o C[a]), Count(n, cr))
    /\ ~IsEntry(m, a) => /\ rd1 = rd /\ cr = c
                         /\ t = InsertAt(C[a], CounterPos(C[a]), Count(n, cr))

\* How the block is widened where the core number is read first ...
LEMMA WiderEntry ==
    ASSUME NEW m, NEW C, NEW a, NEW n, NEW rd, NEW c, AtStart(m, C, a, n, rd, c),
           NEW n1, NEW rd1, NEW cr, NEW t, NEW D, StartPassed(m, C, a, n, rd, c, n1, rd1, cr, t, D),
           IsEntry(m, a)
    PROVE  /\ t \in Seq(Item) /\ Widened(t, C[a], 0, 2) /\ t[1] = Read(cr) /\ t[2] = Count(n, cr)
           /\ CoreAt(m, D, a, 2, cr)
<1>1. C[a] \in Seq(Item) /\ n \in Nat /\ rd \in Nat /\ a \in DOMAIN C /\ DOMAIN C \subseteq Nat
  BY DEF AtStart, Sound, Body
<1>2. cr = rd + 1 /\ cr \in Nat /\ rd1 = cr
  BY <1>1 DEF StartPassed, Following
<1>3. t = InsertAt(<<Read(cr)>> \o C[a], CounterPos(<<Read(cr)>> \o C[a]), Count(n, cr))
  BY DEF StartPassed
<1>4. PICK x, y : x = Read(cr) /\ y = Count(n, cr)
  OBVIOUS
<1>5. x \in Item /\ y \in Item
  BY <1>1, <1>2, <1>4 DEF Item
<1>6. CounterPos(<<x>> \o C[a]) = 2
  <2>1. (<<x>> \o C[a])[1] = <<x>>[1] /\ <<x>>[1] = x
    <3>1. Len(<<x>>) = 1 /\ <<x>>[1] = x /\ <<x>> \in Seq(Item)
      BY <1>5, Single
    <3>2. \A k \in 1..Len(<<x>>) : (<<x>> \o C[a])[k] = <<x>>[k]
      BY <1>1, <3>1, Joined
    <3> QED
      BY <3>1, <3>2
  <2>2. x.op = "getcpu"
    BY <1>4 DEF Read
  <2> QED
    BY <2>1, <2>2, Zenon DEF CounterPos
<1>7. t = InsertAt(<<x>> \o C[a], 2, y)
  BY <1>3, <1>4, <1>6
<1>8. t \in Seq(Item) /\ Widened(t, C[a], 0, 2) /\ t[1] = x /\ t[2] = y
  BY <1>1, <1>5, <1>7, Leading
<1>9. D = [C EXCEPT ![a] = t]
  BY DEF StartPassed
<1>10. DOMAIN D = DOMAIN C /\ D[a] = t /\ a \in DOMAIN D /\ DOMAIN D \subseteq Nat
  BY <1>1, <1>9
<1>11. \A b \in DOMAIN D : D[b] \in Seq(Item)
  BY <1>8, <1>9, <1>10 DEF AtStart, Sound, Body
<1>12. PICK k, q : k = 1 /\ q = 2
  OBVIOUS
<1>13. /\ k \in DOMAIN D[a] /\ q \in Nat /\ k < q /\ D[a][k].op = "getcpu" /\ D[a][k].n = cr
       /\ \A j \in DOMAIN D[a] : k < j /\ j < q => D[a][j].op # "fork"
  <2>1. DOMAIN t = 1..(Len(C[a]) + 2) /\ Len(C[a]) \in Nat
    BY <1>1, <1>8, Wide
  <2> QED
    BY <1>4, <1>8, <1>10, <1>12, <2>1 DEF Read
<1>14. CoreAt(m, D, a, q, cr)
  BY <1>10, <1>11, <1>13, CoreHere
<1> QED
  BY <1>4, <1>8, <1>12, <1>14

\* ... and where it is not: p instructions stay before the counter.
LEMMA WiderOther ==
    ASSUME NEW m, NEW C, NEW a, NEW n, NEW rd, NEW c, AtStart(m, C, a, n, rd, c),
           NEW n1, NEW rd1, NEW cr, NEW t, NEW D, StartPassed(m, C, a, n, rd, c, n1, rd1, cr, t, D),
           ~IsEntry(m, a)
    PROVE  \E p \in Nat :
              /\ t \in Seq(Item) /\ Widened(t, C[a], p, 1) /\ t[p + 1] = Count(n, cr) /\ p < Len(C[a])
              /\ \A k \in 1..p : C[a][k].op \in {"phi", "getcpu"}
              /\ \A k \in DOMAIN C[a] : C[a][k].op = "phi" => k <= p
              /\ CoreAt(m, D, a, p + 1, cr) /\ CoreAt(m, D, a, 2, cr)
<1>1. /\ Body(C[a]) /\ C[a] \in Seq(Item) /\ n \in Nat /\ rd \in Nat /\ a \in DOMAIN C
      /\ DOMAIN C \subseteq Nat /\ \A b \in DOMAIN C : C[b] \in Seq(Item)
  BY DEF AtStart, Sound, Body
<1>2. cr = c /\ cr \in 1..rd /\ CoreAt(m, C, a, 0, cr) /\ D = [C EXCEPT ![a] = t]
      /\ t = InsertAt(C[a], CounterPos(C[a]), Count(n, cr))
  BY DEF StartPassed, AtStart
<1>3. \A k \in DOMAIN C[a] : C[a][k].op = "phi" => \A l \in 1..k : C[a][l].op = "phi"
  BY Shape DEF AtStart
<1>4. PICK P : P = CounterPos(C[a])
  OBVIOUS
<1>5. /\ P \in 1..Len(C[a]) /\ \A l \in 1..(P - 1) : C[a][l].op \in {"phi", "getcpu"}
      /\ \A l \in DOMAIN C[a] : C[a][l].op = "phi" => l < P
  BY <1>1, <1>3, <1>4, CounterPlace
<1>6. Len(C[a]) \in Nat /\ DOMAIN C[a] = 1..Len(C[a])
  BY <1>1, Element
<1>7. PICK p \in Nat : P = p + 1 /\ p = P - 1 /\ p \in 0..Len(C[a]) /\ p < Len(C[a])
  <2>1. P - 1 \in Nat /\ P = (P - 1) + 1 /\ P - 1 \in 0..Len(C[a]) /\ P - 1 < Len(C[a])
    BY <1>5, <1>6
  <2> QED
    BY <2>1
<1>8. PICK y \in Item : y = Count(n, cr)
  <2>1. cr \in Nat
    BY <1>1, <1>2
  <2> QED
    BY <1>1, <2>1 DEF Item
<1>9. t = InsertAt(C[a], p + 1, y)
  BY <1>2, <1>4, <1>7, <1>8, Zenon
<1>10. t \in Seq(Item) /\ Widened(t, C[a], p, 1) /\ t[p + 1] = y
  <2>1. p \in 0..Len(C[a])
    BY <1>7
  <2>2. C[a] \in Seq(Item)
    BY <1>1
  <2> QED
    BY <1>9, <2>1, <2>2, Inserting
<1>11. /\ \A k \in 1..p : C[a][k].op \in {"phi", "getcpu"}
       /\ \A k \in DOMAIN C[a] : C[a][k].op = "phi" => k <= p
  BY <1>5, <1>6, <1>7
<1>12. DOMAIN D = DOMAIN C /\ D[a] = t /\ a \in DOMAIN D /\ DOMAIN D \subseteq Nat
       /\ \A b \in DOMAIN D : D[b] \in Seq(Item)
  BY <1>1, <1>2, <1>10
<1>13. DOMAIN t = 1..(Len(C[a]) + 1) /\ \A k \in 1..p : t[k] = C[a][k]
  BY <1>1, <1>10, Wide DEF Widened
<1>14. \A j \in DOMAIN t : j <= p => t[j].op # "fork"
  <2> SUFFICES ASSUME NEW j \in DOMAIN t, j <= p PROVE t[j].op # "fork"
    OBVIOUS
  <2>1. j \in 1..p
    BY <1>6, <1>7, <1>13
  <2>2. t[j] = C[a][j] /\ C[a][j].op \in {"phi", "getcpu"}
    BY <1>11, <1>13, <2>1
  <2> QED
    BY <2>2
<1>15. y.op = "count"
  BY <1>8 DEF Count
<1>16. t[1].op # "fork"
  <2>1. CASE p = 0
    <3>1. t[0 + 1] = y
      BY <1>10, <2>1
    <3>2. t[1] = y
      BY <3>1
    <3> QED
      BY <1>15, <3>2
  <2>2. CASE p # 0
    BY <1>6, <1>13, <1>14, <2>2
  <2> QED
    BY <2>1, <2>2
<1>17. PICK z, e, g : z = 0 /\ e = p + 1 /\ g = 2
  OBVIOUS
<1>18. /\ z \in Nat /\ e \in Nat /\ g \in Nat /\ z <= e /\ z <= g /\ z <= p
       /\ \A j \in DOMAIN D[a] : z <= j /\ j < e => D[a][j].op # "fork"
       /\ \A j \in DOMAIN D[a] : z <= j /\ j < g => D[a][j].op # "fork"
  <2>1. z \in Nat /\ e \in Nat /\ g \in Nat /\ z <= e /\ z <= g /\ z <= p
    BY <1>17
  <2>2. ASSUME NEW j \in DOMAIN t, j < e PROVE t[j].op # "fork"
    BY <1>6, <1>13, <1>14, <1>17, <2>2
  <2>3. ASSUME NEW j \in DOMAIN t, j < g PROVE t[j].op # "fork"
    <3>1. j = 1
      BY <1>6, <1>13, <1>17, <2>3
    <3> QED
      BY <1>16, <3>1
  <2> QED
    BY <1>12, <2>1, <2>2, <2>3
<1>19. CoreAt(m, D, a, z, cr)
  <2>1. CoreAt(m, C, a, z, cr)
    BY <1>2, <1>17
  <2>2. D = [C EXCEPT ![a] = t]
    BY <1>2
  <2>3. z \in Nat /\ z <= p
    BY <1>18
  <2>4. t \in Seq(Item) /\ Widened(t, C[a], p, 1)
    BY <1>10
  <2> QED
    BY <1>1, <2>1, <2>2, <2>3, <2>4, CoreKept
<1>20. CoreAt(m, D, a, e, cr) /\ CoreAt(m, D, a, g, cr)
  <2>1. CoreAt(m, D, a, e, cr)
    BY <1>12, <1>18, <1>19, CoreLater
  <2>2. CoreAt(m, D, a, g, cr)
    BY <1>12, <1>18, <1>19, CoreLater
  <2> QED
    BY <2>1, <2>2
<1>21. CoreAt(m, D, a, p + 1, cr) /\ CoreAt(m, D, a, 2, cr)
  BY <1>17, <1>20
<1>22. t[p + 1] = Count(n, cr)
  BY <1>8, <1>10
<1> QED
  BY <1>7, <1>10, <1>11, <1>21, <1>22

LEMMA Starting ==
    ASSUME NEW m, NEW C, NEW a, NEW n, NEW rd, NEW c, AtStart(m, C, a, n, rd, c),
           NEW n1, NEW rd1, NEW cr, NEW t, NEW D, StartPassed(m, C, a, n, rd, c, n1, rd1, cr, t, D)
    PROVE  /\ DOMAIN D = DOMAIN C /\ D[a] = t /\ \A b \in DOMAIN C : b # a => D[b] = C[b]
           /\ \A b \in DOMAIN D : Body(D[b]) /\ Positions(D[b], "write") = {}
           /\ Bound(D, n1, rd1) /\ Numbered(D, n1) /\ ReadOnce(D) /\ Latest(m, D)
           /\ CoreAt(m, D, a, 2, cr) /\ cr \in 1..rd1 /\ rd1 \in Nat /\ Scanned(t, 1) /\ 1 <= Len(t) + 1
           /\ Cardinality(Behind(t, "fork", 0)) = Cardinality(Positions(m.blocks[a].code, "fork"))
<1>1. /\ Sound(m, C, n, rd) /\ a \in DOMAIN C /\ C[a] = m.blocks[a].code /\ C[a] \in Seq(Item)
      /\ m \in Modules /\ a \in DOMAIN m.blocks /\ Body(C[a]) /\ n \in Nat /\ rd \in Nat
  BY DEF AtStart, Sound, Body
<1>2. n1 = n + 1 /\ D = [C EXCEPT ![a] = t] /\ rd1 \in Nat /\ cr \in 1..rd1
      /\ (IsEntry(m, a) => rd1 = rd + 1 /\ cr = rd + 1)
      /\ (~IsEntry(m, a) => rd1 = rd /\ cr \in 1..rd)
  BY <1>1 DEF StartPassed, AtStart, Following
<1>3. \E p \in Nat, w \in {1, 2} :
         /\ Inserted(m, C, a, p, n, rd, D, t, w, cr) /\ p < Len(C[a]) /\ rd1 = rd + w - 1
         /\ w = 2 => p = 0 /\ t[p + 1].op = "getcpu"
         /\ \A k \in DOMAIN C[a] : /\ k <= p => C[a][k].op \in {"phi", "getcpu"}
                                   /\ C[a][k].op = "phi" => k <= p
  <2>1. CASE IsEntry(m, a)
    <3>1. /\ t \in Seq(Item) /\ Widened(t, C[a], 0, 2) /\ t[1] = Read(cr) /\ t[2] = Count(n, cr)
          /\ CoreAt(m, D, a, 2, cr)
      BY <2>1, WiderEntry
    <3>2. PICK p, w : p = 0 /\ w = 2
      OBVIOUS
    <3>3. p + 1 = 1 /\ p + w = 2 /\ p \in Nat /\ w \in {1, 2} /\ rd1 = rd + w - 1
      BY <1>1, <1>2, <2>1, <3>2
    <3>4. Inserted(m, C, a, p, n, rd, D, t, w, cr)
      BY <1>2, <2>1, <3>1, <3>2, <3>3 DEF Inserted
    <3>5. w = 2 => p = 0 /\ t[p + 1].op = "getcpu"
      BY <3>1, <3>2, <3>3 DEF Read
    <3>6. p < Len(C[a])
      BY <1>1, <3>2 DEF Body
    <3>7. ASSUME NEW k \in DOMAIN C[a]
          PROVE  ~(k <= p) /\ C[a][k].op # "phi"
      <4>1. k \in Nat /\ k > 0
        BY <1>1, Element
      <4>2. C[a][k].op # "phi"
        BY <1>1, <2>1, Shape
      <4> QED
        BY <3>2, <4>1, <4>2
    <3> QED
      BY <3>3, <3>4, <3>5, <3>6, <3>7
  <2>2. CASE ~IsEntry(m, a)
    <3>1. PICK p \in Nat :
              /\ t \in Seq(Item) /\ Widened(t, C[a], p, 1) /\ t[p + 1] = Count(n, cr) /\ p < Len(C[a])
              /\ \A k \in 1..p : C[a][k].op \in {"phi", "getcpu"}
              /\ \A k \in DOMAIN C[a] : C[a][k].op = "phi" => k <= p
              /\ CoreAt(m, D, a, p + 1, cr)
      BY <2>2, WiderOther
    <3>2. PICK w : w = 1
      OBVIOUS
    <3>3. Inserted(m, C, a, p, n, rd, D, t, w, cr)
      BY <1>2, <2>2, <3>1, <3>2 DEF Inserted
    <3>4. \A k \in DOMAIN C[a] : k <= p => C[a][k].op \in {"phi", "getcpu"}
      <4>1. DOMAIN C[a] = 1..Len(C[a]) /\ Len(C[a]) \in Nat
        BY <1>1, Element
      <4> QED
        BY <3>1, <4>1
    <3>5. w \in {1, 2} /\ rd1 = rd + w - 1 /\ w # 2
      BY <1>1, <1>2, <2>2, <3>2
    <3> QED
      BY <3>1, <3>3, <3>4, <3>5
  <2> QED
    BY <2>1, <2>2
<1>4. PICK p \in Nat, w \in {1, 2} :
         /\ Inserted(m, C, a, p, n, rd, D, t, w, cr) /\ p < Len(C[a]) /\ rd1 = rd + w - 1
         /\ w = 2 => p = 0 /\ t[p + 1].op = "getcpu"
         /\ \A k \in DOMAIN C[a] : /\ k <= p => C[a][k].op \in {"phi", "getcpu"}
                                   /\ C[a][k].op = "phi" => k <= p
  BY <1>3
<1>5. Ready(m, C, a, p, n, rd)
  <2>1. ASSUME NEW b \in DOMAIN C, NEW k \in DOMAIN C[b], C[b][k].op = "count"
        PROVE  b < a \/ (b = a /\ k <= p)
    BY <2>1 DEF AtStart
  <2> QED
    BY <1>1, <1>4, <2>1 DEF Ready
<1>6. /\ DOMAIN D = DOMAIN C /\ D[a] = t /\ \A b \in DOMAIN C : b # a => D[b] = C[b]
      /\ \A b \in DOMAIN D : Body(D[b]) /\ Positions(D[b], "write") = {}
      /\ Bound(D, n + 1, rd + w - 1) /\ Numbered(D, n + 1) /\ ReadOnce(D) /\ Latest(m, D)
  BY <1>4, <1>5, Placing
<1>7. Bound(D, n1, rd1) /\ Numbered(D, n1)
  BY <1>2, <1>4, <1>6
<1>8. CoreAt(m, D, a, 2, cr)
  BY WiderEntry, WiderOther
<1>9. t \in Seq(Item) /\ Widened(t, C[a], p, w) /\ t[p + w].op = "count"
  BY <1>4 DEF Inserted, Count
<1>10. \A k \in DOMAIN C[a] : /\ C[a][k].op \in Ops
                              /\ C[a][k].op = "phi" => \A l \in 1..k : C[a][l].op = "phi"
  BY <1>1, Shape
<1>11. \A k \in DOMAIN C[a] : /\ C[a][k].op # "count"
                              /\ k <= p => C[a][k].op \in {"phi", "getcpu"}
                              /\ C[a][k].op = "phi" => \A l \in 1..k : C[a][l].op = "phi"
                              /\ C[a][k].op = "phi" => k <= p
  <2> SUFFICES ASSUME NEW k \in DOMAIN C[a] PROVE C[a][k].op # "count"
    BY <1>4, <1>10
  <2> QED
    BY <1>10 DEF Ops
<1>12. PICK s : s = C[a]
  OBVIOUS
<1>13. Scanned(t, 1)
  <2>1. s \in Seq(Item) /\ Widened(t, s, p, w)
    BY <1>1, <1>9, <1>12
  <2>2. \A k \in DOMAIN s : /\ s[k].op # "count"
                            /\ k <= p => s[k].op \in {"phi", "getcpu"}
                            /\ s[k].op = "phi" => \A l \in 1..k : s[l].op = "phi"
                            /\ s[k].op = "phi" => k <= p
    BY <1>11, <1>12, Zenon
  <2> QED
    BY <1>4, <1>9, <2>1, <2>2, ScanBegins
<1>14. /\ Cardinality(Behind(t, "fork", 0)) = Cardinality(Positions(s, "fork"))
       /\ Len(t) \in Nat
  <2>1. s \in Seq(Item) /\ Widened(t, s, p, w)
    BY <1>1, <1>9, <1>12
  <2>2. Cardinality(Positions(t, "fork")) = Cardinality(Positions(s, "fork"))
    BY <1>4, <1>9, <2>1, Amounts
  <2>3. Behind(t, "fork", 0) = Positions(t, "fork")
    BY <1>9, Amount
  <2>4. Len(t) \in Nat
    BY <1>9, Element
  <2> QED
    BY <2>2, <2>3, <2>4
<1>15. Cardinality(Behind(t, "fork", 0)) = Cardinality(Positions(m.blocks[a].code, "fork"))
  BY <1>1, <1>12, <1>14
<1>16. 1 <= Len(t) + 1
  BY <1>14
<1>17. ReadOnce(D) /\ Latest(m, D) /\ rd1 \in Nat /\ cr \in 1..rd1
  BY <1>2, <1>6
<1>18. /\ DOMAIN D = DOMAIN C /\ D[a] = t /\ \A b \in DOMAIN C : b # a => D[b] = C[b]
       /\ \A b \in DOMAIN D : Body(D[b]) /\ Positions(D[b], "write") = {}
  BY <1>6
<1> QED
  BY <1>7, <1>8, <1>13, <1>15, <1>16, <1>17, <1>18

LEMMA BeginBlockIInv == IInv /\ BeginBlock => IInv'
<1> SUFFICES ASSUME IInv, BeginBlock PROVE IInv'
  OBVIOUS
<1> DEFINE first == IsEntry(M, blk)
           r == InsertAt(Opened(first), CounterPos(Opened(first)), Count(i, core'))
<1>1. /\ phase = "instrument" /\ blk \in DOMAIN M.blocks /\ Instrumented(M, blk) /\ pos = 0
      /\ blk' = blk /\ pos' = 1 /\ phase' = phase
      /\ M' = M /\ hook' = hook /\ i' = i + 1 /\ num' = num
      /\ core' = IF first THEN reads + 1 ELSE core
      /\ reads' = IF first THEN reads + 1 ELSE reads
      /\ code' = [code EXCEPT ![blk] = r]
  BY DEF BeginBlock, InstrumentStart, AtBlock
<1>2. M \in Modules /\ Len(M.blocks) \in Nat /\ DOMAIN M.blocks = 1..Len(M.blocks)
  BY Shape DEF IInv, Types
<1>3. /\ DOMAIN code = DOMAIN M.blocks /\ blk \in Nat /\ i \in Nat /\ reads \in Nat
      /\ core \in 0..reads /\ hook \in BOOLEAN /\ num \in Nat /\ blk \in 1..(Len(M.blocks) + 1)
  BY <1>1, <1>2 DEF IInv, Types
<1>4. Instrumenting' /\ Instrumenting /\ Walking' /\ Walking
  BY <1>1 DEF Instrumenting, Walking
<1>5. Sound(M, code, i, reads)
  <2>1. /\ \A b \in DOMAIN code : Body(code[b]) /\ Positions(code[b], "write") = {}
        /\ Bound(code, i, reads)
    BY <1>1 DEF IInv, Bodies
  <2>2. Numbered(code, i) /\ ReadOnce(code) /\ Latest(M, code)
    BY <1>4 DEF IInv, Numbers, Cores
  <2>3. DOMAIN code \subseteq Nat
    BY <1>2, <1>3
  <2> QED
    BY <1>3, <2>1, <2>2, <2>3 DEF Sound
<1>6. code[blk] = M.blocks[blk].code
  BY <1>1, <1>3, <1>4 DEF IInv, Scanning, Begun
<1>7. \A b \in DOMAIN code : \A k \in DOMAIN code[b] : code[b][k].op = "count" => b < blk
  BY <1>1, CountersBegun
<1>8. ~first => core \in 1..reads /\ CoreAt(M, code, blk, 0, core)
  <2> SUFFICES ASSUME ~first PROVE core \in 1..reads /\ CoreAt(M, code, blk, 0, core)
    OBVIOUS
  <2>1. core > 0 /\ CoreAt(M, code, blk, IF pos = 1 THEN 2 ELSE pos, core)
    BY <1>1, <1>4 DEF IInv, Cores
  <2>2. (IF pos = 1 THEN 2 ELSE pos) = 0
    BY <1>1
  <2> QED
    BY <1>3, <2>1, <2>2
<1>9. AtStart(M, code, blk, i, reads, core)
  BY <1>1, <1>2, <1>3, <1>5, <1>6, <1>7, <1>8 DEF AtStart
<1>10. PICK C, D, t, m, a, n, rd, c : C = code /\ D = code' /\ t = r /\ m = M /\ a = blk /\ n = i /\ rd = reads /\ c = core
  OBVIOUS
<1>11. PICK n1, rd1, cr : n1 = i' /\ rd1 = reads' /\ cr = core'
  OBVIOUS
<1>12. AtStart(m, C, a, n, rd, c)
  BY <1>9, <1>10
<1>13. StartPassed(m, C, a, n, rd, c, n1, rd1, cr, t, D)
  <2>1. Following(n, n1) /\ D = [C EXCEPT ![a] = t]
    BY <1>1, <1>10, <1>11 DEF Following
  <2>2. first => Following(rd, rd1) /\ cr = rd1
    BY <1>1, <1>10, <1>11 DEF Following
  <2>3. first => t = InsertAt(<<Read(cr)>> \o C[a], CounterPos(<<Read(cr)>> \o C[a]), Count(n, cr))
    <3> SUFFICES ASSUME first PROVE t = InsertAt(<<Read(cr)>> \o C[a], CounterPos(<<Read(cr)>> \o C[a]), Count(n, cr))
      OBVIOUS
    <3>1. Opened(first) = <<Read(cr)>> \o C[a]
      BY <1>1, <1>10, <1>11 DEF Opened
    <3> QED
      BY <1>10, <1>11, <3>1
  <2>4. ~first => rd1 = rd /\ cr = c
    BY <1>1, <1>10, <1>11
  <2>5. ~first => t = InsertAt(C[a], CounterPos(C[a]), Count(n, cr))
    <3> SUFFICES ASSUME ~first PROVE t = InsertAt(C[a], CounterPos(C[a]), Count(n, cr))
      OBVIOUS
    <3>1. Opened(first) = C[a]
      BY <1>10 DEF Opened
    <3> QED
      BY <1>10, <1>11, <3>1
  <2>6. first <=> IsEntry(m, a)
    BY <1>10
  <2> HIDE DEF first, r
  <2> QED
    BY <2>1, <2>2, <2>3, <2>4, <2>5, <2>6 DEF StartPassed
<1> HIDE DEF r
<1>14. /\ DOMAIN D = DOMAIN C /\ D[a] = t /\ \A b \in DOMAIN C : b # a => D[b] = C[b]
       /\ \A b \in DOMAIN D : Body(D[b]) /\ Positions(D[b], "write") = {}
       /\ Bound(D, n1, rd1) /\ Numbered(D, n1) /\ ReadOnce(D) /\ Latest(m, D)
       /\ CoreAt(m, D, a, 2, cr) /\ cr \in 1..rd1 /\ rd1 \in Nat /\ Scanned(t, 1) /\ 1 <= Len(t) + 1
       /\ Cardinality(Behind(t, "fork", 0)) = Cardinality(Positions(m.blocks[a].code, "fork"))
  BY <1>12, <1>13, Starting
<1>15. /\ DOMAIN code' = DOMAIN code /\ code'[blk] = t /\ \A b \in DOMAIN code : b # blk => code'[b] = code[b]
       /\ \A b \in DOMAIN code' : Body(code'[b]) /\ Positions(code'[b], "write") = {}
       /\ Bound(code', i', reads') /\ Numbered(code', i') /\ ReadOnce(code') /\ Latest(M, code')
       /\ CoreAt(M, code', blk, 2, core') /\ core' \in 1..reads' /\ reads' \in Nat
       /\ Scanned(t, 1) /\ 1 <= Len(t) + 1
       /\ Cardinality(Behind(t, "fork", 0)) = Cardinality(Positions(M.blocks[blk].code, "fork"))
  BY <1>10, <1>11, <1>14, Zenon
<1>16. Types'
  BY <1>1, <1>2, <1>3, <1>15 DEF IInv, Types
<1>17. Bodies'
  BY <1>1, <1>15 DEF Bodies
<1>18. Counting'
  BY <1>1, <1>4 DEF IInv, Counting
<1>19. Scanning'
  <2>1. ASSUME NEW b \in DOMAIN code, b # blk PROVE Begun(b)' = Begun(b) /\ UpTo(b)' = UpTo(b)
    BY <1>1, <1>4, <1>15, <2>1 DEF Begun, UpTo
  <2>2. \A b \in DOMAIN code : IF Begun(b) THEN Scanned(code[b], UpTo(b)) ELSE code[b] = M.blocks[b].code
    BY <1>4 DEF IInv, Scanning
  <2>4. ASSUME NEW b \in DOMAIN code
        PROVE  IF Begun(b)' THEN Scanned(code'[b], UpTo(b)') ELSE code'[b] = M'.blocks[b].code
    <3>1. CASE b = blk
      <4>1. Begun(b)'
        BY <1>1, <1>4, <3>1 DEF Begun, Instrumented
      <4>2. code'[b] = t /\ UpTo(b)' = 1
        BY <1>1, <1>15, <3>1 DEF UpTo
      <4> QED
        BY <1>15, <4>1, <4>2
    <3>2. CASE b # blk
      <4>1. code'[b] = code[b]
        BY <1>15, <3>2
      <4> QED
        BY <1>1, <2>1, <2>2, <3>2, <4>1
    <3> QED
      BY <3>1, <3>2
  <2>5. i' + Cardinality(Behind(code'[blk], "fork", pos' - 1)) = NumberOfPlaces(M, blk + 1)
    <3>1. i = NumberOfPlaces(M, blk)
      BY <1>1, <1>4 DEF IInv, Scanning
    <3>2. NumberOfPlaces(M, blk + 1) = NumberOfPlaces(M, blk) + (Cardinality(Positions(M.blocks[blk].code, "fork")) + 1)
      BY <1>1, <1>2, Numbering
    <3>3. Cardinality(Positions(M.blocks[blk].code, "fork")) \in Nat
      BY <1>1, <1>2, PlacesOfBlock
    <3>4. pos' - 1 = 0
      BY <1>1
    <3> QED
      BY <1>1, <1>3, <1>15, <3>1, <3>2, <3>3, <3>4
  <2>6. pos' <= Len(code'[blk]) + 1 /\ pos' # 0
    BY <1>1, <1>15
  <2> QED
    BY <1>1, <1>15, <2>4, <2>5, <2>6 DEF Scanning, Instrumented
<1>20. Numbers'
  BY <1>15 DEF Numbers
<1>21. Cores'
  <2>1. core' > 0
    BY <1>15
  <2>2. CoreAt(M', code', blk', IF pos' = 1 THEN 2 ELSE pos', core') /\ Latest(M', code')
    BY <1>1, <1>15
  <2> QED
    BY <2>1, <2>2 DEF Cores
<1>22. WrittenOnce'
  BY <1>1 DEF WrittenOnce
<1> QED
  BY <1>16, <1>17, <1>18, <1>19, <1>20, <1>21, <1>22 DEF IInv

\* The call of the writer was inserted before the last instruction of block a.
CallPlaced(C, a, n, rd, r, D) ==
    /\ \A b \in DOMAIN C : Body(C[b]) /\ Positions(C[b], "write") = {}
    /\ a \in DOMAIN C /\ Bound(C, n, rd)
    /\ r = InsertAt(C[a], Len(C[a]), Write) /\ D = [C EXCEPT ![a] = r]

LEMMA Writing ==
    ASSUME NEW C, NEW a, NEW n, NEW rd, NEW r, NEW D, CallPlaced(C, a, n, rd, r, D)
    PROVE  /\ DOMAIN D = DOMAIN C /\ \A b \in DOMAIN D : Body(D[b])
           /\ Bound(D, n, rd)
           /\ UNION {{b} \X Positions(D[b], "write") : b \in DOMAIN D} = {<<a, Len(C[a])>>}
           /\ \A b \in DOMAIN D : \A k \in Positions(D[b], "count") : b = a => k < Len(C[a])
<1>1. /\ Body(C[a]) /\ C[a] \in Seq(Item) /\ C[a] # <<>> /\ C[a][Len(C[a])].op \in {"br", "ret"}
      /\ a \in DOMAIN C /\ D = [C EXCEPT ![a] = r] /\ r = InsertAt(C[a], Len(C[a]), Write)
      /\ Bound(C, n, rd)
  BY DEF CallPlaced, Body
<1>2. PICK L \in Nat : L = Len(C[a]) /\ L > 0
  BY <1>1
<1>3. PICK p, y : p = L - 1 /\ y = Write
  OBVIOUS
<1>4. p \in 0..Len(C[a]) /\ p + 1 = L /\ p \in Nat /\ p < Len(C[a]) /\ y \in Item
  BY <1>2, <1>3 DEF Item
<1>5. r = InsertAt(C[a], p + 1, y)
  BY <1>1, <1>2, <1>3, <1>4, Zenon
<1>6. r \in Seq(Item) /\ Widened(r, C[a], p, 1) /\ r[p + 1] = y
  <2>1. C[a] \in Seq(Item) /\ y \in Item /\ p \in 0..Len(C[a])
    BY <1>1, <1>4
  <2> QED
    BY <1>5, <2>1, Inserting
<1>7. Body(r)
  <2>1. PICK w : w = 1
    OBVIOUS
  <2>2. Widened(r, C[a], p, w)
    BY <1>6, <2>1
  <2> QED
    BY <1>1, <1>4, <1>6, <2>2, BodyWider
<1>8. DOMAIN D = DOMAIN C /\ D[a] = r /\ \A b \in DOMAIN C : b # a => D[b] = C[b]
  BY <1>1
<1>9. \A b \in DOMAIN D : Body(D[b])
  BY <1>7, <1>8 DEF CallPlaced
<1>10. /\ DOMAIN C[a] = 1..L /\ DOMAIN r = 1..(L + 1) /\ r[L] = y /\ r[L + 1] = C[a][L]
       /\ \A k \in 1..(L - 1) : r[k] = C[a][k]
  <2>1. /\ DOMAIN C[a] = 1..Len(C[a]) /\ DOMAIN r = 1..(Len(C[a]) + 1)
    BY <1>1, <1>6, Wide
  <2>2. \A k \in 1..p : r[k] = C[a][k]
    BY <1>6 DEF Widened
  <2>3. \A k \in (p + 1)..Len(C[a]) : r[k + 1] = C[a][k]
    BY <1>6 DEF Widened
  <2>4. r[L + 1] = C[a][L]
    BY <1>2, <1>4, <2>3
  <2> QED
    BY <1>2, <1>3, <1>4, <1>6, <2>1, <2>2, <2>4
<1>11. y.op = "write" /\ r[L + 1].op \in {"br", "ret"}
  BY <1>1, <1>2, <1>3, <1>10 DEF Write
<1>12. \A k \in DOMAIN r : k = L \/ \E l \in DOMAIN C[a] : r[k] = C[a][l]
  <2> SUFFICES ASSUME NEW k \in DOMAIN r, k # L PROVE \E l \in DOMAIN C[a] : r[k] = C[a][l]
    OBVIOUS
  <2>1. CASE k = L + 1
    BY <1>2, <1>10, <2>1
  <2>2. CASE k # L + 1
    <3>1. k \in 1..(L - 1) /\ k \in DOMAIN C[a]
      BY <1>10, <2>2
    <3> QED
      BY <1>10, <3>1
  <2> QED
    BY <2>1, <2>2
<1>13. Bound(D, n, rd)
  <2>1. ASSUME NEW b \in DOMAIN C, NEW k \in DOMAIN D[b]
        PROVE  D[b][k].op = "write" \/ \E l \in DOMAIN C[b] : D[b][k] = C[b][l]
    BY <1>8, <1>10, <1>11, <1>12
  <2> QED
    BY <1>1, <1>8, <2>1 DEF Bound
<1>14. \A b \in DOMAIN C : b # a => Positions(D[b], "write") = {}
  BY <1>8 DEF CallPlaced
<1>15. Positions(r, "write") = {L}
  <2>1. Positions(C[a], "write") = {}
    BY <1>1 DEF CallPlaced
  <2>2. ASSUME NEW k \in DOMAIN r, k # L PROVE r[k].op # "write"
    BY <1>12, <2>1, <2>2 DEF Positions
  <2>3. L \in DOMAIN r /\ r[L].op = "write"
    BY <1>2, <1>10, <1>11
  <2> QED
    BY <2>2, <2>3 DEF Positions
<1>16. UNION {{b} \X Positions(D[b], "write") : b \in DOMAIN D} = {<<a, Len(C[a])>>}
  <2>1. ASSUME NEW b \in DOMAIN D
        PROVE  {b} \X Positions(D[b], "write") = IF b = a THEN {<<a, L>>} ELSE {}
    <3>1. CASE b = a
      BY <1>8, <1>15, <3>1
    <3>2. CASE b # a
      BY <1>8, <1>14, <3>2
    <3> QED
      BY <3>1, <3>2
  <2> QED
    BY <1>1, <1>2, <1>8, <2>1
<1>17. \A b \in DOMAIN D : \A k \in Positions(D[b], "count") : b = a => k < Len(C[a])
  <2> SUFFICES ASSUME NEW k \in Positions(r, "count") PROVE k < L
    BY <1>2, <1>8
  <2>1. k \in 1..(L + 1) /\ r[k].op = "count"
    BY <1>10 DEF Positions
  <2> QED
    BY <1>10, <1>11, <2>1
<1> QED
  BY <1>8, <1>9, <1>13, <1>16, <1>17

LEMMA InsertWriteIInv == IInv /\ InsertWrite => IInv'
<1> SUFFICES ASSUME IInv, InsertWrite PROVE IInv'
  OBVIOUS
<1> DEFINE r == InsertAt(code[FirstReturn], Len(code[FirstReturn]), Write)
<1>1. /\ phase = "hook" /\ M' = M /\ blk' = blk /\ pos' = pos /\ hook' = hook /\ num' = num
      /\ i' = i /\ core' = core /\ reads' = reads
      /\ \/ Returns(M) = {} /\ phase' = "done" /\ code' = code
         \/ phase' = "crashed" /\ code' = code
         \/ Returns(M) # {} /\ phase' = "done" /\ code' = [code EXCEPT ![FirstReturn] = r]
  BY DEF InsertWrite, CallWriter
<1>2. phase' \in {"done", "crashed"}
  BY <1>1
<1>3. ~Instrumenting' /\ ~Walking'
  BY <1>2 DEF Instrumenting, Walking
<1>4. Counting'
  BY <1>1, <1>2, <1>3 DEF IInv, Counting
<1>5. Scanning' /\ Numbers' /\ Cores'
  BY <1>3 DEF Scanning, Numbers, Cores
<1>6. /\ \A b \in DOMAIN code : Body(code[b]) /\ Positions(code[b], "write") = {}
      /\ Bound(code, i, reads)
  BY <1>1 DEF IInv, Bodies
<1>7. CASE code' = code /\ (phase' = "crashed" \/ Returns(M) = {})
  <2>1. Types'
    BY <1>1, <1>2, <1>7 DEF IInv, Types
  <2>2. Bodies'
    BY <1>1, <1>6, <1>7 DEF Bodies
  <2>3. WrittenOnce'
    BY <1>1, <1>7 DEF WrittenOnce
  <2> QED
    BY <1>4, <1>5, <2>1, <2>2, <2>3 DEF IInv
<1>8. CASE Returns(M) # {} /\ phase' = "done" /\ code' = [code EXCEPT ![FirstReturn] = r]
  <2>1. M \in Modules /\ DOMAIN M.blocks = 1..Len(M.blocks) /\ Len(M.blocks) \in Nat
        /\ DOMAIN code = DOMAIN M.blocks
    BY Shape DEF IInv, Types
  <2>2. FirstReturn \in Returns(M)
    <3>1. Returns(M) \in SUBSET Nat
      BY <2>1 DEF Returns
    <3>2. \E x \in Returns(M) : \A y \in Returns(M) : x <= y
      BY <1>8, <3>1, Least
    <3> QED
      BY <3>2 DEF FirstReturn, Min
  <2>3. FirstReturn \in DOMAIN code
    BY <2>1, <2>2 DEF Returns
  <2>4. PICK C, D, a, n, rd, t : C = code /\ D = code' /\ a = FirstReturn /\ n = i /\ rd = reads /\ t = r
    OBVIOUS
  <2>5. CallPlaced(C, a, n, rd, t, D)
    BY <1>6, <1>8, <2>3, <2>4 DEF CallPlaced
  <2>6. /\ DOMAIN D = DOMAIN C /\ \A b \in DOMAIN D : Body(D[b])
        /\ Bound(D, n, rd)
        /\ UNION {{b} \X Positions(D[b], "write") : b \in DOMAIN D} = {<<a, Len(C[a])>>}
        /\ \A b \in DOMAIN D : \A k \in Positions(D[b], "count") : b = a => k < Len(C[a])
    BY <2>5, Writing
  <2>7. Types'
    BY <1>1, <1>2, <2>4, <2>6 DEF IInv, Types
  <2>8. Bodies'
    BY <1>1, <1>8, <2>4, <2>6 DEF Bodies
  <2>9. WrittenOnce'
    <3>1. PICK L : L = Len(C[a])
      OBVIOUS
    <3>2. Cardinality({<<a, L>>}) = 1
      BY FS_Singleton
    <3>3. a \in Returns(M')
      BY <1>1, <2>2, <2>4
    <3>4. UNION {{b} \X Positions(code'[b], "write") : b \in DOMAIN code'} = {<<a, L>>}
      BY <2>4, <2>6, <3>1
    <3>5. \A x \in Counters' : x[1] = a => x[2] < L
      <4> SUFFICES ASSUME NEW b \in DOMAIN D, NEW k \in Positions(D[b], "count"), b = a PROVE k < L
        BY <2>4 DEF Counters
      <4> QED
        BY <2>6, <3>1
    <3>6. \A w \in {<<a, L>>} : w[1] \in Returns(M') /\ \A x \in Counters' : x[1] = w[1] => x[2] < w[2]
      BY <3>3, <3>5
    <3> QED
      BY <3>2, <3>4, <3>6 DEF WrittenOnce
  <2> QED
    BY <1>4, <1>5, <2>7, <2>8, <2>9 DEF IInv
<1> QED
  BY <1>1, <1>7, <1>8

LEMMA StutterIInv == IInv /\ UNCHANGED vars => IInv'
<1> SUFFICES ASSUME IInv, UNCHANGED vars PROVE IInv'
  OBVIOUS
<1>1. /\ M' = M /\ code' = code /\ phase' = phase /\ blk' = blk /\ pos' = pos /\ hook' = hook
      /\ num' = num /\ i' = i /\ core' = core /\ reads' = reads
  BY DEF vars
<1>2. /\ Instrumenting' = Instrumenting /\ Walking' = Walking
      /\ \A b : Begun(b)' = Begun(b) /\ UpTo(b)' = UpTo(b)
  BY <1>1 DEF Instrumenting, Walking, Begun, UpTo
<1>3. Types' /\ Bodies' /\ WrittenOnce'
  BY <1>1, SMTT(20) DEF IInv, Types, Bodies, WrittenOnce, Counters
<1>4. Counting' /\ Numbers' /\ Cores'
  BY <1>1, <1>2 DEF IInv, Counting, Numbers, Cores
<1>5. Scanning'
  BY <1>1, <1>2 DEF IInv, Scanning
<1> QED
  BY <1>3, <1>4, <1>5 DEF IInv

\* The invariant that all theorems below follow from: the numbers given so far
\* are exact, what the loop has passed is counted with the latest core number,
\* and what it has not passed is as it was.
THEOREM Invariant == Spec => []IInv
<1>1. IInv /\ [Next]_vars => IInv'
  <2> SUFFICES ASSUME IInv, [Next]_vars PROVE IInv'
    OBVIOUS
  <2>1. CASE FindFunctions
    BY <2>1, FindFunctionsIInv
  <2>2. CASE SkipBlock
    BY <2>2, SkipBlockIInv
  <2>3. CASE CountBlock
    BY <2>3, CountBlockIInv
  <2>4. CASE EndCount
    BY <2>4, EndCountIInv
  <2>5. CASE BeginBlock
    BY <2>5, BeginBlockIInv
  <2>6. CASE ScanInstruction
    BY <2>6, ScanInstructionIInv
  <2>7. CASE EndBlock
    BY <2>7, EndBlockIInv
  <2>8. CASE EndInstrument
    BY <2>8, EndInstrumentIInv
  <2>9. CASE InsertWrite
    BY <2>9, InsertWriteIInv
  <2>10. CASE UNCHANGED vars
    BY <2>10, StutterIInv
  <2> QED
    BY <2>1, <2>2, <2>3, <2>4, <2>5, <2>6, <2>7, <2>8, <2>9, <2>10 DEF Next
<1> QED
  BY <1>1, InitIInv, PTL DEF Spec

-----------------------------------------------------------------------------
(* What the invariant says of the states the properties are about.         *)

\* Counters that have every number below n once are n.
LEMMA CountersExact ==
    ASSUME NEW C, \A b \in DOMAIN C : Body(C[b]), NEW n \in Nat, NEW rd, Bound(C, n, rd), Numbered(C, n),
           NEW T, T = UNION {{b} \X Positions(C[b], "count") : b \in DOMAIN C}
    PROVE  {C[x[1]][x[2]].n : x \in T} = 0..(n - 1) /\ Cardinality(T) = n
<1> DEFINE S == 0..(n - 1)
           N(x) == C[x[1]][x[2]].n
           f == [k \in S |-> CHOOSE x \in T : N(x) = k]
<1>1. ASSUME NEW x \in T
      PROVE  /\ x[1] \in DOMAIN C /\ x[2] \in DOMAIN C[x[1]] /\ x = <<x[1], x[2]>>
             /\ C[x[1]][x[2]].op = "count" /\ N(x) \in S
  <2>1. PICK b \in DOMAIN C : x \in {b} \X Positions(C[b], "count")
    OBVIOUS
  <2>2. x = <<x[1], x[2]>> /\ x[1] = b /\ x[2] \in DOMAIN C[b] /\ C[b][x[2]].op = "count"
    BY <2>1 DEF Positions
  <2>3. C[b][x[2]] \in Item
    <3>1. C[b] \in Seq(Item)
      BY DEF Body
    <3> QED
      BY <2>2, <3>1, Element
  <2>4. C[b][x[2]].n \in Nat
    BY <2>2, <2>3, Items
  <2>5. C[b][x[2]].n < n
    BY <2>2 DEF Bound
  <2>6. N(x) \in S
    BY <2>2, <2>4, <2>5
  <2> QED
    BY <2>2, <2>6
<1>2. ASSUME NEW k \in S PROVE \E x \in T : N(x) = k
  <2>1. PICK b \in DOMAIN C : \E j \in DOMAIN C[b] : C[b][j].op = "count" /\ C[b][j].n = k
    BY Zenon DEF Numbered
  <2>2. PICK j \in DOMAIN C[b] : C[b][j].op = "count" /\ C[b][j].n = k
    BY <2>1
  <2>3. <<b, j>> \in {b} \X Positions(C[b], "count")
    BY <2>2 DEF Positions
  <2>4. <<b, j>> \in T
    BY <2>3
  <2> QED
    BY <2>2, <2>4
<1>3. ASSUME NEW x \in T, NEW y \in T, N(x) = N(y) PROVE x = y
  <2>1. x[1] = y[1] /\ x[2] = y[2]
    BY <1>1, <1>3 DEF Numbered
  <2> QED
    BY <1>1, <2>1
<1> HIDE DEF N
<1>4. {N(x) : x \in T} = S
  BY <1>1, <1>2
<1>5. \A k \in S : f[k] \in T /\ N(f[k]) = k
  BY <1>2
<1> HIDE DEF S
<1>6. f \in [S -> T]
  BY <1>5
<1> HIDE DEF f
<1>7. \A x \in T : \E k \in S : f[k] = x
  BY <1>1, <1>3, <1>5
<1>8. f \in Bijection(S, T)
  BY <1>5, <1>6, <1>7 DEF Bijection, Injection, Surjection, IsInjective
<1>9. ExistsBijection(S, T)
  BY <1>8 DEF ExistsBijection
<1>10. IsFiniteSet(S) /\ Cardinality(S) = n
  BY FS_Interval DEF S
<1>11. Cardinality(T) = n
  BY <1>9, <1>10, FS_Bijection
<1> QED
  BY <1>4, <1>11 DEF N, S

\* Every variable has its type: in particular an instruction of the program is
\* never changed into another, and a counter names a reading that exists.
THEOREM TypeCorrect == Spec => []TypeOK
<1>1. IInv => TypeOK
  <2> SUFFICES ASSUME IInv PROVE TypeOK
    OBVIOUS
  <2>1. Types /\ \A b \in DOMAIN code : Body(code[b])
    BY DEF IInv, Bodies
  <2>2. ASSUME NEW b \in DOMAIN code, NEW k \in DOMAIN code[b]
        PROVE  code[b][k] \in {Instr(op) : op \in Ops} \cup {Write} \cup {Read(n) : n \in 1..reads}
                              \cup {Count(n, r) : n \in 0..(i - 1), r \in 1..reads}
    <3>1. PICK x : x = code[b][k]
      OBVIOUS
    <3>2. x \in Item
      <4>1. code[b] \in Seq(Item)
        BY <2>1 DEF Body
      <4> QED
        BY <3>1, <4>1, Element
    <3>3. /\ x.op = "count" => x.n < i /\ x.core \in 1..reads
          /\ x.op = "getcpu" => x.n <= reads
      BY <3>1 DEF IInv, Bodies, Bound
    <3>4. i \in Nat /\ reads \in Nat
      BY <2>1 DEF Types
    <3>5. CASE x.op = "count"
      BY <3>1, <3>2, <3>3, <3>4, <3>5, Items
    <3>6. CASE x.op = "getcpu"
      <4>1. x.n \in Nat /\ x = Read(x.n) /\ x.n <= reads
        BY <3>2, <3>3, <3>6, Items
      <4>2. CASE x.n = 0
        BY <3>1, <4>1, <4>2 DEF Read, Instr, Ops
      <4>3. CASE x.n # 0
        BY <3>1, <3>4, <4>1, <4>3
      <4> QED
        BY <4>2, <4>3
    <3>7. CASE x.op = "write"
      BY <3>1, <3>2, <3>7, Items
    <3>8. CASE x.op \in Ops \ {"getcpu"}
      BY <3>1, <3>2, <3>8, Items
    <3> QED
      BY <3>2, <3>5, <3>6, <3>7, <3>8, Items
  <2> QED
    BY <2>1, <2>2 DEF TypeOK, Types
<1> QED
  BY <1>1, Invariant, PTL

\* The two loops of runOnModule agree for every module: the array has a place
\* for each counter that is inserted, and no place is used twice.
THEOREM NumbersAreExact == Spec => []NumbersExact
<1>1. IInv => NumbersExact
  <2> SUFFICES ASSUME IInv, phase = "hook"
               PROVE  /\ i = num /\ {At(x).n : x \in Counters} = 0..(num - 1)
                      /\ Cardinality(Counters) = num
    BY DEF NumbersExact
  <2>1. Instrumenting
    BY DEF Instrumenting
  <2>2. blk = Len(M.blocks) + 1 /\ pos = 0 /\ num = NumberOfPlaces(M, Len(M.blocks) + 1)
    BY <2>1 DEF IInv, Counting
  <2>3. i = num
    BY <2>1, <2>2 DEF IInv, Scanning
  <2>4. /\ \A b \in DOMAIN code : Body(code[b])
        /\ Bound(code, i, reads) /\ Numbered(code, i) /\ i \in Nat
    BY <2>1 DEF IInv, Bodies, Numbers, Types
  <2>5. PICK C, n, rd, T : C = code /\ n = i /\ rd = reads /\ T = Counters
    OBVIOUS
  <2>6. {C[x[1]][x[2]].n : x \in T} = 0..(n - 1) /\ Cardinality(T) = n
    <3>1. T = UNION {{b} \X Positions(C[b], "count") : b \in DOMAIN C}
      BY <2>5 DEF Counters
    <3>2. n \in Nat /\ Bound(C, n, rd) /\ Numbered(C, n) /\ \A b \in DOMAIN C : Body(C[b])
      BY <2>4, <2>5
    <3> QED
      BY <3>1, <3>2, CountersExact
  <2> QED
    BY <2>3, <2>5, <2>6 DEF At
<1> QED
  BY <1>1, Invariant, PTL

\* For every module a block is counted before anything else happens in it, and
\* a fork call is followed by a reading of the core number and a counter.
THEOREM EveryPlaceIsCounted == Spec => []EveryPlaceCounted
<1>1. IInv => EveryPlaceCounted
  <2> SUFFICES ASSUME IInv, phase = "hook", NEW b \in DOMAIN code, Instrumented(M, b)
               PROVE  LET c == code[b] forks == Positions(c, "fork") counts == Positions(c, "count") IN
                      /\ Cardinality(counts) = Cardinality(forks) + 1
                      /\ \A k \in 1..(Min(counts) - 1) : c[k].op \in {"phi", "getcpu"}
                      /\ \A k \in Positions(c, "phi") : \A l \in 1..k : c[l].op = "phi"
                      /\ \A k \in forks : /\ c[k + 1].op = "getcpu" /\ c[k + 2].op = "count"
                                           /\ c[k + 2].core = c[k + 1].n
    BY DEF EveryPlaceCounted
  <2> DEFINE c == code[b]
             L == Len(c)
             counts == Positions(c, "count")
  <2>1. c \in Seq(Item)
    BY DEF IInv, Bodies, Body
  <2>2. L \in Nat /\ DOMAIN c = 1..L
    BY <2>1, Element
  <2>3. Scanned(c, L + 1)
    <3>1. Instrumenting /\ Walking
      BY DEF Instrumenting, Walking
    <3>2. blk = Len(M.blocks) + 1 /\ Len(M.blocks) \in Nat /\ b \in 1..Len(M.blocks)
      BY <3>1, Shape DEF IInv, Counting, Types
    <3>3. Begun(b) /\ UpTo(b) = L + 1
      BY <3>1, <3>2 DEF Begun, UpTo
    <3> QED
      BY <3>1, <3>3 DEF IInv, Scanning
  <2> HIDE DEF c
  <2>4. Cardinality(counts) = Cardinality(Positions(c, "fork")) + 1
    <3>1. Cardinality(counts) + Cardinality(Behind(c, "fork", (L + 1) - 1)) = Cardinality(Positions(c, "fork")) + 1
      BY <2>3, Zenon DEF Scanned
    <3>2. (L + 1) - 1 = L /\ Cardinality(Behind(c, "fork", L)) = 0
      BY <2>1, <2>2, Amount
    <3>3. Cardinality(counts) \in Nat
      BY <2>1, Amount
    <3> QED
      BY <3>1, <3>2, <3>3
  <2>5. ASSUME NEW k \in 1..(Min(counts) - 1) PROVE c[k].op \in {"phi", "getcpu"}
    <3>1. PICK j \in DOMAIN c : c[j].op = "count" /\ \A l \in 1..(j - 1) : c[l].op \in {"phi", "getcpu"}
      BY <2>3, Zenon DEF Scanned
    <3>2. counts \in SUBSET Nat /\ j \in counts
      BY <2>2, <3>1 DEF Positions
    <3>3. \E x \in counts : \A y \in counts : x <= y
      BY <3>2, Least
    <3>4. Min(counts) \in counts /\ Min(counts) <= j
      BY <3>2, <3>3 DEF Min
    <3>5. k \in 1..(j - 1)
      BY <3>2, <3>4
    <3> QED
      BY <3>1, <3>5
  <2>6. \A k \in Positions(c, "phi") : \A l \in 1..k : c[l].op = "phi"
    BY <2>3, Zenon DEF Scanned, Positions
  <2>7. ASSUME NEW k \in Positions(c, "fork")
        PROVE  c[k + 1].op = "getcpu" /\ c[k + 2].op = "count" /\ c[k + 2].core = c[k + 1].n
    <3>1. k \in DOMAIN c /\ c[k].op = "fork" /\ k < L + 1
      BY <2>2 DEF Positions
    <3> QED
      BY <2>3, <3>1, Zenon DEF Scanned
  <2> QED
    BY <2>4, <2>5, <2>6, <2>7 DEF c
<1> QED
  BY <1>1, Invariant, PTL

\* For every module a counter counts with the core number that was read last
\* before it, in its own function and behind every fork call before it.
THEOREM CoreIsRead == Spec => []CoreIsLatest
<1>1. IInv => CoreIsLatest
  <2> DEFINE Reads == UNION {{b} \X Positions(code[b], "getcpu") : b \in DOMAIN code}
             Between(r, x, b, k) == /\ r[1] < b \/ (r[1] = b /\ r[2] < k)
                                    /\ b < x[1] \/ (b = x[1] /\ k < x[2])
  <2> SUFFICES ASSUME IInv, phase = "hook", NEW x \in Counters
               PROVE  LET r == ReadAt(At(x).core)
                      IN  /\ M.blocks[r[1]].fn = M.blocks[x[1]].fn
                          /\ r[1] < x[1] \/ (r[1] = x[1] /\ r[2] < x[2])
                          /\ \A b \in DOMAIN code : \A k \in Positions(code[b], "fork") : ~Between(r, x, b, k)
    BY DEF CoreIsLatest
  <2>1. Latest(M, code) /\ ReadOnce(code)
    BY DEF IInv, Cores, Numbers, Instrumenting
  <2>2. PICK b \in DOMAIN code : x \in {b} \X Positions(code[b], "count")
    BY DEF Counters
  <2>3. PICK k \in DOMAIN code[b] : x = <<b, k>> /\ x[1] = b /\ x[2] = k /\ code[b][k].op = "count"
    BY <2>2 DEF Positions
  <2>4. PICK n : n = code[b][k].core /\ n = At(x).core
    BY <2>3 DEF At
  <2>5. n \in Nat /\ n > 0
    <3>1. n \in 1..reads /\ reads \in Nat
      BY <2>3, <2>4 DEF IInv, Bodies, Bound, Types
    <3> QED
      BY <3>1
  <2>6. PICK d \in DOMAIN code : \E l \in DOMAIN code[d] : ReadsCore(M, code, d, l, b, k, n)
    BY <2>1, <2>3, <2>4, Zenon DEF Latest, CoreAt
  <2>7. PICK l \in DOMAIN code[d] : ReadsCore(M, code, d, l, b, k, n)
    BY <2>6
  <2>8. ReadAt(n) = <<d, l>>
    <3>1. code[d][l].op = "getcpu" /\ code[d][l].n = n
      BY <2>7 DEF ReadsCore
    <3>2. <<d, l>> \in Reads /\ At(<<d, l>>).n = n
      BY <3>1 DEF Positions, At
    <3>3. ASSUME NEW y \in Reads, At(y).n = n PROVE y = <<d, l>>
      <4>1. PICK e \in DOMAIN code : y \in {e} \X Positions(code[e], "getcpu")
        OBVIOUS
      <4>2. PICK j \in DOMAIN code[e] : y = <<e, j>> /\ y[1] = e /\ y[2] = j /\ code[e][j].op = "getcpu"
        BY <4>1 DEF Positions
      <4>3. code[e][j].n = n
        BY <3>3, <4>2 DEF At
      <4>4. e = d /\ j = l
        BY <2>1, <2>5, <3>1, <4>2, <4>3 DEF ReadOnce
      <4> QED
        BY <4>2, <4>4
    <3> QED
      BY <3>2, <3>3, Zenon DEF ReadAt
  <2>9. /\ M.blocks[d].fn = M.blocks[b].fn /\ (d < b \/ (d = b /\ l < k))
        /\ \A e \in DOMAIN code : \A j \in Positions(code[e], "fork") :
              ~((d < e \/ (d = e /\ l < j)) /\ (e < b \/ (e = b /\ j < k)))
    BY <2>7, Zenon DEF ReadsCore, Precedes, Positions
  <2>10. PICK r : r = <<d, l>>
    OBVIOUS
  <2>11. r = <<d, l>> /\ r[1] = d /\ r[2] = l
    BY <2>10
  <2>12. /\ M.blocks[r[1]].fn = M.blocks[x[1]].fn
         /\ r[1] < x[1] \/ (r[1] = x[1] /\ r[2] < x[2])
         /\ \A e \in DOMAIN code : \A j \in Positions(code[e], "fork") : ~Between(r, x, e, j)
    BY <2>3, <2>9, <2>11
  <2> QED
    BY <2>4, <2>8, <2>11, <2>12, Zenon
<1> QED
  BY <1>1, Invariant, PTL

\* For every module with a main that returns the profile is written by one
\* call, in main, when the counters of its block were passed.
THEOREM WrittenIsOnce == Spec => []WrittenOnce
  BY Invariant, PTL DEF IInv
=============================================================================
