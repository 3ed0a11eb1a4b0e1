-------------------------- MODULE BBProfilingProofs -------------------------
(***************************************************************************)
(* For every set of well-formed modules: the counters follow the blocks,   *)
(* and a profile is how often each block was entered.                      *)
(***************************************************************************)
EXTENDS OutputResult, RecursionProofs

Size(b)  == Len(M.blocks[b].code)   \* the place of b's counter
Given    == [op : Ops, callee : DOMAIN M.kind \cup {None}]
Inserted == [op : {"count", "write"}, n : Nat]
Frame    == [blk : DOMAIN M.blocks, pos : Nat \ {0}]

\* The instrumented blocks before block n, and so the number of n's counter.
Before(m, n)   == {b \in 1..(n - 1) : Instrumented(m, b)}
NumberOf(m, n) == Cardinality(Before(m, n))

\* The pass has given b its counter, and perhaps the call of the writer.
HasWrite(b)   == Len(code[b]) = Size(b) + 2
HasCounter(b) ==
    /\ code[b] \in Seq(Given \cup Inserted)
    /\ Len(code[b]) = Size(b) + 1 \/ HasWrite(b)
    /\ \A k \in 1..(Size(b) - 1) : code[b][k] = M.blocks[b].code[k]
    /\ code[b][Size(b)] = Count(NumberOf(M, b))
    /\ code[b][Len(code[b])] = M.blocks[b].code[Size(b)]
    /\ HasWrite(b) => code[b][Size(b) + 1] = Write /\ b \in Returns(M)

\* The activations that have entered b and not come to its counter.
Waiting(frames, b) == {n \in DOMAIN frames : frames[n].blk = b /\ frames[n].pos <= Size(b)}

Running == phase = "run" \/ (phase = "done" /\ HasMain(M))

Types ==
    /\ M \in Modules
    /\ DOMAIN code = DOMAIN M.blocks
    /\ phase \in {"count", "instrument", "hook", "run", "done", "crashed"}
    /\ blk \in 1..(Len(M.blocks) + 1)
    /\ entered \in [DOMAIN M.blocks -> Nat]
    /\ phase # "done" => HasMain(M)

Numbering ==
    /\ num = NumberOf(M, IF phase = "count" THEN blk ELSE IF HasMain(M) THEN Len(M.blocks) + 1 ELSE 1)
    /\ i = NumberOf(M, IF phase = "count" \/ ~HasMain(M) THEN 1 ELSE blk)
    /\ phase \notin {"count", "instrument"} /\ HasMain(M) => blk = Len(M.blocks) + 1
    /\ \A b \in DOMAIN M.blocks :
          IF phase # "count" /\ HasMain(M) /\ b < blk /\ Instrumented(M, b)
          THEN HasCounter(b) ELSE code[b] = M.blocks[b].code
    /\ ~Running => \A b \in DOMAIN M.blocks : ~HasWrite(b)
    /\ Running /\ Cardinality(Returns(M)) = 1 => \A b \in Returns(M) : HasWrite(b)

NotStarted ==
    ~Running => /\ stack = <<>> /\ counters = <<>> /\ profile = <<>>
                /\ entered = [b \in DOMAIN M.blocks |-> 0]

\* The bottom of the stack is main, which is called by no function.
Frames ==
    Running => /\ stack \in Seq(Frame)
               /\ \A n \in DOMAIN stack :
                     /\ stack[n].pos \in DOMAIN code[stack[n].blk]
                     /\ M.kind[M.blocks[stack[n].blk].fn] = IF n = 1 THEN "main" ELSE "plain"
               /\ phase = "run" => stack # <<>>

Following ==
    Running => /\ counters \in [0..(num - 1) -> Nat]
               /\ \A b \in DOMAIN M.blocks : Instrumented(M, b) =>
                     entered[b] = counters[NumberOf(M, b)] + Cardinality(Waiting(stack, b))

\* The writer was called if and only if main has come to the end of a block
\* that calls it.
Writing ==
    Running => /\ profile # <<>> =>
                     /\ profile = counters
                     /\ stack # <<>> => /\ Len(stack) = 1
                                        /\ stack[1].pos = Len(code[stack[1].blk])
                                        /\ HasWrite(stack[1].blk)
               /\ stack # <<>> /\ HasWrite(stack[1].blk) /\ stack[1].pos = Len(code[stack[1].blk])
                     => profile # <<>>
               /\ stack = <<>> /\ Cardinality(Returns(M)) = 1 => profile # <<>>

IInv == Types /\ Numbering /\ NotStarted /\ Frames /\ Following /\ Writing

-----------------------------------------------------------------------------
LEMMA Element ==
    ASSUME NEW S, NEW s \in Seq(S)
    PROVE  Len(s) \in Nat /\ DOMAIN s = 1..Len(s) /\ \A n \in DOMAIN s : s[n] \in S
  OBVIOUS

LEMMA Joined ==
    ASSUME NEW S, NEW s \in Seq(S), NEW t \in Seq(S)
    PROVE  /\ s \o t \in Seq(S) /\ Len(s \o t) = Len(s) + Len(t)
           /\ \A n \in 1..Len(s) : (s \o t)[n] = s[n]
           /\ Len(t) = 1 => (s \o t)[Len(s) + 1] = t[1]
  OBVIOUS

Agree(s, t, k) == \A n \in 1..k : s[n] = t[n]

\* What the pass inserts, it inserts before the last instruction.
LEMMA Inserting ==
    ASSUME NEW S, NEW s \in Seq(S), s # <<>>, NEW e \in S
    PROVE  /\ InsertAt(s, Len(s), e) \in Seq(S)
           /\ Len(InsertAt(s, Len(s), e)) = Len(s) + 1
           /\ Agree(InsertAt(s, Len(s), e), s, Len(s) - 1)
           /\ InsertAt(s, Len(s), e)[Len(s)] = e
           /\ InsertAt(s, Len(s), e)[Len(s) + 1] = s[Len(s)]
<1>1. PICK k \in Nat \ {0} : k = Len(s)
  OBVIOUS
<1> DEFINE a == SubSeq(s, 1, k - 1) c == SubSeq(s, k, k) d == a \o <<e>>
<1>2. a \in Seq(S) /\ Len(a) = k - 1 /\ \A n \in 1..(k - 1) : a[n] = s[n]
  <2>1. k - 1 \in Nat /\ k - 1 <= Len(s)
    BY <1>1
  <2>2. Len(a) = k - 1
    BY <2>1
  <2>3. \A n \in 1..(k - 1) : a[n] = s[n]
    BY <2>1
  <2>4. a \in Seq(S)
    BY <2>1
  <2> QED
    BY <2>2, <2>3, <2>4
<1>3. c \in Seq(S) /\ Len(c) = 1 /\ c[1] = s[k]
  <2>1. c \in Seq(S) /\ Len(c) = 1
    BY <1>1
  <2>2. c[1] = s[k]
    BY <1>1
  <2> QED
    BY <2>1, <2>2
<1>4. <<e>> \in Seq(S) /\ Len(<<e>>) = 1 /\ <<e>>[1] = e
  OBVIOUS
<1> HIDE DEF a, c
<1>5. /\ d \in Seq(S) /\ Len(d) = k /\ d[k] = e
      /\ \A n \in 1..(k - 1) : d[n] = s[n]
  <2>1. /\ d \in Seq(S) /\ Len(d) = Len(a) + 1 /\ d[Len(a) + 1] = e
        /\ \A n \in 1..Len(a) : d[n] = a[n]
    BY <1>2, <1>4, Joined
  <2> HIDE DEF d
  <2> QED
    BY <1>1, <1>2, <2>1
<1> HIDE DEF d
<1>6. /\ d \o c \in Seq(S) /\ Len(d \o c) = k + 1 /\ (d \o c)[k] = e /\ (d \o c)[k + 1] = s[k]
      /\ \A n \in 1..(k - 1) : (d \o c)[n] = s[n]
  <2> DEFINE t == d \o c
  <2>1. /\ t \in Seq(S) /\ Len(t) = Len(d) + Len(c)
        /\ \A n \in 1..Len(d) : t[n] = d[n]
    BY <1>3, <1>5, Joined
  <2>3. t[Len(d) + 1] = c[1]
    BY <1>3, <1>5, Joined
  <2> HIDE DEF t
  <2>2. /\ t \in Seq(S) /\ Len(t) = k + 1 /\ t[k] = e /\ t[k + 1] = s[k]
        /\ \A n \in 1..(k - 1) : t[n] = s[n]
    BY <1>1, <1>3, <1>5, <2>1, <2>3
  <2> QED
    BY <2>2 DEF t
<1>7. InsertAt(s, Len(s), e) = d \o c
  BY <1>1 DEF InsertAt, d, a, c
<1>8. Agree(d \o c, s, k - 1)
  BY <1>6 DEF Agree
<1> QED
  BY <1>1, <1>6, <1>7, <1>8

\* What WellFormed says of a module.
LEMMA Shape ==
    ASSUME M \in Modules
    PROVE  /\ Len(M.blocks) \in Nat /\ DOMAIN M.blocks = 1..Len(M.blocks)
           /\ \A b \in DOMAIN M.blocks :
                 /\ M.blocks[b].fn \in DOMAIN M.kind
                 /\ M.blocks[b].code \in Seq(Given)
                 /\ Size(b) \in Nat \ {0}
                 /\ M.blocks[b].succ \subseteq DOMAIN M.blocks
<1>1. WellFormed(M)
  BY ModulesAssumption
<1> DEFINE Block == [fn : DOMAIN M.kind, succ : SUBSET DOMAIN M.blocks, code : Seq(Given)]
<1>2. M.blocks \in Seq(Block)
  BY <1>1 DEF WellFormed, Given
<1>3. /\ Len(M.blocks) \in Nat /\ DOMAIN M.blocks = 1..Len(M.blocks)
      /\ \A b \in DOMAIN M.blocks : M.blocks[b] \in Block
  <2> HIDE DEF Block
  <2> QED
    BY <1>2, Element
<1>4. ASSUME NEW b \in DOMAIN M.blocks
      PROVE  /\ M.blocks[b].fn \in DOMAIN M.kind
             /\ M.blocks[b].code \in Seq(Given)
             /\ M.blocks[b].succ \subseteq DOMAIN M.blocks
             /\ M.blocks[b].code # <<>>
  BY <1>1, <1>3 DEF WellFormed
<1>5. ASSUME NEW b \in DOMAIN M.blocks PROVE Size(b) \in Nat \ {0}
  BY <1>4 DEF Size
<1> QED
  BY <1>3, <1>4, <1>5

LEMMA Instructions ==
    ASSUME M \in Modules, NEW b \in DOMAIN M.blocks
    PROVE  /\ DOMAIN M.blocks[b].code = 1..Size(b) /\ Size(b) \in Nat \ {0}
           /\ \A k \in 1..Size(b) : M.blocks[b].code[k] \in Given
           /\ \A k \in 1..(Size(b) - 1) :
                 /\ M.blocks[b].code[k].op \in {"other", "call", "exit"}
                 /\ M.blocks[b].code[k].op = "call" =>
                       /\ M.blocks[b].code[k].callee \in DOMAIN M.kind
                       /\ M.kind[M.blocks[b].code[k].callee] = "plain"
           /\ M.blocks[b].code[Size(b)].op \in {"br", "ret"}
           /\ \A d \in M.blocks[b].succ : M.blocks[d].fn = M.blocks[b].fn
<1> DEFINE c == M.blocks[b].code
<1>1. WellFormed(M)
  BY ModulesAssumption
<1>2. c \in Seq(Given) /\ Size(b) \in Nat \ {0} /\ Size(b) = Len(c)
  BY Shape DEF Size
<1>3. DOMAIN c = 1..Size(b) /\ \A k \in 1..Size(b) : c[k] \in Given
  BY <1>2, Element
<1>4. /\ c[Size(b)].op \in {"br", "ret"}
      /\ \A d \in M.blocks[b].succ : M.blocks[d].fn = M.blocks[b].fn
      /\ \A k \in DOMAIN c : /\ k < Size(b) => c[k].op \notin {"br", "ret"}
                             /\ c[k].op = "call" => c[k].callee # None /\ M.kind[c[k].callee] = "plain"
  BY <1>1, <1>2 DEF WellFormed
<1>5. ASSUME NEW k \in 1..(Size(b) - 1)
      PROVE  /\ c[k].op \in {"other", "call", "exit"}
             /\ c[k].op = "call" => c[k].callee \in DOMAIN M.kind /\ M.kind[c[k].callee] = "plain"
  <2>1. k \in DOMAIN c /\ k < Size(b)
    BY <1>2, <1>3
  <2>2. c[k].op \in Ops /\ c[k].callee \in DOMAIN M.kind \cup {None}
    BY <1>3, <2>1 DEF Given
  <2> QED
    BY <1>4, <2>1, <2>2 DEF Ops
<1> QED
  BY <1>2, <1>3, <1>4, <1>5

\* The code of a block that was given its counter.
LEMMA Code ==
    ASSUME M \in Modules, NEW b \in DOMAIN M.blocks, HasCounter(b)
    PROVE  /\ DOMAIN code[b] = 1..Len(code[b]) /\ Len(code[b]) \in {Size(b) + 1, Size(b) + 2}
           /\ \A k \in 1..(Size(b) - 1) :
                 /\ code[b][k].op \in {"other", "call", "exit"}
                 /\ code[b][k].op = "call" => /\ code[b][k].callee \in DOMAIN M.kind
                                              /\ M.kind[code[b][k].callee] = "plain"
           /\ code[b][Size(b)].op = "count" /\ code[b][Size(b)].n = NumberOf(M, b)
           /\ HasWrite(b) => code[b][Size(b) + 1].op = "write" /\ b \in Returns(M)
           /\ code[b][Len(code[b])].op \in {"br", "ret"}
           /\ code[b][Len(code[b])].op = Last(M.blocks[b].code).op
<1>1. DOMAIN code[b] = 1..Len(code[b])
  BY Element DEF HasCounter
<1>2. Len(code[b]) \in {Size(b) + 1, Size(b) + 2}
  BY DEF HasCounter, HasWrite
<1>3. /\ code[b][Size(b)].op = "count" /\ code[b][Size(b)].n = NumberOf(M, b)
      /\ HasWrite(b) => code[b][Size(b) + 1].op = "write" /\ b \in Returns(M)
  BY DEF HasCounter, Count, Write
<1>4. Last(M.blocks[b].code) = M.blocks[b].code[Size(b)]
  BY DEF Last, Size
<1>5. /\ code[b][Len(code[b])].op \in {"br", "ret"}
      /\ code[b][Len(code[b])].op = Last(M.blocks[b].code).op
  BY <1>4, Instructions DEF HasCounter
<1>6. \A k \in 1..(Size(b) - 1) :
         /\ code[b][k].op \in {"other", "call", "exit"}
         /\ code[b][k].op = "call" => /\ code[b][k].callee \in DOMAIN M.kind
                                      /\ M.kind[code[b][k].callee] = "plain"
  BY Instructions DEF HasCounter
<1> QED
  BY <1>1, <1>2, <1>3, <1>5, <1>6

LEMMA Places ==
    ASSUME M \in Modules, NEW b \in DOMAIN M.blocks, DOMAIN code = DOMAIN M.blocks
    PROVE  /\ HasCounter(b) => b \in Counted /\ Place(b) = Size(b) /\ Number(b) = NumberOf(M, b)
           /\ code[b] = M.blocks[b].code => b \notin Counted
<1>1. Size(b) \in Nat \ {0}
  BY Instructions
<1>2. ASSUME HasCounter(b) PROVE b \in Counted /\ Place(b) = Size(b) /\ Number(b) = NumberOf(M, b)
  <2>1. Size(b) \in DOMAIN code[b] /\ code[b][Size(b)].op = "count" /\ code[b][Size(b)].n = NumberOf(M, b)
    BY <1>1, <1>2, Code
  <2>2. ASSUME NEW k \in DOMAIN code[b], code[b][k].op = "count" PROVE k = Size(b)
    <3>1. k \in 1..Len(code[b]) /\ Len(code[b]) \in {Size(b) + 1, Size(b) + 2}
      BY <1>2, Code
    <3>2. k \notin 1..(Size(b) - 1)
      BY <1>2, <2>2, Code
    <3>3. k # Len(code[b])
      BY <1>2, <2>2, Code
    <3>4. k = Size(b) + 1 => ~HasWrite(b)
      BY <1>2, <2>2, Code
    <3> QED
      BY <1>1, <3>1, <3>2, <3>3, <3>4 DEF HasWrite
  <2>3. b \in Counted
    BY <2>1 DEF Counted
  <2>4. Place(b) = Size(b)
    BY <2>1, <2>2 DEF Place
  <2> QED
    BY <2>1, <2>3, <2>4 DEF Number
<1>3. ASSUME code[b] = M.blocks[b].code PROVE b \notin Counted
  <2>1. \A k \in DOMAIN code[b] : code[b][k].op # "count"
    <3> SUFFICES ASSUME NEW k \in 1..Size(b) PROVE M.blocks[b].code[k].op # "count"
      BY <1>3, Instructions
    <3>1. M.blocks[b].code[k].op \in Ops
      BY Instructions DEF Given
    <3> QED
      BY <3>1 DEF Ops
  <2> QED
    BY <2>1 DEF Counted
<1> QED
  BY <1>2, <1>3

-----------------------------------------------------------------------------
(* Numbers.                                                                *)

LEMMA Numbers ==
    ASSUME NEW n \in Nat \ {0}
    PROVE  /\ NumberOf(M, n) \in Nat /\ IsFiniteSet(Before(M, n))
           /\ NumberOf(M, n + 1) = NumberOf(M, n) + (IF Instrumented(M, n) THEN 1 ELSE 0)
           /\ NumberOf(M, 1) = 0
<1>1. IsFiniteSet(1..(n - 1))
  BY FS_Interval
<1>2. Before(M, n) \in SUBSET (1..(n - 1))
  BY DEF Before
<1>3. IsFiniteSet(Before(M, n))
  BY <1>1, <1>2, FS_Subset
<1>4. NumberOf(M, n) \in Nat
  BY <1>3, FS_CardinalityType DEF NumberOf
<1>5. NumberOf(M, 1) = 0
  <2>1. Before(M, 1) = {}
    BY DEF Before
  <2> QED
    BY <2>1, FS_EmptySet DEF NumberOf
<1>6. CASE Instrumented(M, n)
  <2>1. Before(M, n + 1) = Before(M, n) \cup {n}
    BY <1>6 DEF Before
  <2>2. n \notin Before(M, n)
    BY DEF Before
  <2>3. Cardinality(Before(M, n) \cup {n}) = Cardinality(Before(M, n)) + 1
    BY <1>3, <2>2, FS_AddElement
  <2> QED
    BY <1>3, <1>4, <1>5, <1>6, <2>1, <2>3 DEF NumberOf
<1>7. CASE ~Instrumented(M, n)
  <2>1. Before(M, n + 1) = Before(M, n)
    BY <1>7 DEF Before
  <2> QED
    BY <1>3, <1>4, <1>5, <1>7, <2>1 DEF NumberOf
<1> QED
  BY <1>6, <1>7

LEMMA Ordered ==
    ASSUME NEW a \in Nat \ {0}, NEW b \in Nat \ {0}, a < b
    PROVE  /\ NumberOf(M, a) <= NumberOf(M, b)
           /\ Instrumented(M, a) => NumberOf(M, a) < NumberOf(M, b)
<1>1. Before(M, a + 1) \in SUBSET Before(M, b) /\ Before(M, a) \in SUBSET Before(M, b)
  BY DEF Before
<1>2. NumberOf(M, a + 1) <= NumberOf(M, b) /\ NumberOf(M, a) <= NumberOf(M, b)
  BY <1>1, Numbers, FS_Subset DEF NumberOf
<1> QED
  BY <1>2, Numbers

LEMMA Same ==
    ASSUME M' = M, NEW b
    PROVE  /\ Size(b)' = Size(b) /\ NumberOf(M, b)' = NumberOf(M, b)
           /\ code'[b] = code[b] => HasCounter(b)' = HasCounter(b) /\ HasWrite(b)' = HasWrite(b)
<1>1. Size(b)' = Size(b) /\ NumberOf(M, b)' = NumberOf(M, b)
  BY DEF Size, NumberOf, Before, Instrumented
<1>2. ASSUME code'[b] = code[b] PROVE HasCounter(b)' = HasCounter(b) /\ HasWrite(b)' = HasWrite(b)
  <2>1. HasWrite(b)' = HasWrite(b)
    BY <1>1, <1>2 DEF HasWrite
  <2> QED
    BY <1>1, <1>2, <2>1 DEF HasCounter, Given, Inserted, Returns
<1> QED
  BY <1>1, <1>2

LEMMA EntryFacts ==
    ASSUME M \in Modules, NEW f \in DOMAIN M.kind
    PROVE  Entry(M, f) \in DOMAIN M.blocks /\ M.blocks[Entry(M, f)].fn = f
<1> DEFINE S == {b \in DOMAIN M.blocks : M.blocks[b].fn = f}
<1>1. S \in SUBSET Nat /\ S # {}
  <2>1. WellFormed(M)
    BY ModulesAssumption
  <2>2. S # {}
    BY <2>1 DEF WellFormed
  <2> QED
    BY <2>2, Shape
<1>2. PICK b \in S : \A c \in S : b <= c
  BY <1>1, Least
<1>3. \A c \in 1..(b - 1) : M.blocks[c].fn # f
  BY <1>1, <1>2, Shape
<1> QED
  BY <1>2, <1>3 DEF Entry

LEMMA FirstReturnFacts ==
    ASSUME M \in Modules, Returns(M) # {}
    PROVE  /\ FirstReturn \in Returns(M)
           /\ Cardinality(Returns(M)) = 1 => Returns(M) = {FirstReturn}
<1>1. Returns(M) \in SUBSET DOMAIN M.blocks /\ DOMAIN M.blocks = 1..Len(M.blocks) /\ Len(M.blocks) \in Nat
  BY Shape DEF Returns
<1>2. Returns(M) \in SUBSET Nat
  BY <1>1
<1>3. FirstReturn \in Returns(M)
  <2>1. PICK b \in Returns(M) : \A c \in Returns(M) : b <= c
    BY <1>2, Least
  <2> QED
    BY <2>1 DEF FirstReturn, Min
<1>4. IsFiniteSet(1..Len(M.blocks))
  BY <1>1, FS_Interval
<1>5. IsFiniteSet(Returns(M))
  BY <1>1, <1>4, FS_Subset
<1> QED
  BY <1>3, <1>5, FS_Singleton

-----------------------------------------------------------------------------
(* What the steps of a program change in Waiting.                          *)

LEMMA WaitingFinite ==
    ASSUME NEW frames \in Seq(Frame), NEW b
    PROVE  IsFiniteSet(Waiting(frames, b)) /\ Cardinality(Waiting(frames, b)) \in Nat
<1>1. DOMAIN frames = 1..Len(frames) /\ Len(frames) \in Nat
  OBVIOUS
<1>2. Waiting(frames, b) \in SUBSET (1..Len(frames))
  BY <1>1 DEF Waiting
<1>3. IsFiniteSet(1..Len(frames))
  BY <1>1, FS_Interval
<1>4. IsFiniteSet(Waiting(frames, b))
  BY <1>2, <1>3, FS_Subset
<1> QED
  BY <1>4, FS_CardinalityType

LEMMA WaitingEntered ==
    ASSUME M \in Modules, NEW frames \in Seq(Frame), NEW b \in DOMAIN M.blocks, NEW c \in DOMAIN M.blocks
    PROVE  Cardinality(Waiting(Append(frames, [blk |-> c, pos |-> 1]), b)) =
               Cardinality(Waiting(frames, b)) + (IF b = c THEN 1 ELSE 0)
<1> DEFINE n == Len(frames) + 1 more == Append(frames, [blk |-> c, pos |-> 1])
<1>1. /\ DOMAIN more = 1..n /\ DOMAIN frames = 1..(n - 1) /\ n \in Nat \ {0}
      /\ \A k \in 1..(n - 1) : more[k] = frames[k]
      /\ more[n] = [blk |-> c, pos |-> 1]
  OBVIOUS
<1>2. Size(b) \in Nat \ {0}
  BY Instructions
<1> HIDE DEF n, more
<1>3. n \notin Waiting(frames, b)
  BY <1>1 DEF Waiting
<1>4. CASE b = c
  <2>a. n \in Waiting(more, b)
    BY <1>1, <1>2, <1>4 DEF Waiting
  <2>b. \A k \in 1..(n - 1) : k \in Waiting(more, b) <=> k \in Waiting(frames, b)
    BY <1>1 DEF Waiting
  <2>c. Waiting(more, b) \subseteq 1..n /\ Waiting(frames, b) \subseteq 1..n
    BY <1>1 DEF Waiting
  <2>2. Waiting(more, b) = Waiting(frames, b) \cup {n}
    BY <1>1, <2>a, <2>b, <2>c
  <2> QED
    BY <1>3, <1>4, <2>2, WaitingFinite, FS_AddElement DEF more
<1>5. CASE b # c
  <2>1. Waiting(more, b) = Waiting(frames, b)
    BY <1>1, <1>2, <1>5 DEF Waiting
  <2> QED
    BY <1>5, <2>1, WaitingFinite DEF more
<1> QED
  BY <1>4, <1>5

LEMMA WaitingLeft ==
    ASSUME M \in Modules, NEW frames \in Seq(Frame), frames # <<>>, NEW b \in DOMAIN M.blocks,
           frames[Len(frames)].pos > Size(frames[Len(frames)].blk)
    PROVE  Waiting(Front(frames), b) = Waiting(frames, b)
<1> DEFINE n == Len(frames) less == Front(frames)
<1>1. /\ DOMAIN less = 1..(n - 1) /\ DOMAIN frames = 1..n /\ n \in Nat \ {0}
      /\ \A k \in 1..(n - 1) : less[k] = frames[k]
  BY DEF Front
<1>2. Size(b) \in Nat \ {0} /\ frames[n] \in Frame
  BY <1>1, Instructions, Element
<1> HIDE DEF less
<1>3. n \notin Waiting(frames, b)
  BY <1>2 DEF Waiting, Frame
<1>4. \A k : k \in Waiting(less, b) <=> k \in Waiting(frames, b)
  BY <1>1, <1>3 DEF Waiting
<1> QED
  BY <1>4 DEF less

LEMMA WaitingMoved ==
    ASSUME M \in Modules, stack \in Seq(Frame), stack # <<>>, NEW b \in DOMAIN M.blocks
    PROVE  /\ Moved \in Seq(Frame) /\ Len(Moved) = Len(stack)
           /\ \A n \in 1..(Len(stack) - 1) : Moved[n] = stack[n]
           /\ Moved[Len(stack)].blk = Top.blk /\ Moved[Len(stack)].pos = Top.pos + 1
           /\ Cardinality(Waiting(stack, b)) =
                  Cardinality(Waiting(Moved, b)) + (IF b = Top.blk /\ Top.pos = Size(b) THEN 1 ELSE 0)
<1> DEFINE n == Len(stack)
<1>1. DOMAIN stack = 1..n /\ n \in Nat \ {0} /\ Top = stack[n] /\ Top \in Frame
  BY Element DEF Top
<1>2. Top.pos \in Nat \ {0} /\ Top.blk \in DOMAIN M.blocks /\ Size(b) \in Nat \ {0}
  BY <1>1, Instructions DEF Frame
<1>3. /\ \A k \in 1..(n - 1) : Moved[k] = stack[k]
      /\ DOMAIN Moved = 1..n
  BY <1>1 DEF Moved
<1>c. Moved[n] = [stack[n] EXCEPT !.pos = @ + 1]
  BY <1>1 DEF Moved
<1>a. stack[n] = [blk |-> Top.blk, pos |-> Top.pos]
  BY <1>1 DEF Frame
<1>b. Moved[n] = [blk |-> Top.blk, pos |-> Top.pos + 1]
  BY <1>c, <1>a
<1>4. Moved[n] \in Frame /\ Moved[n].blk = Top.blk /\ Moved[n].pos = Top.pos + 1
  BY <1>2, <1>b DEF Frame
<1>5. Moved \in [1..n -> Frame]
  BY <1>1, <1>3, <1>4, Element DEF Moved
<1>6. Moved \in Seq(Frame) /\ Len(Moved) = n
  BY <1>1, <1>5
<1>7. CASE b = Top.blk /\ Top.pos = Size(b)
  <2>a. n \in Waiting(stack, b) /\ n \notin Waiting(Moved, b)
    BY <1>1, <1>2, <1>4, <1>7 DEF Waiting
  <2>b. \A k \in 1..(n - 1) : k \in Waiting(Moved, b) <=> k \in Waiting(stack, b)
    BY <1>1, <1>3 DEF Waiting
  <2>c. Waiting(Moved, b) \subseteq 1..n /\ Waiting(stack, b) \subseteq 1..n
    BY <1>1, <1>3 DEF Waiting
  <2>1. n \in Waiting(stack, b) /\ Waiting(Moved, b) = Waiting(stack, b) \ {n}
    BY <1>1, <2>a, <2>b, <2>c
  <2>2. Cardinality(Waiting(Moved, b)) = Cardinality(Waiting(stack, b)) - 1
    BY <2>1, WaitingFinite, FS_RemoveElement
  <2>3. Cardinality(Waiting(stack, b)) \in Nat
    BY WaitingFinite
  <2> QED
    BY <1>3, <1>4, <1>6, <1>7, <2>2, <2>3
<1>8. CASE ~(b = Top.blk /\ Top.pos = Size(b))
  <2>a. n \in Waiting(stack, b) <=> n \in Waiting(Moved, b)
    BY <1>1, <1>2, <1>3, <1>4, <1>8 DEF Waiting
  <2>b. \A k \in 1..(n - 1) : k \in Waiting(Moved, b) <=> k \in Waiting(stack, b)
    BY <1>1, <1>3 DEF Waiting
  <2>c. Waiting(Moved, b) \subseteq 1..n /\ Waiting(stack, b) \subseteq 1..n
    BY <1>1, <1>3 DEF Waiting
  <2>d. \A k \in 1..n : k \in Waiting(Moved, b) <=> k \in Waiting(stack, b)
    BY <1>1, <2>a, <2>b
  <2>1. Waiting(Moved, b) = Waiting(stack, b)
    BY <2>c, <2>d
  <2> QED
    BY <1>3, <1>4, <1>6, <1>8, <2>1, WaitingFinite
<1> QED
  BY <1>7, <1>8

-----------------------------------------------------------------------------
LEMMA Blocks ==
    ASSUME Types
    PROVE  /\ blk \in Nat \ {0} /\ (blk \in DOMAIN M.blocks \/ blk = Len(M.blocks) + 1)
           /\ \A b \in DOMAIN M.blocks : b \in Nat \ {0}
           /\ DOMAIN M.blocks = 1..Len(M.blocks) /\ Len(M.blocks) \in Nat
<1>1. DOMAIN M.blocks = 1..Len(M.blocks) /\ Len(M.blocks) \in Nat /\ blk \in 1..(Len(M.blocks) + 1)
  BY Shape DEF Types
<1> QED
  BY <1>1

LEMMA InitIInv == Init => IInv
<1> SUFFICES ASSUME Init PROVE IInv
  OBVIOUS
<1>1. M \in Modules /\ \A b \in DOMAIN M.blocks : code[b] = M.blocks[b].code
  BY DEF Init
<1>2. Types
  BY <1>1, Shape DEF Init, Types
<1>3. ~Running \/ (phase = "done" /\ HasMain(M))
  BY DEF Init, Running
<1>4. ~Running
  BY DEF Init, Running
<1>5. \A b \in DOMAIN M.blocks : ~HasWrite(b)
  <2> SUFFICES ASSUME NEW b \in DOMAIN M.blocks PROVE ~HasWrite(b)
    OBVIOUS
  <2>1. Len(code[b]) = Size(b) /\ Size(b) \in Nat
    BY <1>1, Shape DEF Size
  <2> QED
    BY <2>1 DEF HasWrite
<1>6. NumberOf(M, 1) = 0
  BY Numbers
<1>7. Numbering
  BY <1>1, <1>4, <1>5, <1>6 DEF Init, Numbering
<1> QED
  BY <1>2, <1>4, <1>7 DEF Init, IInv, NotStarted, Frames, Following, Writing

\* Before the program runs, nothing but code and numbers change.
LEMMA CountBlockIInv == IInv /\ CountBlock => IInv'
<1> SUFFICES ASSUME IInv, CountBlock PROVE IInv'
  OBVIOUS
<1>1. Types /\ Numbering /\ NotStarted /\ phase = "count" /\ HasMain(M)
  BY DEF IInv, CountBlock, Types
<1>2. Types'
  BY <1>1, Shape DEF CountBlock, AtBlock, Types, run
<1>3. ~Running /\ ~Running'
  BY <1>1 DEF CountBlock, Running
<1>4. Numbering'
  <2>1. blk \in Nat \ {0}
    BY <1>1, Blocks
  <2>2. NumberOf(M, blk + 1) = NumberOf(M, blk) + (IF Instrumented(M, blk) THEN 1 ELSE 0) /\ NumberOf(M, blk) \in Nat
    BY <2>1, Numbers
  <2>3. num' = NumberOf(M, blk + 1) /\ i' = NumberOf(M, 1)
    BY <1>1, <2>2 DEF CountBlock, Numbering
  <2>5. ASSUME NEW b \in DOMAIN M.blocks PROVE code'[b] = M.blocks[b].code /\ ~HasWrite(b)'
    BY <1>1, <1>3, Same DEF CountBlock, Numbering
  <2>6. M' = M /\ phase' = "count" /\ blk' = blk + 1
    BY <1>1 DEF CountBlock
  <2> QED
    BY <1>1, <1>3, <2>3, <2>5, <2>6 DEF Numbering
<1>5. NotStarted'
  BY <1>1, <1>3 DEF NotStarted, CountBlock, run
<1> QED
  BY <1>2, <1>3, <1>4, <1>5 DEF IInv, Frames, Following, Writing

LEMMA EndCountIInv == IInv /\ EndCount => IInv'
<1> SUFFICES ASSUME IInv, EndCount PROVE IInv'
  OBVIOUS
<1>1. Types /\ Numbering /\ NotStarted /\ phase = "count" /\ phase' = "instrument" /\ HasMain(M) /\ M' = M
  BY DEF IInv, EndCount, Types
<1>2. Types'
  BY <1>1, Shape DEF EndCount, Types, run
<1>3. ~Running /\ ~Running'
  BY <1>1 DEF EndCount, Running
<1>4. Numbering'
  <2>1. blk = Len(M.blocks) + 1 /\ blk' = 1
    BY <1>1, Blocks DEF EndCount, AtBlock
  <2>2. num' = NumberOf(M, Len(M.blocks) + 1) /\ i' = NumberOf(M, 1)
    BY <1>1, <2>1 DEF EndCount, Numbering
  <2>3. ASSUME NEW b \in DOMAIN M.blocks PROVE code'[b] = M.blocks[b].code /\ ~HasWrite(b)' /\ ~(b < 1)
    <3>1. code' = code /\ b \in Nat \ {0}
      BY <1>1, Blocks DEF EndCount
    <3> QED
      BY <1>1, <1>3, <3>1, Same DEF Numbering
  <2> QED
    BY <1>1, <1>3, <2>1, <2>2, <2>3 DEF Numbering
<1>5. NotStarted'
  BY <1>1, <1>3 DEF NotStarted, EndCount, run
<1> QED
  BY <1>2, <1>3, <1>4, <1>5 DEF IInv, Frames, Following, Writing

LEMMA SameWaiting ==
    ASSUME M' = M, NEW b
    PROVE  Waiting(stack, b)' = Waiting(stack', b)
  BY Same DEF Waiting

\* A block whose counter is inserted.
LEMMA Counting ==
    ASSUME M \in Modules, M' = M, NEW b \in DOMAIN M.blocks, code[b] = M.blocks[b].code,
           code'[b] = InsertAt(code[b], Len(code[b]), Count(NumberOf(M, b))), b \in Nat \ {0}
    PROVE  HasCounter(b)' /\ ~HasWrite(b)'
<1> DEFINE S == Given \cup Inserted e == Count(NumberOf(M, b))
<1>1. code[b] \in Seq(Given) /\ Len(code[b]) = Size(b) /\ Size(b) \in Nat \ {0}
  BY Shape DEF Size
<1>2. code[b] \in Seq(S)
  BY <1>1
<1>3. e \in S
  BY Numbers DEF Inserted, Count
<1>4. code[b] # <<>>
  BY <1>1
<1> HIDE DEF S, e
<1> DEFINE t == InsertAt(code[b], Len(code[b]), e)
<1>5. /\ t \in Seq(S) /\ Len(t) = Len(code[b]) + 1
      /\ \A n \in 1..(Len(code[b]) - 1) : t[n] = code[b][n]
      /\ t[Len(code[b])] = e
      /\ t[Len(code[b]) + 1] = code[b][Len(code[b])]
  <2>1. t \in Seq(S) /\ Len(t) = Len(code[b]) + 1
    BY <1>2, <1>3, <1>4, Inserting
  <2>2. \A n \in 1..(Len(code[b]) - 1) : t[n] = code[b][n]
    <3>1. PICK s \in Seq(S) : s = code[b] /\ s # <<>>
      BY <1>2, <1>4
    <3>2. Agree(InsertAt(s, Len(s), e), s, Len(s) - 1)
      BY <1>3, <3>1, Inserting
    <3> QED
      BY <3>1, <3>2 DEF Agree
  <2>3. t[Len(code[b])] = e /\ t[Len(code[b]) + 1] = code[b][Len(code[b])]
    BY <1>2, <1>3, <1>4, Inserting
  <2> QED
    BY <2>1, <2>2, <2>3
<1>6. code'[b] = t
  BY <1>1 DEF e
<1> HIDE DEF t
<1>7. t[Size(b) + 1] = code[b][Size(b)]
  BY <1>1, <1>5
<1>8. Size(b)' = Size(b) /\ (Given \cup Inserted)' = S
  BY Same DEF Given, Inserted, S
<1>9. ~HasWrite(b)'
  BY <1>1, <1>5, <1>6, <1>8 DEF HasWrite
<1> QED
  BY <1>1, <1>5, <1>6, <1>7, <1>8, <1>9 DEF HasCounter, e

LEMMA InstrumentBlockIInv == IInv /\ InstrumentBlock => IInv'
<1> SUFFICES ASSUME IInv, InstrumentBlock PROVE IInv'
  OBVIOUS
<1>1. /\ Types /\ Numbering /\ NotStarted /\ phase = "instrument" /\ phase' = "instrument"
      /\ HasMain(M) /\ M' = M /\ blk \in DOMAIN M.blocks /\ blk' = blk + 1
  BY DEF IInv, InstrumentBlock, Types, AtBlock
<1>2. Types'
  BY <1>1, Blocks DEF InstrumentBlock, Types, run
<1>3. ~Running /\ ~Running'
  BY <1>1 DEF Running
<1>4. /\ code[blk] = M.blocks[blk].code /\ i = NumberOf(M, blk) /\ num = NumberOf(M, Len(M.blocks) + 1)
      /\ blk \in Nat \ {0} /\ NumberOf(M, blk) \in Nat
  <2>1. blk \in Nat \ {0}
    BY <1>1, Blocks
  <2>2. NumberOf(M, blk) \in Nat
    BY <2>1, Numbers
  <2> QED
    BY <1>1, <2>1, <2>2 DEF Numbering
<1>5. num' = NumberOf(M, Len(M.blocks) + 1) /\ i' = NumberOf(M, blk + 1)
  <2>1. NumberOf(M, blk + 1) = NumberOf(M, blk) + (IF Instrumented(M, blk) THEN 1 ELSE 0)
    BY <1>4, Numbers
  <2> QED
    BY <1>4, <2>1 DEF InstrumentBlock
<1>6. ASSUME NEW b \in DOMAIN M.blocks
      PROVE  /\ b < blk + 1 /\ Instrumented(M, b) => HasCounter(b)'
             /\ ~(b < blk + 1 /\ Instrumented(M, b)) => code'[b] = M.blocks[b].code
             /\ ~HasWrite(b)'
  <2>1. b \in Nat \ {0} /\ DOMAIN code = DOMAIN M.blocks
    BY <1>1, Blocks DEF Types
  <2>2. CASE b = blk /\ Instrumented(M, b)
    <3>1. code'[b] = InsertAt(code[b], Len(code[b]), Count(NumberOf(M, b)))
      BY <1>4, <2>1, <2>2 DEF InstrumentBlock
    <3>2. HasCounter(b)' /\ ~HasWrite(b)'
      BY <1>1, <1>4, <2>1, <2>2, <3>1, Counting DEF Types
    <3> QED
      BY <1>4, <2>2, <3>2
  <2>3. CASE ~(b = blk /\ Instrumented(M, b))
    <3>1. code'[b] = code[b]
      BY <2>1, <2>3 DEF InstrumentBlock
    <3>2. HasCounter(b)' = HasCounter(b) /\ HasWrite(b)' = HasWrite(b)
      BY <1>1, <3>1, Same
    <3>3. ~HasWrite(b)
      BY <1>1, <1>3 DEF Numbering
    <3>4. b < blk /\ Instrumented(M, b) => HasCounter(b)
      BY <1>1 DEF Numbering
    <3>5. ~(b < blk /\ Instrumented(M, b)) => code[b] = M.blocks[b].code
      BY <1>1 DEF Numbering
    <3>6. b < blk + 1 /\ Instrumented(M, b) <=> b < blk /\ Instrumented(M, b)
      BY <1>4, <2>1, <2>3
    <3> QED
      BY <3>1, <3>2, <3>3, <3>4, <3>5, <3>6
  <2> QED
    BY <2>2, <2>3
<1>7. Numbering'
  BY <1>1, <1>3, <1>5, <1>6 DEF Numbering
<1>8. NotStarted'
  BY <1>1, <1>3 DEF NotStarted, InstrumentBlock, run
<1> QED
  BY <1>2, <1>3, <1>7, <1>8 DEF IInv, Frames, Following, Writing

LEMMA EndInstrumentIInv == IInv /\ EndInstrument => IInv'
<1> SUFFICES ASSUME IInv, EndInstrument PROVE IInv'
  OBVIOUS
<1>1. /\ Types /\ Numbering /\ NotStarted /\ phase = "instrument" /\ phase' = "hook"
      /\ HasMain(M) /\ UNCHANGED <<M, code, blk, num, i, run>> /\ blk = Len(M.blocks) + 1
  BY Blocks DEF IInv, EndInstrument, Types, AtBlock
<1>2. Types'
  BY <1>1 DEF Types, run
<1>3. ~Running /\ ~Running'
  BY <1>1 DEF Running
<1>4. \A b \in DOMAIN M.blocks : HasCounter(b)' = HasCounter(b) /\ HasWrite(b)' = HasWrite(b)
  BY <1>1, Same
<1>5. Numbering'
  BY <1>1, <1>3, <1>4 DEF Numbering
<1>6. NotStarted'
  BY <1>1, <1>3 DEF NotStarted, run
<1> QED
  BY <1>2, <1>3, <1>5, <1>6 DEF IInv, Frames, Following, Writing

LEMMA NoWriterIInv == IInv /\ NoWriter => IInv'
<1> SUFFICES ASSUME IInv, NoWriter PROVE IInv'
  OBVIOUS
<1>1. /\ Types /\ Numbering /\ NotStarted /\ phase = "hook" /\ phase' = "crashed"
      /\ HasMain(M) /\ UNCHANGED <<M, code, blk, num, i, run>>
  BY DEF IInv, NoWriter, Types
<1>2. Types'
  BY <1>1 DEF Types, run
<1>3. ~Running /\ ~Running'
  BY <1>1 DEF Running
<1>4. \A b \in DOMAIN M.blocks : HasCounter(b)' = HasCounter(b) /\ HasWrite(b)' = HasWrite(b)
  BY <1>1, Same
<1>5. Numbering'
  BY <1>1, <1>3, <1>4 DEF Numbering
<1>6. NotStarted'
  BY <1>1, <1>3 DEF NotStarted, run
<1> QED
  BY <1>2, <1>3, <1>5, <1>6 DEF IInv, Frames, Following, Writing

-----------------------------------------------------------------------------
(* The hook and the start of the program.                                  *)

LEMMA NumberBelow ==
    ASSUME Types, Numbering, phase \notin {"count", "instrument"}, HasMain(M),
           NEW b \in DOMAIN M.blocks, Instrumented(M, b)
    PROVE  HasCounter(b) /\ NumberOf(M, b) \in 0..(num - 1) /\ num \in Nat
<1>1. b \in Nat \ {0} /\ b < Len(M.blocks) + 1 /\ Len(M.blocks) + 1 \in Nat \ {0}
  BY Blocks
<1>2. HasCounter(b) /\ num = NumberOf(M, Len(M.blocks) + 1)
  BY <1>1 DEF Numbering
<1>3. NumberOf(M, b) \in Nat /\ NumberOf(M, Len(M.blocks) + 1) \in Nat
  BY <1>1, Numbers
<1>4. NumberOf(M, b) < NumberOf(M, Len(M.blocks) + 1)
  BY <1>1, Ordered
<1> QED
  BY <1>2, <1>3, <1>4

LEMMA StartIInv ==
    ASSUME IInv, phase = "hook", Start, UNCHANGED <<M, blk, num, i, profile>>, Types', Numbering'
    PROVE  IInv'
<1>1. /\ Types /\ NotStarted /\ HasMain(M) /\ phase' = "run" /\ ~Running
      /\ M' = M /\ num' = num /\ HasMain(M)' /\ profile' = <<>>
  BY DEF IInv, Types, Start, Running, NotStarted, HasMain
<1>2. PICK f \in DOMAIN M.kind :
         /\ M.kind[f] = "main"
         /\ stack' = <<[blk |-> Entry(M, f), pos |-> 1]>>
         /\ entered' = [entered EXCEPT ![Entry(M, f)] = 1]
  BY <1>1 DEF Start, HasMain
<1>3. PICK main \in DOMAIN M.blocks : main = Entry(M, f) /\ M.blocks[main].fn = f
  BY <1>1, <1>2, EntryFacts DEF Types
<1> DEFINE first == [blk |-> main, pos |-> 1]
<1>4. ASSUME NEW b \in DOMAIN M.blocks, Instrumented(M, b)
      PROVE  HasCounter(b)' /\ NumberOf(M, b) \in 0..(num - 1)
  <2>1. NumberOf(M, b) \in 0..(num - 1) /\ blk = Len(M.blocks) + 1
    BY <1>1, <1>4, NumberBelow DEF IInv, Numbering
  <2>2. b \in DOMAIN M'.blocks /\ Instrumented(M, b)' /\ b < blk' /\ phase' # "count"
    BY <1>1, <1>4, <2>1, Blocks DEF Instrumented
  <2>3. HasCounter(b)'
    BY <1>1, <2>2 DEF Numbering
  <2> QED
    BY <2>1, <2>3
<1>5. Instrumented(M, main)
  BY <1>2, <1>3 DEF Instrumented
<1>6. Size(main) \in Nat \ {0} /\ DOMAIN code'[main] = 1..Len(code'[main]) /\ Len(code'[main]) \in Nat
      /\ Len(code'[main]) > 1
  <2>1. Size(main) \in Nat \ {0} /\ Size(main)' = Size(main)
    BY <1>1, <1>3, Instructions, Same DEF Types
  <2>2. code'[main] \in Seq((Given \cup Inserted)') /\ Len(code'[main]) \in {Size(main) + 1, Size(main) + 2}
    BY <1>3, <1>4, <1>5, <2>1 DEF HasCounter, HasWrite
  <2> QED
    BY <2>1, <2>2, Element
<1>7. /\ stack' \in Seq(Frame) /\ stack' # <<>> /\ DOMAIN stack' = {1} /\ Len(stack') = 1
      /\ stack'[1].blk = main /\ stack'[1].pos = 1
  <2>1. first \in Frame
    BY <1>3 DEF Frame
  <2>2. stack' = <<first>>
    BY <1>2, <1>3
  <2> QED
    BY <2>1, <2>2
<1>8. Frames'
  <2>1. Frame' = Frame
    BY <1>1 DEF Frame
  <2>2. 1 \in DOMAIN code'[main]
    BY <1>6
  <2> QED
    BY <1>1, <1>2, <1>3, <1>7, <2>1, <2>2 DEF Frames
<1>9. Following'
  <2>1. counters' = [n \in 0..(num - 1) |-> 0]
    BY DEF Start
  <2>2. ASSUME NEW b \in DOMAIN M.blocks, Instrumented(M, b)
        PROVE  entered'[b] = counters'[NumberOf(M, b)] + Cardinality(Waiting(stack', b))
    <3>1. counters'[NumberOf(M, b)] = 0
      BY <1>4, <2>1, <2>2
    <3>2. entered'[b] = IF b = main THEN 1 ELSE 0
      BY <1>1, <1>2, <1>3, <2>2 DEF NotStarted
    <3>3. <<>> \in Seq(Frame) /\ stack' = Append(<<>>, [blk |-> main, pos |-> 1])
      BY <1>2, <1>3
    <3>4. Waiting(<<>>, b) = {}
      BY DEF Waiting
    <3>6. Cardinality(Waiting(<<>>, b)) = 0
      BY <3>4, FS_EmptySet
    <3>5. Cardinality(Waiting(stack', b)) = Cardinality(Waiting(<<>>, b)) + (IF b = main THEN 1 ELSE 0)
      BY <1>1, <1>3, <3>3, WaitingEntered DEF Types
    <3> QED
      BY <3>1, <3>2, <3>5, <3>6
  <2>3. \A b : Waiting(stack, b)' = Waiting(stack', b) /\ NumberOf(M, b)' = NumberOf(M, b)
    BY <1>1, Same, SameWaiting
  <2>4. \A b : Instrumented(M, b)' = Instrumented(M, b)
    BY <1>1 DEF Instrumented
  <2>5. counters' \in [0..(num' - 1) -> Nat]
    BY <1>1, <2>1
  <2> QED
    BY <1>1, <2>2, <2>3, <2>4, <2>5 DEF Following
<1>10. Writing'
  <2> DEFINE l == Len(code'[main])
  <2>3. stack'[1].blk = main /\ stack'[1].pos = 1 /\ l \in Nat /\ l > 1
    BY <1>6, <1>7
  <2>4. Len(code'[stack'[1].blk]) = l
    BY <2>3
  <2> HIDE DEF l
  <2>1. stack'[1].pos # Len(code'[stack'[1].blk])
    BY <2>3, <2>4
  <2>2. profile' = <<>> /\ stack' # <<>>
    BY <1>1, <1>7
  <2> QED
    BY <2>1, <2>2 DEF Writing
<1>11. NotStarted'
  BY <1>1 DEF NotStarted, Running
<1> QED
  BY <1>8, <1>9, <1>10, <1>11 DEF IInv

LEMMA NoReturnIInv == IInv /\ NoReturn => IInv'
<1> SUFFICES ASSUME IInv, NoReturn PROVE IInv'
  OBVIOUS
<1>1. /\ Types /\ Numbering /\ NotStarted /\ phase = "hook" /\ phase' = "run" /\ HasMain(M)
      /\ UNCHANGED <<M, code, blk, num, i, profile>> /\ Start /\ Returns(M) = {}
  BY DEF IInv, NoReturn, Types, Start
<1>2. entered' \in [DOMAIN M.blocks -> Nat]
  BY <1>1 DEF Start, Types
<1>3. Types'
  BY <1>1, <1>2 DEF Types, HasMain
<1>4. \A b \in DOMAIN M.blocks : HasCounter(b)' = HasCounter(b)
  BY <1>1, Same
<1>5. Numbering'
  BY <1>1, <1>4 DEF Numbering, Running, Returns
<1> QED
  BY <1>1, <1>3, <1>5, StartIInv

\* The block that is given the call of the writer.
LEMMA Hooking ==
    ASSUME M \in Modules, M' = M, NEW b \in Returns(M), HasCounter(b), ~HasWrite(b),
           code'[b] = InsertAt(code[b], Len(code[b]), Write)
    PROVE  HasCounter(b)' /\ HasWrite(b)'
<1> DEFINE S == Given \cup Inserted
<1>1. b \in DOMAIN M.blocks /\ Size(b) \in Nat \ {0}
  BY Instructions DEF Returns
<1>2. PICK s \in Seq(S) : s = code[b] /\ Len(s) = Size(b) + 1 /\ s # <<>>
  BY <1>1 DEF HasCounter
<1>3. Write \in S
  BY DEF Write, Inserted
<1>4. /\ \A k \in 1..(Size(b) - 1) : s[k] = M.blocks[b].code[k]
      /\ s[Size(b)] = Count(NumberOf(M, b)) /\ s[Len(s)] = M.blocks[b].code[Size(b)]
  BY <1>2 DEF HasCounter
<1>5. Size(b)' = Size(b) /\ NumberOf(M, b)' = NumberOf(M, b) /\ S' = S /\ Returns(M)' = Returns(M)
  BY Same DEF Given, Inserted, Returns
<1> HIDE DEF S
<1> DEFINE t == InsertAt(s, Len(s), Write)
<1>6. t \in Seq(S) /\ Len(t) = Len(s) + 1 /\ Agree(t, s, Len(s) - 1)
      /\ t[Len(s)] = Write /\ t[Len(s) + 1] = s[Len(s)]
  BY <1>2, <1>3, Inserting
<1>7. code'[b] = t
  BY <1>2
<1> HIDE DEF t
<1>8. \A k \in 1..Size(b) : t[k] = s[k]
  BY <1>1, <1>2, <1>6 DEF Agree
<1>9. HasWrite(b)'
  BY <1>1, <1>2, <1>5, <1>6, <1>7 DEF HasWrite
<1>10. t[Len(t)] = M.blocks[b].code[Size(b)] /\ t[Size(b) + 1] = Write /\ t[Size(b)] = Count(NumberOf(M, b))
  BY <1>1, <1>2, <1>4, <1>6, <1>8
<1>11. \A k \in 1..(Size(b) - 1) : t[k] = M.blocks[b].code[k]
  BY <1>1, <1>4, <1>8
<1>12. code'[b] \in Seq((Given \cup Inserted)')
  BY <1>5, <1>6, <1>7 DEF S
<1> QED
  BY <1>5, <1>7, <1>9, <1>10, <1>11, <1>12 DEF HasCounter

LEMMA InsertWriteIInv == IInv /\ InsertWrite => IInv'
<1> SUFFICES ASSUME IInv, InsertWrite PROVE IInv'
  OBVIOUS
<1> DEFINE b0 == FirstReturn
<1>1. /\ Types /\ Numbering /\ NotStarted /\ phase = "hook" /\ phase' = "run" /\ HasMain(M)
      /\ UNCHANGED <<M, blk, num, i, profile>> /\ Start /\ Returns(M) # {}
      /\ code' = [code EXCEPT ![b0] = InsertAt(@, Len(code[b0]), Write)]
  BY DEF IInv, InsertWrite, CallWriter, Types, Start
<1>2. entered' \in [DOMAIN M.blocks -> Nat]
  BY <1>1 DEF Start, Types
<1>3. Types'
  BY <1>1, <1>2 DEF Types, HasMain
<1>4. PICK b \in Returns(M) : b = b0 /\ (Cardinality(Returns(M)) = 1 => Returns(M) = {b})
  BY <1>1, FirstReturnFacts DEF Types
<1> HIDE DEF b0
<1>5. b \in DOMAIN M.blocks /\ Instrumented(M, b)
  BY <1>4 DEF Returns, Instrumented
<1>6. HasCounter(b) /\ ~HasWrite(b)
  <2>1. HasCounter(b)
    BY <1>1, <1>5, NumberBelow
  <2> QED
    BY <1>1, <1>5, <2>1 DEF Numbering, Running
<1>7. HasCounter(b)' /\ HasWrite(b)'
  <2>1. code'[b] = InsertAt(code[b], Len(code[b]), Write)
    BY <1>1, <1>4, <1>5 DEF Types
  <2> QED
    BY <1>1, <1>6, <2>1, Hooking DEF Types
<1>8. ASSUME NEW c \in DOMAIN M.blocks, c # b PROVE HasCounter(c)' = HasCounter(c) /\ code'[c] = code[c]
  <2>1. code'[c] = code[c]
    BY <1>1, <1>4, <1>8 DEF Types
  <2> QED
    BY <1>1, <2>1, Same
<1>9. ASSUME NEW c \in DOMAIN M.blocks
      PROVE  IF c < blk /\ Instrumented(M, c) THEN HasCounter(c)' ELSE code'[c] = M.blocks[c].code
  <2>1. IF c < blk /\ Instrumented(M, c) THEN HasCounter(c) ELSE code[c] = M.blocks[c].code
    BY <1>1 DEF Numbering
  <2>2. blk = Len(M.blocks) + 1
    BY <1>1 DEF Numbering
  <2>3. c < blk
    BY <1>1, <2>2, Blocks
  <2> QED
    BY <1>5, <1>7, <1>8, <2>1, <2>3
<1>10. Numbering'
  <2>1. Running' /\ phase' # "count" /\ Returns(M)' = Returns(M)
    BY <1>1 DEF Running, Returns
  <2>2. Cardinality(Returns(M)) = 1 => \A c \in Returns(M) : HasWrite(c)'
    BY <1>4, <1>7
  <2> QED
    BY <1>1, <1>9, <2>1, <2>2 DEF Numbering, Instrumented
<1> QED
  BY <1>1, <1>3, <1>10, StartIInv

-----------------------------------------------------------------------------
(* The run.                                                                *)

\* Whatever the program does, it leaves what the pass wrote.
LEMMA RunKeeps ==
    ASSUME IInv, phase = "run", Below, phase' \in {"run", "done"},
           entered' \in [DOMAIN M.blocks -> Nat]
    PROVE  Types' /\ Numbering' /\ NotStarted' /\ Running'
<1>1. Types /\ Numbering /\ HasMain(M) /\ Running /\ UNCHANGED <<M, code, blk, num, i>>
  BY DEF IInv, Below, Types, Running
<1>2. Types'
  BY <1>1 DEF Types, HasMain
<1>3. Running' /\ HasMain(M)'
  BY <1>1 DEF Running, HasMain
<1>4. \A b \in DOMAIN M.blocks : HasCounter(b)' = HasCounter(b) /\ HasWrite(b)' = HasWrite(b)
  BY <1>1, Same
<1>5. /\ num = NumberOf(M, Len(M.blocks) + 1) /\ i = NumberOf(M, blk) /\ blk = Len(M.blocks) + 1
      /\ \A b \in DOMAIN M.blocks : IF b < blk /\ Instrumented(M, b)
                                    THEN HasCounter(b) ELSE code[b] = M.blocks[b].code
      /\ Cardinality(Returns(M)) = 1 => \A b \in Returns(M) : HasWrite(b)
  BY <1>1 DEF Numbering
<1>6. Returns(M) \subseteq DOMAIN M.blocks /\ Returns(M)' = Returns(M)
  BY <1>1 DEF Returns
<1>7. Numbering'
  BY <1>1, <1>3, <1>4, <1>5, <1>6 DEF Numbering, Instrumented
<1> QED
  BY <1>2, <1>3, <1>7 DEF NotStarted

\* Where the innermost activation is.
LEMMA TopFacts ==
    ASSUME IInv, phase = "run"
    PROVE  /\ stack \in Seq(Frame) /\ Len(stack) \in Nat \ {0} /\ DOMAIN stack = 1..Len(stack)
           /\ Top = stack[Len(stack)] /\ Top.blk \in DOMAIN M.blocks
           /\ Instrumented(M, Top.blk) /\ HasCounter(Top.blk)
           /\ Size(Top.blk) \in Nat \ {0} /\ Top.pos \in 1..Len(code[Top.blk])
           /\ Len(code[Top.blk]) \in {Size(Top.blk) + 1, Size(Top.blk) + 2}
           /\ M.kind[M.blocks[Top.blk].fn] = IF Len(stack) = 1 THEN "main" ELSE "plain"
<1>1. Types /\ Numbering /\ Frames /\ Running /\ HasMain(M)
  BY DEF IInv, Types, Running
<1>2. stack \in Seq(Frame) /\ stack # <<>>
  BY <1>1 DEF Frames
<1>3. /\ Len(stack) \in Nat \ {0} /\ DOMAIN stack = 1..Len(stack)
      /\ Top = stack[Len(stack)] /\ Top \in Frame /\ Len(stack) \in DOMAIN stack
  BY <1>2, Element DEF Top
<1>4. /\ Top.pos \in DOMAIN code[Top.blk]
      /\ M.kind[M.blocks[Top.blk].fn] = IF Len(stack) = 1 THEN "main" ELSE "plain"
  BY <1>1, <1>3 DEF Frames
<1>5. Top.blk \in DOMAIN M.blocks /\ Instrumented(M, Top.blk)
  BY <1>3, <1>4 DEF Frame, Instrumented
<1>6. HasCounter(Top.blk)
  BY <1>1, <1>5, NumberBelow
<1>7. /\ Size(Top.blk) \in Nat \ {0} /\ DOMAIN code[Top.blk] = 1..Len(code[Top.blk])
      /\ Len(code[Top.blk]) \in {Size(Top.blk) + 1, Size(Top.blk) + 2}
  BY <1>1, <1>5, <1>6, Instructions, Code DEF Types
<1> QED
  BY <1>2, <1>3, <1>4, <1>5, <1>6, <1>7

LEMMA OpFacts ==
    ASSUME IInv, phase = "run"
    PROVE  /\ At("count") => Top.pos = Size(Top.blk)
           /\ At("other") \/ At("call") \/ At("exit") => Top.pos < Size(Top.blk)
           /\ At("br") \/ At("ret") => Top.pos = Len(code[Top.blk])
           /\ At("write") => /\ HasWrite(Top.blk) /\ Top.pos = Size(Top.blk) + 1
                            /\ Len(stack) = 1
<1> DEFINE b == Top.blk k == Top.pos op == code[b][k].op
<1>1. /\ b \in DOMAIN M.blocks /\ HasCounter(b) /\ Size(b) \in Nat \ {0}
      /\ Len(code[b]) \in {Size(b) + 1, Size(b) + 2} /\ k \in 1..Len(code[b])
      /\ M.kind[M.blocks[b].fn] = IF Len(stack) = 1 THEN "main" ELSE "plain"
  BY TopFacts
<1>2. M \in Modules
  BY DEF IInv, Types
<1> HIDE DEF b, k
<1>3. /\ k \in 1..(Size(b) - 1) => op \in {"other", "call", "exit"}
      /\ k = Size(b) => op = "count"
      /\ HasWrite(b) /\ k = Size(b) + 1 => op = "write" /\ b \in Returns(M)
      /\ k = Len(code[b]) => op \in {"br", "ret"}
  <2>1. k \in 1..(Size(b) - 1) => op \in {"other", "call", "exit"}
    BY <1>1, <1>2, Code
  <2>2. k = Size(b) => op = "count"
    BY <1>1, <1>2, Code
  <2>3. HasWrite(b) /\ k = Size(b) + 1 => op = "write" /\ b \in Returns(M)
    BY <1>1, <1>2, Code
  <2>4. k = Len(code[b]) => op \in {"br", "ret"}
    BY <1>1, <1>2, Code
  <2> QED
    BY <2>1, <2>2, <2>3, <2>4
<1>4. HasWrite(b) <=> Len(code[b]) = Size(b) + 2
  BY DEF HasWrite
<1> HIDE DEF op
<1>5. \/ k < Size(b) /\ op \in {"other", "call", "exit"}
      \/ k = Size(b) /\ op = "count"
      \/ k = Size(b) + 1 /\ HasWrite(b) /\ op = "write" /\ b \in Returns(M)
      \/ k = Len(code[b]) /\ op \in {"br", "ret"}
  BY <1>1, <1>3, <1>4
<1>6. b \in Returns(M) => Len(stack) = 1
  BY <1>1 DEF Returns
<1> QED
  BY <1>5, <1>6 DEF At, op, b, k

\* main is at the end of a block that calls the writer.
AtWritten(frame) == HasWrite(frame.blk) /\ frame.pos = Len(code[frame.blk])

LEMMA Unwritten ==
    ASSUME IInv, phase = "run"
    PROVE  /\ Top.pos <= Size(Top.blk) \/ At("br") \/ Len(stack) > 1 => profile = <<>>
           /\ profile = <<>> => ~AtWritten(stack[1])
<1>1. /\ Len(stack) \in Nat \ {0} /\ Top = stack[Len(stack)] /\ Top.blk \in DOMAIN M.blocks
      /\ HasCounter(Top.blk) /\ Size(Top.blk) \in Nat \ {0} /\ stack # <<>>
      /\ Len(code[Top.blk]) \in {Size(Top.blk) + 1, Size(Top.blk) + 2}
  BY TopFacts
<1>2. /\ profile # <<>> => /\ Len(stack) = 1 /\ stack[1].pos = Len(code[stack[1].blk])
                           /\ HasWrite(stack[1].blk)
      /\ profile = <<>> => ~AtWritten(stack[1])
  BY <1>1 DEF IInv, Writing, Running, AtWritten
<1>3. Top.pos <= Size(Top.blk) => profile = <<>>
  BY <1>1, <1>2
<1>4. Len(stack) > 1 => profile = <<>>
  BY <1>1, <1>2
<1>5. ASSUME At("br"), profile # <<>> PROVE FALSE
  <2>1. Len(stack) = 1 /\ HasWrite(Top.blk) /\ Top.pos = Len(code[Top.blk])
    BY <1>1, <1>2, <1>5
  <2>2. Top.blk \in Returns(M) /\ code[Top.blk][Top.pos].op = Last(M.blocks[Top.blk].code).op
    BY <1>1, <2>1, Code DEF IInv, Types
  <2>3. code[Top.blk][Top.pos].op = "ret"
    BY <2>2 DEF Returns
  <2> QED
    BY <1>5, <2>3 DEF At
<1> QED
  BY <1>2, <1>3, <1>4, <1>5

\* A frame of the running program: inside the code of a block of its function.
Inside(frames) ==
    \A n \in DOMAIN frames :
        /\ frames[n].pos \in DOMAIN code[frames[n].blk]
        /\ M.kind[M.blocks[frames[n].blk].fn] = IF n = 1 THEN "main" ELSE "plain"

LEMMA MovedFacts ==
    ASSUME IInv, phase = "run", Top.pos < Len(code[Top.blk])
    PROVE  /\ Moved \in Seq(Frame) /\ Moved # <<>> /\ Inside(Moved) /\ Len(Moved) = Len(stack)
           /\ Top.pos <= Size(Top.blk) => ~AtWritten(Moved[1])
<1>1. /\ stack \in Seq(Frame) /\ Len(stack) \in Nat \ {0} /\ DOMAIN stack = 1..Len(stack)
      /\ Top = stack[Len(stack)] /\ Top.blk \in DOMAIN M.blocks
      /\ HasCounter(Top.blk) /\ Top.pos \in 1..Len(code[Top.blk])
      /\ Size(Top.blk) \in Nat \ {0} /\ Len(code[Top.blk]) \in {Size(Top.blk) + 1, Size(Top.blk) + 2}
      /\ M.kind[M.blocks[Top.blk].fn] = IF Len(stack) = 1 THEN "main" ELSE "plain"
  BY TopFacts
<1>2. stack # <<>> /\ M \in Modules
  BY <1>1 DEF IInv, Types
<1>3. /\ Moved \in Seq(Frame) /\ Len(Moved) = Len(stack)
      /\ \A n \in 1..(Len(stack) - 1) : Moved[n] = stack[n]
      /\ Moved[Len(stack)].blk = Top.blk /\ Moved[Len(stack)].pos = Top.pos + 1
  BY <1>1, <1>2, WaitingMoved
<1>4. DOMAIN Moved = 1..Len(stack)
  BY <1>3, Element
<1>5. ASSUME NEW n \in 1..Len(stack)
      PROVE  /\ Moved[n].pos \in DOMAIN code[Moved[n].blk]
             /\ M.kind[M.blocks[Moved[n].blk].fn] = IF n = 1 THEN "main" ELSE "plain"
  <2>1. CASE n = Len(stack)
    <3>1. Top.pos + 1 \in DOMAIN code[Top.blk]
      BY <1>1, <1>2, Code
    <3> QED
      BY <1>1, <1>3, <2>1, <3>1
  <2>2. CASE n # Len(stack)
    <3> DEFINE m == Len(stack)
    <3>3. m \in Nat \ {0} /\ n \in 1..m /\ n # m
      BY <1>1, <2>2
    <3> HIDE DEF m
    <3>4. n \in 1..(m - 1)
      BY <3>3
    <3>1. n \in 1..(Len(stack) - 1) /\ n \in DOMAIN stack
      BY <1>1, <3>4 DEF m
    <3>2. Moved[n] = stack[n]
      BY <1>3, <3>1
    <3> QED
      BY <3>1, <3>2 DEF IInv, Frames, Running
  <2> QED
    BY <2>1, <2>2
<1>6. Inside(Moved)
  BY <1>4, <1>5 DEF Inside
<1>7. ASSUME Top.pos <= Size(Top.blk) PROVE ~AtWritten(Moved[1])
  <2>1. CASE Len(stack) = 1
    <3>1. Moved[1].blk = Top.blk /\ Moved[1].pos = Top.pos + 1
      BY <1>3, <2>1
    <3>2. ~(HasWrite(Top.blk) /\ Top.pos + 1 = Len(code[Top.blk]))
      BY <1>1, <1>7 DEF HasWrite
    <3> QED
      BY <3>1, <3>2 DEF AtWritten
  <2>2. CASE Len(stack) # 1
    <3>1. Moved[1] = stack[1]
      BY <1>1, <1>3, <2>2
    <3> QED
      BY <1>7, <3>1, Unwritten
  <2> QED
    BY <2>1, <2>2
<1> QED
  BY <1>1, <1>3, <1>6, <1>7

\* A block is entered over the frames that stay.
LEMMA EnterIInv ==
    ASSUME IInv, phase = "run", NEW c \in DOMAIN M.blocks, NEW frames \in Seq(Frame),
           EnterBlock(c, frames), profile = <<>>, Inside(frames),
           M.kind[M.blocks[c].fn] = IF frames = <<>> THEN "main" ELSE "plain",
           frames # <<>> => ~AtWritten(frames[1]),
           \A b \in DOMAIN M.blocks :
               Cardinality(Waiting(frames, b)) = Cardinality(Waiting(stack, b))
    PROVE  IInv'
<1>1. /\ Types /\ Numbering /\ Following /\ Running /\ HasMain(M) /\ phase' = "run"
      /\ UNCHANGED <<M, code, blk, num, i, counters, profile>>
      /\ stack' = Append(frames, [blk |-> c, pos |-> 1])
      /\ entered' = [entered EXCEPT ![c] = @ + 1]
  BY DEF IInv, EnterBlock, Below, Types, Running
<1>2. entered' \in [DOMAIN M.blocks -> Nat] /\ \A b \in DOMAIN M.blocks : entered[b] \in Nat
  BY <1>1 DEF Types
<1>3. Types' /\ Numbering' /\ NotStarted' /\ Running'
  BY <1>1, <1>2, RunKeeps DEF Below
<1>4. Instrumented(M, c)
  BY DEF Instrumented
<1>5. /\ Size(c) \in Nat \ {0} /\ DOMAIN code[c] = 1..Len(code[c])
      /\ Len(code[c]) \in {Size(c) + 1, Size(c) + 2}
  BY <1>1, <1>4, NumberBelow, Instructions, Code DEF Types
<1> DEFINE n == Len(frames) + 1 first == [blk |-> c, pos |-> 1]
<1>6. /\ stack' \in Seq(Frame) /\ DOMAIN stack' = 1..n /\ n \in Nat \ {0} /\ stack' # <<>>
      /\ DOMAIN frames = 1..(n - 1) /\ (frames = <<>>) = (n = 1)
      /\ \A k \in 1..(n - 1) : stack'[k] = frames[k]
      /\ stack'[n] = first
  <2>1. first \in Frame
    BY DEF Frame
  <2> QED
    BY <1>1, <2>1
<1> HIDE DEF n
<1>7. Frames'
  <2>1. Frame' = Frame
    BY <1>1 DEF Frame
  <2>2. ASSUME NEW k \in 1..n
        PROVE  /\ stack'[k].pos \in DOMAIN code[stack'[k].blk]
               /\ M.kind[M.blocks[stack'[k].blk].fn] = IF k = 1 THEN "main" ELSE "plain"
    <3>1. CASE k = n
      BY <1>5, <1>6, <3>1
    <3>2. CASE k # n
      <4>1. k \in DOMAIN frames /\ stack'[k] = frames[k]
        BY <1>6, <3>2
      <4> QED
        BY <4>1 DEF Inside
    <3> QED
      BY <3>1, <3>2
  <2> QED
    BY <1>1, <1>6, <2>1, <2>2 DEF Frames
<1>8. Following'
  <2>1. ASSUME NEW b \in DOMAIN M.blocks, Instrumented(M, b)
        PROVE  entered'[b] = counters[NumberOf(M, b)] + Cardinality(Waiting(stack', b))
    <3>1. entered[b] = counters[NumberOf(M, b)] + Cardinality(Waiting(stack, b))
      BY <1>1, <2>1 DEF Following
    <3>2. counters[NumberOf(M, b)] \in Nat
      BY <1>1, <2>1, NumberBelow DEF Following
    <3>3. Cardinality(Waiting(stack', b)) = Cardinality(Waiting(frames, b)) + (IF b = c THEN 1 ELSE 0)
      BY <1>1, WaitingEntered DEF Types
    <3>4. Cardinality(Waiting(frames, b)) \in Nat /\ Cardinality(Waiting(frames, b)) = Cardinality(Waiting(stack, b))
      BY WaitingFinite
    <3>5. entered'[b] = entered[b] + (IF b = c THEN 1 ELSE 0)
      BY <1>1, <1>2 DEF Types
    <3> QED
      BY <3>1, <3>2, <3>3, <3>4, <3>5
  <2>2. \A b : Waiting(stack, b)' = Waiting(stack', b) /\ NumberOf(M, b)' = NumberOf(M, b)
    BY <1>1, Same, SameWaiting
  <2>3. \A b : Instrumented(M, b)' = Instrumented(M, b)
    BY <1>1 DEF Instrumented
  <2>4. counters' \in [0..(num' - 1) -> Nat]
    BY <1>1 DEF Following
  <2> QED
    BY <1>1, <2>1, <2>2, <2>3, <2>4 DEF Following
<1>9. Writing'
  <2>1. ~(HasWrite(stack[1].blk)' /\ stack'[1].pos = Len(code'[stack'[1].blk]))
    <3>1. CASE n = 1
      <4>1. stack'[1].blk = c /\ stack'[1].pos = 1 /\ code'[c] = code[c]
        BY <1>1, <1>6, <3>1
      <4> DEFINE l == Len(code[c])
      <4>3. l \in {Size(c) + 1, Size(c) + 2} /\ Size(c) \in Nat \ {0}
        BY <1>5
      <4> HIDE DEF l
      <4>4. l # 1
        BY <4>3
      <4>2. Len(code[c]) # 1
        BY <4>4 DEF l
      <4> QED
        BY <4>1, <4>2
    <3>2. CASE n # 1
      <4>1. stack'[1] = frames[1] /\ ~AtWritten(frames[1])
        BY <1>6, <3>2
      <4>2. Size(frames[1].blk)' = Size(frames[1].blk)
        BY <1>1, <1>6, <4>1 DEF Size
      <4> QED
        BY <1>1, <4>1, <4>2 DEF AtWritten, HasWrite, Size
    <3> QED
      BY <3>1, <3>2
  <2> QED
    BY <1>1, <1>6, <2>1 DEF Writing
<1> QED
  BY <1>3, <1>7, <1>8, <1>9 DEF IInv

LEMMA NotWritten ==
    ASSUME IInv, Below, profile' = <<>>, stack' # <<>>, ~AtWritten(stack'[1])
    PROVE  Writing'
<1>1. M' = M /\ code' = code
  BY DEF Below
<1>2. HasWrite(stack[1].blk)' = (Len(code[stack'[1].blk]) = Size(stack'[1].blk) + 2)
  BY <1>1 DEF HasWrite, Size
<1>3. ~(HasWrite(stack[1].blk)' /\ stack'[1].pos = Len(code'[stack'[1].blk]))
  BY <1>1, <1>2 DEF AtWritten, HasWrite
<1> QED
  BY <1>3 DEF Writing

LEMMA FollowingKeeps ==
    ASSUME IInv, phase = "run", Below, counters' = counters, entered' = entered,
           \A b \in DOMAIN M.blocks : Cardinality(Waiting(stack', b)) = Cardinality(Waiting(stack, b))
    PROVE  Following'
<1>1. /\ M' = M /\ num' = num /\ counters \in [0..(num - 1) -> Nat]
      /\ \A b \in DOMAIN M.blocks : Instrumented(M, b) =>
             entered[b] = counters[NumberOf(M, b)] + Cardinality(Waiting(stack, b))
  BY DEF IInv, Following, Running, Below
<1>2. \A b : Waiting(stack, b)' = Waiting(stack', b) /\ NumberOf(M, b)' = NumberOf(M, b)
  BY <1>1, Same, SameWaiting
<1>3. \A b : Instrumented(M, b)' = Instrumented(M, b)
  BY <1>1 DEF Instrumented
<1> QED
  BY <1>1, <1>2, <1>3 DEF Following

LEMMA MovedIInv ==
    ASSUME IInv, phase = "run", Top.pos < Len(code[Top.blk]), Below, phase' = "run",
           stack' = Moved, entered' = entered, Following', Writing'
    PROVE  IInv'
<1>1. Types' /\ Numbering' /\ NotStarted' /\ Running'
  BY RunKeeps DEF IInv, Types
<1>2. stack' \in Seq(Frame) /\ stack' # <<>> /\ Inside(stack')
  BY MovedFacts
<1>3. Frames'
  <2>1. M' = M /\ code' = code /\ Frame' = Frame
    BY DEF Below, Frame
  <2> QED
    BY <1>2, <2>1 DEF Frames, Inside
<1> QED
  BY <1>1, <1>3 DEF IInv

LEMMA IncrementIInv == IInv /\ Increment => IInv'
<1> SUFFICES ASSUME IInv, Increment PROVE IInv'
  OBVIOUS
<1> DEFINE t == Top.blk
<1>1. /\ phase = "run" /\ At("count") /\ Below /\ stack' = Moved /\ phase' = "run"
      /\ entered' = entered /\ profile' = profile /\ M \in Modules
      /\ counters' = [counters EXCEPT ![Current.n] = @ + 1]
  BY DEF Increment, At, IInv, Types
<1>2. /\ t \in DOMAIN M.blocks /\ HasCounter(t) /\ Instrumented(M, t) /\ Size(t) \in Nat \ {0}
      /\ Len(code[t]) \in {Size(t) + 1, Size(t) + 2} /\ stack \in Seq(Frame) /\ stack # <<>>
  BY <1>1, TopFacts
<1>3. Top.pos = Size(t)
  BY <1>1, OpFacts
<1>4. Top.pos < Len(code[t]) /\ Top.pos <= Size(t)
  BY <1>2, <1>3
<1>5. Current.n = NumberOf(M, t)
  BY <1>1, <1>2, <1>3, Code DEF Current
<1>6. Writing'
  <2>1. profile' = <<>>
    BY <1>1, <1>4, Unwritten
  <2>2. stack' # <<>> /\ ~AtWritten(stack'[1])
    BY <1>1, <1>4, MovedFacts
  <2> QED
    BY <1>1, <2>1, <2>2, NotWritten
<1>7. Following'
  <2>1. /\ counters \in [0..(num - 1) -> Nat] /\ M' = M /\ num' = num
        /\ \A b \in DOMAIN M.blocks : Instrumented(M, b) =>
               entered[b] = counters[NumberOf(M, b)] + Cardinality(Waiting(stack, b))
    BY <1>1 DEF IInv, Following, Running, Below
  <2>2. \A b \in DOMAIN M.blocks : Instrumented(M, b) => NumberOf(M, b) \in 0..(num - 1)
    BY <1>1, NumberBelow DEF IInv, Types
  <2>3. counters' \in [0..(num' - 1) -> Nat]
    BY <1>1, <1>2, <1>5, <2>1, <2>2
  <2>4. ASSUME NEW b \in DOMAIN M.blocks, Instrumented(M, b)
        PROVE  entered'[b] = counters'[NumberOf(M, b)] + Cardinality(Waiting(stack', b))
    <3>1. Cardinality(Waiting(stack, b)) =
              Cardinality(Waiting(stack', b)) + (IF b = t THEN 1 ELSE 0)
      BY <1>1, <1>2, <1>3, WaitingMoved
    <3>2. Cardinality(Waiting(stack', b)) \in Nat
      BY <1>1, <1>4, MovedFacts, WaitingFinite
    <3>3. b # t => NumberOf(M, b) # NumberOf(M, t)
      <4>1. b \in Nat \ {0} /\ t \in Nat \ {0}
        BY <1>2, Blocks DEF IInv
      <4>2. NumberOf(M, b) \in Nat /\ NumberOf(M, t) \in Nat
        BY <4>1, Numbers
      <4>3. b < t => NumberOf(M, b) < NumberOf(M, t)
        BY <2>4, <4>1, Ordered
      <4>4. t < b => NumberOf(M, t) < NumberOf(M, b)
        BY <1>2, <4>1, Ordered
      <4> QED
        BY <4>1, <4>2, <4>3, <4>4
    <3>4. counters'[NumberOf(M, b)] = counters[NumberOf(M, b)] + (IF b = t THEN 1 ELSE 0)
      BY <1>1, <1>2, <1>5, <2>1, <2>2, <2>4, <3>3
    <3>5. counters[NumberOf(M, b)] \in Nat
      BY <2>1, <2>2, <2>4
    <3>6. entered'[b] = counters[NumberOf(M, b)] + Cardinality(Waiting(stack, b))
      BY <1>1, <2>1, <2>4
    <3> HIDE DEF t
    <3> QED
      BY <3>1, <3>2, <3>4, <3>5, <3>6
  <2>5. \A b : Waiting(stack, b)' = Waiting(stack', b) /\ NumberOf(M, b)' = NumberOf(M, b)
    BY <2>1, Same, SameWaiting
  <2>6. \A b : Instrumented(M, b)' = Instrumented(M, b)
    BY <2>1 DEF Instrumented
  <2> QED
    BY <2>1, <2>3, <2>4, <2>5, <2>6 DEF Following
<1> QED
  BY <1>1, <1>4, <1>6, <1>7, MovedIInv

LEMMA ComputeIInv == IInv /\ Compute => IInv'
<1> SUFFICES ASSUME IInv, Compute PROVE IInv'
  OBVIOUS
<1>1. /\ phase = "run" /\ At("other") /\ Below /\ stack' = Moved /\ phase' = "run"
      /\ entered' = entered /\ profile' = profile /\ counters' = counters /\ M \in Modules
  BY DEF Compute, At, IInv, Types
<1>2. /\ Size(Top.blk) \in Nat \ {0} /\ Top.pos < Size(Top.blk) /\ Top.pos \in Nat
      /\ Len(code[Top.blk]) \in {Size(Top.blk) + 1, Size(Top.blk) + 2}
      /\ stack \in Seq(Frame) /\ stack # <<>>
  BY <1>1, TopFacts, OpFacts
<1>3. Top.pos < Len(code[Top.blk]) /\ Top.pos <= Size(Top.blk)
  BY <1>2
<1>4. Writing'
  <2>1. profile' = <<>>
    BY <1>1, <1>3, Unwritten
  <2>2. stack' # <<>> /\ ~AtWritten(stack'[1])
    BY <1>1, <1>3, MovedFacts
  <2> QED
    BY <1>1, <2>1, <2>2, NotWritten
<1>5. ASSUME NEW b \in DOMAIN M.blocks
      PROVE  Cardinality(Waiting(stack', b)) = Cardinality(Waiting(stack, b))
  <2>1. ~(b = Top.blk /\ Top.pos = Size(b))
    BY <1>2
  <2>2. Cardinality(Waiting(stack', b)) \in Nat
    BY <1>1, <1>3, MovedFacts, WaitingFinite
  <2> QED
    BY <1>1, <1>2, <2>1, <2>2, WaitingMoved
<1>6. Following'
  BY <1>1, <1>5, FollowingKeeps
<1> QED
  BY <1>1, <1>3, <1>4, <1>6, MovedIInv

LEMMA WriteProfileIInv == IInv /\ WriteProfile => IInv'
<1> SUFFICES ASSUME IInv, WriteProfile PROVE IInv'
  OBVIOUS
<1> DEFINE t == Top.blk
<1>1. /\ phase = "run" /\ At("write") /\ Below /\ stack' = Moved /\ phase' = "run"
      /\ entered' = entered /\ profile' = counters /\ counters' = counters /\ M \in Modules
  BY DEF WriteProfile, At, IInv, Types
<1>2. /\ t \in DOMAIN M.blocks /\ Size(t) \in Nat \ {0} /\ Top.pos = Size(t) + 1
      /\ stack \in Seq(Frame) /\ stack # <<>> /\ HasWrite(t) /\ Len(stack) = 1 /\ Instrumented(M, t)
  <2>1. /\ t \in DOMAIN M.blocks /\ Size(t) \in Nat \ {0} /\ Instrumented(M, t)
        /\ stack \in Seq(Frame) /\ Len(stack) \in Nat \ {0}
    BY <1>1, TopFacts
  <2>2. HasWrite(t) /\ Top.pos = Size(t) + 1 /\ Len(stack) = 1
    BY <1>1, OpFacts
  <2>3. stack # <<>>
    BY <2>2
  <2> QED
    BY <2>1, <2>2, <2>3, Zenon
<1>3. Top.pos < Len(code[t]) /\ Len(code[t]) = Size(t) + 2
  BY <1>2 DEF HasWrite
<1>4. stack'[1].blk = t /\ stack'[1].pos = Len(code[t]) /\ Len(stack') = 1
  <2>1. Moved[1].blk = t /\ Moved[1].pos = Top.pos + 1 /\ Len(Moved) = 1
    BY <1>1, <1>2, WaitingMoved
  <2> QED
    BY <1>1, <1>2, <1>3, <2>1
<1>5. profile' # <<>>
  <2>1. counters \in [0..(num - 1) -> Nat]
    BY <1>1 DEF IInv, Following, Running
  <2>2. NumberOf(M, t) \in 0..(num - 1)
    BY <1>1, <1>2, NumberBelow DEF IInv, Types
  <2>3. DOMAIN counters # {} /\ DOMAIN (<<>>) = {}
    BY <2>1, <2>2
  <2> QED
    BY <1>1, <2>3
<1>6. Writing'
  <2>1. HasWrite(stack[1].blk)' = HasWrite(t) /\ code' = code
    BY <1>1, <1>4 DEF HasWrite, Size, Below
  <2>2. stack' # <<>>
    BY <1>1, <1>3, MovedFacts
  <2> QED
    BY <1>1, <1>2, <1>4, <1>5, <2>1, <2>2 DEF Writing
<1>7. ASSUME NEW b \in DOMAIN M.blocks
      PROVE  Cardinality(Waiting(stack', b)) = Cardinality(Waiting(stack, b))
  <2>1. ~(b = Top.blk /\ Top.pos = Size(b))
    BY <1>2
  <2>2. Cardinality(Waiting(stack', b)) \in Nat
    BY <1>1, <1>3, MovedFacts, WaitingFinite
  <2> QED
    BY <1>1, <1>2, <2>1, <2>2, WaitingMoved
<1>8. Following'
  BY <1>1, <1>7, FollowingKeeps
<1> QED
  BY <1>1, <1>3, <1>6, <1>8, MovedIInv

LEMMA CallIInv == IInv /\ Call => IInv'
<1> SUFFICES ASSUME IInv, Call PROVE IInv'
  OBVIOUS
<1> DEFINE t == Top.blk
<1>1. phase = "run" /\ At("call") /\ EnterBlock(Entry(M, Current.callee), Moved) /\ M \in Modules
  BY DEF Call, At, IInv, Types
<1>2. /\ t \in DOMAIN M.blocks /\ HasCounter(t) /\ Size(t) \in Nat \ {0} /\ Top.pos < Size(t)
      /\ Top.pos \in 1..Len(code[t]) /\ Len(code[t]) \in {Size(t) + 1, Size(t) + 2}
      /\ stack \in Seq(Frame) /\ stack # <<>>
  BY <1>1, TopFacts, OpFacts
<1>3. Top.pos < Len(code[t]) /\ Top.pos <= Size(t) /\ Top.pos \in 1..(Size(t) - 1)
  BY <1>2
<1>4. Current.callee \in DOMAIN M.kind /\ M.kind[Current.callee] = "plain"
  BY <1>1, <1>2, <1>3, Code DEF Current, At
<1>5. PICK c \in DOMAIN M.blocks : c = Entry(M, Current.callee) /\ M.kind[M.blocks[c].fn] = "plain"
  BY <1>1, <1>4, EntryFacts
<1>6. PICK frames \in Seq(Frame) : /\ frames = Moved /\ frames # <<>> /\ Inside(frames)
                                  /\ ~AtWritten(frames[1])
  BY <1>1, <1>3, MovedFacts
<1>7. ASSUME NEW b \in DOMAIN M.blocks
      PROVE  Cardinality(Waiting(frames, b)) = Cardinality(Waiting(stack, b))
  <2>1. ~(b = Top.blk /\ Top.pos = Size(b))
    BY <1>2
  <2>2. Cardinality(Waiting(Moved, b)) \in Nat
    BY <1>1, <1>3, MovedFacts, WaitingFinite
  <2> QED
    BY <1>1, <1>2, <1>6, <2>1, <2>2, WaitingMoved
<1>8. profile = <<>>
  BY <1>1, <1>3, Unwritten
<1>9. EnterBlock(c, frames)
  BY <1>1, <1>5, <1>6
<1> QED
  BY <1>1, <1>5, <1>6, <1>7, <1>8, <1>9, EnterIInv

\* What is left when the innermost activation leaves its block.
LEMMA FrontFacts ==
    ASSUME IInv, phase = "run", Top.pos > Size(Top.blk)
    PROVE  /\ Front(stack) \in Seq(Frame) /\ Inside(Front(stack))
           /\ Front(stack) = <<>> <=> Len(stack) = 1
           /\ Front(stack) # <<>> => Front(stack)[1] = stack[1]
           /\ \A b \in DOMAIN M.blocks : Waiting(Front(stack), b) = Waiting(stack, b)
<1> DEFINE n == Len(stack) less == Front(stack)
<1>1. /\ stack \in Seq(Frame) /\ n \in Nat \ {0} /\ DOMAIN stack = 1..n /\ Top = stack[n]
      /\ M \in Modules
  BY TopFacts DEF IInv, Types
<1>2. /\ less \in Seq(Frame) /\ DOMAIN less = 1..(n - 1) /\ (less = <<>> <=> n = 1)
      /\ \A k \in 1..(n - 1) : less[k] = stack[k]
  <2>1. less = SubSeq(stack, 1, n - 1)
    BY DEF Front
  <2>2. less \in Seq(Frame) /\ Len(less) = n - 1
    BY <1>1, <2>1
  <2>3. DOMAIN less = 1..(n - 1) /\ (less = <<>> <=> n = 1)
    BY <1>1, <2>2
  <2>4. \A k \in 1..(n - 1) : less[k] = stack[k]
    BY <1>1, <2>1
  <2> QED
    BY <2>2, <2>3, <2>4
<1>3. Inside(less)
  <2>1. Inside(stack)
    BY DEF IInv, Frames, Running, Inside
  <2>2. DOMAIN less \subseteq DOMAIN stack
    BY <1>1, <1>2
  <2> HIDE DEF less, n
  <2> QED
    BY <1>2, <2>1, <2>2 DEF Inside
<1>4. less # <<>> => less[1] = stack[1]
  <2> HIDE DEF less, n
  <2> QED
    BY <1>1, <1>2
<1>5. \A b \in DOMAIN M.blocks : Waiting(less, b) = Waiting(stack, b)
  BY <1>1, WaitingLeft
<1> QED
  BY <1>2, <1>3, <1>4, <1>5

LEMMA BranchIInv == IInv /\ Branch => IInv'
<1> SUFFICES ASSUME IInv, Branch PROVE IInv'
  OBVIOUS
<1> DEFINE t == Top.blk
<1>1. phase = "run" /\ At("br") /\ M \in Modules
  BY DEF Branch, At, IInv, Types
<1>2. /\ t \in DOMAIN M.blocks /\ Size(t) \in Nat \ {0} /\ Top.pos = Len(code[t])
      /\ Len(code[t]) \in {Size(t) + 1, Size(t) + 2} /\ Len(stack) \in Nat \ {0}
      /\ M.kind[M.blocks[t].fn] = IF Len(stack) = 1 THEN "main" ELSE "plain"
  BY <1>1, TopFacts, OpFacts
<1>3. Top.pos > Size(t)
  BY <1>2
<1>4. PICK c \in M.blocks[t].succ : EnterBlock(c, Front(stack))
  BY DEF Branch
<1>5. c \in DOMAIN M.blocks /\ M.blocks[c].fn = M.blocks[t].fn
  BY <1>1, <1>2, Shape, Instructions
<1>6. profile = <<>> /\ ~AtWritten(stack[1])
  BY <1>1, Unwritten
<1>7. PICK frames \in Seq(Frame) :
         /\ frames = Front(stack) /\ Inside(frames) /\ (frames = <<>> <=> Len(stack) = 1)
         /\ frames # <<>> => frames[1] = stack[1]
         /\ \A b \in DOMAIN M.blocks : Waiting(frames, b) = Waiting(stack, b)
  BY <1>1, <1>3, FrontFacts
<1>8. EnterBlock(c, frames)
  BY <1>4, <1>7
<1> QED
  BY <1>1, <1>2, <1>5, <1>6, <1>7, <1>8, EnterIInv

LEMMA ReturnIInv == IInv /\ Return => IInv'
<1> SUFFICES ASSUME IInv, Return PROVE IInv'
  OBVIOUS
<1> DEFINE t == Top.blk
<1>1. /\ phase = "run" /\ At("ret") /\ M \in Modules /\ Below /\ stack' = Front(stack)
      /\ phase' = IF Len(stack) = 1 THEN "done" ELSE "run"
      /\ counters' = counters /\ entered' = entered /\ profile' = profile
  BY DEF Return, At, IInv, Types
<1>2. /\ t \in DOMAIN M.blocks /\ Size(t) \in Nat \ {0} /\ Top.pos = Len(code[t])
      /\ Len(code[t]) \in {Size(t) + 1, Size(t) + 2} /\ Len(stack) \in Nat \ {0}
      /\ M.kind[M.blocks[t].fn] = IF Len(stack) = 1 THEN "main" ELSE "plain"
      /\ HasCounter(t) /\ Top = stack[Len(stack)] /\ stack # <<>>
  BY <1>1, TopFacts, OpFacts
<1>3. Top.pos > Size(t)
  BY <1>2
<1>4. /\ stack' \in Seq(Frame) /\ Inside(stack') /\ (stack' = <<>> <=> Len(stack) = 1)
      /\ stack' # <<>> => stack'[1] = stack[1]
      /\ \A b \in DOMAIN M.blocks : Waiting(stack', b) = Waiting(stack, b)
  BY <1>1, <1>3, FrontFacts
<1>5. Types' /\ Numbering' /\ NotStarted' /\ Running'
  BY <1>1, RunKeeps DEF IInv, Types
<1>6. Following'
  BY <1>1, <1>4, FollowingKeeps
<1>7. Frames'
  <2>1. M' = M /\ code' = code /\ Frame' = Frame
    BY <1>1 DEF Below, Frame
  <2> QED
    BY <1>1, <1>4, <2>1 DEF Frames, Inside
<1>8. Writing'
  <2>1. CASE stack' = <<>>
    <3>1. profile # <<>> => profile = counters
      BY <1>1 DEF IInv, Writing, Running
    <3>2. ASSUME Cardinality(Returns(M)) = 1 PROVE profile # <<>>
      <4>1. Last(M.blocks[t].code).op = "ret"
        BY <1>1, <1>2, Code DEF At
      <4>2. t \in Returns(M)
        BY <1>2, <1>4, <2>1, <4>1 DEF Returns
      <4>3. HasWrite(t)
        BY <1>1, <3>2, <4>2 DEF IInv, Numbering, Running
      <4>4. stack[1].blk = t /\ stack[1].pos = Len(code[t])
        BY <1>2, <1>4, <2>1
      <4> QED
        BY <1>1, <1>2, <4>3, <4>4 DEF IInv, Writing, Running
    <3>3. Returns(M)' = Returns(M)
      BY <1>1 DEF Returns, Below
    <3> QED
      BY <1>1, <2>1, <3>1, <3>2, <3>3 DEF Writing
  <2>2. CASE stack' # <<>>
    <3> DEFINE n == Len(stack)
    <3>5. n # 1 /\ n \in Nat \ {0}
      BY <1>2, <1>4, <2>2
    <3> HIDE DEF n
    <3>6. n > 1
      BY <3>5
    <3>4. Len(stack) > 1
      BY <3>6 DEF n
    <3>1. profile = <<>> /\ ~AtWritten(stack[1])
      BY <1>1, <3>4, Unwritten
    <3>2. ~AtWritten(stack'[1])
      BY <1>4, <2>2, <3>1
    <3> QED
      BY <1>1, <2>2, <3>1, <3>2, NotWritten
  <2> QED
    BY <2>1, <2>2
<1> QED
  BY <1>5, <1>6, <1>7, <1>8 DEF IInv

LEMMA ExitIInv == IInv /\ Exit => IInv'
<1> SUFFICES ASSUME IInv, Exit PROVE IInv'
  OBVIOUS
<1>1. /\ phase = "run" /\ At("exit") /\ M \in Modules /\ Below /\ phase' = "done"
      /\ UNCHANGED <<stack, counters, entered, profile>>
  BY DEF Exit, At, IInv, Types, run
<1>2. Types' /\ Numbering' /\ NotStarted' /\ Running'
  BY <1>1, RunKeeps DEF IInv, Types
<1>3. /\ Size(Top.blk) \in Nat \ {0} /\ Top.pos < Size(Top.blk) /\ Top.pos \in Nat
      /\ Top.blk \in DOMAIN M.blocks /\ Len(stack) \in Nat \ {0} /\ stack # <<>>
      /\ stack \in Seq(Frame)
  BY <1>1, TopFacts, OpFacts
<1>4. profile = <<>> /\ ~AtWritten(stack[1])
  BY <1>1, <1>3, Unwritten
<1>5. Writing'
  BY <1>1, <1>3, <1>4, NotWritten
<1>6. Following'
  BY <1>1, FollowingKeeps
<1>7. Frames'
  <2>1. M' = M /\ code' = code /\ Frame' = Frame
    BY <1>1 DEF Below, Frame
  <2> QED
    BY <1>1, <1>3, <2>1 DEF IInv, Frames, Running
<1> QED
  BY <1>2, <1>5, <1>6, <1>7 DEF IInv

-----------------------------------------------------------------------------
LEMMA StutterIInv == IInv /\ UNCHANGED vars => IInv'
<1> SUFFICES ASSUME IInv, UNCHANGED vars PROVE IInv'
  OBVIOUS
<1>1. UNCHANGED <<M, code, phase, blk, num, i, stack, counters, entered, profile>>
  BY DEF vars
<1>2. \A b : HasCounter(b)' = HasCounter(b) /\ HasWrite(b)' = HasWrite(b)
  BY <1>1, Same
<1>3. Types' /\ NotStarted' /\ Frames'
  BY <1>1 DEF IInv, Types, NotStarted, Frames, Frame, Running, HasMain
<1>4. Numbering'
  BY <1>1, <1>2 DEF IInv, Numbering, Running, Returns, HasMain, NumberOf, Before, Instrumented
<1>5. Following'
  BY <1>1 DEF IInv, Following, Running, HasMain, NumberOf, Before, Instrumented, Waiting, Size
<1>6. Writing'
  BY <1>1 DEF IInv, Writing, Running, HasMain, HasWrite, Size, Returns
<1> QED
  BY <1>3, <1>4, <1>5, <1>6 DEF IInv

\* IInv is inductive: what the pass wrote into the code (Numbering) decides
\* where an activation can be, and so which counters are behind (Following).
THEOREM Invariant == Spec => []IInv
<1>1. IInv /\ [Next]_vars => IInv'
  BY CountBlockIInv, EndCountIInv, InstrumentBlockIInv, EndInstrumentIInv,
     InsertWriteIInv, NoReturnIInv, NoWriterIInv, IncrementIInv, ComputeIInv, CallIInv,
     BranchIInv, ReturnIInv, ExitIInv, WriteProfileIInv, StutterIInv DEF Next
<1> QED
  BY <1>1, InitIInv, PTL DEF Spec

LEMMA CountedFacts ==
    ASSUME IInv, NEW b \in Counted
    PROVE  /\ b \in DOMAIN M.blocks /\ Instrumented(M, b) /\ HasCounter(b)
           /\ HasMain(M) /\ phase # "count" /\ b < blk
           /\ Place(b) = Size(b) /\ Number(b) = NumberOf(M, b)
<1>1. Types /\ Numbering /\ b \in DOMAIN M.blocks /\ M \in Modules /\ DOMAIN code = DOMAIN M.blocks
  BY DEF IInv, Types, Counted
<1>2. code[b] # M.blocks[b].code
  BY <1>1, Places
<1>3. /\ Instrumented(M, b) /\ HasCounter(b) /\ HasMain(M) /\ phase # "count" /\ b < blk
  BY <1>1, <1>2 DEF Numbering
<1> QED
  BY <1>1, <1>3, Places

\* The numbers stay below NumBlocks, and every activation stands on an
\* instruction of its block.
THEOREM TypeCorrect == Spec => []TypeOK
<1> SUFFICES ASSUME IInv PROVE TypeOK
  BY Invariant, PTL
<1>1. Types /\ Numbering /\ NotStarted /\ Frames /\ Following /\ Writing
  BY DEF IInv
<1>2. num \in Nat /\ i \in 0..num
  <2> DEFINE l == Len(M.blocks) + 1
  <2>1. /\ l \in Nat \ {0} /\ blk \in Nat \ {0} /\ (blk < l \/ blk = l)
    BY <1>1, Blocks
  <2> HIDE DEF l
  <2>2. /\ NumberOf(M, blk) \in Nat /\ NumberOf(M, l) \in Nat /\ NumberOf(M, 1) = 0
        /\ NumberOf(M, blk) <= NumberOf(M, l)
    BY <2>1, Numbers, Ordered
  <2>3. /\ num = NumberOf(M, IF phase = "count" THEN blk ELSE IF HasMain(M) THEN l ELSE 1)
        /\ i = NumberOf(M, IF phase = "count" \/ ~HasMain(M) THEN 1 ELSE blk)
    BY <1>1 DEF Numbering, l
  <2> QED
    BY <2>2, <2>3
<1>3. ASSUME NEW b \in Counted PROVE Number(b) \in 0..(i - 1)
  <2>1. /\ b \in DOMAIN M.blocks /\ Instrumented(M, b) /\ b < blk /\ i = NumberOf(M, blk)
        /\ Number(b) = NumberOf(M, b)
    BY <1>1, CountedFacts DEF Numbering
  <2>2. b \in Nat \ {0} /\ blk \in Nat \ {0}
    BY <1>1, <2>1, Blocks
  <2>3. NumberOf(M, b) < NumberOf(M, blk)
    BY <2>1, <2>2, Ordered
  <2>4. NumberOf(M, b) \in Nat /\ NumberOf(M, blk) \in Nat
    BY <2>2, Numbers
  <2> QED
    BY <2>1, <2>3, <2>4
<1>4. /\ stack \in Seq([blk : DOMAIN code, pos : Nat \ {0}])
      /\ \A n \in DOMAIN stack : stack[n].pos \in DOMAIN code[stack[n].blk]
  <2>1. CASE Running
    BY <1>1, <2>1 DEF Frames, Frame, Types
  <2>2. CASE ~Running
    BY <1>1, <2>2 DEF NotStarted
  <2> QED
    BY <2>1, <2>2
<1>5. counters \in [DOMAIN counters -> Nat] /\ profile \in {<<>>} \cup [DOMAIN counters -> Nat]
  <2>1. CASE Running
    <3>1. counters \in [0..(num - 1) -> Nat] /\ (profile # <<>> => profile = counters)
      BY <1>1, <2>1 DEF Following, Writing
    <3> QED
      BY <3>1
  <2>2. CASE ~Running
    BY <1>1, <2>2 DEF NotStarted
  <2> QED
    BY <2>1, <2>2
<1> QED
  BY <1>1, <1>2, <1>3, <1>4, <1>5 DEF TypeOK, Types

\* Every entry of a block is in its counter, or the activation that made it is
\* still before the counter.
THEOREM CountersAreExact == Spec => []CountersFollow
<1> SUFFICES ASSUME IInv PROVE CountersFollow
  BY Invariant, PTL
<1> SUFFICES ASSUME Ran, NEW b \in DOMAIN code, Instrumented(M, b)
             PROVE  /\ b \in Counted
                    /\ entered[b] = counters[Number(b)]
                          + Cardinality({n \in DOMAIN stack : stack[n].blk = b /\ stack[n].pos <= Place(b)})
  BY DEF CountersFollow
<1>1. Types /\ Numbering /\ NotStarted /\ Following /\ DOMAIN code = DOMAIN M.blocks /\ M \in Modules
  BY DEF IInv, Types
<1>2. Running /\ HasMain(M)
  BY <1>1 DEF Ran, NotStarted, Running, Types
<1>3. HasCounter(b)
  BY <1>1, <1>2, NumberBelow DEF Running
<1>4. b \in Counted /\ Place(b) = Size(b) /\ Number(b) = NumberOf(M, b)
  BY <1>1, <1>3, Places
<1>5. entered[b] = counters[NumberOf(M, b)] + Cardinality(Waiting(stack, b))
  BY <1>1, <1>2 DEF Following
<1> QED
  BY <1>4, <1>5 DEF Waiting

\* A profile is how often each block was entered; a program that ends by the
\* only return of main has written one.
THEOREM ProfileIsExact == Spec => []FrequenciesExact
<1> SUFFICES ASSUME IInv PROVE FrequenciesExact
  BY Invariant, PTL
<1>1. Types /\ Numbering /\ NotStarted /\ Following /\ Writing /\ M \in Modules
  BY DEF IInv, Types
<1>2. ASSUME profile # <<>>, NEW b \in Counted PROVE profile[Number(b)] = entered[b]
  <2>1. Running
    BY <1>1, <1>2 DEF NotStarted
  <2>2. b \in DOMAIN M.blocks /\ Instrumented(M, b) /\ HasCounter(b) /\ Number(b) = NumberOf(M, b)
    BY CountedFacts
  <2>3. /\ profile = counters
        /\ stack # <<>> => /\ Len(stack) = 1 /\ HasWrite(stack[1].blk)
                           /\ stack[1].pos = Len(code[stack[1].blk])
    BY <1>1, <1>2, <2>1 DEF Writing
  <2>4. stack \in Seq(Frame)
    BY <2>1 DEF IInv, Frames
  <2>5. Size(b) \in Nat \ {0}
    BY <1>1, <2>2, Instructions
  <2>6. Waiting(stack, b) = {}
    <3>1. CASE stack = <<>>
      BY <3>1 DEF Waiting
    <3>2. CASE stack # <<>>
      <4>1. DOMAIN stack = {1}
        BY <2>3, <2>4, <3>2
      <4>2. stack[1].blk = b => stack[1].pos = Size(b) + 2
        BY <2>3, <3>2 DEF HasWrite
      <4> QED
        BY <2>5, <4>1, <4>2 DEF Waiting
    <3> QED
      BY <3>1, <3>2
  <2>7. Cardinality(Waiting(stack, b)) = 0
    BY <2>6, FS_EmptySet
  <2>8. entered[b] = counters[NumberOf(M, b)] + Cardinality(Waiting(stack, b))
    BY <1>1, <2>1, <2>2 DEF Following
  <2>9. counters[NumberOf(M, b)] \in Nat
    <3>1. counters \in [0..(num - 1) -> Nat]
      BY <1>1, <2>1 DEF Following
    <3>2. NumberOf(M, b) \in 0..(num - 1)
      BY <1>1, <2>1, <2>2, NumberBelow, CountedFacts DEF Running
    <3> QED
      BY <3>1, <3>2
  <2> QED
    BY <2>2, <2>3, <2>7, <2>8, <2>9
<1>3. ASSUME Ran, phase = "done", stack = <<>>, Cardinality(Returns(M)) = 1 PROVE profile # <<>>
  <2>1. Running
    BY <1>1, <1>3 DEF Ran, NotStarted
  <2> QED
    BY <1>1, <1>3, <2>1 DEF Writing
<1> QED
  BY <1>2, <1>3 DEF FrequenciesExact

-----------------------------------------------------------------------------
(* OutputResult.                                                           *)

\* The instructions of the program an activation has yet to execute in its
\* block: the last one is left until the block is.
Left(frame)    == IF frame.pos <= Size(frame.blk) THEN Size(frame.blk) - frame.pos + 1 ELSE 1
LeftIn(frames) == SumTo([n \in DOMAIN frames |-> Left(frames[n])], Len(frames))

\* The instructions of all blocks that were entered, the first n blocks.
Weights(times)   == [b \in DOMAIN M.blocks |-> times[b] * Size(b)]
Weight(times, n) == SumTo(Weights(times), n)

Executing ==
    /\ executed \in Nat
    /\ ~Running => executed = 0
    /\ \A b \in DOMAIN M.blocks : ~Instrumented(M, b) => entered[b] = 0
    /\ phase = "done" /\ profile # <<>> => stack = <<>>
    /\ phase = "run" \/ stack = <<>> => executed + LeftIn(stack) = Weight(entered, Len(M.blocks))

Reporting ==
    /\ report \in {"no", "read", "add", "done", "crashed"}
    /\ report # "no" => phase = "done"
    /\ report \in {"no", "read"} => at = 1
    /\ report \in {"read", "add"} \/ at > 1 => HasMain(M)
    /\ report = "add" \/ at > 1 => bbfreq = profile
    /\ at \in 1..(Len(M.blocks) + 1) /\ (report = "done" /\ at > 1 => at = Len(M.blocks) + 1)
    /\ IF report = "crashed"
       THEN profile = <<>>
       ELSE /\ place = NumberOf(M, at) /\ instNum = Weight(entered, at - 1)
            /\ profile = <<>> => place = 0

RInv == IInv /\ Executing /\ Reporting

LEMMA LeftType ==
    ASSUME M \in Modules, NEW frames \in Seq(Frame)
    PROVE  /\ \A n \in 1..Len(frames) : Left(frames[n]) \in Nat
           /\ LeftIn(frames) \in Nat
           /\ frames = <<>> => LeftIn(frames) = 0
<1> DEFINE f == [n \in DOMAIN frames |-> Left(frames[n])] l == Len(frames)
<1>1. l \in Nat /\ DOMAIN frames = 1..l /\ \A n \in 1..l : frames[n] \in Frame
  BY Element
<1>2. ASSUME NEW frame \in Frame PROVE Left(frame) \in Nat
  <2>1. frame.blk \in DOMAIN M.blocks /\ frame.pos \in Nat
    BY DEF Frame
  <2>2. Size(frame.blk) \in Nat
    BY <2>1, Instructions
  <2> QED
    BY <2>1, <2>2 DEF Left
<1>3. \A n \in 1..l : f[n] \in Nat /\ Left(frames[n]) \in Nat
  BY <1>1, <1>2
<1>4. LeftIn(frames) = SumTo(f, l)
  BY DEF LeftIn
<1>5. frames = <<>> => l = 0
  OBVIOUS
<1> HIDE DEF f, l
<1>6. SumTo(f, l) \in Nat
  BY <1>1, <1>3, SumNat
<1> QED
  BY <1>3, <1>4, <1>5, <1>6, SumZero DEF l

\* An activation more, on top of the others.
LEMMA LeftPushed ==
    ASSUME M \in Modules, NEW frames \in Seq(Frame), NEW more \in Seq(Frame),
           Len(more) = Len(frames) + 1, \A n \in 1..Len(frames) : more[n] = frames[n]
    PROVE  LeftIn(more) = LeftIn(frames) + Left(more[Len(more)])
<1> DEFINE f == [n \in DOMAIN frames |-> Left(frames[n])] g == [n \in DOMAIN more |-> Left(more[n])]
           l == Len(frames)
<1>1. /\ l \in Nat /\ DOMAIN frames = 1..l /\ DOMAIN more = 1..(l + 1) /\ Len(more) = l + 1
      /\ \A n \in 1..l : more[n] = frames[n]
  BY Element
<1>2. /\ \A n \in 1..l : f[n] = g[n]
      /\ g[l + 1] = Left(more[l + 1])
  <2>1. \A n \in 1..l : n \in DOMAIN frames /\ n \in DOMAIN more /\ more[n] = frames[n]
    BY <1>1
  <2>2. l + 1 \in DOMAIN more
    BY <1>1
  <2> QED
    BY <2>1, <2>2
<1>3. LeftIn(frames) = SumTo(f, l) /\ LeftIn(more) = SumTo(g, l + 1)
  BY <1>1 DEF LeftIn
<1> HIDE DEF f, g
<1>4. SumTo(f, l) = SumTo(g, l)
  BY <1>1, <1>2, SumSame
<1>5. SumTo(g, l + 1) = SumTo(g, l) + g[l + 1]
  BY <1>1, SumNext
<1> QED
  BY <1>1, <1>2, <1>3, <1>4, <1>5

\* The activation on top moves on.
LEMMA LeftMoved ==
    ASSUME IInv, phase = "run", Top.pos < Len(code[Top.blk])
    PROVE  LeftIn(Moved) = LeftIn(stack) - (IF Top.pos < Size(Top.blk) THEN 1 ELSE 0)
<1> DEFINE l == Len(stack)
<1>1. /\ stack \in Seq(Frame) /\ l \in Nat \ {0} /\ Top = stack[l] /\ Top.blk \in DOMAIN M.blocks
      /\ Size(Top.blk) \in Nat \ {0} /\ M \in Modules /\ Top.pos \in Nat /\ DOMAIN stack = 1..l
      /\ stack # <<>>
  <2>1. Top.pos \in 1..Len(code[Top.blk]) /\ Len(code[Top.blk]) \in Nat
    BY TopFacts
  <2> QED
    BY <2>1, TopFacts DEF IInv, Types
<1>2. /\ Moved \in Seq(Frame) /\ Len(Moved) = l /\ DOMAIN Moved = 1..l
      /\ \A n \in 1..(l - 1) : Moved[n] = stack[n]
      /\ Moved[l].blk = Top.blk /\ Moved[l].pos = Top.pos + 1
  BY <1>1, WaitingMoved, Element
<1> DEFINE f == [n \in DOMAIN stack |-> Left(stack[n])] g == [n \in DOMAIN Moved |-> Left(Moved[n])]
<1>3. /\ \A n \in 1..l : f[n] = Left(stack[n]) /\ g[n] = Left(Moved[n])
      /\ LeftIn(stack) = SumTo(f, l) /\ LeftIn(Moved) = SumTo(g, l)
  BY <1>1, <1>2 DEF LeftIn
<1> HIDE DEF l, f, g
<1>4. \A n \in 1..l : f[n] \in Int /\ g[n] \in Int
  <2>1. \A n \in 1..l : Left(stack[n]) \in Nat /\ Left(Moved[n]) \in Nat
    BY <1>1, <1>2, LeftType DEF l
  <2> QED
    BY <1>3, <2>1
<1>5. \A n \in 1..l : n # l => g[n] = f[n]
  BY <1>1, <1>2, <1>3
<1>6. SumTo(g, l) = SumTo(f, l) + (g[l] - f[l])
  <2>1. l \in Nat /\ l \in 1..l
    BY <1>1
  <2> QED
    BY <1>4, <1>5, <2>1, SumChange
<1>7. g[l] - f[l] = IF Top.pos < Size(Top.blk) THEN 0 - 1 ELSE 0
  <2>1. f[l] = Left(Top) /\ g[l] = Left(Moved[l])
    BY <1>1, <1>3
  <2> QED
    BY <1>1, <1>2, <2>1 DEF Left
<1>8. SumTo(f, l) \in Int
  BY <1>1, <1>3, LeftType
<1> QED
  BY <1>3, <1>6, <1>7, <1>8

LEMMA WeightType ==
    ASSUME M \in Modules, NEW times \in [DOMAIN M.blocks -> Nat]
    PROVE  /\ \A b \in 1..Len(M.blocks) : /\ Weights(times)[b] \in Nat
                                          /\ Weights(times)[b] = times[b] * Size(b)
           /\ Len(M.blocks) \in Nat /\ Weight(times, Len(M.blocks)) \in Nat
<1>1. Len(M.blocks) \in Nat /\ DOMAIN M.blocks = 1..Len(M.blocks)
  BY Shape
<1>2. ASSUME NEW b \in 1..Len(M.blocks)
      PROVE  Weights(times)[b] \in Nat /\ Weights(times)[b] = times[b] * Size(b)
  <2>1. times[b] \in Nat /\ Size(b) \in Nat /\ b \in DOMAIN M.blocks
    BY <1>1, Instructions
  <2>2. times[b] * Size(b) \in Nat
    BY <2>1
  <2> QED
    BY <2>1, <2>2 DEF Weights
<1>3. Weight(times, Len(M.blocks)) \in Nat
  BY <1>1, <1>2, SumNat DEF Weight
<1> QED
  BY <1>1, <1>2, <1>3

LEMMA WeightNext ==
    ASSUME M \in Modules, NEW times \in [DOMAIN M.blocks -> Nat], NEW b \in DOMAIN M.blocks
    PROVE  Weight(times, b) = Weight(times, b - 1) + times[b] * Size(b)
<1>1. b \in 1..Len(M.blocks)
  BY Shape
<1>2. PICK n \in Nat : b = n + 1
  <2>1. b \in Nat \ {0}
    BY Shape
  <2>2. b - 1 \in Nat /\ b = (b - 1) + 1
    BY <2>1
  <2> QED
    BY <2>2
<1>3. SumTo(Weights(times), n + 1) = SumTo(Weights(times), n) + Weights(times)[n + 1]
  BY <1>2, SumNext
<1>4. Weights(times)[b] = times[b] * Size(b) /\ n = b - 1
  BY <1>1, <1>2, WeightType
<1> QED
  BY <1>2, <1>3, <1>4 DEF Weight

\* A block is entered once more.
LEMMA WeightEntered ==
    ASSUME M \in Modules, NEW times \in [DOMAIN M.blocks -> Nat], NEW c \in DOMAIN M.blocks,
           NEW more \in [DOMAIN M.blocks -> Nat], more = [times EXCEPT ![c] = @ + 1]
    PROVE  Weight(more, Len(M.blocks)) = Weight(times, Len(M.blocks)) + Size(c)
<1> DEFINE l == Len(M.blocks) f == Weights(times) g == Weights(more) s == Size(c) k == times[c]
<1>1. /\ l \in Nat /\ DOMAIN M.blocks = 1..l /\ s \in Nat /\ k \in Nat
      /\ more[c] = k + 1 /\ \A b \in 1..l : b # c => more[b] = times[b]
      /\ SumTo(f, l) \in Nat
  BY Shape, WeightType, Instructions DEF Weight
<1>2. /\ \A b \in 1..l : f[b] \in Int /\ g[b] \in Int
      /\ \A b \in 1..l : f[b] = times[b] * Size(b) /\ g[b] = more[b] * Size(b)
  <2>1. \A b \in 1..l : f[b] \in Nat /\ f[b] = times[b] * Size(b)
    BY WeightType
  <2>2. \A b \in 1..l : g[b] \in Nat /\ g[b] = more[b] * Size(b)
    BY WeightType
  <2> HIDE DEF f, g, l
  <2> QED
    BY <2>1, <2>2
<1>3. Weight(more, l) = SumTo(g, l) /\ Weight(times, l) = SumTo(f, l)
  BY DEF Weight
<1>4. f[c] = k * s /\ g[c] = (k + 1) * s
  BY <1>1, <1>2
<1>5. c \in 1..l
  BY <1>1
<1>6. \A b \in 1..l : b # c => g[b] = f[b]
  BY <1>1, <1>2
<1> HIDE DEF f, g, l, s, k
<1>7. SumTo(g, l) = SumTo(f, l) + (g[c] - f[c])
  <2>1. l \in Nat /\ \A b \in 1..l : f[b] \in Int /\ g[b] \in Int
    BY <1>1, <1>2
  <2>2. PICK j \in 1..l : j = c
    BY <1>5
  <2>3. \A b \in 1..l : b # j => g[b] = f[b]
    BY <1>6, <2>2
  <2>4. SumTo(g, l) = SumTo(f, l) + (g[j] - f[j])
    BY <2>1, <2>3, SumChange
  <2> QED
    BY <2>2, <2>4
<1>8. (k + 1) * s - k * s = s
  BY <1>1
<1>9. SumTo(g, l) = SumTo(f, l) + s
  BY <1>4, <1>7, <1>8
<1> QED
  BY <1>3, <1>9 DEF l, s

LEMMA WeightZero ==
    ASSUME M \in Modules, entered = [b \in DOMAIN M.blocks |-> 0]
    PROVE  Weight(entered, Len(M.blocks)) = 0
<1>1. entered \in [DOMAIN M.blocks -> Nat]
  OBVIOUS
<1>2. ASSUME NEW b \in 1..Len(M.blocks) PROVE Weights(entered)[b] = 0
  <2>1. Weights(entered)[b] = entered[b] * Size(b) /\ entered[b] = 0 /\ Size(b) \in Nat
    BY <1>1, WeightType, Shape, Instructions
  <2> QED
    BY <2>1
<1> QED
  BY <1>2, Shape, SumZeros DEF Weight

LEMMA SameSums ==
    ASSUME M' = M
    PROVE  LeftIn(stack)' = LeftIn(stack') /\ \A n : Weight(entered, n)' = Weight(entered', n)
  BY DEF LeftIn, Left, Size, Weight, Weights

\* What an instruction may do to the sums.
LEMMA ExecutingStep ==
    ASSUME IInv, Executing, phase = "run", Below, phase' \in {"run", "done"}, executed' \in Nat,
           \A b \in DOMAIN M.blocks : ~Instrumented(M, b) => entered'[b] = 0,
           phase' = "done" /\ profile' # <<>> => stack' = <<>>,
           phase' = "run" \/ stack' = <<>> =>
               executed' + LeftIn(stack') = Weight(entered', Len(M.blocks))
    PROVE  Executing'
<1>1. M' = M /\ Running' /\ \A b : Instrumented(M, b)' = Instrumented(M, b)
  BY DEF Below, Running, IInv, Types, HasMain, Instrumented
<1> QED
  BY <1>1, SameSums DEF Executing

\* An instruction of the program is executed, or one that was inserted.
Executes(op) == executed' = executed + (IF op \in Ops THEN 1 ELSE 0)

LEMMA RunExecutes ==
    ASSUME NEW op, At(op), Run
    PROVE  Executes(op)
<1>1. Current.op = op /\ phase = "run"
  BY DEF At, Current
<1> QED
  BY <1>1 DEF Run, Executes

LEMMA Totals ==
    ASSUME IInv, Executing, phase = "run"
    PROVE  /\ executed \in Nat /\ LeftIn(stack) \in Nat /\ Weight(entered, Len(M.blocks)) \in Nat
           /\ executed + LeftIn(stack) = Weight(entered, Len(M.blocks))
           /\ \A b \in DOMAIN M.blocks : ~Instrumented(M, b) => entered[b] = 0
           /\ M \in Modules /\ entered \in [DOMAIN M.blocks -> Nat] /\ stack \in Seq(Frame)
<1>1. M \in Modules /\ entered \in [DOMAIN M.blocks -> Nat] /\ stack \in Seq(Frame)
  BY TopFacts DEF IInv, Types
<1> QED
  BY <1>1, LeftType, WeightType DEF Executing

\* The counter and the writer are no instructions of the program.
LEMMA InsertedExecuting ==
    ASSUME IInv, Executing, phase = "run", Run, Below, stack' = Moved, entered' = entered, phase' = "run",
           At("count") \/ At("write")
    PROVE  Executing'
<1>1. executed' = executed
  <2>1. Executes("count") \/ Executes("write")
    BY RunExecutes
  <2> QED
    BY <2>1, Totals DEF Executes, Ops
<1>2. ~(Top.pos < Size(Top.blk)) /\ Top.pos < Len(code[Top.blk])
  <2>1. /\ Size(Top.blk) \in Nat \ {0} /\ Len(code[Top.blk]) \in {Size(Top.blk) + 1, Size(Top.blk) + 2}
        /\ HasWrite(Top.blk) => Len(code[Top.blk]) = Size(Top.blk) + 2
    BY TopFacts DEF HasWrite
  <2>2. \/ Top.pos = Size(Top.blk)
        \/ HasWrite(Top.blk) /\ Top.pos = Size(Top.blk) + 1
    BY OpFacts
  <2> QED
    BY <2>1, <2>2
<1>3. LeftIn(stack') = LeftIn(stack)
  BY <1>2, LeftMoved, Totals
<1> QED
  BY <1>1, <1>3, Totals, ExecutingStep

LEMMA ComputeExecuting ==
    ASSUME IInv, Executing, Run, Compute
    PROVE  Executing'
<1>1. /\ phase = "run" /\ At("other") /\ Below /\ stack' = Moved /\ phase' = "run" /\ entered' = entered
  BY DEF Compute, At
<1>2. executed' = executed + 1
  BY <1>1, RunExecutes DEF Executes, Ops
<1>3. Top.pos < Size(Top.blk) /\ Top.pos < Len(code[Top.blk])
  <2>1. /\ Size(Top.blk) \in Nat \ {0} /\ Len(code[Top.blk]) \in {Size(Top.blk) + 1, Size(Top.blk) + 2}
        /\ Top.pos < Size(Top.blk) /\ Top.pos \in 1..Len(code[Top.blk])
    BY <1>1, TopFacts, OpFacts
  <2> QED
    BY <2>1
<1>4. LeftIn(stack') = LeftIn(stack) - 1
  BY <1>1, <1>3, LeftMoved
<1>5. executed' \in Nat /\ executed' + LeftIn(stack') = Weight(entered', Len(M.blocks))
  BY <1>1, <1>2, <1>4, Totals
<1> QED
  BY <1>1, <1>5, Totals, ExecutingStep

\* An instruction that enters a block: one less is left, and the block.
LEMMA EnterExecuting ==
    ASSUME IInv, Executing, phase = "run", NEW c \in DOMAIN M.blocks, NEW frames \in Seq(Frame),
           Instrumented(M, c), EnterBlock(c, frames), executed' = executed + 1,
           LeftIn(frames) = LeftIn(stack) - 1
    PROVE  Executing'
<1> DEFINE first == [blk |-> c, pos |-> 1]
<1>1. /\ Below /\ stack' = Append(frames, first) /\ entered' = [entered EXCEPT ![c] = @ + 1]
      /\ phase' = "run"
  BY DEF EnterBlock
<1>2. Size(c) \in Nat \ {0} /\ first \in Frame
  BY Totals, Instructions DEF Frame
<1>3. /\ stack' \in Seq(Frame) /\ Len(stack') = Len(frames) + 1 /\ stack'[Len(stack')] = first
      /\ \A n \in 1..Len(frames) : stack'[n] = frames[n]
  BY <1>1, <1>2
<1>4. LeftIn(stack') = LeftIn(frames) + Size(c)
  <2>1. PICK more \in Seq(Frame) : more = stack'
    BY <1>3
  <2>2. LeftIn(more) = LeftIn(frames) + Left(more[Len(more)])
    BY <1>3, <2>1, LeftPushed, Totals
  <2>3. Left(first) = Size(c)
    BY <1>2 DEF Left
  <2> QED
    BY <1>3, <2>1, <2>2, <2>3
<1>5. entered' \in [DOMAIN M.blocks -> Nat] /\ \A b \in DOMAIN M.blocks : b # c => entered'[b] = entered[b]
  BY <1>1, Totals
<1>6. Weight(entered', Len(M.blocks)) = Weight(entered, Len(M.blocks)) + Size(c)
  <2>1. PICK more \in [DOMAIN M.blocks -> Nat] : more = entered' /\ more = [entered EXCEPT ![c] = @ + 1]
    BY <1>1, <1>5
  <2> QED
    BY <2>1, Totals, WeightEntered
<1>7. executed' \in Nat /\ executed' + LeftIn(stack') = Weight(entered', Len(M.blocks))
  <2>1. PICK e \in Nat, l \in Nat, w \in Nat, s \in Nat :
            /\ e = executed /\ l = LeftIn(stack) /\ w = Weight(entered, Len(M.blocks)) /\ s = Size(c)
            /\ e + l = w
    BY <1>2, Totals
  <2>2. executed' = e + 1 /\ LeftIn(stack') = (l - 1) + s /\ Weight(entered', Len(M.blocks)) = w + s
    BY <1>4, <1>6, <2>1
  <2>3. e + 1 \in Nat /\ (e + 1) + ((l - 1) + s) = w + s
    BY <2>1
  <2> QED
    BY <2>2, <2>3
<1>8. \A b \in DOMAIN M.blocks : ~Instrumented(M, b) => entered'[b] = 0
  BY <1>5, Totals
<1> QED
  BY <1>1, <1>7, <1>8, ExecutingStep

LEMMA CallExecuting ==
    ASSUME IInv, Executing, Run, Call
    PROVE  Executing'
<1> DEFINE t == Top.blk
<1>1. phase = "run" /\ At("call") /\ EnterBlock(Entry(M, Current.callee), Moved) /\ M \in Modules
  BY DEF Call, At, IInv, Types
<1>2. /\ t \in DOMAIN M.blocks /\ HasCounter(t) /\ Size(t) \in Nat \ {0} /\ Top.pos < Size(t)
      /\ Top.pos \in 1..Len(code[t]) /\ Len(code[t]) \in {Size(t) + 1, Size(t) + 2}
  BY <1>1, TopFacts, OpFacts
<1>3. Top.pos < Len(code[t]) /\ Top.pos \in 1..(Size(t) - 1)
  BY <1>2
<1>4. Current.callee \in DOMAIN M.kind /\ M.kind[Current.callee] = "plain"
  BY <1>1, <1>2, <1>3, Code DEF Current, At
<1>5. PICK c \in DOMAIN M.blocks : c = Entry(M, Current.callee) /\ M.kind[M.blocks[c].fn] = "plain"
  BY <1>1, <1>4, EntryFacts
<1>6. PICK frames \in Seq(Frame) : frames = Moved
  BY <1>1, <1>3, MovedFacts
<1>7. Instrumented(M, c) /\ EnterBlock(c, frames)
  BY <1>1, <1>5, <1>6 DEF Instrumented
<1>8. LeftIn(frames) = LeftIn(stack) - 1
  BY <1>1, <1>2, <1>3, <1>6, LeftMoved
<1>9. executed' = executed + 1
  BY <1>1, RunExecutes DEF Executes, Ops
<1> QED
  BY <1>1, <1>5, <1>7, <1>8, <1>9, EnterExecuting

\* An activation that leaves its block has executed it.
LEMMA LeftFront ==
    ASSUME IInv, phase = "run", At("br") \/ At("ret")
    PROVE  Front(stack) \in Seq(Frame) /\ LeftIn(Front(stack)) = LeftIn(stack) - 1
<1> DEFINE n == Len(stack)
<1>1. /\ stack \in Seq(Frame) /\ n \in Nat \ {0} /\ Top = stack[n] /\ M \in Modules
      /\ Top.pos = Len(code[Top.blk]) /\ Size(Top.blk) \in Nat \ {0}
      /\ Len(code[Top.blk]) \in {Size(Top.blk) + 1, Size(Top.blk) + 2} /\ DOMAIN stack = 1..n
  BY TopFacts, OpFacts DEF IInv, Types
<1>2. PICK less \in Seq(Frame) : less = Front(stack) /\ Len(less) = n - 1 /\ \A k \in 1..(n - 1) : less[k] = stack[k]
  <2>1. Front(stack) = SubSeq(stack, 1, n - 1)
    BY DEF Front
  <2>2. SubSeq(stack, 1, n - 1) \in Seq(Frame) /\ Len(SubSeq(stack, 1, n - 1)) = n - 1
    BY <1>1
  <2>3. \A k \in 1..(n - 1) : SubSeq(stack, 1, n - 1)[k] = stack[k]
    BY <1>1
  <2> QED
    BY <2>1, <2>2, <2>3
<1>3. LeftIn(stack) = LeftIn(less) + Left(stack[n])
  <2>1. PICK more \in Seq(Frame) : more = stack /\ Len(more) = n
    BY <1>1
  <2>2. Len(more) = Len(less) + 1
    BY <1>1, <1>2, <2>1
  <2>3. \A k \in 1..Len(less) : more[k] = less[k]
    BY <1>2, <2>1
  <2>4. LeftIn(more) = LeftIn(less) + Left(more[Len(more)])
    BY <1>1, <2>2, <2>3, LeftPushed
  <2> QED
    BY <2>1, <2>4
<1>4. Left(stack[n]) = 1
  <2>1. ~(Top.pos <= Size(Top.blk))
    BY <1>1
  <2> QED
    BY <1>1, <2>1 DEF Left
<1> QED
  BY <1>1, <1>2, <1>3, <1>4, LeftType

LEMMA BranchExecuting ==
    ASSUME IInv, Executing, Run, Branch
    PROVE  Executing'
<1> DEFINE t == Top.blk
<1>1. phase = "run" /\ At("br") /\ M \in Modules
  BY DEF Branch, At, IInv, Types
<1>2. t \in DOMAIN M.blocks /\ M.kind[M.blocks[t].fn] # "writer"
  BY <1>1, TopFacts DEF Instrumented
<1>4. PICK c \in M.blocks[t].succ : EnterBlock(c, Front(stack))
  BY DEF Branch
<1>5. c \in DOMAIN M.blocks /\ Instrumented(M, c)
  BY <1>1, <1>2, Shape, Instructions DEF Instrumented
<1>6. PICK frames \in Seq(Frame) : frames = Front(stack) /\ LeftIn(frames) = LeftIn(stack) - 1
  BY <1>1, LeftFront
<1>7. executed' = executed + 1
  BY <1>1, RunExecutes DEF Executes, Ops
<1> QED
  BY <1>1, <1>4, <1>5, <1>6, <1>7, EnterExecuting

LEMMA ReturnExecuting ==
    ASSUME IInv, Executing, Run, Return
    PROVE  Executing'
<1>1. /\ phase = "run" /\ At("ret") /\ Below /\ stack' = Front(stack) /\ entered' = entered
      /\ phase' = IF Len(stack) = 1 THEN "done" ELSE "run"
  BY DEF Return, At
<1>2. executed' = executed + 1
  BY <1>1, RunExecutes DEF Executes, Ops
<1>3. LeftIn(stack') = LeftIn(stack) - 1
  BY <1>1, LeftFront
<1>4. executed' \in Nat /\ executed' + LeftIn(stack') = Weight(entered', Len(M.blocks))
  BY <1>1, <1>2, <1>3, Totals, SMTT(20)
<1>5. Len(stack) = 1 => stack' = <<>>
  <2>1. Top.pos > Size(Top.blk)
    <3>1. /\ Top.pos = Len(code[Top.blk]) /\ Size(Top.blk) \in Nat \ {0}
          /\ Len(code[Top.blk]) \in {Size(Top.blk) + 1, Size(Top.blk) + 2}
      BY <1>1, TopFacts, OpFacts
    <3> QED
      BY <3>1
  <2> QED
    BY <1>1, <2>1, FrontFacts
<1> QED
  BY <1>1, <1>4, <1>5, Totals, ExecutingStep

LEMMA ExitExecuting ==
    ASSUME IInv, Executing, Run, Exit
    PROVE  Executing'
<1>1. phase = "run" /\ At("exit") /\ Below /\ phase' = "done" /\ UNCHANGED <<stack, entered, profile>>
  BY DEF Exit, At, run
<1>2. executed' = executed + 1
  BY <1>1, RunExecutes DEF Executes, Ops
<1>3. Top.pos <= Size(Top.blk) /\ stack # <<>>
  <2>1. Top.pos < Size(Top.blk) /\ Size(Top.blk) \in Nat /\ Top.pos \in 1..Len(code[Top.blk])
        /\ Len(stack) \in Nat \ {0}
    BY <1>1, TopFacts, OpFacts
  <2> QED
    BY <2>1, TopFacts
<1>4. profile = <<>>
  BY <1>1, <1>3, Unwritten
<1> QED
  BY <1>1, <1>2, <1>3, <1>4, Totals, ExecutingStep

\* Nothing was executed when main is entered.
LEMMA StartExecuting ==
    ASSUME IInv, Executing, phase = "hook", Run, Start, M' = M, profile' = profile
    PROVE  Executing'
<1>1. /\ ~Running /\ M \in Modules /\ HasMain(M) /\ phase' = "run" /\ executed = 0 /\ executed' = 0
      /\ entered = [b \in DOMAIN M.blocks |-> 0] /\ entered \in [DOMAIN M.blocks -> Nat]
  BY DEF IInv, Types, Running, NotStarted, Start, Run, Executing
<1>2. PICK f \in DOMAIN M.kind :
         /\ M.kind[f] = "main"
         /\ stack' = <<[blk |-> Entry(M, f), pos |-> 1]>>
         /\ entered' = [entered EXCEPT ![Entry(M, f)] = 1]
  BY <1>1 DEF Start, HasMain
<1>3. PICK main \in DOMAIN M.blocks : main = Entry(M, f) /\ M.blocks[main].fn = f
  BY <1>1, <1>2, EntryFacts
<1> DEFINE first == [blk |-> main, pos |-> 1]
<1>4. Size(main) \in Nat \ {0} /\ first \in Frame
  BY <1>1, Instructions DEF Frame
<1>5. LeftIn(stack') = Size(main)
  <2>1. PICK none \in Seq(Frame) : none = <<>> /\ Len(none) = 0
    <3>1. <<>> \in Seq(Frame)
      OBVIOUS
    <3> QED
      BY <3>1
  <2>2. PICK more \in Seq(Frame) : more = stack' /\ Len(more) = 1 /\ more[1] = first
    <3>1. stack' = <<first>>
      BY <1>2, <1>3
    <3> HIDE DEF first
    <3>2. <<first>> \in Seq(Frame) /\ Len(<<first>>) = 1 /\ <<first>>[1] = first
      BY <1>4
    <3> QED
      BY <3>1, <3>2
  <2>3. Len(more) = Len(none) + 1 /\ \A n \in 1..Len(none) : more[n] = none[n]
    BY <2>1, <2>2
  <2>4. LeftIn(more) = LeftIn(none) + Left(more[Len(more)])
    BY <1>1, <2>3, LeftPushed
  <2>5. LeftIn(none) = 0
    BY <1>1, <2>1, LeftType
  <2>6. Left(first) = Size(main)
    BY <1>4 DEF Left
  <2> QED
    BY <1>4, <2>2, <2>4, <2>5, <2>6
<1>6. Weight(entered, Len(M.blocks)) = 0
  BY <1>1, WeightZero
<1>7. Weight(entered', Len(M.blocks)) = Size(main)
  <2>1. PICK more \in [DOMAIN M.blocks -> Nat] : more = entered' /\ more = [entered EXCEPT ![main] = @ + 1]
    BY <1>1, <1>2, <1>3
  <2> QED
    BY <1>1, <1>4, <1>6, <2>1, WeightEntered
<1>8. \A b \in DOMAIN M.blocks : ~Instrumented(M, b)' => entered'[b] = 0
  <2>1. Instrumented(M, main)
    BY <1>2, <1>3 DEF Instrumented
  <2> QED
    BY <1>1, <1>2, <1>3, <2>1 DEF Instrumented
<1> QED
  BY <1>1, <1>4, <1>5, <1>7, <1>8, SameSums DEF Executing

LEMMA PassExecuting ==
    ASSUME IInv, Executing, Run, M' = M, ~Running, ~Running', stack' = stack, entered' = entered,
           phase # "run", profile' = profile
    PROVE  Executing'
<1>1. /\ executed' = executed /\ executed \in Nat /\ stack = <<>> /\ profile = <<>>
      /\ entered = [b \in DOMAIN M.blocks |-> 0] /\ \A b : Instrumented(M, b)' = Instrumented(M, b)
  BY DEF Run, Executing, IInv, NotStarted, Instrumented
<1> QED
  BY <1>1, SameSums DEF Executing

LEMMA RunExecuting == IInv /\ Executing /\ Run => Executing'
<1> SUFFICES ASSUME IInv, Executing, Run PROVE Executing'
  OBVIOUS
<1>1. Next
  BY DEF Run
<1>2. CASE CountBlock \/ EndCount \/ InstrumentBlock \/ EndInstrument \/ NoWriter
  <2>1. /\ M' = M /\ stack' = stack /\ entered' = entered /\ profile' = profile
        /\ phase \notin {"run", "done"} /\ phase' \notin {"run", "done"}
    BY <1>2 DEF CountBlock, EndCount, InstrumentBlock, EndInstrument, NoWriter, run
  <2> QED
    BY <2>1, PassExecuting DEF Running
<1>3. CASE InsertWrite \/ NoReturn
  BY <1>3, StartExecuting DEF InsertWrite, CallWriter, NoReturn
<1>4. CASE Increment \/ WriteProfile
  BY <1>4, InsertedExecuting DEF Increment, WriteProfile, At
<1> QED
  BY <1>1, <1>2, <1>3, <1>4, ComputeExecuting, CallExecuting, BranchExecuting, ReturnExecuting,
     ExitExecuting DEF Next

LEMMA InitExecuting == ReportInit => Executing
<1> SUFFICES ASSUME ReportInit PROVE Executing
  OBVIOUS
<1>1. IInv /\ Init /\ M \in Modules /\ executed = 0
  BY InitIInv DEF ReportInit, Init
<1>2. /\ stack = <<>> /\ entered = [b \in DOMAIN M.blocks |-> 0] /\ profile = <<>>
      /\ stack \in Seq(Frame) /\ entered \in [DOMAIN M.blocks -> Nat]
  BY <1>1 DEF Init
<1>3. LeftIn(stack) = 0
  BY <1>1, <1>2, LeftType
<1>4. Weight(entered, Len(M.blocks)) = 0
  BY <1>1, <1>2, WeightZero
<1> QED
  BY <1>1, <1>2, <1>3, <1>4 DEF Executing

-----------------------------------------------------------------------------
\* What the file holds when the program is done.
LEMMA ProfileFacts ==
    ASSUME IInv, Executing, phase = "done", HasMain(M)
    PROVE  /\ profile = [n \in DOMAIN profile |-> profile[n]]
           /\ profile # <<>> => stack = <<>>
           /\ \A b \in DOMAIN M.blocks :
                 IF Instrumented(M, b)
                 THEN profile # <<>> => /\ NumberOf(M, b) \in DOMAIN profile
                                        /\ profile[NumberOf(M, b)] = entered[b]
                 ELSE entered[b] = 0
<1>1. Running /\ Types /\ Numbering /\ Following /\ Writing
  BY DEF Running, IInv
<1>2. counters \in [0..(num - 1) -> Nat] /\ (profile # <<>> => profile = counters /\ stack = <<>>)
  BY <1>1 DEF Following, Writing, Executing
<1>3. profile = [n \in DOMAIN profile |-> profile[n]]
  <2>1. CASE profile = <<>>
    BY <2>1
  <2>2. CASE profile # <<>>
    BY <1>2, <2>2
  <2> QED
    BY <2>1, <2>2
<1>4. ASSUME NEW b \in DOMAIN M.blocks, Instrumented(M, b), profile # <<>>
      PROVE  NumberOf(M, b) \in DOMAIN profile /\ profile[NumberOf(M, b)] = entered[b]
  <2>1. NumberOf(M, b) \in 0..(num - 1)
    BY <1>1, <1>4, NumberBelow
  <2>2. counters[NumberOf(M, b)] \in Nat /\ NumberOf(M, b) \in DOMAIN profile
    BY <1>2, <1>4, <2>1
  <2>3. Cardinality(Waiting(stack, b)) = 0
    <3>1. Waiting(stack, b) = {}
      BY <1>2, <1>4 DEF Waiting
    <3> QED
      BY <3>1, FS_EmptySet
  <2>4. entered[b] = counters[NumberOf(M, b)] + Cardinality(Waiting(stack, b))
    BY <1>1, <1>4 DEF Following
  <2> QED
    BY <1>2, <1>4, <2>2, <2>3, <2>4
<1>5. \A b \in DOMAIN M.blocks : ~Instrumented(M, b) => entered[b] = 0
  BY DEF Executing
<1> QED
  BY <1>2, <1>3, <1>4, <1>5

LEMMA InitReporting == ReportInit => Reporting
<1> SUFFICES ASSUME ReportInit PROVE Reporting
  OBVIOUS
<1>1. M \in Modules /\ report = "no" /\ at = 1 /\ place = 0 /\ instNum = 0
  BY DEF ReportInit, Init
<1>2. NumberOf(M, 1) = 0 /\ Weight(entered, 1 - 1) = 0
  BY Numbers, SumZero DEF Weight
<1>3. at \in 1..(Len(M.blocks) + 1)
  BY <1>1, Shape
<1> QED
  BY <1>1, <1>2, <1>3 DEF Reporting

\* As long as the program runs, OutputResult has not begun.
LEMMA RunReporting == IInv /\ Reporting /\ Run => Reporting'
<1> SUFFICES ASSUME IInv, Reporting, Run PROVE Reporting'
  OBVIOUS
<1>1. Next /\ UNCHANGED <<report, bbfreq, at, place, instNum>>
  BY DEF Run, reportVars
<1>2. phase # "done" /\ M' = M
  BY <1>1 DEF Next, CountBlock, EndCount, InstrumentBlock, EndInstrument, InsertWrite, CallWriter,
              NoReturn, NoWriter, Increment, Compute, Call, EnterBlock, Branch, Return, Exit,
              WriteProfile, At, Below
<1>3. report = "no" /\ at = 1 /\ place = NumberOf(M, 1) /\ instNum = Weight(entered, 1 - 1)
  BY <1>2 DEF Reporting
<1>4. NumberOf(M, 1) = 0 /\ SumTo(Weights(entered), 0) = 0 /\ SumTo(Weights(entered'), 0) = 0
  BY Numbers, SumZero
<1>5. place = 0 /\ instNum = 0
  BY <1>3, <1>4 DEF Weight
<1>6. NumberOf(M, at)' = 0 /\ Weight(entered, at - 1)' = 0
  BY <1>1, <1>2, <1>3, <1>4, SameSums, Same DEF Weight
<1>7. at \in 1..(Len(M.blocks) + 1)
  BY DEF Reporting
<1> QED
  BY <1>1, <1>2, <1>3, <1>5, <1>6, <1>7 DEF Reporting

\* What OutputResult does leaves the program.
LEMMA SameReport ==
    ASSUME UNCHANGED vars, UNCHANGED executed
    PROVE  /\ M' = M /\ phase' = phase /\ profile' = profile /\ entered' = entered
           /\ HasMain(M)' = HasMain(M) /\ \A n : NumberOf(M, n)' = NumberOf(M, n)
           /\ \A n : Weight(entered, n)' = Weight(entered, n)
           /\ IInv => IInv'
           /\ Executing => Executing'
<1>1. /\ UNCHANGED <<M, code, phase, blk, num, i, stack, counters, entered, profile>>
  BY DEF vars
<1>2. HasMain(M)' = HasMain(M) /\ \A n : NumberOf(M, n)' = NumberOf(M, n) /\ Instrumented(M, n)' = Instrumented(M, n)
  BY <1>1, Same DEF HasMain, Instrumented
<1>3. LeftIn(stack)' = LeftIn(stack) /\ \A n : Weight(entered, n)' = Weight(entered, n)
  BY <1>1, SameSums
<1>4. Executing => Executing'
  BY <1>1, <1>2, <1>3 DEF Executing, Running
<1> QED
  BY <1>1, <1>2, <1>3, <1>4, StutterIInv

LEMMA GetEnvReporting == IInv /\ Reporting /\ GetEnv => Reporting'
<1> SUFFICES ASSUME Reporting, GetEnv PROVE Reporting'
  OBVIOUS
<1>1. /\ phase = "done" /\ report = "no" /\ UNCHANGED <<bbfreq, at, place, instNum>>
      /\ (report' = "read" /\ HasMain(M)) \/ report' = "done"
      /\ UNCHANGED vars /\ UNCHANGED executed
  BY DEF GetEnv
<1> QED
  BY <1>1, SameReport DEF Reporting

LEMMA ReadFileReporting == IInv /\ Executing /\ Reporting /\ ReadFile => Reporting'
<1> SUFFICES ASSUME IInv, Executing, Reporting, ReadFile PROVE Reporting'
  OBVIOUS
<1>1. /\ phase = "done" /\ report = "read" /\ report' = "add" /\ UNCHANGED <<at, place, instNum>>
      /\ bbfreq' = [n \in DOMAIN profile |-> profile[n]] /\ HasMain(M)
      /\ UNCHANGED vars /\ UNCHANGED executed
  BY DEF ReadFile, Reporting
<1>2. bbfreq' = profile
  BY <1>1, ProfileFacts
<1> QED
  BY <1>1, <1>2, SameReport DEF Reporting

LEMMA EndReportReporting == IInv /\ Reporting /\ EndReport => Reporting'
<1> SUFFICES ASSUME IInv, Reporting, EndReport PROVE Reporting'
  OBVIOUS
<1>1. /\ report = "add" /\ report' = "done" /\ UNCHANGED <<bbfreq, at, place, instNum>>
      /\ at \notin DOMAIN M.blocks /\ UNCHANGED vars /\ UNCHANGED executed
  BY DEF EndReport
<1>2. at = Len(M.blocks) + 1
  BY <1>1, Shape DEF Reporting, IInv, Types
<1> QED
  BY <1>1, <1>2, SameReport DEF Reporting

LEMMA AddBlockReporting == IInv /\ Executing /\ Reporting /\ AddBlock => Reporting'
<1> SUFFICES ASSUME IInv, Executing, Reporting, AddBlock PROVE Reporting'
  OBVIOUS
<1>1. /\ report = "add" /\ at \in DOMAIN M.blocks /\ at' = at + 1 /\ bbfreq' = bbfreq
      /\ UNCHANGED vars /\ UNCHANGED executed
      /\ phase = "done" /\ HasMain(M) /\ bbfreq = profile
      /\ place = NumberOf(M, at) /\ instNum = Weight(entered, at - 1)
      /\ profile = <<>> => place = 0
  BY DEF AddBlock, Reporting
<1>2. /\ M \in Modules /\ at \in Nat \ {0} /\ at \in 1..Len(M.blocks) /\ Len(M.blocks) \in Nat
      /\ entered \in [DOMAIN M.blocks -> Nat] /\ Size(at) \in Nat /\ entered[at] \in Nat
  BY <1>1, Shape, Instructions DEF IInv, Types
<1>3. /\ NumberOf(M, at + 1) = NumberOf(M, at) + (IF Instrumented(M, at) THEN 1 ELSE 0)
      /\ NumberOf(M, at) \in Nat
  BY <1>2, Numbers
<1>4. Weight(entered, at) = instNum + entered[at] * Size(at)
  BY <1>1, <1>2, WeightNext
<1>5. instNum \in Int
  <2> DEFINE f == Weights(entered)
  <2>1. \A n \in 1..Len(M.blocks) : f[n] \in Int
    BY <1>2, WeightType
  <2>2. at - 1 \in 0..Len(M.blocks)
    BY <1>2
  <2> HIDE DEF f
  <2>3. \A n \in 0..Len(M.blocks) : SumTo(f, n) \in Int
    BY <1>2, <2>1, SumType
  <2> QED
    BY <1>1, <2>2, <2>3 DEF Weight, f
<1>6. /\ at' \in 1..(Len(M.blocks) + 1) /\ at' > 1 /\ at' - 1 = at
  BY <1>1, <1>2
<1>7. NumberOf(M, at)' = NumberOf(M, at + 1) /\ Weight(entered, at - 1)' = Weight(entered, at)
  BY <1>1, <1>6, SameReport
<1>8. CASE ~Instrumented(M, at)
  <2>1. UNCHANGED <<place, report, instNum>>
    BY <1>8 DEF AddBlock
  <2>2. entered[at] = 0
    BY <1>1, <1>8, ProfileFacts
  <2>3. Weight(entered, at) = instNum
    BY <1>2, <1>4, <1>5, <2>2
  <2>4. NumberOf(M, at + 1) = place
    BY <1>1, <1>3, <1>8
  <2> QED
    BY <1>1, <1>6, <1>7, <2>1, <2>3, <2>4, SameReport DEF Reporting
<1>9. CASE Instrumented(M, at)
  <2>1. AddPlace
    BY <1>9 DEF AddBlock
  <2>2. CASE profile = <<>>
    <3>1. report' = "crashed"
      BY <1>1, <2>1, <2>2 DEF AddPlace
    <3> QED
      BY <1>1, <1>6, <2>2, <3>1, SameReport DEF Reporting
  <2>3. CASE profile # <<>>
    <3>1. place \in DOMAIN bbfreq /\ bbfreq[place] = entered[at]
      BY <1>1, <1>9, <2>3, ProfileFacts
    <3>2. /\ place' = place + 1 /\ report' = report
          /\ instNum' = instNum + entered[at] * Len(M.blocks[at].code)
      BY <2>1, <3>1 DEF AddPlace
    <3>3. place' = NumberOf(M, at + 1) /\ instNum' = Weight(entered, at)
      BY <1>1, <1>3, <1>4, <1>9, <3>2 DEF Size
    <3> QED
      BY <1>1, <1>6, <1>7, <2>3, <3>2, <3>3, SameReport DEF Reporting
  <2> QED
    BY <2>2, <2>3
<1> QED
  BY <1>8, <1>9

\* With the entries of the blocks, what is printed is tied to what was
\* executed: the blocks that were entered hold what was executed and what the
\* activations have yet to execute, and OutputResult adds the blocks up.
THEOREM ReportInvariant == ReportSpec => []RInv
<1>1. ReportInit => RInv
  BY InitIInv, InitExecuting, InitReporting DEF ReportInit, RInv
<1>2. ASSUME RInv, [ReportNext]_<<vars, executed, reportVars>> PROVE RInv'
  <2>1. IInv /\ Executing /\ Reporting
    BY <1>2 DEF RInv
  <2>2. CASE Run
    <3>1. Next
      BY <2>2 DEF Run
    <3>2. IInv'
      BY <2>1, <3>1, CountBlockIInv, EndCountIInv, InstrumentBlockIInv, EndInstrumentIInv,
         InsertWriteIInv, NoReturnIInv, NoWriterIInv, IncrementIInv, ComputeIInv, CallIInv,
         BranchIInv, ReturnIInv, ExitIInv, WriteProfileIInv DEF Next
    <3> QED
      BY <2>1, <2>2, <3>2, RunExecuting, RunReporting DEF RInv
  <2>3. CASE GetEnv \/ ReadFile \/ AddBlock \/ EndReport
    <3>1. UNCHANGED vars /\ UNCHANGED executed
      BY <2>3 DEF GetEnv, ReadFile, AddBlock, EndReport
    <3> QED
      BY <2>1, <2>3, <3>1, SameReport, GetEnvReporting, ReadFileReporting, AddBlockReporting,
         EndReportReporting DEF RInv
  <2>4. CASE UNCHANGED <<vars, executed, reportVars>>
    <3>1. UNCHANGED vars /\ UNCHANGED executed /\ UNCHANGED <<report, bbfreq, at, place, instNum>>
      BY <2>4 DEF reportVars
    <3>2. Reporting'
      BY <2>1, <3>1, SameReport DEF Reporting
    <3> QED
      BY <2>1, <3>1, <3>2, SameReport DEF RInv
  <2> QED
    BY <1>2, <2>2, <2>3, <2>4 DEF ReportNext
<1> QED
  BY <1>1, <1>2, PTL DEF ReportSpec

\* OutputResult prints the number of instructions the program executed up to
\* the return of main; it fails only over a program that left no profile.
THEOREM PrintedIsExecuted == ReportSpec => []InstNumExecuted
<1> SUFFICES ASSUME RInv PROVE InstNumExecuted
  BY ReportInvariant, PTL
<1>1. IInv /\ Executing /\ Reporting /\ M \in Modules
  BY DEF RInv, IInv, Types
<1>2. ASSUME report = "done", at > 1 PROVE instNum = executed /\ stack = <<>>
  <2>1. /\ phase = "done" /\ HasMain(M) /\ at = Len(M.blocks) + 1 /\ place = NumberOf(M, at)
        /\ instNum = Weight(entered, at - 1) /\ (profile = <<>> => place = 0)
    BY <1>1, <1>2 DEF Reporting
  <2>2. PICK f \in DOMAIN M.kind : M.kind[f] = "main"
    BY <2>1 DEF HasMain
  <2>3. PICK b \in DOMAIN M.blocks : Instrumented(M, b)
    BY <1>1, <2>2, EntryFacts DEF Instrumented
  <2>4. b \in Nat \ {0} /\ at \in Nat \ {0} /\ b < at /\ at - 1 = Len(M.blocks)
    BY <1>1, <2>1, <2>3, Shape
  <2>5. NumberOf(M, b) < NumberOf(M, at) /\ NumberOf(M, b) \in Nat
    BY <2>3, <2>4, Ordered, Numbers
  <2>6. profile # <<>>
    BY <2>1, <2>5
  <2>7. stack = <<>>
    BY <1>1, <2>1, <2>6, ProfileFacts
  <2>8. executed + LeftIn(stack) = Weight(entered, Len(M.blocks)) /\ executed \in Nat
    BY <1>1, <2>7 DEF Executing
  <2>9. LeftIn(stack) = 0
    <3>1. <<>> \in Seq(Frame)
      OBVIOUS
    <3> QED
      BY <1>1, <2>7, <3>1, LeftType
  <2> QED
    BY <2>1, <2>4, <2>7, <2>8, <2>9
<1>3. report = "crashed" => profile = <<>>
  BY <1>1 DEF Reporting
<1> QED
  BY <1>2, <1>3 DEF InstNumExecuted
=============================================================================
