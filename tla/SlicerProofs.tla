---------------------------- MODULE SlicerProofs ----------------------------
(***************************************************************************)
(* Proofs about Slicer, SlicingPass and SlicedRun, for every set of        *)
(* well-formed programs and every stack size: what the marking promises,   *)
(* that the composed pass keeps these promises, and that in a program      *)
(* without global variables the slice branches and calls as the program    *)
(* does.                                                                   *)
(***************************************************************************)
EXTENDS SlicedRun, RecursionProofs

-----------------------------------------------------------------------------
(* The program and the pass's state.                                       *)

LEMMA DepsType ==
    ASSUME NEW p, WellFormed(p), NEW i \in Ins(p)
    PROVE  Deps(p, i) \subseteq Ins(p)
  <1>1. p.reach \in [Ins(p) -> SUBSET Ins(p)]
    BY DEF WellFormed
  <1>2. ReachingStores(p, i) \subseteq Ins(p) /\ GlobalStores(p, i) \subseteq Ins(p)
    BY <1>1 DEF ReachingStores, GlobalStores
  <1> QED
    BY <1>2 DEF Deps

LEMMA Element ==
    ASSUME NEW S, NEW s \in Seq(S)
    PROVE  Len(s) \in Nat /\ DOMAIN s = 1..Len(s) /\ \A n \in DOMAIN s : s[n] \in S
  OBVIOUS

\* The blocks of a program lie in defined functions and hold instructions.
LEMMA Code ==
    ASSUME NEW p, WellFormed(p)
    PROVE  /\ Len(p.blocks) \in Nat /\ DOMAIN p.blocks = 1..Len(p.blocks)
           /\ \A b \in DOMAIN p.blocks :
                 /\ p.blocks[b].fn \in DOMAIN p.fns
                 /\ \A k \in DOMAIN p.blocks[b].code : p.blocks[b].code[k] \in Ins(p)
                 /\ Terminator(p, b) \in Ins(p)
                 /\ Len(p.blocks[b].code) \in Nat \ {0}
                 /\ DOMAIN p.blocks[b].code = 1..Len(p.blocks[b].code)
           /\ "none" \notin Ins(p)
  <1> DEFINE Block == [fn : DOMAIN p.fns, code : Seq(Ins(p))]
  <1>2. p.blocks \in Seq(Block)
    BY DEF WellFormed
  <1>3. /\ Len(p.blocks) \in Nat /\ DOMAIN p.blocks = 1..Len(p.blocks)
        /\ \A b \in DOMAIN p.blocks : p.blocks[b] \in Block
    <2> HIDE DEF Block
    <2> QED
      BY <1>2, Element
  <1>4. ASSUME NEW b \in DOMAIN p.blocks
        PROVE  /\ p.blocks[b].fn \in DOMAIN p.fns
               /\ \A k \in DOMAIN p.blocks[b].code : p.blocks[b].code[k] \in Ins(p)
               /\ Terminator(p, b) \in Ins(p)
               /\ Len(p.blocks[b].code) \in Nat \ {0}
               /\ DOMAIN p.blocks[b].code = 1..Len(p.blocks[b].code)
    <2>1. p.blocks[b].fn \in DOMAIN p.fns /\ p.blocks[b].code \in Seq(Ins(p))
      BY <1>3
    <2>2. Len(p.blocks[b].code) > 0
      BY DEF WellFormed
    <2>3. /\ Len(p.blocks[b].code) \in Nat
          /\ DOMAIN p.blocks[b].code = 1..Len(p.blocks[b].code)
          /\ \A k \in DOMAIN p.blocks[b].code : p.blocks[b].code[k] \in Ins(p)
      BY <2>1, Element
    <2>4. Terminator(p, b) \in Ins(p)
      BY <2>2, <2>3 DEF Terminator
    <2> QED
      BY <2>1, <2>2, <2>3, <2>4
  <1>5. "none" \notin Ins(p)
    BY DEF WellFormed
  <1> QED
    BY <1>3, <1>4, <1>5

LEMMA InsOfType ==
    ASSUME NEW p, WellFormed(p), NEW f
    PROVE  /\ InsOf(p, f) \subseteq Ins(p) /\ Returns(p, f) \subseteq Ins(p)
           /\ InsOf(p, f) # {} => f \in DOMAIN p.fns
  <1>1. ASSUME NEW i \in InsOf(p, f) PROVE i \in Ins(p) /\ f \in DOMAIN p.fns
    <2>1. PICK b \in DOMAIN p.blocks :
             p.blocks[b].fn = f /\ \E k \in DOMAIN p.blocks[b].code : i = p.blocks[b].code[k]
      BY <1>1 DEF InsOf
    <2> QED
      BY <2>1, Code
  <1> QED
    BY <1>1 DEF Returns

\* Advancing runOnModule's iterators stays within the blocks.
LEMMA CursorStep ==
    ASSUME WellFormed(P), CursorOK, blk \in DOMAIN P.blocks, P' = P, related' = "none",
           NextIns \/ NextBlock
    PROVE  CursorOK'
  <1>1. /\ Len(P.blocks) \in Nat /\ blk \in 1..Len(P.blocks)
        /\ DOMAIN P.blocks = 1..Len(P.blocks)
    BY Code
  <1>2. \A b \in DOMAIN P.blocks : /\ Len(P.blocks[b].code) \in Nat \ {0}
                                   /\ DOMAIN P.blocks[b].code = 1..Len(P.blocks[b].code)
    BY Code
  <1>3. CASE NextBlock
    <2>1. blk' \in 1..(Len(P.blocks) + 1) /\ pos' = 1 /\ part' \in {"terminator", "function"}
      BY <1>1, <1>3 DEF NextBlock
    <2>2. blk' \in DOMAIN P.blocks => 1 \in DOMAIN P.blocks[blk'].code
      BY <1>2
    <2> QED
      BY <2>1, <2>2 DEF CursorOK
  <1>4. CASE NextIns /\ ~NextBlock
    <2>1. blk' = blk /\ part' = part /\ pos' = pos + 1 /\ pos < Len(P.blocks[blk].code)
      BY <1>4 DEF NextIns
    <2>2. pos \in 1..Len(P.blocks[blk].code) /\ Len(P.blocks[blk].code) \in Nat
      BY <1>2 DEF CursorOK
    <2>3. pos' \in DOMAIN P.blocks[blk].code
      BY <1>2, <2>1, <2>2
    <2> QED
      BY <2>1, <2>3 DEF CursorOK
  <1> QED
    BY <1>3, <1>4

\* The steps that leave the iterators alone.
LEMMA SameCursor ==
    ASSUME CursorOK, UNCHANGED <<P, blk, part, pos, related>>
    PROVE  CursorOK'
  BY DEF CursorOK

LEMMA SameProgram ==
    ASSUME [Next]_vars
    PROVE  P' = P
  BY DEF Next, vars, FindLives, FindLivesCrash, SeedFunction, SeedTerminator, SeedInstruction,
         MarkUsers, StartInter, EnterFunction, StackOverflow, ScanCall, JudgeCall, LeaveFunction,
         DeleteIns

LEMMA StateStep ==
    ASSUME WellFormed(P), StateOK, [Next]_vars
    PROVE  StateOK' /\ P' = P
  <1>0. /\ live \subseteq Ins(P) /\ todo \subseteq live
        /\ retUndef \subseteq DOMAIN P.fns /\ CursorOK
    BY DEF StateOK
  <1>1. CASE FindLives
    <2>1. UNION {Deps(P, i) : i \in todo} \subseteq Ins(P)
      BY <1>0, DepsType
    <2> QED
      BY <1>1, <2>1, SameCursor DEF cursor, FindLives, MarkAndExpand, StateOK
  <1>2. CASE FindLivesCrash
    BY <1>2, SameCursor DEF cursor, FindLivesCrash, StateOK
  <1>3. CASE SeedFunction
    <2>1. live' \subseteq Ins(P) /\ todo' \subseteq live'
      BY <1>0, <1>3, InsOfType DEF SeedFunction, MarkAndExpand, Keep
    <2>2. CursorOK'
      BY <1>0, <1>3 DEF SeedFunction, CursorOK
    <2> QED
      BY <1>3, <2>1, <2>2 DEF SeedFunction, StateOK
  <1>4. CASE SeedTerminator
    <2>1. CursorOK'
      <3>1. CASE ToInstructions
        BY <1>0, <1>4, <3>1 DEF SeedTerminator, ToInstructions, CursorOK
      <3>2. CASE NextBlock
        BY <1>0, <1>4, <3>2, CursorStep DEF SeedTerminator, Seeding
      <3> QED
        BY <1>4, <3>1, <3>2 DEF SeedTerminator
    <2>2. live' \subseteq Ins(P) /\ todo' \subseteq live'
      BY <1>0, <1>4, Code DEF SeedTerminator, Seeding, MarkAndExpand, Keep
    <2> QED
      BY <1>4, <2>1, <2>2 DEF SeedTerminator, StateOK
  <1>5. CASE SeedInstruction
    <2> DEFINE i == P.blocks[blk].code[pos]
    <2>1. i \in Ins(P) /\ blk \in DOMAIN P.blocks /\ related = "none"
      BY <1>0, <1>5, Code DEF SeedInstruction, Seeding, CursorOK
    <2> HIDE DEF i
    <2>2. live' \subseteq Ins(P) /\ todo' \subseteq live'
      BY <1>0, <1>5, <2>1 DEF SeedInstruction, MarkAndExpand, Keep, i
    <2>3. ASSUME Related(P, i), related' = i, UNCHANGED <<blk, part, pos>>
          PROVE  CursorOK'
      BY <1>0, <1>5, <2>1, <2>3 DEF SeedInstruction, CursorOK
    <2>4. ASSUME NextIns, UNCHANGED related
          PROVE  CursorOK'
      BY <1>0, <1>5, <2>1, <2>4, CursorStep DEF SeedInstruction
    <2>5. CursorOK'
      BY <1>5, <2>3, <2>4 DEF SeedInstruction, i
    <2> QED
      BY <1>5, <2>2, <2>5 DEF SeedInstruction, StateOK
  <1>6. CASE MarkUsers
    <2>1. CursorOK'
      BY <1>0, <1>6, CursorStep DEF MarkUsers, CursorOK
    <2> QED
      BY <1>0, <1>6, <2>1 DEF MarkUsers, Users, StateOK
  <1>7. CASE StartInter
    BY <1>7, SameCursor DEF cursor, StartInter, StateOK
  <1>8. CASE EnterFunction
    <2> DEFINE f == Head(stack).fn
    <2>1. Returns(P, f) \subseteq Ins(P) /\ (Returns(P, f) # {} => f \in DOMAIN P.fns)
      BY <1>0, InsOfType DEF Returns
    <2>2. live' \subseteq Ins(P) /\ todo' \subseteq live' /\ retUndef' \subseteq DOMAIN P.fns
      BY <1>0, <1>8, <2>1 DEF EnterFunction, Inter, Keep
    <2> QED
      BY <1>0, <1>8, <2>2, SameCursor DEF cursor, EnterFunction, Inter, StateOK
  <1>9. CASE StackOverflow \/ ScanCall \/ JudgeCall \/ LeaveFunction \/ DeleteIns
    <2>1. /\ UNCHANGED <<P, live, todo, blk, part, pos, related, retUndef>>
          /\ phase' \in {phase, "crash", "overflow", "done"}
      BY <1>9 DEF StackOverflow, ScanCall, JudgeCall, LeaveFunction, DeleteIns, cursor
    <2> QED
      BY <1>0, <2>1, SameCursor DEF cursor, StateOK
  <1>10. CASE UNCHANGED vars
    BY <1>0, <1>10, SameCursor DEF cursor, vars, StateOK
  <1>11. StateOK'
    BY <1>1, <1>2, <1>3, <1>4, <1>5, <1>6, <1>7, <1>8, <1>9, <1>10 DEF Next
  <1> QED
    BY <1>11, SameProgram

LEMMA FreshState ==
    ASSUME WellFormed(P), Fresh
    PROVE  StateOK
  <1>1. Len(P.blocks) \in Nat /\ (1 \in DOMAIN P.blocks => 1 \in DOMAIN P.blocks[1].code)
    BY Code
  <1>2. CursorOK
    BY <1>1 DEF Fresh, CursorOK
  <1> QED
    BY <1>2 DEF Fresh, StateOK

\* The pass's sets and iterators stay within the program (IRSlicer).
THEOREM TypeCorrect == Spec => []TypeOK
  <1>1. Init => TypeOK
    BY FreshState, ProgramsAssumption DEF Init, TypeOK
  <1>2. TypeOK /\ [Next]_vars => TypeOK'
    BY StateStep, ProgramsAssumption DEF TypeOK
  <1> QED
    BY <1>1, <1>2, PTL DEF Spec

-----------------------------------------------------------------------------
\* A return without a value depends on nothing.
LEMMA BareReturn ==
    ASSUME NEW p, WellFormed(p), NEW i \in Ins(p), Op(p, i) = "retvoid"
    PROVE  Deps(p, i) = {}
  <1>1. p.ins[i].ops = {}
    BY DEF WellFormed
  <1> QED
    BY <1>1 DEF Deps, AsksReachingStores

\* Marking instructions and handing all new ones to findLives keeps the live
\* set closed, whatever is marked.
LEMMA MarkClosed ==
    ASSUME LiveClosed, todo = {}, NEW S, MarkAndExpand(S), UNCHANGED <<P, retUndef>>
    PROVE  LiveClosed'
  BY DEF LiveClosed, MarkAndExpand

LEMMA KeepClosed ==
    ASSUME LiveClosed, UNCHANGED <<P, live, todo, retUndef>>
    PROVE  LiveClosed'
  BY DEF LiveClosed

LEMMA ClosedStep ==
    ASSUME WellFormed(P), StateOK, LiveClosed, [Next]_vars
    PROVE  LiveClosed'
  <1>1. CASE FindLives
    BY <1>1 DEF FindLives, MarkAndExpand, LiveClosed
  <1>2. CASE SeedFunction
    BY <1>2, MarkClosed, KeepClosed DEF SeedFunction, Seeding, Keep
  <1>3. CASE SeedTerminator
    BY <1>3, MarkClosed, KeepClosed DEF SeedTerminator, Seeding, Keep
  <1>4. CASE SeedInstruction
    BY <1>4, MarkClosed, KeepClosed DEF SeedInstruction, Seeding, Keep
  <1>5. CASE MarkUsers
    <2>1. related \in Ins(P) /\ Related(P, related)
      BY <1>5 DEF MarkUsers, StateOK, CursorOK
    <2>2. \A u \in Users(P, related) : UsesFopen(P, u)
      BY <2>1 DEF Users, UsesFopen
    <2> QED
      BY <1>5, <2>2 DEF MarkUsers, LiveClosed
  <1>6. CASE EnterFunction
    <2> DEFINE f      == Head(stack).fn
               valued == {r \in Returns(P, f) : Op(P, r) = "ret"}
    <2>0. P' = P /\ todo = {}
      BY <1>6 DEF EnterFunction, Inter
    <2>1. CASE Keep /\ UNCHANGED retUndef
      BY <2>0, <2>1, KeepClosed DEF Keep
    <2>2. CASE /\ live' = live \cup Returns(P, f)
               /\ todo' = (IF Head(stack).used /\ f \notin retUndef THEN valued ELSE {}) \ live
               /\ retUndef' = IF Head(stack).used \/ valued = {} THEN retUndef
                              ELSE retUndef \cup {f}
      <3> SUFFICES ASSUME NEW i \in live' \ todo'
                   PROVE  \/ Deps(P, i) \subseteq live' \/ UsesFopen(P, i)
                          \/ Replaced(P, i, retUndef')
        BY <2>0 DEF LiveClosed
      <3>1. CASE i \in live
        BY <2>0, <2>2, <3>1 DEF LiveClosed, Replaced
      <3>2. CASE i \in Returns(P, f) /\ Op(P, i) = "retvoid"
        BY <2>0, <3>2, InsOfType, BareReturn
      <3>3. CASE i \notin live /\ i \in valued
        <4>1. f \in retUndef'
          BY <2>2, <3>3
        <4> QED
          BY <3>3, <4>1 DEF Replaced
      <3> QED
        BY <2>2, <3>1, <3>2, <3>3 DEF Returns, ReturnOps
    <2> QED
      BY <1>6, <2>1, <2>2 DEF EnterFunction
  <1>7. CASE FindLivesCrash \/ StartInter \/ StackOverflow \/ ScanCall \/ JudgeCall
             \/ LeaveFunction \/ DeleteIns
    BY <1>7, KeepClosed DEF FindLivesCrash, StartInter, StackOverflow, ScanCall, JudgeCall,
                            LeaveFunction, DeleteIns
  <1>8. CASE UNCHANGED vars
    BY <1>8, KeepClosed DEF vars
  <1> QED
    BY <1>1, <1>2, <1>3, <1>4, <1>5, <1>6, <1>7, <1>8 DEF Next

\* In every state, what the slicer keeps finds kept all it depends on, but for
\* the users of fopen calls and the replaced returns (findLives, interFunction).
THEOREM SliceClosed == Spec => []LiveClosed
  <1>1. Init => LiveClosed
    BY DEF Init, Fresh, LiveClosed
  <1>2. TypeOK /\ LiveClosed /\ [Next]_vars => LiveClosed'
    BY ClosedStep, ProgramsAssumption DEF TypeOK
  <1> QED
    BY <1>1, <1>2, TypeCorrect, PTL DEF Spec

-----------------------------------------------------------------------------
(* The slicing criteria.                                                   *)

\* What the loop of runOnModule is through with: instructions and terminators
Behind(x) == x[1] < blk \/ (x[1] = blk /\ part = "instructions" /\ x[2] < pos)
EndBehind(b) == b < blk \/ (b = blk /\ part = "instructions")

IsCriterion(p, i) == Criterion(p, i) \/ Related(p, i)
Branches(p, b)     == Op(p, Terminator(p, b)) \in ControlOps

CriteriaBehind == \A x \in Places(P) : Behind(x) /\ IsCriterion(P, At(P, x)) => At(P, x) \in live
EndsBehind     == \A b \in DOMAIN P.blocks :
                     EndBehind(b) /\ Branches(P, b) => Terminator(P, b) \in live
\* A terminator is marked by its block's turn, or with its whole function.
MarkedByTurn   == \A b \in DOMAIN P.blocks :
                     Branches(P, b) /\ Terminator(P, b) \in live =>
                        EndBehind(b) \/ InsOf(P, P.blocks[b].fn) \subseteq live
RelatedIsHere  == related # "none" => /\ part = "instructions" /\ related \in live
                                      /\ related = P.blocks[blk].code[pos]
SeedingOver    == phase \in {"inter", "done"} => blk \notin DOMAIN P.blocks
TurnBegins     == part # "instructions" => pos = 1

Seeded == CriteriaBehind /\ EndsBehind /\ MarkedByTurn /\ RelatedIsHere /\ SeedingOver /\ TurnBegins

LEMMA PlacesType ==
    ASSUME NEW p, WellFormed(p), NEW x \in Places(p)
    PROVE  /\ x = <<x[1], x[2]>> /\ x[1] \in DOMAIN p.blocks /\ x[1] \in 1..Len(p.blocks)
           /\ x[2] \in DOMAIN p.blocks[x[1]].code
           /\ x[2] \in 1..Len(p.blocks[x[1]].code)
           /\ At(p, x) \in InsOf(p, p.blocks[x[1]].fn) /\ At(p, x) \in Ins(p)
  <1>1. PICK b \in DOMAIN p.blocks : x \in {b} \X DOMAIN p.blocks[b].code
    BY DEF Places
  <1>2. x = <<x[1], x[2]>> /\ x[1] = b /\ x[2] \in DOMAIN p.blocks[b].code
    BY <1>1
  <1>3. At(p, x) \in InsOf(p, p.blocks[b].fn)
    BY <1>2 DEF At, InsOf
  <1>4. b \in 1..Len(p.blocks) /\ x[2] \in 1..Len(p.blocks[b].code)
    BY <1>2, Code
  <1> QED
    BY <1>2, <1>3, <1>4, InsOfType

LEMMA InsOfPlace ==
    ASSUME NEW p, WellFormed(p), NEW f, NEW i \in InsOf(p, f)
    PROVE  \E x \in Places(p) : At(p, x) = i /\ p.blocks[x[1]].fn = f
  <1>1. PICK b \in DOMAIN p.blocks :
           p.blocks[b].fn = f /\ \E k \in DOMAIN p.blocks[b].code : i = p.blocks[b].code[k]
    BY DEF InsOf
  <1>2. PICK k \in DOMAIN p.blocks[b].code : i = p.blocks[b].code[k]
    BY <1>1
  <1>3. <<b, k>> \in Places(p) /\ At(p, <<b, k>>) = i
    BY <1>2 DEF Places, At
  <1> QED
    BY <1>1, <1>3

\* An instruction is in one function.
LEMMA OneFunction ==
    ASSUME NEW p, WellFormed(p), NEW x \in Places(p), NEW f, At(p, x) \in InsOf(p, f)
    PROVE  p.blocks[x[1]].fn = f
  <1>1. PICK y \in Places(p) : At(p, y) = At(p, x) /\ p.blocks[y[1]].fn = f
    BY InsOfPlace
  <1>2. x = y
    BY <1>1 DEF WellFormed
  <1> QED
    BY <1>1, <1>2

LEMMA Ends ==
    ASSUME NEW p, WellFormed(p), NEW b \in DOMAIN p.blocks
    PROVE  /\ <<b, Len(p.blocks[b].code)>> \in Places(p)
           /\ Terminator(p, b) = At(p, <<b, Len(p.blocks[b].code)>>)
           /\ Terminator(p, b) \in InsOf(p, p.blocks[b].fn)
           /\ \A f : Terminator(p, b) \in InsOf(p, f) => p.blocks[b].fn = f
           /\ \A c \in DOMAIN p.blocks : Terminator(p, b) = Terminator(p, c) => b = c
  <1> DEFINE End(c) == <<c, Len(p.blocks[c].code)>>
  <1>1. \A c \in DOMAIN p.blocks : End(c) \in Places(p) /\ Terminator(p, c) = At(p, End(c))
    BY Code DEF Places, Terminator, At
  <1>0. \A c : End(c)[1] = c
    OBVIOUS
  <1>2. Terminator(p, b) \in InsOf(p, p.blocks[b].fn)
    <2> HIDE DEF End
    <2>1. At(p, End(b)) \in InsOf(p, p.blocks[End(b)[1]].fn)
      BY <1>1, PlacesType
    <2> QED
      BY <1>0, <1>1, <2>1
  <1>3. \A f : Terminator(p, b) \in InsOf(p, f) => p.blocks[b].fn = f
    <2> HIDE DEF End
    <2> SUFFICES ASSUME NEW f, Terminator(p, b) \in InsOf(p, f) PROVE p.blocks[b].fn = f
      OBVIOUS
    <2>1. End(b) \in Places(p) /\ At(p, End(b)) \in InsOf(p, f)
      BY <1>1
    <2>2. p.blocks[End(b)[1]].fn = f
      BY <2>1, OneFunction
    <2> QED
      BY <1>0, <2>2
  <1>4. ASSUME NEW c \in DOMAIN p.blocks, Terminator(p, b) = Terminator(p, c) PROVE b = c
    <2>1. At(p, End(b)) = At(p, End(c)) /\ End(b) \in Places(p) /\ End(c) \in Places(p)
      BY <1>1, <1>4
    <2>2. End(b) = End(c)
      BY <2>1 DEF WellFormed
    <2> QED
      BY <2>2
  <1> QED
    BY <1>1, <1>2, <1>3, <1>4

\* What findLives and findAllRelatedIns mark does not decide the control flow.
LEMMA DepsDecideNothing ==
    ASSUME NEW p, WellFormed(p), NEW i \in Ins(p), NEW t \in Deps(p, i)
    PROVE  Op(p, t) \notin ControlOps
  <1>1. t \in Ins(p) /\ (t \in p.ins[i].ops \/ Op(p, t) = "store")
    BY DepsType DEF Deps, GlobalStores, ReachingStores
  <1> QED
    BY <1>1 DEF WellFormed, ControlOps

LEMMA UsersDecideNothing ==
    ASSUME NEW p, WellFormed(p), NEW i \in Ins(p), Related(p, i), NEW u \in Users(p, i)
    PROVE  Op(p, u) \notin ControlOps
  BY DEF WellFormed, Users

\* Marking what does not decide the control flow, while the loop stands still.
LEMMA MoreMarked ==
    ASSUME Seeded, UNCHANGED <<P, blk, part, pos, related>>, live \subseteq live',
           \A t \in live' \ live : Op(P, t) \notin ControlOps,
           phase' \in {"inter", "done"} => blk \notin DOMAIN P.blocks
    PROVE  Seeded'
  <1>1. CriteriaBehind' /\ EndsBehind'
    BY DEF Seeded, CriteriaBehind, EndsBehind, Behind, EndBehind
  <1>2. MarkedByTurn'
    BY DEF Seeded, MarkedByTurn, EndBehind, Branches
  <1>3. RelatedIsHere' /\ SeedingOver' /\ TurnBegins'
    BY DEF Seeded, RelatedIsHere, SeedingOver, TurnBegins
  <1> QED
    BY <1>1, <1>2, <1>3 DEF Seeded

\* Advancing the loop from an instruction that is marked, if it has to be.
LEMMA NextMarked ==
    ASSUME WellFormed(P), CursorOK, Seeded, blk \in DOMAIN P.blocks, part = "instructions",
           NextIns, P' = P, related' = "none", phase = "seed", phase' = phase, live \subseteq live',
           \A t \in live' \ live : Op(P, t) \notin ControlOps,
           IsCriterion(P, P.blocks[blk].code[pos]) => P.blocks[blk].code[pos] \in live'
    PROVE  Seeded'
  <1>0. /\ blk \in Nat /\ blk \in 1..Len(P.blocks) /\ Len(P.blocks) \in Nat
        /\ pos \in 1..Len(P.blocks[blk].code) /\ Len(P.blocks[blk].code) \in Nat
    BY Code DEF CursorOK
  <1>1. ASSUME NEW x \in Places(P), Behind(x)' PROVE Behind(x) \/ x = <<blk, pos>>
    <2>1. /\ x[1] \in 1..Len(P.blocks) /\ x[2] \in 1..Len(P.blocks[x[1]].code)
          /\ x = <<x[1], x[2]>>
      BY PlacesType
    <2>2. CASE pos < Len(P.blocks[blk].code) /\ pos' = pos + 1 /\ UNCHANGED <<blk, part>>
      BY <1>0, <1>1, <2>1, <2>2 DEF Behind
    <2>3. CASE pos = Len(P.blocks[blk].code) /\ NextBlock
      <3>1. blk' = blk + 1 /\ part' # "instructions"
        BY <2>3 DEF NextBlock
      <3>2. x[1] < blk \/ x[1] = blk
        BY <1>0, <1>1, <2>1, <3>1 DEF Behind
      <3> QED
        BY <1>0, <2>1, <2>3, <3>2 DEF Behind
    <2> QED
      BY <2>2, <2>3 DEF NextIns
  <1>2. ASSUME NEW b \in DOMAIN P.blocks PROVE EndBehind(b)' <=> EndBehind(b)
    <2>1. b \in 1..Len(P.blocks)
      BY Code
    <2>2. CASE UNCHANGED <<blk, part>>
      BY <2>2 DEF EndBehind
    <2>3. CASE NextBlock
      BY <1>0, <2>1, <2>3 DEF NextBlock, EndBehind
    <2> QED
      BY <2>2, <2>3 DEF NextIns
  <1>3. CriteriaBehind'
    <2> SUFFICES ASSUME NEW x \in Places(P), Behind(x)', IsCriterion(P, At(P, x))
                 PROVE  At(P, x) \in live'
      BY DEF CriteriaBehind
    <2>1. CASE Behind(x)
      BY <2>1 DEF Seeded, CriteriaBehind
    <2>2. CASE x = <<blk, pos>>
      BY <2>2 DEF At
    <2> QED
      BY <1>1, <2>1, <2>2
  <1>4. EndsBehind'
    BY <1>2 DEF Seeded, EndsBehind
  <1>5. MarkedByTurn'
    BY <1>2 DEF Seeded, MarkedByTurn, Branches
  <1>6. RelatedIsHere' /\ SeedingOver' /\ TurnBegins'
    BY DEF RelatedIsHere, SeedingOver, TurnBegins, NextIns, NextBlock
  <1> QED
    BY <1>3, <1>4, <1>5, <1>6 DEF Seeded

LEMMA SeededFunction ==
    ASSUME WellFormed(P), Seeded, SeedFunction
    PROVE  Seeded'
  <1> DEFINE f == P.blocks[blk].fn
  <1>1. /\ UNCHANGED <<P, phase, blk, pos, related>> /\ part = "function" /\ part' = "terminator"
        /\ related = "none" /\ blk \in DOMAIN P.blocks /\ phase = "seed"
        /\ live' = live \/ live' = live \cup InsOf(P, f)
    BY DEF SeedFunction, Seeding, MarkAndExpand, Keep
  <1>2. CriteriaBehind' /\ EndsBehind'
    BY <1>1 DEF Seeded, CriteriaBehind, EndsBehind, Behind, EndBehind
  <1>3. MarkedByTurn'
    <2> SUFFICES ASSUME NEW b \in DOMAIN P.blocks, Branches(P, b), Terminator(P, b) \in live'
                 PROVE  EndBehind(b)' \/ InsOf(P, P.blocks[b].fn) \subseteq live'
      BY <1>1 DEF MarkedByTurn
    <2>1. CASE Terminator(P, b) \in live
      BY <1>1, <2>1 DEF Seeded, MarkedByTurn, EndBehind
    <2>2. CASE Terminator(P, b) \in InsOf(P, f)
      <3>1. P.blocks[b].fn = f
        BY <2>2, Ends
      <3> QED
        BY <1>1, <2>1, <3>1
    <2> QED
      BY <1>1, <2>1, <2>2
  <1>4. RelatedIsHere' /\ SeedingOver' /\ TurnBegins'
    BY <1>1 DEF Seeded, RelatedIsHere, SeedingOver, TurnBegins
  <1> QED
    BY <1>2, <1>3, <1>4 DEF Seeded

LEMMA SeededTerminator ==
    ASSUME WellFormed(P), CursorOK, Seeded, SeedTerminator
    PROVE  Seeded'
  <1> DEFINE t == Terminator(P, blk)
  <1>1. /\ UNCHANGED <<P, phase, related>> /\ part = "terminator"
        /\ related = "none" /\ blk \in DOMAIN P.blocks /\ phase = "seed"
        /\ blk \in 1..Len(P.blocks) /\ Len(P.blocks) \in Nat
    BY Code DEF SeedTerminator, Seeding
  <1>2. RelatedIsHere' /\ SeedingOver' /\ TurnBegins'
    BY <1>1 DEF SeedTerminator, RelatedIsHere, SeedingOver, TurnBegins, NextBlock, ToInstructions
  <1>3. CASE Branches(P, blk) /\ t \in live /\ Keep /\ NextBlock
    <2>1. InsOf(P, P.blocks[blk].fn) \subseteq live
      BY <1>1, <1>3 DEF Seeded, MarkedByTurn, EndBehind
    <2>2. /\ blk' = blk + 1 /\ live' = live /\ part' # "instructions"
      BY <1>3 DEF Keep, NextBlock
    <2>3. ASSUME NEW x \in Places(P), Behind(x)', IsCriterion(P, At(P, x))
          PROVE  At(P, x) \in live'
      <3>1. x[1] \in 1..Len(P.blocks) /\ At(P, x) \in InsOf(P, P.blocks[x[1]].fn)
        BY PlacesType
      <3>2. x[1] < blk \/ x[1] = blk
        BY <1>1, <2>2, <2>3, <3>1 DEF Behind
      <3>3. CASE x[1] < blk
        BY <2>2, <2>3, <3>3 DEF Seeded, CriteriaBehind, Behind
      <3>4. CASE x[1] = blk
        BY <2>1, <2>2, <3>1, <3>4
      <3> QED
        BY <3>2, <3>3, <3>4
    <2>4. \A b \in DOMAIN P.blocks : EndBehind(b)' <=> b = blk \/ EndBehind(b)
      <3>1. \A b \in DOMAIN P.blocks : b \in 1..Len(P.blocks)
        BY Code
      <3> QED
        BY <1>1, <2>2, <3>1 DEF EndBehind
    <2>5. CriteriaBehind'
      BY <1>1, <2>3 DEF CriteriaBehind
    <2>6. EndsBehind' /\ MarkedByTurn'
      BY <1>1, <1>3, <2>2, <2>4 DEF Seeded, EndsBehind, MarkedByTurn
    <2> QED
      BY <1>2, <2>5, <2>6 DEF Seeded
  <1>4. CASE /\ ToInstructions /\ live \subseteq live' /\ live' \subseteq live \cup {t}
             /\ Branches(P, blk) => t \in live'
    <2>1. blk' = blk /\ pos' = pos /\ part' = "instructions"
      BY <1>4 DEF ToInstructions
    <2>2. \A x \in Places(P) : Behind(x)' => Behind(x)
      <3>1. pos = 1 /\ \A x \in Places(P) : x[2] \in Nat \ {0}
        BY <1>1, PlacesType, Code DEF Seeded, TurnBegins
      <3> QED
        BY <2>1, <3>1 DEF Behind
    <2>3. \A b \in DOMAIN P.blocks : EndBehind(b)' <=> b = blk \/ EndBehind(b)
      BY <1>1, <2>1 DEF EndBehind
    <2>4. CriteriaBehind'
      BY <1>1, <1>4, <2>2 DEF Seeded, CriteriaBehind
    <2>5. EndsBehind'
      BY <1>1, <1>4, <2>3 DEF Seeded, EndsBehind
    <2>6. MarkedByTurn'
      <3> SUFFICES ASSUME NEW b \in DOMAIN P.blocks, Branches(P, b), Terminator(P, b) \in live'
                   PROVE  EndBehind(b)' \/ InsOf(P, P.blocks[b].fn) \subseteq live'
        BY <1>1 DEF MarkedByTurn
      <3>1. CASE Terminator(P, b) \in live
        BY <1>4, <2>3, <3>1 DEF Seeded, MarkedByTurn
      <3>2. CASE Terminator(P, b) = t
        BY <1>1, <2>3, <3>2, Ends
      <3> QED
        BY <1>4, <3>1, <3>2
    <2> QED
      BY <1>2, <2>4, <2>5, <2>6 DEF Seeded
  <1> QED
    BY <1>3, <1>4 DEF SeedTerminator, Branches, ToInstructions, MarkAndExpand, Keep

LEMMA SeededStep ==
    ASSUME WellFormed(P), StateOK, Seeded, [Next]_vars
    PROVE  Seeded'
  <1>0. CursorOK /\ P' = P /\ todo \subseteq Ins(P)
    BY SameProgram DEF StateOK
  <1>1. CASE FindLives
    <2>1. \A t \in live' \ live : Op(P, t) \notin ControlOps
      BY <1>0, <1>1, DepsDecideNothing DEF FindLives, MarkAndExpand
    <2> QED
      BY <1>0, <1>1, <2>1, MoreMarked DEF FindLives, MarkAndExpand, cursor, Seeded, SeedingOver
  <1>2. CASE SeedFunction
    BY <1>2, SeededFunction
  <1>3. CASE SeedTerminator
    BY <1>0, <1>3, SeededTerminator
  <1>4. CASE SeedInstruction
    <2> DEFINE i == P.blocks[blk].code[pos]
    <2>1. /\ phase = "seed" /\ phase' = phase /\ blk \in DOMAIN P.blocks
          /\ part = "instructions" /\ related = "none"
      BY <1>4 DEF SeedInstruction, Seeding
    <2>2. CASE Related(P, i) /\ MarkAndExpand({i}) /\ related' = i /\ UNCHANGED <<blk, part, pos>>
      <3>1. Op(P, i) \notin ControlOps
        BY <2>2 DEF Related, IsCall, ControlOps
      <3>2. CriteriaBehind' /\ EndsBehind' /\ MarkedByTurn'
        BY <1>0, <2>2, <3>1 DEF MarkAndExpand, Seeded, CriteriaBehind, EndsBehind, MarkedByTurn,
                               Behind, EndBehind, Branches
      <3>3. RelatedIsHere' /\ SeedingOver' /\ TurnBegins'
        BY <1>0, <2>1, <2>2 DEF MarkAndExpand, RelatedIsHere, SeedingOver, TurnBegins
      <3> QED
        BY <3>2, <3>3 DEF Seeded
    <2>3. CASE Criterion(P, i) /\ MarkAndExpand({i}) /\ NextIns /\ UNCHANGED related
      <3>1. Op(P, i) \notin ControlOps
        BY <2>3 DEF Criterion, IsCall, ControlOps
      <3> QED
        BY <1>0, <2>1, <2>3, <3>1, NextMarked DEF MarkAndExpand
    <2>4. CASE ~Related(P, i) /\ ~Criterion(P, i) /\ Keep /\ NextIns /\ UNCHANGED related
      BY <1>0, <2>1, <2>4, NextMarked DEF Keep, IsCriterion
    <2> QED
      BY <1>4, <2>2, <2>3, <2>4 DEF SeedInstruction
  <1>5. CASE MarkUsers
    <2>1. /\ blk \in DOMAIN P.blocks /\ related \in Ins(P) /\ Related(P, related)
          /\ part = "instructions" /\ related \in live /\ related = P.blocks[blk].code[pos]
      BY <1>0, <1>5 DEF MarkUsers, CursorOK, Seeded, RelatedIsHere
    <2>2. \A t \in live' \ live : Op(P, t) \notin ControlOps
      BY <1>5, <2>1, UsersDecideNothing DEF MarkUsers
    <2> QED
      BY <1>0, <1>5, <2>1, <2>2, NextMarked DEF MarkUsers
  <1>6. CASE EnterFunction
    <2>1. \A t \in live' \ live : Op(P, t) \notin ControlOps
      BY <1>6 DEF EnterFunction, Inter, Keep, Returns, ReturnOps, ControlOps
    <2>2. /\ live \subseteq live' /\ UNCHANGED <<phase, blk, part, pos, related>>
      BY <1>6 DEF EnterFunction, Inter, Keep, cursor
    <2> QED
      BY <1>0, <2>1, <2>2, MoreMarked DEF Seeded, SeedingOver
  <1>7. CASE FindLivesCrash \/ StartInter \/ StackOverflow \/ ScanCall \/ JudgeCall
             \/ LeaveFunction \/ DeleteIns \/ UNCHANGED vars
    <2>1. live' = live /\ UNCHANGED <<blk, part, pos, related>>
      BY <1>7 DEF FindLivesCrash, StartInter, StackOverflow, ScanCall, JudgeCall,
                  LeaveFunction, DeleteIns, vars, cursor
    <2>2. phase' \in {"inter", "done"} => blk \notin DOMAIN P.blocks
      BY <1>7 DEF FindLivesCrash, StartInter, StackOverflow, ScanCall, JudgeCall, Inter,
                  LeaveFunction, DeleteIns, vars, Seeded, SeedingOver
    <2> QED
      BY <1>0, <2>1, <2>2, MoreMarked
  <1> QED
    BY <1>1, <1>2, <1>3, <1>4, <1>5, <1>6, <1>7 DEF Next

LEMMA FreshSeeded ==
    ASSUME WellFormed(P), Fresh
    PROVE  Seeded
  <1>1. \A x \in Places(P) : ~Behind(x)
    BY PlacesType, Code DEF Behind, Fresh
  <1>2. \A b \in DOMAIN P.blocks : ~EndBehind(b)
    BY Code DEF EndBehind, Fresh
  <1> QED
    BY <1>1, <1>2 DEF Fresh, Seeded, CriteriaBehind, EndsBehind, MarkedByTurn, RelatedIsHere,
                      SeedingOver, TurnBegins

LEMMA SeededKeeps ==
    ASSUME WellFormed(P), StateOK, Seeded
    PROVE  CriteriaKept
  <1> SUFFICES ASSUME phase = "done" PROVE CriteriaKept
    BY DEF CriteriaKept
  <1>1. /\ Len(P.blocks) \in Nat /\ blk = Len(P.blocks) + 1
    BY Code DEF StateOK, CursorOK, Seeded, SeedingOver
  <1>2. \A x \in Places(P) : Behind(x)
    BY <1>1, PlacesType DEF Behind
  <1>3. \A x \in Places(P) : IsCriterion(P, At(P, x)) => At(P, x) \in live
    BY <1>2 DEF Seeded, CriteriaBehind
  <1>4. ASSUME NEW b \in DOMAIN P.blocks
        PROVE  LET t == Terminator(P, b)
               IN  \/ t \in Kept(P)
                   \/ ~Criterion(P, t) /\ Op(P, t) \notin ControlOps \cup ReturnOps
    <2> DEFINE t == Terminator(P, b)
    <2>1. t \in Ins(P) /\ b \in 1..Len(P.blocks)
      BY Code
    <2>2. Criterion(P, t) => t \in live
      <3> DEFINE x == <<b, Len(P.blocks[b].code)>>
      <3>1. x \in Places(P) /\ t = At(P, x)
        BY Ends
      <3> HIDE DEF x, t
      <3> QED
        BY <1>3, <3>1 DEF IsCriterion
    <2>3. Op(P, t) \in ControlOps => t \in live
      BY <1>1, <2>1 DEF Seeded, EndsBehind, EndBehind, Branches
    <2> QED
      BY <2>1, <2>2, <2>3 DEF Kept
  <1> QED
    BY <1>3, <1>4 DEF CriteriaKept, IsCriterion

\* When the pass is done, every call it takes for a criterion is kept, and so
\* is every terminator that decides the control flow, though blocks whose
\* terminator is live already are skipped (IRSlicer::runOnModule).
THEOREM CriteriaAreKept == Spec => []CriteriaKept
  <1>1. Init => Seeded
    BY FreshSeeded, ProgramsAssumption DEF Init
  <1>2. TypeOK /\ Seeded /\ [Next]_vars => Seeded'
    BY SeededStep, ProgramsAssumption DEF TypeOK
  <1>3. TypeOK /\ Seeded => CriteriaKept
    BY SeededKeeps, ProgramsAssumption DEF TypeOK
  <1> QED
    BY <1>1, <1>2, <1>3, TypeCorrect, PTL DEF Spec

-----------------------------------------------------------------------------
(* interFunction's tasks.                                                  *)

\* What is left to do
Tasks(p) ==
    [task : {"enter"}, fn : DOMAIN p.fns, used : BOOLEAN]
    \cup [task : {"scan"}, ahead : SUBSET {x \in Places(p) : IsCall(p, At(p, x))}]
    \cup [task : {"judge"}, call : {c \in Ins(p) : IsCall(p, c) /\ Callee(p, c) # "none"}]

LEMMA Task ==
    ASSUME NEW p, NEW t \in Tasks(p)
    PROVE  /\ t.task = "enter" => t.fn \in DOMAIN p.fns /\ t.used \in BOOLEAN
           /\ t.task = "scan"  => /\ t.ahead \subseteq Places(p)
                                  /\ \A x \in t.ahead : IsCall(p, At(p, x))
           /\ t.task = "judge" => t.call \in Ins(p) /\ IsCall(p, t.call) /\ Callee(p, t.call) # "none"
  BY DEF Tasks

On(s) == {s[n] : n \in DOMAIN s}

LEMMA Pushed ==
    ASSUME NEW T, NEW s \in Seq(T), NEW t \in T
    PROVE  <<t>> \o s \in Seq(T) /\ On(<<t>> \o s) = {t} \cup On(s)
  <1> DEFINE u == <<t>> \o s
  <1>1. /\ u \in Seq(T) /\ Len(u) = Len(s) + 1 /\ Len(s) \in Nat
        /\ u[1] = t /\ \A n \in 1..Len(s) : u[n + 1] = s[n]
        /\ DOMAIN u = 1..(Len(s) + 1) /\ DOMAIN s = 1..Len(s)
    OBVIOUS
  <1> HIDE DEF u
  <1>2. On(u) \subseteq {t} \cup On(s)
    <2> SUFFICES ASSUME NEW n \in 1..(Len(s) + 1), n # 1 PROVE u[n] \in On(s)
      BY <1>1 DEF On
    <2>1. n - 1 \in 1..Len(s) /\ (n - 1) + 1 = n
      BY <1>1
    <2> QED
      BY <1>1, <2>1 DEF On
  <1>3. {t} \cup On(s) \subseteq On(u)
    <2>1. t \in On(u)
      BY <1>1 DEF On
    <2>2. ASSUME NEW n \in 1..Len(s) PROVE s[n] \in On(u)
      <3>1. n + 1 \in 1..(Len(s) + 1)
        BY <1>1
      <3> QED
        BY <1>1, <3>1 DEF On
    <2> QED
      BY <1>1, <2>1, <2>2 DEF On
  <1> QED
    BY <1>1, <1>2, <1>3 DEF u

LEMMA Alone ==
    ASSUME NEW T, NEW t \in T
    PROVE  <<t>> \in Seq(T)
  OBVIOUS

LEMMA OnAlone ==
    ASSUME NEW t
    PROVE  On(<<t>>) = {t}
  BY DEF On

LEMMA Popped ==
    ASSUME NEW T, NEW s \in Seq(T), s # <<>>
    PROVE  Head(s) \in T /\ Tail(s) \in Seq(T) /\ On(s) = {Head(s)} \cup On(Tail(s))
  <1>1. Head(s) \in T /\ Tail(s) \in Seq(T) /\ s = <<Head(s)>> \o Tail(s)
    OBVIOUS
  <1> QED
    BY <1>1, Pushed

\* There is a first one of any places.
LEMMA FirstOf ==
    ASSUME NEW p, WellFormed(p), NEW S \in SUBSET Places(p), S # {}
    PROVE  First(S) \in S
  <1> DEFINE B == {x[1] : x \in S}
  <1>1. \A x \in S : x[1] \in Nat /\ x[2] \in Nat /\ x = <<x[1], x[2]>>
    BY PlacesType, Code
  <1>2. PICK b \in B : \A c \in B : b <= c
    <2>1. B \in SUBSET Nat /\ B # {}
      BY <1>1
    <2> HIDE DEF B
    <2> QED
      BY <2>1, Least
  <1> DEFINE K == {x[2] : x \in {y \in S : y[1] = b}}
  <1>3. PICK k \in K : \A l \in K : k <= l
    <2>1. K \in SUBSET Nat /\ K # {}
      BY <1>1, <1>2
    <2> HIDE DEF K
    <2> QED
      BY <2>1, Least
  <1>4. PICK x \in S : x[1] = b /\ x[2] = k
    BY <1>3
  <1>5. ASSUME NEW y \in S PROVE x[1] < y[1] \/ (x[1] = y[1] /\ x[2] <= y[2])
    <2>1. y[1] \in B /\ b <= y[1]
      BY <1>2
    <2>2. y[1] = b => y[2] \in K /\ k <= y[2]
      BY <1>3
    <2> QED
      BY <1>1, <1>4, <2>1, <2>2
  <1> QED
    BY <1>4, <1>5 DEF First

TasksOK == stack \in Seq(Tasks(P))

LEMMA TasksStep ==
    ASSUME WellFormed(P), TasksOK, [Next]_vars
    PROVE  TasksOK'
  <1>0. P' = P
    BY SameProgram
  <1>1. stack # <<>> => Head(stack) \in Tasks(P) /\ Tail(stack) \in Seq(Tasks(P))
    BY Popped DEF TasksOK
  <1>2. CASE StartInter
    <2>1. "main" \in DOMAIN P.fns => Enter("main", FALSE) \in Tasks(P)
      BY DEF Enter, Tasks
    <2>2. "main" \in DOMAIN P.fns => <<Enter("main", FALSE)>> \in Seq(Tasks(P))
      BY <2>1, Alone
    <2> QED
      BY <1>0, <1>2, <2>2 DEF StartInter, TasksOK
  <1>3. CASE EnterFunction
    <2>1. Scan(CallsOf(P, Head(stack).fn)) \in Tasks(P)
      BY DEF Scan, CallsOf, Tasks
    <2>2. /\ Head(stack) \in Tasks(P) /\ Tail(stack) \in Seq(Tasks(P))
          /\ stack' \in {Tail(stack), <<Scan(CallsOf(P, Head(stack).fn))>> \o Tail(stack)}
      BY <1>1, <1>3 DEF EnterFunction, Inter
    <2> QED
      BY <1>0, <2>1, <2>2, Pushed DEF TasksOK
  <1>4. CASE ScanCall
    <2> DEFINE x == First(Head(stack).ahead)
               c == At(P, x)
               s == <<Judge(c), Scan(Head(stack).ahead \ {x})>> \o Tail(stack)
    <2>1. /\ Head(stack).ahead \subseteq Places(P)
          /\ \A y \in Head(stack).ahead : IsCall(P, At(P, y))
          /\ Head(stack).ahead # {} /\ Tail(stack) \in Seq(Tasks(P))
      BY <1>1, <1>4, Task DEF ScanCall, Inter
    <2>2. x \in Places(P) /\ IsCall(P, c) /\ c \in Ins(P)
      BY <2>1, FirstOf, PlacesType
    <2>3. Scan(Head(stack).ahead \ {x}) \in Tasks(P)
      BY <2>1 DEF Scan, Tasks
    <2>4. CASE Callee(P, c) # "none"
      <3>1. Judge(c) \in Tasks(P)
        BY <2>2, <2>4 DEF Judge, Tasks
      <3>2. s \in Seq(Tasks(P))
        BY <2>1, <2>3, <3>1
      <3>3. \A f \in Outlined(P, c) : Enter(f, FALSE) \in Tasks(P)
        BY DEF Outlined, Enter, Tasks
      <3>4. \A f \in Outlined(P, c) : <<Enter(f, FALSE)>> \o s \in Seq(Tasks(P))
        <4> HIDE DEF s
        <4> QED
          BY <3>2, <3>3, Pushed
      <3> QED
        BY <1>0, <1>4, <2>4, <3>2, <3>4 DEF ScanCall, TasksOK
    <2> QED
      BY <1>0, <1>4, <2>4 DEF ScanCall, TasksOK
  <1>5. CASE JudgeCall
    <2> DEFINE c == Head(stack).call
               e == Enter(Callee(P, c), CurrentUsers(P, c, retUndef) \cap live # {})
    <2>1. IsCall(P, c) /\ Callee(P, c) # "none" /\ c \in Ins(P)
      BY <1>1, <1>5, Task DEF JudgeCall, Inter
    <2>2. Callee(P, c) \in DOMAIN P.fns
      BY <2>1 DEF WellFormed, Callee
    <2>3. e \in Tasks(P)
      BY <2>2 DEF Enter, Tasks
    <2> QED
      BY <1>0, <1>1, <1>5, <2>3, Pushed DEF JudgeCall, Inter, TasksOK
  <1>6. CASE LeaveFunction
    BY <1>0, <1>1, <1>6 DEF LeaveFunction, Inter, TasksOK
  <1>7. CASE FindLives \/ FindLivesCrash \/ SeedFunction \/ SeedTerminator \/ SeedInstruction
             \/ MarkUsers \/ StackOverflow \/ DeleteIns \/ UNCHANGED vars
    BY <1>0, <1>7 DEF FindLives, FindLivesCrash, SeedFunction, SeedTerminator, SeedInstruction,
              MarkUsers, StackOverflow, DeleteIns, vars, TasksOK
  <1> QED
    BY <1>2, <1>3, <1>4, <1>5, <1>6, <1>7 DEF Next

-----------------------------------------------------------------------------
(* The returns of the functions main may run.                              *)

\* The functions a task is still to come to
Owed(p, t) ==
    CASE t.task = "enter" -> {t.fn}
      [] t.task = "judge" -> {Callee(p, t.call)}
      [] t.task = "scan"  -> {Callee(p, At(p, x)) : x \in t.ahead}
                                \cup UNION {Outlined(p, At(p, x)) : x \in t.ahead}
OwedBy(s) == UNION {Owed(P, t) : t \in On(s)}

\* C holds the functions that those of C call.
CallClosed(C) == \A f \in C : CalledBy(f) \cap DOMAIN P.fns \subseteq C

\* Whatever main reaches but not by way of the functions owed has its returns
\* marked.
ReturnsOwed ==
    phase \in {"inter", "done"} =>
        \A C \in SUBSET DOMAIN P.fns :
            OwedBy(stack) \cap DOMAIN P.fns \subseteq C /\ CallClosed(C)
                => \A f \in Entered \ C : Returns(P, f) \subseteq live
NothingLeft == phase = "done" => stack = <<>>

LEMMA EnteredSame ==
    ASSUME P' = P
    PROVE  Entered' = Entered /\ \A C : CallClosed(C)' <=> CallClosed(C)
  BY DEF Entered, Callees, CallClosed, CalledBy

LEMMA OwedMore ==
    ASSUME ReturnsOwed, phase \in {"inter", "done"}, P' = P, live \subseteq live',
           OwedBy(stack) \cap DOMAIN P.fns \subseteq OwedBy(stack)'
    PROVE  ReturnsOwed'
  <1> SUFFICES ASSUME NEW C \in SUBSET DOMAIN P.fns,
                      OwedBy(stack)' \cap DOMAIN P.fns \subseteq C, CallClosed(C),
                      NEW f \in Entered \ C
               PROVE  Returns(P, f) \subseteq live'
    BY EnteredSame DEF ReturnsOwed
  <1> QED
    BY DEF ReturnsOwed

\* A call is of a function of the program or indirect.
LEMMA CalledType ==
    ASSUME WellFormed(P), NEW f
    PROVE  CalledBy(f) \subseteq DOMAIN P.fns \cup {"none"}
  <1>1. \A c \in Ins(P) : Callee(P, c) \in DOMAIN P.fns \cup {"none"} /\ Outlined(P, c) \subseteq DOMAIN P.fns
    BY DEF WellFormed, Callee, Outlined
  <1> QED
    BY <1>1, InsOfType DEF CalledBy

\* Whoever is owed main is owed everything.
LEMMA MainOwed ==
    ASSUME WellFormed(P), NEW C \in SUBSET DOMAIN P.fns, "main" \in C, CallClosed(C)
    PROVE  Entered \subseteq C \cup {"none"}
  <1>1. "none" \notin DOMAIN P.fns /\ IsFiniteSet(DOMAIN P.fns)
    BY DEF WellFormed
  <1>2. DOMAIN Callees = DOMAIN P.fns
    BY DEF Callees
  <1>3. Closed(C \cup {"none"}, Callees)
    BY <1>1, CalledType DEF Closed, CallClosed, Callees
  <1> QED
    BY <1>1, <1>2, <1>3, ReachedWithin DEF Entered

\* The calls of a function are those of its instructions.
LEMMA CallsAhead ==
    ASSUME WellFormed(P), NEW f
    PROVE  CalledBy(f) \subseteq Owed(P, Scan(CallsOf(P, f)))
  <1>1. ASSUME NEW c \in InsOf(P, f), IsCall(P, c)
        PROVE  \E x \in CallsOf(P, f) : At(P, x) = c
    BY <1>1, InsOfPlace DEF CallsOf
  <1>2. Owed(P, Scan(CallsOf(P, f))) = {Callee(P, At(P, x)) : x \in CallsOf(P, f)}
                                          \cup UNION {Outlined(P, At(P, x)) : x \in CallsOf(P, f)}
    BY DEF Owed, Scan
  <1> QED
    BY <1>1, <1>2 DEF CalledBy

LEMMA NoBody ==
    ASSUME WellFormed(P), NEW f, f \in DOMAIN P.fns => P.fns[f].decl
    PROVE  InsOf(P, f) = {} /\ Returns(P, f) = {} /\ CalledBy(f) = {}
  <1>1. \A b \in DOMAIN P.blocks : P.blocks[b].fn # f
    BY DEF WellFormed
  <1>2. InsOf(P, f) = {}
    BY <1>1 DEF InsOf
  <1> QED
    BY <1>2 DEF Returns, CalledBy

\* The runtime calls one function on every thread.
LEMMA OneOutlined ==
    ASSUME WellFormed(P), NEW c \in Ins(P), NEW f \in Outlined(P, c)
    PROVE  Outlined(P, c) = {f}
  <1> DEFINE O == Outlined(P, c)
  <1>1. IsFiniteSet(O) /\ Cardinality(O) <= 1
    <2>1. O \subseteq DOMAIN P.fns
      BY DEF Outlined
    <2> QED
      BY <2>1, FS_Subset DEF WellFormed
  <1>2. IsFiniteSet(O \ {f}) /\ Cardinality(O \ {f}) = Cardinality(O) - 1
    BY <1>1, FS_RemoveElement
  <1>3. Cardinality(O) \in Nat /\ Cardinality(O \ {f}) \in Nat
    BY <1>1, <1>2, FS_CardinalityType
  <1>4. O \ {f} = {}
    <2> HIDE DEF O
    <2>1. Cardinality(O \ {f}) = 0
      BY <1>1, <1>2, <1>3
    <2> QED
      BY <1>2, <2>1, FS_EmptySet
  <1> QED
    BY <1>4

LEMMA OwedStep ==
    ASSUME WellFormed(P), TasksOK, ReturnsOwed, NothingLeft, [Next]_vars
    PROVE  ReturnsOwed' /\ NothingLeft'
  <1>0. P' = P
    BY SameProgram
  <1>1. stack # <<>> => /\ Head(stack) \in Tasks(P) /\ Tail(stack) \in Seq(Tasks(P))
                        /\ OwedBy(stack) = Owed(P, Head(stack)) \cup OwedBy(Tail(stack))
    BY Popped DEF TasksOK, OwedBy
  <1>2. CASE StartInter
    <2>1. CASE phase' = "inter" /\ stack' = <<Enter("main", FALSE)>> /\ "main" \in DOMAIN P.fns
      <3>1. On(stack') = {Enter("main", FALSE)}
        BY <2>1, OnAlone
      <3>2. OwedBy(stack)' = {"main"}
        BY <1>0, <3>1 DEF OwedBy, Owed, Enter
      <3>3. ASSUME NEW C \in SUBSET DOMAIN P.fns, "main" \in C, CallClosed(C), NEW f \in Entered \ C
            PROVE  Returns(P, f) \subseteq live'
        <4>1. f = "none"
          BY <3>3, MainOwed
        <4>2. f \notin DOMAIN P.fns
          BY <4>1 DEF WellFormed
        <4> QED
          BY <4>2, NoBody
      <3> QED
        BY <1>0, <2>1, <3>2, <3>3, EnteredSame DEF ReturnsOwed, NothingLeft
    <2> QED
      BY <1>2, <2>1 DEF StartInter, ReturnsOwed, NothingLeft
  <1>3. CASE EnterFunction
    <2> DEFINE f == Head(stack).fn
    <2>0. /\ stack # <<>> /\ Head(stack).task = "enter" /\ phase = "inter" /\ phase' = phase
          /\ OwedBy(stack) = {f} \cup OwedBy(Tail(stack))
          /\ Head(stack) \in Tasks(P) /\ Tail(stack) \in Seq(Tasks(P))
      BY <1>1, <1>3 DEF EnterFunction, Inter, Owed
    <2>1. /\ live \subseteq live' /\ Returns(P, f) \subseteq live'
          /\ CalledBy(f) \subseteq OwedBy(stack') /\ OwedBy(Tail(stack)) \subseteq OwedBy(stack')
      <3>1. CASE P.fns[f].decl
        <4>1. live' = live /\ stack' = Tail(stack)
          BY <1>3, <3>1 DEF EnterFunction, Keep
        <4> QED
          BY <3>1, <4>1, NoBody
      <3>2. CASE ~P.fns[f].decl
        <4>1. live' = live \cup Returns(P, f) /\ stack' = <<Scan(CallsOf(P, f))>> \o Tail(stack)
          BY <1>3, <3>2 DEF EnterFunction
        <4>2. Scan(CallsOf(P, f)) \in Tasks(P)
          BY DEF Scan, CallsOf, Tasks
        <4>3. On(stack') = {Scan(CallsOf(P, f))} \cup On(Tail(stack))
          BY <2>0, <4>1, <4>2, Pushed
        <4> QED
          BY <4>1, <4>3, CallsAhead DEF OwedBy
      <3> QED
        BY <3>1, <3>2
    <2>2. OwedBy(stack') = OwedBy(stack)'
      BY <1>0 DEF OwedBy
    <2> SUFFICES ASSUME NEW C \in SUBSET DOMAIN P.fns, OwedBy(stack') \cap DOMAIN P.fns \subseteq C,
                        CallClosed(C), NEW g \in Entered \ C
                 PROVE  Returns(P, g) \subseteq live'
      BY <1>0, <2>0, <2>2, EnteredSame DEF ReturnsOwed, NothingLeft
    <2> DEFINE D == C \cup {f}
    <2>3. D \in SUBSET DOMAIN P.fns
      BY <2>0, Task
    <2>4. CallClosed(D)
      BY <2>1 DEF CallClosed
    <2>5. OwedBy(stack) \cap DOMAIN P.fns \subseteq D
      BY <2>0, <2>1
    <2> HIDE DEF D
    <2>6. g \notin D => Returns(P, g) \subseteq live
      BY <2>0, <2>3, <2>4, <2>5 DEF ReturnsOwed
    <2> QED
      BY <2>1, <2>6 DEF D
  <1>4. CASE ScanCall
    <2> DEFINE S == Head(stack).ahead
               x == First(S)
               c == At(P, x)
               s == <<Judge(c), Scan(S \ {x})>> \o Tail(stack)
    <2>1. /\ stack # <<>> /\ phase = "inter" /\ S \subseteq Places(P) /\ S # {} /\ UNCHANGED live
          /\ Head(stack).task = "scan" /\ Head(stack) \in Tasks(P) /\ Tail(stack) \in Seq(Tasks(P))
          /\ \A y \in S : IsCall(P, At(P, y))
      BY <1>1, <1>4, Task DEF ScanCall, Inter
    <2>2. x \in S /\ x \in Places(P) /\ IsCall(P, c) /\ c \in Ins(P)
      BY <2>1, FirstOf, PlacesType
    <2>3. CASE Callee(P, c) = "none" /\ phase' = "crash"
      BY <2>3 DEF ReturnsOwed, NothingLeft
    <2>4. CASE Callee(P, c) # "none" /\ phase' = phase
      <3>1. Judge(c) \in Tasks(P) /\ Scan(S \ {x}) \in Tasks(P)
        BY <2>1, <2>2, <2>4 DEF Judge, Scan, Tasks
      <3>2. s = <<Judge(c)>> \o (<<Scan(S \ {x})>> \o Tail(stack))
        BY <2>1
      <3>3. /\ s \in Seq(Tasks(P))
            /\ On(s) = {Judge(c), Scan(S \ {x})} \cup On(Tail(stack))
        <4> DEFINE r == <<Scan(S \ {x})>> \o Tail(stack)
        <4>1. r \in Seq(Tasks(P)) /\ On(r) = {Scan(S \ {x})} \cup On(Tail(stack))
          BY <2>1, <3>1, Pushed
        <4> HIDE DEF r
        <4>2. <<Judge(c)>> \o r \in Seq(Tasks(P)) /\ On(<<Judge(c)>> \o r) = {Judge(c)} \cup On(r)
          BY <3>1, <4>1, Pushed
        <4> QED
          BY <3>2, <4>1, <4>2 DEF r
      <3>4. Owed(P, Head(stack)) = {Callee(P, At(P, y)) : y \in S} \cup UNION {Outlined(P, At(P, y)) : y \in S}
        BY <2>1 DEF Owed
      <3>5. /\ Owed(P, Judge(c)) = {Callee(P, c)}
            /\ Owed(P, Scan(S \ {x})) = {Callee(P, At(P, y)) : y \in S \ {x}}
                                            \cup UNION {Outlined(P, At(P, y)) : y \in S \ {x}}
        BY DEF Owed, Judge, Scan
      <3> HIDE DEF s, c
      <3>6. OwedBy(s) = {Callee(P, c)} \cup Owed(P, Scan(S \ {x})) \cup OwedBy(Tail(stack))
        BY <3>3, <3>5 DEF OwedBy
      <3>7. OwedBy(stack) \subseteq OwedBy(s) \cup Outlined(P, c)
        BY <1>1, <2>1, <3>4, <3>5, <3>6 DEF c
      <3>8. OwedBy(stack) \subseteq OwedBy(stack')
        <4>1. CASE Outlined(P, c) = {} /\ stack' = s
          BY <3>7, <4>1
        <4>2. ASSUME NEW f \in Outlined(P, c), stack' = <<Enter(f, FALSE)>> \o s
              PROVE  OwedBy(stack) \subseteq OwedBy(stack')
          <5>1. Enter(f, FALSE) \in Tasks(P) /\ Owed(P, Enter(f, FALSE)) = {f}
            BY DEF Outlined, Enter, Tasks, Owed
          <5>2. OwedBy(stack') = {f} \cup OwedBy(s)
            <6>1. On(stack') = {Enter(f, FALSE)} \cup On(s)
              BY <3>3, <4>2, <5>1, Pushed
            <6> QED
              BY <5>1, <6>1 DEF OwedBy
          <5>3. Outlined(P, c) = {f}
            BY <2>2, OneOutlined
          <5> QED
            BY <3>7, <5>2, <5>3
        <4> QED
          BY <1>4, <2>4, <4>1, <4>2 DEF ScanCall, s, c
      <3>9. OwedBy(stack') = OwedBy(stack)'
        BY <1>0 DEF OwedBy
      <3>10. ReturnsOwed'
        BY <1>0, <2>1, <3>8, <3>9, OwedMore
      <3> QED
        BY <2>1, <2>4, <3>10 DEF NothingLeft
    <2> QED
      BY <1>4, <2>3, <2>4 DEF ScanCall
  <1>5. CASE JudgeCall
    <2> DEFINE c == Head(stack).call
               e == Enter(Callee(P, c), CurrentUsers(P, c, retUndef) \cap live # {})
    <2>1. /\ stack # <<>> /\ phase = "inter" /\ phase' = phase /\ UNCHANGED live
          /\ Head(stack).task = "judge" /\ Head(stack) \in Tasks(P) /\ Tail(stack) \in Seq(Tasks(P))
          /\ stack' = <<e>> \o Tail(stack)
          /\ IsCall(P, c) /\ Callee(P, c) # "none" /\ c \in Ins(P)
      BY <1>1, <1>5, Task DEF JudgeCall, Inter
    <2>2. Callee(P, c) \in DOMAIN P.fns
      BY <2>1 DEF WellFormed, Callee
    <2>3. e \in Tasks(P) /\ Owed(P, e) = {Callee(P, c)}
      BY <2>2 DEF Enter, Tasks, Owed
    <2>4. Owed(P, Head(stack)) = {Callee(P, c)}
      BY <2>1 DEF Owed
    <2> HIDE DEF e
    <2>5. OwedBy(stack') = OwedBy(stack)
      <3>1. On(stack') = {e} \cup On(Tail(stack))
        BY <2>1, <2>3, Pushed
      <3> QED
        BY <1>1, <2>1, <2>3, <2>4, <3>1 DEF OwedBy
    <2>6. OwedBy(stack') = OwedBy(stack)'
      BY <1>0 DEF OwedBy
    <2>7. ReturnsOwed'
      BY <1>0, <2>1, <2>5, <2>6, OwedMore
    <2> QED
      BY <2>1, <2>7 DEF NothingLeft
  <1>6. CASE LeaveFunction
    <2>1. /\ stack # <<>> /\ phase = "inter" /\ phase' = phase /\ UNCHANGED live
          /\ Head(stack).task = "scan" /\ Head(stack).ahead = {} /\ stack' = Tail(stack)
      BY <1>6 DEF LeaveFunction, Inter
    <2>2. Owed(P, Head(stack)) = {}
      BY <2>1 DEF Owed
    <2>3. OwedBy(stack') = OwedBy(stack)' /\ OwedBy(stack') = OwedBy(stack)
      BY <1>0, <1>1, <2>1, <2>2 DEF OwedBy
    <2>4. ReturnsOwed'
      BY <1>0, <2>1, <2>3, OwedMore
    <2> QED
      BY <2>1, <2>4 DEF NothingLeft
  <1>7. CASE FindLives \/ FindLivesCrash \/ SeedFunction \/ SeedTerminator \/ SeedInstruction
             \/ MarkUsers \/ StackOverflow \/ DeleteIns \/ UNCHANGED vars
    <2>1. UNCHANGED stack /\ live \subseteq live' /\ OwedBy(stack)' = OwedBy(stack)
      BY <1>0, <1>7 DEF FindLives, FindLivesCrash, SeedFunction, SeedTerminator, SeedInstruction,
              MarkUsers, StackOverflow, DeleteIns, vars, MarkAndExpand, Keep, OwedBy
    <2>2. phase' \in {"inter", "done"} => phase \in {"inter", "done"}
      BY <1>7 DEF FindLives, FindLivesCrash, SeedFunction, SeedTerminator, SeedInstruction,
              Seeding, MarkUsers, StackOverflow, DeleteIns, vars
    <2>3. NothingLeft'
      BY <1>7 DEF FindLives, FindLivesCrash, SeedFunction, SeedTerminator, SeedInstruction,
              Seeding, MarkUsers, StackOverflow, DeleteIns, vars, NothingLeft
    <2>4. ReturnsOwed'
      BY <1>0, <2>1, <2>2, OwedMore DEF ReturnsOwed
    <2> QED
      BY <2>3, <2>4
  <1> QED
    BY <1>2, <1>3, <1>4, <1>5, <1>6, <1>7 DEF Next

-----------------------------------------------------------------------------
(* The results that are lost.                                              *)

LEMMA PushedHead ==
    ASSUME NEW T, NEW s \in Seq(T), NEW t \in T
    PROVE  Head(<<t>> \o s) = t /\ Tail(<<t>> \o s) = s
  OBVIOUS

\* Call c's turn has come: the returns of the function it is in were dealt with,
\* as interFunction does before it looks at the calls.
Came(c) == \E x \in Places(P) : At(P, x) = c /\ Returns(P, P.blocks[x[1]].fn) \subseteq live

Turn(t) == /\ t.task = "scan"  => \A x \in t.ahead : Came(At(P, x))
           /\ t.task = "judge" => Came(t.call)
TurnsCame == \A t \in On(stack) : Turn(t)

\* A function is entered as soon as it is known whether its result is used.
AtOnce ==
    stack # <<>> =>
        /\ \A t \in On(Tail(stack)) : t.task # "enter"
        /\ Head(stack).task = "enter" =>
              /\ todo = {}
              /\ ~Head(stack).used =>
                    \A c \in Ins(P) : IsCall(P, c) /\ Callee(P, c) = Head(stack).fn /\ OnlyCall(c)
                                          => Came(c) /\ ~Used(c)

\* A call whose result was lost had its turn; if the slice uses the result, a
\* function returns it elsewhere.
LossesBehind ==
    \A c \in Ins(P) : Lost(c) /\ OnlyCall(c) => Came(c) /\ (Used(c) => ReturnedElsewhere(c))

\* What is being marked is needed for the returned values of one function, in
\* which no result was lost.
MarksElsewhere ==
    todo # {} => \E h \in DOMAIN P.fns : /\ todo \subseteq ReturnNeeds(h)
                                         /\ \A c \in Ins(P) : Lost(c) /\ OnlyCall(c) => c \notin InsOf(P, h)

JudgeInv ==
    /\ phase = "seed" => retUndef = {} /\ stack = <<>>
    /\ \A f \in retUndef : ~P.fns[f].decl
    /\ TurnsCame /\ AtOnce /\ LossesBehind
    /\ phase = "inter" => MarksElsewhere

LEMMA ReturnNeedsClosed ==
    ASSUME WellFormed(P), NEW f
    PROVE  /\ ReturnedBy(f) \subseteq ReturnNeeds(f)
           /\ \A i \in ReturnNeeds(f) \cap Ins(P) : Deps(P, i) \subseteq ReturnNeeds(f)
  <1> DEFINE step == [i \in Ins(P) |-> Deps(P, i)]
  <1>1. IsFiniteSet(DOMAIN step) /\ DOMAIN step = Ins(P)
    BY DEF WellFormed
  <1>2. ReturnNeeds(f) = ReachedIn(ReturnedBy(f), step)
    BY DEF ReturnNeeds
  <1>3. ReturnedBy(f) \subseteq ReturnNeeds(f) /\ Closed(ReturnNeeds(f), step)
    <2> HIDE DEF step
    <2> QED
      BY <1>1, <1>2, ReachedClosed
  <1> QED
    BY <1>3 DEF Closed

\* What only the program says stays.
LEMMA SameCalls ==
    ASSUME P' = P
    PROVE  /\ \A c : OnlyCall(c)' <=> OnlyCall(c)
           /\ \A c : ReturnedElsewhere(c)' <=> ReturnedElsewhere(c)
           /\ \A f : ReturnNeeds(f)' = ReturnNeeds(f)
  BY DEF OnlyCall, Calls, ReturnedElsewhere, ReturnNeeds, ReturnedBy

LEMMA CameMore ==
    ASSUME P' = P, live \subseteq live', NEW c, Came(c)
    PROVE  Came(c)'
  BY DEF Came

\* A result comes to be used when a user of it is marked.
LEMMA UsedMore ==
    ASSUME P' = P, retUndef \subseteq retUndef', NEW I, live' \subseteq live \cup I, NEW c \in Ins(P), Used(c)'
    PROVE  Used(c) \/ Users(P, c) \cap I # {}
  <1>1. PICK u \in CurrentUsers(P, c, retUndef') : u \in live'
    BY DEF Used
  <1>2. u \in CurrentUsers(P, c, retUndef) /\ u \in Users(P, c)
    BY DEF CurrentUsers
  <1> QED
    BY <1>1, <1>2 DEF Used

\* Nothing is marked or replaced, and the tasks left are in order.
LEMMA JudgedSame ==
    ASSUME P' = P, JudgeInv, UNCHANGED live, UNCHANGED todo, UNCHANGED retUndef,
           phase' = "seed" => retUndef = {} /\ stack' = <<>>, phase' = "inter" => phase = "inter" \/ todo = {},
           TurnsCame', AtOnce'
    PROVE  JudgeInv'
  <1>1. \A c : (Used(c)' <=> Used(c)) /\ (Lost(c)' <=> Lost(c)) /\ (Came(c)' <=> Came(c))
    BY DEF Used, Lost, Came
  <1>2. LossesBehind'
    BY <1>1, SameCalls DEF JudgeInv, LossesBehind
  <1>3. phase' = "inter" => MarksElsewhere'
    BY <1>1, SameCalls DEF JudgeInv, MarksElsewhere
  <1> QED
    BY <1>2, <1>3 DEF JudgeInv

LEMMA JudgedStart ==
    ASSUME WellFormed(P), JudgeInv, StartInter
    PROVE  JudgeInv'
  <1>0. /\ P' = P /\ UNCHANGED live /\ UNCHANGED todo /\ UNCHANGED retUndef
        /\ phase = "seed" /\ todo = {} /\ retUndef = {} /\ stack = <<>>
    BY DEF StartInter, JudgeInv
  <1> DEFINE e == Enter("main", FALSE)
  <1>1. CASE phase' = "inter" /\ stack' = <<e>>
    <2>1. e.task = "enter" /\ e.fn = "main" /\ e.used = FALSE
      BY DEF Enter
    <2> HIDE DEF e
    <2>2. On(stack') = {e} /\ Head(stack') = e /\ Tail(stack') = <<>> /\ On(<<>>) = {}
      BY <1>1, OnAlone DEF On
    <2>3. TurnsCame'
      <3> SUFFICES ASSUME NEW t \in On(stack') PROVE Turn(t)'
        BY DEF TurnsCame, On
      <3> QED
        BY <2>1, <2>2 DEF Turn
    <2>4. \A c : OnlyCall(c)' => Callee(P, c) # "main"
      BY <1>0 DEF OnlyCall
    <2>5. AtOnce'
      <3>1. \A t \in On(Tail(stack')) : t.task # "enter"
        BY <2>2
      <3> QED
        BY <1>0, <2>1, <2>2, <2>4, <3>1 DEF AtOnce, On
    <2> QED
      BY <1>0, <1>1, <2>3, <2>5, JudgedSame
  <1>2. CASE phase' = "crash" /\ UNCHANGED stack
    <2>1. TurnsCame' /\ AtOnce'
      BY <1>0, <1>2 DEF TurnsCame, AtOnce, On
    <2> QED
      BY <1>0, <1>2, <2>1, JudgedSame
  <1> QED
    BY <1>1, <1>2 DEF StartInter

\* Of the tasks on the stack none becomes due but the first.
LEMMA TurnsKept ==
    ASSUME P' = P, live \subseteq live', NEW t, Turn(t)
    PROVE  Turn(t)'
  BY CameMore DEF Turn

LEMMA JudgedEnter ==
    ASSUME WellFormed(P), TasksOK, JudgeInv, EnterFunction
    PROVE  JudgeInv'
  <1> DEFINE f == Head(stack).fn
             used == Head(stack).used
  <1>0. /\ P' = P /\ phase = "inter" /\ phase' = "inter" /\ todo = {} /\ stack # <<>>
        /\ Head(stack).task = "enter" /\ live \subseteq live'
    BY DEF EnterFunction, Inter, Keep
  <1>1. /\ Head(stack) \in Tasks(P) /\ Tail(stack) \in Seq(Tasks(P))
        /\ On(stack) = {Head(stack)} \cup On(Tail(stack))
    BY <1>0, Popped DEF TasksOK
  <1>2. f \in DOMAIN P.fns
    BY <1>0, <1>1, Task
  <1>3. /\ \A t \in On(Tail(stack)) : t.task # "enter" /\ Turn(t)
        /\ ~used => \A c \in Ins(P) : IsCall(P, c) /\ Callee(P, c) = f /\ OnlyCall(c) => Came(c) /\ ~Used(c)
    BY <1>0, <1>1 DEF JudgeInv, AtOnce, TurnsCame
  <1>4. \A t \in On(Tail(stack)) : t.task # "enter" /\ Turn(t)'
    BY <1>0, <1>3, TurnsKept
  <1>5. CASE P.fns[f].decl
    <2>1. UNCHANGED live /\ UNCHANGED todo /\ UNCHANGED retUndef /\ stack' = Tail(stack)
      BY <1>5 DEF EnterFunction, Keep
    <2>2. TurnsCame'
      BY <1>4, <2>1 DEF TurnsCame, On
    <2>3. stack' # <<>> => On(stack') = {Head(stack')} \cup On(Tail(stack'))
      BY <1>1, <2>1, Popped
    <2>4. AtOnce'
      BY <1>4, <2>1, <2>3 DEF AtOnce, On
    <2> QED
      BY <1>0, <2>1, <2>2, <2>4, JudgedSame
  <1>6. CASE ~P.fns[f].decl
    <2>0. PICK new : new = Scan(CallsOf(P, f))
      OBVIOUS
    <2> DEFINE kept == IF used /\ f \notin retUndef THEN ReturnedBy(f) ELSE {}
    <2>1. /\ live' = live \cup Returns(P, f) /\ todo' = kept \ live
          /\ retUndef' = (IF used \/ ReturnedBy(f) = {} THEN retUndef ELSE retUndef \cup {f})
          /\ stack' = <<new>> \o Tail(stack)
      BY <1>6, <2>0 DEF EnterFunction, ReturnedBy
    <2>2. new \in Tasks(P) /\ new.task = "scan" /\ new.ahead = CallsOf(P, f)
      BY <2>0 DEF Scan, CallsOf, Tasks
    <2>3. \A x \in CallsOf(P, f) : x \in Places(P) /\ Returns(P, P.blocks[x[1]].fn) \subseteq live'
      BY <2>1 DEF CallsOf
    <2>11. \A x \in CallsOf(P, f) : Came(At(P, x))'
      BY <1>0, <2>3 DEF Came
    <2>12. Turn(new)'
      BY <1>0, <2>2, <2>11 DEF Turn
    <2>4. On(stack') = {new} \cup On(Tail(stack)) /\ Head(stack') = new /\ Tail(stack') = Tail(stack)
      BY <1>1, <2>1, <2>2, Pushed, PushedHead
    <2>13. On(stack)' = On(stack') /\ On(Tail(stack))' = On(Tail(stack'))
      BY DEF On
    <2>14. TurnsCame'
      <3> SUFFICES ASSUME NEW t \in On(stack') PROVE Turn(t)'
        BY <2>13 DEF TurnsCame
      <3>1. t = new \/ t \in On(Tail(stack))
        BY <2>4
      <3> QED
        BY <1>4, <2>12, <3>1
    <2>15. AtOnce'
      <3>1. \A t \in On(Tail(stack')) : t.task # "enter"
        BY <1>4, <2>4
      <3>2. Head(stack').task # "enter"
        BY <2>2, <2>4
      <3> QED
        BY <2>13, <3>1, <3>2 DEF AtOnce
    <2>5. TurnsCame' /\ AtOnce'
      BY <2>14, <2>15
    <2>6. ASSUME NEW c \in Ins(P), Lost(c)', OnlyCall(c)
          PROVE  Came(c) /\ (Used(c) => ReturnedElsewhere(c))
      <3>1. CASE Callee(P, c) \in retUndef
        BY <1>0, <2>6, <3>1 DEF JudgeInv, LossesBehind, Lost
      <3>2. CASE Callee(P, c) \notin retUndef
        <4>1. IsCall(P, c) /\ Callee(P, c) = f /\ ~used
          BY <1>0, <2>1, <2>6, <3>2 DEF Lost
        <4> QED
          BY <1>3, <2>6, <4>1
      <3> QED
        BY <3>1, <3>2
    <2>7. ASSUME NEW c \in Ins(P), c \in InsOf(P, f), Came(c)
          PROVE  Returns(P, f) \subseteq live
      BY <2>7, OneFunction DEF Came
    <2>8. ASSUME NEW c \in Ins(P), Lost(c)', OnlyCall(c), Used(c)' PROVE ReturnedElsewhere(c)
      <3>1. CASE Used(c)
        BY <2>6, <2>8, <3>1
      <3>2. CASE ~Used(c)
        <4>1. retUndef \subseteq retUndef'
          BY <2>1
        <4>2. PICK u \in Users(P, c) : u \in Returns(P, f) /\ u \notin live
          <5>1. live' \subseteq live \cup (Returns(P, f) \ live)
            BY <2>1
          <5>2. Users(P, c) \cap (Returns(P, f) \ live) # {}
            BY <1>0, <2>8, <3>2, <4>1, <5>1, UsedMore
          <5> QED
            BY <5>2
        <4>3. u \in ReturnedBy(f)
          <5>1. u \in Ins(P) /\ c \in P.ins[u].ops /\ Op(P, u) \in ReturnOps
            BY <4>2 DEF Users, Returns
          <5>2. Op(P, u) # "retvoid"
            BY <5>1 DEF WellFormed
          <5> QED
            BY <4>2, <5>1, <5>2 DEF ReturnedBy, ReturnOps
        <4>4. u \in ReturnNeeds(f)
          BY <4>3, ReturnNeedsClosed
        <4>5. c \notin InsOf(P, f)
          BY <2>6, <2>7, <2>8, <4>2
        <4> QED
          BY <1>2, <4>2, <4>4, <4>5 DEF ReturnedElsewhere
      <3> QED
        BY <3>1, <3>2
    <2>9. LossesBehind'
      <3> SUFFICES ASSUME NEW c \in Ins(P), Lost(c)', OnlyCall(c)
                   PROVE  Came(c)' /\ (Used(c)' => ReturnedElsewhere(c))
        BY <1>0, SameCalls DEF LossesBehind
      <3> QED
        BY <1>0, <2>6, <2>8, CameMore
    <2>10. MarksElsewhere'
      <3> SUFFICES ASSUME todo' # {}
                   PROVE  \A c \in Ins(P) : Lost(c)' /\ OnlyCall(c) => c \notin InsOf(P, f)
        <4>1. todo' \subseteq ReturnNeeds(f)
          BY <2>1, ReturnNeedsClosed
        <4> QED
          BY <1>0, <1>2, <4>1, SameCalls DEF MarksElsewhere
      <3>1. PICK r \in Returns(P, f) : r \notin live
        BY <2>1 DEF ReturnedBy
      <3> QED
        BY <2>6, <2>7, <3>1
    <2>16. \A g \in retUndef' : ~P.fns[g].decl
      BY <1>6, <2>1 DEF JudgeInv
    <2> QED
      BY <1>0, <2>5, <2>9, <2>10, <2>16 DEF JudgeInv
  <1> QED
    BY <1>5, <1>6

\* Before interFunction begins nothing is replaced.
LEMMA JudgedSeed ==
    ASSUME P' = P, JudgeInv, phase = "seed", phase' # "inter", UNCHANGED stack, UNCHANGED retUndef
    PROVE  JudgeInv'
  <1>1. stack' = <<>> /\ retUndef' = {}
    BY DEF JudgeInv
  <1>2. TurnsCame' /\ AtOnce' /\ LossesBehind'
    BY <1>1 DEF TurnsCame, AtOnce, LossesBehind, Lost, On
  <1> QED
    BY <1>1, <1>2 DEF JudgeInv

\* Of a result lost, findLives marks a user only for what is returned elsewhere.
LEMMA JudgedFind ==
    ASSUME WellFormed(P), StateOK, JudgeInv, FindLives
    PROVE  JudgeInv'
  <1> DEFINE I == UNION {Deps(P, i) : i \in todo}
  <1>0. /\ P' = P /\ UNCHANGED phase /\ UNCHANGED stack /\ UNCHANGED retUndef
        /\ phase \in {"seed", "inter"} /\ todo # {} /\ live' = live \cup I /\ todo' = I \ live
    BY DEF FindLives, MarkAndExpand
  <1>1. CASE phase = "seed"
    BY <1>0, <1>1, JudgedSeed
  <1>2. CASE phase = "inter"
    <2>1. PICK h \in DOMAIN P.fns : /\ todo \subseteq ReturnNeeds(h)
                                    /\ \A c \in Ins(P) : Lost(c) /\ OnlyCall(c) => c \notin InsOf(P, h)
      BY <1>0, <1>2 DEF JudgeInv, MarksElsewhere
    <2>2. I \subseteq ReturnNeeds(h)
      <3>1. todo \subseteq Ins(P)
        BY DEF StateOK
      <3> QED
        BY <2>1, <3>1, ReturnNeedsClosed
    <2> HIDE DEF I
    <2>3. \A c : (Lost(c)' <=> Lost(c)) /\ (Came(c) => Came(c)')
      BY <1>0 DEF Lost, Came
    <2>4. ASSUME NEW c \in Ins(P), Lost(c), OnlyCall(c), Used(c)' PROVE ReturnedElsewhere(c)
      <3>1. CASE Used(c)
        BY <2>4, <3>1 DEF JudgeInv, LossesBehind
      <3>2. CASE Users(P, c) \cap I # {}
        BY <2>1, <2>2, <2>4, <3>2 DEF ReturnedElsewhere
      <3> QED
        BY <1>0, <2>4, <3>1, <3>2, UsedMore
    <2>5. LossesBehind'
      <3> SUFFICES ASSUME NEW c \in Ins(P), Lost(c), OnlyCall(c)
                   PROVE  Came(c)' /\ (Used(c)' => ReturnedElsewhere(c))
        BY <1>0, <2>3, SameCalls DEF LossesBehind
      <3> QED
        BY <2>3, <2>4 DEF JudgeInv, LossesBehind
    <2>6. MarksElsewhere'
      BY <1>0, <2>1, <2>2, <2>3, SameCalls DEF MarksElsewhere
    <2>7. TurnsCame'
      <3> SUFFICES ASSUME NEW t \in On(stack) PROVE Turn(t)'
        BY <1>0 DEF TurnsCame, On
      <3>1. Turn(t)
        BY DEF JudgeInv, TurnsCame
      <3> QED
        BY <1>0, <3>1, TurnsKept
    <2>8. AtOnce'
      BY <1>0 DEF JudgeInv, AtOnce, On
    <2>9. \A f \in retUndef' : ~P'.fns[f].decl
      BY <1>0 DEF JudgeInv
    <2> QED
      BY <1>0, <1>2, <2>5, <2>6, <2>7, <2>8, <2>9 DEF JudgeInv
  <1> QED
    BY <1>0, <1>1, <1>2

LEMMA JudgedScan ==
    ASSUME WellFormed(P), TasksOK, JudgeInv, ScanCall
    PROVE  JudgeInv'
  <1> DEFINE S == Head(stack).ahead
             x == First(S)
             c == At(P, x)
             s == <<Judge(c), Scan(S \ {x})>> \o Tail(stack)
  <1>0. /\ P' = P /\ UNCHANGED live /\ UNCHANGED todo /\ UNCHANGED retUndef
        /\ phase = "inter" /\ phase' \in {"inter", "crash"} /\ todo = {}
    BY DEF ScanCall, Inter
  <1>1. stack # <<>> /\ S # {} /\ Head(stack).task = "scan"
    BY DEF ScanCall, Inter
  <1>2. /\ Head(stack) \in Tasks(P) /\ Tail(stack) \in Seq(Tasks(P))
        /\ On(stack) = {Head(stack)} \cup On(Tail(stack))
    BY <1>1, Popped DEF TasksOK
  <1>3. S \subseteq Places(P) /\ \A y \in S : IsCall(P, At(P, y))
    BY <1>1, <1>2, Task
  <1>4. x \in S /\ x \in Places(P) /\ IsCall(P, c) /\ c \in Ins(P)
    BY <1>1, <1>3, FirstOf, PlacesType
  <1>5. (\A y \in S : Came(At(P, y))) /\ \A t \in On(Tail(stack)) : Turn(t) /\ t.task # "enter"
    BY <1>1, <1>2 DEF JudgeInv, TurnsCame, AtOnce, Turn
  <1>6. CASE Callee(P, c) = "none" /\ phase' = "crash" /\ UNCHANGED stack
    <2>1. TurnsCame'
      BY <1>0, <1>6 DEF JudgeInv, TurnsCame, Turn, Came, On
    <2>2. AtOnce'
      BY <1>0, <1>1, <1>5, <1>6 DEF AtOnce, On
    <2> QED
      BY <1>0, <1>6, <2>1, <2>2, JudgedSame
  <1>7. CASE Callee(P, c) # "none" /\ phase' = "inter"
    <2>1. PICK j, r : j = Judge(c) /\ r = Scan(S \ {x})
      OBVIOUS
    <2>2. /\ j \in Tasks(P) /\ r \in Tasks(P) /\ j.task = "judge" /\ r.task = "scan"
          /\ j.call = c /\ r.ahead = S \ {x}
      BY <1>3, <1>4, <1>7, <2>1 DEF Judge, Scan, Tasks
    <2>3. PICK q : q = <<r>> \o Tail(stack)
      OBVIOUS
    <2>4. q \in Seq(Tasks(P)) /\ On(q) = {r} \cup On(Tail(stack))
      BY <1>2, <2>2, <2>3, Pushed
    <2>5. s = <<j>> \o q
      BY <1>2, <2>1, <2>2, <2>3
    <2> HIDE DEF s
    <2>6. s \in Seq(Tasks(P)) /\ On(s) = {j, r} \cup On(Tail(stack)) /\ Head(s) = j /\ Tail(s) = q
      <3>1. <<j>> \o q \in Seq(Tasks(P)) /\ On(<<j>> \o q) = {j} \cup On(q)
        BY <2>2, <2>4, Pushed
      <3>2. Head(<<j>> \o q) = j /\ Tail(<<j>> \o q) = q
        BY <2>2, <2>4, PushedHead
      <3> QED
        BY <2>4, <2>5, <3>1, <3>2
    <2>7. \A t \in On(s) : Turn(t) /\ t.task # "enter"
      <3>1. Turn(j) /\ Turn(r)
        BY <1>4, <1>5, <2>2 DEF Turn
      <3> QED
        BY <1>5, <2>2, <2>6, <3>1
    <2>8. \A t : Turn(t) => Turn(t)'
      BY <1>0, TurnsKept
    <2>9. CASE stack' = s
      <3>1. TurnsCame'
        BY <2>7, <2>8, <2>9 DEF TurnsCame, On
      <3>2. \A t \in On(q) : t.task # "enter"
        BY <2>4, <2>6, <2>7
      <3>3. AtOnce'
        BY <2>2, <2>6, <2>9, <3>2 DEF AtOnce, On
      <3> QED
        BY <1>0, <3>1, <3>3, JudgedSame
    <2>10. ASSUME NEW f \in Outlined(P, c), stack' = <<Enter(f, FALSE)>> \o s
           PROVE  JudgeInv'
      <3>1. PICK e : e = Enter(f, FALSE)
        OBVIOUS
      <3>2. e \in Tasks(P) /\ e.task = "enter" /\ e.fn = f
        BY <3>1 DEF Outlined, Enter, Tasks
      <3>3. stack' = <<e>> \o s
        BY <2>10, <3>1
      <3>4. On(stack') = {e} \cup On(s) /\ Head(stack') = e /\ Tail(stack') = s
        <4>1. On(<<e>> \o s) = {e} \cup On(s)
          BY <2>6, <3>2, Pushed
        <4>2. Head(<<e>> \o s) = e /\ Tail(<<e>> \o s) = s
          BY <2>6, <3>2, PushedHead
        <4> QED
          BY <3>3, <4>1, <4>2
      <3>5. TurnsCame'
        <4>1. Turn(e)'
          BY <3>2 DEF Turn
        <4> QED
          BY <2>7, <2>8, <3>4, <4>1 DEF TurnsCame, On
      <3>6. ASSUME NEW d \in Ins(P), IsCall(P, d), Callee(P, d) = f, OnlyCall(d) PROVE FALSE
        <4>1. c \in Calls(f)
          BY <1>4, <2>10 DEF Calls
        <4>2. c = d
          BY <3>6, <4>1 DEF OnlyCall
        <4> QED
          BY <2>10, <3>6, <4>2 DEF Outlined
      <3>7. AtOnce'
        <4>1. \A t \in On(Tail(stack')) : t.task # "enter"
          BY <2>7, <3>4
        <4> QED
          BY <1>0, <3>2, <3>4, <3>6, <4>1, SameCalls DEF AtOnce, On
      <3> QED
        BY <1>0, <3>5, <3>7, JudgedSame
    <2>11. stack' = s \/ \E f \in Outlined(P, c) : stack' = <<Enter(f, FALSE)>> \o s
      BY <1>7 DEF ScanCall, s
    <2> QED
      BY <2>9, <2>10, <2>11
  <1> QED
    BY <1>0, <1>6, <1>7 DEF ScanCall

LEMMA JudgedJudge ==
    ASSUME WellFormed(P), TasksOK, JudgeInv, JudgeCall
    PROVE  JudgeInv'
  <1> DEFINE c == Head(stack).call
             u == CurrentUsers(P, c, retUndef) \cap live # {}
  <1>0. /\ P' = P /\ UNCHANGED live /\ UNCHANGED todo /\ UNCHANGED retUndef
        /\ phase = "inter" /\ phase' = "inter" /\ todo = {} /\ stack # <<>> /\ Head(stack).task = "judge"
    BY DEF JudgeCall, Inter
  <1>1. /\ Head(stack) \in Tasks(P) /\ Tail(stack) \in Seq(Tasks(P))
        /\ On(stack) = {Head(stack)} \cup On(Tail(stack))
    BY <1>0, Popped DEF TasksOK
  <1>2. IsCall(P, c) /\ Callee(P, c) # "none" /\ c \in Ins(P)
    BY <1>0, <1>1, Task
  <1>3. Came(c) /\ \A t \in On(Tail(stack)) : Turn(t) /\ t.task # "enter"
    BY <1>0, <1>1 DEF JudgeInv, TurnsCame, AtOnce, Turn
  <1>4. PICK e : e = Enter(Callee(P, c), u)
    OBVIOUS
  <1>5. e \in Tasks(P) /\ e.task = "enter" /\ e.fn = Callee(P, c) /\ (e.used <=> u)
    <2>1. Callee(P, c) \in DOMAIN P.fns
      BY <1>2 DEF WellFormed, Callee
    <2>2. u \in BOOLEAN
      OBVIOUS
    <2> HIDE DEF u
    <2> QED
      BY <1>4, <2>1, <2>2 DEF Enter, Tasks
  <1>6. stack' = <<e>> \o Tail(stack)
    BY <1>4 DEF JudgeCall
  <1>7. On(stack') = {e} \cup On(Tail(stack)) /\ Head(stack') = e /\ Tail(stack') = Tail(stack)
    BY <1>1, <1>5, <1>6, Pushed, PushedHead
  <1>8. u <=> Used(c)
    BY DEF Used
  <1> HIDE DEF u
  <1>9. TurnsCame'
    <2>1. Turn(e)'
      BY <1>5 DEF Turn
    <2>2. \A t : Turn(t) => Turn(t)'
      BY <1>0, TurnsKept
    <2> QED
      BY <1>3, <1>7, <2>1, <2>2 DEF TurnsCame, On
  <1>10. ASSUME ~u, NEW d \in Ins(P), IsCall(P, d), Callee(P, d) = e.fn, OnlyCall(d)
         PROVE  Came(d)' /\ ~Used(d)'
    <2>1. c \in Calls(e.fn)
      BY <1>2, <1>5 DEF Calls
    <2>2. c = d
      BY <1>10, <2>1 DEF OnlyCall
    <2> QED
      BY <1>0, <1>3, <1>8, <1>10, <2>2 DEF Came, Used
  <1>11. AtOnce'
    <2>1. \A t \in On(Tail(stack')) : t.task # "enter"
      BY <1>3, <1>7
    <2>2. todo' = {} /\ \A d : OnlyCall(d)' => OnlyCall(d)
      BY <1>0, SameCalls
    <2> QED
      BY <1>0, <1>5, <1>7, <1>10, <2>1, <2>2 DEF AtOnce, On
  <1> QED
    BY <1>0, <1>9, <1>11, JudgedSame

LEMMA JudgedLeave ==
    ASSUME TasksOK, JudgeInv, LeaveFunction
    PROVE  JudgeInv'
  <1>0. /\ P' = P /\ UNCHANGED live /\ UNCHANGED todo /\ UNCHANGED retUndef
        /\ phase = "inter" /\ phase' = "inter" /\ stack # <<>> /\ stack' = Tail(stack)
    BY DEF LeaveFunction, Inter
  <1>1. Tail(stack) \in Seq(Tasks(P)) /\ On(stack) = {Head(stack)} \cup On(Tail(stack))
    BY <1>0, Popped DEF TasksOK
  <1>2. \A t \in On(stack') : Turn(t) /\ t.task # "enter"
    BY <1>0, <1>1 DEF JudgeInv, TurnsCame, AtOnce
  <1>3. TurnsCame'
    <2>1. \A t : Turn(t) => Turn(t)'
      BY <1>0, TurnsKept
    <2> QED
      BY <1>2, <2>1 DEF TurnsCame, On
  <1>4. AtOnce'
    <2>1. stack' # <<>> => On(stack') = {Head(stack')} \cup On(Tail(stack'))
      BY <1>0, <1>1, Popped
    <2> QED
      BY <1>2, <2>1 DEF AtOnce, On
  <1> QED
    BY <1>0, <1>3, <1>4, JudgedSame

LEMMA JudgeStep ==
    ASSUME WellFormed(P), StateOK, TasksOK, JudgeInv, [Next]_vars
    PROVE  JudgeInv'
  <1>1. CASE SeedFunction \/ SeedTerminator \/ SeedInstruction \/ MarkUsers
    <2>1. /\ P' = P /\ phase = "seed" /\ phase' # "inter" /\ UNCHANGED stack /\ UNCHANGED retUndef
      BY <1>1 DEF SeedFunction, SeedTerminator, SeedInstruction, MarkUsers, Seeding
    <2> QED
      BY <2>1, JudgedSeed
  <1>2. CASE FindLivesCrash \/ StackOverflow \/ UNCHANGED vars
    <2>1. /\ P' = P /\ UNCHANGED live /\ UNCHANGED todo /\ UNCHANGED stack /\ UNCHANGED retUndef
          /\ phase' \in {"crash", "overflow"} \/ phase' = phase
      BY <1>2 DEF FindLivesCrash, StackOverflow, vars
    <2>2. TurnsCame' /\ AtOnce'
      <3>1. \A c : (Came(c)' <=> Came(c)) /\ (Used(c)' <=> Used(c))
        BY <2>1 DEF Came, Used
      <3>2. TurnsCame'
        BY <2>1, <3>1 DEF JudgeInv, TurnsCame, Turn, On
      <3>3. AtOnce'
        BY <2>1, <3>1, SameCalls DEF JudgeInv, AtOnce, On
      <3> QED
        BY <3>2, <3>3
    <2> QED
      BY <2>1, <2>2, JudgedSame DEF JudgeInv
  <1>3. CASE DeleteIns
    <2>1. /\ P' = P /\ UNCHANGED live /\ UNCHANGED todo /\ UNCHANGED stack /\ UNCHANGED retUndef
          /\ phase' = "done" /\ stack = <<>>
      BY <1>3 DEF DeleteIns
    <2>2. TurnsCame' /\ AtOnce'
      BY <2>1 DEF TurnsCame, AtOnce, On
    <2> QED
      BY <2>1, <2>2, JudgedSame
  <1> QED
    BY <1>1, <1>2, <1>3, JudgedFind, JudgedStart, JudgedEnter, JudgedScan, JudgedJudge, JudgedLeave DEF Next

LEMMA FreshJudged ==
    ASSUME Fresh
    PROVE  JudgeInv
  BY DEF Fresh, JudgeInv, TurnsCame, AtOnce, LossesBehind, Lost, On

LEMMA LossesHaveReasons ==
    ASSUME JudgeInv
    PROVE  LossesExplained
  BY DEF JudgeInv, LossesBehind, LossesExplained

-----------------------------------------------------------------------------
LEMMA OwedDecides ==
    ASSUME ReturnsOwed, NothingLeft, JudgeInv
    PROVE  ReturnsDecided
  <1> SUFFICES ASSUME phase = "done", NEW f \in Entered PROVE Returns(P, f) \subseteq live
    BY LossesHaveReasons DEF ReturnsDecided, AllDecided
  <1>1. OwedBy(stack) = {}
    BY DEF NothingLeft, OwedBy, On
  <1>2. CallClosed({})
    BY DEF CallClosed
  <1> QED
    BY <1>1, <1>2 DEF ReturnsOwed

\* When the pass is done, interFunction has decided about the returns of every
\* function that main reaches by calls and forks; and where the slice uses the
\* result of a call of a function that returns undef, that function is called
\* elsewhere too, or some function returns a value made from the result that
\* the caller does not return itself.
THEOREM EveryReturnDecided == Spec => []ReturnsDecided
  <1>1. Init => TasksOK /\ ReturnsOwed /\ NothingLeft /\ JudgeInv
    BY FreshJudged DEF Init, Fresh, TasksOK, ReturnsOwed, NothingLeft
  <1>2. TypeOK /\ TasksOK /\ ReturnsOwed /\ NothingLeft /\ JudgeInv /\ [Next]_vars
           => TasksOK' /\ ReturnsOwed' /\ NothingLeft' /\ JudgeInv'
    BY TasksStep, OwedStep, JudgeStep, ProgramsAssumption DEF TypeOK
  <1>3. ReturnsOwed /\ NothingLeft /\ JudgeInv => ReturnsDecided
    BY OwedDecides
  <1> QED
    BY <1>1, <1>2, <1>3, TypeCorrect, PTL DEF Spec

-----------------------------------------------------------------------------
(* What a slice may need.                                                  *)

NeededOnly == /\ todo \subseteq Needed
              /\ \A i \in live : i \in Needed \/ Op(P, i) \in ReturnOps \/ UsesFopen(P, i)

\* Some call's result is used.
HasUsedCall(p, f) == \E c \in Ins(p) : IsCall(p, c) /\ Users(p, c) # {} /\ Callee(p, c) = f
UsedCalls == \A t \in On(stack) : t.task = "enter" /\ t.used => HasUsedCall(P, t.fn)

LEMMA BlkOf ==
    ASSUME WellFormed(P), NEW f, NEW i \in InsOf(P, f)
    PROVE  P.blocks[Blk(i)].fn = f
  <1>1. PICK x \in Places(P) : At(P, x) = i /\ P.blocks[x[1]].fn = f
    BY InsOfPlace
  <1>2. Blk(i) \in DOMAIN P.blocks /\ \E k \in DOMAIN P.blocks[Blk(i)].code : P.blocks[Blk(i)].code[k] = i
    <2>1. x[1] \in DOMAIN P.blocks /\ x[2] \in DOMAIN P.blocks[x[1]].code /\ P.blocks[x[1]].code[x[2]] = i
      BY <1>1, PlacesType DEF At
    <2> QED
      BY <2>1 DEF Blk
  <1>3. i \in InsOf(P, P.blocks[Blk(i)].fn)
    BY <1>2 DEF InsOf
  <1> QED
    BY <1>1, <1>3, OneFunction

LEMMA NeededHolds ==
    ASSUME WellFormed(P)
    PROVE  /\ \A i \in Ins(P) : \/ Criterion(P, i) \/ Related(P, i) \/ Op(P, i) \in ControlOps
                                => i \in Needed
           /\ \A f : \A i \in InsOf(P, f) : P.fns[f].kind = "task" => i \in Needed
           /\ \A f : \A r \in InsOf(P, f) : Op(P, r) = "ret" /\ HasUsedCall(P, f) => r \in Needed
           /\ \A i \in Needed \cap Ins(P) : Deps(P, i) \subseteq Needed
  <1> DEFINE criteria == {i \in Ins(P) : \/ Criterion(P, i) \/ Related(P, i)
                                         \/ Op(P, i) \in ControlOps
                                         \/ P.fns[P.blocks[Blk(i)].fn].kind = "task"}
             usedRets == {r \in Ins(P) : /\ Op(P, r) = "ret"
                                         /\ \E c \in Ins(P) : /\ IsCall(P, c) /\ Users(P, c) # {}
                                                              /\ Callee(P, c) = P.blocks[Blk(r)].fn}
             step     == [i \in Ins(P) |-> Deps(P, i)]
  <1>1. Needed = ReachedIn(criteria \cup usedRets, step)
    BY DEF Needed
  <1>2. IsFiniteSet(DOMAIN step) /\ DOMAIN step = Ins(P)
    BY DEF WellFormed
  <1>3. criteria \cup usedRets \subseteq Needed /\ Closed(Needed, step)
    <2> HIDE DEF criteria, usedRets, step
    <2> QED
      BY <1>1, <1>2, ReachedClosed
  <1>4. \A i \in Needed \cap Ins(P) : Deps(P, i) \subseteq Needed
    BY <1>3 DEF Closed
  <1>5. ASSUME NEW f, NEW i \in InsOf(P, f)
        PROVE  /\ i \in Ins(P) /\ P.blocks[Blk(i)].fn = f
               /\ P.fns[f].kind = "task" => i \in criteria
               /\ Op(P, i) = "ret" /\ HasUsedCall(P, f) => i \in usedRets
    <2>1. i \in Ins(P) /\ P.blocks[Blk(i)].fn = f
      BY InsOfType, BlkOf
    <2> QED
      BY <2>1 DEF HasUsedCall
  <1>6. \A i \in Ins(P) : Criterion(P, i) \/ Related(P, i) \/ Op(P, i) \in ControlOps => i \in criteria
    OBVIOUS
  <1> HIDE DEF criteria, usedRets
  <1> QED
    BY <1>3, <1>4, <1>5, <1>6

LEMMA NeededSame ==
    ASSUME P' = P
    PROVE  Needed' = Needed
  BY DEF Needed, Blk

\* Marking and expanding what is needed.
LEMMA MarkNeeded ==
    ASSUME NeededOnly, P' = P, NEW S \in SUBSET Needed, MarkAndExpand(S)
    PROVE  NeededOnly'
  BY NeededSame DEF NeededOnly, MarkAndExpand, UsesFopen

LEMMA KeepNeeded ==
    ASSUME NeededOnly, P' = P, UNCHANGED <<live, todo>>
    PROVE  NeededOnly'
  BY NeededSame DEF NeededOnly, UsesFopen

LEMMA NeededStep ==
    ASSUME WellFormed(P), StateOK, TasksOK, UsedCalls, NeededOnly, [Next]_vars
    PROVE  NeededOnly'
  <1>0. P' = P /\ todo \subseteq Ins(P) /\ CursorOK /\ Needed' = Needed
    BY SameProgram, NeededSame DEF StateOK
  <1>1. CASE FindLives
    <2>1. UNION {Deps(P, i) : i \in todo} \subseteq Needed
      BY <1>0, NeededHolds DEF NeededOnly
    <2> QED
      BY <1>0, <1>1, <2>1, MarkNeeded DEF FindLives
  <1>2. CASE SeedFunction
    <2>1. P.fns[P.blocks[blk].fn].kind = "task" => InsOf(P, P.blocks[blk].fn) \subseteq Needed
      BY NeededHolds
    <2> QED
      BY <1>0, <1>2, <2>1, MarkNeeded, KeepNeeded DEF SeedFunction, Keep
  <1>3. CASE SeedTerminator
    <2> DEFINE t == Terminator(P, blk)
    <2>1. t \in Ins(P)
      BY <1>3, Code DEF SeedTerminator, Seeding
    <2>2. Op(P, t) \in ControlOps => {t} \subseteq Needed
      BY <2>1, NeededHolds
    <2> QED
      BY <1>0, <1>3, <2>2, MarkNeeded, KeepNeeded DEF SeedTerminator, Keep
  <1>4. CASE SeedInstruction
    <2> DEFINE i == P.blocks[blk].code[pos]
    <2>1. i \in Ins(P)
      BY <1>0, <1>4, Code DEF SeedInstruction, Seeding, CursorOK
    <2>2. Related(P, i) \/ Criterion(P, i) => {i} \subseteq Needed
      BY <2>1, NeededHolds
    <2> QED
      BY <1>0, <1>4, <2>2, MarkNeeded, KeepNeeded DEF SeedInstruction, Keep
  <1>5. CASE MarkUsers
    <2>1. related \in Ins(P) /\ Related(P, related)
      BY <1>0, <1>5 DEF MarkUsers, CursorOK
    <2>2. \A u \in Users(P, related) : UsesFopen(P, u)
      BY <2>1 DEF Users, UsesFopen
    <2> QED
      BY <1>0, <1>5, <2>2 DEF MarkUsers, NeededOnly, UsesFopen
  <1>6. CASE EnterFunction
    <2> DEFINE f      == Head(stack).fn
               valued == {r \in Returns(P, f) : Op(P, r) = "ret"}
    <2>1. stack # <<>> /\ Head(stack).task = "enter" /\ Head(stack) \in On(stack) /\ todo = {}
      BY <1>6, Popped DEF EnterFunction, Inter, TasksOK
    <2>2. Head(stack).used => valued \subseteq Needed
      <3> SUFFICES ASSUME Head(stack).used, NEW r \in valued PROVE r \in Needed
        OBVIOUS
      <3>1. HasUsedCall(P, f)
        BY <2>1 DEF UsedCalls
      <3>2. r \in InsOf(P, f) /\ Op(P, r) = "ret"
        BY DEF Returns
      <3> QED
        BY <3>1, <3>2, NeededHolds
    <2>3. CASE Keep
      BY <1>0, <2>3, KeepNeeded DEF Keep
    <2>4. CASE /\ live' = live \cup Returns(P, f)
               /\ todo' = (IF Head(stack).used /\ f \notin retUndef THEN valued ELSE {}) \ live
      <3>1. todo' \subseteq Needed
        BY <2>2, <2>4
      <3>2. \A r \in Returns(P, f) : Op(P, r) \in ReturnOps
        BY DEF Returns
      <3> QED
        BY <1>0, <2>4, <3>1, <3>2 DEF NeededOnly, UsesFopen
    <2> QED
      BY <1>6, <2>3, <2>4 DEF EnterFunction
  <1>7. CASE FindLivesCrash \/ StartInter \/ StackOverflow \/ ScanCall \/ JudgeCall
             \/ LeaveFunction \/ DeleteIns \/ UNCHANGED vars
    <2>1. UNCHANGED <<live, todo>>
      BY <1>7 DEF FindLivesCrash, StartInter, StackOverflow, ScanCall, JudgeCall,
                  LeaveFunction, DeleteIns, vars
    <2> QED
      BY <1>0, <2>1, KeepNeeded
  <1> QED
    BY <1>1, <1>2, <1>3, <1>4, <1>5, <1>6, <1>7 DEF Next

\* A function is only entered for its result after a call whose result is used.
LEMMA UsedStep ==
    ASSUME WellFormed(P), TasksOK, UsedCalls, [Next]_vars
    PROVE  UsedCalls'
  <1>0. P' = P /\ TasksOK'
    BY SameProgram, TasksStep
  <1> DEFINE Fine(t) == t.task = "enter" /\ t.used => HasUsedCall(P, t.fn)
  <1>1. stack # <<>> => /\ Head(stack) \in Tasks(P) /\ Tail(stack) \in Seq(Tasks(P))
                        /\ Head(stack) \in On(stack) /\ On(Tail(stack)) \subseteq On(stack)
    BY Popped DEF TasksOK
  <1>2. (\A t \in On(stack') : t \in On(stack) \/ Fine(t)) => UsedCalls'
    BY <1>0 DEF UsedCalls, On
  <1>3. CASE StartInter
    <2>1. stack' = stack \/ stack' = <<Enter("main", FALSE)>>
      BY <1>3 DEF StartInter
    <2>2. Fine(Enter("main", FALSE))
      BY DEF Enter
    <2>3. On(<<Enter("main", FALSE)>>) = {Enter("main", FALSE)}
      BY OnAlone
    <2> HIDE DEF Fine
    <2> QED
      BY <1>2, <2>1, <2>2, <2>3
  <1>4. CASE EnterFunction
    <2> DEFINE t == Scan(CallsOf(P, Head(stack).fn))
    <2>1. /\ stack' = Tail(stack) \/ stack' = <<t>> \o Tail(stack)
          /\ stack # <<>>
      BY <1>4 DEF EnterFunction, Inter
    <2>2. t \in Tasks(P) /\ Fine(t)
      BY DEF Scan, CallsOf, Tasks
    <2> HIDE DEF t, Fine
    <2>3. On(<<t>> \o Tail(stack)) = {t} \cup On(Tail(stack))
      BY <1>1, <2>1, <2>2, Pushed
    <2> QED
      BY <1>1, <1>2, <2>1, <2>2, <2>3
  <1>5. CASE ScanCall
    <2> DEFINE S == Head(stack).ahead
               x == First(S)
               c == At(P, x)
               r == <<Scan(S \ {x})>> \o Tail(stack)
               s == <<Judge(c), Scan(S \ {x})>> \o Tail(stack)
    <2>1. /\ stack # <<>> /\ S \subseteq Places(P) /\ S # {}
          /\ \A y \in S : IsCall(P, At(P, y))
      BY <1>1, <1>5, Task DEF ScanCall, Inter
    <2>2. IsCall(P, c) /\ c \in Ins(P)
      BY <2>1, FirstOf, PlacesType
    <2>3. Scan(S \ {x}) \in Tasks(P) /\ Fine(Scan(S \ {x}))
      BY <2>1 DEF Scan, Tasks
    <2>4. r \in Seq(Tasks(P)) /\ On(r) = {Scan(S \ {x})} \cup On(Tail(stack))
      BY <1>1, <2>1, <2>3, Pushed
    <2>5. s = <<Judge(c)>> \o r
      BY <1>1, <2>1
    <2> HIDE DEF r, s, c
    <2>6. CASE UNCHANGED stack
      BY <1>2, <2>6
    <2>7. CASE Callee(P, c) # "none"
      <3>1. Judge(c) \in Tasks(P) /\ Fine(Judge(c))
        BY <2>2, <2>7 DEF Judge, Tasks
      <3> HIDE DEF Fine
      <3>2. s \in Seq(Tasks(P)) /\ On(s) = {Judge(c)} \cup On(r)
        BY <2>4, <2>5, <3>1, Pushed
      <3>3. \A t \in On(s) : t \in On(stack) \/ Fine(t)
        BY <1>1, <2>1, <2>3, <2>4, <3>1, <3>2
      <3>4. CASE stack' = s
        BY <1>2, <3>3, <3>4
      <3>5. ASSUME NEW f \in Outlined(P, c), stack' = <<Enter(f, FALSE)>> \o s
            PROVE  UsedCalls'
        <4>1. Enter(f, FALSE) \in Tasks(P) /\ Fine(Enter(f, FALSE))
          BY DEF Outlined, Enter, Tasks, Fine
        <4>2. On(stack') = {Enter(f, FALSE)} \cup On(s)
          BY <3>2, <3>5, <4>1, Pushed
        <4> QED
          BY <1>2, <3>3, <4>1, <4>2
      <3> QED
        BY <1>5, <2>6, <3>4, <3>5 DEF ScanCall, s, c
    <2> QED
      BY <1>5, <2>6, <2>7 DEF ScanCall, c
  <1>6. CASE JudgeCall
    <2> DEFINE c == Head(stack).call
               e == Enter(Callee(P, c), CurrentUsers(P, c, retUndef) \cap live # {})
    <2>1. /\ stack # <<>> /\ stack' = <<e>> \o Tail(stack)
          /\ IsCall(P, c) /\ Callee(P, c) # "none" /\ c \in Ins(P)
      BY <1>1, <1>6, Task DEF JudgeCall, Inter
    <2>2. Callee(P, c) \in DOMAIN P.fns
      BY <2>1 DEF WellFormed, Callee
    <2>3. e \in Tasks(P)
      BY <2>2 DEF Enter, Tasks
    <2>4. Fine(e)
      <3>1. CurrentUsers(P, c, retUndef) \subseteq Users(P, c)
        BY DEF CurrentUsers
      <3> QED
        BY <2>1, <3>1 DEF Enter, HasUsedCall
    <2> HIDE DEF e, Fine
    <2>5. On(stack') = {e} \cup On(Tail(stack))
      BY <1>1, <2>1, <2>3, Pushed
    <2> QED
      BY <1>1, <1>2, <2>1, <2>4, <2>5
  <1>7. CASE LeaveFunction
    BY <1>1, <1>2, <1>7 DEF LeaveFunction, Inter
  <1>8. CASE FindLives \/ FindLivesCrash \/ SeedFunction \/ SeedTerminator \/ SeedInstruction
             \/ MarkUsers \/ StackOverflow \/ DeleteIns \/ UNCHANGED vars
    <2>1. UNCHANGED stack
      BY <1>8 DEF FindLives, FindLivesCrash, SeedFunction, SeedTerminator, SeedInstruction,
              MarkUsers, StackOverflow, DeleteIns, vars
    <2> QED
      BY <1>2, <2>1
  <1> QED
    BY <1>3, <1>4, <1>5, <1>6, <1>7, <1>8 DEF Next

\* The pass keeps nothing that is not needed: beside what the criteria and the
\* used returns depend on, there are only returns and users of fopen calls
\* (findLives, interFunction, findAllRelatedIns).
THEOREM SliceMinimal == Spec => []Minimal
  <1>1. Init => TasksOK /\ UsedCalls /\ NeededOnly
    BY DEF Init, Fresh, TasksOK, UsedCalls, On, NeededOnly
  <1>2. TypeOK /\ TasksOK /\ UsedCalls /\ NeededOnly /\ [Next]_vars
           => TasksOK' /\ UsedCalls' /\ NeededOnly'
    BY TasksStep, UsedStep, NeededStep, ProgramsAssumption DEF TypeOK
  <1>3. NeededOnly => Minimal
    BY DEF NeededOnly, Minimal
  <1> QED
    BY <1>1, <1>2, <1>3, TypeCorrect, PTL DEF Spec

-----------------------------------------------------------------------------
(* The whole pass, and the slice at work.  What was shown of Slicer for a   *)
(* program whose analyses are given holds in a pass that begins without     *)
(* their results, because nothing is marked before they are there.          *)

SlicerInv == StateOK /\ LiveClosed /\ Seeded /\ TasksOK /\ ReturnsOwed /\ NothingLeft
                /\ JudgeInv /\ UsedCalls /\ NeededOnly

LEMMA SlicerInvStep ==
    ASSUME WellFormed(P), SlicerInv, [Next]_vars
    PROVE  SlicerInv'
  BY StateStep, ClosedStep, SeededStep, TasksStep, OwedStep, JudgeStep, UsedStep, NeededStep DEF SlicerInv

LEMMA FreshSlicer ==
    ASSUME WellFormed(P), Fresh
    PROVE  SlicerInv
  <1>1. StateOK /\ Seeded
    BY FreshState, FreshSeeded
  <1>2. LiveClosed /\ TasksOK /\ UsedCalls /\ NeededOnly /\ ReturnsOwed /\ NothingLeft
    BY DEF Fresh, LiveClosed, TasksOK, UsedCalls, On, NeededOnly, ReturnsOwed, NothingLeft
  <1> QED
    BY <1>1, <1>2, FreshJudged DEF SlicerInv

\* The slicer has begun when the functions are numbered and analysed.
Begun == filtering = "done" /\ fn \notin DOMAIN P.blocks
InTurn == /\ ~Begun => Fresh
          /\ filtering = "done" => path = <<>>
          /\ analysing # "idle" => filtering = "done" /\ fn \in DOMAIN P.blocks

PassInv == WellFormed(P) /\ InTurn /\ (Fresh \/ SlicerInv)

\* The analyses only supply instructions.
LEMMA Supplied ==
    ASSUME NEW p, WellFormed(p), NEW r \in [Ins(p) -> SUBSET Ins(p)], NEW b \in SUBSET (Ins(p) \X Ins(p))
    PROVE  WellFormed([p EXCEPT !.reach = r, !.before = b])
  <1> DEFINE q == [p EXCEPT !.reach = r, !.before = b]
  <1>1. {"fns", "blocks", "ins", "globals", "exprs", "args", "reach", "before"} \subseteq DOMAIN p
    BY DEF WellFormed
  <1>2. /\ q.fns = p.fns /\ q.blocks = p.blocks /\ q.ins = p.ins /\ q.globals = p.globals
        /\ q.exprs = p.exprs /\ q.args = p.args /\ q.reach = r /\ q.before = b /\ DOMAIN q = DOMAIN p
    BY <1>1
  <1> HIDE DEF q
  <1>3. Ins(q) = Ins(p) /\ Places(q) = Places(p)
    BY <1>2 DEF Ins, Places
  <1>4. \A i : /\ Op(q, i) = Op(p, i) /\ At(q, i) = At(p, i)
               /\ IsCall(q, i) = IsCall(p, i) /\ Callee(q, i) = Callee(p, i)
    BY <1>2 DEF Op, At, IsCall, Callee
  <1>5. \A i : Related(q, i) = Related(p, i) /\ Outlined(q, i) = Outlined(p, i)
    BY <1>2, <1>4 DEF Related, Outlined
  <1>6. WellFormed(q)
    BY <1>1, <1>2, <1>3, <1>4, <1>5 DEF WellFormed
  <1> QED
    BY <1>6 DEF q

LEMMA PassBegins == PassInit => PassInv
  <1> SUFFICES ASSUME PassInit PROVE PassInv
    OBVIOUS
  <1>1. WellFormed(ideal)
    BY ProgramsAssumption DEF PassInit
  <1>2. [x \in Ins(ideal) |-> {}] \in [Ins(ideal) -> SUBSET Ins(ideal)]
    OBVIOUS
  <1>3. WellFormed(P)
    BY <1>1, <1>2, Supplied DEF PassInit, Unanalysed
  <1>4. Fresh /\ filtering = "pre" /\ analysing = "idle"
    BY DEF PassInit, Filter!Fresh
  <1> QED
    BY <1>3, <1>4 DEF PassInv, InTurn, Begun

LEMMA PassStep == PassInv /\ [PassNext]_passVars => PassInv'
  <1> SUFFICES ASSUME PassInv, [PassNext]_passVars PROVE PassInv'
    OBVIOUS
  <1> DEFINE slicing == <<phase, live, todo, blk, part, pos, related, stack, retUndef>>
  <1>0. /\ WellFormed(P) /\ (Fresh \/ SlicerInv)
        /\ ~Begun => Fresh
        /\ filtering = "done" => path = <<>>
        /\ analysing # "idle" => filtering = "done" /\ fn \in DOMAIN P.blocks
    BY DEF PassInv, InTurn
  <1>1. ASSUME Fresh, UNCHANGED slicing PROVE Fresh'
    BY <1>1 DEF Fresh
  <1>2. P.reach \in [Ins(P) -> SUBSET Ins(P)] /\ P.before \subseteq Ins(P) \X Ins(P)
    BY <1>0 DEF WellFormed
  <1>3. CASE BuildFilter
    <2>1. filtering # "done" /\ (filtering' = "done" => path' = <<>>)
      BY <1>0, <1>3 DEF BuildFilter, Filter!Next, Filter!Begin, Filter!Descend, Filter!Skip,
                        Filter!Leave, Filter!EndLoop, Filter!HasNext, Filter!Enter
    <2>2. WellFormed(P')
      <3>1. Judged \subseteq Ins(P) \X Ins(P)
        BY DEF Judged
      <3>2. [P EXCEPT !.before = Judged] = [P EXCEPT !.reach = P.reach, !.before = Judged]
        BY <1>0 DEF WellFormed
      <3>3. WellFormed([P EXCEPT !.before = Judged])
        BY <1>0, <1>2, <3>1, <3>2, Supplied
      <3> QED
        BY <1>0, <1>3, <3>3 DEF BuildFilter
    <2>3. analysing = "idle" /\ analysing' = analysing /\ Fresh'
      BY <1>0, <1>1, <1>3, <2>1 DEF BuildFilter, cursor, defVars, Begun
    <2> QED
      BY <2>1, <2>2, <2>3 DEF PassInv, InTurn
  <1>4. CASE BeginFunction
    <2>1. UNCHANGED vars /\ P' = P
      BY <1>4 DEF BeginFunction, vars
    <2>2. Fresh'
      BY <1>0, <1>1, <1>4 DEF BeginFunction, vars, cursor, Begun
    <2>3. UNCHANGED <<filtering, path, fn>>
      BY <1>4 DEF BeginFunction, filterVars
    <2>4. filtering = "done" /\ fn \in DOMAIN P.blocks
      BY <1>4 DEF BeginFunction
    <2> QED
      BY <1>0, <2>1, <2>2, <2>3, <2>4 DEF PassInv, InTurn
  <1>5. CASE AnalyseFunction
    <2>1. UNCHANGED vars /\ P' = P /\ UNCHANGED <<filtering, path, fn>> /\ analysing # "idle"
      BY <1>5 DEF AnalyseFunction, vars, filterVars
    <2>2. Fresh'
      BY <1>0, <1>1, <2>1 DEF vars, cursor, Begun
    <2> QED
      BY <1>0, <2>1, <2>2 DEF PassInv, InTurn
  <1>6. CASE EndFunction
    <2> DEFINE f == P.blocks[fn].fn
               r == [x \in Ins(P) |-> IF x \in InsOf(P, f) THEN Found(f, x) ELSE P.reach[x]]
    <2>1. P' = [P EXCEPT !.reach = r]
      BY <1>0, <1>6 DEF EndFunction, WellFormed
    <2>2. r \in [Ins(P) -> SUBSET Ins(P)]
      <3>1. \A x : Found(f, x) \subseteq Ins(P)
        BY DEF Found
      <3> QED
        BY <1>2, <3>1
    <2>3. WellFormed(P')
      <3> HIDE DEF r
      <3>1. [P EXCEPT !.reach = r] = [P EXCEPT !.reach = r, !.before = P.before]
        BY <1>0 DEF WellFormed
      <3> QED
        BY <1>0, <1>2, <2>1, <2>2, <3>1, Supplied
    <2>4. analysing = "done" /\ analysing' = "idle" /\ UNCHANGED <<filtering, path>> /\ UNCHANGED slicing
      BY <1>6 DEF EndFunction, NextFunction, filterVars, cursor
    <2>5. Fresh'
      BY <1>0, <1>1, <2>4 DEF Begun
    <2> QED
      BY <1>0, <2>3, <2>4, <2>5 DEF PassInv, InTurn
  <1>7. CASE Slice
    <2>1. Begun /\ Next /\ UNCHANGED <<filtering, path, fn, analysing>>
      BY <1>7 DEF Slice, Begun, filterVars, defVars
    <2>2. P' = P
      BY <2>1, SameProgram
    <2>3. SlicerInv'
      BY <1>0, <2>1, FreshSlicer, SlicerInvStep
    <2> QED
      BY <1>0, <2>1, <2>2, <2>3 DEF PassInv, InTurn, Begun
  <1>8. CASE UNCHANGED passVars
    <2>1. UNCHANGED vars /\ P' = P /\ UNCHANGED <<filtering, path, fn, analysing>>
      BY <1>8 DEF passVars, vars, filterVars, defVars
    <2>2. SlicerInv => SlicerInv'
      BY <1>0, <2>1, SlicerInvStep
    <2>3. Fresh => Fresh'
      BY <1>1, <2>1 DEF vars, cursor
    <2> QED
      BY <1>0, <2>1, <2>2, <2>3 DEF PassInv, InTurn, Begun
  <1> QED
    BY <1>3, <1>4, <1>5, <1>6, <1>7, <1>8 DEF PassNext

LEMMA RunStep == [RunNext]_<<passVars, runVars>> => [PassNext]_passVars
  BY DEF RunNext, Start, Allocate, Load, Store, Compute, Call, Return, Leave, Sliced

LEMMA PassShows ==
    ASSUME PassInv
    PROVE  LiveClosed /\ CriteriaKept /\ ReturnsDecided /\ Minimal
  <1>1. SlicerInv /\ WellFormed(P)
    BY FreshSlicer DEF PassInv
  <1> QED
    BY <1>1, SeededKeeps, OwedDecides DEF SlicerInv, NeededOnly, Minimal

\* The pass as runOnModule puts it together, numbering and analysing functions
\* before it marks the first instruction, keeps its promises whatever the
\* analyses find, and so does the slice while it is run.
THEOREM WholePass == RunSpec => [](LiveClosed /\ CriteriaKept /\ ReturnsDecided /\ Minimal)
  <1>1. RunInit => PassInv
    BY PassBegins DEF RunInit
  <1>2. PassInv /\ [RunNext]_<<passVars, runVars>> => PassInv'
    BY PassStep, RunStep
  <1>3. PassInv => LiveClosed /\ CriteriaKept /\ ReturnsDecided /\ Minimal
    BY PassShows
  <1> QED
    BY <1>1, <1>2, <1>3, PTL DEF RunSpec

-----------------------------------------------------------------------------
(* The slice at work, in a program without global variables.               *)

\* What the slice of a function has the values of, and the functions in which
\* it uses no result that was lost
Results(f) == {v \in InsOf(P, f) : v \in live /\ P.def[v] = "value" /\ ~Lost(v)}
NoneLostIn(F0) == \A f \in F0 : \A c \in InsOf(P, f) : Lost(c) => ~Used(c)

\* A store's value goes from the store to wherever its variable is not written.
Rewrites(p, i, v) == i = v \/ (Op(p, i) = "store" /\ p.ins[i].ptr = v)
Brings(p, s, C) ==
    \A y \in Places(p) :
        At(p, y) = s \/ (y \in C /\ ~Rewrites(p, At(p, y), p.ins[s].ptr)) => Onto(p, y) \subseteq C
Comes(p, s, y) == \A C : Brings(p, s, C) => y \in C

\* ReachingDefinitions has found the stores that may come to a load.
StoresFound(p) ==
    \A x \in Places(p) : \A s \in Ins(p) :
        Op(p, At(p, x)) = "load" /\ Op(p, s) = "store" /\ Comes(p, s, x) => s \in p.reach[At(p, x)]

\* What the pass leaves to the run
Ready == /\ WellFormed(P) /\ Verified(P) /\ Direct(P) /\ FilesAlone(P) /\ P.globals = {}
         /\ StateOK /\ LiveClosed /\ todo = {} /\ CriteriaKept /\ ReturnsDecided /\ phase = "done"
         /\ NoneLostIn(Entered) /\ StoresFound(P)

FrameType == [blk : DOMAIN P.blocks, pos : Nat, regs : SUBSET (Ins(P) \cup P.args), slots : SUBSET Ins(P)]
FnOf(fr)  == P.blocks[fr.blk].fn
Ahead(fr) == IF fr.pos <= Len(P.blocks[fr.blk].code) THEN {<<fr.blk, fr.pos>>}
             ELSE {<<b, 1>> : b \in P.succ[fr.blk]}

\* The last store to variable v was lost on the slice, and may come to a place.
Stale(fr, v) == \E s \in Ins(P) : /\ Op(P, s) = "store" /\ P.ins[s].ptr = v
                                  /\ s \notin live \/ v \notin live
                                  /\ \A y \in Ahead(fr) : Comes(P, s, y)

\* In an activation that waits for the result of call e: the registers the
\* slice has are alike where they were set, and so are the variables but those
\* whose last store is gone.
FrameOK(fr, e) ==
    /\ fr.pos \in 1..(Len(P.blocks[fr.blk].code) + 1)
    /\ FnOf(fr) \in Entered
    /\ P.args \subseteq fr.regs
    /\ \A v \in Results(FnOf(fr)) : v = e \/ v \in fr.regs \/ Ahead(fr) \subseteq Without(P, FnOf(fr), v)
    /\ \A v \in InsOf(P, FnOf(fr)) :
          Op(P, v) = "alloca" => v \in fr.slots \/ Ahead(fr) \subseteq Without(P, FnOf(fr), v) \/ Stale(fr, v)

CalledAt(fr) == P.blocks[fr.blk].code[fr.pos - 1]
Waits(fr, fr2) == /\ fr.pos > 1 /\ IsCall(P, CalledAt(fr))
                  /\ FnOf(fr2) = Callee(P, CalledAt(fr)) \/ FnOf(fr2) \in Outlined(P, CalledAt(fr))
FramesOK ==
    /\ frames \in Seq(FrameType) /\ frames # <<>>
    /\ FrameOK(frames[Len(frames)], "none")
    /\ \A k \in 1..(Len(frames) - 1) : FrameOK(frames[k], CalledAt(frames[k])) /\ Waits(frames[k], frames[k + 1])

RunInv == running # "no" => phase = "done" /\ (Ready => FramesOK)

-----------------------------------------------------------------------------
LEMMA PlacesFinite ==
    ASSUME NEW p, WellFormed(p)
    PROVE  IsFiniteSet(Places(p))
  <1> DEFINE f == [x \in Places(p) |-> At(p, x)]
  <1>1. f \in Injection(Places(p), Ins(p))
    <2>1. \A x \in Places(p) : At(p, x) \in Ins(p)
      BY PlacesType
    <2>2. \A x, y \in Places(p) : At(p, x) = At(p, y) => x = y
      BY DEF WellFormed
    <2> QED
      BY <2>1, <2>2 DEF Injection, IsInjective
  <1>2. IsFiniteSet(Ins(p))
    BY DEF WellFormed
  <1> HIDE DEF f
  <1> QED
    BY <1>1, <1>2, FS_Injection

\* A function begins where nothing of it was executed, and goes on from there.
LEMMA WithoutClosed ==
    ASSUME NEW p, WellFormed(p), NEW f, NEW v
    PROVE  /\ <<Entry(p, f), 1>> \in Without(p, f, v)
           /\ \A x \in Places(p) : x \in Without(p, f, v) /\ At(p, x) # v => Onto(p, x) \subseteq Without(p, f, v)
  <1> DEFINE start == {<<Entry(p, f), 1>>}
             step  == [x \in Places(p) |-> IF At(p, x) = v THEN {} ELSE Onto(p, x)]
             W     == ReachedIn(start, step)
  <1>1. IsFiniteSet(DOMAIN step)
    BY PlacesFinite
  <1>2. start \subseteq W /\ Closed(W, step)
    <2> HIDE DEF start, step
    <2> QED
      BY <1>1, ReachedClosed
  <1>3. W = Without(p, f, v)
    BY DEF Without
  <1>4. \A x \in Places(p) : x \in W /\ At(p, x) # v => Onto(p, x) \subseteq W
    <2> SUFFICES ASSUME NEW x \in Places(p), x \in W, At(p, x) # v PROVE Onto(p, x) \subseteq W
      OBVIOUS
    <2> HIDE DEF W
    <2>1. x \in W \cap DOMAIN step /\ step[x] = Onto(p, x)
      OBVIOUS
    <2> QED
      BY <1>2, <2>1 DEF Closed
  <1>5. <<Entry(p, f), 1>> \in W
    BY <1>2
  <1> HIDE DEF W
  <1> QED
    BY <1>3, <1>4, <1>5

\* The places of an activation
LEMMA FramePlace ==
    ASSUME WellFormed(P), NEW fr \in FrameType, fr.pos \in 1..Len(P.blocks[fr.blk].code)
    PROVE  /\ <<fr.blk, fr.pos>> \in Places(P)
           /\ At(P, <<fr.blk, fr.pos>>) = P.blocks[fr.blk].code[fr.pos]
           /\ P.blocks[fr.blk].code[fr.pos] \in InsOf(P, FnOf(fr))
           /\ P.blocks[fr.blk].code[fr.pos] \in Ins(P)
           /\ Ahead(fr) = {<<fr.blk, fr.pos>>}
  <1>1. fr.blk \in DOMAIN P.blocks
    BY DEF FrameType
  <1>2. DOMAIN P.blocks[fr.blk].code = 1..Len(P.blocks[fr.blk].code)
    BY <1>1, Code
  <1>3. <<fr.blk, fr.pos>> \in Places(P)
    BY <1>1, <1>2 DEF Places
  <1> QED
    BY <1>3, PlacesType DEF FnOf, At, Ahead

\* What is ahead of the next instruction is where control goes from this one.
LEMMA AheadNext ==
    ASSUME WellFormed(P), NEW fr \in FrameType, fr.pos \in 1..Len(P.blocks[fr.blk].code),
           NEW fr2 \in FrameType, fr2.blk = fr.blk, fr2.pos = fr.pos + 1
    PROVE  Ahead(fr2) = Onto(P, <<fr.blk, fr.pos>>)
  <1>1. Len(P.blocks[fr.blk].code) \in Nat
    BY Code DEF FrameType
  <1>2. fr.pos + 1 <= Len(P.blocks[fr.blk].code) <=> fr.pos < Len(P.blocks[fr.blk].code)
    BY <1>1
  <1> QED
    BY <1>2 DEF Ahead, Onto

\* An operand is a result of the same function, that was come by.
LEMMA Operand ==
    ASSUME NEW p, Verified(p), NEW b, NEW k, <<b, k>> \in Places(p),
           NEW v \in Ins(p), v \in p.ins[At(p, <<b, k>>)].ops
    PROVE  /\ v \in InsOf(p, p.blocks[b].fn) /\ p.def[v] \in {"value", "phi"}
           /\ p.def[At(p, <<b, k>>)] # "phi" => <<b, k>> \notin Without(p, p.blocks[b].fn, v)
  <1>1. <<b, k>>[1] = b
    OBVIOUS
  <1> QED
    BY <1>1 DEF Verified

\* A store of a program without globals writes a slot of its function.
LEMMA WritesSlot ==
    ASSUME NEW p, Verified(p), Direct(p), p.globals = {}, NEW j \in Ins(p), Op(p, j) = "store",
           NEW q, q = p.ins[j].ptr
    PROVE  q \in p.ins[j].ops /\ q \in Ins(p) /\ Op(p, q) = "alloca"
  <1>1. p.ins[j].ptr \in p.ins[j].ops
    BY DEF Verified
  <1> DEFINE slots == {x \in Ins(p) : Op(p, x) = "alloca"}
  <1>2. p.ins[j].ptr \in slots
    <2> HIDE DEF slots
    <2>1. p.ins[j].ptr \in slots \cup p.globals
      BY DEF Direct, slots
    <2> QED
      BY <2>1
  <1>3. q \in slots
    BY <1>2
  <1> QED
    BY <1>1, <1>3

\* ... and is live with a live instruction, for it is what that one depends on
\* or, beside the file it uses, the slot that it writes.
LEMMA OperandLive ==
    ASSUME Ready, NEW b, NEW k, <<b, k>> \in Places(P),
           NEW i \in live, i = At(P, <<b, k>>), i \in Ins(P), ~Replaced(P, i, retUndef),
           Op(P, i) = "store" => P.ins[i].ptr \in live,
           NEW v, v \in P.ins[i].ops, v \in Ins(P)
    PROVE  v \in live
  <1>0. /\ WellFormed(P) /\ Verified(P) /\ Direct(P) /\ FilesAlone(P) /\ P.globals = {}
        /\ CriteriaKept /\ LiveClosed /\ todo = {} /\ phase = "done"
    BY DEF Ready
  <1>1. i \in live \ todo
    BY <1>0
  <1>2. CASE Deps(P, i) \subseteq live
    BY <1>2 DEF Deps
  <1>3. CASE UsesFopen(P, i)
    <2>1. PICK w \in P.ins[i].ops \cap Ins(P) : Related(P, w)
      BY <1>3 DEF UsesFopen
    <2>0. PICK S : S = P.ins[i].ops \cap Ins(P)
      OBVIOUS
    <2>2. Cardinality(S) = IF Op(P, i) = "store" THEN 2 ELSE 1
      BY <1>0, <1>3, <2>0 DEF FilesAlone
    <2>3. w \in live
      <3>1. w \in InsOf(P, P.blocks[b].fn)
        BY <1>0, <2>1, Operand
      <3>2. PICK y \in Places(P) : At(P, y) = w
        BY <1>0, <3>1, InsOfPlace
      <3> QED
        BY <1>0, <2>1, <3>2 DEF CriteriaKept
    <2>4. IsFiniteSet(S)
      <3>1. IsFiniteSet(Ins(P)) /\ S \subseteq Ins(P)
        BY <1>0, <2>0 DEF WellFormed
      <3> QED
        BY <3>1, FS_Subset
    <2>5. CASE Op(P, i) # "store"
      <3>1. Cardinality(S) = 1
        BY <2>2, <2>5
      <3>2. PICK z : S = {z}
        BY <2>4, <3>1, FS_Singleton
      <3>3. w \in S /\ v \in S
        BY <2>0, <2>1
      <3>4. w = v
        BY <3>2, <3>3
      <3> QED
        BY <2>3, <3>4
    <2>6. CASE Op(P, i) = "store"
      <3>0. PICK u : u = P.ins[i].ptr
        OBVIOUS
      <3>1. u \in S /\ u # w
        <4>1. u \in P.ins[i].ops /\ u \in Ins(P) /\ Op(P, u) = "alloca"
          BY <1>0, <2>6, <3>0, WritesSlot
        <4>2. Op(P, w) # "alloca"
          BY <2>1 DEF Related, IsCall
        <4> QED
          BY <2>0, <4>1, <4>2
      <3>2. IsFiniteSet(S \ {u}) /\ Cardinality(S \ {u}) = 1
        <4>1. Cardinality(S) = 2
          BY <2>2, <2>6
        <4> QED
          BY <2>4, <3>1, <4>1, FS_RemoveElement
      <3>3. PICK z : S \ {u} = {z}
        BY <3>2, FS_Singleton
      <3>4. w \in S /\ v \in S
        BY <2>0, <2>1
      <3>5. v = u \/ v = w
        BY <3>1, <3>3, <3>4
      <3> QED
        BY <2>3, <2>6, <3>0, <3>5
    <2> QED
      BY <2>5, <2>6
  <1> QED
    BY <1>0, <1>1, <1>2, <1>3 DEF LiveClosed

\* A live instruction has in the slice the operands it has in the program.
LEMMA SameHolds ==
    ASSUME Ready, NEW fr \in FrameType, FrameOK(fr, "none"), fr.pos \in 1..Len(P.blocks[fr.blk].code),
           NEW i, i = P.blocks[fr.blk].code[fr.pos], i \in live, ~Replaced(P, i, retUndef),
           Op(P, i) = "store" => P.ins[i].ptr \in live
    PROVE  \A v \in P.ins[i].ops : v \in Ins(P) \cup P.args => v \in fr.regs
  <1> DEFINE x == <<fr.blk, fr.pos>>
             f == FnOf(fr)
  <1>1. x \in Places(P) /\ At(P, x) = i /\ i \in Ins(P) /\ i \in InsOf(P, f) /\ Ahead(fr) = {x}
    BY FramePlace DEF Ready
  <1>0. /\ WellFormed(P) /\ Verified(P) /\ Direct(P) /\ FilesAlone(P) /\ P.globals = {}
        /\ CriteriaKept /\ LiveClosed /\ todo = {} /\ f = FnOf(fr)
        /\ f = P.blocks[fr.blk].fn
    BY DEF Ready, FnOf
  <1> HIDE DEF f
  <1>2. SUFFICES ASSUME NEW v \in P.ins[i].ops \cap Ins(P) PROVE v \in fr.regs
    BY DEF FrameOK
  <1>3. v \in InsOf(P, f) /\ P.def[v] = "value" /\ x \notin Without(P, f, v)
    <2>1. P.def[i] # "phi" /\ P.def[v] # "phi"
      BY <1>0, <1>1 DEF Direct
    <2> QED
      BY <1>0, <1>1, <2>1, Operand
  <1>4. v \in live
    BY <1>0, <1>1, OperandLive DEF Ready
  <1>5. ~Lost(v)
    <2>1. SUFFICES ASSUME Lost(v) PROVE FALSE
      OBVIOUS
    <2>2. ~Used(v)
      BY <1>0, <1>3, <2>1 DEF Ready, NoneLostIn, FrameOK
    <2>3. i \in CurrentUsers(P, v, retUndef)
      BY <1>1 DEF CurrentUsers, Users, Replaced
    <2> QED
      BY <2>2, <2>3 DEF Used
  <1>6. v \in Results(f) /\ v # "none"
    BY <1>0, <1>3, <1>4, <1>5, Code DEF Results
  <1> QED
    BY <1>0, <1>1, <1>3, <1>6 DEF FrameOK

\* A function with a body begins at one of its blocks.
LEMMA EntryBlock ==
    ASSUME NEW p, WellFormed(p), NEW f \in Bodied(p)
    PROVE  Entry(p, f) \in DOMAIN p.blocks /\ p.blocks[Entry(p, f)].fn = f
  <1> DEFINE own   == {b \in DOMAIN p.blocks : p.blocks[b].fn = f}
             first == CHOOSE b \in own : \A c \in own : b <= c
  <1>1. own \in SUBSET (1..Len(p.blocks)) /\ own # {} /\ Len(p.blocks) \in Nat
    BY Code DEF Bodied
  <1>2. \E b \in own : \A c \in own : b <= c
    <2> HIDE DEF own
    <2> QED
      BY <1>1, Least
  <1>3. first \in own
    <2> HIDE DEF own
    <2> QED
      BY <1>2
  <1>4. Cardinality(own) \in Nat /\ Cardinality(own) # 0
    <2> HIDE DEF own
    <2>1. IsFiniteSet(own)
      <3>1. PICK n \in Nat : n = Len(p.blocks)
        BY <1>1
      <3>2. IsFiniteSet(1..n)
        BY FS_Interval
      <3> QED
        BY <1>1, <3>1, <3>2, FS_Subset
    <2> QED
      BY <1>1, <2>1, FS_EmptySet, FS_CardinalityType
  <1>5. BlocksOf(p, f) = [n \in 1..Cardinality(own) |-> first + (n - 1)]
    BY DEF BlocksOf
  <1>6. Entry(p, f) = first
    <2> HIDE DEF own, first
    <2>1. 1 \in 1..Cardinality(own) /\ first \in Int
      BY <1>1, <1>3, <1>4
    <2>2. BlocksOf(p, f)[1] = first + (1 - 1)
      BY <1>5, <2>1
    <2> QED
      BY <2>1, <2>2 DEF Entry
  <1> QED
    BY <1>3, <1>6

\* An activation begins with nothing of its function executed.
LEMMA FrameBegins ==
    ASSUME Ready, NEW f \in Entered, f \in Bodied(P), NEW regs \in SUBSET (Ins(P) \cup P.args),
           P.args \subseteq regs
    PROVE  /\ Frame(Entry(P, f), regs) \in FrameType /\ FrameOK(Frame(Entry(P, f), regs), "none")
           /\ FnOf(Frame(Entry(P, f), regs)) = f
  <1> DEFINE b == Entry(P, f)
             fr == Frame(b, regs)
  <1>1. b \in DOMAIN P.blocks /\ P.blocks[b].fn = f
    BY EntryBlock DEF Ready
  <1>2. Len(P.blocks[b].code) \in Nat \ {0}
    BY <1>1, Code DEF Ready
  <1>3. fr.blk = b /\ fr.pos = 1 /\ fr.regs = regs /\ fr.slots = {} /\ fr \in FrameType
    BY <1>1 DEF Frame, FrameType
  <1> HIDE DEF fr
  <1>4. FnOf(fr) = f /\ Ahead(fr) = {<<b, 1>>}
    BY <1>1, <1>2, <1>3 DEF FnOf, Ahead
  <1>5. \A v : Ahead(fr) \subseteq Without(P, f, v)
    BY <1>4, WithoutClosed DEF Ready
  <1>6. FrameOK(fr, "none")
    BY <1>2, <1>3, <1>4, <1>5 DEF FrameOK
  <1> QED
    BY <1>3, <1>4, <1>6 DEF fr

\* A store lost on the slice comes behind an instruction that does not write
\* its variable, ...
LEMMA StaleOn ==
    ASSUME NEW fr, NEW fr2, NEW x \in Places(P), Ahead(fr) = {x}, Ahead(fr2) = Onto(P, x),
           NEW v, Stale(fr, v), ~Rewrites(P, At(P, x), v)
    PROVE  Stale(fr2, v)
  <1>1. PICK s \in Ins(P) : /\ Op(P, s) = "store" /\ P.ins[s].ptr = v
                            /\ s \notin live \/ v \notin live
                            /\ \A y \in Ahead(fr) : Comes(P, s, y)
    BY DEF Stale
  <1>2. Comes(P, s, x)
    BY <1>1
  <1>3. ASSUME NEW y \in Onto(P, x), NEW C, Brings(P, s, C) PROVE y \in C
    BY <1>1, <1>2, <1>3 DEF Comes, Brings
  <1> QED
    BY <1>1, <1>3 DEF Stale, Comes

\* ... and behind itself.
LEMMA StaleFrom ==
    ASSUME NEW fr2, NEW x \in Places(P), Ahead(fr2) = Onto(P, x),
           NEW s \in Ins(P), s = At(P, x), Op(P, s) = "store", NEW v, P.ins[s].ptr = v, s \notin live \/ v \notin live
    PROVE  Stale(fr2, v)
  <1>1. ASSUME NEW y \in Onto(P, x), NEW C, Brings(P, s, C) PROVE y \in C
    BY <1>1 DEF Brings
  <1> QED
    BY <1>1 DEF Stale, Comes

\* An instruction is executed that sets no register but its own and no
\* variable but the one it writes.
LEMMA Stepped ==
    ASSUME Ready, NEW fr \in FrameType, FrameOK(fr, "none"), fr.pos \in 1..Len(P.blocks[fr.blk].code),
           NEW i, i = P.blocks[fr.blk].code[fr.pos],
           NEW fr2 \in FrameType, fr2.blk = fr.blk, fr2.pos = fr.pos + 1, NEW e,
           fr.regs \ {i} \subseteq fr2.regs,
           i \in Results(FnOf(fr)) => i = e \/ i \in fr2.regs,
           \A v \in InsOf(P, FnOf(fr)) : Op(P, v) = "alloca" =>
              \/ v \in fr2.slots
              \/ v \notin fr.slots /\ ~Rewrites(P, i, v)
              \/ Op(P, i) = "store" /\ P.ins[i].ptr = v /\ (i \notin live \/ v \notin live)
    PROVE  FrameOK(fr2, e) /\ FnOf(fr2) = FnOf(fr)
  <1> DEFINE x == <<fr.blk, fr.pos>>
             f == FnOf(fr)
  <1>1. x \in Places(P) /\ At(P, x) = i /\ i \in Ins(P) /\ i \in InsOf(P, f) /\ Ahead(fr) = {x}
    BY FramePlace DEF Ready
  <1>2. Ahead(fr2) = Onto(P, x)
    BY AheadNext DEF Ready
  <1>3. FnOf(fr2) = f
    BY DEF FnOf
  <1>4. fr2.pos \in 1..(Len(P.blocks[fr2.blk].code) + 1)
    <2>1. Len(P.blocks[fr.blk].code) \in Nat
      BY Code DEF FrameType, Ready
    <2> QED
      BY <2>1
  <1>5. P.args \subseteq fr2.regs
    BY <1>1 DEF FrameOK, Ready, Verified
  <1>6. ASSUME NEW v, v # i, Ahead(fr) \subseteq Without(P, f, v)
        PROVE  Ahead(fr2) \subseteq Without(P, f, v)
    BY <1>1, <1>2, <1>6, WithoutClosed DEF Ready
  <1>7. ASSUME NEW v \in Results(f) PROVE v = e \/ v \in fr2.regs \/ Ahead(fr2) \subseteq Without(P, f, v)
    <2>1. CASE v = i
      BY <1>7, <2>1
    <2>2. CASE v # i
      <3>1. v # "none"
        BY <1>7, InsOfType, Code DEF Results, Ready
      <3>2. v \in fr.regs \/ Ahead(fr) \subseteq Without(P, f, v)
        BY <1>7, <3>1 DEF FrameOK
      <3> QED
        BY <1>6, <2>2, <3>2
    <2> QED
      BY <2>1, <2>2
  <1>10. \A v \in InsOf(P, f) : Op(P, v) = "alloca" =>
            v \in fr.slots \/ Ahead(fr) \subseteq Without(P, f, v) \/ Stale(fr, v)
    BY DEF FrameOK
  <1>8. ASSUME NEW v \in InsOf(P, f), Op(P, v) = "alloca"
        PROVE  v \in fr2.slots \/ Ahead(fr2) \subseteq Without(P, f, v) \/ Stale(fr2, v)
    <2>1. CASE v \notin fr.slots /\ ~Rewrites(P, i, v)
      <3>1. v # i
        BY <2>1, Zenon DEF Rewrites
      <3>2. Stale(fr, v) => Stale(fr2, v)
        BY <1>1, <1>2, <2>1, StaleOn
      <3>3. v \in fr.slots \/ Ahead(fr) \subseteq Without(P, f, v) \/ Stale(fr, v)
        BY <1>8, <1>10
      <3>4. Ahead(fr) \subseteq Without(P, f, v) => Ahead(fr2) \subseteq Without(P, f, v)
        BY <1>6, <3>1
      <3> QED
        BY <2>1, <3>2, <3>3, <3>4, Zenon
    <2>2. CASE Op(P, i) = "store" /\ P.ins[i].ptr = v /\ (i \notin live \/ v \notin live)
      BY <1>1, <1>2, <2>2, StaleFrom
    <2> QED
      BY <1>8, <2>1, <2>2
  <1>9. FnOf(fr2) \in Entered
    BY <1>3 DEF FrameOK
  <1> QED
    BY <1>3, <1>4, <1>5, <1>7, <1>8, <1>9 DEF FrameOK

\* Control goes to another block.
LEMMA Left ==
    ASSUME Ready, NEW fr \in FrameType, FrameOK(fr, "none"), fr.pos = Len(P.blocks[fr.blk].code) + 1,
           NEW b \in P.succ[fr.blk], NEW fr2, fr2 = [fr EXCEPT !.blk = b, !.pos = 1]
    PROVE  fr2 \in FrameType /\ FrameOK(fr2, "none") /\ FnOf(fr2) = FnOf(fr)
  <1>1. fr.blk \in DOMAIN P.blocks /\ Len(P.blocks[fr.blk].code) \in Nat
    BY Code DEF FrameType, Ready
  <1>2. b \in DOMAIN P.blocks /\ P.blocks[b].fn = P.blocks[fr.blk].fn
    BY <1>1 DEF Ready, Verified
  <1>3. Len(P.blocks[b].code) \in Nat \ {0}
    BY <1>2, Code DEF Ready
  <1>4. fr2 \in FrameType /\ fr2.blk = b /\ fr2.pos = 1 /\ fr2.regs = fr.regs /\ fr2.slots = fr.slots
    BY <1>2 DEF FrameType
  <1>5. Ahead(fr) = {<<c, 1>> : c \in P.succ[fr.blk]} /\ Ahead(fr2) = {<<b, 1>>}
    BY <1>1, <1>3, <1>4 DEF Ahead
  <1>6. Ahead(fr2) \subseteq Ahead(fr)
    BY <1>5
  <1>7. FnOf(fr2) = FnOf(fr)
    BY <1>2, <1>4 DEF FnOf
  <1>8. \A v : Stale(fr, v) => Stale(fr2, v)
    BY <1>6 DEF Stale
  <1> HIDE DEF FrameType
  <1>9. FrameOK(fr2, "none")
    BY <1>3, <1>4, <1>6, <1>7, <1>8 DEF FrameOK
  <1> QED
    BY <1>4, <1>7, <1>9

\* When nothing of the program and of the slice changes, neither do the
\* promises about an activation.
LEMMA SameFrames ==
    ASSUME UNCHANGED P, UNCHANGED live, UNCHANGED retUndef
    PROVE  /\ FrameType' = FrameType
           /\ \A fr, e : FrameOK(fr, e)' <=> FrameOK(fr, e)
           /\ \A fr, fr2 : Waits(fr, fr2)' <=> Waits(fr, fr2)
           /\ \A fr : CalledAt(fr)' = CalledAt(fr)
  <1>1. \A fr : FnOf(fr)' = FnOf(fr) /\ Ahead(fr)' = Ahead(fr) /\ CalledAt(fr)' = CalledAt(fr)
    BY DEF FnOf, Ahead, CalledAt
  <1>2. Entered' = Entered
    BY EnteredSame
  <1>3. \A f : Results(f)' = Results(f)
    BY DEF Results, Lost
  <1>4. \A fr, v : Stale(fr, v)' <=> Stale(fr, v)
    BY <1>1 DEF Stale
  <1>5. FrameType' = FrameType
    BY DEF FrameType
  <1>6. ASSUME NEW fr, NEW e PROVE FrameOK(fr, e)' <=> FrameOK(fr, e)
    BY <1>1, <1>2, <1>3, <1>4 DEF FrameOK
  <1>7. ASSUME NEW fr, NEW fr2 PROVE Waits(fr, fr2)' <=> Waits(fr, fr2)
    BY <1>1 DEF Waits
  <1> QED
    BY <1>1, <1>5, <1>6, <1>7

LEMMA FrontOf ==
    ASSUME NEW T, NEW s \in Seq(T), s # <<>>
    PROVE  /\ Len(s) \in Nat \ {0} /\ \A k \in 1..Len(s) : s[k] \in T
           /\ SubSeq(s, 1, Len(s) - 1) \in Seq(T)
           /\ Len(SubSeq(s, 1, Len(s) - 1)) = Len(s) - 1
           /\ \A k \in 1..(Len(s) - 1) : SubSeq(s, 1, Len(s) - 1)[k] = s[k]
  <1>1. Len(s) \in Nat \ {0} /\ \A k \in 1..Len(s) : s[k] \in T
    OBVIOUS
  <1>2. SubSeq(s, 1, Len(s) - 1) = [k \in 1..(Len(s) - 1) |-> s[k]]
    BY <1>1
  <1>3. PICK n \in Nat : n = Len(s) - 1
    BY <1>1
  <1>4. PICK g : g = [k \in 1..n |-> s[k]]
    OBVIOUS
  <1>5. g \in Seq(T) /\ Len(g) = n /\ \A k \in 1..n : g[k] = s[k]
    BY <1>1, <1>3, <1>4
  <1>6. SubSeq(s, 1, Len(s) - 1) = g
    BY <1>2, <1>3, <1>4
  <1> QED
    BY <1>1, <1>3, <1>5, <1>6

\* The top of the activations
LEMMA TopIs ==
    ASSUME FramesOK
    PROVE  /\ Len(frames) \in Nat \ {0} /\ Top = frames[Len(frames)]
           /\ Top \in FrameType /\ FrameOK(Top, "none")
           /\ \A k \in 1..Len(frames) : frames[k] \in FrameType
           /\ Front(frames) = SubSeq(frames, 1, Len(frames) - 1)
           /\ Front(frames) \in Seq(FrameType) /\ Len(Front(frames)) = Len(frames) - 1
           /\ \A k \in 1..(Len(frames) - 1) : Front(frames)[k] = frames[k]
  <1> HIDE DEF FrameType
  <1>1. frames \in Seq(FrameType) /\ frames # <<>>
    BY DEF FramesOK
  <1>2. /\ Len(frames) \in Nat \ {0} /\ \A k \in 1..Len(frames) : frames[k] \in FrameType
        /\ SubSeq(frames, 1, Len(frames) - 1) \in Seq(FrameType)
        /\ Len(SubSeq(frames, 1, Len(frames) - 1)) = Len(frames) - 1
        /\ \A k \in 1..(Len(frames) - 1) : SubSeq(frames, 1, Len(frames) - 1)[k] = frames[k]
    BY <1>1, FrontOf
  <1>3. Front(frames) = SubSeq(frames, 1, Len(frames) - 1) /\ Top = frames[Len(frames)]
    BY DEF Front, Top, Last
  <1>4. Top \in FrameType /\ FrameOK(Top, "none")
    BY <1>2, <1>3 DEF FramesOK
  <1> QED
    BY <1>2, <1>3, <1>4

\* The activations of the next state
LEMMA FramesNext ==
    ASSUME UNCHANGED P, UNCHANGED live, UNCHANGED retUndef,
           NEW n \in Nat \ {0}, frames' \in Seq(FrameType), Len(frames') = n,
           FrameOK(frames'[n], "none"),
           \A k \in 1..(n - 1) : FrameOK(frames'[k], CalledAt(frames'[k])) /\ Waits(frames'[k], frames'[k + 1])
    PROVE  FramesOK'
  <1>1. /\ FrameType' = FrameType /\ \A fr, e : FrameOK(fr, e)' <=> FrameOK(fr, e)
        /\ \A fr, f2 : Waits(fr, f2)' <=> Waits(fr, f2)
        /\ \A fr : CalledAt(fr)' = CalledAt(fr)
    BY SameFrames
  <1>2. frames' # <<>>
    OBVIOUS
  <1>3. frames' \in Seq(FrameType') /\ FrameOK(frames[Len(frames)], "none")'
    <2>1. FrameOK(frames[Len(frames)], "none")' <=> FrameOK(frames'[Len(frames')], "none")
      <3>1. PICK fr : fr = frames'[Len(frames')]
        OBVIOUS
      <3>2. FrameOK(frames[Len(frames)], "none")' <=> FrameOK(fr, "none")'
        BY <3>1 DEF FrameOK, FnOf, Ahead, Stale
      <3> QED
        BY <1>1, <3>1, <3>2
    <2> QED
      BY <1>1, <2>1
  <1>4. \A k \in 1..(Len(frames') - 1) : /\ FrameOK(frames[k], CalledAt(frames[k]))'
                                         /\ Waits(frames[k], frames[k + 1])'
    <2> SUFFICES ASSUME NEW k \in 1..(n - 1)
                 PROVE  /\ FrameOK(frames[k], CalledAt(frames[k]))'
                        /\ Waits(frames[k], frames[k + 1])'
      OBVIOUS
    <2>1. PICK fr, e, f2 : fr = frames'[k] /\ e = CalledAt(frames'[k]) /\ f2 = frames'[k + 1]
      OBVIOUS
    <2>2. CalledAt(frames[k])' = e
      BY <2>1 DEF CalledAt
    <2>3. FrameOK(frames[k], CalledAt(frames[k]))' <=> FrameOK(fr, e)'
      BY <2>1, <2>2 DEF FrameOK, FnOf, Ahead, Stale
    <2>4. Waits(frames[k], frames[k + 1])' <=> Waits(fr, f2)'
      BY <2>1 DEF Waits, CalledAt, FnOf
    <2> QED
      BY <1>1, <2>1, <2>3, <2>4
  <1> QED
    BY <1>2, <1>3, <1>4 DEF FramesOK

\* The step of an activation within its function
LEMMA ReplaceOK ==
    ASSUME FramesOK, UNCHANGED P, UNCHANGED live, UNCHANGED retUndef,
           NEW fr2 \in FrameType, FrameOK(fr2, "none"), FnOf(fr2) = FnOf(Top), Replace(fr2)
    PROVE  FramesOK'
  <1> DEFINE n == Len(frames)
             T == FrameType
             G == Front(frames)
  <1>1. /\ n \in Nat \ {0} /\ G \in Seq(T) /\ Len(G) = n - 1 /\ \A k \in 1..(n - 1) : G[k] = frames[k]
        /\ Top = frames[n]
    BY TopIs
  <1>2. frames' = Append(G, fr2)
    BY DEF Replace
  <1>3. /\ frames' \in Seq(T) /\ Len(frames') = n /\ frames'[n] = fr2
        /\ \A k \in 1..(n - 1) : frames'[k] = frames[k]
    <2>1. fr2 \in T
      OBVIOUS
    <2> HIDE DEF T, G, n
    <2> QED
      BY <1>1, <1>2, <2>1
  <1>4. \A k \in 1..(n - 1) : FrameOK(frames[k], CalledAt(frames[k])) /\ Waits(frames[k], frames[k + 1])
    BY DEF FramesOK
  <1>5. ASSUME NEW k \in 1..(n - 1)
        PROVE  FrameOK(frames'[k], CalledAt(frames'[k])) /\ Waits(frames'[k], frames'[k + 1])
    <2>1. FrameOK(frames'[k], CalledAt(frames'[k])) /\ Waits(frames'[k], frames[k + 1])
      BY <1>3, <1>4
    <2>2. CASE k + 1 \in 1..(n - 1)
      BY <1>3, <2>1, <2>2
    <2>3. CASE k + 1 = n
      <3>1. frames'[k + 1] = fr2 /\ frames[k + 1] = Top
        BY <1>1, <1>3, <2>3
      <3> QED
        BY <2>1, <3>1 DEF Waits
    <2> QED
      BY <1>1, <2>2, <2>3
  <1>6. FrameOK(frames'[n], "none")
    BY <1>3
  <1> HIDE DEF n, T
  <1> QED
    BY <1>1, <1>3, <1>5, <1>6, FramesNext DEF T

LEMMA Stays ==
    ASSUME Sliced
    PROVE  UNCHANGED P /\ UNCHANGED live /\ UNCHANGED retUndef
  BY DEF Sliced, passVars, vars

\* The instruction that is executed
LEMMA AtHere ==
    ASSUME Ready, FramesOK, ~AtEnd
    PROVE  /\ Top \in FrameType /\ FrameOK(Top, "none")
           /\ Top.pos \in 1..Len(P.blocks[Top.blk].code) /\ Here = P.blocks[Top.blk].code[Top.pos]
           /\ Here \in InsOf(P, FnOf(Top)) /\ Here \in Ins(P) /\ FnOf(Top) \in Entered
           /\ <<Top.blk, Top.pos>> \in Places(P) /\ At(P, <<Top.blk, Top.pos>>) = Here
           /\ Ahead(Top) = {<<Top.blk, Top.pos>>}
  <1>1. Top \in FrameType /\ FrameOK(Top, "none")
    BY TopIs
  <1>2. Top.pos \in 1..(Len(P.blocks[Top.blk].code) + 1) /\ ~(Top.pos > Len(P.blocks[Top.blk].code))
        /\ FnOf(Top) \in Entered
    BY <1>1 DEF FrameOK, AtEnd
  <1>3. Len(P.blocks[Top.blk].code) \in Nat
    BY <1>1, Code DEF Ready, FrameType
  <1>4. Top.pos \in 1..Len(P.blocks[Top.blk].code)
    BY <1>2, <1>3
  <1>5. Here = P.blocks[Top.blk].code[Top.pos]
    BY DEF Here
  <1>6. /\ <<Top.blk, Top.pos>> \in Places(P)
        /\ At(P, <<Top.blk, Top.pos>>) = P.blocks[Top.blk].code[Top.pos]
        /\ P.blocks[Top.blk].code[Top.pos] \in InsOf(P, FnOf(Top))
        /\ P.blocks[Top.blk].code[Top.pos] \in Ins(P)
        /\ Ahead(Top) = {<<Top.blk, Top.pos>>}
    BY <1>1, <1>4, FramePlace DEF Ready
  <1> QED
    BY <1>1, <1>2, <1>4, <1>5, <1>6

\* What the slice holds the result of, it executes on the same operands.
LEMMA SameHere ==
    ASSUME Ready, FramesOK, ~AtEnd, Here \in live, ~Replaced(P, Here, retUndef),
           Op(P, Here) = "store" => P.ins[Here].ptr \in live
    PROVE  Same
  <1>1. \A v \in P.ins[Here].ops : v \in Ins(P) \cup P.args => v \in Top.regs
    BY AtHere, SameHolds
  <1> QED
    BY <1>1 DEF Same, Kept

LEMMA NoReturn ==
    ASSUME NEW i, Op(P, i) \notin ReturnOps
    PROVE  ~Replaced(P, i, retUndef)
  BY DEF Replaced, Returns

LEMMA SameResult ==
    ASSUME Ready, FramesOK, ~AtEnd, Here \in Results(FnOf(Top)), Op(P, Here) \notin ReturnOps
    PROVE  Same
  <1>1. Here \in live /\ Op(P, Here) # "store"
    BY AtHere DEF Results, Ready, Verified
  <1> QED
    BY <1>1, NoReturn, SameHere

\* The activation after a step that leaves registers r and variables s
Moved(r, s) == [blk |-> Top.blk, pos |-> Top.pos + 1, regs |-> r, slots |-> s]

LEMMA MovedType ==
    ASSUME Ready, FramesOK, ~AtEnd, NEW r \in SUBSET (Ins(P) \cup P.args), NEW s \in SUBSET Ins(P)
    PROVE  /\ Moved(r, s) \in FrameType /\ Moved(r, s).blk = Top.blk /\ Moved(r, s).pos = Top.pos + 1
           /\ Moved(r, s).regs = r /\ Moved(r, s).slots = s
  <1>1. Top.blk \in DOMAIN P.blocks /\ Top.pos \in Nat
    BY AtHere DEF FrameType
  <1>2. Top.pos + 1 \in Nat
    BY <1>1
  <1> QED
    BY <1>1, <1>2 DEF Moved, FrameType

LEMMA AdvancedIs ==
    ASSUME FramesOK
    PROVE  /\ Advanced = Moved(Top.regs, Top.slots)
           /\ \A r : [Advanced EXCEPT !.regs = r] = Moved(r, Top.slots)
           /\ \A s : [Advanced EXCEPT !.slots = s] = Moved(Top.regs, s)
           /\ \A r, s : [Advanced EXCEPT !.regs = r, !.slots = s] = Moved(r, s)
           /\ Advanced.regs = Top.regs /\ Advanced.slots = Top.slots
  <1>1. PICK b, n, r0, s0 : Top = [blk |-> b, pos |-> n, regs |-> r0, slots |-> s0]
    BY TopIs DEF FrameType
  <1>2. Top.blk = b /\ Top.pos = n /\ Top.regs = r0 /\ Top.slots = s0
    BY <1>1
  <1>3. PICK m : m = n + 1
    OBVIOUS
  <1>4. Advanced = [blk |-> b, pos |-> m, regs |-> r0, slots |-> s0]
    BY <1>1, <1>3 DEF Advanced
  <1>5. \A r, s : Moved(r, s) = [blk |-> b, pos |-> m, regs |-> r, slots |-> s]
    BY <1>2, <1>3 DEF Moved
  <1>6. \A r : [Advanced EXCEPT !.regs = r] = [blk |-> b, pos |-> m, regs |-> r, slots |-> s0]
    BY <1>4
  <1>7. \A s : [Advanced EXCEPT !.slots = s] = [blk |-> b, pos |-> m, regs |-> r0, slots |-> s]
    BY <1>4
  <1>8. ASSUME NEW r, NEW s
        PROVE  [Advanced EXCEPT !.regs = r, !.slots = s] = [blk |-> b, pos |-> m, regs |-> r, slots |-> s]
    <2>1. PICK a : a = Advanced
      OBVIOUS
    <2>2. a = [blk |-> b, pos |-> m, regs |-> r0, slots |-> s0]
      BY <1>4, <2>1
    <2>3. [a EXCEPT !.regs = r] = [blk |-> b, pos |-> m, regs |-> r, slots |-> s0]
      BY <2>2
    <2>4. [a EXCEPT !.regs = r, !.slots = s] = [[a EXCEPT !.regs = r] EXCEPT !.slots = s]
      OBVIOUS
    <2>5. PICK c : c = [a EXCEPT !.regs = r]
      OBVIOUS
    <2>6. c = [blk |-> b, pos |-> m, regs |-> r, slots |-> s0]
      BY <2>3, <2>5
    <2>7. [c EXCEPT !.slots = s] = [blk |-> b, pos |-> m, regs |-> r, slots |-> s]
      BY <2>6
    <2> QED
      BY <2>1, <2>4, <2>5, <2>7
  <1>9. Advanced.regs = r0 /\ Advanced.slots = s0
    BY <1>4
  <1>10. Advanced = Moved(Top.regs, Top.slots)
    BY <1>2, <1>4, <1>5
  <1>11. (\A r : [Advanced EXCEPT !.regs = r] = Moved(r, Top.slots)) /\ (\A s : [Advanced EXCEPT !.slots = s] = Moved(Top.regs, s))
    BY <1>2, <1>5, <1>6, <1>7
  <1>12. \A r, s : [Advanced EXCEPT !.regs = r, !.slots = s] = Moved(r, s)
    BY <1>5, <1>8
  <1> QED
    BY <1>2, <1>9, <1>10, <1>11, <1>12

LEMMA PutIs ==
    ASSUME NEW S, NEW x, NEW m \in BOOLEAN
    PROVE  /\ S \ {x} \subseteq Put(S, x, m) /\ Put(S, x, m) \subseteq S \cup {x}
           /\ m => x \in Put(S, x, m)
           /\ \A y : y # x => (y \in Put(S, x, m) <=> y \in S)
  BY DEF Put

LEMMA TopFields ==
    ASSUME FramesOK
    PROVE  Top.regs \subseteq Ins(P) \cup P.args /\ Top.slots \subseteq Ins(P)
  BY TopIs DEF FrameType

LEMMA AllocateOK ==
    ASSUME Ready, FramesOK, Allocate
    PROVE  FramesOK'
  <1> DEFINE r == Put(Top.regs, Here, Same)
             s == Top.slots \cup {Here}
             fr2 == Moved(r, s)
  <1>1. ~AtEnd /\ Op(P, Here) = "alloca" /\ Sliced
    BY DEF Allocate, Active
  <1>2. /\ Top.regs \ {Here} \subseteq r /\ r \subseteq Top.regs \cup {Here} /\ (Same => Here \in r)
    BY PutIs DEF Same
  <1>3. r \in SUBSET (Ins(P) \cup P.args) /\ s \in SUBSET Ins(P)
    BY <1>1, <1>2, AtHere, TopFields
  <1>4. Replace(fr2)
    <2>1. PICK a : a = Advanced
      OBVIOUS
    <2>2. Replace([a EXCEPT !.regs = Put(@, Here, Same), !.slots = @ \cup {Here}])
      BY <2>1 DEF Allocate
    <2>3. PICK q : q = Put(a.regs, Here, Same)
      OBVIOUS
    <2>4. PICK t : t = a.slots \cup {Here}
      OBVIOUS
    <2>5. [a EXCEPT !.regs = Put(@, Here, Same), !.slots = @ \cup {Here}] = [a EXCEPT !.regs = q, !.slots = t]
      <3> HIDE DEF r, s
      <3> QED
        BY <2>3, <2>4
    <2>6. q = r /\ t = s
      BY <2>1, <2>3, <2>4, AdvancedIs
    <2>7. [a EXCEPT !.regs = q, !.slots = t] = fr2
      BY <2>1, <2>6, AdvancedIs
    <2> QED
      BY <2>2, <2>5, <2>7
  <1>5. fr2 \in FrameType /\ fr2.blk = Top.blk /\ fr2.pos = Top.pos + 1 /\ fr2.regs = r /\ fr2.slots = s
    <2> HIDE DEF r, s
    <2> QED
      BY <1>1, <1>3, MovedType
  <1> HIDE DEF fr2
  <1>6. Here \in Results(FnOf(Top)) => Here \in fr2.regs
    BY <1>1, <1>2, <1>5, SameResult DEF ReturnOps
  <1>7. \A v \in InsOf(P, FnOf(Top)) : Op(P, v) = "alloca" =>
           v \in fr2.slots \/ (v \notin Top.slots /\ ~Rewrites(P, Here, v))
    BY <1>1, <1>5 DEF Rewrites
  <1>8. FrameOK(fr2, "none") /\ FnOf(fr2) = FnOf(Top)
    <2> HIDE DEF r, s
    <2> QED
      BY <1>1, <1>2, <1>5, <1>6, <1>7, AtHere, Stepped
  <1> QED
    BY <1>1, <1>4, <1>5, <1>8, Stays, ReplaceOK

LEMMA ComputeOK ==
    ASSUME Ready, FramesOK, Compute
    PROVE  FramesOK'
  <1> DEFINE r == Put(Top.regs, Here, Same)
             fr2 == Moved(r, Top.slots)
  <1>1. ~AtEnd /\ Op(P, Here) \in {"gep", "other", "call", "invoke"} \cup ControlOps /\ Sliced
    BY DEF Compute, Active
  <1>2. /\ Top.regs \ {Here} \subseteq r /\ r \subseteq Top.regs \cup {Here} /\ (Same => Here \in r)
    BY PutIs DEF Same
  <1>3. r \in SUBSET (Ins(P) \cup P.args) /\ Top.slots \in SUBSET Ins(P)
    BY <1>1, <1>2, AtHere, TopFields
  <1>4. Replace(fr2)
    BY AdvancedIs DEF Compute
  <1>5. fr2 \in FrameType /\ fr2.blk = Top.blk /\ fr2.pos = Top.pos + 1 /\ fr2.regs = r /\ fr2.slots = Top.slots
    <2> HIDE DEF r
    <2> QED
      BY <1>1, <1>3, MovedType
  <1> HIDE DEF fr2
  <1>6. Here \in Results(FnOf(Top)) => Here \in fr2.regs
    BY <1>1, <1>2, <1>5, SameResult DEF ReturnOps, ControlOps
  <1>7. \A v \in InsOf(P, FnOf(Top)) : Op(P, v) = "alloca" =>
           v \in fr2.slots \/ (v \notin Top.slots /\ ~Rewrites(P, Here, v))
    BY <1>1, <1>5 DEF Rewrites, ControlOps
  <1>8. FrameOK(fr2, "none") /\ FnOf(fr2) = FnOf(Top)
    <2> HIDE DEF r
    <2> QED
      BY <1>1, <1>2, <1>5, <1>6, <1>7, AtHere, Stepped
  <1> QED
    BY <1>1, <1>4, <1>5, <1>8, Stays, ReplaceOK

\* A load in the slice finds in its variable what the program finds.
LEMMA LoadSame ==
    ASSUME Ready, FramesOK, ~AtEnd, Op(P, Here) = "load", Here \in live
    PROVE  \A v \in P.ins[Here].ops : Holds(v)
  <1> SUFFICES ASSUME NEW v \in P.ins[Here].ops PROVE v \in Top.slots
    BY DEF Holds
  <1> DEFINE x == <<Top.blk, Top.pos>>
             f == FnOf(Top)
  <1>1. x \in Places(P) /\ At(P, x) = Here /\ Here \in Ins(P) /\ Ahead(Top) = {x} /\ FrameOK(Top, "none")
        /\ P.blocks[x[1]].fn = f
    BY AtHere DEF FnOf
  <1>2. v \in Ins(P) /\ Op(P, v) = "alloca"
    <2>1. P.ins[Here].ops \subseteq {a \in Ins(P) : Op(P, a) = "alloca"} \cup P.globals
      BY <1>1 DEF Ready, Direct
    <2>2. P.globals = {}
      BY DEF Ready
    <2> QED
      BY <2>1, <2>2
  <1>3. v \in InsOf(P, f) /\ x \notin Without(P, f, v)
    <2>1. P.def[Here] # "phi"
      BY <1>1 DEF Ready, Direct
    <2>2. \A w \in P.ins[At(P, x)].ops \cap Ins(P) :
             w \in InsOf(P, f) /\ (P.def[At(P, x)] # "phi" => x \notin Without(P, f, w))
      BY <1>1 DEF Ready, Verified
    <2> QED
      BY <1>1, <1>2, <2>1, <2>2
  <1>4. Deps(P, Here) \subseteq live
    <2>1. ~Replaced(P, Here, retUndef)
      BY NoReturn DEF ReturnOps
    <2>2. ~UsesFopen(P, Here)
      <3>1. \A w \in P.ins[Here].ops \cap Ins(P) : Op(P, w) = "alloca"
        BY <1>1 DEF Ready, Direct
      <3> QED
        BY <3>1 DEF UsesFopen, Related, IsCall
    <2> QED
      BY <2>1, <2>2 DEF Ready, LiveClosed
  <1>5. v \in live
    BY <1>2, <1>4 DEF Deps
  <1>6. ~Stale(Top, v)
    <2> SUFFICES ASSUME NEW s \in Ins(P), Op(P, s) = "store", P.ins[s].ptr = v, s \notin live, Comes(P, s, x)
                 PROVE  FALSE
      BY <1>1, <1>5 DEF Stale
    <2>1. s \in P.reach[Here]
      BY <1>1 DEF Ready, StoresFound
    <2>2. s \in ReachingStores(P, Here)
      BY <2>1 DEF ReachingStores
    <2>3. AsksReachingStores(P, Here)
      BY <1>2 DEF AsksReachingStores
    <2> QED
      BY <1>4, <2>2, <2>3 DEF Deps
  <1> QED
    BY <1>1, <1>2, <1>3, <1>6 DEF FrameOK

LEMMA LoadOK ==
    ASSUME Ready, FramesOK, Load
    PROVE  FramesOK'
  <1> DEFINE good == Same /\ \A v \in P.ins[Here].ops : Holds(v)
             r == Put(Top.regs, Here, good)
             fr2 == Moved(r, Top.slots)
  <1>1. ~AtEnd /\ Op(P, Here) = "load" /\ Sliced
    BY DEF Load, Active
  <1>2. /\ Top.regs \ {Here} \subseteq r /\ r \subseteq Top.regs \cup {Here} /\ (good => Here \in r)
    BY PutIs
  <1>3. r \in SUBSET (Ins(P) \cup P.args) /\ Top.slots \in SUBSET Ins(P)
    BY <1>1, <1>2, AtHere, TopFields
  <1>4. Replace(fr2)
    BY AdvancedIs DEF Load
  <1>5. fr2 \in FrameType /\ fr2.blk = Top.blk /\ fr2.pos = Top.pos + 1 /\ fr2.regs = r /\ fr2.slots = Top.slots
    <2> HIDE DEF r
    <2> QED
      BY <1>1, <1>3, MovedType
  <1> HIDE DEF fr2
  <1>6. Here \in Results(FnOf(Top)) => Here \in fr2.regs
    BY <1>1, <1>2, <1>5, SameResult, LoadSame DEF ReturnOps, Results
  <1>7. \A v \in InsOf(P, FnOf(Top)) : Op(P, v) = "alloca" =>
           v \in fr2.slots \/ (v \notin Top.slots /\ ~Rewrites(P, Here, v))
    BY <1>1, <1>5 DEF Rewrites
  <1>8. FrameOK(fr2, "none") /\ FnOf(fr2) = FnOf(Top)
    <2> HIDE DEF r
    <2> QED
      BY <1>1, <1>2, <1>5, <1>6, <1>7, AtHere, Stepped
  <1> QED
    BY <1>1, <1>4, <1>5, <1>8, Stays, ReplaceOK

LEMMA StoreOK ==
    ASSUME Ready, FramesOK, Store
    PROVE  FramesOK'
  <1> DEFINE v == P.ins[Here].ptr
             s == Put(Top.slots, v, Same)
             fr2 == Moved(Top.regs, s)
  <1>1. ~AtEnd /\ Op(P, Here) = "store" /\ Sliced
    BY DEF Store, Active
  <1>0. Here \in Ins(P) /\ FrameOK(Top, "none")
    BY <1>1, AtHere
  <1>2. /\ s \subseteq Top.slots \cup {v} /\ (Same => v \in s) /\ \A y : y # v => (y \in s <=> y \in Top.slots)
    <2>1. Same \in BOOLEAN
      BY DEF Same
    <2> QED
      BY <2>1, PutIs
  <1>3. v \in Ins(P) /\ v \notin P.globals
    <2>1. v \in {a \in Ins(P) : Op(P, a) = "alloca"} \cup P.globals /\ P.globals = {}
      BY <1>0, <1>1 DEF Ready, Direct
    <2> QED
      BY <2>1
  <1>4. Top.regs \in SUBSET (Ins(P) \cup P.args) /\ s \in SUBSET Ins(P)
    BY <1>2, <1>3, TopFields
  <1>5. Replace(fr2)
    BY <1>3, AdvancedIs DEF Store
  <1>6. fr2 \in FrameType /\ fr2.blk = Top.blk /\ fr2.pos = Top.pos + 1 /\ fr2.regs = Top.regs /\ fr2.slots = s
    <2> HIDE DEF s
    <2> QED
      BY <1>1, <1>4, MovedType
  <1> HIDE DEF fr2
  <1>7. Here \notin Results(FnOf(Top))
    BY <1>0, <1>1 DEF Results, Ready, Verified
  <1>8. ASSUME NEW w \in InsOf(P, FnOf(Top)), Op(P, w) = "alloca"
        PROVE  \/ w \in fr2.slots
               \/ w \notin Top.slots /\ ~Rewrites(P, Here, w)
               \/ Op(P, Here) = "store" /\ P.ins[Here].ptr = w /\ (Here \notin live \/ w \notin live)
    <2>1. CASE w # v
      BY <1>1, <1>2, <1>6, <1>8, <2>1 DEF Rewrites
    <2>2. CASE w = v
      <3>1. CASE Here \in live /\ v \in live
        <4>1. Same
          BY <1>1, <3>1, NoReturn, SameHere DEF ReturnOps
        <4> QED
          BY <1>2, <1>6, <2>2, <4>1
      <3> QED
        BY <1>1, <2>2, <3>1
    <2> QED
      BY <2>1, <2>2
  <1>9. FrameOK(fr2, "none") /\ FnOf(fr2) = FnOf(Top)
    <2>1. /\ Top \in FrameType /\ Top.pos \in 1..Len(P.blocks[Top.blk].code)
          /\ Here = P.blocks[Top.blk].code[Top.pos]
      BY <1>1, AtHere
    <2>2. Top.regs \ {Here} \subseteq fr2.regs
      BY <1>6
    <2> HIDE DEF s
    <2> QED
      BY <1>0, <1>6, <1>7, <1>8, <2>1, <2>2, Stepped
  <1> QED
    BY <1>1, <1>5, <1>6, <1>9, Stays, ReplaceOK

\* What the functions main runs call, it runs.
LEMMA EnteredClosed ==
    ASSUME WellFormed(P)
    PROVE  "main" \in Entered /\ \A f \in Entered : f \in DOMAIN P.fns => CalledBy(f) \subseteq Entered
  <1>1. IsFiniteSet(DOMAIN Callees)
    BY DEF Callees, WellFormed
  <1>2. {"main"} \subseteq Entered /\ Closed(Entered, Callees)
    BY <1>1, ReachedClosed DEF Entered
  <1>3. ASSUME NEW f \in Entered, f \in DOMAIN P.fns PROVE CalledBy(f) \subseteq Entered
    BY <1>2, <1>3 DEF Closed, Callees
  <1> QED
    BY <1>2, <1>3

LEMMA StartOK ==
    ASSUME Ready, Start
    PROVE  FramesOK'
  <1> DEFINE fr == Frame(Entry(P, "main"), P.args)
  <1>1. "main" \in Entered /\ "main" \in Bodied(P) /\ P.args \in SUBSET (Ins(P) \cup P.args)
    BY EnteredClosed DEF Ready, Start
  <1>2. fr \in FrameType /\ FrameOK(fr, "none")
    BY <1>1, FrameBegins
  <1>3. frames' = <<fr>> /\ UNCHANGED P /\ UNCHANGED live /\ UNCHANGED retUndef
    BY Stays DEF Start
  <1> HIDE DEF fr
  <1>4. frames' \in Seq(FrameType) /\ Len(frames') = 1 /\ frames'[1] = fr
    BY <1>2, <1>3
  <1>5. FrameOK(frames'[1], "none") /\ \A k \in 1..(1 - 1) : FALSE
    BY <1>2, <1>4
  <1> QED
    BY <1>3, <1>4, <1>5, FramesNext

LEMMA LeaveOK ==
    ASSUME Ready, FramesOK, Leave
    PROVE  FramesOK'
  <1>1. AtEnd /\ Sliced
    BY DEF Leave
  <1>2. PICK b \in P.succ[Top.blk] : Replace([Top EXCEPT !.blk = b, !.pos = 1])
    BY DEF Leave
  <1>3. PICK fr2 : fr2 = [Top EXCEPT !.blk = b, !.pos = 1]
    OBVIOUS
  <1>4. Top \in FrameType /\ FrameOK(Top, "none")
    BY TopIs
  <1>5. Top.pos = Len(P.blocks[Top.blk].code) + 1
    <2>1. Top.pos \in 1..(Len(P.blocks[Top.blk].code) + 1) /\ Top.pos > Len(P.blocks[Top.blk].code)
      BY <1>1, <1>4 DEF FrameOK, AtEnd
    <2>2. Len(P.blocks[Top.blk].code) \in Nat
      BY <1>4, Code DEF FrameType, Ready
    <2> QED
      BY <2>1, <2>2
  <1>6. fr2 \in FrameType /\ FrameOK(fr2, "none") /\ FnOf(fr2) = FnOf(Top)
    BY <1>3, <1>4, <1>5, Left
  <1> QED
    BY <1>1, <1>2, <1>3, <1>6, Stays, ReplaceOK

\* An executed call of a function defined here, or of the runtime to fork one
LEMMA CallIs ==
    ASSUME Ready, FramesOK, ~AtEnd, IsCall(P, Here), NEW f \in DOMAIN P.fns,
           (Defined(Here) /\ f = Callee(P, Here)) \/ f \in Outlined(P, Here)
    PROVE  Same /\ f \in Entered /\ f \in Bodied(P)
  <1> DEFINE x == <<Top.blk, Top.pos>>
  <1>1. /\ Here \in InsOf(P, FnOf(Top)) /\ Here \in Ins(P) /\ FnOf(Top) \in Entered
        /\ x \in Places(P) /\ At(P, x) = Here /\ Top \in FrameType
    BY AtHere
  <1>2. Criterion(P, Here)
    BY DEF Criterion, Defined, Outlined
  <1>3. Here \in live
    BY <1>1, <1>2 DEF Ready, CriteriaKept
  <1>4. Same
    BY <1>3, NoReturn, SameHere DEF IsCall, ReturnOps
  <1>5. FnOf(Top) \in DOMAIN P.fns
    BY <1>1 DEF FrameType, FnOf, Ready, WellFormed
  <1>6. f \in Entered
    <2>1. f \in CalledBy(FnOf(Top))
      BY <1>1 DEF CalledBy
    <2> QED
      BY <1>1, <1>5, <2>1, EnteredClosed DEF Ready
  <1>7. f \in Bodied(P)
    BY <1>1 DEF Ready, Verified, Defined
  <1> QED
    BY <1>4, <1>6, <1>7

LEMMA CallOK ==
    ASSUME Ready, FramesOK, Call
    PROVE  FramesOK'
  <1> DEFINE n == Len(frames)
             G == Front(frames)
             A == Moved(Top.regs, Top.slots)
  <1>1. ~AtEnd /\ Op(P, Here) \in {"call", "invoke"} /\ IsCall(P, Here) /\ Sliced
    BY DEF Call, Active, IsCall
  <1>2. PICK f \in DOMAIN P.fns :
           /\ (Defined(Here) /\ f = Callee(P, Here)) \/ f \in Outlined(P, Here)
           /\ frames' = Append(Append(G, Advanced), Frame(Entry(P, f), IF Same THEN P.args ELSE {}))
    BY DEF Call
  <1>3. Same /\ f \in Entered /\ f \in Bodied(P)
    BY <1>1, <1>2, CallIs
  <1> DEFINE B == Frame(Entry(P, f), P.args)
  <1>4. frames' = Append(Append(G, A), B)
    BY <1>2, <1>3, AdvancedIs
  <1>5. B \in FrameType /\ FrameOK(B, "none") /\ FnOf(B) = f
    BY <1>3, FrameBegins
  <1>6. A \in FrameType /\ A.blk = Top.blk /\ A.pos = Top.pos + 1 /\ A.regs = Top.regs /\ A.slots = Top.slots
    BY <1>1, MovedType, TopFields
  <1> HIDE DEF A, B
  <1>7. /\ Top \in FrameType /\ FrameOK(Top, "none") /\ Top.pos \in 1..Len(P.blocks[Top.blk].code)
        /\ Here = P.blocks[Top.blk].code[Top.pos] /\ Here \in Ins(P)
    BY <1>1, AtHere
  <1>8. FrameOK(A, Here) /\ FnOf(A) = FnOf(Top)
    <2>1. \A v \in InsOf(P, FnOf(Top)) : Op(P, v) = "alloca" =>
             v \in A.slots \/ (v \notin Top.slots /\ ~Rewrites(P, Here, v))
      BY <1>1, <1>6 DEF Rewrites
    <2>2. Top.regs \ {Here} \subseteq A.regs
      BY <1>6
    <2> QED
      BY <1>6, <1>7, <2>1, <2>2, Stepped
  <1>9. CalledAt(A) = Here /\ A.pos > 1
    <2>1. PICK m \in Nat : m = Top.pos /\ m > 0
      BY <1>7 DEF FrameType
    <2>2. A.pos - 1 = m /\ A.pos > 1
      BY <1>6, <2>1
    <2> QED
      BY <1>6, <1>7, <2>1, <2>2 DEF CalledAt
  <1>10. Waits(A, B)
    BY <1>1, <1>2, <1>5, <1>9 DEF Waits
  <1>11. /\ n \in Nat \ {0} /\ G \in Seq(FrameType) /\ Len(G) = n - 1
         /\ \A k \in 1..(n - 1) : G[k] = frames[k]
         /\ Top = frames[n]
    BY TopIs
  <1>12. \A k \in 1..(n - 1) : FrameOK(frames[k], CalledAt(frames[k])) /\ Waits(frames[k], frames[k + 1])
    BY DEF FramesOK
  <1> HIDE DEF n, G
  <1>13. /\ frames' \in Seq(FrameType) /\ Len(frames') = n + 1
         /\ frames'[n] = A /\ frames'[n + 1] = B
         /\ \A k \in 1..(n - 1) : frames'[k] = frames[k]
    <2>1. PICK T : T = FrameType
      OBVIOUS
    <2> QED
      BY <1>4, <1>5, <1>6, <1>11, <2>1
  <1>14. ASSUME NEW k \in 1..((n + 1) - 1)
         PROVE  FrameOK(frames'[k], CalledAt(frames'[k])) /\ Waits(frames'[k], frames'[k + 1])
    <2>1. CASE k = n
      BY <1>8, <1>9, <1>10, <1>13, <2>1
    <2>2. CASE k = n - 1
      <3>1. k \in 1..(n - 1) /\ k + 1 = n
        BY <1>11, <1>14, <2>2
      <3>2. frames'[k] = frames[k] /\ FrameOK(frames[k], CalledAt(frames[k])) /\ Waits(frames[k], Top)
        BY <1>11, <1>12, <1>13, <3>1
      <3>3. Waits(frames[k], A)
        BY <1>8, <3>2 DEF Waits
      <3> QED
        BY <1>13, <3>1, <3>2, <3>3
    <2>3. CASE k # n /\ k # n - 1
      <3>1. k \in 1..(n - 1) /\ k + 1 \in 1..(n - 1)
        BY <1>11, <1>14, <2>3
      <3> QED
        BY <1>12, <1>13, <3>1
    <2> QED
      BY <2>1, <2>2, <2>3
  <1>15. FrameOK(frames'[n + 1], "none") /\ n + 1 \in Nat \ {0}
    BY <1>5, <1>11, <1>13
  <1> QED
    BY <1>1, <1>13, <1>14, <1>15, Stays, FramesNext

LEMMA FramesStay ==
    ASSUME FramesOK, UNCHANGED P, UNCHANGED live, UNCHANGED retUndef, UNCHANGED frames
    PROVE  FramesOK'
  <1>1. Len(frames) \in Nat \ {0} /\ frames \in Seq(FrameType)
    BY TopIs DEF FramesOK
  <1>2. FrameOK(frames[Len(frames)], "none")
        /\ \A k \in 1..(Len(frames) - 1) : FrameOK(frames[k], CalledAt(frames[k])) /\ Waits(frames[k], frames[k + 1])
    BY DEF FramesOK
  <1>3. PICK n, s : n = Len(frames) /\ s = frames
    OBVIOUS
  <1>4. frames' = s
    BY <1>3
  <1> QED
    BY <1>1, <1>2, <1>3, <1>4, FramesNext

\* An activation that goes on with the result it waited for
LEMMA Resumed ==
    ASSUME Ready, NEW fr \in FrameType, NEW e, FrameOK(fr, e), NEW r, fr.regs \ {e} \subseteq r,
           r \in SUBSET (Ins(P) \cup P.args), e \in Ins(P),
           e \in Results(FnOf(fr)) => e \in r, NEW fr2, fr2 = [fr EXCEPT !.regs = r]
    PROVE  fr2 \in FrameType /\ FrameOK(fr2, "none") /\ FnOf(fr2) = FnOf(fr)
  <1>1. fr2 \in FrameType /\ fr2.blk = fr.blk /\ fr2.pos = fr.pos /\ fr2.regs = r /\ fr2.slots = fr.slots
    BY DEF FrameType
  <1>2. FnOf(fr2) = FnOf(fr) /\ Ahead(fr2) = Ahead(fr)
    BY <1>1 DEF FnOf, Ahead
  <1>3. \A v : Stale(fr2, v) <=> Stale(fr, v)
    BY <1>2 DEF Stale
  <1>4. P.args \subseteq r
    BY DEF FrameOK, Ready, Verified
  <1>5. \A v \in Results(FnOf(fr)) : v \in r \/ Ahead(fr) \subseteq Without(P, FnOf(fr), v)
    BY DEF FrameOK
  <1>6. FrameOK(fr2, "none")
    BY <1>1, <1>2, <1>3, <1>4, <1>5 DEF FrameOK
  <1> QED
    BY <1>1, <1>2, <1>6

\* What a caller of the slice uses, its callee returns.
LEMMA ReturnIs ==
    ASSUME Ready, FramesOK, ~AtEnd, Op(P, Here) \in ReturnOps,
           NEW caller \in FrameType, Waits(caller, Top), NEW e, e = CalledAt(caller), e \in Ins(P),
           e \in Results(FnOf(caller))
    PROVE  e \in Kept(P) /\ Same /\ P.blocks[Top.blk].fn \notin retUndef
  <1> DEFINE g == FnOf(Top)
             x == <<Top.blk, Top.pos>>
  <1>1. /\ Here \in InsOf(P, g) /\ Here \in Ins(P) /\ g \in Entered
        /\ x \in Places(P) /\ At(P, x) = Here /\ P.blocks[x[1]].fn = g
    BY AtHere DEF FnOf
  <1>2. g = Callee(P, e)
    <2>1. Outlined(P, e) = {}
      BY DEF Results, Ready, Verified
    <2> QED
      BY <2>1 DEF Waits
  <1>3. g \notin retUndef
    BY <1>2 DEF Results, Lost, Waits
  <1>4. Here \in live
    BY <1>1 DEF Returns, Ready, ReturnsDecided, AllDecided
  <1>5. ~Replaced(P, Here, retUndef)
    <2> SUFFICES ASSUME NEW f \in retUndef, Here \in Returns(P, f) PROVE FALSE
      BY DEF Replaced
    <2>1. f = g
      BY <1>1, OneFunction DEF Returns, Ready
    <2> QED
      BY <1>3, <2>1
  <1>6. Same
    BY <1>4, <1>5, SameHere DEF ReturnOps
  <1>7. e \in Kept(P)
    BY DEF Results, Kept
  <1> QED
    BY <1>3, <1>6, <1>7 DEF FnOf

LEMMA CallSite ==
    ASSUME Ready, NEW fr \in FrameType, NEW e, FrameOK(fr, e), fr.pos > 1
    PROVE  CalledAt(fr) \in Ins(P)
  <1>1. fr.blk \in DOMAIN P.blocks /\ fr.pos \in 1..(Len(P.blocks[fr.blk].code) + 1)
    BY DEF FrameType, FrameOK
  <1>2. Len(P.blocks[fr.blk].code) \in Nat
    BY <1>1, Code DEF Ready
  <1>3. PICK m : m = fr.pos - 1 /\ m \in 1..Len(P.blocks[fr.blk].code)
    BY <1>1, <1>2
  <1>4. DOMAIN P.blocks[fr.blk].code = 1..Len(P.blocks[fr.blk].code)
    BY <1>1, Code DEF Ready
  <1>5. <<fr.blk, m>> \in Places(P)
    BY <1>1, <1>3, <1>4 DEF Places
  <1>6. At(P, <<fr.blk, m>>) = CalledAt(fr)
    BY <1>3 DEF At, CalledAt
  <1> QED
    BY <1>5, <1>6, PlacesType DEF Ready

LEMMA ReturnOK ==
    ASSUME Ready, FramesOK, Return
    PROVE  FramesOK'
  <1>1. ~AtEnd /\ Op(P, Here) \in ReturnOps /\ Sliced
    BY DEF Return, Active
  <1>2. CASE Len(frames) = 1
    BY <1>1, <1>2, Stays, FramesStay DEF Return
  <1>3. CASE Len(frames) # 1
    <2> DEFINE n == Len(frames)
               G == Front(frames)
    <2>1. /\ n \in Nat \ {0} /\ G \in Seq(FrameType) /\ Len(G) = n - 1
          /\ \A k \in 1..(n - 1) : G[k] = frames[k]
          /\ Top = frames[n] /\ \A k \in 1..n : frames[k] \in FrameType
      BY TopIs
    <2>2. \A k \in 1..(n - 1) : FrameOK(frames[k], CalledAt(frames[k])) /\ Waits(frames[k], frames[k + 1])
      BY DEF FramesOK
    <2> DEFINE caller == frames[n - 1]
               e == P.blocks[caller.blk].code[caller.pos - 1]
               g == e \in Kept(P) /\ Same /\ P.blocks[Top.blk].fn \notin retUndef
    <2>3. /\ caller = frames[n - 1] /\ e = P.blocks[caller.blk].code[caller.pos - 1]
          /\ g = (e \in Kept(P) /\ Same /\ P.blocks[Top.blk].fn \notin retUndef)
      OBVIOUS
    <2>4. frames' = Append(Front(G), [caller EXCEPT !.regs = Put(@, e, g)])
      BY <1>3, <2>3 DEF Return
    <2> HIDE DEF n, G, caller, e, g
    <2>5. PICK m : m = n - 1 /\ m \in Nat \ {0} /\ n = m + 1
      BY <1>3, <2>1 DEF n
    <2>6. /\ caller \in FrameType /\ FrameOK(caller, CalledAt(caller)) /\ Waits(caller, Top)
          /\ e = CalledAt(caller) /\ caller = frames[m]
      <3>1. m \in 1..(n - 1) /\ m \in 1..n /\ m + 1 = n
        BY <2>5
      <3> QED
        BY <2>1, <2>2, <2>3, <2>5, <3>1 DEF CalledAt
    <2>7. e \in Ins(P)
      BY <2>6, CallSite DEF Waits
    <2>8. e \in Results(FnOf(caller)) => g
      BY <1>1, <2>3, <2>6, <2>7, ReturnIs
    <2>9. PICK r : r = Put(caller.regs, e, g)
      OBVIOUS
    <2>10. /\ caller.regs \ {e} \subseteq r /\ r \subseteq caller.regs \cup {e} /\ (g => e \in r)
      BY <2>9 DEF Put
    <2>11. caller.regs \subseteq Ins(P) \cup P.args
      BY <2>6 DEF FrameType
    <2>12. PICK fr2 : fr2 = [caller EXCEPT !.regs = r]
      OBVIOUS
    <2>13. [caller EXCEPT !.regs = Put(@, e, g)] = fr2
      BY <2>6, <2>9, <2>12 DEF FrameType
    <2>14. fr2 \in FrameType /\ FrameOK(fr2, "none") /\ FnOf(fr2) = FnOf(caller)
      BY <2>6, <2>7, <2>8, <2>10, <2>11, <2>12, Resumed
    <2>15. G # <<>> /\ Len(G) = m
      BY <2>1, <2>5
    <2>16. PICK H : /\ H = Front(G) /\ H \in Seq(FrameType) /\ Len(H) = m - 1
                    /\ \A k \in 1..(m - 1) : H[k] = G[k]
      <3>1. Front(G) = SubSeq(G, 1, Len(G) - 1)
        BY DEF Front
      <3> HIDE DEF FrameType
      <3> QED
        BY <2>1, <2>15, <3>1, FrontOf
    <2>17. frames' = Append(H, fr2)
      BY <2>4, <2>13, <2>16
    <2>18. /\ frames' \in Seq(FrameType) /\ Len(frames') = m /\ frames'[m] = fr2
           /\ \A k \in 1..(m - 1) : frames'[k] = frames[k]
      <3>1. \A k \in 1..(m - 1) : H[k] = frames[k]
        BY <2>1, <2>5, <2>16
      <3>2. PICK T : T = FrameType
        OBVIOUS
      <3> QED
        BY <2>5, <2>14, <2>16, <2>17, <3>1, <3>2
    <2>19. ASSUME NEW k \in 1..(m - 1)
           PROVE  FrameOK(frames'[k], CalledAt(frames'[k])) /\ Waits(frames'[k], frames'[k + 1])
      <3>1. FrameOK(frames'[k], CalledAt(frames'[k])) /\ Waits(frames'[k], frames[k + 1])
        <4>1. k \in 1..(n - 1)
          BY <2>5, <2>19
        <4> QED
          BY <2>2, <2>18, <4>1
      <3>2. CASE k + 1 \in 1..(m - 1)
        BY <2>18, <3>1, <3>2
      <3>3. CASE k + 1 = m
        BY <2>6, <2>14, <2>18, <3>1, <3>3 DEF Waits
      <3> QED
        BY <2>5, <3>2, <3>3
    <2> QED
      BY <1>1, <2>5, <2>14, <2>18, <2>19, Stays, FramesNext
  <1> QED
    BY <1>2, <1>3

\* Whatever the program does next, the slice goes along.
LEMMA ActivationsStep ==
    ASSUME Ready, running # "no" => FramesOK,
           Start \/ Allocate \/ Load \/ Store \/ Compute \/ Call \/ Return \/ Leave
    PROVE  FramesOK' /\ Sliced
  <1>1. running # "no" \/ Start
    BY DEF Allocate, Load, Store, Compute, Call, Return, Leave, Active
  <1>2. Sliced
    BY DEF Start, Allocate, Load, Store, Compute, Call, Return, Leave
  <1> QED
    BY <1>1, <1>2, StartOK, AllocateOK, LoadOK, StoreOK, ComputeOK, CallOK, ReturnOK, LeaveOK

\* In a program without globals, a branch or an I/O or library call of the
\* slice finds its operands.
LEMMA ReadyAgrees ==
    ASSUME Ready, FramesOK, Decides
    PROVE  Same
  <1>1. ~AtEnd /\ (Op(P, Here) \in ControlOps \/ Criterion(P, Here))
    BY DEF Decides
  <1> DEFINE x == <<Top.blk, Top.pos>>
  <1>2. x \in Places(P) /\ At(P, x) = Here /\ Top.blk \in DOMAIN P.blocks /\ Here \in Ins(P)
    BY <1>1, AtHere DEF FrameType
  <1>3. Here \in live
    <2>1. CASE Criterion(P, Here)
      BY <1>2, <2>1 DEF Ready, CriteriaKept
    <2>2. CASE Op(P, Here) \in ControlOps
      <3>1. x[2] = Len(P.blocks[x[1]].code)
        BY <1>2, <2>2 DEF Ready, Verified
      <3>2. Terminator(P, Top.blk) = Here
        BY <1>2, <3>1 DEF Terminator, At
      <3> QED
        BY <1>2, <2>2, <3>2 DEF Ready, CriteriaKept, Kept, ControlOps, ReturnOps
    <2> QED
      BY <1>1, <2>1, <2>2
  <1>4. Op(P, Here) \notin ReturnOps /\ Op(P, Here) # "store"
    BY <1>1 DEF Criterion, IsCall, ControlOps, ReturnOps
  <1> QED
    BY <1>1, <1>3, <1>4, NoReturn, SameHere

-----------------------------------------------------------------------------
(* What ReachingDefinitions finds is what comes to a load.                 *)

RD == INSTANCE ReachingDefProofs WITH
    Functions <- UNION {{IR(p, f) : f \in Bodied(p)} : p \in Programs}, pc <- analysing

\* Function f has the K blocks from a on.
Lies(p, f, a, K) ==
    /\ a \in 1..Len(p.blocks) /\ K \in Nat \ {0}
    /\ BlocksOf(p, f) = [n \in 1..K |-> a + (n - 1)] /\ Entry(p, f) = a
    /\ a + K \in 1..(Len(p.blocks) + 1)
    /\ \A b \in DOMAIN p.blocks : p.blocks[b].fn = f <=> b \in a..(a + K - 1)

LEMMA Lying ==
    ASSUME NEW p, WellFormed(p), Verified(p), NEW f \in Bodied(p)
    PROVE  \E a, K : Lies(p, f, a, K)
  <1> DEFINE own   == {b \in DOMAIN p.blocks : p.blocks[b].fn = f}
             first == CHOOSE b \in own : \A c \in own : b <= c
  <1>1. PICK N \in Nat : N = Len(p.blocks) /\ DOMAIN p.blocks = 1..N
    BY Code DEF Bodied
  <1>2. own \in SUBSET (1..N) /\ own # {}
    BY <1>1 DEF Bodied
  <1>3. \A b, c \in own : \A d \in b..c : d \in own
    <2> SUFFICES ASSUME NEW b \in own, NEW c \in own, NEW d \in b..c PROVE d \in own
      OBVIOUS
    <2>1. d \in 1..N
      BY <1>2
    <2>2. p.blocks[d].fn = p.blocks[b].fn
      BY DEF Verified
    <2> QED
      BY <1>1, <2>1, <2>2
  <1>4. BlocksOf(p, f) = [n \in 1..Cardinality(own) |-> first + (n - 1)]
    BY DEF BlocksOf
  <1>5. \A b \in DOMAIN p.blocks : p.blocks[b].fn = f <=> b \in own
    OBVIOUS
  <1> HIDE DEF own
  <1>6. \E b \in own : \A c \in own : b <= c
    BY <1>2, Least
  <1>7. first \in own /\ \A c \in own : first <= c
    BY <1>6
  <1>8. PICK a : a = first
    OBVIOUS
  <1>9. PICK z \in own : \A c \in own : c <= z
    <2> DEFINE U == {u \in Nat : \A c \in own : c <= u}
    <2>1. N \in U
      BY <1>2
    <2>2. PICK z \in U : \A u \in U : z <= u
      <3>1. U \in SUBSET Nat /\ U # {}
        BY <2>1
      <3> HIDE DEF U
      <3> QED
        BY <3>1, Least
    <2>3. z \in own
      <3> SUFFICES ASSUME z \notin own PROVE FALSE
        OBVIOUS
      <3>1. \A c \in own : c \in Nat /\ c # 0 /\ c <= z /\ c # z
        BY <1>2, <2>2
      <3>2. z # 0
        BY <1>7, <3>1
      <3>3. z - 1 \in U
        BY <2>2, <3>1, <3>2
      <3> QED
        BY <2>2, <3>3
    <2> QED
      BY <2>2, <2>3
  <1>10. a \in 1..N /\ z \in 1..N /\ a <= z
    BY <1>2, <1>7, <1>8, <1>9
  <1>11. own = a..z
    <2>1. a \in own /\ z \in own
      BY <1>7, <1>8
    <2>2. a..z \subseteq own
      BY <1>3, <2>1
    <2>3. ASSUME NEW c \in own PROVE c \in a..z
      <3>1. a <= c /\ c <= z /\ c \in 1..N
        BY <1>2, <1>7, <1>8, <1>9, <2>3
      <3> QED
        BY <1>10, <3>1
    <2> QED
      BY <2>2, <2>3
  <1>12. PICK K : K = z - a + 1 /\ K \in Nat \ {0} /\ a + K = z + 1
    BY <1>10
  <1>13. Cardinality(own) = K
    <2>1. a \in Int /\ z \in Int /\ ~(a > z)
      BY <1>10
    <2> QED
      BY <1>11, <1>12, <2>1, FS_Interval
  <1>14. BlocksOf(p, f) = [n \in 1..K |-> a + (n - 1)]
    BY <1>4, <1>8, <1>13
  <1>15. Entry(p, f) = a
    <2>1. 1 \in 1..K /\ a + (1 - 1) = a
      BY <1>10, <1>12
    <2> QED
      BY <1>14, <2>1 DEF Entry
  <1>16. a..(a + K - 1) = own
    BY <1>10, <1>11, <1>12
  <1>17. Lies(p, f, a, K)
    BY <1>1, <1>5, <1>10, <1>12, <1>14, <1>15, <1>16 DEF Lies
  <1> QED
    BY <1>17

\* The place of an instruction in the function as the analysis sees it
Seen(a, x) == <<x[1] - a + 1, x[2]>>

LEMMA SeenIn ==
    ASSUME NEW p, WellFormed(p), Verified(p), NEW f \in Bodied(p), NEW a, NEW K, Lies(p, f, a, K)
    PROVE  /\ \A x \in Places(p) : p.blocks[x[1]].fn = f =>
                 /\ Seen(a, x) \in RD!Instrs(IR(p, f)) /\ Seen(a, x)[1] # 0
                 /\ RD!At(IR(p, f), Seen(a, x)) =
                       [op |-> p.def[At(p, x)],
                        var |-> IF p.def[At(p, x)] = "store" THEN p.ins[At(p, x)].ptr ELSE At(p, x)]
                 /\ Named(p, f, Seen(a, x)) = At(p, x)
                 /\ \A y \in Onto(p, x) : p.blocks[y[1]].fn = f /\ y \in Places(p)
                                            /\ Seen(a, y) \in RD!InstrSucc(IR(p, f), Seen(a, x))
           /\ \A i \in RD!Instrs(IR(p, f)) : \E x \in Places(p) : p.blocks[x[1]].fn = f /\ Seen(a, x) = i
  <1> DEFINE bs == BlocksOf(p, f)
             ir == IR(p, f)
             SeenAs(v) == [op |-> p.def[v], var |-> IF p.def[v] = "store" THEN p.ins[v].ptr ELSE v]
             code == [n \in DOMAIN bs |-> [k \in DOMAIN p.blocks[bs[n]].code |-> SeenAs(p.blocks[bs[n]].code[k])]]
             succ == [n \in DOMAIN bs |-> {m \in DOMAIN bs : bs[m] \in p.succ[bs[n]]}]
  <1>1. /\ a \in 1..Len(p.blocks) /\ K \in Nat \ {0}
        /\ bs = [n \in 1..K |-> a + (n - 1)] /\ a + K \in 1..(Len(p.blocks) + 1)
        /\ \A b \in DOMAIN p.blocks : p.blocks[b].fn = f <=> b \in a..(a + K - 1)
    BY DEF Lies
  <1>2. PICK N \in Nat : N = Len(p.blocks) /\ DOMAIN p.blocks = 1..N
    BY Code DEF Bodied
  <1>3. ir = [args |-> p.params[f], code |-> code, succ |-> succ]
    BY DEF IR
  <1>4. ir.code = code /\ ir.succ = succ /\ bs = BlocksOf(p, f)
    BY <1>3
  <1> DEFINE CodeOf(n) == [k \in DOMAIN p.blocks[bs[n]].code |-> SeenAs(p.blocks[bs[n]].code[k])]
             Succ(n) == {m \in DOMAIN bs : bs[m] \in p.succ[bs[n]]}
  <1>5. /\ DOMAIN bs = 1..K /\ DOMAIN code = DOMAIN bs
        /\ \A n \in DOMAIN bs : code[n] = CodeOf(n) /\ succ[n] = Succ(n)
    <2>1. DOMAIN bs = 1..K
      <3>1. PICK T : T = 1..K
        OBVIOUS
      <3>2. bs = [n \in T |-> a + (n - 1)] /\ DOMAIN bs = T
        BY <1>1, <3>1
      <3> QED
        BY <3>1, <3>2
    <2> HIDE DEF bs, SeenAs
    <2> QED
      BY <2>1
  <1>6. \A n \in 1..K : bs[n] = a + (n - 1)
    BY <1>1
  <1> HIDE DEF bs, ir, code, succ
  <1>7. code \in Seq(Seq([op : {"store", "value", "phi", "void"}, var : Vars]))
    <2>1. Reaching!WellFormed(ir)
      <3>1. Reaching!WellFormed(IR(p, f))
        BY DEF Verified
      <3> QED
        BY <3>1 DEF ir
    <2> QED
      BY <1>4, <2>1 DEF Reaching!WellFormed
  <1>8. Len(code) = K
    <2>1. DOMAIN code = 1..Len(code) /\ Len(code) \in Nat
      BY <1>7
    <2> QED
      BY <1>1, <1>5, <2>1
  <1> HIDE DEF SeenAs
  <1>9. \A n \in 1..K : /\ bs[n] \in DOMAIN p.blocks /\ p.blocks[bs[n]].fn = f
                        /\ \A k \in DOMAIN p.blocks[bs[n]].code : code[n][k] = SeenAs(p.blocks[bs[n]].code[k])
                        /\ DOMAIN code[n] = 1..Len(p.blocks[bs[n]].code)
                        /\ Len(code[n]) = Len(p.blocks[bs[n]].code)
                        /\ succ[n] = {m \in 1..K : bs[m] \in p.succ[bs[n]]}
    <2> SUFFICES ASSUME NEW n \in 1..K
                 PROVE  /\ bs[n] \in DOMAIN p.blocks /\ p.blocks[bs[n]].fn = f
                        /\ \A k \in DOMAIN p.blocks[bs[n]].code : code[n][k] = SeenAs(p.blocks[bs[n]].code[k])
                        /\ DOMAIN code[n] = 1..Len(p.blocks[bs[n]].code)
                        /\ Len(code[n]) = Len(p.blocks[bs[n]].code)
                        /\ succ[n] = {m \in 1..K : bs[m] \in p.succ[bs[n]]}
      OBVIOUS
    <2>1. bs[n] \in 1..N /\ bs[n] \in a..(a + K - 1)
      BY <1>1, <1>2, <1>6
    <2>2. bs[n] \in DOMAIN p.blocks /\ p.blocks[bs[n]].fn = f
      BY <1>1, <1>2, <2>1
    <2>3. PICK own : own = p.blocks[bs[n]].code
      OBVIOUS
    <2>4. PICK l \in Nat : l = Len(own) /\ DOMAIN own = 1..l
      BY <2>2, <2>3, Code
    <2>5. code[n] = [k \in DOMAIN own |-> SeenAs(own[k])]
      BY <1>5, <2>3
    <2>6. PICK c : c = code[n]
      OBVIOUS
    <2>7. PICK m \in Nat : DOMAIN c = 1..m /\ Len(c) = m
      <3>1. PICK T : T = [op : {"store", "value", "phi", "void"}, var : Vars]
        OBVIOUS
      <3>2. code \in Seq(Seq(T)) /\ n \in DOMAIN code
        BY <1>5, <1>7, <3>1
      <3>3. code[n] \in Seq(T)
        BY <3>2, Element
      <3> QED
        BY <2>6, <3>3
    <2>8. DOMAIN c = 1..l /\ \A k \in 1..l : c[k] = SeenAs(own[k])
      BY <2>4, <2>5, <2>6
    <2>9. m = l
      <3>1. (m # 0 => m \in 1..l) /\ (l # 0 => l \in 1..m)
        BY <2>7, <2>8
      <3> QED
        BY <3>1
    <2>10. succ[n] = {b \in 1..K : bs[b] \in p.succ[bs[n]]}
      BY <1>5
    <2>11. DOMAIN own = 1..l /\ Len(own) = l /\ DOMAIN code[n] = 1..l /\ Len(code[n]) = l
      BY <2>4, <2>6, <2>7, <2>8, <2>9
    <2>12. /\ \A k \in DOMAIN p.blocks[bs[n]].code : code[n][k] = SeenAs(p.blocks[bs[n]].code[k])
           /\ DOMAIN code[n] = 1..Len(p.blocks[bs[n]].code)
           /\ Len(code[n]) = Len(p.blocks[bs[n]].code)
      BY <2>3, <2>6, <2>8, <2>11
    <2> QED
      BY <2>2, <2>10, <2>12
  <1>20. RD!Instrs(ir) = UNION {{n} \X DOMAIN code[n] : n \in 1..K}
    <2>1. RD!Blocks(ir) = 1..K
      BY <1>4, <1>5 DEF RD!Blocks
    <2> QED
      BY <1>4, <2>1 DEF RD!Instrs
  <1>21. \A i : RD!At(ir, i) = code[i[1]][i[2]]
    BY <1>4 DEF RD!At
  <1>22. \A i : RD!InstrSucc(ir, i) = IF i[2] < Len(code[i[1]]) THEN {<<i[1], i[2] + 1>>}
                                     ELSE {<<m, 1>> : m \in succ[i[1]]}
    BY <1>4 DEF RD!InstrSucc
  <1>10. ASSUME NEW b \in DOMAIN p.blocks, p.blocks[b].fn = f
         PROVE  \E n \in 1..K : n = b - a + 1 /\ bs[n] = b
    <2>1. b \in a..(a + K - 1)
      BY <1>1, <1>10
    <2>2. b - a + 1 \in 1..K /\ a + ((b - a + 1) - 1) = b
      BY <1>1, <2>1
    <2> QED
      BY <1>6, <1>9, <2>2
  <1>11. ASSUME NEW x \in Places(p), p.blocks[x[1]].fn = f
         PROVE  \E n \in 1..K : \E k \in DOMAIN p.blocks[x[1]].code :
                   /\ n = x[1] - a + 1 /\ bs[n] = x[1] /\ x = <<x[1], k>> /\ Seen(a, x) = <<n, k>> /\ x[2] = k
                   /\ k \in 1..Len(p.blocks[x[1]].code)
    <2>1. x = <<x[1], x[2]>> /\ x[1] \in DOMAIN p.blocks /\ x[2] \in DOMAIN p.blocks[x[1]].code
          /\ x[2] \in 1..Len(p.blocks[x[1]].code)
      BY PlacesType
    <2>2. PICK n \in 1..K : n = x[1] - a + 1 /\ bs[n] = x[1]
      BY <1>10, <1>11, <2>1
    <2> QED
      BY <2>1, <2>2 DEF Seen
  <1>12. ASSUME NEW x \in Places(p), p.blocks[x[1]].fn = f
         PROVE  /\ Seen(a, x) \in RD!Instrs(ir) /\ Seen(a, x)[1] # 0
                /\ RD!At(ir, Seen(a, x)) = SeenAs(At(p, x))
                /\ Named(p, f, Seen(a, x)) = At(p, x)
                /\ \A y \in Onto(p, x) : p.blocks[y[1]].fn = f /\ y \in Places(p)
                                           /\ Seen(a, y) \in RD!InstrSucc(ir, Seen(a, x))
    <2>1. PICK n \in 1..K : \E k \in DOMAIN p.blocks[x[1]].code :
                   /\ n = x[1] - a + 1 /\ bs[n] = x[1] /\ x = <<x[1], k>> /\ Seen(a, x) = <<n, k>> /\ x[2] = k
                   /\ k \in 1..Len(p.blocks[x[1]].code)
      BY <1>11, <1>12
    <2>2. PICK k \in DOMAIN p.blocks[x[1]].code :
                   /\ n = x[1] - a + 1 /\ bs[n] = x[1] /\ x = <<x[1], k>> /\ Seen(a, x) = <<n, k>> /\ x[2] = k
                   /\ k \in 1..Len(p.blocks[x[1]].code)
      BY <2>1
    <2>3. k \in DOMAIN code[n] /\ n # 0
      <3>1. DOMAIN code[n] = 1..Len(p.blocks[bs[n]].code)
        BY <1>6, <1>9
      <3>2. k \in 1..Len(p.blocks[bs[n]].code)
        BY <2>2
      <3> QED
        BY <1>1, <3>1, <3>2
    <2>4. Seen(a, x) \in RD!Instrs(ir)
      BY <1>20, <2>2, <2>3
    <2>5. code[n][k] = SeenAs(p.blocks[bs[n]].code[k])
      BY <1>6, <1>9, <2>2
    <2>6. At(p, x) = p.blocks[x[1]].code[k]
      BY <2>2 DEF At
    <2>7. RD!At(ir, Seen(a, x)) = SeenAs(At(p, x))
      BY <1>21, <2>2, <2>5, <2>6
    <2>8. Named(p, f, Seen(a, x)) = At(p, x)
      BY <1>4, <2>2, <2>3, <2>6 DEF Named
    <2>9. x[1] \in DOMAIN p.blocks /\ Len(p.blocks[x[1]].code) \in Nat
      BY PlacesType, Code
    <2>10. CASE k < Len(p.blocks[x[1]].code)
      <3>1. Onto(p, x) = {<<x[1], k + 1>>}
        BY <2>2, <2>10 DEF Onto
      <3>2. k + 1 \in 1..Len(p.blocks[x[1]].code) /\ DOMAIN p.blocks[x[1]].code = 1..Len(p.blocks[x[1]].code)
        BY <2>2, <2>9, <2>10, Code
      <3>3. <<x[1], k + 1>> \in Places(p)
        BY <2>9, <3>2 DEF Places
      <3>4. Seen(a, <<x[1], k + 1>>) = <<n, k + 1>>
        BY <2>2 DEF Seen
      <3>5. RD!InstrSucc(ir, <<n, k>>) = {<<n, k + 1>>}
        <4>1. k < Len(code[n])
          BY <1>6, <1>9, <2>2, <2>10
        <4> QED
          BY <1>22, <4>1
      <3> QED
        BY <1>12, <2>2, <2>3, <2>4, <2>7, <2>8, <3>1, <3>3, <3>4, <3>5
    <2>11. CASE ~(k < Len(p.blocks[x[1]].code))
      <3>1. Onto(p, x) = {<<b, 1>> : b \in p.succ[x[1]]}
        BY <2>2, <2>11 DEF Onto
      <3>2. RD!InstrSucc(ir, <<n, k>>) = {<<m, 1>> : m \in succ[n]}
        <4>1. ~(k < Len(code[n]))
          BY <1>6, <1>9, <2>2, <2>11
        <4> QED
          BY <1>22, <4>1
      <3>3. ASSUME NEW b \in p.succ[x[1]]
            PROVE  /\ p.blocks[b].fn = f /\ <<b, 1>> \in Places(p)
                   /\ Seen(a, <<b, 1>>) \in RD!InstrSucc(ir, <<n, k>>)
        <4>1. b \in DOMAIN p.blocks /\ p.blocks[b].fn = f
          BY <1>12, <2>9 DEF Verified
        <4>2. <<b, 1>> \in Places(p)
          BY <4>1, Code DEF Places
        <4>3. PICK m \in 1..K : m = b - a + 1 /\ bs[m] = b
          BY <1>10, <4>1
        <4>4. m \in succ[n]
          <5>1. succ[n] = {l \in 1..K : bs[l] \in p.succ[bs[n]]}
            BY <1>6, <1>9
          <5>2. bs[n] = x[1] /\ bs[m] = b /\ b \in p.succ[x[1]]
            BY <2>2, <4>3
          <5> QED
            BY <5>1, <5>2
        <4>5. Seen(a, <<b, 1>>) = <<m, 1>>
          BY <4>3 DEF Seen
        <4> QED
          BY <3>2, <4>1, <4>2, <4>4, <4>5
      <3>4. \A y \in Onto(p, x) : p.blocks[y[1]].fn = f /\ y \in Places(p)
                                           /\ Seen(a, y) \in RD!InstrSucc(ir, Seen(a, x))
        BY <2>2, <3>1, <3>3
      <3> QED
        BY <2>2, <2>3, <2>4, <2>7, <2>8, <3>4
    <2> QED
      BY <2>10, <2>11
  <1>13. ASSUME NEW i \in RD!Instrs(ir)
         PROVE  \E x \in Places(p) : p.blocks[x[1]].fn = f /\ Seen(a, x) = i
    <2>1. PICK n \in 1..K : i \in {n} \X DOMAIN code[n]
      BY <1>20
    <2>2. PICK k \in DOMAIN code[n] : i = <<n, k>>
      BY <2>1
    <2>3. bs[n] = a + (n - 1) /\ bs[n] \in DOMAIN p.blocks /\ p.blocks[bs[n]].fn = f
          /\ k \in 1..Len(p.blocks[bs[n]].code)
      BY <1>6, <1>9, <2>2
    <2>4. <<bs[n], k>> \in Places(p)
      BY <2>3, Code DEF Places
    <2>5. bs[n] - a + 1 = n
      BY <1>1, <2>3
    <2>6. Seen(a, <<bs[n], k>>) = i
      BY <2>2, <2>5 DEF Seen
    <2>7. <<bs[n], k>>[1] = bs[n]
      OBVIOUS
    <2> QED
      BY <2>3, <2>4, <2>6, <2>7
  <1> QED
    BY <1>12, <1>13 DEF ir, SeenAs

AllIR == UNION {{IR(p, f) : f \in Bodied(p)} : p \in Programs}

LEMMA IRsWellFormed == \A f \in AllIR : RD!WellFormed(f)
  <1>1. \A p \in Programs : \A f \in Bodied(p) : Reaching!WellFormed(IR(p, f))
    BY ProgramsVerified DEF Verified
  <1>2. \A f \in AllIR : Reaching!WellFormed(f)
    BY <1>1 DEF AllIR
  <1> QED
    BY <1>2 DEF Reaching!WellFormed, RD!WellFormed, Reaching!Blocks, RD!Blocks

\* A store's value goes where the analysis lets the definition go.
LEMMA ComesWalks ==
    ASSUME WellFormed(P), Verified(P), NEW f \in Bodied(P), IR(P, f) \in AllIR, NEW a, NEW K, Lies(P, f, a, K),
           NEW x \in Places(P), P.blocks[x[1]].fn = f,
           NEW s \in Ins(P), Op(P, s) = "store", Comes(P, s, x)
    PROVE  \E y \in Places(P) : /\ P.blocks[y[1]].fn = f /\ At(P, y) = s
                                /\ Seen(a, y) \in RD!Defs(IR(P, f))
                                /\ Seen(a, x) \in RD!Walks(IR(P, f), Seen(a, y))
  <1> DEFINE ir == IR(P, f)
             v  == P.ins[s].ptr
             Of == {y \in Places(P) : P.blocks[y[1]].fn = f}
  <1>1. /\ \A y \in Of : /\ Seen(a, y) \in RD!Instrs(ir) /\ Seen(a, y)[1] # 0
                         /\ RD!At(ir, Seen(a, y)) =
                               [op |-> P.def[At(P, y)],
                                var |-> IF P.def[At(P, y)] = "store" THEN P.ins[At(P, y)].ptr ELSE At(P, y)]
                         /\ \A z \in Onto(P, y) : z \in Of /\ Seen(a, z) \in RD!InstrSucc(ir, Seen(a, y))
    BY SeenIn
  <1>2. \A y \in Places(P) : \A z \in Onto(P, y) : z \in Places(P) /\ P.blocks[z[1]].fn = P.blocks[y[1]].fn
    <2> SUFFICES ASSUME NEW y \in Places(P), NEW z \in Onto(P, y)
                 PROVE  z \in Places(P) /\ P.blocks[z[1]].fn = P.blocks[y[1]].fn
      OBVIOUS
    <2>1. P.blocks[y[1]].fn \in Bodied(P)
      BY PlacesType DEF Bodied
    <2>2. PICK b, L : Lies(P, P.blocks[y[1]].fn, b, L)
      BY <2>1, Lying
    <2> QED
      BY <2>1, <2>2, SeenIn
  \* its function is the one it comes to a load of
  <1>3. PICK y \in Places(P) : At(P, y) = s /\ P.blocks[y[1]].fn = f
    <2> DEFINE C == {z \in Places(P) : \E y \in Places(P) : At(P, y) = s /\ P.blocks[z[1]].fn = P.blocks[y[1]].fn}
    <2>1. Brings(P, s, C)
      BY <1>2 DEF Brings
    <2>2. x \in C
      BY <2>1 DEF Comes
    <2> QED
      BY <2>2
  <1> DEFINE d == Seen(a, y)
             W == RD!Walks(ir, d)
             C == {z \in Of : Seen(a, z) \in W}
  <1>4. y \in Of /\ d \in RD!Instrs(ir) /\ d[1] # 0 /\ P.def[s] = "store"
        /\ RD!At(ir, d) = [op |-> P.def[s], var |-> v]
    BY <1>1, <1>3 DEF Verified
  <1>5. d \in RD!Defs(ir) /\ RD!DefinedVar(ir, d) = v
    <2>1. RD!At(ir, d).op = "store" /\ RD!At(ir, d).var = v
      BY <1>4
    <2> HIDE DEF d
    <2> QED
      BY <1>4, <2>1 DEF RD!Defs, RD!DefinedVar
  <1>6. ir \in AllIR
    OBVIOUS
  <1> HIDE DEF d, ir
  <1>7. RD!InstrSucc(ir, d) \subseteq W /\ \A i \in W \cap RD!Instrs(ir) : RD!Lets(ir, d, i) => RD!InstrSucc(ir, i) \subseteq W
    <2>1. RD!IsFiniteSet(RD!Instrs(ir))
      BY <1>6, IRsWellFormed, RD!Instructions DEF AllIR
    <2>2. DOMAIN RD!Flow(ir, d) = RD!Instrs(ir)
          /\ \A i \in RD!Instrs(ir) : RD!Lets(ir, d, i) => RD!Flow(ir, d)[i] = RD!InstrSucc(ir, i)
      BY DEF RD!Flow
    <2>3. PICK g, start : g = RD!Flow(ir, d) /\ start = RD!InstrSucc(ir, d)
      OBVIOUS
    <2>4. W = RD!ReachedIn(start, g)
      BY <1>4, <2>3 DEF RD!Walks
    <2>5. \A z \in AllIR : RD!WellFormed(z)
      BY IRsWellFormed
    <2>6. start \subseteq W /\ RD!Closed(W, g)
      <3> HIDE DEF W
      <3> QED
        BY <2>1, <2>2, <2>3, <2>4, <2>5, RD!ReachedClosed DEF AllIR
    <2> HIDE DEF W
    <2> QED
      BY <2>2, <2>3, <2>6 DEF RD!Closed
  <1>8. ASSUME NEW z \in Of, ~Rewrites(P, At(P, z), v) PROVE RD!Lets(ir, d, Seen(a, z))
    <2>1. RD!At(ir, Seen(a, z)).var # v
      <3>1. RD!At(ir, Seen(a, z)).var = IF P.def[At(P, z)] = "store" THEN P.ins[At(P, z)].ptr ELSE At(P, z)
        BY <1>1
      <3>2. P.def[At(P, z)] = "store" => Op(P, At(P, z)) = "store"
        BY PlacesType DEF Verified
      <3> QED
        BY <1>8, <3>1, <3>2 DEF Rewrites
    <2>2. Seen(a, z)[1] # 0
      BY <1>1
    <2> QED
      BY <1>5, <2>1, <2>2 DEF RD!Lets, RD!DefinedVar
  <1>9. Brings(P, s, C)
    <2> SUFFICES ASSUME NEW z \in Places(P), At(P, z) = s \/ (z \in C /\ ~Rewrites(P, At(P, z), v))
                 PROVE  Onto(P, z) \subseteq C
      BY DEF Brings
    <2>1. CASE At(P, z) = s
      <3>1. z = y
        BY <1>3, <2>1 DEF WellFormed
      <3> QED
        BY <1>1, <1>4, <1>7, <3>1 DEF d
    <2>2. CASE z \in C /\ ~Rewrites(P, At(P, z), v)
      BY <1>1, <1>7, <1>8, <2>2
    <2> QED
      BY <2>1, <2>2
  <1>10. x \in C
    BY <1>9 DEF Comes
  <1> QED
    BY <1>3, <1>4, <1>5, <1>10 DEF d, ir

\* What comes to a load, the analysis has found.
LEMMA FoundAll ==
    ASSUME WellFormed(P), Verified(P), Direct(P), NEW f \in Bodied(P), IR(P, f) \in AllIR,
           DOMAIN reach = RD!Instrs(IR(P, f)),
           \A i \in RD!Instrs(IR(P, f)) :
              RD!BehindPhi(IR(P, f), i) \/ reach[i] = RD!ReachesPoint(IR(P, f), i),
           NEW x \in Places(P), P.blocks[x[1]].fn = f,
           NEW s \in Ins(P), Op(P, s) = "store", Comes(P, s, x)
    PROVE  s \in Found(f, At(P, x))
  <1> DEFINE ir == IR(P, f)
  <1>1. PICK a, K : Lies(P, f, a, K)
    BY Lying
  <1>2. PICK y \in Places(P) : /\ P.blocks[y[1]].fn = f /\ At(P, y) = s
                               /\ Seen(a, y) \in RD!Defs(ir)
                               /\ Seen(a, x) \in RD!Walks(ir, Seen(a, y))
    BY <1>1, ComesWalks
  <1>3. Seen(a, x) \in RD!Instrs(ir) /\ Named(P, f, Seen(a, x)) = At(P, x) /\ Named(P, f, Seen(a, y)) = s
    BY <1>1, <1>2, SeenIn
  <1>4. ~RD!BehindPhi(ir, Seen(a, x))
    <2> SUFFICES ASSUME RD!BehindPhi(ir, Seen(a, x)) PROVE FALSE
      OBVIOUS
    <2> DEFINE i == <<Seen(a, x)[1], Seen(a, x)[2] - 1>>
    <2>1. Seen(a, x)[2] > 1 /\ RD!At(ir, i).op = "phi"
      BY DEF RD!BehindPhi
    <2>2. i \in RD!Instrs(ir)
      <3>1. PICK e : e = Seen(a, x)
        OBVIOUS
      <3>2. e[1] \in RD!Blocks(ir) /\ e[2] \in 1..Len(ir.code[e[1]]) /\ Len(ir.code[e[1]]) \in Nat
            /\ \A k \in 1..Len(ir.code[e[1]]) : <<e[1], k>> \in RD!Instrs(ir)
        <4>1. e \in RD!Instrs(ir) /\ ir \in AllIR
          BY <1>3, <3>1
        <4> HIDE DEF ir
        <4> QED
          BY <4>1, IRsWellFormed, RD!Instructions DEF AllIR
      <3>3. e[2] > 1
        BY <2>1, <3>1
      <3>4. e[2] - 1 \in 1..Len(ir.code[e[1]])
        BY <3>2, <3>3
      <3> QED
        BY <3>1, <3>2, <3>4
    <2> HIDE DEF i
    <2>3. PICK z \in Places(P) : P.blocks[z[1]].fn = f /\ Seen(a, z) = i
      BY <1>1, <2>2, SeenIn
    <2>4. RD!At(ir, i).op = P.def[At(P, z)]
      BY <1>1, <2>3, SeenIn
    <2> QED
      BY <2>1, <2>3, <2>4, PlacesType DEF Direct, Verified
  <1>5. Seen(a, y) \in reach[Seen(a, x)]
    BY <1>2, <1>3, <1>4 DEF RD!ReachesPoint
  <1>6. \A e \in DOMAIN reach : Named(P, f, e) = At(P, x) => e = Seen(a, x)
    <2> SUFFICES ASSUME NEW e \in RD!Instrs(ir), Named(P, f, e) = At(P, x) PROVE e = Seen(a, x)
      OBVIOUS
    <2>1. PICK z \in Places(P) : P.blocks[z[1]].fn = f /\ Seen(a, z) = e
      BY <1>1, SeenIn
    <2>2. Named(P, f, e) = At(P, z)
      BY <1>1, <2>1, SeenIn
    <2>3. z = x
      BY <2>2 DEF WellFormed
    <2> QED
      BY <2>1, <2>3
  <1>7. (CHOOSE e \in DOMAIN reach : Named(P, f, e) = At(P, x)) = Seen(a, x)
    BY <1>3, <1>6
  <1> QED
    BY <1>3, <1>5, <1>7 DEF Found

\* A program is the same whatever the analyses have found in it.
Shaped(p, q) == \E r, b : q = [p EXCEPT !.reach = r, !.before = b]

LEMMA SameShape ==
    ASSUME NEW p, WellFormed(p), {"params", "succ", "def"} \subseteq DOMAIN p, NEW q, Shaped(p, q)
    PROVE  /\ q.fns = p.fns /\ q.blocks = p.blocks /\ q.ins = p.ins /\ q.globals = p.globals
           /\ q.args = p.args /\ q.params = p.params /\ q.succ = p.succ /\ q.def = p.def
           /\ DOMAIN q = DOMAIN p
           /\ Ins(q) = Ins(p) /\ Places(q) = Places(p) /\ Bodied(q) = Bodied(p)
           /\ \A i : Op(q, i) = Op(p, i) /\ At(q, i) = At(p, i) /\ Outlined(q, i) = Outlined(p, i)
           /\ \A f : /\ IR(q, f) = IR(p, f) /\ InsOf(q, f) = InsOf(p, f) /\ BlocksOf(q, f) = BlocksOf(p, f)
                     /\ Entry(q, f) = Entry(p, f) /\ \A d : Named(q, f, d) = Named(p, f, d)
           /\ \A f, v : Without(q, f, v) = Without(p, f, v)
           /\ \A s, y : Comes(q, s, y) <=> Comes(p, s, y)
           /\ Direct(q) <=> Direct(p)
           /\ Verified(q) <=> Verified(p)
  <1>1. PICK r, b : q = [p EXCEPT !.reach = r, !.before = b]
    BY DEF Shaped
  <1>2. {"fns", "blocks", "ins", "globals", "exprs", "args", "reach", "before"} \subseteq DOMAIN p
    BY DEF WellFormed
  <1>3. /\ q.fns = p.fns /\ q.blocks = p.blocks /\ q.ins = p.ins /\ q.globals = p.globals
        /\ q.args = p.args /\ q.params = p.params /\ q.succ = p.succ /\ q.def = p.def
        /\ DOMAIN q = DOMAIN p
    BY <1>1, <1>2
  <1>4. Ins(q) = Ins(p) /\ Places(q) = Places(p) /\ Bodied(q) = Bodied(p)
    BY <1>3 DEF Ins, Places, Bodied
  <1>5. \A i : Op(q, i) = Op(p, i) /\ At(q, i) = At(p, i) /\ Outlined(q, i) = Outlined(p, i)
    BY <1>3 DEF Op, At, Outlined, Callee
  <1>6. \A f : BlocksOf(q, f) = BlocksOf(p, f) /\ InsOf(q, f) = InsOf(p, f)
    BY <1>3 DEF BlocksOf, InsOf
  <1>7. \A f : IR(q, f) = IR(p, f)
    <2> SUFFICES ASSUME NEW f PROVE IR(q, f) = IR(p, f)
      OBVIOUS
    <2> DEFINE SeenIn0(z, x) == [op |-> z.def[x], var |-> IF z.def[x] = "store" THEN z.ins[x].ptr ELSE x]
               code(z, bs) == [n \in DOMAIN bs |-> [k \in DOMAIN z.blocks[bs[n]].code |-> SeenIn0(z, z.blocks[bs[n]].code[k])]]
               succ(z, bs) == [n \in DOMAIN bs |-> {m \in DOMAIN bs : bs[m] \in z.succ[bs[n]]}]
    <2>1. PICK bs : bs = BlocksOf(p, f) /\ bs = BlocksOf(q, f)
      BY <1>6
    <2>2. \A x : SeenIn0(q, x) = SeenIn0(p, x)
      BY <1>3
    <2>3. code(q, bs) = code(p, bs)
      <3> HIDE DEF SeenIn0
      <3> QED
        BY <1>3, <2>2
    <2>4. succ(q, bs) = succ(p, bs)
      BY <1>3
    <2>5. \A z : IR(z, f) = [args |-> z.params[f], code |-> code(z, BlocksOf(z, f)), succ |-> succ(z, BlocksOf(z, f))]
      BY DEF IR
    <2> HIDE DEF code, succ
    <2> QED
      BY <1>3, <2>1, <2>3, <2>4, <2>5
  <1>8. \A f : Entry(q, f) = Entry(p, f) /\ \A d : Named(q, f, d) = Named(p, f, d)
    BY <1>3, <1>6 DEF Entry, Named
  <1>9. \A x : Onto(q, x) = Onto(p, x)
    BY <1>3 DEF Onto
  <1>10. \A f, v : Without(q, f, v) = Without(p, f, v)
    BY <1>4, <1>5, <1>8, <1>9 DEF Without
  <1>11. \A s, y : Comes(q, s, y) <=> Comes(p, s, y)
    <2>1. \A i, v : Rewrites(q, i, v) <=> Rewrites(p, i, v)
      BY <1>3, <1>5 DEF Rewrites
    <2>2. \A s, C : Brings(q, s, C) <=> Brings(p, s, C)
      BY <1>3, <1>4, <1>5, <1>9, <2>1 DEF Brings
    <2> QED
      BY <2>2 DEF Comes
  <1>12. Direct(q) <=> Direct(p)
    BY <1>3, <1>4, <1>5, <1>7 DEF Direct
  <1>13. Verified(q) <=> Verified(p)
    BY <1>3, <1>4, <1>5, <1>6, <1>7, <1>8, <1>10 DEF Verified
  <1> QED
    BY <1>3, <1>4, <1>5, <1>6, <1>7, <1>8, <1>10, <1>11, <1>12, <1>13

LEMMA NextSame == Reaching!Next <=> RD!Next
  BY DEF Reaching!Next, Reaching!VisitBlock, Reaching!NextPass, Reaching!Converge, Reaching!ExtendBlock,
         Reaching!ExtendUnassigned, Reaching!Return, Reaching!Preds, Reaching!Blocks, Reaching!Meet,
         Reaching!Transfer, Reaching!Gen, Reaching!Kill, Reaching!Defs, Reaching!LastOfItsKey,
         Reaching!Redefines, Reaching!Key, Reaching!Args, Reaching!Instrs, Reaching!At,
         Reaching!DefinedVar, Reaching!InputAssigned, Reaching!Recorded, Reaching!CarriedTo,
         RD!Next, RD!VisitBlock, RD!NextPass, RD!Converge, RD!ExtendBlock,
         RD!ExtendUnassigned, RD!Return, RD!Preds, RD!Blocks, RD!Meet,
         RD!Transfer, RD!Gen, RD!Kill, RD!Defs, RD!LastOfItsKey,
         RD!Redefines, RD!Key, RD!Args, RD!Instrs, RD!At,
         RD!DefinedVar, RD!InputAssigned, RD!Recorded, RD!CarriedTo

\* The analysis of a function, from its beginning ...
Analyses == RD!IInv /\ RD!RecordedSoFar

LEMMA AnalysisInit == RD!Init => Analyses
  <1>1. \A f \in AllIR : RD!WellFormed(f)
    BY IRsWellFormed
  <1>2. RD!Init => RD!IInv
    BY <1>1, RD!InitInv DEF AllIR
  <1>3. RD!Init => RD!RecordedSoFar
    BY DEF RD!Init, RD!Fresh, RD!RecordedSoFar
  <1> QED
    BY <1>2, <1>3 DEF Analyses

LEMMA AnalysisBegins == RD!Init' => Analyses'
  BY AnalysisInit, PTL

LEMMA AnalysisStep == Analyses /\ (Reaching!Next \/ UNCHANGED defVars) => Analyses'
  <1>1. \A f \in AllIR : RD!WellFormed(f)
    BY IRsWellFormed
  <1>2. Reaching!Next \/ UNCHANGED defVars => RD!Next \/ UNCHANGED RD!vars
    BY NextSame DEF defVars, RD!vars
  <1>3. RD!IInv /\ [RD!Next]_(RD!vars) => RD!IInv'
    BY <1>1, RD!StepInv DEF AllIR
  <1>4. RD!IInv /\ RD!RecordedSoFar /\ [RD!Next]_(RD!vars) => RD!RecordedSoFar'
    BY <1>1, RD!RecordedStep DEF AllIR
  <1> QED
    BY <1>2, <1>3, <1>4 DEF Analyses

\* ... to its end
LEMMA AnalysisEnds ==
    ASSUME Analyses, analysing = "done", F \in AllIR, Reaching!KeysDistinguish(F)
    PROVE  /\ DOMAIN reach = RD!Instrs(F)
           /\ \A i \in RD!Instrs(F) : RD!BehindPhi(F, i) \/ reach[i] = RD!ReachesPoint(F, i)
  <1>1. \A f \in AllIR : RD!WellFormed(f)
    BY IRsWellFormed
  <1>2. DOMAIN reach = RD!Instrs(F)
    BY DEF Analyses, RD!IInv, RD!TypeOK
  <1>3. RD!KeysDistinguish(F)
    BY DEF Reaching!KeysDistinguish, Reaching!Key, Reaching!Defs, Reaching!DefinedVar, Reaching!Args,
           Reaching!Instrs, Reaching!At, Reaching!Blocks,
           RD!KeysDistinguish, RD!Key, RD!Defs, RD!DefinedVar, RD!Args, RD!Instrs, RD!At, RD!Blocks
  <1>4. ASSUME NEW i \in RD!Instrs(F), ~RD!BehindPhi(F, i)
        PROVE  reach[i] = RD!ReachesPoint(F, i)
    <2>1. reach[i] = RD!CarriedTo(F, i[1], i[2], RD!Abs!Solution(F)[i[1]])
      BY <1>4 DEF Analyses, RD!RecordedSoFar, RD!Recorded, RD!BehindPhi
    <2> QED
      BY <1>1, <1>3, <2>1, RD!PointExact DEF AllIR
  <1> QED
    BY <1>2, <1>4

\* For the loads of function f of p, r has the stores that may come to them.
FoundIn(p, f, r) ==
    \A x \in Places(p) : \A s \in Ins(p) :
        p.blocks[x[1]].fn = f /\ Op(p, At(p, x)) = "load" /\ Op(p, s) = "store" /\ Comes(p, s, x)
            => s \in r[At(p, x)]

\* Whatever r has for an instruction of function f is in f.
LocalIn(p, f, r) == \A x \in Places(p) : p.blocks[x[1]].fn = f => r[At(p, x)] \subseteq InsOf(p, f)

\* One function is analysed after the other.
AnalysisInv ==
    /\ ideal \in Programs /\ Shaped(ideal, P)
    /\ fn \in 1..(Len(ideal.blocks) + 1)
    /\ fn \in DOMAIN ideal.blocks => fn = Entry(ideal, ideal.blocks[fn].fn)
    /\ analysing # "idle" => F = IR(ideal, ideal.blocks[fn].fn) /\ Analyses
    /\ \A b \in 1..(fn - 1) : /\ LocalIn(ideal, ideal.blocks[b].fn, P.reach)
                              /\ Direct(ideal) => FoundIn(ideal, ideal.blocks[b].fn, P.reach)

LEMMA ShapedTwice ==
    ASSUME NEW p, NEW q, Shaped(p, q), {"reach", "before"} \subseteq DOMAIN p
    PROVE  /\ \A r : Shaped(p, [q EXCEPT !.reach = r])
           /\ \A b : Shaped(p, [q EXCEPT !.before = b])
  <1>1. PICK r0, b0 : q = [p EXCEPT !.reach = r0, !.before = b0]
    BY DEF Shaped
  <1>2. \A r : [q EXCEPT !.reach = r] = [p EXCEPT !.reach = r, !.before = b0]
    BY <1>1
  <1>3. \A b : [q EXCEPT !.before = b] = [p EXCEPT !.reach = r0, !.before = b]
    BY <1>1
  <1> QED
    BY <1>2, <1>3 DEF Shaped

\* What AnalysisInv says of the program
LEMMA IdealIs ==
    ASSUME AnalysisInv
    PROVE  /\ WellFormed(ideal) /\ Verified(ideal) /\ Shaped(ideal, P)
           /\ {"params", "succ", "def"} \subseteq DOMAIN ideal
           /\ \E N \in Nat : N = Len(ideal.blocks) /\ DOMAIN ideal.blocks = 1..N
           /\ {"reach", "before"} \subseteq DOMAIN ideal
           /\ \A f \in Bodied(ideal) : IR(ideal, f) \in AllIR
  <1>1. WellFormed(ideal) /\ Verified(ideal)
    BY ProgramsAssumption, ProgramsVerified DEF AnalysisInv
  <1>2. \E N \in Nat : N = Len(ideal.blocks) /\ DOMAIN ideal.blocks = 1..N
    <2>1. ideal.blocks \in Seq([fn : DOMAIN ideal.fns, code : Seq(Ins(ideal))])
      BY <1>1 DEF WellFormed
    <2> QED
      BY <2>1
  <1>3. \A f \in Bodied(ideal) : IR(ideal, f) \in AllIR
    BY DEF AnalysisInv, AllIR
  <1> QED
    BY <1>1, <1>2, <1>3 DEF AnalysisInv, Verified, WellFormed

\* The functions follow one another.
LEMMA NextBegins ==
    ASSUME NEW p, WellFormed(p), Verified(p), NEW n \in DOMAIN p.blocks, n = Entry(p, p.blocks[n].fn),
           NEW m, m = n + Len(BlocksOf(p, p.blocks[n].fn))
    PROVE  /\ m \in 1..(Len(p.blocks) + 1)
           /\ m \in DOMAIN p.blocks => m = Entry(p, p.blocks[m].fn)
           /\ \A b \in 1..(m - 1) : b \in 1..(n - 1) \/ (b \in DOMAIN p.blocks /\ p.blocks[b].fn = p.blocks[n].fn)
  <1> DEFINE f == p.blocks[n].fn
  <1>1. PICK N \in Nat : N = Len(p.blocks) /\ DOMAIN p.blocks = 1..N
    BY Code
  <1>2. f \in Bodied(p)
    BY DEF Bodied
  <1>3. PICK a, K : Lies(p, f, a, K)
    BY <1>2, Lying
  <1>4. a = n /\ K \in Nat \ {0} /\ n + K \in 1..(N + 1) /\ BlocksOf(p, f) = [l \in 1..K |-> n + (l - 1)]
        /\ \A b \in 1..N : p.blocks[b].fn = f <=> b \in n..(n + K - 1)
    BY <1>1, <1>3 DEF Lies
  <1>5. Len(BlocksOf(p, f)) = K
    BY <1>4
  <1>6. m = n + K
    BY <1>5
  <1>7. ASSUME m \in 1..N PROVE m = Entry(p, p.blocks[m].fn)
    <2> DEFINE g == p.blocks[m].fn
    <2>1. g # f
      BY <1>1, <1>4, <1>6, <1>7
    <2>2. PICK c, L : Lies(p, g, c, L)
      BY <1>1, <1>7, Lying DEF Bodied
    <2>3. /\ c \in 1..N /\ L \in Nat /\ Entry(p, g) = c
          /\ \A b \in 1..N : p.blocks[b].fn = g <=> b \in c..(c + L - 1)
      BY <1>1, <2>2 DEF Lies
    <2>4. m \in c..(c + L - 1)
      BY <1>7, <2>3
    <2>5. c = m
      <3> SUFFICES ASSUME c # m PROVE FALSE
        OBVIOUS
      <3>1. PICK l : l = m - 1 /\ l \in c..(c + L - 1) /\ l \in 1..N
        BY <1>7, <2>3, <2>4
      <3>2. l \in n..(n + K - 1)
        BY <1>1, <1>4, <1>6, <3>1
      <3>3. p.blocks[l].fn = g /\ p.blocks[l].fn = f
        BY <1>4, <2>3, <3>1, <3>2
      <3> QED
        BY <2>1, <3>3
    <2> QED
      BY <2>3, <2>5
  <1>8. ASSUME NEW b \in 1..(m - 1)
        PROVE  b \in 1..(n - 1) \/ (b \in DOMAIN p.blocks /\ p.blocks[b].fn = f)
    <2>1. CASE b < n
      BY <1>1, <1>8, <2>1
    <2>2. CASE ~(b < n)
      <3>1. b \in n..(n + K - 1) /\ b \in 1..N
        BY <1>1, <1>4, <1>6, <1>8, <2>2
      <3> QED
        BY <1>1, <1>4, <3>1
    <2> QED
      BY <2>1, <2>2
  <1> QED
    BY <1>1, <1>4, <1>6, <1>7, <1>8

\* An argument of the analysis is one of the program.
LEMMA NamedArg ==
    ASSUME NEW p, Verified(p), NEW f \in Bodied(p), NEW d \in RD!Args(IR(p, f))
    PROVE  Named(p, f, d) \in p.args /\ p.args \cap Ins(p) = {}
  <1>1. IR(p, f).args = p.params[f]
    BY Zenon DEF IR
  <1>2. PICK n \in DOMAIN p.params[f] : d = <<0, n>>
    <2>1. d \in {<<0, n>> : n \in DOMAIN IR(p, f).args}
      BY DEF RD!Args
    <2> QED
      BY <1>1, <2>1
  <1>3. p.params[f][n] \in p.args /\ p.args \cap Ins(p) = {}
    BY DEF Verified
  <1>4. d[1] = 0 /\ d[2] = n
    BY <1>2
  <1> QED
    BY <1>3, <1>4 DEF Named

\* The analysis of a function finds definitions of this function.
LEMMA EndLocal ==
    ASSUME AnalysisInv, WellFormed(P), EndFunction, fn \in DOMAIN P.blocks
    PROVE  /\ LocalIn(ideal, ideal.blocks[fn].fn, P'.reach)
           /\ \A g : LocalIn(ideal, g, P.reach) => LocalIn(ideal, g, P'.reach)
  <1> DEFINE f == P.blocks[fn].fn
  <1>1. /\ WellFormed(ideal) /\ Verified(ideal) /\ Shaped(ideal, P)
        /\ {"params", "succ", "def"} \subseteq DOMAIN ideal
    BY IdealIs
  <1>2. /\ P.blocks = ideal.blocks /\ Ins(P) = Ins(ideal) /\ Places(P) = Places(ideal) /\ Bodied(P) = Bodied(ideal)
        /\ \A i : At(P, i) = At(ideal, i)
        /\ P.params = ideal.params /\ P.args = ideal.args
        /\ IR(P, f) = IR(ideal, f) /\ \A g : InsOf(P, g) = InsOf(ideal, g)
        /\ (Verified(P) <=> Verified(ideal))
    BY <1>1, SameShape
  <1>3. f \in Bodied(P)
    BY DEF Bodied
  <1>4. /\ P'.reach = [x \in Ins(P) |-> IF x \in InsOf(P, f) THEN Found(f, x) ELSE P.reach[x]]
        /\ analysing = "done"
    BY DEF EndFunction, NextFunction, WellFormed
  <1>5. F = IR(P, f) /\ reach \in [RD!Instrs(IR(P, f)) -> SUBSET RD!Defs(IR(P, f))]
    <2>1. F = IR(P, f) /\ RD!TypeOK
      BY <1>2, <1>4 DEF AnalysisInv, Analyses, RD!IInv
    <2> QED
      BY <2>1 DEF RD!TypeOK
  <1>6. PICK a, K : Lies(P, f, a, K)
    BY <1>1, <1>2, <1>3, Lying
  <1>20. /\ \A i \in RD!Instrs(IR(P, f)) : \E x \in Places(P) : P.blocks[x[1]].fn = f /\ Seen(a, x) = i
         /\ \A x \in Places(P) : P.blocks[x[1]].fn = f => Named(P, f, Seen(a, x)) = At(P, x)
    BY <1>1, <1>2, <1>3, <1>6, SeenIn
  <1>7. ASSUME NEW d \in RD!Defs(IR(P, f)), Named(P, f, d) \in Ins(P)
        PROVE  Named(P, f, d) \in InsOf(P, f)
    <2>1. CASE d \in RD!Instrs(IR(P, f))
      <3> HIDE DEF f
      <3>1. PICK x \in Places(P) : P.blocks[x[1]].fn = f /\ Seen(a, x) = d
        BY <1>20, <2>1, Zenon
      <3>2. Named(P, f, d) = At(P, x)
        BY <1>20, <3>1, Zenon
      <3>3. At(P, x) \in InsOf(P, P.blocks[x[1]].fn)
        BY PlacesType
      <3> QED
        BY <3>1, <3>2, <3>3, Zenon
    <2>2. CASE d \in RD!Args(IR(P, f))
      <3>1. Named(P, f, d) \in P.args /\ P.args \cap Ins(P) = {}
        BY <1>1, <1>2, <1>3, <2>2, NamedArg
      <3> QED
        BY <1>7, <3>1
    <2> QED
      BY <2>1, <2>2 DEF RD!Defs
  <1>8. ASSUME NEW x \in Places(P), P.blocks[x[1]].fn = f PROVE P'.reach[At(P, x)] \subseteq InsOf(P, f)
    <2>1. At(P, x) \in InsOf(P, f) /\ At(P, x) \in Ins(P)
      BY <1>8, PlacesType
    <2>2. Seen(a, x) \in DOMAIN reach /\ Named(P, f, Seen(a, x)) = At(P, x)
      BY <1>1, <1>2, <1>3, <1>5, <1>6, <1>8, SeenIn
    <2>3. PICK e : e = (CHOOSE d \in DOMAIN reach : Named(P, f, d) = At(P, x)) /\ e \in DOMAIN reach
      BY <2>2
    <2>4. reach[e] \subseteq RD!Defs(IR(P, f)) /\ Found(f, At(P, x)) = {Named(P, f, d) : d \in reach[e]} \cap Ins(P)
      BY <1>5, <2>3 DEF Found
    <2>5. Found(f, At(P, x)) \subseteq InsOf(P, f)
      <3> HIDE DEF f
      <3> QED
        BY <1>7, <2>4
    <2> QED
      BY <1>4, <2>1, <2>5
  <1>9. LocalIn(ideal, f, P'.reach)
    BY <1>2, <1>8 DEF LocalIn
  <1>10. ASSUME NEW g, LocalIn(ideal, g, P.reach) PROVE LocalIn(ideal, g, P'.reach)
    <2>1. CASE g = f
      BY <1>9, <2>1
    <2>2. CASE g # f
      <3>1. ASSUME NEW x \in Places(P), P.blocks[x[1]].fn = g PROVE P'.reach[At(P, x)] = P.reach[At(P, x)]
        <4>1. At(P, x) \notin InsOf(P, f)
          BY <2>2, <3>1, OneFunction
        <4>2. At(P, x) \in Ins(P)
          BY PlacesType
        <4> QED
          BY <1>4, <4>1, <4>2
      <3>2. ASSUME NEW x \in Places(ideal), ideal.blocks[x[1]].fn = g
            PROVE  P'.reach[At(ideal, x)] = P.reach[At(ideal, x)]
        BY <1>2, <3>1, <3>2
      <3> HIDE DEF f
      <3> QED
        BY <1>10, <3>2 DEF LocalIn
    <2> QED
      BY <2>1, <2>2
  <1>11. ideal.blocks[fn].fn = f
    BY <1>2
  <1> QED
    BY <1>9, <1>10, <1>11

\* The function just analysed has its stores found ...
LEMMA EndFinds ==
    ASSUME AnalysisInv, WellFormed(P), EndFunction, fn \in DOMAIN P.blocks, Direct(ideal)
    PROVE  /\ FoundIn(ideal, ideal.blocks[fn].fn, P'.reach)
           /\ \A g : FoundIn(ideal, g, P.reach) => FoundIn(ideal, g, P'.reach)
  <1> DEFINE f == P.blocks[fn].fn
  <1>1. /\ WellFormed(ideal) /\ Verified(ideal) /\ Shaped(ideal, P)
        /\ {"params", "succ", "def"} \subseteq DOMAIN ideal /\ {"reach", "before"} \subseteq DOMAIN ideal
    BY IdealIs
  <1>2. /\ P.blocks = ideal.blocks /\ Ins(P) = Ins(ideal) /\ Places(P) = Places(ideal) /\ Bodied(P) = Bodied(ideal)
        /\ \A i : Op(P, i) = Op(ideal, i) /\ At(P, i) = At(ideal, i)
        /\ IR(P, f) = IR(ideal, f) /\ \A s, y : Comes(P, s, y) <=> Comes(ideal, s, y)
        /\ (Direct(P) <=> Direct(ideal)) /\ (Verified(P) <=> Verified(ideal))
    BY <1>1, SameShape
  <1>3. f \in Bodied(P) /\ IR(P, f) \in AllIR
    BY <1>2, IdealIs DEF Bodied
  <1>4. /\ P'.reach = [x \in Ins(P) |-> IF x \in InsOf(P, f) THEN Found(f, x) ELSE P.reach[x]]
        /\ analysing = "done" /\ ideal' = ideal
    BY DEF EndFunction, NextFunction, WellFormed
  <1>5. F = IR(P, f) /\ Analyses
    BY <1>2, <1>4 DEF AnalysisInv
  <1>6. Reaching!KeysDistinguish(F)
    BY <1>2, <1>3, <1>5 DEF Direct
  <1>7. /\ DOMAIN reach = RD!Instrs(IR(P, f))
        /\ \A i \in RD!Instrs(IR(P, f)) :
              RD!BehindPhi(IR(P, f), i) \/ reach[i] = RD!ReachesPoint(IR(P, f), i)
    <2>1. F \in AllIR
      BY <1>3, <1>5
    <2> QED
      BY <1>4, <1>5, <1>6, <2>1, AnalysisEnds
  <1>8. ASSUME NEW x \in Places(P), P.blocks[x[1]].fn = f,
               NEW s \in Ins(P), Op(P, s) = "store", Comes(P, s, x)
        PROVE  s \in P'.reach[At(P, x)]
    <2>1. s \in Found(f, At(P, x))
      BY <1>1, <1>2, <1>3, <1>7, <1>8, FoundAll
    <2>2. At(P, x) \in InsOf(P, f) /\ At(P, x) \in Ins(P)
      BY <1>8, PlacesType
    <2> QED
      BY <1>4, <2>1, <2>2
  <1>9. FoundIn(ideal, f, P'.reach)
    <2> HIDE DEF f
    <2>0. PICK r : r = P'.reach
      OBVIOUS
    <2>1. ASSUME NEW x \in Places(ideal), NEW s \in Ins(ideal), ideal.blocks[x[1]].fn = f,
                 Op(ideal, s) = "store", Comes(ideal, s, x)
          PROVE  s \in r[At(ideal, x)]
      <3>1. x \in Places(P) /\ P.blocks[x[1]].fn = f /\ s \in Ins(P) /\ Op(P, s) = "store" /\ Comes(P, s, x)
        BY <1>2, <2>1
      <3>2. s \in P'.reach[At(P, x)]
        BY <1>8, <3>1
      <3> QED
        BY <1>2, <2>0, <3>2
    <2>2. FoundIn(ideal, f, r)
      BY <2>1 DEF FoundIn
    <2> QED
      BY <2>0, <2>2
  <1>10. ASSUME NEW g, FoundIn(ideal, g, P.reach) PROVE FoundIn(ideal, g, P'.reach)
    <2>1. CASE g = f
      BY <1>9, <2>1
    <2>2. CASE g # f
      <3>1. ASSUME NEW x \in Places(P), P.blocks[x[1]].fn = g PROVE P'.reach[At(P, x)] = P.reach[At(P, x)]
        <4>1. At(P, x) \notin InsOf(P, f)
          BY <2>2, <3>1, OneFunction
        <4>2. At(P, x) \in Ins(P)
          BY PlacesType
        <4> QED
          BY <1>4, <4>1, <4>2
      <3>2. ASSUME NEW x \in Places(ideal), ideal.blocks[x[1]].fn = g
            PROVE  P'.reach[At(ideal, x)] = P.reach[At(ideal, x)]
        BY <1>2, <3>1, <3>2
      <3> HIDE DEF f
      <3> QED
        BY <1>10, <3>2 DEF FoundIn
    <2> QED
      BY <2>1, <2>2
  <1>11. ideal.blocks[fn].fn = f
    BY <1>2
  <1> QED
    BY <1>9, <1>10, <1>11

LEMMA AnalysisFirst == PassInit => AnalysisInv
  <1> SUFFICES ASSUME PassInit PROVE AnalysisInv
    OBVIOUS
  <1>1. ideal \in Programs /\ fn = 1 /\ analysing = "idle" /\ P = Unanalysed(ideal)
    BY DEF PassInit
  <1>2. WellFormed(ideal) /\ Verified(ideal)
    BY <1>1, ProgramsAssumption, ProgramsVerified
  <1>3. Shaped(ideal, P)
    BY <1>1 DEF Shaped, Unanalysed
  <1>4. PICK N \in Nat : N = Len(ideal.blocks) /\ DOMAIN ideal.blocks = 1..N
    <2>1. ideal.blocks \in Seq([fn : DOMAIN ideal.fns, code : Seq(Ins(ideal))])
      BY <1>2 DEF WellFormed
    <2> QED
      BY <2>1
  <1>5. 1 \in 1..(Len(ideal.blocks) + 1)
    BY <1>4
  <1>6. ASSUME 1 \in DOMAIN ideal.blocks PROVE 1 = Entry(ideal, ideal.blocks[1].fn)
    <2> DEFINE f == ideal.blocks[1].fn
    <2>1. PICK a, K : Lies(ideal, f, a, K)
      BY <1>2, <1>6, Lying DEF Bodied
    <2>2. a \in 1..N /\ 1 \in a..(a + K - 1) /\ Entry(ideal, f) = a
      BY <1>4, <1>6, <2>1 DEF Lies
    <2>3. a = 1
      BY <2>2
    <2> QED
      BY <2>2, <2>3
  <1>7. \A b \in 1..(fn - 1) : FALSE
    BY <1>1
  <1> QED
    BY <1>1, <1>3, <1>5, <1>6, <1>7 DEF AnalysisInv

\* What does not touch the stores found leaves the analyses as they are.
LEMMA AnalysisSame ==
    ASSUME AnalysisInv, UNCHANGED ideal, UNCHANGED fn, Shaped(ideal, P'), P'.reach = P.reach,
           analysing' # "idle" => F' = IR(ideal, ideal.blocks[fn].fn) /\ Analyses'
    PROVE  AnalysisInv'
  <1>1. \A f : /\ FoundIn(ideal, f, P.reach) => FoundIn(ideal', f, P'.reach)
              /\ LocalIn(ideal, f, P.reach) => LocalIn(ideal', f, P'.reach)
    BY DEF FoundIn, LocalIn
  <1>2. Direct(ideal) <=> Direct(ideal')
    OBVIOUS
  <1>3. ideal' \in Programs /\ Shaped(ideal', P') /\ fn' \in 1..(Len(ideal'.blocks) + 1)
        /\ (fn' \in DOMAIN ideal'.blocks => fn' = Entry(ideal', ideal'.blocks[fn'].fn))
    BY DEF AnalysisInv
  <1>4. \A b \in 1..(fn' - 1) : /\ LocalIn(ideal', ideal'.blocks[b].fn, P'.reach)
                                /\ Direct(ideal') => FoundIn(ideal', ideal'.blocks[b].fn, P'.reach)
    BY <1>1, <1>2 DEF AnalysisInv
  <1>5. analysing' # "idle" => F' = IR(ideal', ideal'.blocks[fn'].fn) /\ Analyses'
    OBVIOUS
  <1> QED
    BY <1>3, <1>4, <1>5 DEF AnalysisInv

LEMMA AnalysisNext == PassInv /\ AnalysisInv /\ [PassNext]_passVars => AnalysisInv'
  <1> SUFFICES ASSUME PassInv, AnalysisInv, [PassNext]_passVars PROVE AnalysisInv'
    OBVIOUS
  <1>0. /\ WellFormed(ideal) /\ Verified(ideal) /\ Shaped(ideal, P)
        /\ {"params", "succ", "def"} \subseteq DOMAIN ideal /\ {"reach", "before"} \subseteq DOMAIN ideal
        /\ \A f \in Bodied(ideal) : IR(ideal, f) \in AllIR
    BY IdealIs
  <1>1. /\ P.blocks = ideal.blocks /\ \A f : IR(P, f) = IR(ideal, f) /\ BlocksOf(P, f) = BlocksOf(ideal, f)
        /\ DOMAIN P = DOMAIN ideal
    BY <1>0, SameShape
  <1>2. WellFormed(P) /\ (analysing # "idle" => fn \in DOMAIN P.blocks)
    BY DEF PassInv, InTurn
  <1>3. ASSUME UNCHANGED defVars
        PROVE  analysing' # "idle" => F' = IR(ideal, ideal.blocks[fn].fn) /\ Analyses'
    <2>1. F' = F /\ analysing' = analysing
      BY <1>3 DEF defVars
    <2>2. Analyses => Analyses'
      BY <1>3, AnalysisStep
    <2> QED
      BY <2>1, <2>2 DEF AnalysisInv
  <1>4. CASE BuildFilter
    <2>1. UNCHANGED ideal /\ UNCHANGED fn /\ UNCHANGED defVars
      BY <1>4 DEF BuildFilter
    <2>2. P' = P \/ P' = [P EXCEPT !.before = Judged]
      BY <1>4 DEF BuildFilter
    <2>3. P'.reach = P.reach
      BY <1>0, <1>1, <2>2
    <2>4. Shaped(ideal, P')
      BY <1>0, <2>2, ShapedTwice
    <2> QED
      BY <1>3, <2>1, <2>3, <2>4, AnalysisSame
  <1>5. CASE BeginFunction
    <2>1. /\ UNCHANGED ideal /\ UNCHANGED fn /\ P' = P /\ fn \in DOMAIN P.blocks
          /\ F' = IR(P, P.blocks[fn].fn)
      BY <1>5 DEF BeginFunction, vars
    <2>2. F' = IR(ideal, ideal.blocks[fn].fn) /\ F' \in AllIR
      BY <1>0, <1>1, <2>1 DEF Bodied
    <2>3. RD!Init'
      <3>1. RD!Fresh'
        BY <1>5 DEF BeginFunction, RD!Fresh, RD!AtStart, Reaching!AtStart, RD!Blocks, Reaching!Blocks,
                    RD!Instrs, Reaching!Instrs, RD!Args, Reaching!Args
      <3> QED
        BY <2>2, <3>1 DEF RD!Init, AllIR
    <2>4. Analyses'
      BY <2>3, AnalysisBegins
    <2> QED
      BY <1>0, <2>1, <2>2, <2>4, AnalysisSame
  <1>6. CASE AnalyseFunction
    <2>1. UNCHANGED ideal /\ UNCHANGED fn /\ P' = P /\ analysing # "idle" /\ Reaching!Next
      BY <1>6 DEF AnalyseFunction, vars
    <2>2. F' = F
      BY <2>1 DEF Reaching!Next, Reaching!VisitBlock, Reaching!NextPass, Reaching!Converge, Reaching!ExtendBlock,
                  Reaching!ExtendUnassigned, Reaching!Return
    <2>3. Analyses' /\ F = IR(ideal, ideal.blocks[fn].fn)
      BY <2>1, AnalysisStep DEF AnalysisInv
    <2> QED
      BY <1>0, <2>1, <2>2, <2>3, AnalysisSame
  <1>7. CASE EndFunction
    <2>1. /\ ideal' = ideal /\ analysing = "done" /\ analysing' = "idle"
          /\ fn' = fn + Len(BlocksOf(P, P.blocks[fn].fn))
          /\ \E r : P' = [P EXCEPT !.reach = r]
      BY <1>7 DEF EndFunction, NextFunction
    <2>2. fn \in DOMAIN ideal.blocks
      BY <1>1, <1>2, <2>1
    <2>3. Shaped(ideal, P')
      BY <1>0, <2>1, ShapedTwice, SMTT(20)
    <2>4. /\ fn' \in 1..(Len(ideal.blocks) + 1)
          /\ fn' \in DOMAIN ideal.blocks => fn' = Entry(ideal, ideal.blocks[fn'].fn)
          /\ \A b \in 1..(fn' - 1) : b \in 1..(fn - 1) \/ (b \in DOMAIN ideal.blocks /\ ideal.blocks[b].fn = ideal.blocks[fn].fn)
      <3>1. fn = Entry(ideal, ideal.blocks[fn].fn) /\ fn' = fn + Len(BlocksOf(ideal, ideal.blocks[fn].fn))
        BY <1>1, <2>1, <2>2 DEF AnalysisInv
      <3> QED
        BY <1>0, <2>2, <3>1, NextBegins
    <2>5. ASSUME Direct(ideal), NEW b \in 1..(fn' - 1) PROVE FoundIn(ideal, ideal.blocks[b].fn, P'.reach)
      <3>1. /\ FoundIn(ideal, ideal.blocks[fn].fn, P'.reach)
            /\ \A g : FoundIn(ideal, g, P.reach) => FoundIn(ideal, g, P'.reach)
        BY <1>1, <1>2, <1>7, <2>2, <2>5, EndFinds
      <3>2. CASE b \in 1..(fn - 1)
        BY <2>5, <3>1, <3>2 DEF AnalysisInv
      <3>3. CASE b \notin 1..(fn - 1)
        BY <2>4, <2>5, <3>1, <3>3
      <3> QED
        BY <3>2, <3>3
    <2>8. ASSUME NEW b \in 1..(fn' - 1) PROVE LocalIn(ideal, ideal.blocks[b].fn, P'.reach)
      <3>1. /\ LocalIn(ideal, ideal.blocks[fn].fn, P'.reach)
            /\ \A g : LocalIn(ideal, g, P.reach) => LocalIn(ideal, g, P'.reach)
        BY <1>1, <1>2, <1>7, <2>2, EndLocal
      <3>2. CASE b \in 1..(fn - 1)
        BY <2>8, <3>1, <3>2 DEF AnalysisInv
      <3>3. CASE b \notin 1..(fn - 1)
        BY <2>4, <2>8, <3>1, <3>3
      <3> QED
        BY <3>2, <3>3
    <2>6. \A b \in 1..(fn' - 1) : /\ LocalIn(ideal', ideal'.blocks[b].fn, P'.reach)
                                  /\ Direct(ideal') => FoundIn(ideal', ideal'.blocks[b].fn, P'.reach)
      BY <2>1, <2>5, <2>8
    <2>7. /\ ideal' \in Programs /\ Shaped(ideal', P') /\ fn' \in 1..(Len(ideal'.blocks) + 1)
          /\ (fn' \in DOMAIN ideal'.blocks => fn' = Entry(ideal', ideal'.blocks[fn'].fn))
      BY <2>1, <2>3, <2>4 DEF AnalysisInv
    <2> QED
      BY <2>1, <2>6, <2>7 DEF AnalysisInv
  <1>8. CASE Slice
    <2>1. Next /\ UNCHANGED ideal /\ UNCHANGED fn /\ UNCHANGED defVars
      BY <1>8 DEF Slice
    <2>2. P' = P
      BY <2>1, SameProgram
    <2> QED
      BY <1>0, <1>3, <2>1, <2>2, AnalysisSame
  <1>9. CASE UNCHANGED passVars
    <2>1. UNCHANGED ideal /\ UNCHANGED fn /\ UNCHANGED defVars /\ P' = P
      BY <1>9 DEF passVars, vars
    <2> QED
      BY <1>0, <1>3, <2>1, AnalysisSame
  <1> QED
    BY <1>4, <1>5, <1>6, <1>7, <1>8, <1>9 DEF PassNext

\* When the slicer begins, the stores that may come to a load are known.
LEMMA AllFound ==
    ASSUME AnalysisInv, fn \notin DOMAIN P.blocks
    PROVE  Verified(P) /\ (Direct(P) => StoresFound(P)) /\ \A f : LocalIn(P, f, P.reach)
  <1>0. /\ WellFormed(ideal) /\ Verified(ideal) /\ Shaped(ideal, P)
        /\ {"params", "succ", "def"} \subseteq DOMAIN ideal
        /\ \E N \in Nat : N = Len(ideal.blocks) /\ DOMAIN ideal.blocks = 1..N
    BY IdealIs
  <1>1. /\ P.blocks = ideal.blocks /\ Ins(P) = Ins(ideal) /\ Places(P) = Places(ideal)
        /\ \A i : Op(P, i) = Op(ideal, i) /\ At(P, i) = At(ideal, i)
        /\ \A s, y : Comes(P, s, y) <=> Comes(ideal, s, y)
        /\ (Direct(P) <=> Direct(ideal)) /\ (Verified(P) <=> Verified(ideal))
        /\ \A f : InsOf(P, f) = InsOf(ideal, f)
    BY <1>0, SameShape
  <1>2. ASSUME NEW x \in Places(ideal)
        PROVE  /\ LocalIn(ideal, ideal.blocks[x[1]].fn, P.reach)
               /\ Direct(ideal) => FoundIn(ideal, ideal.blocks[x[1]].fn, P.reach)
    <2>1. x[1] \in DOMAIN ideal.blocks
      BY <1>0, PlacesType
    <2>2. DOMAIN ideal.blocks = 1..(fn - 1)
      BY <1>0, <1>1 DEF AnalysisInv
    <2> QED
      BY <1>2, <2>1, <2>2 DEF AnalysisInv
  <1>3. ASSUME Direct(ideal), NEW x \in Places(ideal), NEW s \in Ins(ideal), Op(ideal, At(ideal, x)) = "load",
               Op(ideal, s) = "store", Comes(ideal, s, x)
        PROVE  s \in P.reach[At(ideal, x)]
    BY <1>2, <1>3 DEF FoundIn
  <1>4. Direct(P) => StoresFound(P)
    BY <1>1, <1>3 DEF StoresFound
  <1>5. ASSUME NEW f PROVE LocalIn(P, f, P.reach)
    <2>1. ASSUME NEW x \in Places(ideal), ideal.blocks[x[1]].fn = f PROVE P.reach[At(ideal, x)] \subseteq InsOf(ideal, f)
      BY <1>2, <2>1 DEF LocalIn
    <2> QED
      BY <1>1, <2>1 DEF LocalIn
  <1> QED
    BY <1>0, <1>1, <1>4, <1>5

\* findLives has run for all that is marked when deleteIns does.
Expanded == phase = "done" => todo = {}

LEMMA NotOver == Next => phase # "done"
  BY DEF Next, FindLives, FindLivesCrash, SeedFunction, SeedTerminator, SeedInstruction, Seeding, MarkUsers,
         StartInter, EnterFunction, StackOverflow, ScanCall, JudgeCall, LeaveFunction, DeleteIns, Inter

LEMMA ExpandedStep == Expanded /\ [PassNext]_passVars => Expanded'
  <1> SUFFICES ASSUME Expanded, [PassNext]_passVars, phase' = "done" PROVE todo' = {}
    BY DEF Expanded
  <1>1. CASE UNCHANGED phase /\ UNCHANGED todo
    BY <1>1 DEF Expanded
  <1>2. CASE Next
    <2>1. phase # "done"
      BY <1>2, NotOver
    <2>2. DeleteIns
      BY <1>2, <2>1 DEF Next, FindLives, FindLivesCrash, SeedFunction, SeedTerminator, SeedInstruction,
         MarkUsers, StartInter, EnterFunction, StackOverflow, ScanCall, JudgeCall, LeaveFunction
    <2> QED
      BY <2>2 DEF DeleteIns
  <1> QED
    BY <1>1, <1>2 DEF PassNext, BuildFilter, BeginFunction, AnalyseFunction, EndFunction, NextFunction, Slice,
                      passVars, vars

\* When the pass is done it stops.
LEMMA DoneStops ==
    ASSUME PassInv, phase = "done", [PassNext]_passVars
    PROVE  UNCHANGED passVars
  <1>1. ~Fresh
    BY DEF Fresh
  <1>2. filtering = "done" /\ path = <<>> /\ fn \notin DOMAIN P.blocks /\ analysing = "idle"
    BY <1>1 DEF PassInv, InTurn, Begun
  <1>3. ~BuildFilter
    BY <1>2 DEF BuildFilter, Filter!Next, Filter!Begin, Filter!Descend, Filter!Skip,
                Filter!Leave, Filter!EndLoop, Filter!HasNext, Filter!Enter
  <1>4. ~BeginFunction /\ ~AnalyseFunction /\ ~EndFunction
    BY <1>2 DEF BeginFunction, AnalyseFunction, EndFunction
  <1>5. ~Slice
    BY NotOver DEF Slice
  <1> QED
    BY <1>3, <1>4, <1>5 DEF PassNext

LEMMA PassReady ==
    ASSUME PassInv, AnalysisInv, Expanded, phase = "done",
           Direct(P), FilesAlone(P), P.globals = {}, NoneLostIn(Entered)
    PROVE  Ready
  <1>1. ~Fresh
    BY DEF Fresh
  <1>2. fn \notin DOMAIN P.blocks /\ WellFormed(P) /\ StateOK
    BY <1>1 DEF PassInv, InTurn, Begun, SlicerInv
  <1>3. Verified(P) /\ StoresFound(P)
    BY <1>2, AllFound
  <1>4. LiveClosed /\ CriteriaKept /\ ReturnsDecided
    BY PassShows
  <1> QED
    BY <1>2, <1>3, <1>4 DEF Ready, Expanded

LEMMA ReadySame ==
    ASSUME UNCHANGED passVars
    PROVE  (Ready' <=> Ready) /\ UNCHANGED phase /\ UNCHANGED P /\ UNCHANGED live /\ UNCHANGED retUndef
  <1>1. /\ UNCHANGED P /\ UNCHANGED phase /\ UNCHANGED live /\ UNCHANGED todo /\ UNCHANGED blk
        /\ UNCHANGED part /\ UNCHANGED pos /\ UNCHANGED related /\ UNCHANGED retUndef
    BY DEF passVars, vars, cursor
  <1>2. StateOK' <=> StateOK
    BY <1>1 DEF StateOK, CursorOK
  <1>3. Entered' = Entered
    BY <1>1, EnteredSame
  <1>4. NoneLostIn(Entered)' <=> NoneLostIn(Entered)
    BY <1>1, <1>3 DEF NoneLostIn, Lost, Used
  <1>5. (LiveClosed' <=> LiveClosed) /\ (CriteriaKept' <=> CriteriaKept)
    BY <1>1 DEF LiveClosed, CriteriaKept, Kept
  <1>6. ReturnsDecided' <=> ReturnsDecided
    <2>1. AllDecided' <=> AllDecided
      BY <1>1, <1>3 DEF AllDecided
    <2>2. LossesExplained' <=> LossesExplained
      BY <1>1, SameCalls DEF LossesExplained, Lost, Used
    <2> QED
      BY <1>1, <2>1, <2>2 DEF ReturnsDecided
  <1> QED
    BY <1>1, <1>2, <1>4, <1>5, <1>6 DEF Ready

LEMMA RunInvStep ==
    ASSUME PassInv, AnalysisInv, RunInv, [RunNext]_<<passVars, runVars>>
    PROVE  RunInv'
  <1>1. CASE (PassNext /\ UNCHANGED runVars) \/ UNCHANGED <<passVars, runVars>>
    <2>1. UNCHANGED running /\ UNCHANGED frames /\ [PassNext]_passVars
      BY <1>1 DEF runVars
    <2> SUFFICES ASSUME running # "no" PROVE RunInv'
      BY <2>1 DEF RunInv
    <2>2. phase = "done"
      BY DEF RunInv
    <2>3. UNCHANGED passVars
      BY <2>1, <2>2, DoneStops
    <2>4. (Ready' <=> Ready) /\ UNCHANGED phase /\ UNCHANGED P /\ UNCHANGED live /\ UNCHANGED retUndef
      BY <2>3, ReadySame
    <2>5. Ready => FramesOK'
      BY <2>1, <2>4, FramesStay DEF RunInv
    <2> QED
      BY <2>2, <2>4, <2>5 DEF RunInv
  <1>2. CASE Start \/ Allocate \/ Load \/ Store \/ Compute \/ Call \/ Return \/ Leave
    <2>1. Sliced
      BY <1>2 DEF Start, Allocate, Load, Store, Compute, Call, Return, Leave
    <2>2. UNCHANGED passVars
      BY <2>1 DEF Sliced
    <2>3. (Ready' <=> Ready) /\ UNCHANGED phase
      BY <2>2, ReadySame
    <2>4. phase = "done"
      BY <1>2 DEF RunInv, Start, Allocate, Load, Store, Compute, Call, Return, Leave, Active
    <2>5. Ready => FramesOK'
      BY <1>2, ActivationsStep DEF RunInv
    <2> QED
      BY <2>3, <2>4, <2>5 DEF RunInv
  <1> QED
    BY <1>1, <1>2 DEF RunNext

-----------------------------------------------------------------------------
(* Where the program gives no reason to lose a result that is used.        *)

\* No lost result is used then, while the slicer runs.
LEMMA ResultsHold ==
    ASSUME PassInv, ResultsStay, NEW c \in Ins(P), Lost(c)
    PROVE  ~Used(c)
  <1>1. JudgeInv /\ WellFormed(P)
    BY FreshSlicer DEF PassInv, SlicerInv
  <1>2. IsCall(P, c) /\ Callee(P, c) # "none" /\ ~P.fns[Callee(P, c)].decl
    <2>1. IsCall(P, c) /\ Callee(P, c) \in retUndef
      BY DEF Lost
    <2>2. StateOK
      BY FreshSlicer DEF PassInv, SlicerInv
    <2> QED
      BY <1>1, <2>1, <2>2 DEF JudgeInv, StateOK, WellFormed
  <1> QED
    BY <1>1, <1>2 DEF ResultsStay, JudgeInv, LossesBehind

\* In a program without global variables, whose variables have names that tell
\* them apart, which joins no values by phi nodes and gives no opened file to
\* an instruction that has other operands, the slice decides every branch, and
\* passes every call of a function defined in the module, of a fork or of the
\* I/O library, what the program does, but where it uses the result of a call
\* whose function returns undef; and that it does not where each function is
\* called at one place and no other function returns what is made from its
\* result.
THEOREM SliceAgrees == RunSpec => [](P.globals = {} => BranchesAgree)
  <1> DEFINE Inv == PassInv /\ AnalysisInv /\ Expanded /\ RunInv
  <1>1. RunInit => Inv
    BY PassBegins, AnalysisFirst DEF RunInit, Expanded, RunInv, PassInit, Fresh
  <1>2. Inv /\ [RunNext]_<<passVars, runVars>> => Inv'
    BY PassStep, AnalysisNext, ExpandedStep, RunInvStep, RunStep
  <1>3. Inv => (P.globals = {} => BranchesAgree)
    <2> SUFFICES ASSUME Inv, P.globals = {}, Decides, Direct(P), FilesAlone(P), NoneLost \/ ResultsStay
                 PROVE  Same
      BY DEF BranchesAgree
    <2>1. phase = "done" /\ (Ready => FramesOK)
      BY DEF RunInv, Decides
    <2>2. WellFormed(P)
      BY DEF PassInv
    <2>3. NoneLost
      BY ResultsHold DEF NoneLost
    <2>4. NoneLostIn(Entered)
      BY <2>2, <2>3, InsOfType DEF NoneLostIn, NoneLost
    <2> QED
      BY <2>1, <2>4, PassReady, ReadyAgrees
  <1> HIDE DEF Inv
  <1> QED
    BY <1>1, <1>2, <1>3, PTL DEF RunSpec

\* What interFunction's comment says of every program (a return value is
\* replaced by undef if other functions do not use it) is true of those in which
\* each function is called at one place only, main by none, and no function
\* returns a value that depends on the result of a call in another.
THEOREM ResultsKept == RunSpec => [](ResultsStay => UndefOnlyIfUnused)
  <1>1. RunInit => PassInv
    BY PassBegins DEF RunInit
  <1>2. PassInv /\ [RunNext]_<<passVars, runVars>> => PassInv'
    BY PassStep, RunStep
  <1>3. PassInv => (ResultsStay => UndefOnlyIfUnused)
    BY ResultsHold DEF UndefOnlyIfUnused, Lost
  <1> QED
    BY <1>1, <1>2, <1>3, PTL DEF RunSpec

\* Nothing in memory outlives a call.
LocalOnly == P.globals = {} /\ \A i \in Ins(P) : Op(P, i) # "gep"

\* A function returns then what it has made itself.
LEMMA ReturnsOwn ==
    ASSUME WellFormed(P), Verified(P), \A f : LocalIn(P, f, P.reach), LocalOnly, NEW c \in Ins(P)
    PROVE  ~ReturnedElsewhere(c)
  <1> SUFFICES ASSUME NEW f, c \notin InsOf(P, f), NEW u \in Users(P, c) \cap ReturnNeeds(f) PROVE FALSE
    BY DEF ReturnedElsewhere
  <1> DEFINE step == [i \in Ins(P) |-> Deps(P, i)]
  <1>1. ASSUME NEW i \in InsOf(P, f) PROVE Deps(P, i) \subseteq InsOf(P, f)
    <2>1. PICK x \in Places(P) : At(P, x) = i /\ P.blocks[x[1]].fn = f
      BY InsOfPlace
    <2>2. P.ins[i].ops \cap Ins(P) \subseteq InsOf(P, f)
      BY <2>1 DEF Verified
    <2>3. P.reach[i] \subseteq InsOf(P, f)
      BY <2>1 DEF LocalIn
    <2>4. GlobalStores(P, i) = {}
      BY DEF LocalOnly, GlobalStores, GlobalOrGEP
    <2> QED
      BY <2>2, <2>3, <2>4 DEF Deps, ReachingStores
  <1>2. Closed(InsOf(P, f), step)
    BY <1>1 DEF Closed
  <1>3. IsFiniteSet(DOMAIN step)
    BY DEF WellFormed
  <1>4. ReturnedBy(f) \subseteq InsOf(P, f)
    BY DEF ReturnedBy, Returns
  <1>5. ReturnNeeds(f) = ReachedIn(ReturnedBy(f), step)
    BY DEF ReturnNeeds
  <1>6. u \in InsOf(P, f)
    <2> HIDE DEF step
    <2> QED
      BY <1>2, <1>3, <1>4, <1>5, ReachedWithin
  <1>7. PICK x \in Places(P) : At(P, x) = u /\ P.blocks[x[1]].fn = f
    BY <1>6, InsOfPlace
  <1>8. c \in P.ins[u].ops \cap Ins(P)
    BY DEF Users
  <1> QED
    BY <1>7, <1>8 DEF Verified

\* Without global variables and address computations there is one reason only:
\* where the slice uses the result of a call of a function that returns undef,
\* the function is called at another place too, or by the system.
THEOREM LostToAnother ==
    RunSpec => [](phase = "done" /\ LocalOnly => \A c \in Ins(P) : Lost(c) /\ Used(c) => ~OnlyCall(c))
  <1> DEFINE OneReason == phase = "done" /\ LocalOnly => \A c \in Ins(P) : Lost(c) /\ Used(c) => ~OnlyCall(c)
             Inv       == PassInv /\ AnalysisInv
  <1>1. RunInit => Inv
    BY PassBegins, AnalysisFirst DEF RunInit, PassInit
  <1>2. Inv /\ [RunNext]_<<passVars, runVars>> => Inv'
    BY PassStep, AnalysisNext, RunStep
  <1>3. Inv => OneReason
    <2> SUFFICES ASSUME Inv, phase = "done", LocalOnly, NEW c \in Ins(P), Lost(c), Used(c), OnlyCall(c)
                 PROVE  FALSE
      OBVIOUS
    <2>1. ~Fresh
      BY DEF Fresh
    <2>2. SlicerInv /\ WellFormed(P) /\ fn \notin DOMAIN P.blocks
      BY <2>1 DEF PassInv, InTurn, Begun
    <2>3. ReturnedElsewhere(c)
      BY <2>2, LossesHaveReasons DEF SlicerInv, LossesExplained
    <2> QED
      BY <2>2, <2>3, AllFound, ReturnsOwn
  <1> HIDE DEF Inv
  <1> QED
    BY <1>1, <1>2, <1>3, PTL DEF RunSpec
=============================================================================
