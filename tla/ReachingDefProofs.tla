------------------------- MODULE ReachingDefProofs --------------------------
(***************************************************************************)
(* Proofs about ReachingDef, for every set of well-formed functions and    *)
(* every way of printing variables.                                        *)
(***************************************************************************)
EXTENDS ReachingDef, RecursionProofs

\* What the proofs use of well-formedness: blocks are numbered from the entry
\* block 1 on, and nothing jumps to the entry.
LEMMA Shape ==
    ASSUME NEW f \in Functions
    PROVE  /\ Len(f.code) \in Nat /\ 1 \in Blocks(f)
           /\ Blocks(f) = 1..Len(f.code)
           /\ \A b \in Blocks(f) : f.succ[b] \subseteq Blocks(f) /\ 1 \notin f.succ[b]
           /\ Preds(f, 1) = {}
           /\ Args(f) \subseteq Defs(f)
  <1>1. WellFormed(f)
    BY FunctionsAssumption
  <1>2. Len(f.code) \in Nat /\ Len(f.code) > 0
    BY <1>1 DEF WellFormed
  <1>3. \A b \in Blocks(f) : f.succ[b] \subseteq Blocks(f) \ {1}
    BY <1>1 DEF WellFormed
  <1> QED
    BY <1>2, <1>3 DEF Blocks, Preds, Defs

\* Membership in the result of the transfer function.
LEMMA InTransfer ==
    ASSUME NEW f, NEW b, NEW X \in SUBSET Defs(f)
    PROVE  /\ Transfer(f, b, X) \in SUBSET Defs(f)
           /\ \A d \in Defs(f) : d \in Transfer(f, b, X) <=>
                 (LastOfItsKey(f, b, d) \/ (d \in X /\ ~Redefines(f, b, d)))
  BY DEF Transfer, Gen, Kill

LEMMA TransferMonotone ==
    ASSUME NEW f, NEW b, NEW X, NEW Y, X \subseteq Y
    PROVE  Transfer(f, b, X) \subseteq Transfer(f, b, Y)
  BY DEF Transfer

LEMMA RecordedType ==
    ASSUME NEW f, NEW b, NEW k, NEW X \in SUBSET Defs(f)
    PROVE  Recorded(f, b, k, X) \in SUBSET Defs(f)
  BY DEF Recorded, CarriedTo

LEMMA MeetType ==
    ASSUME NEW f, NEW b, NEW val \in [Blocks(f) -> SUBSET Defs(f)]
    PROVE  Meet(f, b, val) \in SUBSET Defs(f)
  BY DEF Meet, Preds

-----------------------------------------------------------------------------
LEMMA TypeStep == TypeOK /\ [Next]_vars => TypeOK'
  <1> SUFFICES ASSUME TypeOK, [Next]_vars PROVE TypeOK'
    OBVIOUS
  <1>0. /\ F \in Functions /\ Len(F.code) \in Nat /\ Blocks(F) = 1..Len(F.code)
    BY Shape DEF TypeOK
  <1>1. CASE VisitBlock
    <2> DEFINE newIn  == IF Preds(F, cur) = {} THEN in[cur] ELSE Meet(F, cur, base)
               newOut == Transfer(F, cur, newIn)
    <2>1. cur \in Blocks(F) /\ F' = F
      BY <1>1 DEF VisitBlock
    <2>2. newIn \in SUBSET Defs(F)
      BY <2>1, MeetType DEF TypeOK
    <2>3. newOut \in SUBSET Defs(F)
      BY <2>2, InTransfer
    <2>4. /\ in' = [in EXCEPT ![cur] = newIn]
          /\ base' = [base EXCEPT ![cur] = newOut]
          /\ out' = [out EXCEPT ![cur] = newOut]
          /\ converged' = (converged /\ newOut = out[cur])
          /\ cur' = cur + 1 /\ pc' = pc /\ reach' = reach
      BY <1>1 DEF VisitBlock
    <2> HIDE DEF newIn, newOut
    <2>5. cur' \in 1..(Len(F.code) + 1)
      BY <1>0, <2>1, <2>4
    <2>6. converged' \in BOOLEAN
      BY <2>4 DEF TypeOK
    <2> QED
      BY <2>1, <2>2, <2>3, <2>4, <2>5, <2>6 DEF TypeOK
  <1>2. CASE NextPass
    BY <1>2, <1>0 DEF NextPass, TypeOK
  <1>3. CASE Converge
    BY <1>3, <1>0 DEF Converge, TypeOK
  <1>4. CASE ExtendBlock
    <2>1. \A i \in Instrs(F) : Recorded(F, cur, i[2], in[cur]) \in SUBSET Defs(F)
      BY <1>4, RecordedType DEF ExtendBlock, TypeOK
    <2>2. reach' \in [Instrs(F) -> SUBSET Defs(F)]
      BY <1>4, <2>1 DEF ExtendBlock, TypeOK
    <2> QED
      BY <1>4, <1>0, <2>2 DEF ExtendBlock, TypeOK
  <1>5. CASE ExtendUnassigned
    BY <1>5 DEF ExtendUnassigned, TypeOK
  <1>6. CASE Return
    BY <1>6 DEF Return, TypeOK
  <1>7. CASE UNCHANGED vars
    BY <1>7 DEF vars, TypeOK
  <1> QED
    BY <1>1, <1>2, <1>3, <1>4, <1>5, <1>6, <1>7 DEF Next

\* The pass keeps its bit vectors within the domain of the function and its
\* block iterator within the block list (DataFlow::run, dealFunction).
THEOREM TypeCorrect == Spec => []TypeOK
  <1>1. Init => TypeOK
    <2> SUFFICES ASSUME Init PROVE TypeOK
      OBVIOUS
    <2>1. F \in Functions
      BY DEF Init, Fresh, AtStart
    <2> QED
      BY <2>1, Shape DEF Init, Fresh, AtStart, TypeOK
  <1> QED
    BY <1>1, TypeStep, PTL DEF Spec

-----------------------------------------------------------------------------
LEMMA MeetMonotone ==
    ASSUME NEW f, NEW b, NEW val, NEW val2,
           \A p \in Preds(f, b) : val[p] \subseteq val2[p]
    PROVE  CurrentIn(f, b, val) \subseteq CurrentIn(f, b, val2)
  BY DEF CurrentIn, Meet

LEMMA CurrentInType ==
    ASSUME NEW f \in Functions, NEW b, NEW val \in [Blocks(f) -> SUBSET Defs(f)]
    PROVE  CurrentIn(f, b, val) \in SUBSET Defs(f)
  BY Shape, MeetType DEF CurrentIn

\* The abstract module's reading of "arrives" uses the same function record.
LEMMA ArrivesDef ==
    ASSUME NEW f, NEW d, NEW b
    PROVE  /\ Abs!Arrives(f, d, b) <=>
                \A S \in SUBSET Blocks(f) : Abs!Carries(f, d, S) => b \in S
           /\ \A S : Abs!Carries(f, d, S) <=>
                /\ d \in Args(f) => 1 \in S
                /\ \A c \in Blocks(f) : LastOfItsKey(f, c, d) => f.succ[c] \subseteq S
                /\ \A c \in S : ~Redefines(f, c, d) => f.succ[c] \subseteq S
  <1>1. Abs!Blocks(f) = Blocks(f) /\ Abs!Args(f) = Args(f)
    BY DEF Abs!Blocks, Blocks, Abs!Args, Args
  <1>2. Abs!Instrs(f) = Instrs(f)
    BY DEF Abs!Blocks, Blocks, Abs!Instrs, Instrs
  <1>3. Abs!Defs(f) = Defs(f)
    BY <1>1, <1>2 DEF Abs!Defs, Defs, Abs!At, At
  <1>4. \A i : Abs!Key(f, i) = Key(f, i)
    BY <1>3 DEF Abs!Key, Key, Abs!DefinedVar, DefinedVar, Abs!At, At
  <1>5. \A c : /\ Abs!LastOfItsKey(f, c, d) <=> LastOfItsKey(f, c, d)
               /\ Abs!Redefines(f, c, d) <=> Redefines(f, c, d)
    BY <1>3, <1>4 DEF Abs!LastOfItsKey, LastOfItsKey, Abs!Redefines, Redefines
  <1> QED
    BY <1>1, <1>5 DEF Abs!Arrives, Abs!Carries

LEMMA AbsDefs == \A f : Abs!Defs(f) = Defs(f) /\ Abs!Blocks(f) = Blocks(f)
  BY DEF Abs!Defs, Defs, Abs!At, At, Abs!Instrs, Instrs, Abs!Args, Args,
         Abs!Blocks, Blocks

-----------------------------------------------------------------------------
LEMMA InitInv == Init => IInv
  <1> SUFFICES ASSUME Init PROVE IInv
    OBVIOUS
  <1>0. F \in Functions
    BY DEF Init, Fresh, AtStart
  <1>1. TypeOK
    BY <1>0, Shape DEF Init, Fresh, AtStart, TypeOK
  <1>2. Synced
    BY DEF Init, Fresh, AtStart, Synced
  <1>3. Boundary
    BY <1>0 DEF Init, Fresh, AtStart, Boundary, CurrentIn
  <1>4. Settled
    BY <1>0, Shape DEF Init, Fresh, AtStart, Settled
  <1>5. Justified
    BY <1>0, ArrivesDef DEF Init, Fresh, AtStart, Justified
  <1>6. Growing
    BY DEF Init, Fresh, AtStart, Growing
  <1> QED
    BY <1>1, <1>2, <1>3, <1>4, <1>5, <1>6 DEF IInv

\* A visit recomputes the block's output from the current results; it never
\* takes a definition away and, when it changes nothing, leaves the results of
\* all blocks as they were.
LEMMA VisitInv == IInv /\ VisitBlock => IInv'
  <1> SUFFICES ASSUME IInv, VisitBlock PROVE IInv'
    OBVIOUS
  <1> DEFINE newIn  == IF Preds(F, cur) = {} THEN in[cur] ELSE Meet(F, cur, base)
             newOut == Transfer(F, cur, newIn)
  <1>1. /\ in' = [in EXCEPT ![cur] = newIn]
        /\ base' = [base EXCEPT ![cur] = newOut]
        /\ out' = [out EXCEPT ![cur] = newOut]
        /\ converged' = (converged /\ newOut = out[cur])
        /\ cur' = cur + 1 /\ pc' = pc /\ F' = F /\ pc = "iterate"
        /\ cur \in Blocks(F)
    BY DEF VisitBlock
  <1>2. TypeOK /\ TypeOK'
    BY TypeStep DEF IInv, Next
  <1>3. /\ F \in Functions /\ Len(F.code) \in Nat /\ Blocks(F) = 1..Len(F.code)
        /\ 1 \in Blocks(F) /\ Preds(F, 1) = {}
    BY <1>2, Shape DEF TypeOK
  <1>4. newIn = CurrentIn(F, cur, base)
    BY <1>1 DEF IInv, Boundary, CurrentIn
  <1>5. newIn \in SUBSET Defs(F)
    <2>1. CurrentIn(F, cur, base) \in SUBSET Defs(F)
      BY <1>2, <1>3, CurrentInType DEF TypeOK
    <2> QED
      BY <2>1, <1>4
  <1>6. newOut \in SUBSET Defs(F) /\ out[cur] \subseteq newOut
    BY <1>1, <1>4, <1>5, InTransfer DEF IInv, Growing
  <1> HIDE DEF newIn, newOut
  <1>7. base' = out'
    <2>1. base' \in [Blocks(F) -> SUBSET Defs(F)] /\ out' \in [Blocks(F) -> SUBSET Defs(F)]
      BY <1>1, <1>2 DEF TypeOK
    <2>2. \A b \in Blocks(F) : base'[b] = out'[b]
      BY <1>1, <1>2 DEF IInv, Synced, TypeOK
    <2> QED
      BY <2>1, <2>2
  <1>8. Synced'
    BY <1>7 DEF Synced
  <1>9. ASSUME base = out
        PROVE  Growing' /\ Settled' /\ \A d \in newIn : Abs!Arrives(F, d, cur)
    <2>1. \A b \in Blocks(F) : base[b] \subseteq base'[b]
      BY <1>1, <1>2, <1>6, <1>9 DEF TypeOK
    <2>2. \A b \in Blocks(F) : CurrentIn(F, b, base) \subseteq CurrentIn(F, b, base')
      BY <2>1, MeetMonotone DEF Preds
    <2>3. Growing'
      <3> SUFFICES ASSUME NEW b \in Blocks(F)
                   PROVE  out'[b] \subseteq Transfer(F, b, CurrentIn(F, b, base'))
        BY <1>1 DEF Growing
      <3>1. out'[b] \subseteq Transfer(F, b, CurrentIn(F, b, base))
        BY <1>1, <1>2, <1>4 DEF IInv, Growing, TypeOK, newOut
      <3>2. Transfer(F, b, CurrentIn(F, b, base)) \subseteq Transfer(F, b, CurrentIn(F, b, base'))
        BY <2>2, TransferMonotone
      <3> QED
        BY <3>1, <3>2
    <2>4. Settled'
      <3> SUFFICES ASSUME NEW b \in Blocks(F), converged', b < cur'
                   PROVE  in'[b] = CurrentIn(F, b, base') /\ base'[b] = Transfer(F, b, in'[b])
        BY <1>1 DEF Settled, AtFixpoint
      <3>1. newOut = out[cur] /\ converged
        BY <1>1
      <3>2. base' = base
        BY <1>1, <1>2, <1>9, <3>1 DEF TypeOK
      <3>3. CASE b = cur
        BY <3>2, <3>3, <1>1, <1>2, <1>4 DEF TypeOK, newOut
      <3>4. CASE b # cur
        <4>1. b < cur
          BY <3>4, <1>1, <1>3
        <4>2. AtFixpoint(b)
          BY <4>1, <3>1 DEF IInv, Settled
        <4> QED
          BY <4>2, <3>2, <3>4, <1>1, <1>2 DEF AtFixpoint, TypeOK
      <3> QED
        BY <3>3, <3>4
    <2>5. \A d \in newIn : Abs!Arrives(F, d, cur)
      <3>1. CASE Preds(F, cur) = {}
        BY <3>1, <1>1 DEF IInv, Justified, newIn
      <3>2. CASE Preds(F, cur) # {}
        <4> SUFFICES ASSUME NEW d \in newIn PROVE Abs!Arrives(F, d, cur)
          OBVIOUS
        <4>1. PICK p \in Preds(F, cur) : d \in out[p]
          BY <3>2, <1>9 DEF newIn, Meet
        <4>2. p \in Blocks(F) /\ cur \in F.succ[p]
          BY <4>1 DEF Preds
        <4> QED
          BY <4>1, <4>2 DEF IInv, Justified
      <3> QED
        BY <3>1, <3>2
    <2> QED
      BY <2>3, <2>4, <2>5
  <1>10. ASSUME cur = 1, \A b \in Blocks(F) : out[b] = {} /\ (b # 1 => base[b] = {})
         PROVE  Growing' /\ Settled' /\ \A d \in newIn : Abs!Arrives(F, d, cur)
    <2>0. CurrentIn(F, 1, base) = CurrentIn(F, 1, base')
      BY <1>3 DEF CurrentIn
    <2>1. Growing'
      <3> SUFFICES ASSUME NEW b \in Blocks(F)
                   PROVE  out'[b] \subseteq Transfer(F, b, CurrentIn(F, b, base'))
        BY <1>1 DEF Growing
      <3>1. CASE b = 1
        BY <3>1, <1>1, <1>2, <1>4, <1>10, <2>0 DEF newOut, TypeOK
      <3>2. CASE b # 1
        BY <3>2, <1>1, <1>2, <1>10 DEF TypeOK
      <3> QED
        BY <3>1, <3>2
    <2>2. Settled'
      <3> SUFFICES ASSUME NEW b \in Blocks(F), b < cur'
                   PROVE  in'[b] = CurrentIn(F, b, base') /\ base'[b] = Transfer(F, b, in'[b])
        BY <1>1 DEF Settled, AtFixpoint
      <3>1. b = 1
        BY <1>1, <1>3, <1>10
      <3> QED
        BY <3>1, <1>1, <1>2, <1>4, <1>10, <2>0 DEF newOut, TypeOK
    <2>3. \A d \in newIn : Abs!Arrives(F, d, cur)
      BY <1>3, <1>10 DEF newIn, IInv, Justified
    <2> QED
      BY <2>1, <2>2, <2>3
  <1>11. Growing' /\ Settled' /\ \A d \in newIn : Abs!Arrives(F, d, cur)
    BY <1>9, <1>10 DEF IInv, Synced
  <1>12. \A d \in newOut : \A c \in F.succ[cur] : Abs!Arrives(F, d, c)
    <2> SUFFICES ASSUME NEW d \in newOut, NEW c \in F.succ[cur],
                        NEW S \in SUBSET Blocks(F), Abs!Carries(F, d, S)
                 PROVE  c \in S
      BY ArrivesDef
    <2>1. LastOfItsKey(F, cur, d) \/ (d \in newIn /\ ~Redefines(F, cur, d))
      BY <1>5, <1>6, InTransfer DEF newOut
    <2>2. CASE LastOfItsKey(F, cur, d)
      BY <2>2, <1>1, ArrivesDef
    <2>3. CASE d \in newIn /\ ~Redefines(F, cur, d)
      <3>1. cur \in S
        BY <2>3, <1>11, ArrivesDef
      <3> QED
        BY <3>1, <2>3, ArrivesDef
    <2> QED
      BY <2>1, <2>2, <2>3
  <1>13. Justified'
    <2> SUFFICES ASSUME NEW b \in Blocks(F)
                 PROVE  /\ \A d \in in'[b] : Abs!Arrives(F, d, b)
                        /\ \A d \in out'[b] : \A c \in F.succ[b] : Abs!Arrives(F, d, c)
      BY <1>1 DEF Justified
    <2>1. CASE b = cur
      BY <2>1, <1>1, <1>2, <1>11, <1>12 DEF TypeOK
    <2>2. CASE b # cur
      BY <2>2, <1>1, <1>2 DEF TypeOK, IInv, Justified
    <2> QED
      BY <2>1, <2>2
  <1>14. Boundary'
    <2> SUFFICES ASSUME NEW b \in Blocks(F), Preds(F, b) = {}
                 PROVE  in'[b] = CurrentIn(F, b, base')
      BY <1>1 DEF Boundary
    <2>1. in[b] = CurrentIn(F, b, base) /\ CurrentIn(F, b, base') = CurrentIn(F, b, base)
      BY DEF IInv, Boundary, CurrentIn
    <2> QED
      BY <2>1, <1>1, <1>2, <1>4 DEF TypeOK
  <1> QED
    BY <1>2, <1>8, <1>11, <1>13, <1>14 DEF IInv

LEMMA ConvergeInv == IInv /\ Converge => IInv'
  <1> SUFFICES ASSUME IInv, Converge PROVE IInv'
    OBVIOUS
  <1>1. TypeOK /\ TypeOK'
    BY TypeStep DEF IInv, Next
  <1>2. /\ F \in Functions /\ Len(F.code) \in Nat /\ Blocks(F) = 1..Len(F.code)
        /\ 1 \in Blocks(F)
    BY <1>1, Shape DEF TypeOK
  <1>3. /\ converged /\ cur \notin Blocks(F)
        /\ UNCHANGED <<F, in, out, base>>
    BY DEF Converge
  <1>4. base = out
    BY <1>2, <1>3 DEF IInv, Synced
  <1>5. Synced'
    BY <1>3, <1>4 DEF Synced
  <1>6. \A b \in Blocks(F) : b < cur
    BY <1>1, <1>2, <1>3 DEF TypeOK
  <1>7. Settled'
    BY <1>3, <1>6 DEF IInv, Settled, AtFixpoint
  <1>8. Boundary' /\ Justified' /\ Growing'
    BY <1>3 DEF IInv, Boundary, Justified, Growing
  <1> QED
    BY <1>1, <1>5, <1>7, <1>8 DEF IInv

LEMMA StepInv == IInv /\ [Next]_vars => IInv'
  <1> SUFFICES ASSUME IInv, [Next]_vars PROVE IInv'
    OBVIOUS
  <1>1. TypeOK /\ TypeOK'
    BY TypeStep DEF IInv
  <1>2. CASE VisitBlock
    BY <1>2, VisitInv
  <1>3. CASE Converge
    BY <1>3, ConvergeInv
  <1>4. CASE NextPass
    <2>1. /\ UNCHANGED <<F, pc, in, out, base>> /\ cur' = 1 /\ pc = "iterate"
          /\ cur # 1
      BY <1>1, <1>4, Shape DEF NextPass, TypeOK
    <2>2. \A b \in Blocks(F) : ~(b < 1)
      BY <1>1, Shape DEF TypeOK
    <2>3. Synced' /\ Boundary' /\ Justified' /\ Growing'
      BY <2>1 DEF IInv, Synced, Boundary, Justified, Growing
    <2>4. Settled'
      BY <2>1, <2>2 DEF Settled
    <2> QED
      BY <1>1, <2>3, <2>4 DEF IInv
  <1>5. CASE ExtendBlock \/ ExtendUnassigned \/ Return
    <2>1. UNCHANGED <<F, in, out, base>> /\ pc = "extend" /\ pc' # "iterate"
      BY <1>5 DEF ExtendBlock, ExtendUnassigned, Return
    <2>2. Synced' /\ Boundary' /\ Justified' /\ Growing'
      BY <2>1 DEF IInv, Synced, Boundary, Justified, Growing
    <2>3. Settled'
      BY <2>1 DEF IInv, Settled, AtFixpoint
    <2> QED
      BY <1>1, <2>2, <2>3 DEF IInv
  <1>6. CASE UNCHANGED vars
    <2>1. Synced' /\ Boundary' /\ Justified' /\ Growing' /\ Settled'
      BY <1>6 DEF vars, IInv, Synced, Boundary, Justified, Growing, Settled, AtFixpoint
    <2> QED
      BY <1>1, <2>1 DEF IInv
  <1> QED
    BY <1>2, <1>3, <1>4, <1>5, <1>6 DEF Next

\* The inductive invariant holds throughout the pass.
THEOREM Invariant == Spec => []IInv
  BY InitInv, StepInv, PTL DEF Spec

-----------------------------------------------------------------------------
\* DataFlow::run never takes a definition back from a block's output: the
\* outputs grow within the finite domain, which is why the loop ends.
THEOREM Monotone == Spec => OutputsGrow
  <1>1. IInv /\ [Next]_vars => [\A b \in Blocks(F) : out[b] \subseteq out'[b]]_vars
    <2> SUFFICES ASSUME IInv, Next, NEW b \in Blocks(F) PROVE out[b] \subseteq out'[b]
      OBVIOUS
    <2>1. CASE VisitBlock
      <3> DEFINE newIn == IF Preds(F, cur) = {} THEN in[cur] ELSE Meet(F, cur, base)
      <3>1. newIn = CurrentIn(F, cur, base)
        BY <2>1 DEF VisitBlock, IInv, Boundary, CurrentIn
      <3>2. out[cur] \subseteq Transfer(F, cur, newIn)
        BY <2>1, <3>1 DEF VisitBlock, IInv, Growing
      <3>3. out' = [out EXCEPT ![cur] = Transfer(F, cur, newIn)]
        BY <2>1 DEF VisitBlock
      <3> QED
        BY <3>2, <3>3 DEF IInv, TypeOK
    <2>2. CASE ~VisitBlock
      BY <2>2 DEF Next, NextPass, Converge, ExtendBlock, ExtendUnassigned, Return
    <2> QED
      BY <2>1, <2>2
  <1> QED
    BY <1>1, Invariant, PTL DEF Spec, OutputsGrow

\* When the iteration stops, its inputs are the exact solution: every
\* definition that arrives was found (the found blocks are closed under
\* propagation) and nothing else was (Justified).
LEMMA ExactAtConvergence ==
    ASSUME IInv, Converge
    PROVE  in = Abs!Solution(F)
  <1>1. IInv' /\ F' = F /\ in' = in /\ base' = base /\ out' = out /\ pc' = "extend"
    BY ConvergeInv DEF Converge
  <1>2. /\ F \in Functions /\ 1 \in Blocks(F) /\ Preds(F, 1) = {}
        /\ Args(F) \subseteq Defs(F)
        /\ \A b \in Blocks(F) : F.succ[b] \subseteq Blocks(F)
    BY Shape DEF IInv, TypeOK
  <1>3. \A b \in Blocks(F) : in[b] = CurrentIn(F, b, base) /\ base[b] = Transfer(F, b, in[b])
    BY <1>1 DEF IInv, Settled, AtFixpoint
  <1>4. in \in [Blocks(F) -> SUBSET Defs(F)]
    BY DEF IInv, TypeOK
  <1>5. ASSUME NEW b \in Blocks(F), NEW d \in Defs(F)
        PROVE  d \in in[b] <=> Abs!Arrives(F, d, b)
    <2>1. ASSUME d \in in[b] PROVE Abs!Arrives(F, d, b)
      BY <2>1 DEF IInv, Justified
    <2>2. ASSUME Abs!Arrives(F, d, b) PROVE d \in in[b]
      <3> DEFINE S == {c \in Blocks(F) : d \in in[c]}
      <3>1. d \in Args(F) => 1 \in S
        BY <1>2, <1>3 DEF CurrentIn
      <3>2. ASSUME NEW c \in Blocks(F), d \in base[c], NEW s \in F.succ[c]
            PROVE  s \in S
        <4>1. s \in Blocks(F) /\ c \in Preds(F, s)
          BY <3>2, <1>2 DEF Preds
        <4>2. d \in Meet(F, s, base)
          BY <4>1, <3>2 DEF Meet
        <4> QED
          BY <4>1, <4>2, <1>3 DEF CurrentIn
      <3>3. ASSUME NEW c \in Blocks(F), LastOfItsKey(F, c, d)
            PROVE  F.succ[c] \subseteq S
        BY <3>2, <3>3, <1>3, <1>4, InTransfer
      <3>4. ASSUME NEW c \in S, ~Redefines(F, c, d)
            PROVE  F.succ[c] \subseteq S
        BY <3>2, <3>4, <1>3, <1>4, InTransfer
      <3>5. Abs!Carries(F, d, S)
        BY <3>1, <3>3, <3>4, ArrivesDef
      <3>6. S \in SUBSET Blocks(F)
        OBVIOUS
      <3>7. b \in S
        BY <2>2, <3>5, <3>6, ArrivesDef
      <3> QED
        BY <3>7
    <2> QED
      BY <2>1, <2>2
  <1>6. Abs!Solution(F) = [b \in Blocks(F) |-> {d \in Defs(F) : Abs!Arrives(F, d, b)}]
    BY AbsDefs DEF Abs!Solution
  <1> QED
    BY <1>4, <1>5, <1>6

\* The pass implements ReachingSpec: its first answer is the exact solution
\* and it is never revised.
THEOREM Refinement == Spec => Implements
  <1>1. Init => Abs!Init
    BY AbsDefs DEF Init, Abs!Init, Fresh, AtStart
  <1>2. IInv /\ [Next]_vars =>
           [Abs!Solve]_<<F, pc # "iterate",
                         IF pc = "iterate" THEN [b \in Blocks(F) |-> {}] ELSE in>>
    <2> SUFFICES ASSUME IInv, [Next]_vars
                 PROVE  \/ Abs!Solve
                        \/ UNCHANGED <<F, pc # "iterate",
                              IF pc = "iterate" THEN [b \in Blocks(F) |-> {}] ELSE in>>
      OBVIOUS
    <2>1. CASE Converge
      <3>1. in' = Abs!Solution(F) /\ F' = F /\ pc = "iterate" /\ pc' = "extend"
        BY <2>1, ExactAtConvergence DEF Converge
      <3> QED
        BY <3>1 DEF Abs!Solve
    <2>2. CASE VisitBlock \/ NextPass
      <3>1. F' = F /\ pc = "iterate" /\ pc' = "iterate"
        BY <2>2 DEF VisitBlock, NextPass
      <3> QED
        BY <3>1
    <2>3. CASE ExtendBlock \/ ExtendUnassigned \/ Return
      <3>1. F' = F /\ in' = in /\ pc # "iterate" /\ pc' # "iterate"
        BY <2>3 DEF ExtendBlock, ExtendUnassigned, Return
      <3> QED
        BY <3>1
    <2>4. CASE UNCHANGED vars
      BY <2>4 DEF vars
    <2> QED
      BY <2>1, <2>2, <2>3, <2>4 DEF Next
  <1> QED
    BY <1>1, <1>2, Invariant, PTL DEF Spec, Implements, Abs!Spec

-----------------------------------------------------------------------------
(* InsReach.                                                               *)

LEMMA Instructions ==
    ASSUME NEW f \in Functions
    PROVE  /\ \A b \in Blocks(f) : Len(f.code[b]) \in Nat /\ Len(f.code[b]) > 0
           /\ \A b \in Blocks(f) : \A k \in 1..Len(f.code[b]) : <<b, k>> \in Instrs(f)
           /\ \A i \in Instrs(f) : /\ i = <<i[1], i[2]>> /\ i[1] \in Blocks(f)
                                   /\ i[2] \in 1..Len(f.code[i[1]])
           /\ \A d \in Defs(f) : /\ d[1] = 0 <=> d \in Args(f)
                                 /\ d[1] # 0 => d \in Instrs(f)
           /\ IsFiniteSet(Instrs(f))
  <1>1. WellFormed(f)
    BY FunctionsAssumption
  <1>2. /\ Len(f.code) \in Nat /\ Blocks(f) = 1..Len(f.code)
        /\ \A b \in Blocks(f) : /\ DOMAIN f.code[b] = 1..Len(f.code[b])
                                /\ Len(f.code[b]) \in Nat /\ Len(f.code[b]) > 0
    BY <1>1 DEF WellFormed, Blocks
  <1>3. \A b \in Blocks(f) : \A k \in 1..Len(f.code[b]) : <<b, k>> \in Instrs(f)
    BY <1>2 DEF Instrs
  <1>4. \A i \in Instrs(f) : /\ i = <<i[1], i[2]>> /\ i[1] \in Blocks(f)
                             /\ i[2] \in 1..Len(f.code[i[1]])
    BY <1>2 DEF Instrs
  <1>5. \A d \in Defs(f) : (d[1] = 0 <=> d \in Args(f)) /\ (d[1] # 0 => d \in Instrs(f))
    <2>1. \A d \in Args(f) : d[1] = 0
      BY DEF Args
    <2>2. \A d \in Instrs(f) : d[1] # 0
      BY <1>2, <1>4
    <2> QED
      BY <2>1, <2>2 DEF Defs
  <1>6. IsFiniteSet(Instrs(f))
    <2> DEFINE of(b) == {b} \X DOMAIN f.code[b]
    <2>1. ASSUME NEW b \in Blocks(f) PROVE IsFiniteSet(of(b))
      <3>1. IsFiniteSet({b}) /\ IsFiniteSet(1..Len(f.code[b]))
        <4>1. Len(f.code[b]) \in Int /\ 1 \in Int
          BY <1>2
        <4> QED
          BY <4>1, FS_Interval, FS_Singleton
      <3>2. IsFiniteSet({b} \X (1..Len(f.code[b])))
        BY <3>1, FS_Product
      <3> QED
        BY <1>2, <3>2
    <2>2. IsFiniteSet(Blocks(f))
      BY <1>2, FS_Interval
    <2>3. IsFiniteSet({of(b) : b \in Blocks(f)})
      <3> DEFINE Sets == [b \in Blocks(f) |-> of(b)]
      <3> HIDE DEF of
      <3>1. Sets \in Surjection(Blocks(f), {of(b) : b \in Blocks(f)})
        BY DEF Surjection
      <3> QED
        BY <2>2, <3>1, FS_Surjection
    <2> QED
      BY <2>1, <2>3, FS_UNION DEF Instrs
  <1> QED
    BY <1>2, <1>3, <1>4, <1>5, <1>6

LEMMA FlowByKey ==
    ASSUME NEW f \in Functions, KeysDistinguish(f), NEW d \in Defs(f)
    PROVE  /\ DOMAIN Flow(f, d) = Instrs(f)
           /\ \A i \in Instrs(f) :
                 Flow(f, d)[i] = IF Key(f, i) # Key(f, d) THEN InstrSucc(f, i) ELSE {}
  <1>1. \A i : Lets(f, d, i) <=> Key(f, i) # Key(f, d)
    BY DEF Lets, Key, KeysDistinguish
  <1> QED
    BY <1>1 DEF Flow

\* Where a definition can be carried from one instruction to the next
CarriedAlong(f, d, C) ==
    /\ d[1] = 0 => <<1, 1>> \in C
    /\ d[1] # 0 => InstrSucc(f, d) \subseteq C
    /\ \A i \in Instrs(f) \cap C : Key(f, i) # Key(f, d) => InstrSucc(f, i) \subseteq C

LEMMA WalksCarry ==
    ASSUME NEW f \in Functions, KeysDistinguish(f), NEW d \in Defs(f)
    PROVE  CarriedAlong(f, d, Walks(f, d))
  <1> DEFINE start == IF d[1] = 0 THEN {<<1, 1>>} ELSE InstrSucc(f, d)
             W     == Walks(f, d)
  <1>1. DOMAIN Flow(f, d) = Instrs(f) /\ IsFiniteSet(Instrs(f))
    BY FlowByKey, Instructions
  <1>2. W = ReachedIn(start, Flow(f, d))
    BY DEF Walks
  <1> HIDE DEF W
  <1>3. start \subseteq W /\ Closed(W, Flow(f, d))
    BY <1>1, <1>2, ReachedClosed
  <1>4. \A i \in Instrs(f) \cap W : Key(f, i) # Key(f, d) => InstrSucc(f, i) \subseteq W
    BY <1>1, <1>3, FlowByKey DEF Closed
  <1> QED
    BY <1>3, <1>4 DEF CarriedAlong, W

LEMMA WalksLeast ==
    ASSUME NEW f \in Functions, KeysDistinguish(f), NEW d \in Defs(f),
           NEW C, CarriedAlong(f, d, C)
    PROVE  Walks(f, d) \subseteq C
  <1> DEFINE start == IF d[1] = 0 THEN {<<1, 1>>} ELSE InstrSucc(f, d)
  <1>1. DOMAIN Flow(f, d) = Instrs(f) /\ IsFiniteSet(Instrs(f))
    BY FlowByKey, Instructions
  <1>2. start \subseteq C /\ Closed(C, Flow(f, d))
    BY <1>1, FlowByKey DEF Closed, CarriedAlong
  <1> HIDE DEF start
  <1>3. ReachedIn(start, Flow(f, d)) \subseteq C
    BY <1>1, <1>2, ReachedWithin
  <1> QED
    BY <1>3 DEF Walks, start

\* Within a block a definition is carried on until it is replaced.
LEMMA CarriedWithin ==
    ASSUME NEW f \in Functions, NEW d, NEW C, CarriedAlong(f, d, C),
           NEW b \in Blocks(f), NEW m \in 1..Len(f.code[b]), NEW k \in m..Len(f.code[b]),
           <<b, m>> \in C, \A j \in m..(k - 1) : Key(f, <<b, j>>) # Key(f, d)
    PROVE  <<b, k>> \in C
  <1> DEFINE Bad == {n \in m..k : <<b, n>> \notin C}
  <1>0. Len(f.code[b]) \in Nat /\ m \in Nat /\ k \in Nat /\ k \in m..k
    <2>1. Len(f.code[b]) \in Nat
      BY Instructions
    <2> QED
      BY <2>1
  <1> SUFFICES ASSUME Bad # {} PROVE FALSE
    BY <1>0
  <1>1. PICK n \in Bad : \A l \in Bad : n <= l
    <2>1. Bad \in SUBSET Nat
      BY <1>0
    <2> HIDE DEF Bad
    <2> QED
      BY <2>1, Least
  <1>2. n \in (m + 1)..k /\ n - 1 \in m..(k - 1) /\ n - 1 \in 1..Len(f.code[b])
    BY <1>0, <1>1
  <1>3. <<b, n - 1>> \in C
    BY <1>0, <1>1, <1>2
  <1> DEFINE p == n - 1
  <1>4. p \in 1..Len(f.code[b]) /\ p < Len(f.code[b]) /\ p + 1 = n /\ p \in m..(k - 1)
    BY <1>0, <1>2
  <1>5. <<b, p>> \in C
    BY <1>3
  <1> HIDE DEF p
  <1>6. <<b, p>> \in Instrs(f) /\ Key(f, <<b, p>>) # Key(f, d)
    BY <1>4, Instructions
  <1>7. InstrSucc(f, <<b, p>>) \subseteq C
    BY <1>5, <1>6 DEF CarriedAlong
  <1>8. <<b, p + 1>> \in InstrSucc(f, <<b, p>>)
    BY <1>4 DEF InstrSucc
  <1> QED
    BY <1>1, <1>4, <1>7, <1>8

\* What no instruction of a block from m on replaces leaves the block.
LEMMA CarriedOut ==
    ASSUME NEW f \in Functions, NEW d, NEW C, CarriedAlong(f, d, C),
           NEW b \in Blocks(f), NEW m \in 1..Len(f.code[b]), <<b, m>> \in C,
           \A j \in m..Len(f.code[b]) : Key(f, <<b, j>>) # Key(f, d)
    PROVE  \A s \in f.succ[b] : <<s, 1>> \in C
  <1> DEFINE n == Len(f.code[b])
  <1>1. n \in Nat /\ n \in m..n /\ n \in 1..n /\ n - 1 < n
    BY Instructions
  <1>2. \A j \in m..(n - 1) : Key(f, <<b, j>>) # Key(f, d)
    BY <1>1
  <1>3. <<b, n>> \in C
    BY <1>1, <1>2, CarriedWithin
  <1>4. <<b, n>> \in Instrs(f) /\ Key(f, <<b, n>>) # Key(f, d)
    BY <1>1, Instructions
  <1>5. InstrSucc(f, <<b, n>>) = {<<s, 1>> : s \in f.succ[b]}
    <2> HIDE DEF n
    <2> QED
      BY <1>1 DEF InstrSucc, n
  <1> QED
    BY <1>3, <1>4, <1>5 DEF CarriedAlong

\* The instructions a definition of the block is not replaced by
LEMMA OtherKeys ==
    ASSUME NEW f \in Functions, KeysDistinguish(f), NEW d \in Defs(f), NEW b \in Blocks(f)
    PROVE  /\ ~Redefines(f, b, d) <=>
                 \A j \in 1..Len(f.code[b]) : Key(f, <<b, j>>) # Key(f, d)
           /\ d[1] = b => (LastOfItsKey(f, b, d) <=>
                 \A j \in (d[2] + 1)..Len(f.code[b]) : Key(f, <<b, j>>) # Key(f, d))
  <1>0. /\ Len(f.code[b]) \in Nat /\ b \in Nat /\ b # 0
        /\ \A j : <<b, j>>[1] = b /\ <<b, j>>[2] = j
    BY Shape, Instructions
  <1>1. \A i : i \notin Defs(f) => Key(f, i) # Key(f, d)
    BY DEF Key, KeysDistinguish
  <1>2. \A e \in Defs(f) : e[1] = b => e = <<b, e[2]>> /\ e[2] \in 1..Len(f.code[b])
    BY <1>0, Instructions
  <1>3. ~Redefines(f, b, d) <=>
           \A j \in 1..Len(f.code[b]) : Key(f, <<b, j>>) # Key(f, d)
    <2>1. ASSUME ~Redefines(f, b, d), NEW j \in 1..Len(f.code[b])
          PROVE  Key(f, <<b, j>>) # Key(f, d)
      BY <2>1, <1>0, <1>1 DEF Redefines
    <2>2. ASSUME \A j \in 1..Len(f.code[b]) : Key(f, <<b, j>>) # Key(f, d),
                 NEW e \in Defs(f), e[1] = b
          PROVE  Key(f, e) # Key(f, d)
      BY <2>2, <1>2
    <2> QED
      BY <2>1, <2>2 DEF Redefines
  <1>4. ASSUME d[1] = b
        PROVE  LastOfItsKey(f, b, d) <=>
                  \A j \in (d[2] + 1)..Len(f.code[b]) : Key(f, <<b, j>>) # Key(f, d)
    <2>0. d[2] \in 1..Len(f.code[b])
      BY <1>2, <1>4
    <2>1. ASSUME LastOfItsKey(f, b, d), NEW j \in (d[2] + 1)..Len(f.code[b])
          PROVE  Key(f, <<b, j>>) # Key(f, d)
      <3>1. j > d[2]
        BY <1>0, <2>0
      <3> QED
        BY <2>1, <3>1, <1>0, <1>1 DEF LastOfItsKey
    <2>2. ASSUME \A j \in (d[2] + 1)..Len(f.code[b]) : Key(f, <<b, j>>) # Key(f, d),
                 NEW e \in Defs(f), e[1] = b, e[2] > d[2]
          PROVE  Key(f, e) # Key(f, d)
      <3>1. e[2] \in (d[2] + 1)..Len(f.code[b]) /\ e = <<b, e[2]>>
        BY <1>0, <1>2, <2>0, <2>2
      <3> QED
        BY <2>2, <3>1
    <2> QED
      BY <1>4, <2>1, <2>2 DEF LastOfItsKey
  <1> QED
    BY <1>3, <1>4

\* Definition d is carried to instruction k of block b: it arrives at the block
\* and nothing before k replaces it, or it stands in the block itself.
CarriesIn(f, d, b, k, arrives) ==
    \/ arrives /\ \A j \in 1..(k - 1) : Key(f, <<b, j>>) # Key(f, d)
    \/ d[1] = b /\ d[2] < k /\ \A j \in (d[2] + 1)..(k - 1) : Key(f, <<b, j>>) # Key(f, d)

\* What arrives at a block is carried to its first instruction.
LEMMA ArrivesCarried ==
    ASSUME NEW f \in Functions, KeysDistinguish(f), NEW d \in Defs(f),
           NEW C, CarriedAlong(f, d, C), NEW b \in Blocks(f), Abs!Arrives(f, d, b)
    PROVE  <<b, 1>> \in C
  <1> DEFINE S == {c \in Blocks(f) : <<c, 1>> \in C}
  <1>1. /\ 1 \in Blocks(f) /\ \A c \in Blocks(f) : f.succ[c] \subseteq Blocks(f)
        /\ Args(f) \subseteq Defs(f)
        /\ \A c \in Blocks(f) : c \in Nat /\ c # 0
    BY Shape
  <1>2. \A c \in Blocks(f) : 1 \in 1..Len(f.code[c]) /\ Len(f.code[c]) \in Nat
    BY Instructions
  <1>3. d \in Args(f) => 1 \in S
    BY <1>1, Instructions DEF CarriedAlong
  <1>4. ASSUME NEW c \in Blocks(f), LastOfItsKey(f, c, d) PROVE f.succ[c] \subseteq S
    <2>1. d[1] = c /\ d \in Instrs(f) /\ d[2] \in 1..Len(f.code[c])
      BY <1>1, <1>4, Instructions DEF LastOfItsKey
    <2>2. \A j \in (d[2] + 1)..Len(f.code[c]) : Key(f, <<c, j>>) # Key(f, d)
      BY <1>4, <2>1, OtherKeys
    <2>3. InstrSucc(f, d) \subseteq C
      BY <1>1, <2>1 DEF CarriedAlong
    <2>4. CASE d[2] < Len(f.code[c])
      <3> DEFINE m == d[2] + 1
      <3>1. m \in 1..Len(f.code[c])
        BY <1>2, <2>1, <2>4
      <3>2. <<c, m>> \in C
        BY <2>1, <2>3, <2>4 DEF InstrSucc
      <3> HIDE DEF m
      <3>3. \A s \in f.succ[c] : <<s, 1>> \in C
        BY <2>2, <3>1, <3>2, CarriedOut DEF m
      <3> QED
        BY <1>1, <3>3
    <2>5. CASE ~(d[2] < Len(f.code[c]))
      BY <1>1, <2>1, <2>3, <2>5 DEF InstrSucc
    <2> QED
      BY <2>4, <2>5
  <1>5. ASSUME NEW c \in S, ~Redefines(f, c, d) PROVE f.succ[c] \subseteq S
    <2>1. \A j \in 1..Len(f.code[c]) : Key(f, <<c, j>>) # Key(f, d)
      BY <1>5, OtherKeys
    <2>2. \A s \in f.succ[c] : <<s, 1>> \in C
      BY <1>2, <2>1, CarriedOut
    <2> QED
      BY <1>1, <2>2
  <1>6. Abs!Carries(f, d, S)
    BY <1>3, <1>4, <1>5, ArrivesDef
  <1>7. S \in SUBSET Blocks(f)
    OBVIOUS
  <1>8. b \in S
    <2> HIDE DEF S
    <2> QED
      BY <1>6, <1>7, ArrivesDef
  <1> QED
    BY <1>8

\* The definitions carried through a block to k are those that walk there.
LEMMA CarriedWalks ==
    ASSUME NEW f \in Functions, KeysDistinguish(f), NEW d \in Defs(f),
           NEW b \in Blocks(f), NEW k \in 1..Len(f.code[b]),
           CarriesIn(f, d, b, k, Abs!Arrives(f, d, b))
    PROVE  <<b, k>> \in Walks(f, d)
  <1> DEFINE W == Walks(f, d)
  <1>1. CarriedAlong(f, d, W)
    BY WalksCarry
  <1> HIDE DEF W
  <1>2. Len(f.code[b]) \in Nat /\ b \in Nat /\ b # 0
    BY Shape, Instructions
  <1>3. CASE Abs!Arrives(f, d, b) /\ \A j \in 1..(k - 1) : Key(f, <<b, j>>) # Key(f, d)
    <2>1. <<b, 1>> \in W
      BY <1>1, <1>3, ArrivesCarried
    <2>2. 1 \in 1..Len(f.code[b]) /\ k \in 1..Len(f.code[b])
      BY <1>2
    <2>3. <<b, k>> \in W
      BY <1>1, <1>3, <2>1, <2>2, CarriedWithin
    <2> QED
      BY <2>3 DEF W
  <1>4. CASE /\ d[1] = b /\ d[2] < k
             /\ \A j \in (d[2] + 1)..(k - 1) : Key(f, <<b, j>>) # Key(f, d)
    <2> DEFINE m == d[2] + 1
    <2>1. d \in Instrs(f) /\ d[2] \in 1..Len(f.code[b])
      BY <1>2, <1>4, Instructions
    <2>2. m \in 1..Len(f.code[b]) /\ k \in m..Len(f.code[b]) /\ d[2] < Len(f.code[b])
      BY <1>2, <1>4, <2>1
    <2>3. <<b, m>> \in W
      BY <1>1, <1>2, <1>4, <2>1, <2>2 DEF CarriedAlong, InstrSucc
    <2>4. \A j \in m..(k - 1) : Key(f, <<b, j>>) # Key(f, d)
      BY <1>4
    <2> HIDE DEF m
    <2>5. <<b, k>> \in W
      BY <1>1, <2>2, <2>3, <2>4, CarriedWithin
    <2> QED
      BY <2>5 DEF W
  <1> QED
    BY <1>3, <1>4 DEF CarriesIn

\* Where a definition is carried to according to the blocks it arrives at
CarriedPoints(f, d) ==
    {i \in Instrs(f) : CarriesIn(f, d, i[1], i[2], Abs!Arrives(f, d, i[1]))}

LEMMA PointsAlong ==
    ASSUME NEW f \in Functions, KeysDistinguish(f), NEW d \in Defs(f)
    PROVE  CarriedAlong(f, d, CarriedPoints(f, d))
  <1> DEFINE C == CarriedPoints(f, d)
  <1>1. /\ 1 \in Blocks(f)
        /\ \A b \in Blocks(f) : /\ f.succ[b] \subseteq Blocks(f)
                                /\ b \in Nat /\ b # 0 /\ Len(f.code[b]) \in Nat
                                /\ 1 \in 1..Len(f.code[b])
    BY Shape, Instructions
  <1>2. ASSUME NEW b \in Blocks(f), NEW k \in 1..Len(f.code[b]),
               CarriesIn(f, d, b, k, Abs!Arrives(f, d, b))
        PROVE  <<b, k>> \in C
    <2>1. <<b, k>> \in Instrs(f)
      BY Instructions
    <2> QED
      BY <1>2, <2>1 DEF CarriedPoints
  <1>3. ASSUME NEW b \in Blocks(f), Abs!Arrives(f, d, b) PROVE <<b, 1>> \in C
    <2>1. CarriesIn(f, d, b, 1, Abs!Arrives(f, d, b))
      BY <1>3 DEF CarriesIn
    <2> QED
      BY <1>1, <1>2, <2>1
  <1>4. ASSUME NEW b \in Blocks(f), \/ LastOfItsKey(f, b, d)
                                    \/ Abs!Arrives(f, d, b) /\ ~Redefines(f, b, d)
        PROVE  \A s \in f.succ[b] : <<s, 1>> \in C
    <2>1. \A s \in f.succ[b] : Abs!Arrives(f, d, s)
      BY <1>1, <1>4, ArrivesDef
    <2> QED
      BY <1>1, <1>3, <2>1
  <1>5. d[1] = 0 => <<1, 1>> \in C
    <2>1. d[1] = 0 => Abs!Arrives(f, d, 1)
      BY Instructions, ArrivesDef
    <2> QED
      BY <1>1, <1>3, <2>1
  <1>6. d[1] # 0 => InstrSucc(f, d) \subseteq C
    <2> SUFFICES ASSUME d[1] # 0 PROVE InstrSucc(f, d) \subseteq C
      OBVIOUS
    <2> DEFINE b == d[1]
    <2>1. b \in Blocks(f) /\ d[2] \in 1..Len(f.code[b])
      BY Instructions
    <2>2. CASE d[2] < Len(f.code[b])
      <3>1. d[2] + 1 \in 1..Len(f.code[b])
        BY <1>1, <2>1, <2>2
      <3>2. CarriesIn(f, d, b, d[2] + 1, Abs!Arrives(f, d, b))
        BY <1>1, <2>1 DEF CarriesIn
      <3>3. <<b, d[2] + 1>> \in C
        BY <1>2, <2>1, <3>1, <3>2
      <3> QED
        BY <2>2, <3>3 DEF InstrSucc
    <2>3. CASE ~(d[2] < Len(f.code[b]))
      <3>1. LastOfItsKey(f, b, d)
        <4>1. (d[2] + 1)..Len(f.code[b]) = {}
          BY <1>1, <2>1, <2>3
        <4> QED
          BY <2>1, <4>1, OtherKeys
      <3>2. \A s \in f.succ[b] : <<s, 1>> \in C
        BY <1>4, <2>1, <3>1
      <3> QED
        BY <2>3, <3>2 DEF InstrSucc
    <2> QED
      BY <2>2, <2>3
  <1>7. ASSUME NEW i \in Instrs(f) \cap C, Key(f, i) # Key(f, d)
        PROVE  InstrSucc(f, i) \subseteq C
    <2> DEFINE b == i[1]
               k == i[2]
    <2>1. b \in Blocks(f) /\ k \in 1..Len(f.code[b]) /\ i = <<b, k>>
      BY Instructions
    <2>2. CarriesIn(f, d, b, k, Abs!Arrives(f, d, b))
      BY DEF CarriedPoints
    <2> HIDE DEF b, k
    <2>3. Key(f, <<b, k>>) # Key(f, d)
      BY <1>7, <2>1
    <2>4. CarriesIn(f, d, b, k + 1, Abs!Arrives(f, d, b))
      <3>0. k \in Nat /\ \A j \in Int : j <= (k + 1) - 1 => j = k \/ j <= k - 1
        BY <1>1, <2>1
      <3>1. CASE Abs!Arrives(f, d, b) /\ \A j \in 1..(k - 1) : Key(f, <<b, j>>) # Key(f, d)
        <4>1. \A j \in 1..((k + 1) - 1) : Key(f, <<b, j>>) # Key(f, d)
          BY <2>3, <3>0, <3>1
        <4> QED
          BY <3>1, <4>1 DEF CarriesIn
      <3>2. CASE /\ d[1] = b /\ d[2] < k
                 /\ \A j \in (d[2] + 1)..(k - 1) : Key(f, <<b, j>>) # Key(f, d)
        <4>0. d[2] \in Nat
          BY <1>1, <2>1, <3>2, Instructions
        <4>1. \A j \in (d[2] + 1)..((k + 1) - 1) : Key(f, <<b, j>>) # Key(f, d)
          BY <2>3, <3>0, <3>2, <4>0
        <4>2. d[2] < k + 1
          BY <3>0, <3>2, <4>0
        <4> QED
          BY <3>2, <4>1, <4>2 DEF CarriesIn
      <3> QED
        BY <2>2, <3>1, <3>2 DEF CarriesIn
    <2>5. CASE k < Len(f.code[b])
      <3>1. k + 1 \in 1..Len(f.code[b])
        BY <1>1, <2>1, <2>5
      <3>2. <<b, k + 1>> \in C
        BY <1>2, <2>1, <2>4, <3>1
      <3>3. InstrSucc(f, <<b, k>>) = {<<b, k + 1>>}
        BY <2>5 DEF InstrSucc
      <3> QED
        BY <2>1, <3>2, <3>3
    <2>6. CASE ~(k < Len(f.code[b]))
      <3>0. (k + 1) - 1 = Len(f.code[b]) /\ Len(f.code[b]) \in Nat
        BY <1>1, <2>1, <2>6
      <3>1. LastOfItsKey(f, b, d) \/ (Abs!Arrives(f, d, b) /\ ~Redefines(f, b, d))
        BY <2>1, <2>4, <3>0, OtherKeys DEF CarriesIn
      <3>2. \A s \in f.succ[b] : <<s, 1>> \in C
        BY <1>4, <2>1, <3>1
      <3>3. InstrSucc(f, <<b, k>>) = {<<s, 1>> : s \in f.succ[b]}
        BY <2>6 DEF InstrSucc
      <3> QED
        BY <2>1, <3>2, <3>3
    <2> QED
      BY <2>5, <2>6
  <1> HIDE DEF C
  <1>8. CarriedAlong(f, d, C)
    BY <1>5, <1>6, <1>7 DEF CarriedAlong
  <1> QED
    BY <1>8 DEF C

\* The walk through a block that begins with what arrives there finds what
\* reaches each instruction.
LEMMA PointExact ==
    ASSUME NEW f \in Functions, KeysDistinguish(f), NEW i \in Instrs(f)
    PROVE  CarriedTo(f, i[1], i[2], Abs!Solution(f)[i[1]]) = ReachesPoint(f, i)
  <1> DEFINE b == i[1]
             k == i[2]
  <1>1. b \in Blocks(f) /\ k \in 1..Len(f.code[b]) /\ i = <<b, k>>
    BY Instructions
  <1>2. Abs!Solution(f)[b] = {d \in Defs(f) : Abs!Arrives(f, d, b)}
    BY <1>1, AbsDefs DEF Abs!Solution
  <1>3. ASSUME NEW d \in Defs(f)
        PROVE  d \in CarriedTo(f, b, k, Abs!Solution(f)[b])
                 <=> CarriesIn(f, d, b, k, Abs!Arrives(f, d, b))
    BY <1>2 DEF CarriedTo, CarriesIn
  <1>4. CarriedTo(f, b, k, Abs!Solution(f)[b]) \subseteq Defs(f)
    BY <1>2 DEF CarriedTo
  <1>5. ASSUME NEW d \in Defs(f)
        PROVE  CarriesIn(f, d, b, k, Abs!Arrives(f, d, b)) <=> i \in Walks(f, d)
    <2>1. ASSUME CarriesIn(f, d, b, k, Abs!Arrives(f, d, b)) PROVE i \in Walks(f, d)
      <3> HIDE DEF b, k
      <3> QED
        BY <1>1, <2>1, CarriedWalks
    <2>2. ASSUME i \in Walks(f, d) PROVE CarriesIn(f, d, b, k, Abs!Arrives(f, d, b))
      <3>1. Walks(f, d) \subseteq CarriedPoints(f, d)
        BY PointsAlong, WalksLeast
      <3> QED
        BY <2>2, <3>1 DEF CarriedPoints
    <2> QED
      BY <2>1, <2>2
  <1> HIDE DEF b, k
  <1>6. CarriedTo(f, b, k, Abs!Solution(f)[b]) = ReachesPoint(f, i)
    BY <1>3, <1>4, <1>5 DEF ReachesPoint
  <1> QED
    BY <1>6 DEF b, k

\* What dealFunction has recorded, block by block
RecordedSoFar ==
    /\ pc # "iterate" => in = Abs!Solution(F)
    /\ \A i \in Instrs(F) :
          pc = "done" \/ (pc = "extend" /\ i[1] < cur)
             => reach[i] = Recorded(F, i[1], i[2], Abs!Solution(F)[i[1]])

LEMMA RecordedStep == IInv /\ RecordedSoFar /\ [Next]_vars => RecordedSoFar'
  <1> SUFFICES ASSUME IInv, RecordedSoFar, [Next]_vars PROVE RecordedSoFar'
    OBVIOUS
  <1>0. /\ F \in Functions /\ Len(F.code) \in Nat /\ Blocks(F) = 1..Len(F.code)
        /\ cur \in 1..(Len(F.code) + 1) /\ reach \in [Instrs(F) -> SUBSET Defs(F)]
        /\ \A i \in Instrs(F) : i[1] \in 1..Len(F.code)
    BY Shape, Instructions DEF IInv, TypeOK
  <1>1. CASE VisitBlock \/ NextPass
    BY <1>1 DEF VisitBlock, NextPass, RecordedSoFar
  <1>2. CASE Converge
    <2>1. in = Abs!Solution(F) /\ F' = F /\ in' = in /\ pc' = "extend" /\ cur' = 1
      BY <1>2, ExactAtConvergence DEF Converge
    <2>2. \A i \in Instrs(F) : ~(i[1] < cur')
      BY <1>0, <2>1
    <2> QED
      BY <2>1, <2>2 DEF RecordedSoFar
  <1>3. CASE ExtendBlock
    <2>1. /\ pc = "extend" /\ pc' = "extend" /\ F' = F /\ in' = in /\ cur' = cur + 1
          /\ in = Abs!Solution(F)
          /\ reach' = [i \in Instrs(F) |->
                          IF i[1] = cur THEN Recorded(F, cur, i[2], in[cur]) ELSE reach[i]]
      BY <1>3 DEF ExtendBlock, RecordedSoFar
    <2>2. ASSUME NEW i \in Instrs(F), i[1] < cur'
          PROVE  reach'[i] = Recorded(F, i[1], i[2], Abs!Solution(F)[i[1]])
      <3>1. i[1] = cur \/ i[1] < cur
        BY <1>0, <2>1, <2>2
      <3>2. CASE i[1] = cur
        BY <2>1, <3>2
      <3>3. CASE i[1] # cur
        BY <2>1, <3>1, <3>3 DEF RecordedSoFar
      <3> QED
        BY <3>2, <3>3
    <2> QED
      BY <2>1, <2>2 DEF RecordedSoFar
  <1>4. CASE ExtendUnassigned
    BY <1>4 DEF ExtendUnassigned, RecordedSoFar
  <1>5. CASE Return
    <2>1. /\ pc = "extend" /\ pc' = "done" /\ F' = F /\ in' = in /\ reach' = reach
          /\ cur \notin Blocks(F)
      BY <1>5 DEF Return
    <2>2. \A i \in Instrs(F) : i[1] < cur
      BY <1>0, <2>1
    <2> QED
      BY <2>1, <2>2 DEF RecordedSoFar
  <1>6. CASE UNCHANGED vars
    BY <1>6 DEF vars, RecordedSoFar
  <1> QED
    BY <1>1, <1>2, <1>3, <1>4, <1>5, <1>6 DEF Next

\* If the variables of the function print differently, what InsReach holds
\* before each instruction, but one behind a phi node, is exactly what reaches
\* it along the control flow from instruction to instruction (dealFunction).
THEOREM InsReachIsExact == Spec => []PointsExact
  <1>1. Init => RecordedSoFar
    BY DEF Init, Fresh, RecordedSoFar
  <1>2. IInv /\ RecordedSoFar => PointsExact
    <2> SUFFICES ASSUME IInv, RecordedSoFar, pc = "done", KeysDistinguish(F),
                        NEW i \in Instrs(F), ~BehindPhi(F, i)
                 PROVE  reach[i] = ReachesPoint(F, i)
      BY DEF PointsExact
    <2>1. reach[i] = CarriedTo(F, i[1], i[2], Abs!Solution(F)[i[1]])
      BY DEF RecordedSoFar, Recorded, BehindPhi
    <2>2. F \in Functions
      BY DEF IInv, TypeOK
    <2> QED
      BY <2>1, <2>2, PointExact
  <1> QED
    BY <1>1, <1>2, RecordedStep, Invariant, PTL DEF Spec
=============================================================================
