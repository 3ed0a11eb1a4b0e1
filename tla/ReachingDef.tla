---------------------------- MODULE ReachingDef -----------------------------
(***************************************************************************)
(* The reaching-definitions pass on one function: DataFlow::run (forward   *)
(* direction, the only one the program uses) iterates over the blocks in   *)
(* layout order until no block's output changes in a whole pass, then      *)
(* ReachingDefinitions::dealFunction extends the result to the point       *)
(* before each instruction (InsReach).                                     *)
(***************************************************************************)
EXTENDS FunctionIR

VARIABLES
    F,          \* the function being analysed
    pc,         \* "iterate", "extend", "done" or "crash"
    cur,        \* the position of the block iterator
    converged,  \* analysisConverged
    in,         \* DataFlowResultForBlock::in
    out,        \* DataFlowResultForBlock::out
    base,       \* DataFlowResultForBlock::currTransferResult.baseValue
    reach       \* InsReach

vars == <<F, pc, cur, converged, in, out, base, reach>>

-----------------------------------------------------------------------------
\* applyMeet over the predecessors' current transfer results
Meet(f, b, val) == UNION {val[p] : p \in Preds(f, b)}

\* applyTransfer: the definitions the block generates and those it kills
Gen(f, b)  == {d \in Defs(f) : LastOfItsKey(f, b, d)}
Kill(f, b) == {d \in Defs(f) : Redefines(f, b, d)}
Transfer(f, b, X) == Gen(f, b) \cup (X \ Kill(f, b))

\* (a faulty variant: the walk through a block kills nothing)
CarriedWithoutKill(f, b, k, X) == X \cup {d \in Defs(f) : d[1] = b /\ d[2] < k}

\* The value dealFunction carries to the point before instruction k of block b
\* when X is the block's input.  Here every instruction kills the definitions
\* that print like it, and one that defines nothing prints the empty string.
CarriedTo(f, b, k, X) ==
    {d \in X : \A j \in 1..(k - 1) : Key(f, <<b, j>>) # Key(f, d)}
    \cup {d \in Defs(f) : /\ d[1] = b /\ d[2] < k
                          /\ \A j \in (d[2] + 1)..(k - 1) :
                                Key(f, <<b, j>>) # Key(f, d)}

\* What is recorded for instruction k: nothing after a phi node.
Recorded(f, b, k, X) ==
    IF k > 1 /\ At(f, <<b, k - 1>>).op = "phi" THEN {}
    ELSE CarriedTo(f, b, k, X)

\* DataFlow::run never assigns the input of a block without predecessors other
\* than the entry.  It stays a bit vector of size 0, the empty set to the
\* transfer function; testing one of its bits dereferences a null pointer.
InputAssigned(f, b) == b = 1 \/ Preds(f, b) # {}

-----------------------------------------------------------------------------
\* (a faulty variant: interior values start full, as for an intersection)
FreshFull ==
    /\ pc = "iterate" /\ cur = 1 /\ converged = TRUE
    /\ in = [b \in Blocks(F) |-> IF b = 1 THEN Args(F) ELSE {}]
    /\ out = [b \in Blocks(F) |-> {}]
    /\ base = [b \in Blocks(F) |-> IF b = 1 THEN Args(F) ELSE Defs(F)]
    /\ reach = [i \in Instrs(F) |-> {}]

\* The boundary value at the entry, the initial interior value elsewhere
AtStart(f) == [b \in Blocks(f) |-> IF b = 1 THEN Args(f) ELSE {}]

Fresh ==
    /\ pc = "iterate" /\ cur = 1 /\ converged = TRUE
    /\ in = AtStart(F) /\ base = AtStart(F)
    /\ out = [b \in Blocks(F) |-> {}]
    /\ reach = [i \in Instrs(F) |-> {}]

Init == F \in Functions /\ Fresh

\* (a faulty variant: the flag says whether the last block changed)
VisitBlockForgetsChange ==
    /\ pc = "iterate" /\ cur \in Blocks(F)
    /\ LET newIn  == IF Preds(F, cur) = {} THEN in[cur] ELSE Meet(F, cur, base)
           newOut == Transfer(F, cur, newIn)
       IN  /\ in'   = [in EXCEPT ![cur] = newIn]
           /\ base' = [base EXCEPT ![cur] = newOut]
           /\ out'  = [out EXCEPT ![cur] = newOut]
           /\ converged' = (newOut = out[cur])
    /\ cur' = cur + 1
    /\ UNCHANGED <<F, pc, reach>>

\* One iteration of the for loop over the blocks.
VisitBlock ==
    /\ pc = "iterate" /\ cur \in Blocks(F)
    /\ LET newIn  == IF Preds(F, cur) = {} THEN in[cur] ELSE Meet(F, cur, base)
           newOut == Transfer(F, cur, newIn)
       IN  /\ in'   = [in EXCEPT ![cur] = newIn]
           /\ base' = [base EXCEPT ![cur] = newOut]
           /\ out'  = [out EXCEPT ![cur] = newOut]
           /\ converged' = (converged /\ newOut = out[cur])
    /\ cur' = cur + 1
    /\ UNCHANGED <<F, pc, reach>>

\* (faulty variants: the flag is not set back; the iterator starts too early)
NextPassKeepsFlag ==
    /\ pc = "iterate" /\ cur \notin Blocks(F) /\ ~converged
    /\ cur' = 1
    /\ UNCHANGED <<F, pc, converged, in, out, base, reach>>
NextPassFromZero ==
    /\ pc = "iterate" /\ cur \notin Blocks(F) /\ ~converged
    /\ cur' = 0 /\ converged' = TRUE
    /\ UNCHANGED <<F, pc, in, out, base, reach>>

\* The head of the while loop after a pass that changed an output ...
NextPass ==
    /\ pc = "iterate" /\ cur \notin Blocks(F) /\ ~converged
    /\ cur' = 1 /\ converged' = TRUE
    /\ UNCHANGED <<F, pc, in, out, base, reach>>

\* ... and after one that changed none: the result is returned.
Converge ==
    /\ pc = "iterate" /\ cur \notin Blocks(F) /\ converged
    /\ pc' = "extend" /\ cur' = 1
    /\ UNCHANGED <<F, converged, in, out, base, reach>>

\* dealFunction records the definitions reaching each instruction of a block.
ExtendBlock ==
    /\ pc = "extend" /\ cur \in Blocks(F)
    /\ InputAssigned(F, cur) \/ Defs(F) = {}
    /\ reach' = [i \in Instrs(F) |->
                    IF i[1] = cur THEN Recorded(F, cur, i[2], in[cur])
                                  ELSE reach[i]]
    /\ cur' = cur + 1
    /\ UNCHANGED <<F, pc, converged, in, out, base>>

ExtendUnassigned ==
    /\ pc = "extend" /\ cur \in Blocks(F)
    /\ ~InputAssigned(F, cur) /\ Defs(F) # {}
    /\ pc' = "crash"
    /\ UNCHANGED <<F, cur, converged, in, out, base, reach>>

Return ==
    /\ pc = "extend" /\ cur \notin Blocks(F)
    /\ pc' = "done"
    /\ UNCHANGED <<F, cur, converged, in, out, base, reach>>

Next == \/ VisitBlock \/ NextPass \/ Converge
        \/ ExtendBlock \/ ExtendUnassigned \/ Return

Spec     == Init /\ [][Next]_vars
FairSpec == Spec /\ WF_vars(Next)   \* a sequential pass that keeps running

-----------------------------------------------------------------------------
TypeOK ==
    /\ F \in Functions
    /\ pc \in {"iterate", "extend", "done", "crash"}
    /\ cur \in 1..(Len(F.code) + 1)
    /\ converged \in BOOLEAN
    /\ in \in [Blocks(F) -> SUBSET Defs(F)]
    /\ out \in [Blocks(F) -> SUBSET Defs(F)]
    /\ base \in [Blocks(F) -> SUBSET Defs(F)]
    /\ reach \in [Instrs(F) -> SUBSET Defs(F)]

\* The pass answers the reaching-definitions question of ReachingSpec: the
\* inputs it stops with are the exact solution, neither a fixpoint too large
\* (stale definitions of a loop) nor too small (stopped a pass too early).
Abs == INSTANCE ReachingSpec WITH
          solved <- pc # "iterate",
          answer <- IF pc = "iterate" THEN [b \in Blocks(F) |-> {}] ELSE in
Implements == Abs!Spec

\* A block's output never loses a definition from one visit to the next, which
\* is why the iteration of DataFlow::run ends at all.
OutputsGrow == [][\A b \in Blocks(F) : out[b] \subseteq out'[b]]_vars

\* The pass returns, or stops at a block without predecessors.
Completes == <>(\/ pc = "done"
                \/ pc = "crash" /\ \E b \in Blocks(F) : b # 1 /\ Preds(F, b) = {})

-----------------------------------------------------------------------------
(* The inductive invariant behind Implements and OutputsGrow.              *)

\* The input a visit of block b would compute from the current results.
CurrentIn(f, b, val) ==
    IF Preds(f, b) # {} THEN Meet(f, b, val)
    ELSE IF b = 1 THEN Args(f) ELSE {}

\* The two copies DataFlow::run keeps of a block's output agree once the entry
\* block, whose transfer result starts as the boundary value, was visited.
Synced ==
    \/ base = out
    \/ /\ pc = "iterate" /\ cur = 1
       /\ \A b \in Blocks(F) : out[b] = {} /\ (b # 1 => base[b] = {})

\* Inputs no visit assigns stay what they were initialised to.
Boundary == \A b \in Blocks(F) : Preds(F, b) = {} => in[b] = CurrentIn(F, b, base)

AtFixpoint(b) == in[b] = CurrentIn(F, b, base) /\ base[b] = Transfer(F, b, in[b])

\* As long as a pass changed nothing, the blocks behind the iterator satisfy
\* their dataflow equations.
Settled ==
    \A b \in Blocks(F) :
        pc # "iterate" \/ (converged /\ b < cur) => AtFixpoint(b)

\* Nothing is propagated that does not arrive.
Justified ==
    \A b \in Blocks(F) :
        /\ \A d \in in[b] : Abs!Arrives(F, d, b)
        /\ \A d \in out[b] : \A c \in F.succ[b] : Abs!Arrives(F, d, c)

\* A visit of any block would keep what its output has.
Growing ==
    \A b \in Blocks(F) : out[b] \subseteq Transfer(F, b, CurrentIn(F, b, base))

IInv == TypeOK /\ Synced /\ Boundary /\ Settled /\ Justified /\ Growing

-----------------------------------------------------------------------------
\* No two variables the function defines print alike, and none prints empty.
KeysDistinguish(f) ==
    /\ \A d, e \in Defs(f) : Key(f, d) = Key(f, e) => DefinedVar(f, d) = DefinedVar(f, e)
    /\ \A d \in Defs(f) : Key(f, d) # NoKey

\* On a function whose variables print differently, InsReach holds before
\* every instruction, but one directly behind a phi node, exactly the
\* definitions that reach it: the block-level iteration and the walk through
\* the block fit together.
BehindPhi(f, i) == i[2] > 1 /\ At(f, <<i[1], i[2] - 1>>).op = "phi"
PointsExact ==
    pc = "done" /\ KeysDistinguish(F) =>
        \A i \in Instrs(F) : BehindPhi(F, i) \/ reach[i] = ReachesPoint(F, i)
=============================================================================
