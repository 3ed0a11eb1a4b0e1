---------------------------- MODULE ReachingSpec ----------------------------
(***************************************************************************)
(* What DataFlow::run promises for the reaching-definitions problem: one   *)
(* answer, given once, that is for every block exactly the set of          *)
(* definitions that arrive at its beginning along some path of the control *)
(* flow graph with no definition of the same key in between.               *)
(***************************************************************************)
EXTENDS FunctionIR

VARIABLES F,        \* the function the analysis was asked about
          solved,   \* the answer was given
          answer    \* block -> definitions arriving at its beginning

\* S is closed under the propagation of d: it holds the entry block when d is
\* an argument, the successors of the block d leaves, and the successors of
\* each of its blocks that lets d through.
Carries(f, d, S) ==
    /\ d \in Args(f) => 1 \in S
    /\ \A b \in Blocks(f) : LastOfItsKey(f, b, d) => f.succ[b] \subseteq S
    /\ \A b \in S : ~Redefines(f, b, d) => f.succ[b] \subseteq S

\* The least such set holds b: d arrives at b.
Arrives(f, d, b) == \A S \in SUBSET Blocks(f) : Carries(f, d, S) => b \in S

Solution(f) == [b \in Blocks(f) |-> {d \in Defs(f) : Arrives(f, d, b)}]

Init == /\ F \in Functions
        /\ solved = FALSE
        /\ answer = [b \in Blocks(F) |-> {}]

Solve == /\ ~solved
         /\ solved' = TRUE
         /\ answer' = Solution(F)
         /\ UNCHANGED F

Spec == Init /\ [][Solve]_<<F, solved, answer>>
=============================================================================
