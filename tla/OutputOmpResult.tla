--------------------------- MODULE OutputOmpResult --------------------------
(***************************************************************************)
(* OutputOmpResult::runOnModule: the instructions an instrumented OpenMP   *)
(* program executed, from the same module and profile as ComputeIns, which *)
(* here comes first.                                                       *)
(***************************************************************************)
EXTENDS ComputeIns

VARIABLES
    output,         \* "no", "count", "add", "done" or "crashed"
    walked,         \* the blocks walked over
    EachBBInstNum,  \* place -> its instructions
    added,          \* i, the numbers of the profile added
    instNum

outputVars == <<output, walked, EachBBInstNum, added, instNum>>

\* The numbers the file holds, none if it cannot be opened.
bbfreq    == IF M.file.open THEN SubSeq(M.freq, 1, M.file.numbers) ELSE <<>>
NumBlocks == Len(EachBBInstNum)

OutputInit ==
    /\ Init
    /\ output = "no" /\ walked = 0 /\ EachBBInstNum = <<>> /\ added = 0 /\ instNum = 0

Compute == Next /\ UNCHANGED outputVars

\* HM_PROFILE names a file, or the pass returns.
GetEnv ==
    /\ pc \in {"done", "crashed", "exhausted"} /\ output = "no"
    /\ output' \in {"count", "done"}
    /\ UNCHANGED <<vars, walked, EachBBInstNum, added, instNum>>

\* (a faulty variant: instNumTmp is not set back behind a fork call)
CountBlockOn ==
    /\ output = "count" /\ walked < Len(M.blocks)
    /\ walked' = walked + 1
    /\ IF walked' \in Walked(M) /\ At(M, walked', "icall") # {}
       THEN output' = "crashed" /\ UNCHANGED EachBBInstNum
       ELSE /\ EachBBInstNum' = EachBBInstNum \o
                   [q \in 1..Places(M, walked') |-> Cardinality(UNION {InPlace(M, walked', r) : r \in 1..q})]
            /\ UNCHANGED output
    /\ UNCHANGED <<vars, added, instNum>>

\* A block adds the size of each of its places; a call through a pointer has no
\* function to ask for its name.
CountBlock ==
    /\ output = "count" /\ walked < Len(M.blocks)
    /\ walked' = walked + 1
    /\ IF walked' \in Walked(M) /\ At(M, walked', "icall") # {}
       THEN output' = "crashed" /\ UNCHANGED EachBBInstNum
       ELSE /\ EachBBInstNum' = EachBBInstNum \o
                   [q \in 1..Places(M, walked') |-> Cardinality(InPlace(M, walked', q))]
            /\ UNCHANGED output
    /\ UNCHANGED <<vars, added, instNum>>

EndCount ==
    /\ output = "count" /\ walked = Len(M.blocks)
    /\ output' = "add"
    /\ UNCHANGED <<vars, walked, EachBBInstNum, added, instNum>>

\* One number of the profile, of whichever row.
AddNumber ==
    /\ output = "add" /\ added < Len(bbfreq)
    /\ instNum' = instNum + bbfreq[added + 1] * EachBBInstNum[PlaceAt(added + 1, NumBlocks)]
    /\ added' = added + 1
    /\ UNCHANGED <<vars, output, walked, EachBBInstNum>>

EndOutput ==
    /\ output = "add" /\ added = Len(bbfreq)
    /\ output' = "done"
    /\ UNCHANGED <<vars, walked, EachBBInstNum, added, instNum>>

OutputNext == Compute \/ GetEnv \/ CountBlock \/ EndCount \/ AddNumber \/ EndOutput

OutputSpec == OutputInit /\ [][OutputNext]_<<vars, outputVars>>

-----------------------------------------------------------------------------
\* The place that counts instruction k of block n: behind those of the blocks
\* before it, and behind the fork calls before it.
PlaceOf(n, k) == Before(M, n) + ForksBefore(M, n, k) + 1

\* How often a place was executed, by the rows the file has a number of.
Executed(p) ==
    SumTo([j \in DOMAIN bbfreq |-> IF PlaceAt(j, NumPlaces(M)) = p THEN bbfreq[j] ELSE 0], Len(bbfreq))

ExecutedIn(n) == SumTo([k \in DOMAIN Code(M, n) |-> Executed(PlaceOf(n, k))], Len(Code(M, n)))

\* OutputOmpResult.cpp:129: "Inst Num".  What is printed is the number of
\* executed instructions: each instruction of the program as often as the
\* place that counts it, in all rows.
InstNumAddsUp ==
    output = "done" /\ walked > 0 =>
        instNum = SumTo([n \in DOMAIN M.blocks |-> IF n \in Walked(M) THEN ExecutedIn(n) ELSE 0],
                        Len(M.blocks))
=============================================================================
