----------------------------- MODULE OutputResult ---------------------------
(***************************************************************************)
(* OutputResult::runOnModule reads the profile a program of BBProfiling    *)
(* wrote, and multiplies the frequency of each block by the instructions   *)
(* it has in the module: the number of instructions the run executed.      *)
(***************************************************************************)
EXTENDS BBProfiling

VARIABLES
    executed,  \* the instructions of the program that were executed
    report,    \* "no", "read", "add", "done" or "crashed"
    bbfreq,    \* the numbers in the file
    at,        \* the block the loop over the module is at
    place,     \* i, the number of that block in the file
    instNum

reportVars == <<report, bbfreq, at, place, instNum>>

ReportInit ==
    /\ Init
    /\ executed = 0 /\ report = "no"
    /\ bbfreq = <<>> /\ at = 1 /\ place = 0 /\ instNum = 0

\* What was inserted is no instruction of the program.
Run ==
    /\ Next
    /\ executed' = executed + (IF phase = "run" /\ Current.op \in Ops THEN 1 ELSE 0)
    /\ UNCHANGED reportVars

\* HM_PROFILE names a file, or not; so far nothing is printed but a message.
GetEnv ==
    /\ phase = "done" /\ report = "no"
    /\ \E set \in BOOLEAN : report' = IF set /\ HasMain(M) THEN "read" ELSE "done"
    /\ UNCHANGED <<vars, executed, bbfreq, at, place, instNum>>

\* All numbers of the file, of which there are none if no profile was written.
ReadFile ==
    /\ report = "read" /\ report' = "add"
    /\ bbfreq' = [n \in DOMAIN profile |-> profile[n]]
    /\ UNCHANGED <<vars, executed, at, place, instNum>>

\* The places are numbered as BBProfiling does it; instNum grows by what the
\* block executed.
AddPlace ==
    /\ place' = place + 1
    /\ IF place \in DOMAIN bbfreq
       THEN instNum' = instNum + bbfreq[place] * Len(M.blocks[at].code) /\ UNCHANGED report
       ELSE report' = "crashed" /\ UNCHANGED instNum

\* (a faulty variant: the writer's blocks are added, too)
AddBlockAll ==
    /\ report = "add" /\ at \in DOMAIN M.blocks
    /\ AddPlace
    /\ at' = at + 1
    /\ UNCHANGED <<vars, executed, bbfreq>>

AddBlock ==
    /\ report = "add" /\ at \in DOMAIN M.blocks
    /\ IF Instrumented(M, at) THEN AddPlace ELSE UNCHANGED <<place, report, instNum>>
    /\ at' = at + 1
    /\ UNCHANGED <<vars, executed, bbfreq>>

EndReport ==
    /\ report = "add" /\ at \notin DOMAIN M.blocks
    /\ report' = "done"
    /\ UNCHANGED <<vars, executed, bbfreq, at, place, instNum>>

ReportNext == Run \/ GetEnv \/ ReadFile \/ AddBlock \/ EndReport

ReportSpec == ReportInit /\ [][ReportNext]_<<vars, executed, reportVars>>

-----------------------------------------------------------------------------
\* OutputResult.cpp:107: "Inst Num".  What is printed is the number of
\* instructions the program executed, from its beginning to the return of
\* main; of a program that did not return nothing is printed.
InstNumExecuted ==
    /\ report = "done" /\ at > 1 => instNum = executed /\ stack = <<>>
    /\ report = "crashed" => profile = <<>>
=============================================================================
