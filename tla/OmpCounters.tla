---------------------------- MODULE OmpCounters -----------------------------
(***************************************************************************)
(* The running OpenMP program that insert-openmp-profiling instrumented:   *)
(* the code IncrementCounterInBlock, GetCoreNum and WriteProfile insert,   *)
(* executed by a team of threads, and WriteOpenMPProfile.                  *)
(*                                                                         *)
(* The main thread executes main, whose blocks count at MainSites and      *)
(* which forks parallel regions; after the call of a fork it counts at one *)
(* of ForkSites.  Every thread of the team executes the outlined function, *)
(* whose blocks count at BodySites.  A site is the CounterNum the pass     *)
(* gave to the place.  Which way the control flow goes is left open.       *)
(***************************************************************************)
EXTENDS Integers, FiniteSets

CONSTANTS
    Threads, Main,         \* the team, and the thread that executes main
    NumCores,              \* get_nprocs_conf() when the pass ran
    Cpus,                  \* what sched_getcpu() may return
    NumBlocks,             \* the number of sites
    MainSites, MainEntry,  \* those of main's blocks, and of its entry block
    ForkSites,             \* those behind fork calls
    BodySites, BodyEntry,  \* those of the outlined function's blocks
    MaxForks, MaxBlocks    \* bounds: parallel regions of a run, blocks a
                           \* thread executes in a region after its first

Sites == 0..(NumBlocks - 1)

ASSUME TeamAssumption == Main \in Threads
ASSUME CountAssumption == NumCores \in Nat \ {0} /\ NumBlocks \in Nat \ {0}
\* The program runs on the machine it was instrumented on.
ASSUME CpusAssumption == Cpus \subseteq 0..(NumCores - 1)
ASSUME SitesAssumption ==
    /\ MainSites \subseteq Sites /\ ForkSites \subseteq Sites /\ BodySites \subseteq Sites
    /\ MainEntry \in MainSites /\ BodyEntry \in BodySites
ASSUME BoundsAssumption == MaxForks \in Nat /\ MaxBlocks \in Nat

VARIABLES
    BBCounters,  \* the global array, NumBlocks counters for each core
    pc,          \* of each thread: "idle", "cpu" (at sched_getcpu), "load",
                 \* "store", "run" (between counted blocks), "joined",
                 \* "write" (WriteOpenMPProfile), "end"
    core,        \* coreGet: the core as the current function read it
    site,        \* the site being counted
    old,         \* OldBBCounter
    parallel,    \* a parallel region is being executed
    profile,     \* what WriteOpenMPProfile has written to its file ...
    written,     \* ... how much of it, -1 before the file is open
    forks, blocks,  \* bounded: regions so far, blocks each thread has left
    exec,        \* history: executions of a site with a core's number
    counted      \* history: the threads that counted with a core's number

thread == <<pc, core, site, old>>
vars   == <<BBCounters, thread, parallel, profile, written, forks, blocks, exec, counted>>

Size  == NumCores * NumBlocks
Cells == 0..(Size - 1)
\* (faulty variants: the product is left out; the core is)
CellWithoutMul(c, s) == c + s
CellOfAnyCore(c, s) == s

\* IndexValAdd
CellOf(c, s) == c * NumBlocks + s
Cell(t) == CellOf(core[t], site[t])

SitesOf(t) == IF parallel THEN BodySites ELSE MainSites

-----------------------------------------------------------------------------
Init ==
    /\ BBCounters = [n \in Cells |-> 0]
    /\ pc = [t \in Threads |-> IF t = Main THEN "cpu" ELSE "idle"]
    /\ core \in [Threads -> {0}]
    /\ site = [t \in Threads |-> IF t = Main THEN MainEntry ELSE BodyEntry]
    /\ old = [t \in Threads |-> 0]
    /\ parallel = FALSE
    /\ profile = [n \in Cells |-> 0] /\ written = -1
    /\ forks = 0 /\ blocks = [t \in Threads |-> MaxBlocks]
    /\ exec = [cs \in (0..(NumCores - 1)) \X Sites |-> 0]
    /\ counted = [c \in 0..(NumCores - 1) |-> {}]

\* (a faulty variant: cores counted from one)
GetCoreNumFromOne(t) ==
    /\ pc[t] = "cpu"
    /\ \E c \in Cpus : core' = [core EXCEPT ![t] = c + 1]
    /\ pc' = [pc EXCEPT ![t] = "load"]
    /\ UNCHANGED <<BBCounters, site, old, parallel, profile, written, forks, blocks, exec, counted>>

\* call i32 @sched_getcpu(): the number is that of the core the thread is on
\* now.  The scheduler may move the thread before it is used.
GetCoreNum(t) ==
    /\ pc[t] = "cpu"
    /\ \E c \in Cpus : core' = [core EXCEPT ![t] = c]
    /\ pc' = [pc EXCEPT ![t] = "load"]
    /\ UNCHANGED <<BBCounters, site, old, parallel, profile, written, forks, blocks, exec, counted>>

\* A thread that reaches a counted place loads the counter there ...
LoadCounter(t) ==
    /\ pc[t] = "load"
    /\ old' = [old EXCEPT ![t] = BBCounters[Cell(t)]]
    /\ exec' = [exec EXCEPT ![<<core[t], site[t]>>] = @ + 1]
    /\ counted' = [counted EXCEPT ![core[t]] = @ \cup {t}]
    /\ pc' = [pc EXCEPT ![t] = "store"]
    /\ UNCHANGED <<BBCounters, core, site, parallel, profile, written, forks, blocks>>

\* ... and stores the incremented value, whatever happened in between.
StoreCounter(t) ==
    /\ pc[t] = "store"
    /\ BBCounters' = [BBCounters EXCEPT ![Cell(t)] = old[t] + 1]
    /\ pc' = [pc EXCEPT ![t] = "run"]
    /\ UNCHANGED <<core, site, old, parallel, profile, written, forks, blocks, exec, counted>>

\* The thread goes to another block of the function it executes.  The number
\* the function read stays in use.
NextBlock(t) ==
    /\ pc[t] = "run" /\ blocks[t] > 0
    /\ \E s \in SitesOf(t) : site' = [site EXCEPT ![t] = s]
    /\ pc' = [pc EXCEPT ![t] = "load"]
    /\ blocks' = [blocks EXCEPT ![t] = @ - 1]
    /\ UNCHANGED <<BBCounters, core, old, parallel, profile, written, forks, exec, counted>>

\* __kmpc_fork_call: every thread of the team calls the outlined function.
Fork ==
    /\ pc[Main] = "run" /\ ~parallel /\ forks < MaxForks
    /\ parallel' = TRUE /\ forks' = forks + 1
    /\ pc' = [t \in Threads |-> "cpu"]
    /\ site' = [t \in Threads |-> BodyEntry]
    /\ blocks' = [t \in Threads |-> MaxBlocks]
    /\ UNCHANGED <<BBCounters, core, old, profile, written, exec, counted>>

LeaveRegion(t) ==
    /\ pc[t] = "run" /\ parallel
    /\ pc' = [pc EXCEPT ![t] = "joined"]
    /\ UNCHANGED <<BBCounters, core, site, old, parallel, profile, written, forks, blocks, exec, counted>>

\* (a faulty variant: the main thread does not wait for the others)
JoinEarly ==
    /\ parallel /\ pc[Main] = "joined"
    /\ parallel' = FALSE
    /\ pc' = [pc EXCEPT ![Main] = "cpu"]
    /\ \E s \in ForkSites : site' = [site EXCEPT ![Main] = s]
    /\ blocks' = [blocks EXCEPT ![Main] = MaxBlocks]
    /\ UNCHANGED <<BBCounters, core, old, profile, written, forks, exec, counted>>

\* The fork call returns when all threads have left the region.  The inserted
\* code behind it reads the core again and counts.
Join ==
    /\ parallel /\ \A t \in Threads : pc[t] = "joined"
    /\ parallel' = FALSE
    /\ pc' = [t \in Threads |-> IF t = Main THEN "cpu" ELSE "idle"]
    /\ \E s \in ForkSites : site' = [site EXCEPT ![Main] = s]
    /\ blocks' = [blocks EXCEPT ![Main] = MaxBlocks]
    /\ UNCHANGED <<BBCounters, core, old, profile, written, forks, exec, counted>>

\* main reaches its first return instruction: the hook is called.  It opens
\* the file, or gives up.
OpenProfile ==
    /\ pc[Main] = "run" /\ ~parallel
    /\ \/ pc' = [pc EXCEPT ![Main] = "write"] /\ written' = 0
       \/ pc' = [pc EXCEPT ![Main] = "end"] /\ UNCHANGED written
    /\ UNCHANGED <<BBCounters, core, site, old, parallel, profile, forks, blocks, exec, counted>>

\* (a faulty variant: the loop ends before the last counter)
WriteProfileShort ==
    /\ pc[Main] = "write"
    /\ \/ /\ written < Size - 1
          /\ profile' = [profile EXCEPT ![written] = BBCounters[written]]
          /\ written' = written + 1 /\ UNCHANGED pc
       \/ /\ written >= Size - 1
          /\ pc' = [pc EXCEPT ![Main] = "end"] /\ UNCHANGED <<profile, written>>
    /\ UNCHANGED <<BBCounters, core, site, old, parallel, forks, blocks, exec, counted>>

\* One fprintf of the loop, and fclose after the last.
WriteProfile ==
    /\ pc[Main] = "write"
    /\ \/ /\ written \in Cells
          /\ profile' = [profile EXCEPT ![written] = BBCounters[written]]
          /\ written' = written + 1 /\ UNCHANGED pc
       \/ /\ written \notin Cells
          /\ pc' = [pc EXCEPT ![Main] = "end"] /\ UNCHANGED <<profile, written>>
    /\ UNCHANGED <<BBCounters, core, site, old, parallel, forks, blocks, exec, counted>>

Step(t) == GetCoreNum(t) \/ LoadCounter(t) \/ StoreCounter(t) \/ NextBlock(t) \/ LeaveRegion(t)
Next == (\E t \in Threads : Step(t)) \/ Fork \/ Join \/ OpenProfile \/ WriteProfile

Spec == Init /\ [][Next]_vars
\* The operating system runs every thread, and main comes to a return.
FairSpec == /\ Spec
            /\ \A t \in Threads : WF_vars(Step(t))
            /\ WF_vars(Join) /\ WF_vars(OpenProfile) /\ WF_vars(WriteProfile)

-----------------------------------------------------------------------------
TypeOK ==
    /\ BBCounters \in [Cells -> Nat]
    /\ pc \in [Threads -> {"idle", "cpu", "load", "store", "run", "joined", "write", "end"}]
    /\ core \in [Threads -> 0..(NumCores - 1)]
    /\ site \in [Threads -> Sites]
    /\ old \in [Threads -> Nat]
    /\ parallel \in BOOLEAN
    /\ profile \in [Cells -> Nat] /\ written \in -1..Size
    /\ forks \in 0..MaxForks /\ blocks \in [Threads -> 0..MaxBlocks]
    /\ exec \in [(0..(NumCores - 1)) \X Sites -> Nat]
    /\ counted \in [0..(NumCores - 1) -> SUBSET Threads]

\* A lost update can only lose: no counter ever exceeds how often its site was
\* executed with its core's number, whatever stale values are stored.
NeverOvercounts ==
    \A c \in 0..(NumCores - 1), s \in Sites : BBCounters[CellOf(c, s)] <= exec[<<c, s>>]

\* The increments of (c, s) under way
Pending(c, s) == {t \in Threads : pc[t] = "store" /\ core[t] = c /\ site[t] = s}

\* Why every core has counters of its own: those of a core whose number only
\* one thread ever got are exact.
RowsExact ==
    \A c \in 0..(NumCores - 1), s \in Sites :
        (\A t, u \in counted[c] : t = u) =>
            exec[<<c, s>>] = BBCounters[CellOf(c, s)]
                               + (IF Pending(c, s) = {} THEN 0 ELSE 1)

\* The profile is a snapshot: a cell once written shows what its counter is.
ProfileFinal == \A n \in Cells : n < written => profile[n] = BBCounters[n]

-----------------------------------------------------------------------------
(* The inductive invariant behind the three.                               *)

\* What a thread about to store has loaded
Storing ==
    \A t \in Threads : pc[t] = "store" =>
        /\ t \in counted[core[t]]
        /\ old[t] + 1 <= exec[<<core[t], site[t]>>]
        /\ (\A u, v \in counted[core[t]] : u = v) => old[t] = BBCounters[Cell(t)]

\* Outside parallel regions the others rest.
Sequential == ~parallel => \A t \in Threads \ {Main} : pc[t] = "idle"

Writing == pc[Main] \in {"write", "end"} \/ written >= 0 =>
               ~parallel /\ pc[Main] \in {"write", "end"}

IInv == /\ TypeOK /\ NeverOvercounts /\ RowsExact /\ Storing
        /\ Sequential /\ Writing /\ ProfileFinal
-----------------------------------------------------------------------------
\* A run ends, and one that opened its file has written all of it.
RunEnds == <>(pc[Main] = "end" /\ (written = -1 \/ written = Size))
=============================================================================
