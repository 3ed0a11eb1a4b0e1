---------------------------- MODULE OmpProfiling ----------------------------
(***************************************************************************)
(* OmpProfiling::runOnModule: counts the places of an OpenMP program that  *)
(* get a counter, then walks the program again and inserts the counters.   *)
(* What the inserted code does when it runs is the subject of OmpCounters. *)
(*                                                                         *)
(* A module is a record                                                    *)
(*   kind    defined function -> "main", "writer" (its name holds          *)
(*           WriteOpenMPProfile) or "plain"                                *)
(*   blocks  sequence in layout order of                                   *)
(*           [fn    |-> function, succ |-> positions of the successors,    *)
(*            code  |-> sequence of instructions]                          *)
(***************************************************************************)
EXTENDS Integers, Sequences, SequencesExt, FiniteSets

CONSTANT Modules

\* Instructions of the program: phi nodes, calls of __kmpc_fork_call, of
\* sched_getcpu, of other functions and through pointers, others, terminators.
Ops   == {"phi", "fork", "getcpu", "call", "icall", "other", "br", "ret"}
Calls == {"fork", "getcpu", "call", "icall"}
Instr(op) == [op |-> op, n |-> 0]
\* Instructions the pass inserts: the n-th call of sched_getcpu, the increment
\* of counter n in the row of a core, the call of the profile writer.
Read(n)        == [op |-> "getcpu", n |-> n]
Count(n, core) == [op |-> "count", n |-> n, core |-> core]
Write          == [op |-> "write", n |-> 0]

IsEntry(m, b) == \A c \in 1..(b - 1) : m.blocks[c].fn # m.blocks[b].fn

WellFormed(m) ==
    /\ m.blocks \in Seq([fn : DOMAIN m.kind, succ : SUBSET DOMAIN m.blocks,
                         code : Seq({Instr(op) : op \in Ops})])
    /\ \A b \in DOMAIN m.blocks :
          LET code == m.blocks[b].code IN
          /\ code # <<>> /\ code[Len(code)].op \in {"br", "ret"}
          /\ \A k \in 1..(Len(code) - 1) : code[k].op \notin {"br", "ret"}
          /\ \A k \in 2..Len(code) : code[k].op = "phi" => code[k - 1].op = "phi"
          /\ \A c \in m.blocks[b].succ : m.blocks[c].fn = m.blocks[b].fn
          /\ IsEntry(m, b) => code[1].op # "phi"
    \* The blocks of a function lie together.
    /\ \A a, b, c \in DOMAIN m.blocks :
          a < b /\ b < c /\ m.blocks[a].fn = m.blocks[c].fn => m.blocks[b].fn = m.blocks[c].fn

ASSUME ModulesAssumption == \A m \in Modules : WellFormed(m)

HasMain(m)         == \E f \in DOMAIN m.kind : m.kind[f] = "main"
Instrumented(m, b) == m.kind[m.blocks[b].fn] # "writer"
Positions(code, op) == {k \in DOMAIN code : code[k].op = op}

VARIABLES
    M,       \* the module as the pass finds it
    code,    \* block -> its instructions now
    phase,   \* "find", "count", "instrument", "hook", "done" or "crashed"
    blk,     \* the block a loop is at
    pos,     \* the instruction of it the second loop is at, 0 before it
    hook,    \* whether a writer was found
    num,     \* NumBlocks
    i,       \* number of the next counter
    core,    \* coreGet: the call of sched_getcpu inserted last
    reads    \* calls of sched_getcpu inserted

vars == <<M, code, phase, blk, pos, hook, num, i, core, reads>>

-----------------------------------------------------------------------------
Init ==
    /\ M \in Modules
    /\ code = [b \in DOMAIN M.blocks |-> M.blocks[b].code]
    /\ phase = "find" /\ blk = 1 /\ pos = 0 /\ hook = FALSE
    /\ num = 0 /\ i = 0 /\ core = 0 /\ reads = 0

\* Without main nothing is done.
FindFunctions ==
    /\ phase = "find"
    /\ IF HasMain(M)
       THEN /\ phase' = "count"
            /\ hook' = (\E f \in DOMAIN M.kind : M.kind[f] = "writer")
       ELSE phase' = "done" /\ UNCHANGED hook
    /\ UNCHANGED <<M, code, blk, pos, num, i, core, reads>>

AtBlock == blk \in DOMAIN M.blocks

SkipBlock ==
    /\ phase \in {"count", "instrument"} /\ AtBlock /\ ~Instrumented(M, blk)
    /\ blk' = blk + 1
    /\ UNCHANGED <<M, code, phase, pos, hook, num, i, core, reads>>

\* (a faulty variant: places behind fork calls are not counted)
CountBlockOnly ==
    /\ phase = "count" /\ AtBlock /\ Instrumented(M, blk)
    /\ num' = num + 1 /\ blk' = blk + 1
    /\ UNCHANGED <<M, code, phase, pos, hook, i, core, reads>>

\* One block of the first loop.  A call through a pointer has no called
\* function, and its name is asked for nevertheless.
CountBlock ==
    /\ phase = "count" /\ AtBlock /\ Instrumented(M, blk)
    /\ IF Positions(code[blk], "icall") # {}
       THEN phase' = "crashed" /\ UNCHANGED <<num, blk>>
       ELSE /\ num' = num + Cardinality(Positions(code[blk], "fork")) + 1
            /\ blk' = blk + 1 /\ UNCHANGED phase
    /\ UNCHANGED <<M, code, pos, hook, i, core, reads>>

EndCount ==
    /\ phase = "count" /\ ~AtBlock
    /\ phase' = "instrument" /\ blk' = 1
    /\ UNCHANGED <<M, code, pos, hook, num, i, core, reads>>

\* Where a block's counter goes: behind a leading call of sched_getcpu, before
\* another leading call, and otherwise behind the phi nodes.
CounterPos(c) ==
    IF c[1].op = "getcpu" THEN 2
    ELSE IF c[1].op \in Calls THEN 1
    ELSE CHOOSE k \in DOMAIN c : c[k].op # "phi" /\ \A l \in 1..(k - 1) : c[l].op = "phi"

\* The second loop comes to a block; the core number is read if first, and
\* the block's counter becomes its k-th instruction.
Opened(first) == IF first THEN <<Read(reads + 1)>> \o code[blk] ELSE code[blk]
InstrumentStart(first, k) ==
    /\ phase = "instrument" /\ AtBlock /\ Instrumented(M, blk) /\ pos = 0
    /\ reads' = IF first THEN reads + 1 ELSE reads
    /\ core' = IF first THEN reads + 1 ELSE core
    /\ code' = [code EXCEPT ![blk] = InsertAt(Opened(first), k, Count(i, core'))]
    /\ i' = i + 1 /\ pos' = 1
    /\ UNCHANGED <<M, phase, blk, hook, num>>

\* (a faulty variant: only main reads the core number)
BeginBlockMainOnly ==
    LET first == IsEntry(M, blk) /\ M.kind[M.blocks[blk].fn] = "main"
    IN  InstrumentStart(first, CounterPos(Opened(first)))

\* (a faulty variant: the counter goes to the start of the block)
BeginBlockAtStart ==
    InstrumentStart(IsEntry(M, blk), IF IsEntry(M, blk) THEN 2 ELSE 1)

\* Every function reads the core number where it starts.
BeginBlock ==
    InstrumentStart(IsEntry(M, blk), CounterPos(Opened(IsEntry(M, blk))))

\* (a faulty variant: the core number read before the fork call is kept)
ScanInstructionOldCore ==
    /\ phase = "instrument" /\ AtBlock /\ pos \in DOMAIN code[blk]
    /\ IF code[blk][pos].op = "fork"
       THEN /\ code' = [code EXCEPT ![blk] =
                           InsertAt(InsertAt(@, pos + 1, Count(i, core)), pos + 1, Read(reads + 1))]
            /\ reads' = reads + 1 /\ i' = i + 1 /\ pos' = pos + 3
       ELSE pos' = pos + 1 /\ UNCHANGED <<code, reads, i>>
    /\ UNCHANGED <<M, phase, blk, hook, num, core>>

\* Behind a fork call the core number is read anew, and a counter counts what
\* follows; the loop goes on behind both.
ScanInstruction ==
    /\ phase = "instrument" /\ AtBlock /\ pos \in DOMAIN code[blk]
    /\ IF code[blk][pos].op = "fork"
       THEN /\ core' = reads + 1 /\ reads' = reads + 1
            /\ code' = [code EXCEPT ![blk] =
                           InsertAt(InsertAt(@, pos + 1, Count(i, core')), pos + 1, Read(core'))]
            /\ i' = i + 1 /\ pos' = pos + 3
       ELSE pos' = pos + 1 /\ UNCHANGED <<code, core, reads, i>>
    /\ UNCHANGED <<M, phase, blk, hook, num>>

EndBlock ==
    /\ phase = "instrument" /\ AtBlock /\ pos > Len(code[blk])
    /\ blk' = blk + 1 /\ pos' = 0
    /\ UNCHANGED <<M, code, phase, hook, num, i, core, reads>>

EndInstrument ==
    /\ phase = "instrument" /\ ~AtBlock
    /\ phase' = "hook"
    /\ UNCHANGED <<M, code, blk, pos, hook, num, i, core, reads>>

Returns(m) == {b \in DOMAIN m.blocks : /\ m.kind[m.blocks[b].fn] = "main"
                                       /\ Last(m.blocks[b].code).op = "ret"}

\* A call of the writer becomes the k-th instruction of the first block of main
\* that returns.  Without a writer a null pointer is called.
FirstReturn == Min(Returns(M))
CallWriter(k) ==
    /\ phase = "hook"
    /\ IF Returns(M) = {} THEN phase' = "done" /\ UNCHANGED code
       ELSE IF ~hook THEN phase' = "crashed" /\ UNCHANGED code
       ELSE phase' = "done" /\ code' = [code EXCEPT ![FirstReturn] = InsertAt(@, k, Write)]
    /\ UNCHANGED <<M, blk, pos, hook, num, i, core, reads>>

\* (a faulty variant: the writer is called where that block begins)
InsertWriteEarly == CallWriter(1)

InsertWrite == CallWriter(Len(code[FirstReturn]))

Next == \/ FindFunctions \/ SkipBlock \/ CountBlock \/ EndCount
        \/ BeginBlock \/ ScanInstruction \/ EndBlock \/ EndInstrument \/ InsertWrite

Spec == Init /\ [][Next]_vars

-----------------------------------------------------------------------------
TypeOK ==
    /\ M \in Modules
    /\ DOMAIN code = DOMAIN M.blocks
    /\ \A b \in DOMAIN code : \A k \in DOMAIN code[b] :
          code[b][k] \in {Instr(op) : op \in Ops} \cup {Write} \cup {Read(n) : n \in 1..reads}
                        \cup {Count(n, r) : n \in 0..(i - 1), r \in 1..reads}
    /\ phase \in {"find", "count", "instrument", "hook", "done", "crashed"}
    /\ blk \in 1..(Len(M.blocks) + 1) /\ pos \in Nat /\ hook \in BOOLEAN
    /\ num \in Nat /\ i \in Nat /\ reads \in Nat /\ core \in 0..reads

\* The inserted counters, and where the n-th core number is read.
Counters == UNION {{b} \X Positions(code[b], "count") : b \in DOMAIN code}
At(x)    == code[x[1]][x[2]]
ReadAt(n) == CHOOSE x \in UNION {{b} \X Positions(code[b], "getcpu") : b \in DOMAIN code} : At(x).n = n

\* The two loops agree: there are NumBlocks counters, numbered from 0, so that
\* a row of the array has a place for each and no place is used twice.
NumbersExact ==
    phase = "hook" => /\ i = num
                      /\ {At(x).n : x \in Counters} = 0..(num - 1)
                      /\ Cardinality(Counters) = num

\* A block is counted whenever it is entered, before anything else happens in
\* it, and what follows a fork call is counted with the core number read then.
EveryPlaceCounted ==
    phase = "hook" =>
        \A b \in {b \in DOMAIN code : Instrumented(M, b)} :
            LET c == code[b] forks == Positions(c, "fork") counts == Positions(c, "count") IN
            /\ Cardinality(counts) = Cardinality(forks) + 1
            /\ \A k \in 1..(Min(counts) - 1) : c[k].op \in {"phi", "getcpu"}
            /\ \A k \in Positions(c, "phi") : \A l \in 1..k : c[l].op = "phi"
            /\ \A k \in forks : /\ c[k + 1].op = "getcpu" /\ c[k + 2].op = "count"
                                 /\ c[k + 2].core = c[k + 1].n

\* A counter uses a core number read in its own function, by the code laid
\* out before it, and not before a fork call that is laid out in between.
CoreIsLatest ==
    phase = "hook" =>
        \A x \in Counters :
            LET r == ReadAt(At(x).core)
                Between(b, k) == /\ r[1] < b \/ (r[1] = b /\ r[2] < k)
                                 /\ b < x[1] \/ (b = x[1] /\ k < x[2])
            IN  /\ M.blocks[r[1]].fn = M.blocks[x[1]].fn
                /\ r[1] < x[1] \/ (r[1] = x[1] /\ r[2] < x[2])
                /\ \A b \in DOMAIN code : \A k \in Positions(code[b], "fork") : ~Between(b, k)

\* The profile is written once, by main, when all of main was counted.
WrittenOnce ==
    phase = "done" /\ HasMain(M) /\ Returns(M) # {} =>
        LET writes == UNION {{b} \X Positions(code[b], "write") : b \in DOMAIN code}
        IN  /\ Cardinality(writes) = 1
            /\ \A w \in writes : /\ w[1] \in Returns(M)
                                 /\ \A x \in Counters : x[1] = w[1] => x[2] < w[2]

-----------------------------------------------------------------------------
\* Every path from the start of b's function to b goes through a.
Dominates(a, b) ==
    \/ a = b
    \/ \E S \in SUBSET (DOMAIN M.blocks \ {a, b}) :
          /\ \A e \in DOMAIN M.blocks : /\ IsEntry(M, e) /\ M.blocks[e].fn = M.blocks[b].fn
                                        => e = a \/ e \in S
          /\ \A c \in S : M.blocks[c].succ \subseteq S \cup {a}

\* README.md:65: the instrumented program can be compiled.  For that the core
\* number a counter uses must have been read on every path to it.
CoreAlwaysRead ==
    phase = "hook" => \A x \in Counters : Dominates(ReadAt(At(x).core)[1], x[1])
=============================================================================
