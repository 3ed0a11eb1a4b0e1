----------------------------- MODULE BBProfiling ----------------------------
(***************************************************************************)
(* BBProfiling::runOnModule gives every block of a sequential program a    *)
(* counter; then the instrumented program runs.                            *)
(*                                                                         *)
(* A module is a record                                                    *)
(*   kind    defined function -> "main", "writer" (its name holds          *)
(*           WriteOpenMPProfile) or "plain"                                *)
(*   blocks  sequence in layout order of                                   *)
(*           [fn    |-> function, succ |-> positions of the successors,    *)
(*            code  |-> sequence of instructions, each a record of its op  *)
(*                      and the function it calls]                         *)
(***************************************************************************)
EXTENDS Integers, Sequences, SequencesExt, FiniteSets

CONSTANTS Modules, None,
          MaxEntered   \* bound on the block entries of a run

Ops == {"other", "call", "exit", "br", "ret"}
Instr(op, f) == [op |-> op, callee |-> f]
\* Inserted: the increment of counter n, the call of the profile writer.
Count(n) == [op |-> "count", n |-> n]
Write    == [op |-> "write", n |-> 0]

Entry(m, f) == CHOOSE b \in DOMAIN m.blocks :
                   m.blocks[b].fn = f /\ \A c \in 1..(b - 1) : m.blocks[c].fn # f

WellFormed(m) ==
    /\ m.blocks \in Seq([fn : DOMAIN m.kind, succ : SUBSET DOMAIN m.blocks,
                         code : Seq([op : Ops, callee : DOMAIN m.kind \cup {None}])])
    /\ \A b \in DOMAIN m.blocks :
          LET c == m.blocks[b].code IN
          /\ c # <<>> /\ c[Len(c)].op \in {"br", "ret"}
          /\ (c[Len(c)].op = "br") = (m.blocks[b].succ # {})
          /\ \A d \in m.blocks[b].succ : m.blocks[d].fn = m.blocks[b].fn /\ d # Entry(m, m.blocks[b].fn)
          /\ \A k \in DOMAIN c : /\ k < Len(c) => c[k].op \notin {"br", "ret"}
                                 /\ c[k].op = "call" => c[k].callee # None /\ m.kind[c[k].callee] = "plain"
    /\ \A f \in DOMAIN m.kind : \E b \in DOMAIN m.blocks : m.blocks[b].fn = f

ASSUME ModulesAssumption == \A m \in Modules : WellFormed(m)
ASSUME MaxEnteredAssumption == MaxEntered \in Nat

HasMain(m)         == \E f \in DOMAIN m.kind : m.kind[f] = "main"
Instrumented(m, b) == m.kind[m.blocks[b].fn] # "writer"
Returns(m) == {b \in DOMAIN m.blocks : /\ m.kind[m.blocks[b].fn] = "main"
                                       /\ Last(m.blocks[b].code).op = "ret"}

VARIABLES
    M,        \* the module as the pass finds it
    code,     \* block -> its instructions now
    phase,    \* "count", "instrument", "hook", "run", "done" or "crashed"
    blk,      \* the block a loop of the pass is at
    num,      \* NumBlocks
    i,        \* number of the next counter
    stack,    \* the running program: block and instruction of every activation
    counters, \* BBCounters
    entered,  \* block -> how often it was entered
    profile   \* what the writer was given, <<>> before

vars == <<M, code, phase, blk, num, i, stack, counters, entered, profile>>
run  == <<stack, counters, entered, profile>>

-----------------------------------------------------------------------------
Init ==
    /\ M \in Modules
    /\ code = [b \in DOMAIN M.blocks |-> M.blocks[b].code]
    /\ phase = IF HasMain(M) THEN "count" ELSE "done"
    /\ blk = 1 /\ num = 0 /\ i = 0
    /\ stack = <<>> /\ counters = <<>> /\ profile = <<>>
    /\ entered = [b \in DOMAIN M.blocks |-> 0]

AtBlock == blk \in DOMAIN M.blocks

CountBlock ==
    /\ phase = "count" /\ AtBlock
    /\ num' = IF Instrumented(M, blk) THEN num + 1 ELSE num
    /\ blk' = blk + 1
    /\ UNCHANGED <<M, code, phase, i, run>>

EndCount ==
    /\ phase = "count" /\ ~AtBlock
    /\ phase' = "instrument" /\ blk' = 1
    /\ UNCHANGED <<M, code, num, i, run>>

\* (a faulty variant: the blocks of the writer get numbers, too)
InstrumentBlockAll ==
    /\ phase = "instrument" /\ AtBlock
    /\ code' = [code EXCEPT ![blk] = InsertAt(@, Len(@), Count(i))]
    /\ i' = i + 1
    /\ blk' = blk + 1
    /\ UNCHANGED <<M, phase, num, run>>

\* (a faulty variant: the number is not moved on)
InstrumentBlockShared ==
    /\ phase = "instrument" /\ AtBlock
    /\ IF Instrumented(M, blk)
       THEN /\ code' = [code EXCEPT ![blk] = InsertAt(@, Len(@), Count(i))]
            /\ i' = IF i = 0 THEN 1 ELSE i
       ELSE UNCHANGED <<code, i>>
    /\ blk' = blk + 1
    /\ UNCHANGED <<M, phase, num, run>>

\* The counter of a block goes before its terminator.
InstrumentBlock ==
    /\ phase = "instrument" /\ AtBlock
    /\ IF Instrumented(M, blk)
       THEN /\ code' = [code EXCEPT ![blk] = InsertAt(@, Len(@), Count(i))]
            /\ i' = i + 1
       ELSE UNCHANGED <<code, i>>
    /\ blk' = blk + 1
    /\ UNCHANGED <<M, phase, num, run>>

EndInstrument ==
    /\ phase = "instrument" /\ ~AtBlock
    /\ phase' = "hook"
    /\ UNCHANGED <<M, code, blk, num, i, run>>

\* The program is started with a zeroed array.
Start ==
    /\ phase' = "run"
    /\ LET main == Entry(M, CHOOSE f \in DOMAIN M.kind : M.kind[f] = "main")
       IN  /\ stack' = <<[blk |-> main, pos |-> 1]>>
           /\ entered' = [entered EXCEPT ![main] = 1]
    /\ counters' = [n \in 0..(num - 1) |-> 0]

\* A call of the writer becomes the k-th instruction of the first block of main
\* that returns.
FirstReturn == Min(Returns(M))
HasWriter   == \E f \in DOMAIN M.kind : M.kind[f] = "writer"
CallWriter(k) ==
    /\ phase = "hook" /\ Returns(M) # {} /\ HasWriter
    /\ code' = [code EXCEPT ![FirstReturn] = InsertAt(@, k, Write)]
    /\ Start
    /\ UNCHANGED <<M, blk, num, i, profile>>

\* (a faulty variant: the writer is called before the block's counter)
InsertWriteEarly == CallWriter(Len(code[FirstReturn]) - 1)

InsertWrite == CallWriter(Len(code[FirstReturn]))

NoReturn ==
    /\ phase = "hook" /\ Returns(M) = {}
    /\ Start
    /\ UNCHANGED <<M, code, blk, num, i, profile>>

\* Without a writer a null pointer is called.
NoWriter ==
    /\ phase = "hook" /\ Returns(M) # {} /\ ~HasWriter
    /\ phase' = "crashed"
    /\ UNCHANGED <<M, code, blk, num, i, run>>

-----------------------------------------------------------------------------
(* The instrumented program, one instruction at a time.                    *)

Top     == stack[Len(stack)]
Moved   == [stack EXCEPT ![Len(stack)].pos = @ + 1]
At(op)  == phase = "run" /\ code[Top.blk][Top.pos].op = op
Current == code[Top.blk][Top.pos]
Below   == UNCHANGED <<M, code, blk, num, i>>

EnterBlock(b, frames) ==
    /\ FoldFunction(+, 0, entered) < MaxEntered
    /\ stack' = Append(frames, [blk |-> b, pos |-> 1])
    /\ entered' = [entered EXCEPT ![b] = @ + 1]
    /\ UNCHANGED <<phase, counters, profile>> /\ Below

Increment ==
    /\ At("count")
    /\ counters' = [counters EXCEPT ![Current.n] = @ + 1]
    /\ stack' = Moved
    /\ UNCHANGED <<phase, entered, profile>> /\ Below

Compute == At("other") /\ stack' = Moved /\ UNCHANGED <<phase, counters, entered, profile>> /\ Below
Call    == At("call") /\ EnterBlock(Entry(M, Current.callee), Moved)
Branch  == At("br") /\ \E b \in M.blocks[Top.blk].succ : EnterBlock(b, Front(stack))
Return  == /\ At("ret") /\ stack' = Front(stack)
           /\ phase' = IF Len(stack) = 1 THEN "done" ELSE "run"
           /\ UNCHANGED <<counters, entered, profile>> /\ Below
Exit    == At("exit") /\ phase' = "done" /\ UNCHANGED run /\ Below

WriteProfile ==
    /\ At("write")
    /\ profile' = counters /\ stack' = Moved
    /\ UNCHANGED <<phase, counters, entered>> /\ Below

Next == \/ CountBlock \/ EndCount \/ InstrumentBlock \/ EndInstrument
        \/ InsertWrite \/ NoReturn \/ NoWriter
        \/ Increment \/ Compute \/ Call \/ Branch \/ Return \/ Exit \/ WriteProfile

Spec == Init /\ [][Next]_vars

-----------------------------------------------------------------------------
Counted == {b \in DOMAIN code : \E k \in DOMAIN code[b] : code[b][k].op = "count"}
Place(b) == CHOOSE k \in DOMAIN code[b] : code[b][k].op = "count"
Number(b) == code[b][Place(b)].n
Ran == phase = "run" \/ (phase = "done" /\ counters # <<>>)

TypeOK ==
    /\ M \in Modules
    /\ DOMAIN code = DOMAIN M.blocks
    /\ phase \in {"count", "instrument", "hook", "run", "done", "crashed"}
    /\ blk \in 1..(Len(M.blocks) + 1) /\ num \in Nat /\ i \in 0..num
    /\ \A b \in Counted : Number(b) \in 0..(i - 1)
    /\ stack \in Seq([blk : DOMAIN code, pos : Nat \ {0}])
    /\ \A n \in DOMAIN stack : stack[n].pos \in DOMAIN code[stack[n].blk]
    /\ counters \in [DOMAIN counters -> Nat] /\ profile \in {<<>>} \cup [DOMAIN counters -> Nat]
    /\ entered \in [DOMAIN M.blocks -> Nat]

\* While the program runs every block but the writer's has a counter of its
\* own, which is behind by the activations that are in the block and have not
\* come to its end.
CountersFollow ==
    Ran => \A b \in {b \in DOMAIN code : Instrumented(M, b)} :
               /\ b \in Counted
               /\ entered[b] = counters[Number(b)]
                     + Cardinality({n \in DOMAIN stack : stack[n].blk = b /\ stack[n].pos <= Place(b)})

\* README.md:71: the program generates a "profile including basic block
\* frequencies".  A program that ends by the only return of main does, and
\* the profile is how often each block was entered.
FrequenciesExact ==
    /\ profile # <<>> => \A b \in Counted : profile[Number(b)] = entered[b]
    /\ Ran /\ phase = "done" /\ stack = <<>> /\ Cardinality(Returns(M)) = 1 => profile # <<>>
=============================================================================
