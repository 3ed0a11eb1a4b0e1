----------------------------- MODULE FunctionIR -----------------------------
(***************************************************************************)
(* One LLVM function as the reaching-definitions pass sees it.             *)
(*                                                                         *)
(* A function is a record [args, code, succ]: args is the sequence of its  *)
(* argument variables, code the sequence of its basic blocks in layout     *)
(* order (each a sequence of instructions), succ the successors of each    *)
(* block.  An instruction is [op, var]: a "store" writes through the       *)
(* pointer var, a "value" or a "phi" defines the register var, a "void"    *)
(* instruction (a branch, a return, a call of a void function) defines     *)
(* nothing.  Instruction k of block b has the identity <<b, k>> and        *)
(* argument k the identity <<0, k>>.                                       *)
(***************************************************************************)
EXTENDS Rounds, Sequences

CONSTANTS
    Functions,   \* the functions the pass may be run on
    Vars,        \* registers, stack slots, globals and arguments
    KeyOf,       \* the string valueToDefinitionVarStr prints for a variable
    NoKey        \* the empty string, printed for what is no definition

Blocks(f) == 1..Len(f.code)
Instrs(f) == UNION {{b} \X DOMAIN f.code[b] : b \in Blocks(f)}
Args(f)   == {0} \X DOMAIN f.args
At(f, i)  == f.code[i[1]][i[2]]

\* LLVM's verifier: a function has an entry block, which nothing jumps to, and
\* every block has a terminator.
WellFormed(f) ==
    /\ f.args \in Seq(Vars)
    /\ f.code \in Seq(Seq([op : {"store", "value", "phi", "void"}, var : Vars]))
    /\ Len(f.code) > 0 /\ \A b \in Blocks(f) : Len(f.code[b]) > 0
    /\ f.succ \in [Blocks(f) -> SUBSET (Blocks(f) \ {1})]

ASSUME FunctionsAssumption == \A f \in Functions : WellFormed(f)

\* pred_begin .. pred_end of a block
Preds(f, b) == {p \in Blocks(f) : b \in f.succ[p]}

\* The dataflow domain: the arguments and every defining instruction.
Defs(f) == Args(f) \cup {i \in Instrs(f) : At(f, i).op # "void"}

\* The variable an element of the domain defines: an argument or a register
\* itself, for a store its pointer operand.
DefinedVar(f, d) == IF d[1] = 0 THEN f.args[d[2]] ELSE At(f, d).var

\* Definitions are told apart by the printed name of what they define.
Key(f, i) == IF i \in Defs(f) THEN KeyOf[DefinedVar(f, i)] ELSE NoKey

\* The block's definitions d that no later one of the block replaces.
LastOfItsKey(f, b, d) ==
    /\ d \in Defs(f) /\ d[1] = b
    /\ \A e \in Defs(f) : e[1] = b /\ e[2] > d[2] => Key(f, e) # Key(f, d)

\* Block b redefines what d defines.
Redefines(f, b, d) == \E e \in Defs(f) : e[1] = b /\ Key(f, e) = Key(f, d)

-----------------------------------------------------------------------------
\* The reference for single points: control flow from instruction to
\* instruction, and definitions of the same variable rather than key.
InstrSucc(f, i) ==
    IF i[2] < Len(f.code[i[1]]) THEN {<<i[1], i[2] + 1>>}
    ELSE {<<b, 1>> : b \in f.succ[i[1]]}

\* i does not define the variable that d defines.
Lets(f, d, i) == i \notin Defs(f) \/ DefinedVar(f, i) # DefinedVar(f, d)

\* The instructions d arrives at, unreplaced
Flow(f, d) == [i \in Instrs(f) |-> IF Lets(f, d, i) THEN InstrSucc(f, i) ELSE {}]
Walks(f, d)  == ReachedIn(IF d[1] = 0 THEN {<<1, 1>>} ELSE InstrSucc(f, d), Flow(f, d))

ReachesPoint(f, i) == {d \in Defs(f) : i \in Walks(f, d)}
=============================================================================
