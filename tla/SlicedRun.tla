------------------------------ MODULE SlicedRun ------------------------------
(***************************************************************************)
(* The slice at work.  A program is executed, and beside it what the pass  *)
(* has left of it: every step executes an instruction of the program, and  *)
(* of the slice, if it was kept.  Values are not modelled, only whether    *)
(* the slice has the one the program has.  A deleted instruction leaves    *)
(* undef to its users, a deleted store leaves its variable as it was.      *)
(***************************************************************************)
EXTENDS SlicingPass

VARIABLES
    running,   \* "no", "yes" or "ended"
    frames,    \* the activations: block, instruction and which registers
               \* and stack variables hold the same in both
    globs      \* the global variables that do

runVars == <<running, frames, globs>>
Sliced  == UNCHANGED passVars

Frame(b, regs) == [blk |-> b, pos |-> 1, regs |-> regs, slots |-> {}]

Top   == Last(frames)
AtEnd == Top.pos > Len(P.blocks[Top.blk].code)
Here  == P.blocks[Top.blk].code[Top.pos]
Active(ops) == running = "yes" /\ ~AtEnd /\ Op(P, Here) \in ops

\* The instruction is in the slice, and finds there the operands it has in the
\* program.
Same  == /\ Here \in Kept(P)
         /\ \A v \in P.ins[Here].ops : v \in Ins(P) \cup P.args => v \in Top.regs
Holds(v) == v \in Top.slots \cup globs

Put(S, x, member) == IF member THEN S \cup {x} ELSE S \ {x}
Replace(frame)    == frames' = Append(Front(frames), frame)
Advanced          == [Top EXCEPT !.pos = @ + 1]

Start ==
    /\ phase = "done" /\ running = "no" /\ "main" \in Bodied(P)
    /\ running' = "yes" /\ frames' = <<Frame(Entry(P, "main"), P.args)>> /\ globs' = P.globals
    /\ Sliced

\* Both begin with variables that hold nothing.
Allocate ==
    /\ Active({"alloca"})
    /\ Replace([Advanced EXCEPT !.regs = Put(@, Here, Same), !.slots = @ \cup {Here}])
    /\ UNCHANGED <<running, globs>> /\ Sliced

Load ==
    /\ Active({"load"})
    /\ Replace([Advanced EXCEPT !.regs = Put(@, Here, Same /\ \A v \in P.ins[Here].ops : Holds(v))])
    /\ UNCHANGED <<running, globs>> /\ Sliced

Store ==
    /\ Active({"store"})
    /\ LET v == P.ins[Here].ptr IN
       IF v \in P.globals
       THEN globs' = Put(globs, v, Same) /\ Replace(Advanced)
       ELSE Replace([Advanced EXCEPT !.slots = Put(@, v, Same)]) /\ UNCHANGED globs
    /\ UNCHANGED running /\ Sliced

\* Other instructions, and functions from elsewhere, have results that depend
\* on the operands alone.
Defined(x) == Callee(P, x) # "none" /\ ~P.fns[Callee(P, x)].decl
Compute ==
    /\ Active({"gep", "other", "call", "invoke"} \cup ControlOps)
    /\ IsCall(P, Here) => ~Defined(Here) /\ Outlined(P, Here) = {}
    /\ Replace([Advanced EXCEPT !.regs = Put(@, Here, Same)])
    /\ UNCHANGED <<running, globs>> /\ Sliced

\* A call, or the one thread of a team.
Call ==
    /\ Active({"call", "invoke"})
    /\ \E f \in DOMAIN P.fns :
          /\ (Defined(Here) /\ f = Callee(P, Here)) \/ f \in Outlined(P, Here)
          /\ frames' = Append(Append(Front(frames), Advanced), Frame(Entry(P, f), IF Same THEN P.args ELSE {}))
    /\ UNCHANGED <<running, globs>> /\ Sliced

\* The caller's register gets the result; a replaced return has none to give.
Return ==
    /\ Active(ReturnOps)
    /\ IF Len(frames) = 1 THEN running' = "ended" /\ UNCHANGED frames
       ELSE LET caller == frames[Len(frames) - 1]
                site   == P.blocks[caller.blk].code[caller.pos - 1]
                given  == site \in Kept(P) /\ Same /\ P.blocks[Top.blk].fn \notin retUndef
            IN  /\ frames' = Append(Front(Front(frames)), [caller EXCEPT !.regs = Put(@, site, given)])
                /\ UNCHANGED running
    /\ UNCHANGED globs /\ Sliced

\* To a successor: the slice goes the way the program goes, if it decides alike.
Leave ==
    /\ running = "yes" /\ AtEnd
    /\ \E b \in P.succ[Top.blk] : Replace([Top EXCEPT !.blk = b, !.pos = 1])
    /\ UNCHANGED <<running, globs>> /\ Sliced

RunInit == PassInit /\ running = "no" /\ frames = <<>> /\ globs = {}

RunNext == \/ PassNext /\ UNCHANGED runVars
           \/ Start \/ Allocate \/ Load \/ Store \/ Compute \/ Call \/ Return \/ Leave

RunSpec     == RunInit /\ [][RunNext]_<<passVars, runVars>>
FairRunSpec == RunSpec /\ WF_<<passVars, runVars>>(PassNext /\ UNCHANGED runVars)

-----------------------------------------------------------------------------
\* The analyses and the slicer fit together: what the pass does is what the
\* slicer does when it is given, from the beginning, the stores that arrive at
\* each instruction and the stores a walk from main meets before each load.
\* (Slicer's Spec, but for P \in Programs, of which ideal is one all along.)
WithIdeal == INSTANCE Slicer WITH P <- ideal
Implements == WithIdeal!Fresh /\ [][WithIdeal!Next]_(WithIdeal!vars)

\* What a slice is for: it decides every branch on the values the program
\* decides it on, and calls with the arguments the program calls with.
Decides == running = "yes" /\ ~AtEnd /\ (Op(P, Here) \in ControlOps \/ Criterion(P, Here))

\* The programs the slicer is right about: variables are accessed by their
\* names, which tell them apart, and no phi node joins values, ...
Direct(p) ==
    LET slots == {x \in Ins(p) : Op(p, x) = "alloca"} IN
    /\ \A f \in Bodied(p) : Reaching!KeysDistinguish(IR(p, f))
    /\ \A x \in Ins(p) :
        /\ p.def[x] # "phi"
        /\ Op(p, x) = "load"  => p.ins[x].ops \subseteq slots \cup p.globals
        /\ Op(p, x) = "store" => /\ p.ins[x].ptr \in slots \cup p.globals
                                 /\ p.ins[x].ops \cap slots \subseteq {p.ins[x].ptr}
        /\ Op(p, x) \notin {"load", "store"} => p.ins[x].ops \cap slots = {}
\* ... what uses an opened file depends on nothing else, ...
FilesAlone(p) == \A x \in Ins(p) : UsesFopen(p, x) =>
                        Cardinality(p.ins[x].ops \cap Ins(p)) = IF Op(p, x) = "store" THEN 2 ELSE 1
\* ... with global variables, each function is called at one place, no region
\* is forked and no branch leads back, ...
Onward(p) ==
    p.globals = {} \/ /\ \A b \in DOMAIN p.succ : \A c \in p.succ[b] : c > b
                      /\ \A f \in DOMAIN p.fns : p.fns[f].decl \/ Cardinality(Calls(f)) <= 1
                      /\ \A x \in Ins(p) : Outlined(p, x) = {}
\* ... and no result the slice uses was lost.  Where the program gives no reason
\* for a loss that is not asked: a result lost there would be a fault.
NoneLost == \A c \in Ins(P) : Lost(c) => ~Used(c)

BranchesAgree ==
    Decides /\ Direct(P) /\ FilesAlone(P) /\ Onward(P) /\ (NoneLost \/ ResultsStay) => Same

\* IRSlicer.cpp:74: findLives "can find all instructions on which the current
\* instruction is dependent".
DependencesFound == Decides /\ Direct(P) /\ FilesAlone(P) /\ NoneLost => Same
=============================================================================
