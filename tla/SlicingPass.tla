----------------------------- MODULE SlicingPass ----------------------------
(***************************************************************************)
(* IRSlicer::runOnModule as a whole: CGFilter numbers the functions main   *)
(* reaches, ReachingDefinitions is run on one function after the other,    *)
(* and Slicer works with what the two have found.                          *)
(*                                                                         *)
(* Beside what Slicer says of a program, one has here                      *)
(*   params  function -> its arguments, a sequence                         *)
(*   succ    block -> the blocks its terminator may go to                  *)
(*   def     instruction -> "store", "value", "phi" or "void", which is    *)
(*           what ReachingDefinitions distinguishes                        *)
(* Its reach and before say what the analyses are to find.  The pass knows *)
(* nothing of them: it begins with empty ones.                             *)
(***************************************************************************)
EXTENDS Slicer, SequencesExt

CONSTANTS KeyOf,     \* the string printed for a variable
          UINT_MAX   \* 2^32 - 1 in the code

NoKey == ""
Vars  == DOMAIN KeyOf

VARIABLES
    ideal,       \* the program with what the analyses are to find
    CG,          \* the call graph runOnModule builds
    filtering, path, visited, number, lastLen, order, only,  \* CGFilter
    fn,          \* the block that begins the function being analysed
    F, analysing, cur, converged, in, out, base, reach       \* ReachingDef

filterVars  == <<filtering, path, visited, number, lastLen, order, only>>
defVars     == <<F, analysing, cur, converged, in, out, base, reach>>
passVars    == <<vars, ideal, CG, filterVars, fn, defVars>>

-----------------------------------------------------------------------------
(* A program as the analyses see it.                                       *)

\* The blocks of a function, which follow one another in the module
BlocksOf(p, f) ==
    LET own   == {b \in DOMAIN p.blocks : p.blocks[b].fn = f}
        first == CHOOSE b \in own : \A c \in own : b <= c
    IN  [n \in 1..Cardinality(own) |-> first + (n - 1)]
Entry(p, f) == BlocksOf(p, f)[1]
Bodied(p)   == {p.blocks[b].fn : b \in DOMAIN p.blocks}

IR(p, f) ==
    LET bs == BlocksOf(p, f)
        Seen(x) == [op |-> p.def[x], var |-> IF p.def[x] = "store" THEN p.ins[x].ptr ELSE x]
    IN  [args |-> p.params[f],
         code |-> [n \in DOMAIN bs |-> [k \in DOMAIN p.blocks[bs[n]].code |-> Seen(p.blocks[bs[n]].code[k])]],
         succ |-> [n \in DOMAIN bs |-> {m \in DOMAIN bs : bs[m] \in p.succ[bs[n]]}]]

\* The instruction or argument that element d of IR(p, f) stands for.
Named(p, f, d) ==
    IF d[1] = 0 THEN p.params[f][d[2]] ELSE p.blocks[BlocksOf(p, f)[d[1]]].code[d[2]]

Nothing == "nothing"
Pointer == "pointer"
CallGraph(p) ==
    LET Called(x) == IF ~IsCall(p, x) THEN Nothing ELSE IF Callee(p, x) = "none" THEN Pointer ELSE Callee(p, x)
        defined   == {f \in DOMAIN p.fns : ~p.fns[f].decl}
    IN  [fns |-> defined, decls |-> DOMAIN p.fns \ defined,
         size |-> [f \in defined |-> Len(Body(p, f))],
         calls |-> [f \in defined |->
             SelectSeq([k \in DOMAIN Body(p, f) |-> [site |-> <<f, k>>, node |-> Called(Body(p, f)[k])]],
                       LAMBDA r : r.node # Nothing)]]

\* An instruction as CGFilter sees it
Site(p, x) == CHOOSE s \in UNION {{f} \X DOMAIN Body(p, f) : f \in DOMAIN p.fns} : Body(p, s[1])[s[2]] = x

Filter == INSTANCE CGFilter WITH
    Modules <- {CallGraph(p) : p \in Programs}, None <- Nothing, External <- Pointer,
    M <- CG, phase <- filtering, i <- number
Reaching == INSTANCE ReachingDef WITH
    Functions <- UNION {{IR(p, f) : f \in Bodied(p)} : p \in Programs}, pc <- analysing

-----------------------------------------------------------------------------
(* What LLVM's verifier sees to.                                           *)

\* Control flow from one place to the next, and where it comes to in a
\* function before it has executed v
Onto(p, x) == IF x[2] < Len(p.blocks[x[1]].code) THEN {<<x[1], x[2] + 1>>}
              ELSE {<<b, 1>> : b \in p.succ[x[1]]}
Without(p, f, v) ==
    ReachedIn({<<Entry(p, f), 1>>}, [x \in Places(p) |-> IF At(p, x) = v THEN {} ELSE Onto(p, x)])

Verified(p) ==
    /\ {"params", "succ", "def"} \subseteq DOMAIN p
    \* functions follow one another, and those defined here have a body
    /\ \A b, c \in DOMAIN p.blocks : p.blocks[b].fn = p.blocks[c].fn =>
           \A d \in b..c : p.blocks[d].fn = p.blocks[b].fn
    /\ \A f \in DOMAIN p.fns : p.fns[f].decl \/ f \in Bodied(p)
    /\ \A i \in Ins(p) : \A f \in Outlined(p, i) : f \in Bodied(p)
    \* terminators end blocks; a function is not branched into from elsewhere,
    \* nor is its first block branched to
    /\ \A x \in Places(p) : Op(p, At(p, x)) \in ControlOps \cup ReturnOps =>
                               x[2] = Len(p.blocks[x[1]].code)
    /\ p.succ \in [DOMAIN p.blocks -> SUBSET DOMAIN p.blocks]
    /\ \A b \in DOMAIN p.blocks : \A c \in p.succ[b] :
           p.blocks[c].fn = p.blocks[b].fn /\ c # Entry(p, p.blocks[b].fn)
    /\ \A f \in Bodied(p) : Reaching!WellFormed(IR(p, f))
    \* what has a result, and what it is used by: instructions of the same
    \* function that are not come to without it
    /\ p.args \cap Ins(p) = {}
    /\ \A f \in Bodied(p) : \A n \in DOMAIN p.params[f] : p.params[f][n] \in p.args
    /\ \A i \in Ins(p) : /\ p.def[i] = "store" <=> Op(p, i) = "store"
                         /\ Op(p, i) \in {"alloca", "load"} => p.def[i] = "value"
                         /\ Op(p, i) = "store" => p.ins[i].ptr \in p.ins[i].ops
                         /\ Outlined(p, i) # {} => p.def[i] = "void"
    /\ \A x \in Places(p) : \A v \in p.ins[At(p, x)].ops \cap Ins(p) :
           LET f == p.blocks[x[1]].fn IN
           /\ v \in InsOf(p, f) /\ p.def[v] \in {"value", "phi"}
           /\ p.def[At(p, x)] # "phi" => x \notin Without(p, f, v)

ASSUME ProgramsVerified == \A p \in Programs : Verified(p)

-----------------------------------------------------------------------------
Unanalysed(p) == [p EXCEPT !.reach = [x \in Ins(p) |-> {}], !.before = {}]

NoFunction == [args |-> <<>>, code |-> <<>>, succ |-> <<>>]

PassInit ==
    /\ ideal \in Programs /\ P = Unanalysed(ideal) /\ CG = CallGraph(ideal)
    /\ Filter!Fresh
    /\ fn = 1 /\ F = NoFunction /\ analysing = "idle" /\ cur = 1 /\ converged = TRUE
    /\ in = <<>> /\ out = <<>> /\ base = <<>> /\ reach = <<>>
    /\ Fresh

\* (a faulty variant: the two are swapped)
JudgedSwapped ==
    LET Are(op) == {x \in Ins(P) : Op(P, x) = op}
    IN  {x \in Are("store") \X Are("load") : Filter!judgeIns(Site(P, x[2]), Site(P, x[1]))}

\* The stores that judgeIns places before a load: its only questions.
Judged ==
    LET Are(op) == {x \in Ins(P) : Op(P, x) = op}
    IN  {x \in Are("store") \X Are("load") : Filter!judgeIns(Site(P, x[1]), Site(P, x[2]))}

\* new CGFilter
BuildFilter ==
    /\ Filter!Next
    /\ P' = IF filtering' = "done" THEN [P EXCEPT !.before = Judged] ELSE P
    /\ UNCHANGED <<ideal, fn, defVars, phase, live, todo, cursor, stack, retUndef>>

\* dealFunction is called with the next function.
BeginFunction ==
    /\ filtering = "done" /\ analysing = "idle" /\ fn \in DOMAIN P.blocks
    /\ F' = IR(P, P.blocks[fn].fn)
    /\ analysing' = "iterate" /\ cur' = 1 /\ converged' = TRUE
    /\ in' = Reaching!AtStart(F') /\ base' = Reaching!AtStart(F')
    /\ out' = [b \in Reaching!Blocks(F') |-> {}]
    /\ reach' = [x \in Reaching!Instrs(F') |-> {}]
    /\ UNCHANGED <<ideal, CG, filterVars, fn, vars>>

AnalyseFunction ==
    /\ analysing # "idle" /\ Reaching!Next
    /\ UNCHANGED <<ideal, CG, filterVars, fn, vars>>

\* What it has found for instruction x: of the definitions that arrive there,
\* getReachDefStoreIns only looks at instructions.
Found(f, x) == {Named(P, f, d) : d \in reach[CHOOSE e \in DOMAIN reach : Named(P, f, e) = x]} \cap Ins(P)

NextFunction ==
    /\ fn' = fn + Len(BlocksOf(P, P.blocks[fn].fn)) /\ analysing' = "idle"
    /\ UNCHANGED <<ideal, CG, filterVars, F, cur, converged, in, out, base, reach,
                   phase, live, todo, cursor, stack, retUndef>>

\* (a faulty variant: what was found in the functions before is lost)
EndFunctionForgets ==
    /\ analysing = "done"
    /\ LET f == P.blocks[fn].fn
       IN  P' = [P EXCEPT !.reach = [x \in Ins(P) |-> IF x \in InsOf(P, f) THEN Found(f, x) ELSE {}]]
    /\ NextFunction

\* It returns; InsReach holds its instructions now, too.
EndFunction ==
    /\ analysing = "done"
    /\ LET f == P.blocks[fn].fn
       IN  P' = [P EXCEPT !.reach = [x \in Ins(P) |-> IF x \in InsOf(P, f) THEN Found(f, x) ELSE @[x]]]
    /\ NextFunction

Slice ==
    /\ filtering = "done" /\ fn \notin DOMAIN P.blocks
    /\ Next
    /\ UNCHANGED <<ideal, CG, filterVars, fn, defVars>>

PassNext == BuildFilter \/ BeginFunction \/ AnalyseFunction \/ EndFunction \/ Slice

PassSpec == PassInit /\ [][PassNext]_passVars /\ WF_passVars(PassNext)
=============================================================================
