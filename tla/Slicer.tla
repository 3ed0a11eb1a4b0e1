------------------------------- MODULE Slicer -------------------------------
(***************************************************************************)
(* IRSlicer on one LLVM module: which instructions it marks as live, which *)
(* functions get their return value replaced by undef, what it deletes.    *)
(*                                                                         *)
(* A program is a record                                                   *)
(*   fns     function name -> [kind, decl]; the kind is what the pass      *)
(*           reads off the name's prefix                                   *)
(*   blocks  the basic blocks in module order, each [fn, code]             *)
(*   ins     instruction -> [op, ops, ptr, callee]: its opcode, its        *)
(*           operands, a store's pointer operand, a call's called function *)
(*           ("none" when the call is indirect)                            *)
(*   globals the global variables and constant address expressions         *)
(*   exprs   those of globals that some constant expression uses           *)
(*   args    the function arguments                                        *)
(*   reach   instruction -> InsReach, the result of ReachingDefinitions    *)
(*   before  the pairs <<store, load>> for which CGFilter::judgeIns holds  *)
(***************************************************************************)
EXTENDS Rounds, Sequences

CONSTANTS Programs,  \* the modules the pass may be run on
          MaxStack   \* the call depth interFunction's stack has room for

Kinds == {"plain",   \* no prefix the pass looks for
          "task",    \* .omp_task_*
          "omp",     \* .omp_*
          "fork",    \* __kmpc_fork_call*
          "fopen",   \* fopen*
          "io"}      \* fscanf*, fclose*, __kmpc*

Ops == {"load", "store", "alloca", "gep", "call", "invoke",
        "br", "switch", "unreachable", "ret", "retvoid", "other"}

ControlOps == {"br", "switch", "unreachable"}
ReturnOps  == {"ret", "retvoid"}   \* with and without a value

Ins(p) == DOMAIN p.ins
Op(p, i) == p.ins[i].op
IsCall(p, i) == Op(p, i) \in {"call", "invoke"}

Callee(p, i) == p.ins[i].callee
\* A fopen call, handled by findAllRelatedIns
Related(p, i) == /\ IsCall(p, i) /\ Callee(p, i) # "none"
                 /\ p.fns[Callee(p, i)].decl /\ p.fns[Callee(p, i)].kind = "fopen"
\* A call of a defined function, or of the I/O and OpenMP runtime
Criterion(p, i) ==
    /\ IsCall(p, i) /\ Callee(p, i) # "none"
    /\ ~p.fns[Callee(p, i)].decl \/ p.fns[Callee(p, i)].kind \in {"io", "fork", "omp", "task"}

\* The function a __kmpc_fork_call runs on every thread: the .omp_ function
\* among its operands (the OpenMP runtime's interface has one).
Outlined(p, c) ==
    IF Callee(p, c) = "none" \/ p.fns[Callee(p, c)].kind # "fork" THEN {}
    ELSE {f \in p.ins[c].ops \cap DOMAIN p.fns : p.fns[f].kind \in {"omp", "task"}}

\* Where the instructions are: block and position in the block
Places(p) == UNION {{b} \X DOMAIN p.blocks[b].code : b \in DOMAIN p.blocks}
At(p, x)  == p.blocks[x[1]].code[x[2]]

WellFormed(p) ==
    /\ {"fns", "blocks", "ins", "globals", "exprs", "args", "reach", "before"} \subseteq DOMAIN p
    /\ p.fns \in [DOMAIN p.fns -> [kind : Kinds, decl : BOOLEAN]]
    /\ \A i \in Ins(p) : /\ Op(p, i) \in Ops
                         /\ p.ins[i].callee \in DOMAIN p.fns \cup {"none"}
    /\ \A b \in DOMAIN p.blocks : /\ p.blocks[b].fn \in DOMAIN p.fns
                                  /\ ~p.fns[p.blocks[b].fn].decl
                                  /\ p.blocks[b].code \in Seq(Ins(p))
                                  /\ Len(p.blocks[b].code) > 0
    /\ p.blocks \in Seq([fn : DOMAIN p.fns, code : Seq(Ins(p))])
    /\ p.reach \in [Ins(p) -> SUBSET Ins(p)]
    /\ p.before \subseteq Ins(p) \X Ins(p)
    /\ \A i \in Ins(p) : Op(p, i) = "retvoid" => p.ins[i].ops = {}
    /\ "none" \notin Ins(p) \cup DOMAIN p.fns
    /\ IsFiniteSet(Ins(p)) /\ IsFiniteSet(DOMAIN p.fns)
    \* an instruction is in one place
    /\ \A x, y \in Places(p) : At(p, x) = At(p, y) => x = y
    \* a terminator that decides the control flow has no value to use, and it
    \* does not take a file pointer
    /\ \A i \in Ins(p) : \A t \in p.ins[i].ops \cap Ins(p) :
           /\ Op(p, t) \notin ControlOps \cup ReturnOps
           /\ Op(p, i) \in ControlOps => ~Related(p, t)
    /\ \A i \in Ins(p) : Cardinality(Outlined(p, i)) <= 1

ASSUME ProgramsAssumption == \A p \in Programs : WellFormed(p)
ASSUME MaxStackAssumption == MaxStack \in Nat \ {0}

\* The instructions of a function, as a set and in layout order (inst_begin).
Body(p, f) ==
    LET Code[b \in 0..Len(p.blocks)] ==
            IF b = 0 THEN <<>>
            ELSE IF p.blocks[b].fn = f THEN Code[b - 1] \o p.blocks[b].code
            ELSE Code[b - 1]
    IN  Code[Len(p.blocks)]
InsOf(p, f) == UNION {{p.blocks[b].code[k] : k \in DOMAIN p.blocks[b].code} :
                        b \in {c \in DOMAIN p.blocks : p.blocks[c].fn = f}}
CallsOf(p, f) == {x \in Places(p) : p.blocks[x[1]].fn = f /\ IsCall(p, At(p, x))}
Returns(p, f) == {i \in InsOf(p, f) : Op(p, i) \in ReturnOps}
Terminator(p, b) == p.blocks[b].code[Len(p.blocks[b].code)]

VARIABLES
    P,         \* the program being sliced
    phase,     \* "seed" (runOnModule's loop), "inter" (interFunction),
               \* "done" (deleteIns has run), "crash", "overflow"
    live,      \* Live
    todo,      \* marked instructions whose findLives has not run yet
    blk,       \* runOnModule's loop: the block ...
    part,      \* ... what of it is next: the "function" it begins, its
               \* "terminator" or its "instructions" ...
    pos,       \* ... and which of these
    related,   \* a fopen call whose users findAllRelatedIns is about to mark
    stack,     \* what the calls of interFunction in progress have left to do
    retUndef   \* functions whose return value was replaced by undef

cursor == <<blk, part, pos, related>>
vars   == <<P, phase, live, todo, cursor, stack, retUndef>>

-----------------------------------------------------------------------------
(* findLives: what an instruction depends on.                              *)

\* isa<GlobalVariable>(v) || isa<GEPOperator>(v)
GlobalOrGEP(p, v) == v \in p.globals \/ (v \in Ins(p) /\ Op(p, v) = "gep")

\* The stores that use such an operand and that judgeIns places before i.
GlobalStores(p, i) ==
    {s \in Ins(p) : /\ Op(p, s) = "store" /\ <<s, i>> \in p.before
                    /\ \E v \in p.ins[i].ops : GlobalOrGEP(p, v) /\ v \in p.ins[s].ops}

\* getReachDefStoreIns
ReachingStores(p, i) ==
    {s \in p.reach[i] : Op(p, s) = "store" /\ p.ins[s].ptr \in p.ins[i].ops}

\* A load with an operand that is no constant, or an alloca operand.
AsksReachingStores(p, i) ==
    \/ Op(p, i) = "load" /\ p.ins[i].ops \cap (Ins(p) \cup p.args) # {}
    \/ \E v \in p.ins[i].ops \cap Ins(p) : Op(p, v) = "alloca"

Deps(p, i) ==
    (IF Op(p, i) = "load" THEN GlobalStores(p, i) ELSE {})
    \cup (IF AsksReachingStores(p, i) THEN ReachingStores(p, i) ELSE {})
    \cup (p.ins[i].ops \cap Ins(p))

\* A user of the operand that is a constant expression is no instruction: the
\* unchecked dyn_cast yields a null pointer, which isa<> dereferences.
NullUser(p, i) == Op(p, i) = "load" /\ p.ins[i].ops \cap p.exprs # {}

\* if (addInsToLive(I)) findLives(I), for each I of S
MarkAndExpand(S) == live' = live \cup S /\ todo' = S \ live

\* One level of the recursion of findLives.  Its order does not matter: what is
\* marked depends only on what was marked when it began.
FindLives ==
    /\ phase \in {"seed", "inter"} /\ todo # {}
    /\ ~\E i \in todo : NullUser(P, i)
    /\ MarkAndExpand(UNION {Deps(P, i) : i \in todo})
    /\ UNCHANGED <<P, phase, cursor, stack, retUndef>>

FindLivesCrash ==
    /\ phase \in {"seed", "inter"}
    /\ \E i \in todo : NullUser(P, i)
    /\ phase' = "crash"
    /\ UNCHANGED <<P, live, todo, cursor, stack, retUndef>>

-----------------------------------------------------------------------------
(* runOnModule: the slicing criteria.                                      *)

Keep == UNCHANGED <<live, todo>>
Seeding == phase = "seed" /\ todo = {} /\ related = "none" /\ blk \in DOMAIN P.blocks

NextBlock ==
    /\ blk' = blk + 1 /\ pos' = 1
    /\ part' = IF blk < Len(P.blocks) /\ P.blocks[blk].fn = P.blocks[blk + 1].fn
               THEN "terminator" ELSE "function"
NextIns ==
    \/ pos < Len(P.blocks[blk].code) /\ pos' = pos + 1 /\ UNCHANGED <<blk, part>>
    \/ pos = Len(P.blocks[blk].code) /\ NextBlock

ToInstructions == part' = "instructions" /\ UNCHANGED <<blk, pos>>

\* Every instruction of an outlined task function is a criterion.
SeedFunction ==
    /\ Seeding /\ part = "function"
    /\ IF P.fns[P.blocks[blk].fn].kind = "task"
       THEN MarkAndExpand(InsOf(P, P.blocks[blk].fn)) ELSE Keep
    /\ part' = "terminator"
    /\ UNCHANGED <<P, phase, blk, pos, related, stack, retUndef>>

\* (a faulty variant: a block is skipped whenever its terminator is a criterion)
SeedTerminatorSkips ==
    /\ Seeding /\ part = "terminator"
    /\ LET t == Terminator(P, blk) IN
       \/ /\ Op(P, t) \in ControlOps
          /\ MarkAndExpand({t}) /\ NextBlock
       \/ /\ Op(P, t) \notin ControlOps
          /\ Keep /\ ToInstructions
    /\ UNCHANGED <<P, phase, related, stack, retUndef>>

\* So is a terminator that decides the control flow; a block whose terminator
\* is live already is skipped.
SeedTerminator ==
    /\ Seeding /\ part = "terminator"
    /\ LET t == Terminator(P, blk) IN
       \/ /\ Op(P, t) \in ControlOps /\ t \in live
          /\ Keep /\ NextBlock
       \/ /\ Op(P, t) \in ControlOps /\ t \notin live
          /\ MarkAndExpand({t}) /\ ToInstructions
       \/ /\ Op(P, t) \notin ControlOps
          /\ Keep /\ ToInstructions
    /\ UNCHANGED <<P, phase, related, stack, retUndef>>

SeedInstruction ==
    /\ Seeding /\ part = "instructions"
    /\ LET i == P.blocks[blk].code[pos] IN
       \/ /\ Related(P, i)
          /\ MarkAndExpand({i}) /\ related' = i /\ UNCHANGED <<blk, part, pos>>
       \/ /\ Criterion(P, i)
          /\ MarkAndExpand({i}) /\ NextIns /\ UNCHANGED related
       \/ /\ ~Related(P, i) /\ ~Criterion(P, i)
          /\ Keep /\ NextIns /\ UNCHANGED related
    /\ UNCHANGED <<P, phase, stack, retUndef>>

\* findAllRelatedIns marks the users of a fopen call, but not what they need.
Users(p, i) == {u \in Ins(p) : i \in p.ins[u].ops}
MarkUsers ==
    /\ phase = "seed" /\ todo = {} /\ related # "none"
    /\ live' = live \cup Users(P, related)
    /\ related' = "none" /\ NextIns
    /\ UNCHANGED <<P, phase, todo, stack, retUndef>>

-----------------------------------------------------------------------------
(* interFunction: the returned values.  The C++ stack is a sequence of     *)
(* tasks, innermost first: "enter" a function, "scan" the calls left in    *)
(* one, "judge" whether the result of a call is used.                      *)

Enter(f, used) == [task |-> "enter", fn |-> f, used |-> used]
Scan(places)   == [task |-> "scan",  ahead |-> places]
Judge(c)       == [task |-> "judge", call |-> c]

\* The first of some places in layout order
First(places) == CHOOSE x \in places :
                    \A y \in places : x[1] < y[1] \/ (x[1] = y[1] /\ x[2] <= y[2])

StartInter ==
    /\ phase = "seed" /\ todo = {} /\ blk \notin DOMAIN P.blocks
    /\ IF "main" \in DOMAIN P.fns
       THEN phase' = "inter" /\ stack' = <<Enter("main", FALSE)>>
       ELSE phase' = "crash" /\ UNCHANGED stack
    /\ UNCHANGED <<P, live, todo, cursor, retUndef>>

Inter(task) == phase = "inter" /\ todo = {} /\ stack # <<>> /\ Head(stack).task = task

\* The frames of interFunction on the stack
Depth(s) == Cardinality({n \in DOMAIN s : s[n].task = "scan"})

\* (a faulty variant: kept returns are marked, but what they need is not)
EnterFunctionMarksOnly ==
    /\ Inter("enter")
    /\ LET f      == Head(stack).fn
           valued == {r \in Returns(P, f) : Op(P, r) = "ret"}
       IN  IF P.fns[f].decl
           THEN Keep /\ stack' = Tail(stack) /\ UNCHANGED retUndef
           ELSE /\ live' = live \cup Returns(P, f) /\ UNCHANGED todo
                /\ retUndef' = IF Head(stack).used \/ valued = {} THEN retUndef
                               ELSE retUndef \cup {f}
                /\ stack' = <<Scan(CallsOf(P, f))>> \o Tail(stack)
    /\ Depth(stack) < MaxStack
    /\ UNCHANGED <<P, phase, cursor>>

\* A return without a value is marked; one whose value is not used is replaced
\* by a marked return of undef; otherwise the return is marked and expanded.
\* Replacing does not look at what an earlier call decided.
EnterFunction ==
    /\ Inter("enter")
    /\ LET f      == Head(stack).fn
           valued == {r \in Returns(P, f) : Op(P, r) = "ret"}
           kept   == IF Head(stack).used /\ f \notin retUndef THEN valued ELSE {}
       IN  IF P.fns[f].decl
           THEN Keep /\ stack' = Tail(stack) /\ UNCHANGED retUndef
           ELSE /\ live' = live \cup Returns(P, f)
                /\ todo' = kept \ live
                /\ retUndef' = IF Head(stack).used \/ valued = {} THEN retUndef
                               ELSE retUndef \cup {f}
                /\ stack' = <<Scan(CallsOf(P, f))>> \o Tail(stack)
    /\ Depth(stack) < MaxStack
    /\ UNCHANGED <<P, phase, cursor>>

\* A recursive program descends until the stack is exhausted.
StackOverflow ==
    /\ Inter("enter") /\ Depth(stack) >= MaxStack
    /\ phase' = "overflow"
    /\ UNCHANGED <<P, live, todo, cursor, stack, retUndef>>

\* (a faulty variant: the iterator is not advanced)
ScanCallStays ==
    /\ Inter("scan") /\ Head(stack).ahead # {}
    /\ LET c == At(P, First(Head(stack).ahead))
       IN  /\ Callee(P, c) # "none"
           /\ stack' = <<Judge(c)>> \o stack
    /\ UNCHANGED <<P, phase, live, todo, cursor, retUndef>>

\* The next call: a function it forks is entered first, then its own result
\* is judged.  An indirect call has no function to ask for its name.
ScanCall ==
    /\ Inter("scan") /\ Head(stack).ahead # {}
    /\ LET x    == First(Head(stack).ahead)
           c    == At(P, x)
           rest == <<Judge(c), Scan(Head(stack).ahead \ {x})>> \o Tail(stack)
       IN  \/ /\ Callee(P, c) = "none"
              /\ phase' = "crash" /\ UNCHANGED stack
           \/ /\ Callee(P, c) # "none" /\ Outlined(P, c) = {}
              /\ stack' = rest /\ UNCHANGED phase
           \/ /\ Callee(P, c) # "none"
              /\ \E f \in Outlined(P, c) : stack' = <<Enter(f, FALSE)>> \o rest
              /\ UNCHANGED phase
    /\ UNCHANGED <<P, live, todo, cursor, retUndef>>

\* A replaced return no longer uses the value it returned.
CurrentUsers(p, c, undef) ==
    {u \in Users(p, c) : ~\E f \in undef : u \in Returns(p, f)}

\* (faulty variants: every result counts as used; the flag keeps the FALSE it
\* was initialised with; a call whose result is not used is not followed)
JudgeCallAlwaysUsed ==
    /\ Inter("judge")
    /\ stack' = <<Enter(Callee(P, Head(stack).call), TRUE)>> \o Tail(stack)
    /\ UNCHANGED <<P, phase, live, todo, cursor, retUndef>>
JudgeCallNeverUsed ==
    /\ Inter("judge")
    /\ stack' = <<Enter(Callee(P, Head(stack).call), FALSE)>> \o Tail(stack)
    /\ UNCHANGED <<P, phase, live, todo, cursor, retUndef>>
JudgeCallUsedOnly ==
    /\ Inter("judge")
    /\ LET c == Head(stack).call
       IN  stack' = IF CurrentUsers(P, c, retUndef) \cap live = {} THEN Tail(stack)
                    ELSE <<Enter(Callee(P, c), TRUE)>> \o Tail(stack)
    /\ UNCHANGED <<P, phase, live, todo, cursor, retUndef>>

JudgeCall ==
    /\ Inter("judge")
    /\ LET c == Head(stack).call
       IN  stack' = <<Enter(Callee(P, c), CurrentUsers(P, c, retUndef) \cap live # {})>>
                      \o Tail(stack)
    /\ UNCHANGED <<P, phase, live, todo, cursor, retUndef>>

LeaveFunction ==
    /\ Inter("scan") /\ Head(stack).ahead = {}
    /\ stack' = Tail(stack)
    /\ UNCHANGED <<P, phase, live, todo, cursor, retUndef>>

\* deleteIns: what is neither live nor a return goes.
DeleteIns ==
    /\ phase = "inter" /\ todo = {} /\ stack = <<>>
    /\ phase' = "done"
    /\ UNCHANGED <<P, live, todo, cursor, stack, retUndef>>

Kept(p) == live \cup {i \in Ins(p) : Op(p, i) \in ReturnOps}

-----------------------------------------------------------------------------
\* Before the first criterion is marked
Fresh ==
    /\ phase = "seed" /\ live = {} /\ todo = {}
    /\ blk = 1 /\ part = "function" /\ pos = 1 /\ related = "none"
    /\ stack = <<>> /\ retUndef = {}

Init == P \in Programs /\ Fresh

Next ==
    \/ FindLives \/ FindLivesCrash
    \/ SeedFunction \/ SeedTerminator \/ SeedInstruction \/ MarkUsers
    \/ StartInter \/ EnterFunction \/ StackOverflow
    \/ ScanCall \/ JudgeCall \/ LeaveFunction \/ DeleteIns

Spec     == Init /\ [][Next]_vars
FairSpec == Spec /\ WF_vars(Next)   \* a sequential pass that keeps running
-----------------------------------------------------------------------------
CursorOK ==
    /\ blk \in 1..(Len(P.blocks) + 1)
    /\ part \in {"function", "terminator", "instructions"}
    /\ blk \in DOMAIN P.blocks => pos \in DOMAIN P.blocks[blk].code
    /\ related # "none" => blk \in DOMAIN P.blocks /\ related \in Ins(P) /\ Related(P, related)
StateOK ==
    /\ phase \in {"seed", "inter", "done", "crash", "overflow"}
    /\ live \subseteq Ins(P) /\ todo \subseteq live
    /\ retUndef \subseteq DOMAIN P.fns
    /\ CursorOK
TypeOK == P \in Programs /\ StateOK

UsesFopen(p, i) == \E v \in p.ins[i].ops \cap Ins(p) : Related(p, v)
Replaced(p, i, undef) == \E f \in undef : i \in Returns(p, f)

\* Whatever is kept finds kept all it depends on, when findLives is through:
\* marking without expanding leaves no hole but at the users of a fopen call,
\* and at returns whose operand is gone.
LiveClosed ==
    \A i \in live \ todo :
        Deps(P, i) \subseteq live \/ UsesFopen(P, i) \/ Replaced(P, i, retUndef)

\* Skipping blocks whose terminator is live already loses no criterion, and
\* every block keeps its terminator but one ending in an external invoke (or in
\* an indirectbr or a resume, which the pass does not look for).
CriteriaKept ==
    phase = "done" =>
        /\ \A x \in Places(P) :
              Criterion(P, At(P, x)) \/ Related(P, At(P, x)) => At(P, x) \in live
        /\ \A b \in DOMAIN P.blocks :
              LET t == Terminator(P, b)
              IN  \/ t \in Kept(P)
                  \/ ~Criterion(P, t) /\ Op(P, t) \notin ControlOps \cup ReturnOps

\* The instructions a slice may need: what the criteria depend on, and the
\* returned values of functions some call of which is used.
Blk(i) == CHOOSE b \in DOMAIN P.blocks :
              \E k \in DOMAIN P.blocks[b].code : P.blocks[b].code[k] = i
Needed ==
    LET criteria == {i \in Ins(P) : \/ Criterion(P, i) \/ Related(P, i)
                                    \/ Op(P, i) \in ControlOps
                                    \/ P.fns[P.blocks[Blk(i)].fn].kind = "task"}
        usedRets == {r \in Ins(P) : /\ Op(P, r) = "ret"
                                    /\ \E c \in Ins(P) : /\ IsCall(P, c) /\ Users(P, c) # {}
                                                         /\ Callee(P, c) = P.blocks[Blk(r)].fn}
    IN  ReachedIn(criteria \cup usedRets, [i \in Ins(P) |-> Deps(P, i)])

\* Nothing else is kept, but bare returns and the users of fopen calls.
Minimal ==
    phase = "done" =>
        LET needed == Needed
        IN  \A i \in live : i \in needed \/ Op(P, i) \in ReturnOps \/ UsesFopen(P, i)

-----------------------------------------------------------------------------
(* The call graph interFunction walks.                                     *)

CalledBy(f) == {Callee(P, c) : c \in {i \in InsOf(P, f) : IsCall(P, i)}}
                 \cup UNION {Outlined(P, c) : c \in {i \in InsOf(P, f) : IsCall(P, i)}}
Callees == [f \in DOMAIN P.fns |-> CalledBy(f)]
Entered == ReachedIn({"main"}, Callees)

Calls(f) == {c \in Ins(P) : IsCall(P, c) /\ (Callee(P, c) = f \/ f \in Outlined(P, c))}

\* The slice uses the result of call c, ...
Used(c) == CurrentUsers(P, c, retUndef) \cap live # {}
\* ... but the function it calls returns undef.
Lost(c) == IsCall(P, c) /\ Callee(P, c) \in retUndef

\* interFunction judges one function after another, once and for all.  A result
\* can be lost that is used in the end
\*  - on account of another call (or of main's, which the system makes), ...
OnlyCall(c) == Callee(P, c) # "main" /\ Calls(Callee(P, c)) = {c}
\*  - ... or since a function judged later returns something made of it: what
\* it returned was not marked yet when the users of c were looked at.  The value
\* goes from the one function to the other through a global variable.
ReturnedBy(f) == {r \in Returns(P, f) : Op(P, r) = "ret"}
ReturnNeeds(f) == ReachedIn(ReturnedBy(f), [i \in Ins(P) |-> Deps(P, i)])
ReturnedElsewhere(c) == \E f \in DOMAIN P.fns : c \notin InsOf(P, f) /\ Users(P, c) \cap ReturnNeeds(f) # {}

\* interFunction comes to a decision about every function main may run, ...
AllDecided == \A f \in Entered : Returns(P, f) \subseteq live
\* ... and a result the slice uses is lost for one of these two reasons only.
LossesExplained == \A c \in Ins(P) : Lost(c) /\ Used(c) /\ OnlyCall(c) => ReturnedElsewhere(c)
ReturnsDecided == phase = "done" => AllDecided /\ LossesExplained

\* A program in which neither reason is to be found.
ResultsStay ==
    \A c \in Ins(P) : IsCall(P, c) /\ Callee(P, c) # "none" /\ ~P.fns[Callee(P, c)].decl =>
        OnlyCall(c) /\ ~ReturnedElsewhere(c)

\* IRSlicer.cpp:256-260: the return value is replaced by undef if it is not
\* used in other functions, otherwise the return instruction is kept.
UndefOnlyIfUnused ==
    phase = "done" =>
        \A f \in retUndef : \A c \in Ins(P) :
            IsCall(P, c) /\ Callee(P, c) = f /\ P.blocks[Blk(c)].fn \in Entered => ~Used(c)

\* The call graph main reaches has no cycle, no indirect call and fits the
\* stack, and no global that is loaded has a constant user.
Regular ==
    /\ "main" \in DOMAIN P.fns
    /\ "none" \notin Entered
    /\ \A f \in Entered : f \notin ReachedIn(CalledBy(f), Callees)
    /\ Cardinality(Entered) <= MaxStack
    /\ P.exprs = {}

\* On such a program the pass runs to its end.
Finishes == Regular => <>(phase = "done")
=============================================================================
