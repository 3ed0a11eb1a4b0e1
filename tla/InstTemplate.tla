---------------------------- MODULE InstTemplate ----------------------------
(***************************************************************************)
(* InstTemplate replaces each call of inst_template in a program that      *)
(* measures instructions by REPEAT instructions of a kind.                 *)
(*                                                                         *)
(* A source is a sequence of measuring loops, each a record                *)
(*   sel   the first argument of its call, the selector of a template      *)
(*   arg   the second: "var" a pointer that is loaded, "address" the       *)
(*         address of a variable, "element" the address of a global array, *)
(*         a constant, and behind it a pointer that is loaded              *)
(*   rep   how often it measures                                           *)
(* An instruction is its opcode; a call is that of timing or of            *)
(* inst_template.                                                          *)
(***************************************************************************)
EXTENDS Integers, Sequences, SequencesExt, FiniteSets

CONSTANTS Sources,
          REPEAT   \* 300 in the code

ASSUME RepeatAssumption == REPEAT \in Nat \ {0}

\* The body of the macro REPEAT as clang -O0 translates it.
Body(l) ==
    <<"timing", "store">> \o (IF l.arg = "address" THEN <<>> ELSE <<"load">>)
    \o <<"inst_template", "load", "add", "store", "timing", "store",
         "load", "load", "sub", "load", "sub", "load", "zext", "gep", "store", "br">>

Calls(c) == {k \in DOMAIN c : c[k] \in {"timing", "inst_template"}}
\* There is no call but these; a template that looks for a load finds the one
\* of the argument before its call, and getelementptr has all its arguments.
WellFormed(s) ==
    /\ s \in Seq([sel : STRING, arg : {"var", "address", "element"}, rep : Nat \ {0}])
    /\ \A l \in DOMAIN s : s[l].sel \in {"fix_add", "float_add", "fix_sub", "float_sub"} => s[l].arg = "var"
    /\ \A l \in DOMAIN s : s[l].sel = "getelementptr" => s[l].arg = "element"

ASSUME SourcesAssumption == \A s \in Sources : WellFormed(s)

VARIABLES
    source,
    code,     \* loop -> its body now
    users,    \* the loops whose call of inst_template is still to come
    pass      \* "expand", "crashed" or "done"

passVars == <<source, code, users, pass>>

-----------------------------------------------------------------------------
(* The templates: what they insert                                         *)
(*   loads   behind the first load, which follows the first instruction    *)
(*   timed   before the call they replace                                  *)
(*   chain   behind the next call, and one more instruction                *)
(*   last    before the terminator                                         *)

Times(s)   == FlattenSeq([n \in 1..REPEAT |-> s])
Plain(ops) == [loads |-> <<>>, timed |-> ops, chain |-> <<>>, last |-> <<>>]

\* The results are added up after the measurement, so that all are used.
Chained(op) ==
    [loads |-> <<"load">>, timed |-> Times(<<op>>),
     chain |-> Times(<<"add">>), last |-> <<"alloca", "store">>]
ChainedFloat(op) ==
    [loads |-> <<"load", "sitofp">>, timed |-> Times(<<op>>) \o <<"fptosi">>,
     chain |-> <<"fptosi">> \o Times(<<"fptosi", "add">>), last |-> <<"alloca", "store">>]

fix_add   == Chained("add")
fix_sub   == Chained("sub")
float_add == ChainedFloat("fadd")
float_sub == ChainedFloat("fsub")

fix_mul   == Plain(Times(<<"mul">>))
float_mul == Plain(Times(<<"fmul">>) \o <<"fptosi">>)

us_div_rem(sel) ==
    Plain(Times(<<[u_div |-> "udiv", s_div |-> "sdiv", u_rem |-> "urem", s_rem |-> "srem"][sel]>>))
float_div_rem(sel) == Plain(Times(<<[float_div |-> "fdiv", float_rem |-> "frem"][sel]>>) \o <<"fptosi">>)
Bitwise == {"shl", "lshr", "ashr", "and", "or", "xor"}
binary_op(sel) == Plain(Times(<<sel>>))

alloca_op == [Plain(Times(<<"alloca">>) \o <<"ptrtoint">>) EXCEPT !.last = Times(<<"store">>)]

\* IRBuilder folds an address that is made of constants only: no instruction
\* comes of it.
getelementptr_op == [Plain(<<"ptrtoint">>) EXCEPT !.last = Times(<<"ptrtoint", "store">>)]

\* What each conversion creates, and what makes an i32 of its result.
Conversions ==
    [trunc_to    |-> [op |-> "trunc",    back |-> <<>>],
     zext_to     |-> [op |-> "zext",     back |-> <<"trunc">>],
     sext_to     |-> [op |-> "sext",     back |-> <<"trunc">>],
     fptrunc_to  |-> [op |-> "fptrunc",  back |-> <<"fptosi">>],
     fpext_to    |-> [op |-> "fpext",    back |-> <<"fptosi">>],
     fptoui_to   |-> [op |-> "fptosi",   back |-> <<>>],
     fptosi_to   |-> [op |-> "fptosi",   back |-> <<>>],
     uitofp_to   |-> [op |-> "uitofp",   back |-> <<"fptosi">>],
     sitofp_to   |-> [op |-> "sitofp",   back |-> <<"fptosi">>],
     ptrtoint_to |-> [op |-> "ptrtoint", back |-> <<>>],
     inttoptr_to |-> [op |-> "inttoptr", back |-> <<"ptrtoint">>],
     bitcast_to  |-> [op |-> "bitcast",  back |-> <<"ptrtoint">>]]
convert_op(sel) ==
    [Plain(Times(<<Conversions[sel].op>>)) EXCEPT !.last = Times(Append(Conversions[sel].back, "store"))]

cmp_op(sel) ==
    Plain(IF sel = "icmp" THEN <<"load">> \o Times(<<"icmp", "sext">>)
                          ELSE <<"load">> \o Times(<<"fcmp", "uitofp">>) \o <<"fptosi">>)
select_op == Plain(<<"load">> \o Times(<<"select">>))
mix_add   == Plain(Times(<<"add", "fadd">>) \o <<"fptosi", "add">>)
\* Which of the two is left to a random number.
rand_add  == {Plain(ops \o <<"fptosi", "add">>) : ops \in [1..REPEAT -> {"add", "fadd"}]}
load      == Plain(Times(<<"load">>))
store     == Plain(Times(<<"store">>) \o <<"ptrtoint">>)

ImplMap(l) ==
    CASE l.sel = "fix_add"   -> {fix_add}
      [] l.sel = "float_add" -> {float_add}
      [] l.sel = "mix_add"   -> {mix_add}
      [] l.sel = "rand_add"  -> rand_add
      [] l.sel = "load"      -> {load}
      [] l.sel = "store"     -> {store}
      [] l.sel = "fix_sub"   -> {fix_sub}
      [] l.sel = "float_sub" -> {float_sub}
      [] l.sel = "fix_mul"   -> {fix_mul}
      [] l.sel = "float_mul" -> {float_mul}
      [] l.sel \in {"u_div", "s_div", "u_rem", "s_rem"} -> {us_div_rem(l.sel)}
      [] l.sel \in {"float_div", "float_rem"}           -> {float_div_rem(l.sel)}
      [] l.sel \in Bitwise   -> {binary_op(l.sel)}
      [] l.sel = "alloca"    -> {alloca_op}
      [] l.sel = "getelementptr"        -> {getelementptr_op}
      [] l.sel \in DOMAIN Conversions   -> {convert_op(l.sel)}
      [] l.sel \in {"icmp", "fcmp"}     -> {cmp_op(l.sel)}
      [] l.sel = "select"    -> {select_op}
      [] OTHER               -> {}

-----------------------------------------------------------------------------
Insert(c, k, s) == SubSeq(c, 1, k - 1) \o s \o SubSeq(c, k, Len(c))
Template(c)     == CHOOSE k \in DOMAIN c : c[k] = "inst_template"
NextCall(c, k)  == Min({n \in Calls(c) : n > k})
FirstLoad(c)    == Min({k \in DOMAIN c : k > 1 /\ c[k] = "load"})

\* (a faulty variant: the chain is put before the next call)
ImpliedInside(c, t) ==
    LET call    == Template(c)
        closed  == Insert(c, Len(c), t.last)
        chained == Insert(closed, NextCall(c, call), t.chain)
        timed   == SubSeq(chained, 1, call - 1) \o t.timed \o SubSeq(chained, call + 1, Len(chained))
    IN  IF t.loads = <<>> THEN timed ELSE Insert(timed, FirstLoad(c) + 1, t.loads)

\* The body with what template t inserts, in place of the call.
Implied(c, t) ==
    LET call    == Template(c)
        closed  == Insert(c, Len(c), t.last)
        chained == Insert(closed, NextCall(c, call) + 2, t.chain)
        timed   == SubSeq(chained, 1, call - 1) \o t.timed \o SubSeq(chained, call + 1, Len(chained))
    IN  IF t.loads = <<>> THEN timed ELSE Insert(timed, FirstLoad(c) + 1, t.loads)

\* No one chooses the order of the uses of a function.
PassInit ==
    /\ source \in Sources
    /\ code = [l \in DOMAIN source |-> Body(source[l])]
    /\ users \in {[n \in DOMAIN source |-> n], Reverse([n \in DOMAIN source |-> n])}
    /\ pass = "expand"

\* The next use is found in the one that was erased: memory that is free, and
\* as a rule still holds what it held.
Expand ==
    /\ pass = "expand" /\ users # <<>>
    /\ \E t \in ImplMap(source[Head(users)]) : code' = [code EXCEPT ![Head(users)] = Implied(@, t)]
    /\ users' = Tail(users)
    /\ pass' \in {"expand", "crashed"}
    /\ UNCHANGED source

\* An unknown selector is found at the end of the map, where nothing is.
UnknownTemplate ==
    /\ pass = "expand" /\ users # <<>>
    /\ ImplMap(source[Head(users)]) = {}
    /\ pass' = "crashed"
    /\ UNCHANGED <<source, code, users>>

EndPass ==
    /\ pass = "expand" /\ users = <<>>
    /\ pass' = "done"
    /\ UNCHANGED <<source, code, users>>

PassNext == Expand \/ UnknownTemplate \/ EndPass
=============================================================================
