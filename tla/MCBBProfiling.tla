--------------------------- MODULE MCBBProfiling ----------------------------
(***************************************************************************)
(* Programs for BBProfiling: main of three blocks, a function it calls, of *)
(* three blocks, and the profile writer, laid out first or last.           *)
(***************************************************************************)
EXTENDS OutputResult

I(op) == Instr(op, None)
CallF == Instr("call", "f")
Kinds == [main |-> "main", f |-> "plain", w |-> "writer"]

\* The blocks, the first at place n + 1 of the module.
Block(fn, n, succ, c) ==
    [fn |-> fn, code |-> c, succ |-> IF Last(c).op = "ret" THEN {} ELSE {n + s : s \in succ}]
MainBlocks(n, flow, c) == <<Block("main", n, flow[1], c[1]), Block("main", n, flow[2], c[2]),
                            Block("main", n, flow[3], c[3])>>
\* f may call itself.
FBlocks(n, c)          == <<Block("f", n, {2, 3}, <<I("other"), I("br")>>), Block("f", n, {3}, c),
                            Block("f", n, {}, <<I("ret")>>)>>
Writer(n)              == <<Block("w", n, {}, <<I("ret")>>)>>

Flows == {<<{2}, {3}, {}>>, <<{2, 3}, {2, 3}, {}>>}
Codes == {<<CallF, CallF, I("br")>>, <<I("other"), I("br")>>}
             \X {<<CallF, I("br")>>, <<I("exit"), I("br")>>, <<CallF, I("ret")>>}
             \X {<<I("ret")>>, <<I("other"), I("ret")>>, <<I("exit"), I("ret")>>}
FCodes == {<<CallF, I("br")>>, <<I("ret")>>}

Programs ==
    {[kind |-> Kinds, blocks |-> MainBlocks(0, fl, c) \o FBlocks(3, g) \o Writer(6)] :
        fl \in Flows, c \in Codes, g \in FCodes}
    \cup
    {[kind |-> Kinds, blocks |-> Writer(0) \o FBlocks(1, g) \o MainBlocks(4, fl, c)] :
        fl \in Flows, c \in Codes, g \in FCodes}

\* Without main, without the writer, and with a main that never returns.
Incomplete ==
    {[kind |-> [Kinds EXCEPT ![x] = "plain"], blocks |-> Writer(0) \o FBlocks(1, g) \o MainBlocks(4, fl, c)] :
        x \in {"main", "w"}, fl \in Flows, c \in {<<<<I("br")>>, <<I("br")>>, <<I("ret")>>>>}, g \in {<<I("ret")>>}}
    \cup
    {[kind |-> Kinds, blocks |-> MainBlocks(0, <<{2}, {3}, {2}>>, <<<<I("br")>>, <<CallF, I("br")>>, c>>)
                                 \o FBlocks(3, <<I("br")>>) \o Writer(6)] :
        c \in {<<I("br")>>, <<I("exit"), I("br")>>}}

AllModules == Programs \cup Incomplete
=============================================================================
