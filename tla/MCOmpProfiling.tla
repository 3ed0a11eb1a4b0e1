--------------------------- MODULE MCOmpProfiling ---------------------------
(***************************************************************************)
(* Modules for OmpProfiling: a function of three blocks, one of two, either*)
(* of which is main, and the profile writer.                               *)
(***************************************************************************)
EXTENDS OmpProfiling

Code(ops) == [k \in DOMAIN ops |-> Instr(ops[k])]
Block(f, succ, ops) == [fn |-> f, succ |-> IF Last(ops) = "ret" THEN {} ELSE succ, code |-> Code(ops)]

Kinds   == [p |-> "main", q |-> "plain", w |-> "writer"]
Swapped == [p |-> "plain", q |-> "main", w |-> "writer"]

Module(kind, succ, m, o) ==
    [kind |-> kind,
     blocks |-> <<Block("p", succ[1], m[1]), Block("p", succ[2], m[2]), Block("p", succ[3], m[3]),
                  Block("q", {5}, o[1]), Block("q", {}, o[2]),
                  Block("w", {}, <<"call", "ret">>)>>]

Flows == {<<{2}, {3}, {}>>, <<{2, 3}, {3}, {}>>, <<{2}, {2, 3}, {}>>}
LongCodes ==
    {<<"other", "br">>, <<"fork", "br">>, <<"getcpu", "other", "fork", "fork", "br">>}
        \X {<<"phi", "phi", "fork", "other", "br">>, <<"fork", "call", "br">>, <<"call", "br">>, <<"fork", "ret">>}
        \X {<<"phi", "ret">>, <<"getcpu", "fork", "ret">>, <<"call", "br">>}
ShortCodes == {<<<<"other", "br">>, <<"phi", "call", "ret">>>>, <<<<"fork", "br">>, <<"ret">>>>}

\* Programs as the documentation has them, linked with the writer.
Programs == {Module(k, s, m, o) : k \in {Kinds, Swapped}, s \in Flows, m \in LongCodes, o \in ShortCodes}

\* A program that calls through a pointer, in a block that is reached or not.
IndirectPrograms ==
    {Module(Kinds, <<{2}, {3}, {}>>, m, o) :
        m \in {<<<<"icall", "br">>, <<"fork", "br">>, <<"ret">>>>, <<<<"other", "br">>, <<"fork", "br">>, <<"ret">>>>},
        o \in {<<<<"other", "br">>, <<"icall", "ret">>>>}}

\* Programs without main, and without the writer.
Incomplete ==
    {Module([Kinds EXCEPT ![f] = "plain"], <<{2}, {3}, {}>>, m, <<<<"other", "br">>, <<"ret">>>>) :
        f \in {"p", "w"}, m \in {<<<<"fork", "br">>, <<"br">>, <<"ret">>>>}}

AllModules == Programs \cup IndirectPrograms \cup Incomplete
=============================================================================
