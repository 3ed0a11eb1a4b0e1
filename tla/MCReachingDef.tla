--------------------------- MODULE MCReachingDef ----------------------------
(***************************************************************************)
(* Instances of ReachingDef: every control flow graph of three blocks with *)
(* a choice of code in each, and a few larger graphs.                      *)
(***************************************************************************)
EXTENDS ReachingDef

St(v)  == [op |-> "store", var |-> v]
Val(v) == [op |-> "value", var |-> v]
Phi(v) == [op |-> "phi",   var |-> v]
Br     == [op |-> "void",  var |-> "p"]
Call   == Br    \* a call of a void function: nothing is defined

MCVars == {"p", "q", "a", "r", "g", "h"}

\* g and h are globals of one letter, which print as the empty string
MCKeyOf == [v \in MCVars |-> CASE v = "p" -> "%p" [] v = "q" -> "%q"
                               [] v = "a" -> "%a" [] v = "r" -> "%r"
                               [] OTHER -> ""]

EntryCode == {<<Val("p"), St("p"), Br>>, <<St("g"), Br>>}
BodyCode  == {<<Br>>, <<St("p"), Br>>, <<St("q"), St("p"), Call, St("q"), Br>>,
              <<St("a"), Br>>, <<Phi("r"), Br>>, <<St("h"), Val("r"), Br>>}

ThreeBlocks ==
    {[args |-> a, code |-> <<c1, c2, c3>>, succ |-> <<s1, s2, s3>>] :
        a \in {<<"a">>}, c1 \in EntryCode, c2 \in BodyCode, c3 \in BodyCode,
        s1 \in (SUBSET {2, 3}) \ {{}}, s2 \in SUBSET {2, 3}, s3 \in SUBSET {2, 3}}

\* Layout order against flow order: the loop body is laid out backwards, so
\* definitions need several passes to travel.
Backwards(c) ==
    [args |-> <<"a">>, code |-> <<<<St("p"), Br>>, <<Br>>, <<c, Br>>, <<St("q"), Br>>, <<Br>>>>,
     succ |-> <<{5}, {5}, {2}, {3}, {4, 2}>>]

MCFunctions == ThreeBlocks \cup {Backwards(c) : c \in {St("p"), St("a"), Br}}
                 \cup {[args |-> <<>>, code |-> <<<<Br>>, <<Br>>>>, succ |-> <<{}, {}>>]}
=============================================================================
