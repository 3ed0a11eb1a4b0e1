---------------------------- MODULE MCComputeIns ----------------------------
(***************************************************************************)
(* Programs of main, two parallel regions, a function that is called from  *)
(* main, from regions or through another function, and the writer; with    *)
(* the profile of a run on one, two or three cores.                        *)
(***************************************************************************)
EXTENDS OutputOmpResult

I(op)   == [op |-> op, callee |-> 0]
Call(f) == [op |-> "call", callee |-> f]
End     == I("other")

Fn(kind, blocks) == [kind |-> kind, blocks |-> blocks]
Program(fns) ==
    [kind   |-> [f \in DOMAIN fns |-> fns[f].kind],
     blocks |-> FlattenSeq([f \in DOMAIN fns |->
                   [b \in DOMAIN fns[f].blocks |-> [fn |-> f, code |-> fns[f].blocks[b]]]])]

\* Functions 1 main, 2 a, 3 writer, 4 helper, 5 b, 6 deep.
Fns(main, a, helper, b) == Program(
    <<Fn("plain", main), Fn("outlined", <<a>>), Fn("writer", <<<<I("load"), End>>>>),
      Fn("plain", <<helper, <<I("fadd"), End>>>>), Fn("outlined", <<<<I("store"), End>>, b>>),
      Fn("plain", <<<<I("add"), I("load"), End>>>>)>>)

TwoForks == <<<<I("load"), I("fork"), I("add"), I("fork"), I("store"), End>>, <<Call(4), End>>>>
OneBlock == <<<<I("add"), I("fork"), I("load"), I("fork"), End>>>>
Plain == <<I("load"), I("load"), End>>
Calls4 == <<I("add"), Call(4), End>>
Calls6 == <<I("fadd"), Call(6), End>>
Nested == <<I("load"), I("fork"), I("add"), End>>
Again  == <<Call(4), I("sqrt"), End>>

Parallel == {Fns(main, regions[1], regions[2], regions[3]) :
                main \in {TwoForks, OneBlock},
                regions \in {<<Calls4, Calls6, Plain>>, <<Plain, Again, Calls6>>, <<Calls4, Again, Calls4>>,
                             <<Plain, Calls6, Nested>>, <<Calls6, Plain, Calls6>>}}
Serial == {Program(<<Fn("plain", <<<<I("load"), End>>, <<I("add"), End>>>>)>>),
           Program(<<Fn("plain", <<<<I("load"), I("sqrt"), End>>, <<I("icall"), End>>>>)>>)}

\* What each core counted: different numbers, with the core that did most at
\* the beginning or the end.
Size(m, cores) == NumPlaces(m) * cores
Counters(m, cores, first) ==
    LET rising == SubSeq([n \in 1..Size(m, cores) |-> n], 1, Size(m, cores))
    IN  IF first THEN Reverse(rising) ELSE rising

Profiled(m, freq, file) == [kind |-> m.kind, blocks |-> m.blocks, freq |-> freq, file |-> file]

Complete == {Profiled(m, Counters(m, cores, first),
                      [open |-> TRUE, numbers |-> Size(m, cores), space |-> TRUE]) :
                 m \in Parallel \cup Serial, cores \in 1..3, first \in BOOLEAN}

\* Files that cannot be opened or end before the profile does.
Broken(m) == {Profiled(m, Counters(m, 2, TRUE), [open |-> open, numbers |-> n, space |-> space]) :
                  open \in BOOLEAN, n \in 0..(Size(m, 2) - 1), space \in BOOLEAN}

MCModules == Complete \cup UNION {Broken(m) :
    m \in Serial \cup {Fns(OneBlock, Plain, Calls6, Plain)}}

MCArithmetic == <<"add", "fadd">>
MCMaths == <<"sqrt">>
MCTime == [k \in {"load", "store", "add", "fadd"} |->
              CASE k = "load" -> 1 [] k = "store" -> 2 [] k = "add" -> 5 [] k = "fadd" -> 11]
=============================================================================
