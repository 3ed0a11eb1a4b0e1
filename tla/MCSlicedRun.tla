----------------------------- MODULE MCSlicedRun -----------------------------
(***************************************************************************)
(* Programs for the slicing pass: families of small modules with every     *)
(* combination of a few choices, and what the analyses are to find in      *)
(* them.                                                                   *)
(***************************************************************************)
EXTENDS SlicedRun, TLC

I(op, ops)      == [op |-> op, ops |-> ops, ptr |-> "none", callee |-> "none"]
To(val, ptr)    == [op |-> "store", ops |-> val \cup {ptr}, ptr |-> ptr, callee |-> "none"]
Ask(f, ops)     == [op |-> "call", ops |-> ops, ptr |-> "none", callee |-> f]
Invoke(f)       == [op |-> "invoke", ops |-> {}, ptr |-> "none", callee |-> f]
Def(k)          == [kind |-> k, decl |-> FALSE]
Ext(k)          == [kind |-> k, decl |-> TRUE]
Block(f, code)  == [fn |-> f, code |-> code]

\* A program whose arguments are those of the function first in the layout,
\* and whose blocks branch to the next one of their function, and where more
\* says.
Module(fns, globals, args, blocks, more, ins) ==
    [fns |-> fns, globals |-> globals, exprs |-> {}, args |-> {args[n] : n \in DOMAIN args},
     params |-> [f \in DOMAIN fns |-> IF f = blocks[1].fn THEN args ELSE <<>>],
     blocks |-> blocks, ins |-> ins, reach |-> <<>>, before |-> {},
     succ |-> [b \in DOMAIN blocks |->
                  {c \in DOMAIN blocks : /\ c = b + 1 \/ <<b, c>> \in more
                                         /\ blocks[c].fn = blocks[b].fn}],
     def |-> [x \in DOMAIN ins |->
                 CASE ins[x].op = "store" -> "store"
                   [] ins[x].op \in ControlOps \cup ReturnOps \cup {"invoke"} -> "void"
                   [] ins[x].callee \in DOMAIN fns /\ fns[ins[x].callee].kind = "fork" -> "void"
                   [] OTHER -> "value"]]

-----------------------------------------------------------------------------
Flowing == INSTANCE FunctionIR WITH Functions <- {}

\* The definitions that control flow carries to the instructions of f, ...
ReachIn(p, f) ==
    LET ir      == IR(p, f)
        arrives == UNION {{<<Named(p, f, d), Named(p, f, i)>> : i \in Flowing!Walks(ir, d)} :
                            d \in Flowing!Defs(ir)}
    IN  [x \in InsOf(p, f) |-> {e[1] : e \in {a \in arrives : a[2] = x}} \cap Ins(p)]
RECURSIVE Together(_, _)
Together(p, fs) ==
    IF fs = {} THEN <<>>
    ELSE LET f == CHOOSE f \in fs : TRUE IN ReachIn(p, f) @@ Together(p, fs \ {f})

\* ... the walk from f that follows every call to a function not yet walked,
\* and the stores it meets before each load; what it does not come to is
\* behind all it does.
RECURSIVE WalkFrom(_, _, _, _)
WalkFrom(p, f, k, done) ==
    IF k > Len(Body(p, f)) THEN [seq |-> <<>>, done |-> done]
    ELSE LET x     == Body(p, f)[k]
             g     == Callee(p, x)
             inner == IF g # "none" /\ g \notin done /\ ~p.fns[g].decl
                      THEN WalkFrom(p, g, 1, done \cup {g})
                      ELSE [seq |-> <<>>, done |-> done]
             rest  == WalkFrom(p, f, k + 1, inner.done)
         IN  [seq |-> <<x>> \o inner.seq \o rest.seq, done |-> rest.done]

BeforeIn(p) ==
    LET walk == WalkFrom(p, "main", 1, {"main"}).seq
        Rank(x) == IF x \in Range(walk) THEN CHOOSE n \in DOMAIN walk : walk[n] = x
                   ELSE Len(walk) + 1
        Behind(x, y) == \E f \in DOMAIN p.fns : \E n \in DOMAIN Body(p, f) :
                            Body(p, f)[n] = y /\ x \in Range(SubSeq(Body(p, f), 1, n - 1))
    IN  {e \in {x \in Ins(p) : Op(p, x) = "store"} \X {x \in Ins(p) : Op(p, x) = "load"} :
            Rank(e[1]) < Rank(e[2]) \/ (Rank(e[1]) = Rank(e[2]) /\ Behind(e[1], e[2]))}

WithAnalyses(p) ==
    [p EXCEPT !.reach = Together(p, Bodied(p)), !.before = BeforeIn(p)]

-----------------------------------------------------------------------------
\* One function that branches, with two variables, in every way of using them.
Flow ==
    {Module("main" :> Def("plain"), {}, <<>>,
            <<Block("main", <<"x", "y", "s0", "b0">>), Block("main", <<"l1", "s1", "b1">>),
              Block("main", <<"l2", "o2", "s2", "b2">>), Block("main", <<"mr">>)>>, edges,
            "x" :> I("alloca", {}) @@ "y" :> I("alloca", {})
            @@ "s0" :> To({}, "x") @@ "b0" :> I("br", {})
            @@ "l1" :> I("load", {from1}) @@ "s1" :> To({"l1"}, to1) @@ "b1" :> I("br", {"l1"})
            @@ "l2" :> I("load", {from2}) @@ "o2" :> I("other", {"l2"}) @@ "s2" :> To(val2, to2)
            @@ "b2" :> I("br", cond2) @@ "mr" :> I("ret", {})) :
        edges \in {{<<2, 4>>, <<3, 2>>}, {<<1, 3>>, <<2, 2>>}, {<<2, 3>>, <<3, 3>>, <<3, 2>>}},
        from1 \in {"x", "y"}, to1 \in {"x", "y"}, from2 \in {"x", "y"}, to2 \in {"x", "y"},
        val2 \in {{"o2"}, {}}, cond2 \in {{}, {"l2"}}}

\* Results: main calls f twice, or f and g, with every way of using the
\* results; f returns a global that main or g stores to.
Results ==
    {Module("main" :> Def("plain") @@ "f" :> Def("plain") @@ "g" :> Def("plain"),
            IF glob THEN {"sum"} ELSE {}, <<>>,
            <<Block("main", <<"x", "c1", "s1", "sG", "c2", "s2", "l", "br">>), Block("main", <<"mr">>),
              Block("f", <<"fl", "fa", "fr">>), Block("g", <<"gc", "gs", "gr">>)>>, {},
            "x" :> I("alloca", {}) @@ "c1" :> Ask("f", {}) @@ "s1" :> To(v1, "x")
            @@ "sG" :> (IF glob THEN To({"c1"}, "sum") ELSE I("other", {"c1"}))
            @@ "c2" :> Ask(second, {}) @@ "s2" :> (IF over THEN To({"c2"}, "x") ELSE I("other", {"c2"}))
            @@ "l" :> I("load", {"x"}) @@ "br" :> I("br", cond) @@ "mr" :> I("ret", {})
            @@ "fl" :> (IF glob THEN I("load", {"sum"}) ELSE I("other", {}))
            @@ "fa" :> I("other", {"fl"}) @@ "fr" :> I("ret", fret)
            @@ "gc" :> Ask("f", {}) @@ "gs" :> (IF glob THEN To({"gc"}, "sum") ELSE I("other", {"gc"}))
            @@ "gr" :> I("ret", gret)) :
        glob \in BOOLEAN, over \in BOOLEAN, v1 \in {{}, {"c1"}}, cond \in {{}, {"l"}, {"c1"}},
        second \in {"f", "g"}, fret \in {{"fa"}, {}}, gret \in {{}, {"gc"}}}

\* Results that come back: main puts f's result into a variable and then calls
\* h, which may return that variable, or what another call has put there; each
\* function is called once.
Revived ==
    {Module("main" :> Def("plain") @@ "f" :> Def("plain") @@ "h" :> Def("plain") @@ "k" :> Def("plain"),
            {"sum", "max"}, <<>>,
            <<Block("main", <<"x", "c1", "s1", "c2", "l", "br">>), Block("main", <<"mr">>),
              Block("f", <<"fa", "fr">>), Block("h", <<"hc", "hs", "hl", "ho", "hr">>),
              Block("k", <<"ka", "kr">>)>>, {},
            "x" :> I("alloca", {}) @@ "c1" :> Ask("f", {}) @@ "s1" :> To({"c1"}, to)
            @@ "c2" :> Ask("h", {}) @@ "l" :> I("load", {from}) @@ "br" :> I("br", cond)
            @@ "mr" :> I("ret", {})
            @@ "fa" :> I("other", {}) @@ "fr" :> I("ret", {"fa"})
            @@ "hc" :> Ask("k", {}) @@ "hs" :> To({"hc"}, inner)
            @@ "hl" :> I("load", {"sum"}) @@ "ho" :> I("other", {"hl"}) @@ "hr" :> I("ret", hret)
            @@ "ka" :> I("load", {"max"}) @@ "kr" :> I("ret", {"ka"})) :
        to \in {"x", "sum", "max"}, from \in {"x", "sum"}, cond \in {{}, {"l"}, {"c2"}},
        inner \in {"sum", "max"}, hret \in {{}, {"hl"}, {"ho"}}}

\* One call each: main calls g, which calls f; g may set a global that main
\* decides on.
Chain ==
    {Module("main" :> Def("plain") @@ "f" :> Def("plain") @@ "g" :> Def("plain"), globals, <<"a">>,
            <<Block("f", <<"fx", "fs", "fl", "fr">>), Block("g", <<"gc", "ga", "gs", "gr">>),
              Block("main", <<"x", "c", "s", "l", "sw">>), Block("main", <<"un">>)>>, {},
            "x" :> I("alloca", {}) @@ "c" :> Ask("g", {}) @@ "s" :> To(val, "x")
            @@ "l" :> I("load", {IF globals = {} THEN "x" ELSE "sum"})
            @@ "sw" :> I("switch", cond) @@ "un" :> I("unreachable", {})
            @@ "gc" :> Ask("f", {}) @@ "ga" :> I("other", {"gc"})
            @@ "gs" :> (IF globals = {} THEN I("other", {}) ELSE To({"ga"}, "sum"))
            @@ "gr" :> I("ret", gret)
            @@ "fx" :> I("alloca", {}) @@ "fs" :> To({"a"}, "fx")
            @@ "fl" :> I("load", {"fx"}) @@ "fr" :> I("ret", {"fl"})) :
        globals \in {{}, {"sum"}}, val \in {{}, {"c"}}, cond \in {{}, {"l"}, {"c"}},
        gret \in {{}, {"ga"}, {"gc"}}}

\* Calls the pass treats specially: files, a parallel region, a task, an
\* external invoke, an indirect call, recursion, a constant user of a global.
Special ==
    {[Module(
        "main" :> Def("plain") @@ "fopen" :> Ext("fopen") @@ "fscanf" :> Ext("io")
        @@ "puts" :> Ext("plain") @@ "fork" :> Ext("fork") @@ ".omp_o" :> Def("omp")
        @@ ".omp_task_t" :> Def("task") @@ "r" :> Def("plain"),
        {"sum"}, <<"a">>,
        <<Block(".omp_o", <<"ol", "os", "or">>),
          Block("main", <<"fp", "o", "fps", "fpl", "sc", "nul", "fk", "end">>), Block("main", <<"mr">>),
          Block(".omp_task_t", <<"tl", "tb">>), Block(".omp_task_t", <<"tc", "tr">>),
          Block("r", <<"rc", "rr">>)>>, {},
        "fp" :> I("alloca", {}) @@ "o" :> Ask("fopen", {})
        @@ "fps" :> To({"o"}, "fp") @@ "fpl" :> I("load", {"fp"})
        @@ "sc" :> Ask(io, {"fpl"}) @@ "nul" :> I("other", {"o"})
        @@ "fk" :> Ask(forked, {".omp_o"}) @@ "end" :> end @@ "mr" :> I("retvoid", {})
        @@ "ol" :> I("load", {"a"}) @@ "os" :> To({"ol"}, "sum") @@ "or" :> I("retvoid", {})
        @@ "tl" :> I("load", {"sum"}) @@ "tb" :> I("br", {})
        @@ "tc" :> Ask("puts", {"tl"}) @@ "tr" :> I("ret", {"tl"})
        @@ "rc" :> Ask(again, {}) @@ "rr" :> I("ret", {"rc"})) EXCEPT !.exprs = ex] :
        ex \in {{}, {"sum"}}, io \in {"fscanf", "puts", "r", "none"}, forked \in {"fork", "puts"},
        end \in {I("br", {"nul"}), I("br", {}), Invoke("puts"), Invoke("r")},
        again \in {"r", "puts"}}

MCPrograms == {WithAnalyses(p) : p \in Flow \cup Results \cup Revived \cup Chain \cup Special}

\* Both ways of losing a result that is used.  f is called once: its result is
\* the value of sum, which h returns and main decides on.  g is called twice: main
\* decides on the second result.
Both ==
    Module("main" :> Def("plain") @@ "f" :> Def("plain") @@ "g" :> Def("plain") @@ "h" :> Def("plain"),
           {"sum"}, <<>>,
           <<Block("main", <<"c1", "s1", "c2", "br">>), Block("main", <<"c3", "c4", "sw">>),
             Block("main", <<"mr">>), Block("f", <<"fa", "fr">>), Block("g", <<"ga", "gr">>),
             Block("h", <<"hl", "hr">>)>>, {},
           "c1" :> Ask("f", {}) @@ "s1" :> To({"c1"}, "sum") @@ "c2" :> Ask("h", {}) @@ "br" :> I("br", {"c2"})
           @@ "c3" :> Ask("g", {}) @@ "c4" :> Ask("g", {}) @@ "sw" :> I("switch", {"c4"}) @@ "mr" :> I("ret", {})
           @@ "fa" :> I("other", {}) @@ "fr" :> I("ret", {"fa"})
           @@ "ga" :> I("other", {}) @@ "gr" :> I("ret", {"ga"})
           @@ "hl" :> I("load", {"sum"}) @@ "hr" :> I("ret", {"hl"}))
ResultsPrograms == {WithAnalyses(p) : p \in {Both}}

\* A loop that goes round on a global it sets, and a parallel region that sets
\* one main decides on.
GlobalLoop ==
    Module("main" :> Def("plain"), {"sum"}, <<>>,
           <<Block("main", <<"b0">>), Block("main", <<"l", "s", "b1">>), Block("main", <<"mr">>)>>,
           {<<2, 2>>},
           "b0" :> I("br", {}) @@ "l" :> I("load", {"sum"}) @@ "s" :> To({"l"}, "sum")
           @@ "b1" :> I("br", {"l"}) @@ "mr" :> I("ret", {}))
GlobalRegion ==
    Module("main" :> Def("plain") @@ "fork" :> Ext("fork") @@ ".omp_o" :> Def("omp"), {"sum"}, <<>>,
           <<Block(".omp_o", <<"os", "or">>), Block("main", <<"fk", "l", "br">>), Block("main", <<"mr">>)>>, {},
           "os" :> To({}, "sum") @@ "or" :> I("retvoid", {}) @@ "fk" :> Ask("fork", {".omp_o"})
           @@ "l" :> I("load", {"sum"}) @@ "br" :> I("br", {"l"}) @@ "mr" :> I("ret", {}))
GlobalPrograms == {WithAnalyses(p) : p \in {GlobalLoop, GlobalRegion}}

Names == UNION {Ins(p) \cup p.args \cup p.globals : p \in {Both} \cup Flow \cup Results \cup Revived \cup Chain \cup Special}
MCKeyOf == [v \in Names |-> v]
=============================================================================
