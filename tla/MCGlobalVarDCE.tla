--------------------------- MODULE MCGlobalVarDCE ---------------------------
(***************************************************************************)
(* Modules of two functions, an external function, two variables and an    *)
(* alias, with a choice of references between them, direct and through two *)
(* constants, the second a part of the first.                              *)
(***************************************************************************)
EXTENDS GlobalVarDCE

Names == {"main", "f", "ext", "v", "w", "a"}

MCModules ==
    {[globals |-> <<"main", "f", "ext", "v", "w", "a">>,
      kind |-> [g \in Names |-> CASE g \in {"main", "f", "ext"} -> "function"
                                  [] g = "a" -> "alias" [] OTHER -> "variable"],
      external |-> {"main", "ext"} \cup visible.external,
      declared |-> {"ext"} \cup visible.declared,
      uses |-> [g \in Names |->
                   CASE g = "main" -> um [] g = "f" -> uf
                     [] g = "v" -> IF "v" \in visible.declared THEN {} ELSE uv
                     [] g = "w" -> uw [] g = "a" -> ua [] OTHER -> {}],
      operands |-> [c \in {"c", "d"} |-> IF c = "c" THEN {"d"} \cup oc ELSE od]] :
        visible \in {[external |-> {}, declared |-> {}], [external |-> {"v"}, declared |-> {}],
                     [external |-> {"v"}, declared |-> {"v"}], [external |-> {"a"}, declared |-> {}]},
        um \in {{}, {"c"}, {"f", "d"}}, uf \in {{"v", "c"}, {"main", "f"}},
        uv \in {{"w"}, {"c"}}, uw \in {{"v"}, {"d"}}, ua \in {{"f"}, {"c"}},
        oc \in {{}, {"f"}}, od \in {{}, {"w", "a"}}}
=============================================================================
