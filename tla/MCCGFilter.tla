----------------------------- MODULE MCCGFilter -----------------------------
(***************************************************************************)
(* Modules for CGFilter.                                                   *)
(***************************************************************************)
EXTENDS CGFilter

Bodies(len, items) == UNION {[1..k -> items] : k \in 0..len}

\* The call graph of functions whose instructions call what body says.
CallsOf(f, body) ==
    SelectSeq([k \in DOMAIN body[f] |-> [site |-> <<f, k>>, node |-> body[f][k]]], LAMBDA r : r.node # None)

Module(main, f, g, h) ==
    LET body == [main |-> main, f |-> f, g |-> g, h |-> h]
    IN  [fns |-> DOMAIN body, decls |-> {"puts"}, body |-> body,
         size |-> [n \in DOMAIN body |-> Len(body[n])],
         calls |-> [n \in DOMAIN body |-> CallsOf(n, body)]]

\* Modules of four functions, with calls that are repeated, recursive, to
\* declared functions and through pointers.
SmallModules ==
    {Module(b, f, g, h) : b \in [1..3 -> {None, "f", "h"}],
                          f \in Bodies(2, {"g", "h"}) \cup {<<"main", None, "g">>},
                          g \in Bodies(1, {"f", "h", "puts", External}),
                          h \in {<<>>, <<None, "h">>}}
=============================================================================
