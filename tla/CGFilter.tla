------------------------------ MODULE CGFilter ------------------------------
(***************************************************************************)
(* CGFilter: numbers the functions that main reaches by calls, so that     *)
(* instructions of different functions can be ordered (judgeIns).          *)
(*                                                                         *)
(* A module is a record                                                    *)
(*   fns    its functions with a body                                      *)
(*   decls  declared functions                                             *)
(*   size   function -> how many instructions it has                       *)
(*   calls  function -> the records of its call graph node: the call and   *)
(*          the node it leads to, a function or External (a call through   *)
(*          a pointer)                                                     *)
(* An instruction is its function and its place in the layout of it.       *)
(***************************************************************************)
EXTENDS Integers, Sequences, SequencesExt, FiniteSets

CONSTANTS Modules, None, External,
          UINT_MAX   \* 2^32 - 1 in the code; no module is so large

Main == "main"

\* Instructions, and std::less on them: layout order within a function.
Ins(m) == UNION {{f} \X (1..m.size[f]) : f \in m.fns}
Less(x, y) == x[1] = y[1] /\ x[2] < y[2]

WellFormed(m) ==
    /\ Main \in m.fns /\ m.fns \cap m.decls = {} /\ {None, External} \cap (m.fns \cup m.decls) = {}
    /\ m.size \in [m.fns -> Nat]
    /\ m.calls \in [m.fns -> Seq([site : Ins(m), node : m.fns \cup m.decls \cup {External}])]
    /\ \A f \in m.fns : \A k, l \in DOMAIN m.calls[f] :
          m.calls[f][k].site[1] = f /\ (k < l => Less(m.calls[f][k].site, m.calls[f][l].site))

ASSUME ModulesAssumption == (\A m \in Modules : WellFormed(m)) /\ None # External
ASSUME NumberAssumption  ==
    /\ UINT_MAX \in Nat
    /\ \A m \in Modules : IsFiniteSet(m.fns) /\ 2 * Cardinality(m.fns) <= UINT_MAX

\* The call records of a call graph node.  A declared function may call
\* anything, and so may a call through a pointer.
Records(m, n) ==
    IF n \in m.fns THEN m.calls[n]
    ELSE IF n \in m.decls THEN <<[site |-> <<n, 0>>, node |-> External]>> ELSE <<>>

VARIABLES
    M,         \* the module
    phase,     \* "pre" (df_iterator), "post" (po_iterator) or "done"
    path,      \* the iterator's stack: nodes and the next call record of each
    visited,   \* the iterator's visited nodes
    i,         \* the number given last
    lastLen,   \* LastPathLen
    order,     \* order_map: function -> [first, last)
    only       \* Only: the calls along which functions were entered

vars == <<M, phase, path, visited, i, lastLen, order, only>>

-----------------------------------------------------------------------------
Fresh ==
    /\ phase = "pre" /\ path = <<>> /\ visited = {}
    /\ i = -1 /\ lastLen = 0
    /\ order = <<>> /\ only = {}

Init == M \in Modules /\ Fresh

\* The call along which the iterator came to n, last on its stack.
EnteredBy(n, stack) ==
    IF Len(stack) = 1 THEN {}
    ELSE LET calls == Records(M, stack[Len(stack) - 1].node)
         IN  {calls[SelectInSeq(calls, LAMBDA r : r.node = n)].site}

Numbered(n, number) ==
    [f \in DOMAIN order \cup {n} |->
        IF f = n THEN [first |-> number, last |-> 0] ELSE order[f]]

\* (a faulty variant: LastPathLen is not remembered)
NumberForgetful(n, stack) ==
    /\ only' = only \cup EnteredBy(n, stack)
    /\ i' = i + lastLen - Len(stack) + 2
    /\ order' = Numbered(n, i')
    /\ UNCHANGED lastLen

\* (a faulty variant: no number is left for what follows a call)
NumberDense(n, stack) ==
    /\ only' = only \cup EnteredBy(n, stack)
    /\ i' = i + lastLen - Len(stack) + 1
    /\ lastLen' = Len(stack)
    /\ order' = Numbered(n, i')

\* The body of the first loop.
Number(n, stack) ==
    /\ only' = only \cup EnteredBy(n, stack)
    /\ i' = i + lastLen - Len(stack) + 2
    /\ lastLen' = Len(stack)
    /\ order' = Numbered(n, i')

\* The iterator goes to node n; in the first loop a defined function is numbered.
Enter(n, stack) ==
    /\ path' = stack
    /\ visited' = visited \cup {n}
    /\ IF phase = "pre" /\ n \in M.fns
       THEN Number(n, stack)
       ELSE UNCHANGED <<i, lastLen, order, only>>
    /\ UNCHANGED <<M, phase>>

Top     == path[Len(path)]
HasNext == path # <<>> /\ Top.next \in DOMAIN Records(M, Top.node)
Child   == Records(M, Top.node)[Top.next].node
Moved   == [path EXCEPT ![Len(path)].next = @ + 1]

\* df_begin, po_begin
Begin ==
    /\ phase # "done" /\ path = <<>> /\ visited = {}
    /\ Enter(Main, <<[node |-> Main, next |-> 1]>>)

Descend ==
    /\ HasNext /\ Child \notin visited
    /\ Enter(Child, Append(Moved, [node |-> Child, next |-> 1]))

Skip ==
    /\ HasNext /\ Child \in visited
    /\ path' = Moved
    /\ UNCHANGED <<M, phase, visited, i, lastLen, order, only>>

\* The call records of n along which a function with a body was entered.
Valid(n) == {k \in DOMAIN Records(M, n) : /\ Records(M, n)[k].node \in M.fns
                                         /\ Records(M, n)[k].site \in only}

\* (a faulty variant: whichever function with a body is called last)
LastChildAny(n) ==
    LET valid == {k \in DOMAIN Records(M, n) : Records(M, n)[k].node \in M.fns}
    IN  IF valid = {} THEN None ELSE Records(M, n)[Max(valid)].node

\* last_valid_child
LastChild(n) == IF Valid(n) = {} THEN None ELSE Records(M, n)[Max(Valid(n))].node

\* The second loop computes where a function's range ends when it leaves it.
Leave ==
    /\ path # <<>> /\ ~HasNext
    /\ path' = Front(path)
    /\ LET n == Top.node IN
       order' = IF phase = "post" /\ n \in M.fns
                THEN [order EXCEPT ![n].last =
                         IF LastChild(n) = None THEN order[n].first + 1
                         ELSE order[LastChild(n)].last + 1]
                ELSE order
    /\ UNCHANGED <<M, phase, visited, i, lastLen, only>>

EndLoop ==
    /\ phase # "done" /\ path = <<>> /\ visited # {}
    /\ phase' = IF phase = "pre" THEN "post" ELSE "done"
    /\ visited' = {}
    /\ UNCHANGED <<M, path, i, lastLen, order, only>>

Next == Begin \/ Descend \/ Skip \/ Leave \/ EndLoop

Spec == Init /\ [][Next]_vars

-----------------------------------------------------------------------------
\* (a faulty variant: a call is ordered behind what it calls)
indexofBehindCall(x) ==
    IF x[1] \notin DOMAIN order THEN UINT_MAX
    ELSE LET calls  == Records(M, x[1])
             behind == {k \in Valid(x[1]) : Less(x, calls[k].site)}
         IN  IF calls = <<>> THEN order[x[1]].first
             ELSE IF behind = {} THEN order[x[1]].last - 1
             ELSE order[calls[Min(behind)].node].first - 1

\* The number of an instruction: the place between the calls of its function
\* where it stands.
indexof(x) ==
    IF x[1] \notin DOMAIN order THEN UINT_MAX
    ELSE LET calls  == Records(M, x[1])
             behind == {k \in Valid(x[1]) : x = calls[k].site \/ Less(x, calls[k].site)}
         IN  IF calls = <<>> THEN order[x[1]].first
             ELSE IF behind = {} THEN order[x[1]].last - 1
             ELSE order[calls[Min(behind)].node].first - 1

judgeIns(x, y) ==
    IF indexof(x) = indexof(y) THEN Less(x, y) ELSE indexof(x) < indexof(y)

Reached == {x \in Ins(M) : x[1] \in DOMAIN order}

-----------------------------------------------------------------------------
RangeOf(f) == order[f].first .. (order[f].last - 1)

\* CGFilter.h:27: a function has the range [first, last), which holds the
\* numbers of its instructions.  Ranges nest as the calls do that entered the
\* functions, and overlap in no other way.  (A part of TypeOK.)
RangesNest ==
    phase = "done" =>
        /\ \A x \in Reached : indexof(x) \in RangeOf(x[1])
        /\ \A f, g \in DOMAIN order :
              RangeOf(f) \subseteq RangeOf(g) \/ RangeOf(g) \subseteq RangeOf(f) \/ RangeOf(f) \cap RangeOf(g) = {}
        /\ \A f \in DOMAIN order : \A k \in Valid(f) :
              LET call == Records(M, f)[k]
              IN  RangeOf(call.node) \subseteq RangeOf(f) \ {indexof(call.site)}

TypeOK ==
    /\ M \in Modules
    /\ phase \in {"pre", "post", "done"}
    /\ visited \subseteq M.fns \cup M.decls \cup {External}
    /\ path \in Seq([node : visited, next : Nat \ {0}])
    /\ i \in Nat \cup {-1} /\ lastLen \in Nat
    /\ DOMAIN order \subseteq M.fns /\ order \in [DOMAIN order -> [first : Nat, last : Nat]]
    /\ only \subseteq Ins(M)
    /\ RangesNest

\* CGFilter.cpp:140 asserts that instructions with one number are in one
\* function.
OneFunctionPerIndex ==
    phase = "done" =>
        \A x, y \in Reached : indexof(x) = indexof(y) => x[1] = y[1]

-----------------------------------------------------------------------------
(* The walk judgeIns is compared with.  It comes upon the instructions of  *)
(* main, from a call of a function it has not entered it goes there, and   *)
(* behind the last instruction of a function back to where it came from.   *)

\* ahead holds the instruction it comes upon next in each function it is in.
WalkStart == [ahead |-> <<<<Main, 1>>>>, entered |-> {Main}, upon |-> <<>>]

WalkOn(m, s) ==
    LET x      == Last(s.ahead)
        behind == Append(Front(s.ahead), <<x[1], x[2] + 1>>)
        called == {r \in Range(m.calls[x[1]]) : r.site = x /\ r.node \in m.fns \ s.entered}
    IN  IF s.ahead = <<>> THEN s
        ELSE IF x \notin Ins(m) THEN [s EXCEPT !.ahead = Front(@)]
        ELSE IF called = {} THEN [s EXCEPT !.ahead = behind, !.upon = Append(@, x)]
        ELSE LET g == (CHOOSE r \in called : TRUE).node
             IN  [ahead   |-> Append(behind, <<g, 1>>),
                  entered |-> s.entered \cup {g},
                  upon    |-> Append(s.upon, x)]

\* With each step it comes upon an instruction or leaves a function.
WalkLength(m) == Cardinality(Ins(m)) + Cardinality(m.fns)
WalkOrder(m) ==
    LET walk[n \in 0..WalkLength(m)] == IF n = 0 THEN WalkStart ELSE WalkOn(m, walk[n - 1])
    IN  walk[WalkLength(m)].upon

\* judgeIns is the order of the walk; instructions of functions that main does
\* not reach come behind all others.
OrderIsWalk ==
    phase = "done" =>
        LET walk == WalkOrder(M)
            Place(x) == CHOOSE n \in DOMAIN walk : walk[n] = x
        IN  /\ Reached = {walk[n] : n \in DOMAIN walk}
            /\ \A x, y \in Reached : judgeIns(x, y) <=> Place(x) < Place(y)
            /\ \A x \in Reached, y \in Ins(M) \ Reached : judgeIns(x, y) /\ ~judgeIns(y, x)
=============================================================================
