---------------------------- MODULE GlobalVarDCE ----------------------------
(***************************************************************************)
(* GlobalVarDCE on one LLVM module: marks the globals that are needed,     *)
(* then deletes the others.                                                *)
(*                                                                         *)
(* A module is a record                                                    *)
(*   globals   its functions, variables and aliases, in this order         *)
(*   kind      global -> "function", "variable" or "alias"                 *)
(*   external  the globals that may not be discarded when unused           *)
(*   declared  those without a body or initializer of their own            *)
(*   uses      global -> the globals and constants it uses: operands of    *)
(*             instructions and prefix data, the initializer, the aliasee  *)
(*   operands  constant -> the globals and constants it is made of         *)
(* Personality functions, which the code does not look at, are left out.   *)
(* Names that CGFilter has too begin with DCE, or are others.              *)
(***************************************************************************)
EXTENDS Integers, Sequences, FiniteSets

CONSTANT LinkedModules

Globals(m)   == {m.globals[n] : n \in DOMAIN m.globals}
Constants(m) == DOMAIN m.operands
Kinds == {"function", "variable", "alias"}

WellLinked(m) ==
    /\ m.globals \in Seq(Globals(m))
    /\ Globals(m) \cap Constants(m) = {}
    /\ m.kind \in [Globals(m) -> Kinds]
    /\ m.external \subseteq Globals(m) /\ m.declared \subseteq Globals(m)
    /\ m.uses \in [Globals(m) -> SUBSET (Globals(m) \cup Constants(m))]
    /\ m.operands \in [Constants(m) -> SUBSET (Globals(m) \cup Constants(m))]
    /\ \A g \in m.declared : m.uses[g] = {}

ASSUME LinkedAssumption == \A m \in LinkedModules : WellLinked(m)

OfKind(m, k) == {g \in Globals(m) : m.kind[g] = k}

\* Globals visible from outside with a body or an initializer, and all
\* aliases visible from outside.
Root(m, g) == g \in m.external /\ (m.kind[g] = "alias" \/ g \notin m.declared)

VARIABLES
    linked,   \* the module
    stage,    \* "mark", "drop", "erase" or "done"
    cur,      \* position in the loops over the globals
    alive,    \* AliveGlobals
    seen,     \* SeenConstants
    todo,     \* globals and constants the recursion has still to scan
    dropped,  \* globals whose references were dropped
    exists    \* globals still in the module

dceVars == <<linked, stage, cur, alive, seen, todo, dropped, exists>>

-----------------------------------------------------------------------------
DCEInit ==
    /\ linked \in LinkedModules
    /\ stage = "mark" /\ cur = 1
    /\ alive = {} /\ seen = {} /\ todo = {} /\ dropped = {}
    /\ exists = Globals(linked)

\* (a faulty variant: aliases are not among the roots)
MarkRootNoAlias ==
    /\ stage = "mark" /\ todo = {} /\ cur \in DOMAIN linked.globals
    /\ LET g == linked.globals[cur]
           new == IF Root(linked, g) /\ linked.kind[g] # "alias" THEN {g} \ alive ELSE {}
       IN  alive' = alive \cup new /\ todo' = new
    /\ cur' = cur + 1
    /\ UNCHANGED <<linked, stage, seen, dropped, exists>>

\* (a faulty variant: a root is scanned without being put into AliveGlobals)
MarkRootUnrecorded ==
    /\ stage = "mark" /\ todo = {} /\ cur \in DOMAIN linked.globals
    /\ todo' = IF Root(linked, linked.globals[cur]) THEN {linked.globals[cur]} \ alive ELSE {}
    /\ cur' = cur + 1
    /\ UNCHANGED <<linked, stage, alive, seen, dropped, exists>>

\* The three loops over functions, variables and aliases.
MarkRoot ==
    /\ stage = "mark" /\ todo = {} /\ cur \in DOMAIN linked.globals
    /\ LET g == linked.globals[cur]
           new == IF Root(linked, g) THEN {g} \ alive ELSE {}
       IN  alive' = alive \cup new /\ todo' = new
    /\ cur' = cur + 1
    /\ UNCHANGED <<linked, stage, seen, dropped, exists>>

\* What a scan of the globals and constants of T comes upon.  An operand of a
\* constant is followed once, what a global uses whenever the global is
\* scanned.
NewOperands(m, T, old) == (UNION {m.operands[c] : c \in T \cap Constants(m)}) \ old
Found(m, T, old) == (UNION {m.uses[g] : g \in T \cap Globals(m)}) \cup NewOperands(m, T, old)

\* (a faulty variant: constants are put into SeenConstants with their operands)
GlobalIsNeededSeesAhead ==
    /\ stage = "mark" /\ todo # {}
    /\ LET found == Found(linked, todo, seen)
       IN  /\ alive' = alive \cup (found \cap Globals(linked))
           /\ todo' = (found \cap Globals(linked)) \ alive
           /\ seen' = seen \cup found
    /\ UNCHANGED <<linked, stage, cur, dropped, exists>>

\* (a faulty variant: a marked global is scanned again when it is come upon)
GlobalIsNeededAgain ==
    /\ stage = "mark" /\ todo # {}
    /\ LET found == Found(linked, todo, seen)
       IN  /\ alive' = alive \cup (found \cap Globals(linked))
           /\ todo' = found
           /\ seen' = seen \cup NewOperands(linked, todo, seen)
    /\ UNCHANGED <<linked, stage, cur, dropped, exists>>

\* One level of the recursion of GlobalIsNeeded and MarkUsedGlobalsAsNeeded.
\* Its order does not matter: both sets only grow.
GlobalIsNeeded ==
    /\ stage = "mark" /\ todo # {}
    /\ LET found == Found(linked, todo, seen)
       IN  /\ alive' = alive \cup (found \cap Globals(linked))
           /\ todo' = (found \cap Constants(linked)) \cup ((found \cap Globals(linked)) \ alive)
           /\ seen' = seen \cup NewOperands(linked, todo, seen)
    /\ UNCHANGED <<linked, stage, cur, dropped, exists>>

\* The three passes that drop initializers, bodies and aliasees of the others.
Dead(k) == OfKind(linked, k) \ alive
DropOrder == <<"variable", "function", "alias">>
StartDropping ==
    /\ stage = "mark" /\ todo = {} /\ cur \notin DOMAIN linked.globals
    /\ stage' = "drop" /\ cur' = 1
    /\ UNCHANGED <<linked, alive, seen, todo, dropped, exists>>

\* (a faulty variant: only the dead functions are emptied)
DropPassFunctions ==
    /\ stage = "drop" /\ cur \in DOMAIN DropOrder
    /\ dropped' = dropped \cup Dead("function")
    /\ cur' = cur + 1
    /\ UNCHANGED <<linked, stage, alive, seen, todo, exists>>

DropPass ==
    /\ stage = "drop" /\ cur \in DOMAIN DropOrder
    /\ dropped' = dropped \cup Dead(DropOrder[cur])
    /\ cur' = cur + 1
    /\ UNCHANGED <<linked, stage, alive, seen, todo, exists>>

StartErasing ==
    /\ stage = "drop" /\ cur \notin DOMAIN DropOrder
    /\ stage' = "erase" /\ cur' = 1
    /\ UNCHANGED <<linked, alive, seen, todo, dropped, exists>>

\* They are erased one by one, functions first: module order is such an order.
Erase ==
    /\ stage = "erase" /\ cur \in DOMAIN linked.globals
    /\ exists' = IF linked.globals[cur] \in alive THEN exists ELSE exists \ {linked.globals[cur]}
    /\ cur' = cur + 1
    /\ UNCHANGED <<linked, stage, alive, seen, todo, dropped>>

Finish ==
    /\ stage = "erase" /\ cur \notin DOMAIN linked.globals
    /\ stage' = "done" /\ alive' = {} /\ seen' = {}
    /\ UNCHANGED <<linked, cur, todo, dropped, exists>>

DCENext == \/ MarkRoot \/ GlobalIsNeeded \/ StartDropping \/ DropPass
           \/ StartErasing \/ Erase \/ Finish

DCESpec     == DCEInit /\ [][DCENext]_dceVars
DCEFairSpec == DCESpec /\ WF_dceVars(DCENext)   \* a sequential pass that keeps running

-----------------------------------------------------------------------------
DCETypeOK ==
    /\ linked \in LinkedModules
    /\ stage \in {"mark", "drop", "erase", "done"}
    /\ cur \in Nat \ {0}
    /\ alive \subseteq Globals(linked)
    /\ seen \subseteq Globals(linked) \cup Constants(linked)
    /\ todo \subseteq Globals(linked) \cup Constants(linked) /\ todo \cap Globals(linked) \subseteq alive
    /\ dropped \subseteq Globals(linked) /\ exists \subseteq Globals(linked)

\* The globals a program needs: every set that holds the roots and all that
\* its members are made of holds them.
Closed(m, S) ==
    /\ \A g \in Globals(m) : Root(m, g) => g \in S
    /\ \A g \in S \cap Globals(m) : m.uses[g] \subseteq S
    /\ \A c \in S \cap Constants(m) : m.operands[c] \subseteq S
Needed(m) == {g \in Globals(m) :
                 \A S \in SUBSET (Globals(m) \cup Constants(m)) : Closed(m, S) => g \in S}

\* The pass deletes exactly the globals that are not needed.
DeletesExactly == stage = "done" => exists = Needed(linked)

\* Global g refers to h: it uses h, directly or through constants.
RefersTo(m, g, h) ==
    \A S \in SUBSET (Globals(m) \cup Constants(m)) :
        /\ m.uses[g] \subseteq S
        /\ \A c \in S \cap Constants(m) : m.operands[c] \subseteq S
        => h \in S

\* No global is erased while a use of it is left, in a kept global or in one
\* that is itself to be erased later.
NothingDangles ==
    \A g \in exists \ dropped : \A h \in Globals(linked) : RefersTo(linked, g, h) => h \in exists

\* The pass comes to an end: nothing is scanned for ever.
Finishes == <>(stage = "done")

-----------------------------------------------------------------------------
(* The inductive invariant behind DeletesExactly and NothingDangles.       *)

\* Everything marked or seen is needed.
OnlyNeeded ==
    \A S \in SUBSET (Globals(linked) \cup Constants(linked)) :
        Closed(linked, S) => alive \subseteq S /\ seen \subseteq S /\ todo \subseteq S

\* What was scanned has its parts marked, or waiting.
Scanned ==
    stage # "done" =>
        /\ \A g \in alive \ todo :
              /\ linked.uses[g] \cap Globals(linked) \subseteq alive
              /\ \A c \in linked.uses[g] \cap Constants(linked) : c \in todo \/ linked.operands[c] \subseteq seen
        /\ \A c \in seen \cap Constants(linked) : c \in todo \/ linked.operands[c] \subseteq seen
        /\ seen \cap Globals(linked) \subseteq alive

\* The loops have dealt with what is behind them.
Marked ==
    /\ stage = "mark" => /\ \A n \in DOMAIN linked.globals :
                               n < cur /\ Root(linked, linked.globals[n]) => linked.globals[n] \in alive
                         /\ exists = Globals(linked)
    /\ stage \in {"drop", "erase"} =>
          /\ todo = {}
          /\ \A g \in Globals(linked) : Root(linked, g) => g \in alive

Dropped ==
    /\ stage = "mark" => dropped = {}
    /\ stage = "drop" =>
          /\ cur \in 1..4 /\ exists = Globals(linked)
          /\ \A g \in Globals(linked) :
                g \in dropped <=> g \notin alive /\ \E n \in 1..3 : n < cur /\ linked.kind[g] = DropOrder[n]
    /\ stage = "erase" => dropped = Globals(linked) \ alive

Erased ==
    /\ stage = "erase" =>
          \A g \in Globals(linked) : g \in exists <=>
              g \in alive \/ ~\E n \in DOMAIN linked.globals : n < cur /\ linked.globals[n] = g
    /\ stage = "done" => exists = Needed(linked) /\ dropped = Globals(linked) \ exists

DCEInv == DCETypeOK /\ OnlyNeeded /\ Scanned /\ Marked /\ Dropped /\ Erased
=============================================================================
