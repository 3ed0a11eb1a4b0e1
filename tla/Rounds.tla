------------------------------- MODULE Rounds -------------------------------
(***************************************************************************)
(* What is reached from some things when each source x of step leads to    *)
(* the set step[x].                                                        *)
(***************************************************************************)
EXTENDS Integers, FiniteSets

Follow(found, step) == found \cup UNION {step[x] : x \in found \cap DOMAIN step}

ReachedIn(start, step) ==
    LET R[n \in 0..Cardinality(DOMAIN step)] ==
            IF n = 0 THEN start ELSE Follow(R[n - 1], step)
    IN  R[Cardinality(DOMAIN step)]

Closed(C, step) == \A x \in C \cap DOMAIN step : step[x] \subseteq C
=============================================================================
