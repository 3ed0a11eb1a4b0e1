---------------------------- MODULE MCOmpCounters ---------------------------
(***************************************************************************)
(* Two threads on two cores and two parallel regions.  main counts at site *)
(* 0 and, behind its fork calls, at site 1, the outlined function at site  *)
(* 2, once or twice in a region (a loop of one block).                     *)
(***************************************************************************)
EXTENDS OmpCounters

MCNumBlocks == 3
MCMainSites == {0}
MCForkSites == {1}
MCBodySites == {2}
=============================================================================
