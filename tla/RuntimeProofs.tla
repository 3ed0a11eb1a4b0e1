---------------------------- MODULE RuntimeProofs ---------------------------
(***************************************************************************)
(* The programs the passes have changed, when they run.  For every team,   *)
(* machine and set of sites: the counters of OmpProfiling never exceed the *)
(* executions, and those of a core only one thread used are exact.  For    *)
(* all loops, durations and errors: the quartile inst-timing prints is one *)
(* of the loop's own durations, and of the right rank.                     *)
(***************************************************************************)
EXTENDS OmpCounters, InstTiming, FiniteSetTheorems, TLAPS


Cores == 0..(NumCores - 1)

\* One more row is NumBlocks more cells.
LEMMA RowsApart == ASSUME NEW a \in Nat, NEW b \in Nat, NEW n \in Nat, a < b
                   PROVE  a * n + n <= b * n
<1> DEFINE d == b - a - 1
<1>1. d \in Nat /\ b = a + 1 + d
  OBVIOUS
<1>2. b * n = a * n + n + d * n
  BY <1>1, SMT
<1>3. d * n \in Nat /\ a * n \in Nat
  BY <1>1, SMT
<1> QED
  BY <1>2, <1>3, SMT

\* The index IncrementCounterInBlock computes is inside the array ...
LEMMA CellInArray == ASSUME NEW c \in Cores, NEW s \in Sites
                     PROVE  CellOf(c, s) \in Cells
<1> USE CountAssumption
<1>1. c \in Nat /\ NumCores \in Nat /\ c < NumCores /\ s \in Nat /\ s < NumBlocks
  BY DEF Cores, Sites
<1>2. c * NumBlocks + NumBlocks <= NumCores * NumBlocks
  BY <1>1, RowsApart
<1>3. c * NumBlocks \in Nat /\ NumCores * NumBlocks \in Nat
  BY <1>1, SMT
<1> QED
  BY <1>1, <1>2, <1>3 DEF CellOf, Cells, Size

LEMMA SizeNat == Size \in Nat
  BY CountAssumption, SMT DEF Size

\* ... and different for different cores or sites.
LEMMA CellsDiffer ==
    ASSUME NEW c \in Cores, NEW s \in Sites, NEW d \in Cores, NEW u \in Sites,
           CellOf(c, s) = CellOf(d, u)
    PROVE  c = d /\ s = u
<1> USE CountAssumption
<1>1. /\ c \in Nat /\ d \in Nat /\ s \in Nat /\ u \in Nat
      /\ s < NumBlocks /\ u < NumBlocks /\ NumBlocks \in Nat
  BY DEF Cores, Sites
<1>2. c * NumBlocks + s = d * NumBlocks + u
  BY DEF CellOf
<1>3. c * NumBlocks \in Nat /\ d * NumBlocks \in Nat
  BY <1>1, SMT
<1>4. ~(c < d)
  <2>1. c < d => c * NumBlocks + NumBlocks <= d * NumBlocks
    BY <1>1, RowsApart
  <2> QED
    BY <1>1, <1>2, <1>3, <2>1
<1>5. ~(d < c)
  <2>1. d < c => d * NumBlocks + NumBlocks <= c * NumBlocks
    BY <1>1, RowsApart
  <2> QED
    BY <1>1, <1>2, <1>3, <2>1
<1>6. c = d
  BY <1>1, <1>4, <1>5
<1> QED
  BY <1>1, <1>2, <1>3, <1>6

LEMMA InitTypeOK == Init => TypeOK
<1> SUFFICES ASSUME Init PROVE TypeOK
  OBVIOUS
<1> USE TeamAssumption, CountAssumption, SitesAssumption, BoundsAssumption DEF Init
<1>1. BBCounters \in [Cells -> Nat] /\ profile \in [Cells -> Nat]
  OBVIOUS
<1>2. /\ pc \in [Threads -> {"idle", "cpu", "load", "store", "run", "joined", "write", "end"}]
      /\ site \in [Threads -> Sites]
      /\ old \in [Threads -> Nat]
      /\ blocks \in [Threads -> 0..MaxBlocks]
  OBVIOUS
<1>3. core \in [Threads -> 0..(NumCores - 1)]
  OBVIOUS
<1>4. written \in -1..Size /\ forks \in 0..MaxForks
  BY SizeNat
<1>p. parallel \in BOOLEAN
  BY Zenon
<1>5. /\ exec \in [(0..(NumCores - 1)) \X Sites -> Nat]
      /\ counted \in [0..(NumCores - 1) -> SUBSET Threads]
  OBVIOUS
<1> QED
  BY <1>1, <1>2, <1>3, <1>4, <1>p, <1>5 DEF TypeOK

LEMMA InitIInv == Init => IInv
<1> SUFFICES ASSUME Init PROVE IInv
  OBVIOUS
<1>1. TypeOK
  BY InitTypeOK
<1>2. \A c \in 0..(NumCores - 1), s \in Sites : BBCounters[CellOf(c, s)] = 0 /\ exec[<<c, s>>] = 0
  BY CellInArray DEF Cores, Init
<1>3. NeverOvercounts
  <2> SUFFICES ASSUME NEW c \in 0..(NumCores - 1), NEW s \in Sites
               PROVE  BBCounters[CellOf(c, s)] <= exec[<<c, s>>]
    BY DEF NeverOvercounts
  <2>1. BBCounters[CellOf(c, s)] = 0 /\ exec[<<c, s>>] = 0
    BY <1>2
  <2> QED
    BY <2>1
<1>4. RowsExact
  <2>1. \A c \in 0..(NumCores - 1), s \in Sites : Pending(c, s) = {}
    BY DEF Pending, Init
  <2> QED
    BY <1>2, <2>1 DEF RowsExact
<1>5. Storing
  BY DEF Storing, Init
<1>6. Sequential /\ Writing
  BY TeamAssumption DEF Sequential, Writing, Init
<1>7. ProfileFinal
  BY DEF ProfileFinal, Init
<1> QED
  BY <1>1, <1>3, <1>4, <1>5, <1>6, <1>7 DEF IInv

\* Steps that touch neither counters nor histories, and after which nobody
\* has more to store than before.
LEMMA Quiet ==
    ASSUME NeverOvercounts, RowsExact, Storing,
           UNCHANGED <<BBCounters, exec, counted>>,
           \A t \in Threads : (pc'[t] = "store" <=> pc[t] = "store"),
           \A t \in Threads : pc[t] = "store" =>
               core'[t] = core[t] /\ site'[t] = site[t] /\ old'[t] = old[t]
    PROVE  NeverOvercounts' /\ RowsExact' /\ Storing'
<1>1. NeverOvercounts'
  BY DEF NeverOvercounts, CellOf
<1>2. \A c, s : Pending(c, s)' = Pending(c, s)
  BY DEF Pending
<1>3. RowsExact'
  BY <1>2 DEF RowsExact, CellOf
<1>4. Storing'
  BY DEF Storing, Cell, CellOf
<1> QED
  BY <1>1, <1>3, <1>4

LEMMA NextTypeOK == TypeOK /\ [Next]_vars => TypeOK'
<1> SUFFICES ASSUME TypeOK, [Next]_vars PROVE TypeOK'
  OBVIOUS
<1> USE TeamAssumption, CountAssumption, CpusAssumption, SitesAssumption, BoundsAssumption
<1>1. ASSUME NEW t \in Threads, GetCoreNum(t) PROVE TypeOK'
  BY <1>1 DEF TypeOK, GetCoreNum
<1>2. ASSUME NEW t \in Threads, LoadCounter(t) PROVE TypeOK'
  <2>1. Cell(t) \in Cells
    BY CellInArray DEF Cell, TypeOK, Cores
  <2>2. old' \in [Threads -> Nat]
    BY <1>2, <2>1 DEF TypeOK, LoadCounter
  <2>3. exec' \in [(0..(NumCores - 1)) \X Sites -> Nat]
    BY <1>2 DEF TypeOK, LoadCounter
  <2>4. counted' \in [0..(NumCores - 1) -> SUBSET Threads]
    BY <1>2 DEF TypeOK, LoadCounter
  <2> QED
    BY <1>2, <2>2, <2>3, <2>4 DEF TypeOK, LoadCounter
<1>3. ASSUME NEW t \in Threads, StoreCounter(t) PROVE TypeOK'
  <2>1. Cell(t) \in Cells
    BY CellInArray DEF Cell, TypeOK, Cores
  <2>2. BBCounters' \in [Cells -> Nat]
    BY <1>3, <2>1 DEF TypeOK, StoreCounter
  <2>3. pc' \in [Threads -> {"idle", "cpu", "load", "store", "run", "joined", "write", "end"}]
    BY <1>3 DEF TypeOK, StoreCounter
  <2> QED
    BY <1>3, <2>2, <2>3 DEF TypeOK, StoreCounter
<1>4. ASSUME NEW t \in Threads, NextBlock(t) PROVE TypeOK'
  <2>1. SitesOf(t) \subseteq Sites
    BY DEF SitesOf
  <2> QED
    BY <1>4, <2>1 DEF TypeOK, NextBlock
<1>5. ASSUME NEW t \in Threads, LeaveRegion(t) PROVE TypeOK'
  BY <1>5 DEF TypeOK, LeaveRegion
<1>6. CASE Fork
  BY <1>6 DEF TypeOK, Fork
<1>7. CASE Join
  <2>1. pc' \in [Threads -> {"idle", "cpu", "load", "store", "run", "joined", "write", "end"}]
    BY <1>7 DEF Join
  <2>2. site' \in [Threads -> Sites]
    BY <1>7 DEF TypeOK, Join
  <2>3. blocks' \in [Threads -> 0..MaxBlocks]
    BY <1>7 DEF TypeOK, Join
  <2>4. parallel' \in BOOLEAN
    BY <1>7, Zenon DEF Join
  <2> QED
    BY <1>7, <2>1, <2>2, <2>3, <2>4 DEF TypeOK, Join
<1>8. CASE OpenProfile
  <2>1. pc' \in [Threads -> {"idle", "cpu", "load", "store", "run", "joined", "write", "end"}]
    BY <1>8 DEF TypeOK, OpenProfile
  <2>2. written' \in -1..Size
    BY <1>8, SizeNat DEF TypeOK, OpenProfile
  <2> QED
    BY <1>8, <2>1, <2>2 DEF TypeOK, OpenProfile
<1>9. CASE WriteProfile
  <2>1. pc' \in [Threads -> {"idle", "cpu", "load", "store", "run", "joined", "write", "end"}]
    BY <1>9 DEF TypeOK, WriteProfile
  <2>2. profile' \in [Cells -> Nat]
    BY <1>9 DEF TypeOK, WriteProfile
  <2>3. written' \in -1..Size
    <3>1. written \in Cells => written + 1 \in -1..Size
      BY SizeNat DEF Cells
    <3> QED
      BY <1>9, <3>1 DEF TypeOK, WriteProfile
  <2> QED
    BY <1>9, <2>1, <2>2, <2>3 DEF TypeOK, WriteProfile
<1>10. CASE UNCHANGED vars
  BY <1>10 DEF TypeOK, vars, thread
<1> QED
  BY <1>1, <1>2, <1>3, <1>4, <1>5, <1>6, <1>7, <1>8, <1>9, <1>10 DEF Next, Step

\* A load makes one more execution pending.
LEMMA LoadStep ==
    ASSUME IInv, TypeOK', NEW t \in Threads, LoadCounter(t)
    PROVE  NeverOvercounts' /\ RowsExact' /\ Storing'
<1> DEFINE c0 == core[t]
           s0 == site[t]
<1>1. c0 \in Cores /\ s0 \in Sites /\ <<c0, s0>> \in (0..(NumCores - 1)) \X Sites
  BY DEF IInv, TypeOK, Cores
<1>2. CellOf(c0, s0) \in Cells /\ BBCounters[CellOf(c0, s0)] \in Nat
  BY <1>1, CellInArray DEF IInv, TypeOK
<1>3. /\ exec' = [exec EXCEPT ![<<c0, s0>>] = @ + 1]
      /\ counted' = [counted EXCEPT ![c0] = @ \cup {t}]
      /\ old' = [old EXCEPT ![t] = BBCounters[CellOf(c0, s0)]]
      /\ pc' = [pc EXCEPT ![t] = "store"] /\ pc[t] = "load"
      /\ UNCHANGED <<BBCounters, core, site>>
  BY DEF LoadCounter, Cell
<1>4. /\ exec \in [(0..(NumCores - 1)) \X Sites -> Nat]
      /\ counted \in [0..(NumCores - 1) -> SUBSET Threads]
      /\ old \in [Threads -> Nat]
      /\ pc \in [Threads -> {"idle", "cpu", "load", "store", "run", "joined", "write", "end"}]
      /\ core \in [Threads -> 0..(NumCores - 1)] /\ site \in [Threads -> Sites]
      /\ BBCounters \in [Cells -> Nat]
  BY DEF IInv, TypeOK
<1>5. \A c \in Cores, s \in Sites :
         exec'[<<c, s>>] = IF c = c0 /\ s = s0 THEN exec[<<c, s>>] + 1 ELSE exec[<<c, s>>]
  BY <1>1, <1>3, <1>4 DEF Cores
<1>6. \A c \in Cores : counted[c] \subseteq counted'[c]
  BY <1>1, <1>3, <1>4 DEF Cores
<1>7. NeverOvercounts'
  <2> SUFFICES ASSUME NEW c \in Cores, NEW s \in Sites
               PROVE  BBCounters'[CellOf(c, s)] <= exec'[<<c, s>>]
    BY DEF NeverOvercounts, CellOf, Cores
  <2>1. BBCounters[CellOf(c, s)] <= exec[<<c, s>>]
    BY DEF IInv, NeverOvercounts, Cores
  <2>2. BBCounters[CellOf(c, s)] \in Nat /\ exec[<<c, s>>] \in Nat
    BY <1>4, CellInArray DEF Cores
  <2> QED
    BY <1>3, <1>5, <2>1, <2>2
\* If only one thread ever counted with c0, none is storing there now.
<1>8. ASSUME \A u, v \in counted'[c0] : u = v
      PROVE  \A u \in Threads : pc[u] = "store" => core[u] # c0
  <2> SUFFICES ASSUME NEW u \in Threads, pc[u] = "store", core[u] = c0
               PROVE  FALSE
    OBVIOUS
  <2>1. u \in counted[c0]
    BY DEF IInv, Storing
  <2>2. u \in counted'[c0] /\ t \in counted'[c0]
    BY <1>1, <1>3, <1>4, <2>1 DEF Cores
  <2> QED
    BY <1>3, <1>8, <2>2
<1>9. RowsExact'
  <2> SUFFICES ASSUME NEW c \in Cores, NEW s \in Sites, \A u, v \in counted'[c] : u = v
               PROVE  exec'[<<c, s>>] = BBCounters'[CellOf(c, s)]
                                          + (IF Pending(c, s)' = {} THEN 0 ELSE 1)
    BY DEF RowsExact, CellOf, Cores
  <2>1. exec[<<c, s>>] = BBCounters[CellOf(c, s)] + (IF Pending(c, s) = {} THEN 0 ELSE 1)
    BY <1>6 DEF IInv, RowsExact, Cores
  <2>2. BBCounters[CellOf(c, s)] \in Nat /\ exec[<<c, s>>] \in Nat
    BY <1>4, CellInArray DEF Cores
  <2>3. CASE c = c0 /\ s = s0
    <3>1. Pending(c, s) = {}
      BY <1>8, <2>3 DEF Pending
    <3>2. t \in Pending(c, s)'
      BY <1>3, <1>4, <2>3 DEF Pending
    <3> QED
      BY <1>3, <1>5, <2>1, <2>2, <2>3, <3>1, <3>2
  <2>4. CASE ~(c = c0 /\ s = s0)
    <3>1. Pending(c, s)' = Pending(c, s)
      BY <1>3, <1>4, <2>4 DEF Pending
    <3> QED
      BY <1>3, <1>5, <2>1, <2>4, <3>1
  <2> QED
    BY <2>3, <2>4
<1>10. Storing'
  <2> SUFFICES ASSUME NEW u \in Threads, pc'[u] = "store"
               PROVE  /\ u \in counted'[core[u]]
                      /\ old'[u] + 1 <= exec'[<<core[u], site[u]>>]
                      /\ (\A v, w \in counted'[core[u]] : v = w)
                            => old'[u] = BBCounters[CellOf(core[u], site[u])]
    BY <1>3 DEF Storing, Cell, CellOf
  <2>1. CASE u = t
    <3>1. old'[t] = BBCounters[CellOf(c0, s0)]
      BY <1>3, <1>4
    <3>2. BBCounters[CellOf(c0, s0)] <= exec[<<c0, s0>>] /\ exec[<<c0, s0>>] \in Nat
      BY <1>1, <1>4 DEF IInv, NeverOvercounts, Cores
    <3>3. exec'[<<c0, s0>>] = exec[<<c0, s0>>] + 1
      BY <1>1, <1>5
    <3>4. t \in counted'[c0]
      BY <1>1, <1>3, <1>4 DEF Cores
    <3> QED
      BY <1>2, <2>1, <3>1, <3>2, <3>3, <3>4
  <2>2. CASE u # t
    <3>1. pc[u] = "store" /\ old'[u] = old[u]
      BY <1>3, <1>4, <2>2
    <3>2. core[u] \in Cores /\ site[u] \in Sites /\ old[u] \in Nat
          /\ exec[<<core[u], site[u]>>] \in Nat
      BY <1>4 DEF Cores
    <3>3. /\ u \in counted[core[u]]
          /\ old[u] + 1 <= exec[<<core[u], site[u]>>]
          /\ (\A v, w \in counted[core[u]] : v = w)
                => old[u] = BBCounters[CellOf(core[u], site[u])]
      BY <3>1 DEF IInv, Storing, Cell
    <3>4. exec[<<core[u], site[u]>>] <= exec'[<<core[u], site[u]>>]
          /\ exec'[<<core[u], site[u]>>] \in Nat
      BY <1>5, <3>2
    <3> QED
      BY <1>6, <3>1, <3>2, <3>3, <3>4
  <2> QED
    BY <2>1, <2>2
<1> QED
  BY <1>7, <1>9, <1>10

\* A store completes one.
LEMMA StoreStep ==
    ASSUME IInv, TypeOK', NEW t \in Threads, StoreCounter(t)
    PROVE  NeverOvercounts' /\ RowsExact' /\ Storing'
<1> DEFINE c0 == core[t]
           s0 == site[t]
<1>1. c0 \in Cores /\ s0 \in Sites
  BY DEF IInv, TypeOK, Cores
<1>2. CellOf(c0, s0) \in Cells
  BY <1>1, CellInArray
<1>3. /\ BBCounters' = [BBCounters EXCEPT ![CellOf(c0, s0)] = old[t] + 1]
      /\ pc' = [pc EXCEPT ![t] = "run"] /\ pc[t] = "store"
      /\ UNCHANGED <<core, site, old, exec, counted>>
  BY DEF StoreCounter, Cell
<1>4. /\ exec \in [(0..(NumCores - 1)) \X Sites -> Nat]
      /\ counted \in [0..(NumCores - 1) -> SUBSET Threads]
      /\ old \in [Threads -> Nat]
      /\ pc \in [Threads -> {"idle", "cpu", "load", "store", "run", "joined", "write", "end"}]
      /\ core \in [Threads -> 0..(NumCores - 1)] /\ site \in [Threads -> Sites]
      /\ BBCounters \in [Cells -> Nat]
  BY DEF IInv, TypeOK
<1>5. \A c \in Cores, s \in Sites :
         BBCounters'[CellOf(c, s)] = IF c = c0 /\ s = s0 THEN old[t] + 1
                                     ELSE BBCounters[CellOf(c, s)]
  <2> SUFFICES ASSUME NEW c \in Cores, NEW s \in Sites
               PROVE  BBCounters'[CellOf(c, s)] = IF c = c0 /\ s = s0 THEN old[t] + 1
                                                  ELSE BBCounters[CellOf(c, s)]
    OBVIOUS
  <2>1. CellOf(c, s) \in Cells
    BY CellInArray
  <2>2. CellOf(c, s) = CellOf(c0, s0) <=> c = c0 /\ s = s0
    BY <1>1, CellsDiffer
  <2> QED
    BY <1>2, <1>3, <1>4, <2>1, <2>2
<1>6. /\ t \in counted[c0]
      /\ old[t] + 1 <= exec[<<c0, s0>>]
      /\ (\A u, v \in counted[c0] : u = v) => old[t] = BBCounters[CellOf(c0, s0)]
  BY <1>3 DEF IInv, Storing, Cell
<1>7. NeverOvercounts'
  <2> SUFFICES ASSUME NEW c \in Cores, NEW s \in Sites
               PROVE  BBCounters'[CellOf(c, s)] <= exec[<<c, s>>]
    BY <1>3 DEF NeverOvercounts, CellOf, Cores
  <2>1. BBCounters[CellOf(c, s)] <= exec[<<c, s>>]
    BY DEF IInv, NeverOvercounts, Cores
  <2> QED
    BY <1>5, <1>6, <2>1
\* If only t ever counted with c0, t is the only one storing there.
<1>8. ASSUME \A u, v \in counted[c0] : u = v
      PROVE  \A u \in Threads : pc[u] = "store" /\ core[u] = c0 => u = t
  BY <1>6, <1>8 DEF IInv, Storing
<1>9. RowsExact'
  <2> SUFFICES ASSUME NEW c \in Cores, NEW s \in Sites, \A u, v \in counted[c] : u = v
               PROVE  exec[<<c, s>>] = BBCounters'[CellOf(c, s)]
                                         + (IF Pending(c, s)' = {} THEN 0 ELSE 1)
    BY <1>3 DEF RowsExact, CellOf, Cores
  <2>1. exec[<<c, s>>] = BBCounters[CellOf(c, s)] + (IF Pending(c, s) = {} THEN 0 ELSE 1)
    BY DEF IInv, RowsExact, Cores
  <2>2. BBCounters[CellOf(c, s)] \in Nat /\ exec[<<c, s>>] \in Nat
    BY <1>4, CellInArray DEF Cores
  <2>3. CASE c = c0 /\ s = s0
    <3>1. t \in Pending(c, s)
      BY <1>3, <2>3 DEF Pending
    <3>2. Pending(c, s)' = {}
      BY <1>3, <1>4, <1>8, <2>3 DEF Pending
    <3>3. BBCounters'[CellOf(c, s)] = BBCounters[CellOf(c, s)] + 1
      BY <1>5, <1>6, <2>3
    <3> QED
      BY <2>1, <2>2, <3>1, <3>2, <3>3
  <2>4. CASE ~(c = c0 /\ s = s0)
    <3>1. Pending(c, s)' = Pending(c, s)
      BY <1>3, <1>4, <2>4 DEF Pending
    <3> QED
      BY <1>5, <2>1, <2>4, <3>1
  <2> QED
    BY <2>3, <2>4
<1>10. Storing'
  <2> SUFFICES ASSUME NEW u \in Threads, pc'[u] = "store"
               PROVE  /\ u \in counted[core[u]]
                      /\ old[u] + 1 <= exec[<<core[u], site[u]>>]
                      /\ (\A v, w \in counted[core[u]] : v = w)
                            => old[u] = BBCounters'[CellOf(core[u], site[u])]
    BY <1>3 DEF Storing, Cell, CellOf
  <2>1. u # t /\ pc[u] = "store"
    BY <1>3, <1>4
  <2>2. /\ u \in counted[core[u]]
        /\ old[u] + 1 <= exec[<<core[u], site[u]>>]
        /\ (\A v, w \in counted[core[u]] : v = w)
              => old[u] = BBCounters[CellOf(core[u], site[u])]
    BY <2>1 DEF IInv, Storing, Cell
  <2>3. core[u] \in Cores /\ site[u] \in Sites
    BY <1>4 DEF Cores
  <2>4. (\A v, w \in counted[core[u]] : v = w) => core[u] # c0
    BY <1>8, <2>1
  <2> QED
    BY <1>5, <2>2, <2>3, <2>4
<1> QED
  BY <1>7, <1>9, <1>10

LEMMA NextCounts == IInv /\ [Next]_vars => NeverOvercounts' /\ RowsExact' /\ Storing'
<1> SUFFICES ASSUME IInv, [Next]_vars PROVE NeverOvercounts' /\ RowsExact' /\ Storing'
  OBVIOUS
<1>0. TypeOK'
  BY NextTypeOK DEF IInv
<1>i. NeverOvercounts /\ RowsExact /\ Storing
  BY DEF IInv
<1>pc. /\ pc \in [Threads -> {"idle", "cpu", "load", "store", "run", "joined", "write", "end"}]
       /\ core \in [Threads -> 0..(NumCores - 1)] /\ site \in [Threads -> Sites]
       /\ Main \in Threads
  BY TeamAssumption DEF IInv, TypeOK
<1>1. ASSUME NEW t \in Threads, GetCoreNum(t) PROVE NeverOvercounts' /\ RowsExact' /\ Storing'
  BY <1>i, <1>pc, <1>1, Quiet DEF GetCoreNum
<1>2. ASSUME NEW t \in Threads, LoadCounter(t) PROVE NeverOvercounts' /\ RowsExact' /\ Storing'
  BY <1>0, <1>2, LoadStep
<1>3. ASSUME NEW t \in Threads, StoreCounter(t) PROVE NeverOvercounts' /\ RowsExact' /\ Storing'
  BY <1>0, <1>3, StoreStep
<1>4. ASSUME NEW t \in Threads, NextBlock(t) PROVE NeverOvercounts' /\ RowsExact' /\ Storing'
  BY <1>i, <1>pc, <1>4, Quiet DEF NextBlock
<1>5. ASSUME NEW t \in Threads, LeaveRegion(t) PROVE NeverOvercounts' /\ RowsExact' /\ Storing'
  BY <1>i, <1>pc, <1>5, Quiet DEF LeaveRegion
<1>6. CASE Fork
  <2>1. \A t \in Threads : pc[t] # "store" /\ pc'[t] # "store"
    BY <1>6, <1>pc DEF Fork, IInv, Sequential
  <2> QED
    BY <1>i, <1>6, <2>1, Quiet DEF Fork
<1>7. CASE Join
  <2>1. \A t \in Threads : pc[t] # "store" /\ pc'[t] # "store"
    BY <1>7, <1>pc DEF Join
  <2> QED
    BY <1>i, <1>7, <2>1, Quiet DEF Join
<1>8. CASE OpenProfile
  BY <1>i, <1>pc, <1>8, Quiet DEF OpenProfile
<1>9. CASE WriteProfile
  BY <1>i, <1>pc, <1>9, Quiet DEF WriteProfile
<1>10. CASE UNCHANGED vars
  BY <1>i, <1>10, Quiet DEF vars, thread
<1> QED
  BY <1>1, <1>2, <1>3, <1>4, <1>5, <1>6, <1>7, <1>8, <1>9, <1>10 DEF Next, Step

\* Nothing counts any more once the profile is being written.
LEMMA NextProfile == IInv /\ [Next]_vars => Sequential' /\ Writing' /\ ProfileFinal'
<1> SUFFICES ASSUME IInv, [Next]_vars PROVE Sequential' /\ Writing' /\ ProfileFinal'
  OBVIOUS
<1>i. Sequential /\ Writing /\ ProfileFinal
  BY DEF IInv
<1>pc. /\ pc \in [Threads -> {"idle", "cpu", "load", "store", "run", "joined", "write", "end"}]
       /\ Main \in Threads /\ written \in -1..Size
       /\ profile \in [Cells -> Nat]
  BY TeamAssumption DEF IInv, TypeOK
\* A thread that takes a step finds the profile not begun.
<1>s. \A t \in Threads : pc[t] \notin {"idle", "write", "end"} => written < 0
  BY <1>i, <1>pc, SizeNat DEF Sequential, Writing
<1>1. ASSUME NEW t \in Threads, GetCoreNum(t) PROVE Sequential' /\ Writing' /\ ProfileFinal'
  BY <1>i, <1>pc, <1>1, SizeNat DEF GetCoreNum, Sequential, Writing, ProfileFinal
<1>2. ASSUME NEW t \in Threads, LoadCounter(t) PROVE Sequential' /\ Writing' /\ ProfileFinal'
  BY <1>i, <1>pc, <1>2, SizeNat DEF LoadCounter, Sequential, Writing, ProfileFinal
<1>3. ASSUME NEW t \in Threads, StoreCounter(t) PROVE Sequential' /\ Writing' /\ ProfileFinal'
  <2>1. written < 0
    BY <1>s, <1>3 DEF StoreCounter
  <2>2. ProfileFinal'
    BY <1>3, <1>pc, <2>1, SizeNat DEF StoreCounter, ProfileFinal, Cells
  <2> QED
    BY <1>i, <1>pc, <1>3, <2>2, SizeNat DEF StoreCounter, Sequential, Writing
<1>4. ASSUME NEW t \in Threads, NextBlock(t) PROVE Sequential' /\ Writing' /\ ProfileFinal'
  BY <1>i, <1>pc, <1>4, SizeNat DEF NextBlock, Sequential, Writing, ProfileFinal
<1>5. ASSUME NEW t \in Threads, LeaveRegion(t) PROVE Sequential' /\ Writing' /\ ProfileFinal'
  BY <1>i, <1>pc, <1>5, SizeNat DEF LeaveRegion, Sequential, Writing, ProfileFinal
<1>6. ASSUME Fork PROVE Sequential' /\ Writing' /\ ProfileFinal'
  BY <1>i, <1>pc, <1>6, SizeNat DEF Fork, Sequential, Writing, ProfileFinal
<1>7. ASSUME Join PROVE Sequential' /\ Writing' /\ ProfileFinal'
  BY <1>i, <1>pc, <1>7, SizeNat DEF Join, Sequential, Writing, ProfileFinal
<1>8. ASSUME OpenProfile PROVE Sequential' /\ Writing' /\ ProfileFinal'
  BY <1>i, <1>pc, <1>8, SizeNat DEF OpenProfile, Sequential, Writing, ProfileFinal, Cells
<1>9. ASSUME WriteProfile PROVE Sequential' /\ Writing' /\ ProfileFinal'
  <2>1. Sequential' /\ Writing'
    BY <1>i, <1>pc, <1>9, SizeNat DEF WriteProfile, Sequential, Writing
  <2>2. ASSUME NEW n \in Cells, n < written' PROVE profile'[n] = BBCounters'[n]
    BY <1>i, <1>pc, <1>9, <2>2, SizeNat DEF WriteProfile, ProfileFinal, Cells
  <2> QED
    BY <2>1, <2>2 DEF ProfileFinal, Cells, Size
<1>10. ASSUME UNCHANGED vars PROVE Sequential' /\ Writing' /\ ProfileFinal'
  BY <1>i, <1>10 DEF vars, thread, Sequential, Writing, ProfileFinal
<1> QED
  BY <1>1, <1>2, <1>3, <1>4, <1>5, <1>6, <1>7, <1>8, <1>9, <1>10 DEF Next, Step

\* The inductive invariant
THEOREM Invariant == Spec => []IInv
<1>1. Init => IInv
  BY InitIInv
<1>2. IInv /\ [Next]_vars => IInv'
  BY NextTypeOK, NextCounts, NextProfile DEF IInv
<1> QED
  BY <1>1, <1>2, PTL DEF Spec

\* TypeOK, for every team and machine: a thread that counts has a core number and a site, and
\* every counter is a number.
THEOREM TypeCorrect == Spec => []TypeOK
<1>1. IInv => TypeOK
  BY DEF IInv
<1> QED
  BY <1>1, Invariant, PTL

\* Lost updates only lose: IncrementCounterInBlock's unprotected load and
\* store never make a counter exceed the executions of its site.
THEOREM Undercounting == Spec => []NeverOvercounts
<1>1. IInv => NeverOvercounts
  BY DEF IInv
<1> QED
  BY <1>1, Invariant, PTL

\* The counters of a core whose number only one thread got are exact.
THEOREM RowsAreExact == Spec => []RowsExact
<1>1. IInv => RowsExact
  BY DEF IInv
<1> QED
  BY <1>1, Invariant, PTL

\* No thread counts behind the back of WriteOpenMPProfile.
THEOREM ProfileIsFinal == Spec => []ProfileFinal
<1>1. IInv => ProfileFinal
  BY DEF IInv
<1> QED
  BY <1>1, Invariant, PTL

-----------------------------------------------------------------------------
(* The times of inst-timing                                                *)

\* An element is before another or behind it.
LEMMA BeforeIs ==
    ASSUME NEW n \in Nat, NEW s \in [1..n -> Nat], NEW k \in 1..n, NEW m \in 1..n
    PROVE  m \in Before(s, k) <=> s[m] > s[k] \/ (s[m] = s[k] /\ m < k)
  <1>1. s[k] \in Nat /\ s[m] \in Nat
    OBVIOUS
  <1> QED
    BY <1>1 DEF Before, int_less

\* As many are before an element as its place says.
LEMMA Places ==
    ASSUME NEW n \in Nat, NEW s \in [1..n -> Nat]
    PROVE  /\ \A k \in 1..n : IsFiniteSet(Before(s, k)) /\ Cardinality(Before(s, k)) \in 0..(n - 1)
           /\ \A b \in 0..(n - 1) : \E k \in 1..n : Cardinality(Before(s, k)) = b
  <1>1. IsFiniteSet(1..n) /\ Cardinality(1..n) = n
    BY FS_Interval
  <1>2. ASSUME NEW k \in 1..n
        PROVE  Before(s, k) \subseteq 1..n /\ k \notin Before(s, k)
    <2>1. Before(s, k) \subseteq 1..n
      BY DEF Before
    <2>2. s[k] \in Nat
      OBVIOUS
    <2> QED
      BY <2>1, <2>2, BeforeIs
  <1>3. ASSUME NEW k \in 1..n
        PROVE  IsFiniteSet(Before(s, k)) /\ Cardinality(Before(s, k)) \in 0..(n - 1)
    <2>1. IsFiniteSet((1..n) \ {k}) /\ Cardinality((1..n) \ {k}) = n - 1
      BY <1>1, FS_RemoveElement
    <2>2. Before(s, k) \subseteq (1..n) \ {k}
      BY <1>2
    <2>3. IsFiniteSet(Before(s, k)) /\ Cardinality(Before(s, k)) <= n - 1
      BY <2>1, <2>2, FS_Subset
    <2> QED
      BY <2>3, FS_CardinalityType
  <1>4. ASSUME NEW k \in 1..n, NEW m \in 1..n, m \in Before(s, k)
        PROVE  Cardinality(Before(s, m)) < Cardinality(Before(s, k))
    <2>1. Before(s, m) \cup {m} \subseteq Before(s, k)
      <3> SUFFICES ASSUME NEW j \in Before(s, m) PROVE j \in Before(s, k)
        BY <1>4
      <3>1. j \in 1..n /\ s[j] \in Nat /\ s[m] \in Nat /\ s[k] \in Nat
        BY <1>2
      <3> QED
        BY <1>4, <3>1, BeforeIs, SMTT(20)
    <2>2. IsFiniteSet(Before(s, m)) /\ m \notin Before(s, m)
      BY <1>2, <1>3
    <2>3. Cardinality(Before(s, m) \cup {m}) = Cardinality(Before(s, m)) + 1
      BY <2>2, FS_AddElement
    <2>4. Cardinality(Before(s, m) \cup {m}) <= Cardinality(Before(s, k))
      BY <1>3, <2>1, FS_Subset
    <2> QED
      BY <1>3, <2>3, <2>4
  <1> DEFINE rank == [k \in 1..n |-> Cardinality(Before(s, k)) + 1]
  <1>5. rank \in Injection(1..n, 1..n)
    <2>1. rank \in [1..n -> 1..n]
      BY <1>3
    <2>2. ASSUME NEW k \in 1..n, NEW m \in 1..n, k # m PROVE rank[k] # rank[m]
      <3>1. k \in Before(s, m) \/ m \in Before(s, k)
        <4>1. s[k] \in Nat /\ s[m] \in Nat
          OBVIOUS
        <4> QED
          BY <2>2, <4>1, BeforeIs
      <3>2. Cardinality(Before(s, k)) # Cardinality(Before(s, m))
        <4>1. Cardinality(Before(s, k)) \in Nat /\ Cardinality(Before(s, m)) \in Nat
          BY <1>3
        <4> QED
          BY <1>4, <3>1, <4>1
      <3>3. Cardinality(Before(s, k)) \in Nat /\ Cardinality(Before(s, m)) \in Nat
        BY <1>3
      <3> QED
        BY <3>2, <3>3
    <2> QED
      BY <2>1, <2>2 DEF Injection, IsInjective
  <1>6. rank \in Surjection(1..n, 1..n)
    BY <1>1, <1>5, FS_Injection
  <1>7. ASSUME NEW b \in 0..(n - 1) PROVE \E k \in 1..n : Cardinality(Before(s, k)) = b
    <2>1. b + 1 \in 1..n
      OBVIOUS
    <2>2. PICK k \in 1..n : rank[k] = b + 1
      BY <1>6, <2>1 DEF Surjection
    <2>3. Cardinality(Before(s, k)) + 1 = b + 1 /\ Cardinality(Before(s, k)) \in Nat
      BY <1>3, <2>2
    <2> QED
      BY <2>3
  <1> QED
    BY <1>3, <1>7

\* qsort keeps the elements, and puts behind b of them one that at most b
\* exceed.
LEMMA SortedAt ==
    ASSUME NEW n \in Nat, NEW s \in [1..n -> Nat], NEW b \in 0..(n - 1)
    PROVE  /\ Sorted(s) \in [1..n -> Nat]
           /\ \E k \in 1..n : Sorted(s)[b + 1] = s[k] /\ Cardinality(Before(s, k)) = b
  <1> DEFINE Place(m) == CHOOSE k \in DOMAIN s : Cardinality(Before(s, k)) = m - 1
  <1>1. Sorted(s) = [m \in 1..n |-> s[Place(m)]]
    BY DEF Sorted
  <1>2. ASSUME NEW m \in 1..n PROVE Place(m) \in 1..n /\ Cardinality(Before(s, Place(m))) = m - 1
    <2>1. m - 1 \in 0..(n - 1)
      OBVIOUS
    <2>2. \E k \in DOMAIN s : Cardinality(Before(s, k)) = m - 1
      BY <2>1, Places
    <2> QED
      BY <2>2
  <1> HIDE DEF Place
  <1>3. b + 1 \in 1..n /\ (b + 1) - 1 = b
    OBVIOUS
  <1> QED
    BY <1>1, <1>2, <1>3

\* A difference of two numbers below Wrap, computed with Wrap as the modulus.
LEMMA Less ==
    ASSUME NEW W \in Nat \ {0}, NEW d \in 0..(W - 1), NEW e \in 0..(W - 1)
    PROVE  (d - e) % W = IF d < e THEN d - e + W ELSE d - e
  <1>1. CASE d >= e
    BY <1>1, Z3
  <1>2. CASE d < e
    BY <1>2, Z3
  <1> QED
    BY <1>1, <1>2

\* The numbers that wrapped are greater than the others, and both keep the order.
LEMMA KeepOrder ==
    ASSUME NEW W \in Nat \ {0}, NEW e \in 0..(W - 1), NEW c \in 0..(W - 1), NEW d \in 0..(W - 1),
           NEW u, u = IF c < e THEN c - e + W ELSE c - e,
           NEW v, v = IF d < e THEN d - e + W ELSE d - e
    PROVE  /\ d < e /\ u >= v => c < e
           /\ d >= e /\ (c < e \/ c > d) => u > v
           /\ d >= e /\ c < d /\ ~ (c < e) => u < v
  OBVIOUS

\* Of n numbers in a set those of a part of it.
LEMMA PartOf ==
    ASSUME NEW n \in Nat, NEW A \in SUBSET (1..n), NEW B \in SUBSET (1..n)
    PROVE  /\ Cardinality(A) \in Nat /\ Cardinality(B) \in Nat
           /\ A \subseteq B => Cardinality(A) <= Cardinality(B)
           /\ A \cap B = {} => Cardinality(A) + Cardinality(B) <= n
           /\ A # {} => Cardinality(A) > 0
  <1>1. IsFiniteSet(1..n) /\ Cardinality(1..n) = n
    BY FS_Interval
  <1>2. IsFiniteSet(A) /\ IsFiniteSet(B)
    BY <1>1, FS_Subset
  <1>3. Cardinality(A) \in Nat /\ Cardinality(B) \in Nat
    BY <1>2, FS_CardinalityType
  <1>4. A \subseteq B => Cardinality(A) <= Cardinality(B)
    BY <1>2, FS_Subset
  <1>5. ASSUME A \cap B = {} PROVE Cardinality(A) + Cardinality(B) <= n
    <2>1. Cardinality(A \cup B) = Cardinality(A) + Cardinality(B) - Cardinality(A \cap B)
      BY <1>2, FS_Union
    <2>2. Cardinality(A \cap B) = 0
      BY <1>5, FS_EmptySet
    <2>3. Cardinality(A \cup B) <= n
      BY <1>1, FS_Subset
    <2> QED
      BY <1>3, <2>1, <2>2, <2>3
  <1>6. A # {} => Cardinality(A) > 0
    BY <1>2, <1>3, FS_EmptySet
  <1> QED
    BY <1>3, <1>4, <1>5, <1>6

\* v is what the quartile of the durations q, less e, should be: of those that are
\* too short and those above it there are at most b, of those below it less than
\* n - b.
PassesIn(q, S) == Cardinality({m \in DOMAIN q : q[m] \in S})
TooShort(e)    == {d \in Durations : d < e}
OwnOf(q, e, b, n, v) ==
    PassesIn(q, TooShort(e)) <= b =>
        \E d \in Durations \ TooShort(e) :
            /\ PassesIn(q, {d}) > 0 /\ v = d - e
            /\ PassesIn(q, TooShort(e) \cup {f \in Durations : f > d}) <= b
            /\ PassesIn(q, {f \in Durations \ TooShort(e) : f < d}) < n - b

\* What lies behind the b greatest of n differences, when at most b of them are
\* of a duration that is too short.
LEMMA Quartile ==
    ASSUME NEW n \in Nat, NEW q \in [1..n -> Durations], NEW e \in 0..(Wrap - 1), NEW s \in [1..n -> Nat],
           \A k \in 1..n : s[k] = (q[k] - e) % Wrap,
           NEW b \in 0..(n - 1)
    PROVE  OwnOf(q, e, b, n, Sorted(s)[b + 1])
  <1> DEFINE At(S)     == {m \in 1..n : q[m] \in S}
             short     == {d \in Durations : d < e}
  <1> SUFFICES ASSUME Cardinality(At(short)) <= b
               PROVE  \E d \in Durations \ short :
                       /\ Cardinality(At({d})) > 0 /\ Sorted(s)[b + 1] = d - e
                       /\ Cardinality(At(short \cup {f \in Durations : f > d})) <= b
                       /\ Cardinality(At({f \in Durations \ short : f < d})) < n - b
    BY DEF OwnOf, PassesIn, TooShort
  <1>1. PICK k \in 1..n : Sorted(s)[b + 1] = s[k] /\ Cardinality(Before(s, k)) = b
    BY SortedAt
  <1>2. Wrap \in Nat \ {0} /\ e \in Nat /\ Durations \subseteq 0..(Wrap - 1)
    BY NumbersAssumption
  <1>3. ASSUME NEW m \in 1..n
        PROVE  /\ q[m] \in Durations /\ q[m] \in 0..(Wrap - 1) /\ s[m] \in Nat
               /\ s[m] = IF q[m] < e THEN q[m] - e + Wrap ELSE q[m] - e
    <2>1. q[m] \in Durations /\ q[m] \in 0..(Wrap - 1)
      BY <1>2
    <2>2. s[m] = (q[m] - e) % Wrap
      OBVIOUS
    <2> QED
      BY <1>2, <2>1, <2>2, Less
  <1>4. ASSUME NEW m \in 1..n
        PROVE  m \in Before(s, k) <=> s[m] > s[k] \/ (s[m] = s[k] /\ m < k)
    BY BeforeIs
  <1>5. k \notin Before(s, k) /\ Before(s, k) \in SUBSET (1..n)
    <2>1. Before(s, k) \subseteq 1..n
      BY DEF Before
    <2> QED
      BY <1>3, <1>4, <2>1
  <1>6. Cardinality(Before(s, k) \cup {k}) = b + 1
    <2>1. IsFiniteSet(Before(s, k))
      BY Places
    <2> QED
      BY <1>1, <1>5, <2>1, FS_AddElement
  <1>7a. ASSUME NEW m \in 1..n
         PROVE  /\ q[k] < e /\ s[m] >= s[k] => q[m] < e
                /\ q[k] >= e /\ (q[m] < e \/ q[m] > q[k]) => s[m] > s[k]
                /\ q[k] >= e /\ q[m] < q[k] /\ ~ (q[m] < e) => s[m] < s[k]
    BY <1>2, <1>3, KeepOrder
  <1>7. q[k] >= e
    <2> SUFFICES ASSUME q[k] < e PROVE FALSE
      BY <1>2, <1>3
    <2>1. ASSUME NEW m \in Before(s, k) PROVE m \in At(short)
      <3>1. m \in 1..n /\ s[m] >= s[k]
        BY <1>3, <1>4, <1>5
      <3>2. q[m] < e
        BY <1>2, <3>1, <1>7a
      <3> QED
        BY <1>3, <3>1, <3>2
    <2>2. k \in At(short)
      BY <1>3
    <2>3. Before(s, k) \cup {k} \subseteq At(short) /\ At(short) \in SUBSET (1..n)
      BY <2>1, <2>2
    <2>4. b + 1 <= Cardinality(At(short)) /\ Cardinality(At(short)) \in Nat
      BY <1>5, <1>6, <2>3, PartOf
    <2> QED
      BY <2>4
  <1> DEFINE d     == q[k]
             worse == At(short \cup {f \in Durations : f > d})
             quick == At({f \in Durations \ short : f < d})
  <1>8. d \in Durations \ short /\ s[k] = d - e
    BY <1>2, <1>3, <1>7
  <1>9. Cardinality(At({d})) > 0
    <2>1. k \in At({d}) /\ At({d}) \in SUBSET (1..n)
      OBVIOUS
    <2> QED
      BY <2>1, PartOf
  <1>10. Cardinality(worse) <= b
    <2>1. ASSUME NEW m \in worse PROVE m \in Before(s, k)
      <3>1. m \in 1..n /\ (q[m] < e \/ q[m] > d)
        OBVIOUS
      <3>2. s[m] > s[k]
        BY <1>2, <1>7, <1>7a, <3>1
      <3> QED
        BY <1>4, <3>1, <3>2
    <2>2. worse \subseteq Before(s, k) /\ worse \in SUBSET (1..n)
      BY <2>1
    <2>3. Cardinality(worse) <= Cardinality(Before(s, k))
      BY <1>5, <2>2, PartOf
    <2> QED
      BY <1>1, <2>3
  <1>11. Cardinality(quick) < n - b
    <2>1. ASSUME NEW m \in quick PROVE m \notin Before(s, k) \cup {k}
      <3>1. m \in 1..n /\ q[m] < d /\ ~ (q[m] < e)
        OBVIOUS
      <3>2. s[m] < s[k]
        BY <1>2, <1>7, <1>7a, <3>1
      <3>3. m # k
        BY <1>3, <3>1
      <3>4. s[m] \in Nat /\ s[k] \in Nat
        BY <1>3, <3>1
      <3>5. m \notin Before(s, k)
        BY <1>4, <3>1, <3>2, <3>4
      <3> QED
        BY <3>3, <3>5
    <2>2. quick \cap (Before(s, k) \cup {k}) = {} /\ quick \in SUBSET (1..n)
          /\ Before(s, k) \cup {k} \in SUBSET (1..n)
      BY <1>5, <2>1
    <2>3. Cardinality(quick) + Cardinality(Before(s, k) \cup {k}) <= n /\ Cardinality(quick) \in Nat
      BY <2>2, PartOf
    <2> QED
      BY <1>6, <2>3
  <1> QED
    BY <1>1, <1>8, <1>9, <1>10, <1>11

-----------------------------------------------------------------------------
\* The first loop fills sum, the others write over the front of it; what the
\* running loop has written are the durations of its passes, less the error.
Diff(d, e) == (d - e) % Wrap

SumHolds ==
    /\ sum \in Seq(Nat) /\ Len(sum) = IF loop = 1 THEN i ELSE REPNUM
    /\ i > 0 => /\ took \in Seq(Durations) /\ Len(took) = i
                /\ \A n \in 1..i : n \in DOMAIN sum /\ sum[n] = Diff(took[n], t_err)

TimingInv ==
    /\ source \in Sources
    /\ loop \in Nat \ {0} /\ i \in Nat /\ t_err \in 0..(Wrap - 1)
    /\ stage \in {"no", "setup"} => loop = 1 /\ i = 0
    /\ SumHolds
    /\ QuartileOwn

\* No loop goes over the end of sum, and the first fills it.
LEMMA RepFits == ASSUME NEW src \in Sources, NEW l \in DOMAIN src
                 PROVE  src[l].rep \in 0..REPNUM /\ (l = 1 => src[l].rep = REPNUM)
  <1>1. src # <<>>
    OBVIOUS
  <1> QED
    BY <1>1, SumFits

\* Measure's changes of sum and of took.
Put(a, k, x)     == IF k < Len(a) THEN [a EXCEPT ![k + 1] = x] ELSE Append(a, x)
AddPass(q, k, d) == Append(IF k = 0 THEN <<>> ELSE q, d)

\* One more element.
LEMMA Appends == ASSUME NEW S, NEW p \in Seq(S), NEW d \in S
                 PROVE  /\ Append(p, d) \in Seq(S) /\ Len(Append(p, d)) = Len(p) + 1
                        /\ Append(p, d)[Len(p) + 1] = d /\ \A n \in 1..Len(p) : Append(p, d)[n] = p[n]
  OBVIOUS

\* One element is written, those before it stay.
LEMMA PutHolds ==
    ASSUME NEW k \in Nat, NEW a \in Seq(Nat), k <= Len(a), NEW x \in Nat
    PROVE  /\ Put(a, k, x) \in Seq(Nat) /\ Len(Put(a, k, x)) = IF k < Len(a) THEN Len(a) ELSE k + 1
           /\ Put(a, k, x)[k + 1] = x /\ \A n \in 1..k : Put(a, k, x)[n] = a[n]
  <1>1. CASE k < Len(a)
    BY <1>1 DEF Put
  <1>2. CASE ~ (k < Len(a))
    <2>1. k = Len(a)
      BY <1>2
    <2> QED
      BY <2>1, Appends DEF Put
  <1> QED
    BY <1>1, <1>2

\* The durations of a loop begin anew with its first pass.
LEMMA PassAdds ==
    ASSUME NEW k \in Nat, NEW q, k > 0 => q \in Seq(Durations) /\ Len(q) = k, NEW d \in Durations
    PROVE  /\ AddPass(q, k, d) \in Seq(Durations) /\ Len(AddPass(q, k, d)) = k + 1
           /\ AddPass(q, k, d)[k + 1] = d /\ \A n \in 1..k : AddPass(q, k, d)[n] = q[n]
  <1>1. CASE k = 0
    <2>1. <<>> \in Seq(Durations) /\ Len(<<>>) = 0
      OBVIOUS
    <2> QED
      BY <1>1, <2>1, Appends DEF AddPass
  <1>2. CASE k > 0
    BY <1>2, Appends DEF AddPass
  <1> QED
    BY <1>1, <1>2

\* So what was written is what the passes took, less the error.
LEMMA PassHolds ==
    ASSUME NEW k \in Nat, NEW a \in Seq(Nat), k <= Len(a),
           NEW q, k > 0 => q \in Seq(Durations) /\ Len(q) = k,
           NEW e \in Int, \A n \in 1..k : a[n] = Diff(q[n], e),
           NEW d \in Durations
    PROVE  LET b == Put(a, k, Diff(d, e))
               r == AddPass(q, k, d)
           IN  /\ b \in Seq(Nat) /\ Len(b) = IF k < Len(a) THEN Len(a) ELSE k + 1
               /\ r \in Seq(Durations) /\ Len(r) = k + 1
               /\ \A n \in 1..(k + 1) : n \in DOMAIN b /\ b[n] = Diff(r[n], e)
  <1> DEFINE x == Diff(d, e)
             b == Put(a, k, x)
             r == AddPass(q, k, d)
  <1>1. d \in Int /\ Wrap \in Nat \ {0}
    BY NumbersAssumption
  <1>2. x \in Nat
    BY <1>1 DEF Diff
  <1> HIDE DEF x
  <1>3. /\ b \in Seq(Nat) /\ Len(b) = IF k < Len(a) THEN Len(a) ELSE k + 1
        /\ b[k + 1] = x /\ \A n \in 1..k : b[n] = a[n]
    BY <1>2, PutHolds
  <1>4. r \in Seq(Durations) /\ Len(r) = k + 1 /\ r[k + 1] = d /\ \A n \in 1..k : r[n] = q[n]
    BY PassAdds, ZenonT(40)
  <1> HIDE DEF b, r
  <1>5. b[k + 1] = Diff(r[k + 1], e)
    BY <1>3, <1>4 DEF x
  <1>6. ASSUME NEW n \in 1..(k + 1) PROVE n \in DOMAIN b /\ b[n] = Diff(r[n], e)
    <2>1. n \in DOMAIN b
      BY <1>3
    <2>2. CASE n \in 1..k
      BY <1>3, <1>4, <2>1, <2>2
    <2>3. CASE n = k + 1
      BY <1>5, <2>1, <2>3
    <2> QED
      BY <2>2, <2>3
  <1> QED
    BY <1>3, <1>4, <1>6 DEF b, r, x

\* Nothing has run.
LEMMA TimingStarts == TimingInit => TimingInv
  <1> SUFFICES ASSUME TimingInit PROVE TimingInv
    OBVIOUS
  <1>1. source \in Sources /\ stage = "no" /\ loop = 1 /\ i = 0 /\ sum = <<>> /\ t_err = 0
    BY DEF TimingInit, PassInit
  <1>2. 0 \in 0..(Wrap - 1)
    BY NumbersAssumption
  <1>3. SumHolds
    BY <1>1 DEF SumHolds
  <1>4. QuartileOwn
    BY <1>1 DEF QuartileOwn
  <1> QED
    BY <1>1, <1>2, <1>3, <1>4 DEF TimingInv

\* The loop that ends sorts sum; the quartile is then as it should be.
LEMMA ReportOwn == ASSUME TimingInv, Report PROVE QuartileOwn'
  <1>1. /\ loop \in DOMAIN source /\ i = source[loop].rep /\ source \in Sources /\ source' = source
        /\ sum' = Sorted(sum) /\ median' = sum'[(REPNUM \div 4) * 3 + 1]
        /\ loop' = loop + 1 /\ i' = 0 /\ t_err' = t_err /\ took' = took
        /\ loop \in Nat /\ t_err \in 0..(Wrap - 1) /\ SumHolds
    BY DEF Report, InLoop, passVars, TimingInv
  <1>2. loop' - 1 = loop /\ source'[loop' - 1] = source[loop]
    BY <1>1
  <1>3. CASE source[loop].rep # REPNUM
    BY <1>2, <1>3 DEF QuartileOwn
  <1>4. CASE source[loop].rep = REPNUM
    <2>1. REPNUM \in Nat \ {0} /\ i = REPNUM
      BY <1>1, <1>4, NumbersAssumption
    <2>2. /\ took \in [1..REPNUM -> Durations] /\ sum \in [1..REPNUM -> Nat]
          /\ \A n \in 1..REPNUM : sum[n] = (took[n] - t_err) % Wrap
      BY <1>1, <2>1 DEF SumHolds, Diff
    <2> DEFINE b == (REPNUM \div 4) * 3
    <2>3. b \in 0..(REPNUM - 1)
      BY <2>1
    <2> HIDE DEF b
    <2>4. median' = Sorted(sum)[b + 1]
      BY <1>1 DEF b
    <2>5. OwnOf(took, t_err, b, REPNUM, median')
      BY <1>1, <2>1, <2>2, <2>3, <2>4, Quartile
    <2> QED
      BY <1>1, <2>5 DEF QuartileOwn, OwnOf, PassesIn, TooShort, b
  <1> QED
    BY <1>3, <1>4

\* Every step keeps the invariant; QuartileOwn is disturbed by Report alone.
LEMMA TimingStep == TimingInv /\ [TimingNext]_<<passVars, runVars>> => TimingInv'
  <1> SUFFICES ASSUME TimingInv, [TimingNext]_<<passVars, runVars>> PROVE TimingInv'
    OBVIOUS
  <1> USE DEF passVars
  <1>1. ASSUME source' = source, UNCHANGED runVars PROVE TimingInv'
    BY <1>1 DEF TimingInv, SumHolds, QuartileOwn, runVars
  <1>2. CASE Rewrite
    <2>1. source' = source /\ UNCHANGED runVars
      BY <1>2 DEF Rewrite, PassNext, Expand, UnknownTemplate, EndPass
    <2> QED
      BY <1>1, <2>1
  <1>3. ASSUME source' = source, UNCHANGED <<loop, i, sum, took, median>>,
               t_err' \in 0..(Wrap - 1), t_err' = t_err \/ (loop = 1 /\ i = 0),
               stage' \in {"no", "setup"} => loop = 1 /\ i = 0
        PROVE  TimingInv'
    <2>1. SumHolds'
      BY <1>3 DEF TimingInv, SumHolds
    <2>2. QuartileOwn'
      <3>1. CASE t_err' = t_err
        BY <1>3, <3>1 DEF TimingInv, QuartileOwn
      <3>2. CASE loop = 1
        BY <1>3, <3>2 DEF QuartileOwn
      <3> QED
        BY <1>3, <3>1, <3>2
    <2> QED
      BY <1>3, <2>1, <2>2 DEF TimingInv
  <1>4. CASE Start
    <2>1. source' = source /\ UNCHANGED <<loop, i, sum, t_err, took, median>> /\ stage = "no"
      BY <1>4 DEF Start
    <2> QED
      BY <1>3, <2>1 DEF TimingInv
  <1>5. CASE Setup
    <2>1. source' = source /\ UNCHANGED <<loop, i, sum, took, median>> /\ stage = "setup" /\ t_err' \in Errors
      BY <1>5 DEF Setup
    <2>2. t_err' \in 0..(Wrap - 1) /\ loop = 1 /\ i = 0
      BY <2>1, NumbersAssumption DEF TimingInv
    <2> QED
      BY <1>3, <2>1, <2>2
  <1>6. CASE Measure
    <2>1. /\ stage = "measure" /\ loop \in DOMAIN source /\ i < source[loop].rep /\ i' = i + 1
          /\ source' = source /\ UNCHANGED <<stage, loop, t_err, median>>
      BY <1>6 DEF Measure, InLoop
    <2>2. PICK d \in Durations : sum' = Put(sum, i, Diff(d, t_err)) /\ took' = AddPass(took, i, d)
      BY <1>6 DEF Measure, Put, AddPass, Diff
    <2>3. /\ source \in Sources /\ loop \in Nat \ {0} /\ i \in Nat /\ t_err \in 0..(Wrap - 1)
          /\ sum \in Seq(Nat) /\ Len(sum) = IF loop = 1 THEN i ELSE REPNUM
          /\ i > 0 => took \in Seq(Durations) /\ Len(took) = i
          /\ \A n \in 1..i : sum[n] = Diff(took[n], t_err)
      BY DEF TimingInv, SumHolds
    <2>4. source[loop].rep \in 0..REPNUM /\ REPNUM \in Nat
      BY <2>1, <2>3, RepFits, NumbersAssumption
    <2>5. t_err \in Int /\ i <= Len(sum) /\ (IF loop = 1 THEN i = Len(sum) ELSE i < Len(sum))
      BY <2>1, <2>3, <2>4, NumbersAssumption
    <2>6. /\ sum' \in Seq(Nat) /\ Len(sum') = IF i < Len(sum) THEN Len(sum) ELSE i + 1
          /\ took' \in Seq(Durations) /\ Len(took') = i + 1
          /\ \A n \in 1..(i + 1) : n \in DOMAIN sum' /\ sum'[n] = Diff(took'[n], t_err)
      <3>1. i \in Nat /\ sum \in Seq(Nat) /\ i <= Len(sum) /\ t_err \in Int
        BY <2>3, <2>5
      <3>2. i > 0 => took \in Seq(Durations) /\ Len(took) = i
        BY <2>3
      <3>3. \A n \in 1..i : sum[n] = Diff(took[n], t_err)
        BY <2>3
      <3> DEFINE b == Put(sum, i, Diff(d, t_err))
                 r == AddPass(took, i, d)
      <3>4. /\ b \in Seq(Nat) /\ Len(b) = IF i < Len(sum) THEN Len(sum) ELSE i + 1
            /\ r \in Seq(Durations) /\ Len(r) = i + 1
            /\ \A n \in 1..(i + 1) : n \in DOMAIN b /\ b[n] = Diff(r[n], t_err)
        BY <3>1, <3>2, <3>3, PassHolds, ZenonT(40)
      <3>5. sum' = b /\ took' = r
        BY <2>2
      <3> HIDE DEF b, r
      <3> QED
        BY <3>4, <3>5
    <2>7. SumHolds'
      <3>1. Len(sum') = IF loop' = 1 THEN i' ELSE REPNUM
        <4>1. CASE loop = 1
          BY <2>1, <2>5, <2>6, <4>1
        <4>2. CASE loop # 1
          BY <2>1, <2>3, <2>5, <2>6, <4>2
        <4> QED
          BY <4>1, <4>2
      <3> QED
        BY <2>1, <2>6, <3>1 DEF SumHolds
    <2>8. QuartileOwn'
      BY <2>1, <2>3 DEF QuartileOwn
    <2> QED
      BY <2>1, <2>3, <2>7, <2>8 DEF TimingInv
  <1>7. CASE Report
    <2>1. /\ stage = "measure" /\ loop \in DOMAIN source /\ i = source[loop].rep
          /\ sum' = Sorted(sum) /\ loop' = loop + 1 /\ i' = 0
          /\ source' = source /\ UNCHANGED <<stage, t_err>>
      BY <1>7 DEF Report, InLoop
    <2>2. /\ source \in Sources /\ loop \in Nat \ {0} /\ i \in Nat /\ t_err \in 0..(Wrap - 1)
          /\ sum \in Seq(Nat) /\ Len(sum) = IF loop = 1 THEN i ELSE REPNUM
      BY DEF TimingInv, SumHolds
    <2>3. REPNUM \in Nat \ {0} /\ (loop = 1 => i = REPNUM)
      BY <2>1, <2>2, RepFits, NumbersAssumption
    <2>4. sum \in [1..REPNUM -> Nat]
      BY <2>2, <2>3
    <2>5. 0 \in 0..(REPNUM - 1)
      BY <2>3
    <2>6. sum' \in [1..REPNUM -> Nat]
      BY <2>1, <2>3, <2>4, <2>5, SortedAt
    <2>7. SumHolds'
      BY <2>1, <2>2, <2>3, <2>6 DEF SumHolds
    <2>8. QuartileOwn'
      BY <1>7, ReportOwn
    <2> QED
      BY <2>1, <2>2, <2>7, <2>8 DEF TimingInv
  <1>8. CASE Finish
    <2>1. source' = source /\ UNCHANGED <<loop, i, sum, t_err, took, median>> /\ stage' = "done"
      BY <1>8 DEF Finish
    <2> QED
      BY <1>3, <2>1 DEF TimingInv
  <1>9. CASE UNCHANGED <<passVars, runVars>>
    BY <1>1, <1>9
  <1> QED
    BY <1>2, <1>4, <1>5, <1>6, <1>7, <1>8, <1>9 DEF TimingNext

\* Whatever the loops, the durations and the error: the quartile that is
\* printed is one of the loop's own durations, and of the right rank.
THEOREM QuartileIsOwn == TimingSpec => []QuartileOwn
  <1>1. TimingInv => QuartileOwn
    BY DEF TimingInv
  <1> QED
    BY <1>1, TimingStarts, TimingStep, PTL DEF TimingSpec
=============================================================================
