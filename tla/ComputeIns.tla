----------------------------- MODULE ComputeIns -----------------------------
(***************************************************************************)
(* ComputeIns: predicts the time a program takes from its instructions,    *)
(* their times and the profile of an instrumented run.                     *)
(*                                                                         *)
(* A module is a record                                                    *)
(*   kind    sequence of its functions with a body: "outlined" (the name   *)
(*           starts with .omp_outlined), "writer" (it holds                *)
(*           WriteOpenMPProfile) or "plain"                                *)
(*   blocks  sequence in layout order of                                   *)
(*           [fn |-> function, code |-> sequence of instructions]          *)
(*   freq    the counters of the run, one row of places for each core      *)
(*   file    data.txt, written from freq, perhaps not to its end: whether  *)
(*           it can be opened, how many numbers it holds and whether white *)
(*           space follows the last                                        *)
(* An instruction is a record of its op and the function it calls, 0 if it *)
(* calls none; a call of a library function has as op the first of the ten *)
(* prefixes its name is compared with.  Times are natural numbers.         *)
(***************************************************************************)
EXTENDS Integers, Sequences, SequencesExt, FiniteSets, Sums

CONSTANTS Modules,
          Arithmetic,  \* the opcodes counted apart in their order, 12 in the code
          Maths,       \* the prefixes of library functions, 10 in the code
          Time,        \* time.txt: the time of an instruction of a kind
          Strays       \* what may be read behind the last entry of time_map

Kinds == [memory |-> <<"load", "store">>, arithmetic |-> Arithmetic, maths |-> Maths]
Ops   == UNION {Range(Kinds[t]) : t \in DOMAIN Kinds} \cup {"fork", "call", "icall", "other"}

Code(m, n)   == m.blocks[n].code
At(m, n, op) == {k \in DOMAIN Code(m, n) : Code(m, n)[k].op = op}
Outlined(m)  == {f \in DOMAIN m.kind : m.kind[f] = "outlined"}
Callees(m, f) == UNION {{Code(m, n)[k].callee : k \in At(m, n, "call")} :
                           n \in {b \in DOMAIN m.blocks : m.blocks[b].fn = f}}

\* The blocks the walks go through.  A place ends with a fork call or with its
\* block; q numbers the places of a block.
Walked(m)        == {n \in DOMAIN m.blocks : m.kind[m.blocks[n].fn] # "writer"}
ForksBefore(m, n, k) == Cardinality({j \in At(m, n, "fork") : j < k})
InPlace(m, n, q) == {k \in DOMAIN Code(m, n) : ForksBefore(m, n, k) = q - 1}
Places(m, n)     == IF n \in Walked(m) THEN Cardinality(At(m, n, "fork")) + 1 ELSE 0

\* How many places precede block n, and how many there are.
Before(m, n) == SumTo([b \in DOMAIN m.blocks |-> Places(m, b)], n - 1)
NumPlaces(m) == Before(m, Len(m.blocks) + 1)

\* In a table of rows of n places: where entry e is.
RowAt(e, n)   == ((e - 1) \div n) + 1
PlaceAt(e, n) == ((e - 1) % n) + 1

WellFormed(m) ==
    /\ m.kind \in Seq({"outlined", "writer", "plain"})
    /\ m.blocks \in Seq([fn : DOMAIN m.kind, code : Seq([op : Ops, callee : 0..Len(m.kind)])])
    /\ \A n \in DOMAIN m.blocks :
          /\ Code(m, n) # <<>> /\ Last(Code(m, n)).op = "other"
          /\ \A k \in At(m, n, "call") : Code(m, n)[k].callee # 0
          /\ \A b \in 1..n : m.blocks[b].fn <= m.blocks[n].fn
    /\ Walked(m) # {}
    /\ m.freq \in Seq(Nat) /\ Len(m.freq) % NumPlaces(m) = 0
    /\ m.file \in [open : BOOLEAN, numbers : 0..Len(m.freq), space : BOOLEAN]
    /\ m.file.numbers = Len(m.freq) => m.file.space

ASSUME KindsAssumption   == Arithmetic \in Seq(STRING) /\ Maths \in Seq(STRING)
ASSUME ModulesAssumption == \A m \in Modules : WellFormed(m)
ASSUME TimesAssumption   == Time \in [{"load", "store"} \cup Range(Arithmetic) -> Nat] /\ Strays \subseteq Nat

VARIABLES
    M,              \* the module and its run
    pc,             \* the method runOnModule is at, or how the pass ended
    counts,         \* vec, BinaryOPNum, mathInsNumInBB: place -> kind -> instructions
    BBNum,
    read, eof, num, \* the stream: numbers read, its end noticed, the number read last
    thread, BBFreq, \* the row being read, rows read
    order,          \* the outlined functions by their addresses
    blk,            \* the block a walk over the module is at
    isParaRegion,   \* place -> its parallel region, 0 if none
    stray,          \* what end()->second of time_map is
    entry, BBFlag, time_tmp, i, timeInf, \* getProTime: the loops over serial places
    parallel,       \* getProTime: region -> its time
    total           \* LoadAndStore, OPNum, mathInsTotal: instructions executed

input  == <<M, order, stray>>
stream == <<read, eof, num, thread, BBFreq>>
serial == <<entry, BBFlag, time_tmp, i, timeInf>>
vars == <<input, pc, counts, BBNum, stream, blk, isParaRegion, serial, parallel, total>>

Init ==
    /\ M \in Modules
    /\ order \in Bijection(1..Cardinality(Outlined(M)), Outlined(M))
    /\ stray \in Strays
    /\ pc = "getBBNum"
    /\ counts = [t \in DOMAIN Kinds |-> <<>>] /\ total = counts
    /\ BBNum = 0
    /\ read = 0 /\ eof = FALSE /\ num = 0 /\ thread = <<>> /\ BBFreq = <<>>
    /\ blk = 1 /\ isParaRegion = <<>>
    /\ entry = 1 /\ BBFlag = 1 /\ time_tmp = 0 /\ i = 1 /\ timeInf = <<>>
    /\ parallel = <<>>

-----------------------------------------------------------------------------
(* The walks over the module.                                              *)

\* A call through a pointer has no function to ask for its name.
CountPlaces ==
    /\ pc = "getBBNum" /\ blk \in DOMAIN M.blocks
    /\ IF blk \in Walked(M) /\ At(M, blk, "icall") # {}
       THEN pc' = "crashed" /\ UNCHANGED <<BBNum, blk>>
       ELSE BBNum' = BBNum + Places(M, blk) /\ blk' = blk + 1 /\ UNCHANGED pc
    /\ UNCHANGED <<input, counts, stream, isParaRegion, serial, parallel, total>>

\* The tables of instructions.
Filled == [getMathInsNumInBB |-> "maths", getInsKind |-> "memory", getBinaryOPNum |-> "arithmetic"]
Entries(t, n) ==
    [q \in 1..Places(M, n) |->
        [k \in DOMAIN Kinds[t] |-> Cardinality(At(M, n, Kinds[t][k]) \cap InPlace(M, n, q))]]

CountInstructions ==
    /\ pc \in DOMAIN Filled /\ blk \in DOMAIN M.blocks
    /\ counts' = [counts EXCEPT ![Filled[pc]] = @ \o Entries(Filled[pc], blk)]
    /\ blk' = blk + 1
    /\ UNCHANGED <<input, pc, BBNum, stream, isParaRegion, serial, parallel, total>>

EndWalk(method, next) ==
    /\ pc = method /\ blk \notin DOMAIN M.blocks
    /\ pc' = next /\ blk' = 1
    /\ UNCHANGED <<input, counts, BBNum, stream, isParaRegion, serial, parallel>>

GetBBNum          == EndWalk("getBBNum", "getMathInsNumInBB") /\ UNCHANGED total
GetMathInsNumInBB == EndWalk("getMathInsNumInBB", "getBBFrequency") /\ UNCHANGED total

\* The instructions executed, row by row.
Multiply(t) ==
    LET n == Len(counts[t])
    IN  total' = [total EXCEPT ![t] =
                     [e \in 1..(Len(BBFreq) * n) |->
                         [k \in DOMAIN Kinds[t] |->
                             counts[t][PlaceAt(e, n)][k] * BBFreq[RowAt(e, n)][PlaceAt(e, n)]]]]

\* getInsKind and printInformation
GetInsKind == EndWalk("getInsKind", "getBinaryOPNum") /\ Multiply("memory")

\* getBinaryOPNum and getBinaryOPNumAll
GetBinaryOPNum == EndWalk("getBinaryOPNum", "getMathInsNumTotal") /\ Multiply("arithmetic")

GetMathInsNumTotal ==
    /\ pc = "getMathInsNumTotal" /\ pc' = "memory"
    /\ Multiply("maths")
    /\ UNCHANGED <<input, counts, BBNum, stream, blk, isParaRegion, serial, parallel>>

-----------------------------------------------------------------------------
(* Reading the profile.                                                    *)

Push(n) ==
    IF Len(thread) < BBNum THEN thread' = Append(thread, n) /\ UNCHANGED BBFreq
    ELSE thread' = <<n>> /\ BBFreq' = Append(BBFreq, thread)

\* One pass of the loop.  The end of the file is noticed when a number ends at
\* it, or when the next is looked for; then num keeps its value.
ReadNumber ==
    /\ pc = "getBBFrequency" /\ M.file.open /\ ~eof
    /\ IF read = M.file.numbers
       THEN eof' = TRUE /\ UNCHANGED <<read, num>>
       ELSE /\ read' = read + 1 /\ num' = M.freq[read']
            /\ eof' = (read' = M.file.numbers /\ ~M.file.space)
    /\ Push(num')
    /\ UNCHANGED <<input, pc, counts, BBNum, blk, isParaRegion, serial, parallel, total>>

\* Of a file that cannot be opened the end is never reached.
ReadUnopened ==
    /\ pc = "getBBFrequency" /\ ~M.file.open
    /\ pc' = "exhausted"
    /\ UNCHANGED <<input, counts, BBNum, stream, blk, isParaRegion, serial, parallel, total>>

\* (a faulty variant: the row in hand is kept)
EndReadKeeps ==
    /\ pc = "getBBFrequency" /\ eof
    /\ pc' = "judgeIsParallel"
    /\ thread' = Front(thread) /\ BBFreq' = Append(BBFreq, thread')
    /\ UNCHANGED <<input, counts, BBNum, read, eof, num, blk, isParaRegion, serial, parallel, total>>

\* What was read last is removed, and the row in hand is pushed and removed.
EndRead ==
    /\ pc = "getBBFrequency" /\ eof
    /\ pc' = "judgeIsParallel"
    /\ thread' = Front(thread) /\ UNCHANGED BBFreq
    /\ UNCHANGED <<input, counts, BBNum, read, eof, num, blk, isParaRegion, serial, parallel, total>>

-----------------------------------------------------------------------------
(* The parallel regions.                                                   *)

\* parallelRegion: the outlined functions are numbered as they are laid out.
parallelRegion(f) == Cardinality({g \in Outlined(M) : g <= f})

\* isIteParallel: f is called, directly or not, by a.
Calls(m, a, f) ==
    \A S \in SUBSET DOMAIN m.kind :
        Callees(m, a) \subseteq S /\ (\A g \in S : Callees(m, g) \subseteq S) => f \in S

\* (a faulty variant: the loop goes on when it has found a region)
RegionOfLast(f) ==
    IF f \in Outlined(M) THEN parallelRegion(f)
    ELSE IF order = <<>> THEN -1
    ELSE IF Calls(M, Last(order), f) THEN parallelRegion(Last(order)) ELSE 0

\* isBBParallel: another function is in the region of the first outlined
\* function, in the order of a map of pointers, that calls it.
RegionOf(f) ==
    IF f \in Outlined(M) THEN parallelRegion(f)
    ELSE IF order = <<>> THEN -1
    ELSE LET callers == {n \in DOMAIN order : Calls(M, order[n], f)}
         IN  IF callers = {} THEN 0 ELSE parallelRegion(order[Min(callers)])

\* (a faulty variant: what precedes a fork call is no place)
JudgeBlockOnly ==
    /\ pc = "judgeIsParallel" /\ blk \in DOMAIN M.blocks
    /\ isParaRegion' = IF blk \in Walked(M) THEN Append(isParaRegion, RegionOf(M.blocks[blk].fn))
                                            ELSE isParaRegion
    /\ blk' = blk + 1
    /\ UNCHANGED <<input, pc, counts, BBNum, stream, serial, parallel, total>>

\* One block of judgeIsParallel's second loop.
JudgeBlock ==
    /\ pc = "judgeIsParallel" /\ blk \in DOMAIN M.blocks
    /\ isParaRegion' = isParaRegion \o
           [q \in 1..Places(M, blk) |-> IF q < Places(M, blk) THEN 0 ELSE RegionOf(M.blocks[blk].fn)]
    /\ blk' = blk + 1
    /\ UNCHANGED <<input, pc, counts, BBNum, stream, serial, parallel, total>>

EndJudge == EndWalk("judgeIsParallel", "getInsKind") /\ UNCHANGED total

-----------------------------------------------------------------------------
(* getProTime.                                                             *)

\* The time of the e-th entry of a table.  The times of library functions are
\* looked up in time_map, which does not hold them.
Cost(t, e) ==
    SumTo([k \in DOMAIN Kinds[t] |->
              total[t][e][k] * (IF t = "maths" THEN stray ELSE Time[Kinds[t][k]])], Len(Kinds[t]))

\* One pass of the loop over a table.  A row begins at an entry behind place
\* BBNum.
RowBegins == BBFlag > BBNum
Place     == IF RowBegins THEN 1 ELSE BBFlag
AddEntry(t) ==
    /\ pc = t /\ entry \in DOMAIN total[t]
    /\ time_tmp' = (IF RowBegins THEN 0 ELSE time_tmp)
                   + (IF isParaRegion[Place] = 0 THEN Cost(t, entry) ELSE 0)
    /\ BBFlag' = Place + 1 /\ entry' = entry + 1
    /\ UNCHANGED <<input, pc, counts, BBNum, stream, blk, isParaRegion, parallel, total>>

AddMemory ==
    /\ AddEntry("memory")
    /\ timeInf' = IF RowBegins THEN Append(timeInf, time_tmp) ELSE timeInf
    /\ UNCHANGED i

\* (a faulty variant: the time of the row that ends is not kept)
AddTimeForgets(t) ==
    /\ AddEntry(t)
    /\ i' = IF RowBegins THEN i + 1 ELSE i
    /\ UNCHANGED timeInf

AddTime(t) ==
    /\ AddEntry(t)
    /\ timeInf' = IF RowBegins THEN [timeInf EXCEPT ![i] = @ + time_tmp] ELSE timeInf
    /\ i' = IF RowBegins THEN i + 1 ELSE i

EndTable(t) ==
    /\ pc = t /\ entry \notin DOMAIN total[t]
    /\ entry' = 1 /\ BBFlag' = 1
    /\ UNCHANGED <<input, counts, BBNum, stream, blk, isParaRegion, parallel, total>>

\* (a faulty variant: the time of the last row is not kept)
EndMemoryForgets ==
    /\ EndTable("memory") /\ pc' = "arithmetic"
    /\ time_tmp' = 0 /\ i' = 1 /\ UNCHANGED timeInf

EndMemory ==
    /\ EndTable("memory") /\ pc' = "arithmetic"
    /\ timeInf' = Append(timeInf, time_tmp) /\ time_tmp' = 0 /\ i' = 1

\* The time of the last row goes on into the next loop, and into its first row.
EndArithmetic ==
    /\ EndTable("arithmetic") /\ pc' = "maths"
    /\ i' = 1 /\ UNCHANGED <<time_tmp, timeInf>>

EndMaths ==
    /\ EndTable("maths") /\ pc' = "parallel"
    /\ timeInf' = [timeInf EXCEPT ![i] = @ + time_tmp]
    /\ UNCHANGED <<time_tmp, i>>

\* The time row c spends in a region.  The times of library functions are
\* added to a sum that is not used any more.
RegionTime(r, c) ==
    SumTo([p \in DOMAIN isParaRegion |->
              IF isParaRegion[p] # r THEN 0
              ELSE LET e == p + (c - 1) * BBNum IN Cost("memory", e) + Cost("arithmetic", e)],
          Len(isParaRegion))

parallelSize == Max({0} \cup Range(isParaRegion))

\* One region takes as long as the slowest row; without rows there is none to
\* take.
AddRegion ==
    /\ pc = "parallel" /\ Len(parallel) < parallelSize
    /\ IF BBFreq = <<>> THEN pc' = "crashed" /\ UNCHANGED parallel
       ELSE /\ parallel' = Append(parallel, Max({RegionTime(Len(parallel) + 1, c) : c \in DOMAIN BBFreq}))
            /\ UNCHANGED pc
    /\ UNCHANGED <<input, counts, BBNum, stream, blk, isParaRegion, serial, total>>

Finish ==
    /\ pc = "parallel" /\ Len(parallel) = parallelSize
    /\ pc' = "done"
    /\ UNCHANGED <<input, counts, BBNum, stream, blk, isParaRegion, serial, parallel, total>>

Next == \/ CountPlaces \/ GetBBNum \/ CountInstructions \/ GetMathInsNumInBB \/ ReadNumber \/ ReadUnopened \/ EndRead
        \/ JudgeBlock \/ EndJudge \/ GetInsKind \/ GetBinaryOPNum \/ GetMathInsNumTotal
        \/ AddMemory \/ EndMemory \/ AddTime("arithmetic") \/ EndArithmetic
        \/ AddTime("maths") \/ EndMaths \/ AddRegion \/ Finish

Spec == Init /\ [][Next]_vars

-----------------------------------------------------------------------------
Phases == {"getBBNum", "getMathInsNumInBB", "getBBFrequency", "judgeIsParallel", "getInsKind",
           "getBinaryOPNum", "getMathInsNumTotal", "memory", "arithmetic", "maths", "parallel",
           "done", "crashed", "exhausted"}
Predicting == pc \in {"memory", "arithmetic", "maths", "parallel", "done"}

\* Six walks over the module, in OmpProfiling and here, agree on the places:
\* all tables and all rows have an entry for each.  (A part of TypeOK.)
OneEntryPerPlace ==
    Predicting => /\ \A t \in DOMAIN Kinds : /\ Len(counts[t]) = BBNum
                                             /\ Len(total[t]) = BBNum * Len(BBFreq)
                  /\ Len(isParaRegion) = BBNum
                  /\ \A c \in DOMAIN BBFreq : Len(BBFreq[c]) = BBNum

TypeOK ==
    /\ pc \in Phases
    /\ \A t \in DOMAIN Kinds : /\ counts[t] \in Seq([DOMAIN Kinds[t] -> Nat])
                               /\ total[t] \in Seq([DOMAIN Kinds[t] -> Nat])
    /\ read \in 0..M.file.numbers /\ eof \in BOOLEAN /\ num \in Nat
    /\ thread \in Seq(Nat) /\ Len(thread) <= BBNum /\ BBFreq \in Seq(Seq(Nat))
    /\ blk \in 1..(Len(M.blocks) + 1)
    /\ isParaRegion \in Seq(-1..Cardinality(Outlined(M)))
    /\ entry \in Nat \ {0} /\ BBFlag \in 1..(BBNum + 1) /\ time_tmp \in Nat
    /\ timeInf \in Seq(Nat) /\ parallel \in Seq(Nat)
    /\ pc \in {"arithmetic", "maths"} => i \in DOMAIN timeInf
    /\ OneEntryPerPlace

\* The rows used are those the file holds completely, each as the run counted
\* it; a file that was written to its end loses none.
RowsComplete ==
    pc = "judgeIsParallel" \/ Predicting =>
        /\ Len(BBFreq) * BBNum <= M.file.numbers
        /\ \A c \in DOMAIN BBFreq :
              BBFreq[c] = [p \in 1..BBNum |-> M.freq[(c - 1) * BBNum + p]]
        /\ M.file.numbers = Len(M.freq) => Len(BBFreq) * BBNum = Len(M.freq)

\* The functions a region executes, apart from the regions forked in it.
Executes(a) == {a} \cup {f \in DOMAIN M.kind : Calls(M, a, f)}
InRegion(f) == \E a \in Outlined(M) : f \in Executes(a)
NoNestedRegions ==
    \A n \in Walked(M) : InRegion(M.blocks[n].fn) => At(M, n, "fork") = {}

\* In a program with regions, none of them nested, a place is serial if no
\* region executes its function, and otherwise in a region that does.
JudgedByCalls ==
    pc = "getInsKind" /\ Outlined(M) # {} /\ NoNestedRegions =>
        \A n \in Walked(M) : \A q \in 1..Places(M, n) :
            LET region == isParaRegion[Before(M, n) + q]
                f      == M.blocks[n].fn
            IN  IF region = 0 THEN ~InRegion(f)
                ELSE \E a \in Outlined(M) : region = parallelRegion(a) /\ f \in Executes(a)

\* The time of place p in row c, and that of all places of a region.
TimeOnce(t, p) ==
    SumTo([k \in DOMAIN Kinds[t] |-> Time[Kinds[t][k]] * counts[t][p][k]], Len(Kinds[t]))
TimeOf(c, p) ==
    M.freq[(c - 1) * BBNum + p] * (TimeOnce("memory", p) + TimeOnce("arithmetic", p))
TimeIn(c, r) ==
    SumTo([p \in 1..BBNum |-> IF isParaRegion[p] = r THEN TimeOf(c, p) ELSE 0], BBNum)

NoMathsInSerial ==
    \A p \in 1..BBNum : isParaRegion[p] = 0 => \A k \in DOMAIN Maths : counts["maths"][p][k] = 0

\* The prediction adds up, in each loop through the tables: the serial places
\* of all rows, and for each region the row that spends most time in it.
\* Library functions take no time: their calls are out of the statement.
TimesAddUp ==
    pc = "done" /\ NoMathsInSerial =>
        /\ SumTo(timeInf, Len(timeInf)) = SumTo([c \in DOMAIN BBFreq |-> TimeIn(c, 0)], Len(BBFreq))
        /\ Len(parallel) = parallelSize
        /\ \A r \in DOMAIN parallel : /\ \E c \in DOMAIN BBFreq : parallel[r] = TimeIn(c, r)
                                      /\ \A c \in DOMAIN BBFreq : TimeIn(c, r) <= parallel[r]
=============================================================================
