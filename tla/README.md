# LLVMSlicing: specifications, model checking and proofs

LLVMSlicing is an LLVM plugin. It slices a program down to the instructions
that decide its control flow, its calls and its communication, and instruments
the original program with basic-block counters, so that the slice and the
counters together predict how long the program runs. This directory holds TLA+
modules of the parts with logic of their own, the TLC configurations that check
them on small instances, and TLAPS proofs of what matters most.

## 1. The system

| Component | Code | State | Operations |
|---|---|---|---|
| DataFlow framework | `lib/DataFlow.cpp` | per block `in`, `out`, `currTransferResult`; `analysisConverged` | `run`: iterate over the blocks until no output changes |
| ReachingDefinitions | `lib/ReachingDef.cpp` | `InsReach`: instruction -> definitions | `applyMeet`, `applyTransfer`, `dealFunction` |
| CGFilter | `lib/CGFilter.cpp` | `order_map`: function -> first, last index; `Only`: call edges of one walk | the constructor's numbering, `indexof`, `judgeIns` |
| IRSlicer | `lib/IRSlicer.cpp` | `Live`; the module it rewrites | `runOnModule`, `findLives`, `findAllRelatedIns`, `interFunction`, `deleteIns` |
| GlobalVarDCE | `lib/GlobalVarDCE.cpp` | `AliveGlobals`, `SeenConstants` | mark what external globals need, delete the rest |
| OmpProfiling | `lib/OmpProfiling.cpp` | `NumBlocks`, `coreGet`, the module it rewrites | count places, insert `sched_getcpu` and counters, insert the profile hook |
| the instrumented OpenMP program | code inserted by OmpProfiling, `libprofile/WriteOpenMPProfile.c` | `BBCounters`, registers of every thread, the profile file | read the core number, load / store a counter, write the profile |
| BBProfiling | `lib/BBProfiling.cpp` | as OmpProfiling, one row | the same for sequential programs |
| ComputeIns | `lib/ComputeIns.cpp` | timing tables, frequencies, parallel blocks | read files, classify blocks, add up times |
| OutputResult | `lib/OutputResult.cpp` | `bbfreq`, `instNum` | read a profile of BBProfiling, count executed instructions |
| OutputOmpResult | `lib/OutputOmpResult.cpp` | `bbfreq`, `EachBBInstNum`, `instNum` | the same for a profile of OmpProfiling |
| InstTemplate | `lib/InstTemplate.cpp` | the module it rewrites | replace each `inst_template` call by 300 instructions and what keeps their results alive |
| inst-timing | `src/inst-timing.c`, `src/libtiming.c` | `sum`, `t_err` | measure, sort, print the upper quartile |
| libfn-timing | `src/libfn-timing.c` | timing samples | the same for library functions |
| debugging passes | `lib/Test.cpp`, `lib/MyTest.cpp`, `lib/ModuleTest.cpp` | - | print what LLVM knows |

How they interact. `IRSlicer::runOnModule` is the centre. It builds the call
graph and a `CGFilter` over it, runs `ReachingDefinitions::dealFunction` on
every function (which calls `DataFlow::run`), then marks the slicing criteria.
Marking an instruction runs `findLives`, which asks `InsReach` for the stores a
load may read and `CGFilter::judgeIns` for the stores to globals that come
before it. `interFunction` then walks the calls from `main` and decides about
return values, `deleteIns` erases what is not live, and `GlobalVarDCE` deletes
the globals and functions nobody refers to any more. The profiling passes run
on the unsliced program; the instrumented program is linked with
`WriteOpenMPProfile.c`, and `ComputeIns` and `OutputOmpResult` (for sequential
programs `OutputResult`) read the file it writes. The times `ComputeIns`
multiplies the counts by come from `inst-timing`, which `InstTemplate` rewrites
after compilation; `ComputeIns` takes them by their place in the file, so the
order of the loops in `inst-timing.c` is part of the interface.

What is hard in it:

- *Fixpoints* (DataFlow): termination and exactness depend on the initial
  values, on when the convergence flag is reset and on the order of the blocks.
- *Marking with a recursion whose visited set is the result* (IRSlicer):
  whoever marks without recursing hides the needs of an instruction for ever,
  and the outcome depends on the order in which calls are judged.
- *Unbounded recursion* (interFunction on recursive programs), unchecked null
  pointers (indirect calls, constant users of a global).
- *Concurrency* (the instrumented program): counters are incremented without
  atomic operations, in a row selected by a core number that may be stale.
- *Measuring* (InstTemplate and inst-timing): what is generated must lie between
  the two clock readings and nothing else must, and all loops share one array.

What makes each component correct is stated as properties in section 3 or, for
those still to come, in section 6.

Two passes change the program they walk over (OmpProfiling, BBProfiling): they
count places first and number them in a second walk, and what they insert must
not be counted, skipped or put where it is not executed. CGFilter computes
numbers from the depth of a traversal, and is right only if every way the
traversal goes on (down, to a sibling, several levels up) leaves a number for
the code in between.

## 2. Modules

| Module | Models |
|---|---|
| `FunctionIR` | an LLVM function as the reaching-definitions pass sees it: blocks, successors, definitions and the *key* they are matched by |
| `ReachingSpec` | abstract: one answer, which is for each block the set of definitions that arrive there along some path |
| `ReachingDef` | `DataFlow::run` and `dealFunction`, one action per visited block |
| `Slicer` | `IRSlicer` on a module, from the first criterion to `deleteIns`, given what the analyses found |
| `CGFilter` | the constructor's two loops over the call graph, `indexof` and `judgeIns` |
| `SlicingPass` | `runOnModule` as a whole: composes `CGFilter`, `ReachingDef` for one function after the other, and `Slicer` |
| `SlicedRun` | a program and what `SlicingPass` left of it, executed side by side |
| `GlobalVarDCE` | marking and deleting the globals of a module |
| `OmpProfiling` | the instrumentation pass for OpenMP programs |
| `BBProfiling` | the instrumentation pass for sequential programs, and the run of what it produces |
| `OutputResult` | extends `BBProfiling`: counts the instructions of the run from its profile |
| `OmpCounters` | the instrumented OpenMP program and `WriteOpenMPProfile` |
| `ComputeIns` | the prediction: reading the profile, tables of instructions, parallel regions, adding up times |
| `OutputOmpResult` | extends `ComputeIns`: counts the executed instructions from the same modules and profiles |
| `InstTemplate` | the pass, on loops that measure, with every template |
| `InstTiming` | extends `InstTemplate`: the rewritten program measures and prints |
| `Rounds`, `Sums` | recursive functions the others use: a closure computed in rounds, and the sum of numbered terms |
| `MC*` | the instances TLC checks |
| `*Proofs` | theorems and proofs, EXTENDing the module they are about; `RecursionProofs` has the lemmas about `Rounds` and `Sums`, `WholeModuleProofs` is about `CGFilter` and `GlobalVarDCE` |

### ReachingDef

The state is the function `F`, the position `cur` of the block iterator, the
flag `converged`, and per block `in`, `out` and `base` (the `baseValue` of the
current transfer result, which starts as the boundary value for the entry block
while `out` starts empty: the code keeps both, and so does the model). Bit
vectors are sets of definitions. `VisitBlock` is the body of the `for` loop,
`NextPass` and `Converge` are the two outcomes of the `while` condition,
`ExtendBlock` is one iteration of `dealFunction`'s loop, which fills `reach`
(`InsReach`). `ExtendUnassigned` is the access to a bit of an unassigned vector,
which ends the program.

Definitions are matched by the *printed name* of what they define, a substring
of LLVM's output. The constant `KeyOf` is that conversion: registers and stack
slots print as `%name`, a global `@sum` prints as `um` and `@g` as the empty
string, which is also what an instruction defining nothing prints as.
`PointsExact`, which compares with a reference at instruction level, is
therefore restricted to functions whose variables print differently. It also
says what becomes of the instructions behind a phi node (`BehindPhi`):
`dealFunction` keeps nothing for them, so they have no definitions at all. The
refinement `Implements` has no such restriction: it takes the keys as they are.

### Slicer

A program is a record of functions, blocks and instructions; of a function's
name only the prefix the pass tests is kept (`kind`). `InsReach` and `judgeIns`
come with the program (`reach`, `before`); `SlicingPass` computes them.

`live` is `Live`. The C++ recursion of `findLives` is replaced by `todo`, the
marked instructions not yet expanded: `FindLives` expands all of them at once.
This loses nothing, since what one call of `findLives` marks in the end depends
only on what was marked when it began, and no other step happens before `todo`
is empty. `blk`, `part` and `pos` are the position of `runOnModule`'s loops,
`related` a `fopen` call in `findAllRelatedIns`. `stack` is the C++ stack of
`interFunction`: a task to *enter* a function, to *scan* the calls still ahead in
it (a set of places, of which the first in layout order is next),
or to *judge* one call. The judging reads `live` at the time it happens, after
an outlined function was processed and before the callee is, as in the code.
`retUndef` holds the functions whose returned value was replaced by undef.
Crashes (null pointers) and stack exhaustion are actions of their own.

### CGFilter

A function is its size and the records of its call graph node, in layout order:
an instruction is a function and a place in it, because `std::less` compares
positions in the function, and a record is the call and what it leads to. `path` and `visited` are the stack and the visited
set of LLVM's `df_iterator` and `po_iterator`, `i`, `lastLen`, `order` and
`only` are `i`, `LastPathLen`, `order_map` and `Only`. `Enter` numbers a
function in the first loop (`phase` "pre"), `Leave` computes where its range
ends in the second. The call graph has LLVM's shape: a declared function calls
the node `External`, as a call through a pointer does. `UINT_MAX`, the number
of an instruction `main` does not reach, must be larger than any other: no module
has 2^31 functions (`NumberAssumption`).
`judgeIns` is compared with the order of a walk that uses none of this (`WalkOn`):
it comes upon the instructions of `main` one after the other, goes from a call
into a function it has not entered yet, and behind the last instruction of a function
back to where it came from. `WalkOrder` is what it has come upon after as many
steps as there are instructions and functions, a recursive function of their number.

### SlicingPass and SlicedRun

`SlicingPass` has two instances, `Filter` of `CGFilter` and `Reaching` of
`ReachingDef`, and extends `Slicer`. `CG` is the call graph of the program, `F`
the function being analysed, `IR(p, f)` is a function as `ReachingDef` sees it
and `Named` leads back from its positions to instructions. The program begins
with empty `reach` and `before`: the step that finishes the filter fills
`before` with the answers of `judgeIns`, `EndFunction` fills `reach` for one
function from the values of the framework, and only when all functions are done
does a step of `Slicer` happen (`Slice`). A function is analysed when its first
block is come to (`fn`); the analyses of several functions do not mix, as
`dealFunction` begins with empty vectors. `Verified` is what LLVM's verifier
guarantees of a program and `WellFormed` does not say: the blocks of a function
lie together, nothing branches to its first block, and an instruction is not
come to without what it uses (`Without`: the places that can be come to from
the beginning of a function without passing a value). `ideal` is the same program with what
the analyses should find, computed by `MCSlicedRun` from the program text; no
action reads it. `Implements` says that the composition behaves as `Slicer`
alone does when it is given these.

`SlicedRun` then runs the program. Values are left out; what is kept is whether
the slice has the value the program has, for each register and stack variable
of an activation (`regs`, `slots`) and each global (`globs`). A deleted
instruction leaves its user undef, a deleted store its variable unchanged, a
replaced return gives nothing. `BranchesAgree` says what a slice is for: its
branches are decided on the program's values, and its criteria get the
program's arguments. Its conditions name what the slicer does not promise.
`Direct`: a variable is accessed by its own name, not through a pointer, names
tell variables apart (`ReachingDefinitions` matches names), and there are no
phi nodes, behind which it finds nothing. `FilesAlone`: an instruction that uses an
opened file uses no other result, since `findAllRelatedIns` marks it and does
not look at what else it uses. `Onward`: where globals are used there are no
loops, no parallel regions and one call of each function, since `judgeIns` is an
order of the program text. `NoneLost`: no call whose result the slice uses is of
a function whose return was replaced. The third and the
fourth are the subject of `slicing_global` and `slicer_return`.

A result that is used can be lost for two reasons. A function called twice loses its
return value to the call that has no use for it. And a function called once loses it if its
result comes to be used late: in `g = f(); if (h()) ...`, where `h` returns the
global `g`, the store to `g` is not live when `f` is judged; when `h` is entered for its result,
its return makes the load of `g` live, and that the store. `LossesExplained`, in
`ReturnsDecided`, says that there is no third reason: the function has another
call (or is `main`), or a function other than the caller returns what depends on the result
(`ReturnedElsewhere`). `ResultsStay` describes the programs that have neither, and for
them `BranchesAgree` does not ask for `NoneLost`: a result lost there would be a fault.

### OmpProfiling and BBProfiling

`code` is the module being rewritten, `blk` (and `pos` in OmpProfiling, whose
walk goes through instructions while it inserts others) the position of the
loop. One action handles one block, or one instruction where the walk inserts
behind it. Inserted instructions are records that name the counter, and the
call of `sched_getcpu` whose result a counter of OmpProfiling uses (`coreGet`).
`FindFunctions` and the first disjunct of `InsertWrite` are the early returns;
"crashed" is a call of `getName` on a null pointer, or of a writer that was not
found. In `BBProfiling` the instrumented program then runs: `stack` holds
the block and instruction of every activation, one action executes one
instruction, and branches go to any successor. `OutputResult` goes on from
there: `executed` counts what the program ran of its own instructions,
`AddBlock` is one block of the loop of `OutputResult::runOnModule`, which
multiplies the number at the block's position (`place`) by its length.

### ComputeIns

A *place* is what one counter counts: a block up to and with a fork call, or
what follows the last of them; `ComputeIns` and `OmpProfiling` must agree on
them. A module is a record with its profile (`freq`, and `file` for what of it can
be read). `pc` is the method `runOnModule` is at, `blk` the block its walk is at:
`CountPlaces`, `CountInstructions` and `JudgeBlock` are one block of a walk, and
`EndWalk` goes on to the next method. `ReadNumber` is one pass of the loop that reads the profile, with C++'s way of
noticing the end of a file; `AddMemory`
and `AddTime` one pass of the loops of `getProTime`, whose variables (`BBFlag`,
`time_tmp`, `i`) keep their values from one loop to the next where the code
keeps them. Opcodes and library functions are two sequences and times are
natural numbers: the code's chains of `insFlag` select the time of a kind by its
place in a table and nothing else. A table of rows is a sequence of entries, and
`RowAt` and `PlaceAt` say where an entry is. `order` is the order of the outlined functions in a map of
pointers, which no one chooses, and `stray` what the dereferenced `end()` of
`time_map` yields. `JudgedByCalls` and `TimesAddUp` name what they leave out:
nested regions (the part of a region before a fork call is taken for serial),
programs without regions (everything is in region -1 and not added up), and
library functions in serial places.

`OutputOmpResult` reads the same file for the same module, after `ComputeIns` in
the model, though the two are independent. `CountBlock` is one block of its walk,
`AddNumber` one number of the file, which it assigns to a place by the remainder
of its position. `InstNumAddsUp` compares the sum with the instructions of the
program, each as often as the counter before it says in all rows.

### InstTemplate and InstTiming

A source is a sequence of measuring loops, and `Body` is the code clang makes of
one pass through the macro `REPEAT`: two calls of `timing`, `inst_template`
between them. Operands are left out, an instruction is its opcode. Each template
is an operator of its own name that says what it inserts and where (`loads`,
`timed`, `chain`, `last`); `Implied` puts that into a body, with the searches
for the first load, the next call and the terminator. `users` are the uses of
`inst_template` in the order LLVM keeps them, which nobody chooses, and `Expand`
handles one: the iterator is then advanced from a use that was erased, which may
crash. `IRBuilder` makes no instruction of an address that is constant
(`getelementptr_op`), and `fptoui_to` generates `fptosi`; both are as in the
code, and `TimedExactly` names them as exceptions.

In `InstTiming` the program runs. `Measure` is one pass of a loop: the clock
advances by one of `Durations`, and `t_err` is subtracted modulo `Wrap`. `Report`
sorts the whole array `sum` with `int_less`, whatever the loop wrote, and keeps
the element the code prints. `Sorted` gives an element the place that is the
number of elements before it (`Before`), which is what a stable sort does. `took`
is what the passes of the loop really took, for `QuartileOwn`. `ReadOrder` and `Named` say for which instruction `ComputeIns`
uses the number.

### GlobalVarDCE

`cur` is the position in the loops over functions, variables and aliases, which
the model treats as one list. The mutual recursion of `GlobalIsNeeded` and
`MarkUsedGlobalsAsNeeded` is replaced, like that of `findLives`, by a set `todo`
of globals and constants still to scan; one step scans all of them. `alive` and
`seen` are `AliveGlobals` and `SeenConstants`. As in the code, the constants a
global uses are scanned every time they are come upon, only the operands of
constants are skipped when seen before. Initializer, aliasee, prefix data and
instruction operands of a global are its `uses`; personality functions, which
the code does not look at, are left out. Deletion has the code's two stages:
`DropPass` takes all references from the dead, `Erase` removes them one by one.

### OmpCounters

Every thread has a program counter, the core number `core` its current function
read, the site it counts and the old value it loaded. Load and store are two
actions; the computation of the index between them touches registers only.
`GetCoreNum` returns any core number, which covers every placement and every
migration of threads; the number stays in use until the function ends or a fork
call returns. The branches of the program are left open (`NextBlock` picks any
site). The parallel region is the interface of the OpenMP runtime as the pass
uses it: `Fork` starts the outlined function on every thread, `Join` waits for
all. `OpenProfile` may fail, as `fopen` may. Calls of ordinary functions are not
distinguished: a callee has its own core number and sites, so a call adds
nothing to what another thread can see that `NextBlock` and `GetCoreNum` do not.

## 3. Runs

| Run | Checks |
|---|---|
| `reaching` | `Implements`: the iteration gives one answer, the exact solution. `OutputsGrow`: no visit shrinks an output. `Completes`: it ends. `PointsExact`: `InsReach` is right at every instruction |
| `slicing` | `Implements`: the composed pass does what `Slicer` does with exact analyses. `BranchesAgree`: at run time the slice decides its branches and calls on the values the program has, where it uses no lost result. `LiveClosed`: what is kept has its dependences kept. `CriteriaKept`: skipping blocks loses no criterion, no block loses its terminator (but one that ends in an external invoke, an `indirectbr` or a `resume`). `Minimal`: nothing without a reason is kept. `ReturnsDecided`: the return instructions of every function `main` may enter were decided about, and a result the slice uses is lost only if its function has another call or a function returns it elsewhere. `Finishes` |
| `slicer_return` | `UndefOnlyIfUnused` is violated twice in one program: of two calls of one function the unused one costs the used one its result, and a function called once loses its result, which a function judged later returns through a global |
| `slicing_global` | `DependencesFound` is violated: a global set further down in a loop, or in a parallel region, is not among the dependences of a load |
| `globals` | `DeletesExactly`: what is left is the least set that holds the roots and what they are made of. `NothingDangles`: at every moment nothing refers to an erased global. `Finishes` |
| `cgfilter` | `OneFunctionPerIndex`: instructions with one number are in one function, as `judgeIns` asserts. `TypeOK` also says that the ranges of functions nest like the calls that entered them and hold the numbers of their instructions. `OrderIsWalk`: `judgeIns` is the order of a walk through the calls from `main` |
| `instrument` | `NumbersExact`: both walks agree on the number of places. `EveryPlaceCounted`: each block has a counter at its start and one behind each fork call, with the core number read there. `CoreIsLatest`: that number was read in the same function, and not before a fork call laid out in between. `WrittenOnce`: the profile is written at one place, the end of `main`, behind all counters of its block |
| `instrument_core` | `CoreAlwaysRead` is violated: a counter uses a core number that is not read on every path to it |
| `bbprofiling` | `CountersFollow`: the counters are behind the block entries by the activations that have not come to the end of their block. `FrequenciesExact`: the profile of a program that returns from `main` is how often each block was entered. `InstNumExecuted`: what `OutputResult` prints is the number of instructions the run executed, and without a profile it prints nothing |
| `counters` | `NeverOvercounts`: a counter is at most the number of executions it stands for, whichever threads share its row. `RowsExact`: the counters of a core that only one thread was ever given are exact. `ProfileFinal`: what the profile holds does not change after it was written. `RunEnds` |
| `compute` | `RowsComplete`: what is read of a profile, also of one cut off, are its complete rows. `TypeOK` also says that all walks come upon the same number of places. `JudgedByCalls`: a place is in a region that executes its function. `TimesAddUp`: the prediction is the sum over the serial places and, for each region, the slowest row. `InstNumAddsUp`: what `OutputOmpResult` prints is the sum over the instructions of the program |
| `timing` | `TimedExactly`: between the two clock readings of each loop lie as many instructions of the kind as the time is divided by, and hardly any others, and the kind is that for which `ComputeIns` uses the time. `QuartileOwn`: what a loop prints is a duration it measured, less the error of the clock, and at the upper quartile, if not too many measurements are shorter than that error |

Most passing runs also check their module's `TypeOK` (`slicing` checks the types
of its parts through the refinement, `timing` none).

Bounds. `reaching`: all graphs of three blocks (the entry has no predecessors)
with two choices of entry code and six of other code, which include loops, self
loops, unreachable blocks, stores through an argument, two globals that print
alike, and code that redefines within a block; three graphs of five blocks laid
out against the control flow, on which one pass is not enough; and a function
with an unreachable block and no definitions. `slicing`: 656 programs of five
families with every combination of a few choices: one function with branches,
loops and two variables; results of functions called twice; results that come
back through a global (`Revived`, each function called once: in some the result is lost
and used, in some lost and not used, in some kept); a chain of calls;
and calls the pass treats specially. The call depth is bounded by `MaxStack` =
5, more than any of the non-recursive programs needs. Runs of the sliced program
are not bounded: the state holds no values, only whether those of program and
slice agree, so a loop comes back to a state it was in.
`slicer_return` has one program with both losses, `slicing_global` one program with a loop
and one with a parallel region. `globals`:
672 modules of six globals and two constants, one a part of the other, with
cycles between functions, between variables and through constants. `cgfilter`:
2160 modules of four functions with up to three calls each, repeated, recursive
(also of `main`), to declared functions and through pointers; four functions
let the traversal return over several levels at once. `instrument`: 400 modules
of six blocks in up to three functions, with each kind of instruction where a
block begins and fork calls anywhere. `bbprofiling`: 150 programs with loops,
recursion, calls and `exit`; a run enters at most `MaxEntered` = 14 blocks,
which is two rounds of each loop inside two activations; the report is made of
each of these runs, and of those that left no profile. `compute`: ten programs
of six functions with two regions, and two without, on one to three cores, with
counters that are all different; three of them also with every profile that is
cut off early. One to three rows show the first, a middle and the last one.
`counters`: two threads, two cores, two parallel regions (`MaxForks`), and one further
block per thread and region (`MaxBlocks`); two threads on one row already show
every interleaving of two increments, and the second region shows values that
were left by the first. `timing`: `inst-timing.c` with all its 37 loops, in both
orders of the uses, and three programs with the templates it does not use, with
a selector nobody knows and without loops. `REPEAT` and `INSNUM`, 300 in the code, are 4: more
than the three other instructions `TimedExactly` tolerates, so that one chain
of instructions too many is noticed. `REPNUM`, 50000, is 5, so that the
quartile is neither the first nor the last and each loop measures every
multiset of five of the three durations; one of them is shorter than the larger
`t_err`, and `Wrap` is larger than all of them. `ALLOCA_NUM`, 100, is 1.

A run stops where the modelled program ends or crashes, so deadlock is not
checked.

Fairness. The passes are sequential: `WF_vars(Next)` says that the compiler
keeps running. The instrumented program has weak fairness for every thread (the
operating system runs it), for `Join`, and for the end of `main`; termination of
the program itself comes from the bound `MaxBlocks`.

## 4. Proofs

| Theorem | Says |
|---|---|
| `ReachingDefProofs!TypeCorrect`, `Invariant`, `Monotone`, `InsReachIsExact`, `Refinement` | for every set of functions and every `KeyOf`: types, the inductive invariant, `OutputsGrow`, `PointsExact`, and that the pass implements `ReachingSpec` |
| `SlicerProofs!TypeCorrect`, `SliceClosed`, `CriteriaAreKept`, `EveryReturnDecided`, `SliceMinimal` | for every set of programs and every stack size: types and cursors, `LiveClosed`, `CriteriaKept`, `ReturnsDecided`, `Minimal` |
| `SlicerProofs!WholePass` | the last four for `SlicedRun`: numbering, analyses, slicing and the run of the slice, whatever the analyses find |
| `SlicerProofs!SliceAgrees` | for every set of programs, the same composition: `BranchesAgree` of the programs without global variables |
| `SlicerProofs!ResultsKept` | the property `slicer_return` refutes, `UndefOnlyIfUnused`, of the programs that call each function once and in which no function returns what depends on a result of another's call (`ResultsStay`) |
| `SlicerProofs!LostToAnother` | without globals and address computations, a result the slice uses is lost only if its function has another call |
| `WholeModuleProofs!Inductive`, `TypeCorrect`, `NumbersAreOwn`, `OrderIsTheWalk` | for every set of modules, `CGFilter`: the inductive invariant, types and the ranges of functions (`RangesNest`), `OneFunctionPerIndex`, `OrderIsWalk` |
| `WholeModuleProofs!CleaningInvariant`, `CleaningTypeCorrect`, `DeletionExact`, `NoDanglingUse` | for every set of modules, `GlobalVarDCE`: the inductive invariant, types, `DeletesExactly`, `NothingDangles` |
| `BBProfilingProofs!Invariant`, `TypeCorrect`, `CountersAreExact`, `ProfileIsExact` | for every set of modules and runs of any length: the inductive invariant, types, `CountersFollow`, `FrequenciesExact` |
| `BBProfilingProofs!ReportInvariant`, `PrintedIsExecuted` | the same with the report of `OutputResult` behind the run: the inductive invariant, `InstNumExecuted` |
| `OmpProfilingProofs!Invariant`, `TypeCorrect`, `NumbersAreExact`, `EveryPlaceIsCounted`, `CoreIsRead`, `WrittenIsOnce` | for every set of modules: the inductive invariant, types, `NumbersExact`, `EveryPlaceCounted`, `CoreIsLatest`, `WrittenOnce` |
| `ComputeInsProofs!Invariant`, `TypeCorrect`, `RowsAreComplete`, `PlacesJudgedByCalls`, `PredictionAddsUp` | for every set of modules with their profiles and every table of times: the inductive invariant, types, `RowsComplete`, `JudgedByCalls`, `TimesAddUp` |
| `ComputeInsProofs!InstNumIsExact` | the same with `OutputOmpResult` behind it: `InstNumAddsUp` |
| `RuntimeProofs!TypeCorrect`, `Undercounting`, `RowsAreExact`, `ProfileIsFinal` | for every team, machine and set of sites: types, `NeverOvercounts`, `RowsExact`, `ProfileFinal` |
| `RuntimeProofs!QuartileIsOwn` | for all sequences of loops of which the first fills `sum`, and all durations, errors of the clock and array sizes: `QuartileOwn` |

*Refinement.* `ReachingSpec` defines the answer without iteration: a definition
arrives at a block if every set of blocks closed under its propagation holds the
block. That the iteration gives no more is the invariant `Justified`; that it
gives no less follows from `Settled`: while a pass has changed nothing, the
blocks behind the iterator satisfy their dataflow equations, so at the end all
do, and the blocks whose `in` holds `d` form a closed set. `Growing` is what
carries `Settled` over a visit that changes nothing, and gives `OutputsGrow`.
`Synced` ties the two copies of the output together, `Boundary` says that
inputs without predecessors stay as initialised. The only assumption is that
functions are well formed, in particular that nothing jumps to the entry block.

*InsReach.* `PointsExact` compares with definitions that flow from instruction
to instruction, while the pass works on blocks. The reference (`Walks`) is the
least set with `CarriedAlong`. What arrives at a block, in the sense of the
refinement, is carried to its first instruction in every such set
(`ArrivesCarried`), and from there through the block (`CarriedWithin`). What
the walk of `dealFunction` gives is itself such a set (`PointsAlong`), so it
holds the least one. `RecordedSoFar` says how far that walk has come. Blocks
are not empty, which LLVM's verifier demands.

*SliceClosed.* `LiveClosed` is inductive with `TypeOK`. The argument is the
difference between `live` and `todo`: an instruction leaves `todo` only in the
step that marks its dependences. Two exceptions are part of the statement
because they are part of the code: users of a `fopen` call, marked without being
expanded, and replaced returns. The assumptions are what LLVM's verifier
guarantees about the program.

*CriteriaAreKept.* `Seeded` says what the loop of `runOnModule` is through with:
every criterion behind its position is live, and so is the terminator of every
block behind it that decides the control flow. The hard step is the skip: a block
whose terminator is live is not walked, and loses no criterion only because its
terminator cannot have been marked before its turn, unless the whole function was
(`MarkedByTurn`). That holds since what `findLives` and `findAllRelatedIns` mark
is an operand, a store or the user of a file, and none of these decides the
control flow (`DepsDecideNothing`, `UsersDecideNothing`).

*EveryReturnDecided.* A function is *owed* by a task that will come to it: the
one it enters, those called from the places it scans, the one it judges.
`ReturnsOwed` says, of every set of functions that is closed under calls but for
the functions owed, that the returns of all that `main` reaches in it are
marked; when the stack is empty nothing is owed. A pass that meets an indirect
call or exhausts the stack does not come to its end, so the theorem needs no
bound on recursion.

That losses have a reason is `JudgeInv`. A function is entered as soon as its call was
judged (`AtOnce`), so a lost result of an only call was unused when it
was lost, and its caller's returns were dealt with before (`Came`, `TurnsCame`). What makes
it used later is then marked for the return of another function: all that `findLives`
has in hand, while `interFunction` runs, is needed for the returns of one function (`ReturnNeeds`), which
has no such call (`MarksElsewhere`). `LossesBehind` follows, step by step.

*SliceMinimal.* `NeededOnly`: what waits for `findLives` is needed, and what is
live is needed or one of the exceptions. A return is expanded only when its function
was entered for its result, and `UsedCalls` says that this is so only after a call
whose result some instruction uses. `Needed` is a closure computed in rounds by
the recursive function of `Rounds`. That the rounds suffice is proved (`ReachedClosed`): a round
that adds something follows one that added a source, so there are at most as
many as sources, and `ReachedWithin` says they stay inside every closed set.

*WholePass.* In the composed pass the program changes while it is analysed: the
filter fills `before`, the analysis of each function its part of `reach`. Until
the last of them is done nothing is marked (`InTurn`), and what they supply
keeps the program well formed (`Supplied`); from then on every step is one of
`Slicer`.

*SliceAgrees.* The theorem is about everything between the call graph and the
last instruction the slice executes, so its invariant has a part for each stage.

- *What the analyses find* (`AnalysisInv`). While a function is analysed, the
  framework is in the state its own proof says it is in: `RD` is
  `ReachingDefProofs` for the functions of all programs, and `Analyses` its
  inductive invariant. The result is exact in the analysis's terms. `ComesWalks`
  leads from there to the program: if a store of the program may come to a load
  (`Comes`, which is defined over instructions of the program), the definition
  the analysis sees in its place walks to where it sees the load. That needs that
  positions in the two correspond (`SeenIn`), hence that blocks of a function lie
  together (`Lying`), and that names tell variables apart. `EndFunction` names
  what was found by the instructions it stands for, so the functions analysed so
  far have all stores that may come to their loads (`FoundIn`), and nothing
  of another function (`LocalIn`).
- *Results.* `JudgeInv` holds in the whole pass, so in a program as `ResultsStay`
  describes it no result the slice uses is lost (`ResultsHold`). `ResultsKept`
  follows from this alone. `LostToAnother` needs of the analyses that they have found only
  what is in the function (`LocalIn`): without globals a function returns then what
  it has made itself (`ReturnsOwn`).
- *The run* (`RunInv`). `FrameOK` says of each activation which registers the
  slice has the right values in: those of the live instructions, but for lost results,
  that the way here has passed. What it has not passed yet is left out by
  dominance: where an activation is, is among the places that can be
  come to without the value (`Without`), and then nothing there uses it. A
  variable is right, or the way here has not passed its `alloca`, or
  its last store was lost on the slice and may come to where the activation is
  (`Stale`). In the last case a load there would depend on that store, and since dependences
  are live with what depends on them, the load is not live. `Waits` ties an
  activation to the one it called, so that a return finds what it returns to.
  Each action of the run has a lemma of its own, over `Stepped`, `Left` and
  `Resumed`, which say what moving within a block, to another block and back to
  a caller does to `FrameOK`.

`Ready` collects what the first two parts and the theorems above supply to the
third. The hypotheses are those of `BranchesAgree` and that there are no
globals; with globals, what the slice sees of them depends on the order of
`judgeIns`, and only TLC checks it.

*Numbers of functions.* `CGFilter` computes a number from the difference of two
path lengths, and a range from the range of the last call that entered a
function. The proof says what these are: times. A clock ticks whenever a walk
enters or leaves a function with a body; `first` is the time a function is
entered, and `leave`, which the model does not have and the invariant asserts
to exist, the time it is left. In the first loop `i + LastPathLen` is the clock
and the depth of the stack together (`InFirst`), so that the number given next is
the next time, however many levels the walk returned over before. `Tree` says
what the times of a walk are: all different (`Ticks`), a function entered along
a call is entered and left after its caller is entered, and left before that is
(`Entries`); between two entries of one function the clock stands still, so `At`
gives the time before each call from the entries before it (`Times`); and of any
two functions one is left before the other is entered or after it is left
(`Nested`). In the second loop everything has its time, and the walk is the same
one: it enters the functions whose time has come, because the visited functions
are those entered up to now (`InSecond`), and at the last entry of the
function it leaves `last_valid_child` finds the child left last, so that the end
it computes is the time it leaves. Declared functions and `External` come and
go on the stack without a tick. At the end (`Finished`) the number of an
instruction is the time its function's clock shows before the next entry
(`IndexIs`), which belongs to one function (`AtOwner`): that is
`OneFunctionPerIndex`, and `RangesNest` is `Nested`. The assumptions are that
`main` has a body and that the records of a node are calls of that function in
layout order, which is how LLVM builds the call graph.

*The order.* `OrderIsWalk` compares the final numbers with a walk that knows of no
numbers. Its invariant `WalkInv`, after each of its steps, again goes by the
clock, which stands at the time `At` shows at the place the walk has come to in the
function it is in (`OnTop`): the walk has entered the functions whose time has
come, has come upon the instructions they are past (`Passed`), and these are in
the order of `judgeIns` with no number above the clock (`Ordered`). Three lemmas
show that a step keeps this. Leaving a function (`StepLeaves`) takes the clock to its `leave`,
which is the time before the next call of its caller (`AtEntered`). An instruction
the walk comes upon has the clock's time as its number (`IndexAt`), so it is
behind all others, or behind those of its own function that have the same number
(`OrderedGrows`). If it calls a function not entered yet, this call is the one that
enters it in the tree, because the next time is that of the function it leads to
(`StepEnters`), and otherwise the clock stands still (`StepGoesOn`). Each
tick enters or leaves a function, so the clock tells how many functions were
entered and how deep the walk is; with no instruction twice (`OrderedOnce`) the walk is
back from `main` after `WalkLength` steps (`WalkEnds`), at a time below `UINT_MAX`.

*Globals.* `WholeModuleProofs` has the proofs of both components that walk all
functions and globals of the module, before and after slicing, and extends both
modules; that is why the names of `GlobalVarDCE` that `CGFilter` has too begin
with DCE. Neither proof uses the state of the other. `DeletesExactly` compares with the least closed set, defined without
iteration. `OnlyNeeded` says that whatever is marked or seen lies in every
closed set; `Scanned` that what was scanned has its parts marked, seen or
waiting, so that with nothing waiting `alive` and `seen` together are closed.
`Marked`, `Dropped` and `Erased` say how far the loops have come. A dead global
refers to nothing once dropped, and `Scanned` gives the targets of the alive
ones: that is `NothingDangles`. The assumption is that a module refers only to
its own globals and constants, and that the two are different things.

*Block frequencies.* The first half of the invariant is about the pass:
`Numbering` says what it has written into each block, the counter of block `b`
with the number of instrumented blocks before `b` (`NumberOf`, which grows with
`b`, so that no two blocks share a counter), and later the call of the writer.
The second half is about the run. `Frames` puts every activation on an
instruction of its block, with `main` at the bottom and nowhere else, and the
code then tells what each instruction can be: the counter has one place, what
the program does stands before it, the writer behind it. `Following` is
`CountersFollow` with these places; the step that executes a counter takes one
activation from those that wait and adds one to the counter. `Writing` says that
a profile exists exactly when `main` has passed the call of the writer, where
nothing waits any more. The assumptions are those LLVM's verifier guarantees,
and that nothing calls `main` or the writer.

*Executed instructions.* A block counts with all its instructions when it is
entered, but executes them one by one, and calls other blocks in between.
`Executing` says that the sizes of the blocks entered add up to what was
executed and what the activations have yet to execute (`Left`): entering adds a
size on both sides, an instruction moves one from right to left, and the
inserted ones move nothing. When `main` has returned nothing is left. `Reporting`
says that `OutputResult` has added up the blocks it is past, that its `place` is
the number the pass gave the block (`NumberOf`), and that blocks without a number
were never entered. Without a profile the first numbered block, and there is one in
`main`, ends the report.

*Recursion.* The provers do not do induction over data. What the proofs
need of a recursive function (`ReachedIn`, `SumTo`) is shown in
`RecursionProofs` by least counterexample: a set of natural numbers that is not
empty has a least member (`Least`), and there one step of the recursion
contradicts it. The steps of `WalkOrder` are treated the same way (`AllWalk`).

*Instrumentation.* `PlacesBefore` gives the places of the unchanged program that
lie before a block, and `Counting` says that `NumBlocks` is their number. During
the second walk `Scanning` says that the number of the next counter is that of
the places before the block, or, inside a block, what is left when the fork
calls still ahead are taken away (`Behind`): an inserted instruction is no fork
call, so the walk that inserts comes to the fork calls the other one counted, and
at the end the two numbers are equal. `Numbers` adds that each number below the
next is used once. `Scanned` is `EveryPlaceCounted` of a block up to the position
of the walk. `Cores` says that every counter so far uses the number read last
before it, and that `coreGet` would be that number for a counter put where the
walk is. This is carried across blocks because the blocks of a function lie together
and the first of them reads the number; an insertion moves what is behind it
by one or two positions (`Widened`), and `Placing` shows once, for both kinds of
insertion, that nothing of this is lost. The assumptions are `WellFormed`: what
LLVM's verifier guarantees of blocks, and that a module is laid out function by
function.

*Reading the profile.* While it reads, the numbers read are those of the rows and
of the row in hand, in their order (`Reading`). When the end is noticed one read
late, the row in hand holds the last number twice; since a row of a complete
profile ends with the file (`Multiple`), the second is then alone in a row of
its own, which `EndRead` drops. A profile that is cut off loses the row it was cut in.

*Places.* `Walks` says that every table has an entry for each place of the blocks
its walk has come by (`Before`), so that at the end all have the same number,
which is not 0 because some block is walked over (`SomePlace`). `Judged` keeps
what `JudgeBlock` wrote for each block; that the numbers of regions are those of
functions that call (`RegionOfType`) needs only that the map holds each outlined
function once, in whatever order.

*The prediction.* `SerialInv` is the invariant of the three loops over serial
places. `Position` says where a loop is: the entry is `BBFlag` places behind the
rows it has left (`RowsOver`), which are fewer than there are, so that `i` stays
inside `timeInf`. Of the sum it says that `timeInf` and `time_tmp` together hold
what the entries passed so far cost (`Spent`); the time of the last row, which the
code carries from one loop into the next, is in `time_tmp` and thus not lost. At
the end the three tables are added up entry by entry, and `SumRows` turns that
into a sum of rows. `ParallelInv` says that each region found so far has the
time of its slowest row (`Greatest`: some row is the slowest). The theorem has
the hypotheses of `TimesAddUp` and no other.

*Executed OpenMP instructions.* `OutputInv`: `Counted` says that the sizes counted
are those of the places come by, and `instNum` is what the instructions of the
program count by the first numbers of the profile (`AllTo`). A number is one of
exactly one place (`EveryPlace`, `OtherBlock`), and the instructions that place
counts are those `EachBBInstNum` was given for it (`AllToNext`).

*Counters.* `NeverOvercounts` needs `Storing`: what a thread is about to store
is at most the number of executions so far. `RowsExact` needs that a thread
alone on a row has loaded the current value. Both rest on `CellsDiffer`: core
number and site determine the cell, for all sizes (`CellInArray`: and it is
inside the array). `ProfileFinal` needs `Sequential` and `Writing`: when the
profile is being written every other thread is idle.

*Times.* As many elements of an array are before one as its place says, and every
place is taken (`Places`: counting the elements before it maps the places
one-to-one to themselves). So at the quartile stands an element with exactly
`b` before it, and `Quartile` counts: if its duration were too short, so would be
all before it, which are too many with it; as it is not, the too short ones, which
wrapped and are greater than all others (`KeepOrder`), and the longer ones are
all before it, and the shorter ones all behind it. The invariant `SumHolds` says
that the array is full from the second loop on, and that its front is what the
passes of the running loop took, less the error. When a loop of `REPNUM` passes
ends that is the whole array. The proof needs that the first loop makes `REPNUM`
passes and none makes more (`SumFits`), which is so in `main`: a first loop
with less would let `qsort` sort what was never written.

Only model-checked: liveness (`Completes`, `Finishes`, `RunEnds`); the refinement of `SlicedRun`,
whose reference is computed from the program text by the instance;
`BranchesAgree` of programs with global variables; and `TimedExactly`, of one program
with fixed numbers.

## 5. Faulty variants

Next to some definitions a module holds a faulty variant of it, commented as
such. They are not used by the specification. Put in the place of the
definition they vary, each of them makes TLC refute a property, which shows that
the property depends on that piece of code.

## 6. Not modelled, and the plan

- Proofs of `BranchesAgree` with global variables, which would rest on
  `OrderIsWalk`, and of the refinement in `SlicedRun`, that what the analyses supply is what they should find
  and no more.
- Programs that leave `main` by a later return or a call of `exit` write no
  profile, and two threads that share a row lose increments; the models show
  it, no property does.
- Left out on purpose: a module without `main` (IRSlicer ends on it before
  CGFilter matters), landing pads and personality functions (the documented
  programs are C).
- `getelementptr` on a global array measures nothing, `fptoui_to` measures
  `fptosi`, and the time printed for `alloca` is made of the numbers of the loop
  before: all three are in the model, and what they are left out of is said at
  `TimedExactly` and `QuartileOwn`.
- Not planned: the debugging passes only print; `libfn-timing.c` repeats the
  structure of `inst-timing.c` with library calls, without `InstTemplate`; `deleteNoUsedFunc` is never called; BACKWARD dataflow
  is not used; `lib/ComputeIns.cpp.backup`, the build files and the programs
  under `test/` are no part of the system.
