----------------------------- MODULE InstTiming -----------------------------
(***************************************************************************)
(* inst-timing measures how long each kind of instruction takes: the       *)
(* program InstTemplate has rewritten runs.                                *)
(***************************************************************************)
EXTENDS InstTemplate

CONSTANTS REPNUM,     \* 50000 in the code
          ALLOCA_NUM, \* 100 in the code
          INSNUM,     \* 300 in the code
          Durations,  \* what may lie between two calls of timing
          Errors,     \* what timing_err may return
          Wrap        \* 2^64 in the code

ASSUME NumbersAssumption ==
    /\ REPNUM \in Nat \ {0} /\ ALLOCA_NUM \in 1..REPNUM /\ INSNUM \in Nat \ {0} /\ Wrap \in Nat \ {0}
    /\ Durations \cup Errors \subseteq 0..(Wrap - 1)

\* main of inst-timing.c
REPEAT_INST(sel)    == [sel |-> sel, arg |-> "var", rep |-> REPNUM]
REPEAT_ADDRESS(sel) == [sel |-> sel, arg |-> "address", rep |-> REPNUM]
main ==
    <<REPEAT_INST("load"), REPEAT_INST("store"),
      REPEAT_INST("fix_add"), REPEAT_INST("float_add"), REPEAT_INST("fix_mul"), REPEAT_INST("float_mul"),
      REPEAT_INST("fix_sub"), REPEAT_INST("float_sub"), REPEAT_INST("u_div"), REPEAT_INST("s_div"),
      REPEAT_INST("float_div"), REPEAT_INST("u_rem"), REPEAT_INST("s_rem"), REPEAT_INST("float_rem"),
      REPEAT_INST("shl"), REPEAT_INST("lshr"), REPEAT_INST("ashr"),
      REPEAT_INST("and"), REPEAT_INST("or"), REPEAT_INST("xor"),
      [sel |-> "alloca", arg |-> "var", rep |-> ALLOCA_NUM],
      [sel |-> "getelementptr", arg |-> "element", rep |-> REPNUM],
      REPEAT_INST("trunc_to"), REPEAT_INST("zext_to"), REPEAT_INST("sext_to"),
      REPEAT_INST("fptrunc_to"), REPEAT_INST("fpext_to"), REPEAT_INST("fptoui_to"), REPEAT_INST("fptosi_to"),
      REPEAT_INST("uitofp_to"), REPEAT_INST("sitofp_to"), REPEAT_INST("ptrtoint_to"),
      REPEAT_INST("inttoptr_to"), REPEAT_INST("bitcast_to"),
      REPEAT_ADDRESS("icmp"), REPEAT_ADDRESS("fcmp"), REPEAT_INST("select")>>

\* sum has REPNUM elements.  The first loop fills it, so that nothing is read
\* that was not written, and no loop goes over its end.
ASSUME SumFits == \A s \in Sources : /\ s # <<>> => s[1].rep = REPNUM
                                     /\ \A l \in DOMAIN s : s[l].rep \in 0..REPNUM

VARIABLES
    stage,     \* "no", "setup", "measure", "done" or "exited"
    loop, i,   \* the loop that runs, and its passes so far
    sum,       \* the array of all measured times
    t_err,
    took,      \* how long each pass of the loop really took
    median     \* the number the loop before printed its time from

runVars == <<stage, loop, i, sum, t_err, took, median>>

TimingInit ==
    /\ PassInit
    /\ stage = "no" /\ loop = 1 /\ i = 0 /\ sum = <<>> /\ t_err = 0
    /\ took = <<>> /\ median = 0

Rewrite == PassNext /\ UNCHANGED runVars

Start ==
    /\ pass = "done" /\ stage = "no"
    /\ stage' = "setup"
    /\ UNCHANGED <<passVars, loop, i, sum, t_err, took, median>>

\* timing_res looks for the frequency of the processor in two places, and
\* timing_err measures nothing; sum is not initialised.
Setup ==
    /\ stage = "setup"
    /\ \E sys, proc \in BOOLEAN : stage' = IF sys \/ proc THEN "measure" ELSE "exited"
    /\ t_err' \in Errors
    /\ UNCHANGED <<passVars, loop, i, sum, took, median>>

InLoop == stage = "measure" /\ loop \in DOMAIN source

Measure ==
    /\ InLoop /\ i < source[loop].rep
    /\ \E d \in Durations :
          /\ sum' = IF i < Len(sum) THEN [sum EXCEPT ![i + 1] = (d - t_err) % Wrap]
                                    ELSE Append(sum, (d - t_err) % Wrap)
          /\ took' = Append(IF i = 0 THEN <<>> ELSE took, d)
    /\ i' = i + 1
    /\ UNCHANGED <<passVars, stage, loop, t_err, median>>

\* (a faulty variant: the smaller goes first)
int_lessUp(l, r) == IF r < l THEN 1 ELSE 0

\* Positive if l goes behind r; it is never negative.
int_less(l, r) == IF l < r THEN 1 ELSE 0

\* qsort merges two parts, and takes from the second only if it has to: before
\* an element come those it goes behind, and those left of it that do not go
\* behind it.
Before(s, k) == {n \in DOMAIN s : int_less(s[k], s[n]) > 0 \/ (n < k /\ int_less(s[n], s[k]) = 0)}
Sorted(s)    == [n \in DOMAIN s |-> s[CHOOSE k \in DOMAIN s : Cardinality(Before(s, k)) = n - 1]]

Report ==
    /\ InLoop /\ i = source[loop].rep
    /\ sum' = Sorted(sum)
    /\ median' = sum'[(REPNUM \div 4) * 3 + 1]
    /\ loop' = loop + 1 /\ i' = 0
    /\ UNCHANGED <<passVars, stage, t_err, took>>

Finish ==
    /\ stage = "measure" /\ loop \notin DOMAIN source
    /\ stage' = "done"
    /\ UNCHANGED <<passVars, loop, i, sum, t_err, took, median>>

TimingNext == Rewrite \/ Start \/ Setup \/ Measure \/ Report \/ Finish

TimingSpec == TimingInit /\ [][TimingNext]_<<passVars, runVars>>

-----------------------------------------------------------------------------
\* ComputeIns::getTime reads the times by their places in the file.
ReadOrder == <<"load", "store", "add", "fadd", "mul", "fmul", "sub", "fsub",
               "udiv", "sdiv", "fdiv", "urem", "srem", "frem">>
Named == [shl |-> "shl", lshr |-> "lshr", ashr |-> "ashr", and |-> "and", or |-> "or", xor |-> "xor",
          alloca |-> "alloca", trunc_to |-> "trunc", zext_to |-> "zext", sext_to |-> "sext",
          fptrunc_to |-> "fptrunc", fpext_to |-> "fpext", fptosi_to |-> "fptosi",
          uitofp_to |-> "uitofp", sitofp_to |-> "sitofp", ptrtoint_to |-> "ptrtoint",
          inttoptr_to |-> "inttoptr", bitcast_to |-> "bitcast", icmp |-> "icmp", fcmp |-> "fcmp",
          select |-> "select"]

\* The instructions between the two calls of timing.
Timed(c) == LET calls == {k \in DOMAIN c : c[k] = "timing"} IN SubSeq(c, Min(calls) + 1, Max(calls) - 1)
Number(op, s) == Cardinality({k \in DOMAIN s : s[k] = op})
Added(l, op)  == Number(op, Timed(code[l])) - Number(op, Timed(Body(source[l])))

\* A time is divided by INSNUM, and used as the time of the instruction its
\* template is named after, the first of them of the one that ComputeIns reads
\* there.  That many of these are between the two calls of timing, and no more
\* than three others, but for the conversion behind each comparison.
\* fptoui_to and getelementptr measure something else, the former fptosi, the
\* latter nothing.
TimedExactly ==
    pass = "done" /\ stage = "no" /\ source = main =>
        \A l \in DOMAIN source : source[l].sel \notin {"fptoui_to", "getelementptr"} =>
            LET kind   == IF l \in DOMAIN ReadOrder THEN ReadOrder[l] ELSE Named[source[l].sel]
                others == Range(Timed(code[l])) \ {kind, "inst_template"}
            IN  /\ Added(l, kind) = INSNUM
                /\ MapThenSumSet(LAMBDA op : Added(l, op), others)
                       <= 3 + (IF kind \in {"icmp", "fcmp"} THEN INSNUM ELSE 0)

\* libtiming.c:12: timing_err is "an error between two timing's, should sub this
\* value".  Subtracted from a smaller duration it gives a number that is far too
\* large.  As long as these are not more than about three quarters, what is
\* printed is a duration the loop measured, less the error, and of the
\* measurements that are neither too short nor the quarter that was fastest none
\* is faster.  The loop for alloca measures too seldom for that: most of its
\* numbers are those of the loop before.
QuartileOwn ==
    i = 0 /\ loop > 1 /\ source[loop - 1].rep = REPNUM =>
        LET Passes(S) == Cardinality({n \in DOMAIN took : took[n] \in S})
            short     == {d \in Durations : d < t_err}
            before    == (REPNUM \div 4) * 3
        IN  Passes(short) <= before =>
                \E d \in Durations \ short :
                    /\ Passes({d}) > 0 /\ median = d - t_err
                    /\ Passes(short \cup {e \in Durations : e > d}) <= before
                    /\ Passes({e \in Durations \ short : e < d}) < REPNUM - before
=============================================================================
