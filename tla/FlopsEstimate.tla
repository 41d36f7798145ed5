---------------------------- MODULE FlopsEstimate ----------------------------
(***************************************************************************)
(* The startup estimate of FLOPS and MFU, recis/monitor/flops_estimator.py *)
(* and _InitialProfilerHook._publish_estimate.  What the profiler recorded *)
(* is a trace: events with their FLOPS and the names of their ancestors,   *)
(* and the metadata of input types in the event tree and in the Chrome     *)
(* trace, joined to events by id.                                          *)
(*                                                                         *)
(* FLOPS are whole numbers of a unit far above the tolerances of the code, *)
(* so sums are compared exactly; a duration is a number of 1/PeakUnit      *)
(* seconds.  Examples for the log are left out.                            *)
(***************************************************************************)
EXTENDS Integers, Sequences, FiniteSets, FiniteSetsExt, SequencesExt, TLC

CONSTANTS
  Peak,        \* Peak[d]: peak of the device for an input dtype, 0 when it is not in the catalog
  PeakUnit,    \* a common multiple of the peaks
  MinCoverage, \* min_peak_coverage in percent
  EvalRatio,   \* eval_flops_ratio as <<numerator, denominator>>
  SampleSteps  \* INITIAL_PROFILE_ACTIVE_STEPS

ASSUME PeaksDivide == \A d \in DOMAIN Peak : Peak[d] > 0 => PeakUnit % Peak[d] = 0

Sum(f(_), s) == FoldLeft(LAMBDA acc, x : acc + f(x), 0, s)
Flops(e) == e.flops
Total(events) == Sum(Flops, events)

-----------------------------------------------------------------------------
(* Which events are work of the compiler.                                  *)

\* _classify_event_ancestry(): parents from the inside out, "loop" where the chain runs into itself.
ParentIssue(parents) ==
  IF parents = <<>> \/ "loop" \in Range(parents) THEN TRUE ELSE ~("step" \in Range(parents))
CompilerOnly(e) == "compiler" \in Range(e.parents)

Ambiguous(e) == ~CompilerOnly(e) /\ "related" \in Range(e.parents)
ParentUnknown(e) == ~CompilerOnly(e) /\ ~Ambiguous(e) /\ ParentIssue(e.parents)

\* filter_compiler_only_flops(): nothing is subtracted when the two totals of the profiler disagree.
FilterCompilerOnly(trace) ==
  IF Total(trace.events) # trace.raw
  THEN [total |-> trace.raw, excluded |-> {}, kept |-> 0, unknown |-> 0]
  ELSE LET out == SelectSeq(trace.events, CompilerOnly)
       IN  [total |-> trace.raw - Total(out), excluded |-> {i \in DOMAIN trace.events : CompilerOnly(trace.events[i])},
            kept |-> Total(SelectSeq(trace.events, Ambiguous)), unknown |-> Total(SelectSeq(trace.events, ParentUnknown))]

-----------------------------------------------------------------------------
(* Input types.                                                            *)

NonTensor == {"scalar", "none"}
TraceType(t) == IF t \in {"fp32", "bf16", "fp64"} THEN t ELSE "unknown"

\* classify_input_dtype(): one type for all tensors, or unknown.
ClassifyInputDtype(types) ==
  LET ds == {TraceType(t) : t \in Range(types) \ NonTensor}
  IN  IF Cardinality(ds) = 1 THEN CHOOSE d \in ds : TRUE ELSE "unknown"

\* _merge_event_dtype(): two types for one id are unknown.
MergeEventDtype(map, id, dtype) ==
  IF id \notin DOMAIN map \/ map[id] \in {dtype, "unknown"} THEN (id :> dtype) @@ map
  ELSE IF dtype = "unknown" THEN map
  ELSE (id :> "unknown") @@ map

InputDtypes(nodes) ==
  FoldLeft(LAMBDA map, node : MergeEventDtype(map, node.id, ClassifyInputDtype(node.types)), << >>, nodes)

\* The metadata of the event tree (nodes without inputs are not there) and of the exported trace.
EventTreeInputDtypes(trace) == InputDtypes(trace.tree)
ChromeTraceInputDtypes(trace) == InputDtypes(trace.chrome)

\* An FP32 product that may run as TF32 is only remarked on.
MayUseTf32(e, dtype) == e.matmul /\ dtype = "fp32"

\* _join_flops_with_input_dtypes()
DtypeOf(e, map) == IF e.id \in DOMAIN map THEN map[e.id] ELSE "unknown"

Kept(trace, excluded) ==
  LET ids == SetToSortSeq({i \in DOMAIN trace.events : i \notin excluded /\ trace.events[i].flops # 0}, LAMBDA i, j : i < j)
  IN  [i \in DOMAIN ids |-> trace.events[ids[i]]]
JoinEvents(events, map) ==
  LET Of(d) == SelectSeq(events, LAMBDA e : DtypeOf(e, map) = d)
  IN  [by |-> [d \in DOMAIN Peak |-> Total(Of(d))],
       unmatched |-> Total(SelectSeq(events, LAMBDA e : e.id \notin DOMAIN map)),
       tf32 |-> \E i \in DOMAIN events : MayUseTf32(events[i], DtypeOf(events[i], map))]

\* Mutant: events of the compiler are joined too.
JoinAll(trace, excluded, map) == JoinEvents(Kept(trace, {}), map)

JoinFlops(trace, excluded, map) == JoinEvents(Kept(trace, excluded), map)

TotalOf(by) == MapThenSumSet(LAMBDA d : by[d], DOMAIN by)
Known(by) == TotalOf(by) - by["unknown"]

\* coverage < min, both as a share of the total; nothing is covered of an empty total.
TooLittle(part, total) == total <= 0 \/ 100 * part < MinCoverage * total

\* _impute_unmatched_flops(): only what could not be joined takes the trainer's precision.
ImputeUnmatched(join, hint) ==
  IF hint = "none" \/ join.unmatched = 0 THEN join.by
  ELSE [join.by EXCEPT !["unknown"] = @ - join.unmatched, ![hint] = @ + join.unmatched]

ChromeBetter(chrome, tree) == Known(chrome.by) > Known(tree.by)

\* profile_flops_by_input_dtype(): the tree, or the Chrome trace without one; the Chrome trace also when
\* too little could be joined and it does better.
ProfileFlops(trace, excluded, hint) ==
  LET tree == JoinFlops(trace, excluded, EventTreeInputDtypes(trace))
      chrome == JoinFlops(trace, excluded, ChromeTraceInputDtypes(trace))
      second == trace.api /\ TooLittle(Known(tree.by), TotalOf(tree.by)) /\ tree.unmatched > 0 /\ ~trace.broken
      best == IF ~trace.api \/ (second /\ ChromeBetter(chrome, tree)) THEN chrome ELSE tree
  IN  IF ~trace.api /\ trace.broken
      THEN [ok |-> FALSE, by |-> [d \in DOMAIN Peak |-> 0], imputed |-> 0, tf32 |-> FALSE]
      ELSE [ok |-> TRUE, by |-> ImputeUnmatched(best, hint),
            imputed |-> IF hint = "none" THEN 0 ELSE best.unmatched, tf32 |-> best.tf32]

-----------------------------------------------------------------------------
(* The estimate: FLOPS of the window, the factor that makes them those of  *)
(* a training step, ideal time (0: no MFU) and the reason for none.        *)

GetInputDtypePeak(d) == IF d \in DOMAIN Peak THEN Peak[d] ELSE 0
Ideal(by) == MapThenSumSet(LAMBDA d : IF GetInputDtypePeak(d) = 0 THEN 0 ELSE by[d] * (PeakUnit \div Peak[d]), DOMAIN by)
PeakCovered(by) == MapThenSumSet(LAMBDA d : IF GetInputDtypePeak(d) = 0 THEN 0 ELSE by[d], DOMAIN by)

\* train-equivalent of x FLOPS in the window: x * num / den
PerStep(sample) == IF sample = "train" THEN <<1, SampleSteps>> ELSE <<EvalRatio[2], SampleSteps * EvalRatio[1]>>

\* build_startup_flops_estimate() with one peak for all.
ScalarEstimate(total, sample, peak) ==
  LET reason == IF total <= 0 THEN "no_countable_flops" ELSE IF peak <= 0 THEN "unknown_peak" ELSE "valid"
  IN  [flops |-> total, per |-> PerStep(sample), reason |-> reason,
       ideal |-> IF reason = "valid" THEN total * (PeakUnit \div peak) ELSE 0]

\* build_startup_flops_estimate() from the types; a sum that is not the total is not trusted.
MixedEstimate(total, sample, by) ==
  LET mismatch == TotalOf(by) # total
      trusted == IF mismatch THEN [d \in DOMAIN by |-> IF d = "unknown" THEN total ELSE 0] ELSE by
      reason == IF total <= 0 THEN "no_countable_flops"
                ELSE IF mismatch THEN "trace_join_mismatch"
                ELSE IF TooLittle(PeakCovered(trusted), total)
                     THEN IF TooLittle(Known(trusted), total) THEN "unknown_input_dtype" ELSE "missing_dtype_peak"
                ELSE "valid"
  IN  [flops |-> total, per |-> PerStep(sample), reason |-> reason, ideal |-> IF reason = "valid" THEN Ideal(trusted) ELSE 0]

\* _publish_estimate(): without a scalar peak (-1) input types are collected; a classification that fails leaves all unknown.
PublishEstimate(trace, sample, hint, peak) ==
  LET filter == FilterCompilerOnly(trace)
      profile == ProfileFlops(trace, filter.excluded, hint)
      by == IF profile.ok THEN profile.by ELSE [d \in DOMAIN Peak |-> IF d = "unknown" THEN filter.total ELSE 0]
  IN  IF peak >= 0 THEN ScalarEstimate(filter.total, sample, peak) ELSE MixedEstimate(filter.total, sample, by)
=============================================================================
