------------------------------ MODULE Observers ------------------------------
(***************************************************************************)
(* The hooks of a trainer that watch it: the internal profiler of the      *)
(* first steps (recis/hooks/initial_profiler_hook.py), the public and the  *)
(* automatic profiler (profiler_hook.py, auto_profiler_hook.py) and the    *)
(* report of throughput, FLOPS and MFU (monitor_report_hook.py), as        *)
(* Trainer.init_hooks and add_hook register them.                          *)
(*                                                                         *)
(* torch.profiler is external: an object follows its schedule and needs    *)
(* the one Kineto session while it warms up or records.  Values of time    *)
(* are left out; a report is the steps of its window and the estimate it   *)
(* was made with.                                                          *)
(***************************************************************************)
EXTENDS FlopsEstimate

CONSTANTS
  UserNames,    \* names for the profilers that the user adds
  Setups,       \* [trace, hint, peak, interval, on]: what the profiler may record in its active steps, the
                \* trainer's precision or "none", the scalar peak (-1: types are collected, 0: unknown),
                \* interval_step (0 for None) and RECIS_MONITOR_ON
  SkipSteps, WarmupSteps,
  AutoSchedule, UserSchedule,  \* [wait, warmup, active, repeat]
  MaxSteps                     \* bound on steps

VARIABLES
  setup,   \* one of Setups
  hooks    \* the hooks' state

observerVars == <<setup, hooks>>

FirstActiveStep == SkipSteps + WarmupSteps + 1
LastStep == SkipSteps + WarmupSteps + SampleSteps

\* Mutant: the public profiler is created without regard to the internal one.
CreateEarly == SkipSteps + WarmupSteps + 1

CreateStep == LastStep + 1

NoEstimate == [flops |-> 0, per |-> <<0, 0>>, reason |-> "pending", ideal |-> 0]

NoReport == [train |-> 0, eval |-> 0, flops |-> 0, mfu |-> 0]

\* schedule(): what a profiler does in step k.
Action(sch, k) ==
  LET cycle == sch.wait + sch.warmup + sch.active
      j == k - sch.skip
      m == j % cycle
  IN  IF k < sch.skip \/ j \div cycle >= sch.repeat \/ m < sch.wait THEN "none"
      ELSE IF m < sch.wait + sch.warmup THEN "warmup"
      ELSE IF m = cycle - 1 THEN "save" ELSE "record"
Active(a) == a # "none"

InitialSchedule == [skip |-> SkipSteps, wait |-> 0, warmup |-> WarmupSteps, active |-> SampleSteps, repeat |-> 1]

\* A public profiler: its own count of steps; k counts those of the profile object once it is there.
NewProfiler(sch, name) == [name |-> name, sch |-> sch, count |-> 0, made |-> FALSE, k |-> 0, saved |-> 0, dropped |-> FALSE]

ObserverInit ==
  /\ setup \in Setups
  /\ \E auto \in BOOLEAN :
       hooks = [pc |-> "between", steps |-> 0, kind |-> "train",
                init |-> [open |-> setup.on, count |-> 0, sample |-> "none"], estimate |-> NoEstimate,
                public |-> IF auto THEN <<NewProfiler(AutoSchedule, "auto")>> ELSE <<>>, users |-> 0,
                kineto |-> "none", window |-> [train |-> 0, eval |-> 0], reportable |-> FALSE,
                report |-> NoReport]

-----------------------------------------------------------------------------
(* prof.step() of a profile object.                                        *)

CanStep(h, name, sch, k) == Active(Action(sch, k + 1)) => h.kineto \in {"none", name}
Session(h, name, sch, k) ==
  IF Active(Action(sch, k + 1)) THEN name ELSE IF h.kineto = name THEN "none" ELSE h.kineto
ReleaseSession(h, name) == IF h.kineto = name THEN [h EXCEPT !.kineto = "none"] ELSE h

-----------------------------------------------------------------------------
(* _InitialProfilerHook.                                                   *)

CloseProfiler(h) == [ReleaseSession(h, "init") EXCEPT !.init.open = FALSE]
Invalidate(h, reason) == [h EXCEPT !.estimate = [NoEstimate EXCEPT !.reason = reason]]
CloseIncompleteProfiler(h) ==
  IF h.init.open THEN Invalidate(CloseProfiler(h), "insufficient_profile_steps") ELSE h

Mixed(h) == h.init.sample \notin {"none", h.kind}

InitialAfterStep(h) ==
  LET n == h.init.count + 1
      sampled == IF n >= FirstActiveStep /\ h.init.sample = "none" THEN [h EXCEPT !.init.sample = h.kind] ELSE h
      stepped == [sampled EXCEPT !.init.count = n, !.kineto = Session(h, "init", InitialSchedule, h.init.count)]
      published == [stepped EXCEPT !.estimate = PublishEstimate(setup.trace, stepped.init.sample, setup.hint, setup.peak)]
  IN  IF ~h.init.open THEN h
      ELSE IF n >= FirstActiveStep /\ Mixed(h) THEN CloseProfiler(Invalidate([h EXCEPT !.init.count = n], "mixed_startup_step_types"))
      ELSE IF n = LastStep THEN CloseProfiler(published)
      ELSE stepped

-----------------------------------------------------------------------------
(* ProfilerHook.                                                           *)

\* before_step(): the object is made in the hook's own step CreateStep.
PublicBeforeStep(p) == IF p.count + 1 = CreateStep THEN [p EXCEPT !.made = TRUE] ELSE p

\* after_step(): a step that fails drops the timeline.
PublicAfterStep(h, i) ==
  LET p == [h.public[i] EXCEPT !.count = @ + 1]
      saves == IF Action(p.sch, p.k) = "save" THEN 1 ELSE 0
  IN  IF p.count < CreateStep \/ ~p.made THEN [h EXCEPT !.public[i] = p]
      ELSE IF CanStep(h, p.name, p.sch, p.k)
           THEN [h EXCEPT !.public[i] = [p EXCEPT !.k = @ + 1, !.saved = @ + saves], !.kineto = Session(h, p.name, p.sch, p.k)]
      ELSE [h EXCEPT !.public[i] = [p EXCEPT !.made = FALSE, !.dropped = TRUE]]

PublicAfterSteps(h) == FoldLeft(PublicAfterStep, h, [i \in 1..Len(h.public) |-> i])

-----------------------------------------------------------------------------
(* MetricReportHook.                                                       *)

WindowSteps(h) == h.window.train + h.window.eval

\* _report_metrics(): the steps of the window, and the estimate for one step if there is one.
ReportMetrics(h) == [train |-> h.window.train, eval |-> h.window.eval, flops |-> h.estimate.flops, mfu |-> h.estimate.ideal]
Flush(h) ==
  [h EXCEPT !.window = [train |-> 0, eval |-> 0], !.reportable = FALSE,
            !.report = IF setup.interval > 0 /\ WindowSteps(h) > 0 THEN ReportMetrics(h) ELSE @]

ReportBeforeStep(h) ==
  [h EXCEPT !.reportable = @ \/ (setup.interval > 0 /\ WindowSteps(h) + 1 >= setup.interval)]
ReportAfterStep(h) ==
  LET counted == [h EXCEPT !.window[h.kind] = @ + 1]
  IN  IF setup.interval > 0 /\ WindowSteps(counted) >= setup.interval THEN Flush(counted) ELSE counted

-----------------------------------------------------------------------------
(* The trainer.                                                            *)

\* add_hook(): a profiler of the user takes the place of the automatic one.
AddHook ==
  /\ hooks.pc = "between"
  /\ hooks.users < Len(UserNames)
  /\ hooks' = [hooks EXCEPT !.users = @ + 1,
                 !.public = Append(SelectSeq(@, LAMBDA p : p.name # "auto"), NewProfiler(UserSchedule, UserNames[hooks.users + 1]))]
  /\ UNCHANGED setup

HooksBeforeStep ==
  /\ hooks.pc = "between"
  /\ hooks.steps < MaxSteps
  /\ \E kind \in {"train", "eval"} :
       hooks' = [ReportBeforeStep([hooks EXCEPT !.kind = kind]) EXCEPT
                   !.pc = "step", !.public = [i \in DOMAIN @ |-> PublicBeforeStep(@[i])]]
  /\ UNCHANGED setup

\* The hooks in the order of registration: the internal profiler, the automatic one, the report, the user's.
HooksAfterStep ==
  /\ hooks.pc = "step"
  /\ LET h == [hooks EXCEPT !.pc = "between", !.steps = @ + 1]
     IN  hooks' = ReportAfterStep(PublicAfterSteps(InitialAfterStep(h)))
  /\ UNCHANGED setup

\* after_train(), after_eval() and out_off_data() between steps.
AfterTrain ==
  /\ hooks.pc = "between" /\ hooks.steps > 0
  /\ hooks' = CloseIncompleteProfiler(hooks)
  /\ UNCHANGED setup

HooksEnd ==
  /\ hooks.pc = "between"
  /\ hooks' = [Flush(CloseIncompleteProfiler(hooks)) EXCEPT !.pc = "end"]
  /\ UNCHANGED setup

ObserverNext == AddHook \/ HooksBeforeStep \/ HooksAfterStep \/ AfterTrain \/ HooksEnd
-----------------------------------------------------------------------------
Orphan == hooks.kineto = "auto" /\ \A i \in DOMAIN hooks.public : hooks.public[i].name # "auto"

\* The profilers do not get in each other's way: none has the session while the internal one is
\* open, a timeline is lost only to another public profiler, and after its last step, or at the
\* end, the internal one is closed and has left an estimate or the reason for none.
StartupSettled ==
  /\ hooks.init.open => hooks.kineto \in {"none", "init"}
  /\ (\E i \in DOMAIN hooks.public : hooks.public[i].dropped) => hooks.users > 1 \/ Orphan
  /\ setup.on /\ (hooks.steps >= LastStep \/ hooks.pc = "end") => ~hooks.init.open /\ hooks.estimate.reason # "pending"

\* The MFU that is published from input types is the lower bound that the code promises: never
\* more than the ideal time of the events that are no work of the compiler, by their real types;
\* it is exact when the event tree knows all of them, and, where there is any work, it is there when
\* the tree knows it or leaves some of it out that the exported trace knows.
MfuIsLowerBound ==
  LET e == hooks.estimate
      t == setup.trace
      work == SelectSeq(t.events, LAMBDA x : "compiler" \notin Range(x.parents))
      real == Sum(LAMBDA x : x.flops * (PeakUnit \div Peak[x.dtype]), work)
      Knows(nodes) == \A i \in DOMAIN work :
                        \E j \in DOMAIN nodes : nodes[j].id = work[i].id /\ work[i].dtype \in Range(nodes[j].types)
      LeavesOut(nodes) == \E i \in DOMAIN work : work[i].flops > 0 /\ \A j \in DOMAIN nodes : nodes[j].id # work[i].id
  IN  /\ setup.peak = -1 /\ setup.hint = "none"
      /\ e.reason \notin {"pending", "insufficient_profile_steps", "mixed_startup_step_types"}
      => /\ e.ideal <= real
         /\ t.api /\ Knows(t.tree) /\ Total(t.events) = t.raw => e.ideal = real
         /\ (t.api /\ Knows(t.tree)) \/ (~t.broken /\ Knows(t.chrome) /\ (t.api => LeavesOut(t.tree))) =>
              e.reason = "valid" \/ Total(t.events) # t.raw \/ Total(work) = 0
=============================================================================
