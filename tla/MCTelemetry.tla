----------------------------- MODULE MCTelemetry -----------------------------
(***************************************************************************)
(* What watches a job: the writers of traces, the collector of metrics, the *)
(* profilers and reports.  They share no state, so a behaviour is one of    *)
(* them and the others stay as they start.                                  *)
(***************************************************************************)
EXTENDS TraceWriter, Collector, Observers

CONSTANT Parts  \* which of them a run starts

VARIABLE part
vars == <<part, traceVars, collectorVars, observerVars>>

MCTeams == {{"w1"}, {"w1", "w2"}}

\* Three collectors under two new versions; a log that is rotated, with a line that does not
\* parse, beside a rank that posts more than the queue of bodies takes.
Job(starts, ticks, log, sock) == [pids |-> 1..starts, ticks |-> ticks, snaps |-> [r \in {0, 1} |-> IF r = 0 THEN log ELSE sock]]
MCJobs == {
  Job(3, 3, <<>>, <<>>),
  Job(1, 2, <<<<"event", "event">>, <<"event">>>>, <<>>),
  Job(2, 2, <<<<"event">>>>, <<>>),
  Job(1, 2, <<<<"bad">>, <<"event">>>>, <<<<"event">>>>),
  Job(2, 2, <<>>, <<<<"event", "event">>, <<"event", "bad", "event">>, <<"event">>>>) }
IdleJob == Job(3, 3, <<>>, <<>>)
MCNoJob == {IdleJob}

MCPeak == [d \in {"bf16", "fp32", "fp64", "unknown"} |-> CASE d = "bf16" -> 4 [] d = "fp32" -> 1 [] OTHER -> 0]

\* Events of a trace: a product and a sum of the step, work of the compiler, and some whose
\* place in the tree is not clear.
Event(id, flops, dtype, parents) ==
  [id |-> id, flops |-> flops, dtype |-> dtype, parents |-> parents, matmul |-> dtype = "fp32"]
Node(id, types) == [id |-> id, types |-> types]
Plain == <<Event(1, 600, "bf16", <<"step">>), Event(2, 200, "fp32", <<"step">>)>>
Compiled == Plain \o <<Event(3, 400, "bf16", <<"compiler", "step">>), Event(4, 5, "fp32", <<"related", "step">>),
                       Event(5, 3, "fp32", <<"step", "loop">>), Event(6, 0, "bf16", <<>>)>>
NodesOf(events) == [i \in DOMAIN events |-> Node(events[i].id, <<events[i].dtype, "scalar">>)]
\* One id with two types, the other with inputs that are no tensors, or missing.
Vague == <<Node(1, <<"bf16">>), Node(1, <<"fp32">>), Node(2, <<"none">>)>>
TwoTypes == SubSeq(Vague, 1, 2)
First(events) == SubSeq(NodesOf(events), 1, 1)
Trace(events, raw, tree, chrome, api, broken) ==
  [events |-> events, raw |-> raw, tree |-> tree, chrome |-> chrome, api |-> api, broken |-> broken]

TracesOf(events) ==
  {Trace(events, Total(events), tree, chrome, TRUE, FALSE) :
     tree \in {NodesOf(events), First(events), Vague, TwoTypes}, chrome \in {NodesOf(events), First(events)}}
  \cup {Trace(events, Total(events), <<>>, NodesOf(events), FALSE, broken) : broken \in BOOLEAN}
  \cup {Trace(events, Total(events), First(events), NodesOf(events), TRUE, TRUE)}

\* Every trace with types collected; a few with the trainer's precision or one peak for all.
Setup(trace, hint, peak, interval, on) ==
  [trace |-> trace, hint |-> hint, peak |-> peak, interval |-> interval, on |-> on]
MCSetups ==
  {Setup(t, "none", -1, 2, TRUE) : t \in TracesOf(Plain) \cup TracesOf(Compiled)}
  \cup {Setup(Trace(<<>>, 0, <<>>, <<>>, TRUE, FALSE), "none", -1, 3, TRUE),
        Setup(Trace(Plain, Total(Plain) + 1, NodesOf(Plain), <<>>, TRUE, FALSE), "none", -1, 2, TRUE),
        Setup(Trace(Plain, Total(Plain), NodesOf(Plain), <<>>, TRUE, FALSE), "none", -1, 0, FALSE)}
  \cup {Setup(Trace(Plain, Total(Plain), First(Plain), First(Plain), TRUE, FALSE), x[1], x[2], 2, TRUE) :
          x \in {<<"bf16", -1>>, <<"fp64", -1>>, <<"none", 0>>, <<"none", 2>>}}
MCNoSetup == {Setup(Trace(<<>>, 0, <<>>, <<>>, TRUE, FALSE), "none", -1, 3, TRUE)}

MCUserNames == <<"u1", "u2">>
MCEvalRatio == <<1, 3>>
MCAuto == [skip |-> 0, wait |-> 0, warmup |-> 1, active |-> 1, repeat |-> 1]
MCUser == [skip |-> 0, wait |-> 0, warmup |-> 0, active |-> 2, repeat |-> 1]

Init ==
  /\ part \in Parts
  /\ TraceInit /\ (part # "trace" => version = 1 /\ DOMAIN writer = {"w1"})
  /\ CollectorInit /\ (part # "collector" => job = IdleJob)
  /\ ObserverInit /\ (part # "observers" => setup.trace.events = <<>> /\ hooks.public = <<>>)

Next ==
  /\ \/ part = "trace" /\ TraceNext /\ UNCHANGED <<collectorVars, observerVars>>
     \/ part = "collector" /\ CollectorNext /\ UNCHANGED <<traceVars, observerVars>>
     \/ part = "observers" /\ ObserverNext /\ UNCHANGED <<traceVars, collectorVars>>
  /\ UNCHANGED part

Spec ==
  /\ Init /\ [][Next]_vars
  /\ WF_vars(part = "trace" /\ MainStep /\ UNCHANGED <<part, collectorVars, observerVars>>)
  /\ \A w \in {"w1", "w2"} :
       WF_vars(part = "trace" /\ w \in Writers /\ OwnStep(w) /\ UNCHANGED <<part, collectorVars, observerVars>>)
=============================================================================
