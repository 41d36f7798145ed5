------------------------------ MODULE Collector ------------------------------
(***************************************************************************)
(* The metric collector of a machine, recis/monitor/collector.py.  Every   *)
(* trainer starts one (Factory._launch_collector_daemon); all but one of   *)
(* them exit.  The one that stays tails the log of each rank, listens on a *)
(* socket, and submits the events every two seconds with the hardware's.   *)
(*                                                                         *)
(* The writer of the metrics (csrc/monitor) is modelled as it is used: a   *)
(* snapshot is a header with the tags of its group, then its events, and a *)
(* line may become visible in two halves.  The age of an event is a free   *)
(* choice.  A start gets any unused pid: pids wrap around, so a later one   *)
(* may be smaller; no pid is given twice.                                  *)
(***************************************************************************)
EXTENDS Integers, Sequences, FiniteSets, FiniteSetsExt, SequencesExt

CONSTANTS
  Pids,         \* of the collectors that may be started
  LogRanks,     \* ranks that write a log (RECIS_MONITOR_WRITER=2)
  SockRanks,    \* ranks that write to the socket (=1)
  Jobs,         \* bounds of what happens: [pids, ticks, snaps], the pids that are free for collectors,
                \* and snaps[r] the snapshots of rank r, each a sequence of kinds of line after the header
  MaxRotations, \* bound on rotations of a log
  BodyCap       \* body_queue's maxsize, 1024

ASSUME CollectorAssumption ==
  /\ Pids \subseteq Nat
  /\ LogRanks \cap SockRanks = {}
  /\ \A j \in Jobs : /\ j.pids \subseteq Pids
                     /\ \A r \in LogRanks \cup SockRanks : j.snaps[r] \in Seq(Seq({"event", "bad"}))

VARIABLES
  job,
  clock, release,  \* the time, and the time of collector.py's file
  proc,            \* collector processes
  logs,            \* logs[r]: sequence of files, each [text, shown]; the last one is the current
  written,         \* written[r]: snapshots written
  reported         \* what reached KMonitor, in order: [by, rank, snap, no, tags]

collectorVars == <<job, clock, release, proc, logs, written, reported>>

NoTags == 0
NewTail == [file |-> 0, pos |-> 0, part |-> <<>>, tags |-> NoTags, eof |-> TRUE, ok |-> TRUE]
NewProc == [pc |-> "none", start |-> 0, version |-> 0, todo |-> {}, tails |-> [r \in LogRanks |-> NewTail],
            bodies |-> <<>>, events |-> <<>>, sampler |-> "none", disp |-> "sleep"]

CollectorInit ==
  /\ job \in Jobs
  /\ clock = 1 /\ release = 0
  /\ proc = [p \in Pids |-> NewProc]
  /\ logs = [r \in LogRanks |-> <<>>]
  /\ written = [r \in LogRanks \cup SockRanks |-> 0]
  /\ reported = <<>>

Tick == clock < job.ticks /\ clock' = clock + 1 /\ UNCHANGED <<job, release, proc, logs, written, reported>>

\* A new version of RecIS is installed on the machine.
Upgrade == release < clock /\ release' = clock /\ UNCHANGED <<job, clock, proc, logs, written, reported>>

-----------------------------------------------------------------------------
(* Which process stays.                                                    *)

Running == {p \in Pids : proc[p].pc = "run"}
Unused == {p \in job.pids : proc[p].pc = "none"}

\* A trainer's GetFactory() starts a collector, which reads its own times.
LaunchCollectorDaemon ==
  /\ \E p \in Unused :
       proc' = [proc EXCEPT ![p] = [@ EXCEPT !.pc = "launch", !.start = clock, !.version = release]]
  /\ UNCHANGED <<job, clock, release, logs, written, reported>>

\* After more than half a second it looks at the processes of the machine.
BeginScan(p) ==
  /\ proc[p].pc = "launch"
  /\ clock > proc[p].start
  /\ proc' = [proc EXCEPT ![p].pc = "scan", ![p].todo = {q \in Pids : proc[q].pc \notin {"none", "gone"}}]
  /\ UNCHANGED <<job, clock, release, logs, written, reported>>

Passes(p, q) ==
  \/ q = p
  \/ proc[q].pc = "gone"
  \/ proc[p].start < proc[q].start
Replaces(p, q) == ~Passes(p, q) /\ proc[p].version > proc[q].start

\* Mutant: the pid is not looked at when two collectors started at the same time.
TieStays(p, q) == ~Passes(p, q) /\ ~Replaces(p, q) /\ proc[p].start > proc[q].start

GivesWay(p, q) == ~Passes(p, q) /\ ~Replaces(p, q) /\ ~(p < q)

\* FirstOrDie(), one process of the list: an older version is ended, an earlier process of this one wins.
FirstOrDie(p) ==
  /\ proc[p].pc = "scan"
  /\ proc[p].todo # {}
  /\ LET q == Min(proc[p].todo)
         next == [proc EXCEPT ![p].todo = @ \ {q}]
     IN  proc' = IF Replaces(p, q) THEN [next EXCEPT ![q] = [NewProc EXCEPT !.pc = "gone"]]
                 ELSE IF GivesWay(p, q) THEN [next EXCEPT ![p] = [NewProc EXCEPT !.pc = "gone"]]
                 ELSE next
  /\ UNCHANGED <<job, clock, release, logs, written, reported>>

\* The dispatcher, the parsers and the socket are started.
StartParser(p) ==
  /\ proc[p].pc = "scan"
  /\ proc[p].todo = {}
  /\ proc' = [proc EXCEPT ![p].pc = "run"]
  /\ UNCHANGED <<job, clock, release, logs, written, reported>>

-----------------------------------------------------------------------------
(* The metrics that are written.                                           *)

\* The lines of snapshot k: its header, then its events; "bad" is one whose tags do not parse.
Lines(r, k) ==
  <<[rank |-> r, snap |-> k, no |-> 0, kind |-> "group"]>>
  \o [i \in 1..Len(job.snaps[r][k]) |-> [rank |-> r, snap |-> k, no |-> i, kind |-> job.snaps[r][k][i]]]
Halves(lines) == [i \in 1..(2 * Len(lines)) |-> [line |-> lines[(i + 1) \div 2], half |-> 2 - (i % 2)]]

More(r) == written[r] < Len(job.snaps[r])

\* A snapshot goes to the current log, or the first to a new one.
WriteLog(r) ==
  /\ More(r)
  /\ LET text == Halves(Lines(r, written[r] + 1))
         all == logs[r]
         Whole(f) == [f EXCEPT !.shown = Len(f.text)]
     IN  \/ /\ all # <<>>
            /\ LET f == Whole(all[Len(all)])
               IN  logs' = [logs EXCEPT ![r][Len(all)] = [f EXCEPT !.text = @ \o text]]
         \/ /\ Len(all) <= MaxRotations
            /\ logs' = [logs EXCEPT ![r] = Append([i \in 1..Len(all) |-> Whole(all[i])], [text |-> text, shown |-> 0])]
  /\ written' = [written EXCEPT ![r] = @ + 1]
  /\ UNCHANGED <<job, clock, release, proc, reported>>

\* Some of what was written becomes visible.
Show(r) ==
  /\ logs[r] # <<>>
  /\ LET n == Len(logs[r])
         f == logs[r][n]
     IN  \E s \in (f.shown + 1)..Len(f.text) : logs' = [logs EXCEPT ![r][n].shown = s]
  /\ UNCHANGED <<job, clock, release, proc, written, reported>>

\* A POST: lost without a listener, dropped when the queue is full.
DoPost(r) ==
  /\ More(r)
  /\ LET body == Lines(r, written[r] + 1)
     IN  \/ Running = {} /\ UNCHANGED proc
         \/ \E p \in Running :
              proc' = [proc EXCEPT ![p].bodies = IF Len(@) < BodyCap THEN Append(@, body) ELSE @]
  /\ written' = [written EXCEPT ![r] = @ + 1]
  /\ UNCHANGED <<job, clock, release, logs, reported>>

-----------------------------------------------------------------------------
(* The parsers.                                                            *)

ParseLineGroup(line) == line.snap
\* The event of a line, from what was read of it: one that is not whole has the name of no metric.
ParseLineEvent(pieces, tags) ==
  LET line == pieces[1].line
      whole == Len(pieces) = 2 /\ pieces[2].line = line
  IN  [rank |-> line.rank, snap |-> IF whole THEN line.snap ELSE 0, no |-> line.no, tags |-> tags]

\* readline(): to the end of the line, or to what is visible of it.
ReadLine(f, pos) ==
  IF pos + 2 <= f.shown /\ f.text[pos + 1].half = 1 THEN <<f.text[pos + 1], f.text[pos + 2]>> ELSE <<f.text[pos + 1]>>

\* A line in the hands of the log parser: its tags, the event it puts (unless it is ten minutes old), or its end.
Handle(p, r, tail, pieces) ==
  LET line == pieces[1].line
      Tail2(t) == [proc EXCEPT ![p].tails[r] = t]
  IN  \/ line.kind = "group" /\ proc' = Tail2([tail EXCEPT !.tags = ParseLineGroup(line)])
      \/ line.kind = "bad" /\ proc' = Tail2([tail EXCEPT !.ok = FALSE])
      \/ line.kind = "event"
         /\ \/ proc' = [Tail2(tail) EXCEPT ![p].events = Append(@, ParseLineEvent(pieces, tail.tags))]
            \/ proc' = Tail2(tail)

\* Mutant: a line that is not finished is taken as it is.
ReadAsItIs(p, r) ==
  LET tail == proc[p].tails[r]
  IN  /\ p \in Running /\ tail.ok /\ ~tail.eof
      /\ tail.pos < logs[r][tail.file].shown
      /\ LET pieces == ReadLine(logs[r][tail.file], tail.pos)
         IN  Handle(p, r, [tail EXCEPT !.pos = @ + Len(pieces)], pieces)
      /\ UNCHANGED <<job, clock, release, logs, written, reported>>

\* EventLogParser, one readline(): the start of a line is kept until its end is there.
EventLogParser(p, r) ==
  LET tail == proc[p].tails[r]
  IN  /\ p \in Running /\ tail.ok /\ ~tail.eof
      /\ tail.pos < logs[r][tail.file].shown
      /\ LET pieces == ReadLine(logs[r][tail.file], tail.pos)
             next == [tail EXCEPT !.pos = @ + Len(pieces), !.part = <<>>]
         IN  IF pieces[Len(pieces)].half = 1
             THEN proc' = [proc EXCEPT ![p].tails[r] = [next EXCEPT !.part = tail.part \o pieces]]
             ELSE Handle(p, r, next, tail.part \o pieces)
      /\ UNCHANGED <<job, clock, release, logs, written, reported>>

\* The end of the file is met.
ReadEof(p, r) ==
  LET tail == proc[p].tails[r]
  IN  /\ p \in Running /\ tail.ok /\ ~tail.eof
      /\ tail.pos = logs[r][tail.file].shown
      /\ proc' = [proc EXCEPT ![p].tails[r].eof = TRUE]
      /\ UNCHANGED <<job, clock, release, logs, written, reported>>

\* Some time later: does the name belong to another file by now?  (At first: is there a file?)
OpenFile(p, r) ==
  LET tail == proc[p].tails[r]
      n == Len(logs[r])
      opened == IF n > tail.file THEN [tail EXCEPT !.file = n, !.pos = 0, !.part = <<>>] ELSE tail
  IN  /\ p \in Running /\ tail.ok /\ tail.eof
      /\ n > 0
      /\ proc' = [proc EXCEPT ![p].tails[r] = [opened EXCEPT !.eof = FALSE]]
      /\ UNCHANGED <<job, clock, release, logs, written, reported>>

\* What is left of a sequence without some of its places.
Without(events, old) ==
  LET kept == DOMAIN events \ old
      place(n) == CHOOSE i \in kept : Cardinality({j \in kept : j <= i}) = n
  IN  [n \in 1..Cardinality(kept) |-> events[place(n)]]

\* The events of a body: a line that does not parse ends it; each event may be too old.
BodyEvents(body) ==
  LET bad == {i \in DOMAIN body : body[i].kind = "bad"}
      read == IF bad = {} THEN body ELSE SubSeq(body, 1, Min(bad) - 1)
      Tags(i) == IF \E j \in 1..i : read[j].kind = "group" THEN read[1].snap ELSE NoTags
      all == [i \in DOMAIN read |-> [rank |-> read[i].rank, snap |-> read[i].snap, no |-> read[i].no, tags |-> Tags(i)]]
  IN  Without(all, {i \in DOMAIN all : all[i].no = 0})

EventSockParser(p) ==
  /\ p \in Running
  /\ proc[p].bodies # <<>>
  /\ LET events == BodyEvents(Head(proc[p].bodies))
     IN  \E old \in SUBSET DOMAIN events :
           proc' = [proc EXCEPT ![p].bodies = Tail(@), ![p].events = @ \o Without(events, old)]
  /\ UNCHANGED <<job, clock, release, logs, written, reported>>
-----------------------------------------------------------------------------
(* The dispatcher's thread and the hardware's sampler.                     *)

\* Every two seconds; about once a minute the hardware's events are due.
GeneratePodEvents(p) ==
  /\ p \in Running
  /\ proc[p].disp = "sleep"
  /\ \/ proc' = [proc EXCEPT ![p].disp = "drain"]
     \/ proc' = [proc EXCEPT ![p].disp = "info", ![p].sampler = IF @ = "none" THEN "first" ELSE @]
  /\ UNCHANGED <<job, clock, release, logs, written, reported>>

\* The first sample of the thread that get() started; an error ends the thread.
AsyncSample(p) ==
  /\ p \in Running
  /\ proc[p].sampler = "first"
  /\ \E s \in {"some", "dead"} : proc' = [proc EXCEPT ![p].sampler = s]
  /\ UNCHANGED <<job, clock, release, logs, written, reported>>

\* get() returns once there is a sample.
HardwareInfoGet(p) ==
  /\ p \in Running
  /\ proc[p].disp = "info" /\ proc[p].sampler = "some"
  /\ proc' = [proc EXCEPT ![p].disp = "drain"]
  /\ UNCHANGED <<job, clock, release, logs, written, reported>>

\* The queue is emptied and submitted; events older than a minute are skipped, an error drops the rest.
Submit(p, events) ==
  \E old \in SUBSET DOMAIN events :
    LET fresh == Without(events, old)
    IN  \E n \in 0..Len(fresh) :
          reported' = reported \o [i \in 1..n |-> [by |-> p, rank |-> fresh[i].rank, snap |-> fresh[i].snap,
                                                   no |-> fresh[i].no, tags |-> fresh[i].tags]]

EventDispatcher(p) ==
  /\ p \in Running
  /\ proc[p].disp = "drain"
  /\ Submit(p, proc[p].events)
  /\ proc' = [proc EXCEPT ![p].disp = "sleep", ![p].events = <<>>]
  /\ UNCHANGED <<job, clock, release, logs, written>>

CollectorNext ==
  \/ Tick \/ Upgrade \/ LaunchCollectorDaemon
  \/ \E r \in LogRanks : WriteLog(r) \/ Show(r)
  \/ \E r \in SockRanks : DoPost(r)
  \/ \E p \in Pids :
       \/ BeginScan(p) \/ FirstOrDie(p) \/ StartParser(p)
       \/ \E r \in LogRanks : EventLogParser(p, r) \/ ReadEof(p, r) \/ OpenFile(p, r)
       \/ EventSockParser(p)
       \/ GeneratePodEvents(p) \/ AsyncSample(p) \/ HardwareInfoGet(p) \/ EventDispatcher(p)

CollectorSpec == CollectorInit /\ [][CollectorNext]_collectorVars

-----------------------------------------------------------------------------
\* However many trainers start one, with whatever delays and pids, and whenever a new version
\* is installed: two collectors of a machine run at the same time only if the later one has the
\* smaller pid, and when all have looked around one is left.
OneCollector ==
  /\ \A p, q \in Running : p < q => proc[q].start < proc[p].start
  /\ (\A p \in Pids : proc[p].pc \in {"none", "run", "gone"}) /\ (\E p \in Pids : proc[p].pc # "none")
       => Running # {}

\* What a collector reports was written as it is reported, under the tags of its own group,
\* and a rank's events are reported in order and not twice by the same collector.
ReportedAsWritten ==
  /\ \A i \in DOMAIN reported : reported[i].snap # 0 /\ reported[i].tags = reported[i].snap
  /\ \A i, j \in DOMAIN reported :
       i < j /\ reported[i].by = reported[j].by /\ reported[i].rank = reported[j].rank =>
         \/ reported[i].snap < reported[j].snap
         \/ reported[i].snap = reported[j].snap /\ reported[i].no < reported[j].no
=============================================================================
