----------------------------- MODULE TraceWriter -----------------------------
(***************************************************************************)
(* The hooks that write what a step traced to an ODPS table: writer        *)
(* processes (version 1, recis/hooks/trace_to_odps_hook.py) or threads     *)
(* (version 2, trace_to_odps_hook_v2.py) take the data of a step from a    *)
(* bounded queue, buffer it, write blocks into an upload session and       *)
(* commit the session after two blocks.  write() and commit() are retried  *)
(* as a whole, and each call of the storage service may fail.              *)
(*                                                                         *)
(* The data of step k is the number k; whether a buffer is large or old    *)
(* enough to be flushed is a free choice.  Types of columns, their         *)
(* alignment with the table and sizes are left out.                        *)
(***************************************************************************)
EXTENDS Integers, Sequences, FiniteSets

CONSTANTS
  Teams,      \* sets of writers, for numbers of workers (worker_num)
  Steps,      \* training steps that trace something
  RetryCount, \* @retry(retry_count=3)
  MaxFaults,  \* bound on calls of the storage service that fail
  MaxSlow     \* bound on deadlines (360 s for a sentinel, 1200 s for a join) that pass

\* worker_num is at least 1, and something is traced.
ASSUME TraceAssumption ==
  /\ \A team \in Teams : IsFiniteSet(team) /\ team # {}
  /\ {Steps, RetryCount} \subseteq Nat \ {0}
  /\ {MaxFaults, MaxSlow} \subseteq Nat

VARIABLES
  version,    \* 1 or 2
  main,       \* trainer: [pc, step, sent, closed]
  queue,      \* queue.Queue(maxsize=worker_num) of data and sentinels
  errors,     \* error_queue: writers that reported (version 2)
  writer,     \* writers: [pc, data, wtry, ctry, ftry, final, level, cols, blocks, live]
  partition,  \* [ready, lock]: _partition_ready and the holder of _partition_lock
  committed,  \* committed[k]: how often the data of step k is in committed sessions
  faults, slow,
  alarm       \* an error was raised into the trainer or logged

traceVars == <<version, main, queue, errors, writer, partition, committed, faults, slow, alarm>>

Sentinel == 0
Writers == DOMAIN writer
NoWriter == "none"
NewWriter == [pc |-> "get", data |-> 0, wtry |-> 0, ctry |-> 0, ftry |-> 0, final |-> FALSE, level |-> "outer",
              cols |-> <<>>, blocks |-> <<>>, live |-> TRUE]

TraceInit ==
  /\ version \in {1, 2}
  /\ main = [pc |-> "step", step |-> 1, sent |-> 0, closed |-> FALSE]
  /\ queue = <<>> /\ errors = <<>>
  /\ \E team \in Teams : writer = [w \in team |-> NewWriter]
  /\ partition = [ready |-> FALSE, lock |-> NoWriter]
  /\ committed = [k \in 1..Steps |-> 0]
  /\ faults = 0 /\ slow = 0 /\ alarm = FALSE

-----------------------------------------------------------------------------
(* The trainer's thread.                                                   *)

Alive(w) == writer[w].pc # "dead"
CheckAlive == \A w \in Writers : Alive(w)
Room == Len(queue) < Cardinality(Writers)
Exited == main.pc = "exited"

\* An exception leaves the hook: the trainer stops; version 2 has end() registered with atexit.
RaiseMain ==
  /\ alarm' = TRUE
  /\ main' = [main EXCEPT !.pc = IF version = 2 /\ ~main.closed THEN "end" ELSE "exited"]

\* _check_errors() takes one error and raises.
CheckErrors ==
  /\ version = 2
  /\ errors # <<>>
  /\ errors' = Tail(errors)
  /\ RaiseMain

\* after_step(), first checks.
AfterStep ==
  /\ main.pc = "step"
  /\ \/ CheckErrors
     \/ /\ version = 1 \/ errors = <<>>
        /\ UNCHANGED errors
        /\ \/ ~CheckAlive /\ RaiseMain
           \/ CheckAlive /\ main' = [main EXCEPT !.pc = "put"] /\ UNCHANGED alarm
  /\ UNCHANGED <<version, queue, writer, partition, committed, faults, slow>>

Enqueue ==
  /\ Room
  /\ queue' = Append(queue, main.step)
  /\ main' = [main EXCEPT !.step = @ + 1, !.pc = IF main.step = Steps THEN "end" ELSE "step"]
  /\ UNCHANGED <<errors, alarm>>

\* Mutant: the put of version 2 waits without looking at the writers again.
PutWithoutLooking ==
  /\ main.pc = "put"
  /\ Enqueue
  /\ UNCHANGED <<version, writer, partition, committed, faults, slow>>

\* The put: version 1 blocks until there is room, version 2 looks at errors and writers every 5 seconds.
Put ==
  /\ main.pc = "put"
  /\ \/ version = 1 /\ Enqueue
     \/ CheckErrors /\ UNCHANGED queue
     \/ version = 2 /\ errors = <<>> /\ ~CheckAlive /\ RaiseMain /\ UNCHANGED <<queue, errors>>
     \/ version = 2 /\ errors = <<>> /\ CheckAlive /\ Enqueue
  /\ UNCHANGED <<version, writer, partition, committed, faults, slow>>

DeadCount == Cardinality({w \in Writers : ~Alive(w)})

\* An exception out of end(): _safe_shutdown() only logs it.
RaiseEnd == alarm' = TRUE /\ main' = [main EXCEPT !.pc = "exited", !.closed = TRUE]

\* end(), one sentinel: version 2 raises when more writers are dead than sentinels were sent.
End ==
  /\ main.pc = "end"
  /\ main.sent < Cardinality(Writers)
  /\ \/ version = 2 /\ DeadCount > main.sent /\ RaiseEnd /\ UNCHANGED queue
     \/ /\ version = 1 \/ DeadCount <= main.sent
        /\ Room
        /\ queue' = Append(queue, Sentinel)
        /\ main' = [main EXCEPT !.sent = @ + 1, !.closed = TRUE]
        /\ UNCHANGED alarm
  /\ UNCHANGED <<version, errors, writer, partition, committed, faults, slow>>

\* The deadline of 360 s for the sentinels.
EndDeadline ==
  /\ main.pc = "end" /\ version = 2
  /\ main.sent < Cardinality(Writers)
  /\ ~Room
  /\ slow < MaxSlow
  /\ slow' = slow + 1
  /\ RaiseEnd
  /\ UNCHANGED <<version, queue, errors, writer, partition, committed, faults>>

\* The joins, then a last look at the errors, which are logged.
JoinWriters ==
  /\ main.pc = "end"
  /\ main.sent = Cardinality(Writers)
  /\ \/ DeadCount = Cardinality(Writers) /\ UNCHANGED slow
     \/ DeadCount < Cardinality(Writers) /\ version = 2 /\ slow < MaxSlow /\ slow' = slow + 1
  /\ alarm' = (alarm \/ DeadCount < Cardinality(Writers) \/ errors # <<>>)
  /\ main' = [main EXCEPT !.pc = "exited"]
  /\ UNCHANGED <<version, queue, errors, writer, partition, committed, faults>>

MainStep == AfterStep \/ Put \/ End \/ EndDeadline \/ JoinWriters

-----------------------------------------------------------------------------
(* A writer.  Set(w, rec) is its next state.                               *)

Set(w, rec) == writer' = [writer EXCEPT ![w] = rec]
Release(w) == IF partition.lock = w THEN [partition EXCEPT !.lock = NoWriter] ELSE partition

\* Where an exception in _flush_buffer() goes: to write(), which starts over with the same data, or to the
\* last commit(force=True); a write() that gives up reports and still tries the last commit.
RaiseFinal(rec) ==
  IF rec.ftry + 1 < RetryCount THEN [rec EXCEPT !.pc = "final", !.ftry = @ + 1] ELSE [rec EXCEPT !.pc = "dead"]
RaiseFlush(rec) ==
  IF rec.final THEN RaiseFinal(rec)
  ELSE IF rec.wtry + 1 < RetryCount THEN [rec EXCEPT !.pc = "append", !.wtry = @ + 1]
  ELSE IF version = 1 THEN [rec EXCEPT !.pc = "dead"]
  ELSE [rec EXCEPT !.pc = "final", !.final = TRUE, !.ftry = 0]
\* An exception in commit(): retried, then an exception of its caller.
RaiseCommit(rec) ==
  IF rec.level = "outer" THEN RaiseFinal(rec)
  ELSE IF rec.ctry + 1 < RetryCount THEN [rec EXCEPT !.pc = "commit", !.ctry = @ + 1]
  ELSE RaiseFlush(rec)

\* The writer's state after the exception; giving up is reported (version 2) or kills the process.
Raise(w, rec) ==
  LET gaveUp == rec.pc = "final" /\ rec.final /\ ~writer[w].final
  IN  /\ Set(w, rec)
      /\ errors' = IF gaveUp THEN Append(errors, w) ELSE errors
      /\ alarm' = (alarm \/ rec.pc = "dead")
NoRaise == UNCHANGED <<errors, alarm>>

\* The outcome of a call of the storage service; one on a session that is no longer open always fails.
Succeeds(w, ok) ==
  /\ ok => writer[w].live
  /\ IF ok \/ ~writer[w].live THEN UNCHANGED faults ELSE faults < MaxFaults /\ faults' = faults + 1

Returned(rec) == [rec EXCEPT !.pc = IF rec.level = "outer" THEN "dead" ELSE IF rec.final THEN "settle" ELSE "get"]

\* run(): the next item; the sentinel leads to the last commit.
Get(w) ==
  /\ writer[w].pc = "get"
  /\ queue # <<>>
  /\ queue' = Tail(queue)
  /\ Set(w, IF Head(queue) = Sentinel
            THEN [writer[w] EXCEPT !.pc = "final", !.final = TRUE, !.ftry = 0]
            ELSE [writer[w] EXCEPT !.pc = "append", !.data = Head(queue), !.wtry = 0])
  /\ NoRaise
  /\ UNCHANGED <<version, main, partition, committed, faults, slow>>

\* write(): the data is buffered, each time it is tried; the buffer is flushed when it is large or old.
Write(w) ==
  /\ writer[w].pc = "append"
  /\ \E next \in {"flush", "get"} :
       Set(w, [writer[w] EXCEPT !.cols = Append(@, writer[w].data), !.pc = next])
  /\ NoRaise
  /\ UNCHANGED <<version, main, queue, partition, committed, faults, slow>>

\* commit(force=True) in the finally of run(): first the buffer.
CommitForce(w) ==
  /\ writer[w].pc = "final"
  /\ Set(w, [writer[w] EXCEPT !.pc = IF writer[w].cols = <<>> THEN "settle" ELSE "flush"])
  /\ NoRaise
  /\ UNCHANGED <<version, main, queue, partition, committed, faults, slow>>

\* _flush_buffer(): a block of the session; version 1 commits when it has exactly two.
FlushBuffer(w) ==
  LET me == writer[w]
      blocks == Append(me.blocks, me.cols)
      due == IF version = 1 THEN Len(blocks) = 2 ELSE Len(blocks) >= 2
      flushed == [me EXCEPT !.blocks = blocks, !.cols = <<>>]
  IN  /\ me.pc = "flush"
      /\ \/ /\ Succeeds(w, TRUE)
            /\ Set(w, IF due THEN [flushed EXCEPT !.pc = "commit", !.ctry = 0, !.level = "nested"]
                             ELSE [flushed EXCEPT !.pc = IF me.final THEN "settle" ELSE "get"])
            /\ NoRaise
         \/ Succeeds(w, FALSE) /\ Raise(w, RaiseFlush(me))
      /\ UNCHANGED <<version, main, queue, partition, committed, slow>>

\* commit(): nothing without blocks; the first commit of a partition is made under a lock.
Commit(w) ==
  LET me == writer[w]
      rec == [me EXCEPT !.level = IF me.pc = "settle" THEN "outer" ELSE "nested"]
  IN  /\ me.pc \in {"commit", "settle"}
      /\ \/ /\ me.blocks = <<>>
            /\ Set(w, Returned(rec))
            /\ UNCHANGED partition
         \/ /\ me.blocks # <<>>
            /\ Set(w, [rec EXCEPT !.pc = "docommit"])
            /\ \/ (version = 1 \/ partition.ready) /\ UNCHANGED partition
               \/ /\ version = 2 /\ ~partition.ready
                  /\ partition.lock = NoWriter
                  /\ partition' = [partition EXCEPT !.lock = w]
      /\ NoRaise
      /\ UNCHANGED <<version, main, queue, committed, faults, slow>>

\* Where the data of step k is in blocks, and how often.
Places(blocks, k) == UNION {{<<i, j>> : j \in {j \in DOMAIN blocks[i] : blocks[i][j] = k}} : i \in DOMAIN blocks}
Count(blocks, k) == Cardinality(Places(blocks, k))
Add(blocks) == [k \in 1..Steps |-> committed[k] + Count(blocks, k)]

\* Mutant: the messages are forgotten before the commit.
ForgetThenCommit(w) ==
  LET me == writer[w]
  IN  /\ me.pc = "docommit"
      /\ \/ /\ Succeeds(w, TRUE)
            /\ committed' = Add(me.blocks)
            /\ Set(w, [me EXCEPT !.pc = "open", !.live = FALSE, !.blocks = IF version = 2 THEN <<>> ELSE @])
            /\ NoRaise
            /\ UNCHANGED partition
         \/ /\ Succeeds(w, FALSE)
            /\ Raise(w, RaiseCommit([me EXCEPT !.blocks = <<>>]))
            /\ partition' = Release(w)
            /\ UNCHANGED committed
      /\ UNCHANGED <<version, main, queue, slow>>

\* _do_commit(), the session: version 2 forgets its messages at once, version 1 its blocks with the next session.
DoCommit(w) ==
  LET me == writer[w]
  IN  /\ me.pc = "docommit"
      /\ \/ /\ Succeeds(w, TRUE)
            /\ committed' = Add(me.blocks)
            /\ Set(w, [me EXCEPT !.pc = "open", !.live = FALSE, !.blocks = IF version = 2 THEN <<>> ELSE @])
            /\ NoRaise
            /\ UNCHANGED partition
         \/ /\ Succeeds(w, FALSE)
            /\ Raise(w, RaiseCommit(me))
            /\ partition' = Release(w)
            /\ UNCHANGED committed
      /\ UNCHANGED <<version, main, queue, slow>>

\* _open_write_session() for the blocks to come.
OpenWriteSession(w) ==
  LET me == writer[w]
  IN  /\ me.pc = "open"
      /\ \/ /\ Set(w, Returned([me EXCEPT !.live = TRUE, !.blocks = <<>>]))
            /\ partition' = [Release(w) EXCEPT !.ready = @ \/ partition.lock = w]
            /\ NoRaise
            /\ UNCHANGED faults
         \/ /\ faults < MaxFaults
            /\ faults' = faults + 1
            /\ Raise(w, RaiseCommit(me))
            /\ partition' = Release(w)
      /\ UNCHANGED <<version, main, queue, committed, slow>>

\* The calls of the storage service, which may not return, and the writer's own steps.
CallStep(w) == ~Exited /\ (FlushBuffer(w) \/ DoCommit(w) \/ OpenWriteSession(w))
OwnStep(w) == ~Exited /\ (Get(w) \/ Write(w) \/ CommitForce(w) \/ Commit(w))
WriterStep(w) == OwnStep(w) \/ CallStep(w)

TraceNext == MainStep \/ \E w \in Writers : WriterStep(w)

TraceSpec == TraceInit /\ [][TraceNext]_traceVars

-----------------------------------------------------------------------------
\* When the job is over and nothing was raised or logged, the table has the data of every
\* step; and if no call of the service failed it has it once, and no one raised an alarm
\* unless a deadline passed.
TraceAccounted ==
  Exited =>
    /\ ~alarm => \A k \in 1..Steps : committed[k] >= 1
    /\ faults = 0 => \A k \in 1..Steps : committed[k] <= 1
    /\ faults = 0 /\ slow = 0 => ~alarm

\* Every call of the storage service returns, with or without an error.
CallsReturn == \A w \in UNION Teams : WF_traceVars(w \in Writers /\ CallStep(w))

\* Version 2: end() returns or raises even when a writer is stuck in a call; and if every call
\* returns, whatever errors the writers meet, so does each after_step(), and the job ends.
TraceEnds ==
  /\ version = 2 /\ main.pc = "end" ~> Exited
  /\ CallsReturn => (version = 2 ~> Exited)

\* What the comment on the put of after_step() says: the loop with a timeout does not block the
\* trainer's thread for ever when a writer is stuck.
PutReturns == version = 2 /\ main.pc = "put" ~> main.pc # "put"
=============================================================================
