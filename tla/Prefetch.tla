------------------------------ MODULE Prefetch ------------------------------
(***************************************************************************)
(* The host prefetch iterator of recis/io/prefetch_dataset.py: a worker    *)
(* thread (_DataPrefetcher) runs ahead of the consumer over a bounded      *)
(* queue; the consumer (_PrefetchIterator) starts it lazily, relays its    *)
(* terminal result and shuts it down with a close() that may time out and  *)
(* be retried.                                                             *)
(*                                                                         *)
(* Each test of the stop flag, each queue operation and each call into the *)
(* input is a step of its own, since the two threads interleave there.     *)
(* Items are numbered in the order the input yields them.                  *)
(***************************************************************************)
EXTENDS Naturals, Sequences

CONSTANTS
  MaxItems,     \* bound: the input yields at most this many items
  BufferSize    \* capacity of the queue

ASSUME PrefetchAssumption ==
  /\ MaxItems \in Nat
  /\ BufferSize \in Nat \ {0}

VARIABLES
  \* the worker thread
  wpc,        \* where the worker stands
  hand,       \* the message _put() is trying to queue
  terminal,   \* the terminal message so far: End or Failure
  \* the input iterator
  pulled,     \* items it has yielded
  src,        \* "open", "ended" (StopIteration) or "failed" (exception)
  inputRef,   \* runner._iterator is not None: the input is not closed yet
  \* shared between the threads
  queue, stop,
  \* the consumer
  cpc,        \* where the consumer stands inside next() or close()
  started, closed,
  why,        \* what made the running close() necessary
  got,        \* the last item returned to the caller
  out         \* how the stream finished for the caller; "open" until it did

wvars == <<wpc, hand, terminal, pulled, src>>
cvars == <<cpc, started, closed, why, got, out>>
vars == <<wvars, inputRef, queue, stop, cvars>>

-----------------------------------------------------------------------------
Item(n) == [kind |-> "item", n |-> n]
Nothing == [kind |-> "none", n |-> 0]
End     == [kind |-> "end", n |-> 0]
Failure == [kind |-> "error", n |-> 0]

Messages == [kind : {"item"}, n : 1..MaxItems] \cup {End, Failure}

\* Threads: "new" is before start(), "dead" after the thread ended.
WorkerAlive == wpc \notin {"new", "dead"}

Init ==
  /\ wpc = "new" /\ hand = Nothing /\ terminal = End
  /\ pulled = 0 /\ src = "open" /\ inputRef = TRUE
  /\ queue = <<>> /\ stop = FALSE
  /\ cpc = "idle" /\ started = FALSE /\ closed = FALSE
  /\ why = "none" /\ got = 0 /\ out = "open"

-----------------------------------------------------------------------------
(* The worker: _DataPrefetcher.run() *)

\* The test of the while loop.
LoopTest ==
  /\ wpc = "loop"
  /\ wpc' = IF stop THEN "close" ELSE "next"
  /\ UNCHANGED <<hand, terminal, pulled, src, inputRef, queue, stop, cvars>>

\* next(iterator) returns an item.
NextYields ==
  /\ wpc = "next"
  /\ pulled < MaxItems
  /\ pulled' = pulled + 1
  /\ hand' = Item(pulled + 1)
  /\ wpc' = "put"
  /\ UNCHANGED <<terminal, src, inputRef, queue, stop, cvars>>

\* next(iterator) raises StopIteration.
NextStops ==
  /\ wpc = "next"
  /\ src' = "ended"
  /\ wpc' = "close"
  /\ UNCHANGED <<hand, terminal, pulled, inputRef, queue, stop, cvars>>

\* next(iterator) raises anything else.
NextRaises ==
  /\ wpc = "next"
  /\ src' = "failed"
  /\ terminal' = Failure
  /\ wpc' = "close"
  /\ UNCHANGED <<hand, pulled, inputRef, queue, stop, cvars>>

\* Where the worker goes when _put() returns.
AfterPut == IF hand.kind = "item" THEN "loop" ELSE "exit"

\* The stop test of _put(): a stopped worker drops what it holds.
PutTest ==
  /\ wpc = "put"
  /\ IF stop
       THEN wpc' = AfterPut /\ hand' = Nothing
       ELSE wpc' = "putting" /\ UNCHANGED hand
  /\ UNCHANGED <<terminal, pulled, src, inputRef, queue, stop, cvars>>

\* queue.put() succeeds.
PutDone ==
  /\ wpc = "putting"
  /\ Len(queue) < BufferSize
  /\ queue' = Append(queue, hand)
  /\ wpc' = AfterPut
  /\ hand' = Nothing
  /\ UNCHANGED <<terminal, pulled, src, inputRef, stop, cvars>>

\* queue.put() times out on a full queue; _put() tests the flag again.
PutFull ==
  /\ wpc = "putting"
  /\ Len(queue) = BufferSize
  /\ wpc' = "put"
  /\ UNCHANGED <<hand, terminal, pulled, src, inputRef, queue, stop, cvars>>

\* The finally block: the worker closes the input it started.  A failure of
\* that close keeps the reference and becomes the result of a clean end.
WorkerClosesInput ==
  /\ wpc = "close"
  /\ \/ inputRef' = FALSE /\ UNCHANGED <<terminal, src>>
     \/ /\ terminal' = Failure
        /\ src' = IF src = "ended" THEN "failed" ELSE src
        /\ UNCHANGED inputRef
  /\ wpc' = "final"
  /\ UNCHANGED <<hand, pulled, queue, stop, cvars>>

\* Mutant: the worker sits out until it is stopped and relays nothing.
RelayWaitsForStop ==
  /\ wpc = "final"
  /\ stop
  /\ wpc' = "exit"
  /\ UNCHANGED <<hand, terminal, pulled, src, inputRef, queue, stop, cvars>>

\* After the finally block: relay the terminal result unless stopped.
RelayTerminal ==
  /\ wpc = "final"
  /\ IF stop
       THEN wpc' = "exit" /\ UNCHANGED hand
       ELSE wpc' = "put" /\ hand' = terminal
  /\ UNCHANGED <<terminal, pulled, src, inputRef, queue, stop, cvars>>

\* run() has returned; the thread ends a little later.
ThreadExit ==
  /\ wpc = "exit"
  /\ wpc' = "dead"
  /\ UNCHANGED <<hand, terminal, pulled, src, inputRef, queue, stop, cvars>>

Worker ==
  \/ LoopTest \/ NextYields \/ NextStops \/ NextRaises
  \/ PutTest \/ PutDone \/ PutFull
  \/ WorkerClosesInput \/ RelayTerminal \/ ThreadExit

-----------------------------------------------------------------------------
(* The consumer: _PrefetchIterator.__next__() and close().  The class      *)
(* requires its caller to serialise them, so no flag changes under next(). *)

\* next() on a live iterator; the first one starts the worker.
CallNext ==
  /\ cpc = "idle"
  /\ ~stop
  /\ cpc' = "get"
  /\ started' = TRUE
  /\ wpc' = IF started THEN wpc ELSE "loop"
  /\ UNCHANGED <<hand, terminal, pulled, src, inputRef, queue, stop,
                 closed, why, got, out>>

\* Mutant: close() does not wait for the worker.
BeginCloseWithoutJoin(reason) ==
  /\ stop' = TRUE
  /\ why' = reason
  /\ cpc' = "input"

\* The first half of close(): raise the flag, then wait for a started worker.
BeginClose(reason) ==
  /\ stop' = TRUE
  /\ why' = reason
  /\ cpc' = IF started THEN "join" ELSE "input"

\* A message leaves the queue and next() acts on it.
Take ==
  LET m == Head(queue) IN
  /\ queue' = Tail(queue)
  /\ IF m.kind = "item"
       THEN /\ got' = m.n
            /\ cpc' = "idle"
            /\ UNCHANGED <<stop, why>>
       ELSE /\ BeginClose(m.kind)
            /\ UNCHANGED got
  /\ UNCHANGED <<wvars, inputRef, started, closed, out>>

\* queue.get() succeeds.
Get ==
  /\ cpc = "get"
  /\ queue # <<>>
  /\ Take

\* queue.get() times out on an empty queue.
GetEmpty ==
  /\ cpc = "get"
  /\ queue = <<>>
  /\ cpc' = "alive"
  /\ UNCHANGED <<wvars, inputRef, queue, stop, started, closed, why, got, out>>

\* runner.is_alive() after an empty get.
AliveTest ==
  /\ cpc = "alive"
  /\ cpc' = IF WorkerAlive THEN "get" ELSE "recheck"
  /\ UNCHANGED <<wvars, inputRef, queue, stop, started, closed, why, got, out>>

\* get_nowait() once the worker is known to be dead.
Recheck ==
  /\ cpc = "recheck"
  /\ IF queue # <<>>
       THEN Take
       ELSE /\ BeginClose("lost")
            /\ UNCHANGED <<wvars, inputRef, queue, started, closed, got, out>>

\* close(), called by the user, by the enclosing iterator or by __del__.
CallClose ==
  /\ cpc = "idle"
  /\ ~closed
  /\ BeginClose("close")
  /\ out' = IF out = "open" THEN "closed" ELSE out
  /\ UNCHANGED <<wvars, inputRef, queue, started, closed, got>>

\* How the call that runs close() finishes when close() raises: only the
\* relay of a worker failure swallows the exception and reports the failure.
CloseRaises ==
  /\ cpc' = "idle"
  /\ out' = IF out # "open" THEN out ELSE
            IF why = "error" THEN "error" ELSE "closed"

\* runner.join() sees the worker exit.
JoinDone ==
  /\ cpc = "join"
  /\ ~WorkerAlive
  /\ cpc' = "input"
  /\ UNCHANGED <<wvars, inputRef, queue, stop, started, closed, why, got, out>>

\* Mutant: close() goes on although the worker is still running.
JoinTimeoutIgnored ==
  /\ cpc = "join"
  /\ WorkerAlive
  /\ cpc' = "input"
  /\ UNCHANGED <<wvars, inputRef, queue, stop, started, closed, why, got, out>>

\* runner.join() times out: TimeoutError, everything stays owned.
JoinTimeout ==
  /\ cpc = "join"
  /\ WorkerAlive
  /\ CloseRaises
  /\ UNCHANGED <<wvars, inputRef, queue, stop, started, closed, why, got>>

\* The consumer closes an input the worker left open; that may fail too.
ConsumerClosesInput ==
  /\ cpc = "input"
  /\ \/ inputRef' = FALSE /\ cpc' = "drain" /\ UNCHANGED out
     \/ inputRef /\ CloseRaises /\ UNCHANGED inputRef
  /\ UNCHANGED <<wvars, queue, stop, started, closed, why, got>>

\* Mutant: a worker failure is reported as a plain StopIteration.
FinishCloseHidesError ==
  /\ cpc = "drain"
  /\ queue' = <<>>
  /\ closed' = TRUE
  /\ cpc' = "idle"
  /\ out' = IF out # "open" THEN out ELSE
            IF why = "close" THEN "closed" ELSE "end"
  /\ UNCHANGED <<wvars, inputRef, stop, started, why, got>>

\* The tail of close(): drop the queued items; then next() or close() returns.
FinishClose ==
  /\ cpc = "drain"
  /\ queue' = <<>>
  /\ closed' = TRUE
  /\ cpc' = "idle"
  /\ out' = IF out # "open" THEN out ELSE
            CASE why = "end" -> "end"
              [] why = "close" -> "closed"
              [] OTHER -> "error"
  /\ UNCHANGED <<wvars, inputRef, stop, started, why, got>>

Calls == CallNext \/ CallClose

Consumer ==
  \/ Get \/ GetEmpty \/ AliveTest \/ Recheck
  \/ JoinDone \/ JoinTimeout \/ ConsumerClosesInput \/ FinishClose

Next == Worker \/ Calls \/ Consumer

Spec == Init /\ [][Next]_vars

\* Both threads keep running and the input's next() and close() return; the
\* caller need not call.
FairSpec == Spec /\ WF_vars(Worker) /\ WF_vars(Consumer)

-----------------------------------------------------------------------------
TypeOK ==
  /\ wpc \in {"new", "loop", "next", "put", "putting", "close", "final",
              "exit", "dead"}
  /\ hand \in Messages \cup {Nothing}
  /\ terminal \in {End, Failure}
  /\ pulled \in 0..MaxItems
  /\ src \in {"open", "ended", "failed"}
  /\ inputRef \in BOOLEAN
  /\ queue \in Seq(Messages) /\ Len(queue) <= BufferSize
  /\ stop \in BOOLEAN /\ started \in BOOLEAN /\ closed \in BOOLEAN
  /\ cpc \in {"idle", "get", "alive", "recheck", "join", "input", "drain"}
  /\ why \in {"none", "end", "error", "lost", "close"}
  /\ got \in 0..MaxItems
  /\ out \in {"open", "end", "error", "closed"}

\* No item is skipped, repeated or reordered on its way through the queue:
\* every item next() returns is the successor of the previous one.
InOrder == [][got' # got => got' = got + 1]_vars

\* The caller learns of the end or of the failure of the input only after
\* every item the input yielded before it, and a clean end means that the
\* input was closed too.
FinishAfterLastItem ==
  /\ out = "end" => src = "ended" /\ got = pulled /\ ~inputRef
  /\ out = "error" => src = "failed" /\ got = pulled

\* The "prefetch worker exited without a result" error cannot happen: the
\* recheck after is_alive() finds the result a worker queued last.
NeverWithoutResult == why # "lost"

\* "Only the producer closes a started input": the consumer touches the
\* input only when the worker can no longer be inside its next() or close().
InputNotShared == cpc = "input" => wpc \notin {"next", "close"}

\* A close() that returned has really stopped everything: no worker runs, no
\* data is queued and the input is released.
ClosedIsQuiescent ==
  closed => ~WorkerAlive /\ queue = <<>> /\ ~inputRef

\* Nobody waits for ever: every call of next() or close() returns, and a
\* stopped worker exits, whatever the queue holds.
CallsReturn ==
  /\ (cpc # "idle") ~> (cpc = "idle")
  /\ stop ~> ~WorkerAlive

\* The iterator is an implementation of the abstract stream.
Abstract == INSTANCE Stream
RefinesStream == Abstract!StreamSpec
=============================================================================
