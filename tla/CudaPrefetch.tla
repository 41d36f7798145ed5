---------------------------- MODULE CudaPrefetch ----------------------------
(***************************************************************************)
(* The device prefetch iterators of recis/io/cuda_prefetch_dataset.py and  *)
(* the glue of recis/framework/pipeline_utils.py.  A transform runs on a   *)
(* side stream of the GPU, issued by a worker thread ("thread", and        *)
(* "fetch" when the worker also pulls the input) or by the consumer        *)
(* itself ("inline").  With LazyStart the worker waits at a gate until     *)
(* notify() of the train step opens it.                                    *)
(*                                                                         *)
(* The GPU is two queues of operations that finish later: `main`, the      *)
(* consumer's stream (copies of raw batches, train steps), and `side` (the *)
(* transforms).  An event is the last operation queued when it was         *)
(* recorded.  Memory that nobody references is reused at once, so what the *)
(* lists of held tensors are for is part of the model.                     *)
(***************************************************************************)
EXTENDS Integers, Sequences, SequencesExt

CONSTANTS
  MaxBatches,     \* bound: the input yields at most this many batches
  BufferSize      \* capacity of the output queue

ASSUME CudaPrefetchAssumption ==
  /\ MaxBatches \in Nat
  /\ BufferSize \in Nat \ {0}

VARIABLES
  mode, lazy,                     \* how the iterator was built
  wpc, first, hand, terminal,     \* the worker thread
  rawHeld,                        \* _raw_inflight
  rawQ, outQ, stop, go,           \* shared between the threads
  src, pulled, inputRef,          \* the input iterator
  broken,                         \* a transform or a cleanup raised
  cpc, todo, exhausted, started,  \* the consumer inside next() or close()
  closed, why, got, out,
  staged, pending,                \* inline: _staged_raw and _pending
  prev, stepped, outHeld,         \* _prev_holdables, is it in use, _out_inflight
  main, side                      \* unfinished operations of the two streams

wvars == <<wpc, first, hand, terminal>>
qvars == <<rawQ, outQ, stop, go>>
ivars == <<src, pulled, inputRef, broken>>
cvars == <<cpc, todo, exhausted, started, closed, why, got, out>>
svars == <<staged, pending>>
hvars == <<prev, stepped, outHeld>>
cudaVars == <<mode, lazy, wvars, rawHeld, qvars, ivars, cvars, svars, hvars,
              main, side>>

-----------------------------------------------------------------------------
End == 0            \* the None a queue carries at the end of the input
Failure == -1       \* a _PrefetchWorkerError

\* A recorded event is complete when its operation is no longer queued.
NoEvent == <<"none", 0>>
Recorded(stream) == IF stream = <<>> THEN NoEvent ELSE Last(stream)
Complete(e) == e \notin ToSet(main) \cup ToSet(side)

Hold(what, n, e) == [what |-> what, n |-> n, event |-> e]

\* _drain_inflight(): pop while the head's event is complete.
Drained(held) ==
  LET busy == {i \in DOMAIN held : ~Complete(held[i].event)}
  IN  IF busy = {} THEN <<>>
      ELSE SubSeq(held, CHOOSE i \in busy : \A j \in busy : i <= j, Len(held))

\* PrefetchArguments: only a worker thread can fetch.
PrefetchArguments == {a \in [thread : BOOLEAN, fetch : BOOLEAN] : a.fetch => a.thread}

\* cuda_prefetch_iterator(): which iterator the arguments ask for.
Mode(a) == IF ~a.thread THEN "inline" ELSE IF a.fetch THEN "fetch" ELSE "thread"

CudaInit ==
  /\ mode \in {Mode(a) : a \in PrefetchArguments}
  /\ lazy \in BOOLEAN     \* training iterators are lazy, those of evaluation not
  /\ wpc = "new" /\ first = TRUE /\ hand = 0 /\ terminal = End
  /\ rawHeld = <<>> /\ rawQ = <<>> /\ outQ = <<>> /\ stop = FALSE /\ go = FALSE
  /\ src = "open" /\ pulled = 0 /\ inputRef = TRUE /\ broken = FALSE
  /\ cpc = "idle" /\ todo = 2 /\ exhausted = FALSE /\ started = FALSE
  /\ closed = FALSE /\ why = "none" /\ got = 0 /\ out = "open"
  /\ staged = 0 /\ pending = 0 /\ prev = 0 /\ stepped = FALSE /\ outHeld = <<>>
  /\ main = <<>> /\ side = <<>>

-----------------------------------------------------------------------------
(* The GPU: streams are first in, first out; wait_event orders a transform *)
(* after the copy of its batch and a step after its transform.             *)

MainRuns ==
  /\ main # <<>>
  /\ Head(main)[1] = "step" => <<"transform", Head(main)[2]>> \notin ToSet(side)
  /\ main' = Tail(main)
  /\ UNCHANGED <<mode, lazy, wvars, rawHeld, qvars, ivars, cvars, svars, hvars, side>>

SideRuns ==
  /\ side # <<>>
  /\ <<"copy", Head(side)[2]>> \notin ToSet(main)
  /\ side' = Tail(side)
  /\ UNCHANGED <<mode, lazy, wvars, rawHeld, qvars, ivars, cvars, svars, hvars, main>>

-----------------------------------------------------------------------------
(* What both kinds of iterator do with the input and with a raw batch *)

\* next(self._input_iterator), and the event recorded after its copies.
Pull ==
  \/ /\ src = "open" /\ pulled < MaxBatches
     /\ pulled' = pulled + 1
     /\ main' = Append(main, <<"copy", pulled + 1>>)
     /\ UNCHANGED src
  \/ /\ src = "open"
     /\ src' \in {"ended", "failed"}
     /\ UNCHANGED <<pulled, main>>

\* The transform on the side stream.  It pops entries of the raw batch, so
\* the tensors are held until the transform's event, also when it raises.
Transform(n, ok) ==
  /\ side' = Append(side, <<"transform", n>>)
  /\ rawHeld' = LET e == <<"transform", n>>
                    held == Append(rawHeld, Hold("raw", n, e))
                IN  IF ok THEN Append(held, Hold("result", n, e)) ELSE held

-----------------------------------------------------------------------------
(* The worker: _run() and _run_loop() *)

WorkerOnly == UNCHANGED <<mode, lazy, cvars, svars, hvars>>
WorkerExit == IF mode = "fetch" THEN "closing" ELSE "final"
AfterGate == IF mode = "fetch" THEN "next" ELSE "transform"
Gate == IF lazy /\ ~first THEN "gate" ELSE AfterGate

\* The head of the loop.
WorkerLoop ==
  /\ wpc = "loop"
  /\ wpc' = IF stop THEN WorkerExit ELSE
            IF mode = "fetch" THEN Gate ELSE "get"
  /\ UNCHANGED <<first, hand, terminal, rawHeld, qvars, ivars, main, side>>
  /\ WorkerOnly

\* raw_queue.get(timeout=0.1): a batch, the end, or nothing yet.
WorkerGets ==
  /\ wpc = "get"
  /\ IF rawQ = <<>>
       THEN wpc' = "loop" /\ UNCHANGED <<rawQ, hand, rawHeld>>
       ELSE /\ rawQ' = Tail(rawQ)
            /\ hand' = Head(rawQ)
            /\ IF Head(rawQ) = End
                 THEN wpc' = WorkerExit /\ UNCHANGED rawHeld
                 ELSE /\ wpc' = Gate
                      /\ rawHeld' = Append(rawHeld, Hold("data", Head(rawQ), <<"copy", Head(rawQ)>>))
  /\ UNCHANGED <<first, terminal, outQ, stop, go, ivars, main, side>>
  /\ WorkerOnly

\* _go_event.wait() returns ...
GateOpens ==
  /\ wpc = "gate"
  /\ go
  /\ wpc' = "clear"
  /\ UNCHANGED <<first, hand, terminal, rawHeld, qvars, ivars, main, side>>
  /\ WorkerOnly

\* ... and is cleared, which loses a notify() that came in between.
GateClears ==
  /\ wpc = "clear"
  /\ go' = FALSE
  /\ wpc' = IF stop THEN WorkerExit ELSE AfterGate
  /\ UNCHANGED <<first, hand, terminal, rawHeld, rawQ, outQ, stop, ivars, main, side>>
  /\ WorkerOnly

\* fetch_in_thread: the worker pulls the input itself.
WorkerPulls ==
  /\ wpc = "next"
  /\ Pull
  /\ IF src' = "open"
       THEN /\ wpc' = "transform" /\ hand' = pulled'
            /\ rawHeld' = Append(rawHeld, Hold("data", pulled', <<"copy", pulled'>>))
            /\ UNCHANGED terminal
       ELSE /\ wpc' = WorkerExit
            /\ terminal' = IF src' = "failed" THEN Failure ELSE End
            /\ UNCHANGED <<hand, rawHeld>>
  /\ first' = FALSE
  /\ UNCHANGED <<qvars, inputRef, broken, side>>
  /\ WorkerOnly

WorkerTransforms ==
  /\ wpc = "transform"
  /\ \E ok \in BOOLEAN :
       /\ Transform(hand, ok)
       /\ IF ok THEN wpc' = "put" /\ UNCHANGED <<broken, terminal>>
                ELSE wpc' = WorkerExit /\ terminal' = Failure /\ broken' = TRUE
  /\ first' = FALSE
  /\ UNCHANGED <<hand, qvars, src, pulled, inputRef, main>>
  /\ WorkerOnly

\* _drain_inflight() and the stop test of _put_output().
WorkerDrains ==
  /\ wpc = "put"
  /\ rawHeld' = Drained(rawHeld)
  /\ wpc' = IF stop THEN WorkerExit ELSE "putting"
  /\ UNCHANGED <<first, hand, terminal, qvars, ivars, main, side>>
  /\ WorkerOnly

\* out_queue.put(timeout=0.1): done, or full and back to the stop test.
WorkerPuts ==
  /\ wpc = "putting"
  /\ IF Len(outQ) < BufferSize
       THEN outQ' = Append(outQ, hand) /\ wpc' = "loop"
       ELSE stop /\ wpc' = WorkerExit /\ UNCHANGED outQ
  /\ UNCHANGED <<first, hand, terminal, rawHeld, rawQ, stop, go, ivars, main, side>>
  /\ WorkerOnly

\* The finally block: the worker closes the input it pulled from.
WorkerClosesInput ==
  /\ wpc = "closing"
  /\ \/ inputRef' = FALSE /\ UNCHANGED <<terminal, broken>>
     \/ terminal' = Failure /\ broken' = TRUE /\ UNCHANGED inputRef
  /\ wpc' = "final"
  /\ UNCHANGED <<first, hand, rawHeld, qvars, src, pulled, main, side>>
  /\ WorkerOnly

\* The terminal result, unless stopped; a full queue is waited for.
WorkerFinishes ==
  /\ wpc = "final"
  /\ \/ stop /\ UNCHANGED outQ
     \/ ~stop /\ Len(outQ) < BufferSize /\ outQ' = Append(outQ, terminal)
  /\ wpc' = "dead"
  /\ UNCHANGED <<first, hand, terminal, rawHeld, rawQ, stop, go, ivars, main, side>>
  /\ WorkerOnly

Worker ==
  \/ WorkerLoop \/ WorkerGets \/ GateOpens \/ GateClears \/ WorkerPulls
  \/ WorkerTransforms \/ WorkerDrains \/ WorkerPuts \/ WorkerClosesInput
  \/ WorkerFinishes

-----------------------------------------------------------------------------
(* The consumer: next(), notify() and close(), which its caller serialises *)

\* Mutant: the batch of the last step is let go when the next is asked for.
RetireWithoutEvent ==
  /\ prev' = 0 /\ stepped' = FALSE
  /\ outHeld' = Drained(outHeld)

\* _retire_previous(): the last batch is held until the stream has finished
\* what was queued for it.
RetirePrevious ==
  /\ prev' = 0 /\ stepped' = FALSE
  /\ outHeld' = Drained(IF prev = 0 THEN outHeld
                        ELSE Append(outHeld, Hold("new", prev, Recorded(main))))

\* next() on a live iterator; the first call starts the thread and, where
\* the consumer fetches, stages two batches.
CallNext ==
  /\ cpc = "idle" /\ ~stop
  /\ RetirePrevious
  /\ started' = (mode # "inline")
  /\ wpc' = IF mode # "inline" /\ ~started THEN "loop" ELSE wpc
  /\ cpc' = CASE mode = "fetch" -> "get"
              [] mode = "thread" -> "fetch"
              [] mode = "inline" -> IF todo = 2 THEN "fetch" ELSE "stage"
  /\ UNCHANGED <<mode, lazy, first, hand, terminal, rawHeld, qvars, ivars, todo,
                 exhausted, closed, why, got, out, svars, main, side>>

\* The first half of close().
BeginClose(reason) ==
  /\ stop' = TRUE /\ go' = TRUE
  /\ why' = reason
  /\ cpc' = "join"

\* A transformed batch is returned: the stream waits for its event and its
\* tensors are held as the previous batch.
Return(n) ==
  /\ got' = n /\ prev' = n
  /\ cpc' = "idle"

\* _fetch_raw() on the consumer's thread.
FetchRaw ==
  /\ cpc \in {"fetch", "refetch"}
  /\ IF exhausted THEN UNCHANGED <<src, pulled, main, exhausted>>
                  ELSE Pull /\ exhausted' = (src' = "ended")
  /\ IF src' = "failed" /\ ~exhausted
       THEN BeginClose("error") /\ UNCHANGED <<rawQ, staged, pending, todo, got, prev>>
       ELSE LET fetched == IF exhausted THEN <<>> ELSE
                           IF src' = "ended" THEN <<End>> ELSE <<pulled'>>
            IN  /\ UNCHANGED <<stop, go, why>>
                /\ todo' = IF cpc = "fetch" /\ todo = 2 THEN 1 ELSE todo
                /\ IF mode = "thread"
                     THEN /\ rawQ' = rawQ \o fetched
                          /\ cpc' = IF todo = 2 THEN "fetch" ELSE "get"
                          /\ UNCHANGED <<staged, pending, got, prev>>
                     ELSE /\ staged' = IF fetched = <<>> THEN staged ELSE fetched[1]
                          /\ IF cpc = "fetch"
                               THEN cpc' = "stage" /\ UNCHANGED <<pending, got, prev>>
                               ELSE pending' = 0 /\ Return(pending)
                          /\ UNCHANGED rawQ
  /\ UNCHANGED <<mode, lazy, wvars, rawHeld, outQ, inputRef, broken, started, closed, out,
                 stepped, outHeld, side>>

\* _transform_staged() of the inline iterator.
TransformStaged ==
  IF staged = 0
    THEN UNCHANGED <<staged, pending, rawHeld, side, broken>>
    ELSE /\ staged' = 0
         /\ \E ok \in BOOLEAN :
              /\ Transform(staged, ok)
              /\ pending' = IF ok THEN staged ELSE 0
              /\ broken' = (broken \/ ~ok)

\* Inline next(): transform what notify() did not, then fetch the next raw
\* batch before the pending one is given up.
Stage ==
  /\ cpc = "stage"
  /\ IF pending = 0 THEN TransformStaged
                    ELSE UNCHANGED <<staged, pending, rawHeld, side, broken>>
  /\ IF pending' # 0 THEN cpc' = "refetch" /\ UNCHANGED <<stop, go, why>>
                     ELSE BeginClose(IF staged # 0 THEN "error" ELSE "end")
  /\ UNCHANGED <<mode, lazy, wvars, rawQ, outQ, src, pulled, inputRef, todo,
                 exhausted, started, closed, got, out, hvars, main>>

\* What next() does with an output of the worker.
TakeOutput ==
  /\ outQ' = Tail(outQ)
  /\ IF Head(outQ) > 0
       THEN Return(Head(outQ)) /\ UNCHANGED <<stop, go, why>>
       ELSE /\ BeginClose(IF Head(outQ) = End THEN "end" ELSE "error")
            /\ UNCHANGED <<got, prev>>

GetUnchanged ==
  UNCHANGED <<mode, lazy, wvars, rawHeld, rawQ, ivars, todo, exhausted, started,
              closed, out, svars, stepped, outHeld, main, side>>

\* _get_output(): an output arrives in time ...
GetOutput ==
  /\ cpc = "get" /\ outQ # <<>>
  /\ TakeOutput
  /\ GetUnchanged

\* ... or the wait ends with an empty queue.
GetTimesOut ==
  /\ cpc = "get" /\ outQ = <<>>
  /\ cpc' = "expired"
  /\ UNCHANGED <<qvars, why, got, prev>>
  /\ GetUnchanged

\* Mutant: a worker found dead is an error whatever the queue holds by now.
ExpiredWithoutRecheck ==
  /\ cpc = "expired"
  /\ IF wpc # "dead"
       THEN /\ cpc' = "get" /\ go' = (go \/ lazy)
            /\ UNCHANGED <<rawQ, outQ, stop, why, got, prev>>
       ELSE BeginClose("error") /\ UNCHANGED <<rawQ, outQ, got, prev>>
  /\ GetUnchanged

\* Mutant: the gate is left to notify().
ExpiredWaitsForNotify ==
  /\ cpc = "expired"
  /\ IF wpc # "dead"
       THEN cpc' = "get" /\ UNCHANGED <<qvars, why, got, prev>>
       ELSE IF outQ # <<>>
              THEN TakeOutput /\ UNCHANGED rawQ
              ELSE BeginClose("error") /\ UNCHANGED <<rawQ, outQ, got, prev>>
  /\ GetUnchanged

\* After the timeout: a dead worker's last output is looked for once more, a
\* live one is let through the gate.
Expired ==
  /\ cpc = "expired"
  /\ IF wpc # "dead"
       THEN /\ cpc' = "get" /\ go' = (go \/ lazy)
            /\ UNCHANGED <<rawQ, outQ, stop, why, got, prev>>
       ELSE IF outQ # <<>>
              THEN TakeOutput /\ UNCHANGED rawQ
              ELSE BeginClose("error") /\ UNCHANGED <<rawQ, outQ, got, prev>>
  /\ GetUnchanged

\* The caller queues the kernels of its step.  It drops its own references
\* to the batch while they run.
TrainStep ==
  /\ cpc = "idle" /\ prev # 0 /\ ~stepped
  /\ stepped' = TRUE
  /\ main' = Append(main, <<"step", prev>>)
  /\ UNCHANGED <<mode, lazy, wvars, rawHeld, qvars, ivars, cvars, svars, prev, outHeld, side>>

\* notify() of the threaded iterator opens the gate.
Notify ==
  /\ mode # "inline"
  /\ cpc = "idle" /\ ~stop /\ got > 0
  /\ go' = TRUE
  /\ outHeld' = Drained(outHeld)
  /\ UNCHANGED <<mode, lazy, wvars, rawHeld, rawQ, outQ, stop, ivars, cvars, svars,
                 prev, stepped, main, side>>

\* notify() of the inline iterator transforms the staged batch now.
NotifyInline ==
  /\ mode = "inline"
  /\ cpc = "idle" /\ ~stop /\ got > 0
  /\ IF pending = 0 THEN TransformStaged
                    ELSE UNCHANGED <<staged, pending, rawHeld, side, broken>>
  /\ IF broken' /\ ~broken
       THEN BeginClose("error") /\ UNCHANGED outHeld
       ELSE outHeld' = Drained(outHeld) /\ UNCHANGED <<cpc, why, stop, go>>
  /\ UNCHANGED <<mode, lazy, wvars, rawQ, outQ, src, pulled, inputRef, todo,
                 exhausted, started, closed, got, out, prev, stepped, main>>

\* close() by the trainer's finally block or by __del__; it may be retried.
CallClose ==
  /\ cpc = "idle" /\ ~closed
  /\ BeginClose("close")
  /\ out' = IF out = "open" THEN "closed" ELSE out
  /\ UNCHANGED <<mode, lazy, wvars, rawHeld, rawQ, outQ, ivars, todo, exhausted,
                 started, closed, got, svars, hvars, main, side>>

CloseOnly ==
  UNCHANGED <<mode, lazy, wvars, stop, go, src, pulled, todo, exhausted, started, why,
              got, main, side>>

\* thread.join(): the worker ended, and the last batch is retired.
Join ==
  /\ cpc = "join"
  /\ started => wpc = "dead"
  /\ RetirePrevious
  /\ cpc' = "release"
  /\ CloseOnly
  /\ UNCHANGED <<rawHeld, rawQ, outQ, inputRef, broken, closed, out, svars>>

\* TimeoutError while the worker is in somebody else's code: every buffer is
\* kept.  next() reports the failure it was closing for.
JoinTimesOut ==
  /\ cpc = "join"
  /\ started /\ wpc \in {"next", "transform", "closing"}
  /\ cpc' = "idle"
  /\ out' = IF out = "open" THEN "error" ELSE out
  /\ CloseOnly
  /\ UNCHANGED <<rawHeld, rawQ, outQ, inputRef, broken, closed, svars, hvars>>

\* _release_storage() and the queues: wait for both streams, then drop.
ReleaseStorage ==
  /\ cpc = "release"
  /\ side = <<>>
  /\ \A e \in {outHeld[i].event : i \in DOMAIN outHeld} \cup
              {rawHeld[i].event : i \in DOMAIN rawHeld} \cup
              {<<"copy", n>> : n \in ToSet(rawQ) \cup {staged}} : Complete(e)
  /\ rawHeld' = <<>> /\ outHeld' = <<>> /\ rawQ' = <<>> /\ outQ' = <<>>
  /\ staged' = 0 /\ pending' = 0
  /\ cpc' = "input"
  /\ CloseOnly
  /\ UNCHANGED <<inputRef, broken, closed, out, prev, stepped>>

\* _close_input(): it may raise, and the iterator stays unclosed.  A failed
\* cleanup replaces the end of the input but not an earlier failure.
CloseInput ==
  /\ cpc = "input"
  /\ \/ /\ inputRef' = FALSE /\ closed' = TRUE
        /\ out' = IF out # "open" THEN out ELSE IF why = "end" THEN "end" ELSE "error"
        /\ UNCHANGED broken
     \/ /\ inputRef
        /\ broken' = TRUE
        /\ out' = IF out = "open" THEN "error" ELSE out
        /\ UNCHANGED <<inputRef, closed>>
  /\ cpc' = "idle"
  /\ CloseOnly
  /\ UNCHANGED <<rawHeld, rawQ, outQ, svars, hvars>>

Calls == CallNext \/ TrainStep \/ Notify \/ NotifyInline \/ CallClose

Consumer ==
  \/ FetchRaw \/ Stage \/ GetOutput \/ GetTimesOut \/ Expired
  \/ Join \/ JoinTimesOut \/ ReleaseStorage \/ CloseInput

CudaNext == MainRuns \/ SideRuns \/ Worker \/ Calls \/ Consumer

\* The threads run, calls into the input and the transform return, and the
\* GPU finishes what was queued.  The caller need not call, nor notify.
CudaSpec ==
  /\ CudaInit /\ [][CudaNext]_cudaVars
  /\ WF_cudaVars(MainRuns) /\ WF_cudaVars(SideRuns)
  /\ WF_cudaVars(Worker) /\ WF_cudaVars(Consumer)

-----------------------------------------------------------------------------
\* The raw tensors of n are referenced: by the batch itself until the
\* transform pops from it, by the held list afterwards.
RawHeld(n) ==
  \/ n \in ToSet(rawQ) \/ staged = n
  \/ hand = n /\ wpc \in {"gate", "clear", "transform"}
  \/ \E i \in DOMAIN rawHeld : rawHeld[i].n = n /\ rawHeld[i].what = "raw"
  \/ /\ \E i \in DOMAIN rawHeld : rawHeld[i].n = n /\ rawHeld[i].what = "data"
     /\ <<"transform", n>> \notin ToSet(side)

\* The transformed tensors of n are referenced as the batch the caller works
\* on, or as one the stream has not finished.
NewHeld(n) ==
  prev = n \/ \E i \in DOMAIN outHeld : outHeld[i].n = n /\ outHeld[i].what = "new"

\* No memory is given back while the GPU still has to read it: the raw
\* tensors while their copy or transform is queued, the transformed ones
\* while the train step that uses them is - through failures, timeouts of
\* close() and the end of the worker.
StorageHeld ==
  /\ \A op \in ToSet(side) : RawHeld(op[2])
  /\ \A op \in ToSet(main) : IF op[1] = "step" THEN NewHeld(op[2]) ELSE RawHeld(op[2])

\* What the caller is told is true: a StopIteration comes after every batch
\* of an input that really ended and leaves nothing behind, an error only
\* when the input, the transform or the cleanup raised.
OutcomeIsTrue ==
  /\ out = "end" => src = "ended" /\ ~broken /\ got = pulled /\ closed
  /\ out = "error" => src = "failed" \/ broken
  /\ closed => wpc \in {"new", "dead"} /\ rawQ = <<>> /\ outQ = <<>> /\ ~inputRef

\* Every call returns, although notify() may never come and an opening of
\* the gate may be lost, and a stopped worker ends.
NothingWaitsForever ==
  /\ (cpc # "idle") ~> (cpc = "idle")
  /\ stop ~> (wpc \in {"new", "dead"})
=============================================================================
