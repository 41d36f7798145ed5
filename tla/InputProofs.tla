---------------------------- MODULE InputProofs ----------------------------
(***************************************************************************)
(* Proofs about how batches are read.                                      *)
(*   - Prefetch: the worker, the queue and the consumer, for every number  *)
(*     of items and every buffer size.                                     *)
(*   - IoState: one reader over saves, epochs and restarts, for any number *)
(*     of batches, epochs and restarts and any depth of prefetching.       *)
(***************************************************************************)
EXTENDS Prefetch, IoState, FiniteSetTheorems, TLAPS

----------------------------------------------------------------------------
(* The host prefetch iterator.                                              *)


\* Items between the input and the caller: queued ones continue the delivered
\* ones without a gap, and only the last message can be a terminal one.
QueueInOrder ==
  \A i \in 1..Len(queue) :
    \/ queue[i] = Item(got + i)
    \/ i = Len(queue) /\ wpc \in {"exit", "dead"} /\ queue[i] = terminal

Holding == wpc \in {"put", "putting"}

\* What a running worker (stop not raised) has produced and not delivered.
Accounted ==
  ~stop =>
    /\ wpc \in {"new", "loop", "next", "close", "final"} => pulled = got + Len(queue)
    /\ Holding /\ hand.kind = "item" => /\ pulled = got + Len(queue) + 1
                                       /\ hand = Item(pulled)
    /\ Holding /\ hand.kind # "item" => pulled = got + Len(queue) /\ hand = terminal
    /\ wpc \in {"exit", "dead"} => /\ pulled = got + Len(queue) - 1
                                   /\ Len(queue) # 0
                                   /\ queue[Len(queue)] = terminal

\* A worker that was inside next() or _put() when the flag went up keeps the
\* order too.
HeldInOrder ==
  /\ wpc = "next" => pulled = got + Len(queue)
  /\ Holding => hand # Nothing
  /\ Holding /\ hand.kind # "item" => hand = terminal
  /\ Holding /\ hand.kind = "item" => hand = Item(got + Len(queue) + 1)

\* The terminal message agrees with what the input did.
TerminalTellsInput ==
  ~stop =>
    /\ wpc \in {"new", "loop", "next"} \/ (Holding /\ hand.kind = "item")
         => src = "open" /\ terminal = End
    /\ wpc = "close" => \/ src = "ended" /\ terminal = End
                        \/ src = "failed" /\ terminal = Failure
    /\ wpc \in {"final", "exit", "dead"} \/ (Holding /\ hand.kind # "item")
         => \/ src = "ended" /\ terminal = End /\ ~inputRef
            \/ src = "failed" /\ terminal = Failure

\* Control: which program counters go together.
ControlInv ==
  /\ started <=> wpc # "new"
  /\ cpc \in {"get", "alive", "recheck"} => started /\ ~stop
  /\ cpc = "recheck" => wpc = "dead"
  /\ cpc \in {"join", "input", "drain"} => stop
  /\ cpc \in {"input", "drain"} => wpc \in {"new", "dead"}
  /\ cpc = "drain" => ~inputRef
  /\ cpc = "join" => started
  /\ closed => /\ stop /\ cpc = "idle" /\ wpc \in {"new", "dead"}
               /\ queue = <<>> /\ ~inputRef
  /\ why = "none" <=> ~stop
  /\ why # "lost"
  /\ why = "close" => out # "open"
  /\ ~stop => out = "open"
  /\ wpc = "new" => queue = <<>>
  /\ wpc = "next" => src = "open"

\* A finish on its way to the caller, or already reported.
FinishInv ==
  /\ why = "end" /\ out = "open" =>
       got = pulled /\ wpc \in {"exit", "dead"} /\ src = "ended" /\ ~inputRef
  /\ why = "error" /\ out = "open" =>
       got = pulled /\ wpc \in {"exit", "dead"} /\ src = "failed"
  /\ out = "end" =>
       got = pulled /\ wpc \in {"exit", "dead"} /\ src = "ended" /\ ~inputRef
  /\ out = "error" =>
       got = pulled /\ wpc \in {"exit", "dead"} /\ src = "failed"
  /\ out \in {"end", "error"} => cpc \notin {"get", "alive", "recheck"}

IndInv ==
  /\ TypeOK
  /\ QueueInOrder
  /\ Accounted
  /\ HeldInOrder
  /\ TerminalTellsInput
  /\ ControlInv
  /\ FinishInv

-----------------------------------------------------------------------------
\* What the proofs need to know of messages.
LEMMA MessageFacts ==
  /\ \A n : Item(n).kind = "item" /\ Item(n).n = n
  /\ End.kind = "end" /\ Failure.kind = "error" /\ Nothing.kind = "none"
  /\ End \in Messages /\ Failure \in Messages
  /\ \A n \in 1..MaxItems : Item(n) \in Messages
  /\ \A m \in Messages : m.kind = "item" => m.n \in 1..MaxItems
  BY DEF Item, End, Failure, Nothing, Messages

LEMMA InitEstablishes == Init => IndInv
  <1> SUFFICES ASSUME Init PROVE IndInv
    OBVIOUS
  <1>1. TypeOK
    <2>1. queue \in Seq(Messages) /\ Len(queue) <= BufferSize
      BY PrefetchAssumption DEF Init
    <2>2. hand \in Messages \cup {Nothing} /\ terminal \in {End, Failure}
      BY DEF Init
    <2>3. pulled \in 0..MaxItems /\ got \in 0..MaxItems
      BY PrefetchAssumption DEF Init
    <2> QED
      BY <2>1, <2>2, <2>3 DEF Init, TypeOK
  <1>2. QueueInOrder /\ HeldInOrder /\ Accounted
    BY DEF Init, QueueInOrder, HeldInOrder, Accounted, Holding
  <1>3. TerminalTellsInput /\ ControlInv /\ FinishInv
    BY DEF Init, TerminalTellsInput, ControlInv, FinishInv, Holding
  <1> QED
    BY <1>1, <1>2, <1>3 DEF IndInv

\* A message taken from the queue keeps the invariant, be it an item or the
\* terminal one.
LEMMA TakePreserves ==
  ASSUME IndInv, Take, queue # <<>>, cpc \in {"get", "recheck"}
  PROVE  IndInv'
  <1> USE PrefetchAssumption
  <1> DEFINE m == Head(queue)
  <1>1. /\ queue' = Tail(queue) /\ queue' \in Seq(Messages)
        /\ Len(queue') = Len(queue) - 1
        /\ \A i \in 1..Len(queue') : queue'[i] = queue[i + 1]
        /\ m = queue[1] /\ m \in Messages
        /\ Len(queue) \in Nat /\ Len(queue) # 0
    BY DEF Take, IndInv, TypeOK
  <1>2. /\ ~stop /\ started /\ out = "open" /\ why = "none"
        /\ UNCHANGED <<wvars, inputRef, started, closed, out>>
    BY DEF IndInv, ControlInv, Take
  <1>3. CASE m.kind = "item"
    <2>1. /\ got' = m.n /\ cpc' = "idle" /\ UNCHANGED <<stop, why>>
      BY <1>3 DEF Take
    <2>2. m = Item(got + 1) /\ got' = got + 1 /\ got + 1 \in 1..MaxItems
      <3>1. 1 \in 1..Len(queue)
        BY <1>1
      <3>2. queue[1] = Item(got + 1) \/ queue[1] = terminal
        BY <3>1 DEF IndInv, QueueInOrder
      <3>3. terminal.kind # "item"
        BY MessageFacts DEF IndInv, TypeOK
      <3>4. m = Item(got + 1)
        BY <3>2, <3>3, <1>1, <1>3
      <3> QED
        BY <3>4, <1>1, <1>3, <2>1, MessageFacts
    <2>3. TypeOK'
      BY <1>1, <1>2, <2>1, <2>2 DEF IndInv, TypeOK, wvars
    <2>4. QueueInOrder'
      <3> SUFFICES ASSUME NEW i \in 1..Len(queue')
                   PROVE  \/ queue'[i] = Item(got' + i)
                          \/ /\ i = Len(queue') /\ wpc' \in {"exit", "dead"}
                             /\ queue'[i] = terminal'
        BY DEF QueueInOrder
      <3>1. i + 1 \in 1..Len(queue) /\ queue'[i] = queue[i + 1]
        BY <1>1
      <3>2. \/ queue[i + 1] = Item(got + (i + 1))
            \/ /\ i + 1 = Len(queue) /\ wpc \in {"exit", "dead"}
               /\ queue[i + 1] = terminal
        BY <3>1 DEF IndInv, QueueInOrder
      <3>3. got + (i + 1) = got' + i
        BY <2>2 DEF IndInv, TypeOK
      <3>4. CASE queue[i + 1] = Item(got + (i + 1))
        BY <3>1, <3>3, <3>4
      <3>5. CASE /\ i + 1 = Len(queue) /\ wpc \in {"exit", "dead"}
                 /\ queue[i + 1] = terminal
        <4>1. wpc' = wpc /\ terminal' = terminal
          BY <1>2 DEF wvars
        <4>2. i = Len(queue')
          <5>1. Len(queue') = Len(queue) - 1 /\ Len(queue) \in Nat
            BY <1>1
          <5>2. i + 1 = Len(queue) /\ i \in Nat
            BY <3>5
          <5> QED
            BY <5>1, <5>2
        <4> QED
          BY <3>1, <3>5, <4>1, <4>2
      <3> QED
        BY <3>2, <3>4, <3>5
    <2>5. Accounted'
      <3>1. wpc \in {"exit", "dead"} => Len(queue) # 1
        BY <1>1, <1>2, <1>3 DEF IndInv, TypeOK, Accounted, End, Failure
      <3> QED
        BY SMTT(45), <3>1, <1>1, <1>2, <2>1, <2>2 DEF IndInv, TypeOK, Accounted, Holding, wvars
    <2>6. HeldInOrder'
      BY <1>1, <1>2, <2>1, <2>2
      DEF IndInv, TypeOK, HeldInOrder, Accounted, Holding, wvars, Item
    <2>7. TerminalTellsInput' /\ ControlInv' /\ FinishInv'
      BY <1>1, <1>2, <2>1, <2>2
      DEF IndInv, TypeOK, TerminalTellsInput, ControlInv, FinishInv, Holding, wvars
    <2> QED
      BY <2>3, <2>4, <2>5, <2>6, <2>7 DEF IndInv
  <1>4. CASE m.kind # "item"
    <2>1. stop' = TRUE /\ why' = m.kind /\ cpc' = "join" /\ got' = got
      BY <1>2, <1>4 DEF Take, BeginClose
    <2>2. /\ m = terminal /\ wpc \in {"exit", "dead"} /\ Len(queue) = 1
      <3>1. 1 \in 1..Len(queue)
        BY <1>1
      <3>2. \/ queue[1] = Item(got + 1)
            \/ 1 = Len(queue) /\ wpc \in {"exit", "dead"} /\ queue[1] = terminal
        BY <3>1 DEF IndInv, QueueInOrder
      <3>3. queue[1] # Item(got + 1)
        BY <1>1, <1>4, MessageFacts
      <3> QED
        BY <3>2, <3>3, <1>1
    <2>3. pulled = got /\ queue' = <<>>
      BY <1>1, <1>2, <2>2 DEF IndInv, TypeOK, Accounted
    <2>4. \/ m.kind = "end" /\ src = "ended" /\ ~inputRef
          \/ m.kind = "error" /\ src = "failed"
      BY <1>2, <2>2 DEF IndInv, TerminalTellsInput, End, Failure
    <2>5. TypeOK'
      BY <1>1, <1>2, <2>1, <2>4 DEF IndInv, TypeOK, wvars
    <2>6. QueueInOrder' /\ Accounted' /\ HeldInOrder' /\ TerminalTellsInput'
      BY <1>2, <2>1, <2>2, <2>3
      DEF QueueInOrder, Accounted, HeldInOrder, TerminalTellsInput, Holding, wvars
    <2>7. ControlInv' /\ FinishInv'
      BY <1>2, <2>1, <2>2, <2>3, <2>4
      DEF IndInv, ControlInv, FinishInv, wvars
    <2> QED
      BY <2>5, <2>6, <2>7 DEF IndInv
  <1> QED
    BY <1>3, <1>4

LEMMA StepPreserves == IndInv /\ [Next]_vars => IndInv'
  <1> SUFFICES ASSUME IndInv, [Next]_vars PROVE IndInv'
    OBVIOUS
  <1> USE PrefetchAssumption
      DEF IndInv, TypeOK, QueueInOrder, Accounted, HeldInOrder,
          TerminalTellsInput, ControlInv, FinishInv, Holding, Item, Nothing,
          End, Failure, Messages, vars, wvars, cvars
  <1>1. CASE LoopTest
    BY <1>1 DEF LoopTest
  <1>2. CASE NextYields
    <2>1. TypeOK'
      BY <1>2 DEF NextYields
    <2>2. QueueInOrder'
      BY <1>2 DEF NextYields
    <2>3. Accounted'
      BY <1>2 DEF NextYields
    <2>4. HeldInOrder'
      BY <1>2 DEF NextYields
    <2>5. TerminalTellsInput'
      BY <1>2 DEF NextYields
    <2>6. ControlInv'
      BY <1>2 DEF NextYields
    <2>7. FinishInv'
      BY <1>2 DEF NextYields
    <2> QED
      BY <2>1, <2>2, <2>3, <2>4, <2>5, <2>6, <2>7
  <1>3. CASE NextStops
    BY <1>3 DEF NextStops
  <1>4. CASE NextRaises
    BY <1>4 DEF NextRaises
  <1>5. CASE PutTest
    BY <1>5 DEF PutTest, AfterPut
  <1>6. CASE PutDone
    <2>1. TypeOK'
      BY <1>6 DEF PutDone, AfterPut
    <2>2. QueueInOrder'
      BY <1>6 DEF PutDone, AfterPut
    <2>3. Accounted'
      <3>1. /\ Len(queue') = Len(queue) + 1 /\ queue'[Len(queue) + 1] = hand
            /\ Len(queue) \in Nat /\ UNCHANGED <<got, pulled, terminal, stop>>
        BY <1>6 DEF PutDone
      <3>2. CASE hand.kind = "item"
        BY <1>6, <3>1, <3>2 DEF PutDone, AfterPut
      <3>3. CASE hand.kind # "item"
        BY <1>6, <3>1, <3>3 DEF PutDone, AfterPut
      <3> QED
        BY <3>2, <3>3
    <2>4. HeldInOrder'
      BY <1>6 DEF PutDone, AfterPut
    <2>5. TerminalTellsInput'
      BY <1>6 DEF PutDone, AfterPut
    <2>6. ControlInv'
      BY <1>6 DEF PutDone, AfterPut
    <2>7. FinishInv'
      BY <1>6 DEF PutDone, AfterPut
    <2> QED
      BY <2>1, <2>2, <2>3, <2>4, <2>5, <2>6, <2>7
  <1>7. CASE PutFull
    <2>1. TypeOK'
      BY <1>7 DEF PutFull
    <2>2. QueueInOrder'
      BY <1>7 DEF PutFull
    <2>3. Accounted'
      BY <1>7 DEF PutFull
    <2>4. HeldInOrder'
      BY <1>7 DEF PutFull
    <2>5. TerminalTellsInput'
      BY <1>7 DEF PutFull
    <2>6. ControlInv'
      BY <1>7 DEF PutFull
    <2>7. FinishInv'
      BY <1>7 DEF PutFull
    <2> QED
      BY <2>1, <2>2, <2>3, <2>4, <2>5, <2>6, <2>7
  <1>8. CASE WorkerClosesInput
    <2>1. TypeOK'
      BY ZenonT(60), <1>8 DEF WorkerClosesInput
    <2>2. QueueInOrder'
      BY <1>8 DEF WorkerClosesInput
    <2>3. Accounted'
      BY <1>8 DEF WorkerClosesInput
    <2>4. HeldInOrder'
      BY <1>8 DEF WorkerClosesInput
    <2>5. TerminalTellsInput'
      BY <1>8 DEF WorkerClosesInput
    <2>6. ControlInv'
      BY <1>8 DEF WorkerClosesInput
    <2>7. FinishInv'
      BY <1>8 DEF WorkerClosesInput
    <2> QED
      BY <2>1, <2>2, <2>3, <2>4, <2>5, <2>6, <2>7
  <1>9. CASE RelayTerminal
    BY <1>9 DEF RelayTerminal
  <1>10. CASE ThreadExit
    BY <1>10 DEF ThreadExit
  <1>11. CASE CallNext
    BY <1>11 DEF CallNext
  <1>12. CASE CallClose
    BY <1>12 DEF CallClose, BeginClose
  <1>13. CASE Get
    BY ONLY <1>13, IndInv, TakePreserves DEF Get
  <1>14. CASE GetEmpty
    BY <1>14 DEF GetEmpty
  <1>15. CASE AliveTest
    BY <1>15 DEF AliveTest, WorkerAlive
  <1>16. CASE Recheck
    <2>1. queue # <<>>
      BY <1>16 DEF Recheck
    <2>2. Take /\ cpc = "recheck"
      BY <1>16, <2>1 DEF Recheck
    <2> QED
      BY ONLY IndInv, <2>1, <2>2, TakePreserves
  <1>17. CASE JoinDone
    BY <1>17 DEF JoinDone, WorkerAlive
  <1>18. CASE JoinTimeout
    BY <1>18 DEF JoinTimeout, CloseRaises, WorkerAlive
  <1>19. CASE ConsumerClosesInput
    <2>1. TypeOK'
      BY ZenonT(60), <1>19 DEF ConsumerClosesInput, CloseRaises
    <2>2. QueueInOrder'
      BY <1>19 DEF ConsumerClosesInput, CloseRaises
    <2>3. Accounted'
      BY <1>19 DEF ConsumerClosesInput, CloseRaises
    <2>4. HeldInOrder'
      BY <1>19 DEF ConsumerClosesInput, CloseRaises
    <2>5. TerminalTellsInput'
      BY <1>19 DEF ConsumerClosesInput, CloseRaises
    <2>6. ControlInv'
      BY <1>19 DEF ConsumerClosesInput, CloseRaises
    <2>7. FinishInv'
      BY <1>19 DEF ConsumerClosesInput, CloseRaises
    <2> QED
      BY <2>1, <2>2, <2>3, <2>4, <2>5, <2>6, <2>7
  <1>20. CASE FinishClose
    <2>1. TypeOK'
      BY <1>20 DEF FinishClose
    <2>2. QueueInOrder'
      BY <1>20 DEF FinishClose
    <2>3. Accounted'
      BY <1>20 DEF FinishClose
    <2>4. HeldInOrder'
      BY <1>20 DEF FinishClose
    <2>5. TerminalTellsInput'
      BY <1>20 DEF FinishClose
    <2>6. ControlInv'
      BY <1>20 DEF FinishClose
    <2>7. FinishInv'
      <3>1. CASE out # "open"
        BY <1>20, <3>1 DEF FinishClose
      <3>2. CASE out = "open" /\ why = "end"
        BY <1>20, <3>2 DEF FinishClose
      <3>3. CASE out = "open" /\ why = "error"
        BY <1>20, <3>3 DEF FinishClose
      <3>4. why \in {"end", "error"} \/ out # "open"
        BY <1>20 DEF FinishClose
      <3> QED
        BY <3>1, <3>2, <3>3, <3>4
    <2> QED
      BY <2>1, <2>2, <2>3, <2>4, <2>5, <2>6, <2>7
  <1>21. CASE UNCHANGED vars
    BY <1>21
  <1>22. QED
    BY <1>1, <1>2, <1>3, <1>4, <1>5, <1>6, <1>7, <1>8, <1>9, <1>10, <1>11, <1>12, <1>13, <1>14, <1>15, <1>16, <1>17, <1>18, <1>19, <1>20, <1>21 DEF Next, Worker, Calls, Consumer

-----------------------------------------------------------------------------
\* The inductive invariant holds throughout every execution.
LEMMA Invariance == Spec => []IndInv
  BY InitEstablishes, StepPreserves, PTL DEF Spec

\* Type correctness of the iterator, its queue bound included.
THEOREM TypeCorrect == Spec => []TypeOK
  <1>1. IndInv => TypeOK
    BY DEF IndInv
  <1> QED
    BY <1>1, Invariance, PTL

\* The caller hears of the end or the failure of the input only after every
\* item, whatever the interleaving of worker, consumer and shutdown.
THEOREM FinishComesLast == Spec => []FinishAfterLastItem
  <1>1. IndInv => FinishAfterLastItem
    BY DEF IndInv, FinishInv, FinishAfterLastItem
  <1> QED
    BY <1>1, Invariance, PTL

\* A started worker never leaves its consumer without a result.
THEOREM ResultNeverLost == Spec => []NeverWithoutResult
  <1>1. IndInv => NeverWithoutResult
    BY DEF IndInv, ControlInv, NeverWithoutResult
  <1> QED
    BY <1>1, Invariance, PTL

\* The worker and a caller that closes are never both in the input: close()
\* touches it only once the worker has ended, or has never been started.
THEOREM InputNeverShared == Spec => []InputNotShared
  <1>1. IndInv => InputNotShared
    BY DEF IndInv, ControlInv, InputNotShared, WorkerAlive
  <1> QED
    BY <1>1, Invariance, PTL

\* The input is never used by both threads, and a close() that returned left
\* nothing running, queued or open.
THEOREM ShutdownIsSafe == Spec => [](InputNotShared /\ ClosedIsQuiescent)
  <1>1. IndInv => InputNotShared /\ ClosedIsQuiescent
    BY DEF IndInv, ControlInv, InputNotShared, ClosedIsQuiescent, WorkerAlive
  <1> QED
    BY <1>1, Invariance, PTL

-----------------------------------------------------------------------------
(* Refinement: every step is a step of the abstract stream or a stutter.   *)

\* A message taken is the next item, of those the input has produced, or it
\* is no item at all.
LEMMA TakeDelivers ==
  ASSUME IndInv, Take, queue # <<>>, cpc \in {"get", "recheck"}
  PROVE  /\ UNCHANGED <<pulled, src, out>>
         /\ out = "open"
         /\ UNCHANGED got \/ (got' = got + 1 /\ got < pulled)
  <1>1. out = "open" /\ ~stop /\ UNCHANGED <<pulled, src, out>>
    BY DEF Take, IndInv, ControlInv, wvars
  <1>2. CASE got' = got
    BY <1>1, <1>2
  <1>3. CASE got' # got
    <2>1. Head(queue).kind = "item" /\ got' = Head(queue).n
      BY <1>3 DEF Take
    <2>2. queue[1] = Head(queue) /\ 1 \in 1..Len(queue) /\ Len(queue) \in Nat
      BY DEF IndInv, TypeOK
    <2>3. \/ queue[1] = Item(got + 1)
          \/ 1 = Len(queue) /\ wpc \in {"exit", "dead"} /\ queue[1] = terminal
      BY <2>2 DEF IndInv, QueueInOrder
    <2>4. terminal.kind # "item"
      BY MessageFacts DEF IndInv, TypeOK
    <2>5. queue[1] = Item(got + 1) /\ got' = got + 1
      BY <2>1, <2>2, <2>3, <2>4, MessageFacts
    <2>6. wpc \in {"exit", "dead"} => queue[Len(queue)] = terminal
      BY <1>1 DEF IndInv, Accounted
    <2>7. wpc \in {"exit", "dead"} => Len(queue) # 1
      BY <2>4, <2>5, <2>6, MessageFacts
    <2>8. got < pulled
      <3>1. Len(queue) \in Nat /\ Len(queue) >= 1 /\ got \in Nat /\ pulled \in Nat
        BY <2>2 DEF IndInv, TypeOK
      <3>2. \/ pulled = got + Len(queue) \/ pulled = got + Len(queue) + 1
            \/ pulled = got + Len(queue) - 1 /\ Len(queue) # 1
        BY <1>1, <2>7 DEF IndInv, TypeOK, Accounted, Holding
      <3>3. \A g, p, l \in Nat :
              l >= 1 /\ (p = g + l \/ p = g + l + 1 \/ (p = g + l - 1 /\ l # 1))
                => g < p
        OBVIOUS
      <3> QED
        BY <3>1, <3>2, <3>3
    <2> QED
      BY <1>1, <2>5, <2>8
  <1> QED
    BY <1>2, <1>3

LEMMA StepRefines ==
  IndInv /\ [Next]_vars => [Abstract!StreamNext]_(Abstract!streamVars)
  <1> SUFFICES ASSUME IndInv, [Next]_vars
               PROVE  Abstract!StreamNext \/ UNCHANGED <<pulled, src, got, out>>
    BY DEF Abstract!streamVars
  <1> USE DEF vars, wvars, cvars
  <1>1. CASE NextYields
    BY <1>1 DEF NextYields, IndInv, ControlInv, Abstract!StreamNext, Abstract!Produce
  <1>2. CASE NextStops
    BY <1>2 DEF NextStops, IndInv, ControlInv, Abstract!StreamNext, Abstract!Finish
  <1>3. CASE NextRaises
    BY <1>3 DEF NextRaises, IndInv, ControlInv, Abstract!StreamNext, Abstract!Finish
  <1>4. CASE WorkerClosesInput
    BY <1>4 DEF WorkerClosesInput, Abstract!StreamNext, Abstract!Finish
  <1>5. ASSUME Take, queue # <<>>, cpc \in {"get", "recheck"}
        PROVE  Abstract!StreamNext \/ UNCHANGED <<pulled, src, got, out>>
    BY <1>5, TakeDelivers DEF Abstract!StreamNext, Abstract!Deliver
  <1>6. CASE Get
    BY <1>5, <1>6 DEF Get
  <1>7. CASE Recheck
    BY <1>5, <1>7 DEF Recheck
  <1>8. CASE CallClose
    BY <1>8 DEF CallClose, Abstract!StreamNext, Abstract!Abandon
  <1>9. ASSUME CloseRaises, UNCHANGED <<pulled, src, got>>
        PROVE  Abstract!StreamNext \/ UNCHANGED <<pulled, src, got, out>>
    BY <1>9 DEF CloseRaises, IndInv, FinishInv, Abstract!StreamNext,
                Abstract!Conclude, Abstract!Abandon
  <1>10. CASE JoinTimeout
    BY <1>9, <1>10 DEF JoinTimeout
  <1>11. CASE ConsumerClosesInput
    BY <1>9, <1>11 DEF ConsumerClosesInput
  <1>12. CASE FinishClose
    <2>1. why \in {"end", "error"} \/ out # "open"
      BY <1>12 DEF FinishClose, IndInv, TypeOK, ControlInv
    <2>2. CASE out # "open"
      BY <1>12, <2>2 DEF FinishClose
    <2>3. CASE out = "open" /\ why = "end"
      BY <1>12, <2>3 DEF FinishClose, IndInv, FinishInv, Abstract!StreamNext,
                         Abstract!Conclude
    <2>4. CASE out = "open" /\ why = "error"
      BY <1>12, <2>4 DEF FinishClose, IndInv, FinishInv, Abstract!StreamNext,
                         Abstract!Conclude
    <2> QED
      BY <2>1, <2>2, <2>3, <2>4
  <1>13. CASE \/ LoopTest \/ PutTest \/ PutDone \/ PutFull \/ RelayTerminal
              \/ ThreadExit
    BY <1>13 DEF LoopTest, PutTest, PutDone, PutFull, RelayTerminal, ThreadExit
  <1>14. CASE CallNext \/ GetEmpty \/ AliveTest \/ JoinDone \/ UNCHANGED vars
    BY <1>14 DEF CallNext, GetEmpty, AliveTest, JoinDone
  <1> QED
    BY <1>1, <1>2, <1>3, <1>4, <1>6, <1>7, <1>8, <1>10, <1>11, <1>12, <1>13,
       <1>14 DEF Next, Worker, Calls, Consumer

\* The prefetch iterator implements the abstract stream.
THEOREM Refinement == Spec => RefinesStream
  <1>1. Init => Abstract!StreamInit
    BY DEF Init, Abstract!StreamInit
  <1> QED
    BY <1>1, Invariance, StepRefines, PTL
    DEF Spec, RefinesStream, Abstract!StreamSpec

\* Items reach the caller in order, none skipped and none repeated.
THEOREM DeliveryInOrder == Spec => InOrder
  <1>1. IndInv /\ [Next]_vars => [got' # got => got' = got + 1]_vars
    BY StepRefines
    DEF Abstract!streamVars, Abstract!StreamNext, Abstract!Produce,
        Abstract!Finish, Abstract!Deliver, Abstract!Conclude, Abstract!Abandon
  <1> QED
    BY <1>1, Invariance, PTL DEF Spec, InOrder

----------------------------------------------------------------------------
(* The position of a reader.                                                *)

\* The position where a reader starts with the given io state.
From(io) == IF io = Empty THEN 0 ELSE io

\* The weights w saw no batch twice, and nothing of epoch e from position p on
\* or of a later epoch.
Clean(w, e, p) ==
  \A d \in EpochSet : \A b \in BatchSet :
    /\ w[d][b] <= 1
    /\ d > e \/ (d = e /\ b >= p) => w[d][b] = 0

\* Every batch of the first epoch up to position p, or all when it is over.
Trained(w, e, p) == \A b \in BatchSet : e > 0 \/ b < p => w[0][b] = 1

Running == place \in {"loop", "after_step"}

\* What the loop and the checkpoint hold is clean from where they go on.
CleanInv ==
  /\ Running => epoch < Epochs /\ Clean(seen, epoch, next)
  /\ place = "iter" => epoch < Epochs /\ Clean(seen, epoch, From(load_states))
  /\ place \in {"after_epoch", "end", "done"} => io_state = Empty /\ Clean(seen, epoch, 0)
  /\ place = "down" => \A d \in EpochSet : \A b \in BatchSet : seen[d][b] <= 1
  /\ Clean(ckpt.seen, ckpt.epoch, From(ckpt.io))

IoInv == IoTypeOK /\ CleanInv

\* The parts of the type invariant that each step uses.
LEMMA Parameters ==
  /\ Batches \in Nat \ {0} /\ Epochs \in Nat \ {0} /\ Ahead \in Nat
  /\ 0 \in EpochSet /\ 0 \in Positions
  BY IoStateAssumption DEF EpochSet, Positions

\* A later start is as clean as an earlier one.
LEMMA CleanLater ==
  ASSUME NEW w \in Weights, NEW e \in Nat, NEW p \in Nat, NEW q \in Nat, p <= q, Clean(w, e, p)
  PROVE  Clean(w, e, q)
  BY Parameters DEF Clean, BatchSet, EpochSet

\* The first start of the job.
LEMMA InitInv == IoInit => IoInv
<1> SUFFICES ASSUME IoInit PROVE IoInv
  OBVIOUS
<1>1. Unseen \in Weights /\ \A d \in EpochSet : \A b \in BatchSet : Unseen[d][b] = 0
  BY DEF Unseen, Weights
<1>2. IoTypeOK
  BY <1>1, Parameters DEF IoInit, IoTypeOK, Empty
<1>3. CleanInv
  BY <1>1, Parameters DEF IoInit, CleanInv, Clean, Running, From
<1>4. QED
  BY <1>2, <1>3 DEF IoInv

\* A reader starts where its io state says.
LEMMA IterInv == IoInv /\ Iter => IoInv'
<1> SUFFICES ASSUME IoInv, Iter PROVE IoInv'
  OBVIOUS
<1>1. /\ place = "iter" /\ place' = "loop" /\ next' = From(load_states) /\ pos' = next'
      /\ io_state' = pos' /\ UNCHANGED <<epoch, seen, load_states, ckpt, lives>>
  BY DEF Iter, From
<1>2. From(load_states) \in Positions
  BY Parameters DEF IoInv, IoTypeOK, From
<1>3. IoTypeOK'
  <2>1. pos' - next' = 0
    BY <1>1, <1>2, Parameters DEF Positions
  <2>2. QED
    BY <1>1, <1>2, <2>1, Parameters DEF IoInv, IoTypeOK
<1>4. CleanInv'
  BY <1>1 DEF IoInv, CleanInv, Running, Clean, From
<1>5. QED
  BY <1>3, <1>4 DEF IoInv

\* Reading ahead moves the reader only.
LEMMA ReadAheadInv == IoInv /\ ReadAhead => IoInv'
<1> SUFFICES ASSUME IoInv, ReadAhead PROVE IoInv'
  OBVIOUS
<1>1. /\ pos < Batches /\ pos - next < Ahead /\ pos' = pos + 1
      /\ UNCHANGED <<place, epoch, next, seen, io_state, load_states, ckpt, lives>>
  BY DEF ReadAhead
<1>2. IoTypeOK'
  <2>1. pos' \in Positions /\ pos' - next \in 0 .. Ahead
    BY <1>1, Parameters DEF IoInv, IoTypeOK, Positions
  <2>2. QED
    BY <1>1, <2>1 DEF IoInv, IoTypeOK
<1>3. CleanInv'
  BY <1>1 DEF IoInv, CleanInv, Running, Clean, From
<1>4. QED
  BY <1>2, <1>3 DEF IoInv

\* A step trains on a batch that the weights have not seen in this epoch.
LEMMA TrainStepInv == IoInv /\ TrainStep => IoInv'
<1> SUFFICES ASSUME IoInv, TrainStep PROVE IoInv'
  OBVIOUS
<1>1. /\ place = "loop" /\ next < Batches /\ place' = "after_step" /\ next' = next + 1
      /\ pos' = IF pos = next THEN pos + 1 ELSE pos
      /\ UNCHANGED <<epoch, io_state, load_states, ckpt, lives>>
  BY DEF TrainStep
<1>2. /\ next \in BatchSet /\ epoch \in EpochSet /\ epoch < Epochs
      /\ Clean(seen, epoch, next) /\ Clean(ckpt.seen, ckpt.epoch, From(ckpt.io))
  BY <1>1, Parameters DEF IoInv, IoTypeOK, CleanInv, Running, Positions, BatchSet, EpochSet
<1>3. /\ seen' \in Weights
      /\ \A d \in EpochSet : \A b \in BatchSet :
           seen'[d][b] = IF d = epoch /\ b = next THEN seen[d][b] + 1 ELSE seen[d][b]
  <2>1. seen' = [seen EXCEPT ![epoch] = [seen[epoch] EXCEPT ![next] = seen[epoch][next] + 1]]
    BY DEF TrainStep
  <2>2. [seen[epoch] EXCEPT ![next] = seen[epoch][next] + 1] \in [BatchSet -> Nat]
    BY <1>2 DEF IoInv, IoTypeOK, Weights
  <2>3. QED
    BY <1>2, <2>1, <2>2 DEF IoInv, IoTypeOK, Weights
<1>4. IoTypeOK'
  <2>1. pos' \in Positions /\ next' \in Positions /\ pos' - next' \in 0 .. Ahead
    BY <1>1, Parameters DEF IoInv, IoTypeOK, Positions
  <2>2. QED
    BY <1>1, <1>3, <2>1 DEF IoInv, IoTypeOK
<1>5. Clean(seen', epoch, next + 1)
  <2> SUFFICES ASSUME NEW d \in EpochSet, NEW b \in BatchSet
               PROVE  /\ seen'[d][b] <= 1
                      /\ d > epoch \/ (d = epoch /\ b >= next + 1) => seen'[d][b] = 0
    BY DEF Clean
  <2>1. d \in Int /\ b \in Int /\ epoch \in Int /\ next \in Int /\ seen[d][b] \in Nat
    BY <1>2, Parameters DEF IoInv, IoTypeOK, Weights, EpochSet, BatchSet
  <2>2. seen[d][b] <= 1 /\ (d > epoch \/ (d = epoch /\ b >= next) => seen[d][b] = 0)
    BY <1>2 DEF Clean
  <2>3. QED
    BY <1>3, <2>1, <2>2
<1>6. CleanInv'
  BY <1>1, <1>2, <1>5 DEF CleanInv, Running
<1>7. QED
  BY <1>4, <1>6 DEF IoInv

\* The saves between the steps.
LEMMA AfterStepInv == IoInv /\ (SaveAfterStep \/ SkipAfterStep) => IoInv'
<1> SUFFICES ASSUME IoInv, SaveAfterStep \/ SkipAfterStep PROVE IoInv'
  OBVIOUS
<1>1. /\ place = "after_step" /\ place' = "loop"
      /\ UNCHANGED <<epoch, pos, next, seen, load_states, lives>>
      /\ io_state' \in {io_state, pos}
      /\ ckpt' \in {ckpt, [seen |-> seen, epoch |-> epoch, io |-> pos]}
  BY DEF SaveAfterStep, SkipAfterStep, Snapshot
<1>2. IoTypeOK'
  BY <1>1 DEF IoInv, IoTypeOK
<1>3. /\ pos \in Nat /\ next \in Nat /\ epoch \in Nat /\ next <= pos /\ pos # Empty
      /\ epoch < Epochs /\ Clean(seen, epoch, next)
  BY <1>1, Parameters DEF IoInv, IoTypeOK, CleanInv, Running, Positions, Empty
<1>4. Clean(seen, epoch, From(pos))
  BY <1>3, CleanLater DEF IoInv, IoTypeOK, From
<1>5. Clean(ckpt.seen, ckpt.epoch, From(ckpt.io))'
  BY <1>1, <1>4 DEF IoInv, CleanInv, Clean, From
<1>6. CleanInv'
  BY <1>1, <1>3, <1>5 DEF CleanInv, Running, Clean
<1>7. QED
  BY <1>2, <1>6 DEF IoInv

\* The end of an epoch leaves the next one untouched.
LEMMA EndEpochInv == IoInv /\ EndEpoch => IoInv'
<1> SUFFICES ASSUME IoInv, EndEpoch PROVE IoInv'
  OBVIOUS
<1>1. /\ place = "loop" /\ place' = "after_epoch" /\ io_state' = Empty /\ epoch' = epoch + 1
      /\ UNCHANGED <<pos, next, seen, load_states, ckpt, lives>>
  BY DEF EndEpoch
<1>2. epoch < Epochs /\ Clean(seen, epoch, next) /\ Clean(ckpt.seen, ckpt.epoch, From(ckpt.io))
  BY <1>1 DEF IoInv, CleanInv, Running
<1>3. IoTypeOK'
  <2>1. epoch' \in 0 .. Epochs
    BY <1>1, <1>2, Parameters DEF IoInv, IoTypeOK
  <2>2. QED
    BY <1>1, <2>1 DEF IoInv, IoTypeOK
<1>4. Clean(seen, epoch + 1, 0)
  BY <1>2, Parameters DEF IoInv, IoTypeOK, Clean, EpochSet, BatchSet
<1>5. CleanInv'
  BY <1>1, <1>2, <1>4 DEF CleanInv, Running
<1>6. QED
  BY <1>3, <1>5 DEF IoInv

\* The saves after an epoch and at the end.
LEMMA AfterEpochInv == IoInv /\ (SaveAfterEpoch \/ SkipAfterEpoch \/ SaveAtEnd) => IoInv'
<1> SUFFICES ASSUME IoInv, SaveAfterEpoch \/ SkipAfterEpoch \/ SaveAtEnd PROVE IoInv'
  OBVIOUS
<1>1. /\ place \in {"after_epoch", "end"} /\ io_state = Empty /\ Clean(seen, epoch, 0)
      /\ place' \in {"iter", "end", "done"} /\ (place' = "iter" => epoch < Epochs)
      /\ UNCHANGED <<epoch, pos, next, seen, io_state, load_states, lives>>
      /\ ckpt' \in {ckpt, [seen |-> seen, epoch |-> epoch, io |-> io_state]}
  BY DEF IoInv, CleanInv, SaveAfterEpoch, SkipAfterEpoch, SaveAtEnd, Snapshot, AfterEpoch
<1>2. IoTypeOK'
  BY <1>1 DEF IoInv, IoTypeOK
<1>3. From(load_states) \in Nat /\ epoch \in Nat
  BY Parameters DEF IoInv, IoTypeOK, From, Positions
<1>4. Clean(seen, epoch, From(load_states))
  BY <1>1, <1>3, CleanLater DEF IoInv, IoTypeOK
<1>5. Clean(ckpt.seen, ckpt.epoch, From(ckpt.io))'
  BY <1>1 DEF IoInv, CleanInv, Clean, From
<1>6. CleanInv'
  BY <1>1, <1>4, <1>5 DEF CleanInv, Running, Clean, From
<1>7. QED
  BY <1>2, <1>6 DEF IoInv

\* A crash and a restart: the weights of the checkpoint with its position.
LEMMA RestartInv == IoInv /\ (Crash \/ Resume) => IoInv'
<1> SUFFICES ASSUME IoInv, Crash \/ Resume PROVE IoInv'
  OBVIOUS
<1>1. CASE Crash
  <2>1. /\ place # "down" /\ place' = "down"
        /\ UNCHANGED <<epoch, pos, next, seen, io_state, load_states, ckpt, lives>>
    BY <1>1 DEF Crash
  <2>2. IoTypeOK'
    BY <2>1 DEF IoInv, IoTypeOK
  <2>3. \A d \in EpochSet : \A b \in BatchSet : seen[d][b] <= 1
    BY <2>1 DEF IoInv, IoTypeOK, CleanInv, Running, Clean
  <2>4. CleanInv'
    BY <2>1, <2>3 DEF IoInv, CleanInv, Running, Clean, From
  <2>5. QED
    BY <2>2, <2>4 DEF IoInv
<1>2. CASE Resume
  <2>1. /\ seen' = ckpt.seen /\ epoch' = ckpt.epoch /\ load_states' = ckpt.io /\ io_state' = Empty
        /\ pos' = 0 /\ next' = 0 /\ lives' = lives + 1 /\ ckpt' = ckpt
        /\ place' = IF ckpt.epoch < Epochs THEN "iter" ELSE "end"
    BY <1>2 DEF Resume
  <2>2. IoTypeOK'
    BY <2>1, Parameters DEF IoInv, IoTypeOK, Positions
  <2>3. Clean(ckpt.seen, ckpt.epoch, From(ckpt.io))
    BY DEF IoInv, CleanInv
  <2>4. ~(ckpt.epoch < Epochs) => Clean(ckpt.seen, ckpt.epoch, 0)
    BY <2>3, Parameters DEF IoInv, IoTypeOK, Clean, EpochSet
  <2>5. CleanInv'
    BY <2>1, <2>3, <2>4 DEF CleanInv, Running
  <2>6. QED
    BY <2>2, <2>5 DEF IoInv
<1>3. QED
  BY <1>1, <1>2

\* A step that changes nothing.
LEMMA StutterInv == IoInv /\ UNCHANGED ioVars => IoInv'
  BY DEF ioVars, IoInv, IoTypeOK, CleanInv, Running, Clean, From

\* The inductive invariant holds throughout.
LEMMA IoInvariance == IoSpec => []IoInv
<1>1. IoInv /\ [IoNext]_ioVars => IoInv'
  BY IterInv, ReadAheadInv, TrainStepInv, AfterStepInv, EndEpochInv, AfterEpochInv, RestartInv,
     StutterInv DEF IoNext
<1>2. QED
  BY <1>1, InitInv, PTL DEF IoSpec

\* Type correctness, with the bound on what is read ahead.
THEOREM IoTypeCorrect == IoSpec => []IoTypeOK
<1>1. IoInv => IoTypeOK
  BY DEF IoInv
<1>2. QED
  BY <1>1, IoInvariance, PTL

\* No restart makes the weights see a batch twice in an epoch, for any number
\* of batches, epochs, restarts and any depth of prefetching.
THEOREM NoBatchTwice == IoSpec => []NeverTwice
<1>1. IoInv => NeverTwice
  BY DEF IoInv, CleanInv, Running, IoTypeOK, Clean, NeverTwice
<1>2. QED
  BY <1>1, IoInvariance, PTL

\* What the loop and the checkpoint of a job with one epoch hold has been
\* trained on everything before the place where they go on.
TrainedInv ==
  /\ Running => Trained(seen, epoch, next)
  /\ place = "iter" => Trained(seen, epoch, From(load_states))
  /\ place \in {"after_epoch", "end", "done"} => epoch = 1 /\ Trained(seen, epoch, 0)
  /\ Trained(ckpt.seen, ckpt.epoch, From(ckpt.io))

\* Without reading ahead, a step of a job with one epoch keeps TrainedInv.
LEMMA TrainedStep ==
  ASSUME Ahead = 0, Epochs = 1, IoInv, TrainedInv, [IoNext]_ioVars
  PROVE  TrainedInv'
<1>1. CASE Iter
  BY <1>1 DEF Iter, TrainedInv, Running, Trained, From
<1>2. CASE ReadAhead
  BY <1>2 DEF ReadAhead, TrainedInv, Running, Trained, From
<1>3. CASE TrainStep
  <2>1. /\ place = "loop" /\ next < Batches /\ place' = "after_step" /\ next' = next + 1
        /\ UNCHANGED <<epoch, io_state, load_states, ckpt, lives>>
        /\ seen' = [seen EXCEPT ![epoch][next] = @ + 1]
    BY <1>3 DEF TrainStep
  <2>2. /\ epoch = 0 /\ next \in BatchSet /\ seen \in Weights
        /\ Clean(seen, epoch, next) /\ Trained(seen, epoch, next)
        /\ Trained(ckpt.seen, ckpt.epoch, From(ckpt.io))
    BY <2>1, Parameters DEF IoInv, IoTypeOK, CleanInv, TrainedInv, Running, Positions, BatchSet
  <2>3. \A b \in BatchSet : seen'[0][b] = IF b = next THEN seen[0][b] + 1 ELSE seen[0][b]
    BY <2>1, <2>2, Parameters DEF Weights
  <2>4. seen[0][next] = 0
    <3>1. next >= next /\ 0 \in EpochSet
      BY <2>2, Parameters DEF BatchSet
    <3>2. QED
      BY <2>2, <3>1 DEF Clean
  <2>5. Trained(seen', epoch, next + 1)
    <3> SUFFICES ASSUME NEW b \in BatchSet, epoch > 0 \/ b < next + 1 PROVE seen'[0][b] = 1
      BY DEF Trained
    <3>1. b = next \/ b < next
      BY <2>2, Parameters DEF BatchSet
    <3>2. QED
      BY <2>2, <2>3, <2>4, <3>1 DEF Trained
  <2>6. QED
    BY <2>1, <2>2, <2>5 DEF TrainedInv, Running
<1>4. CASE SaveAfterStep \/ SkipAfterStep
  <2>1. /\ place = "after_step" /\ place' = "loop"
        /\ UNCHANGED <<epoch, pos, next, seen, load_states, lives>>
        /\ ckpt' \in {ckpt, [seen |-> seen, epoch |-> epoch, io |-> pos]}
    BY <1>4 DEF SaveAfterStep, SkipAfterStep, Snapshot
  <2>2. pos = next /\ From(pos) = next
    BY Parameters DEF IoInv, IoTypeOK, Positions, From, Empty
  <2>3. Trained(ckpt.seen, ckpt.epoch, From(ckpt.io))'
    BY <2>1, <2>2 DEF TrainedInv, Running, Trained, From
  <2>4. QED
    BY <2>1, <2>3 DEF TrainedInv, Running, Trained
<1>5. CASE EndEpoch
  <2>1. /\ place = "loop" /\ next = Batches /\ place' = "after_epoch" /\ epoch' = epoch + 1
        /\ UNCHANGED <<seen, load_states, ckpt>>
    BY <1>5 DEF EndEpoch
  <2>2. epoch = 0 /\ Trained(seen, epoch, Batches)
    BY <2>1, Parameters DEF IoInv, IoTypeOK, CleanInv, TrainedInv, Running
  <2>3. Trained(seen, 1, 0)
    BY <2>2, Parameters DEF Trained, BatchSet
  <2>4. QED
    BY <2>1, <2>2, <2>3 DEF TrainedInv, Running
<1>6. CASE SaveAfterEpoch \/ SkipAfterEpoch \/ SaveAtEnd
  <2>1. /\ place \in {"after_epoch", "end"} /\ io_state = Empty
        /\ epoch = 1 /\ Trained(seen, epoch, 0)
    BY <1>6 DEF IoInv, CleanInv, TrainedInv, SaveAfterEpoch, SkipAfterEpoch, SaveAtEnd
  <2>2. /\ place' \in {"end", "done"}
        /\ UNCHANGED <<epoch, pos, next, seen, io_state, load_states, lives>>
        /\ ckpt' \in {ckpt, [seen |-> seen, epoch |-> epoch, io |-> io_state]}
    BY <1>6, <2>1 DEF SaveAfterEpoch, SkipAfterEpoch, SaveAtEnd, Snapshot, AfterEpoch
  <2>3. Trained(ckpt.seen, ckpt.epoch, From(ckpt.io))'
    BY <2>1, <2>2 DEF TrainedInv, Trained, From
  <2>4. QED
    BY <2>1, <2>2, <2>3 DEF TrainedInv, Running, Trained
<1>7. CASE Crash
  BY <1>7 DEF Crash, TrainedInv, Running, Trained, From
<1>8. CASE Resume
  <2>1. /\ seen' = ckpt.seen /\ epoch' = ckpt.epoch /\ load_states' = ckpt.io /\ ckpt' = ckpt
        /\ place' = IF ckpt.epoch < Epochs THEN "iter" ELSE "end"
    BY <1>8 DEF Resume
  <2>2. Trained(ckpt.seen, ckpt.epoch, From(ckpt.io)) /\ ckpt.epoch \in 0 .. 1
    BY DEF IoInv, IoTypeOK, TrainedInv
  <2>3. ~(ckpt.epoch < Epochs) => ckpt.epoch = 1 /\ Trained(ckpt.seen, ckpt.epoch, 0)
    BY <2>2 DEF Trained
  <2>4. QED
    BY <2>1, <2>2, <2>3 DEF TrainedInv, Running
<1>9. CASE UNCHANGED ioVars
  BY <1>9 DEF ioVars, TrainedInv, Running, Trained, From
<1>10. QED
  BY <1>1, <1>2, <1>3, <1>4, <1>5, <1>6, <1>7, <1>8, <1>9 DEF IoNext

\* A job with one epoch and without reading ahead trains exactly once on each
\* batch, however often it is interrupted and whenever it saves.
THEOREM ResumeIsExact ==
  ASSUME Ahead = 0, Epochs = 1
  PROVE  IoSpec => []EveryBatchTrained
<1>1. IoInit => TrainedInv
  BY Parameters DEF IoInit, TrainedInv, Running, Trained, From, BatchSet
<1>2. IoInv /\ TrainedInv /\ [IoNext]_ioVars => TrainedInv'
  BY TrainedStep
<1>3. TrainedInv => EveryBatchTrained
  BY DEF TrainedInv, Trained, EveryBatchTrained, EpochSet
<1>4. QED
  BY <1>1, <1>2, <1>3, IoInvariance, PTL DEF IoSpec

\* The batches that weights w have missed, behind one they were trained on,
\* when they go on from position p of epoch e.
Lost(w, e, p) ==
  {m \in EpochSet \X BatchSet :
     /\ m[1] < e \/ (m[1] = e /\ m[2] < p)
     /\ w[m[1]][m[2]] = 0
     /\ \E b \in 0 .. m[2] - 1 : w[m[1]][b] > 0}

\* Every restart so far may have cost what was read ahead, and the checkpoint
\* may hold the loss of the next one.
LossInv ==
  /\ lives \in Nat \ {0}
  /\ Running => Cardinality(Lost(seen, epoch, next)) <= (lives - 1) * Ahead
  /\ place = "iter" =>
       Cardinality(Lost(seen, epoch, From(load_states))) <= (lives - 1) * Ahead
  /\ place \in {"after_epoch", "end", "done"} =>
       Cardinality(Lost(seen, epoch, 0)) <= (lives - 1) * Ahead
  /\ Cardinality(Lost(ckpt.seen, ckpt.epoch, From(ckpt.io))) <= lives * Ahead

\* The losses are finite.
LEMMA LostFinite ==
  ASSUME NEW w, NEW e, NEW p
  PROVE  IsFiniteSet(Lost(w, e, p)) /\ Cardinality(Lost(w, e, p)) \in Nat
<1>1. IsFiniteSet(BatchSet) /\ IsFiniteSet(EpochSet)
  BY Parameters, FS_Interval DEF BatchSet, EpochSet
<1>2. IsFiniteSet(EpochSet \X BatchSet)
  BY <1>1, FS_Product
<1>3. Lost(w, e, p) \subseteq EpochSet \X BatchSet
  BY DEF Lost
<1>4. IsFiniteSet(Lost(w, e, p))
  BY <1>2, <1>3, FS_Subset
<1>5. QED
  BY <1>4, FS_CardinalityType

\* Nothing is lost at the front of an epoch that was not trained on yet, nor
\* after the last epoch.
LEMMA LostAtFront ==
  ASSUME NEW w \in Weights, NEW e \in Nat, NEW p \in Nat, Clean(w, e, 0)
  PROVE  Lost(w, e, p) = Lost(w, e, 0)
<1>1. SUFFICES ASSUME NEW m \in EpochSet \X BatchSet, m[1] = e,
                      NEW b \in 0 .. m[2] - 1, w[m[1]][b] > 0
               PROVE  FALSE
  BY Parameters DEF Lost, BatchSet
<1>2. m[1] \in EpochSet /\ m[2] \in BatchSet
  BY <1>1
<1>3. b \in BatchSet /\ b >= 0
  BY <1>1, <1>2, Parameters DEF BatchSet
<1>4. w[e][b] = 0
  BY <1>1, <1>2, <1>3 DEF Clean
<1>5. QED
  BY <1>1, <1>4

\* The end of an epoch is the start of the next.
LEMMA LostAtEnd ==
  ASSUME NEW w, NEW e \in Nat
  PROVE  Lost(w, e, Batches) = Lost(w, e + 1, 0)
<1>1. ASSUME NEW m \in EpochSet \X BatchSet
      PROVE  (m[1] < e \/ (m[1] = e /\ m[2] < Batches))
                <=> (m[1] < e + 1 \/ (m[1] = e + 1 /\ m[2] < 0))
  <2>1. m[1] \in EpochSet /\ m[2] \in BatchSet
    OBVIOUS
  <2>2. QED
    BY <2>1, Parameters DEF EpochSet, BatchSet
<1>2. QED
  BY <1>1 DEF Lost

\* The bound of one start and of the next, as products that differ by Ahead.
LEMMA Bounds ==
  ASSUME NEW n \in Nat \ {0}
  PROVE  /\ (n - 1) * Ahead \in Nat /\ n * Ahead \in Nat /\ (n + 1) * Ahead \in Nat
         /\ n * Ahead = (n - 1) * Ahead + Ahead
         /\ (n + 1) * Ahead = n * Ahead + Ahead
         /\ (n + 1) - 1 = n
  BY Parameters

\* Going on k batches further misses no more than k batches.
LEMMA LostFurther ==
  ASSUME NEW w, NEW e \in Nat, NEW p \in Nat, NEW q \in Nat, p <= q
  PROVE  Cardinality(Lost(w, e, q)) <= Cardinality(Lost(w, e, p)) + (q - p)
<1> DEFINE gap == {e} \X (p .. q - 1)
<1>1. IsFiniteSet(gap) /\ Cardinality(gap) = q - p
  <2>1. p \in Int /\ q - 1 \in Int
    OBVIOUS
  <2>2. /\ IsFiniteSet(p .. q - 1)
        /\ Cardinality(p .. q - 1) = IF p > q - 1 THEN 0 ELSE (q - 1) - p + 1
    BY <2>1, FS_Interval
  <2>3. IsFiniteSet({e}) /\ Cardinality({e}) = 1
    BY FS_Singleton
  <2>4. /\ IsFiniteSet({e} \X (p .. q - 1))
        /\ Cardinality({e} \X (p .. q - 1)) = Cardinality({e}) * Cardinality(p .. q - 1)
    BY <2>2, <2>3, FS_Product
  <2>5. Cardinality(p .. q - 1) = q - p
    BY <2>2
  <2>6. QED
    BY <2>3, <2>4, <2>5
<1>2. Lost(w, e, q) \subseteq Lost(w, e, p) \cup gap
  <2>1. SUFFICES ASSUME NEW m \in Lost(w, e, q), m \notin Lost(w, e, p) PROVE m \in gap
    OBVIOUS
  <2>2. m \in EpochSet \X BatchSet /\ m[1] \in EpochSet /\ m[2] \in BatchSet
    BY DEF Lost
  <2>3. m[1] = e /\ m[2] < q /\ ~(m[2] < p)
    BY <2>1, <2>2 DEF Lost
  <2>4. m = <<m[1], m[2]>>
    BY <2>2
  <2>5. m[2] \in p .. q - 1
    BY <2>2, <2>3, Parameters DEF BatchSet
  <2>6. QED
    BY <2>3, <2>4, <2>5
<1> HIDE DEF gap
<1>3. /\ IsFiniteSet(Lost(w, e, p)) /\ Cardinality(Lost(w, e, p)) \in Nat
      /\ IsFiniteSet(Lost(w, e, q)) /\ Cardinality(Lost(w, e, q)) \in Nat
  BY LostFinite
<1>4. /\ IsFiniteSet(Lost(w, e, p) \cup gap)
      /\ Cardinality(Lost(w, e, p) \cup gap) =
           Cardinality(Lost(w, e, p)) + Cardinality(gap) - Cardinality(Lost(w, e, p) \cap gap)
  BY <1>1, <1>3, FS_Union
<1>5. Cardinality(Lost(w, e, p) \cap gap) \in Nat
  <2>1. IsFiniteSet(Lost(w, e, p) \cap gap)
    BY <1>1, FS_Subset
  <2>2. QED
    BY <2>1, FS_CardinalityType
<1>6. Cardinality(Lost(w, e, q)) <= Cardinality(Lost(w, e, p) \cup gap)
  BY <1>2, <1>4, FS_Subset
<1>7. QED
  BY <1>1, <1>3, <1>4, <1>5, <1>6

\* Every step keeps the bound on what is lost.
LEMMA LossStep ==
  ASSUME IoInv, LossInv, [IoNext]_ioVars
  PROVE  LossInv'
<1>1. /\ lives \in Nat \ {0} /\ epoch \in Nat /\ pos \in Nat /\ next \in Nat
      /\ next <= pos /\ pos <= next + Ahead /\ Ahead \in Nat
  BY Parameters DEF IoInv, IoTypeOK, LossInv, Positions
<1>2. CASE Iter
  BY <1>2 DEF Iter, LossInv, Running, From, Lost
<1>3. CASE ReadAhead
  BY <1>3 DEF ReadAhead, LossInv, Running, From, Lost
<1>4. CASE TrainStep
  <2>1. /\ place = "loop" /\ next < Batches /\ place' = "after_step" /\ next' = next + 1
        /\ UNCHANGED <<epoch, io_state, load_states, ckpt, lives>>
        /\ seen' = [seen EXCEPT ![epoch][next] = @ + 1]
    BY <1>4 DEF TrainStep
  <2>2. /\ next \in BatchSet /\ epoch \in EpochSet /\ seen \in Weights
        /\ Cardinality(Lost(seen, epoch, next)) <= (lives - 1) * Ahead
        /\ Cardinality(Lost(ckpt.seen, ckpt.epoch, From(ckpt.io))) <= lives * Ahead
    BY <2>1, Parameters
    DEF IoInv, IoTypeOK, CleanInv, LossInv, Running, Positions, BatchSet, EpochSet
  <2>3. \A d \in EpochSet : \A b \in BatchSet :
          /\ seen[d][b] \in Nat
          /\ seen'[d][b] = IF d = epoch /\ b = next THEN seen[d][b] + 1 ELSE seen[d][b]
    <3>1. seen' = [seen EXCEPT ![epoch] = [seen[epoch] EXCEPT ![next] = seen[epoch][next] + 1]]
      BY <2>1
    <3>2. [seen[epoch] EXCEPT ![next] = seen[epoch][next] + 1] \in [BatchSet -> Nat]
      BY <2>2 DEF Weights
    <3>3. QED
      BY <2>2, <3>1, <3>2 DEF Weights
  <2>4. Lost(seen', epoch, next + 1) \subseteq Lost(seen, epoch, next)
    <3> SUFFICES ASSUME NEW m \in Lost(seen', epoch, next + 1) PROVE m \in Lost(seen, epoch, next)
      OBVIOUS
    <3>1. /\ m \in EpochSet \X BatchSet /\ m[1] \in EpochSet /\ m[2] \in BatchSet
          /\ m[1] < epoch \/ (m[1] = epoch /\ m[2] < next + 1)
          /\ seen'[m[1]][m[2]] = 0
      BY DEF Lost
    <3>2. PICK b \in 0 .. m[2] - 1 : seen'[m[1]][b] > 0
      BY DEF Lost
    <3>3. b \in BatchSet /\ b < m[2] /\ m[1] \in Nat /\ m[2] \in Nat /\ b \in Nat
      BY <3>1, <3>2, Parameters DEF BatchSet, EpochSet
    <3>4. ~(m[1] = epoch /\ m[2] = next) /\ seen[m[1]][m[2]] = 0
      BY <2>3, <3>1
    <3>5. m[1] < epoch \/ (m[1] = epoch /\ m[2] < next)
      BY <1>1, <3>1, <3>3, <3>4
    <3>6. ~(m[1] = epoch /\ b = next)
      BY <1>1, <3>3, <3>5
    <3>7. seen[m[1]][b] > 0
      BY <2>3, <3>1, <3>2, <3>3, <3>6
    <3>8. QED
      BY <3>1, <3>2, <3>4, <3>5, <3>7 DEF Lost
  <2>5. Cardinality(Lost(seen', epoch, next + 1)) <= Cardinality(Lost(seen, epoch, next))
    BY <2>4, LostFinite, FS_Subset
  <2>6. Cardinality(Lost(seen', epoch, next + 1)) <= (lives - 1) * Ahead
    BY <1>1, <2>2, <2>5, LostFinite, Bounds
  <2>7. QED
    BY <1>1, <2>1, <2>2, <2>6 DEF LossInv, Running
<1>5. CASE SaveAfterStep \/ SkipAfterStep
  <2>1. /\ place = "after_step" /\ place' = "loop"
        /\ UNCHANGED <<epoch, pos, next, seen, load_states, lives>>
        /\ \/ ckpt' = ckpt
           \/ ckpt'.seen = seen /\ ckpt'.epoch = epoch /\ ckpt'.io = pos
    BY <1>5 DEF SaveAfterStep, SkipAfterStep, Snapshot
  <2>2. Cardinality(Lost(seen, epoch, next)) <= (lives - 1) * Ahead /\ From(pos) = pos
    BY <1>1, <2>1 DEF LossInv, Running, From, Empty
  <2>3. Cardinality(Lost(seen, epoch, pos)) <= Cardinality(Lost(seen, epoch, next)) + (pos - next)
    BY <1>1, LostFurther
  <2>4. Cardinality(Lost(seen, epoch, From(pos))) <= lives * Ahead
    BY <1>1, <2>2, <2>3, LostFinite, Bounds
  <2>5. Cardinality(Lost(ckpt'.seen, ckpt'.epoch, From(ckpt'.io))) <= lives * Ahead
    BY <2>1, <2>4 DEF LossInv
  <2>6. QED
    BY <1>1, <2>1, <2>2, <2>5 DEF LossInv, Running, From
<1>6. CASE EndEpoch
  <2>1. /\ place = "loop" /\ next = Batches /\ place' = "after_epoch" /\ epoch' = epoch + 1
        /\ UNCHANGED <<pos, next, seen, load_states, ckpt, lives>>
    BY <1>6 DEF EndEpoch
  <2>2. Lost(seen, epoch + 1, 0) = Lost(seen, epoch, next)
    BY <1>1, <2>1, LostAtEnd
  <2>3. QED
    BY <1>1, <2>1, <2>2 DEF LossInv, Running
<1>7. CASE SaveAfterEpoch \/ SkipAfterEpoch \/ SaveAtEnd
  <2>1. /\ place \in {"after_epoch", "end"} /\ io_state = Empty
        /\ Clean(seen, epoch, 0) /\ Cardinality(Lost(seen, epoch, 0)) <= (lives - 1) * Ahead
    BY <1>7 DEF IoInv, CleanInv, LossInv, SaveAfterEpoch, SkipAfterEpoch, SaveAtEnd
  <2>2. /\ place' \in {"iter", "end", "done"}
        /\ UNCHANGED <<epoch, pos, next, seen, io_state, load_states, lives>>
        /\ \/ ckpt' = ckpt
           \/ ckpt'.seen = seen /\ ckpt'.epoch = epoch /\ ckpt'.io = Empty
    BY <1>7, <2>1 DEF SaveAfterEpoch, SkipAfterEpoch, SaveAtEnd, Snapshot, AfterEpoch
  <2>3. Lost(seen, epoch, From(load_states)) = Lost(seen, epoch, 0)
    <3>1. From(load_states) \in Nat /\ seen \in Weights
      BY Parameters DEF IoInv, IoTypeOK, From, Positions
    <3>2. QED
      BY <1>1, <2>1, <3>1, LostAtFront
  <2>4. From(Empty) = 0 /\ Cardinality(Lost(seen, epoch, 0)) <= lives * Ahead
    BY <1>1, <2>1, LostFinite, Bounds DEF From
  <2>5. Cardinality(Lost(ckpt'.seen, ckpt'.epoch, From(ckpt'.io))) <= lives * Ahead
    BY <2>2, <2>4 DEF LossInv
  <2>6. QED
    BY <1>1, <2>1, <2>2, <2>3, <2>5 DEF LossInv, Running, From
<1>8. CASE Crash
  BY <1>8 DEF Crash, LossInv, Running, Lost, From
<1>9. CASE Resume
  <2>1. /\ seen' = ckpt.seen /\ epoch' = ckpt.epoch /\ load_states' = ckpt.io
        /\ lives' = lives + 1 /\ ckpt' = ckpt
        /\ place' = IF ckpt.epoch < Epochs THEN "iter" ELSE "end"
    BY <1>9 DEF Resume
  <2>2. /\ Cardinality(Lost(ckpt.seen, ckpt.epoch, From(ckpt.io))) <= lives * Ahead
        /\ Cardinality(Lost(ckpt.seen, ckpt.epoch, From(ckpt.io))) <= (lives + 1) * Ahead
        /\ lives + 1 \in Nat \ {0} /\ (lives + 1) - 1 = lives
    BY <1>1, LostFinite, Bounds DEF LossInv
  <2>3. ~(ckpt.epoch < Epochs) => Clean(ckpt.seen, ckpt.epoch, 0)
    BY Parameters DEF IoInv, IoTypeOK, CleanInv, Clean, EpochSet
  <2>4. ~(ckpt.epoch < Epochs) =>
          Lost(ckpt.seen, ckpt.epoch, From(ckpt.io)) = Lost(ckpt.seen, ckpt.epoch, 0)
    <3>1. From(ckpt.io) \in Nat /\ ckpt.seen \in Weights /\ ckpt.epoch \in Nat
      BY Parameters DEF IoInv, IoTypeOK, From, Positions
    <3>2. QED
      BY <2>3, <3>1, LostAtFront
  <2>5. QED
    BY <2>1, <2>2, <2>3, <2>4 DEF LossInv, Running
<1>10. CASE UNCHANGED ioVars
  BY <1>10 DEF ioVars, LossInv, Running, Lost, From
<1>11. QED
  BY <1>2, <1>3, <1>4, <1>5, <1>6, <1>7, <1>8, <1>9, <1>10 DEF IoNext

\* Behind the first batch that is trained on in it, no epoch loses more to a
\* restart than was read ahead: with k restarts behind it the whole job has
\* skipped at most k times Ahead batches so, in all its epochs together.
THEOREM LossIsBounded == IoSpec => []LossBounded
<1>1. IoInit => LossInv
  <2> SUFFICES ASSUME IoInit PROVE LossInv
    OBVIOUS
  <2>1. Lost(Unseen, 0, 0) = {} /\ Cardinality({}) = 0
    <3>1. \A d \in EpochSet, b \in BatchSet : d \in Nat /\ b \in Nat
      BY Parameters DEF EpochSet, BatchSet
    <3>2. \A m \in EpochSet \X BatchSet : m[1] \in EpochSet /\ m[2] \in BatchSet
      OBVIOUS
    <3>3. \A m \in EpochSet \X BatchSet : ~(m[1] < 0 \/ (m[1] = 0 /\ m[2] < 0))
      BY <3>1, <3>2
    <3>4. QED
      BY <3>3, FS_EmptySet DEF Lost
  <2>2. 1 * Ahead = Ahead /\ (1 - 1) * Ahead = 0 /\ Ahead \in Nat
    BY Parameters
  <2>3. /\ place = "iter" /\ epoch = 0 /\ seen = Unseen /\ lives = 1
        /\ From(load_states) = 0
        /\ ckpt.seen = Unseen /\ ckpt.epoch = 0 /\ From(ckpt.io) = 0
    BY DEF IoInit, From
  <2>4. QED
    BY <2>1, <2>2, <2>3 DEF LossInv, Running
<1>2. IoInv /\ LossInv /\ [IoNext]_ioVars => LossInv'
  BY LossStep
<1>3. IoInv /\ LossInv => LossBounded
  <2> SUFFICES ASSUME IoInv, LossInv, place # "down"
               PROVE  Cardinality(Skipped) <= (lives - 1) * Ahead
    BY DEF LossBounded
  <2> DEFINE at == IF Running THEN next ELSE IF place = "iter" THEN From(load_states) ELSE 0
  <2>1. Cardinality(Lost(seen, epoch, at)) <= (lives - 1) * Ahead
    BY DEF IoInv, IoTypeOK, LossInv, Running
  <2>2. Skipped \subseteq Lost(seen, epoch, at)
    BY DEF Skipped, Passed, Lost, Running
  <2>3. Cardinality(Skipped) <= Cardinality(Lost(seen, epoch, at)) /\ IsFiniteSet(Skipped)
    BY <2>2, LostFinite, FS_Subset
  <2>4. Cardinality(Skipped) \in Nat /\ Cardinality(Lost(seen, epoch, at)) \in Nat
    BY <2>3, LostFinite, FS_CardinalityType
  <2>5. (lives - 1) * Ahead \in Nat
    BY Bounds DEF LossInv
  <2>6. QED
    BY <2>1, <2>3, <2>4, <2>5
<1>4. QED
  BY <1>1, <1>2, <1>3, IoInvariance, PTL DEF IoSpec
============================================================================
