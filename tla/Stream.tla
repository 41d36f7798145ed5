------------------------------- MODULE Stream -------------------------------
(***************************************************************************)
(* What every prefetching iterator of recis/io promises its consumer: the  *)
(* items of the input, each once and in order, then the way the input      *)
(* finished - and never the finish before the last item.  The input may    *)
(* run ahead of the consumer; how far is the implementation's business.    *)
(***************************************************************************)
EXTENDS Naturals

VARIABLES
  pulled,   \* items the input has produced
  src,      \* how the input stands: "open", "ended" or "failed"
  got,      \* items the consumer has received
  out       \* what the consumer was told: "open", "end", "error", "closed"

streamVars == <<pulled, src, got, out>>

StreamInit ==
  /\ pulled = 0
  /\ src = "open"
  /\ got = 0
  /\ out = "open"

\* The input produces its next item.
Produce ==
  /\ src = "open"
  /\ pulled' = pulled + 1
  /\ UNCHANGED <<src, got, out>>

\* The input finishes; cleaning up after it may turn an end into a failure.
Finish ==
  /\ \/ src = "open" /\ src' \in {"ended", "failed"}
     \/ src = "ended" /\ src' = "failed"
  /\ UNCHANGED <<pulled, got, out>>

\* The consumer receives the oldest item it has not seen.
Deliver ==
  /\ out = "open"
  /\ got < pulled
  /\ got' = got + 1
  /\ UNCHANGED <<pulled, src, out>>

\* The consumer is told how the input finished, after the last item.
Conclude ==
  /\ out = "open"
  /\ got = pulled
  /\ \/ src = "ended" /\ out' = "end"
     \/ src = "failed" /\ out' = "error"
  /\ UNCHANGED <<pulled, src, got>>

\* The consumer gives up; what is in flight is dropped.
Abandon ==
  /\ out = "open"
  /\ out' = "closed"
  /\ UNCHANGED <<pulled, src, got>>

StreamNext == Produce \/ Finish \/ Deliver \/ Conclude \/ Abandon

StreamSpec == StreamInit /\ [][StreamNext]_streamVars
=============================================================================
