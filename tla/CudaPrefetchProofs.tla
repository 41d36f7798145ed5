-------------------------- MODULE CudaPrefetchProofs --------------------------
(***************************************************************************)
(* Proofs that no memory of a batch is given back while the GPU still has  *)
(* to read it, and that the caller is told the truth about the end of the  *)
(* input and about failures: for any number of batches, any buffer and all *)
(* three kinds of device prefetch iterator (recis/io/                      *)
(* cuda_prefetch_dataset.py).                                              *)
(***************************************************************************)
EXTENDS CudaPrefetch, WellFoundedInduction, TLAPS

Holds == [what : {"data", "raw", "result", "new"}, n : Nat,
          event : {"none", "copy", "step", "transform"} \X Nat]
MainOps == {"copy", "step"} \X (Nat \ {0})
SideOps == {"transform"} \X Nat

StreamTypes ==
  /\ main \in Seq(MainOps) /\ side \in Seq(SideOps)
  /\ rawHeld \in Seq(Holds) /\ outHeld \in Seq(Holds)
  /\ rawQ \in Seq(Nat) /\ outQ \in Seq(Int) /\ terminal \in Int
  /\ {staged, pending, hand, prev, pulled} \subseteq Nat
  /\ mode \in {"thread", "fetch", "inline"}

\* Where a batch is while the consumer is inside a call: none is the previous
\* one any more, and the inline iterator has at most one of its own.
InsideCalls ==
  /\ cpc \in {"get", "expired", "fetch", "refetch", "stage", "release", "input"} => prev = 0
  /\ pending # 0 => staged = 0
  /\ todo = 2 => staged = 0 /\ pending = 0
  /\ cpc \in {"stage", "refetch"} => todo # 2
  /\ mode # "thread" /\ cpc = "fetch" => todo = 2
  /\ cpc = "refetch" => staged = 0

\* The list entry that keeps the raw tensors of a queued transform.
RawEntry(n) == Hold("raw", n, <<"transform", n>>) \in ToSet(rawHeld)
TransformsHeld == \A n \in Nat : <<"transform", n>> \in ToSet(side) => RawEntry(n)

\* What keeps the target of a queued copy; once the transform is queued too,
\* that is what waits for the copy.
DataEntry(n) == Hold("data", n, <<"copy", n>>) \in ToSet(rawHeld)
CopyHeld(n) == n \in ToSet(rawQ) \/ staged = n \/ DataEntry(n) \/ <<"transform", n>> \in ToSet(side)
CopiesHeld == \A n \in Nat \ {0} : <<"copy", n>> \in ToSet(main) => CopyHeld(n)

\* What keeps the batch of a queued step: it is the previous one, or an entry
\* whose event is queued no earlier than the step.
NewEntry(n, i) == \E j \in DOMAIN main : j >= i /\ Hold("new", n, main[j]) \in ToSet(outHeld)
StepsHeld == \A n \in Nat \ {0} : \A i \in DOMAIN main : main[i] = <<"step", n>> => prev = n \/ NewEntry(n, i)

HeldInv == StreamTypes /\ InsideCalls /\ TransformsHeld /\ CopiesHeld /\ StepsHeld

-----------------------------------------------------------------------------
(* Lists as sets, and lists that are drained.                             *)

LEMMA ListFacts ==
  ASSUME NEW S, NEW q \in Seq(S)
  PROVE  /\ ToSet(q) \subseteq S
         /\ \A i \in DOMAIN q : q[i] \in ToSet(q)
         /\ \A e \in S : Append(q, e) \in Seq(S) /\ ToSet(Append(q, e)) = ToSet(q) \cup {e}
         /\ q # <<>> => Tail(q) \in Seq(S) /\ Head(q) \in S /\ ToSet(q) = {Head(q)} \cup ToSet(Tail(q))
  <1>1. ToSet(q) \subseteq S /\ \A i \in DOMAIN q : q[i] \in ToSet(q)
    BY DEF ToSet
  <1>2. ASSUME NEW e \in S PROVE Append(q, e) \in Seq(S) /\ ToSet(Append(q, e)) = ToSet(q) \cup {e}
    <2> DEFINE p == Append(q, e)
    <2>1. p \in Seq(S) /\ Len(p) = Len(q) + 1 /\ p[Len(q) + 1] = e /\ \A i \in 1 .. Len(q) : p[i] = q[i]
      OBVIOUS
    <2>2. Len(q) \in Nat /\ DOMAIN q = 1 .. Len(q) /\ DOMAIN p = 1 .. (Len(q) + 1)
      BY <2>1
    <2> HIDE DEF p
    <2>3. ToSet(p) \subseteq ToSet(q) \cup {e}
      BY <2>1, <2>2 DEF ToSet
    <2>4. ToSet(q) \cup {e} \subseteq ToSet(p)
      BY <2>1, <2>2 DEF ToSet
    <2> QED
      BY <2>1, <2>3, <2>4 DEF p
  <1>3. ASSUME q # <<>> PROVE Tail(q) \in Seq(S) /\ Head(q) \in S /\ ToSet(q) = {Head(q)} \cup ToSet(Tail(q))
    <2> DEFINE p == Tail(q)
    <2>1. /\ p \in Seq(S) /\ Head(q) = q[1] /\ Head(q) \in S /\ Len(p) = Len(q) - 1 /\ Len(q) \in Nat \ {0}
          /\ \A i \in 1 .. Len(q) - 1 : p[i] = q[i + 1]
      BY <1>3
    <2>2. DOMAIN q = 1 .. Len(q) /\ DOMAIN p = 1 .. (Len(q) - 1)
      BY <2>1
    <2> HIDE DEF p
    <2>3. ASSUME NEW i \in DOMAIN q PROVE q[i] = Head(q) \/ q[i] \in ToSet(p)
      <3>1. CASE i = 1
        BY <2>1, <3>1
      <3>2. CASE i # 1
        <4>1. i - 1 \in DOMAIN p /\ p[i - 1] = q[i]
          BY <2>1, <2>2, <3>2
        <4> QED
          BY <4>1 DEF ToSet
      <3> QED
        BY <3>1, <3>2
    <2>4. ASSUME NEW i \in DOMAIN p PROVE p[i] \in ToSet(q)
      <3>1. i + 1 \in DOMAIN q /\ p[i] = q[i + 1]
        BY <2>1, <2>2
      <3> QED
        BY <3>1 DEF ToSet
    <2>5. Head(q) \in ToSet(q)
      BY <2>1, <2>2 DEF ToSet
    <2> QED
      BY <2>1, <2>3, <2>4, <2>5 DEF ToSet, p
  <1> QED
    BY <1>1, <1>2, <1>3

LEMMA Joined ==
  ASSUME NEW S, NEW q \in Seq(S), NEW e \in S
  PROVE  q \o <<e>> \in Seq(S) /\ ToSet(q \o <<e>>) = ToSet(q) \cup {e} /\ q \o <<>> = q
  <1> DEFINE p == q \o <<e>>
  <1>1. p \in Seq(S) /\ Len(p) = Len(q) + 1 /\ p[Len(q) + 1] = e /\ \A i \in 1 .. Len(q) : p[i] = q[i]
    OBVIOUS
  <1>2. Len(q) \in Nat /\ DOMAIN q = 1 .. Len(q) /\ DOMAIN p = 1 .. (Len(q) + 1)
    BY <1>1
  <1>3. q \o <<>> = q
    OBVIOUS
  <1> HIDE DEF p
  <1>4. ToSet(p) \subseteq ToSet(q) \cup {e} /\ ToSet(q) \cup {e} \subseteq ToSet(p)
    BY <1>1, <1>2 DEF ToSet
  <1> QED
    BY <1>1, <1>3, <1>4 DEF p

\* A set of naturals has a least element.
LEMMA LeastNatural ==
  ASSUME NEW T, T \subseteq Nat, T # {}
  PROVE  \E m \in T : \A n \in T : m <= n
  <1> DEFINE R == OpToRel(<, Nat)
  <1>1. IsWellFoundedOn(R, Nat)
    BY NatLessThanWellFounded
  <1>2. \A x, y \in Nat : x < y => <<x, y>> \in R
    BY DEF OpToRel
  <1> HIDE DEF R
  <1>3. PICK m \in T : \A n \in T : ~(<<n, m>> \in R)
    BY <1>1, WFMin
  <1>4. \A n \in T : m <= n
    <2> TAKE n \in T
    <2>1. m \in Nat /\ n \in Nat /\ ~(n < m)
      BY <1>2, <1>3
    <2> QED
      BY <2>1
  <1> QED
    BY <1>4

\* _drain_inflight() keeps every entry whose event is not complete.
LEMMA DrainedKeeps ==
  ASSUME NEW held \in Seq(Holds)
  PROVE  /\ Drained(held) \in Seq(Holds)
         /\ \A h \in ToSet(held) : ~Complete(h.event) => h \in ToSet(Drained(held))
  <1> DEFINE busy == {i \in DOMAIN held : ~Complete(held[i].event)}
             m == CHOOSE i \in busy : \A j \in busy : i <= j
  <1>1. CASE busy = {}
    <2>1. Drained(held) = <<>>
      BY <1>1 DEF Drained
    <2> QED
      BY <1>1, <2>1 DEF ToSet
  <1>2. CASE busy # {}
    <2>1. busy \subseteq 1 .. Len(held) /\ Len(held) \in Nat /\ DOMAIN held = 1 .. Len(held)
      OBVIOUS
    <2>2. \E i \in busy : \A j \in busy : i <= j
      <3>1. busy \subseteq Nat
        BY <2>1
      <3> HIDE DEF busy
      <3> QED
        BY <1>2, <3>1, LeastNatural
    <2>3. m \in busy /\ \A j \in busy : m <= j
      BY <2>2
    <2>4. Drained(held) = SubSeq(held, m, Len(held))
      BY <1>2 DEF Drained
    <2> HIDE DEF m, busy
    <2>5. m \in 1 .. Len(held)
      BY <2>1, <2>3
    <2>6. /\ Drained(held) \in Seq(Holds) /\ DOMAIN Drained(held) = 1 .. (Len(held) - m + 1)
          /\ \A k \in 1 .. (Len(held) - m + 1) : Drained(held)[k] = held[m + k - 1]
      BY <2>1, <2>4, <2>5
    <2>7. ASSUME NEW i \in busy PROVE \E k \in DOMAIN Drained(held) : Drained(held)[k] = held[i]
      <3>1. i \in 1 .. Len(held) /\ m <= i
        BY <2>1, <2>3
      <3>2. i - m + 1 \in 1 .. (Len(held) - m + 1) /\ m + (i - m + 1) - 1 = i
        BY <2>1, <2>5, <3>1
      <3> QED
        BY <2>6, <3>2
    <2> QED
      BY <2>6, <2>7 DEF busy, ToSet
  <1> QED
    BY <1>1, <1>2

-----------------------------------------------------------------------------
(* What the changes of the lists and streams leave held.                   *)

\* Nothing of what is held changes, or a batch is returned as the previous one.
LEMMA Unaffected ==
  ASSUME HeldInv, StreamTypes', InsideCalls',
         UNCHANGED <<main, side, rawHeld, outHeld, staged>>, ToSet(rawQ) \subseteq ToSet(rawQ'),
         prev' = prev \/ prev = 0
  PROVE  HeldInv'
  <1>1. TransformsHeld' /\ CopiesHeld'
    BY DEF HeldInv, TransformsHeld, CopiesHeld, CopyHeld, RawEntry, DataEntry
  <1>2. StepsHeld'
    BY DEF HeldInv, StepsHeld, NewEntry
  <1> QED
    BY <1>1, <1>2 DEF HeldInv

\* The previous batch is retired, or the list of retired ones drained.
LEMMA Retired ==
  ASSUME StreamTypes, StepsHeld, main' = main,
         \/ RetirePrevious
         \/ outHeld' = Drained(outHeld) /\ prev' = prev
  PROVE  StepsHeld' /\ outHeld' \in Seq(Holds)
  <1> DEFINE last == Hold("new", prev, Recorded(main))
             held == IF RetirePrevious /\ prev # 0 THEN Append(outHeld, last) ELSE outHeld
  <1>1. last \in Holds
    <2>1. Recorded(main) \in {"none", "copy", "step", "transform"} \X Nat
      BY SMTT(45) DEF StreamTypes, MainOps, Recorded, NoEvent, Last
    <2> QED
      BY <2>1 DEF StreamTypes, Hold, Holds
  <1>2. outHeld' = Drained(held)
    BY DEF RetirePrevious
  <1>3. /\ held \in Seq(Holds) /\ ToSet(outHeld) \subseteq ToSet(held)
        /\ prev # 0 /\ prev' # prev => last \in ToSet(held)
    <2> HIDE DEF last
    <2> QED
      BY <1>1, ListFacts DEF StreamTypes
  <1>4. ASSUME NEW n \in Nat \ {0}, NEW i \in DOMAIN main, main[i] = <<"step", n>>, prev' # n
        PROVE  \E j \in DOMAIN main : j >= i /\ Hold("new", n, main[j]) \in ToSet(held)
    <2>1. CASE prev = n
      <3>1. Len(main) \in DOMAIN main /\ Len(main) >= i /\ Recorded(main) = main[Len(main)]
        BY DEF StreamTypes, Recorded, Last
      <3>2. last = Hold("new", n, main[Len(main)])
        BY <2>1, <3>1
      <3> HIDE DEF held, last
      <3> QED
        BY <1>3, <1>4, <2>1, <3>1, <3>2
    <2>2. CASE NewEntry(n, i)
      BY <1>3, <2>2 DEF NewEntry
    <2> QED
      BY <1>4, <2>1, <2>2 DEF StepsHeld
  <1> HIDE DEF held
  <1>5. ASSUME NEW n \in Nat \ {0}, NEW i \in DOMAIN main, main[i] = <<"step", n>>, prev' # n
        PROVE  NewEntry(n, i)'
    <2>1. PICK j \in DOMAIN main : j >= i /\ Hold("new", n, main[j]) \in ToSet(held)
      BY <1>4, <1>5
    <2>2. Hold("new", n, main[j]).event = main[j]
      BY DEF Hold
    <2>3. ~Complete(Hold("new", n, main[j]).event)
      BY <2>2 DEF Complete, ToSet
    <2>4. Hold("new", n, main[j]) \in ToSet(Drained(held))
      BY <1>3, <2>1, <2>3, DrainedKeeps
    <2> QED
      BY <1>2, <2>1, <2>4 DEF NewEntry
  <1> QED
    BY <1>2, <1>3, <1>5, DrainedKeeps DEF StepsHeld

\* A transform is queued for a batch, which may have been the staged one.
LEMMA Transformed ==
  ASSUME StreamTypes, TransformsHeld, CopiesHeld, NEW n \in Nat, NEW ok \in BOOLEAN, Transform(n, ok),
         UNCHANGED <<main, rawQ>>, staged' = staged \/ staged = n
  PROVE  TransformsHeld' /\ CopiesHeld' /\ rawHeld' \in Seq(Holds) /\ side' \in Seq(SideOps)
  <1> DEFINE e == <<"transform", n>>
             raw == Hold("raw", n, e)
             result == Hold("result", n, e)
  <1>1. raw \in Holds /\ result \in Holds /\ e \in SideOps
    BY DEF Hold, Holds, SideOps
  <1>2. /\ side' = Append(side, e)
        /\ rawHeld' = Append(rawHeld, raw) \/ rawHeld' = Append(Append(rawHeld, raw), result)
    BY DEF Transform
  <1> HIDE DEF raw, result, e
  <1>3. side' \in Seq(SideOps) /\ ToSet(side') = ToSet(side) \cup {e}
    BY <1>1, <1>2, ListFacts DEF StreamTypes
  <1>4. rawHeld' \in Seq(Holds) /\ ToSet(rawHeld) \cup {raw} \subseteq ToSet(rawHeld')
    <2>1. Append(rawHeld, raw) \in Seq(Holds) /\ ToSet(Append(rawHeld, raw)) = ToSet(rawHeld) \cup {raw}
      BY <1>1, ListFacts DEF StreamTypes
    <2>2. CASE rawHeld' = Append(rawHeld, raw)
      BY <2>1, <2>2
    <2>3. CASE rawHeld' = Append(Append(rawHeld, raw), result)
      <3> DEFINE held == Append(rawHeld, raw)
      <3>1. held \in Seq(Holds)
        BY <2>1
      <3> HIDE DEF held
      <3>2. Append(held, result) \in Seq(Holds) /\ ToSet(Append(held, result)) = ToSet(held) \cup {result}
        BY <1>1, <3>1, ListFacts
      <3> QED
        BY <2>1, <2>3, <3>2 DEF held
    <2> QED
      BY <1>2, <2>2, <2>3
  <1>5. TransformsHeld'
    BY <1>3, <1>4 DEF TransformsHeld, RawEntry, raw, e
  <1>6. CopiesHeld'
    BY <1>3, <1>4 DEF CopiesHeld, CopyHeld, DataEntry, e
  <1> QED
    BY <1>3, <1>4, <1>5, <1>6

\* An operation is queued on the consumer's stream.
LEMMA Queued ==
  ASSUME HeldInv, NEW op \in MainOps, main' = Append(main, op), side' = side, outHeld' = outHeld,
         prev' = prev \/ prev = 0,
         StreamTypes', InsideCalls',
         \A n \in Nat : RawEntry(n) => RawEntry(n)',
         \A n \in Nat \ {0} : CopyHeld(n) \/ op = <<"copy", n>> => CopyHeld(n)',
         op[1] = "step" => prev' = op[2]
  PROVE  HeldInv'
  <1>1. StreamTypes /\ TransformsHeld /\ CopiesHeld /\ StepsHeld
    BY DEF HeldInv
  <1>2. /\ DOMAIN main = 1 .. Len(main) /\ DOMAIN main' = 1 .. (Len(main) + 1) /\ Len(main) \in Nat
        /\ \A i \in 1 .. Len(main) : main'[i] = main[i]
        /\ main'[Len(main) + 1] = op
    <2>1. main \in Seq(MainOps) /\ main' = Append(main, op)
      BY <1>1 DEF StreamTypes
    <2> QED
      BY <2>1
  <1>3. ToSet(main') = ToSet(main) \cup {op}
    <2>1. main \in Seq(MainOps)
      BY <1>1 DEF StreamTypes
    <2>2. ToSet(Append(main, op)) = ToSet(main) \cup {op}
      BY <2>1, ListFacts
    <2>3. main' = Append(main, op)
      OBVIOUS
    <2> QED
      BY <2>2, <2>3
  <1>4. TransformsHeld'
    BY <1>1 DEF TransformsHeld
  <1>5. CopiesHeld'
    BY <1>1, <1>3 DEF CopiesHeld
  <1>6. StepsHeld'
    <2> SUFFICES ASSUME NEW n \in Nat \ {0}, NEW i \in DOMAIN main', main'[i] = <<"step", n>>
                 PROVE  prev' = n \/ NewEntry(n, i)'
      BY DEF StepsHeld
    <2>1. CASE i \in 1 .. Len(main)
      <3>1. prev = n \/ NewEntry(n, i)
        BY <1>1, <1>2, <2>1 DEF StepsHeld
      <3> QED
        BY <1>2, <2>1, <3>1 DEF NewEntry
    <2>2. CASE i = Len(main) + 1
      BY <1>2, <2>2
    <2> QED
      BY <1>2, <2>1, <2>2
  <1> QED
    BY <1>4, <1>5, <1>6 DEF HeldInv

-----------------------------------------------------------------------------
(* The GPU.                                                                *)

LEMMA MainRunsPreserves ==
  ASSUME HeldInv, MainRuns PROVE HeldInv'
  <1>1. StreamTypes /\ InsideCalls /\ TransformsHeld /\ CopiesHeld /\ StepsHeld
    BY DEF HeldInv
  <1>2. /\ main # <<>> /\ main' = Tail(main)
        /\ UNCHANGED <<side, rawHeld, outHeld, rawQ, outQ, terminal, staged, pending, hand, prev, pulled, mode, cpc, todo>>
    BY DEF MainRuns, wvars, qvars, ivars, cvars, svars, hvars
  <1>3. /\ main' \in Seq(MainOps) /\ Len(main) \in Nat \ {0}
        /\ DOMAIN main = 1 .. Len(main) /\ DOMAIN main' = 1 .. (Len(main) - 1)
        /\ \A i \in DOMAIN main' : i + 1 \in DOMAIN main /\ main'[i] = main[i + 1]
    BY <1>1, <1>2 DEF StreamTypes
  <1>4. StreamTypes' /\ InsideCalls' /\ TransformsHeld'
    BY <1>1, <1>2, <1>3 DEF StreamTypes, InsideCalls, TransformsHeld, RawEntry
  <1>5. ToSet(main') \subseteq ToSet(main)
    BY <1>1, <1>2, ListFacts DEF StreamTypes
  <1>6. CopiesHeld'
    BY <1>1, <1>2, <1>5 DEF CopiesHeld, CopyHeld, DataEntry
  <1>7. StepsHeld'
    <2> SUFFICES ASSUME NEW n \in Nat \ {0}, NEW i \in DOMAIN main', main'[i] = <<"step", n>>
                 PROVE  prev' = n \/ NewEntry(n, i)'
      BY DEF StepsHeld
    <2>1. prev = n \/ NewEntry(n, i + 1)
      BY <1>1, <1>3 DEF StepsHeld
    <2>2. CASE NewEntry(n, i + 1)
      <3>1. PICK j \in DOMAIN main : j >= i + 1 /\ Hold("new", n, main[j]) \in ToSet(outHeld)
        BY <2>2 DEF NewEntry
      <3>2. j - 1 \in DOMAIN main' /\ j - 1 >= i /\ main'[j - 1] = main[j]
        BY <1>3, <3>1
      <3> QED
        BY <1>2, <3>1, <3>2 DEF NewEntry
    <2> QED
      BY <1>2, <2>1, <2>2
  <1> QED
    BY <1>4, <1>6, <1>7 DEF HeldInv

LEMMA SideRunsPreserves ==
  ASSUME HeldInv, SideRuns PROVE HeldInv'
  <1>1. StreamTypes /\ InsideCalls /\ TransformsHeld /\ CopiesHeld /\ StepsHeld
    BY DEF HeldInv
  <1>2. /\ side # <<>> /\ side' = Tail(side) /\ <<"copy", Head(side)[2]>> \notin ToSet(main)
        /\ UNCHANGED <<main, rawHeld, outHeld, rawQ, outQ, terminal, staged, pending, hand, prev, pulled, mode, cpc, todo>>
    BY DEF SideRuns, wvars, qvars, ivars, cvars, svars, hvars
  <1>3. side' \in Seq(SideOps) /\ ToSet(side) = {Head(side)} \cup ToSet(side')
    BY <1>1, <1>2, ListFacts DEF StreamTypes
  <1>4. StreamTypes' /\ InsideCalls' /\ StepsHeld'
    BY <1>1, <1>2, <1>3 DEF StreamTypes, InsideCalls, StepsHeld, NewEntry
  <1>5. TransformsHeld'
    BY <1>1, <1>2, <1>3 DEF TransformsHeld, RawEntry
  <1>6. CopiesHeld'
    <2> SUFFICES ASSUME NEW n \in Nat \ {0}, <<"copy", n>> \in ToSet(main')
                 PROVE  CopyHeld(n)'
      BY DEF CopiesHeld
    <2>1. CopyHeld(n)
      BY <1>1, <1>2 DEF CopiesHeld
    <2>2. Head(side)[2] # n
      BY <1>2
    <2>3. Head(side) # <<"transform", n>>
      BY <2>2
    <2> QED
      BY <1>2, <1>3, <2>1, <2>3 DEF CopyHeld, DataEntry
  <1> QED
    BY <1>4, <1>5, <1>6 DEF HeldInv

-----------------------------------------------------------------------------
(* The worker.                                                             *)

\* A step of the worker that touches neither stream nor what is held.
LEMMA WorkerElsewhere ==
  ASSUME HeldInv, WorkerOnly, UNCHANGED <<main, side, rawHeld, rawQ, pulled>>,
         terminal' \in Int, hand' \in Nat, outQ' \in Seq(Int)
  PROVE  HeldInv'
  <1>1. UNCHANGED <<outHeld, staged, pending, prev, mode, cpc, todo>>
    BY DEF WorkerOnly, cvars, svars, hvars
  <1>2. StreamTypes' /\ InsideCalls'
    BY <1>1 DEF HeldInv, StreamTypes, InsideCalls
  <1> QED
    BY <1>1, <1>2, Unaffected

LEMMA WorkerGetsPreserves ==
  ASSUME HeldInv, WorkerGets PROVE HeldInv'
  <1>1. StreamTypes /\ InsideCalls /\ TransformsHeld /\ CopiesHeld /\ StepsHeld
    BY DEF HeldInv
  <1>2. /\ WorkerOnly /\ UNCHANGED <<outHeld, staged, pending, prev, mode, cpc, todo>>
        /\ UNCHANGED <<main, side, outQ, terminal, pulled>>
    BY DEF WorkerGets, WorkerOnly, cvars, svars, hvars, ivars
  <1>3. CASE rawQ = <<>>
    BY <1>1, <1>2, <1>3, WorkerElsewhere DEF WorkerGets, StreamTypes
  <1>4. CASE rawQ # <<>>
    <2> DEFINE n == Head(rawQ)
               d == Hold("data", n, <<"copy", n>>)
    <2>1. /\ rawQ' = Tail(rawQ) /\ hand' = n
          /\ \/ n = 0 /\ rawHeld' = rawHeld
             \/ rawHeld' = Append(rawHeld, d)
      BY <1>4 DEF WorkerGets, End
    <2>2. n \in Nat /\ rawQ' \in Seq(Nat) /\ ToSet(rawQ) = {n} \cup ToSet(rawQ')
      BY <1>1, <1>4, <2>1, ListFacts DEF StreamTypes
    <2> HIDE DEF n
    <2>3. d \in Holds
      BY <2>2 DEF Hold, Holds
    <2> HIDE DEF d
    <2>4. /\ rawHeld' \in Seq(Holds) /\ ToSet(rawHeld) \subseteq ToSet(rawHeld')
          /\ n # 0 => d \in ToSet(rawHeld')
      <3>1. /\ rawHeld \in Seq(Holds) /\ Append(rawHeld, d) \in Seq(Holds)
            /\ ToSet(Append(rawHeld, d)) = ToSet(rawHeld) \cup {d}
        BY <1>1, <2>3, ListFacts DEF StreamTypes
      <3> QED
        BY <2>1, <3>1
    <2>5. StreamTypes' /\ InsideCalls'
      BY <1>1, <1>2, <2>1, <2>2, <2>4 DEF StreamTypes, InsideCalls
    <2>6. TransformsHeld'
      BY <1>1, <1>2, <2>4 DEF TransformsHeld, RawEntry
    <2>7. CopiesHeld'
      BY <1>1, <1>2, <2>2, <2>4 DEF CopiesHeld, CopyHeld, DataEntry, d
    <2>8. StepsHeld'
      BY <1>1, <1>2 DEF StepsHeld, NewEntry
    <2> QED
      BY <2>5, <2>6, <2>7, <2>8 DEF HeldInv
  <1> QED
    BY <1>3, <1>4

LEMMA WorkerPullsPreserves ==
  ASSUME HeldInv, WorkerPulls PROVE HeldInv'
  <1>1. StreamTypes /\ InsideCalls /\ TransformsHeld /\ CopiesHeld /\ StepsHeld
    BY DEF HeldInv
  <1>2. /\ WorkerOnly /\ UNCHANGED <<outHeld, staged, pending, prev, mode, cpc, todo>>
        /\ UNCHANGED <<rawQ, outQ, side>>
    BY DEF WorkerPulls, WorkerOnly, cvars, svars, hvars, qvars
  <1>3. CASE src' # "open"
    <2>1. UNCHANGED <<main, rawHeld, pulled, hand>> /\ terminal' \in Int
      BY <1>3 DEF WorkerPulls, Pull, Failure, End
    <2> QED
      BY <1>1, <1>2, <2>1, WorkerElsewhere DEF StreamTypes
  <1>4. CASE src' = "open"
    <2> DEFINE n == pulled + 1
               op == <<"copy", n>>
               d == Hold("data", n, op)
    <2>1. /\ pulled' = n /\ main' = Append(main, op) /\ hand' = n /\ terminal' = terminal
          /\ rawHeld' = Append(rawHeld, d)
      BY <1>4 DEF WorkerPulls, Pull
    <2>2. n \in Nat \ {0} /\ op \in MainOps /\ d \in Holds
      BY <1>1 DEF StreamTypes, MainOps, Hold, Holds
    <2> HIDE DEF n
    <2>3. \A m \in Nat : op = <<"copy", m>> => m = n /\ d = Hold("data", m, <<"copy", m>>)
      OBVIOUS
    <2>4. op[1] # "step"
      OBVIOUS
    <2> HIDE DEF op, d
    <2>5. /\ main' \in Seq(MainOps) /\ rawHeld' \in Seq(Holds)
          /\ ToSet(rawHeld') = ToSet(rawHeld) \cup {d}
      BY <1>1, <2>1, <2>2, ListFacts DEF StreamTypes
    <2>6. StreamTypes' /\ InsideCalls'
      BY <1>1, <1>2, <2>1, <2>2, <2>5 DEF StreamTypes, InsideCalls
    <2>7. \A m \in Nat : RawEntry(m) => RawEntry(m)'
      BY <2>5 DEF RawEntry
    <2>8. \A m \in Nat \ {0} : CopyHeld(m) \/ op = <<"copy", m>> => CopyHeld(m)'
      BY <1>2, <2>3, <2>5 DEF CopyHeld, DataEntry
    <2> QED
      BY <1>2, <2>1, <2>2, <2>4, <2>6, <2>7, <2>8, Queued
  <1> QED
    BY <1>3, <1>4

LEMMA WorkerTransformsPreserves ==
  ASSUME HeldInv, WorkerTransforms PROVE HeldInv'
  <1>1. StreamTypes /\ InsideCalls /\ TransformsHeld /\ CopiesHeld /\ StepsHeld
    BY DEF HeldInv
  <1>2. /\ UNCHANGED <<outHeld, staged, pending, prev, mode, cpc, todo>>
        /\ UNCHANGED <<rawQ, outQ, main, hand, pulled>> /\ terminal' \in Int
    BY <1>1 DEF WorkerTransforms, WorkerOnly, cvars, svars, hvars, qvars, StreamTypes, Failure
  <1>3. PICK ok \in BOOLEAN : Transform(hand, ok)
    BY DEF WorkerTransforms
  <1>4. hand \in Nat
    BY <1>1 DEF StreamTypes
  <1>5. TransformsHeld' /\ CopiesHeld' /\ rawHeld' \in Seq(Holds) /\ side' \in Seq(SideOps)
    BY <1>1, <1>2, <1>3, <1>4, Transformed
  <1>6. StreamTypes' /\ InsideCalls' /\ StepsHeld'
    BY <1>1, <1>2, <1>5 DEF StreamTypes, InsideCalls, StepsHeld, NewEntry
  <1> QED
    BY <1>5, <1>6 DEF HeldInv

LEMMA WorkerDrainsPreserves ==
  ASSUME HeldInv, WorkerDrains PROVE HeldInv'
  <1>1. StreamTypes /\ InsideCalls /\ TransformsHeld /\ CopiesHeld /\ StepsHeld
    BY DEF HeldInv
  <1>2. /\ UNCHANGED <<outHeld, staged, pending, prev, mode, cpc, todo>> /\ rawHeld' = Drained(rawHeld)
        /\ UNCHANGED <<rawQ, outQ, main, side, hand, pulled, terminal>>
    BY DEF WorkerDrains, WorkerOnly, cvars, svars, hvars, qvars, ivars
  <1>3. /\ rawHeld' \in Seq(Holds)
        /\ \A h \in ToSet(rawHeld) : ~Complete(h.event) => h \in ToSet(rawHeld')
    BY <1>1, <1>2, DrainedKeeps DEF StreamTypes
  <1>4. StreamTypes' /\ InsideCalls' /\ StepsHeld'
    BY <1>1, <1>2, <1>3 DEF StreamTypes, InsideCalls, StepsHeld, NewEntry
  <1>5. TransformsHeld'
    <2> SUFFICES ASSUME NEW n \in Nat, <<"transform", n>> \in ToSet(side) PROVE RawEntry(n)'
      BY <1>2 DEF TransformsHeld
    <2> DEFINE h == Hold("raw", n, <<"transform", n>>)
    <2>1. h.event = <<"transform", n>> /\ h \in ToSet(rawHeld)
      BY <1>1 DEF TransformsHeld, RawEntry, Hold
    <2> HIDE DEF h
    <2>2. h \in ToSet(rawHeld')
      BY <1>3, <2>1 DEF Complete
    <2> QED
      BY <2>2 DEF RawEntry, h
  <1>6. CopiesHeld'
    <2> SUFFICES ASSUME NEW n \in Nat \ {0}, <<"copy", n>> \in ToSet(main) PROVE CopyHeld(n)'
      BY <1>2 DEF CopiesHeld
    <2>1. CopyHeld(n)
      BY <1>1 DEF CopiesHeld
    <2>2. DataEntry(n) => DataEntry(n)'
      <3> DEFINE h == Hold("data", n, <<"copy", n>>)
      <3>1. h.event = <<"copy", n>>
        BY DEF Hold
      <3> HIDE DEF h
      <3>2. h \in ToSet(rawHeld) => h \in ToSet(rawHeld')
        BY <1>3, <3>1 DEF Complete
      <3> QED
        BY <3>2 DEF DataEntry, h
    <2> QED
      BY <1>2, <2>1, <2>2 DEF CopyHeld
  <1> QED
    BY <1>4, <1>5, <1>6 DEF HeldInv

LEMMA WorkerPreserves ==
  ASSUME HeldInv, Worker PROVE HeldInv'
  <1>1. StreamTypes
    BY DEF HeldInv
  <1>2. CASE WorkerLoop \/ GateOpens \/ GateClears
    BY <1>1, <1>2, WorkerElsewhere DEF WorkerLoop, GateOpens, GateClears, qvars, ivars, StreamTypes
  <1>3. CASE WorkerPuts \/ WorkerFinishes
    <2>1. WorkerOnly /\ UNCHANGED <<main, side, rawHeld, rawQ, pulled, terminal, hand>>
      BY <1>3 DEF WorkerPuts, WorkerFinishes, ivars
    <2>2. outQ \in Seq(Int) /\ hand \in Int /\ terminal \in Int /\ hand \in Nat
      BY <1>1 DEF StreamTypes
    <2>3. outQ' \in Seq(Int)
      BY SMTT(45), <1>3, <2>2 DEF WorkerPuts, WorkerFinishes
    <2> QED
      BY <2>1, <2>2, <2>3, WorkerElsewhere
  <1>4. CASE WorkerClosesInput
    BY <1>1, <1>4, WorkerElsewhere DEF WorkerClosesInput, qvars, ivars, StreamTypes, Failure
  <1> QED
    BY <1>2, <1>3, <1>4, WorkerGetsPreserves, WorkerPullsPreserves, WorkerTransformsPreserves,
       WorkerDrainsPreserves DEF Worker

-----------------------------------------------------------------------------
(* The consumer.                                                           *)

LEMMA RetiresPreserve ==
  ASSUME HeldInv, CallNext \/ Join \/ Notify PROVE HeldInv'
  <1>1. StreamTypes /\ InsideCalls /\ TransformsHeld /\ CopiesHeld /\ StepsHeld
    BY DEF HeldInv
  <1>2. /\ UNCHANGED <<main, side, rawHeld, rawQ, outQ, terminal, staged, pending, hand, pulled, mode, todo>>
        /\ \/ RetirePrevious
           \/ outHeld' = Drained(outHeld) /\ prev' = prev
    BY DEF CallNext, Join, Notify, CloseOnly, wvars, qvars, ivars, cvars, svars
  <1>3. StepsHeld' /\ outHeld' \in Seq(Holds)
    BY <1>1, <1>2, Retired
  <1>4. TransformsHeld' /\ CopiesHeld'
    BY <1>1, <1>2 DEF TransformsHeld, CopiesHeld, CopyHeld, RawEntry, DataEntry
  <1>5. prev' \in Nat
    BY <1>1, <1>2 DEF StreamTypes, RetirePrevious
  <1>6. StreamTypes'
    BY <1>1, <1>2, <1>3, <1>5 DEF StreamTypes
  <1>7. InsideCalls'
    <2>1. CASE CallNext
      <3>1. prev' = 0
        BY <2>1 DEF CallNext, RetirePrevious
      <3>2. /\ cpc' \in {"get", "fetch", "stage"} /\ (cpc' = "stage" => todo # 2)
            /\ (cpc' = "fetch" => mode = "thread" \/ todo = 2)
        BY <1>1, <2>1 DEF CallNext, StreamTypes
      <3> QED
        BY <1>1, <1>2, <3>1, <3>2 DEF InsideCalls
    <2>2. CASE Join
      BY <1>1, <1>2, <2>2 DEF Join, RetirePrevious, InsideCalls
    <2>3. CASE Notify
      BY <1>1, <1>2, <2>3 DEF Notify, cvars, InsideCalls
    <2> QED
      BY <2>1, <2>2, <2>3
  <1> QED
    BY <1>3, <1>4, <1>6, <1>7 DEF HeldInv

LEMMA TrainStepPreserves ==
  ASSUME HeldInv, TrainStep PROVE HeldInv'
  <1>1. StreamTypes /\ InsideCalls
    BY DEF HeldInv
  <1> DEFINE op == <<"step", prev>>
  <1>2. /\ prev # 0 /\ main' = Append(main, op)
        /\ UNCHANGED <<side, rawHeld, outHeld, rawQ, outQ, terminal, staged, pending, hand, prev, pulled, mode, cpc, todo>>
    BY DEF TrainStep, wvars, qvars, ivars, cvars, svars
  <1>3. op \in MainOps /\ op[1] = "step" /\ op[2] = prev'
    BY <1>1, <1>2 DEF StreamTypes, MainOps
  <1>4. \A n \in Nat : op # <<"copy", n>>
    OBVIOUS
  <1> HIDE DEF op
  <1>5. main' \in Seq(MainOps)
    BY <1>1, <1>2, <1>3, ListFacts DEF StreamTypes
  <1>6. StreamTypes' /\ InsideCalls'
    BY <1>1, <1>2, <1>5 DEF StreamTypes, InsideCalls
  <1>7. \A n \in Nat : (RawEntry(n) => RawEntry(n)') /\ (CopyHeld(n) => CopyHeld(n)')
    BY <1>2 DEF RawEntry, CopyHeld, DataEntry
  <1> QED
    BY <1>2, <1>3, <1>4, <1>6, <1>7, Queued

\* What _transform_staged() leaves.
LEMMA StagedTransformed ==
  ASSUME HeldInv, UNCHANGED <<main, rawQ>>,
         IF pending = 0 THEN TransformStaged ELSE UNCHANGED <<staged, pending, rawHeld, side, broken>>
  PROVE  /\ TransformsHeld' /\ CopiesHeld' /\ rawHeld' \in Seq(Holds) /\ side' \in Seq(SideOps)
         /\ staged' \in Nat /\ pending' \in Nat
         /\ staged' = 0 \/ pending' = 0
         /\ staged' # 0 => UNCHANGED <<staged, pending>>
         /\ staged = 0 /\ pending = 0 => staged' = 0 /\ pending' = 0
         /\ pending # 0 => UNCHANGED <<staged, pending>>
  <1>1. StreamTypes /\ InsideCalls /\ TransformsHeld /\ CopiesHeld
    BY DEF HeldInv
  <1>2. staged \in Nat /\ pending \in Nat /\ rawHeld \in Seq(Holds) /\ side \in Seq(SideOps)
    BY <1>1 DEF StreamTypes
  <1>3. pending # 0 => staged = 0
    BY <1>1 DEF InsideCalls
  <1>4. CASE pending # 0 \/ staged = 0
    <2>1. UNCHANGED <<staged, pending, rawHeld, side>>
      BY <1>4 DEF TransformStaged
    <2>2. TransformsHeld' /\ CopiesHeld'
      BY <1>1, <2>1 DEF TransformsHeld, CopiesHeld, CopyHeld, RawEntry, DataEntry
    <2> QED
      BY <1>2, <1>3, <1>4, <2>1, <2>2
  <1>5. CASE pending = 0 /\ staged # 0
    <2>1. PICK ok \in BOOLEAN : Transform(staged, ok) /\ staged' = 0 /\ pending' = IF ok THEN staged ELSE 0
      BY <1>5 DEF TransformStaged
    <2>2. TransformsHeld' /\ CopiesHeld' /\ rawHeld' \in Seq(Holds) /\ side' \in Seq(SideOps)
      BY <1>1, <1>2, <2>1, Transformed
    <2> QED
      BY <1>2, <1>5, <2>1, <2>2
  <1> QED
    BY <1>4, <1>5

LEMMA StagePreserves ==
  ASSUME HeldInv, Stage PROVE HeldInv'
  <1>1. StreamTypes /\ InsideCalls /\ StepsHeld
    BY DEF HeldInv
  <1>2. UNCHANGED <<main, outHeld, rawQ, outQ, terminal, hand, prev, pulled, mode, todo>>
    BY DEF Stage, wvars, hvars
  <1>3. /\ TransformsHeld' /\ CopiesHeld' /\ rawHeld' \in Seq(Holds) /\ side' \in Seq(SideOps)
        /\ staged' \in Nat /\ pending' \in Nat
        /\ staged' = 0 \/ pending' = 0
        /\ staged = 0 /\ pending = 0 => staged' = 0 /\ pending' = 0
    BY <1>2, StagedTransformed DEF Stage
  <1>4. StreamTypes' /\ StepsHeld'
    BY <1>1, <1>2, <1>3 DEF StreamTypes, StepsHeld, NewEntry
  <1>5. cpc = "stage" /\ (IF pending' # 0 THEN cpc' = "refetch" ELSE cpc' = "join")
    BY DEF Stage, BeginClose
  <1>6. InsideCalls'
    BY <1>1, <1>2, <1>3, <1>5 DEF InsideCalls
  <1> QED
    BY <1>3, <1>4, <1>6 DEF HeldInv

LEMMA NotifyInlinePreserves ==
  ASSUME HeldInv, NotifyInline PROVE HeldInv'
  <1>1. StreamTypes /\ InsideCalls /\ StepsHeld
    BY DEF HeldInv
  <1>2. /\ UNCHANGED <<main, rawQ, outQ, terminal, hand, prev, pulled, mode, todo>>
        /\ outHeld' = outHeld \/ outHeld' = Drained(outHeld)
        /\ cpc' \in {"idle", "join"}
    BY DEF NotifyInline, BeginClose, wvars
  <1>3. /\ TransformsHeld' /\ CopiesHeld' /\ rawHeld' \in Seq(Holds) /\ side' \in Seq(SideOps)
        /\ staged' \in Nat /\ pending' \in Nat
        /\ staged' = 0 \/ pending' = 0
        /\ staged = 0 /\ pending = 0 => staged' = 0 /\ pending' = 0
    BY <1>2, StagedTransformed DEF NotifyInline
  <1>4. outHeld' \in Seq(Holds) /\ StepsHeld'
    <2>1. CASE outHeld' = outHeld
      BY <1>1, <1>2, <2>1 DEF StepsHeld, NewEntry, StreamTypes
    <2>2. CASE outHeld' = Drained(outHeld)
      BY <1>1, <1>2, <2>2, Retired
    <2> QED
      BY <1>2, <2>1, <2>2
  <1>5. StreamTypes'
    BY <1>1, <1>2, <1>3, <1>4 DEF StreamTypes
  <1>6. InsideCalls'
    BY <1>1, <1>2, <1>3 DEF InsideCalls
  <1> QED
    BY <1>3, <1>4, <1>5, <1>6 DEF HeldInv

LEMMA OutputsPreserve ==
  ASSUME HeldInv, GetOutput \/ GetTimesOut \/ Expired PROVE HeldInv'
  <1>1. StreamTypes /\ InsideCalls
    BY DEF HeldInv
  <1>2. UNCHANGED <<main, side, rawHeld, outHeld, rawQ, terminal, staged, pending, hand, pulled, mode, todo>>
    BY DEF GetOutput, GetTimesOut, Expired, GetUnchanged, TakeOutput, wvars, qvars, ivars, svars
  <1>3. prev = 0
    BY <1>1 DEF GetOutput, GetTimesOut, Expired, InsideCalls
  <1>4. /\ outQ' = outQ \/ (outQ # <<>> /\ outQ' = Tail(outQ))
        /\ \/ prev' = prev /\ cpc' \in {"expired", "get", "join"}
           \/ outQ # <<>> /\ Head(outQ) > 0 /\ prev' = Head(outQ) /\ cpc' = "idle"
    BY DEF GetOutput, GetTimesOut, Expired, TakeOutput, Return, BeginClose, qvars
  <1>5. outQ' \in Seq(Int) /\ prev' \in Nat
    <2>1. outQ \in Seq(Int)
      BY <1>1 DEF StreamTypes
    <2>2. outQ # <<>> => Tail(outQ) \in Seq(Int) /\ Head(outQ) \in Int
      BY <2>1
    <2> QED
      BY SMTT(45), <1>3, <1>4, <2>1, <2>2
  <1>6. StreamTypes' /\ InsideCalls'
    BY <1>1, <1>2, <1>3, <1>4, <1>5 DEF StreamTypes, InsideCalls
  <1> QED
    BY <1>2, <1>3, <1>6, Unaffected

LEMMA ClosingPreserves ==
  ASSUME HeldInv, CallClose \/ JoinTimesOut \/ CloseInput PROVE HeldInv'
  <1>1. StreamTypes /\ InsideCalls
    BY DEF HeldInv
  <1>2. /\ UNCHANGED <<main, side, rawHeld, outHeld, rawQ, outQ, terminal, staged, pending, hand, pulled, mode, todo, prev>>
        /\ cpc' \in {"join", "idle"}
    BY DEF CallClose, JoinTimesOut, CloseInput, CloseOnly, BeginClose, wvars, ivars, svars, hvars
  <1>3. StreamTypes' /\ InsideCalls'
    BY <1>1, <1>2 DEF StreamTypes, InsideCalls
  <1> QED
    BY <1>2, <1>3, Unaffected

LEMMA ReleaseStoragePreserves ==
  ASSUME HeldInv, ReleaseStorage PROVE HeldInv'
  <1>1. StreamTypes /\ InsideCalls /\ CopiesHeld /\ StepsHeld
    BY DEF HeldInv
  <1>2. /\ UNCHANGED <<main, side, terminal, hand, pulled, mode, todo, prev>> /\ side = <<>>
        /\ rawHeld' = <<>> /\ outHeld' = <<>> /\ rawQ' = <<>> /\ outQ' = <<>> /\ staged' = 0 /\ pending' = 0
        /\ cpc = "release" /\ cpc' = "input"
    BY DEF ReleaseStorage, CloseOnly, wvars
  <1>3. /\ \A h \in ToSet(rawHeld) \cup ToSet(outHeld) : Complete(h.event)
        /\ \A n \in ToSet(rawQ) \cup {staged} : Complete(<<"copy", n>>)
    BY DEF ReleaseStorage, ToSet
  <1>4. StreamTypes' /\ InsideCalls'
    BY <1>1, <1>2 DEF StreamTypes, InsideCalls
  <1>5. TransformsHeld'
    BY <1>2 DEF TransformsHeld, ToSet
  <1>6. ASSUME NEW n \in Nat \ {0} PROVE <<"copy", n>> \notin ToSet(main)
    <2> SUFFICES ASSUME <<"copy", n>> \in ToSet(main) PROVE FALSE
      OBVIOUS
    <2>1. ~Complete(<<"copy", n>>)
      BY DEF Complete
    <2>2. <<"transform", n>> \notin ToSet(side)
      BY <1>2 DEF ToSet
    <2>3. DataEntry(n)
      BY <1>1, <1>3, <2>1, <2>2 DEF CopiesHeld, CopyHeld
    <2>4. Hold("data", n, <<"copy", n>>).event = <<"copy", n>>
      BY DEF Hold
    <2> QED
      BY <1>3, <2>1, <2>3, <2>4 DEF DataEntry
  <1>7. ASSUME NEW n \in Nat \ {0}, NEW i \in DOMAIN main PROVE main[i] # <<"step", n>>
    <2> SUFFICES ASSUME main[i] = <<"step", n>> PROVE FALSE
      OBVIOUS
    <2>1. NewEntry(n, i)
      BY <1>1, <1>2 DEF StepsHeld, InsideCalls
    <2>2. PICK j \in DOMAIN main : Hold("new", n, main[j]) \in ToSet(outHeld)
      BY <2>1 DEF NewEntry
    <2>3. Hold("new", n, main[j]).event = main[j]
      BY DEF Hold
    <2>4. ~Complete(main[j])
      BY DEF Complete, ToSet
    <2> QED
      BY <1>3, <2>2, <2>3, <2>4
  <1> QED
    BY <1>2, <1>4, <1>5, <1>6, <1>7 DEF HeldInv, CopiesHeld, StepsHeld

\* What a call of _fetch_raw() does beside pulling the input.
LEMMA FetchRawFacts ==
  ASSUME HeldInv, FetchRaw
  PROVE  /\ UNCHANGED <<side, rawHeld, outHeld, outQ, terminal, hand, mode>>
         /\ prev = 0 /\ prev' \in Nat /\ pending' \in Nat /\ InsideCalls'
         /\ mode # "thread" => staged = 0
         /\ exhausted \/ Pull
         /\ exhausted => UNCHANGED <<main, pulled, rawQ, staged>>
         /\ ~exhausted /\ src' = "failed" => UNCHANGED <<rawQ, staged>>
         /\ ~exhausted /\ src' # "failed" =>
              LET x == IF src' = "ended" THEN 0 ELSE pulled'
              IN  IF mode = "thread" THEN rawQ' = rawQ \o <<x>> /\ staged' = staged
                                     ELSE staged' = x /\ rawQ' = rawQ
  <1>1. StreamTypes /\ InsideCalls
    BY DEF HeldInv
  <1>2. UNCHANGED <<side, rawHeld, outHeld, outQ, terminal, hand, mode>>
    BY DEF FetchRaw, wvars
  <1>3. prev = 0 /\ (mode # "thread" => staged = 0) /\ cpc \in {"fetch", "refetch"}
    BY <1>1 DEF InsideCalls, FetchRaw
  <1>4. exhausted \/ Pull
    BY DEF FetchRaw
  <1>5. CASE src' = "failed" /\ ~exhausted
    <2>1. UNCHANGED <<rawQ, staged, pending, todo, prev>> /\ cpc' = "join"
      BY <1>5 DEF FetchRaw, BeginClose
    <2> QED
      BY <1>1, <1>2, <1>3, <1>4, <1>5, <2>1 DEF StreamTypes, InsideCalls
  <1>6. CASE ~(src' = "failed" /\ ~exhausted)
    <2> DEFINE fetched == IF exhausted THEN <<>> ELSE
                          IF src' = "ended" THEN <<End>> ELSE <<pulled'>>
    <2>1. /\ todo' = IF cpc = "fetch" /\ todo = 2 THEN 1 ELSE todo
          /\ exhausted => UNCHANGED <<main, pulled>>
          /\ IF mode = "thread"
               THEN /\ rawQ' = rawQ \o fetched
                    /\ cpc' \in {"fetch", "get"}
                    /\ UNCHANGED <<staged, pending, prev>>
               ELSE /\ staged' = IF fetched = <<>> THEN staged ELSE fetched[1]
                    /\ IF cpc = "fetch" THEN cpc' = "stage" /\ UNCHANGED <<pending, prev>>
                                        ELSE pending' = 0 /\ prev' = pending /\ cpc' = "idle"
                    /\ rawQ' = rawQ
      BY <1>6 DEF FetchRaw, Return
    <2>2. prev' \in Nat /\ pending' \in Nat
      BY <1>1, <1>3, <2>1 DEF StreamTypes
    <2>3. InsideCalls'
      <3> HIDE DEF fetched
      <3> QED
        BY <1>1, <1>2, <1>3, <2>1 DEF InsideCalls
    <2>4. CASE exhausted
      <3>1. fetched = <<>>
        BY <2>4
      <3>2. rawQ \o <<>> = rawQ
        BY <1>1, Joined DEF StreamTypes
      <3> HIDE DEF fetched
      <3> QED
        BY <1>2, <1>3, <1>4, <2>1, <2>2, <2>3, <2>4, <3>1, <3>2
    <2>5. CASE ~exhausted
      <3> DEFINE x == IF src' = "ended" THEN 0 ELSE pulled'
      <3>1. fetched = <<x>> /\ fetched # <<>> /\ fetched[1] = x
        BY <2>5 DEF End
      <3> HIDE DEF fetched
      <3>2. IF mode = "thread" THEN rawQ' = rawQ \o <<x>> /\ staged' = staged
                               ELSE staged' = x /\ rawQ' = rawQ
        BY <2>1, <3>1
      <3> QED
        BY <1>2, <1>3, <1>4, <1>6, <2>2, <2>3, <2>5, <3>2
    <2> QED
      BY <2>4, <2>5
  <1> QED
    BY <1>5, <1>6

LEMMA FetchRawPreserves ==
  ASSUME HeldInv, FetchRaw PROVE HeldInv'
  <1>1. StreamTypes /\ InsideCalls
    BY DEF HeldInv
  <1>2. /\ UNCHANGED <<side, rawHeld, outHeld, outQ, terminal, hand, mode>>
        /\ prev = 0 /\ prev' \in Nat /\ pending' \in Nat /\ InsideCalls'
        /\ mode # "thread" => staged = 0
        /\ exhausted \/ Pull
        /\ exhausted => UNCHANGED <<main, pulled, rawQ, staged>>
        /\ ~exhausted /\ src' = "failed" => UNCHANGED <<rawQ, staged>>
        /\ ~exhausted /\ src' # "failed" =>
             LET x == IF src' = "ended" THEN 0 ELSE pulled'
             IN  IF mode = "thread" THEN rawQ' = rawQ \o <<x>> /\ staged' = staged
                                    ELSE staged' = x /\ rawQ' = rawQ
    BY FetchRawFacts
  <1>3. rawQ \in Seq(Nat) /\ pulled \in Nat /\ staged \in Nat
    BY <1>1 DEF StreamTypes
  <1>4. CASE exhausted \/ src' = "failed"
    <2>1. UNCHANGED <<main, pulled, rawQ, staged>>
      BY <1>2, <1>4 DEF Pull
    <2>2. StreamTypes'
      BY <1>1, <1>2, <2>1 DEF StreamTypes
    <2> QED
      BY <1>2, <2>1, <2>2, Unaffected
  <1>5. CASE ~exhausted /\ src' = "ended"
    <2>1. UNCHANGED <<main, pulled>>
      BY <1>2, <1>5 DEF Pull
    <2>2. staged' = staged /\ (rawQ' = rawQ \/ rawQ' = rawQ \o <<0>>)
      BY <1>2, <1>5
    <2>3. rawQ' \in Seq(Nat) /\ ToSet(rawQ) \subseteq ToSet(rawQ')
      <3>1. rawQ \o <<0>> \in Seq(Nat) /\ ToSet(rawQ \o <<0>>) = ToSet(rawQ) \cup {0}
        <4> DEFINE x == 0
        <4>1. x \in Nat
          OBVIOUS
        <4> HIDE DEF x
        <4>2. rawQ \o <<x>> \in Seq(Nat) /\ ToSet(rawQ \o <<x>>) = ToSet(rawQ) \cup {x}
          BY <1>3, <4>1, Joined
        <4> QED
          BY <4>2 DEF x
      <3> QED
        BY <1>3, <2>2, <3>1
    <2>4. StreamTypes'
      BY <1>1, <1>2, <2>1, <2>2, <2>3 DEF StreamTypes
    <2> QED
      BY <1>2, <2>1, <2>2, <2>3, <2>4, Unaffected
  <1>6. CASE ~exhausted /\ src' # "failed" /\ src' # "ended"
    <2> DEFINE x == pulled + 1
               op == <<"copy", x>>
    <2>1. pulled' = x /\ main' = Append(main, op)
      BY <1>2, <1>6 DEF Pull
    <2>2. /\ x \in Nat \ {0} /\ op \in MainOps /\ op[1] # "step"
          /\ \A n \in Nat : op = <<"copy", n>> => n = x
      BY <1>3 DEF MainOps
    <2>3. IF mode = "thread" THEN rawQ' = rawQ \o <<x>> /\ staged' = staged
                             ELSE staged = 0 /\ staged' = x /\ rawQ' = rawQ
      BY <1>2, <1>6, <2>1
    <2> HIDE DEF x, op
    <2>4. /\ rawQ' \in Seq(Nat) /\ ToSet(rawQ) \subseteq ToSet(rawQ') /\ staged' \in Nat
          /\ x \in ToSet(rawQ') \/ staged' = x
      <3>1. rawQ \o <<x>> \in Seq(Nat) /\ ToSet(rawQ \o <<x>>) = ToSet(rawQ) \cup {x}
        BY <1>3, <2>2, Joined
      <3> QED
        BY <1>3, <2>2, <2>3, <3>1
    <2>5. \A n \in Nat \ {0} : staged = n => staged' = n
      BY <2>3
    <2>6. main' \in Seq(MainOps)
      BY <1>1, <2>1, <2>2, ListFacts DEF StreamTypes
    <2>7. StreamTypes'
      BY <1>1, <1>2, <2>1, <2>2, <2>4, <2>6 DEF StreamTypes
    <2>8. \A n \in Nat : RawEntry(n) => RawEntry(n)'
      BY <1>2 DEF RawEntry
    <2>9. \A n \in Nat \ {0} : CopyHeld(n) \/ op = <<"copy", n>> => CopyHeld(n)'
      BY <1>2, <2>2, <2>3, <2>4, <2>5 DEF CopyHeld, DataEntry
    <2> QED
      BY <1>2, <2>1, <2>2, <2>7, <2>8, <2>9, Queued
  <1> QED
    BY <1>4, <1>5, <1>6

-----------------------------------------------------------------------------
LEMMA HeldInvHolds == CudaSpec => []HeldInv
  <1>1. CudaInit => HeldInv
    <2> SUFFICES ASSUME CudaInit PROVE HeldInv
      OBVIOUS
    <2>1. mode \in {"thread", "fetch", "inline"}
      BY DEF CudaInit, Mode, PrefetchArguments
    <2>2. StreamTypes /\ InsideCalls
      BY <2>1 DEF CudaInit, StreamTypes, InsideCalls, End
    <2>3. main = <<>> /\ side = <<>>
      BY DEF CudaInit
    <2> QED
      BY <2>2, <2>3 DEF HeldInv, TransformsHeld, CopiesHeld, StepsHeld, ToSet
  <1>2. HeldInv /\ [CudaNext]_cudaVars => HeldInv'
    <2> SUFFICES ASSUME HeldInv, [CudaNext]_cudaVars PROVE HeldInv'
      OBVIOUS
    <2>1. CASE UNCHANGED cudaVars
      <3>1. UNCHANGED <<main, side, rawHeld, outHeld, rawQ, outQ, terminal, staged, pending, hand, prev, pulled, mode, cpc, todo>>
        BY <2>1 DEF cudaVars, wvars, qvars, ivars, cvars, svars, hvars
      <3>2. StreamTypes' /\ InsideCalls'
        BY <3>1 DEF HeldInv, StreamTypes, InsideCalls
      <3> QED
        BY <3>1, <3>2, Unaffected
    <2>2. CASE MainRuns \/ SideRuns \/ Worker
      BY <2>2, MainRunsPreserves, SideRunsPreserves, WorkerPreserves
    <2>3. CASE Calls
      BY <2>3, RetiresPreserve, TrainStepPreserves, NotifyInlinePreserves, ClosingPreserves DEF Calls
    <2>4. CASE Consumer
      BY <2>4, FetchRawPreserves, StagePreserves, OutputsPreserve, RetiresPreserve, ClosingPreserves,
         ReleaseStoragePreserves DEF Consumer
    <2> QED
      BY <2>1, <2>2, <2>3, <2>4 DEF CudaNext
  <1> QED
    BY <1>1, <1>2, PTL DEF CudaSpec

\* No memory is given back while the GPU still has to read it, whichever kind
\* of iterator was built, for any number of batches and any output queue, and
\* through failures, late notifications and a close() that timed out.
THEOREM StorageAlwaysHeld == CudaSpec => []StorageHeld
  <1>1. ASSUME HeldInv PROVE StorageHeld
    <2>1. StreamTypes /\ TransformsHeld /\ CopiesHeld /\ StepsHeld
      BY <1>1 DEF HeldInv
    <2>2. ToSet(side) \subseteq SideOps /\ ToSet(main) \subseteq MainOps
      BY <2>1, ListFacts DEF StreamTypes
    <2>3. ASSUME NEW n \in Nat, <<"transform", n>> \in ToSet(side) PROVE RawHeld(n)
      <3>1. PICK i \in DOMAIN rawHeld : rawHeld[i] = Hold("raw", n, <<"transform", n>>)
        BY <2>1, <2>3 DEF TransformsHeld, RawEntry, ToSet
      <3>2. rawHeld[i].n = n /\ rawHeld[i].what = "raw"
        BY <3>1 DEF Hold
      <3> QED
        BY <3>2 DEF RawHeld
    <2>4. ASSUME NEW n \in Nat \ {0}, <<"copy", n>> \in ToSet(main) PROVE RawHeld(n)
      <3>1. CASE DataEntry(n) /\ <<"transform", n>> \notin ToSet(side)
        <4>1. PICK i \in DOMAIN rawHeld : rawHeld[i] = Hold("data", n, <<"copy", n>>)
          BY <3>1 DEF DataEntry, ToSet
        <4>2. rawHeld[i].n = n /\ rawHeld[i].what = "data"
          BY <4>1 DEF Hold
        <4> QED
          BY <3>1, <4>2 DEF RawHeld
      <3>2. CASE n \in ToSet(rawQ) \/ staged = n
        BY <3>2 DEF RawHeld
      <3> QED
        BY <2>1, <2>3, <2>4, <3>1, <3>2 DEF CopiesHeld, CopyHeld
    <2>5. ASSUME NEW n \in Nat \ {0}, <<"step", n>> \in ToSet(main) PROVE NewHeld(n)
      <3>1. PICK k \in DOMAIN main : main[k] = <<"step", n>>
        BY <2>5 DEF ToSet
      <3>2. CASE NewEntry(n, k)
        <4>1. PICK j \in DOMAIN main : Hold("new", n, main[j]) \in ToSet(outHeld)
          BY <3>2 DEF NewEntry
        <4>2. PICK i \in DOMAIN outHeld : outHeld[i] = Hold("new", n, main[j])
          BY <4>1 DEF ToSet
        <4>3. outHeld[i].n = n /\ outHeld[i].what = "new"
          BY <4>2 DEF Hold
        <4> QED
          BY <4>3 DEF NewHeld
      <3> QED
        BY <2>1, <3>1, <3>2 DEF StepsHeld, NewHeld
    <2>6. ASSUME NEW op \in ToSet(side) PROVE RawHeld(op[2])
      <3>1. op[2] \in Nat /\ op = <<"transform", op[2]>>
        BY <2>2 DEF SideOps
      <3> QED
        BY <2>3, <3>1
    <2>7. ASSUME NEW op \in ToSet(main)
          PROVE  IF op[1] = "step" THEN NewHeld(op[2]) ELSE RawHeld(op[2])
      <3>1. op[2] \in Nat \ {0} /\ (op = <<"step", op[2]>> \/ op = <<"copy", op[2]>>)
            /\ (op[1] = "step" <=> op = <<"step", op[2]>>)
        BY <2>2 DEF MainOps
      <3> QED
        BY <2>4, <2>5, <3>1
    <2> QED
      BY <2>6, <2>7 DEF StorageHeld
  <1> QED
    BY <1>1, HeldInvHolds, PTL
-----------------------------------------------------------------------------
(* The outcomes.  Until the iterator is stopped, every batch that the      *)
(* input yielded is in its place: given out, queued for the caller, in the *)
(* worker's hands, or queued for the worker, in this order.                *)

\* The worker has a raw batch that it has not queued.
Holding == wpc \in {"transform", "put", "putting"} \/ (mode = "thread" /\ wpc \in {"gate", "clear"})

\* The batches that the worker has taken so far.
TakenUp == got + Len(outQ) + (IF Holding THEN 1 ELSE 0)

WorkerPlaces == {"new", "loop", "get", "gate", "clear", "next", "transform", "put", "putting"}

\* While the worker is in its loop.
Flowing ==
  /\ pulled = TakenUp + Len(rawQ) - (IF exhausted THEN 1 ELSE 0)
  /\ \A i \in 1 .. Len(rawQ) : rawQ[i] = IF exhausted /\ i = Len(rawQ) THEN End ELSE TakenUp + i
  /\ exhausted => rawQ # <<>>
  /\ Holding => hand = TakenUp
  /\ \A i \in 1 .. Len(outQ) : outQ[i] = got + i
  /\ ~broken /\ terminal = End /\ src # "failed"
  /\ mode = "fetch" => rawQ = <<>> /\ src = "open"

\* What ends the outputs says the truth about the n batches before it.
TrueEnd(t, n) ==
  \/ t = End /\ src = "ended" /\ ~broken /\ pulled = n
  \/ t = Failure /\ (src = "failed" \/ broken)

\* While the worker cleans up, and after it has queued its last output.
Ending ==
  /\ \A i \in 1 .. Len(outQ) : outQ[i] = got + i
  /\ TrueEnd(terminal, got + Len(outQ))

Ended ==
  /\ outQ # <<>>
  /\ \A i \in 1 .. Len(outQ) - 1 : outQ[i] = got + i
  /\ TrueEnd(outQ[Len(outQ)], got + Len(outQ) - 1)

ThreadFlow ==
  mode # "inline" /\ ~stop =>
    /\ wpc \in WorkerPlaces => Flowing
    /\ wpc \in {"closing", "final"} => Ending
    /\ wpc = "dead" => Ended

\* The iterator without a thread has at most one batch, staged or pending.
InlineFlow ==
  mode = "inline" /\ ~stop =>
    /\ ~broken /\ src # "failed"
    /\ IF staged = 0 /\ pending = 0 THEN pulled = got
       ELSE pulled = got + 1 /\ {staged, pending} = {0, pulled}
    /\ staged = 0 /\ pending = 0 /\ todo # 2 => exhausted
    /\ cpc = "refetch" => pending # 0

\* Where the consumer and the worker can be at the same time.
Meeting ==
  /\ wpc \in WorkerPlaces \cup {"closing", "final", "dead"}
  /\ cpc \in {"idle", "fetch", "refetch", "stage", "get", "expired", "join", "release", "input"}
  /\ {started, stop, broken, exhausted, closed, inputRef} \subseteq BOOLEAN
  /\ got \in Nat
  /\ started = (wpc # "new") /\ (mode = "inline" => wpc = "new")
  /\ mode = "thread" => wpc \notin {"next", "closing"}
  /\ mode = "fetch" => wpc # "get" /\ ~exhausted /\ cpc # "fetch"
  /\ mode # "inline" => cpc \notin {"refetch", "stage"}
  /\ mode = "inline" => cpc \notin {"get", "expired"}
  /\ mode # "fetch" => (exhausted <=> src = "ended")
  /\ cpc \in {"fetch", "refetch", "stage", "get", "expired"} => ~stop
  /\ cpc \in {"join", "release", "input"} => stop
  /\ cpc \in {"release", "input"} => wpc \in {"new", "dead"}
  /\ cpc = "input" => rawQ = <<>> /\ outQ = <<>>

\* What the iterator is closed for, and what its caller has been told.
Reasons ==
  /\ stop => why # "none"
  /\ why = "end" => stop /\ src = "ended" /\ got = pulled /\ wpc \in {"new", "dead"} /\ (out = "open" => ~broken)
  /\ why = "error" => src = "failed" \/ broken
  /\ why = "close" => out # "open"
  /\ why \in {"none", "end", "error", "close"}
  /\ out = "error" => src = "failed" \/ broken
  /\ out = "end" => src = "ended" /\ ~broken /\ got = pulled /\ closed
  /\ closed => /\ stop /\ cpc = "idle" /\ ~inputRef
               /\ wpc \in {"new", "dead"} /\ rawQ = <<>> /\ outQ = <<>>

OutcomeInv == Meeting /\ Reasons /\ ThreadFlow /\ InlineFlow

\* The elements of a queue after its head is taken or one is added.
LEMMA TailAt ==
  ASSUME NEW S, NEW q \in Seq(S), q # <<>>
  PROVE  /\ Len(q) \in Nat \ {0} /\ Len(Tail(q)) = Len(q) - 1 /\ Head(q) = q[1]
         /\ \A i \in 1 .. Len(q) - 1 : Tail(q)[i] = q[i + 1]
  OBVIOUS

LEMMA AppendAt ==
  ASSUME NEW S, NEW q \in Seq(S), NEW e \in S
  PROVE  /\ Len(q) \in Nat /\ Len(Append(q, e)) = Len(q) + 1 /\ Append(q, e) # <<>>
         /\ Append(q, e)[Len(q) + 1] = e
         /\ \A i \in 1 .. Len(q) : Append(q, e)[i] = q[i]
  OBVIOUS

\* The GPU, the caller's step and the lists of held tensors leave it alone.
LEMMA OutcomeElsewhere ==
  ASSUME OutcomeInv,
         UNCHANGED <<mode, wpc, hand, terminal, rawQ, outQ, stop, src, pulled, inputRef, broken,
                     cpc, todo, exhausted, started, closed, why, got, out, staged, pending>>
  PROVE  OutcomeInv'
  <1>1. Meeting' /\ Reasons'
    BY DEF OutcomeInv, Meeting, Reasons
  <1>2. ThreadFlow'
    BY DEF OutcomeInv, ThreadFlow, Flowing, Ending, Ended, TrueEnd, TakenUp, Holding
  <1>3. InlineFlow'
    BY DEF OutcomeInv, InlineFlow
  <1> QED
    BY <1>1, <1>2, <1>3 DEF OutcomeInv

\* What a step of the worker cannot disturb.
LEMMA WorkerOutcome ==
  ASSUME OutcomeInv, wpc \notin {"new", "dead"}, WorkerOnly, stop' = stop,
         wpc' \in WorkerPlaces \cup {"closing", "final", "dead"}, wpc' # "new",
         mode = "thread" => wpc' \notin {"next", "closing"},
         mode = "fetch" => wpc' # "get",
         broken' \in BOOLEAN, inputRef' \in BOOLEAN, broken => broken',
         src' = src \/ (mode = "fetch" /\ src = "open"),
         ThreadFlow'
  PROVE  OutcomeInv'
  <1>1. UNCHANGED <<mode, cpc, todo, exhausted, started, closed, why, got, out, staged, pending>>
    BY DEF WorkerOnly, cvars, svars
  <1>2. mode # "inline" /\ cpc \notin {"release", "input"} /\ why # "end" /\ out # "end" /\ ~closed
    BY DEF OutcomeInv, Meeting, Reasons
  <1>3. Meeting'
    BY <1>1, <1>2 DEF OutcomeInv, Meeting
  <1>4. Reasons'
    BY <1>1, <1>2 DEF OutcomeInv, Reasons
  <1>5. InlineFlow'
    BY <1>1, <1>2 DEF InlineFlow
  <1> QED
    BY <1>3, <1>4, <1>5 DEF OutcomeInv

\* Steps of the worker on its own: the loop, the gate, the drain, the cleanup.
LEMMA WorkerMovesOutcome ==
  ASSUME HeldInv, OutcomeInv, WorkerLoop \/ GateOpens \/ GateClears \/ WorkerDrains
  PROVE  OutcomeInv'
  <1>1. /\ wpc \in {"loop", "gate", "clear", "put"} /\ WorkerOnly
        /\ UNCHANGED <<mode, hand, terminal, rawQ, outQ, stop, src, pulled, inputRef, broken, got, exhausted>>
        /\ wpc' \in WorkerPlaces \cup {"closing", "final"} /\ wpc' # "new"
        /\ wpc' \in {"closing", "final"} => stop
        /\ mode = "thread" => wpc' \notin {"next", "closing"}
        /\ mode = "fetch" => wpc' # "get"
        /\ wpc' \in WorkerPlaces => Holding' = Holding
    BY DEF HeldInv, StreamTypes, OutcomeInv, Meeting, WorkerLoop, GateOpens, GateClears, WorkerDrains, WorkerOnly,
           WorkerExit, AfterGate, Gate, WorkerPlaces, Holding, cvars, qvars, ivars
  <1>2. ThreadFlow'
    <2> SUFFICES ASSUME ~stop, mode # "inline" PROVE Flowing'
      BY <1>1 DEF ThreadFlow, WorkerPlaces
    <2>1. Flowing /\ Holding' = Holding
      BY <1>1 DEF OutcomeInv, ThreadFlow, WorkerPlaces
    <2>2. TakenUp' = TakenUp
      BY <1>1, <2>1 DEF TakenUp
    <2> QED
      BY <1>1, <2>1, <2>2 DEF Flowing
  <1> QED
    BY <1>1, <1>2, WorkerOutcome DEF OutcomeInv, Meeting

\* The next raw batch, or the end of them, goes from the queue to the worker.
LEMMA WorkerGetsOutcome ==
  ASSUME HeldInv, OutcomeInv, WorkerGets
  PROVE  OutcomeInv'
  <1>1. /\ wpc = "get" /\ WorkerOnly /\ mode = "thread"
        /\ UNCHANGED <<mode, terminal, outQ, stop, src, pulled, inputRef, broken, got, exhausted>>
        /\ rawQ \in Seq(Nat) /\ outQ \in Seq(Int) /\ pulled \in Nat /\ got \in Nat /\ exhausted \in BOOLEAN
    BY DEF HeldInv, StreamTypes, OutcomeInv, Meeting, WorkerGets, WorkerOnly, cvars, ivars
  <1>2. \/ rawQ = <<>> /\ wpc' = "loop" /\ UNCHANGED <<rawQ, hand>>
        \/ rawQ # <<>> /\ rawQ' = Tail(rawQ) /\ Head(rawQ) = End /\ wpc' = "final"
        \/ /\ rawQ # <<>> /\ rawQ' = Tail(rawQ) /\ hand' = Head(rawQ) /\ Head(rawQ) # End
           /\ wpc' \in {"gate", "transform"}
    BY <1>1 DEF WorkerGets, WorkerExit, Gate, AfterGate
  <1>3. ASSUME ~stop PROVE (wpc' \in WorkerPlaces => Flowing') /\ (wpc' = "final" => Ending')
    <2>1. Flowing /\ ~Holding
      BY <1>1, <1>3 DEF OutcomeInv, ThreadFlow, WorkerPlaces, Holding
    <2>2. TakenUp = got + Len(outQ) /\ Len(outQ) \in Nat
      BY <1>1, <2>1 DEF TakenUp
    <2>3. CASE rawQ = <<>> /\ wpc' = "loop" /\ UNCHANGED <<rawQ, hand>>
      <3>1. Holding' = FALSE /\ TakenUp' = TakenUp
        BY <1>1, <2>1, <2>3 DEF Holding, TakenUp
      <3> QED
        BY <1>1, <2>1, <2>3, <3>1 DEF Flowing
    <2>4. CASE rawQ # <<>>
      <3>1. /\ Len(rawQ) \in Nat \ {0} /\ Len(Tail(rawQ)) = Len(rawQ) - 1 /\ Head(rawQ) = rawQ[1]
            /\ \A i \in 1 .. Len(rawQ) - 1 : Tail(rawQ)[i] = rawQ[i + 1]
        BY <1>1, <2>4, TailAt
      <3>2. rawQ[1] = IF exhausted /\ 1 = Len(rawQ) THEN End ELSE TakenUp + 1
        <4>1. 1 \in 1 .. Len(rawQ)
          BY <3>1
        <4> QED
          BY <2>1, <4>1 DEF Flowing
      <3>3. CASE Head(rawQ) = End /\ wpc' = "final"
        <4>1. exhausted /\ Len(rawQ) = 1
          BY <2>2, <3>1, <3>2, <3>3, <1>1 DEF End
        <4>2. pulled = got + Len(outQ) /\ src = "ended"
          BY <1>1, <2>1, <2>2, <4>1 DEF Flowing, OutcomeInv, Meeting
        <4>3. Ending'
          BY <1>1, <2>1, <4>2 DEF Flowing, Ending, TrueEnd
        <4> QED
          BY <3>3, <4>3 DEF WorkerPlaces
      <3>4. CASE rawQ' = Tail(rawQ) /\ hand' = Head(rawQ) /\ Head(rawQ) # End /\ wpc' \in {"gate", "transform"}
        <4>1. Holding' = TRUE /\ TakenUp' = TakenUp + 1
          BY <1>1, <2>2, <3>4 DEF Holding, TakenUp
        <4>2. hand' = TakenUp' /\ ~(exhausted /\ 1 = Len(rawQ))
          BY <3>1, <3>2, <3>4, <4>1
        <4>3. Len(rawQ') = Len(rawQ) - 1 /\ (exhausted => rawQ' # <<>>)
          <5>1. Len(rawQ') = Len(rawQ) - 1
            BY <3>1, <3>4
          <5>2. Len(<<>>) = 0 /\ (exhausted => Len(rawQ') # 0)
            BY <3>1, <4>2, <5>1
          <5> QED
            BY <5>1, <5>2
        <4>4. pulled' = TakenUp' + Len(rawQ') - (IF exhausted' THEN 1 ELSE 0)
          <5>1. pulled = TakenUp + Len(rawQ) - (IF exhausted THEN 1 ELSE 0) /\ TakenUp \in Nat
            BY <1>1, <2>1, <2>2 DEF Flowing
          <5>2. (TakenUp + 1) + (Len(rawQ) - 1) = TakenUp + Len(rawQ)
            BY <3>1, <5>1
          <5> QED
            BY <1>1, <4>1, <4>3, <5>1, <5>2
        <4>5. ASSUME NEW i \in 1 .. Len(rawQ')
              PROVE  rawQ'[i] = IF exhausted' /\ i = Len(rawQ') THEN End ELSE TakenUp' + i
          <5>1. i \in 1 .. Len(rawQ) - 1 /\ i + 1 \in 1 .. Len(rawQ) /\ rawQ'[i] = rawQ[i + 1]
            BY <3>1, <3>4, <4>3
          <5>2. rawQ[i + 1] = IF exhausted /\ i + 1 = Len(rawQ) THEN End ELSE TakenUp + (i + 1)
            BY <2>1, <5>1 DEF Flowing
          <5>3. TakenUp \in Nat
            BY <1>1, <2>2
          <5>4. (TakenUp + 1) + i = TakenUp + (i + 1) /\ (i + 1 = Len(rawQ) <=> i = Len(rawQ) - 1)
            BY <3>1, <5>1, <5>3
          <5> QED
            BY <1>1, <4>1, <4>3, <5>1, <5>2, <5>4
        <4>6. Flowing'
          BY <1>1, <2>1, <4>2, <4>3, <4>4, <4>5 DEF Flowing
        <4> QED
          BY <3>4, <4>6
      <3> QED
        BY <1>2, <2>4, <3>3, <3>4
    <2> QED
      BY <1>2, <2>3, <2>4
  <1>4. ThreadFlow'
    BY <1>1, <1>2, <1>3 DEF ThreadFlow
  <1> QED
    BY <1>1, <1>2, <1>4, WorkerOutcome DEF OutcomeInv, Meeting, WorkerPlaces

\* The worker that fetches takes the next batch from the input.
LEMMA WorkerPullsOutcome ==
  ASSUME HeldInv, OutcomeInv, WorkerPulls
  PROVE  OutcomeInv'
  <1>1. /\ wpc = "next" /\ WorkerOnly /\ mode = "fetch"
        /\ UNCHANGED <<mode, outQ, rawQ, stop, inputRef, broken, got, exhausted>>
        /\ rawQ \in Seq(Nat) /\ outQ \in Seq(Int) /\ pulled \in Nat /\ got \in Nat /\ exhausted = FALSE
    BY DEF HeldInv, StreamTypes, OutcomeInv, Meeting, WorkerPulls, WorkerOnly, cvars, qvars
  <1>2. /\ src = "open"
        /\ \/ /\ src' = src /\ pulled' = pulled + 1 /\ wpc' = "transform" /\ hand' = pulled'
              /\ terminal' = terminal
           \/ /\ src' \in {"ended", "failed"} /\ pulled' = pulled /\ wpc' = "closing"
              /\ terminal' = IF src' = "failed" THEN Failure ELSE End
    BY <1>1 DEF WorkerPulls, Pull, WorkerExit
  <1>3. ASSUME ~stop PROVE (wpc' \in WorkerPlaces => Flowing') /\ (wpc' = "closing" => Ending')
    <2>1. Flowing /\ ~Holding
      BY <1>1, <1>3 DEF OutcomeInv, ThreadFlow, WorkerPlaces, Holding
    <2>2. TakenUp = got + Len(outQ) /\ Len(outQ) \in Nat /\ rawQ = <<>> /\ Len(rawQ) = 0
      BY <1>1, <2>1 DEF TakenUp, Flowing
    <2>3. pulled = TakenUp
      BY <1>1, <2>1, <2>2 DEF Flowing
    <2>4. CASE wpc' = "closing"
      BY <1>1, <1>2, <2>1, <2>2, <2>3, <2>4 DEF Flowing, Ending, TrueEnd, WorkerPlaces
    <2>5. CASE wpc' = "transform"
      <3>1. Holding' = TRUE /\ TakenUp' = TakenUp + 1
        BY <1>1, <2>2, <2>5 DEF Holding, TakenUp
      <3>2. pulled' = pulled + 1 /\ hand' = pulled' /\ src' = src /\ terminal' = terminal
        BY <1>2, <2>5
      <3> QED
        BY <1>1, <2>1, <2>2, <2>3, <2>5, <3>1, <3>2 DEF Flowing
    <2> QED
      BY <1>2, <2>4, <2>5
  <1>4. ThreadFlow'
    BY <1>1, <1>2, <1>3 DEF ThreadFlow
  <1> QED
    BY <1>1, <1>2, <1>4, WorkerOutcome DEF OutcomeInv, Meeting, WorkerPlaces

\* The transform succeeds, or its failure becomes the worker's last output.
LEMMA WorkerTransformsOutcome ==
  ASSUME HeldInv, OutcomeInv, WorkerTransforms
  PROVE  OutcomeInv'
  <1>1. /\ wpc = "transform" /\ WorkerOnly /\ mode # "inline"
        /\ UNCHANGED <<mode, hand, outQ, rawQ, stop, src, pulled, inputRef, got, exhausted>>
        /\ \/ wpc' = "put" /\ UNCHANGED <<broken, terminal>>
           \/ wpc' \in {"closing", "final"} /\ terminal' = Failure /\ broken' = TRUE
        /\ mode = "thread" => wpc' # "closing"
    BY DEF HeldInv, StreamTypes, OutcomeInv, Meeting, WorkerTransforms, WorkerOnly, WorkerExit, cvars, qvars
  <1>2. ASSUME ~stop PROVE (wpc' \in WorkerPlaces => Flowing') /\ (wpc' \in {"closing", "final"} => Ending')
    <2>1. Flowing /\ Holding
      BY <1>1, <1>2 DEF OutcomeInv, ThreadFlow, WorkerPlaces, Holding
    <2>2. CASE wpc' = "put" /\ UNCHANGED <<broken, terminal>>
      <3>1. Holding' = Holding /\ TakenUp' = TakenUp
        BY <1>1, <2>1, <2>2 DEF Holding, TakenUp
      <3> QED
        BY <1>1, <2>1, <2>2, <3>1 DEF Flowing
    <2>3. CASE wpc' \in {"closing", "final"} /\ terminal' = Failure /\ broken' = TRUE
      BY <1>1, <2>1, <2>3 DEF Flowing, Ending, TrueEnd, WorkerPlaces
    <2> QED
      BY <1>1, <2>2, <2>3
  <1>3. ThreadFlow'
    BY <1>1, <1>2 DEF ThreadFlow
  <1>4. broken' \in BOOLEAN /\ inputRef' \in BOOLEAN /\ (broken => broken')
    <2>1. broken \in BOOLEAN /\ inputRef \in BOOLEAN /\ inputRef' = inputRef
      BY <1>1 DEF OutcomeInv, Meeting
    <2>2. broken' = broken \/ broken' = TRUE
      BY <1>1
    <2> QED
      BY <2>1, <2>2, Zenon
  <1>5. wpc' \in WorkerPlaces \cup {"closing", "final", "dead"} /\ wpc' # "new"
    BY <1>1 DEF WorkerPlaces
  <1> QED
    BY <1>1, <1>3, <1>4, <1>5, WorkerOutcome

\* A transformed batch is queued for the caller.
LEMMA WorkerPutsOutcome ==
  ASSUME HeldInv, OutcomeInv, WorkerPuts
  PROVE  OutcomeInv'
  <1>1. /\ wpc = "putting" /\ WorkerOnly /\ mode # "inline"
        /\ UNCHANGED <<mode, hand, terminal, rawQ, stop, src, pulled, inputRef, broken, got, exhausted>>
        /\ \/ outQ' = Append(outQ, hand) /\ wpc' = "loop"
           \/ stop /\ wpc' \in {"closing", "final"}
        /\ mode = "thread" => wpc' # "closing"
        /\ outQ \in Seq(Int) /\ hand \in Int /\ got \in Nat
    BY DEF HeldInv, StreamTypes, OutcomeInv, Meeting, WorkerPuts, WorkerOnly, WorkerExit, cvars, ivars
  <1>2. ASSUME ~stop PROVE wpc' = "loop" /\ Flowing'
    <2>1. Flowing /\ Holding /\ outQ' = Append(outQ, hand) /\ wpc' = "loop"
      BY <1>1, <1>2 DEF OutcomeInv, ThreadFlow, WorkerPlaces, Holding
    <2>2. TakenUp = got + Len(outQ) + 1 /\ Len(outQ) \in Nat
      BY <1>1, <2>1 DEF TakenUp
    <2>3. /\ Len(outQ') = Len(outQ) + 1 /\ outQ'[Len(outQ) + 1] = hand
          /\ \A i \in 1 .. Len(outQ) : outQ'[i] = outQ[i]
      BY <1>1, <2>1, AppendAt
    <2>4. Holding' = FALSE /\ TakenUp' = got + Len(outQ')
      BY <1>1, <2>1 DEF Holding, TakenUp
    <2>5. TakenUp' = TakenUp
      BY <1>1, <2>2, <2>3, <2>4
    <2>6. hand = got + (Len(outQ) + 1)
      BY <1>1, <2>1, <2>2 DEF Flowing
    <2>7. ASSUME NEW i \in 1 .. Len(outQ') PROVE outQ'[i] = got' + i
      <3>1. i = Len(outQ) + 1 \/ i \in 1 .. Len(outQ)
        BY <2>2, <2>3
      <3> QED
        BY <1>1, <2>1, <2>3, <2>6, <3>1 DEF Flowing
    <2> QED
      BY <1>1, <2>1, <2>4, <2>5, <2>7 DEF Flowing
  <1>3. ThreadFlow'
    BY <1>1, <1>2 DEF ThreadFlow
  <1>4. broken' \in BOOLEAN /\ inputRef' \in BOOLEAN
    BY <1>1 DEF OutcomeInv, Meeting
  <1>5. /\ wpc' \in WorkerPlaces \cup {"closing", "final", "dead"} /\ wpc' # "new"
        /\ mode = "thread" => wpc' \notin {"next", "closing"}
        /\ mode = "fetch" => wpc' # "get"
    BY <1>1 DEF WorkerPlaces
  <1> QED
    BY <1>1, <1>3, <1>4, <1>5, WorkerOutcome

\* The worker closes the input, which may raise.
LEMMA WorkerClosesInputOutcome ==
  ASSUME HeldInv, OutcomeInv, WorkerClosesInput
  PROVE  OutcomeInv'
  <1>1. /\ wpc = "closing" /\ wpc' = "final" /\ WorkerOnly /\ mode # "inline"
        /\ UNCHANGED <<mode, hand, rawQ, outQ, stop, src, pulled, got, exhausted>>
        /\ \/ inputRef' = FALSE /\ UNCHANGED <<terminal, broken>>
           \/ terminal' = Failure /\ broken' = TRUE /\ UNCHANGED inputRef
    BY DEF OutcomeInv, Meeting, WorkerClosesInput, WorkerOnly, cvars, qvars
  <1>2. ThreadFlow'
    BY <1>1 DEF OutcomeInv, ThreadFlow, Ending, TrueEnd, WorkerPlaces
  <1>3. broken' \in BOOLEAN /\ inputRef' \in BOOLEAN /\ (broken => broken')
    <2>1. broken \in BOOLEAN /\ inputRef \in BOOLEAN
      BY DEF OutcomeInv, Meeting
    <2>2. (broken' = broken /\ inputRef' = FALSE) \/ (broken' = TRUE /\ inputRef' = inputRef)
      BY <1>1
    <2> QED
      BY <2>1, <2>2, Zenon
  <1> QED
    BY <1>1, <1>2, <1>3, WorkerOutcome

\* The worker's last output is queued, and the worker ends.
LEMMA WorkerFinishesOutcome ==
  ASSUME HeldInv, OutcomeInv, WorkerFinishes
  PROVE  OutcomeInv'
  <1>1. /\ wpc = "final" /\ wpc' = "dead" /\ WorkerOnly /\ mode # "inline"
        /\ UNCHANGED <<mode, hand, terminal, rawQ, stop, src, pulled, inputRef, broken, got, exhausted>>
        /\ ~stop => outQ' = Append(outQ, terminal)
        /\ outQ \in Seq(Int) /\ terminal \in Int /\ got \in Nat
    BY DEF HeldInv, StreamTypes, OutcomeInv, Meeting, WorkerFinishes, WorkerOnly, cvars, ivars
  <1>2. ASSUME ~stop PROVE Ended'
    <2>1. Ending /\ outQ' = Append(outQ, terminal)
      BY <1>1, <1>2 DEF OutcomeInv, ThreadFlow
    <2>2. /\ Len(outQ) \in Nat /\ Len(outQ') = Len(outQ) + 1 /\ outQ'[Len(outQ')] = terminal
          /\ outQ' # <<>> /\ \A i \in 1 .. Len(outQ) : outQ'[i] = outQ[i]
      BY <1>1, <2>1, AppendAt
    <2>3. Len(outQ') - 1 = Len(outQ) /\ got + Len(outQ') - 1 = got + Len(outQ)
      BY <1>1, <2>2
    <2> QED
      BY <1>1, <2>1, <2>2, <2>3 DEF Ending, Ended, TrueEnd
  <1>3. ThreadFlow'
    BY <1>1, <1>2 DEF ThreadFlow, WorkerPlaces
  <1>4. broken' \in BOOLEAN /\ inputRef' \in BOOLEAN
    BY <1>1 DEF OutcomeInv, Meeting
  <1> QED
    BY <1>1, <1>3, <1>4, WorkerOutcome

\* All steps of the worker.
LEMMA WorkerKeepsOutcome ==
  ASSUME HeldInv, OutcomeInv, Worker
  PROVE  OutcomeInv'
  BY WorkerMovesOutcome, WorkerGetsOutcome, WorkerPullsOutcome, WorkerTransformsOutcome,
     WorkerPutsOutcome, WorkerClosesInputOutcome, WorkerFinishesOutcome DEF Worker

\* next() starts the worker with its first call.
LEMMA CallNextOutcome ==
  ASSUME HeldInv, OutcomeInv, CallNext
  PROVE  OutcomeInv'
  <1>1. /\ cpc = "idle" /\ ~stop /\ mode \in {"thread", "fetch", "inline"} /\ got \in Nat
        /\ UNCHANGED <<mode, hand, terminal, rawQ, outQ, stop, src, pulled, inputRef, broken, todo,
                       exhausted, closed, why, got, out, staged, pending>>
        /\ started' = (mode # "inline")
        /\ wpc' = IF mode # "inline" /\ ~started THEN "loop" ELSE wpc
        /\ mode = "fetch" => cpc' = "get"
        /\ mode = "thread" => cpc' = "fetch"
        /\ mode = "inline" => cpc' \in {"fetch", "stage"}
    BY DEF HeldInv, StreamTypes, OutcomeInv, Meeting, CallNext, qvars, ivars, svars
  <1>2. wpc' = wpc \/ (wpc = "new" /\ wpc' = "loop" /\ mode # "inline")
    BY <1>1 DEF OutcomeInv, Meeting
  <1>3. Meeting'
    BY <1>1, <1>2 DEF OutcomeInv, Meeting, WorkerPlaces
  <1>4. Reasons'
    BY <1>1, <1>2 DEF OutcomeInv, Reasons
  <1>5. ThreadFlow'
    <2>1. Holding' = Holding
      BY <1>1, <1>2 DEF Holding
    <2>2. TakenUp' = TakenUp
      BY <1>1, <2>1 DEF TakenUp
    <2>3. mode # "inline" /\ Flowing => Flowing'
      BY <1>1, <2>1, <2>2 DEF Flowing
    <2> QED
      BY <1>1, <1>2, <2>3 DEF OutcomeInv, ThreadFlow, Ending, Ended, TrueEnd, WorkerPlaces
  <1>6. InlineFlow'
    BY <1>1 DEF OutcomeInv, InlineFlow
  <1> QED
    BY <1>3, <1>4, <1>5, <1>6 DEF OutcomeInv

\* The worker's outputs reach the caller in order; the last of them, or a dead
\* worker without one, closes the iterator.
LEMMA OutputsKeepOutcome ==
  ASSUME HeldInv, OutcomeInv, GetOutput \/ GetTimesOut \/ Expired
  PROVE  OutcomeInv'
  <1>1. /\ cpc \in {"get", "expired"} /\ ~stop /\ mode \in {"thread", "fetch"}
        /\ got \in Nat /\ outQ \in Seq(Int) /\ pulled \in Nat
        /\ UNCHANGED <<mode, wpc, hand, terminal, rawQ, src, pulled, inputRef, broken, todo,
                       exhausted, started, closed, out, staged, pending>>
    BY DEF HeldInv, StreamTypes, OutcomeInv, Meeting, GetOutput, GetTimesOut, Expired, GetUnchanged, qvars,
           wvars, ivars, svars
  <1>2. CASE /\ UNCHANGED <<outQ, stop, why, got>>
             /\ cpc' \in {"get", "expired"}
    <2>1. Meeting' /\ Reasons'
      BY <1>1, <1>2 DEF OutcomeInv, Meeting, Reasons
    <2>2. ThreadFlow' /\ InlineFlow'
      BY <1>1, <1>2 DEF OutcomeInv, ThreadFlow, Flowing, Ending, Ended, TrueEnd, TakenUp, Holding, InlineFlow
    <2> QED
      BY <2>1, <2>2 DEF OutcomeInv
  <1>3. CASE outQ # <<>> /\ TakeOutput
    <2> DEFINE rest == Tail(outQ)
    <2>1. /\ Len(outQ) \in Nat \ {0} /\ Len(rest) = Len(outQ) - 1 /\ Head(outQ) = outQ[1] /\ outQ[1] \in Int
          /\ \A i \in 1 .. Len(outQ) - 1 : rest[i] = outQ[i + 1]
      BY <1>1, <1>3, TailAt
    <2>2. /\ outQ' = rest
          /\ \/ outQ[1] > 0 /\ got' = outQ[1] /\ cpc' = "idle" /\ UNCHANGED <<stop, why>>
             \/ /\ ~(outQ[1] > 0) /\ stop' = TRUE /\ cpc' = "join" /\ got' = got
                /\ why' = IF outQ[1] = End THEN "end" ELSE "error"
      BY <1>3, <2>1 DEF TakeOutput, Return, BeginClose
    <2> HIDE DEF rest
    <2>3. \/ wpc \in WorkerPlaces /\ Flowing
          \/ wpc \in {"closing", "final"} /\ Ending
          \/ wpc = "dead" /\ Ended
      BY <1>1 DEF OutcomeInv, Meeting, ThreadFlow
    <2>4. CASE \A i \in 1 .. Len(outQ) : outQ[i] = got + i
      <3>1. /\ outQ[1] = got + 1 /\ got' = got + 1 /\ cpc' = "idle" /\ UNCHANGED <<stop, why>>
            /\ got' \in Nat
        BY <1>1, <2>1, <2>2, <2>4
      <3>2. got' + Len(outQ') = got + Len(outQ)
        <4>1. got \in Nat /\ Len(outQ) \in Nat /\ Len(outQ') = Len(outQ) - 1 /\ got' = got + 1
          BY <1>1, <2>1, <2>2, <3>1
        <4> QED
          BY <4>1
      <3>3. ASSUME NEW i \in 1 .. Len(outQ') PROVE outQ'[i] = got' + i
        <4>1. i + 1 \in 1 .. Len(outQ) /\ outQ'[i] = outQ[i + 1]
          BY <2>1, <2>2
        <4> QED
          BY <1>1, <2>4, <3>1, <4>1
      <3>4. Holding' = Holding /\ TakenUp' = TakenUp
        BY <1>1, <3>2 DEF Holding, TakenUp
      <3>5. Flowing => Flowing'
        BY <1>1, <3>3, <3>4 DEF Flowing
      <3>6. Ending => Ending'
        BY <1>1, <3>2, <3>3 DEF Ending, TrueEnd
      <3>7. Ended => Ended'
        <4> SUFFICES ASSUME Ended PROVE FALSE
          OBVIOUS
        <4>1. outQ[Len(outQ)] = got + Len(outQ)
          BY <2>1, <2>4
        <4>2. outQ[Len(outQ)] \in {End, Failure}
          BY DEF Ended, TrueEnd
        <4> QED
          BY <1>1, <2>1, <4>1, <4>2 DEF End, Failure
      <3>8. ThreadFlow'
        BY <1>1, <2>3, <3>5, <3>6, <3>7 DEF ThreadFlow, WorkerPlaces
      <3>9. Meeting'
        BY <1>1, <3>1 DEF OutcomeInv, Meeting
      <3>10. Reasons' /\ InlineFlow'
        BY <1>1, <3>1 DEF OutcomeInv, Reasons, InlineFlow
      <3> QED
        BY <3>8, <3>9, <3>10 DEF OutcomeInv
    <2>5. CASE wpc = "dead" /\ Ended /\ Len(outQ) # 1
      <3>1. /\ outQ[1] = got + 1 /\ got' = got + 1 /\ cpc' = "idle" /\ UNCHANGED <<stop, why>>
            /\ got' \in Nat
        <4>1. 1 \in 1 .. Len(outQ) - 1
          BY <2>1, <2>5
        <4>2. outQ[1] = got + 1
          BY <2>5, <4>1 DEF Ended
        <4> QED
          BY <1>1, <2>2, <4>2
      <3>2. /\ got' + Len(outQ') - 1 = got + Len(outQ) - 1
            /\ Len(outQ') \in Nat \ {0} /\ outQ'[Len(outQ')] = outQ[Len(outQ)] /\ outQ' # <<>>
        <4>1. Len(outQ') = Len(outQ) - 1 /\ Len(outQ') \in Nat \ {0}
          BY <2>1, <2>2, <2>5
        <4>2. Len(outQ') \in 1 .. Len(outQ) - 1 /\ Len(outQ') + 1 = Len(outQ)
          BY <2>1, <4>1
        <4>3. outQ'[Len(outQ')] = outQ[Len(outQ)]
          BY <2>1, <2>2, <4>2
        <4>4. got' + Len(outQ') - 1 = got + Len(outQ) - 1
          BY <1>1, <2>1, <3>1, <4>1
        <4>5. outQ' # <<>>
          BY <4>1
        <4> QED
          BY <4>1, <4>3, <4>4, <4>5
      <3>3. ASSUME NEW i \in 1 .. Len(outQ') - 1 PROVE outQ'[i] = got' + i
        <4>1. i \in 1 .. Len(outQ) - 1 /\ i + 1 \in 1 .. Len(outQ) - 1 /\ outQ'[i] = outQ[i + 1]
          BY <2>1, <2>2
        <4>2. outQ[i + 1] = got + (i + 1)
          BY <2>5, <4>1 DEF Ended
        <4> QED
          BY <1>1, <3>1, <4>1, <4>2
      <3>4. Ended'
        BY <1>1, <2>5, <3>2, <3>3 DEF Ended, TrueEnd
      <3>5. ThreadFlow'
        BY <1>1, <2>5, <3>4 DEF ThreadFlow, WorkerPlaces
      <3>6. Meeting'
        BY <1>1, <3>1 DEF OutcomeInv, Meeting
      <3>7. Reasons' /\ InlineFlow'
        BY <1>1, <3>1 DEF OutcomeInv, Reasons, InlineFlow
      <3> QED
        BY <3>5, <3>6, <3>7 DEF OutcomeInv
    <2>6. CASE wpc = "dead" /\ Ended /\ Len(outQ) = 1
      <3>1. TrueEnd(outQ[1], got)
        BY <1>1, <2>6 DEF Ended, TrueEnd
      <3>2. /\ stop' = TRUE /\ cpc' = "join" /\ got' = got
            /\ why' = IF outQ[1] = End THEN "end" ELSE "error"
        BY <2>1, <2>2, <3>1 DEF TrueEnd, End, Failure
      <3>3. Meeting'
        BY <1>1, <2>6, <3>2 DEF OutcomeInv, Meeting, WorkerPlaces
      <3>4. Reasons'
        BY <1>1, <2>6, <3>1, <3>2 DEF OutcomeInv, Reasons, TrueEnd, End, Failure
      <3>5. ThreadFlow' /\ InlineFlow'
        BY <1>1, <3>2 DEF ThreadFlow, InlineFlow
      <3> QED
        BY <3>3, <3>4, <3>5 DEF OutcomeInv
    <2> QED
      BY <2>3, <2>4, <2>5, <2>6 DEF Flowing, Ending
  <1>4. CASE Expired /\ wpc = "dead" /\ outQ = <<>>
    BY <1>1, <1>4 DEF OutcomeInv, ThreadFlow, Ended
  <1> QED
    BY <1>1, <1>2, <1>3, <1>4 DEF GetOutput, GetTimesOut, Expired, qvars

\* The raw batches go to the worker's queue, or to the consumer itself.
LEMMA FetchRawOutcome ==
  ASSUME HeldInv, OutcomeInv, FetchRaw
  PROVE  OutcomeInv'
  <1>1. /\ cpc \in {"fetch", "refetch"} /\ ~stop /\ mode \in {"thread", "inline"}
        /\ rawQ \in Seq(Nat) /\ outQ \in Seq(Int) /\ {pulled, got, staged, pending} \subseteq Nat
        /\ UNCHANGED <<mode, wpc, hand, terminal, outQ, inputRef, broken, started, closed, out>>
        /\ closed = FALSE /\ why # "end" /\ out # "end" /\ (exhausted <=> src = "ended")
    BY DEF HeldInv, StreamTypes, OutcomeInv, Meeting, Reasons, FetchRaw, wvars
  <1>2. CASE src' = "failed" /\ ~exhausted
    <2>1. /\ stop' = TRUE /\ why' = "error" /\ cpc' = "join" /\ got' = got /\ rawQ' = rawQ
          /\ exhausted' = FALSE
      BY <1>2 DEF FetchRaw, BeginClose
    <2>2. Meeting'
      BY <1>1, <1>2, <2>1 DEF OutcomeInv, Meeting
    <2>3. Reasons'
      BY <1>1, <1>2, <2>1 DEF OutcomeInv, Reasons
    <2>4. ThreadFlow' /\ InlineFlow'
      BY <2>1 DEF ThreadFlow, InlineFlow
    <2> QED
      BY <2>2, <2>3, <2>4 DEF OutcomeInv
  <1>3. CASE ~(src' = "failed" /\ ~exhausted)
    <2> DEFINE fetched == IF exhausted THEN <<>> ELSE
                          IF src' = "ended" THEN <<End>> ELSE <<pulled'>>
    <2>1. /\ UNCHANGED <<stop, why>>
          /\ todo' = IF cpc = "fetch" /\ todo = 2 THEN 1 ELSE todo
          /\ IF mode = "thread"
               THEN /\ rawQ' = rawQ \o fetched
                    /\ cpc' \in {"fetch", "get"}
                    /\ UNCHANGED <<staged, pending, got>>
               ELSE /\ staged' = IF fetched = <<>> THEN staged ELSE fetched[1]
                    /\ IF cpc = "fetch" THEN cpc' = "stage" /\ UNCHANGED <<pending, got>>
                                        ELSE pending' = 0 /\ got' = pending /\ cpc' = "idle"
                    /\ rawQ' = rawQ
      BY <1>3 DEF FetchRaw, Return
    <2>2. /\ exhausted => UNCHANGED <<src, pulled, exhausted>>
          /\ ~exhausted => /\ exhausted' = (src' = "ended") /\ src = "open"
                           /\ \/ src' = "open" /\ pulled' = pulled + 1
                              \/ src' = "ended" /\ pulled' = pulled
      BY <1>3 DEF FetchRaw, Pull
    <2>3. /\ exhausted => fetched = <<>>
          /\ ~exhausted => /\ fetched = <<IF src' = "ended" THEN End ELSE pulled'>>
                           /\ fetched # <<>> /\ fetched[1] = IF src' = "ended" THEN End ELSE pulled'
      OBVIOUS
    <2> HIDE DEF fetched
    <2>4. exhausted' \in BOOLEAN /\ (exhausted' <=> src' = "ended") /\ got' \in Nat
      <3>1. got' \in Nat
        BY <1>1, <2>1
      <3>2. CASE exhausted
        BY <1>1, <2>2, <3>1, <3>2 DEF OutcomeInv, Meeting
      <3>3. CASE ~exhausted
        <4>1. exhausted' = (src' = "ended")
          BY <2>2, <3>3
        <4> QED
          BY <3>1, <4>1
      <3> QED
        BY <3>2, <3>3
    <2>5. cpc' \notin {"join", "release", "input", "refetch", "expired"}
      BY <1>1, <2>1
    <2>6. Meeting'
      BY <1>1, <2>1, <2>4, <2>5 DEF OutcomeInv, Meeting
    <2>7. Reasons'
      BY <1>1, <2>1, <2>2 DEF OutcomeInv, Reasons
    <2>8. CASE mode = "thread"
      <3>1. InlineFlow'
        BY <1>1, <2>8 DEF InlineFlow
      <3>2. got' = got /\ rawQ' = rawQ \o fetched
        BY <2>1, <2>8
      <3>3. CASE exhausted
        <4>1. rawQ' = rawQ
          BY <1>1, <2>3, <3>2, <3>3
        <4>2. ThreadFlow'
          BY <1>1, <2>1, <2>2, <3>2, <3>3, <4>1
          DEF OutcomeInv, ThreadFlow, Flowing, Ending, Ended, TrueEnd, TakenUp, Holding
        <4> QED
          BY <2>6, <2>7, <3>1, <4>2 DEF OutcomeInv
      <3>4. CASE ~exhausted
        <4> DEFINE x == IF src' = "ended" THEN End ELSE pulled'
        <4>1. x \in Nat
          BY <1>1, <2>2, <3>4 DEF End
        <4>2. rawQ' = rawQ \o <<x>>
          BY <2>3, <3>2, <3>4
        <4>3. /\ Len(rawQ) \in Nat /\ Len(rawQ') = Len(rawQ) + 1 /\ rawQ'[Len(rawQ) + 1] = x /\ rawQ' # <<>>
              /\ \A i \in 1 .. Len(rawQ) : rawQ'[i] = rawQ[i]
          <5> HIDE DEF x
          <5> QED
            BY <1>1, <4>1, <4>2
        <4>4. Flowing => Flowing'
          <5> SUFFICES ASSUME Flowing PROVE Flowing'
            OBVIOUS
          <5>1. TakenUp \in Nat
            BY <1>1 DEF TakenUp
          <5>2. pulled = TakenUp + Len(rawQ) /\ \A i \in 1 .. Len(rawQ) : rawQ[i] = TakenUp + i
            BY <3>4, <4>3, <5>1 DEF Flowing
          <5>3. Holding' = Holding /\ TakenUp' = TakenUp
            BY <1>1, <3>2 DEF Holding, TakenUp
          <5>4. pulled' = TakenUp' + Len(rawQ') - (IF exhausted' THEN 1 ELSE 0)
            <6>1. CASE src' = "ended"
              <7>1. pulled' = pulled /\ exhausted'
                BY <2>2, <2>4, <3>4, <6>1
              <7>2. TakenUp + Len(rawQ) = TakenUp + (Len(rawQ) + 1) - 1
                BY <4>3, <5>1
              <7> QED
                BY <4>3, <5>2, <5>3, <7>1, <7>2
            <6>2. CASE src' # "ended"
              <7>1. pulled' = pulled + 1 /\ ~exhausted'
                BY <2>2, <2>4, <3>4, <6>2
              <7>2. (TakenUp + Len(rawQ)) + 1 = TakenUp + (Len(rawQ) + 1) - 0
                BY <4>3, <5>1
              <7> QED
                BY <4>3, <5>2, <5>3, <7>1, <7>2
            <6> QED
              BY <6>1, <6>2
          <5>5. ASSUME NEW i \in 1 .. Len(rawQ')
                PROVE  rawQ'[i] = IF exhausted' /\ i = Len(rawQ') THEN End ELSE TakenUp' + i
            <6>1. CASE i \in 1 .. Len(rawQ)
              BY <4>3, <5>2, <5>3, <6>1
            <6>2. CASE i = Len(rawQ) + 1
              <7>1. src' # "ended" => x = TakenUp + (Len(rawQ) + 1)
                BY <2>2, <3>4, <4>3, <5>1, <5>2
              <7> QED
                BY <2>4, <4>3, <5>3, <6>2, <7>1
            <6> QED
              BY <4>3, <6>1, <6>2
          <5>6. src' # "failed"
            BY <2>2, <3>4
          <5> HIDE DEF x
          <5> QED
            BY <1>1, <2>8, <3>2, <4>3, <5>3, <5>4, <5>5, <5>6 DEF Flowing
        <4>5. Ending => Ending'
          BY <1>1, <2>2, <3>2, <3>4 DEF Ending, TrueEnd
        <4>6. Ended => Ended'
          BY <1>1, <2>2, <3>2, <3>4 DEF Ended, TrueEnd
        <4>7. ThreadFlow'
          BY <1>1, <2>1, <4>4, <4>5, <4>6 DEF OutcomeInv, ThreadFlow
        <4> QED
          BY <2>6, <2>7, <3>1, <4>7 DEF OutcomeInv
      <3> QED
        BY <3>3, <3>4
    <2>9. CASE mode = "inline"
      <3>1. ThreadFlow'
        BY <1>1, <2>9 DEF ThreadFlow
      <3>2. /\ ~broken /\ staged = 0 /\ (cpc = "fetch" => todo = 2 /\ pending = 0 /\ pulled = got)
            /\ (cpc = "refetch" => pending # 0 /\ pulled = got + 1 /\ pending = pulled)
        BY <1>1, <2>9 DEF HeldInv, InsideCalls, OutcomeInv, InlineFlow
      <3>3. /\ pulled = got' /\ pending' = 0 /\ cpc' # "refetch"
        BY <1>1, <2>1, <2>9, <3>2
      <3>4. CASE exhausted
        <4>1. staged' = 0 /\ pulled' = pulled /\ exhausted' = exhausted /\ src' # "failed"
          BY <2>1, <2>2, <2>3, <2>9, <3>2, <3>4, <1>1
        <4>2. InlineFlow'
          BY <1>1, <3>2, <3>3, <3>4, <4>1 DEF InlineFlow
        <4> QED
          BY <2>6, <2>7, <3>1, <4>2 DEF OutcomeInv
      <3>5. CASE ~exhausted
        <4>1. staged' = IF src' = "ended" THEN 0 ELSE pulled'
          BY <2>1, <2>3, <2>9, <3>5 DEF End
        <4>2. InlineFlow'
          <5>1. CASE src' = "ended"
            BY <1>1, <2>2, <3>2, <3>3, <3>5, <4>1, <5>1 DEF InlineFlow
          <5>2. CASE src' = "open"
            BY <1>1, <2>2, <3>2, <3>3, <3>5, <4>1, <5>2 DEF InlineFlow
          <5> QED
            BY <2>2, <3>5, <5>1, <5>2
        <4> QED
          BY <2>6, <2>7, <3>1, <4>2 DEF OutcomeInv
      <3> QED
        BY <3>4, <3>5
    <2> QED
      BY <1>1, <2>8, <2>9
  <1> QED
    BY <1>2, <1>3

\* _transform_staged() makes the staged batch the pending one, or raises.
LEMMA StagedOutcome ==
  ASSUME HeldInv, OutcomeInv, mode = "inline", ~stop,
         IF pending = 0 THEN TransformStaged ELSE UNCHANGED <<staged, pending, rawHeld, side, broken>>
  PROVE  /\ broken' \in BOOLEAN /\ broken = FALSE
         /\ \/ broken' = FALSE /\ UNCHANGED <<staged, pending>> /\ (pending # 0 \/ staged = 0)
            \/ broken' = FALSE /\ staged # 0 /\ pending = 0 /\ staged' = 0 /\ pending' = staged
            \/ broken' = TRUE /\ staged # 0 /\ pending = 0 /\ staged' = 0 /\ pending' = 0
  <1>1. broken = FALSE
    BY DEF OutcomeInv, Meeting, InlineFlow
  <1>2. CASE pending # 0 \/ staged = 0
    <2>1. UNCHANGED <<staged, pending, broken>>
      BY <1>2 DEF TransformStaged
    <2> QED
      BY <1>1, <1>2, <2>1
  <1>3. CASE pending = 0 /\ staged # 0
    <2>1. PICK ok \in BOOLEAN : /\ staged' = 0 /\ pending' = (IF ok THEN staged ELSE 0)
                                /\ broken' = (broken \/ ~ok)
      BY <1>3 DEF TransformStaged
    <2>2. CASE ok = TRUE
      BY <1>1, <1>3, <2>1, <2>2
    <2>3. CASE ok = FALSE
      BY <1>1, <1>3, <2>1, <2>3
    <2> QED
      BY <2>2, <2>3
  <1> QED
    BY <1>2, <1>3

\* next() and notify() of the iterator without a thread.
LEMMA InlineOutcome ==
  ASSUME HeldInv, OutcomeInv, Stage \/ NotifyInline
  PROVE  OutcomeInv'
  <1>1. /\ mode = "inline" /\ ~stop
        /\ UNCHANGED <<mode, wpc, hand, terminal, rawQ, outQ, src, pulled, inputRef, todo, exhausted,
                       started, closed, got, out>>
        /\ IF pending = 0 THEN TransformStaged ELSE UNCHANGED <<staged, pending, rawHeld, side, broken>>
        /\ why # "end" /\ out # "end" /\ closed = FALSE /\ {pulled, got} \subseteq Nat
    BY DEF HeldInv, StreamTypes, OutcomeInv, Meeting, Reasons, Stage, NotifyInline, wvars
  <1>2. /\ broken' \in BOOLEAN /\ broken = FALSE
        /\ \/ broken' = FALSE /\ UNCHANGED <<staged, pending>> /\ (pending # 0 \/ staged = 0)
           \/ broken' = FALSE /\ staged # 0 /\ pending = 0 /\ staged' = 0 /\ pending' = staged
           \/ broken' = TRUE /\ staged # 0 /\ pending = 0 /\ staged' = 0 /\ pending' = 0
    BY <1>1, StagedOutcome
  <1>3. ThreadFlow'
    BY <1>1 DEF ThreadFlow
  <1>4. InlineFlow /\ Meeting /\ Reasons
    BY DEF OutcomeInv
  <1>5. \/ UNCHANGED <<stop, why>> /\ broken' = FALSE /\ (cpc' = "refetch" => pending' # 0) /\ cpc' \in {"idle", "refetch"}
        \/ /\ stop' = TRUE /\ cpc' = "join"
           /\ \/ why' = "error" /\ broken' = TRUE
              \/ why' = "end" /\ broken' = FALSE /\ src = "ended" /\ got = pulled
    <2>1. CASE Stage
      <3>1. cpc = "stage" /\ todo # 2
        BY <2>1 DEF Stage, HeldInv, InsideCalls
      <3>2. CASE pending' # 0
        <4>1. cpc' = "refetch" /\ UNCHANGED <<stop, why>>
          BY <2>1, <3>2 DEF Stage
        <4> QED
          BY <1>2, <3>2, <4>1
      <3>3. CASE pending' = 0
        <4>1. /\ stop' = TRUE /\ cpc' = "join" /\ why' = IF staged # 0 THEN "error" ELSE "end"
          BY <2>1, <3>3 DEF Stage, BeginClose
        <4>2. CASE staged # 0
          BY <1>2, <3>3, <4>1, <4>2
        <4>3. CASE staged = 0
          <5>1. pending = 0 /\ broken' = FALSE
            BY <1>2, <3>3, <4>3
          <5>2. exhausted /\ pulled = got
            BY <1>1, <1>4, <3>1, <4>3, <5>1 DEF InlineFlow
          <5> QED
            BY <1>1, <1>4, <4>1, <4>3, <5>1, <5>2 DEF Meeting
        <4> QED
          BY <4>2, <4>3
      <3> QED
        BY <3>2, <3>3
    <2>2. CASE NotifyInline
      <3>1. CASE broken' = TRUE
        BY <1>2, <2>2, <3>1 DEF NotifyInline, BeginClose
      <3>2. CASE broken' = FALSE
        BY <1>2, <2>2, <3>2 DEF NotifyInline
      <3> QED
        BY <1>2, <3>1, <3>2
    <2> QED
      BY <2>1, <2>2
  <1>6. Meeting'
    <2>1. stop' \in BOOLEAN /\ ((cpc' \in {"idle", "refetch"} /\ ~stop') \/ (cpc' = "join" /\ stop'))
      <3>1. stop = FALSE
        BY <1>1, <1>4 DEF Meeting
      <3>2. \/ stop' = FALSE /\ cpc' \in {"idle", "refetch"}
            \/ stop' = TRUE /\ cpc' = "join"
        BY <1>5, <3>1
      <3> QED
        BY <3>2
    <2> QED
      BY <1>1, <1>2, <1>4, <2>1 DEF Meeting
  <1>7. Reasons'
    BY <1>1, <1>2, <1>4, <1>5 DEF Reasons, Meeting
  <1>8. InlineFlow'
    <2>1. CASE stop'
      BY <2>1 DEF InlineFlow
    <2>2. CASE ~stop'
      <3>1. broken' = FALSE /\ (cpc' = "refetch" => pending' # 0)
        BY <1>5, <2>2
      <3>2. \/ UNCHANGED <<staged, pending>>
            \/ staged # 0 /\ pending = 0 /\ staged' = 0 /\ pending' = staged
        BY <1>2, <3>1
      <3> QED
        BY <1>1, <1>4, <3>1, <3>2 DEF InlineFlow
    <2> QED
      BY <2>1, <2>2
  <1> QED
    BY <1>3, <1>6, <1>7, <1>8 DEF OutcomeInv

\* close(), from its call to the end: nothing flows any more.
LEMMA ClosingOutcome ==
  ASSUME HeldInv, OutcomeInv, CallClose \/ Join \/ JoinTimesOut \/ ReleaseStorage
  PROVE  OutcomeInv'
  <1>1. /\ UNCHANGED <<mode, wpc, src, pulled, inputRef, broken, exhausted, started, closed, got>>
        /\ (rawQ' = rawQ /\ outQ' = outQ) \/ (rawQ' = <<>> /\ outQ' = <<>>)
        /\ stop' = TRUE
    BY DEF OutcomeInv, Meeting, CallClose, Join, JoinTimesOut, ReleaseStorage, BeginClose, CloseOnly, wvars, ivars
  <1>2. ThreadFlow' /\ InlineFlow'
    BY <1>1 DEF ThreadFlow, InlineFlow
  <1>3. Meeting /\ Reasons
    BY DEF OutcomeInv
  <1>4. CASE CallClose
    <2>1. /\ closed = FALSE /\ cpc' = "join" /\ why' = "close" /\ out' # "open" /\ out # "end"
          /\ (out' = "error" => out = "error") /\ (out' = "end" => out = "end")
      BY <1>3, <1>4 DEF CallClose, BeginClose, Reasons, Meeting
    <2>2. Meeting'
      BY <1>1, <1>3, <2>1 DEF Meeting
    <2>4. closed' = FALSE /\ src' = src /\ broken' = broken
      BY <1>1, <2>1
    <2>5. (src = "failed" \/ broken) => (src' = "failed" \/ broken')
      BY <2>4
    <2>6. out' = "error" => src' = "failed" \/ broken'
      BY <1>3, <2>1, <2>5 DEF Reasons
    <2>3. Reasons'
      BY <2>1, <2>4, <2>6 DEF Reasons
    <2> QED
      BY <1>2, <2>2, <2>3 DEF OutcomeInv
  <1>5. CASE Join
    <2>1. /\ cpc = "join" /\ cpc' = "release" /\ (started => wpc = "dead") /\ UNCHANGED <<why, out>>
      BY <1>5 DEF Join, CloseOnly
    <2>2. Meeting'
      BY <1>1, <1>3, <2>1 DEF Meeting
    <2>3. Reasons'
      <3>1. stop /\ closed = FALSE /\ why # "none"
        BY <1>3, <2>1 DEF Meeting, Reasons
      <3> QED
        BY <1>1, <1>3, <2>1, <3>1 DEF Reasons
    <2> QED
      BY <1>2, <2>2, <2>3 DEF OutcomeInv
  <1>6. CASE JoinTimesOut
    <2>1. /\ cpc = "join" /\ cpc' = "idle" /\ wpc \in {"next", "transform", "closing"}
          /\ out' = (IF out = "open" THEN "error" ELSE out) /\ UNCHANGED why
      BY <1>6 DEF JoinTimesOut, CloseOnly
    <2>4. /\ stop /\ closed = FALSE /\ out # "end" /\ why \in {"error", "close"}
          /\ out' # "open" /\ out' # "end"
          /\ (out' = "error" => src = "failed" \/ broken)
      BY <1>3, <2>1 DEF Meeting, Reasons
    <2>2. Meeting'
      BY <1>1, <1>3, <2>1 DEF Meeting
    <2>3. Reasons'
      <3>1. closed' = FALSE /\ src' = src /\ broken' = broken /\ why' = why
        BY <1>1, <2>1, <2>4
      <3>2. (src = "failed" \/ broken) => (src' = "failed" \/ broken')
        BY <3>1
      <3>3. why' = "error" => src' = "failed" \/ broken'
        BY <1>3, <3>1, <3>2 DEF Reasons
      <3> QED
        BY <2>4, <3>1, <3>2, <3>3 DEF Reasons
    <2> QED
      BY <1>2, <2>2, <2>3 DEF OutcomeInv
  <1>7. CASE ReleaseStorage
    <2>1. /\ cpc = "release" /\ cpc' = "input" /\ UNCHANGED <<why, out>> /\ rawQ' = <<>> /\ outQ' = <<>>
      BY <1>7 DEF ReleaseStorage, CloseOnly
    <2>2. Meeting'
      BY <1>1, <1>3, <2>1 DEF Meeting
    <2>3. Reasons'
      <3>1. stop /\ closed = FALSE /\ why # "none"
        BY <1>3, <2>1 DEF Meeting, Reasons
      <3> QED
        BY <1>1, <1>3, <2>1, <3>1 DEF Reasons
    <2> QED
      BY <1>2, <2>2, <2>3 DEF OutcomeInv
  <1> QED
    BY <1>4, <1>5, <1>6, <1>7

\* The input is closed last; only then has the iterator ended.
LEMMA CloseInputOutcome ==
  ASSUME HeldInv, OutcomeInv, CloseInput
  PROVE  OutcomeInv'
  <1>1. /\ cpc = "input" /\ cpc' = "idle" /\ stop /\ rawQ = <<>> /\ outQ = <<>> /\ wpc \in {"new", "dead"}
        /\ UNCHANGED <<mode, wpc, rawQ, outQ, stop, src, pulled, exhausted, started, why, got>>
    BY DEF OutcomeInv, Meeting, CloseInput, CloseOnly, wvars
  <1>2. \/ /\ inputRef' = FALSE /\ closed' = TRUE /\ broken' = broken
           /\ \/ out # "open" /\ out' = out
              \/ out = "open" /\ why = "end" /\ out' = "end"
              \/ out = "open" /\ why # "end" /\ out' = "error"
        \/ /\ inputRef' = inputRef /\ closed' = closed /\ broken' = TRUE
           /\ out' = IF out = "open" THEN "error" ELSE out
    BY DEF CloseInput
  <1>3. Meeting /\ Reasons /\ closed = FALSE /\ why # "none"
    BY <1>1 DEF OutcomeInv, Meeting, Reasons
  <1>4. inputRef' \in BOOLEAN /\ broken' \in BOOLEAN /\ closed' \in BOOLEAN
    <2>1. inputRef \in BOOLEAN /\ broken \in BOOLEAN /\ closed \in BOOLEAN
      BY <1>3 DEF Meeting
    <2>2. (inputRef' = FALSE \/ inputRef' = inputRef) /\ (closed' = TRUE \/ closed' = closed)
          /\ (broken' = broken \/ broken' = TRUE)
      BY <1>2
    <2> QED
      BY <2>1, <2>2, Zenon
  <1>5. Meeting'
    BY <1>1, <1>3, <1>4 DEF Meeting
  <1>6. Reasons'
    BY <1>1, <1>2, <1>3 DEF Reasons
  <1>7. ThreadFlow' /\ InlineFlow'
    BY <1>1 DEF ThreadFlow, InlineFlow
  <1> QED
    BY <1>5, <1>6, <1>7 DEF OutcomeInv

\* What the caller is told is true, for all three kinds of iterator, any number
\* of batches and any output queue: StopIteration comes after the last batch of
\* an input that ended, an error only when something raised, and a closed
\* iterator has left no thread, no batch and no open input behind.
THEOREM OutcomesAreTrue == CudaSpec => []OutcomeIsTrue
  <1>1. CudaInit => OutcomeInv
    <2> SUFFICES ASSUME CudaInit PROVE OutcomeInv
      OBVIOUS
    <2>1. mode \in {"thread", "fetch", "inline"}
      BY DEF CudaInit, Mode
    <2>2. Meeting
      BY <2>1 DEF CudaInit, Meeting, WorkerPlaces
    <2>3. Reasons /\ InlineFlow
      BY DEF CudaInit, Reasons, InlineFlow
    <2>4. ThreadFlow
      BY DEF CudaInit, ThreadFlow, Flowing, TakenUp, Holding, WorkerPlaces
    <2> QED
      BY <2>2, <2>3, <2>4 DEF OutcomeInv
  <1>2. HeldInv /\ OutcomeInv /\ [CudaNext]_cudaVars => OutcomeInv'
    <2> SUFFICES ASSUME HeldInv, OutcomeInv, [CudaNext]_cudaVars PROVE OutcomeInv'
      OBVIOUS
    <2>1. CASE UNCHANGED cudaVars \/ MainRuns \/ SideRuns \/ TrainStep \/ Notify
      BY <2>1, OutcomeElsewhere
      DEF cudaVars, MainRuns, SideRuns, TrainStep, Notify, wvars, qvars, ivars, cvars, svars
    <2>2. CASE Worker
      BY <2>2, WorkerKeepsOutcome
    <2>3. CASE CallNext \/ NotifyInline \/ CallClose
      BY <2>3, CallNextOutcome, InlineOutcome, ClosingOutcome
    <2>4. CASE Consumer
      BY <2>4, FetchRawOutcome, InlineOutcome, OutputsKeepOutcome, ClosingOutcome, CloseInputOutcome DEF Consumer
    <2> QED
      BY <2>1, <2>2, <2>3, <2>4 DEF CudaNext, Calls
  <1>3. OutcomeInv => OutcomeIsTrue
    BY DEF OutcomeInv, Reasons, OutcomeIsTrue
  <1> QED
    BY <1>1, <1>2, <1>3, HeldInvHolds, PTL DEF CudaSpec
=============================================================================
