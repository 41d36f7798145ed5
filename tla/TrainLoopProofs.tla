-------------------------- MODULE TrainLoopProofs --------------------------
(***************************************************************************)
(* Proof that the ranks of a windowed training loop meet in the same       *)
(* collectives, for every number of ranks, epochs, windows and steps and   *)
(* whatever data each rank has.                                            *)
(*                                                                         *)
(* Between two collectives every rank runs alone, over several ends of     *)
(* loops.  What it brings to the next collective is decided by counters    *)
(* that all ranks keep alike, never by its own data: data only shows in    *)
(* the flags, which are exchanged.  The invariant says so by predicting    *)
(* the place at which a rank arrives, from wherever it is now.             *)
(*                                                                         *)
(* Then that the weights see what they should: that the windows are cut    *)
(* well, that checkpoints hold weights and offset of one moment, and that  *)
(* between them the windows hold every row of the tables once.             *)
(***************************************************************************)
EXTENDS TrainLoop, FiniteSetTheorems, WellFoundedInduction, TLAPS

\* The sizes that the windows are cut by.
LEMMA SizesGiven ==
  /\ WorkerNum \in Nat \ {0} /\ ReadThreadsNum \in Nat \ {0} /\ SplitNum \in Nat \ {0}
  /\ RowNum \in Nat \ {0} /\ SubNum \in Nat \ {0}
  /\ Tables \in Seq(Nat) /\ Tables # <<>>
  <1>1. WorkerNum \in Nat \ {0} /\ ReadThreadsNum \in Nat \ {0} /\ SplitNum \in Nat \ {0}
        /\ RowNum \in Nat \ {0} /\ SubNum \in Nat \ {0}
    BY ZenonT(60), WindowAssumption
  <1>2. Tables \in Seq(Nat) /\ Tables # <<>>
    BY ZenonT(60), WindowAssumption
  <1> QED
    BY <1>1, <1>2

\* What a rank brings along: where it is, which dataset it reads, and counters.
Place(p, d, l, w, s, e, b) ==
    [pc |-> p, ds |-> d, lstep |-> l, windows |-> w, saves |-> s, epoch |-> e, reset |-> b]

Over(p) == Place(p, "train", 0, 0, 0, 0, FALSE)

\* The arrival of a rank that opens a window, ends an epoch, starts a window,
\* ends one, asks for a batch, or runs the hooks of a window.  j is the job.
First(j) == IF j.mode = "eval" THEN "eval" ELSE "train"

Opens(j, d, w, s, e, b) ==
    IF b = TRUE /\ ~ReusableAfterReset(j.kind) THEN Over("failed")
    ELSE Place("window_flag", d, 0, w, s, e, b)

EpochEnds(j, s, e) ==
    IF j.mode = "eval" \/ e + 1 >= Epochs \/ j.limit = 0 THEN Over("done")
    ELSE Opens(j, "train", 0, s, e + 1, TRUE)

WindowStarts(j, d, w, s, e, b) ==
    IF j.limit # None /\ d = First(j) /\ w >= j.limit THEN EpochEnds(j, s, e)
    ELSE Opens(j, d, w, s, e, b)

WindowEnds(j, d, l, w, s, e, b) ==
    LET next == IF j.mode = "train_eval" /\ d = "train" THEN "eval" ELSE First(j)
        done == IF d = "eval" THEN w + 1 ELSE w
    IN  IF j.mode = "train"
        THEN IF (s + 1) % SaveWindows = 0 THEN Place("save", next, l, done + 1, s + 1, e, b)
             ELSE WindowStarts(j, next, done + 1, s + 1, e, b)
        ELSE WindowStarts(j, next, done, s, e, b)

StepStarts(j, d, l, w, s, e, b) ==
    IF MaxSteps = None \/ l < MaxSteps THEN Place("step_flag", d, l, w, s, e, b)
    ELSE WindowEnds(j, d, l, w, s, e, b)

HooksRun(j, d, l, w, s, e, b) ==
    LET done == IF j.mode = "train" THEN w + 1 ELSE w
    IN  IF (s + 1) % SaveWindows = 0 THEN Place("save", d, l, done, s + 1, e, b)
        ELSE IF j.mode = "train_eval" THEN StepStarts(j, d, l, done, s + 1, e, b)
        ELSE WindowStarts(j, d, done, s + 1, e, b)

\* Where a rank at p with these counters arrives.
ArrivalFrom(j, p, d, l, w, s, e, b) ==
    IF p = "window" THEN WindowStarts(j, d, w, s, e, b)
    ELSE IF p = "step" THEN StepStarts(j, d, l, w, s, e, b)
    ELSE IF p = "window_end" THEN WindowEnds(j, d, l, w, s, e, b)
    ELSE IF p = "after_window" THEN HooksRun(j, d, l, w, s, e, b)
    ELSE IF p = "epoch_end" THEN EpochEnds(j, s, e)
    ELSE IF p \in {"done", "failed", "down"} THEN Over(p)
    ELSE Place(p, d, l, w, s, e, b)

Job == [kind |-> kind, mode |-> mode, limit |-> limit]

Arrival(r) == ArrivalFrom(Job, pc[r], ds[r], lstep[r], windows[r], saves[r], epoch[r], reset[r])

Places == Collective \cup {"window", "step", "window_end", "after_window", "epoch_end", "done", "failed", "down"}

\* Types of what decides the control.
ControlType ==
    /\ limit \in Nat \cup {None}
    /\ mode \in {"train", "eval", "train_eval"}
    /\ pc \in [Ranks -> Places]
    /\ ds \in [Ranks -> {"train", "eval"}]
    /\ lstep \in [Ranks -> Nat] /\ windows \in [Ranks -> Nat]
    /\ saves \in [Ranks -> Nat] /\ epoch \in [Ranks -> Nat]
    /\ reset \in [Ranks -> BOOLEAN]
    /\ ckpt.epoch \in Nat

\* All ranks are on their way to the same place, with the same counters.
SameArrival == \A r, q \in Ranks : Arrival(r) = Arrival(q)

LoopInv == ControlType /\ SameArrival

----------------------------------------------------------------------------
LEMMA LoopInitEstablishes == LoopInit => LoopInv
  <1> SUFFICES ASSUME LoopInit PROVE LoopInv
    OBVIOUS
  <1> USE LoopAssumption
  <1>1. ControlType
    BY DEF LoopInit, ControlType, ForAll, FirstDataset, Places, None
  <1>2. SameArrival
    BY DEF LoopInit, SameArrival, Arrival, ForAll
  <1> QED
    BY <1>1, <1>2 DEF LoopInv

\* A step of one rank that leaves the others alone and does not change where
\* that rank arrives keeps the invariant.
LEMMA RankAlone ==
  ASSUME LoopInv, NEW r \in Ranks,
         ControlType',
         UNCHANGED <<kind, mode, limit>>,
         \A q \in Ranks \ {r} :
             /\ pc'[q] = pc[q] /\ ds'[q] = ds[q] /\ lstep'[q] = lstep[q] /\ windows'[q] = windows[q]
             /\ saves'[q] = saves[q] /\ epoch'[q] = epoch[q] /\ reset'[q] = reset[q],
         Arrival(r)' = Arrival(r)
  PROVE  LoopInv'
  <1>1. \A q \in Ranks \ {r} : Arrival(q)' = Arrival(q)
    BY DEF Arrival, Job
  <1>2. \A q \in Ranks : Arrival(q)' = Arrival(q)
    BY <1>1
  <1> QED
    BY <1>2 DEF LoopInv, SameArrival

\* Steps that all ranks take together keep them alike.
LEMMA RanksTogether ==
  ASSUME ControlType',
         \A r, q \in Ranks :
             /\ pc'[r] = pc'[q] /\ ds'[r] = ds'[q] /\ lstep'[r] = lstep'[q] /\ windows'[r] = windows'[q]
             /\ saves'[r] = saves'[q] /\ epoch'[r] = epoch'[q] /\ reset'[r] = reset'[q]
  PROVE  LoopInv'
  BY DEF LoopInv, SameArrival, Arrival

\* Ranks that wait in a collective have the same counters.
LEMMA AlikeInCollective ==
  ASSUME LoopInv, NEW p \in Collective, AtAll(p)
  PROVE  \A r, q \in Ranks :
             /\ ds[r] = ds[q] /\ lstep[r] = lstep[q] /\ windows[r] = windows[q]
             /\ saves[r] = saves[q] /\ epoch[r] = epoch[q] /\ reset[r] = reset[q]
  <1>1. \A r \in Ranks : Arrival(r) = Place(p, ds[r], lstep[r], windows[r], saves[r], epoch[r], reset[r])
    BY DEF Arrival, ArrivalFrom, Collective, AtAll
  <1> QED
    BY <1>1 DEF LoopInv, SameArrival, Place

\* What each step of a rank does to the counters, and that it arrives where it
\* was bound for.
LEMMA RankStepPreserves ==
  ASSUME LoopInv, NEW r \in Ranks, RankStep(r)
  PROVE  LoopInv'
  <1> USE LoopAssumption
  <1>1. CASE WindowLimit(r)
    <2>1. ControlType'
      BY <1>1 DEF WindowLimit, LoopInv, ControlType, Places, job, local
    <2>2. Arrival(r)' = Arrival(r)
      BY <1>1 DEF WindowLimit, AtLimit, FirstDataset, LoopInv, ControlType, job, local,
                  Arrival, ArrivalFrom, WindowStarts, First, Job
    <2> QED
      BY <1>1, <2>1, <2>2, RankAlone DEF WindowLimit, LoopInv, ControlType, job, local
  <1>2. CASE NextWindowRaises(r)
    BY <1>2 DEF NextWindowRaises, ForAll, LoopInv, ControlType, SameArrival, Arrival, ArrivalFrom, Places, job, local
  <1>3. CASE NextWindow(r)
    <2>1. ControlType'
      BY <1>3 DEF NextWindow, LoopInv, ControlType, Places, Collective, job
    <2>2. Arrival(r)' = Arrival(r)
      BY <1>3 DEF NextWindow, AtLimit, FirstDataset, LoopInv, ControlType, job,
                  Arrival, ArrivalFrom, WindowStarts, Opens, First, Job
    <2> QED
      BY <1>3, <2>1, <2>2, RankAlone DEF NextWindow, LoopInv, ControlType, job
  <1>4. CASE NextBatch(r)
    <2>1. ControlType'
      BY <1>4 DEF NextBatch, LoopInv, ControlType, Places, Collective, job
    <2>2. Arrival(r)' = Arrival(r)
      BY <1>4 DEF NextBatch, LoopInv, ControlType, job, Arrival, ArrivalFrom, StepStarts, Job
    <2> QED
      BY <1>4, <2>1, <2>2, RankAlone DEF NextBatch, LoopInv, ControlType, job
  <1>5. CASE StepLimit(r)
    <2>1. ControlType'
      BY <1>5 DEF StepLimit, LoopInv, ControlType, Places, job, local
    <2>2. Arrival(r)' = Arrival(r)
      BY <1>5 DEF StepLimit, LoopInv, ControlType, job, local, Arrival, ArrivalFrom, StepStarts, Job, None
    <2> QED
      BY <1>5, <2>1, <2>2, RankAlone DEF StepLimit, LoopInv, ControlType, job, local
  <1>6. CASE WindowEnd(r)
    <2>1. ControlType'
      BY <1>6 DEF WindowEnd, FirstDataset, LoopInv, ControlType, Places, job
    <2>2. Arrival(r)' = Arrival(r)
      BY <1>6 DEF WindowEnd, FirstDataset, LoopInv, ControlType, job,
                  Arrival, ArrivalFrom, WindowEnds, HooksRun, First, Job
    <2> QED
      BY <1>6, <2>1, <2>2, RankAlone DEF WindowEnd, LoopInv, ControlType, job
  <1>7. CASE AfterWindow(r)
    <2>1. ControlType'
      BY <1>7 DEF AfterWindow, AfterHooks, LoopInv, ControlType, Places, Collective, job
    <2>2. Arrival(r)' = Arrival(r)
      BY <1>7 DEF AfterWindow, AfterHooks, LoopInv, ControlType, job,
                  Arrival, ArrivalFrom, HooksRun, Job
    <2> QED
      BY <1>7, <2>1, <2>2, RankAlone DEF AfterWindow, LoopInv, ControlType, job
  <1>8. CASE EpochEnd(r)
    <2>1. ControlType'
      BY <1>8 DEF EpochEnd, LoopInv, ControlType, Places, job
    <2>2. Arrival(r)' = Arrival(r)
      <3>1. /\ Arrival(r) = EpochEnds(Job, saves[r], epoch[r])
            /\ Job' = Job /\ mode # "eval" /\ First(Job) = "train"
            /\ saves'[r] = saves[r] /\ epoch'[r] = epoch[r] + 1 /\ windows'[r] = 0
            /\ reset'[r] = TRUE /\ ds'[r] = "train"
            /\ pc'[r] = IF epoch[r] + 1 < Epochs THEN "window" ELSE "done"
        BY <1>8 DEF EpochEnd, LoopInv, ControlType, job, Arrival, ArrivalFrom, First, Job
      <3>2. CASE epoch[r] + 1 >= Epochs
        BY <3>1, <3>2 DEF LoopInv, ControlType, Arrival, ArrivalFrom, EpochEnds
      <3>3. CASE epoch[r] + 1 < Epochs
        <4>1. Arrival(r)' = WindowStarts(Job, "train", 0, saves[r], epoch[r] + 1, TRUE)
          BY <3>1, <3>3 DEF LoopInv, ControlType, Arrival, ArrivalFrom
        <4>2. CASE limit = 0
          BY <3>1, <3>3, <4>1, <4>2 DEF WindowStarts, EpochEnds, Job, None
        <4>3. CASE limit # 0
          <5>1. EpochEnds(Job, saves[r], epoch[r]) = Opens(Job, "train", 0, saves[r], epoch[r] + 1, TRUE)
            <6>1. epoch[r] \in Nat /\ Epochs \in Nat
              BY DEF LoopInv, ControlType
            <6>2. ~(epoch[r] + 1 >= Epochs)
              BY <3>3, <6>1
            <6>3. Job.mode # "eval" /\ Job.limit # 0
              BY <3>1, <4>3 DEF Job
            <6> QED
              BY <6>2, <6>3 DEF EpochEnds
          <5>2. ~(limit # None /\ 0 >= limit)
            BY <4>3 DEF LoopInv, ControlType, None
          <5> QED
            BY <3>1, <4>1, <5>1, <5>2 DEF WindowStarts, Job
        <4> QED
          BY <4>2, <4>3
      <3> QED
        BY <3>2, <3>3 DEF LoopInv, ControlType
    <2> QED
      BY <1>8, <2>1, <2>2, RankAlone DEF EpochEnd, LoopInv, ControlType, job
  <1>9. CASE EvaluationEnd(r)
    <2>1. ControlType'
      BY <1>9 DEF EvaluationEnd, LoopInv, ControlType, Places, job, local
    <2>2. Arrival(r)' = Arrival(r)
      BY <1>9 DEF EvaluationEnd, LoopInv, ControlType, job, local, Arrival, ArrivalFrom, EpochEnds, Job
    <2> QED
      BY <1>9, <2>1, <2>2, RankAlone DEF EvaluationEnd, LoopInv, ControlType, job, local
  <1> QED
    BY <1>1, <1>2, <1>3, <1>4, <1>5, <1>6, <1>7, <1>8, <1>9 DEF RankStep

LEMMA LoopStepPreserves == LoopInv /\ [LoopNext]_vars => LoopInv'
  <1> SUFFICES ASSUME LoopInv, [LoopNext]_vars PROVE LoopInv'
    OBVIOUS
  <1> USE LoopAssumption
  <1>1. ASSUME NEW r \in Ranks, RankStep(r) PROVE LoopInv'
    BY <1>1, RankStepPreserves
  <1>2. CASE SyncWindow
    <2>1. ControlType'
      BY <1>2 DEF SyncWindow, ForAll, LoopInv, ControlType, Places, job, local
    <2> QED
      BY <1>2, <2>1, AlikeInCollective, RanksTogether DEF SyncWindow, ForAll, Collective, job, local
  <1>3. CASE SyncStep
    <2>1. ControlType'
      BY <1>3 DEF SyncStep, ForAll, LoopInv, ControlType, Places, Collective, job, local
    <2> QED
      BY <1>3, <2>1, AlikeInCollective, RanksTogether DEF SyncStep, ForAll, Collective, job, local
  <1>4. CASE Work
    <2>1. ControlType'
      BY <1>4 DEF Work, ForAll, LoopInv, ControlType, Places, job
    <2> QED
      BY <1>4, <2>1, AlikeInCollective, RanksTogether DEF Work, ForAll, Collective, job
  <1>5. CASE Save
    <2>1. ControlType'
      <3>1. 0 \in Ranks
        BY SizesGiven DEF Ranks
      <3> QED
        BY <1>5, <3>1 DEF Save, AfterHooks, LoopInv, ControlType, Places, job, local
    <2> QED
      BY <1>5, <2>1, AlikeInCollective, RanksTogether DEF Save, AfterHooks, Collective, job, local
  <1>6. CASE Crash
    BY <1>6 DEF Crash, ForAll, LoopInv, ControlType, SameArrival, Arrival, ArrivalFrom, Places, job, local
  <1>7. CASE Resume
    BY <1>7, RanksTogether DEF Resume, ForAll, FirstDataset, LoopInv, ControlType, Places, job
  <1>8. CASE UNCHANGED vars
    BY <1>8 DEF vars, job, local, LoopInv, ControlType, SameArrival, Arrival, Job
  <1> QED
    BY <1>1, <1>2, <1>3, <1>4, <1>5, <1>6, <1>7, <1>8 DEF LoopNext, Together

\* Ranks never wait in different collectives, and none ends while another
\* waits: trainer.py's loops agree by sync_exit_flag on all that depends on
\* the data.
THEOREM RanksMeet == LoopSpec => []CollectivesMatch
  <1>1. LoopInv => CollectivesMatch
    <2> SUFFICES ASSUME LoopInv, NEW r \in Ranks, NEW q \in Ranks,
                        pc[r] \in Collective, pc[q] \in Collective \cup {"done"}
                 PROVE  pc[r] = pc[q]
      BY DEF CollectivesMatch
    <2>1. Arrival(r).pc = pc[r]
      BY DEF Arrival, ArrivalFrom, Place, Collective
    <2>2. Arrival(q).pc = pc[q]
      BY DEF Arrival, ArrivalFrom, Place, Over, Collective
    <2> QED
      BY <2>1, <2>2 DEF LoopInv, SameArrival
  <1> QED
    BY <1>1, LoopInitEstablishes, LoopStepPreserves, PTL DEF LoopSpec

----------------------------------------------------------------------------
LEMMA LeastNatural ==
  ASSUME NEW T, T \subseteq Nat, T # {}
  PROVE  \E m \in T : \A n \in T : m <= n
  <1> DEFINE R == OpToRel(<, Nat)
  <1>1. IsWellFoundedOn(R, Nat)
    BY NatLessThanWellFounded
  <1>2. \A x, y \in Nat : x < y => <<x, y>> \in R
    BY DEF OpToRel
  <1> HIDE DEF R
  <1>3. PICK m \in T : \A n \in T : ~(<<n, m>> \in R)
    BY <1>1, WFMin
  <1>4. \A n \in T : m <= n
    <2> TAKE n \in T
    <2>1. m \in Nat /\ n \in Nat /\ ~(n < m)
      BY <1>2, <1>3
    <2> QED
      BY <2>1
  <1> QED
    BY <1>4

----------------------------------------------------------------------------
(* What the windows d of the ranks hold.                                    *)

\* A row of a table, as the readers hand it out.
Cells == [table : Nat, row : Nat]

\* Every rank has as many windows as rank 0, and no row is in two places.
Even(d) == \A r \in Ranks : Len(d[r]) = Len(d[0])
Apart(d) ==
    \A r, q \in Ranks : \A n \in 1 .. Len(d[r]), m \in 1 .. Len(d[q]) :
        \A i \in 1 .. Len(d[r][n]), j \in 1 .. Len(d[q][m]) :
            d[r][n][i] = d[q][m][j] => r = q /\ n = m /\ i = j
GoodData(d) == d \in [Ranks -> Seq(Seq(Cells))] /\ Even(d) /\ Apart(d)

\* The windows in batches of a fixed size.
Packed(d) == [r \in Ranks |-> [n \in 1 .. Len(d[r]) |-> Batches(d[r][n], FirstSize)]]
Plan == Packed(data)

\* No row is in two batches.
BatchesApart(d) ==
    \A r, q \in Ranks : \A n \in 1 .. Len(d[r]), m \in 1 .. Len(d[q]) :
        \A i \in 1 .. Len(d[r][n]), j \in 1 .. Len(d[q][m]) :
            d[r][n][i] \cap d[q][m][j] # {} => r = q /\ n = m /\ i = j
GoodPlan(d) == d \in [Ranks -> Seq(Seq(SUBSET Cells))] /\ Even(d) /\ BatchesApart(d)

Lengths(d, n) == {Len(d[r][n]) : r \in Ranks} \cup (IF MaxSteps = None THEN {} ELSE {MaxSteps})
Fewest(d, n) == Min(Lengths(d, n))
StepRows(d, n, l) == UNION {UNION {d[r][n][i] : i \in 1 .. l} : r \in Ranks}
RowsTo(d, last) == UNION {StepRows(d, n, Fewest(d, n)) : n \in 1 .. last}

LEMMA PlannedIsRowsTo ==
  ASSUME Even(data), Len(data[0]) \in Nat, NEW n \in 0 .. Len(data[0])
  PROVE  PlannedRows(n) = RowsTo(Plan, n)
  <1>1. ASSUME NEW r \in Ranks, NEW m \in 1 .. n
        PROVE  Plan[r][m] = PlannedBatches(r, m)
    <2>1. m \in 1 .. Len(data[r])
      BY DEF Even
    <2> QED
      BY <2>1 DEF Plan, Packed, PlannedBatches
  <1>2. ASSUME NEW m \in 1 .. n
        PROVE  PlannedOf(m) = StepRows(Plan, m, Fewest(Plan, m))
    <2>1. Lengths(Plan, m) = {Len(PlannedBatches(r, m)) : r \in Ranks} \cup (IF MaxSteps = None THEN {} ELSE {MaxSteps})
      BY <1>1 DEF Lengths
    <2>2. PlannedSteps(m) = Fewest(Plan, m)
      BY <2>1 DEF PlannedSteps, Fewest
    <2> DEFINE s == PlannedSteps(m)
    <2> HIDE DEF s
    <2>3. {UNION {PlannedBatches(r, m)[i] : i \in 1 .. s} : r \in Ranks}
          = {UNION {Plan[r][m][i] : i \in 1 .. s} : r \in Ranks}
      BY <1>1
    <2>4. PlannedOf(m) = StepRows(Plan, m, s)
      BY <2>3, Zenon DEF PlannedOf, StepRows, s
    <2> QED
      BY <2>2, <2>4 DEF s
  <1> DEFINE F(m) == PlannedOf(m)
             G(m) == StepRows(Plan, m, Fewest(Plan, m))
  <1>3. \A m \in 1 .. n : F(m) = G(m)
    BY <1>2
  <1> HIDE DEF F, G
  <1>4. {F(m) : m \in 1 .. n} = {G(m) : m \in 1 .. n}
    BY <1>3
  <1> QED
    BY <1>4, Zenon DEF PlannedRows, RowsTo, F, G

LEMMA ApartAt ==
  ASSUME NEW d, GoodPlan(d), NEW r \in Ranks, NEW q \in Ranks
  PROVE  \A n \in 1 .. Len(d[r]), m \in 1 .. Len(d[q]) :
           \A i \in 1 .. Len(d[r][n]), j \in 1 .. Len(d[q][m]) :
             d[r][n][i] \cap d[q][m][j] # {} => r = q /\ n = m /\ i = j
  <1>1. BatchesApart(d)
    BY DEF GoodPlan
  <1> QED
    BY <1>1, Zenon DEF BatchesApart

LEMMA DataApartAt ==
  ASSUME NEW d, GoodData(d), NEW r \in Ranks, NEW q \in Ranks
  PROVE  \A n \in 1 .. Len(d[r]), m \in 1 .. Len(d[q]) :
           \A i \in 1 .. Len(d[r][n]), j \in 1 .. Len(d[q][m]) :
             d[r][n][i] = d[q][m][j] => r = q /\ n = m /\ i = j
  <1>1. Apart(d)
    BY DEF GoodData
  <1> QED
    BY <1>1, Zenon DEF Apart

LEMMA RankZero == 0 \in Ranks /\ Ranks \subseteq Nat
  BY SizesGiven DEF Ranks

LEMMA LengthsTyped ==
  ASSUME NEW d, GoodPlan(d), NEW n \in 1 .. Len(d[0])
  PROVE  /\ Lengths(d, n) \subseteq Nat /\ Lengths(d, n) # {}
         /\ \A r \in Ranks : d[r] \in Seq(Seq(SUBSET Cells)) /\ d[r][n] \in Seq(SUBSET Cells) /\ Len(d[r][n]) \in Nat
  <1>1. \A r \in Ranks : d[r] \in Seq(Seq(SUBSET Cells)) /\ n \in 1 .. Len(d[r])
    BY DEF GoodPlan, Even
  <1>2. \A r \in Ranks : d[r][n] \in Seq(SUBSET Cells) /\ Len(d[r][n]) \in Nat
    BY <1>1
  <1>3. MaxSteps # None => MaxSteps \in Nat
    BY LoopAssumption
  <1> QED
    BY <1>1, <1>2, <1>3, RankZero DEF Lengths

\* The steps of a window: none of the ranks has fewer batches.
LEMMA FewestBounds ==
  ASSUME NEW d, GoodPlan(d), NEW n \in 1 .. Len(d[0])
  PROVE  /\ Fewest(d, n) \in Nat
         /\ \A r \in Ranks : Fewest(d, n) <= Len(d[r][n])
  <1> DEFINE L == Lengths(d, n)
  <1>1. L \subseteq Nat /\ L # {}
    BY LengthsTyped
  <1>2. \A r \in Ranks : Len(d[r][n]) \in L
    BY DEF Lengths
  <1> HIDE DEF L
  <1>3. \E x \in L : \A y \in L : x <= y
    BY <1>1, LeastNatural
  <1>4. Min(L) \in L /\ \A y \in L : Min(L) <= y
    BY <1>3 DEF Min
  <1> QED
    BY <1>1, <1>2, <1>4 DEF Fewest, L

LEMMA FewestReached ==
  ASSUME NEW d, GoodPlan(d), NEW n \in 1 .. Len(d[0]), NEW l \in Nat,
         \A r \in Ranks : l <= Len(d[r][n]),
         MaxSteps # None => l <= MaxSteps,
         (MaxSteps # None /\ l >= MaxSteps) \/ (\E r \in Ranks : Len(d[r][n]) = l)
  PROVE  Fewest(d, n) = l
  <1> DEFINE L == Lengths(d, n)
  <1>1. L \subseteq Nat
    BY LengthsTyped
  <1>2. MaxSteps # None => MaxSteps \in Nat
    BY LoopAssumption
  <1>3. l \in L
    BY <1>2 DEF Lengths
  <1>4. \A y \in L : l <= y
    BY DEF Lengths
  <1> HIDE DEF L
  <1>5. \A x \in L : (\A y \in L : x <= y) => x = l
    BY <1>1, <1>3, <1>4
  <1>6. Min(L) = l
    BY <1>3, <1>4, <1>5 DEF Min
  <1> QED
    BY <1>6 DEF Fewest, L

LEMMA RowsToNone == \A d : RowsTo(d, 0) = {}
  BY DEF RowsTo

LEMMA RowsToNext ==
  ASSUME NEW d, NEW n \in Nat, n >= 1
  PROVE  RowsTo(d, n) = RowsTo(d, n - 1) \cup StepRows(d, n, Fewest(d, n))
  <1>1. 1 .. n = (1 .. n - 1) \cup {n}
    OBVIOUS
  <1> DEFINE G(m) == StepRows(d, m, Fewest(d, m))
  <1> HIDE DEF G
  <1>2. UNION {G(m) : m \in 1 .. n} = (UNION {G(m) : m \in 1 .. n - 1}) \cup G(n)
    BY <1>1
  <1> QED
    BY <1>2 DEF RowsTo, G

LEMMA StepRowsNone == \A d, n : StepRows(d, n, 0) = {}
  BY DEF StepRows

LEMMA StepRowsNext ==
  ASSUME NEW d, NEW n, NEW l \in Nat
  PROVE  StepRows(d, n, l + 1) = StepRows(d, n, l) \cup (UNION {d[r][n][l + 1] : r \in Ranks})
  <1> DEFINE now(r) == UNION {d[r][n][i] : i \in 1 .. l}
             next(r) == UNION {d[r][n][i] : i \in 1 .. l + 1}
             new(r) == d[r][n][l + 1]
  <1>1. 1 .. l + 1 = (1 .. l) \cup {l + 1}
    OBVIOUS
  <1>2. \A r \in Ranks : next(r) = now(r) \cup new(r)
    BY <1>1
  <1> HIDE DEF now, next, new
  <1>3. UNION {next(r) : r \in Ranks} = (UNION {now(r) : r \in Ranks}) \cup UNION {new(r) : r \in Ranks}
    BY <1>2
  <1> QED
    BY <1>3 DEF StepRows, now, next, new

\* The rows of the next step are new, and one for each rank.
LEMMA NextRowsAreNew ==
  ASSUME NEW d, GoodPlan(d), NEW n \in 1 .. Len(d[0]), NEW l \in Nat,
         \A r \in Ranks : l + 1 <= Len(d[r][n])
  PROVE  /\ \A r, q \in Ranks : d[r][n][l + 1] \cap d[q][n][l + 1] # {} => r = q
         /\ \A r \in Ranks : d[r][n][l + 1] \cap (RowsTo(d, n - 1) \cup StepRows(d, n, l)) = {}
  <1>1. \A r \in Ranks : d[r] \in Seq(Seq(SUBSET Cells)) /\ Len(d[r]) = Len(d[0]) /\ Len(d[r]) \in Nat
    BY DEF GoodPlan, Even
  <1>2. \A r \in Ranks : Len(d[r][n]) \in Nat /\ l + 1 \in 1 .. Len(d[r][n]) /\ n \in 1 .. Len(d[r])
    BY <1>1, LengthsTyped
  <1>3. ASSUME NEW r \in Ranks, NEW q \in Ranks, NEW m \in 1 .. Len(d[q]), NEW j \in 1 .. Len(d[q][m]),
               d[r][n][l + 1] \cap d[q][m][j] # {}
        PROVE  r = q /\ n = m /\ l + 1 = j
    <2>1. n \in 1 .. Len(d[r]) /\ l + 1 \in 1 .. Len(d[r][n])
      BY <1>2
    <2>2. \A i \in 1 .. Len(d[r][n]), y \in 1 .. Len(d[q][m]) :
             d[r][n][i] \cap d[q][m][y] # {} => r = q /\ n = m /\ i = y
      <3>1. \A a \in 1 .. Len(d[r]), b \in 1 .. Len(d[q]) :
           \A i \in 1 .. Len(d[r][a]), y \in 1 .. Len(d[q][b]) :
             d[r][a][i] \cap d[q][b][y] # {} => r = q /\ a = b /\ i = y
        BY ApartAt
      <3> QED
        BY <2>1, <3>1, Zenon
    <2> QED
      BY <1>3, <2>1, <2>2
  <1>4. ASSUME NEW r \in Ranks, NEW x \in d[r][n][l + 1], x \in StepRows(d, n, l)
        PROVE  FALSE
    <2>1. PICK q \in Ranks : x \in UNION {d[q][n][i] : i \in 1 .. l}
      BY <1>4 DEF StepRows
    <2>2. PICK i \in 1 .. l : x \in d[q][n][i]
      BY <2>1
    <2>3. n \in 1 .. Len(d[q]) /\ i \in 1 .. Len(d[q][n]) /\ d[r][n][l + 1] \cap d[q][n][i] # {}
      BY <1>2, <2>2
    <2>4. l + 1 = i
      BY <1>3, <2>3
    <2> QED
      BY <2>4
  <1>5. ASSUME NEW r \in Ranks, NEW x \in d[r][n][l + 1], x \in RowsTo(d, n - 1)
        PROVE  FALSE
    <2>1. PICK m \in 1 .. n - 1 : x \in StepRows(d, m, Fewest(d, m))
      BY <1>5 DEF RowsTo
    <2>2. PICK q \in Ranks : x \in UNION {d[q][m][i] : i \in 1 .. Fewest(d, m)}
      BY <2>1 DEF StepRows
    <2>3. PICK i \in 1 .. Fewest(d, m) : x \in d[q][m][i]
      BY <2>2
    <2>4. m \in 1 .. Len(d[0]) /\ m \in 1 .. Len(d[q]) /\ m # n
      BY <1>1
    <2>5. Fewest(d, m) \in Nat /\ Fewest(d, m) <= Len(d[q][m]) /\ Len(d[q][m]) \in Nat
      BY <2>4, FewestBounds, LengthsTyped
    <2>6. i \in 1 .. Len(d[q][m]) /\ d[r][n][l + 1] \cap d[q][m][i] # {}
      BY <2>3, <2>5
    <2>7. n = m
      BY <1>3, <2>4, <2>6
    <2> QED
      BY <2>4, <2>7
  <1>6. ASSUME NEW r \in Ranks, NEW q \in Ranks, d[r][n][l + 1] \cap d[q][n][l + 1] # {}
        PROVE  r = q
    BY <1>2, <1>3, <1>6
  <1> QED
    BY <1>4, <1>5, <1>6

\* What is left of a sequence after l elements.
LEMMA WhatIsLeft ==
  ASSUME NEW S, NEW s \in Seq(S), NEW l \in Nat, l <= Len(s)
  PROVE  /\ SubSeq(s, l + 1, Len(s)) = <<>> => l = Len(s)
         /\ l = Len(s) => SubSeq(s, l + 1, Len(s)) = <<>>
         /\ l < Len(s) => /\ Head(SubSeq(s, l + 1, Len(s))) = s[l + 1]
                          /\ Tail(SubSeq(s, l + 1, Len(s))) = SubSeq(s, (l + 1) + 1, Len(s))
  <1> DEFINE u == SubSeq(s, l + 1, Len(s))
  <1>0. Len(s) \in Nat
    OBVIOUS
  <1>1. CASE l = Len(s)
    <2>1. u = <<>>
      BY <1>0, <1>1
    <2> QED
      BY <1>0, <1>1, <2>1
  <1>2. CASE l < Len(s)
    <2>1. u \in Seq(S) /\ Len(u) = Len(s) - l /\ \A i \in 1 .. Len(u) : u[i] = s[l + i]
      <3>1. l + 1 \in 1 .. Len(s)
        BY <1>0, <1>2
      <3> QED
        BY <1>0, <1>2, <3>1
    <2>2. u # <<>> /\ Head(u) = s[l + 1]
      <3>1. Len(u) >= 1
        BY <1>0, <1>2, <2>1
      <3> HIDE DEF u
      <3> QED
        BY <2>1, <3>1
    <2>3. Tail(u) = SubSeq(s, (l + 1) + 1, Len(s))
      <3> DEFINE v == SubSeq(s, (l + 1) + 1, Len(s))
                 t == Tail(u)
      <3>1. t \in Seq(S) /\ Len(t) = Len(s) - l - 1 /\ \A i \in 1 .. Len(t) : t[i] = s[(l + 1) + i]
        <4> HIDE DEF u
        <4>1. t \in Seq(S) /\ Len(t) = Len(u) - 1 /\ \A i \in 1 .. Len(t) : t[i] = u[i + 1]
          BY <2>1, <2>2
        <4> QED
          BY <1>0, <2>1, <4>1
      <3>2. v \in Seq(S) /\ Len(v) = Len(s) - l - 1 /\ \A i \in 1 .. Len(v) : v[i] = s[(l + 1) + i]
        <4>1. CASE l + 1 = Len(s)
          <5>1. v = <<>>
            BY <1>0, <4>1
          <5> QED
            BY <1>0, <4>1, <5>1
        <4>2. CASE l + 1 < Len(s)
          BY <1>0, <1>2, <4>2
        <4> QED
          BY <1>0, <1>2, <4>1, <4>2
      <3> HIDE DEF t, v
      <3>3. t = v
        BY <3>1, <3>2
      <3> QED
        BY <3>3 DEF t, v
    <2> QED
      BY <1>2, <2>2, <2>3
  <1> QED
    BY <1>0, <1>1, <1>2

LEMMA NextInOrder ==
  ASSUME NEW k \in {"split", "row"}, NEW w, Len(w) \in Nat, NEW n \in 1 .. Len(w) + 1
  PROVE  FirstWindow(k, w, n) = n
  <1> DEFINE T == {Len(w) + 1} \cup {m \in n .. Len(w) : ~(SkipsEmpty(k) /\ w[m] = <<>>)}
  <1>1. T = {Len(w) + 1} \cup (n .. Len(w))
    BY DEF SkipsEmpty
  <1>2. n \in T /\ \A y \in T : n <= y
    BY <1>1
  <1>3. T \subseteq Nat
    BY <1>1
  <1> HIDE DEF T
  <1>4. \A x \in T : (\A y \in T : x <= y) => x = n
    BY <1>2, <1>3
  <1>5. Min(T) = n
    BY <1>2, <1>4 DEF Min
  <1> QED
    BY <1>5 DEF FirstWindow, T

----------------------------------------------------------------------------
(* What the weights have seen, told from where one rank is.                 *)

\* A window is opened that its counter does not count yet; it is being trained
\* on; the evaluation has not come to it yet.
Busy == {"step", "step_flag", "work"}
IsOpen(p, s, f) ==
    \/ p \in Busy \cup {"window_end", "after_window"}
    \/ p = "window_flag" /\ f = FALSE
    \/ p \in {"window", "save"} /\ s = "eval"
IsTraining(p, s, f) == s = "train" /\ (p \in Busy \/ (p = "window_flag" /\ f = FALSE))
Lags(p, s, f) == (s = "train" /\ IsOpen(p, s, f)) \/ (s = "eval" /\ p = "window")

\* The rows of this epoch, and the weights in its now-th epoch.
SoFar(d, p, s, f, n, l) ==
    IF IsTraining(p, s, f) THEN RowsTo(d, n - 1) \cup StepRows(d, n, l) ELSE RowsTo(d, n)
Mark(S) == [x \in Rows |-> IF x \in S THEN 1 ELSE 0]
DueRows(d, e, now, S) == IF e < now THEN RowsTo(d, Len(d[0])) ELSE IF e = now THEN S ELSE {}
Weights(d, now, S) == [e \in EpochSet |-> Mark(DueRows(d, e, now, S))]

\* A window in training: what is left of it, and how far the ranks have come.
InWindow(d, r, n, l, left) ==
    /\ n >= 1
    /\ left = SubSeq(d[r][n], l + 1, Len(d[r][n]))
    /\ \A q \in Ranks : l <= Len(d[q][n])
    /\ MaxSteps # None => l <= MaxSteps

\* Rank r of job m over the windows d: place, dataset, offsets, batches left,
\* flag, step, epoch, and the weights.
RankFits(d, m, r, p, s, off, left, f, l, e, w) ==
    /\ off \in [{"train", "eval"} -> Nat] /\ off["train"] <= Len(d[0])
    /\ p # "failed"
    /\ m = "train" => s = "train"
    /\ m = "train_eval" /\ p \in {"after_window", "save"} => s = "eval"
    /\ IsTraining(p, s, f) => InWindow(d, r, off["train"], l, left)
    /\ p = "window_flag" /\ f = TRUE => s = "train" /\ off["train"] = Len(d[0])
    /\ p = "step_flag" => (f = TRUE <=> left = <<>>)
    /\ p = "work" => left # <<>>
    /\ p \in {"step_flag", "work"} /\ MaxSteps # None => l < MaxSteps
    /\ p = "epoch_end" => s = "train" /\ off["train"] = Len(d[0])
    /\ m = "train_eval" => off["train"] = IF Lags(p, s, f) THEN off["eval"] + 1 ELSE off["eval"]
    /\ w = Weights(d, e, SoFar(d, p, s, f, off["train"], l))

Fits(r) == RankFits(Plan, mode, r, pc[r], ds[r], offset[r], rest[r], flag[r], lstep[r], epoch[r], seen)

\* The checkpoint: weights, epoch and offsets are of one moment.
CkptFits(d, m, c) ==
    /\ c.offset \in [{"train", "eval"} -> Nat] /\ c.offset["train"] <= Len(d[0])
    /\ m = "train_eval" => c.offset["eval"] = c.offset["train"]
    /\ c.seen = Weights(d, c.epoch, RowsTo(d, c.offset["train"]))

\* The offset counts the windows since the epoch began, or since offset b of a
\* restart.
Aligned(b, p, s, off, f, rt, w) ==
    off["train"] = (IF rt = TRUE THEN 0 ELSE b) + w + (IF IsOpen(p, s, f) THEN 1 ELSE 0)
AlignedAt(b, r) == Aligned(b, pc[r], ds[r], offset[r], flag[r], reset[r], windows[r])

\* The batch size is what the first sharding makes it, once there are paths.
SizesKept == kind # "lake" =>
    /\ size \in [Ranks -> [{"train", "eval"} -> {BatchSize, FirstSize}]]
    /\ cut \in [Ranks -> [{"train", "eval"} -> BOOLEAN]]
    /\ \A r \in Ranks, d \in {"train", "eval"} : cut[r][d] = TRUE => size[r][d] = FirstSize

\* Sharding again leaves the batch size as it is.
SizeStays == CeilDiv(FirstSize, Total) = FirstSize

PlannedJob == kind \in {"split", "row"} /\ mode # "eval" /\ limit = None

PlanInv ==
    /\ GoodData(data) /\ GoodPlan(Plan)
    /\ flag \in [Ranks -> BOOLEAN]
    /\ CkptFits(Plan, mode, ckpt)
    /\ offset \in [Ranks -> [{"train", "eval"} -> Nat]]
    /\ DOMAIN rest = Ranks
    /\ \A r \in Ranks : pc[r] = "down" \/ Fits(r)
    /\ \E b \in Nat : \A r \in Ranks : pc[r] = "down" \/ AlignedAt(b, r)

\* A step of one rank keeps the rest as it is.
LEMMA PlanAlone ==
  ASSUME PlanInv, NEW r \in Ranks,
         UNCHANGED <<data, Plan, mode, seen, ckpt>>,
         flag' \in [Ranks -> BOOLEAN], offset' \in [Ranks -> [{"train", "eval"} -> Nat]], DOMAIN rest' = Ranks,
         \A q \in Ranks \ {r} :
             /\ pc'[q] = pc[q] /\ ds'[q] = ds[q] /\ offset'[q] = offset[q] /\ rest'[q] = rest[q]
             /\ flag'[q] = flag[q] /\ lstep'[q] = lstep[q] /\ epoch'[q] = epoch[q]
             /\ reset'[q] = reset[q] /\ windows'[q] = windows[q],
         Fits(r)',
         \A b \in Nat : AlignedAt(b, r) => AlignedAt(b, r)',
         pc[r] # "down"
  PROVE  PlanInv'
  <1>1. \A q \in Ranks \ {r} : Fits(q) => Fits(q)'
    BY DEF Fits
  <1>2. \A b \in Nat : \A q \in Ranks \ {r} : AlignedAt(b, q) => AlignedAt(b, q)'
    BY DEF AlignedAt
  <1>3. \A q \in Ranks : pc'[q] = "down" \/ Fits(q)'
    BY <1>1 DEF PlanInv
  <1>4. PICK b \in Nat : \A q \in Ranks : pc[q] = "down" \/ AlignedAt(b, q)
    BY DEF PlanInv
  <1>5. \A q \in Ranks : pc'[q] = "down" \/ AlignedAt(b, q)'
    BY <1>2, <1>4
  <1>6. \E c \in Nat : \A q \in Ranks : pc'[q] = "down" \/ AlignedAt(c, q)'
    BY <1>5
  <1> QED
    BY <1>3, <1>6 DEF PlanInv

\* The plan has the windows of the data, and never changes.
LEMMA PlanOfData ==
  /\ \A r \in Ranks : Len(data[r]) \in Nat => Len(Plan[r]) = Len(data[r])
  /\ \A r \in Ranks : \A n \in 1 .. Len(data[r]) : Plan[r][n] = Batches(data[r][n], FirstSize)
  /\ data' = data => Plan' = Plan
  <1>1. ASSUME NEW r \in Ranks PROVE Plan[r] = [n \in 1 .. Len(data[r]) |-> Batches(data[r][n], FirstSize)]
    BY DEF Plan, Packed
  <1>2. ASSUME NEW r \in Ranks, Len(data[r]) \in Nat PROVE Len(Plan[r]) = Len(data[r])
    <2> DEFINE k == Len(data[r])
    <2> HIDE DEF k
    <2>1. Plan[r] = [n \in 1 .. k |-> Batches(data[r][n], FirstSize)]
      BY <1>1 DEF k
    <2>2. k \in Nat
      BY <1>2 DEF k
    <2>3. Len(Plan[r]) = k
      BY <2>1, <2>2
    <2> QED
      BY <2>3 DEF k
  <1>3. data' = data => Plan' = Plan
    BY DEF Plan, Packed
  <1> QED
    BY <1>1, <1>2, <1>3

\* Whichever window a rank opens, it packs it as planned.
LEMMA WindowSize ==
  ASSUME SizesKept, SizeStays, NEW r \in Ranks, ds[r] \in {"train", "eval"}, kind # "lake"
  PROVE  SizeOfWindow(r) = FirstSize
  <1>1. size[r][ds[r]] \in {BatchSize, FirstSize} /\ (cut[r][ds[r]] = TRUE => size[r][ds[r]] = FirstSize)
        /\ cut[r][ds[r]] \in BOOLEAN
    BY DEF SizesKept
  <1> QED
    BY <1>1 DEF SizeOfWindow, SizeStays, FirstSize

LEMMA OwnCell == ASSUME SharedClass = FALSE PROVE \A d : Cell(d) = d
  BY DEF Cell

\* The end of an epoch counts the rows of all windows for it.
LEMMA WeightsAtEnd ==
  ASSUME NEW d, NEW e \in Nat
  PROVE  Weights(d, e, RowsTo(d, Len(d[0]))) = Weights(d, e + 1, RowsTo(d, 0))
  <1>1. \A x \in EpochSet : DueRows(d, x, e, RowsTo(d, Len(d[0]))) = DueRows(d, x, e + 1, RowsTo(d, 0))
    <2> TAKE x \in EpochSet
    <2>1. x \in Int /\ (x < e + 1 <=> x < e \/ x = e) /\ ~(x < e + 1 /\ x = e + 1) /\ ~(x < e /\ x = e)
      BY LoopAssumption DEF EpochSet
    <2>2. RowsTo(d, 0) = {}
      BY RowsToNone
    <2> QED
      BY <2>1, <2>2 DEF DueRows
  <1> QED
    BY <1>1 DEF Weights

\* A window that has reached its number of steps is trained.
LEMMA WindowTrained ==
  ASSUME NEW d, GoodPlan(d), NEW r \in Ranks, NEW n \in 1 .. Len(d[0]), NEW l \in Nat, NEW left,
         InWindow(d, r, n, l, left),
         (MaxSteps # None /\ l >= MaxSteps) \/ (\E q \in Ranks : Len(d[q][n]) = l)
  PROVE  RowsTo(d, n) = RowsTo(d, n - 1) \cup StepRows(d, n, l)
  <1>1. Fewest(d, n) = l
    BY FewestReached DEF InWindow
  <1> QED
    BY <1>1, RowsToNext

LEMMA PlanRankStep ==
  ASSUME LoopInv, PlanInv, SizesKept, SizeStays, PlannedJob, SharedClass = FALSE, NEW r \in Ranks, RankStep(r)
  PROVE  PlanInv'
  <1> USE LoopAssumption
  <1>0. /\ mode \in {"train", "train_eval"} /\ FirstDataset = "train" /\ ReusableAfterReset(kind)
        /\ ~AtLimit(r) /\ kind \in {"split", "row"}
        /\ pc[r] \in Places /\ ds[r] \in {"train", "eval"} /\ lstep[r] \in Nat /\ windows[r] \in Nat
        /\ epoch[r] \in Nat /\ flag[r] \in BOOLEAN /\ DOMAIN pc = Ranks /\ DOMAIN ds = Ranks
        /\ DOMAIN lstep = Ranks /\ DOMAIN windows = Ranks /\ DOMAIN epoch = Ranks /\ DOMAIN reset = Ranks
        /\ offset \in [Ranks -> [{"train", "eval"} -> Nat]] /\ GoodPlan(Plan) /\ flag \in [Ranks -> BOOLEAN]
        /\ DOMAIN rest = Ranks
    BY DEF LoopInv, ControlType, PlannedJob, FirstDataset, ReusableAfterReset, AtLimit, PlanInv
  <1>d. Len(Plan[r]) = Len(Plan[0]) /\ Len(Plan[r]) \in Nat /\ Plan[r] \in Seq(Seq(SUBSET Cells))
    <2>1. Plan \in [Ranks -> Seq(Seq(SUBSET Cells))] /\ Even(Plan)
      BY <1>0, Zenon DEF GoodPlan
    <2>2. Plan[r] \in Seq(Seq(SUBSET Cells)) /\ Len(Plan[r]) = Len(Plan[0])
      BY <2>1, Zenon DEF Even
    <2> HIDE DEF Plan
    <2> QED
      BY <2>2
  <1>u. data' = data => Plan' = Plan
    BY PlanOfData
  <1>e. data \in [Ranks -> Seq(Seq(Cells))] /\ Len(data[r]) \in Nat /\ Len(Plan[r]) = Len(data[r])
    BY PlanOfData DEF PlanInv, GoodData
  <1>p. pc[r] # "down"
    BY DEF RankStep, WindowLimit, NextWindowRaises, NextWindow, NextBatch, StepLimit, WindowEnd, AfterWindow,
           EpochEnd, EvaluationEnd
  <1>f. Fits(r)
    BY <1>p DEF PlanInv
  <1> DEFINE n == offset[r]["train"]
  <1>n. n \in Nat /\ n <= Len(Plan[0]) /\ offset[r]["eval"] \in Nat
    BY <1>0, <1>f DEF Fits, RankFits
  <1>2. ~WindowLimit(r) /\ ~NextWindowRaises(r) /\ ~EvaluationEnd(r)
    BY <1>0 DEF WindowLimit, NextWindowRaises, EvaluationEnd
  <1>3. CASE NextWindow(r)
    <2> DEFINE c == ds[r]
               k == offset[r][c] + 1
               out == k > Len(Plan[r])
    <2>1. /\ pc[r] = "window" /\ pc' = [pc EXCEPT ![r] = "window_flag"]
          /\ UNCHANGED <<job, ds, reset, windows, saves, epoch, seen, ckpt, lives>>
          /\ lstep' = [lstep EXCEPT ![r] = 0]
      BY <1>3 DEF NextWindow
    <2>2. c = "eval" => mode = "train_eval" /\ n = offset[r]["eval"] + 1
      BY <1>0, <1>f, <2>1 DEF Fits, RankFits, Lags
    <2>3. k \in 1 .. Len(Plan[r]) + 1
      <3>1. CASE c = "train"
        BY <1>d, <1>n, <3>1
      <3>2. CASE c = "eval"
        BY <1>d, <1>n, <2>2, <3>2
      <3> QED
        BY <1>0, <3>1, <3>2
    <2>4. FirstWindow(kind, data[r], k) = k
      BY <1>0, <1>d, <1>e, <2>3, NextInOrder
    <2>r. rest' = [rest EXCEPT ![r] = IF out THEN <<>> ELSE Plan[r][k]]
      <3>1. rest' = [rest EXCEPT ![r] = IF k > Len(data[r]) THEN <<>> ELSE Batches(data[r][k], FirstSize)]
        <4>1. SizeOfWindow(r) = FirstSize
          BY <1>0, WindowSize
        <4>2. rest' = [rest EXCEPT ![r] = IF k > Len(data[r]) THEN <<>> ELSE Batches(data[r][k], SizeOfWindow(r))]
          BY <1>3, <2>4, OwnCell DEF NextWindow
        <4> QED
          BY <4>1, <4>2
      <3>2. ~out => k \in 1 .. Len(data[r])
        BY <1>d, <1>e, <2>3
      <3>3. ~out => Plan[r][k] = Batches(data[r][k], FirstSize)
        BY <3>2, PlanOfData
      <3>4. out <=> k > Len(data[r])
        BY <1>e
      <3> HIDE DEF out, k
      <3> QED
        BY <3>1, <3>3, <3>4
    <2>5. /\ flag' = [flag EXCEPT ![r] = out]
          /\ offset' = [offset EXCEPT ![r] = [@ EXCEPT ![c] = IF out THEN Len(Plan[r]) ELSE k]]
          /\ rest' = [rest EXCEPT ![r] = IF out THEN <<>> ELSE Plan[r][k]]
      <3>1. /\ flag' = [flag EXCEPT ![r] = k > Len(data[r])]
            /\ offset' = [offset EXCEPT ![r] = [@ EXCEPT ![c] = IF k > Len(data[r]) THEN Len(data[r]) ELSE k]]
        BY <1>3, <2>4, OwnCell DEF NextWindow
      <3> QED
        BY <1>e, <2>r, <3>1
    <2>6. /\ pc'[r] = "window_flag" /\ lstep'[r] = 0 /\ flag'[r] = out /\ flag'[r] \in BOOLEAN
          /\ offset'[r] = [offset[r] EXCEPT ![c] = IF out THEN Len(Plan[r]) ELSE k]
          /\ rest'[r] = IF out THEN <<>> ELSE Plan[r][k]
          /\ ds'[r] = c /\ windows'[r] = windows[r] /\ reset'[r] = reset[r] /\ epoch'[r] = epoch[r]
          /\ data' = data /\ Plan' = Plan /\ mode' = mode /\ seen' = seen /\ ckpt' = ckpt
      BY <1>u, <1>0, <2>1, <2>5 DEF job
    <2>7. seen = Weights(Plan, epoch[r], RowsTo(Plan, n))
      BY <1>f, <2>1 DEF Fits, RankFits, SoFar, IsTraining, Busy
    <2>8. Fits(r)' /\ (\A b \in Nat : AlignedAt(b, r) => AlignedAt(b, r)')
      <3>1. CASE c = "train" /\ out
        <4>1. n = Len(Plan[0]) /\ offset'[r] = offset[r]
          BY <1>0, <1>d, <1>n, <2>6, <3>1
        <4>2. flag'[r] = TRUE
          BY <2>6, <3>1
        <4>3. ~IsTraining(pc'[r], ds'[r], flag'[r]) /\ ~IsOpen(pc'[r], ds'[r], flag'[r]) /\ ~IsOpen(pc[r], ds[r], flag[r])
              /\ ~Lags(pc'[r], ds'[r], flag'[r]) /\ ~Lags(pc[r], ds[r], flag[r])
          BY <2>1, <2>6, <3>1, <4>2 DEF IsTraining, IsOpen, Busy, Lags
        <4>4. Fits(r)'
          BY <1>0, <1>f, <2>1, <2>6, <2>7, <3>1, <4>1, <4>2, <4>3 DEF Fits, RankFits, SoFar
        <4>5. \A b \in Nat : AlignedAt(b, r) => AlignedAt(b, r)'
          BY <2>6, <4>1, <4>3 DEF AlignedAt, Aligned
        <4> QED
          BY <4>4, <4>5
      <3>2. CASE c = "train" /\ ~out
        <4>1. offset'[r]["train"] = n + 1 /\ offset'[r]["eval"] = offset[r]["eval"] /\ n + 1 <= Len(Plan[0])
              /\ offset'[r] \in [{"train", "eval"} -> Nat]
          BY SMTT(45), <1>0, <1>d, <1>n, <2>6, <3>2
        <4>2. flag'[r] = FALSE
          BY <2>6, <3>2
        <4>3. IsTraining(pc'[r], ds'[r], flag'[r]) /\ IsOpen(pc'[r], ds'[r], flag'[r]) /\ ~IsOpen(pc[r], ds[r], flag[r])
              /\ Lags(pc'[r], ds'[r], flag'[r]) /\ ~Lags(pc[r], ds[r], flag[r])
          BY <2>1, <2>6, <3>2, <4>2 DEF IsTraining, IsOpen, Busy, Lags
        <4>4. InWindow(Plan, r, n + 1, 0, rest'[r])
          <5>1. n + 1 \in 1 .. Len(Plan[0])
            BY <1>n, <4>1
          <5>2. \A q \in Ranks : Len(Plan[q][n + 1]) \in Nat /\ Plan[q][n + 1] \in Seq(SUBSET Cells)
            BY <1>0, <5>1, LengthsTyped
          <5>3. rest'[r] = SubSeq(Plan[r][n + 1], 1, Len(Plan[r][n + 1]))
            BY <2>6, <3>2, <5>2
          <5> QED
            BY <1>n, <5>2, <5>3 DEF InWindow, None
        <4>5. RowsTo(Plan, n) = RowsTo(Plan, (n + 1) - 1) \cup StepRows(Plan, n + 1, 0)
          BY <1>n, StepRowsNone
        <4>6. Fits(r)'
          BY <1>0, <1>f, <1>n, <2>1, <2>6, <2>7, <3>2, <4>1, <4>2, <4>3, <4>4, <4>5 DEF Fits, RankFits, SoFar
        <4>7. \A b \in Nat : AlignedAt(b, r) => AlignedAt(b, r)'
          BY <1>0, <1>n, <2>6, <4>1, <4>3 DEF AlignedAt, Aligned
        <4> QED
          BY <4>6, <4>7
      <3>3. CASE c = "eval"
        <4>1. ~out /\ k = n /\ offset'[r]["train"] = n /\ offset'[r]["eval"] = n /\ offset'[r] \in [{"train", "eval"} -> Nat]
          BY <1>0, <1>d, <1>n, <2>2, <2>6, <3>3
        <4>2. flag'[r] = FALSE
          BY <2>6, <4>1
        <4>3. ~IsTraining(pc'[r], ds'[r], flag'[r]) /\ IsOpen(pc'[r], ds'[r], flag'[r]) /\ IsOpen(pc[r], ds[r], flag[r])
              /\ ~Lags(pc'[r], ds'[r], flag'[r])
          BY <2>1, <2>6, <3>3, <4>2 DEF IsTraining, IsOpen, Busy, Lags
        <4>4. Fits(r)'
          BY <1>0, <1>f, <1>n, <2>1, <2>2, <2>6, <2>7, <3>3, <4>1, <4>2, <4>3 DEF Fits, RankFits, SoFar
        <4>5. \A b \in Nat : AlignedAt(b, r) => AlignedAt(b, r)'
          BY <2>6, <4>1, <4>3 DEF AlignedAt, Aligned
        <4> QED
          BY <4>4, <4>5
      <3> QED
        BY <1>0, <3>1, <3>2, <3>3
    <2>9. /\ flag' \in [Ranks -> BOOLEAN] /\ offset' \in [Ranks -> [{"train", "eval"} -> Nat]] /\ DOMAIN rest' = Ranks
          /\ \A q \in Ranks \ {r} : offset'[q] = offset[q] /\ flag'[q] = flag[q] /\ rest'[q] = rest[q]
      BY SMTT(45), <1>0, <1>d, <1>n, <2>3, <2>5
    <2>10. \A q \in Ranks \ {r} :
             /\ pc'[q] = pc[q] /\ ds'[q] = ds[q] /\ lstep'[q] = lstep[q] /\ epoch'[q] = epoch[q]
             /\ reset'[q] = reset[q] /\ windows'[q] = windows[q]
      BY <2>1
    <2> QED
      BY ZenonT(60), <1>p, <2>6, <2>8, <2>9, <2>10, PlanAlone
  <1>4. CASE NextBatch(r)
    <2>1. /\ pc[r] = "step" /\ pc'[r] = "step_flag" /\ (MaxSteps = None \/ lstep[r] < MaxSteps)
          /\ flag' = [flag EXCEPT ![r] = (rest[r] = <<>>)] /\ flag' \in [Ranks -> BOOLEAN]
          /\ flag'[r] = TRUE <=> rest[r] = <<>>
          /\ UNCHANGED <<data, Plan, mode, ds, offset, reset, rest, lstep, windows, epoch, seen, ckpt>>
      BY <1>u, <1>0, <1>4 DEF NextBatch, job
    <2>2. /\ IsTraining(pc'[r], ds[r], flag'[r]) <=> IsTraining(pc[r], ds[r], flag[r])
          /\ IsOpen(pc'[r], ds[r], flag'[r]) <=> IsOpen(pc[r], ds[r], flag[r])
          /\ Lags(pc'[r], ds[r], flag'[r]) <=> Lags(pc[r], ds[r], flag[r])
      BY <2>1 DEF IsTraining, IsOpen, Lags, Busy
    <2>3. Fits(r)'
      BY <1>f, <2>1, <2>2 DEF Fits, RankFits, SoFar
    <2>4. \A b \in Nat : AlignedAt(b, r) => AlignedAt(b, r)'
      BY <2>1, <2>2 DEF AlignedAt, Aligned
    <2>5. \A q \in Ranks \ {r} : pc'[q] = pc[q] /\ flag'[q] = flag[q]
      BY <1>0, <1>4 DEF NextBatch
    <2> QED
      BY <1>0, <1>p, <2>1, <2>3, <2>4, <2>5, PlanAlone
  <1>5. CASE StepLimit(r)
    <2>1. /\ pc[r] = "step" /\ pc'[r] = "window_end" /\ MaxSteps # None /\ lstep[r] >= MaxSteps
          /\ UNCHANGED <<data, Plan, mode, ds, offset, reset, rest, flag, lstep, windows, epoch, seen, ckpt>>
      BY <1>u, <1>0, <1>5 DEF StepLimit, job, local
    <2>2. /\ ~IsTraining(pc'[r], ds[r], flag'[r])
          /\ IsOpen(pc'[r], ds[r], flag'[r]) /\ IsOpen(pc[r], ds[r], flag[r])
          /\ Lags(pc'[r], ds[r], flag'[r]) <=> Lags(pc[r], ds[r], flag[r])
          /\ IsTraining(pc[r], ds[r], flag[r]) <=> ds[r] = "train"
      BY <2>1 DEF IsTraining, IsOpen, Lags, Busy
    <2>3. seen = Weights(Plan, epoch[r], RowsTo(Plan, n))
      <3>1. CASE ds[r] = "train"
        <4>1. InWindow(Plan, r, n, lstep[r], rest[r])
          BY <1>f, <2>2, <3>1 DEF Fits, RankFits
        <4>2. n \in 1 .. Len(Plan[0])
          BY <1>n, <4>1 DEF InWindow
        <4>3. RowsTo(Plan, n) = RowsTo(Plan, n - 1) \cup StepRows(Plan, n, lstep[r])
          BY <1>0, <2>1, <4>1, <4>2, WindowTrained
        <4> QED
          BY <1>f, <2>2, <3>1, <4>3 DEF Fits, RankFits, SoFar
      <3>2. CASE ds[r] # "train"
        BY <1>f, <2>2, <3>2 DEF Fits, RankFits, SoFar
      <3> QED
        BY <3>1, <3>2
    <2>4. Fits(r)'
      BY <1>f, <2>1, <2>2, <2>3 DEF Fits, RankFits, SoFar
    <2>5. \A b \in Nat : AlignedAt(b, r) => AlignedAt(b, r)'
      BY <2>1, <2>2 DEF AlignedAt, Aligned
    <2>6. \A q \in Ranks \ {r} : pc'[q] = pc[q]
      BY <1>0, <1>5 DEF StepLimit
    <2> QED
      BY <1>0, <1>p, <2>1, <2>4, <2>5, <2>6, PlanAlone
  <1>6. CASE WindowEnd(r)
    <2>1. /\ pc[r] = "window_end" /\ pc'[r] = IF mode = "train" THEN "after_window" ELSE "window"
          /\ ds'[r] = IF mode = "train_eval" /\ ds[r] = "train" THEN "eval" ELSE "train"
          /\ windows'[r] = IF ds[r] = "eval" THEN windows[r] + 1 ELSE windows[r]
          /\ UNCHANGED <<data, Plan, mode, offset, reset, rest, flag, lstep, epoch, seen, ckpt>>
      BY <1>u, <1>0, <1>6 DEF WindowEnd, job
    <2>2. seen = Weights(Plan, epoch[r], RowsTo(Plan, n))
      BY <1>f, <2>1 DEF Fits, RankFits, SoFar, IsTraining, Busy
    <2>3. Fits(r)' /\ \A b \in Nat : AlignedAt(b, r) => AlignedAt(b, r)'
      <3>1. CASE mode = "train"
        <4>1. ds[r] = "train" /\ ds'[r] = "train" /\ pc'[r] = "after_window" /\ windows'[r] = windows[r]
          BY <1>f, <2>1, <3>1 DEF Fits, RankFits
        <4>2. ~IsTraining(pc'[r], ds'[r], flag'[r]) /\ IsOpen(pc'[r], ds'[r], flag'[r]) /\ IsOpen(pc[r], ds[r], flag[r])
          BY <2>1, <4>1 DEF IsTraining, IsOpen, Busy
        <4>3. Fits(r)'
          BY <1>0, <1>f, <2>1, <2>2, <3>1, <4>1, <4>2 DEF Fits, RankFits, SoFar
        <4>4. \A b \in Nat : AlignedAt(b, r) => AlignedAt(b, r)'
          BY <2>1, <4>1, <4>2 DEF AlignedAt, Aligned
        <4> QED
          BY <4>3, <4>4
      <3>2. CASE mode = "train_eval" /\ ds[r] = "train"
        <4>1. ds'[r] = "eval" /\ pc'[r] = "window" /\ windows'[r] = windows[r]
          BY <2>1, <3>2
        <4>2. /\ ~IsTraining(pc'[r], ds'[r], flag'[r]) /\ IsOpen(pc'[r], ds'[r], flag'[r]) /\ IsOpen(pc[r], ds[r], flag[r])
              /\ Lags(pc'[r], ds'[r], flag'[r]) /\ Lags(pc[r], ds[r], flag[r])
          BY <2>1, <3>2, <4>1 DEF IsTraining, IsOpen, Busy, Lags
        <4>3. Fits(r)'
          BY <1>0, <1>f, <2>1, <2>2, <3>2, <4>1, <4>2 DEF Fits, RankFits, SoFar
        <4>4. \A b \in Nat : AlignedAt(b, r) => AlignedAt(b, r)'
          BY <2>1, <4>1, <4>2 DEF AlignedAt, Aligned
        <4> QED
          BY <4>3, <4>4
      <3>3. CASE mode = "train_eval" /\ ds[r] = "eval"
        <4>1. ds'[r] = "train" /\ pc'[r] = "window" /\ windows'[r] = windows[r] + 1
          BY <2>1, <3>3
        <4>2. /\ ~IsTraining(pc'[r], ds'[r], flag'[r]) /\ ~IsOpen(pc'[r], ds'[r], flag'[r]) /\ IsOpen(pc[r], ds[r], flag[r])
              /\ ~Lags(pc'[r], ds'[r], flag'[r]) /\ ~Lags(pc[r], ds[r], flag[r])
          BY <2>1, <3>3, <4>1 DEF IsTraining, IsOpen, Busy, Lags
        <4>3. Fits(r)'
          BY <1>0, <1>f, <2>1, <2>2, <3>3, <4>1, <4>2 DEF Fits, RankFits, SoFar
        <4>4. \A b \in Nat : AlignedAt(b, r) => AlignedAt(b, r)'
          BY <1>0, <1>n, <2>1, <4>1, <4>2 DEF AlignedAt, Aligned
        <4> QED
          BY <4>3, <4>4
      <3> QED
        BY <1>0, <3>1, <3>2, <3>3
    <2>4. \A q \in Ranks \ {r} : pc'[q] = pc[q] /\ ds'[q] = ds[q] /\ windows'[q] = windows[q]
      BY <1>0, <1>6 DEF WindowEnd
    <2> QED
      BY <1>0, <1>p, <2>1, <2>3, <2>4, PlanAlone
  <1>7. CASE AfterWindow(r)
    <2>1. /\ pc[r] = "after_window" /\ pc'[r] \in {"save", AfterHooks(r)}
          /\ windows'[r] = IF mode = "train" THEN windows[r] + 1 ELSE windows[r]
          /\ UNCHANGED <<data, Plan, mode, ds, offset, reset, rest, flag, lstep, epoch, seen, ckpt>>
      BY <1>u, <1>0, <1>7 DEF AfterWindow, job
    <2>2. seen = Weights(Plan, epoch[r], RowsTo(Plan, n))
      BY <1>f, <2>1 DEF Fits, RankFits, SoFar, IsTraining, Busy
    <2>3. Fits(r)' /\ \A b \in Nat : AlignedAt(b, r) => AlignedAt(b, r)'
      <3>1. CASE mode = "train"
        <4>1. ds[r] = "train" /\ ds'[r] = "train" /\ pc'[r] \in {"save", "window"} /\ windows'[r] = windows[r] + 1
          BY <1>f, <2>1, <3>1 DEF Fits, RankFits, AfterHooks
        <4>2. ~IsTraining(pc'[r], ds'[r], flag'[r]) /\ ~IsOpen(pc'[r], ds'[r], flag'[r]) /\ IsOpen(pc[r], ds[r], flag[r])
          BY <2>1, <4>1 DEF IsTraining, IsOpen, Busy
        <4>3. Fits(r)'
          BY <1>0, <1>f, <2>1, <2>2, <3>1, <4>1, <4>2 DEF Fits, RankFits, SoFar
        <4>4. \A b \in Nat : AlignedAt(b, r) => AlignedAt(b, r)'
          BY <1>0, <1>n, <2>1, <4>1, <4>2 DEF AlignedAt, Aligned
        <4> QED
          BY <4>3, <4>4
      <3>2. CASE mode = "train_eval"
        <4>1. ds[r] = "eval" /\ ds'[r] = "eval" /\ pc'[r] \in {"save", "step"} /\ windows'[r] = windows[r]
          BY <1>f, <2>1, <3>2 DEF Fits, RankFits, AfterHooks
        <4>2. /\ ~IsTraining(pc'[r], ds'[r], flag'[r]) /\ IsOpen(pc'[r], ds'[r], flag'[r]) /\ IsOpen(pc[r], ds[r], flag[r])
              /\ ~Lags(pc'[r], ds'[r], flag'[r]) /\ ~Lags(pc[r], ds[r], flag[r])
          BY <2>1, <4>1 DEF IsTraining, IsOpen, Busy, Lags
        <4>3. Fits(r)'
          BY <1>0, <1>f, <2>1, <2>2, <3>2, <4>1, <4>2 DEF Fits, RankFits, SoFar
        <4>4. \A b \in Nat : AlignedAt(b, r) => AlignedAt(b, r)'
          BY <2>1, <4>1, <4>2 DEF AlignedAt, Aligned
        <4> QED
          BY <4>3, <4>4
      <3> QED
        BY <1>0, <3>1, <3>2
    <2>4. \A q \in Ranks \ {r} : pc'[q] = pc[q] /\ windows'[q] = windows[q]
      BY <1>0, <1>7 DEF AfterWindow
    <2> QED
      BY <1>0, <1>p, <2>1, <2>3, <2>4, PlanAlone
  <1>8. CASE EpochEnd(r)
    <2>1. /\ pc[r] = "epoch_end" /\ pc'[r] \in {"window", "done"}
          /\ offset'[r] = [d \in {"train", "eval"} |-> IF d = "train" \/ mode = "train_eval" THEN 0 ELSE offset[r][d]]
          /\ reset'[r] = TRUE /\ epoch'[r] = epoch[r] + 1 /\ windows'[r] = 0 /\ ds'[r] = "train"
          /\ UNCHANGED <<data, Plan, mode, rest, flag, lstep, seen, ckpt>>
          /\ \A q \in Ranks \ {r} :
             /\ pc'[q] = pc[q] /\ ds'[q] = ds[q] /\ offset'[q] = offset[q]
             /\ epoch'[q] = epoch[q] /\ reset'[q] = reset[q] /\ windows'[q] = windows[q]
      BY <1>u, <1>0, <1>8 DEF EpochEnd, job
    <2>2. /\ offset'[r] \in [{"train", "eval"} -> Nat] /\ offset'[r]["train"] = 0
          /\ mode = "train_eval" => offset'[r]["eval"] = 0
      BY <1>0, <2>1
    <2>3. offset' \in [Ranks -> [{"train", "eval"} -> Nat]]
      BY <1>0, <1>8, <2>2 DEF EpochEnd
    <2>4. n = Len(Plan[0]) /\ seen = Weights(Plan, epoch[r], RowsTo(Plan, n))
      BY <1>f, <2>1 DEF Fits, RankFits, SoFar, IsTraining, Busy
    <2>5. seen = Weights(Plan, epoch[r] + 1, RowsTo(Plan, 0))
      BY <1>0, <2>4, WeightsAtEnd
    <2>6. ~IsTraining(pc'[r], ds'[r], flag'[r]) /\ ~IsOpen(pc'[r], ds'[r], flag'[r]) /\ ~Lags(pc'[r], ds'[r], flag'[r])
      BY <2>1 DEF IsTraining, IsOpen, Busy, Lags
    <2>7. Fits(r)'
      BY SMTT(45), <1>0, <1>d, <1>n, <2>1, <2>2, <2>5, <2>6 DEF Fits, RankFits, SoFar
    <2>8. \A b \in Nat : AlignedAt(b, r)'
      BY <2>1, <2>2, <2>6 DEF AlignedAt, Aligned
    <2> QED
      BY <1>0, <1>p, <2>1, <2>3, <2>7, <2>8, PlanAlone
  <1> QED
    BY <1>2, <1>3, <1>4, <1>5, <1>6, <1>7, <1>8 DEF RankStep

\* Ranks that wait together have read as far.
LEMMA SameOffset ==
  ASSUME LoopInv, PlanInv, NEW p \in {"step_flag", "work", "save"}, AtAll(p)
  PROVE  \A r, q \in Ranks : offset[r]["train"] = offset[q]["train"]
  <1>1. PICK b \in Nat : \A r \in Ranks : pc[r] = "down" \/ AlignedAt(b, r)
    BY DEF PlanInv
  <1>2. \A r \in Ranks : pc[r] = p
    BY DEF AtAll
  <1>3. p \in Collective
    BY DEF Collective
  <1>4. \A r, q \in Ranks : ds[r] = ds[q] /\ windows[r] = windows[q] /\ reset[r] = reset[q]
    BY <1>3, AlikeInCollective
  <1>5. \A r \in Ranks : AlignedAt(b, r)
    BY <1>1, <1>2
  <1>6. \A r, q \in Ranks : IsOpen(pc[r], ds[r], flag[r]) <=> IsOpen(pc[q], ds[q], flag[q])
    BY <1>2, <1>4 DEF IsOpen
  <1> QED
    BY <1>4, <1>5, <1>6 DEF AlignedAt, Aligned

\* A step that all ranks take together.
LEMMA PlanTogether ==
  ASSUME PlanInv, data' = data, Plan' = Plan,
         flag' \in [Ranks -> BOOLEAN], offset' \in [Ranks -> [{"train", "eval"} -> Nat]], DOMAIN rest' = Ranks,
         CkptFits(Plan, mode, ckpt)',
         \A r \in Ranks : Fits(r)',
         \E b \in Nat : \A r \in Ranks : AlignedAt(b, r)'
  PROVE  PlanInv'
  BY DEF PlanInv

\* Rows T that are counted in the epoch now, and weights that have seen them.
Gains(G, now, T) == \A e \in EpochSet : \A x \in Rows : G[e][x] = IF e = now /\ x \in T THEN 1 ELSE 0
SumOf(v, w, G) ==
    /\ v \in [EpochSet -> [Rows -> Int]]
    /\ \A e \in EpochSet : \A x \in Rows : v[e][x] = w[e][x] + G[e][x]

\* A step that trains on new rows.
LEMMA AddRows ==
  ASSUME NEW d, NEW now, now \in Nat, NEW S, NEW T, T \cap S = {}, NEW v, NEW w, NEW G,
         w = Weights(d, now, S), Gains(G, now, T), SumOf(v, w, G)
  PROVE  v = Weights(d, now, S \cup T)
  <1>1. ASSUME NEW e \in EpochSet, NEW x \in Rows
        PROVE  v[e][x] = IF x \in DueRows(d, e, now, S \cup T) THEN 1 ELSE 0
    <2>1. w[e][x] = IF x \in DueRows(d, e, now, S) THEN 1 ELSE 0
      BY DEF Weights, Mark
    <2>2. e \in Int
      BY LoopAssumption DEF EpochSet
    <2>3. G[e][x] = (IF e = now /\ x \in T THEN 1 ELSE 0) /\ v[e][x] = w[e][x] + G[e][x]
      BY DEF Gains, SumOf
    <2>4. x \in DueRows(d, e, now, S \cup T) <=> x \in DueRows(d, e, now, S) \/ (e = now /\ x \in T)
      BY <2>2 DEF DueRows
    <2>5. ~(x \in DueRows(d, e, now, S) /\ e = now /\ x \in T)
      BY <2>2 DEF DueRows
    <2>6. w[e][x] \in Int /\ G[e][x] \in Int
      BY <2>1, <2>3
    <2>7. CASE x \in DueRows(d, e, now, S)
      <3>1. w[e][x] = 1 /\ G[e][x] = 0
        BY <2>1, <2>3, <2>5, <2>7
      <3>2. v[e][x] = 1
        BY <2>3, <3>1
      <3> QED
        BY <2>4, <2>7, <3>2
    <2>8. CASE x \notin DueRows(d, e, now, S)
      <3>1. w[e][x] = 0
        BY <2>1, <2>8
      <3>2. v[e][x] = G[e][x]
        BY <2>3, <2>6, <3>1
      <3> QED
        BY <2>3, <2>4, <2>8, <3>2
    <2> QED
      BY <2>7, <2>8
  <1>2. \A e \in EpochSet : v[e] = Mark(DueRows(d, e, now, S \cup T))
    BY <1>1 DEF Mark, SumOf
  <1> QED
    BY <1>2 DEF Weights, SumOf

LEMMA PlanStepTogether ==
  ASSUME LoopInv, PlanInv, PlannedJob, SharedClass = FALSE, Together
  PROVE  PlanInv'
  <1> USE LoopAssumption
  <1>0. /\ mode \in {"train", "train_eval"} /\ FirstDataset = "train"
        /\ pc \in [Ranks -> Places] /\ ds \in [Ranks -> {"train", "eval"}] /\ lstep \in [Ranks -> Nat]
        /\ windows \in [Ranks -> Nat] /\ epoch \in [Ranks -> Nat]
        /\ offset \in [Ranks -> [{"train", "eval"} -> Nat]] /\ GoodPlan(Plan) /\ flag \in [Ranks -> BOOLEAN]
        /\ DOMAIN rest = Ranks /\ CkptFits(Plan, mode, ckpt)
    BY DEF LoopInv, ControlType, PlannedJob, FirstDataset, PlanInv
  <1>b. PICK b \in Nat : \A r \in Ranks : pc[r] = "down" \/ AlignedAt(b, r)
    BY DEF PlanInv
  <1>u. data' = data => Plan' = Plan
    BY PlanOfData
  <1>1. CASE SyncWindow
    <2>1. /\ UNCHANGED <<data, Plan, mode, ds, offset, reset, rest, flag, lstep, windows, epoch, seen, ckpt>>
          /\ \A r \in Ranks : pc[r] = "window_flag"
      BY <1>u, <1>1 DEF SyncWindow, AtAll, job, local
    <2>2. \A r \in Ranks : Fits(r) /\ AlignedAt(b, r)
      BY <1>b, <2>1 DEF PlanInv
    <2>3. \A r, q \in Ranks : ds[r] = ds[q] /\ windows[r] = windows[q] /\ reset[r] = reset[q]
      BY <1>1, AlikeInCollective DEF SyncWindow, Collective
    <2>4. \A r \in Ranks : offset[r]["train"] \in Nat /\ windows[r] \in Nat /\ offset[r]["train"] <= Len(Plan[0])
      BY <1>0, <2>2 DEF Fits, RankFits
    <2>5. ASSUME NEW r \in Ranks, NEW q \in Ranks, flag[r] = TRUE PROVE flag[q] = TRUE
      <3>1. offset[r]["train"] = Len(Plan[0]) /\ ~IsOpen(pc[r], ds[r], flag[r])
        BY <2>1, <2>2, <2>5 DEF Fits, RankFits, IsOpen, Busy
      <3>2. offset[r]["train"] = (IF reset[r] = TRUE THEN 0 ELSE b) + windows[r]
        BY <2>2, <2>4, <3>1 DEF AlignedAt, Aligned
      <3>3. CASE flag[q] = FALSE
        <4>1. IsOpen(pc[q], ds[q], flag[q])
          BY <2>1, <3>3 DEF IsOpen
        <4>2. offset[q]["train"] = (IF reset[q] = TRUE THEN 0 ELSE b) + windows[q] + 1
          BY <2>2, <2>4, <4>1 DEF AlignedAt, Aligned
        <4>3. offset[q]["train"] = offset[r]["train"] + 1
          BY <2>3, <2>4, <3>2, <4>2
        <4> QED
          BY <2>4, <3>1, <4>3
      <3> QED
        BY <1>0, <3>3
    <2>6. CASE ExitFlag
      <3>1. \A r \in Ranks : flag[r] = TRUE /\ pc'[r] = "epoch_end"
        BY <1>1, <2>5, <2>6 DEF SyncWindow, ExitFlag, ForAll
      <3>2. \A r \in Ranks : Fits(r)' /\ AlignedAt(b, r)'
        <4> TAKE r \in Ranks
        <4>1. /\ ~IsTraining(pc[r], ds[r], flag[r]) /\ ~IsTraining(pc'[r], ds[r], flag[r])
              /\ ~IsOpen(pc[r], ds[r], flag[r]) /\ ~IsOpen(pc'[r], ds[r], flag[r])
              /\ ~Lags(pc'[r], ds[r], flag[r]) /\ ~Lags(pc[r], ds[r], flag[r])
          <5>1. ds[r] = "train"
            BY <2>1, <2>2, <3>1 DEF Fits, RankFits
          <5> QED
            BY <2>1, <3>1, <5>1 DEF IsTraining, IsOpen, Lags, Busy
        <4>2. Fits(r)'
          BY <2>1, <2>2, <3>1, <4>1 DEF Fits, RankFits, SoFar
        <4>3. AlignedAt(b, r)'
          BY <2>1, <2>2, <4>1 DEF AlignedAt, Aligned
        <4> QED
          BY <4>2, <4>3
      <3> QED
        BY <1>0, <2>1, <3>2, PlanTogether
    <2>7. CASE ~ExitFlag
      <3>1. \A r \in Ranks : flag[r] = FALSE
            /\ pc'[r] = IF mode = "train_eval" /\ ds[r] = "eval" THEN "after_window" ELSE "step"
        BY <1>0, <1>1, <2>7 DEF SyncWindow, ExitFlag, ForAll
      <3>2. \A r \in Ranks : Fits(r)' /\ AlignedAt(b, r)'
        <4> TAKE r \in Ranks
        <4>1. /\ IsTraining(pc[r], ds[r], flag[r]) <=> IsTraining(pc'[r], ds[r], flag[r])
              /\ IsOpen(pc[r], ds[r], flag[r]) /\ IsOpen(pc'[r], ds[r], flag[r])
              /\ Lags(pc'[r], ds[r], flag[r]) <=> Lags(pc[r], ds[r], flag[r])
          BY <1>0, <2>1, <3>1 DEF IsTraining, IsOpen, Lags, Busy
        <4>2. Fits(r)'
          BY <1>0, <2>1, <2>2, <3>1, <4>1 DEF Fits, RankFits, SoFar
        <4>3. AlignedAt(b, r)'
          BY <2>1, <2>2, <4>1 DEF AlignedAt, Aligned
        <4> QED
          BY <4>2, <4>3
      <3> QED
        BY <1>0, <2>1, <3>2, PlanTogether
    <2> QED
      BY <2>6, <2>7
  <1>2. CASE SyncStep
    <2>1. /\ UNCHANGED <<data, Plan, mode, ds, offset, reset, rest, flag, lstep, windows, epoch, seen, ckpt>>
          /\ \A r \in Ranks : pc[r] = "step_flag"
          /\ \A r \in Ranks : pc'[r] = IF ExitFlag THEN "window_end" ELSE "work"
      BY <1>u, <1>2 DEF SyncStep, AtAll, ForAll, job, local
    <2>2. \A r \in Ranks : Fits(r) /\ AlignedAt(b, r)
      BY <1>b, <2>1 DEF PlanInv
    <2>3. \A r, q \in Ranks : ds[r] = ds[q] /\ lstep[r] = lstep[q] /\ offset[r]["train"] = offset[q]["train"]
      BY <1>2, AlikeInCollective, SameOffset DEF SyncStep, Collective
    <2>4. \A r \in Ranks : /\ IsOpen(pc[r], ds[r], flag[r]) /\ IsOpen(pc'[r], ds[r], flag[r])
                           /\ Lags(pc'[r], ds[r], flag[r]) <=> Lags(pc[r], ds[r], flag[r])
                           /\ IsTraining(pc[r], ds[r], flag[r]) <=> ds[r] = "train"
                           /\ IsTraining(pc'[r], ds[r], flag[r]) <=> ~ExitFlag /\ ds[r] = "train"
      BY <2>1 DEF IsOpen, Lags, IsTraining, Busy
    <2>5. \A r \in Ranks : AlignedAt(b, r)'
      BY <2>1, <2>2, <2>4 DEF AlignedAt, Aligned
    <2>6. CASE ~ExitFlag
      <3>1. \A r \in Ranks : flag[r] = FALSE
        BY <1>0, <2>6 DEF ExitFlag
      <3>2. \A r \in Ranks : Fits(r)'
        BY <2>1, <2>2, <2>4, <2>6, <3>1 DEF Fits, RankFits, SoFar
      <3> QED
        BY <1>0, <2>1, <2>5, <3>2, PlanTogether
    <2>7. CASE ExitFlag
      <3>1. PICK q \in Ranks : flag[q] = TRUE
        BY <1>0, <2>7 DEF ExitFlag
      <3>2. rest[q] = <<>>
        BY <2>1, <2>2, <3>1 DEF Fits, RankFits
      <3>3. ASSUME NEW r \in Ranks PROVE seen = Weights(Plan, epoch[r], RowsTo(Plan, offset[r]["train"]))
        <4> DEFINE n == offset[r]["train"]
                   l == lstep[r]
        <4>1. CASE ds[r] = "train"
          <5>1. InWindow(Plan, r, n, l, rest[r]) /\ n <= Len(Plan[0])
            BY <2>2, <2>4, <4>1 DEF Fits, RankFits
          <5>2. InWindow(Plan, q, n, l, rest[q])
            BY <2>2, <2>3, <2>4, <4>1 DEF Fits, RankFits
          <5>3. n \in 1 .. Len(Plan[0]) /\ l \in Nat
            <6>1. n \in Nat /\ l \in Nat
              BY <1>0
            <6>2. Len(Plan[0]) \in Nat
              BY <1>0, RankZero DEF GoodPlan
            <6> QED
              BY <5>1, <6>1, <6>2 DEF InWindow
          <5>4. Len(Plan[q][n]) \in Nat /\ Plan[q][n] \in Seq(SUBSET Cells)
            BY <1>0, <5>3, LengthsTyped
          <5>5. Len(Plan[q][n]) = l
            <6>1. SubSeq(Plan[q][n], l + 1, Len(Plan[q][n])) = <<>> /\ l <= Len(Plan[q][n])
              BY <3>2, <5>2 DEF InWindow
            <6> HIDE DEF n, l
            <6>2. SubSeq(Plan[q][n], l + 1, Len(Plan[q][n])) = <<>> => l = Len(Plan[q][n])
              BY <5>3, <5>4, <6>1, WhatIsLeft, Zenon
            <6> QED
              BY <6>1, <6>2, Zenon
          <5>6. RowsTo(Plan, n) = RowsTo(Plan, n - 1) \cup StepRows(Plan, n, l)
            <6>1. \E x \in Ranks : Len(Plan[x][n]) = l
              BY <5>5
            <6>2. /\ GoodPlan(Plan) /\ n \in 1 .. Len(Plan[0]) /\ l \in Nat /\ InWindow(Plan, r, n, l, rest[r])
                  /\ (MaxSteps # None /\ l >= MaxSteps) \/ (\E x \in Ranks : Len(Plan[x][n]) = l)
              BY <1>0, <5>1, <5>3, <6>1
            <6> HIDE DEF n, l
            <6> QED
              BY <6>2, WindowTrained
          <5> QED
            BY <2>2, <2>4, <4>1, <5>6 DEF Fits, RankFits, SoFar
        <4>2. CASE ds[r] # "train"
          BY <2>2, <2>4, <4>2 DEF Fits, RankFits, SoFar
        <4> QED
          BY <4>1, <4>2
      <3>4. \A r \in Ranks : Fits(r)'
        BY <2>1, <2>2, <2>4, <2>7, <3>3 DEF Fits, RankFits, SoFar
      <3> QED
        BY <1>0, <2>1, <2>5, <3>4, PlanTogether
    <2> QED
      BY <2>6, <2>7
  <1>3. CASE Work
    <2>1. /\ UNCHANGED <<data, Plan, mode, ds, offset, reset, flag, windows, epoch, ckpt>>
          /\ \A r \in Ranks : /\ pc[r] = "work" /\ pc'[r] = "step"
                              /\ rest'[r] = Tail(rest[r]) /\ lstep'[r] = lstep[r] + 1
          /\ DOMAIN rest' = Ranks
          /\ seen' = [e \in EpochSet |-> [x \in Rows |-> seen[e][x]
                       + Cardinality({r \in Ranks : ds[r] = "train" /\ epoch[r] = e /\ x \in Head(rest[r])})]]
      BY <1>u, <1>3 DEF Work, AtAll, ForAll, job
    <2>2. \A r \in Ranks : Fits(r) /\ AlignedAt(b, r)
      BY <1>b, <2>1 DEF PlanInv
    <2>3. \A r, q \in Ranks : ds[r] = ds[q] /\ lstep[r] = lstep[q] /\ epoch[r] = epoch[q]
                              /\ offset[r]["train"] = offset[q]["train"]
      BY <1>3, AlikeInCollective, SameOffset DEF Work, Collective
    <2>4. \A r \in Ranks : /\ IsOpen(pc[r], ds[r], flag[r]) /\ IsOpen(pc'[r], ds[r], flag[r])
                           /\ Lags(pc'[r], ds[r], flag[r]) <=> Lags(pc[r], ds[r], flag[r])
                           /\ IsTraining(pc[r], ds[r], flag[r]) <=> ds[r] = "train"
                           /\ IsTraining(pc'[r], ds[r], flag[r]) <=> ds[r] = "train"
      BY <2>1 DEF IsOpen, Lags, IsTraining, Busy
    <2>5. \A r \in Ranks : AlignedAt(b, r)'
      BY <2>1, <2>2, <2>4 DEF AlignedAt, Aligned
    <2>z. 0 \in Ranks
      BY RankZero
    <2> DEFINE now == epoch[0]
               n == offset[0]["train"]
               l == lstep[0]
               G == [e \in EpochSet |-> [x \in Rows |->
                      Cardinality({r \in Ranks : ds[r] = "train" /\ epoch[r] = e /\ x \in Head(rest[r])})]]
    <2>g. seen' = [e \in EpochSet |-> [x \in Rows |-> seen[e][x] + G[e][x]]]
      BY <2>1
    <2>h. /\ \A e \in EpochSet : \A x \in Rows : G[e][x] \in Int /\ seen[e][x] \in Int
          /\ seen' \in [EpochSet -> [Rows -> Int]]
          /\ \A e \in EpochSet : \A x \in Rows : seen'[e][x] = seen[e][x] + G[e][x]
      <3>1. \A e \in EpochSet : \A x \in Rows : seen[e][x] \in Int
        BY <2>2, <2>z DEF Fits, RankFits, Weights, Mark
      <3>2. IsFiniteSet(Ranks)
        <4>1. 0 \in Int /\ WorkerNum - 1 \in Int
          BY SizesGiven
        <4> QED
          BY <4>1, FS_Interval, Zenon DEF Ranks
      <3>3. \A e \in EpochSet : \A x \in Rows : G[e][x] \in Int
        <4> TAKE e \in EpochSet
        <4> TAKE x \in Rows
        <4>1. IsFiniteSet({r \in Ranks : ds[r] = "train" /\ epoch[r] = e /\ x \in Head(rest[r])})
          BY <3>2, FS_Subset
        <4>2. Cardinality({r \in Ranks : ds[r] = "train" /\ epoch[r] = e /\ x \in Head(rest[r])}) \in Nat
          BY <4>1, FS_CardinalityType
        <4> QED
          BY <4>2
      <3> HIDE DEF G
      <3> QED
        BY <2>g, <3>1, <3>3
    <2>6. CASE ds[0] # "train"
      <3>1. \A r \in Ranks : ds[r] # "train"
        BY <2>3, <2>6, <2>z
      <3>2. seen' = seen
        <4>1. \A e, x : {r \in Ranks : ds[r] = "train" /\ epoch[r] = e /\ x \in Head(rest[r])} = {}
          BY <3>1
        <4>2. \A e \in EpochSet : \A x \in Rows : G[e][x] = IF e = now /\ x \in {} THEN 1 ELSE 0
          BY <4>1, FS_EmptySet
        <4>3. seen = Weights(Plan, now, RowsTo(Plan, n))
          BY <2>2, <2>4, <2>6, <2>z DEF Fits, RankFits, SoFar
        <4>4. now \in Nat
          BY <1>0, <2>z
        <4> HIDE DEF G, now, n
        <4>5. seen' = Weights(Plan, now, RowsTo(Plan, n) \cup {})
          <5> DEFINE E == {}
          <5>2. Gains(G, now, E)
            BY <4>2 DEF Gains
          <5>3. E \cap RowsTo(Plan, n) = {}
            OBVIOUS
          <5> HIDE DEF E
          <5>4. seen' = Weights(Plan, now, RowsTo(Plan, n) \cup E)
            <6>1. PICK v : v = seen'
              OBVIOUS
            <6>2. SumOf(v, seen, G)
              BY <2>h, <6>1 DEF SumOf
            <6>3. v = Weights(Plan, now, RowsTo(Plan, n) \cup E)
              BY <4>3, <4>4, <5>2, <5>3, <6>2, AddRows, Zenon
            <6> QED
              BY <6>1, <6>3
          <5> QED
            BY <5>4 DEF E
        <4>6. RowsTo(Plan, n) \cup {} = RowsTo(Plan, n)
          OBVIOUS
        <4> QED
          BY <4>3, <4>5, <4>6
      <3>3. \A r \in Ranks : Fits(r)'
        BY ZenonT(60), <2>1, <2>2, <2>4, <3>1, <3>2 DEF Fits, RankFits, SoFar
      <3> QED
        BY <1>0, <2>1, <2>5, <3>3, PlanTogether
    <2>7. CASE ds[0] = "train"
      <3> DEFINE T == UNION {Plan[r][n][l + 1] : r \in Ranks}
                 S == RowsTo(Plan, n - 1) \cup StepRows(Plan, n, l)
      <3>1. \A r \in Ranks : /\ ds[r] = "train" /\ epoch[r] = now /\ lstep[r] = l /\ offset[r]["train"] = n
                             /\ InWindow(Plan, r, n, l, rest[r]) /\ rest[r] # <<>>
                             /\ (MaxSteps # None => l < MaxSteps)
        <4> TAKE r \in Ranks
        <4>1. ds[r] = "train" /\ epoch[r] = now /\ lstep[r] = l /\ offset[r]["train"] = n
          BY <2>3, <2>7, <2>z
        <4> QED
          BY <2>1, <2>2, <2>4, <4>1 DEF Fits, RankFits
      <3>2. n \in 1 .. Len(Plan[0]) /\ l \in Nat /\ now \in Nat /\ Len(Plan[0]) \in Nat
        <4>1. n \in Nat /\ l \in Nat /\ now \in Nat
          BY <1>0, <2>z
        <4>2. n <= Len(Plan[0]) /\ n >= 1
          BY <2>2, <2>z, <3>1 DEF Fits, RankFits, InWindow
        <4>3. Len(Plan[0]) \in Nat
          BY <1>0, <2>z DEF GoodPlan
        <4> QED
          BY <4>1, <4>2, <4>3
      <3>3. \A r \in Ranks : Plan[r][n] \in Seq(SUBSET Cells) /\ Len(Plan[r][n]) \in Nat
        BY <1>0, <3>2, LengthsTyped
      <3>4. seen = Weights(Plan, now, S)
        BY <2>2, <2>4, <2>7, <2>z DEF Fits, RankFits, SoFar
      <3> HIDE DEF n, l, now
      <3>5. ASSUME NEW r \in Ranks
            PROVE  /\ l + 1 <= Len(Plan[r][n]) /\ Head(rest[r]) = Plan[r][n][l + 1]
                   /\ Tail(rest[r]) = SubSeq(Plan[r][n], (l + 1) + 1, Len(Plan[r][n]))
        <4>1. l <= Len(Plan[r][n]) /\ rest[r] = SubSeq(Plan[r][n], l + 1, Len(Plan[r][n]))
          BY <3>1 DEF InWindow
        <4>2. Plan[r][n] \in Seq(SUBSET Cells) /\ Len(Plan[r][n]) \in Nat /\ l \in Nat
          BY <3>2, <3>3
        <4> DEFINE u == Plan[r][n]
                   v == SubSeq(u, l + 1, Len(u))
        <4>3. (l = Len(u) => v = <<>>)
              /\ (l < Len(u) => Head(v) = u[l + 1] /\ Tail(v) = SubSeq(u, (l + 1) + 1, Len(u)))
          BY <4>1, <4>2, WhatIsLeft, Zenon
        <4>4. rest[r] = v /\ rest[r] # <<>> /\ u \in Seq(SUBSET Cells) /\ Len(u) \in Nat /\ l <= Len(u)
          BY <3>1, <4>1, <4>2, Zenon
        <4> HIDE DEF v
        <4>5. l < Len(u)
          BY <4>2, <4>3, <4>4
        <4>6. Head(rest[r]) = u[l + 1] /\ Tail(rest[r]) = SubSeq(u, (l + 1) + 1, Len(u))
          BY <4>3, <4>4, <4>5
        <4>7. l + 1 <= Len(u)
          BY <4>2, <4>5
        <4> QED
          BY <4>6, <4>7, Zenon
      <3>6. /\ \A r, q \in Ranks : Plan[r][n][l + 1] \cap Plan[q][n][l + 1] # {} => r = q
            /\ \A r \in Ranks : Plan[r][n][l + 1] \cap S = {}
        BY <1>0, <3>2, <3>5, NextRowsAreNew
      <3>7. \A e \in EpochSet : \A x \in Rows : G[e][x] = IF e = now /\ x \in T THEN 1 ELSE 0
        <4> TAKE e \in EpochSet
        <4> TAKE x \in Rows
        <4> DEFINE P == {r \in Ranks : ds[r] = "train" /\ epoch[r] = e /\ x \in Head(rest[r])}
        <4>1. G[e][x] = Cardinality(P)
          <5> DEFINE C(f, y) == Cardinality({r \in Ranks : ds[r] = "train" /\ epoch[r] = f /\ y \in Head(rest[r])})
          <5>1. G = [f \in EpochSet |-> [y \in Rows |-> C(f, y)]] /\ C(e, x) = Cardinality(P)
            OBVIOUS
          <5> HIDE DEF G, C, P
          <5> QED
            BY <5>1
        <4>2. CASE e = now /\ x \in T
          <5>1. PICK r \in Ranks : x \in Plan[r][n][l + 1]
            BY <4>2
          <5>2. P = {r}
            <6>1. \A q \in Ranks : x \in Plan[q][n][l + 1] => q = r
              BY <3>6, <5>1
            <6>2. \A q \in Ranks : ds[q] = "train" /\ epoch[q] = e /\ Head(rest[q]) = Plan[q][n][l + 1]
              BY <3>1, <3>5, <4>2
            <6> QED
              BY <5>1, <6>1, <6>2
          <5>3. Cardinality(P) = 1
            BY <5>2, FS_Singleton
          <5> QED
            BY <4>1, <4>2, <5>3
        <4>3. CASE ~(e = now /\ x \in T)
          <5>1. P = {}
            BY <3>1, <3>5, <4>3
          <5>2. Cardinality(P) = 0
            BY <5>1, FS_EmptySet
          <5> QED
            BY <4>1, <4>3, <5>2
        <4> HIDE DEF G, T, P
        <4> QED
          BY <4>2, <4>3
      <3>8. \A x \in T : x \notin S
        BY <3>6
      <3>9. S \cup T = RowsTo(Plan, n - 1) \cup StepRows(Plan, n, l + 1)
        BY <3>2, StepRowsNext
      <3> HIDE DEF G, S, T
      <3>10. seen' = Weights(Plan, now, RowsTo(Plan, n - 1) \cup StepRows(Plan, n, l + 1))
        <4>1. seen' = Weights(Plan, now, S \cup T)
          <5>1. PICK v : v = seen'
            OBVIOUS
          <5>2. SumOf(v, seen, G) /\ Gains(G, now, T) /\ T \cap S = {} /\ now \in Nat
            BY <2>h, <3>2, <3>7, <3>8, <5>1 DEF SumOf, Gains
          <5>3. v = Weights(Plan, now, S \cup T)
            BY <3>4, <5>2, AddRows, Zenon
          <5> QED
            BY <5>1, <5>3
        <4> QED
          BY <3>9, <4>1
      <3>11. \A r \in Ranks : InWindow(Plan, r, n, l + 1, rest'[r])
        <4> TAKE r \in Ranks
        <4>1. \A q \in Ranks : l + 1 <= Len(Plan[q][n])
          BY <3>5
        <4>2. MaxSteps # None => l + 1 <= MaxSteps
          BY <2>z, <3>1, <3>2
        <4>3. rest'[r] = SubSeq(Plan[r][n], (l + 1) + 1, Len(Plan[r][n]))
          BY <2>1, <3>5
        <4>4. n >= 1
          BY <3>2
        <4> QED
          BY <4>1, <4>2, <4>3, <4>4 DEF InWindow
      <3>12. \A r \in Ranks : Fits(r)'
        <4> TAKE r \in Ranks
        <4>1. lstep'[r] = l + 1 /\ offset'[r]["train"] = n /\ epoch'[r] = now /\ ds'[r] = "train" /\ pc'[r] = "step"
          BY <2>1, <3>1
        <4> QED
          BY ZenonT(60), <2>1, <2>2, <2>4, <3>1, <3>10, <3>11, <4>1 DEF Fits, RankFits, SoFar
      <3> QED
        BY <1>0, <2>1, <2>5, <3>12, PlanTogether
    <2> QED
      BY <2>6, <2>7
  <1>4. CASE Save
    <2>1. /\ UNCHANGED <<data, Plan, mode, ds, offset, reset, rest, flag, lstep, windows, epoch, seen>>
          /\ \A r \in Ranks : pc[r] = "save" /\ pc'[r] = AfterHooks(r)
          /\ ckpt' = [seen |-> seen, epoch |-> epoch[0],
                      offset |-> [d \in {"train", "eval"} |-> offset[0][d]]]
      BY <1>u, <1>4, OwnCell DEF Save, AtAll, job, local
    <2>2. \A r \in Ranks : Fits(r) /\ AlignedAt(b, r)
      BY <1>b, <2>1 DEF PlanInv
    <2>3. \A r \in Ranks : /\ IsOpen(pc[r], ds[r], flag[r]) <=> IsOpen(pc'[r], ds[r], flag[r])
                           /\ ~Lags(pc'[r], ds[r], flag[r]) /\ ~Lags(pc[r], ds[r], flag[r])
                           /\ ~IsTraining(pc[r], ds[r], flag[r]) /\ ~IsTraining(pc'[r], ds[r], flag[r])
                           /\ pc'[r] \in {"step", "window"}
      <3> TAKE r \in Ranks
      <3>1. (mode = "train" /\ ds[r] = "train") \/ (mode = "train_eval" /\ ds[r] = "eval")
        BY <1>0, <2>1, <2>2 DEF Fits, RankFits
      <3> QED
        BY <2>1, <3>1 DEF IsOpen, Lags, IsTraining, Busy, AfterHooks
    <2>4. \A r \in Ranks : AlignedAt(b, r)'
      BY <2>1, <2>2, <2>3 DEF AlignedAt, Aligned
    <2>5. \A r \in Ranks : Fits(r)'
      BY <2>1, <2>2, <2>3 DEF Fits, RankFits, SoFar
    <2>6. CkptFits(Plan, mode, ckpt)'
      <3>1. 0 \in Ranks
        BY RankZero
      <3>2. offset[0] \in [{"train", "eval"} -> Nat] /\ ckpt'.offset = offset[0] /\ ckpt'.epoch = epoch[0] /\ ckpt'.seen = seen
        BY <1>0, <2>1, <3>1
      <3> QED
        BY <2>1, <2>2, <2>3, <3>1, <3>2 DEF Fits, RankFits, SoFar, CkptFits
    <2> QED
      BY <1>0, <2>1, <2>4, <2>5, <2>6, PlanTogether
  <1> QED
    BY <1>1, <1>2, <1>3, <1>4 DEF Together

----------------------------------------------------------------------------
(* What FlattenSeq puts where.                                              *)

\* The sequences that FlattenSeq forms one after the other.
Unrolled(seqs, f) == [i \in 1 .. Len(seqs) |-> IF i = 1 THEN seqs[i] ELSE f[i - 1] \o seqs[i]]

LEMMA FlattenUnrolled ==
  ASSUME NEW S, NEW seqs \in Seq(Seq(S)), Len(seqs) > 0
  PROVE  \E f \in [1 .. Len(seqs) -> Seq(S)] : f = Unrolled(seqs, f) /\ FlattenSeq(seqs) = f[Len(seqs)]
  <1> DEFINE n == Len(seqs)
             Sol(m, f) == f \in [1 .. m -> Seq(S)]
                          /\ \A i \in 1 .. m : f[i] = IF i = 1 THEN seqs[i] ELSE f[i - 1] \o seqs[i]
             bad == {m \in 1 .. n : ~\E f : Sol(m, f)}
  <1>0. n \in Nat /\ n >= 1 /\ \A i \in 1 .. n : seqs[i] \in Seq(S)
    OBVIOUS
  <1>1. bad = {}
    <2> SUFFICES ASSUME bad # {} PROVE FALSE
      OBVIOUS
    <2>1. bad \subseteq Nat
      BY <1>0
    <2>2. PICK m \in bad : \A k \in bad : m <= k
      <3> HIDE DEF bad
      <3> QED
        BY <2>1, LeastNatural
    <2>3. m \in 1 .. n /\ ~\E f : Sol(m, f)
      BY <2>2
    <2>4. CASE m = 1
      <3> DEFINE g == [i \in 1 .. 1 |-> seqs[1]]
      <3>1. Sol(1, g)
        BY <1>0
      <3> QED
        BY <2>3, <2>4, <3>1
    <2>5. CASE m # 1
      <3>1. m - 1 \in 1 .. n /\ m - 1 \notin bad
        <4>1. m - 1 \in 1 .. n /\ m \in Nat
          BY <1>0, <2>3, <2>5
        <4> HIDE DEF bad
        <4>2. m - 1 \notin bad
          BY <2>2, <4>1
        <4> QED
          BY <4>1, <4>2
      <3>2. PICK f : Sol(m - 1, f)
        BY <3>1
      <3> DEFINE g == [i \in 1 .. m |-> IF i = m THEN f[m - 1] \o seqs[m] ELSE f[i]]
      <3>3. f[m - 1] \in Seq(S) /\ seqs[m] \in Seq(S)
        BY <1>0, <2>3, <3>1, <3>2
      <3>4. f[m - 1] \o seqs[m] \in Seq(S)
        BY <3>3
      <3>5. \A i \in 1 .. m : i # m => i \in 1 .. m - 1 /\ f[i] \in Seq(S)
        BY <2>3, <3>2
      <3>6. g \in [1 .. m -> Seq(S)]
        BY <3>4, <3>5
      <3>7. \A i \in 1 .. m - 1 : g[i] = f[i]
        BY <2>3
      <3>8. \A i \in 1 .. m : g[i] = IF i = 1 THEN seqs[i] ELSE g[i - 1] \o seqs[i]
        <4> TAKE i \in 1 .. m
        <4>1. CASE i = m
          <5>1. m \in 1 .. m /\ m - 1 \in 1 .. m - 1
            BY <2>3, <2>5
          <5>2. g[m] = f[m - 1] \o seqs[m]
            BY <5>1
          <5> QED
            BY <2>5, <3>7, <4>1, <5>1, <5>2
        <4>2. CASE i # m
          <5>1. i \in 1 .. m - 1 /\ (i # 1 => i - 1 \in 1 .. m - 1)
            BY <2>3, <4>2
          <5>2. g[i] = f[i] /\ (i # 1 => g[i - 1] = f[i - 1])
            BY <3>7, <5>1
          <5>3. f[i] = IF i = 1 THEN seqs[i] ELSE f[i - 1] \o seqs[i]
            BY <3>2, <5>1
          <5> QED
            BY <5>2, <5>3
        <4> QED
          BY <4>1, <4>2
      <3>9. Sol(m, g)
        BY <3>6, <3>8
      <3> QED
        BY <2>3, <3>9
    <2> QED
      BY <2>4, <2>5
  <1>2. PICK f : Sol(n, f)
    <2> HIDE DEF Sol
    <2>1. n \in 1 .. n
      BY <1>0
    <2> QED
      BY <1>1, <2>1
  <1>3. f = Unrolled(seqs, f)
    BY <1>2 DEF Unrolled
  <1> DEFINE h == CHOOSE x : x = Unrolled(seqs, x)
  <1>4. h = Unrolled(seqs, h)
    BY <1>3
  <1>5. FlattenSeq(seqs) = h[n]
    BY <1>0 DEF FlattenSeq, Unrolled
  <1> HIDE DEF h
  <1>6. \A i \in 1 .. n : h[i] \in Seq(S)
    <2> DEFINE wrong == {i \in 1 .. n : h[i] \notin Seq(S)}
    <2> SUFFICES ASSUME wrong # {} PROVE FALSE
      OBVIOUS
    <2>1. wrong \subseteq Nat
      BY <1>0
    <2>2. PICK m \in wrong : \A k \in wrong : m <= k
      <3> HIDE DEF wrong
      <3> QED
        BY <2>1, LeastNatural
    <2>3. h[m] = IF m = 1 THEN seqs[m] ELSE h[m - 1] \o seqs[m]
      BY <1>4, <2>2 DEF Unrolled
    <2>4. m # 1 => m - 1 \in 1 .. n /\ m - 1 \notin wrong
      BY <1>0, <2>2
    <2>5. m # 1 => h[m - 1] \in Seq(S)
      BY <2>4
    <2>6. seqs[m] \in Seq(S)
      BY <1>0, <2>2
    <2>7. h[m] \in Seq(S)
      BY <2>3, <2>5, <2>6
    <2> QED
      BY <2>2, <2>7
  <1>7. h \in [1 .. n -> Seq(S)]
    <2>1. h = [i \in 1 .. n |-> h[i]]
      BY <1>4 DEF Unrolled
    <2> QED
      BY <1>6, <2>1
  <1> QED
    BY <1>4, <1>5, <1>7

\* pre[k]: the length of the first k sequences.
Offsets(seqs, pre) ==
    /\ pre \in [0 .. Len(seqs) -> Nat] /\ pre[0] = 0
    /\ \A k \in 1 .. Len(seqs) : pre[k] = pre[k - 1] + Len(seqs[k])

\* flat holds the j-th element of the k-th sequence at pre[k - 1] + j, and nothing else.
Laid(seqs, pre, flat) ==
    /\ Len(flat) = pre[Len(seqs)]
    /\ \A k \in 1 .. Len(seqs) : \A j \in 1 .. Len(seqs[k]) :
         pre[k - 1] + j \in 1 .. Len(flat) /\ flat[pre[k - 1] + j] = seqs[k][j]
    /\ \A i \in 1 .. Len(flat) : \E k \in 1 .. Len(seqs) : \E j \in 1 .. Len(seqs[k]) : i = pre[k - 1] + j

\* Every position is in one of the sequences.
Located(seqs, pre, i) == \E k \in 1 .. Len(seqs) : \E j \in 1 .. Len(seqs[k]) : i = pre[k - 1] + j

LEMMA OffsetsLocate ==
  ASSUME NEW S, NEW seqs \in Seq(Seq(S)), NEW pre, Offsets(seqs, pre), NEW i \in 1 .. pre[Len(seqs)]
  PROVE  Located(seqs, pre, i)
  <1> DEFINE n == Len(seqs)
             T == {k \in 0 .. n : pre[k] >= i}
  <1>0. n \in Nat /\ (\A k \in 0 .. n : pre[k] \in Nat) /\ \A k \in 1 .. n : Len(seqs[k]) \in Nat
    <2>1. \A k \in 1 .. n : seqs[k] \in Seq(S)
      OBVIOUS
    <2>2. \A k \in 1 .. n : Len(seqs[k]) \in Nat
      BY <2>1
    <2> QED
      BY SMTT(45), <2>2 DEF Offsets
  <1>1. T \subseteq Nat /\ n \in T
    BY <1>0
  <1>2. PICK k \in T : \A m \in T : k <= m
    <2> HIDE DEF T
    <2> QED
      BY <1>1, LeastNatural
  <1>3. k \in 0 .. n /\ pre[k] >= i
    BY <1>2
  <1>4. k # 0
    BY <1>0, <1>3 DEF Offsets
  <1>5. k \in 1 .. n /\ k - 1 \in 0 .. n
    BY <1>0, <1>3, <1>4
  <1>6. ~(pre[k - 1] >= i)
    <2>1. k - 1 \notin T
      <3>1. k \in Nat
        BY <1>5
      <3> HIDE DEF T
      <3> QED
        BY <1>2, <3>1
    <2> QED
      BY <1>5, <2>1
  <1>7. pre[k] = pre[k - 1] + Len(seqs[k])
    BY <1>5 DEF Offsets
  <1>8. i - pre[k - 1] \in 1 .. Len(seqs[k]) /\ i = pre[k - 1] + (i - pre[k - 1])
    <2>1. pre[k - 1] \in Nat /\ pre[k] \in Nat /\ Len(seqs[k]) \in Nat /\ i \in Nat
      BY <1>0, <1>5
    <2> QED
      BY <1>3, <1>6, <1>7, <2>1
  <1> QED
    BY <1>5, <1>8 DEF Located

\* w is u and then v.
Joined(u, v, w) ==
    /\ Len(w) = Len(u) + Len(v) /\ Len(u) \in Nat /\ Len(v) \in Nat
    /\ \A i \in 1 .. Len(u) : w[i] = u[i]
    /\ \A i \in 1 .. Len(v) : w[Len(u) + i] = v[i]

LEMMA ConcatFacts ==
  ASSUME NEW S, NEW u \in Seq(S), NEW v \in Seq(S)
  PROVE  Joined(u, v, u \o v)
  <1> DEFINE w == u \o v
  <1>1. Len(u) \in Nat /\ Len(v) \in Nat /\ Len(w) = Len(u) + Len(v) /\ w \in Seq(S)
    OBVIOUS
  <1>2. \A i \in 1 .. Len(u) + Len(v) : w[i] = IF i <= Len(u) THEN u[i] ELSE v[i - Len(u)]
    OBVIOUS
  <1>3. ASSUME NEW i \in 1 .. Len(v) PROVE w[Len(u) + i] = v[i]
    <2>1. Len(u) + i \in 1 .. Len(u) + Len(v) /\ ~(Len(u) + i <= Len(u)) /\ (Len(u) + i) - Len(u) = i
      BY <1>1
    <2> QED
      BY <1>2, <2>1
  <1>4. ASSUME NEW i \in 1 .. Len(u) PROVE w[i] = u[i]
    <2>1. i \in 1 .. Len(u) + Len(v) /\ i <= Len(u)
      BY <1>1
    <2> QED
      BY <1>2, <2>1
  <1> QED
    BY <1>1, <1>3, <1>4 DEF Joined

LEMMA FlattenLays ==
  ASSUME NEW S, NEW seqs \in Seq(Seq(S))
  PROVE  /\ FlattenSeq(seqs) \in Seq(S)
         /\ \E pre : Offsets(seqs, pre) /\ Laid(seqs, pre, FlattenSeq(seqs))
  <1> DEFINE n == Len(seqs)
  <1>0. n \in Nat /\ \A k \in 1 .. n : seqs[k] \in Seq(S) /\ Len(seqs[k]) \in Nat
    OBVIOUS
  <1>1. CASE n = 0
    <2>1. FlattenSeq(seqs) = seqs /\ seqs = <<>>
      BY <1>1 DEF FlattenSeq
    <2> DEFINE pre == [k \in 0 .. 0 |-> 0]
    <2>2. Offsets(seqs, pre) /\ Laid(seqs, pre, seqs)
      BY <1>1, <2>1 DEF Offsets, Laid
    <2>3. seqs \in Seq(S)
      BY <2>1
    <2> QED
      BY <2>1, <2>2, <2>3
  <1>2. CASE n > 0
    <2>1. PICK f \in [1 .. n -> Seq(S)] : f = Unrolled(seqs, f) /\ FlattenSeq(seqs) = f[n]
      BY <1>2, FlattenUnrolled
    <2>2. \A k \in 1 .. n : f[k] = IF k = 1 THEN seqs[k] ELSE f[k - 1] \o seqs[k]
      BY <2>1 DEF Unrolled
    <2>a. \A k \in 1 .. n : f[k] \in Seq(S)
      BY <2>1
    <2>3. \A k \in 1 .. n : f[k] \in Seq(S) /\ Len(f[k]) \in Nat
      BY <2>a
    <2> DEFINE pre == [k \in 0 .. n |-> IF k = 0 THEN 0 ELSE Len(f[k])]
    <2>4. Offsets(seqs, pre)
      <3>1. pre \in [0 .. n -> Nat] /\ pre[0] = 0
        BY <1>0, <2>3
      <3>2. ASSUME NEW k \in 1 .. n PROVE pre[k] = pre[k - 1] + Len(seqs[k])
        <4>1. CASE k = 1
          <5>a. 1 \in 1 .. n /\ 0 \in 0 .. n /\ 1 \in 0 .. n
            <6> HIDE DEF n, pre
            <6> QED
              BY <1>0, <4>1
          <5>b. f[1] = seqs[1] /\ Len(seqs[1]) \in Nat
            <6> HIDE DEF n, pre
            <6> QED
              BY <1>0, <2>2, <5>a
          <5>1. f[1] = seqs[1] /\ Len(seqs[1]) \in Nat /\ 1 \in 1 .. n /\ 0 \in 0 .. n /\ 1 \in 0 .. n
            BY <5>a, <5>b, Zenon
          <5>2. pre[1] = Len(seqs[1]) /\ pre[0] = 0
            BY <5>1
          <5> HIDE DEF pre
          <5> QED
            BY <4>1, <5>1, <5>2
        <4>2. CASE k # 1
          <5>1. k - 1 \in 1 .. n
            BY <1>0, <4>2
          <5>2. f[k] = f[k - 1] \o seqs[k] /\ f[k - 1] \in Seq(S) /\ seqs[k] \in Seq(S)
            BY <1>0, <2>2, <2>3, <4>2, <5>1
          <5>3. Len(f[k]) = Len(f[k - 1]) + Len(seqs[k])
            BY <5>2
          <5>4. pre[k] = Len(f[k]) /\ pre[k - 1] = Len(f[k - 1])
            BY <5>1
          <5> QED
            BY <5>3, <5>4
        <4> QED
          BY <4>1, <4>2
      <3> QED
        BY <3>1, <3>2 DEF Offsets
    <2>5. \A k \in 1 .. n : pre[k] = Len(f[k])
      BY <1>0
    <2>6. \A k \in 1 .. n : pre[k] = pre[k - 1] + Len(seqs[k]) /\ pre[k] \in Nat /\ pre[k - 1] \in Nat
      <3> HIDE DEF pre
      <3> TAKE k \in 1 .. n
      <3>1. k \in 0 .. n /\ k - 1 \in 0 .. n
        BY <1>0
      <3> QED
        BY <2>4, <3>1 DEF Offsets
    <2>7. pre[0] = 0
      BY <1>0
    <2> HIDE DEF pre
    <2> DEFINE Holds(m) == \A k \in 1 .. m : \A j \in 1 .. Len(seqs[k]) :
                             pre[k - 1] + j \in 1 .. Len(f[m]) /\ f[m][pre[k - 1] + j] = seqs[k][j]
               bad == {m \in 1 .. n : ~Holds(m)}
    <2>8. bad = {}
      <3> SUFFICES ASSUME bad # {} PROVE FALSE
        OBVIOUS
      <3>1. bad \subseteq Nat
        BY <1>0
      <3>2. PICK m \in bad : \A k \in bad : m <= k
        <4> HIDE DEF bad
        <4> QED
          BY <3>1, LeastNatural
      <3>3. m \in 1 .. n /\ ~Holds(m)
        BY <3>2
      <3>4. CASE m = 1
        <4>1. f[1] = seqs[1]
          BY <2>2, <3>3, <3>4
        <4>2. Holds(1)
          <5> SUFFICES ASSUME NEW k \in 1 .. 1, NEW j \in 1 .. Len(seqs[k])
                       PROVE  pre[k - 1] + j \in 1 .. Len(f[1]) /\ f[1][pre[k - 1] + j] = seqs[k][j]
            OBVIOUS
          <5>1. k = 1 /\ pre[k - 1] = 0 /\ j \in Nat
            BY <2>7
          <5>2. pre[k - 1] + j = j
            BY <5>1
          <5> QED
            BY <4>1, <5>1, <5>2
        <4> QED
          BY <3>3, <3>4, <4>2
      <3>5. CASE m # 1
        <4>1. m - 1 \in 1 .. n /\ m - 1 \notin bad
          <5>0. n \in Nat /\ m \in 1 .. n /\ m # 1
            BY <1>0, <3>3, <3>5
          <5> HIDE DEF bad, Holds, n
          <5>1. m - 1 \in 1 .. n /\ m \in Nat
            BY <5>0
          <5> QED
            BY <3>2, <5>1
        <4>2. Holds(m - 1)
          <5> HIDE DEF Holds
          <5> QED
            BY <4>1
        <4> DEFINE u == f[m - 1]
                   v == seqs[m]
        <4>3. f[m] = u \o v /\ u \in Seq(S) /\ v \in Seq(S) /\ Len(u) = pre[m - 1]
          BY <1>0, <2>2, <2>3, <2>5, <3>3, <3>5, <4>1
        <4>4. /\ Len(f[m]) = Len(u) + Len(v) /\ Len(u) \in Nat /\ Len(v) \in Nat
              /\ \A i \in 1 .. Len(u) : f[m][i] = u[i]
              /\ \A i \in 1 .. Len(v) : f[m][Len(u) + i] = v[i]
          <5> HIDE DEF u, v
          <5>1. u \in Seq(S) /\ v \in Seq(S)
            BY <4>3, Zenon
          <5>2. Joined(u, v, u \o v)
            BY <5>1, ConcatFacts
          <5>3. Joined(u, v, f[m])
            BY <4>3, <5>2, Zenon
          <5> QED
            BY <5>3, Zenon DEF Joined
        <4>5. Holds(m)
          <5> SUFFICES ASSUME NEW k \in 1 .. m, NEW j \in 1 .. Len(seqs[k])
                       PROVE  pre[k - 1] + j \in 1 .. Len(f[m]) /\ f[m][pre[k - 1] + j] = seqs[k][j]
            OBVIOUS
          <5>1. CASE k = m
            <6>1. j \in 1 .. Len(v) /\ pre[k - 1] = Len(u) /\ seqs[k] = v
              BY <4>3, <5>1
            <6>2. Len(u) + j \in 1 .. Len(f[m]) /\ f[m][Len(u) + j] = v[j]
              <7> HIDE DEF u, v, Holds, bad
              <7>1. f[m][Len(u) + j] = v[j]
                BY <4>4, <6>1, Zenon
              <7>2. PICK c \in Nat : c = Len(f[m])
                BY <4>4
              <7>3. Len(u) + j \in 1 .. c
                BY <4>4, <6>1, <7>2
              <7> QED
                BY <7>1, <7>2, <7>3, Zenon
            <6> QED
              BY <6>1, <6>2
          <5>2. CASE k # m
            <6>1. k \in 1 .. m - 1
              BY <3>3, <5>2
            <6>2. pre[k - 1] + j \in 1 .. Len(u) /\ u[pre[k - 1] + j] = seqs[k][j]
              BY <4>2, <6>1
            <6>3. \A i \in 1 .. Len(u) : i \in 1 .. Len(f[m]) /\ f[m][i] = u[i]
              <7> HIDE DEF u, v, Holds, bad
              <7> TAKE i \in 1 .. Len(u)
              <7>1. f[m][i] = u[i]
                BY <4>4, Zenon
              <7>2. PICK c \in Nat, d \in Nat, e \in Nat : c = Len(f[m]) /\ d = Len(u) /\ e = Len(v) /\ c = d + e
                BY <4>4
              <7>3. i \in 1 .. d
                BY <7>2, Zenon
              <7>4. i \in 1 .. c
                BY <7>2, <7>3
              <7> QED
                BY <7>1, <7>2, <7>4, Zenon
            <6> QED
              BY <6>2, <6>3
          <5> QED
            BY <5>1, <5>2
        <4> QED
          BY <3>3, <4>5
      <3> QED
        BY <3>4, <3>5
    <2>9. Holds(n)
      <3> HIDE DEF Holds
      <3>1. n \in 1 .. n
        BY <1>0, <1>2
      <3> QED
        BY <2>8, <3>1
    <2>10. Len(f[n]) = pre[n]
      <3>1. n \in 1 .. n
        BY <1>0, <1>2
      <3> QED
        BY <2>5, <3>1
    <2>11. \A i \in 1 .. Len(f[n]) : \E k \in 1 .. n : \E j \in 1 .. Len(seqs[k]) : i = pre[k - 1] + j
      <3>1. \A i \in 1 .. pre[n] : \E k \in 1 .. n : \E j \in 1 .. Len(seqs[k]) : i = pre[k - 1] + j
        <4>1. ASSUME NEW i \in 1 .. pre[Len(seqs)] PROVE Located(seqs, pre, i)
          BY <2>4, OffsetsLocate
        <4> QED
          BY <4>1, Zenon DEF Located
      <3> QED
        BY <2>10, <3>1
    <2>12. Laid(seqs, pre, f[n])
      BY <2>9, <2>10, <2>11 DEF Laid
    <2>13. f[n] \in Seq(S)
      BY <1>0, <1>2, <2>3
    <2> QED
      BY <2>1, <2>4, <2>12, <2>13
  <1> QED
    BY <1>0, <1>1, <1>2

\* Where two positions of flattened sequences are from; two positions of one of
\* them are not from the same place.
FromPlaces(p, q, a, b) ==
    \E k \in 1 .. Len(p), l \in 1 .. Len(q) : \E i \in 1 .. Len(p[k]), j \in 1 .. Len(q[l]) :
        /\ FlattenSeq(p)[a] = p[k][i] /\ FlattenSeq(q)[b] = q[l][j]
        /\ p = q /\ k = l /\ i = j => a = b

LEMMA FlattenApart ==
  ASSUME NEW S, NEW p \in Seq(Seq(S)), NEW q \in Seq(Seq(S)),
         NEW a \in 1 .. Len(FlattenSeq(p)), NEW b \in 1 .. Len(FlattenSeq(q))
  PROVE  FromPlaces(p, q, a, b)
  <1>1. PICK pre : Offsets(p, pre) /\ Laid(p, pre, FlattenSeq(p))
    BY FlattenLays
  <1>2. PICK prq : Offsets(q, prq) /\ Laid(q, prq, FlattenSeq(q)) /\ (p = q => prq = pre)
    <2>1. CASE p = q
      BY <1>1, <2>1
    <2>2. CASE p # q
      BY <2>2, FlattenLays
    <2> QED
      BY <2>1, <2>2
  <1>3. PICK k \in 1 .. Len(p) : \E i \in 1 .. Len(p[k]) : a = pre[k - 1] + i
    BY <1>1 DEF Laid
  <1>4. PICK i \in 1 .. Len(p[k]) : a = pre[k - 1] + i
    BY <1>3
  <1>5. FlattenSeq(p)[a] = p[k][i]
    BY <1>1, <1>4 DEF Laid
  <1>6. PICK l \in 1 .. Len(q) : \E j \in 1 .. Len(q[l]) : b = prq[l - 1] + j
    BY <1>2 DEF Laid
  <1>7. PICK j \in 1 .. Len(q[l]) : b = prq[l - 1] + j
    BY <1>6
  <1>8. FlattenSeq(q)[b] = q[l][j]
    BY <1>2, <1>7 DEF Laid
  <1>9. p = q /\ k = l /\ i = j => a = b
    BY <1>2, <1>4, <1>7
  <1> QED
    BY <1>5, <1>8, <1>9 DEF FromPlaces

\* Sequences of the same lengths make sequences of the same length.
LEMMA OffsetsUnique ==
  ASSUME NEW p, NEW q, NEW pre, NEW prq, Offsets(p, pre), Offsets(q, prq), Len(p) \in Nat,
         Len(p) = Len(q), \A k \in 1 .. Len(p) : Len(p[k]) = Len(q[k])
  PROVE  \A k \in 0 .. Len(p) : pre[k] = prq[k]
  <1> DEFINE wrong == {k \in 0 .. Len(p) : pre[k] # prq[k]}
  <1> SUFFICES ASSUME wrong # {} PROVE FALSE
    OBVIOUS
  <1>1. wrong \subseteq Nat
    OBVIOUS
  <1>2. PICK k \in wrong : \A m \in wrong : k <= m
    <2> HIDE DEF wrong
    <2> QED
      BY <1>1, LeastNatural
  <1>3. k \in 0 .. Len(p) /\ pre[k] # prq[k] /\ k \in Nat
    BY <1>2
  <1>4. k # 0
    BY <1>3 DEF Offsets
  <1>5. k \in 1 .. Len(p) /\ k - 1 \in 0 .. Len(p)
    BY <1>3, <1>4
  <1>6. k - 1 \notin wrong
    <2> HIDE DEF wrong
    <2> QED
      BY <1>2, <1>3
  <1>7. pre[k - 1] = prq[k - 1]
    BY <1>5, <1>6
  <1>8. pre[k] = pre[k - 1] + Len(p[k]) /\ prq[k] = prq[k - 1] + Len(q[k]) /\ Len(p[k]) = Len(q[k])
    BY <1>5 DEF Offsets
  <1> QED
    BY <1>3, <1>7, <1>8

LEMMA FlattenLengths ==
  ASSUME NEW S, NEW p \in Seq(Seq(S)), NEW q \in Seq(Seq(S)),
         Len(p) = Len(q), \A k \in 1 .. Len(p) : Len(p[k]) = Len(q[k])
  PROVE  Len(FlattenSeq(p)) = Len(FlattenSeq(q))
  <1>1. PICK pre : Offsets(p, pre) /\ Laid(p, pre, FlattenSeq(p))
    BY FlattenLays
  <1>2. PICK prq : Offsets(q, prq) /\ Laid(q, prq, FlattenSeq(q))
    BY FlattenLays
  <1>3. Len(p) \in Nat
    OBVIOUS
  <1>4. \A k \in 0 .. Len(p) : pre[k] = prq[k]
    BY <1>1, <1>2, <1>3, OffsetsUnique
  <1>5. Len(p) \in 0 .. Len(p)
    BY <1>3
  <1> QED
    BY <1>1, <1>2, <1>4, <1>5 DEF Laid

LEMMA Distribute ==
  ASSUME NEW x \in Int, NEW d \in Int
  PROVE  x * (d + 1) = x * d + x /\ (x + 1) * d = x * d + d
  BY Z3

\* Sequences of one length.
LEMMA FlattenUniform ==
  ASSUME NEW S, NEW p \in Seq(Seq(S)), NEW c \in Nat, \A k \in 1 .. Len(p) : Len(p[k]) = c
  PROVE  Len(FlattenSeq(p)) = Len(p) * c
  <1>1. PICK pre : Offsets(p, pre) /\ Laid(p, pre, FlattenSeq(p))
    BY FlattenLays
  <1>2. Len(p) \in Nat
    OBVIOUS
  <1> DEFINE prq == [k \in 0 .. Len(p) |-> k * c]
  <1>3. Offsets(p, prq)
    <2>1. \A k \in 0 .. Len(p) : k * c \in Nat
      BY Z3
    <2>2. prq \in [0 .. Len(p) -> Nat]
      BY <2>1
    <2>3. 0 * c = 0 /\ 0 \in 0 .. Len(p)
      BY <1>2
    <2>4. ASSUME NEW k \in 1 .. Len(p) PROVE prq[k] = prq[k - 1] + Len(p[k])
      <3>1. k \in 0 .. Len(p) /\ k - 1 \in 0 .. Len(p) /\ k - 1 \in Int /\ (k - 1) + 1 = k
        BY <1>2
      <3>2. ((k - 1) + 1) * c = (k - 1) * c + c
        BY <3>1, Distribute
      <3>3. prq[k] = k * c /\ prq[k - 1] = (k - 1) * c
        BY <3>1
      <3> HIDE DEF prq
      <3> QED
        BY <3>1, <3>2, <3>3
    <2>5. prq[0] = 0
      BY <2>3
    <2> HIDE DEF prq
    <2> QED
      BY <2>2, <2>4, <2>5 DEF Offsets
  <1>4. \A k \in 0 .. Len(p) : pre[k] = prq[k]
    <2> HIDE DEF prq
    <2> QED
      BY <1>1, <1>2, <1>3, OffsetsUnique
  <1>5. Len(p) \in 0 .. Len(p)
    BY <1>2
  <1> QED
    BY <1>1, <1>4, <1>5 DEF Laid

LEMMA DivisionFacts ==
  ASSUME NEW x \in Int, NEW d \in Nat \ {0}
  PROVE  /\ x \div d \in Int /\ (x % d) \in 0 .. (d - 1) /\ x = (x \div d) * d + (x % d)
         /\ x \in Nat => x \div d \in Nat
  <1>1. x \div d \in Int /\ (x % d) \in 0 .. (d - 1) /\ x = (x \div d) * d + (x % d)
    BY Z3
  <1>2. x \in Nat => x \div d \in Nat
    BY Z3
  <1> QED
    BY <1>1, <1>2

LEMMA CeilDivFacts ==
  ASSUME NEW a \in Nat, NEW b \in Nat \ {0}
  PROVE  CeilDiv(a, b) \in Nat /\ (a >= 1 => CeilDiv(a, b) # 0)
  <1> DEFINE q == a + b - 1
             c == q \div b
  <1>1. q \in Nat /\ CeilDiv(a, b) = c /\ (a >= 1 => q >= b)
    BY DEF CeilDiv
  <1> HIDE DEF q
  <1>2. c \in Nat /\ (q % b) \in 0 .. (b - 1) /\ q = c * b + (q % b)
    <2>1. q \in Int
      BY <1>1
    <2> QED
      BY <1>1, <2>1, DivisionFacts
  <1> HIDE DEF c
  <1>3. ASSUME a >= 1, c = 0 PROVE FALSE
    <2>1. c * b = 0
      BY <1>3
    <2> QED
      BY <1>1, <1>2, <1>3, <2>1
  <1> QED
    BY <1>1, <1>2, <1>3

LEMMA ProductsOrdered ==
  ASSUME NEW x \in Int, NEW y \in Int, NEW d \in Nat
  PROVE  /\ x <= y => x * d <= y * d
         /\ x * d < y * d => x < y
  BY Z3

LEMMA ProductNat ==
  ASSUME NEW x \in Nat, NEW y \in Nat
  PROVE  x * y \in Nat
  BY Z3

\* A number has one quotient and one remainder.
LEMMA SameQuotient ==
  ASSUME NEW d \in Nat \ {0}, NEW x \in Int, NEW y \in Int, NEW i \in 0 .. (d - 1), NEW j \in 0 .. (d - 1),
         x * d + i = y * d + j
  PROVE  x = y /\ i = j
  <1>0. x * d \in Int /\ y * d \in Int /\ (x + 1) * d = x * d + d /\ (y + 1) * d = y * d + d
        /\ (x + 1) * d \in Int /\ (y + 1) * d \in Int
    BY Distribute, Z3
  <1>1. x < y + 1
    <2>1. x * d < (y + 1) * d
      BY <1>0
    <2> QED
      BY <2>1, ProductsOrdered
  <1>2. y < x + 1
    <2>1. y * d < (x + 1) * d
      BY <1>0
    <2> QED
      BY <2>1, ProductsOrdered
  <1>3. x = y
    BY <1>1, <1>2
  <1> QED
    BY <1>0, <1>3

\* The smaller of two numbers.
LEMMA SmallerOf ==
  ASSUME NEW x \in Int, NEW y \in Int
  PROVE  Min({x, y}) = IF x <= y THEN x ELSE y
  BY DEF Min

----------------------------------------------------------------------------
(* Sheets that have a row in common.                                        *)

SheetSet == {s \in [table : Nat, start : Nat, end : Nat] : s.start <= s.end}
Meets(x, y) ==
    /\ x.table = y.table
    /\ \E n \in Nat : x.start <= n /\ n < x.end /\ y.start <= n /\ n < y.end

\* The ranges of table t lie one after the other between two rows.
InOrder(sheets, t, from, to) ==
    /\ sheets \in Seq(SheetSet)
    /\ \A i \in 1 .. Len(sheets) : sheets[i].table = t /\ from <= sheets[i].start /\ sheets[i].end <= to
    /\ \A i, j \in 1 .. Len(sheets) : i < j => sheets[i].end <= sheets[j].start

LEMMA InOrderApart ==
  ASSUME NEW sheets, NEW t, NEW from \in Nat, NEW to \in Nat, InOrder(sheets, t, from, to),
         NEW i \in 1 .. Len(sheets), NEW j \in 1 .. Len(sheets), Meets(sheets[i], sheets[j])
  PROVE  i = j
  <1>1. sheets \in Seq(SheetSet)
    BY DEF InOrder
  <1>2. sheets[i] \in SheetSet /\ sheets[j] \in SheetSet
    BY <1>1
  <1>3. PICK n \in Nat : sheets[i].start <= n /\ n < sheets[i].end /\ sheets[j].start <= n /\ n < sheets[j].end
    BY DEF Meets
  <1>4. ~(sheets[i].end <= sheets[j].start) /\ ~(sheets[j].end <= sheets[i].start)
    BY <1>2, <1>3 DEF SheetSet
  <1>5. ~(i < j) /\ ~(j < i)
    BY <1>4 DEF InOrder
  <1> QED
    BY <1>5

\* The remaining rows before shard i: they grow with i, and no more than there are.
LEMMA RemaindersFacts ==
  ASSUME NEW length \in Nat, NEW num \in Nat \ {0}, NEW extra \in Nat
  PROVE  /\ \A i \in 1 .. num + 1 : RemaindersBefore(length, num, extra, i) \in Nat
         /\ \A i, j \in 1 .. num + 1 : i <= j =>
              RemaindersBefore(length, num, extra, i) <= RemaindersBefore(length, num, extra, j)
         /\ RemaindersBefore(length, num, extra, num + 1) <= length % num
  <1> DEFINE B(i) == {j \in 1 .. i - 1 : (j - 1 - extra) % num < length % num}
             R(i) == Cardinality(B(i))
             rem == length % num
  <1>0. rem \in 0 .. (num - 1)
    BY DivisionFacts
  <1>1. \A i \in 1 .. num + 1 : IsFiniteSet(B(i)) /\ R(i) \in Nat
    <2> TAKE i \in 1 .. num + 1
    <2>1. IsFiniteSet(1 .. i - 1) /\ B(i) \subseteq 1 .. i - 1
      BY FS_Interval
    <2>2. IsFiniteSet(B(i))
      BY <2>1, FS_Subset
    <2> QED
      BY <2>2, FS_CardinalityType
  <1>2. \A i, j \in 1 .. num + 1 : i <= j => R(i) <= R(j)
    <2> TAKE i, j \in 1 .. num + 1
    <2> HAVE i <= j
    <2>1. B(i) \subseteq B(j)
      OBVIOUS
    <2> QED
      BY <1>1, <2>1, FS_Subset
  <1>3. R(num + 1) <= rem
    <2> DEFINE f == [j \in B(num + 1) |-> (j - 1 - extra) % num]
    <2>1. ASSUME NEW j \in B(num + 1) PROVE (j - 1 - extra) % num \in 0 .. (rem - 1)
      <3>1. j \in 1 .. num /\ (j - 1 - extra) % num < rem
        BY <2>1
      <3>2. j - 1 - extra \in Int /\ num \in Nat \ {0}
        BY <3>1
      <3>3. (j - 1 - extra) % num \in 0 .. (num - 1)
        BY <3>2, DivisionFacts
      <3> HIDE DEF rem
      <3>4. PICK v \in Int : v = (j - 1 - extra) % num
        BY <3>3
      <3> QED
        BY <1>0, <3>1, <3>3, <3>4
    <2>2. f \in [B(num + 1) -> 0 .. (rem - 1)]
      BY <2>1
    <2>3. ASSUME NEW i \in B(num + 1), NEW j \in B(num + 1), f[i] = f[j] PROVE i = j
      <3>1. i \in 1 .. num /\ j \in 1 .. num /\ (i - 1 - extra) % num = (j - 1 - extra) % num
        BY <2>3
      <3> DEFINE x == i - 1 - extra
                 y == j - 1 - extra
      <3>2. x \in Int /\ y \in Int
        BY <3>1
      <3>3. /\ x \div num \in Int /\ x = (x \div num) * num + (x % num)
            /\ y \div num \in Int /\ y = (y \div num) * num + (y % num)
        BY <3>2, DivisionFacts
      <3>4. PICK c \in Int, e \in Int, m \in Int : x = c * num + m /\ y = e * num + m
        <4>1. x % num \in Int
          BY <3>2, DivisionFacts
        <4> QED
          BY <3>1, <3>3, <4>1
      <3>5. c * num \in Int /\ e * num \in Int /\ (c + 1) * num = c * num + num /\ (e + 1) * num = e * num + num
        BY <3>4, Distribute, Z3
      <3>6. x - y < num /\ y - x < num
        BY <3>1
      <3> HIDE DEF x, y
      <3>7. c * num < (e + 1) * num /\ e * num < (c + 1) * num
        BY <3>2, <3>4, <3>5, <3>6
      <3>8. c < e + 1 /\ e < c + 1
        BY <3>4, <3>7, ProductsOrdered
      <3>9. c = e
        BY <3>8
      <3>10. x = y
        BY <3>4, <3>9
      <3> QED
        BY <3>1, <3>10 DEF x, y
    <2>4. f \in Injection(B(num + 1), 0 .. (rem - 1))
      <3> HIDE DEF f
      <3> QED
        BY <2>2, <2>3 DEF Injection, IsInjective
    <2>5. IsFiniteSet(0 .. (rem - 1)) /\ Cardinality(0 .. (rem - 1)) = rem
      <3>1. 0 \in Int /\ rem - 1 \in Int
        BY <1>0
      <3> QED
        BY <1>0, <3>1, FS_Interval
    <2> HIDE DEF f, rem
    <2> QED
      BY <2>4, <2>5, FS_Injection
  <1>4. \A i : RemaindersBefore(length, num, extra, i) = R(i)
    BY DEF RemaindersBefore
  <1> HIDE DEF R
  <1> QED
    BY <1>1, <1>2, <1>3, <1>4

LEMMA BuildFacts ==
  ASSUME NEW t \in Nat, NEW begin \in Nat, NEW length \in Nat, NEW num \in Nat, NEW extra \in Nat
  PROVE  /\ InOrder(BuildShard(t, begin, length, num, extra), t, begin, begin + length)
         /\ Len(BuildShard(t, begin, length, num, extra)) = num
  <1> DEFINE b == BuildShard(t, begin, length, num, extra)
             d == length \div num
             R(i) == RemaindersBefore(length, num, extra, i)
             start(i) == begin + (i - 1) * d + R(i)
  <1>1. b = [i \in 1 .. num |-> Sheet(t, start(i), start(i + 1))]
    BY DEF BuildShard
  <1>2. CASE num = 0
    <2>1. b = <<>>
      BY <1>1, <1>2
    <2> HIDE DEF b
    <2>2. <<>> \in Seq(SheetSet) /\ Len(b) = 0
      BY <2>1
    <2>3. InOrder(b, t, begin, begin + length)
      BY <2>1, <2>2 DEF InOrder
    <2> QED
      BY <1>2, <2>2, <2>3 DEF b
  <1>3. CASE num # 0
    <2>1. num \in Nat \ {0}
      BY <1>3
    <2>2. /\ \A i \in 1 .. num + 1 : R(i) \in Nat
          /\ \A i, j \in 1 .. num + 1 : i <= j => R(i) <= R(j)
          /\ R(num + 1) <= length % num
      BY <2>1, RemaindersFacts
    <2>3. d \in Nat /\ (length % num) \in Nat /\ length = d * num + (length % num)
      BY <2>1, DivisionFacts
    <2> HIDE DEF d, R
    <2>4. \A i \in 1 .. num + 1 : (i - 1) * d \in Nat /\ start(i) \in Nat /\ begin <= start(i)
      <3> TAKE i \in 1 .. num + 1
      <3>1. i - 1 \in Nat
        OBVIOUS
      <3>2. PICK x \in Nat : x = (i - 1) * d
        BY <2>3, <3>1, ProductNat
      <3> QED
        BY <2>2, <3>2
    <2>5. \A i, j \in 1 .. num + 1 : i <= j => start(i) <= start(j)
      <3> TAKE i, j \in 1 .. num + 1
      <3> HAVE i <= j
      <3>1. (i - 1) * d <= (j - 1) * d
        <4>1. i - 1 \in Int /\ j - 1 \in Int /\ i - 1 <= j - 1
          OBVIOUS
        <4> QED
          BY <2>3, <4>1, ProductsOrdered
      <3>2. PICK x \in Nat, y \in Nat : x = (i - 1) * d /\ y = (j - 1) * d
        BY <2>4
      <3>3. R(i) <= R(j) /\ R(i) \in Nat /\ R(j) \in Nat
        BY <2>2
      <3> QED
        BY <3>1, <3>2, <3>3
    <2>6. start(num + 1) <= begin + length
      <3>1. num + 1 \in 1 .. num + 1 /\ (num + 1) - 1 = num
        OBVIOUS
      <3>2. num * d = d * num /\ num * d \in Nat
        BY <2>3, ProductNat
      <3>3. PICK x \in Nat : x = num * d
        BY <3>2
      <3>4. start(num + 1) = begin + x + R(num + 1)
        BY <3>1, <3>3
      <3> QED
        BY <2>2, <2>3, <3>1, <3>2, <3>3, <3>4
    <2> HIDE DEF start
    <2>7. \A i \in 1 .. num : b[i] = [table |-> t, start |-> start(i), end |-> start(i + 1)]
      BY <1>1 DEF Sheet
    <2> HIDE DEF b
    <2>8. ASSUME NEW i \in 1 .. num
          PROVE  /\ start(i) \in Nat /\ start(i + 1) \in Nat /\ begin <= start(i) /\ start(i) <= start(i + 1)
                 /\ start(i + 1) <= begin + length
      <3>1. i \in 1 .. num + 1 /\ i + 1 \in 1 .. num + 1 /\ i <= i + 1 /\ num + 1 \in 1 .. num + 1 /\ i + 1 <= num + 1
        OBVIOUS
      <3>2. start(i + 1) <= start(num + 1) /\ start(i) <= start(i + 1)
        BY <2>5, <3>1
      <3>3. start(i) \in Nat /\ start(i + 1) \in Nat /\ start(num + 1) \in Nat /\ begin <= start(i)
        BY <2>4, <3>1
      <3> QED
        BY <2>6, <3>2, <3>3
    <2>a. ASSUME NEW i \in 1 .. num
          PROVE  b[i] \in SheetSet /\ b[i].table = t /\ begin <= b[i].start /\ b[i].end <= begin + length
      <3>1. PICK x \in Nat, y \in Nat : /\ x = start(i) /\ y = start(i + 1)
                                       /\ begin <= x /\ x <= y /\ y <= begin + length
        BY <2>8
      <3>2. b[i] = [table |-> t, start |-> x, end |-> y]
        BY <2>7, <3>1, Zenon
      <3> QED
        BY <3>1, <3>2 DEF SheetSet
    <2>9. \A i \in 1 .. num : b[i] \in SheetSet
      BY <2>a, Zenon
    <2>10. b \in Seq(SheetSet) /\ Len(b) = num
      BY <1>1, <2>9
    <2>11. \A i \in 1 .. num : b[i].table = t /\ begin <= b[i].start /\ b[i].end <= begin + length
      BY <2>a, Zenon
    <2>12. ASSUME NEW i \in 1 .. num, NEW j \in 1 .. num, i < j PROVE b[i].end <= b[j].start
      <3>1. i + 1 \in 1 .. num + 1 /\ j \in 1 .. num + 1 /\ i + 1 <= j
        BY <2>12
      <3>2. b[i].end = start(i + 1) /\ b[j].start = start(j)
        <4>1. PICK x, y, z, u : x = start(i) /\ y = start(i + 1) /\ z = start(j) /\ u = start(j + 1)
          OBVIOUS
        <4>2. b[i] = [table |-> t, start |-> x, end |-> y] /\ b[j] = [table |-> t, start |-> z, end |-> u]
          BY <2>7, <4>1, Zenon
        <4> QED
          BY <4>1, <4>2
      <3>3. start(i + 1) <= start(j)
        BY <2>5, <3>1, Zenon
      <3> QED
        BY <3>2, <3>3, Zenon
    <2>13. InOrder(b, t, begin, begin + length)
      BY <2>10, <2>11, <2>12 DEF InOrder
    <2> QED
      BY <2>10, <2>13 DEF b
  <1> QED
    BY <1>2, <1>3

\* The strides of the workers share out a sequence whose length they divide.
LEMMA StrideFacts ==
  ASSUME NEW S, NEW sheets \in Seq(S), NEW m \in Nat, Len(sheets) = m * WorkerNum, NEW w \in Ranks
  PROVE  /\ Stride(sheets, w) \in Seq(S) /\ Len(Stride(sheets, w)) = m
         /\ \A k \in 1 .. m : /\ w + (k - 1) * WorkerNum + 1 \in 1 .. Len(sheets)
                              /\ Stride(sheets, w)[k] = sheets[w + (k - 1) * WorkerNum + 1]
  <1> DEFINE W == WorkerNum
             n == Len(sheets)
             mine == {i \in DOMAIN sheets : (i - 1) % W = w}
             at(k) == w + (k - 1) * W + 1
             f == [k \in 1 .. m |-> at(k)]
  <1>0. W \in Nat \ {0} /\ w \in 0 .. (W - 1) /\ n \in Nat /\ n = m * W
    BY SizesGiven DEF Ranks
  <1>1. DOMAIN sheets = 1 .. n
    OBVIOUS
  <1> HIDE DEF W, n
  <1>2. ASSUME NEW k \in 1 .. m PROVE at(k) \in 1 .. n /\ (at(k) - 1) % W = w
    <2>1. k - 1 \in Nat /\ (k - 1) + 1 = k
      OBVIOUS
    <2>2. PICK x \in Nat : x = (k - 1) * W
      BY <1>0, <2>1, ProductNat
    <2>3. x + W = k * W
      <3>1. ((k - 1) + 1) * W = (k - 1) * W + W
        BY <1>0, <2>1, Distribute
      <3> QED
        BY <2>1, <2>2, <3>1
    <2>4. k * W <= m * W /\ k * W \in Int
      BY <1>0, ProductsOrdered, ProductNat
    <2>5. at(k) \in 1 .. n /\ at(k) - 1 = x + w /\ x + w \in Int
      BY <1>0, <2>2, <2>3, <2>4
    <2> DEFINE a == x + w
    <2>6. a \div W \in Int /\ (a % W) \in 0 .. (W - 1) /\ a = (a \div W) * W + (a % W)
      BY <1>0, <2>5, DivisionFacts
    <2>7. a = (k - 1) * W + w /\ k - 1 \in Int
      BY <1>0, <2>1, <2>2
    <2> HIDE DEF a
    <2>8. a % W = w
      <3>1. PICK q \in Int, y \in 0 .. (W - 1) : q = a \div W /\ y = a % W
        BY <2>6
      <3>2. q * W + y = (k - 1) * W + w
        BY <2>6, <2>7, <3>1
      <3>3. y = w
        <4>1. PICK z \in Int : z = k - 1
          BY <2>7
        <4>2. q * W + y = z * W + w /\ W \in Nat \ {0} /\ w \in 0 .. (W - 1)
          BY <1>0, <3>2, <4>1
        <4> QED
          BY <4>2, SameQuotient
      <3> QED
        BY <3>1, <3>3
    <2> QED
      BY <2>5, <2>8 DEF a
  <1>3. ASSUME NEW i \in mine PROVE \E k \in 1 .. m : at(k) = i
    <2>1. i \in 1 .. n /\ i - 1 \in Nat /\ (i - 1) % W = w
      BY <1>1, <1>3
    <2>2. PICK q \in Nat : q = (i - 1) \div W
      <3>1. i - 1 \in Int
        BY <2>1
      <3>2. (i - 1) \div W \in Nat
        BY <1>0, <2>1, <3>1, DivisionFacts, Zenon
      <3> QED
        BY <3>2
    <2>3. i - 1 = q * W + w
      <3>1. i - 1 \in Int
        BY <2>1
      <3>2. i - 1 = ((i - 1) \div W) * W + ((i - 1) % W)
        BY <1>0, <3>1, DivisionFacts
      <3> QED
        BY <2>1, <2>2, <3>2
    <2>4. q * W \in Nat
      BY <1>0, ProductNat
    <2>5. q < m
      <3>1. q * W < m * W
        BY <1>0, <2>1, <2>3, <2>4
      <3> QED
        BY <1>0, <3>1, ProductsOrdered
    <2>6. q + 1 \in 1 .. m /\ (q + 1) - 1 = q
      BY <2>5
    <2>7. at(q + 1) = i
      BY <1>0, <2>1, <2>3, <2>4, <2>6
    <2> QED
      BY <2>6, <2>7
  <1>4. ASSUME NEW k \in 1 .. m, NEW l \in 1 .. m, at(k) = at(l) PROVE k = l
    <2>1. k - 1 \in Int /\ l - 1 \in Int /\ (k - 1) * W \in Int /\ (l - 1) * W \in Int
      BY <1>0, Z3
    <2>2. (k - 1) * W + w = (l - 1) * W + w
      BY <1>0, <1>4, <2>1
    <2>3. k - 1 = l - 1
      BY <1>0, <2>1, <2>2, SameQuotient
    <2> QED
      BY <2>3
  <1> HIDE DEF at
  <1>5. f \in Bijection(1 .. m, mine)
    <2>1. f \in [1 .. m -> mine]
      BY <1>1, <1>2
    <2>2. \A k, l \in 1 .. m : f[k] = f[l] => k = l
      BY <1>4
    <2>3. \A i \in mine : \E k \in 1 .. m : f[k] = i
      BY <1>3
    <2> HIDE DEF f, mine
    <2> QED
      BY <2>1, <2>2, <2>3 DEF Bijection, Injection, Surjection, IsInjective
  <1>6. Cardinality(mine) = m
    <2>1. IsFiniteSet(1 .. m) /\ Cardinality(1 .. m) = m
      BY FS_Interval
    <2> HIDE DEF f, mine
    <2>2. ExistsBijection(1 .. m, mine)
      BY <1>5 DEF ExistsBijection
    <2> QED
      BY <2>1, <2>2, FS_Bijection
  <1>7. Stride(sheets, w) = [k \in 1 .. m |-> sheets[at(k)]]
    <2>1. Stride(sheets, w) = [k \in 1 .. Cardinality(mine) |-> sheets[at(k)]]
      BY DEF Stride, at, W
    <2> HIDE DEF mine
    <2> QED
      BY <1>6, <2>1
  <1>8. \A k \in 1 .. m : at(k) \in 1 .. n /\ sheets[at(k)] \in S
    BY <1>1, <1>2 DEF n
  <1>9. Stride(sheets, w) \in Seq(S) /\ Len(Stride(sheets, w)) = m
    BY <1>7, <1>8
  <1>10. \A k \in 1 .. m : at(k) \in 1 .. n /\ Stride(sheets, w)[k] = sheets[at(k)]
    BY <1>7, <1>8
  <1> QED
    BY <1>9, <1>10 DEF at, W, n

\* Two workers do not read the same place.
LEMMA StridesApart ==
  ASSUME NEW w \in Ranks, NEW v \in Ranks, NEW k \in Nat \ {0}, NEW l \in Nat \ {0},
         w + (k - 1) * WorkerNum + 1 = v + (l - 1) * WorkerNum + 1
  PROVE  w = v /\ k = l
  <1>0. WorkerNum \in Nat \ {0} /\ w \in 0 .. (WorkerNum - 1) /\ v \in 0 .. (WorkerNum - 1)
    BY SizesGiven DEF Ranks
  <1>1. PICK x \in Int, y \in Int : x = (k - 1) * WorkerNum /\ y = (l - 1) * WorkerNum
    BY <1>0, Z3
  <1>2. (k - 1) * WorkerNum + w = (l - 1) * WorkerNum + v
    BY <1>0, <1>1
  <1>3. k - 1 \in Int /\ l - 1 \in Int
    OBVIOUS
  <1>4. k - 1 = l - 1 /\ w = v
    BY <1>0, <1>2, <1>3, SameQuotient
  <1> QED
    BY <1>4

\* The parts that the subprocesses read of a sheet lie in it, one after the other.
LEMMA SubprocessFacts ==
  ASSUME NEW s \in SheetSet
  PROVE  /\ \A u \in 0 .. (SubNum - 1) :
              /\ ShardTableBySubprocess(s, u) \in SheetSet
              /\ ShardTableBySubprocess(s, u).table = s.table
              /\ s.start <= ShardTableBySubprocess(s, u).start
              /\ ShardTableBySubprocess(s, u).end <= s.end
         /\ \A u, v \in 0 .. (SubNum - 1) :
              u < v => ShardTableBySubprocess(s, u).end <= ShardTableBySubprocess(s, v).start
  <1> DEFINE len == s.end - s.start
             q == len \div SubNum
             rem == len % SubNum
             cutAt(u) == s.start + u * q + Min({u, rem})
             part(u) == ShardTableBySubprocess(s, u)
  <1>0. SubNum \in Nat \ {0} /\ len \in Nat /\ s.start \in Nat /\ s.end \in Nat /\ s.table \in Nat
    BY SizesGiven DEF SheetSet
  <1>1. s = [table |-> s.table, start |-> s.start, end |-> s.end]
    BY DEF SheetSet
  <1>2. q \in Nat /\ rem \in 0 .. (SubNum - 1) /\ len = q * SubNum + rem
    <2>1. len \in Int
      BY <1>0
    <2> HIDE DEF len
    <2> QED
      BY <1>0, <2>1, DivisionFacts
  <1>3. \A u : part(u) = [table |-> s.table, start |-> cutAt(u), end |-> cutAt(u + 1)]
    <2> TAKE u
    <2>1. PICK x, y : x = cutAt(u) /\ y = cutAt(u + 1)
      OBVIOUS
    <2>2. part(u) = [s EXCEPT !.start = x, !.end = y]
      BY <2>1, Zenon DEF ShardTableBySubprocess
    <2>3. s \in [table : Nat, start : Nat, end : Nat]
      BY DEF SheetSet
    <2> HIDE DEF part, cutAt
    <2>4. part(u) = [table |-> s.table, start |-> x, end |-> y]
      BY <2>2, <2>3
    <2> QED
      BY <2>1, <2>4, Zenon
  <1> HIDE DEF q, rem, part
  <1>4. \A u \in Nat : Min({u, rem}) = IF u <= rem THEN u ELSE rem
    BY <1>2, SmallerOf
  <1>5. \A u \in Nat : u * q \in Nat /\ cutAt(u) \in Nat /\ s.start <= cutAt(u)
    <2> TAKE u \in Nat
    <2>1. PICK x \in Nat : x = u * q
      BY <1>2, ProductNat
    <2>2. PICK y \in Nat : y = Min({u, rem})
      BY <1>2, <1>4
    <2>3. cutAt(u) = s.start + x + y
      BY <2>1, <2>2, Zenon
    <2> QED
      BY <1>0, <2>1, <2>3
  <1>6. \A u, v \in Nat : u <= v => cutAt(u) <= cutAt(v)
    <2> TAKE u, v \in Nat
    <2> HAVE u <= v
    <2>1. u * q <= v * q
      BY <1>2, ProductsOrdered
    <2>2. PICK x \in Nat, y \in Nat : x = u * q /\ y = v * q
      BY <1>5
    <2>3. PICK c \in Nat, e \in Nat : c = Min({u, rem}) /\ e = Min({v, rem}) /\ c <= e
      BY <1>2, <1>4
    <2>4. cutAt(u) = s.start + x + c /\ cutAt(v) = s.start + y + e
      BY <2>2, <2>3, Zenon
    <2> QED
      BY <1>0, <2>1, <2>2, <2>3, <2>4
  <1>7. cutAt(SubNum) = s.end
    <2>1. Min({SubNum, rem}) = rem
      BY <1>0, <1>2, <1>4
    <2>2. PICK x \in Nat : x = SubNum * q
      BY <1>0, <1>5
    <2>3. len = x + rem
      BY <1>0, <1>2, <2>2
    <2>4. cutAt(SubNum) = s.start + x + rem
      BY <2>1, <2>2, Zenon
    <2>5. rem \in Nat /\ x + rem = s.end - s.start
      BY <1>2, <2>3
    <2> HIDE DEF cutAt
    <2> QED
      BY <1>0, <2>2, <2>4, <2>5
  <1> HIDE DEF cutAt
  <1>8. ASSUME NEW u \in 0 .. (SubNum - 1)
        PROVE  /\ part(u) \in SheetSet /\ part(u).table = s.table
               /\ s.start <= part(u).start /\ part(u).end <= s.end
               /\ part(u).start = cutAt(u) /\ part(u).end = cutAt(u + 1)
    <2>1. u \in Nat /\ u + 1 \in Nat /\ SubNum \in Nat /\ u <= u + 1 /\ u + 1 <= SubNum
      BY <1>0
    <2>2. PICK x \in Nat, y \in Nat : x = cutAt(u) /\ y = cutAt(u + 1) /\ s.start <= x /\ x <= y /\ y <= s.end
      BY <1>5, <1>6, <1>7, <2>1
    <2>3. part(u) = [table |-> s.table, start |-> x, end |-> y]
      BY <1>3, <2>2, Zenon
    <2> QED
      BY <1>0, <2>2, <2>3 DEF SheetSet
  <1>9. ASSUME NEW u \in 0 .. (SubNum - 1), NEW v \in 0 .. (SubNum - 1), u < v
        PROVE  part(u).end <= part(v).start
    <2>1. u + 1 \in Nat /\ v \in Nat /\ u + 1 <= v
      BY <1>9
    <2>2. cutAt(u + 1) <= cutAt(v)
      BY <1>6, <2>1, Zenon
    <2> QED
      BY <1>8, <2>2, Zenon
  <1> QED
    BY <1>8, <1>9 DEF part

LEMMA RowsOfSheet ==
  ASSUME NEW s \in SheetSet
  PROVE  /\ SheetRows(s) \in Seq(Cells)
         /\ \A i \in 1 .. Len(SheetRows(s)) :
              /\ SheetRows(s)[i] = [table |-> s.table, row |-> s.start + i - 1]
              /\ s.start + i - 1 \in Nat /\ s.start <= s.start + i - 1 /\ s.start + i - 1 < s.end
  <1>1. s.start \in Nat /\ s.end \in Nat /\ s.table \in Nat /\ s.start <= s.end
    BY DEF SheetSet
  <1>2. PICK n \in Nat : n = s.end - s.start
    BY <1>1
  <1>3. SheetRows(s) = [i \in 1 .. n |-> [table |-> s.table, row |-> s.start + i - 1]]
    BY <1>2 DEF SheetRows
  <1>4. \A i \in 1 .. n : s.start + i - 1 \in Nat /\ s.start <= s.start + i - 1 /\ s.start + i - 1 < s.end
    BY <1>1, <1>2
  <1>5. \A i \in 1 .. n : [table |-> s.table, row |-> s.start + i - 1] \in Cells
    BY <1>1, <1>4 DEF Cells
  <1>6. SheetRows(s) \in Seq(Cells) /\ Len(SheetRows(s)) = n
    BY <1>3, <1>5
  <1> QED
    BY <1>3, <1>4, <1>6

\* Position n of c times d things: the number of the thing and the place in it.
LEMMA PartOf ==
  ASSUME NEW c \in Nat, NEW d \in Nat \ {0}, NEW n \in 1 .. c * d
  PROVE  /\ (n - 1) \div d + 1 \in 1 .. c /\ ((n - 1) % d) \in 0 .. (d - 1)
         /\ n = (((n - 1) \div d + 1) - 1) * d + ((n - 1) % d) + 1
  <1>1. c * d \in Nat
    BY ProductNat
  <1>2. n - 1 \in Int /\ n - 1 \in Nat
    BY <1>1
  <1> DEFINE k == (n - 1) \div d
             u == (n - 1) % d
  <1>3. k \in Nat /\ u \in 0 .. (d - 1) /\ n - 1 = k * d + u
    BY <1>2, DivisionFacts
  <1> HIDE DEF k, u
  <1>4. k * d \in Nat
    BY <1>3, ProductNat
  <1>5. k < c
    <2>1. k * d < c * d
      BY <1>1, <1>2, <1>3, <1>4
    <2> QED
      BY <1>3, <2>1, ProductsOrdered
  <1>6. k + 1 \in 1 .. c /\ (k + 1) - 1 = k
    BY <1>3, <1>5
  <1>7. n = ((k + 1) - 1) * d + u + 1
    BY <1>1, <1>3, <1>4, <1>6
  <1> QED
    BY <1>3, <1>6, <1>7 DEF k, u

\* What the reader hands out, before it is joined.
ReadParts(sheets) ==
    [n \in 1 .. Len(sheets) * SubNum |->
        SheetRows(ShardTableBySubprocess(sheets[(n - 1) \div SubNum + 1], (n - 1) % SubNum))]

\* The n-th part is of sheet k and subprocess u.
IsPart(sheets, n, k, u) ==
    /\ k \in 1 .. Len(sheets) /\ u \in 0 .. (SubNum - 1) /\ n = (k - 1) * SubNum + u + 1
    /\ ReadParts(sheets)[n] = SheetRows(ShardTableBySubprocess(sheets[k], u))
    /\ ShardTableBySubprocess(sheets[k], u) \in SheetSet

LEMMA ReadPartsFacts ==
  ASSUME NEW sheets \in Seq(SheetSet)
  PROVE  /\ ReadParts(sheets) \in Seq(Seq(Cells))
         /\ \A n \in 1 .. Len(ReadParts(sheets)) : \E k, u : IsPart(sheets, n, k, u)
  <1> DEFINE c == Len(sheets)
             p == ReadParts(sheets)
  <1>0. c \in Nat /\ c * SubNum \in Nat /\ \A k \in 1 .. c : sheets[k] \in SheetSet
    <2>1. c \in Nat /\ SubNum \in Nat /\ \A k \in 1 .. c : sheets[k] \in SheetSet
      BY SizesGiven
    <2> HIDE DEF c
    <2> QED
      BY <2>1, ProductNat
  <1> HIDE DEF c
  <1>1. p = [n \in 1 .. c * SubNum |->
               SheetRows(ShardTableBySubprocess(sheets[(n - 1) \div SubNum + 1], (n - 1) % SubNum))]
    BY DEF ReadParts, c
  <1> HIDE DEF p
  <1>2. ASSUME NEW n \in 1 .. c * SubNum
        PROVE  \E k, u : /\ k \in 1 .. c /\ u \in 0 .. (SubNum - 1) /\ n = (k - 1) * SubNum + u + 1
                         /\ p[n] = SheetRows(ShardTableBySubprocess(sheets[k], u))
                         /\ ShardTableBySubprocess(sheets[k], u) \in SheetSet
                         /\ p[n] \in Seq(Cells)
    <2>1. PICK k, u : k = (n - 1) \div SubNum + 1 /\ u = (n - 1) % SubNum
      OBVIOUS
    <2>2. k \in 1 .. c /\ u \in 0 .. (SubNum - 1) /\ n = (k - 1) * SubNum + u + 1
      <3>1. SubNum \in Nat \ {0}
        BY SizesGiven
      <3> QED
        BY <1>0, <2>1, <3>1, PartOf, Zenon
    <2>3. p[n] = SheetRows(ShardTableBySubprocess(sheets[k], u))
      BY <1>1, <2>1, Zenon
    <2>4. ShardTableBySubprocess(sheets[k], u) \in SheetSet
      BY <1>0, <2>2, SubprocessFacts, Zenon
    <2>5. p[n] \in Seq(Cells)
      BY <2>3, <2>4, RowsOfSheet, Zenon
    <2> QED
      BY <2>2, <2>3, <2>4, <2>5, Zenon
  <1>3. \A n \in 1 .. c * SubNum : p[n] \in Seq(Cells)
    BY <1>2, Zenon
  <1>4. p \in Seq(Seq(Cells)) /\ Len(p) = c * SubNum
    <2>1. PICK z \in Nat : z = c * SubNum
      BY <1>0
    <2>2. p = [n \in 1 .. z |-> p[n]] /\ \A n \in 1 .. z : p[n] \in Seq(Cells)
      BY <1>1, <1>3, <2>1
    <2>3. p \in Seq(Seq(Cells)) /\ Len(p) = z
      BY <2>2
    <2> QED
      BY <2>1, <2>3
  <1>5. ASSUME NEW n \in 1 .. Len(p) PROVE \E k, u : IsPart(sheets, n, k, u)
    <2>1. n \in 1 .. c * SubNum
      BY <1>4, <1>5, Zenon
    <2> QED
      BY <1>2, <2>1, Zenon DEF IsPart, c, p
  <1> QED
    BY <1>4, <1>5 DEF p

\* If one row is in what is read of two windows, it is in a sheet of each; and
\* it is in one place of one sheet.
LEMMA ReadApart ==
  ASSUME NEW x \in Seq(SheetSet), NEW y \in Seq(SheetSet),
         NEW a \in 1 .. Len(ReadSheets(x)), NEW b \in 1 .. Len(ReadSheets(y)), ReadSheets(x)[a] = ReadSheets(y)[b]
  PROVE  \E k \in 1 .. Len(x), l \in 1 .. Len(y) : Meets(x[k], y[l]) /\ (x = y /\ k = l => a = b)
  <1> DEFINE p == ReadParts(x)
             q == ReadParts(y)
  <1>1. ReadSheets(x) = FlattenSeq(p) /\ ReadSheets(y) = FlattenSeq(q)
    BY DEF ReadSheets, ReadParts
  <1>2. p \in Seq(Seq(Cells)) /\ q \in Seq(Seq(Cells))
    BY ReadPartsFacts
  <1>a. a \in 1 .. Len(FlattenSeq(p)) /\ b \in 1 .. Len(FlattenSeq(q))
    BY <1>1
  <1>b. x = y => p = q
    OBVIOUS
  <1> HIDE DEF p, q
  <1>3. PICK n \in 1 .. Len(p), m \in 1 .. Len(q) : \E i \in 1 .. Len(p[n]), j \in 1 .. Len(q[m]) :
            /\ FlattenSeq(p)[a] = p[n][i] /\ FlattenSeq(q)[b] = q[m][j]
            /\ p = q /\ n = m /\ i = j => a = b
    <2>1. FromPlaces(p, q, a, b)
      BY <1>2, <1>a, FlattenApart
    <2> QED
      BY <2>1, Zenon DEF FromPlaces
  <1>4. PICK i \in 1 .. Len(p[n]), j \in 1 .. Len(q[m]) :
            /\ FlattenSeq(p)[a] = p[n][i] /\ FlattenSeq(q)[b] = q[m][j]
            /\ p = q /\ n = m /\ i = j => a = b
    BY <1>3
  <1>5. p[n][i] = q[m][j]
    BY <1>1, <1>4
  <1>6. PICK k, u : IsPart(x, n, k, u)
    BY ReadPartsFacts, Zenon DEF p
  <1>7. PICK l, v : IsPart(y, m, l, v)
    BY ReadPartsFacts, Zenon DEF q
  <1> DEFINE e == ShardTableBySubprocess(x[k], u)
             f == ShardTableBySubprocess(y[l], v)
  <1>c. n = (k - 1) * SubNum + u + 1 /\ m = (l - 1) * SubNum + v + 1
    BY <1>6, <1>7, Zenon DEF IsPart
  <1>8. /\ k \in 1 .. Len(x) /\ u \in 0 .. (SubNum - 1)
        /\ l \in 1 .. Len(y) /\ v \in 0 .. (SubNum - 1)
        /\ p[n] = SheetRows(e) /\ q[m] = SheetRows(f) /\ e \in SheetSet /\ f \in SheetSet
    BY <1>6, <1>7, Zenon DEF IsPart, p, q
  <1>9. x[k] \in SheetSet /\ y[l] \in SheetSet
    <2>1. k \in 1 .. Len(x) /\ l \in 1 .. Len(y)
      BY <1>8, Zenon
    <2> QED
      BY SMTT(45), <2>1
  <1>d. /\ e.start \in Nat /\ e.end \in Nat /\ f.start \in Nat /\ f.end \in Nat
        /\ x[k].start \in Nat /\ x[k].end \in Nat /\ y[l].start \in Nat /\ y[l].end \in Nat
    <2>1. \A g \in SheetSet : g.start \in Nat /\ g.end \in Nat
      BY DEF SheetSet
    <2> QED
      BY <1>8, <1>9, <2>1, Zenon
  <1>10. /\ e.table = x[k].table /\ x[k].start <= e.start /\ e.end <= x[k].end
         /\ f.table = y[l].table /\ y[l].start <= f.start /\ f.end <= y[l].end
    BY <1>8, <1>9, SubprocessFacts, Zenon
  <1>11. /\ x[k] = y[l] /\ u < v => e.end <= f.start
         /\ x[k] = y[l] /\ v < u => f.end <= e.start
    BY <1>8, <1>9, SubprocessFacts, Zenon
  <1> HIDE DEF e, f
  <1>12. /\ p[n][i] = [table |-> e.table, row |-> e.start + i - 1]
         /\ q[m][j] = [table |-> f.table, row |-> f.start + j - 1]
         /\ e.start + i - 1 \in Nat /\ e.start <= e.start + i - 1 /\ e.start + i - 1 < e.end
         /\ f.start + j - 1 \in Nat /\ f.start <= f.start + j - 1 /\ f.start + j - 1 < f.end
    BY <1>4, <1>8, RowsOfSheet, Zenon
  <1>13. PICK z \in Nat : z = e.start + i - 1 /\ z = f.start + j - 1 /\ e.table = f.table
    <2>1. PICK g, h : g = e.start + i - 1 /\ h = f.start + j - 1
      OBVIOUS
    <2>2. [table |-> e.table, row |-> g] = [table |-> f.table, row |-> h] /\ g \in Nat
      BY <1>5, <1>12, <2>1, Zenon
    <2>3. g = h /\ e.table = f.table
      BY <2>2
    <2> QED
      BY <2>1, <2>2, <2>3, Zenon
  <1>14. e.start <= z /\ z < e.end /\ f.start <= z /\ z < f.end
    BY <1>12, <1>13, Zenon
  <1>15. Meets(x[k], y[l])
    <2>1. x[k].start <= z /\ z < x[k].end /\ y[l].start <= z /\ z < y[l].end
      <3>1. PICK g \in Nat, h \in Nat : g = e.start /\ h = e.end
        BY <1>d
      <3>2. PICK c \in Nat, d \in Nat : c = f.start /\ d = f.end
        BY <1>d
      <3>3. g <= z /\ z < h /\ c <= z /\ z < d
        BY <1>14, <3>1, <3>2, Zenon
      <3>4. PICK s \in Nat, t \in Nat : s = x[k].start /\ t = x[k].end
        BY <1>d
      <3>5. PICK ss \in Nat, tt \in Nat : ss = y[l].start /\ tt = y[l].end
        BY <1>d
      <3>6. s <= g /\ h <= t /\ ss <= c /\ d <= tt
        BY <1>10, <3>1, <3>2, <3>4, <3>5, Zenon
      <3>7. s <= z /\ z < t /\ ss <= z /\ z < tt
        BY SMTT(45), <3>3, <3>6
      <3> QED
        BY <3>4, <3>5, <3>7, Zenon
    <2> QED
      BY <1>10, <1>13, <2>1 DEF Meets
  <1>16. ASSUME x = y, k = l PROVE a = b
    <2>1. x[k] = y[l]
      BY <1>16
    <2>2. ~(e.end <= f.start) /\ ~(f.end <= e.start)
      <3>1. PICK g \in Nat, h \in Nat : g = e.start /\ h = e.end
        BY <1>d
      <3>2. PICK c \in Nat, d \in Nat : c = f.start /\ d = f.end
        BY <1>d
      <3>3. g <= z /\ z < h /\ c <= z /\ z < d
        BY <1>14, <3>1, <3>2, Zenon
      <3>4. ~(h <= c) /\ ~(d <= g)
        BY SMTT(45), <3>3
      <3> QED
        BY <3>1, <3>2, <3>4, Zenon
    <2>3. u = v
      BY <1>8, <1>11, <2>1, <2>2
    <2>4. n = m
      BY <1>c, <1>16, <2>3, Zenon
    <2>5. e = f
      BY <2>1, <2>3 DEF e, f
    <2>6. i \in Nat /\ j \in Nat
      OBVIOUS
    <2>7. i = j
      <3>1. PICK g \in Nat : g = e.start /\ g = f.start
        BY <1>d, <2>5
      <3>2. z = g + i - 1 /\ z = g + j - 1
        BY <1>13, <3>1, Zenon
      <3> QED
        BY SMTT(45), <2>6, <3>2
    <2> QED
      BY <1>4, <1>16, <1>b, <2>4, <2>7
  <1> QED
    BY <1>8, <1>15, <1>16

LEMMA ReadSheetsTyped ==
  ASSUME NEW x \in Seq(SheetSet)
  PROVE  ReadSheets(x) \in Seq(Cells)
  <1>1. ReadSheets(x) = FlattenSeq(ReadParts(x))
    BY DEF ReadSheets, ReadParts
  <1>2. ReadParts(x) \in Seq(Seq(Cells))
    BY ReadPartsFacts
  <1> QED
    BY <1>1, <1>2, FlattenLays

----------------------------------------------------------------------------
\* All ranks have as many sheets, and no two of them have a row in common.
PathsGood(P) ==
    /\ P \in [Ranks -> Seq(SheetSet)] /\ \A r \in Ranks : Len(P[r]) = Len(P[0])
    /\ \A r, q \in Ranks : \A a \in 1 .. Len(P[r]), b \in 1 .. Len(P[q]) :
         Meets(P[r][a], P[q][b]) => r = q /\ a = b

\* The threads of a window.
LEMMA ThreadsFacts == Total \in Nat \ {0} /\ CeilDiv(ReadThreadsNum, Total) \in Nat \ {0} /\ WindowThreads \in Nat \ {0}
  <1> DEFINE T == Total
             c == CeilDiv(ReadThreadsNum, T)
             q == ReadThreadsNum + T - 1
  <1>1. T \in Nat \ {0} /\ ReadThreadsNum \in Nat \ {0}
    <2>1. Proportions \in Seq(Nat \X (Nat \ {0})) /\ Len(Proportions) = Len(Tables)
          /\ Tables \in Seq(Nat) /\ Tables # <<>> /\ ReadThreadsNum \in Nat \ {0}
      <3>1. Proportions \in Seq(Nat \X (Nat \ {0}))
        BY ZenonT(60), WindowAssumption
      <3>2. Len(Proportions) = Len(Tables)
        BY ZenonT(60), WindowAssumption
      <3> QED
        BY <3>1, <3>2, SizesGiven
    <2>2. 1 \in 1 .. Len(Proportions)
      BY <2>1
    <2>3. Proportions[1] \in Nat \X (Nat \ {0})
      BY <2>1, <2>2
    <2> QED
      BY <2>1, <2>3 DEF Total
  <1> HIDE DEF T
  <1>2. q \in Nat /\ q >= T /\ c = q \div T
    BY <1>1 DEF CeilDiv
  <1> HIDE DEF q, c
  <1>3. c \in Nat /\ (q % T) \in 0 .. (T - 1) /\ q = c * T + (q % T)
    <2>1. q \in Int
      BY <1>2
    <2> QED
      BY <1>1, <1>2, <2>1, DivisionFacts
  <1>4. c # 0
    <2> SUFFICES ASSUME c = 0 PROVE FALSE
      OBVIOUS
    <2>1. c * T = 0
      BY <1>1
    <2> QED
      BY <1>1, <1>2, <1>3, <2>1
  <1>5. T * c \in Nat \ {0}
    BY <1>1, <1>3, <1>4, Z3
  <1> QED
    BY <1>1, <1>3, <1>4, <1>5 DEF T, c, WindowThreads

\* A stretch of a sequence.
LEMMA Stretch ==
  ASSUME NEW S, NEW s \in Seq(S), NEW x \in Nat, NEW n \in Nat, x + n <= Len(s)
  PROVE  /\ SubSeq(s, x + 1, x + n) \in Seq(S) /\ Len(SubSeq(s, x + 1, x + n)) = n
         /\ \A c \in 1 .. n : x + c \in 1 .. Len(s) /\ SubSeq(s, x + 1, x + n)[c] = s[x + c]
  <1> DEFINE b == SubSeq(s, x + 1, x + n)
  <1>0. Len(s) \in Nat
    OBVIOUS
  <1>1. \A c \in 1 .. n : x + c \in 1 .. Len(s)
    BY <1>0
  <1>2. CASE n = 0
    <2>1. b = <<>>
      BY <1>0, <1>2
    <2> QED
      BY <1>2, <2>1
  <1>3. CASE n > 0
    <2>1. x + 1 \in 1 .. Len(s) /\ x + n \in 1 .. Len(s) /\ (x + n) - (x + 1) + 1 = n
      BY <1>0, <1>3
    <2>2. b \in Seq(S) /\ Len(b) = n /\ \A c \in 1 .. Len(b) : b[c] = s[x + c]
      BY <1>0, <1>3, <2>1
    <2> QED
      BY <1>1, <2>2
  <1> QED
    BY <1>2, <1>3

\* The sheets of the n-th window.
LEMMA WindowSheets ==
  ASSUME NEW s \in Seq(SheetSet), NEW n \in 1 .. Len(s) \div WindowThreads
  PROVE  /\ SubSeq(s, (n - 1) * WindowThreads + 1, n * WindowThreads) \in Seq(SheetSet)
         /\ Len(SubSeq(s, (n - 1) * WindowThreads + 1, n * WindowThreads)) = WindowThreads
         /\ \A c \in 1 .. WindowThreads :
              /\ (n - 1) * WindowThreads + c \in 1 .. Len(s)
              /\ SubSeq(s, (n - 1) * WindowThreads + 1, n * WindowThreads)[c] = s[(n - 1) * WindowThreads + c]
  <1> DEFINE T == WindowThreads
             N == Len(s)
             k == N \div T
  <1>0. T \in Nat \ {0} /\ N \in Nat
    BY ThreadsFacts
  <1> HIDE DEF T
  <1>1. k \in Nat /\ (N % T) \in Nat /\ N = k * T + (N % T)
    <2>1. N \in Int
      BY <1>0
    <2> HIDE DEF N
    <2> QED
      BY <1>0, <2>1, DivisionFacts
  <1>2. n \in 1 .. k
    BY DEF T
  <1> HIDE DEF k
  <1>3. n - 1 \in Nat /\ n \in Nat /\ (n - 1) + 1 = n /\ n <= k
    BY <1>1, <1>2
  <1>4. PICK x \in Nat : x = (n - 1) * T
    BY <1>0, <1>3, ProductNat
  <1>5. n * T = x + T
    <2>1. ((n - 1) + 1) * T = (n - 1) * T + T
      BY <1>0, <1>3, Distribute
    <2> QED
      BY <1>3, <1>4, <2>1
  <1>6. x + T <= N
    <2>1. n * T <= k * T
      BY <1>0, <1>1, <1>3, ProductsOrdered
    <2>2. PICK y \in Nat : y = k * T
      BY <1>0, <1>1, ProductNat
    <2>3. x + T <= y /\ N = y + (N % T)
      BY <1>1, <1>5, <2>1, <2>2, Zenon
    <2> HIDE DEF N
    <2> QED
      BY <1>0, <1>1, <1>4, <2>2, <2>3
  <1> DEFINE b == SubSeq(s, x + 1, x + T)
  <1>7. b \in Seq(SheetSet) /\ Len(b) = T /\ \A c \in 1 .. T : x + c \in 1 .. Len(s) /\ b[c] = s[x + c]
    BY <1>0, <1>6, Stretch
  <1> HIDE DEF b
  <1>11. SubSeq(s, (n - 1) * T + 1, n * T) = b
    BY <1>4, <1>5 DEF b
  <1> QED
    BY <1>4, <1>7, <1>11, Zenon DEF T

LEMMA GoodPathsGoodWindows ==
  ASSUME NEW way \in {"split", "row"}, PathsGood([r \in Ranks |-> WindowPaths(way, r)])
  PROVE  GoodData([r \in Ranks |-> Windows(way, r)])
  <1> DEFINE P == [r \in Ranks |-> WindowPaths(way, r)]
             D == [r \in Ranks |-> Windows(way, r)]
             T == WindowThreads
             sheets(r, n) == SubSeq(P[r], (n - 1) * T + 1, n * T)
  <1>0. T \in Nat \ {0} /\ \A r \in Ranks : P[r] \in Seq(SheetSet) /\ Len(P[r]) = Len(P[0]) /\ Len(P[r]) \in Nat
    <2> HIDE DEF P
    <2>1. \A r \in Ranks : P[r] \in Seq(SheetSet) /\ Len(P[r]) = Len(P[0])
      BY DEF PathsGood, P
    <2> QED
      BY <2>1, ThreadsFacts
  <1>1. PICK N \in Nat : \A r \in Ranks : Len(P[r]) \div T = N
    <2>1. Len(P[0]) \in Nat /\ Len(P[0]) \in Int
      BY <1>0, RankZero
    <2> HIDE DEF P, T
    <2>2. Len(P[0]) \div T \in Nat
      BY <1>0, <2>1, DivisionFacts, Zenon
    <2> QED
      BY <1>0, <2>2
  <1>2. \A r \in Ranks : D[r] = [n \in 1 .. N |-> ReadSheets(sheets(r, n))]
    <2> TAKE r \in Ranks
    <2>1. way # "lake"
      OBVIOUS
    <2>2. Windows(way, r) = [n \in 1 .. Len(P[r]) \div T |-> ReadSheets(SubSeq(P[r], (n - 1) * T + 1, n * T))]
      BY <2>1 DEF Windows
    <2>3. Len(P[r]) \div T = N
      BY <1>1
    <2>4. D[r] = Windows(way, r)
      OBVIOUS
    <2> HIDE DEF P, T, D
    <2> QED
      BY <2>2, <2>3, <2>4, Zenon
  <1>3. ASSUME NEW r \in Ranks, NEW n \in 1 .. N
        PROVE  /\ sheets(r, n) \in Seq(SheetSet) /\ Len(sheets(r, n)) = T
               /\ \A c \in 1 .. T : (n - 1) * T + c \in 1 .. Len(P[r]) /\ sheets(r, n)[c] = P[r][(n - 1) * T + c]
    <2>1. P[r] \in Seq(SheetSet) /\ n \in 1 .. Len(P[r]) \div T
      BY <1>0, <1>1, Zenon
    <2> HIDE DEF P
    <2> QED
      BY <2>1, WindowSheets, Zenon
  <1>a. PathsGood(P)
    OBVIOUS
  <1>b. D = [r \in Ranks |-> D[r]]
    OBVIOUS
  <1> HIDE DEF P, D, T, sheets
  <1>4. \A r \in Ranks : \A n \in 1 .. N : ReadSheets(sheets(r, n)) \in Seq(Cells)
    BY <1>3, ReadSheetsTyped, Zenon
  <1>5. \A r \in Ranks : D[r] \in Seq(Seq(Cells)) /\ Len(D[r]) = N /\ \A n \in 1 .. N : D[r][n] = ReadSheets(sheets(r, n))
    <2> TAKE r \in Ranks
    <2>1. PICK g : g = [n \in 1 .. N |-> ReadSheets(sheets(r, n))]
      OBVIOUS
    <2>2. g \in Seq(Seq(Cells)) /\ Len(g) = N /\ \A n \in 1 .. N : g[n] = ReadSheets(sheets(r, n))
      BY <1>4, <2>1
    <2> QED
      BY <1>2, <2>1, <2>2, Zenon
  <1>6. D \in [Ranks -> Seq(Seq(Cells))]
    <2>1. \A r \in Ranks : D[r] \in Seq(Seq(Cells))
      BY <1>5, Zenon
    <2> QED
      BY <1>b, <2>1
  <1>7. Even(D)
    BY <1>5, RankZero DEF Even
  <1>8. ASSUME NEW r \in Ranks, NEW q \in Ranks, NEW n \in 1 .. N, NEW m \in 1 .. N,
               NEW i \in 1 .. Len(ReadSheets(sheets(r, n))), NEW j \in 1 .. Len(ReadSheets(sheets(q, m))),
               ReadSheets(sheets(r, n))[i] = ReadSheets(sheets(q, m))[j]
        PROVE  r = q /\ n = m /\ i = j
    <2> DEFINE x == sheets(r, n)
               y == sheets(q, m)
    <2>1. x \in Seq(SheetSet) /\ y \in Seq(SheetSet) /\ Len(x) = T /\ Len(y) = T
      BY <1>3, Zenon
    <2>2. i \in 1 .. Len(ReadSheets(x)) /\ j \in 1 .. Len(ReadSheets(y)) /\ ReadSheets(x)[i] = ReadSheets(y)[j]
      BY <1>8
    <2> HIDE DEF x, y
    <2>3. PICK k \in 1 .. Len(x), l \in 1 .. Len(y) : Meets(x[k], y[l]) /\ (x = y /\ k = l => i = j)
      BY ZenonT(60), <2>1, <2>2, ReadApart
    <2>4. k \in 1 .. T /\ l \in 1 .. T
      BY <2>1, <2>3, Zenon
    <2>5. /\ (n - 1) * T + k \in 1 .. Len(P[r]) /\ x[k] = P[r][(n - 1) * T + k]
          /\ (m - 1) * T + l \in 1 .. Len(P[q]) /\ y[l] = P[q][(m - 1) * T + l]
      BY <1>3, <2>4, Zenon DEF x, y
    <2>6. r = q /\ (n - 1) * T + k = (m - 1) * T + l
      <3>1. PICK a, b : a = (n - 1) * T + k /\ b = (m - 1) * T + l
        OBVIOUS
      <3>2. a \in 1 .. Len(P[r]) /\ b \in 1 .. Len(P[q]) /\ Meets(P[r][a], P[q][b])
        BY <2>3, <2>5, <3>1, Zenon
      <3>3. r = q /\ a = b
        BY <1>a, <3>2 DEF PathsGood
      <3> QED
        BY <3>1, <3>3, Zenon
    <2>7. n = m /\ k = l
      <3>1. PICK e \in Int, f \in Int : e = n - 1 /\ f = m - 1
        OBVIOUS
      <3>2. k - 1 \in 0 .. (T - 1) /\ l - 1 \in 0 .. (T - 1)
        BY <1>0, <2>4
      <3>3. PICK a \in Int, b \in Int : a = e * T /\ b = f * T
        BY <1>0, Z3
      <3>4. a + k = b + l
        BY <2>6, <3>1, <3>3
      <3>5. a + (k - 1) = b + (l - 1)
        <4>1. k \in Int /\ l \in Int
          BY <2>4
        <4> QED
          BY <3>4, <4>1
      <3>a. PICK c \in 0 .. (T - 1), d \in 0 .. (T - 1) : c = k - 1 /\ d = l - 1
        BY <3>2
      <3>b. e * T + c = f * T + d /\ T \in Nat \ {0} /\ e \in Int /\ f \in Int
        BY <1>0, <3>1, <3>3, <3>5, <3>a, Zenon
      <3>c. e = f /\ c = d
        BY <3>a, <3>b, SameQuotient
      <3>6. e = f /\ k - 1 = l - 1
        BY <3>a, <3>c
      <3> QED
        BY <2>4, <3>1, <3>6
    <2>8. x = y
      BY <2>6, <2>7 DEF x, y
    <2> QED
      BY <2>3, <2>6, <2>7, <2>8
  <1>9. Apart(D)
    <2> SUFFICES ASSUME NEW r \in Ranks, NEW q \in Ranks, NEW n \in 1 .. Len(D[r]), NEW m \in 1 .. Len(D[q]),
                        NEW i \in 1 .. Len(D[r][n]), NEW j \in 1 .. Len(D[q][m]), D[r][n][i] = D[q][m][j]
                 PROVE  r = q /\ n = m /\ i = j
      BY Zenon DEF Apart
    <2>1. n \in 1 .. N /\ m \in 1 .. N
      BY <1>5, Zenon
    <2>2. D[r][n] = ReadSheets(sheets(r, n)) /\ D[q][m] = ReadSheets(sheets(q, m))
      BY <1>5, <2>1, Zenon
    <2>3. /\ i \in 1 .. Len(ReadSheets(sheets(r, n))) /\ j \in 1 .. Len(ReadSheets(sheets(q, m)))
          /\ ReadSheets(sheets(r, n))[i] = ReadSheets(sheets(q, m))[j]
      BY <2>2, Zenon
    <2> QED
      BY <1>8, <2>1, <2>3
  <1>10. GoodData(D)
    BY <1>6, <1>7, <1>9 DEF GoodData
  <1> QED
    BY <1>10 DEF D

\* The sheets of table t, m for every worker, have no row in common.
TableGood(sheets, t, m) ==
    /\ sheets \in Seq(SheetSet) /\ m \in Nat /\ Len(sheets) = m * WorkerNum
    /\ \A a \in 1 .. Len(sheets) : sheets[a].table = t
    /\ \A a, b \in 1 .. Len(sheets) : Meets(sheets[a], sheets[b]) => a = b

\* What two workers take of them.
TakenApart(x, y, t, m, same) ==
    /\ x \in Seq(SheetSet) /\ Len(x) = m /\ y \in Seq(SheetSet) /\ Len(y) = m
    /\ \A k \in 1 .. m : x[k].table = t /\ y[k].table = t
    /\ \A k, l \in 1 .. m : Meets(x[k], y[l]) => same /\ k = l

LEMMA StridesGood ==
  ASSUME NEW sheets, NEW t, NEW m, TableGood(sheets, t, m), NEW w \in Ranks, NEW v \in Ranks
  PROVE  TakenApart(Stride(sheets, w), Stride(sheets, v), t, m, w = v)
  <1> DEFINE x == Stride(sheets, w)
             y == Stride(sheets, v)
             at(r, k) == r + (k - 1) * WorkerNum + 1
  <1>0. sheets \in Seq(SheetSet) /\ m \in Nat /\ Len(sheets) = m * WorkerNum
    BY DEF TableGood
  <1>1. x \in Seq(SheetSet) /\ Len(x) = m /\ \A k \in 1 .. m : at(w, k) \in 1 .. Len(sheets) /\ x[k] = sheets[at(w, k)]
    BY SMTT(45), <1>0, StrideFacts
  <1>2. y \in Seq(SheetSet) /\ Len(y) = m /\ \A k \in 1 .. m : at(v, k) \in 1 .. Len(sheets) /\ y[k] = sheets[at(v, k)]
    BY <1>0, StrideFacts
  <1>a. ASSUME NEW k \in 1 .. m, NEW l \in 1 .. m, at(w, k) = at(v, l) PROVE w = v /\ k = l
    <2>1. k \in Nat \ {0} /\ l \in Nat \ {0}
      BY <1>0
    <2> QED
      BY <1>a, <2>1, StridesApart
  <1> HIDE DEF x, y, at
  <1>3. \A k \in 1 .. m : x[k].table = t /\ y[k].table = t
    BY <1>1, <1>2 DEF TableGood
  <1>4. ASSUME NEW k \in 1 .. m, NEW l \in 1 .. m, Meets(x[k], y[l]) PROVE w = v /\ k = l
    <2>1. Meets(sheets[at(w, k)], sheets[at(v, l)]) /\ at(w, k) \in 1 .. Len(sheets) /\ at(v, l) \in 1 .. Len(sheets)
      BY <1>1, <1>2, <1>4, Zenon
    <2>2. at(w, k) = at(v, l)
      BY <2>1, Zenon DEF TableGood
    <2> QED
      BY <1>a, <2>2
  <1>5. TakenApart(x, y, t, m, w = v)
    BY <1>1, <1>2, <1>3, <1>4 DEF TakenApart
  <1> QED
    BY <1>5 DEF x, y

----------------------------------------------------------------------------
(* row_num.                                                                 *)

ChunkRows == RowNum * WorkerNum

\* A chunk begins in its table.
LEMMA ChunkBegins ==
  ASSUME NEW rows \in Nat, NEW c \in 1 .. CeilDiv(rows, ChunkRows)
  PROVE  /\ ChunkRows \in Nat \ {0} /\ CeilDiv(rows, ChunkRows) \in Nat
         /\ (c - 1) * ChunkRows \in Nat /\ (c - 1) * ChunkRows <= rows
         /\ (c - 1) * ChunkRows + ChunkRows = c * ChunkRows
  <1> DEFINE h == ChunkRows
             q == rows + h - 1
             k == q \div h
  <1>0. h \in Nat \ {0}
    <2>1. RowNum \in Nat \ {0} /\ WorkerNum \in Nat \ {0}
      BY SizesGiven
    <2> QED
      BY <2>1, Z3 DEF ChunkRows
  <1> HIDE DEF h
  <1>1. q \in Nat /\ q \in Int
    BY <1>0
  <1>2. CeilDiv(rows, h) = k
    BY DEF CeilDiv
  <1>3. k \in Nat /\ (q % h) \in Nat /\ q = k * h + (q % h)
    <2> HIDE DEF q
    <2>1. k \in Nat /\ (q % h) \in 0 .. (h - 1) /\ q = k * h + (q % h)
      BY <1>0, <1>1, DivisionFacts, Zenon
    <2> QED
      BY <1>0, <2>1
  <1>4. c \in 1 .. k
    BY <1>2 DEF h
  <1> HIDE DEF k
  <1>5. c - 1 \in Nat /\ (c - 1) + 1 = c /\ c <= k /\ c \in Nat
    BY <1>3, <1>4
  <1>6. PICK x \in Nat : x = (c - 1) * h
    BY <1>0, <1>5, ProductNat
  <1>7. c * h = x + h
    <2>1. ((c - 1) + 1) * h = (c - 1) * h + h
      BY <1>0, <1>5, Distribute
    <2> QED
      BY <1>5, <1>6, <2>1
  <1>8. x <= rows
    <2>1. c * h <= k * h
      BY <1>0, <1>3, <1>5, ProductsOrdered
    <2>2. PICK y \in Nat : y = k * h
      BY <1>0, <1>3, ProductNat
    <2>3. x + h <= y /\ q = y + (q % h)
      BY <1>3, <1>7, <2>1, <2>2, Zenon
    <2>4. PICK z \in Nat : z = q % h
      BY <1>3
    <2>5. rows + h - 1 = y + z
      BY <2>3, <2>4
    <2> QED
      BY <1>0, <2>3, <2>5
  <1> QED
    BY <1>0, <1>2, <1>3, <1>6, <1>7, <1>8 DEF h

\* The sheets of a table, chunk after chunk.
RowSheets(t, threads) ==
    LET num == WorkerNum * threads
    IN  [c \in 1 .. CeilDiv(Tables[t], ChunkRows) |->
            BuildShard(t, (c - 1) * ChunkRows, Min({ChunkRows, Tables[t] - (c - 1) * ChunkRows}), num,
                       ((c - 1) * ChunkRows) % num)]

LEMMA RowTableGood ==
  ASSUME NEW t \in DOMAIN Tables, NEW threads \in Nat \ {0}
  PROVE  \E m \in Nat : TableGood(FlattenSeq(RowSheets(t, threads)), t, m)
  <1> DEFINE rows == Tables[t]
             h == ChunkRows
             num == WorkerNum * threads
             n == CeilDiv(rows, h)
             from(c) == (c - 1) * h
             p == RowSheets(t, threads)
             F == FlattenSeq(p)
  <1>0. t \in Nat /\ rows \in Nat /\ WorkerNum \in Nat \ {0} /\ num \in Nat \ {0}
    <2>1. t \in 1 .. Len(Tables) /\ Tables \in Seq(Nat) /\ WorkerNum \in Nat \ {0}
      BY SizesGiven
    <2>2. num \in Nat \ {0}
      BY <2>1, Z3
    <2> QED
      BY <2>1, <2>2
  <1>1. p = [c \in 1 .. n |-> BuildShard(t, from(c), Min({h, rows - from(c)}), num, from(c) % num)]
    BY DEF RowSheets
  <1> HIDE DEF p, num, rows
  <1>2. ASSUME NEW c \in 1 .. n
        PROVE  n \in Nat /\ h \in Nat \ {0} /\ from(c) \in Nat /\ from(c) <= rows /\ from(c) + h = c * h
    BY <1>0, ChunkBegins
  <1> HIDE DEF h, n, from
  <1>3. ASSUME NEW c \in 1 .. n
        PROVE  /\ p[c] \in Seq(SheetSet) /\ Len(p[c]) = num /\ from(c) \in Nat /\ from(c) + h \in Nat
               /\ InOrder(p[c], t, from(c), from(c) + h)
    <2>0. h \in Nat \ {0} /\ from(c) \in Nat /\ from(c) <= rows
      BY <1>2
    <2>1. PICK len \in Nat : len = Min({h, rows - from(c)}) /\ len <= h
      <3>1. h \in Int /\ rows - from(c) \in Nat /\ h \in Nat
        BY <1>0, <2>0
      <3>2. PICK z \in Nat : z = rows - from(c)
        BY <3>1
      <3>3. Min({h, z}) = IF h <= z THEN h ELSE z
        BY <3>1, SmallerOf
      <3>4. Min({h, z}) \in Nat /\ Min({h, z}) <= h
        BY <3>1, <3>3
      <3> QED
        BY <3>2, <3>4
    <2>2. PICK extra \in Nat : extra = from(c) % num
      <3>1. from(c) \in Int
        BY <2>0
      <3>2. (from(c) % num) \in 0 .. (num - 1)
        BY <1>0, <3>1, DivisionFacts, Zenon
      <3> QED
        BY <1>0, <3>2
    <2>3. p[c] = BuildShard(t, from(c), len, num, extra)
      BY <1>1, <2>1, <2>2, Zenon
    <2>4. InOrder(p[c], t, from(c), from(c) + len) /\ Len(p[c]) = num
      <3>1. PICK b \in Nat : b = from(c)
        BY <2>0
      <3>2. t \in Nat /\ num \in Nat
        BY <1>0
      <3>3. InOrder(BuildShard(t, b, len, num, extra), t, b, b + len) /\ Len(BuildShard(t, b, len, num, extra)) = num
        <4>1. PICK nn \in Nat : nn = num
          BY <3>2
        <4>2. InOrder(BuildShard(t, b, len, nn, extra), t, b, b + len)
          BY <3>2, BuildFacts
        <4>3. Len(BuildShard(t, b, len, nn, extra)) = nn
          BY DEF BuildShard
        <4> QED
          BY <4>1, <4>2, <4>3, Zenon
      <3> QED
        BY <2>3, <3>1, <3>3, Zenon
    <2>5. p[c] \in Seq(SheetSet)
      BY <2>4 DEF InOrder
    <2>6. \A i \in 1 .. Len(p[c]) : p[c][i].end <= from(c) + h
      <3> TAKE i \in 1 .. Len(p[c])
      <3>1. p[c][i] \in SheetSet
        BY <2>5
      <3>2. PICK e \in Nat : e = p[c][i].end
        BY <3>1 DEF SheetSet
      <3>3. e <= from(c) + len
        BY <2>4, <3>2, Zenon DEF InOrder
      <3>4. e <= from(c) + h
        BY <2>0, <2>1, <3>3
      <3> QED
        BY <3>2, <3>4
    <2>7. InOrder(p[c], t, from(c), from(c) + h)
      BY <2>4, <2>6 DEF InOrder
    <2> QED
      BY <2>0, <2>4, <2>5, <2>7
  <1>4. p \in Seq(Seq(SheetSet)) /\ Len(p) = n /\ n \in Nat
    <2>1. n \in Nat
      <3>1. h \in Nat \ {0}
        <4>1. RowNum \in Nat \ {0} /\ WorkerNum \in Nat \ {0}
          BY SizesGiven
        <4> QED
          BY <4>1, Z3 DEF h, ChunkRows
      <3>2. PICK q \in Nat : q = rows + h - 1
        BY <1>0, <3>1
      <3>3. q \in Int /\ n = q \div h
        BY <3>2 DEF n, CeilDiv
      <3> QED
        BY <3>1, <3>2, <3>3, DivisionFacts
    <2>2. p = [c \in 1 .. n |-> p[c]] /\ \A c \in 1 .. n : p[c] \in Seq(SheetSet)
      BY <1>1, <1>3
    <2> QED
      BY <2>1, <2>2
  <1>5. F \in Seq(SheetSet) /\ Len(F) = n * num
    <2>1. \A c \in 1 .. Len(p) : Len(p[c]) = num
      BY <1>3, <1>4
    <2>2. num \in Nat
      BY <1>0
    <2>3. Len(F) = Len(p) * num
      BY <1>4, <2>1, <2>2, FlattenUniform
    <2> QED
      BY <1>4, <2>3, FlattenLays
  <1>6. ASSUME NEW a \in 1 .. Len(F), NEW b \in 1 .. Len(F)
        PROVE  F[a].table = t /\ (Meets(F[a], F[b]) => a = b)
    <2>1. FromPlaces(p, p, a, b)
      BY <1>4, FlattenApart
    <2>2. PICK k \in 1 .. n, l \in 1 .. n : \E i \in 1 .. Len(p[k]), j \in 1 .. Len(p[l]) :
            /\ F[a] = p[k][i] /\ F[b] = p[l][j]
            /\ p = p /\ k = l /\ i = j => a = b
      BY <1>4, <2>1, Zenon DEF FromPlaces
    <2>3. PICK i \in 1 .. Len(p[k]), j \in 1 .. Len(p[l]) :
            F[a] = p[k][i] /\ F[b] = p[l][j] /\ (k = l /\ i = j => a = b)
      BY <2>2
    <2> HIDE DEF F
    <2>4. F[a].table = t
      BY <1>3, <2>3, Zenon DEF InOrder
    <2>5. ASSUME Meets(F[a], F[b]) PROVE a = b
      <3>1. PICK z \in Nat : p[k][i].start <= z /\ z < p[k][i].end /\ p[l][j].start <= z /\ z < p[l][j].end
        BY <2>3, <2>5, Zenon DEF Meets
      <3>2. p[k][i] \in SheetSet /\ p[l][j] \in SheetSet
        <4>1. p[k] \in Seq(SheetSet) /\ p[l] \in Seq(SheetSet)
          BY <1>3
        <4> QED
          BY <2>3, <4>1
      <3>3. PICK e \in Nat, f \in Nat, g \in Nat, d \in Nat :
              e = p[k][i].start /\ f = p[k][i].end /\ g = p[l][j].start /\ d = p[l][j].end
        BY <3>2 DEF SheetSet
      <3>4. from(k) <= e /\ f <= from(k) + h /\ from(l) <= g /\ d <= from(l) + h
        BY <1>3, <2>3, <3>3, Zenon DEF InOrder
      <3>5. e <= z /\ z < f /\ g <= z /\ z < d
        BY <3>1, <3>3, Zenon
      <3>6. from(k) \in Nat /\ from(l) \in Nat /\ h \in Nat
        BY <1>2
      <3>7. from(k) < from(l) + h /\ from(l) < from(k) + h
        BY SMTT(45), <3>4, <3>5, <3>6
      <3>8. k = l
        <4>1. from(k) < l * h /\ from(l) < k * h
          BY <1>2, <3>7
        <4>2. (k - 1) * h < l * h /\ (l - 1) * h < k * h
          BY <4>1 DEF from
        <4>3. k - 1 \in Int /\ l - 1 \in Int /\ k \in Int /\ l \in Int
          BY <1>4
        <4>4. k - 1 < l /\ l - 1 < k
          BY <3>6, <4>2, <4>3, ProductsOrdered
        <4> QED
          BY <4>3, <4>4
      <3>9. i = j
        <4>1. Meets(p[k][i], p[k][j]) /\ i \in 1 .. Len(p[k]) /\ j \in 1 .. Len(p[k])
          BY <2>3, <2>5, <3>8, Zenon
        <4>2. InOrder(p[k], t, from(k), from(k) + h) /\ from(k) \in Nat /\ from(k) + h \in Nat
          BY <1>3
        <4> QED
          BY <4>1, <4>2, InOrderApart
      <3> QED
        BY <2>3, <3>8, <3>9
    <2> QED
      BY <2>4, <2>5
  <1>7. PICK m \in Nat : n * num = m * WorkerNum
    <2>1. n * threads \in Nat
      BY <1>4, ProductNat
    <2>2. n * num = (n * threads) * WorkerNum
      BY <1>0, <1>4, Z3 DEF num
    <2> QED
      BY <2>1, <2>2
  <1>8. TableGood(F, t, m)
    <2> HIDE DEF F
    <2>1. Len(F) = m * WorkerNum
      BY <1>5, <1>7, Zenon
    <2> QED
      BY <1>5, <1>6, <2>1, Zenon DEF TableGood
  <1> QED
    BY <1>8, Zenon DEF F, p

\* Parts of the paths of all ranks: as long for one rank as for the other, and
\* no two sheets with a row in common.
PartsGood(p) ==
    /\ p \in [Ranks -> Seq(Seq(SheetSet))]
    /\ \A r \in Ranks : Len(p[r]) = Len(p[0]) /\ \A k \in 1 .. Len(p[0]) : Len(p[r][k]) = Len(p[0][k])
    /\ \A r, q \in Ranks : \A k \in 1 .. Len(p[r]), l \in 1 .. Len(p[q]) :
         \A i \in 1 .. Len(p[r][k]), j \in 1 .. Len(p[q][l]) :
            Meets(p[r][k][i], p[q][l][j]) => r = q /\ k = l /\ i = j

LEMMA GoodPartsGoodPaths ==
  ASSUME NEW p, PartsGood(p)
  PROVE  PathsGood([r \in Ranks |-> FlattenSeq(p[r])])
  <1> DEFINE P == [r \in Ranks |-> FlattenSeq(p[r])]
  <1>1. \A r \in Ranks : p[r] \in Seq(Seq(SheetSet))
    BY DEF PartsGood
  <1>2. \A r \in Ranks : P[r] = FlattenSeq(p[r])
    OBVIOUS
  <1>3. P \in [Ranks -> Seq(SheetSet)]
    <2>1. \A r \in Ranks : FlattenSeq(p[r]) \in Seq(SheetSet)
      BY <1>1, FlattenLays
    <2> QED
      BY <2>1
  <1> HIDE DEF P
  <1>4. ASSUME NEW r \in Ranks PROVE Len(P[r]) = Len(P[0])
    <2>1. Len(p[r]) = Len(p[0]) /\ \A k \in 1 .. Len(p[r]) : Len(p[r][k]) = Len(p[0][k])
      BY DEF PartsGood
    <2>2. Len(FlattenSeq(p[r])) = Len(FlattenSeq(p[0]))
      BY <1>1, <2>1, RankZero, FlattenLengths
    <2> QED
      BY <1>2, <2>2, RankZero
  <1>5. ASSUME NEW r \in Ranks, NEW q \in Ranks, NEW a \in 1 .. Len(P[r]), NEW b \in 1 .. Len(P[q]),
               Meets(P[r][a], P[q][b])
        PROVE  r = q /\ a = b
    <2> DEFINE x == p[r]
               y == p[q]
    <2>1. x \in Seq(Seq(SheetSet)) /\ y \in Seq(Seq(SheetSet)) /\ P[r] = FlattenSeq(x) /\ P[q] = FlattenSeq(y)
      BY <1>1, <1>2
    <2> HIDE DEF x, y
    <2>2. a \in 1 .. Len(FlattenSeq(x)) /\ b \in 1 .. Len(FlattenSeq(y))
      BY <2>1, Zenon
    <2>3. FromPlaces(x, y, a, b)
      BY <2>1, <2>2, FlattenApart
    <2>4. PICK k \in 1 .. Len(x), l \in 1 .. Len(y) : \E i \in 1 .. Len(x[k]), j \in 1 .. Len(y[l]) :
            P[r][a] = x[k][i] /\ P[q][b] = y[l][j] /\ (x = y /\ k = l /\ i = j => a = b)
      BY <2>1, <2>3, Zenon DEF FromPlaces
    <2>5. PICK i \in 1 .. Len(x[k]), j \in 1 .. Len(y[l]) :
            P[r][a] = x[k][i] /\ P[q][b] = y[l][j] /\ (x = y /\ k = l /\ i = j => a = b)
      BY <2>4
    <2>6. Meets(x[k][i], y[l][j])
      BY <1>5, <2>5, Zenon
    <2>7. r = q /\ k = l /\ i = j
      BY <2>6 DEF PartsGood, x, y
    <2> QED
      BY <2>5, <2>7 DEF x, y
  <1>6. PathsGood(P)
    BY <1>3, <1>4, <1>5 DEF PathsGood
  <1> QED
    BY <1>6 DEF P

LEMMA RowPathsGood == PathsGood([r \in Ranks |-> WindowPaths("row", r)])
  <1> DEFINE T == WindowThreads
             N == Len(Tables)
             F(t) == FlattenSeq(RowSheets(t, T))
             p == [r \in Ranks |-> [t \in 1 .. N |-> Stride(F(t), r)]]
  <1>0. T \in Nat \ {0} /\ N \in Nat /\ DOMAIN Tables = 1 .. N /\ 1 .. N \subseteq Nat
    BY SizesGiven, ThreadsFacts
  <1>1. \A r \in Ranks : WindowPaths("row", r) = FlattenSeq(p[r])
    <2> TAKE r \in Ranks
    <2>1. \A t : ShardSheetsByRowNum(t, r, T) = Stride(F(t), r)
      BY DEF ShardSheetsByRowNum, RowSheets, ChunkRows
    <2>2. WindowPaths("row", r) = FlattenSeq([t \in DOMAIN Tables |-> ShardSheetsByRowNum(t, r, T)])
      BY DEF WindowPaths, WindowPathsByRow
    <2>3. p[r] = [t \in DOMAIN Tables |-> ShardSheetsByRowNum(t, r, T)]
      BY <1>0, <2>1
    <2> QED
      BY <2>2, <2>3, Zenon
  <1> HIDE DEF T, N, F
  <1>2. \A t \in 1 .. N : \E m \in Nat : TableGood(F(t), t, m)
    BY <1>0, RowTableGood DEF F
  <1>3. \A t \in 1 .. N : \E m \in Nat : \A r, q \in Ranks : TakenApart(Stride(F(t), r), Stride(F(t), q), t, m, r = q)
    <2> TAKE t \in 1 .. N
    <2>1. PICK m \in Nat : TableGood(F(t), t, m)
      BY <1>2
    <2>2. \A r, q \in Ranks : TakenApart(Stride(F(t), r), Stride(F(t), q), t, m, r = q)
      BY <2>1, StridesGood
    <2> QED
      BY <2>2
  <1>4. ASSUME NEW r \in Ranks
        PROVE  p[r] \in Seq(Seq(SheetSet)) /\ Len(p[r]) = N /\ \A t \in 1 .. N : p[r][t] = Stride(F(t), r)
    <2>1. \A t \in 1 .. N : Stride(F(t), r) \in Seq(SheetSet)
      BY <1>3 DEF TakenApart
    <2>2. p[r] = [t \in 1 .. N |-> Stride(F(t), r)]
      OBVIOUS
    <2>3. PICK g : g = p[r]
      OBVIOUS
    <2> HIDE DEF p
    <2>4. g = [t \in 1 .. N |-> Stride(F(t), r)]
      BY <2>2, <2>3, Zenon
    <2>5. g \in Seq(Seq(SheetSet)) /\ Len(g) = N /\ \A t \in 1 .. N : g[t] = Stride(F(t), r)
      BY <1>0, <2>1, <2>4
    <2> QED
      BY <2>3, <2>5, Zenon
  <1>5. p = [r \in Ranks |-> p[r]]
    OBVIOUS
  <1> HIDE DEF p
  <1>6. PartsGood(p)
    <2>1. p \in [Ranks -> Seq(Seq(SheetSet))]
      <3>1. \A r \in Ranks : p[r] \in Seq(Seq(SheetSet))
        BY <1>4, Zenon
      <3> QED
        BY <1>5, <3>1
    <2>2. ASSUME NEW r \in Ranks PROVE Len(p[r]) = Len(p[0]) /\ \A t \in 1 .. Len(p[0]) : Len(p[r][t]) = Len(p[0][t])
      <3>1. Len(p[r]) = N /\ Len(p[0]) = N
        BY <1>4, RankZero
      <3>2. ASSUME NEW t \in 1 .. N PROVE Len(p[r][t]) = Len(p[0][t])
        <4>1. PICK m \in Nat : TakenApart(Stride(F(t), r), Stride(F(t), 0), t, m, r = 0)
          BY <1>3, RankZero, Zenon
        <4>2. p[r][t] = Stride(F(t), r) /\ p[0][t] = Stride(F(t), 0)
          BY <1>4, RankZero, Zenon
        <4> QED
          BY <4>1, <4>2, Zenon DEF TakenApart
      <3> QED
        BY <3>1, <3>2
    <2>3. ASSUME NEW r \in Ranks, NEW q \in Ranks, NEW t \in 1 .. Len(p[r]), NEW s \in 1 .. Len(p[q]),
                 NEW i \in 1 .. Len(p[r][t]), NEW j \in 1 .. Len(p[q][s]), Meets(p[r][t][i], p[q][s][j])
          PROVE  r = q /\ t = s /\ i = j
      <3>1. t \in 1 .. N /\ s \in 1 .. N
        BY <1>4, Zenon
      <3>2. p[r][t] = Stride(F(t), r) /\ p[q][s] = Stride(F(s), q) /\ p[q][t] = Stride(F(t), q)
        BY <1>4, <3>1, Zenon
      <3>a. PICK m \in Nat : \A e, f \in Ranks : TakenApart(Stride(F(t), e), Stride(F(t), f), t, m, e = f)
        BY <1>3, <3>1
      <3>b. PICK c \in Nat : \A e, f \in Ranks : TakenApart(Stride(F(s), e), Stride(F(s), f), s, c, e = f)
        BY <1>3, <3>1
      <3>c. TakenApart(Stride(F(t), r), Stride(F(t), q), t, m, r = q) /\ TakenApart(Stride(F(s), q), Stride(F(s), q), s, c, q = q)
        BY <3>a, <3>b
      <3>3. TakenApart(p[r][t], p[q][t], t, m, r = q)
        BY <3>2, <3>c
      <3>4. TakenApart(p[q][s], p[q][s], s, c, q = q)
        BY <3>2, <3>c
      <3>5. p[r][t][i].table = t
        BY <3>3, Zenon DEF TakenApart
      <3>6. p[q][s][j].table = s
        BY <3>4, Zenon DEF TakenApart
      <3>7. t = s
        BY <2>3, <3>5, <3>6, Zenon DEF Meets
      <3>8. i \in 1 .. m /\ j \in 1 .. m /\ Meets(p[r][t][i], p[q][t][j])
        BY <2>3, <3>3, <3>7, Zenon DEF TakenApart
      <3>9. r = q /\ i = j
        BY <3>3, <3>8 DEF TakenApart
      <3> QED
        BY <3>7, <3>9
    <2> QED
      BY <2>1, <2>2, <2>3 DEF PartsGood
  <1>7. PathsGood([r \in Ranks |-> FlattenSeq(p[r])])
    BY <1>6, GoodPartsGoodPaths
  <1>8. [r \in Ranks |-> WindowPaths("row", r)] = [r \in Ranks |-> FlattenSeq(p[r])]
    BY <1>1
  <1> QED
    BY <1>7, <1>8, Zenon

\* Groups of paths, and the threads of a path.
LEMMA GroupFacts ==
  /\ GroupSize \in Nat \ {0}
  /\ \A t \in Nat \ {0} : PathThreads(t) \in Nat
  <1> DEFINE Q == {n \in DOMAIN Proportions : Parts[n] >= Total}
             N == Len(Proportions)
  <1>0. Total \in Nat \ {0} /\ CeilDiv(ReadThreadsNum, Total) \in Nat
    BY ThreadsFacts
  <1>1. /\ Proportions \in Seq(Nat \X (Nat \ {0})) /\ N \in Nat /\ DOMAIN Proportions = 1 .. N
        /\ \A i \in 1 .. N : Proportions[i] \in Nat \X (Nat \ {0})
    <2>1. Proportions \in Seq(Nat \X (Nat \ {0}))
      BY ZenonT(60), WindowAssumption
    <2> QED
      BY <2>1
  <1>2. Q # {} /\ Q \subseteq 1 .. N
    <2>1. PICK n \in DOMAIN Proportions : Parts[n] = Total
      BY LoopAssumption DEF ProportionsValid
    <2>2. Parts[n] >= Total
      BY <1>0, <2>1
    <2> QED
      BY <1>1, <2>2
  <1>3. GroupSize \in Q
    <2>1. Q \subseteq Nat
      BY <1>2
    <2> HIDE DEF Q
    <2>2. \E m \in Q : \A n \in Q : m <= n
      BY <1>2, <2>1, LeastNatural
    <2>3. GroupSize = Min(Q)
      BY DEF GroupSize, Q
    <2> QED
      BY <2>2, <2>3 DEF Min
  <1>4. GroupSize \in 1 .. N /\ GroupSize \in Nat \ {0}
    <2> HIDE DEF Q, N
    <2>1. GroupSize \in 1 .. N
      BY <1>2, <1>3
    <2> QED
      BY <1>1, <2>1
  <1>5. ASSUME NEW t \in Nat \ {0} PROVE PathThreads(t) \in Nat
    <2>1. PICK k \in Int : k = ((t - 1) % GroupSize) + 1 /\ k \in 1 .. GroupSize
      <3>1. t - 1 \in Int
        OBVIOUS
      <3>2. ((t - 1) % GroupSize) \in 0 .. (GroupSize - 1)
        BY <1>4, <3>1, DivisionFacts, Zenon
      <3> QED
        BY <1>4, <3>2
    <2>2. k \in 1 .. N
      BY <1>1, <1>4, <2>1
    <2>3. Proportions[k][1] \in Nat
      BY <1>1, <2>2
    <2>4. PathThreads(t) = CeilDiv(ReadThreadsNum, Total) * Proportions[k][1]
      BY <2>1 DEF PathThreads, ThreadNums
    <2> QED
      BY <1>0, <2>3, <2>4, ProductNat
  <1> QED
    BY <1>4, <1>5

\* The sheets of a path, and their split between workers and splits.
SplitSheets(t) == BuildShard(t, 0, Tables[t], WorkerNum * PathThreads(t) * SplitNum, 0)

LEMMA SplitTableGood ==
  ASSUME NEW t \in DOMAIN Tables
  PROVE  TableGood(SplitSheets(t), t, PathThreads(t) * SplitNum)
  <1> DEFINE th == PathThreads(t)
             m == th * SplitNum
             F == SplitSheets(t)
             num == WorkerNum * th * SplitNum
             rows == Tables[t]
  <1>0. t \in Nat \ {0} /\ rows \in Nat /\ WorkerNum \in Nat /\ SplitNum \in Nat /\ 0 \in Nat
    <2>1. WorkerNum \in Nat /\ SplitNum \in Nat /\ Tables \in Seq(Nat)
      BY SizesGiven
    <2>2. t \in 1 .. Len(Tables)
      BY <2>1
    <2> QED
      BY <2>1, <2>2
  <1>1. th \in Nat
    BY <1>0, GroupFacts
  <1> HIDE DEF th, rows
  <1>2. m \in Nat /\ num \in Nat /\ num = m * WorkerNum
    <2>1. m \in Nat
      BY <1>0, <1>1, ProductNat
    <2>2. num = m * WorkerNum
      BY <1>0, <1>1, Z3
    <2> QED
      BY <1>0, <2>1, <2>2, ProductNat
  <1> HIDE DEF m, num
  <1>3. F = BuildShard(t, 0, rows, num, 0)
    BY DEF SplitSheets, num, th, rows
  <1> HIDE DEF F
  <1>4. InOrder(F, t, 0, 0 + rows)
    <2>1. PICK n \in Nat : n = num
      BY <1>2
    <2>2. t \in Nat
      BY <1>0
    <2>3. PICK e \in Nat : e = rows
      BY <1>0
    <2>4. InOrder(BuildShard(t, 0, e, n, 0), t, 0, 0 + e)
      BY <2>2, BuildFacts
    <2> QED
      BY <1>3, <2>1, <2>3, <2>4, Zenon
  <1>5. Len(F) = num
    BY <1>2, <1>3 DEF BuildShard
  <1>6. F \in Seq(SheetSet) /\ \A a \in 1 .. Len(F) : F[a].table = t
    BY <1>4 DEF InOrder
  <1>7. \A a, b \in 1 .. Len(F) : Meets(F[a], F[b]) => a = b
    <2>1. 0 \in Nat /\ 0 + rows \in Nat
      BY <1>0
    <2> QED
      BY <1>4, <2>1, InOrderApart
  <1>8. TableGood(F, t, m)
    BY <1>2, <1>5, <1>6, <1>7, Zenon DEF TableGood
  <1> QED
    BY <1>8 DEF F, m, th

LEMMA SplitFacts ==
  ASSUME NEW t \in DOMAIN Tables, NEW w \in Ranks, NEW i \in 1 .. SplitNum
  PROVE  /\ PathSplit(t, w, i) \in Seq(SheetSet) /\ Len(PathSplit(t, w, i)) = PathThreads(t) /\ PathThreads(t) \in Nat
         /\ \A c \in 1 .. PathThreads(t) :
              /\ (i - 1) * PathThreads(t) + c \in 1 .. PathThreads(t) * SplitNum
              /\ PathSplit(t, w, i)[c] = Stride(SplitSheets(t), w)[(i - 1) * PathThreads(t) + c]
              /\ PathSplit(t, w, i)[c].table = t
  <1> DEFINE th == PathThreads(t)
             m == th * SplitNum
             s == Stride(SplitSheets(t), w)
             b == PathSplit(t, w, i)
  <1>0. th \in Nat /\ SplitNum \in Nat
    <2>1. t \in Nat \ {0} /\ SplitNum \in Nat
      <3>1. SplitNum \in Nat /\ Tables \in Seq(Nat)
        BY SizesGiven
      <3>2. t \in 1 .. Len(Tables)
        BY <3>1
      <3> QED
        BY <3>1, <3>2
    <2> QED
      BY <2>1, GroupFacts
  <1>1. TakenApart(s, s, t, m, w = w)
    BY SplitTableGood, StridesGood
  <1>2. b = SubSeq(s, (i - 1) * th + 1, i * th)
    BY DEF PathSplit, ShardSheetsBySplitNum, SplitSheets
  <1> HIDE DEF th, s, b
  <1>3. s \in Seq(SheetSet) /\ Len(s) = m /\ \A k \in 1 .. m : s[k].table = t
    BY <1>1 DEF TakenApart
  <1>4. i - 1 \in Nat /\ (i - 1) + 1 = i /\ i \in Nat /\ i <= SplitNum
    BY <1>0
  <1>5. PICK x \in Nat : x = (i - 1) * th
    BY <1>0, <1>4, ProductNat
  <1>6. i * th = x + th
    <2>1. ((i - 1) + 1) * th = (i - 1) * th + th
      BY <1>0, <1>4, Distribute
    <2> QED
      BY <1>4, <1>5, <2>1
  <1>7. x + th <= m
    <2>1. i * th <= SplitNum * th
      BY <1>0, <1>4, ProductsOrdered
    <2>2. SplitNum * th = m
      BY <1>0
    <2> QED
      BY <1>6, <2>1, <2>2, Zenon
  <1> HIDE DEF m
  <1>8. b = SubSeq(s, x + 1, x + th)
    BY <1>2, <1>5, <1>6, Zenon
  <1>9. b \in Seq(SheetSet) /\ Len(b) = th /\ \A c \in 1 .. th : x + c \in 1 .. m /\ b[c] = s[x + c]
    BY <1>0, <1>3, <1>7, <1>8, Stretch
  <1>10. \A c \in 1 .. th : b[c].table = t
    BY <1>3, <1>9
  <1> QED
    BY <1>0, <1>5, <1>9, <1>10, Zenon DEF th, s, b, m

LEMMA SplitsApart ==
  ASSUME NEW t \in DOMAIN Tables, NEW s \in DOMAIN Tables, NEW w \in Ranks, NEW v \in Ranks,
         NEW i \in 1 .. SplitNum, NEW j \in 1 .. SplitNum,
         NEW c \in 1 .. PathThreads(t), NEW d \in 1 .. PathThreads(s),
         Meets(PathSplit(t, w, i)[c], PathSplit(s, v, j)[d])
  PROVE  t = s /\ w = v /\ i = j /\ c = d
  <1>1. PathSplit(t, w, i)[c].table = t /\ PathSplit(s, v, j)[d].table = s
    BY SplitFacts
  <1>2. t = s
    BY <1>1 DEF Meets
  <1> DEFINE th == PathThreads(t)
             m == th * SplitNum
             x == Stride(SplitSheets(t), w)
             y == Stride(SplitSheets(t), v)
  <1>3. PICK e, f : e = (i - 1) * th + c /\ f = (j - 1) * th + d
    OBVIOUS
  <1>a. d \in 1 .. PathThreads(t)
    BY <1>2
  <1>4. e \in 1 .. m /\ f \in 1 .. m /\ PathSplit(t, w, i)[c] = x[e] /\ PathSplit(t, v, j)[d] = y[f]
    <2>1. /\ (i - 1) * PathThreads(t) + c \in 1 .. PathThreads(t) * SplitNum
          /\ PathSplit(t, w, i)[c] = Stride(SplitSheets(t), w)[(i - 1) * PathThreads(t) + c]
      BY ZenonT(60), SplitFacts
    <2>2. /\ (j - 1) * PathThreads(t) + d \in 1 .. PathThreads(t) * SplitNum
          /\ PathSplit(t, v, j)[d] = Stride(SplitSheets(t), v)[(j - 1) * PathThreads(t) + d]
      BY ZenonT(60), <1>a, SplitFacts
    <2> QED
      BY <1>3, <2>1, <2>2, Zenon
  <1>5. Meets(x[e], y[f])
    BY <1>2, <1>4, Zenon
  <1>6. TakenApart(x, y, t, m, w = v)
    BY SplitTableGood, StridesGood
  <1> HIDE DEF x, y, m
  <1>7. w = v /\ e = f
    BY <1>4, <1>5, <1>6 DEF TakenApart
  <1>8. th \in Nat /\ c \in 1 .. th /\ d \in 1 .. th
    BY <1>2, SplitFacts
  <1> HIDE DEF th
  <1>9. i = j /\ c = d
    <2>1. PICK a \in Int, b \in Int : a = i - 1 /\ b = j - 1
      OBVIOUS
    <2>2. PICK g \in 0 .. (th - 1), h \in 0 .. (th - 1) : g = c - 1 /\ h = d - 1
      BY <1>8
    <2>3. PICK k \in Int, l \in Int : k = a * th /\ l = b * th
      BY <1>8, Z3
    <2>4. k + c = l + d
      BY <1>3, <1>7, <2>1, <2>3, Zenon
    <2>5. k + g = l + h
      BY <1>8, <2>2, <2>4
    <2>6. a * th + g = b * th + h /\ th \in Nat \ {0}
      BY <1>8, <2>3, <2>5
    <2>7. a = b /\ g = h
      BY <2>2, <2>6, SameQuotient
    <2> QED
      BY <1>8, <2>1, <2>2, <2>7
  <1> QED
    BY <1>2, <1>7, <1>9

\* The n-th window is of group g and split i.
GroupOf(n) == (n - 1) \div SplitNum + 1
SplitOf(n) == ((n - 1) % SplitNum) + 1
Groups == Len(Tables) \div GroupSize

\* The parts of the n-th window: of each path of the group, those of the split.
WindowParts(w, n) == [k \in 1 .. GroupSize |-> PathSplit((GroupOf(n) - 1) * GroupSize + k, w, SplitOf(n))]

LEMMA WindowPlaces ==
  ASSUME NEW n \in 1 .. Groups * SplitNum
  PROVE  /\ GroupOf(n) \in Int /\ SplitOf(n) \in 1 .. SplitNum
         /\ n = (GroupOf(n) - 1) * SplitNum + (SplitOf(n) - 1) + 1
         /\ \A k \in 1 .. GroupSize : (GroupOf(n) - 1) * GroupSize + k \in DOMAIN Tables
  <1> DEFINE G == GroupSize
             N == Len(Tables)
             c == N \div G
  <1>0. G \in Nat \ {0} /\ SplitNum \in Nat \ {0} /\ N \in Nat /\ N \in Int /\ DOMAIN Tables = 1 .. N
    BY SizesGiven, GroupFacts
  <1> HIDE DEF G, N
  <1>1. c \in Nat /\ (N % G) \in 0 .. (G - 1) /\ N = c * G + (N % G)
    BY <1>0, DivisionFacts, Zenon
  <1>2. Groups = c
    BY DEF Groups, G, N
  <1> HIDE DEF c
  <1>3. /\ (n - 1) \div SplitNum + 1 \in 1 .. c /\ ((n - 1) % SplitNum) \in 0 .. (SplitNum - 1)
        /\ n = (((n - 1) \div SplitNum + 1) - 1) * SplitNum + ((n - 1) % SplitNum) + 1
    <2>1. n \in 1 .. c * SplitNum
      BY <1>2
    <2> QED
      BY <1>0, <1>1, <2>1, PartOf, Zenon
  <1>4. PICK g \in Int : g = GroupOf(n) /\ g \in 1 .. c
    BY <1>1, <1>3 DEF GroupOf
  <1>5. PICK u \in 0 .. (SplitNum - 1) : u = (n - 1) % SplitNum
    BY <1>3
  <1>6. SplitOf(n) = u + 1 /\ (u + 1) - 1 = u /\ u + 1 \in 1 .. SplitNum
    BY <1>0, <1>5 DEF SplitOf
  <1>7. n = (g - 1) * SplitNum + ((u + 1) - 1) + 1
    BY <1>3, <1>4, <1>5, <1>6, Zenon DEF GroupOf
  <1>8. ASSUME NEW k \in 1 .. G PROVE (g - 1) * G + k \in 1 .. N
    <2>1. g - 1 \in Nat /\ (g - 1) + 1 = g /\ g <= c
      BY <1>1, <1>4
    <2>2. PICK x \in Nat : x = (g - 1) * G
      BY <1>0, <2>1, ProductNat
    <2>3. g * G = x + G
      <3>1. ((g - 1) + 1) * G = (g - 1) * G + G
        BY <1>0, <2>1, Distribute
      <3> QED
        BY <2>1, <2>2, <3>1
    <2>4. g * G <= c * G
      BY <1>0, <1>1, <2>1, ProductsOrdered
    <2>5. PICK y \in Nat : y = c * G
      BY <1>0, <1>1, ProductNat
    <2>6. PICK z \in Nat : z = N % G
      BY <1>0, <1>1
    <2>7. x + G <= y /\ N = y + z
      BY <1>1, <2>3, <2>4, <2>5, <2>6, Zenon
    <2>8. x + k \in 1 .. N
      BY <1>0, <2>7
    <2> QED
      BY <2>2, <2>8
  <1> QED
    BY <1>0, <1>4, <1>6, <1>7, <1>8 DEF G

LEMMA WindowPartsTyped ==
  ASSUME NEW w \in Ranks, NEW n \in 1 .. Groups * SplitNum
  PROVE  /\ WindowParts(w, n) \in Seq(Seq(SheetSet)) /\ Len(WindowParts(w, n)) = GroupSize
         /\ \A k \in 1 .. GroupSize :
              /\ WindowParts(w, n)[k] = PathSplit((GroupOf(n) - 1) * GroupSize + k, w, SplitOf(n))
              /\ Len(WindowParts(w, n)[k]) = PathThreads((GroupOf(n) - 1) * GroupSize + k)
  <1> DEFINE at(k) == (GroupOf(n) - 1) * GroupSize + k
             p == WindowParts(w, n)
  <1>1. \A k \in 1 .. GroupSize : at(k) \in DOMAIN Tables
    BY WindowPlaces
  <1>2. SplitOf(n) \in 1 .. SplitNum
    BY WindowPlaces
  <1>3. p = [k \in 1 .. GroupSize |-> PathSplit(at(k), w, SplitOf(n))]
    BY DEF WindowParts
  <1> HIDE DEF at, p
  <1>4. \A k \in 1 .. GroupSize : /\ PathSplit(at(k), w, SplitOf(n)) \in Seq(SheetSet)
                                  /\ Len(PathSplit(at(k), w, SplitOf(n))) = PathThreads(at(k))
    BY <1>1, <1>2, SplitFacts, Zenon
  <1>5. GroupSize \in Nat
    BY GroupFacts
  <1>6. p \in Seq(Seq(SheetSet)) /\ Len(p) = GroupSize /\ \A k \in 1 .. GroupSize : p[k] = PathSplit(at(k), w, SplitOf(n))
    BY <1>3, <1>4, <1>5
  <1> QED
    BY <1>4, <1>6, Zenon DEF p, at

\* Two windows of two workers with a row in common are one.
LEMMA WindowPartsApart ==
  ASSUME NEW w \in Ranks, NEW v \in Ranks, NEW n \in 1 .. Groups * SplitNum, NEW m \in 1 .. Groups * SplitNum,
         NEW a \in 1 .. Len(FlattenSeq(WindowParts(w, n))), NEW b \in 1 .. Len(FlattenSeq(WindowParts(v, m))),
         Meets(FlattenSeq(WindowParts(w, n))[a], FlattenSeq(WindowParts(v, m))[b])
  PROVE  w = v /\ n = m /\ a = b
  <1> DEFINE x == WindowParts(w, n)
             y == WindowParts(v, m)
             G == GroupSize
  <1>1. x \in Seq(Seq(SheetSet)) /\ Len(x) = G /\ y \in Seq(Seq(SheetSet)) /\ Len(y) = G
    BY WindowPartsTyped
  <1>2. a \in 1 .. Len(FlattenSeq(x)) /\ b \in 1 .. Len(FlattenSeq(y)) /\ Meets(FlattenSeq(x)[a], FlattenSeq(y)[b])
    OBVIOUS
  <1> HIDE DEF x, y
  <1>3. FromPlaces(x, y, a, b)
    BY <1>1, <1>2, FlattenApart
  <1>4. PICK k \in 1 .. G, l \in 1 .. G : \E i \in 1 .. Len(x[k]), j \in 1 .. Len(y[l]) :
          FlattenSeq(x)[a] = x[k][i] /\ FlattenSeq(y)[b] = y[l][j] /\ (x = y /\ k = l /\ i = j => a = b)
    BY <1>1, <1>3, Zenon DEF FromPlaces
  <1>5. PICK i \in 1 .. Len(x[k]), j \in 1 .. Len(y[l]) :
          FlattenSeq(x)[a] = x[k][i] /\ FlattenSeq(y)[b] = y[l][j] /\ (x = y /\ k = l /\ i = j => a = b)
    BY <1>4
  <1>6. PICK t, s : t = (GroupOf(n) - 1) * G + k /\ s = (GroupOf(m) - 1) * G + l
    OBVIOUS
  <1>7. /\ x[k] = PathSplit(t, w, SplitOf(n)) /\ Len(x[k]) = PathThreads(t)
        /\ y[l] = PathSplit(s, v, SplitOf(m)) /\ Len(y[l]) = PathThreads(s)
    BY <1>6, WindowPartsTyped, Zenon DEF x, y
  <1>8. t \in DOMAIN Tables /\ s \in DOMAIN Tables /\ SplitOf(n) \in 1 .. SplitNum /\ SplitOf(m) \in 1 .. SplitNum
    BY <1>6, WindowPlaces, Zenon
  <1>9. i \in 1 .. PathThreads(t) /\ j \in 1 .. PathThreads(s) /\ Meets(PathSplit(t, w, SplitOf(n))[i], PathSplit(s, v, SplitOf(m))[j])
    BY <1>2, <1>5, <1>7, Zenon
  <1>10. t = s /\ w = v /\ SplitOf(n) = SplitOf(m) /\ i = j
    BY <1>8, <1>9, SplitsApart
  <1>11. GroupOf(n) = GroupOf(m) /\ k = l
    <2>0. G \in Nat \ {0} /\ GroupOf(n) \in Int /\ GroupOf(m) \in Int
      BY GroupFacts, WindowPlaces
    <2>1. PICK c \in Int, d \in Int : c = GroupOf(n) - 1 /\ d = GroupOf(m) - 1
      BY <2>0
    <2> HIDE DEF G
    <2>2. PICK g \in 0 .. (G - 1), h \in 0 .. (G - 1) : g = k - 1 /\ h = l - 1
      BY <2>0
    <2>3. PICK e \in Int, f \in Int : e = c * G /\ f = d * G
      BY <2>0, Z3
    <2>4. e + k = f + l
      BY <1>6, <1>10, <2>1, <2>3, Zenon
    <2>5. e + g = f + h
      BY <2>0, <2>2, <2>4
    <2>6. c * G + g = d * G + h
      BY <2>3, <2>5
    <2>7. c = d /\ g = h
      BY <2>0, <2>2, <2>6, SameQuotient, SMTT(60)
    <2> QED
      BY SMTT(45), <2>0, <2>1, <2>2, <2>7
  <1>12. n = m
    <2>1. n = (GroupOf(n) - 1) * SplitNum + (SplitOf(n) - 1) + 1 /\ m = (GroupOf(m) - 1) * SplitNum + (SplitOf(m) - 1) + 1
      BY WindowPlaces
    <2> QED
      BY <1>10, <1>11, <2>1, Zenon
  <1> QED
    BY <1>5, <1>10, <1>11, <1>12 DEF x, y

LEMMA SplitPathsGood == PathsGood([r \in Ranks |-> WindowPaths("split", r)])
  <1> DEFINE N == Groups * SplitNum
             p == [r \in Ranks |-> [n \in 1 .. N |-> FlattenSeq(WindowParts(r, n))]]
  <1>0. N \in Nat
    <2>1. Groups \in Nat
      <3>1. Len(Tables) \in Nat /\ Len(Tables) \in Int
        BY SizesGiven
      <3> QED
        BY <3>1, GroupFacts, DivisionFacts, Zenon DEF Groups
    <2>2. SplitNum \in Nat
      BY SizesGiven
    <2> QED
      BY <2>1, <2>2, ProductNat
  <1>1. \A r \in Ranks : WindowPaths("split", r) = FlattenSeq(p[r])
    BY DEF WindowPaths, WindowPathsBySplit, WindowParts, GroupOf, SplitOf, Groups
  <1>2. ASSUME NEW r \in Ranks, NEW n \in 1 .. N PROVE FlattenSeq(WindowParts(r, n)) \in Seq(SheetSet)
    BY WindowPartsTyped, FlattenLays
  <1>a. ASSUME NEW r \in Ranks PROVE p[r] = [n \in 1 .. N |-> FlattenSeq(WindowParts(r, n))]
    OBVIOUS
  <1>b. p = [r \in Ranks |-> p[r]]
    OBVIOUS
  <1>c. ASSUME NEW r \in Ranks, NEW n \in 1 .. N PROVE Len(FlattenSeq(WindowParts(r, n))) = Len(FlattenSeq(WindowParts(0, n)))
    <2> DEFINE x == WindowParts(r, n)
               y == WindowParts(0, n)
    <2>1. x \in Seq(Seq(SheetSet)) /\ y \in Seq(Seq(SheetSet)) /\ Len(x) = GroupSize /\ Len(y) = GroupSize
      BY WindowPartsTyped, RankZero
    <2>2. \A k \in 1 .. GroupSize : Len(x[k]) = Len(y[k])
      BY WindowPartsTyped, RankZero
    <2> HIDE DEF x, y
    <2>3. Len(FlattenSeq(x)) = Len(FlattenSeq(y))
      BY <2>1, <2>2, FlattenLengths
    <2> QED
      BY <2>3 DEF x, y
  <1>d. ASSUME NEW r \in Ranks, NEW q \in Ranks, NEW n \in 1 .. N, NEW m \in 1 .. N,
               NEW i \in 1 .. Len(FlattenSeq(WindowParts(r, n))), NEW j \in 1 .. Len(FlattenSeq(WindowParts(q, m))),
               Meets(FlattenSeq(WindowParts(r, n))[i], FlattenSeq(WindowParts(q, m))[j])
        PROVE  r = q /\ n = m /\ i = j
    BY <1>d, WindowPartsApart, Zenon
  <1> HIDE DEF p, N
  <1>3. ASSUME NEW r \in Ranks
        PROVE  p[r] \in Seq(Seq(SheetSet)) /\ Len(p[r]) = N /\ \A n \in 1 .. N : p[r][n] = FlattenSeq(WindowParts(r, n))
    <2>1. \A n \in 1 .. N : FlattenSeq(WindowParts(r, n)) \in Seq(SheetSet)
      BY <1>2
    <2>2. PICK g : g = p[r]
      OBVIOUS
    <2>3. g = [n \in 1 .. N |-> FlattenSeq(WindowParts(r, n))]
      BY <1>a, <2>2, Zenon
    <2>4. g \in Seq(Seq(SheetSet)) /\ Len(g) = N /\ \A n \in 1 .. N : g[n] = FlattenSeq(WindowParts(r, n))
      BY <1>0, <2>1, <2>3
    <2> QED
      BY <2>2, <2>4, Zenon
  <1>4. p \in [Ranks -> Seq(Seq(SheetSet))]
    <2>1. \A r \in Ranks : p[r] \in Seq(Seq(SheetSet))
      BY <1>3, Zenon
    <2> QED
      BY <1>b, <2>1
  <1>5. ASSUME NEW r \in Ranks PROVE Len(p[r]) = Len(p[0]) /\ \A n \in 1 .. Len(p[0]) : Len(p[r][n]) = Len(p[0][n])
    BY <1>3, <1>c, RankZero
  <1>6. ASSUME NEW r \in Ranks, NEW q \in Ranks, NEW n \in 1 .. Len(p[r]), NEW m \in 1 .. Len(p[q]),
               NEW i \in 1 .. Len(p[r][n]), NEW j \in 1 .. Len(p[q][m]), Meets(p[r][n][i], p[q][m][j])
        PROVE  r = q /\ n = m /\ i = j
    <2>1. n \in 1 .. N /\ m \in 1 .. N
      BY <1>3, Zenon
    <2>2. p[r][n] = FlattenSeq(WindowParts(r, n)) /\ p[q][m] = FlattenSeq(WindowParts(q, m))
      BY <1>3, <2>1, Zenon
    <2>3. /\ i \in 1 .. Len(FlattenSeq(WindowParts(r, n))) /\ j \in 1 .. Len(FlattenSeq(WindowParts(q, m)))
          /\ Meets(FlattenSeq(WindowParts(r, n))[i], FlattenSeq(WindowParts(q, m))[j])
      BY <1>6, <2>2, Zenon
    <2> QED
      BY <1>d, <2>1, <2>3
  <1>7. PartsGood(p)
    BY <1>4, <1>5, <1>6 DEF PartsGood
  <1>8. PathsGood([r \in Ranks |-> FlattenSeq(p[r])])
    BY <1>7, GoodPartsGoodPaths
  <1>9. [r \in Ranks |-> WindowPaths("split", r)] = [r \in Ranks |-> FlattenSeq(p[r])]
    BY <1>1
  <1> QED
    BY <1>8, <1>9, Zenon

\* The windows of the split and row datasets are good data.
WindowsGood == \A k \in {"split", "row"} : GoodData([r \in Ranks |-> Windows(k, r)])

\* The windows of the ranks never hold a row twice.
LEMMA WindowsAreGood == WindowsGood
  <1>1. GoodData([r \in Ranks |-> Windows("split", r)])
    BY SplitPathsGood, GoodPathsGoodWindows
  <1>2. GoodData([r \in Ranks |-> Windows("row", r)])
    BY RowPathsGood, GoodPathsGoodWindows
  <1> QED
    BY <1>1, <1>2 DEF WindowsGood

----------------------------------------------------------------------------
(* The plan is kept.                                                        *)

PlanKept == PlannedJob => PlanInv

\* Packing good data gives a good plan.
LEMMA PackedGood ==
  ASSUME NEW d, GoodData(d)
  PROVE  GoodPlan(Packed(d))
  <1> DEFINE b == Packed(d)
  <1>1. FirstSize \in Nat \ {0}
    BY CeilDivFacts, ThreadsFacts, LoopAssumption DEF FirstSize
  <1>2. \A r \in Ranks : d[r] \in Seq(Seq(Cells)) /\ Len(d[r]) = Len(d[0]) /\ Len(d[r]) \in Nat
    BY DEF GoodData, Even
  <1>3. ASSUME NEW rows \in Seq(Cells)
        PROVE  /\ Batches(rows, FirstSize) \in Seq(SUBSET Cells)
               /\ \A k \in 1 .. Len(Batches(rows, FirstSize)) :
                     Batches(rows, FirstSize)[k] = {rows[i] : i \in {j \in 1 .. Len(rows) : (j - 1) \div FirstSize = k - 1}}
    <2> DEFINE c == CeilDiv(Len(rows), FirstSize)
               take(k) == {rows[i] : i \in {j \in 1 .. Len(rows) : (j - 1) \div FirstSize = k - 1}}
    <2>1. c \in Nat
      BY <1>1, CeilDivFacts
    <2>2. \A k : take(k) \in SUBSET Cells
      OBVIOUS
    <2>3. Batches(rows, FirstSize) = [k \in 1 .. c |-> take(k)]
      BY DEF Batches
    <2> HIDE DEF c, take
    <2>4. [k \in 1 .. c |-> take(k)] \in Seq(SUBSET Cells) /\ Len([k \in 1 .. c |-> take(k)]) = c
      BY <2>1, <2>2
    <2>5. /\ Batches(rows, FirstSize) \in Seq(SUBSET Cells)
          /\ \A k \in 1 .. Len(Batches(rows, FirstSize)) : Batches(rows, FirstSize)[k] = take(k)
      BY <2>3, <2>4
    <2> QED
      BY <2>5 DEF take
  <1>4. ASSUME NEW r \in Ranks
        PROVE  /\ b[r] \in Seq(Seq(SUBSET Cells)) /\ Len(b[r]) = Len(d[r])
               /\ \A n \in 1 .. Len(d[r]) : b[r][n] = Batches(d[r][n], FirstSize)
    <2> DEFINE m == Len(d[r])
               pack(n) == Batches(d[r][n], FirstSize)
    <2>1. m \in Nat /\ \A n \in 1 .. m : d[r][n] \in Seq(Cells)
      BY <1>2
    <2>2. \A n \in 1 .. m : pack(n) \in Seq(SUBSET Cells)
      BY <1>3, <2>1
    <2>3. b[r] = [n \in 1 .. m |-> pack(n)]
      BY DEF Packed
    <2> HIDE DEF m, pack, b
    <2>4. b[r] \in Seq(Seq(SUBSET Cells)) /\ Len(b[r]) = m /\ \A n \in 1 .. m : b[r][n] = pack(n)
      BY <2>1, <2>2, <2>3
    <2> QED
      BY <2>4 DEF m, pack
  <1>5. b \in [Ranks -> Seq(Seq(SUBSET Cells))]
    <2>1. DOMAIN b = Ranks /\ b = [r \in Ranks |-> b[r]]
      BY DEF Packed
    <2> HIDE DEF b
    <2> QED
      BY <1>4, <2>1
  <1>6. Even(b)
    BY <1>2, <1>4, RankZero DEF Even
  <1>7. BatchesApart(b)
    <2> SUFFICES ASSUME NEW r \in Ranks, NEW q \in Ranks, NEW n \in 1 .. Len(b[r]), NEW m \in 1 .. Len(b[q]),
                        NEW i \in 1 .. Len(b[r][n]), NEW j \in 1 .. Len(b[q][m]),
                        b[r][n][i] \cap b[q][m][j] # {}
                 PROVE  r = q /\ n = m /\ i = j
      BY Zenon DEF BatchesApart
    <2>1. n \in 1 .. Len(d[r]) /\ m \in 1 .. Len(d[q])
      BY <1>4, Zenon
    <2>2. d[r][n] \in Seq(Cells) /\ d[q][m] \in Seq(Cells)
      <3>1. \A w \in Seq(Seq(Cells)) : \A k \in 1 .. Len(w) : w[k] \in Seq(Cells)
        OBVIOUS
      <3> QED
        BY <1>2, <2>1, <3>1, Zenon
    <2>3. b[r][n] = Batches(d[r][n], FirstSize) /\ b[q][m] = Batches(d[q][m], FirstSize)
      BY <1>4, <2>1
    <2> DEFINE s == d[r][n]
               u == d[q][m]
    <2>4. /\ b[r][n][i] = {s[x] : x \in {y \in 1 .. Len(s) : (y - 1) \div FirstSize = i - 1}}
          /\ b[q][m][j] = {u[x] : x \in {y \in 1 .. Len(u) : (y - 1) \div FirstSize = j - 1}}
      <3>1. i \in 1 .. Len(Batches(s, FirstSize)) /\ j \in 1 .. Len(Batches(u, FirstSize))
        BY <2>3, Zenon
      <3>2. Batches(s, FirstSize)[i] = {s[x] : x \in {y \in 1 .. Len(s) : (y - 1) \div FirstSize = i - 1}}
        BY <1>3, <2>2, <3>1
      <3>3. Batches(u, FirstSize)[j] = {u[x] : x \in {y \in 1 .. Len(u) : (y - 1) \div FirstSize = j - 1}}
        BY <1>3, <2>2, <3>1
      <3> QED
        BY <2>3, <3>2, <3>3, Zenon
    <2>v. PICK v : v \in b[r][n][i] /\ v \in b[q][m][j]
      BY Zenon
    <2> HIDE DEF b
    <2>5. PICK x \in 1 .. Len(s) : (x - 1) \div FirstSize = i - 1 /\ s[x] \in b[q][m][j]
      BY <2>4, <2>v
    <2>6. PICK y \in 1 .. Len(u) : (y - 1) \div FirstSize = j - 1 /\ s[x] = u[y]
      BY <2>4, <2>5
    <2>7. r = q /\ n = m /\ x = y
      <3>1. \A k \in 1 .. Len(d[r]), l \in 1 .. Len(d[q]) :
              \A h \in 1 .. Len(d[r][k]), g \in 1 .. Len(d[q][l]) :
                d[r][k][h] = d[q][l][g] => r = q /\ k = l /\ h = g
        BY DataApartAt
      <3>2. \A h \in 1 .. Len(d[r][n]), g \in 1 .. Len(d[q][m]) :
              d[r][n][h] = d[q][m][g] => r = q /\ n = m /\ h = g
        BY <2>1, <3>1, Zenon
      <3> QED
        BY <2>6, <3>2, Zenon
    <2>8. i - 1 = j - 1
      BY <2>5, <2>6, <2>7
    <2>9. i \in Int /\ j \in Int
      OBVIOUS
    <2> QED
      BY <2>7, <2>8, <2>9
  <1> HIDE DEF b
  <1>8. GoodPlan(b)
    BY <1>5, <1>6, <1>7 DEF GoodPlan
  <1> QED
    BY <1>8 DEF b

LEMMA SizesInit == ASSUME LoopInit PROVE SizesKept
  BY DEF LoopInit, SizesKept, ForAll, Configured, Uncut

LEMMA SizesStep ==
  ASSUME LoopInv, SizesKept, SizeStays, [LoopNext]_vars
  PROVE  SizesKept'
  <1>0. kind' = kind
    BY DEF LoopNext, Together, RankStep, WindowLimit, NextWindowRaises, NextWindow, NextBatch, StepLimit, WindowEnd,
           AfterWindow, EpochEnd, EvaluationEnd, SyncWindow, SyncStep, Work, Save, Crash, Resume, vars, job
  <1> SUFFICES ASSUME kind # "lake" PROVE SizesKept'
    BY <1>0 DEF SizesKept
  <1>1. ASSUME NEW r \in Ranks, NextWindow(r) PROVE SizesKept'
    <2>1. ds[r] \in {"train", "eval"}
      BY DEF LoopInv, ControlType
    <2>2. /\ size' = [size EXCEPT ![r] = [@ EXCEPT ![ds[r]] = FirstSize]]
          /\ cut' = [cut EXCEPT ![r] = [@ EXCEPT ![ds[r]] = TRUE]]
      BY <1>1, <2>1, WindowSize DEF NextWindow
    <2> QED
      BY <2>1, <2>2 DEF SizesKept
  <1>2. ASSUME NEW r \in Ranks, EpochEnd(r) PROVE SizesKept'
    <2>1. size' = size
          /\ cut' = [cut EXCEPT ![r] =
                       [d \in {"train", "eval"} |-> IF d = "train" \/ mode = "train_eval" THEN FALSE ELSE @[d]]]
      BY <1>2 DEF EpochEnd
    <2> QED
      BY <2>1 DEF SizesKept
  <1>3. CASE Resume
    BY <1>3 DEF Resume, SizesKept, ForAll, Configured, Uncut
  <1>4. ASSUME UNCHANGED <<size, cut>> PROVE SizesKept'
    BY <1>4 DEF SizesKept
  <1>5. ASSUME NEW r \in Ranks, RankStep(r), ~NextWindow(r), ~EpochEnd(r) PROVE UNCHANGED <<size, cut>>
    BY <1>5 DEF RankStep, WindowLimit, NextWindowRaises, NextBatch, StepLimit, WindowEnd, AfterWindow, EvaluationEnd, local
  <1>6. ASSUME Together \/ Crash \/ UNCHANGED vars PROVE UNCHANGED <<size, cut>>
    BY <1>6 DEF Together, SyncWindow, SyncStep, Work, Save, Crash, vars, local
  <1> QED
    BY <1>1, <1>2, <1>3, <1>4, <1>5, <1>6 DEF LoopNext

LEMMA PlanInit == ASSUME LoopInit PROVE PlanKept
  <1> SUFFICES ASSUME PlannedJob PROVE PlanInv
    BY DEF PlanKept
  <1> USE LoopAssumption
  <1>1. GoodData(data) /\ GoodPlan(Plan)
    <2>1. GoodData(data)
      BY WindowsAreGood DEF PlannedJob, WindowsGood, LoopInit
    <2> QED
      BY <2>1, PackedGood DEF Plan
  <1>2. /\ flag \in [Ranks -> BOOLEAN] /\ offset \in [Ranks -> [{"train", "eval"} -> Nat]] /\ DOMAIN rest = Ranks
        /\ \A r \in Ranks : /\ pc[r] = "window" /\ ds[r] = "train" /\ offset[r] = NoOffset /\ epoch[r] = 0
                            /\ windows[r] = 0 /\ reset[r] = FALSE
        /\ ckpt.seen = seen /\ ckpt.epoch = 0 /\ ckpt.offset = NoOffset /\ seen = Unseen
    BY DEF LoopInit, ForAll, NoOffset, FirstDataset, PlannedJob
  <1>3. NoOffset \in [{"train", "eval"} -> Nat] /\ NoOffset["train"] = 0 /\ NoOffset["eval"] = 0
    BY DEF NoOffset
  <1>4. seen = Weights(Plan, 0, RowsTo(Plan, 0))
    <2>1. \A e \in EpochSet : DueRows(Plan, e, 0, RowsTo(Plan, 0)) = {}
      BY RowsToNone DEF DueRows, EpochSet
    <2>2. \A e \in EpochSet : Mark(DueRows(Plan, e, 0, RowsTo(Plan, 0))) = [x \in Rows |-> 0]
      BY <2>1 DEF Mark
    <2> QED
      BY <1>2, <2>2 DEF Weights, Unseen
  <1>5. Len(Plan[0]) \in Nat
    BY <1>1, RankZero DEF GoodPlan
  <1>6. CkptFits(Plan, mode, ckpt)
    BY <1>2, <1>3, <1>4, <1>5 DEF CkptFits
  <1>7. \A r \in Ranks : Fits(r)
    <2> TAKE r \in Ranks
    <2>1. ~IsTraining(pc[r], ds[r], flag[r]) /\ ~Lags(pc[r], ds[r], flag[r])
      BY <1>2 DEF IsTraining, Lags, IsOpen, Busy
    <2> QED
      BY <1>2, <1>3, <1>4, <1>5, <2>1 DEF Fits, RankFits, SoFar
  <1>8. \A r \in Ranks : AlignedAt(0, r)
    BY <1>2, <1>3 DEF AlignedAt, Aligned, IsOpen, Busy
  <1> QED
    BY <1>1, <1>2, <1>6, <1>7, <1>8 DEF PlanInv

LEMMA PlanStep ==
  ASSUME LoopInv, PlanKept, SizesKept, SizeStays, SharedClass = FALSE, [LoopNext]_vars
  PROVE  PlanKept'
  <1> USE LoopAssumption
  <1>u. data' = data => Plan' = Plan
    BY PlanOfData
  <1>0. UNCHANGED <<kind, mode, limit, data>>
    BY DEF LoopNext, Together, RankStep, WindowLimit, NextWindowRaises, NextWindow, NextBatch, StepLimit, WindowEnd,
           AfterWindow, EpochEnd, EvaluationEnd, SyncWindow, SyncStep, Work, Save, Crash, Resume, vars, job
  <1> SUFFICES ASSUME PlannedJob PROVE PlanInv'
    BY <1>0 DEF PlanKept, PlannedJob
  <1>1. PlanInv
    BY DEF PlanKept
  <1>2. ASSUME NEW r \in Ranks, RankStep(r) PROVE PlanInv'
    BY <1>1, <1>2, PlanRankStep
  <1>3. CASE Together
    BY <1>1, <1>3, PlanStepTogether
  <1>4. CASE Crash
    <2>1. /\ UNCHANGED <<data, Plan, mode, flag, offset, rest, ckpt>> /\ \A r \in Ranks : pc'[r] = "down"
      BY <1>u, <1>4 DEF Crash, ForAll, job, local
    <2> QED
      BY <1>1, <2>1 DEF PlanInv
  <1>5. CASE Resume
    <2>1. /\ UNCHANGED <<data, Plan, mode, ckpt>> /\ seen' = ckpt.seen
          /\ flag' = [r \in Ranks |-> FALSE] /\ offset' = [r \in Ranks |-> ckpt.offset] /\ DOMAIN rest' = Ranks
          /\ \A r \in Ranks : /\ pc'[r] \in {"window", "done"} /\ ds'[r] = "train" /\ offset'[r] = ckpt.offset
                              /\ windows'[r] = 0 /\ reset'[r] = FALSE /\ epoch'[r] = ckpt.epoch
      BY <1>u, <1>5 DEF Resume, ForAll, FirstDataset, job, PlannedJob
    <2>2. CkptFits(Plan, mode, ckpt) /\ CkptFits(Plan, mode, ckpt)'
      BY <1>1, <2>1 DEF PlanInv
    <2>3. flag' \in [Ranks -> BOOLEAN] /\ offset' \in [Ranks -> [{"train", "eval"} -> Nat]]
      BY <2>1, <2>2 DEF CkptFits
    <2>4. \A r \in Ranks : /\ ~IsTraining(pc'[r], ds'[r], flag'[r]) /\ ~Lags(pc'[r], ds'[r], flag'[r])
                           /\ ~IsOpen(pc'[r], ds'[r], flag'[r])
      BY <2>1 DEF IsTraining, Lags, IsOpen, Busy
    <2>5. \A r \in Ranks : Fits(r)'
      BY <2>1, <2>2, <2>4 DEF Fits, RankFits, SoFar, CkptFits, PlannedJob
    <2>6. ckpt.offset["train"] \in Nat
      BY <2>2 DEF CkptFits
    <2>7. \E b \in Nat : \A r \in Ranks : AlignedAt(b, r)'
      <3>1. PICK b : b = ckpt.offset["train"]
        OBVIOUS
      <3>2. \A r \in Ranks : AlignedAt(b, r)'
        <4> TAKE r \in Ranks
        <4>1. offset'[r]["train"] = b /\ windows'[r] = 0 /\ b \in Nat
          BY <2>1, <2>6, <3>1
        <4>2. reset'[r] # TRUE
          BY <2>1
        <4>3. offset'[r]["train"] = (IF reset'[r] = TRUE THEN 0 ELSE b) + windows'[r]
                                      + (IF IsOpen(pc'[r], ds'[r], flag'[r]) THEN 1 ELSE 0)
          <5>1. (IF reset'[r] = TRUE THEN 0 ELSE b) = b
            BY <4>2, Zenon
          <5>2. ~IsOpen(pc'[r], ds'[r], flag'[r])
            BY <2>4
          <5>3. (IF IsOpen(pc'[r], ds'[r], flag'[r]) THEN 1 ELSE 0) = 0
            BY <5>2, Zenon
          <5> QED
            BY <4>1, <5>1, <5>3
        <4> QED
          BY <4>3 DEF AlignedAt, Aligned
      <3> QED
        BY <2>6, <3>1, <3>2
    <2> QED
      BY <1>1, <2>1, <2>2, <2>3, <2>5, <2>7, PlanTogether
  <1>6. CASE UNCHANGED vars
    <2>1. /\ UNCHANGED <<data, pc, ds, offset, reset, rest, flag, lstep>>
          /\ UNCHANGED <<windows, epoch, seen, ckpt, mode>>
      BY <1>6, Zenon DEF vars, job, local
    <2>2. Plan' = Plan
      BY <2>1, PlanOfData
    <2>3. \A r \in Ranks : Fits(r) => Fits(r)'
      BY <2>1, <2>2, Zenon DEF Fits
    <2>4. \A r \in Ranks : \A b \in Nat : AlignedAt(b, r) => AlignedAt(b, r)'
      BY <2>1, <2>2, Zenon DEF AlignedAt
    <2> QED
      BY <1>1, <2>1, <2>2, <2>3, <2>4, Zenon DEF PlanInv
  <1> QED
    BY <1>2, <1>3, <1>4, <1>5, <1>6 DEF LoopNext

LEMMA PlanMeans == ASSUME LoopInv, PlanKept PROVE TrainedAsPlanned
  <1> SUFFICES ASSUME PlannedJob,
                      AtAll("done") \/ (AtAll("window") /\ ds = ForAll("train") /\ epoch = ForAll(epoch[0])),
                      NEW e \in EpochSet
               PROVE  seen[e] = [x \in Rows |-> IF x \in PlannedRows(IF e < epoch[0] THEN Len(data[0])
                                    ELSE IF e = epoch[0] THEN offset[0]["train"] ELSE 0) THEN 1 ELSE 0]
    BY DEF TrainedAsPlanned, PlannedJob
  <1>1. 0 \in Ranks
    BY RankZero
  <1>2. pc[0] = "done" \/ (pc[0] = "window" /\ ds[0] = "train")
    BY <1>1 DEF AtAll, ForAll
  <1>3. Fits(0)
    BY <1>1, <1>2 DEF PlanKept, PlanInv
  <1>4. ~IsTraining(pc[0], ds[0], flag[0])
    BY <1>2 DEF IsTraining, Busy
  <1>5. seen = Weights(Plan, epoch[0], RowsTo(Plan, offset[0]["train"]))
    BY <1>3, <1>4 DEF Fits, RankFits, SoFar
  <1>d. /\ Even(data) /\ Len(data[0]) \in Nat /\ Len(Plan[0]) = Len(data[0])
        /\ offset[0]["train"] \in 0 .. Len(data[0])
    <2>1. GoodData(data) /\ offset[0]["train"] \in Nat /\ offset[0]["train"] <= Len(Plan[0])
      BY <1>1, <1>2, <1>3 DEF PlanKept, PlanInv, Fits, RankFits
    <2>2. Even(data) /\ Len(data[0]) \in Nat
      BY <1>1, <2>1 DEF GoodData
    <2>3. Len(Plan[0]) = Len(data[0])
      BY <1>1, <2>2, PlanOfData
    <2> QED
      BY <2>1, <2>2, <2>3
  <1>6. seen[e] = Mark(DueRows(Plan, e, epoch[0], RowsTo(Plan, offset[0]["train"])))
    BY <1>5 DEF Weights
  <1>7. DueRows(Plan, e, epoch[0], RowsTo(Plan, offset[0]["train"]))
        = PlannedRows(IF e < epoch[0] THEN Len(data[0]) ELSE IF e = epoch[0] THEN offset[0]["train"] ELSE 0)
    <2> DEFINE n == IF e < epoch[0] THEN Len(data[0]) ELSE IF e = epoch[0] THEN offset[0]["train"] ELSE 0
    <2>1. n \in 0 .. Len(data[0])
      BY <1>d
    <2>2. DueRows(Plan, e, epoch[0], RowsTo(Plan, offset[0]["train"])) = RowsTo(Plan, n)
      BY <1>d, RowsToNone DEF DueRows
    <2> HIDE DEF n
    <2>3. PlannedRows(n) = RowsTo(Plan, n)
      BY <1>d, <2>1, PlannedIsRowsTo
    <2> QED
      BY <2>2, <2>3 DEF n
  <1> QED
    BY <1>6, <1>7 DEF Mark

\* Between windows the weights have seen the planned rows of this epoch's
\* windows and of all windows of earlier epochs, once each, however often the
\* job was restarted (trainer.py's loops, window_io.py's offsets and the
\* checkpoint hook), when the datasets do not share the offset of their class
\* and _shard_window_paths, which divides the batch size after every reset,
\* finds one that the division leaves alone: the proportions of a total of 1,
\* or a batch no larger than that total.
THEOREM SeenAsPlanned == SharedClass = FALSE /\ SizeStays => (LoopSpec => []TrainedAsPlanned)
  <1> SUFFICES ASSUME SharedClass = FALSE, SizeStays PROVE LoopSpec => []TrainedAsPlanned
    OBVIOUS
  <1>1. LoopInit => LoopInv /\ PlanKept /\ SizesKept
    BY PlanInit, SizesInit, LoopInitEstablishes
  <1>2. (LoopInv /\ PlanKept /\ SizesKept) /\ [LoopNext]_vars => (LoopInv /\ PlanKept /\ SizesKept)'
    BY PlanStep, SizesStep, LoopStepPreserves
  <1>3. LoopInv /\ PlanKept => TrainedAsPlanned
    BY PlanMeans
  <1> QED
    BY <1>1, <1>2, <1>3, PTL DEF LoopSpec
----------------------------------------------------------------------------
(* No row is left out.                                                      *)

HasRow(s, n) == s.start <= n /\ n < s.end

\* A number between the first and the last of a list of cuts is between two of them.
LEMMA BetweenCuts ==
  ASSUME NEW m \in Nat, NEW cuts, \A u \in 0 .. m : cuts[u] \in Int, NEW n \in Int, cuts[0] <= n, n < cuts[m]
  PROVE  \E u \in 0 .. (m - 1) : cuts[u] <= n /\ n < cuts[u + 1]
  <1> DEFINE T == {u \in 0 .. m : n < cuts[u]}
  <1>1. T \subseteq Nat /\ m \in T
    OBVIOUS
  <1>2. PICK u \in T : \A v \in T : u <= v
    <2> HIDE DEF T
    <2> QED
      BY <1>1, LeastNatural
  <1>3. u \in 0 .. m /\ n < cuts[u] /\ u # 0
    OBVIOUS
  <1>4. u - 1 \in 0 .. (m - 1) /\ u - 1 \in 0 .. m /\ ~(u <= u - 1) /\ (u - 1) + 1 = u
    BY <1>3
  <1>5. ~(n < cuts[u - 1])
    BY <1>2, <1>4
  <1>6. cuts[u - 1] <= n
    <2>1. PICK x \in Int : x = cuts[u - 1]
      BY <1>4
    <2> QED
      BY <1>5, <2>1
  <1> QED
    BY <1>3, <1>4, <1>6

\* All the remaining rows are given away.
LEMMA RemaindersExact ==
  ASSUME NEW length \in Nat, NEW num \in Nat \ {0}, NEW extra \in Nat
  PROVE  RemaindersBefore(length, num, extra, num + 1) = length % num
  <1> DEFINE rem == length % num
             B == {j \in 1 .. num + 1 - 1 : (j - 1 - extra) % num < rem}
             f == [k \in 0 .. (rem - 1) |-> ((k + extra) % num) + 1]
  <1>0. rem \in 0 .. (num - 1)
    BY DivisionFacts
  <1>1. RemaindersBefore(length, num, extra, num + 1) = Cardinality(B)
    BY DEF RemaindersBefore
  <1>2. Cardinality(B) <= rem
    <2>1. num + 1 \in 1 .. num + 1
      OBVIOUS
    <2> QED
      BY <1>1, RemaindersFacts
  <1> HIDE DEF rem
  <1>3. IsFiniteSet(B) /\ Cardinality(B) \in Nat
    <2>1. IsFiniteSet(1 .. num + 1 - 1) /\ B \subseteq 1 .. num + 1 - 1
      BY FS_Interval
    <2>2. IsFiniteSet(B)
      BY <2>1, FS_Subset
    <2> QED
      BY <2>2, FS_CardinalityType
  <1>4. ASSUME NEW k \in 0 .. (rem - 1)
        PROVE  \E q \in Int : (k + extra) % num = k + extra - q * num /\ (k + extra) % num \in 0 .. (num - 1) /\ q * num \in Int
    <2>1. PICK x \in Int : x = k + extra
      BY <1>0
    <2>2. x \div num \in Int /\ (x % num) \in 0 .. (num - 1) /\ x = (x \div num) * num + (x % num)
      BY DivisionFacts, <2>1, Zenon
    <2>3. PICK q \in Int : q = x \div num
      BY <2>2
    <2>4. PICK z \in Int : z = q * num
      OBVIOUS
    <2>5. PICK y \in Int : y = x % num
      BY <2>2
    <2>6. x = z + y
      BY <2>2, <2>3, <2>4, <2>5, Zenon
    <2>7. y = k + extra - z
      <3>1. x \in Int /\ y \in Int /\ z \in Int /\ x = k + extra
        BY <2>1, <2>4, <2>5
      <3> QED
        BY <2>6, <3>1
    <2>8. (k + extra) % num = k + extra - q * num
      BY <2>1, <2>4, <2>5, <2>7, Zenon
    <2>9. (k + extra) % num \in 0 .. (num - 1)
      BY <2>1, <2>2, Zenon
    <2>10. q * num \in Int
      BY <2>4, Zenon
    <2> QED
      BY <2>8, <2>9, <2>10, Zenon
  <1>a. f = [k \in 0 .. (rem - 1) |-> f[k]] /\ \A k \in 0 .. (rem - 1) : f[k] = ((k + extra) % num) + 1
    OBVIOUS
  <1> HIDE DEF f
  <1>5. ASSUME NEW k \in 0 .. (rem - 1) PROVE f[k] \in B
    <2>1. PICK q \in Int : /\ (k + extra) % num = k + extra - q * num /\ (k + extra) % num \in 0 .. (num - 1)
                           /\ q * num \in Int
      BY <1>4
    <2>2. PICK z \in Int : z = q * num
      BY <2>1
    <2>3. f[k] = k + extra - z + 1 /\ f[k] \in 1 .. num
      <3>1. PICK y \in 0 .. (num - 1) : y = (k + extra) % num
        BY <2>1
      <3>2. f[k] = y + 1 /\ y = k + extra - z
        BY <1>a, <2>1, <2>2, <3>1, Zenon
      <3>3. z \in Int
        BY <2>2
      <3> QED
        BY <1>0, <3>2, <3>3
    <2>4. PICK x \in Int : x = f[k] - 1 - extra
      BY <2>3
    <2>5. x = k - z
      BY <1>0, <2>2, <2>3, <2>4
    <2>6. x \div num \in Int /\ (x % num) \in 0 .. (num - 1) /\ x = (x \div num) * num + (x % num)
      BY <2>4, DivisionFacts, Zenon
    <2>7. PICK e \in Int, y \in Int : e = x \div num /\ y = x % num
      BY <2>6
    <2>8. (e + q) * num + y = 0 * num + k
      <3>1. (e + q) * num = e * num + q * num
        BY Z3
      <3>2. PICK d \in Int : d = e * num
        OBVIOUS
      <3>3. x = d + y
        BY <2>6, <2>7, <3>2, Zenon
      <3>4. d + z + y = k
        BY <1>0, <2>2, <2>5, <3>2, <3>3
      <3>5. (e + q) * num = d + z
        BY <2>2, <3>1, <3>2, Zenon
      <3>6. 0 * num + k = k
        BY <1>0
      <3> QED
        BY <3>4, <3>5, <3>6
    <2>9. y = k
      <3>1. y \in 0 .. (num - 1) /\ k \in 0 .. (num - 1) /\ e + q \in Int /\ 0 \in Int
        BY <1>0, <2>6, <2>7
      <3> QED
        BY <2>8, <3>1, SameQuotient
    <2>10. (f[k] - 1 - extra) % num < rem
      <3>1. (f[k] - 1 - extra) % num = k
        BY <2>4, <2>7, <2>9, Zenon
      <3> QED
        BY <1>0, <3>1
    <2>11. f[k] \in 1 .. num + 1 - 1
      BY <2>3
    <2> QED
      BY <2>10, <2>11
  <1>6. ASSUME NEW k \in 0 .. (rem - 1), NEW l \in 0 .. (rem - 1), f[k] = f[l] PROVE k = l
    <2>1. PICK q \in Int : /\ (k + extra) % num = k + extra - q * num /\ (k + extra) % num \in 0 .. (num - 1)
                           /\ q * num \in Int
      BY <1>4
    <2>2. PICK p \in Int : /\ (l + extra) % num = l + extra - p * num /\ (l + extra) % num \in 0 .. (num - 1)
                           /\ p * num \in Int
      BY <1>4
    <2>3. PICK z \in Int, y \in Int : z = q * num /\ y = p * num
      BY <2>1, <2>2
    <2>4. k - z = l - y
      <3>1. PICK c \in 0 .. (num - 1), d \in 0 .. (num - 1) : c = (k + extra) % num /\ d = (l + extra) % num
        BY <2>1, <2>2
      <3>2. c + 1 = d + 1 /\ c = k + extra - z /\ d = l + extra - y
        BY <1>6, <1>a, <2>1, <2>2, <2>3, <3>1, Zenon
      <3>3. z \in Int /\ y \in Int
        BY <2>3
      <3> QED
        BY <1>0, <3>2, <3>3
    <2>5. p * num + k = q * num + l
      BY <1>0, <2>3, <2>4
    <2>6. k \in 0 .. (num - 1) /\ l \in 0 .. (num - 1)
      BY <1>0
    <2> QED
      BY <2>5, <2>6, SameQuotient
  <1>7. f \in Injection(0 .. (rem - 1), B)
    <2>1. f \in [0 .. (rem - 1) -> B]
      <3> HIDE DEF B
      <3> QED
        BY <1>5, <1>a
    <2> HIDE DEF B
    <2> QED
      BY <1>6, <2>1 DEF Injection, IsInjective
  <1>8. Cardinality(0 .. (rem - 1)) = rem
    <2>1. 0 \in Int /\ rem - 1 \in Int
      BY <1>0
    <2> QED
      BY <1>0, <2>1, FS_Interval
  <1> HIDE DEF B
  <1>9. rem <= Cardinality(B)
    BY <1>3, <1>7, <1>8, FS_Injection
  <1>10. Cardinality(B) = rem
    BY <1>0, <1>2, <1>3, <1>9
  <1> QED
    BY <1>1, <1>10 DEF rem

\* The shards that BuildShard makes hold every row of the range: the cuts
\* between them run from its start to its end.
LEMMA BuildCovers ==
  ASSUME NEW t \in Nat, NEW begin \in Nat, NEW length \in Nat, NEW num \in Nat \ {0}, NEW extra \in Nat,
         NEW n \in Nat, begin <= n, n < begin + length
  PROVE  \E i \in 1 .. num : HasRow(BuildShard(t, begin, length, num, extra)[i], n)
  <1> DEFINE b == BuildShard(t, begin, length, num, extra)
             d == length \div num
             R(i) == RemaindersBefore(length, num, extra, i)
             start(i) == begin + (i - 1) * d + R(i)
             cuts == [u \in 0 .. num |-> start(u + 1)]
  <1>1. b = [i \in 1 .. num |-> Sheet(t, start(i), start(i + 1))]
    BY DEF BuildShard
  <1>2. \A i \in 1 .. num + 1 : R(i) \in Nat
    BY RemaindersFacts
  <1>3. d \in Nat /\ (length % num) \in Nat /\ length = d * num + (length % num)
    BY DivisionFacts
  <1>4. R(1) = 0
    <2>1. {j \in 1 .. 1 - 1 : (j - 1 - extra) % num < length % num} = {}
      OBVIOUS
    <2> QED
      BY <2>1, FS_EmptySet DEF RemaindersBefore
  <1>5. R(num + 1) = length % num
    BY RemaindersExact
  <1> HIDE DEF R, d, b
  <1>6. \A i \in 1 .. num + 1 : start(i) \in Int
    <2> TAKE i \in 1 .. num + 1
    <2>1. i - 1 \in Nat
      OBVIOUS
    <2>2. PICK x \in Nat : x = (i - 1) * d
      BY <1>3, <2>1, ProductNat
    <2> QED
      BY <1>2, <2>2
  <1>7. start(1) = begin
    <2>1. (1 - 1) * d = 0
      BY <1>3
    <2> QED
      BY <1>4, <2>1
  <1>8. start(num + 1) = begin + length
    <2>1. (num + 1) - 1 = num /\ num * d = d * num
      BY <1>3
    <2>2. PICK x \in Nat : x = d * num
      BY <1>3, ProductNat
    <2>3. start(num + 1) = begin + x + R(num + 1)
      BY <2>1, <2>2
    <2>4. PICK y \in Nat : y = length % num
      BY <1>3
    <2> QED
      BY <1>3, <1>5, <2>2, <2>3, <2>4
  <1> HIDE DEF start
  <1>9. cuts[0] = begin /\ cuts[num] = begin + length /\ \A u \in 0 .. num : cuts[u] = start(u + 1) /\ cuts[u] \in Int
    <2>1. 0 \in 0 .. num /\ num \in 0 .. num /\ \A u \in 0 .. num : u + 1 \in 1 .. num + 1
      OBVIOUS
    <2>2. \A u \in 0 .. num : cuts[u] = start(u + 1)
      OBVIOUS
    <2>3. 0 + 1 = 1
      OBVIOUS
    <2> HIDE DEF cuts
    <2> QED
      BY <1>6, <1>7, <1>8, <2>1, <2>2, <2>3
  <1> HIDE DEF cuts
  <1>10. PICK u \in 0 .. (num - 1) : cuts[u] <= n /\ n < cuts[u + 1]
    <2>1. cuts[0] <= n /\ n < cuts[num] /\ \A v \in 0 .. num : cuts[v] \in Int
      BY <1>9
    <2> QED
      BY <2>1, BetweenCuts
  <1>11. u + 1 \in 1 .. num /\ u \in 0 .. num /\ u + 1 \in 0 .. num
    OBVIOUS
  <1>12. b[u + 1] = [table |-> t, start |-> start(u + 1), end |-> start((u + 1) + 1)]
    BY <1>1, <1>11, Zenon DEF Sheet
  <1>13. b[u + 1].start = start(u + 1) /\ b[u + 1].end = start((u + 1) + 1)
    <2>1. PICK x, y : x = start(u + 1) /\ y = start((u + 1) + 1)
      OBVIOUS
    <2>2. b[u + 1] = [table |-> t, start |-> x, end |-> y]
      BY <1>12, <2>1, Zenon
    <2>3. b[u + 1].start = x /\ b[u + 1].end = y
      BY <2>2
    <2> QED
      BY <2>1, <2>3, Zenon
  <1>14. HasRow(b[u + 1], n)
    BY <1>9, <1>10, <1>11, <1>13, Zenon DEF HasRow
  <1> QED
    BY <1>11, <1>14 DEF b

\* Every row of a chunk is read by a subprocess.
LEMMA SubprocessCovers ==
  ASSUME NEW s \in SheetSet, NEW n \in Nat, HasRow(s, n)
  PROVE  \E u \in 0 .. (SubNum - 1) : HasRow(ShardTableBySubprocess(s, u), n)
  <1> DEFINE len == s.end - s.start
             q == len \div SubNum
             rem == len % SubNum
             at(u) == s.start + u * q + Min({u, rem})
             cuts == [u \in 0 .. SubNum |-> at(u)]
  <1>0. SubNum \in Nat \ {0} /\ len \in Nat /\ s.start \in Nat /\ s.end \in Nat
    BY SizesGiven DEF SheetSet
  <1>2. q \in Nat /\ rem \in 0 .. (SubNum - 1) /\ len = q * SubNum + rem
    <2>1. len \in Int
      BY <1>0
    <2> HIDE DEF len
    <2> QED
      BY <1>0, <2>1, DivisionFacts
  <1>3. \A u : /\ ShardTableBySubprocess(s, u).start = at(u)
               /\ ShardTableBySubprocess(s, u).end = at(u + 1)
    <2> TAKE u
    <2>1. PICK x, y : x = at(u) /\ y = at(u + 1)
      OBVIOUS
    <2>2. ShardTableBySubprocess(s, u) = [s EXCEPT !.start = x, !.end = y]
      BY <2>1, Zenon DEF ShardTableBySubprocess
    <2>3. s \in [table : Nat, start : Nat, end : Nat]
      BY DEF SheetSet
    <2> HIDE DEF at
    <2>4. [s EXCEPT !.start = x, !.end = y].start = x /\ [s EXCEPT !.start = x, !.end = y].end = y
      BY <2>3
    <2> QED
      BY <2>1, <2>2, <2>4, Zenon
  <1> HIDE DEF q, rem
  <1>4. \A u \in Nat : Min({u, rem}) = IF u <= rem THEN u ELSE rem
    BY <1>2, SmallerOf
  <1>5. \A u \in Nat : at(u) \in Int
    <2> TAKE u \in Nat
    <2>1. PICK x \in Nat : x = u * q
      BY <1>2, ProductNat
    <2>2. PICK y \in Nat : y = Min({u, rem})
      BY <1>2, <1>4
    <2>3. at(u) = s.start + x + y
      BY <2>1, <2>2, Zenon
    <2> QED
      BY <1>0, <2>1, <2>3
  <1>6. at(0) = s.start
    <2>1. 0 * q = 0 /\ Min({0, rem}) = 0
      BY <1>2, <1>4
    <2>2. at(0) = s.start + 0 + 0
      BY <2>1, Zenon
    <2> HIDE DEF at
    <2> QED
      BY <1>0, <2>2
  <1>7. at(SubNum) = s.end
    <2>1. Min({SubNum, rem}) = rem
      BY <1>0, <1>2, <1>4
    <2>2. PICK x \in Nat : x = SubNum * q
      BY <1>0, <1>2, ProductNat
    <2>3. len = x + rem
      BY <1>0, <1>2, <2>2
    <2>4. at(SubNum) = s.start + x + rem
      BY <2>1, <2>2, Zenon
    <2>5. rem \in Nat /\ x + rem = s.end - s.start
      BY <1>2, <2>3
    <2> HIDE DEF at
    <2> QED
      BY <1>0, <2>2, <2>4, <2>5
  <1> HIDE DEF at
  <1>8. cuts[0] = s.start /\ cuts[SubNum] = s.end /\ \A u \in 0 .. SubNum : cuts[u] = at(u) /\ cuts[u] \in Int
    <2>1. 0 \in 0 .. SubNum /\ SubNum \in 0 .. SubNum /\ \A u \in 0 .. SubNum : u \in Nat
      BY <1>0
    <2>2. \A u \in 0 .. SubNum : cuts[u] = at(u)
      OBVIOUS
    <2> HIDE DEF cuts
    <2> QED
      BY <1>5, <1>6, <1>7, <2>1, <2>2
  <1> HIDE DEF cuts
  <1>9. PICK u \in 0 .. (SubNum - 1) : cuts[u] <= n /\ n < cuts[u + 1]
    <2>1. cuts[0] <= n /\ n < cuts[SubNum] /\ SubNum \in Nat /\ n \in Int /\ \A v \in 0 .. SubNum : cuts[v] \in Int
      BY <1>0, <1>8 DEF HasRow
    <2> QED
      BY <2>1, BetweenCuts
  <1>10. u \in 0 .. SubNum /\ u + 1 \in 0 .. SubNum
    BY <1>0
  <1>11. HasRow(ShardTableBySubprocess(s, u), n)
    BY <1>3, <1>8, <1>9, <1>10, Zenon DEF HasRow
  <1> QED
    BY <1>11

Has(s, x) == \E i \in 1 .. Len(s) : s[i] = x
SheetHolds(s, c) == s.table = c.table /\ HasRow(s, c.row)

\* A flattened list of lists holds what its lists hold.
LEMMA FlattenHolds ==
  ASSUME NEW S, NEW seqs \in Seq(Seq(S)), NEW x
  PROVE  Has(FlattenSeq(seqs), x) <=> \E k \in 1 .. Len(seqs) : Has(seqs[k], x)
  <1>1. PICK pre : Laid(seqs, pre, FlattenSeq(seqs))
    BY FlattenLays
  <1> DEFINE F == FlattenSeq(seqs)
  <1>2. /\ \A k \in 1 .. Len(seqs) : \A j \in 1 .. Len(seqs[k]) :
             pre[k - 1] + j \in 1 .. Len(F) /\ F[pre[k - 1] + j] = seqs[k][j]
        /\ \A i \in 1 .. Len(F) : \E k \in 1 .. Len(seqs) : \E j \in 1 .. Len(seqs[k]) : i = pre[k - 1] + j
    BY <1>1, Zenon DEF Laid
  <1> HIDE DEF F
  <1>3. ASSUME Has(F, x) PROVE \E k \in 1 .. Len(seqs) : Has(seqs[k], x)
    <2>1. PICK i \in 1 .. Len(F) : F[i] = x
      BY <1>3 DEF Has
    <2>2. PICK k \in 1 .. Len(seqs) : \E j \in 1 .. Len(seqs[k]) : i = pre[k - 1] + j
      BY <1>2, Zenon
    <2>4. PICK j \in 1 .. Len(seqs[k]) : i = pre[k - 1] + j
      BY <2>2, Zenon
    <2>3. seqs[k][j] = x
      BY <1>2, <2>1, <2>4, Zenon
    <2> QED
      BY <2>3, Zenon DEF Has
  <1>4. ASSUME NEW k \in 1 .. Len(seqs), Has(seqs[k], x) PROVE Has(F, x)
    <2>1. PICK j \in 1 .. Len(seqs[k]) : seqs[k][j] = x
      BY <1>4, Zenon DEF Has
    <2> QED
      BY <1>2, <2>1, Zenon DEF Has
  <1> QED
    BY <1>3, <1>4 DEF F

\* Every sheet is taken by a worker.
LEMMA StrideHolds ==
  ASSUME NEW S, NEW sheets \in Seq(S), NEW m \in Nat, Len(sheets) = m * WorkerNum, NEW x
  PROVE  Has(sheets, x) <=> \E w \in Ranks : Has(Stride(sheets, w), x)
  <1>0. WorkerNum \in Nat \ {0}
    BY SizesGiven
  <1>1. ASSUME NEW i \in 1 .. Len(sheets) PROVE \E w \in Ranks : \E k \in 1 .. m : i = w + (k - 1) * WorkerNum + 1
    <2>1. PICK k, w : k = (i - 1) \div WorkerNum + 1 /\ w = (i - 1) % WorkerNum
      OBVIOUS
    <2>2. k \in 1 .. m /\ w \in 0 .. (WorkerNum - 1) /\ i = (k - 1) * WorkerNum + w + 1
      <3>1. i \in 1 .. m * WorkerNum
        BY Zenon
      <3> QED
        BY <1>0, <2>1, <3>1, PartOf, Zenon
    <2>3. PICK y \in Nat : y = (k - 1) * WorkerNum
      <3>1. k - 1 \in Nat
        BY <2>2
      <3> QED
        BY <1>0, <3>1, ProductNat
    <2>4. i = y + w + 1
      BY <2>2, <2>3, Zenon
    <2>5. i = w + y + 1
      BY <2>2, <2>4
    <2> QED
      BY <2>2, <2>3, <2>5, Zenon DEF Ranks
  <1>2. \A w \in Ranks : /\ Len(Stride(sheets, w)) = m
                         /\ \A k \in 1 .. m : /\ w + (k - 1) * WorkerNum + 1 \in 1 .. Len(sheets)
                                              /\ Stride(sheets, w)[k] = sheets[w + (k - 1) * WorkerNum + 1]
    BY StrideFacts
  <1>3. ASSUME Has(sheets, x) PROVE \E w \in Ranks : Has(Stride(sheets, w), x)
    <2>1. PICK i \in 1 .. Len(sheets) : sheets[i] = x
      BY <1>3 DEF Has
    <2>2. PICK w \in Ranks : \E k \in 1 .. m : i = w + (k - 1) * WorkerNum + 1
      BY <1>1
    <2>3. PICK k \in 1 .. m : i = w + (k - 1) * WorkerNum + 1
      BY <2>2
    <2>4. Stride(sheets, w)[k] = x /\ k \in 1 .. Len(Stride(sheets, w))
      BY <1>2, <2>1, <2>3, Zenon
    <2> QED
      BY <2>4, Zenon DEF Has
  <1>4. ASSUME NEW w \in Ranks, Has(Stride(sheets, w), x) PROVE Has(sheets, x)
    <2>1. PICK k \in 1 .. Len(Stride(sheets, w)) : Stride(sheets, w)[k] = x
      BY <1>4 DEF Has
    <2>2. k \in 1 .. m
      BY <1>2, <2>1, Zenon
    <2> QED
      BY <1>2, <2>1, <2>2, Zenon DEF Has
  <1> QED
    BY <1>3, <1>4

\* The rows of a sheet, and what is read of a list of sheets.
LEMMA SheetRowsHold ==
  ASSUME NEW s \in SheetSet, NEW c \in Cells
  PROVE  Has(SheetRows(s), c) <=> SheetHolds(s, c)
  <1>1. s.start \in Nat /\ s.end \in Nat /\ s.start <= s.end /\ c.row \in Nat /\ c = [table |-> c.table, row |-> c.row]
    BY DEF SheetSet, Cells
  <1>2. PICK z \in Nat : z = s.end - s.start
    BY <1>1
  <1>3. SheetRows(s) = [i \in 1 .. z |-> [table |-> s.table, row |-> s.start + i - 1]]
    BY <1>2 DEF SheetRows
  <1>4. Len(SheetRows(s)) = z
    BY <1>3
  <1>5. ASSUME Has(SheetRows(s), c) PROVE SheetHolds(s, c)
    <2>1. PICK i \in 1 .. Len(SheetRows(s)) : SheetRows(s)[i] = c
      BY <1>5 DEF Has
    <2>2. c = [table |-> s.table, row |-> s.start + i - 1] /\ s.start <= s.start + i - 1 /\ s.start + i - 1 < s.end
      BY <2>1, RowsOfSheet
    <2>3. c.table = s.table /\ c.row = s.start + i - 1
      BY <1>1, <2>2
    <2> QED
      BY <2>2, <2>3 DEF SheetHolds, HasRow
  <1>6. ASSUME SheetHolds(s, c) PROVE Has(SheetRows(s), c)
    <2>1. c.table = s.table /\ s.start <= c.row /\ c.row < s.end
      BY <1>6 DEF SheetHolds, HasRow
    <2>2. PICK i \in 1 .. z : i = c.row - s.start + 1
      BY <1>1, <1>2, <2>1
    <2>3. s.start + i - 1 = c.row
      BY <1>1, <2>2
    <2>4. SheetRows(s)[i] = [table |-> s.table, row |-> s.start + i - 1]
      BY <1>3
    <2>5. SheetRows(s)[i] = c
      BY <1>1, <2>1, <2>3, <2>4, Zenon
    <2> QED
      BY <1>4, <2>5, Zenon DEF Has
  <1> QED
    BY <1>5, <1>6

\* What is read of a list of sheets is what the sheets hold.
LEMMA ReadHolds ==
  ASSUME NEW x \in Seq(SheetSet), NEW c \in Cells
  PROVE  Has(ReadSheets(x), c) <=> \E k \in 1 .. Len(x) : SheetHolds(x[k], c)
  <1> DEFINE p == ReadParts(x)
  <1>1. ReadSheets(x) = FlattenSeq(p) /\ p \in Seq(Seq(Cells))
    BY ReadPartsFacts DEF ReadSheets, ReadParts
  <1>2. \A n \in 1 .. Len(p) : \E k, u : IsPart(x, n, k, u)
    BY ReadPartsFacts
  <1>3. Has(ReadSheets(x), c) <=> \E n \in 1 .. Len(p) : Has(p[n], c)
    <2> HIDE DEF p
    <2>1. Has(FlattenSeq(p), c) <=> \E n \in 1 .. Len(p) : Has(p[n], c)
      BY <1>1, FlattenHolds, Zenon
    <2> QED
      BY <1>1, <2>1, Zenon
  <1>4. ASSUME NEW k \in 1 .. Len(x), NEW u \in 0 .. (SubNum - 1)
        PROVE  \E n \in 1 .. Len(p) : p[n] = SheetRows(ShardTableBySubprocess(x[k], u))
    <2>1. Len(x) \in Nat /\ SubNum \in Nat \ {0} /\ k \in 1 .. Len(x)
      BY SizesGiven
    <2>2. PICK a \in Nat, b \in Nat : a = (k - 1) * SubNum /\ b = Len(x) * SubNum
      <3>1. k - 1 \in Nat
        BY <2>1
      <3> QED
        BY <2>1, <3>1, ProductNat
    <2>3. a + SubNum <= b
      <3>1. ((k - 1) + 1) * SubNum = (k - 1) * SubNum + SubNum
        BY <2>1, Distribute
      <3>2. (k - 1) + 1 = k /\ k \in Int /\ Len(x) \in Int /\ k <= Len(x)
        BY <2>1
      <3>3. k * SubNum <= Len(x) * SubNum
        BY <2>1, <3>2, ProductsOrdered
      <3>4. k * SubNum = a + SubNum
        BY <2>2, <3>1, <3>2, Zenon
      <3> QED
        BY <2>2, <3>3, <3>4, Zenon
    <2>4. PICK n \in 1 .. b : n = a + u + 1
      BY <2>1, <2>3
    <2>5. Len(p) = b
      BY <2>2 DEF ReadParts
    <2>6. n \in 1 .. Len(p)
      BY <2>5
    <2>7. PICK l, v : IsPart(x, n, l, v)
      BY <1>2, <2>6
    <2>8. l \in 1 .. Len(x) /\ v \in 0 .. (SubNum - 1) /\ n = (l - 1) * SubNum + v + 1
          /\ p[n] = SheetRows(ShardTableBySubprocess(x[l], v))
      BY <2>7, Zenon DEF IsPart
    <2> HIDE DEF p
    <2>9. (l - 1) * SubNum + v = (k - 1) * SubNum + u
      <3>1. PICK e \in Nat : e = (l - 1) * SubNum
        <4>1. l - 1 \in Nat
          BY <2>8
        <4> QED
          BY <2>1, <4>1, ProductNat
      <3>2. n = e + v + 1
        BY <2>8, <3>1, Zenon
      <3>3. e + v = a + u
        BY <2>4, <2>8, <3>2
      <3> QED
        BY <2>2, <3>1, <3>3, Zenon
    <2>10. l = k /\ v = u
      <3>1. l - 1 \in Int /\ k - 1 \in Int
        BY <2>1, <2>8
      <3>2. l - 1 = k - 1 /\ v = u
        BY <2>1, <2>8, <2>9, <3>1, SameQuotient
      <3> QED
        BY <2>1, <2>8, <3>2
    <2> QED
      BY <2>6, <2>8, <2>10, Zenon
  <1> HIDE DEF p
  <1>5. \A k \in 1 .. Len(x) : x[k] \in SheetSet
    OBVIOUS
  <1>6. ASSUME NEW n \in 1 .. Len(p), Has(p[n], c) PROVE \E k \in 1 .. Len(x) : SheetHolds(x[k], c)
    <2>1. PICK k, u : IsPart(x, n, k, u)
      BY <1>2
    <2> DEFINE s == ShardTableBySubprocess(x[k], u)
    <2>2. k \in 1 .. Len(x) /\ u \in 0 .. (SubNum - 1) /\ p[n] = SheetRows(s) /\ s \in SheetSet /\ x[k] \in SheetSet
      BY <1>5, <2>1, Zenon DEF IsPart, p
    <2>3. s.table = x[k].table /\ x[k].start <= s.start /\ s.end <= x[k].end
      BY <2>2, SubprocessFacts, Zenon
    <2> HIDE DEF s
    <2>4. SheetHolds(s, c)
      BY <1>6, <2>2, SheetRowsHold, Zenon
    <2>5. HasRow(x[k], c.row)
      <3>1. /\ s.start \in Nat /\ s.end \in Nat /\ x[k].start \in Nat /\ x[k].end \in Nat /\ c.row \in Nat
        BY <2>2 DEF SheetSet, Cells
      <3>2. s.start <= c.row /\ c.row < s.end
        BY <2>4 DEF SheetHolds, HasRow
      <3>3. PICK a \in Nat, b \in Nat, d \in Nat, e \in Nat, g \in Nat :
               a = s.start /\ b = s.end /\ d = x[k].start /\ e = x[k].end /\ g = c.row
        BY <3>1
      <3>4. a <= g /\ g < b /\ d <= a /\ b <= e
        BY <2>3, <3>2, <3>3, Zenon
      <3>5. d <= g /\ g < e
        BY <3>4
      <3> QED
        BY <3>3, <3>5, Zenon DEF HasRow
    <2> QED
      BY <2>2, <2>3, <2>4, <2>5, Zenon DEF SheetHolds
  <1>7. ASSUME NEW k \in 1 .. Len(x), SheetHolds(x[k], c) PROVE \E n \in 1 .. Len(p) : Has(p[n], c)
    <2>1. HasRow(x[k], c.row) /\ c.row \in Nat /\ x[k] \in SheetSet
      BY <1>5, <1>7 DEF SheetHolds, Cells
    <2>2. PICK u \in 0 .. (SubNum - 1) : HasRow(ShardTableBySubprocess(x[k], u), c.row)
      BY <2>1, SubprocessCovers
    <2>3. /\ ShardTableBySubprocess(x[k], u) \in SheetSet
          /\ ShardTableBySubprocess(x[k], u).table = x[k].table
      BY <2>1, SubprocessFacts, Zenon
    <2>4. Has(SheetRows(ShardTableBySubprocess(x[k], u)), c)
      BY <1>7, <2>2, <2>3, SheetRowsHold, Zenon DEF SheetHolds
    <2> QED
      BY <1>4, <2>4, Zenon
  <1> QED
    BY <1>3, <1>6, <1>7

\* Some sheet of a list holds the row.
SheetsHold(x, c) == \E k \in 1 .. Len(x) : SheetHolds(x[k], c)

\* A list of sheets holds a row when one of its sheets does.
LEMMA SheetsHaveOne ==
  ASSUME NEW x, NEW c
  PROVE  SheetsHold(x, c) <=> \E s : Has(x, s) /\ SheetHolds(s, c)
  BY Zenon DEF SheetsHold, Has

\* Flattened lists of sheets hold what the lists hold.
LEMMA FlattenSheets ==
  ASSUME NEW seqs \in Seq(Seq(SheetSet)), NEW c
  PROVE  SheetsHold(FlattenSeq(seqs), c) <=> \E k \in 1 .. Len(seqs) : SheetsHold(seqs[k], c)
  <1>1. \A s : Has(FlattenSeq(seqs), s) <=> \E k \in 1 .. Len(seqs) : Has(seqs[k], s)
    BY FlattenHolds
  <1>2. SheetsHold(FlattenSeq(seqs), c) <=> \E s : Has(FlattenSeq(seqs), s) /\ SheetHolds(s, c)
    BY SheetsHaveOne, Zenon
  <1>3. \A k : SheetsHold(seqs[k], c) <=> \E s : Has(seqs[k], s) /\ SheetHolds(s, c)
    BY SheetsHaveOne, Zenon
  <1> QED
    BY <1>1, <1>2, <1>3, Zenon

\* A row that some sheet holds is held by the sheets of some worker.
LEMMA StrideSheets ==
  ASSUME NEW sheets \in Seq(SheetSet), NEW m \in Nat, Len(sheets) = m * WorkerNum, NEW c
  PROVE  SheetsHold(sheets, c) <=> \E w \in Ranks : SheetsHold(Stride(sheets, w), c)
  <1>1. \A s : Has(sheets, s) <=> \E w \in Ranks : Has(Stride(sheets, w), s)
    BY StrideHolds
  <1>2. SheetsHold(sheets, c) <=> \E s : Has(sheets, s) /\ SheetHolds(s, c)
    BY SheetsHaveOne, Zenon
  <1>3. \A w : SheetsHold(Stride(sheets, w), c) <=> \E s : Has(Stride(sheets, w), s) /\ SheetHolds(s, c)
    BY SheetsHaveOne, Zenon
  <1> QED
    BY <1>1, <1>2, <1>3, Zenon

\* The shards of a range hold its rows and no others.
LEMMA BuildHolds ==
  ASSUME NEW t \in Nat, NEW begin \in Nat, NEW length \in Nat, NEW num \in Nat \ {0}, NEW extra \in Nat,
         NEW c \in Cells
  PROVE  SheetsHold(BuildShard(t, begin, length, num, extra), c)
           <=> c.table = t /\ begin <= c.row /\ c.row < begin + length
  <1> DEFINE b == BuildShard(t, begin, length, num, extra)
  <1>1. InOrder(b, t, begin, begin + length) /\ Len(b) = num
    BY BuildFacts
  <1>2. c.row \in Nat
    BY DEF Cells
  <1>3. c.row \in Nat /\ begin <= c.row /\ c.row < begin + length => \E i \in 1 .. num : HasRow(b[i], c.row)
    BY BuildCovers
  <1> HIDE DEF b
  <1>4. b \in Seq(SheetSet) /\ \A i \in 1 .. Len(b) : b[i].table = t /\ begin <= b[i].start /\ b[i].end <= begin + length
    BY <1>1 DEF InOrder
  <1>5. ASSUME SheetsHold(b, c) PROVE c.table = t /\ begin <= c.row /\ c.row < begin + length
    <2>1. PICK i \in 1 .. Len(b) : SheetHolds(b[i], c)
      BY <1>5 DEF SheetsHold
    <2>2. b[i] \in SheetSet
      BY <1>4
    <2>3. b[i].start \in Nat /\ b[i].end \in Nat
      BY <2>2 DEF SheetSet
    <2>4. PICK x \in Nat, y \in Nat : x = b[i].start /\ y = b[i].end
      BY <2>3
    <2>5. b[i].table = c.table /\ x <= c.row /\ c.row < y
      BY <2>1, <2>4, Zenon DEF SheetHolds, HasRow
    <2>6. b[i].table = t /\ begin <= x /\ y <= begin + length
      BY <1>4, <2>4, Zenon
    <2>7. begin <= c.row /\ c.row < begin + length
      BY <1>2, <2>5, <2>6
    <2> QED
      BY <2>5, <2>6, <2>7, Zenon
  <1>6. ASSUME c.table = t, begin <= c.row, c.row < begin + length PROVE SheetsHold(b, c)
    <2>1. PICK i \in 1 .. num : HasRow(b[i], c.row)
      BY <1>2, <1>3, <1>6, Zenon
    <2>2. i \in 1 .. Len(b) /\ b[i].table = c.table
      BY <1>1, <1>4, <1>6, Zenon
    <2> QED
      BY <2>1, <2>2, Zenon DEF SheetsHold, SheetHolds
  <1> QED
    BY <1>5, <1>6 DEF b

\* The rows of the tables.
TableRows == {c \in Cells : c.table \in DOMAIN Tables /\ c.row < Tables[c.table]}

\* The sheets P of the workers fill whole windows, and hold the rows of the tables.
PathsWhole(P) ==
    /\ \E N \in Nat : \A r \in Ranks : Len(P[r]) = N * WindowThreads
    /\ \A c \in Cells : (\E r \in Ranks : SheetsHold(P[r], c)) <=> c \in TableRows

\* The windows d of the ranks hold the rows of the tables.
WindowHas(d, r, c) == \E n \in 1 .. Len(d[r]) : Has(d[r][n], c)
DataWhole(d) == \A c \in Cells : (\E r \in Ranks : WindowHas(d, r, c)) <=> c \in TableRows

\* What is read of the windows of a worker is what its sheets hold.
LEMMA WindowsRead ==
  ASSUME NEW s \in Seq(SheetSet), NEW N \in Nat, Len(s) = N * WindowThreads, NEW c \in Cells
  PROVE  SheetsHold(s, c) <=>
           \E n \in 1 .. Len(s) \div WindowThreads :
              Has(ReadSheets(SubSeq(s, (n - 1) * WindowThreads + 1, n * WindowThreads)), c)
  <1> DEFINE T == WindowThreads
             M == Len(s) \div WindowThreads
             w(n) == SubSeq(s, (n - 1) * WindowThreads + 1, n * WindowThreads)
  <1>0. T \in Nat \ {0} /\ T \in Int
    BY ThreadsFacts
  <1>1. M = N
    <2>1. Len(s) \in Int
      OBVIOUS
    <2>2. M \in Int /\ (Len(s) % T) \in 0 .. (T - 1) /\ Len(s) = M * T + (Len(s) % T)
      BY <1>0, <2>1, DivisionFacts, Zenon
    <2>3. PICK x \in Int, y \in 0 .. (T - 1) : x = M /\ y = Len(s) % T
      BY <2>2
    <2>4. PICK z \in Nat : z = N * T
      BY <1>0, ProductNat
    <2>5. x * T + y = N * T + 0
      <3>1. x * T + y = z
        BY <2>2, <2>3, <2>4, Zenon
      <3>2. z + 0 = z
        BY <2>4
      <3> QED
        BY <2>4, <3>1, <3>2, Zenon
    <2>6. 0 \in 0 .. (T - 1) /\ N \in Int
      BY <1>0
    <2> HIDE DEF T, M
    <2>7. x = N
      BY <1>0, <2>3, <2>5, <2>6, SameQuotient
    <2> QED
      BY <2>3, <2>7, Zenon
  <1>2. \A n \in 1 .. M : /\ w(n) \in Seq(SheetSet) /\ Len(w(n)) = T
                          /\ \A k \in 1 .. T : (n - 1) * T + k \in 1 .. Len(s) /\ w(n)[k] = s[(n - 1) * T + k]
    BY WindowSheets
  <1> HIDE DEF w, T, M
  <1>3. \A n \in 1 .. M : Has(ReadSheets(w(n)), c) <=> \E k \in 1 .. Len(w(n)) : SheetHolds(w(n)[k], c)
    BY <1>2, ReadHolds
  <1>4. ASSUME SheetsHold(s, c) PROVE \E n \in 1 .. M : Has(ReadSheets(w(n)), c)
    <2>1. PICK i \in 1 .. Len(s) : SheetHolds(s[i], c)
      BY <1>4 DEF SheetsHold
    <2>2. i \in 1 .. N * T
      BY <2>1, Zenon DEF T
    <2>3. PICK n, j : n = (i - 1) \div T + 1 /\ j = (i - 1) % T
      OBVIOUS
    <2>4. n \in 1 .. N /\ j \in 0 .. (T - 1) /\ i = (n - 1) * T + j + 1
      BY <1>0, <2>2, <2>3, PartOf, Zenon
    <2>5. PICK k \in 1 .. T : k = j + 1
      BY <1>0, <2>4
    <2>6. i = (n - 1) * T + k
      <3>1. PICK z \in Nat : z = (n - 1) * T
        <4>1. n - 1 \in Nat
          BY <2>4
        <4> QED
          BY <1>0, <4>1, ProductNat
      <3>2. i = z + j + 1
        BY <2>4, <3>1, Zenon
      <3>3. i = z + k
        BY <2>4, <2>5, <3>1, <3>2
      <3> QED
        BY <3>1, <3>3, Zenon
    <2>7. n \in 1 .. M
      BY <1>1, <2>4
    <2>8. SheetHolds(w(n)[k], c) /\ k \in 1 .. Len(w(n))
      BY <1>2, <2>1, <2>6, <2>7, Zenon
    <2> QED
      BY <1>3, <2>7, <2>8, Zenon
  <1>5. ASSUME NEW n \in 1 .. M, Has(ReadSheets(w(n)), c) PROVE SheetsHold(s, c)
    <2>1. PICK k \in 1 .. Len(w(n)) : SheetHolds(w(n)[k], c)
      BY <1>3, <1>5, Zenon
    <2>2. k \in 1 .. T
      BY <1>2, <2>1, Zenon
    <2>3. (n - 1) * T + k \in 1 .. Len(s) /\ SheetHolds(s[(n - 1) * T + k], c)
      BY <1>2, <2>1, <2>2, Zenon
    <2> QED
      BY <2>3, Zenon DEF SheetsHold
  <1> QED
    BY <1>4, <1>5, Zenon DEF w, M

\* Paths that hold every row make windows that hold every row.
LEMMA WholePathsWholeWindows ==
  ASSUME NEW way \in {"split", "row"},
         PathsGood([r \in Ranks |-> WindowPaths(way, r)]), PathsWhole([r \in Ranks |-> WindowPaths(way, r)])
  PROVE  DataWhole([r \in Ranks |-> Windows(way, r)])
  <1> DEFINE P == [r \in Ranks |-> WindowPaths(way, r)]
             d == [r \in Ranks |-> Windows(way, r)]
             w(s, n) == ReadSheets(SubSeq(s, (n - 1) * WindowThreads + 1, n * WindowThreads))
  <1>1. \A r \in Ranks : P[r] = WindowPaths(way, r) /\ d[r] = Windows(way, r)
    OBVIOUS
  <1>2. \A r \in Ranks : Windows(way, r) = [n \in 1 .. Len(WindowPaths(way, r)) \div WindowThreads |-> w(WindowPaths(way, r), n)]
    BY DEF Windows
  <1> HIDE DEF P, d
  <1>3. \A r \in Ranks : P[r] \in Seq(SheetSet)
    BY DEF PathsGood, P
  <1>4. PICK N \in Nat : \A r \in Ranks : Len(P[r]) = N * WindowThreads
    BY DEF PathsWhole, P
  <1>5. ASSUME NEW r \in Ranks, NEW c \in Cells PROVE WindowHas(d, r, c) <=> SheetsHold(P[r], c)
    <2> DEFINE M == Len(P[r]) \div WindowThreads
    <2>1. d[r] = [n \in 1 .. M |-> w(P[r], n)]
      BY <1>1, <1>2, Zenon
    <2>2. M \in Nat
      <3>1. Len(P[r]) \in Nat /\ Len(P[r]) \in Int
        BY <1>3
      <3> QED
        BY <3>1, ThreadsFacts, DivisionFacts
    <2>3. SheetsHold(P[r], c) <=> \E n \in 1 .. M : Has(w(P[r], n), c)
      BY <1>3, <1>4, WindowsRead
    <2> HIDE DEF w, M
    <2>4. Len(d[r]) = M /\ \A n \in 1 .. M : d[r][n] = w(P[r], n)
      <3>1. PICK f : f = d[r]
        OBVIOUS
      <3>2. f = [n \in 1 .. M |-> w(P[r], n)]
        BY <2>1, <3>1, Zenon
      <3>3. Len(f) = M /\ \A n \in 1 .. M : f[n] = w(P[r], n)
        BY <2>2, <3>2
      <3> QED
        BY <3>1, <3>3, Zenon
    <2> QED
      BY <2>3, <2>4, Zenon DEF WindowHas
  <1>6. \A c \in Cells : (\E r \in Ranks : SheetsHold(P[r], c)) <=> c \in TableRows
    BY DEF PathsWhole, P
  <1>7. DataWhole(d)
    BY <1>5, <1>6, Zenon DEF DataWhole
  <1> QED
    BY <1>7 DEF d

\* Sequences with multiples of d elements make one with a multiple of d.
LEMMA FlattenMultiple ==
  ASSUME NEW S, NEW p \in Seq(Seq(S)), NEW d \in Nat, \A k \in 1 .. Len(p) : \E j \in Nat : Len(p[k]) = j * d
  PROVE  \E j \in Nat : Len(FlattenSeq(p)) = j * d
  <1>1. PICK pre : Offsets(p, pre) /\ Laid(p, pre, FlattenSeq(p))
    BY FlattenLays
  <1> DEFINE wrong == {k \in 0 .. Len(p) : ~\E j \in Nat : pre[k] = j * d}
  <1>2. wrong = {}
    <2> SUFFICES ASSUME wrong # {} PROVE FALSE
      OBVIOUS
    <2>1. wrong \subseteq Nat
      OBVIOUS
    <2>2. PICK k \in wrong : \A m \in wrong : k <= m
      <3> HIDE DEF wrong
      <3> QED
        BY <2>1, LeastNatural
    <2>3. k \in 0 .. Len(p) /\ k \in Nat /\ ~\E j \in Nat : pre[k] = j * d
      BY <2>2
    <2>4. k # 0
      <3>1. pre[0] = 0 /\ 0 = 0 * d /\ 0 \in Nat
        BY <1>1 DEF Offsets
      <3> QED
        BY <2>3, <3>1, Zenon
    <2>5. k \in 1 .. Len(p) /\ k - 1 \in 0 .. Len(p) /\ ~(k <= k - 1)
      BY <2>3, <2>4
    <2>6. k - 1 \notin wrong
      <3> HIDE DEF wrong
      <3> QED
        BY <2>2, <2>5
    <2>7. PICK i \in Nat : pre[k - 1] = i * d
      BY <2>5, <2>6
    <2>8. PICK j \in Nat : Len(p[k]) = j * d
      BY <2>5
    <2>9. pre[k] = pre[k - 1] + Len(p[k])
      BY <1>1, <2>5, Zenon DEF Offsets
    <2>10. i * d + j * d = (i + j) * d /\ i + j \in Nat
      BY Z3
    <2>11. pre[k] = (i + j) * d
      BY <2>7, <2>8, <2>9, <2>10, Zenon
    <2> QED
      BY <2>3, <2>10, <2>11, Zenon
  <1>3. Len(p) \in 0 .. Len(p)
    OBVIOUS
  <1>4. \E j \in Nat : pre[Len(p)] = j * d
    BY <1>2, <1>3
  <1> QED
    BY <1>1, <1>4 DEF Laid

\* The chunk of a row.
LEMMA ChunkOf ==
  ASSUME NEW rows \in Nat, NEW n \in Nat, n < rows
  PROVE  \E c \in 1 .. CeilDiv(rows, ChunkRows) : (c - 1) * ChunkRows <= n /\ n < (c - 1) * ChunkRows + ChunkRows
  <1> DEFINE h == ChunkRows
             q == rows + h - 1
             k == q \div h
             a == n \div h
  <1>0. h \in Nat \ {0} /\ h \in Int
    <2>1. RowNum \in Nat \ {0} /\ WorkerNum \in Nat \ {0}
      BY SizesGiven
    <2> QED
      BY <2>1, Z3 DEF ChunkRows
  <1> HIDE DEF h
  <1>1. q \in Nat /\ q \in Int /\ n \in Int
    BY <1>0
  <1>2. CeilDiv(rows, h) = k
    BY DEF CeilDiv
  <1>3. k \in Nat /\ (q % h) \in 0 .. (h - 1) /\ q = k * h + (q % h)
    <2> HIDE DEF q
    <2> QED
      BY <1>0, <1>1, DivisionFacts, Zenon
  <1>4. a \in Nat /\ (n % h) \in 0 .. (h - 1) /\ n = a * h + (n % h)
    BY <1>0, <1>1, DivisionFacts, Zenon
  <1> HIDE DEF k, a
  <1>5. PICK x \in Nat : x = a * h
    BY <1>0, <1>4, ProductNat
  <1>6. PICK y \in 0 .. (h - 1) : y = n % h
    BY <1>4
  <1>7. n = x + y
    BY <1>4, <1>5, <1>6, Zenon
  <1>8. x <= n /\ n < x + h
    BY <1>0, <1>5, <1>6, <1>7
  <1>9. a + 1 \in 1 .. k
    <2>1. PICK z \in Nat : z = k * h
      BY <1>0, <1>3, ProductNat
    <2>2. PICK r \in 0 .. (h - 1) : r = q % h
      BY <1>3
    <2>3. rows + h - 1 = z + r
      <3>1. PICK e \in Int : e = q
        BY <1>1
      <3>2. e = z + r
        BY <1>3, <2>1, <2>2, <3>1, Zenon
      <3> QED
        BY <3>1, <3>2
    <2>4. x < z
      BY <1>0, <1>5, <1>8, <2>1, <2>2, <2>3
    <2>5. a * h < k * h
      BY <1>5, <2>1, <2>4, Zenon
    <2>6. a < k
      <3>1. a \in Int /\ k \in Int /\ h \in Nat
        BY <1>0, <1>3, <1>4
      <3> QED
        BY <2>5, <3>1, ProductsOrdered
    <2> QED
      BY <1>3, <1>4, <2>6
  <1>10. (a + 1) - 1 = a
    BY <1>4
  <1> QED
    BY <1>2, <1>5, <1>8, <1>9, <1>10, Zenon DEF h

\* The paths of the row datasets hold the rows of the tables and no others.
LEMMA RowHolds ==
  ASSUME NEW t \in DOMAIN Tables, NEW threads \in Nat \ {0}
  PROVE  /\ FlattenSeq(RowSheets(t, threads)) \in Seq(SheetSet)
         /\ \E k \in Nat : Len(FlattenSeq(RowSheets(t, threads))) = (k * threads) * WorkerNum
         /\ \A c \in Cells : SheetsHold(FlattenSeq(RowSheets(t, threads)), c) <=> c.table = t /\ c.row < Tables[t]
  <1> DEFINE rows == Tables[t]
             h == ChunkRows
             num == WorkerNum * threads
             n == CeilDiv(rows, h)
             from(c) == (c - 1) * h
             p == RowSheets(t, threads)
  <1>0. t \in Nat /\ rows \in Nat /\ WorkerNum \in Nat \ {0} /\ num \in Nat \ {0}
    <2>1. t \in 1 .. Len(Tables) /\ Tables \in Seq(Nat) /\ WorkerNum \in Nat \ {0}
      BY SizesGiven
    <2>2. num \in Nat \ {0}
      BY <2>1, Z3
    <2> QED
      BY <2>1, <2>2
  <1>1. p = [c \in 1 .. n |-> BuildShard(t, from(c), Min({h, rows - from(c)}), num, from(c) % num)]
    BY DEF RowSheets
  <1> HIDE DEF p, num
  <1>a. \A x \in Nat : x < rows => \E c \in 1 .. n : from(c) <= x /\ x < from(c) + h
    BY <1>0, ChunkOf
  <1>b. ASSUME NEW c \in 1 .. n
        PROVE  h \in Nat \ {0} /\ from(c) \in Nat /\ from(c) <= rows
    <2> HIDE DEF rows
    <2> QED
      BY <1>0, ChunkBegins
  <1>c. n \in Nat
    <2>1. h \in Nat \ {0}
      <3>1. RowNum \in Nat \ {0} /\ WorkerNum \in Nat \ {0}
        BY SizesGiven
      <3> QED
        BY <3>1, Z3 DEF ChunkRows
    <2> HIDE DEF h
    <2>2. PICK q \in Nat : q = rows + h - 1
      BY <1>0, <2>1
    <2>3. q \in Int /\ n = q \div h
      BY <2>2 DEF CeilDiv
    <2> QED
      BY <2>1, <2>2, <2>3, DivisionFacts
  <1> HIDE DEF rows, h, n, from
  <1>2. ASSUME NEW c \in 1 .. n
        PROVE  /\ p[c] \in Seq(SheetSet) /\ Len(p[c]) = num
               /\ \A x \in Cells : SheetsHold(p[c], x)
                    <=> x.table = t /\ from(c) <= x.row /\ x.row < from(c) + h /\ x.row < rows
    <2>0. h \in Nat \ {0} /\ from(c) \in Nat /\ from(c) <= rows
      BY <1>b
    <2>1. PICK b \in Nat, z \in Nat : b = from(c) /\ z = rows - from(c)
      BY <1>0, <2>0
    <2>2. PICK len \in Nat : len = Min({h, z}) /\ len = IF h <= z THEN h ELSE z
      <3>1. h \in Int /\ z \in Int
        BY <2>0
      <3>2. Min({h, z}) = IF h <= z THEN h ELSE z
        BY <3>1, SmallerOf
      <3> QED
        BY <2>0, <3>2
    <2>3. PICK extra \in Nat : extra = from(c) % num
      <3>1. from(c) \in Int
        BY <2>0
      <3>2. (from(c) % num) \in 0 .. (num - 1)
        BY <1>0, <3>1, DivisionFacts, Zenon
      <3> QED
        BY <1>0, <3>2
    <2>4. PICK m \in Nat \ {0} : m = num
      BY <1>0
    <2>5. p[c] = BuildShard(t, b, len, m, extra)
      BY <1>1, <2>1, <2>2, <2>3, <2>4, Zenon
    <2>6. InOrder(BuildShard(t, b, len, m, extra), t, b, b + len) /\ Len(BuildShard(t, b, len, m, extra)) = m
      <3>1. t \in Nat /\ m \in Nat
        BY <1>0, <2>4
      <3>2. InOrder(BuildShard(t, b, len, m, extra), t, b, b + len)
        BY <3>1, BuildFacts
      <3>3. Len(BuildShard(t, b, len, m, extra)) = m
        BY <3>1 DEF BuildShard
      <3> QED
        BY <3>2, <3>3
    <2>7. \A x \in Cells : SheetsHold(BuildShard(t, b, len, m, extra), x) <=> x.table = t /\ b <= x.row /\ x.row < b + len
      BY <1>0, BuildHolds
    <2>8. \A x \in Nat : x < b + len <=> x < b + h /\ x < rows
      <3>1. rows = b + z /\ h \in Nat
        BY <1>0, <2>0, <2>1
      <3> QED
        BY <2>2, <3>1
    <2>9. \A x \in Cells : x.row \in Nat
      BY DEF Cells
    <2>10. p[c] \in Seq(SheetSet)
      BY <2>5, <2>6 DEF InOrder
    <2>11. Len(p[c]) = num
      BY <2>4, <2>5, <2>6, Zenon
    <2> QED
      BY <2>1, <2>5, <2>7, <2>8, <2>9, <2>10, <2>11, Zenon
  <1>3. p \in Seq(Seq(SheetSet)) /\ Len(p) = n
    <2>1. p = [c \in 1 .. n |-> p[c]] /\ \A c \in 1 .. n : p[c] \in Seq(SheetSet)
      BY <1>1, <1>2
    <2> QED
      BY <1>c, <2>1
  <1>4. FlattenSeq(p) \in Seq(SheetSet)
    BY <1>3, FlattenLays
  <1>5. \E k \in Nat : Len(FlattenSeq(p)) = (k * threads) * WorkerNum
    <2>1. \A c \in 1 .. Len(p) : Len(p[c]) = num
      BY <1>2, <1>3
    <2>2. num \in Nat
      BY <1>0
    <2>3. Len(FlattenSeq(p)) = n * num
      BY <1>3, <2>1, <2>2, FlattenUniform
    <2>4. n * num = (n * threads) * WorkerNum
      BY <1>0, <1>c, Z3 DEF num
    <2> QED
      BY <1>c, <2>3, <2>4, Zenon
  <1>6. ASSUME NEW c \in Cells PROVE SheetsHold(FlattenSeq(p), c) <=> c.table = t /\ c.row < rows
    <2>1. SheetsHold(FlattenSeq(p), c) <=> \E k \in 1 .. Len(p) : SheetsHold(p[k], c)
      BY <1>3, FlattenSheets
    <2>2. c.row \in Nat
      BY DEF Cells
    <2> QED
      BY <1>2, <1>3, <1>a, <2>1, <2>2, Zenon
  <1> QED
    BY <1>4, <1>5, <1>6, Zenon DEF p, rows

\* The paths of the row datasets hold every row.
LEMMA RowPathsWhole == PathsWhole([r \in Ranks |-> WindowPaths("row", r)])
  <1> DEFINE T == WindowThreads
             N == Len(Tables)
             F(t) == FlattenSeq(RowSheets(t, T))
             p == [r \in Ranks |-> [t \in 1 .. N |-> Stride(F(t), r)]]
             P == [r \in Ranks |-> WindowPaths("row", r)]
  <1>0. T \in Nat \ {0} /\ N \in Nat /\ DOMAIN Tables = 1 .. N
    BY SizesGiven, ThreadsFacts
  <1>1. \A r \in Ranks : P[r] = FlattenSeq(p[r])
    <2> TAKE r \in Ranks
    <2>1. \A t : ShardSheetsByRowNum(t, r, T) = Stride(F(t), r)
      BY DEF ShardSheetsByRowNum, RowSheets, ChunkRows
    <2>2. P[r] = FlattenSeq([t \in DOMAIN Tables |-> ShardSheetsByRowNum(t, r, T)])
      BY DEF WindowPaths, WindowPathsByRow
    <2>3. p[r] = [t \in DOMAIN Tables |-> ShardSheetsByRowNum(t, r, T)]
      BY <1>0, <2>1
    <2> QED
      BY <2>2, <2>3, Zenon
  <1>2. \A r \in Ranks : p[r] = [t \in 1 .. N |-> Stride(F(t), r)]
    OBVIOUS
  <1>3. P \in [Ranks -> Seq(SheetSet)] /\ \A r \in Ranks : Len(P[r]) = Len(P[0])
    BY RowPathsGood DEF PathsGood
  <1> HIDE DEF T, N, F, p, P
  <1>4. ASSUME NEW t \in 1 .. N
        PROVE  /\ F(t) \in Seq(SheetSet) /\ \E k \in Nat : Len(F(t)) = (k * T) * WorkerNum
               /\ \A c \in Cells : SheetsHold(F(t), c) <=> c.table = t /\ c.row < Tables[t]
    BY <1>0, RowHolds DEF F
  <1>5. ASSUME NEW t \in 1 .. N
        PROVE  /\ \A r \in Ranks : Stride(F(t), r) \in Seq(SheetSet) /\ \E k \in Nat : Len(Stride(F(t), r)) = k * T
               /\ \A c \in Cells : (\E r \in Ranks : SheetsHold(Stride(F(t), r), c)) <=> c.table = t /\ c.row < Tables[t]
    <2>1. PICK k \in Nat : Len(F(t)) = (k * T) * WorkerNum
      BY <1>4
    <2>2. PICK m \in Nat : m = k * T
      BY <1>0, ProductNat
    <2>3. Len(F(t)) = m * WorkerNum /\ F(t) \in Seq(SheetSet)
      BY <1>4, <2>1, <2>2, Zenon
    <2>4. \A r \in Ranks : Stride(F(t), r) \in Seq(SheetSet) /\ Len(Stride(F(t), r)) = m
      BY <2>3, StrideFacts
    <2>5. \A c : SheetsHold(F(t), c) <=> \E r \in Ranks : SheetsHold(Stride(F(t), r), c)
      BY <2>3, StrideSheets
    <2> QED
      BY <1>4, <2>2, <2>4, <2>5, Zenon
  <1>6. ASSUME NEW r \in Ranks
        PROVE  p[r] \in Seq(Seq(SheetSet)) /\ Len(p[r]) = N /\ \A t \in 1 .. N : p[r][t] = Stride(F(t), r)
    <2>1. \A t \in 1 .. N : Stride(F(t), r) \in Seq(SheetSet)
      BY <1>5
    <2>2. PICK g : g = p[r]
      OBVIOUS
    <2>3. g = [t \in 1 .. N |-> Stride(F(t), r)]
      BY <1>2, <2>2, Zenon
    <2>4. g \in Seq(Seq(SheetSet)) /\ Len(g) = N /\ \A t \in 1 .. N : g[t] = Stride(F(t), r)
      BY <1>0, <2>1, <2>3
    <2> QED
      BY <2>2, <2>4, Zenon
  <1>7. \E K \in Nat : \A r \in Ranks : Len(P[r]) = K * T
    <2>1. \A t \in 1 .. Len(p[0]) : \E k \in Nat : Len(p[0][t]) = k * T
      BY <1>5, <1>6, RankZero
    <2>2. \E K \in Nat : Len(FlattenSeq(p[0])) = K * T
      <3>1. p[0] \in Seq(Seq(SheetSet)) /\ T \in Nat
        BY <1>0, <1>6, RankZero
      <3> QED
        BY <2>1, <3>1, FlattenMultiple
    <2> QED
      BY <1>1, <1>3, <2>2, RankZero, Zenon
  <1>8. ASSUME NEW c \in Cells PROVE (\E r \in Ranks : SheetsHold(P[r], c)) <=> c \in TableRows
    <2>1. \A r \in Ranks : SheetsHold(P[r], c) <=> \E t \in 1 .. N : SheetsHold(Stride(F(t), r), c)
      <3> TAKE r \in Ranks
      <3>1. SheetsHold(FlattenSeq(p[r]), c) <=> \E t \in 1 .. Len(p[r]) : SheetsHold(p[r][t], c)
        BY <1>6, FlattenSheets
      <3> QED
        BY <1>1, <1>6, <3>1, Zenon
    <2>2. (\E r \in Ranks : SheetsHold(P[r], c)) <=> \E t \in 1 .. N : c.table = t /\ c.row < Tables[t]
      BY <1>5, <2>1, Zenon
    <2>3. c \in TableRows <=> c.table \in 1 .. N /\ c.row < Tables[c.table]
      BY <1>0 DEF TableRows
    <2> QED
      BY <2>2, <2>3, Zenon
  <1>9. PathsWhole(P)
    BY <1>7, <1>8, Zenon DEF PathsWhole, T
  <1> QED
    BY <1>9 DEF P

\* The parts of the first paths.
LEMMA PartsFacts ==
  /\ Parts \in [0 .. Len(Proportions) -> Nat] /\ Len(Proportions) \in Nat
  /\ Parts[0] = 0
  /\ \A n \in 1 .. Len(Proportions) : Proportions[n][1] \in Nat /\ Parts[n] = Parts[n - 1] + Proportions[n][1]
  <1> DEFINE N == Len(Proportions)
             a(n) == Proportions[n][1]
             Is(f) == f = [n \in 0 .. N |-> IF n = 0 THEN 0 ELSE f[n - 1] + a(n)]
             Sol(m, f) == f \in [0 .. m -> Nat] /\ \A n \in 0 .. m : f[n] = IF n = 0 THEN 0 ELSE f[n - 1] + a(n)
             bad == {m \in 0 .. N : ~\E f : Sol(m, f)}
  <1>0. N \in Nat /\ \A n \in 1 .. N : a(n) \in Nat
    <2>1. Proportions \in Seq(Nat \X (Nat \ {0}))
      BY ZenonT(60), WindowAssumption
    <2> QED
      BY <2>1
  <1>d. Parts = CHOOSE f : Is(f)
    BY DEF Parts
  <1> HIDE DEF a, N
  <1>1. bad = {}
    <2> SUFFICES ASSUME bad # {} PROVE FALSE
      OBVIOUS
    <2>1. bad \subseteq Nat
      BY <1>0
    <2>2. PICK m \in bad : \A k \in bad : m <= k
      <3> HIDE DEF bad
      <3> QED
        BY <2>1, LeastNatural
    <2>3. m \in 0 .. N /\ ~\E f : Sol(m, f)
      BY <2>2
    <2>4. CASE m = 0
      <3> DEFINE g == [n \in 0 .. 0 |-> 0]
      <3>1. Sol(0, g)
        BY <1>0
      <3> QED
        BY <2>3, <2>4, <3>1
    <2>5. CASE m # 0
      <3>0. m - 1 \in 0 .. N /\ m \in Nat /\ ~(m <= m - 1) /\ m \in 1 .. N /\ m - 1 \in 0 .. (m - 1)
        BY <1>0, <2>3, <2>5
      <3>1. m - 1 \notin bad
        <4> HIDE DEF bad
        <4> QED
          BY <2>2, <3>0
      <3>2. PICK f : Sol(m - 1, f)
        BY <3>0, <3>1
      <3> DEFINE v == f[m - 1] + a(m)
                 g == [n \in 0 .. m |-> IF n = m THEN v ELSE f[n]]
      <3>3. v \in Nat
        BY <1>0, <3>0, <3>2
      <3>4. \A n \in 0 .. m : n # m => n \in 0 .. (m - 1)
        BY <3>0
      <3>5. \A n \in 0 .. (m - 1) : f[n] \in Nat /\ f[n] = IF n = 0 THEN 0 ELSE f[n - 1] + a(n)
        BY <3>2
      <3> HIDE DEF v
      <3>6. g \in [0 .. m -> Nat]
        BY <3>3, <3>4, <3>5
      <3>7. (\A n \in 0 .. (m - 1) : g[n] = f[n]) /\ g[m] = v
        BY <3>0
      <3> HIDE DEF g
      <3>8. ASSUME NEW n \in 0 .. m PROVE g[n] = IF n = 0 THEN 0 ELSE g[n - 1] + a(n)
        <4>1. CASE n = m
          <5>1. g[n] = f[m - 1] + a(m) /\ g[m - 1] = f[m - 1]
            BY <3>0, <3>7, <4>1 DEF v
          <5>2. n # 0
            BY <2>5, <4>1
          <5> QED
            BY <4>1, <5>1, <5>2, Zenon
        <4>2. CASE n # m
          <5>1. n \in 0 .. (m - 1) /\ (n # 0 => n - 1 \in 0 .. (m - 1))
            BY <3>0, <3>4, <4>2
          <5>2. g[n] = f[n] /\ (n # 0 => g[n - 1] = f[n - 1])
            BY <3>7, <5>1
          <5> QED
            BY <3>5, <5>1, <5>2, Zenon
        <4> QED
          BY <4>1, <4>2
      <3>9. Sol(m, g)
        BY <3>6, <3>8
      <3> QED
        BY <2>3, <3>9
    <2> QED
      BY <2>4, <2>5
  <1>2. PICK f : Sol(N, f)
    <2> HIDE DEF Sol
    <2>1. N \in 0 .. N
      BY <1>0
    <2> QED
      BY <1>1, <2>1
  <1>3. Is(f)
    BY <1>2
  <1>4. Is(Parts)
    <2> HIDE DEF Is
    <2> QED
      BY <1>d, <1>3
  <1>5. \A n \in 0 .. N : Parts[n] = IF n = 0 THEN 0 ELSE Parts[n - 1] + a(n)
    BY <1>4
  <1>6. Parts[0] = 0 /\ \A n \in 1 .. N : Parts[n] = Parts[n - 1] + a(n)
    <2>1. 0 \in 0 .. N /\ \A n \in 1 .. N : n \in 0 .. N /\ n # 0
      BY <1>0
    <2> QED
      BY <1>5, <2>1, Zenon
  <1>7. \A n \in 0 .. N : Parts[n] \in Nat
    <2> DEFINE wrong == {n \in 0 .. N : Parts[n] \notin Nat}
    <2> SUFFICES ASSUME wrong # {} PROVE FALSE
      OBVIOUS
    <2>1. wrong \subseteq Nat
      BY <1>0
    <2>2. PICK m \in wrong : \A k \in wrong : m <= k
      <3> HIDE DEF wrong
      <3> QED
        BY <2>1, LeastNatural
    <2>3. m \in 0 .. N /\ Parts[m] \notin Nat
      BY <2>2
    <2>4. m # 0
      BY <1>6, <2>3
    <2>5. m \in 1 .. N /\ m - 1 \in 0 .. N /\ ~(m <= m - 1)
      BY <1>0, <2>3, <2>4
    <2>6. m - 1 \notin wrong
      <3> HIDE DEF wrong
      <3> QED
        BY <2>2, <2>5
    <2>7. Parts[m - 1] \in Nat
      BY <2>5, <2>6
    <2>8. Parts[m] = Parts[m - 1] + a(m) /\ a(m) \in Nat
      BY <1>0, <1>6, <2>5
    <2> QED
      BY <2>3, <2>7, <2>8
  <1>8. Parts = [n \in 0 .. N |-> Parts[n]]
    BY <1>4
  <1>9. Parts \in [0 .. N -> Nat]
    BY <1>7, <1>8
  <1> QED
    BY <1>0, <1>6, <1>9 DEF a, N

\* A group of paths has all the parts.
LEMMA GroupFills == GroupSize \in 1 .. Len(Proportions) /\ Parts[GroupSize] = Total
  <1> DEFINE N == Len(Proportions)
             Q == {n \in DOMAIN Proportions : Parts[n] >= Total}
  <1>0. N \in Nat /\ DOMAIN Proportions = 1 .. N /\ Total \in Nat
    <2>1. Proportions \in Seq(Nat \X (Nat \ {0}))
      BY ZenonT(60), WindowAssumption
    <2> QED
      BY <2>1, ThreadsFacts
  <1>1. /\ \A n \in 0 .. N : Parts[n] \in Nat
        /\ \A n \in 1 .. N : Parts[n] = Parts[n - 1] + Proportions[n][1] /\ Proportions[n][1] \in Nat
    BY PartsFacts
  <1>2. PICK n \in 1 .. N : Parts[n] = Total
    BY <1>0, LoopAssumption DEF ProportionsValid
  <1> HIDE DEF N
  <1>3. n \in Q
    BY <1>0, <1>2
  <1>4. GroupSize \in Q /\ \A m \in Q : GroupSize <= m
    <2>1. Q \subseteq Nat /\ Q # {}
      BY <1>0, <1>3
    <2> HIDE DEF Q
    <2>2. \E k \in Q : \A m \in Q : k <= m
      BY <2>1, LeastNatural
    <2>3. GroupSize = Min(Q)
      BY DEF GroupSize, Q
    <2> QED
      BY <2>2, <2>3 DEF Min
  <1>5. GroupSize \in 1 .. N /\ GroupSize <= n /\ Parts[GroupSize] >= Total
    BY <1>0, <1>3, <1>4
  <1>6. \A k \in GroupSize .. N : Parts[GroupSize] <= Parts[k]
    <2> DEFINE wrong == {k \in GroupSize .. N : ~(Parts[GroupSize] <= Parts[k])}
    <2> SUFFICES ASSUME wrong # {} PROVE FALSE
      OBVIOUS
    <2>0. GroupSize \in Nat \ {0} /\ GroupSize \in 1 .. N
      BY <1>0, <1>5
    <2>1. wrong \subseteq Nat
      BY <2>0
    <2>2. PICK k \in wrong : \A m \in wrong : k <= m
      <3> HIDE DEF wrong
      <3> QED
        BY <2>1, LeastNatural
    <2>3. k \in GroupSize .. N /\ ~(Parts[GroupSize] <= Parts[k])
      BY <2>2
    <2>4. GroupSize \in 0 .. N /\ Parts[GroupSize] \in Nat
      BY <1>0, <1>1, <2>0
    <2>5. k # GroupSize
      BY <2>3, <2>4
    <2>6. k - 1 \in GroupSize .. N /\ k \in 1 .. N /\ k - 1 \in 0 .. N /\ ~(k <= k - 1)
      BY <1>0, <2>0, <2>3, <2>5
    <2>7. k - 1 \notin wrong
      <3> HIDE DEF wrong
      <3> QED
        BY <2>2, <2>6
    <2>8. Parts[GroupSize] <= Parts[k - 1]
      BY <2>6, <2>7
    <2>9. Parts[k] = Parts[k - 1] + Proportions[k][1] /\ Proportions[k][1] \in Nat /\ Parts[k - 1] \in Nat
      BY <1>1, <2>6
    <2> QED
      BY <2>3, <2>4, <2>8, <2>9
  <1>7. Parts[GroupSize] <= Total
    <2>1. n \in GroupSize .. N
      BY <1>0, <1>5
    <2> QED
      BY <1>2, <1>6, <2>1
  <1>8. Parts[GroupSize] \in Nat
    <2>1. GroupSize \in 0 .. N
      BY <1>0, <1>5
    <2> QED
      BY <1>1, <2>1
  <1> QED
    BY <1>0, <1>5, <1>7, <1>8 DEF N

\* Whole groups of paths, each of which reads with a thread: what the split
\* datasets are given for every path to be read.
WholeGroups == Len(Tables) % GroupSize = 0 /\ \A i \in 1 .. GroupSize : Proportions[i][1] > 0

\* The threads of the k-th path of a group.
LEMMA ThreadsOf ==
  ASSUME NEW g \in Int, NEW k \in 1 .. GroupSize
  PROVE  PathThreads((g - 1) * GroupSize + k) = CeilDiv(ReadThreadsNum, Total) * Proportions[k][1]
  <1> DEFINE G == GroupSize
             t == (g - 1) * G + k
  <1>0. G \in Nat \ {0} /\ k \in 1 .. G
    BY GroupFacts
  <1> HIDE DEF G
  <1>1. PICK x \in Int : x = (g - 1) * G
    BY <1>0, Z3
  <1>2. PICK y \in Int : y = t - 1 /\ y = x + (k - 1)
    BY <1>0, <1>1
  <1>3. y \div G \in Int /\ (y % G) \in 0 .. (G - 1) /\ y = (y \div G) * G + (y % G)
    BY <1>0, DivisionFacts, Zenon
  <1>4. PICK a \in Int, b \in 0 .. (G - 1) : a = y \div G /\ b = y % G
    BY <1>3
  <1>5. PICK c \in 0 .. (G - 1) : c = k - 1
    BY <1>0
  <1>6. a * G + b = (g - 1) * G + c
    <2>1. a * G + b = y
      BY <1>3, <1>4, Zenon
    <2>2. y = x + c
      BY <1>2, <1>5
    <2> QED
      BY <1>1, <2>1, <2>2, Zenon
  <1>7. b = c
    <2>1. PICK e \in Int : e = g - 1
      OBVIOUS
    <2>2. a * G + b = e * G + c /\ G \in Nat \ {0}
      BY <1>0, <1>6, <2>1
    <2>3. a \in Int /\ b \in 0 .. (G - 1) /\ c \in 0 .. (G - 1) /\ e \in Int
      BY <1>4, <1>5, <2>1
    <2>4. a = e /\ b = c
      BY <2>2, <2>3, SameQuotient, SMTT(60)
    <2> QED
      BY <2>4
  <1>8. ((t - 1) % G) + 1 = k
    <2>1. (t - 1) % G = c
      BY <1>2, <1>4, <1>7, Zenon
    <2>2. c + 1 = k
      BY <1>0, <1>5
    <2> QED
      BY <2>1, <2>2, Zenon
  <1>9. PathThreads(t) = ThreadNums[k]
    BY <1>8, Zenon DEF PathThreads, G
  <1>10. ThreadNums[k] = CeilDiv(ReadThreadsNum, Total) * Proportions[k][1]
    <2>1. k \in 1 .. GroupSize
      OBVIOUS
    <2> QED
      BY <2>1 DEF ThreadNums
  <1> QED
    BY <1>9, <1>10 DEF G

\* The place of a path in its group.
LEMMA PlaceInGroup ==
  ASSUME WholeGroups, NEW t \in DOMAIN Tables
  PROVE  \E g \in 1 .. Groups : \E k \in 1 .. GroupSize : t = (g - 1) * GroupSize + k
  <1> DEFINE G == GroupSize
             N == Len(Tables)
             c == N \div G
  <1>0. G \in Nat \ {0} /\ N \in Nat /\ N \in Int /\ t \in 1 .. N
    BY SizesGiven, GroupFacts
  <1>a. N % G = 0
    BY DEF WholeGroups
  <1> HIDE DEF G, N
  <1>1. c \in Nat /\ N = c * G + (N % G)
    BY <1>0, DivisionFacts, Zenon
  <1>2. Groups = c
    BY DEF Groups, G, N
  <1> HIDE DEF c
  <1>3. N = c * G
    <2>1. PICK x \in Nat : x = c * G
      BY <1>0, <1>1, ProductNat
    <2>2. N = x + 0
      BY <1>1, <1>a, <2>1, Zenon
    <2> QED
      BY <2>1, <2>2
  <1>4. t \in 1 .. c * G
    BY <1>0, <1>3, Zenon
  <1>5. PICK g, j : g = (t - 1) \div G + 1 /\ j = (t - 1) % G
    OBVIOUS
  <1>6. g \in 1 .. c /\ j \in 0 .. (G - 1) /\ t = (g - 1) * G + j + 1
    BY <1>0, <1>1, <1>4, <1>5, PartOf, Zenon
  <1>7. PICK k \in 1 .. G : k = j + 1
    BY <1>0, <1>6
  <1>8. t = (g - 1) * G + k
    <2>1. PICK x \in Nat : x = (g - 1) * G
      <3>1. g - 1 \in Nat
        BY <1>6
      <3> QED
        BY <1>0, <3>1, ProductNat
    <2>2. t = x + j + 1
      BY <1>6, <2>1, Zenon
    <2>3. t = x + k
      BY <1>6, <1>7, <2>1, <2>2
    <2> QED
      BY <2>1, <2>3, Zenon
  <1> QED
    BY <1>2, <1>6, <1>7, <1>8, Zenon DEF G

\* Every path has threads.
LEMMA PathHasThreads ==
  ASSUME WholeGroups, NEW t \in DOMAIN Tables
  PROVE  PathThreads(t) \in Nat \ {0}
  <1>1. PICK g \in 1 .. Groups : \E k \in 1 .. GroupSize : t = (g - 1) * GroupSize + k
    BY PlaceInGroup
  <1>2. PICK k \in 1 .. GroupSize : t = (g - 1) * GroupSize + k
    BY <1>1
  <1>3. PathThreads(t) = CeilDiv(ReadThreadsNum, Total) * Proportions[k][1]
    <2>1. g \in Int
      OBVIOUS
    <2>2. PathThreads((g - 1) * GroupSize + k) = CeilDiv(ReadThreadsNum, Total) * Proportions[k][1]
      BY <2>1, ThreadsOf
    <2> QED
      BY <1>2, <2>2, Zenon
  <1>4. k \in 1 .. Len(Proportions)
    <2>1. GroupSize \in 1 .. Len(Proportions) /\ Len(Proportions) \in Nat
      BY GroupFills, PartsFacts
    <2> QED
      BY <2>1
  <1>5. PICK x \in Nat \ {0} : x = Proportions[k][1]
    <2>1. Proportions[k][1] \in Nat /\ Proportions[k][1] > 0
      BY <1>4, PartsFacts DEF WholeGroups
    <2> QED
      BY <2>1
  <1>6. PICK y \in Nat \ {0} : y = CeilDiv(ReadThreadsNum, Total)
    BY ThreadsFacts
  <1>7. y * x \in Nat \ {0}
    BY Z3
  <1> QED
    BY <1>3, <1>5, <1>6, <1>7, Zenon

\* The splits of a path hold its rows and no others.
LEMMA SplitHolds ==
  ASSUME WholeGroups, NEW t \in DOMAIN Tables, NEW c \in Cells
  PROVE  (\E w \in Ranks : \E i \in 1 .. SplitNum : SheetsHold(PathSplit(t, w, i), c))
           <=> c.table = t /\ c.row < Tables[t]
  <1> DEFINE th == PathThreads(t)
             m == th * SplitNum
             F == SplitSheets(t)
             num == WorkerNum * th * SplitNum
             rows == Tables[t]
  <1>0. t \in Nat /\ rows \in Nat /\ WorkerNum \in Nat \ {0} /\ SplitNum \in Nat \ {0} /\ 0 \in Nat
    <2>1. WorkerNum \in Nat \ {0} /\ SplitNum \in Nat \ {0} /\ Tables \in Seq(Nat)
      BY SizesGiven
    <2>2. t \in 1 .. Len(Tables)
      BY <2>1
    <2> QED
      BY <2>1, <2>2
  <1>1. th \in Nat \ {0}
    BY PathHasThreads
  <1>2. F = BuildShard(t, 0, rows, num, 0)
    BY DEF SplitSheets
  <1>3. F \in Seq(SheetSet) /\ m \in Nat /\ Len(F) = m * WorkerNum
    BY SplitTableGood DEF TableGood
  <1>4. \A w \in Ranks : \A i \in 1 .. SplitNum :
          /\ Len(PathSplit(t, w, i)) = th
          /\ \A j \in 1 .. th : (i - 1) * th + j \in 1 .. m /\ PathSplit(t, w, i)[j] = Stride(F, w)[(i - 1) * th + j]
    BY ZenonT(60), SplitFacts
  <1> HIDE DEF th, F, rows
  <1>5. num \in Nat \ {0}
    <2>1. PICK x \in Nat \ {0} : x = WorkerNum * th
      BY <1>0, <1>1, Z3
    <2>2. x * SplitNum \in Nat \ {0}
      BY <1>0, Z3
    <2> QED
      BY <2>1, <2>2, Zenon
  <1>6. SheetsHold(F, c) <=> c.table = t /\ c.row < rows
    <2>1. PICK n \in Nat \ {0}, e \in Nat : n = num /\ e = rows
      BY <1>0, <1>5
    <2> HIDE DEF num
    <2>2. SheetsHold(BuildShard(t, 0, e, n, 0), c) <=> c.table = t /\ 0 <= c.row /\ c.row < 0 + e
      BY <1>0, BuildHolds
    <2>3. 0 <= c.row /\ 0 + e = e
      BY <2>1 DEF Cells
    <2> QED
      BY <1>2, <2>1, <2>2, <2>3, Zenon
  <1>7. SheetsHold(F, c) <=> \E w \in Ranks : SheetsHold(Stride(F, w), c)
    <2> HIDE DEF m
    <2> QED
      BY <1>3, StrideSheets
  <1>8. ASSUME NEW w \in Ranks
        PROVE  SheetsHold(Stride(F, w), c) <=> \E i \in 1 .. SplitNum : SheetsHold(PathSplit(t, w, i), c)
    <2>0. Len(Stride(F, w)) = m
      <3> HIDE DEF m
      <3> QED
        BY <1>3, StrideFacts
    <2>1. ASSUME SheetsHold(Stride(F, w), c) PROVE \E i \in 1 .. SplitNum : SheetsHold(PathSplit(t, w, i), c)
      <3>1. PICK n \in 1 .. m : SheetHolds(Stride(F, w)[n], c)
        <4> HIDE DEF m
        <4> QED
          BY <2>0, <2>1, Zenon DEF SheetsHold
      <3>2. n \in 1 .. SplitNum * th
        <4>1. SplitNum * th = th * SplitNum
          BY <1>0, <1>1
        <4> QED
          BY <3>1, <4>1, Zenon
      <3>3. PICK i, j : i = (n - 1) \div th + 1 /\ j = (n - 1) % th
        OBVIOUS
      <3>4. i \in 1 .. SplitNum /\ j \in 0 .. (th - 1) /\ n = (i - 1) * th + j + 1
        <4>1. SplitNum \in Nat
          BY <1>0
        <4> QED
          BY <1>1, <3>2, <3>3, <4>1, PartOf, Zenon
      <3>5. PICK k \in 1 .. th : k = j + 1
        BY <1>1, <3>4
      <3>6. n = (i - 1) * th + k
        <4>1. PICK x \in Nat : x = (i - 1) * th
          <5>1. i - 1 \in Nat
            BY <3>4
          <5> QED
            BY <1>1, <5>1, ProductNat
        <4>2. n = x + j + 1
          BY <3>4, <4>1, Zenon
        <4>3. n = x + k
          BY <3>4, <3>5, <4>1, <4>2
        <4> QED
          BY <4>1, <4>3, Zenon
      <3>7. SheetHolds(PathSplit(t, w, i)[k], c) /\ k \in 1 .. Len(PathSplit(t, w, i))
        BY <1>4, <3>1, <3>4, <3>6, Zenon
      <3> QED
        BY <3>4, <3>7, Zenon DEF SheetsHold
    <2>2. ASSUME NEW i \in 1 .. SplitNum, SheetsHold(PathSplit(t, w, i), c) PROVE SheetsHold(Stride(F, w), c)
      <3>1. PICK j \in 1 .. Len(PathSplit(t, w, i)) : SheetHolds(PathSplit(t, w, i)[j], c)
        BY <2>2 DEF SheetsHold
      <3>2. j \in 1 .. th
        BY <1>4, <3>1, Zenon
      <3>3. (i - 1) * th + j \in 1 .. m /\ SheetHolds(Stride(F, w)[(i - 1) * th + j], c)
        BY <1>4, <3>1, <3>2, Zenon
      <3> HIDE DEF m
      <3> QED
        BY <2>0, <3>3, Zenon DEF SheetsHold
    <2> QED
      BY <2>1, <2>2
  <1> QED
    BY <1>6, <1>7, <1>8, Zenon DEF rows

\* A window has all its threads.
LEMMA WindowFull ==
  ASSUME NEW w \in Ranks, NEW n \in 1 .. Groups * SplitNum
  PROVE  Len(FlattenSeq(WindowParts(w, n))) = WindowThreads
  <1> DEFINE p == WindowParts(w, n)
             G == GroupSize
             h == CeilDiv(ReadThreadsNum, Total)
             prq == [k \in 0 .. G |-> h * Parts[k]]
  <1>0. h \in Nat \ {0} /\ G \in Nat \ {0} /\ Parts[G] = Total /\ Total \in Nat
        /\ G \in 1 .. Len(Proportions) /\ Len(Proportions) \in Nat
    BY ThreadsFacts, GroupFacts, GroupFills, PartsFacts
  <1>1. Parts[0] = 0 /\ (\A k \in 0 .. G : Parts[k] \in Nat)
        /\ \A k \in 1 .. G : Parts[k] = Parts[k - 1] + Proportions[k][1] /\ Proportions[k][1] \in Nat
    <2>1. 0 .. G \subseteq 0 .. Len(Proportions) /\ 1 .. G \subseteq 1 .. Len(Proportions)
      BY <1>0
    <2> HIDE DEF G
    <2> QED
      BY <2>1, PartsFacts
  <1>2. p \in Seq(Seq(SheetSet)) /\ Len(p) = G
    BY WindowPartsTyped
  <1>3. \A k \in 1 .. G : Len(p[k]) = h * Proportions[k][1]
    <2> TAKE k \in 1 .. G
    <2>1. Len(p[k]) = PathThreads((GroupOf(n) - 1) * GroupSize + k)
      BY WindowPartsTyped
    <2>2. GroupOf(n) \in Int
      BY WindowPlaces
    <2>3. PathThreads((GroupOf(n) - 1) * GroupSize + k) = h * Proportions[k][1]
      BY <2>2, ThreadsOf
    <2> QED
      BY <2>1, <2>3, Zenon
  <1>4. PICK pre : Offsets(p, pre) /\ Laid(p, pre, FlattenSeq(p))
    <2> HIDE DEF p
    <2> QED
      BY <1>2, FlattenLays
  <1>w. WindowThreads = h * Total
    BY <1>0 DEF WindowThreads
  <1> HIDE DEF p, G, h
  <1>5. \A k \in 0 .. G : prq[k] = h * Parts[k] /\ prq[k] \in Nat
    <2> TAKE k \in 0 .. G
    <2>1. h * Parts[k] \in Nat
      BY <1>0, <1>1, ProductNat
    <2> QED
      BY <2>1
  <1>6. prq \in [0 .. G -> Nat] /\ prq[0] = 0
    <2>1. h * 0 = 0 /\ 0 \in 0 .. G
      BY <1>0
    <2>2. prq[0] = 0
      BY <1>1, <1>5, <2>1, Zenon
    <2> QED
      BY <1>5, <2>2
  <1> HIDE DEF prq
  <1>7. ASSUME NEW k \in 1 .. G PROVE prq[k] = prq[k - 1] + Len(p[k])
    <2>1. k \in 0 .. G /\ k - 1 \in 0 .. G
      BY <1>0
    <2>2. PICK x \in Nat, y \in Nat : x = Parts[k - 1] /\ y = Proportions[k][1]
      BY <1>1, <2>1
    <2>3. h * (x + y) = h * x + h * y
      BY <1>0, Z3
    <2>4. Parts[k] = x + y
      BY <1>1, <2>2, Zenon
    <2> QED
      BY <1>3, <1>5, <2>1, <2>2, <2>3, <2>4, Zenon
  <1>8. Offsets(p, prq)
    BY <1>2, <1>6, <1>7 DEF Offsets
  <1>9. pre[G] = prq[G]
    <2>1. \A k \in 0 .. Len(p) : pre[k] = prq[k]
      <3>1. Len(p) \in Nat
        BY <1>2
      <3> QED
        BY <1>4, <1>8, <3>1, OffsetsUnique
    <2>2. G \in 0 .. G
      BY <1>0
    <2> QED
      BY <1>2, <2>1, <2>2
  <1>10. Len(FlattenSeq(p)) = pre[G]
    BY <1>2, <1>4, Zenon DEF Laid
  <1>11. prq[G] = h * Total
    <2>1. G \in 0 .. G
      BY <1>0
    <2> QED
      BY <1>0, <1>5, <2>1
  <1> QED
    BY <1>9, <1>10, <1>11, <1>w DEF p

\* The window of a group and a split.
LEMMA WindowOf ==
  ASSUME NEW g \in 1 .. Groups, NEW i \in 1 .. SplitNum, Groups \in Nat
  PROVE  \E n \in 1 .. Groups * SplitNum : GroupOf(n) = g /\ SplitOf(n) = i
  <1> DEFINE s == SplitNum
  <1>0. s \in Nat \ {0} /\ i \in 1 .. s
    BY SizesGiven
  <1>a. \A n : GroupOf(n) = (n - 1) \div s + 1 /\ SplitOf(n) = ((n - 1) % s) + 1
    BY DEF GroupOf, SplitOf
  <1> HIDE DEF s
  <1>1. PICK e \in Nat : e = g - 1 /\ e + 1 = g
    OBVIOUS
  <1>2. PICK x \in Nat : x = e * s
    BY <1>0, ProductNat
  <1>3. PICK y \in Int : y = x + (i - 1)
    BY <1>0
  <1>4. PICK n \in Nat : n = y + 1 /\ n - 1 = y /\ n >= 1
    BY <1>0, <1>2, <1>3
  <1>5. n <= Groups * s
    <2>1. (e + 1) * s = e * s + s
      BY <1>0, Distribute
    <2>2. g * s <= Groups * s
      <3>1. g \in Int /\ Groups \in Int /\ g <= Groups /\ s \in Nat
        BY <1>0
      <3> QED
        BY <3>1, ProductsOrdered
    <2>3. PICK z \in Nat : z = Groups * s
      BY <1>0, ProductNat
    <2>4. x + s <= z
      BY <1>1, <1>2, <2>1, <2>2, <2>3, Zenon
    <2>5. n <= z
      BY <1>0, <1>3, <1>4, <2>4
    <2> QED
      BY <2>3, <2>5, Zenon
  <1>6. PICK a \in Int, b \in 0 .. (s - 1) : a = y \div s /\ b = y % s /\ y = a * s + b
    <2>1. y \div s \in Int /\ (y % s) \in 0 .. (s - 1) /\ y = (y \div s) * s + (y % s)
      BY <1>0, DivisionFacts, Zenon
    <2> QED
      BY <2>1, Zenon
  <1>7. PICK c \in 0 .. (s - 1) : c = i - 1 /\ c + 1 = i
    BY <1>0
  <1>8. a = e /\ b = c
    <2>1. a * s + b = e * s + c
      BY <1>2, <1>3, <1>6, <1>7, Zenon
    <2>2. a \in Int /\ e \in Int /\ b \in 0 .. (s - 1) /\ c \in 0 .. (s - 1) /\ s \in Nat \ {0}
      BY <1>0, <1>1, <1>6, <1>7
    <2> QED
      BY <2>1, <2>2, SameQuotient, SMTT(60)
  <1>9. GroupOf(n) = g /\ SplitOf(n) = i
    BY <1>1, <1>4, <1>6, <1>7, <1>8, <1>a, Zenon
  <1>10. n \in 1 .. Groups * s
    <2>1. PICK z \in Nat : z = Groups * s
      BY <1>0, ProductNat
    <2>2. n \in 1 .. z
      BY <1>4, <1>5, <2>1
    <2> QED
      BY <2>1, <2>2, Zenon
  <1> QED
    BY <1>9, <1>10 DEF s

\* The paths of the split datasets hold every row, when the groups are whole.
LEMMA SplitPathsWhole ==
  ASSUME WholeGroups
  PROVE  PathsWhole([r \in Ranks |-> WindowPaths("split", r)])
  <1> DEFINE N == Groups * SplitNum
             f(r, n) == FlattenSeq(WindowParts(r, n))
             p == [r \in Ranks |-> [n \in 1 .. N |-> f(r, n)]]
             P == [r \in Ranks |-> WindowPaths("split", r)]
             at(n, k) == (GroupOf(n) - 1) * GroupSize + k
  <1>0. Groups \in Nat /\ N \in Nat
    <2>1. Groups \in Nat
      <3>1. Len(Tables) \in Nat /\ Len(Tables) \in Int
        BY SizesGiven
      <3> QED
        BY <3>1, GroupFacts, DivisionFacts, Zenon DEF Groups
    <2>2. SplitNum \in Nat
      BY SizesGiven
    <2> QED
      BY <2>1, <2>2, ProductNat
  <1>1. \A r \in Ranks : P[r] = FlattenSeq(p[r])
    BY DEF WindowPaths, WindowPathsBySplit, WindowParts, GroupOf, SplitOf, Groups
  <1>2. \A r \in Ranks : p[r] = [n \in 1 .. N |-> f(r, n)]
    OBVIOUS
  <1>3. ASSUME NEW r \in Ranks, NEW n \in 1 .. N
        PROVE  /\ f(r, n) \in Seq(SheetSet) /\ Len(f(r, n)) = WindowThreads
               /\ \A c : SheetsHold(f(r, n), c) <=>
                    \E k \in 1 .. GroupSize : SheetsHold(PathSplit(at(n, k), r, SplitOf(n)), c)
    <2> DEFINE x == WindowParts(r, n)
    <2>1. x \in Seq(Seq(SheetSet)) /\ Len(x) = GroupSize
          /\ \A k \in 1 .. GroupSize : x[k] = PathSplit(at(n, k), r, SplitOf(n))
      BY WindowPartsTyped
    <2>2. Len(FlattenSeq(x)) = WindowThreads
      BY WindowFull
    <2> HIDE DEF x, at
    <2>3. FlattenSeq(x) \in Seq(SheetSet)
      BY <2>1, FlattenLays
    <2>4. \A c : SheetsHold(FlattenSeq(x), c) <=> \E k \in 1 .. Len(x) : SheetsHold(x[k], c)
      BY <2>1, FlattenSheets
    <2>5. \A c : SheetsHold(FlattenSeq(x), c) <=>
                   \E k \in 1 .. GroupSize : SheetsHold(PathSplit(at(n, k), r, SplitOf(n)), c)
      BY <2>1, <2>4, Zenon
    <2> QED
      BY <2>2, <2>3, <2>5 DEF x
  <1>4. \A n \in 1 .. N : SplitOf(n) \in 1 .. SplitNum /\ \A k \in 1 .. GroupSize : at(n, k) \in DOMAIN Tables
    BY WindowPlaces
  <1>5. ASSUME NEW t \in DOMAIN Tables, NEW i \in 1 .. SplitNum
        PROVE  \E n \in 1 .. N : \E k \in 1 .. GroupSize : at(n, k) = t /\ SplitOf(n) = i
    <2>1. PICK g \in 1 .. Groups : \E k \in 1 .. GroupSize : t = (g - 1) * GroupSize + k
      BY PlaceInGroup
    <2>2. PICK k \in 1 .. GroupSize : t = (g - 1) * GroupSize + k
      BY <2>1
    <2>3. PICK n \in 1 .. N : GroupOf(n) = g /\ SplitOf(n) = i
      BY <1>0, WindowOf
    <2> QED
      BY <2>2, <2>3, Zenon
  <1> HIDE DEF N, f, p, P, at
  <1>6. ASSUME NEW r \in Ranks
        PROVE  p[r] \in Seq(Seq(SheetSet)) /\ Len(p[r]) = N /\ \A n \in 1 .. N : p[r][n] = f(r, n)
    <2>1. \A n \in 1 .. N : f(r, n) \in Seq(SheetSet)
      BY <1>3
    <2>2. PICK g : g = p[r]
      OBVIOUS
    <2>3. g = [n \in 1 .. N |-> f(r, n)]
      BY <1>2, <2>2, Zenon
    <2>4. g \in Seq(Seq(SheetSet)) /\ Len(g) = N /\ \A n \in 1 .. N : g[n] = f(r, n)
      BY <1>0, <2>1, <2>3
    <2> QED
      BY <2>2, <2>4, Zenon
  <1>7. \A r \in Ranks : Len(P[r]) = N * WindowThreads
    <2> TAKE r \in Ranks
    <2>1. \A n \in 1 .. Len(p[r]) : Len(p[r][n]) = WindowThreads
      BY <1>3, <1>6
    <2>2. WindowThreads \in Nat
      BY ThreadsFacts
    <2>3. Len(FlattenSeq(p[r])) = Len(p[r]) * WindowThreads
      BY <1>6, <2>1, <2>2, FlattenUniform
    <2> QED
      BY <1>1, <1>6, <2>3, Zenon
  <1>8. ASSUME NEW c \in Cells PROVE (\E r \in Ranks : SheetsHold(P[r], c)) <=> c \in TableRows
    <2>1. ASSUME NEW r \in Ranks
          PROVE  SheetsHold(P[r], c) <=>
                   \E n \in 1 .. N : \E k \in 1 .. GroupSize : SheetsHold(PathSplit(at(n, k), r, SplitOf(n)), c)
      <3>1. SheetsHold(FlattenSeq(p[r]), c) <=> \E n \in 1 .. Len(p[r]) : SheetsHold(p[r][n], c)
        BY <1>6, FlattenSheets
      <3> QED
        BY <1>1, <1>3, <1>6, <3>1, Zenon
    <2>2. ASSUME NEW r \in Ranks
          PROVE  SheetsHold(P[r], c) <=>
                   \E t \in DOMAIN Tables : \E i \in 1 .. SplitNum : SheetsHold(PathSplit(t, r, i), c)
      <3>1. ASSUME SheetsHold(P[r], c)
            PROVE  \E t \in DOMAIN Tables : \E i \in 1 .. SplitNum : SheetsHold(PathSplit(t, r, i), c)
        BY <1>4, <2>1, <3>1, Zenon
      <3>2. ASSUME NEW t \in DOMAIN Tables, NEW i \in 1 .. SplitNum, SheetsHold(PathSplit(t, r, i), c)
            PROVE  SheetsHold(P[r], c)
        <4>1. PICK n \in 1 .. N : \E k \in 1 .. GroupSize : at(n, k) = t /\ SplitOf(n) = i
          BY <1>5
        <4> QED
          BY <2>1, <3>2, <4>1, Zenon
      <3> QED
        BY <3>1, <3>2
    <2>3. \A t \in DOMAIN Tables :
            (\E r \in Ranks : \E i \in 1 .. SplitNum : SheetsHold(PathSplit(t, r, i), c))
              <=> c.table = t /\ c.row < Tables[t]
      BY SplitHolds
    <2>4. (\E r \in Ranks : SheetsHold(P[r], c)) <=> \E t \in DOMAIN Tables : c.table = t /\ c.row < Tables[t]
      BY <2>2, <2>3, Zenon
    <2>5. c \in TableRows <=> c.table \in DOMAIN Tables /\ c.row < Tables[c.table]
      BY DEF TableRows
    <2> QED
      BY <2>4, <2>5, Zenon
  <1>9. PathsWhole(P)
    BY <1>0, <1>7, <1>8 DEF PathsWhole
  <1> QED
    BY <1>9 DEF P

\* The windows of a dataset of bounded tables.
LEMMA WindowsAreWhole ==
  ASSUME WholeGroups, NEW k \in Kinds, k # "lake"
  PROVE  GoodData([r \in Ranks |-> Windows(k, r)]) /\ DataWhole([r \in Ranks |-> Windows(k, r)])
  <1>1. \A way \in {"split", "row"} :
          GoodData([r \in Ranks |-> Windows(way, r)]) /\ DataWhole([r \in Ranks |-> Windows(way, r)])
    BY WindowsAreGood, SplitPathsGood, SplitPathsWhole, RowPathsGood, RowPathsWhole, WholePathsWholeWindows DEF WindowsGood
  <1>2. \A r : Windows("combo", r) = Windows("split", r)
    BY DEF Windows, WindowPaths
  <1>3. [r \in Ranks |-> Windows("combo", r)] = [r \in Ranks |-> Windows("split", r)]
    BY <1>2
  <1>4. k \in {"split", "row"} \/ k = "combo"
    BY DEF Kinds
  <1>5. CASE k \in {"split", "row"}
    BY <1>1, <1>5
  <1>6. CASE k = "combo"
    BY <1>1, <1>3, <1>6
  <1> QED
    BY <1>4, <1>5, <1>6

----------------------------------------------------------------------------
(* What the windows hold is the tables.                                     *)

\* A bounded set of numbers that is not empty has a greatest one.
LEMMA GreatestNatural ==
  ASSUME NEW S, IsFiniteSet(S), S \subseteq Nat, S # {}
  PROVE  Max(S) \in S /\ \A y \in S : y <= Max(S)
  <1>1. PICK n \in Nat : \E f : f \in [1 .. n -> S] /\ \A y \in S : \E i \in 1 .. n : f[i] = y
    <2>1. Cardinality(S) \in Nat /\ ExistsBijection(1 .. Cardinality(S), S)
      BY FS_CardinalityType
    <2> QED
      BY <2>1 DEF ExistsBijection, Bijection, Surjection
  <1>2. PICK f : f \in [1 .. n -> S] /\ \A y \in S : \E i \in 1 .. n : f[i] = y
    BY <1>1
  <1> DEFINE bad == {m \in 0 .. n : ~\E b \in Nat : \A i \in 1 .. m : f[i] <= b}
  <1>3. bad = {}
    <2> SUFFICES ASSUME bad # {} PROVE FALSE
      OBVIOUS
    <2>1. bad \subseteq Nat
      OBVIOUS
    <2>2. PICK m \in bad : \A k \in bad : m <= k
      <3> HIDE DEF bad
      <3> QED
        BY <2>1, LeastNatural
    <2>3. m \in 0 .. n /\ ~\E b \in Nat : \A i \in 1 .. m : f[i] <= b
      BY <2>2
    <2>4. m # 0
      <3>1. \A i \in 1 .. 0 : f[i] <= 0
        OBVIOUS
      <3> QED
        BY <2>3, <3>1
    <2>5. m - 1 \in 0 .. n /\ ~(m <= m - 1) /\ m \in 1 .. n
      BY <2>3, <2>4
    <2>6. m - 1 \notin bad
      <3> HIDE DEF bad
      <3> QED
        BY <2>2, <2>5
    <2>7. PICK b \in Nat : \A i \in 1 .. (m - 1) : f[i] <= b
      BY <2>5, <2>6
    <2>8. f[m] \in Nat
      BY <1>2, <2>5
    <2>9. PICK e \in Nat : b <= e /\ f[m] <= e
      <3>1. b + f[m] \in Nat /\ b <= b + f[m] /\ f[m] <= b + f[m]
        BY <2>8
      <3> QED
        BY <3>1
    <2>10. \A i \in 1 .. m : f[i] <= e
      <3> TAKE i \in 1 .. m
      <3>1. CASE i = m
        BY <2>9, <3>1
      <3>2. CASE i # m
        <4>1. i \in 1 .. (m - 1) /\ i \in 1 .. n
          BY <2>5, <3>2
        <4>2. f[i] <= b /\ f[i] \in Nat
          BY <1>2, <2>7, <4>1
        <4> QED
          BY <2>9, <4>2
      <3> QED
        BY <3>1, <3>2
    <2> QED
      BY <2>3, <2>10
  <1>4. PICK b \in Nat : \A i \in 1 .. n : f[i] <= b
    <2>1. n \in 0 .. n
      OBVIOUS
    <2> QED
      BY <1>3, <2>1
  <1> DEFINE U == {u \in Nat : \A y \in S : y <= u}
  <1>5. b \in U
    BY <1>2, <1>4
  <1>6. PICK u \in U : \A v \in U : u <= v
    <2>1. U \subseteq Nat /\ U # {}
      BY <1>5
    <2> HIDE DEF U
    <2> QED
      BY <2>1, LeastNatural
  <1>7. u \in Nat /\ \A y \in S : y <= u
    BY <1>6
  <1>8. u \in S
    <2> SUFFICES ASSUME u \notin S PROVE FALSE
      OBVIOUS
    <2>1. \A y \in S : y \in Nat /\ y <= u /\ y # u
      BY <1>7
    <2>2. \A y \in S : y <= u - 1
      BY <1>7, <2>1
    <2>3. u - 1 \in Nat
      <3>1. PICK y : y \in S
        OBVIOUS
      <3>2. y \in Nat /\ y <= u /\ y # u
        BY <2>1, <3>1
      <3> QED
        BY <1>7, <3>2
    <2>4. u - 1 \in U
      BY <2>2, <2>3
    <2>5. u <= u - 1
      <3> HIDE DEF U
      <3> QED
        BY <1>6, <2>4
    <2> QED
      BY <1>7, <2>5
  <1>9. u \in S /\ \A y \in S : u >= y
    BY <1>7, <1>8
  <1>10. Max(S) \in S /\ \A y \in S : Max(S) >= y
    BY <1>9 DEF Max
  <1> QED
    BY <1>10

\* There are finitely many rows.
LEMMA HeldRowsFacts == HeldRows = TableRows /\ IsFiniteSet(HeldRows) /\ HeldRows \subseteq Cells
  <1> DEFINE S == LakeTimes \cup ToSet(Tables)
             M == Max(S)
             N == Len(Tables)
  <1>1. Tables \in [1 .. N -> Nat] /\ N \in Nat /\ N # 0 /\ DOMAIN Tables = 1 .. N
    BY SizesGiven
  <1>2. LakeTimes \subseteq Nat /\ IsFiniteSet(LakeTimes)
    BY ZenonT(60), WindowAssumption
  <1>3. \A t \in 1 .. N : Tables[t] \in ToSet(Tables)
    BY <1>1 DEF ToSet
  <1>4. IsFiniteSet(ToSet(Tables)) /\ ToSet(Tables) \subseteq Nat
    <2>1. Tables \in Surjection(1 .. N, ToSet(Tables))
      BY <1>1 DEF ToSet, Surjection
    <2>2. IsFiniteSet(1 .. N)
      BY <1>1, FS_Interval
    <2>3. ToSet(Tables) \subseteq Nat
      BY <1>1 DEF ToSet
    <2> QED
      BY <2>1, <2>2, <2>3, FS_Surjection
  <1>5. IsFiniteSet(S) /\ S \subseteq Nat /\ S # {}
    <2>1. 1 \in 1 .. N
      BY <1>1
    <2> QED
      BY <1>2, <1>3, <1>4, <2>1, FS_Union
  <1> HIDE DEF S, N
  <1>6. M \in Nat /\ \A y \in S : y <= M
    BY <1>5, GreatestNatural
  <1>7. \A t \in 1 .. N : Tables[t] \in Nat /\ Tables[t] <= M
    BY <1>1, <1>3, <1>6 DEF S
  <1>8. Rows = [table : 1 .. N, row : 0 .. M]
    BY <1>1 DEF Rows, S
  <1> HIDE DEF M
  <1>9. HeldRows = TableRows
    <2>1. ASSUME NEW x \in HeldRows PROVE x \in TableRows
      <3>1. x \in [table : 1 .. N, row : 0 .. M] /\ x.row < Tables[x.table]
        BY <1>8 DEF HeldRows
      <3>2. x \in Cells /\ x.table \in 1 .. N
        BY <1>1, <1>6, <3>1 DEF Cells
      <3> QED
        BY <1>1, <3>1, <3>2 DEF TableRows
    <2>2. ASSUME NEW x \in TableRows PROVE x \in HeldRows
      <3>1. x \in Cells /\ x.table \in 1 .. N /\ x.row < Tables[x.table]
        BY <1>1 DEF TableRows
      <3>2. x.row \in Nat /\ x = [table |-> x.table, row |-> x.row]
        BY <3>1 DEF Cells
      <3>3. x.row \in 0 .. M
        BY <1>6, <1>7, <3>1, <3>2
      <3>4. x \in [table : 1 .. N, row : 0 .. M]
        BY <3>1, <3>2, <3>3
      <3> QED
        BY <1>8, <3>1, <3>4 DEF HeldRows
    <2> QED
      BY <2>1, <2>2
  <1>10. IsFiniteSet(HeldRows)
    <2> DEFINE A == 1 .. N
               B == 0 .. M
               f == [p \in A \X B |-> [table |-> p[1], row |-> p[2]]]
    <2>1. IsFiniteSet(A) /\ IsFiniteSet(B)
      BY <1>1, <1>6, FS_Interval
    <2> HIDE DEF A, B
    <2>2. IsFiniteSet(A \X B)
      BY <2>1, FS_Product
    <2>3. f \in [A \X B -> [table : A, row : B]]
      OBVIOUS
    <2>4. \A x \in [table : A, row : B] : \E p \in A \X B : f[p] = x
      <3> TAKE x \in [table : A, row : B]
      <3>1. x.table \in A /\ x.row \in B /\ x = [table |-> x.table, row |-> x.row]
        OBVIOUS
      <3>2. <<x.table, x.row>> \in A \X B
        BY <3>1
      <3>3. f[<<x.table, x.row>>] = [table |-> x.table, row |-> x.row]
        BY <3>2
      <3> QED
        BY <3>1, <3>2, <3>3
    <2> HIDE DEF f
    <2>5. f \in Surjection(A \X B, [table : A, row : B])
      BY <2>3, <2>4 DEF Surjection
    <2>6. IsFiniteSet(Rows)
      BY <1>8, <2>2, <2>5, FS_Surjection DEF A, B
    <2>7. HeldRows \subseteq Rows
      BY DEF HeldRows
    <2> QED
      BY <2>6, <2>7, FS_Subset
  <1> QED
    BY <1>9, <1>10 DEF TableRows

\* The batches of the ranks are the rows of the tables, each once.
HeldOnce ==
    /\ \A r \in Ranks : Len(data[r]) = Len(data[0]) /\ Len(RowsOf(r)) <= Cardinality(HeldRows)
    /\ \A x \in HeldRows : Cardinality(HeldAt(x)) = 1
    /\ \A r \in Ranks : ToSet(RowsOf(r)) \subseteq HeldRows

\* Data that holds every row, and none twice, holds each exactly once.
LEMMA WholeDataHeldOnce ==
  ASSUME GoodData(data), DataWhole(data)
  PROVE  HeldOnce
  <1> DEFINE b(r) == RowsOf(r)
             C == Cardinality(HeldRows)
  <1>1. \A r \in Ranks : data[r] \in Seq(Seq(Cells)) /\ b(r) = FlattenSeq(data[r])
    BY DEF GoodData, RowsOf
  <1> HIDE DEF b, C
  <1>2. \A r \in Ranks : b(r) \in Seq(Cells) /\ Len(b(r)) \in Nat
    <2> TAKE r \in Ranks
    <2>1. FlattenSeq(data[r]) \in Seq(Cells)
      BY <1>1, FlattenLays
    <2>2. b(r) \in Seq(Cells)
      BY <1>1, <2>1
    <2> QED
      BY <2>2
  <1>3. HeldRows = TableRows /\ IsFiniteSet(HeldRows) /\ HeldRows \subseteq Cells /\ C \in Nat
    BY HeldRowsFacts, FS_CardinalityType DEF C
  <1>4. \A c \in Cells : (\E r \in Ranks : Has(b(r), c)) <=> c \in HeldRows
    <2> TAKE c \in Cells
    <2>1. \A r \in Ranks : Has(b(r), c) <=> WindowHas(data, r, c)
      <3> TAKE r \in Ranks
      <3>1. Has(FlattenSeq(data[r]), c) <=> \E k \in 1 .. Len(data[r]) : Has(data[r][k], c)
        BY <1>1, FlattenHolds
      <3> QED
        BY <1>1, <3>1, Zenon DEF WindowHas
    <2> QED
      BY <1>3, <2>1, Zenon DEF DataWhole
  <1>5. ASSUME NEW r \in Ranks, NEW i \in 1 .. Len(b(r)) PROVE b(r)[i] \in HeldRows
    <2>1. b(r)[i] \in Cells
      BY <1>2
    <2>2. Has(b(r), b(r)[i])
      BY Zenon DEF Has
    <2> QED
      BY <1>4, <2>1, <2>2, Zenon
  <1>6. ASSUME NEW r \in Ranks, NEW q \in Ranks, NEW i \in 1 .. Len(b(r)), NEW j \in 1 .. Len(b(q)), b(r)[i] = b(q)[j]
        PROVE  r = q /\ i = j
    <2> DEFINE x == data[r]
               y == data[q]
    <2>1. x \in Seq(Seq(Cells)) /\ y \in Seq(Seq(Cells)) /\ b(r) = FlattenSeq(x) /\ b(q) = FlattenSeq(y)
      BY <1>1
    <2>a. \A k \in 1 .. Len(x), l \in 1 .. Len(y) : \A m \in 1 .. Len(x[k]), n \in 1 .. Len(y[l]) :
            x[k][m] = y[l][n] => r = q /\ k = l /\ m = n
      BY DataApartAt
    <2> HIDE DEF x, y
    <2>2. i \in 1 .. Len(FlattenSeq(x)) /\ j \in 1 .. Len(FlattenSeq(y))
      BY <2>1, Zenon
    <2>3. FromPlaces(x, y, i, j)
      BY <2>1, <2>2, FlattenApart
    <2>4. PICK k \in 1 .. Len(x), l \in 1 .. Len(y) : \E m \in 1 .. Len(x[k]), n \in 1 .. Len(y[l]) :
            FlattenSeq(x)[i] = x[k][m] /\ FlattenSeq(y)[j] = y[l][n] /\ (x = y /\ k = l /\ m = n => i = j)
      BY <2>3, Zenon DEF FromPlaces
    <2>5. PICK m \in 1 .. Len(x[k]), n \in 1 .. Len(y[l]) :
            FlattenSeq(x)[i] = x[k][m] /\ FlattenSeq(y)[j] = y[l][n] /\ (x = y /\ k = l /\ m = n => i = j)
      BY <2>4
    <2>6. x[k][m] = y[l][n]
      BY <1>6, <2>1, <2>5, Zenon
    <2>7. r = q /\ k = l /\ m = n
      BY <2>6, <2>a, Zenon
    <2> QED
      BY <2>5, <2>7 DEF x, y
  <1>7. ASSUME NEW r \in Ranks PROVE Len(b(r)) <= C
    <2> DEFINE n == Len(b(r))
    <2>1. b(r) \in [1 .. n -> HeldRows]
      <3>1. b(r) = [i \in 1 .. n |-> b(r)[i]]
        BY <1>2
      <3> QED
        BY <1>5, <3>1
    <2>2. b(r) \in Injection(1 .. n, HeldRows)
      BY <1>6, <2>1 DEF Injection, IsInjective
    <2>3. n \in Nat
      BY <1>2
    <2> HIDE DEF n
    <2>4. Cardinality(1 .. n) <= C
      BY <1>3, <2>2, FS_Injection DEF C
    <2>5. Cardinality(1 .. n) = n
      <3>1. Cardinality(1 .. n) = IF 1 > n THEN 0 ELSE n - 1 + 1
        BY <2>3, FS_Interval
      <3> QED
        BY <2>3, <3>1
    <2> QED
      BY <2>4, <2>5 DEF n
  <1>8. ASSUME NEW x \in HeldRows PROVE Cardinality(HeldAt(x)) = 1
    <2>1. x \in Cells
      BY <1>3
    <2>2. PICK r \in Ranks : Has(b(r), x)
      BY <1>4, <2>1, Zenon
    <2>3. PICK i \in 1 .. Len(b(r)) : b(r)[i] = x
      BY <2>2 DEF Has
    <2>4. i \in 1 .. C /\ i <= Len(b(r))
      BY <1>2, <1>3, <1>7, <2>3
    <2>5. \A h : h \in HeldAt(x) <=>
                 h \in Ranks \X (1 .. C) /\ h[2] <= Len(b(h[1])) /\ b(h[1])[h[2]] = x
      BY DEF HeldAt, b, C
    <2>6. <<r, i>> \in HeldAt(x)
      <3>1. <<r, i>> \in Ranks \X (1 .. C)
        BY <2>4
      <3>2. PICK h : h = <<r, i>>
        OBVIOUS
      <3>3. h[1] = r /\ h[2] = i
        BY <3>2
      <3>4. h[2] <= Len(b(h[1])) /\ b(h[1])[h[2]] = x
        BY <2>3, <2>4, <3>3, Zenon
      <3>5. h \in Ranks \X (1 .. C)
        BY <3>1, <3>2
      <3>6. h \in HeldAt(x)
        BY <2>5, <3>4, <3>5
      <3> QED
        BY <3>2, <3>6
    <2>7. ASSUME NEW h \in HeldAt(x) PROVE h = <<r, i>>
      <3>1. PICK q \in Ranks, j \in 1 .. C : h = <<q, j>>
        BY <2>5
      <3>2. h[1] = q /\ h[2] = j
        BY <3>1
      <3>a. h[2] <= Len(b(h[1])) /\ b(h[1])[h[2]] = x
        BY <2>5
      <3>3. j <= Len(b(q)) /\ b(q)[j] = x
        BY <3>2, <3>a, Zenon
      <3>4. j \in 1 .. Len(b(q))
        BY <1>2, <1>3, <3>3
      <3>5. q = r /\ j = i
        BY <1>6, <2>3, <3>3, <3>4, Zenon
      <3> QED
        BY <3>1, <3>5
    <2>8. HeldAt(x) = {<<r, i>>}
      BY <2>6, <2>7
    <2> QED
      BY <2>8, FS_Singleton
  <1>9. \A r \in Ranks : ToSet(b(r)) \subseteq HeldRows
    <2> TAKE r \in Ranks
    <2>1. DOMAIN b(r) = 1 .. Len(b(r))
      BY <1>2
    <2> QED
      BY <1>5, <2>1 DEF ToSet
  <1>10. \A r \in Ranks : Len(data[r]) = Len(data[0])
    BY DEF GoodData, Even
  <1> QED
    BY <1>7, <1>8, <1>9, <1>10, Zenon DEF HeldOnce, b, C

\* The windows never change.
DataGiven == kind \in Kinds /\ data = [r \in Ranks |-> Windows(kind, r)]

\* Between them the windows of all ranks, their threads and their subprocesses
\* hold every row of every table once, whatever the numbers of workers,
\* threads, splits and rows (_build_shard, _shard_window_paths and
\* shard_table_by_subprocess of window_io.py).  WholeGroups is needed for the
\* split datasets alone: they leave out paths after the last whole group.
THEOREM TablesPartitioned == WholeGroups => (LoopSpec => []WindowsPartitionTables)
  <1> SUFFICES ASSUME WholeGroups PROVE LoopSpec => []WindowsPartitionTables
    OBVIOUS
  <1>1. LoopInit => DataGiven
    BY LoopAssumption DEF LoopInit, DataGiven
  <1>2. DataGiven /\ [LoopNext]_vars => DataGiven'
    <2> SUFFICES ASSUME DataGiven, [LoopNext]_vars PROVE DataGiven'
      OBVIOUS
    <2>1. UNCHANGED <<kind, data>>
      BY DEF LoopNext, Together, RankStep, WindowLimit, NextWindowRaises, NextWindow, NextBatch, StepLimit, WindowEnd,
             AfterWindow, EpochEnd, EvaluationEnd, SyncWindow, SyncStep, Work, Save, Crash, Resume, vars, job
    <2> QED
      BY <2>1 DEF DataGiven
  <1>3. DataGiven => WindowsPartitionTables
    <2>a. HeldOnce => WindowsPartitionTables
      BY Zenon DEF WindowsPartitionTables, HeldOnce
    <2>b. kind = "lake" => WindowsPartitionTables
      BY DEF WindowsPartitionTables
    <2> SUFFICES ASSUME DataGiven, kind # "lake" PROVE HeldOnce
      BY <2>a, <2>b
    <2>1. GoodData(data) /\ DataWhole(data)
      BY WindowsAreWhole DEF DataGiven
    <2> QED
      BY <2>1, WholeDataHeldOnce
  <1> QED
    BY <1>1, <1>2, <1>3, PTL DEF LoopSpec
=============================================================================
