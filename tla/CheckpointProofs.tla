--------------------------- MODULE CheckpointProofs ---------------------------
(***************************************************************************)
(* Proofs that a restarted job finds a checkpoint that fits together, and  *)
(* that the checkpoints implement CheckpointStore, for any number of       *)
(* ranks, steps and restarts (recis/framework/checkpoint_manager.py,       *)
(* recis/hooks/checkpoint_hooks.py).                                       *)
(***************************************************************************)
EXTENDS Checkpoint, FiniteSetTheorems, WellFoundedInduction, TLAPS

\* save_steps never falls on the end of an epoch.
Apart == \A n \in 1 .. LastStep : ~Twice(n)

\* Room for all the saves of one step: one at the end, one by save_epochs, and
\* one by save_steps where that may fall on the end of an epoch.
SavesOfAStep == 1 + (IF SaveEpochs THEN 1 ELSE 0) + (IF Apart THEN 0 ELSE 1)
KeepsEnough == MaxKeep >= SavesOfAStep

\* Epochs that are over when a checkpoint of step n is saved.
Epochs(n) == n \div EpochSteps

Listing == {"open_index", "write_index"}
Evicting == {"remove", "open_evicted", "write_evicted"}
Listed == Evicting \cup {"sync"}
AfterSparse == {"io_state", "model", "extra", "io_state_count"} \cup Listing \cup Listed

Alive == pc[0] \notin {"down", "failed", "astray"}

\* The ranks are together outside a save, and on the same side of its first
\* barrier inside; only a hook that is due saves.
Phases ==
    /\ \/ \E w \in {"idle", "down", "failed", "astray"} : \A s \in Shards : pc[s] = w
       \/ /\ \A s \in Shards : pc[s] \in {"sparse", "sparse_sync"}
          /\ Due(hook)
       \/ /\ \A s \in Shards : pc[s] \in AfterSparse /\ (s # 0 => pc[s] \in {"io_state", "sync"})
          /\ Due(hook)

\* The epochs that were counted, where the loop is.
Counted ==
    Alive =>
        /\ hook # "train" => step >= 1
        /\ hook \in {"reset", "after_epoch", "end"} => step % EpochSteps = 0
        /\ state.epoch = IF hook \in {"after_step", "reset"} THEN Epochs(step - 1) ELSE Epochs(step)

\* The versions of the present step are the last ones, and no more than the
\* saves that there have been at this step.
SavesHere ==
    (IF hook \in {"reset", "after_epoch", "end"} /\ step % SaveSteps = 0 THEN 1 ELSE 0)
    + (IF hook = "end" /\ SaveEpochs THEN 1 ELSE 0)
    + (IF pc[0] \in Listed THEN 1 ELSE 0)

VersionsInOrder ==
    Alive =>
        /\ \A i \in 1 .. Len(versions) :
              /\ versions[i] <= step
              /\ versions[i] = step /\ hook \notin {"train", "done"} => Len(versions) - i < SavesHere
        /\ IF pc[0] \in Evicting THEN Len(versions) = MaxKeep + 1 ELSE Len(versions) <= MaxKeep

\* What rank 0 has read of the index and will write to it; the index itself may
\* be empty in between.
IndexInOrder ==
    /\ index # <<>> => Newest(index) \in 1 .. LastStep /\ (Alive => Newest(index) <= step)
    /\ pc[0] \in {"write_index", "write_evicted"} => buffer # <<>> /\ Newest(buffer) = step
    /\ pc[0] \in {"remove", "open_evicted", "sync"} => index # <<>> /\ Newest(index) = step
    /\ pc[0] = "write_evicted" => index = <<>> \/ Newest(index) = step

\* A file tells the epoch of its step, also one that a dead job left behind;
\* of a step that is saved twice perhaps the one before.
Stamped ==
    \A c \in Steps : \A f \in Files : file[c][f] # Absent =>
        file[c][f].epoch = Epochs(c) \/ (Twice(c) /\ file[c][f].epoch = Epochs(c - 1))

Now(f) == file[step][f].mark = state.mark

\* The files of the present save that have been written.
Written ==
    /\ \A s \in Shards : pc[s] \in AfterSparse \cup {"sparse_sync"} => Now(<<"sparse", s>>)
    /\ pc[0] \in {"extra", "io_state_count"} \cup Listing \cup Listed => Now(<<"model", 0>>)
    /\ pc[0] \in {"io_state_count"} \cup Listing \cup Listed => Now(<<"extra", 0>>)
    /\ pc[0] \in Listing \cup Listed => Now(<<"io_state_count", 0>>)

\* The positions in the data of the present save; at rest every file is there.
Positions ==
    /\ \A s \in Shards : pc[s] \in AfterSparse \ {"io_state"} => file[step][<<"io_state", s>>] # Absent
    /\ Everyone("idle") /\ index # <<>> => Complete(Newest(index))

\* The newest checkpoint is of one moment; while the job is at its step, of
\* the moment at which the job is, so that saving again changes no mark.
NewestHolds ==
    /\ state.mark \in 1 .. marks
    /\ index # <<>> => OneMoment(Newest(index))
    /\ Alive /\ index # <<>> /\ Newest(index) = step => \A f \in Weights : Now(f)

IndInv ==
    /\ TypeOK
    /\ Phases
    /\ Counted
    /\ VersionsInOrder
    /\ IndexInOrder
    /\ Stamped
    /\ Written
    /\ NewestHolds
    /\ Positions

-----------------------------------------------------------------------------
(* Facts about the constants, epochs and the eviction of a line.           *)

LEMMA Constants ==
  /\ ShardNum \in Nat \ {0} /\ EpochSteps \in Nat \ {0} /\ SaveSteps \in Nat \ {0}
  /\ MaxKeep \in Nat \ {0} /\ LastStep \in Nat
  /\ 0 \in Shards /\ Weights \subseteq Files
  /\ \A s \in Shards : <<"sparse", s>> \in Weights /\ <<"io_state", s>> \in Files
  /\ \A k \in {"model", "extra", "io_state_count"} : <<k, 0>> \in Weights
  BY CheckpointAssumption DEF Shards, Weights, Files

LEMMA NoLines == <<>> \in Seq(Steps) /\ Len(<<>>) = 0
  OBVIOUS

LEMMA WeightsAre ==
  ASSUME NEW f \in Weights
  PROVE  \/ \E s \in Shards : f = <<"sparse", s>>
         \/ \E k \in {"model", "extra", "io_state_count"} : f = <<k, 0>>
  BY DEF Weights, Files

\* An epoch is over exactly at the steps that EpochSteps divides.
LEMMA EpochFacts ==
  ASSUME NEW n \in Nat \ {0}
  PROVE  /\ Epochs(n) \in Nat /\ Epochs(n - 1) \in Nat
         /\ n % EpochSteps = 0 => Epochs(n) = Epochs(n - 1) + 1
         /\ n % EpochSteps # 0 => Epochs(n) = Epochs(n - 1)
         /\ n = Epochs(n) * EpochSteps <=> n % EpochSteps = 0
  <1> DEFINE E == EpochSteps
  <1>0. E \in Nat \ {0}
    BY Constants
  <1> HIDE DEF E
  <1>1. n \div E \in Nat /\ (n - 1) \div E \in Nat
    BY <1>0
  <1>2. n = (n \div E) * E + (n % E) /\ n % E \in 0 .. (E - 1)
    BY <1>0
  <1>3. n - 1 = ((n - 1) \div E) * E + ((n - 1) % E) /\ (n - 1) % E \in 0 .. (E - 1)
    BY <1>0
  <1>4. n % E = 0 => n \div E = ((n - 1) \div E) + 1
    BY <1>0, <1>1, <1>2, <1>3
  <1>5. n % E # 0 => n \div E = (n - 1) \div E
    BY <1>0, <1>1, <1>2, <1>3
  <1>6. n = (n \div E) * E <=> n % E = 0
    BY <1>0, <1>1, <1>2
  <1> QED
    BY <1>1, <1>4, <1>5, <1>6 DEF Epochs, E

\* A set of naturals has a least element.
LEMMA LeastNatural ==
  ASSUME NEW T, T \subseteq Nat, T # {}
  PROVE  \E m \in T : \A n \in T : m <= n
  <1> DEFINE R == OpToRel(<, Nat)
  <1>1. IsWellFoundedOn(R, Nat)
    BY NatLessThanWellFounded
  <1>2. \A x, y \in Nat : x < y => <<x, y>> \in R
    BY DEF OpToRel
  <1> HIDE DEF R
  <1>3. PICK m \in T : \A n \in T : ~(<<n, m>> \in R)
    BY <1>1, WFMin
  <1>4. \A n \in T : m <= n
    <2> TAKE n \in T
    <2>1. m \in Nat /\ n \in Nat /\ ~(n < m)
      BY <1>2, <1>3
    <2> QED
      BY <2>1
  <1> QED
    BY <1>4

\* The elements of a set of positive numbers can be counted off in order.
LEMMA CountedOff ==
  ASSUME NEW n \in Nat, NEW kept, kept \subseteq 1 .. n, NEW j \in 1 .. Cardinality(kept)
  PROVE  \E i \in kept : Cardinality({k \in kept : k <= i}) = j
  <1> DEFINE upto(i) == {k \in kept : k <= i}
             count(i) == Cardinality(upto(i))
             enough == {i \in 0 .. n : count(i) >= j}
  <1>0. \A k \in kept : k \in Nat /\ 1 <= k /\ k <= n
    OBVIOUS
  <1>1. IsFiniteSet(kept) /\ Cardinality(kept) \in Nat
    <2>1. IsFiniteSet(1 .. n)
      BY FS_Interval
    <2> QED
      BY <2>1, FS_Subset, FS_CardinalityType
  <1>2. \A i \in 0 .. n : IsFiniteSet(upto(i)) /\ count(i) \in Nat
    <2> TAKE i \in 0 .. n
    <2>1. upto(i) \subseteq kept
      OBVIOUS
    <2> QED
      BY <1>1, <2>1, FS_Subset, FS_CardinalityType
  <1>3. count(0) = 0 /\ count(n) = Cardinality(kept)
    <2>1. upto(0) = {}
      <3>1. \A k \in kept : ~(k <= 0)
        BY <1>0
      <3> QED
        BY <3>1
    <2>2. upto(n) = kept
      BY <1>0
    <2> QED
      BY <2>1, <2>2, FS_EmptySet
  <1>4. \A i \in 1 .. n : IF i \in kept THEN count(i) = count(i - 1) + 1 ELSE count(i) = count(i - 1)
    <2> TAKE i \in 1 .. n
    <2>0. \A k \in kept : k <= i <=> k <= i - 1 \/ k = i
      BY <1>0
    <2>1. i \in kept => upto(i) = upto(i - 1) \cup {i}
      BY <2>0
    <2>4. i \notin upto(i - 1)
      <3>1. ~(i <= i - 1)
        OBVIOUS
      <3> QED
        BY <3>1
    <2>2. i \notin kept => upto(i) = upto(i - 1)
      BY <2>0
    <2>3. i - 1 \in 0 .. n
      OBVIOUS
    <2> HIDE DEF upto
    <2> QED
      BY <1>2, <2>1, <2>4, <2>2, <2>3, FS_AddElement
  <1>5. enough \subseteq Nat /\ n \in enough
    BY <1>1, <1>3
  <1>6. PICK i \in enough : \A k \in enough : i <= k
    BY <1>5, LeastNatural
  <1> HIDE DEF count
  <1>7. i \in 1 .. n
    BY <1>1, <1>3, <1>6
  <1>8. i - 1 \in 0 .. n /\ i - 1 \notin enough
    BY <1>6, <1>7
  <1>9. j \in Nat /\ count(i) >= j /\ ~(count(i - 1) >= j) /\ count(i) \in Nat /\ count(i - 1) \in Nat
    <2>1. j \in Nat
      BY <1>1
    <2>2. count(i) >= j
      BY <1>6
    <2>3. ~(count(i - 1) >= j)
      BY <1>8
    <2>4. count(i) \in Nat /\ count(i - 1) \in Nat
      BY <1>2, <1>7, <1>8 DEF count
    <2> QED
      BY <2>1, <2>2, <2>3, <2>4
  <1>10. i \in kept /\ count(i) = j
    BY <1>4, <1>7, <1>9
  <1> QED
    BY <1>10 DEF count

\* Dropping another line leaves the newest one the newest.
LEMMA WithoutKeepsNewest ==
  ASSUME NEW lines \in Seq(Steps), lines # <<>>, NEW c, Newest(lines) # c
  PROVE  Without(lines, c) \in Seq(Steps) /\ Without(lines, c) # <<>> /\ Newest(Without(lines, c)) = Newest(lines)
  <1> DEFINE n == Len(lines)
             kept == {i \in DOMAIN lines : lines[i] # c}
             size == Cardinality(kept)
             upto(i) == {k \in kept : k <= i}
             at(j) == CHOOSE i \in kept : Cardinality(upto(i)) = j
  <1>1. n \in Nat \ {0} /\ DOMAIN lines = 1 .. n /\ n \in kept /\ kept \subseteq 1 .. n
    BY DEF Newest
  <1>2. IsFiniteSet(kept) /\ size \in Nat
    <2>1. IsFiniteSet(1 .. n)
      BY <1>1, FS_Interval
    <2> QED
      BY <1>1, <2>1, FS_Subset, FS_CardinalityType
  <1>3. size >= 1
    <2>1. size # 0
      BY <1>1, <1>2, FS_EmptySet
    <2> QED
      BY <1>2, <2>1
  <1>4. upto(n) = kept
    BY <1>1
  <1>5. ASSUME NEW i \in kept, i # n PROVE Cardinality(upto(i)) # size
    <2>1. upto(i) \subseteq kept /\ n \notin upto(i)
      BY <1>1, <1>5
    <2> QED
      BY <1>1, <1>2, <2>1, FS_Subset
  <1>6. at(size) = n
    BY <1>1, <1>4, <1>5
  <1>7. \A j \in 1 .. size : at(j) \in 1 .. n
    BY <1>1, CountedOff
  <1>8. Without(lines, c) = [j \in 1 .. size |-> lines[at(j)]]
    BY DEF Without
  <1> HIDE DEF at, size
  <1>9. Without(lines, c) \in Seq(Steps) /\ Len(Without(lines, c)) = size
    BY <1>1, <1>2, <1>7, <1>8
  <1> QED
    BY <1>1, <1>2, <1>3, <1>6, <1>8, <1>9 DEF Newest

-----------------------------------------------------------------------------
(* The steps of the job, one by one.                                      *)

LEMMA InitEstablishes == Init => IndInv
  <1> SUFFICES ASSUME Init PROVE IndInv
    OBVIOUS
  <1>1. TypeOK
    BY Constants DEF Init, TypeOK, Contents, Steps, NoFiles, Absent
  <1>2. Epochs(0) = 0
    BY Constants DEF Epochs
  <1>3. Phases /\ Counted
    BY <1>2, Constants DEF Init, Phases, Counted
  <1>4. VersionsInOrder /\ IndexInOrder /\ Written
    BY Constants DEF Init, VersionsInOrder, IndexInOrder, Written, Evicting, Listing, Listed, AfterSparse
  <1>5. Stamped /\ NewestHolds
    BY Constants DEF Init, Stamped, NewestHolds, NoFiles, Absent
  <1>6. Positions
    BY Constants DEF Init, Positions, AfterSparse, Listing, Listed, Evicting
  <1> QED
    BY <1>1, <1>3, <1>4, <1>5, <1>6 DEF IndInv

LEMMA TrainPreserves ==
  ASSUME KeepsEnough, IndInv, Train
  PROVE  IndInv'
  <1>0. TypeOK /\ Phases /\ Counted /\ VersionsInOrder /\ IndexInOrder /\ Stamped /\ Written /\ NewestHolds /\ Positions
    BY DEF IndInv
  <1>1. \A s \in Shards : pc[s] = "idle" /\ pc'[s] = "idle"
    BY DEF Train, Everyone
  <1>2. step \in Nat /\ step' = step + 1 /\ step' \in Steps
    BY <1>0, Constants DEF Train, TypeOK, Steps
  <1>3. marks \in Nat /\ marks' = marks + 1 /\ state \in Contents /\ state' = [state EXCEPT !.mark = marks']
    BY <1>0 DEF Train, TypeOK
  <1>4. state' \in Contents /\ state'.mark = marks' /\ state'.epoch = state.epoch /\ marks' \in Nat
    BY <1>3 DEF Contents
  <1>5. hook = "train" /\ hook' = "after_step" /\ UNCHANGED <<pc, versions, buffer, index, file, lives>>
    BY DEF Train
  <1>6. TypeOK'
    BY <1>0, <1>2, <1>4, <1>5 DEF TypeOK
  <1>7. Phases'
    BY <1>1 DEF Phases
  <1>8. Alive /\ state.epoch = Epochs(step)
    BY <1>0, <1>1, <1>5, Constants DEF Counted, Alive
  <1>9. Counted'
    BY <1>2, <1>4, <1>5, <1>8 DEF Counted
  <1>10. pc[0] = "idle" /\ pc'[0] = "idle"
    BY <1>1, Constants
  <1>11. VersionsInOrder'
    <2>1. \A i \in 1 .. Len(versions) : versions[i] \in Nat /\ versions[i] <= step
      <3>1. \A i \in 1 .. Len(versions) : versions[i] \in Steps
        BY <1>0 DEF TypeOK
      <3>2. \A i \in 1 .. Len(versions) : versions[i] <= step
        BY <1>0, <1>8 DEF VersionsInOrder
      <3> QED
        BY <3>1, <3>2 DEF Steps
    <2>2. Len(versions) <= MaxKeep
      BY <1>0, <1>8, <1>10 DEF VersionsInOrder, Evicting
    <2> QED
      BY <1>2, <1>5, <1>10, <2>1, <2>2 DEF VersionsInOrder, Evicting
  <1>12. index # <<>> => Newest(index) \in 1 .. LastStep /\ Newest(index) < step'
    BY <1>0, <1>2, <1>8, Constants DEF IndexInOrder
  <1>13. IndexInOrder'
    BY <1>2, <1>5, <1>10, <1>12, Constants DEF IndexInOrder, Evicting, Newest
  <1>14. Stamped'
    BY <1>0, <1>5 DEF Stamped
  <1>15. Written'
    BY <1>1, <1>10 DEF Written, Alive, Evicting, Listing, Listed, AfterSparse
  <1>16. NewestHolds'
    <2>1. state'.mark \in 1 .. marks'
      BY <1>3, <1>4
    <2>2. index' # <<>> => OneMoment(Newest(index))'
      BY <1>0, <1>3, <1>5 DEF NewestHolds, OneMoment, Newest
    <2> QED
      BY <1>2, <1>5, <1>12, <2>1, <2>2, Constants DEF NewestHolds, Newest
  <1>17. Positions'
    BY <1>0, <1>1, <1>5 DEF Train, Positions, Complete, Everyone, Newest, AfterSparse, Listing, Listed, Evicting
  <1> QED
    BY <1>6, <1>7, <1>9, <1>11, <1>13, <1>14, <1>15, <1>16, <1>17 DEF IndInv

LEMMA EndEpochPreserves ==
  ASSUME KeepsEnough, IndInv, EndEpoch
  PROVE  IndInv'
  <1>0. TypeOK /\ Phases /\ Counted /\ VersionsInOrder /\ IndexInOrder /\ Stamped /\ Written /\ NewestHolds /\ Positions
    BY DEF IndInv
  <1>1. \A s \in Shards : pc[s] = "idle" /\ pc'[s] = "idle"
    BY DEF EndEpoch, Everyone
  <1>2. state \in Contents /\ state' = [state EXCEPT !.epoch = @ + 1]
    BY <1>0 DEF EndEpoch, TypeOK
  <1>3. state' \in Contents /\ state'.mark = state.mark /\ state'.epoch = state.epoch + 1
    BY <1>2 DEF Contents
  <1>4. TypeOK'
    BY <1>0, <1>3 DEF EndEpoch, TypeOK
  <1>5. Phases'
    BY <1>1 DEF Phases
  <1>6. step \in Nat \ {0} /\ step % EpochSteps = 0 /\ state.epoch = Epochs(step - 1)
    BY <1>0, <1>1, Constants DEF EndEpoch, Counted, TypeOK, Steps, Alive
  <1>7. Counted'
    BY <1>0, <1>3, <1>6, EpochFacts DEF EndEpoch, Counted
  <1>8. VersionsInOrder'
    BY <1>0, <1>1, Constants DEF EndEpoch, VersionsInOrder, SavesHere, Alive, Evicting, Listing, Listed, AfterSparse
  <1>9. IndexInOrder'
    BY <1>0, <1>1, Constants DEF EndEpoch, IndexInOrder, Alive, Evicting, Listing, Listed, AfterSparse
  <1>10. Stamped'
    BY <1>0 DEF EndEpoch, Stamped
  <1>11. Written'
    BY <1>1, Constants DEF Written, Alive, Evicting, Listing, Listed, AfterSparse
  <1>12. NewestHolds'
    BY <1>0, <1>3 DEF EndEpoch, NewestHolds, OneMoment, Now, Alive
  <1>13. Positions'
    BY <1>0 DEF EndEpoch, Positions, Complete, Everyone, Newest
  <1> QED
    BY <1>4, <1>5, <1>7, <1>8, <1>9, <1>10, <1>11, <1>12, <1>13 DEF IndInv

LEMMA StartSavePreserves ==
  ASSUME KeepsEnough, IndInv, StartSave
  PROVE  IndInv'
  <1>0. TypeOK /\ Phases /\ Counted /\ VersionsInOrder /\ IndexInOrder /\ Stamped /\ Written /\ NewestHolds /\ Positions
    BY DEF IndInv
  <1>1. \A s \in Shards : pc[s] = "idle" /\ pc'[s] = "sparse"
    BY DEF StartSave, Everyone
  <1>2. TypeOK'
    BY <1>0 DEF StartSave, TypeOK, Kinds
  <1>3. Phases'
    BY <1>1 DEF StartSave, Phases, Due
  <1>4. Counted'
    BY <1>0, <1>1, Constants DEF StartSave, Counted, Alive
  <1>5. VersionsInOrder'
    BY <1>0, <1>1, Constants DEF StartSave, VersionsInOrder, SavesHere, Alive, Evicting, Listing, Listed, AfterSparse
  <1>6. IndexInOrder'
    BY <1>0, <1>1, Constants DEF StartSave, IndexInOrder, Alive, Evicting, Listing, Listed, AfterSparse
  <1>7. Stamped'
    BY <1>0 DEF StartSave, Stamped
  <1>8. Written'
    BY <1>1, Constants DEF Written, Alive, Evicting, Listing, Listed, AfterSparse
  <1>9. NewestHolds'
    BY <1>0, <1>1, Constants DEF StartSave, NewestHolds, OneMoment, Now, Alive
  <1>10. Positions'
    BY <1>1, Constants DEF Positions, Everyone, AfterSparse, Listing, Listed, Evicting
  <1> QED
    BY <1>2, <1>3, <1>4, <1>5, <1>6, <1>7, <1>8, <1>9, <1>10 DEF IndInv

\* What a hook that returns is followed by.
LEMMA NextHookIs ==
  ASSUME NEW n
  PROVE  /\ NextHook("after_step", n) = IF n % EpochSteps = 0 THEN "reset" ELSE "train"
         /\ NextHook("after_epoch", n) = IF n = LastStep THEN "end" ELSE "train"
         /\ NextHook("end", n) = "done"
  BY DEF NextHook

LEMMA HookReturnPreserves ==
  ASSUME KeepsEnough, IndInv, hook \in {"after_step", "after_epoch", "end"}, hook' = NextHook(hook, step),
         pc' = [s \in Shards |-> "idle"], UNCHANGED <<step, state, marks, versions, buffer, index, file, lives>>,
         (Everyone("idle") /\ ~Due(hook)) \/ (Everyone("sync") /\ Due(hook))
  PROVE  IndInv'
  <1>0. TypeOK /\ Phases /\ Counted /\ VersionsInOrder /\ IndexInOrder /\ Stamped /\ Written /\ NewestHolds /\ Positions
    BY DEF IndInv
  <1>1. /\ \A s \in Shards : pc'[s] = "idle"
        /\ (pc[0] = "idle" /\ ~Due(hook)) \/ (pc[0] = "sync" /\ Due(hook))
    BY Constants DEF Everyone
  <1>2. Alive /\ pc'[0] = "idle" /\ Alive'
    BY <1>1, Constants DEF Alive
  <1>3. hook' \in {"reset", "train", "end", "done"}
    BY NextHookIs
  <1>4. TypeOK'
    BY <1>0, <1>3 DEF TypeOK
  <1>5. Phases'
    BY <1>1 DEF Phases
  <1>6. step \in Nat /\ step >= 1 /\ step \in 1 .. LastStep
    BY <1>0, <1>2, Constants DEF Counted, TypeOK, Steps
  <1>7. step \in Nat \ {0}
    BY <1>6
  <1>8. Counted'
    <2>1. CASE hook = "after_step"
      BY <1>0, <1>2, <1>6, <1>7, <2>1, NextHookIs, EpochFacts DEF Counted
    <2>2. CASE hook = "after_epoch"
      BY <1>0, <1>2, <1>6, <2>2, NextHookIs DEF Counted
    <2>3. CASE hook = "end"
      BY <1>0, <1>2, <1>6, <2>3, NextHookIs DEF Counted
    <2> QED
      BY <2>1, <2>2, <2>3
  <1>9. \A i \in 1 .. Len(versions) : versions[i] <= step
    BY <1>0, <1>2 DEF VersionsInOrder
  <1>10. Len(versions) <= MaxKeep
    BY <1>0, <1>1, <1>2 DEF VersionsInOrder, Evicting
  <1>11. hook' \notin {"train", "done"} => SavesHere <= SavesHere'
    <2>1. CASE hook = "after_step"
      <3> QED
        BY <1>1, <1>2, <2>1, NextHookIs DEF SavesHere, Listed, Evicting, Due
    <2>2. CASE hook = "after_epoch"
      BY <1>1, <1>2, <2>2, NextHookIs DEF SavesHere, Listed, Evicting, Due
    <2>3. CASE hook = "end"
      BY <2>3, NextHookIs
    <2> QED
      BY <2>1, <2>2, <2>3
  <1>12. SavesHere \in Nat /\ SavesHere' \in Nat
    BY DEF SavesHere
  <1>13. VersionsInOrder'
    <2>1. \A i \in 1 .. Len(versions) :
             versions[i] = step /\ hook' \notin {"train", "done"} => Len(versions) - i < SavesHere'
      <3> SUFFICES ASSUME NEW i \in 1 .. Len(versions), versions[i] = step, hook' \notin {"train", "done"}
                   PROVE  Len(versions) - i < SavesHere'
        OBVIOUS
      <3>1. Len(versions) - i < SavesHere
        BY <1>0, <1>2 DEF VersionsInOrder
      <3>2. Len(versions) \in Nat
        BY <1>0 DEF TypeOK
      <3> HIDE DEF SavesHere
      <3> QED
        BY <1>11, <1>12, <3>1, <3>2
    <2> HIDE DEF SavesHere
    <2> QED
      BY <1>2, <1>9, <1>10, <2>1 DEF VersionsInOrder, Evicting
  <1>14. IndexInOrder'
    BY <1>0, <1>2 DEF IndexInOrder, Evicting, Newest
  <1>15. Stamped'
    BY <1>0 DEF Stamped
  <1>16. Written'
    BY <1>1, <1>2 DEF Written, Listing, Listed, Evicting, AfterSparse
  <1>17. NewestHolds'
    BY <1>0, <1>2 DEF NewestHolds, OneMoment, Now, Newest
  <1>18. Positions'
    <2>1. \A s \in Shards : pc'[s] \notin AfterSparse
      BY <1>1 DEF AfterSparse, Listing, Listed, Evicting
    <2>2. CASE Everyone("idle")
      BY <1>0, <2>1, <2>2 DEF Positions, Complete, Newest
    <2>3. CASE Everyone("sync")
      <3>1. Newest(index) = step /\ \A s \in Shards : file[step][<<"io_state", s>>] # Absent
        BY <1>0, <2>3, Constants DEF IndexInOrder, Positions, Everyone, AfterSparse, Listed
      <3>2. \A f \in Weights : file[step][f] # Absent
        BY <1>0, <1>2, <2>3, Constants DEF IndexInOrder, NewestHolds, Now, Absent, Everyone
      <3>3. Complete(step)
        BY <3>1, <3>2 DEF Complete, Weights, Files
      <3> QED
        BY <2>1, <3>1, <3>3 DEF Positions, Complete, Newest
    <2> QED
      BY <2>2, <2>3
  <1> QED
    BY <1>4, <1>5, <1>8, <1>13, <1>14, <1>15, <1>16, <1>17, <1>18 DEF IndInv

LEMMA SkipSavePreserves ==
  ASSUME KeepsEnough, IndInv, SkipSave PROVE IndInv'
  <1>1. Everyone("idle") /\ pc' = [s \in Shards |-> "idle"]
    BY Constants DEF SkipSave, Everyone
  <1>2. /\ hook \in {"after_step", "after_epoch", "end"} /\ hook' = NextHook(hook, step) /\ ~Due(hook)
        /\ UNCHANGED <<step, state, marks, versions, buffer, index, file, lives>>
    BY DEF SkipSave
  <1> QED
    BY <1>1, <1>2, HookReturnPreserves

LEMMA SyncSavePreserves ==
  ASSUME KeepsEnough, IndInv, SyncSave PROVE IndInv'
  <1>1. Everyone("sync") /\ pc[0] = "sync"
    BY Constants DEF SyncSave, Everyone
  <1>2. Due(hook) /\ hook \in {"after_step", "after_epoch", "end"}
    BY <1>1, Constants DEF IndInv, Phases, Due
  <1> QED
    BY <1>1, <1>2, HookReturnPreserves DEF SyncSave

LEMMA SyncSparsePreserves ==
  ASSUME KeepsEnough, IndInv, SyncSparse PROVE IndInv'
  <1>0. TypeOK /\ Phases /\ Counted /\ VersionsInOrder /\ IndexInOrder /\ Stamped /\ Written /\ NewestHolds /\ Positions
    BY DEF IndInv
  <1>1. /\ \A s \in Shards : pc[s] = "sparse_sync" /\ pc'[s] = "io_state"
        /\ pc[0] = "sparse_sync" /\ pc'[0] = "io_state" /\ Alive /\ Alive'
    BY Constants DEF SyncSparse, Everyone, Alive
  <1>2. TypeOK'
    BY <1>0 DEF SyncSparse, TypeOK, Kinds
  <1>3. Phases'
    BY <1>0, <1>1, Constants DEF SyncSparse, Phases, Due, AfterSparse
  <1>4. Counted' /\ IndexInOrder' /\ Stamped'
    BY <1>0, <1>1 DEF SyncSparse, Counted, IndexInOrder, Stamped, Evicting, Newest
  <1>5. VersionsInOrder'
    BY <1>0, <1>1 DEF SyncSparse, VersionsInOrder, SavesHere, Listed, Evicting
  <1>6. Written'
    BY <1>0, <1>1 DEF SyncSparse, Written, Now, Listed, Listing, Evicting
  <1>7. NewestHolds'
    BY <1>0, <1>1 DEF SyncSparse, NewestHolds, OneMoment, Now, Newest
  <1>8. Positions'
    BY <1>1, Constants DEF Positions, Everyone
  <1> QED
    BY <1>2, <1>3, <1>4, <1>5, <1>6, <1>7, <1>8 DEF IndInv

-----------------------------------------------------------------------------
(* The steps of a rank that writes, and of rank 0 at the index.            *)

\* The epochs counted while something is saved are those of the step, but for a
\* save by save_steps at the end of an epoch.
LEMMA SavedEpoch ==
  ASSUME IndInv, Alive, pc[0] # "idle"
  PROVE  /\ Due(hook) /\ step \in 1 .. LastStep
         /\ state.epoch = Epochs(step) \/ (Twice(step) /\ state.epoch = Epochs(step - 1))
  <1>1. Due(hook)
    BY Constants DEF IndInv, Phases, Alive
  <1>2. step \in 1 .. LastStep /\ step \in Nat \ {0}
    BY <1>1, Constants DEF IndInv, Counted, TypeOK, Steps, Due
  <1>3. CASE hook = "after_step"
    <2>1. state.epoch = Epochs(step - 1)
      BY <1>1, <1>2, <1>3 DEF IndInv, Counted
    <2>2. step % EpochSteps = 0 => Twice(step)
      BY <1>1, <1>2, <1>3 DEF Due, Twice
    <2> QED
      BY <1>1, <1>2, <2>1, <2>2, EpochFacts
  <1>4. CASE hook # "after_step"
    BY <1>1, <1>2, <1>4 DEF IndInv, Counted, Due
  <1> QED
    BY <1>1, <1>2, <1>3, <1>4

\* Where a rank that writes a file comes from and goes to.
LEMMA WriterMoves ==
  ASSUME IndInv, NEW s \in Shards, WriteFile(s)
  PROVE  /\ \/ pc[s] = "sparse" /\ pc'[s] = "sparse_sync"
            \/ pc[s] = "io_state" /\ pc'[s] = (IF s = 0 THEN "model" ELSE "sync")
            \/ pc[s] = "model" /\ pc'[s] = "extra" /\ s = 0
            \/ pc[s] = "extra" /\ pc'[s] = "io_state_count" /\ s = 0
            \/ pc[s] = "io_state_count" /\ pc'[s] = "open_index" /\ s = 0
         /\ \A t \in Shards \ {s} : pc'[t] = pc[t]
         /\ Alive /\ Alive' /\ pc[0] # "idle"
         /\ pc[0] = pc'[0] \/ {pc[0], pc'[0]} \cap ({"write_index"} \cup Listed) = {}
  <1>0. TypeOK /\ Phases
    BY DEF IndInv
  <1>1. /\ \/ pc[s] = "sparse" /\ pc'[s] = "sparse_sync"
           \/ pc[s] = "io_state" /\ pc'[s] = (IF s = 0 THEN "model" ELSE "sync")
           \/ pc[s] = "model" /\ pc'[s] = "extra" /\ s = 0
           \/ pc[s] = "extra" /\ pc'[s] = "io_state_count" /\ s = 0
           \/ pc[s] = "io_state_count" /\ pc'[s] = "open_index" /\ s = 0
        /\ \A t \in Shards \ {s} : pc'[t] = pc[t]
    <2>1. pc[s] \in {"model", "extra", "io_state_count"} => s = 0
      BY <1>0 DEF Phases
    <2>2. pc' = [pc EXCEPT ![s] = AfterWrite(s)[pc[s]]] /\ pc[s] \in Kinds
      BY DEF WriteFile
    <2>3. pc'[s] = AfterWrite(s)[pc[s]] /\ \A t \in Shards \ {s} : pc'[t] = pc[t]
      BY <1>0, <2>2 DEF TypeOK
    <2> QED
      BY <2>1, <2>2, <2>3 DEF AfterWrite, Kinds
  <1>2. /\ Alive /\ Alive' /\ pc[0] # "idle"
        /\ pc[0] = pc'[0] \/ {pc[0], pc'[0]} \cap ({"write_index"} \cup Listed) = {}
    <2>1. CASE s = 0
      BY <1>1, <2>1, Constants DEF Alive, Listed, Evicting
    <2>2. CASE s # 0
      BY <1>0, <1>1, <2>2, Constants DEF Alive, Phases, Listed, Evicting, AfterSparse, Listing
    <2> QED
      BY <2>1, <2>2
  <1> QED
    BY <1>1, <1>2

LEMMA WriteFilePreserves ==
  ASSUME KeepsEnough, IndInv, NEW s \in Shards, WriteFile(s) PROVE IndInv'
  <1>0. TypeOK /\ Phases /\ Counted /\ VersionsInOrder /\ IndexInOrder /\ Stamped /\ Written /\ NewestHolds /\ Positions
    BY DEF IndInv
  <1> DEFINE g == <<pc[s], s>>
  <1>1. /\ \/ pc[s] = "sparse" /\ pc'[s] = "sparse_sync"
           \/ pc[s] = "io_state" /\ pc'[s] = (IF s = 0 THEN "model" ELSE "sync")
           \/ pc[s] = "model" /\ pc'[s] = "extra" /\ s = 0
           \/ pc[s] = "extra" /\ pc'[s] = "io_state_count" /\ s = 0
           \/ pc[s] = "io_state_count" /\ pc'[s] = "open_index" /\ s = 0
        /\ \A t \in Shards \ {s} : pc'[t] = pc[t]
    BY WriterMoves
  <1>2. g \in Files
    BY <1>1 DEF Files
  <1>3. step \in Steps /\ file' = [file EXCEPT ![step][g] = state] /\ state \in Contents
    BY <1>0 DEF WriteFile, TypeOK
  <1>4. UNCHANGED <<hook, step, state, marks, versions, buffer, index, lives>>
    BY DEF WriteFile
  <1> HIDE DEF g
  <1>5. /\ file' \in [Steps -> [Files -> Contents]]
        /\ \A c \in Steps : \A f \in Files : file'[c][f] = IF c = step /\ f = g THEN state ELSE file[c][f]
    BY <1>0, <1>2, <1>3 DEF TypeOK
  <1>6. /\ pc' \in [Shards -> Kinds \cup {"idle", "sparse_sync", "open_index", "write_index", "remove",
                                     "open_evicted", "write_evicted", "sync", "down", "failed", "astray"}]
    <2>1. pc' = [t \in Shards |-> pc'[t]]
      BY <1>0 DEF WriteFile, TypeOK
    <2> QED
      BY <1>0, <1>1, <2>1 DEF TypeOK, Kinds
  <1>7. TypeOK'
    BY <1>0, <1>4, <1>5, <1>6 DEF TypeOK
  <1>8. /\ Alive /\ Alive' /\ pc[0] # "idle"
        /\ pc[0] = pc'[0] \/ {pc[0], pc'[0]} \cap ({"write_index"} \cup Listed) = {}
    BY WriterMoves
  <1>9. Phases'
    BY <1>0, <1>1, <1>4 DEF Phases, Due, AfterSparse, Listing, Listed, Evicting
  <1>10. Counted'
    BY <1>0, <1>4, <1>8 DEF Counted
  <1>11. VersionsInOrder'
    BY <1>0, <1>4, <1>8 DEF VersionsInOrder, SavesHere, Listed
  <1>12. IndexInOrder'
    BY <1>0, <1>4, <1>8 DEF IndexInOrder, Newest, Listed, Evicting
  <1>13. state.epoch = Epochs(step) \/ (Twice(step) /\ state.epoch = Epochs(step - 1))
    BY <1>8, SavedEpoch
  <1>14. Stamped'
    BY <1>0, <1>4, <1>5, <1>13 DEF Stamped
  <1>15. \A f \in Files : Now(f)' <=> f = g \/ Now(f)
    BY <1>3, <1>4, <1>5 DEF Now
  <1>16. Written'
    <2>1. ASSUME NEW t \in Shards, pc'[t] \in AfterSparse \cup {"sparse_sync"} PROVE Now(<<"sparse", t>>)'
      <3>1. CASE pc[t] \in AfterSparse \cup {"sparse_sync"}
        BY <1>0, <1>15, <3>1, Constants DEF Written
      <3>2. CASE pc[t] \notin AfterSparse \cup {"sparse_sync"}
        BY <1>1, <1>15, <2>1, <3>2, Constants DEF g, AfterSparse
      <3> QED
        BY <3>1, <3>2
    <2>2. CASE s # 0
      BY <1>0, <1>1, <1>15, <2>1, <2>2, Constants DEF Written
    <2>3. CASE s = 0
      BY <1>0, <1>1, <1>15, <2>1, <2>3, Constants DEF Written, g, Listing, Listed, Evicting
    <2> QED
      BY <2>2, <2>3
  <1>17. NewestHolds'
    <2>1. state'.mark \in 1 .. marks'
      BY <1>0, <1>4 DEF NewestHolds
    <2>2. index # <<>> /\ Newest(index) = step => \A f \in Weights : Now(f)'
      BY <1>0, <1>8, <1>15, Constants DEF NewestHolds
    <2>3. ASSUME index # <<>>, Newest(index) # step PROVE OneMoment(Newest(index))'
      <3>1. Newest(index) \in Steps /\ Newest(index)' = Newest(index)
        BY <1>0, <1>4, <2>3, Constants DEF IndexInOrder, Steps, Newest
      <3>2. \A f \in Weights : file'[Newest(index)][f] = file[Newest(index)][f]
        BY <1>5, <2>3, <3>1, Constants
      <3> QED
        BY <1>0, <1>4, <2>3, <3>1, <3>2 DEF NewestHolds, OneMoment
    <2>4. ASSUME index # <<>>, Newest(index) = step PROVE OneMoment(Newest(index))'
      BY <1>4, <2>1, <2>2, <2>4 DEF OneMoment, Now, Newest
    <2> QED
      BY <1>4, <2>1, <2>2, <2>3, <2>4 DEF NewestHolds, Newest
  <1>18. Positions'
    <2>1. state # Absent
      BY <1>0 DEF NewestHolds, Absent
    <2>2. ASSUME NEW t \in Shards, pc'[t] \in AfterSparse \ {"io_state"} PROVE file'[step][<<"io_state", t>>] # Absent
      <3>1. <<"io_state", t>> \in Files
        BY Constants
      <3>2. CASE pc[t] \in AfterSparse \ {"io_state"}
        BY <1>0, <1>3, <1>5, <2>1, <3>1, <3>2 DEF Positions
      <3>3. CASE pc[t] \notin AfterSparse \ {"io_state"}
        <4>1. t = s /\ pc[s] = "io_state"
          BY <1>1, <2>2, <3>3 DEF AfterSparse, Listing, Listed, Evicting
        <4> QED
          BY <1>3, <1>5, <2>1, <3>1, <4>1 DEF g
      <3> QED
        BY <3>2, <3>3
    <2>3. ~Everyone("idle")'
      <3>1. pc'[s] # "idle"
        BY <1>1
      <3> QED
        BY <3>1 DEF Everyone
    <2> QED
      BY <1>4, <2>2, <2>3 DEF Positions
  <1> QED
    BY <1>7, <1>9, <1>10, <1>11, <1>12, <1>14, <1>16, <1>17, <1>18 DEF IndInv

\* Rank 0 goes on at the index while the others wait or write their io state.
LEMMA Rank0Moves ==
  ASSUME KeepsEnough, IndInv, pc[0] \in Listing \cup Evicting, NEW w \in Listing \cup Listed,
         pc' = [pc EXCEPT ![0] = w], UNCHANGED <<hook, step, state, marks, lives>>
  PROVE  /\ Phases' /\ Counted' /\ Alive /\ Alive' /\ pc'[0] = w
         /\ pc' \in [Shards -> Kinds \cup {"idle", "sparse_sync", "open_index", "write_index", "remove",
                                     "open_evicted", "write_evicted", "sync", "down", "failed", "astray"}]
         /\ step \in Steps /\ step \in 1 .. LastStep /\ hook \notin {"train", "done"}
         /\ \A f \in Weights : Now(f)
         /\ (\A f \in Weights : Now(f)') => Written'
         /\ file'[step] = file[step] => Positions'
  <1>1. TypeOK /\ Phases /\ Counted /\ Written /\ Positions
    BY DEF IndInv
  <1>2. pc'[0] = w /\ \A s \in Shards : s # 0 => pc'[s] = pc[s]
    BY <1>1, Constants DEF TypeOK
  <1>3. Alive /\ Alive' /\ pc[0] # "idle"
    BY <1>2 DEF Alive, Listing, Listed, Evicting
  <1>4. /\ \A s \in Shards : pc[s] \in AfterSparse /\ (s # 0 => pc[s] \in {"io_state", "sync"})
        /\ Due(hook)
    BY <1>1, Constants DEF Phases, Listing, Evicting
  <1>5. Phases' /\ Counted'
    BY <1>1, <1>2, <1>3, <1>4 DEF Phases, Counted, Due, AfterSparse, Listing, Listed
  <1>6. pc' \in [Shards -> Kinds \cup {"idle", "sparse_sync", "open_index", "write_index", "remove",
                                     "open_evicted", "write_evicted", "sync", "down", "failed", "astray"}]
    BY <1>1, Constants DEF TypeOK, Listing, Listed, Evicting
  <1>7. step \in Steps /\ step \in 1 .. LastStep /\ hook \notin {"train", "done"}
    BY <1>1, <1>3, <1>4, SavedEpoch DEF TypeOK, Due
  <1>8. \A f \in Weights : Now(f)
    <2>1. \A s \in Shards : Now(<<"sparse", s>>)
      BY <1>1, <1>4 DEF Written
    <2>2. Now(<<"model", 0>>) /\ Now(<<"extra", 0>>) /\ Now(<<"io_state_count", 0>>)
      BY <1>1 DEF Written, Listed
    <2> QED
      BY <2>1, <2>2, WeightsAre
  <1>9. (\A f \in Weights : Now(f)') => Written'
    BY Constants DEF Written
  <1>10. file'[step] = file[step] => Positions'
    <2>1. ~Everyone("idle")'
      BY <1>2, Constants DEF Everyone, Listing, Listed, Evicting
    <2>2. \A s \in Shards : pc'[s] \in AfterSparse \ {"io_state"} => pc[s] \in AfterSparse \ {"io_state"}
      <3>1. pc[0] \in AfterSparse \ {"io_state"}
        BY DEF AfterSparse, Listing, Listed, Evicting
      <3> QED
        BY <1>2, <3>1
    <2> QED
      BY <1>1, <2>1, <2>2 DEF Positions
  <1> QED
    BY <1>2, <1>3, <1>5, <1>6, <1>7, <1>8, <1>9, <1>10

LEMMA OpenIndexPreserves ==
  ASSUME KeepsEnough, IndInv, OpenIndex PROVE IndInv'
  <1>0. TypeOK /\ VersionsInOrder /\ IndexInOrder /\ Stamped /\ NewestHolds /\ Positions
    BY DEF IndInv
  <1>1. /\ pc[0] = "open_index" /\ pc' = [pc EXCEPT ![0] = "write_index"]
        /\ buffer' = Append(index, step) /\ index' \in {index, <<>>}
        /\ UNCHANGED <<hook, step, state, marks, versions, file, lives>>
    BY DEF OpenIndex, Truncated
  <1>2. /\ Phases' /\ Counted' /\ Alive /\ Alive' /\ pc'[0] = "write_index" /\ step \in Steps
        /\ (\A f \in Weights : Now(f)) /\ Positions'
    BY <1>1, Rank0Moves DEF Listing
  <1>3. TypeOK'
    <2>1. buffer' \in Seq(Steps) /\ index' \in Seq(Steps)
      <3>1. buffer' = Append(index, step) /\ index \in Seq(Steps) /\ step \in Steps
        BY <1>0, <1>1, <1>2 DEF TypeOK
      <3>2. index' \in Seq(Steps)
        BY <1>1, <3>1, NoLines
      <3> QED
        BY <3>1, <3>2
    <2> QED
      BY <1>0, <1>1, <2>1, Rank0Moves DEF TypeOK, Listing
  <1>4. VersionsInOrder'
    BY <1>0, <1>1, <1>2 DEF VersionsInOrder, SavesHere, Listed, Evicting
  <1>5. IndexInOrder' /\ Stamped'
    <2>1. buffer' # <<>> /\ Newest(buffer') = step
      BY <1>0, <1>1, <1>2 DEF TypeOK, Newest
    <2> QED
      BY <1>0, <1>1, <1>2, <2>1 DEF IndexInOrder, Stamped, Newest
  <1>6. NewestHolds' /\ \A f \in Weights : Now(f)'
    BY <1>0, <1>1, <1>2 DEF NewestHolds, OneMoment, Now, Newest
  <1>7. Written'
    BY <1>1, <1>6, Rank0Moves DEF Listing
  <1> QED
    BY <1>2, <1>3, <1>4, <1>5, <1>6, <1>7 DEF IndInv

LEMMA WriteIndexPreserves ==
  ASSUME KeepsEnough, IndInv, WriteIndex PROVE IndInv'
  <1>0. TypeOK /\ VersionsInOrder /\ IndexInOrder /\ Stamped /\ NewestHolds /\ Positions
    BY DEF IndInv
  <1> DEFINE w == IF Len(versions') > MaxKeep THEN "remove" ELSE "sync"
  <1>1. /\ pc[0] = "write_index" /\ pc' = [pc EXCEPT ![0] = w]
        /\ index' = buffer /\ versions' = Append(versions, step)
        /\ UNCHANGED <<hook, step, state, marks, buffer, file, lives>>
    BY DEF WriteIndex
  <1>2. w \in Listed /\ w # "write_evicted" /\ w # "write_index" /\ (w \in Evicting <=> Len(versions') > MaxKeep)
    BY DEF Listed, Evicting
  <1> HIDE DEF w
  <1>3. /\ Phases' /\ Counted' /\ Alive /\ Alive' /\ pc'[0] = w
        /\ pc' \in [Shards -> Kinds \cup {"idle", "sparse_sync", "open_index", "write_index", "remove",
                                     "open_evicted", "write_evicted", "sync", "down", "failed", "astray"}]
        /\ step \in Steps /\ step \in 1 .. LastStep /\ \A f \in Weights : Now(f)
        /\ (\A f \in Weights : Now(f)') => Written'
        /\ Positions'
    BY <1>1, <1>2, Rank0Moves DEF Listing
  <1>4. /\ versions \in Seq(Steps) /\ Len(versions) \in Nat /\ Len(versions) <= MaxKeep
        /\ versions' \in Seq(Steps) /\ Len(versions') = Len(versions) + 1
        /\ \A i \in 1 .. Len(versions) : versions'[i] = versions[i]
        /\ versions'[Len(versions) + 1] = step
    BY <1>0, <1>1, <1>3 DEF TypeOK, VersionsInOrder, Evicting
  <1>5. TypeOK'
    <2>1. Len(versions') <= MaxKeep + 1
      BY <1>4, Constants
    <2> QED
      BY <1>0, <1>1, <1>3, <1>4, <2>1 DEF TypeOK
  <1>6. VersionsInOrder'
    <2>1. SavesHere \in Nat /\ SavesHere' = SavesHere + 1
      BY <1>1, <1>2, <1>3 DEF SavesHere, Listed, Evicting
    <2>2. ASSUME NEW i \in 1 .. Len(versions')
          PROVE  /\ versions'[i] <= step'
                 /\ versions'[i] = step' /\ hook' \notin {"train", "done"} => Len(versions') - i < SavesHere'
      <3>1. CASE i \in 1 .. Len(versions)
        <4>1. /\ versions[i] <= step
              /\ versions[i] = step /\ hook \notin {"train", "done"} => Len(versions) - i < SavesHere
          BY <1>0, <1>3, <3>1 DEF VersionsInOrder
        <4> HIDE DEF SavesHere
        <4> QED
          BY <1>1, <1>4, <2>1, <3>1, <4>1
      <3>2. CASE i = Len(versions) + 1
        <4> HIDE DEF SavesHere
        <4> QED
          BY <1>1, <1>3, <1>4, <2>1, <3>2 DEF Steps
      <3> QED
        BY <1>4, <3>1, <3>2
    <2>3. IF w \in Evicting THEN Len(versions') = MaxKeep + 1 ELSE Len(versions') <= MaxKeep
      BY <1>2, <1>4, Constants
    <2> HIDE DEF SavesHere
    <2> QED
      BY <1>3, <2>2, <2>3 DEF VersionsInOrder
  <1>7. index' # <<>> /\ Newest(index)' = step
    BY <1>0, <1>1, <1>3 DEF IndexInOrder, TypeOK, Newest
  <1>8. IndexInOrder' /\ Stamped'
    BY <1>0, <1>1, <1>2, <1>3, <1>7 DEF IndexInOrder, Stamped, Steps
  <1>9. \A f \in Weights : Now(f)'
    BY <1>1, <1>3 DEF Now
  <1>10. NewestHolds'
    BY <1>0, <1>1, <1>7, <1>9 DEF NewestHolds, OneMoment, Now
  <1> QED
    BY <1>3, <1>5, <1>6, <1>8, <1>9, <1>10 DEF IndInv

\* What is evicted is not what was listed last.
LEMMA EvictsAnother ==
  ASSUME KeepsEnough, IndInv, pc[0] \in Evicting
  PROVE  versions \in Seq(Steps) /\ Len(versions) = MaxKeep + 1 /\ Head(versions) \in Steps /\ Head(versions) # step
  <1>1. Alive /\ pc[0] # "idle"
    BY DEF Alive, Evicting
  <1>2. hook \notin {"train", "done"}
    BY <1>1, SavedEpoch DEF Due
  <1>3. versions \in Seq(Steps) /\ Len(versions) = MaxKeep + 1 /\ MaxKeep \in Nat
        /\ MaxKeep >= SavesOfAStep
    BY <1>1, Constants DEF IndInv, TypeOK, VersionsInOrder, KeepsEnough
  <1>4. Head(versions) = versions[1] /\ Head(versions) \in Steps /\ 1 \in 1 .. Len(versions)
    BY <1>3
  <1>5. versions[1] = step => Len(versions) - 1 < SavesHere
    BY <1>1, <1>2, <1>4 DEF IndInv, VersionsInOrder
  <1>6. SavesHere \in Nat /\ SavesOfAStep \in Nat /\ SavesHere <= SavesOfAStep
    <2>1. step \in 1 .. LastStep /\ (hook \in {"reset", "after_epoch", "end"} => step % EpochSteps = 0)
      BY <1>1, SavedEpoch DEF IndInv, Counted
    <2>2. hook \in {"reset", "after_epoch", "end"} /\ step % SaveSteps = 0 => ~Apart
      BY <2>1 DEF Apart, Twice
    <2> QED
      BY <2>2 DEF SavesHere, SavesOfAStep
  <1> HIDE DEF SavesHere, SavesOfAStep
  <1> QED
    BY <1>3, <1>4, <1>5, <1>6

LEMMA RemovePreserves ==
  ASSUME KeepsEnough, IndInv, Remove PROVE IndInv'
  <1>0. TypeOK /\ VersionsInOrder /\ IndexInOrder /\ Stamped /\ NewestHolds /\ Positions
    BY DEF IndInv
  <1>1. /\ pc[0] = "remove" /\ pc' = [pc EXCEPT ![0] = "open_evicted"]
        /\ file' = [file EXCEPT ![Head(versions)] = NoFiles]
        /\ UNCHANGED <<hook, step, state, marks, versions, buffer, index, lives>>
    BY DEF Remove
  <1>2. Head(versions) \in Steps /\ Head(versions) # step
    BY <1>1, EvictsAnother DEF Evicting
  <1>3. /\ Phases' /\ Counted' /\ Alive /\ Alive' /\ pc'[0] = "open_evicted" /\ step \in Steps
        /\ pc' \in [Shards -> Kinds \cup {"idle", "sparse_sync", "open_index", "write_index", "remove",
                                     "open_evicted", "write_evicted", "sync", "down", "failed", "astray"}]
        /\ \A f \in Weights : Now(f)
        /\ (\A f \in Weights : Now(f)') => Written'
        /\ (file'[step] = file[step] => Positions')
    BY <1>1, Rank0Moves DEF Evicting, Listed
  <1>4. NoFiles \in [Files -> Contents] /\ \A f \in Files : NoFiles[f] = Absent
    BY DEF NoFiles, Absent, Contents
  <1>5. file' \in [Steps -> [Files -> Contents]] /\ file'[step] = file[step]
        /\ \A c \in Steps : file'[c] = file[c] \/ file'[c] = NoFiles
    BY <1>0, <1>1, <1>2, <1>3, <1>4 DEF TypeOK
  <1>6. TypeOK'
    BY <1>0, <1>1, <1>3, <1>5 DEF TypeOK
  <1>7. VersionsInOrder'
    BY <1>0, <1>1, <1>3 DEF VersionsInOrder, SavesHere, Listed, Evicting
  <1>8. IndexInOrder' /\ index # <<>> /\ Newest(index) = step /\ Newest(index)' = step
    BY <1>0, <1>1, <1>3 DEF IndexInOrder, Newest
  <1>9. Stamped'
    BY <1>0, <1>4, <1>5 DEF Stamped
  <1>10. \A f \in Weights : Now(f)'
    BY <1>1, <1>3, <1>5 DEF Now
  <1>11. NewestHolds'
    BY <1>0, <1>1, <1>8, <1>10 DEF NewestHolds, OneMoment, Now
  <1> QED
    BY <1>3, <1>5, <1>6, <1>7, <1>8, <1>9, <1>10, <1>11 DEF IndInv

LEMMA OpenEvictedPreserves ==
  ASSUME KeepsEnough, IndInv, OpenEvicted PROVE IndInv'
  <1>0. TypeOK /\ VersionsInOrder /\ IndexInOrder /\ Stamped /\ NewestHolds /\ Positions
    BY DEF IndInv
  <1>1. /\ pc[0] = "open_evicted" /\ pc' = [pc EXCEPT ![0] = "write_evicted"]
        /\ buffer' = Without(index, Head(versions)) /\ index' \in {index, <<>>}
        /\ UNCHANGED <<hook, step, state, marks, versions, file, lives>>
    BY DEF OpenEvicted, Truncated
  <1>2. Head(versions) # step
    BY <1>1, EvictsAnother DEF Evicting
  <1>3. index # <<>> /\ Newest(index) = step /\ index \in Seq(Steps)
    BY <1>0, <1>1 DEF IndexInOrder, TypeOK
  <1>4. buffer' \in Seq(Steps) /\ buffer' # <<>> /\ Newest(buffer') = step
    BY <1>1, <1>2, <1>3, WithoutKeepsNewest
  <1>5. /\ Phases' /\ Counted' /\ Alive /\ Alive' /\ pc'[0] = "write_evicted" /\ step \in Steps
        /\ pc' \in [Shards -> Kinds \cup {"idle", "sparse_sync", "open_index", "write_index", "remove",
                                     "open_evicted", "write_evicted", "sync", "down", "failed", "astray"}]
        /\ \A f \in Weights : Now(f)
        /\ (\A f \in Weights : Now(f)') => Written'
        /\ Positions'
    BY <1>1, Rank0Moves DEF Evicting, Listed
  <1>6. TypeOK'
    <2>1. index' \in Seq(Steps)
      BY <1>1, <1>3, NoLines
    <2> QED
      BY <1>0, <1>1, <1>4, <1>5, <2>1 DEF TypeOK
  <1>7. VersionsInOrder'
    BY <1>0, <1>1, <1>5 DEF VersionsInOrder, SavesHere, Listed, Evicting
  <1>8. IndexInOrder' /\ Stamped'
    BY <1>0, <1>1, <1>3, <1>4, <1>5 DEF IndexInOrder, Stamped, Newest
  <1>9. NewestHolds' /\ \A f \in Weights : Now(f)'
    BY <1>0, <1>1, <1>5 DEF NewestHolds, OneMoment, Now, Newest
  <1> QED
    BY <1>5, <1>6, <1>7, <1>8, <1>9 DEF IndInv

LEMMA WriteEvictedPreserves ==
  ASSUME KeepsEnough, IndInv, WriteEvicted PROVE IndInv'
  <1>0. TypeOK /\ VersionsInOrder /\ IndexInOrder /\ Stamped /\ NewestHolds /\ Positions
    BY DEF IndInv
  <1>1. /\ pc[0] = "write_evicted" /\ pc' = [pc EXCEPT ![0] = "sync"]
        /\ index' = buffer /\ versions' = Tail(versions)
        /\ UNCHANGED <<hook, step, state, marks, buffer, file, lives>>
    BY DEF WriteEvicted
  <1>2. /\ Phases' /\ Counted' /\ Alive /\ Alive' /\ pc'[0] = "sync" /\ step \in Steps /\ step \in 1 .. LastStep
        /\ pc' \in [Shards -> Kinds \cup {"idle", "sparse_sync", "open_index", "write_index", "remove",
                                     "open_evicted", "write_evicted", "sync", "down", "failed", "astray"}]
        /\ \A f \in Weights : Now(f)
        /\ (\A f \in Weights : Now(f)') => Written'
        /\ Positions'
    BY <1>1, Rank0Moves DEF Evicting, Listed
  <1>3. versions \in Seq(Steps) /\ Len(versions) = MaxKeep + 1 /\ MaxKeep \in Nat
    BY <1>1, EvictsAnother, Constants DEF Evicting
  <1>4. /\ versions' \in Seq(Steps) /\ Len(versions') = MaxKeep
        /\ \A i \in 1 .. MaxKeep : versions'[i] = versions[i + 1] /\ i + 1 \in 1 .. Len(versions)
    BY <1>1, <1>3
  <1>5. TypeOK'
    <2>1. Len(versions') <= MaxKeep + 1
      BY <1>3, <1>4
    <2> QED
      BY <1>0, <1>1, <1>2, <1>4, <2>1 DEF TypeOK
  <1>6. VersionsInOrder'
    <2>1. SavesHere \in Nat /\ SavesHere' = SavesHere
      BY <1>1, <1>2 DEF SavesHere, Listed, Evicting
    <2>2. ASSUME NEW i \in 1 .. MaxKeep
          PROVE  /\ versions'[i] <= step'
                 /\ versions'[i] = step' /\ hook' \notin {"train", "done"} => MaxKeep - i < SavesHere'
      <3>1. /\ versions[i + 1] <= step
            /\ versions[i + 1] = step /\ hook \notin {"train", "done"} => Len(versions) - (i + 1) < SavesHere
        BY <1>0, <1>2, <1>4 DEF VersionsInOrder
      <3> HIDE DEF SavesHere
      <3> QED
        BY <1>1, <1>3, <1>4, <2>1, <3>1
    <2> HIDE DEF SavesHere
    <2> QED
      BY <1>2, <1>3, <1>4, <2>2 DEF VersionsInOrder, Evicting
  <1>7. index' # <<>> /\ Newest(index)' = step
    BY <1>0, <1>1 DEF IndexInOrder, Newest
  <1>8. IndexInOrder' /\ Stamped'
    BY <1>0, <1>1, <1>2, <1>7 DEF IndexInOrder, Stamped, Evicting, Steps
  <1>9. NewestHolds' /\ \A f \in Weights : Now(f)'
    <2>1. \A f \in Weights : Now(f)'
      BY <1>1, <1>2 DEF Now
    <2> QED
      BY <1>0, <1>1, <1>2, <1>7, <2>1 DEF NewestHolds, OneMoment, Now
  <1> QED
    BY <1>2, <1>5, <1>6, <1>8, <1>9 DEF IndInv

-----------------------------------------------------------------------------
(* The steps of a job that dies and starts again.                          *)

\* Ranks that are down together, or no longer followed, whatever is in memory.
LEMMA DownPreserves ==
  ASSUME IndInv, NEW w \in {"down", "failed", "astray"}, pc' = [s \in Shards |-> w],
         UNCHANGED <<hook, marks, buffer, index, file>>,
         step' \in Steps, state' \in Contents, state'.mark \in 1 .. marks, lives' \in Nat,
         versions' \in {versions, <<>>}
  PROVE  IndInv'
  <1>0. TypeOK /\ IndexInOrder /\ Stamped /\ NewestHolds
    BY DEF IndInv
  <1>1. ~Alive' /\ pc'[0] = w /\ \A s \in Shards : pc'[s] = w
    BY Constants DEF Alive
  <1>2. TypeOK'
    <2>1. versions' \in Seq(Steps) /\ Len(versions') <= MaxKeep + 1
      <3>1. versions \in Seq(Steps) /\ Len(versions) <= MaxKeep + 1 /\ 0 <= MaxKeep + 1
        BY <1>0, Constants DEF TypeOK
      <3> QED
        BY <3>1, NoLines
    <2> QED
      BY <1>0, <2>1 DEF TypeOK
  <1>3. Phases' /\ Counted' /\ VersionsInOrder'
    BY <1>1 DEF Phases, Counted, VersionsInOrder
  <1>4. IndexInOrder' /\ Stamped' /\ NewestHolds'
    BY <1>0, <1>1 DEF IndexInOrder, Stamped, NewestHolds, OneMoment, Newest
  <1>5. Written'
    BY <1>1 DEF Written, AfterSparse, Listing, Listed, Evicting
  <1>6. Positions'
    BY <1>1, Constants DEF Positions, Everyone, AfterSparse, Listing, Listed, Evicting
  <1> QED
    BY <1>2, <1>3, <1>4, <1>5, <1>6 DEF IndInv

\* A job that starts, in memory, from what it found.
LEMMA StartPreserves ==
  ASSUME IndInv, pc' = [s \in Shards |-> "idle"], versions' = <<>>, lives' = lives + 1,
         UNCHANGED <<marks, buffer, index, file>>,
         step' \in Steps, state' \in Contents, state'.mark \in 1 .. marks,
         hook' \in {"train", "reset", "end"}, Counted',
         index # <<>> => Newest(index) <= step' /\ Complete(Newest(index)),
         index # <<>> /\ Newest(index) = step' => \A f \in Weights : file[step'][f].mark = state'.mark
  PROVE  IndInv'
  <1>0. TypeOK /\ IndexInOrder /\ Stamped /\ NewestHolds
    BY DEF IndInv
  <1>1. pc'[0] = "idle" /\ \A s \in Shards : pc'[s] = "idle"
    BY Constants
  <1>2. TypeOK'
    BY <1>0, Constants DEF TypeOK
  <1>3. Phases'
    BY <1>1 DEF Phases
  <1>4. VersionsInOrder'
    BY <1>1, Constants DEF VersionsInOrder, Evicting
  <1>5. IndexInOrder' /\ Stamped' /\ NewestHolds'
    BY <1>0, <1>1 DEF IndexInOrder, Stamped, NewestHolds, OneMoment, Newest, Evicting, Now
  <1>6. Written'
    BY <1>1 DEF Written, AfterSparse, Listing, Listed, Evicting
  <1>7. Positions'
    BY <1>1, Constants DEF Positions, Complete, Newest, AfterSparse, Listing, Listed, Evicting
  <1> QED
    BY <1>2, <1>3, <1>4, <1>5, <1>6, <1>7 DEF IndInv

LEMMA StartOverPreserves ==
  ASSUME KeepsEnough, IndInv, StartOver PROVE IndInv'
  <1>1. state'.epoch = Epochs(0) /\ state'.mark = 1 /\ state' \in Contents
    BY Constants DEF StartOver, Epochs, Contents
  <1>2. Counted'
    BY <1>1 DEF StartOver, Counted
  <1>3. state'.mark \in 1 .. marks
    BY <1>1 DEF IndInv, NewestHolds, TypeOK
  <1>4. 0 \in Steps
    BY Constants DEF Steps
  <1> QED
    BY <1>1, <1>2, <1>3, <1>4, StartPreserves DEF StartOver

\* What a restart reads.
LEMMA RestoredIs ==
  ASSUME IndInv, index # <<>>
  PROVE  LET c == Newest(index)
         IN  /\ c \in Steps /\ c \in Nat \ {0}
             /\ file[c][<<"extra", 0>>] \in Contents
             /\ file[c][<<"extra", 0>>].mark \in 1 .. marks
             /\ \/ file[c][<<"extra", 0>>].epoch = Epochs(c)
                \/ Twice(c) /\ file[c][<<"extra", 0>>].epoch = Epochs(c - 1)
             /\ \A f \in Weights : file[c][f].mark = file[c][<<"extra", 0>>].mark
  <1> DEFINE c == Newest(index)
             extra == file[c][<<"extra", 0>>]
  <1>1. c \in Steps /\ c \in Nat \ {0}
    BY Constants DEF IndInv, IndexInOrder, Steps
  <1>2. extra \in Contents
    BY <1>1, Constants DEF IndInv, TypeOK
  <1>3. PICK m \in 1 .. marks : \A f \in Weights : file[c][f].mark = m
    BY DEF IndInv, NewestHolds, OneMoment
  <1>4. extra.mark = m
    BY <1>3, Constants
  <1>5. extra # Absent
    BY <1>3, <1>4 DEF Absent
  <1>6. extra.epoch = Epochs(c) \/ (Twice(c) /\ extra.epoch = Epochs(c - 1))
    BY <1>1, <1>5, Constants DEF IndInv, Stamped
  <1> QED
    BY <1>1, <1>2, <1>3, <1>4, <1>6

LEMMA RestorePreserves ==
  ASSUME KeepsEnough, IndInv, Restore PROVE IndInv'
  <1> DEFINE c == Newest(index)
             extra == file[c][<<"extra", 0>>]
  <1>1. /\ index # <<>> /\ step' = c /\ state' = extra
        /\ hook' = NextHook(IF c = extra.epoch * EpochSteps THEN "after_epoch" ELSE "after_step", c)
        /\ lives' = lives + 1 /\ pc' = [s \in Shards |-> "idle"] /\ versions' = <<>>
        /\ UNCHANGED <<marks, buffer, index, file>>
    BY DEF Restore
  <1>2. /\ c \in Steps /\ c \in Nat \ {0} /\ extra \in Contents /\ extra.mark \in 1 .. marks
        /\ extra.epoch \in {Epochs(c), Epochs(c - 1)} /\ \A f \in Weights : file[c][f].mark = extra.mark
    BY <1>1, RestoredIs
  <1>7. Complete(c)
    BY DEF Restore
  <1> HIDE DEF c, extra
  <1>3. /\ c = extra.epoch * EpochSteps => c % EpochSteps = 0 /\ extra.epoch = Epochs(c)
        /\ c # extra.epoch * EpochSteps => extra.epoch = IF c % EpochSteps = 0 THEN Epochs(c - 1) ELSE Epochs(c)
    BY <1>2, EpochFacts, Constants
  <1>4. /\ hook' \in {"train", "reset", "end"}
        /\ hook' \in {"reset", "end"} => c % EpochSteps = 0
        /\ extra.epoch = IF hook' = "reset" THEN Epochs(c - 1) ELSE Epochs(c)
    BY <1>1, <1>3, NextHookIs
  <1>5. Counted'
    BY <1>1, <1>2, <1>4 DEF Counted
  <1>6. Newest(index) <= step' /\ Newest(index) = c /\ Complete(Newest(index))
    BY <1>1, <1>2, <1>7 DEF c
  <1> QED
    BY <1>1, <1>2, <1>4, <1>5, <1>6, StartPreserves

-----------------------------------------------------------------------------
(* The theorems.                                                           *)

LEMMA StepPreserves == ASSUME KeepsEnough PROVE IndInv /\ [Next]_vars => IndInv'
  <1> SUFFICES ASSUME IndInv, [Next]_vars PROVE IndInv'
    OBVIOUS
  <1>1. CASE Loop
    BY <1>1, TrainPreserves, EndEpochPreserves, StartSavePreserves, SkipSavePreserves DEF Loop
  <1>2. ASSUME NEW s \in Shards, WriteFile(s) PROVE IndInv'
    BY <1>2, WriteFilePreserves
  <1>3. CASE Syncs
    BY <1>3, SyncSparsePreserves, SyncSavePreserves DEF Syncs
  <1>4. CASE Rank0Index
    BY <1>4, OpenIndexPreserves, WriteIndexPreserves, RemovePreserves, OpenEvictedPreserves,
       WriteEvictedPreserves DEF Rank0Index
  <1>0. TypeOK /\ state.mark \in 1 .. marks
    BY DEF IndInv, NewestHolds
  <1>5. CASE Crash
    BY <1>0, <1>5, DownPreserves DEF Crash, TypeOK
  <1>6. CASE StartOver
    BY <1>6, StartOverPreserves
  <1>7. CASE Restore
    BY <1>7, RestorePreserves
  <1>8. CASE RestoreFails
    BY <1>0, <1>8, DownPreserves DEF RestoreFails, TypeOK
  <1>10. CASE RestoreAstray
    <2>1. step' \in Steps /\ state' \in Contents /\ state'.mark \in 1 .. marks
      BY <1>10, RestoredIs DEF RestoreAstray
    <2> QED
      BY <1>0, <1>10, <2>1, DownPreserves DEF RestoreAstray, TypeOK
  <1>9. CASE UNCHANGED vars
    BY <1>9 DEF vars, IndInv, TypeOK, Phases, Counted, VersionsInOrder, IndexInOrder, Stamped, Written,
                NewestHolds, Positions, Complete, Everyone, Due, Alive, SavesHere, OneMoment, Now
  <1> QED
    BY <1>1, <1>2, <1>3, <1>4, <1>5, <1>6, <1>7, <1>8, <1>9, <1>10 DEF Next, Restart

\* Whatever a job was saving or evicting when it died, the newest line of the
\* index names weights that are all there and of one moment, and positions in
\* the data, where they are there, of its epochs unless the step is saved
\* twice; at rest no file is missing.
THEOREM NewestAlwaysWhole == ASSUME KeepsEnough PROVE Spec => []NewestIsWhole
  <1>1. IndInv => NewestIsWhole
    <2> SUFFICES ASSUME IndInv, index # <<>>
                 PROVE  LET c == Newest(index) IN
                        /\ OneMoment(c)
                        /\ ~Twice(c) =>
                             \A s \in Shards : file[c][<<"io_state", s>>] # Absent =>
                               file[c][<<"io_state", s>>].epoch = file[c][<<"extra", 0>>].epoch
                        /\ Everyone("idle") => Complete(c)
      BY DEF NewestIsWhole
    <2>1. OneMoment(Newest(index))
      BY DEF IndInv, NewestHolds
    <2>2. /\ Newest(index) \in Steps
          /\ ~Twice(Newest(index)) => file[Newest(index)][<<"extra", 0>>].epoch = Epochs(Newest(index))
      BY RestoredIs
    <2>3. Everyone("idle") => Complete(Newest(index))
      BY DEF IndInv, Positions
    <2> QED
      BY <2>1, <2>2, <2>3, Constants DEF IndInv, Stamped
  <1>2. IndInv /\ [Next]_vars => IndInv'
    BY StepPreserves
  <1> QED
    BY <1>1, <1>2, InitEstablishes, PTL DEF Spec

-----------------------------------------------------------------------------
(* The refinement of CheckpointStore.                                      *)

InMemory == [step |-> step, mark |-> state.mark]
Durable == IF index = <<>> THEN Fresh
           ELSE [step |-> Newest(index), mark |-> file[Newest(index)][<<"model", 0>>].mark]
Replacing == pc[0] \in {"write_index", "write_evicted"}

\* Every step trains, begins, ends or breaks off a replacement, resumes or is
\* not seen.
StoreStep ==
    \/ ~Replacing /\ InMemory'.step = InMemory.step + 1 /\ Durable' = Durable /\ Replacing' = Replacing
    \/ ~Replacing /\ Replacing' /\ Durable' = (IF AtomicReplace THEN Durable ELSE Fresh) /\ InMemory' = InMemory
    \/ Replacing /\ ~Replacing' /\ Durable' = InMemory /\ InMemory' = InMemory
    \/ Replacing /\ ~Replacing' /\ Durable' = Durable /\ InMemory' = InMemory
    \/ ~Replacing /\ InMemory' = Durable /\ Durable' = Durable /\ Replacing' = Replacing
    \/ InMemory' = InMemory /\ Durable' = Durable /\ Replacing' = Replacing

LEMMA WriteFileUnseen ==
  ASSUME KeepsEnough, IndInv, IndInv', NEW s \in Shards, WriteFile(s) PROVE StoreStep
  <1>1. UNCHANGED <<step, state, index>> /\ file' = [file EXCEPT ![step][<<pc[s], s>>] = state] /\ pc[s] \in Kinds
    BY DEF WriteFile
  <1>2. InMemory' = InMemory
    BY <1>1 DEF InMemory
  <1>0. Alive /\ Alive' /\ Replacing' = Replacing
    <2>1. /\ Alive /\ Alive'
          /\ pc[0] = pc'[0] \/ {pc[0], pc'[0]} \cap ({"write_index"} \cup Listed) = {}
      BY WriterMoves
    <2>2. {"write_index", "write_evicted"} \subseteq {"write_index"} \cup Listed
      BY DEF Listed, Evicting
    <2> QED
      BY <2>1, <2>2 DEF Replacing
  <1>3. CASE index = <<>>
    BY <1>0, <1>1, <1>2, <1>3 DEF StoreStep, Durable
  <1>4. CASE index # <<>> /\ Newest(index) # step
    <2>1. Newest(index) \in Steps
      BY <1>4, RestoredIs
    <2>2. file'[Newest(index)] = file[Newest(index)] /\ Newest(index)' = Newest(index)
      BY <1>1, <1>4, <2>1 DEF IndInv, TypeOK, Newest
    <2> QED
      BY <1>0, <1>1, <1>2, <2>2 DEF StoreStep, Durable
  <1>5. CASE index # <<>> /\ Newest(index) = step
    <2>2. Now(<<"model", 0>>) /\ Now(<<"model", 0>>)'
      BY <1>0, <1>1, <1>5, Constants DEF IndInv, NewestHolds, Newest
    <2> QED
      BY <1>0, <1>1, <1>2, <1>5, <2>2 DEF StoreStep, Durable, Now, Newest
  <1> QED
    BY <1>3, <1>4, <1>5

LEMMA IndexSteps ==
  ASSUME KeepsEnough, IndInv, Rank0Index PROVE StoreStep
  <1>0. /\ pc \in [Shards -> Kinds \cup {"idle", "sparse_sync", "open_index", "write_index", "remove",
                                     "open_evicted", "write_evicted", "sync", "down", "failed", "astray"}]
        /\ 0 \in Shards
    BY Constants DEF IndInv, TypeOK
  <1>1. CASE OpenIndex
    <2>1. ~Replacing /\ Replacing' /\ InMemory' = InMemory
      BY <1>0, <1>1 DEF OpenIndex, Replacing, InMemory
    <2>2. Durable' = (IF AtomicReplace THEN Durable ELSE Fresh)
      BY <1>1 DEF OpenIndex, Truncated, Durable, Newest
    <2> QED
      BY <2>1, <2>2 DEF StoreStep
  <1>2. CASE WriteIndex
    <2>1. /\ pc[0] = "write_index" /\ index' = buffer /\ UNCHANGED <<step, state, file>>
          /\ step \in Steps /\ index \in Seq(Steps)
      BY <1>2 DEF WriteIndex, IndInv, TypeOK
    <2>2. index' # <<>> /\ Newest(index)' = step
      BY <2>1 DEF IndInv, IndexInOrder, Newest
    <2>3. Now(<<"model", 0>>)
      BY <2>1 DEF IndInv, Written, Listing
    <2>4. Replacing /\ ~Replacing'
      BY <1>0, <1>2 DEF WriteIndex, Replacing
    <2>5. Durable' = InMemory /\ InMemory' = InMemory
      BY <2>1, <2>2, <2>3 DEF InMemory, Durable, Now
    <2> QED
      BY <2>4, <2>5 DEF StoreStep
  <1>3. CASE Remove
    <2>1. Head(versions) \in Steps /\ Head(versions) # step
      BY <1>3, EvictsAnother DEF Remove, Evicting
    <2>2. index # <<>> /\ Newest(index) = step /\ step \in Steps
      BY <1>3 DEF Remove, IndInv, IndexInOrder, TypeOK
    <2>3. file'[step] = file[step] /\ UNCHANGED <<step, state, index>>
      BY <1>3, <2>1, <2>2 DEF Remove, IndInv, TypeOK
    <2>4. ~Replacing /\ ~Replacing'
      BY <1>0, <1>3 DEF Remove, Replacing
    <2>5. Durable' = Durable /\ InMemory' = InMemory
      BY <2>2, <2>3 DEF InMemory, Durable, Newest
    <2> QED
      BY <2>4, <2>5 DEF StoreStep, Replacing
  <1>4. CASE OpenEvicted
    <2>1. ~Replacing /\ Replacing' /\ InMemory' = InMemory
      BY <1>0, <1>4 DEF OpenEvicted, Replacing, InMemory
    <2>2. Durable' = (IF AtomicReplace THEN Durable ELSE Fresh)
      BY <1>4 DEF OpenEvicted, Truncated, Durable, Newest
    <2> QED
      BY <2>1, <2>2 DEF StoreStep
  <1>5. CASE WriteEvicted
    <2>1. /\ pc[0] = "write_evicted" /\ index' # <<>> /\ Newest(index)' = step
          /\ UNCHANGED <<step, state, file>>
      BY <1>5 DEF WriteEvicted, IndInv, IndexInOrder, Newest
    <2>2. Now(<<"model", 0>>)
      BY <2>1 DEF IndInv, Written, Listed, Evicting
    <2>3. Replacing /\ ~Replacing'
      BY <1>0, <1>5 DEF WriteEvicted, Replacing
    <2>4. Durable' = InMemory /\ InMemory' = InMemory
      BY <2>1, <2>2 DEF InMemory, Durable, Now
    <2> QED
      BY <2>3, <2>4 DEF StoreStep
  <1> QED
    BY <1>1, <1>2, <1>3, <1>4, <1>5 DEF Rank0Index

\* The steps of all ranks together, outside the writing of the index.
LEMMA TogetherSteps ==
  ASSUME IndInv, NEW w, NEW v, w \notin {"write_index", "write_evicted"}, v \notin {"write_index", "write_evicted"},
         Everyone(w), pc' = [s \in Shards |-> v]
  PROVE  ~Replacing /\ ~Replacing' /\ Replacing' = Replacing
  BY Constants DEF Everyone, Replacing

LEMMA EveryStoreStep ==
  ASSUME KeepsEnough, IndInv, IndInv', [Next]_vars PROVE StoreStep
  <1>1. ASSUME UNCHANGED <<step, state, index, file>> PROVE InMemory' = InMemory /\ Durable' = Durable
    BY <1>1 DEF InMemory, Durable, Newest
  <1>2. CASE Train
    <2>1. ~Replacing /\ Replacing' = Replacing
      BY <1>2, Constants DEF Train, Everyone, Replacing
    <2> QED
      BY <1>2, <2>1 DEF Train, StoreStep, InMemory, Durable, Newest
  <1>3. CASE EndEpoch
    <2>1. state'.mark = state.mark
      BY <1>3 DEF EndEpoch, IndInv, TypeOK, Contents
    <2> QED
      BY <1>3, <2>1 DEF EndEpoch, StoreStep, InMemory, Durable, Replacing, Newest
  <1>4. CASE StartSave \/ SkipSave \/ Syncs
    <2>1. Replacing' = Replacing
      BY <1>4, TogetherSteps DEF StartSave, SkipSave, Syncs, SyncSparse, SyncSave, Replacing
    <2>2. UNCHANGED <<step, state, index, file>>
      BY <1>4 DEF StartSave, SkipSave, Syncs, SyncSparse, SyncSave
    <2> QED
      BY <1>1, <2>1, <2>2 DEF StoreStep
  <1>5. ASSUME NEW s \in Shards, WriteFile(s) PROVE StoreStep
    BY <1>5, WriteFileUnseen
  <1>6. CASE Rank0Index
    BY <1>6, IndexSteps
  <1>7. CASE StartOver
    <2>1. ~Replacing /\ Replacing' = Replacing
      BY <1>7, TogetherSteps DEF StartOver
    <2> QED
      BY <1>7, <2>1 DEF StartOver, StoreStep, InMemory, Durable, Fresh
  <1>8. CASE Restore \/ RestoreAstray
    <2>1. /\ index # <<>> /\ step' = Newest(index) /\ state' = file[Newest(index)][<<"extra", 0>>]
          /\ UNCHANGED <<index, file>>
      BY <1>8 DEF Restore, RestoreAstray
    <2>2. state'.mark = file[Newest(index)][<<"model", 0>>].mark
      BY <2>1, RestoredIs, Constants
    <2>3. ~Replacing /\ Replacing' = Replacing
      BY <1>8, TogetherSteps DEF Restore, RestoreAstray
    <2> QED
      BY <2>1, <2>2, <2>3 DEF StoreStep, InMemory, Durable, Newest
  <1>9. CASE Crash \/ RestoreFails
    <2>1. ~Replacing'
      BY <1>9, Constants DEF Crash, RestoreFails, Replacing
    <2>2. UNCHANGED <<step, state, index, file>>
      BY <1>9 DEF Crash, RestoreFails
    <2>3. InMemory' = InMemory /\ Durable' = Durable
      BY <1>1, <2>2
    <2> QED
      BY <2>1, <2>3 DEF StoreStep, Replacing
  <1>10. CASE UNCHANGED vars
    BY <1>1, <1>10 DEF StoreStep, Replacing, vars
  <1> QED
    BY <1>2, <1>3, <1>4, <1>5, <1>6, <1>7, <1>8, <1>9, <1>10 DEF Next, Loop, Restart

\* The checkpoints implement the store, on a file system of either kind and
\* wherever save_steps falls: the durable state is that of the last save that
\* reached the index, in doubt only while the index is rewritten, and restarts
\* go on from it.
THEOREM CheckpointsImplementStore == ASSUME KeepsEnough PROVE Spec => ImplementsStore
  <1>1. Init => Store!Init
    BY Constants DEF Init, Store!Init, Fresh
  <1>2. IndInv /\ IndInv' /\ [Next]_vars => [Store!Next]_(<<InMemory, Durable, Replacing>>)
    BY EveryStoreStep DEF StoreStep, Store!Next, Store!Train, Store!Begin, Store!Publish, Store!Fail, Store!Resume,
                          InMemory, Durable, Replacing
  <1>3. IndInv /\ [Next]_vars => IndInv'
    BY StepPreserves
  <1> QED
    BY <1>1, <1>2, <1>3, InitEstablishes, PTL
    DEF Spec, ImplementsStore, Store!Spec, Store!vars, InMemory, Durable, Replacing
=============================================================================
