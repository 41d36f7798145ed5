---------------------------- MODULE ServiceProofs ----------------------------
(***************************************************************************)
(* Proofs about the processes that serve the trainers of a machine.        *)
(*                                                                         *)
(* The shared negative sampler (recis/data/sampler_service.py): a new      *)
(* table is never swapped in under a call, for any number of clients,      *)
(* server threads and tables and with calls that time out.                 *)
(*                                                                         *)
(* The metric collector (recis/monitor/collector.py): of all that are      *)
(* started one stays, for any number of them and any order of starts and   *)
(* new versions; and what one reports was written as it is reported, in    *)
(* order and once, whatever is rotated, seen in halves, posted or lost.    *)
(*                                                                         *)
(* The trace writers (recis/hooks/trace_to_odps_hook.py and _v2.py): a job *)
(* that ends quietly has the data of every step in the table, for any      *)
(* number of writers, steps, retries, failed calls and deadlines.          *)
(***************************************************************************)
EXTENDS SamplerService, Collector, TraceWriter, FiniteSetTheorems, FunctionTheorems, NaturalsInduction,
        WellFoundedInduction, TLAPS

-----------------------------------------------------------------------------
(* The sampler's lock.                                                     *)

ThreadStates == {"idle", "build", "upgrade", "towrite", "install", "release_write", "release_upgrade",
                 "acquire", "read"}

\* A thread is a record of its six fields, whatever a call's argument is.
ThreadShape(th) ==
  th = [st |-> th.st, op |-> th.op, who |-> th.who, arg |-> th.arg, tbl |-> th.tbl, asleep |-> th.asleep]

LockType ==
  /\ lock \in [readers : Nat, upgrader : BOOLEAN, writer : BOOLEAN]
  /\ threads = [t \in Threads |-> threads[t]]
  /\ \A t \in Threads : ThreadShape(threads[t]) /\ threads[t].st \in ThreadStates /\ threads[t].asleep \in BOOLEAN

\* The fields of the lock, as the places of the threads explain them.
At(places) == {t \in Threads : threads[t].st \in places}
Reading == At({"read"})
Writing == At({"install", "release_write"})
Upgrading == At({"towrite", "install", "release_write", "release_upgrade"})

LockTellsThreads ==
  /\ lock.readers = Cardinality(Reading)
  /\ lock.writer <=> Writing # {}
  /\ lock.upgrader <=> Upgrading # {}

\* One upgrader at a time, and no reader beside a writer.
Exclusive ==
  /\ \A t, u \in Upgrading : t = u
  /\ Writing # {} => Reading = {}

LockInv == LockType /\ LockTellsThreads /\ Exclusive /\ ReadersKeepTheirTable

-----------------------------------------------------------------------------
LEMMA ServiceInitEstablishes == ServiceInit => LockInv
  <1> SUFFICES ASSUME ServiceInit PROVE LockInv
    OBVIOUS
  <1>1. LockType
    BY DEF ServiceInit, LockType, IdleThread, ThreadShape, ThreadStates
  <1>2. Reading = {} /\ Writing = {} /\ Upgrading = {}
    BY DEF ServiceInit, Reading, Writing, Upgrading, At, IdleThread
  <1>3. Cardinality({}) = 0
    BY FS_EmptySet
  <1> QED
    BY <1>1, <1>2, <1>3 DEF ServiceInit, LockInv, LockTellsThreads, Exclusive, ReadersKeepTheirTable, Reading, At

\* A step that leaves the lock, the table and all places where they were, or
\* moves a thread that has nothing of the lock to another such place.
LEMMA PlacesKept ==
  ASSUME LockInv, LockType', UNCHANGED <<lock, sampler>>,
         Reading' = Reading, Upgrading' = Upgrading, Writing' = Writing,
         \A t \in Threads : threads'[t].tbl = threads[t].tbl \/ threads'[t].st # "read"
  PROVE  LockInv'
  <1>1. LockTellsThreads' /\ Exclusive'
    BY DEF LockInv, LockTellsThreads, Exclusive
  <1>2. ReadersKeepTheirTable'
    <2> SUFFICES ASSUME NEW t \in Threads, threads'[t].st = "read"
                 PROVE  threads'[t].tbl = sampler' /\ ~lock'.writer
      BY DEF ReadersKeepTheirTable
    <2>1. t \in Reading
      BY DEF Reading, At
    <2> QED
      BY <2>1 DEF LockInv, ReadersKeepTheirTable, Reading, At
  <1> QED
    BY <1>1, <1>2 DEF LockInv

\* What the move of one thread does to the sets of threads at places.
LEMMA Moved ==
  ASSUME NEW t \in Threads, \A u \in Threads \ {t} : threads'[u].st = threads[u].st, NEW places
  PROVE  At(places)' = IF threads'[t].st \in places THEN At(places) \cup {t} ELSE At(places) \ {t}
  BY DEF At

\* The shape of the threads after an assignment to one of them, and after a
\* notify_all().
LEMMA ShapeKept ==
  ASSUME LockType, NEW t \in Threads, NEW th,
         ThreadShape(th), th.st \in ThreadStates, th.asleep \in BOOLEAN,
         lock' \in [readers : Nat, upgrader : BOOLEAN, writer : BOOLEAN],
         \/ threads' = [threads EXCEPT ![t] = th]
         \/ threads' = NotifyAll([threads EXCEPT ![t] = th])
  PROVE  /\ LockType'
         /\ threads'[t].st = th.st /\ threads'[t].tbl = th.tbl
         /\ \A u \in Threads \ {t} : threads'[u].st = threads[u].st /\ threads'[u].tbl = threads[u].tbl
  <1> DEFINE ths == [threads EXCEPT ![t] = th]
  <1>1. /\ ths = [u \in Threads |-> ths[u]]
        /\ ths[t] = th /\ \A u \in Threads \ {t} : ths[u] = threads[u]
    BY DEF LockType
  <1>2. \A u \in Threads : ThreadShape(ths[u]) /\ ths[u].st \in ThreadStates /\ ths[u].asleep \in BOOLEAN
    BY <1>1 DEF LockType
  <1>3. CASE threads' = ths
    BY <1>1, <1>2, <1>3 DEF LockType
  <1>4. CASE threads' = NotifyAll(ths)
    <2>1. \A u \in Threads : threads'[u] = [ths[u] EXCEPT !.asleep = FALSE]
      BY <1>4 DEF NotifyAll
    <2>2. \A u \in Threads : /\ threads'[u].st = ths[u].st /\ threads'[u].tbl = ths[u].tbl
                             /\ threads'[u].asleep = FALSE /\ ThreadShape(threads'[u])
      BY <1>2, <2>1 DEF ThreadShape
    <2>3. threads' = [u \in Threads |-> threads'[u]]
      BY <1>4 DEF NotifyAll
    <2> QED
      BY <1>1, <1>2, <2>2, <2>3 DEF LockType
  <1> QED
    BY <1>3, <1>4

\* Threads are finite in number, so the readers can be counted.
LEMMA CountReaders ==
  ASSUME NEW t \in Threads
  PROVE  /\ IsFiniteSet(Reading) /\ Cardinality(Reading) \in Nat
         /\ t \notin Reading => Cardinality(Reading \cup {t}) = Cardinality(Reading) + 1
         /\ t \in Reading => /\ Cardinality(Reading \ {t}) = Cardinality(Reading) - 1
                             /\ Cardinality(Reading) >= 1
  <1>1. IsFiniteSet(Reading)
    BY ServiceAssumption, FS_Subset DEF Reading, At
  <1>2. Cardinality(Reading) \in Nat
    BY <1>1, FS_CardinalityType
  <1>3. t \notin Reading => Cardinality(Reading \cup {t}) = Cardinality(Reading) + 1
    BY <1>1, FS_AddElement
  <1>4. ASSUME t \in Reading
        PROVE  Cardinality(Reading \ {t}) = Cardinality(Reading) - 1 /\ Cardinality(Reading) >= 1
    <2>1. IsFiniteSet(Reading \ {t}) /\ Cardinality(Reading \ {t}) = Cardinality(Reading) - 1
      BY <1>1, <1>4, FS_RemoveElement
    <2>2. Cardinality(Reading \ {t}) \in Nat
      BY <2>1, FS_CardinalityType
    <2> QED
      BY <1>2, <2>1, <2>2
  <1> QED
    BY <1>1, <1>2, <1>3, <1>4

\* A thread that holds nothing of the lock goes to a place where it holds
\* nothing, or falls asleep where it is.
LEMMA Outside ==
  ASSUME LockInv, NEW t \in Threads, NEW th,
         ThreadShape(th), th.st \in ThreadStates, th.asleep \in BOOLEAN,
         threads' = [threads EXCEPT ![t] = th], UNCHANGED <<lock, sampler>>,
         \/ th.st = threads[t].st /\ th.tbl = threads[t].tbl
         \/ /\ threads[t].st \in {"idle", "build", "upgrade", "acquire"}
            /\ th.st \in {"idle", "build", "upgrade", "acquire"}
  PROVE  LockInv'
  <1>1. LockType /\ LockType'
    BY ShapeKept DEF LockInv, LockType
  <1>2. /\ threads'[t].st = th.st /\ threads'[t].tbl = th.tbl
        /\ \A u \in Threads \ {t} : threads'[u].st = threads[u].st /\ threads'[u].tbl = threads[u].tbl
    BY <1>1, ShapeKept DEF LockType
  <1>3. Reading' = Reading /\ Writing' = Writing /\ Upgrading' = Upgrading
    BY <1>2 DEF Reading, Writing, Upgrading, At
  <1>4. \A u \in Threads : threads'[u].tbl = threads[u].tbl \/ threads'[u].st # "read"
    BY <1>2
  <1> QED
    BY <1>1, <1>3, <1>4, PlacesKept

\* Assignments to fields of a thread leave the others.
LEMMA Assigned ==
  ASSUME NEW r, ThreadShape(r), NEW v1, NEW v2
  PROVE  /\ ThreadShape([r EXCEPT !.asleep = v1]) /\ [r EXCEPT !.asleep = v1].asleep = v1
         /\ [r EXCEPT !.asleep = v1].st = r.st /\ [r EXCEPT !.asleep = v1].tbl = r.tbl
         /\ ThreadShape([[r EXCEPT !.st = v1] EXCEPT !.tbl = v2])
  <1>1. /\ ThreadShape([r EXCEPT !.asleep = v1]) /\ [r EXCEPT !.asleep = v1].asleep = v1
        /\ [r EXCEPT !.asleep = v1].st = r.st /\ [r EXCEPT !.asleep = v1].tbl = r.tbl
    BY DEF ThreadShape
  <1>2. ThreadShape([[r EXCEPT !.st = v1] EXCEPT !.tbl = v2])
    <2> DEFINE q == [r EXCEPT !.st = v1]
    <2>1. ThreadShape(q)
      BY DEF ThreadShape
    <2> HIDE DEF q
    <2>2. ThreadShape([q EXCEPT !.tbl = v2])
      BY <2>1 DEF ThreadShape
    <2> QED
      BY <2>2 DEF q
  <1> QED
    BY <1>1, <1>2

\* A waiter falls asleep where it is.
LEMMA SleepPreserves ==
  ASSUME LockInv, NEW t \in Threads, Sleep(t), sampler' = sampler
  PROVE  LockInv'
  <1> DEFINE th == [threads[t] EXCEPT !.asleep = TRUE]
  <1>1. ThreadShape(threads[t]) /\ threads[t].st \in ThreadStates
    BY DEF LockInv, LockType
  <1>2. ThreadShape(th) /\ th.st = threads[t].st /\ th.tbl = threads[t].tbl /\ th.asleep = TRUE
    BY <1>1, Assigned
  <1>3. threads' = [threads EXCEPT ![t] = th] /\ UNCHANGED <<lock, sampler>>
    BY DEF Sleep
  <1> HIDE DEF th
  <1> QED
    BY <1>1, <1>2, <1>3, Outside

-----------------------------------------------------------------------------
(* The steps of a server thread.                                           *)

LEMMA AcquireUpgradePreserves ==
  ASSUME LockInv, NEW t \in Threads, AcquireUpgrade(t) PROVE LockInv'
  <1>1. CASE lock.upgrader \/ lock.writer
    BY <1>1, SleepPreserves DEF AcquireUpgrade
  <1>2. CASE ~(lock.upgrader \/ lock.writer)
    <2> DEFINE th == [threads[t] EXCEPT !.st = "towrite"]
    <2>1. /\ threads' = [threads EXCEPT ![t] = th] /\ sampler' = sampler
          /\ lock' = [lock EXCEPT !.upgrader = TRUE] /\ threads[t].st = "upgrade"
      BY <1>2 DEF AcquireUpgrade, Awake
    <2>2. /\ ThreadShape(th) /\ th.st = "towrite" /\ th.st \in ThreadStates /\ th.asleep \in BOOLEAN
          /\ th.tbl = threads[t].tbl
      BY DEF LockInv, LockType, ThreadShape, ThreadStates
    <2>3. /\ lock' \in [readers : Nat, upgrader : BOOLEAN, writer : BOOLEAN]
          /\ lock'.readers = lock.readers /\ lock'.upgrader = TRUE /\ lock'.writer = lock.writer
      BY <2>1 DEF LockInv, LockType
    <2> HIDE DEF th
    <2>4. /\ LockType' /\ threads'[t].st = "towrite" /\ threads'[t].tbl = threads[t].tbl
          /\ \A u \in Threads \ {t} : threads'[u].st = threads[u].st /\ threads'[u].tbl = threads[u].tbl
      BY ZenonT(60), <2>1, <2>2, <2>3, ShapeKept DEF LockInv
    <2>5. Reading' = Reading /\ Writing' = Writing /\ Upgrading' = Upgrading \cup {t}
      BY <2>1, <2>4 DEF Reading, Writing, Upgrading, At
    <2>6. Upgrading = {}
      BY <1>2 DEF LockInv, LockTellsThreads
    <2>7. LockTellsThreads' /\ Exclusive'
      BY <2>3, <2>5, <2>6 DEF LockInv, LockTellsThreads, Exclusive
    <2>8. ReadersKeepTheirTable'
      BY <2>1, <2>3, <2>4 DEF LockInv, ReadersKeepTheirTable
    <2> QED
      BY <2>4, <2>7, <2>8 DEF LockInv
  <1> QED
    BY <1>1, <1>2

LEMMA AcquireUpgradeToWritePreserves ==
  ASSUME LockInv, NEW t \in Threads, AcquireUpgradeToWrite(t) PROVE LockInv'
  <1>1. CASE lock.writer \/ lock.readers > 0
    BY <1>1, SleepPreserves DEF AcquireUpgradeToWrite
  <1>2. CASE ~(lock.writer \/ lock.readers > 0)
    <2> DEFINE th == [threads[t] EXCEPT !.st = "install"]
    <2>1. /\ threads' = [threads EXCEPT ![t] = th] /\ sampler' = sampler
          /\ lock' = [lock EXCEPT !.writer = TRUE] /\ threads[t].st = "towrite"
      BY <1>2 DEF AcquireUpgradeToWrite, Awake
    <2>2. /\ ThreadShape(th) /\ th.st = "install" /\ th.st \in ThreadStates /\ th.asleep \in BOOLEAN
          /\ th.tbl = threads[t].tbl
      BY DEF LockInv, LockType, ThreadShape, ThreadStates
    <2>3. /\ lock' \in [readers : Nat, upgrader : BOOLEAN, writer : BOOLEAN]
          /\ lock'.readers = lock.readers /\ lock'.upgrader = lock.upgrader /\ lock'.writer = TRUE
      BY <2>1 DEF LockInv, LockType
    <2> HIDE DEF th
    <2>4. /\ LockType' /\ threads'[t].st = "install" /\ threads'[t].tbl = threads[t].tbl
          /\ \A u \in Threads \ {t} : threads'[u].st = threads[u].st /\ threads'[u].tbl = threads[u].tbl
      BY ZenonT(60), <2>1, <2>2, <2>3, ShapeKept DEF LockInv
    <2>5. Reading' = Reading /\ Writing' = Writing \cup {t} /\ Upgrading' = Upgrading
      BY <2>1, <2>4 DEF Reading, Writing, Upgrading, At
    <2>6. Reading = {}
      <3>1. lock.readers = 0
        BY <1>2 DEF LockInv, LockType
      <3>2. Cardinality(Reading) = 0
        BY <3>1 DEF LockInv, LockTellsThreads
      <3> QED
        BY <3>2, CountReaders, FS_EmptySet
    <2>7. LockTellsThreads' /\ Exclusive'
      BY <2>3, <2>5, <2>6 DEF LockInv, LockTellsThreads, Exclusive
    <2>8. ReadersKeepTheirTable'
      BY <2>5, <2>6 DEF ReadersKeepTheirTable, Reading, At
    <2> QED
      BY <2>4, <2>7, <2>8 DEF LockInv
  <1> QED
    BY <1>1, <1>2

LEMMA InstallPreserves ==
  ASSUME LockInv, NEW t \in Threads, Install(t) PROVE LockInv'
  <1> DEFINE th == [threads[t] EXCEPT !.st = "release_write"]
  <1>1. threads' = [threads EXCEPT ![t] = th] /\ lock' = lock /\ threads[t].st = "install"
    BY DEF Install, Awake
  <1>2. ThreadShape(th) /\ th.st = "release_write" /\ th.st \in ThreadStates /\ th.asleep \in BOOLEAN
    BY DEF LockInv, LockType, ThreadShape, ThreadStates
  <1> HIDE DEF th
  <1>3. /\ LockType' /\ threads'[t].st = "release_write"
        /\ \A u \in Threads \ {t} : threads'[u].st = threads[u].st
    BY <1>1, <1>2, ShapeKept DEF LockInv, LockType
  <1>4. Reading' = Reading /\ Writing' = Writing /\ Upgrading' = Upgrading /\ t \in Writing
    BY <1>1, <1>3 DEF Reading, Writing, Upgrading, At
  <1>5. Reading' = {}
    BY <1>4 DEF LockInv, Exclusive
  <1>6. LockTellsThreads' /\ Exclusive'
    BY <1>1, <1>4 DEF LockInv, LockTellsThreads, Exclusive
  <1>7. ReadersKeepTheirTable'
    BY <1>5 DEF ReadersKeepTheirTable, Reading, At
  <1> QED
    BY <1>3, <1>6, <1>7 DEF LockInv

LEMMA ReleaseUpgradeToWritePreserves ==
  ASSUME LockInv, NEW t \in Threads, ReleaseUpgradeToWrite(t) PROVE LockInv'
  <1> DEFINE th == [threads[t] EXCEPT !.st = "release_upgrade"]
  <1>1. /\ threads' = NotifyAll([threads EXCEPT ![t] = th]) /\ sampler' = sampler
        /\ lock' = [lock EXCEPT !.writer = FALSE] /\ threads[t].st = "release_write"
    BY DEF ReleaseUpgradeToWrite, Awake
  <1>2. ThreadShape(th) /\ th.st = "release_upgrade" /\ th.st \in ThreadStates /\ th.asleep \in BOOLEAN
    BY DEF LockInv, LockType, ThreadShape, ThreadStates
  <1>3. /\ lock' \in [readers : Nat, upgrader : BOOLEAN, writer : BOOLEAN]
        /\ lock'.readers = lock.readers /\ lock'.upgrader = lock.upgrader /\ lock'.writer = FALSE
    BY <1>1 DEF LockInv, LockType
  <1> HIDE DEF th
  <1>4. /\ LockType' /\ threads'[t].st = "release_upgrade"
        /\ \A u \in Threads \ {t} : threads'[u].st = threads[u].st /\ threads'[u].tbl = threads[u].tbl
    BY <1>1, <1>2, <1>3, ShapeKept DEF LockInv
  <1>5. /\ Reading' = Reading /\ Writing' = Writing \ {t} /\ Upgrading' = Upgrading
        /\ t \in Writing /\ Writing \subseteq Upgrading
    BY <1>1, <1>4 DEF Reading, Writing, Upgrading, At
  <1>6. Writing' = {} /\ Reading = {}
    BY <1>5 DEF LockInv, Exclusive
  <1>7. LockTellsThreads' /\ Exclusive'
    BY <1>3, <1>5, <1>6 DEF LockInv, LockTellsThreads, Exclusive
  <1>8. ReadersKeepTheirTable'
    BY <1>5, <1>6 DEF ReadersKeepTheirTable, Reading, At
  <1> QED
    BY <1>4, <1>7, <1>8 DEF LockInv

LEMMA ReleaseUpgradePreserves ==
  ASSUME LockInv, NEW t \in Threads, ReleaseUpgrade(t) PROVE LockInv'
  <1>1. /\ threads' = NotifyAll([threads EXCEPT ![t] = IdleThread]) /\ sampler' = sampler
        /\ lock' = [lock EXCEPT !.upgrader = FALSE] /\ threads[t].st = "release_upgrade"
    BY DEF ReleaseUpgrade, Awake
  <1>2. /\ ThreadShape(IdleThread) /\ IdleThread.st = "idle" /\ IdleThread.st \in ThreadStates
        /\ IdleThread.asleep \in BOOLEAN
    BY DEF IdleThread, ThreadShape, ThreadStates
  <1>3. /\ lock' \in [readers : Nat, upgrader : BOOLEAN, writer : BOOLEAN]
        /\ lock'.readers = lock.readers /\ lock'.upgrader = FALSE /\ lock'.writer = lock.writer
    BY <1>1 DEF LockInv, LockType
  <1>4. /\ LockType' /\ threads'[t].st = "idle"
        /\ \A u \in Threads \ {t} : threads'[u].st = threads[u].st /\ threads'[u].tbl = threads[u].tbl
    BY <1>1, <1>2, <1>3, ShapeKept DEF LockInv
  <1>5. /\ Reading' = Reading /\ Writing' = Writing /\ Upgrading' = Upgrading \ {t}
        /\ t \in Upgrading
    BY <1>1, <1>4 DEF Reading, Writing, Upgrading, At
  <1>6. Upgrading' = {}
    BY <1>5 DEF LockInv, Exclusive
  <1>7. LockTellsThreads' /\ Exclusive'
    BY <1>3, <1>5, <1>6 DEF LockInv, LockTellsThreads, Exclusive
  <1>8. ReadersKeepTheirTable'
    BY <1>1, <1>3, <1>4 DEF LockInv, ReadersKeepTheirTable
  <1> QED
    BY <1>4, <1>7, <1>8 DEF LockInv

LEMMA AcquireReadPreserves ==
  ASSUME LockInv, NEW t \in Threads, AcquireRead(t) PROVE LockInv'
  <1>1. CASE lock.upgrader \/ lock.writer
    BY <1>1, SleepPreserves DEF AcquireRead
  <1>2. CASE ~(lock.upgrader \/ lock.writer)
    <2> DEFINE th == [[threads[t] EXCEPT !.st = "read"] EXCEPT !.tbl = sampler]
    <2>1. /\ threads' = [threads EXCEPT ![t] = th] /\ sampler' = sampler
          /\ lock' = [lock EXCEPT !.readers = @ + 1] /\ threads[t].st = "acquire"
      BY <1>2 DEF AcquireRead, Awake, LockInv, LockType
    <2>2. /\ ThreadShape(th) /\ th.st = "read" /\ th.st \in ThreadStates /\ th.asleep \in BOOLEAN
          /\ th.tbl = sampler
      <3>1. ThreadShape(threads[t]) /\ threads[t].asleep \in BOOLEAN
        BY DEF LockInv, LockType
      <3>2. ThreadShape(th)
        BY <3>1, Assigned
      <3>3. th.st = "read" /\ th.tbl = sampler /\ th.asleep = threads[t].asleep
        BY <3>1 DEF ThreadShape
      <3> QED
        BY <3>1, <3>2, <3>3 DEF ThreadStates
    <2>3. /\ lock' \in [readers : Nat, upgrader : BOOLEAN, writer : BOOLEAN]
          /\ lock'.readers = lock.readers + 1 /\ lock'.upgrader = lock.upgrader /\ lock'.writer = lock.writer
      BY <2>1 DEF LockInv, LockType
    <2> HIDE DEF th
    <2>4. /\ LockType' /\ threads'[t].st = "read" /\ threads'[t].tbl = sampler
          /\ \A u \in Threads \ {t} : threads'[u].st = threads[u].st /\ threads'[u].tbl = threads[u].tbl
      BY <2>1, <2>2, <2>3, ShapeKept DEF LockInv
    <2>5. /\ Reading' = Reading \cup {t} /\ Writing' = Writing /\ Upgrading' = Upgrading
          /\ t \notin Reading
      BY <2>1, <2>4 DEF Reading, Writing, Upgrading, At
    <2>6. Writing = {} /\ ~lock.writer
      BY <1>2 DEF LockInv, LockTellsThreads
    <2>7. LockTellsThreads' /\ Exclusive'
      BY <2>3, <2>5, <2>6, CountReaders DEF LockInv, LockTellsThreads, Exclusive
    <2>8. ReadersKeepTheirTable'
      BY <2>1, <2>3, <2>4, <2>6 DEF LockInv, ReadersKeepTheirTable
    <2> QED
      BY <2>4, <2>7, <2>8 DEF LockInv
  <1> QED
    BY <1>1, <1>2

LEMMA ReleaseReadPreserves ==
  ASSUME LockInv, NEW t \in Threads, ReleaseRead(t) PROVE LockInv'
  <1>1. /\ \/ threads' = NotifyAll([threads EXCEPT ![t] = IdleThread])
           \/ threads' = [threads EXCEPT ![t] = IdleThread]
        /\ sampler' = sampler
        /\ lock' = [lock EXCEPT !.readers = @ - 1] /\ threads[t].st = "read"
    BY DEF ReleaseRead, Awake
  <1>2. /\ ThreadShape(IdleThread) /\ IdleThread.st = "idle" /\ IdleThread.st \in ThreadStates
        /\ IdleThread.asleep \in BOOLEAN
    BY DEF IdleThread, ThreadShape, ThreadStates
  <1>3. t \in Reading /\ lock.readers >= 1 /\ lock.readers \in Nat
    BY <1>1, CountReaders DEF LockInv, LockTellsThreads, Reading, At
  <1>4. /\ lock' \in [readers : Nat, upgrader : BOOLEAN, writer : BOOLEAN]
        /\ lock'.readers = lock.readers - 1 /\ lock'.upgrader = lock.upgrader /\ lock'.writer = lock.writer
    BY <1>1, <1>3 DEF LockInv, LockType
  <1>5. /\ LockType' /\ threads'[t].st = "idle"
        /\ \A u \in Threads \ {t} : threads'[u].st = threads[u].st /\ threads'[u].tbl = threads[u].tbl
    BY <1>1, <1>2, <1>4, ShapeKept DEF LockInv
  <1>6. Reading' = Reading \ {t} /\ Writing' = Writing /\ Upgrading' = Upgrading
    BY <1>1, <1>5 DEF Reading, Writing, Upgrading, At
  <1>7. LockTellsThreads' /\ Exclusive'
    BY <1>3, <1>4, <1>6, CountReaders DEF LockInv, LockTellsThreads, Exclusive
  <1>8. ReadersKeepTheirTable'
    BY <1>1, <1>4, <1>5 DEF LockInv, ReadersKeepTheirTable
  <1> QED
    BY <1>5, <1>7, <1>8 DEF LockInv

LEMMA BuildPreserves ==
  ASSUME LockInv, NEW t \in Threads, Build(t) PROVE LockInv'
  <1>1. UNCHANGED <<lock, sampler>> /\ threads[t].st = "build"
    BY DEF Build, Awake
  <1>2. CASE threads' = [threads EXCEPT ![t] = IdleThread]
    BY <1>1, <1>2, Outside DEF IdleThread, ThreadShape, ThreadStates
  <1>3. CASE threads' = [threads EXCEPT ![t].st = "upgrade"]
    <2> DEFINE th == [threads[t] EXCEPT !.st = "upgrade"]
    <2>1. ThreadShape(th) /\ th.st = "upgrade" /\ th.st \in ThreadStates /\ th.asleep \in BOOLEAN
      BY DEF LockInv, LockType, ThreadShape, ThreadStates
    <2>2. threads' = [threads EXCEPT ![t] = th]
      BY <1>3
    <2> HIDE DEF th
    <2> QED
      BY <1>1, <2>1, <2>2, Outside
  <1> QED
    BY <1>2, <1>3 DEF Build

-----------------------------------------------------------------------------
(* The steps of the clients, and the theorem.                              *)

LEMMA RpcSyncPreserves ==
  ASSUME LockInv, NEW c \in Clients, NEW t \in Threads, RpcSync(c, t) PROVE LockInv'
  <1> DEFINE first == IF clients[c].op = "reload" THEN "build" ELSE "acquire"
             th == [st |-> first, op |-> clients[c].op, who |-> c, arg |-> Arg(c), tbl |-> 0, asleep |-> FALSE]
  <1>1. /\ threads' = [threads EXCEPT ![t] = th] /\ UNCHANGED <<lock, sampler>>
        /\ threads[t].st = "idle"
    BY DEF RpcSync
  <1>2. ThreadShape(th) /\ th.st \in {"build", "acquire"} /\ th.asleep \in BOOLEAN
    <2>1. first \in {"build", "acquire"}
      OBVIOUS
    <2> HIDE DEF first
    <2> QED
      BY <2>1 DEF ThreadShape
  <1> HIDE DEF th
  <1> QED
    BY <1>1, <1>2, Outside DEF ThreadStates

LEMMA TimeoutPreserves ==
  ASSUME LockInv, NEW c \in Clients, Timeout(c) PROVE LockInv'
  <1>1. /\ threads' = [t \in Threads |-> threads'[t]] /\ UNCHANGED <<lock, sampler>>
        /\ \A t \in Threads : threads'[t] = threads[t] \/ threads'[t] = [threads[t] EXCEPT !.who = Nobody]
    BY DEF Timeout
  <1>2. \A t \in Threads :
          /\ threads'[t].st = threads[t].st /\ threads'[t].tbl = threads[t].tbl
          /\ threads'[t].asleep = threads[t].asleep /\ ThreadShape(threads'[t])
    BY <1>1 DEF LockInv, LockType, ThreadShape
  <1>3. LockType'
    BY <1>1, <1>2 DEF LockInv, LockType
  <1>4. Reading' = Reading /\ Writing' = Writing /\ Upgrading' = Upgrading
    BY <1>2 DEF Reading, Writing, Upgrading, At
  <1> QED
    BY <1>1, <1>2, <1>3, <1>4, PlacesKept

LEMMA ServiceStepPreserves == LockInv /\ [ServiceNext]_serviceVars => LockInv'
  <1> SUFFICES ASSUME LockInv, [ServiceNext]_serviceVars PROVE LockInv'
    OBVIOUS
  <1>1. ASSUME UNCHANGED <<lock, sampler, threads>> PROVE LockInv'
    BY <1>1 DEF LockInv, LockType, LockTellsThreads, Exclusive, ReadersKeepTheirTable,
                Reading, Writing, Upgrading, At
  <1>2. ASSUME NEW c \in Clients, Join(c) PROVE LockInv'
    BY <1>1, <1>2 DEF Join
  <1>3. ASSUME NEW c \in Clients, Timeout(c) PROVE LockInv'
    BY <1>3, TimeoutPreserves
  <1>4. ASSUME NEW c \in Clients, NEW b \in Batches, StartBatch(c, b) PROVE LockInv'
    BY <1>1, <1>4 DEF StartBatch
  <1>5. CASE StartReload
    BY <1>1, <1>5 DEF StartReload
  <1>6. ASSUME NEW c \in Clients, NEW t \in Threads, RpcSync(c, t) PROVE LockInv'
    BY <1>6, RpcSyncPreserves
  <1>7. ASSUME NEW t \in Threads, ThreadStep(t) PROVE LockInv'
    BY <1>7, BuildPreserves, AcquireUpgradePreserves, AcquireUpgradeToWritePreserves, InstallPreserves,
       ReleaseUpgradeToWritePreserves, ReleaseUpgradePreserves, AcquireReadPreserves, ReleaseReadPreserves
       DEF ThreadStep
  <1>8. CASE UNCHANGED serviceVars
    BY <1>1, <1>8 DEF serviceVars
  <1> QED
    BY <1>2, <1>3, <1>4, <1>5, <1>6, <1>7, <1>8 DEF ServiceNext

\* A call reads from the installed table from its beginning to its end: a
\* reload waits for the readers, and readers wait for a reload.
THEOREM ReadersAreSafe == ServiceSpec => []ReadersKeepTheirTable
  <1>1. LockInv => ReadersKeepTheirTable
    BY DEF LockInv
  <1> QED
    BY <1>1, ServiceInitEstablishes, ServiceStepPreserves, PTL DEF ServiceSpec

-----------------------------------------------------------------------------
(* Which collector stays.                                                  *)

\* What is kept of a collector besides its place, its times and the list it goes through.
Fields == {"pc", "start", "version", "todo", "tails", "bodies", "events", "sampler", "disp"}
Shape(x) == x = [f \in Fields |-> x[f]]

CollectorType ==
  /\ job.pids \subseteq Pids /\ clock \in Nat /\ release \in Nat
  /\ proc = [p \in Pids |-> proc[p]]
  /\ \A p \in Pids :
       /\ Shape(proc[p])
       /\ proc[p].pc \in {"none", "launch", "scan", "run", "gone"}
       /\ proc[p].start \in Nat
       /\ proc[p].todo \subseteq Pids

\* A collector looks around some time after its start.
StartsPast ==
  \A p \in Pids : proc[p].start <= clock /\ (proc[p].pc \in {"scan", "run"} => proc[p].start < clock)

\* One that looks around has in its list everyone with a smaller pid that started no later, or
\* that one is gone.
EarlierInList ==
  \A p, q \in Pids :
    p < q /\ proc[q].pc \in {"scan", "run"} /\ proc[p].pc \notin {"none", "gone"} /\ proc[p].start <= proc[q].start =>
      p \in proc[q].todo
ListOfStarted ==
  \A p \in Pids : (proc[p].pc = "run" => proc[p].todo = {}) /\ \A q \in proc[p].todo : proc[q].pc # "none"

\* As soon as one was started, there is one that is not gone.
Remains == {p \in Pids : proc[p].pc \in {"launch", "scan", "run"}}
OneRemains == (\E p \in Pids : proc[p].pc # "none") => Remains # {}

CollectorInv == CollectorType /\ StartsPast /\ EarlierInList /\ ListOfStarted /\ OneRemains

-----------------------------------------------------------------------------
\* The least pid of a set, which Min chooses.
LEMMA LeastNatural ==
  ASSUME NEW T, T \subseteq Nat, T # {}
  PROVE  Min(T) \in T /\ \A n \in T : Min(T) <= n
  <1> DEFINE R == OpToRel(<, Nat)
  <1>1. IsWellFoundedOn(R, Nat)
    BY NatLessThanWellFounded
  <1>2. \A x, y \in Nat : x < y => <<x, y>> \in R
    BY DEF OpToRel
  <1> HIDE DEF R
  <1>3. PICK m \in T : \A n \in T : ~(<<n, m>> \in R)
    BY <1>1, WFMin
  <1>4. \A n \in T : m <= n
    <2> TAKE n \in T
    <2>1. m \in Nat /\ n \in Nat /\ ~(n < m)
      BY <1>2, <1>3
    <2> QED
      BY <2>1
  <1> QED
    BY <1>3, <1>4 DEF Min

LEMMA CollectorInitEstablishes == CollectorInit => CollectorInv
  <1> SUFFICES ASSUME CollectorInit PROVE CollectorInv
    OBVIOUS
  <1>1. Shape(NewProc) /\ NewProc.pc = "none" /\ NewProc.start = 0 /\ NewProc.todo = {}
    BY DEF Shape, Fields, NewProc
  <1>2. \A p \in Pids : proc[p] = NewProc
    BY DEF CollectorInit
  <1>3. CollectorType
    BY <1>1, <1>2, CollectorAssumption DEF CollectorInit, CollectorType
  <1>4. StartsPast /\ EarlierInList /\ ListOfStarted /\ OneRemains
    BY <1>1, <1>2 DEF CollectorInit, StartsPast, EarlierInList, ListOfStarted, OneRemains
  <1> QED
    BY <1>3, <1>4 DEF CollectorInv

\* A step inside one collector that is not about who stays.
LEMMA OtherWork ==
  ASSUME CollectorInv, NEW p \in Pids, NEW rec, Shape(rec),
         rec.pc = proc[p].pc, rec.start = proc[p].start, rec.version = proc[p].version, rec.todo = proc[p].todo,
         proc' = [proc EXCEPT ![p] = rec],
         UNCHANGED <<job, clock, release>>
  PROVE  CollectorInv'
  <1>1. \A q \in Pids : /\ proc'[q].pc = proc[q].pc /\ proc'[q].start = proc[q].start
                        /\ proc'[q].todo = proc[q].todo /\ Shape(proc'[q])
    BY DEF CollectorInv, CollectorType
  <1>2. proc' = [q \in Pids |-> proc'[q]]
    BY DEF CollectorInv, CollectorType
  <1>3. CollectorType'
    BY <1>1, <1>2 DEF CollectorInv, CollectorType
  <1>4. StartsPast'
    BY <1>1 DEF CollectorInv, StartsPast
  <1>5. EarlierInList' /\ ListOfStarted'
    <2>1. EarlierInList'
      BY <1>1 DEF CollectorInv, EarlierInList
    <2>2. \A q \in Pids : \A x \in proc'[q].todo : x \in Pids /\ proc'[x].pc # "none"
      <3> TAKE q \in Pids
      <3> TAKE x \in proc'[q].todo
      <3>1. x \in proc[q].todo /\ proc[q].todo \subseteq Pids
        BY <1>1 DEF CollectorInv, CollectorType
      <3>2. proc[x].pc # "none"
        BY <3>1 DEF CollectorInv, ListOfStarted
      <3> QED
        BY <1>1, <3>1, <3>2
    <2>3. \A q \in Pids : proc'[q].pc = "run" => proc'[q].todo = {}
      BY <1>1 DEF CollectorInv, ListOfStarted
    <2> QED
      BY <2>1, <2>2, <2>3 DEF ListOfStarted
  <1>6. OneRemains'
    BY <1>1 DEF CollectorInv, OneRemains, Remains
  <1> QED
    BY <1>3, <1>4, <1>5, <1>6 DEF CollectorInv

\* Time and new versions: times of starts stay in the past.
LEMMA TimePasses ==
  ASSUME CollectorInv, Tick \/ Upgrade
  PROVE  CollectorInv'
  <1>1. clock' \in Nat /\ release' \in Nat /\ clock <= clock' /\ UNCHANGED <<job, proc>>
    BY DEF CollectorInv, CollectorType, Tick, Upgrade
  <1>2. CollectorType' /\ StartsPast'
    BY <1>1 DEF CollectorInv, CollectorType, StartsPast
  <1> QED
    BY <1>1, <1>2 DEF CollectorInv, EarlierInList, ListOfStarted, OneRemains, Remains

\* Who starts now is later than all that look around already.
LEMMA LaunchPreserves ==
  ASSUME CollectorInv, LaunchCollectorDaemon
  PROVE  CollectorInv'
  <1>1. PICK m \in Unused :
          proc' = [proc EXCEPT ![m] = [proc[m] EXCEPT !.pc = "launch", !.start = clock, !.version = release]]
    BY DEF LaunchCollectorDaemon, Unused, CollectorInv, CollectorType
  <1>2. m \in Pids /\ proc[m].pc = "none" /\ Shape(proc[m])
    BY <1>1 DEF Unused, CollectorInv, CollectorType
  <1>3. proc' = [proc EXCEPT ![m] = [proc[m] EXCEPT !.pc = "launch", !.start = clock, !.version = release]]
    BY <1>1
  <1>4. UNCHANGED <<job, clock, release>>
    BY DEF LaunchCollectorDaemon
  <1> DEFINE rec == [proc[m] EXCEPT !.pc = "launch", !.start = clock, !.version = release]
  <1>5. Shape(rec) /\ rec.pc = "launch" /\ rec.start = clock /\ rec.todo = proc[m].todo
    BY <1>2 DEF Shape, Fields
  <1> HIDE DEF rec
  <1>8. proc'[m] = rec /\ \A q \in Pids : q # m => proc'[q] = proc[q]
    BY <1>2, <1>3 DEF CollectorInv, CollectorType, rec
  <1>9. CollectorType'
    <2>1. proc' = [q \in Pids |-> proc'[q]]
      BY <1>3 DEF CollectorInv, CollectorType
    <2> QED
      BY <2>1, <1>2, <1>4, <1>5, <1>8 DEF CollectorInv, CollectorType
  <1>10. StartsPast'
    BY <1>2, <1>4, <1>5, <1>8 DEF CollectorInv, CollectorType, StartsPast
  <1>11. EarlierInList' /\ ListOfStarted'
    <2>1. ASSUME NEW p \in Pids, NEW q \in Pids, p < q, proc'[q].pc \in {"scan", "run"},
                 proc'[p].pc \notin {"none", "gone"}, proc'[p].start <= proc'[q].start
          PROVE  p \in proc'[q].todo
      <3>1. q # m /\ proc'[q] = proc[q] /\ proc[q].start < clock /\ proc[q].start \in Nat /\ clock \in Nat
        BY <2>1, <1>5, <1>8 DEF CollectorInv, CollectorType, StartsPast
      <3>2. p # m /\ proc'[p] = proc[p]
        BY <2>1, <3>1, <1>5, <1>8
      <3> QED
        BY <2>1, <3>1, <3>2 DEF CollectorInv, EarlierInList
    <2>2. ListOfStarted'
      BY <1>2, <1>5, <1>8 DEF CollectorInv, ListOfStarted, CollectorType
    <2> QED
      BY <2>1, <2>2 DEF EarlierInList
  <1>12. OneRemains'
    BY <1>2, <1>5, <1>8 DEF OneRemains, Remains
  <1> QED
    BY <1>9, <1>10, <1>11, <1>12 DEF CollectorInv

\* By now everyone who started no later is among the processes of the machine, or gone.
LEMMA BeginScanPreserves ==
  ASSUME CollectorInv, NEW p \in Pids, BeginScan(p)
  PROVE  CollectorInv'
  <1> DEFINE others == {q \in Pids : proc[q].pc \notin {"none", "gone"}}
             rec == [proc[p] EXCEPT !.pc = "scan", !.todo = others]
  <1>0. Shape(proc[p])
    BY DEF CollectorInv, CollectorType
  <1>1. Shape(rec) /\ rec.pc = "scan" /\ rec.start = proc[p].start /\ rec.todo = others
    <2> HIDE DEF others
    <2> QED
      BY <1>0 DEF Shape, Fields
  <1>2. proc' = [proc EXCEPT ![p] = rec]
    BY DEF BeginScan, CollectorInv, CollectorType
  <1>3. UNCHANGED <<job, clock, release>> /\ proc[p].pc = "launch" /\ proc[p].start < clock
    BY DEF BeginScan, CollectorInv, CollectorType
  <1>4. others \subseteq Pids /\ (\A q \in others : proc[q].pc # "none")
    OBVIOUS
  <1>5. \A q \in Pids : proc[q].pc \notin {"none", "gone"} => q \in others
    OBVIOUS
  <1> HIDE DEF rec, others
  <1>6. proc'[p] = rec /\ \A q \in Pids : q # p => proc'[q] = proc[q]
    BY <1>2 DEF CollectorInv, CollectorType
  <1>7. \A q \in Pids : /\ proc'[q].start = proc[q].start
                        /\ proc'[q].pc = "none" <=> proc[q].pc = "none"
                        /\ proc'[q].pc = "gone" <=> proc[q].pc = "gone"
    BY <1>1, <1>3, <1>6
  <1>8. CollectorType'
    <2>1. proc' = [q \in Pids |-> proc'[q]]
      BY <1>2 DEF CollectorInv, CollectorType
    <2> QED
      BY <2>1, <1>1, <1>3, <1>4, <1>6 DEF CollectorInv, CollectorType
  <1>9. StartsPast'
    BY <1>1, <1>3, <1>6, <1>7 DEF CollectorInv, StartsPast
  <1>10. EarlierInList'
    BY <1>1, <1>5, <1>6, <1>7 DEF CollectorInv, EarlierInList
  <1>11. ListOfStarted'
    <2>1. \A q \in Pids : \A x \in proc'[q].todo : proc'[x].pc # "none"
      BY <1>1, <1>4, <1>6, <1>7 DEF CollectorInv, ListOfStarted, CollectorType
    <2>2. \A q \in Pids : proc'[q].pc = "run" => proc'[q].todo = {}
      BY <1>1, <1>6 DEF CollectorInv, ListOfStarted
    <2> QED
      BY <2>1, <2>2 DEF ListOfStarted
  <1>12. OneRemains'
    BY <1>1, <1>6 DEF OneRemains, Remains
  <1> QED
    BY <1>8, <1>9, <1>10, <1>11, <1>12 DEF CollectorInv

\* A list that is empty has left no earlier collector.
LEMMA StartParserPreserves ==
  ASSUME CollectorInv, NEW p \in Pids, StartParser(p)
  PROVE  CollectorInv'
  <1> DEFINE rec == [proc[p] EXCEPT !.pc = "run"]
  <1>1. Shape(rec) /\ rec.pc = "run" /\ rec.start = proc[p].start /\ rec.todo = {}
    BY DEF CollectorInv, CollectorType, Shape, Fields, StartParser
  <1>2. proc' = [proc EXCEPT ![p] = rec]
    BY DEF StartParser, CollectorInv, CollectorType
  <1>3. UNCHANGED <<job, clock, release>> /\ proc[p].pc = "scan" /\ proc[p].todo = {}
    BY DEF StartParser
  <1> HIDE DEF rec
  <1>6. proc'[p] = rec /\ \A q \in Pids : q # p => proc'[q] = proc[q]
    BY <1>2 DEF CollectorInv, CollectorType
  <1>7. \A q \in Pids : /\ proc'[q].start = proc[q].start /\ proc'[q].todo = proc[q].todo
                        /\ proc'[q].pc = "none" <=> proc[q].pc = "none"
                        /\ proc'[q].pc = "gone" <=> proc[q].pc = "gone"
                        /\ proc'[q].pc \in {"scan", "run"} <=> proc[q].pc \in {"scan", "run"}
    BY <1>1, <1>3, <1>6
  <1>8. CollectorType'
    <2>1. proc' = [q \in Pids |-> proc'[q]]
      BY <1>2 DEF CollectorInv, CollectorType
    <2> QED
      BY <2>1, <1>1, <1>3, <1>6 DEF CollectorInv, CollectorType
  <1>9. StartsPast'
    BY <1>3, <1>7 DEF CollectorInv, StartsPast
  <1>10. EarlierInList'
    BY <1>7 DEF CollectorInv, EarlierInList
  <1>11. ListOfStarted'
    <2>1. \A q \in Pids : \A x \in proc'[q].todo : proc'[x].pc # "none"
      BY <1>7 DEF CollectorInv, ListOfStarted, CollectorType
    <2>2. \A q \in Pids : proc'[q].pc = "run" => proc'[q].todo = {}
      BY <1>1, <1>6 DEF CollectorInv, ListOfStarted
    <2> QED
      BY <2>1, <2>2 DEF ListOfStarted
  <1>12. OneRemains'
    BY <1>1, <1>6 DEF OneRemains, Remains
  <1> QED
    BY <1>8, <1>9, <1>10, <1>11, <1>12 DEF CollectorInv

\* A collector that goes through its list: whoever leaves, another one remains,
\* and of two the later one has settled the matter.
LEMMA FirstOrDiePreserves ==
  ASSUME CollectorInv, NEW p \in Pids, FirstOrDie(p)
  PROVE  CollectorInv'
  <1> DEFINE q == Min(proc[p].todo)
             rest == [proc[p] EXCEPT !.todo = proc[p].todo \ {q}]
             gone == [NewProc EXCEPT !.pc = "gone"]
             next == [proc EXCEPT ![p] = rest]
  <1>1. q \in proc[p].todo
    BY LeastNatural, CollectorAssumption DEF FirstOrDie, CollectorInv, CollectorType
  <1>2. q \in Pids /\ proc[q].pc # "none" /\ p \in Nat /\ q \in Nat /\ proc[p].start \in Nat /\ proc[q].start \in Nat
    BY <1>1, CollectorAssumption DEF CollectorInv, CollectorType, ListOfStarted
  <1>3. UNCHANGED <<job, clock, release>> /\ proc[p].pc = "scan"
    BY DEF FirstOrDie
  <1>4. proc' = IF Replaces(p, q) THEN [next EXCEPT ![q] = gone]
                ELSE IF GivesWay(p, q) THEN [next EXCEPT ![p] = gone] ELSE next
    BY DEF FirstOrDie
  <1>5. Shape(rest) /\ rest.pc = "scan" /\ rest.start = proc[p].start /\ rest.todo = proc[p].todo \ {q}
    <2>1. Shape(proc[p])
      BY DEF CollectorInv, CollectorType
    <2> HIDE DEF q
    <2> QED
      BY <2>1, <1>3 DEF Shape, Fields
  <1>6. Shape(gone) /\ gone.pc = "gone" /\ gone.start = 0 /\ gone.todo = {}
    BY DEF Shape, Fields, NewProc
  <1>7. Replaces(p, q) => q # p
    BY DEF Replaces, Passes
  <1>8. GivesWay(p, q) => q # p /\ proc[q].pc # "gone"
    BY DEF GivesWay, Passes
  <1>9. ~Replaces(p, q) /\ ~GivesWay(p, q) /\ q < p /\ proc[q].start <= proc[p].start => proc[q].pc = "gone"
    <2> SUFFICES ASSUME ~Replaces(p, q), ~GivesWay(p, q), q < p, proc[q].start <= proc[p].start, proc[q].pc # "gone"
                 PROVE  FALSE
      OBVIOUS
    <2>1. Passes(p, q)
      BY <1>2 DEF GivesWay
    <2> QED
      BY <1>2, <2>1 DEF Passes
  <1> HIDE DEF q, rest, gone
  <1>10. DOMAIN proc = Pids
    BY DEF CollectorInv, CollectorType
  \* One of the two leaves, or none.
  <1>11. PICK out \in {p, q, -1} :
           /\ proc' = [x \in Pids |-> IF x = out THEN gone ELSE IF x = p THEN rest ELSE proc[x]]
           /\ out = p => q # p /\ proc[q].pc # "gone"
           /\ out = q => q # p
           /\ out = -1 => (q < p /\ proc[q].start <= proc[p].start => proc[q].pc = "gone")
    <2>1. CASE Replaces(p, q)
      <3>1. proc' = [x \in Pids |-> IF x = q THEN gone ELSE IF x = p THEN rest ELSE proc[x]]
        BY <2>1, <1>2, <1>4, <1>7, <1>10
      <3> QED
        BY <3>1, <2>1, <1>2, <1>7
    <2>2. CASE ~Replaces(p, q) /\ GivesWay(p, q)
      <3>1. proc' = [x \in Pids |-> IF x = p THEN gone ELSE IF x = p THEN rest ELSE proc[x]]
        BY <2>2, <1>2, <1>4, <1>8, <1>10
      <3> QED
        BY <3>1, <2>2, <1>2, <1>8
    <2>3. CASE ~Replaces(p, q) /\ ~GivesWay(p, q)
      <3>1. proc' = [x \in Pids |-> IF x = -1 THEN gone ELSE IF x = p THEN rest ELSE proc[x]]
        <4>1. -1 \notin Pids
          BY CollectorAssumption
        <4>2. proc' = [proc EXCEPT ![p] = rest]
          BY <2>3, <1>4
        <4> QED
          BY <4>1, <4>2, <1>10
      <3> QED
        BY <3>1, <2>3, <1>2, <1>9
    <2> QED
      BY <2>1, <2>2, <2>3
  <1>12. \A x \in Pids : proc'[x] = IF x = out THEN gone ELSE IF x = p THEN rest ELSE proc[x]
    BY <1>11
  <1>13. \A x \in Pids : /\ proc'[x].pc = "none" <=> proc[x].pc = "none"
                         /\ proc[x].pc = "gone" => proc'[x].pc = "gone"
                         /\ proc'[x].pc # "gone" => proc'[x].start = proc[x].start /\ proc'[x].pc = proc[x].pc
                         /\ proc'[x].todo \subseteq proc[x].todo
    <2> TAKE x \in Pids
    <2>1. CASE x = out
      <3>1. proc[x].pc # "none" /\ proc'[x] = gone
        BY <2>1, <1>2, <1>3, <1>11, <1>12, CollectorAssumption
      <3> QED
        BY <3>1, <1>6
    <2>2. CASE x # out /\ x = p
      BY <2>2, <1>3, <1>5, <1>12
    <2>3. CASE x # out /\ x # p
      BY <2>3, <1>12
    <2> QED
      BY <2>1, <2>2, <2>3
  <1>14. CollectorType'
    <2>1. proc' = [x \in Pids |-> proc'[x]]
      BY <1>11
    <2>2. \A x \in Pids : Shape(proc'[x]) /\ proc'[x].start \in Nat /\ proc'[x].todo \subseteq Pids
      BY <1>5, <1>6, <1>12, <1>13 DEF CollectorInv, CollectorType
    <2>3. \A x \in Pids : proc'[x].pc \in {"none", "launch", "scan", "run", "gone"}
      BY <1>13 DEF CollectorInv, CollectorType
    <2> QED
      BY <2>1, <2>2, <2>3, <1>3 DEF CollectorInv, CollectorType
  <1>15. StartsPast'
    <2>1. ASSUME NEW x \in Pids
          PROVE  proc'[x].start <= clock' /\ (proc'[x].pc \in {"scan", "run"} => proc'[x].start < clock')
      <3>1. CASE proc'[x].pc = "gone"
        <4>1. proc'[x].start \in {0, proc[x].start}
          BY <1>5, <1>6, <1>12
        <4> QED
          BY <4>1, <3>1, <1>3 DEF CollectorInv, CollectorType, StartsPast
      <3>2. CASE proc'[x].pc # "gone"
        BY <3>2, <1>3, <1>13 DEF CollectorInv, StartsPast
      <3> QED
        BY <3>1, <3>2
    <2> QED
      BY <2>1 DEF StartsPast
  <1>17. EarlierInList'
    <2> SUFFICES ASSUME NEW x \in Pids, NEW y \in Pids, x < y, proc'[y].pc \in {"scan", "run"},
                        proc'[x].pc \notin {"none", "gone"}, proc'[x].start <= proc'[y].start
                 PROVE  x \in proc'[y].todo
      BY DEF EarlierInList
    <2>1. /\ proc[y].pc \in {"scan", "run"} /\ y # out /\ x # out
          /\ proc[x].pc \notin {"none", "gone"} /\ proc[x].start <= proc[y].start
      BY <1>6, <1>12, <1>13
    <2>2. x \in proc[y].todo
      BY <2>1 DEF CollectorInv, EarlierInList
    <2>3. CASE ~(y = p /\ x = q)
      BY <2>1, <2>2, <2>3, <1>5, <1>12
    <2>4. CASE y = p /\ x = q
      BY <2>1, <2>4, <1>11
    <2> QED
      BY <2>3, <2>4
  <1>18. ListOfStarted'
    <2>1. \A x \in Pids : \A y \in proc'[x].todo : proc'[y].pc # "none"
      BY <1>13 DEF CollectorInv, ListOfStarted, CollectorType
    <2>2. \A x \in Pids : proc'[x].pc = "run" => proc'[x].todo = {}
      BY <1>13 DEF CollectorInv, ListOfStarted
    <2> QED
      BY <2>1, <2>2 DEF ListOfStarted
  <1>19. OneRemains'
    <2>1. CASE out = p
      <3>1. q \in Remains /\ q # p
        BY <2>1, <1>2, <1>11 DEF Remains, CollectorInv, CollectorType
      <3>2. proc'[q] = proc[q]
        BY <3>1, <2>1, <1>2, <1>12
      <3> QED
        BY <3>1, <3>2 DEF Remains, OneRemains
    <2>2. CASE out # p
      BY <2>2, <1>5, <1>12 DEF Remains, OneRemains
    <2> QED
      BY <2>1, <2>2
  <1> QED
    BY <1>14, <1>15, <1>17, <1>18, <1>19 DEF CollectorInv

\* A line that the log parser has read: the tags, the end of the parser, an
\* event, or nothing.
LEMMA HandlePreserves ==
  ASSUME CollectorInv, NEW p \in Pids, NEW r \in LogRanks, NEW tail, NEW pieces, Handle(p, r, tail, pieces),
         UNCHANGED <<job, clock, release>>
  PROVE  CollectorInv'
  <1> DEFINE Told(t) == [proc[p] EXCEPT !.tails = [proc[p].tails EXCEPT ![r] = t]]
  <1>1. Shape(proc[p]) /\ DOMAIN proc = Pids
    BY DEF CollectorInv, CollectorType
  <1>2. ASSUME NEW t, proc' = [proc EXCEPT ![p].tails[r] = t] PROVE CollectorInv'
    <2>1. proc' = [proc EXCEPT ![p] = Told(t)]
      BY <1>1, <1>2
    <2>2. Shape(Told(t)) /\ Told(t).pc = proc[p].pc /\ Told(t).start = proc[p].start
          /\ Told(t).version = proc[p].version /\ Told(t).todo = proc[p].todo
      BY <1>1 DEF Shape, Fields
    <2> QED
      BY <2>1, <2>2, OtherWork
  <1>3. ASSUME NEW t, NEW e, proc' = [[proc EXCEPT ![p].tails[r] = t] EXCEPT ![p].events = Append(@, e)]
        PROVE  CollectorInv'
    <2> DEFINE rec == [Told(t) EXCEPT !.events = Append(Told(t).events, e)]
    <2>1. proc' = [proc EXCEPT ![p] = rec]
      BY <1>1, <1>3
    <2>2. Shape(rec) /\ rec.pc = proc[p].pc /\ rec.start = proc[p].start
          /\ rec.version = proc[p].version /\ rec.todo = proc[p].todo
      BY <1>1 DEF Shape, Fields
    <2> QED
      BY <2>1, <2>2, OtherWork
  <1> QED
    BY <1>2, <1>3 DEF Handle

\* The parsers of logs.
LEMMA ParsersPreserve ==
  ASSUME CollectorInv, NEW p \in Pids, NEW r \in LogRanks, EventLogParser(p, r) \/ ReadEof(p, r) \/ OpenFile(p, r)
  PROVE  CollectorInv'
  <1> DEFINE Told(t) == [proc[p] EXCEPT !.tails = [proc[p].tails EXCEPT ![r] = t]]
  <1>1. Shape(proc[p]) /\ DOMAIN proc = Pids
    BY DEF CollectorInv, CollectorType
  <1>2. UNCHANGED <<job, clock, release>>
    BY DEF EventLogParser, ReadEof, OpenFile
  <1>3. ASSUME NEW t, proc' = [proc EXCEPT ![p].tails[r] = t] PROVE CollectorInv'
    <2>1. proc' = [proc EXCEPT ![p] = Told(t)]
      BY <1>1, <1>3
    <2>2. Shape(Told(t)) /\ Told(t).pc = proc[p].pc /\ Told(t).start = proc[p].start
          /\ Told(t).version = proc[p].version /\ Told(t).todo = proc[p].todo
      BY <1>1 DEF Shape, Fields
    <2> QED
      BY <2>1, <2>2, <1>2, OtherWork
  <1>4. CASE EventLogParser(p, r)
    BY <1>2, <1>3, <1>4, HandlePreserves DEF EventLogParser
  <1>5. CASE ReadEof(p, r)
    BY <1>3, <1>5 DEF ReadEof
  <1>6. CASE OpenFile(p, r)
    BY <1>3, <1>6 DEF OpenFile
  <1> QED
    BY <1>4, <1>5, <1>6

\* The socket, the dispatcher and the sampler.
LEMMA DispatcherPreserves ==
  ASSUME CollectorInv, NEW p \in Pids,
         \/ EventSockParser(p) \/ GeneratePodEvents(p) \/ AsyncSample(p) \/ HardwareInfoGet(p) \/ EventDispatcher(p)
  PROVE  CollectorInv'
  <1>1. Shape(proc[p]) /\ DOMAIN proc = Pids
    BY DEF CollectorInv, CollectorType
  <1>2. UNCHANGED <<job, clock, release>>
    BY DEF EventSockParser, GeneratePodEvents, AsyncSample, HardwareInfoGet, EventDispatcher
  <1>3. ASSUME NEW f \in Fields \ {"pc", "start", "version", "todo"}, NEW v,
               proc' = [proc EXCEPT ![p] = [proc[p] EXCEPT ![f] = v]]
        PROVE  CollectorInv'
    <2> DEFINE rec == [proc[p] EXCEPT ![f] = v]
    <2>1. Shape(rec) /\ rec.pc = proc[p].pc /\ rec.start = proc[p].start
          /\ rec.version = proc[p].version /\ rec.todo = proc[p].todo
      BY <1>1, <1>3 DEF Shape, Fields
    <2> QED
      BY <2>1, <1>2, <1>3, OtherWork
  <1>4. ASSUME NEW f \in Fields \ {"pc", "start", "version", "todo"}, NEW v,
               NEW g \in Fields \ {"pc", "start", "version", "todo"}, NEW w,
               proc' = [proc EXCEPT ![p] = [[proc[p] EXCEPT ![f] = v] EXCEPT ![g] = w]]
        PROVE  CollectorInv'
    <2> DEFINE one == [proc[p] EXCEPT ![f] = v]
               rec == [one EXCEPT ![g] = w]
    <2>1. Shape(one) /\ one.pc = proc[p].pc /\ one.start = proc[p].start
          /\ one.version = proc[p].version /\ one.todo = proc[p].todo
      BY <1>1, <1>4 DEF Shape, Fields
    <2> HIDE DEF one
    <2>2. Shape(rec) /\ rec.pc = one.pc /\ rec.start = one.start
          /\ rec.version = one.version /\ rec.todo = one.todo
      BY <2>1, <1>4 DEF Shape, Fields
    <2>3. proc' = [proc EXCEPT ![p] = rec]
      BY <1>4 DEF one
    <2> QED
      BY <2>1, <2>2, <2>3, <1>2, OtherWork
  <1>5. {"tails", "bodies", "events", "sampler", "disp"} \subseteq Fields \ {"pc", "start", "version", "todo"}
    BY DEF Fields
  <1>6. CASE EventSockParser(p)
    <2>1. PICK events : proc' = [proc EXCEPT ![p].bodies = Tail(@), ![p].events = @ \o events]
      BY <1>6 DEF EventSockParser
    <2>2. \E v, w : proc' = [proc EXCEPT ![p] = [[proc[p] EXCEPT !["bodies"] = v] EXCEPT !["events"] = w]]
      BY <2>1, <1>1
    <2> QED
      BY <2>2, <1>4, <1>5
  <1>7. CASE GeneratePodEvents(p)
    <2>1. \/ \E v : proc' = [proc EXCEPT ![p] = [proc[p] EXCEPT !["disp"] = v]]
          \/ \E v, w : proc' = [proc EXCEPT ![p] = [[proc[p] EXCEPT !["disp"] = v] EXCEPT !["sampler"] = w]]
      BY <1>1, <1>7 DEF GeneratePodEvents
    <2> QED
      BY <2>1, <1>3, <1>4, <1>5
  <1>8. CASE AsyncSample(p)
    <2>1. \E v : proc' = [proc EXCEPT ![p] = [proc[p] EXCEPT !["sampler"] = v]]
      BY <1>1, <1>8 DEF AsyncSample
    <2> QED
      BY <2>1, <1>3, <1>5
  <1>9. CASE HardwareInfoGet(p)
    <2>1. \E v : proc' = [proc EXCEPT ![p] = [proc[p] EXCEPT !["disp"] = v]]
      BY <1>1, <1>9 DEF HardwareInfoGet
    <2> QED
      BY <2>1, <1>3, <1>5
  <1>10. CASE EventDispatcher(p)
    <2>1. \E v, w : proc' = [proc EXCEPT ![p] = [[proc[p] EXCEPT !["disp"] = v] EXCEPT !["events"] = w]]
      BY <1>1, <1>10 DEF EventDispatcher
    <2> QED
      BY <2>1, <1>4, <1>5
  <1> QED
    BY <1>6, <1>7, <1>8, <1>9, <1>10

\* What does not change the collectors, the job or the times does not matter.
LEMMA CollectorStepPreserves == CollectorInv /\ [CollectorNext]_collectorVars => CollectorInv'
  <1> SUFFICES ASSUME CollectorInv, [CollectorNext]_collectorVars PROVE CollectorInv'
    OBVIOUS
  <1>1. ASSUME UNCHANGED <<job, clock, release, proc>> PROVE CollectorInv'
    BY <1>1 DEF CollectorInv, CollectorType, StartsPast, EarlierInList, ListOfStarted, OneRemains, Remains
  <1>2. ASSUME NEW r \in LogRanks, WriteLog(r) \/ Show(r) PROVE CollectorInv'
    BY <1>1, <1>2 DEF WriteLog, Show
  <1>3. ASSUME NEW r \in SockRanks, DoPost(r) PROVE CollectorInv'
    <2>1. UNCHANGED <<job, clock, release>>
      BY <1>3 DEF DoPost
    <2>2. CASE UNCHANGED proc
      BY <2>1, <2>2, <1>1
    <2>3. CASE ~UNCHANGED proc
      <3>0. PICK p \in Pids : \E b :
              proc' = [proc EXCEPT ![p].bodies = IF Len(@) < BodyCap THEN Append(@, b) ELSE @]
        BY <2>3, <1>3 DEF DoPost, Running
      <3>1. PICK body :
              proc' = [proc EXCEPT ![p].bodies = IF Len(@) < BodyCap THEN Append(@, body) ELSE @]
        BY <3>0
      <3> DEFINE v == IF Len(proc[p].bodies) < BodyCap THEN Append(proc[p].bodies, body) ELSE proc[p].bodies
                 rec == [proc[p] EXCEPT !["bodies"] = v]
      <3>2. Shape(proc[p]) /\ DOMAIN proc = Pids
        BY DEF CollectorInv, CollectorType
      <3>3. proc' = [proc EXCEPT ![p] = rec]
        BY <3>1, <3>2
      <3> HIDE DEF v
      <3>4. Shape(rec) /\ rec.pc = proc[p].pc /\ rec.start = proc[p].start
            /\ rec.version = proc[p].version /\ rec.todo = proc[p].todo
        BY <3>2 DEF Shape, Fields
      <3> QED
        BY <3>3, <3>4, <2>1, OtherWork
    <2> QED
      BY <2>2, <2>3
  <1>4. ASSUME NEW p \in Pids, NEW r \in LogRanks, EventLogParser(p, r) \/ ReadEof(p, r) \/ OpenFile(p, r)
        PROVE  CollectorInv'
    BY <1>4, ParsersPreserve
  <1>5. CASE UNCHANGED collectorVars
    BY <1>1, <1>5 DEF collectorVars
  <1> QED
    BY <1>2, <1>3, <1>4, <1>5, TimePasses, LaunchPreserves, BeginScanPreserves, FirstOrDiePreserves,
       StartParserPreserves, DispatcherPreserves DEF CollectorNext

\* Of all the collectors that the trainers of a machine start, in whatever versions and
\* with whatever pids, two run at the same time only if the later one has the smaller
\* pid, and one is left when all have looked around.
THEOREM OneCollectorStays == CollectorSpec => []OneCollector
  <1>1. CollectorInv => OneCollector
    <2> SUFFICES ASSUME CollectorInv PROVE OneCollector
      OBVIOUS
    <2>1. ASSUME NEW p \in Running, NEW q \in Running, p < q PROVE proc[q].start < proc[p].start
      <3>1. /\ p \in Pids /\ q \in Pids /\ proc[p].pc = "run" /\ proc[q].pc = "run"
            /\ proc[p].start \in Nat /\ proc[q].start \in Nat /\ proc[q].todo = {}
        BY DEF Running, CollectorInv, CollectorType, ListOfStarted
      <3>2. ~(proc[p].start <= proc[q].start)
        BY <2>1, <3>1 DEF CollectorInv, EarlierInList
      <3> QED
        BY <3>1, <3>2
    <2>2. (\A p \in Pids : proc[p].pc \in {"none", "run", "gone"}) /\ (\E p \in Pids : proc[p].pc # "none")
            => Running # {}
      BY DEF CollectorInv, OneRemains, Remains, Running
    <2> QED
      BY <2>1, <2>2 DEF OneCollector
  <1> QED
    BY <1>1, CollectorInitEstablishes, CollectorStepPreserves, PTL DEF CollectorSpec

-----------------------------------------------------------------------------
(* The writers of traces.                                                  *)

WriterPlaces == {"get", "append", "flush", "final", "settle", "commit", "docommit", "open", "dead"}

\* A writer's record when n steps were traced.
WriterRecord(n) ==
  [pc : WriterPlaces, data : 0..n, wtry : Nat, ctry : Nat, ftry : Nat, final : BOOLEAN, level : {"outer", "nested"},
   cols : Seq(1..n), blocks : Seq(Seq(1..n)), live : BOOLEAN]

\* What goes with where a writer stands.
WriterFits(rec) ==
  /\ rec.pc \in {"get", "append"} => ~rec.final
  /\ rec.pc \in {"final", "settle"} => rec.final
  /\ rec.pc \in {"commit", "docommit", "open", "settle"} => rec.cols = <<>>
  /\ rec.pc \in {"docommit", "open"} /\ rec.level = "outer" => rec.final
  /\ ~rec.final /\ rec.pc # "get" => rec.data # 0

\* The steps whose data a writer has: in its hands, in its buffer, in blocks that are not committed.
InHand(rec) == IF rec.pc = "append" THEN {rec.data} ELSE {}
InCols(cols) == {cols[i] : i \in DOMAIN cols}
InBlocks(blocks) == UNION {InCols(blocks[i]) : i \in DOMAIN blocks}
InSession(rec) == IF rec.pc = "open" THEN {} ELSE InBlocks(rec.blocks)
Held(rec) == InHand(rec) \cup InCols(rec.cols) \cup InSession(rec)

\* Each of them once.
OnceInCols(cols) == \A i, j \in DOMAIN cols : cols[i] = cols[j] => i = j
OnceInBlocks(blocks) ==
  \A i, j \in DOMAIN blocks : \A x \in DOMAIN blocks[i], y \in DOMAIN blocks[j] :
    blocks[i][x] = blocks[j][y] => i = j /\ x = y
HeldOnce(rec) ==
  /\ OnceInCols(rec.cols)
  /\ InHand(rec) \cap InCols(rec.cols) = {}
  /\ InHand(rec) \cap InSession(rec) = {}
  /\ InCols(rec.cols) \cap InSession(rec) = {}
  /\ rec.pc # "open" => OnceInBlocks(rec.blocks)

-----------------------------------------------------------------------------
LEMMA NothingInEmpty == InCols(<<>>) = {} /\ InBlocks(<<>>) = {} /\ OnceInCols(<<>>) /\ OnceInBlocks(<<>>)
  BY DEF InCols, InBlocks, OnceInCols, OnceInBlocks

LEMMA InAppended ==
  ASSUME NEW S, NEW cols \in Seq(S), NEW x \in S
  PROVE  /\ Append(cols, x) \in Seq(S)
         /\ InCols(Append(cols, x)) = InCols(cols) \cup {x}
         /\ OnceInCols(cols) /\ x \notin InCols(cols) => OnceInCols(Append(cols, x))
  <1> DEFINE longer == Append(cols, x)
  <1>1. /\ longer \in Seq(S) /\ Len(longer) = Len(cols) + 1 /\ Len(cols) \in Nat
        /\ DOMAIN longer = 1..(Len(cols) + 1) /\ DOMAIN cols = 1..Len(cols)
        /\ longer[Len(cols) + 1] = x
        /\ \A i \in 1..Len(cols) : longer[i] = cols[i]
    OBVIOUS
  <1> HIDE DEF longer
  <1>2. \A i \in 1..(Len(cols) + 1) : i \in 1..Len(cols) \/ i = Len(cols) + 1
    BY <1>1
  <1>3. \A i \in 1..Len(cols) : i \in 1..(Len(cols) + 1)
    BY <1>1
  <1>4. Len(cols) + 1 \in 1..(Len(cols) + 1)
    BY <1>1
  <1>5. InCols(longer) \subseteq InCols(cols) \cup {x}
    BY <1>1, <1>2 DEF InCols
  <1>6. InCols(cols) \subseteq InCols(longer) /\ x \in InCols(longer)
    BY <1>1, <1>3, <1>4 DEF InCols
  <1>7. OnceInCols(cols) /\ x \notin InCols(cols) => OnceInCols(longer)
    BY <1>1, <1>2 DEF OnceInCols, InCols
  <1> QED
    BY <1>1, <1>5, <1>6, <1>7, Zenon DEF longer

LEMMA InOneMoreBlock ==
  ASSUME NEW S, NEW blocks \in Seq(Seq(S)), NEW cols \in Seq(S)
  PROVE  /\ Append(blocks, cols) \in Seq(Seq(S))
         /\ InBlocks(Append(blocks, cols)) = InBlocks(blocks) \cup InCols(cols)
         /\ OnceInBlocks(blocks) /\ OnceInCols(cols) /\ InCols(cols) \cap InBlocks(blocks) = {}
              => OnceInBlocks(Append(blocks, cols))
  <1> DEFINE longer == Append(blocks, cols)
  <1>1. /\ longer \in Seq(Seq(S)) /\ Len(blocks) \in Nat
        /\ DOMAIN longer = 1..(Len(blocks) + 1) /\ DOMAIN blocks = 1..Len(blocks)
        /\ longer[Len(blocks) + 1] = cols
        /\ \A i \in 1..Len(blocks) : longer[i] = blocks[i]
    OBVIOUS
  <1> HIDE DEF longer
  <1>2. \A i \in 1..(Len(blocks) + 1) : i \in 1..Len(blocks) \/ i = Len(blocks) + 1
    BY <1>1
  <1>3. \A i \in 1..Len(blocks) : i \in 1..(Len(blocks) + 1)
    BY <1>1
  <1>4. Len(blocks) + 1 \in 1..(Len(blocks) + 1)
    BY <1>1
  <1>5. InBlocks(longer) \subseteq InBlocks(blocks) \cup InCols(cols)
    BY <1>1, <1>2, Zenon DEF InBlocks
  <1>6. InBlocks(blocks) \subseteq InBlocks(longer) /\ InCols(cols) \subseteq InBlocks(longer)
    <2>1. InBlocks(blocks) \subseteq InBlocks(longer)
      BY <1>1, <1>3, Zenon DEF InBlocks
    <2>2. InCols(cols) \subseteq InBlocks(longer)
      BY <1>1, <1>4, Zenon DEF InBlocks
    <2> QED
      BY <2>1, <2>2
  <1>7. ASSUME OnceInBlocks(blocks), OnceInCols(cols), InCols(cols) \cap InBlocks(blocks) = {}
        PROVE  OnceInBlocks(longer)
    <2> SUFFICES ASSUME NEW i \in DOMAIN longer, NEW j \in DOMAIN longer,
                        NEW x \in DOMAIN longer[i], NEW y \in DOMAIN longer[j], longer[i][x] = longer[j][y]
                 PROVE  i = j /\ x = y
      BY DEF OnceInBlocks
    <2>1. \A a \in 1..Len(blocks) : \A z \in DOMAIN blocks[a] : blocks[a][z] \in InBlocks(blocks)
      <3>1. \A a \in DOMAIN blocks : \A e \in InCols(blocks[a]) : e \in InBlocks(blocks)
        BY DEF InBlocks
      <3>2. \A a : \A z \in DOMAIN blocks[a] : blocks[a][z] \in InCols(blocks[a])
        BY DEF InCols
      <3> QED
        BY <3>1, <3>2, <1>1, Zenon
    <2>2. \A z \in DOMAIN cols : cols[z] \in InCols(cols)
      BY DEF InCols
    <2>3. \A e : ~(e \in InCols(cols) /\ e \in InBlocks(blocks))
      BY <1>7
    <2>4. CASE i \in 1..Len(blocks) /\ j \in 1..Len(blocks)
      BY <2>4, <1>1, <1>7 DEF OnceInBlocks
    <2>5. CASE i \in 1..Len(blocks) /\ j = Len(blocks) + 1
      <3>1. longer[i][x] \in InBlocks(blocks) /\ longer[j][y] \in InCols(cols)
        BY <2>5, <2>1, <2>2, <1>1, Zenon
      <3> QED
        BY <3>1, <2>3, Zenon
    <2>6. CASE i = Len(blocks) + 1 /\ j \in 1..Len(blocks)
      <3>1. longer[j][y] \in InBlocks(blocks) /\ longer[i][x] \in InCols(cols)
        BY <2>6, <2>1, <2>2, <1>1, Zenon
      <3> QED
        BY <3>1, <2>3, Zenon
    <2>7. CASE i = Len(blocks) + 1 /\ j = Len(blocks) + 1
      BY <2>7, <1>1, <1>7, Zenon DEF OnceInCols
    <2> QED
      BY <2>4, <2>5, <2>6, <2>7, <1>1, <1>2, Zenon
  <1> QED
    <2>1. longer \in Seq(Seq(S))
      BY <1>1
    <2>2. InBlocks(longer) = InBlocks(blocks) \cup InCols(cols)
      BY <1>5, <1>6
    <2> QED
      BY <2>1, <2>2, <1>7, Zenon DEF longer

\* How often a step is in blocks: not at all, if it is not there; at least once, if it is; at most
\* once, if each step is there once.
LEMMA CountFacts ==
  ASSUME NEW S, NEW blocks \in Seq(Seq(S)), NEW k
  PROVE  /\ Count(blocks, k) \in Nat
         /\ k \notin InBlocks(blocks) => Count(blocks, k) = 0
         /\ k \in InBlocks(blocks) => Count(blocks, k) >= 1
         /\ OnceInBlocks(blocks) => Count(blocks, k) <= 1
  <1> DEFINE In(i) == {<<i, j>> : j \in {j \in DOMAIN blocks[i] : blocks[i][j] = k}}
             all == {In(i) : i \in DOMAIN blocks}
             P == Places(blocks, k)
  <1>1. P = UNION all
    BY DEF Places
  <1>2. \A i \in DOMAIN blocks : IsFiniteSet(In(i))
    <2> TAKE i \in DOMAIN blocks
    <2>1. blocks[i] \in Seq(S)
      OBVIOUS
    <2>2. DOMAIN blocks[i] = 1..Len(blocks[i]) /\ Len(blocks[i]) \in Nat
      BY <2>1
    <2>3. IsFiniteSet(DOMAIN blocks[i])
      BY <2>2, FS_Interval
    <2>4. IsFiniteSet({i} \X DOMAIN blocks[i])
      BY <2>3, FS_Singleton, FS_Product
    <2>5. In(i) \subseteq {i} \X DOMAIN blocks[i]
      OBVIOUS
    <2> QED
      BY <2>4, <2>5, FS_Subset
  <1>3. IsFiniteSet(all)
    <2>1. DOMAIN blocks = 1..Len(blocks) /\ Len(blocks) \in Nat
      OBVIOUS
    <2>2. IsFiniteSet(DOMAIN blocks)
      BY <2>1, FS_Interval
    <2> DEFINE f == [i \in DOMAIN blocks |-> In(i)]
    <2>3. f \in [DOMAIN blocks -> all]
      OBVIOUS
    <2>4. \A t \in all : \E i \in DOMAIN blocks : f[i] = t
      OBVIOUS
    <2> HIDE DEF f, all
    <2>5. f \in Surjection(DOMAIN blocks, all)
      BY <2>3, <2>4, Zenon DEF Surjection
    <2> QED
      BY <2>2, <2>5, FS_Surjection
  <1>4. \A p : p \in P <=> \E i \in DOMAIN blocks : \E j \in DOMAIN blocks[i] : p = <<i, j>> /\ blocks[i][j] = k
    BY <1>1
  <1>5. IsFiniteSet(P)
    <2>1. \A t \in all : IsFiniteSet(t)
      BY <1>2
    <2> HIDE DEF all, P
    <2> QED
      BY <2>1, <1>1, <1>3, FS_UNION
  <1>6. Cardinality(P) \in Nat
    BY <1>5, FS_CardinalityType
  <1>7. k \in InBlocks(blocks) <=> \E i \in DOMAIN blocks : \E j \in DOMAIN blocks[i] : blocks[i][j] = k
    BY DEF InBlocks, InCols
  <1> HIDE DEF P, all, In
  <1>8. k \in InBlocks(blocks) <=> P # {}
    <2>1. ASSUME k \in InBlocks(blocks) PROVE P # {}
      <3>1. PICK i \in DOMAIN blocks : \E j \in DOMAIN blocks[i] : blocks[i][j] = k
        BY <2>1, <1>7
      <3>2. PICK j \in DOMAIN blocks[i] : blocks[i][j] = k
        BY <3>1
      <3>3. <<i, j>> \in P
        BY <3>2, <1>4, Zenon
      <3> QED
        BY <3>3
    <2>2. ASSUME P # {} PROVE k \in InBlocks(blocks)
      BY <2>2, <1>4, <1>7, Zenon
    <2> QED
      BY <2>1, <2>2
  <1>9. Cardinality(P) = 0 <=> P = {}
    BY <1>5, FS_EmptySet
  <1>10. ASSUME OnceInBlocks(blocks), P # {} PROVE Cardinality(P) = 1
    <2>1. PICK p \in P : TRUE
      BY <1>10
    <2>2. PICK i \in DOMAIN blocks : \E j \in DOMAIN blocks[i] : p = <<i, j>> /\ blocks[i][j] = k
      BY <2>1, <1>4, Zenon
    <2>5. PICK j \in DOMAIN blocks[i] : p = <<i, j>> /\ blocks[i][j] = k
      BY <2>2
    <2>3. ASSUME NEW q \in P PROVE q = p
      <3>3. PICK a \in DOMAIN blocks : \E b \in DOMAIN blocks[a] : q = <<a, b>> /\ blocks[a][b] = k
        BY <1>4, Zenon
      <3>1. PICK b \in DOMAIN blocks[a] : q = <<a, b>> /\ blocks[a][b] = k
        BY <3>3
      <3>2. a = i /\ b = j
        BY <3>1, <2>5, <1>10, Zenon DEF OnceInBlocks
      <3> QED
        BY <3>1, <3>2, <2>5
    <2>4. P = {p}
      BY <2>1, <2>3
    <2> QED
      BY <2>4, FS_Singleton
  <1>11. Count(blocks, k) = Cardinality(P)
    BY DEF Count, P
  <1> QED
    <2>1. k \notin InBlocks(blocks) => Cardinality(P) = 0
      BY <1>8, <1>9
    <2>2. k \in InBlocks(blocks) => Cardinality(P) >= 1
      BY <1>8, <1>9, <1>6
    <2>3. OnceInBlocks(blocks) => Cardinality(P) <= 1
      BY <1>9, <1>10
    <2> QED
      BY <2>1, <2>2, <2>3, <1>6, <1>11

\* d entries of the queue are data, in the order of the steps; then come sentinels.
QueueShape(q, d, n) ==
  /\ q \in Seq(0..n)
  /\ d \in 0..Len(q)
  /\ \A i \in 1..Len(q) : q[i] = 0 <=> i > d
  /\ \A i, j \in 1..d : i < j => q[i] < q[j]

Finals == {w \in Writers : writer[w].final}

TraceTypes ==
  /\ version \in {1, 2}
  /\ main \in [pc : {"step", "put", "end", "exited"}, step : 1..(Steps + 1), sent : Nat, closed : BOOLEAN]
  /\ Writers \in Teams
  /\ writer \in [Writers -> WriterRecord(main.step - 1)]
  /\ committed \in [1..Steps -> Nat]
  /\ errors \in Seq(Writers)
  /\ faults \in Nat /\ slow \in Nat /\ alarm \in BOOLEAN

WritersFit == \A w \in Writers : WriterFits(writer[w])

MainFits ==
  /\ main.pc \in {"step", "put"} => main.step <= Steps /\ main.sent = 0
  /\ ~alarm /\ main.pc \in {"end", "exited"} => main.step = Steps + 1

\* The sentinels in the queue are those sent, without those taken; a writer that is at its last
\* commit took one or reported an error.
QueueFits ==
  \E d \in 0..Len(queue) :
    /\ QueueShape(queue, d, main.step - 1)
    /\ Len(queue) - d <= main.sent /\ (d > 0 => Len(queue) - d = main.sent)
    /\ ~alarm => Cardinality(Finals) = Len(errors) + main.sent - (Len(queue) - d)

DeadEmpty == ~alarm => \A w \in Writers : writer[w].pc = "dead" => writer[w].final /\ Held(writer[w]) = {}

\* The data of a step is in the queue, with a writer, or committed.
InQueue == {queue[i] : i \in 1..Len(queue)} \ {0}
Present(k) == k \in InQueue \/ (\E w \in Writers : k \in Held(writer[w])) \/ committed[k] >= 1
NothingLost == ~alarm => \A k \in 1..(main.step - 1) : Present(k)
Untouched == \A k \in main.step..Steps : committed[k] = 0

\* If no call failed: it is at one of these places only, and once.
Committed(k) == k \in 1..Steps /\ committed[k] >= 1
NothingTwice ==
  /\ \A w \in Writers : HeldOnce(writer[w])
  /\ \A w \in Writers : \A k \in Held(writer[w]) : k \notin InQueue /\ ~Committed(k)
  /\ \A w, v \in Writers : w # v => Held(writer[w]) \cap Held(writer[v]) = {}
  /\ \A k \in InQueue : ~Committed(k)
  /\ \A k \in 1..Steps : committed[k] <= 1
Calm ==
  /\ \A w \in Writers : writer[w].live \/ writer[w].pc = "open"
  /\ errors = <<>>
  /\ slow = 0 => ~alarm
  /\ alarm => Exited

\* A job that ended without an alarm took all.
AllTaken == Exited /\ ~alarm => queue = <<>> /\ \A w \in Writers : writer[w].pc = "dead"

TraceInv ==
  /\ TraceTypes /\ WritersFit /\ MainFits /\ QueueFits /\ DeadEmpty /\ NothingLost /\ Untouched /\ AllTaken
  /\ faults = 0 => NothingTwice /\ Calm

-----------------------------------------------------------------------------
\* The invariant says what is promised.
LEMMA TraceInvImplies == TraceInv => TraceAccounted
  <1> SUFFICES ASSUME TraceInv, Exited PROVE
        /\ ~alarm => \A k \in 1..Steps : committed[k] >= 1
        /\ faults = 0 => \A k \in 1..Steps : committed[k] <= 1
        /\ faults = 0 /\ slow = 0 => ~alarm
    BY DEF TraceAccounted
  <1>1. ASSUME ~alarm, NEW k \in 1..Steps PROVE committed[k] >= 1
    <2>1. main.step = Steps + 1 /\ Steps \in Nat
      BY <1>1, TraceAssumption DEF TraceInv, MainFits, Exited
    <2>2. k \in 1..(main.step - 1)
      BY <2>1
    <2>3. Present(k)
      BY <2>2, <1>1 DEF TraceInv, NothingLost
    <2>4. queue = <<>> /\ \A w \in Writers : Held(writer[w]) = {}
      BY <1>1 DEF TraceInv, AllTaken, DeadEmpty
    <2>5. InQueue = {}
      BY <2>4 DEF InQueue
    <2> QED
      BY <2>3, <2>4, <2>5 DEF Present
  <1>2. ASSUME faults = 0, NEW k \in 1..Steps PROVE committed[k] <= 1
    BY <1>2 DEF TraceInv, NothingTwice
  <1>3. ASSUME faults = 0, slow = 0 PROVE ~alarm
    BY <1>3 DEF TraceInv, Calm
  <1> QED
    BY <1>1, <1>2, <1>3

LEMMA TraceInitEstablishes == TraceInit => TraceInv
  <1> SUFFICES ASSUME TraceInit PROVE TraceInv
    OBVIOUS
  <1>1. PICK team \in Teams : writer = [w \in team |-> NewWriter]
    BY DEF TraceInit
  <1>2. Writers = team /\ Writers \in Teams
    BY <1>1 DEF Writers
  <1>3. Steps \in Nat \ {0} /\ IsFiniteSet(team)
    BY TraceAssumption
  <1>4. main.step = 1 /\ main.pc = "step" /\ main.sent = 0 /\ main.closed = FALSE /\ main.step - 1 = 0
    BY DEF TraceInit
  <1>5. NewWriter \in WriterRecord(0)
    BY DEF NewWriter, WriterRecord, WriterPlaces
  <1>6. WriterFits(NewWriter) /\ Held(NewWriter) = {} /\ HeldOnce(NewWriter) /\ NewWriter.final = FALSE
        /\ NewWriter.live = TRUE /\ NewWriter.pc = "get"
    BY NothingInEmpty DEF NewWriter, WriterFits, Held, HeldOnce, InHand, InSession
  <1>7. \A w \in Writers : writer[w] = NewWriter
    BY <1>1, <1>2
  <1>8. TraceTypes
    <2>1. main \in [pc : {"step", "put", "end", "exited"}, step : 1..(Steps + 1), sent : Nat, closed : BOOLEAN]
      BY <1>3 DEF TraceInit
    <2>2. writer \in [Writers -> WriterRecord(main.step - 1)]
      BY <1>1, <1>2, <1>4, <1>5
    <2>3. version \in {1, 2} /\ errors \in Seq(Writers) /\ faults \in Nat /\ slow \in Nat /\ alarm = FALSE
      BY DEF TraceInit
    <2>4. committed \in [1..Steps -> Nat]
      BY DEF TraceInit
    <2> QED
      BY <2>1, <2>2, <2>3, <2>4, <1>2 DEF TraceTypes
  <1>9. WritersFit
    BY <1>6, <1>7 DEF WritersFit
  <1>10. MainFits
    BY <1>3, <1>4 DEF MainFits
  <1>11. QueueFits
    <2>1. Finals = {}
      BY <1>6, <1>7 DEF Finals
    <2>2. Cardinality(Finals) = 0
      BY <2>1, FS_EmptySet
    <2>3. queue = <<>> /\ errors = <<>> /\ Len(queue) = 0 /\ Len(errors) = 0
      BY DEF TraceInit
    <2>4. QueueShape(queue, 0, main.step - 1)
      BY <2>3, <1>4 DEF QueueShape
    <2> QED
      BY <2>2, <2>3, <2>4, <1>4 DEF QueueFits
  <1>12. InQueue = {}
    BY DEF TraceInit, InQueue
  <1>13. \A k \in 1..Steps : committed[k] = 0
    BY DEF TraceInit
  <1>14. DeadEmpty /\ NothingLost /\ AllTaken
    BY <1>4, <1>6, <1>7 DEF DeadEmpty, NothingLost, AllTaken, Exited
  <1>15. Untouched
    BY <1>13, <1>3, <1>4 DEF Untouched
  <1>16. NothingTwice
    BY <1>6, <1>7, <1>12, <1>13 DEF NothingTwice, Committed
  <1>17. Calm
    BY <1>6, <1>7 DEF Calm, TraceInit
  <1> QED
    BY <1>8, <1>9, <1>10, <1>11, <1>14, <1>15, <1>16, <1>17 DEF TraceInv

-----------------------------------------------------------------------------
\* A step in which a writer becomes r and takes or commits nothing.
WriterMove(w, r) ==
  /\ writer' = [writer EXCEPT ![w] = r]
  /\ version' = version /\ main' = main /\ queue' = queue /\ committed' = committed /\ slow' = slow
  /\ ~Exited
  /\ r \in WriterRecord(main.step - 1) /\ WriterFits(r)
  /\ \/ errors' = errors /\ (r.final <=> writer[w].final)
     \/ errors' = Append(errors, w) /\ r.final /\ ~writer[w].final
  /\ alarm' \in BOOLEAN /\ (alarm => alarm')
  /\ ~alarm' => /\ r.pc = "dead" => r.final /\ Held(r) = {}
                /\ Held(writer[w]) \subseteq Held(r)
  /\ faults' \in Nat /\ faults' >= faults
  /\ faults' = 0 => /\ Held(r) = Held(writer[w]) /\ HeldOnce(r) /\ (r.live \/ r.pc = "open")
                    /\ errors' = errors /\ (alarm' => alarm)

\* The writers' set and the other writers are as they were.
LEMMA OtherWriters ==
  ASSUME TraceTypes, NEW w \in Writers, NEW r, writer' = [writer EXCEPT ![w] = r]
  PROVE  /\ Writers' = Writers
         /\ writer'[w] = r
         /\ \A v \in Writers : v # w => writer'[v] = writer[v]
         /\ \A v \in Writers : writer'[v] = writer[v] \/ v = w
         /\ \A n \in Nat : r \in WriterRecord(n) /\ n = main.step - 1 => writer' \in [Writers -> WriterRecord(n)]
  BY DEF TraceTypes, Writers

\* How many writers are at their last commit.
LEMMA FinalsCounted ==
  ASSUME TraceTypes, NEW w \in Writers, NEW r, writer' = [writer EXCEPT ![w] = r]
  PROVE  /\ (r.final <=> writer[w].final) => Cardinality(Finals)' = Cardinality(Finals)
         /\ r.final /\ ~writer[w].final => Cardinality(Finals)' = Cardinality(Finals) + 1
         /\ Cardinality(Finals) \in Nat
         /\ Cardinality(Writers) \in Nat
         /\ Finals # {} => Cardinality(Finals) > 0
  <1>1. IsFiniteSet(Writers)
    BY TraceAssumption DEF TraceTypes
  <1>2. Finals \subseteq Writers
    BY DEF Finals
  <1>3. IsFiniteSet(Finals)
    BY <1>1, <1>2, FS_Subset
  <1>4. Cardinality(Finals) \in Nat /\ Cardinality(Writers) \in Nat
    BY <1>1, <1>3, FS_CardinalityType
  <1>5. Writers' = Writers /\ writer'[w] = r /\ \A v \in Writers : v # w => writer'[v] = writer[v]
    BY OtherWriters
  <1>6. ASSUME r.final <=> writer[w].final PROVE Cardinality(Finals)' = Cardinality(Finals)
    <2>1. Finals' = Finals
      BY <1>5, <1>6, Zenon DEF Finals
    <2> QED
      BY <2>1
  <1>7. ASSUME r.final, ~writer[w].final PROVE Cardinality(Finals)' = Cardinality(Finals) + 1
    <2>1. \A v : v \in Finals' <=> v \in Finals \/ v = w
      BY <1>5, <1>7, Zenon DEF Finals
    <2>2. Finals' = Finals \cup {w}
      BY <2>1
    <2>3. w \notin Finals
      BY <1>7 DEF Finals
    <2>4. Cardinality(Finals \cup {w}) = Cardinality(Finals) + 1
      BY <2>3, <1>3, FS_AddElement
    <2> QED
      BY <2>2, <2>4
  <1>8. Finals # {} => Cardinality(Finals) > 0
    BY <1>3, <1>4, FS_EmptySet
  <1> QED
    BY <1>4, <1>6, <1>7, <1>8

LEMMA WriterMovePreserves ==
  ASSUME TraceInv, NEW w \in Writers, NEW r, WriterMove(w, r)
  PROVE  TraceInv'
  <1> DEFINE me == writer[w]
             n == main.step - 1
  <1>1. TraceTypes
    BY DEF TraceInv
  <1>2. writer' = [writer EXCEPT ![w] = r] /\ r \in WriterRecord(main.step - 1) /\ WriterFits(r) /\ ~Exited
    BY DEF WriterMove
  <1>3. version' = version /\ main' = main /\ queue' = queue /\ committed' = committed /\ slow' = slow
    BY DEF WriterMove
  <1>4. main.step \in 1..(Steps + 1) /\ Steps \in Nat /\ n \in Nat
    BY <1>1, TraceAssumption DEF TraceTypes
  <1>5. /\ Writers' = Writers /\ writer'[w] = r
        /\ \A v \in Writers : v # w => writer'[v] = writer[v]
        /\ \A v \in Writers : writer'[v] = writer[v] \/ v = w
    BY <1>1, <1>2, OtherWriters, Zenon
  <1>6. writer' \in [Writers -> WriterRecord(n)]
    BY <1>1, <1>2, <1>4, OtherWriters
  <1>7. /\ alarm' \in BOOLEAN /\ (alarm => alarm') /\ faults' \in Nat /\ faults' >= faults
        /\ \/ errors' = errors /\ (r.final <=> writer[w].final)
           \/ errors' = Append(errors, w) /\ r.final /\ ~writer[w].final
    BY DEF WriterMove
  <1>8. errors' \in Seq(Writers)
    BY SMTT(45), <1>1, <1>7 DEF TraceTypes
  <1>9. TraceTypes'
    BY <1>1, <1>3, <1>5, <1>6, <1>7, <1>8 DEF TraceTypes
  <1>10. WritersFit'
    BY <1>2, <1>5, Zenon DEF TraceInv, WritersFit
  <1>11. MainFits'
    BY <1>3, <1>7 DEF TraceInv, MainFits
  <1>12. QueueFits'
    <2>1. PICK d \in 0..Len(queue) :
            /\ QueueShape(queue, d, main.step - 1)
            /\ Len(queue) - d <= main.sent /\ (d > 0 => Len(queue) - d = main.sent)
            /\ ~alarm => Cardinality(Finals) = Len(errors) + main.sent - (Len(queue) - d)
      BY DEF TraceInv, QueueFits
    <2>2. ~alarm' => Cardinality(Finals)' = Len(errors)' + main.sent - (Len(queue) - d)
      <3> HAVE ~alarm'
      <3>1. Cardinality(Finals) = Len(errors) + main.sent - (Len(queue) - d)
        BY <2>1, <1>7
      <3>2. Len(errors) \in Nat /\ main.sent \in Nat /\ Len(queue) \in Nat /\ d \in Nat
        BY <1>1, <2>1 DEF TraceTypes, QueueShape
      <3>3. /\ (r.final <=> writer[w].final) => Cardinality(Finals)' = Cardinality(Finals)
            /\ r.final /\ ~writer[w].final => Cardinality(Finals)' = Cardinality(Finals) + 1
        BY <1>1, <1>2, FinalsCounted, Zenon
      <3>4. CASE errors' = errors /\ (r.final <=> writer[w].final)
        <4>1. Cardinality(Finals)' = Cardinality(Finals)
          BY <3>3, <3>4, Zenon
        <4> QED
          BY <4>1, <3>1, <3>4
      <3>5. CASE errors' = Append(errors, w) /\ r.final /\ ~writer[w].final
        <4>1. Cardinality(Finals)' = Cardinality(Finals) + 1
          BY <3>3, <3>5, Zenon
        <4>2. Len(errors)' = Len(errors) + 1
          BY <3>5, <1>1 DEF TraceTypes
        <4> QED
          BY <4>1, <4>2, <3>1, <3>2
      <3> QED
        BY <3>4, <3>5, <1>7
    <2> QED
      BY <2>1, <2>2, <1>3, Zenon DEF QueueFits
  <1>13. DeadEmpty'
    <2>1. ASSUME ~alarm', NEW v \in Writers, writer'[v].pc = "dead" PROVE writer'[v].final /\ Held(writer'[v]) = {}
      <3>1. ~alarm
        BY <2>1, <1>7
      <3>2. CASE v = w
        BY <2>1, <3>2, <1>5 DEF WriterMove
      <3>3. CASE v # w
        BY <2>1, <3>1, <3>3, <1>5 DEF TraceInv, DeadEmpty
      <3> QED
        BY <3>2, <3>3
    <2> QED
      BY <2>1, <1>5 DEF DeadEmpty
  <1>14. InQueue' = InQueue
    BY <1>3 DEF InQueue
  <1>15. NothingLost'
    <2>1. ASSUME ~alarm', NEW k \in 1..(main.step - 1) PROVE Present(k)'
      <3>1. ~alarm /\ Held(writer[w]) \subseteq Held(r)
        BY <2>1, <1>7 DEF WriterMove
      <3>2. Present(k)
        BY <3>1 DEF TraceInv, NothingLost
      <3>3. \A v \in Writers : Held(writer[v]) \subseteq Held(writer'[v])
        BY <3>1, <1>5
      <3> QED
        BY <3>2, <3>3, <1>3, <1>5, <1>14 DEF Present
    <2> QED
      BY <2>1, <1>3 DEF NothingLost
  <1>16. Untouched' /\ AllTaken'
    BY <1>2, <1>3 DEF TraceInv, Untouched, AllTaken, Exited
  <1>17. ASSUME faults' = 0 PROVE NothingTwice' /\ Calm'
    <2>1. faults = 0
      BY <1>7, <1>17, <1>1 DEF TraceTypes
    <2>2. /\ Held(r) = Held(writer[w]) /\ HeldOnce(r) /\ (r.live \/ r.pc = "open")
          /\ errors' = errors /\ (alarm' => alarm)
      BY <1>17 DEF WriterMove
    <2>3. NothingTwice /\ Calm
      BY <2>1 DEF TraceInv
    <2>4. \A v \in Writers : Held(writer'[v]) = Held(writer[v])
      BY <2>2, <1>5
    <2>5. \A v \in Writers : HeldOnce(writer'[v])
      BY <2>2, <2>3, <1>5 DEF NothingTwice
    <2>6. \A k : Committed(k)' <=> Committed(k)
      BY <1>3 DEF Committed
    <2>7. NothingTwice'
      BY <2>3, <2>4, <2>5, <2>6, <1>3, <1>5, <1>14 DEF NothingTwice
    <2>8. Calm'
      BY <2>2, <2>3, <1>3, <1>5 DEF Calm, Exited
    <2> QED
      BY <2>7, <2>8
  <1> QED
    BY <1>9, <1>10, <1>11, <1>12, <1>13, <1>15, <1>16, <1>17 DEF TraceInv

-----------------------------------------------------------------------------
(* The writers' steps.                                                     *)

LEMMA EmptySeq == \A S : <<>> \in Seq(S)
  OBVIOUS

\* What an exception leaves of a writer: all that it has.
RaisedFrom(rec, r, n) ==
  /\ r \in WriterRecord(n) /\ WriterFits(r)
  /\ r.cols = rec.cols /\ r.blocks = rec.blocks /\ r.pc # "open"
  /\ \/ r.final <=> rec.final
     \/ r.pc = "final" /\ r.final /\ ~rec.final

LEMMA RaiseFinalLeaves ==
  ASSUME NEW n \in Nat, NEW rec \in WriterRecord(n), rec.final
  PROVE  RaisedFrom(rec, RaiseFinal(rec), n)
  <1>1. RaiseFinal(rec) = [rec EXCEPT !.pc = "final", !.ftry = rec.ftry + 1] \/ RaiseFinal(rec) = [rec EXCEPT !.pc = "dead"]
    BY DEF RaiseFinal
  <1>2. CASE RaiseFinal(rec) = [rec EXCEPT !.pc = "final", !.ftry = rec.ftry + 1]
    <2>1. PICK r : r = RaiseFinal(rec)
      OBVIOUS
    <2>2. r \in WriterRecord(n)
      <3>1. rec.ftry \in Nat
        BY DEF WriterRecord
      <3>2. PICK m \in Nat : m = rec.ftry + 1
        BY <3>1
      <3>3. r = [rec EXCEPT !.pc = "final", !.ftry = m]
        BY <1>2, <2>1, <3>2
      <3> QED
        BY <3>3 DEF WriterRecord, WriterPlaces
    <2>3. r.pc = "final" /\ r.cols = rec.cols /\ r.blocks = rec.blocks /\ r.final = rec.final
      BY <1>2, <2>1 DEF WriterRecord
    <2> QED
      BY <2>1, <2>2, <2>3 DEF RaisedFrom, WriterFits
  <1>3. CASE RaiseFinal(rec) = [rec EXCEPT !.pc = "dead"]
    BY <1>3 DEF RaisedFrom, WriterRecord, WriterPlaces, WriterFits
  <1> QED
    BY <1>1, <1>2, <1>3

LEMMA RaiseFlushLeaves ==
  ASSUME NEW n \in Nat, NEW rec \in WriterRecord(n), WriterFits(rec), rec.pc # "get"
  PROVE  RaisedFrom(rec, RaiseFlush(rec), n)
  <1>1. CASE rec.final
    BY <1>1, RaiseFinalLeaves DEF RaiseFlush
  <1>2. CASE ~rec.final
    <2>1. \/ RaiseFlush(rec) = [rec EXCEPT !.pc = "append", !.wtry = rec.wtry + 1]
          \/ RaiseFlush(rec) = [rec EXCEPT !.pc = "dead"]
          \/ RaiseFlush(rec) = [rec EXCEPT !.pc = "final", !.final = TRUE, !.ftry = 0]
      BY <1>2 DEF RaiseFlush
    <2>2. rec.data # 0
      BY <1>2 DEF WriterFits
    <2>3. CASE RaiseFlush(rec) = [rec EXCEPT !.pc = "append", !.wtry = rec.wtry + 1]
      <3>1. PICK r : r = RaiseFlush(rec)
        OBVIOUS
      <3>2. r \in WriterRecord(n)
        <4>1. rec.wtry \in Nat
          BY DEF WriterRecord
        <4>2. PICK m \in Nat : m = rec.wtry + 1
          BY <4>1
        <4>3. r = [rec EXCEPT !.pc = "append", !.wtry = m]
          BY <2>3, <3>1, <4>2
        <4> QED
          BY <4>3 DEF WriterRecord, WriterPlaces
      <3>3. /\ r.pc = "append" /\ r.cols = rec.cols /\ r.blocks = rec.blocks /\ r.final = rec.final
            /\ r.data = rec.data
        BY <2>3, <3>1 DEF WriterRecord
      <3> QED
        BY <1>2, <2>2, <3>1, <3>2, <3>3 DEF RaisedFrom, WriterFits
    <2>4. CASE RaiseFlush(rec) = [rec EXCEPT !.pc = "dead"]
      BY <1>2, <2>2, <2>4 DEF RaisedFrom, WriterRecord, WriterPlaces, WriterFits
    <2>5. CASE RaiseFlush(rec) = [rec EXCEPT !.pc = "final", !.final = TRUE, !.ftry = 0]
      <3>1. PICK r : r = RaiseFlush(rec)
        OBVIOUS
      <3>2. r \in WriterRecord(n)
        <4>1. r = [rec EXCEPT !.pc = "final", !.final = TRUE, !.ftry = 0]
          BY <2>5, <3>1
        <4> QED
          BY <4>1 DEF WriterRecord, WriterPlaces
      <3>3. r.pc = "final" /\ r.cols = rec.cols /\ r.blocks = rec.blocks /\ r.final = TRUE
        BY <2>5, <3>1 DEF WriterRecord
      <3> QED
        BY <1>2, <3>1, <3>2, <3>3 DEF RaisedFrom, WriterFits
    <2> QED
      BY <2>1, <2>3, <2>4, <2>5
  <1> QED
    BY <1>1, <1>2

LEMMA RaiseCommitLeaves ==
  ASSUME NEW n \in Nat, NEW rec \in WriterRecord(n), WriterFits(rec), rec.pc \in {"docommit", "open"}
  PROVE  RaisedFrom(rec, RaiseCommit(rec), n)
  <1>1. CASE rec.level = "outer"
    <2>1. rec.final
      BY <1>1 DEF WriterFits
    <2> QED
      BY <1>1, <2>1, RaiseFinalLeaves DEF RaiseCommit
  <1>2. CASE rec.level # "outer" /\ rec.ctry + 1 < RetryCount
    <2>1. RaiseCommit(rec) = [rec EXCEPT !.pc = "commit", !.ctry = rec.ctry + 1]
      BY <1>2 DEF RaiseCommit
    <2>2. PICK r : r = RaiseCommit(rec)
      OBVIOUS
    <2>3. r \in WriterRecord(n)
      <3>1. rec.ctry \in Nat
        BY DEF WriterRecord
      <3>2. PICK m \in Nat : m = rec.ctry + 1
        BY <3>1
      <3>3. r = [rec EXCEPT !.pc = "commit", !.ctry = m]
        BY <2>1, <2>2, <3>2
      <3> QED
        BY <3>3 DEF WriterRecord, WriterPlaces
    <2>4. /\ r.pc = "commit" /\ r.cols = rec.cols /\ r.blocks = rec.blocks /\ r.final = rec.final
          /\ r.data = rec.data
      BY <2>1, <2>2 DEF WriterRecord
    <2> QED
      BY <2>2, <2>3, <2>4 DEF RaisedFrom, WriterFits
  <1>3. CASE rec.level # "outer" /\ ~(rec.ctry + 1 < RetryCount)
    <2>1. RaiseCommit(rec) = RaiseFlush(rec)
      BY <1>3 DEF RaiseCommit
    <2> QED
      BY <2>1, RaiseFlushLeaves
  <1> QED
    BY <1>1, <1>2, <1>3

LEMMA RaisePreserves ==
  ASSUME TraceInv, ~Exited, NEW w \in Writers, NEW r,
         RaisedFrom(writer[w], r, main.step - 1), writer[w].pc # "append",
         Raise(w, r), UNCHANGED <<version, main, queue, committed, slow>>,
         faults' \in Nat, faults' > 0, faults' >= faults
  PROVE  TraceInv'
  <1>1. writer' = [writer EXCEPT ![w] = r]
    BY DEF Raise, Set
  <1>2. alarm' = (alarm \/ r.pc = "dead") /\ alarm \in BOOLEAN
    BY DEF Raise, TraceInv, TraceTypes
  <1>3. alarm' \in BOOLEAN /\ (alarm => alarm') /\ (~alarm' => r.pc # "dead")
    BY <1>2, Zenon
  <1>4. \/ errors' = errors /\ (r.final <=> writer[w].final)
        \/ errors' = Append(errors, w) /\ r.final /\ ~writer[w].final
    BY DEF Raise, RaisedFrom
  <1>5. Held(writer[w]) \subseteq Held(r)
    BY DEF Held, InHand, InSession, RaisedFrom
  <1>6. WriterMove(w, r)
    BY <1>1, <1>3, <1>4, <1>5 DEF WriterMove, RaisedFrom
  <1> QED
    BY <1>6, WriterMovePreserves

\* A step that raises nothing and meets no fault, and leaves a writer what it has.
LEMMA KeepingPreserves ==
  ASSUME TraceInv, ~Exited, NEW w \in Writers, NEW r,
         r \in WriterRecord(main.step - 1), WriterFits(r), r.final <=> writer[w].final,
         Held(r) = Held(writer[w]), r.pc = "dead" => r.final /\ Held(r) = {},
         faults = 0 => HeldOnce(r) /\ (r.live \/ r.pc = "open"),
         Set(w, r), NoRaise, UNCHANGED <<version, main, queue, committed, faults, slow>>
  PROVE  TraceInv'
  <1>1. writer' = [writer EXCEPT ![w] = r] /\ errors' = errors /\ alarm' = alarm /\ faults' = faults
    BY DEF Set, NoRaise
  <1>2. alarm \in BOOLEAN /\ faults \in Nat
    BY DEF TraceInv, TraceTypes
  <1>3. WriterMove(w, r)
    BY <1>1, <1>2 DEF WriterMove
  <1> QED
    BY <1>3, WriterMovePreserves

\* What the invariant says of one writer.
LEMMA WriterKnown ==
  ASSUME TraceInv, NEW w \in Writers
  PROVE  /\ writer[w] \in WriterRecord(main.step - 1) /\ WriterFits(writer[w])
         /\ main.step - 1 \in Nat /\ version \in {1, 2}
         /\ faults = 0 => HeldOnce(writer[w]) /\ (writer[w].live \/ writer[w].pc = "open")
         /\ faults \in Nat
  <1>1. main.step - 1 \in Nat
    BY TraceAssumption DEF TraceInv, TraceTypes
  <1> QED
    BY <1>1 DEF TraceInv, TraceTypes, WritersFit, NothingTwice, Calm

LEMMA WritePreserves ==
  ASSUME TraceInv, ~Exited, NEW w \in Writers, Write(w)
  PROVE  TraceInv'
  <1> DEFINE me == writer[w]
             n == main.step - 1
             cols == Append(me.cols, me.data)
  <1>1. /\ me \in WriterRecord(n) /\ WriterFits(me) /\ n \in Nat /\ me.pc = "append"
        /\ faults = 0 => HeldOnce(me) /\ (me.live \/ me.pc = "open")
    BY WriterKnown DEF Write
  <1>2. PICK next \in {"flush", "get"} : Set(w, [me EXCEPT !.cols = cols, !.pc = next])
    BY DEF Write
  <1>3. NoRaise /\ UNCHANGED <<version, main, queue, committed, faults, slow>>
    BY DEF Write
  <1> HIDE DEF me, n
  <1>4. me.data \in 1..n /\ me.cols \in Seq(1..n) /\ ~me.final /\ me.data # 0
    BY <1>1 DEF WriterRecord, WriterFits
  <1>5. /\ cols \in Seq(1..n)
        /\ InCols(cols) = InCols(me.cols) \cup {me.data}
        /\ OnceInCols(me.cols) /\ me.data \notin InCols(me.cols) => OnceInCols(cols)
    BY <1>4, InAppended
  <1> HIDE DEF cols
  <1>6. PICK r : r = [me EXCEPT !.cols = cols, !.pc = next]
    OBVIOUS
  <1>7. r \in WriterRecord(n)
    BY <1>1, <1>5, <1>6 DEF WriterRecord, WriterPlaces
  <1>8. /\ r.pc = next /\ r.cols = cols /\ r.blocks = me.blocks /\ r.final = me.final /\ r.data = me.data
        /\ r.live = me.live
    BY <1>1, <1>6 DEF WriterRecord
  <1>9. WriterFits(r)
    BY <1>4, <1>8 DEF WriterFits
  <1>10. Held(r) = Held(me)
    BY <1>1, <1>5, <1>8 DEF Held, InHand, InSession
  <1>11. ASSUME faults = 0 PROVE HeldOnce(r) /\ (r.live \/ r.pc = "open")
    <2>1. HeldOnce(me) /\ me.live
      BY <1>1, <1>11
    <2>2. me.data \notin InCols(me.cols) /\ me.data \notin InBlocks(me.blocks) /\ OnceInCols(me.cols)
          /\ InCols(me.cols) \cap InBlocks(me.blocks) = {} /\ OnceInBlocks(me.blocks)
      BY <2>1, <1>1 DEF HeldOnce, InHand, InSession
    <2> QED
      BY <2>1, <2>2, <1>5, <1>8 DEF HeldOnce, InHand, InSession
  <1>12. r.pc # "dead"
    BY <1>8
  <1> QED
    BY <1>2, <1>3, <1>6, <1>7, <1>8, <1>9, <1>10, <1>11, <1>12, KeepingPreserves DEF me, n

LEMMA CommitForcePreserves ==
  ASSUME TraceInv, ~Exited, NEW w \in Writers, CommitForce(w)
  PROVE  TraceInv'
  <1> DEFINE me == writer[w]
             n == main.step - 1
             next == IF me.cols = <<>> THEN "settle" ELSE "flush"
  <1>1. /\ me \in WriterRecord(n) /\ WriterFits(me) /\ n \in Nat /\ me.pc = "final"
        /\ faults = 0 => HeldOnce(me) /\ (me.live \/ me.pc = "open")
    BY WriterKnown DEF CommitForce
  <1>2. Set(w, [me EXCEPT !.pc = next]) /\ NoRaise /\ UNCHANGED <<version, main, queue, committed, faults, slow>>
    BY DEF CommitForce
  <1> HIDE DEF me, n
  <1>3. PICK r : r = [me EXCEPT !.pc = next]
    OBVIOUS
  <1>4. r \in WriterRecord(n) /\ next \in {"settle", "flush"} /\ (next = "settle" => me.cols = <<>>)
    BY <1>1, <1>3 DEF WriterRecord, WriterPlaces
  <1> HIDE DEF next
  <1>5. /\ r.pc = next /\ r.cols = me.cols /\ r.blocks = me.blocks /\ r.final = me.final /\ r.data = me.data
        /\ r.live = me.live
    BY <1>1, <1>3 DEF WriterRecord
  <1>6. WriterFits(r)
    BY <1>1, <1>4, <1>5 DEF WriterFits
  <1>7. Held(r) = Held(me) /\ (HeldOnce(me) => HeldOnce(r)) /\ r.pc # "dead" /\ me.pc # "open"
    BY <1>1, <1>4, <1>5 DEF Held, HeldOnce, InHand, InSession
  <1> QED
    BY <1>1, <1>2, <1>3, <1>4, <1>5, <1>6, <1>7, KeepingPreserves DEF me, n

LEMMA FlushBufferPreserves ==
  ASSUME TraceInv, ~Exited, NEW w \in Writers, FlushBuffer(w)
  PROVE  TraceInv'
  <1> DEFINE me == writer[w]
             n == main.step - 1
             blocks == Append(me.blocks, me.cols)
  <1>1. /\ me \in WriterRecord(n) /\ WriterFits(me) /\ n \in Nat /\ me.pc = "flush" /\ faults \in Nat
        /\ faults = 0 => HeldOnce(me) /\ (me.live \/ me.pc = "open")
    BY WriterKnown DEF FlushBuffer
  <1>2. UNCHANGED <<version, main, queue, committed, slow>>
    BY DEF FlushBuffer
  <1>3. CASE Succeeds(w, FALSE) /\ Raise(w, RaiseFlush(me))
    <2>1. RaisedFrom(me, RaiseFlush(me), n)
      BY <1>1, RaiseFlushLeaves
    <2>2. IF ~me.live THEN faults' = faults ELSE faults' = faults + 1
      BY <1>3 DEF Succeeds
    <2>3. faults' \in Nat /\ faults' >= faults /\ faults' > 0
      BY <2>2, <1>1
    <2> QED
      BY <2>1, <2>3, <1>1, <1>2, <1>3, RaisePreserves
  <1>4. CASE \E r : /\ Set(w, r) /\ Succeeds(w, TRUE) /\ NoRaise
                    /\ \/ r = [me EXCEPT !.blocks = blocks, !.cols = <<>>, !.pc = "commit", !.ctry = 0, !.level = "nested"]
                       \/ r = [me EXCEPT !.blocks = blocks, !.cols = <<>>, !.pc = IF me.final THEN "settle" ELSE "get"]
    <2>1. PICK r : /\ Set(w, r) /\ Succeeds(w, TRUE) /\ NoRaise
                   /\ \/ r = [me EXCEPT !.blocks = blocks, !.cols = <<>>, !.pc = "commit", !.ctry = 0, !.level = "nested"]
                      \/ r = [me EXCEPT !.blocks = blocks, !.cols = <<>>, !.pc = IF me.final THEN "settle" ELSE "get"]
      BY <1>4
    <2>2. faults' = faults
      BY <2>1 DEF Succeeds
    <2> HIDE DEF me, n
    <2>3. me.cols \in Seq(1..n) /\ me.blocks \in Seq(Seq(1..n))
      BY <1>1 DEF WriterRecord
    <2>4. /\ blocks \in Seq(Seq(1..n))
          /\ InBlocks(blocks) = InBlocks(me.blocks) \cup InCols(me.cols)
          /\ OnceInBlocks(me.blocks) /\ OnceInCols(me.cols) /\ InCols(me.cols) \cap InBlocks(me.blocks) = {}
               => OnceInBlocks(blocks)
      BY <2>3, InOneMoreBlock
    <2> HIDE DEF blocks
    <2>5. /\ r \in WriterRecord(n) /\ r.cols = <<>> /\ r.blocks = blocks /\ r.final = me.final /\ r.data = me.data
          /\ r.live = me.live /\ r.pc \in {"commit", "settle", "get"}
          /\ (r.pc = "settle" => me.final) /\ (r.pc = "get" => ~me.final)
      <3>1. CASE r = [me EXCEPT !.blocks = blocks, !.cols = <<>>, !.pc = "commit", !.ctry = 0, !.level = "nested"]
        <4>1. r \in WriterRecord(n)
          BY <3>1, <2>4, <1>1, EmptySeq DEF WriterRecord, WriterPlaces
        <4>2. /\ r.cols = <<>> /\ r.blocks = blocks /\ r.final = me.final /\ r.data = me.data
              /\ r.live = me.live /\ r.pc = "commit"
          BY <3>1, <1>1 DEF WriterRecord
        <4> QED
          BY <4>1, <4>2
      <3>2. CASE r = [me EXCEPT !.blocks = blocks, !.cols = <<>>, !.pc = IF me.final THEN "settle" ELSE "get"]
        <4>1. PICK pc \in {"settle", "get"} : r = [me EXCEPT !.blocks = blocks, !.cols = <<>>, !.pc = pc]
                                              /\ (pc = "settle" => me.final) /\ (pc = "get" => ~me.final)
          BY <3>2
        <4>2. r \in WriterRecord(n)
          BY <4>1, <2>4, <1>1, EmptySeq DEF WriterRecord, WriterPlaces
        <4>3. /\ r.cols = <<>> /\ r.blocks = blocks /\ r.final = me.final /\ r.data = me.data
              /\ r.live = me.live /\ r.pc = pc
          BY <4>1, <1>1 DEF WriterRecord
        <4> QED
          BY <4>1, <4>2, <4>3
      <3> QED
        BY <2>1, <3>1, <3>2
    <2>6. WriterFits(r)
      BY <2>5, <1>1 DEF WriterFits
    <2>7. Held(r) = Held(me) /\ r.pc # "dead"
      BY <2>4, <2>5, <1>1, NothingInEmpty DEF Held, InHand, InSession
    <2>8. HeldOnce(me) => HeldOnce(r)
      BY <2>4, <2>5, <1>1, NothingInEmpty DEF HeldOnce, InHand, InSession
    <2> QED
      BY <1>1, <1>2, <2>1, <2>2, <2>5, <2>6, <2>7, <2>8, KeepingPreserves DEF me, n
  <1>5. \/ Succeeds(w, FALSE) /\ Raise(w, RaiseFlush(me))
        \/ \E r : /\ Set(w, r) /\ Succeeds(w, TRUE) /\ NoRaise
                  /\ \/ r = [me EXCEPT !.blocks = blocks, !.cols = <<>>, !.pc = "commit", !.ctry = 0, !.level = "nested"]
                     \/ r = [me EXCEPT !.blocks = blocks, !.cols = <<>>, !.pc = IF me.final THEN "settle" ELSE "get"]
    BY Zenon DEF FlushBuffer
  <1> QED
    BY <1>3, <1>4, <1>5

LEMMA CommitPreserves ==
  ASSUME TraceInv, ~Exited, NEW w \in Writers, Commit(w)
  PROVE  TraceInv'
  <1> DEFINE me == writer[w]
             n == main.step - 1
  <1>1. /\ me \in WriterRecord(n) /\ WriterFits(me) /\ n \in Nat /\ me.pc \in {"commit", "settle"}
        /\ faults = 0 => HeldOnce(me) /\ (me.live \/ me.pc = "open")
    BY WriterKnown DEF Commit
  <1>2. NoRaise /\ UNCHANGED <<version, main, queue, committed, faults, slow>>
    BY DEF Commit
  <1>3. PICK rec : rec = [me EXCEPT !.level = IF me.pc = "settle" THEN "outer" ELSE "nested"]
    OBVIOUS
  <1>4. (me.blocks = <<>> /\ Set(w, Returned(rec))) \/ Set(w, [rec EXCEPT !.pc = "docommit"])
    BY <1>3 DEF Commit
  <1> HIDE DEF me, n
  <1>5. /\ rec \in WriterRecord(n) /\ rec.pc = me.pc /\ rec.cols = me.cols /\ rec.blocks = me.blocks
        /\ rec.final = me.final /\ rec.data = me.data /\ rec.live = me.live
        /\ rec.level = (IF me.pc = "settle" THEN "outer" ELSE "nested")
    BY <1>1, <1>3 DEF WriterRecord, WriterPlaces
  <1>6. PICK r : /\ Set(w, r)
                 /\ \/ r = [rec EXCEPT !.pc = "docommit"]
                    \/ /\ me.blocks = <<>>
                       /\ r = Returned(rec)
    BY <1>4
  <1>7. /\ r \in WriterRecord(n) /\ r.cols = me.cols /\ r.blocks = me.blocks /\ r.final = me.final
        /\ r.data = me.data /\ r.live = me.live /\ r.level = rec.level
        /\ \/ r.pc = "docommit"
           \/ r.pc = "dead" /\ me.final /\ me.blocks = <<>>
           \/ r.pc = "settle" /\ me.final
           \/ r.pc = "get" /\ ~me.final
    <2>1. CASE r = [rec EXCEPT !.pc = "docommit"]
      BY <2>1, <1>5 DEF WriterRecord, WriterPlaces
    <2>2. CASE me.blocks = <<>> /\ r = Returned(rec)
      <3>1. PICK pc \in {"dead", "settle", "get"} :
              /\ r = [rec EXCEPT !.pc = pc]
              /\ pc = (IF rec.level = "outer" THEN "dead" ELSE IF rec.final THEN "settle" ELSE "get")
        BY <2>2 DEF Returned
      <3>2. pc = "dead" => me.final
        BY <3>1, <1>1, <1>5 DEF WriterFits
      <3>3. (pc = "settle" => me.final) /\ (pc = "get" => ~me.final)
        BY <3>1, <1>5
      <3> QED
        BY <2>2, <3>1, <3>2, <3>3, <1>5 DEF WriterRecord, WriterPlaces
    <2> QED
      BY <1>6, <2>1, <2>2
  <1>8. me.cols = <<>>
    BY <1>1 DEF WriterFits
  <1>9. WriterFits(r)
    <2>1. r.pc = "docommit" /\ r.level = "outer" => me.final
      BY <1>1, <1>5, <1>7 DEF WriterFits
    <2>2. ~me.final => me.data # 0
      BY <1>1 DEF WriterFits
    <2> QED
      BY <2>1, <2>2, <1>7, <1>8 DEF WriterFits
  <1>10. Held(r) = Held(me) /\ (HeldOnce(me) => HeldOnce(r)) /\ me.pc # "open"
    BY <1>1, <1>7 DEF Held, HeldOnce, InHand, InSession
  <1>11. r.pc = "dead" => r.final /\ Held(r) = {}
    BY <1>7, <1>8, NothingInEmpty DEF Held, InHand, InSession
  <1> QED
    BY <1>1, <1>2, <1>6, <1>7, <1>9, <1>10, <1>11, KeepingPreserves DEF me, n

LEMMA OpenWriteSessionPreserves ==
  ASSUME TraceInv, ~Exited, NEW w \in Writers, OpenWriteSession(w)
  PROVE  TraceInv'
  <1> DEFINE me == writer[w]
             n == main.step - 1
  <1>1. /\ me \in WriterRecord(n) /\ WriterFits(me) /\ n \in Nat /\ me.pc = "open" /\ faults \in Nat
        /\ faults = 0 => HeldOnce(me) /\ (me.live \/ me.pc = "open")
    BY WriterKnown DEF OpenWriteSession
  <1>2. UNCHANGED <<version, main, queue, committed, slow>>
    BY DEF OpenWriteSession
  <1>3. CASE faults' = faults + 1 /\ Raise(w, RaiseCommit(me))
    <2>1. RaisedFrom(me, RaiseCommit(me), n)
      BY <1>1, RaiseCommitLeaves
    <2>2. faults' \in Nat /\ faults' >= faults /\ faults' > 0
      BY <1>1, <1>3
    <2> QED
      BY <2>1, <2>2, <1>1, <1>2, <1>3, RaisePreserves
  <1>4. CASE faults' = faults /\ NoRaise /\ Set(w, Returned([me EXCEPT !.live = TRUE, !.blocks = <<>>]))
    <2> HIDE DEF me, n
    <2>1. PICK rec : rec = [me EXCEPT !.live = TRUE, !.blocks = <<>>]
      OBVIOUS
    <2>2. /\ rec \in WriterRecord(n) /\ rec.cols = me.cols /\ rec.blocks = <<>> /\ rec.final = me.final
          /\ rec.data = me.data /\ rec.live = TRUE /\ rec.level = me.level
      <3>1. rec \in WriterRecord(n)
        BY <1>1, <2>1, EmptySeq DEF WriterRecord, WriterPlaces
      <3> QED
        BY <3>1, <1>1, <2>1 DEF WriterRecord
    <2>3. PICK r, pc : /\ r = Returned(rec) /\ r = [rec EXCEPT !.pc = pc]
                       /\ pc = (IF rec.level = "outer" THEN "dead" ELSE IF rec.final THEN "settle" ELSE "get")
      BY DEF Returned
    <2>4. /\ r \in WriterRecord(n) /\ r.cols = me.cols /\ r.blocks = <<>> /\ r.final = me.final
          /\ r.data = me.data /\ r.live = TRUE /\ r.pc = pc /\ pc \in {"dead", "settle", "get"}
      BY <2>2, <2>3 DEF WriterRecord, WriterPlaces
    <2>5. me.cols = <<>> /\ (~me.final => me.data # 0)
      BY <1>1 DEF WriterFits
    <2>6. (pc = "dead" => me.final) /\ (pc = "settle" => me.final) /\ (pc = "get" => ~me.final)
      BY <2>2, <2>3, <1>1 DEF WriterFits
    <2>7. WriterFits(r)
      BY <2>4, <2>5, <2>6 DEF WriterFits
    <2>8. Held(r) = {} /\ Held(me) = {} /\ HeldOnce(r)
      BY <2>4, <2>5, <1>1, NothingInEmpty DEF Held, HeldOnce, InHand, InSession
    <2>9. Set(w, r) /\ NoRaise /\ UNCHANGED <<version, main, queue, committed, faults, slow>>
      BY <1>2, <1>4, <2>1, <2>3
    <2>10. r.pc = "dead" => r.final
      BY <2>4, <2>6
    <2> QED
      BY <2>4, <2>7, <2>8, <2>9, <2>10, KeepingPreserves DEF me, n
  <1> QED
    BY <1>3, <1>4, Zenon DEF OpenWriteSession

\* What is left of the queue without its first entry.
TailLeft(q, t, head, d, n) ==
  /\ Len(q) \in Nat /\ Len(t) = Len(q) - 1 /\ head = q[1] /\ head \in 0..n /\ 1 \in 1..Len(q) /\ d \in Nat
  /\ head = 0 => d = 0 /\ QueueShape(t, 0, n)
  /\ head # 0 => d > 0 /\ d - 1 \in 0..Len(t) /\ QueueShape(t, d - 1, n)
  /\ \A i \in 1..Len(t) : i + 1 \in 1..Len(q) /\ t[i] = q[i + 1]
  /\ \A i \in 1..Len(q) : i = 1 \/ (i - 1 \in 1..Len(t) /\ t[i - 1] = q[i])

LEMMA TailShape ==
  ASSUME NEW n \in Nat, NEW q, NEW d, QueueShape(q, d, n), q # <<>>
  PROVE  TailLeft(q, Tail(q), Head(q), d, n)
  <1>1. q \in Seq(0..n) /\ Len(q) \in Nat /\ Len(q) > 0 /\ Tail(q) \in Seq(0..n)
    BY DEF QueueShape
  <1>2. /\ Len(Tail(q)) = Len(q) - 1 /\ Head(q) = q[1]
        /\ \A i \in 1..Len(Tail(q)) : Tail(q)[i] = q[i + 1]
    BY <1>1
  <1>3. PICK t : t = Tail(q)
    OBVIOUS
  <1>4. /\ t \in Seq(0..n) /\ Len(t) = Len(q) - 1 /\ \A i \in 1..Len(t) : t[i] = q[i + 1] /\ i + 1 \in 1..Len(q)
    BY <1>1, <1>2, <1>3
  <1>5. \A i \in 1..Len(q) : i = 1 \/ (i - 1 \in 1..Len(t) /\ t[i - 1] = q[i])
    <2> TAKE i \in 1..Len(q)
    <2>1. i = 1 \/ i - 1 \in 1..Len(t)
      BY <1>1, <1>4
    <2>2. i - 1 \in 1..Len(t) => t[i - 1] = q[(i - 1) + 1]
      BY <1>4
    <2> QED
      BY <2>1, <2>2
  <1>6. ASSUME Head(q) = 0 PROVE d = 0 /\ QueueShape(t, 0, n)
    <2>1. d = 0
      BY <1>1, <1>2, <1>6 DEF QueueShape
    <2>2. \A i \in 1..Len(t) : t[i] = 0 <=> i > 0
      BY <2>1, <1>1, <1>4 DEF QueueShape
    <2> QED
      BY <2>1, <2>2, <1>4, <1>1 DEF QueueShape
  <1>7. ASSUME Head(q) # 0 PROVE d > 0 /\ d - 1 \in 0..Len(t) /\ QueueShape(t, d - 1, n)
    <2>1. d > 0 /\ d \in Nat /\ d <= Len(q)
      BY <1>1, <1>2, <1>7 DEF QueueShape
    <2>2. \A i \in 1..Len(t) : t[i] = 0 <=> i > d - 1
      BY SMTT(45), <2>1, <1>1, <1>4 DEF QueueShape
    <2>3. \A i, j \in 1..(d - 1) : i < j => t[i] < t[j]
      <3> SUFFICES ASSUME NEW i \in 1..(d - 1), NEW j \in 1..(d - 1), i < j PROVE t[i] < t[j]
        OBVIOUS
      <3>1. i \in 1..Len(t) /\ j \in 1..Len(t) /\ i + 1 \in 1..d /\ j + 1 \in 1..d /\ i + 1 < j + 1
        BY <2>1, <1>4, <1>1
      <3>2. q[i + 1] < q[j + 1]
        BY <3>1 DEF QueueShape
      <3> QED
        BY <3>1, <3>2, <1>4
    <2> QED
      BY <2>1, <2>2, <2>3, <1>4, <1>1 DEF QueueShape
  <1>8. 1 \in 1..Len(q) /\ d \in Nat
    BY <1>1 DEF QueueShape
  <1>9. Head(q) \in 0..n
    BY <1>1
  <1>10. PICK h : h = Head(q)
    OBVIOUS
  <1> QED
    BY <1>1, <1>2, <1>3, <1>4, <1>5, <1>6, <1>7, <1>8, <1>9, <1>10 DEF TailLeft

LEMMA GetPreserves ==
  ASSUME TraceInv, ~Exited, NEW w \in Writers, Get(w)
  PROVE  TraceInv'
  <1> DEFINE me == writer[w]
             n == main.step - 1
             head == Head(queue)
  <1>1. /\ me \in WriterRecord(n) /\ WriterFits(me) /\ n \in Nat /\ me.pc = "get"
        /\ faults = 0 => HeldOnce(me) /\ (me.live \/ me.pc = "open")
    BY WriterKnown DEF Get
  <1>2. /\ queue # <<>> /\ queue' = Tail(queue) /\ errors' = errors /\ alarm' = alarm /\ version' = version
        /\ main' = main /\ committed' = committed /\ faults' = faults /\ slow' = slow
    BY DEF Get, NoRaise
  <1>3. PICK r : /\ writer' = [writer EXCEPT ![w] = r]
                 /\ \/ head = 0 /\ r = [me EXCEPT !.pc = "final", !.final = TRUE, !.ftry = 0]
                    \/ head # 0 /\ r = [me EXCEPT !.pc = "append", !.data = head, !.wtry = 0]
    BY DEF Get, Set, Sentinel
  <1>4. TraceTypes
    BY DEF TraceInv
  <1>5. PICK d \in 0..Len(queue) :
          /\ QueueShape(queue, d, main.step - 1)
          /\ Len(queue) - d <= main.sent /\ (d > 0 => Len(queue) - d = main.sent)
          /\ ~alarm => Cardinality(Finals) = Len(errors) + main.sent - (Len(queue) - d)
    BY DEF TraceInv, QueueFits
  <1>6. /\ Len(queue) \in Nat /\ Len(Tail(queue)) = Len(queue) - 1 /\ head = queue[1] /\ 1 \in 1..Len(queue)
        /\ d \in Nat
        /\ head = 0 => d = 0 /\ QueueShape(Tail(queue), 0, n)
        /\ head # 0 => d > 0 /\ d - 1 \in 0..Len(Tail(queue)) /\ QueueShape(Tail(queue), d - 1, n)
        /\ \A i \in 1..Len(Tail(queue)) : i + 1 \in 1..Len(queue) /\ Tail(queue)[i] = queue[i + 1]
        /\ \A i \in 1..Len(queue) : i = 1 \/ (i - 1 \in 1..Len(Tail(queue)) /\ Tail(queue)[i - 1] = queue[i])
    <2>1. TailLeft(queue, Tail(queue), head, d, n)
      BY <1>1, <1>2, <1>5, TailShape, Zenon
    <2> HIDE DEF head, n
    <2> QED
      BY <2>1, Zenon DEF TailLeft
  <1>7. head \in 0..n
    BY <1>1, <1>2, <1>5, TailShape, Zenon DEF TailLeft
  <1>8. /\ Writers' = Writers /\ writer'[w] = r
        /\ \A v \in Writers : v # w => writer'[v] = writer[v]
        /\ \A v \in Writers : writer'[v] = writer[v] \/ v = w
    BY <1>3, <1>4, OtherWriters, Zenon
  <1> HIDE DEF me, n, head
  <1>9. /\ r \in WriterRecord(n) /\ r.cols = me.cols /\ r.blocks = me.blocks /\ r.live = me.live
        /\ head = 0 => r.pc = "final" /\ r.final /\ r.data = me.data
        /\ head # 0 => r.pc = "append" /\ ~r.final /\ r.data = head
    <2>1. ~me.final
      BY <1>1 DEF WriterFits
    <2>2. CASE head = 0
      <3>1. r = [me EXCEPT !.pc = "final", !.final = TRUE, !.ftry = 0]
        BY <2>2, <1>3
      <3>2. r \in WriterRecord(n)
        BY <3>1, <1>1 DEF WriterRecord, WriterPlaces
      <3> QED
        BY <2>2, <3>1, <3>2, <1>1 DEF WriterRecord
    <2>3. CASE head # 0
      <3>1. r = [me EXCEPT !.pc = "append", !.data = head, !.wtry = 0]
        BY <2>3, <1>3
      <3>2. r \in WriterRecord(n)
        BY <3>1, <1>1, <1>7 DEF WriterRecord, WriterPlaces
      <3> QED
        BY <2>1, <2>3, <3>1, <3>2, <1>1 DEF WriterRecord
    <2> QED
      BY <2>2, <2>3
  <1>10. WriterFits(r)
    BY <1>9 DEF WriterFits
  <1>11. Held(r) = Held(me) \cup ({head} \ {0})
    BY <1>1, <1>9 DEF Held, InHand, InSession
  <1>12. InQueue = InQueue' \cup ({head} \ {0})
    <2>1. ASSUME NEW k \in InQueue PROVE k \in InQueue' \/ k = head
      <3>1. PICK i \in 1..Len(queue) : queue[i] = k
        BY DEF InQueue
      <3>2. i = 1 \/ (i - 1 \in 1..Len(queue') /\ queue'[i - 1] = k)
        BY <3>1, <1>2, <1>6
      <3>3. k # 0
        BY DEF InQueue
      <3> QED
        BY <3>1, <3>2, <3>3, <1>6 DEF InQueue
    <2>2. ASSUME NEW k \in InQueue' PROVE k \in InQueue
      <3>1. PICK i \in 1..Len(queue') : queue'[i] = k
        BY DEF InQueue
      <3>2. i + 1 \in 1..Len(queue) /\ queue[i + 1] = k /\ k # 0
        BY <3>1, <1>2, <1>6 DEF InQueue
      <3> QED
        BY <3>2 DEF InQueue
    <2>3. head # 0 => head \in InQueue
      BY <1>6 DEF InQueue
    <2> QED
      BY <2>1, <2>2, <2>3 DEF InQueue
  <1>13. head # 0 => head \notin InQueue'
    <2>1. ASSUME head # 0, NEW i \in 1..Len(queue'), queue'[i] = head PROVE FALSE
      <3>1. i + 1 \in 1..Len(queue) /\ queue[i + 1] = queue[1] /\ queue[1] # 0 /\ d > 0 /\ i \in Nat /\ i > 0
        BY <2>1, <1>2, <1>6
      <3>2. i + 1 <= d
        BY <3>1, <1>5, <1>6 DEF QueueShape
      <3>3. queue[1] < queue[i + 1]
        BY <3>1, <3>2, <1>5, <1>6 DEF QueueShape
      <3>4. queue[1] \in Nat
        BY <1>6, <1>7 DEF n
      <3> QED
        BY <3>1, <3>3, <3>4
    <2> QED
      BY <2>1 DEF InQueue
  <1>14. writer' \in [Writers -> WriterRecord(n)]
    BY <1>1, <1>3, <1>4, <1>9, OtherWriters DEF n
  <1>15. TraceTypes'
    BY <1>2, <1>4, <1>8, <1>14 DEF TraceTypes, n
  <1>16. WritersFit'
    BY <1>8, <1>10, Zenon DEF TraceInv, WritersFit
  <1>17. MainFits' /\ Untouched' /\ AllTaken'
    BY <1>2 DEF TraceInv, MainFits, Untouched, AllTaken, Exited
  <1>18. QueueFits'
    <2>1. Len(errors) \in Nat /\ main.sent \in Nat
      BY <1>4 DEF TraceTypes
    <2>2. /\ (r.final <=> me.final) => Cardinality(Finals)' = Cardinality(Finals)
          /\ r.final /\ ~me.final => Cardinality(Finals)' = Cardinality(Finals) + 1
      BY <1>3, <1>4, FinalsCounted, Zenon DEF me
    <2>3. ~me.final
      BY <1>1 DEF WriterFits
    <2>4. CASE head = 0
      <3>1. Cardinality(Finals)' = Cardinality(Finals) + 1
        BY <2>2, <2>3, <2>4, <1>9, Zenon
      <3>2. d = 0 /\ QueueShape(Tail(queue), 0, n) /\ Len(Tail(queue)) = Len(queue) - 1
        BY <2>4, <1>6
      <3>3. ~alarm => Cardinality(Finals)' = Len(errors) + main.sent - (Len(Tail(queue)) - 0)
        BY <3>1, <3>2, <2>1, <1>5, <1>6
      <3>4. QueueShape(queue', 0, main'.step - 1)
        BY <3>2, <1>2 DEF n
      <3>5. Len(queue') - 0 <= main.sent /\ 0 \in 0..Len(queue')
        BY <3>2, <1>2, <1>5, <1>6, <2>1
      <3> QED
        BY <3>3, <3>4, <3>5, <1>2 DEF QueueFits
    <2>5. CASE head # 0
      <3>1. Cardinality(Finals)' = Cardinality(Finals)
        BY <2>2, <2>3, <2>5, <1>9, Zenon
      <3>2. d > 0 /\ d - 1 \in 0..Len(Tail(queue)) /\ QueueShape(Tail(queue), d - 1, n)
            /\ Len(Tail(queue)) = Len(queue) - 1
        BY <2>5, <1>6
      <3>3. ~alarm => Cardinality(Finals)' = Len(errors) + main.sent - (Len(Tail(queue)) - (d - 1))
        BY <3>1, <3>2, <2>1, <1>5, <1>6
      <3>4. QueueShape(queue', d - 1, main'.step - 1)
        BY <3>2, <1>2 DEF n
      <3>5. Len(queue') - (d - 1) = main.sent /\ d - 1 \in 0..Len(queue')
        BY <3>2, <1>2, <1>5, <1>6, <2>1
      <3> QED
        BY <3>3, <3>4, <3>5, <1>2, <2>1 DEF QueueFits
    <2> QED
      BY <2>4, <2>5
  <1>19. DeadEmpty'
    <2>1. ASSUME ~alarm', NEW v \in Writers, writer'[v].pc = "dead" PROVE writer'[v].final /\ Held(writer'[v]) = {}
      <3>1. v # w
        BY <2>1, <1>8, <1>9
      <3> QED
        BY <2>1, <3>1, <1>2, <1>8 DEF TraceInv, DeadEmpty
    <2> QED
      BY <2>1, <1>8 DEF DeadEmpty
  <1>20. NothingLost'
    <2>1. ASSUME ~alarm', NEW k \in 1..(main.step - 1) PROVE Present(k)'
      <3>1. Present(k) /\ k # 0
        BY <2>1, <1>2 DEF TraceInv, NothingLost
      <3>2. \A v \in Writers : Held(writer[v]) \subseteq Held(writer'[v])
        BY <1>8, <1>11 DEF me
      <3>3. k \in InQueue => k \in InQueue' \/ k \in Held(writer'[w])
        BY <3>1, <1>8, <1>11, <1>12
      <3> QED
        BY <3>1, <3>2, <3>3, <1>2, <1>8 DEF Present
    <2> QED
      BY <2>1, <1>2 DEF NothingLost
  <1>21. ASSUME faults' = 0 PROVE NothingTwice' /\ Calm'
    <2>1. NothingTwice /\ Calm /\ HeldOnce(me) /\ me.live
      BY <1>1, <1>2, <1>21 DEF TraceInv
    <2>2. \A k : Committed(k)' <=> Committed(k)
      BY <1>2 DEF Committed
    <2>3. \A k \in Held(me) : k \notin InQueue
      BY <2>1 DEF NothingTwice, me
    <2>4. HeldOnce(r)
      <3>1. head # 0 => head \notin Held(me)
        BY <2>3, <1>12
      <3> QED
        BY <3>1, <2>1, <1>1, <1>9 DEF HeldOnce, Held, InHand, InSession
    <2>5. \A v \in Writers : HeldOnce(writer'[v])
      BY <2>1, <2>4, <1>8 DEF NothingTwice
    <2>6. \A v \in Writers : \A k \in Held(writer'[v]) : k \notin InQueue' /\ ~Committed(k)'
      <3> TAKE v \in Writers
      <3>1. CASE v # w
        BY <3>1, <2>1, <2>2, <1>8, <1>12 DEF NothingTwice
      <3>2. CASE v = w
        <4>1. \A k \in Held(me) : k \notin InQueue /\ ~Committed(k)
          BY <2>1 DEF NothingTwice, me
        <4>2. head # 0 => head \notin InQueue' /\ ~Committed(head)
          BY <2>1, <1>12, <1>13 DEF NothingTwice
        <4> QED
          BY <3>2, <4>1, <4>2, <2>2, <1>8, <1>11, <1>12
      <3> QED
        BY <3>1, <3>2
    <2>7. \A u, v \in Writers : u # v => Held(writer'[u]) \cap Held(writer'[v]) = {}
      <3>1. \A v \in Writers : v # w => Held(r) \cap Held(writer[v]) = {}
        BY <2>1, <1>11, <1>12 DEF NothingTwice, me
      <3> QED
        BY <3>1, <2>1, <1>8 DEF NothingTwice
    <2>8. NothingTwice'
      BY <2>1, <2>2, <2>5, <2>6, <2>7, <1>2, <1>8, <1>12 DEF NothingTwice
    <2>9. Calm'
      BY <2>1, <1>2, <1>8, <1>9 DEF Calm, Exited
    <2> QED
      BY <2>8, <2>9
  <1> QED
    BY <1>15, <1>16, <1>17, <1>18, <1>19, <1>20, <1>21 DEF TraceInv

LEMMA InColsTyped ==
  ASSUME NEW S, NEW cols \in Seq(S)
  PROVE  InCols(cols) \subseteq S
  <1>1. \A i \in DOMAIN cols : cols[i] \in S
    OBVIOUS
  <1> QED
    BY <1>1 DEF InCols

LEMMA DoCommitPreserves ==
  ASSUME TraceInv, ~Exited, NEW w \in Writers, DoCommit(w)
  PROVE  TraceInv'
  <1> DEFINE me == writer[w]
             n == main.step - 1
  <1>1. /\ me \in WriterRecord(n) /\ WriterFits(me) /\ n \in Nat /\ me.pc = "docommit" /\ faults \in Nat
        /\ faults = 0 => HeldOnce(me) /\ (me.live \/ me.pc = "open")
    BY WriterKnown DEF DoCommit
  <1>2. version' = version /\ main' = main /\ queue' = queue /\ slow' = slow
    BY DEF DoCommit
  <1>3. CASE Succeeds(w, FALSE) /\ Raise(w, RaiseCommit(me)) /\ committed' = committed
    <2>1. RaisedFrom(me, RaiseCommit(me), n)
      BY <1>1, RaiseCommitLeaves
    <2>2. IF ~me.live THEN faults' = faults ELSE faults' = faults + 1
      BY <1>3 DEF Succeeds
    <2>3. faults' \in Nat /\ faults' >= faults /\ faults' > 0
      BY <2>2, <1>1
    <2> QED
      BY <2>1, <2>3, <1>1, <1>2, <1>3, RaisePreserves
  <1>4. CASE /\ Succeeds(w, TRUE) /\ NoRaise /\ committed' = Add(me.blocks)
             /\ Set(w, [me EXCEPT !.pc = "open", !.live = FALSE, !.blocks = IF version = 2 THEN <<>> ELSE @])
    <2>1. faults' = faults /\ errors' = errors /\ alarm' = alarm
      BY <1>4 DEF Succeeds, NoRaise
    <2>2. PICK b : b = IF version = 2 THEN <<>> ELSE me.blocks
      OBVIOUS
    <2>3. PICK r : r = [me EXCEPT !.pc = "open", !.live = FALSE, !.blocks = b] /\ writer' = [writer EXCEPT ![w] = r]
      BY <1>4, <2>2 DEF Set
    <2>4. TraceTypes
      BY DEF TraceInv
    <2>5. /\ Writers' = Writers /\ writer'[w] = r
          /\ \A v \in Writers : v # w => writer'[v] = writer[v]
          /\ \A v \in Writers : writer'[v] = writer[v] \/ v = w
      BY <2>3, <2>4, OtherWriters, Zenon
    <2>6. committed' = [k \in 1..Steps |-> committed[k] + Count(me.blocks, k)]
      BY <1>4 DEF Add
    <2>7. committed \in [1..Steps -> Nat] /\ Steps \in Nat /\ main.step \in 1..(Steps + 1)
      BY <2>4, TraceAssumption DEF TraceTypes
    <2> HIDE DEF me, n
    <2>8. b \in Seq(Seq(1..n)) /\ me.blocks \in Seq(Seq(1..n))
      BY <1>1, <2>2, EmptySeq DEF WriterRecord
    <2>9. r \in WriterRecord(n)
      BY <1>1, <2>3, <2>8 DEF WriterRecord, WriterPlaces
    <2>10. /\ r.pc = "open" /\ r.cols = me.cols /\ r.final = me.final /\ r.data = me.data /\ r.level = me.level
      BY <1>1, <2>3 DEF WriterRecord
    <2>11. WriterFits(r) /\ me.cols = <<>>
      BY <1>1, <2>10 DEF WriterFits
    <2>12. Held(r) = {} /\ HeldOnce(r) /\ Held(me) = InBlocks(me.blocks)
      BY <1>1, <2>10, <2>11, NothingInEmpty DEF Held, HeldOnce, InHand, InSession
    <2>13. \A k : /\ Count(me.blocks, k) \in Nat
                  /\ k \notin Held(me) => Count(me.blocks, k) = 0
                  /\ k \in Held(me) => Count(me.blocks, k) >= 1
                  /\ OnceInBlocks(me.blocks) => Count(me.blocks, k) <= 1
      BY <2>8, <2>12, CountFacts
    <2>14. \A k \in 1..Steps : committed'[k] = committed[k] + Count(me.blocks, k)
      BY <2>6
    <2>15. \A k \in 1..Steps : committed[k] \in Nat
      BY <2>7
    <2>16. committed' \in [1..Steps -> Nat]
      BY <2>6, <2>13, <2>15
    <2>17. writer' \in [Writers -> WriterRecord(n)]
      BY <1>1, <2>3, <2>4, <2>9, OtherWriters DEF n
    <2>18. TraceTypes'
      BY <1>2, <2>1, <2>4, <2>5, <2>16, <2>17 DEF TraceTypes, n
    <2>19. WritersFit'
      BY <2>5, <2>11, Zenon DEF TraceInv, WritersFit
    <2>20. MainFits' /\ AllTaken'
      BY <1>2, <2>1 DEF TraceInv, MainFits, AllTaken, Exited
    <2>21. QueueFits'
      <3>1. PICK d \in 0..Len(queue) :
              /\ QueueShape(queue, d, main.step - 1)
              /\ Len(queue) - d <= main.sent /\ (d > 0 => Len(queue) - d = main.sent)
              /\ ~alarm => Cardinality(Finals) = Len(errors) + main.sent - (Len(queue) - d)
        BY DEF TraceInv, QueueFits
      <3>2. Cardinality(Finals)' = Cardinality(Finals)
        BY <2>3, <2>4, <2>10, FinalsCounted, Zenon DEF me
      <3> QED
        BY <3>1, <3>2, <1>2, <2>1 DEF QueueFits
    <2>22. DeadEmpty'
      <3>1. ASSUME ~alarm', NEW v \in Writers, writer'[v].pc = "dead" PROVE writer'[v].final /\ Held(writer'[v]) = {}
        <4>1. v # w
          BY <3>1, <2>5, <2>10
        <4> QED
          BY <3>1, <4>1, <2>1, <2>5 DEF TraceInv, DeadEmpty
      <3> QED
        BY <3>1, <2>5 DEF DeadEmpty
    <2>23. InQueue' = InQueue
      BY <1>2 DEF InQueue
    <2>24. \A k : Committed(k)' <=> Committed(k) \/ (k \in 1..Steps /\ k \in Held(me))
      BY <2>13, <2>14, <2>15 DEF Committed
    <2>25. NothingLost'
      <3>1. ASSUME ~alarm', NEW k \in 1..(main.step - 1) PROVE Present(k)'
        <4>1. Present(k) /\ k \in 1..Steps
          BY <3>1, <2>1, <2>7 DEF TraceInv, NothingLost
        <4>2. CASE k \in InQueue
          BY <4>2, <2>23 DEF Present
        <4>3. CASE committed[k] >= 1
          BY <4>1, <4>3, <2>13, <2>14, <2>15 DEF Present
        <4>4. CASE \E v \in Writers : k \in Held(writer[v])
          <5>1. PICK v \in Writers : k \in Held(writer[v])
            BY <4>4
          <5>2. CASE v = w
            BY <4>1, <5>1, <5>2, <2>13, <2>14, <2>15 DEF Present, me
          <5>3. CASE v # w
            BY <5>1, <5>3, <2>5 DEF Present
          <5> QED
            BY <5>2, <5>3
        <4> QED
          BY <4>1, <4>2, <4>3, <4>4 DEF Present
      <3> QED
        BY <3>1, <1>2 DEF NothingLost
    <2>26. Untouched'
      <3> SUFFICES ASSUME NEW k \in main.step..Steps PROVE committed'[k] = 0
        BY <1>2 DEF Untouched
      <3>1. k \in 1..Steps /\ k \notin 1..n
        BY <2>7 DEF n
      <3>2. \A c \in Seq(1..n) : InCols(c) \subseteq 1..n
        BY InColsTyped
      <3>3. \A i \in DOMAIN me.blocks : me.blocks[i] \in Seq(1..n)
        BY <2>8
      <3>4. InBlocks(me.blocks) \subseteq 1..n
        BY <3>2, <3>3 DEF InBlocks
      <3>5. k \notin Held(me)
        BY <3>1, <3>4, <2>12
      <3>6. committed[k] = 0
        BY DEF TraceInv, Untouched
      <3> QED
        BY <3>1, <3>5, <3>6, <2>13, <2>14
    <2>27. ASSUME faults' = 0 PROVE NothingTwice' /\ Calm'
      <3>1. NothingTwice /\ Calm /\ OnceInBlocks(me.blocks)
        BY <1>1, <2>1, <2>27 DEF TraceInv, HeldOnce
      <3>2. \A v \in Writers : HeldOnce(writer'[v])
        BY <3>1, <2>5, <2>12 DEF NothingTwice
      <3>3. \A v \in Writers : v # w => Held(writer[v]) \cap Held(me) = {}
        BY <3>1 DEF NothingTwice, me
      <3>4. \A v \in Writers : \A k \in Held(writer'[v]) : v # w /\ k \in Held(writer[v])
        BY <2>5, <2>12
      <3>5. \A v \in Writers : \A k \in Held(writer'[v]) : k \notin InQueue' /\ ~Committed(k)'
        BY <3>1, <3>3, <3>4, <2>23, <2>24 DEF NothingTwice
      <3>6. \A u, v \in Writers : u # v => Held(writer'[u]) \cap Held(writer'[v]) = {}
        BY <3>1, <3>4 DEF NothingTwice
      <3>7. \A k \in InQueue' : ~Committed(k)'
        BY <3>1, <2>23, <2>24 DEF NothingTwice, me
      <3>8. \A k \in 1..Steps : committed'[k] <= 1
        <4> TAKE k \in 1..Steps
        <4>1. CASE k \in Held(me)
          <5>1. ~Committed(k)
            BY <3>1, <4>1 DEF NothingTwice, me
          <5>2. committed[k] = 0
            BY <5>1, <2>15 DEF Committed
          <5> QED
            BY <5>2, <3>1, <2>13, <2>14
        <4>2. CASE k \notin Held(me)
          BY <4>2, <3>1, <2>13, <2>14, <2>15 DEF NothingTwice
        <4> QED
          BY <4>1, <4>2
      <3>9. NothingTwice'
        BY <3>2, <3>5, <3>6, <3>7, <3>8, <2>5 DEF NothingTwice
      <3>10. Calm'
        BY <3>1, <1>2, <2>1, <2>5, <2>10 DEF Calm, Exited
      <3> QED
        BY <3>9, <3>10
    <2> QED
      BY <2>18, <2>19, <2>20, <2>21, <2>22, <2>25, <2>26, <2>27 DEF TraceInv
  <1> QED
    BY <1>3, <1>4, Zenon DEF DoCommit

LEMMA WriterStepPreserves ==
  ASSUME TraceInv, NEW w \in Writers, WriterStep(w)
  PROVE  TraceInv'
  BY GetPreserves, WritePreserves, CommitForcePreserves, FlushBufferPreserves, CommitPreserves, DoCommitPreserves,
     OpenWriteSessionPreserves DEF WriterStep, OwnStep, CallStep

-----------------------------------------------------------------------------
(* The trainer's steps.                                                    *)

MainType == [pc : {"step", "put", "end", "exited"}, step : 1..(Steps + 1), sent : Nat, closed : BOOLEAN]

\* What an alarm leaves: without failed calls the only cause of one is a deadline, and it ends the job.
LEMMA AlarmPreserves ==
  ASSUME TraceInv, alarm' = TRUE, main' \in MainType, main'.step = main.step, main'.sent = main.sent,
         main'.pc \in {"end", "exited"}, UNCHANGED <<version, queue, writer, committed, faults>>,
         errors' \in Seq(Writers), slow' \in Nat,
         faults = 0 => main'.pc = "exited" /\ slow' # 0 /\ errors' = errors
  PROVE  TraceInv'
  <1>1. Writers' = Writers /\ InQueue' = InQueue
    BY DEF Writers, InQueue
  <1>2. TraceTypes'
    BY <1>1 DEF TraceInv, TraceTypes, MainType
  <1>3. WritersFit' /\ MainFits' /\ DeadEmpty' /\ NothingLost' /\ Untouched' /\ AllTaken'
    BY <1>1 DEF TraceInv, WritersFit, MainFits, DeadEmpty, NothingLost, Untouched, AllTaken
  <1>4. QueueFits'
    BY DEF TraceInv, QueueFits
  <1>5. ASSUME faults' = 0 PROVE NothingTwice' /\ Calm'
    <2>1. NothingTwice /\ Calm /\ main'.pc = "exited" /\ slow' # 0 /\ errors' = errors
      BY <1>5 DEF TraceInv
    <2>2. \A k : Committed(k)' <=> Committed(k)
      BY DEF Committed
    <2>3. NothingTwice'
      BY <1>1, <2>1, <2>2 DEF NothingTwice
    <2>4. Calm'
      BY <1>1, <2>1 DEF Calm, Exited
    <2> QED
      BY <2>3, <2>4
  <1> QED
    BY <1>2, <1>3, <1>4, <1>5 DEF TraceInv

\* Without failed calls no more writers are dead than sentinels were sent.
LEMMA DeadAreExpected ==
  ASSUME TraceInv, ~Exited
  PROVE  /\ IsFiniteSet(Writers) /\ Cardinality(Writers) \in Nat /\ DeadCount \in Nat
         /\ Cardinality(Finals) \in Nat
         /\ faults = 0 => DeadCount <= main.sent
         /\ faults = 0 /\ main.sent = 0 => CheckAlive
  <1> DEFINE D == {w \in Writers : ~Alive(w)}
  <1>1. IsFiniteSet(Writers)
    BY TraceAssumption DEF TraceInv, TraceTypes
  <1>2. IsFiniteSet(D) /\ IsFiniteSet(Finals)
    BY <1>1, FS_Subset DEF Finals
  <1>3. Cardinality(Writers) \in Nat /\ Cardinality(D) \in Nat /\ Cardinality(Finals) \in Nat
    BY <1>1, <1>2, FS_CardinalityType
  <1>4. DeadCount = Cardinality(D)
    BY DEF DeadCount
  <1>5. ASSUME faults = 0 PROVE Cardinality(D) <= main.sent
    <2>1. ~alarm /\ errors = <<>>
      BY <1>5 DEF TraceInv, Calm
    <2>2. PICK d \in 0..Len(queue) :
            /\ QueueShape(queue, d, main.step - 1)
            /\ Cardinality(Finals) = Len(errors) + main.sent - (Len(queue) - d)
      BY <2>1 DEF TraceInv, QueueFits
    <2>3. Len(queue) \in Nat /\ Len(errors) = 0 /\ main.sent \in Nat
      BY <2>1, <2>2 DEF QueueShape, TraceInv, TraceTypes
    <2>4. D \subseteq Finals
      BY <2>1 DEF TraceInv, DeadEmpty, Alive, Finals
    <2>5. Cardinality(D) <= Cardinality(Finals)
      BY <2>4, <1>2, FS_Subset
    <2> QED
      BY <2>2, <2>3, <2>5, <1>3
  <1>6. ASSUME faults = 0, main.sent = 0 PROVE CheckAlive
    <2>1. Cardinality(D) = 0
      BY <1>3, <1>5, <1>6
    <2>2. D = {}
      BY <2>1, <1>2, FS_EmptySet
    <2> QED
      BY <2>2 DEF CheckAlive
  <1> QED
    BY <1>1, <1>3, <1>4, <1>5, <1>6

\* An exception that leaves the hook, when it has a reason.
LEMMA RaiseMainPreserves ==
  ASSUME TraceInv, RaiseMain, faults # 0, errors' \in Seq(Writers),
         UNCHANGED <<version, queue, writer, partition, committed, faults, slow>>
  PROVE  TraceInv'
  <1>1. main \in MainType /\ slow \in Nat
    BY DEF TraceInv, TraceTypes, MainType
  <1>2. PICK p \in {"end", "exited"} : main' = [main EXCEPT !.pc = p]
    BY DEF RaiseMain
  <1>3. main' \in MainType /\ main'.step = main.step /\ main'.sent = main.sent /\ main'.pc = p
    BY <1>1, <1>2 DEF MainType
  <1> QED
    BY <1>1, <1>3, AlarmPreserves DEF RaiseMain

LEMMA CheckErrorsPreserves ==
  ASSUME TraceInv, CheckErrors, UNCHANGED <<version, queue, writer, partition, committed, faults, slow>>
  PROVE  TraceInv'
  <1>1. errors # <<>> /\ errors' = Tail(errors) /\ RaiseMain
    BY DEF CheckErrors
  <1>2. errors \in Seq(Writers)
    BY DEF TraceInv, TraceTypes
  <1>3. errors' \in Seq(Writers)
    BY <1>1, <1>2
  <1>4. faults # 0
    BY <1>1 DEF TraceInv, Calm
  <1> QED
    BY <1>1, <1>3, <1>4, RaiseMainPreserves

LEMMA AfterStepPreserves ==
  ASSUME TraceInv, AfterStep
  PROVE  TraceInv'
  <1>1. main.pc = "step" /\ UNCHANGED <<version, queue, writer, partition, committed, faults, slow>>
    BY DEF AfterStep
  <1>2. CASE CheckErrors
    BY <1>1, <1>2, CheckErrorsPreserves
  <1>3. CASE UNCHANGED errors /\ ~CheckAlive /\ RaiseMain
    <2>1. main.sent = 0
      BY <1>1 DEF TraceInv, MainFits
    <2>2. faults # 0
      BY <1>1, <1>3, <2>1, DeadAreExpected DEF Exited
    <2> QED
      BY <1>1, <1>3, <2>2, RaiseMainPreserves DEF TraceInv, TraceTypes
  <1>4. CASE UNCHANGED <<errors, alarm>> /\ main' = [main EXCEPT !.pc = "put"]
    <2>1. main \in MainType
      BY DEF TraceInv, TraceTypes, MainType
    <2>2. main' \in MainType /\ main'.step = main.step /\ main'.sent = main.sent /\ main'.pc = "put"
      BY <1>4, <2>1 DEF MainType
    <2>3. Writers' = Writers /\ InQueue' = InQueue /\ Finals' = Finals
      BY <1>1 DEF Writers, InQueue, Finals
    <2>4. TraceTypes'
      BY <1>1, <1>4, <2>2, <2>3 DEF TraceInv, TraceTypes, MainType
    <2>5. WritersFit' /\ MainFits' /\ DeadEmpty' /\ Untouched' /\ AllTaken'
      BY <1>1, <1>4, <2>2, <2>3 DEF TraceInv, WritersFit, MainFits, DeadEmpty, Untouched, AllTaken, Exited
    <2>6. QueueFits'
      BY <1>1, <1>4, <2>2, <2>3 DEF TraceInv, QueueFits
    <2>7. NothingLost'
      BY <1>1, <1>4, <2>2, <2>3 DEF TraceInv, NothingLost, Present
    <2>8. faults' = 0 => NothingTwice' /\ Calm'
      <3> SUFFICES ASSUME faults' = 0 PROVE NothingTwice' /\ Calm'
        OBVIOUS
      <3>1. NothingTwice /\ Calm
        BY <1>1 DEF TraceInv
      <3>2. \A k : Committed(k)' <=> Committed(k)
        BY <1>1 DEF Committed
      <3>3. NothingTwice'
        BY <3>1, <3>2, <1>1, <2>3 DEF NothingTwice
      <3>4. Calm'
        BY <3>1, <1>1, <1>4, <2>3 DEF Calm, Exited
      <3> QED
        BY <3>3, <3>4
    <2> QED
      BY <2>4, <2>5, <2>6, <2>7, <2>8 DEF TraceInv
  <1> QED
    BY <1>2, <1>3, <1>4, Zenon DEF AfterStep

\* An entry at the end of the queue: a larger step, when there is no sentinel, or a sentinel.
LEMMA AppendShape ==
  ASSUME NEW n \in Nat, NEW q, NEW d, QueueShape(q, d, n)
  PROVE  /\ Len(q) \in Nat /\ Len(Append(q, n + 1)) = Len(q) + 1 /\ Len(Append(q, 0)) = Len(q) + 1
         /\ d = Len(q) => QueueShape(Append(q, n + 1), d + 1, n + 1)
         /\ QueueShape(Append(q, 0), d, n)
         /\ \A x : {Append(q, x)[i] : i \in 1..Len(Append(q, x))} = {q[i] : i \in 1..Len(q)} \cup {x}
  <1>1. q \in Seq(0..n) /\ Len(q) \in Nat /\ d \in 0..Len(q)
    BY DEF QueueShape
  <1>2. \A x : /\ Len(Append(q, x)) = Len(q) + 1 /\ Append(q, x)[Len(q) + 1] = x
               /\ \A i \in 1..Len(q) : Append(q, x)[i] = q[i]
    BY <1>1
  <1>3. \A i \in 1..(Len(q) + 1) : i \in 1..Len(q) \/ i = Len(q) + 1
    BY <1>1
  <1>4. ASSUME d = Len(q) PROVE QueueShape(Append(q, n + 1), d + 1, n + 1)
    <2>1. PICK t : t = Append(q, n + 1)
      OBVIOUS
    <2>2. Len(t) = Len(q) + 1 /\ t[Len(q) + 1] = n + 1 /\ \A i \in 1..Len(q) : t[i] = q[i]
      BY <2>1, <1>2
    <2>3. \A i \in 1..Len(q) : q[i] \in 1..n
      BY <1>1, <1>4 DEF QueueShape
    <2>4. t \in Seq(0..(n + 1))
      <3>1. q \in Seq(0..(n + 1))
        BY <1>1
      <3> QED
        BY <2>1, <3>1
    <2>5. \A i \in 1..Len(t) : t[i] = 0 <=> i > d + 1
      BY <2>2, <2>3, <1>1, <1>3, <1>4
    <2>6. \A i, j \in 1..(d + 1) : i < j => t[i] < t[j]
      <3> SUFFICES ASSUME NEW i \in 1..(d + 1), NEW j \in 1..(d + 1), i < j PROVE t[i] < t[j]
        OBVIOUS
      <3>1. i \in 1..Len(q) /\ t[i] = q[i] /\ q[i] \in 1..n
        BY <2>2, <2>3, <1>1, <1>4
      <3>2. CASE j = Len(q) + 1
        BY <3>1, <3>2, <2>2
      <3>3. CASE j \in 1..Len(q)
        BY <3>1, <3>3, <2>2, <1>4 DEF QueueShape
      <3> QED
        BY <3>2, <3>3, <1>3, <1>4
    <2> QED
      BY <2>1, <2>2, <2>4, <2>5, <2>6, <1>1 DEF QueueShape
  <1>5. QueueShape(Append(q, 0), d, n)
    <2>1. PICK t : t = Append(q, 0)
      OBVIOUS
    <2>2. Len(t) = Len(q) + 1 /\ t[Len(q) + 1] = 0 /\ \A i \in 1..Len(q) : t[i] = q[i]
      BY <2>1, <1>2
    <2>3. t \in Seq(0..n)
      BY <2>1, <1>1
    <2>4. \A i \in 1..Len(t) : t[i] = 0 <=> i > d
      BY <2>2, <1>1, <1>3 DEF QueueShape
    <2>5. \A i, j \in 1..d : i < j => t[i] < t[j]
      BY SMTT(45), <2>2, <1>1 DEF QueueShape
    <2> QED
      BY <2>1, <2>2, <2>3, <2>4, <2>5, <1>1 DEF QueueShape
  <1>6. \A x : {Append(q, x)[i] : i \in 1..Len(Append(q, x))} = {q[i] : i \in 1..Len(q)} \cup {x}
    <2> TAKE x
    <2>1. PICK t : t = Append(q, x)
      OBVIOUS
    <2>2. Len(t) = Len(q) + 1 /\ t[Len(q) + 1] = x /\ \A i \in 1..Len(q) : t[i] = q[i]
      BY <2>1, <1>2
    <2>3. \A i \in 1..Len(q) : i \in 1..(Len(q) + 1)
      BY <1>1
    <2>4. Len(q) + 1 \in 1..(Len(q) + 1)
      BY <1>1
    <2>5. {t[i] : i \in 1..Len(t)} = {q[i] : i \in 1..Len(q)} \cup {x}
      BY <2>2, <2>3, <2>4, <1>3
    <2> QED
      BY <2>1, <2>5
  <1> QED
    BY <1>1, <1>2, <1>4, <1>5, <1>6

\* A writer's record is one of a longer run.
LEMMA RecordGrows ==
  ASSUME NEW n \in Nat
  PROVE  WriterRecord(n) \subseteq WriterRecord(n + 1)
  <1>1. 0..n \subseteq 0..(n + 1) /\ 1..n \subseteq 1..(n + 1)
    OBVIOUS
  <1>2. \A S, T : S \subseteq T => Seq(S) \subseteq Seq(T)
    OBVIOUS
  <1>3. Seq(1..n) \subseteq Seq(1..(n + 1))
    BY <1>1, <1>2, Zenon
  <1>4. Seq(Seq(1..n)) \subseteq Seq(Seq(1..(n + 1)))
    BY <1>2, <1>3, Zenon
  <1>5. PICK A, B, C, D, E, F : /\ A = 0..n /\ B = 0..(n + 1) /\ C = Seq(1..n) /\ D = Seq(1..(n + 1))
                                /\ E = Seq(Seq(1..n)) /\ F = Seq(Seq(1..(n + 1)))
    OBVIOUS
  <1>6. A \subseteq B /\ C \subseteq D /\ E \subseteq F
    BY <1>1, <1>3, <1>4, <1>5
  <1>7. WriterRecord(n) = [pc : WriterPlaces, data : A, wtry : Nat, ctry : Nat, ftry : Nat, final : BOOLEAN,
                           level : {"outer", "nested"}, cols : C, blocks : E, live : BOOLEAN]
    BY <1>5 DEF WriterRecord
  <1>8. WriterRecord(n + 1) = [pc : WriterPlaces, data : B, wtry : Nat, ctry : Nat, ftry : Nat, final : BOOLEAN,
                               level : {"outer", "nested"}, cols : D, blocks : F, live : BOOLEAN]
    BY <1>5 DEF WriterRecord
  <1>9. ASSUME NEW r \in WriterRecord(n) PROVE r \in WriterRecord(n + 1)
    <2>1. r.data \in B /\ r.cols \in D /\ r.blocks \in F
      BY <1>6, <1>7
    <2>2. r = [pc |-> r.pc, data |-> r.data, wtry |-> r.wtry, ctry |-> r.ctry, ftry |-> r.ftry, final |-> r.final,
               level |-> r.level, cols |-> r.cols, blocks |-> r.blocks, live |-> r.live]
      BY <1>7
    <2>3. /\ r.pc \in WriterPlaces /\ r.wtry \in Nat /\ r.ctry \in Nat /\ r.ftry \in Nat /\ r.final \in BOOLEAN
          /\ r.level \in {"outer", "nested"} /\ r.live \in BOOLEAN
      BY <1>7
    <2> QED
      BY <2>1, <2>2, <2>3, <1>8
  <1> QED
    BY <1>9

\* What a writer has is among the steps traced.
LEMMA HeldTyped ==
  ASSUME NEW n \in Nat, NEW rec \in WriterRecord(n), WriterFits(rec)
  PROVE  Held(rec) \subseteq 1..n
  <1>1. rec.cols \in Seq(1..n) /\ rec.blocks \in Seq(Seq(1..n)) /\ rec.data \in 0..n
    BY DEF WriterRecord
  <1>2. InCols(rec.cols) \subseteq 1..n
    BY <1>1, InColsTyped
  <1>3. \A i \in DOMAIN rec.blocks : rec.blocks[i] \in Seq(1..n)
    BY <1>1
  <1>4. \A i \in DOMAIN rec.blocks : InCols(rec.blocks[i]) \subseteq 1..n
    BY <1>3, InColsTyped
  <1>5. InBlocks(rec.blocks) \subseteq 1..n
    BY <1>4 DEF InBlocks
  <1>6. rec.pc = "append" => rec.data \in 1..n
    BY <1>1 DEF WriterFits
  <1> QED
    BY <1>2, <1>5, <1>6 DEF Held, InHand, InSession

LEMMA EnqueuePreserves ==
  ASSUME TraceInv, main.pc = "put", Enqueue, UNCHANGED <<version, writer, partition, committed, faults, slow>>
  PROVE  TraceInv'
  <1> DEFINE n == main.step - 1
  <1>1. main \in MainType /\ Steps \in Nat \ {0} /\ main.step <= Steps /\ main.sent = 0 /\ main.step \in Nat /\ main.step >= 1
    BY TraceAssumption DEF TraceInv, TraceTypes, MainType, MainFits
  <1>2. queue' = Append(queue, main.step) /\ errors' = errors /\ alarm' = alarm
    BY DEF Enqueue
  <1>3. PICK s, p : /\ s = main.step + 1 /\ p = (IF main.step = Steps THEN "end" ELSE "step")
                    /\ main' = [main EXCEPT !.step = s, !.pc = p]
    BY DEF Enqueue
  <1>4. s \in 1..(Steps + 1) /\ p \in {"end", "step"} /\ (p = "end" => s = Steps + 1) /\ (p = "step" => s <= Steps)
    BY <1>1, <1>3
  <1>5. main' \in MainType /\ main'.step = s /\ main'.sent = main.sent /\ main'.pc = p
    BY <1>1, <1>3, <1>4 DEF MainType
  <1>6. Writers' = Writers /\ Finals' = Finals
    BY DEF Writers, Finals
  <1>7. n \in Nat /\ n + 1 = main.step /\ s - 1 = n + 1
    BY <1>1, <1>3
  <1>8. PICK d \in 0..Len(queue) :
          /\ QueueShape(queue, d, n)
          /\ Len(queue) - d <= main.sent /\ (d > 0 => Len(queue) - d = main.sent)
          /\ ~alarm => Cardinality(Finals) = Len(errors) + main.sent - (Len(queue) - d)
    BY DEF TraceInv, QueueFits
  <1> HIDE DEF n
  <1>9. Len(queue) \in Nat /\ d = Len(queue)
    BY <1>1, <1>8 DEF QueueShape
  <1>10. /\ Len(queue') = Len(queue) + 1
         /\ QueueShape(queue', d + 1, n + 1)
         /\ {queue'[i] : i \in 1..Len(queue')} = {queue[i] : i \in 1..Len(queue)} \cup {main.step}
    BY <1>2, <1>7, <1>8, <1>9, AppendShape
  <1>11. QueueFits'
    <2>1. d + 1 \in 0..Len(queue') /\ Len(queue') - (d + 1) = 0 /\ Len(queue) - d = 0
      BY <1>9, <1>10
    <2>2. QueueShape(queue', d + 1, main'.step - 1)
      BY <1>5, <1>7, <1>10
    <2>3. ~alarm' => Cardinality(Finals)' = Len(errors)' + main'.sent - (Len(queue') - (d + 1))
      BY <1>2, <1>5, <1>6, <1>8, <2>1
    <2> QED
      BY <2>1, <2>2, <2>3, <1>1, <1>5 DEF QueueFits
  <1>12. writer \in [Writers -> WriterRecord(n)]
    BY DEF TraceInv, TraceTypes, n
  <1>13. writer \in [Writers -> WriterRecord(n + 1)]
    BY <1>7, <1>12, RecordGrows
  <1>14. TraceTypes'
    <2>1. writer' \in [Writers' -> WriterRecord(main'.step - 1)]
      BY <1>5, <1>6, <1>7, <1>13
    <2>2. errors' \in Seq(Writers') /\ Writers' \in Teams
      BY <1>2, <1>6 DEF TraceInv, TraceTypes
    <2> QED
      BY <2>1, <2>2, <1>2, <1>5 DEF TraceInv, TraceTypes, MainType
  <1>15. WritersFit' /\ DeadEmpty' /\ AllTaken'
    BY <1>2, <1>4, <1>5, <1>6, <1>1 DEF TraceInv, WritersFit, DeadEmpty, AllTaken, Exited
  <1>16. MainFits'
    BY <1>1, <1>4, <1>5 DEF MainFits
  <1>17. Untouched'
    <2>1. \A k \in s..Steps : k \in main.step..Steps
      BY <1>1, <1>3
    <2> QED
      BY <2>1, <1>5 DEF TraceInv, Untouched
  <1>18. InQueue' = InQueue \cup {main.step}
    <2>1. PICK old, new : old = {queue[i] : i \in 1..Len(queue)} /\ new = {queue'[i] : i \in 1..Len(queue')}
      OBVIOUS
    <2>2. InQueue = old \ {0} /\ InQueue' = new \ {0}
      BY <2>1 DEF InQueue
    <2>3. new = old \cup {main.step}
      BY <1>10, <2>1, Zenon
    <2>4. main.step # 0
      BY <1>1
    <2> QED
      BY <2>2, <2>3, <2>4
  <1>19. NothingLost'
    <2>1. ASSUME ~alarm', NEW k \in 1..(main'.step - 1) PROVE Present(k)'
      <3>1. k \in 1..n \/ k = main.step
        BY <1>1, <1>5, <1>7
      <3>2. CASE k = main.step
        BY <3>2, <1>18 DEF Present
      <3>3. CASE k \in 1..n
        <4>1. Present(k)
          BY <2>1, <3>3, <1>2 DEF TraceInv, NothingLost, n
        <4> QED
          BY <4>1, <1>6, <1>18 DEF Present
      <3> QED
        BY <3>1, <3>2, <3>3
    <2> QED
      BY <2>1 DEF NothingLost
  <1>20. ASSUME faults' = 0 PROVE NothingTwice' /\ Calm'
    <2>1. NothingTwice /\ Calm
      BY <1>20 DEF TraceInv
    <2>2. \A k : Committed(k)' <=> Committed(k)
      BY DEF Committed
    <2>3. \A w \in Writers : main.step \notin Held(writer[w])
      <3> TAKE w \in Writers
      <3>1. Held(writer[w]) \subseteq 1..n
        BY <1>7, <1>12, HeldTyped DEF TraceInv, WritersFit
      <3>2. main.step \notin 1..n
        BY <1>7
      <3> QED
        BY <3>1, <3>2
    <2>4. ~Committed(main.step)
      BY <1>1 DEF TraceInv, Untouched, Committed
    <2>5. \A w \in Writers : \A k \in Held(writer'[w]) : k \notin InQueue' /\ ~Committed(k)'
      BY <2>1, <2>2, <2>3, <1>18 DEF NothingTwice
    <2>6. \A k \in InQueue' : ~Committed(k)'
      BY <2>1, <2>2, <2>4, <1>18 DEF NothingTwice
    <2>7. NothingTwice'
      BY <2>1, <2>5, <2>6, <1>6 DEF NothingTwice
    <2>8. Calm'
      BY <2>1, <1>1, <1>2, <1>5, <1>6 DEF Calm, Exited
    <2> QED
      BY <2>7, <2>8
  <1> QED
    BY <1>11, <1>14, <1>15, <1>16, <1>17, <1>19, <1>20 DEF TraceInv

LEMMA PutPreserves ==
  ASSUME TraceInv, Put
  PROVE  TraceInv'
  <1>1. main.pc = "put" /\ UNCHANGED <<version, writer, partition, committed, faults, slow>>
    BY DEF Put
  <1>2. CASE Enqueue
    BY <1>1, <1>2, EnqueuePreserves
  <1>3. CASE CheckErrors /\ UNCHANGED queue
    BY <1>1, <1>3, CheckErrorsPreserves
  <1>4. CASE ~CheckAlive /\ RaiseMain /\ UNCHANGED <<queue, errors>>
    <2>1. main.sent = 0
      BY <1>1 DEF TraceInv, MainFits
    <2>2. faults # 0
      BY <1>1, <1>4, <2>1, DeadAreExpected DEF Exited
    <2> QED
      BY <1>1, <1>4, <2>2, RaiseMainPreserves DEF TraceInv, TraceTypes
  <1> QED
    BY <1>2, <1>3, <1>4, Zenon DEF Put

\* An exception out of end(), when a call failed or a deadline passed.
LEMMA RaiseEndPreserves ==
  ASSUME TraceInv, RaiseEnd, UNCHANGED <<version, queue, errors, writer, committed, faults>>, slow' \in Nat,
         faults = 0 => slow' # 0
  PROVE  TraceInv'
  <1>1. main \in MainType /\ errors \in Seq(Writers)
    BY DEF TraceInv, TraceTypes, MainType
  <1>2. main' \in MainType /\ main'.step = main.step /\ main'.sent = main.sent /\ main'.pc = "exited" /\ alarm' = TRUE
    BY <1>1 DEF RaiseEnd, MainType
  <1> QED
    BY <1>1, <1>2, AlarmPreserves

LEMMA EndPreserves ==
  ASSUME TraceInv, End
  PROVE  TraceInv'
  <1>1. main.pc = "end" /\ UNCHANGED <<version, errors, writer, partition, committed, faults, slow>>
    BY DEF End
  <1>2. CASE DeadCount > main.sent /\ RaiseEnd /\ UNCHANGED queue
    <2>1. main.sent \in Nat /\ slow \in Nat
      BY DEF TraceInv, TraceTypes
    <2>2. faults # 0
      BY <1>1, <1>2, <2>1, DeadAreExpected DEF Exited
    <2> QED
      BY <1>1, <1>2, <2>1, <2>2, RaiseEndPreserves
  <1>3. CASE queue' = Append(queue, Sentinel) /\ main' = [main EXCEPT !.sent = @ + 1, !.closed = TRUE] /\ alarm' = alarm
    <2>1. main \in MainType /\ main.sent \in Nat /\ main.step - 1 \in Nat
      BY TraceAssumption DEF TraceInv, TraceTypes, MainType
    <2>2. PICK s \in Nat : s = main.sent + 1
      BY <2>1
    <2>3. main' = [main EXCEPT !.sent = s, !.closed = TRUE]
      BY <1>3, <2>2
    <2>4. main' \in MainType /\ main'.step = main.step /\ main'.sent = s /\ main'.pc = "end"
      BY <1>1, <2>1, <2>3 DEF MainType
    <2>5. Writers' = Writers /\ Finals' = Finals
      BY <1>1 DEF Writers, Finals
    <2>6. PICK d \in 0..Len(queue) :
            /\ QueueShape(queue, d, main.step - 1)
            /\ Len(queue) - d <= main.sent /\ (d > 0 => Len(queue) - d = main.sent)
            /\ ~alarm => Cardinality(Finals) = Len(errors) + main.sent - (Len(queue) - d)
      BY DEF TraceInv, QueueFits
    <2>7. /\ Len(queue) \in Nat /\ Len(queue') = Len(queue) + 1
          /\ QueueShape(queue', d, main.step - 1)
          /\ {queue'[i] : i \in 1..Len(queue')} = {queue[i] : i \in 1..Len(queue)} \cup {0}
      BY <1>3, <2>1, <2>6, AppendShape DEF Sentinel
    <2>8. QueueFits'
      <3>1. Len(errors) \in Nat
        BY DEF TraceInv, TraceTypes
      <3>2. ~alarm' => Cardinality(Finals)' = Len(errors)' + main'.sent - (Len(queue') - d)
        BY SMTT(45), <1>1, <1>3, <2>1, <2>2, <2>4, <2>5, <2>6, <2>7, <3>1
      <3>3. d \in 0..Len(queue') /\ Len(queue') - d <= main'.sent /\ (d > 0 => Len(queue') - d = main'.sent)
        BY <2>1, <2>2, <2>4, <2>6, <2>7
      <3> QED
        BY <3>2, <3>3, <2>4, <2>7 DEF QueueFits
    <2>9. TraceTypes'
      BY <1>1, <1>3, <2>4, <2>5 DEF TraceInv, TraceTypes, MainType
    <2>10. WritersFit' /\ MainFits' /\ DeadEmpty' /\ Untouched' /\ AllTaken'
      BY <1>1, <1>3, <2>4, <2>5 DEF TraceInv, WritersFit, MainFits, DeadEmpty, Untouched, AllTaken, Exited
    <2>11. InQueue' = InQueue
      BY <2>7 DEF InQueue
    <2>12. NothingLost'
      BY <1>1, <1>3, <2>4, <2>5, <2>11 DEF TraceInv, NothingLost, Present
    <2>13. ASSUME faults' = 0 PROVE NothingTwice' /\ Calm'
      <3>1. NothingTwice /\ Calm
        BY <1>1, <2>13 DEF TraceInv
      <3>2. \A k : Committed(k)' <=> Committed(k)
        BY <1>1 DEF Committed
      <3>3. NothingTwice'
        BY <3>1, <3>2, <1>1, <2>5, <2>11 DEF NothingTwice
      <3>4. Calm'
        BY <3>1, <1>1, <1>3, <2>5 DEF Calm, Exited
      <3> QED
        BY <3>3, <3>4
    <2> QED
      BY <2>8, <2>9, <2>10, <2>12, <2>13 DEF TraceInv
  <1> QED
    BY <1>2, <1>3, Zenon DEF End

LEMMA EndDeadlinePreserves ==
  ASSUME TraceInv, EndDeadline
  PROVE  TraceInv'
  <1>1. slow \in Nat
    BY DEF TraceInv, TraceTypes
  <1>2. slow' \in Nat /\ slow' # 0
    BY <1>1 DEF EndDeadline
  <1> QED
    BY <1>2, RaiseEndPreserves DEF EndDeadline

LEMMA JoinWritersPreserves ==
  ASSUME TraceInv, JoinWriters
  PROVE  TraceInv'
  <1>1. /\ main.pc = "end" /\ main.sent = Cardinality(Writers) /\ main' = [main EXCEPT !.pc = "exited"]
        /\ UNCHANGED <<version, queue, errors, writer, partition, committed, faults>>
    BY DEF JoinWriters
  <1>2. main \in MainType /\ slow \in Nat /\ errors \in Seq(Writers) /\ alarm \in BOOLEAN /\ main.step - 1 \in Nat
    BY TraceAssumption DEF TraceInv, TraceTypes, MainType
  <1>3. main' \in MainType /\ main'.step = main.step /\ main'.sent = main.sent /\ main'.pc = "exited"
    BY <1>1, <1>2 DEF MainType
  <1>4. /\ IsFiniteSet(Writers) /\ Cardinality(Writers) \in Nat /\ DeadCount \in Nat
        /\ Cardinality(Finals) \in Nat
    BY <1>1, DeadAreExpected DEF Exited
  <1>5. CASE alarm \/ DeadCount < Cardinality(Writers) \/ errors # <<>>
    <2>1. alarm' = TRUE
      BY <1>5 DEF JoinWriters
    <2>2. slow' \in Nat
      BY <1>2 DEF JoinWriters
    <2>3. ASSUME faults = 0 PROVE slow' # 0
      <3>1. ~alarm /\ errors = <<>>
        BY <2>3, <1>1 DEF TraceInv, Calm, Exited
      <3>2. DeadCount < Cardinality(Writers)
        BY <3>1, <1>5
      <3>3. slow' = slow + 1
        BY <3>2, <1>4 DEF JoinWriters
      <3> QED
        BY <3>3, <1>2
    <2> QED
      BY <1>1, <1>2, <1>3, <2>1, <2>2, <2>3, AlarmPreserves
  <1>6. CASE ~(alarm \/ DeadCount < Cardinality(Writers) \/ errors # <<>>)
    <2>1. ~alarm /\ ~(DeadCount < Cardinality(Writers)) /\ errors = <<>> /\ alarm' = FALSE
      BY <1>6 DEF JoinWriters
    <2>2. DeadCount = Cardinality(Writers) /\ slow' = slow
      BY <2>1, <1>4 DEF JoinWriters
    <2>3. \A w \in Writers : writer[w].pc = "dead"
      <3> DEFINE D == {w \in Writers : ~Alive(w)}
      <3>1. Cardinality(D) = Cardinality(Writers) /\ D \subseteq Writers
        BY <2>2 DEF DeadCount
      <3>2. D = Writers
        BY <3>1, <1>4, FS_Subset
      <3> QED
        BY <3>2 DEF Alive
    <2>4. Finals = Writers
      BY <2>1, <2>3 DEF TraceInv, DeadEmpty, Finals
    <2>5. queue = <<>>
      <3>1. PICK d \in 0..Len(queue) :
              /\ QueueShape(queue, d, main.step - 1)
              /\ (d > 0 => Len(queue) - d = main.sent)
              /\ Cardinality(Finals) = Len(errors) + main.sent - (Len(queue) - d)
        BY <2>1 DEF TraceInv, QueueFits
      <3>2. Len(errors) = 0 /\ queue \in Seq(0..(main.step - 1)) /\ Len(queue) \in Nat
        BY <2>1, <3>1 DEF QueueShape
      <3>3. Cardinality(Writers) > 0
        <4>1. Writers # {}
          BY TraceAssumption DEF TraceInv, TraceTypes
        <4> QED
          BY <4>1, <1>4, FS_EmptySet
      <3>4. Len(queue) = d /\ d = 0
        BY <3>1, <3>2, <3>3, <2>4, <1>1, <1>4
      <3> QED
        BY <3>2, <3>4
    <2>6. Writers' = Writers /\ InQueue' = InQueue /\ Finals' = Finals
      BY <1>1 DEF Writers, InQueue, Finals
    <2>7. TraceTypes'
      BY <1>1, <1>3, <2>1, <2>2, <2>6 DEF TraceInv, TraceTypes, MainType
    <2>8. WritersFit' /\ MainFits' /\ DeadEmpty' /\ Untouched'
      BY <1>1, <1>3, <2>1, <2>6 DEF TraceInv, WritersFit, MainFits, DeadEmpty, Untouched
    <2>9. AllTaken'
      BY <1>1, <2>3, <2>5, <2>6 DEF AllTaken
    <2>10. QueueFits'
      BY <1>1, <1>3, <2>1, <2>6 DEF TraceInv, QueueFits
    <2>11. NothingLost'
      BY <1>1, <1>3, <2>1, <2>6 DEF TraceInv, NothingLost, Present
    <2>12. ASSUME faults' = 0 PROVE NothingTwice' /\ Calm'
      <3>1. NothingTwice /\ Calm
        BY <1>1, <2>12 DEF TraceInv
      <3>2. \A k : Committed(k)' <=> Committed(k)
        BY <1>1 DEF Committed
      <3>3. NothingTwice'
        BY <3>1, <3>2, <1>1, <2>6 DEF NothingTwice
      <3>4. Calm'
        BY <3>1, <1>1, <2>1, <2>2, <2>6 DEF Calm
      <3> QED
        BY <3>3, <3>4
    <2> QED
      BY <2>7, <2>8, <2>9, <2>10, <2>11, <2>12 DEF TraceInv
  <1> QED
    BY <1>5, <1>6

LEMMA TraceStepPreserves == TraceInv /\ [TraceNext]_traceVars => TraceInv'
  <1> SUFFICES ASSUME TraceInv, [TraceNext]_traceVars PROVE TraceInv'
    OBVIOUS
  <1>1. CASE MainStep
    BY <1>1, AfterStepPreserves, PutPreserves, EndPreserves, EndDeadlinePreserves, JoinWritersPreserves DEF MainStep
  <1>2. CASE \E w \in Writers : WriterStep(w)
    BY <1>2, WriterStepPreserves
  <1>3. CASE UNCHANGED traceVars
    <2>1. /\ UNCHANGED <<version, main, queue, errors, writer, committed, faults, slow, alarm>>
      BY <1>3 DEF traceVars
    <2>2. Writers' = Writers /\ InQueue' = InQueue /\ Finals' = Finals /\ (Exited' <=> Exited)
      BY <2>1 DEF Writers, InQueue, Finals, Exited
    <2>3. \A k : (Committed(k)' <=> Committed(k)) /\ (Present(k)' <=> Present(k))
      BY <2>1, <2>2 DEF Committed, Present
    <2>4. TraceTypes' /\ WritersFit' /\ MainFits' /\ DeadEmpty' /\ Untouched' /\ AllTaken'
      BY <2>1, <2>2 DEF TraceInv, TraceTypes, WritersFit, MainFits, DeadEmpty, Untouched, AllTaken
    <2>5. QueueFits'
      BY <2>1, <2>2 DEF TraceInv, QueueFits
    <2>6. NothingLost'
      BY <2>1, <2>3 DEF TraceInv, NothingLost
    <2>7. faults' = 0 => NothingTwice' /\ Calm'
      <3> SUFFICES ASSUME faults' = 0 PROVE NothingTwice' /\ Calm'
        OBVIOUS
      <3>1. NothingTwice /\ Calm
        BY <2>1 DEF TraceInv
      <3>2. NothingTwice'
        BY <3>1, <2>1, <2>2, <2>3 DEF NothingTwice
      <3>3. Calm'
        BY <3>1, <2>1, <2>2 DEF Calm
      <3> QED
        BY <3>2, <3>3
    <2> QED
      BY <2>4, <2>5, <2>6, <2>7 DEF TraceInv
  <1> QED
    BY <1>1, <1>2, <1>3 DEF TraceNext

\* For any number of writers, steps, retries, failed calls and deadlines, in both versions: a job
\* that ended without an alarm has the data of every step in the table; without failed calls it
\* has it at most once, and there is no alarm unless a deadline passed.
THEOREM TracesAccountedFor == TraceSpec => []TraceAccounted
  <1>1. TraceInit => TraceInv
    BY TraceInitEstablishes
  <1>2. TraceInv /\ [TraceNext]_traceVars => TraceInv'
    BY TraceStepPreserves
  <1>3. TraceInv => TraceAccounted
    BY TraceInvImplies
  <1> QED
    BY <1>1, <1>2, <1>3, PTL DEF TraceSpec

-----------------------------------------------------------------------------
(* What the collectors report.                                             *)

AllRanks == LogRanks \cup SockRanks
Line == [rank : AllRanks, snap : Nat \ {0}, no : Nat, kind : {"group", "event", "bad"}]
Piece == [line : Line, half : {1, 2}]
LogFile == [text : Seq(Piece), shown : Nat]
LogTail == [file : Nat, pos : Nat, part : Seq(Piece), tags : Nat, eof : BOOLEAN, ok : BOOLEAN]

\* Events under the tags of their own group.
SoundEvent == {e \in [rank : AllRanks, snap : Nat \ {0}, no : Nat, tags : Nat] : e.tags = e.snap}
SoundReport == {e \in [by : Pids, rank : AllRanks, snap : Nat \ {0}, no : Nat, tags : Nat] : e.tags = e.snap}

\* What a collector holds, besides its place, its times and its list.
Work == [tails : [LogRanks -> LogTail], bodies : Seq(Seq(Line)), events : Seq(SoundEvent)]

ReportType ==
  /\ job \in Jobs
  /\ written \in [AllRanks -> Nat] /\ \A r \in AllRanks : written[r] <= Len(job.snaps[r])
  /\ logs \in [LogRanks -> Seq(LogFile)]
  /\ reported \in Seq(SoundReport)
  /\ \A p \in Pids : [tails |-> proc[p].tails, bodies |-> proc[p].bodies, events |-> proc[p].events] \in Work

Earlier(a, b) == a.snap < b.snap \/ (a.snap = b.snap /\ a.no < b.no)

\* The i-th line of a log.
LineAt(text, i) == text[2 * i].line

\* A log is whole lines of one rank in order, in groups that start with a header.
TextFits(r, text, w) ==
  /\ \E m \in 0..Len(text) : Len(text) = 2 * m
  /\ \A i \in 1..Len(text) : 2 * i <= Len(text) =>
       /\ text[2 * i - 1] = [line |-> LineAt(text, i), half |-> 1]
       /\ text[2 * i] = [line |-> LineAt(text, i), half |-> 2]
       /\ LineAt(text, i).rank = r /\ LineAt(text, i).snap <= w
       /\ LineAt(text, i).no = 0 => LineAt(text, i).kind = "group"
       /\ LineAt(text, i).no # 0 => i > 1 /\ LineAt(text, i - 1).snap = LineAt(text, i).snap
       /\ \A j \in 1..Len(text) : i < j /\ 2 * j <= Len(text) => Earlier(LineAt(text, i), LineAt(text, j))

FilesFit(r, files, w) ==
  /\ \A n \in 1..Len(files) : TextFits(r, files[n].text, w) /\ files[n].shown <= Len(files[n].text)
  /\ \A m, n \in 1..Len(files) : m < n =>
       \A i \in 1..Len(files[m].text), j \in 1..Len(files[n].text) :
         2 * i <= Len(files[m].text) /\ 2 * j <= Len(files[n].text) =>
           Earlier(LineAt(files[m].text, i), LineAt(files[n].text, j))

\* A parser stands behind its k-th line, or has the first half of the next one in hand; the
\* tags are those of the line it has read last.
Stands(tail, text, k) ==
  /\ \/ tail.pos = 2 * k /\ tail.part = <<>>
     \/ tail.pos = 2 * k + 1 /\ tail.part = <<text[2 * k + 1]>>
  /\ tail.ok /\ k > 0 => tail.tags = LineAt(text, k).snap
TailFits(tail, files) ==
  /\ tail.file = 0 => tail.eof
  /\ tail.file > 0 =>
       /\ tail.file <= Len(files) /\ tail.pos <= Len(files[tail.file].text)
       /\ \E k \in 0..Len(files[tail.file].text) : Stands(tail, files[tail.file].text, k)

\* An event is earlier than every line that is still to be read.
BeforeRest(e, tail, files) ==
  \A n \in 1..Len(files) : \A i \in 1..Len(files[n].text) :
    2 * i <= Len(files[n].text) /\ (n > tail.file \/ (n = tail.file /\ 2 * i > tail.pos)) =>
      Earlier(e, LineAt(files[n].text, i))

\* A body is a snapshot that was written.
IsBody(body, w) == \E r \in SockRanks : \E k \in 1..w[r] : body = Lines(r, k)

\* The events of p, reported or not.
Past(p, events, rep) == {events[i] : i \in DOMAIN events} \cup {rep[i] : i \in {j \in DOMAIN rep : rep[j].by = p}}

InOrder(events) == \A i, j \in DOMAIN events : i < j /\ events[i].rank = events[j].rank => Earlier(events[i], events[j])
ReportsBefore(p, events, rep) ==
  \A i \in DOMAIN rep, j \in DOMAIN events : rep[i].by = p /\ rep[i].rank = events[j].rank => Earlier(rep[i], events[j])

PastFits(p, x, lg, w, rep) ==
  \A e \in Past(p, x.events, rep) :
    /\ e.snap <= w[e.rank]
    /\ \A r \in LogRanks : e.rank = r => BeforeRest(e, x.tails[r], lg[r])
    /\ \A i \in DOMAIN x.bodies : x.bodies[i][1].rank = e.rank => e.snap < x.bodies[i][1].snap
BodiesFit(bodies, w) ==
  /\ \A i \in DOMAIN bodies : IsBody(bodies[i], w)
  /\ \A i, j \in DOMAIN bodies : i < j /\ bodies[i][1].rank = bodies[j][1].rank => bodies[i][1].snap < bodies[j][1].snap

Fresh(x) == x.tails = [r \in LogRanks |-> NewTail] /\ x.bodies = <<>> /\ x.events = <<>>

\* What a collector that runs has read, holds and has reported.
RunFits(p, x, lg, w, rep) ==
  /\ InOrder(x.events) /\ ReportsBefore(p, x.events, rep)
  /\ \A r \in LogRanks : TailFits(x.tails[r], lg[r])
  /\ BodiesFit(x.bodies, w)
  /\ PastFits(p, x, lg, w, rep)

ReportsInOrder == \A i, j \in DOMAIN reported :
  i < j /\ reported[i].by = reported[j].by /\ reported[i].rank = reported[j].rank => Earlier(reported[i], reported[j])

ReportInv ==
  /\ ReportType
  /\ \A r \in LogRanks : FilesFit(r, logs[r], written[r])
  /\ \A p \in Pids :
       /\ proc[p].pc # "run" => Fresh(proc[p])
       /\ proc[p].pc \in {"none", "launch", "scan"} => \A i \in DOMAIN reported : reported[i].by # p
       /\ proc[p].pc = "run" => RunFits(p, proc[p], logs, written, reported)
  /\ ReportsInOrder

-----------------------------------------------------------------------------
(* What is left of a sequence.                                             *)

CountTo(S, i) == Cardinality({j \in S : j <= i})

\* Numbers below a place, and those up to it.
LEMMA CountFinite ==
  ASSUME NEW N \in Nat, NEW S, S \subseteq 1 .. N, NEW i \in Int
  PROVE  IsFiniteSet({j \in S : j <= i}) /\ CountTo(S, i) \in Nat /\ CountTo(S, i) <= Cardinality(S)
         /\ IsFiniteSet(S) /\ Cardinality(S) \in Nat
  <1>1. IsFiniteSet(1 .. N)
    BY FS_Interval
  <1>2. IsFiniteSet(S)
    <2>1. S \in SUBSET (1 .. N)
      OBVIOUS
    <2> QED
      BY <1>1, <2>1, FS_Subset, Zenon
  <1>3. {j \in S : j <= i} \in SUBSET S
    OBVIOUS
  <1>4. IsFiniteSet({j \in S : j <= i}) /\ Cardinality({j \in S : j <= i}) <= Cardinality(S)
    BY <1>2, <1>3, FS_Subset, Zenon
  <1>5. Cardinality({j \in S : j <= i}) \in Nat /\ Cardinality(S) \in Nat
    BY <1>2, <1>4, FS_CardinalityType
  <1> QED
    BY <1>2, <1>4, <1>5 DEF CountTo

\* Each number of the set counts for one, every other number for none.
LEMMA CountNext ==
  ASSUME NEW N \in Nat, NEW S, S \subseteq 1 .. N, NEW i \in Int
  PROVE  CountTo(S, i) = IF i \in S THEN CountTo(S, i - 1) + 1 ELSE CountTo(S, i - 1)
  <1> DEFINE A == {j \in S : j <= i}
             B == {j \in S : j <= i - 1}
  <1>0. \A j \in S : j \in Int
    OBVIOUS
  <1>a. \A j \in S : j <= i <=> j <= i - 1 \/ j = i
    BY <1>0
  <1>1. A = IF i \in S THEN B \cup {i} ELSE B
    BY <1>a, Zenon
  <1>2. i \notin B
    OBVIOUS
  <1>3. IsFiniteSet(B)
    <2>1. i - 1 \in Int
      OBVIOUS
    <2> QED
      BY <2>1, CountFinite, Zenon
  <1> HIDE DEF A, B
  <1>4. Cardinality(B \cup {i}) = Cardinality(B) + 1
    BY <1>2, <1>3, FS_AddElement
  <1>5. Cardinality(A) = IF i \in S THEN Cardinality(B) + 1 ELSE Cardinality(B)
    BY <1>1, <1>4
  <1> QED
    BY <1>5 DEF CountTo, A, B

\* Every place up to the number of elements is somebody's.
LEMMA PlaceExists ==
  ASSUME NEW N \in Nat, NEW S, S \subseteq 1 .. N, NEW n \in 1 .. Cardinality(S)
  PROVE  \E i \in S : CountTo(S, i) = n
  <1>0. \A j \in S : j \in Nat /\ j >= 1 /\ j <= N
    OBVIOUS
  <1>1. \A i \in Int : CountTo(S, i) \in Nat
    BY CountFinite, Zenon
  <1>a. Cardinality(S) \in Nat
    <2>1. 0 \in Int
      OBVIOUS
    <2> QED
      BY <2>1, CountFinite, Zenon
  <1> DEFINE T == {i \in 0 .. N : CountTo(S, i) >= n}
             t == Min(T)
  <1>2. N \in T
    <2>1. {j \in S : j <= N} = S
      BY <1>0
    <2>2. CountTo(S, N) = Cardinality(S)
      BY <2>1 DEF CountTo
    <2> QED
      BY <2>2, <1>a
  <1>3. t \in T /\ \A m \in T : t <= m
    <2>1. T \subseteq Nat /\ T # {}
      BY <1>2
    <2> HIDE DEF T
    <2> QED
      BY <2>1, LeastNatural
  <1>4. t # 0
    <2>0. \A j \in S : ~(j <= 0)
      BY <1>0
    <2>1. {j \in S : j <= 0} = {}
      BY <2>0, Zenon
    <2>2. CountTo(S, 0) = 0
      BY <2>1, FS_EmptySet DEF CountTo
    <2> HIDE DEF t
    <2> QED
      BY <1>3, <2>2
  <1>5. t \in 1 .. N /\ CountTo(S, t) >= n
    BY <1>3, <1>4
  <1> HIDE DEF t
  <1>6. ~(t - 1 \in T)
    BY <1>3, <1>5
  <1>7. CountTo(S, t - 1) < n /\ CountTo(S, t - 1) \in Nat
    BY <1>1, <1>5, <1>6
  <1> HIDE DEF T
  <1>8. CountTo(S, t) = IF t \in S THEN CountTo(S, t - 1) + 1 ELSE CountTo(S, t - 1)
    <2>1. t \in Int
      BY <1>5
    <2> QED
      BY <2>1, CountNext, Zenon
  <1>9. t \in S /\ CountTo(S, t) = n
    BY <1>5, <1>7, <1>8
  <1> QED
    BY <1>9

\* A later place is a greater number.
LEMMA PlaceOrder ==
  ASSUME NEW N \in Nat, NEW S, S \subseteq 1 .. N, NEW i \in S, NEW k \in S, CountTo(S, i) < CountTo(S, k)
  PROVE  i < k
  <1> SUFFICES ASSUME k <= i PROVE FALSE
    OBVIOUS
  <1>0. \A j \in S : j \in Nat
    OBVIOUS
  <1>a. i \in Int /\ k \in Int
    BY <1>0
  <1>b. \A j \in S : j <= k => j <= i
    BY <1>0, <1>a
  <1>1. {j \in S : j <= k} \in SUBSET {j \in S : j <= i}
    BY <1>b, Zenon
  <1>2. IsFiniteSet({j \in S : j <= i})
    BY <1>a, CountFinite, Zenon
  <1>3. Cardinality({j \in S : j <= k}) <= Cardinality({j \in S : j <= i})
    BY <1>1, <1>2, FS_Subset, Zenon
  <1>4. CountTo(S, i) \in Nat /\ CountTo(S, k) \in Nat
    BY <1>a, CountFinite, Zenon
  <1>5. CountTo(S, k) <= CountTo(S, i)
    BY <1>3 DEF CountTo
  <1> QED
    BY <1>4, <1>5

\* What is left are elements of the sequence that are not taken out, in their order.
LEMMA WithoutFacts ==
  ASSUME NEW E, NEW s \in Seq(E), NEW old
  PROVE  /\ Without(s, old) \in Seq(E)
         /\ \E f \in [DOMAIN Without(s, old) -> DOMAIN s \ old] :
              \A i, j \in DOMAIN Without(s, old) : Without(s, old)[i] = s[f[i]] /\ (i < j => f[i] < f[j])
  <1> DEFINE S == DOMAIN s \ old
             w == Without(s, old)
             n == Cardinality(S)
             f == [m \in 1 .. n |-> CHOOSE i \in S : CountTo(S, i) = m]
  <1>1. Len(s) \in Nat /\ S \subseteq 1 .. Len(s) /\ DOMAIN s = 1 .. Len(s)
    OBVIOUS
  <1> HIDE DEF S
  <1>2. n \in Nat
    <2>1. 0 \in Int
      OBVIOUS
    <2> QED
      BY <2>1, <1>1, CountFinite, Zenon
  <1>3. w = [m \in 1 .. n |-> s[f[m]]]
    BY DEF Without, CountTo, S
  <1>4. \A m \in 1 .. n : f[m] \in S /\ CountTo(S, f[m]) = m
    <2> TAKE m \in 1 .. n
    <2>1. \E i \in S : CountTo(S, i) = m
      BY <1>1, PlaceExists
    <2>2. f[m] = CHOOSE i \in S : CountTo(S, i) = m
      OBVIOUS
    <2> QED
      BY <2>1, <2>2, Zenon
  <1>5. f \in [1 .. n -> S]
    BY <1>4
  <1> HIDE DEF f, n, w
  <1>6. \A i, j \in 1 .. n : i < j => f[i] < f[j]
    <2> SUFFICES ASSUME NEW i \in 1 .. n, NEW j \in 1 .. n, i < j PROVE f[i] < f[j]
      OBVIOUS
    <2>1. CountTo(S, f[i]) < CountTo(S, f[j])
      BY <1>4
    <2> QED
      BY <2>1, <1>1, <1>4, PlaceOrder, Zenon
  <1>7. w \in Seq(E) /\ DOMAIN w = 1 .. n
    <2>1. \A m \in 1 .. n : f[m] \in 1 .. Len(s)
      BY <1>1, <1>4
    <2>2. \A m \in 1 .. n : s[f[m]] \in E
      BY <2>1
    <2> QED
      BY <2>2, <1>2, <1>3
  <1>8. f \in [DOMAIN w -> S] /\ \A i, j \in DOMAIN w : w[i] = s[f[i]] /\ (i < j => f[i] < f[j])
    BY <1>3, <1>5, <1>6, <1>7
  <1> QED
    BY <1>7, <1>8 DEF w, S

-----------------------------------------------------------------------------
(* Snapshots.                                                              *)

\* The lines of a snapshot are its header and its events, numbered.
LEMMA LinesFacts ==
  ASSUME job \in Jobs, NEW r \in AllRanks, NEW k \in 1 .. Len(job.snaps[r])
  PROVE  /\ Lines(r, k) \in Seq(Line) /\ Len(Lines(r, k)) >= 1
         /\ \A i \in 1 .. Len(Lines(r, k)) :
              /\ Lines(r, k)[i].rank = r /\ Lines(r, k)[i].snap = k /\ Lines(r, k)[i].no = i - 1
              /\ i = 1 => Lines(r, k)[i].kind = "group"
  <1> DEFINE s == job.snaps[r][k]
             h == [rank |-> r, snap |-> k, no |-> 0, kind |-> "group"]
             t == [i \in 1 .. Len(s) |-> [rank |-> r, snap |-> k, no |-> i, kind |-> s[i]]]
  <1>1. job.snaps[r] \in Seq(Seq({"event", "bad"}))
    BY CollectorAssumption DEF AllRanks
  <1>2. s \in Seq({"event", "bad"}) /\ Len(s) \in Nat /\ k \in Nat \ {0}
    BY <1>1
  <1>3. Lines(r, k) = <<h>> \o t
    BY DEF Lines
  <1> HIDE DEF s
  <1>4. h \in Line /\ \A i \in 1 .. Len(s) : t[i] \in Line
    BY <1>2 DEF Line
  <1>5. t \in Seq(Line) /\ Len(t) = Len(s)
    BY <1>2, <1>4
  <1>6. \A i \in 1 .. Len(t) : t[i].rank = r /\ t[i].snap = k /\ t[i].no = i
    BY <1>5
  <1>7. h.rank = r /\ h.snap = k /\ h.no = 0 /\ h.kind = "group"
    OBVIOUS
  <1> HIDE DEF h, t
  <1>8. <<h>> \o t \in Seq(Line) /\ Len(<<h>> \o t) = Len(t) + 1 /\ Len(t) \in Nat
    BY <1>4, <1>5
  <1>9. \A i \in 1 .. Len(<<h>> \o t) : (<<h>> \o t)[i] = IF i = 1 THEN h ELSE t[i - 1]
    BY <1>4, <1>5
  <1>10. \A i \in 1 .. Len(<<h>> \o t) : i # 1 => i - 1 \in 1 .. Len(t)
    BY <1>8
  <1>11. \A i \in 1 .. Len(<<h>> \o t) :
           /\ (<<h>> \o t)[i].rank = r /\ (<<h>> \o t)[i].snap = k /\ (<<h>> \o t)[i].no = i - 1
           /\ i = 1 => (<<h>> \o t)[i].kind = "group"
    BY <1>6, <1>7, <1>9, <1>10
  <1> QED
    BY <1>3, <1>8, <1>11

\* Every line becomes two pieces.
LEMMA HalvesFacts ==
  ASSUME NEW L \in Seq(Line)
  PROVE  /\ Halves(L) \in Seq(Piece) /\ Len(Halves(L)) = 2 * Len(L)
         /\ \A i \in 1 .. Len(L) : /\ Halves(L)[2 * i - 1] = [line |-> L[i], half |-> 1]
                                   /\ Halves(L)[2 * i] = [line |-> L[i], half |-> 2]
  <1> DEFINE h == [i \in 1 .. (2 * Len(L)) |-> [line |-> L[(i + 1) \div 2], half |-> 2 - (i % 2)]]
  <1>1. Halves(L) = h
    BY DEF Halves
  <1>2. \A i \in 1 .. (2 * Len(L)) : (i + 1) \div 2 \in 1 .. Len(L) /\ 2 - (i % 2) \in {1, 2}
    OBVIOUS
  <1>3. \A i \in 1 .. (2 * Len(L)) : h[i] \in Piece
    BY <1>2 DEF Piece
  <1>4. h \in Seq(Piece) /\ Len(h) = 2 * Len(L)
    BY <1>3
  <1>5. ASSUME NEW i \in 1 .. Len(L)
        PROVE  h[2 * i - 1] = [line |-> L[i], half |-> 1] /\ h[2 * i] = [line |-> L[i], half |-> 2]
    <2>1. 2 * i \in 1 .. (2 * Len(L)) /\ 2 * i - 1 \in 1 .. (2 * Len(L))
      OBVIOUS
    <2>2. (2 * i + 1) \div 2 = i /\ (2 * i) % 2 = 0 /\ (2 * i - 1 + 1) \div 2 = i /\ (2 * i - 1) % 2 = 1
      OBVIOUS
    <2> QED
      BY <2>1, <2>2
  <1> QED
    BY <1>1, <1>4, <1>5

\* What is posted as a body comes back as events in order, under its own tags.
LEMMA BodyEventsFacts ==
  ASSUME job \in Jobs, NEW r \in AllRanks, NEW k \in 1 .. Len(job.snaps[r])
  PROVE  /\ BodyEvents(Lines(r, k)) \in Seq(SoundEvent)
         /\ \A i \in DOMAIN BodyEvents(Lines(r, k)) :
              BodyEvents(Lines(r, k))[i].rank = r /\ BodyEvents(Lines(r, k))[i].snap = k
         /\ InOrder(BodyEvents(Lines(r, k)))
  <1> DEFINE body == Lines(r, k)
             bad == {i \in DOMAIN body : body[i].kind = "bad"}
             read == IF bad = {} THEN body ELSE SubSeq(body, 1, Min(bad) - 1)
             Tags(i) == IF \E j \in 1 .. i : read[j].kind = "group" THEN read[1].snap ELSE NoTags
             all == [i \in DOMAIN read |->
                       [rank |-> read[i].rank, snap |-> read[i].snap, no |-> read[i].no, tags |-> Tags(i)]]
             w == Without(all, {i \in DOMAIN all : all[i].no = 0})
  <1>1. BodyEvents(body) = w
    BY DEF BodyEvents
  <1>2. body \in Seq(Line) /\ Len(body) >= 1 /\ Len(body) \in Nat
    BY LinesFacts
  <1>3. \A i \in 1 .. Len(body) :
          /\ body[i].rank = r /\ body[i].snap = k /\ body[i].no = i - 1
          /\ i = 1 => body[i].kind = "group"
    BY LinesFacts
  <1> HIDE DEF body
  <1>4. bad # {} => Min(bad) \in 2 .. Len(body)
    <2> SUFFICES ASSUME bad # {} PROVE Min(bad) \in 2 .. Len(body)
      OBVIOUS
    <2>1. bad \subseteq Nat
      BY <1>2
    <2>2. Min(bad) \in bad
      <3> HIDE DEF bad
      <3> QED
        BY <2>1, LeastNatural
    <2>3. Min(bad) \in 1 .. Len(body) /\ body[Min(bad)].kind = "bad"
      BY <2>2, <1>2
    <2> QED
      BY <2>3, <1>3
  <1> DEFINE m == IF bad = {} THEN Len(body) ELSE Min(bad) - 1
  <1>5. m \in 1 .. Len(body) /\ m \in Nat
    BY <1>2, <1>4
  <1>6. read \in Seq(Line) /\ Len(read) = m /\ \A i \in 1 .. m : read[i] = body[i]
    <2>1. CASE bad = {}
      BY <2>1, <1>2
    <2>2. CASE bad # {}
      <3> HIDE DEF bad
      <3> QED
        BY <2>2, <1>2, <1>4
    <2> QED
      BY <2>1, <2>2
  <1> HIDE DEF bad, m, read
  <1>7. \A i \in 1 .. m : read[i].rank = r /\ read[i].snap = k /\ read[i].no = i - 1 /\ Tags(i) = k
    <2> TAKE i \in 1 .. m
    <2>1. 1 \in 1 .. i /\ 1 \in 1 .. m
      BY <1>5
    <2>2. read[1].kind = "group" /\ read[1].snap = k
      BY <2>1, <1>3, <1>5, <1>6
    <2> QED
      BY <2>1, <2>2, <1>3, <1>5, <1>6
  <1>8. DOMAIN read = 1 .. m
    BY <1>5, <1>6
  <1>9. all = [i \in 1 .. m |-> [rank |-> r, snap |-> k, no |-> i - 1, tags |-> k]]
    <2> HIDE DEF Tags
    <2> QED
      BY <1>7, <1>8
  <1> HIDE DEF all
  <1>10. all \in Seq(SoundEvent) /\ DOMAIN all = 1 .. m
    <2>1. \A i \in 1 .. m : [rank |-> r, snap |-> k, no |-> i - 1, tags |-> k] \in SoundEvent
      BY DEF SoundEvent
    <2> QED
      BY <2>1, <1>5, <1>9
  <1>11. w \in Seq(SoundEvent)
    BY <1>10, WithoutFacts, Zenon
  <1>12. PICK f \in [DOMAIN w -> DOMAIN all \ {i \in DOMAIN all : all[i].no = 0}] :
           \A i, j \in DOMAIN w : w[i] = all[f[i]] /\ (i < j => f[i] < f[j])
    BY <1>10, WithoutFacts, Zenon
  <1> HIDE DEF w
  <1>13. \A i \in DOMAIN w : f[i] \in 1 .. m /\ w[i] = [rank |-> r, snap |-> k, no |-> f[i] - 1, tags |-> k]
    BY <1>9, <1>10, <1>12
  <1>14. \A i \in DOMAIN w : w[i].rank = r /\ w[i].snap = k /\ w[i].no = f[i] - 1
    BY <1>13
  <1>15. InOrder(w)
    <2> SUFFICES ASSUME NEW i \in DOMAIN w, NEW j \in DOMAIN w, i < j PROVE Earlier(w[i], w[j])
      BY DEF InOrder
    <2>1. f[i] < f[j] /\ f[i] \in Int /\ f[j] \in Int
      BY <1>12, <1>13
    <2> QED
      BY <2>1, <1>14 DEF Earlier
  <1> QED
    BY <1>1, <1>11, <1>14, <1>15 DEF body

-----------------------------------------------------------------------------
(* Logs.                                                                   *)

\* The lines of a log are lines, with numbers.
LEMMA LineTyped ==
  ASSUME NEW text \in Seq(Piece), NEW i \in 1 .. Len(text), 2 * i <= Len(text)
  PROVE  LineAt(text, i) \in Line /\ LineAt(text, i).snap \in Nat /\ LineAt(text, i).no \in Nat
  <1>1. text[2 * i] \in Piece
    OBVIOUS
  <1> QED
    BY <1>1 DEF LineAt, Piece, Line

\* The lines of a log with a snapshot behind it.
LEMMA LinesAppended ==
  ASSUME NEW text \in Seq(Piece), NEW m \in Nat, Len(text) = 2 * m, NEW L \in Seq(Line)
  PROVE  /\ text \o Halves(L) \in Seq(Piece) /\ Len(text \o Halves(L)) = 2 * (m + Len(L))
         /\ \A i \in 1 .. m : /\ (text \o Halves(L))[2 * i - 1] = text[2 * i - 1]
                              /\ (text \o Halves(L))[2 * i] = text[2 * i]
         /\ \A i \in 1 .. Len(L) :
              /\ (text \o Halves(L))[2 * (m + i) - 1] = [line |-> L[i], half |-> 1]
              /\ (text \o Halves(L))[2 * (m + i)] = [line |-> L[i], half |-> 2]
  <1> DEFINE h == Halves(L)
  <1>1. h \in Seq(Piece) /\ Len(h) = 2 * Len(L) /\ Len(L) \in Nat
    BY HalvesFacts
  <1>2. \A i \in 1 .. Len(L) : /\ h[2 * i - 1] = [line |-> L[i], half |-> 1]
                               /\ h[2 * i] = [line |-> L[i], half |-> 2]
    BY HalvesFacts
  <1> HIDE DEF h
  <1>3. text \o h \in Seq(Piece) /\ Len(text \o h) = 2 * (m + Len(L))
    BY <1>1
  <1>4. \A i \in 1 .. (2 * m) : (text \o h)[i] = text[i]
    BY <1>1
  <1>5. \A i \in 1 .. Len(h) : (text \o h)[2 * m + i] = h[i]
    BY <1>1
  <1>6. \A i \in 1 .. m : 2 * i - 1 \in 1 .. (2 * m) /\ 2 * i \in 1 .. (2 * m)
    OBVIOUS
  <1>7. ASSUME NEW i \in 1 .. Len(L)
        PROVE  /\ (text \o h)[2 * (m + i) - 1] = [line |-> L[i], half |-> 1]
               /\ (text \o h)[2 * (m + i)] = [line |-> L[i], half |-> 2]
    <2>1. 2 * i - 1 \in 1 .. Len(h) /\ 2 * i \in 1 .. Len(h)
      BY <1>1
    <2>2. 2 * m + (2 * i - 1) = 2 * (m + i) - 1 /\ 2 * m + 2 * i = 2 * (m + i)
      BY <1>1
    <2>3. (text \o h)[2 * m + (2 * i - 1)] = h[2 * i - 1] /\ (text \o h)[2 * m + 2 * i] = h[2 * i]
      BY <1>5, <2>1, Zenon
    <2> QED
      BY <1>2, <2>2, <2>3, Zenon
  <1>8. \A i \in 1 .. m : (text \o h)[2 * i - 1] = text[2 * i - 1] /\ (text \o h)[2 * i] = text[2 * i]
    BY <1>4, <1>6, Zenon
  <1> QED
    BY <1>3, <1>7, <1>8, Zenon DEF h

\* A log with the next snapshot behind it fits.
LEMMA TextGrows ==
  ASSUME job \in Jobs, NEW r \in AllRanks, NEW w \in Nat, w < Len(job.snaps[r]),
         NEW text \in Seq(Piece), TextFits(r, text, w)
  PROVE  /\ TextFits(r, text \o Halves(Lines(r, w + 1)), w + 1)
         /\ text \o Halves(Lines(r, w + 1)) \in Seq(Piece)
         /\ Len(text) <= Len(text \o Halves(Lines(r, w + 1)))
         /\ \A i \in 1 .. Len(text) : (text \o Halves(Lines(r, w + 1)))[i] = text[i]
         /\ \A i \in 1 .. Len(text \o Halves(Lines(r, w + 1))) :
              2 * i > Len(text) /\ 2 * i <= Len(text \o Halves(Lines(r, w + 1)))
              => LineAt(text \o Halves(Lines(r, w + 1)), i).snap = w + 1
  <1> DEFINE L == Lines(r, w + 1)
             x == text \o Halves(L)
  <1>1. w + 1 \in 1 .. Len(job.snaps[r])
    <2>1. job.snaps[r] \in Seq(Seq({"event", "bad"}))
      BY CollectorAssumption DEF AllRanks
    <2> QED
      BY <2>1
  <1>2. L \in Seq(Line) /\ Len(L) >= 1 /\ Len(L) \in Nat
    BY <1>1, LinesFacts
  <1>3. \A i \in 1 .. Len(L) :
          /\ L[i].rank = r /\ L[i].snap = w + 1 /\ L[i].no = i - 1
          /\ i = 1 => L[i].kind = "group"
    BY <1>1, LinesFacts
  <1> HIDE DEF L
  <1>4. PICK m \in 0 .. Len(text) : Len(text) = 2 * m
    BY DEF TextFits
  <1>a. m \in Nat
    BY <1>4
  <1>5. x \in Seq(Piece) /\ Len(x) = 2 * (m + Len(L)) /\ m \in Nat
    BY <1>2, <1>4, <1>a, LinesAppended, Zenon
  <1>6. \A i \in 1 .. m : x[2 * i - 1] = text[2 * i - 1] /\ x[2 * i] = text[2 * i]
    BY <1>2, <1>4, <1>a, LinesAppended, Zenon
  <1>7. \A i \in 1 .. Len(L) : /\ x[2 * (m + i) - 1] = [line |-> L[i], half |-> 1]
                               /\ x[2 * (m + i)] = [line |-> L[i], half |-> 2]
    BY <1>2, <1>4, <1>a, LinesAppended, Zenon
  <1>8. Len(text) <= Len(x) /\ \A i \in 1 .. Len(text) : x[i] = text[i]
    <2>1. Halves(L) \in Seq(Piece)
      BY <1>2, HalvesFacts
    <2> QED
      BY <2>1
  <1> HIDE DEF x
  <1>9. \A i \in 1 .. m : LineAt(x, i) = LineAt(text, i)
    BY <1>6 DEF LineAt
  <1>10. \A i \in 1 .. Len(L) : LineAt(x, m + i) = L[i]
    <2> TAKE i \in 1 .. Len(L)
    <2>1. x[2 * (m + i)] = [line |-> L[i], half |-> 2]
      BY <1>7
    <2>2. x[2 * (m + i)].line = L[i]
      BY <2>1
    <2> QED
      BY <2>2, Zenon DEF LineAt
  <1>11. ASSUME NEW i \in 1 .. m
         PROVE  /\ x[2 * i - 1] = [line |-> LineAt(x, i), half |-> 1]
                /\ x[2 * i] = [line |-> LineAt(x, i), half |-> 2]
                /\ LineAt(x, i).rank = r /\ LineAt(x, i).snap <= w + 1
                /\ LineAt(x, i).no = 0 => LineAt(x, i).kind = "group"
                /\ LineAt(x, i).no # 0 => i > 1 /\ LineAt(x, i - 1).snap = LineAt(x, i).snap
                /\ LineAt(x, i).snap \in Nat /\ LineAt(x, i).snap <= w
    <2>1. i \in 1 .. Len(text) /\ 2 * i <= Len(text)
      BY <1>4
    <2>2. /\ text[2 * i - 1] = [line |-> LineAt(text, i), half |-> 1]
          /\ text[2 * i] = [line |-> LineAt(text, i), half |-> 2]
          /\ LineAt(text, i).rank = r /\ LineAt(text, i).snap <= w
          /\ LineAt(text, i).no = 0 => LineAt(text, i).kind = "group"
          /\ LineAt(text, i).no # 0 => i > 1 /\ LineAt(text, i - 1).snap = LineAt(text, i).snap
      BY <2>1 DEF TextFits
    <2>3. LineAt(text, i).snap \in Nat
      BY <2>1, LineTyped
    <2>4. i > 1 => LineAt(x, i - 1) = LineAt(text, i - 1)
      BY <1>9
    <2> QED
      BY <1>6, <1>9, <2>2, <2>3, <2>4
  <1>12. ASSUME NEW k \in 1 .. Len(L)
         PROVE  /\ x[2 * (m + k) - 1] = [line |-> LineAt(x, m + k), half |-> 1]
                /\ x[2 * (m + k)] = [line |-> LineAt(x, m + k), half |-> 2]
                /\ LineAt(x, m + k).rank = r /\ LineAt(x, m + k).snap = w + 1
                /\ LineAt(x, m + k).no = 0 => LineAt(x, m + k).kind = "group"
                /\ LineAt(x, m + k).no # 0 => m + k > 1 /\ LineAt(x, m + k - 1).snap = LineAt(x, m + k).snap
                /\ LineAt(x, m + k).no = k - 1
    <2>1. k > 1 => k - 1 \in 1 .. Len(L) /\ m + k - 1 = m + (k - 1)
      BY <1>2, <1>5
    <2>2. k > 1 => LineAt(x, m + k - 1) = L[k - 1]
      BY <2>1, <1>10
    <2>3. LineAt(x, m + k) = L[k]
      BY <1>10
    <2>4. L[k].rank = r /\ L[k].snap = w + 1 /\ L[k].no = k - 1 /\ (k = 1 => L[k].kind = "group")
          /\ (k > 1 => L[k - 1].snap = w + 1)
      BY <1>3, <2>1
    <2>5. k - 1 # 0 => m + k > 1 /\ k > 1
      BY <1>5
    <2> QED
      BY <1>7, <2>2, <2>3, <2>4, <2>5
  <1>13. \A i \in 1 .. Len(x) : 2 * i <= Len(x) => i \in 1 .. m \/ \E k \in 1 .. Len(L) : i = m + k
    <2> SUFFICES ASSUME NEW i \in 1 .. Len(x), 2 * i <= Len(x), ~(i \in 1 .. m)
                 PROVE  \E k \in 1 .. Len(L) : i = m + k
      OBVIOUS
    <2>1. i - m \in 1 .. Len(L) /\ i = m + (i - m)
      BY <1>2, <1>5
    <2> QED
      BY <2>1
  <1>14. ASSUME NEW i \in 1 .. Len(x), NEW j \in 1 .. Len(x), i < j, 2 * i <= Len(x), 2 * j <= Len(x)
         PROVE  Earlier(LineAt(x, i), LineAt(x, j))
    <2>1. CASE j \in 1 .. m
      <3>1. i \in 1 .. m
        BY <2>1, <1>14
      <3>2. i \in 1 .. Len(text) /\ j \in 1 .. Len(text) /\ 2 * i <= Len(text) /\ 2 * j <= Len(text)
        BY <2>1, <3>1, <1>4
      <3>3. Earlier(LineAt(text, i), LineAt(text, j))
        BY <1>14, <3>2 DEF TextFits
      <3> QED
        BY <2>1, <3>1, <3>3, <1>9
    <2>2. CASE \E k \in 1 .. Len(L) : j = m + k
      <3>1. PICK k \in 1 .. Len(L) : j = m + k
        BY <2>2
      <3>2. LineAt(x, j).snap = w + 1 /\ LineAt(x, j).no = k - 1
        BY <3>1, <1>12
      <3>3. CASE i \in 1 .. m
        <4>1. LineAt(x, i).snap \in Nat /\ LineAt(x, i).snap <= w
          BY <3>3, <1>11
        <4> QED
          BY <3>2, <4>1 DEF Earlier
      <3>4. CASE \E q \in 1 .. Len(L) : i = m + q
        <4>1. PICK q \in 1 .. Len(L) : i = m + q
          BY <3>4
        <4>2. LineAt(x, i).snap = w + 1 /\ LineAt(x, i).no = q - 1
          BY <4>1, <1>12
        <4>3. q - 1 < k - 1
          BY <1>5, <1>14, <3>1, <4>1
        <4> QED
          BY <3>2, <4>2, <4>3 DEF Earlier
      <3> QED
        BY <3>3, <3>4, <1>13, <1>14
    <2> QED
      BY <2>1, <2>2, <1>13, <1>14
  <1>15. ASSUME NEW i \in 1 .. Len(x), 2 * i <= Len(x)
         PROVE  /\ x[2 * i - 1] = [line |-> LineAt(x, i), half |-> 1]
                /\ x[2 * i] = [line |-> LineAt(x, i), half |-> 2]
                /\ LineAt(x, i).rank = r /\ LineAt(x, i).snap <= w + 1
                /\ LineAt(x, i).no = 0 => LineAt(x, i).kind = "group"
                /\ LineAt(x, i).no # 0 => i > 1 /\ LineAt(x, i - 1).snap = LineAt(x, i).snap
    <2>1. CASE i \in 1 .. m
      BY <2>1, <1>11
    <2>2. CASE \E k \in 1 .. Len(L) : i = m + k
      <3>1. PICK k \in 1 .. Len(L) : i = m + k
        BY <2>2
      <3> QED
        BY <3>1, <1>12
    <2> QED
      BY <2>1, <2>2, <1>13, <1>15
  <1>16. \E n \in 0 .. Len(x) : Len(x) = 2 * n
    <2>1. m + Len(L) \in 0 .. Len(x)
      BY <1>2, <1>5
    <2> QED
      BY <2>1, <1>5
  <1>17. TextFits(r, x, w + 1)
    BY <1>14, <1>15, <1>16 DEF TextFits
  <1>18. ASSUME NEW i \in 1 .. Len(x), 2 * i > Len(text), 2 * i <= Len(x)
         PROVE  LineAt(x, i).snap = w + 1
    <2>1. ~(i \in 1 .. m)
      BY <1>4, <1>18
    <2>2. PICK k \in 1 .. Len(L) : i = m + k
      BY <2>1, <1>13, <1>18
    <2> QED
      BY <2>2, <1>12
  <1> QED
    BY <1>5, <1>8, <1>17, <1>18 DEF x, L

\* What a log becomes: what was there stays, what is new belongs to later snapshots.
Grown(files, next, w) ==
  /\ Len(files) <= Len(next)
  /\ \A n \in 1 .. Len(files) :
       /\ Len(files[n].text) <= Len(next[n].text)
       /\ \A i \in 1 .. Len(files[n].text) : next[n].text[i] = files[n].text[i]
  /\ \A n \in 1 .. Len(next) : \A i \in 1 .. Len(next[n].text) :
       2 * i <= Len(next[n].text) /\ (n <= Len(files) => 2 * i > Len(files[n].text))
       => LineAt(next[n].text, i).snap > w

\* A parser stands where it stood.
LEMMA GrownKeepsTail ==
  ASSUME NEW files \in Seq(LogFile), NEW next \in Seq(LogFile), NEW w \in Nat, Grown(files, next, w),
         NEW tail \in LogTail, TailFits(tail, files)
  PROVE  TailFits(tail, next)
  <1>1. CASE tail.file = 0
    BY <1>1 DEF TailFits
  <1>2. CASE tail.file > 0
    <2> DEFINE n == tail.file
               x == files[n].text
               y == next[n].text
    <2>1. n \in 1 .. Len(files) /\ n <= Len(next) /\ tail.pos <= Len(x) /\ tail.pos \in Nat
      BY <1>2 DEF TailFits, LogTail, Grown
    <2>2. PICK k \in 0 .. Len(x) : Stands(tail, x, k)
      BY <1>2 DEF TailFits
    <2>3. Len(x) <= Len(y) /\ \A i \in 1 .. Len(x) : y[i] = x[i]
      BY <2>1 DEF Grown
    <2>a. files[n] \in LogFile /\ next[n] \in LogFile
      BY <2>1
    <2>4. x \in Seq(Piece) /\ y \in Seq(Piece)
      BY <2>a DEF LogFile
    <2> HIDE DEF x, y
    <2>5. k \in 0 .. Len(y) /\ tail.pos <= Len(y)
      BY <2>1, <2>3, <2>4
    <2>6. tail.pos = 2 * k + 1 => y[2 * k + 1] = x[2 * k + 1]
      BY <2>1, <2>3, <2>4
    <2>7. k > 0 /\ (tail.pos = 2 * k \/ tail.pos = 2 * k + 1) => LineAt(y, k) = LineAt(x, k)
      BY <2>1, <2>3, <2>4 DEF LineAt
    <2>8. Stands(tail, y, k)
      BY <2>2, <2>6, <2>7 DEF Stands
    <2> QED
      BY <1>2, <2>1, <2>5, <2>8 DEF TailFits, y
  <1> QED
    BY <1>1, <1>2 DEF LogTail

\* An event of an earlier snapshot than the new ones is still before the rest.
LEMMA GrownKeepsBefore ==
  ASSUME NEW files \in Seq(LogFile), NEW next \in Seq(LogFile), NEW w \in Nat, Grown(files, next, w),
         NEW tail \in LogTail, NEW e, e.snap \in Nat, e.snap <= w, BeforeRest(e, tail, files)
  PROVE  BeforeRest(e, tail, next)
  <1> SUFFICES ASSUME NEW n \in 1 .. Len(next), NEW i \in 1 .. Len(next[n].text), 2 * i <= Len(next[n].text),
                      n > tail.file \/ (n = tail.file /\ 2 * i > tail.pos)
               PROVE  Earlier(e, LineAt(next[n].text, i))
    BY DEF BeforeRest
  <1>1. next[n].text \in Seq(Piece)
    <2>1. next[n] \in LogFile
      OBVIOUS
    <2> QED
      BY <2>1 DEF LogFile
  <1>2. LineAt(next[n].text, i).snap \in Nat
    BY <1>1, LineTyped
  <1>3. CASE n <= Len(files) => 2 * i > Len(files[n].text)
    <2>1. LineAt(next[n].text, i).snap > w
      BY <1>3 DEF Grown
    <2> QED
      BY <1>2, <2>1 DEF Earlier
  <1>4. CASE n <= Len(files) /\ ~(2 * i > Len(files[n].text))
    <2>0. n \in 1 .. Len(files) /\ files[n] \in LogFile
      BY <1>4
    <2>1. n \in 1 .. Len(files) /\ files[n].text \in Seq(Piece)
      BY <2>0 DEF LogFile
    <2>2. i \in 1 .. Len(files[n].text) /\ 2 * i \in 1 .. Len(files[n].text) /\ 2 * i <= Len(files[n].text)
      BY <1>4, <2>1
    <2>3. LineAt(next[n].text, i) = LineAt(files[n].text, i)
      BY <2>1, <2>2 DEF Grown, LineAt
    <2>4. Earlier(e, LineAt(files[n].text, i))
      BY <2>1, <2>2 DEF BeforeRest
    <2> QED
      BY <2>3, <2>4
  <1> QED
    BY <1>3, <1>4

\* The events of a collector are events.
LEMMA PastTyped ==
  ASSUME ReportType, NEW p \in Pids, NEW e \in Past(p, proc[p].events, reported)
  PROVE  e.snap \in Nat /\ e.no \in Nat /\ e.rank \in AllRanks /\ e.tags = e.snap
  <1>1. proc[p].events \in Seq(SoundEvent) /\ reported \in Seq(SoundReport)
    BY DEF ReportType, Work
  <1>2. CASE \E i \in DOMAIN proc[p].events : e = proc[p].events[i]
    <2>1. e \in SoundEvent
      BY <1>1, <1>2
    <2> QED
      BY <2>1 DEF SoundEvent
  <1>3. CASE \E i \in DOMAIN reported : e = reported[i]
    <2>1. e \in SoundReport
      BY <1>1, <1>3
    <2> QED
      BY <2>1 DEF SoundReport
  <1> QED
    BY <1>2, <1>3 DEF Past

\* What a collector holds still fits when logs grow, snapshots are counted and others report.
LEMMA StillFits ==
  ASSUME ReportType, NEW p \in Pids, RunFits(p, proc[p], logs, written, reported),
         NEW lg \in [LogRanks -> Seq(LogFile)], NEW w \in [AllRanks -> Nat],
         \A r \in AllRanks : written[r] <= w[r], \A r \in LogRanks : Grown(logs[r], lg[r], written[r]),
         NEW rep, Past(p, proc[p].events, rep) \subseteq Past(p, proc[p].events, reported),
         ReportsBefore(p, proc[p].events, rep)
  PROVE  RunFits(p, proc[p], lg, w, rep)
  <1> DEFINE x == proc[p]
  <1>2. x.tails \in [LogRanks -> LogTail] /\ written \in [AllRanks -> Nat] /\ logs \in [LogRanks -> Seq(LogFile)]
    BY DEF ReportType, Work
  <1>3. \A r \in LogRanks : TailFits(x.tails[r], lg[r])
    <2> TAKE r \in LogRanks
    <2>1. TailFits(x.tails[r], logs[r])
      BY DEF RunFits
    <2>2. logs[r] \in Seq(LogFile) /\ lg[r] \in Seq(LogFile) /\ written[r] \in Nat /\ x.tails[r] \in LogTail
      BY <1>2 DEF AllRanks
    <2> HIDE DEF x
    <2> QED
      BY <2>1, <2>2, GrownKeepsTail
  <1>4. BodiesFit(x.bodies, w)
    <2>1. BodiesFit(x.bodies, written)
      BY DEF RunFits
    <2>2. \A r \in SockRanks : \A k \in 1 .. written[r] : k \in 1 .. w[r]
      BY <1>2 DEF AllRanks
    <2>3. \A i \in DOMAIN x.bodies : IsBody(x.bodies[i], w)
      BY <2>1, <2>2 DEF BodiesFit, IsBody
    <2> HIDE DEF x
    <2> QED
      BY <2>1, <2>3 DEF BodiesFit
  <1>5. PastFits(p, x, lg, w, rep)
    <2>1. SUFFICES ASSUME NEW e \in Past(p, x.events, reported)
                   PROVE  /\ e.snap <= w[e.rank]
                          /\ \A r \in LogRanks : e.rank = r => BeforeRest(e, x.tails[r], lg[r])
                          /\ \A i \in DOMAIN x.bodies : x.bodies[i][1].rank = e.rank => e.snap < x.bodies[i][1].snap
      BY DEF PastFits
    <2>2. e.snap \in Nat /\ e.no \in Nat /\ e.rank \in AllRanks
      BY PastTyped
    <2>3. PastFits(p, x, logs, written, reported)
      BY DEF RunFits
    <2>4. /\ e.snap <= written[e.rank]
          /\ \A r \in LogRanks : e.rank = r => BeforeRest(e, x.tails[r], logs[r])
          /\ \A i \in DOMAIN x.bodies : x.bodies[i][1].rank = e.rank => e.snap < x.bodies[i][1].snap
      BY <2>3 DEF PastFits
    <2>5. e.snap <= w[e.rank]
      BY <1>2, <2>2, <2>4
    <2>6. ASSUME NEW r \in LogRanks, e.rank = r PROVE BeforeRest(e, x.tails[r], lg[r])
      <3>1. logs[r] \in Seq(LogFile) /\ lg[r] \in Seq(LogFile) /\ written[r] \in Nat /\ x.tails[r] \in LogTail
        BY <1>2 DEF AllRanks
      <3>2. BeforeRest(e, x.tails[r], logs[r]) /\ e.snap <= written[r]
        BY <2>4, <2>6
      <3> HIDE DEF x
      <3> QED
        BY <2>2, <3>1, <3>2, GrownKeepsBefore
    <2> QED
      BY <2>4, <2>5, <2>6
  <1>6. InOrder(x.events)
    BY DEF RunFits
  <1> QED
    BY <1>3, <1>4, <1>5, <1>6 DEF RunFits

\* The job never changes, so what fits after a step fits in the next state.
LEMMA FitsNext ==
  ASSUME UNCHANGED job, NEW p \in Pids, RunFits(p, proc'[p], logs', written', reported')
  PROVE  RunFits(p, proc[p], logs, written, reported)'
  <1>1. \A r, k : Lines(r, k)' = Lines(r, k)
    BY DEF Lines
  <1>2. BodiesFit(proc'[p].bodies, written')
    BY DEF RunFits
  <1>3. BodiesFit(proc[p].bodies, written)'
    BY <1>1, <1>2 DEF BodiesFit, IsBody
  <1> QED
    BY <1>3, Zenon DEF RunFits

\* A log stays a log.
LEMMA GrownSame == ASSUME NEW files \in Seq(LogFile), NEW w PROVE Grown(files, files, w)
  <1>1. \A n \in 1 .. Len(files) : Len(files[n].text) \in Nat
    <2> TAKE n \in 1 .. Len(files)
    <2>1. files[n] \in LogFile
      OBVIOUS
    <2> QED
      BY <2>1 DEF LogFile
  <1>2. \A n \in 1 .. Len(files) : \A i \in 1 .. Len(files[n].text) :
          2 * i <= Len(files[n].text) => ~(2 * i > Len(files[n].text))
    BY <1>1
  <1>3. Len(files) <= Len(files) /\ \A n \in 1 .. Len(files) : Len(files[n].text) <= Len(files[n].text)
    BY <1>1
  <1>4. \A n \in 1 .. Len(files) : n <= Len(files)
    OBVIOUS
  <1> QED
    BY <1>2, <1>3, <1>4 DEF Grown

\* Logs may grow without harm to what the collectors hold.
LEMMA LogsGrow ==
  ASSUME ReportInv, UNCHANGED <<job, proc, reported>>,
         logs' \in [LogRanks -> Seq(LogFile)], written' \in [AllRanks -> Nat],
         \A r \in AllRanks : written[r] <= written'[r] /\ written'[r] <= Len(job.snaps[r]),
         \A r \in LogRanks : FilesFit(r, logs'[r], written'[r]) /\ Grown(logs[r], logs'[r], written[r])
  PROVE  ReportInv'
  <1>1. ReportType'
    BY DEF ReportInv, ReportType
  <1>2. ASSUME NEW p \in Pids, proc[p].pc = "run" PROVE RunFits(p, proc[p], logs, written, reported)'
    <2>1. RunFits(p, proc[p], logs, written, reported)
      BY <1>2 DEF ReportInv
    <2>2. ReportsBefore(p, proc[p].events, reported)
      BY <2>1 DEF RunFits
    <2>3. RunFits(p, proc[p], logs', written', reported)
      BY <2>1, <2>2, StillFits DEF ReportInv
    <2>4. RunFits(p, proc'[p], logs', written', reported')
      BY <2>3, Zenon
    <2> QED
      BY <2>4, FitsNext
  <1>3. \A r \in LogRanks : FilesFit(r, logs[r], written[r])'
    OBVIOUS
  <1>4. \A p \in Pids : /\ proc'[p].pc # "run" => Fresh(proc[p])'
                        /\ proc'[p].pc \in {"none", "launch", "scan"} => \A i \in DOMAIN reported' : reported'[i].by # p
    BY DEF ReportInv, Fresh
  <1>5. ReportsInOrder'
    BY DEF ReportInv, ReportsInOrder
  <1> QED
    BY <1>1, <1>2, <1>3, <1>4, <1>5 DEF ReportInv

\* The last log, or a new one, gets the next snapshot.
LEMMA FilesGrow ==
  ASSUME job \in Jobs, NEW r \in AllRanks, NEW w \in Nat, w < Len(job.snaps[r]),
         NEW files \in Seq(LogFile), FilesFit(r, files, w),
         NEW next \in Seq(LogFile), NEW last \in 1 .. (Len(files) + 1), Len(next) = last, Len(files) <= last,
         \A n \in 1 .. (last - 1) : next[n].text = files[n].text,
         NEW text \in Seq(Piece), text = IF last <= Len(files) THEN files[last].text ELSE <<>>,
         next[last].text = text \o Halves(Lines(r, w + 1)),
         \A n \in 1 .. last : next[n].shown <= Len(next[n].text)
  PROVE  FilesFit(r, next, w + 1) /\ Grown(files, next, w)
  <1>1. Len(files) \in Nat /\ last \in Nat /\ (last <= Len(files) => last = Len(files))
    OBVIOUS
  <1>2. \A n \in 1 .. Len(files) : TextFits(r, files[n].text, w) /\ files[n].text \in Seq(Piece)
    <2> TAKE n \in 1 .. Len(files)
    <2>1. files[n] \in LogFile
      OBVIOUS
    <2> QED
      BY <2>1 DEF FilesFit, LogFile
  <1>3. TextFits(r, text, w)
    <2>1. CASE last <= Len(files)
      BY <2>1, <1>1, <1>2
    <2>2. CASE ~(last <= Len(files))
      <3>1. text = <<>>
        BY <2>2
      <3> QED
        BY <3>1 DEF TextFits
    <2> QED
      BY <2>1, <2>2
  <1> DEFINE x == text \o Halves(Lines(r, w + 1))
  <1>4. /\ TextFits(r, x, w + 1) /\ x \in Seq(Piece) /\ Len(text) <= Len(x)
        /\ \A i \in 1 .. Len(text) : x[i] = text[i]
        /\ \A i \in 1 .. Len(x) : 2 * i > Len(text) /\ 2 * i <= Len(x) => LineAt(x, i).snap = w + 1
    BY <1>3, TextGrows
  <1> HIDE DEF x
  <1>5. next[last].text = x /\ \A n \in 1 .. (last - 1) : n \in 1 .. Len(files) /\ next[n].text = files[n].text
    BY <1>1 DEF x
  <1>6. \A n \in 1 .. Len(next) : TextFits(r, next[n].text, w + 1)
    <2>1. \A n \in 1 .. Len(files) : TextFits(r, files[n].text, w + 1)
      <3> TAKE n \in 1 .. Len(files)
      <3>1. TextFits(r, files[n].text, w) /\ files[n].text \in Seq(Piece)
        BY <1>2
      <3>2. \A i \in 1 .. Len(files[n].text) : 2 * i <= Len(files[n].text) => LineAt(files[n].text, i).snap \in Nat
        BY <3>1, LineTyped
      <3>a. \A i \in 1 .. Len(files[n].text) : 2 * i <= Len(files[n].text) => LineAt(files[n].text, i).snap <= w
        BY <3>1 DEF TextFits
      <3>3. \A i \in 1 .. Len(files[n].text) : 2 * i <= Len(files[n].text) => LineAt(files[n].text, i).snap <= w + 1
        BY <3>2, <3>a
      <3> QED
        BY <3>1, <3>3 DEF TextFits
    <2>2. \A n \in 1 .. Len(next) : n = last \/ n \in 1 .. (last - 1)
      OBVIOUS
    <2> QED
      BY <2>1, <2>2, <1>4, <1>5
  <1>7. ASSUME NEW m \in 1 .. Len(next), NEW n \in 1 .. Len(next), m < n,
               NEW i \in 1 .. Len(next[m].text), NEW j \in 1 .. Len(next[n].text),
               2 * i <= Len(next[m].text), 2 * j <= Len(next[n].text)
        PROVE  Earlier(LineAt(next[m].text, i), LineAt(next[n].text, j))
    <2>0. m \in 1 .. (last - 1)
      BY <1>1, <1>7
    <2>1. m \in 1 .. (last - 1) /\ m \in 1 .. Len(files) /\ next[m].text = files[m].text
      BY <2>0, <1>5
    <2>2. CASE n \in 1 .. (last - 1)
      <3>1. n \in 1 .. Len(files) /\ next[n].text = files[n].text
        BY <2>2, <1>5
      <3> QED
        BY <1>7, <2>1, <3>1 DEF FilesFit
    <2>3. CASE n = last /\ 2 * j <= Len(text)
      <3>1. text # <<>> /\ n \in 1 .. Len(files) /\ files[n].text = text
        <4>1. Len(text) > 0
          BY <2>3, <1>7
        <4> QED
          BY <4>1, <2>3, <1>1
      <3>2. j \in 1 .. Len(text) /\ 2 * j \in 1 .. Len(text)
        BY <2>3, <1>7
      <3>3. LineAt(next[n].text, j) = LineAt(files[n].text, j)
        BY <2>3, <3>1, <3>2, <1>4, <1>5 DEF LineAt
      <3>4. Earlier(LineAt(files[m].text, i), LineAt(files[n].text, j))
        BY <1>7, <2>1, <2>3, <3>1, <3>2 DEF FilesFit
      <3> QED
        BY <2>1, <3>3, <3>4
    <2>4. CASE n = last /\ 2 * j > Len(text)
      <3>1. LineAt(next[n].text, j).snap = w + 1
        BY <2>4, <1>4, <1>5, <1>7
      <3>2. files[m].text \in Seq(Piece) /\ TextFits(r, files[m].text, w)
        BY <2>1, <1>2
      <3>3. LineAt(files[m].text, i).snap \in Nat /\ LineAt(files[m].text, i).snap <= w
        <4>1. i \in 1 .. Len(files[m].text) /\ 2 * i <= Len(files[m].text)
          BY <2>1, <1>7
        <4>2. LineAt(files[m].text, i).snap \in Nat
          BY <4>1, <3>2, LineTyped
        <4> QED
          BY <4>1, <4>2, <3>2 DEF TextFits
      <3> QED
        BY <2>1, <3>1, <3>3 DEF Earlier
    <2>5. n \in 1 .. (last - 1) \/ n = last
      OBVIOUS
    <2> QED
      BY <2>2, <2>3, <2>4, <2>5, <1>4
  <1>8. FilesFit(r, next, w + 1)
    BY <1>6, <1>7 DEF FilesFit
  <1>9. \A n \in 1 .. Len(files) : next[n].text = IF n = last THEN x ELSE files[n].text
    BY <1>1, <1>5
  <1>10. \A n \in 1 .. Len(files) : n = last => files[n].text = text
    BY <1>1
  <1>11. \A n \in 1 .. Len(files) :
           /\ Len(files[n].text) <= Len(next[n].text)
           /\ \A i \in 1 .. Len(files[n].text) : next[n].text[i] = files[n].text[i]
    <2> TAKE n \in 1 .. Len(files)
    <2>1. CASE n = last
      BY <2>1, <1>4, <1>9, <1>10
    <2>2. CASE n # last
      <3>1. next[n].text = files[n].text /\ Len(files[n].text) \in Nat
        BY <2>2, <1>2, <1>9
      <3> QED
        BY <3>1
    <2> QED
      BY <2>1, <2>2
  <1>12. ASSUME NEW n \in 1 .. Len(next), NEW i \in 1 .. Len(next[n].text), 2 * i <= Len(next[n].text),
                n <= Len(files) => 2 * i > Len(files[n].text)
         PROVE  LineAt(next[n].text, i).snap > w
    <2>1. n = last \/ n \in 1 .. (last - 1)
      OBVIOUS
    <2>2. CASE n \in 1 .. (last - 1)
      <3>1. n \in 1 .. Len(files) /\ next[n].text = files[n].text /\ Len(files[n].text) \in Nat
        BY <2>2, <1>2, <1>5
      <3> QED
        BY <3>1, <1>12
    <2>3. CASE n = last
      <3>1. 2 * i > Len(text)
        <4>1. CASE last <= Len(files)
          BY <4>1, <2>3, <1>12
        <4>2. CASE ~(last <= Len(files))
          BY <4>2
        <4> QED
          BY <4>1, <4>2
      <3>2. LineAt(next[n].text, i).snap = w + 1
        BY <2>3, <3>1, <1>4, <1>5, <1>12
      <3> QED
        BY <3>2
    <2> QED
      BY <2>1, <2>2, <2>3
  <1>13. Grown(files, next, w)
    BY <1>1, <1>11, <1>12 DEF Grown
  <1> QED
    BY <1>8, <1>13

\* A rank writes a snapshot to its log.
LEMMA WriteLogPreserves ==
  ASSUME ReportInv, NEW r \in LogRanks, WriteLog(r)
  PROVE  ReportInv'
  <1> DEFINE all == logs[r]
             n == Len(all)
             w == written[r]
             h == Halves(Lines(r, w + 1))
             Whole(f) == [f EXCEPT !.shown = Len(f.text)]
  <1>1. job \in Jobs /\ r \in AllRanks /\ w \in Nat /\ w < Len(job.snaps[r]) /\ all \in Seq(LogFile) /\ FilesFit(r, all, w)
        /\ logs \in [LogRanks -> Seq(LogFile)] /\ written \in [AllRanks -> Nat]
        /\ \A q \in AllRanks : written[q] <= Len(job.snaps[q])
    BY DEF ReportInv, ReportType, AllRanks, WriteLog, More
  <1>2. \A i \in 1 .. n : all[i] \in LogFile /\ all[i].text \in Seq(Piece) /\ Len(all[i].text) \in Nat
                          /\ Whole(all[i]) \in LogFile /\ Whole(all[i]).text = all[i].text
                          /\ Whole(all[i]).shown = Len(all[i].text)
    <2> TAKE i \in 1 .. n
    <2>1. all[i] \in LogFile
      BY <1>1
    <2> QED
      BY <2>1 DEF LogFile
  <1>3. h \in Seq(Piece) /\ Len(h) \in Nat
    <2>1. job.snaps[r] \in Seq(Seq({"event", "bad"}))
      BY <1>1, CollectorAssumption DEF AllRanks
    <2>2. w + 1 \in 1 .. Len(job.snaps[r])
      BY <1>1, <2>1
    <2>3. Lines(r, w + 1) \in Seq(Line)
      BY <1>1, <2>2, LinesFacts
    <2> QED
      BY <2>3, HalvesFacts
  <1>4. /\ written' = [written EXCEPT ![r] = w + 1] /\ UNCHANGED <<job, proc, reported>>
        /\ \/ all # <<>> /\ logs' = [logs EXCEPT ![r] = [all EXCEPT ![n] = [Whole(all[n]) EXCEPT !.text = @ \o h]]]
           \/ logs' = [logs EXCEPT ![r] = Append([i \in 1 .. n |-> Whole(all[i])], [text |-> h, shown |-> 0])]
    <2>1. UNCHANGED <<job, proc, reported>> /\ written' = [written EXCEPT ![r] = w + 1]
      BY DEF WriteLog
    <2>2. \/ all # <<>> /\ logs' = [logs EXCEPT ![r][n] = [Whole(all[n]) EXCEPT !.text = @ \o h]]
          \/ logs' = [logs EXCEPT ![r] = Append([i \in 1 .. n |-> Whole(all[i])], [text |-> h, shown |-> 0])]
      BY DEF WriteLog
    <2> QED
      BY <1>1, <2>1, <2>2
  <1> HIDE DEF h, Whole
  <1>5. logs' \in [LogRanks -> Seq(LogFile)] /\ (\A q \in LogRanks \ {r} : logs'[q] = logs[q])
        /\ FilesFit(r, logs'[r], w + 1) /\ Grown(all, logs'[r], w)
    <2>1. CASE all # <<>> /\ logs' = [logs EXCEPT ![r] = [all EXCEPT ![n] = [Whole(all[n]) EXCEPT !.text = @ \o h]]]
      <3> DEFINE f == [Whole(all[n]) EXCEPT !.text = @ \o h]
                 next == [all EXCEPT ![n] = f]
                 text == all[n].text
      <3>1. n \in 1 .. n /\ n \in 1 .. (n + 1)
        BY <1>1, <2>1
      <3>2. f \in LogFile /\ f.text = text \o h /\ f.shown = Len(text) /\ text \in Seq(Piece)
            /\ Len(f.text) = Len(text) + Len(h) /\ Len(text) \in Nat
        <4>1. Whole(all[n]) \in LogFile /\ Whole(all[n]).text = text /\ Whole(all[n]).shown = Len(text)
              /\ text \in Seq(Piece) /\ Len(text) \in Nat
          BY <1>2, <3>1
        <4> DEFINE g == Whole(all[n])
        <4> HIDE DEF text, g
        <4>2. text \o h \in Seq(Piece) /\ Len(text \o h) = Len(text) + Len(h)
          BY <4>1, <1>3
        <4>3. [g EXCEPT !.text = g.text \o h] = [text |-> text \o h, shown |-> Len(text)]
          <5>1. g \in LogFile /\ g.text = text /\ g.shown = Len(text)
            BY <4>1 DEF g
          <5>2. \A t : [g EXCEPT !.text = t] = [text |-> t, shown |-> g.shown]
            BY <5>1 DEF LogFile
          <5> QED
            BY <5>1, <5>2, Zenon
        <4>4. f = [text |-> text \o h, shown |-> Len(text)]
          BY <4>3 DEF g
        <4> QED
          BY <4>1, <4>2, <4>4 DEF LogFile
      <3> HIDE DEF f
      <3>3. next \in Seq(LogFile) /\ Len(next) = n /\ next[n] = f /\ \A i \in 1 .. (n - 1) : next[i] = all[i]
        BY <1>1, <3>1, <3>2
      <3>4. \A i \in 1 .. n : next[i].shown <= Len(next[i].text)
        <4> TAKE i \in 1 .. n
        <4>1. i # n => next[i] = all[i] /\ all[i].shown <= Len(all[i].text)
          BY <1>1, <3>3 DEF FilesFit
        <4> QED
          BY <4>1, <1>3, <3>2, <3>3
      <3>5. logs' = [logs EXCEPT ![r] = next]
        BY <2>1 DEF f
      <3> HIDE DEF next
      <3>6. text = IF n <= Len(all) THEN all[n].text ELSE <<>>
        BY <3>1
      <3>7. \A i \in 1 .. (n - 1) : next[i].text = all[i].text
        BY <3>3
      <3>8. next[n].text = text \o Halves(Lines(r, w + 1))
        BY <3>2, <3>3 DEF h
      <3>9. Len(all) <= n
        BY <3>1
      <3> HIDE DEF text
      <3>10. FilesFit(r, next, w + 1) /\ Grown(all, next, w)
        BY <1>1, <3>1, <3>2, <3>3, <3>4, <3>6, <3>7, <3>8, <3>9, FilesGrow
      <3> QED
        BY <1>1, <3>3, <3>5, <3>10
    <2>2. CASE logs' = [logs EXCEPT ![r] = Append([i \in 1 .. n |-> Whole(all[i])], [text |-> h, shown |-> 0])]
      <3> DEFINE old == [i \in 1 .. n |-> Whole(all[i])]
                 f == [text |-> h, shown |-> 0]
                 next == Append(old, f)
      <3>1. n \in Nat /\ old \in Seq(LogFile) /\ Len(old) = n
        BY <1>1, <1>2
      <3>2. f \in LogFile /\ f.text = h /\ f.shown = 0
        BY <1>3 DEF LogFile
      <3>3. \A i \in 1 .. n : old[i].text = all[i].text /\ old[i].shown = Len(all[i].text) /\ Len(all[i].text) \in Nat
        BY <1>2
      <3> HIDE DEF old, f
      <3>4. next \in Seq(LogFile) /\ Len(next) = n + 1 /\ next[n + 1] = f /\ \A i \in 1 .. n : next[i] = old[i]
        BY <3>1, <3>2
      <3>5. \A i \in 1 .. (n + 1) : next[i].shown <= Len(next[i].text)
        <4> TAKE i \in 1 .. (n + 1)
        <4>1. i \in 1 .. n \/ i = n + 1
          BY <3>1
        <4> QED
          BY <4>1, <1>3, <3>2, <3>3, <3>4
      <3>6. logs' = [logs EXCEPT ![r] = next]
        BY <2>2 DEF old, f
      <3> HIDE DEF next
      <3>7. next[n + 1].text = <<>> \o Halves(Lines(r, w + 1))
        BY <1>3, <3>2, <3>4 DEF h
      <3>8. \A i \in 1 .. ((n + 1) - 1) : next[i].text = all[i].text
        BY <3>1, <3>3, <3>4
      <3>9. <<>> \in Seq(Piece) /\ <<>> = IF n + 1 <= Len(all) THEN all[n + 1].text ELSE <<>>
        BY <3>1
      <3>10. n + 1 \in 1 .. (Len(all) + 1) /\ Len(all) <= n + 1
        BY <3>1
      <3>11. FilesFit(r, next, w + 1) /\ Grown(all, next, w)
        BY <1>1, <3>4, <3>5, <3>7, <3>8, <3>9, <3>10, FilesGrow
      <3> QED
        BY <1>1, <3>4, <3>6, <3>11
    <2> QED
      BY <1>4, <2>1, <2>2
  <1>6. written' \in [AllRanks -> Nat] /\ written'[r] = w + 1 /\ \A q \in AllRanks \ {r} : written'[q] = written[q]
    BY <1>1, <1>4
  <1>7. \A q \in AllRanks : written[q] <= written'[q] /\ written'[q] <= Len(job.snaps[q])
    <2> TAKE q \in AllRanks
    <2>0. Len(job.snaps[q]) \in Nat
      BY <1>1, CollectorAssumption DEF AllRanks
    <2>1. CASE q = r
      <3>1. written'[q] = w + 1 /\ written[q] = w
        BY <1>6, <2>1
      <3>2. w \in Nat /\ w + 1 <= Len(job.snaps[q])
        BY <1>1, <2>0, <2>1
      <3> QED
        BY <3>1, <3>2
    <2>2. CASE q # r
      <3>1. written'[q] = written[q]
        BY <1>6, <2>2
      <3>2. written[q] \in Nat /\ written[q] <= Len(job.snaps[q])
        BY <1>1
      <3> QED
        BY <3>1, <3>2
    <2> QED
      BY <2>1, <2>2
  <1>8. \A q \in LogRanks : FilesFit(q, logs'[q], written'[q]) /\ Grown(logs[q], logs'[q], written[q])
    <2> TAKE q \in LogRanks
    <2>1. CASE q = r
      BY <2>1, <1>5, <1>6
    <2>2. CASE q # r
      <3>1. logs'[q] = logs[q] /\ written'[q] = written[q] /\ logs[q] \in Seq(LogFile)
        BY <2>2, <1>1, <1>5, <1>6 DEF AllRanks
      <3>2. FilesFit(q, logs[q], written[q])
        BY DEF ReportInv
      <3> QED
        BY <3>1, <3>2, GrownSame
    <2> QED
      BY <2>1, <2>2
  <1> QED
    BY <1>4, <1>5, <1>6, <1>7, <1>8, LogsGrow

\* More of a log becomes visible.
LEMMA ShowPreserves ==
  ASSUME ReportInv, NEW r \in LogRanks, Show(r)
  PROVE  ReportInv'
  <1> DEFINE all == logs[r]
             n == Len(all)
  <1>1. all \in Seq(LogFile) /\ FilesFit(r, all, written[r]) /\ logs \in [LogRanks -> Seq(LogFile)]
        /\ written \in [AllRanks -> Nat] /\ all # <<>> /\ n \in 1 .. n
        /\ \A q \in AllRanks : written[q] <= Len(job.snaps[q])
    BY DEF ReportInv, ReportType, Show
  <1>2. PICK s \in (all[n].shown + 1) .. Len(all[n].text) : logs' = [logs EXCEPT ![r][n].shown = s]
    BY DEF Show
  <1> DEFINE f == [all[n] EXCEPT !.shown = s]
             next == [all EXCEPT ![n] = f]
  <1>3. all[n] \in LogFile
    BY <1>1
  <1>4. f \in LogFile /\ f.text = all[n].text /\ f.shown <= Len(all[n].text)
    BY <1>2, <1>3 DEF LogFile
  <1>5. logs' = [logs EXCEPT ![r] = next]
    BY <1>1, <1>2
  <1> HIDE DEF f
  <1>6. next \in Seq(LogFile) /\ Len(next) = n /\ \A i \in 1 .. n : next[i] = IF i = n THEN f ELSE all[i]
    BY <1>1, <1>4
  <1> HIDE DEF next
  <1>7. \A i \in 1 .. n : next[i].text = all[i].text /\ next[i].shown <= Len(all[i].text)
    BY <1>1, <1>4, <1>6 DEF FilesFit
  <1>8. FilesFit(r, next, written[r])
    BY <1>1, <1>6, <1>7 DEF FilesFit
  <1>9. Grown(all, next, written[r])
    <2>1. Grown(all, all, written[r])
      BY <1>1, GrownSame
    <2> QED
      BY <2>1, <1>6, <1>7 DEF Grown
  <1>10. UNCHANGED <<job, proc, reported, written>>
    BY DEF Show
  <1>11. \A q \in LogRanks : FilesFit(q, logs'[q], written'[q]) /\ Grown(logs[q], logs'[q], written[q])
    <2> TAKE q \in LogRanks
    <2>1. CASE q = r
      BY <2>1, <1>1, <1>5, <1>8, <1>9, <1>10
    <2>2. CASE q # r
      <3>1. logs'[q] = logs[q] /\ logs[q] \in Seq(LogFile) /\ FilesFit(q, logs[q], written[q])
        BY <2>2, <1>1, <1>5 DEF ReportInv
      <3> QED
        BY <3>1, <1>10, GrownSame
    <2> QED
      BY <2>1, <2>2
  <1>12. logs' \in [LogRanks -> Seq(LogFile)]
    BY <1>1, <1>5, <1>6
  <1>13. written' \in [AllRanks -> Nat] /\ \A q \in AllRanks : written[q] <= written'[q] /\ written'[q] <= Len(job.snaps[q])
    BY <1>1, <1>10
  <1> QED
    BY <1>10, <1>11, <1>12, <1>13, LogsGrow

-----------------------------------------------------------------------------
(* Collectors.                                                             *)

WorkOf(x) == [tails |-> x.tails, bodies |-> x.bodies, events |-> x.events]

\* A collector in a place that suits what it holds and what it has reported.
Suits(p, x, lg, w, rep) ==
  /\ WorkOf(x) \in Work
  /\ x.pc # "run" => Fresh(x)
  /\ x.pc \in {"none", "launch", "scan"} => \A i \in DOMAIN rep : rep[i].by # p
  /\ x.pc = "run" => RunFits(p, x, lg, w, rep)

\* What fits depends on the work alone.
LEMMA SameWorkFits ==
  ASSUME NEW p, NEW x, NEW y, WorkOf(x) = WorkOf(y), x.pc = y.pc, NEW lg, NEW w, NEW rep, Suits(p, x, lg, w, rep)
  PROVE  Suits(p, y, lg, w, rep)
  <1>1. x.tails = y.tails /\ x.bodies = y.bodies /\ x.events = y.events
    BY DEF WorkOf
  <1>2. Fresh(x) => Fresh(y)
    BY <1>1 DEF Fresh
  <1>3. RunFits(p, x, lg, w, rep) => RunFits(p, y, lg, w, rep)
    BY <1>1 DEF RunFits, PastFits
  <1> QED
    BY <1>2, <1>3 DEF Suits

\* The invariant, collector by collector.
LEMMA SuitsMeans ==
  ReportInv <=> /\ job \in Jobs
                /\ written \in [AllRanks -> Nat] /\ \A r \in AllRanks : written[r] <= Len(job.snaps[r])
                /\ logs \in [LogRanks -> Seq(LogFile)] /\ reported \in Seq(SoundReport)
                /\ \A r \in LogRanks : FilesFit(r, logs[r], written[r])
                /\ \A p \in Pids : Suits(p, proc[p], logs, written, reported)
                /\ ReportsInOrder
  BY DEF ReportInv, ReportType, Suits, WorkOf

\* The job never changes.
LEMMA SuitsNext ==
  ASSUME UNCHANGED job, NEW p \in Pids, Suits(p, proc'[p], logs', written', reported')
  PROVE  Suits(p, proc[p], logs, written, reported)'
  <1>1. RunFits(p, proc'[p], logs', written', reported') => RunFits(p, proc[p], logs, written, reported)'
    BY FitsNext
  <1> QED
    BY <1>1 DEF Suits, Fresh, WorkOf

\* Collectors change.
LEMMA ProcsChange ==
  ASSUME ReportInv, UNCHANGED <<job, logs, written, reported>>,
         \A p \in Pids : \/ proc'[p] = proc[p]
                         \/ proc'[p].pc = proc[p].pc /\ WorkOf(proc'[p]) = WorkOf(proc[p])
                         \/ Suits(p, proc'[p], logs, written, reported)
  PROVE  ReportInv'
  <1>1. ASSUME NEW p \in Pids PROVE Suits(p, proc[p], logs, written, reported)'
    <2>1. Suits(p, proc[p], logs, written, reported)
      BY SuitsMeans
    <2>2. Suits(p, proc'[p], logs, written, reported)
      BY <2>1, SameWorkFits, Zenon
    <2>3. Suits(p, proc'[p], logs', written', reported')
      BY <2>2, Zenon
    <2> QED
      BY <2>3, SuitsNext
  <1>2. /\ job' \in Jobs
        /\ written' \in [AllRanks -> Nat] /\ \A r \in AllRanks : written'[r] <= Len(job'.snaps[r])
        /\ logs' \in [LogRanks -> Seq(LogFile)] /\ reported' \in Seq(SoundReport)
    BY DEF ReportInv, ReportType
  <1>3. \A r \in LogRanks : FilesFit(r, logs[r], written[r])'
    BY DEF ReportInv
  <1>4. ReportsInOrder'
    BY DEF ReportInv, ReportsInOrder
  <1> QED
    BY <1>1, <1>2, <1>3, <1>4 DEF ReportInv, ReportType, Suits, WorkOf

\* A collector that has read and reported nothing suits any place but the end.
LEMMA FreshSuits ==
  ASSUME NEW p, NEW x, Fresh(x), NEW lg, NEW w, NEW rep, \A i \in DOMAIN rep : rep[i].by # p
  PROVE  Suits(p, x, lg, w, rep)
  <1>1. x.tails = [r \in LogRanks |-> NewTail] /\ x.bodies = <<>> /\ x.events = <<>>
    BY DEF Fresh
  <1>2. NewTail \in LogTail /\ NewTail.file = 0 /\ NewTail.eof = TRUE
    BY DEF NewTail, LogTail, NoTags
  <1>3. WorkOf(x) \in Work
    BY <1>1, <1>2 DEF WorkOf, Work
  <1>4. DOMAIN x.events = {} /\ DOMAIN x.bodies = {}
    BY <1>1
  <1>5. Past(p, x.events, rep) = {}
    BY <1>4 DEF Past
  <1>6. \A r \in LogRanks : TailFits(x.tails[r], lg[r])
    BY <1>1, <1>2 DEF TailFits
  <1>7. RunFits(p, x, lg, w, rep)
    BY <1>4, <1>5, <1>6 DEF RunFits, InOrder, ReportsBefore, BodiesFit, PastFits
  <1> QED
    BY <1>3, <1>7 DEF Suits

\* A collector that is gone suits.
LEMMA GoneSuits ==
  ASSUME NEW p, NEW lg, NEW w, NEW rep
  PROVE  Suits(p, [NewProc EXCEPT !.pc = "gone"], lg, w, rep)
  <1> DEFINE x == [NewProc EXCEPT !.pc = "gone"]
  <1>1. x.pc = "gone" /\ x.tails = [r \in LogRanks |-> NewTail] /\ x.bodies = <<>> /\ x.events = <<>>
    BY DEF NewProc
  <1> HIDE DEF x
  <1>2. NewTail \in LogTail
    BY DEF NewTail, LogTail, NoTags
  <1>3. WorkOf(x) \in Work /\ Fresh(x)
    BY <1>1, <1>2 DEF WorkOf, Work, Fresh
  <1>4. Suits(p, x, lg, w, rep)
    BY <1>1, <1>3 DEF Suits
  <1> QED
    BY <1>4 DEF x

\* One collector starts, looks around, goes on to the next of its list, or begins to work.
LEMMA PlacesPreserve ==
  ASSUME ReportInv, CollectorType,
         LaunchCollectorDaemon \/ \E p \in Pids : BeginScan(p) \/ FirstOrDie(p) \/ StartParser(p)
  PROVE  ReportInv'
  <1>1. proc = [p \in Pids |-> proc[p]] /\ (\A p \in Pids : Shape(proc[p])) /\ job.pids \subseteq Pids
    BY DEF CollectorType
  <1>2. \A p \in Pids : Suits(p, proc[p], logs, written, reported)
    BY SuitsMeans
  <1>3. UNCHANGED <<job, logs, written, reported>>
    BY DEF LaunchCollectorDaemon, BeginScan, FirstOrDie, StartParser
  <1>4. ASSUME NEW p \in Pids, NEW x, proc[p].pc \in {"none", "launch", "scan"}, WorkOf(x) = WorkOf(proc[p])
        PROVE  Suits(p, x, logs, written, reported)
    <2>1. Fresh(proc[p]) /\ \A i \in DOMAIN reported : reported[i].by # p
      BY <1>2, <1>4 DEF Suits
    <2>2. Fresh(x)
      BY <1>4, <2>1 DEF Fresh, WorkOf
    <2> QED
      BY <2>1, <2>2, FreshSuits
  <1>5. ASSUME NEW p \in Pids, proc[p].pc \in {"none", "launch", "scan"}, WorkOf(proc'[p]) = WorkOf(proc[p]),
               \A q \in Pids \ {p} : proc'[q] = proc[q]
        PROVE  ReportInv'
    <2>1. Suits(p, proc'[p], logs, written, reported)
      BY <1>4, <1>5
    <2> QED
      BY <1>3, <1>5, <2>1, ProcsChange
  <1>6. CASE LaunchCollectorDaemon
    <2>1. PICK p \in Unused :
            proc' = [proc EXCEPT ![p] = [proc[p] EXCEPT !.pc = "launch", !.start = clock, !.version = release]]
      BY <1>1, <1>6 DEF LaunchCollectorDaemon, Unused
    <2> DEFINE x == [proc[p] EXCEPT !.pc = "launch", !.start = clock, !.version = release]
    <2>2. p \in Pids /\ proc[p].pc = "none"
      BY <1>1, <2>1 DEF Unused
    <2>3. proc' = [proc EXCEPT ![p] = x]
      BY <2>1
    <2>4. WorkOf(x) = WorkOf(proc[p])
      BY <1>1, <2>2 DEF WorkOf, Shape, Fields
    <2> HIDE DEF x
    <2>5. proc[p].pc \in {"none", "launch", "scan"}
      BY <2>2
    <2> QED
      BY <1>1, <2>2, <2>3, <2>4, <2>5, <1>5
  <1>7. ASSUME NEW p \in Pids, BeginScan(p) PROVE ReportInv'
    <2> DEFINE x == [proc[p] EXCEPT !.pc = "scan", !.todo = {q \in Pids : proc[q].pc \notin {"none", "gone"}}]
    <2>1. proc[p].pc = "launch" /\ proc' = [proc EXCEPT ![p] = x]
      BY <1>1, <1>7 DEF BeginScan
    <2>2. WorkOf(x) = WorkOf(proc[p])
      BY <1>1 DEF WorkOf, Shape, Fields
    <2> HIDE DEF x
    <2>3. proc[p].pc \in {"none", "launch", "scan"}
      BY <2>1
    <2> QED
      BY <1>1, <2>1, <2>2, <2>3, <1>5
  <1>8. ASSUME NEW p \in Pids, StartParser(p) PROVE ReportInv'
    <2> DEFINE x == [proc[p] EXCEPT !.pc = "run"]
    <2>1. proc[p].pc = "scan" /\ proc' = [proc EXCEPT ![p] = x]
      BY <1>1, <1>8 DEF StartParser
    <2>2. WorkOf(x) = WorkOf(proc[p])
      BY <1>1 DEF WorkOf, Shape, Fields
    <2> HIDE DEF x
    <2>3. proc[p].pc \in {"none", "launch", "scan"}
      BY <2>1
    <2> QED
      BY <1>1, <2>1, <2>2, <2>3, <1>5
  <1>9. ASSUME NEW p \in Pids, FirstOrDie(p) PROVE ReportInv'
    <2> DEFINE q == Min(proc[p].todo)
               x == [proc[p] EXCEPT !.todo = @ \ {q}]
               next == [proc EXCEPT ![p] = x]
               gone == [NewProc EXCEPT !.pc = "gone"]
    <2>1. proc[p].pc = "scan" /\ (proc' = [next EXCEPT ![q] = gone] \/ proc' = [next EXCEPT ![p] = gone] \/ proc' = next)
      BY <1>1, <1>9 DEF FirstOrDie
    <2> HIDE DEF q
    <2>2. WorkOf(x) = WorkOf(proc[p])
      BY <1>1 DEF WorkOf, Shape, Fields
    <2> HIDE DEF x, gone
    <2>3. \A s \in Pids : proc'[s] \in {proc[s], gone} \/ (s = p /\ proc'[s] = x)
      BY <1>1, <2>1
    <2>4. Suits(p, x, logs, written, reported)
      BY <2>1, <2>2, <1>4
    <2>5. \A s \in Pids : Suits(s, gone, logs, written, reported)
      BY GoneSuits DEF gone
    <2>6. \A s \in Pids : proc'[s] = proc[s] \/ Suits(s, proc'[s], logs, written, reported)
      BY <2>3, <2>4, <2>5
    <2> QED
      BY <1>3, <2>6, ProcsChange
  <1> QED
    BY <1>6, <1>7, <1>8, <1>9

\* A collector that runs reads on, and puts new events behind those it has.
LEMMA RunMoves ==
  ASSUME ReportInv, CollectorType, NEW p \in Running, UNCHANGED <<job, logs, written, reported>>,
         NEW t \in [LogRanks -> LogTail], NEW b \in Seq(Seq(Line)), NEW new \in Seq(SoundEvent),
         \A q \in Pids \ {p} : proc'[q] = proc[q], proc'[p].pc = "run",
         WorkOf(proc'[p]) = [tails |-> t, bodies |-> b, events |-> proc[p].events \o new],
         \A r \in LogRanks : TailFits(t[r], logs[r]), BodiesFit(b, written), InOrder(new),
         \A e \in Past(p, proc[p].events, reported) : \A j \in DOMAIN new : e.rank = new[j].rank => Earlier(e, new[j]),
         \A e \in Past(p, proc[p].events, reported) \cup {new[j] : j \in DOMAIN new} :
           /\ e.snap <= written[e.rank]
           /\ \A r \in LogRanks : e.rank = r => BeforeRest(e, t[r], logs[r])
           /\ \A i \in DOMAIN b : b[i][1].rank = e.rank => e.snap < b[i][1].snap
  PROVE  ReportInv'
  <1> DEFINE old == proc[p].events
             events == old \o new
             y == proc'[p]
  <1>1. p \in Pids /\ proc[p].pc = "run"
    BY DEF Running
  <1>2. Suits(p, proc[p], logs, written, reported)
    BY <1>1, SuitsMeans
  <1>3. old \in Seq(SoundEvent) /\ InOrder(old) /\ ReportsBefore(p, old, reported)
    BY <1>1, <1>2 DEF Suits, WorkOf, Work, RunFits
  <1>4. events \in Seq(SoundEvent) /\ Len(events) = Len(old) + Len(new) /\ Len(old) \in Nat /\ Len(new) \in Nat
        /\ DOMAIN events = 1 .. Len(events) /\ DOMAIN old = 1 .. Len(old) /\ DOMAIN new = 1 .. Len(new)
    BY <1>3
  <1>5. (\A i \in DOMAIN old : events[i] = old[i]) /\ (\A i \in DOMAIN new : events[Len(old) + i] = new[i])
    BY <1>3
  <1>6. \A i \in DOMAIN events : i \in DOMAIN old \/ \E j \in DOMAIN new : i = Len(old) + j
    <2> TAKE i \in DOMAIN events
    <2>0. i \in 1 .. (Len(old) + Len(new)) /\ Len(old) \in Nat /\ Len(new) \in Nat
      BY <1>4
    <2> HIDE DEF events, old
    <2>1. i > Len(old) => i - Len(old) \in 1 .. Len(new) /\ i = Len(old) + (i - Len(old))
      BY <2>0
    <2> QED
      BY <2>1, <1>4
  <1>7. y.tails = t /\ y.bodies = b /\ y.events = events
    BY DEF WorkOf
  <1> HIDE DEF events, old, y
  <1>8. \A i \in DOMAIN old : old[i] \in Past(p, old, reported)
    BY DEF Past
  <1>9. InOrder(events)
    <2> SUFFICES ASSUME NEW i \in DOMAIN events, NEW j \in DOMAIN events, i < j, events[i].rank = events[j].rank
                 PROVE  Earlier(events[i], events[j])
      BY DEF InOrder
    <2>1. CASE j \in DOMAIN old
      <3>0. i \in 1 .. Len(events) /\ j \in 1 .. Len(old)
        BY <2>1, <1>4
      <3>1. i \in DOMAIN old
        BY <3>0, <1>4
      <3> QED
        BY <2>1, <3>1, <1>3, <1>5 DEF InOrder
    <2>2. CASE \E k \in DOMAIN new : j = Len(old) + k
      <3>1. PICK k \in DOMAIN new : j = Len(old) + k
        BY <2>2
      <3>2. events[j] = new[k]
        BY <3>1, <1>5
      <3>3. CASE i \in DOMAIN old
        <4>1. events[i] = old[i] /\ old[i] \in Past(p, old, reported)
          BY <3>3, <1>5, <1>8
        <4> QED
          BY <3>2, <4>1 DEF old
      <3>4. CASE \E h \in DOMAIN new : i = Len(old) + h
        <4>1. PICK h \in DOMAIN new : i = Len(old) + h
          BY <3>4
        <4>2. events[i] = new[h] /\ h < k
          BY <3>1, <4>1, <1>4, <1>5
        <4> QED
          BY <3>2, <4>2 DEF InOrder
      <3> QED
        BY <3>3, <3>4, <1>6
    <2> QED
      BY <2>1, <2>2, <1>6
  <1>10. ReportsBefore(p, events, reported)
    <2> SUFFICES ASSUME NEW i \in DOMAIN reported, NEW j \in DOMAIN events, reported[i].by = p,
                        reported[i].rank = events[j].rank
                 PROVE  Earlier(reported[i], events[j])
      BY DEF ReportsBefore
    <2>1. CASE j \in DOMAIN old
      BY <2>1, <1>3, <1>5 DEF ReportsBefore
    <2>2. CASE \E k \in DOMAIN new : j = Len(old) + k
      <3>1. PICK k \in DOMAIN new : j = Len(old) + k
        BY <2>2
      <3>2. events[j] = new[k]
        BY <3>1, <1>5
      <3>3. reported[i] \in Past(p, old, reported)
        BY DEF Past
      <3> QED
        BY <3>2, <3>3 DEF old
    <2> QED
      BY <2>1, <2>2, <1>6
  <1>11. \A e \in Past(p, events, reported) : e \in Past(p, old, reported) \cup {new[j] : j \in DOMAIN new}
    <2> SUFFICES ASSUME NEW e \in Past(p, events, reported), ~(e \in {new[j] : j \in DOMAIN new})
                 PROVE  e \in Past(p, old, reported)
      OBVIOUS
    <2>1. CASE \E i \in DOMAIN events : e = events[i]
      <3>1. PICK i \in DOMAIN events : e = events[i]
        BY <2>1
      <3>2. i \in DOMAIN old
        BY <3>1, <1>5, <1>6
      <3> QED
        BY <3>1, <3>2, <1>5, <1>8
    <2>2. CASE \E i \in DOMAIN reported : reported[i].by = p /\ e = reported[i]
      BY <2>2 DEF Past
    <2> QED
      BY <2>1, <2>2 DEF Past
  <1>12. PastFits(p, y, logs, written, reported)
    BY <1>7, <1>11 DEF PastFits, old
  <1>13. RunFits(p, y, logs, written, reported)
    BY <1>7, <1>9, <1>10, <1>12 DEF RunFits
  <1>14. WorkOf(y) \in Work
    BY <1>4, <1>7 DEF WorkOf, Work
  <1>15. Suits(p, y, logs, written, reported)
    BY <1>13, <1>14 DEF Suits, y
  <1> QED
    BY <1>15, ProcsChange DEF y

\* A parser that has read on has less to read.
LEMMA RestShrinks ==
  ASSUME NEW files, NEW e, NEW tail \in LogTail, NEW next \in LogTail, BeforeRest(e, tail, files),
         next.file > tail.file \/ (next.file = tail.file /\ next.pos >= tail.pos)
  PROVE  BeforeRest(e, next, files)
  <1> SUFFICES ASSUME NEW n \in 1 .. Len(files), NEW i \in 1 .. Len(files[n].text), 2 * i <= Len(files[n].text),
                      n > next.file \/ (n = next.file /\ 2 * i > next.pos)
               PROVE  Earlier(e, LineAt(files[n].text, i))
    BY DEF BeforeRest
  <1>1. tail.file \in Nat /\ next.file \in Nat /\ tail.pos \in Nat /\ next.pos \in Nat
    BY DEF LogTail
  <1>2. n > tail.file \/ (n = tail.file /\ 2 * i > tail.pos)
    BY <1>1
  <1> QED
    BY <1>2 DEF BeforeRest

\* The parser of one log moves, and has an event or not.
TailStep(p, r, t, new) ==
  /\ \A q \in Pids \ {p} : proc'[q] = proc[q]
  /\ proc'[p].pc = "run"
  /\ WorkOf(proc'[p]) = [tails |-> [proc[p].tails EXCEPT ![r] = t], bodies |-> proc[p].bodies,
                         events |-> proc[p].events \o new]
  /\ TailFits(t, logs[r]) /\ InOrder(new)
  /\ t.file > proc[p].tails[r].file \/ (t.file = proc[p].tails[r].file /\ t.pos >= proc[p].tails[r].pos)
  /\ \A j \in DOMAIN new :
       /\ new[j].rank = r /\ new[j].snap <= written[r] /\ BeforeRest(new[j], t, logs[r])
       /\ \A e \in Past(p, proc[p].events, reported) : e.rank = r => Earlier(e, new[j])

\* Such a step keeps the invariant.
LEMMA TailMoves ==
  ASSUME ReportInv, CollectorType, NEW p \in Running, UNCHANGED <<job, logs, written, reported>>,
         NEW r \in LogRanks, NEW t \in LogTail, NEW new \in Seq(SoundEvent), TailStep(p, r, t, new)
  PROVE  ReportInv'
  <1> DEFINE x == proc[p]
             tails == [x.tails EXCEPT ![r] = t]
  <1>0. /\ \A q \in Pids \ {p} : proc'[q] = proc[q]
        /\ proc'[p].pc = "run"
        /\ WorkOf(proc'[p]) = [tails |-> [proc[p].tails EXCEPT ![r] = t], bodies |-> proc[p].bodies,
                               events |-> proc[p].events \o new]
        /\ TailFits(t, logs[r]) /\ InOrder(new)
        /\ t.file > proc[p].tails[r].file \/ (t.file = proc[p].tails[r].file /\ t.pos >= proc[p].tails[r].pos)
        /\ \A j \in DOMAIN new :
             /\ new[j].rank = r /\ new[j].snap <= written[r] /\ BeforeRest(new[j], t, logs[r])
             /\ \A e \in Past(p, proc[p].events, reported) : e.rank = r => Earlier(e, new[j])
    BY DEF TailStep
  <1>1. p \in Pids /\ proc[p].pc = "run"
    BY DEF Running
  <1>2. RunFits(p, x, logs, written, reported) /\ x.tails \in [LogRanks -> LogTail] /\ x.bodies \in Seq(Seq(Line))
    BY <1>1 DEF ReportInv, ReportType, Work
  <1> HIDE DEF x
  <1>3. tails \in [LogRanks -> LogTail] /\ tails[r] = t /\ \A q \in LogRanks \ {r} : tails[q] = x.tails[q]
    BY <1>2
  <1> HIDE DEF tails
  <1>4. \A q \in LogRanks : TailFits(tails[q], logs[q])
    BY <1>0, <1>2, <1>3 DEF RunFits
  <1>5. BodiesFit(x.bodies, written)
    BY <1>2 DEF RunFits
  <1>6. \A e \in Past(p, x.events, reported) :
          /\ e.snap <= written[e.rank]
          /\ \A q \in LogRanks : e.rank = q => BeforeRest(e, tails[q], logs[q])
          /\ \A i \in DOMAIN x.bodies : x.bodies[i][1].rank = e.rank => e.snap < x.bodies[i][1].snap
    <2> SUFFICES ASSUME NEW e \in Past(p, x.events, reported)
                 PROVE  /\ e.snap <= written[e.rank]
                        /\ \A q \in LogRanks : e.rank = q => BeforeRest(e, tails[q], logs[q])
                        /\ \A i \in DOMAIN x.bodies : x.bodies[i][1].rank = e.rank => e.snap < x.bodies[i][1].snap
      OBVIOUS
    <2>1. /\ e.snap <= written[e.rank]
          /\ \A q \in LogRanks : e.rank = q => BeforeRest(e, x.tails[q], logs[q])
          /\ \A i \in DOMAIN x.bodies : x.bodies[i][1].rank = e.rank => e.snap < x.bodies[i][1].snap
      BY <1>2 DEF RunFits, PastFits
    <2>2. ASSUME NEW q \in LogRanks, e.rank = q PROVE BeforeRest(e, tails[q], logs[q])
      <3>1. BeforeRest(e, x.tails[q], logs[q]) /\ x.tails[q] \in LogTail
        BY <2>1, <2>2, <1>2
      <3>2. CASE q = r
        <4>1. BeforeRest(e, t, logs[q])
          BY <1>0, <3>1, <3>2, RestShrinks DEF x
        <4> QED
          BY <3>2, <4>1, <1>3
      <3>3. CASE q # r
        BY <3>1, <3>3, <1>3
      <3> QED
        BY <3>2, <3>3
    <2> QED
      BY <2>1, <2>2
  <1>7. \A i \in DOMAIN x.bodies : x.bodies[i][1].rank # r
    <2> TAKE i \in DOMAIN x.bodies
    <2>1. IsBody(x.bodies[i], written)
      BY <1>5 DEF BodiesFit
    <2>2. PICK q \in SockRanks : \E k \in 1 .. written[q] : x.bodies[i] = Lines(q, k)
      BY <2>1 DEF IsBody
    <2>3. PICK k \in 1 .. written[q] : x.bodies[i] = Lines(q, k)
      BY <2>2
    <2>4. q \in AllRanks /\ job \in Jobs /\ k \in 1 .. Len(job.snaps[q])
      <3>1. job \in Jobs /\ written[q] <= Len(job.snaps[q]) /\ written[q] \in Nat
        BY DEF ReportInv, ReportType, AllRanks
      <3>2. Len(job.snaps[q]) \in Nat
        BY <3>1, CollectorAssumption
      <3> QED
        BY <3>1, <3>2 DEF AllRanks
    <2>5. x.bodies[i][1].rank = q
      <3>1. Len(Lines(q, k)) >= 1 /\ Len(Lines(q, k)) \in Nat
        BY <2>4, LinesFacts
      <3>2. 1 \in 1 .. Len(Lines(q, k))
        BY <3>1
      <3> QED
        BY <2>3, <2>4, <3>2, LinesFacts
    <2> QED
      BY <2>5, CollectorAssumption
  <1>8. \A e \in {new[j] : j \in DOMAIN new} :
          /\ e.snap <= written[e.rank]
          /\ \A q \in LogRanks : e.rank = q => BeforeRest(e, tails[q], logs[q])
          /\ \A i \in DOMAIN x.bodies : x.bodies[i][1].rank = e.rank => e.snap < x.bodies[i][1].snap
    BY <1>0, <1>3, <1>7
  <1>9. \A e \in Past(p, x.events, reported) : \A j \in DOMAIN new : e.rank = new[j].rank => Earlier(e, new[j])
    BY <1>0 DEF x
  <1>10. WorkOf(proc'[p]) = [tails |-> tails, bodies |-> x.bodies, events |-> x.events \o new]
    BY <1>0 DEF tails, x
  <1>11. \A e \in Past(p, x.events, reported) \cup {new[j] : j \in DOMAIN new} :
          /\ e.snap <= written[e.rank]
          /\ \A q \in LogRanks : e.rank = q => BeforeRest(e, tails[q], logs[q])
          /\ \A i \in DOMAIN x.bodies : x.bodies[i][1].rank = e.rank => e.snap < x.bodies[i][1].snap
    BY <1>6, <1>8
  <1> QED
    BY <1>0, <1>2, <1>3, <1>4, <1>5, <1>9, <1>10, <1>11, RunMoves DEF x

\* The next line of the log where a parser stands behind the k-th: it is whole, it is later than all
\* that came before the rest, and it is earlier than what comes after.
IsNext(r, w, files, n, x, k, l, pos) ==
  /\ x[2 * k + 1] = [line |-> l, half |-> 1] /\ x[2 * k + 2] = [line |-> l, half |-> 2]
  /\ l \in Line /\ l.rank = r /\ l.snap \in Nat /\ l.snap # 0 /\ l.no \in Nat /\ l.snap <= w
  /\ l.no = 0 => l.kind = "group"
  /\ l.no # 0 => k > 0 /\ LineAt(x, k).snap = l.snap
  /\ \A e, tail : tail.file = n /\ tail.pos = pos /\ BeforeRest(e, tail, files) => Earlier(e, l)
  /\ \A e, tail : e.snap = l.snap /\ e.no = l.no /\ tail.file = n /\ tail.pos = 2 * k + 2 =>
                    BeforeRest(e, tail, files)

\* So it is in every log that fits.
LEMMA NextLine ==
  ASSUME NEW r, NEW w \in Nat, NEW files \in Seq(LogFile), FilesFit(r, files, w), NEW n \in 1 .. Len(files),
         NEW x \in Seq(Piece), x = files[n].text, NEW k \in Nat, 2 * k + 2 <= Len(x),
         NEW l, l = LineAt(x, k + 1), NEW pos \in Nat, pos <= 2 * k + 1
  PROVE  IsNext(r, w, files, n, x, k, l, pos)
  <1>1. k + 1 \in 1 .. Len(x) /\ 2 * (k + 1) = 2 * k + 2 /\ 2 * (k + 1) - 1 = 2 * k + 1 /\ (k + 1) - 1 = k
        /\ 2 * (k + 1) <= Len(x) /\ Len(x) \in Nat
    OBVIOUS
  <1>2. TextFits(r, x, w)
    BY DEF FilesFit
  <1>3. l \in Line /\ l.snap \in Nat \ {0} /\ l.no \in Nat
    <2>1. l \in Line
      BY <1>1, LineTyped
    <2> QED
      BY <2>1 DEF Line
  <1>4. /\ x[2 * (k + 1) - 1] = [line |-> l, half |-> 1]
        /\ x[2 * (k + 1)] = [line |-> l, half |-> 2]
        /\ l.rank = r /\ l.snap <= w
        /\ l.no = 0 => l.kind = "group"
        /\ l.no # 0 => k + 1 > 1 /\ LineAt(x, (k + 1) - 1).snap = l.snap
    BY <1>1, <1>2, Zenon DEF TextFits
  <1>5. /\ x[2 * k + 1] = [line |-> l, half |-> 1] /\ x[2 * k + 2] = [line |-> l, half |-> 2]
        /\ l.no # 0 => LineAt(x, k).snap = l.snap
    BY <1>1, <1>4, Zenon
  <1>6. l.no # 0 => k > 0
    BY <1>4
  <1>7. ASSUME NEW e, NEW tail, tail.file = n, tail.pos = pos, BeforeRest(e, tail, files)
        PROVE  Earlier(e, l)
    <2>1. 2 * (k + 1) > pos /\ k + 1 \in 1 .. Len(files[n].text) /\ 2 * (k + 1) <= Len(files[n].text)
      BY <1>1
    <2>2. Earlier(e, LineAt(files[n].text, k + 1))
      BY <1>7, <2>1, Zenon DEF BeforeRest
    <2> QED
      BY <2>2
  <1>8. ASSUME NEW e, NEW tail, e.snap = l.snap, e.no = l.no, tail.file = n, tail.pos = 2 * k + 2
        PROVE  BeforeRest(e, tail, files)
    <2> SUFFICES ASSUME NEW m \in 1 .. Len(files), NEW i \in 1 .. Len(files[m].text), 2 * i <= Len(files[m].text),
                        m > n \/ (m = n /\ 2 * i > 2 * k + 2)
                 PROVE  Earlier(e, LineAt(files[m].text, i))
      BY <1>8 DEF BeforeRest
    <2>1. Earlier(l, LineAt(files[m].text, i))
      <3>1. CASE m > n
        <4>1. n < m /\ k + 1 \in 1 .. Len(files[n].text) /\ 2 * (k + 1) <= Len(files[n].text)
          BY <3>1, <1>1
        <4>2. Earlier(LineAt(files[n].text, k + 1), LineAt(files[m].text, i))
          BY <4>1, Zenon DEF FilesFit
        <4> QED
          BY <4>2
      <3>2. CASE m = n /\ 2 * i > 2 * k + 2
        <4>1. i \in 1 .. Len(x) /\ 2 * i <= Len(x) /\ files[m].text = x
          BY <3>2
        <4>2. k + 1 < i
          <5>1. i \in Int /\ 2 * i > 2 * k + 2
            BY <3>2, <4>1
          <5> QED
            BY <5>1
        <4>3. Earlier(LineAt(x, k + 1), LineAt(x, i))
          BY <4>1, <4>2, <1>1, <1>2, Zenon DEF TextFits
        <4> QED
          BY <4>1, <4>3
      <3> QED
        BY <3>1, <3>2
    <2> QED
      BY <2>1, <1>8 DEF Earlier
  <1> QED
    BY <1>3, <1>4, <1>5, <1>6, <1>7, <1>8 DEF IsNext

\* One more at the end.
LEMMA AppendOne == ASSUME NEW E, NEW s \in Seq(E), NEW e \in E PROVE Append(s, e) = s \o <<e>>
  OBVIOUS

\* A line that a parser has read whole, in the log where it stands behind the k-th line.
LEMMA HandleFits ==
  ASSUME ReportInv, CollectorType, NEW p \in Running, NEW r \in LogRanks,
         UNCHANGED <<job, clock, release, logs, written, reported>>,
         NEW tail \in LogTail, tail = proc[p].tails[r], tail.ok, NEW n \in 1 .. Len(logs[r]), tail.file = n,
         NEW x \in Seq(Piece), x = logs[r][n].text,
         NEW k \in Nat, 2 * k + 2 <= Len(x), Stands(tail, x, k),
         NEW next \in LogTail, next = [tail EXCEPT !.pos = 2 * k + 2, !.part = <<>>],
         Handle(p, r, next, <<x[2 * k + 1], x[2 * k + 2]>>)
  PROVE  ReportInv'
  <1> DEFINE l == LineAt(x, k + 1)
             pieces == <<x[2 * k + 1], x[2 * k + 2]>>
  <1>1. p \in Pids /\ proc[p].pc = "run" /\ r \in AllRanks
    BY DEF Running, AllRanks
  <1>2. RunFits(p, proc[p], logs, written, reported) /\ proc[p].tails \in [LogRanks -> LogTail]
        /\ proc[p].bodies \in Seq(Seq(Line)) /\ proc[p].events \in Seq(SoundEvent)
    BY <1>1 DEF ReportInv, ReportType, Work
  <1>3. logs[r] \in Seq(LogFile) /\ FilesFit(r, logs[r], written[r]) /\ written[r] \in Nat
    BY <1>1 DEF ReportInv, ReportType
  <1>4. tail.pos \in Nat /\ tail.pos <= 2 * k + 1
    BY DEF LogTail, Stands
  <1>5. /\ x[2 * k + 1] = [line |-> l, half |-> 1] /\ x[2 * k + 2] = [line |-> l, half |-> 2]
        /\ l \in Line /\ l.rank = r /\ l.snap \in Nat /\ l.snap # 0 /\ l.no \in Nat /\ l.snap <= written[r]
        /\ l.no = 0 => l.kind = "group"
        /\ l.no # 0 => k > 0 /\ LineAt(x, k).snap = l.snap
        /\ \A e, t : t.file = n /\ t.pos = tail.pos /\ BeforeRest(e, t, logs[r]) => Earlier(e, l)
        /\ \A e, t : e.snap = l.snap /\ e.no = l.no /\ t.file = n /\ t.pos = 2 * k + 2 => BeforeRest(e, t, logs[r])
    <2>1. l = LineAt(x, k + 1)
      OBVIOUS
    <2> HIDE DEF l
    <2>2. IsNext(r, written[r], logs[r], n, x, k, l, tail.pos)
      BY <2>1, <1>3, <1>4, NextLine, Zenon
    <2> QED
      BY <2>2 DEF IsNext
  <1> HIDE DEF l
  <1>6. pieces[1].line = l /\ pieces[2].line = l /\ Len(pieces) = 2
    BY <1>5
  <1>7. Handle(p, r, next, pieces)
    OBVIOUS
  <1> HIDE DEF pieces
  <1>8. next.file = n /\ next.pos = 2 * k + 2 /\ next.part = <<>> /\ next.ok = tail.ok /\ next.tags = tail.tags
    BY DEF LogTail
  <1>9. ASSUME NEW t \in LogTail, t.file = n, t.pos = 2 * k + 2, t.part = <<>>, t.ok => t.tags = l.snap
        PROVE  TailFits(t, logs[r]) /\ t.file = proc[p].tails[r].file /\ t.pos >= proc[p].tails[r].pos
    <2>1. LineAt(x, k + 1).snap = l.snap /\ 2 * (k + 1) = 2 * k + 2 /\ k + 1 \in 0 .. Len(x) /\ n > 0 /\ Len(x) \in Nat
      BY DEF l
    <2>2. Stands(t, x, k + 1)
      BY <1>9, <2>1 DEF Stands
    <2>3. TailFits(t, logs[r])
      BY <1>9, <2>1, <2>2 DEF TailFits
    <2>4. t.pos >= tail.pos
      BY <1>4, <1>9
    <2> QED
      BY <1>9, <2>3, <2>4
  <1>10. Shape(proc[p]) /\ proc = [q \in Pids |-> proc[q]]
    BY <1>1 DEF CollectorType
  <1>11. ASSUME NEW t \in LogTail, t.file = n, t.pos = 2 * k + 2, t.part = <<>>, t.ok => t.tags = l.snap,
                proc' = [proc EXCEPT ![p].tails[r] = t]
         PROVE  ReportInv'
    <2> DEFINE none == <<>>
    <2>1. (\A q \in Pids \ {p} : proc'[q] = proc[q]) /\ proc'[p].pc = "run"
          /\ WorkOf(proc'[p]) = [tails |-> [proc[p].tails EXCEPT ![r] = t], bodies |-> proc[p].bodies,
                                 events |-> proc[p].events]
      BY <1>1, <1>10, <1>11 DEF WorkOf, Shape, Fields
    <2>2. none \in Seq(SoundEvent) /\ InOrder(none) /\ proc[p].events \o none = proc[p].events /\ DOMAIN none = {}
      BY <1>2 DEF InOrder
    <2> HIDE DEF none
    <2>3. TailFits(t, logs[r]) /\ t.file = proc[p].tails[r].file /\ t.pos >= proc[p].tails[r].pos
      BY <1>9, <1>11
    <2>4. WorkOf(proc'[p]) = [tails |-> [proc[p].tails EXCEPT ![r] = t], bodies |-> proc[p].bodies,
                              events |-> proc[p].events \o none]
      BY <2>1, <2>2
    <2>5. TailStep(p, r, t, none)
      BY <2>1, <2>2, <2>3, <2>4 DEF TailStep
    <2> QED
      BY <2>2, <2>5, <1>11, TailMoves
  <1>12. CASE l.kind = "group" /\ proc' = [proc EXCEPT ![p].tails[r] = [next EXCEPT !.tags = l.snap]]
    <2> DEFINE t == [next EXCEPT !.tags = l.snap]
    <2>1. t \in LogTail /\ t.file = n /\ t.pos = 2 * k + 2 /\ t.part = <<>> /\ t.tags = l.snap
      BY <1>5, <1>8 DEF LogTail
    <2>2. proc' = [proc EXCEPT ![p].tails[r] = t]
      BY <1>12
    <2> HIDE DEF t
    <2> QED
      BY <2>1, <2>2, <1>11
  <1>13. CASE l.kind = "bad" /\ proc' = [proc EXCEPT ![p].tails[r] = [next EXCEPT !.ok = FALSE]]
    <2> DEFINE t == [next EXCEPT !.ok = FALSE]
    <2>1. t \in LogTail /\ t.file = n /\ t.pos = 2 * k + 2 /\ t.part = <<>> /\ t.ok = FALSE
      BY <1>8 DEF LogTail
    <2>2. proc' = [proc EXCEPT ![p].tails[r] = t]
      BY <1>13
    <2> HIDE DEF t
    <2> QED
      BY <2>1, <2>2, <1>11
  <1>14. l.kind = "event" => next.tags = l.snap
    <2> SUFFICES ASSUME l.kind = "event" PROVE next.tags = l.snap
      OBVIOUS
    <2>1. l.no # 0
      BY <1>5
    <2>2. k > 0 /\ LineAt(x, k).snap = l.snap
      BY <2>1, <1>5
    <2>3. tail.tags = LineAt(x, k).snap
      BY <2>2 DEF Stands
    <2> QED
      BY <2>2, <2>3, <1>8
  <1>15. CASE l.kind = "event" /\ proc' = [proc EXCEPT ![p].tails[r] = next]
    BY <1>8, <1>11, <1>14, <1>15
  <1>16. CASE l.kind = "event" /\ proc' = [[proc EXCEPT ![p].tails[r] = next]
                                           EXCEPT ![p].events = Append(@, ParseLineEvent(pieces, next.tags))]
    <2> DEFINE e == ParseLineEvent(pieces, next.tags)
               new == <<e>>
    <2>1. e = [rank |-> r, snap |-> l.snap, no |-> l.no, tags |-> l.snap]
      BY <1>5, <1>6, <1>14, <1>16 DEF ParseLineEvent
    <2>2. e \in SoundEvent /\ e.rank = r /\ e.snap = l.snap /\ e.no = l.no
      BY <2>1, <1>1, <1>5 DEF SoundEvent
    <2> HIDE DEF e
    <2>3. (\A q \in Pids \ {p} : proc'[q] = proc[q]) /\ proc'[p].pc = "run"
          /\ WorkOf(proc'[p]) = [tails |-> [proc[p].tails EXCEPT ![r] = next], bodies |-> proc[p].bodies,
                                 events |-> Append(proc[p].events, e)]
      BY <1>1, <1>10, <1>16 DEF WorkOf, Shape, Fields, e
    <2>4. new \in Seq(SoundEvent) /\ DOMAIN new = {1} /\ new[1] = e
      BY <2>2
    <2>a. Append(proc[p].events, e) = proc[p].events \o new
      BY <2>2, <1>2, AppendOne, Zenon
    <2> HIDE DEF new
    <2>5. InOrder(new)
      BY <2>4 DEF InOrder
    <2>6. TailFits(next, logs[r]) /\ next.file = proc[p].tails[r].file /\ next.pos >= proc[p].tails[r].pos
      BY <1>8, <1>9, <1>14, <1>16
    <2>7. BeforeRest(e, next, logs[r])
      BY <2>2, <1>5, <1>8
    <2>8. \A f \in Past(p, proc[p].events, reported) : f.rank = r => Earlier(f, e)
      <3> SUFFICES ASSUME NEW f \in Past(p, proc[p].events, reported), f.rank = r PROVE Earlier(f, e)
        OBVIOUS
      <3>1. BeforeRest(f, tail, logs[r])
        BY <1>2 DEF RunFits, PastFits
      <3>2. Earlier(f, l)
        BY <3>1, <1>5
      <3> QED
        BY <3>2, <2>2 DEF Earlier
    <2>9. \A j \in DOMAIN new :
            /\ new[j].rank = r /\ new[j].snap <= written[r] /\ BeforeRest(new[j], next, logs[r])
            /\ \A f \in Past(p, proc[p].events, reported) : f.rank = r => Earlier(f, new[j])
      BY <2>2, <2>4, <2>7, <2>8, <1>5
    <2>10. WorkOf(proc'[p]) = [tails |-> [proc[p].tails EXCEPT ![r] = next], bodies |-> proc[p].bodies,
                               events |-> proc[p].events \o new]
      BY <2>3, <2>a
    <2>11. TailStep(p, r, next, new)
      BY <2>3, <2>5, <2>6, <2>9, <2>10 DEF TailStep
    <2> QED
      BY <2>4, <2>11, TailMoves
  <1> QED
    BY <1>6, <1>7, <1>12, <1>13, <1>15, <1>16 DEF Handle, ParseLineGroup

\* A parser moves without an event.
LEMMA QuietMoves ==
  ASSUME ReportInv, CollectorType, NEW p \in Running, UNCHANGED <<job, logs, written, reported>>,
         NEW r \in LogRanks, NEW t \in LogTail, TailFits(t, logs[r]),
         t.file > proc[p].tails[r].file \/ (t.file = proc[p].tails[r].file /\ t.pos >= proc[p].tails[r].pos),
         proc' = [proc EXCEPT ![p].tails[r] = t]
  PROVE  ReportInv'
  <1> DEFINE none == <<>>
  <1>1. p \in Pids /\ proc[p].pc = "run" /\ Shape(proc[p]) /\ proc = [q \in Pids |-> proc[q]]
    BY DEF Running, CollectorType
  <1>2. proc[p].events \in Seq(SoundEvent) /\ proc[p].tails \in [LogRanks -> LogTail]
    BY <1>1 DEF ReportInv, ReportType, Work
  <1>3. (\A q \in Pids \ {p} : proc'[q] = proc[q]) /\ proc'[p].pc = "run"
        /\ WorkOf(proc'[p]) = [tails |-> [proc[p].tails EXCEPT ![r] = t], bodies |-> proc[p].bodies,
                               events |-> proc[p].events]
    BY <1>1 DEF WorkOf, Shape, Fields
  <1>4. none \in Seq(SoundEvent) /\ InOrder(none) /\ proc[p].events \o none = proc[p].events /\ DOMAIN none = {}
    BY <1>2 DEF InOrder
  <1> HIDE DEF none
  <1>5. WorkOf(proc'[p]) = [tails |-> [proc[p].tails EXCEPT ![r] = t], bodies |-> proc[p].bodies,
                            events |-> proc[p].events \o none]
    BY <1>3, <1>4
  <1>6. TailStep(p, r, t, none)
    BY <1>3, <1>4, <1>5 DEF TailStep
  <1> QED
    BY <1>4, <1>6, TailMoves

\* A parser further on in its file.
LEMMA TailOn ==
  ASSUME NEW t \in LogTail, NEW q \in Nat, NEW s \in Seq(Piece), NEW u, u = [t EXCEPT !.pos = q, !.part = s]
  PROVE  /\ u \in LogTail /\ u.file = t.file /\ u.pos = q /\ u.part = s /\ u.tags = t.tags /\ u.ok = t.ok
  BY DEF LogTail
\* Nothing read.
LEMMA NoPiece == <<>> \in Seq(Piece)
  OBVIOUS
\* Pieces behind pieces.
LEMMA PiecesJoined ==
  ASSUME NEW s \in Seq(Piece), NEW u \in Seq(Piece)
  PROVE  /\ s \o u \in Seq(Piece) /\ Len(s \o u) = Len(s) + Len(u)
         /\ \A i \in 1 .. Len(s) : (s \o u)[i] = s[i]
         /\ \A i \in 1 .. Len(u) : (s \o u)[Len(s) + i] = u[i]
  OBVIOUS
\* Two halves.
LEMMA TwoPieces == ASSUME NEW a \in Piece, NEW b \in Piece PROVE <<a>> \o <<b>> = <<a, b>>
  <1> DEFINE s == <<a>>
             u == <<b>>
             t == <<a, b>>
             c == s \o u
  <1>1. s \in Seq(Piece) /\ u \in Seq(Piece) /\ Len(s) = 1 /\ Len(u) = 1 /\ s[1] = a /\ u[1] = b
    OBVIOUS
  <1>2. t \in [1 .. 2 -> Piece] /\ t[1] = a /\ t[2] = b
    OBVIOUS
  <1> HIDE DEF s, u, t
  <1>3. c \in Seq(Piece) /\ Len(c) = 2 /\ c[1] = a /\ c[2] = b
    <2>1. c \in Seq(Piece) /\ Len(c) = Len(s) + Len(u)
      BY <1>1, PiecesJoined, Zenon
    <2>2. \A i \in 1 .. Len(s) : c[i] = s[i]
      BY <1>1, PiecesJoined, Zenon
    <2>3. \A i \in 1 .. Len(u) : c[Len(s) + i] = u[i]
      BY <1>1, PiecesJoined, Zenon
    <2>4. 1 \in 1 .. Len(s) /\ 1 \in 1 .. Len(u) /\ Len(s) + 1 = 2
      BY <1>1
    <2> HIDE DEF c
    <2>5. c[1] = s[1] /\ c[Len(s) + 1] = u[1]
      BY <2>2, <2>3, <2>4, Zenon
    <2> QED
      BY <1>1, <2>1, <2>4, <2>5
  <1> HIDE DEF c
  <1>4. c \in [1 .. 2 -> Piece]
    BY <1>3
  <1>5. \A i \in 1 .. 2 : c[i] = t[i]
    BY <1>2, <1>3
  <1>6. c = t
    BY <1>2, <1>4, <1>5
  <1> QED
    BY <1>6 DEF c, s, u, t

\* A parser at the end of what is visible.
LEMMA EofPreserves ==
  ASSUME ReportInv, CollectorType, NEW p \in Pids, NEW r \in LogRanks, ReadEof(p, r)
  PROVE  ReportInv'
  <1> DEFINE tail == proc[p].tails[r]
             t == [tail EXCEPT !.eof = TRUE]
  <1>1. p \in Running /\ proc' = [proc EXCEPT ![p].tails[r].eof = TRUE] /\ UNCHANGED <<job, logs, written, reported>>
    BY DEF ReadEof
  <1>2. proc[p].tails \in [LogRanks -> LogTail] /\ TailFits(tail, logs[r])
        /\ Shape(proc[p]) /\ proc = [q \in Pids |-> proc[q]]
    BY <1>1 DEF ReportInv, ReportType, Work, Running, RunFits, CollectorType
  <1>3. tail \in LogTail
    BY <1>2
  <1>4. proc' = [proc EXCEPT ![p].tails[r] = t]
    BY <1>1, <1>2 DEF Shape, Fields
  <1> HIDE DEF tail
  <1>5. t \in LogTail /\ t.file = tail.file /\ t.pos = tail.pos /\ t.part = tail.part /\ t.tags = tail.tags
        /\ t.ok = tail.ok /\ t.eof = TRUE /\ tail.pos \in Nat
    BY <1>3 DEF LogTail
  <1> HIDE DEF t
  <1>6. TailFits(t, logs[r])
    BY <1>2, <1>5 DEF TailFits, Stands
  <1>7. t.file = proc[p].tails[r].file /\ t.pos >= proc[p].tails[r].pos
    BY <1>5 DEF tail
  <1> QED
    BY <1>1, <1>4, <1>5, <1>6, <1>7, QuietMoves

\* A parser goes on with the log it reads, or with the current one.
LEMMA OpenPreserves ==
  ASSUME ReportInv, CollectorType, NEW p \in Pids, NEW r \in LogRanks, OpenFile(p, r)
  PROVE  ReportInv'
  <1> DEFINE tail == proc[p].tails[r]
             n == Len(logs[r])
             opened == IF n > tail.file THEN [tail EXCEPT !.file = n, !.pos = 0, !.part = <<>>] ELSE tail
             t == [opened EXCEPT !.eof = FALSE]
  <1>1. p \in Running /\ proc' = [proc EXCEPT ![p].tails[r] = t] /\ UNCHANGED <<job, logs, written, reported>> /\ n > 0
    BY DEF OpenFile
  <1>2. proc[p].tails \in [LogRanks -> LogTail] /\ TailFits(tail, logs[r]) /\ logs[r] \in Seq(LogFile)
    BY <1>1 DEF ReportInv, ReportType, Work, Running, RunFits
  <1>3. tail \in LogTail /\ tail.file \in Nat /\ tail.pos \in Nat /\ n \in Nat
    <2>1. tail \in LogTail
      BY <1>2
    <2> QED
      BY <2>1, <1>2 DEF LogTail
  <1> HIDE DEF tail
  <1>4. CASE n > tail.file
    <2>1. t = [tail EXCEPT !.file = n, !.pos = 0, !.part = <<>>, !.eof = FALSE]
      BY <1>3, <1>4 DEF LogTail
    <2> HIDE DEF t
    <2>2. t \in LogTail /\ t.file = n /\ t.pos = 0 /\ t.part = <<>>
      <3>1. 0 \in Nat /\ FALSE \in BOOLEAN
        OBVIOUS
      <3> QED
        <4> DEFINE u == [tail EXCEPT !.file = n, !.pos = 0, !.part = <<>>, !.eof = FALSE]
        <4>1. u \in LogTail /\ u.file = n /\ u.pos = 0 /\ u.part = <<>>
          <5> DEFINE none == <<>>
          <5>1. none \in Seq(Piece)
            OBVIOUS
          <5>2. u = [tail EXCEPT !.file = n, !.pos = 0, !.part = none, !.eof = FALSE]
            OBVIOUS
          <5> HIDE DEF none, u, n
          <5>3. u \in LogTail /\ u.file = n /\ u.pos = 0 /\ u.part = none
            BY <1>3, <5>1, <5>2 DEF LogTail
          <5> QED
            BY <5>3 DEF none
        <4> HIDE DEF u
        <4>2. t = u
          BY <2>1, Zenon DEF u
        <4> QED
          BY <4>1, <4>2, Zenon
    <2>3. logs[r][n] \in LogFile
      BY <1>1, <1>2, <1>3
    <2>4. Len(logs[r][n].text) \in Nat
      BY <2>3 DEF LogFile
    <2>5. Stands(t, logs[r][n].text, 0)
      BY <2>2 DEF Stands
    <2>6. 0 \in 0 .. Len(logs[r][n].text) /\ t.pos <= Len(logs[r][n].text) /\ t.file <= n /\ t.file # 0
      BY <1>1, <1>3, <2>2, <2>4
    <2>7. TailFits(t, logs[r])
      BY <2>2, <2>5, <2>6 DEF TailFits
    <2>8. t.file > proc[p].tails[r].file
      BY <2>2, <1>4 DEF tail
    <2> QED
      BY <1>1, <2>2, <2>7, <2>8, QuietMoves
  <1>5. CASE ~(n > tail.file)
    <2>1. t = [tail EXCEPT !.eof = FALSE]
      BY <1>5
    <2>2. t \in LogTail /\ t.file = tail.file /\ t.pos = tail.pos /\ t.part = tail.part /\ t.tags = tail.tags
          /\ t.ok = tail.ok /\ tail.file # 0
      BY <2>1, <1>1, <1>3, <1>5 DEF LogTail
    <2> HIDE DEF t
    <2>3. TailFits(t, logs[r])
      BY <1>2, <2>2 DEF TailFits, Stands
    <2>4. t.file = proc[p].tails[r].file /\ t.pos >= proc[p].tails[r].pos
      BY <2>2, <1>3 DEF tail
    <2> QED
      BY <1>1, <2>2, <2>3, <2>4, QuietMoves
  <1> QED
    BY <1>4, <1>5

\* A line is read, or as much of it as is visible.
LEMMA ReadPreserves ==
  ASSUME ReportInv, CollectorType, NEW p \in Pids, NEW r \in LogRanks, EventLogParser(p, r)
  PROVE  ReportInv'
  <1> DEFINE tail == proc[p].tails[r]
             n == tail.file
             f == logs[r][n]
             x == f.text
             pieces == ReadLine(f, tail.pos)
             next == [tail EXCEPT !.pos = @ + Len(pieces), !.part = <<>>]
  <1>1. p \in Running /\ UNCHANGED <<job, clock, release, logs, written, reported>> /\ tail.ok /\ ~tail.eof
        /\ tail.pos < f.shown
        /\ IF pieces[Len(pieces)].half = 1
           THEN proc' = [proc EXCEPT ![p].tails[r] = [next EXCEPT !.part = tail.part \o pieces]]
           ELSE Handle(p, r, next, tail.part \o pieces)
    BY DEF EventLogParser
  <1>2. proc[p].tails \in [LogRanks -> LogTail] /\ TailFits(tail, logs[r]) /\ logs[r] \in Seq(LogFile)
        /\ FilesFit(r, logs[r], written[r])
    BY <1>1 DEF ReportInv, ReportType, Work, Running, RunFits
  <1>3. tail \in LogTail /\ tail.file \in Nat /\ tail.pos \in Nat
    <2>1. tail \in LogTail
      BY <1>2
    <2> QED
      BY <2>1 DEF LogTail
  <1>4. n \in 1 .. Len(logs[r])
    <2> HIDE DEF tail
    <2>1. TailFits(tail, logs[r]) /\ ~tail.eof
      BY <1>1, <1>2
    <2>2. tail.file # 0
      BY <2>1, Zenon DEF TailFits
    <2>3. tail.file > 0
      BY <2>2, <1>3
    <2>4. tail.file <= Len(logs[r])
      BY <2>1, <2>3, Zenon DEF TailFits
    <2>5. Len(logs[r]) \in Nat
      BY <1>2
    <2> QED
      BY <2>3, <2>4, <2>5, <1>3
  <1>5. f \in LogFile
    BY <1>2, <1>4
  <1>6. x \in Seq(Piece) /\ f.shown \in Nat /\ f.shown <= Len(x) /\ TextFits(r, x, written[r])
    BY <1>2, <1>4, <1>5 DEF LogFile, FilesFit
  <1>7. \E k \in 0 .. Len(x) : Stands(tail, x, k)
    BY <1>2, <1>4 DEF TailFits
  <1>8. tail = proc[p].tails[r] /\ x = logs[r][n].text /\ tail.file = n
    OBVIOUS
  <1> DEFINE one == <<f.text[tail.pos + 1]>>
             two == <<f.text[tail.pos + 1], f.text[tail.pos + 2]>>
  <1>9. pieces = IF tail.pos + 2 <= f.shown /\ f.text[tail.pos + 1].half = 1 THEN two ELSE one
    BY DEF ReadLine
  <1>10. one = <<x[tail.pos + 1]>> /\ two = <<x[tail.pos + 1], x[tail.pos + 2]>>
    OBVIOUS
  <1>11. f.text = x
    OBVIOUS
  <1>a. n = tail.file
    OBVIOUS
  <1> HIDE DEF tail, x, f, pieces, one, two, n
  <1>12. PICK k \in 0 .. Len(x) : Stands(tail, x, k)
    BY <1>7
  <1>13. k \in Nat /\ Len(x) \in Nat
    BY <1>6, <1>12
  <1>14. tail.pos \in {2 * k, 2 * k + 1} /\ tail.pos < Len(x) /\ tail.part \in Seq(Piece)
    BY <1>1, <1>3, <1>6, <1>12, <1>13 DEF Stands, LogTail
  <1>15. 2 * k + 2 <= Len(x)
    <2>1. PICK m \in 0 .. Len(x) : Len(x) = 2 * m
      BY <1>6 DEF TextFits
    <2> QED
      BY <2>1, <1>13, <1>14
  <1>16. k + 1 \in 1 .. Len(x) /\ 2 * (k + 1) <= Len(x) /\ 2 * (k + 1) = 2 * k + 2 /\ 2 * (k + 1) - 1 = 2 * k + 1
    BY <1>13, <1>15
  <1>17. x[2 * (k + 1) - 1] = [line |-> LineAt(x, k + 1), half |-> 1]
         /\ x[2 * (k + 1)] = [line |-> LineAt(x, k + 1), half |-> 2]
    BY <1>6, <1>16, Zenon DEF TextFits
  <1>18. x[2 * k + 1].half = 1 /\ x[2 * k + 2].half = 2 /\ x[2 * k + 1] \in Piece /\ x[2 * k + 2] \in Piece
    BY <1>6, <1>13, <1>15, <1>16, <1>17
  <1> DEFINE whole == <<x[2 * k + 1], x[2 * k + 2]>>
             after == [tail EXCEPT !.pos = 2 * k + 2, !.part = <<>>]
  <1>19. after \in LogTail
    <2>1. 2 * k + 2 \in Nat
      BY <1>13
    <2> QED
      BY <2>1, <1>3, NoPiece, TailOn, Zenon
  <1>20. ASSUME Handle(p, r, after, whole) PROVE ReportInv'
    <2> HIDE DEF after
    <2>1. after = [tail EXCEPT !.pos = 2 * k + 2, !.part = <<>>]
      BY DEF after
    <2> QED
      BY <2>1, <1>1, <1>3, <1>4, <1>6, <1>8, <1>12, <1>13, <1>15, <1>19, <1>20, HandleFits, Zenon
  <1>21. CASE tail.pos = 2 * k /\ tail.part = <<>> /\ 2 * k + 2 <= f.shown
    <2>1. pieces = two /\ two = whole
      BY <1>9, <1>10, <1>11, <1>18, <1>21
    <2>2. Len(pieces) = 2 /\ pieces[2] = x[2 * k + 2] /\ pieces \in Seq(Piece)
      BY <2>1, <1>18
    <2>3. pieces[Len(pieces)].half # 1
      BY <2>2, <1>18
    <2>4. tail.part \o pieces = whole
      BY <2>1, <2>2, <1>21
    <2>5. next = after
      BY <2>2, <1>21
    <2> HIDE DEF next, after, whole
    <2> QED
      BY <2>3, <2>4, <2>5, <1>1, <1>20
  <1>22. CASE tail.pos = 2 * k /\ tail.part = <<>> /\ ~(2 * k + 2 <= f.shown)
    <2> DEFINE t == [next EXCEPT !.part = tail.part \o pieces]
    <2>1. pieces = one /\ one = <<x[2 * k + 1]>>
      BY <1>9, <1>10, <1>22
    <2>2. Len(pieces) = 1 /\ pieces[1] = x[2 * k + 1] /\ pieces \in Seq(Piece)
      BY <2>1, <1>18
    <2>3. pieces[Len(pieces)].half = 1
      BY <2>2, <1>18
    <2>4. tail.part \o pieces = <<x[2 * k + 1]>>
      BY <2>1, <2>2, <1>22
    <2>5. t = [tail EXCEPT !.pos = 2 * k + 1, !.part = <<x[2 * k + 1]>>]
      BY <2>2, <2>4, <1>3, <1>22 DEF LogTail
    <2>7. proc' = [proc EXCEPT ![p].tails[r] = t]
      BY <1>1, <2>3
    <2> HIDE DEF t
    <2>6. t \in LogTail /\ t.file = n /\ t.pos = 2 * k + 1 /\ t.part = <<x[2 * k + 1]>> /\ t.tags = tail.tags
          /\ t.ok = tail.ok
      <3>1. 2 * k + 1 \in Nat /\ <<x[2 * k + 1]>> \in Seq(Piece)
        BY <1>13, <1>18
      <3> QED
        <4> DEFINE q == 2 * k + 1
                   s == <<x[q]>>
                   u == [tail EXCEPT !.pos = q, !.part = s]
        <4>1. q \in Nat /\ s \in Seq(Piece)
          BY <3>1
        <4>2. t = u
          BY <2>5, Zenon
        <4> HIDE DEF q, s
        <4>3. u \in LogTail /\ u.file = tail.file /\ u.pos = q /\ u.part = s /\ u.tags = tail.tags /\ u.ok = tail.ok
          BY <4>1, <1>3 DEF LogTail
        <4> HIDE DEF u
        <4> QED
          BY <4>2, <4>3, <1>a, Zenon DEF q, s
    <2>8. Stands(t, x, k)
      BY <2>6, <1>12 DEF Stands
    <2>9. t.pos <= Len(logs[r][n].text) /\ k \in 0 .. Len(logs[r][n].text) /\ n > 0 /\ n <= Len(logs[r])
      <3>1. t.pos <= Len(x)
        BY <2>6, <1>13, <1>15
      <3>2. k \in 0 .. Len(x)
        BY <1>13, <1>15
      <3>3. n > 0 /\ n <= Len(logs[r])
        BY <1>4
      <3> QED
        BY <3>1, <3>2, <3>3, <1>8, Zenon
    <2>10. TailFits(t, logs[r])
      <3>1. Stands(t, logs[r][n].text, k) /\ t.file = n /\ n # 0
        BY <2>6, <2>8, <2>9, <1>8
      <3> QED
        BY <2>9, <3>1, Zenon DEF TailFits
    <2>11. t.file = proc[p].tails[r].file /\ t.pos >= proc[p].tails[r].pos
      BY <2>6, <1>8, <1>13, <1>22
    <2> QED
      BY <1>1, <2>6, <2>7, <2>10, <2>11, QuietMoves
  <1>23. CASE tail.pos = 2 * k + 1 /\ tail.part = <<x[2 * k + 1]>>
    <2>1. tail.pos + 1 = 2 * k + 2
      BY <1>13, <1>23
    <2>2. pieces = one /\ one = <<x[2 * k + 2]>>
      BY <2>1, <1>9, <1>10, <1>11, <1>18
    <2>3. Len(pieces) = 1 /\ pieces[1] = x[2 * k + 2] /\ pieces \in Seq(Piece)
      BY <2>2, <1>18
    <2>4. pieces[Len(pieces)].half # 1
      BY <2>3, <1>18
    <2>5. tail.part \o pieces = whole
      BY <2>2, <1>18, <1>23, TwoPieces, Zenon
    <2>6. next = after
      BY <2>1, <2>3, <1>13, <1>23
    <2> HIDE DEF next, after, whole
    <2> QED
      BY <2>4, <2>5, <2>6, <1>1, <1>20
  <1> QED
    BY <1>12, <1>21, <1>22, <1>23 DEF Stands

-----------------------------------------------------------------------------
(* Bodies.                                                                 *)

\* A body that fits is a snapshot of a rank that posts.
LEMMA BodyIs ==
  ASSUME ReportType, NEW body, IsBody(body, written)
  PROVE  \E r \in SockRanks : \E k \in 1 .. written[r] :
           /\ body = Lines(r, k) /\ k \in 1 .. Len(job.snaps[r]) /\ k \in Nat /\ k <= written[r]
           /\ body[1].rank = r /\ body[1].snap = k
  <1>1. PICK r \in SockRanks : \E k \in 1 .. written[r] : body = Lines(r, k)
    BY DEF IsBody
  <1>2. PICK k \in 1 .. written[r] : body = Lines(r, k)
    BY <1>1
  <1>3. r \in AllRanks /\ job \in Jobs /\ written[r] \in Nat /\ written[r] <= Len(job.snaps[r])
    BY DEF ReportType, AllRanks
  <1>4. Len(job.snaps[r]) \in Nat
    BY <1>3, CollectorAssumption DEF AllRanks
  <1>5. k \in 1 .. Len(job.snaps[r]) /\ k \in Nat /\ k <= written[r]
    BY <1>3, <1>4
  <1>6. 1 \in 1 .. Len(Lines(r, k))
    <2>1. Len(Lines(r, k)) >= 1 /\ Lines(r, k) \in Seq(Line)
      BY <1>3, <1>5, LinesFacts
    <2>2. Len(Lines(r, k)) \in Nat
      BY <2>1
    <2> QED
      BY <2>1, <2>2
  <1>7. Lines(r, k)[1].rank = r /\ Lines(r, k)[1].snap = k
    BY <1>3, <1>5, <1>6, LinesFacts
  <1> QED
    BY <1>2, <1>5, <1>7

\* What is left of events in order is in order.
LEMMA WithoutInOrder ==
  ASSUME NEW s \in Seq(SoundEvent), InOrder(s), NEW old
  PROVE  Without(s, old) \in Seq(SoundEvent) /\ InOrder(Without(s, old))
  <1> DEFINE w == Without(s, old)
  <1>1. w \in Seq(SoundEvent)
    BY WithoutFacts, Zenon
  <1>2. PICK f \in [DOMAIN w -> DOMAIN s \ old] : \A i, j \in DOMAIN w : w[i] = s[f[i]] /\ (i < j => f[i] < f[j])
    BY WithoutFacts, Zenon
  <1> HIDE DEF w
  <1>3. InOrder(w)
    <2> SUFFICES ASSUME NEW i \in DOMAIN w, NEW j \in DOMAIN w, i < j, w[i].rank = w[j].rank PROVE Earlier(w[i], w[j])
      BY DEF InOrder
    <2>1. f[i] \in DOMAIN s /\ f[j] \in DOMAIN s /\ f[i] < f[j] /\ w[i] = s[f[i]] /\ w[j] = s[f[j]]
      BY <1>2
    <2> QED
      BY <2>1 DEF InOrder
  <1> QED
    BY <1>1, <1>3 DEF w

\* The events of a body are put behind the others.
LEMMA SockPreserves ==
  ASSUME ReportInv, CollectorType, NEW p \in Pids, EventSockParser(p)
  PROVE  ReportInv'
  <1> DEFINE x == proc[p]
             body == Head(x.bodies)
             b == Tail(x.bodies)
             ev == BodyEvents(body)
  <1>1. p \in Running /\ x.bodies # <<>> /\ UNCHANGED <<job, logs, written, reported>>
    BY DEF EventSockParser
  <1>2. PICK old \in SUBSET DOMAIN ev :
          proc' = [proc EXCEPT ![p].bodies = b, ![p].events = x.events \o Without(ev, old)]
    BY DEF EventSockParser
  <1> DEFINE new == Without(ev, old)
  <1>3. Shape(x) /\ proc = [q \in Pids |-> proc[q]] /\ x.pc = "run"
    BY <1>1 DEF CollectorType, Running
  <1>4. (\A q \in Pids \ {p} : proc'[q] = proc[q]) /\ proc'[p].pc = "run"
        /\ WorkOf(proc'[p]) = [tails |-> x.tails, bodies |-> b, events |-> x.events \o new]
    <2> HIDE DEF new, b
    <2>1. proc' = [proc EXCEPT ![p].bodies = b, ![p].events = x.events \o new]
      BY <1>2 DEF new
    <2> QED
      BY <2>1, <1>3 DEF WorkOf, Shape, Fields
  <1>5. RunFits(p, x, logs, written, reported) /\ x.tails \in [LogRanks -> LogTail] /\ x.bodies \in Seq(Seq(Line))
        /\ x.events \in Seq(SoundEvent) /\ ReportType
    BY <1>1 DEF ReportInv, ReportType, Work, Running
  <1>6. BodiesFit(x.bodies, written) /\ PastFits(p, x, logs, written, reported)
        /\ \A r \in LogRanks : TailFits(x.tails[r], logs[r])
    BY <1>5 DEF RunFits
  <1> HIDE DEF x
  <1>7. /\ Len(x.bodies) \in Nat /\ 1 \in DOMAIN x.bodies /\ body = x.bodies[1]
        /\ b \in Seq(Seq(Line)) /\ Len(b) = Len(x.bodies) - 1
        /\ \A i \in DOMAIN b : i + 1 \in DOMAIN x.bodies /\ b[i] = x.bodies[i + 1] /\ i \in Nat /\ i >= 1
    BY <1>1, <1>5
  <1> HIDE DEF body, b
  <1>8. IsBody(body, written)
    BY <1>6, <1>7 DEF BodiesFit
  <1>9. PICK r \in SockRanks : \E k \in 1 .. written[r] :
           /\ body = Lines(r, k) /\ k \in 1 .. Len(job.snaps[r]) /\ k \in Nat /\ k <= written[r]
           /\ body[1].rank = r /\ body[1].snap = k
    BY <1>5, <1>8, BodyIs
  <1>10. PICK k \in 1 .. written[r] :
           /\ body = Lines(r, k) /\ k \in 1 .. Len(job.snaps[r]) /\ k \in Nat /\ k <= written[r]
           /\ body[1].rank = r /\ body[1].snap = k
    BY <1>9
  <1>11. r \in AllRanks /\ job \in Jobs /\ r \notin LogRanks
    BY <1>5, CollectorAssumption DEF ReportType, AllRanks
  <1>12. ev \in Seq(SoundEvent) /\ InOrder(ev) /\ \A i \in DOMAIN ev : ev[i].rank = r /\ ev[i].snap = k
    BY <1>10, <1>11, BodyEventsFacts
  <1> HIDE DEF ev
  <1>13. new \in Seq(SoundEvent) /\ InOrder(new)
    BY <1>12, WithoutInOrder, Zenon
  <1>14. \A j \in DOMAIN new : new[j].rank = r /\ new[j].snap = k
    <2>1. PICK f \in [DOMAIN new -> DOMAIN ev \ old] :
            \A i, j \in DOMAIN new : new[i] = ev[f[i]] /\ (i < j => f[i] < f[j])
      BY <1>12, WithoutFacts, Zenon
    <2> HIDE DEF new
    <2>2. \A j \in DOMAIN new : f[j] \in DOMAIN ev /\ new[j] = ev[f[j]]
      BY <2>1
    <2> QED
      BY <2>2, <1>12
  <1> HIDE DEF new
  <1>15. BodiesFit(b, written)
    <2>1. \A i \in DOMAIN b : IsBody(b[i], written)
      BY <1>6, <1>7 DEF BodiesFit
    <2>2. ASSUME NEW i \in DOMAIN b, NEW j \in DOMAIN b, i < j, b[i][1].rank = b[j][1].rank
          PROVE  b[i][1].snap < b[j][1].snap
      <3>1. i + 1 < j + 1 /\ i + 1 \in DOMAIN x.bodies /\ j + 1 \in DOMAIN x.bodies
            /\ b[i] = x.bodies[i + 1] /\ b[j] = x.bodies[j + 1]
        BY <1>7, <2>2
      <3> QED
        BY <3>1, <2>2, <1>6 DEF BodiesFit
    <2> QED
      BY <2>1, <2>2 DEF BodiesFit
  <1>16. ASSUME NEW e \in Past(p, x.events, reported)
         PROVE  /\ \A j \in DOMAIN new : e.rank = new[j].rank => Earlier(e, new[j])
                /\ e.snap <= written[e.rank]
                /\ \A q \in LogRanks : e.rank = q => BeforeRest(e, x.tails[q], logs[q])
                /\ \A i \in DOMAIN b : b[i][1].rank = e.rank => e.snap < b[i][1].snap
    <2>1. /\ e.snap <= written[e.rank]
          /\ \A q \in LogRanks : e.rank = q => BeforeRest(e, x.tails[q], logs[q])
          /\ \A i \in DOMAIN x.bodies : x.bodies[i][1].rank = e.rank => e.snap < x.bodies[i][1].snap
      BY <1>6, <1>16 DEF PastFits
    <2>2. \A i \in DOMAIN b : b[i][1].rank = e.rank => e.snap < b[i][1].snap
      BY <2>1, <1>7
    <2>3. e.rank = r => e.snap < k
      BY <2>1, <1>7, <1>10
    <2>4. \A j \in DOMAIN new : e.rank = new[j].rank => Earlier(e, new[j])
      BY <2>3, <1>14 DEF Earlier
    <2> QED
      BY <2>1, <2>2, <2>4
  <1>17. ASSUME NEW j \in DOMAIN new
         PROVE  /\ new[j].snap <= written[new[j].rank]
                /\ \A q \in LogRanks : new[j].rank = q => BeforeRest(new[j], x.tails[q], logs[q])
                /\ \A i \in DOMAIN b : b[i][1].rank = new[j].rank => new[j].snap < b[i][1].snap
    <2>1. new[j].rank = r /\ new[j].snap = k
      BY <1>14, <1>17
    <2>2. ASSUME NEW i \in DOMAIN b, b[i][1].rank = r PROVE k < b[i][1].snap
      <3>1. 1 < i + 1 /\ i + 1 \in DOMAIN x.bodies /\ b[i] = x.bodies[i + 1]
        BY <1>7, <2>2
      <3>2. x.bodies[1][1].rank = x.bodies[i + 1][1].rank
        BY <3>1, <2>2, <1>7, <1>10
      <3>3. x.bodies[1][1].snap < x.bodies[i + 1][1].snap
        BY <3>1, <3>2, <1>6, <1>7, Zenon DEF BodiesFit
      <3> QED
        BY <3>1, <3>3, <1>7, <1>10
    <2> QED
      BY <2>1, <2>2, <1>10, <1>11
  <1>18. \A e \in Past(p, x.events, reported) \cup {new[j] : j \in DOMAIN new} :
           /\ e.snap <= written[e.rank]
           /\ \A q \in LogRanks : e.rank = q => BeforeRest(e, x.tails[q], logs[q])
           /\ \A i \in DOMAIN b : b[i][1].rank = e.rank => e.snap < b[i][1].snap
    BY <1>16, <1>17
  <1>19. \A e \in Past(p, x.events, reported) : \A j \in DOMAIN new : e.rank = new[j].rank => Earlier(e, new[j])
    BY <1>16
  <1> QED
    BY <1>1, <1>4, <1>5, <1>6, <1>7, <1>13, <1>15, <1>18, <1>19, RunMoves DEF x

\* One more at the end, place by place.
LEMMA AppendPlaces ==
  ASSUME NEW E, NEW s \in Seq(E), NEW e \in E
  PROVE  /\ Append(s, e) \in Seq(E) /\ Len(s) \in Nat /\ DOMAIN Append(s, e) = 1 .. (Len(s) + 1)
         /\ DOMAIN s = 1 .. Len(s) /\ Append(s, e)[Len(s) + 1] = e
         /\ \A i \in DOMAIN s : Append(s, e)[i] = s[i]
  OBVIOUS

\* What a collector holds once a snapshot more is counted, and when the body of it is put behind the others.
LEMMA BodyAdded ==
  ASSUME ReportInv, NEW p \in Pids, proc[p].pc = "run", NEW r \in SockRanks, written[r] < Len(job.snaps[r]),
         NEW w, w = [written EXCEPT ![r] = @ + 1], NEW b, b = Append(proc[p].bodies, Lines(r, written[r] + 1)),
         NEW y, WorkOf(y) = [tails |-> proc[p].tails, bodies |-> b, events |-> proc[p].events], y.pc = "run",
         RunFits(p, proc[p], logs, w, reported)
  PROVE  Suits(p, y, logs, w, reported)
  <1> DEFINE x == proc[p]
             k == written[r] + 1
             body == Lines(r, k)
             n == Len(x.bodies)
  <1>1. written \in [AllRanks -> Nat] /\ job \in Jobs /\ r \in AllRanks /\ written[r] \in Nat
        /\ x.tails \in [LogRanks -> LogTail] /\ x.bodies \in Seq(Seq(Line)) /\ x.events \in Seq(SoundEvent)
        /\ ReportType
    BY DEF ReportInv, ReportType, Work, AllRanks
  <1>2. k \in 1 .. Len(job.snaps[r]) /\ k \in Nat
    <2>1. Len(job.snaps[r]) \in Nat
      BY <1>1, CollectorAssumption DEF AllRanks
    <2> QED
      BY <1>1, <2>1
  <1>3. body \in Seq(Line) /\ body[1].rank = r /\ body[1].snap = k
    <2>1. body \in Seq(Line) /\ Len(body) >= 1
      BY <1>1, <1>2, LinesFacts
    <2>2. Len(body) \in Nat
      BY <2>1
    <2>3. 1 \in 1 .. Len(body)
      BY <2>1, <2>2
    <2> QED
      BY <2>1, <2>3, <1>1, <1>2, LinesFacts
  <1>4. w \in [AllRanks -> Nat] /\ w[r] = k /\ \A q \in AllRanks : written[q] <= w[q]
    BY <1>1
  <1>5. RunFits(p, x, logs, written, reported)
    BY DEF ReportInv
  <1>6. IsBody(body, w)
    <2>1. k \in 1 .. w[r]
      BY <1>2, <1>4
    <2> QED
      BY <2>1 DEF IsBody
  <1>7. \A i \in DOMAIN x.bodies : x.bodies[i][1].rank = r => x.bodies[i][1].snap < k
    <2> SUFFICES ASSUME NEW i \in DOMAIN x.bodies, x.bodies[i][1].rank = r PROVE x.bodies[i][1].snap < k
      OBVIOUS
    <2>1. IsBody(x.bodies[i], written)
      BY <1>5 DEF RunFits, BodiesFit
    <2> HIDE DEF x
    <2>2. PICK q \in SockRanks : \E m \in 1 .. written[q] :
             /\ x.bodies[i] = Lines(q, m) /\ m \in 1 .. Len(job.snaps[q]) /\ m \in Nat /\ m <= written[q]
             /\ x.bodies[i][1].rank = q /\ x.bodies[i][1].snap = m
      BY <1>1, <2>1, BodyIs
    <2>3. x.bodies[i][1].snap <= written[r] /\ x.bodies[i][1].snap \in Nat
      BY <2>2
    <2> QED
      <3> DEFINE s == x.bodies[i][1].snap
                 m == written[r]
      <3>1. s <= m /\ s \in Nat /\ m \in Nat
        BY <2>3, <1>1
      <3> HIDE DEF s, m
      <3>2. s < m + 1
        BY <3>1
      <3> QED
        BY <3>2, Zenon DEF s, m
  <1>8. BodiesFit(x.bodies, w) /\ PastFits(p, x, logs, w, reported) /\ InOrder(x.events)
        /\ ReportsBefore(p, x.events, reported) /\ \A q \in LogRanks : TailFits(x.tails[q], logs[q])
    BY DEF RunFits
  <1>9. b = Append(x.bodies, body)
    OBVIOUS
  <1> HIDE DEF body, k
  <1>10. b \in Seq(Seq(Line)) /\ n \in Nat /\ DOMAIN b = 1 .. (n + 1) /\ DOMAIN x.bodies = 1 .. n /\ b[n + 1] = body
         /\ \A i \in DOMAIN x.bodies : b[i] = x.bodies[i]
    <2> HIDE DEF x
    <2> QED
      <3> DEFINE s == x.bodies
                 E == Seq(Line)
      <3>1. s \in Seq(E) /\ body \in E
        BY <1>1, <1>3
      <3> HIDE DEF s, E
      <3>2. /\ Append(s, body) \in Seq(E) /\ Len(s) \in Nat /\ DOMAIN Append(s, body) = 1 .. (Len(s) + 1)
            /\ DOMAIN s = 1 .. Len(s) /\ Append(s, body)[Len(s) + 1] = body
            /\ \A i \in DOMAIN s : Append(s, body)[i] = s[i]
        BY <3>1, AppendPlaces
      <3> DEFINE t == Append(s, body)
      <3>3. t = b
        BY <1>9 DEF s
      <3> HIDE DEF t
      <3>4. /\ t \in Seq(E) /\ Len(s) \in Nat /\ DOMAIN t = 1 .. (Len(s) + 1)
            /\ DOMAIN s = 1 .. Len(s) /\ t[Len(s) + 1] = body
            /\ \A i \in DOMAIN s : t[i] = s[i]
        BY <3>2 DEF t
      <3> QED
        BY <3>3, <3>4 DEF s, E
  <1>11. \A i \in DOMAIN b : i \in DOMAIN x.bodies \/ i = n + 1
    <2> HIDE DEF n
    <2> QED
      BY <1>10
  <1>12. y.tails = x.tails /\ y.bodies = b /\ y.events = x.events
    BY DEF WorkOf
  <1>a. x = proc[p]
    OBVIOUS
  <1> HIDE DEF x, n
  <1>13. BodiesFit(b, w)
    <2>1. \A i \in DOMAIN b : IsBody(b[i], w)
      BY <1>6, <1>8, <1>10, <1>11 DEF BodiesFit
    <2>2. ASSUME NEW i \in DOMAIN b, NEW j \in DOMAIN b, i < j, b[i][1].rank = b[j][1].rank
          PROVE  b[i][1].snap < b[j][1].snap
      <3>1. i \in DOMAIN x.bodies
        BY <2>2, <1>10
      <3>2. CASE j \in DOMAIN x.bodies
        BY <3>1, <3>2, <2>2, <1>8, <1>10 DEF BodiesFit
      <3>3. CASE j = n + 1
        BY <3>1, <3>3, <2>2, <1>3, <1>7, <1>10
      <3> QED
        BY <3>2, <3>3, <1>11
    <2> QED
      BY <2>1, <2>2 DEF BodiesFit
  <1>14. PastFits(p, y, logs, w, reported)
    <2> SUFFICES ASSUME NEW e \in Past(p, x.events, reported)
                 PROVE  /\ e.snap <= w[e.rank]
                        /\ \A q \in LogRanks : e.rank = q => BeforeRest(e, x.tails[q], logs[q])
                        /\ \A i \in DOMAIN b : b[i][1].rank = e.rank => e.snap < b[i][1].snap
      BY <1>12 DEF PastFits
    <2>1. /\ e.snap <= w[e.rank]
          /\ \A q \in LogRanks : e.rank = q => BeforeRest(e, x.tails[q], logs[q])
          /\ \A i \in DOMAIN x.bodies : x.bodies[i][1].rank = e.rank => e.snap < x.bodies[i][1].snap
      BY <1>8 DEF PastFits
    <2>2. e.snap <= written[e.rank] /\ e.snap \in Nat
      BY <1>1, <1>5, <1>a, PastTyped DEF RunFits, PastFits
    <2>3. e.rank = r => e.snap < k
      BY <2>2, <1>1 DEF k
    <2>4. \A i \in DOMAIN b : b[i][1].rank = e.rank => e.snap < b[i][1].snap
      BY <2>1, <2>3, <1>3, <1>10, <1>11
    <2> QED
      BY <2>1, <2>4
  <1>15. RunFits(p, y, logs, w, reported)
    BY <1>8, <1>12, <1>13, <1>14 DEF RunFits
  <1>16. WorkOf(y) \in Work
    BY <1>1, <1>10, <1>a DEF Work
  <1> QED
    BY <1>15, <1>16 DEF Suits

\* A rank posts a snapshot.
LEMMA PostPreserves ==
  ASSUME ReportInv, CollectorType, NEW r \in SockRanks, DoPost(r)
  PROVE  ReportInv'
  <1> DEFINE w == [written EXCEPT ![r] = @ + 1]
             body == Lines(r, written[r] + 1)
  <1>1. written[r] < Len(job.snaps[r]) /\ written' = w /\ UNCHANGED <<job, logs, reported>>
    BY DEF DoPost, More
  <1>2. proc' = proc \/ \E p \in Running :
          proc' = [proc EXCEPT ![p].bodies = IF Len(@) < BodyCap THEN Append(@, body) ELSE @]
    BY DEF DoPost
  <1>3. written \in [AllRanks -> Nat] /\ job \in Jobs /\ r \in AllRanks /\ logs \in [LogRanks -> Seq(LogFile)]
        /\ (\A q \in AllRanks : written[q] <= Len(job.snaps[q])) /\ ReportType
    BY DEF ReportInv, ReportType, AllRanks
  <1>4. w \in [AllRanks -> Nat] /\ (\A q \in AllRanks : written[q] <= w[q] /\ w[q] <= Len(job.snaps[q]))
        /\ \A q \in LogRanks : w[q] = written[q]
    <2>1. \A q \in AllRanks : Len(job.snaps[q]) \in Nat
      BY <1>3, CollectorAssumption DEF AllRanks
    <2>2. r \notin LogRanks /\ LogRanks \subseteq AllRanks
      BY CollectorAssumption DEF AllRanks
    <2> QED
      BY <2>1, <2>2, <1>1, <1>3
  <1> HIDE DEF w
  <1>5. ASSUME NEW p \in Pids, proc[p].pc = "run" PROVE RunFits(p, proc[p], logs, w, reported)
    <2>1. RunFits(p, proc[p], logs, written, reported)
      BY <1>5 DEF ReportInv
    <2>2. ReportsBefore(p, proc[p].events, reported)
      BY <2>1 DEF RunFits
    <2>3. \A q \in LogRanks : Grown(logs[q], logs[q], written[q])
      BY <1>3, GrownSame
    <2>4. \A q \in AllRanks : written[q] <= w[q]
      BY <1>4
    <2> QED
      BY <2>1, <2>2, <2>3, <2>4, <1>3, <1>4, StillFits
  <1>6. ASSUME NEW p \in Pids PROVE Suits(p, proc[p], logs, w, reported)
    <2>1. Suits(p, proc[p], logs, written, reported)
      BY SuitsMeans
    <2> QED
      BY <2>1, <1>5 DEF Suits
  <1>7. ASSUME NEW p \in Pids PROVE Suits(p, proc'[p], logs, w, reported)
    <2>1. CASE proc'[p] = proc[p]
      BY <2>1, <1>6
    <2>2. CASE proc'[p] # proc[p]
      <3>1. PICK q \in Running : proc' = [proc EXCEPT ![q].bodies = IF Len(@) < BodyCap THEN Append(@, body) ELSE @]
        BY <2>2, <1>2
      <3>2. q \in Pids /\ Shape(proc[q]) /\ proc = [s \in Pids |-> proc[s]] /\ proc[q].pc = "run"
        BY DEF Running, CollectorType
      <3> DEFINE b == Append(proc[q].bodies, body)
                 c == IF Len(proc[q].bodies) < BodyCap THEN b ELSE proc[q].bodies
      <3>3. proc' = [proc EXCEPT ![q].bodies = c]
        BY <3>1, Zenon
      <3> HIDE DEF b
      <3>4. q = p
        BY <2>2, <3>2, <3>3
      <3>5. c = b
        <4>1. CASE c = proc[q].bodies
          <5> HIDE DEF c
          <5>1. proc'[p] = proc[p]
            BY <4>1, <3>2, <3>3, <3>4 DEF Shape, Fields
          <5> QED
            BY <2>2, <5>1
        <4> QED
          BY <4>1
      <3> HIDE DEF c
      <3>6. WorkOf(proc'[p]) = [tails |-> proc[p].tails, bodies |-> b, events |-> proc[p].events] /\ proc'[p].pc = "run"
        BY <3>2, <3>3, <3>4, <3>5 DEF WorkOf, Shape, Fields
      <3>7. b = Append(proc[p].bodies, Lines(r, written[r] + 1))
        BY <3>4 DEF b
      <3> QED
        BY <3>2, <3>4, <3>6, <3>7, <1>1, <1>5, BodyAdded DEF w
    <2> QED
      BY <2>1, <2>2
  <1>8. ASSUME NEW p \in Pids PROVE Suits(p, proc[p], logs, written, reported)'
    <2>1. Suits(p, proc'[p], logs', written', reported')
      BY <1>1, <1>7, Zenon
    <2> QED
      BY <2>1, <1>1, SuitsNext
  <1>9. \A q \in LogRanks : FilesFit(q, logs[q], written[q])'
    BY <1>1, <1>4 DEF ReportInv
  <1>10. ReportsInOrder'
    BY <1>1 DEF ReportInv, ReportsInOrder
  <1>11. /\ job' \in Jobs
         /\ written' \in [AllRanks -> Nat] /\ \A q \in AllRanks : written'[q] <= Len(job'.snaps[q])
         /\ logs' \in [LogRanks -> Seq(LogFile)] /\ reported' \in Seq(SoundReport)
    BY <1>1, <1>3, <1>4 DEF ReportType
  <1> QED
    BY <1>8, <1>9, <1>10, <1>11 DEF ReportInv, ReportType, Suits, WorkOf

-----------------------------------------------------------------------------
(* Reports.                                                                *)

\* What is reported behind what was: events of one collector, in their order.
Adds(p, events, rep, next) ==
  /\ next \in Seq(SoundReport) /\ Len(rep) <= Len(next) /\ \A i \in DOMAIN rep : i \in DOMAIN next /\ next[i] = rep[i]
  /\ \A i \in DOMAIN next \ DOMAIN rep : next[i].by = p
  /\ \A i \in DOMAIN next \ DOMAIN rep : \E m \in DOMAIN events :
       next[i].rank = events[m].rank /\ next[i].snap = events[m].snap /\ next[i].no = events[m].no
  /\ \A i, j \in DOMAIN next \ DOMAIN rep : i < j /\ next[i].rank = next[j].rank => Earlier(next[i], next[j])

\* Reports behind reports.
LEMMA ReportsJoined ==
  ASSUME NEW s \in Seq(SoundReport), NEW u \in Seq(SoundReport)
  PROVE  /\ s \o u \in Seq(SoundReport) /\ Len(s \o u) = Len(s) + Len(u)
         /\ \A i \in 1 .. Len(s) : (s \o u)[i] = s[i]
         /\ \A i \in 1 .. Len(u) : (s \o u)[Len(s) + i] = u[i]
  OBVIOUS

\* Submitting adds events that are not too old, up to an error.
LEMMA SubmitAdds ==
  ASSUME NEW p \in Pids, NEW events \in Seq(SoundEvent), InOrder(events), reported \in Seq(SoundReport), Submit(p, events)
  PROVE  Adds(p, events, reported, reported')
  <1>1. PICK old \in SUBSET DOMAIN events :
          \E n \in 0 .. Len(Without(events, old)) :
            reported' = reported \o [i \in 1 .. n |-> [by |-> p, rank |-> Without(events, old)[i].rank,
                          snap |-> Without(events, old)[i].snap, no |-> Without(events, old)[i].no,
                          tags |-> Without(events, old)[i].tags]]
    BY DEF Submit
  <1> DEFINE fresh == Without(events, old)
  <1>2. fresh \in Seq(SoundEvent) /\ InOrder(fresh)
    BY WithoutInOrder, Zenon
  <1>3. \A i \in DOMAIN fresh : \E m \in DOMAIN events : fresh[i] = events[m]
    <2>1. PICK f \in [DOMAIN fresh -> DOMAIN events \ old] :
            \A i, j \in DOMAIN fresh : fresh[i] = events[f[i]] /\ (i < j => f[i] < f[j])
      BY WithoutFacts, Zenon
    <2> HIDE DEF fresh
    <2>2. \A i \in DOMAIN fresh : f[i] \in DOMAIN events /\ fresh[i] = events[f[i]]
      BY <2>1
    <2> QED
      BY <2>2
  <1>4. PICK n \in 0 .. Len(fresh) :
          reported' = reported \o [i \in 1 .. n |-> [by |-> p, rank |-> fresh[i].rank, snap |-> fresh[i].snap,
                                                     no |-> fresh[i].no, tags |-> fresh[i].tags]]
    BY <1>1
  <1> HIDE DEF fresh
  <1> DEFINE new == [i \in 1 .. n |-> [by |-> p, rank |-> fresh[i].rank, snap |-> fresh[i].snap,
                                       no |-> fresh[i].no, tags |-> fresh[i].tags]]
  <1>5. n \in Nat /\ \A i \in 1 .. n : i \in DOMAIN fresh /\ fresh[i] \in SoundEvent
    BY <1>2, <1>4
  <1>6. \A i \in 1 .. n : /\ new[i] \in SoundReport /\ new[i].by = p /\ new[i].rank = fresh[i].rank
                          /\ new[i].snap = fresh[i].snap /\ new[i].no = fresh[i].no
    BY <1>5 DEF SoundEvent, SoundReport
  <1>7. new \in Seq(SoundReport) /\ Len(new) = n /\ DOMAIN new = 1 .. n
    BY <1>5, <1>6
  <1>8. reported' = reported \o new
    BY <1>4
  <1> HIDE DEF new
  <1> DEFINE next == reported \o new
             L == Len(reported)
  <1>9. /\ next \in Seq(SoundReport) /\ L \in Nat /\ Len(next) = L + n /\ DOMAIN next = 1 .. (L + n)
        /\ DOMAIN reported = 1 .. L
        /\ (\A i \in 1 .. L : next[i] = reported[i])
        /\ \A i \in 1 .. n : next[L + i] = new[i]
    <2>1. next \in Seq(SoundReport) /\ Len(next) = L + Len(new)
      BY <1>7, ReportsJoined, Zenon
    <2>2. \A i \in 1 .. L : next[i] = reported[i]
      BY <1>7, ReportsJoined, Zenon
    <2>3. \A i \in 1 .. Len(new) : next[L + i] = new[i]
      BY <1>7, ReportsJoined, Zenon
    <2>4. L \in Nat /\ DOMAIN reported = 1 .. L
      OBVIOUS
    <2> HIDE DEF next, L
    <2>5. DOMAIN next = 1 .. Len(next)
      BY <2>1
    <2> QED
      BY <2>1, <2>2, <2>3, <2>4, <2>5, <1>7
  <1> HIDE DEF next, L
  <1>10. \A i \in DOMAIN next \ DOMAIN reported : i - L \in 1 .. n /\ L + (i - L) = i /\ i \in Nat
    BY <1>5, <1>9
  <1>11. \A i \in DOMAIN next \ DOMAIN reported : i - L \in 1 .. n /\ next[i] = new[i - L]
    BY <1>9, <1>10
  <1>12. \A i \in DOMAIN next \ DOMAIN reported :
            /\ next[i].by = p
            /\ \E m \in DOMAIN events :
                 next[i].rank = events[m].rank /\ next[i].snap = events[m].snap /\ next[i].no = events[m].no
    <2> TAKE i \in DOMAIN next \ DOMAIN reported
    <2> DEFINE j == i - L
    <2>1. j \in 1 .. n /\ next[i] = new[j]
      BY <1>11
    <2> HIDE DEF j
    <2>2. PICK m \in DOMAIN events : fresh[j] = events[m]
      BY <2>1, <1>3, <1>5
    <2>3. next[i].by = p /\ next[i].rank = events[m].rank /\ next[i].snap = events[m].snap /\ next[i].no = events[m].no
      BY <2>1, <2>2, <1>6
    <2> QED
      BY <2>3
  <1>13. ASSUME NEW i \in DOMAIN next \ DOMAIN reported, NEW j \in DOMAIN next \ DOMAIN reported, i < j,
                next[i].rank = next[j].rank
         PROVE  Earlier(next[i], next[j])
    <2> DEFINE a == i - L
               b == j - L
    <2>1. a \in 1 .. n /\ next[i] = new[a] /\ b \in 1 .. n /\ next[j] = new[b]
      BY <1>11
    <2>2. a < b
      BY <1>9, <1>10, <1>13
    <2> HIDE DEF a, b
    <2>3. fresh[a].rank = fresh[b].rank /\ a \in DOMAIN fresh /\ b \in DOMAIN fresh
      BY <2>1, <1>5, <1>6, <1>13
    <2>4. Earlier(fresh[a], fresh[b])
      BY <2>2, <2>3, <1>2 DEF InOrder
    <2> QED
      BY <2>1, <2>4, <1>6 DEF Earlier
  <1>14. next \in Seq(SoundReport) /\ L <= Len(next) /\ \A i \in DOMAIN reported : i \in DOMAIN next /\ next[i] = reported[i]
    BY <1>5, <1>9
  <1>15. Adds(p, events, reported, next)
    BY <1>12, <1>13, <1>14 DEF Adds, L
  <1> QED
    BY <1>8, <1>15 DEF next

\* A collector reports its events.
LEMMA DispatchPreserves ==
  ASSUME ReportInv, CollectorType, NEW p \in Pids, EventDispatcher(p)
  PROVE  ReportInv'
  <1> DEFINE x == proc[p]
             y == [x EXCEPT !.disp = "sleep", !.events = <<>>]
             rep == reported'
  <1>1. x.pc = "run" /\ Submit(p, x.events) /\ proc' = [proc EXCEPT ![p].disp = "sleep", ![p].events = <<>>]
        /\ UNCHANGED <<job, logs, written>>
    BY DEF EventDispatcher, Running
  <1>2. RunFits(p, x, logs, written, reported) /\ reported \in Seq(SoundReport) /\ x.events \in Seq(SoundEvent)
        /\ x.tails \in [LogRanks -> LogTail] /\ x.bodies \in Seq(Seq(Line)) /\ ReportsInOrder /\ ReportType
        /\ Shape(x) /\ proc = [q \in Pids |-> proc[q]] /\ logs \in [LogRanks -> Seq(LogFile)]
        /\ written \in [AllRanks -> Nat]
    BY <1>1 DEF ReportInv, ReportType, Work, CollectorType
  <1>3. InOrder(x.events) /\ ReportsBefore(p, x.events, reported) /\ PastFits(p, x, logs, written, reported)
        /\ BodiesFit(x.bodies, written) /\ \A r \in LogRanks : TailFits(x.tails[r], logs[r])
    BY <1>2 DEF RunFits
  <1>4. proc' = [proc EXCEPT ![p] = y]
    BY <1>1, <1>2
  <1>5. WorkOf(y) = [tails |-> x.tails, bodies |-> x.bodies, events |-> <<>>] /\ y.pc = "run"
    BY <1>1, <1>2 DEF WorkOf, Shape, Fields
  <1> HIDE DEF y
  <1>6. proc'[p] = y /\ \A q \in Pids \ {p} : proc'[q] = proc[q]
    BY <1>2, <1>4
  <1>a. x = proc[p]
    OBVIOUS
  <1> HIDE DEF x
  <1>7. Adds(p, x.events, reported, reported')
    BY <1>1, <1>2, <1>3, SubmitAdds
  <1> HIDE DEF rep
  <1>8. /\ rep \in Seq(SoundReport) /\ (\A i \in DOMAIN reported : i \in DOMAIN rep /\ rep[i] = reported[i])
        /\ \A i \in DOMAIN rep \ DOMAIN reported : rep[i].by = p
        /\ \A i \in DOMAIN rep \ DOMAIN reported : \E m \in DOMAIN x.events :
             rep[i].rank = x.events[m].rank /\ rep[i].snap = x.events[m].snap /\ rep[i].no = x.events[m].no
        /\ \A i, j \in DOMAIN rep \ DOMAIN reported : i < j /\ rep[i].rank = rep[j].rank => Earlier(rep[i], rep[j])
    BY <1>7 DEF Adds, rep
  <1>b. DOMAIN reported = 1 .. Len(reported) /\ DOMAIN rep = 1 .. Len(rep) /\ Len(reported) \in Nat /\ Len(rep) \in Nat
    BY <1>2, <1>8
  <1>9. ASSUME NEW q \in Pids, q # p PROVE Suits(q, proc[q], logs, written, rep)
    <2>1. Suits(q, proc[q], logs, written, reported)
      BY SuitsMeans
    <2>2. \A i \in DOMAIN rep : rep[i].by = q => i \in DOMAIN reported /\ rep[i] = reported[i]
      BY <1>8, <1>9
    <2>3. Past(q, proc[q].events, rep) \subseteq Past(q, proc[q].events, reported)
      BY <2>2 DEF Past
    <2>4. ReportsBefore(q, proc[q].events, reported) => ReportsBefore(q, proc[q].events, rep)
      BY <2>2 DEF ReportsBefore
    <2>5. proc[q].pc = "run" => RunFits(q, proc[q], logs, written, rep)
      <3> SUFFICES ASSUME proc[q].pc = "run" PROVE RunFits(q, proc[q], logs, written, rep)
        OBVIOUS
      <3>1. RunFits(q, proc[q], logs, written, reported)
        BY DEF ReportInv
      <3>2. ReportsBefore(q, proc[q].events, rep)
        BY <3>1, <2>4 DEF RunFits
      <3>3. \A r \in LogRanks : Grown(logs[r], logs[r], written[r])
        BY <1>2, GrownSame
      <3>4. \A r \in AllRanks : written[r] <= written[r]
        BY <1>2
      <3> QED
        BY <3>1, <3>2, <3>3, <3>4, <2>3, <1>2, StillFits
    <2>6. (\A i \in DOMAIN reported : reported[i].by # q) => \A i \in DOMAIN rep : rep[i].by # q
      BY <2>2
    <2> QED
      BY <2>1, <2>5, <2>6 DEF Suits
  <1>10. Suits(p, y, logs, written, rep)
    <2> DEFINE none == <<>>
    <2>1. none \in Seq(SoundEvent) /\ InOrder(none) /\ ReportsBefore(p, none, rep) /\ DOMAIN none = {}
      BY DEF InOrder, ReportsBefore
    <2>2. y.tails = x.tails /\ y.bodies = x.bodies /\ y.events = none
      BY <1>5 DEF WorkOf
    <2>3. WorkOf(y) = [tails |-> x.tails, bodies |-> x.bodies, events |-> none]
      BY <1>5
    <2> HIDE DEF none
    <2>4. WorkOf(y) \in Work
      BY <2>1, <2>3, <1>2 DEF Work
    <2>5. PastFits(p, y, logs, written, rep)
      <3> SUFFICES ASSUME NEW e \in Past(p, none, rep)
                   PROVE  /\ e.snap <= written[e.rank]
                          /\ \A r \in LogRanks : e.rank = r => BeforeRest(e, x.tails[r], logs[r])
                          /\ \A i \in DOMAIN x.bodies : x.bodies[i][1].rank = e.rank => e.snap < x.bodies[i][1].snap
        BY <2>2 DEF PastFits
      <3>1. PICK i \in DOMAIN rep : rep[i].by = p /\ e = rep[i]
        BY <2>1 DEF Past
      <3>2. \E f \in Past(p, x.events, reported) : e.rank = f.rank /\ e.snap = f.snap /\ e.no = f.no
        <4>1. CASE i \in DOMAIN reported
          <5>1. e = reported[i] /\ reported[i].by = p
            BY <4>1, <3>1, <1>8
          <5>2. e \in Past(p, x.events, reported)
            BY <4>1, <5>1 DEF Past
          <5> QED
            BY <5>2
        <4>2. CASE i \notin DOMAIN reported
          <5>1. PICK m \in DOMAIN x.events :
                  rep[i].rank = x.events[m].rank /\ rep[i].snap = x.events[m].snap /\ rep[i].no = x.events[m].no
            BY <4>2, <1>8
          <5>2. x.events[m] \in Past(p, x.events, reported)
            BY DEF Past
          <5> QED
            BY <3>1, <5>1, <5>2
        <4> QED
          BY <4>1, <4>2
      <3>3. PICK f \in Past(p, x.events, reported) : e.rank = f.rank /\ e.snap = f.snap /\ e.no = f.no
        BY <3>2
      <3>4. /\ f.snap <= written[f.rank]
            /\ \A r \in LogRanks : f.rank = r => BeforeRest(f, x.tails[r], logs[r])
            /\ \A j \in DOMAIN x.bodies : x.bodies[j][1].rank = f.rank => f.snap < x.bodies[j][1].snap
        BY <1>3 DEF PastFits
      <3>5. \A l : Earlier(f, l) => Earlier(e, l)
        BY <3>3 DEF Earlier
      <3>6. \A t, files : BeforeRest(f, t, files) => BeforeRest(e, t, files)
        BY <3>5 DEF BeforeRest
      <3> QED
        BY <3>3, <3>4, <3>6
    <2>6. RunFits(p, y, logs, written, rep)
      BY <2>1, <2>2, <2>5, <1>3 DEF RunFits
    <2> QED
      BY <2>4, <2>6, <1>5 DEF Suits
  <1>11. ASSUME NEW i \in DOMAIN rep, NEW j \in DOMAIN rep, i < j, rep[i].by = rep[j].by, rep[i].rank = rep[j].rank
         PROVE  Earlier(rep[i], rep[j])
    <2>1. CASE j \in DOMAIN reported
      <3>1. i \in DOMAIN reported
        BY <2>1, <1>b, <1>11
      <3> QED
        BY <2>1, <3>1, <1>2, <1>8, <1>11 DEF ReportsInOrder
    <2>2. CASE j \notin DOMAIN reported /\ i \in DOMAIN reported
      <3>1. PICK m \in DOMAIN x.events :
              rep[j].rank = x.events[m].rank /\ rep[j].snap = x.events[m].snap /\ rep[j].no = x.events[m].no
        BY <2>2, <1>8
      <3>2. rep[i] = reported[i] /\ reported[i].by = p
        BY <2>2, <1>8, <1>11
      <3>3. Earlier(reported[i], x.events[m])
        BY <2>2, <3>1, <3>2, <1>3, <1>11 DEF ReportsBefore
      <3> QED
        BY <3>1, <3>2, <3>3 DEF Earlier
    <2>3. CASE j \notin DOMAIN reported /\ i \notin DOMAIN reported
      BY <2>3, <1>8, <1>11
    <2> QED
      BY <2>1, <2>2, <2>3
  <1>12. \A q \in Pids : Suits(q, proc'[q], logs, written, rep)
    BY <1>6, <1>9, <1>10
  <1>13. ASSUME NEW q \in Pids PROVE Suits(q, proc[q], logs, written, reported)'
    <2>1. Suits(q, proc'[q], logs', written', reported')
      BY <1>1, <1>12, Zenon DEF rep
    <2> QED
      BY <2>1, <1>1, SuitsNext
  <1>14. ReportsInOrder'
    BY <1>11 DEF ReportsInOrder, rep
  <1>15. \A r \in LogRanks : FilesFit(r, logs[r], written[r])'
    BY <1>1 DEF ReportInv
  <1>16. /\ job' \in Jobs
         /\ written' \in [AllRanks -> Nat] /\ \A r \in AllRanks : written'[r] <= Len(job'.snaps[r])
         /\ logs' \in [LogRanks -> Seq(LogFile)] /\ reported' \in Seq(SoundReport)
    BY <1>1, <1>2, <1>8 DEF ReportType, rep
  <1> QED
    BY <1>13, <1>14, <1>15, <1>16 DEF ReportInv, ReportType, Suits, WorkOf

-----------------------------------------------------------------------------
(* The remaining steps, and the theorem.                                   *)

\* The dispatcher's times and the hardware's samples are none of the events.
LEMMA DueTimesPreserve ==
  ASSUME ReportInv, CollectorType, NEW p \in Pids, GeneratePodEvents(p) \/ AsyncSample(p) \/ HardwareInfoGet(p)
  PROVE  ReportInv'
  <1>1. Shape(proc[p]) /\ proc = [q \in Pids |-> proc[q]] /\ UNCHANGED <<job, logs, written, reported>>
    BY DEF CollectorType, GeneratePodEvents, AsyncSample, HardwareInfoGet
  <1>2. (\A q \in Pids \ {p} : proc'[q] = proc[q]) /\ proc'[p].pc = proc[p].pc /\ WorkOf(proc'[p]) = WorkOf(proc[p])
    <2>1. CASE GeneratePodEvents(p)
      BY <2>1, <1>1 DEF GeneratePodEvents, WorkOf, Shape, Fields
    <2>2. CASE AsyncSample(p)
      BY <2>2, <1>1 DEF AsyncSample, WorkOf, Shape, Fields
    <2>3. CASE HardwareInfoGet(p)
      BY <2>3, <1>1 DEF HardwareInfoGet, WorkOf, Shape, Fields
    <2> QED
      BY <2>1, <2>2, <2>3
  <1>3. \A q \in Pids : proc'[q] = proc[q] \/ (proc'[q].pc = proc[q].pc /\ WorkOf(proc'[q]) = WorkOf(proc[q]))
    BY <1>2
  <1> QED
    BY <1>1, <1>3, ProcsChange

\* At first nothing is written, read or reported.
LEMMA ReportInitEstablishes == CollectorInit => ReportInv
  <1> SUFFICES ASSUME CollectorInit PROVE ReportInv
    OBVIOUS
  <1>1. job \in Jobs /\ proc = [p \in Pids |-> NewProc] /\ logs = [r \in LogRanks |-> <<>>]
        /\ written = [r \in AllRanks |-> 0] /\ reported = <<>>
    BY DEF CollectorInit, AllRanks
  <1>2. \A r \in AllRanks : Len(job.snaps[r]) \in Nat
    BY <1>1, CollectorAssumption DEF AllRanks
  <1>3. written \in [AllRanks -> Nat] /\ \A r \in AllRanks : written[r] <= Len(job.snaps[r])
    BY <1>1, <1>2
  <1>4. logs \in [LogRanks -> Seq(LogFile)] /\ reported \in Seq(SoundReport) /\ DOMAIN reported = {}
    BY <1>1
  <1>5. \A r \in LogRanks : FilesFit(r, logs[r], written[r])
    <2> TAKE r \in LogRanks
    <2>1. Len(logs[r]) = 0
      BY <1>1
    <2> QED
      BY <2>1 DEF FilesFit
  <1>6. \A p \in Pids : Suits(p, proc[p], logs, written, reported)
    <2> TAKE p \in Pids
    <2>1. Fresh(proc[p])
      BY <1>1 DEF Fresh, NewProc
    <2> QED
      BY <2>1, <1>4, FreshSuits
  <1>7. ReportsInOrder
    BY <1>4 DEF ReportsInOrder
  <1> QED
    BY <1>1, <1>3, <1>4, <1>5, <1>6, <1>7, SuitsMeans

\* Whatever happens next.
LEMMA ReportStepPreserves ==
  ASSUME ReportInv, CollectorType, [CollectorNext]_collectorVars
  PROVE  ReportInv'
  <1>1. CASE UNCHANGED <<job, proc, logs, written, reported>>
    <2>1. \A p \in Pids : proc'[p] = proc[p]
      BY <1>1
    <2>2. UNCHANGED <<job, logs, written, reported>>
      BY <1>1
    <2> QED
      BY <2>1, <2>2, ProcsChange
  <1>2. CASE Tick \/ Upgrade \/ UNCHANGED collectorVars
    BY <1>1, <1>2 DEF Tick, Upgrade, collectorVars
  <1>3. CASE LaunchCollectorDaemon \/ \E p \in Pids : BeginScan(p) \/ FirstOrDie(p) \/ StartParser(p)
    BY <1>3, PlacesPreserve
  <1>4. CASE \E r \in LogRanks : WriteLog(r) \/ Show(r)
    BY <1>4, WriteLogPreserves, ShowPreserves
  <1>5. CASE \E r \in SockRanks : DoPost(r)
    BY <1>5, PostPreserves
  <1>6. CASE \E p \in Pids : \E r \in LogRanks : EventLogParser(p, r) \/ ReadEof(p, r) \/ OpenFile(p, r)
    BY <1>6, ReadPreserves, EofPreserves, OpenPreserves
  <1>7. CASE \E p \in Pids : EventSockParser(p)
    BY <1>7, SockPreserves
  <1>8. CASE \E p \in Pids : GeneratePodEvents(p) \/ AsyncSample(p) \/ HardwareInfoGet(p)
    BY <1>8, DueTimesPreserve
  <1>9. CASE \E p \in Pids : EventDispatcher(p)
    BY <1>9, DispatchPreserves
  <1> QED
    BY <1>2, <1>3, <1>4, <1>5, <1>6, <1>7, <1>8, <1>9, Zenon DEF CollectorNext

\* The invariant is more than the property.
LEMMA ReportInvSuffices == ReportInv => ReportedAsWritten
  <1> SUFFICES ASSUME ReportInv PROVE ReportedAsWritten
    OBVIOUS
  <1>1. \A i \in DOMAIN reported : reported[i].snap # 0 /\ reported[i].tags = reported[i].snap
    <2> TAKE i \in DOMAIN reported
    <2>1. reported[i] \in SoundReport
      BY DEF ReportInv, ReportType
    <2> QED
      BY <2>1 DEF SoundReport
  <1> QED
    BY <1>1 DEF ReportedAsWritten, ReportInv, ReportsInOrder, Earlier

\* Whatever is written, rotated, made visible in halves, posted or lost, and whichever collectors come
\* and go: what one reports was written as it is reported, under the tags of its own group, and no
\* collector reports a rank's events out of order or twice.
THEOREM ReportedAsItWas == CollectorSpec => []ReportedAsWritten
  <1>1. CollectorInit => CollectorInv /\ ReportInv
    BY CollectorInitEstablishes, ReportInitEstablishes
  <1>2. (CollectorInv /\ ReportInv) /\ [CollectorNext]_collectorVars => (CollectorInv /\ ReportInv)'
    BY CollectorStepPreserves, ReportStepPreserves DEF CollectorInv
  <1>3. CollectorInv /\ ReportInv => ReportedAsWritten
    BY ReportInvSuffices
  <1> QED
    BY <1>1, <1>2, <1>3, PTL DEF CollectorSpec
=============================================================================
