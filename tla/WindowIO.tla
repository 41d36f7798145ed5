------------------------------ MODULE WindowIO ------------------------------
(***************************************************************************)
(* How the window datasets cut tables into windows, and a window between   *)
(* workers, reader threads and subprocesses (recis/io/window_io.py).       *)
(*                                                                         *)
(* A table is the number of its rows, a sheet is a range of rows of one    *)
(* table.  Rows are numbered from 0, sequences from 1.                     *)
(***************************************************************************)
EXTENDS Integers, Sequences, SequencesExt, FiniteSetsExt

CONSTANTS
    WorkerNum,       \* _worker_num, the number of ranks
    Tables,          \* rows of every path, in the order of add_path
    Proportions,     \* _path_proportion: <<parts, total>> of every path
    ReadThreadsNum,  \* _read_threads_num as given by the user
    SplitNum,        \* split_num of the split datasets
    RowNum,          \* row_num of the row datasets
    SubNum,          \* subprocesses of a reader
    LakeTimes,       \* times of a lake stream that have a row
    LakeInterval,    \* interval_mins
    LakeStep,        \* step_mins
    LakeRepeat       \* repeat_mins

ASSUME WindowAssumption ==
    /\ {WorkerNum, ReadThreadsNum, SplitNum, RowNum, SubNum} \subseteq Nat \ {0}
    /\ {LakeInterval, LakeStep, LakeRepeat} \subseteq Nat \ {0}
    /\ LakeInterval % LakeRepeat = 0
    /\ LakeTimes \subseteq Nat /\ IsFiniteSet(LakeTimes)
    /\ Tables \in Seq(Nat) /\ Tables /= <<>>
    /\ Proportions \in Seq(Nat \X (Nat \ {0})) /\ Len(Proportions) = Len(Tables)

Kinds == {"split", "row", "combo", "lake"}

CeilDiv(a, b) == (a + b - 1) \div b

Sheet(t, start, end) == [table |-> t, start |-> start, end |-> end]

\* Parts of the first n paths.
Parts[n \in 0 .. Len(Proportions)] == IF n = 0 THEN 0 ELSE Parts[n - 1] + Proportions[n][1]

\* The total that _parse_proportion divides the threads by, and the paths of
\* one group: as many as fill it.
Total == Proportions[1][2]
GroupSize == Min({n \in DOMAIN Proportions : Parts[n] >= Total})

\* The proportions are accepted, and fill the total as add_path asks.
ProportionsValid ==
    /\ \A i \in DOMAIN Proportions : Proportions[i][2] = Total
    /\ \E n \in DOMAIN Proportions : Parts[n] = Total

\* Threads of each path of a group, and of a window.
ThreadNums == [i \in 1 .. GroupSize |-> CeilDiv(ReadThreadsNum, Total) * Proportions[i][1]]
WindowThreads == Total * CeilDiv(ReadThreadsNum, Total)

\* Mutant: every shard gets a remainder row as long as there is a remainder.
RemaindersBeforeAll(length, num, extra, i) == IF length % num > 0 THEN i - 1 ELSE 0

\* How many of the shards before the i-th of num get one of the remaining
\* rows: they go to the shards from the offset on, cyclically.
RemaindersBefore(length, num, extra, i) ==
    Cardinality({j \in 1 .. i - 1 : (j - 1 - extra) % num < length % num})

\* _build_shard: num neighbouring ranges of rows of table t.
BuildShard(t, begin, length, num, extra) ==
    LET start(i) == begin + (i - 1) * (length \div num) + RemaindersBefore(length, num, extra, i)
    IN  [i \in 1 .. num |-> Sheet(t, start(i), start(i + 1))]

\* sheets[task_id::task_num]
Stride(sheets, w) ==
    LET mine == {i \in DOMAIN sheets : (i - 1) % WorkerNum = w}
    IN  [k \in 1 .. Cardinality(mine) |-> sheets[w + (k - 1) * WorkerNum + 1]]

ShardSheetsBySplitNum(t, w, threads) ==
    Stride(BuildShard(t, 0, Tables[t], WorkerNum * threads * SplitNum, 0), w)

\* One chunk of RowNum rows for each worker after the other; the remainders
\* continue where those of the chunk before have ended.
ShardSheetsByRowNum(t, w, threads) ==
    LET chunk == RowNum * WorkerNum
        num == WorkerNum * threads
        chunks == [c \in 1 .. CeilDiv(Tables[t], chunk) |->
            LET offset == (c - 1) * chunk
            IN  BuildShard(t, offset, Min({chunk, Tables[t] - offset}), num, offset % num)]
    IN  Stride(FlattenSeq(chunks), w)

\* The threads of the t-th path.
PathThreads(t) == ThreadNums[((t - 1) % GroupSize) + 1]

\* Split i (of SplitNum) of the t-th path for worker w.
PathSplit(t, w, i) ==
    SubSeq(ShardSheetsBySplitNum(t, w, PathThreads(t)), (i - 1) * PathThreads(t) + 1, i * PathThreads(t))

\* _shard_window_paths with split_num: group after group of paths, split
\* after split, the sheets of the group's paths.  Paths after the last whole
\* group are left out.
WindowPathsBySplit(w) ==
    LET groups == Len(Tables) \div GroupSize
        window(g, i) == FlattenSeq([k \in 1 .. GroupSize |-> PathSplit((g - 1) * GroupSize + k, w, i)])
    IN  FlattenSeq([n \in 1 .. groups * SplitNum |->
            window((n - 1) \div SplitNum + 1, ((n - 1) % SplitNum) + 1)])

\* _shard_window_paths with row_num: path after path.
WindowPathsByRow(w) ==
    FlattenSeq([t \in DOMAIN Tables |-> ShardSheetsByRowNum(t, w, WindowThreads)])

\* _window_paths of a worker.  The combo datasets cut each member of a group
\* of tables in the same way; their rows go together.
WindowPaths(kind, w) == IF kind = "row" THEN WindowPathsByRow(w) ELSE WindowPathsBySplit(w)

\* The part of a sheet that subprocess sub reads.
ShardTableBySubprocess(sheet, sub) ==
    LET size == sheet.end - sheet.start
    IN  [sheet EXCEPT !.start = sheet.start + sub * (size \div SubNum) + Min({sub, size % SubNum}),
                      !.end = sheet.start + (sub + 1) * (size \div SubNum) + Min({sub + 1, size % SubNum})]

\* The rows of a sheet.
SheetRows(sheet) ==
    [i \in 1 .. sheet.end - sheet.start |-> [table |-> sheet.table, row |-> sheet.start + i - 1]]

\* What the readers of the subprocesses hand out for the sheets of a window.
ReadSheets(sheets) ==
    FlattenSeq([n \in 1 .. Len(sheets) * SubNum |->
        SheetRows(ShardTableBySubprocess(sheets[(n - 1) \div SubNum + 1], (n - 1) % SubNum))])

\* A worker's and a subprocess's part of a lake stream: its index among all
\* subprocesses of all workers.
LakeIndex(w, sub) == w * SubNum + sub

\* The rows that the stream's sharding gives to a worker and its subprocess
\* between two times.
LakePartition(w, sub, from, to) ==
    SelectSeq([i \in 1 .. to - from |-> [table |-> 1, row |-> from + i - 1]],
              LAMBDA r : r.row \in LakeTimes /\ r.row % (WorkerNum * SubNum) = LakeIndex(w, sub))

\* One window of a lake stream: its repeated steps, one after the other.
LakeWindow(w, offset) ==
    FlattenSeq([n \in 1 .. (LakeInterval \div LakeRepeat) * SubNum |->
        LET from == offset + ((n - 1) \div SubNum) * LakeRepeat
        IN  LakePartition(w, (n - 1) % SubNum, from, from + LakeRepeat)])

\* The windows of a worker, each with its rows: the sheets that next_window
\* takes from _window_paths, or the step it makes in the lake stream.
Windows(kind, w) ==
    IF kind = "lake"
    THEN [n \in 1 .. (Max(LakeTimes) \div LakeStep) + 1 |-> LakeWindow(w, (n - 1) * LakeStep)]
    ELSE LET paths == WindowPaths(kind, w)
         IN  [n \in 1 .. Len(paths) \div WindowThreads |->
                ReadSheets(SubSeq(paths, (n - 1) * WindowThreads + 1, n * WindowThreads))]

\* next_window returns True for a window without data.  The combo dataset asks
\* for a StopIteration that its end-marking iterator never raises.
SkipsEmpty(kind) == kind = "lake"

\* The first window from the n-th on that next_window does not skip: the loop
\* of get_new_window_iter.
FirstWindow(kind, windows, n) ==
    Min({Len(windows) + 1} \cup
        {m \in n .. Len(windows) : ~(SkipsEmpty(kind) /\ windows[m] = <<>>)})

\* reset() leaves a dataset that can be read again: the combo dataset loses
\* its paths and the lake dataset the end of its interval.
ReusableAfterReset(kind) == kind \in {"split", "row"}
=============================================================================
