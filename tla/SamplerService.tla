--------------------------- MODULE SamplerService ---------------------------
(***************************************************************************)
(* The negative sampler that the training processes of a machine share     *)
(* (recis/data/sampler_service.py, local_rpc_data_sampler.py,              *)
(* local_data_sampler.py).  One server process answers RPCs with a pool of *)
(* threads; a read-write lock with an upgrade lets one client install a    *)
(* new table while the others sample from the old one.  A batch of a       *)
(* client is four calls, and a new table may come between any two.         *)
(*                                                                         *)
(* A table is a version number; Tables[v] gives its rows.  A packed row is *)
(* <<v, id>>.  Sampling weights only change probabilities and are left out *)
(***************************************************************************)
EXTENDS Integers, Sequences, FiniteSets, SequencesExt

CONSTANTS
  Clients,    \* training processes of the machine
  Loader,     \* the one with LOCAL_PROCESS_RANK 0, which loads the table
  Threads,    \* rpc_server_num_threads
  Tables,     \* sequence of [ids |-> sequence of ids, tag |-> [id -> tag], named |-> BOOLEAN]
  Columns,    \* columns of a table by name: [name, kind, rank, weighted]
  Batches,    \* set of positive samples: [pos, tag, group, cnts]
  DefaultId,  \* default_value of valid_sample_ids() and pack_feature()
  PutBack,    \* sampling with replacement
  AvoidAll,   \* avoid_conflict_with_all_dedup_tags
  MaxTimeouts \* bound on calls that outlive the client's rpc_timeout

ASSUME ServiceAssumption == IsFiniteSet(Threads)

VARIABLES
  lock,     \* _ReadWriteLock: [readers, upgrader, writer]
  sampler,  \* _SamplerWrapper._sampler: a version, 0 for None
  threads,  \* server threads: [st, op, who, arg, tbl, asleep]
  clients,  \* clients: [st, op, batch, neg, ids, out]
  loaded,   \* tables the loader has sent
  timeouts,
  layout    \* names, ranks and tensors of a table, the same for all: [ranks, tensors]

serviceVars == <<lock, sampler, threads, clients, loaded, timeouts, layout>>

Nobody == "nobody"
IdleThread == [st |-> "idle", op |-> "none", who |-> Nobody, arg |-> 0, tbl |-> 0, asleep |-> FALSE]
NewClient == [st |-> "joining", op |-> "none", batch |-> 0, neg |-> <<>>, ids |-> <<>>, out |-> 0]

-----------------------------------------------------------------------------
(* The flat lists of tensors a table is loaded from and packed into.       *)

\* init_names_ranks(): a column of strings becomes a ragged one of characters,
\* a weighted column is listed twice.
NamesRanks ==
  FlattenSeq([i \in DOMAIN Columns |->
    LET col == Columns[i]
        rank == IF col.kind = "string" THEN 1 ELSE col.rank
    IN  IF col.weighted THEN <<<<col.name, rank>>, <<col.name, rank>>>> ELSE <<<<col.name, rank>>>>])

\* The parts of a column, and the offsets with the innermost first.
Values(col) == <<<<"values", col.name>>>> \o (IF col.weighted THEN <<<<"weight", col.name>>>> ELSE <<>>)
Offsets(col) == [l \in 1..(IF col.kind = "string" THEN 1 ELSE col.rank) |-> <<"offsets", col.name, l>>]
Splits(col) == LET o == Reverse(Offsets(col)) IN IF col.weighted THEN o \o o ELSE o

\* unfold(): batch size, then all values, then all offsets, outermost first.
Unfold ==
  <<<<"size">>>> \o FlattenSeq([i \in DOMAIN Columns |-> Values(Columns[i])])
                 \o FlattenSeq([i \in DOMAIN Columns |-> Splits(Columns[i])])

\* fold(): the same walk backwards over names and ranks; the second tensor of a name is its weight.
Fold(nr, args) ==
  LET n == Len(nr)
      before[i \in 0..n] == IF i = 0 THEN 0 ELSE before[i - 1] + nr[i][2]
      splits(i) == [l \in 1..nr[i][2] |-> args[(n + 1) + before[i - 1] + (nr[i][2] - l + 1)]]
      named(name) == {i \in 1..n : nr[i][1] = name}
      first(name) == CHOOSE i \in named(name) : \A j \in named(name) : i <= j
  IN  [name \in {nr[i][1] : i \in 1..n} |->
         [values  |-> args[1 + first(name)],
          offsets |-> splits(first(name)),
          weight  |-> {args[1 + i] : i \in named(name) \ {first(name)}}]]

ServiceInit ==
  /\ lock = [readers |-> 0, upgrader |-> FALSE, writer |-> FALSE]
  /\ sampler = 0
  /\ threads = [t \in Threads |-> IdleThread]
  /\ clients = [c \in Clients |-> NewClient]
  /\ loaded = 0
  /\ timeouts = 0
  /\ layout = [ranks |-> NamesRanks, tensors |-> Unfold]

-----------------------------------------------------------------------------
(* The answers of a table.                                                 *)

Ids(v) == Range(Tables[v].ids)

\* load_by_batch(): the four named columns must be there, ids must be unique.
Loadable(v) == Tables[v].named /\ Cardinality(Ids(v)) = Len(Tables[v].ids)

OfTag(v, tag) == {id \in Ids(v) : Tables[v].tag[id] = tag}
Avoided(b, i) == IF AvoidAll THEN Range(b.pos) ELSE {b.pos[i]}
Failed == [ok |-> FALSE, val |-> 0]
Done(val) == [ok |-> TRUE, val |-> val]

\* One count stands for every positive.
CountOf(b, i) == IF Len(b.cnts) = 1 THEN b.cnts[1] ELSE b.cnts[i]

\* sample_ids() refuses other numbers of counts, and a category it does not know or that is too small.
SampleFails(v, b) ==
  \/ Len(b.cnts) \notin {1, Len(b.pos)}
  \/ \E i \in DOMAIN b.pos :
       \/ OfTag(v, b.tag[i]) = {}
       \/ PutBack /\ Cardinality(OfTag(v, b.tag[i])) < CountOf(b, i) + 1
       \/ ~PutBack /\ Cardinality(OfTag(v, b.tag[i]) \ Avoided(b, i)) < CountOf(b, i)

\* The draws for positive i: with replacement any ids, else distinct ones; never an avoided one.
Draws(v, b, i) ==
  {s \in [1..CountOf(b, i) -> OfTag(v, b.tag[i]) \ Avoided(b, i)] :
     PutBack \/ \A j, k \in DOMAIN s : s[j] = s[k] => j = k}

\* With replacement the draw goes on until an id is not avoided: for ever if there is none.
SampleReturns(v, b) == SampleFails(v, b) \/ \A i \in DOMAIN b.pos : Draws(v, b, i) # {}

SampleIds(v, b) ==
  IF SampleFails(v, b) THEN {Failed}
  ELSE {Done(FlattenSeq(s)) : s \in {f \in [DOMAIN b.pos -> UNION {Draws(v, b, i) : i \in DOMAIN b.pos}] :
                                 \A i \in DOMAIN b.pos : f[i] \in Draws(v, b, i)}}

ValidSampleIds(v, ids) == Done([i \in DOMAIN ids |-> IF ids[i] \in Ids(v) THEN ids[i] ELSE DefaultId])

\* pack_feature(): the row of an unknown id is the default's, which must then exist.
PackRows(v, ids) ==
  IF DefaultId \notin Ids(v) /\ \E i \in DOMAIN ids : ids[i] \notin Ids(v) THEN Failed
  ELSE Done([rows    |-> [i \in DOMAIN ids |-> <<v, IF ids[i] \in Ids(v) THEN ids[i] ELSE DefaultId>>],
             columns |-> Fold(layout.ranks, layout.tensors)])

-----------------------------------------------------------------------------
(* What the client does with the answers.                                  *)

Before(cnts, i) == FoldSeq(+, 0, SubSeq(cnts, 1, i - 1))

\* Mutant: the negatives after all positives.
CombineAtEnd(pos, cnts, neg) == pos \o neg

\* combine_vector_with_sample_counts() wants a count for each positive, and as many negatives as they say.
Combinable(pos, cnts, neg) == Len(pos) = Len(cnts) /\ Len(neg) = FoldSeq(+, 0, cnts)

\* Every positive is followed by its negatives.
CombineVector(pos, cnts, neg) ==
  FlattenSeq([i \in DOMAIN pos |-> <<pos[i]>> \o SubSeq(neg, Before(cnts, i) + 1, Before(cnts, i) + cnts[i])])

\* tile_with_sample_counts(), list_tile(): a value for the positive and each of its negatives.
Tile(values, cnts) == FlattenSeq([i \in DOMAIN values |-> [k \in 1..(cnts[i] + 1) |-> values[i]]])

\* combine(): the packed table replaces the first table of the batch, group ids and indicators are tiled.
Combine(b, packed) ==
  [rows |-> packed.rows, columns |-> packed.columns, groups |-> Tile(b.group, b.cnts)]

-----------------------------------------------------------------------------
(* Clients.                                                                *)

Joined == \A c \in Clients : clients[c].st # "joining"

\* LocalRpcDataSampler(): init_rpc() returns when the server and all clients have joined.
Join(c) ==
  /\ clients[c].st = "joining"
  /\ clients' = [clients EXCEPT ![c].st = "ready"]
  /\ UNCHANGED <<lock, sampler, threads, loaded, timeouts, layout>>

StartBatch(c, b) ==
  /\ Joined
  /\ clients[c].st = "ready"
  /\ clients' = [clients EXCEPT ![c] = [@ EXCEPT !.st = "send", !.op = "sample", !.batch = b]]
  /\ UNCHANGED <<lock, sampler, threads, loaded, timeouts, layout>>

StartReload ==
  /\ Joined
  /\ clients[Loader].st = "ready"
  /\ loaded < Len(Tables)
  /\ loaded' = loaded + 1
  /\ clients' = [clients EXCEPT ![Loader] = [@ EXCEPT !.st = "send", !.op = "reload"]]
  /\ UNCHANGED <<lock, sampler, threads, timeouts, layout>>

Arg(c) ==
  CASE clients[c].op = "reload" -> loaded
    [] clients[c].op = "sample" -> clients[c].batch
    [] clients[c].op = "valid"  -> clients[c].batch.pos
    [] OTHER                    -> clients[c].ids

\* remote_method(): a thread of the server takes the call, the client waits.
RpcSync(c, t) ==
  /\ clients[c].st = "send"
  /\ threads[t].st = "idle"
  /\ threads' = [threads EXCEPT ![t] =
       [st |-> IF clients[c].op = "reload" THEN "build" ELSE "acquire",
        op |-> clients[c].op, who |-> c, arg |-> Arg(c), tbl |-> 0, asleep |-> FALSE]]
  /\ clients' = [clients EXCEPT ![c].st = "wait"]
  /\ UNCHANGED <<lock, sampler, loaded, timeouts, layout>>

\* rpc_timeout: the call raises in the client; the server's thread goes on.
Timeout(c) ==
  /\ clients[c].st = "wait"
  /\ timeouts < MaxTimeouts
  /\ timeouts' = timeouts + 1
  /\ clients' = [clients EXCEPT ![c].st = "failed"]
  /\ threads' = [t \in Threads |-> IF threads[t].who = c THEN [threads[t] EXCEPT !.who = Nobody] ELSE threads[t]]
  /\ UNCHANGED <<lock, sampler, loaded, layout>>

\* The answer is the next step of neg_sampling_fn; an exception ends the client.
Answered(client, answer) ==
  IF ~answer.ok \/ (client.op = "valid" /\ ~Combinable(answer.val, client.batch.cnts, client.neg))
  THEN [client EXCEPT !.st = "failed"]
  ELSE CASE client.op = "reload" -> [client EXCEPT !.st = "ready"]
         [] client.op = "sample" -> [client EXCEPT !.st = "send", !.op = "valid", !.neg = answer.val]
         [] client.op = "valid"  -> [client EXCEPT !.st = "send", !.op = "pack",
                                       !.ids = CombineVector(answer.val, client.batch.cnts, client.neg)]
         [] OTHER                -> [client EXCEPT !.st = "done", !.out = Combine(client.batch, answer.val)]

\* Clients after the call of thread t has returned answer.
Reply(t, answer) ==
  IF threads[t].who = Nobody THEN clients
  ELSE [clients EXCEPT ![threads[t].who] = Answered(@, answer)]

-----------------------------------------------------------------------------
(* Server threads.  A waiter of the condition sleeps until notify_all().   *)

Awake(t, st) == threads[t].st = st /\ ~threads[t].asleep
Sleep(t) == threads' = [threads EXCEPT ![t].asleep = TRUE] /\ UNCHANGED lock
NotifyAll(ths) == [t \in Threads |-> [ths[t] EXCEPT !.asleep = FALSE]]

\* reload_sampler_by_batch(): the new sampler is built without the lock.
Build(t) ==
  /\ Awake(t, "build")
  /\ \/ /\ Loadable(threads[t].arg)
        /\ threads' = [threads EXCEPT ![t].st = "upgrade"]
        /\ UNCHANGED clients
     \/ /\ ~Loadable(threads[t].arg)
        /\ threads' = [threads EXCEPT ![t] = IdleThread]
        /\ clients' = Reply(t, Failed)
  /\ UNCHANGED <<lock, sampler, loaded, timeouts, layout>>

AcquireUpgrade(t) ==
  /\ Awake(t, "upgrade")
  /\ IF lock.upgrader \/ lock.writer THEN Sleep(t)
     ELSE /\ lock' = [lock EXCEPT !.upgrader = TRUE]
          /\ threads' = [threads EXCEPT ![t].st = "towrite"]
  /\ UNCHANGED <<sampler, clients, loaded, timeouts, layout>>

\* Mutant: the upgrade does not wait for the readers.
UpgradeOverReaders(t) ==
  /\ Awake(t, "towrite")
  /\ lock' = [lock EXCEPT !.writer = TRUE]
  /\ threads' = [threads EXCEPT ![t].st = "install"]
  /\ UNCHANGED <<sampler, clients, loaded, timeouts, layout>>

AcquireUpgradeToWrite(t) ==
  /\ Awake(t, "towrite")
  /\ IF lock.writer \/ lock.readers > 0 THEN Sleep(t)
     ELSE /\ lock' = [lock EXCEPT !.writer = TRUE]
          /\ threads' = [threads EXCEPT ![t].st = "install"]
  /\ UNCHANGED <<sampler, clients, loaded, timeouts, layout>>

Install(t) ==
  /\ Awake(t, "install")
  /\ sampler' = threads[t].arg
  /\ threads' = [threads EXCEPT ![t].st = "release_write"]
  /\ UNCHANGED <<lock, clients, loaded, timeouts, layout>>

ReleaseUpgradeToWrite(t) ==
  /\ Awake(t, "release_write")
  /\ lock' = [lock EXCEPT !.writer = FALSE]
  /\ threads' = NotifyAll([threads EXCEPT ![t].st = "release_upgrade"])
  /\ UNCHANGED <<sampler, clients, loaded, timeouts, layout>>

\* Mutant: the waiters are not woken.
ReleaseUpgradeSilently(t) ==
  /\ Awake(t, "release_upgrade")
  /\ lock' = [lock EXCEPT !.upgrader = FALSE]
  /\ threads' = [threads EXCEPT ![t] = IdleThread]
  /\ clients' = Reply(t, Done(0))
  /\ UNCHANGED <<sampler, loaded, timeouts, layout>>

ReleaseUpgrade(t) ==
  /\ Awake(t, "release_upgrade")
  /\ lock' = [lock EXCEPT !.upgrader = FALSE]
  /\ threads' = NotifyAll([threads EXCEPT ![t] = IdleThread])
  /\ clients' = Reply(t, Done(0))
  /\ UNCHANGED <<sampler, loaded, timeouts, layout>>

AcquireRead(t) ==
  /\ Awake(t, "acquire")
  /\ IF lock.upgrader \/ lock.writer THEN Sleep(t)
     ELSE /\ lock' = [lock EXCEPT !.readers = @ + 1]
          /\ threads' = [threads EXCEPT ![t].st = "read", ![t].tbl = sampler]
  /\ UNCHANGED <<sampler, clients, loaded, timeouts, layout>>

\* The wrapped call: None has no such method.
Answers(t) ==
  LET th == threads[t] IN
    CASE th.tbl = 0       -> {Failed}
      [] th.op = "sample" -> SampleIds(th.tbl, th.arg)
      [] th.op = "valid"  -> {ValidSampleIds(th.tbl, th.arg)}
      [] OTHER            -> {PackRows(th.tbl, th.arg)}

\* The call runs, then release_read() in the finally; the last reader wakes the waiters.
ReleaseRead(t) ==
  /\ Awake(t, "read")
  /\ threads[t].tbl # 0 /\ threads[t].op = "sample" => SampleReturns(threads[t].tbl, threads[t].arg)
  /\ lock' = [lock EXCEPT !.readers = @ - 1]
  /\ threads' = LET ths == [threads EXCEPT ![t] = IdleThread]
                IN  IF lock.readers = 1 THEN NotifyAll(ths) ELSE ths
  /\ \E answer \in Answers(t) : clients' = Reply(t, answer)
  /\ UNCHANGED <<sampler, loaded, timeouts, layout>>

ThreadStep(t) ==
  \/ Build(t) \/ AcquireUpgrade(t) \/ AcquireUpgradeToWrite(t) \/ Install(t)
  \/ ReleaseUpgradeToWrite(t) \/ ReleaseUpgrade(t) \/ AcquireRead(t) \/ ReleaseRead(t)

ServiceNext ==
  \/ \E c \in Clients : Join(c) \/ Timeout(c)
  \/ \E c \in Clients, b \in Batches : StartBatch(c, b)
  \/ StartReload
  \/ \E c \in Clients, t \in Threads : RpcSync(c, t)
  \/ \E t \in Threads : ThreadStep(t)

ServiceSpec == ServiceInit /\ [][ServiceNext]_serviceVars

-----------------------------------------------------------------------------
\* The table a call reads from stays the installed one until the call ends: the
\* upgrade waits for the readers, and no reader starts while a table is swapped.
ReadersKeepTheirTable ==
  \A t \in Threads : threads[t].st = "read" => threads[t].tbl = sampler /\ ~lock.writer

\* What a batch has to be: see BatchesAreRight.
RowsOfBatch(b, out) ==
  /\ \E v \in DOMAIN Tables : \A k \in DOMAIN out.rows : out.rows[k][1] = v
  /\ Len(out.rows) = Len(b.pos) + FoldSeq(+, 0, b.cnts)
  /\ Len(out.groups) = Len(out.rows)
  /\ \A i \in DOMAIN b.pos :
       LET first == Before(b.cnts, i) + i
           negatives == {out.rows[k][2] : k \in (first + 1)..(first + b.cnts[i])}
       IN  /\ out.rows[first][2] \in {b.pos[i], DefaultId}
           /\ b.pos[i] \notin negatives \ {DefaultId}
           /\ \A id \in negatives \ {DefaultId} : \E v \in DOMAIN Tables : id \in OfTag(v, b.tag[i])
           /\ \A k \in first..(first + b.cnts[i]) : out.groups[k] = b.group[i]
  /\ \A j \in DOMAIN Columns :
       LET col == Columns[j] IN
         out.columns[col.name] = [values |-> <<"values", col.name>>, offsets |-> Offsets(col),
                                  weight |-> IF col.weighted THEN {<<"weight", col.name>>} ELSE {}]

\* A finished batch, whatever tables were installed between its calls: rows of a single
\* table; each positive (or the default row) followed by its own negatives, none of
\* which is the positive; group ids beside their rows; all columns in place.
BatchesAreRight ==
  \A c \in Clients : clients[c].st = "done" => RowsOfBatch(clients[c].batch, clients[c].out)

\* Every call a client sends comes back, with an answer or an exception: no thread of
\* the server sleeps for ever on the lock.
CallsServed == \A c \in Clients : clients[c].st \in {"send", "wait"} ~> clients[c].st \in {"ready", "done", "failed"}
=============================================================================
