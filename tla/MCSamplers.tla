----------------------------- MODULE MCSamplers -----------------------------
(***************************************************************************)
(* Both negative samplers; a job uses one of them.                         *)
(***************************************************************************)
EXTENDS SamplerService, ShardSampler

VARIABLE kind  \* "service" or "shard"
vars == <<kind, serviceVars, shardVars>>

\* A table whose second version lost an id that the first one had, and a third one that is refused.
MCTables == << [ids |-> <<0, 1, 2, 3>>, tag |-> [i \in 0..3 |-> IF i \in {1, 2} THEN 0 ELSE 1], named |-> TRUE],
               [ids |-> <<4, 3, 1, 0>>, tag |-> [i \in {0, 1, 3, 4} |-> IF i \in {1, 4} THEN 0 ELSE 1], named |-> TRUE],
               [ids |-> <<1, 1, 0>>, tag |-> [i \in 0..1 |-> 0], named |-> TRUE] >>
MCColumns == << [name |-> "cat", kind |-> "ragged", rank |-> 2, weighted |-> TRUE],
                [name |-> "key", kind |-> "string", rank |-> 0, weighted |-> FALSE],
                [name |-> "price", kind |-> "dense", rank |-> 0, weighted |-> FALSE],
                [name |-> "unit", kind |-> "ragged", rank |-> 1, weighted |-> FALSE] >>
\* A positive sample that no table has; one count for two positives, which is sampled but not combined.
MCBatches == { [pos |-> <<2, 7>>, tag |-> <<0, 1>>, group |-> <<5, 6>>, cnts |-> <<1, 1>>],
               [pos |-> <<3, 7>>, tag |-> <<0, 1>>, group |-> <<5, 6>>, cnts |-> <<1>>] }

\* Uneven shards in any order of rows, a table without the default, and one of which a rank has no rows.
MCShards == << [r \in 0..1 |-> IF r = 0 THEN <<5, 0, 3>> ELSE <<8>>],
               [r \in 0..1 |-> IF r = 0 THEN <<3>> ELSE <<8>>],
               [r \in 0..1 |-> IF r = 0 THEN <<>> ELSE <<8, 0, 5>>] >>
MCFeatures == << [name |-> "price", ragged |-> FALSE, weighted |-> FALSE],
                 [name |-> "cat", ragged |-> TRUE, weighted |-> TRUE],
                 [name |-> "tags", ragged |-> TRUE, weighted |-> FALSE],
                 [name |-> "words", ragged |-> TRUE, weighted |-> TRUE] >>
MCWidth == [id \in {0, 3, 5, 8} |-> CASE id = 0 -> 1 [] id = 3 -> 0 [] id = 5 -> 2 [] OTHER -> 3]
MCQueries == { [r \in 0..1 |-> IF r = 0 THEN <<8, 3, 9, 5>> ELSE <<3, 8, 3>>],
               [r \in 0..1 |-> IF r = 0 THEN <<>> ELSE <<5, 8>>] }

Init == kind \in {"service", "shard"} /\ ServiceInit /\ ShardInit
Next ==
  /\ \/ kind = "service" /\ ServiceNext /\ UNCHANGED shardVars
     \/ kind = "shard" /\ ShardNext /\ UNCHANGED serviceVars
  /\ UNCHANGED kind
Spec ==
  /\ Init /\ [][Next]_vars
  /\ \A t \in Threads : WF_vars(kind = "service" /\ ThreadStep(t) /\ UNCHANGED <<kind, shardVars>>)
  /\ \A c \in Clients : WF_vars(kind = "service" /\ (\E t \in Threads : RpcSync(c, t)) /\ UNCHANGED <<kind, shardVars>>)
=============================================================================
