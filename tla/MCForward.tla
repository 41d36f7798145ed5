------------------------------ MODULE MCForward ------------------------------
(***************************************************************************)
(* The forward pass of a model: the feature engine turns the fields of a   *)
(* batch into ids, the embedding engine ids into rows (and gradients back  *)
(* into rows).  The two share no state, so a behaviour is one of them and  *)
(* the other stays as it starts.                                           *)
(*                                                                         *)
(* Features: programs that exercise every operation class, on its own and  *)
(* beside others of its class with other parameters; batches with empty    *)
(* rows, repeated and negative ids, weights, strings, floats, doubles, a   *)
(* dense and a three-dimensional field; the index expressions the tensor's *)
(* documentation lists.  Embeddings: options that merge, freeze, protect,  *)
(* regroup and do not reduce features.                                     *)
(***************************************************************************)
EXTENDS FeatureEngine, EmbeddingEngine

VARIABLE part
vars == <<part, featureVars, engineVars>>

Sel(f) == [class |-> "SelectField", field |-> f]
ModOp(m) == [class |-> "Mod", mod |-> m]
Buckets(b) == [class |-> "Bucketize", boundary |-> b]
Hashed(t) == [class |-> "Hash", hash_type |-> t]
Cut(n, left, padLeft, dims, type) ==
    [class |-> "SequenceTruncate", seq_len |-> n, check_length |-> FALSE, truncate |-> TRUE,
     dropLeft |-> left, padLeft |-> padLeft, n_dims |-> dims, dtype |-> type]
Checked(cut) == [cut EXCEPT !.check_length = TRUE]
Uncut(cut) == [cut EXCEPT !.truncate = FALSE]
Strings(buckets) == [class |-> "StringMultiHash", num_buckets |-> buckets, prefix |-> "str"]
Masked(type, masks) == [class |-> "Mask", dtype |-> type, masks |-> masks]
Cross == [class |-> "FeatureCross"]
Feat(name, ops) == [name |-> name, ops |-> ops]

ThePlans == {
    <<Feat("a", <<Sel("x"), ModOp(5)>>), Feat("b", <<Sel("y"), ModOp(3), Buckets(<<1, 2>>)>>),
      Feat("c", <<Sel("x"), Cut(2, TRUE, FALSE, 2, "long"), ModOp(4)>>)>>,
    <<Feat("a", <<Sel("s"), Hashed("farm"), ModOp(7)>>), Feat("b", <<Sel("s"), Hashed("murmur")>>),
      Feat("c", <<Sel("s"), Hashed("farm"), ModOp(9)>>)>>,
    <<Feat("a", <<Sel("q"), Buckets(<<1, 3>>)>>), Feat("b", <<Sel("q"), Cut(1, TRUE, FALSE, 2, "float"), Buckets(<<2>>)>>),
      Feat("c", <<Sel("g"), Buckets(<<1, 2>>)>>), Feat("d", <<Sel("y"), Buckets(<<0, 2>>)>>)>>,
    <<Feat("a", <<Sel("x"), Checked(Cut(2, TRUE, FALSE, 2, "long"))>>), Feat("b", <<Sel("x"), Checked(Cut(3, TRUE, FALSE, 2, "long"))>>),
      Feat("c", <<Sel("x"), Uncut(Cut(1, TRUE, TRUE, 2, "long")), ModOp(5)>>), Feat("d", <<Sel("x"), Uncut(Checked(Cut(3, TRUE, TRUE, 2, "long")))>>)>>,
    <<Feat("a", <<Sel("d"), ModOp(4)>>), Feat("b", <<Sel("y"), ModOp(4)>>), Feat("c", <<Sel("d"), Masked("int64", <<7>>)>>)>>,
    <<Feat("a", <<Sel("d"), NewIDMultiHash(<<3>>, "id")>>), Feat("b", <<Sel("x"), ModOp(5)>>)>>,
    <<Feat("a", <<Sel("x"), NewIDMultiHash(<<3, 4>>, "id")>>),
      Feat("b", <<Sel("y"), NewIDMultiHash(<<5>>, "id")>>),
      Feat("c", <<Sel("x"), NewIDMultiHash(<<2, 2, 7>>, "id")>>)>>,
    <<Feat("a", <<Sel("x"), Strings(<<3, 50>>)>>), Feat("b", <<Sel("y"), Strings(<<7>>)>>)>>,
    <<Feat("a", <<Sel("x"), Masked("int64", <<1, -2>>)>>), Feat("b", <<Sel("s"), Masked("int8", << <<7>> >>)>>),
      Feat("c", <<Sel("y"), Masked("int64", <<4>>)>>)>>,
    <<Feat("a", <<Sel("x"), Cut(2, TRUE, TRUE, 2, "long")>>), Feat("b", <<Sel("z"), Cut(1, TRUE, FALSE, 3, "long")>>),
      Feat("c", <<Sel("y"), Cut(1, FALSE, TRUE, 2, "long")>>), Feat("d", <<Sel("q"), Cut(3, FALSE, FALSE, 2, "float")>>),
      Feat("e", <<Sel("z"), Cut(3, FALSE, TRUE, 3, "long")>>)>>,
    <<Feat("a", <<[class |-> "SelectFields", inputs |-> <<Sel("x"), Sel("y")>>], Cross, ModOp(11)>>),
      Feat("b", <<Sel("z"), ModOp(2)>>)>>,
    <<Feat("a", <<Sel("x"), ModOp(5)>>), Feat("a", <<Sel("x"), ModOp(5)>>), Feat("a", <<Sel("y"), ModOp(3)>>)>>,
    <<Feat("a", <<Sel("x"), NewIDMultiHash(<<3>>, "id")>>), Feat("a", <<Sel("x"), NewIDMultiHash(<<3>>, "id")>>)>>,
    <<Feat("a", <<ModOp(3)>>)>> }

TheBatches == {
    [x |-> RaggedTensor(<<1, -2, 1, 5, 9>>, << <<0, 3, 3, 5>> >>, << <<1, 2, 3, 4, 5>> >>, <<>>),
     y |-> RaggedTensor(<<4, 6, 4>>, << <<0, 1, 3, 3>> >>, <<>>, <<>>),
     s |-> RaggedTensor(<<7, 8, 9, 7>>, << <<0, 2, 2, 3>>, <<0, 1, 3, 4>> >>, <<>>, <<>>),
     z |-> RaggedTensor(<<1, 2, 3, 4, 5>>, << <<0, 2, 2, 4>>, <<0, 2, 2, 3, 5>> >>,
                        << <<5, 4, 3, 2, 1>> >>, <<>>),
     q |-> OfType(RaggedTensor(<<4, 8, 12, -4>>, << <<0, 1, 4>> >>, <<>>, <<>>), "float"),
     g |-> OfType(DenseOf(<<3, 4, 7, 10>>), "double"),
     d |-> DenseOf(<<-1, 7, 12>>)],
    [x |-> RaggedTensor(<<3>>, << <<0, 0, 1>> >>, << <<2>> >>, <<>>),
     y |-> RaggedTensor(<<2, 1, 0, -1>>, << <<0, 3, 4>> >>, <<>>, <<>>),
     s |-> RaggedTensor(<<7, 7>>, << <<0, 0, 2>>, <<0, 1, 2>> >>, <<>>, <<>>),
     z |-> RaggedTensor(<<8, 6, 7>>, << <<0, 3, 3>>, <<0, 1, 1, 3>> >>, <<>>, <<>>),
     q |-> OfType(RaggedTensor(<<12>>, << <<0, 0, 1>> >>, <<>>, <<>>), "float"),
     g |-> OfType(DenseOf(<<8>>), "double"),
     d |-> DenseOf(<<7>>)] }

TheKeys == {
    <<At(0)>>, <<At(-1)>>, <<At(1), Slice(<<1>>, <<>>, <<>>)>>, <<At(0), NewAxis>>,
    <<Slice(<<1>>, <<>>, <<>>)>>, <<Slice(<<>>, <<-1>>, <<>>)>>, <<Slice(<<1>>, <<3>>, <<>>)>>,
    <<Slice(<<>>, <<>>, <<2>>)>>, <<Slice(<<2>>, <<1>>, <<>>)>>,
    <<Full, Slice(<<1>>, <<>>, <<>>)>>, <<Full, Slice(<<-2>>, <<>>, <<>>)>>,
    <<Full, Slice(<<>>, <<-1>>, <<2>>)>>, <<Slice(<<1>>, <<>>, <<>>), Slice(<<>>, <<1>>, <<>>)>>,
    <<NewAxis, Full>>, <<Full, NewAxis, Slice(<<>>, <<2>>, <<>>)>>,
    <<Dots, Slice(<<>>, <<1>>, <<>>)>>, <<Full, At(0)>>, <<Slice(<<>>, <<>>, <<-1>>)>> }

-----------------------------------------------------------------------------

\* Options of a feature: the defaults, and what a feature changes.
Default == [shared |-> "u", info |-> "a", combiner |-> "sum", trainable |-> TRUE, readonly |-> FALSE,
            noReduce |-> FALSE, by |-> "worker", groupBy |-> "", size |-> 2, impl |-> "compact", chunk |-> 1]

GroupSum(shared, groupBy, impl) ==
  [Default EXCEPT !.shared = shared, !.by = "group_sum", !.groupBy = groupBy, !.impl = impl]

MCConfigs == {
  \* two tables in one coalesced one, different combiners
  <<Default, [Default EXCEPT !.shared = "v", !.combiner = "mean"], Default>>,
  \* a frozen and a read-only feature next to a trained one of the same table
  <<[Default EXCEPT !.by = "id"], [Default EXCEPT !.shared = "v", !.by = "id", !.trainable = FALSE],
    [Default EXCEPT !.by = "id", !.trainable = FALSE, !.readonly = TRUE]>>,
  \* groups of two coalesced tables that interleave, two not reduced
  <<[Default EXCEPT !.by = "worker_sum"], [GroupSum("w", "id", "compact") EXCEPT !.noReduce = TRUE],
    [Default EXCEPT !.shared = "v", !.by = "worker_sum", !.noReduce = TRUE]>>,
  \* gradients by groups of ranks
  <<GroupSum("u", "worker", "dense"), GroupSum("v", "worker", "dense"), GroupSum("w", "id", "dense")>>,
  <<GroupSum("u", "worker_sum", "chunk_compact"), [GroupSum("v", "id", "chunk_compact") EXCEPT !.combiner = "mean"],
    GroupSum("v", "id", "chunk_compact")>>,
  \* refused: one shared name with two kinds of tables
  <<Default, [Default EXCEPT !.info = "b"], [Default EXCEPT !.shared = "v"]>> }

\* All features as the options list them, backwards, and without the first.
MCInputs(c) == {[i \in DOMAIN c |-> i], [i \in DOMAIN c |-> Len(c) + 1 - i], Tail([i \in DOMAIN c |-> i])}

\* Repeated ids, ids of every rank, an empty sample and an empty feature.
BatchA == << << <<1, 3>>, <<1>> >>, << <<3>>, <<2, 7>> >>, << <<7>>, <<>> >> >>
BatchB == << << <<6>>, <<2, 2>> >>, << <<1, 3>>, <<3>> >>, << <<1>>, <<6>> >> >>
BatchC == << << <<5>> >>, << <<0, 5>> >>, << <<>> >> >>

Load(s) == [r \in 0..(Len(s) - 1) |-> s[r + 1]]
MCLoads(w) == IF w = 2 THEN {Load(<<BatchA, BatchB>>), Load(<<BatchC, BatchA>>)}
                       ELSE {Load(<<BatchB, BatchC, BatchA>>), Load(<<BatchA, BatchB, BatchB>>)}

-----------------------------------------------------------------------------
Init ==
  /\ part \in {"features", "embeddings"}
  /\ FeatureInit /\ EngineInit
  /\ part # "features" => plan = CHOOSE p \in Plans : TRUE
  /\ part # "embeddings" =>
       /\ conf = CHOOSE c \in Configs : \A f \in DOMAIN c : c[f].info = "a"
       /\ groups = Groups([f \in DOMAIN conf |-> f])
       /\ world = CHOOSE w \in Worlds : TRUE
       /\ load = CHOOSE l \in Loads(world) : TRUE
Next ==
  /\ \/ part = "features" /\ FeatureNext /\ UNCHANGED engineVars
     \/ part = "embeddings" /\ EngineNext /\ UNCHANGED featureVars
  /\ UNCHANGED part
Spec == Init /\ [][Next]_vars
=============================================================================
