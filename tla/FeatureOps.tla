----------------------------- MODULE FeatureOps -----------------------------
(***************************************************************************)
(* The operations of a feature pipeline: each one on its own               *)
(* (recis/features/op.py) and fused with the other operations of its class *)
(* in one step (recis/features/fused_op_impl.py).  An operation is a       *)
(* record with the name of its class and its parameters; a fused operation *)
(* takes the sequence of operations and the sequence of their inputs.      *)
(*                                                                         *)
(* Ids have Width bits.  The string hashes and the cross hash are stand-   *)
(* ins: small functions that differ by type.  A number of type "double" is *)
(* counted in steps between doubles, and Steps of them make the step from  *)
(* one "float" to the next, which is also that from one "long" to the next.*)
(***************************************************************************)
EXTENDS Ragged

Width == 8
Steps == 4

(* A number of any type in steps, and what float() makes of it. *)
InSteps(v, type) == IF type = "long" THEN v * Steps ELSE v

ToFloat(v, type) ==
    IF type = "double" THEN ((v + Steps \div 2) \div Steps) * Steps ELSE InSteps(v, type)

(* What a call returns that raised, or that had no return statement. *)
Raised == [kind |-> "raised"]
Nothing == [kind |-> "none"]

Hasher(type) == CASE type = "farm" -> 3 [] type = "ev_farm" -> 5 [] type = "murmur" -> 7
                  [] type = "mur" -> 7 [] type = "sdbm" -> 11 [] type = "djb2" -> 13

fused_hash(inputs, splits, type) ==
    LET Hash1(s) == LET h[i \in 0..Len(s)] ==
                            IF i = 0 THEN 17 ELSE (h[i - 1] * Hasher(type) + s[i]) % 251
                    IN  h[Len(s)]
    IN  [i \in DOMAIN inputs |-> [r \in 1..(Len(splits[i]) - 1) |->
            Hash1(Segment(inputs[i], splits[i][r], splits[i][r + 1]))]]

fused_uint64_mod(inputs, mods) ==
    [i \in DOMAIN inputs |-> [k \in DOMAIN inputs[i] |->
        (inputs[i][k] % 2 ^ Width) % mods[i]]]

bucketize_mod(input, mod) == fused_uint64_mod(<<input>>, <<mod>>)[1]

(* Inputs in steps; boundaries are lists of floats. *)
fused_bucketize(inputs, boundaries) ==
    [i \in DOMAIN inputs |-> [k \in DOMAIN inputs[i] |->
        Cardinality({b \in DOMAIN boundaries[i] : boundaries[i][b] * Steps <= inputs[i][k]})]]

(* The boundaries take the type of the input; only floating types have a    *)
(* kernel.                                                                  *)
bucketize(input, type, boundary) ==
    IF input # <<>> /\ type \notin {"float", "double"} THEN <<>>
    ELSE << fused_bucketize(<<[k \in DOMAIN input |-> InSteps(input[k], type)]>>, <<boundary>>)[1] >>

(* One output for each multiplier of each input, in one flat list. *)
fused_multi_hash(inputs, muls, primes, buckets) ==
    FlattenSeq([i \in DOMAIN inputs |-> [j \in DOMAIN muls[i] |->
        [k \in DOMAIN inputs[i] |-> ((inputs[i][k] * muls[i][j]) % primes[i][j])
                                       % buckets[i][j]]]])

Minus == 45

Decimal(v) ==
    LET digits[n \in Nat] == IF n < 10 THEN <<48 + n>> ELSE digits[n \div 10] \o <<48 + (n % 10)>>
    IN  IF v < 0 THEN <<Minus>> \o digits[0 - v] ELSE digits[v]

fused_int64_to_string_int8(inputs) ==
    [i \in DOMAIN inputs |->
        LET strs == [k \in DOMAIN inputs[i] |-> Decimal(inputs[i][k])]
        IN  [data   |-> FlattenSeq(strs),
             splits |-> OffsetsOf([k \in DOMAIN strs |-> Len(strs[k])])]]

fused_string_mask(inputs, splits, masks) ==
    [i \in DOMAIN inputs |-> [r \in 1..(Len(splits[i]) - 1) |->
        IF \E m \in DOMAIN masks[i] :
               masks[i][m] = Segment(inputs[i], splits[i][r], splits[i][r + 1])
        THEN 0 ELSE Steps]]

fused_number_mask(inputs, masks) ==
    [i \in DOMAIN inputs |-> [k \in DOMAIN inputs[i] |->
        IF \E m \in DOMAIN masks[i] : masks[i][m] = inputs[i][k] THEN 0 ELSE Steps]]

(***************************************************************************)
(* One operation on its own.                                               *)
(***************************************************************************)
get_input_value(data) == IF IsRagged(data) THEN data.values ELSE data.list

get_output_value(data, result) ==
    IF IsRagged(data) THEN RaggedTensor(result, data.offsets, data.weight, data.shape)
    ELSE DenseOf(result)

SelectField(op, data) == data[op.field]

SelectFields(op, data) ==
    [kind |-> "fields", items |-> [i \in DOMAIN op.inputs |-> SelectField(op.inputs[i], data)]]

Mod(op, x) == get_output_value(x, bucketize_mod(get_input_value(x), op.mod))

Bucketize(op, x) ==
    LET out == bucketize(get_input_value(x), x.type, op.boundary)
    IN  IF out = <<>> THEN Raised ELSE get_output_value(x, out[1])

FeatureCross(op, data) ==
    LET cross == feature_cross_ragged(data.items[1], data.items[2])
    IN  RaggedTensor(cross.values, cross.offsets, cross.weight, data.items[1].shape)

(* The longest row, or what the shape was set to. *)
TooLong(op, x) == get_shape(x.offsets, x.shape, 1) > op.seq_len

CutOff(op, x) ==
    LET out == IF op.n_dims = 2
               THEN fused_ragged_cutoff_2D(<<x.values>>, <<x.offsets[Len(x.offsets)]>>,
                        <<op.seq_len>>, <<op.dropLeft>>, <<op.padLeft>>)
               ELSE fused_ragged_cutoff_3D(<<x.values>>, <<x.offsets>>,
                        <<op.seq_len>>, <<op.dropLeft>>, <<op.padLeft>>)
    IN  OfType(RaggedTensor(out.values[1], out.offsets[1], x.weight,
                            [x.shape EXCEPT ![2] = op.seq_len]), x.type)

SequenceTruncate(op, x) ==
    IF op.check_length /\ TooLong(op, x) THEN Raised
    ELSE IF op.truncate THEN CutOff(op, x) ELSE Nothing

_is_prime(x) == \A n \in 2..(x - 1) : n * n > x \/ x % n # 0

_find_prime_lower_than(x) ==
    LET primes == {n \in 1..x : _is_prime(n)}
    IN  CHOOSE p \in primes : \A q \in primes : q <= p

multi_mods == <<29, 47, 67, 83>>

multi_muls(op) == SubSeq(<<1, 3, 5, 7>>, 1, Len(op.num_buckets))

NewIDMultiHash(num_buckets, prefix) ==
    [class |-> "IDMultiHash", num_buckets |-> num_buckets, prefix |-> prefix,
     primes |-> [i \in DOMAIN num_buckets |->
                    _find_prime_lower_than(multi_mods[i] * num_buckets[i])]]

(* A dictionary of outputs is a function from prefix and position. *)
DictOf(prefix, outs) ==
    [kind |-> "dict", items |-> [key \in {<<prefix, j - 1>> : j \in DOMAIN outs} |->
                                    outs[key[2] + 1]]]

IDMultiHash(op, x) ==
    LET outs == fused_multi_hash(<<get_input_value(x)>>, <<multi_muls(op)>>,
                                 <<op.primes>>, <<op.num_buckets>>)
    IN  DictOf(op.prefix, [j \in DOMAIN outs |->
            IF IsRagged(x) THEN RaggedTensor(outs[j], x.offsets, x.weight, <<>>)
            ELSE DenseOf(outs[j])])

Hash(op, x) ==
    RaggedTensor(fused_hash(<<x.values>>, <<x.offsets[Len(x.offsets)]>>, op.hash_type)[1],
                 Front(x.offsets), x.weight, Front(x.shape))

hash_types == <<"farm", "mur", "sdbm", "djb2">>

StringMultiHash(op, x) ==
    LET str == fused_int64_to_string_int8(<<x.values>>)[1]
    IN  DictOf(op.prefix, [j \in DOMAIN op.num_buckets |->
            RaggedTensor(bucketize_mod(fused_hash(<<str.data>>, <<str.splits>>,
                                                  hash_types[j])[1], op.num_buckets[j]),
                         x.offsets, x.weight, x.shape)])

_mask_string(op, x) ==
    fused_string_mask(<<x.values>>, <<x.offsets[Len(x.offsets)]>>, <<op.masks>>)[1]

_mask_number(op, x) == fused_number_mask(<<get_input_value(x)>>, <<op.masks>>)[1]

Mask(op, x) ==
    OfType(DenseOf(IF op.dtype = "int8" THEN _mask_string(op, x) ELSE _mask_number(op, x)), "float")

forward(op, x) ==
    CASE op.class = "SelectField"      -> SelectField(op, x)
      [] op.class = "SelectFields"     -> SelectFields(op, x)
      [] op.class = "Mod"              -> Mod(op, x)
      [] op.class = "Bucketize"        -> Bucketize(op, x)
      [] op.class = "FeatureCross"     -> FeatureCross(op, x)
      [] op.class = "SequenceTruncate" -> SequenceTruncate(op, x)
      [] op.class = "IDMultiHash"      -> IDMultiHash(op, x)
      [] op.class = "Hash"             -> Hash(op, x)
      [] op.class = "StringMultiHash"  -> StringMultiHash(op, x)
      [] op.class = "Mask"             -> Mask(op, x)

(***************************************************************************)
(* What identifies an operation: its class and the parameters its          *)
(* _get_config lists.  The prefix of the multi hashes and the padding side *)
(* of SequenceTruncate are not among them.                                 *)
(***************************************************************************)
_get_config(op) ==
    CASE op.class = "SelectField"      -> <<op.field>>
      [] op.class = "SelectFields"     -> [i \in DOMAIN op.inputs |-> op.inputs[i].field]
      [] op.class = "Mod"              -> <<op.mod>>
      [] op.class = "Bucketize"        -> op.boundary
      [] op.class = "FeatureCross"     -> <<>>
      [] op.class = "SequenceTruncate" -> <<op.seq_len, op.check_length, op.truncate, op.dropLeft,
                                              op.n_dims, op.dtype>>
      [] op.class = "IDMultiHash"      -> op.num_buckets
      [] op.class = "Hash"             -> <<op.hash_type>>
      [] op.class = "StringMultiHash"  -> op.num_buckets
      [] op.class = "Mask"             -> <<op.dtype, op.masks>>

op_hash(op) == <<op.class, _get_config(op)>>

(***************************************************************************)
(* The fused operations.                                                   *)
(***************************************************************************)
FusedBoundaryOP(ops, inputs) ==
    LET Floats(x) == [k \in DOMAIN get_input_value(x) |-> ToFloat(get_input_value(x)[k], x.type)]
        outs == fused_bucketize([i \in DOMAIN inputs |-> Floats(inputs[i])],
                                [i \in DOMAIN ops |-> ops[i].boundary])
    IN  [i \in DOMAIN inputs |-> get_output_value(inputs[i], outs[i])]

FusedModOP(ops, inputs) ==
    LET outs == fused_uint64_mod([i \in DOMAIN inputs |-> get_input_value(inputs[i])],
                                 [i \in DOMAIN ops |-> ops[i].mod])
    IN  [i \in DOMAIN inputs |-> get_output_value(inputs[i], outs[i])]

(* The positions of the operations that have key k, in order. *)
IndicesOf(keys, k) == SelectSeq([i \in DOMAIN keys |-> i], LAMBDA i : keys[i] = k)

(* Results computed group by group, put back at the operations' positions. *)
Scatter(keys, Results(_, _)) ==
    [i \in DOMAIN keys |->
        LET group == IndicesOf(keys, keys[i])
            j     == CHOOSE n \in DOMAIN group : group[n] = i
        IN  Results(keys[i], group)[j]]

FusedHashOP(ops, inputs) ==
    LET Grouped(type, group) ==
            LET outs == fused_hash([j \in DOMAIN group |-> inputs[group[j]].values],
                            [j \in DOMAIN group |-> Last(inputs[group[j]].offsets)], type)
            IN  [j \in DOMAIN group |->
                    RaggedTensor(outs[j], Front(inputs[group[j]].offsets),
                        inputs[group[j]].weight, Front(inputs[group[j]].shape))]
    IN  Scatter([i \in DOMAIN ops |-> ops[i].hash_type], Grouped)

(* Cutoff groups by element type and number of dimensions; the parameters   *)
(* of a group are put into tensors by the first run and kept.               *)
CutoffKey(op) == <<op.dtype, op.n_dims>>

CutoffParams(ops) ==
    [key \in {CutoffKey(ops[i]) : i \in DOMAIN ops} |->
        LET group == IndicesOf([i \in DOMAIN ops |-> CutoffKey(ops[i])], key)
        IN  [keep     |-> [j \in DOMAIN group |-> ops[group[j]].seq_len],
             dropLeft |-> [j \in DOMAIN group |-> ops[group[j]].dropLeft],
             padLeft  |-> [j \in DOMAIN group |-> ops[group[j]].padLeft]]]

FusedCutoffOP(ops, inputs, cache) ==
    LET Grouped(key, group) ==
            LET values == [j \in DOMAIN group |-> inputs[group[j]].values]
                p      == cache[key]
                out    == IF key[2] = 2
                          THEN fused_ragged_cutoff_2D(values,
                                   [j \in DOMAIN group |-> Last(inputs[group[j]].offsets)],
                                   p.keep, p.dropLeft, p.padLeft)
                          ELSE fused_ragged_cutoff_3D(values,
                                   [j \in DOMAIN group |-> inputs[group[j]].offsets],
                                   p.keep, p.dropLeft, p.padLeft)
            IN  [j \in DOMAIN group |->
                    [RaggedTensor(out.values[j], out.offsets[j], inputs[group[j]].weight,
                         [inputs[group[j]].shape EXCEPT ![2] = ops[group[j]].seq_len])
                     EXCEPT !.pad = out.pad[j], !.type = inputs[group[j]].type]]
    IN  Scatter([i \in DOMAIN ops |-> CutoffKey(ops[i])], Grouped)


StartOfOutputs(ops, i) == SumOf([k \in 1..(i - 1) |-> Len(ops[k].num_buckets)])

(* Its inputs must be ragged, although it looks again for the outputs.      *)
FusedMultiHashOP(ops, inputs) ==
    LET outs == fused_multi_hash([i \in DOMAIN inputs |-> inputs[i].values],
                    [i \in DOMAIN ops |-> multi_muls(ops[i])],
                    [i \in DOMAIN ops |-> ops[i].primes],
                    [i \in DOMAIN ops |-> ops[i].num_buckets])
    IN  IF \E i \in DOMAIN inputs : ~IsRagged(inputs[i]) THEN [i \in DOMAIN inputs |-> Raised]
        ELSE [i \in DOMAIN inputs |-> DictOf(ops[i].prefix,
                [j \in DOMAIN ops[i].num_buckets |->
                    RaggedTensor(outs[StartOfOutputs(ops, i) + j],
                                 inputs[i].offsets, inputs[i].weight, <<>>)])]

(* All strings of one hash type are hashed and reduced together; results    *)
(* are found again by operation, position and type.                         *)
HashItems(ops, type) ==
    FlattenSeq([i \in DOMAIN ops |->
        [n \in 1..Cardinality({j \in DOMAIN ops[i].num_buckets : hash_types[j] = type}) |->
            [op |-> i, at |-> CHOOSE j \in DOMAIN ops[i].num_buckets : hash_types[j] = type]]])

FusedStringMultiHashOP(ops, inputs) ==
    LET str == fused_int64_to_string_int8([i \in DOMAIN inputs |-> inputs[i].values])
        ResultsOf(type) ==
            LET items == HashItems(ops, type)
                outs  == fused_uint64_mod(
                             fused_hash([n \in DOMAIN items |-> str[items[n].op].data],
                                        [n \in DOMAIN items |-> str[items[n].op].splits], type),
                             [n \in DOMAIN items |-> ops[items[n].op].num_buckets[items[n].at]])
            IN  [key \in {<<items[n].op, items[n].at>> : n \in DOMAIN items} |->
                    outs[CHOOSE n \in DOMAIN items : key = <<items[n].op, items[n].at>>]]
        results == [type \in {hash_types[j] : j \in DOMAIN hash_types} |-> ResultsOf(type)]
    IN  [i \in DOMAIN inputs |-> DictOf(ops[i].prefix,
            [j \in DOMAIN ops[i].num_buckets |->
                RaggedTensor(results[hash_types[j]][<<i, j>>], inputs[i].offsets,
                             inputs[i].weight, inputs[i].shape)])]

FusedMaskOP(ops, inputs) ==
    LET Grouped(dtype, group) ==
            LET masks == [j \in DOMAIN group |-> ops[group[j]].masks]
                outs  == IF dtype = "int8"
                         THEN fused_string_mask([j \in DOMAIN group |-> inputs[group[j]].values],
                                  [j \in DOMAIN group |-> Last(inputs[group[j]].offsets)], masks)
                         ELSE fused_number_mask(
                                  [j \in DOMAIN group |-> get_input_value(inputs[group[j]])], masks)
            IN  [j \in DOMAIN group |->
                    OfType(IF dtype = "int8"
                           THEN RaggedTensor(outs[j], Front(inputs[group[j]].offsets),
                                    inputs[group[j]].weight, Front(inputs[group[j]].shape))
                           ELSE get_output_value(inputs[group[j]], outs[j]), "float")]
    IN  Scatter([i \in DOMAIN ops |-> ops[i].dtype], Grouped)

FusedClasses == {"Bucketize", "Mod", "Hash", "SequenceTruncate", "IDMultiHash",
                 "StringMultiHash", "Mask"}

process(class, ops, inputs, cache) ==
    CASE class = "Bucketize"        -> FusedBoundaryOP(ops, inputs)
      [] class = "Mod"              -> FusedModOP(ops, inputs)
      [] class = "Hash"             -> FusedHashOP(ops, inputs)
      [] class = "SequenceTruncate" -> FusedCutoffOP(ops, inputs, cache)
      [] class = "IDMultiHash"      -> FusedMultiHashOP(ops, inputs)
      [] class = "StringMultiHash"  -> FusedStringMultiHashOP(ops, inputs)
      [] class = "Mask"             -> FusedMaskOP(ops, inputs)
=============================================================================
