---------------------------- MODULE FeatureEngine ----------------------------
(***************************************************************************)
(* Features and the engine that runs them (recis/features/feature.py,      *)
(* feature_engine.py).  The program defines features operation by          *)
(* operation, builds an engine from them, which drops features of equal    *)
(* hash and compiles the rest into steps of fused and unfused groups, and  *)
(* calls the engine batch after batch.  The training code then indexes the *)
(* ragged tensors it gets (recis/ragged/tensor.py).                        *)
(***************************************************************************)
EXTENDS FeatureOps

CONSTANTS
    Plans,          \* what a program may define: sequences of [name, ops]
    Batches,        \* the input dictionaries: field name -> tensor
    MaxForwards,    \* calls of the engine
    IndexKeys,      \* keys the training code may index a result with
    MaxIndexings    \* how many times in a row

ASSUME FeatureEngineAssumption ==
    MaxForwards \in Nat /\ MaxIndexings \in Nat

VARIABLES
    plan,       \* the features this program defines
    features,   \* the Feature objects: [name, ops, compiled]
    engine,     \* the compiled engine: features, aliases, steps
    cache,      \* per step, the tensors FusedCutoffOP keeps between calls
    phase,      \* "define", "ready", "running", "done", "raised"
    batch,      \* the input of the call under way
    at,         \* position of the next group: <<step, group>>
    buffer,     \* RunContext._data_buffer
    results,    \* what the last call returned
    forwards,   \* calls made
    held,       \* the tensor the training code holds: none or one
    list,       \* the nested list it should read as
    weights,    \* and that of its weights, where they belong to its elements
    indexings   \* indexings made of it

callVars == <<plan, features, engine, cache, phase, batch, at, buffer, results, forwards>>
heldVars == <<held, list, weights, indexings>>
featureVars == <<callVars, heldVars>>

NoEngine == [features |-> <<>>, aliases |-> {}, steps |-> <<>>]

FeatureInit ==
    /\ plan \in Plans
    /\ features = <<>>
    /\ engine = NoEngine
    /\ cache = <<>>
    /\ phase = "define"
    /\ batch = <<>>
    /\ at = <<1, 1>>
    /\ buffer = <<>>
    /\ results = <<>>
    /\ forwards = 0
    /\ held = <<>>
    /\ list = <<>>
    /\ weights = <<>>
    /\ indexings = 0

(***************************************************************************)
(* Defining features.                                                      *)
(***************************************************************************)
Current == features[Len(features)]

Defined == features # <<>> /\ Len(Current.ops) = Len(plan[Len(features)].ops)

NewFeature ==
    /\ phase = "define"
    /\ features = <<>> \/ Defined
    /\ Len(features) < Len(plan)
    /\ features' = Append(features, [name |-> plan[Len(features) + 1].name,
                                     ops |-> <<>>, compiled |-> FALSE])
    /\ UNCHANGED <<plan, engine, cache, phase, batch, at, buffer, results, forwards, heldVars>>

AddOp ==
    /\ phase = "define"
    /\ features # <<>> /\ ~Defined
    /\ LET op == plan[Len(features)].ops[Len(Current.ops) + 1] IN
       IF Current.compiled \/ (Current.ops = <<>> /\ op.class \notin {"SelectField", "SelectFields"})
       THEN phase' = "raised" /\ UNCHANGED features
       ELSE /\ features' = [features EXCEPT ![Len(features)].ops = Append(@, op)]
            /\ UNCHANGED phase
    /\ UNCHANGED <<plan, engine, cache, batch, at, buffer, results, forwards, heldVars>>

(* A feature is identified by its name and by its operations in any order.  *)
get_hash(f) ==
    IF f.ops = <<>> THEN <<>>
    ELSE <<f.name, [h \in {op_hash(f.ops[i]) : i \in DOMAIN f.ops} |->
                       Cardinality({i \in DOMAIN f.ops : op_hash(f.ops[i]) = h})]>>

(***************************************************************************)
(* Building the engine.                                                    *)
(***************************************************************************)
(* The first feature of every hash, a later one of the same name taking the *)
(* place of an earlier one.                                                 *)
Primaries(fs) ==
    SelectSeq([i \in DOMAIN fs |-> i],
              LAMBDA i : \A j \in 1..(i - 1) : get_hash(fs[j]) # get_hash(fs[i]))

Registered(fs) ==
    LET prim  == Primaries(fs)
        first == SelectSeq([i \in DOMAIN prim |-> i],
                     LAMBDA i : \A j \in 1..(i - 1) : fs[prim[j]].name # fs[prim[i]].name)
    IN  [i \in DOMAIN first |->
            LET same == {j \in DOMAIN prim : fs[prim[j]].name = fs[prim[first[i]]].name}
            IN  prim[CHOOSE j \in same : \A k \in same : k <= j]]

Aliases(fs) ==
    LET prim == Primaries(fs)
    IN  {<<fs[i].name, fs[CHOOSE j \in {prim[k] : k \in DOMAIN prim} :
                              get_hash(fs[j]) = get_hash(fs[i])].name>> :
            i \in DOMAIN fs \ {prim[k] : k \in DOMAIN prim}}

(* The groups of one step: the operations of every class that has a fused   *)
(* form, and one group of all others, in order of first appearance.         *)
Signature(op) == IF op.class \in FusedClasses THEN op.class ELSE "_non_fuseable_tag"

ExecutionStep(fs, k) ==
    LET live   == SelectSeq(fs, LAMBDA f : Len(f.ops) >= k)
        first  == SelectSeq([i \in DOMAIN live |-> i],
                      LAMBDA i : \A j \in 1..(i - 1) :
                          Signature(live[j].ops[k]) # Signature(live[i].ops[k]))
    IN  [g \in DOMAIN first |->
            LET sig  == Signature(live[first[g]].ops[k])
                mine == SelectSeq(live, LAMBDA f : Signature(f.ops[k]) = sig)
            IN  [sig   |-> sig,
                 names |-> [i \in DOMAIN mine |-> mine[i].name],
                 ops   |-> [i \in DOMAIN mine |-> mine[i].ops[k]]]]

_compile(fs) ==
    LET longest == CHOOSE n \in {Len(fs[i].ops) : i \in DOMAIN fs} \cup {0} :
                       \A i \in DOMAIN fs : Len(fs[i].ops) <= n
    IN  [k \in 1..longest |-> ExecutionStep(fs, k)]

(* Features are marked one after the other; the first that already belongs  *)
(* to an engine ends the construction with those before it marked.          *)
_check_compiled(reg) ==
    LET bad == {i \in DOMAIN reg : features[reg[i]].compiled}
    IN  IF bad = {} THEN Len(reg) ELSE (CHOOSE i \in bad : \A j \in bad : i <= j) - 1

Construct ==
    /\ \/ phase = "define" /\ Defined /\ Len(features) = Len(plan)
       \/ phase = "done" /\ forwards = MaxForwards /\ held = <<>>
    /\ LET reg    == Registered(features)
           marked == _check_compiled(reg)
       IN  /\ features' = [i \in DOMAIN features |->
                  [features[i] EXCEPT !.compiled = @ \/ \E j \in 1..marked : reg[j] = i]]
           /\ IF marked < Len(reg)
              THEN phase' = "raised" /\ UNCHANGED <<engine, cache>>
              ELSE /\ phase' = "ready"
                   /\ engine' = [features |-> [i \in DOMAIN reg |-> features[reg[i]]],
                                 aliases  |-> Aliases(features),
                                 steps    |-> _compile([i \in DOMAIN reg |-> features[reg[i]]])]
                   /\ cache' = [k \in DOMAIN engine'.steps |-> <<>>]
    /\ UNCHANGED <<plan, batch, at, buffer, results, forwards, heldVars>>

(***************************************************************************)
(* Running it.                                                             *)
(***************************************************************************)
Forward(b) ==
    /\ phase \in {"ready", "done"}
    /\ forwards < MaxForwards /\ held = <<>>
    /\ batch' = b
    /\ at' = <<1, 1>>
    /\ buffer' = <<>>
    /\ phase' = "running"
    /\ forwards' = forwards + 1
    /\ UNCHANGED <<plan, features, engine, cache, results, heldVars>>

(* RunContext.get: what the feature's last step left, or else the input.    *)
Get(name) == IF name \in DOMAIN buffer THEN buffer[name] ELSE batch

SetAll(names, outs) ==
    [n \in DOMAIN buffer \cup {names[i] : i \in DOMAIN names} |->
        IF \E i \in DOMAIN names : names[i] = n
        THEN outs[CHOOSE i \in DOMAIN names : names[i] = n] ELSE buffer[n]]

GroupRun(step, names, kept, outs) ==
    IF \E i \in DOMAIN outs : outs[i].kind = "raised"
    THEN phase' = "raised" /\ UNCHANGED <<buffer, cache, at>>
    ELSE /\ buffer' = SetAll(names, outs)
         /\ cache' = [cache EXCEPT ![at[1]] = kept]
         /\ at' = IF at[2] < Len(step) THEN <<at[1], at[2] + 1>> ELSE <<at[1] + 1, 1>>
         /\ UNCHANGED phase

RunGroup ==
    /\ phase = "running"
    /\ at[1] <= Len(engine.steps)
    /\ LET step  == engine.steps[at[1]]
           group == step[at[2]]
           ins   == [i \in DOMAIN group.names |-> Get(group.names[i])]
           kept  == IF group.sig = "SequenceTruncate" /\ cache[at[1]] = <<>>
                    THEN CutoffParams(group.ops) ELSE cache[at[1]]
       IN  GroupRun(step, group.names, kept,
                    IF group.sig = "_non_fuseable_tag"
                    THEN [i \in DOMAIN ins |-> forward(group.ops[i], ins[i])]
                    ELSE process(group.sig, group.ops, ins, kept))
    /\ UNCHANGED <<plan, features, engine, batch, results, forwards, heldVars>>

(* A result is found under <<name>>, an entry of a dictionary of results    *)
(* under <<name, prefix, position>>.  An alias of a feature whose result    *)
(* was a dictionary is looked up after the dictionary was taken out.        *)
Flattened(remain) ==
    LET all   == [n \in DOMAIN buffer \cup (IF remain THEN DOMAIN batch ELSE {}) |->
                     IF n \in DOMAIN buffer THEN buffer[n] ELSE batch[n]]
        plain == {<<n>> : n \in {m \in DOMAIN all : all[m].kind # "dict"}}
        subs  == UNION {{<<n, key[1], key[2]>> : key \in DOMAIN all[n].items} :
                           n \in {m \in DOMAIN all : all[m].kind = "dict"}}
    IN  [k \in plain \cup subs |->
            IF Len(k) = 1 THEN all[k[1]] ELSE all[k[1]].items[<<k[2], k[3]>>]]

Collect(remain) ==
    /\ phase = "running"
    /\ at[1] > Len(engine.steps)
    /\ LET flat == Flattened(remain)
           gone == \E a \in engine.aliases : <<a[2]>> \notin DOMAIN flat
       IN  IF gone THEN phase' = "raised" /\ UNCHANGED results
           ELSE /\ phase' = "done"
                /\ results' = [k \in DOMAIN flat \cup {<<a[1]>> : a \in engine.aliases} |->
                       LET to == {a \in engine.aliases : k = <<a[1]>>}
                       IN  IF to = {} THEN flat[k] ELSE flat[<<(CHOOSE a \in to : TRUE)[2]>>]]
    /\ UNCHANGED <<plan, features, engine, cache, batch, at, buffer, forwards, heldVars>>

(***************************************************************************)
(* Indexing what came out.                                                 *)
(***************************************************************************)
Take(k) ==
    /\ phase = "done" /\ held = <<>>
    /\ k \in DOMAIN results /\ IsRagged(results[k])
    /\ held' = <<results[k]>>
    /\ list' = AsList(results[k])
    /\ weights' = IF results[k].weight # <<>> /\ Len(results[k].weight[1]) = Len(results[k].values)
                  THEN <<RowsOf(results[k].weight[1], results[k].offsets)>> ELSE <<>>
    /\ indexings' = 0
    /\ UNCHANGED callVars

(* The reference: a nested list indexed key by key. *)
ListKeys(keys, depth) ==
    LET used == Cardinality({i \in DOMAIN keys : keys[i].k \in {"int", "slice"}})
    IN  FlattenSeq([i \in DOMAIN keys |->
            IF keys[i].k = "ellipsis" THEN [j \in 1..(depth - used) |-> Full] ELSE <<keys[i]>>])

Index(keys) ==
    /\ held # <<>> /\ IsRagged(held[1])
    /\ indexings < MaxIndexings
    /\ LET depth == Len(held[1].offsets) + 1
           item  == getitem(held[1], keys)
       IN  /\ item.kind # "error"
           /\ held' = <<item>>
           /\ list' = ListItem(list, ListKeys(keys, depth))
           /\ weights' = IF weights = <<>> THEN <<>>
                         ELSE <<ListItem(weights[1], ListKeys(keys, depth))>>
    /\ indexings' = indexings + 1
    /\ UNCHANGED callVars

(* The tensor moved to another device, or cloned. *)
Move ==
    /\ held # <<>> /\ IsRagged(held[1])
    /\ held' = <<clone(held[1])>>
    /\ UNCHANGED <<callVars, list, weights, indexings>>

FeatureNext ==
    \/ NewFeature
    \/ AddOp
    \/ Construct
    \/ \E b \in Batches : Forward(b)
    \/ RunGroup
    \/ \E remain \in BOOLEAN : Collect(remain)
    \/ \E k \in DOMAIN results : Take(k)
    \/ \E keys \in IndexKeys : Index(keys)
    \/ Move

(***************************************************************************)
(* Properties.                                                             *)
(***************************************************************************)
(* Feature.forward: what the operations return one after the other; none     *)
(* takes what the one before did not return.                                *)
Stages(ops, data) ==
    LET x[i \in 0..Len(ops)] ==
            IF i = 0 THEN data
            ELSE IF i > 1 /\ x[i - 1].kind \in {"raised", "none"} THEN Raised
            ELSE forward(ops[i], x[i - 1])
    IN  x

RunAlone(ops, data) == Stages(ops, data)[Len(ops)]

SameData(fused, single) ==
    /\ get_input_value(fused) = get_input_value(single)
    /\ IsRagged(single) => fused.offsets = single.offsets /\ fused.weight = single.weight

ReturnsAlone(f, alone) ==
    IF alone.kind = "dict"
    THEN \A key \in DOMAIN alone.items :
             /\ <<f.name, key[1], key[2]>> \in DOMAIN results
             /\ SameData(results[<<f.name, key[1], key[2]>>], alone.items[key])
    ELSE <<f.name>> \in DOMAIN results /\ SameData(results[<<f.name>>], alone)

RoundsDoubles(f, stages) ==
    \E k \in 2..Len(f.ops) : f.ops[k].class = "Bucketize" /\ stages[k - 1].type = "double"

HashesDense(f, stages) ==
    \E k \in 2..Len(f.ops) : f.ops[k].class = "IDMultiHash" /\ stages[k - 1].kind = "dense"

(* stages: of each feature, run alone. *)
AsRunAlone(stages) ==
    /\ phase = "done" => \A i \in DOMAIN engine.features :
           LET f     == engine.features[i]
               alone == stages[i][Len(f.ops)]
           IN  alone.kind \in {"raised", "none"} \/ RoundsDoubles(f, stages[i]) \/ ReturnsAlone(f, alone)
    /\ (phase = "raised" /\ engine # NoEngine /\ at[1] <= Len(engine.steps)) =>
           \E i \in DOMAIN engine.features : HashesDense(engine.features[i], stages[i])


(* A ragged tensor indexed any number of times (RaggedTensor.__getitem__)   *)
(* reads as the nested list of its rows indexed the same way, and weights   *)
(* that survive are those of the same elements.                             *)
IndexedAsNestedList ==
    held # <<>> =>
        /\ AsList(held[1]) = list
        /\ (IsRagged(held[1]) /\ weights # <<>> /\ held[1].weight # <<>>) =>
               RowsOf(held[1].weight[1], held[1].offsets) = weights[1]

(* The cut and padded row that a column index of the model refers to. *)
PaddedRow(row, pad, r) ==
    LET none == [i \in 1..pad.pad[r] |-> <<>>]
        some == [i \in DOMAIN row |-> <<row[i]>>]
    IN  IF pad.padLeft THEN none \o some ELSE some \o none

(* The pad info a truncation leaves (FusedCutoffOP) takes every column of   *)
(* the cut and padded row back to the element of the untruncated feature    *)
(* it came from, and padding to nothing                                     *)
(* (index_select_ragged_by_padded_index).                                   *)
PaddedIndexFindsSource ==
    phase = "done" => \A i \in DOMAIN engine.features :
        LET f == engine.features[i]
        IN  (f.ops[Len(f.ops)].class = "SequenceTruncate" /\ f.ops[Len(f.ops)].n_dims = 2) =>
            LET source == RunAlone(Front(f.ops), batch)
                cut    == results[<<f.name>>]
                rows   == AsList(cut)
            IN  \A r \in DOMAIN rows :
                    LET view == PaddedRow(rows[r], cut.pad[1], r)
                    IN  index_select_ragged_by_padded_index(cut.pad[1],
                            << [c \in DOMAIN view |-> c - 1] >>, <<r - 1>>, source)[1] = view
=============================================================================
