------------------------------- MODULE Ragged -------------------------------
(***************************************************************************)
(* Ragged tensors (recis/ragged/tensor.py) and the operators on them       *)
(* (recis/nn/functional/ragged_ops.py): the flat representation -- values, *)
(* one offset array per ragged dimension, optional weights -- its indexing *)
(* by slices, and the cutoff, cross and padded-index kernels.              *)
(*                                                                         *)
(* Optional data is a sequence of length 0 or 1.  Positions and offsets    *)
(* are the code's zero-based ones; sequences are TLA+'s.  Elements are     *)
(* "long" unless OfType() says otherwise.  Devices and strides are not     *)
(* represented.                                                            *)
(***************************************************************************)
EXTENDS Integers, Sequences, FiniteSets, SequencesExt

Unknown == -1

IsRagged(x) == x.kind = "ragged"

DenseOf(list) == [kind |-> "dense", list |-> list, type |-> "long"]

OfType(x, type) == [x EXCEPT !.type = type]

Error == [kind |-> "error"]

(* Differences of neighbouring offsets, and the offsets of a list of lengths. *)
Lengths(offset) == [i \in 1..(Len(offset) - 1) |-> offset[i + 1] - offset[i]]

OffsetsOf(lengths) ==
    LET sum[i \in 0..Len(lengths)] == IF i = 0 THEN 0 ELSE sum[i - 1] + lengths[i]
    IN  [i \in 1..(Len(lengths) + 1) |-> sum[i - 1]]

Smaller(a, b) == IF a < b THEN a ELSE b

Larger(a, b) == IF a < b THEN b ELSE a

Segment(s, from, to) == SubSeq(s, from + 1, to)

(***************************************************************************)
(* The tensor and its shape.                                               *)
(***************************************************************************)
get_shape(offsets, shape, dim) ==
    CASE shape[dim + 1] # Unknown -> shape[dim + 1]
      [] shape[dim + 1] = Unknown /\ dim = 0 -> Len(offsets[1]) - 1
      [] shape[dim + 1] = Unknown /\ dim > 0 /\ Len(offsets[dim]) < 2 -> 0
      [] OTHER -> LET l == Lengths(offsets[dim])
                  IN  CHOOSE m \in {l[i] : i \in DOMAIN l} :
                          \A i \in DOMAIN l : l[i] <= m

real_shape(offsets, shape) ==
    [d \in DOMAIN shape |-> get_shape(offsets, shape, d - 1)]

RaggedTensor(values, offsets, weight, dense_shape) ==
    [kind    |-> "ragged",
     values  |-> values,
     offsets |-> offsets,
     weight  |-> weight,
     shape   |-> IF dense_shape = <<>>
                 THEN real_shape(offsets, [d \in 1..(Len(offsets) + 1) |-> Unknown])
                 ELSE dense_shape,
     pad     |-> <<>>,
     type    |-> "long"]

(* clone, to, cuda and pin_memory rebuild the tensor and lose the pad info. *)
clone(rt) == OfType(RaggedTensor(rt.values, rt.offsets, rt.weight, rt.shape), rt.type)

Nested(rt) ==
    OfType(IF Len(rt.offsets) > 1
           THEN RaggedTensor(rt.values, Tail(rt.offsets), rt.weight, <<>>)
           ELSE DenseOf(rt.values), rt.type)

from_offsets(values, offset, weight) ==
    OfType(IF IsRagged(values)
           THEN RaggedTensor(values.values, <<offset>> \o values.offsets, values.weight, <<>>)
           ELSE RaggedTensor(values.list, <<offset>>, weight, <<>>), values.type)

(***************************************************************************)
(* Index keys: None, an integer, a slice (bounds and step optional) and    *)
(* Ellipsis.                                                               *)
(***************************************************************************)
NewAxis == [k |-> "none"]
At(i) == [k |-> "int", i |-> i]
Slice(start, stop, step) == [k |-> "slice", start |-> start, stop |-> stop, step |-> step]
Full == Slice(<<>>, <<>>, <<>>)
Dots == [k |-> "ellipsis"]

StepOf(s) == IF s.step = <<>> THEN 1 ELSE s.step[1]

(* slice.indices(n) for a positive step. *)
Bound(b, n, default) ==
    IF b = <<>> THEN default
    ELSE IF b[1] < 0 THEN Larger(b[1] + n, 0) ELSE Smaller(b[1], n)

SliceIndices(s, n) ==
    [start |-> Bound(s.start, n, 0), stop |-> Bound(s.stop, n, n), step |-> StepOf(s)]

Arange(start, stop, step) ==
    [i \in 1..((Larger(stop - start, 0) + step - 1) \div step) |-> start + (i - 1) * step]

_is_full_slice(s) == s.start = <<>> /\ s.stop = <<>> /\ StepOf(s) = 1

_expand_ellipsis(rt, keys) ==
    LET explicit == Cardinality({i \in DOMAIN keys : keys[i].k \in {"int", "slice"}})
        more     == [i \in 1..Larger(Len(rt.shape) - explicit, 0) |-> Full]
    IN  FlattenSeq([i \in DOMAIN keys |->
            IF keys[i].k = "ellipsis" THEN more ELSE <<keys[i]>>])

_resolve_ragged_slice(s, lengths) ==
    [start |-> [r \in DOMAIN lengths |-> Bound(s.start, lengths[r], 0)],
     stop  |-> [r \in DOMAIN lengths |-> Bound(s.stop, lengths[r], lengths[r])],
     step  |-> StepOf(s)]

_empty_like_same_ndim(rt) ==
    OfType(RaggedTensor(<<>>, << <<0>> >> \o Tail(rt.offsets), <<>>, <<>>), rt.type)

(* A plain tensor indexed by torch: the nested list indexed key by key.     *)
RECURSIVE ListItem(_, _)
ListItem(list, keys) ==
    IF keys = <<>> THEN list
    ELSE LET key == Head(keys) IN
         CASE key.k = "none"  -> <<ListItem(list, Tail(keys))>>
           [] key.k = "int"   -> ListItem(list[(IF key.i < 0 THEN key.i + Len(list)
                                               ELSE key.i) + 1], Tail(keys))
           [] key.k = "slice" ->
                LET i    == SliceIndices(key, Len(list))
                    rows == Arange(i.start, i.stop, i.step)
                IN  [r \in DOMAIN rows |-> ListItem(list[rows[r] + 1], Tail(keys))]

RECURSIVE _ragged_range_gather(_, _, _, _, _)
RECURSIVE _slice_inner_axis(_, _)

__gather_rows(rt, indices) ==
    LET offset == rt.offsets[1]
    IN  IF indices = <<>> THEN _empty_like_same_ndim(rt)
        ELSE _ragged_range_gather(rt, [i \in DOMAIN indices |-> offset[indices[i] + 1]],
                 [i \in DOMAIN indices |-> offset[indices[i] + 2]], 1, <<>>)

__internal_gather(target, indices) ==
    IF IsRagged(target) THEN __gather_rows(target, indices)
    ELSE [target EXCEPT !.list = [i \in DOMAIN indices |-> target.list[indices[i] + 1]]]

(* Slices of rows.  Rebasing the outer offsets goes with slicing what is   *)
(* below them to the same range.  The weights of a plain innermost         *)
(* dimension are not carried over a slice of step one.                     *)
RECURSIVE _slice_row_axis(_, _)

RowsFromTo(x, from, to) ==
    IF IsRagged(x) THEN _slice_row_axis(x, Slice(<<from>>, <<to>>, <<>>))
    ELSE [x EXCEPT !.list = Segment(x.list, from, to)]

SliceWithoutRebase(rt, s) ==
    LET offset == rt.offsets[1]
        i      == SliceIndices(s, Len(offset) - 1)
    IN  IF _is_full_slice(s) THEN rt
        ELSE IF i.stop <= i.start THEN _empty_like_same_ndim(rt)
        ELSE from_offsets(Nested(rt), SubSeq(offset, 1, i.stop - i.start + 1), <<>>)

_slice_row_axis(rt, s) ==
    LET offset == rt.offsets[1]
        i      == SliceIndices(s, Len(offset) - 1)
        sliced == SubSeq(offset, i.start + 1, i.stop + 1)
    IN  CASE _is_full_slice(s) -> rt
          [] ~_is_full_slice(s) /\ i.step # 1 ->
                __gather_rows(rt, Arange(i.start, i.stop, i.step))
          [] ~_is_full_slice(s) /\ i.step = 1 /\ i.stop <= i.start ->
                _empty_like_same_ndim(rt)
          [] OTHER ->
                from_offsets(RowsFromTo(Nested(rt), sliced[1], sliced[Len(sliced)]),
                             [r \in DOMAIN sliced |-> sliced[r] - sliced[1]], <<>>)

(* The elements starts[r], starts[r] + step, ... below stops[r] of every    *)
(* row, from the nested tensor or from the values; then the rest of the key.*)
_ragged_range_gather(rt, starts, stops, step, remaining) ==
    LET lengths == [r \in DOMAIN starts |->
                       (Larger(stops[r] - starts[r], 0) + step - 1) \div step]
        indices == FlattenSeq([r \in DOMAIN starts |->
                       [k \in 1..lengths[r] |-> starts[r] + (k - 1) * step]])
        nested  == Nested(rt)
        got     == __internal_gather(nested, indices)
        weight  == IF rt.weight # <<>> /\ ~IsRagged(nested)
                   THEN << [i \in DOMAIN indices |-> rt.weight[1][indices[i] + 1]] >>
                   ELSE <<>>
        offset  == OffsetsOf(lengths)
    IN  CASE indices = <<>> -> from_offsets(RowsFromTo(nested, 0, 0), offset, <<>>)
          [] indices # <<>> /\ remaining = <<>> -> from_offsets(got, offset, weight)
          [] indices # <<>> /\ remaining # <<>> /\ IsRagged(got) ->
                from_offsets(_slice_inner_axis(got, remaining), offset, weight)
          [] indices # <<>> /\ remaining = <<NewAxis>> /\ ~IsRagged(got) ->
                from_offsets(from_offsets(got, [i \in 1..(Len(got.list) + 1) |-> i - 1],
                                          weight), offset, weight)
          [] OTHER -> Error

_slice_inner_axis(rt, keys) ==
    IF keys = <<>> THEN rt
    ELSE IF Head(keys).k = "none"
    THEN LET inner == _slice_inner_axis(rt, Tail(keys))
         IN  from_offsets(inner, [i \in DOMAIN inner.offsets[1] |-> i - 1], <<>>)
    ELSE LET offset == rt.offsets[1]
             cut    == _resolve_ragged_slice(Head(keys), Lengths(offset))
         IN  _ragged_range_gather(rt,
                 [r \in DOMAIN cut.start |-> offset[r] + cut.start[r]],
                 [r \in DOMAIN cut.stop |-> offset[r] + cut.stop[r]], cut.step, Tail(keys))

RECURSIVE _getitem_impl(_, _)

_slice_row(rt, idx, remaining) ==
    LET offset == rt.offsets[1]
        n      == Len(offset) - 1
        i      == IF idx < 0 THEN idx + n ELSE idx
        row    == RowsFromTo(Nested(rt), offset[i + 1], offset[i + 2])
    IN  IF i < 0 \/ i >= n THEN Error
        ELSE IF IsRagged(row) THEN _getitem_impl(row, remaining)
        ELSE [row EXCEPT !.list = ListItem(row.list, remaining)]

_getitem_impl(rt, keys) ==
    CASE keys = <<>> -> rt
      [] keys # <<>> /\ (\/ \E i \in DOMAIN keys : keys[i].k = "slice" /\ StepOf(keys[i]) < 0
                         \/ \E i \in 2..Len(keys) : keys[i].k = "int") -> Error
      [] OTHER ->
           LET key == Head(keys) IN
           CASE key.k = "none" ->
                    from_offsets(_getitem_impl(rt, Tail(keys)),
                                 <<0, Len(rt.offsets[1]) - 1>>, <<>>)
             [] key.k = "int" -> _slice_row(rt, key.i, Tail(keys))
             [] key.k = "slice" ->
                    _slice_inner_axis(_slice_row_axis(rt, key), Tail(keys))

getitem(rt, keys) ==
    _getitem_impl(rt, IF \E i \in DOMAIN keys : keys[i].k = "ellipsis"
                      THEN _expand_ellipsis(rt, keys) ELSE keys)

(* What a ragged tensor, or a plain one, reads as: the nested list of its   *)
(* rows, of its values or of its weights.                                   *)
RECURSIVE RowsOf(_, _)
RowsOf(items, offsets) ==
    IF offsets = <<>> THEN items
    ELSE LET inner  == RowsOf(items, Tail(offsets))
             offset == Head(offsets)
         IN  [r \in 1..(Len(offset) - 1) |-> Segment(inner, offset[r], offset[r + 1])]

AsList(x) == IF IsRagged(x) THEN RowsOf(x.values, x.offsets) ELSE x.list

(***************************************************************************)
(* Cutoff.  All rows of all tensors are measured in one array, their kept  *)
(* elements copied into one buffer, and both split again by tensor.        *)
(***************************************************************************)
post_cutoff_lens(lengths, keep) ==
    [r \in DOMAIN lengths |->
        [keep |-> Smaller(lengths[r], keep),
         drop |-> Larger(lengths[r] - keep, 0),
         pad  |-> Larger(keep - lengths[r], 0)]]

KeptFrom(beg, cut, dropLeft) == IF dropLeft THEN beg + cut.drop ELSE beg

SplitWithSizes(s, sizes) ==
    LET at == OffsetsOf(sizes)
    IN  [i \in DOMAIN sizes |-> Segment(s, at[i], at[i + 1])]

SumOf(s) == OffsetsOf(s)[Len(s) + 1]

fused_ragged_cutoff_2D(values, offsets, keep, dropLeft, padLeft) ==
    LET cut    == [f \in DOMAIN values |-> post_cutoff_lens(Lengths(offsets[f]), keep[f])]
        buffer == FlattenSeq(FlattenSeq([f \in DOMAIN values |->
                      [r \in DOMAIN cut[f] |->
                          LET from == KeptFrom(offsets[f][r], cut[f][r], dropLeft[f])
                          IN  Segment(values[f], from, from + cut[f][r].keep)]]))
        sizes  == [f \in DOMAIN values |-> SumOf([r \in DOMAIN cut[f] |-> cut[f][r].keep])]
    IN  [values  |-> SplitWithSizes(buffer, sizes),
         offsets |-> [f \in DOMAIN values |->
                         << OffsetsOf([r \in DOMAIN cut[f] |-> cut[f][r].keep]) >>],
         pad     |-> [f \in DOMAIN values |->
                         << [drop |-> [r \in DOMAIN cut[f] |-> cut[f][r].drop],
                             pad  |-> [r \in DOMAIN cut[f] |-> cut[f][r].pad],
                             dropLeft |-> dropLeft[f], padLeft |-> padLeft[f]] >>]]

(* In three dimensions every sequence comes out with exactly keep rows,     *)
(* empty ones standing for the padding.  Source row of output row q of a    *)
(* sequence, or none.                                                       *)
CutoffRow(beg, cut, keep, q, dropLeft, padLeft) ==
    CASE cut.drop > 0 -> << KeptFrom(beg, cut, dropLeft) + q >>
      [] cut.drop = 0 /\ padLeft -> IF q < cut.pad THEN <<>> ELSE << beg + q - cut.pad >>
      [] OTHER -> IF keep <= cut.pad + q THEN <<>> ELSE << beg + q >>

_fused_ragged_cutoff_3D(values, outer, inner, keep, dropLeft, padLeft) ==
    LET cut    == [f \in DOMAIN values |-> post_cutoff_lens(Lengths(outer[f]), keep[f])]
        rows   == [f \in DOMAIN values |-> FlattenSeq([s \in DOMAIN cut[f] |->
                      [q \in 1..keep[f] |-> CutoffRow(outer[f][s], cut[f][s], keep[f], q - 1,
                                                      dropLeft[f], padLeft[f])]])]
        lens   == [f \in DOMAIN values |-> [i \in DOMAIN rows[f] |->
                      IF rows[f][i] = <<>> THEN 0
                      ELSE inner[f][rows[f][i][1] + 2] - inner[f][rows[f][i][1] + 1]]]
        buffer == FlattenSeq(FlattenSeq([f \in DOMAIN values |->
                      [i \in DOMAIN rows[f] |->
                          IF rows[f][i] = <<>> THEN <<>>
                          ELSE Segment(values[f], inner[f][rows[f][i][1] + 1],
                                       inner[f][rows[f][i][1] + 2])]]))
    IN  [values |-> SplitWithSizes(buffer, [f \in DOMAIN values |-> SumOf(lens[f])]),
         outer  |-> [f \in DOMAIN values |->
                        [i \in 1..Len(outer[f]) |-> (i - 1) * keep[f]]],
         inner  |-> [f \in DOMAIN values |-> OffsetsOf(lens[f])]]

fused_ragged_cutoff_3D(values, offsets, keep, dropLeft, padLeft) ==
    LET out == _fused_ragged_cutoff_3D(values, [f \in DOMAIN offsets |-> offsets[f][1]],
                   [f \in DOMAIN offsets |-> offsets[f][2]], keep, dropLeft, padLeft)
    IN  [values  |-> out.values,
         offsets |-> [f \in DOMAIN values |-> <<out.outer[f], out.inner[f]>>],
         pad     |-> [f \in DOMAIN values |-> <<>>]]

(* Elements of source, an uncut tensor, by their columns in the cut and     *)
(* padded view that pad describes: value and mask of each index.            *)
ByPaddedIndexFromStart(pad, indices, srcRows, source) ==
    [i \in DOMAIN indices |-> [c \in DOMAIN indices[i] |->
        LET row == srcRows[i] + 1
            at  == source.offsets[1][row] + indices[i][c]
        IN  IF at < source.offsets[1][row + 1]
            THEN <<source.values[at + 1]>> ELSE <<>>]]

index_select_ragged_by_padded_index(pad, indices, srcRows, source) ==
    [i \in DOMAIN indices |-> [c \in DOMAIN indices[i] |->
        LET row == srcRows[i] + 1
            beg == source.offsets[1][row]
            at  == beg + indices[i][c] + (IF pad.dropLeft THEN pad.drop[row] ELSE 0)
                                       - (IF pad.padLeft THEN pad.pad[row] ELSE 0)
        IN  IF beg <= at /\ at < source.offsets[1][row + 1]
            THEN <<source.values[at + 1]>> ELSE <<>>]]

(* The crossed ids of every row: one for each pair of distinct ids.         *)
HashPair(x, y) == (x * 31 + y) % 251

UniqueWeights(rt, r) ==
    LET ids   == Segment(rt.values, rt.offsets[Len(rt.offsets)][r],
                         rt.offsets[Len(rt.offsets)][r + 1])
        base  == rt.offsets[Len(rt.offsets)][r]
        first == SelectSeq([i \in DOMAIN ids |-> i],
                           LAMBDA i : \A j \in 1..(i - 1) : ids[j] # ids[i])
    IN  [i \in DOMAIN first |->
            [id |-> ids[first[i]],
             w  |-> IF rt.weight = <<>> THEN 1 ELSE rt.weight[1][base + first[i]]]]

feature_cross_ragged(x, y) ==
    LET rows  == Smaller(Len(x.offsets[Len(x.offsets)]), Len(y.offsets[Len(y.offsets)])) - 1
        pairs == [r \in 1..rows |->
                     LET ux == UniqueWeights(x, r)
                         uy == UniqueWeights(y, r)
                     IN  FlattenSeq([i \in DOMAIN ux |-> [j \in DOMAIN uy |->
                             [id |-> HashPair(ux[i].id, uy[j].id), w |-> ux[i].w * uy[j].w]]])]
        all   == FlattenSeq(pairs)
    IN  [values  |-> [i \in DOMAIN all |-> all[i].id],
         offsets |-> << OffsetsOf([r \in 1..rows |-> Len(pairs[r])]) >>,
         weight  |-> << [i \in DOMAIN all |-> all[i].w] >>]
=============================================================================
