------------------------------ MODULE Sharding ------------------------------
(***************************************************************************)
(* Which rank an id belongs to, three times over: gen_slice() gives every  *)
(* table its range of buckets (recis/nn/modules/hashtable.py), the         *)
(* partition of a batch sends an id to a rank (ids_partition, both its     *)
(* kernels), and the reader of a checkpoint keeps the ids of its range.    *)
(* They are written independently and have to agree.                       *)
(***************************************************************************)
EXTENDS Integers

\* Buckets of rank r out of w: the first total % w ranks have one more.
ShardSliceSize(r, w, total) == (total \div w) + (IF r < total % w THEN 1 ELSE 0)

\* gen_slice(): the ranges one after the other.
SliceBegin(r, w, total) ==
  LET beg[i \in 0..w] == IF i = 0 THEN 0 ELSE beg[i - 1] + ShardSliceSize(i - 1, w, total)
  IN  beg[r]

InSlice(bucket, r, w, total) ==
  /\ SliceBegin(r, w, total) <= bucket
  /\ bucket < SliceBegin(r + 1, w, total)

\* Mutant: the remainder is forgotten.
OwnerWithoutRemainder(bucket, w, total) ==
  IF bucket \div (total \div w) < w THEN bucket \div (total \div w) ELSE w - 1

\* ids_partition() on the GPU (HashSlice): the rank of a bucket.
Owner(bucket, w, total) ==
  LET m == total \div w
      n == total % w
      plain == (bucket - n) \div m
      large == bucket \div (m + 1)
  IN  IF large > plain THEN large ELSE plain
=============================================================================
