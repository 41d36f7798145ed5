---------------------------- MODULE IdAllocator ----------------------------
(***************************************************************************)
(* The row allocator of an embedding table                                  *)
(* (csrc/embedding/id_allocator.cc, csrc/ops/hashtable_ops.cc).             *)
(*                                                                          *)
(* Rows 0 .. cur_size-1 have been handed out at least once.  Rows given     *)
(* back are kept on a stack of free_size entries, stored in blocks of       *)
(* FreeBlockSize cells; free_blocks is the concatenation of the blocks, a   *)
(* function on 0 .. (number of blocks * FreeBlockSize) - 1.  A cell of a    *)
(* block that was never written holds Uninit (torch::empty).                *)
(***************************************************************************)
EXTENDS Integers

CONSTANTS
    FreeBlockSize,  \* free_block_size_: cells in one block of the free stack
    IntMax          \* the largest value of C++ int, 2^31 - 1 in the real build

ASSUME FreeBlockSizeAssumption == FreeBlockSize \in Nat \ {0}
ASSUME IntMaxAssumption == IntMax \in Nat

VARIABLES
    cur_size,       \* cur_size_: rows ever handed out
    free_size,      \* free_size_: rows on the free stack
    free_blocks     \* free_blocks_: the cells of the free stack

allocVars == <<cur_size, free_size, free_blocks>>

Uninit == -2

AllocInit ==
    /\ cur_size = 0
    /\ free_size = 0
    /\ free_blocks = [k \in 0 .. FreeBlockSize - 1 |-> Uninit]

\* static_cast<int>: an integer reduced to the range of a C++ int.
ToInt(x) == ((x + IntMax + 1) % (2 * (IntMax + 1))) - (IntMax + 1)

\* The cells of the blocks needed for a stack of n entries.
Cells(n) == 0 .. (n \div FreeBlockSize + 1) * FreeBlockSize - 1

\* ReduceBlock drops the blocks beyond the ones that n entries need.
ReduceBlock(cells, n) == [k \in DOMAIN cells \cap Cells(n) |-> cells[k]]

\* IncreaseBlock appends uninitialised blocks until n entries fit.
IncreaseBlock(cells, n) ==
    [k \in DOMAIN cells \cup Cells(n) |-> IF k \in DOMAIN cells THEN cells[k] ELSE Uninit]

\* The i-th of num generated rows: the top of the free stack first, and fresh
\* rows from cur_size on for what the stack cannot supply.
GeneratedRow(num, i) ==
    LET free_index == free_size - num + i
    IN  IF free_index >= 0 THEN free_blocks[free_index]
                           ELSE cur_size - (free_index + 1)

NewRows(num) == IF free_size >= num THEN 0 ELSE num - free_size

\* GenIds(num): its effect on the allocator.
GenIds(num) ==
    LET left == ToInt(free_size - num)
        size == IF left > 0 THEN left ELSE 0
    IN  /\ cur_size' = cur_size + NewRows(num)
        /\ free_size' = size
        /\ free_blocks' = ReduceBlock(free_blocks, size)

\* FreeIds pushes the num rows rows[0], ..., rows[num-1].
FreeIds(num, rows) ==
    LET grown == IncreaseBlock(free_blocks, free_size + num)
    IN  /\ free_size' = free_size + num
        /\ free_blocks' = [k \in DOMAIN grown |->
                              IF k \in free_size .. free_size + num - 1
                              THEN rows[k - free_size] ELSE grown[k]]
        /\ UNCHANGED cur_size

\* GetActiveSize, the number of rows in use.
ActiveSize == cur_size - free_size

\* The rows on the free stack.
FreeRows == {free_blocks[k] : k \in 0 .. free_size - 1}
=============================================================================
