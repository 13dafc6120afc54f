---------------------------- MODULE SizeClasses -----------------------------
(***************************************************************************)
(* How large a cell and a block an object gets, in bytes: the size classes *)
(* of gc_so_allocator, the blocks of gc_lo_allocator over list_allocator,  *)
(* and the buckets of gc_core_allocator.                                   *)
(***************************************************************************)
EXTENDS Integers, Sequences

\* constants.hpp
PAGE_SIZE == 4096
MIN_CELL_SIZE == 32
LARGE_CELL_SIZE == 4096
MANAGED_CHUNK_OBJECTS_COUNT == PAGE_SIZE \div MIN_CELL_SIZE

\* sizeof box_meta, list_allocator::control_block and gc_object_descriptor, on
\* the 64-bit machines the library is for.
BOX_META == 16
CONTROL_BLOCK == 16
OBJECT_DESCRIPTOR == 24

-----------------------------------------------------------------------------
(* gc_box, and where gc_core::allocate sends a request                     *)

BoxSize(obj_size) == obj_size + BOX_META
ObjStart(cell_start) == cell_start + BOX_META

\* The box is not counted here, as a comment in the code admits.
IsSmall(alloc_size) == alloc_size <= LARGE_CELL_SIZE

-----------------------------------------------------------------------------
(* gc_so_allocator                                                         *)

SZ_CLS == <<32, 64, 128, 256, 512, 1024, 2048, 4096>>

\* m_sztbl: for a size less one, the first class that is larger.
IsFirst(i, j) == j < SZ_CLS[i] /\ \A k \in 1..i-1 : SZ_CLS[k] <= j
SzTbl == [j \in 0..LARGE_CELL_SIZE-1 |-> CHOOSE i \in 1..Len(SZ_CLS) : IsFirst(i, j)]

\* The size of the cell for an object that has a class.
CellSize(alloc_size) == SZ_CLS[SzTbl[BoxSize(alloc_size) - 1]]

ChunkSize(cell_size) == cell_size * MANAGED_CHUNK_OBJECTS_COUNT

-----------------------------------------------------------------------------
(* list_allocator and gc_lo_allocator                                      *)

BlkSize(size) == size + CONTROL_BLOCK
MemblkSize(blk_size) == blk_size - CONTROL_BLOCK

\* A size whose block, with the control block, is a multiple of the alignment.
AlignSize(size, alignment) ==
    MemblkSize(((BlkSize(size) + alignment - 1) \div alignment) * alignment)

\* get_blk_size of gc_lo_allocator, which is computed once more, from the size
\* in the descriptor, when the block is given back.
LargeBlkSize(alloc_size) == AlignSize(OBJECT_DESCRIPTOR + BoxSize(alloc_size), PAGE_SIZE)

\* Where in the page-aligned block blk list_allocator puts what it returns, the
\* descriptor is, and the cell starts.
Memblk(blk) == blk + CONTROL_BLOCK
LargeCellStart(blk) == Memblk(blk) + OBJECT_DESCRIPTOR

AlignByPage(p) == p - (p % PAGE_SIZE)

\* The addresses memory_index gets for the object: from and up to.
IndexFrom(blk) == AlignByPage(Memblk(blk))
IndexTo(blk, alloc_size) == IndexFrom(blk) + BlkSize(LargeBlkSize(alloc_size))

\* gc_object_descriptor::check_ptr; m_size is the size of the object, without
\* its box.
CheckPtr(cell_start, m_size, p) == cell_start <= p /\ p < cell_start + m_size

-----------------------------------------------------------------------------
(* gc_core_allocator                                                       *)

\* sys_allocator::align_size
SysAlignSize(size) == ((size + PAGE_SIZE - 1) \div PAGE_SIZE) * PAGE_SIZE

MAX_BUCKETIZE_SIZE == MANAGED_CHUNK_OBJECTS_COUNT * LARGE_CELL_SIZE
BUCKET_COUNT == MAX_BUCKETIZE_SIZE \div LARGE_CELL_SIZE

\* page_bucket_policy
Bucket(size) == (size \div PAGE_SIZE) - 1
BucketSize(i) == (i + 1) * PAGE_SIZE

\* What a block for a pool, or for a large object, adds to the size of the heap.
PoolBlock(alloc_size) == SysAlignSize(ChunkSize(CellSize(alloc_size)))
LargeBlock(alloc_size) == SysAlignSize(BlkSize(LargeBlkSize(alloc_size)))

=============================================================================
