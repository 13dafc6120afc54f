--------------------------- MODULE PoolDescriptor ---------------------------
(***************************************************************************)
(* allocators/gc_pool_descriptor: a chunk of CHUNK_MAXSIZE cells of one    *)
(* size, which addresses are in it and in which of its cells, and for each *)
(* cell a mark and whether an object was constructed in it.  Addresses are *)
(* numbers, and a descriptor is a value here.  The pin bits, which only    *)
(* statistics and the disabled compaction read, are left out.              *)
(***************************************************************************)
EXTENDS Bitset, Sequences

CONSTANTS
    PAGE_SIZE,
    cell_size       \* 2 to the m_cell_size_log2

CHUNK_MAXSIZE == N

\* Size classes are powers of two up to a page: a page holds whole cells.
ASSUME CellSizeAssumption ==
    /\ PAGE_SIZE \in Nat \ {0} /\ cell_size \in Nat \ {0}
    /\ PAGE_SIZE % cell_size = 0

ChunkSize == cell_size * CHUNK_MAXSIZE

\* Chunks are mapped from the operating system in pages.
Chunks == {p \in Nat : p % PAGE_SIZE = 0}

NewDescriptor(chunk) ==
    [m_memory |-> chunk, m_size |-> ChunkSize, m_mark_bits |-> ResetAll, m_init_bits |-> ResetAll]

InChunk(descr, p) == descr.m_memory <= p /\ p < descr.m_memory + descr.m_size

\* The mask drops the low bits of the address, whatever the chunk starts at.
CellStart(p) == p - (p % cell_size)

CalcCellInd(descr, p) == (p - descr.m_memory) \div cell_size

\* memory_iterator, from begin up to end.
MemoryRange(descr) ==
    [i \in 1 .. descr.m_size \div cell_size |-> descr.m_memory + (i - 1) * cell_size]

GetMark(descr, p) == GetBit(descr.m_mark_bits, CalcCellInd(descr, p))
IsInit(descr, p) == GetBit(descr.m_init_bits, CalcCellInd(descr, p))

SetMark(descr, p) == [descr EXCEPT !.m_mark_bits = SetTo(@, CalcCellInd(descr, p), TRUE)]
SetInit(descr, p, init) ==
    [descr EXCEPT !.m_init_bits = SetTo(@, CalcCellInd(descr, p), init)]

Unused(descr) == NoBit(descr.m_mark_bits)
Unmark(descr) == [descr EXCEPT !.m_mark_bits = ResetAll]

LifetimeTag(descr, p) ==
    CASE GetMark(descr, p) /\ IsInit(descr, p) -> "LIVE"
      [] GetMark(descr, p) /\ ~IsInit(descr, p) -> "ALLOCATED"
      [] ~GetMark(descr, p) /\ IsInit(descr, p) -> "GARBAGE"
      [] OTHER -> "FREE"

\* commit and finalize; what they do to the object in the cell is not here.
CommitCell(descr, p) == SetInit(descr, p, TRUE)
FinalizeCell(descr, p) == SetInit(descr, p, FALSE)

=============================================================================
