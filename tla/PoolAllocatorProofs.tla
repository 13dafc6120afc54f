------------------------ MODULE PoolAllocatorProofs -------------------------
(***************************************************************************)
(* Every cell of the pool allocator's blocks is in one place at a time,    *)
(* for all sizes, blocks and depths of nesting, and used as CellStore      *)
(* says; and what that rests on, for the stacks as well: a bitset is a set *)
(* of numbers below N, a descriptor's arithmetic on addresses finds the    *)
(* cell an address is in, stack_bitmap calls back with exactly the roots   *)
(* that were registered.  At the end, compaction of the cells of pools     *)
(* keeps every object and every handle, whatever is live, pinned or        *)
(* garbage among them.                                                     *)
(***************************************************************************)
EXTENDS PoolAllocator, StackBitmap, FiniteSetTheorems, SequenceTheorems, WellFoundedInduction, TLAPS

-----------------------------------------------------------------------------
(* Division                                                                *)

LEMMA Multiples ==
    ASSUME NEW b \in Nat \ {0}, NEW x \in Int, NEW y \in Int, x < y
    PROVE  b * x + b <= b * y
<1>1. b * (y - x - 1) >= 0
  OBVIOUS
<1>2. b * (y - x - 1) = b * y - b * x - b
  OBVIOUS
<1> QED BY <1>1, <1>2

LEMMA DivisionTheorem ==
    ASSUME NEW a \in Nat, NEW b \in Nat \ {0}
    PROVE  /\ a \div b \in Nat /\ a % b \in 0..b-1
           /\ a = b * (a \div b) + (a % b)
OBVIOUS

LEMMA DivisionUnique ==
    ASSUME NEW a \in Nat, NEW b \in Nat \ {0}, NEW q \in Nat, NEW r \in 0..b-1,
           a = b * q + r
    PROVE  a \div b = q /\ a % b = r
<1> DEFINE x == a \div b
           y == a % b
<1>1. x \in Nat /\ y \in 0..b-1 /\ a = b * x + y
  BY DivisionTheorem
<1> HIDE DEF x, y
<1>2. ~(x < q)
  BY <1>1, Multiples
<1>3. ~(q < x)
  BY <1>1, Multiples
<1>4. x = q /\ y = r
  BY <1>1, <1>2, <1>3
<1> QED BY <1>4 DEF x, y

-----------------------------------------------------------------------------
(* Bitset                                                                  *)

\* The block a bit is in exists, and a bit is told from all others by its
\* block and its place in it.
LEMMA BitPlace ==
    ASSUME NEW i \in 0..N-1
    PROVE  /\ BlockIdx(i) \in 0..BLOCK_CNT-1 /\ BitOffset(i) \in MAX
           /\ i = BLOCK_SIZE * BlockIdx(i) + BitOffset(i)
<1>1. /\ BlockIdx(i) \in Nat /\ BitOffset(i) \in 0..BLOCK_SIZE-1
      /\ i = BLOCK_SIZE * BlockIdx(i) + BitOffset(i)
  BY BitsetAssumption, DivisionTheorem DEF BlockIdx, BitOffset
<1>2. /\ BLOCK_CNT \in Nat
      /\ N + BLOCK_SIZE - 1 < BLOCK_SIZE * BLOCK_CNT + BLOCK_SIZE
  <2> DEFINE a == N + BLOCK_SIZE - 1
             c == a \div BLOCK_SIZE
  <2>1. a \in Nat
    BY BitsetAssumption
  <2>2. /\ c \in Nat /\ a % BLOCK_SIZE \in 0..BLOCK_SIZE-1
        /\ a = BLOCK_SIZE * c + (a % BLOCK_SIZE)
    BY <2>1, BitsetAssumption, DivisionTheorem
  <2>3. BLOCK_CNT = c
    BY DEF BLOCK_CNT
  <2> HIDE DEF a, c
  <2>4. a < BLOCK_SIZE * c + BLOCK_SIZE
    BY <2>1, <2>2, BitsetAssumption
  <2> QED BY <2>2, <2>3, <2>4 DEF a
<1>3. ~(BLOCK_CNT <= BlockIdx(i))
  <2>1. SUFFICES ASSUME BLOCK_CNT <= BlockIdx(i) PROVE FALSE
    OBVIOUS
  <2>2. BLOCK_SIZE * BLOCK_CNT <= BLOCK_SIZE * BlockIdx(i)
    <3>1. BLOCK_CNT = BlockIdx(i) \/ BLOCK_SIZE * BLOCK_CNT + BLOCK_SIZE <= BLOCK_SIZE * BlockIdx(i)
      BY <1>1, <1>2, <2>1, Multiples, BitsetAssumption
    <3> QED BY <3>1, <1>1, <1>2, BitsetAssumption
  <2> QED BY <1>1, <1>2, <2>2, BitsetAssumption
<1> QED BY <1>1, <1>2, <1>3 DEF MAX

\* set makes a set of the bits with one more bit; only that one changes.
THEOREM SetInserts ==
    ASSUME NEW bits \in Bitsets, NEW i \in 0..N-1
    PROVE  Set(bits, i) \in Bitsets /\ Bits(Set(bits, i)) = Bits(bits) \cup {i}
<1>1. Set(bits, i) \in Bitsets
  BY BitPlace DEF Set, Bitsets, FetchOr, Mask
<1>2. ASSUME NEW j \in 0..N-1
      PROVE  GetBit(Set(bits, i), j) <=> GetBit(bits, j) \/ j = i
  <2>1. CASE BlockIdx(j) = BlockIdx(i)
    <3>1. Set(bits, i)[BlockIdx(j)] = bits[BlockIdx(j)] \cup {BitOffset(i)}
      BY <2>1, BitPlace DEF Set, Bitsets, FetchOr, Mask
    <3>2. BitOffset(j) = BitOffset(i) <=> j = i
      BY <2>1, BitPlace, BitsetAssumption
    <3> QED BY <3>1, <3>2 DEF GetBit, Mask
  <2>2. CASE BlockIdx(j) # BlockIdx(i)
    <3>1. Set(bits, i)[BlockIdx(j)] = bits[BlockIdx(j)]
      BY <2>2, BitPlace DEF Set, Bitsets
    <3> QED BY <2>2, <3>1 DEF GetBit
  <2> QED BY <2>1, <2>2
<1> QED BY <1>1, <1>2 DEF Bits

\* reset takes it out.
THEOREM ResetRemoves ==
    ASSUME NEW bits \in Bitsets, NEW i \in 0..N-1
    PROVE  Reset(bits, i) \in Bitsets /\ Bits(Reset(bits, i)) = Bits(bits) \ {i}
<1>1. Reset(bits, i) \in Bitsets
  BY BitPlace DEF Reset, Bitsets, FetchAnd, Mask
<1>2. ASSUME NEW j \in 0..N-1
      PROVE  GetBit(Reset(bits, i), j) <=> GetBit(bits, j) /\ j # i
  <2>1. CASE BlockIdx(j) = BlockIdx(i)
    <3>1. Reset(bits, i)[BlockIdx(j)] = bits[BlockIdx(j)] \cap (MAX \ {BitOffset(i)})
      BY <2>1, BitPlace DEF Reset, Bitsets, FetchAnd, Mask
    <3>2. BitOffset(j) \in MAX /\ (BitOffset(j) = BitOffset(i) <=> j = i)
      BY <2>1, BitPlace, BitsetAssumption
    <3> QED BY <3>1, <3>2 DEF GetBit, Mask
  <2>2. CASE BlockIdx(j) # BlockIdx(i)
    <3>1. Reset(bits, i)[BlockIdx(j)] = bits[BlockIdx(j)]
      BY <2>2, BitPlace DEF Reset, Bitsets
    <3> QED BY <2>2, <3>1 DEF GetBit
  <2> QED BY <2>1, <2>2
<1> QED BY <1>1, <1>2 DEF Bits

\* reset_all leaves no bit, and a bit that is set is in a block that is not zero.
LEMMA NoBitNone ==
    /\ ResetAll \in Bitsets /\ Bits(ResetAll) = {}
    /\ \A bits \in Bitsets : NoBit(bits) => Bits(bits) = {}
<1>1. ResetAll \in Bitsets /\ Bits(ResetAll) = {}
  <2>1. ASSUME NEW i \in 0..N-1 PROVE ~GetBit(ResetAll, i)
    BY BitPlace DEF GetBit, ResetAll, ZERO, Mask
  <2> QED BY <2>1 DEF ResetAll, Bitsets, ZERO, Bits
<1>2. ASSUME NEW bits \in Bitsets, NoBit(bits) PROVE Bits(bits) = {}
  <2>1. ASSUME NEW i \in 0..N-1 PROVE ~GetBit(bits, i)
    BY <1>2, BitPlace DEF GetBit, NoBit, ZERO, Mask
  <2> QED BY <2>1 DEF Bits
<1> QED BY <1>1, <1>2

\* reset_all leaves none, and none() sees that no bit is left, when the blocks
\* have no bits past the last, as the 128 of a pool descriptor.
THEOREM NoBitIsEmpty ==
    ASSUME N % BLOCK_SIZE = 0
    PROVE  /\ ResetAll \in Bitsets /\ Bits(ResetAll) = {}
           /\ \A bits \in Bitsets : NoBit(bits) <=> Bits(bits) = {}
<1>1. ASSUME NEW bits \in Bitsets, NEW b \in 0..BLOCK_CNT-1, NEW k \in bits[b]
      PROVE  \E i \in 0..N-1 : GetBit(bits, i)
  <2> DEFINE i == BLOCK_SIZE * b + k
  <2>1. k \in 0..BLOCK_SIZE-1 /\ b \in Nat
    BY BitsetAssumption DEF Bitsets, MAX
  <2>2. /\ BLOCK_CNT \in Nat
        /\ BLOCK_SIZE * BLOCK_CNT = N
    <3> DEFINE q == N \div BLOCK_SIZE
    <3>1. q \in Nat /\ N = BLOCK_SIZE * q
      BY BitsetAssumption, DivisionTheorem
    <3> HIDE DEF q
    <3>2. N + BLOCK_SIZE - 1 = BLOCK_SIZE * q + (BLOCK_SIZE - 1)
      BY <3>1, BitsetAssumption
    <3>3. N + BLOCK_SIZE - 1 \in Nat /\ BLOCK_SIZE - 1 \in 0..BLOCK_SIZE-1
      BY BitsetAssumption
    <3>4. BLOCK_CNT = q
      BY <3>1, <3>2, <3>3, BitsetAssumption, DivisionUnique DEF BLOCK_CNT
    <3> QED BY <3>1, <3>4
  <2>3. BLOCK_SIZE * b + BLOCK_SIZE <= N
    BY <2>1, <2>2, Multiples, BitsetAssumption
  <2>4. i \in 0..N-1
    <3>1. BLOCK_SIZE * b \in Nat
      BY <2>1, BitsetAssumption
    <3> QED BY <2>1, <2>3, <3>1, BitsetAssumption
  <2>5. i \div BLOCK_SIZE = b /\ i % BLOCK_SIZE = k
    BY <2>1, <2>4, BitsetAssumption, DivisionUnique
  <2>6. GetBit(bits, i)
    BY <2>5 DEF GetBit, Mask, BitOffset, BlockIdx
  <2> QED BY <2>4, <2>6
<1>2. ASSUME NEW bits \in Bitsets, Bits(bits) = {} PROVE NoBit(bits)
  BY <1>1, <1>2 DEF NoBit, Bits, ZERO
<1> QED BY <1>2, NoBitNone

-----------------------------------------------------------------------------
(* Addresses                                                               *)

IsDescriptor(descr) == descr.m_memory \in Chunks /\ descr.m_size = ChunkSize

\* A chunk starts at a cell: cell_start masks the address alone and does not
\* look at where the chunk begins.
LEMMA ChunkAligned ==
    ASSUME NEW m \in Chunks
    PROVE  \E q \in Nat : m = cell_size * q
<1> DEFINE pages == m \div PAGE_SIZE
           per == PAGE_SIZE \div cell_size
<1>1. m \in Nat /\ pages \in Nat /\ m = PAGE_SIZE * pages
  BY CellSizeAssumption, DivisionTheorem DEF Chunks
<1>2. per \in Nat /\ PAGE_SIZE = cell_size * per
  BY CellSizeAssumption, DivisionTheorem
<1> HIDE DEF pages, per
<1>3. m = cell_size * (per * pages) /\ per * pages \in Nat
  BY <1>1, <1>2, CellSizeAssumption
<1> QED BY <1>3

\* From any address in the chunk the descriptor finds a cell of the chunk that
\* has the address in it: its number is one the bitsets have, and its start is
\* where the memory range has the cell of that number.
THEOREM CellFound ==
    ASSUME NEW descr, IsDescriptor(descr), NEW p \in Nat, InChunk(descr, p)
    PROVE  LET i == CalcCellInd(descr, p) IN
           /\ i \in 0..CHUNK_MAXSIZE-1
           /\ CellStart(p) = descr.m_memory + i * cell_size
           /\ CellStart(p) <= p /\ p < CellStart(p) + cell_size
           /\ CalcCellInd(descr, CellStart(p)) = i
<1> DEFINE m == descr.m_memory
           d == p - m
           i == d \div cell_size
           r == d % cell_size
<1>1. PICK q \in Nat : m = cell_size * q
  BY ChunkAligned DEF IsDescriptor
<1>2. d \in Nat /\ d < cell_size * N /\ m \in Nat /\ p = m + d
  <2>1. descr.m_memory \in Nat /\ descr.m_size = cell_size * N
    BY DEF IsDescriptor, Chunks, ChunkSize, CHUNK_MAXSIZE
  <2>2. descr.m_memory <= p /\ p < descr.m_memory + cell_size * N
    BY <2>1 DEF InChunk
  <2>3. cell_size * N \in Nat
    BY CellSizeAssumption, BitsetAssumption
  <2> QED BY <2>1, <2>2, <2>3
<1>3. i \in Nat /\ r \in 0..cell_size-1 /\ d = cell_size * i + r
  BY <1>2, CellSizeAssumption, DivisionTheorem
<1>4. CalcCellInd(descr, p) = i
  BY DEF CalcCellInd
<1> HIDE DEF d, i, r, m
<1>5. i < N
  <2>1. SUFFICES ASSUME N <= i PROVE FALSE
    BY <1>3, BitsetAssumption
  <2>2. N = i \/ cell_size * N + cell_size <= cell_size * i
    BY <1>3, <2>1, Multiples, BitsetAssumption, CellSizeAssumption
  <2>3. cell_size * N <= cell_size * i
    BY <2>2, <1>3, BitsetAssumption, CellSizeAssumption
  <2> QED BY <1>2, <1>3, <2>3, BitsetAssumption, CellSizeAssumption
<1>6. p = cell_size * (q + i) + r /\ q + i \in Nat
  BY <1>1, <1>2, <1>3, CellSizeAssumption
<1>7. p % cell_size = r
  BY <1>3, <1>6, CellSizeAssumption, DivisionUnique
<1>8. CellStart(p) = m + i * cell_size
  BY <1>1, <1>3, <1>6, <1>7, CellSizeAssumption DEF CellStart
<1>9. CellStart(p) <= p /\ p < CellStart(p) + cell_size
  BY <1>3, <1>7, CellSizeAssumption DEF CellStart
<1>10. CalcCellInd(descr, CellStart(p)) = i
  <2>1. CellStart(p) - m = cell_size * i + 0 /\ cell_size * i \in Nat
    BY <1>2, <1>3, <1>8, CellSizeAssumption
  <2>2. 0 \in 0..cell_size-1
    BY CellSizeAssumption
  <2>3. (CellStart(p) - m) \div cell_size = i
    BY <2>1, <2>2, <1>3, CellSizeAssumption, DivisionUnique
  <2> QED BY <2>3 DEF CalcCellInd, m
<1> QED BY <1>3, <1>4, <1>5, <1>8, <1>9, <1>10, BitsetAssumption DEF m, CHUNK_MAXSIZE

\* The mark of one cell says nothing of another: after set_mark those cells are
\* marked that were, and the one that the address is in.
THEOREM MarksOneCell ==
    ASSUME NEW descr \in [m_memory : Chunks, m_size : {ChunkSize},
                          m_mark_bits : Bitsets, m_init_bits : Bitsets],
           NEW p \in Nat, InChunk(descr, p), NEW p2 \in Nat, InChunk(descr, p2)
    PROVE  GetMark(SetMark(descr, p), p2)
              <=> GetMark(descr, p2) \/ CellStart(p2) = CellStart(p)
<1> DEFINE i == CalcCellInd(descr, p)
           j == CalcCellInd(descr, p2)
           bits == descr.m_mark_bits
<1>1. IsDescriptor(descr)
  BY DEF IsDescriptor
<1>2. /\ i \in 0..N-1 /\ CellStart(p) = descr.m_memory + i * cell_size
      /\ j \in 0..N-1 /\ CellStart(p2) = descr.m_memory + j * cell_size
  BY <1>1, CellFound DEF CHUNK_MAXSIZE
<1>3. GetMark(SetMark(descr, p), p2) <=> GetBit(Set(bits, i), j)
  <2> DEFINE after == SetMark(descr, p)
  <2>1. after.m_mark_bits = Set(bits, i) /\ after.m_memory = descr.m_memory
    BY Zenon DEF SetMark, SetTo
  <2>2. CalcCellInd(after, p2) = j
    BY <2>1, Zenon DEF CalcCellInd
  <2> QED BY <2>1, <2>2, Zenon DEF GetMark
<1>4. GetBit(Set(bits, i), j) <=> GetBit(bits, j) \/ j = i
  <2>1. j \in Bits(Set(bits, i)) <=> j \in Bits(bits) \cup {i}
    BY <1>2, SetInserts
  <2> QED BY <2>1, <1>2 DEF Bits
<1>5. CellStart(p2) = CellStart(p) <=> j = i
  <2> HIDE DEF i, j
  <2>1. i < j => cell_size * i + cell_size <= cell_size * j
    BY <1>2, Multiples, CellSizeAssumption, BitsetAssumption
  <2>2. j < i => cell_size * j + cell_size <= cell_size * i
    BY <1>2, Multiples, CellSizeAssumption, BitsetAssumption
  <2>3. cell_size * i = i * cell_size /\ cell_size * j = j * cell_size
        /\ i * cell_size \in Int /\ j * cell_size \in Int
    BY <1>2, CellSizeAssumption, BitsetAssumption
  <2>4. descr.m_memory \in Int
    BY DEF Chunks
  <2> QED BY <1>2, <2>1, <2>2, <2>3, <2>4, CellSizeAssumption, BitsetAssumption
<1> QED BY <1>3, <1>4, <1>5 DEF GetMark

-----------------------------------------------------------------------------
(* The roots of a stack                                                    *)

\* The words of the stack that have a bit.
Covered(m_stack_addr, frame_count) ==
    m_stack_addr .. m_stack_addr + STACK_FRAME_SIZE * frame_count - 1

LEMMA IdxsFound ==
    ASSUME NEW n \in Nat, NEW a \in Nat, NEW root \in Covered(a, n)
    PROVE  /\ FrameIdx(a, root) \in 0..n-1
           /\ BitIdx(a, root) \in 0..STACK_FRAME_SIZE-1
           /\ root = a + STACK_FRAME_SIZE * FrameIdx(a, root) + BitIdx(a, root)
BY DEF FrameIdx, BitIdx, STACK_FRAME_SIZE, Covered

LEMMA IdxsUnique ==
    ASSUME NEW a \in Nat, NEW f \in Nat, NEW i \in 0..STACK_FRAME_SIZE-1
    PROVE  /\ FrameIdx(a, a + STACK_FRAME_SIZE * f + i) = f
           /\ BitIdx(a, a + STACK_FRAME_SIZE * f + i) = i
BY DEF FrameIdx, BitIdx, STACK_FRAME_SIZE

\* A word with a bit is called back with when contains() says so.
LEMMA TracedIsContained ==
    ASSUME NEW n \in Nat, NEW a \in Nat, NEW bm \in Bitmaps(n), NEW root \in Covered(a, n)
    PROVE  root \in TraceRoots(bm, a) <=> ContainsRoot(bm, a, root)
<1>1. ASSUME ContainsRoot(bm, a, root) PROVE root \in TraceRoots(bm, a)
  BY <1>1, IdxsFound DEF TraceRoots, ContainsRoot
<1>2. ASSUME root \in TraceRoots(bm, a) PROVE ContainsRoot(bm, a, root)
  <2>1. PICK f \in DOMAIN bm : \E i \in bm[f] : root = a + STACK_FRAME_SIZE * f + i
    BY <1>2 DEF TraceRoots
  <2>2. PICK i \in bm[f] : root = a + STACK_FRAME_SIZE * f + i
    BY <2>1
  <2>3. f \in 0..n-1 /\ i \in 0..STACK_FRAME_SIZE-1
    BY <2>1, <2>2 DEF Bitmaps
  <2>4. FrameIdx(a, root) = f /\ BitIdx(a, root) = i
    BY <2>2, <2>3, IdxsUnique
  <2> QED BY <2>1, <2>2, <2>4 DEF ContainsRoot
<1> QED BY <1>1, <1>2

\* The callback gets no word without a bit.
LEMMA TracedIsCovered ==
    ASSUME NEW n \in Nat, NEW a \in Nat, NEW bm \in Bitmaps(n)
    PROVE  TraceRoots(bm, a) \subseteq Covered(a, n)
<1> SUFFICES ASSUME NEW root \in TraceRoots(bm, a) PROVE root \in Covered(a, n)
  OBVIOUS
<1>1. PICK f \in DOMAIN bm : \E i \in bm[f] : root = a + STACK_FRAME_SIZE * f + i
  BY DEF TraceRoots
<1>2. PICK i \in bm[f] : root = a + STACK_FRAME_SIZE * f + i
  BY <1>1
<1>3. f \in 0..n-1 /\ i \in 0..STACK_FRAME_SIZE-1
  BY <1>1, <1>2 DEF Bitmaps
<1> QED BY <1>2, <1>3 DEF Covered, STACK_FRAME_SIZE

\* Two words of the stack are one when root_idxs gives them the same indices.
LEMMA IdxsInjective ==
    ASSUME NEW n \in Nat, NEW a \in Nat, NEW r \in Covered(a, n), NEW s \in Covered(a, n),
           FrameIdx(a, r) = FrameIdx(a, s), BitIdx(a, r) = BitIdx(a, s)
    PROVE  r = s
BY IdxsFound

\* A gc_ptr that register_root was called with is traced in the next pause, and
\* nothing else becomes a root by it.
THEOREM RegisteredIsTraced ==
    ASSUME NEW n \in Nat, NEW a \in Nat, NEW bm \in Bitmaps(n), NEW root \in Covered(a, n)
    PROVE  /\ RegisterRoot(bm, a, root) \in Bitmaps(n)
           /\ TraceRoots(RegisterRoot(bm, a, root), a) = TraceRoots(bm, a) \cup {root}
<1> DEFINE after == RegisterRoot(bm, a, root)
           f == FrameIdx(a, root)
           i == BitIdx(a, root)
<1>1. f \in 0..n-1 /\ i \in 0..STACK_FRAME_SIZE-1
  BY IdxsFound
<1>2. after \in Bitmaps(n) /\ after = [bm EXCEPT ![f] = @ \cup {i}]
  BY <1>1 DEF Bitmaps, RegisterRoot
<1> HIDE DEF after, f, i
<1>3. ASSUME NEW s \in Covered(a, n)
      PROVE  ContainsRoot(after, a, s) <=> ContainsRoot(bm, a, s) \/ s = root
  <2> DEFINE g == FrameIdx(a, s)
             j == BitIdx(a, s)
  <2>1. g \in 0..n-1
    BY <1>3, IdxsFound
  <2>2. ContainsRoot(after, a, s) <=> j \in after[g]
    BY <1>2, <2>1 DEF ContainsRoot, Bitmaps
  <2>3. ContainsRoot(bm, a, s) <=> j \in bm[g]
    BY <2>1 DEF ContainsRoot, Bitmaps
  <2>4. s = root <=> g = f /\ j = i
    BY <1>3, IdxsInjective DEF f, i
  <2> HIDE DEF g, j
  <2>5. after[g] = IF g = f THEN bm[f] \cup {i} ELSE bm[g]
    BY <1>1, <1>2, <2>1 DEF Bitmaps
  <2> QED BY <2>2, <2>3, <2>4, <2>5
<1>4. TraceRoots(after, a) = TraceRoots(bm, a) \cup {root}
  <2>1. TraceRoots(after, a) \subseteq Covered(a, n) /\ TraceRoots(bm, a) \subseteq Covered(a, n)
    BY <1>2, TracedIsCovered
  <2>2. \A s \in Covered(a, n) :
            /\ s \in TraceRoots(after, a) <=> ContainsRoot(after, a, s)
            /\ s \in TraceRoots(bm, a) <=> ContainsRoot(bm, a, s)
    BY <1>2, TracedIsContained
  <2> QED BY <1>3, <2>1, <2>2
<1> QED BY <1>2, <1>4 DEF after

\* And deregister_root takes it out again, and no other.
THEOREM DeregisteredIsNot ==
    ASSUME NEW n \in Nat, NEW a \in Nat, NEW bm \in Bitmaps(n), NEW root \in Covered(a, n)
    PROVE  /\ DeregisterRoot(bm, a, root) \in Bitmaps(n)
           /\ TraceRoots(DeregisterRoot(bm, a, root), a) = TraceRoots(bm, a) \ {root}
<1> DEFINE after == DeregisterRoot(bm, a, root)
           f == FrameIdx(a, root)
           i == BitIdx(a, root)
<1>1. f \in 0..n-1 /\ i \in 0..STACK_FRAME_SIZE-1
  BY IdxsFound
<1>2. after \in Bitmaps(n) /\ after = [bm EXCEPT ![f] = @ \ {i}]
  BY <1>1 DEF Bitmaps, DeregisterRoot
<1> HIDE DEF after, f, i
<1>3. ASSUME NEW s \in Covered(a, n)
      PROVE  ContainsRoot(after, a, s) <=> ContainsRoot(bm, a, s) /\ s # root
  <2> DEFINE g == FrameIdx(a, s)
             j == BitIdx(a, s)
  <2>1. g \in 0..n-1
    BY <1>3, IdxsFound
  <2>2. ContainsRoot(after, a, s) <=> j \in after[g]
    BY <1>2, <2>1 DEF ContainsRoot, Bitmaps
  <2>3. ContainsRoot(bm, a, s) <=> j \in bm[g]
    BY <2>1 DEF ContainsRoot, Bitmaps
  <2>4. s = root <=> g = f /\ j = i
    BY <1>3, IdxsInjective DEF f, i
  <2> HIDE DEF g, j
  <2>5. after[g] = IF g = f THEN bm[f] \ {i} ELSE bm[g]
    BY <1>1, <1>2, <2>1 DEF Bitmaps
  <2> QED BY <2>2, <2>3, <2>4, <2>5
<1>4. TraceRoots(after, a) = TraceRoots(bm, a) \ {root}
  <2>1. TraceRoots(after, a) \subseteq Covered(a, n) /\ TraceRoots(bm, a) \subseteq Covered(a, n)
    BY <1>2, TracedIsCovered
  <2>2. \A s \in Covered(a, n) :
            /\ s \in TraceRoots(after, a) <=> ContainsRoot(after, a, s)
            /\ s \in TraceRoots(bm, a) <=> ContainsRoot(bm, a, s)
    BY <1>2, TracedIsContained
  <2> QED BY <1>3, <2>1, <2>2
<1> QED BY <1>2, <1>4 DEF after

\* Every word of the stack has a bit, when the stack is a number of frames, as
\* one of full pages is.
THEOREM FramesCoverStack ==
    ASSUME NEW a \in Nat, NEW size \in Nat, size % STACK_FRAME_SIZE = 0
    PROVE  /\ Covered(a, FrameCount(size)) = a .. a + size - 1
           /\ NewBitmap(size) \in Bitmaps(FrameCount(size))
           /\ TraceRoots(NewBitmap(size), a) = {}
<1>1. STACK_FRAME_SIZE * FrameCount(size) = size
  BY DEF FrameCount, STACK_FRAME_SIZE
<1>2. NewBitmap(size) \in Bitmaps(FrameCount(size))
  BY DEF NewBitmap, Bitmaps
<1>3. TraceRoots(NewBitmap(size), a) = {}
  BY DEF TraceRoots, NewBitmap
<1> QED BY <1>1, <1>2, <1>3 DEF Covered

-----------------------------------------------------------------------------
(* Cells                                                                   *)

CellSet(b) == {b + k * cell_size : k \in 0..N-1}

\* The cell of a number has that number.
LEMMA CellNumber ==
    ASSUME NEW b \in Blocks, NEW k \in 0..N-1
    PROVE  /\ b \in Nat /\ k * cell_size \in Nat
           /\ b + k * cell_size \in Nat
           /\ (b + k * cell_size - b) \div cell_size = k
           /\ b <= b + k * cell_size /\ b + k * cell_size + cell_size <= b + ChunkSize
<1>1. b \in Nat
  BY BlocksAssumption DEF Chunks
<1>2. k * cell_size = cell_size * k /\ k * cell_size \in Nat /\ k \in Nat
  BY BitsetAssumption, CellSizeAssumption
<1> DEFINE d == k * cell_size
<1>3. d = cell_size * k + 0 /\ d \in Nat
  BY <1>2, CellSizeAssumption
<1>4. d \div cell_size = k
  <2>1. 0 \in 0..cell_size-1
    BY CellSizeAssumption
  <2> HIDE DEF d
  <2> QED BY <1>2, <1>3, <2>1, CellSizeAssumption, DivisionUnique
<1>5. d + cell_size <= ChunkSize /\ ChunkSize \in Nat
  <2>1. cell_size * k + cell_size <= cell_size * N
    BY <1>2, BitsetAssumption, CellSizeAssumption, Multiples
  <2>2. cell_size * N \in Nat
    BY BitsetAssumption, CellSizeAssumption
  <2> QED BY <1>2, <2>1, <2>2, CellSizeAssumption DEF ChunkSize, CHUNK_MAXSIZE
<1> HIDE DEF d
<1>6. b + d \in Nat /\ b + d - b = d /\ b <= b + d /\ b + d + cell_size <= b + ChunkSize
  BY <1>1, <1>3, <1>5, CellSizeAssumption
<1> QED BY <1>1, <1>3, <1>4, <1>6 DEF d

LEMMA CellsOfIs ==
    ASSUME NEW descr, descr.m_memory \in Blocks, descr.m_size = ChunkSize
    PROVE  /\ MemoryRange(descr) = [i \in 1..N |-> descr.m_memory + (i - 1) * cell_size]
           /\ CellsOf(descr) = CellSet(descr.m_memory)
<1>1. ChunkSize \div cell_size = N
  <2>1. ChunkSize = cell_size * N + 0 /\ ChunkSize \in Nat /\ 0 \in 0..cell_size-1
    BY BitsetAssumption, CellSizeAssumption DEF ChunkSize, CHUNK_MAXSIZE
  <2> QED BY <2>1, BitsetAssumption, CellSizeAssumption, DivisionUnique
<1>2. MemoryRange(descr) = [i \in 1..N |-> descr.m_memory + (i - 1) * cell_size]
  BY <1>1 DEF MemoryRange
<1>3. CellsOf(descr) = {descr.m_memory + (i - 1) * cell_size : i \in 1..N}
  BY <1>2 DEF CellsOf, ToSet
<1>4. ASSUME NEW b PROVE {b + (i - 1) * cell_size : i \in 1..N} = CellSet(b)
  <2>1. ASSUME NEW i \in 1..N PROVE b + (i - 1) * cell_size \in CellSet(b)
    <3>1. i - 1 \in 0..N-1
      BY BitsetAssumption
    <3> QED BY <3>1 DEF CellSet
  <2>2. ASSUME NEW k \in 0..N-1
        PROVE  b + k * cell_size \in {b + (i - 1) * cell_size : i \in 1..N}
    <3>1. k + 1 \in 1..N /\ (k + 1) - 1 = k
      BY BitsetAssumption
    <3> QED BY <3>1
  <2> QED BY <2>1, <2>2 DEF CellSet
<1> QED BY <1>2, <1>3, <1>4

LEMMA CellsAre == Cells = UNION {CellSet(b) : b \in Blocks}
<1>1. \A b \in Blocks : CellsOf(NewDescriptor(b)) = CellSet(b)
  BY CellsOfIs DEF NewDescriptor
<1> QED BY <1>1 DEF Cells

\* Blocks do not overlap: an address is in one of them.
LEMMA CellInOne ==
    ASSUME NEW b \in Blocks, NEW c \in Blocks, NEW p \in CellSet(c)
    PROVE  /\ p \in Nat
           /\ b <= p /\ p < b + ChunkSize <=> b = c
           /\ p \in CellSet(b) => b = c
<1>1. PICK k \in 0..N-1 : p = c + k * cell_size
  BY DEF CellSet
<1>2. p \in Nat /\ c \in Nat /\ c <= p /\ p + cell_size <= c + ChunkSize
  BY <1>1, CellNumber
<1>3. b \in Nat /\ ChunkSize \in Nat /\ cell_size \in Nat \ {0}
  BY BlocksAssumption, BitsetAssumption, CellSizeAssumption DEF Chunks, ChunkSize, CHUNK_MAXSIZE
<1>4. b = c \/ b + ChunkSize <= c \/ c + ChunkSize <= b
  BY BlocksAssumption
<1>5. b <= p /\ p < b + ChunkSize <=> b = c
  BY <1>2, <1>3, <1>4
<1>6. ASSUME p \in CellSet(b) PROVE b = c
  <2>1. PICK j \in 0..N-1 : p = b + j * cell_size
    BY <1>6 DEF CellSet
  <2>2. b <= p /\ p + cell_size <= b + ChunkSize
    BY <2>1, CellNumber
  <2> QED BY <1>2, <1>3, <1>5, <2>2
<1> QED BY <1>2, <1>5, <1>6

LEMMA InChunkIs ==
    ASSUME NEW descr \in Descrs, NEW p \in Cells
    PROVE  InChunk(descr, p) <=> p \in CellSet(descr.m_memory)
<1>1. PICK c \in Blocks : p \in CellSet(c)
  BY CellsAre
<1>2. descr.m_memory \in Blocks /\ descr.m_size = ChunkSize
  BY DEF Descrs
<1> QED BY <1>1, <1>2, CellInOne DEF InChunk

\* What the bits of the cells say after an operation on one of them.
LEMMA Bits1 ==
    ASSUME NEW descr \in Descrs, NEW p \in CellSet(descr.m_memory)
    PROVE  /\ CalcCellInd(descr, p) \in 0..N-1
           /\ p = descr.m_memory + CalcCellInd(descr, p) * cell_size
<1>1. PICK k \in 0..N-1 : p = descr.m_memory + k * cell_size
  BY DEF CellSet
<1>2. descr.m_memory \in Blocks
  BY DEF Descrs
<1> QED BY <1>1, <1>2, CellNumber DEF CalcCellInd

LEMMA SetMarkCell ==
    ASSUME NEW descr \in Descrs, NEW q \in CellSet(descr.m_memory)
    PROVE  /\ SetMark(descr, q) \in Descrs
           /\ SetMark(descr, q).m_memory = descr.m_memory
           /\ \A p \in CellSet(descr.m_memory) :
                 /\ GetMark(SetMark(descr, q), p) <=> GetMark(descr, p) \/ p = q
                 /\ IsInit(SetMark(descr, q), p) <=> IsInit(descr, p)
<1> DEFINE j == CalcCellInd(descr, q)
           after == SetMark(descr, q)
<1>1. j \in 0..N-1 /\ q = descr.m_memory + j * cell_size
  BY Bits1
<1>2. /\ after = [m_memory |-> descr.m_memory, m_size |-> descr.m_size,
                  m_mark_bits |-> Set(descr.m_mark_bits, j), m_init_bits |-> descr.m_init_bits]
      /\ descr.m_mark_bits \in Bitsets
  BY DEF Descrs, SetMark, SetTo
<1>3. /\ Set(descr.m_mark_bits, j) \in Bitsets
      /\ Bits(Set(descr.m_mark_bits, j)) = Bits(descr.m_mark_bits) \cup {j}
  BY <1>1, <1>2, SetInserts
<1>4. after \in Descrs /\ after.m_memory = descr.m_memory
  BY <1>2, <1>3 DEF Descrs
<1>5. ASSUME NEW p \in CellSet(descr.m_memory)
      PROVE  /\ GetMark(after, p) <=> GetMark(descr, p) \/ p = q
             /\ IsInit(after, p) <=> IsInit(descr, p)
  <2> DEFINE i == CalcCellInd(descr, p)
  <2>1. i \in 0..N-1 /\ p = descr.m_memory + i * cell_size
    BY Bits1
  <2>2. CalcCellInd(after, p) = i
    BY <1>4 DEF CalcCellInd
  <2>3. GetBit(Set(descr.m_mark_bits, j), i) <=> GetBit(descr.m_mark_bits, i) \/ i = j
    BY <1>3, <2>1 DEF Bits
  <2>4. GetMark(after, p) <=> GetBit(Set(descr.m_mark_bits, j), i)
    BY <1>2, <2>2 DEF GetMark
  <2>5. IsInit(after, p) <=> IsInit(descr, p)
    BY <1>2, <2>2 DEF IsInit
  <2> QED BY <1>1, <2>1, <2>3, <2>4, <2>5 DEF GetMark
<1> QED BY <1>4, <1>5

LEMMA SetInitCell ==
    ASSUME NEW descr \in Descrs, NEW q \in CellSet(descr.m_memory), NEW init \in BOOLEAN
    PROVE  /\ SetInit(descr, q, init) \in Descrs
           /\ SetInit(descr, q, init).m_memory = descr.m_memory
           /\ \A p \in CellSet(descr.m_memory) :
                 /\ GetMark(SetInit(descr, q, init), p) <=> GetMark(descr, p)
                 /\ IsInit(SetInit(descr, q, init), p) <=> IF p = q THEN init ELSE IsInit(descr, p)
<1> DEFINE j == CalcCellInd(descr, q)
           after == SetInit(descr, q, init)
           bits == SetTo(descr.m_init_bits, j, init)
<1>1. j \in 0..N-1 /\ q = descr.m_memory + j * cell_size
  BY Bits1
<1>2. /\ after = [m_memory |-> descr.m_memory, m_size |-> descr.m_size,
                  m_mark_bits |-> descr.m_mark_bits, m_init_bits |-> bits]
      /\ descr.m_init_bits \in Bitsets
  BY DEF Descrs, SetInit
<1>3. /\ bits \in Bitsets
      /\ Bits(bits) = IF init THEN Bits(descr.m_init_bits) \cup {j} ELSE Bits(descr.m_init_bits) \ {j}
  BY <1>1, <1>2, SetInserts, ResetRemoves DEF SetTo
<1>4. after \in Descrs /\ after.m_memory = descr.m_memory
  BY <1>2, <1>3 DEF Descrs
<1>5. ASSUME NEW p \in CellSet(descr.m_memory)
      PROVE  /\ GetMark(after, p) <=> GetMark(descr, p)
             /\ IsInit(after, p) <=> IF p = q THEN init ELSE IsInit(descr, p)
  <2> DEFINE i == CalcCellInd(descr, p)
  <2>1. i \in 0..N-1 /\ p = descr.m_memory + i * cell_size
    BY Bits1
  <2>2. CalcCellInd(after, p) = i
    BY <1>4 DEF CalcCellInd
  <2>3. GetBit(bits, i) <=> IF i = j THEN init ELSE GetBit(descr.m_init_bits, i)
    BY <1>3, <2>1 DEF Bits
  <2>4. IsInit(after, p) <=> GetBit(bits, i)
    BY <1>2, <2>2 DEF IsInit
  <2>5. GetMark(after, p) <=> GetMark(descr, p)
    BY <1>2, <2>2 DEF GetMark
  <2> QED BY <1>1, <2>1, <2>3, <2>4, <2>5 DEF IsInit
<1> QED BY <1>4, <1>5

LEMMA UnmarkCells ==
    ASSUME NEW descr \in Descrs
    PROVE  /\ Unmark(descr) \in Descrs
           /\ Unmark(descr).m_memory = descr.m_memory
           /\ \A p \in CellSet(descr.m_memory) :
                 ~GetMark(Unmark(descr), p) /\ (IsInit(Unmark(descr), p) <=> IsInit(descr, p))
<1>1. Unmark(descr) = [m_memory |-> descr.m_memory, m_size |-> descr.m_size,
                       m_mark_bits |-> ResetAll, m_init_bits |-> descr.m_init_bits]
  BY DEF Unmark, Descrs
<1>2. Unmark(descr) \in Descrs /\ Unmark(descr).m_memory = descr.m_memory
  BY <1>1, NoBitNone DEF Descrs
<1>3. ASSUME NEW p \in CellSet(descr.m_memory)
      PROVE  ~GetMark(Unmark(descr), p) /\ (IsInit(Unmark(descr), p) <=> IsInit(descr, p))
  <2>1. CalcCellInd(descr, p) \in 0..N-1
    BY Bits1
  <2>2. CalcCellInd(Unmark(descr), p) = CalcCellInd(descr, p)
    BY <1>2 DEF CalcCellInd
  <2> QED BY <1>1, <2>1, <2>2, NoBitNone DEF GetMark, IsInit, Bits
<1> QED BY <1>2, <1>3

LEMMA UnusedCells ==
    ASSUME NEW descr \in Descrs, Unused(descr), NEW p \in CellSet(descr.m_memory)
    PROVE  ~GetMark(descr, p)
<1>1. descr.m_mark_bits \in Bitsets
  BY DEF Descrs
<1> QED BY <1>1, Bits1, NoBitNone DEF Unused, GetMark, Bits

LEMMA NewCells ==
    ASSUME NEW b \in Blocks
    PROVE  /\ NewDescriptor(b) \in Descrs /\ NewDescriptor(b).m_memory = b
           /\ \A p \in CellSet(b) : ~GetMark(NewDescriptor(b), p) /\ ~IsInit(NewDescriptor(b), p)
<1>1. NewDescriptor(b) \in Descrs /\ NewDescriptor(b).m_memory = b
  BY NoBitNone DEF NewDescriptor, Descrs
<1>2. ASSUME NEW p \in CellSet(b) PROVE ~GetMark(NewDescriptor(b), p) /\ ~IsInit(NewDescriptor(b), p)
  <2>1. CalcCellInd(NewDescriptor(b), p) \in 0..N-1
    BY <1>1, Bits1
  <2> QED BY <2>1, NoBitNone DEF NewDescriptor, GetMark, IsInit, Bits
<1> QED BY <1>1, <1>2

-----------------------------------------------------------------------------
(* Folds                                                                   *)
(*                                                                         *)
(* The folds of the library are the value at S of a function that CHOOSE   *)
(* takes from those that satisfy the recursive equation.  With the steps   *)
(* of a fold as a function F such a function exists, its values are of the *)
(* type of the steps, and what the fold returns is found by induction over *)
(* the size of the set.                                                    *)

\* Induction over the numbers of a set.
LEMMA NatInd ==
    ASSUME NEW S, 0 \in S, \A n \in Nat : n \in S => n+1 \in S
    PROVE  Nat \subseteq S
<1>1. SUFFICES ASSUME Nat \ S # {} PROVE FALSE
  OBVIOUS
<1>2. IsWellFoundedOn({ss \in Nat \X Nat : ss[1] < ss[2]}, Nat)
  BY NatLessThanWellFounded DEF OpToRel
<1>3. PICK x \in Nat \ S : \A y \in Nat \ S : <<y, x>> \notin {ss \in Nat \X Nat : ss[1] < ss[2]}
  BY <1>1, <1>2, WFMin
<1>4. x # 0 /\ x-1 \in Nat /\ (x-1)+1 = x
  OBVIOUS
<1>5. <<x-1, x>> \in {ss \in Nat \X Nat : ss[1] < ss[2]}
  BY <1>4
<1>6. x - 1 \in S
  BY <1>3, <1>4, <1>5
<1> QED BY <1>4, <1>6

Picks(c, S) == \A s \in SUBSET S : s # {} => c[s] \in s
Folds(F, c, base, S, g) ==
    /\ g = [s \in SUBSET S |-> g[s]]
    /\ \A s \in SUBSET S : g[s] = IF s = {} THEN base ELSE F[c[s]][g[s \ {c[s]}]]

\* What holds for the empty set, and for a set if for all but one element, holds.
LEMMA FoldInd ==
    ASSUME NEW S, IsFiniteSet(S), NEW c, Picks(c, S), NEW P, {} \in P,
           \A s \in SUBSET S : s # {} /\ s \ {c[s]} \in P => s \in P
    PROVE  SUBSET S \subseteq P
<1> DEFINE Q == {n \in Nat : \A s \in SUBSET S : Cardinality(s) = n => s \in P}
<1>1. \A s \in SUBSET S : IsFiniteSet(s) /\ Cardinality(s) \in Nat
  BY FS_Subset, FS_CardinalityType
<1>2. 0 \in Q
  BY <1>1, FS_EmptySet
<1>3. ASSUME NEW n \in Nat, n \in Q PROVE n+1 \in Q
  <2>1. SUFFICES ASSUME NEW s \in SUBSET S, Cardinality(s) = n+1 PROVE s \in P
    OBVIOUS
  <2>2. s # {}
    BY <2>1, FS_EmptySet
  <2>3. c[s] \in s
    BY <2>2 DEF Picks
  <2>4. Cardinality(s \ {c[s]}) = n
    <3>1. Cardinality(s \ {c[s]}) = Cardinality(s) - 1
      BY <2>3, <1>1, FS_RemoveElement
    <3> QED BY <3>1, <2>1
  <2> QED BY <2>2, <2>4, <1>3
<1> HIDE DEF Q
<1>4. Nat \subseteq Q
  BY <1>2, <1>3, NatInd
<1> QED BY <1>1, <1>4 DEF Q

LEMMA FoldExists ==
    ASSUME NEW S, IsFiniteSet(S), NEW c, Picks(c, S), NEW D, NEW base \in D,
           NEW F \in [S -> [D -> D]]
    PROVE  \E g \in [SUBSET S -> D] : Folds(F, c, base, S, g)
<1> DEFINE Small(n) == {s \in SUBSET S : Cardinality(s) <= n}
           Rec(g, s) == IF s = {} THEN base ELSE F[c[s]][g[s \ {c[s]}]]
           Good(n, g) == g \in [Small(n) -> D] /\ \A s \in Small(n) : g[s] = Rec(g, s)
           Q == {n \in Nat : \E g : Good(n, g)}
<1>1. \A s \in SUBSET S : IsFiniteSet(s) /\ Cardinality(s) \in Nat
  BY FS_Subset, FS_CardinalityType
<1>2. \A s \in SUBSET S : s # {} =>
          /\ c[s] \in S /\ s \ {c[s]} \in SUBSET S
          /\ Cardinality(s \ {c[s]}) = Cardinality(s) - 1
  <2> SUFFICES ASSUME NEW s \in SUBSET S, s # {}
               PROVE  /\ c[s] \in S /\ s \ {c[s]} \in SUBSET S
                      /\ Cardinality(s \ {c[s]}) = Cardinality(s) - 1
    OBVIOUS
  <2> DEFINE e == c[s]
  <2>1. e \in s
    BY DEF Picks
  <2> HIDE DEF e
  <2>2. e \in S /\ s \ {e} \in SUBSET S /\ Cardinality(s \ {e}) = Cardinality(s) - 1
    BY <2>1, <1>1, FS_RemoveElement
  <2> QED BY <2>2 DEF e
<1>3. 0 \in Q
  <2> DEFINE g == [s \in Small(0) |-> base]
  <2>1. \A s \in Small(0) : s = {}
    BY <1>1, FS_EmptySet
  <2>2. g \in [Small(0) -> D] /\ \A s \in Small(0) : g[s] = Rec(g, s)
    BY <2>1
  <2>3. Good(0, g)
    BY <2>2
  <2> HIDE DEF g, Good
  <2> QED BY <2>3
<1>4. ASSUME NEW n \in Nat, n \in Q PROVE n+1 \in Q
  <2>1. PICK g : Good(n, g)
    BY <1>4
  <2> DEFINE h == [s \in Small(n+1) |-> Rec(g, s)]
  <2>2. \A s \in Small(n+1) : s # {} => s \ {c[s]} \in Small(n) /\ s \ {c[s]} \in Small(n+1)
    BY <1>1, <1>2
  <2>3. Small(n) \subseteq Small(n+1)
    BY <1>1
  <2>4. h \in [Small(n+1) -> D]
    <3> SUFFICES ASSUME NEW s \in Small(n+1), s # {} PROVE F[c[s]][g[s \ {c[s]}]] \in D
      OBVIOUS
    <3>1. F[c[s]] \in [D -> D]
      BY <1>2
    <3>2. g[s \ {c[s]}] \in D
      BY <2>1, <2>2
    <3> QED BY <3>1, <3>2
  <2>5. \A s \in Small(n) : h[s] = g[s]
    BY <2>1, <2>3
  <2>6. \A s \in Small(n+1) : h[s] = Rec(h, s)
    BY <2>2, <2>5
  <2>7. Good(n+1, h)
    BY <2>4, <2>6
  <2> HIDE DEF h, Good
  <2> QED BY <2>7
<1> HIDE DEF Q
<1>5. Cardinality(S) \in Q
  BY <1>3, <1>4, NatInd, <1>1
<1>6. PICK g : Good(Cardinality(S), g)
  BY <1>5 DEF Q
<1>7. Small(Cardinality(S)) = SUBSET S
  BY <1>1, FS_Subset
<1>8. g \in [SUBSET S -> D] /\ \A s \in SUBSET S : g[s] = Rec(g, s)
  BY <1>6, <1>7
<1>9. Folds(F, c, base, S, g)
  BY <1>8 DEF Folds
<1> QED BY <1>8, <1>9

LEMMA FoldTyped ==
    ASSUME NEW S, IsFiniteSet(S), NEW c, Picks(c, S), NEW D, NEW base \in D,
           NEW F, \A x \in S, a \in D : F[x][a] \in D,
           NEW g, Folds(F, c, base, S, g)
    PROVE  g \in [SUBSET S -> D]
<1> DEFINE P == {s \in SUBSET S : g[s] \in D}
<1>1. \A s \in SUBSET S : g[s] = IF s = {} THEN base ELSE F[c[s]][g[s \ {c[s]}]]
  BY DEF Folds
<1>2. {} \in P
  BY <1>1
<1>3. ASSUME NEW s \in SUBSET S, s # {}, s \ {c[s]} \in P PROVE s \in P
  <2>1. c[s] \in S /\ g[s \ {c[s]}] \in D
    BY <1>3 DEF Picks
  <2>2. g[s] = F[c[s]][g[s \ {c[s]}]]
    BY ONLY <1>1, <1>3
  <2>3. g[s] \in D
    BY ONLY <2>1, <2>2, \A x \in S, a \in D : F[x][a] \in D
  <2> QED BY ONLY <2>3, s \in SUBSET S
<1> HIDE DEF P
<1>4. SUBSET S \subseteq P
  BY <1>2, <1>3, FoldInd
<1> QED BY <1>4 DEF P, Folds

LEMMA MaxIn ==
    ASSUME NEW S, IsFiniteSet(S), S \subseteq Int, S # {}
    PROVE  Max(S) \in S /\ \A y \in S : y <= Max(S)
<1>1. PICK c : Picks(c, S)
  <2> DEFINE d == [s \in SUBSET S |-> CHOOSE x \in s : TRUE]
  <2>1. Picks(d, S)
    BY DEF Picks
  <2> HIDE DEF d
  <2> QED BY <2>1
<1> DEFINE P == {s \in SUBSET S : s # {} => \E x \in s : \A y \in s : x >= y}
<1>2. {} \in P
  OBVIOUS
<1>3. ASSUME NEW s \in SUBSET S, s # {}, s \ {c[s]} \in P PROVE s \in P
  <2>1. c[s] \in s /\ c[s] \in Int
    BY <1>1, <1>3 DEF Picks
  <2> DEFINE e == c[s]
  <2> HIDE DEF e
  <2>2. CASE s \ {e} = {}
    <3>1. s = {e}
      BY <2>2, <2>1 DEF e
    <3> QED BY <3>1, <2>1 DEF e
  <2>3. CASE s \ {e} # {}
    <3>1. PICK x \in s \ {e} : \A y \in s \ {e} : x >= y
      BY <1>3, <2>3 DEF e
    <3>2. x \in Int /\ e \in Int /\ e \in s
      BY <2>1 DEF e
    <3>3. CASE x >= e
      <4>1. \A y \in s : x >= y
        BY <3>1, <3>3
      <4> QED BY <4>1, <3>1
    <3>4. CASE ~(x >= e)
      <4>1. \A y \in s : e >= y
        BY <3>1, <3>2, <3>4
      <4> QED BY <4>1, <3>2
    <3> QED BY <3>3, <3>4
  <2> QED BY <2>2, <2>3
<1> HIDE DEF P
<1>4. SUBSET S \subseteq P
  <2>1. \A s \in SUBSET S : s # {} /\ s \ {c[s]} \in P => s \in P
    BY <1>3
  <2>2. IsFiniteSet(S)
    OBVIOUS
  <2> QED BY ONLY <1>1, <1>2, <2>1, <2>2, FoldInd
<1>5. \E x \in S : \A y \in S : x >= y
  BY <1>4 DEF P
<1>6. Max(S) \in S /\ \A y \in S : Max(S) >= y
  BY <1>5 DEF Max
<1> QED BY <1>6

Largest(c, S) == \A s \in SUBSET S : c[s] = Max(s)
Chain(F, base, n, h) == h[0] = base /\ \A k \in 1..n : h[k] = F[k][h[k-1]]

HasChain(F, base, n, D, last) ==
    \E h \in [0..n -> D] : Chain(F, base, n, h) /\ h[n] = last

\* A fold over the numbers up to n that takes the largest first is a chain.
LEMMA LeftFold ==
    ASSUME NEW n \in Nat, NEW S, S = 1..n, NEW D, NEW base \in D, NEW F,
           NEW c, Largest(c, S), NEW g \in [SUBSET S -> D], Folds(F, c, base, S, g)
    PROVE  HasChain(F, base, n, D, g[S])
<1> DEFINE h == [k \in 0..n |-> g[1..k]]
<1>1. h \in [0..n -> D]
  OBVIOUS
<1>2. \A s \in SUBSET (1..n) : g[s] = IF s = {} THEN base ELSE F[c[s]][g[s \ {c[s]}]]
  BY DEF Folds
<1>3. h[0] = base
  <2>1. 1..0 = {} /\ 0 \in 0..n
    OBVIOUS
  <2> QED BY <1>2, <2>1
<1>4. ASSUME NEW k \in 1..n PROVE h[k] = F[k][h[k-1]]
  <2>1. 1..k \in SUBSET (1..n) /\ 1..k # {} /\ k-1 \in 0..n
    <3>1. n \in Nat /\ k \in 1..n
      OBVIOUS
    <3> QED BY ONLY <3>1
  <2>2. IsFiniteSet(1..k) /\ 1..k \subseteq Int
    BY FS_Interval
  <2>3. Max(1..k) = k
    <3>1. Max(1..k) \in 1..k /\ \A y \in 1..k : y <= Max(1..k)
      BY <2>1, <2>2, MaxIn
    <3> DEFINE m == Max(1..k)
    <3> HIDE DEF m
    <3>2. m \in 1..k /\ k <= m
      BY <3>1 DEF m
    <3>3. m = k
      BY <3>2
    <3> QED BY <3>3 DEF m
  <2>4. (1..k) \ {k} = 1..(k-1)
    OBVIOUS
  <2>5. c[1..k] = k
    BY <2>1, <2>3 DEF Largest
  <2>6. g[1..k] = F[c[1..k]][g[(1..k) \ {c[1..k]}]]
    BY <1>2, <2>1
  <2>7. g[1..k] = F[k][g[1..(k-1)]]
    BY <2>1, <2>4, <2>5, <2>6
  <2>8. h[k] = g[1..k] /\ h[k-1] = g[1..(k-1)]
    BY <2>1
  <2> QED BY <2>7, <2>8
<1>5. h[n] = g[S]
  BY DEF h
<1> HIDE DEF h
<1>6. Chain(F, base, n, h)
  BY <1>3, <1>4 DEF Chain
<1> QED BY <1>1, <1>5, <1>6 DEF HasChain

-----------------------------------------------------------------------------
(* What a descriptor says of its cells.                                    *)

MarksOf(descr) == {p \in CellSet(descr.m_memory) : GetMark(descr, p)}
ObjectsOf(descr) == {p \in CellSet(descr.m_memory) : IsInit(descr, p)}
At(b) == {descr \in Descrs : descr.m_memory = b}

LEMMA CellSetFinite == ASSUME NEW b PROVE IsFiniteSet(CellSet(b))
<1> DEFINE f == [k \in 0..N-1 |-> b + k * cell_size]
<1>1. IsFiniteSet(0..N-1)
  BY FS_Interval, BitsetAssumption
<1>2. f \in Surjection(0..N-1, CellSet(b))
  <2>1. /\ \A k \in 0..N-1 : f[k] \in CellSet(b)
        /\ \A p \in CellSet(b) : \E k \in 0..N-1 : f[k] = p
    BY DEF CellSet
  <2>2. f \in [0..N-1 -> CellSet(b)]
    BY <2>1
  <2> HIDE DEF f
  <2> QED BY <2>1, <2>2 DEF Surjection
<1> HIDE DEF f
<1> QED BY ONLY <1>1, <1>2, FS_Surjection

LEMMA MarkView ==
    ASSUME NEW descr \in Descrs, NEW q \in CellSet(descr.m_memory)
    PROVE  /\ SetMark(descr, q) \in At(descr.m_memory)
           /\ MarksOf(SetMark(descr, q)) = MarksOf(descr) \cup {q}
           /\ ObjectsOf(SetMark(descr, q)) = ObjectsOf(descr)
BY SetMarkCell DEF MarksOf, ObjectsOf, At

LEMMA CommitView ==
    ASSUME NEW descr \in Descrs, NEW q \in CellSet(descr.m_memory)
    PROVE  /\ CommitCell(descr, q) \in At(descr.m_memory)
           /\ MarksOf(CommitCell(descr, q)) = MarksOf(descr)
           /\ ObjectsOf(CommitCell(descr, q)) = ObjectsOf(descr) \cup {q}
<1> DEFINE after == CommitCell(descr, q)
<1>1. /\ after \in Descrs /\ after.m_memory = descr.m_memory
      /\ \A p \in CellSet(descr.m_memory) :
            /\ GetMark(after, p) <=> GetMark(descr, p)
            /\ IsInit(after, p) <=> IF p = q THEN TRUE ELSE IsInit(descr, p)
  BY SetInitCell DEF CommitCell
<1> HIDE DEF after
<1>2. after \in At(descr.m_memory) /\ MarksOf(after) = MarksOf(descr)
  BY <1>1 DEF At, MarksOf
<1>3. ObjectsOf(after) = ObjectsOf(descr) \cup {q}
  BY <1>1 DEF ObjectsOf
<1> QED BY <1>2, <1>3 DEF after

LEMMA FinalizeView ==
    ASSUME NEW descr \in Descrs, NEW q \in CellSet(descr.m_memory)
    PROVE  /\ FinalizeCell(descr, q) \in At(descr.m_memory)
           /\ MarksOf(FinalizeCell(descr, q)) = MarksOf(descr)
           /\ ObjectsOf(FinalizeCell(descr, q)) = ObjectsOf(descr) \ {q}
<1> DEFINE after == FinalizeCell(descr, q)
<1>1. /\ after \in Descrs /\ after.m_memory = descr.m_memory
      /\ \A p \in CellSet(descr.m_memory) :
            /\ GetMark(after, p) <=> GetMark(descr, p)
            /\ IsInit(after, p) <=> IF p = q THEN FALSE ELSE IsInit(descr, p)
  BY SetInitCell DEF FinalizeCell
<1> HIDE DEF after
<1>2. after \in At(descr.m_memory) /\ MarksOf(after) = MarksOf(descr)
  BY <1>1 DEF At, MarksOf
<1>3. ObjectsOf(after) = ObjectsOf(descr) \ {q}
  BY <1>1 DEF ObjectsOf
<1> QED BY <1>2, <1>3 DEF after

LEMMA UnmarkView ==
    ASSUME NEW descr \in Descrs
    PROVE  /\ Unmark(descr) \in At(descr.m_memory)
           /\ MarksOf(Unmark(descr)) = {}
           /\ ObjectsOf(Unmark(descr)) = ObjectsOf(descr)
BY UnmarkCells DEF MarksOf, ObjectsOf, At

\* One operation on several cells, one after the other.
Ops == {"mark", "commit", "finalize"}
Apply(op, descr, p) ==
    CASE op = "mark" -> SetMark(descr, p)
      [] op = "commit" -> CommitCell(descr, p)
      [] op = "finalize" -> FinalizeCell(descr, p)
MarksAfter(op, descr, S) == IF op = "mark" THEN MarksOf(descr) \cup S ELSE MarksOf(descr)
ObjectsAfter(op, descr, S) ==
    CASE op = "mark" -> ObjectsOf(descr)
      [] op = "commit" -> ObjectsOf(descr) \cup S
      [] op = "finalize" -> ObjectsOf(descr) \ S

LEMMA ApplyView ==
    ASSUME NEW op \in Ops, NEW descr \in Descrs, NEW q \in CellSet(descr.m_memory)
    PROVE  /\ Apply(op, descr, q) \in At(descr.m_memory)
           /\ MarksOf(Apply(op, descr, q)) = MarksAfter(op, descr, {q})
           /\ ObjectsOf(Apply(op, descr, q)) = ObjectsAfter(op, descr, {q})
<1>1. CASE op = "mark"
  BY <1>1, MarkView DEF Apply, MarksAfter, ObjectsAfter
<1>2. CASE op = "commit"
  BY <1>2, CommitView DEF Apply, MarksAfter, ObjectsAfter
<1>3. CASE op = "finalize"
  BY <1>3, FinalizeView DEF Apply, MarksAfter, ObjectsAfter
<1> QED BY <1>1, <1>2, <1>3 DEF Ops

Iter(op, descr, S, g) ==
    /\ g = [s \in SUBSET S |-> g[s]]
    /\ \A s \in SUBSET S :
          g[s] = IF s = {} THEN descr
                 ELSE Apply(op, g[s \ {CHOOSE x \in s : TRUE}], CHOOSE x \in s : TRUE)

LEMMA IterExists ==
    ASSUME NEW op \in Ops, NEW descr \in Descrs, NEW S \in SUBSET CellSet(descr.m_memory)
    PROVE  \E g : Iter(op, descr, S, g)
<1> DEFINE D == At(descr.m_memory)
           c == [s \in SUBSET S |-> CHOOSE x \in s : TRUE]
           F == [p \in S |-> [d \in D |-> Apply(op, d, p)]]
<1>1. Picks(c, S)
  BY DEF Picks
<1>2. IsFiniteSet(S) /\ descr \in D
  BY CellSetFinite, FS_Subset DEF At
<1>3. \A p \in S, d \in D : Apply(op, d, p) \in D
  BY ApplyView DEF At
<1>4. F \in [S -> [D -> D]]
  BY <1>3
<1> HIDE DEF F, c, D
<1>5. PICK g \in [SUBSET S -> D] : Folds(F, c, descr, S, g)
  BY <1>1, <1>2, <1>4, FoldExists
<1>6. \A s \in SUBSET S : s # {} => c[s] \in S /\ g[s \ {c[s]}] \in D
  BY <1>1, <1>5 DEF Picks
<1>7. \A s \in SUBSET S : s # {} => F[c[s]][g[s \ {c[s]}]] = Apply(op, g[s \ {c[s]}], c[s])
  BY <1>6 DEF F
<1>8. /\ g = [s \in SUBSET S |-> g[s]]
      /\ \A s \in SUBSET S : g[s] = IF s = {} THEN descr ELSE Apply(op, g[s \ {c[s]}], c[s])
  BY ONLY <1>5, <1>7 DEF Folds
<1>9. Iter(op, descr, S, g)
  BY <1>8 DEF c, Iter
<1> QED BY <1>9

LEMMA IterView ==
    ASSUME NEW op \in Ops, NEW descr \in Descrs, NEW S \in SUBSET CellSet(descr.m_memory),
           NEW h, Iter(op, descr, S, h)
    PROVE  /\ h[S] \in At(descr.m_memory)
           /\ MarksOf(h[S]) = MarksAfter(op, descr, S)
           /\ ObjectsOf(h[S]) = ObjectsAfter(op, descr, S)
<1> DEFINE D == At(descr.m_memory)
           c == [s \in SUBSET S |-> CHOOSE x \in s : TRUE]
           F == [p \in S |-> [d \in D \cup {h[s] : s \in SUBSET S} |-> Apply(op, d, p)]]
<1>1. Picks(c, S)
  BY DEF Picks
<1>2. IsFiniteSet(S) /\ descr \in D
  BY CellSetFinite, FS_Subset DEF At
<1>3. \A p \in S, d \in D : Apply(op, d, p) \in D
  BY ApplyView DEF At
<1>4. /\ \A s \in SUBSET S : h[s] = IF s = {} THEN descr ELSE Apply(op, h[s \ {c[s]}], c[s])
      /\ h = [s \in SUBSET S |-> h[s]]
  BY DEF Iter
<1>5. h \in [SUBSET S -> D]
  <2>1. \A p \in S, d \in D : F[p][d] \in D
    BY <1>3
  <2>2. Folds(F, c, descr, S, h)
    <3> HIDE DEF c, D
    <3>1. \A s \in SUBSET S : s # {} => c[s] \in S /\ s \ {c[s]} \in SUBSET S
      BY <1>1 DEF Picks
    <3>2. \A s \in SUBSET S : s # {} => F[c[s]][h[s \ {c[s]}]] = Apply(op, h[s \ {c[s]}], c[s])
      BY <3>1
    <3> QED BY <1>4, <3>2 DEF Folds
  <2> HIDE DEF F, c, D
  <2> QED BY ONLY <1>1, <1>2, <2>1, <2>2, FoldTyped
<1> DEFINE P == {s \in SUBSET S : /\ MarksOf(h[s]) = MarksAfter(op, descr, s)
                                  /\ ObjectsOf(h[s]) = ObjectsAfter(op, descr, s)}
<1>6. {} \in P
  BY <1>4 DEF MarksAfter, ObjectsAfter, Ops
<1>7. \A s \in SUBSET S : s # {} /\ s \ {c[s]} \in P => s \in P
  <2> SUFFICES ASSUME NEW s \in SUBSET S, s # {}, s \ {c[s]} \in P PROVE s \in P
    OBVIOUS
  <2> DEFINE e == c[s]
             d == h[s \ {c[s]}]
  <2>1. e \in s
    BY <1>1 DEF Picks
  <2>2. d \in D /\ d \in Descrs /\ d.m_memory = descr.m_memory
    BY <1>5 DEF At
  <2>3. h[s] = Apply(op, d, e)
    BY <1>4
  <2>4. /\ MarksOf(d) = MarksAfter(op, descr, s \ {e})
        /\ ObjectsOf(d) = ObjectsAfter(op, descr, s \ {e})
    OBVIOUS
  <2> HIDE DEF d, e
  <2>5. /\ MarksOf(Apply(op, d, e)) = MarksAfter(op, d, {e})
        /\ ObjectsOf(Apply(op, d, e)) = ObjectsAfter(op, d, {e})
    BY <2>1, <2>2, ApplyView
  <2>6. MarksOf(h[s]) = MarksAfter(op, descr, s)
    BY <2>1, <2>3, <2>4, <2>5 DEF MarksAfter
  <2>7. ObjectsOf(h[s]) = ObjectsAfter(op, descr, s)
    BY <2>1, <2>3, <2>4, <2>5 DEF ObjectsAfter, Ops
  <2> QED BY <2>6, <2>7
<1> HIDE DEF P, c
<1>8. SUBSET S \subseteq P
  BY ONLY <1>1, <1>2, <1>6, <1>7, FoldInd
<1>9. S \in P
  BY <1>8
<1>10. MarksOf(h[S]) = MarksAfter(op, descr, S) /\ ObjectsOf(h[S]) = ObjectsAfter(op, descr, S)
  BY ONLY <1>9 DEF P
<1>11. h[S] \in D
  BY ONLY <1>5
<1> QED BY ONLY <1>10, <1>11

\* That is what FoldSet does with the operations, when their cells are not in order.
MarkEq(descr, S, g) ==
    g = [s \in SUBSET S |->
           IF s = {} THEN descr
           ELSE SetMark(g[s \ {CHOOSE x \in s : TRUE}], CHOOSE x \in s : TRUE)]

MarkRes(descr, S) == (CHOOSE g : MarkEq(descr, S, g))[S]

LEMMA MarkAll ==
    ASSUME NEW descr \in Descrs, NEW S \in SUBSET CellSet(descr.m_memory)
    PROVE  /\ MarkRes(descr, S) \in At(descr.m_memory)
           /\ MarksOf(MarkRes(descr, S)) = MarksOf(descr) \cup S
           /\ ObjectsOf(MarkRes(descr, S)) = ObjectsOf(descr)
<1> DEFINE h == CHOOSE g : MarkEq(descr, S, g)
<1>1. \A g : Iter("mark", descr, S, g) => MarkEq(descr, S, g)
  BY DEF Iter, Apply, MarkEq
<1>2. \A g : MarkEq(descr, S, g) => Iter("mark", descr, S, g)
  BY DEF Iter, Apply, MarkEq
<1>3. \E g : MarkEq(descr, S, g)
  BY <1>1, IterExists DEF Ops
<1>4. Iter("mark", descr, S, h)
  BY <1>2, <1>3
<1>5. MarkRes(descr, S) = h[S]
  BY DEF MarkRes
<1> HIDE DEF h
<1>6. /\ h[S] \in At(descr.m_memory)
      /\ MarksOf(h[S]) = MarksAfter("mark", descr, S)
      /\ ObjectsOf(h[S]) = ObjectsAfter("mark", descr, S)
  BY <1>4, IterView DEF Ops
<1> QED BY <1>5, <1>6 DEF MarksAfter, ObjectsAfter

CommitEq(descr, S, g) ==
    g = [s \in SUBSET S |->
           IF s = {} THEN descr
           ELSE CommitCell(g[s \ {CHOOSE x \in s : TRUE}], CHOOSE x \in s : TRUE)]

CommitRes(descr, S) == (CHOOSE g : CommitEq(descr, S, g))[S]

LEMMA CommitAll ==
    ASSUME NEW descr \in Descrs, NEW S \in SUBSET CellSet(descr.m_memory)
    PROVE  /\ CommitRes(descr, S) \in At(descr.m_memory)
           /\ MarksOf(CommitRes(descr, S)) = MarksOf(descr)
           /\ ObjectsOf(CommitRes(descr, S)) = ObjectsOf(descr) \cup S
<1> DEFINE h == CHOOSE g : CommitEq(descr, S, g)
<1>1. \A g : Iter("commit", descr, S, g) => CommitEq(descr, S, g)
  BY DEF Iter, Apply, CommitEq
<1>2. \A g : CommitEq(descr, S, g) => Iter("commit", descr, S, g)
  BY DEF Iter, Apply, CommitEq
<1>3. \E g : CommitEq(descr, S, g)
  BY <1>1, IterExists DEF Ops
<1>4. Iter("commit", descr, S, h)
  BY <1>2, <1>3
<1>5. CommitRes(descr, S) = h[S]
  BY DEF CommitRes
<1> HIDE DEF h
<1>6. /\ h[S] \in At(descr.m_memory)
      /\ MarksOf(h[S]) = MarksAfter("commit", descr, S)
      /\ ObjectsOf(h[S]) = ObjectsAfter("commit", descr, S)
  BY <1>4, IterView DEF Ops
<1> QED BY <1>5, <1>6 DEF MarksAfter, ObjectsAfter

FinalizeEq(descr, S, g) ==
    g = [s \in SUBSET S |->
           IF s = {} THEN descr
           ELSE FinalizeCell(g[s \ {CHOOSE x \in s : TRUE}], CHOOSE x \in s : TRUE)]

FinalizeRes(descr, S) == (CHOOSE g : FinalizeEq(descr, S, g))[S]

LEMMA FinalizeAll ==
    ASSUME NEW descr \in Descrs, NEW S \in SUBSET CellSet(descr.m_memory)
    PROVE  /\ FinalizeRes(descr, S) \in At(descr.m_memory)
           /\ MarksOf(FinalizeRes(descr, S)) = MarksOf(descr)
           /\ ObjectsOf(FinalizeRes(descr, S)) = ObjectsOf(descr) \ S
<1> DEFINE h == CHOOSE g : FinalizeEq(descr, S, g)
<1>1. \A g : Iter("finalize", descr, S, g) => FinalizeEq(descr, S, g)
  BY DEF Iter, Apply, FinalizeEq
<1>2. \A g : FinalizeEq(descr, S, g) => Iter("finalize", descr, S, g)
  BY DEF Iter, Apply, FinalizeEq
<1>3. \E g : FinalizeEq(descr, S, g)
  BY <1>1, IterExists DEF Ops
<1>4. Iter("finalize", descr, S, h)
  BY <1>2, <1>3
<1>5. FinalizeRes(descr, S) = h[S]
  BY DEF FinalizeRes
<1> HIDE DEF h
<1>6. /\ h[S] \in At(descr.m_memory)
      /\ MarksOf(h[S]) = MarksAfter("finalize", descr, S)
      /\ ObjectsOf(h[S]) = ObjectsAfter("finalize", descr, S)
  BY <1>4, IterView DEF Ops
<1> QED BY <1>5, <1>6 DEF MarksAfter, ObjectsAfter

-----------------------------------------------------------------------------
(* The descriptors of an allocator                                         *)

\* No two descriptors are of one block.
Distinct(ds) == \A i, j \in DOMAIN ds : ds[i].m_memory = ds[j].m_memory => i = j

MarkedIn(ds) == UNION {MarksOf(d) : d \in ToSet(ds)}
ObjectsIn(ds) == UNION {ObjectsOf(d) : d \in ToSet(ds)}
BlksOf(ds) == {d.m_memory : d \in ToSet(ds)}
HeldIn(ds) == UNION {CellSet(b) : b \in BlksOf(ds)}

LEMMA ElementsAre ==
    ASSUME NEW ds \in Seq(Descrs), NEW d \in ToSet(ds)
    PROVE  d \in Descrs /\ d.m_memory \in Blocks /\ \E i \in DOMAIN ds : d = ds[i]
<1>1. d \in Descrs /\ \E i \in DOMAIN ds : d = ds[i]
  BY DEF ToSet
<1> QED BY <1>1 DEF Descrs

LEMMA InDescrs ==
    ASSUME NEW ds \in Seq(Descrs)
    PROVE  /\ MarkedIn(ds) \subseteq HeldIn(ds) /\ ObjectsIn(ds) \subseteq HeldIn(ds)
           /\ HeldIn(ds) \subseteq Cells
<1>1. MarkedIn(ds) \subseteq HeldIn(ds) /\ ObjectsIn(ds) \subseteq HeldIn(ds)
  BY DEF MarkedIn, ObjectsIn, HeldIn, BlksOf, MarksOf, ObjectsOf
<1>2. HeldIn(ds) \subseteq Cells
  BY ElementsAre, CellsAre DEF HeldIn, BlksOf
<1> QED BY <1>1, <1>2

\* A cell is of one descriptor.
LEMMA OneDescr ==
    ASSUME NEW ds \in Seq(Descrs), Distinct(ds), NEW d \in ToSet(ds), NEW e \in ToSet(ds),
           NEW p \in CellSet(d.m_memory), p \in CellSet(e.m_memory)
    PROVE  d = e
<1>1. d.m_memory \in Blocks /\ e.m_memory \in Blocks
  BY ElementsAre
<1>2. d.m_memory = e.m_memory
  BY <1>1, CellInOne
<1>3. PICK i \in DOMAIN ds : d = ds[i]
  BY ElementsAre
<1>4. PICK j \in DOMAIN ds : e = ds[j]
  BY ElementsAre
<1> QED BY <1>2, <1>3, <1>4 DEF Distinct

\* set_mark and commit for a set of cells.
MarkedDescrs(ds, S) == Update(ds, SetMark, S)
CommittedDescrs(ds, S) == Update(ds, CommitCell, S)

LEMMA MarkedOne ==
    ASSUME NEW ds \in Seq(Descrs), NEW S \in SUBSET Cells, NEW i \in DOMAIN ds
    PROVE  LET d == MarkedDescrs(ds, S)[i]
               b == ds[i].m_memory IN
           /\ d \in At(b) /\ MarksOf(d) = MarksOf(ds[i]) \cup (S \cap CellSet(b))
           /\ ObjectsOf(d) = ObjectsOf(ds[i])
<1> DEFINE T == {p \in S : InChunk(ds[i], p)}
<1>1. ds[i] \in Descrs
  OBVIOUS
<1>2. T = S \cap CellSet(ds[i].m_memory)
  BY <1>1, InChunkIs
<1>3. MarkedDescrs(ds, S)[i] = MarkRes(ds[i], T)
  BY DEF MarkedDescrs, Update, FoldSet, MapThenFoldSet, MarkRes, MarkEq
<1> HIDE DEF T
<1> QED BY <1>1, <1>2, <1>3, MarkAll

LEMMA CommittedOne ==
    ASSUME NEW ds \in Seq(Descrs), NEW S \in SUBSET Cells, NEW i \in DOMAIN ds
    PROVE  LET d == CommittedDescrs(ds, S)[i]
               b == ds[i].m_memory IN
           /\ d \in At(b) /\ MarksOf(d) = MarksOf(ds[i])
           /\ ObjectsOf(d) = ObjectsOf(ds[i]) \cup (S \cap CellSet(b))
<1> DEFINE T == {p \in S : InChunk(ds[i], p)}
<1>1. ds[i] \in Descrs
  OBVIOUS
<1>2. T = S \cap CellSet(ds[i].m_memory)
  BY <1>1, InChunkIs
<1>3. CommittedDescrs(ds, S)[i] = CommitRes(ds[i], T)
  BY DEF CommittedDescrs, Update, FoldSet, MapThenFoldSet, CommitRes, CommitEq
<1> HIDE DEF T
<1> QED BY <1>1, <1>2, <1>3, CommitAll

\* Operations that leave each descriptor at its block leave the blocks.
LEMMA SameBlocks ==
    ASSUME NEW ds \in Seq(Descrs), NEW f, f = [i \in DOMAIN ds |-> f[i]],
           \A i \in DOMAIN ds : f[i] \in At(ds[i].m_memory)
    PROVE  /\ f \in Seq(Descrs) /\ DOMAIN f = DOMAIN ds /\ Len(f) = Len(ds)
           /\ ToSet(f) = {f[i] : i \in DOMAIN ds}
           /\ HeldIn(f) = HeldIn(ds)
           /\ BlksOf(f) = BlksOf(ds)
           /\ Distinct(ds) => Distinct(f)
<1>1. DOMAIN ds = 1..Len(ds) /\ Len(ds) \in Nat
  OBVIOUS
<1>2. \A i \in DOMAIN ds : f[i] \in Descrs /\ f[i].m_memory = ds[i].m_memory
  BY DEF At
<1>3. DOMAIN f = DOMAIN ds
  OBVIOUS
<1>4. f \in Seq(Descrs) /\ Len(f) = Len(ds)
  BY <1>1, <1>2, <1>3
<1>5. ToSet(f) = {f[i] : i \in DOMAIN ds} /\ ToSet(ds) = {ds[i] : i \in DOMAIN ds}
  BY <1>3 DEF ToSet
<1>6. BlksOf(f) = BlksOf(ds)
  <2>1. ASSUME NEW s PROVE BlksOf(s) = {s[i].m_memory : i \in DOMAIN s}
    BY DEF BlksOf, ToSet
  <2>2. {f[i].m_memory : i \in DOMAIN f} = {ds[i].m_memory : i \in DOMAIN ds}
    BY ONLY <1>2, <1>3
  <2> QED BY ONLY <2>1, <2>2
<1>7. HeldIn(f) = HeldIn(ds)
  BY <1>6 DEF HeldIn
<1>8. Distinct(ds) => Distinct(f)
  BY <1>2, <1>3 DEF Distinct
<1> QED BY <1>3, <1>4, <1>5, <1>6, <1>7, <1>8

SameBlks(ds, es) ==
    /\ es \in Seq(Descrs) /\ Len(es) = Len(ds) /\ DOMAIN es = DOMAIN ds
    /\ \A i \in DOMAIN ds : es[i].m_memory = ds[i].m_memory
    /\ HeldIn(es) = HeldIn(ds)
    /\ BlksOf(es) = BlksOf(ds)
    /\ Distinct(ds) => Distinct(es)

LEMMA MarkedAre ==
    ASSUME NEW ds \in Seq(Descrs), NEW S \in SUBSET Cells
    PROVE  LET es == MarkedDescrs(ds, S) IN
           /\ SameBlks(ds, es)
           /\ MarkedIn(es) = MarkedIn(ds) \cup (S \cap HeldIn(ds))
           /\ ObjectsIn(es) = ObjectsIn(ds)
<1> DEFINE es == MarkedDescrs(ds, S)
<1>1. es = [i \in DOMAIN ds |-> es[i]]
  BY DEF MarkedDescrs, Update
<1> HIDE DEF es
<1>2. \A i \in DOMAIN ds : /\ es[i] \in At(ds[i].m_memory)
                           /\ MarksOf(es[i]) = MarksOf(ds[i]) \cup (S \cap CellSet(ds[i].m_memory))
                           /\ ObjectsOf(es[i]) = ObjectsOf(ds[i])
  BY MarkedOne DEF es
<1>3. SameBlks(ds, es) /\ ToSet(es) = {es[i] : i \in DOMAIN ds}
  <2>1. \A i \in DOMAIN ds : es[i].m_memory = ds[i].m_memory
    BY <1>2 DEF At
  <2> QED BY <1>1, <1>2, <2>1, SameBlocks DEF SameBlks
<1>4. ToSet(ds) = {ds[i] : i \in DOMAIN ds}
  BY DEF ToSet
<1>5. MarkedIn(es) = MarkedIn(ds) \cup (S \cap HeldIn(ds))
  BY <1>2, <1>3, <1>4 DEF MarkedIn, HeldIn, BlksOf
<1>6. ObjectsIn(es) = ObjectsIn(ds)
  BY <1>2, <1>3, <1>4 DEF ObjectsIn
<1> QED BY <1>3, <1>5, <1>6 DEF es

LEMMA CommittedAre ==
    ASSUME NEW ds \in Seq(Descrs), NEW S \in SUBSET Cells
    PROVE  LET es == CommittedDescrs(ds, S) IN
           /\ SameBlks(ds, es)
           /\ MarkedIn(es) = MarkedIn(ds)
           /\ ObjectsIn(es) = ObjectsIn(ds) \cup (S \cap HeldIn(ds))
<1> DEFINE es == CommittedDescrs(ds, S)
<1>1. es = [i \in DOMAIN ds |-> es[i]]
  BY DEF CommittedDescrs, Update
<1> HIDE DEF es
<1>2. \A i \in DOMAIN ds : /\ es[i] \in At(ds[i].m_memory)
                           /\ MarksOf(es[i]) = MarksOf(ds[i])
                           /\ ObjectsOf(es[i]) = ObjectsOf(ds[i]) \cup (S \cap CellSet(ds[i].m_memory))
  BY CommittedOne DEF es
<1>3. SameBlks(ds, es) /\ ToSet(es) = {es[i] : i \in DOMAIN ds}
  <2>1. \A i \in DOMAIN ds : es[i].m_memory = ds[i].m_memory
    BY <1>2 DEF At
  <2> QED BY <1>1, <1>2, <2>1, SameBlocks DEF SameBlks
<1>4. ToSet(ds) = {ds[i] : i \in DOMAIN ds}
  BY DEF ToSet
<1>5. MarkedIn(es) = MarkedIn(ds)
  BY <1>2, <1>3, <1>4 DEF MarkedIn
<1>6. ObjectsIn(es) = ObjectsIn(ds) \cup (S \cap HeldIn(ds))
  BY <1>2, <1>3, <1>4 DEF ObjectsIn, HeldIn, BlksOf
<1> QED BY <1>3, <1>5, <1>6 DEF es

-----------------------------------------------------------------------------
(* What the loops over sequences compute, one element after the other.     *)

UsedEq(ds, g) ==
    g = [s \in SUBSET (DOMAIN ds) |->
           IF s = {} THEN <<>> ELSE (IF Unused(ds[Max(s)]) THEN g[s \ {Max(s)}] ELSE Append(g[s \ {Max(s)}], ds[Max(s)]))]

LEMMA UsedChain ==
    ASSUME NEW ds \in Seq(Descrs)
    PROVE  \E h \in [0..Len(ds) -> Seq(Descrs)] :
              /\ h[0] = <<>> /\ h[Len(ds)] = (CHOOSE g : UsedEq(ds, g))[DOMAIN ds]
              /\ \A k \in 1..Len(ds) : h[k] = (IF Unused(ds[k]) THEN h[k-1] ELSE Append(h[k-1], ds[k]))
<1> DEFINE n == Len(ds)
           D == Seq(Descrs)
           S == 1..n
           c == [s \in SUBSET S |-> Max(s)]
           h == CHOOSE g : UsedEq(ds, g)
           F == [k \in S |-> [a \in D |-> (IF Unused(ds[k]) THEN a ELSE Append(a, ds[k]))]]
           F1 == [k \in S |-> [a \in D \cup {h[s] : s \in SUBSET S} |-> (IF Unused(ds[k]) THEN a ELSE Append(a, ds[k]))]]
<1>1. n \in Nat /\ DOMAIN ds = S /\ IsFiniteSet(S) /\ S \subseteq Int
  BY FS_Interval
<1>2. Picks(c, S)
  <2> SUFFICES ASSUME NEW s \in SUBSET S, s # {} PROVE Max(s) \in s
    BY DEF Picks
  <2>1. IsFiniteSet(s) /\ s \subseteq Int
    BY <1>1, FS_Subset
  <2> QED BY <2>1, MaxIn
<1>3. <<>> \in D
  OBVIOUS
<1>4. \A k \in S, a \in D : (IF Unused(ds[k]) THEN a ELSE Append(a, ds[k])) \in D
  BY DEF S
<1>5. F \in [S -> [D -> D]]
  BY <1>4
<1>6. \E g : UsedEq(ds, g)
  <2> HIDE DEF F, c, D, S, h, n
  <2>1. PICK g \in [SUBSET S -> D] : Folds(F, c, <<>>, S, g)
    BY <1>1, <1>2, <1>3, <1>5, FoldExists
  <2>2. \A s \in SUBSET S : s # {} => c[s] \in S /\ g[s \ {c[s]}] \in D
    BY <1>2, <2>1 DEF Picks
  <2>3. \A s \in SUBSET S : s # {} => F[c[s]][g[s \ {c[s]}]] = (IF Unused(ds[c[s]]) THEN g[s \ {c[s]}] ELSE Append(g[s \ {c[s]}], ds[c[s]]))
    BY <2>2 DEF F
  <2>4. /\ g = [s \in SUBSET S |-> g[s]]
        /\ \A s \in SUBSET S : g[s] = IF s = {} THEN <<>> ELSE (IF Unused(ds[c[s]]) THEN g[s \ {c[s]}] ELSE Append(g[s \ {c[s]}], ds[c[s]]))
    BY ONLY <2>1, <2>3 DEF Folds
  <2>5. UsedEq(ds, g)
    BY <1>1, <2>4 DEF c, UsedEq
  <2> QED BY <2>5
<1>7. UsedEq(ds, h)
  BY <1>6
<1> HIDE DEF h, F, n, S, D, c
<1>8. /\ \A s \in SUBSET S : h[s] = IF s = {} THEN <<>> ELSE (IF Unused(ds[c[s]]) THEN h[s \ {c[s]}] ELSE Append(h[s \ {c[s]}], ds[c[s]]))
      /\ h = [s \in SUBSET S |-> h[s]]
  BY <1>1, <1>7 DEF UsedEq, c
<1>9. Folds(F1, c, <<>>, S, h)
  <2>1. \A s \in SUBSET S : s # {} => c[s] \in S /\ s \ {c[s]} \in SUBSET S
    BY <1>2 DEF Picks
  <2>2. \A s \in SUBSET S : s # {} => F1[c[s]][h[s \ {c[s]}]] = (IF Unused(ds[c[s]]) THEN h[s \ {c[s]}] ELSE Append(h[s \ {c[s]}], ds[c[s]]))
    BY <2>1
  <2> QED BY <1>8, <2>2 DEF Folds
<1>10. \A k \in S, a \in D : F1[k][a] = (IF Unused(ds[k]) THEN a ELSE Append(a, ds[k]))
  OBVIOUS
<1>11. h \in [SUBSET S -> D]
  <2>1. \A k \in S, a \in D : F1[k][a] \in D
    BY <1>4, <1>10
  <2> HIDE DEF F1
  <2> QED BY ONLY <1>1, <1>2, <1>3, <1>9, <2>1, FoldTyped
<1> HIDE DEF F1
<1>12. Largest(c, S)
  BY DEF c, S, Largest
<1> DEFINE base == <<>>
<1> HIDE DEF base
<1>13. PICK f \in [0..n -> D] : Chain(F1, base, n, f) /\ f[n] = h[S]
  <2>1. h \in [SUBSET S -> D] /\ Folds(F1, c, base, S, h)
    BY <1>9, <1>11 DEF base
  <2>2. base \in D
    BY <1>3 DEF base
  <2>3. n \in Nat /\ S = 1..n
    BY <1>1 DEF S
  <2>4. HasChain(F1, base, n, D, h[S])
    BY ONLY <1>12, <2>1, <2>2, <2>3, LeftFold
  <2> QED BY ONLY <2>4 DEF HasChain
<1>14. \A k \in 1..n : f[k] = (IF Unused(ds[k]) THEN f[k-1] ELSE Append(f[k-1], ds[k]))
  <2> SUFFICES ASSUME NEW k \in 1..n PROVE f[k] = (IF Unused(ds[k]) THEN f[k-1] ELSE Append(f[k-1], ds[k]))
    OBVIOUS
  <2>1. f[k-1] \in D /\ k \in S
    BY <1>1, <1>13 DEF S
  <2> QED BY <1>10, <1>13, <2>1 DEF Chain
<1>15. f[n] = h[DOMAIN ds]
  BY <1>1, <1>13 DEF S
<1>16. f[0] = <<>>
  BY <1>13 DEF Chain, base
<1> QED BY <1>13, <1>14, <1>15, <1>16 DEF h, n, D

\* A sequence with one more element at its head.
LEMMA ConsIs ==
    ASSUME NEW T, NEW s \in Seq(T), NEW e \in T
    PROVE  /\ <<e>> \o s \in Seq(T)
           /\ ToSet(<<e>> \o s) = ToSet(s) \cup {e}
           /\ IsInjective(s) /\ e \notin ToSet(s) => IsInjective(<<e>> \o s)
<1> DEFINE t == <<e>> \o s
<1>1. t \in Seq(T) /\ Len(t) = Len(s) + 1 /\ t[1] = e /\ \A i \in 2..Len(t) : t[i] = s[i-1]
  <2>1. <<e>> \in Seq(T) /\ Len(<<e>>) = 1 /\ <<e>>[1] = e
    OBVIOUS
  <2>2. /\ t \in Seq(T) /\ Len(t) = Len(<<e>>) + Len(s)
        /\ \A i \in 1 .. Len(<<e>>) + Len(s) :
              t[i] = IF i <= Len(<<e>>) THEN <<e>>[i] ELSE s[i - Len(<<e>>)]
    BY <2>1, ConcatProperties
  <2> HIDE DEF t
  <2> QED BY <2>1, <2>2
<1> HIDE DEF t
<1>2. DOMAIN t = 1..Len(s)+1 /\ DOMAIN s = 1..Len(s) /\ Len(s) \in Nat
  BY <1>1
<1>3. \A i \in 1..Len(s) : i+1 \in 2..Len(t) /\ t[i+1] = s[i]
  BY <1>1, <1>2
<1>4. ToSet(t) = ToSet(s) \cup {e}
  <2>1. e \in ToSet(t)
    <3>1. 1 \in DOMAIN t
      BY <1>2
    <3> QED BY <1>1, <3>1 DEF ToSet
  <2>2. ASSUME NEW i \in DOMAIN s PROVE s[i] \in ToSet(t)
    <3>1. i+1 \in DOMAIN t /\ t[i+1] = s[i]
      BY <1>2, <1>3
    <3> QED BY <3>1 DEF ToSet
  <2>3. ASSUME NEW i \in DOMAIN t PROVE t[i] = e \/ t[i] \in ToSet(s)
    <3>1. i = 1 \/ (i-1 \in DOMAIN s /\ t[i] = s[i-1])
      BY <1>1, <1>2
    <3> QED BY <1>1, <3>1 DEF ToSet
  <2> QED BY <2>1, <2>2, <2>3 DEF ToSet
<1>5. ASSUME IsInjective(s), e \notin ToSet(s) PROVE IsInjective(t)
  <2> SUFFICES ASSUME NEW i \in DOMAIN t, NEW j \in DOMAIN t, t[i] = t[j] PROVE i = j
    BY DEF IsInjective
  <2>1. \A k \in DOMAIN t : k # 1 => k-1 \in DOMAIN s /\ t[k] = s[k-1] /\ k \in Int
    BY <1>1, <1>2
  <2>2. \A k \in DOMAIN s : s[k] # e
    BY <1>5 DEF ToSet
  <2>3. CASE i = 1 \/ j = 1
    BY <2>1, <2>2, <2>3, <1>1
  <2>4. CASE i # 1 /\ j # 1
    <3>1. i-1 = j-1
      BY <1>5, <2>1, <2>4 DEF IsInjective
    <3> QED BY <3>1, <2>1, <2>4
  <2> QED BY <2>3, <2>4
<1> QED BY <1>1, <1>4, <1>5 DEF t

LEMMA RangeIs ==
    ASSUME NEW descr \in Descrs
    PROVE  /\ DOMAIN MemoryRange(descr) = 1..N
           /\ ToSet(MemoryRange(descr)) = CellSet(descr.m_memory)
           /\ \A i \in 1..N : /\ MemoryRange(descr)[i] \in CellSet(descr.m_memory)
                              /\ MemoryRange(descr)[i] \in Cells
           /\ IsInjective(MemoryRange(descr))
<1> DEFINE r == MemoryRange(descr)
           b == descr.m_memory
<1>1. b \in Blocks /\ descr.m_size = ChunkSize
  BY DEF Descrs
<1>2. r = [i \in 1..N |-> b + (i - 1) * cell_size] /\ ToSet(r) = CellSet(b)
  BY <1>1, CellsOfIs DEF CellsOf
<1>3. DOMAIN r = 1..N
  BY <1>2
<1> HIDE DEF b
<1>4. IsInjective(r)
  <2> SUFFICES ASSUME NEW i \in 1..N, NEW j \in 1..N, r[i] = r[j] PROVE i = j
    BY <1>3 DEF IsInjective
  <2> DEFINE k == i - 1
             l == j - 1
  <2>1. k \in 0..N-1 /\ l \in 0..N-1 /\ i = k + 1 /\ j = l + 1
    BY BitsetAssumption
  <2> DEFINE x == b + k * cell_size
             y == b + l * cell_size
  <2>2. r[i] = x /\ r[j] = y
    BY <1>2
  <2> HIDE DEF r, k, l
  <2>3. (x - b) \div cell_size = k /\ (y - b) \div cell_size = l
    BY <1>1, <2>1, CellNumber
  <2> HIDE DEF x, y
  <2>4. k = l
    BY <2>2, <2>3
  <2> QED BY <2>1, <2>4
<1> HIDE DEF r
<1>5. ASSUME NEW i \in 1..N PROVE r[i] \in CellSet(b) /\ r[i] \in Cells
  <2>1. r[i] \in CellSet(b)
    BY <1>2, <1>3 DEF ToSet
  <2> QED BY <1>1, <2>1, CellsAre
<1> QED BY <1>2, <1>3, <1>4, <1>5 DEF r, b

SweepChunkEq(freelist, descr, g) ==
    g = [s \in SUBSET (DOMAIN MemoryRange(descr)) |->
           IF s = {} THEN freelist ELSE (IF GetMark(descr, MemoryRange(descr)[Max(s)]) THEN g[s \ {Max(s)}] ELSE <<MemoryRange(descr)[Max(s)]>> \o g[s \ {Max(s)}])]

LEMMA SweepChunkChain ==
    ASSUME NEW descr \in Descrs, NEW freelist \in Seq(Cells)
    PROVE  \E h \in [0..N -> Seq(Cells)] :
              /\ h[0] = freelist /\ h[N] = (CHOOSE g : SweepChunkEq(freelist, descr, g))[DOMAIN MemoryRange(descr)]
              /\ \A k \in 1..N : h[k] = (IF GetMark(descr, MemoryRange(descr)[k]) THEN h[k-1] ELSE <<MemoryRange(descr)[k]>> \o h[k-1])
<1> DEFINE n == N
           D == Seq(Cells)
           S == 1..n
           c == [s \in SUBSET S |-> Max(s)]
           h == CHOOSE g : SweepChunkEq(freelist, descr, g)
           F == [k \in S |-> [a \in D |-> (IF GetMark(descr, MemoryRange(descr)[k]) THEN a ELSE <<MemoryRange(descr)[k]>> \o a)]]
           F1 == [k \in S |-> [a \in D \cup {h[s] : s \in SUBSET S} |-> (IF GetMark(descr, MemoryRange(descr)[k]) THEN a ELSE <<MemoryRange(descr)[k]>> \o a)]]
<1>1. n \in Nat /\ DOMAIN MemoryRange(descr) = S /\ IsFiniteSet(S) /\ S \subseteq Int
  BY FS_Interval, RangeIs, BitsetAssumption
<1>2. Picks(c, S)
  <2> SUFFICES ASSUME NEW s \in SUBSET S, s # {} PROVE Max(s) \in s
    BY DEF Picks
  <2>1. IsFiniteSet(s) /\ s \subseteq Int
    BY <1>1, FS_Subset
  <2> QED BY <2>1, MaxIn
<1>3. freelist \in D
  OBVIOUS
<1>4. \A k \in S, a \in D : (IF GetMark(descr, MemoryRange(descr)[k]) THEN a ELSE <<MemoryRange(descr)[k]>> \o a) \in D
  BY RangeIs, ConsIs DEF S
<1>5. F \in [S -> [D -> D]]
  BY <1>4
<1>6. \E g : SweepChunkEq(freelist, descr, g)
  <2> HIDE DEF F, c, D, S, h, n
  <2>1. PICK g \in [SUBSET S -> D] : Folds(F, c, freelist, S, g)
    BY <1>1, <1>2, <1>3, <1>5, FoldExists
  <2>2. \A s \in SUBSET S : s # {} => c[s] \in S /\ g[s \ {c[s]}] \in D
    BY <1>2, <2>1 DEF Picks
  <2>3. \A s \in SUBSET S : s # {} => F[c[s]][g[s \ {c[s]}]] = (IF GetMark(descr, MemoryRange(descr)[c[s]]) THEN g[s \ {c[s]}] ELSE <<MemoryRange(descr)[c[s]]>> \o g[s \ {c[s]}])
    BY <2>2 DEF F
  <2>4. /\ g = [s \in SUBSET S |-> g[s]]
        /\ \A s \in SUBSET S : g[s] = IF s = {} THEN freelist ELSE (IF GetMark(descr, MemoryRange(descr)[c[s]]) THEN g[s \ {c[s]}] ELSE <<MemoryRange(descr)[c[s]]>> \o g[s \ {c[s]}])
    BY ONLY <2>1, <2>3 DEF Folds
  <2>5. SweepChunkEq(freelist, descr, g)
    BY <1>1, <2>4 DEF c, SweepChunkEq
  <2> QED BY <2>5
<1>7. SweepChunkEq(freelist, descr, h)
  BY <1>6
<1> HIDE DEF h, F, n, S, D, c
<1>8. /\ \A s \in SUBSET S : h[s] = IF s = {} THEN freelist ELSE (IF GetMark(descr, MemoryRange(descr)[c[s]]) THEN h[s \ {c[s]}] ELSE <<MemoryRange(descr)[c[s]]>> \o h[s \ {c[s]}])
      /\ h = [s \in SUBSET S |-> h[s]]
  BY <1>1, <1>7 DEF SweepChunkEq, c
<1>9. Folds(F1, c, freelist, S, h)
  <2>1. \A s \in SUBSET S : s # {} => c[s] \in S /\ s \ {c[s]} \in SUBSET S
    BY <1>2 DEF Picks
  <2>2. \A s \in SUBSET S : s # {} => F1[c[s]][h[s \ {c[s]}]] = (IF GetMark(descr, MemoryRange(descr)[c[s]]) THEN h[s \ {c[s]}] ELSE <<MemoryRange(descr)[c[s]]>> \o h[s \ {c[s]}])
    BY <2>1
  <2> QED BY <1>8, <2>2 DEF Folds
<1>10. \A k \in S, a \in D : F1[k][a] = (IF GetMark(descr, MemoryRange(descr)[k]) THEN a ELSE <<MemoryRange(descr)[k]>> \o a)
  OBVIOUS
<1>11. h \in [SUBSET S -> D]
  <2>1. \A k \in S, a \in D : F1[k][a] \in D
    BY <1>4, <1>10
  <2> HIDE DEF F1
  <2> QED BY ONLY <1>1, <1>2, <1>3, <1>9, <2>1, FoldTyped
<1> HIDE DEF F1
<1>12. Largest(c, S)
  BY DEF c, S, Largest
<1> DEFINE base == freelist
<1> HIDE DEF base
<1>13. PICK f \in [0..n -> D] : Chain(F1, base, n, f) /\ f[n] = h[S]
  <2>1. h \in [SUBSET S -> D] /\ Folds(F1, c, base, S, h)
    BY <1>9, <1>11 DEF base
  <2>2. base \in D
    BY <1>3 DEF base
  <2>3. n \in Nat /\ S = 1..n
    BY <1>1 DEF S
  <2>4. HasChain(F1, base, n, D, h[S])
    BY ONLY <1>12, <2>1, <2>2, <2>3, LeftFold
  <2> QED BY ONLY <2>4 DEF HasChain
<1>14. \A k \in 1..n : f[k] = (IF GetMark(descr, MemoryRange(descr)[k]) THEN f[k-1] ELSE <<MemoryRange(descr)[k]>> \o f[k-1])
  <2> SUFFICES ASSUME NEW k \in 1..n PROVE f[k] = (IF GetMark(descr, MemoryRange(descr)[k]) THEN f[k-1] ELSE <<MemoryRange(descr)[k]>> \o f[k-1])
    OBVIOUS
  <2>1. f[k-1] \in D /\ k \in S
    BY <1>1, <1>13 DEF S
  <2> QED BY <1>10, <1>13, <2>1 DEF Chain
<1>15. f[n] = h[DOMAIN MemoryRange(descr)]
  BY <1>1, <1>13 DEF S
<1>16. f[0] = freelist
  BY <1>13 DEF Chain, base
<1> QED BY <1>13, <1>14, <1>15, <1>16 DEF h, n, D

\* sweep of one chunk lists its unmarked cells, each once, and keeps the list.
LEMMA SweepChunkIs ==
    ASSUME NEW descr \in Descrs, NEW freelist \in Seq(Cells)
    PROVE  LET res == SweepChunk(freelist, descr) IN
           /\ res \in Seq(Cells)
           /\ ToSet(res) = ToSet(freelist) \cup (CellSet(descr.m_memory) \ MarksOf(descr))
           /\ IsInjective(freelist) /\ ToSet(freelist) \cap CellSet(descr.m_memory) = {}
                  => IsInjective(res)
<1> DEFINE res == SweepChunk(freelist, descr)
           r == MemoryRange(descr)
           b == descr.m_memory
           Free(k) == {r[i] : i \in {j \in 1..k : ~GetMark(descr, r[j])}}
<1>1. res = (CHOOSE g : SweepChunkEq(freelist, descr, g))[DOMAIN MemoryRange(descr)]
  BY DEF SweepChunk, FoldLeft, MapThenFoldSet, SweepChunkEq
<1> HIDE DEF res
<1>2. PICK h \in [0..N -> Seq(Cells)] :
          /\ h[0] = freelist /\ h[N] = res
          /\ \A k \in 1..N : h[k] = IF GetMark(descr, MemoryRange(descr)[k]) THEN h[k-1]
                                    ELSE <<MemoryRange(descr)[k]>> \o h[k-1]
  BY <1>1, SweepChunkChain
<1>3. DOMAIN r = 1..N /\ ToSet(r) = CellSet(b) /\ IsInjective(r)
      /\ \A i \in 1..N : r[i] \in CellSet(b) /\ r[i] \in Cells
  BY RangeIs
<1>4. \A k \in 1..N : h[k] = IF GetMark(descr, r[k]) THEN h[k-1] ELSE <<r[k]>> \o h[k-1]
  BY <1>2
<1> HIDE DEF r, b
<1> DEFINE Inj == IsInjective(freelist) /\ ToSet(freelist) \cap CellSet(b) = {}
           Good(k) == /\ ToSet(h[k]) = ToSet(freelist) \cup Free(k)
                      /\ Inj => IsInjective(h[k])
           Q == {k \in Nat : k <= N => Good(k)}
<1>5. 0 \in Q
  BY <1>2
<1>6. ASSUME NEW n \in Nat, n \in Q PROVE n+1 \in Q
  <2>1. SUFFICES ASSUME n+1 <= N PROVE Good(n+1)
    OBVIOUS
  <2> DEFINE k == n + 1
             e == r[k]
  <2>2. k \in 1..N /\ k-1 = n /\ n <= N /\ n \in 0..N
    BY <2>1, BitsetAssumption
  <2>3. Good(n)
    BY <1>6, <2>2
  <2>4. h[n] \in Seq(Cells) /\ e \in Cells /\ e \in CellSet(b)
    BY <1>2, <1>3, <2>2
  <2>5. h[k] = IF GetMark(descr, e) THEN h[n] ELSE <<e>> \o h[n]
    BY <1>4, <2>2
  <2>6. Free(k) = IF GetMark(descr, e) THEN Free(n) ELSE Free(n) \cup {e}
    <3>1. 1..k = (1..n) \cup {k}
      BY <2>2
    <3> HIDE DEF k
    <3> QED BY <3>1
  <2>7. Inj => e \notin ToSet(freelist) /\ e \notin Free(n)
    <3>1. \A i \in 1..n : i \in 1..N /\ i # k
      BY <2>2, BitsetAssumption
    <3>2. \A i \in 1..n : r[i] # e
      BY <1>3, <2>2, <3>1 DEF IsInjective
    <3> QED BY <2>4, <3>2
  <2> HIDE DEF Free, e
  <2>8. /\ ToSet(<<e>> \o h[n]) = ToSet(h[n]) \cup {e}
        /\ IsInjective(h[n]) /\ e \notin ToSet(h[n]) => IsInjective(<<e>> \o h[n])
    BY <2>4, ConsIs
  <2> HIDE DEF k, Inj
  <2>9. Good(k)
    BY <2>3, <2>5, <2>6, <2>7, <2>8
  <2> QED BY <2>9 DEF k
<1> HIDE DEF Q
<1>7. N \in Q
  BY <1>5, <1>6, NatInd, BitsetAssumption
<1> HIDE DEF Good
<1>8. Good(N)
  BY ONLY <1>7, BitsetAssumption DEF Q
<1> USE DEF Good
<1>9. Free(N) = CellSet(b) \ MarksOf(descr)
  <2>1. Free(N) = {p \in CellSet(b) : ~GetMark(descr, p)}
    BY <1>3 DEF ToSet
  <2> HIDE DEF Free
  <2> QED BY <2>1 DEF MarksOf, b
<1>10. res \in Seq(Cells)
  BY <1>2, BitsetAssumption
<1> HIDE DEF Free
<1> QED BY <1>2, <1>8, <1>9, <1>10 DEF res, b

SweptEq(ds, g) ==
    g = [s \in SUBSET (DOMAIN ds) |->
           IF s = {} THEN <<>> ELSE SweepChunk(g[s \ {Max(s)}], ds[Max(s)])]

LEMMA SweptChain ==
    ASSUME NEW ds \in Seq(Descrs)
    PROVE  \E h \in [0..Len(ds) -> Seq(Cells)] :
              /\ h[0] = <<>> /\ h[Len(ds)] = (CHOOSE g : SweptEq(ds, g))[DOMAIN ds]
              /\ \A k \in 1..Len(ds) : h[k] = SweepChunk(h[k-1], ds[k])
<1> DEFINE n == Len(ds)
           D == Seq(Cells)
           S == 1..n
           c == [s \in SUBSET S |-> Max(s)]
           h == CHOOSE g : SweptEq(ds, g)
           F == [k \in S |-> [a \in D |-> SweepChunk(a, ds[k])]]
           F1 == [k \in S |-> [a \in D \cup {h[s] : s \in SUBSET S} |-> SweepChunk(a, ds[k])]]
<1>1. n \in Nat /\ DOMAIN ds = S /\ IsFiniteSet(S) /\ S \subseteq Int
  BY FS_Interval
<1>2. Picks(c, S)
  <2> SUFFICES ASSUME NEW s \in SUBSET S, s # {} PROVE Max(s) \in s
    BY DEF Picks
  <2>1. IsFiniteSet(s) /\ s \subseteq Int
    BY <1>1, FS_Subset
  <2> QED BY <2>1, MaxIn
<1>3. <<>> \in D
  OBVIOUS
<1>4. \A k \in S, a \in D : SweepChunk(a, ds[k]) \in D
  <2> SUFFICES ASSUME NEW k \in S, NEW a \in D PROVE SweepChunk(a, ds[k]) \in D
    OBVIOUS
  <2>1. ds[k] \in Descrs /\ a \in Seq(Cells)
    BY DEF S
  <2> HIDE DEF S
  <2> QED BY <2>1, SweepChunkIs
<1>5. F \in [S -> [D -> D]]
  BY <1>4
<1>6. \E g : SweptEq(ds, g)
  <2> HIDE DEF F, c, D, S, h, n
  <2>1. PICK g \in [SUBSET S -> D] : Folds(F, c, <<>>, S, g)
    BY <1>1, <1>2, <1>3, <1>5, FoldExists
  <2>2. \A s \in SUBSET S : s # {} => c[s] \in S /\ g[s \ {c[s]}] \in D
    BY <1>2, <2>1 DEF Picks
  <2>3. \A s \in SUBSET S : s # {} => F[c[s]][g[s \ {c[s]}]] = SweepChunk(g[s \ {c[s]}], ds[c[s]])
    BY <2>2 DEF F
  <2>4. /\ g = [s \in SUBSET S |-> g[s]]
        /\ \A s \in SUBSET S : g[s] = IF s = {} THEN <<>> ELSE SweepChunk(g[s \ {c[s]}], ds[c[s]])
    BY ONLY <2>1, <2>3 DEF Folds
  <2>5. SweptEq(ds, g)
    BY <1>1, <2>4 DEF c, SweptEq
  <2> QED BY <2>5
<1>7. SweptEq(ds, h)
  BY <1>6
<1> HIDE DEF h, F, n, S, D, c
<1>8. /\ \A s \in SUBSET S : h[s] = IF s = {} THEN <<>> ELSE SweepChunk(h[s \ {c[s]}], ds[c[s]])
      /\ h = [s \in SUBSET S |-> h[s]]
  BY <1>1, <1>7 DEF SweptEq, c
<1>9. Folds(F1, c, <<>>, S, h)
  <2>1. \A s \in SUBSET S : s # {} => c[s] \in S /\ s \ {c[s]} \in SUBSET S
    BY <1>2 DEF Picks
  <2>2. \A s \in SUBSET S : s # {} => F1[c[s]][h[s \ {c[s]}]] = SweepChunk(h[s \ {c[s]}], ds[c[s]])
    BY <2>1
  <2> QED BY <1>8, <2>2 DEF Folds
<1>10. \A k \in S, a \in D : F1[k][a] = SweepChunk(a, ds[k])
  OBVIOUS
<1>11. h \in [SUBSET S -> D]
  <2>1. \A k \in S, a \in D : F1[k][a] \in D
    BY <1>4, <1>10
  <2> HIDE DEF F1
  <2> QED BY ONLY <1>1, <1>2, <1>3, <1>9, <2>1, FoldTyped
<1> HIDE DEF F1
<1>12. Largest(c, S)
  BY DEF c, S, Largest
<1> DEFINE base == <<>>
<1> HIDE DEF base
<1>13. PICK f \in [0..n -> D] : Chain(F1, base, n, f) /\ f[n] = h[S]
  <2>1. h \in [SUBSET S -> D] /\ Folds(F1, c, base, S, h)
    BY <1>9, <1>11 DEF base
  <2>2. base \in D
    BY <1>3 DEF base
  <2>3. n \in Nat /\ S = 1..n
    BY <1>1 DEF S
  <2>4. HasChain(F1, base, n, D, h[S])
    BY ONLY <1>12, <2>1, <2>2, <2>3, LeftFold
  <2> QED BY ONLY <2>4 DEF HasChain
<1>14. \A k \in 1..n : f[k] = SweepChunk(f[k-1], ds[k])
  <2> SUFFICES ASSUME NEW k \in 1..n PROVE f[k] = SweepChunk(f[k-1], ds[k])
    OBVIOUS
  <2>1. f[k-1] \in D /\ k \in S
    BY <1>1, <1>13 DEF S
  <2> QED BY <1>10, <1>13, <2>1 DEF Chain
<1>15. f[n] = h[DOMAIN ds]
  BY <1>1, <1>13 DEF S
<1>16. f[0] = <<>>
  BY <1>13 DEF Chain, base
<1> QED BY <1>13, <1>14, <1>15, <1>16 DEF h, n, D

\* Of the free list of all the blocks that stay.
LEMMA SweptIs ==
    ASSUME NEW ds \in Seq(Descrs), Distinct(ds)
    PROVE  /\ Swept(ds) \in Seq(Cells)
           /\ ToSet(Swept(ds)) = UNION {CellSet(d.m_memory) \ MarksOf(d) : d \in ToSet(ds)}
           /\ IsInjective(Swept(ds))
<1> DEFINE res == Swept(ds)
           FreeOf(d) == CellSet(d.m_memory) \ MarksOf(d)
           Free(k) == UNION {FreeOf(ds[i]) : i \in 1..k}
<1>1. res = (CHOOSE g : SweptEq(ds, g))[DOMAIN ds]
  BY DEF Swept, FoldLeft, MapThenFoldSet, SweptEq
<1> HIDE DEF res
<1>2. PICK h \in [0..Len(ds) -> Seq(Cells)] :
          /\ h[0] = <<>> /\ h[Len(ds)] = res
          /\ \A k \in 1..Len(ds) : h[k] = SweepChunk(h[k-1], ds[k])
  BY <1>1, SweptChain
<1>3. DOMAIN ds = 1..Len(ds) /\ Len(ds) \in Nat /\ \A k \in 1..Len(ds) : ds[k] \in Descrs
  OBVIOUS
<1> DEFINE Good(k) == ToSet(h[k]) = Free(k) /\ IsInjective(h[k])
           Q == {k \in Nat : k <= Len(ds) => Good(k)}
<1>4. 0 \in Q
  <2>1. h[0] = <<>> /\ Free(0) = {}
    BY <1>2
  <2>2. ToSet(<<>>) = {} /\ IsInjective(<<>>)
    BY DEF ToSet, IsInjective
  <2> QED BY <2>1, <2>2
<1>5. ASSUME NEW n \in Nat, n \in Q PROVE n+1 \in Q
  <2>1. SUFFICES ASSUME n+1 <= Len(ds) PROVE Good(n+1)
    OBVIOUS
  <2> DEFINE k == n + 1
             d == ds[k]
  <2>2. k \in 1..Len(ds) /\ k-1 = n /\ n <= Len(ds) /\ n \in 0..Len(ds)
    BY <2>1
  <2>3. Good(n)
    BY <1>5, <2>2
  <2>4. h[n] \in Seq(Cells) /\ d \in Descrs /\ d.m_memory \in Blocks
    BY <1>2, <1>3, <2>2 DEF Descrs
  <2>5. h[k] = SweepChunk(h[n], d)
    BY <1>2, <2>2
  <2>6. Free(k) = Free(n) \cup FreeOf(d)
    <3>1. 1..k = (1..n) \cup {k}
      BY <2>2
    <3> HIDE DEF k, FreeOf
    <3> QED BY <3>1
  <2>7. Free(n) \cap CellSet(d.m_memory) = {}
    <3> SUFFICES ASSUME NEW i \in 1..n, NEW p \in FreeOf(ds[i]), p \in CellSet(d.m_memory)
                 PROVE  FALSE
      OBVIOUS
    <3>1. i \in DOMAIN ds /\ k \in DOMAIN ds /\ i # k
      BY <1>3, <2>2
    <3>2. ds[i].m_memory \in Blocks
      BY <1>3, <3>1 DEF Descrs
    <3>3. ds[i].m_memory = d.m_memory
      BY <2>4, <3>2, CellInOne
    <3> QED BY <3>1, <3>3 DEF Distinct
  <2> HIDE DEF Free, d
  <2>8. /\ ToSet(SweepChunk(h[n], d)) = ToSet(h[n]) \cup FreeOf(d)
        /\ IsInjective(h[n]) /\ ToSet(h[n]) \cap CellSet(d.m_memory) = {}
               => IsInjective(SweepChunk(h[n], d))
    BY <2>4, SweepChunkIs
  <2> HIDE DEF k
  <2>9. Good(k)
    BY <2>3, <2>5, <2>6, <2>7, <2>8
  <2> QED BY <2>9 DEF k
<1> HIDE DEF Q
<1>6. Nat \subseteq Q
  BY <1>4, <1>5, NatInd
<1>7. Good(Len(ds))
  BY <1>3, <1>6 DEF Q
<1>8. Free(Len(ds)) = UNION {FreeOf(d) : d \in ToSet(ds)}
  BY <1>3 DEF ToSet
<1>9. res \in Seq(Cells)
  BY <1>2
<1> HIDE DEF Free
<1> QED BY <1>2, <1>7, <1>8, <1>9 DEF res

-----------------------------------------------------------------------------
(* A collection                                                            *)

\* A sequence with one more element at its end.
LEMMA AppendIs ==
    ASSUME NEW T, NEW s \in Seq(T), NEW e \in T
    PROVE  /\ Append(s, e) \in Seq(T) /\ Len(Append(s, e)) = Len(s) + 1
           /\ ToSet(Append(s, e)) = ToSet(s) \cup {e}
           /\ Append(s, e)[Len(Append(s, e))] = e
           /\ IsInjective(s) /\ e \notin ToSet(s) => IsInjective(Append(s, e))
<1> DEFINE t == Append(s, e)
<1>1. /\ t \in Seq(T) /\ Len(t) = Len(s) + 1 /\ t[Len(s) + 1] = e
      /\ \A i \in 1..Len(s) : t[i] = s[i]
  BY AppendProperties
<1> HIDE DEF t
<1>2. DOMAIN t = 1..Len(s)+1 /\ DOMAIN s = 1..Len(s) /\ Len(s) \in Nat
  BY <1>1
<1>3. DOMAIN t = DOMAIN s \cup {Len(s)+1} /\ Len(s)+1 \notin DOMAIN s
  BY <1>2
<1>4. ToSet(t) = ToSet(s) \cup {e}
  <2>1. {t[i] : i \in DOMAIN s \cup {Len(s)+1}} = {s[i] : i \in DOMAIN s} \cup {e}
    BY <1>1, <1>2
  <2> QED BY <1>3, <2>1 DEF ToSet
<1>5. IsInjective(s) /\ e \notin ToSet(s) => IsInjective(t)
  BY <1>1, <1>2, <1>3 DEF IsInjective, ToSet
<1> QED BY <1>1, <1>4, <1>5 DEF t

\* shrink keeps the descriptors with a mark, in their order.
LEMMA UsedIs ==
    ASSUME NEW ds \in Seq(Descrs), Distinct(ds)
    PROVE  /\ Used(ds) \in Seq(Descrs)
           /\ ToSet(Used(ds)) = {d \in ToSet(ds) : ~Unused(d)}
           /\ Distinct(Used(ds))
<1> DEFINE res == Used(ds)
           Kept(k) == {ds[i] : i \in {j \in 1..k : ~Unused(ds[j])}}
<1>1. res = (CHOOSE g : UsedEq(ds, g))[DOMAIN ds]
  BY DEF Used, FoldLeft, MapThenFoldSet, UsedEq
<1> HIDE DEF res
<1>2. PICK h \in [0..Len(ds) -> Seq(Descrs)] :
          /\ h[0] = <<>> /\ h[Len(ds)] = res
          /\ \A k \in 1..Len(ds) : h[k] = IF Unused(ds[k]) THEN h[k-1] ELSE Append(h[k-1], ds[k])
  BY <1>1, UsedChain
<1>3. DOMAIN ds = 1..Len(ds) /\ Len(ds) \in Nat /\ \A k \in 1..Len(ds) : ds[k] \in Descrs
  OBVIOUS
<1> DEFINE Good(k) == ToSet(h[k]) = Kept(k) /\ Distinct(h[k])
           Q == {k \in Nat : k <= Len(ds) => Good(k)}
<1>4. 0 \in Q
  <2>1. h[0] = <<>> /\ Kept(0) = {}
    BY <1>2
  <2>2. ToSet(<<>>) = {} /\ Distinct(<<>>)
    BY DEF ToSet, Distinct
  <2> QED BY <2>1, <2>2
<1>5. ASSUME NEW n \in Nat, n \in Q PROVE n+1 \in Q
  <2>1. SUFFICES ASSUME n+1 <= Len(ds) PROVE Good(n+1)
    OBVIOUS
  <2> DEFINE k == n + 1
             d == ds[k]
             s == h[n]
  <2>2. k \in 1..Len(ds) /\ k-1 = n /\ n <= Len(ds) /\ n \in 0..Len(ds)
    BY <2>1
  <2>3. Good(n)
    BY <1>5, <2>2
  <2>4. s \in Seq(Descrs) /\ d \in Descrs
    BY <1>2, <1>3, <2>2
  <2>5. h[k] = IF Unused(d) THEN s ELSE Append(s, d)
    BY <1>2, <2>2
  <2>6. Kept(k) = IF Unused(d) THEN Kept(n) ELSE Kept(n) \cup {d}
    <3>1. 1..k = (1..n) \cup {k}
      BY <2>2
    <3> HIDE DEF k
    <3> QED BY <3>1
  <2>7. \A x \in Kept(n) : x.m_memory # d.m_memory
    <3> SUFFICES ASSUME NEW i \in 1..n PROVE ds[i].m_memory # d.m_memory
      OBVIOUS
    <3>1. i \in DOMAIN ds /\ k \in DOMAIN ds /\ i # k
      BY <1>3, <2>2
    <3> QED BY <3>1 DEF Distinct
  <2> HIDE DEF Kept, d, s
  <2>8. ToSet(Append(s, d)) = ToSet(s) \cup {d}
    BY <2>4, AppendIs
  <2>9. ToSet(h[k]) = Kept(k)
    BY <2>3, <2>5, <2>6, <2>8 DEF s
  <2>10. Distinct(Append(s, d))
    <3> DEFINE t == Append(s, d)
    <3>1. /\ t \in Seq(Descrs) /\ Len(t) = Len(s) + 1 /\ t[Len(s) + 1] = d
          /\ \A i \in 1..Len(s) : t[i] = s[i]
      BY <2>4, AppendProperties
    <3> HIDE DEF t
    <3>2. /\ DOMAIN s = 1..Len(s) /\ Len(s) \in Nat
          /\ DOMAIN t = DOMAIN s \cup {Len(s) + 1} /\ Len(s) + 1 \notin DOMAIN s
      BY <2>4, <3>1
    <3>3. \A i \in DOMAIN s : s[i].m_memory # d.m_memory
      BY <2>3, <2>7 DEF ToSet, s
    <3>4. Distinct(s)
      BY <2>3 DEF s
    <3> QED BY <3>1, <3>2, <3>3, <3>4 DEF Distinct, t
  <2>11. Good(k)
    BY <2>3, <2>5, <2>9, <2>10 DEF s
  <2> QED BY <2>11
<1> HIDE DEF Q
<1>6. Nat \subseteq Q
  BY <1>4, <1>5, NatInd
<1>7. Good(Len(ds))
  <2> HIDE DEF Good
  <2> QED BY <1>3, <1>6 DEF Q
<1>8. Kept(Len(ds)) = {d \in ToSet(ds) : ~Unused(d)}
  BY <1>3 DEF ToSet
<1>9. res \in Seq(Descrs)
  BY <1>2
<1> HIDE DEF Kept
<1> QED BY <1>2, <1>7, <1>8, <1>9 DEF res

\* sweep destroys the objects that are not marked.
LEMMA FinalizedIs ==
    ASSUME NEW descr \in Descrs
    PROVE  /\ Finalized(descr) \in At(descr.m_memory)
           /\ MarksOf(Finalized(descr)) = MarksOf(descr)
           /\ ObjectsOf(Finalized(descr)) = ObjectsOf(descr) \cap MarksOf(descr)
<1> DEFINE T == {p \in CellsOf(descr) : LifetimeTag(descr, p) = "GARBAGE"}
<1>1. T = ObjectsOf(descr) \ MarksOf(descr)
  <2>1. CellsOf(descr) = CellSet(descr.m_memory)
    BY CellsOfIs DEF Descrs
  <2>2. \A p : LifetimeTag(descr, p) = "GARBAGE" <=> ~GetMark(descr, p) /\ IsInit(descr, p)
    BY DEF LifetimeTag
  <2> QED BY <2>1, <2>2 DEF ObjectsOf, MarksOf
<1>2. T \in SUBSET CellSet(descr.m_memory)
  BY <1>1 DEF ObjectsOf
<1>3. Finalized(descr) = FinalizeRes(descr, T)
  BY DEF Finalized, FoldSet, MapThenFoldSet, FinalizeRes, FinalizeEq
<1> HIDE DEF T
<1>4. ObjectsOf(descr) \ T = ObjectsOf(descr) \cap MarksOf(descr)
  BY <1>1
<1> QED BY <1>2, <1>3, <1>4, FinalizeAll

AfterCollect(kept) == [i \in DOMAIN kept |-> Unmark(Finalized(kept[i]))]

LEMMA AfterCollectIs ==
    ASSUME NEW kept \in Seq(Descrs), Distinct(kept)
    PROVE  /\ SameBlks(kept, AfterCollect(kept))
           /\ MarkedIn(AfterCollect(kept)) = {}
           /\ ObjectsIn(AfterCollect(kept)) = ObjectsIn(kept) \cap MarkedIn(kept)
<1> DEFINE es == AfterCollect(kept)
<1>1. es = [i \in DOMAIN kept |-> es[i]] /\ \A i \in DOMAIN kept : es[i] = Unmark(Finalized(kept[i]))
  BY DEF AfterCollect
<1> HIDE DEF es
<1>2. ASSUME NEW i \in DOMAIN kept
      PROVE  /\ es[i] \in At(kept[i].m_memory) /\ es[i].m_memory = kept[i].m_memory
             /\ MarksOf(es[i]) = {}
             /\ ObjectsOf(es[i]) = ObjectsOf(kept[i]) \cap MarksOf(kept[i])
  <2> DEFINE d == Finalized(kept[i])
  <2>1. kept[i] \in Descrs
    OBVIOUS
  <2>2. /\ d \in Descrs /\ d.m_memory = kept[i].m_memory
        /\ ObjectsOf(d) = ObjectsOf(kept[i]) \cap MarksOf(kept[i])
    BY <2>1, FinalizedIs DEF At
  <2>3. es[i] = Unmark(d)
    BY <1>1
  <2> HIDE DEF d
  <2> QED BY <2>2, <2>3, UnmarkView DEF At
<1>3. SameBlks(kept, es) /\ ToSet(es) = {es[i] : i \in DOMAIN kept}
  BY <1>1, <1>2, SameBlocks DEF SameBlks
<1>4. ToSet(kept) = {kept[i] : i \in DOMAIN kept}
  BY DEF ToSet
<1>5. MarkedIn(es) = {}
  <2>1. \A d \in ToSet(es) : MarksOf(d) = {}
    BY <1>2, <1>3
  <2> QED BY <2>1 DEF MarkedIn
<1>6. ObjectsIn(es) = UNION {ObjectsOf(kept[i]) \cap MarksOf(kept[i]) : i \in DOMAIN kept}
  BY <1>2, <1>3 DEF ObjectsIn
<1>7. ASSUME NEW p \in ObjectsIn(kept), p \in MarkedIn(kept) PROVE p \in ObjectsIn(es)
  <2>1. PICK d \in ToSet(kept) : p \in ObjectsOf(d)
    BY DEF ObjectsIn
  <2>2. PICK e \in ToSet(kept) : p \in MarksOf(e)
    BY <1>7 DEF MarkedIn
  <2>3. d = e
    BY <2>1, <2>2, OneDescr DEF ObjectsOf, MarksOf
  <2>4. PICK i \in DOMAIN kept : d = kept[i]
    BY ElementsAre
  <2> QED BY <1>6, <2>1, <2>2, <2>3, <2>4
<1>8. ObjectsIn(es) \subseteq ObjectsIn(kept) \cap MarkedIn(kept)
  BY <1>4, <1>6 DEF ObjectsIn, MarkedIn
<1> QED BY <1>3, <1>5, <1>7, <1>8 DEF es

\* What a collection with the marks M leaves: the marked objects, without
\* marks, in the blocks that have a mark, of which every other cell is free.
LEMMA CollectIs ==
    ASSUME NEW ds \in Seq(Descrs), Distinct(ds), NEW M \in SUBSET HeldIn(ds), MarkedIn(ds) \subseteq M
    PROVE  LET kept == Used(MarkedDescrs(ds, M))
               es == AfterCollect(kept) IN
           /\ es \in Seq(Descrs) /\ Distinct(es)
           /\ MarkedIn(es) = {}
           /\ ObjectsIn(es) = ObjectsIn(ds) \cap M
           /\ M \subseteq HeldIn(es) /\ HeldIn(es) \subseteq HeldIn(ds)
           /\ Swept(kept) \in Seq(Cells) /\ IsInjective(Swept(kept))
           /\ ToSet(Swept(kept)) = HeldIn(es) \ M
<1> DEFINE ms == MarkedDescrs(ds, M)
           kept == Used(ms)
           es == AfterCollect(kept)
           sw == Swept(kept)
<1>1. M \in SUBSET Cells
  BY InDescrs
<1>2. /\ SameBlks(ds, ms) /\ MarkedIn(ms) = M /\ ObjectsIn(ms) = ObjectsIn(ds)
  <2>1. /\ SameBlks(ds, ms)
        /\ MarkedIn(ms) = MarkedIn(ds) \cup (M \cap HeldIn(ds)) /\ ObjectsIn(ms) = ObjectsIn(ds)
    BY <1>1, MarkedAre
  <2> HIDE DEF ms
  <2> QED BY <2>1
<1> HIDE DEF ms
<1>3. ms \in Seq(Descrs) /\ Distinct(ms)
  BY <1>2 DEF SameBlks
<1>4. kept \in Seq(Descrs) /\ Distinct(kept) /\ ToSet(kept) = {d \in ToSet(ms) : ~Unused(d)}
  BY <1>3, UsedIs
<1> HIDE DEF kept
<1>5. \A d \in ToSet(ms) : d \notin ToSet(kept) => MarksOf(d) = {}
  <2> SUFFICES ASSUME NEW d \in ToSet(ms), Unused(d), NEW p \in MarksOf(d) PROVE FALSE
    BY <1>4
  <2>1. d \in Descrs
    BY <1>3, ElementsAre
  <2> QED BY <2>1, UnusedCells DEF MarksOf
<1>6. MarkedIn(kept) = M
  BY <1>2, <1>4, <1>5 DEF MarkedIn
<1>7. ObjectsIn(kept) \cap M = ObjectsIn(ds) \cap M
  <2>1. ObjectsIn(kept) \subseteq ObjectsIn(ms)
    BY <1>4 DEF ObjectsIn
  <2>2. ASSUME NEW p \in M, p \in ObjectsIn(ms) PROVE p \in ObjectsIn(kept)
    <3>1. PICK d \in ToSet(ms) : p \in ObjectsOf(d)
      BY <2>2 DEF ObjectsIn
    <3>2. PICK e \in ToSet(kept) : p \in MarksOf(e)
      BY <1>6 DEF MarkedIn
    <3>3. d = e
      BY <1>3, <1>4, <3>1, <3>2, OneDescr DEF ObjectsOf, MarksOf
    <3> QED BY <3>1, <3>2, <3>3 DEF ObjectsIn
  <2> QED BY <1>2, <2>1, <2>2
<1>8. /\ SameBlks(kept, es) /\ MarkedIn(es) = {}
      /\ ObjectsIn(es) = ObjectsIn(kept) \cap MarkedIn(kept)
  BY <1>4, AfterCollectIs
<1> HIDE DEF es
<1>9. es \in Seq(Descrs) /\ Distinct(es) /\ HeldIn(es) = HeldIn(kept)
  BY <1>4, <1>8 DEF SameBlks
<1>10. M \subseteq HeldIn(es)
  BY <1>4, <1>6, <1>9, InDescrs
<1>11. /\ sw \in Seq(Cells) /\ IsInjective(sw)
       /\ ToSet(sw) = UNION {CellSet(d.m_memory) \ MarksOf(d) : d \in ToSet(kept)}
  BY <1>4, SweptIs
<1> HIDE DEF sw
<1>12. ToSet(sw) = HeldIn(es) \ M
  <2>1. ASSUME NEW p \in ToSet(sw) PROVE p \in HeldIn(kept) /\ p \notin M
    <3>1. PICK d \in ToSet(kept) : p \in CellSet(d.m_memory) \ MarksOf(d)
      BY <1>11
    <3>2. p \in HeldIn(kept)
      BY <3>1 DEF HeldIn, BlksOf
    <3>3. ASSUME p \in M PROVE FALSE
      <4>1. PICK e \in ToSet(kept) : p \in MarksOf(e)
        BY <1>6, <3>3 DEF MarkedIn
      <4>2. d = e
        BY <1>4, <3>1, <4>1, OneDescr DEF MarksOf
      <4> QED BY <3>1, <4>1, <4>2
    <3> QED BY <3>2, <3>3
  <2>2. ASSUME NEW p \in HeldIn(kept), p \notin M PROVE p \in ToSet(sw)
    <3>1. PICK d \in ToSet(kept) : p \in CellSet(d.m_memory)
      BY DEF HeldIn, BlksOf
    <3>2. p \notin MarksOf(d)
      BY <1>6, <2>2 DEF MarkedIn
    <3> QED BY <1>11, <3>1, <3>2
  <2> QED BY <1>9, <2>1, <2>2
<1>13. ObjectsIn(es) = ObjectsIn(ds) \cap M
  BY <1>6, <1>7, <1>8
<1>14. HeldIn(es) \subseteq HeldIn(ds)
  <2>1. BlksOf(kept) \subseteq BlksOf(ms)
    BY <1>4 DEF BlksOf
  <2>2. HeldIn(ms) = HeldIn(ds)
    BY <1>2 DEF SameBlks
  <2> QED BY <1>9, <2>1, <2>2 DEF HeldIn
<1> QED BY <1>8, <1>9, <1>10, <1>11, <1>12, <1>13, <1>14 DEF sw, es, kept, ms

-----------------------------------------------------------------------------
(* The bump region                                                         *)

Rest(top, end) == IF top = None THEN {} ELSE {p \in Cells : top <= p /\ p < end}

LEMMA RestEmpty == \A end \in Nat \cup {None} : Rest(end, end) = {}
<1> SUFFICES ASSUME NEW end \in Nat, NEW p \in Cells, end <= p, p < end PROVE FALSE
  BY NoneAssumption DEF Rest
<1>1. PICK b \in Blocks : p \in CellSet(b)
  BY CellsAre
<1>2. p \in Nat
  BY <1>1, CellInOne
<1> QED BY <1>2

\* The cells of a block from one of them on.
LEMMA RestOfBlock ==
    ASSUME NEW b \in Blocks, NEW top \in CellSet(b)
    PROVE  /\ top \in Rest(top, b + ChunkSize)
           /\ Rest(top + cell_size, b + ChunkSize) = Rest(top, b + ChunkSize) \ {top}
           /\ Rest(top, b + ChunkSize) \subseteq CellSet(b)
           /\ Rest(b, b + ChunkSize) = CellSet(b) /\ b \in CellSet(b)
           /\ top + cell_size \in CellSet(b) \cup {b + ChunkSize}
           /\ top \in Nat /\ b + ChunkSize \in Nat
<1> DEFINE end == b + ChunkSize
           Cell(k) == b + k * cell_size
<1>1. PICK k \in 0..N-1 : top = Cell(k)
  BY DEF CellSet
<1>2. \A j \in 0..N-1 : /\ Cell(j) \in Nat /\ b <= Cell(j) /\ Cell(j) + cell_size <= end
                        /\ Cell(j) \in CellSet(b)
  BY CellNumber DEF CellSet
<1>3. b \in Nat /\ ChunkSize \in Nat /\ cell_size \in Nat \ {0} /\ N \in Nat \ {0} /\ end \in Nat
  BY BlocksAssumption, BitsetAssumption, CellSizeAssumption DEF Chunks, ChunkSize, CHUNK_MAXSIZE
<1>4. \A p \in Cells : b <= p /\ p < end => p \in CellSet(b)
  <2> SUFFICES ASSUME NEW p \in Cells, b <= p, p < end PROVE p \in CellSet(b)
    OBVIOUS
  <2>1. PICK c \in Blocks : p \in CellSet(c)
    BY CellsAre
  <2>2. b = c
    BY <2>1, CellInOne
  <2> QED BY <2>1, <2>2
<1>5. CellSet(b) \subseteq Cells
  BY CellsAre
<1>6. ASSUME NEW j \in 0..N-1, NEW l \in 0..N-1
      PROVE  Cell(l) <= Cell(j) => Cell(l) = Cell(j) \/ Cell(l) + cell_size <= Cell(j)
  <2>1. /\ Cell(j) = b + cell_size * j /\ Cell(l) = b + cell_size * l
        /\ cell_size * j \in Int /\ cell_size * l \in Int
    BY <1>3
  <2>2. l < j => cell_size * l + cell_size <= cell_size * j
    BY <1>3, Multiples
  <2>3. j < l => cell_size * j + cell_size <= cell_size * l
    BY <1>3, Multiples
  <2>4. l < j \/ j < l \/ j = l
    BY <1>3
  <2> DEFINE x == cell_size * j
             y == cell_size * l
  <2>5. Cell(j) = b + x /\ Cell(l) = b + y /\ x \in Int /\ y \in Int
        /\ (l < j => y + cell_size <= x) /\ (j < l => x + cell_size <= y) /\ (j = l => x = y)
    BY <2>1, <2>2, <2>3
  <2> HIDE DEF x, y, Cell
  <2> QED BY <1>3, <2>4, <2>5
<1>7. top + cell_size \in CellSet(b) \cup {end}
  <2>1. CASE k + 1 \in 0..N-1
    <3>1. Cell(k+1) = Cell(k) + cell_size
      BY <1>3
    <3> HIDE DEF Cell
    <3> QED BY <1>1, <1>2, <2>1, <3>1
  <2>2. CASE k + 1 = N
    <3>1. Cell(k) + cell_size = b + (k + 1) * cell_size
      BY <1>3
    <3>2. Cell(k) + cell_size = end
      BY <2>2, <3>1, <1>3 DEF ChunkSize, CHUNK_MAXSIZE
    <3> QED BY <1>1, <3>2
  <2> QED BY <2>1, <2>2, <1>3
<1>8. CellSet(b) = {Cell(j) : j \in 0..N-1}
  BY DEF CellSet
<1>9. b = Cell(0) /\ 0 \in 0..N-1
  BY <1>3
<1> HIDE DEF end, Cell
<1>10. top \in Nat /\ top + cell_size \in Nat /\ b <= top /\ top < end
  BY <1>1, <1>2, <1>3
<1>11. Rest(top, end) = {p \in Cells : top <= p /\ p < end}
  BY <1>10, NoneAssumption DEF Rest
<1>12. Rest(top + cell_size, end) = {p \in Cells : top + cell_size <= p /\ p < end}
  BY <1>10, NoneAssumption DEF Rest
<1>13. Rest(b, end) = {p \in Cells : b <= p /\ p < end}
  BY <1>3, NoneAssumption DEF Rest
<1>14. top \in Rest(top, end)
  BY <1>5, <1>10, <1>11
<1>15. Rest(top, end) \subseteq CellSet(b)
  <2> SUFFICES ASSUME NEW p \in Cells, top <= p, p < end PROVE p \in CellSet(b)
    BY <1>11
  <2>1. PICK c \in Blocks : p \in CellSet(c)
    BY CellsAre
  <2>2. p \in Nat
    BY <2>1, CellInOne
  <2>3. b <= p
    BY <1>3, <1>10, <2>2
  <2> QED BY <1>4, <2>3
<1>16. Rest(b, end) = CellSet(b) /\ b \in CellSet(b)
  <2>1. \A p \in CellSet(b) : b <= p /\ p < end
    BY <1>2, <1>3, <1>8
  <2> QED BY <1>2, <1>4, <1>5, <1>9, <1>13, <2>1
<1>17. Rest(top + cell_size, end) = Rest(top, end) \ {top}
  <2>1. ASSUME NEW p \in CellSet(b) PROVE top + cell_size <= p <=> top <= p /\ p # top
    <3>1. PICK j \in 0..N-1 : p = Cell(j)
      BY <1>8
    <3>2. p \in Nat
      BY <1>2, <3>1
    <3>3. top <= p => top = p \/ top + cell_size <= p
      BY <1>1, <1>6, <3>1
    <3> QED BY <1>3, <1>10, <3>2, <3>3
  <2>2. Rest(top + cell_size, end) \subseteq CellSet(b)
    <3> SUFFICES ASSUME NEW p \in Cells, top + cell_size <= p, p < end PROVE p \in CellSet(b)
      BY <1>12
    <3>1. PICK c \in Blocks : p \in CellSet(c)
      BY CellsAre
    <3>2. p \in Nat
      BY <3>1, CellInOne
    <3>3. b <= p
      BY <1>3, <1>10, <3>2
    <3> QED BY <1>4, <3>3
  <2> QED BY <1>11, <1>12, <1>15, <2>1, <2>2
<1> QED BY <1>3, <1>7, <1>10, <1>14, <1>15, <1>16, <1>17 DEF end

-----------------------------------------------------------------------------
(* The invariant                                                           *)
(*                                                                         *)
(* Every cell of the blocks is in one place at a time.  That the cell the  *)
(* bump pointer or the free list gives out next is free has to hold before *)
(* it is given out, hence of the whole bump region and list; that sweep    *)
(* and shrink see a cell in one descriptor, hence that no block has two;   *)
(* and that a call of gc_new that waits for a block or a collection has    *)
(* used up the bump region.                                                *)

\* The sets of cells: of the blocks, with an object, marked, under
\* construction, in the free list, in the bump region, aborted, reached.
Placed(held, objs, marks, building, free, bump, ab, rch) ==
    /\ free \subseteq held /\ free \cap (objs \cup marks \cup building \cup bump) = {}
    /\ building \subseteq held /\ building \cap objs = {}
    /\ bump \cap (objs \cup marks \cup building) = {}
    /\ held \subseteq objs \cup building \cup free \cup bump \cup ab
    /\ rch \subseteq objs

CellsInv ==
    /\ Distinct(m_descrs)
    /\ IsInjective(m_freelist) /\ IsInjective(news)
    /\ Placed(HeldIn(m_descrs), ObjectsIn(m_descrs), MarkedIn(m_descrs), ToSet(news),
              ToSet(m_freelist), Rest(m_top, m_end), aborted, reach)

BumpInv ==
    m_top # m_end =>
        LET b == m_descrs[Len(m_descrs)].m_memory IN
        m_descrs # <<>> /\ m_end = b + ChunkSize /\ m_top \in CellSet(b)

CallInv == pc # "run" => m_top = m_end /\ Len(news) < MaxNest

IInv == TypeOK /\ CellsInv /\ BumpInv /\ CallInv

\* The state functions of the module in these terms.
LEMMA ViewsOf ==
    ASSUME NEW ds \in Seq(Descrs)
    PROVE  /\ UNION {CellsOf(d) : d \in ToSet(ds)} = HeldIn(ds)
           /\ UNION {{p \in CellsOf(d) : GetMark(d, p)} : d \in ToSet(ds)} = MarkedIn(ds)
           /\ UNION {{p \in CellsOf(d) : IsInit(d, p)} : d \in ToSet(ds)} = ObjectsIn(ds)
<1>1. \A d \in ToSet(ds) : CellsOf(d) = CellSet(d.m_memory)
  <2> SUFFICES ASSUME NEW d \in ToSet(ds) PROVE CellsOf(d) = CellSet(d.m_memory)
    OBVIOUS
  <2>1. d \in Descrs
    BY ElementsAre
  <2> QED BY <2>1, CellsOfIs DEF Descrs
<1> QED BY <1>1 DEF HeldIn, BlksOf, MarkedIn, ObjectsIn, MarksOf, ObjectsOf

LEMMA Views ==
    ASSUME m_descrs \in Seq(Descrs)
    PROVE  /\ UNION {CellsOf(d) : d \in Descriptors} = HeldIn(m_descrs)
           /\ Marked = MarkedIn(m_descrs) /\ Objects = ObjectsIn(m_descrs)
           /\ Blks = BlksOf(m_descrs)
           /\ Bump = Rest(m_top, m_end)
BY ViewsOf DEF Descriptors, Marked, Objects, With, Blks, BlksOf, Bump, Rest

LEMMA ViewsNext ==
    ASSUME (m_descrs \in Seq(Descrs))'
    PROVE  Objects' = ObjectsIn(m_descrs')
<1> DEFINE ds == m_descrs'
<1>1. ds \in Seq(Descrs)
  OBVIOUS
<1> HIDE DEF ds
<1>2. UNION {{p \in CellsOf(d) : IsInit(d, p)} : d \in ToSet(ds)} = ObjectsIn(ds)
  BY <1>1, ViewsOf
<1> QED BY <1>2 DEF ds, Descriptors, Objects, With

LEMMA Typed ==
    ASSUME TypeOK
    PROVE  /\ m_descrs \in Seq(Descrs) /\ m_freelist \in Seq(Cells) /\ news \in Seq(Cells)
           /\ m_end \in Nat \cup {None} /\ HeldIn(m_descrs) \subseteq Cells
           /\ ToSet(news) \subseteq Cells
<1>1. \A b \in Blocks : b + ChunkSize \in Nat
  BY RestOfBlock, BitsetAssumption DEF CellSet
<1>2. m_descrs \in Seq(Descrs) /\ m_freelist \in Seq(Cells) /\ news \in Seq(Cells)
  BY DEF TypeOK
<1>3. m_end \in Nat \cup {None}
  BY <1>1 DEF TypeOK
<1>4. ToSet(news) \subseteq Cells
  BY <1>2 DEF ToSet
<1> QED BY <1>2, <1>3, <1>4, InDescrs

LEMMA InvIsSound ==
    ASSUME IInv
    PROVE  CellsAccounted /\ DescriptorsMatch
<1> USE DEF IInv
<1>1. /\ UNION {CellsOf(d) : d \in Descriptors} = HeldIn(m_descrs)
      /\ Marked = MarkedIn(m_descrs) /\ Objects = ObjectsIn(m_descrs)
      /\ Bump = Rest(m_top, m_end)
  BY Typed, Views
<1>2. /\ IsInjective(m_freelist)
      /\ Placed(HeldIn(m_descrs), Objects, Marked, ToSet(news), ToSet(m_freelist), Bump, aborted, reach)
  BY <1>1 DEF CellsInv
<1>3. Objects \subseteq HeldIn(m_descrs)
  BY <1>1, Typed, InDescrs
<1>4. FreelistSound
  BY <1>1, <1>2 DEF FreelistSound, Placed
<1>5. NoCellLost
  <2>1. \A d \in Descriptors : CellsOf(d) \subseteq HeldIn(m_descrs)
    BY <1>1
  <2> QED BY <1>2, <2>1 DEF NoCellLost, Placed
<1>6. ASSUME m_top # m_end PROVE InChunk(Last(m_descrs), m_top)
  <2> DEFINE n == Len(m_descrs)
             d == m_descrs[n]
  <2>1. m_descrs \in Seq(Descrs) /\ m_descrs # <<>> /\ m_top \in CellSet(d.m_memory)
    BY <1>6, Typed DEF BumpInv
  <2>2. n \in DOMAIN m_descrs
    BY <2>1
  <2>3. d \in Descrs
    BY <2>1, <2>2
  <2> HIDE DEF d
  <2>4. m_top \in Cells
    BY <2>1, <2>3, CellsAre DEF Descrs
  <2>5. InChunk(d, m_top)
    BY <2>1, <2>3, <2>4, InChunkIs
  <2> QED BY <2>5 DEF d, Last
<1>7. DescriptorsMatch
  BY <1>1, <1>2, <1>3, <1>6 DEF DescriptorsMatch, Placed
<1> QED BY <1>4, <1>5, <1>7 DEF CellsAccounted

LEMMA InitIInv == Init => IInv
<1> SUFFICES ASSUME Init PROVE IInv
  OBVIOUS
<1> USE DEF Init
<1>1. ToSet(<<>>) = {} /\ IsInjective(<<>>) /\ Distinct(<<>>)
  BY DEF ToSet, IsInjective, Distinct
<1>2. TypeOK
  <2>1. <<>> \in Seq(Descrs) /\ <<>> \in Seq(Cells)
    OBVIOUS
  <2>2. Len(<<>>) = 0 /\ 0 <= MaxNest
    BY MaxNestAssumption
  <2>3. news \in Seq(Cells) /\ Len(news) <= MaxNest
    BY <2>1, <2>2
  <2>4. attempt_num \in 0..2
    OBVIOUS
  <2> QED BY <2>1, <2>3, <2>4 DEF TypeOK, Phases
<1>3. Rest(None, None) = {} /\ HeldIn(<<>>) = {} /\ ObjectsIn(<<>>) = {} /\ MarkedIn(<<>>) = {}
  BY <1>1 DEF Rest, HeldIn, BlksOf, ObjectsIn, MarkedIn
<1>4. CellsInv
  BY <1>1, <1>3 DEF CellsInv, Placed
<1>5. BumpInv /\ CallInv
  BY DEF BumpInv, CallInv
<1> QED BY <1>2, <1>4, <1>5 DEF IInv

-----------------------------------------------------------------------------
(* The steps                                                               *)

\* What a step keeps or does, with the step of CellStore it is.
Kept == IInv' /\ [Store!Next]_(Store!vars)

LEMMA WaitSteps ==
    ASSUME IInv, TryExpand \/ CoreLaunches \/ LaunchCollect \/ ExpandHeap \/ BadAlloc
    PROVE  Kept
<1>1. /\ UNCHANGED <<pool, m_phase, news, reach, aborted>>
      /\ pc' # "run" => m_top = m_end /\ Len(news) < MaxNest
      /\ pc' \in {"run", "expand", "launch", "granted", "gc"}
      /\ attempt_num' \in 0..2 /\ retried' \in BOOLEAN
  <2>1. /\ pc # "run" => m_top = m_end /\ Len(news) < MaxNest
        /\ attempt_num \in 0..2 /\ retried \in BOOLEAN
    BY DEF IInv, TypeOK, CallInv
  <2>2. CASE TryExpand
    BY <2>1, <2>2 DEF TryExpand
  <2>3. CASE CoreLaunches
    BY <2>1, <2>3 DEF CoreLaunches
  <2>4. CASE LaunchCollect
    BY <2>1, <2>4 DEF LaunchCollect
  <2>5. CASE ExpandHeap
    BY <2>1, <2>5 DEF ExpandHeap
  <2>6. CASE BadAlloc
    <3>1. retried' \in BOOLEAN
      BY <2>1, <2>6, Zenon DEF BadAlloc
    <3> QED BY <2>1, <2>6, <3>1 DEF BadAlloc
  <2> QED BY <2>2, <2>3, <2>4, <2>5, <2>6
<1>2. TypeOK'
  BY <1>1 DEF IInv, TypeOK, pool
<1>3. CellsInv'
  BY <1>1 DEF IInv, CellsInv, pool
<1>4. BumpInv' /\ CallInv'
  BY <1>1 DEF IInv, BumpInv, CallInv, pool
<1>5. UNCHANGED Store!vars
  BY <1>1 DEF Store!vars, pool, Objects, With, Descriptors
<1> QED BY <1>2, <1>3, <1>4, <1>5 DEF Kept, IInv

\* A cell that was in the bump region, or the list, is under construction.
LEMMA StackAllocationStep ==
    ASSUME IInv, StackAllocation
    PROVE  Kept
<1> DEFINE n == Len(m_descrs)
           b == m_descrs[n].m_memory
           top == m_top
           held == HeldIn(m_descrs)
<1>1. /\ news' = Append(news, m_top) /\ m_top' = m_top + cell_size
      /\ pc' = "run" /\ attempt_num' = 0 /\ retried' = FALSE
      /\ UNCHANGED <<m_descrs, m_end, m_freelist, m_phase, reach, aborted>>
      /\ m_top # m_end /\ Len(news) < MaxNest
  BY DEF StackAllocation, InitCell
<1>2. m_descrs # <<>> /\ m_end = b + ChunkSize /\ top \in CellSet(b)
  BY <1>1 DEF IInv, BumpInv
<1>3. b \in Blocks /\ CellSet(b) \subseteq held /\ top \in Cells
  <2>1. m_descrs \in Seq(Descrs) /\ n \in DOMAIN m_descrs
    BY <1>2, Typed DEF IInv
  <2>2. m_descrs[n] \in Descrs /\ b \in BlksOf(m_descrs)
    BY <2>1 DEF BlksOf, ToSet
  <2>3. b \in Blocks
    BY <2>2 DEF Descrs
  <2> QED BY <1>2, <2>2, <2>3, CellsAre DEF HeldIn
<1> HIDE DEF n, b
<1>4. /\ top \in Rest(top, m_end) /\ Rest(m_top', m_end) = Rest(top, m_end) \ {top}
      /\ m_top' \in CellSet(b) \cup {m_end}
  BY <1>1, <1>2, <1>3, RestOfBlock
<1>5. Placed(held, ObjectsIn(m_descrs), MarkedIn(m_descrs), ToSet(news), ToSet(m_freelist),
             Rest(top, m_end), aborted, reach)
  BY DEF IInv, CellsInv
<1>6. news \in Seq(Cells) /\ IsInjective(news) /\ Len(news) \in Nat
  BY Typed DEF IInv, CellsInv
<1>7. top \notin ToSet(news) \cup ObjectsIn(m_descrs)
  BY <1>4, <1>5 DEF Placed
<1> HIDE DEF top, held
<1>8. /\ news' \in Seq(Cells) /\ Len(news') = Len(news) + 1
      /\ ToSet(news') = ToSet(news) \cup {top} /\ IsInjective(news')
  BY <1>1, <1>3, <1>6, <1>7, AppendIs DEF top
<1>9. Placed(held, ObjectsIn(m_descrs), MarkedIn(m_descrs), ToSet(news'), ToSet(m_freelist),
             Rest(m_top', m_end), aborted, reach)
  BY <1>2, <1>3, <1>4, <1>5, <1>7, <1>8 DEF Placed
<1>10. TypeOK'
  <2>1. news' \in Seq(Cells) /\ Len(news') <= MaxNest
    BY <1>1, <1>6, <1>8, MaxNestAssumption
  <2>2. m_top' \in Cells \cup {m_end'}
    BY <1>1, <1>3, <1>4, CellsAre
  <2>3. attempt_num' \in 0..2
    BY <1>1
  <2> QED BY <1>1, <2>1, <2>2, <2>3 DEF IInv, TypeOK
<1>11. CellsInv'
  BY <1>1, <1>8, <1>9 DEF IInv, CellsInv, held
<1>12. BumpInv' /\ CallInv'
  BY <1>1, <1>2, <1>4 DEF BumpInv, CallInv, b, n
<1>13. Store!Allocate(top)
  <2>1. Objects = ObjectsIn(m_descrs)
    BY Typed, Views DEF IInv
  <2>2. Objects' = Objects
    BY <1>1 DEF Objects, With, Descriptors
  <2> QED BY <1>1, <1>7, <1>8, <2>1, <2>2 DEF Store!Allocate
<1>14. Store!Next
  BY <1>3, <1>13 DEF Store!Next
<1> QED BY <1>10, <1>11, <1>12, <1>14 DEF Kept, IInv

LEMMA UseBlockStep ==
    ASSUME IInv, NEW b \in Blocks, UseBlock(b)
    PROVE  Kept
<1> DEFINE ds == m_descrs
           ds1 == m_descrs'
           e == NewDescriptor(b)
           held == HeldIn(m_descrs)
           end == b + ChunkSize
<1>1. /\ news' = Append(news, b) /\ m_top' = b + cell_size /\ m_end' = end
      /\ ds1 = Append(ds, e)
      /\ pc' = "run" /\ attempt_num' = 0 /\ retried' = FALSE
      /\ UNCHANGED <<m_freelist, m_phase, reach, aborted>>
      /\ pc # "run" /\ b \notin Blks
  BY DEF UseBlock, InitCell
<1>2. ds \in Seq(Descrs) /\ Distinct(ds) /\ m_top = m_end /\ Len(news) < MaxNest /\ b \notin BlksOf(ds)
  BY <1>1, Typed, Views DEF IInv, CellsInv, CallInv
<1>3. e \in Descrs /\ e.m_memory = b /\ MarksOf(e) = {} /\ ObjectsOf(e) = {}
  BY NewCells DEF MarksOf, ObjectsOf
<1> HIDE DEF ds, ds1, e
<1>4. /\ ds1 \in Seq(Descrs) /\ Len(ds1) = Len(ds) + 1 /\ ToSet(ds1) = ToSet(ds) \cup {e}
      /\ ds1[Len(ds1)] = e
  BY <1>1, <1>2, <1>3, AppendIs
<1>5. Distinct(ds1)
  <2>1. /\ DOMAIN ds1 = DOMAIN ds \cup {Len(ds1)} /\ Len(ds1) \notin DOMAIN ds
        /\ \A i \in DOMAIN ds : ds1[i] = ds[i]
    <3>1. \A i \in 1..Len(ds) : ds1[i] = ds[i]
      BY <1>1, <1>2, <1>3, AppendProperties
    <3>2. DOMAIN ds = 1..Len(ds) /\ DOMAIN ds1 = 1..Len(ds)+1 /\ Len(ds) \in Nat
      BY <1>2, <1>4
    <3> QED BY <1>4, <3>1, <3>2
  <2>2. \A i \in DOMAIN ds : ds[i].m_memory # b
    BY <1>2 DEF BlksOf, ToSet
  <2> QED BY <1>2, <1>3, <1>4, <2>1, <2>2 DEF Distinct
<1>6. /\ HeldIn(ds1) = HeldIn(ds) \cup CellSet(b)
      /\ MarkedIn(ds1) = MarkedIn(ds) /\ ObjectsIn(ds1) = ObjectsIn(ds)
  <2>1. BlksOf(ds1) = BlksOf(ds) \cup {b}
    BY <1>3, <1>4 DEF BlksOf
  <2> QED BY <1>3, <1>4, <2>1 DEF HeldIn, MarkedIn, ObjectsIn
<1>7. CellSet(b) \cap HeldIn(ds) = {}
  <2> SUFFICES ASSUME NEW c \in BlksOf(ds), NEW p \in CellSet(b), p \in CellSet(c) PROVE FALSE
    BY DEF HeldIn
  <2>1. c \in Blocks
    BY <1>2, ElementsAre DEF BlksOf
  <2> QED BY <1>2, <2>1, CellInOne
<1>8. MarkedIn(ds) \subseteq HeldIn(ds) /\ ObjectsIn(ds) \subseteq HeldIn(ds)
  BY <1>2, InDescrs
<1>9. /\ Rest(m_top', m_end') = CellSet(b) \ {b} /\ b \in CellSet(b)
      /\ m_top' \in CellSet(b) \cup {m_end'}
  <2>1. b \in CellSet(b)
    BY RestOfBlock, BitsetAssumption DEF CellSet
  <2>2. /\ Rest(b + cell_size, end) = Rest(b, end) \ {b} /\ Rest(b, end) = CellSet(b)
        /\ b + cell_size \in CellSet(b) \cup {end}
    BY <2>1, RestOfBlock
  <2> QED BY <1>1, <2>1, <2>2
<1>10. Placed(HeldIn(ds), ObjectsIn(ds), MarkedIn(ds), ToSet(news), ToSet(m_freelist), {}, aborted, reach)
  <2>1. Rest(m_top, m_end) = {}
    BY <1>2, Typed, RestEmpty DEF IInv
  <2> QED BY <2>1 DEF IInv, CellsInv, ds
<1>11. b \notin ToSet(news) \cup ObjectsIn(ds) /\ b \in Cells
  BY <1>7, <1>8, <1>9, <1>10, CellsAre DEF Placed
<1>12. news \in Seq(Cells) /\ IsInjective(news) /\ Len(news) \in Nat
  BY Typed DEF IInv, CellsInv
<1>13. /\ news' \in Seq(Cells) /\ Len(news') = Len(news) + 1
       /\ ToSet(news') = ToSet(news) \cup {b} /\ IsInjective(news')
  BY <1>1, <1>11, <1>12, AppendIs
<1>14. Placed(HeldIn(ds1), ObjectsIn(ds1), MarkedIn(ds1), ToSet(news'), ToSet(m_freelist),
              Rest(m_top', m_end'), aborted, reach)
  BY <1>6, <1>7, <1>8, <1>9, <1>10, <1>13 DEF Placed
<1>15. TypeOK'
  <2>1. news' \in Seq(Cells) /\ Len(news') <= MaxNest
    BY <1>2, <1>12, <1>13, MaxNestAssumption
  <2>2. m_top' \in Cells \cup {m_end'}
    BY <1>9, CellsAre
  <2>3. attempt_num' \in 0..2
    BY <1>1
  <2>4. m_end' \in {c + ChunkSize : c \in Blocks} \cup {None}
    BY <1>1
  <2>5. m_descrs' \in Seq(Descrs)
    BY <1>4 DEF ds1
  <2> QED BY <1>1, <2>1, <2>2, <2>3, <2>4, <2>5 DEF IInv, TypeOK
<1>16. CellsInv'
  BY <1>1, <1>5, <1>13, <1>14 DEF IInv, CellsInv, ds1
<1>17. BumpInv' /\ CallInv'
  <2>1. ds1 # <<>> /\ ds1[Len(ds1)].m_memory = b
    BY <1>1, <1>2, <1>3, <1>4, AppendProperties
  <2> QED BY <1>1, <1>9, <2>1 DEF BumpInv, CallInv, ds1
<1>18. Store!Allocate(b)
  <2>1. Objects = ObjectsIn(ds)
    BY Typed, Views DEF IInv, ds
  <2>2. Objects' = ObjectsIn(ds1)
    BY <1>4, ViewsNext DEF ds1
  <2> QED BY <1>1, <1>6, <1>11, <1>13, <2>1, <2>2 DEF Store!Allocate
<1>19. Store!Next
  BY <1>11, <1>18 DEF Store!Next
<1> QED BY <1>15, <1>16, <1>17, <1>19 DEF Kept, IInv

\* A sequence without its first or its last element.
LEMMA TailIs ==
    ASSUME NEW T, NEW s \in Seq(T), s # <<>>, IsInjective(s)
    PROVE  /\ Tail(s) \in Seq(T) /\ IsInjective(Tail(s))
           /\ Head(s) \in ToSet(s) /\ ToSet(Tail(s)) = ToSet(s) \ {Head(s)}
<1> DEFINE t == Tail(s)
           n == Len(s)
<1>1. n \in Nat /\ n >= 1 /\ DOMAIN s = 1..n /\ Head(s) = s[1]
  OBVIOUS
<1>2. t \in Seq(T) /\ Len(t) = n - 1 /\ \A i \in 1..n-1 : t[i] = s[i+1]
  BY HeadTailProperties
<1> HIDE DEF t, n
<1>3. DOMAIN t = 1..n-1
  BY <1>2
<1>4. \A i \in 1..n-1 : i + 1 \in 1..n /\ i + 1 # 1
  BY <1>1
<1>5. \A i \in 1..n : i # 1 => i - 1 \in 1..n-1 /\ (i - 1) + 1 = i
  BY <1>1
<1>6. IsInjective(t)
  <2> SUFFICES ASSUME NEW i \in 1..n-1, NEW j \in 1..n-1, t[i] = t[j] PROVE i = j
    BY <1>3 DEF IsInjective
  <2>1. s[i+1] = s[j+1]
    BY <1>2
  <2>2. i + 1 = j + 1
    BY <1>1, <1>4, <2>1 DEF IsInjective
  <2> QED BY <1>1, <2>2
<1>7. ToSet(t) = ToSet(s) \ {Head(s)}
  <2>1. ASSUME NEW x \in ToSet(t) PROVE x \in ToSet(s) \ {s[1]}
    <3>1. PICK i \in 1..n-1 : x = t[i]
      BY <1>3 DEF ToSet
    <3>2. x = s[i+1] /\ i + 1 \in 1..n /\ i + 1 # 1 /\ 1 \in 1..n
      BY <1>1, <1>2, <1>4, <3>1
    <3> QED BY <1>1, <3>2 DEF ToSet, IsInjective
  <2>2. ASSUME NEW x \in ToSet(s), x # s[1] PROVE x \in ToSet(t)
    <3>1. PICK i \in 1..n : x = s[i] /\ i # 1
      BY <1>1, <2>2 DEF ToSet
    <3>2. i - 1 \in 1..n-1 /\ t[i-1] = x
      BY <1>2, <1>5, <3>1
    <3> QED BY <1>3, <3>2 DEF ToSet
  <2> QED BY <1>1, <2>1, <2>2
<1>8. Head(s) \in ToSet(s)
  BY <1>1 DEF ToSet
<1> QED BY <1>2, <1>6, <1>7, <1>8 DEF t

LEMMA FrontIs ==
    ASSUME NEW T, NEW s \in Seq(T), s # <<>>, IsInjective(s)
    PROVE  /\ Front(s) \in Seq(T) /\ Len(Front(s)) = Len(s) - 1 /\ IsInjective(Front(s))
           /\ Last(s) \in ToSet(s) /\ ToSet(Front(s)) = ToSet(s) \ {Last(s)}
<1> DEFINE t == Front(s)
           n == Len(s)
<1>1. n \in Nat /\ n >= 1 /\ DOMAIN s = 1..n /\ Last(s) = s[n] /\ n \in 1..n
  BY DEF Last
<1>2. t \in Seq(T) /\ Len(t) = n - 1 /\ \A i \in 1..n-1 : t[i] = s[i]
  BY <1>1 DEF Front
<1> HIDE DEF t, n
<1>3. DOMAIN t = 1..n-1
  BY <1>1, <1>2
<1>4. 1..n = 1..n-1 \cup {n} /\ n \notin 1..n-1
  BY <1>1
<1>5. IsInjective(t)
  BY <1>1, <1>2, <1>3, <1>4 DEF IsInjective
<1>6. ToSet(t) = ToSet(s) \ {s[n]}
  <2>1. ASSUME NEW x \in ToSet(t) PROVE x \in ToSet(s) \ {s[n]}
    <3>1. PICK i \in 1..n-1 : x = s[i]
      BY <1>2, <1>3 DEF ToSet
    <3> QED BY <1>1, <1>4, <3>1 DEF ToSet, IsInjective
  <2>2. ASSUME NEW x \in ToSet(s), x # s[n] PROVE x \in ToSet(t)
    BY <1>1, <1>2, <1>3, <1>4, <2>2 DEF ToSet
  <2> QED BY <2>1, <2>2
<1>7. Last(s) \in ToSet(s)
  BY <1>1 DEF ToSet
<1> QED BY <1>1, <1>2, <1>5, <1>6, <1>7 DEF t, n

LEMMA FreelistAllocationStep ==
    ASSUME IInv, FreelistAllocation
    PROVE  Kept
<1> DEFINE c == Head(m_freelist)
           held == HeldIn(m_descrs)
           free == m_freelist'
<1>1. /\ news' = Append(news, c) /\ free = Tail(m_freelist)
      /\ pc' = "run" /\ attempt_num' = 0 /\ retried' = FALSE
      /\ UNCHANGED <<m_descrs, m_top, m_end, m_phase, reach, aborted>>
      /\ m_freelist # <<>> /\ m_top = m_end /\ Len(news) < MaxNest
  BY DEF FreelistAllocation, InitCell, IInv, CallInv
<1>2. m_freelist \in Seq(Cells) /\ IsInjective(m_freelist)
  BY Typed DEF IInv, CellsInv
<1>3. /\ free \in Seq(Cells) /\ IsInjective(free)
      /\ c \in ToSet(m_freelist) /\ ToSet(free) = ToSet(m_freelist) \ {c}
  BY <1>1, <1>2, TailIs
<1>4. Placed(held, ObjectsIn(m_descrs), MarkedIn(m_descrs), ToSet(news), ToSet(m_freelist),
             {}, aborted, reach)
  <2>1. Rest(m_top, m_end) = {}
    BY <1>1, Typed, RestEmpty DEF IInv
  <2> QED BY <2>1 DEF IInv, CellsInv
<1>5. news \in Seq(Cells) /\ IsInjective(news) /\ Len(news) \in Nat
  BY Typed DEF IInv, CellsInv
<1>6. c \in Cells /\ c \in held /\ c \notin ToSet(news) \cup ObjectsIn(m_descrs)
  <2>1. c \in Cells
    BY <1>2, <1>3 DEF ToSet
  <2> QED BY <1>3, <1>4, <2>1 DEF Placed
<1> HIDE DEF c, held, free
<1>7. /\ news' \in Seq(Cells) /\ Len(news') = Len(news) + 1
      /\ ToSet(news') = ToSet(news) \cup {c} /\ IsInjective(news')
  BY <1>1, <1>5, <1>6, AppendIs
<1>8. Placed(held, ObjectsIn(m_descrs), MarkedIn(m_descrs), ToSet(news'), ToSet(free),
             Rest(m_top, m_end), aborted, reach)
  <2>1. Rest(m_top, m_end) = {}
    BY <1>1, Typed, RestEmpty DEF IInv
  <2> QED BY <1>3, <1>4, <1>6, <1>7, <2>1 DEF Placed
<1>9. TypeOK'
  <2>1. news' \in Seq(Cells) /\ Len(news') <= MaxNest
    BY <1>1, <1>5, <1>7, MaxNestAssumption
  <2>2. attempt_num' \in 0..2
    BY <1>1
  <2> QED BY <1>1, <1>3, <2>1, <2>2 DEF IInv, TypeOK, free
<1>10. CellsInv'
  BY <1>1, <1>3, <1>7, <1>8 DEF IInv, CellsInv, held, free
<1>11. BumpInv' /\ CallInv'
  BY <1>1 DEF BumpInv, CallInv
<1>12. Store!Allocate(c)
  <2>1. Objects = ObjectsIn(m_descrs)
    BY Typed, Views DEF IInv
  <2>2. Objects' = Objects
    BY <1>1 DEF Objects, With, Descriptors
  <2> QED BY <1>1, <1>6, <1>7, <2>1, <2>2 DEF Store!Allocate
<1>13. Store!Next
  BY <1>6, <1>12 DEF Store!Next
<1> QED BY <1>9, <1>10, <1>11, <1>13 DEF Kept, IInv

\* The constructor threw: the cell waits for the sweep.
LEMMA AbortStep ==
    ASSUME IInv, Abort
    PROVE  Kept
<1> DEFINE c == Last(news)
           held == HeldIn(m_descrs)
<1>1. /\ news' = Front(news) /\ aborted' = aborted \cup {c} /\ news # <<>> /\ pc = "run"
      /\ UNCHANGED <<m_descrs, m_top, m_end, m_freelist, m_phase, pc, attempt_num, retried, reach>>
  BY DEF Abort, pool, call
<1>2. news \in Seq(Cells) /\ IsInjective(news) /\ Len(news) \in Nat /\ ToSet(news) \subseteq Cells
  BY Typed DEF IInv, CellsInv
<1>3. /\ news' \in Seq(Cells) /\ Len(news') = Len(news) - 1 /\ IsInjective(news')
      /\ c \in ToSet(news) /\ ToSet(news') = ToSet(news) \ {c}
  BY <1>1, <1>2, FrontIs
<1> HIDE DEF c
<1>4. Placed(held, ObjectsIn(m_descrs), MarkedIn(m_descrs), ToSet(news), ToSet(m_freelist),
             Rest(m_top, m_end), aborted, reach)
  BY DEF IInv, CellsInv
<1> HIDE DEF held
<1>5. Placed(held, ObjectsIn(m_descrs), MarkedIn(m_descrs), ToSet(news'), ToSet(m_freelist),
             Rest(m_top, m_end), aborted', reach)
  BY <1>1, <1>3, <1>4 DEF Placed
<1>6. TypeOK'
  <2>1. Len(news') <= MaxNest
    BY <1>2, <1>3, MaxNestAssumption DEF IInv, TypeOK
  <2>2. aborted' \subseteq Cells
    BY <1>1, <1>2, <1>3 DEF IInv, TypeOK
  <2> QED BY <1>1, <1>3, <2>1, <2>2 DEF IInv, TypeOK
<1>7. CellsInv'
  BY <1>1, <1>3, <1>5 DEF IInv, CellsInv, held
<1>8. BumpInv' /\ CallInv'
  BY <1>1 DEF IInv, BumpInv, CallInv
<1>9. Store!Abort(c)
  <2>1. Objects' = Objects
    BY <1>1 DEF Objects, With, Descriptors
  <2> QED BY <1>1, <1>3, <2>1 DEF Store!Abort
<1>10. Store!Next
  BY <1>2, <1>3, <1>9 DEF Store!Next
<1> QED BY <1>6, <1>7, <1>8, <1>10 DEF Kept, IInv

LEMMA LoseStep ==
    ASSUME IInv, NEW c \in Cells, Lose(c)
    PROVE  Kept
<1>1. /\ reach' = reach \ {c}
      /\ UNCHANGED <<m_descrs, m_top, m_end, m_freelist, m_phase, news, pc, attempt_num, retried,
                     aborted>>
  BY DEF Lose, pool, call
<1>2. TypeOK'
  BY <1>1 DEF IInv, TypeOK
<1>3. CellsInv'
  BY <1>1 DEF IInv, CellsInv, Placed
<1>4. BumpInv' /\ CallInv'
  BY <1>1 DEF IInv, BumpInv, CallInv
<1>5. Store!Lose
  BY <1>1 DEF Store!Lose, Objects, With, Descriptors
<1>6. Store!Next
  BY <1>5 DEF Store!Next
<1> QED BY <1>2, <1>3, <1>4, <1>6 DEF Kept, IInv

\* Bits change, blocks do not: the bump region is in the last one still.
LEMMA BumpKept ==
    ASSUME TypeOK, BumpInv, SameBlks(m_descrs, m_descrs'), UNCHANGED <<m_top, m_end>>
    PROVE  BumpInv'
<1> DEFINE n == Len(m_descrs)
           ds == m_descrs
           es == m_descrs'
<1> SUFFICES ASSUME m_top # m_end
             PROVE  /\ es # <<>> /\ Len(es) = n
                    /\ m_end = es[n].m_memory + ChunkSize /\ m_top \in CellSet(es[n].m_memory)
  BY DEF BumpInv
<1>1. ds \in Seq(Descrs) /\ ds # <<>>
  BY Typed DEF BumpInv
<1>2. m_end = ds[n].m_memory + ChunkSize /\ m_top \in CellSet(ds[n].m_memory)
  BY DEF BumpInv
<1>3. n \in Nat /\ n > 0 /\ n \in DOMAIN ds
  BY <1>1
<1> HIDE DEF n, ds, es
<1>4. es \in Seq(Descrs) /\ Len(es) = Len(ds) /\ \A i \in DOMAIN ds : es[i].m_memory = ds[i].m_memory
  BY DEF SameBlks, ds, es
<1>5. es[n].m_memory = ds[n].m_memory
  BY <1>3, <1>4
<1>6. es # <<>> /\ Len(es) = n
  BY <1>1, <1>3, <1>4 DEF n, ds
<1> QED BY <1>2, <1>5, <1>6

\* The object is constructed: its cell is marked too while marking goes on.
LEMMA CommitStep ==
    ASSUME IInv, Commit
    PROVE  Kept
<1> DEFINE c == Last(news)
           ds == m_descrs
           cs == CommittedDescrs(ds, {c})
           ms == MarkedDescrs(cs, {c})
           es == m_descrs'
<1>1. /\ es = IF m_phase = "MARK" THEN ms ELSE cs
      /\ news' = Front(news) /\ reach' = reach \cup {c} /\ news # <<>> /\ pc = "run"
      /\ UNCHANGED <<m_top, m_end, m_freelist, m_phase, pc, attempt_num, retried, aborted>>
  BY DEF Commit, call, CommittedDescrs, MarkedDescrs
<1>2. news \in Seq(Cells) /\ IsInjective(news) /\ Len(news) \in Nat /\ ToSet(news) \subseteq Cells
  BY Typed DEF IInv, CellsInv
<1>3. /\ news' \in Seq(Cells) /\ Len(news') = Len(news) - 1 /\ IsInjective(news')
      /\ c \in ToSet(news) /\ ToSet(news') = ToSet(news) \ {c}
  BY <1>1, <1>2, FrontIs
<1> HIDE DEF c
<1>4. /\ ds \in Seq(Descrs) /\ Distinct(ds)
      /\ Placed(HeldIn(ds), ObjectsIn(ds), MarkedIn(ds), ToSet(news), ToSet(m_freelist),
                Rest(m_top, m_end), aborted, reach)
  BY Typed DEF IInv, CellsInv
<1> HIDE DEF ds
<1>5. {c} \in SUBSET Cells /\ {c} \cap HeldIn(ds) = {c}
  BY <1>2, <1>3, <1>4 DEF Placed
<1>6. /\ SameBlks(ds, cs) /\ MarkedIn(cs) = MarkedIn(ds)
      /\ ObjectsIn(cs) = ObjectsIn(ds) \cup {c}
  BY <1>4, <1>5, CommittedAre
<1> HIDE DEF cs
<1>7. cs \in Seq(Descrs) /\ HeldIn(cs) = HeldIn(ds) /\ DOMAIN cs = DOMAIN ds
  BY <1>6 DEF SameBlks
<1>8. /\ SameBlks(cs, ms) /\ MarkedIn(ms) = MarkedIn(ds) \cup {c}
      /\ ObjectsIn(ms) = ObjectsIn(ds) \cup {c}
  BY <1>5, <1>6, <1>7, MarkedAre
<1> HIDE DEF ms
<1>9. SameBlks(ds, ms)
  BY <1>6, <1>7, <1>8 DEF SameBlks
<1>10. /\ SameBlks(ds, es) /\ ObjectsIn(es) = ObjectsIn(ds) \cup {c}
       /\ MarkedIn(es) \subseteq MarkedIn(ds) \cup {c}
  BY <1>1, <1>6, <1>8, <1>9
<1> HIDE DEF es
<1>11. es \in Seq(Descrs) /\ HeldIn(es) = HeldIn(ds) /\ Distinct(es)
  BY <1>4, <1>10 DEF SameBlks
<1>12. Placed(HeldIn(es), ObjectsIn(es), MarkedIn(es), ToSet(news'), ToSet(m_freelist),
              Rest(m_top, m_end), aborted, reach')
  BY <1>1, <1>3, <1>4, <1>10, <1>11 DEF Placed
<1>13. TypeOK'
  <2>1. Len(news') <= MaxNest
    BY <1>2, <1>3, MaxNestAssumption DEF IInv, TypeOK
  <2>2. reach' \subseteq Cells
    BY <1>1, <1>5 DEF IInv, TypeOK
  <2>3. m_descrs' \in Seq(Descrs)
    BY <1>11 DEF es
  <2> QED BY <1>1, <1>3, <2>1, <2>2, <2>3 DEF IInv, TypeOK
<1>14. CellsInv'
  BY <1>1, <1>3, <1>11, <1>12 DEF IInv, CellsInv, es
<1>15. BumpInv'
  BY <1>1, <1>10, BumpKept DEF IInv, ds, es
<1>16. CallInv'
  BY <1>1 DEF CallInv
<1>17. Store!Commit(c)
  <2>1. Objects = ObjectsIn(ds)
    BY Typed, Views DEF IInv, ds
  <2>2. Objects' = ObjectsIn(es)
    BY <1>11, ViewsNext DEF es
  <2> QED BY <1>1, <1>3, <1>10, <2>1, <2>2 DEF Store!Commit
<1>18. Store!Next
  BY <1>5, <1>17 DEF Store!Next
<1> QED BY <1>13, <1>14, <1>15, <1>16, <1>18 DEF Kept, IInv

\* Marking starts: what is under construction is marked.
LEMMA StartMarkingStep ==
    ASSUME IInv, StartMarking, UNCHANGED <<news, reach, aborted>>,
           (pc \in {"run", "expand", "launch", "granted", "gc"})',
           pc' # "run" => pc # "run",
           attempt_num' = attempt_num, retried' = retried
    PROVE  Kept
<1> DEFINE ds == m_descrs
           es == m_descrs'
<1>1. /\ es = MarkedDescrs(ds, ToSet(news)) /\ m_phase' = "MARK"
      /\ UNCHANGED <<m_top, m_end, m_freelist, news, reach, aborted>>
  BY DEF StartMarking, MarkedDescrs
<1>2. /\ ds \in Seq(Descrs) /\ Distinct(ds) /\ ToSet(news) \subseteq Cells
      /\ Placed(HeldIn(ds), ObjectsIn(ds), MarkedIn(ds), ToSet(news), ToSet(m_freelist),
                Rest(m_top, m_end), aborted, reach)
  BY Typed DEF IInv, CellsInv
<1> HIDE DEF ds, es
<1>3. /\ SameBlks(ds, es) /\ ObjectsIn(es) = ObjectsIn(ds)
      /\ MarkedIn(es) \subseteq MarkedIn(ds) \cup ToSet(news)
  <2>1. ToSet(news) \in SUBSET Cells
    BY <1>2
  <2> DEFINE S == ToSet(news)
  <2> HIDE DEF S
  <2>2. LET xs == MarkedDescrs(ds, S) IN
        /\ SameBlks(ds, xs) /\ MarkedIn(xs) = MarkedIn(ds) \cup (S \cap HeldIn(ds))
        /\ ObjectsIn(xs) = ObjectsIn(ds)
    BY <1>2, <2>1, MarkedAre DEF S
  <2> QED BY <1>1, <2>2 DEF S
<1>4. es \in Seq(Descrs) /\ HeldIn(es) = HeldIn(ds) /\ Distinct(es)
  BY <1>2, <1>3 DEF SameBlks
<1>5. Placed(HeldIn(es), ObjectsIn(es), MarkedIn(es), ToSet(news), ToSet(m_freelist),
             Rest(m_top, m_end), aborted, reach)
  BY <1>2, <1>3, <1>4 DEF Placed
<1>6. TypeOK'
  <2>1. m_phase' \in Phases
    BY <1>1 DEF Phases
  <2>2. m_descrs' \in Seq(Descrs)
    BY <1>4 DEF es
  <2> QED BY <1>1, <2>1, <2>2 DEF IInv, TypeOK
<1>7. CellsInv'
  BY <1>1, <1>4, <1>5 DEF IInv, CellsInv, es
<1>8. BumpInv'
  BY <1>1, <1>3, BumpKept DEF IInv, ds, es
<1>9. CallInv'
  BY <1>1 DEF IInv, CallInv
<1>10. UNCHANGED Store!vars
  <2>1. Objects = ObjectsIn(ds)
    BY Typed, Views DEF IInv, ds
  <2>2. Objects' = ObjectsIn(es)
    BY <1>4, ViewsNext DEF es
  <2> QED BY <1>1, <1>3, <2>1, <2>2 DEF Store!vars
<1> QED BY <1>6, <1>7, <1>8, <1>9, <1>10 DEF Kept, IInv

LEMMA OwnLaunchStep ==
    ASSUME IInv, OwnLaunch
    PROVE  Kept
<1>1. /\ pc = "launch" /\ pc' = "granted" /\ UNCHANGED <<news, attempt_num, retried, reach, aborted>>
      /\ StartMarking \/ UNCHANGED <<pool, m_phase>>
  BY DEF OwnLaunch
<1>2. CASE StartMarking
  BY <1>1, <1>2, StartMarkingStep
<1>3. CASE UNCHANGED <<pool, m_phase>>
  <2> USE <1>1, <1>3 DEF pool
  <2>1. TypeOK' /\ CellsInv' /\ BumpInv' /\ CallInv'
    BY DEF IInv, TypeOK, CellsInv, BumpInv, CallInv
  <2>2. UNCHANGED Store!vars
    BY DEF Store!vars, Objects, With, Descriptors
  <2> QED BY <2>1, <2>2 DEF Kept, IInv
<1> QED BY <1>1, <1>2, <1>3

LEMMA OthersLaunchStep ==
    ASSUME IInv, OthersLaunch
    PROVE  Kept
<1>1. StartMarking /\ UNCHANGED <<news, reach, aborted, pc, attempt_num, retried>>
  BY DEF OthersLaunch, call
<1>2. pc' \in {"run", "expand", "launch", "granted", "gc"}
  BY <1>1 DEF IInv, TypeOK
<1> QED BY <1>1, <1>2, StartMarkingStep

\* The cell of a pointer to any byte of an object is the object's.
LEMMA ReachedIs ==
    ASSUME reach \subseteq Cells
    PROVE  Reached = reach
<1>1. ASSUME NEW c \in reach, NEW p \in c..c + cell_size - 1 PROVE CellStart(p) = c
  <2>1. PICK b \in Blocks : c \in CellSet(b)
    BY CellsAre
  <2>2. PICK k \in 0..N-1 : c = b + k * cell_size
    BY <2>1 DEF CellSet
  <2>3. PICK q \in Nat : b = cell_size * q
    BY BlocksAssumption, ChunkAligned
  <2>4. c = cell_size * (q + k) /\ q + k \in Nat /\ c \in Nat
    BY <2>2, <2>3, CellSizeAssumption, BitsetAssumption
  <2>5. p \in Nat /\ p - c \in 0..cell_size-1
    BY <2>4, CellSizeAssumption
  <2>6. p = cell_size * (q + k) + (p - c)
    BY <2>4, <2>5
  <2> DEFINE m == q + k
             r == p - c
  <2>7. m \in Nat /\ r \in 0..cell_size-1 /\ p = cell_size * m + r
    BY <2>4, <2>5, <2>6
  <2> HIDE DEF m, r
  <2>8. p % cell_size = r
    BY <2>5, <2>7, CellSizeAssumption, DivisionUnique
  <2> QED BY <2>4, <2>5, <2>8 DEF CellStart, r
<1>2. \A c \in reach : c \in c..c + cell_size - 1
  <2> SUFFICES ASSUME NEW c \in reach PROVE c \in c..c + cell_size - 1
    OBVIOUS
  <2>1. c \in Nat
    BY CellsAre, CellInOne
  <2> QED BY <2>1, CellSizeAssumption
<1> QED BY <1>1, <1>2 DEF Reached

\* Marking marks no cell that is free.
LEMMA MarkingsAre ==
    ASSUME IInv, NEW M \in Markings
    PROVE  /\ M \subseteq HeldIn(m_descrs)
           /\ MarkedIn(m_descrs) \cup reach \cup ToSet(news) \subseteq M
           /\ M \subseteq MarkedIn(m_descrs) \cup ObjectsIn(m_descrs) \cup ToSet(news)
<1>1. Reached = reach /\ Marked = MarkedIn(m_descrs) /\ Objects = ObjectsIn(m_descrs)
  BY ReachedIs, Typed, Views DEF IInv, TypeOK
<1>2. /\ reach \subseteq ObjectsIn(m_descrs) /\ ToSet(news) \subseteq HeldIn(m_descrs)
      /\ MarkedIn(m_descrs) \subseteq HeldIn(m_descrs)
      /\ ObjectsIn(m_descrs) \subseteq HeldIn(m_descrs)
  BY Typed, InDescrs DEF IInv, CellsInv, Placed
<1>3. \E extra \in SUBSET ObjectsIn(m_descrs) :
          M = MarkedIn(m_descrs) \cup reach \cup ToSet(news) \cup extra
  BY <1>1 DEF Markings
<1> QED BY <1>2, <1>3

LEMMA CollectStep ==
    ASSUME IInv, NEW M \in Markings, Collect(M), UNCHANGED <<news, reach>>,
           (pc \in {"run", "expand", "launch", "granted", "gc"})',
           pc' # "run" => pc # "run",
           attempt_num' \in 0..2, retried' = retried
    PROVE  Kept
<1> DEFINE ds == m_descrs
           kept == Used(MarkedDescrs(ds, M))
           es == m_descrs'
           free == m_freelist'
<1>1. /\ es = AfterCollect(kept)
      /\ aborted' = aborted \cap M /\ m_phase' = "IDLE"
      /\ IF ds = <<>> THEN UNCHANGED <<m_top, m_end, m_freelist>>
                      ELSE m_top' = None /\ m_end' = None /\ free = Swept(kept)
  BY DEF Collect, AfterCollect, MarkedDescrs
<1>2. /\ ds \in Seq(Descrs) /\ Distinct(ds)
      /\ Placed(HeldIn(ds), ObjectsIn(ds), MarkedIn(ds), ToSet(news), ToSet(m_freelist),
                Rest(m_top, m_end), aborted, reach)
      /\ m_freelist \in Seq(Cells) /\ IsInjective(m_freelist)
      /\ m_end \in Nat \cup {None}
  BY Typed DEF IInv, CellsInv
<1>3. /\ M \subseteq HeldIn(ds) /\ MarkedIn(ds) \cup reach \cup ToSet(news) \subseteq M
      /\ M \subseteq MarkedIn(ds) \cup ObjectsIn(ds) \cup ToSet(news)
  BY MarkingsAre
<1>4. m_top # m_end => ds # <<>>
  BY DEF IInv, BumpInv
<1> HIDE DEF ds, es, free
<1>5. /\ es \in Seq(Descrs) /\ Distinct(es) /\ MarkedIn(es) = {}
      /\ ObjectsIn(es) = ObjectsIn(ds) \cap M
      /\ M \subseteq HeldIn(es) /\ HeldIn(es) \subseteq HeldIn(ds)
      /\ Swept(kept) \in Seq(Cells) /\ IsInjective(Swept(kept))
      /\ ToSet(Swept(kept)) = HeldIn(es) \ M
  <2>1. M \in SUBSET HeldIn(ds) /\ MarkedIn(ds) \subseteq M
    BY <1>3
  <2> QED BY <1>1, <1>2, <2>1, CollectIs
<1> HIDE DEF kept
<1>6. /\ free \in Seq(Cells) /\ IsInjective(free) /\ ToSet(free) = HeldIn(es) \ M
      /\ m_top' = m_end' /\ m_end' \in {b + ChunkSize : b \in Blocks} \cup {None}
      /\ Rest(m_top', m_end') = {}
  <2>1. CASE ds = <<>>
    <3>1. UNCHANGED <<m_top, m_end, m_freelist>> /\ m_top = m_end
      BY <1>1, <1>4, <2>1
    <3>2. HeldIn(ds) = {}
      BY <2>1 DEF HeldIn, BlksOf, ToSet
    <3>3. ToSet(m_freelist) = {}
      BY <1>2, <3>2 DEF Placed
    <3>4. Rest(m_top, m_end) = {}
      BY <1>2, <3>1, RestEmpty
    <3>5. m_end \in {b + ChunkSize : b \in Blocks} \cup {None}
      BY DEF IInv, TypeOK
    <3> QED BY <1>2, <1>5, <3>1, <3>2, <3>3, <3>4, <3>5 DEF free
  <2>2. CASE ds # <<>>
    <3>1. m_top' = None /\ m_end' = None /\ free = Swept(kept)
      BY <1>1, <2>2
    <3>2. Rest(None, None) = {}
      BY DEF Rest
    <3> QED BY <1>5, <3>1, <3>2
  <2> QED BY <2>1, <2>2
<1>7. Placed(HeldIn(es), ObjectsIn(es), MarkedIn(es), ToSet(news), ToSet(free),
             Rest(m_top', m_end'), aborted', reach)
  <2>1. /\ ToSet(news) \subseteq HeldIn(es) /\ ToSet(news) \cap ObjectsIn(es) = {}
        /\ reach \subseteq ObjectsIn(es)
    BY <1>2, <1>3, <1>5 DEF Placed
  <2>2. ToSet(free) \cap (ObjectsIn(es) \cup MarkedIn(es) \cup ToSet(news) \cup Rest(m_top', m_end')) = {}
    BY <1>3, <1>5, <1>6
  <2>3. HeldIn(es) \subseteq ObjectsIn(es) \cup ToSet(news) \cup ToSet(free) \cup aborted'
    <3> SUFFICES ASSUME NEW p \in HeldIn(es), p \in M, p \notin ObjectsIn(ds), p \notin ToSet(news)
                 PROVE  p \in aborted
      BY <1>1, <1>5, <1>6
    <3>1. p \in MarkedIn(ds) /\ p \in HeldIn(ds)
      BY <1>3
    <3> QED BY <1>2, <3>1 DEF Placed
  <2> QED BY <1>5, <1>6, <2>1, <2>2, <2>3 DEF Placed
<1>8. TypeOK'
  <2>1. m_phase' \in Phases
    BY <1>1 DEF Phases
  <2>2. m_descrs' \in Seq(Descrs) /\ m_freelist' \in Seq(Cells)
    BY <1>5, <1>6 DEF es, free
  <2>3. aborted' \subseteq Cells
    BY <1>1 DEF IInv, TypeOK
  <2>4. m_top' \in Cells \cup {m_end'}
    BY <1>6
  <2> QED BY <1>6, <2>1, <2>2, <2>3, <2>4 DEF IInv, TypeOK
<1>9. CellsInv'
  BY <1>5, <1>6, <1>7 DEF IInv, CellsInv, es, free
<1>10. BumpInv' /\ CallInv'
  BY <1>6 DEF IInv, BumpInv, CallInv
<1>11. Store!Destroy(Objects \ M)
  <2>1. Objects = ObjectsIn(ds)
    BY Typed, Views DEF IInv, ds
  <2>2. Objects' = ObjectsIn(es)
    BY <1>5, ViewsNext DEF es
  <2> QED BY <1>3, <1>5, <2>1, <2>2 DEF Store!Destroy
<1>12. Store!Next
  BY <1>11 DEF Store!Next
<1> QED BY <1>8, <1>9, <1>10, <1>12 DEF Kept, IInv

LEMMA OwnCollectStep ==
    ASSUME IInv, OwnCollect
    PROVE  Kept
<1>1. PICK M \in Markings : Collect(M)
  BY DEF OwnCollect
<1>2. /\ pc = "gc" /\ pc' = "expand" /\ attempt_num' = 1
      /\ UNCHANGED <<news, retried, reach>>
  BY DEF OwnCollect
<1>3. attempt_num' \in 0..2
  BY <1>2
<1> QED BY <1>1, <1>2, <1>3, CollectStep

LEMMA OthersCollectStep ==
    ASSUME IInv, OthersCollect
    PROVE  Kept
<1>1. PICK M \in Markings : Collect(M)
  BY DEF OthersCollect
<1>2. UNCHANGED <<news, pc, attempt_num, retried, reach>>
  BY DEF OthersCollect, call
<1>3. attempt_num' \in 0..2 /\ pc' \in {"run", "expand", "launch", "granted", "gc"}
  BY <1>2 DEF IInv, TypeOK
<1> QED BY <1>1, <1>2, <1>3, CollectStep

LEMMA NextKept ==
    ASSUME IInv, [Next]_vars
    PROVE  Kept
<1>1. CASE UNCHANGED vars
  <2> USE <1>1 DEF vars, pool, call
  <2>1. TypeOK' /\ CellsInv' /\ BumpInv' /\ CallInv'
    BY DEF IInv, TypeOK, CellsInv, BumpInv, CallInv
  <2>2. UNCHANGED Store!vars
    BY DEF Store!vars, Objects, With, Descriptors
  <2> QED BY <2>1, <2>2 DEF Kept, IInv
<1>2. CASE \E b \in Blocks : UseBlock(b)
  BY <1>2, UseBlockStep
<1>3. CASE CoreLaunches \/ LaunchCollect \/ ExpandHeap \/ BadAlloc \/ TryExpand
  BY <1>3, WaitSteps
<1>4. CASE FreelistAllocation
  BY <1>4, FreelistAllocationStep
<1>5. CASE OwnCollect \/ OthersCollect
  BY <1>5, OwnCollectStep, OthersCollectStep
<1>6. CASE OwnLaunch \/ OthersLaunch
  BY <1>6, OwnLaunchStep, OthersLaunchStep
<1>7. CASE StackAllocation
  BY <1>7, StackAllocationStep
<1>8. CASE Commit
  BY <1>8, CommitStep
<1>9. CASE Abort
  BY <1>9, AbortStep
<1>10. CASE \E c \in Cells : Lose(c)
  BY <1>10, LoseStep
<1> QED
  BY <1>1, <1>2, <1>3, <1>4, <1>5, <1>6, <1>7, <1>8, <1>9, <1>10 DEF Next, Allocate, Program

\* Every cell of the allocator's blocks is in one place at a time: what is in
\* the free list or the bump region is not used, marked or named twice, and
\* what is in neither has an object, or one under construction, or had one
\* whose constructor threw (allocate, commit, sweep and shrink of
\* gc_pool_allocator).
THEOREM CellsKept == Spec => []CellsAccounted
<1>1. IInv => CellsAccounted
  BY InvIsSound
<1>2. IInv /\ [Next]_vars => IInv'
  BY NextKept DEF Kept
<1> QED BY InitIInv, <1>1, <1>2, PTL DEF Spec

\* The last descriptor is the bump pointer's, and no block is given back that
\* has a cell the program can reach or that is under construction (commit asks
\* the descriptor by address; shrink goes by the marks).
THEOREM DescriptorsKept == Spec => []DescriptorsMatch
<1>1. IInv => DescriptorsMatch
  BY InvIsSound
<1>2. IInv /\ [Next]_vars => IInv'
  BY NextKept DEF Kept
<1> QED BY InitIInv, <1>1, <1>2, PTL DEF Spec

\* gc_new is given a cell only while nothing is in it, and sweep destroys an
\* object once, and only one the program lost: the allocator implements
\* CellStore.
THEOREM CellsUsedOnce == Spec => UsesCellsOnce
<1>1. Init => Store!Init
  BY DEF Init, Store!Init, Objects, With, Descriptors, ToSet
<1>2. IInv /\ [Next]_vars => IInv' /\ [Store!Next]_(Store!vars)
  BY NextKept DEF Kept
<1> QED BY InitIInv, <1>1, <1>2, PTL DEF Spec, UsesCellsOnce, Store!Spec

-----------------------------------------------------------------------------
(* Compaction of the cells of a pool                                       *)

CONSTANTS CellCount, Handles
VARIABLES tag, pinned, object, frwd, handle, designated, to, from, phase

Compactor == INSTANCE TwoFinger WITH N <- CellCount

USE DEF Compactor!Held

CompactorTypeOK ==
    /\ tag \in [Compactor!Cells -> Compactor!Tags] /\ pinned \in SUBSET Compactor!Cells
    /\ object \in [Compactor!Cells -> Compactor!Cells]
    /\ DOMAIN frwd \subseteq Compactor!Cells /\ frwd \in [DOMAIN frwd -> Compactor!Cells]
    /\ handle \in [Handles -> 0..CellCount] /\ designated \in [Handles -> 0..CellCount]
    /\ to \in 0..CellCount /\ from \in to..CellCount
    /\ phase \in {"compact", "compacted", "fixed", "undefined"}

\* What is below `to` is held and what is not below `from` stays where it is.
FingersSound ==
    /\ \A c \in 0..to-1 : tag[c] \in Compactor!Held
    /\ \A c \in from..CellCount-1 : ~Compactor!Movable(c)
    /\ from < CellCount => tag[from] \notin Compactor!Held
    /\ phase \in {"compacted", "fixed"} => from = to

PinnedLive == \A c \in pinned : tag[c] \in Compactor!Held

\* Forward pointers lead from cells that were left, above `from`, to live cells
\* that are not above `to`.
FrwdSound ==
    \A c \in DOMAIN frwd :
        /\ from <= c /\ tag[c] \notin Compactor!Held
        /\ frwd[c] <= to /\ tag[frwd[c]] \in Compactor!Held

CompactorInv == CompactorTypeOK /\ FingersSound /\ PinnedLive /\ FrwdSound
    /\ Compactor!HandlesFollow

LEMMA InitCompactorInv == ASSUME CellCount \in Nat, Compactor!Init PROVE CompactorInv
<1>1. CompactorTypeOK
  BY DEF Compactor!Init, CompactorTypeOK, Compactor!Cells, Compactor!HeldCells
<1>2. FingersSound /\ PinnedLive /\ FrwdSound
  BY DEF Compactor!Init, FingersSound, PinnedLive, FrwdSound, Compactor!Cells,
         Compactor!HeldCells
<1>3. Compactor!HandlesFollow
  BY DEF Compactor!Init, Compactor!HandlesFollow, Compactor!Forward, Compactor!HeldCells,
         Compactor!Cells
<1> QED BY <1>1, <1>2, <1>3 DEF CompactorInv

\* What a move starts from: f, and every cell a forward pointer or a pin is
\* about, are other cells than t.
LEMMA MoveCells ==
    ASSUME CellCount \in Nat, CompactorInv, NEW t \in 0..CellCount, NEW f \in 0..CellCount,
           Compactor!Move(t, f)
    PROVE  /\ t \in Compactor!Cells /\ f \in Compactor!Cells /\ to <= t /\ t < f /\ f < from
           /\ tag[t] \notin Compactor!Held /\ tag[f] \in Compactor!Held /\ f \notin pinned
           /\ \A c \in to..t-1 : tag[c] \in Compactor!Held
           /\ \A c \in f+1..from-1 : ~Compactor!Movable(c)
<1>1. t \in 0..CellCount-1 /\ f \in t..from-1 /\ t \in to..from /\ to \in 0..CellCount
      /\ from \in to..CellCount
  BY DEF Compactor!Move, Compactor!Vacant, Compactor!LastMovable, CompactorInv, CompactorTypeOK
<1>2. tag[t] \notin Compactor!Held /\ tag[f] \in Compactor!Held /\ f \notin pinned
      /\ (\A c \in to..t-1 : tag[c] \in Compactor!Held)
      /\ (\A c \in f+1..from-1 : ~Compactor!Movable(c))
  BY <1>1 DEF Compactor!Move, Compactor!Vacant, Compactor!LastMovable, Compactor!Movable,
              Compactor!Cells
<1> QED BY <1>1, <1>2 DEF Compactor!Cells

LEMMA MoveInv ==
    ASSUME CellCount \in Nat, CompactorInv, NEW t \in 0..CellCount, NEW f \in 0..CellCount,
           Compactor!Move(t, f)
    PROVE  CompactorInv'
<1>1. /\ t \in Compactor!Cells /\ f \in Compactor!Cells /\ to <= t /\ t < f /\ f < from
      /\ tag[t] \notin Compactor!Held /\ tag[f] \in Compactor!Held /\ f \notin pinned
      /\ \A c \in to..t-1 : tag[c] \in Compactor!Held
      /\ \A c \in f+1..from-1 : ~Compactor!Movable(c)
  BY MoveCells
<1>2. /\ tag' = [tag EXCEPT ![t] = "LIVE", ![f] = "FREE"]
      /\ object' = [object EXCEPT ![t] = object[f]]
      /\ frwd' = [c \in DOMAIN frwd \cup {f} |-> IF c = f THEN t ELSE frwd[c]]
      /\ to' = t /\ from' = f /\ phase = "compact"
      /\ UNCHANGED <<pinned, handle, designated, phase>>
  BY DEF Compactor!Move
<1>3. CompactorTypeOK
  BY DEF CompactorInv
<1>4. /\ tag'[t] \in Compactor!Held /\ tag'[f] = "FREE"
      /\ \A c \in Compactor!Cells \ {t, f} : tag'[c] = tag[c]
      /\ object'[t] = object[f] /\ \A c \in Compactor!Cells \ {t} : object'[c] = object[c]
  BY <1>1, <1>2, <1>3 DEF CompactorTypeOK
<1>5. DOMAIN frwd' = DOMAIN frwd \cup {f} /\ frwd'[f] = t
      /\ \A c \in DOMAIN frwd \ {f} : frwd'[c] = frwd[c]
  BY <1>2
<1>6. CompactorTypeOK'
  <2>1. tag' \in [Compactor!Cells -> Compactor!Tags]
        /\ object' \in [Compactor!Cells -> Compactor!Cells]
    BY <1>1, <1>2, <1>3 DEF CompactorTypeOK, Compactor!Tags
  <2>2. DOMAIN frwd' \subseteq Compactor!Cells /\ frwd' \in [DOMAIN frwd' -> Compactor!Cells]
    BY <1>1, <1>2, <1>3, <1>5 DEF CompactorTypeOK
  <2>3. to' \in 0..CellCount /\ from' \in to'..CellCount
    BY <1>1, <1>2 DEF Compactor!Cells
  <2> QED BY <1>2, <1>3, <2>1, <2>2, <2>3 DEF CompactorTypeOK
<1>7. FingersSound'
  <2>1. ASSUME NEW c \in 0..t-1 PROVE tag'[c] \in Compactor!Held
    <3>1. c \in Compactor!Cells \ {t, f} /\ to \in Nat /\ c \in Nat /\ t \in Nat
      BY <1>1, <1>3 DEF CompactorTypeOK, Compactor!Cells
    <3>2. tag[c] \in Compactor!Held
      BY <1>1, <3>1 DEF CompactorInv, FingersSound
    <3> QED BY <1>4, <3>1, <3>2
  <2>2. ASSUME NEW c \in f..CellCount-1 PROVE ~Compactor!Movable(c)'
    <3>1. c \in Compactor!Cells /\ c # t /\ from \in Nat /\ f \in Nat /\ c \in Nat
      BY <1>1, <1>3 DEF CompactorTypeOK, Compactor!Cells
    <3>2. CASE c = f
      BY <1>4, <3>2 DEF Compactor!Movable
    <3>3. CASE c # f
      <4>1. ~Compactor!Movable(c)
        BY <1>1, <3>1, <3>3 DEF CompactorInv, FingersSound
      <4> QED BY <1>2, <1>4, <3>1, <3>3, <4>1 DEF Compactor!Movable
    <3> QED BY <3>2, <3>3
  <2> QED BY <1>2, <1>4, <2>1, <2>2 DEF FingersSound
<1>8. PinnedLive'
  BY <1>1, <1>2, <1>3, <1>4 DEF CompactorInv, PinnedLive, CompactorTypeOK
<1>9. FrwdSound'
  <2>1. ASSUME NEW c \in DOMAIN frwd
        PROVE  /\ c \in Compactor!Cells \ {t, f} /\ frwd[c] \in Compactor!Cells \ {t, f}
               /\ f <= c /\ frwd'[c] = frwd[c] /\ frwd[c] <= t
    BY <1>1, <1>3, <1>5 DEF CompactorInv, FrwdSound, CompactorTypeOK, Compactor!Cells
  <2>2. ASSUME NEW c \in DOMAIN frwd'
        PROVE  f <= c /\ tag'[c] \notin Compactor!Held /\ frwd'[c] <= t
            /\ tag'[frwd'[c]] \in Compactor!Held
    <3>1. CASE c = f
      BY <1>1, <1>3, <1>4, <1>5, <3>1 DEF CompactorTypeOK, Compactor!Cells
    <3>2. CASE c # f
      BY <1>4, <1>5, <2>1, <3>2 DEF CompactorInv, FrwdSound
    <3> QED BY <3>1, <3>2
  <2> QED BY <1>2, <2>2 DEF FrwdSound
<1>10. Compactor!HandlesFollow'
  <2> SUFFICES ASSUME NEW h \in Handles, handle[h] # CellCount
               PROVE  /\ tag'[Compactor!Forward(handle[h])'] \in Compactor!Held
                      /\ object'[Compactor!Forward(handle[h])'] = designated[h]
                      /\ Compactor!Forward(handle[h])' \notin DOMAIN frwd'
    BY <1>2 DEF Compactor!HandlesFollow
  <2> DEFINE c == Compactor!Forward(handle[h])
  <2>1. handle[h] \in Compactor!Cells /\ c \in Compactor!Cells
    BY <1>3 DEF CompactorTypeOK, Compactor!Cells, Compactor!Forward
  <2>2. tag[c] \in Compactor!Held /\ object[c] = designated[h] /\ c \notin DOMAIN frwd
    BY <1>2 DEF CompactorInv, Compactor!HandlesFollow
  <2>3. CASE c = f
    <3>1. f \notin DOMAIN frwd /\ t \notin DOMAIN frwd
      BY <1>1, <1>3 DEF CompactorInv, FrwdSound, CompactorTypeOK, Compactor!Cells
    <3>2. handle[h] = f
      BY <1>1, <1>3, <2>3 DEF CompactorInv, FrwdSound, CompactorTypeOK, Compactor!Cells,
                              Compactor!Forward
    <3>3. Compactor!Forward(handle[h])' = t
      BY <1>2, <1>5, <3>2 DEF Compactor!Forward
    <3> QED BY <1>1, <1>4, <1>5, <2>2, <2>3, <3>1, <3>3 DEF Compactor!Cells
  <2>4. CASE c # f
    <3>1. handle[h] # f
      BY <1>1, <2>2, <2>4, <1>3 DEF CompactorInv, FrwdSound, Compactor!Forward
    <3>2. Compactor!Forward(handle[h])' = c
      BY <1>2, <1>5, <3>1 DEF Compactor!Forward
    <3>3. c # t
      BY <1>1, <2>2
    <3> QED BY <1>4, <1>5, <2>1, <2>2, <2>4, <3>2, <3>3
  <2> QED BY <2>3, <2>4
<1> QED BY <1>6, <1>7, <1>8, <1>9, <1>10 DEF CompactorInv

LEMMA MeetInv ==
    ASSUME CellCount \in Nat, CompactorInv, NEW t \in 0..CellCount, Compactor!Meet(t)
    PROVE  CompactorInv'
<1>1. /\ t \in 0..CellCount-1 /\ t \in to..from /\ to \in 0..CellCount /\ from \in to..CellCount
      /\ phase = "compact" /\ CompactorTypeOK
  BY DEF Compactor!Meet, Compactor!Vacant, CompactorInv, CompactorTypeOK
<1>2. /\ tag[t] \notin Compactor!Held
      /\ \A c \in to..t-1 : tag[c] \in Compactor!Held
      /\ \A c \in t..CellCount-1 : ~Compactor!Movable(c)
  BY <1>1 DEF Compactor!Meet, Compactor!Vacant, CompactorInv, FingersSound
<1>3. /\ tag' = [tag EXCEPT ![t] = IF @ = "GARBAGE" THEN "FREE" ELSE @]
      /\ to' = t /\ from' = t
      /\ UNCHANGED <<pinned, object, frwd, handle, designated, phase>>
  BY DEF Compactor!Meet
<1>4. tag'[t] \notin Compactor!Held /\ \A c \in Compactor!Cells \ {t} : tag'[c] = tag[c]
  BY <1>1, <1>2, <1>3 DEF CompactorTypeOK, Compactor!Cells
<1>5. CompactorTypeOK'
  BY <1>1, <1>3 DEF CompactorTypeOK, Compactor!Cells, Compactor!Tags
<1>6. FingersSound'
  <2>1. \A c \in 0..t-1 : tag'[c] \in Compactor!Held
    BY <1>1, <1>2, <1>4 DEF CompactorInv, FingersSound, Compactor!Cells
  <2>2. \A c \in t..CellCount-1 : ~(tag'[c] = "LIVE" /\ c \notin pinned)
    BY <1>1, <1>2, <1>4 DEF Compactor!Movable, Compactor!Cells
  <2> QED BY <1>1, <1>3, <1>4, <2>1, <2>2 DEF FingersSound, Compactor!Movable
<1>7. PinnedLive'
  BY <1>1, <1>2, <1>3, <1>4 DEF CompactorInv, PinnedLive, CompactorTypeOK
<1>8. FrwdSound'
  <2>1. ASSUME NEW c \in DOMAIN frwd
        PROVE  t <= c /\ tag'[c] \notin Compactor!Held /\ frwd[c] <= t
            /\ tag'[frwd[c]] \in Compactor!Held
    BY <1>1, <1>2, <1>3, <1>4 DEF CompactorInv, FrwdSound, CompactorTypeOK, Compactor!Cells
  <2> QED BY <1>3, <2>1 DEF FrwdSound
<1>9. Compactor!HandlesFollow'
  <2> SUFFICES ASSUME NEW h \in Handles, handle[h] # CellCount
               PROVE  /\ tag'[Compactor!Forward(handle[h])] \in Compactor!Held
                      /\ object[Compactor!Forward(handle[h])] = designated[h]
                      /\ Compactor!Forward(handle[h]) \notin DOMAIN frwd
    BY <1>1, <1>3 DEF Compactor!HandlesFollow, Compactor!Forward
  <2>1. /\ tag[Compactor!Forward(handle[h])] \in Compactor!Held
        /\ object[Compactor!Forward(handle[h])] = designated[h]
        /\ Compactor!Forward(handle[h]) \notin DOMAIN frwd
    BY <1>1 DEF CompactorInv, Compactor!HandlesFollow
  <2>2. Compactor!Forward(handle[h]) \in Compactor!Cells
    BY <1>1 DEF CompactorTypeOK, Compactor!Cells, Compactor!Forward
  <2> QED BY <1>2, <1>4, <2>1, <2>2
<1> QED BY <1>5, <1>6, <1>7, <1>8, <1>9 DEF CompactorInv

LEMMA PastEndInv == ASSUME CellCount \in Nat, CompactorInv, Compactor!PastEnd PROVE CompactorInv'
<1>1. CompactorTypeOK /\ from = CellCount /\ to <= CellCount
  BY DEF CompactorInv, CompactorTypeOK, Compactor!PastEnd, Compactor!Vacant
<1>2. CompactorTypeOK'
  BY <1>1 DEF Compactor!PastEnd, CompactorTypeOK
<1>3. \A c \in 0..CellCount-1 : tag[c] \in Compactor!Held
  BY <1>1 DEF CompactorInv, FingersSound, Compactor!PastEnd, Compactor!Vacant, CompactorTypeOK
<1>4. FingersSound' /\ PinnedLive'
  BY <1>1, <1>3 DEF CompactorInv, FingersSound, PinnedLive, Compactor!PastEnd, CompactorTypeOK
<1>5. FrwdSound'
  BY <1>1 DEF CompactorInv, FrwdSound, Compactor!PastEnd, CompactorTypeOK, Compactor!Cells
<1>6. Compactor!HandlesFollow'
  BY DEF CompactorInv, Compactor!HandlesFollow, Compactor!PastEnd, Compactor!Forward
<1> QED BY <1>2, <1>4, <1>5, <1>6 DEF CompactorInv

LEMMA FixInv == ASSUME CellCount \in Nat, CompactorInv, Compactor!Fix PROVE CompactorInv'
<1>1. /\ CompactorTypeOK /\ from = to
      /\ handle' = [h \in Handles |-> Compactor!Forward(handle[h])] /\ phase' = "fixed"
      /\ UNCHANGED <<tag, pinned, object, frwd, designated, to, from>>
  BY DEF Compactor!Fix, CompactorInv, FingersSound
<1>2. CompactorTypeOK'
  BY <1>1 DEF CompactorTypeOK, Compactor!Forward, Compactor!Cells
<1>3. FingersSound' /\ PinnedLive' /\ FrwdSound'
  BY <1>1 DEF CompactorInv, FingersSound, PinnedLive, FrwdSound, Compactor!Movable
<1>4. Compactor!HandlesFollow'
  <2> SUFFICES ASSUME NEW h \in Handles, handle'[h] # CellCount
               PROVE  /\ tag[handle'[h]] \in Compactor!Held
                   /\ object[handle'[h]] = designated[h]
                      /\ handle'[h] \notin DOMAIN frwd
    BY <1>1 DEF Compactor!HandlesFollow
  <2>1. handle'[h] = Compactor!Forward(handle[h]) /\ phase = "compacted"
    BY <1>1 DEF Compactor!Fix
  <2>2. handle[h] # CellCount
    BY <1>1, <2>1 DEF CompactorTypeOK, Compactor!Forward, Compactor!Cells
  <2> QED BY <2>1, <2>2 DEF CompactorInv, Compactor!HandlesFollow
<1> QED BY <1>2, <1>3, <1>4 DEF CompactorInv

LEMMA NextCompactorInv ==
    ASSUME CellCount \in Nat, CompactorInv, [Compactor!Next]_(Compactor!vars)
    PROVE  CompactorInv'
<1>1. CASE Compactor!Compacted
  BY <1>1 DEF Compactor!Compacted, CompactorInv, CompactorTypeOK, FingersSound, PinnedLive,
              FrwdSound,
              Compactor!HandlesFollow, Compactor!Movable, Compactor!Forward
<1>2. CASE UNCHANGED Compactor!vars
  BY <1>2 DEF Compactor!vars, CompactorInv, CompactorTypeOK, FingersSound, PinnedLive,
              FrwdSound,
              Compactor!HandlesFollow, Compactor!Movable, Compactor!Forward
<1> QED BY <1>1, <1>2, MoveInv, MeetInv, PastEndInv, FixInv DEF Compactor!Next

-----------------------------------------------------------------------------

\* Every handle finds the object it was for, while objects are moved and after
\* the handles are fixed.
THEOREM HandlesStay == ASSUME CellCount \in Nat PROVE Compactor!Spec => []Compactor!HandlesFollow
<1>1. CompactorInv => Compactor!HandlesFollow
  BY DEF CompactorInv
<1> QED BY InitCompactorInv, NextCompactorInv, <1>1, PTL DEF Compactor!Spec

\* Compaction leaves the objects in front, but for those that are pinned or under construction.
THEOREM CompactsInFront == ASSUME CellCount \in Nat PROVE Compactor!Spec => []Compactor!LiveInFront
<1>1. CompactorInv => Compactor!LiveInFront
  <2> SUFFICES ASSUME CompactorInv, from = to, NEW c \in Compactor!Cells, NEW d \in Compactor!Cells,
                      tag[c] \notin Compactor!Held, c < d
               PROVE  ~Compactor!Movable(d)
    BY DEF CompactorInv, FingersSound, Compactor!LiveInFront
  <2>1. c >= to
    BY DEF CompactorInv, FingersSound, CompactorTypeOK, Compactor!Cells
  <2> QED BY <2>1 DEF CompactorInv, FingersSound, CompactorTypeOK, Compactor!Cells
<1> QED BY InitCompactorInv, NextCompactorInv, <1>1, PTL DEF Compactor!Spec

\* No turn of the loop loses an object or moves a pinned one.
THEOREM ObjectsKept == ASSUME CellCount \in Nat PROVE Compactor!Spec => Compactor!KeepsObjects
<1> DEFINE Step == /\ {object'[c] : c \in Compactor!HeldCells'}
                        = {object[c] : c \in Compactor!HeldCells}
                   /\ \A c \in pinned : tag'[c] \in Compactor!Held /\ object'[c] = object[c]
<1>1. ASSUME CompactorInv, NEW t \in 0..CellCount, NEW f \in 0..CellCount, Compactor!Move(t, f)
      PROVE Step
  <2>1. /\ t \in Compactor!Cells /\ f \in Compactor!Cells /\ t # f
        /\ tag[t] \notin Compactor!Held /\ tag[f] \in Compactor!Held /\ f \notin pinned
    BY <1>1, MoveCells DEF Compactor!Cells
  <2>2. /\ tag'[t] \in Compactor!Held /\ tag'[f] = "FREE"
        /\ \A c \in Compactor!Cells \ {t, f} : tag'[c] = tag[c]
        /\ object'[t] = object[f] /\ \A c \in Compactor!Cells \ {t} : object'[c] = object[c]
    BY <1>1, <2>1 DEF Compactor!Move, CompactorInv, CompactorTypeOK
  <2>3. Compactor!HeldCells' = (Compactor!HeldCells \ {f}) \cup {t}
        /\ f \in Compactor!HeldCells /\ t \notin Compactor!HeldCells
        /\ Compactor!HeldCells \subseteq Compactor!Cells
    BY <2>1, <2>2 DEF Compactor!HeldCells
  <2>4. {object'[c] : c \in Compactor!HeldCells'} = {object[c] : c \in Compactor!HeldCells}
    BY <2>1, <2>2, <2>3
  <2>5. \A c \in pinned : tag'[c] \in Compactor!Held /\ object'[c] = object[c]
    BY <1>1, <2>1, <2>2 DEF CompactorInv, PinnedLive, CompactorTypeOK
  <2> QED BY <2>4, <2>5
<1>2. ASSUME CompactorInv, NEW t \in 0..CellCount, Compactor!Meet(t) PROVE Step
  <2>1. t \in Compactor!Cells /\ object' = object
        /\ \A c \in Compactor!Cells : tag'[c] \in Compactor!Held <=> tag[c] \in Compactor!Held
    BY <1>2 DEF Compactor!Meet, CompactorInv, CompactorTypeOK, Compactor!Cells
  <2>2. Compactor!HeldCells' = Compactor!HeldCells
    BY <2>1 DEF Compactor!HeldCells
  <2>3. {object'[c] : c \in Compactor!HeldCells'} = {object[c] : c \in Compactor!HeldCells}
    BY <2>1, <2>2
  <2>4. \A c \in pinned : tag'[c] \in Compactor!Held /\ object'[c] = object[c]
    BY <1>2, <2>1 DEF CompactorInv, PinnedLive, CompactorTypeOK
  <2> QED BY <2>3, <2>4
<1>3. ASSUME CompactorInv,
             \/ Compactor!PastEnd \/ Compactor!Compacted \/ Compactor!Fix
             \/ UNCHANGED Compactor!vars
      PROVE  Step
  BY <1>3 DEF Compactor!PastEnd, Compactor!Compacted, Compactor!Fix, Compactor!vars,
              Compactor!HeldCells, CompactorInv, PinnedLive
<1>4. CompactorInv /\ [Compactor!Next]_(Compactor!vars) => [Step]_(Compactor!vars)
  BY <1>1, <1>2, <1>3 DEF Compactor!Next
<1> QED BY InitCompactorInv, NextCompactorInv, <1>4, PTL DEF Compactor!Spec,
                                                             Compactor!KeepsObjects

=============================================================================
