------------------------------ MODULE NodePool ------------------------------
(***************************************************************************)
(* allocators/pool.hpp over pool_allocator.hpp and freelist_pool_chunk.cpp *)
(* as pin_set uses them: the nodes of one type of one thread.              *)
(*                                                                         *)
(* m_freelist threads the free nodes through their first word.  When it is *)
(* empty a block is taken from the upstream, made a chunk, and the chunk   *)
(* gives one cell.  malloc is external: it gives any block not in use.     *)
(***************************************************************************)
EXTENDS BlockList

CONSTANTS
    Blocks,     \* addresses malloc can give
    ALLOC_CNT,  \* cells of a chunk
    Null        \* nullptr

Cells == Blocks \X (0..ALLOC_CNT-1)

ASSUME AllocCntAssumption == ALLOC_CNT \in Nat \ {0}
ASSUME AddressesAssumption == Fake \notin Blocks /\ Null \notin Cells /\ IsFiniteSet(Blocks)

VARIABLES
    m_alloc,        \* the blocks of the chunks, a BlockList
    chunk,          \* the freelist_pool_chunk at the start of each block
    m_freelist,     \* the first free node
    word,           \* the first word of each cell
    in_use          \* m_alloc_cnt - m_dealloc_cnt of pool

pool == <<m_alloc, chunk, m_freelist, word, in_use>>

PoolInit ==
    /\ m_alloc = NoBlocks
    /\ chunk = <<>>
    /\ m_freelist = Null
    /\ word = [c \in Cells |-> Null]
    /\ in_use = 0

\* freelist_pool_chunk::freelist_pool_chunk
NewChunk(b) == [m_next |-> <<b, 0>>, m_init |-> 0, m_gain |-> 1, m_alloc_cnt |-> 0]

\* The links freelist_pool_chunk::allocate writes when all that were written
\* are used up, m_gain of them and as many as the chunk has at most.
Linked(b, chk) ==
    IF chk.m_next = <<b, chk.m_init>>
      THEN chk.m_init .. (IF chk.m_init + chk.m_gain < ALLOC_CNT
                            THEN chk.m_init + chk.m_gain ELSE ALLOC_CNT) - 1
      ELSE {}

\* pool::create takes the node p from the free list, and stores its value in
\* the first word,
TakeFree(p, value) ==
    /\ m_freelist # Null
    /\ p = m_freelist
    /\ m_freelist' = word[p]
    /\ word' = [word EXCEPT ![p] = value]
    /\ in_use' = in_use + 1
    /\ UNCHANGED <<m_alloc, chunk>>

\* or from a new chunk.
TakeChunk(b, p, value) ==
    /\ m_freelist = Null
    /\ b \in Blocks \ DOMAIN chunk
    /\ LET new == NewChunk(b)
           links == Linked(b, new)
           written == [c \in Cells |-> IF c \in {b} \X links THEN <<b, c[2] + 1>> ELSE word[c]]
           left == [m_next |-> written[p],
                    m_init |-> new.m_init + Cardinality(links),
                    m_gain |-> IF links = {} THEN new.m_gain ELSE 2 * new.m_gain,
                    m_alloc_cnt |-> new.m_alloc_cnt + 1]
       IN /\ p = new.m_next
          /\ word' = [written EXCEPT ![p] = value]
          /\ chunk' = [x \in DOMAIN chunk \cup {b} |-> IF x = b THEN left ELSE chunk[x]]
    /\ m_alloc' = AllocateBlock(m_alloc, b)
    /\ in_use' = in_use + 1
    /\ UNCHANGED m_freelist

Create(p, value) == TakeFree(p, value) \/ \E b \in Blocks : TakeChunk(b, p, value)

\* Mutation: the link goes nowhere.
LinkFree_Cut(p) ==
    /\ word' = [word EXCEPT ![p] = Null]
    /\ UNCHANGED <<m_alloc, chunk, m_freelist, in_use>>

\* pool::destroy, in the order its stores are made: the node takes the place of
\* its value with a link,
LinkFree(p) ==
    /\ word' = [word EXCEPT ![p] = m_freelist]
    /\ UNCHANGED <<m_alloc, chunk, m_freelist, in_use>>

\* and is the first of the free list then.
PushFree(p) ==
    /\ m_freelist' = p
    /\ in_use' = in_use - 1
    /\ UNCHANGED <<m_alloc, chunk, word>>

\* ~pool_allocator gives all blocks back, in the order of the list; the thread
\* that ends has no further use for what the cells held.
DestroyPool ==
    LET blocks == Forward(m_alloc)
        without[i \in 0..Len(blocks)] ==
            IF i = 0 THEN m_alloc ELSE DeallocateBlock(without[i-1], blocks[i]) IN
    /\ m_alloc' = without[Len(blocks)]
    /\ chunk' = <<>>
    /\ m_freelist' = Null
    /\ word' = [c \in Cells |-> Null]
    /\ in_use' = 0

-----------------------------------------------------------------------------
(* What a property says of the pool, given the nodes its user has.         *)

FreeNodes == Walk(m_freelist, word, Null)

\* The cells of b the chunk itself has free, linked or not yet linked.
ChunkCells(b) == {b} \X (chunk[b].m_next[2] .. ALLOC_CNT-1)

\* The list of blocks reads the same in both directions and holds the chunks.
BlocksSound ==
    /\ Forward(m_alloc) = Reverse(Backward(m_alloc))
    /\ IsInjective(Forward(m_alloc)) /\ ToSet(Forward(m_alloc)) = DOMAIN chunk

\* The nodes in use and the free ones are what the chunks gave, each once, and
\* the counter agrees with them.
CellsSound(nodes) ==
    /\ IsInjective(FreeNodes) /\ ToSet(FreeNodes) \cap nodes = {}
    /\ ToSet(FreeNodes) \cup nodes = ((DOMAIN chunk) \X (0..ALLOC_CNT-1))
                                        \ UNION {ChunkCells(b) : b \in DOMAIN chunk}
    /\ in_use = Cardinality(nodes)

PoolSound(nodes) == BlocksSound /\ CellsSound(nodes)

=============================================================================
