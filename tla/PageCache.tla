----------------------------- MODULE PageCache ------------------------------
(***************************************************************************)
(* Where gc_core_allocator has its blocks from: bucket_allocator over one  *)
(* freelist_allocator for each number of pages, m_freelist for the blocks  *)
(* too large for a bucket, and sys_allocator under both.  The limit of the *)
(* heap, which is tested before, is in HeapLimit.                          *)
(*                                                                         *)
(* A block has its address for a name.  A free list is the set of its      *)
(* blocks: which of those that are large enough is the first depends on    *)
(* the order they came back in.                                            *)
(***************************************************************************)
EXTENDS SizeClasses

CONSTANTS
    Addresses,
    AllocSizes  \* the sizes the pools and the large objects ask for

VARIABLES
    mapped,     \* mapped[b]: the size of what mmap mapped at b
    used,       \* used[b]: the size the allocator that has b asked for
    m_buckets,  \* for each bucket, for each block in its free list its m_size
    m_freelist

vars == <<mapped, used, m_buckets, m_freelist>>

Put(f, b, size) == [c \in DOMAIN f \cup {b} |-> IF c = b THEN size ELSE f[c]]
Drop(f, S) == [c \in DOMAIN f \ S |-> f[c]]
Empty == [b \in {} |-> 0]
Buckets == 0..BUCKET_COUNT-1

Init ==
    /\ mapped = Empty
    /\ used = Empty
    /\ m_buckets = [i \in Buckets |-> Empty]
    /\ m_freelist = Empty

\* sys_allocator: the operating system maps a range that is not mapped.
SysAllocate(b, size) == b \notin DOMAIN mapped /\ mapped' = Put(mapped, b, size)

\* freelist_allocator::allocate: from a free list, or from upstream when no
\* block in it is large enough.
FreelistAllocate(i, b, size) ==
    \/ /\ b \in DOMAIN m_buckets[i] /\ size <= m_buckets[i][b]
       /\ m_buckets' = [m_buckets EXCEPT ![i] = Drop(@, {b})]
       /\ UNCHANGED mapped
    \/ /\ \A c \in DOMAIN m_buckets[i] : m_buckets[i][c] < size
       /\ SysAllocate(b, size)
       /\ UNCHANGED m_buckets

Bucketized(size) == SysAlignSize(size) <= MAX_BUCKETIZE_SIZE
BucketOf(size) == Bucket(SysAlignSize(size))

\* gc_core_allocator::allocate
AllocateBucketized(b, size) ==
    /\ Bucketized(size)
    /\ FreelistAllocate(BucketOf(size), b, BucketSize(BucketOf(size)))
    /\ used' = Put(used, b, size)
    /\ UNCHANGED m_freelist

\* m_freelist is not asked.
AllocateLarge(b, size) ==
    /\ ~Bucketized(size)
    /\ SysAllocate(b, SysAlignSize(size))
    /\ used' = Put(used, b, size)
    /\ UNCHANGED <<m_buckets, m_freelist>>

\* deallocate, with the size the block was asked for with.
DeallocateBucketized(b) ==
    LET i == BucketOf(used[b]) IN
    /\ b \in DOMAIN used /\ Bucketized(used[b])
    /\ m_buckets' = [m_buckets EXCEPT ![i] = Put(@, b, BucketSize(i))]
    /\ used' = Drop(used, {b})
    /\ UNCHANGED <<mapped, m_freelist>>

DeallocateLarge(b) ==
    /\ b \in DOMAIN used /\ ~Bucketized(used[b])
    /\ m_freelist' = Put(m_freelist, b, SysAlignSize(used[b]))
    /\ used' = Drop(used, {b})
    /\ UNCHANGED <<mapped, m_buckets>>

\* shrink, at the end of a collection: the buckets keep what they have.
Shrink ==
    /\ mapped' = Drop(mapped, DOMAIN m_freelist)
    /\ m_freelist' = Empty
    /\ UNCHANGED <<used, m_buckets>>

Next ==
    \/ \E b \in Addresses, size \in AllocSizes : AllocateBucketized(b, size) \/ AllocateLarge(b, size)
    \/ \E b \in DOMAIN used : DeallocateBucketized(b) \/ DeallocateLarge(b)
    \/ Shrink

Spec == Init /\ [][Next]_vars

-----------------------------------------------------------------------------
(* Properties                                                              *)

\* The blocks in the buckets.
Cached == UNION {DOMAIN m_buckets[i] : i \in Buckets}

\* A block is with one allocator, or in one free list, and mapped; and nothing
\* mapped is lost.
BlocksAccounted ==
    /\ \A i \in Buckets : DOMAIN m_buckets[i] \cap (DOMAIN used \cup DOMAIN m_freelist) = {}
    /\ \A i, j \in Buckets : i # j => DOMAIN m_buckets[i] \cap DOMAIN m_buckets[j] = {}
    /\ DOMAIN used \cap DOMAIN m_freelist = {}
    /\ DOMAIN mapped = DOMAIN used \cup DOMAIN m_freelist \cup Cached

\* A block is as large as what was asked for, rounded to pages, and no larger:
\* the size that increase_heap_size adds is the size that is mapped; and munmap
\* is called with the size of the mapping.
BlocksFit ==
    /\ \A b \in DOMAIN used : mapped[b] = SysAlignSize(used[b])
    /\ \A b \in DOMAIN m_freelist : m_freelist[b] = mapped[b]

=============================================================================
