-------------------------- MODULE HeapLimitProofs ---------------------------
(***************************************************************************)
(* The sizes of SizeClasses fit, for every size of an object; and          *)
(* gc_core_allocator accounts for exactly the blocks in use and bounds     *)
(* them, for any number of threads and objects, sizes and limits.  At the  *)
(* end, the blocks it caches are never given out twice, too small or lost. *)
(***************************************************************************)
EXTENDS HeapLimit, FiniteSetTheorems, SequenceTheorems, WellFoundedInduction, TLAPS

-----------------------------------------------------------------------------
(* Sizes                                                                   *)

\* Every index of m_sztbl has a first class.
LEMMA FirstClass ==
    ASSUME NEW j \in 0..LARGE_CELL_SIZE-1
    PROVE  \E i \in 1..Len(SZ_CLS) : IsFirst(i, j)
<1>1. SUFFICES \E i \in 1..8 : IsFirst(i, j)
  BY DEF SZ_CLS
<1>2. j \in Int /\ 0 <= j /\ j < 4096
  BY DEF LARGE_CELL_SIZE
<1>3. /\ SZ_CLS[1] = 32 /\ SZ_CLS[2] = 64 /\ SZ_CLS[3] = 128 /\ SZ_CLS[4] = 256
      /\ SZ_CLS[5] = 512 /\ SZ_CLS[6] = 1024 /\ SZ_CLS[7] = 2048 /\ SZ_CLS[8] = 4096
  BY DEF SZ_CLS
<1>4. CASE j < 32
  BY <1>2, <1>3, <1>4 DEF IsFirst
<1>5. CASE 32 <= j /\ j < 64
  BY <1>2, <1>3, <1>5 DEF IsFirst
<1>6. CASE 64 <= j /\ j < 128
  BY <1>2, <1>3, <1>6 DEF IsFirst
<1>7. CASE 128 <= j /\ j < 256
  BY <1>2, <1>3, <1>7 DEF IsFirst
<1>8. CASE 256 <= j /\ j < 512
  BY <1>2, <1>3, <1>8 DEF IsFirst
<1>9. CASE 512 <= j /\ j < 1024
  BY <1>2, <1>3, <1>9 DEF IsFirst
<1>10. CASE 1024 <= j /\ j < 2048
  BY <1>2, <1>3, <1>10 DEF IsFirst
<1>11. CASE 2048 <= j
  BY <1>2, <1>3, <1>11 DEF IsFirst
<1> QED BY <1>2, <1>4, <1>5, <1>6, <1>7, <1>8, <1>9, <1>10, <1>11

\* The table holds the first class.
LEMMA TableHoldsFirst ==
    ASSUME NEW j \in 0..LARGE_CELL_SIZE-1
    PROVE  SzTbl[j] \in 1..Len(SZ_CLS) /\ IsFirst(SzTbl[j], j)
<1>1. SzTbl[j] = CHOOSE i \in 1..Len(SZ_CLS) : IsFirst(i, j)
  BY DEF SzTbl
<1> QED BY <1>1, FirstClass

\* A small object whose box has a class gets a cell that holds object and box,
\* and no class below it would: gc_so_allocator::allocate wastes less than a
\* factor of two.
THEOREM SmallObjectFits ==
    ASSUME NEW n \in Nat \ {0}, BoxSize(n) <= LARGE_CELL_SIZE
    PROVE  /\ BoxSize(n) <= CellSize(n)
           /\ CellSize(n) \in {SZ_CLS[i] : i \in 1..Len(SZ_CLS)}
           /\ CellSize(n) = MIN_CELL_SIZE \/ CellSize(n) < 2 * BoxSize(n)
<1> DEFINE j == BoxSize(n) - 1
           i == SzTbl[j]
<1>1. j \in 0..LARGE_CELL_SIZE-1 /\ BoxSize(n) = j + 1 /\ j \in Int
  BY DEF BoxSize, BOX_META, LARGE_CELL_SIZE
<1>2. i \in 1..Len(SZ_CLS) /\ IsFirst(i, j)
  BY <1>1, TableHoldsFirst
<1>3. CellSize(n) = SZ_CLS[i]
  BY DEF CellSize
<1> HIDE DEF i, j
<1>4. j < SZ_CLS[i] /\ SZ_CLS[i] \in Int
  BY <1>2 DEF IsFirst, SZ_CLS
<1>5. BoxSize(n) <= SZ_CLS[i]
  BY <1>1, <1>4
<1>6. CASE i = 1
  BY <1>6, <1>2, <1>3, <1>5 DEF SZ_CLS, MIN_CELL_SIZE
<1>7. CASE i # 1
  <2>1. i - 1 \in 1..i-1 /\ i \in 2..8
    BY <1>7, <1>2 DEF SZ_CLS
  <2>2. SZ_CLS[i-1] <= j
    BY <2>1, <1>2 DEF IsFirst
  <2>3. SZ_CLS[i] = 2 * SZ_CLS[i-1]
    BY <2>1 DEF SZ_CLS
  <2>4. SZ_CLS[i-1] \in Int
    BY <2>1 DEF SZ_CLS
  <2>5. SZ_CLS[i] < 2 * BoxSize(n)
    BY <2>2, <2>3, <2>4, <1>1
  <2> QED BY <2>5, <1>2, <1>3, <1>5
<1> QED BY <1>6, <1>7

\* gc_core::allocate sends exactly these sizes to a table that has no entry for
\* them: the sixteen below a page whose box does not fit a page any more.
THEOREM SmallWithoutClass ==
    \A n \in Nat \ {0} :
        (IsSmall(n) /\ BoxSize(n) > LARGE_CELL_SIZE) <=> n \in 4081..4096
BY DEF IsSmall, BoxSize, BOX_META, LARGE_CELL_SIZE

\* A chunk of any class is a number of pages, and one of the buckets of
\* gc_core_allocator is for exactly that size: freelist_allocator, which gives
\* the first block that is large enough, never gives one that is larger.
THEOREM ChunksHaveBuckets ==
    ASSUME NEW n \in Nat \ {0}, BoxSize(n) <= LARGE_CELL_SIZE
    PROVE  LET size == ChunkSize(CellSize(n)) IN
           /\ PoolBlock(n) = size
           /\ size <= MAX_BUCKETIZE_SIZE
           /\ Bucket(size) \in 0..BUCKET_COUNT-1
           /\ BucketSize(Bucket(size)) = size
<1>1. CellSize(n) \in {32, 64, 128, 256, 512, 1024, 2048, 4096}
  BY SmallObjectFits DEF SZ_CLS
<1>2. MANAGED_CHUNK_OBJECTS_COUNT = 128
  BY DEF MANAGED_CHUNK_OBJECTS_COUNT, PAGE_SIZE, MIN_CELL_SIZE
<1>3. BUCKET_COUNT = 128 /\ MAX_BUCKETIZE_SIZE = 524288
  BY <1>2 DEF BUCKET_COUNT, MAX_BUCKETIZE_SIZE, LARGE_CELL_SIZE
<1> QED BY <1>1, <1>2, <1>3 DEF PoolBlock, ChunkSize, SysAlignSize, Bucket, BucketSize, PAGE_SIZE

\* The block of a large object holds control block, descriptor, box and object,
\* ends at a page, wastes less than a page, and adds to the size of the heap
\* what the operating system is asked for, no more.
THEOREM LargeObjectFits ==
    ASSUME NEW n \in Nat \ {0}, NEW blk \in Nat, blk % PAGE_SIZE = 0
    PROVE  LET end == blk + BlkSize(LargeBlkSize(n))
               obj == ObjStart(LargeCellStart(blk)) IN
           /\ obj + n <= end /\ end < obj + n + PAGE_SIZE
           /\ BlkSize(LargeBlkSize(n)) % PAGE_SIZE = 0
           /\ LargeBlock(n) = BlkSize(LargeBlkSize(n))
BY DEF LargeBlkSize, BlkSize, MemblkSize, AlignSize, BoxSize, ObjStart, LargeCellStart, Memblk,
       LargeBlock, SysAlignSize, PAGE_SIZE, BOX_META, CONTROL_BLOCK, OBJECT_DESCRIPTOR

\* memory_index finds the descriptor from any byte of a large object, and its
\* entries end where the block ends.
THEOREM LargeObjectIndexed ==
    ASSUME NEW n \in Nat \ {0}, NEW blk \in Nat, blk % PAGE_SIZE = 0,
           NEW p \in ObjStart(LargeCellStart(blk)) .. ObjStart(LargeCellStart(blk)) + n - 1
    PROVE  /\ IndexFrom(blk) = blk
           /\ IndexTo(blk, n) = blk + LargeBlock(n)
           /\ IndexFrom(blk) <= p /\ p < IndexTo(blk, n)
<1>1. IndexFrom(blk) = blk
  BY DEF IndexFrom, AlignByPage, Memblk, CONTROL_BLOCK, PAGE_SIZE
<1>2. BlkSize(LargeBlkSize(n)) \in Int /\ LargeBlock(n) = BlkSize(LargeBlkSize(n))
      /\ ObjStart(LargeCellStart(blk)) + n <= blk + BlkSize(LargeBlkSize(n))
  <2>1. BlkSize(LargeBlkSize(n)) \in Int
    BY DEF LargeBlkSize, BlkSize, MemblkSize, AlignSize, BoxSize, PAGE_SIZE, BOX_META,
           CONTROL_BLOCK, OBJECT_DESCRIPTOR
  <2> QED BY <2>1, LargeObjectFits
<1>3. ObjStart(LargeCellStart(blk)) \in Nat /\ blk <= ObjStart(LargeCellStart(blk))
  BY DEF ObjStart, LargeCellStart, Memblk, CONTROL_BLOCK, OBJECT_DESCRIPTOR, BOX_META
<1> QED BY <1>1, <1>2, <1>3 DEF IndexTo

\* check_ptr, which gc_object_descriptor::cell_start asserts of a pointer into
\* the object, holds for all bytes of the object but its last sixteen.
THEOREM CheckPtrRejectsTail ==
    ASSUME NEW n \in Nat \ {0}, NEW c \in Nat, NEW p \in ObjStart(c) .. ObjStart(c) + n - 1
    PROVE  CheckPtr(c, n, p) <=> p < ObjStart(c) + n - BOX_META
BY DEF CheckPtr, ObjStart, BOX_META

-----------------------------------------------------------------------------
(* Sums over the threads and the objects: what SumFunctionOnSet computes,  *)
(* by induction over the size of the set.                                  *)

\* Induction over the numbers of a set.
LEMMA NatInd ==
    ASSUME NEW S, 0 \in S, \A n \in Nat : n \in S => n+1 \in S
    PROVE  Nat \subseteq S
<1>1. SUFFICES ASSUME Nat \ S # {} PROVE FALSE
  OBVIOUS
<1>2. IsWellFoundedOn({ss \in Nat \X Nat : ss[1] < ss[2]}, Nat)
  BY NatLessThanWellFounded DEF OpToRel
<1>3. PICK x \in Nat \ S : \A y \in Nat \ S : <<y, x>> \notin {ss \in Nat \X Nat : ss[1] < ss[2]}
  BY <1>1, <1>2, WFMin
<1>4. x # 0 /\ x-1 \in Nat /\ (x-1)+1 = x
  OBVIOUS
<1>5. <<x-1, x>> \in {ss \in Nat \X Nat : ss[1] < ss[2]}
  BY <1>4
<1>6. x - 1 \in S
  BY <1>3, <1>4, <1>5
<1> QED BY <1>4, <1>6

\* Induction over the subsets of a finite set.
LEMMA SetInd ==
    ASSUME NEW S, IsFiniteSet(S), NEW P, {} \in P,
           \A s \in SUBSET S, x \in S : x \notin s /\ s \in P => s \cup {x} \in P
    PROVE  SUBSET S \subseteq P
<1> DEFINE Q == {n \in Nat : \A s \in SUBSET S : Cardinality(s) = n => s \in P}
<1>1. \A s \in SUBSET S : IsFiniteSet(s) /\ Cardinality(s) \in Nat
  BY FS_Subset, FS_CardinalityType
<1>2. 0 \in Q
  BY <1>1, FS_EmptySet
<1>3. ASSUME NEW n \in Nat, n \in Q PROVE n+1 \in Q
  <2>1. SUFFICES ASSUME NEW s \in SUBSET S, Cardinality(s) = n+1 PROVE s \in P
    OBVIOUS
  <2>2. PICK x \in s : TRUE
    BY <2>1, FS_EmptySet
  <2>3. Cardinality(s \ {x}) = n
    <3>1. Cardinality(s \ {x}) = Cardinality(s) - 1
      BY <2>2, <1>1, FS_RemoveElement
    <3> QED BY <3>1, <2>1
  <2>4. s \ {x} \in P
    BY <2>3, <1>3
  <2>5. (s \ {x}) \cup {x} = s
    BY <2>2
  <2> QED BY <2>4, <2>5
<1> HIDE DEF Q
<1>4. Nat \subseteq Q
  BY <1>2, <1>3, NatInd
<1> QED BY <1>1, <1>4 DEF Q

One(s) == CHOOSE x \in s : TRUE
Sums(f, S, g) == g = [s \in SUBSET S |-> IF s = {} THEN 0 ELSE f[One(s)] + g[s \ {One(s)}]]

LEMMA OneIn == ASSUME NEW s, s # {} PROVE One(s) \in s
BY DEF One

\* What FoldFunctionOnSet computes, for any set and before anything is known of it.
LEMMA SumIs ==
    ASSUME NEW f, NEW S
    PROVE  SumFunctionOnSet(f, S) = (CHOOSE g : Sums(f, S, g))[S]
BY DEF SumFunctionOnSet, FoldFunctionOnSet, MapThenFoldSet, Sums, One

LEMMA SumsExist ==
    ASSUME NEW S, IsFiniteSet(S), NEW f, \A x \in S : f[x] \in Int
    PROVE  \E g : Sums(f, S, g) /\ g \in [SUBSET S -> Int]
<1> DEFINE Small(n) == {s \in SUBSET S : Cardinality(s) <= n}
           Rec(g, s) == IF s = {} THEN 0 ELSE f[One(s)] + g[s \ {One(s)}]
           Good(n, g) == g \in [Small(n) -> Int] /\ \A s \in Small(n) : g[s] = Rec(g, s)
           Q == {n \in Nat : \E g : Good(n, g)}
<1>1. \A s \in SUBSET S : IsFiniteSet(s) /\ Cardinality(s) \in Nat
  BY FS_Subset, FS_CardinalityType
<1>2. \A s \in SUBSET S : s # {} =>
          /\ One(s) \in S /\ s \ {One(s)} \in SUBSET S
          /\ Cardinality(s \ {One(s)}) = Cardinality(s) - 1
  <2> SUFFICES ASSUME NEW s \in SUBSET S, s # {}
               PROVE  /\ One(s) \in S /\ s \ {One(s)} \in SUBSET S
                      /\ Cardinality(s \ {One(s)}) = Cardinality(s) - 1
    OBVIOUS
  <2>1. One(s) \in s
    BY OneIn
  <2> QED BY <2>1, <1>1, FS_RemoveElement
<1>3. 0 \in Q
  <2> DEFINE g == [s \in Small(0) |-> 0]
  <2>1. \A s \in Small(0) : s = {}
    BY <1>1, FS_EmptySet
  <2>2. g \in [Small(0) -> Int] /\ \A s \in Small(0) : g[s] = Rec(g, s)
    BY <2>1
  <2>3. Good(0, g)
    BY <2>2
  <2> HIDE DEF g, Good
  <2> QED BY <2>3
<1>4. ASSUME NEW n \in Nat, n \in Q PROVE n+1 \in Q
  <2>1. PICK g : Good(n, g)
    BY <1>4
  <2> DEFINE h == [s \in Small(n+1) |-> Rec(g, s)]
  <2>2. \A s \in Small(n+1) : s # {} => s \ {One(s)} \in Small(n) /\ s \ {One(s)} \in Small(n+1)
    BY <1>1, <1>2
  <2>3. Small(n) \subseteq Small(n+1)
    BY <1>1
  <2>4. h \in [Small(n+1) -> Int]
    <3> SUFFICES ASSUME NEW s \in Small(n+1), s # {} PROVE f[One(s)] + g[s \ {One(s)}] \in Int
      OBVIOUS
    <3>1. f[One(s)] \in Int
      BY <1>2
    <3>2. g[s \ {One(s)}] \in Int
      BY <2>1, <2>2
    <3> QED BY <3>1, <3>2
  <2>5. \A s \in Small(n) : h[s] = g[s]
    BY <2>1, <2>3
  <2>6. \A s \in Small(n+1) : h[s] = Rec(h, s)
    BY <2>2, <2>5
  <2>7. Good(n+1, h)
    BY <2>4, <2>6
  <2> HIDE DEF h, Good
  <2> QED BY <2>7
<1> HIDE DEF Q
<1>5. Cardinality(S) \in Q
  BY <1>3, <1>4, NatInd, <1>1
<1>6. PICK g : Good(Cardinality(S), g)
  BY <1>5 DEF Q
<1>7. Small(Cardinality(S)) = SUBSET S
  BY <1>1, FS_Subset
<1> QED BY <1>6, <1>7 DEF Sums

LEMMA SumsUnique ==
    ASSUME NEW S, IsFiniteSet(S), NEW f, NEW g, NEW h, Sums(f, S, g), Sums(f, S, h)
    PROVE  \A s \in SUBSET S : g[s] = h[s]
<1> DEFINE Q == {n \in Nat : \A s \in SUBSET S : Cardinality(s) = n => g[s] = h[s]}
<1>1. \A s \in SUBSET S : IsFiniteSet(s) /\ Cardinality(s) \in Nat
  BY FS_Subset, FS_CardinalityType
<1>2. 0 \in Q
  BY <1>1, FS_EmptySet DEF Sums
<1>3. ASSUME NEW n \in Nat, n \in Q PROVE n+1 \in Q
  <2>1. SUFFICES ASSUME NEW s \in SUBSET S, Cardinality(s) = n+1 PROVE g[s] = h[s]
    OBVIOUS
  <2>2. s # {}
    BY <2>1, FS_EmptySet
  <2>3. One(s) \in s
    BY <2>2, OneIn
  <2>4. Cardinality(s \ {One(s)}) = n
    BY <2>1, <2>3, <1>1, FS_RemoveElement
  <2>5. g[s \ {One(s)}] = h[s \ {One(s)}]
    BY <2>4, <1>3
  <2>6. g[s] = f[One(s)] + g[s \ {One(s)}] /\ h[s] = f[One(s)] + h[s \ {One(s)}]
    BY <2>2 DEF Sums
  <2> QED BY <2>5, <2>6
<1> HIDE DEF Q
<1>4. Nat \subseteq Q
  BY <1>2, <1>3, NatInd
<1> QED BY <1>1, <1>4 DEF Q

\* The sum over a subset is the value at it of the function for the whole.
LEMMA SumOfSubset ==
    ASSUME NEW S, IsFiniteSet(S), NEW f, NEW g, Sums(f, S, g), NEW T \in SUBSET S
    PROVE  SumFunctionOnSet(f, T) = g[T]
<1> DEFINE h == [s \in SUBSET T |-> g[s]]
<1>1. Sums(f, T, h)
  <2>1. \A s \in SUBSET T : g[s] = IF s = {} THEN 0 ELSE f[One(s)] + g[s \ {One(s)}]
    BY DEF Sums
  <2>2. \A s \in SUBSET T : s \ {One(s)} \in SUBSET T
    OBVIOUS
  <2> QED BY <2>1, <2>2 DEF Sums
<1> DEFINE k == CHOOSE k : Sums(f, T, k)
<1>2. Sums(f, T, k)
  BY <1>1
<1>3. IsFiniteSet(T)
  BY FS_Subset
<1> HIDE DEF k, h
<1>4. k[T] = h[T]
  BY <1>1, <1>2, <1>3, SumsUnique
<1>5. h[T] = g[T]
  BY DEF h
<1>6. SumFunctionOnSet(f, T) = k[T]
  BY SumIs DEF k
<1> QED BY <1>4, <1>5, <1>6

LEMMA SumRec ==
    ASSUME NEW S, IsFiniteSet(S), NEW f, \A x \in S : f[x] \in Int
    PROVE  /\ SumFunctionOnSet(f, {}) = 0
           /\ SumFunctionOnSet(f, S) \in Int
           /\ \A x \in S : SumFunctionOnSet(f, S) = f[x] + SumFunctionOnSet(f, S \ {x})
<1>1. PICK g : Sums(f, S, g) /\ g \in [SUBSET S -> Int]
  BY SumsExist
<1>2. \A T \in SUBSET S : SumFunctionOnSet(f, T) = g[T]
  BY <1>1, SumOfSubset
<1>3. g[{}] = 0
  BY <1>1 DEF Sums
<1> DEFINE Q == {n \in Nat : \A s \in SUBSET S : Cardinality(s) = n =>
                                \A x \in s : g[s] = f[x] + g[s \ {x}]}
<1>4. \A s \in SUBSET S : IsFiniteSet(s) /\ Cardinality(s) \in Nat
  BY FS_Subset, FS_CardinalityType
<1>5. 0 \in Q
  BY <1>4, FS_EmptySet
<1>6. ASSUME NEW n \in Nat, n \in Q PROVE n+1 \in Q
  <2>1. SUFFICES ASSUME NEW s \in SUBSET S, Cardinality(s) = n+1, NEW x \in s
                 PROVE  g[s] = f[x] + g[s \ {x}]
    OBVIOUS
  <2> DEFINE o == One(s)
  <2>2. o \in s
    BY OneIn
  <2>3. g[s] = f[o] + g[s \ {o}]
    BY <1>1 DEF Sums
  <2> HIDE DEF o
  <2>4. CASE x = o
    BY <2>3, <2>4
  <2>5. CASE x # o
    <3>1. Cardinality(s \ {o}) = n /\ Cardinality(s \ {x}) = n
      <4>1. Cardinality(s \ {o}) = Cardinality(s) - 1 /\ Cardinality(s \ {x}) = Cardinality(s) - 1
        BY <2>1, <2>2, <1>4, FS_RemoveElement
      <4> QED BY <4>1, <2>1
    <3>2. g[s \ {o}] = f[x] + g[(s \ {o}) \ {x}]
      BY <3>1, <2>1, <2>5, <1>6
    <3>3. g[s \ {x}] = f[o] + g[(s \ {x}) \ {o}]
      BY <3>1, <2>1, <2>2, <2>5, <1>6
    <3>4. (s \ {x}) \ {o} = (s \ {o}) \ {x}
      OBVIOUS
    <3>5. f[x] \in Int /\ f[o] \in Int /\ g[(s \ {o}) \ {x}] \in Int
      BY <1>1, <2>1, <2>2
    <3> DEFINE a == f[x]
               b == f[o]
               c == g[(s \ {o}) \ {x}]
    <3>6. g[s] = b + (a + c) /\ g[s \ {x}] = b + c
      BY <2>3, <3>2, <3>3, <3>4
    <3>7. a \in Int /\ b \in Int /\ c \in Int
      BY <3>5
    <3> HIDE DEF a, b, c
    <3>8. b + (a + c) = a + (b + c)
      BY <3>7
    <3>9. g[s] = a + g[s \ {x}]
      BY <3>6, <3>8
    <3> QED BY <3>9 DEF a
  <2> QED BY <2>4, <2>5
<1> HIDE DEF Q
<1>7. Nat \subseteq Q
  BY <1>5, <1>6, NatInd
<1>8. \A x \in S : g[S] = f[x] + g[S \ {x}]
  BY <1>4, <1>7 DEF Q
<1> QED BY <1>1, <1>2, <1>3, <1>8

\* Functions that agree on the set have one sum.
LEMMA SumSame ==
    ASSUME NEW S, IsFiniteSet(S), NEW f, NEW g, \A x \in S : f[x] \in Int /\ f[x] = g[x]
    PROVE  SumFunctionOnSet(f, S) = SumFunctionOnSet(g, S)
<1> DEFINE P == {s \in SUBSET S : SumFunctionOnSet(f, s) = SumFunctionOnSet(g, s)}
<1>1. {} \in P
  BY SumRec, FS_EmptySet
<1>2. ASSUME NEW s \in SUBSET S, NEW x \in S, x \notin s, s \in P
      PROVE  s \cup {x} \in P
  <2>1. IsFiniteSet(s \cup {x}) /\ (s \cup {x}) \ {x} = s
    BY <1>2, FS_Subset, FS_AddElement
  <2>2. SumFunctionOnSet(f, s \cup {x}) = f[x] + SumFunctionOnSet(f, s)
    BY <2>1, SumRec
  <2>3. SumFunctionOnSet(g, s \cup {x}) = g[x] + SumFunctionOnSet(g, s)
    <3>1. \A y \in s \cup {x} : g[y] \in Int
      BY <1>2
    <3> QED BY <2>1, <3>1, SumRec
  <2> QED BY <1>2, <2>2, <2>3
<1> HIDE DEF P
<1>3. SUBSET S \subseteq P
  BY <1>1, <1>2, SetInd
<1> QED BY <1>3 DEF P

\* A change at one place changes the sum by as much.
LEMMA SumChange ==
    ASSUME NEW S, IsFiniteSet(S), NEW f, NEW g, NEW x \in S,
           \A y \in S : f[y] \in Int /\ g[y] \in Int,
           \A y \in S \ {x} : f[y] = g[y]
    PROVE  SumFunctionOnSet(g, S) = SumFunctionOnSet(f, S) - f[x] + g[x]
<1>1. IsFiniteSet(S \ {x})
  BY FS_Subset
<1>2. SumFunctionOnSet(f, S \ {x}) = SumFunctionOnSet(g, S \ {x})
  BY <1>1, SumSame
<1>3. SumFunctionOnSet(f, S \ {x}) \in Int
  BY <1>1, SumRec
<1>4. /\ SumFunctionOnSet(f, S) = f[x] + SumFunctionOnSet(f, S \ {x})
      /\ SumFunctionOnSet(g, S) = g[x] + SumFunctionOnSet(g, S \ {x})
  BY SumRec
<1> DEFINE rest == SumFunctionOnSet(f, S \ {x})
<1>5. rest \in Int /\ SumFunctionOnSet(f, S) = f[x] + rest /\ SumFunctionOnSet(g, S) = g[x] + rest
  BY <1>2, <1>3, <1>4
<1>6. f[x] \in Int /\ g[x] \in Int
  OBVIOUS
<1> HIDE DEF rest
<1> QED BY <1>5, <1>6

LEMMA SumMinus ==
    ASSUME NEW S, IsFiniteSet(S), NEW f, NEW g, NEW h,
           \A x \in S : f[x] \in Int /\ g[x] \in Int /\ h[x] = f[x] - g[x]
    PROVE  SumFunctionOnSet(h, S) = SumFunctionOnSet(f, S) - SumFunctionOnSet(g, S)
<1> DEFINE P == {s \in SUBSET S :
                   SumFunctionOnSet(h, s) = SumFunctionOnSet(f, s) - SumFunctionOnSet(g, s)}
<1>1. {} \in P
  BY SumRec, FS_EmptySet
<1>2. ASSUME NEW s \in SUBSET S, NEW x \in S, x \notin s, s \in P
      PROVE  s \cup {x} \in P
  <2>1. IsFiniteSet(s) /\ IsFiniteSet(s \cup {x}) /\ (s \cup {x}) \ {x} = s
    BY <1>2, FS_Subset, FS_AddElement
  <2>2. \A y \in s \cup {x} : f[y] \in Int /\ g[y] \in Int /\ h[y] \in Int
    BY <1>2
  <2>3. /\ SumFunctionOnSet(f, s \cup {x}) = f[x] + SumFunctionOnSet(f, s)
        /\ SumFunctionOnSet(f, s) \in Int
    BY <2>1, <2>2, SumRec
  <2>4. /\ SumFunctionOnSet(g, s \cup {x}) = g[x] + SumFunctionOnSet(g, s)
        /\ SumFunctionOnSet(g, s) \in Int
    BY <2>1, <2>2, SumRec
  <2>5. SumFunctionOnSet(h, s \cup {x}) = h[x] + SumFunctionOnSet(h, s)
    BY <2>1, <2>2, SumRec
  <2>6. SumFunctionOnSet(h, s) = SumFunctionOnSet(f, s) - SumFunctionOnSet(g, s)
    BY <1>2
  <2> QED BY <1>2, <2>2, <2>3, <2>4, <2>5, <2>6
<1> HIDE DEF P
<1>3. SUBSET S \subseteq P
  BY <1>1, <1>2, SetInd
<1> QED BY <1>3 DEF P

\* A sum of numbers is one, and at most as many times the largest as there are.
LEMMA SumBounds ==
    ASSUME NEW S, IsFiniteSet(S), NEW f, NEW c \in Nat, \A x \in S : f[x] \in 0..c
    PROVE  /\ SumFunctionOnSet(f, S) \in Nat
           /\ SumFunctionOnSet(f, S) <= c * Cardinality(S)
<1> DEFINE P == {s \in SUBSET S : /\ SumFunctionOnSet(f, s) \in Nat
                                  /\ SumFunctionOnSet(f, s) <= c * Cardinality(s)}
<1>1. {} \in P
  BY SumRec, FS_EmptySet
<1>2. ASSUME NEW s \in SUBSET S, NEW x \in S, x \notin s, s \in P
      PROVE  s \cup {x} \in P
  <2>1. /\ IsFiniteSet(s) /\ IsFiniteSet(s \cup {x}) /\ (s \cup {x}) \ {x} = s
        /\ Cardinality(s) \in Nat /\ Cardinality(s \cup {x}) = Cardinality(s) + 1
    BY <1>2, FS_Subset, FS_AddElement, FS_CardinalityType
  <2>2. SumFunctionOnSet(f, s \cup {x}) = f[x] + SumFunctionOnSet(f, s)
    <3>1. \A y \in s \cup {x} : f[y] \in Int
      BY <1>2
    <3> QED BY <2>1, <3>1, SumRec
  <2> DEFINE a == SumFunctionOnSet(f, s)
             n == Cardinality(s)
  <2>3. a \in Nat /\ a <= c * n /\ n \in Nat /\ f[x] \in Nat /\ f[x] <= c
    BY <1>2, <2>1
  <2> HIDE DEF a, n
  <2>4. f[x] + a \in Nat /\ f[x] + a <= c * (n + 1)
    <3>1. c * (n + 1) = c * n + c
      BY <2>3
    <3>2. c * n \in Nat
      BY <2>3
    <3> QED BY <2>3, <3>1, <3>2
  <2> QED BY <2>1, <2>2, <2>4 DEF a, n
<1> HIDE DEF P
<1>3. SUBSET S \subseteq P
  BY <1>1, <1>2, SetInd
<1> QED BY <1>3 DEF P

LEMMA SumConst ==
    ASSUME NEW S, IsFiniteSet(S), NEW f, NEW c \in Nat, \A x \in S : f[x] = c
    PROVE  SumFunctionOnSet(f, S) = c * Cardinality(S)
<1> DEFINE P == {s \in SUBSET S : SumFunctionOnSet(f, s) = c * Cardinality(s)}
<1>1. {} \in P
  BY SumRec, FS_EmptySet
<1>2. ASSUME NEW s \in SUBSET S, NEW x \in S, x \notin s, s \in P
      PROVE  s \cup {x} \in P
  <2>1. /\ IsFiniteSet(s) /\ IsFiniteSet(s \cup {x}) /\ (s \cup {x}) \ {x} = s
        /\ Cardinality(s) \in Nat /\ Cardinality(s \cup {x}) = Cardinality(s) + 1
    BY <1>2, FS_Subset, FS_AddElement, FS_CardinalityType
  <2>2. SumFunctionOnSet(f, s \cup {x}) = f[x] + SumFunctionOnSet(f, s)
    <3>1. \A y \in s \cup {x} : f[y] \in Int
      BY <1>2
    <3> QED BY <2>1, <3>1, SumRec
  <2> DEFINE n == Cardinality(s)
  <2>3. SumFunctionOnSet(f, s \cup {x}) = c + c * n /\ n \in Nat
    BY <1>2, <2>1, <2>2
  <2> HIDE DEF n
  <2>4. c + c * n = c * (n + 1)
    BY <2>3
  <2> QED BY <2>1, <2>3, <2>4 DEF n
<1> HIDE DEF P
<1>3. SUBSET S \subseteq P
  BY <1>1, <1>2, SetInd
<1> QED BY <1>3 DEF P

LEMMA SumLess ==
    ASSUME NEW S, IsFiniteSet(S), NEW f, NEW g,
           \A x \in S : f[x] \in Int /\ g[x] \in Int /\ f[x] <= g[x]
    PROVE  SumFunctionOnSet(f, S) <= SumFunctionOnSet(g, S)
<1> DEFINE P == {s \in SUBSET S : SumFunctionOnSet(f, s) <= SumFunctionOnSet(g, s)}
<1>1. {} \in P
  BY SumRec, FS_EmptySet
<1>2. ASSUME NEW s \in SUBSET S, NEW x \in S, x \notin s, s \in P
      PROVE  s \cup {x} \in P
  <2>1. IsFiniteSet(s) /\ IsFiniteSet(s \cup {x}) /\ (s \cup {x}) \ {x} = s
    BY <1>2, FS_Subset, FS_AddElement
  <2>2. \A y \in s \cup {x} : f[y] \in Int /\ g[y] \in Int
    BY <1>2
  <2>3. /\ SumFunctionOnSet(f, s \cup {x}) = f[x] + SumFunctionOnSet(f, s)
        /\ SumFunctionOnSet(f, s) \in Int
    BY <2>1, <2>2, SumRec
  <2>4. /\ SumFunctionOnSet(g, s \cup {x}) = g[x] + SumFunctionOnSet(g, s)
        /\ SumFunctionOnSet(g, s) \in Int
    BY <2>1, <2>2, SumRec
  <2>5. SumFunctionOnSet(f, s) <= SumFunctionOnSet(g, s)
    BY <1>2
  <2> QED BY <1>2, <2>2, <2>3, <2>4, <2>5
<1> HIDE DEF P
<1>3. SUBSET S \subseteq P
  BY <1>1, <1>2, SetInd
<1> QED BY <1>3 DEF P

-----------------------------------------------------------------------------
(* The inductive invariant                                                 *)

\* Every descriptor has the size its object was asked for with.
Sizes == \A o \in list : descrs[o].m_size = large_size

\* What is under construction is in the list, in one place.
BuildingHeld == \A t \in Threads : \A i \in 1..Len(building[t]) : building[t][i] \in list \cup {None}
BuildingOnce ==
    \A t, u \in Threads : \A i \in 1..Len(building[t]), j \in 1..Len(building[u]) :
        building[t][i] = building[u][j] /\ building[t][i] # None => t = u /\ i = j

\* A thread whose request was checked and that has not added its size yet: it
\* launches a collection, or has come back from it.
Launching(t) ==
    \/ pc[t] = "grant"
    \/ pc[t] \in {"gc_lock", "gc_run"} /\ opt[t] = "LAUNCH"
Owed == [t \in Threads |-> IF Launching(t) THEN Size(t) ELSE 0]

\* With what these add the limit is passed by at most a block for each other
\* thread.
Overshoot ==
    m_heap_size + SumFunctionOnSet(Owed, Threads)
        <= m_heap_limit + (Cardinality(Threads) - 1) * Max({PoolBlk, LargeBlk})

\* A thread in gc_new knows what it allocates and has room for one more.
InGcNew(t) == pc[t] # "run" /\ (pc[t] \in {"gc_lock", "gc_run"} => kind[t] # "none")
NestInv == \A t \in Threads : InGcNew(t) => kind[t] # "none" /\ Len(building[t]) < MaxNest

StoreInv == Sizes /\ BuildingHeld /\ BuildingOnce /\ HeapSizeExact
IInv == TypeOK /\ NestInv /\ StoreInv /\ Overshoot

LEMMA BlockSizes == PoolBlk \in Nat /\ LargeBlk \in Nat
<1>1. PoolBlk \in Nat
  <2>1. small_size \in Nat \ {0} /\ BoxSize(small_size) <= LARGE_CELL_SIZE
    BY SizeAssumption
  <2>2. PoolBlk = ChunkSize(CellSize(small_size))
    BY <2>1, ChunksHaveBuckets DEF PoolBlk
  <2>3. CellSize(small_size) \in Nat
    BY <2>1, SmallObjectFits DEF SZ_CLS
  <2> QED BY <2>2, <2>3 DEF ChunkSize, MANAGED_CHUNK_OBJECTS_COUNT, PAGE_SIZE, MIN_CELL_SIZE
<1>2. LargeBlk \in Nat
  BY SizeAssumption DEF LargeBlk, LargeBlock, LargeBlkSize, BlkSize, MemblkSize, AlignSize, BoxSize,
     SysAlignSize, PAGE_SIZE, BOX_META, CONTROL_BLOCK, OBJECT_DESCRIPTOR
<1> QED BY <1>1, <1>2

LEMMA Largest ==
    /\ Max({PoolBlk, LargeBlk}) \in Nat
    /\ PoolBlk <= Max({PoolBlk, LargeBlk}) /\ LargeBlk <= Max({PoolBlk, LargeBlk})
<1>1. \E x \in {PoolBlk, LargeBlk} : \A y \in {PoolBlk, LargeBlk} : x >= y
  BY BlockSizes
<1> QED BY <1>1, BlockSizes DEF Max

LEMMA SizeBounds ==
    /\ \A t \in Threads : Size(t) \in 0..Max({PoolBlk, LargeBlk})
    /\ \A t \in Threads : Owed[t] \in 0..Max({PoolBlk, LargeBlk})
    /\ \A t \in Threads : Owed'[t] \in 0..Max({PoolBlk, LargeBlk})
BY BlockSizes, Largest DEF Size, Owed

\* Threads can be counted, and there is one.
LEMMA ThreadCount == IsFiniteSet(Threads) /\ Cardinality(Threads) \in Nat \ {0}
BY ThreadsAssumption, FS_CardinalityType, FS_EmptySet

LEMMA InitIInv == Init => IInv
<1> SUFFICES ASSUME Init PROVE IInv
  OBVIOUS
<1>1. list = {} /\ reach = {}
  BY DEF Init, list
<1>2. TypeOK
  <2>1. descrs \in [list -> ObjectDescriptors]
    BY <1>1 DEF Init, list
  <2>2. building \in [Threads -> Seq(LargeObjects \cup {None})] /\ \A t \in Threads : Len(building[t]) = 0
    BY DEF Init
  <2>3. /\ m_heap_size \in Nat
        /\ m_heap_limit \in StartLimit..MaxLimit
        /\ m_phase \in {"IDLE", "MARK"}
        /\ gcMutex \in Threads \cup {None}
        /\ loMutex \in Threads \cup {None}
        /\ pools \in [Threads -> Nat]
    BY LimitAssumption DEF Init
  <2>4. /\ pc \in [Threads -> PC]
        /\ kind \in [Threads -> {"none", "pool", "large"}]
        /\ attempt \in [Threads -> 0..2]
        /\ retried \in [Threads -> BOOLEAN]
        /\ opt \in [Threads -> {"LAUNCH", "COLLECT"}]
    BY DEF Init, PC
  <2>5. m_mark_threshold \in BOOLEAN /\ crashed \in BOOLEAN
    BY DEF Init
  <2> QED BY <1>1, <2>1, <2>2, <2>3, <2>4, <2>5, MaxNestAssumption DEF TypeOK
<1>3. Sizes /\ BuildingHeld /\ BuildingOnce
  BY <1>1 DEF Init, Sizes, BuildingHeld, BuildingOnce
<1>4. HeapSizeExact
  <2>1. SumFunctionOnSet(pools, Threads) = 0 * Cardinality(Threads)
    BY ThreadCount, SumConst DEF Init
  <2>2. Cardinality(list) = 0
    BY <1>1, FS_EmptySet
  <2> QED BY <2>1, <2>2, ThreadCount, BlockSizes DEF HeapSizeExact, Init
<1>5. Overshoot
  <2>1. \A t \in Threads : Owed[t] = 0
    BY DEF Owed, Launching, Init
  <2>2. SumFunctionOnSet(Owed, Threads) = 0 * Cardinality(Threads)
    BY <2>1, ThreadCount, SumConst
  <2>3. (Cardinality(Threads) - 1) * Max({PoolBlk, LargeBlk}) \in Nat
    BY ThreadCount, Largest
  <2> QED BY <2>2, <2>3, ThreadCount, LimitAssumption DEF Overshoot, Init
<1>6. NestInv
  BY DEF NestInv, InGcNew, Init
<1> QED BY <1>2, <1>3, <1>4, <1>5, <1>6 DEF IInv, StoreInv

-----------------------------------------------------------------------------
(* What the steps keep                                                     *)

LEMMA StoreKept ==
    ASSUME StoreInv, UNCHANGED <<m_heap_size, pools, descrs, building>>
    PROVE  StoreInv'
BY DEF StoreInv, Sizes, BuildingHeld, BuildingOnce, HeapSizeExact, list

\* The bound holds on while nobody launches and no size is added.
LEMMA OvershootKept ==
    ASSUME TypeOK, Overshoot, m_heap_size' \in Nat, m_heap_limit' \in Nat,
           m_heap_size' <= m_heap_size, m_heap_limit <= m_heap_limit',
           \A t \in Threads : Owed'[t] \in {0, Owed[t]}
    PROVE  Overshoot'
<1> DEFINE M == (Cardinality(Threads) - 1) * Max({PoolBlk, LargeBlk})
           before == SumFunctionOnSet(Owed, Threads)
           after == SumFunctionOnSet(Owed', Threads)
           size == m_heap_size'
           limit == m_heap_limit'
<1>1. \A t \in Threads : Owed[t] \in Int /\ Owed'[t] \in Int /\ Owed'[t] <= Owed[t]
  BY SizeBounds, Largest
<1>2. before \in Int /\ after \in Int /\ after <= before
  BY <1>1, ThreadCount, SumRec, SumLess
<1>3. M \in Int
  BY ThreadCount, Largest
<1>4. m_heap_size + before <= m_heap_limit + M
  BY DEF Overshoot
<1>5. m_heap_size \in Nat /\ m_heap_limit \in Int
  BY LimitAssumption DEF TypeOK
<1>6. /\ size \in Nat /\ size <= m_heap_size
      /\ limit \in Nat /\ m_heap_limit <= limit
  OBVIOUS
<1> HIDE DEF M, before, after, size, limit
<1>7. size + after <= limit + M
  BY <1>2, <1>3, <1>4, <1>5, <1>6
<1> QED BY <1>7 DEF Overshoot, M, after, size, limit

\* A thread that is not launching owes nothing, and one that goes on owing owes
\* the same.
LEMMA OwedKept ==
    ASSUME NEW t \in Threads,
           Launching(t)' => Launching(t) /\ Size(t)' = Size(t),
           \A u \in Threads \ {t} : /\ pc'[u] = pc[u] /\ opt'[u] = opt[u]
                                    /\ kind'[u] = kind[u]
    PROVE  \A u \in Threads : Owed'[u] \in {0, Owed[u]}
<1> SUFFICES ASSUME NEW u \in Threads PROVE Owed'[u] \in {0, Owed[u]}
  OBVIOUS
<1>1. CASE u = t
  BY <1>1 DEF Owed
<1>2. CASE u # t
  <2>1. Launching(u)' = Launching(u) /\ Size(u)' = Size(u)
    BY <1>2 DEF Launching, Size
  <2> QED BY <2>1 DEF Owed
<1> QED BY <1>1, <1>2

\* Steps that change neither the store nor the sizes, and start no launch.
Quiet(t) ==
    \/ \E k \in Kinds : GcNew(t, k)
    \/ LockLo(t) \/ Refuse(t) \/ LaunchCollect(t) \/ ExpandHeap(t) \/ BadAlloc(t)
    \/ Gc(t) \/ GcLock(t) \/ GcLaunch(t) \/ GcCrash(t)

\* The limit only grows, up to the maximum.
LEMMA DoubledLimit ==
    ASSUME NEW l \in StartLimit..MaxLimit
    PROVE  Least(2 * l, MaxLimit) \in StartLimit..MaxLimit /\ l <= Least(2 * l, MaxLimit)
BY LimitAssumption DEF Least

LEMMA QuietTypeOK == ASSUME TypeOK, NEW t \in Threads, Quiet(t) PROVE TypeOK'
<1> USE DEF TypeOK, At, Goto, core, heap, locks, local, PC, UnlockLo, Ask, list, init
<1>1. ASSUME NEW k \in Kinds, GcNew(t, k) PROVE TypeOK'
  BY <1>1, KindsAssumption DEF GcNew
<1>2. CASE LockLo(t)
  BY <1>2 DEF LockLo
<1>3. CASE Refuse(t)
  BY <1>3 DEF Refuse
<1>4. CASE LaunchCollect(t)
  BY <1>4 DEF LaunchCollect
<1>5. CASE ExpandHeap(t)
  <2>1. m_heap_limit' \in StartLimit..MaxLimit
    BY <1>5, LimitAssumption, DoubledLimit DEF ExpandHeap
  <2>2. m_mark_threshold' \in BOOLEAN
    BY <1>5 DEF ExpandHeap
  <2> QED BY <1>5, <2>1, <2>2 DEF ExpandHeap
<1>6. CASE BadAlloc(t)
  BY <1>6 DEF BadAlloc
<1>7. CASE Gc(t)
  BY <1>7 DEF Gc
<1>8. CASE GcLock(t)
  BY <1>8 DEF GcLock
<1>9. CASE GcLaunch(t)
  BY <1>9 DEF GcLaunch, GcReturn
<1>10. CASE GcCrash(t)
  BY <1>10 DEF GcCrash
<1> QED BY <1>1, <1>2, <1>3, <1>4, <1>5, <1>6, <1>7, <1>8, <1>9, <1>10 DEF Quiet

\* The other threads go on as they were.
LEMMA QuietOthers ==
    ASSUME TypeOK, NEW t \in Threads, Quiet(t)
    PROVE  \A u \in Threads \ {t} : pc'[u] = pc[u] /\ opt'[u] = opt[u] /\ kind'[u] = kind[u]
<1> SUFFICES ASSUME NEW u \in Threads \ {t}
             PROVE  pc'[u] = pc[u] /\ opt'[u] = opt[u] /\ kind'[u] = kind[u]
  OBVIOUS
<1>0. DOMAIN pc = Threads /\ DOMAIN opt = Threads /\ DOMAIN kind = Threads
  BY DEF TypeOK
<1> USE <1>0 DEF Goto
<1>1. ASSUME NEW k \in Kinds, GcNew(t, k)
      PROVE  pc'[u] = pc[u] /\ opt'[u] = opt[u] /\ kind'[u] = kind[u]
  BY <1>1 DEF GcNew
<1>2. CASE LockLo(t)
  BY <1>2 DEF LockLo, local
<1>3. CASE Refuse(t)
  BY <1>3 DEF Refuse, local
<1>4. CASE LaunchCollect(t)
  BY <1>4 DEF LaunchCollect, local
<1>5. CASE ExpandHeap(t)
  BY <1>5 DEF ExpandHeap, local
<1>6. CASE BadAlloc(t)
  BY <1>6 DEF BadAlloc, local
<1>7. CASE Gc(t)
  BY <1>7 DEF Gc, local
<1>8. CASE GcLock(t)
  BY <1>8 DEF GcLock, local
<1>9. CASE GcLaunch(t)
  BY <1>9 DEF GcLaunch, GcReturn, local
<1>10. CASE GcCrash(t)
  BY <1>10 DEF GcCrash, local
<1> QED BY <1>1, <1>2, <1>3, <1>4, <1>5, <1>6, <1>7, <1>8, <1>9, <1>10 DEF Quiet

LEMMA QuietOvershoot ==
    ASSUME TypeOK, Overshoot, NEW t \in Threads, Quiet(t), TypeOK'
    PROVE  Overshoot'
<1>1. m_heap_size' = m_heap_size /\ m_heap_limit <= m_heap_limit'
  <2>1. m_heap_limit \in StartLimit..MaxLimit
    BY DEF TypeOK
  <2>2. m_heap_limit <= m_heap_limit
    BY <2>1
  <2>3. CASE ExpandHeap(t)
    BY <2>1, <2>3, DoubledLimit DEF ExpandHeap
  <2>4. CASE ~ExpandHeap(t)
    BY <2>2, <2>4 DEF Quiet, GcNew, LockLo, Refuse, LaunchCollect, BadAlloc, Gc, GcLock,
       GcLaunch, GcCrash, core
  <2> QED BY <2>3, <2>4
<1>2. \A u \in Threads \ {t} : pc'[u] = pc[u] /\ opt'[u] = opt[u] /\ kind'[u] = kind[u]
  BY QuietOthers
<1>3. Launching(t)' => Launching(t) /\ Size(t)' = Size(t)
  <2> USE DEF TypeOK, At, Goto, Launching, Size, Ask, PC
  <2>1. ASSUME NEW k \in Kinds, GcNew(t, k) PROVE ~Launching(t)'
    BY <2>1 DEF GcNew
  <2>2. CASE LockLo(t)
    BY <2>2 DEF LockLo
  <2>3. CASE Refuse(t)
    BY <2>3 DEF Refuse
  <2>4. CASE LaunchCollect(t)
    BY <2>4 DEF LaunchCollect
  <2>5. CASE ExpandHeap(t)
    BY <2>5 DEF ExpandHeap
  <2>6. CASE BadAlloc(t)
    BY <2>6 DEF BadAlloc
  <2>7. CASE Gc(t)
    BY <2>7 DEF Gc
  <2>8. CASE GcLock(t)
    BY <2>8 DEF GcLock
  <2>9. CASE GcLaunch(t)
    BY <2>9 DEF GcLaunch, GcReturn
  <2>10. CASE GcCrash(t)
    BY <2>10 DEF GcCrash, local
  <2> QED BY <2>1, <2>2, <2>3, <2>4, <2>5, <2>6, <2>7, <2>8, <2>9, <2>10 DEF Quiet
<1>4. \A u \in Threads : Owed'[u] \in {0, Owed[u]}
  BY <1>2, <1>3, OwedKept
<1>5. m_heap_size' \in Nat /\ m_heap_limit' \in Nat /\ m_heap_size' <= m_heap_size
  BY <1>1, LimitAssumption DEF TypeOK
<1> QED BY <1>1, <1>4, <1>5, OvershootKept

LEMMA QuietNestInv == ASSUME TypeOK, NestInv, NEW t \in Threads, Quiet(t) PROVE NestInv'
<1>1. building' = building
  BY DEF Quiet, GcNew, LockLo, Refuse, LaunchCollect, ExpandHeap, BadAlloc, Gc, GcLock,
     GcLaunch, GcCrash, GcReturn, local
<1>2. \A u \in Threads \ {t} : pc'[u] = pc[u] /\ kind'[u] = kind[u]
  BY QuietOthers
<1>3. InGcNew(t)' => kind'[t] # "none" /\ Len(building[t]) < MaxNest
  <2> USE DEF TypeOK, NestInv, InGcNew, At, Goto, Ask, PC
  <2>1. ASSUME NEW k \in Kinds, GcNew(t, k)
        PROVE  kind'[t] # "none" /\ Len(building[t]) < MaxNest
    BY <2>1, KindsAssumption DEF GcNew
  <2>2. CASE LockLo(t)
    BY <2>2 DEF LockLo
  <2>3. CASE Refuse(t)
    BY <2>3 DEF Refuse
  <2>4. CASE LaunchCollect(t)
    BY <2>4 DEF LaunchCollect
  <2>5. CASE ExpandHeap(t)
    BY <2>5 DEF ExpandHeap
  <2>6. CASE BadAlloc(t)
    BY <2>6 DEF BadAlloc
  <2>7. CASE Gc(t)
    BY <2>7 DEF Gc
  <2>8. CASE GcLock(t)
    BY <2>8 DEF GcLock
  <2>9. CASE GcLaunch(t)
    BY <2>9 DEF GcLaunch, GcReturn
  <2>10. CASE GcCrash(t)
    BY <2>10 DEF GcCrash, local
  <2> QED BY <2>1, <2>2, <2>3, <2>4, <2>5, <2>6, <2>7, <2>8, <2>9, <2>10 DEF Quiet
<1> QED BY <1>1, <1>2, <1>3 DEF NestInv, InGcNew

LEMMA QuietIInv == ASSUME IInv, NEW t \in Threads, Quiet(t) PROVE IInv'
<1>1. TypeOK'
  BY QuietTypeOK DEF IInv
<1>2. UNCHANGED <<m_heap_size, pools, descrs, building>>
  BY DEF Quiet, GcNew, LockLo, Refuse, LaunchCollect, ExpandHeap, BadAlloc, Gc, GcLock,
     GcLaunch, GcCrash, GcReturn, core, heap, local
<1>3. StoreInv'
  BY <1>2, StoreKept DEF IInv
<1> QED BY <1>1, <1>3, QuietOvershoot, QuietNestInv DEF IInv

\* As long as one thread is below the limit with what it owes, the others alone
\* can be above.
LEMMA BelowLimit ==
    ASSUME NEW t \in Threads, TypeOK', m_heap_size' + Owed'[t] <= m_heap_limit'
    PROVE  Overshoot'
<1> DEFINE M == Max({PoolBlk, LargeBlk})
           n == Cardinality(Threads)
           others == SumFunctionOnSet(Owed', Threads \ {t})
           all == SumFunctionOnSet(Owed', Threads)
           mine == Owed'[t]
           bound == (n - 1) * M
           size == m_heap_size'
           limit == m_heap_limit'
<1>1. \A u \in Threads : Owed'[u] \in 0..M
  BY SizeBounds
<1>2. IsFiniteSet(Threads \ {t}) /\ Cardinality(Threads \ {t}) = n - 1
  BY ThreadCount, FS_RemoveElement
<1>3. others \in Nat /\ others <= M * (n - 1)
  <2>1. \A u \in Threads \ {t} : Owed'[u] \in 0..M
    BY <1>1
  <2> HIDE DEF M
  <2>2. M \in Nat
    BY Largest DEF M
  <2> QED BY <1>2, <2>1, <2>2, SumBounds
<1>4. all = mine + others
  BY <1>1, ThreadCount, Largest, SumRec
<1>5. M \in Nat /\ n \in Nat /\ size \in Nat /\ limit \in Int /\ mine \in Nat
  BY ThreadCount, Largest, LimitAssumption, <1>1 DEF TypeOK
<1>6. size + mine <= limit
  OBVIOUS
<1> HIDE DEF M, n, others, all, mine, size, limit
<1>7. M * (n - 1) = bound /\ bound \in Int
  BY <1>5
<1> HIDE DEF bound
<1>8. size + all <= limit + bound
  BY <1>3, <1>4, <1>5, <1>6, <1>7
<1> QED BY <1>8 DEF Overshoot, all, bound, n, M, size, limit

\* A launch is made only while the block fits below the limit, so that the other
\* threads alone can be above.
LEMMA LaunchIInv == ASSUME IInv, NEW t \in Threads, Launch(t) PROVE IInv'
<1>1. TypeOK'
  BY DEF IInv, TypeOK, Launch, At, Goto, heap, locks, PC, list, init
<1>2. StoreInv'
  BY StoreKept DEF IInv, Launch, heap
<1>3. Overshoot'
  <2>1. m_heap_size + Size(t) <= m_heap_limit /\ m_heap_limit' = m_heap_limit
        /\ m_heap_size' = m_heap_size
    BY DEF Launch
  <2>2. Owed'[t] = Size(t)
    BY DEF Owed, Launching, Size, Launch, Goto, At, IInv, TypeOK
  <2>3. m_heap_size' \in Nat /\ Owed'[t] \in Nat /\ m_heap_size' + Owed'[t] <= m_heap_limit'
    BY <2>1, <2>2, SizeBounds, Largest DEF IInv, TypeOK
  <2> QED BY <2>3, <1>1, BelowLimit
<1>4. NestInv'
  BY DEF IInv, TypeOK, NestInv, InGcNew, Launch, At, Goto
<1> QED BY <1>1, <1>2, <1>3, <1>4 DEF IInv

\* The place of a thread's constructors after one has been entered or left.
LEMMA AppendBuilding ==
    ASSUME building \in [Threads -> Seq(LargeObjects \cup {None})], NEW t \in Threads,
           NEW o \in LargeObjects \cup {None},
           building' = [building EXCEPT ![t] = Append(@, o)]
    PROVE  /\ building' \in [Threads -> Seq(LargeObjects \cup {None})]
           /\ \A u \in Threads \ {t} : building'[u] = building[u]
           /\ Len(building'[t]) = Len(building[t]) + 1
           /\ \A i \in 1..Len(building[t]) : building'[t][i] = building[t][i]
           /\ building'[t][Len(building[t]) + 1] = o
OBVIOUS

LEMMA FrontBuilding ==
    ASSUME building \in [Threads -> Seq(LargeObjects \cup {None})], NEW t \in Threads,
           building[t] # <<>>,
           building' = [building EXCEPT ![t] = Front(@)]
    PROVE  /\ building' \in [Threads -> Seq(LargeObjects \cup {None})]
           /\ \A u \in Threads \ {t} : building'[u] = building[u]
           /\ Len(building[t]) \in Nat \ {0}
           /\ Len(building'[t]) = Len(building[t]) - 1
           /\ \A i \in 1..Len(building[t]) - 1 : building'[t][i] = building[t][i]
           /\ Last(building[t]) = building[t][Len(building[t])]
           /\ Last(building[t]) \in LargeObjects \cup {None}
<1> DEFINE s == building[t]
<1>1. s \in Seq(LargeObjects \cup {None}) /\ s # <<>>
  OBVIOUS
<1>2. /\ Front(s) \in Seq(LargeObjects \cup {None}) /\ Len(Front(s)) = Len(s) - 1
      /\ \A i \in 1..Len(s) - 1 : Front(s)[i] = s[i]
      /\ Len(s) \in Nat \ {0}
      /\ Last(s) = s[Len(s)] /\ Last(s) \in LargeObjects \cup {None}
  <2> HIDE DEF s
  <2>1. Len(s) \in Nat \ {0}
    BY <1>1
  <2>2. /\ SubSeq(s, 1, Len(s) - 1) \in Seq(LargeObjects \cup {None})
        /\ Len(SubSeq(s, 1, Len(s) - 1)) = Len(s) - 1
    <3> DEFINE n == Len(s) - 1
    <3>1. n \in Nat /\ \A i \in 1..n : s[i] \in LargeObjects \cup {None}
      BY <1>1, <2>1
    <3> HIDE DEF n
    <3>2. /\ SubSeq(s, 1, n) \in Seq(LargeObjects \cup {None})
          /\ Len(SubSeq(s, 1, n)) = IF 1 <= n THEN n - 1 + 1 ELSE 0
      BY <3>1, SubSeqProperties
    <3>3. Len(SubSeq(s, 1, n)) = n
      BY <3>1, <3>2
    <3> QED BY <3>2, <3>3 DEF n
  <2>3. \A i \in 1..Len(s) - 1 : SubSeq(s, 1, Len(s) - 1)[i] = s[i]
    BY <1>1, <2>1
  <2>4. s[Len(s)] \in LargeObjects \cup {None}
    BY <1>1, <2>1
  <2> QED BY <2>1, <2>2, <2>3, <2>4 DEF Front, Last
<1> QED BY <1>2

LEMMA LastIsOnce ==
    ASSUME IInv, NEW t \in Threads, building[t] # <<>>, NEW u \in Threads,
           NEW i \in 1..Len(building[u]), Last(building[t]) # None,
           building[u][i] = Last(building[t])
    PROVE  u = t /\ i = Len(building[t])
<1>1. /\ Len(building[t]) \in Nat \ {0} /\ Last(building[t]) = building[t][Len(building[t])]
  BY DEF IInv, TypeOK, Last
<1>2. Len(building[t]) \in 1..Len(building[t])
  BY <1>1
<1> QED BY <1>1, <1>2 DEF IInv, StoreInv, BuildingOnce

\* Leaving a constructor leaves what is under construction elsewhere alone.
LEMMA LeaveStore ==
    ASSUME IInv, NEW t \in Threads, building[t] # <<>>,
           building' = [building EXCEPT ![t] = Front(@)], list' = list
    PROVE  /\ BuildingHeld' /\ BuildingOnce'
           /\ \A u \in Threads : Len(building'[u]) <= Len(building[u])
           /\ UNCHANGED <<pc, kind>> => NestInv'
<1>1. /\ \A u \in Threads : Len(building'[u]) \in Nat /\ Len(building[u]) \in Nat
                            /\ Len(building'[u]) <= Len(building[u])
      /\ \A u \in Threads : \A i \in 1..Len(building'[u]) :
            i \in 1..Len(building[u]) /\ building'[u][i] = building[u][i]
  <2>1. /\ building \in [Threads -> Seq(LargeObjects \cup {None})]
        /\ building' \in [Threads -> Seq(LargeObjects \cup {None})]
        /\ \A u \in Threads \ {t} : building'[u] = building[u]
        /\ Len(building[t]) \in Nat \ {0}
        /\ Len(building'[t]) = Len(building[t]) - 1
        /\ \A i \in 1..Len(building[t]) - 1 : building'[t][i] = building[t][i]
    BY FrontBuilding DEF IInv, TypeOK
  <2>2. \A u \in Threads : Len(building'[u]) \in Nat /\ Len(building[u]) \in Nat
    BY <2>1
  <2> QED BY <2>1, <2>2
<1>2. BuildingHeld'
  BY <1>1 DEF IInv, StoreInv, BuildingHeld
<1>3. BuildingOnce'
  BY <1>1 DEF IInv, StoreInv, BuildingOnce
<1>4. ASSUME UNCHANGED <<pc, kind>> PROVE NestInv'
  <2> SUFFICES ASSUME NEW u \in Threads, InGcNew(u)'
               PROVE  kind'[u] # "none" /\ Len(building'[u]) < MaxNest
    BY DEF NestInv
  <2>1. kind[u] # "none" /\ Len(building[u]) < MaxNest
    BY <1>4 DEF IInv, NestInv, InGcNew
  <2> QED BY <1>1, <1>4, <2>1, MaxNestAssumption
<1> QED BY <1>1, <1>2, <1>3, <1>4

LEMMA CommitIInv == ASSUME IInv, NEW t \in Threads, Commit(t) PROVE IInv'
<1> DEFINE last == Last(building[t])
<1>1. /\ building[t] # <<>> /\ building' = [building EXCEPT ![t] = Front(@)]
      /\ descrs' = [o \in list |-> IF o = last THEN CommitObject(descrs[o]) ELSE descrs[o]]
      /\ reach' = reach \cup ({last} \ {None})
      /\ UNCHANGED <<core, m_phase, pools, locks, pc, kind, attempt, retried, opt, crashed>>
  BY DEF Commit
<1>2. list' = list
  BY <1>1 DEF list
<1>3. last \in list \cup {None}
  <2>1. Len(building[t]) \in Nat \ {0} /\ last = building[t][Len(building[t])]
    BY <1>1, FrontBuilding DEF IInv, TypeOK
  <2>2. Len(building[t]) \in 1..Len(building[t])
    BY <2>1
  <2> HIDE DEF last
  <2> QED BY <2>1, <2>2 DEF IInv, StoreInv, BuildingHeld
<1>4. \A o \in list : /\ descrs'[o] \in ObjectDescriptors
                      /\ descrs'[o].m_size = descrs[o].m_size
                      /\ GetMark(descrs'[o]) = GetMark(descrs[o])
                      /\ IsInit(descrs'[o]) <=> IsInit(descrs[o]) \/ o = last
  <2> SUFFICES ASSUME NEW o \in list
               PROVE  /\ descrs'[o] \in ObjectDescriptors
                      /\ descrs'[o].m_size = descrs[o].m_size
                      /\ GetMark(descrs'[o]) = GetMark(descrs[o])
                      /\ IsInit(descrs'[o]) <=> IsInit(descrs[o]) \/ o = last
    OBVIOUS
  <2>1. descrs[o] \in ObjectDescriptors
    BY DEF IInv, TypeOK
  <2>2. descrs'[o] = IF o = last THEN CommitObject(descrs[o]) ELSE descrs[o]
    BY <1>1
  <2> HIDE DEF last
  <2> QED BY <2>1, <2>2 DEF ObjectDescriptors, CommitObject, GetMark, IsInit
<1>5. init' = init \cup ({last} \ {None})
  <2>1. last \in list \/ last = None
    BY <1>3
  <2>2. None \notin list
    BY ObjectsAssumption DEF IInv, TypeOK
  <2> HIDE DEF last
  <2> QED BY <1>2, <1>4, <2>1, <2>2 DEF init
<1>6. TypeOK'
  <2>1. /\ building' \in [Threads -> Seq(LargeObjects \cup {None})]
        /\ \A u \in Threads : Len(building'[u]) <= MaxNest
    <3>1. /\ building \in [Threads -> Seq(LargeObjects \cup {None})]
          /\ building' \in [Threads -> Seq(LargeObjects \cup {None})]
          /\ \A u \in Threads : Len(building[u]) <= MaxNest
      BY <1>1, FrontBuilding DEF IInv, TypeOK
    <3>2. \A u \in Threads : Len(building[u]) \in Nat /\ Len(building'[u]) \in Nat
      BY <3>1
    <3>3. \A u \in Threads : Len(building'[u]) <= Len(building[u])
      BY <1>1, <1>2, LeaveStore
    <3> QED BY <3>1, <3>2, <3>3, MaxNestAssumption
  <2>2. list' \subseteq LargeObjects /\ descrs' \in [list' -> ObjectDescriptors]
        /\ \A o \in list' : ~GetMark(descrs'[o])
    BY <1>1, <1>2, <1>4 DEF IInv, TypeOK
  <2>3. reach' \subseteq init'
    BY <1>1, <1>5 DEF IInv, TypeOK
  <2> QED BY <1>1, <2>1, <2>2, <2>3 DEF IInv, TypeOK, core, locks
<1>7. StoreInv'
  <2>1. Sizes'
    BY <1>2, <1>4 DEF IInv, StoreInv, Sizes
  <2>2. HeapSizeExact'
    BY <1>1, <1>2 DEF IInv, StoreInv, HeapSizeExact, core
  <2> QED BY <1>1, <1>2, <2>1, <2>2, LeaveStore DEF StoreInv
<1>8. Overshoot'
  BY <1>1 DEF IInv, Overshoot, Owed, Launching, Size, core
<1> QED BY <1>1, <1>2, <1>6, <1>7, <1>8, LeaveStore DEF IInv

LEMMA AbortIInv == ASSUME IInv, NEW t \in Threads, Abort(t) PROVE IInv'
<1>1. /\ building[t] # <<>> /\ building' = [building EXCEPT ![t] = Front(@)]
      /\ UNCHANGED <<core, m_phase, heap, locks, pc, kind, attempt, retried, opt, crashed>>
  BY DEF Abort
<1>2. list' = list /\ init' = init
  BY <1>1 DEF list, init, heap
<1>3. TypeOK'
  <2>1. /\ building' \in [Threads -> Seq(LargeObjects \cup {None})]
        /\ \A u \in Threads : Len(building'[u]) <= MaxNest
    <3>1. /\ building \in [Threads -> Seq(LargeObjects \cup {None})]
          /\ building' \in [Threads -> Seq(LargeObjects \cup {None})]
          /\ \A u \in Threads : Len(building[u]) <= MaxNest
      BY <1>1, FrontBuilding DEF IInv, TypeOK
    <3>2. \A u \in Threads : Len(building[u]) \in Nat /\ Len(building'[u]) \in Nat
      BY <3>1
    <3>3. \A u \in Threads : Len(building'[u]) <= Len(building[u])
      BY <1>1, <1>2, LeaveStore
    <3> QED BY <3>1, <3>2, <3>3, MaxNestAssumption
  <2> QED BY <1>1, <1>2, <2>1 DEF IInv, TypeOK, core, locks, heap
<1>4. StoreInv'
  <2>1. Sizes' /\ HeapSizeExact'
    BY <1>1, <1>2 DEF IInv, StoreInv, Sizes, HeapSizeExact, core, heap
  <2> QED BY <1>1, <1>2, <2>1, LeaveStore DEF StoreInv
<1>5. Overshoot'
  BY <1>1 DEF IInv, Overshoot, Owed, Launching, Size, core
<1> QED BY <1>1, <1>2, <1>3, <1>4, <1>5, LeaveStore DEF IInv

LEMMA LoseIInv == ASSUME IInv, NEW o \in LargeObjects, Lose(o) PROVE IInv'
<1>1. TypeOK'
  BY DEF Lose, IInv, TypeOK, core, locks, local, list, init
<1>2. StoreInv'
  BY StoreKept DEF Lose, IInv, core, local
<1>3. Overshoot'
  BY DEF Lose, IInv, Overshoot, Owed, Launching, Size, core, local
<1>4. NestInv'
  BY DEF Lose, IInv, NestInv, InGcNew, local
<1> QED BY <1>1, <1>2, <1>3, <1>4 DEF IInv

\* A cell or a block that nothing is constructed in joins what is.
LEMMA EnterStore ==
    ASSUME IInv, NEW t \in Threads, NEW o \in LargeObjects \cup {None},
           building' = [building EXCEPT ![t] = Append(@, o)],
           list \subseteq list', o \in list' \cup {None}, o \notin list,
           Len(building[t]) < MaxNest
    PROVE  /\ BuildingHeld' /\ BuildingOnce'
           /\ building' \in [Threads -> Seq(LargeObjects \cup {None})]
           /\ \A u \in Threads : Len(building'[u]) <= MaxNest
<1> DEFINE n == Len(building[t])
<1>1. /\ building \in [Threads -> Seq(LargeObjects \cup {None})]
      /\ building' \in [Threads -> Seq(LargeObjects \cup {None})]
      /\ \A u \in Threads \ {t} : building'[u] = building[u]
      /\ Len(building'[t]) = n + 1
      /\ \A i \in 1..n : building'[t][i] = building[t][i]
      /\ building'[t][n + 1] = o
  BY AppendBuilding DEF IInv, TypeOK
<1>2. \A u \in Threads : Len(building'[u]) \in Nat /\ Len(building[u]) \in Nat
  BY <1>1
<1>3. \A u \in Threads : \A i \in 1..Len(building[u]) : building[u][i] \in list \cup {None}
  BY DEF IInv, StoreInv, BuildingHeld
<1>4. \A u \in Threads : \A i \in 1..Len(building'[u]) :
          \/ i \in 1..Len(building[u]) /\ building'[u][i] = building[u][i]
          \/ u = t /\ i = n + 1 /\ building'[u][i] = o
  BY <1>1, <1>2
<1>5. BuildingHeld'
  BY <1>3, <1>4 DEF BuildingHeld
<1>6. BuildingOnce'
  <2> SUFFICES ASSUME NEW u \in Threads, NEW v \in Threads,
                      NEW i \in 1..Len(building'[u]), NEW j \in 1..Len(building'[v]),
                      building'[u][i] = building'[v][j], building'[u][i] # None
               PROVE  u = v /\ i = j
    BY DEF BuildingOnce
  <2>1. CASE /\ i \in 1..Len(building[u]) /\ building'[u][i] = building[u][i]
             /\ j \in 1..Len(building[v]) /\ building'[v][j] = building[v][j]
    BY <2>1 DEF IInv, StoreInv, BuildingOnce
  <2>2. CASE i \in 1..Len(building[u]) /\ building'[u][i] = building[u][i] /\ building'[v][j] = o
    BY <2>2, <1>3
  <2>3. CASE j \in 1..Len(building[v]) /\ building'[v][j] = building[v][j] /\ building'[u][i] = o
    BY <2>3, <1>3
  <2>4. CASE u = t /\ i = n + 1 /\ v = t /\ j = n + 1
    BY <2>4
  <2> QED BY <1>4, <2>1, <2>2, <2>3, <2>4
<1>7. \A u \in Threads : Len(building'[u]) <= MaxNest
  <2>1. \A u \in Threads : Len(building[u]) <= MaxNest
    BY DEF IInv, TypeOK
  <2> QED BY <1>1, <1>2, <2>1, MaxNestAssumption
<1> QED BY <1>1, <1>5, <1>6, <1>7

LEMMA NoneOutside == TypeOK => None \notin list
BY ObjectsAssumption DEF TypeOK

LEMMA FreelistIInv == ASSUME IInv, NEW t \in Threads, Freelist(t) PROVE IInv'
<1>1. list' = list /\ init' = init
  BY DEF Freelist, heap, list, init
<1>2. Len(building[t]) < MaxNest
  BY DEF IInv, NestInv, InGcNew, Freelist, At
<1>3. building' = [building EXCEPT ![t] = Append(@, None)]
  BY DEF Freelist
<1>4. /\ BuildingHeld' /\ BuildingOnce'
      /\ building' \in [Threads -> Seq(LargeObjects \cup {None})]
      /\ \A u \in Threads : Len(building'[u]) <= MaxNest
  BY <1>1, <1>2, <1>3, NoneOutside, EnterStore DEF IInv
<1>5. TypeOK'
  BY <1>1, <1>4 DEF Freelist, IInv, TypeOK, At, Goto, core, heap, locks, PC
<1>6. StoreInv'
  BY <1>1, <1>4 DEF Freelist, IInv, StoreInv, Sizes, HeapSizeExact, core, heap
<1>7. Overshoot'
  <2>1. ~Launching(t)'
    BY DEF Freelist, Launching, Goto, IInv, TypeOK
  <2>2. \A u \in Threads \ {t} : pc'[u] = pc[u] /\ opt'[u] = opt[u] /\ kind'[u] = kind[u]
    BY DEF Freelist, Goto, IInv, TypeOK
  <2>3. \A u \in Threads : Owed'[u] \in {0, Owed[u]}
    BY <2>1, <2>2, OwedKept
  <2>4. /\ m_heap_size' = m_heap_size /\ m_heap_limit' = m_heap_limit
        /\ m_heap_size \in Nat /\ m_heap_limit \in Nat
    BY LimitAssumption DEF Freelist, core, IInv, TypeOK
  <2> QED BY <2>3, <2>4, OvershootKept DEF IInv
<1>8. NestInv'
  <2>1. \A u \in Threads \ {t} : building'[u] = building[u]
    BY <1>3, AppendBuilding DEF IInv, TypeOK
  <2> QED BY <2>1 DEF Freelist, IInv, TypeOK, NestInv, InGcNew, Goto
<1> QED BY <1>5, <1>6, <1>7, <1>8 DEF IInv

\* With a new block the store is what it was, and one more.
LEMMA GrantStore ==
    ASSUME IInv, NEW t \in Threads, Grant(t)
    PROVE  /\ TypeOK' /\ StoreInv' /\ init' = init
           /\ \A u \in Threads \ {t} : building'[u] = building[u]
           /\ \E o \in (LargeObjects \cup {None}) \ list :
                building' = [building EXCEPT ![t] = Append(@, o)]
<1>1. kind[t] \in {"pool", "large"} /\ Len(building[t]) < MaxNest
  BY DEF IInv, TypeOK, NestInv, InGcNew, Grant, At
<1>2. /\ m_heap_size' = m_heap_size + Size(t)
      /\ m_heap_size' \in Nat
  BY SizeBounds, Largest DEF Grant, IInv, TypeOK
<1>3. /\ attempt' \in [Threads -> 0..2] /\ retried' \in [Threads -> BOOLEAN]
      /\ pc' \in [Threads -> PC] /\ loMutex' \in Threads \cup {None}
      /\ UNCHANGED <<m_heap_limit, m_mark_threshold, m_phase, reach, gcMutex, kind, opt, crashed>>
  BY DEF Grant, Receive, IInv, TypeOK, Goto, PC, UnlockLo
<1>4. CASE kind[t] = "pool"
  <2>1. /\ pools' = [pools EXCEPT ![t] = @ + 1] /\ descrs' = descrs
        /\ building' = [building EXCEPT ![t] = Append(@, None)]
    BY <1>4 DEF Grant, Receive
  <2>2. list' = list /\ init' = init
    BY <2>1 DEF list, init
  <2>3. /\ BuildingHeld' /\ BuildingOnce'
        /\ building' \in [Threads -> Seq(LargeObjects \cup {None})]
        /\ \A u \in Threads : Len(building'[u]) <= MaxNest
    BY <1>1, <2>1, <2>2, NoneOutside, EnterStore DEF IInv
  <2>4. pools' \in [Threads -> Nat]
    BY <2>1 DEF IInv, TypeOK
  <2>5. TypeOK'
    BY <1>2, <1>3, <2>1, <2>2, <2>3, <2>4 DEF IInv, TypeOK
  <2>6. HeapSizeExact'
    <3> DEFINE a == SumFunctionOnSet(pools, Threads)
               b == SumFunctionOnSet(pools', Threads)
               n == Cardinality(list)
    <3>1. b = a - pools[t] + pools'[t] /\ a \in Int
      <4>1. \A u \in Threads : pools[u] \in Int /\ pools'[u] \in Int
        BY <2>4 DEF IInv, TypeOK
      <4>2. \A u \in Threads \ {t} : pools[u] = pools'[u]
        BY <2>1 DEF IInv, TypeOK
      <4> QED BY <4>1, <4>2, ThreadCount, SumChange, SumRec
    <3>2. pools'[t] = pools[t] + 1 /\ pools[t] \in Nat
      BY <2>1 DEF IInv, TypeOK
    <3> HIDE DEF a, b
    <3>3. b = a + 1
      BY <3>1, <3>2
    <3>4. PoolBlk * (a + 1) = PoolBlk * a + PoolBlk
      BY <3>1, BlockSizes
    <3>5. PoolBlk * a \in Int /\ LargeBlk * n \in Int
      <4>1. n \in Nat
        <5>1. IsFiniteSet(list)
          BY ObjectsAssumption, FS_Subset DEF IInv, TypeOK
        <5> QED BY <5>1, FS_CardinalityType
      <4> QED BY <3>1, <4>1, BlockSizes
    <3>6. m_heap_size = PoolBlk * a + LargeBlk * n /\ Size(t) = PoolBlk
      BY <1>4 DEF a, Size, IInv, StoreInv, HeapSizeExact
    <3> DEFINE pa == PoolBlk * a
               ln == LargeBlk * n
    <3>7. /\ m_heap_size' = (pa + ln) + PoolBlk /\ pa \in Int /\ ln \in Int /\ PoolBlk \in Nat
          /\ PoolBlk * b = pa + PoolBlk
      BY <1>2, <3>3, <3>4, <3>5, <3>6, BlockSizes
    <3> HIDE DEF pa, ln
    <3>8. m_heap_size' = PoolBlk * b + ln
      BY <3>7
    <3> QED BY <3>8, <2>2 DEF HeapSizeExact, b, ln
  <2>7. Sizes'
    BY <2>1, <2>2 DEF IInv, StoreInv, Sizes
  <2>8. \A u \in Threads \ {t} : building'[u] = building[u]
    BY <2>1, AppendBuilding DEF IInv, TypeOK
  <2>9. None \in (LargeObjects \cup {None}) \ list
    BY NoneOutside DEF IInv
  <2>10. \E o \in (LargeObjects \cup {None}) \ list :
            building' = [building EXCEPT ![t] = Append(@, o)]
    BY <2>1, <2>9
  <2> QED BY <2>2, <2>3, <2>5, <2>6, <2>7, <2>8, <2>10 DEF StoreInv
<1>5. CASE kind[t] = "large"
  <2>1. PICK o \in LargeObjects \ list :
           /\ descrs' = [x \in list \cup {o} |->
                 IF x = o THEN NewObjectDescriptor(large_size) ELSE descrs[x]]
           /\ building' = [building EXCEPT ![t] = Append(@, o)]
           /\ pools' = pools
    BY <1>5 DEF Grant, Receive
  <2>2. list' = list \cup {o}
    BY <2>1 DEF list
  <2>3. NewObjectDescriptor(large_size) \in ObjectDescriptors
        /\ NewObjectDescriptor(large_size).m_size = large_size
        /\ ~GetMark(NewObjectDescriptor(large_size)) /\ ~IsInit(NewObjectDescriptor(large_size))
    BY SizeAssumption DEF NewObjectDescriptor, ObjectDescriptors, GetMark, IsInit
  <2>4. /\ BuildingHeld' /\ BuildingOnce'
        /\ building' \in [Threads -> Seq(LargeObjects \cup {None})]
        /\ \A u \in Threads : Len(building'[u]) <= MaxNest
    BY <1>1, <2>1, <2>2, EnterStore
  <2>5. init' = init
    BY <2>1, <2>2, <2>3 DEF init, list
  <2>6. TypeOK'
    <3>1. list' \subseteq LargeObjects /\ descrs' \in [list' -> ObjectDescriptors]
          /\ \A x \in list' : ~GetMark(descrs'[x])
      BY <2>1, <2>2, <2>3 DEF IInv, TypeOK
    <3>2. pools' \in [Threads -> Nat] /\ reach' \subseteq init'
      BY <1>3, <2>1, <2>5 DEF IInv, TypeOK
    <3> QED BY <1>2, <1>3, <2>4, <3>1, <3>2 DEF IInv, TypeOK
  <2>7. HeapSizeExact'
    <3>1. IsFiniteSet(list) /\ o \notin list
      BY <2>1, ObjectsAssumption, FS_Subset DEF IInv, TypeOK
    <3>2. Cardinality(list') = Cardinality(list) + 1 /\ Cardinality(list) \in Nat
      BY <2>2, <3>1, FS_AddElement, FS_CardinalityType
    <3> DEFINE n == Cardinality(list)
               a == SumFunctionOnSet(pools, Threads)
    <3>3. a \in Int
      BY ThreadCount, SumRec DEF IInv, TypeOK
    <3> HIDE DEF a
    <3>4. LargeBlk * (n + 1) = LargeBlk * n + LargeBlk
      BY <3>2, BlockSizes
    <3>5. m_heap_size = PoolBlk * a + LargeBlk * n /\ Size(t) = LargeBlk
      BY <1>5 DEF a, Size, IInv, StoreInv, HeapSizeExact
    <3> DEFINE pa == PoolBlk * a
               ln == LargeBlk * n
               lm == LargeBlk * (n + 1)
    <3>6. /\ m_heap_size' = (pa + ln) + LargeBlk /\ pa \in Int /\ ln \in Int /\ LargeBlk \in Nat
          /\ lm = ln + LargeBlk
      BY <1>2, <3>2, <3>3, <3>4, <3>5, BlockSizes
    <3> HIDE DEF pa, ln, lm
    <3>7. m_heap_size' = pa + lm
      BY <3>6
    <3> QED BY <3>7, <3>2, <2>1 DEF HeapSizeExact, a, pa, lm
  <2>8. Sizes'
    BY <2>1, <2>2, <2>3 DEF IInv, StoreInv, Sizes
  <2>9. \A u \in Threads \ {t} : building'[u] = building[u]
    BY <2>1, AppendBuilding DEF IInv, TypeOK
  <2>10. \E x \in (LargeObjects \cup {None}) \ list : building' = [building EXCEPT ![t] = Append(@, x)]
    BY <2>1
  <2> QED BY <2>4, <2>5, <2>6, <2>7, <2>8, <2>9, <2>10 DEF StoreInv
<1> QED BY <1>1, <1>4, <1>5

\* A block is added that was owed, or fits.
LEMMA GrantIInv == ASSUME IInv, NEW t \in Threads, Grant(t) PROVE IInv'
<1>1. TypeOK' /\ StoreInv' /\ \A u \in Threads \ {t} : building'[u] = building[u]
  BY GrantStore
<1>2. /\ m_heap_size' = m_heap_size + Size(t) /\ m_heap_limit' = m_heap_limit
      /\ pc' = [pc EXCEPT ![t] = "run"] /\ opt' = opt /\ kind' = kind
  BY DEF Grant, Receive, Goto
<1>3. Owed'[t] = 0 /\ \A u \in Threads \ {t} : Owed'[u] = Owed[u]
  <2>1. \A u \in Threads : Owed'[u] = IF Launching(u)' THEN Size(u)' ELSE 0
    BY DEF Owed
  <2>2. ~Launching(t)'
    BY <1>2 DEF Launching, IInv, TypeOK
  <2>3. \A u \in Threads \ {t} : Launching(u)' = Launching(u) /\ Size(u)' = Size(u)
    BY <1>2 DEF Launching, Size, IInv, TypeOK
  <2> QED BY <2>1, <2>2, <2>3 DEF Owed
<1>4. Overshoot'
  <2>1. CASE At(t, "grant")
    <3> DEFINE before == SumFunctionOnSet(Owed, Threads)
               after == SumFunctionOnSet(Owed', Threads)
               mine == Size(t)
               M == (Cardinality(Threads) - 1) * Max({PoolBlk, LargeBlk})
    <3>1. Owed[t] = mine /\ mine \in Nat
      BY <2>1, SizeBounds, Largest DEF Owed, Launching, At
    <3>2. after = before - mine /\ before \in Int
      <4>1. \A u \in Threads : Owed[u] \in Int /\ Owed'[u] \in Int
        BY SizeBounds, Largest
      <4> DEFINE f == Owed
                 g == Owed'
      <4>2. /\ \A u \in Threads : f[u] \in Int /\ g[u] \in Int
            /\ \A u \in Threads \ {t} : f[u] = g[u]
        BY <4>1, <1>3
      <4>3. before = SumFunctionOnSet(f, Threads) /\ after = SumFunctionOnSet(g, Threads)
        OBVIOUS
      <4> HIDE DEF f, g, before, after
      <4>4. after = before - f[t] + g[t]
        BY <4>2, <4>3, ThreadCount, SumChange
      <4>5. before \in Int
        BY <4>2, <4>3, ThreadCount, SumRec
      <4>6. f[t] = mine /\ g[t] = 0
        BY <3>1, <1>3 DEF f, g
      <4> HIDE DEF mine
      <4> QED BY <4>4, <4>5, <4>6, <3>1
    <3>3. m_heap_size \in Nat /\ m_heap_limit \in Int /\ M \in Int
      BY LimitAssumption, ThreadCount, Largest DEF IInv, TypeOK
    <3>4. m_heap_size + before <= m_heap_limit + M /\ m_heap_size' = m_heap_size + mine
      BY <1>2 DEF IInv, Overshoot
    <3> HIDE DEF before, after, mine, M
    <3>5. m_heap_size' + after <= m_heap_limit + M
      BY <3>1, <3>2, <3>3, <3>4
    <3> QED BY <3>5, <1>2 DEF Overshoot, after, M
  <2>2. CASE ~At(t, "grant")
    <3>1. m_heap_size + Size(t) <= m_heap_limit
      BY <2>2 DEF Grant
    <3>2. m_heap_size' + Owed'[t] <= m_heap_limit'
      <4>1. m_heap_size + Size(t) \in Nat
        BY SizeBounds, Largest DEF IInv, TypeOK
      <4> QED BY <4>1, <3>1, <1>2, <1>3
    <3> QED BY <3>2, <1>1, BelowLimit
  <2> QED BY <2>1, <2>2
<1>5. NestInv'
  BY <1>1, <1>2 DEF IInv, TypeOK, NestInv, InGcNew
<1> QED BY <1>1, <1>4, <1>5 DEF IInv

-----------------------------------------------------------------------------
(* A collection                                                            *)

\* However the limit is expanded, it does not shrink and stays at the maximum.
LEMMA GrownLimit ==
    ASSUME TypeOK,
           m_heap_limit' \in {m_heap_limit, Grown(2, 1), Grown(7, 5)}
    PROVE  m_heap_limit' \in StartLimit..MaxLimit /\ m_heap_limit <= m_heap_limit'
<1>1. m_heap_limit \in StartLimit..MaxLimit /\ m_heap_limit \in Nat
  BY LimitAssumption DEF TypeOK
<1>2. /\ (2 * m_heap_limit) \div 1 = 2 * m_heap_limit
      /\ (7 * m_heap_limit) \div 5 \in Nat /\ m_heap_limit <= (7 * m_heap_limit) \div 5
  BY <1>1
<1> DEFINE l == m_heap_limit
           seven == (7 * m_heap_limit) \div 5
           new == m_heap_limit'
<1>3. new \in {l, Least(2 * l, MaxLimit), Least(seven, MaxLimit)}
  BY <1>2 DEF Grown
<1>4. l \in Nat /\ seven \in Nat /\ l <= seven /\ StartLimit <= l /\ l <= MaxLimit
  BY <1>1, <1>2
<1> HIDE DEF l, seven, new
<1>5. new \in StartLimit..MaxLimit /\ l <= new
  BY <1>3, <1>4, LimitAssumption DEF Least
<1> QED BY <1>5 DEF l, new

LEMMA SumNat ==
    ASSUME NEW S, IsFiniteSet(S), NEW f, \A x \in S : f[x] \in Nat
    PROVE  SumFunctionOnSet(f, S) \in Nat
<1> DEFINE zero == [x \in S |-> 0]
<1>1. \A x \in S : zero[x] = 0 /\ f[x] \in Int /\ zero[x] \in Int /\ zero[x] <= f[x]
  OBVIOUS
<1> HIDE DEF zero
<1>2. SumFunctionOnSet(zero, S) = 0 * Cardinality(S)
  BY <1>1, SumConst
<1>3. SumFunctionOnSet(zero, S) <= SumFunctionOnSet(f, S)
  BY <1>1, SumLess
<1>4. SumFunctionOnSet(f, S) \in Int
  BY <1>1, SumRec
<1> QED BY <1>2, <1>3, <1>4, FS_CardinalityType

\* What a collection frees is what it takes from the store.
LEMMA FreedExactly ==
    ASSUME IInv, NEW dead \in SUBSET list, NEW kept \in [Threads -> Nat],
           \A u \in Threads : kept[u] <= pools[u],
           pools' = kept, list' = list \ dead,
           m_heap_size' = m_heap_size -
               (SumFunctionOnSet([o \in dead |-> DestroyedBlock(descrs[o])], dead)
                  + PoolBlk * SumFunctionOnSet([u \in Threads |-> pools[u] - kept[u]], Threads))
    PROVE  HeapSizeExact' /\ m_heap_size' \in Nat /\ m_heap_size' <= m_heap_size
<1> DEFINE blocks == [o \in dead |-> DestroyedBlock(descrs[o])]
           back == [u \in Threads |-> pools[u] - kept[u]]
           P == SumFunctionOnSet(pools, Threads)
           K == SumFunctionOnSet(kept, Threads)
           n == Cardinality(list)
           d == Cardinality(dead)
<1>1. IsFiniteSet(list) /\ IsFiniteSet(dead)
  BY ObjectsAssumption, FS_Subset DEF IInv, TypeOK
<1>2. n \in Nat /\ d \in Nat /\ d <= n /\ Cardinality(list \ dead) = n - d
  <2>1. list \cap dead = dead
    OBVIOUS
  <2>2. Cardinality(list \ dead) = n - d /\ n \in Nat /\ d \in Nat
    BY <1>1, <2>1, FS_Difference, FS_CardinalityType
  <2>3. Cardinality(list \ dead) \in Nat
    BY <1>1, FS_Subset, FS_CardinalityType
  <2> HIDE DEF n, d
  <2> QED BY <2>2, <2>3
<1>3. SumFunctionOnSet(blocks, dead) = LargeBlk * d
  <2>1. \A o \in dead : blocks[o] = LargeBlk
    BY DEF IInv, StoreInv, Sizes, DestroyedBlock, ObjectSize, LargeBlk
  <2> HIDE DEF blocks
  <2> QED BY <1>1, <2>1, BlockSizes, SumConst
<1>4. \A u \in Threads : pools[u] \in Nat /\ kept[u] \in Nat /\ kept[u] <= pools[u]
  BY DEF IInv, TypeOK
<1>5. P \in Nat /\ K \in Nat /\ K <= P
  BY <1>4, ThreadCount, SumNat, SumLess
<1>6. SumFunctionOnSet(back, Threads) = P - K
  <2>1. \A u \in Threads : pools[u] \in Int /\ kept[u] \in Int /\ back[u] = pools[u] - kept[u]
    BY <1>4
  <2> HIDE DEF back
  <2> QED BY <2>1, ThreadCount, SumMinus
<1> DEFINE size == m_heap_size'
<1>7. /\ m_heap_size = PoolBlk * P + LargeBlk * n
      /\ size = m_heap_size - (LargeBlk * d + PoolBlk * (P - K))
  BY <1>3, <1>6 DEF IInv, StoreInv, HeapSizeExact
<1>8. size = PoolBlk * K + LargeBlk * (n - d) /\ size \in Nat /\ size <= m_heap_size
  <2> DEFINE pk == PoolBlk * K
             pr == PoolBlk * (P - K)
             ld == LargeBlk * d
             lr == LargeBlk * (n - d)
  <2>1. P - K \in Nat /\ n - d \in Nat
    BY <1>2, <1>5
  <2>2. pk \in Nat /\ pr \in Nat /\ ld \in Nat /\ lr \in Nat
    BY <2>1, <1>2, <1>5, BlockSizes
  <2>3. PoolBlk * P = pk + pr
    <3>1. P = K + (P - K)
      BY <1>5
    <3>2. PoolBlk * (K + (P - K)) = pk + pr
      BY <1>5, <2>1, BlockSizes
    <3> QED BY <3>1, <3>2
  <2>4. LargeBlk * n = ld + lr
    <3>1. n = d + (n - d)
      BY <1>2
    <3>2. LargeBlk * (d + (n - d)) = ld + lr
      BY <1>2, <2>1, BlockSizes
    <3> QED BY <3>1, <3>2
  <2>5. m_heap_size = (pk + pr) + (ld + lr) /\ size = m_heap_size - (ld + pr)
    BY <1>7, <2>3, <2>4
  <2> HIDE DEF pk, pr, ld, lr, size
  <2>6. size = pk + lr /\ size \in Nat /\ size <= m_heap_size
    BY <2>2, <2>5
  <2> QED BY <2>6 DEF pk, lr
<1>9. HeapSizeExact'
  BY <1>2, <1>8 DEF HeapSizeExact, K, n, d
<1> QED BY <1>8, <1>9

LEMMA GcCollectIInv == ASSUME IInv, NEW t \in Threads, GcCollect(t) PROVE IInv'
<1>1. PICK dead \in SUBSET list, kept \in [Threads -> 0..Max({pools[u] : u \in Threads})] :
          /\ Collected(dead)
          /\ \A u \in Threads : kept[u] <= pools[u]
          /\ descrs' = [o \in list \ dead |-> SetMark(descrs[o], FALSE)]
          /\ pools' = kept
          /\ LET freed == SumFunctionOnSet([o \in dead |-> DestroyedBlock(descrs[o])], dead)
                  + PoolBlk * SumFunctionOnSet([u \in Threads |-> pools[u] - kept[u]], Threads)
             IN
             /\ m_heap_size' = m_heap_size - freed
             /\ m_heap_limit' \in {m_heap_limit, Grown(2, 1), Grown(7, 5)}
  BY DEF GcCollect
<1>2. /\ pc[t] = "gc_run" /\ opt[t] = "COLLECT"
      /\ m_mark_threshold' = FALSE /\ m_phase' = "IDLE"
      /\ GcReturn(t) /\ UNCHANGED <<reach, crashed>>
  BY DEF GcCollect, CollectsAlone, At
<1>3. kept \in [Threads -> Nat]
  <2> DEFINE most == Max({pools[u] : u \in Threads})
  <2>1. kept \in [Threads -> 0..most]
    OBVIOUS
  <2> HIDE DEF most
  <2> QED BY <2>1
<1>4. list' = list \ dead
  BY <1>1 DEF list
<1>5. HeapSizeExact' /\ m_heap_size' \in Nat /\ m_heap_size' <= m_heap_size
  BY <1>1, <1>3, <1>4, FreedExactly
<1>6. m_heap_limit' \in StartLimit..MaxLimit /\ m_heap_limit <= m_heap_limit'
  BY <1>1, GrownLimit DEF IInv
<1>7. UNCHANGED <<loMutex, kind, building, retried, opt>>
  BY <1>2 DEF GcReturn
<1>8. \A u \in Threads \ {t} : pc'[u] = pc[u]
  BY <1>2 DEF GcReturn, Goto, IInv, TypeOK
<1>9. pc'[t] \in {"run", "lock", "ask"} /\ (kind[t] = "none" => pc'[t] = "run")
  BY <1>2 DEF GcReturn, Goto, Ask, IInv, TypeOK
<1>10. \A o \in list' : /\ descrs'[o] \in ObjectDescriptors
                        /\ descrs'[o].m_size = descrs[o].m_size
                        /\ ~GetMark(descrs'[o])
                        /\ IsInit(descrs'[o]) <=> IsInit(descrs[o])
  <2> SUFFICES ASSUME NEW o \in list'
               PROVE  /\ descrs'[o] \in ObjectDescriptors
                      /\ descrs'[o].m_size = descrs[o].m_size
                      /\ ~GetMark(descrs'[o])
                      /\ IsInit(descrs'[o]) <=> IsInit(descrs[o])
    OBVIOUS
  <2>1. descrs[o] \in ObjectDescriptors /\ descrs'[o] = SetMark(descrs[o], FALSE)
    BY <1>1, <1>4 DEF IInv, TypeOK
  <2> QED BY <2>1 DEF ObjectDescriptors, SetMark, GetMark, IsInit
<1>11. init' = init \ dead
  BY <1>4, <1>10 DEF init
<1>12. dead \cap (reach \cup Building) = {}
  BY <1>1 DEF Collected, Marked
<1>13. TypeOK'
  <2>1. /\ list' \subseteq LargeObjects /\ descrs' \in [list' -> ObjectDescriptors]
        /\ \A o \in list' : ~GetMark(descrs'[o])
    <3>1. list \subseteq LargeObjects
      BY DEF IInv, TypeOK
    <3>2. descrs' = [o \in list' |-> SetMark(descrs[o], FALSE)]
      BY <1>1, <1>4
    <3> QED BY <3>1, <3>2, <1>4, <1>10
  <2>2. reach' \subseteq init'
    BY <1>2, <1>11, <1>12 DEF IInv, TypeOK
  <2>3. /\ pc' \in [Threads -> PC] /\ attempt' \in [Threads -> 0..2]
        /\ gcMutex' \in Threads \cup {None}
    <3>1. /\ pc \in [Threads -> PC] /\ attempt \in [Threads -> 0..2]
      BY DEF IInv, TypeOK
    <3>2. pc' = [pc EXCEPT ![t] = "run"] \/ pc' = [pc EXCEPT ![t] = Ask(t)]
      BY <1>2 DEF GcReturn, Goto
    <3>3. attempt' = attempt \/ attempt' = [attempt EXCEPT ![t] = 1]
      BY <1>2 DEF GcReturn
    <3> QED BY <3>1, <3>2, <3>3, <1>2 DEF GcReturn, Ask, PC
  <2>4. m_mark_threshold' \in BOOLEAN
    BY <1>2
  <2>5. pools' \in [Threads -> Nat]
    BY <1>1, <1>3
  <2> QED BY <1>2, <1>5, <1>6, <1>7, <2>1, <2>2, <2>3, <2>4, <2>5 DEF IInv, TypeOK
<1>14. StoreInv'
  <2>1. Sizes'
    BY <1>4, <1>10 DEF IInv, StoreInv, Sizes
  <2>2. BuildingHeld'
    <3> SUFFICES ASSUME NEW u \in Threads, NEW i \in 1..Len(building[u])
                 PROVE  building[u][i] \in list' \cup {None}
      BY <1>7 DEF BuildingHeld
    <3>1. building[u][i] \in list \cup {None}
      BY DEF IInv, StoreInv, BuildingHeld
    <3>2. building[u][i] \in Building \cup {None}
      <4>1. building[u] \in Seq(LargeObjects \cup {None})
        BY DEF IInv, TypeOK
      <4> QED BY <4>1 DEF Building, ToSet
    <3> QED BY <3>1, <3>2, <1>4, <1>12
  <2>3. BuildingOnce'
    BY <1>7 DEF IInv, StoreInv, BuildingOnce
  <2> QED BY <1>5, <2>1, <2>2, <2>3 DEF StoreInv
<1>15. Overshoot'
  <2>1. ~Launching(t)'
    BY <1>9 DEF Launching
  <2>2. \A u \in Threads : Owed'[u] \in {0, Owed[u]}
    BY <2>1, <1>7, <1>8, OwedKept
  <2>3. m_heap_limit' \in Nat
    BY <1>6, LimitAssumption
  <2> QED BY <2>2, <2>3, <1>5, <1>6, OvershootKept DEF IInv
<1>16. NestInv'
  BY <1>2, <1>7, <1>8, <1>9 DEF IInv, NestInv, InGcNew
<1> QED BY <1>13, <1>14, <1>15, <1>16 DEF IInv

LEMMA NextIInv == IInv /\ [Next]_vars => IInv'
<1> SUFFICES ASSUME IInv, [Next]_vars PROVE IInv'
  OBVIOUS
<1>1. ASSUME UNCHANGED vars PROVE IInv'
  BY <1>1 DEF IInv, TypeOK, NestInv, StoreInv, Overshoot, Sizes, BuildingHeld, BuildingOnce,
     HeapSizeExact, Owed, Launching, Size, InGcNew, list, init, vars, core, heap, locks, local
<1>2. ASSUME NEW t \in Threads,
             (\E k \in Kinds : GcNew(t, k)) \/ Gc(t) \/ Inner(t) \/ Constructed(t)
      PROVE  IInv'
  <2>1. CASE Quiet(t)
    BY <2>1, QuietIInv
  <2>2. CASE Launch(t)
    BY <2>2, LaunchIInv
  <2>3. CASE Grant(t)
    BY <2>3, GrantIInv
  <2>4. CASE Freelist(t)
    BY <2>4, FreelistIInv
  <2>5. CASE GcCollect(t)
    BY <2>5, GcCollectIInv
  <2>6. CASE Commit(t)
    BY <2>6, CommitIInv
  <2>7. CASE Abort(t)
    BY <2>7, AbortIInv
  <2> QED BY <1>2, <2>1, <2>2, <2>3, <2>4, <2>5, <2>6, <2>7
          DEF Inner, Inside, GcRun, Constructed, Quiet
<1>3. ASSUME NEW o \in LargeObjects, Lose(o) PROVE IInv'
  BY <1>3, LoseIInv
<1> QED BY <1>1, <1>2, <1>3 DEF Next

-----------------------------------------------------------------------------
(* Who waits for whom                                                      *)

\* The collector's mutex is held by the thread that collects, and that of the
\* large objects while a block for one is asked for: in gc() only for a launch.
LockInv ==
    /\ \A t \in Threads : gcMutex = t <=> pc[t] = "gc_run"
    /\ \A t \in Threads : loMutex = t =>
          /\ kind[t] # "none"
          /\ \/ pc[t] \in {"ask", "grant"}
             \/ pc[t] \in {"gc_lock", "gc_run"} /\ opt[t] = "LAUNCH"
    /\ \A t \in Threads : opt[t] = "LAUNCH" => INCREMENTAL

LEMMA InitLockInv == Init => LockInv
BY ThreadsAssumption DEF Init, LockInv

\* A step of t, and what it leaves to the others.
LEMMA LockKept ==
    ASSUME TypeOK, LockInv, NEW t \in Threads,
           \A u \in Threads \ {t} : pc'[u] = pc[u] /\ opt'[u] = opt[u] /\ kind'[u] = kind[u],
           gcMutex' # gcMutex => {gcMutex, gcMutex'} \subseteq {t, None},
           loMutex' # loMutex => {loMutex, loMutex'} \subseteq {t, None},
           gcMutex' = t <=> pc'[t] = "gc_run",
           loMutex' = t =>
               /\ kind'[t] # "none"
               /\ \/ pc'[t] \in {"ask", "grant"}
                  \/ pc'[t] \in {"gc_lock", "gc_run"} /\ opt'[t] = "LAUNCH",
           opt'[t] = "LAUNCH" => INCREMENTAL
    PROVE  LockInv'
<1> USE ThreadsAssumption DEF LockInv
<1>1. ASSUME NEW u \in Threads PROVE gcMutex' = u <=> pc'[u] = "gc_run"
  BY <1>1
<1>2. ASSUME NEW u \in Threads, loMutex' = u
      PROVE  /\ kind'[u] # "none"
             /\ \/ pc'[u] \in {"ask", "grant"}
                \/ pc'[u] \in {"gc_lock", "gc_run"} /\ opt'[u] = "LAUNCH"
  BY <1>2
<1>3. ASSUME NEW u \in Threads, opt'[u] = "LAUNCH" PROVE INCREMENTAL
  BY <1>3
<1> QED BY <1>1, <1>2, <1>3

LEMMA ThreadLockInv ==
    ASSUME TypeOK, NestInv, LockInv, NEW t \in Threads,
           (\E k \in Kinds : GcNew(t, k)) \/ Gc(t) \/ Inner(t) \/ Constructed(t)
    PROVE  LockInv'
<1> USE ThreadsAssumption DEF TypeOK, LockInv, At, Goto, UnlockLo, Ask
<1>1. ASSUME NEW k \in Kinds, GcNew(t, k) PROVE LockInv'
  BY <1>1, LockKept DEF GcNew, locks
<1>2. CASE Gc(t)
  BY <1>2, LockKept DEF Gc, locks
<1>3. CASE LockLo(t)
  BY <1>3, LockKept DEF LockLo, NestInv, InGcNew
<1>4. CASE Refuse(t)
  BY <1>4, LockKept DEF Refuse
<1>5. CASE Launch(t)
  BY <1>5, LockKept DEF Launch, PassesThreshold, locks
<1>6. CASE Grant(t)
  BY <1>6, LockKept DEF Grant, Receive
<1>7. CASE Freelist(t)
  BY <1>7, LockKept DEF Freelist, locks
<1>8. CASE LaunchCollect(t)
  BY <1>8, LockKept DEF LaunchCollect, locks
<1>9. CASE ExpandHeap(t)
  BY <1>9, LockKept DEF ExpandHeap, locks
<1>10. CASE BadAlloc(t)
  BY <1>10, LockKept DEF BadAlloc, locks
<1>11. CASE GcLock(t)
  BY <1>11, LockKept DEF GcLock
<1>12. CASE GcLaunch(t)
  <2>1. /\ gcMutex = t /\ gcMutex' = None /\ loMutex' = loMutex /\ opt' = opt /\ kind' = kind
        /\ pc'[t] \in {"run", "grant", "lock", "ask"} /\ (opt[t] = "LAUNCH" /\ loMutex = t => pc'[t] = "grant")
        /\ \A u \in Threads \ {t} : pc'[u] = pc[u]
    BY <1>12 DEF GcLaunch, GcReturn
  <2> QED BY <2>1, LockKept
<1>13. CASE GcCollect(t)
  <2>1. GcReturn(t) /\ pc[t] = "gc_run" /\ opt[t] = "COLLECT"
    BY <1>13 DEF GcCollect, CollectsAlone
  <2>2. /\ gcMutex = t /\ gcMutex' = None /\ loMutex' = loMutex /\ opt' = opt
        /\ loMutex # t /\ kind' = kind
        /\ pc'[t] \in {"run", "lock", "ask"}
        /\ \A u \in Threads \ {t} : pc'[u] = pc[u]
    BY <2>1 DEF GcReturn
  <2> QED BY <2>2, LockKept
<1>14. CASE GcCrash(t)
  BY <1>14 DEF GcCrash, locks, local
<1>15. CASE Commit(t)
  BY <1>15 DEF Commit, locks
<1>16. CASE Abort(t)
  BY <1>16 DEF Abort, locks
<1> QED BY <1>1, <1>2, <1>3, <1>4, <1>5, <1>6, <1>7, <1>8, <1>9, <1>10, <1>11, <1>12,
           <1>13, <1>14, <1>15, <1>16 DEF Inner, Inside, GcRun, Constructed

LEMMA NextLockInv == TypeOK /\ NestInv /\ LockInv /\ [Next]_vars => LockInv'
<1> SUFFICES ASSUME TypeOK, NestInv, LockInv, [Next]_vars PROVE LockInv'
  OBVIOUS
<1>1. ASSUME NEW o \in LargeObjects, Lose(o) PROVE LockInv'
  BY <1>1 DEF Lose, LockInv, locks, local
<1>2. CASE UNCHANGED vars
  BY <1>2 DEF vars, LockInv, locks, local
<1> QED BY <1>1, <1>2, ThreadLockInv DEF Next

\* From any of the threads the wait leads, in at most two more steps, to one that
\* waits for the mutex of the large objects.
LEMMA NoOtherDeadlock == TypeOK /\ LockInv => DeadlockNeedsLaunch
<1> SUFFICES ASSUME TypeOK, LockInv, NEW S \in (SUBSET Threads) \ {{}},
                    \A t \in S : \E u \in S : WaitsFor(t, u)
             PROVE  \E t, u \in S :
                        /\ loMutex = t /\ opt[t] = "LAUNCH" /\ pc[t] \in {"gc_lock", "gc_run"}
                        /\ pc[u] = "lock" /\ INCREMENTAL
  BY DEF DeadlockNeedsLaunch
<1>1. \A t \in S : pc[t] \in {"lock", "gc_lock", "gc_run"}
  BY DEF WaitsFor
<1>2. \E u \in S : pc[u] = "lock"
  <2>1. PICK t \in S : TRUE
    OBVIOUS
  <2>2. ASSUME NEW v \in S, pc[v] = "gc_run" PROVE \E u \in S : pc[u] = "lock"
    <3>1. PICK u \in S : u # v /\ InUnsafeScope(u)
      BY <2>2 DEF WaitsFor
    <3>2. pc[u] # "gc_lock" /\ pc[u] # "gc_run"
      BY <2>2, <3>1 DEF InUnsafeScope, LockInv
    <3> QED BY <1>1, <3>2
  <2>3. CASE pc[t] = "gc_lock"
    <3>1. PICK v \in S : gcMutex = v
      BY <2>3 DEF WaitsFor
    <3> QED BY <2>2, <3>1 DEF LockInv
  <2> QED BY <1>1, <2>1, <2>2, <2>3
<1>3. PICK u \in S : pc[u] = "lock"
  BY <1>2
<1>4. PICK t \in S : loMutex = t
  BY <1>3 DEF WaitsFor
<1> QED BY <1>1, <1>3, <1>4 DEF LockInv

-----------------------------------------------------------------------------
(* The results                                                             *)

\* m_heap_size is exactly the size of the blocks the allocators hold, for any
\* number of threads and objects and whatever runs between the check of the
\* limit in increase_heap_size and the addition.
THEOREM SizeExact == Spec => []HeapSizeExact
<1>1. IInv => HeapSizeExact
  BY DEF IInv, StoreInv
<1> QED BY <1>1, InitIInv, NextIInv, PTL DEF Spec

\* The heap passes its limit by less than a block for each thread, and the
\* limit never passes the maximum, however many collections are launched
\* between check and addition.
THEOREM LimitKept == Spec => []OvershootBounded
<1>1. IInv => OvershootBounded
  <2> SUFFICES ASSUME IInv PROVE OvershootBounded
    OBVIOUS
  <2> DEFINE granted == SumFunctionOnSet(Granted, Threads)
             owed == SumFunctionOnSet(Owed, Threads)
             M == (Cardinality(Threads) - 1) * Max({PoolBlk, LargeBlk})
  <2>1. \A t \in Threads : Granted[t] \in Int /\ Owed[t] \in Int /\ Granted[t] <= Owed[t]
    BY SizeBounds, Largest DEF Granted, Owed, Launching
  <2>2. granted \in Int /\ owed \in Int /\ granted <= owed
    BY <2>1, ThreadCount, SumRec, SumLess
  <2>3. m_heap_size + owed <= m_heap_limit + M
    BY DEF IInv, Overshoot
  <2>4. m_heap_size \in Nat /\ m_heap_limit \in Int /\ M \in Int
    BY LimitAssumption, ThreadCount, Largest DEF IInv, TypeOK
  <2> HIDE DEF granted, owed, M
  <2>5. m_heap_size + granted <= m_heap_limit + M
    BY <2>2, <2>3, <2>4
  <2> QED BY <2>5 DEF OvershootBounded, IInv, granted, M
<1> QED BY <1>1, InitIInv, NextIInv, PTL DEF Spec

\* Threads in gc_new and gc() wait for one another, any number of them, only when
\* one launches concurrent marking while it holds the mutex of gc_lo_allocator:
\* never with gc_serial.
THEOREM OnlyLaunchesDeadlock == Spec => []DeadlockNeedsLaunch
<1>1. IInv => TypeOK /\ NestInv
  BY DEF IInv
<1> QED BY <1>1, InitIInv, NextIInv, InitLockInv, NextLockInv, NoOtherDeadlock, PTL DEF Spec

-----------------------------------------------------------------------------
(* The blocks of gc_core_allocator                                         *)

CONSTANTS Addresses, AllocSizes
VARIABLES mapped, used, m_buckets, m_freelist

Cache == INSTANCE PageCache

\* Any number of pages up to MAX_BUCKETIZE_SIZE has a bucket of exactly that size:
\* freelist_allocator, which gives the first block that is large enough, never gives
\* one that is larger.
THEOREM BucketsExact ==
    ASSUME NEW size \in Nat \ {0}, size % Cache!PAGE_SIZE = 0, size <= Cache!MAX_BUCKETIZE_SIZE
    PROVE  /\ Cache!Bucket(size) \in 0..Cache!BUCKET_COUNT-1
           /\ Cache!BucketSize(Cache!Bucket(size)) = size
<1>1. Cache!MAX_BUCKETIZE_SIZE = 524288 /\ Cache!BUCKET_COUNT = 128
  BY DEF Cache!BUCKET_COUNT, Cache!MAX_BUCKETIZE_SIZE, Cache!MANAGED_CHUNK_OBJECTS_COUNT,
         Cache!LARGE_CELL_SIZE, Cache!PAGE_SIZE, Cache!MIN_CELL_SIZE
<1> QED BY <1>1 DEF Cache!Bucket, Cache!BucketSize, Cache!PAGE_SIZE

-----------------------------------------------------------------------------

CacheTypeOK ==
    /\ mapped \in [DOMAIN mapped -> Nat \ {0}]
    /\ used \in [DOMAIN used -> Nat \ {0}]
    /\ m_buckets \in [Cache!Buckets -> {m_buckets[i] : i \in Cache!Buckets}]
    /\ \A i \in Cache!Buckets :
          m_buckets[i] = [b \in DOMAIN m_buckets[i] |-> Cache!BucketSize(i)]
    /\ m_freelist \in [DOMAIN m_freelist -> Nat \ {0}]

\* A free block of a bucket is as large as the blocks of the bucket are.
BucketsFit ==
    \A i \in Cache!Buckets : \A b \in DOMAIN m_buckets[i] : mapped[b] = Cache!BucketSize(i)

CacheInv == CacheTypeOK /\ Cache!BlocksAccounted /\ Cache!BlocksFit /\ BucketsFit

LEMMA PutType ==
    ASSUME NEW f, NEW b, NEW size \in Nat \ {0}, f \in [DOMAIN f -> Nat \ {0}]
    PROVE  Cache!Put(f, b, size) \in [DOMAIN Cache!Put(f, b, size) -> Nat \ {0}]
BY DEF Cache!Put

LEMMA DropType ==
    ASSUME NEW f, NEW S, f \in [DOMAIN f -> Nat \ {0}]
    PROVE  Cache!Drop(f, S) \in [DOMAIN Cache!Drop(f, S) -> Nat \ {0}]
BY DEF Cache!Drop

\* A size that has a bucket has one whose blocks are that size, in pages.
LEMMA BucketOfSize ==
    ASSUME NEW size \in Nat \ {0}
    PROVE  /\ Cache!SysAlignSize(size) \in Nat \ {0}
           /\ Cache!Bucketized(size) =>
                /\ Cache!BucketOf(size) \in Cache!Buckets
                /\ Cache!BucketSize(Cache!BucketOf(size)) = Cache!SysAlignSize(size)
<1>1. Cache!SysAlignSize(size) \in Nat \ {0} /\ Cache!SysAlignSize(size) % Cache!PAGE_SIZE = 0
  BY DEF Cache!SysAlignSize, Cache!PAGE_SIZE
<1> QED BY <1>1, BucketsExact DEF Cache!Bucketized, Cache!BucketOf, Cache!Buckets

LEMMA BucketSizes == \A i \in Cache!Buckets : Cache!BucketSize(i) \in Nat \ {0}
BY DEF Cache!Buckets, Cache!BucketSize, Cache!PAGE_SIZE, Cache!BUCKET_COUNT,
       Cache!MAX_BUCKETIZE_SIZE, Cache!MANAGED_CHUNK_OBJECTS_COUNT,
       Cache!LARGE_CELL_SIZE, Cache!MIN_CELL_SIZE

-----------------------------------------------------------------------------

LEMMA InitCacheInv == Cache!Init => CacheInv
<1> SUFFICES ASSUME Cache!Init PROVE CacheInv
  OBVIOUS
<1>1. DOMAIN mapped = {} /\ DOMAIN used = {} /\ DOMAIN m_freelist = {}
  BY DEF Cache!Init, Cache!Empty
<1>2. \A i \in Cache!Buckets : m_buckets[i] = Cache!Empty /\ DOMAIN m_buckets[i] = {}
  BY DEF Cache!Init, Cache!Empty
<1>3. CacheTypeOK
  <2>1. \A i \in Cache!Buckets : m_buckets[i] = [b \in DOMAIN m_buckets[i] |-> Cache!BucketSize(i)]
    BY <1>2 DEF Cache!Empty
  <2>2. m_buckets \in [Cache!Buckets -> {m_buckets[i] : i \in Cache!Buckets}]
    BY DEF Cache!Init
  <2> QED BY <1>1, <2>1, <2>2 DEF CacheTypeOK, Cache!Init, Cache!Empty
<1>4. Cache!BlocksAccounted
  <2>1. Cache!Cached = {}
    BY <1>2 DEF Cache!Cached
  <2>2. DOMAIN mapped = {} /\ DOMAIN used = {} /\ DOMAIN m_freelist = {}
    BY <1>1
  <2> QED BY <1>2, <2>1, <2>2 DEF Cache!BlocksAccounted
<1>5. Cache!BlocksFit /\ BucketsFit
  BY <1>1, <1>2 DEF Cache!BlocksFit, BucketsFit
<1> QED BY <1>3, <1>4, <1>5 DEF CacheInv

\* What the steps that change one bucket have in common: if bucket i becomes g,
\* the others stay.
LEMMA OneBucket ==
    ASSUME CacheTypeOK, NEW i \in Cache!Buckets, NEW g, m_buckets' = [m_buckets EXCEPT ![i] = g],
           g = [b \in DOMAIN g |-> Cache!BucketSize(i)]
    PROVE  /\ m_buckets'[i] = g
           /\ \A j \in Cache!Buckets \ {i} : m_buckets'[j] = m_buckets[j]
           /\ m_buckets' \in [Cache!Buckets -> {m_buckets'[j] : j \in Cache!Buckets}]
           /\ \A j \in Cache!Buckets :
                  m_buckets'[j] = [b \in DOMAIN m_buckets'[j] |-> Cache!BucketSize(j)]
<1>1. m_buckets'[i] = g /\ \A j \in Cache!Buckets \ {i} : m_buckets'[j] = m_buckets[j]
  BY DEF CacheTypeOK
<1>2. m_buckets' \in [Cache!Buckets -> {m_buckets'[j] : j \in Cache!Buckets}]
  BY DEF CacheTypeOK
<1>3. ASSUME NEW j \in Cache!Buckets
      PROVE  m_buckets'[j] = [b \in DOMAIN m_buckets'[j] |-> Cache!BucketSize(j)]
  BY <1>1 DEF CacheTypeOK
<1> QED BY <1>1, <1>2, <1>3

\* Out of the free list of a bucket.
LEMMA FromBucket ==
    ASSUME CacheInv, NEW b, NEW size \in Nat \ {0}, Cache!Bucketized(size),
           b \in DOMAIN m_buckets[Cache!BucketOf(size)],
           m_buckets' = [m_buckets EXCEPT ![Cache!BucketOf(size)] = Cache!Drop(@, {b})],
           used' = Cache!Put(used, b, size), UNCHANGED <<mapped, m_freelist>>
    PROVE  CacheInv'
<1> DEFINE i == Cache!BucketOf(size)
           g == Cache!Drop(m_buckets[i], {b})
<1>1. i \in Cache!Buckets /\ Cache!BucketSize(i) = Cache!SysAlignSize(size)
  BY BucketOfSize
<1>2. DOMAIN g = DOMAIN m_buckets[i] \ {b} /\ g = [c \in DOMAIN g |-> Cache!BucketSize(i)]
  BY <1>1 DEF Cache!Drop, CacheInv, CacheTypeOK
<1>3. m_buckets' = [m_buckets EXCEPT ![i] = g]
  BY <1>1 DEF CacheInv, CacheTypeOK
<1> HIDE DEF i, g
<1>4. /\ m_buckets'[i] = g
      /\ \A j \in Cache!Buckets \ {i} : m_buckets'[j] = m_buckets[j]
      /\ m_buckets' \in [Cache!Buckets -> {m_buckets'[j] : j \in Cache!Buckets}]
           /\ \A j \in Cache!Buckets :
                  m_buckets'[j] = [c \in DOMAIN m_buckets'[j] |-> Cache!BucketSize(j)]
  BY <1>1, <1>2, <1>3, OneBucket DEF CacheInv
<1>5. DOMAIN used' = DOMAIN used \cup {b} /\ used'[b] = size
      /\ \A c \in DOMAIN used \ {b} : used'[c] = used[c]
  BY DEF Cache!Put
<1>6. b \in DOMAIN m_buckets[i]
  BY DEF i
<1>7. CacheTypeOK'
  BY <1>4, PutType DEF CacheInv, CacheTypeOK
<1>8. Cache!BlocksAccounted'
  <2>1. \A j \in Cache!Buckets :
            DOMAIN m_buckets'[j] = IF j = i THEN DOMAIN m_buckets[i] \ {b} ELSE DOMAIN m_buckets[j]
    BY <1>2, <1>4
  <2>2. Cache!Cached' = Cache!Cached \ {b}
    <3>1. \A j \in Cache!Buckets : DOMAIN m_buckets'[j] = DOMAIN m_buckets[j] \ {b}
      <4>1. \A j \in Cache!Buckets \ {i} : DOMAIN m_buckets[j] \cap DOMAIN m_buckets[i] = {}
        BY <1>1 DEF CacheInv, Cache!BlocksAccounted
      <4> QED BY ONLY <1>1, <1>6, <2>1, <4>1
    <3>2. ASSUME NEW c PROVE c \in Cache!Cached' <=> c \in Cache!Cached /\ c # b
      <4>1. c \in Cache!Cached <=> \E j \in Cache!Buckets : c \in DOMAIN m_buckets[j]
        BY DEF Cache!Cached
      <4>2. c \in Cache!Cached' <=> \E j \in Cache!Buckets : c \in DOMAIN m_buckets'[j]
        BY DEF Cache!Cached
      <4>3. (\E j \in Cache!Buckets : c \in DOMAIN m_buckets'[j])
            <=> (\E j \in Cache!Buckets : c \in DOMAIN m_buckets[j]) /\ c # b
        BY <3>1
      <4> QED BY <4>1, <4>2, <4>3
    <3> QED BY <3>2
  <2>3. b \in DOMAIN mapped
    BY <1>1, <1>6 DEF CacheInv, Cache!BlocksAccounted, Cache!Cached
  <2> QED BY <1>1, <1>5, <1>6, <2>1, <2>2, <2>3 DEF CacheInv, Cache!BlocksAccounted
<1>9. Cache!BlocksFit'
  BY <1>1, <1>5, <1>6 DEF CacheInv, Cache!BlocksFit, BucketsFit
<1>10. BucketsFit'
  BY <1>1, <1>2, <1>4 DEF CacheInv, BucketsFit
<1> QED BY <1>7, <1>8, <1>9, <1>10 DEF CacheInv

\* From the operating system, for a bucket or not.
LEMMA FromSystem ==
    ASSUME CacheInv, NEW b, NEW size \in Nat \ {0}, Cache!SysAllocate(b, Cache!SysAlignSize(size)),
           used' = Cache!Put(used, b, size), UNCHANGED <<m_buckets, m_freelist>>
    PROVE  CacheInv'
<1>1. b \notin DOMAIN mapped /\ mapped' = Cache!Put(mapped, b, Cache!SysAlignSize(size))
  BY DEF Cache!SysAllocate
<1>2. DOMAIN mapped' = DOMAIN mapped \cup {b} /\ mapped'[b] = Cache!SysAlignSize(size)
      /\ \A c \in DOMAIN mapped \ {b} : mapped'[c] = mapped[c]
  BY <1>1 DEF Cache!Put
<1>3. DOMAIN used' = DOMAIN used \cup {b} /\ used'[b] = size
      /\ \A c \in DOMAIN used \ {b} : used'[c] = used[c]
  BY DEF Cache!Put
<1>4. /\ b \notin DOMAIN used /\ b \notin DOMAIN m_freelist
      /\ \A i \in Cache!Buckets : b \notin DOMAIN m_buckets[i]
      /\ DOMAIN used \subseteq DOMAIN mapped /\ DOMAIN m_freelist \subseteq DOMAIN mapped
      /\ \A i \in Cache!Buckets : DOMAIN m_buckets[i] \subseteq DOMAIN mapped
  BY <1>1 DEF CacheInv, Cache!BlocksAccounted, Cache!Cached
<1>5. CacheTypeOK'
  BY <1>1, PutType, BucketOfSize DEF CacheInv, CacheTypeOK
<1>6. Cache!BlocksAccounted'
  BY <1>2, <1>3, <1>4 DEF CacheInv, Cache!BlocksAccounted, Cache!Cached
<1>7. Cache!BlocksFit' /\ BucketsFit'
  BY <1>2, <1>3, <1>4 DEF CacheInv, Cache!BlocksFit, BucketsFit
<1> QED BY <1>5, <1>6, <1>7 DEF CacheInv

LEMMA DeallocateBucketizedInv ==
    ASSUME CacheInv, NEW b, Cache!DeallocateBucketized(b)
    PROVE  CacheInv'
<1> DEFINE i == Cache!BucketOf(used[b])
           g == Cache!Put(m_buckets[i], b, Cache!BucketSize(i))
<1>1. b \in DOMAIN used /\ used[b] \in Nat \ {0} /\ Cache!Bucketized(used[b])
  BY DEF Cache!DeallocateBucketized, CacheInv, CacheTypeOK
<1>2. i \in Cache!Buckets /\ Cache!BucketSize(i) = mapped[b]
  BY <1>1, BucketOfSize DEF CacheInv, Cache!BlocksFit
<1>3. DOMAIN g = DOMAIN m_buckets[i] \cup {b} /\ g = [c \in DOMAIN g |-> Cache!BucketSize(i)]
  BY <1>2 DEF Cache!Put, CacheInv, CacheTypeOK
<1>4. m_buckets' = [m_buckets EXCEPT ![i] = g] /\ used' = Cache!Drop(used, {b})
      /\ UNCHANGED <<mapped, m_freelist>>
  BY <1>2 DEF Cache!DeallocateBucketized, CacheInv, CacheTypeOK
<1> HIDE DEF i, g
<1>5. /\ m_buckets'[i] = g
      /\ \A j \in Cache!Buckets \ {i} : m_buckets'[j] = m_buckets[j]
      /\ m_buckets' \in [Cache!Buckets -> {m_buckets'[j] : j \in Cache!Buckets}]
           /\ \A j \in Cache!Buckets :
                  m_buckets'[j] = [c \in DOMAIN m_buckets'[j] |-> Cache!BucketSize(j)]
  BY <1>2, <1>3, <1>4, OneBucket DEF CacheInv
<1>6. DOMAIN used' = DOMAIN used \ {b} /\ \A c \in DOMAIN used \ {b} : used'[c] = used[c]
  BY <1>4 DEF Cache!Drop
<1>7. CacheTypeOK'
  BY <1>4, <1>5, DropType DEF CacheInv, CacheTypeOK
<1>8. Cache!BlocksAccounted'
  <2>1. \A j \in Cache!Buckets :
            DOMAIN m_buckets'[j] = IF j = i THEN DOMAIN m_buckets[i] \cup {b} ELSE DOMAIN m_buckets[j]
    BY <1>3, <1>5
  <2>2. Cache!Cached' = Cache!Cached \cup {b}
    BY <1>2, <2>1 DEF Cache!Cached
  <2>3. b \notin DOMAIN m_freelist /\ \A j \in Cache!Buckets : b \notin DOMAIN m_buckets[j]
    BY <1>1 DEF CacheInv, Cache!BlocksAccounted
  <2>4. Cache!BlocksAccounted
    BY DEF CacheInv
  <2>5. \A j \in Cache!Buckets :
            DOMAIN m_buckets'[j] \cap (DOMAIN used' \cup DOMAIN m_freelist') = {}
    BY ONLY <1>4, <1>6, <2>1, <2>3, <2>4 DEF Cache!BlocksAccounted
  <2>6. \A j, k \in Cache!Buckets : j # k => DOMAIN m_buckets'[j] \cap DOMAIN m_buckets'[k] = {}
    BY ONLY <2>1, <2>3, <2>4 DEF Cache!BlocksAccounted
  <2>7. /\ DOMAIN used' \cap DOMAIN m_freelist' = {}
        /\ DOMAIN mapped' = DOMAIN used' \cup DOMAIN m_freelist' \cup Cache!Cached'
    BY ONLY <1>1, <1>4, <1>6, <2>2, <2>4 DEF Cache!BlocksAccounted
  <2> QED BY <2>5, <2>6, <2>7 DEF Cache!BlocksAccounted
<1>9. Cache!BlocksFit'
  BY <1>4, <1>6 DEF CacheInv, Cache!BlocksFit
<1>10. BucketsFit'
  BY <1>2, <1>3, <1>4, <1>5 DEF CacheInv, BucketsFit
<1> QED BY <1>7, <1>8, <1>9, <1>10 DEF CacheInv

LEMMA DeallocateLargeInv ==
    ASSUME CacheInv, NEW b, Cache!DeallocateLarge(b)
    PROVE  CacheInv'
<1> DEFINE size == Cache!SysAlignSize(used[b])
<1>1. b \in DOMAIN used /\ used[b] \in Nat \ {0} /\ mapped[b] = size
  BY DEF Cache!DeallocateLarge, CacheInv, CacheTypeOK, Cache!BlocksFit
<1>2. size \in Nat \ {0}
  BY <1>1, BucketOfSize
<1>3. m_freelist' = Cache!Put(m_freelist, b, size) /\ used' = Cache!Drop(used, {b})
      /\ UNCHANGED <<mapped, m_buckets>>
  BY DEF Cache!DeallocateLarge
<1> HIDE DEF size
<1>4. DOMAIN used' = DOMAIN used \ {b} /\ \A c \in DOMAIN used \ {b} : used'[c] = used[c]
  BY <1>3 DEF Cache!Drop
<1>5. DOMAIN m_freelist' = DOMAIN m_freelist \cup {b} /\ m_freelist'[b] = size
      /\ \A c \in DOMAIN m_freelist \ {b} : m_freelist'[c] = m_freelist[c]
  BY <1>3 DEF Cache!Put
<1>6. CacheTypeOK'
  BY <1>2, <1>3, DropType, PutType DEF CacheInv, CacheTypeOK
<1>7. Cache!BlocksAccounted'
  <2>1. Cache!Cached' = Cache!Cached
    BY <1>3 DEF Cache!Cached
  <2>2. Cache!BlocksAccounted
    BY DEF CacheInv
  <2>3. \A j \in Cache!Buckets : b \notin DOMAIN m_buckets[j]
    BY <1>1, <2>2 DEF Cache!BlocksAccounted
  <2>4. \A j \in Cache!Buckets :
            DOMAIN m_buckets'[j] \cap (DOMAIN used' \cup DOMAIN m_freelist') = {}
    BY ONLY <1>3, <1>4, <1>5, <2>2, <2>3 DEF Cache!BlocksAccounted
  <2>5. \A j, k \in Cache!Buckets : j # k => DOMAIN m_buckets'[j] \cap DOMAIN m_buckets'[k] = {}
    BY ONLY <1>3, <2>2 DEF Cache!BlocksAccounted
  <2>6. /\ DOMAIN used' \cap DOMAIN m_freelist' = {}
        /\ DOMAIN mapped' = DOMAIN used' \cup DOMAIN m_freelist' \cup Cache!Cached'
    BY ONLY <1>1, <1>3, <1>4, <1>5, <2>1, <2>2 DEF Cache!BlocksAccounted
  <2> QED BY <2>4, <2>5, <2>6 DEF Cache!BlocksAccounted
<1>8. Cache!BlocksFit' /\ BucketsFit'
  BY <1>1, <1>3, <1>4, <1>5 DEF CacheInv, Cache!BlocksFit, BucketsFit
<1> QED BY <1>6, <1>7, <1>8 DEF CacheInv

LEMMA ShrinkInv == ASSUME CacheInv, Cache!Shrink PROVE CacheInv'
<1>1. mapped' = Cache!Drop(mapped, DOMAIN m_freelist) /\ m_freelist' = Cache!Empty
      /\ UNCHANGED <<used, m_buckets>>
  BY DEF Cache!Shrink
<1>2. DOMAIN mapped' = DOMAIN mapped \ DOMAIN m_freelist
      /\ \A c \in DOMAIN mapped \ DOMAIN m_freelist : mapped'[c] = mapped[c]
  BY <1>1 DEF Cache!Drop
<1>3. DOMAIN m_freelist' = {}
  BY <1>1 DEF Cache!Empty
<1>4. CacheTypeOK'
  BY <1>1, <1>3, DropType DEF CacheInv, CacheTypeOK, Cache!Empty
<1>5. Cache!BlocksAccounted'
  <2>1. Cache!Cached' = Cache!Cached /\ Cache!Cached \cap DOMAIN m_freelist = {}
    BY <1>1 DEF CacheInv, Cache!BlocksAccounted, Cache!Cached
  <2> QED BY <1>1, <1>2, <1>3, <2>1 DEF CacheInv, Cache!BlocksAccounted
<1>6. Cache!BlocksFit' /\ BucketsFit'
  BY <1>1, <1>2, <1>3 DEF CacheInv, Cache!BlocksFit, BucketsFit, Cache!BlocksAccounted,
                          Cache!Cached
<1> QED BY <1>4, <1>5, <1>6 DEF CacheInv

-----------------------------------------------------------------------------

LEMMA NextCacheInv ==
    ASSUME AllocSizes \subseteq Nat \ {0}, CacheInv, [Cache!Next]_(Cache!vars)
    PROVE  CacheInv'
<1>1. ASSUME NEW b, NEW size \in AllocSizes, Cache!AllocateBucketized(b, size) PROVE CacheInv'
  <2>1. size \in Nat \ {0} /\ Cache!Bucketized(size) /\ used' = Cache!Put(used, b, size)
        /\ UNCHANGED m_freelist
        /\ Cache!FreelistAllocate(Cache!BucketOf(size), b, Cache!BucketSize(Cache!BucketOf(size)))
    BY <1>1 DEF Cache!AllocateBucketized
  <2>2. Cache!BucketSize(Cache!BucketOf(size)) = Cache!SysAlignSize(size)
    BY <2>1, BucketOfSize
  <2>3. CASE /\ b \in DOMAIN m_buckets[Cache!BucketOf(size)]
             /\ m_buckets' = [m_buckets EXCEPT ![Cache!BucketOf(size)] = Cache!Drop(@, {b})]
             /\ UNCHANGED mapped
    BY <2>1, <2>3, FromBucket
  <2>4. CASE Cache!SysAllocate(b, Cache!BucketSize(Cache!BucketOf(size))) /\ UNCHANGED m_buckets
    BY <2>1, <2>2, <2>4, FromSystem
  <2> QED BY <2>1, <2>3, <2>4 DEF Cache!FreelistAllocate
<1>2. ASSUME NEW b, NEW size \in AllocSizes, Cache!AllocateLarge(b, size) PROVE CacheInv'
  BY <1>2, FromSystem DEF Cache!AllocateLarge
<1>3. ASSUME NEW b, Cache!DeallocateBucketized(b) \/ Cache!DeallocateLarge(b) PROVE CacheInv'
  BY <1>3, DeallocateBucketizedInv, DeallocateLargeInv
<1>4. CASE Cache!Shrink
  BY <1>4, ShrinkInv
<1>5. CASE UNCHANGED Cache!vars
  BY <1>5 DEF Cache!vars, CacheInv, CacheTypeOK, Cache!BlocksAccounted, Cache!BlocksFit,
              BucketsFit, Cache!Cached
<1> QED BY <1>1, <1>2, <1>3, <1>4, <1>5 DEF Cache!Next

\* However allocators take and give back blocks, and collections shrink the
\* cache between: no block has two owners, none gets lost, and each is mapped
\* with the size that counts against the limit of the heap.
THEOREM BlocksSound ==
    ASSUME AllocSizes \subseteq Nat \ {0}
    PROVE  Cache!Spec => [](Cache!BlocksAccounted /\ Cache!BlocksFit)
<1>1. CacheInv /\ [Cache!Next]_(Cache!vars) => CacheInv'
  BY NextCacheInv
<1>2. CacheInv => Cache!BlocksAccounted /\ Cache!BlocksFit
  BY DEF CacheInv
<1> QED BY InitCacheInv, <1>1, <1>2, PTL DEF Cache!Spec

=============================================================================
