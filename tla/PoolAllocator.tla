--------------------------- MODULE PoolAllocator ----------------------------
(***************************************************************************)
(* allocators/gc_pool_allocator.cpp with gc_pool_descriptor: the cells of  *)
(* one size that one thread allocates, as gc_new uses them, and what the   *)
(* collections of that thread and of all others do to them.                *)
(*                                                                         *)
(* gc_new and the constructors it calls run in one unsafe scope, so other  *)
(* threads collect only between two outermost calls of gc_new, or while    *)
(* the thread itself waits inside gc(), which opens a safe scope.          *)
(* gc_core_allocator::allocate is external here: it gives a block, gives   *)
(* none, or launches concurrent marking before it gives one.               *)
(***************************************************************************)
EXTENDS PoolDescriptor, FiniteSetsExt, SequencesExt

CONSTANTS
    Blocks,     \* addresses of the blocks the core allocator can give
    MaxNest,    \* bound on constructors that call gc_new inside one another
    None

ASSUME BlocksAssumption ==
    /\ Blocks \subseteq Chunks
    /\ \A b, c \in Blocks : b = c \/ b + ChunkSize <= c \/ c + ChunkSize <= b
ASSUME MaxNestAssumption == MaxNest \in Nat \ {0}
ASSUME NoneAssumption == None \notin Nat

Descrs ==
    [m_memory : Blocks, m_size : {ChunkSize}, m_mark_bits : Bitsets, m_init_bits : Bitsets]

CellsOf(descr) == ToSet(MemoryRange(descr))
Cells == UNION {CellsOf(NewDescriptor(b)) : b \in Blocks}
Phases == {"IDLE", "MARK"}

VARIABLES
    m_descrs,       \* the descriptors of its blocks, in the order of the list
    m_top, m_end,   \* the bump region; None is nullptr
    m_freelist,
    m_phase,        \* of the collector
    news,           \* gc_new_stack: the cells under construction
    pc,             \* where allocate is
    attempt_num,
    retried,        \* gc_cms::allocate caught a gc_bad_alloc
    reach,          \* cells of objects the program can reach
    aborted         \* cells whose construction failed, until they are swept

pool == <<m_descrs, m_top, m_end, m_freelist>>
call == <<pc, attempt_num, retried>>
vars == <<pool, m_phase, news, call, reach, aborted>>

TypeOK ==
    /\ m_descrs \in Seq(Descrs)
    /\ m_end \in {b + ChunkSize : b \in Blocks} \cup {None}
    /\ m_top \in Cells \cup {m_end}
    /\ m_freelist \in Seq(Cells)
    /\ m_phase \in Phases
    /\ news \in Seq(Cells) /\ Len(news) <= MaxNest
    /\ pc \in {"run", "expand", "launch", "granted", "gc"}
    /\ attempt_num \in 0..2
    /\ retried \in BOOLEAN
    /\ reach \subseteq Cells
    /\ aborted \subseteq Cells

Init ==
    /\ m_descrs = <<>>
    /\ m_top = None
    /\ m_end = None
    /\ m_freelist = <<>>
    /\ m_phase = "IDLE"
    /\ news = <<>>
    /\ pc = "run"
    /\ attempt_num = 0
    /\ retried = FALSE
    /\ reach = {}
    /\ aborted = {}

Descriptors == ToSet(m_descrs)
Blks == {d.m_memory : d \in Descriptors}

\* The cells whose descriptor says so.
With(Op(_, _)) == UNION {{p \in CellsOf(d) : Op(d, p)} : d \in Descriptors}
Marked == With(GetMark)
Objects == With(IsInit)

\* The descriptors when Op was called for each p in S, on the one it is in.
Update(descrs, Op(_, _), S) ==
    [i \in DOMAIN descrs |->
        FoldSet(LAMBDA p, d : Op(d, p), descrs[i], {p \in S : InChunk(descrs[i], p)})]

\* The part of the bump region that was not given out.
Bump == IF m_top = None THEN {} ELSE {p \in Cells : m_top <= p /\ p < m_end}

-----------------------------------------------------------------------------
(* allocate                                                                *)

\* init_cell, and gc_core::allocate registers the new entry.
InitCell(c) ==
    /\ news' = Append(news, c)
    /\ pc' = "run"
    /\ attempt_num' = 0
    /\ retried' = FALSE

StackAllocation ==
    /\ pc = "run"
    /\ Len(news) < MaxNest
    /\ m_top # m_end
    /\ InitCell(m_top)
    /\ m_top' = m_top + cell_size
    /\ UNCHANGED <<m_descrs, m_end, m_freelist, m_phase, reach, aborted>>

TryExpand ==
    /\ pc = "run"
    /\ Len(news) < MaxNest
    /\ m_top = m_end
    /\ pc' = "expand"
    /\ UNCHANGED <<pool, m_phase, news, attempt_num, retried, reach, aborted>>

\* The core allocator finds the marking threshold passed: it launches
\* concurrent marking, and gives the block when gc() returns.
CoreLaunches ==
    /\ pc = "expand"
    /\ Blocks \ Blks # {}
    /\ pc' = "launch"
    /\ UNCHANGED <<pool, m_phase, news, attempt_num, retried, reach, aborted>>

\* A block was given: it becomes the last descriptor and the bump region.
UseBlock(b) ==
    /\ pc \in {"expand", "granted"}
    /\ b \notin Blks
    /\ m_descrs' = Append(m_descrs, NewDescriptor(b))
    /\ m_top' = b + cell_size
    /\ m_end' = b + ChunkSize
    /\ InitCell(b)
    /\ UNCHANGED <<m_freelist, m_phase, reach, aborted>>

\* Mutation: the head stays in the list.
FreelistAllocation_KeepHead ==
    /\ pc = "expand"
    /\ m_freelist # <<>>
    /\ InitCell(Head(m_freelist))
    /\ UNCHANGED <<pool, m_phase, reach, aborted>>

\* No block was given, from here on.
FreelistAllocation ==
    /\ pc = "expand"
    /\ m_freelist # <<>>
    /\ InitCell(Head(m_freelist))
    /\ m_freelist' = Tail(m_freelist)
    /\ UNCHANGED <<m_descrs, m_top, m_end, m_phase, reach, aborted>>

LaunchCollect ==
    /\ pc = "expand"
    /\ m_freelist = <<>>
    /\ attempt_num = 0
    /\ pc' = "gc"
    /\ UNCHANGED <<pool, m_phase, news, attempt_num, retried, reach, aborted>>

ExpandHeap ==
    /\ pc = "expand"
    /\ m_freelist = <<>>
    /\ attempt_num = 1
    /\ attempt_num' = 2
    /\ UNCHANGED <<pool, m_phase, news, pc, retried, reach, aborted>>

\* gc_bad_alloc: gc_cms::allocate tries once more, then the program has it.
BadAlloc ==
    /\ pc = "expand"
    /\ m_freelist = <<>>
    /\ attempt_num = 2
    /\ attempt_num' = 0
    /\ retried' = ~retried
    /\ pc' = IF retried THEN "run" ELSE "expand"
    /\ UNCHANGED <<pool, m_phase, news, reach, aborted>>

-----------------------------------------------------------------------------
(* gc_new after the constructor, and the program.                          *)

Commit ==
    /\ pc = "run"
    /\ news # <<>>
    /\ LET committed == Update(m_descrs, CommitCell, {Last(news)}) IN
       m_descrs' = IF m_phase = "MARK" THEN Update(committed, SetMark, {Last(news)})
                                       ELSE committed
    /\ reach' = reach \cup {Last(news)}
    /\ news' = Front(news)
    /\ UNCHANGED <<m_top, m_end, m_freelist, m_phase, call, aborted>>

\* The constructor threw.
Abort ==
    /\ pc = "run"
    /\ news # <<>>
    /\ aborted' = aborted \cup {Last(news)}
    /\ news' = Front(news)
    /\ UNCHANGED <<pool, m_phase, call, reach>>

Lose(c) ==
    /\ c \in reach
    /\ reach' = reach \ {c}
    /\ UNCHANGED <<pool, m_phase, news, call, aborted>>

-----------------------------------------------------------------------------
(* Collections.                                                            *)

\* Pointers to an object may be to any of its bytes; the cell is looked up.
Reached == {CellStart(p) : p \in UNION {c..c + cell_size - 1 : c \in reach}}

\* Mutation: trace_uninit leaves objects under construction alone.
Markings_NoUninit ==
    LET must == Marked \cup Reached IN
    {must \cup extra : extra \in SUBSET (Objects \ must)}

\* What marking may have marked when it is complete: what can be reached, what
\* is under construction, and any object that was lost meanwhile.
Markings ==
    LET must == Marked \cup Reached \cup ToSet(news) IN
    {must \cup extra : extra \in SUBSET (Objects \ must)}

\* Mutation: only cells that held an object go to the free list.
SweepChunk_OnlyInit(freelist, descr) ==
    FoldLeft(LAMBDA cells, p : IF LifetimeTag(descr, p) # "GARBAGE" THEN cells ELSE <<p>> \o cells,
             freelist, MemoryRange(descr))

\* sweep inserts every unmarked cell at the head of the list,
SweepChunk(freelist, descr) ==
    FoldLeft(LAMBDA cells, p : IF GetMark(descr, p) THEN cells ELSE <<p>> \o cells,
             freelist, MemoryRange(descr))
Swept(descrs) == FoldLeft(LAMBDA cells, d : SweepChunk(cells, d), <<>>, descrs)

\* and destroys the objects in them.
Finalized(descr) ==
    FoldSet(LAMBDA p, d : FinalizeCell(d, p), descr,
            {p \in CellsOf(descr) : LifetimeTag(descr, p) = "GARBAGE"})

\* shrink gives back the blocks without a mark.
Used(descrs) == FoldLeft(LAMBDA ds, d : IF Unused(d) THEN ds ELSE Append(ds, d), <<>>, descrs)

\* Then sweep destroys the unmarked objects and lists the unmarked cells, and
\* finalize clears the marks.
Collect(M) ==
    LET marked == Update(m_descrs, SetMark, M)
        kept == Used(marked) IN
    /\ m_descrs' = [i \in DOMAIN kept |-> Unmark(Finalized(kept[i]))]
    /\ IF m_descrs = <<>>
         THEN UNCHANGED <<m_top, m_end, m_freelist>>
         ELSE /\ m_top' = None
              /\ m_end' = None
              /\ m_freelist' = Swept(kept)
    /\ aborted' = aborted \cap M
    /\ m_phase' = "IDLE"

\* start_marking_phase marks what is under construction; the workers mark the
\* rest while the program runs.
StartMarking ==
    /\ m_phase = "IDLE"
    /\ m_phase' = "MARK"
    /\ m_descrs' = Update(m_descrs, SetMark, ToSet(news))
    /\ UNCHANGED <<m_top, m_end, m_freelist>>

\* Another thread can stop this one.
Stoppable == pc \in {"gc", "launch"} \/ (pc = "run" /\ news = <<>>)

OwnCollect ==
    /\ pc = "gc"
    /\ \E M \in Markings : Collect(M)
    /\ pc' = "expand"
    /\ attempt_num' = 1
    /\ UNCHANGED <<news, retried, reach>>

OwnLaunch ==
    /\ pc = "launch"
    /\ IF m_phase = "IDLE" THEN StartMarking ELSE UNCHANGED <<pool, m_phase>>
    /\ pc' = "granted"
    /\ UNCHANGED <<news, attempt_num, retried, reach, aborted>>

OthersCollect ==
    /\ Stoppable
    /\ \E M \in Markings : Collect(M)
    /\ UNCHANGED <<news, call, reach>>

OthersLaunch ==
    /\ Stoppable
    /\ StartMarking
    /\ UNCHANGED <<news, call, reach, aborted>>

-----------------------------------------------------------------------------

Allocate ==
    \/ \E b \in Blocks : UseBlock(b)
    \/ CoreLaunches
    \/ FreelistAllocation
    \/ LaunchCollect
    \/ ExpandHeap
    \/ BadAlloc
    \/ OwnCollect
    \/ OwnLaunch

Program ==
    \/ StackAllocation
    \/ TryExpand
    \/ Commit
    \/ Abort
    \/ \E c \in Cells : Lose(c)

Next == Allocate \/ Program \/ OthersCollect \/ OthersLaunch

Spec == Init /\ [][Next]_vars

-----------------------------------------------------------------------------
(* Properties                                                              *)

\* The free list names no cell twice, and only cells of blocks the allocator
\* still has, in which nothing lives, is under construction, or is about to be
\* given out by the bump pointer.
FreelistSound ==
    /\ IsInjective(m_freelist)
    /\ ToSet(m_freelist) \subseteq UNION {CellsOf(d) : d \in Descriptors}
    /\ ToSet(m_freelist) \cap (Objects \cup Marked \cup ToSet(news) \cup Bump) = {}

\* The descriptor stack_allocation takes, the last of the list, is that of the
\* block the bump pointer is in; and what is under construction or reached lies
\* in blocks the allocator did not give back, with the bits that say so.
DescriptorsMatch ==
    /\ m_top # m_end => InChunk(Last(m_descrs), m_top)
    /\ reach \cup ToSet(news) \subseteq UNION {CellsOf(d) : d \in Descriptors}
    /\ reach \subseteq Objects

\* No cell of a block is lost: one in which nothing lives will be given out,
\* by the bump pointer or from the free list, or lost its object to a throwing
\* constructor and waits for the sweep.
NoCellLost ==
    \A d \in Descriptors :
        CellsOf(d) \subseteq Objects \cup ToSet(news) \cup ToSet(m_freelist)
                               \cup Bump \cup aborted

\* Every cell of a block has one place at a time.
CellsAccounted == TypeOK /\ FreelistSound /\ NoCellLost

\* Cells are used as CellStore says: given out one object at a time, destroyed
\* once and only when the program lost the object.
Store == INSTANCE CellStore WITH
    building <- ToSet(news),
    objects <- Objects

UsesCellsOnce == Store!Spec

=============================================================================
