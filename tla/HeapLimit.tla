----------------------------- MODULE HeapLimit ------------------------------
(***************************************************************************)
(* gc_core_allocator, the limit of the heap, and the threads that ask it   *)
(* for blocks: a pool allocator each, and the one large-object allocator,  *)
(* which holds its mutex while it asks.  Asking may launch a collection,   *)
(* and a collection stops all other threads.                               *)
(*                                                                         *)
(* A section of gc_core_allocator::m_mutex is one step.  A thread inside   *)
(* gc_new is in an unsafe scope, except while it is inside gc(); as World  *)
(* says, a collection runs when no other thread is in an unsafe scope, and *)
(* then at once.  What the collection finds is left open.                  *)
(***************************************************************************)
EXTENDS ObjectDescriptor, FiniteSets, FiniteSetsExt, SequencesExt, Functions

CONSTANTS
    Threads,
    LargeObjects,       \* addresses large objects can have
    None,
    small_size,         \* alloc_size of an object for a pool
    large_size,         \* and of a large one
    StartLimit,         \* the limit set_heap_limit was given
    MaxLimit,           \* m_heap_maxlimit
    INCREMENTAL,        \* info().incremental_flag: gc_cms or gc_serial
    Kinds,              \* the objects the program allocates
    MaxNest,            \* bound on constructors inside one another
    ConstructorsThrow

ASSUME ThreadsAssumption == IsFiniteSet(Threads) /\ Threads # {} /\ None \notin Threads
ASSUME ObjectsAssumption == IsFiniteSet(LargeObjects) /\ None \notin LargeObjects
ASSUME SizeAssumption ==
    /\ small_size \in Nat \ {0} /\ BoxSize(small_size) <= LARGE_CELL_SIZE
    /\ large_size \in Nat /\ ~IsSmall(large_size)
ASSUME LimitAssumption == StartLimit \in Nat /\ MaxLimit \in Nat /\ StartLimit <= MaxLimit
ASSUME MaxNestAssumption == MaxNest \in Nat \ {0}
ASSUME KindsAssumption == Kinds \subseteq {"pool", "large"}
ASSUME FlagsAssumption == INCREMENTAL \in BOOLEAN /\ ConstructorsThrow \in BOOLEAN

PoolBlk == PoolBlock(small_size)
LargeBlk == LargeBlock(large_size)

VARIABLES
    m_heap_size, m_heap_limit, m_mark_threshold,
    m_phase,    \* of the collector
    gcMutex,    \* the owner of gc_core::m_mutex
    loMutex,    \* the owner of gc_lo_allocator::m_mutex
    pools,      \* pools[t]: blocks in t's pool allocators
    descrs,     \* the descriptor of each large object in gc_lo_allocator's list
    reach,      \* the large objects the program can reach
    pc,         \* where each thread is
    kind,       \* what it allocates; "none" when it called gc() itself
    building,   \* what it is constructing, outermost first: a large object, or
                \* None for a cell of a pool
    attempt,    \* collections and expansions tried
    retried,    \* gc_cms::allocate caught a gc_bad_alloc
    opt,        \* the kind of collection it asked for
    crashed     \* a function of a null type_meta was called

core == <<m_heap_size, m_heap_limit, m_mark_threshold>>
heap == <<pools, descrs, reach>>
locks == <<gcMutex, loMutex>>
local == <<pc, kind, building, attempt, retried, opt>>
vars == <<core, m_phase, heap, locks, local, crashed>>

list == DOMAIN descrs
init == {o \in list : IsInit(descrs[o])}

PC == {"run", "lock", "ask", "null", "grant", "gc_lock", "gc_run"}

TypeOK ==
    /\ m_heap_size \in Nat
    /\ m_heap_limit \in StartLimit..MaxLimit
    /\ m_mark_threshold \in BOOLEAN
    /\ m_phase \in {"IDLE", "MARK"}
    /\ gcMutex \in Threads \cup {None}
    /\ loMutex \in Threads \cup {None}
    /\ pools \in [Threads -> Nat]
    /\ list \subseteq LargeObjects
    /\ descrs \in [list -> ObjectDescriptors]
    /\ \A o \in list : ~GetMark(descrs[o])
    /\ reach \subseteq init
    /\ pc \in [Threads -> PC]
    /\ kind \in [Threads -> {"none", "pool", "large"}]
    /\ building \in [Threads -> Seq(LargeObjects \cup {None})]
    /\ \A t \in Threads : Len(building[t]) <= MaxNest
    /\ attempt \in [Threads -> 0..2]
    /\ retried \in [Threads -> BOOLEAN]
    /\ opt \in [Threads -> {"LAUNCH", "COLLECT"}]
    /\ crashed \in BOOLEAN

\* The constructor of gc_core_allocator that gc_heap uses leaves
\* m_mark_threshold uninitialised.
Init ==
    /\ m_heap_size = 0
    /\ m_heap_limit = StartLimit
    /\ m_mark_threshold \in BOOLEAN
    /\ m_phase = "IDLE"
    /\ gcMutex = None
    /\ loMutex = None
    /\ pools = [t \in Threads |-> 0]
    /\ descrs = <<>>
    /\ reach = {}
    /\ pc = [t \in Threads |-> "run"]
    /\ kind = [t \in Threads |-> "none"]
    /\ building = [t \in Threads |-> <<>>]
    /\ attempt = [t \in Threads |-> 0]
    /\ retried = [t \in Threads |-> FALSE]
    /\ opt = [t \in Threads |-> "COLLECT"]
    /\ crashed = FALSE

Size(t) == IF kind[t] = "large" THEN LargeBlk ELSE PoolBlk
At(t, label) == ~crashed /\ pc[t] = label
Goto(t, label) == pc' = [pc EXCEPT ![t] = label]

\* Where an attempt of allocate starts: the large-object allocator locks first.
Ask(t) == IF kind[t] = "large" THEN "lock" ELSE "ask"

\* The lock_guard of allocate_blk goes out of scope.
UnlockLo(t) == loMutex' = IF loMutex = t THEN None ELSE loMutex

-----------------------------------------------------------------------------
(* gc_new, called by the program or by a constructor.                      *)

GcNew(t, k) ==
    /\ At(t, "run")
    /\ Len(building[t]) < MaxNest
    /\ kind' = [kind EXCEPT ![t] = k]
    /\ Goto(t, IF k = "large" THEN "lock" ELSE "ask")
    /\ UNCHANGED <<core, m_phase, heap, locks, building, attempt, retried, opt, crashed>>

LockLo(t) ==
    /\ At(t, "lock")
    /\ loMutex = None
    /\ loMutex' = t
    /\ Goto(t, "ask")
    /\ UNCHANGED <<core, m_phase, heap, gcMutex, kind, building, attempt, retried, opt, crashed>>

\* increase_heap_size.
\* Mutation: the mutex of gc_lo_allocator is held until allocate returns.
Refuse_KeepsMutex(t) ==
    /\ At(t, "ask")
    /\ m_heap_size + Size(t) > m_heap_limit
    /\ Goto(t, "null")
    /\ UNCHANGED <<core, m_phase, heap, locks, kind, building, attempt, retried, opt, crashed>>

Refuse(t) ==
    /\ At(t, "ask")
    /\ m_heap_size + Size(t) > m_heap_limit
    /\ Goto(t, "null")
    /\ UnlockLo(t)
    /\ UNCHANGED <<core, m_phase, heap, gcMutex, kind, building, attempt, retried, opt, crashed>>

PassesThreshold(t) ==
    /\ ~m_mark_threshold
    /\ INCREMENTAL
    /\ 10 * (m_heap_size + Size(t)) > 6 * m_heap_limit

\* The size was checked; it is added when gc() returned and the lock is back.
Launch(t) ==
    /\ At(t, "ask")
    /\ m_heap_size + Size(t) <= m_heap_limit
    /\ PassesThreshold(t)
    /\ m_mark_threshold' = TRUE
    /\ opt' = [opt EXCEPT ![t] = "LAUNCH"]
    /\ Goto(t, "gc_lock")
    /\ UNCHANGED <<m_heap_size, m_heap_limit, m_phase, heap, locks, kind, building,
                   attempt, retried, crashed>>

\* The allocator has its block: a pool links it, the large-object allocator
\* inserts it in its list, unlocks, and makes a descriptor in it.
Receive(t) ==
    /\ attempt' = [attempt EXCEPT ![t] = 0]
    /\ retried' = [retried EXCEPT ![t] = FALSE]
    /\ UnlockLo(t)
    /\ Goto(t, "run")
    /\ IF kind[t] = "pool"
         THEN /\ pools' = [pools EXCEPT ![t] = @ + 1]
              /\ building' = [building EXCEPT ![t] = Append(@, None)]
              /\ UNCHANGED descrs
         ELSE \E o \in LargeObjects \ list :
              /\ descrs' = [x \in list \cup {o} |->
                    IF x = o THEN NewObjectDescriptor(large_size) ELSE descrs[x]]
              /\ building' = [building EXCEPT ![t] = Append(@, o)]
              /\ UNCHANGED pools
    /\ UNCHANGED <<m_heap_limit, m_mark_threshold, m_phase, reach, gcMutex,
                   kind, opt, crashed>>

\* Mutation: a block granted after a launch is not counted.
Grant_LaunchUncounted(t) ==
    /\ \/ At(t, "grant")
       \/ /\ At(t, "ask")
          /\ m_heap_size + Size(t) <= m_heap_limit
          /\ ~PassesThreshold(t)
    /\ m_heap_size' = m_heap_size + (IF pc[t] = "grant" THEN 0 ELSE Size(t))
    /\ Receive(t)

Grant(t) ==
    /\ \/ At(t, "grant")
       \/ /\ At(t, "ask")
          /\ m_heap_size + Size(t) <= m_heap_limit
          /\ ~PassesThreshold(t)
    /\ m_heap_size' = m_heap_size + Size(t)
    /\ Receive(t)

\* No block, but a pool that has blocks may have a free cell.
Freelist(t) ==
    /\ At(t, "null")
    /\ kind[t] = "pool"
    /\ pools[t] > 0
    /\ attempt' = [attempt EXCEPT ![t] = 0]
    /\ retried' = [retried EXCEPT ![t] = FALSE]
    /\ building' = [building EXCEPT ![t] = Append(@, None)]
    /\ Goto(t, "run")
    /\ UNCHANGED <<core, m_phase, heap, locks, kind, opt, crashed>>

\* Both allocators then collect, expand the limit, and give up.
LaunchCollect(t) ==
    /\ At(t, "null")
    /\ attempt[t] = 0
    /\ opt' = [opt EXCEPT ![t] = "COLLECT"]
    /\ Goto(t, "gc_lock")
    /\ UNCHANGED <<core, m_phase, heap, locks, kind, building, attempt, retried, crashed>>

Least(a, b) == IF a <= b THEN a ELSE b

\* Mutation: the limit grows past the maximum.
ExpandHeap_NoMax(t) ==
    /\ At(t, "null")
    /\ attempt[t] = 1
    /\ m_heap_limit' = 2 * m_heap_limit
    /\ m_mark_threshold' = FALSE
    /\ attempt' = [attempt EXCEPT ![t] = 2]
    /\ Goto(t, Ask(t))
    /\ UNCHANGED <<m_heap_size, m_phase, heap, locks, kind, building, retried, opt, crashed>>

ExpandHeap(t) ==
    /\ At(t, "null")
    /\ attempt[t] = 1
    /\ m_heap_limit' = Least(2 * m_heap_limit, MaxLimit)
    /\ m_mark_threshold' = FALSE
    /\ attempt' = [attempt EXCEPT ![t] = 2]
    /\ Goto(t, Ask(t))
    /\ UNCHANGED <<m_heap_size, m_phase, heap, locks, kind, building, retried, opt, crashed>>

\* gc_bad_alloc; gc_cms::allocate asks again once.
BadAlloc(t) ==
    /\ At(t, "null")
    /\ attempt[t] = 2
    /\ attempt' = [attempt EXCEPT ![t] = 0]
    /\ LET again == INCREMENTAL /\ ~retried[t] IN
       /\ retried' = [retried EXCEPT ![t] = again]
       /\ Goto(t, IF again THEN Ask(t) ELSE "run")
    /\ UNCHANGED <<core, m_phase, heap, locks, kind, building, opt, crashed>>

Commit(t) ==
    /\ At(t, "run")
    /\ building[t] # <<>>
    /\ descrs' = [o \in list |-> IF o = Last(building[t]) THEN CommitObject(descrs[o])
                                                        ELSE descrs[o]]
    /\ reach' = reach \cup ({Last(building[t])} \ {None})
    /\ building' = [building EXCEPT ![t] = Front(@)]
    /\ UNCHANGED <<core, m_phase, pools, locks, pc, kind, attempt, retried, opt, crashed>>

\* The constructor threw: gc_core::abort.
Abort(t) ==
    /\ ConstructorsThrow
    /\ At(t, "run")
    /\ building[t] # <<>>
    /\ building' = [building EXCEPT ![t] = Front(@)]
    /\ UNCHANGED <<core, m_phase, heap, locks, pc, kind, attempt, retried, opt, crashed>>

Lose(o) ==
    /\ ~crashed
    /\ o \in reach
    /\ reach' = reach \ {o}
    /\ UNCHANGED <<core, m_phase, pools, descrs, locks, local, crashed>>

-----------------------------------------------------------------------------
(* gc_core::gc                                                             *)

\* The program asks for a collection itself.
Gc(t) ==
    /\ At(t, "run")
    /\ kind' = [kind EXCEPT ![t] = "none"]
    /\ opt' = [opt EXCEPT ![t] = "COLLECT"]
    /\ Goto(t, "gc_lock")
    /\ UNCHANGED <<core, m_phase, heap, locks, building, attempt, retried, crashed>>

GcLock(t) ==
    /\ At(t, "gc_lock")
    /\ gcMutex = None
    /\ gcMutex' = t
    /\ Goto(t, "gc_run")
    /\ UNCHANGED <<core, m_phase, heap, loMutex, kind, building, attempt, retried, opt, crashed>>

\* Where gc() returns to: the core allocator, the allocator, or the program.
GcReturn(t) ==
    /\ gcMutex' = None
    /\ IF kind[t] = "none"
         THEN Goto(t, "run") /\ UNCHANGED attempt
         ELSE IF opt[t] = "LAUNCH"
                THEN Goto(t, "grant") /\ UNCHANGED attempt
                ELSE /\ Goto(t, Ask(t))
                     /\ attempt' = [attempt EXCEPT ![t] = 1]
    /\ UNCHANGED <<loMutex, kind, building, retried, opt>>

\* gc_new is one unsafe scope, with a safe one inside while it is in gc().
InUnsafeScope(t) == pc[t] # "gc_lock" /\ (pc[t] # "run" \/ building[t] # <<>>)
WorldStops(t) == \A u \in Threads \ {t} : ~InUnsafeScope(u)

\* Concurrent marking that runs already is not started again, and gc_serial
\* starts none; the world is not stopped for that.
GcLaunch(t) ==
    /\ At(t, "gc_run")
    /\ opt[t] = "LAUNCH"
    /\ IF m_phase = "IDLE"
         THEN WorldStops(t) /\ m_phase' = "MARK"
         ELSE UNCHANGED m_phase
    /\ GcReturn(t)
    /\ UNCHANGED <<core, heap, crashed>>

Building == (UNION {ToSet(building[t]) : t \in Threads}) \ {None}

\* What is marked when a collection sweeps, at least: what the program reaches
\* and what it constructs.
Marked == reach \cup Building

Collected(dead) == dead \subseteq list \ Marked

\* expand_heap as gc_heap::collect calls it: not at all, or by 1.4, or by 2.
Grown(numerator, denominator) ==
    Least((numerator * m_heap_limit) \div denominator, MaxLimit)

CollectsAlone(t) == At(t, "gc_run") /\ opt[t] = "COLLECT" /\ WorldStops(t)

\* gc_heap::collect destroys the large objects that are not marked and unmarks
\* the others, gives unused blocks of the pools back, expands the limit when
\* little was freed, and lets marking be launched again.  An object that was
\* never constructed, because its constructor threw, is not marked either: the
\* destructor of its type runs on its memory, and its block goes back.
GcCollect(t) ==
    /\ CollectsAlone(t)
    /\ \E dead \in SUBSET list, kept \in [Threads -> 0..Max({pools[u] : u \in Threads})] :
          /\ Collected(dead)
          /\ \A u \in Threads :
                kept[u] <= pools[u] /\ (None \in ToSet(building[u]) => kept[u] > 0)
          /\ descrs' = [o \in list \ dead |-> SetMark(descrs[o], FALSE)]
          /\ pools' = kept
          /\ LET freed == SumFunctionOnSet([o \in dead |-> DestroyedBlock(descrs[o])], dead)
                  + PoolBlk * SumFunctionOnSet([u \in Threads |-> pools[u] - kept[u]], Threads)
             IN
             /\ m_heap_size' = m_heap_size - freed
             /\ m_heap_limit' \in
                  {m_heap_limit} \cup
                  (IF freed * 100 < m_heap_size THEN {Grown(2, 1)} ELSE {}) \cup
                  (IF freed * 10 < m_heap_size THEN {Grown(7, 5)} ELSE {})
    /\ m_mark_threshold' = FALSE
    /\ m_phase' = "IDLE"
    /\ GcReturn(t)
    /\ UNCHANGED <<reach, crashed>>

\* No object of its type had been constructed when memory for it was asked for:
\* its box has no type, and destroy calls a function of a null pointer.  Which
\* types are known is left open.
GcCrash(t) ==
    /\ CollectsAlone(t)
    /\ \E o \in list : Collected({o}) /\ ~Finalizable(descrs[o])
    /\ crashed' = TRUE
    /\ UNCHANGED <<core, m_phase, heap, locks, local>>

-----------------------------------------------------------------------------

Inside(t) ==
    \/ Refuse(t) \/ Launch(t) \/ Grant(t)
    \/ Freelist(t) \/ LaunchCollect(t) \/ ExpandHeap(t) \/ BadAlloc(t)

GcRun(t) == GcLaunch(t) \/ GcCollect(t) \/ GcCrash(t)

\* Every step of a thread inside gc_new or gc(); one pc, one of these.
Inner(t) == Inside(t) \/ LockLo(t) \/ GcLock(t) \/ GcRun(t)

Constructed(t) == Commit(t) \/ Abort(t)

Next ==
    \/ \E t \in Threads :
          \/ \E k \in Kinds : GcNew(t, k)
          \/ Gc(t)
          \/ Inner(t)
          \/ Constructed(t)
    \/ \E o \in LargeObjects : Lose(o)

Spec == Init /\ [][Next]_vars

-----------------------------------------------------------------------------
(* Properties                                                              *)

\* m_heap_size is the size of the blocks the allocators hold, whatever ran
\* between the check of the limit and the addition.
HeapSizeExact ==
    m_heap_size = PoolBlk * SumFunctionOnSet(pools, Threads) + LargeBlk * Cardinality(list)

Granted == [t \in Threads |-> IF pc[t] = "grant" THEN Size(t) ELSE 0]

\* The limit can be passed only by blocks that were checked before a launch
\* and counted after it, one for each thread but the one that filled the heap;
\* and however often it grows, the limit never passes the maximum itself.
OvershootBounded ==
    /\ TypeOK
    /\ m_heap_size + SumFunctionOnSet(Granted, Threads)
         <= m_heap_limit + (Cardinality(Threads) - 1) * Max({PoolBlk, LargeBlk})

\* The thread that t cannot go on without: the owner of a mutex, or one in an
\* unsafe scope when t stops the world.
WaitsFor(t, u) ==
    \/ pc[t] = "lock" /\ loMutex = u
    \/ pc[t] = "gc_lock" /\ gcMutex = u
    \/ /\ pc[t] = "gc_run"
       /\ opt[t] = "COLLECT" \/ m_phase = "IDLE"
       /\ u # t /\ InUnsafeScope(u)

\* Threads that wait for one another, however many, with what mutexes and for
\* which collection: among them is one that launches concurrent marking of
\* gc_cms with the mutex of gc_lo_allocator, and one that waits for this mutex.
\* Collections for lack of memory, and those the program asks for, are in no
\* such circle.
DeadlockNeedsLaunch ==
    \A S \in (SUBSET Threads) \ {{}} :
        (\A t \in S : \E u \in S : WaitsFor(t, u)) =>
            \E t, u \in S : /\ loMutex = t /\ opt[t] = "LAUNCH" /\ pc[t] \in {"gc_lock", "gc_run"}
                           /\ pc[u] = "lock"
                           /\ INCREMENTAL

=============================================================================
