# allocgc in TLA+

allocgc (`allocgc/`, library `liballocgc`) is a precise garbage collector for
C++ built on smart pointers.  A program owns `gc_ptr` handles; the library knows
where they are, stops the program's threads with a signal, marks what the
handles reach, in part while the program runs, and frees the rest.

This directory models the library in TLA+, checks the models with TLC on small
instances and proves the central invariants with TLAPS.  `PROJECT.json` lists
components, runs, mutants, the source lines behind each definition, findings,
hazards and theorems.

Paths below: `threads/`, `collectors/`, `allocators/`, `utils/` stand for the
directories of that name under `allocgc/include/liballocgc/details` and
`allocgc/src/details`.

## 1. Inventory

| Component | State it keeps | Operations | Talks to |
|---|---|---|---|
| Deferred stop signal: `threads/pending_call`, `posix_signal`, `gc_unsafe_scope.hpp` | per thread: scope depth, pending flag, stack of saved depths | enter/leave unsafe scope, enter/leave safe scope, signal | kernel signals; every operation of the library that must not be stopped half-way |
| Stop-the-world: `threads/posix_stw_manager`, `ass_sync`, `world_snapshot.hpp` | threads signalled, threads suspended, stack ends, two pipes | suspend, wait for stop, wait for start, the signal handler | registry, deferred signal, collectors |
| Thread registry: `threads/gc_thread_manager`, `gc_thread_descriptor.hpp` | map of threads under a lock | register, deregister, snapshot | stop-the-world (holds the lock for the life of a snapshot) |
| Collector core: `collectors/gc_core.hpp`, `gc_cms`, `gc_serial` | phase, collector mutex | gc, allocate, commit, abort, wbarrier, pin, register handle/thread | everything below |
| Marker: `collectors/marker`, `packet_manager` | worker threads, roots packet, three packet pools | add_root, trace_remset, concurrent_mark, mark | remembered set, heap |
| Remembered set: `collectors/remset` | one store buffer per thread, hash table | add, flush, get, iterate, clear | write barrier, marker |
| Heap: `gc_heap`, `allocators/gc_core_allocator`, `freelist_allocator.hpp`, `bucket_allocator.hpp`, `gc_pool_allocator`, `gc_pool_descriptor`, `gc_lo_allocator`, `gc_object_descriptor`, `gc_so_allocator` | blocks, mark/init/pin bits, free lists, sizes and limit | allocate, collect, shrink, finalize, expand | collector (launches it when a limit is hit), memory index |
| Memory index: `allocators/index_tree`, `memory_index` | lock-free page table | index, deindex, lookup | allocators, marker, write barrier |
| Pins and roots: `collectors/pin_set`, `static_root_set`, `stack_bitmap` | per thread a stack and a list of pins and a bitmap of its stack, global root set | register, deregister, trace | gc_ptr, collector |
| Objects under construction: `gc_new.hpp`, `collectors/gc_new_stack`, `gc_type_meta.hpp` | stack of uninitialised objects, type metadata | allocate, register child, commit, abort | collector |
| Compaction: `compacting/` | forward pointers in cells | compact, forward | pool allocator (disabled in this commit) |
| Thread pool: `utils/static_thread_pool.hpp`, `barrier.hpp` | task queue, counters | run, stop | pool allocator |

What is hard here.  The stop signal may arrive between any two instructions of
a thread.  Threads register, end, enter unsafe scopes and ask for collections
while another collection runs.  The worker threads of the marker are *not*
managed: they run on while the world is stopped and while the program moves
pointers behind them.  Termination of marking is decided by counting packets.
Collections are launched from inside the allocator, with locks held.  The code
has no crash recovery and no message loss; what can go wrong is order.

For each component, what makes it correct:

* deferred signal - the handler runs exactly once per signal and never inside
  an unsafe scope; safe scopes restore the depth they took away;
* stop-the-world - a snapshot exists only in a stopped world; a cycle leaves
  nothing behind; nobody is stopped while holding a lock the collector needs;
  collections end;
* collector - no object the program can name is freed; handles are not changed;
  everything reachable is marked when marking ends; nothing of one cycle
  survives into the next;
* marker and packets - no packet is lost; marking ends, and only with nothing
  left to trace; exhaustion is reported;
* core allocator and heap - the accounted size is that of the blocks in use,
  the limit is passed by no more than concurrent launches explain, blocks have
  one owner and the size that was asked for;
* pool and large-object allocators - a cell or block has one object at a time,
  destroyed once and only when lost; no cell is lost for good; a pointer into a
  cell finds it;
* index - calls take effect at one instant on their own page; lookups find what
  is indexed;
* pins and roots - the set holds one pin for each guard; no pinned object is
  freed in whatever place the thread is stopped; a registered root is traced;
* construction - the metadata of a type says where its members are, whoever
  finds out; collections inside constructors free nothing that is in use;
* compaction - handles find their objects, pinned objects stay;
* thread pool - each task is executed once before `run` returns, and it returns.

## 2. Plan

Order of writing, most important behaviour first.

Done:

1. `DeferredCall` (abstract), `PendingCall`.
2. `World` (abstract), `StopTheWorld`, `StopTheWorldProofs` about both.  It
   takes the deferral of the signal as `DeferredCall` gives it.
3. `ManagedHeap` (abstract), `ConcurrentMark`, `ConcurrentMarkProofs`.  It takes
   the stop of the world as `World` gives it.
4. `TaskRun` (abstract), `StaticThreadPool`, `StaticThreadPoolProofs`.
5. `CellStore` (abstract); `Bitset`, `PoolDescriptor`, `PoolAllocator` over the
   descriptor, `PoolAllocatorProofs` about all three.
6. `SizeClasses`; `ObjectDescriptor`, `HeapLimit`: core allocator, large-object
   allocator, heap front end, over `World`; `HeapLimitProofs` about the sizes,
   the limit and the deadlock.
7. `PageMap` (abstract), `IndexTree`, `IndexTreeProofs`.
8. `BlockList`, `NodePool`, `PinSet`: the pins down to the blocks their nodes
   come from; `PinSetProofs` about all three.
9. `ObjectConstruction`: `gc_new`, type metadata, registration of handles and
   the serial collector; it implements `CellStore`; `ObjectConstructionProofs`.
10. `StackBitmap` and `TwoFinger`, proved about in `PoolAllocatorProofs` (the
    bitmap with the other bitsets, the compactor over the cells of a chunk), and
    `PageCache`, proved about in `HeapLimitProofs` with the sizes it hands out.

To do:

11. The map of TLABs, composed with the registry and the index.

## 3. Modules

### PendingCall and DeferredCall

One thread, and the signal.  The object is `thread_local`, so the only
concurrency is the kernel's: each atomic load and store of `pending_call.cpp` is
an action (`LeavePendingLoad`, `LeavePendingStore`, ...), and the handler may
come between any two.  `call_pc` is the thread's position, `call_hpc` the handler's,
`reg` the local of the running function, `open` the C++ scope objects alive on
the stack - the truth that `m_depth` and `m_depth_stack` have to agree with.
How deep safe scopes nest is a constant of its own, `MaxSafe`: the code asserts
that `m_depth_stack` has room (`pending_call.cpp:39`), and that it has is due to
the callers, of which there is one, `gc_core::gc`; `MaxSafeAssumption` says so
(in the code `MaxSafe` is 1 and the stack has 8 places).  The rest of the code's
asserts are properties.  `Send` sends no second signal while one is outstanding:
that is what `stw_manager` does, and `StopTheWorld!NoNestedHandler` with
`CleanBetweenCycles` shows it.

`DeferredCall` is the promise to the outside: a signal is owed until exactly
one call answers it, and calls start only when the thread is not deferring.

### StopTheWorld and World

All threads, the registry, the handler step by step and the pipes as byte
counts.  The handler's last notification (`HandlerDepart`) and its return
(`HandlerLeave`) are two steps: between them the cycle may end and the next one
signal the thread.  The kernel masks the signal while it runs the handler
(`masked`), but not when `call_if_pended` called it: then a second handler starts
on top of the first, which `under` remembers.  Entering and leaving a scope and answering the signal are one step
each, which `PendingCall` justifies.  `BarrierRead` and `EventWrite` move any
number of bytes up to `BUF_SIZE`, as `read` and `write` may.  Errors of the
system calls are logged and retried in the code and are not modelled.  The
exception of `world_snapshot`'s constructor cannot be thrown because `gc_core::gc`
opens a safe scope first; `TakeSnapshot` keeps its condition as a guard.

`World` is what a collection relies on: the world stops at one instant at which
no other managed thread is inside an unsafe scope, and nothing of it moves until
it starts.

### ConcurrentMark and ManagedHeap

`gc_cms` with the marker, the packets and the remembered set.

* *Mutators* (`Mutator(t)`): `GcNew`, the write barrier in two steps
  (`WbarrierStore`, then `WbarrierShade`, because workers read members between
  the two), `Pin`, `Unpin`, and `Gc` of either kind.  Handles outside the heap
  (`Roots`) are shared by the mutators, more than the code's thread-local stack
  roots allow.  A member handle can be reached only through a pinned object.
  `gc_new` is one step: it is inside one unsafe scope, so no pause can see it
  half-way, and workers see the object only through a handle.
* *Collector*: the path of `gc_cms::start_marking_phase` and `sweep` (`cpc`),
  with loops that visit the set `todo` in any order.  It stops the world as
  `World` says: when no other mutator is between the steps of its barrier.
* *Workers* (`Worker(w)`): `marker::worker_routine` with `wpc` naming the place;
  `Main` is the collecting thread running it.  `marker::trace` is two steps,
  since `get_mark` and `set_mark` are.
* *Packets*: each pool is a stack of packets, with the exact pool order, sizes
  and the two ways of finding an output packet.  Pools have one lock each;
  popping "full, else partial" is one step here.
* A dereferenced null packet sets `undefined`, after which the process takes no
  step.
* *Sweep* (`Collect`): all that is not marked is freed, reachable or not.  The
  history variable `lost` records which objects it freed although the program
  reaches them by way of a handle that a cast made (`LostToCasts`); the handles
  dangle from then on, and the execution ends there.

`ManagedHeap` is the promise to the program: handles hold what was put in them,
objects are freed only when nothing that survives designates them.  What the
program can reach is the least set closed under members (`ReachFrom`).

* *Casts* (`Cast`): the cast functions of `gc_cast.hpp` and the conversions of
  `gc_ptr` take the address out of one handle and make another handle of it
  with no barrier.  What a cast designates is kept in the history variable
  `casts`.  `cpc = "collect" => Accessible \subseteq mark`, without exception, is
  violated in the bounds of the run `ConcurrentMark`; `AccessibleIsMarked`, `NoDanglingPointer` and
  `FreesOnlyGarbage` say that nothing is lost but what a cast made a handle to
  while no marker had seen it, and what that leads to.

Left out: compaction (disabled in `is_compaction_required`), tracing of objects
under construction (it is in `ObjectConstruction`), `m_done` (set by the
destructor only).

### StaticThreadPool and TaskRun

The owner (`mpc`) and the workers (`pc`).  A critical section of `m_mutex` is a
step.  Waiting is `pc` plus the set `awake` of those that were notified or woke
for no reason and have not looked at their predicate; a notification adds all
waiters, a look removes one.  `share` is `tasks_per_worker`, `worker_tasks` what
is left of the vector, taken from the end of `m_tasks`.  The number of workers
N is chosen at the start; with N = 0 the owner executes the tasks itself.
`TaskRun` is the promise of `run`: every task is executed once, and `run`
returns after the last.

`caught` is the set of workers under which `run` reset the count of completed
tasks while they had still to look at the end of the previous run.  Such a
worker waits for the new count with its share of the new tasks in the queue,
and `run` waits for the worker: a second `run` on one pool may never return.
`RunReturns` claims the return in all other cases.  `gc_heap::collect` runs one
pool once for every TLAB.

### PoolAllocator, PoolDescriptor, Bitset and CellStore

One thread's allocator for one cell size, with `gc_new` around it: `pc` is the
place in `allocate`, `news` the stack of nested constructors.  Blocks have
addresses and a descriptor each: `PoolDescriptor` maps addresses to cells and
keeps mark, init and pin bits in bitsets, and `Bitset` does what the code does
to words, masks included, so that a wrong index or an unmasked tail would be
seen.  Collections of this thread and of others are single steps (the world is
stopped), possible where `World` allows them: between two outermost `gc_new`s,
or while this thread waits in `gc()`.  What marking marked is any set
(`Markings`) that contains what is reachable or under construction and nothing
that is neither an object nor under construction.  The order of the free list
is that of the sweep: `SweepChunk` folds over the cells of a block, `Swept` over
the blocks, and `Used` is what `shrink` leaves of the list of descriptors.

`CellStore` is the promise to `gc_new`: one object per cell at a time, destroyed
once, and only when lost.

### SizeClasses

The arithmetic between a size that is asked for and the block that is mapped:
size classes, chunks, buckets of the core allocator, headers of large objects.
Pure operators with the constants of the code, proved about in
`HeapLimitProofs`; `PageCache`, `ObjectDescriptor` and `HeapLimit` use them.

### HeapLimit

All threads, `gc_core_allocator` with its limit and its threshold, the mutexes
of `gc_core` and `gc_lo_allocator`, the order of attempts that pool and
large-object allocators share (ask; collect; expand; fail; `gc_cms` retries
once).  `Refuse`, `Launch` and `Grant` are the three ways through
`increase_heap_size`; after `Launch` the size is added when `gc()` returned
(pc "grant"), without a second look.  A collection waits, in `gc_run`, until
every other thread is outside its unsafe scope; that is where a thread that
waits for a mutex inside its scope is never stopped.  Large objects have an
`ObjectDescriptor` each, the record of its size, mark, init and pin bit, in
`descrs`; a pool is a number of blocks.  Sizes are bytes and go through
`SizeClasses`.  What a collection frees is any set of garbage and unused blocks.
The list of large objects keeps those whose constructor threw, and a collection
destroys them as all that is not marked (`GcCollect`): their destructor runs on
memory that was never constructed.  If no object of the
type had been constructed when memory was asked for, the box has no type and
the program ends (`GcCrash`, `crashed`).

`WaitsFor` is the wait of one thread for another, at a mutex or for an unsafe
scope to end.  Threads that all wait for one another exist in the code;
`DeadlockNeedsLaunch` says that they do only around a launch of
concurrent marking with the mutex of the large-object allocator.  The maximum of
the limit is `SIZE_MAX` in the code, so that the second half of
`OvershootBounded` matters only to a heap that could be given a smaller one.

### PageCache

Where the core allocator has its blocks from, past the limit: for each number of
pages a bucket with its `freelist_allocator`, `m_freelist` for larger blocks,
and the operating system.  A free list is the set of its blocks with their
sizes.  The buckets never give anything back and `m_freelist` is never asked:
`shrink` unmaps what is in it at the end of a collection.  So the limit bounds
what is in use, not what is mapped.  It holds one mutex throughout, so that
operations are single steps; no run explores it, `HeapLimitProofs` proves its
invariant for all sizes.

### IndexTree and PageMap

The lock-free table of pages.  A page is the sequence of indices
`splitter::split` makes of an address; the constants fix the number of levels
(three in the code) and the indices of a table.  `m_ptr` and `m_cnt` are the
handles of all tables; `at` is the recursion of `internal_level::index`,
`remove_index` and `get`, one table per call on the stack.  Every atomic
operation on a shared table is an action.  A table that has not been published
is filled in one step (`CreateLevel`), since nobody else sees it.  When the
compare and swap is lost, `PublishLate` destroys the table that lost, and the
tables below it stay in the pool for ever, as in the code.

The program indexes a page that is not indexed and removes one that is, one
operation per page at a time: blocks belong to one allocator, a stack to one
thread.  A page is not removed while somebody works with an object on it
(`known`); all other lookups may meet removals.  A thread that is left in a table
that was destroyed works on freed memory: there the execution ends (`Stray`,
`undefined`).

Nothing in the code keeps an adder from counting its page in a table that a
remover is about to unlink (the count has fallen to zero, the table is still in
its parent).  The adder goes on and indexes its page there, and the page goes
with the table.  The history variable `lost` records the page at the step that
goes into such a table (`EntersDoomed`); the threads run on, except that no
further page is indexed (a bound), lookups no longer find the page, and its
removal meets `null()`.  `TreeSound` and `KeepsIndex`
state what holds as long as this has not happened.

`PageMap` is the promise to the users: calls take effect at an instant, on their
own page only.

### PinSet, NodePool and BlockList

What `gc_untyped_ptr`'s guards do to the pins of their thread.  Pins of
`operator->` go to `pin_stack`, of fixed capacity, and to the list when it is
full; the others to the list.  A pin is taken inside an unsafe scope and dropped
outside of one, so that every store of `remove_first`, `pop_pin` and
`destroy_node` is an action and a collection (`Collect`) may come between any
two.  The stores are relaxed; they are kept in program order, because the
collector reads them after the thread ran its signal handler.  Nodes come from
`NodePool` (`pool_allocator` over chunks of `freelist_pool_chunk`), chunks and
their descriptors from `BlockList` (`list_allocator` over `default_allocator`),
each node in the chunk it came from.  A chunk gives cells again only through
its own free list.  `Walk` follows the links of a list, from the head, past the
nodes it has `Met`: the list is what a loop of the code would see, not a
sequence beside it.  A loop that reads (`remove_first`'s search, the iteration
of a trace) is one step: the thread that could change the list is the one that
searches, or is stopped.

`default_allocator::mem_allocated` is a plain static that threads change without
a lock; it counts, and nothing reads it but statistics, so that it is left out.

### ObjectConstruction

Threads that construct objects and arrays of types whose layout is not known
before the first construction.  `news` is `gc_new_stack` of each thread;
constructing an object registers its members one by one (`ConstructMember`), in
the middle of which the constructor may call `gc_new`, throw, or have a
collection run.  What a collection can reach is the least set closed under the
offsets it follows (`Closure`).  A handle finds out by itself what it is - on the stack, in a
cell, or in static memory - as `register_handle` does.  `request` is the answer
of `gc_type_meta_factory::get` with which memory is asked for; `Create`
publishes the offsets by compare and swap, and a thread that loses traces with
what the winner published.  A collection is one step of `gc_serial`: it marks
from roots and from the words of objects under construction, and what is not
marked is destroyed.  `trace_uninit` looks every word of an object under
construction up, whatever it is (`gc_core.hpp:337`).  For null and for data there
is no descriptor, and the program ends (`Crash`, `crashed`): so end nearly all
collections inside a constructor, since members that are not constructed yet are
null.  The collections that go through are
those between constructors, and those inside one that find the address of a cell
in every word of every object under construction: arrays and objects whose words
were all filled before the constructor of a later element, or the body of the
constructor, allocates, data included that happens to be an address
(`ConstructData`).

`CellStore` is the promise here as well; it is claimed of the collections that go
through.

### StackBitmap

Which words of a stack are handles, as functions on bitmaps; proved about only,
in `PoolAllocatorProofs`.
A stack that is not a whole number of frames has words at its end without a bit.

### TwoFinger

`two_finger_compactor` turn by turn, over the tags of any number of cells, and
the pass over the handles.  `gc_pool_allocator::compact` repeats it word for
word, and never runs in this commit.  `PastEnd` is what happens when every cell
is marked: the loop reads the tag of the cell behind the last, and finalizes it
if that happens to say garbage.  Garbage behind the place where the fingers meet
is not finalized, and free cells do not come back to the free list, until the
next collection; no property is stated of that.

## 4. Runs

| Run | Bounds | Shows |
|---|---|---|
| `PendingCall` | depth stack of 2, at most 2 nested unsafe scopes | all properties of the deferral, refinement of `DeferredCall`, every signal answered |
| `StopTheWorld` | 3 threads, pipe buffer smaller than the number of threads | safety and refinement of `World` |
| `StopTheWorldLive` | 2 threads | collections end, threads resume |
| `ConcurrentMark` | 2 objects, 1 member, 1 root, 2 mutators, worker + main, packets of 2, 5 packets, store buffer of 1 | safety and refinement of `ManagedHeap` |
| `ConcurrentMarkLive` | 2 objects, 1 mutator, packets of 1, POP_REMSET_COUNT 1 | pauses end when workers drain the remembered set |
| `ConcurrentMarkRemset` | 2 roots, POP_REMSET_COUNT 1 | *violation*: an entry drained by a worker is never marked |
| `StaticThreadPool` | 0 to 3 workers, up to 4 tasks, 2 calls of `run` | shares partition the tasks, each is executed once before `run` returns, `run` returns unless it caught a worker, the destructor ends |
| `PoolAllocator` | 2 blocks of 2 cells, bitsets of 2 words, constructors nested 2 deep | every cell accounted for, bits and blocks agree with the program, refinement of `CellStore` |
| `HeapLimit` | 2 threads, objects of 16 and 8000 bytes, limit of 2 pages that may grow to 4, 4 large objects, incremental, constructors may throw | sizes exact, overshoot bounded, threads wait in a circle only around a launch with the large-object mutex |
| `IndexTree` | 3 levels, 3 pages sharing tables on two levels, 2 threads, 4 tables | counts, tables and lookups agree until a page is lost; refinement of `PageMap` up to there |
| `PinSet` | 2 objects, 2 guards and 3 nested ones, stack of 2, chunks of 2 cells, 3 blocks | no pinned object freed, pins exact, nodes and chunks sound, assertions hold |
| `ObjectConstruction` | 2 threads, 2 cells, 2 types of 1 and 2 words, an array of 2, constructors nested 2 deep, 1 static handle | metadata exact, refinement of `CellStore` |

Why the bounds are enough.  A depth stack of 2 fills and unwinds.  Three threads
are a collector, a thread that is stopped and one that arrives late, and the
smallest buffer makes reads split.  Two objects, a root and a member are the
smallest heap in which a pointer can move from unvisited to visited territory.
Full, partial and empty packets, and a full store buffer, all occur.  Three
workers and four tasks make shares of different sizes, with fewer tasks than
workers also workers without a share; a second call meets workers in all places
of the first.  Two blocks of two cells give a bump region, a free list across
blocks and a block to shrink; words of one bit make every bitset span words.  An
object of 8000 bytes takes two pages with its headers and a small block one, so
that limits of 2 to 4 pages give a refusal, a launch, an expansion and a
failure.  Three pages, two in one last table and one beside it, make tables that
go with one page, with two, and in cascade; four tables leave room for both of
two racing creations.  A stack of two pins overflows into the list with the
third; two guards that end in any order unlink from the middle; chunks of two
cells fill, become unused and are given back.  Two cells and constructors two
deep are a parent whose constructor makes a child, in either type, with a second
thread racing for the metadata; the type of two words has its member behind
data.  POP_REMSET_COUNT is 16 in the code; the safety run takes 0, which keeps
all entries for the pause, because with any positive value the finding of
`ConcurrentMarkRemset` violates `AccessibleIsMarked` and hides everything else.

The finding, a violation run:

* `AccessibleIsMarked`, `marker.cpp:83`: an entry of the remembered set that a
  worker takes is queued without its mark, and swept while it is reachable.

Defects that the passing runs go through: the model does what the code does, and
the properties except, by name, what comes of it.  Asked for the formula at the
end of the entry as an invariant, TLC shows how the code gets there:

* `gc_cast.hpp:14`: a cast makes a handle without a barrier; if it is made while
  marking, and the handle it was made of goes, what it holds is swept while it is
  reachable - `ConcurrentMark`, `lost = {}`;
* `index_tree.hpp:203`: between the count's fall to zero and the unlinking of
  the table a page can be indexed below it, and is lost - `IndexTree`,
  `RemovesIndexed`;
* `gc_core.hpp:337`: every word of an object under construction is looked up,
  null included, which `memory_descriptor.hpp:59` asserts not to happen -
  `ObjectConstruction`, `~crashed`;
* `gc_lo_allocator.cpp:128`: a collection may be launched with the mutex of the
  large-object allocator held; a thread that waits for this mutex inside its
  unsafe scope is never stopped, and both wait for ever - `HeapLimit`,
  `\A t, u \in Threads : ~(WaitsFor(t, u) /\ WaitsFor(u, t))`;
* `gc_lo_allocator.cpp:119`: a large object whose constructor threw is finalized,
  which `gc_object_descriptor.cpp:151` asserts not to happen - `HeapLimit`, as a
  property, `[][\A o \in list \ list' : Finalizable(descrs[o])]_vars`;
* `static_thread_pool.hpp:61`: the counter is reset under a worker that still
  waits for it, and the next `run` may never return - `StaticThreadPool`, as a
  property, `mpc = "run" ~> mpc = "idle"`.

Met on the way:

* `marker.cpp:30`: the iteration over the remembered set without its lock;
* `marker.cpp:143`: the null packet that is pushed when packets run out;
* `gc_core.hpp:40`: objects of 4081 to 4096 bytes have no size class;
* `gc_object_descriptor.cpp:161`: `check_ptr` rejects the last 16 bytes of a
  large object;
* `gc_ptr.hpp:156`: the offset to a base class is computed once, perhaps from a
  null handle, and null handles are advanced too;
* `gc_ptr.hpp`, the array pointer: one past the end of an array that fills its
  cell designates the next cell; and `gc_new.hpp` for an array of length 0
  constructs one element;
* `gc_pool_allocator.cpp:271`: `compact` reads past the last cell (`PastEnd`).

Fairness.  `PendingCall`: weak fairness of the handler and of steps inside a
function already entered; no scope need be opened or closed, `SignalsAnswered`
assumes that the thread comes out of its scopes.  `StopTheWorld`: weak fairness
of handler, registry and collector steps of each thread (threads are scheduled,
std::mutex is taken as weakly fair), and unsafe scopes are left, outermost ones
with strong fairness since a pending signal interrupts them.
`ConcurrentMark`: weak fairness of the collecting thread, each barrier's second
step and each worker; no mutator need allocate, store or collect.
`StaticThreadPool`: weak fairness of each thread's steps under the lock, none of
spurious wake-ups.  All other runs are for safety only.  `HeapLimit` may
deadlock, at the mutex named above; the runs that set `undefined`, `crashed` or
`failed`, that lose an object to a cast, and those whose program ends, may stop
as well.

Each property has a mutant, a plausible slip in one action that TLC must find.

## 5. Proofs

A proof module holds an inductive invariant, the lemmas that each action keeps
it, and the theorems that follow; some hold a second one, of a smaller component
of the same part.  `PROJECT.json` lists the theorems.

### Threads

`StopTheWorldProofs` has two parts.  About `PendingCall`: the inductive invariant
(`CallInv`) says, for each value of `call_pc`, how `m_depth`, `reg`, the flag and
the saved depths relate to the scopes that are open; it is needed because inside
a function they disagree in a known way.  From it: `CallTypes`,
`HandlerOutsideUnsafe`, `DepthsCorrect`, `NothingForgotten`, and `CallRefinement`
of `DeferredCall`.

About `StopTheWorld`: the inductive invariant counts.  Bytes in the barrier
pipe, bytes read so far and handlers still to arrive (or to depart) add up to
the threads signalled, in each phase of the collecting thread; at most one
thread is in a collecting phase and it holds both locks.  From it follow
`TypeCorrect`, `StoppedWorld`, `CleanCycles`, `HoldersRun`, `OneSignalAtATime`
and `Refinement` of `World`.  `StackEnds` needs more (`SlotInv`): while
the world is being stopped the handlers that were counted in number themselves
from zero without gaps, and those that published are found in their slots.

`StaticThreadPoolProofs`.  For any number of workers, tasks and calls.  With `c`
tasks and `n` workers a share is `c \div n` or one more, so the portion of a set
of workers is an expression in its cardinality (`Portion`) and no sum is needed:
the queue holds the portion of the workers that have not taken theirs, the
counter and the portion of those that have not reported add up to `c`.
`PoolTypeOK`, `PoolSharesPartitionTasks`, and `PoolRunsEveryTask`, the
refinement of `TaskRun`.

### Marking

`ConcurrentMarkProofs`, for any heap, any mutators and workers, packets of any
size and number.  `IInv` is the accounting: every packet is in a pool or in
hands that the program counters name; who is at work in which phase; store
buffers and the remembered set belong to the marking that goes on; once the
collecting thread has seen all packets empty they stay so.  It gives
`TypeCorrect`, `PacketsKept`, `MarkingEnds` and `CleanBetweenCycles`, for every
value of `POP_REMSET_COUNT`.

Safety needs the tri-colour invariant on top of it (`Tricolour`): a member of a
marked cell points to a marked cell, or to one that is remembered (in the table,
in a store buffer, or between the two steps of the barrier) or was just loaded
by a worker, unless the cell waits in a packet or is being traced (`BlackEdges`);
the same of roots that were traced, but for what a cast leads to
(`RootsKnown`); pins (`PinsKnown`); and what the collecting thread has passed in
the table is marked (`TableKnown`).  From it `NothingDangles`,
`AllAccessibleMarked` and `OnlyGarbageFreed`, the refinement of `ManagedHeap`.

These three hold of the executions in which no worker takes an unmarked entry
out of the remembered set: they are stated for `Spec /\ [][TakesMarked]_vars`.
The condition is not a convenience.  The code breaks it, and the run
`ConcurrentMarkRemset` shows the reachable object that is then freed.  With
`POP_REMSET_COUNT` 0, as in the run `ConcurrentMark`, no worker takes an entry,
and the condition excludes nothing.  It is not all that is wrong: casts lose
objects too, with any `POP_REMSET_COUNT`, and the three theorems say so in their
properties.  No handle dangles but into what a sweep took from behind a cast; all
that is accessible is marked but what a cast hid; and a sweep frees garbage, and
besides only what casts hid (`LosesToCasts`).

### Allocators

`PoolAllocatorProofs`, from the bits up, for any blocks, cell sizes and nesting.
`set` and `reset` change one bit of a bitset in words of any width, `none` is
exact if the bits fill the words (`N % BLOCK_SIZE = 0`, as all bitsets of the
code do); from any address in a chunk the descriptor finds its cell and marks
that cell only.  A descriptor then stands for two sets of cells, `MarksOf` and
`ObjectsOf`, and the loops of the code - marking a set of cells, finalizing
garbage, sweeping a chunk and all chunks, shrinking - are folds whose effect on
these sets is proved by induction (`FoldInd`, `LeftFold`).  The inductive
invariant (`Placed`) says that every cell of the blocks is in one place: what is
in the free list or the bump region is not used, marked or under construction,
and what is in neither has an object, or one under construction, or had one
whose constructor threw.  It has to speak of the whole list and region, because
that the next cell is free must hold before it is the next; besides, no block
has two descriptors, and a call that waits has used up the bump region.  From it
`CellsKept`, `DescriptorsKept`, and `CellsUsedOnce`, the refinement of
`CellStore`.  In the same module `StackBitmap`: what is registered is traced,
what is deregistered is not, no other root changes, and every word of a stack of
whole frames has a bit.

`HeapLimitProofs`.  First the sizes, with the constants of the code: small
objects fit the smallest class that holds them but for the sixteen sizes without
a class, chunks and large blocks are whole pages with the bucket of their size,
every byte of a large object is indexed, and `check_ptr` rejects exactly its
tail.  Then the state machine, for any number of threads and objects.
`SizeExact` compares a counter with a sum over all blocks, `LimitKept` bounds
what concurrent launches add: the inductive invariant `Overshoot` charges to
each thread that was checked and has not added its size yet (`Owed`) what it is
about to add.  The lemmas about sums go by induction on the size of the set.
`OnlyLaunchesDeadlock` follows the waits: a thread that collects waits for one
inside an unsafe scope, which can itself wait only for the mutex of the large
objects; who holds that is about to get its block, or launches (`LockInv`).

In the same module `PageCache`, as the instance `Cache`.  `BlocksSound`: no
block has two owners or is lost, and each is mapped with the size the limit
counts.  The inductive invariant adds to this that blocks in a bucket have the
size of the bucket, without which a block taken from a free list could be of any
size (`BucketsExact`).  It assumes that no size is 0, as
`gc_core_allocator::allocate` asserts.

The compactor `TwoFinger` is in `PoolAllocatorProofs`, as the instance
`Compactor`.  `HandlesStay`, `CompactsInFront`, `ObjectsKept`, for any number of
cells and any tags and pins.  The inductive invariant says what the fingers have
left behind: below `to` every cell is held, above `from` nothing can be moved,
and forward pointers lead from above `from` to held cells not above `to`, so
that no cell that was left is a target again.

### Pins and construction

`PinSetProofs`, for any capacity of the stack, any number of objects, guards and
blocks, and chunks of any number of cells.  That a pinned object is not freed
(`PinsKeepLive`) and that what the set holds are the pins of the guards, each as
often as there are guards (`PinsAreExact`), depend on every link in memory.  The
inductive invariant has four parts.  *Lists*: the list of pins and the free list
of the nodes are paths (`Path`) that share no cell, and `Walk` of a path is the
path (`MetAlong`); pushing, popping and unlinking a cell keep it a path, of the
cells one expects (`PathPush`, `PathPop`, `PathRemove`).  *Places*: for each
value of `pc`, which node has left one list and not reached the other
(`Leaving`), so that every cell ever taken from a chunk is in one of three
places, and none in two.  *Stack*: the stack of pins is embedded in the sequence
of nested calls, in order (`Embedded`); the counts put the pins it does not have
in the list.  Without a repeated pin it has just the outermost calls, which is
why `remove_first` finds what it looks for (`PinsAreFound`: the assertion can
fail only when one object is pinned twice by nested calls across the full
stack).  *Counts*: pins and guards of an object are cardinalities of sets of
places, so that a step that moves one pin changes both sides alike.

`NodesAreSound` has an invariant of its own: the blocks of `BlockList`, linked
both ways, are the chunks, so that the loop that ends a thread meets every one.
That `DestroyPool` gives every block back is an induction on
the number of blocks given back, with the list that is left in closed form
(`Left`).

`ObjectConstructionProofs`, for any types, arrays, threads and cells.  `MetaExact`
- what is published of a type, by whichever thread, and what is in the box of
every object, are its size and the places of its members - needs what each entry
of a `gc_new_stack` knows: the offsets are those of the members of the first
element that were constructed so far (`OffsetsSoFar`), an entry that asked for
none finds them published, and entries have cells of their own.  It needs the
collector too: the box of a cell is right only as long as the cell is not freed
under the constructor.  So the invariant says that every handle that the program
can use, or that lies in an object, is null or points to an object (`PointerInv`).
A collection frees no such object: what is traced, from roots, from words of
objects under construction and by the offsets in the boxes, is exactly the least
closed set of what the program can reach (`ReachTraced`, `TraceExact`, from
`ReachLeast` and `ReachClosed`).  This gives `MetaIsExact` and
`CellsConstructedOnce`, the refinement of `CellStore`: an object is destroyed
once, and only when nothing reaches it.  A collection that meets a word which is
not the address of a cell in an object under construction ends the program and
destroys nothing; of these, most of those inside a constructor, the theorem has
nothing more to say.

### The index of pages

`IndexTreeProofs`, for any number of levels, threads and descriptors and any
finite set of pages.  `TreeIsSound`: a lookup finds what was indexed, a removal
finds its page, and at rest each count is the number of pages below the slot;
`IndexIsMap`: the tree is a map (`PageMap`).  The run sees three pages; the
difficulty is that while several recursions, at any depth, are on their way down
or up, no count agrees with the pages that are indexed.

The inductive invariant therefore charges the difference to the threads.  A page
is *counted* at a level from the step that adds it to the count there to the
step that takes it out, and *held* there from the step that goes into the table
below; where a thread is in its recursion says up to which level its page is one
and the other (`CountedTo`, `HeldTo`).  Then, in each state: the count of a slot
is the number of counted pages that go through it (`CountInv`); a table has a
page that is counted in it, or a thread about to unlink it, and the tables a
held page needs are there (`UsedInv`); links are between neighbouring levels
and no table is linked twice (`LinkInv`); what a thread remembers of its way is
still the path of its page (`AtInv`); the chain that a thread made and has not
published, and the table it has unlinked, are its own (`FreshInv`); and a table
that is about to be unlinked has only pages of threads that counted and have
not read the pointer yet (`DoomInv`).  A lookup is in a table of its page, in
one that was unlinked and is empty, or has left the tree (`ReadInv`).

A step that changes a slot moves the paths through that slot and no others
(`SlotChange`); the steps are grouped by that.  Those that leave every path
(`QuietStep`, `WorkStep`) have to show only what happens to their own page and
to one count; `AddStep` extends the path of one page, and `RemoveStep` cuts
paths that no page holds.  Every step is a step of the map or leaves it
(`StepMaps`): an unlinked table leads to no descriptor, since its page was taken
out of the last level before.  Both theorems claim something only as long as no
page was indexed below a table that is about to go (`lost`); the code does not
exclude that.  Neither speaks of what a thread does in a table
that was destroyed, where executions end (`Stray`).

### How, and how far

The proofs about state machines with constants assume only the named assumptions
on them: finite sets of threads, guards, cells, blocks and pages, `None` and null
pointers outside of what they are told apart from, positive sizes, members that
lie inside their type, blocks that start at pages and do not overlap, at most
`MAX_THREAD_NUM` threads, a limit that starts below the maximum.

The induction theorems of the library take an operator, which the provers cannot
instantiate.  The inductions here are on sets instead: the numbers for which a
fact holds are a set, and a least number outside of it is contradictory
(`NatInd`, from the well-foundedness of `Nat`).  That a fold of the community
modules exists at all - they choose a function that satisfies its recursion - is
proved first (`FoldExists`, `HasChain`); the same of the recursive functions of
`BlockList` and `NodePool`, whose values are known only along a path of which they
are the least in number (`LeastNumber`).

Only proved, with no run: `SizeClasses` but for what `HeapLimit` uses,
`StackBitmap`, `PageCache`, `TwoFinger`.

Only model-checked: liveness (`SignalsAnswered`, `CollectionEnds`,
`ThreadsResume`, `PauseEnds`, `RunReturns`, `PoolStops`), which the prover does
not handle under fairness.

## 6. Not modelled

* The map of TLABs in `gc_heap` and the thread that enters it.
* Compaction as a step of a collection: `is_compaction_required` returns false.
* `sys_allocator` when `mmap` fails: an assertion in a debug build, the use of
  `MAP_FAILED` in a release build.
* Comparison of handles and pointer arithmetic inside an object.
* `bitmap_pool_chunk`, `conservative_pin_set`, `conservative_stack` and the
  barrier of `utils/`: only tests and benchmarks use them.  (`pool` is used by
  `pin_set`, where `NodePool` models what it holds, and by `index_tree`, where
  taking a table from it is one step.)
* `dynarray`, the debugging and redirecting allocator adapters, logging,
  statistics: no control of their own.
* Benchmarks, tools and the earlier prototypes in `tmp/`.
