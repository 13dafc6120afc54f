--------------------------- MODULE ConcurrentMark ---------------------------
(***************************************************************************)
(* The collector gc_cms: the mutators' write barrier, allocation and pins, *)
(* the stop-the-world pauses that start and end a marking, the marker with *)
(* its worker threads, the packets they exchange and the remembered set.   *)
(*                                                                         *)
(* The world stops as module World specifies and StopTheWorld implements:  *)
(* at one instant at which no other mutator is inside an unsafe scope.     *)
(* The worker threads are not managed and never stop.                      *)
(***************************************************************************)
EXTENDS Integers, Sequences, FiniteSets

CONSTANTS
    Objects,            \* cells of the managed heap
    Fields,             \* the gc_ptr members of an object
    Roots,              \* handles outside the managed heap
    Mutators,           \* managed threads; any of them may collect
    Workers,            \* threads marker::concurrent_mark starts
    Main,               \* worker_routine as run by the collecting thread
    Null, NoPacket, None,
    SIZE,               \* mark_packet::SIZE (512)
    PACKETS_COUNT,      \* packet_manager::PACKETS_COUNT (256)
    SSB_SIZE,           \* sequential_store_buffer::SSB_SIZE (64)
    POP_REMSET_COUNT,   \* marker::POP_REMSET_COUNT (16)
    threads_available,  \* gc_core::m_threads_available
    MaxPins             \* bound on the pins a mutator holds

ASSUME HeapAssumption ==
    /\ IsFiniteSet(Objects) /\ IsFiniteSet(Fields) /\ IsFiniteSet(Roots)
    /\ Null \notin Objects
    /\ Roots \cap (Objects \X Fields) = {}
ASSUME ThreadAssumption ==
    /\ IsFiniteSet(Mutators) /\ None \notin Mutators
    /\ IsFiniteSet(Workers) /\ Main \notin Workers
    /\ threads_available \in Nat \ {0}
    /\ Cardinality(Workers) = IF threads_available = 1 THEN 1 ELSE threads_available - 1
ASSUME PacketAssumption ==
    /\ SIZE \in Nat \ {0}
    /\ PACKETS_COUNT \in Nat \ {0}
    /\ NoPacket \notin Seq(Objects)
ASSUME RemsetAssumption ==
    /\ SSB_SIZE \in Nat \ {0}
    /\ POP_REMSET_COUNT \in Nat
    /\ MaxPins \in Nat \ {0}

VARIABLES
    live,               \* objects whose m_init_bits bit is set
    ptr,                \* ptr[h]: what the gc_handle h holds
    pins,               \* pins[t]: objects thread t has pinned
    mark,               \* objects whose mark bit is set
    m_phase,            \* gc_cms::m_phase
    m_hashtable,        \* remset::m_hashtable
    ssb,                \* ssb[t]: the store buffer of thread t
    pool,               \* packet_manager: full and partial packets, empty count
    m_roots_packet,     \* marker::m_roots_packet
    remset_packet,      \* the local output_packet of marker::trace_remset
    casts,              \* objects a cast made a handle to while marking
    shading,            \* shading[t]: pointer t's write barrier has stored, or Null
    collector,          \* who is in gc_core::gc, or None
    cpc,                \* where the collecting thread is
    kind,               \* its gc_options::kind
    todo,               \* what the loop it runs has still to visit
    wpc,                \* wpc[w]: where worker w is
    input, output,      \* its packets
    cell,               \* cell[w]: the cell it traces
    fields,             \* fields[w]: members of the cell not visited yet
    loaded,             \* loaded[w]: unmarked object found, or Null
    taken,              \* taken[w]: remset entries taken in this round
    undefined,          \* a null packet was dereferenced
    lost                \* objects freed while the program reached them by way of a
                        \* handle a cast had made behind the markers

heapVars == <<live, ptr, pins>>
remsetVars == <<m_hashtable, ssb>>
collectorVars == <<m_roots_packet, remset_packet, collector, cpc, kind, todo>>
scanVars == <<cell, fields, loaded>>
workerVars == <<wpc, input, output, scanVars, taken>>
vars == <<heapVars, mark, m_phase, remsetVars, pool, casts, shading, collectorVars,
          workerVars, undefined, lost>>

Marking == Workers \cup {Main}   \* every thread that runs worker_routine
Handles == Roots \cup (Objects \X Fields)
Packets == (UNION {[1..n -> Objects] : n \in 0..SIZE}) \cup {NoPacket}

PausedPC == {"roots", "launch", "pins", "flush", "iterate", "clear", "mark",
             "work", "join", "collect"}
WorkerPC == {"off", "start", "remset", "retry", "push", "check", "again",
             "ready", "drain", "trace", "set", "swap"}

TypeOK ==
    /\ live \in SUBSET Objects
    /\ ptr \in [Handles -> Objects \cup {Null}]
    /\ pins \in [Mutators -> SUBSET Objects]
    /\ mark \in SUBSET Objects
    /\ m_phase \in {"IDLE", "MARK", "COLLECT"}
    /\ m_hashtable \in SUBSET Objects
    /\ ssb \in [Mutators -> Seq(Objects)]
    /\ \A t \in Mutators : Len(ssb[t]) <= SSB_SIZE
    /\ pool \in [full : Seq(Packets \ {NoPacket}), partial : Seq(Packets \ {NoPacket}),
                 empty : 0..PACKETS_COUNT]
    /\ m_roots_packet \in Packets
    /\ remset_packet \in Packets
    /\ casts \in SUBSET Objects
    /\ shading \in [Mutators -> Objects \cup {Null}]
    /\ collector \in Mutators \cup {None}
    /\ cpc \in {"idle", "stop"} \cup PausedPC
    /\ kind \in {"LAUNCH_CONCURRENT_MARK", "COLLECT"}
    /\ todo \in SUBSET (Roots \cup Objects)
    /\ wpc \in [Marking -> WorkerPC]
    /\ input \in [Marking -> Packets]
    /\ output \in [Marking -> Packets]
    /\ cell \in [Marking -> Objects \cup {Null}]
    /\ fields \in [Marking -> SUBSET Fields]
    /\ loaded \in [Marking -> Objects \cup {Null}]
    /\ taken \in [Marking -> 0..POP_REMSET_COUNT]
    /\ undefined \in BOOLEAN
    /\ lost \in SUBSET Objects

Init ==
    /\ live = {}
    /\ ptr = [h \in Handles |-> Null]
    /\ pins = [t \in Mutators |-> {}]
    /\ mark = {}
    /\ m_phase = "IDLE"
    /\ m_hashtable = {}
    /\ ssb = [t \in Mutators |-> <<>>]
    /\ pool = [full |-> <<>>, partial |-> <<>>, empty |-> PACKETS_COUNT]
    /\ m_roots_packet = NoPacket
    /\ remset_packet = NoPacket
    /\ casts = {}
    /\ shading = [t \in Mutators |-> Null]
    /\ collector = None
    /\ cpc = "idle"
    /\ kind = "COLLECT"
    /\ todo = {}
    /\ wpc = [w \in Marking |-> "off"]
    /\ input = [w \in Marking |-> NoPacket]
    /\ output = [w \in Marking |-> NoPacket]
    /\ cell = [w \in Marking |-> Null]
    /\ fields = [w \in Marking |-> {}]
    /\ loaded = [w \in Marking |-> Null]
    /\ taken = [w \in Marking |-> 0]
    /\ undefined = FALSE
    /\ lost = {}

-----------------------------------------------------------------------------
(* packet_manager and the marker's two ways of filling a packet.  Each pool *)
(* is a stack: the head of the sequence is m_head.                          *)

\* packet_manager::push_packet: a packet goes to the pool its size selects.
PushPacket(m, packet) ==
    CASE packet = <<>> -> [m EXCEPT !.empty = @ + 1]
      [] packet # <<>> /\ Len(packet) < SIZE \div 2 ->
             [m EXCEPT !.partial = <<packet>> \o @]
      [] OTHER -> [m EXCEPT !.full = <<packet>> \o @]

\* packet_manager::pop_input_packet and pop_output_packet: the packet, or
\* NoPacket, and the pools without it.
PopInput(m) ==
    CASE m.full # <<>> -> [packet |-> Head(m.full), rest |-> [m EXCEPT !.full = Tail(@)]]
      [] m.full = <<>> /\ m.partial # <<>> ->
             [packet |-> Head(m.partial), rest |-> [m EXCEPT !.partial = Tail(@)]]
      [] OTHER -> [packet |-> NoPacket, rest |-> m]

PopOutput(m) ==
    CASE m.empty > 0 -> [packet |-> <<>>, rest |-> [m EXCEPT !.empty = @ - 1]]
      [] m.empty = 0 /\ m.partial # <<>> ->
             [packet |-> Head(m.partial), rest |-> [m EXCEPT !.partial = Tail(@)]]
      [] OTHER -> [packet |-> NoPacket, rest |-> m]

IsNoInput(m) == m.empty = PACKETS_COUNT

\* Pushing o on a packet just popped; a null packet is dereferenced, which
\* the result shows by holding no packet.
PushOn(popped, o) ==
    [packet |-> IF popped.packet = NoPacket THEN NoPacket ELSE Append(popped.packet, o),
     rest |-> popped.rest]

\* marker::push_root_to_packet: a full packet is put back before the next is taken.
PushRoot(m, packet, o) ==
    CASE packet = NoPacket -> PushOn(PopOutput(m), o)
      [] packet # NoPacket /\ Len(packet) = SIZE -> PushOn(PopOutput(PushPacket(m, packet)), o)
      [] OTHER -> [packet |-> Append(packet, o), rest |-> m]

\* marker::push_to_packet: the next packet is taken before a full one is put
\* back, and when there is none the second attempt puts back a null packet.
PushToPacket(m, packet, o) ==
    LET next == PopOutput(m) IN
    IF packet # NoPacket /\ Len(packet) = SIZE
    THEN PushOn([next EXCEPT !.rest = PushPacket(@, packet)], o)
    ELSE PushOn([packet |-> packet, rest |-> m], o)

-----------------------------------------------------------------------------
(* Mutators.  A managed thread runs until the world stops and never while  *)
(* it is itself in gc_core::gc.                                            *)

Running(t) == ~undefined /\ lost = {} /\ collector # t /\ cpc \notin PausedPC

\* The handles t can reach with a C++ expression: variables, and members of
\* the objects it has pinned (gc_ptr::operator-> pins).
Held(t) == Roots \cup (pins[t] \X Fields)

\* Mutant: an object committed during marking is left white.
GcNew_White(t, o, r) ==
    /\ Running(t) /\ shading[t] = Null
    /\ o \notin live
    /\ ptr[r] = Null
    /\ live' = live \cup {o}
    /\ ptr' = [h \in Handles |->
                  CASE h = r -> o
                    [] h \in {o} \X Fields -> Null
                    [] OTHER -> ptr[h]]
    /\ UNCHANGED <<mark, pins, m_phase, remsetVars, pool, casts, lost, shading, collectorVars,
                   workerVars, undefined>>

\* gc_new into a fresh gc_ptr, all in one unsafe scope: allocate a free cell,
\* construct, commit, register the handle.
GcNew(t, o, r) ==
    /\ Running(t) /\ shading[t] = Null
    /\ o \notin live
    /\ ptr[r] = Null
    /\ live' = live \cup {o}
    /\ ptr' = [h \in Handles |->
                  CASE h = r -> o
                    [] h \in {o} \X Fields -> Null
                    [] OTHER -> ptr[h]]
    /\ mark' = IF m_phase = "MARK" THEN mark \cup {o} ELSE mark
    /\ UNCHANGED <<pins, m_phase, remsetVars, pool, casts, lost, shading, collectorVars,
                   workerVars, undefined>>

\* Mutant: no barrier on handles outside the heap.
WbarrierStore_HeapOnly(t, dst, p) ==
    /\ Running(t) /\ shading[t] = Null
    /\ ptr' = [ptr EXCEPT ![dst] = p]
    /\ shading' = [shading EXCEPT ![t] =
                      IF m_phase = "MARK" /\ dst \notin Roots THEN p ELSE Null]
    /\ UNCHANGED <<live, pins, mark, m_phase, remsetVars, pool, casts, lost,
                   collectorVars, workerVars, undefined>>

\* gc_cms::wbarrier up to its store; the phase it reads next cannot change
\* inside its unsafe scope.  p is Null for gc_ptr::reset.
WbarrierStore(t, dst, p) ==
    /\ Running(t) /\ shading[t] = Null
    /\ ptr' = [ptr EXCEPT ![dst] = p]
    /\ shading' = [shading EXCEPT ![t] = IF m_phase = "MARK" THEN p ELSE Null]
    /\ UNCHANGED <<live, pins, mark, m_phase, remsetVars, pool, casts, lost,
                   collectorVars, workerVars, undefined>>

\* remset::add by t: a full buffer is flushed to the hash table first.
RemsetAdd(t, p) ==
    IF Len(ssb[t]) = SSB_SIZE
    THEN /\ m_hashtable' = m_hashtable \cup {ssb[t][i] : i \in 1..SSB_SIZE}
         /\ ssb' = [ssb EXCEPT ![t] = <<p>>]
    ELSE /\ ssb' = [ssb EXCEPT ![t] = Append(@, p)]
         /\ UNCHANGED m_hashtable

\* The rest of the barrier: an unmarked target is remembered.
WbarrierShade(t) ==
    /\ Running(t) /\ shading[t] # Null
    /\ IF shading[t] \in mark THEN UNCHANGED remsetVars ELSE RemsetAdd(t, shading[t])
    /\ shading' = [shading EXCEPT ![t] = Null]
    /\ UNCHANGED <<heapVars, mark, m_phase, pool, casts, lost, collectorVars, workerVars,
                   undefined>>

\* The casts of gc_cast.hpp and take_interior make a fresh handle to what
\* another handle holds without the barrier: its constructor only registers it.
Cast(t, src, r) ==
    /\ Running(t) /\ shading[t] = Null
    /\ ptr[src] # Null
    /\ ptr[r] = Null
    /\ ptr' = [ptr EXCEPT ![r] = ptr[src]]
    /\ casts' = IF m_phase = "MARK" /\ ptr[src] \notin mark
                   THEN casts \cup {ptr[src]} ELSE casts
    /\ UNCHANGED <<live, pins, mark, m_phase, remsetVars, pool, shading,
                   collectorVars, workerVars, undefined, lost>>

\* gc_core::register_pin, push_pin: reading the handle and pinning what it
\* holds share one unsafe scope.
Pin(t, src) ==
    /\ Running(t) /\ shading[t] = Null
    /\ ptr[src] # Null
    /\ Cardinality(pins[t] \cup {ptr[src]}) <= MaxPins
    /\ pins' = [pins EXCEPT ![t] = @ \cup {ptr[src]}]
    /\ UNCHANGED <<live, ptr, mark, m_phase, remsetVars, pool, casts, lost, shading,
                   collectorVars, workerVars, undefined>>

Unpin(t, o) ==
    /\ Running(t) /\ shading[t] = Null
    /\ pins' = [pins EXCEPT ![t] = @ \ {o}]
    /\ UNCHANGED <<live, ptr, mark, m_phase, remsetVars, pool, casts, lost, shading,
                   collectorVars, workerVars, undefined>>

\* gc_core::gc takes m_mutex; gc_cms::gc_impl has something to do.
Gc(t, k) ==
    /\ Running(t) /\ shading[t] = Null
    /\ collector = None
    /\ k = "COLLECT" \/ m_phase = "IDLE"
    /\ collector' = t
    /\ kind' = k
    /\ cpc' = "stop"
    /\ UNCHANGED <<heapVars, mark, m_phase, remsetVars, pool, casts, lost, shading,
                   m_roots_packet, remset_packet, todo, workerVars, undefined>>

Mutator(t) ==
    \/ \E o \in Objects, r \in Roots : GcNew(t, o, r)
    \/ \E dst, src \in Held(t) : WbarrierStore(t, dst, ptr[src])
    \/ \E dst \in Held(t) : WbarrierStore(t, dst, Null)
    \/ WbarrierShade(t)
    \/ \E src \in Held(t), r \in Roots : Cast(t, src, r)
    \/ \E src \in Held(t) : Pin(t, src)
    \/ \E o \in pins[t] : Unpin(t, o)
    \/ \E k \in {"LAUNCH_CONCURRENT_MARK", "COLLECT"} : Gc(t, k)

-----------------------------------------------------------------------------
(* The collecting thread, in gc_cms::start_marking_phase and gc_cms::sweep. *)
(* Its loops visit the elements of todo in any order.                       *)

At(where) == ~undefined /\ lost = {} /\ cpc = where

AllPinned == UNION {pins[t] : t \in Mutators}

\* root_trace_cb skips null handles.
RootsToTrace == {r \in Roots : ptr[r] # Null}

\* Mutant: pins are not traced at the end of a concurrent marking.
Stop_NoPins ==
    /\ At("stop")
    /\ \A t \in Mutators \ {collector} : shading[t] = Null
    /\ IF m_phase = "IDLE"
       THEN cpc' = "roots" /\ todo' = RootsToTrace
       ELSE cpc' = "pins" /\ todo' = {}
    /\ UNCHANGED <<heapVars, mark, m_phase, remsetVars, pool, casts, lost, shading,
                   m_roots_packet, remset_packet, collector, kind, workerVars, undefined>>

\* What stop_the_world returns to: roots are traced only to start a marking.
Stop ==
    /\ At("stop")
    /\ \A t \in Mutators \ {collector} : shading[t] = Null
    /\ IF m_phase = "IDLE"
       THEN cpc' = "roots" /\ todo' = RootsToTrace
       ELSE cpc' = "pins" /\ todo' = AllPinned
    /\ UNCHANGED <<heapVars, mark, m_phase, remsetVars, pool, casts, lost, shading,
                   m_roots_packet, remset_packet, collector, kind, workerVars, undefined>>

\* root_trace_cb, pin_trace_cb: mark the cell, marker::add_root.
AddRoot(o) ==
    LET pushed == PushRoot(pool, m_roots_packet, o) IN
    /\ mark' = mark \cup {o}
    /\ m_roots_packet' = pushed.packet
    /\ pool' = pushed.rest
    /\ undefined' = (pushed.packet = NoPacket)
    /\ UNCHANGED <<heapVars, m_phase, remsetVars, casts, lost, shading, remset_packet,
                   collector, cpc, kind, workerVars>>

TraceRoot(r) ==
    /\ At("roots")
    /\ todo' = todo \ {r}
    /\ AddRoot(ptr[r])

RootsTraced ==
    /\ At("roots") /\ todo = {}
    /\ IF kind = "COLLECT"
       THEN cpc' = "pins" /\ todo' = AllPinned
       ELSE cpc' = "launch" /\ UNCHANGED todo
    /\ UNCHANGED <<heapVars, mark, m_phase, remsetVars, pool, casts, lost, shading,
                   m_roots_packet, remset_packet, collector, kind, workerVars, undefined>>

TracePin(o) ==
    /\ At("pins")
    /\ todo' = todo \ {o}
    /\ AddRoot(o)

\* The entries of every store buffer, in the hash table once flushed.
Flushed == m_hashtable \cup UNION {{ssb[t][i] : i \in 1..Len(ssb[t])} : t \in Mutators}

\* marker::trace_remset begins: flush_buffers, an output packet, begin().
FlushBuffers ==
    LET popped == PopOutput(pool) IN
    /\ At("pins") /\ todo = {}
    /\ m_hashtable' = Flushed
    /\ ssb' = [t \in Mutators |-> <<>>]
    /\ remset_packet' = popped.packet
    /\ pool' = popped.rest
    /\ todo' = Flushed
    /\ cpc' = "iterate"
    /\ UNCHANGED <<heapVars, mark, m_phase, casts, lost, shading, m_roots_packet, collector,
                   kind, workerVars, undefined>>

\* One turn of its loop.  The table is not locked: an entry a worker has
\* erased may be seen or not.
TraceRemset(o) ==
    LET pushed == PushRoot(pool, remset_packet, o) IN
    /\ At("iterate")
    /\ todo' = todo \ {o}
    /\ \/ /\ mark' = mark \cup {o}
          /\ remset_packet' = pushed.packet
          /\ pool' = pushed.rest
          /\ undefined' = (pushed.packet = NoPacket)
       \/ /\ o \notin m_hashtable
          /\ UNCHANGED <<mark, remset_packet, pool, undefined>>
    /\ UNCHANGED <<heapVars, m_phase, remsetVars, casts, lost, shading, m_roots_packet,
                   collector, cpc, kind, workerVars>>

\* Mutant: the hash table keeps its entries.
ClearRemset_Keep ==
    /\ At("iterate") /\ todo = {}
    /\ IF remset_packet = NoPacket
       THEN undefined' = TRUE /\ UNCHANGED pool
       ELSE pool' = PushPacket(pool, remset_packet) /\ UNCHANGED undefined
    /\ remset_packet' = NoPacket
    /\ cpc' = IF m_phase = "IDLE" THEN "launch" ELSE "mark"
    /\ UNCHANGED <<heapVars, mark, m_phase, remsetVars, casts, lost, shading, m_roots_packet,
                   collector, kind, todo, workerVars>>

\* Its end: the table is cleared and the packet put back.
ClearRemset ==
    /\ At("iterate") /\ todo = {}
    /\ m_hashtable' = {}
    /\ IF remset_packet = NoPacket
       THEN undefined' = TRUE /\ UNCHANGED pool
       ELSE pool' = PushPacket(pool, remset_packet) /\ UNCHANGED undefined
    /\ remset_packet' = NoPacket
    /\ cpc' = IF m_phase = "IDLE" THEN "launch" ELSE "mark"
    /\ UNCHANGED <<heapVars, mark, m_phase, ssb, casts, lost, shading, m_roots_packet,
                   collector, kind, todo, workerVars>>

\* The roots packet, if there is one, is handed to the workers.
HandOverRoots ==
    /\ pool' = IF m_roots_packet = NoPacket THEN pool ELSE PushPacket(pool, m_roots_packet)
    /\ m_roots_packet' = NoPacket

\* marker::concurrent_mark(threads_num), after which start_marking_phase
\* restarts the world and sweep goes on to mark.
ConcurrentMark ==
    LET started == IF kind = "COLLECT" /\ threads_available = 1 THEN {} ELSE Workers IN
    /\ At("launch")
    /\ m_phase' = "MARK"
    /\ HandOverRoots
    /\ wpc' = [w \in Marking |-> IF w \in started THEN "start" ELSE wpc[w]]
    /\ IF kind = "COLLECT"
       THEN cpc' = "mark" /\ UNCHANGED collector
       ELSE cpc' = "idle" /\ collector' = None
    /\ UNCHANGED <<heapVars, mark, remsetVars, casts, lost, shading, remset_packet, kind, todo,
                   input, output, scanVars, taken, undefined>>

\* marker::mark: the collecting thread becomes one more worker ...
Mark ==
    /\ At("mark")
    /\ HandOverRoots
    /\ wpc' = [wpc EXCEPT ![Main] = "start"]
    /\ cpc' = "work"
    /\ UNCHANGED <<heapVars, mark, m_phase, remsetVars, casts, lost, shading, remset_packet,
                   collector, kind, todo, input, output, scanVars, taken, undefined>>

\* ... and joins the others.
Joined == \A w \in Marking : wpc[w] = "off"

Join ==
    /\ At("work")
    /\ Joined
    /\ m_phase' = "COLLECT"
    /\ cpc' = "collect"
    /\ UNCHANGED <<heapVars, mark, remsetVars, pool, casts, lost, shading, m_roots_packet,
                   remset_packet, collector, kind, todo, workerVars, undefined>>

\* What can be reached from the objects O through members of objects: what
\* every set has that contains O and that no member leads out of.
Closed(C) == \A h \in C \X Fields : ptr[h] \in C \cup {Null}
ReachFrom(O) ==
    {o \in Objects : \A C \in SUBSET Objects : O \subseteq C /\ Closed(C) => o \in C}

\* What the program can reach.
Accessible == ReachFrom(({ptr[r] : r \in Roots} \ {Null}) \cup AllPinned)

\* Objects the sweep frees although the program reaches them, because a cast
\* made a handle to one that no marker had seen.
LostToCasts == (ReachFrom(casts \ mark) \cap Accessible) \ mark

\* Mutant: marks survive the collection.
Collect_KeepMarks ==
    /\ At("collect")
    /\ live' = live \cap mark
    /\ lost' = LostToCasts
    /\ casts' = {}
    /\ m_phase' = "IDLE"
    /\ cpc' = "idle"
    /\ collector' = None
    /\ UNCHANGED <<mark, ptr, pins, remsetVars, pool, shading, m_roots_packet,
                   remset_packet, kind, todo, workerVars, undefined>>

\* gc_heap::collect without compaction: every cell without a mark becomes free,
\* marks are cleared; then the world starts.
Collect ==
    /\ At("collect")
    /\ live' = live \cap mark
    /\ lost' = LostToCasts
    /\ mark' = {}
    /\ casts' = {}
    /\ m_phase' = "IDLE"
    /\ cpc' = "idle"
    /\ collector' = None
    /\ UNCHANGED <<ptr, pins, remsetVars, pool, shading, m_roots_packet,
                   remset_packet, kind, todo, workerVars, undefined>>

Collector ==
    \/ Stop
    \/ \E r \in todo : TraceRoot(r)
    \/ RootsTraced
    \/ \E o \in todo : TracePin(o)
    \/ FlushBuffers
    \/ \E o \in todo : TraceRemset(o)
    \/ ClearRemset
    \/ ConcurrentMark
    \/ Mark
    \/ Join
    \/ Collect

-----------------------------------------------------------------------------
(* marker::worker_routine.                                                 *)

On(w, where) == ~undefined /\ lost = {} /\ wpc[w] = where

\* What every step of a worker leaves alone.
WorkerFrame == UNCHANGED <<heapVars, m_phase, ssb, casts, lost, shading, collectorVars>>

\* pop_input_packet, and where the worker goes with and without a packet.
TakeInput(w, otherwise) ==
    LET popped == PopInput(pool) IN
    /\ input' = [input EXCEPT ![w] = popped.packet]
    /\ pool' = popped.rest
    /\ wpc' = [wpc EXCEPT ![w] = IF popped.packet = NoPacket THEN otherwise
                                  ELSE IF output[w] = NoPacket THEN "ready"
                                  ELSE "drain"]
    /\ WorkerFrame
    /\ UNCHANGED <<mark, m_hashtable, output, scanVars, taken, undefined>>

Start(w) == On(w, "start") /\ TakeInput(w, "check")

\* One turn of the loop over the remembered set: the entry is queued.
TakeRemset(w) ==
    /\ On(w, "remset")
    /\ taken[w] < POP_REMSET_COUNT
    /\ \E o \in m_hashtable :
          LET pushed == PushToPacket(pool, output[w], o) IN
          /\ m_hashtable' = m_hashtable \ {o}
          /\ output' = [output EXCEPT ![w] = pushed.packet]
          /\ pool' = pushed.rest
          /\ undefined' = (pushed.packet = NoPacket)
    /\ taken' = [taken EXCEPT ![w] = @ + 1]
    /\ WorkerFrame
    /\ UNCHANGED <<mark, wpc, input, scanVars>>

RemsetTaken(w) ==
    /\ On(w, "remset")
    /\ taken[w] = POP_REMSET_COUNT \/ m_hashtable = {}
    /\ taken' = [taken EXCEPT ![w] = 0]
    /\ wpc' = [wpc EXCEPT ![w] = "retry"]
    /\ WorkerFrame
    /\ UNCHANGED <<mark, m_hashtable, pool, input, output, scanVars, undefined>>

Retry(w) == On(w, "retry") /\ TakeInput(w, "push")

PushOutput(w) ==
    /\ On(w, "push")
    /\ pool' = PushPacket(pool, output[w])
    /\ output' = [output EXCEPT ![w] = NoPacket]
    /\ wpc' = [wpc EXCEPT ![w] = "check"]
    /\ WorkerFrame
    /\ UNCHANGED <<mark, m_hashtable, input, scanVars, taken, undefined>>

Check(w) ==
    /\ On(w, "check")
    /\ wpc' = [wpc EXCEPT ![w] = IF IsNoInput(pool) THEN "off" ELSE "again"]
    /\ WorkerFrame
    /\ UNCHANGED <<mark, m_hashtable, pool, input, output, scanVars, taken, undefined>>

\* Mutant: the end of marking is tested once only.
Again_NoRecheck(w) == On(w, "again") /\ TakeInput(w, "again")

Again(w) == On(w, "again") /\ TakeInput(w, "check")

\* The output packet may be missing; that is noticed when it is first used.
Ready(w) ==
    LET popped == PopOutput(pool) IN
    /\ On(w, "ready")
    /\ output' = [output EXCEPT ![w] = popped.packet]
    /\ pool' = popped.rest
    /\ wpc' = [wpc EXCEPT ![w] = "drain"]
    /\ WorkerFrame
    /\ UNCHANGED <<mark, m_hashtable, input, scanVars, taken, undefined>>

PopCell(w) ==
    /\ On(w, "drain")
    /\ input[w] # <<>>
    /\ cell' = [cell EXCEPT ![w] = input[w][Len(input[w])]]
    /\ input' = [input EXCEPT ![w] = SubSeq(@, 1, Len(@) - 1)]
    /\ fields' = [fields EXCEPT ![w] = Fields]
    /\ wpc' = [wpc EXCEPT ![w] = "trace"]
    /\ WorkerFrame
    /\ UNCHANGED <<mark, m_hashtable, pool, output, loaded, taken, undefined>>

CellTraced(w) ==
    /\ On(w, "trace") /\ fields[w] = {}
    /\ cell' = [cell EXCEPT ![w] = Null]
    /\ wpc' = [wpc EXCEPT ![w] = "drain"]
    /\ WorkerFrame
    /\ UNCHANGED <<mark, m_hashtable, pool, input, output, fields, loaded, taken, undefined>>

\* marker::trace on one member, up to the test of the mark ...
TraceLoad(w, f) ==
    LET p == ptr[<<cell[w], f>>] IN
    /\ On(w, "trace")
    /\ fields' = [fields EXCEPT ![w] = @ \ {f}]
    /\ IF p = Null \/ p \in mark
       THEN UNCHANGED <<loaded, wpc>>
       ELSE /\ loaded' = [loaded EXCEPT ![w] = p]
            /\ wpc' = [wpc EXCEPT ![w] = "set"]
    /\ WorkerFrame
    /\ UNCHANGED <<mark, m_hashtable, pool, input, output, cell, taken, undefined>>

\* ... and from there: set the mark and queue the cell, unless the test came
\* after another thread had set the mark.  The two are not one atomic step:
\* two workers may queue the same cell.
TraceMark(w) ==
    LET pushed == PushToPacket(pool, output[w], loaded[w]) IN
    /\ On(w, "set")
    /\ \/ /\ mark' = mark \cup {loaded[w]}
          /\ output' = [output EXCEPT ![w] = pushed.packet]
          /\ pool' = pushed.rest
          /\ undefined' = (pushed.packet = NoPacket)
       \/ /\ loaded[w] \in mark
          /\ UNCHANGED <<mark, output, pool, undefined>>
    /\ loaded' = [loaded EXCEPT ![w] = Null]
    /\ wpc' = [wpc EXCEPT ![w] = "trace"]
    /\ WorkerFrame
    /\ UNCHANGED <<m_hashtable, input, cell, fields, taken>>

\* Mutant: the emptied packet is not put back.
Swap_Leak(w) ==
    LET popped == PopInput(pool) IN
    /\ On(w, "drain")
    /\ input[w] = <<>>
    /\ input' = [input EXCEPT ![w] = popped.packet]
    /\ pool' = popped.rest
    /\ wpc' = [wpc EXCEPT ![w] = IF popped.packet # NoPacket
                                  THEN IF output[w] = NoPacket THEN "ready" ELSE "drain"
                                  ELSE IF output[w] = NoPacket THEN "check" ELSE "remset"]
    /\ WorkerFrame
    /\ UNCHANGED <<mark, m_hashtable, output, scanVars, taken, undefined>>

\* The input packet is empty: take another, then put the empty one back.
Swap(w) ==
    LET popped == PopInput(pool) IN
    /\ On(w, "drain")
    /\ input[w] = <<>>
    /\ input' = [input EXCEPT ![w] = popped.packet]
    /\ pool' = PushPacket(popped.rest, <<>>)
    /\ wpc' = [wpc EXCEPT ![w] = IF popped.packet # NoPacket
                                  THEN IF output[w] = NoPacket THEN "ready" ELSE "drain"
                                  ELSE IF output[w] = NoPacket THEN "check" ELSE "remset"]
    /\ WorkerFrame
    /\ UNCHANGED <<mark, m_hashtable, output, scanVars, taken, undefined>>

Worker(w) ==
    \/ Start(w) \/ TakeRemset(w) \/ RemsetTaken(w) \/ Retry(w) \/ PushOutput(w)
    \/ Check(w) \/ Again(w) \/ Ready(w) \/ PopCell(w) \/ CellTraced(w)
    \/ \E f \in fields[w] : TraceLoad(w, f)
    \/ TraceMark(w) \/ Swap(w)

-----------------------------------------------------------------------------
\* What follows a null dereference, or the loss of an object the program holds
\* a handle to, is not modelled: the handle leads into a free cell, which the
\* program and the next marking read as an object.
Undefined == (undefined \/ lost # {}) /\ UNCHANGED vars

Next ==
    \/ Undefined
    \/ Collector
    \/ \E t \in Mutators : Mutator(t)
    \/ \E w \in Marking : Worker(w)

Spec == Init /\ [][Next]_vars

\* Every thread of a running process is scheduled; the program need not
\* allocate, write or collect.
Fairness ==
    /\ WF_vars(Collector)
    /\ \A t \in Mutators : WF_vars(WbarrierShade(t))
    /\ \A w \in Marking : WF_vars(Worker(w))

FairSpec == Spec /\ Fairness

-----------------------------------------------------------------------------
(* Properties                                                              *)

\* Whatever the program can name is an object that has not been destroyed:
\* what a variable holds, what a member of a live object holds, what is
\* pinned, what a write barrier has just stored.  gc_cms traces the roots only
\* at the start of a marking, so barrier, remembered set and marker together
\* have to catch every pointer the program moves behind the marker.  The casts
\* have no barrier, so handles may dangle into what a sweep took for that
\* reason alone, and into nothing else; no pin and no barrier is among them.
NoDanglingPointer ==
    /\ \A h \in Roots \cup (live \X Fields) : ptr[h] \in live \cup {Null} \cup lost
    /\ \A t \in Mutators : pins[t] \cup ({shading[t]} \ {Null}) \subseteq live

\* When a marking is complete "all nodes accessible from roots are marked"
\* (marker_test.cpp:174), however the mutators moved pointers meanwhile.  It is
\* not quite so in the code: a handle made by a cast while marking is no root
\* yet when the roots are traced, and no barrier remembers what it holds.  Only
\* an object no marker had seen when a cast made a handle to it may stay
\* unmarked, with what that object leads to.
AccessibleIsMarked ==
    cpc = "collect" => Accessible \subseteq mark \cup ReachFrom(casts \ mark)

Heap == INSTANCE ManagedHeap

\* A sweep that frees objects a cast made handles to: all else it frees is
\* garbage, which no surviving handle, no pin and no lost object designates.
LosesToCasts ==
    LET garbage == (live \ live') \ lost' IN
    /\ lost' # {} /\ lost' \subseteq ReachFrom(casts)
    /\ garbage \cap Heap!Designated(live \ garbage) = {}
    /\ live' \subseteq live
    /\ UNCHANGED <<ptr, pins>>

\* The collector never changes what a handle holds, and frees only objects
\* that nothing surviving the collection designates; a sweep that does more
\* takes only what casts had hidden from the markers.
FreesOnlyGarbage == Heap!Init /\ [][Heap!Next \/ LosesToCasts]_(Heap!vars)

Queued(packet) == IF packet = NoPacket THEN {} ELSE {packet[i] : i \in 1..Len(packet)}
Held01(packet) == IF packet = NoPacket THEN 0 ELSE 1

\* Packets that are outside the pools.
PacketsOut ==
    Cardinality({w \in Marking : input[w] # NoPacket})
    + Cardinality({w \in Marking : output[w] # NoPacket})
    + Held01(m_roots_packet) + Held01(remset_packet)

\* No packet is lost or doubled while roots, remembered entries and four
\* hands move them around: is_no_input, and with it the end of every
\* worker, depends on all PACKETS_COUNT packets coming back.
PacketsAccounted ==
    /\ TypeOK
    /\ ~undefined =>
          pool.empty + Len(pool.full) + Len(pool.partial) + PacketsOut = PACKETS_COUNT

\* When the marked cells are taken for the live ones nothing is left to trace:
\* every packet is back and empty, and no store buffer and no table entry
\* remembers an object (marker::mark, trace_remset).
MarkingComplete ==
    cpc = "collect" =>
        /\ IsNoInput(pool)
        /\ m_hashtable = {}
        /\ \A t \in Mutators : ssb[t] = <<>>

\* Between two cycles nothing of the last one is left that the next would
\* take for its own: marks, remembered entries, queued cells, running workers.
CycleEndsClean ==
    m_phase = "IDLE" /\ cpc \in {"idle", "stop"} =>
        /\ mark = {}
        /\ m_hashtable = {}
        /\ \A t \in Mutators : ssb[t] = <<>>
        /\ IsNoInput(pool)
        /\ Joined

\* Every pause ends: the workers find out that nothing is left to trace, the
\* collecting thread joins them and restarts the world.
PauseEnds == (cpc \in PausedPC) ~> (cpc = "idle")

=============================================================================
