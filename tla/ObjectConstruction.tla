------------------------- MODULE ObjectConstruction -------------------------
(***************************************************************************)
(* gc_new: how an object gets its cell, how its constructor makes known    *)
(* where the type has its gc_ptr members, and what a collection that runs  *)
(* inside a constructor finds.                                             *)
(*                                                                         *)
(* gc_new and everything its constructor calls run in one unsafe scope; a  *)
(* thread lets the world stop while gc_new allocates, which may collect,   *)
(* and outside of gc_new.  The collector is gc_serial: a collection is one *)
(* step, and the last one of the program when an object under construction *)
(* has a word that is no address of a cell.  Which cell the allocators of the heap give is left open: any     *)
(* that is free.                                                           *)
(***************************************************************************)
EXTENDS Integers, Sequences, FiniteSets, SequencesExt

CONSTANTS
    Threads,        \* each with room for one gc_ptr on its stack
    Statics,        \* places for a gc_ptr in memory the index does not know
    Cells,
    Types,
    type_size,      \* the words of an object of each type
    members,        \* the words of it that are gc_ptrs
    Kinds,          \* what gc_new makes: a type and a length, 1 for one object
    MaxNest,        \* bound on constructors that call gc_new inside one another
    Null, Data,     \* what a word holds that is not the address of a cell
    None

ASSUME ThreadsAssumption == Threads \cap Statics = {} /\ IsFiniteSet(Threads)
ASSUME CellsAssumption == IsFiniteSet(Cells) /\ {Null, Data} \cap Cells = {}
ASSUME TypesAssumption ==
    /\ type_size \in [Types -> Nat \ {0}]
    /\ \A ty \in Types : members[ty] \subseteq 0..type_size[ty]-1
ASSUME KindsAssumption == IsFiniteSet(Kinds) /\ Kinds \subseteq Types \X (Nat \ {0})
ASSUME MaxNestAssumption == MaxNest \in Nat \ {0}

VARIABLES
    type_meta,      \* gc_type_meta_factory<T>::meta of each type, or None
    request,        \* request[t]: what t's innermost gc_new asks memory for
    news,           \* news[t]: t's gc_new_stack, the innermost entry first
    box,            \* box[c]: the box_meta at the start of the cell
    object,         \* object[c]: the type and number of what was allocated in it
    ptr,            \* what each handle, and each word of each cell, holds
    handles,        \* gc_ptrs that exist outside the cells
    m_stack_roots, m_static_roots,
    m_init_bits,
    free,           \* cells the allocators can give
    crashed         \* a collection called a function of a null descriptor

alloc == <<box, object, free>>
roots == <<handles, m_stack_roots, m_static_roots>>
vars == <<type_meta, request, news, alloc, ptr, roots, m_init_bits, crashed>>

Slots == Threads \cup Statics
Counts == {k[2] : k \in Kinds}
Words == UNION {0..type_size[k[1]] * k[2] - 1 : k \in Kinds}
Handles == Slots \cup (Cells \X Words)

ASSUME PlacesAssumption == Slots \cap (Cells \X Words) = {}

Metas == [size : {type_size[ty] : ty \in Types}, offsets : SUBSET Words]
Entries == [cell : Cells, type : Types, count : Counts, meta_requested : BOOLEAN,
            type_meta : Metas \cup {None}, offsets : SUBSET Words,
            done : 0..Cardinality(Words)]

ASSUME NoneAssumption == None \notin Metas \cup [type : Types, count : Counts]

\* The box_meta of a cell without an object: memset has cleared it.
Cleared == [count |-> 0, type_meta |-> None]

TypeOK ==
    /\ type_meta \in [Types -> Metas \cup {None}]
    /\ request \in [Threads -> [type : Types, count : Counts, type_meta : Metas \cup {None}]
                               \cup {None}]
    /\ news \in [Threads -> Seq(Entries)]
    /\ \A t \in Threads : Len(news[t]) <= MaxNest
    /\ box \in [Cells -> [count : Counts \cup {0}, type_meta : Metas \cup {None}]]
    /\ object \in [Cells -> [type : Types, count : Counts] \cup {None}]
    /\ ptr \in [Handles -> Cells \cup {Null, Data}]
    /\ handles \subseteq Slots
    /\ m_stack_roots \subseteq Threads
    /\ m_static_roots \subseteq Statics
    /\ m_init_bits \subseteq Cells
    /\ free \subseteq Cells
    /\ crashed \in BOOLEAN

Init ==
    /\ type_meta = [ty \in Types |-> None]
    /\ request = [t \in Threads |-> None]
    /\ news = [t \in Threads |-> <<>>]
    /\ box = [c \in Cells |-> Cleared]
    /\ object = [c \in Cells |-> None]
    /\ ptr = [h \in Handles |-> Null]
    /\ handles = {}
    /\ m_stack_roots = {}
    /\ m_static_roots = {}
    /\ m_init_bits = {}
    /\ free = Cells
    /\ crashed = FALSE

-----------------------------------------------------------------------------
(* Handles: register_handle, deregister_handle and the barrier             *)

\* memory_index::get_descriptor of the place a handle is at.
Descriptor(h) ==
    CASE h \in Threads -> "stack" [] h \in Statics -> "null" [] OTHER -> "gc_heap"

\* gc_new_stack: the innermost entry is the head.
Pushed(stack, e) == <<e>> \o stack
Popped(stack) == Tail(stack)

\* gc_new_stack::register_child: a handle in the heap is taken for a member of
\* the object whose constructor runs (its place in that object is recorded; a
\* program that places a gc_ptr in another object by hand is not modelled).
RegisterChild(stack, h) ==
    IF Descriptor(h) = "gc_heap" /\ stack[1].meta_requested
    THEN [stack EXCEPT ![1].offsets = @ \cup {h[2]}]
    ELSE stack

\* stack_bitmap::register_root, of the bitmap of the thread.
RegisterStackRoot(h) ==
    m_stack_roots' = IF Descriptor(h) = "stack" THEN m_stack_roots \cup {h} ELSE m_stack_roots

\* static_root_set::register_root.
RegisterStaticRoot(h) ==
    m_static_roots' = IF Descriptor(h) = "null" THEN m_static_roots \cup {h} ELSE m_static_roots

\* The rest of register_handle.
RegisterHandle(h, p) ==
    /\ ptr' = [ptr EXCEPT ![h] = p]
    /\ RegisterStackRoot(h)
    /\ RegisterStaticRoot(h)
    /\ handles' = IF h \in Slots THEN handles \cup {h} ELSE handles

Idle(t) == ~crashed /\ request[t] = None

\* The gc_ptrs a statement of t can name; what a gc_ptr can be made from.
Named(t) == handles \cap ({t} \cup Statics)
Values(t) == {ptr[h] : h \in Named(t)} \cup {Null}

\* gc_ptr(); a copy is assigned to next.
NewHandle(t, h) ==
    /\ Idle(t)
    /\ h \in ({t} \cup Statics) \ handles
    /\ RegisterHandle(h, Null)
    /\ UNCHANGED <<type_meta, request, news, alloc, m_init_bits, crashed>>

\* gc_ptr::operator=, reset.
Assign(t, h, p) ==
    /\ Idle(t)
    /\ ptr[h] # p
    /\ ptr' = [ptr EXCEPT ![h] = p]
    /\ UNCHANGED <<type_meta, request, news, alloc, roots, m_init_bits, crashed>>

\* ~gc_ptr; what the memory holds afterwards nobody reads.
DestroyHandle(t, h) ==
    /\ Idle(t)
    /\ ptr' = [ptr EXCEPT ![h] = Null]
    /\ handles' = handles \ {h}
    /\ m_stack_roots' = m_stack_roots \ {h}
    /\ m_static_roots' = m_static_roots \ {h}
    /\ UNCHANGED <<type_meta, request, news, alloc, m_init_bits, crashed>>

-----------------------------------------------------------------------------
(* gc_new up to the constructor                                            *)

Size(e) == type_size[e.type]
InConstructor(t) == Idle(t) /\ news[t] # <<>>

\* gc_type_meta_factory<T>::create comes after the first element.
BeforeCreate(e) == e.type_meta = None
\* Mutation: after all elements of an array.
MustCreate_Late(e) == BeforeCreate(e) /\ e.done = Size(e) * e.count

MustCreate(e) == BeforeCreate(e) /\ e.done = Size(e)

\* A constructor may be running; between the last create and commit none is.
RunsProgram(t) ==
    news[t] # <<>> =>
        news[t][1].count > 1 \/ BeforeCreate(news[t][1]) \/ ~news[t][1].meta_requested

GcNew(t, ty, n) ==
    /\ Idle(t) /\ RunsProgram(t)
    /\ Len(news[t]) < MaxNest
    /\ request' = [request EXCEPT ![t] =
                      [type |-> ty, count |-> n, type_meta |-> type_meta[ty]]]
    /\ UNCHANGED <<type_meta, news, alloc, ptr, roots, m_init_bits, crashed>>

\* init_cell: the allocator takes a free cell, and gc_box::create writes its
\* box; the memory after it is zero.
InitCell(c, rqst) ==
    /\ c \in free
    /\ free' = free \ {c}
    /\ box' = [box EXCEPT ![c] = [count |-> rqst.count, type_meta |-> rqst.type_meta]]
    /\ object' = [object EXCEPT ![c] = [type |-> rqst.type, count |-> rqst.count]]

NewEntry(c, rqst) ==
    [cell |-> c, type |-> rqst.type, count |-> rqst.count,
     meta_requested |-> rqst.type_meta = None,
     type_meta |-> rqst.type_meta, offsets |-> {}, done |-> 0]

\* gc_core::allocate.
Allocate(t, c) ==
    /\ ~crashed /\ request[t] # None
    /\ InitCell(c, request[t])
    /\ news' = [news EXCEPT ![t] = Pushed(@, NewEntry(c, request[t]))]
    /\ request' = [request EXCEPT ![t] = None]
    /\ UNCHANGED <<type_meta, ptr, roots, m_init_bits, crashed>>

\* gc_bad_alloc leaves gc_new.
BadAlloc(t) ==
    /\ ~crashed /\ request[t] # None
    /\ request' = [request EXCEPT ![t] = None]
    /\ UNCHANGED <<type_meta, news, alloc, ptr, roots, m_init_bits, crashed>>

-----------------------------------------------------------------------------
(* The constructor                                                         *)

\* The words are constructed in their order, one element after the other.
IsNext(e, kind) ==
    /\ e.done < Size(e) * e.count /\ ~MustCreate(e)
    /\ kind = IF e.done % Size(e) \in members[e.type] THEN "member" ELSE "data"
Next1(e) == <<e.cell, e.done>>
Constructed(stack) == [stack EXCEPT ![1].done = @ + 1]

\* A word that is not a gc_ptr: a number, or the address an object is at.
ConstructData(t, d) ==
    /\ InConstructor(t) /\ IsNext(news[t][1], "data")
    /\ ptr' = [ptr EXCEPT ![Next1(news[t][1])] = d]
    /\ news' = [news EXCEPT ![t] = Constructed(@)]
    /\ UNCHANGED <<type_meta, request, alloc, roots, m_init_bits, crashed>>

ConstructMember(t, p) ==
    LET h == Next1(news[t][1]) IN
    /\ InConstructor(t) /\ IsNext(news[t][1], "member")
    /\ news' = [news EXCEPT ![t] = Constructed(RegisterChild(@, h))]
    /\ RegisterHandle(h, p)
    /\ UNCHANGED <<type_meta, request, alloc, m_init_bits, crashed>>

\* gc_type_meta_factory<T>::create(make_offsets(rsp)): of two threads that
\* construct the first object of a type one wins the exchange, and both use
\* what it stored.
Create(t) ==
    LET e == news[t][1]
        m == IF type_meta[e.type] # None THEN type_meta[e.type]
             ELSE [size |-> Size(e), offsets |-> e.offsets] IN
    /\ InConstructor(t) /\ MustCreate(e)
    /\ type_meta' = [type_meta EXCEPT ![e.type] = m]
    /\ news' = [news EXCEPT ![t][1].type_meta = m]
    /\ UNCHANGED <<request, alloc, ptr, roots, m_init_bits, crashed>>

\* ~commiter of an object whose constructor threw.  No collection has the cell
\* for an object; the next one frees it.
Abort(t) ==
    /\ InConstructor(t) /\ RunsProgram(t)
    /\ news' = [news EXCEPT ![t] = Popped(@)]
    /\ UNCHANGED <<type_meta, request, alloc, ptr, roots, m_init_bits, crashed>>

\* The descriptor's commit.
CommitCell(e) ==
    /\ box' = [box EXCEPT ![e.cell].type_meta = e.type_meta]
    /\ m_init_bits' = m_init_bits \cup {e.cell}

\* The gc_ptr that gc_new returns is constructed where the caller wants it,
\* which may be a member of the object under construction around it.
Return(t, stack, h) ==
    \/ /\ h \in ({t} \cup Statics) \ handles
       /\ news' = [news EXCEPT ![t] = stack]
    \/ /\ stack # <<>> /\ IsNext(stack[1], "member") /\ h = Next1(stack[1])
       /\ news' = [news EXCEPT ![t] = Constructed(RegisterChild(stack, h))]

\* commiter::commit and the return.
Commit(t, h) ==
    LET e == news[t][1] IN
    /\ InConstructor(t)
    /\ e.done = Size(e) * e.count /\ ~BeforeCreate(e)
    /\ CommitCell(e)
    /\ Return(t, Popped(news[t]), h)
    /\ RegisterHandle(h, e.cell)
    /\ UNCHANGED <<type_meta, request, object, free, crashed>>

-----------------------------------------------------------------------------
(* gc_serial::sweep                                                        *)

\* t collects from its gc_new or outside of it; the world stops when no other
\* thread is in an unsafe scope.
Stopped == \A t \in Threads : news[t] = <<>> \/ request[t] # None

Entered == UNION {ToSet(news[t]) : t \in Threads}
Building == {e.cell : e \in Entered}

\* conservative_obj_trace_cb visits every word of every object under
\* construction, and takes each for a pointer to a cell.
UninitWords ==
    {ptr[h] : h \in UNION {{e.cell} \X (0..Size(e) * e.count - 1) : e \in Entered}}

\* gc_box::trace: the offsets of the type, in each element.  The descriptors
\* assert that the cell is initialized.
Trace(c) ==
    IF c \notin m_init_bits THEN {}
    ELSE LET m == box[c].type_meta IN
         {ptr[<<c, i * m.size + w>>] : i \in 0..box[c].count-1, w \in m.offsets} \ {Null}

\* The cells from S on, along edges: those that are in every set which holds S
\* and what the edges of its cells lead to.
Closure(edges(_), S) ==
    {o \in Cells : \A C \in SUBSET Cells :
        S \cap Cells \subseteq C /\ (\A c \in C : edges(c) \cap Cells \subseteq C) => o \in C}

\* trace_uninit and trace_roots, and what marker::mark makes of them.
Roots ==
    (UninitWords \cap m_init_bits)
    \cup ({ptr[h] : h \in m_stack_roots \cup m_static_roots} \ {Null})

\* Mutation: objects under construction are not marked.
Marked_NoUninit == Closure(Trace, Roots)

Marked == Building \cup Closure(Trace, Roots)

LifetimeTag(c) ==
    CASE c \in Marked /\ c \in m_init_bits -> "LIVE"
      [] c \in Marked /\ c \notin m_init_bits -> "ALLOCATED"
      [] c \notin Marked /\ c \in m_init_bits -> "GARBAGE"
      [] OTHER -> "FREE"

\* What a cell that is free holds nobody reads: memset clears it.
Forget(S) ==
    /\ box' = [c \in Cells |-> IF c \in S THEN Cleared ELSE box[c]]
    /\ object' = [c \in Cells |-> IF c \in S THEN None ELSE object[c]]
    /\ ptr' = [h \in Handles |-> IF h \in S \X Words THEN Null ELSE ptr[h]]

\* What is not live is given to the allocators.
Sweep ==
    /\ m_init_bits' = {c \in Cells : LifetimeTag(c) = "LIVE"}
    /\ free' = {c \in Cells : LifetimeTag(c) \in {"GARBAGE", "FREE"}}
    /\ Forget(free')
    /\ UNCHANGED crashed

\* memory_index::get_gc_cell of a null word, or of data that is not the address
\* of a cell, finds no descriptor: cell_start is called on a null pointer, and
\* the program ends.
LooksUpCells == UninitWords \subseteq Cells
Crash ==
    /\ crashed' = TRUE
    /\ UNCHANGED <<alloc, ptr, m_init_bits>>

\* A collection.
Collect ==
    /\ ~crashed
    /\ Stopped
    /\ IF LooksUpCells THEN Sweep ELSE Crash
    /\ UNCHANGED <<type_meta, request, news, roots>>

-----------------------------------------------------------------------------
\* The gc_ptrs of an object, as its type has them.
Members(c) ==
    IF object[c] = None THEN {}
    ELSE LET size == type_size[object[c].type] IN
         {<<c, i * size + w>> : i \in 0..object[c].count-1, w \in members[object[c].type]}

\* Those that t can assign to: of what t's variables point to.
NamedMembers(t) ==
    UNION {Members(ptr[h]) : h \in {g \in Named(t) : ptr[g] # Null}}

Thread(t) ==
    \/ \E h \in Slots : NewHandle(t, h)
    \/ \E h \in Named(t) \cup NamedMembers(t), p \in Values(t) : Assign(t, h, p)
    \/ \E h \in Named(t) : DestroyHandle(t, h)
    \/ \E k \in Kinds : GcNew(t, k[1], k[2])
    \/ \E c \in Cells : Allocate(t, c)
    \/ BadAlloc(t)
    \/ \E d \in {Data} \cup (Values(t) \cap Cells) : ConstructData(t, d)
    \/ \E p \in Values(t) : ConstructMember(t, p)
    \/ Create(t)
    \/ Abort(t)
    \/ \E h \in Handles : Commit(t, h)

Next ==
    \/ \E t \in Threads : Thread(t)
    \/ Collect

Spec == Init /\ [][Next]_vars

-----------------------------------------------------------------------------
(* Properties                                                              *)

\* What a type's first construction found out is where the members of the
\* type are, whichever thread published it, whatever was constructed inside
\* the constructor, in an array or not, and every object is traced with it.
MetaExact ==
    /\ TypeOK
    /\ \A ty \in Types :
          type_meta[ty] # None => type_meta[ty] = [size |-> type_size[ty],
                                                   offsets |-> members[ty]]
    /\ \A c \in m_init_bits :
          box[c] = [count |-> object[c].count, type_meta |-> type_meta[object[c].type]]

\* The gc_ptrs of an object under construction that exist already.
MembersSoFar(e) == {<<e.cell, w>> : w \in {v \in 0..e.done-1 : v % Size(e) \in members[e.type]}}

\* What the program can reach: from its variables, and from what it constructs.
Reachable ==
    LET gc_ptrs == handles \cup
            UNION {MembersSoFar(e) : e \in Entered}
        targets(c) == {ptr[h] : h \in Members(c)}
    IN Closure(targets, {ptr[h] : h \in gc_ptrs})

Store == INSTANCE CellStore WITH
    building <- Building,
    objects <- m_init_bits,
    reach <- Reachable

\* A cell is given to one object at a time, and one whose constructor threw
\* holds none and is given out again.  A collection that goes through neither
\* gives the cell of an object under construction to another object nor
\* destroys what only its members, so far, keep alive.  Inside a constructor
\* those are the collections that find the address of a cell in every word of
\* every object under construction; the others, most of them, end the program.
ConstructsCellsOnce == Store!Spec

=============================================================================
