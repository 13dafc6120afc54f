------------------------------- MODULE PinSet -------------------------------
(***************************************************************************)
(* collectors/pin_set.hpp with pin_stack.hpp: the objects one thread has   *)
(* pinned, through the guards of gc_untyped_ptr.hpp, and the collections   *)
(* that stop the thread and read the set.                                  *)
(*                                                                         *)
(* A pin is taken in an unsafe scope, so no collection sees the thread     *)
(* between the load of the handle and the registration.  It is dropped     *)
(* outside of one: the thread may be stopped between any two stores, which *)
(* is why they are steps of their own here.  Guards from operator-> are    *)
(* temporaries and end in the reverse order; those of pin(), operator* and *)
(* operator[] end in any order.  Null guards register nothing and are not  *)
(* represented.                                                            *)
(***************************************************************************)
EXTENDS NodePool

CONSTANTS
    Objects,        \* addresses of objects
    Guards,         \* places a gc_pin or gc_ref can be in
    CAPACITY,       \* STACK_CAPACITY
    MaxNest         \* bound on calls through operator-> inside one another

ASSUME CapacityAssumption == CAPACITY \in Nat \ {0}
ASSUME NullAssumption == Null \notin Objects
ASSUME GuardsAssumption == IsFiniteSet(Guards)

VARIABLES
    m_head,     \* the first node of the list
    m_next,     \* the second word of each cell
    m_stack,    \* m_stack up to m_size
    guard,      \* m_ptr of each pin_guard
    nested,     \* m_ptr of the stack_pin_guards, the last one innermost
    pc,         \* what the thread is in the middle of, with its local
    reach,      \* the objects a handle points to
    live,       \* the objects that were not freed
    failed,     \* an assertion failed, or m_stack was read out of bounds
    repeats     \* a pin that found the stack full was in the stack already

set == <<m_head, m_next, m_stack>>
program == <<reach, live>>
vars == <<pool, set, guard, nested, pc, program, failed, repeats>>

Idle == [at |-> "run"]

TypeOK ==
    /\ m_head \in Cells \cup {Null}
    /\ m_next \in [Cells -> Cells \cup {Null}]
    /\ m_stack \in Seq(Objects) /\ Len(m_stack) <= CAPACITY
    /\ guard \in [Guards -> Objects \cup {Null}]
    /\ nested \in Seq(Objects)
    /\ pc.at \in {"run", "register", "push", "destroy", "free"}
    /\ reach \subseteq live /\ live \subseteq Objects
    /\ failed \in BOOLEAN /\ repeats \in BOOLEAN

Init ==
    /\ PoolInit
    /\ m_head = Null
    /\ m_next = [c \in Cells |-> Null]
    /\ m_stack = <<>>
    /\ guard = [g \in Guards |-> Null]
    /\ nested = <<>>
    /\ pc = Idle
    /\ reach = {}
    /\ live = {}
    /\ failed = FALSE
    /\ repeats = FALSE

Nodes == Walk(m_head, m_next, Null)

\* pin_stack
Top == Last(m_stack)
IsFull == Len(m_stack) = CAPACITY

\* The objects of gc_pin and of gc_stack_pin, and what the program dereferences
\* through them or through a gc_ref.
Pinned == {guard[g] : g \in Guards} \ {Null}
Called == ToSet(nested)
Held == Pinned \cup Called

-----------------------------------------------------------------------------
(* Taking a pin, in an unsafe scope.                                       *)

\* register_pin and push_pin read the handle.
ReadHandle(o, g) ==
    /\ pc = Idle
    /\ o \in reach
    /\ guard[g] = Null
    /\ pc' = [at |-> "register", ptr |-> o, guard |-> g]
    /\ UNCHANGED <<pool, set, guard, nested, program, failed, repeats>>

ReadHandleOfCall(o) ==
    /\ pc = Idle
    /\ o \in reach
    /\ Len(nested) < MaxNest
    /\ pc' = [at |-> "push", ptr |-> o]
    /\ UNCHANGED <<pool, set, guard, nested, program, failed, repeats>>

PushFront(ptr) ==
    \E p \in Cells :
        /\ Create(p, ptr)
        /\ m_next' = [m_next EXCEPT ![p] = m_head]
        /\ m_head' = p

RegisterPin ==
    /\ pc.at = "register"
    /\ PushFront(pc.ptr)
    /\ guard' = [guard EXCEPT ![pc.guard] = pc.ptr]
    /\ pc' = Idle
    /\ UNCHANGED <<m_stack, nested, program, failed, repeats>>

\* Mutation: a full stack is not looked for, and its last pin is overwritten.
PushPin_Full ==
    /\ pc.at = "push"
    /\ m_stack' = Append(IF IsFull THEN Front(m_stack) ELSE m_stack, pc.ptr)
    /\ UNCHANGED <<pool, m_head, m_next, repeats>>
    /\ nested' = Append(nested, pc.ptr)
    /\ pc' = Idle
    /\ UNCHANGED <<guard, program, failed>>

PushPin ==
    /\ pc.at = "push"
    /\ IF ~IsFull
         THEN m_stack' = Append(m_stack, pc.ptr) /\ UNCHANGED <<pool, m_head, m_next>>
         ELSE PushFront(pc.ptr) /\ UNCHANGED m_stack
    /\ repeats' = (nested # <<>> /\
                    (repeats \/ (IsFull /\ pc.ptr \in ToSet(m_stack))))
    /\ nested' = Append(nested, pc.ptr)
    /\ pc' = Idle
    /\ UNCHANGED <<guard, program, failed>>

-----------------------------------------------------------------------------
(* Dropping a pin.                                                         *)

\* remove_first takes the first node with the value out of the list; its last
\* assert(false) is for a value that is not there.
Unlink(ptr) ==
    \/ /\ \A p \in ToSet(Nodes) : word[p] # ptr
       /\ failed' = TRUE /\ pc' = Idle
       /\ UNCHANGED <<m_head, m_next>>
    \/ \E at \in DOMAIN Nodes :
       /\ word[Nodes[at]] = ptr /\ \A i \in 1..at-1 : word[Nodes[i]] # ptr
       /\ IF at = 1
            THEN m_head' = m_next[m_head] /\ UNCHANGED m_next
            ELSE /\ m_next' = [m_next EXCEPT ![Nodes[at-1]] = m_next[Nodes[at]]]
                 /\ UNCHANGED m_head
       /\ pc' = [at |-> "destroy", node |-> Nodes[at]]
       /\ UNCHANGED failed

\* ~pin_guard
DeregisterPin(g) ==
    /\ pc = Idle
    /\ guard[g] # Null
    /\ Unlink(guard[g])
    /\ guard' = [guard EXCEPT ![g] = Null]
    /\ UNCHANGED <<pool, m_stack, nested, program, repeats>>

\* Mutation: what is on top of the stack is not compared with the pin.
PopPin_Unchecked ==
    /\ pc = Idle
    /\ nested # <<>>
    /\ nested' = Front(nested)
    /\ IF m_stack = <<>>
         THEN failed' = TRUE /\ UNCHANGED <<set, pc>>
         ELSE m_stack' = Front(m_stack) /\ UNCHANGED <<m_head, m_next, pc, failed>>
    /\ UNCHANGED <<pool, guard, program, repeats>>

\* ~stack_pin_guard: top() of an empty stack reads before the array.
PopPin ==
    /\ pc = Idle
    /\ nested # <<>>
    /\ nested' = Front(nested)
    /\ IF m_stack = <<>>
         THEN failed' = TRUE /\ UNCHANGED <<set, pc>>
         ELSE IF Top = Last(nested)
                THEN m_stack' = Front(m_stack) /\ UNCHANGED <<m_head, m_next, pc, failed>>
                ELSE Unlink(Last(nested)) /\ UNCHANGED m_stack
    /\ UNCHANGED <<pool, guard, program, repeats>>

DestroyNode ==
    /\ pc.at = "destroy"
    /\ LinkFree(pc.node)
    /\ pc' = [pc EXCEPT !.at = "free"]
    /\ UNCHANGED <<set, guard, nested, program, failed, repeats>>

FreeNode ==
    /\ pc.at = "free"
    /\ PushFree(pc.node)
    /\ pc' = Idle
    /\ UNCHANGED <<set, guard, nested, program, failed, repeats>>

\* The move constructor and the move assignment of pin_guard.
Move(g, h) ==
    /\ pc = Idle
    /\ guard[g] # Null
    /\ guard' = [guard EXCEPT ![g] = guard[h], ![h] = guard[g]]
    /\ UNCHANGED <<pool, set, nested, pc, program, failed, repeats>>

\* The thread ends, and its descriptor goes with the pin set.
EndThread ==
    /\ pc = Idle
    /\ nested = <<>>
    /\ \A g \in Guards : guard[g] = Null
    /\ DestroyPool
    /\ m_head' = Null
    /\ m_next' = [c \in Cells |-> Null]
    /\ UNCHANGED <<m_stack, guard, nested, pc, program, failed, repeats>>

-----------------------------------------------------------------------------
(* The rest of the program, and the collector.                             *)

New(o) ==
    /\ o \notin live
    /\ live' = live \cup {o}
    /\ reach' = reach \cup {o}
    /\ UNCHANGED <<pool, set, guard, nested, pc, failed, repeats>>

\* Any thread may overwrite the handle.
Lose(o) ==
    /\ o \in reach
    /\ reach' = reach \ {o}
    /\ UNCHANGED <<pool, set, guard, nested, pc, live, failed, repeats>>

\* pin_set::trace
Traced == {word[p] : p \in ToSet(Nodes)} \cup ToSet(m_stack)

\* Mutation: the thread is stopped inside of register_pin, push_pin too.
InUnsafeScope_Never == FALSE

InUnsafeScope == pc.at \in {"register", "push"}

Collect ==
    /\ ~InUnsafeScope
    /\ live' = reach \cup (Traced \cap live)
    /\ UNCHANGED <<pool, set, guard, nested, pc, reach, failed, repeats>>

Next ==
    /\ ~failed
    /\ \/ \E o \in Objects, g \in Guards : ReadHandle(o, g)
       \/ \E o \in Objects : ReadHandleOfCall(o)
       \/ RegisterPin
       \/ PushPin
       \/ \E g \in Guards : DeregisterPin(g)
       \/ PopPin
       \/ DestroyNode
       \/ FreeNode
       \/ \E g, h \in Guards : Move(g, h)
       \/ EndThread
       \/ \E o \in Objects : New(o) \/ Lose(o)
       \/ Collect

Spec == Init /\ [][Next]_vars

-----------------------------------------------------------------------------
(* Properties                                                              *)

\* No collection frees an object the program uses through a guard, in whichever
\* place the thread was stopped, the stores of another guard's end included.
PinnedStaysLive ==
    Held \subseteq live

\* The list and the stack hold one pin for each guard and no other, wherever
\* the thread is stopped: a pin more would keep an object forever.
PinsExact ==
    ~failed => \A o \in Objects :
        Cardinality({p \in ToSet(Nodes) : word[p] = o})
          + Cardinality({i \in DOMAIN m_stack : m_stack[i] = o})
        = Cardinality({g \in Guards : guard[g] = o})
          + Cardinality({i \in DOMAIN nested : nested[i] = o})

\* The node that is on its way out of the list belongs to neither side yet.
Leaving == IF pc.at \in {"destroy", "free"} THEN {pc.node} ELSE {}

\* The list has no cycle and shares no node with the free list of its pool, the
\* chunks and the blocks under it.
NodesSound ==
    /\ TypeOK
    /\ IsInjective(Nodes) /\ ToSet(Nodes) \cap Leaving = {}
    /\ PoolSound(ToSet(Nodes) \cup Leaving)

\* The assertions of pin_stack and pin_set hold, unless more calls than the
\* stack has room for were nested on objects of which one repeats.
FailsOnlyOnRepeats ==
    failed => repeats

=============================================================================
