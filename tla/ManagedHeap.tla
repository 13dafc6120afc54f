---------------------------- MODULE ManagedHeap -----------------------------
(***************************************************************************)
(* What a collector of this library promises the program: the handles hold *)
(* what the program last put in them, and an object is freed only when no  *)
(* handle and no pin that survives the collection designates it.           *)
(***************************************************************************)
CONSTANTS
    Objects,    \* cells of the managed heap
    Fields,     \* the gc_ptr members of an object
    Roots,      \* handles outside the managed heap
    Mutators,   \* managed threads
    Null

VARIABLES
    live,       \* objects constructed and not destroyed
    ptr,        \* ptr[h]: what handle h holds
    pins        \* pins[t]: objects thread t has pinned

vars == <<live, ptr, pins>>

Handles == Roots \cup (Objects \X Fields)

\* The handles that exist while the objects of O do.
HandlesIn(O) == Roots \cup (O \X Fields)

\* What the program can still name while the objects of O exist.
Designated(O) == {ptr[h] : h \in HandlesIn(O)} \cup UNION {pins[t] : t \in Mutators}

Init ==
    /\ live = {}
    /\ ptr = [h \in Handles |-> Null]
    /\ pins = [t \in Mutators |-> {}]

New(o, r) ==
    /\ o \notin live
    /\ ptr[r] = Null
    /\ live' = live \cup {o}
    /\ ptr' = [h \in Handles |->
                  CASE h = r -> o
                    [] h \in {o} \X Fields -> Null
                    [] OTHER -> ptr[h]]
    /\ UNCHANGED pins

Assign(dst, p) ==
    /\ ptr' = [ptr EXCEPT ![dst] = p]
    /\ UNCHANGED <<live, pins>>

Pin(t, p) ==
    /\ p # Null
    /\ pins' = [pins EXCEPT ![t] = @ \cup {p}]
    /\ UNCHANGED <<live, ptr>>

Unpin(t, p) ==
    /\ pins' = [pins EXCEPT ![t] = @ \ {p}]
    /\ UNCHANGED <<live, ptr>>

Free(S) ==
    /\ S \cap Designated(live \ S) = {}
    /\ live' = live \ S
    /\ UNCHANGED <<ptr, pins>>

Next ==
    \/ \E o \in Objects, r \in Roots : New(o, r)
    \/ \E dst, src \in HandlesIn(live) : Assign(dst, ptr[src])
    \/ \E dst \in HandlesIn(live) : Assign(dst, Null)
    \/ \E t \in Mutators, src \in HandlesIn(live) : Pin(t, ptr[src])
    \/ \E t \in Mutators : \E p \in pins[t] : Unpin(t, p)
    \/ \E S \in SUBSET live : Free(S)

Spec == Init /\ [][Next]_vars

=============================================================================
