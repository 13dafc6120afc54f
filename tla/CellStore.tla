----------------------------- MODULE CellStore ------------------------------
(***************************************************************************)
(* What gc_new relies on when it takes cells from an allocator: a cell is  *)
(* given to one object at a time, it holds an object once construction was *)
(* committed, and destructors run once, on objects the program lost.       *)
(***************************************************************************)
CONSTANT Cells

VARIABLES
    building,   \* cells whose object is under construction
    objects,    \* cells whose object was constructed and not destroyed
    reach       \* cells of objects the program can reach

vars == <<building, objects, reach>>

Init == building = {} /\ objects = {} /\ reach = {}

Allocate(c) ==
    /\ c \notin building \cup objects
    /\ building' = building \cup {c}
    /\ UNCHANGED <<objects, reach>>

Commit(c) ==
    /\ c \in building
    /\ building' = building \ {c}
    /\ objects' = objects \cup {c}
    /\ reach' = reach \cup {c}

\* With the members constructed so far, the program may lose what they held.
Abort(c) ==
    /\ c \in building
    /\ building' = building \ {c}
    /\ reach' \subseteq reach
    /\ UNCHANGED objects

Lose ==
    /\ reach' \subseteq reach
    /\ UNCHANGED <<building, objects>>

Destroy(S) ==
    /\ S \cap reach = {}
    /\ objects' = objects \ S
    /\ UNCHANGED <<building, reach>>

Next ==
    \/ \E c \in Cells : Allocate(c) \/ Commit(c) \/ Abort(c)
    \/ Lose
    \/ \E S \in SUBSET objects : Destroy(S)

Spec == Init /\ [][Next]_vars

=============================================================================
