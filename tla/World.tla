------------------------------- MODULE World --------------------------------
(***************************************************************************)
(* What a collection relies on when it holds a world_snapshot: the world   *)
(* stops at one instant, at which no other managed thread is in an unsafe  *)
(* scope, and until it starts again no managed thread enters or leaves one *)
(* and none joins or leaves the set of managed threads.                    *)
(***************************************************************************)
CONSTANTS Threads, None

VARIABLES
    stoppedBy,  \* the thread holding the snapshot, or None
    managed,    \* the registered threads
    unsafe      \* the threads in an unsafe scope

vars == <<stoppedBy, managed, unsafe>>

Init ==
    /\ stoppedBy = None
    /\ managed \in SUBSET Threads
    /\ unsafe = {}

Frozen(t) == stoppedBy # None /\ t \in managed \cup {stoppedBy}

Stop(c) ==
    /\ stoppedBy = None
    /\ unsafe \cap (managed \cup {c}) = {}
    /\ stoppedBy' = c
    /\ UNCHANGED <<managed, unsafe>>

Start ==
    /\ stoppedBy # None
    /\ stoppedBy' = None
    /\ UNCHANGED <<managed, unsafe>>

Register(t) ==
    /\ stoppedBy = None
    /\ managed' = managed \cup {t}
    /\ UNCHANGED <<stoppedBy, unsafe>>

Deregister(t) ==
    /\ stoppedBy = None
    /\ managed' = managed \ {t}
    /\ UNCHANGED <<stoppedBy, unsafe>>

EnterUnsafe(t) ==
    /\ ~Frozen(t)
    /\ unsafe' = unsafe \cup {t}
    /\ UNCHANGED <<stoppedBy, managed>>

LeaveUnsafe(t) ==
    /\ ~Frozen(t)
    /\ unsafe' = unsafe \ {t}
    /\ UNCHANGED <<stoppedBy, managed>>

Next ==
    \/ Start
    \/ \E t \in Threads :
          \/ Stop(t) \/ Register(t) \/ Deregister(t)
          \/ EnterUnsafe(t) \/ LeaveUnsafe(t)

Spec == Init /\ [][Next]_vars

=============================================================================
