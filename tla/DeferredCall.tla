---------------------------- MODULE DeferredCall ----------------------------
(***************************************************************************)
(* What details/threads/pending_call promises one thread and the signals   *)
(* sent to it: a signal is answered by exactly one call of the handler,    *)
(* never while the thread is in an unsafe scope, and it is never dropped.  *)
(***************************************************************************)
EXTENDS Naturals

VARIABLES
    owed,       \* a signal has been sent and its call has not started
    deferred,   \* the thread is in an unsafe scope (not inside a safe one)
    calls       \* activations of the handler on the thread's stack

vars == <<owed, deferred, calls>>

TypeOK ==
    /\ owed \in BOOLEAN
    /\ deferred \in BOOLEAN
    /\ calls \in Nat

Init ==
    /\ owed = FALSE
    /\ deferred = FALSE
    /\ calls = 0

Send ==
    /\ ~owed
    /\ owed' = TRUE
    /\ UNCHANGED <<deferred, calls>>

(***************************************************************************)
(* The thread's own code crosses the border of a scope; it does not run    *)
(* while the handler is on top of it.                                      *)
(***************************************************************************)
ChangeScope ==
    /\ calls = 0
    /\ deferred' = ~deferred
    /\ UNCHANGED <<owed, calls>>

StartCall ==
    /\ owed
    /\ ~deferred
    /\ owed' = FALSE
    /\ calls' = calls + 1
    /\ UNCHANGED deferred

EndCall ==
    /\ calls > 0
    /\ calls' = calls - 1
    /\ UNCHANGED <<owed, deferred>>

Next == Send \/ ChangeScope \/ StartCall \/ EndCall

Spec == Init /\ [][Next]_vars

=============================================================================
