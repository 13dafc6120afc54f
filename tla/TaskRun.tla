------------------------------ MODULE TaskRun -------------------------------
(***************************************************************************)
(* What gc_so_allocator expects of static_thread_pool::run: every task of  *)
(* the call is executed once, none after the call returned, and the call   *)
(* returns only when all were.                                             *)
(***************************************************************************)
CONSTANT Tasks

VARIABLES
    running,    \* a call of run is in progress
    left        \* the tasks of that call not executed yet

vars == <<running, left>>

Init == running = FALSE /\ left = {}

Call(S) ==
    /\ ~running
    /\ running' = TRUE
    /\ left' = S

Execute(task) ==
    /\ task \in left
    /\ left' = left \ {task}
    /\ UNCHANGED running

Return ==
    /\ running
    /\ left = {}
    /\ running' = FALSE
    /\ UNCHANGED left

Next ==
    \/ \E S \in SUBSET Tasks : Call(S)
    \/ \E task \in Tasks : Execute(task)
    \/ Return

Spec == Init /\ [][Next]_vars

=============================================================================
