------------------------------ MODULE PageMap -------------------------------
(***************************************************************************)
(* What the users of memory_index rely on: index and deindex of a page     *)
(* take effect at one instant between call and return, and change that     *)
(* page only, whatever other threads do to other pages.                    *)
(***************************************************************************)
CONSTANTS Pages, Descriptors, Null

VARIABLES
    mem,    \* what the program did with each page
    index   \* the descriptor each page has

vars == <<mem, index>>

Init ==
    /\ mem = [p \in Pages |-> "free"]
    /\ index = [p \in Pages |-> Null]

Call(p, from, to) ==
    /\ mem[p] = from
    /\ mem' = [mem EXCEPT ![p] = to]
    /\ UNCHANGED index

Enter(p, d) ==
    /\ mem[p] = "indexing"
    /\ index[p] = Null
    /\ index' = [index EXCEPT ![p] = d]

Leave(p) ==
    /\ mem[p] = "deindexing"
    /\ index[p] # Null
    /\ index' = [index EXCEPT ![p] = Null]

Effect(p) == Leave(p) \/ \E d \in Descriptors : Enter(p, d)

\* A call may return in the instant in which it takes effect.
Return(p) ==
    \/ mem[p] = "indexing" /\ index'[p] # Null /\ mem' = [mem EXCEPT ![p] = "in"]
    \/ mem[p] = "deindexing" /\ index'[p] = Null /\ mem' = [mem EXCEPT ![p] = "free"]

Next ==
    \E p \in Pages :
        \/ Call(p, "free", "indexing")
        \/ Call(p, "in", "deindexing")
        \/ Effect(p) /\ UNCHANGED mem
        \/ Effect(p) /\ Return(p)
        \/ UNCHANGED index /\ Return(p)

Spec == Init /\ [][Next]_vars

=============================================================================
