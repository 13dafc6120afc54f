------------------------------ MODULE TwoFinger -----------------------------
(***************************************************************************)
(* compacting/two_finger_compactor over the cells of one pool, which       *)
(* gc_pool_allocator::compact repeats word for word, and the pass over the *)
(* handles that follows (fix_ptrs, forwarding::forward).  It runs while    *)
(* the world is stopped.  Its tests reach it; the collectors do not, as    *)
(* is_compaction_required returns false.                                   *)
(*                                                                         *)
(* Cells are numbered in the order of the flattened range, whatever the    *)
(* number of chunks.  An object is named by the cell it was in at first.   *)
(***************************************************************************)
EXTENDS Integers

CONSTANTS
    N,          \* the number of cells
    Handles     \* the roots, and the members of live objects

VARIABLES
    tag,        \* get_lifetime_tag of each cell
    pinned,     \* the cells whose pin bit is set
    object,     \* the object whose bytes are in the cell
    frwd,       \* the forward pointers that were put in cells
    handle,     \* the cell each handle points into, N for null
    designated, \* the object each handle was for when the pass began
    to, from,
    phase

vars == <<tag, pinned, object, frwd, handle, designated, to, from, phase>>

Cells == 0..N-1
Tags == {"FREE", "GARBAGE", "ALLOCATED", "LIVE"}

\* Marked: an object, or one whose constructor has not returned.
Held == {"LIVE", "ALLOCATED"}
HeldCells == {c \in Cells : tag[c] \in Held}

Init ==
    /\ tag \in [Cells -> Tags]
    /\ pinned \in SUBSET HeldCells
    /\ object = [c \in Cells |-> c]
    /\ frwd = [c \in {} |-> 0]
    /\ handle \in [Handles -> HeldCells \cup {N}]
    /\ designated = handle
    /\ to = 0 /\ from = N
    /\ phase = IF N = 0 THEN "compacted" ELSE "compact"

-----------------------------------------------------------------------------
(* One turn of the loop, which has three ends                              *)

\* The first find_if: `to` becomes t, the first cell that is free or garbage.
Vacant(t) ==
    /\ t \in to..from
    /\ \A c \in to..t-1 : tag[c] \in Held
    /\ t < from => tag[t] \notin Held

\* The second, backwards from `from` down to t: f is a cell to move from.
Movable(c) == tag[c] = "LIVE" /\ c \notin pinned
LastMovable(t, f) ==
    /\ f \in t..from-1 /\ Movable(f)
    /\ \A c \in f+1..from-1 : ~Movable(c)

\* gc_cell::move, finalize of what is left behind, forwarding::create.  If t
\* was garbage it has been finalized before.
Move(t, f) ==
    /\ phase = "compact" /\ from # to
    /\ Vacant(t) /\ t < N /\ LastMovable(t, f)
    /\ tag' = [tag EXCEPT ![t] = "LIVE", ![f] = "FREE"]
    /\ object' = [object EXCEPT ![t] = object[f]]
    /\ frwd' = [c \in DOMAIN frwd \cup {f} |-> IF c = f THEN t ELSE frwd[c]]
    /\ to' = t /\ from' = f
    /\ UNCHANGED <<pinned, handle, designated, phase>>

\* Nothing is left to be moved: the fingers meet at t.
Meet(t) ==
    /\ phase = "compact" /\ from # to
    /\ Vacant(t) /\ t < N
    /\ \A c \in t..from-1 : ~Movable(c)
    /\ tag' = [tag EXCEPT ![t] = IF @ = "GARBAGE" THEN "FREE" ELSE @]
    /\ to' = t /\ from' = t
    /\ UNCHANGED <<pinned, object, frwd, handle, designated, phase>>

\* Every cell is held: the tag that is looked at is that of the cell behind the
\* last one.  What it says is undefined, and if it says garbage that cell is
\* finalized.
PastEnd ==
    /\ phase = "compact" /\ from # to
    /\ Vacant(N)
    /\ to' = N /\ from' = N
    /\ phase' \in {"compact", "undefined"}
    /\ UNCHANGED <<tag, pinned, object, frwd, handle, designated>>

Compacted ==
    /\ phase = "compact" /\ from = to
    /\ phase' = "compacted"
    /\ UNCHANGED <<tag, pinned, object, frwd, handle, designated, to, from>>

\* forwarding::forward of every handle.
Forward(c) == IF c \in DOMAIN frwd THEN frwd[c] ELSE c
Fix ==
    /\ phase = "compacted"
    /\ handle' = [h \in Handles |-> Forward(handle[h])]
    /\ phase' = "fixed"
    /\ UNCHANGED <<tag, pinned, object, frwd, designated, to, from>>

Next ==
    \/ \E t, f \in 0..N : Move(t, f)
    \/ \E t \in 0..N : Meet(t)
    \/ PastEnd
    \/ Compacted
    \/ Fix

Spec == Init /\ [][Next]_vars

-----------------------------------------------------------------------------
(* Properties                                                              *)

\* A handle finds the object it was for: through the forward pointer until the
\* handles are fixed, without it after, when the cell it points into is no
\* longer one that was left.
HandlesFollow ==
    \A h \in Handles : handle[h] # N =>
        LET c == IF phase = "fixed" THEN handle[h] ELSE Forward(handle[h]) IN
        /\ tag[c] \in Held /\ object[c] = designated[h]
        /\ c \notin DOMAIN frwd

\* No object is lost, whatever is overwritten; and one that is pinned stays.
KeepsObjects ==
    [][/\ {object'[c] : c \in HeldCells'} = {object[c] : c \in HeldCells}
       /\ \A c \in pinned : tag'[c] \in Held /\ object'[c] = object[c]]_vars

\* When the fingers have met the objects are in front, and behind them are only
\* those that are pinned or under construction.
LiveInFront ==
    phase \in {"compacted", "fixed"} =>
        \A c, d \in Cells : tag[c] \notin Held /\ c < d => ~Movable(d)

=============================================================================
