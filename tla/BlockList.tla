----------------------------- MODULE BlockList ------------------------------
(***************************************************************************)
(* allocators/list_allocator.hpp: the blocks an allocator took from its    *)
(* upstream, in a doubly linked list closed by a fake block.  A list is a  *)
(* value here; m_next and m_prev are the control blocks that start each    *)
(* block, which are gone when the block goes back to the upstream.         *)
(***************************************************************************)
EXTENDS Integers, Sequences, FiniteSets, SequencesExt, Functions

CONSTANT Fake   \* the address of m_fake

NoBlocks ==
    [m_head |-> Fake, m_next |-> [x \in {Fake} |-> Fake], m_prev |-> [x \in {Fake} |-> Fake]]

\* What is met from first on along next: end again and again after it was met.
Met(first, next, end) ==
    LET at[i \in 0..Cardinality(DOMAIN next)] ==
            IF i = 0 THEN first ELSE IF at[i-1] = end THEN end ELSE next[at[i-1]]
    IN at

\* The elements up to and without end.
Walk(first, next, end) ==
    LET at == Met(first, next, end) IN
    [i \in 1..Cardinality({j \in DOMAIN at : at[j] # end}) |-> at[i-1]]

\* begin to end, and from end back.
Forward(list) == Walk(list.m_head, list.m_next, Fake)
Backward(list) == Walk(list.m_prev[Fake], list.m_prev, Fake)

AllocateBlock(list, b) ==
    LET last == list.m_prev[Fake]
        blocks == DOMAIN list.m_next \cup {b} IN
    [m_head |-> IF list.m_head = Fake THEN b ELSE list.m_head,
     m_next |-> [x \in blocks |-> IF x = b THEN Fake
                                  ELSE IF x = last THEN b ELSE list.m_next[x]],
     m_prev |-> [x \in blocks |-> IF x = b THEN last
                                  ELSE IF x = Fake THEN b ELSE list.m_prev[x]]]

DeallocateBlock(list, b) ==
    LET before == list.m_prev[b]
        after == list.m_next[b]
        rest == DOMAIN list.m_next \ {b} IN
    [m_head |-> IF list.m_head = b THEN after ELSE list.m_head,
     m_next |-> [x \in rest |-> IF x = before THEN after ELSE list.m_next[x]],
     m_prev |-> [x \in rest |-> IF x = after THEN before ELSE list.m_prev[x]]]

=============================================================================
