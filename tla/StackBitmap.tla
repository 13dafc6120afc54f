---------------------------- MODULE StackBitmap -----------------------------
(***************************************************************************)
(* collectors/stack_bitmap: where on the stack of a thread gc_ptrs live,   *)
(* as a bit for every word of the stack, in frames of 512.  Addresses are  *)
(* counted in words, and a map is a value: for each frame the set of its   *)
(* bits.  ObjectConstruction and ConcurrentMark have the set of the roots  *)
(* that trace calls back with instead.                                     *)
(***************************************************************************)
EXTENDS Integers

STACK_FRAME_SIZE == 512

\* The words past the last full frame have no bit.
FrameCount(m_stack_size) == m_stack_size \div STACK_FRAME_SIZE
Bitmaps(frame_count) == [0..frame_count-1 -> SUBSET (0..STACK_FRAME_SIZE-1)]
NewBitmap(m_stack_size) == [f \in 0..FrameCount(m_stack_size)-1 |-> {}]

\* root_idxs
FrameIdx(m_stack_addr, root) == (root - m_stack_addr) \div STACK_FRAME_SIZE
BitIdx(m_stack_addr, root) == (root - m_stack_addr) % STACK_FRAME_SIZE

RegisterRoot(m_bitmap, m_stack_addr, root) ==
    [m_bitmap EXCEPT ![FrameIdx(m_stack_addr, root)] = @ \cup {BitIdx(m_stack_addr, root)}]

DeregisterRoot(m_bitmap, m_stack_addr, root) ==
    [m_bitmap EXCEPT ![FrameIdx(m_stack_addr, root)] = @ \ {BitIdx(m_stack_addr, root)}]

\* memory_index tells a gc_ptr on the stack from one elsewhere; trace is what
\* the pause uses.  A frame without a bit is skipped as a whole.
ContainsRoot(m_bitmap, m_stack_addr, root) ==
    /\ FrameIdx(m_stack_addr, root) \in DOMAIN m_bitmap
    /\ BitIdx(m_stack_addr, root) \in m_bitmap[FrameIdx(m_stack_addr, root)]

TraceRoots(m_bitmap, m_stack_addr) ==
    UNION {{m_stack_addr + STACK_FRAME_SIZE * f + i : i \in m_bitmap[f]} : f \in DOMAIN m_bitmap}

=============================================================================
