-------------------------- MODULE ObjectDescriptor --------------------------
(***************************************************************************)
(* allocators/gc_object_descriptor: what gc_lo_allocator keeps at the      *)
(* start of the block of a large object.  A descriptor is a value here,    *)
(* and its cell the one after it.  The pin bit is left out: only           *)
(* statistics read it.                                                     *)
(***************************************************************************)
EXTENDS SizeClasses

ObjectDescriptors == [m_size : Nat, m_mark_bit : BOOLEAN, m_init_bit : BOOLEAN]

\* The constructor leaves m_init_bit as it finds it; the block is fresh from
\* mmap, or was cleared by gc_core_allocator.
NewObjectDescriptor(size) == [m_size |-> size, m_mark_bit |-> FALSE, m_init_bit |-> FALSE]

\* The size of the object: neither box nor descriptor is counted.
ObjectSize(descr) == descr.m_size

GetMark(descr) == descr.m_mark_bit
SetMark(descr, mark) == [descr EXCEPT !.m_mark_bit = mark]
IsInit(descr) == descr.m_init_bit

CommitObject(descr) == [descr EXCEPT !.m_init_bit = TRUE]

\* What finalize asserts; without assertions it runs the destructor of the type
\* that the box names, whether there is an object or not.
Finalizable(descr) == IsInit(descr)

\* The block that is given back; its size is computed from the descriptor.
DestroyedBlock(descr) == LargeBlock(ObjectSize(descr))

=============================================================================
