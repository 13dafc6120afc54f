------------------------------- MODULE Bitset -------------------------------
(***************************************************************************)
(* utils/bitset.hpp: N bits kept in blocks of BLOCK_SIZE.  A block, one    *)
(* word, is the set of its bits that are 1; a mask is one as well.  The    *)
(* operations of sync_bitset are these on atomic words: each changes one   *)
(* block in one step, except those on all blocks.                          *)
(***************************************************************************)
EXTENDS Integers

CONSTANTS
    N,
    BLOCK_SIZE

ASSUME BitsetAssumption == N \in Nat \ {0} /\ BLOCK_SIZE \in Nat \ {0}

BLOCK_CNT == (N + BLOCK_SIZE - 1) \div BLOCK_SIZE

\* ZERO, and MAX of a word.
ZERO == {}
MAX == 0..BLOCK_SIZE-1

BlockIdx(i) == i \div BLOCK_SIZE
BitOffset(i) == i % BLOCK_SIZE
Mask(i) == {BitOffset(i)}

FetchAnd(block, mask) == block \cap mask
FetchOr(block, mask) == block \cup mask

Bitsets == [0..BLOCK_CNT-1 -> SUBSET MAX]

GetBit(bits, i) == Mask(i) \subseteq bits[BlockIdx(i)]

Set(bits, i) == [bits EXCEPT ![BlockIdx(i)] = FetchOr(@, Mask(i))]
Reset(bits, i) == [bits EXCEPT ![BlockIdx(i)] = FetchAnd(@, MAX \ Mask(i))]
SetTo(bits, i, val) == IF val THEN Set(bits, i) ELSE Reset(bits, i)

ResetAll == [b \in 0..BLOCK_CNT-1 |-> ZERO]
NoBit(bits) == \A b \in 0..BLOCK_CNT-1 : bits[b] = ZERO

\* The bits that are 1, as the set a bitset stands for.
Bits(bits) == {i \in 0..N-1 : GetBit(bits, i)}

=============================================================================
