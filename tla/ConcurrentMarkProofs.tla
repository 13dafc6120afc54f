------------------------ MODULE ConcurrentMarkProofs ------------------------
(***************************************************************************)
(* Proofs about gc_cms, for any heap, any number of mutators and workers   *)
(* and packets of any size and number.                                     *)
(***************************************************************************)
EXTENDS ConcurrentMark, FiniteSetTheorems, SequenceTheorems, TLAPS

(* mark_packet and packet_manager.                                         *)

\* The packets that are not null, and those push_packet counts as partial.
Queues == UNION {[1..n -> Objects] : n \in 0..SIZE}
Partial == {p \in Queues : Len(p) < SIZE \div 2}
Pools == [full : Seq(Queues), partial : Seq(Partial), empty : Nat]

\* The packets in the pools.
Count(m) == m.empty + Len(m.full) + Len(m.partial)

LEMMA QueueIsSeq ==
    \A p : p \in Queues <=> p \in Seq(Objects) /\ Len(p) <= SIZE
<1> SUFFICES ASSUME NEW p PROVE p \in Queues <=> p \in Seq(Objects) /\ Len(p) <= SIZE
    OBVIOUS
<1>0. SIZE \in Nat BY PacketAssumption
<1>1. ASSUME p \in Queues PROVE p \in Seq(Objects) /\ Len(p) <= SIZE
  <2>1. PICK n \in 0..SIZE : p \in [1..n -> Objects] BY <1>1 DEF Queues
  <2> QED BY <2>1, <1>0
<1>2. ASSUME p \in Seq(Objects), Len(p) <= SIZE PROVE p \in Queues
  <2>1. Len(p) \in 0..SIZE /\ p \in [1..Len(p) -> Objects] BY <1>2, <1>0
  <2> QED BY <2>1 DEF Queues
<1> QED BY <1>1, <1>2

LEMMA PacketOrNull ==
    /\ Packets = Queues \cup {NoPacket}
    /\ NoPacket \notin Queues
    /\ Packets \ {NoPacket} = Queues
    /\ <<>> \in Queues
<1>1. Packets = Queues \cup {NoPacket} BY DEF Packets, Queues
<1>2. NoPacket \notin Queues BY QueueIsSeq, PacketAssumption
<1>3. <<>> \in Queues
  <2>1. <<>> \in Seq(Objects) /\ Len(<<>>) = 0 OBVIOUS
  <2>2. Len(<<>>) <= SIZE BY <2>1, PacketAssumption
  <2>3. <<>> \in Queues <=> <<>> \in Seq(Objects) /\ Len(<<>>) <= SIZE BY QueueIsSeq
  <2> QED BY <2>1, <2>2, <2>3
<1> QED BY <1>1, <1>2, <1>3

\* A packet with room takes one more cell.
LEMMA AppendFits ==
    ASSUME NEW p \in Queues, Len(p) < SIZE, NEW o \in Objects
    PROVE  Append(p, o) \in Queues /\ Append(p, o) # NoPacket
<1>1. p \in Seq(Objects) BY QueueIsSeq
<1>2. Append(p, o) \in Seq(Objects) /\ Len(Append(p, o)) = Len(p) + 1 BY <1>1
<1>3. Append(p, o) \in Queues
  <2>1. Len(p) + 1 <= SIZE BY <1>1, PacketAssumption
  <2>2. Append(p, o) \in Queues
        <=> Append(p, o) \in Seq(Objects) /\ Len(Append(p, o)) <= SIZE
      BY QueueIsSeq
  <2> QED BY <2>1, <2>2, <1>2
<1> QED BY <1>3, PacketOrNull

LEMMA PutOnStack ==
    ASSUME NEW S, NEW s \in Seq(S), NEW x \in S
    PROVE  <<x>> \o s \in Seq(S) /\ Len(<<x>> \o s) = Len(s) + 1
OBVIOUS

LEMMA TakeFromStack ==
    ASSUME NEW S, NEW s \in Seq(S), s # <<>>
    PROVE  Head(s) \in S /\ Tail(s) \in Seq(S) /\ Len(Tail(s)) = Len(s) - 1
OBVIOUS

\* One pool of a record of pools is replaced.
LEMMA OnePool ==
    ASSUME NEW m \in Pools
    PROVE  /\ m.full \in Seq(Queues) /\ m.partial \in Seq(Partial) /\ m.empty \in Nat
           /\ \A s \in Seq(Queues) :
                 /\ [m EXCEPT !.full = s] \in Pools
                 /\ Count([m EXCEPT !.full = s]) = m.empty + Len(s) + Len(m.partial)
           /\ \A s \in Seq(Partial) :
                 /\ [m EXCEPT !.partial = s] \in Pools
                 /\ Count([m EXCEPT !.partial = s]) = m.empty + Len(m.full) + Len(s)
           /\ \A n \in Nat :
                 /\ [m EXCEPT !.empty = n] \in Pools
                 /\ Count([m EXCEPT !.empty = n]) = n + Len(m.full) + Len(m.partial)
<1>1. m.full \in Seq(Queues) /\ m.partial \in Seq(Partial) /\ m.empty \in Nat BY DEF Pools
<1>2. m = [full |-> m.full, partial |-> m.partial, empty |-> m.empty] BY DEF Pools
<1>3. ASSUME NEW s \in Seq(Queues)
      PROVE  /\ [m EXCEPT !.full = s] \in Pools
             /\ Count([m EXCEPT !.full = s]) = m.empty + Len(s) + Len(m.partial)
  <2>1. [m EXCEPT !.full = s] = [full |-> s, partial |-> m.partial, empty |-> m.empty]
      BY <1>2
  <2> QED BY <2>1, <1>1 DEF Pools, Count
<1>4. ASSUME NEW s \in Seq(Partial)
      PROVE  /\ [m EXCEPT !.partial = s] \in Pools
             /\ Count([m EXCEPT !.partial = s]) = m.empty + Len(m.full) + Len(s)
  <2>1. [m EXCEPT !.partial = s] = [full |-> m.full, partial |-> s, empty |-> m.empty]
      BY <1>2
  <2> QED BY <2>1, <1>1 DEF Pools, Count
<1>5. ASSUME NEW n \in Nat
      PROVE  /\ [m EXCEPT !.empty = n] \in Pools
             /\ Count([m EXCEPT !.empty = n]) = n + Len(m.full) + Len(m.partial)
  <2>1. [m EXCEPT !.empty = n] = [full |-> m.full, partial |-> m.partial, empty |-> n]
      BY <1>2
  <2> QED BY <2>1, <1>1 DEF Pools, Count
<1> QED BY <1>1, <1>3, <1>4, <1>5

LEMMA CountType == \A m \in Pools : Count(m) \in Nat
<1> SUFFICES ASSUME NEW m \in Pools PROVE Count(m) \in Nat OBVIOUS
<1>1. m.full \in Seq(Queues) /\ m.partial \in Seq(Partial) /\ m.empty \in Nat BY OnePool
<1>2. Len(m.full) \in Nat /\ Len(m.partial) \in Nat BY <1>1
<1> QED BY <1>1, <1>2 DEF Count

LEMMA PushPacketCounts ==
    ASSUME NEW m \in Pools, NEW p \in Queues
    PROVE  PushPacket(m, p) \in Pools /\ Count(PushPacket(m, p)) = Count(m) + 1
<1>0. m.full \in Seq(Queues) /\ m.partial \in Seq(Partial) /\ m.empty \in Nat BY OnePool
<1> DEFINE e == m.empty
           f == Len(m.full)
           l == Len(m.partial)
<1>n. e \in Nat /\ f \in Nat /\ l \in Nat BY <1>0
<1>c. Count(m) = e + f + l BY DEF Count
<1>1. CASE p = <<>>
  <2>1. PushPacket(m, p) = [m EXCEPT !.empty = m.empty + 1] BY <1>1 DEF PushPacket
  <2>2. m.empty + 1 \in Nat BY <1>0
  <2>3. [m EXCEPT !.empty = m.empty + 1] \in Pools
        /\ Count([m EXCEPT !.empty = m.empty + 1]) = (e + 1) + f + l
      BY <2>2, OnePool
  <2>4. PushPacket(m, p) \in Pools /\ Count(PushPacket(m, p)) = (e + 1) + f + l BY <2>1, <2>3
  <2> HIDE DEF e, f, l
  <2> QED BY ONLY <2>4, <1>n, <1>c
<1>2. CASE p # <<>> /\ Len(p) < SIZE \div 2
  <2> DEFINE q == <<p>> \o m.partial
  <2>1. PushPacket(m, p) = [m EXCEPT !.partial = q] BY <1>2 DEF PushPacket
  <2>2. p \in Partial BY <1>2 DEF Partial
  <2>3. q \in Seq(Partial) /\ Len(q) = l + 1 BY <2>2, <1>0, PutOnStack
  <2> HIDE DEF q
  <2>4. [m EXCEPT !.partial = q] \in Pools /\ Count([m EXCEPT !.partial = q]) = e + f + Len(q)
      BY <2>3, OnePool
  <2> HIDE DEF e, f, l
  <2>5. PushPacket(m, p) \in Pools /\ Count(PushPacket(m, p)) = e + f + (l + 1) BY <2>1, <2>3, <2>4
  <2> QED BY ONLY <2>5, <1>n, <1>c
<1>3. CASE p # <<>> /\ ~(Len(p) < SIZE \div 2)
  <2> DEFINE q == <<p>> \o m.full
  <2>1. PushPacket(m, p) = [m EXCEPT !.full = q] BY <1>3 DEF PushPacket
  <2>3. q \in Seq(Queues) /\ Len(q) = f + 1 BY <1>0, PutOnStack
  <2> HIDE DEF q
  <2>4. [m EXCEPT !.full = q] \in Pools /\ Count([m EXCEPT !.full = q]) = e + Len(q) + l
      BY <2>3, OnePool
  <2> HIDE DEF e, f, l
  <2>5. PushPacket(m, p) \in Pools /\ Count(PushPacket(m, p)) = e + (f + 1) + l BY <2>1, <2>3, <2>4
  <2> QED BY ONLY <2>5, <1>n, <1>c
<1> QED BY <1>1, <1>2, <1>3

\* What taking a packet does to the pools: none gets lost, and there is a
\* packet unless the result is null.
LEMMA PopInputCounts ==
    ASSUME NEW m \in Pools
    PROVE  /\ PopInput(m).rest \in Pools
           /\ PopInput(m).packet \in Queues \cup {NoPacket}
           /\ Count(PopInput(m).rest) + Held01(PopInput(m).packet) = Count(m)
           /\ m.full = <<>> /\ m.partial = <<>> =>
                 PopInput(m).packet = NoPacket /\ PopInput(m).rest = m
<1>0. m.full \in Seq(Queues) /\ m.partial \in Seq(Partial) /\ m.empty \in Nat BY OnePool
<1>e. m.empty \in Nat BY <1>0
<1>l. Len(m.full) \in Nat /\ Len(m.partial) \in Nat BY <1>0
<1>c. Count(m) = m.empty + Len(m.full) + Len(m.partial) BY DEF Count
<1>1. CASE m.full # <<>>
  <2>1. PopInput(m).packet = Head(m.full) /\ PopInput(m).rest = [m EXCEPT !.full = Tail(m.full)]
      BY <1>1 DEF PopInput
  <2>2. /\ Head(m.full) \in Queues
        /\ Tail(m.full) \in Seq(Queues) /\ Len(Tail(m.full)) = Len(m.full) - 1
      BY <1>0, <1>1, TakeFromStack
  <2>3. Held01(Head(m.full)) = 1 BY <2>2, PacketOrNull DEF Held01
  <2>9. [m EXCEPT !.full = Tail(m.full)] \in Pools
        /\ Count([m EXCEPT !.full = Tail(m.full)]) = m.empty + Len(Tail(m.full)) + Len(m.partial)
      BY <2>2, OnePool
  <2> QED BY <2>1, <2>2, <2>3, <2>9, <1>0, <1>l, <1>1, <1>c
<1>2. CASE m.full = <<>> /\ m.partial # <<>>
  <2>1. PopInput(m).packet = Head(m.partial) /\ PopInput(m).rest = [m EXCEPT !.partial = Tail(m.partial)]
      BY <1>2 DEF PopInput
  <2>2. /\ Head(m.partial) \in Partial
        /\ Tail(m.partial) \in Seq(Partial) /\ Len(Tail(m.partial)) = Len(m.partial) - 1
      BY <1>0, <1>2, TakeFromStack
  <2>3. Head(m.partial) \in Queues BY <2>2 DEF Partial
  <2>4. Held01(Head(m.partial)) = 1 BY <2>3, PacketOrNull DEF Held01
  <2>9. [m EXCEPT !.partial = Tail(m.partial)] \in Pools
        /\ Count([m EXCEPT !.partial = Tail(m.partial)]) = m.empty + Len(m.full) + Len(Tail(m.partial))
      BY <2>2, OnePool
  <2> QED BY <2>1, <2>2, <2>3, <2>4, <2>9, <1>0, <1>l, <1>2, <1>c
<1>3. CASE m.full = <<>> /\ m.partial = <<>>
  <2>1. PopInput(m).packet = NoPacket /\ PopInput(m).rest = m BY <1>3 DEF PopInput
  <2>2. Held01(NoPacket) = 0 BY DEF Held01
  <2> QED BY <2>1, <2>2, <1>0, <1>3, <1>c
<1> QED BY <1>1, <1>2, <1>3

LEMMA PopOutputCounts ==
    ASSUME NEW m \in Pools
    PROVE  /\ PopOutput(m).rest \in Pools
           /\ PopOutput(m).packet \in Queues \cup {NoPacket}
           /\ PopOutput(m).packet # NoPacket => Len(PopOutput(m).packet) < SIZE
           /\ Count(PopOutput(m).rest) + Held01(PopOutput(m).packet) = Count(m)
<1>0. m.full \in Seq(Queues) /\ m.partial \in Seq(Partial) /\ m.empty \in Nat BY OnePool
<1>e. m.empty \in Nat BY <1>0
<1>l. Len(m.full) \in Nat /\ Len(m.partial) \in Nat BY <1>0
<1>c. Count(m) = m.empty + Len(m.full) + Len(m.partial) BY DEF Count
<1>1. CASE m.empty > 0
  <2>1. PopOutput(m).packet = <<>> /\ PopOutput(m).rest = [m EXCEPT !.empty = m.empty - 1]
      BY <1>1 DEF PopOutput
  <2>2. Held01(<<>>) = 1 BY PacketOrNull DEF Held01
  <2>3. Len(<<>>) < SIZE BY PacketAssumption
  <2>8. m.empty - 1 \in Nat BY <1>0, <1>1
  <2>9. [m EXCEPT !.empty = m.empty - 1] \in Pools
        /\ Count([m EXCEPT !.empty = m.empty - 1]) = (m.empty - 1) + Len(m.full) + Len(m.partial)
      BY <2>8, OnePool
  <2> QED BY <2>1, <2>2, <2>3, <2>9, <1>0, <1>l, <1>1, PacketOrNull, <1>c
<1>2. CASE m.empty = 0 /\ m.partial # <<>>
  <2>1. PopOutput(m).packet = Head(m.partial) /\ PopOutput(m).rest = [m EXCEPT !.partial = Tail(m.partial)]
      BY <1>2 DEF PopOutput
  <2>2. /\ Head(m.partial) \in Partial
        /\ Tail(m.partial) \in Seq(Partial) /\ Len(Tail(m.partial)) = Len(m.partial) - 1
      BY <1>0, <1>2, TakeFromStack
  <2>3. Head(m.partial) \in Queues /\ Len(Head(m.partial)) < SIZE \div 2 BY <2>2 DEF Partial
  <2>4. Held01(Head(m.partial)) = 1 BY <2>3, PacketOrNull DEF Held01
  <2>5. Len(Head(m.partial)) < SIZE BY <2>3, QueueIsSeq, PacketAssumption
  <2>9. [m EXCEPT !.partial = Tail(m.partial)] \in Pools
        /\ Count([m EXCEPT !.partial = Tail(m.partial)]) = m.empty + Len(m.full) + Len(Tail(m.partial))
      BY <2>2, OnePool
  <2>6. Count(PopOutput(m).rest) = m.empty + Len(m.full) + (Len(m.partial) - 1)
      BY <2>1, <2>2, <2>9
  <2>7. Held01(PopOutput(m).packet) = 1 BY <2>1, <2>4
  <2>8. Count(PopOutput(m).rest) + Held01(PopOutput(m).packet) = Count(m)
      BY <2>6, <2>7, <1>c, <1>e, <1>l
  <2> QED BY <2>1, <2>3, <2>5, <2>8, <2>9
<1>3. CASE m.empty = 0 /\ m.partial = <<>>
  <2>1. PopOutput(m).packet = NoPacket /\ PopOutput(m).rest = m BY <1>3 DEF PopOutput
  <2>2. Held01(NoPacket) = 0 BY DEF Held01
  <2> QED BY <2>1, <2>2, <1>0, <1>3, <1>c
<1> QED BY <1>0, <1>1, <1>2, <1>3

LEMMA PopOutputIsRecord ==
    ASSUME NEW m
    PROVE  PopOutput(m) = [packet |-> PopOutput(m).packet, rest |-> PopOutput(m).rest]
<1>1. CASE m.empty > 0 BY <1>1 DEF PopOutput
<1>2. CASE ~(m.empty > 0) /\ m.empty = 0 /\ m.partial # <<>> BY <1>2 DEF PopOutput
<1>3. CASE ~(m.empty > 0) /\ ~(m.empty = 0 /\ m.partial # <<>>) BY <1>3 DEF PopOutput
<1> QED BY <1>1, <1>2, <1>3

LEMMA PushOnCounts ==
    ASSUME NEW popped, popped.packet \in Queues \cup {NoPacket},
           popped.packet # NoPacket => Len(popped.packet) < SIZE, NEW o \in Objects
    PROVE  /\ PushOn(popped, o).rest = popped.rest
           /\ PushOn(popped, o).packet \in Queues \cup {NoPacket}
           /\ Held01(PushOn(popped, o).packet) = Held01(popped.packet)
<1>1. CASE popped.packet = NoPacket BY <1>1 DEF PushOn
<1>2. CASE popped.packet # NoPacket
  <2>1. Append(popped.packet, o) \in Queues /\ Append(popped.packet, o) # NoPacket
      BY <1>2, AppendFits
  <2> QED BY <1>2, <2>1 DEF PushOn, Held01
<1> QED BY <1>1, <1>2

\* Neither way of queueing a cell loses a packet, even when there is none left.
LEMMA PushRootCounts ==
    ASSUME NEW m \in Pools, NEW p \in Queues \cup {NoPacket}, NEW o \in Objects
    PROVE  /\ PushRoot(m, p, o).rest \in Pools
           /\ PushRoot(m, p, o).packet \in Queues \cup {NoPacket}
           /\ Count(PushRoot(m, p, o).rest) + Held01(PushRoot(m, p, o).packet)
              = Count(m) + Held01(p)
<1>0. \A q : Held01(q) \in {0, 1} BY DEF Held01
<1>a. \A q \in Pools : Count(q) \in Nat BY CountType
<1>1. CASE p = NoPacket
  <2>1. PushRoot(m, p, o) = PushOn(PopOutput(m), o) BY <1>1 DEF PushRoot
  <2>2. Held01(p) = 0 BY <1>1 DEF Held01
  <2> QED BY <2>1, <2>2, PopOutputCounts, PushOnCounts, <1>0, <1>a
<1>2. CASE p # NoPacket /\ Len(p) = SIZE
  <2>1. PushRoot(m, p, o) = PushOn(PopOutput(PushPacket(m, p)), o) BY <1>2 DEF PushRoot
  <2>2. Held01(p) = 1 BY <1>2 DEF Held01
  <2>3. PushPacket(m, p) \in Pools /\ Count(PushPacket(m, p)) = Count(m) + 1
      BY <1>2, PushPacketCounts
  <2> QED BY <2>1, <2>2, <2>3, PopOutputCounts, PushOnCounts, <1>0, <1>a
<1>3. CASE p # NoPacket /\ Len(p) # SIZE
  <2>1. PushRoot(m, p, o) = [packet |-> Append(p, o), rest |-> m] BY <1>3 DEF PushRoot
  <2>2. Held01(p) = 1 BY <1>3 DEF Held01
  <2>3. p \in Queues /\ Len(p) < SIZE BY <1>3, QueueIsSeq, PacketAssumption
  <2>4. Append(p, o) \in Queues /\ Append(p, o) # NoPacket BY <2>3, AppendFits
  <2>5. Held01(Append(p, o)) = 1 BY <2>4 DEF Held01
  <2> QED BY <2>1, <2>2, <2>4, <2>5, <1>a
<1> QED BY <1>1, <1>2, <1>3

LEMMA PushToPacketCounts ==
    ASSUME NEW m \in Pools, NEW p \in Queues \cup {NoPacket}, NEW o \in Objects
    PROVE  /\ PushToPacket(m, p, o).rest \in Pools
           /\ PushToPacket(m, p, o).packet \in Queues \cup {NoPacket}
           /\ Count(PushToPacket(m, p, o).rest) + Held01(PushToPacket(m, p, o).packet)
              = Count(m) + Held01(p)
<1>0. \A q : Held01(q) \in {0, 1} BY DEF Held01
<1>a. \A q \in Pools : Count(q) \in Nat BY CountType
<1>1. CASE p # NoPacket /\ Len(p) = SIZE
  <2> DEFINE next == PopOutput(m)
             popped == [packet |-> next.packet, rest |-> PushPacket(next.rest, p)]
  <2>0. next = [packet |-> next.packet, rest |-> next.rest] BY PopOutputIsRecord
  <2>1. [next EXCEPT !.rest = PushPacket(@, p)] = popped BY <2>0
  <2>2. PushToPacket(m, p, o) = PushOn(popped, o) BY <1>1, <2>1 DEF PushToPacket
  <2>3. Held01(p) = 1 BY <1>1 DEF Held01
  <2>4. next.rest \in Pools BY PopOutputCounts
  <2>5. PushPacket(next.rest, p) \in Pools
        /\ Count(PushPacket(next.rest, p)) = Count(next.rest) + 1
      BY <1>1, <2>4, PushPacketCounts
  <2>6. /\ next.packet \in Queues \cup {NoPacket}
        /\ next.packet # NoPacket => Len(next.packet) < SIZE
        /\ Count(next.rest) + Held01(next.packet) = Count(m)
      BY PopOutputCounts
  <2> HIDE DEF next
  <2>7. popped.packet = next.packet /\ popped.rest = PushPacket(next.rest, p) OBVIOUS
  <2> HIDE DEF popped
  <2>8. /\ PushOn(popped, o).rest = popped.rest
        /\ PushOn(popped, o).packet \in Queues \cup {NoPacket}
        /\ Held01(PushOn(popped, o).packet) = Held01(popped.packet)
      BY <2>6, <2>7, PushOnCounts
  <2> QED BY <2>2, <2>3, <2>4, <2>5, <2>6, <2>7, <2>8, <1>0, <1>a
<1>2. CASE ~(p # NoPacket /\ Len(p) = SIZE)
  <2> DEFINE popped == [packet |-> p, rest |-> m]
  <2>1. PushToPacket(m, p, o) = PushOn(popped, o) BY <1>2 DEF PushToPacket
  <2>2. p # NoPacket => Len(p) < SIZE BY <1>2, QueueIsSeq, PacketAssumption
  <2>3. popped.packet = p /\ popped.rest = m OBVIOUS
  <2> HIDE DEF popped
  <2>4. /\ PushOn(popped, o).rest = popped.rest
        /\ PushOn(popped, o).packet \in Queues \cup {NoPacket}
        /\ Held01(PushOn(popped, o).packet) = Held01(popped.packet)
      BY <2>2, <2>3, PushOnCounts
  <2> QED BY <2>1, <2>3, <2>4
<1> QED BY <1>1, <1>2

\* What IInv and the count of packets give is the type of packet_manager.
LEMMA PoolType ==
    ASSUME NEW m \in Pools, Count(m) <= PACKETS_COUNT
    PROVE  /\ m \in [full : Seq(Packets \ {NoPacket}), partial : Seq(Packets \ {NoPacket}),
                     empty : 0..PACKETS_COUNT]
           /\ m.empty \in Nat /\ Len(m.full) \in Nat /\ Len(m.partial) \in Nat
           /\ Count(m) \in Nat
<1>1. m.full \in Seq(Queues) /\ m.partial \in Seq(Partial) /\ m.empty \in Nat BY OnePool
<1>2. Len(m.full) \in Nat /\ Len(m.partial) \in Nat BY <1>1
<1>3. Count(m) = m.empty + Len(m.full) + Len(m.partial) BY DEF Count
<1>4. m.empty \in 0..PACKETS_COUNT BY <1>1, <1>2, <1>3, PacketAssumption
<1>5. Partial \subseteq Queues BY DEF Partial
<1>6. m.partial \in Seq(Queues) BY <1>1, <1>5
<1>7. m = [full |-> m.full, partial |-> m.partial, empty |-> m.empty] BY DEF Pools
<1>8. Count(m) \in Nat BY <1>1, <1>2, <1>3
<1> QED BY <1>1, <1>2, <1>4, <1>6, <1>7, <1>8, PacketOrNull

-----------------------------------------------------------------------------
(* The inductive invariant.                                                *)

\* Every packet is in a pool, in a worker's hands or with the collecting thread.
Accounted == Count(pool) + PacketsOut = PACKETS_COUNT

\* What worker w holds where it is.
HandOK(w) ==
    /\ input[w] # NoPacket <=> wpc[w] \in {"ready", "drain", "trace", "set"}
    /\ wpc[w] \in {"off", "start", "check", "again", "ready"} => output[w] = NoPacket
    /\ wpc[w] \in {"remset", "retry", "push"} /\ ~undefined => output[w] # NoPacket
    /\ wpc[w] \in {"trace", "set"} => cell[w] # Null
    /\ wpc[w] = "set" <=> loaded[w] # Null

Hands == \A w \in Marking : HandOK(w)

\* The phase, the place of the collecting thread and who is at work.
Control ==
    /\ cpc = "idle" <=> collector = None
    /\ m_phase = "IDLE" => cpc \in {"idle", "stop", "roots", "launch", "pins", "iterate"}
    /\ m_phase = "MARK" => cpc \in {"idle", "stop", "pins", "iterate", "mark", "work"}
    /\ m_phase = "COLLECT" => cpc = "collect"
    /\ cpc = "roots" => todo \subseteq RootsToTrace
    /\ cpc \in {"pins", "iterate"} => todo \subseteq Objects
    /\ remset_packet # NoPacket => cpc = "iterate"
    /\ \A w \in Marking : wpc[w] # "off" => m_phase = "MARK"
    /\ wpc[Main] # "off" => cpc = "work"

\* No thread is inside a write barrier while the world is stopped or idle.
Shades ==
    /\ m_phase # "MARK" \/ cpc \in PausedPC => \A t \in Mutators : shading[t] = Null
    /\ \A t \in Mutators : collector = t => shading[t] = Null

\* What is remembered belongs to the marking that goes on.
Remembered ==
    /\ m_phase # "MARK" \/ cpc \in {"mark", "work"} => m_hashtable = {}
    /\ m_phase # "MARK" \/ cpc \in {"iterate", "mark", "work"} =>
          \A t \in Mutators : ssb[t] = <<>>

\* Once the collecting thread has seen all packets empty they stay so.
Finished ==
    /\ cpc = "work" /\ wpc[Main] = "off" => IsNoInput(pool)
    /\ cpc = "collect" => IsNoInput(pool)
    /\ m_phase = "IDLE" /\ cpc \in {"idle", "stop"} => mark = {} /\ IsNoInput(pool)

\* No marking is taken for complete after a null packet was dereferenced.
Stuck == undefined => cpc # "collect" /\ ~(m_phase = "IDLE" /\ cpc \in {"idle", "stop"})

IInv ==
    /\ TypeOK /\ pool \in Pools /\ Accounted /\ Hands /\ Stuck
    /\ ~undefined => Control /\ Shades /\ Remembered /\ Finished

LEMMA MarkingFinite == IsFiniteSet(Marking) /\ Main \in Marking
<1>1. IsFiniteSet({Main}) BY FS_Singleton
<1> QED BY <1>1, FS_Union, ThreadAssumption DEF Marking

LEMMA Held01Type == \A p : Held01(p) \in {0, 1}
BY DEF Held01

\* The workers that hold a packet: f is input or output.
Holding(f) == {w \in Marking : f[w] # NoPacket}

LEMMA HoldingChanges ==
    ASSUME NEW f \in [Marking -> Packets], NEW w \in Marking, NEW p \in Packets
    PROVE  /\ Cardinality(Holding(f)) \in Nat
           /\ Cardinality(Holding([f EXCEPT ![w] = p])) \in Nat
           /\ Cardinality(Holding([f EXCEPT ![w] = p])) + Held01(f[w])
              = Cardinality(Holding(f)) + Held01(p)
<1> DEFINE g == [f EXCEPT ![w] = p]
<1>1. IsFiniteSet(Holding(f)) /\ IsFiniteSet(Holding(g))
    BY MarkingFinite, FS_Subset DEF Holding
<1>2. Cardinality(Holding(f)) \in Nat /\ Cardinality(Holding(g)) \in Nat
    BY <1>1, FS_CardinalityType
<1>3. CASE f[w] = NoPacket /\ p = NoPacket
  <2>1. Holding(g) = Holding(f) BY <1>3 DEF Holding
  <2> QED BY <2>1, <1>2, <1>3
<1>4. CASE f[w] # NoPacket /\ p # NoPacket
  <2>1. Holding(g) = Holding(f) BY <1>4 DEF Holding
  <2>2. Held01(f[w]) = 1 /\ Held01(p) = 1 BY <1>4 DEF Held01
  <2> QED BY <2>1, <2>2, <1>2
<1>5. CASE f[w] = NoPacket /\ p # NoPacket
  <2>1. Holding(g) = Holding(f) \cup {w} /\ w \notin Holding(f) BY <1>5 DEF Holding
  <2>2. Held01(f[w]) = 0 /\ Held01(p) = 1 BY <1>5 DEF Held01
  <2>3. Cardinality(Holding(g)) = Cardinality(Holding(f)) + 1
      BY <2>1, <1>1, FS_AddElement
  <2> QED BY <2>2, <2>3, <1>2
<1>6. CASE f[w] # NoPacket /\ p = NoPacket
  <2>1. Holding(g) = Holding(f) \ {w} /\ w \in Holding(f) BY <1>6 DEF Holding
  <2>2. Held01(f[w]) = 1 /\ Held01(p) = 0 BY <1>6 DEF Held01
  <2>3. Cardinality(Holding(g)) = Cardinality(Holding(f)) - 1
      BY <2>1, <1>1, FS_RemoveElement
  <2> QED BY <2>2, <2>3, <1>2
<1> QED BY <1>3, <1>4, <1>5, <1>6

\* What PacketsOut is, with the sets of holders named.
LEMMA OutOf ==
    PacketsOut = Cardinality(Holding(input)) + Cardinality(Holding(output))
                 + Held01(m_roots_packet) + Held01(remset_packet)
BY DEF PacketsOut, Holding

\* When all packets are empty and in the pool no worker has one.
LEMMA NothingOut ==
    ASSUME IInv, IsNoInput(pool)
    PROVE  /\ pool.full = <<>> /\ pool.partial = <<>>
           /\ m_roots_packet = NoPacket /\ remset_packet = NoPacket
           /\ \A w \in Marking : input[w] = NoPacket /\ output[w] = NoPacket
<1>1. pool \in Pools /\ Count(pool) + PacketsOut = PACKETS_COUNT BY DEF IInv, Accounted
<1>2. pool.empty = PACKETS_COUNT BY DEF IsNoInput
<1>3. /\ pool.full \in Seq(Queues) /\ pool.partial \in Seq(Partial)
      /\ Count(pool) = pool.empty + Len(pool.full) + Len(pool.partial)
    BY <1>1, OnePool DEF Count
<1>4. Len(pool.full) \in Nat /\ Len(pool.partial) \in Nat BY <1>3
<1>5. input \in [Marking -> Packets] /\ output \in [Marking -> Packets] BY DEF IInv, TypeOK
<1>6. IsFiniteSet(Holding(input)) /\ IsFiniteSet(Holding(output))
    BY MarkingFinite, FS_Subset DEF Holding
<1>7. Cardinality(Holding(input)) \in Nat /\ Cardinality(Holding(output)) \in Nat
    BY <1>6, FS_CardinalityType
<1>8. Held01(m_roots_packet) \in {0, 1} /\ Held01(remset_packet) \in {0, 1}
    BY Held01Type
<1>9. /\ Len(pool.full) = 0 /\ Len(pool.partial) = 0
      /\ Cardinality(Holding(input)) = 0 /\ Cardinality(Holding(output)) = 0
      /\ Held01(m_roots_packet) = 0 /\ Held01(remset_packet) = 0
  <2>1. pool.empty + Len(pool.full) + Len(pool.partial)
        + (Cardinality(Holding(input)) + Cardinality(Holding(output))
           + Held01(m_roots_packet) + Held01(remset_packet)) = PACKETS_COUNT
      BY <1>1, <1>3, OutOf
  <2>2. PACKETS_COUNT \in Nat BY PacketAssumption
  <2> DEFINE a == Len(pool.full)
             b == Len(pool.partial)
             c == Cardinality(Holding(input))
             d == Cardinality(Holding(output))
             e == Held01(m_roots_packet)
             f == Held01(remset_packet)
  <2>3. PACKETS_COUNT + a + b + (c + d + e + f) = PACKETS_COUNT BY <2>1, <1>2
  <2>4. a \in Nat /\ b \in Nat /\ c \in Nat /\ d \in Nat /\ e \in Nat /\ f \in Nat
      BY <1>4, <1>7, <1>8
  <2> HIDE DEF a, b, c, d, e, f
  <2>5. a = 0 /\ b = 0 /\ c = 0 /\ d = 0 /\ e = 0 /\ f = 0 BY <2>2, <2>3, <2>4
  <2> QED BY <2>5 DEF a, b, c, d, e, f
<1>10. Holding(input) = {} /\ Holding(output) = {} BY <1>6, <1>9, FS_EmptySet
<1>11. pool.full = <<>> /\ pool.partial = <<>> BY <1>3, <1>9
<1>12. m_roots_packet = NoPacket /\ remset_packet = NoPacket BY <1>9 DEF Held01
<1>13. \A w \in Marking : input[w] = NoPacket /\ output[w] = NoPacket
    BY <1>10 DEF Holding
<1> QED BY <1>11, <1>12, <1>13

LEMMA InitIInv == Init => IInv
<1> SUFFICES ASSUME Init PROVE IInv OBVIOUS
<1> USE DEF Init
<1>1. pool \in Pools /\ Count(pool) = PACKETS_COUNT
  <2>1. <<>> \in Seq(Queues) /\ <<>> \in Seq(Partial) OBVIOUS
  <2>2. PACKETS_COUNT \in Nat BY PacketAssumption
  <2>3. Len(<<>>) = 0 OBVIOUS
  <2>4. pool \in Pools BY <2>1, <2>2 DEF Pools
  <2>5. Count(pool) = PACKETS_COUNT + Len(<<>>) + Len(<<>>) BY DEF Count
  <2> QED BY <2>2, <2>3, <2>4, <2>5
<1>2. Accounted
  <2>1. Holding(input) = {} /\ Holding(output) = {} BY DEF Holding
  <2>2. Cardinality(Holding(input)) = 0 /\ Cardinality(Holding(output)) = 0
      BY <2>1, FS_EmptySet
  <2>3. Held01(m_roots_packet) = 0 /\ Held01(remset_packet) = 0 BY DEF Held01
  <2>4. PacketsOut = 0 BY <2>2, <2>3, OutOf
  <2> QED BY <2>4, <1>1, PacketAssumption DEF Accounted
<1>3. TypeOK
  <2>1. PACKETS_COUNT \in Nat /\ POP_REMSET_COUNT \in Nat /\ SSB_SIZE \in Nat
      BY PacketAssumption, RemsetAssumption
  <2>2. Count(pool) <= PACKETS_COUNT BY <1>1, <2>1
  <2>3. pool \in [full : Seq(Packets \ {NoPacket}), partial : Seq(Packets \ {NoPacket}),
                  empty : 0..PACKETS_COUNT]
      BY <1>1, <2>2, PoolType
  <2>4. NoPacket \in Packets BY PacketOrNull
  <2>5. ssb \in [Mutators -> Seq(Objects)] /\ \A t \in Mutators : Len(ssb[t]) <= SSB_SIZE
      BY <2>1
  <2>6. /\ live \in SUBSET Objects /\ ptr \in [Handles -> Objects \cup {Null}]
        /\ pins \in [Mutators -> SUBSET Objects] /\ mark \in SUBSET Objects
        /\ m_phase \in {"IDLE", "MARK", "COLLECT"} /\ m_hashtable \in SUBSET Objects
      OBVIOUS
  <2>7. /\ m_roots_packet \in Packets /\ remset_packet \in Packets
        /\ casts \in SUBSET Objects /\ lost \in SUBSET Objects
        /\ shading \in [Mutators -> Objects \cup {Null}]
        /\ collector \in Mutators \cup {None} /\ cpc \in {"idle", "stop"} \cup PausedPC
        /\ kind \in {"LAUNCH_CONCURRENT_MARK", "COLLECT"}
        /\ todo \in SUBSET (Roots \cup Objects)
      BY <2>4
  <2>8. wpc \in [Marking -> WorkerPC] /\ input \in [Marking -> Packets]
        /\ output \in [Marking -> Packets] /\ cell \in [Marking -> Objects \cup {Null}]
      BY <2>4 DEF WorkerPC
  <2>9. /\ fields \in [Marking -> SUBSET Fields]
        /\ loaded \in [Marking -> Objects \cup {Null}]
        /\ undefined \in BOOLEAN
      OBVIOUS
  <2>a. 0 \in 0..POP_REMSET_COUNT BY <2>1
  <2>b. taken \in [Marking -> 0..POP_REMSET_COUNT] BY <2>a
  <2> QED BY <2>3, <2>5, <2>6, <2>7, <2>8, <2>9, <2>b DEF TypeOK
<1>4. Hands BY DEF Hands, HandOK
<1>5. Stuck BY DEF Stuck
<1>6. Control BY MarkingFinite DEF Control
<1>7. Shades /\ Remembered
  <2>1. \A t \in Mutators : t # None BY ThreadAssumption
  <2> QED BY <2>1 DEF Shades, Remembered
<1>8. Finished BY DEF Finished, IsNoInput
<1> QED BY <1>1, <1>2, <1>3, <1>4, <1>5, <1>6, <1>7, <1>8 DEF IInv

-----------------------------------------------------------------------------
(* Workers.  WorkerKeeps says what a step of worker w has to establish: the *)
(* packets it moves are conserved, its hands are as its place says, and it  *)
(* leaves the pools alone when all packets are empty.                       *)

WorkersTyped ==
    /\ wpc \in [Marking -> WorkerPC]
    /\ input \in [Marking -> Packets] /\ output \in [Marking -> Packets]
    /\ cell \in [Marking -> Objects \cup {Null}] /\ fields \in [Marking -> SUBSET Fields]
    /\ loaded \in [Marking -> Objects \cup {Null}]
    /\ taken \in [Marking -> 0..POP_REMSET_COUNT]
    /\ mark \in SUBSET Objects /\ undefined \in BOOLEAN

OthersStay(w) ==
    \A x \in Marking \ {w} :
        /\ wpc'[x] = wpc[x] /\ input'[x] = input[x] /\ output'[x] = output[x]
        /\ cell'[x] = cell[x] /\ loaded'[x] = loaded[x] /\ fields'[x] = fields[x]

LEMMA WorkerKeeps ==
    ASSUME IInv, NEW w \in Marking, ~undefined, wpc[w] # "off",
           WorkerFrame, OthersStay(w), WorkersTyped',
           m_hashtable' \subseteq m_hashtable, pool' \in Pools,
           Count(pool') + Held01(input'[w]) + Held01(output'[w])
              = Count(pool) + Held01(input[w]) + Held01(output[w]),
           HandOK(w)',
           IsNoInput(pool) => pool' = pool,
           wpc'[w] = "off" => IsNoInput(pool')
    PROVE  IInv'
<1> USE DEF WorkerFrame, heapVars, collectorVars
<1>t. TypeOK BY DEF IInv
<1>u. Control /\ Shades /\ Remembered /\ Finished BY DEF IInv
<1>m. m_phase = "MARK" BY <1>u DEF Control
<1>s. WorkersTyped BY <1>t DEF WorkersTyped, TypeOK
<1>i. input' = [input EXCEPT ![w] = input'[w]] /\ input'[w] \in Packets
    BY <1>s DEF WorkersTyped, OthersStay
<1>o. output' = [output EXCEPT ![w] = output'[w]] /\ output'[w] \in Packets
    BY <1>s DEF WorkersTyped, OthersStay
<1>1. Accounted' /\ Count(pool') <= PACKETS_COUNT
  <2>1. input \in [Marking -> Packets] /\ output \in [Marking -> Packets]
      BY <1>t DEF TypeOK
  <2>2. /\ Cardinality(Holding(input)) \in Nat /\ Cardinality(Holding(input')) \in Nat
        /\ Cardinality(Holding(input')) + Held01(input[w])
           = Cardinality(Holding(input)) + Held01(input'[w])
      BY <2>1, <1>i, HoldingChanges
  <2>3. /\ Cardinality(Holding(output)) \in Nat /\ Cardinality(Holding(output')) \in Nat
        /\ Cardinality(Holding(output')) + Held01(output[w])
           = Cardinality(Holding(output)) + Held01(output'[w])
      BY <2>1, <1>o, HoldingChanges
  <2>4. PacketsOut' = Cardinality(Holding(input')) + Cardinality(Holding(output'))
                      + Held01(m_roots_packet) + Held01(remset_packet)
      BY DEF PacketsOut, Holding
  <2>5. Count(pool) + (Cardinality(Holding(input)) + Cardinality(Holding(output))
                       + Held01(m_roots_packet) + Held01(remset_packet)) = PACKETS_COUNT
      BY OutOf DEF IInv, Accounted
  <2>6. Count(pool) \in Nat /\ Count(pool') \in Nat
    <3>1. pool \in Pools /\ pool' \in Pools BY DEF IInv
    <3> QED BY <3>1 DEF Count, Pools
  <2>7. /\ Held01(m_roots_packet) \in {0, 1} /\ Held01(remset_packet) \in {0, 1}
        /\ Held01(input'[w]) \in {0, 1} /\ Held01(output'[w]) \in {0, 1}
        /\ Held01(input[w]) \in {0, 1} /\ Held01(output[w]) \in {0, 1}
      BY Held01Type
  <2>8. Count(pool') + (Cardinality(Holding(input')) + Cardinality(Holding(output'))
                        + Held01(m_roots_packet) + Held01(remset_packet)) = PACKETS_COUNT
      BY <2>2, <2>3, <2>5, <2>6, <2>7
  <2>9. Count(pool') <= PACKETS_COUNT
    <3> DEFINE a == Count(pool')
               c == Cardinality(Holding(input'))
               d == Cardinality(Holding(output'))
               e == Held01(m_roots_packet)
               f == Held01(remset_packet)
    <3>1. a + (c + d + e + f) = PACKETS_COUNT BY <2>8
    <3>2. a \in Nat /\ c \in Nat /\ d \in Nat /\ e \in Nat /\ f \in Nat
        BY <2>2, <2>3, <2>6, <2>7
    <3> HIDE DEF a, c, d, e, f
    <3>3. a <= PACKETS_COUNT BY <3>1, <3>2, PacketAssumption
    <3> QED BY <3>3 DEF a
  <2> QED BY <2>4, <2>8, <2>9 DEF Accounted, Count
<1>2. TypeOK'
  <2>1. Count(pool') <= PACKETS_COUNT BY <1>1
  <2>2. pool' \in [full : Seq(Packets \ {NoPacket}), partial : Seq(Packets \ {NoPacket}),
                   empty : 0..PACKETS_COUNT]
      BY <2>1, PoolType
  <2> QED BY <1>t, <2>2 DEF TypeOK, WorkersTyped
<1>3. Hands'
  <2>1. ASSUME NEW x \in Marking, x # w PROVE HandOK(x)'
    <3>1. HandOK(x) BY DEF IInv, Hands
    <3>2. /\ wpc'[x] = wpc[x] /\ input'[x] = input[x] /\ output'[x] = output[x]
          /\ cell'[x] = cell[x] /\ loaded'[x] = loaded[x]
        BY <2>1 DEF OthersStay
    <3> QED BY <3>1, <3>2 DEF HandOK
  <2> QED BY <2>1 DEF Hands
<1>4. Stuck'
  <2>1. cpc # "collect" BY <1>m, <1>u DEF Control
  <2> QED BY <2>1, <1>m DEF Stuck
<1>5. Control'
  <2>1. wpc[Main] # "off" => cpc = "work" BY <1>u DEF Control
  <2>2. wpc'[Main] # "off" => wpc[Main] # "off"
      BY MarkingFinite DEF OthersStay
  <2> QED BY <1>u, <1>m, <2>1, <2>2 DEF Control, RootsToTrace
<1>6. Shades' BY <1>u DEF Shades
<1>7. Remembered' BY <1>u, <1>m DEF Remembered
<1>8. Finished'
  <2>1. cpc # "collect" BY <1>m, <1>u DEF Control
  <2>2. ASSUME cpc = "work", wpc'[Main] = "off" PROVE IsNoInput(pool')
    <3>1. CASE wpc[Main] = "off"
      <4>1. IsNoInput(pool) BY <3>1, <2>2, <1>u DEF Finished
      <4> QED BY <4>1
    <3>2. CASE wpc[Main] # "off"
      <4>1. w = Main /\ wpc'[w] = "off" BY <3>2, <2>2, MarkingFinite DEF OthersStay
      <4> QED BY <4>1
    <3> QED BY <3>1, <3>2
  <2> QED BY <2>1, <2>2, <1>m DEF Finished
<1> QED BY <1>1, <1>2, <1>3, <1>4, <1>5, <1>6, <1>7, <1>8 DEF IInv

\* The values of w's own state, typed.
LEMMA WorkerTypes ==
    ASSUME IInv, NEW w \in Marking
    PROVE  /\ wpc[w] \in WorkerPC /\ input[w] \in Packets /\ output[w] \in Packets
           /\ cell[w] \in Objects \cup {Null} /\ fields[w] \in SUBSET Fields
           /\ loaded[w] \in Objects \cup {Null} /\ taken[w] \in 0..POP_REMSET_COUNT
           /\ wpc = [wpc EXCEPT ![w] = wpc[w]] /\ input = [input EXCEPT ![w] = input[w]]
           /\ output = [output EXCEPT ![w] = output[w]] /\ cell = [cell EXCEPT ![w] = cell[w]]
           /\ fields = [fields EXCEPT ![w] = fields[w]]
           /\ loaded = [loaded EXCEPT ![w] = loaded[w]]
           /\ taken = [taken EXCEPT ![w] = taken[w]]
           /\ mark \in SUBSET Objects /\ m_hashtable \in SUBSET Objects
           /\ undefined \in BOOLEAN /\ pool \in Pools /\ Count(pool) \in Nat
           /\ HandOK(w)
<1>1. pool \in Pools /\ TypeOK /\ HandOK(w) BY DEF IInv, Hands
<1>2. pool.full \in Seq(Queues) /\ pool.partial \in Seq(Partial) /\ pool.empty \in Nat
    BY <1>1, OnePool
<1>3. Count(pool) \in Nat BY <1>2 DEF Count
<1> QED BY <1>1, <1>3 DEF TypeOK

LEMMA TakeInputIInv ==
    ASSUME IInv, NEW w \in Marking, ~undefined, NEW otherwise,
           \/ wpc[w] \in {"start", "again"} /\ otherwise = "check"
           \/ wpc[w] = "retry" /\ otherwise = "push",
           TakeInput(w, otherwise)
    PROVE  IInv'
<1> DEFINE popped == PopInput(pool)
           v == IF popped.packet = NoPacket THEN otherwise
                ELSE IF output[w] = NoPacket THEN "ready" ELSE "drain"
<1> USE DEF TakeInput
<1>1. /\ popped.rest \in Pools /\ popped.packet \in Queues \cup {NoPacket}
      /\ Count(popped.rest) + Held01(popped.packet) = Count(pool)
      /\ pool.full = <<>> /\ pool.partial = <<>> =>
            popped.packet = NoPacket /\ popped.rest = pool
    BY PopInputCounts, WorkerTypes
<1>2. /\ wpc' = [wpc EXCEPT ![w] = v] /\ input' = [input EXCEPT ![w] = popped.packet]
      /\ pool' = popped.rest
      /\ UNCHANGED <<mark, m_hashtable, output, cell, fields, loaded, taken, undefined>>
    BY DEF scanVars
<1>3. v \in WorkerPC /\ v # "off" /\ wpc[w] # "off" BY DEF WorkerPC
<1>4. popped.packet \in Packets BY <1>1, PacketOrNull
<1>5. IsNoInput(pool) => pool' = pool BY <1>1, <1>2, NothingOut
<1>6. /\ wpc'[w] = v /\ input'[w] = popped.packet
      /\ output'[w] = output[w] /\ cell'[w] = cell[w] /\ loaded'[w] = loaded[w]
    BY <1>2 DEF IInv, TypeOK
<1>7. Count(pool') + Held01(input'[w]) + Held01(output'[w])
      = Count(pool) + Held01(input[w]) + Held01(output[w])
  <2>1. Count(pool') = Count(popped.rest) BY <1>2
  <2>2. Count(popped.rest) \in Nat
    <3> HIDE DEF popped
    <3> QED BY ONLY <1>1, CountType
  <2>3. input[w] = NoPacket /\ Held01(input[w]) = 0 BY WorkerTypes DEF HandOK, Held01
  <2> QED BY <1>1, <1>6, <2>1, <2>2, <2>3, WorkerTypes, Held01Type
<1>8. HandOK(w)'
  <2>1. HandOK(w) BY WorkerTypes
  <2> QED BY <1>2, <1>6, <2>1 DEF HandOK
<1>9. OthersStay(w) BY <1>2 DEF OthersStay, IInv, TypeOK
<1>10. WorkersTyped' BY <1>2, <1>3, <1>4 DEF WorkersTyped, IInv, TypeOK
<1>11. pool' \in Pools /\ m_hashtable' \subseteq m_hashtable BY <1>1, <1>2
<1>12. wpc'[w] # "off" BY <1>3, <1>6
<1>13. WorkerFrame OBVIOUS
<1> QED BY <1>3, <1>5, <1>7, <1>8, <1>9, <1>10, <1>11, <1>12, <1>13, WorkerKeeps

LEMMA RemsetTakenIInv ==
    ASSUME IInv, NEW w \in Marking, RemsetTaken(w)
    PROVE  IInv'
<1> USE DEF RemsetTaken, On, scanVars
<1>1. ~undefined /\ wpc[w] # "off" /\ WorkerFrame OBVIOUS
<1>t. TypeOK /\ HandOK(w) BY DEF IInv, Hands
<1>2. OthersStay(w) BY <1>t DEF OthersStay, TypeOK
<1>3. WorkersTyped' BY <1>t, RemsetAssumption DEF WorkersTyped, TypeOK, WorkerPC
<1>4. pool' \in Pools /\ pool' = pool /\ m_hashtable' = m_hashtable /\ output'[w] = output[w]
    BY DEF IInv
<1>5. input'[w] = input[w] OBVIOUS
<1>6. HandOK(w)' BY <1>t DEF HandOK, TypeOK
<1>7. wpc'[w] # "off" BY <1>t DEF TypeOK
<1> HIDE DEF RemsetTaken, On
<1> QED BY <1>1, <1>2, <1>3, <1>4, <1>5, <1>6, <1>7, WorkerKeeps

LEMMA CheckIInv ==
    ASSUME IInv, NEW w \in Marking, Check(w)
    PROVE  IInv'
<1> USE DEF Check, On, scanVars
<1>1. ~undefined /\ wpc[w] # "off" /\ WorkerFrame OBVIOUS
<1>t. TypeOK /\ HandOK(w) BY DEF IInv, Hands
<1>2. OthersStay(w) BY <1>t DEF OthersStay, TypeOK
<1>3. WorkersTyped' BY <1>t DEF WorkersTyped, TypeOK, WorkerPC
<1>4. pool' \in Pools /\ pool' = pool /\ m_hashtable' = m_hashtable /\ output'[w] = output[w]
    BY DEF IInv
<1>5. input'[w] = input[w] OBVIOUS
<1>6. HandOK(w)' BY <1>t DEF HandOK, TypeOK
<1>7. wpc'[w] = "off" => IsNoInput(pool') BY <1>4, <1>t DEF TypeOK
<1> HIDE DEF Check, On
<1> QED BY <1>1, <1>2, <1>3, <1>4, <1>5, <1>6, <1>7, WorkerKeeps

LEMMA PopCellIInv ==
    ASSUME IInv, NEW w \in Marking, PopCell(w)
    PROVE  IInv'
<1> USE DEF PopCell, On, scanVars
<1>1. ~undefined /\ wpc[w] # "off" /\ WorkerFrame OBVIOUS
<1>t. TypeOK /\ HandOK(w) BY DEF IInv, Hands
<1>p. /\ input[w] \in Queues /\ input[w][Len(input[w])] \in Objects
      /\ SubSeq(input[w], 1, Len(input[w]) - 1) \in Packets \ {NoPacket}
  <2>1. input[w] \in Queues /\ input[w] # <<>> BY <1>t, PacketOrNull DEF HandOK, TypeOK
  <2>2. input[w] \in Seq(Objects) /\ Len(input[w]) <= SIZE BY <2>1, QueueIsSeq
  <2>3. Len(input[w]) \in 1..Len(input[w]) BY <2>1, <2>2
  <2>4. /\ SubSeq(input[w], 1, Len(input[w]) - 1) \in Seq(Objects)
        /\ Len(SubSeq(input[w], 1, Len(input[w]) - 1)) = Len(input[w]) - 1
      BY <2>2, <2>3
  <2>5. Len(SubSeq(input[w], 1, Len(input[w]) - 1)) <= SIZE
      BY <2>2, <2>3, <2>4, PacketAssumption
  <2>6. SubSeq(input[w], 1, Len(input[w]) - 1) \in Queues BY <2>4, <2>5, QueueIsSeq
  <2>7. input[w][Len(input[w])] \in Objects BY <2>2, <2>3
  <2> QED BY <2>1, <2>6, <2>7, PacketOrNull
<1>2. OthersStay(w) BY <1>t DEF OthersStay, TypeOK
<1>3. WorkersTyped' BY <1>t, <1>p DEF WorkersTyped, TypeOK, WorkerPC
<1>4. pool' \in Pools /\ pool' = pool /\ m_hashtable' = m_hashtable /\ output'[w] = output[w]
    BY DEF IInv
<1>5. input'[w] # NoPacket /\ Held01(input'[w]) = Held01(input[w])
  <2>1. input'[w] = SubSeq(input[w], 1, Len(input[w]) - 1) BY <1>t DEF TypeOK
  <2>2. input[w] # NoPacket BY <1>p, PacketOrNull
  <2> QED BY <2>1, <2>2, <1>p DEF Held01
<1>6. HandOK(w)'
  <2>1. cell'[w] # Null BY <1>p, <1>t, HeapAssumption DEF TypeOK
  <2>2. wpc'[w] = "trace" /\ loaded'[w] = loaded[w] BY <1>t DEF TypeOK
  <2> QED BY <1>t, <1>4, <1>5, <2>1, <2>2 DEF HandOK
<1>7. wpc'[w] # "off" BY <1>t DEF TypeOK
<1> HIDE DEF PopCell, On
<1> QED BY <1>1, <1>2, <1>3, <1>4, <1>5, <1>6, <1>7, WorkerKeeps

LEMMA CellTracedIInv ==
    ASSUME IInv, NEW w \in Marking, CellTraced(w)
    PROVE  IInv'
<1> USE DEF CellTraced, On, scanVars
<1>1. ~undefined /\ wpc[w] # "off" /\ WorkerFrame OBVIOUS
<1>t. TypeOK /\ HandOK(w) BY DEF IInv, Hands
<1>2. OthersStay(w) BY <1>t DEF OthersStay, TypeOK
<1>3. WorkersTyped' BY <1>t DEF WorkersTyped, TypeOK, WorkerPC
<1>4. pool' \in Pools /\ pool' = pool /\ m_hashtable' = m_hashtable /\ output'[w] = output[w]
    BY DEF IInv
<1>5. input'[w] = input[w] OBVIOUS
<1>6. HandOK(w)' BY <1>t DEF HandOK, TypeOK
<1>7. wpc'[w] # "off" BY <1>t DEF TypeOK
<1> HIDE DEF CellTraced, On
<1> QED BY <1>1, <1>2, <1>3, <1>4, <1>5, <1>6, <1>7, WorkerKeeps

LEMMA TraceLoadIInv ==
    ASSUME IInv, NEW w \in Marking, NEW f \in fields[w], TraceLoad(w, f)
    PROVE  IInv'
<1> USE DEF TraceLoad, On, scanVars
<1>1. ~undefined /\ wpc[w] # "off" /\ WorkerFrame OBVIOUS
<1>t. TypeOK /\ HandOK(w) BY DEF IInv, Hands
<1>p. ptr[<<cell[w], f>>] \in Objects \cup {Null}
  <2>1. cell[w] \in Objects /\ f \in Fields BY <1>t DEF HandOK, TypeOK
  <2>2. <<cell[w], f>> \in Handles BY <2>1 DEF Handles
  <2> QED BY <2>2, <1>t DEF TypeOK
<1>2. OthersStay(w) BY <1>t DEF OthersStay, TypeOK
<1>3. WorkersTyped' BY <1>t, <1>p DEF WorkersTyped, TypeOK, WorkerPC
<1>4. pool' \in Pools /\ pool' = pool /\ m_hashtable' = m_hashtable /\ output'[w] = output[w]
    BY DEF IInv
<1>5. input'[w] = input[w] OBVIOUS
<1>6. HandOK(w)'
  <2>1. CASE ptr[<<cell[w], f>>] = Null \/ ptr[<<cell[w], f>>] \in mark
    <3>1. wpc'[w] = wpc[w] /\ loaded'[w] = loaded[w] BY <2>1
    <3> QED BY <3>1, <1>t, <1>4, <1>5 DEF HandOK
  <2>2. CASE ~(ptr[<<cell[w], f>>] = Null \/ ptr[<<cell[w], f>>] \in mark)
    <3>1. wpc'[w] = "set" /\ loaded'[w] # Null BY <2>2, <1>t DEF TypeOK
    <3> QED BY <3>1, <1>t, <1>4, <1>5 DEF HandOK
  <2> QED BY <2>1, <2>2
<1>7. wpc'[w] # "off" BY <1>t DEF TypeOK
<1> HIDE DEF TraceLoad, On
<1> QED BY <1>1, <1>2, <1>3, <1>4, <1>5, <1>6, <1>7, WorkerKeeps

LEMMA PushOutputIInv == ASSUME IInv, NEW w \in Marking, PushOutput(w) PROVE IInv'
<1> USE DEF PushOutput, On, scanVars
<1>1. ~undefined /\ wpc[w] # "off" /\ WorkerFrame OBVIOUS
<1>t. TypeOK /\ HandOK(w) /\ pool \in Pools BY DEF IInv, Hands
<1>p. output[w] \in Queues BY <1>t, PacketOrNull DEF HandOK, TypeOK
<1>2. OthersStay(w) BY <1>t DEF OthersStay, TypeOK
<1>3. WorkersTyped' BY <1>t, PacketOrNull DEF WorkersTyped, TypeOK, WorkerPC
<1>4. pool' \in Pools /\ Count(pool') = Count(pool) + 1
    BY <1>t, <1>p, PushPacketCounts
<1>5. input'[w] = input[w] /\ output'[w] = NoPacket BY <1>t DEF TypeOK
<1>6. Count(pool') + Held01(input'[w]) + Held01(output'[w])
      = Count(pool) + Held01(input[w]) + Held01(output[w])
  <2>1. Held01(output'[w]) = 0 /\ Held01(output[w]) = 1
      BY <1>5, <1>p, PacketOrNull DEF Held01
  <2> QED BY <2>1, <1>4, <1>5, WorkerTypes, Held01Type
<1>7. HandOK(w)' BY <1>t DEF HandOK, TypeOK
<1>8. wpc'[w] # "off" BY <1>t DEF TypeOK
<1>9. ~IsNoInput(pool) BY <1>p, NothingOut, PacketOrNull
<1>10. m_hashtable' \subseteq m_hashtable OBVIOUS
<1> HIDE DEF PushOutput, On
<1> QED BY <1>1, <1>2, <1>3, <1>4, <1>6, <1>7, <1>8, <1>9, <1>10, WorkerKeeps

LEMMA ReadyIInv == ASSUME IInv, NEW w \in Marking, Ready(w) PROVE IInv'
<1> DEFINE popped == PopOutput(pool)
<1> USE DEF Ready, On, scanVars
<1>1. ~undefined /\ wpc[w] # "off" /\ WorkerFrame OBVIOUS
<1>t. TypeOK /\ HandOK(w) /\ pool \in Pools BY DEF IInv, Hands
<1>p. /\ popped.rest \in Pools /\ popped.packet \in Packets
      /\ Count(popped.rest) + Held01(popped.packet) = Count(pool)
    BY <1>t, PopOutputCounts, PacketOrNull
<1>2. OthersStay(w) BY <1>t DEF OthersStay, TypeOK
<1>3. WorkersTyped' BY <1>t, <1>p DEF WorkersTyped, TypeOK, WorkerPC
<1>4. pool' \in Pools /\ pool' = popped.rest BY <1>p
<1>5. input'[w] = input[w] /\ output'[w] = popped.packet BY <1>t DEF TypeOK
<1>6. Count(pool') + Held01(input'[w]) + Held01(output'[w])
      = Count(pool) + Held01(input[w]) + Held01(output[w])
  <2>1. Held01(output[w]) = 0 BY <1>t DEF HandOK, Held01
  <2>2. Count(pool') = Count(popped.rest) BY <1>4
  <2>3. Count(popped.rest) \in Nat BY <1>p, CountType
  <2> QED BY <2>1, <2>2, <2>3, <1>p, <1>5, WorkerTypes, Held01Type
<1>7. HandOK(w)' BY <1>t DEF HandOK, TypeOK
<1>8. wpc'[w] # "off" BY <1>t DEF TypeOK
<1>9. ~IsNoInput(pool) BY <1>t, NothingOut DEF HandOK
<1>10. m_hashtable' \subseteq m_hashtable OBVIOUS
<1> HIDE DEF Ready, On, popped
<1> QED BY <1>1, <1>2, <1>3, <1>4, <1>6, <1>7, <1>8, <1>9, <1>10, WorkerKeeps

LEMMA TakeRemsetIInv == ASSUME IInv, NEW w \in Marking, TakeRemset(w) PROVE IInv'
<1> USE DEF TakeRemset, On, scanVars
<1>1. ~undefined /\ wpc[w] # "off" /\ WorkerFrame OBVIOUS
<1>t. TypeOK /\ HandOK(w) /\ pool \in Pools BY DEF IInv, Hands
<1>o. PICK o \in m_hashtable :
        LET pushed == PushToPacket(pool, output[w], o) IN
        /\ m_hashtable' = m_hashtable \ {o}
        /\ output' = [output EXCEPT ![w] = pushed.packet]
        /\ pool' = pushed.rest
        /\ undefined' = (pushed.packet = NoPacket)
    OBVIOUS
<1> DEFINE pushed == PushToPacket(pool, output[w], o)
<1>p. /\ pushed.rest \in Pools /\ pushed.packet \in Packets
      /\ Count(pushed.rest) + Held01(pushed.packet) = Count(pool) + Held01(output[w])
  <2>1. o \in Objects BY <1>t DEF TypeOK
  <2>2. output[w] \in Queues \cup {NoPacket} BY <1>t, PacketOrNull DEF TypeOK
  <2> QED BY <2>1, <2>2, <1>t, PushToPacketCounts, PacketOrNull
<1> HIDE DEF pushed
<1>q. /\ m_hashtable' = m_hashtable \ {o} /\ pool' = pushed.rest
      /\ output' = [output EXCEPT ![w] = pushed.packet]
      /\ undefined' = (pushed.packet = NoPacket)
      /\ taken' = [taken EXCEPT ![w] = @ + 1] /\ taken[w] < POP_REMSET_COUNT
      /\ UNCHANGED <<mark, wpc, input, cell, fields, loaded>>
    BY <1>o DEF pushed
<1> HIDE DEF TakeRemset
<1>2. OthersStay(w) BY <1>t, <1>q DEF OthersStay, TypeOK
<1>3. WorkersTyped'
  <2>1. taken[w] + 1 \in 0..POP_REMSET_COUNT BY <1>t, <1>q, RemsetAssumption DEF TypeOK
  <2>2. undefined' \in BOOLEAN BY <1>q
  <2> QED BY <1>t, <1>p, <1>q, <2>1, <2>2 DEF WorkersTyped, TypeOK
<1>4. pool' \in Pools BY <1>p, <1>q
<1>5. input'[w] = input[w] /\ output'[w] = pushed.packet BY <1>t, <1>q DEF TypeOK
<1>6. Count(pool') + Held01(input'[w]) + Held01(output'[w])
      = Count(pool) + Held01(input[w]) + Held01(output[w])
  <2>1. Count(pool') = Count(pushed.rest) BY <1>q
  <2>2. Count(pushed.rest) \in Nat BY <1>p, CountType
  <2> QED BY <2>1, <2>2, <1>p, <1>5, WorkerTypes, Held01Type
<1>r. wpc[w] = "remset" BY DEF TakeRemset
<1>7. HandOK(w)' BY <1>t, <1>q, <1>5, <1>r DEF HandOK
<1>8. wpc'[w] # "off" BY <1>q, <1>1
<1>9. ~IsNoInput(pool) BY <1>t, <1>r, <1>1, NothingOut DEF HandOK
<1>10. m_hashtable' \subseteq m_hashtable BY <1>q
<1> HIDE DEF On
<1> QED BY <1>1, <1>2, <1>3, <1>4, <1>6, <1>7, <1>8, <1>9, <1>10, WorkerKeeps

LEMMA TraceMarkIInv == ASSUME IInv, NEW w \in Marking, TraceMark(w) PROVE IInv'
<1> DEFINE pushed == PushToPacket(pool, output[w], loaded[w])
<1> USE DEF TraceMark, On, scanVars
<1>1. ~undefined /\ wpc[w] # "off" /\ WorkerFrame OBVIOUS
<1>t. TypeOK /\ HandOK(w) /\ pool \in Pools BY DEF IInv, Hands
<1>l. loaded[w] \in Objects BY <1>t DEF HandOK, TypeOK
<1>p. /\ pushed.rest \in Pools /\ pushed.packet \in Packets
      /\ Count(pushed.rest) + Held01(pushed.packet) = Count(pool) + Held01(output[w])
  <2>2. output[w] \in Queues \cup {NoPacket} BY <1>t, PacketOrNull DEF TypeOK
  <2> QED BY <2>2, <1>l, <1>t, PushToPacketCounts, PacketOrNull
<1>q. \/ /\ mark' = mark \cup {loaded[w]}
         /\ output' = [output EXCEPT ![w] = pushed.packet] /\ pool' = pushed.rest
         /\ undefined' = (pushed.packet = NoPacket)
      \/ UNCHANGED <<mark, output, pool, undefined>>
    OBVIOUS
<1>2. OthersStay(w) BY <1>t, <1>q DEF OthersStay, TypeOK
<1>a. /\ wpc' = [wpc EXCEPT ![w] = "trace"] /\ loaded' = [loaded EXCEPT ![w] = Null]
      /\ UNCHANGED <<m_hashtable, input, cell, fields, taken>> /\ wpc[w] = "set"
    OBVIOUS
<1> HIDE DEF TraceMark, pushed
<1>3. WorkersTyped'
  <2>1. undefined' \in BOOLEAN /\ mark' \in SUBSET Objects /\ output' \in [Marking -> Packets]
      BY <1>t, <1>l, <1>p, <1>q DEF TypeOK
  <2> QED BY <1>t, <1>a, <2>1 DEF WorkersTyped, TypeOK, WorkerPC
<1>4. pool' \in Pools BY <1>p, <1>q, <1>t
<1>5. input'[w] = input[w] /\ wpc'[w] = "trace" /\ loaded'[w] = Null /\ cell'[w] = cell[w]
    BY <1>t, <1>a DEF TypeOK
<1>6. Count(pool') + Held01(input'[w]) + Held01(output'[w])
      = Count(pool) + Held01(input[w]) + Held01(output[w])
  <2>1. CASE UNCHANGED <<mark, output, pool, undefined>>
    <3>1. Count(pool') = Count(pool) /\ output'[w] = output[w] BY <2>1
    <3> QED BY <3>1, <1>5
  <2>2. CASE output' = [output EXCEPT ![w] = pushed.packet] /\ pool' = pushed.rest
    <3>1. Count(pool') = Count(pushed.rest) /\ output'[w] = pushed.packet
        BY <2>2, <1>t DEF TypeOK
    <3>2. Count(pushed.rest) \in Nat BY <1>p, CountType
    <3> QED BY <3>1, <3>2, <1>p, <1>5, WorkerTypes, Held01Type
  <2> QED BY <2>1, <2>2, <1>q
<1>7. HandOK(w)' BY <1>t, <1>a, <1>5 DEF HandOK
<1>8. wpc'[w] # "off" BY <1>5
<1>9. ~IsNoInput(pool) BY <1>t, <1>a, NothingOut DEF HandOK
<1>10. m_hashtable' \subseteq m_hashtable BY <1>a
<1> HIDE DEF On
<1> QED BY <1>1, <1>2, <1>3, <1>4, <1>6, <1>7, <1>8, <1>9, <1>10, WorkerKeeps

LEMMA SwapIInv == ASSUME IInv, NEW w \in Marking, Swap(w) PROVE IInv'
<1> DEFINE popped == PopInput(pool)
           v == IF popped.packet # NoPacket
                THEN IF output[w] = NoPacket THEN "ready" ELSE "drain"
                ELSE IF output[w] = NoPacket THEN "check" ELSE "remset"
<1> USE DEF Swap, On, scanVars
<1>1. ~undefined /\ wpc[w] # "off" /\ WorkerFrame OBVIOUS
<1>t. TypeOK /\ HandOK(w) /\ pool \in Pools BY DEF IInv, Hands
<1>p. /\ popped.rest \in Pools /\ popped.packet \in Packets
      /\ Count(popped.rest) + Held01(popped.packet) = Count(pool)
    BY <1>t, PopInputCounts, PacketOrNull
<1>q. /\ PushPacket(popped.rest, <<>>) \in Pools
      /\ Count(PushPacket(popped.rest, <<>>)) = Count(popped.rest) + 1
    BY <1>p, PushPacketCounts, PacketOrNull
<1>a. /\ wpc' = [wpc EXCEPT ![w] = v] /\ input' = [input EXCEPT ![w] = popped.packet]
      /\ pool' = PushPacket(popped.rest, <<>>) /\ wpc[w] = "drain" /\ input[w] = <<>>
      /\ UNCHANGED <<mark, m_hashtable, output, cell, fields, loaded, taken, undefined>>
    OBVIOUS
<1> HIDE DEF Swap, popped
<1>2. OthersStay(w) BY <1>t, <1>a DEF OthersStay, TypeOK
<1>3. WorkersTyped' BY <1>t, <1>a, <1>p DEF WorkersTyped, TypeOK, WorkerPC
<1>4. pool' \in Pools BY <1>q, <1>a
<1>5. /\ input'[w] = popped.packet /\ output'[w] = output[w] /\ wpc'[w] = v
      /\ cell'[w] = cell[w] /\ loaded'[w] = loaded[w]
    BY <1>t, <1>a DEF TypeOK
<1>6. Count(pool') + Held01(input'[w]) + Held01(output'[w])
      = Count(pool) + Held01(input[w]) + Held01(output[w])
  <2>1. Count(pool') = Count(popped.rest) + 1 BY <1>a, <1>q
  <2>2. Count(popped.rest) \in Nat BY <1>p, CountType
  <2>3. Held01(input[w]) = 1 BY <1>a, PacketOrNull DEF Held01
  <2> QED BY <2>1, <2>2, <2>3, <1>p, <1>5, WorkerTypes, Held01Type
<1>7. HandOK(w)' BY <1>t, <1>a, <1>5 DEF HandOK
<1>8. wpc'[w] # "off" BY <1>5
<1>9. ~IsNoInput(pool) BY <1>t, <1>a, NothingOut DEF HandOK
<1>10. m_hashtable' \subseteq m_hashtable BY <1>a
<1> HIDE DEF On, v
<1> QED BY <1>1, <1>2, <1>3, <1>4, <1>6, <1>7, <1>8, <1>9, <1>10, WorkerKeeps

LEMMA WorkerIInv == ASSUME IInv, NEW w \in Marking, Worker(w) PROVE IInv'
<1>1. CASE Start(w) BY <1>1, TakeInputIInv DEF Start, On
<1>2. CASE Retry(w) BY <1>2, TakeInputIInv DEF Retry, On
<1>3. CASE Again(w) BY <1>3, TakeInputIInv DEF Again, On
<1>4. CASE \E f \in fields[w] : TraceLoad(w, f) BY <1>4, TraceLoadIInv
<1> QED BY <1>1, <1>2, <1>3, <1>4, TakeRemsetIInv, RemsetTakenIInv, PushOutputIInv, CheckIInv,
           ReadyIInv, PopCellIInv, CellTracedIInv, TraceMarkIInv, SwapIInv DEF Worker

-----------------------------------------------------------------------------
(* Mutators.                                                               *)

LEMMA HandsKept ==
    ASSUME IInv, UNCHANGED <<wpc, input, output, cell, loaded>>, ~undefined
    PROVE  Hands'
BY DEF IInv, Hands, HandOK

\* What a mutator may change, typed.
HeapTyped ==
    /\ live \in SUBSET Objects /\ ptr \in [Handles -> Objects \cup {Null}]
    /\ pins \in [Mutators -> SUBSET Objects] /\ mark \in SUBSET Objects
    /\ m_hashtable \in SUBSET Objects /\ ssb \in [Mutators -> Seq(Objects)]
    /\ \A t \in Mutators : Len(ssb[t]) <= SSB_SIZE
    /\ casts \in SUBSET Objects /\ lost \in SUBSET Objects
    /\ shading \in [Mutators -> Objects \cup {Null}]

LEMMA MutatorKeeps ==
    ASSUME IInv, NEW t \in Mutators, Running(t),
           UNCHANGED <<m_phase, pool, collectorVars, workerVars, undefined>>,
           HeapTyped', \A u \in Mutators \ {t} : shading'[u] = shading[u],
           m_phase # "MARK" => /\ shading'[t] = Null /\ mark' = mark
                               /\ UNCHANGED <<m_hashtable, ssb>>
    PROVE  IInv'
<1> USE DEF Running, collectorVars, workerVars, scanVars
<1>t. TypeOK BY DEF IInv
<1>u. Control /\ Shades /\ Remembered /\ Finished BY DEF IInv
<1>1. TypeOK' BY <1>t DEF TypeOK, HeapTyped
<1>2. pool' \in Pools /\ Accounted' BY DEF IInv, Accounted, Count, PacketsOut
<1>3. Hands' BY HandsKept
<1>4. Stuck' BY DEF Stuck
<1>5. Control'
  <2>1. cpc # "roots" BY DEF PausedPC
  <2> QED BY <2>1, <1>u DEF Control
<1>6. Shades'
  <2>1. collector # t /\ cpc \notin PausedPC OBVIOUS
  <2> QED BY <2>1, <1>u DEF Shades
<1>7. Remembered'
  <2>1. cpc \notin {"iterate", "mark", "work"} BY DEF PausedPC
  <2> QED BY <2>1, <1>u DEF Remembered
<1>8. Finished' BY <1>u DEF Finished, IsNoInput
<1> QED BY <1>1, <1>2, <1>3, <1>4, <1>5, <1>6, <1>7, <1>8 DEF IInv

LEMMA GcNewIInv ==
    ASSUME IInv, NEW t \in Mutators, NEW o \in Objects, NEW r \in Roots, GcNew(t, o, r)
    PROVE  IInv'
<1> USE DEF GcNew, remsetVars
<1>t. HeapTyped BY DEF IInv, TypeOK, HeapTyped
<1>1. ptr' \in [Handles -> Objects \cup {Null}] BY <1>t DEF HeapTyped
<1>2. HeapTyped' BY <1>t, <1>1 DEF HeapTyped
<1>3. m_phase # "MARK" => shading'[t] = Null /\ mark' = mark /\ UNCHANGED <<m_hashtable, ssb>>
    OBVIOUS
<1>4. /\ Running(t) /\ shading' = shading
      /\ UNCHANGED <<m_phase, pool, collectorVars, workerVars, undefined>>
    OBVIOUS
<1> HIDE DEF GcNew
<1> QED BY <1>2, <1>3, <1>4, MutatorKeeps

LEMMA WbarrierStoreIInv ==
    ASSUME IInv, NEW t \in Mutators, NEW dst \in Handles, NEW p \in Objects \cup {Null},
           WbarrierStore(t, dst, p)
    PROVE  IInv'
<1> USE DEF WbarrierStore, remsetVars
<1>t. HeapTyped BY DEF IInv, TypeOK, HeapTyped
<1>2. HeapTyped' BY <1>t DEF HeapTyped
<1>3. m_phase # "MARK" => shading'[t] = Null /\ mark' = mark /\ UNCHANGED <<m_hashtable, ssb>>
    BY <1>t DEF HeapTyped
<1>4. /\ Running(t) /\ \A u \in Mutators \ {t} : shading'[u] = shading[u]
      /\ UNCHANGED <<m_phase, pool, collectorVars, workerVars, undefined>>
    BY <1>t DEF HeapTyped
<1> HIDE DEF WbarrierStore
<1> QED BY <1>2, <1>3, <1>4, MutatorKeeps

LEMMA WbarrierShadeIInv == ASSUME IInv, NEW t \in Mutators, WbarrierShade(t) PROVE IInv'
<1> USE DEF WbarrierShade, remsetVars
<1>t. HeapTyped BY DEF IInv, TypeOK, HeapTyped
<1>1. m_phase = "MARK" BY DEF IInv, Shades, Running
<1>2. m_hashtable' \in SUBSET Objects /\ ssb' \in [Mutators -> Seq(Objects)]
      /\ \A u \in Mutators : Len(ssb'[u]) <= SSB_SIZE
  <2>0. shading[t] \in Objects /\ ssb[t] \in Seq(Objects) /\ Len(ssb[t]) \in Nat
      /\ SSB_SIZE \in Nat \ {0}
      BY <1>t, RemsetAssumption DEF HeapTyped
  <2>1. CASE shading[t] \in mark BY <2>1, <1>t DEF HeapTyped
  <2>2. CASE shading[t] \notin mark /\ Len(ssb[t]) = SSB_SIZE
    <3>1. m_hashtable' = m_hashtable \cup {ssb[t][i] : i \in 1..SSB_SIZE}
          /\ ssb' = [ssb EXCEPT ![t] = <<shading[t]>>]
        BY <2>2 DEF RemsetAdd
    <3>2. \A i \in 1..SSB_SIZE : ssb[t][i] \in Objects BY <2>0, <2>2
    <3>3. <<shading[t]>> \in Seq(Objects) /\ Len(<<shading[t]>>) <= SSB_SIZE BY <2>0
    <3> QED BY <3>1, <3>2, <3>3, <1>t DEF HeapTyped
  <2>3. CASE shading[t] \notin mark /\ Len(ssb[t]) # SSB_SIZE
    <3>1. m_hashtable' = m_hashtable /\ ssb' = [ssb EXCEPT ![t] = Append(@, shading[t])]
        BY <2>3 DEF RemsetAdd
    <3>2. Len(ssb[t]) <= SSB_SIZE BY <1>t DEF HeapTyped
    <3>3. Append(ssb[t], shading[t]) \in Seq(Objects)
          /\ Len(Append(ssb[t], shading[t])) = Len(ssb[t]) + 1
        BY <2>0
    <3>4. Len(Append(ssb[t], shading[t])) <= SSB_SIZE BY <3>2, <3>3, <2>0, <2>3
    <3> QED BY <3>1, <3>3, <3>4, <1>t DEF HeapTyped
  <2> QED BY <2>1, <2>2, <2>3
<1>3. HeapTyped' BY <1>t, <1>2 DEF HeapTyped, heapVars
<1>4. /\ Running(t) /\ \A u \in Mutators \ {t} : shading'[u] = shading[u]
      /\ UNCHANGED <<m_phase, pool, collectorVars, workerVars, undefined>>
    BY <1>t DEF HeapTyped
<1> HIDE DEF WbarrierShade
<1> QED BY <1>1, <1>3, <1>4, MutatorKeeps

LEMMA CastIInv ==
    ASSUME IInv, NEW t \in Mutators, NEW src \in Handles, NEW r \in Roots, Cast(t, src, r)
    PROVE  IInv'
<1> USE DEF Cast, remsetVars
<1>t. HeapTyped BY DEF IInv, TypeOK, HeapTyped
<1>1. ptr[src] \in Objects /\ r \in Handles BY <1>t DEF HeapTyped, Handles
<1>2. HeapTyped' BY <1>t, <1>1 DEF HeapTyped
<1>3. m_phase # "MARK" => shading'[t] = Null /\ mark' = mark /\ UNCHANGED <<m_hashtable, ssb>>
    OBVIOUS
<1>4. /\ Running(t) /\ shading' = shading
      /\ UNCHANGED <<m_phase, pool, collectorVars, workerVars, undefined>>
    OBVIOUS
<1> HIDE DEF Cast
<1> QED BY <1>2, <1>3, <1>4, MutatorKeeps

LEMMA PinIInv ==
    ASSUME IInv, NEW t \in Mutators, NEW src \in Handles, Pin(t, src)
    PROVE  IInv'
<1> USE DEF Pin, remsetVars
<1>t. HeapTyped BY DEF IInv, TypeOK, HeapTyped
<1>1. ptr[src] \in Objects BY <1>t DEF HeapTyped
<1>2. HeapTyped' BY <1>t, <1>1 DEF HeapTyped
<1>3. m_phase # "MARK" => shading'[t] = Null /\ mark' = mark /\ UNCHANGED <<m_hashtable, ssb>>
    OBVIOUS
<1>4. /\ Running(t) /\ shading' = shading
      /\ UNCHANGED <<m_phase, pool, collectorVars, workerVars, undefined>>
    OBVIOUS
<1> HIDE DEF Pin
<1> QED BY <1>2, <1>3, <1>4, MutatorKeeps

LEMMA UnpinIInv == ASSUME IInv, NEW t \in Mutators, NEW o, Unpin(t, o) PROVE IInv'
<1> USE DEF Unpin, remsetVars
<1>t. HeapTyped BY DEF IInv, TypeOK, HeapTyped
<1>2. HeapTyped' BY <1>t DEF HeapTyped
<1>3. m_phase # "MARK" => shading'[t] = Null /\ mark' = mark /\ UNCHANGED <<m_hashtable, ssb>>
    OBVIOUS
<1>4. /\ Running(t) /\ shading' = shading
      /\ UNCHANGED <<m_phase, pool, collectorVars, workerVars, undefined>>
    OBVIOUS
<1> HIDE DEF Unpin
<1> QED BY <1>2, <1>3, <1>4, MutatorKeeps

LEMMA GcIInv ==
    ASSUME IInv, NEW t \in Mutators, NEW k \in {"LAUNCH_CONCURRENT_MARK", "COLLECT"}, Gc(t, k)
    PROVE  IInv'
<1> USE DEF Gc, Running, heapVars, remsetVars, workerVars, scanVars
<1>t. TypeOK BY DEF IInv
<1>u. Control /\ Shades /\ Remembered /\ Finished BY DEF IInv
<1>0. cpc = "idle" /\ cpc' = "stop" /\ collector' = t /\ t # None
    BY <1>u, ThreadAssumption DEF Control
<1>1. TypeOK' BY <1>t DEF TypeOK
<1>2. pool' \in Pools /\ Accounted' BY DEF IInv, Accounted, Count, PacketsOut
<1>3. Hands' BY HandsKept
<1>4. Stuck' BY DEF Stuck
<1>5. Control' BY <1>0, <1>u DEF Control
<1>6. Shades' BY <1>0, <1>u DEF Shades, PausedPC
<1>7. Remembered' BY <1>0, <1>u DEF Remembered
<1>8. Finished' BY <1>0, <1>u DEF Finished, IsNoInput
<1> QED BY <1>1, <1>2, <1>3, <1>4, <1>5, <1>6, <1>7, <1>8 DEF IInv

LEMMA HeldHandles ==
    ASSUME IInv, NEW t \in Mutators
    PROVE  /\ Held(t) \subseteq Handles
           /\ \A h \in Handles : ptr[h] \in Objects \cup {Null}
<1>1. pins[t] \subseteq Objects /\ ptr \in [Handles -> Objects \cup {Null}] BY DEF IInv, TypeOK
<1>2. Held(t) \subseteq Handles BY <1>1 DEF Held, Handles
<1> QED BY <1>1, <1>2

LEMMA MutatorIInv == ASSUME IInv, NEW t \in Mutators, Mutator(t) PROVE IInv'
<1>h. /\ Held(t) \subseteq Handles
      /\ \A h \in Handles : ptr[h] \in Objects \cup {Null}
    BY HeldHandles
<1>1. CASE \E o \in Objects, r \in Roots : GcNew(t, o, r) BY <1>1, GcNewIInv
<1>2. CASE \E dst, src \in Held(t) : WbarrierStore(t, dst, ptr[src])
  <2>1. PICK dst \in Held(t), src \in Held(t) : WbarrierStore(t, dst, ptr[src]) BY <1>2
  <2>2. dst \in Handles /\ ptr[src] \in Objects \cup {Null} BY <1>h
  <2> QED BY <2>1, <2>2, WbarrierStoreIInv
<1>3. CASE \E dst \in Held(t) : WbarrierStore(t, dst, Null)
  <2>1. PICK dst \in Held(t) : WbarrierStore(t, dst, Null) BY <1>3
  <2>2. dst \in Handles /\ Null \in Objects \cup {Null} BY <1>h
  <2> QED BY <2>1, <2>2, WbarrierStoreIInv
<1>4. CASE WbarrierShade(t) BY <1>4, WbarrierShadeIInv
<1>5. CASE \E src \in Held(t), r \in Roots : Cast(t, src, r) BY <1>5, <1>h, CastIInv
<1>6. CASE \E src \in Held(t) : Pin(t, src) BY <1>6, <1>h, PinIInv
<1>7. CASE \E o \in pins[t] : Unpin(t, o) BY <1>7, UnpinIInv
<1>8. CASE \E k \in {"LAUNCH_CONCURRENT_MARK", "COLLECT"} : Gc(t, k) BY <1>8, GcIInv
<1> QED BY <1>1, <1>2, <1>3, <1>4, <1>5, <1>6, <1>7, <1>8 DEF Mutator

-----------------------------------------------------------------------------
(* The collecting thread.                                                  *)

\* The packets the collecting thread moves come back to the count.
LEMMA CollectorAccounts ==
    ASSUME IInv, UNCHANGED <<input, output>>, pool' \in Pools,
           Count(pool') + Held01(m_roots_packet') + Held01(remset_packet')
              = Count(pool) + Held01(m_roots_packet) + Held01(remset_packet)
    PROVE  /\ Accounted'
           /\ pool' \in [full : Seq(Packets \ {NoPacket}), partial : Seq(Packets \ {NoPacket}),
                         empty : 0..PACKETS_COUNT]
<1> DEFINE a == Count(pool)
           b == Count(pool')
           c == Cardinality(Holding(input))
           d == Cardinality(Holding(output))
           e == Held01(m_roots_packet)
           f == Held01(remset_packet)
           g == Held01(m_roots_packet')
           h == Held01(remset_packet')
<1>1. a \in Nat /\ b \in Nat /\ c \in Nat /\ d \in Nat
  <2>1. pool \in Pools /\ pool' \in Pools BY DEF IInv
  <2>2. IsFiniteSet(Holding(input)) /\ IsFiniteSet(Holding(output))
      BY MarkingFinite, FS_Subset DEF Holding
  <2>3. c \in Nat /\ d \in Nat BY <2>2, FS_CardinalityType
  <2>4. a \in Nat /\ b \in Nat BY <2>1, CountType
  <2> QED BY <2>3, <2>4
<1>2. e \in Nat /\ f \in Nat /\ g \in Nat /\ h \in Nat BY Held01Type
<1>3. a + (c + d + e + f) = PACKETS_COUNT BY OutOf DEF IInv, Accounted
<1>4. b + g + h = a + e + f OBVIOUS
<1>5. PacketsOut' = c + d + g + h BY DEF PacketsOut, Holding
<1>6. Count(pool)' = b BY DEF Count
<1> HIDE DEF a, b, c, d, e, f, g, h
<1>7. b + (c + d + g + h) = PACKETS_COUNT BY <1>1, <1>2, <1>3, <1>4
<1>8. b <= PACKETS_COUNT BY <1>1, <1>2, <1>7, PacketAssumption
<1>9. Accounted' BY <1>5, <1>6, <1>7 DEF Accounted
<1>10. Count(pool') <= PACKETS_COUNT BY <1>8 DEF b
<1> QED BY <1>9, <1>10, PoolType

\* What every step of it that is not undefined starts from.
LEMMA CollectorStarts ==
    ASSUME IInv, ~undefined
    PROVE  /\ TypeOK /\ Control /\ Shades /\ Remembered /\ Finished /\ pool \in Pools
           /\ cpc \notin {"idle", "stop", "pins", "iterate"} =>
                 /\ cpc \in {"roots", "launch"} <=> m_phase = "IDLE"
                 /\ cpc \in {"mark", "work"} <=> m_phase = "MARK"
                 /\ cpc = "collect" <=> m_phase = "COLLECT"
           /\ cpc \in {"idle", "stop", "pins", "iterate"} => m_phase # "COLLECT"
           /\ \A w \in Marking : m_phase # "MARK" => wpc[w] = "off"
           /\ cpc # "work" => wpc[Main] = "off"
           /\ cpc # "iterate" => remset_packet = NoPacket /\ Held01(remset_packet) = 0
<1>1. /\ TypeOK /\ Control /\ Shades /\ Remembered /\ Finished /\ pool \in Pools
    BY DEF IInv
<1>2. m_phase \in {"IDLE", "MARK", "COLLECT"} /\ cpc \in {"idle", "stop"} \cup PausedPC
    BY <1>1 DEF TypeOK
<1>3. cpc # "iterate" => remset_packet = NoPacket BY <1>1 DEF Control
<1> QED BY <1>1, <1>2, <1>3 DEF Control, PausedPC, Held01

LEMMA AddRootIInv ==
    ASSUME IInv, ~undefined, cpc \in {"roots", "pins"}, NEW o \in Objects, AddRoot(o),
           todo' \subseteq todo
    PROVE  IInv'
<1> DEFINE pushed == PushRoot(pool, m_roots_packet, o)
<1> USE DEF AddRoot, heapVars, remsetVars, workerVars, scanVars
<1>t. /\ TypeOK /\ Control /\ Shades /\ Remembered /\ pool \in Pools
      /\ cpc = "roots" => m_phase = "IDLE"
      /\ m_phase # "COLLECT" /\ wpc[Main] = "off"
    BY CollectorStarts
<1>p. /\ pushed.rest \in Pools /\ pushed.packet \in Packets
      /\ Count(pushed.rest) + Held01(pushed.packet) = Count(pool) + Held01(m_roots_packet)
  <2>1. m_roots_packet \in Queues \cup {NoPacket} BY <1>t, PacketOrNull DEF TypeOK
  <2> QED BY <2>1, <1>t, PushRootCounts, PacketOrNull
<1>q. /\ mark' = mark \cup {o} /\ m_roots_packet' = pushed.packet /\ pool' = pushed.rest
      /\ undefined' = (pushed.packet = NoPacket)
    OBVIOUS
<1> HIDE DEF pushed
<1>1. /\ Accounted' /\ pool' \in Pools
      /\ pool' \in [full : Seq(Packets \ {NoPacket}), partial : Seq(Packets \ {NoPacket}),
                    empty : 0..PACKETS_COUNT]
  <2>1. Count(pool') = Count(pushed.rest) /\ Held01(m_roots_packet') = Held01(pushed.packet)
        /\ remset_packet' = remset_packet
      BY <1>q
  <2>2. Count(pool') + Held01(m_roots_packet') + Held01(remset_packet')
        = Count(pool) + Held01(m_roots_packet) + Held01(remset_packet)
      BY <2>1, <1>p
  <2> QED BY <2>2, <1>p, <1>q, CollectorAccounts
<1>2. TypeOK'
  <2>1. undefined' \in BOOLEAN /\ m_roots_packet' \in Packets /\ mark' \in SUBSET Objects
      BY <1>t, <1>p, <1>q DEF TypeOK
  <2>2. todo' \in SUBSET (Roots \cup Objects) BY <1>t DEF TypeOK
  <2> QED BY <1>t, <1>1, <2>1, <2>2 DEF TypeOK
<1>3. Hands' BY HandsKept
<1>4. Stuck' BY DEF Stuck
<1>5. Control' BY <1>t DEF Control, RootsToTrace
<1>6. Shades' BY <1>t DEF Shades
<1>7. Remembered' BY <1>t DEF Remembered
<1>8. Finished' BY <1>t DEF Finished
<1> QED BY <1>1, <1>2, <1>3, <1>4, <1>5, <1>6, <1>7, <1>8 DEF IInv

LEMMA TraceRootIInv == ASSUME IInv, NEW r \in todo, TraceRoot(r) PROVE IInv'
<1>1. ~undefined /\ cpc = "roots" /\ todo' \subseteq todo /\ AddRoot(ptr[r])
    BY DEF TraceRoot, At
<1>2. r \in RootsToTrace BY <1>1, CollectorStarts DEF Control
<1>3. ptr[r] \in Objects BY <1>2 DEF RootsToTrace, IInv, TypeOK, Handles
<1> QED BY <1>1, <1>3, AddRootIInv

LEMMA TracePinIInv == ASSUME IInv, NEW o \in todo, TracePin(o) PROVE IInv'
<1>1. ~undefined /\ cpc = "pins" /\ todo' \subseteq todo /\ AddRoot(o)
    BY DEF TracePin, At
<1>2. o \in Objects BY <1>1, CollectorStarts DEF Control
<1> QED BY <1>1, <1>2, AddRootIInv

LEMMA StopIInv == ASSUME IInv, Stop PROVE IInv'
<1> USE DEF Stop, At, heapVars, remsetVars, workerVars, scanVars
<1>t. TypeOK /\ Control /\ Shades /\ Remembered /\ m_phase # "COLLECT"
    BY CollectorStarts
<1>0. AllPinned \subseteq Objects BY <1>t DEF AllPinned, TypeOK
<1>1. TypeOK'
  <2>1. todo' \in SUBSET (Roots \cup Objects) BY <1>0 DEF RootsToTrace
  <2>2. cpc' \in PausedPC BY DEF PausedPC
  <2> QED BY <1>t, <2>1, <2>2 DEF TypeOK
<1>2. pool' \in Pools /\ Accounted' BY DEF IInv, Accounted, Count, PacketsOut
<1>3. Hands' BY HandsKept
<1>4. Stuck' BY DEF Stuck
<1>5. Control' BY <1>t, <1>0 DEF Control, TypeOK, RootsToTrace
<1>6. Shades'
  <2>1. \A t \in Mutators : shading[t] = Null BY <1>t DEF Shades
  <2> QED BY <2>1 DEF Shades
<1>7. Remembered' BY <1>t DEF Remembered
<1>8. Finished' BY DEF Finished
<1> QED BY <1>1, <1>2, <1>3, <1>4, <1>5, <1>6, <1>7, <1>8 DEF IInv

LEMMA RootsTracedIInv == ASSUME IInv, RootsTraced PROVE IInv'
<1> USE DEF RootsTraced, At, heapVars, remsetVars, workerVars, scanVars
<1>t. TypeOK /\ Control /\ Shades /\ Remembered /\ m_phase = "IDLE" BY CollectorStarts
<1>0. AllPinned \subseteq Objects BY <1>t DEF AllPinned, TypeOK
<1>1. TypeOK' BY <1>t, <1>0 DEF TypeOK, PausedPC
<1>2. pool' \in Pools /\ Accounted' BY DEF IInv, Accounted, Count, PacketsOut
<1>3. Hands' BY HandsKept
<1>4. Stuck' BY DEF Stuck
<1>5. Control' BY <1>t, <1>0 DEF Control
<1>6. Shades' BY <1>t DEF Shades
<1>7. Remembered' BY <1>t DEF Remembered
<1>8. Finished' BY <1>t DEF Finished
<1> QED BY <1>1, <1>2, <1>3, <1>4, <1>5, <1>6, <1>7, <1>8 DEF IInv

LEMMA FlushedType ==
    ASSUME TypeOK
    PROVE  /\ Flushed \subseteq Objects
           /\ m_hashtable = {} /\ (\A t \in Mutators : ssb[t] = <<>>) => Flushed = {}
<1>1. \A t \in Mutators : \A i \in 1..Len(ssb[t]) : ssb[t][i] \in Objects BY DEF TypeOK
<1>2. m_hashtable \subseteq Objects BY DEF TypeOK
<1>3. Flushed \subseteq Objects BY <1>1, <1>2 DEF Flushed
<1>4. ASSUME m_hashtable = {}, \A t \in Mutators : ssb[t] = <<>> PROVE Flushed = {}
  <2>1. \A t \in Mutators : Len(ssb[t]) = 0 BY <1>4
  <2>2. \A t \in Mutators : 1..Len(ssb[t]) = {} BY <2>1
  <2> QED BY <1>4, <2>2 DEF Flushed
<1> QED BY <1>3, <1>4

LEMMA FlushBuffersIInv == ASSUME IInv, FlushBuffers PROVE IInv'
<1> DEFINE popped == PopOutput(pool)
<1> USE DEF FlushBuffers, At, heapVars, workerVars, scanVars
<1>t. /\ TypeOK /\ Control /\ Shades /\ Remembered /\ pool \in Pools
      /\ m_phase # "COLLECT" /\ wpc[Main] = "off" /\ Held01(remset_packet) = 0
    BY CollectorStarts
<1>p. /\ popped.rest \in Pools /\ popped.packet \in Packets
      /\ Count(popped.rest) + Held01(popped.packet) = Count(pool)
    BY <1>t, PopOutputCounts, PacketOrNull
<1>q. pool' = popped.rest /\ remset_packet' = popped.packet OBVIOUS
<1> HIDE DEF popped
<1>f. Flushed \subseteq Objects /\ (m_phase # "MARK" => Flushed = {})
    BY <1>t, FlushedType DEF Remembered
<1>1. /\ Accounted' /\ pool' \in Pools
      /\ pool' \in [full : Seq(Packets \ {NoPacket}), partial : Seq(Packets \ {NoPacket}),
                    empty : 0..PACKETS_COUNT]
  <2>1. Count(pool') = Count(popped.rest) /\ Held01(remset_packet') = Held01(popped.packet)
        /\ m_roots_packet' = m_roots_packet
      BY <1>q
  <2>2. Count(pool) \in Nat /\ Count(popped.rest) \in Nat BY <1>t, <1>p, CountType
  <2>3. Count(pool') + Held01(m_roots_packet') + Held01(remset_packet')
        = Count(pool) + Held01(m_roots_packet) + Held01(remset_packet)
      BY <2>1, <2>2, <1>p, <1>t, Held01Type
  <2> QED BY <2>3, <1>p, <1>q, CollectorAccounts
<1>2. TypeOK'
  <2>1. ssb' \in [Mutators -> Seq(Objects)] /\ \A t \in Mutators : Len(ssb'[t]) <= SSB_SIZE
      BY RemsetAssumption
  <2>2. m_hashtable' \in SUBSET Objects /\ todo' \in SUBSET (Roots \cup Objects)
        /\ remset_packet' \in Packets /\ cpc' \in PausedPC
      BY <1>f, <1>p, <1>q DEF PausedPC
  <2> QED BY <1>t, <1>1, <2>1, <2>2 DEF TypeOK
<1>3. Hands' BY HandsKept
<1>4. Stuck' BY DEF Stuck
<1>5. Control' BY <1>t, <1>f DEF Control
<1>6. Shades' BY <1>t DEF Shades, PausedPC
<1>7. Remembered' BY <1>t, <1>f DEF Remembered
<1>8. Finished' BY <1>t DEF Finished
<1> QED BY <1>1, <1>2, <1>3, <1>4, <1>5, <1>6, <1>7, <1>8 DEF IInv

LEMMA TraceRemsetIInv == ASSUME IInv, NEW o \in todo, TraceRemset(o) PROVE IInv'
<1> DEFINE pushed == PushRoot(pool, remset_packet, o)
<1> USE DEF TraceRemset, At, heapVars, remsetVars, workerVars, scanVars
<1>t. /\ TypeOK /\ Control /\ Shades /\ Remembered /\ pool \in Pools
      /\ m_phase # "COLLECT" /\ wpc[Main] = "off"
    BY CollectorStarts
<1>o. o \in Objects BY <1>t DEF Control
<1>p. /\ pushed.rest \in Pools /\ pushed.packet \in Packets
      /\ Count(pushed.rest) + Held01(pushed.packet) = Count(pool) + Held01(remset_packet)
  <2>1. remset_packet \in Queues \cup {NoPacket} BY <1>t, PacketOrNull DEF TypeOK
  <2> QED BY <2>1, <1>o, <1>t, PushRootCounts, PacketOrNull
<1>q. \/ /\ mark' = mark \cup {o} /\ remset_packet' = pushed.packet /\ pool' = pushed.rest
         /\ undefined' = (pushed.packet = NoPacket)
      \/ UNCHANGED <<mark, remset_packet, pool, undefined>>
    OBVIOUS
<1> HIDE DEF pushed
<1>1. /\ Accounted' /\ pool' \in Pools
      /\ pool' \in [full : Seq(Packets \ {NoPacket}), partial : Seq(Packets \ {NoPacket}),
                    empty : 0..PACKETS_COUNT]
  <2>1. pool' \in Pools BY <1>t, <1>p, <1>q
  <2>2. Count(pool') + Held01(m_roots_packet') + Held01(remset_packet')
        = Count(pool) + Held01(m_roots_packet) + Held01(remset_packet)
    <3>0. m_roots_packet' = m_roots_packet OBVIOUS
    <3>1. CASE UNCHANGED <<mark, remset_packet, pool, undefined>> BY <3>0, <3>1
    <3>2. CASE remset_packet' = pushed.packet /\ pool' = pushed.rest
      <4>1. Count(pool') = Count(pushed.rest) /\ Held01(remset_packet') = Held01(pushed.packet)
          BY <3>2
      <4>2. Count(pool) \in Nat /\ Count(pushed.rest) \in Nat BY <1>t, <1>p, CountType
      <4> QED BY <3>0, <4>1, <4>2, <1>p, Held01Type
    <3> QED BY <3>1, <3>2, <1>q
  <2> QED BY <2>1, <2>2, CollectorAccounts
<1>2. TypeOK'
  <2>1. undefined' \in BOOLEAN /\ remset_packet' \in Packets /\ mark' \in SUBSET Objects
      BY <1>t, <1>o, <1>p, <1>q DEF TypeOK
  <2> QED BY <1>t, <1>1, <2>1 DEF TypeOK
<1>3. Hands' BY HandsKept
<1>4. Stuck' BY DEF Stuck
<1>5. Control' BY <1>t DEF Control
<1>6. Shades' BY <1>t DEF Shades
<1>7. Remembered' BY <1>t DEF Remembered
<1>8. Finished' BY <1>t DEF Finished
<1> QED BY <1>1, <1>2, <1>3, <1>4, <1>5, <1>6, <1>7, <1>8 DEF IInv

LEMMA ClearRemsetIInv == ASSUME IInv, ClearRemset PROVE IInv'
<1> USE DEF ClearRemset, At, heapVars, workerVars, scanVars
<1>t. /\ TypeOK /\ Control /\ Shades /\ Remembered /\ pool \in Pools
      /\ m_phase # "COLLECT" /\ wpc[Main] = "off"
    BY CollectorStarts
<1>1. /\ Accounted' /\ pool' \in Pools
      /\ pool' \in [full : Seq(Packets \ {NoPacket}), partial : Seq(Packets \ {NoPacket}),
                    empty : 0..PACKETS_COUNT]
  <2>1. CASE remset_packet = NoPacket
    <3>1. pool' = pool /\ remset_packet' = remset_packet /\ m_roots_packet' = m_roots_packet
        BY <2>1
    <3> QED BY <3>1, <1>t, CollectorAccounts
  <2>2. CASE remset_packet # NoPacket
    <3>1. remset_packet \in Queues BY <2>2, <1>t, PacketOrNull DEF TypeOK
    <3>2. pool' \in Pools /\ Count(pool') = Count(pool) + 1
        BY <2>2, <3>1, <1>t, PushPacketCounts
    <3>3. Held01(remset_packet) = 1 /\ Held01(remset_packet') = 0 BY <2>2 DEF Held01
    <3>4. Count(pool) \in Nat /\ m_roots_packet' = m_roots_packet BY <1>t, CountType
    <3>5. Count(pool') + Held01(m_roots_packet') + Held01(remset_packet')
          = Count(pool) + Held01(m_roots_packet) + Held01(remset_packet)
        BY <3>2, <3>3, <3>4, Held01Type
    <3> QED BY <3>2, <3>5, CollectorAccounts
  <2> QED BY <2>1, <2>2
<1>2. TypeOK'
  <2>1. remset_packet' \in Packets BY PacketOrNull
  <2>2. undefined' \in BOOLEAN /\ m_hashtable' \in SUBSET Objects /\ cpc' \in PausedPC
      BY <1>t DEF TypeOK, PausedPC
  <2> QED BY <1>t, <1>1, <2>1, <2>2 DEF TypeOK
<1>3. Hands' BY HandsKept
<1>4. Stuck' BY DEF Stuck
<1>5. Control' BY <1>t DEF Control, TypeOK
<1>6. Shades' BY <1>t DEF Shades, PausedPC
<1>7. Remembered' BY <1>t DEF Remembered
<1>8. Finished' BY <1>t DEF Finished
<1> QED BY <1>1, <1>2, <1>3, <1>4, <1>5, <1>6, <1>7, <1>8 DEF IInv

LEMMA HandOverAccounts ==
    ASSUME IInv, ~undefined, HandOverRoots, UNCHANGED <<input, output, remset_packet>>
    PROVE  /\ Accounted' /\ pool' \in Pools /\ m_roots_packet' \in Packets
           /\ pool' \in [full : Seq(Packets \ {NoPacket}), partial : Seq(Packets \ {NoPacket}),
                         empty : 0..PACKETS_COUNT]
<1> USE DEF HandOverRoots
<1>t. TypeOK /\ pool \in Pools BY CollectorStarts
<1>1. CASE m_roots_packet = NoPacket
  <2>1. pool' = pool /\ m_roots_packet' = m_roots_packet /\ pool' \in Pools BY <1>1, <1>t
  <2> QED BY <2>1, <1>t, CollectorAccounts DEF TypeOK
<1>2. CASE m_roots_packet # NoPacket
  <2>1. m_roots_packet \in Queues BY <1>2, <1>t, PacketOrNull DEF TypeOK
  <2>2. pool' \in Pools /\ Count(pool') = Count(pool) + 1
      BY <1>2, <2>1, <1>t, PushPacketCounts
  <2>3. Held01(m_roots_packet) = 1 /\ Held01(m_roots_packet') = 0 BY <1>2 DEF Held01
  <2>4. Count(pool) \in Nat BY <1>t, CountType
  <2>5. Count(pool') + Held01(m_roots_packet') + Held01(remset_packet')
        = Count(pool) + Held01(m_roots_packet) + Held01(remset_packet)
      BY <2>2, <2>3, <2>4, Held01Type
  <2> QED BY <2>2, <2>5, PacketOrNull, CollectorAccounts
<1> QED BY <1>1, <1>2

LEMMA ConcurrentMarkIInv == ASSUME IInv, ConcurrentMark PROVE IInv'
<1> DEFINE started == IF kind = "COLLECT" /\ threads_available = 1 THEN {} ELSE Workers
<1> USE DEF ConcurrentMark, At, heapVars, remsetVars, scanVars
<1>t. /\ TypeOK /\ Control /\ Shades /\ Remembered /\ pool \in Pools /\ Hands
      /\ m_phase = "IDLE" /\ \A w \in Marking : wpc[w] = "off"
    BY CollectorStarts DEF IInv
<1>s. Main \notin started BY ThreadAssumption
<1>w. \A w \in Marking : wpc'[w] \in {"off", "start"} BY <1>t
<1>m. wpc'[Main] = "off" BY <1>s, <1>t, MarkingFinite
<1>1. /\ Accounted' /\ pool' \in Pools /\ m_roots_packet' \in Packets
      /\ pool' \in [full : Seq(Packets \ {NoPacket}), partial : Seq(Packets \ {NoPacket}),
                    empty : 0..PACKETS_COUNT]
    BY HandOverAccounts
<1>2. TypeOK'
  <2>1. wpc' \in [Marking -> WorkerPC] BY <1>t DEF TypeOK, WorkerPC
  <2>2. cpc' \in {"idle", "stop"} \cup PausedPC /\ collector' \in Mutators \cup {None}
      BY <1>t DEF TypeOK, PausedPC
  <2> QED BY <1>t, <1>1, <2>1, <2>2 DEF TypeOK
<1>3. Hands'
  <2>1. ASSUME NEW w \in Marking PROVE HandOK(w)'
    <3>1. HandOK(w) /\ wpc[w] = "off" /\ wpc'[w] \in {"off", "start"} BY <1>t, <1>w DEF Hands
    <3> QED BY <3>1 DEF HandOK
  <2> QED BY <2>1 DEF Hands
<1>4. Stuck' BY DEF Stuck
<1>5. Control' BY <1>t, <1>m DEF Control, TypeOK
<1>6. Shades' BY <1>t DEF Shades, PausedPC
<1>7. Remembered' BY <1>t DEF Remembered
<1>8. Finished' BY DEF Finished
<1> QED BY <1>1, <1>2, <1>3, <1>4, <1>5, <1>6, <1>7, <1>8 DEF IInv

LEMMA MarkIInv == ASSUME IInv, Mark PROVE IInv'
<1> USE DEF Mark, At, heapVars, remsetVars, scanVars
<1>t. /\ TypeOK /\ Control /\ Shades /\ Remembered /\ pool \in Pools /\ Hands
      /\ m_phase = "MARK" /\ wpc[Main] = "off"
    BY CollectorStarts DEF IInv
<1>w. wpc'[Main] = "start" /\ \A w \in Marking \ {Main} : wpc'[w] = wpc[w]
    BY <1>t, MarkingFinite DEF TypeOK
<1>1. /\ Accounted' /\ pool' \in Pools /\ m_roots_packet' \in Packets
      /\ pool' \in [full : Seq(Packets \ {NoPacket}), partial : Seq(Packets \ {NoPacket}),
                    empty : 0..PACKETS_COUNT]
    BY HandOverAccounts
<1>2. TypeOK'
  <2>1. wpc' \in [Marking -> WorkerPC] BY <1>t DEF TypeOK, WorkerPC
  <2>2. cpc' \in PausedPC BY DEF PausedPC
  <2> QED BY <1>t, <1>1, <2>1, <2>2 DEF TypeOK
<1>3. Hands'
  <2>1. ASSUME NEW w \in Marking PROVE HandOK(w)'
    <3>1. HandOK(w) BY <1>t DEF Hands
    <3>2. CASE w = Main
      <4>1. wpc[w] = "off" /\ wpc'[w] = "start" BY <3>2, <1>t, <1>w
      <4> QED BY <3>1, <4>1 DEF HandOK
    <3>3. CASE w # Main
      <4>1. wpc'[w] = wpc[w] BY <3>3, <1>w
      <4> QED BY <3>1, <4>1 DEF HandOK
    <3> QED BY <3>2, <3>3
  <2> QED BY <2>1 DEF Hands
<1>4. Stuck' BY DEF Stuck
<1>5. Control' BY <1>t DEF Control
<1>6. Shades' BY <1>t DEF Shades, PausedPC
<1>7. Remembered' BY <1>t DEF Remembered
<1>8. Finished' BY <1>t, <1>w DEF Finished
<1> QED BY <1>1, <1>2, <1>3, <1>4, <1>5, <1>6, <1>7, <1>8 DEF IInv

LEMMA JoinIInv == ASSUME IInv, Join PROVE IInv'
<1> USE DEF Join, At, Joined, heapVars, remsetVars, workerVars, scanVars
<1>t. TypeOK /\ Control /\ Shades /\ Remembered /\ Finished /\ m_phase = "MARK"
    BY CollectorStarts
<1>0. IsNoInput(pool) BY <1>t, MarkingFinite DEF Finished
<1>1. TypeOK' BY <1>t DEF TypeOK, PausedPC
<1>2. pool' \in Pools /\ Accounted' BY DEF IInv, Accounted, Count, PacketsOut
<1>3. Hands' BY HandsKept
<1>4. Stuck' BY DEF Stuck
<1>5. Control' BY <1>t, MarkingFinite DEF Control
<1>6. Shades' BY <1>t DEF Shades, PausedPC
<1>7. Remembered' BY <1>t DEF Remembered
<1>8. Finished' BY <1>0 DEF Finished, IsNoInput
<1> QED BY <1>1, <1>2, <1>3, <1>4, <1>5, <1>6, <1>7, <1>8 DEF IInv

LEMMA CollectIInv == ASSUME IInv, Collect PROVE IInv'
<1> USE DEF Collect, At, remsetVars, workerVars, scanVars
<1>t. /\ TypeOK /\ Control /\ Shades /\ Remembered /\ Finished /\ m_phase = "COLLECT"
      /\ \A w \in Marking : wpc[w] = "off"
    BY CollectorStarts
<1>l. lost' \in SUBSET Objects BY DEF LostToCasts, ReachFrom
<1>1. TypeOK' BY <1>t, <1>l DEF TypeOK
<1>2. pool' \in Pools /\ Accounted' BY DEF IInv, Accounted, Count, PacketsOut
<1>3. Hands' BY HandsKept
<1>4. Stuck' BY DEF Stuck
<1>5. Control' BY <1>t, MarkingFinite DEF Control
<1>6. Shades' BY <1>t, ThreadAssumption DEF Shades
<1>7. Remembered' BY <1>t DEF Remembered
<1>8. Finished' BY <1>t DEF Finished, IsNoInput
<1> QED BY <1>1, <1>2, <1>3, <1>4, <1>5, <1>6, <1>7, <1>8 DEF IInv

LEMMA CollectorIInv == ASSUME IInv, Collector PROVE IInv'
BY StopIInv, TraceRootIInv, RootsTracedIInv, TracePinIInv, FlushBuffersIInv, TraceRemsetIInv,
   ClearRemsetIInv, ConcurrentMarkIInv, MarkIInv, JoinIInv, CollectIInv
   DEF Collector

LEMMA NextIInv == ASSUME IInv, [Next]_vars PROVE IInv'
<1>1. CASE UNCHANGED vars
  <2> USE <1>1 DEF vars, heapVars, remsetVars, collectorVars, workerVars, scanVars
  <2>1. TypeOK' BY DEF IInv, TypeOK
  <2>2. pool' \in Pools /\ Accounted' BY DEF IInv, Accounted, Count, PacketsOut
  <2>3. Hands' BY DEF IInv, Hands, HandOK
  <2>4. Stuck' BY DEF IInv, Stuck
  <2>5. ~undefined' => Control' /\ Shades' /\ Remembered' /\ Finished'
      BY DEF IInv, Control, Shades, Remembered, Finished, RootsToTrace, IsNoInput
  <2> QED BY <2>1, <2>2, <2>3, <2>4, <2>5 DEF IInv
<1>2. CASE Collector BY <1>2, CollectorIInv
<1>3. CASE \E t \in Mutators : Mutator(t) BY <1>3, MutatorIInv
<1>4. CASE \E w \in Marking : Worker(w) BY <1>4, WorkerIInv
<1> QED BY <1>1, <1>2, <1>3, <1>4 DEF Next, Undefined

LEMMA Invariance == Spec => []IInv
BY InitIInv, NextIInv, PTL DEF Spec

-----------------------------------------------------------------------------

\* Whatever the interleaving of mutators, workers and collecting thread, packets
\* never grow beyond SIZE, store buffers never beyond SSB_SIZE, and what the
\* marker passes around are cells of the heap.
THEOREM TypeCorrect == Spec => []TypeOK
<1>1. IInv => TypeOK BY DEF IInv
<1> QED BY <1>1, Invariance, PTL

\* packet_manager has all its packets, counting the ones in the hands of
\* marker::worker_routine and of the collecting thread.
THEOREM PacketsKept == Spec => []PacketsAccounted
<1>1. IInv => PacketsAccounted
  <2> SUFFICES ASSUME IInv PROVE PacketsAccounted OBVIOUS
  <2>1. TypeOK /\ pool \in Pools /\ Count(pool) + PacketsOut = PACKETS_COUNT
      BY DEF IInv, Accounted
  <2>2. Count(pool) = pool.empty + Len(pool.full) + Len(pool.partial) BY DEF Count
  <2> QED BY <2>1, <2>2 DEF PacketsAccounted
<1> QED BY <1>1, Invariance, PTL

\* When marker::mark has joined the workers nothing is left to trace.
THEOREM MarkingEnds == Spec => []MarkingComplete
<1>1. IInv => MarkingComplete
  <2> SUFFICES ASSUME IInv, cpc = "collect" PROVE
                 /\ IsNoInput(pool) /\ m_hashtable = {}
                 /\ \A t \in Mutators : ssb[t] = <<>>
      BY DEF MarkingComplete
  <2>1. ~undefined BY DEF IInv, Stuck
  <2>2. m_phase = "COLLECT" BY <2>1, CollectorStarts
  <2> QED BY <2>1, <2>2, CollectorStarts DEF Finished, Remembered
<1> QED BY <1>1, Invariance, PTL

\* gc_cms::sweep leaves nothing to the next cycle, and no mutator or worker
\* leaves anything between two cycles.
THEOREM CleanBetweenCycles == Spec => []CycleEndsClean
<1>1. IInv => CycleEndsClean
  <2> SUFFICES ASSUME IInv, m_phase = "IDLE", cpc \in {"idle", "stop"} PROVE
                 /\ mark = {} /\ m_hashtable = {}
                 /\ \A t \in Mutators : ssb[t] = <<>>
                 /\ IsNoInput(pool) /\ Joined
      BY DEF CycleEndsClean
  <2>1. ~undefined BY DEF IInv, Stuck
  <2> QED BY <2>1, CollectorStarts DEF Finished, Remembered, Joined
<1> QED BY <1>1, Invariance, PTL

-----------------------------------------------------------------------------
(* What is queued stays queued: the cells in the packets of the pools.     *)

InStack(s, o) == \E i \in 1..Len(s) : o \in Queued(s[i])
InPool(m, o) == InStack(m.full, o) \/ InStack(m.partial, o)

LEMMA QueuedNothing == Queued(NoPacket) = {} /\ Queued(<<>>) = {}
<1>1. <<>> # NoPacket BY PacketOrNull
<1>2. Queued(<<>>) = {<<>>[i] : i \in 1..Len(<<>>)} BY <1>1 DEF Queued
<1>3. 1..Len(<<>>) = {} OBVIOUS
<1> QED BY <1>2, <1>3 DEF Queued

LEMMA QueuedAppend ==
    ASSUME NEW p \in Queues, Len(p) < SIZE, NEW x \in Objects
    PROVE  Queued(p) \subseteq Queued(Append(p, x)) /\ x \in Queued(Append(p, x))
<1>1. p \in Seq(Objects) /\ p # NoPacket BY QueueIsSeq, PacketOrNull
<1>2. Append(p, x) # NoPacket BY AppendFits
<1>3. /\ Len(Append(p, x)) = Len(p) + 1 /\ Len(p) \in Nat
      /\ \A i \in 1..Len(p) : Append(p, x)[i] = p[i]
      /\ Append(p, x)[Len(p) + 1] = x
    BY <1>1
<1>4. \A i \in 1..Len(p) : i \in 1..Len(Append(p, x)) BY <1>3
<1>5. Len(p) + 1 \in 1..Len(Append(p, x)) BY <1>3
<1>6. Queued(p) = {p[i] : i \in 1..Len(p)} BY <1>1 DEF Queued
<1>7. Queued(Append(p, x)) = {Append(p, x)[i] : i \in 1..Len(Append(p, x))} BY <1>2 DEF Queued
<1> QED BY <1>3, <1>4, <1>5, <1>6, <1>7

LEMMA QueuedFront ==
    ASSUME NEW p \in Queues, p # <<>>, SubSeq(p, 1, Len(p) - 1) # NoPacket
    PROVE  Queued(p) \subseteq Queued(SubSeq(p, 1, Len(p) - 1)) \cup {p[Len(p)]}
<1>1. p \in Seq(Objects) /\ p # NoPacket BY QueueIsSeq, PacketOrNull
<1>2. Len(p) \in Nat \ {0} BY <1>1
<1>3. /\ Len(SubSeq(p, 1, Len(p) - 1)) = Len(p) - 1
      /\ \A i \in 1..(Len(p) - 1) : SubSeq(p, 1, Len(p) - 1)[i] = p[i]
  <2>1. 1 \in Int /\ Len(p) - 1 \in Int /\ \A i \in 1..(Len(p) - 1) : p[i] \in Objects
      BY <1>1, <1>2
  <2>2. /\ Len(SubSeq(p, 1, Len(p) - 1))
           = IF 1 <= Len(p) - 1 THEN (Len(p) - 1) - 1 + 1 ELSE 0
        /\ \A i \in 1..((Len(p) - 1) - 1 + 1) :
              SubSeq(p, 1, Len(p) - 1)[i] = p[1 + i - 1]
      BY <2>1, SubSeqProperties
  <2>3. (Len(p) - 1) - 1 + 1 = Len(p) - 1 BY <1>2
  <2>4. \A i \in 1..(Len(p) - 1) : 1 + i - 1 = i OBVIOUS
  <2> QED BY <2>2, <2>3, <2>4, <1>2
<1>4. \A i \in 1..Len(p) : i \in 1..(Len(p) - 1) \/ i = Len(p) BY <1>2
<1>5. Queued(p) = {p[i] : i \in 1..Len(p)} BY <1>1 DEF Queued
<1>6. Queued(SubSeq(p, 1, Len(p) - 1))
      = {SubSeq(p, 1, Len(p) - 1)[i] : i \in 1..Len(SubSeq(p, 1, Len(p) - 1))}
    BY DEF Queued
<1> QED BY <1>3, <1>4, <1>5, <1>6

LEMMA StackKeeps ==
    ASSUME NEW S, NEW s \in Seq(S), NEW x \in S, NEW o
    PROVE  /\ InStack(s, o) \/ o \in Queued(x) => InStack(<<x>> \o s, o)
           /\ s # <<>> => (InStack(s, o) => o \in Queued(Head(s)) \/ InStack(Tail(s), o))
<1>1. ASSUME o \in Queued(x) PROVE InStack(<<x>> \o s, o)
  <2>1. 1 \in 1..Len(<<x>> \o s) /\ (<<x>> \o s)[1] = x OBVIOUS
  <2> QED BY <2>1, <1>1 DEF InStack
<1>2. ASSUME InStack(s, o) PROVE InStack(<<x>> \o s, o)
  <2>1. PICK i \in 1..Len(s) : o \in Queued(s[i]) BY <1>2 DEF InStack
  <2>2. i + 1 \in 1..Len(<<x>> \o s) /\ (<<x>> \o s)[i + 1] = s[i] OBVIOUS
  <2> QED BY <2>1, <2>2 DEF InStack
<1>3. ASSUME s # <<>>, InStack(s, o) PROVE o \in Queued(Head(s)) \/ InStack(Tail(s), o)
  <2>1. PICK i \in 1..Len(s) : o \in Queued(s[i]) BY <1>3 DEF InStack
  <2>2. CASE i = 1 BY <2>1, <2>2, <1>3
  <2>3. CASE i # 1
    <3>1. i - 1 \in 1..Len(Tail(s)) /\ Tail(s)[i - 1] = s[i] BY <2>3, <1>3
    <3> QED BY <3>1, <2>1 DEF InStack
  <2> QED BY <2>2, <2>3
<1> QED BY <1>1, <1>2, <1>3

LEMMA PushPacketKeeps ==
    ASSUME NEW m \in Pools, NEW p \in Queues, NEW o
    PROVE  InPool(m, o) \/ o \in Queued(p) => InPool(PushPacket(m, p), o)
<1>0. m.full \in Seq(Queues) /\ m.partial \in Seq(Partial) BY OnePool
<1>r. m = [full |-> m.full, partial |-> m.partial, empty |-> m.empty] BY DEF Pools
<1>1. CASE p = <<>>
  <2>1. PushPacket(m, p) = [m EXCEPT !.empty = m.empty + 1] BY <1>1 DEF PushPacket
  <2>2. PushPacket(m, p).full = m.full /\ PushPacket(m, p).partial = m.partial
      BY <2>1, <1>r
  <2> QED BY <2>2, <1>1, QueuedNothing DEF InPool
<1>2. CASE p # <<>> /\ Len(p) < SIZE \div 2
  <2>1. PushPacket(m, p) = [m EXCEPT !.partial = <<p>> \o m.partial] BY <1>2 DEF PushPacket
  <2>2. PushPacket(m, p).full = m.full /\ PushPacket(m, p).partial = <<p>> \o m.partial
      BY <2>1, <1>r
  <2>3. p \in Partial BY <1>2 DEF Partial
  <2>4. InStack(m.partial, o) \/ o \in Queued(p) => InStack(<<p>> \o m.partial, o)
      BY <2>3, <1>0, StackKeeps
  <2> QED BY <2>2, <2>4 DEF InPool
<1>3. CASE p # <<>> /\ ~(Len(p) < SIZE \div 2)
  <2>1. PushPacket(m, p) = [m EXCEPT !.full = <<p>> \o m.full] BY <1>3 DEF PushPacket
  <2>2. PushPacket(m, p).partial = m.partial /\ PushPacket(m, p).full = <<p>> \o m.full
      BY <2>1, <1>r
  <2>4. InStack(m.full, o) \/ o \in Queued(p) => InStack(<<p>> \o m.full, o)
      BY <1>0, StackKeeps
  <2> QED BY <2>2, <2>4 DEF InPool
<1> QED BY <1>1, <1>2, <1>3

LEMMA PopInputKeeps ==
    ASSUME NEW m \in Pools, NEW o
    PROVE  InPool(m, o) => InPool(PopInput(m).rest, o) \/ o \in Queued(PopInput(m).packet)
<1>0. m.full \in Seq(Queues) /\ m.partial \in Seq(Partial) BY OnePool
<1>r. m = [full |-> m.full, partial |-> m.partial, empty |-> m.empty] BY DEF Pools
<1>1. CASE m.full # <<>>
  <2>1. PopInput(m).packet = Head(m.full) /\ PopInput(m).rest = [m EXCEPT !.full = Tail(m.full)]
      BY <1>1 DEF PopInput
  <2>2. PopInput(m).rest.full = Tail(m.full) /\ PopInput(m).rest.partial = m.partial
      BY <2>1, <1>r
  <2>3. InStack(m.full, o) => o \in Queued(Head(m.full)) \/ InStack(Tail(m.full), o)
    <3>1. Head(m.full) \in Queues BY <1>0, <1>1
    <3> QED BY <3>1, <1>0, <1>1, StackKeeps
  <2> QED BY <2>1, <2>2, <2>3 DEF InPool
<1>2. CASE m.full = <<>> /\ m.partial # <<>>
  <2>1. /\ PopInput(m).packet = Head(m.partial)
        /\ PopInput(m).rest = [m EXCEPT !.partial = Tail(m.partial)]
      BY <1>2 DEF PopInput
  <2>2. PopInput(m).rest.full = m.full /\ PopInput(m).rest.partial = Tail(m.partial)
      BY <2>1, <1>r
  <2>3. InStack(m.partial, o) => o \in Queued(Head(m.partial)) \/ InStack(Tail(m.partial), o)
    <3>1. Head(m.partial) \in Partial BY <1>0, <1>2
    <3> QED BY <3>1, <1>0, <1>2, StackKeeps
  <2> QED BY <2>1, <2>2, <2>3 DEF InPool
<1>3. CASE m.full = <<>> /\ m.partial = <<>>
  <2>1. PopInput(m).rest = m BY <1>3 DEF PopInput
  <2> QED BY <2>1
<1> QED BY <1>1, <1>2, <1>3

LEMMA PopOutputKeeps ==
    ASSUME NEW m \in Pools, NEW o
    PROVE  InPool(m, o) => InPool(PopOutput(m).rest, o) \/ o \in Queued(PopOutput(m).packet)
<1>0. m.full \in Seq(Queues) /\ m.partial \in Seq(Partial) /\ m.empty \in Nat BY OnePool
<1>r. m = [full |-> m.full, partial |-> m.partial, empty |-> m.empty] BY DEF Pools
<1>1. CASE m.empty > 0
  <2>1. PopOutput(m).rest = [m EXCEPT !.empty = m.empty - 1] BY <1>1 DEF PopOutput
  <2>2. PopOutput(m).rest.full = m.full /\ PopOutput(m).rest.partial = m.partial
      BY <2>1, <1>r
  <2> QED BY <2>2 DEF InPool
<1>2. CASE m.empty = 0 /\ m.partial # <<>>
  <2>1. /\ PopOutput(m).packet = Head(m.partial)
        /\ PopOutput(m).rest = [m EXCEPT !.partial = Tail(m.partial)]
      BY <1>2 DEF PopOutput
  <2>2. PopOutput(m).rest.full = m.full /\ PopOutput(m).rest.partial = Tail(m.partial)
      BY <2>1, <1>r
  <2>3. InStack(m.partial, o) => o \in Queued(Head(m.partial)) \/ InStack(Tail(m.partial), o)
    <3>1. Head(m.partial) \in Partial BY <1>0, <1>2
    <3> QED BY <3>1, <1>0, <1>2, StackKeeps
  <2> QED BY <2>1, <2>2, <2>3 DEF InPool
<1>3. CASE m.empty = 0 /\ m.partial = <<>>
  <2>1. PopOutput(m).rest = m BY <1>3 DEF PopOutput
  <2> QED BY <2>1
<1> QED BY <1>0, <1>1, <1>2, <1>3

LEMMA PushOnKeeps ==
    ASSUME NEW popped, popped.packet \in Queues \cup {NoPacket},
           popped.packet # NoPacket => Len(popped.packet) < SIZE, NEW x \in Objects,
           PushOn(popped, x).packet # NoPacket
    PROVE  /\ Queued(popped.packet) \subseteq Queued(PushOn(popped, x).packet)
           /\ x \in Queued(PushOn(popped, x).packet)
<1>1. popped.packet # NoPacket BY DEF PushOn
<1>2. PushOn(popped, x).packet = Append(popped.packet, x) BY <1>1 DEF PushOn
<1> QED BY <1>1, <1>2, QueuedAppend

LEMMA PushRootKeeps ==
    ASSUME NEW m \in Pools, NEW p \in Queues \cup {NoPacket}, NEW x \in Objects, NEW o,
           PushRoot(m, p, x).packet # NoPacket
    PROVE  InPool(m, o) \/ o \in Queued(p) \/ o = x =>
              InPool(PushRoot(m, p, x).rest, o) \/ o \in Queued(PushRoot(m, p, x).packet)
<1>1. CASE p = NoPacket
  <2> DEFINE next == PopOutput(m)
  <2>1. PushRoot(m, p, x) = PushOn(next, x) BY <1>1 DEF PushRoot
  <2>2. /\ next.packet \in Queues \cup {NoPacket}
        /\ next.packet # NoPacket => Len(next.packet) < SIZE
      BY PopOutputCounts
  <2>3. InPool(m, o) => InPool(next.rest, o) \/ o \in Queued(next.packet) BY PopOutputKeeps
  <2> HIDE DEF next
  <2>4. /\ Queued(next.packet) \subseteq Queued(PushOn(next, x).packet)
        /\ x \in Queued(PushOn(next, x).packet)
      BY <2>1, <2>2, PushOnKeeps
  <2>5. PushOn(next, x).rest = next.rest BY DEF PushOn
  <2>6. o \notin Queued(p) BY <1>1, QueuedNothing
  <2> QED BY <2>1, <2>3, <2>4, <2>5, <2>6
<1>2. CASE p # NoPacket /\ Len(p) = SIZE
  <2> DEFINE n == PushPacket(m, p)
             next == PopOutput(n)
  <2>1. PushRoot(m, p, x) = PushOn(next, x) BY <1>2 DEF PushRoot
  <2>a. n \in Pools BY <1>2, PushPacketCounts
  <2>b. InPool(m, o) \/ o \in Queued(p) => InPool(n, o) BY <1>2, PushPacketKeeps
  <2> HIDE DEF n
  <2>2. /\ next.packet \in Queues \cup {NoPacket}
        /\ next.packet # NoPacket => Len(next.packet) < SIZE
      BY <2>a, PopOutputCounts
  <2>3. InPool(n, o) => InPool(next.rest, o) \/ o \in Queued(next.packet)
      BY <2>a, PopOutputKeeps
  <2> HIDE DEF next
  <2>4. /\ Queued(next.packet) \subseteq Queued(PushOn(next, x).packet)
        /\ x \in Queued(PushOn(next, x).packet)
      BY <2>1, <2>2, PushOnKeeps
  <2>5. PushOn(next, x).rest = next.rest BY DEF PushOn
  <2> QED BY <2>1, <2>b, <2>3, <2>4, <2>5
<1>3. CASE p # NoPacket /\ Len(p) # SIZE
  <2>1. PushRoot(m, p, x) = [packet |-> Append(p, x), rest |-> m] BY <1>3 DEF PushRoot
  <2>2. PushRoot(m, p, x).packet = Append(p, x) /\ PushRoot(m, p, x).rest = m BY <2>1
  <2>3. p \in Queues /\ Len(p) < SIZE BY <1>3, QueueIsSeq, PacketAssumption
  <2>4. Queued(p) \subseteq Queued(Append(p, x)) /\ x \in Queued(Append(p, x))
      BY <2>3, QueuedAppend
  <2> QED BY <2>2, <2>4
<1> QED BY <1>1, <1>2, <1>3

LEMMA PushToPacketKeeps ==
    ASSUME NEW m \in Pools, NEW p \in Queues \cup {NoPacket}, NEW x \in Objects, NEW o,
           PushToPacket(m, p, x).packet # NoPacket
    PROVE  InPool(m, o) \/ o \in Queued(p) \/ o = x =>
              InPool(PushToPacket(m, p, x).rest, o)
              \/ o \in Queued(PushToPacket(m, p, x).packet)
<1>1. CASE p # NoPacket /\ Len(p) = SIZE
  <2> DEFINE next == PopOutput(m)
             n == PushPacket(next.rest, p)
             popped == [packet |-> next.packet, rest |-> n]
  <2>0. next = [packet |-> next.packet, rest |-> next.rest] BY PopOutputIsRecord
  <2>1. [next EXCEPT !.rest = PushPacket(@, p)] = popped BY <2>0
  <2>2. PushToPacket(m, p, x) = PushOn(popped, x) BY <1>1, <2>1 DEF PushToPacket
  <2>3. /\ next.packet \in Queues \cup {NoPacket} /\ next.rest \in Pools
        /\ next.packet # NoPacket => Len(next.packet) < SIZE
      BY PopOutputCounts
  <2>4. InPool(m, o) => InPool(next.rest, o) \/ o \in Queued(next.packet) BY PopOutputKeeps
  <2> HIDE DEF next
  <2>5. InPool(next.rest, o) \/ o \in Queued(p) => InPool(n, o) BY <2>3, <1>1, PushPacketKeeps
  <2> HIDE DEF n
  <2>6. popped.packet = next.packet /\ popped.rest = n OBVIOUS
  <2> HIDE DEF popped
  <2>7. /\ Queued(popped.packet) \subseteq Queued(PushOn(popped, x).packet)
        /\ x \in Queued(PushOn(popped, x).packet)
      BY <2>2, <2>3, <2>6, PushOnKeeps
  <2>8. PushOn(popped, x).rest = popped.rest BY DEF PushOn
  <2> QED BY <2>2, <2>4, <2>5, <2>6, <2>7, <2>8
<1>2. CASE ~(p # NoPacket /\ Len(p) = SIZE)
  <2> DEFINE popped == [packet |-> p, rest |-> m]
  <2>1. PushToPacket(m, p, x) = PushOn(popped, x) BY <1>2 DEF PushToPacket
  <2>2. p # NoPacket => Len(p) < SIZE BY <1>2, QueueIsSeq, PacketAssumption
  <2>3. popped.packet = p /\ popped.rest = m OBVIOUS
  <2> HIDE DEF popped
  <2>4. /\ Queued(popped.packet) \subseteq Queued(PushOn(popped, x).packet)
        /\ x \in Queued(PushOn(popped, x).packet)
      BY <2>1, <2>2, <2>3, PushOnKeeps
  <2>5. PushOn(popped, x).rest = popped.rest BY DEF PushOn
  <2> QED BY <2>1, <2>3, <2>4, <2>5
<1> QED BY <1>1, <1>2

\* The cell itself is in the packet in hand.
LEMMA PushRootQueues ==
    ASSUME NEW m \in Pools, NEW p \in Queues \cup {NoPacket}, NEW x \in Objects,
           PushRoot(m, p, x).packet # NoPacket
    PROVE  x \in Queued(PushRoot(m, p, x).packet)
<1>1. CASE p = NoPacket
  <2>1. PushRoot(m, p, x) = PushOn(PopOutput(m), x) BY <1>1 DEF PushRoot
  <2>2. /\ PopOutput(m).packet \in Queues \cup {NoPacket}
        /\ PopOutput(m).packet # NoPacket => Len(PopOutput(m).packet) < SIZE
      BY PopOutputCounts
  <2> QED BY <2>1, <2>2, PushOnKeeps
<1>2. CASE p # NoPacket /\ Len(p) = SIZE
  <2> DEFINE n == PushPacket(m, p)
  <2>1. PushRoot(m, p, x) = PushOn(PopOutput(n), x) BY <1>2 DEF PushRoot
  <2>2. n \in Pools BY <1>2, PushPacketCounts
  <2> HIDE DEF n
  <2>3. /\ PopOutput(n).packet \in Queues \cup {NoPacket}
        /\ PopOutput(n).packet # NoPacket => Len(PopOutput(n).packet) < SIZE
      BY <2>2, PopOutputCounts
  <2> QED BY <2>1, <2>3, PushOnKeeps
<1>3. CASE p # NoPacket /\ Len(p) # SIZE
  <2>1. PushRoot(m, p, x) = [packet |-> Append(p, x), rest |-> m] BY <1>3 DEF PushRoot
  <2>2. PushRoot(m, p, x).packet = Append(p, x) BY <2>1
  <2>3. p \in Queues /\ Len(p) < SIZE BY <1>3, QueueIsSeq, PacketAssumption
  <2> QED BY <2>2, <2>3, QueuedAppend
<1> QED BY <1>1, <1>2, <1>3

LEMMA PushToPacketQueues ==
    ASSUME NEW m \in Pools, NEW p \in Queues \cup {NoPacket}, NEW x \in Objects,
           PushToPacket(m, p, x).packet # NoPacket
    PROVE  x \in Queued(PushToPacket(m, p, x).packet)
<1>1. CASE p # NoPacket /\ Len(p) = SIZE
  <2> DEFINE next == PopOutput(m)
             popped == [packet |-> next.packet, rest |-> PushPacket(next.rest, p)]
  <2>0. next = [packet |-> next.packet, rest |-> next.rest] BY PopOutputIsRecord
  <2>1. [next EXCEPT !.rest = PushPacket(@, p)] = popped BY <2>0
  <2>2. PushToPacket(m, p, x) = PushOn(popped, x) BY <1>1, <2>1 DEF PushToPacket
  <2>3. /\ next.packet \in Queues \cup {NoPacket}
        /\ next.packet # NoPacket => Len(next.packet) < SIZE
      BY PopOutputCounts
  <2>4. popped.packet = next.packet OBVIOUS
  <2> HIDE DEF popped
  <2> QED BY <2>2, <2>3, <2>4, PushOnKeeps
<1>2. CASE ~(p # NoPacket /\ Len(p) = SIZE)
  <2> DEFINE popped == [packet |-> p, rest |-> m]
  <2>1. PushToPacket(m, p, x) = PushOn(popped, x) BY <1>2 DEF PushToPacket
  <2>2. p # NoPacket => Len(p) < SIZE BY <1>2, QueueIsSeq, PacketAssumption
  <2>3. popped.packet = p OBVIOUS
  <2> HIDE DEF popped
  <2> QED BY <2>1, <2>2, <2>3, PushOnKeeps
<1> QED BY <1>1, <1>2

-----------------------------------------------------------------------------
(* The tricolour invariant.  A worker that takes an entry of the remembered *)
(* set queues it without a mark; what follows is about the executions in    *)
(* which the entries taken are marked already (TakesMarked, below).         *)

\* A cell still to be traced, a pointer a write barrier has caught, a member
\* a worker has still to visit, a pointer a worker is about to mark.
Waiting(o) ==
    \/ InPool(pool, o)
    \/ o \in Queued(m_roots_packet) \/ o \in Queued(remset_packet)
    \/ \E w \in Marking : o \in Queued(input[w]) \/ o \in Queued(output[w])
Noted(p) ==
    \/ p \in m_hashtable
    \/ \E t \in Mutators : \E i \in 1..Len(ssb[t]) : ssb[t][i] = p
    \/ \E t \in Mutators : shading[t] = p
Traced(o, f) ==
    \E w \in Marking : wpc[w] \in {"trace", "set"} /\ cell[w] = o /\ f \in fields[w]
LoadedBy(p) == \E w \in Marking : loaded[w] = p

\* No member of a marked cell hides an unmarked one.
EdgeOK(o, f) ==
    \/ ptr[<<o, f>>] = Null \/ ptr[<<o, f>>] \in mark
    \/ Noted(ptr[<<o, f>>]) \/ LoadedBy(ptr[<<o, f>>])
    \/ Waiting(o) \/ Traced(o, f)
BlackEdges == \A o \in mark, f \in Fields : EdgeOK(o, f)

\* Neither does a root, once it has been traced, except by a cast.
RootOK(r) ==
    \/ ptr[r] = Null \/ ptr[r] \in mark
    \/ Noted(ptr[r]) \/ ptr[r] \in casts
RootsKnown ==
    /\ cpc = "roots" => \A r \in Roots \ todo : RootOK(r)
    /\ m_phase # "IDLE" \/ cpc \in {"launch", "pins", "iterate"} =>
          \A r \in Roots : RootOK(r)

\* Neither does a pin, once the pins have been traced.
PinsKnown ==
    /\ cpc = "pins" => AllPinned \subseteq mark \cup todo
    /\ cpc \in {"iterate", "mark", "work", "collect"} \/ (cpc = "launch" /\ kind = "COLLECT") =>
          AllPinned \subseteq mark

\* While the collecting thread iterates over the remembered set, what it has
\* passed is marked, and what is gone from the table too.
TableKnown ==
    cpc = "iterate" => todo \subseteq m_hashtable \cup mark /\ m_hashtable \subseteq mark \cup todo

Tricolour == BlackEdges /\ RootsKnown /\ PinsKnown /\ TableKnown

LEMMA WorkerTri ==
    ASSUME Tricolour, NEW w \in Marking, WorkerFrame,
           m_hashtable' \subseteq m_hashtable, m_hashtable \ m_hashtable' \subseteq mark',
           mark \subseteq mark', OthersStay(w),
           \A o : InPool(pool, o) \/ o \in Queued(input[w]) \/ o \in Queued(output[w]) =>
                     \/ InPool(pool', o) \/ o \in Queued(input'[w]) \/ o \in Queued(output'[w])
                     \/ wpc'[w] = "trace" /\ cell'[w] = o /\ fields'[w] = Fields,
           \A f \in Fields : wpc[w] \in {"trace", "set"} /\ f \in fields[w] =>
                     \/ /\ wpc'[w] \in {"trace", "set"}
                        /\ cell'[w] = cell[w] /\ f \in fields'[w]
                     \/ ptr[<<cell[w], f>>] = Null \/ ptr[<<cell[w], f>>] \in mark'
                     \/ loaded'[w] = ptr[<<cell[w], f>>],
           loaded[w] # Null => loaded'[w] = loaded[w] \/ loaded[w] \in mark',
           \A o \in mark' \ mark : o \in Queued(output'[w])
    PROVE  Tricolour'
<1> USE DEF WorkerFrame, heapVars, collectorVars
<1>1. \A p : Noted(p) => Noted(p)' \/ p \in mark' BY DEF Noted
<1>2. \A p : LoadedBy(p) => p = Null \/ p \in mark' \/ LoadedBy(p)'
  <2> SUFFICES ASSUME NEW p, LoadedBy(p), p # Null, p \notin mark' PROVE LoadedBy(p)' OBVIOUS
  <2>1. PICK x \in Marking : loaded[x] = p BY DEF LoadedBy
  <2>2. loaded'[x] = p
    <3>1. CASE x = w BY <3>1, <2>1
    <3>2. CASE x # w BY <3>2, <2>1 DEF OthersStay
    <3> QED BY <3>1, <3>2
  <2> QED BY <2>2 DEF LoadedBy
<1>3. \A o : \A f \in Fields : Waiting(o) => Waiting(o)' \/ Traced(o, f)'
  <2> SUFFICES ASSUME NEW o, NEW f \in Fields, Waiting(o) PROVE Waiting(o)' \/ Traced(o, f)'
      OBVIOUS
  <2>1. CASE InPool(pool, o) \/ o \in Queued(input[w]) \/ o \in Queued(output[w])
    <3>1. CASE InPool(pool', o) BY <3>1 DEF Waiting, InPool, InStack
    <3>2. CASE o \in Queued(input'[w]) \/ o \in Queued(output'[w])
      <4>1. Queued(input[w])' = Queued(input'[w]) /\ Queued(output[w])' = Queued(output'[w])
          BY DEF Queued
      <4> QED BY <3>2, <4>1 DEF Waiting
    <3>3. CASE wpc'[w] = "trace" /\ cell'[w] = o /\ fields'[w] = Fields
        BY <3>3 DEF Traced
    <3> QED BY <2>1, <3>1, <3>2, <3>3
  <2>2. CASE o \in Queued(m_roots_packet) \/ o \in Queued(remset_packet)
      BY <2>2 DEF Waiting, Queued
  <2>3. ASSUME NEW x \in Marking, x # w, o \in Queued(input[x]) \/ o \in Queued(output[x])
        PROVE  Waiting(o)'
    <3>1. input'[x] = input[x] /\ output'[x] = output[x] BY <2>3 DEF OthersStay
    <3>2. Queued(input[x])' = Queued(input[x]) /\ Queued(output[x])' = Queued(output[x])
        BY <3>1 DEF Queued
    <3> QED BY <2>3, <3>2 DEF Waiting
  <2> QED BY <2>1, <2>2, <2>3 DEF Waiting
<1>4. \A o : \A f \in Fields : Traced(o, f) =>
         Traced(o, f)' \/ ptr[<<o, f>>] = Null \/ ptr[<<o, f>>] \in mark'
         \/ LoadedBy(ptr[<<o, f>>])'
  <2> SUFFICES ASSUME NEW o, NEW f \in Fields, Traced(o, f)
               PROVE  Traced(o, f)' \/ ptr[<<o, f>>] = Null \/ ptr[<<o, f>>] \in mark'
                      \/ LoadedBy(ptr[<<o, f>>])'
      OBVIOUS
  <2>1. PICK x \in Marking : wpc[x] \in {"trace", "set"} /\ cell[x] = o /\ f \in fields[x]
      BY DEF Traced
  <2>2. CASE x = w
    <3>1. CASE loaded'[w] = ptr[<<cell[w], f>>]
      <4>1. LoadedBy(ptr[<<o, f>>])' BY <3>1, <2>1, <2>2 DEF LoadedBy
      <4> QED BY <4>1
    <3>2. CASE wpc'[w] \in {"trace", "set"} /\ cell'[w] = cell[w] /\ f \in fields'[w]
        BY <3>2, <2>1, <2>2 DEF Traced
    <3> QED BY <2>1, <2>2, <3>1, <3>2
  <2>3. CASE x # w
    <3>1. wpc'[x] = wpc[x] /\ cell'[x] = cell[x] /\ fields'[x] = fields[x]
        BY <2>3 DEF OthersStay
    <3> QED BY <2>1, <3>1 DEF Traced
  <2> QED BY <2>2, <2>3
<1>5. BlackEdges'
  <2> SUFFICES ASSUME NEW o \in mark', NEW f \in Fields PROVE EdgeOK(o, f)'
      BY DEF BlackEdges
  <2>1. CASE o \notin mark
    <3>1. o \in Queued(output'[w]) BY <2>1
    <3>2. Queued(output[w])' = Queued(output'[w]) BY DEF Queued
    <3> QED BY <3>1, <3>2 DEF EdgeOK, Waiting
  <2>2. CASE o \in mark
    <3>1. EdgeOK(o, f) BY <2>2 DEF Tricolour, BlackEdges
    <3>2. ptr' = ptr OBVIOUS
    <3>3. CASE ptr[<<o, f>>] = Null \/ ptr[<<o, f>>] \in mark BY <3>2, <3>3 DEF EdgeOK
    <3>4. CASE Noted(ptr[<<o, f>>])
      <4>1. Noted(ptr[<<o, f>>])' \/ ptr'[<<o, f>>] \in mark' BY <3>2, <3>4, <1>1 DEF Noted
      <4> QED BY <4>1 DEF EdgeOK
    <3>5. CASE LoadedBy(ptr[<<o, f>>])
      <4>1. ptr[<<o, f>>] = Null \/ ptr[<<o, f>>] \in mark'
            \/ \E x \in Marking : loaded'[x] = ptr[<<o, f>>]
          BY <3>5, <1>2 DEF LoadedBy
      <4> QED BY <3>2, <4>1 DEF EdgeOK, LoadedBy
    <3>6. CASE Waiting(o) BY <3>6, <1>3 DEF EdgeOK
    <3>7. CASE Traced(o, f) BY <3>2, <3>7, <1>4 DEF EdgeOK
    <3> QED BY <3>1, <3>3, <3>4, <3>5, <3>6, <3>7 DEF EdgeOK
  <2> QED BY <2>1, <2>2
<1>6. \A r : RootOK(r) => RootOK(r)' BY DEF RootOK, Noted
<1>7. RootsKnown' BY <1>6 DEF Tricolour, RootsKnown
<1>8. PinsKnown' BY DEF Tricolour, PinsKnown, AllPinned
<1>9. TableKnown' BY DEF Tricolour, TableKnown
<1> QED BY <1>5, <1>7, <1>8, <1>9 DEF Tricolour

\* What a step of w that only moves packets needs: the rest stays.
LEMMA WorkerMoves ==
    ASSUME IInv, Tricolour, NEW w \in Marking, WorkerFrame,
           UNCHANGED <<mark, m_hashtable, cell, fields, loaded>>,
           wpc[w] \notin {"trace", "set"}, OthersStay(w),
           \A o : InPool(pool, o) \/ o \in Queued(input[w]) \/ o \in Queued(output[w]) =>
                     InPool(pool', o) \/ o \in Queued(input'[w]) \/ o \in Queued(output'[w])
    PROVE  Tricolour'
<1>1. m_hashtable' = m_hashtable /\ mark \subseteq mark' /\ mark' \ mark = {} OBVIOUS
<1>2. loaded[w] # Null => loaded'[w] = loaded[w] OBVIOUS
<1> QED BY <1>1, <1>2, WorkerTri

LEMMA TakeInputTri ==
    ASSUME IInv, Tricolour, NEW w \in Marking, NEW otherwise,
           wpc[w] \in {"start", "retry", "again"}, TakeInput(w, otherwise)
    PROVE  Tricolour'
<1> DEFINE popped == PopInput(pool)
<1>t. /\ input[w] \in Packets /\ pool \in Pools /\ HandOK(w)
      /\ input \in [Marking -> Packets] /\ wpc \in [Marking -> WorkerPC]
    BY DEF IInv, Hands, TypeOK
<1>1. /\ input' = [input EXCEPT ![w] = popped.packet] /\ pool' = popped.rest
      /\ output' = output /\ WorkerFrame /\ UNCHANGED <<mark, m_hashtable, cell, fields, loaded>>
      /\ OthersStay(w)
    BY <1>t DEF TakeInput, scanVars, OthersStay
<1>2. input[w] = NoPacket BY <1>t DEF HandOK
<1>3. input'[w] = popped.packet BY <1>1, <1>t
<1>4. \A o : InPool(pool, o) => InPool(popped.rest, o) \/ o \in Queued(popped.packet)
    BY <1>t, PopInputKeeps
<1>5. \A o : InPool(pool, o) \/ o \in Queued(input[w]) \/ o \in Queued(output[w]) =>
                InPool(pool', o) \/ o \in Queued(input'[w]) \/ o \in Queued(output'[w])
    BY <1>1, <1>2, <1>3, <1>4, QueuedNothing
<1>6. wpc[w] \notin {"trace", "set"} OBVIOUS
<1> HIDE DEF popped
<1> QED BY <1>1, <1>5, <1>6, WorkerMoves

LEMMA RemsetTakenTri ==
    ASSUME IInv, Tricolour, NEW w \in Marking, RemsetTaken(w) PROVE Tricolour'
<1> USE DEF RemsetTaken, scanVars, On
<1>1. wpc \in [Marking -> WorkerPC] BY DEF IInv, TypeOK
<1>2. OthersStay(w) BY <1>1 DEF OthersStay
<1> QED BY <1>2, WorkerMoves

LEMMA CheckTri == ASSUME IInv, Tricolour, NEW w \in Marking, Check(w) PROVE Tricolour'
<1> USE DEF Check, scanVars, On
<1>1. wpc \in [Marking -> WorkerPC] BY DEF IInv, TypeOK
<1>2. OthersStay(w) BY <1>1 DEF OthersStay
<1> QED BY <1>2, WorkerMoves

LEMMA PushOutputTri == ASSUME IInv, Tricolour, NEW w \in Marking, PushOutput(w) PROVE Tricolour'
<1>t. /\ output[w] \in Packets /\ pool \in Pools /\ HandOK(w)
      /\ output \in [Marking -> Packets] /\ wpc \in [Marking -> WorkerPC]
    BY DEF IInv, Hands, TypeOK
<1>1. /\ ~undefined /\ wpc[w] = "push" /\ pool' = PushPacket(pool, output[w]) /\ input' = input
      /\ WorkerFrame /\ UNCHANGED <<mark, m_hashtable, cell, fields, loaded>> /\ OthersStay(w)
    BY <1>t DEF PushOutput, On, scanVars, OthersStay
<1>2. output[w] \in Queues BY <1>1, <1>t, PacketOrNull DEF HandOK
<1>3. \A o : InPool(pool, o) \/ o \in Queued(output[w]) => InPool(pool', o)
    BY <1>1, <1>2, <1>t, PushPacketKeeps
<1>4. wpc[w] \notin {"trace", "set"} BY <1>1
<1> QED BY <1>1, <1>3, <1>4, WorkerMoves

LEMMA ReadyTri == ASSUME IInv, Tricolour, NEW w \in Marking, Ready(w) PROVE Tricolour'
<1> DEFINE popped == PopOutput(pool)
<1>t. /\ output[w] \in Packets /\ pool \in Pools /\ HandOK(w)
      /\ output \in [Marking -> Packets] /\ wpc \in [Marking -> WorkerPC]
    BY DEF IInv, Hands, TypeOK
<1>1. /\ wpc[w] = "ready" /\ output' = [output EXCEPT ![w] = popped.packet]
      /\ pool' = popped.rest /\ input' = input
      /\ WorkerFrame /\ UNCHANGED <<mark, m_hashtable, cell, fields, loaded>> /\ OthersStay(w)
    BY <1>t DEF Ready, On, scanVars, OthersStay
<1>2. output[w] = NoPacket BY <1>1, <1>t DEF HandOK
<1>3. output'[w] = popped.packet BY <1>1, <1>t
<1>4. \A o : InPool(pool, o) => InPool(popped.rest, o) \/ o \in Queued(popped.packet)
    BY <1>t, PopOutputKeeps
<1>5. \A o : InPool(pool, o) \/ o \in Queued(input[w]) \/ o \in Queued(output[w]) =>
                InPool(pool', o) \/ o \in Queued(input'[w]) \/ o \in Queued(output'[w])
    BY <1>1, <1>2, <1>3, <1>4, QueuedNothing
<1>6. wpc[w] \notin {"trace", "set"} BY <1>1
<1> HIDE DEF popped
<1> QED BY <1>1, <1>5, <1>6, WorkerMoves

LEMMA SwapTri == ASSUME IInv, Tricolour, NEW w \in Marking, Swap(w) PROVE Tricolour'
<1> DEFINE popped == PopInput(pool)
<1>t. /\ pool \in Pools /\ input \in [Marking -> Packets] /\ wpc \in [Marking -> WorkerPC]
    BY DEF IInv, TypeOK
<1>1. /\ wpc[w] = "drain" /\ input[w] = <<>> /\ input' = [input EXCEPT ![w] = popped.packet]
      /\ pool' = PushPacket(popped.rest, <<>>) /\ output' = output
      /\ WorkerFrame /\ UNCHANGED <<mark, m_hashtable, cell, fields, loaded>> /\ OthersStay(w)
    BY <1>t DEF Swap, On, scanVars, OthersStay
<1>3. input'[w] = popped.packet BY <1>1, <1>t
<1>4. /\ popped.rest \in Pools
      /\ \A o : InPool(pool, o) => InPool(popped.rest, o) \/ o \in Queued(popped.packet)
    BY <1>t, PopInputKeeps, PopInputCounts
<1> HIDE DEF popped
<1>7. \A o : InPool(popped.rest, o) => InPool(pool', o)
    BY <1>1, <1>4, PacketOrNull, PushPacketKeeps
<1>5. \A o : InPool(pool, o) \/ o \in Queued(input[w]) \/ o \in Queued(output[w]) =>
                InPool(pool', o) \/ o \in Queued(input'[w]) \/ o \in Queued(output'[w])
    BY <1>1, <1>3, <1>4, <1>7, QueuedNothing
<1>6. wpc[w] \notin {"trace", "set"} BY <1>1
<1> QED BY <1>1, <1>5, <1>6, WorkerMoves

LEMMA PopCellTri == ASSUME IInv, Tricolour, NEW w \in Marking, PopCell(w) PROVE Tricolour'
<1> DEFINE last == input[w][Len(input[w])]
           front == SubSeq(input[w], 1, Len(input[w]) - 1)
<1>t. /\ HandOK(w) /\ input \in [Marking -> Packets] /\ wpc \in [Marking -> WorkerPC]
      /\ cell \in [Marking -> Objects \cup {Null}] /\ fields \in [Marking -> SUBSET Fields]
    BY DEF IInv, Hands, TypeOK
<1>1. /\ wpc[w] = "drain" /\ input[w] # <<>> /\ cell' = [cell EXCEPT ![w] = last]
      /\ input' = [input EXCEPT ![w] = front]
      /\ fields' = [fields EXCEPT ![w] = Fields] /\ wpc' = [wpc EXCEPT ![w] = "trace"]
      /\ WorkerFrame /\ UNCHANGED <<mark, m_hashtable, pool, output, loaded>>
    BY DEF PopCell, On
<1>2. OthersStay(w) BY <1>1, <1>t DEF OthersStay
<1>3. input[w] \in Queues BY <1>1, <1>t, PacketOrNull DEF HandOK
<1>4. front \in Queues /\ front # NoPacket
  <2>1. input[w] \in Seq(Objects) /\ Len(input[w]) <= SIZE BY <1>3, QueueIsSeq
  <2>2. Len(input[w]) \in Nat \ {0} /\ SIZE \in Nat BY <2>1, <1>1, PacketAssumption
  <2>3. front \in Seq(Objects) /\ Len(front) = Len(input[w]) - 1 BY <2>1, <2>2
  <2>4. Len(front) <= SIZE BY <2>1, <2>2, <2>3
  <2>5. front \in Queues <=> front \in Seq(Objects) /\ Len(front) <= SIZE BY QueueIsSeq
  <2> QED BY <2>3, <2>4, <2>5, PacketOrNull
<1>5. Queued(input[w]) \subseteq Queued(front) \cup {last} BY <1>1, <1>3, <1>4, QueuedFront
<1>6. input'[w] = front /\ cell'[w] = last /\ fields'[w] = Fields /\ wpc'[w] = "trace"
    BY <1>1, <1>t
<1> HIDE DEF front, last
<1>7. \A o : InPool(pool, o) \/ o \in Queued(input[w]) \/ o \in Queued(output[w]) =>
                \/ InPool(pool', o) \/ o \in Queued(input'[w]) \/ o \in Queued(output'[w])
                \/ wpc'[w] = "trace" /\ cell'[w] = o /\ fields'[w] = Fields
    BY <1>1, <1>5, <1>6
<1>8. mark \subseteq mark' /\ mark' \ mark = {} /\ m_hashtable' = m_hashtable BY <1>1
<1>9. loaded[w] # Null => loaded'[w] = loaded[w] \/ loaded[w] \in mark' BY <1>1
<1>10. wpc[w] \notin {"trace", "set"} BY <1>1
<1> QED BY <1>1, <1>2, <1>7, <1>8, <1>9, <1>10, WorkerTri

LEMMA CellTracedTri == ASSUME IInv, Tricolour, NEW w \in Marking, CellTraced(w) PROVE Tricolour'
<1>t. /\ cell \in [Marking -> Objects \cup {Null}] /\ wpc \in [Marking -> WorkerPC]
    BY DEF IInv, TypeOK
<1>1. /\ fields[w] = {} /\ wpc[w] = "trace" /\ WorkerFrame
      /\ UNCHANGED <<mark, m_hashtable, pool, input, output, fields, loaded>> /\ OthersStay(w)
    BY <1>t DEF CellTraced, On, OthersStay
<1>2. mark \subseteq mark' /\ mark' \ mark = {} /\ m_hashtable' = m_hashtable BY <1>1
<1>3. \A o : InPool(pool, o) \/ o \in Queued(input[w]) \/ o \in Queued(output[w]) =>
                InPool(pool', o) \/ o \in Queued(input'[w]) \/ o \in Queued(output'[w])
    BY <1>1
<1>4. \A f \in Fields : f \notin fields[w] BY <1>1
<1>5. loaded[w] # Null => loaded'[w] = loaded[w] \/ loaded[w] \in mark' BY <1>1
<1> QED BY <1>1, <1>2, <1>3, <1>4, <1>5, WorkerTri

LEMMA TraceLoadTri ==
    ASSUME IInv, Tricolour, NEW w \in Marking, NEW f \in fields[w], TraceLoad(w, f)
    PROVE  Tricolour'
<1> DEFINE p == ptr[<<cell[w], f>>]
<1>t. /\ fields \in [Marking -> SUBSET Fields] /\ wpc \in [Marking -> WorkerPC] /\ HandOK(w)
      /\ loaded \in [Marking -> Objects \cup {Null}]
    BY DEF IInv, Hands, TypeOK
<1>1. /\ wpc[w] = "trace" /\ fields' = [fields EXCEPT ![w] = @ \ {f}] /\ WorkerFrame
      /\ UNCHANGED <<mark, m_hashtable, pool, input, output, cell>>
      /\ \/ (p = Null \/ p \in mark) /\ UNCHANGED <<loaded, wpc>>
         \/ loaded' = [loaded EXCEPT ![w] = p] /\ wpc' = [wpc EXCEPT ![w] = "set"]
    BY DEF TraceLoad, On
<1>2. OthersStay(w) BY <1>t, <1>1 DEF OthersStay
<1>3. wpc'[w] \in {"trace", "set"} BY <1>t, <1>1
<1>4. p = Null \/ p \in mark' \/ loaded'[w] = p BY <1>t, <1>1
<1>5. loaded[w] = Null BY <1>t, <1>1 DEF HandOK
<1>6. \A g \in Fields : wpc[w] \in {"trace", "set"} /\ g \in fields[w] =>
         \/ wpc'[w] \in {"trace", "set"} /\ cell'[w] = cell[w] /\ g \in fields'[w]
         \/ ptr[<<cell[w], g>>] = Null \/ ptr[<<cell[w], g>>] \in mark'
         \/ loaded'[w] = ptr[<<cell[w], g>>]
  <2> SUFFICES ASSUME NEW g \in Fields, g \in fields[w]
               PROVE  \/ wpc'[w] \in {"trace", "set"} /\ cell'[w] = cell[w] /\ g \in fields'[w]
                      \/ ptr[<<cell[w], g>>] = Null \/ ptr[<<cell[w], g>>] \in mark'
                      \/ loaded'[w] = ptr[<<cell[w], g>>]
      OBVIOUS
  <2>1. CASE g = f BY <2>1, <1>4
  <2>2. CASE g # f BY <2>2, <1>1, <1>3, <1>t
  <2> QED BY <2>1, <2>2
<1>7. mark \subseteq mark' /\ mark' \ mark = {} /\ m_hashtable' = m_hashtable BY <1>1
<1>8. \A o : InPool(pool, o) \/ o \in Queued(input[w]) \/ o \in Queued(output[w]) =>
                InPool(pool', o) \/ o \in Queued(input'[w]) \/ o \in Queued(output'[w])
    BY <1>1
<1> HIDE DEF p
<1> QED BY <1>1, <1>2, <1>5, <1>6, <1>7, <1>8, WorkerTri

LEMMA TraceMarkTri ==
    ASSUME IInv, Tricolour, NEW w \in Marking, TraceMark(w), ~undefined' PROVE Tricolour'
<1> DEFINE pushed == PushToPacket(pool, output[w], loaded[w])
<1>t. /\ output \in [Marking -> Packets] /\ wpc \in [Marking -> WorkerPC] /\ HandOK(w)
      /\ loaded \in [Marking -> Objects \cup {Null}] /\ pool \in Pools /\ mark \in SUBSET Objects
    BY DEF IInv, Hands, TypeOK
<1>1. /\ ~undefined /\ wpc[w] = "set" /\ loaded' = [loaded EXCEPT ![w] = Null]
      /\ wpc' = [wpc EXCEPT ![w] = "trace"] /\ WorkerFrame
      /\ UNCHANGED <<m_hashtable, input, cell, fields>>
      /\ \/ /\ mark' = mark \cup {loaded[w]} /\ output' = [output EXCEPT ![w] = pushed.packet]
            /\ pool' = pushed.rest /\ undefined' = (pushed.packet = NoPacket)
         \/ loaded[w] \in mark /\ UNCHANGED <<mark, output, pool, undefined>>
    BY DEF TraceMark, On
<1>2. OthersStay(w) BY <1>t, <1>1 DEF OthersStay
<1>3. loaded[w] \in Objects BY <1>t, <1>1 DEF HandOK
<1>4. /\ mark \subseteq mark' /\ m_hashtable' = m_hashtable /\ loaded[w] \in mark'
      /\ wpc'[w] \in {"trace", "set"} /\ cell'[w] = cell[w] /\ fields'[w] = fields[w]
    BY <1>1, <1>t
<1>5. /\ \A o : InPool(pool, o) \/ o \in Queued(input[w]) \/ o \in Queued(output[w]) =>
                   InPool(pool', o) \/ o \in Queued(input'[w]) \/ o \in Queued(output'[w])
      /\ \A o \in mark' \ mark : o \in Queued(output'[w])
  <2>1. CASE loaded[w] \in mark /\ UNCHANGED <<mark, output, pool, undefined>>
      BY <1>1, <2>1
  <2>2. CASE /\ mark' = mark \cup {loaded[w]} /\ output' = [output EXCEPT ![w] = pushed.packet]
             /\ pool' = pushed.rest /\ undefined' = (pushed.packet = NoPacket)
    <3>1. pushed.packet # NoPacket /\ output'[w] = pushed.packet BY <2>2, <1>t
    <3>2. output[w] \in Queues \cup {NoPacket} BY <1>t, PacketOrNull
    <3>3. \A o : InPool(pool, o) \/ o \in Queued(output[w]) \/ o = loaded[w] =>
                    InPool(pushed.rest, o) \/ o \in Queued(pushed.packet)
        BY <3>1, <3>2, <1>3, <1>t, PushToPacketKeeps
    <3>4. loaded[w] \in Queued(pushed.packet) BY <3>1, <3>2, <1>3, <1>t, PushToPacketQueues
    <3> HIDE DEF pushed
    <3> QED BY <2>2, <3>1, <3>3, <3>4, <1>1
  <2> QED BY <1>1, <2>1, <2>2
<1> HIDE DEF pushed
<1> QED BY <1>1, <1>2, <1>4, <1>5, WorkerTri

LEMMA TakeRemsetTri ==
    ASSUME IInv, Tricolour, NEW w \in Marking, TakeRemset(w), ~undefined',
           m_hashtable \ m_hashtable' \subseteq mark
    PROVE  Tricolour'
<1>1. PICK e \in m_hashtable :
         /\ m_hashtable' = m_hashtable \ {e}
         /\ output' = [output EXCEPT ![w] = PushToPacket(pool, output[w], e).packet]
         /\ pool' = PushToPacket(pool, output[w], e).rest
         /\ undefined' = (PushToPacket(pool, output[w], e).packet = NoPacket)
    BY DEF TakeRemset
<1> DEFINE pushed == PushToPacket(pool, output[w], e)
<1>t. /\ output \in [Marking -> Packets] /\ taken \in [Marking -> 0..POP_REMSET_COUNT]
      /\ pool \in Pools /\ m_hashtable \subseteq Objects
    BY DEF IInv, TypeOK
<1>2. /\ wpc[w] = "remset" /\ WorkerFrame
      /\ UNCHANGED <<mark, wpc, input, cell, fields, loaded>>
    BY DEF TakeRemset, On, scanVars
<1>3. OthersStay(w) BY <1>1, <1>2, <1>t DEF OthersStay
<1>4. pushed.packet # NoPacket /\ output'[w] = pushed.packet BY <1>1, <1>t
<1>5. output[w] \in Queues \cup {NoPacket} /\ e \in Objects BY <1>t, PacketOrNull
<1>6. \A o : InPool(pool, o) \/ o \in Queued(output[w]) =>
                InPool(pushed.rest, o) \/ o \in Queued(pushed.packet)
    BY <1>4, <1>5, <1>t, PushToPacketKeeps
<1>7. pool' = pushed.rest BY <1>1
<1> HIDE DEF pushed
<1>8. \A o : InPool(pool, o) \/ o \in Queued(input[w]) \/ o \in Queued(output[w]) =>
                InPool(pool', o) \/ o \in Queued(input'[w]) \/ o \in Queued(output'[w])
    BY <1>2, <1>4, <1>6, <1>7
<1>9. /\ mark \subseteq mark' /\ mark' \ mark = {} /\ m_hashtable' \subseteq m_hashtable
      /\ m_hashtable \ m_hashtable' \subseteq mark'
    BY <1>1, <1>2
<1>10. wpc[w] \notin {"trace", "set"} /\ loaded'[w] = loaded[w] BY <1>2
<1> QED BY <1>2, <1>3, <1>8, <1>9, <1>10, WorkerTri

LEMMA WorkerKeepsTri ==
    ASSUME IInv, Tricolour, NEW w \in Marking, Worker(w), ~undefined',
           TakeRemset(w) => m_hashtable \ m_hashtable' \subseteq mark
    PROVE  Tricolour'
<1>0. CASE TakeRemset(w) BY <1>0, TakeRemsetTri
<1>1. CASE Start(w) BY <1>1, TakeInputTri DEF Start, On
<1>2. CASE RemsetTaken(w) BY <1>2, RemsetTakenTri
<1>3. CASE Retry(w) BY <1>3, TakeInputTri DEF Retry, On
<1>4. CASE PushOutput(w) BY <1>4, PushOutputTri
<1>5. CASE Check(w) BY <1>5, CheckTri
<1>6. CASE Again(w) BY <1>6, TakeInputTri DEF Again, On
<1>7. CASE Ready(w) BY <1>7, ReadyTri
<1>8. CASE PopCell(w) BY <1>8, PopCellTri
<1>9. CASE CellTraced(w) BY <1>9, CellTracedTri
<1>10. CASE \E f \in fields[w] : TraceLoad(w, f) BY <1>10, TraceLoadTri
<1>11. CASE TraceMark(w) BY <1>11, TraceMarkTri
<1>12. CASE Swap(w) BY <1>12, SwapTri
<1> QED BY <1>0, <1>1, <1>2, <1>3, <1>4, <1>5, <1>6, <1>7, <1>8, <1>9, <1>10, <1>11, <1>12
        DEF Worker

\* What a step of a mutator needs: what it overwrites or stores is caught by
\* its barrier, and no mark is set but on a new object.
LEMMA MutatorTri ==
    ASSUME IInv, Tricolour, ~undefined, cpc \in {"idle", "stop"}, cpc' \in {"idle", "stop"},
           m_phase' = m_phase,
           UNCHANGED <<pool, m_roots_packet, remset_packet, input, output, wpc, cell,
                       fields, loaded>>,
           m_phase = "IDLE" => mark' = mark,
           m_phase = "MARK" =>
              /\ mark \subseteq mark' /\ casts \subseteq casts'
              /\ \A q \in Objects : Noted(q) => Noted(q)' \/ q \in mark'
              /\ \A h \in Handles :
                    \/ ptr'[h] = ptr[h] \/ ptr'[h] = Null \/ ptr'[h] \in mark'
                    \/ \E u \in Mutators : shading'[u] = ptr'[h]
                    \/ h \in Roots /\ ptr'[h] \in casts'
              /\ \A o \in mark' \ mark, f \in Fields : ptr'[<<o, f>>] = Null
    PROVE  Tricolour'
<1>t. /\ ptr \in [Handles -> Objects \cup {Null}] /\ mark \in SUBSET Objects
      /\ m_phase \in {"IDLE", "MARK"} /\ Roots \subseteq Handles
  <2>1. TypeOK /\ m_phase # "COLLECT" BY CollectorStarts DEF Control
  <2> QED BY <2>1 DEF TypeOK, Handles
<1>1. CASE m_phase = "IDLE"
  <2>1. mark' = {} BY <1>1, CollectorStarts DEF Finished
  <2> QED BY <2>1, <1>1 DEF Tricolour, BlackEdges, RootsKnown, PinsKnown, TableKnown
<1>2. CASE m_phase = "MARK"
  <2>n. \A h \in Handles : ptr[h] = Null \/ ptr[h] \in Objects BY <1>t
  <2>s. \A q : (\E u \in Mutators : shading'[u] = q) => Noted(q)' BY DEF Noted
  <2>1. ASSUME NEW o \in mark', NEW f \in Fields PROVE EdgeOK(o, f)'
    <3>1. CASE o \notin mark BY <3>1, <2>1, <1>2 DEF EdgeOK
    <3>2. CASE o \in mark
      <4>h. <<o, f>> \in Handles BY <3>2, <1>t DEF Handles
      <4>1. EdgeOK(o, f) BY <3>2 DEF Tricolour, BlackEdges
      <4>r. ~(<<o, f>> \in Roots) BY <3>2, <1>t, HeapAssumption
      <4>2. CASE ptr'[<<o, f>>] = Null \/ ptr'[<<o, f>>] \in mark' BY <4>2 DEF EdgeOK
      <4>3. CASE \E u \in Mutators : shading'[u] = ptr'[<<o, f>>]
          BY <4>3 DEF EdgeOK, Noted
      <4>4. CASE ptr'[<<o, f>>] = ptr[<<o, f>>] /\ ptr[<<o, f>>] \in Objects
        <5>1. CASE Noted(ptr[<<o, f>>])
          <6>1. Noted(ptr[<<o, f>>])' \/ ptr'[<<o, f>>] \in mark' BY <1>2, <4>4, <5>1 DEF Noted
          <6> QED BY <6>1 DEF EdgeOK
        <5>2. CASE ptr[<<o, f>>] \in mark BY <1>2, <4>4, <5>2 DEF EdgeOK
        <5>3. CASE LoadedBy(ptr[<<o, f>>])
          <6>1. LoadedBy(ptr[<<o, f>>])' BY <4>4, <5>3 DEF LoadedBy
          <6> QED BY <6>1 DEF EdgeOK
        <5>4. CASE Waiting(o)
          <6>1. Waiting(o)' BY <5>4 DEF Waiting, InPool, InStack, Queued
          <6> QED BY <6>1 DEF EdgeOK
        <5>5. CASE Traced(o, f)
          <6>1. Traced(o, f)' BY <5>5 DEF Traced
          <6> QED BY <6>1 DEF EdgeOK
        <5>6. ptr[<<o, f>>] # Null BY <4>4, HeapAssumption
        <5> QED BY <4>1, <5>1, <5>2, <5>3, <5>4, <5>5, <5>6 DEF EdgeOK
      <4> QED BY <4>h, <4>r, <4>2, <4>3, <4>4, <1>2, <2>n
    <3> QED BY <3>1, <3>2
  <2>2. ASSUME NEW r \in Roots PROVE RootOK(r)'
    <3>h. r \in Handles BY <1>t
    <3>1. RootOK(r) BY <1>2 DEF Tricolour, RootsKnown
    <3>2. CASE ptr'[r] = Null \/ ptr'[r] \in mark' \/ ptr'[r] \in casts' BY <3>2 DEF RootOK
    <3>3. CASE \E u \in Mutators : shading'[u] = ptr'[r] BY <3>3 DEF RootOK, Noted
    <3>4. CASE ptr'[r] = ptr[r] /\ ptr[r] \in Objects
      <4>1. CASE Noted(ptr[r])
        <5>1. Noted(ptr[r])' \/ ptr'[r] \in mark' BY <1>2, <3>4, <4>1 DEF Noted
        <5> QED BY <5>1 DEF RootOK
      <4>2. CASE ptr[r] \in mark \/ ptr[r] \in casts BY <1>2, <3>4, <4>2 DEF RootOK
      <4>3. ptr[r] # Null BY <3>4, HeapAssumption
      <4> QED BY <3>1, <4>1, <4>2, <4>3 DEF RootOK
    <3> QED BY <3>h, <3>2, <3>3, <3>4, <1>2, <2>n
  <2> QED BY <2>1, <2>2, <1>2 DEF Tricolour, BlackEdges, RootsKnown, PinsKnown, TableKnown
<1> QED BY <1>t, <1>1, <1>2

\* A running mutator finds the collecting thread outside its pause.
LEMMA WhileRunning ==
    ASSUME IInv, NEW t \in Mutators, Running(t)
    PROVE  /\ ~undefined /\ cpc \in {"idle", "stop"} /\ collector # t
           /\ TypeOK /\ Roots \subseteq Handles
BY DEF IInv, TypeOK, Running, Handles

LEMMA GcNewTri ==
    ASSUME IInv, Tricolour, NEW t \in Mutators, NEW o \in Objects, NEW r \in Roots,
           GcNew(t, o, r)
    PROVE  Tricolour'
<1> USE DEF GcNew, collectorVars, workerVars, scanVars, remsetVars
<1>1. /\ ~undefined /\ cpc \in {"idle", "stop"} /\ TypeOK /\ Roots \subseteq Handles
    BY WhileRunning
<1>2. \A h \in Handles : \/ ptr'[h] = ptr[h] \/ ptr'[h] = Null
                         \/ h = r /\ ptr'[h] = o
    OBVIOUS
<1>3. ptr'[r] = o /\ r \notin {o} \X Fields BY <1>1, HeapAssumption
<1>4. m_phase = "MARK" =>
         /\ mark' = mark \cup {o}
         /\ \A f \in Fields : ptr'[<<o, f>>] = Null
  <2>1. \A f \in Fields : <<o, f>> \in Handles /\ <<o, f>> # r /\ <<o, f>> \in {o} \X Fields
      BY HeapAssumption DEF Handles
  <2> QED BY <2>1
<1>5. /\ m_phase' = m_phase /\ cpc' = cpc /\ casts' = casts
      /\ m_phase = "IDLE" => mark' = mark
      /\ UNCHANGED <<pool, m_roots_packet, remset_packet, input, output, wpc, cell,
                     fields, loaded, m_hashtable, ssb, shading>>
    OBVIOUS
<1> HIDE DEF GcNew
<1>6. \A q : Noted(q)' = Noted(q) BY <1>5 DEF Noted
<1> QED BY <1>1, <1>2, <1>4, <1>5, <1>6, MutatorTri

LEMMA WbarrierStoreTri ==
    ASSUME IInv, Tricolour, NEW t \in Mutators, NEW dst \in Handles, NEW p,
           WbarrierStore(t, dst, p)
    PROVE  Tricolour'
<1> USE DEF WbarrierStore, collectorVars, workerVars, scanVars, remsetVars
<1>1. /\ ~undefined /\ cpc \in {"idle", "stop"} /\ TypeOK /\ Roots \subseteq Handles
    BY WhileRunning
<1>2. \A h \in Handles : ptr'[h] = ptr[h] \/ ptr'[h] = p BY <1>1 DEF TypeOK
<1>3. m_phase = "MARK" => shading'[t] = p BY <1>1 DEF TypeOK
<1>4. \A q \in Objects : Noted(q) => Noted(q)'
  <2>1. shading[t] = Null /\ \A u \in Mutators \ {t} : shading'[u] = shading[u]
      BY <1>1 DEF TypeOK
  <2>2. Null \notin Objects BY HeapAssumption
  <2> QED BY <2>1, <2>2 DEF Noted
<1>5. /\ m_phase' = m_phase /\ cpc' = cpc /\ casts' = casts /\ mark' = mark
      /\ UNCHANGED <<pool, m_roots_packet, remset_packet, input, output, wpc, cell,
                     fields, loaded>>
    OBVIOUS
<1> HIDE DEF WbarrierStore
<1> QED BY <1>1, <1>2, <1>3, <1>4, <1>5, MutatorTri

LEMMA WbarrierShadeTri ==
    ASSUME IInv, Tricolour, NEW t \in Mutators, WbarrierShade(t) PROVE Tricolour'
<1> USE DEF WbarrierShade, collectorVars, workerVars, scanVars, remsetVars, heapVars
<1>1. /\ ~undefined /\ cpc \in {"idle", "stop"} /\ TypeOK /\ Roots \subseteq Handles
    BY WhileRunning
<1>2. \A u \in Mutators \ {t} : shading'[u] = shading[u] BY <1>1 DEF TypeOK
<1>3. ASSUME NEW q \in Objects, Noted(q) PROVE Noted(q)' \/ q \in mark
  <2>1. CASE shading[t] \in mark BY <1>2, <1>3, <2>1 DEF Noted
  <2>2. CASE shading[t] \notin mark /\ Len(ssb[t]) = SSB_SIZE
    <3>1. m_hashtable' = m_hashtable \cup {ssb[t][i] : i \in 1..SSB_SIZE}
          /\ ssb' = [ssb EXCEPT ![t] = <<shading[t]>>]
        BY <2>2 DEF RemsetAdd
    <3>2. ssb'[t] = <<shading[t]>> /\ \A u \in Mutators \ {t} : ssb'[u] = ssb[u]
        BY <3>1, <1>1 DEF TypeOK
    <3>3. 1 \in 1..Len(ssb'[t]) /\ ssb'[t][1] = shading[t] BY <3>2
    <3>4. CASE q \in m_hashtable BY <3>4, <3>1 DEF Noted
    <3>5. CASE \E u \in Mutators : \E i \in 1..Len(ssb[u]) : ssb[u][i] = q
      <4>1. PICK u \in Mutators : \E i \in 1..Len(ssb[u]) : ssb[u][i] = q BY <3>5
      <4>2. PICK i \in 1..Len(ssb[u]) : ssb[u][i] = q BY <4>1
      <4>3. CASE u = t BY <4>2, <4>3, <3>1, <2>2 DEF Noted
      <4>4. CASE u # t BY <4>2, <4>4, <3>2 DEF Noted
      <4> QED BY <4>3, <4>4
    <3>6. CASE \E u \in Mutators : shading[u] = q
      <4>1. PICK u \in Mutators : shading[u] = q BY <3>6
      <4>2. CASE u = t BY <4>1, <4>2, <3>3 DEF Noted
      <4>3. CASE u # t BY <4>1, <4>3, <1>2 DEF Noted
      <4> QED BY <4>2, <4>3
    <3> QED BY <1>3, <3>4, <3>5, <3>6 DEF Noted
  <2>3. CASE shading[t] \notin mark /\ Len(ssb[t]) # SSB_SIZE
    <3>1. m_hashtable' = m_hashtable /\ ssb' = [ssb EXCEPT ![t] = Append(@, shading[t])]
        BY <2>3 DEF RemsetAdd
    <3>0. ssb[t] \in Seq(Objects) /\ shading[t] \in Objects
        BY <1>1 DEF TypeOK
    <3>2. ssb'[t] = Append(ssb[t], shading[t]) /\ \A u \in Mutators \ {t} : ssb'[u] = ssb[u]
        BY <3>1, <1>1 DEF TypeOK
    <3>3. /\ Len(ssb[t]) + 1 \in 1..Len(ssb'[t]) /\ ssb'[t][Len(ssb[t]) + 1] = shading[t]
          /\ \A i \in 1..Len(ssb[t]) : i \in 1..Len(ssb'[t]) /\ ssb'[t][i] = ssb[t][i]
        BY <3>0, <3>2
    <3>4. CASE q \in m_hashtable BY <3>4, <3>1 DEF Noted
    <3>5. CASE \E u \in Mutators : \E i \in 1..Len(ssb[u]) : ssb[u][i] = q
      <4>1. PICK u \in Mutators : \E i \in 1..Len(ssb[u]) : ssb[u][i] = q BY <3>5
      <4>2. PICK i \in 1..Len(ssb[u]) : ssb[u][i] = q BY <4>1
      <4>3. CASE u = t BY <4>2, <4>3, <3>3 DEF Noted
      <4>4. CASE u # t BY <4>2, <4>4, <3>2 DEF Noted
      <4> QED BY <4>3, <4>4
    <3>6. CASE \E u \in Mutators : shading[u] = q
      <4>1. PICK u \in Mutators : shading[u] = q BY <3>6
      <4>2. CASE u = t BY <4>1, <4>2, <3>3 DEF Noted
      <4>3. CASE u # t BY <4>1, <4>3, <1>2 DEF Noted
      <4> QED BY <4>2, <4>3
    <3> QED BY <1>3, <3>4, <3>5, <3>6 DEF Noted
  <2> QED BY <2>1, <2>2, <2>3
<1>5. /\ m_phase' = m_phase /\ cpc' = cpc /\ casts' = casts /\ mark' = mark /\ ptr' = ptr
      /\ UNCHANGED <<pool, m_roots_packet, remset_packet, input, output, wpc, cell,
                     fields, loaded>>
    OBVIOUS
<1> HIDE DEF WbarrierShade
<1> QED BY <1>1, <1>3, <1>5, MutatorTri

LEMMA CastTri ==
    ASSUME IInv, Tricolour, NEW t \in Mutators, NEW src \in Handles, NEW r \in Roots,
           Cast(t, src, r)
    PROVE  Tricolour'
<1> USE DEF Cast, collectorVars, workerVars, scanVars, remsetVars
<1>1. /\ ~undefined /\ cpc \in {"idle", "stop"} /\ TypeOK /\ Roots \subseteq Handles
    BY WhileRunning
<1>2. \A h \in Handles : ptr'[h] = ptr[h] \/ (h = r /\ ptr'[h] = ptr[src])
  <2>1. ptr \in [Handles -> Objects \cup {Null}] BY <1>1 DEF TypeOK
  <2>2. ptr' = [ptr EXCEPT ![r] = ptr[src]] OBVIOUS
  <2> QED BY <2>1, <2>2
<1>3. m_phase = "MARK" => ptr[src] \in mark \/ ptr[src] \in casts' OBVIOUS
<1>4. casts \subseteq casts' OBVIOUS
<1>5. /\ m_phase' = m_phase /\ cpc' = cpc /\ mark' = mark
      /\ UNCHANGED <<pool, m_roots_packet, remset_packet, input, output, wpc, cell,
                     fields, loaded, m_hashtable, ssb, shading>>
    OBVIOUS
<1> HIDE DEF Cast
<1>6. \A q : Noted(q)' = Noted(q) BY <1>5 DEF Noted
<1> QED BY <1>1, <1>2, <1>3, <1>4, <1>5, <1>6, MutatorTri

\* Pins, and the call that starts a collection, touch no handle and no mark.
LEMMA OtherMutatorTri ==
    ASSUME IInv, Tricolour, NEW t \in Mutators, Running(t), cpc' \in {"idle", "stop"},
           UNCHANGED <<ptr, mark, casts, m_phase, remsetVars, shading, pool, m_roots_packet,
                       remset_packet, workerVars>>
    PROVE  Tricolour'
<1> USE DEF workerVars, scanVars, remsetVars
<1>1. ~undefined /\ cpc \in {"idle", "stop"} BY WhileRunning
<1>2. \A q : Noted(q)' = Noted(q) BY DEF Noted
<1> QED BY <1>1, <1>2, MutatorTri

LEMMA MutatorKeepsTri ==
    ASSUME IInv, Tricolour, NEW t \in Mutators, Mutator(t) PROVE Tricolour'
<1>h. Held(t) \subseteq Handles BY HeldHandles
<1>1. CASE \E o \in Objects, r \in Roots : GcNew(t, o, r) BY <1>1, GcNewTri
<1>2. CASE \E dst, src \in Held(t) : WbarrierStore(t, dst, ptr[src])
    BY <1>2, <1>h, WbarrierStoreTri
<1>3. CASE \E dst \in Held(t) : WbarrierStore(t, dst, Null) BY <1>3, <1>h, WbarrierStoreTri
<1>4. CASE WbarrierShade(t) BY <1>4, WbarrierShadeTri
<1>5. CASE \E src \in Held(t), r \in Roots : Cast(t, src, r) BY <1>5, <1>h, CastTri
<1>6. CASE \E src \in Held(t) : Pin(t, src)
  <2>1. /\ Running(t) /\ cpc' = cpc
        /\ UNCHANGED <<ptr, mark, casts, m_phase, remsetVars, shading, pool, m_roots_packet,
                       remset_packet, workerVars>>
      BY <1>6 DEF Pin, collectorVars
  <2> QED BY <2>1, OtherMutatorTri, WhileRunning
<1>7. CASE \E o \in pins[t] : Unpin(t, o)
  <2>1. /\ Running(t) /\ cpc' = cpc
        /\ UNCHANGED <<ptr, mark, casts, m_phase, remsetVars, shading, pool, m_roots_packet,
                       remset_packet, workerVars>>
      BY <1>7 DEF Unpin, collectorVars
  <2> QED BY <2>1, OtherMutatorTri, WhileRunning
<1>8. CASE \E k \in {"LAUNCH_CONCURRENT_MARK", "COLLECT"} : Gc(t, k)
  <2>1. /\ Running(t) /\ cpc' = "stop"
        /\ UNCHANGED <<ptr, mark, casts, m_phase, remsetVars, shading, pool, m_roots_packet,
                       remset_packet, workerVars>>
      BY <1>8 DEF Gc, heapVars
  <2> QED BY <2>1, OtherMutatorTri
<1> QED BY <1>1, <1>2, <1>3, <1>4, <1>5, <1>6, <1>7, <1>8 DEF Mutator

\* What a step of the collecting thread needs: what it queues, marks and moves
\* between packets; a note it drops is marked.
LEMMA CollectorTri ==
    ASSUME BlackEdges,
           UNCHANGED <<ptr, casts, input, output, cell, fields, loaded>>,
           mark \subseteq mark',
           \A o : InPool(pool, o) \/ o \in Queued(m_roots_packet) \/ o \in Queued(remset_packet)
                  => \/ InPool(pool', o) \/ o \in Queued(m_roots_packet')
                     \/ o \in Queued(remset_packet'),
           \A w \in Marking : wpc[w] \in {"trace", "set"} => wpc'[w] = wpc[w],
           \A q : Noted(q) => q = Null \/ q \in mark' \/ Noted(q)',
           \A o \in mark' \ mark : o \in Queued(m_roots_packet') \/ o \in Queued(remset_packet')
    PROVE  BlackEdges' /\ \A r : RootOK(r) => RootOK(r)'
<1>1. \A o : Waiting(o) => Waiting(o)'
  <2> SUFFICES ASSUME NEW o, Waiting(o) PROVE Waiting(o)' OBVIOUS
  <2>1. /\ InPool(pool, o)' <=> InPool(pool', o)
        /\ Queued(m_roots_packet)' = Queued(m_roots_packet')
        /\ Queued(remset_packet)' = Queued(remset_packet')
      BY DEF InPool, InStack, Queued
  <2>2. \A w \in Marking : /\ Queued(input[w])' = Queued(input[w])
                           /\ Queued(output[w])' = Queued(output[w])
      BY DEF Queued
  <2> QED BY <2>1, <2>2 DEF Waiting
<1>2. \A o : \A f : Traced(o, f) => Traced(o, f)' BY DEF Traced
<1>3. \A q : LoadedBy(q) => LoadedBy(q)' BY DEF LoadedBy
<1>n. \A q : Noted(q) => q = Null \/ q \in mark' \/ Noted(q)' OBVIOUS
<1>4. ASSUME NEW o \in mark', NEW f \in Fields PROVE EdgeOK(o, f)'
  <2>1. CASE o \notin mark
    <3>1. Queued(m_roots_packet)' = Queued(m_roots_packet')
          /\ Queued(remset_packet)' = Queued(remset_packet')
        BY DEF Queued
    <3>2. Waiting(o)' BY <3>1, <2>1, <1>4 DEF Waiting
    <3> QED BY <3>2 DEF EdgeOK
  <2>2. CASE o \in mark
    <3>1. EdgeOK(o, f) BY <2>2 DEF BlackEdges
    <3>2. ptr' = ptr OBVIOUS
    <3>3. CASE Noted(ptr[<<o, f>>])
      <4>1. ptr[<<o, f>>] = Null \/ ptr[<<o, f>>] \in mark' \/ Noted(ptr[<<o, f>>])'
          BY <3>2, <3>3, <1>n DEF Noted
      <4> QED BY <3>2, <4>1 DEF EdgeOK
    <3>4. CASE LoadedBy(ptr[<<o, f>>])
      <4>1. LoadedBy(ptr[<<o, f>>])' BY <3>2, <3>4 DEF LoadedBy
      <4> QED BY <4>1 DEF EdgeOK
    <3>5. CASE Waiting(o) BY <3>5, <1>1 DEF EdgeOK
    <3>6. CASE Traced(o, f) BY <3>6, <1>2 DEF EdgeOK
    <3>7. CASE ptr[<<o, f>>] = Null \/ ptr[<<o, f>>] \in mark BY <3>7, <3>2 DEF EdgeOK
    <3> QED BY <3>1, <3>3, <3>4, <3>5, <3>6, <3>7 DEF EdgeOK
  <2> QED BY <2>1, <2>2
<1>5. ASSUME NEW r, RootOK(r) PROVE RootOK(r)'
  <2>1. ptr' = ptr /\ casts' = casts OBVIOUS
  <2>2. CASE Noted(ptr[r])
    <3>1. ptr[r] = Null \/ ptr[r] \in mark' \/ Noted(ptr[r])' BY <2>1, <2>2, <1>n DEF Noted
    <3> QED BY <2>1, <3>1 DEF RootOK
  <2> QED BY <2>1, <2>2, <1>5 DEF RootOK
<1> QED BY <1>4, <1>5 DEF BlackEdges

\* It moves no note either, until it flushes the store buffers.
LEMMA NotesKept ==
    ASSUME UNCHANGED <<m_hashtable, ssb, shading>>
    PROVE  \A q : Noted(q) => Noted(q)'
BY DEF Noted

LEMMA StopTri == ASSUME IInv, Tricolour, Stop PROVE Tricolour'
<1> USE DEF Stop, At, heapVars, remsetVars, workerVars, scanVars
<1>t. m_phase # "COLLECT" /\ TypeOK BY CollectorStarts
<1>1. BlackEdges' /\ \A r : RootOK(r) => RootOK(r)'
    BY NotesKept, CollectorTri DEF Tricolour
<1>2. RootsKnown'
  <2>1. CASE m_phase = "IDLE"
    <3>1. \A r \in Roots \ todo' : ptr'[r] = Null BY <2>1 DEF RootsToTrace
    <3> QED BY <3>1, <2>1 DEF RootsKnown, RootOK
  <2>2. CASE m_phase # "IDLE" BY <2>2, <1>1 DEF Tricolour, RootsKnown
  <2> QED BY <2>1, <2>2
<1>3. PinsKnown' BY DEF PinsKnown, AllPinned
<1>4. TableKnown' BY DEF TableKnown
<1> QED BY <1>1, <1>2, <1>3, <1>4 DEF Tricolour

LEMMA AddRootTri ==
    ASSUME IInv, Tricolour, NEW o \in Objects, AddRoot(o), ~undefined'
    PROVE  BlackEdges' /\ \A r : RootOK(r) => RootOK(r)'
<1> DEFINE pushed == PushRoot(pool, m_roots_packet, o)
<1> USE DEF AddRoot, heapVars, remsetVars, workerVars, scanVars
<1>1. /\ mark' = mark \cup {o} /\ m_roots_packet' = pushed.packet /\ pool' = pushed.rest
      /\ pushed.packet # NoPacket /\ remset_packet' = remset_packet
    OBVIOUS
<1>2. m_roots_packet \in Queues \cup {NoPacket} /\ pool \in Pools
    BY PacketOrNull DEF IInv, TypeOK
<1>3. \A x : InPool(pool, x) \/ x \in Queued(m_roots_packet) =>
                InPool(pushed.rest, x) \/ x \in Queued(pushed.packet)
    BY <1>1, <1>2, PushRootKeeps
<1>4. o \in Queued(pushed.packet) BY <1>1, <1>2, PushRootQueues
<1>5. /\ UNCHANGED <<ptr, casts, input, output, cell, fields, loaded, wpc>>
      /\ UNCHANGED <<m_hashtable, ssb, shading>>
    OBVIOUS
<1> HIDE DEF pushed, AddRoot
<1>6. \A x : InPool(pool, x) \/ x \in Queued(m_roots_packet) \/ x \in Queued(remset_packet) =>
                \/ InPool(pool', x) \/ x \in Queued(m_roots_packet')
                \/ x \in Queued(remset_packet')
    BY <1>1, <1>3
<1>7. \A x \in mark' \ mark : x \in Queued(m_roots_packet') BY <1>1, <1>4
<1>8. mark \subseteq mark' BY <1>1
<1> QED BY <1>5, <1>6, <1>7, <1>8, NotesKept, CollectorTri DEF Tricolour

LEMMA TraceRootTri ==
    ASSUME IInv, Tricolour, NEW r \in todo, TraceRoot(r), ~undefined' PROVE Tricolour'
<1>1. /\ ~undefined /\ cpc = "roots" /\ cpc' = cpc /\ todo' = todo \ {r} /\ AddRoot(ptr[r])
      /\ mark' = mark \cup {ptr[r]} /\ ptr' = ptr /\ m_phase' = m_phase
    BY DEF TraceRoot, AddRoot, At, heapVars
<1>2. r \in RootsToTrace /\ m_phase = "IDLE" BY <1>1, CollectorStarts DEF Control
<1>3. ptr[r] \in Objects BY <1>2 DEF RootsToTrace, IInv, TypeOK, Handles
<1>4. BlackEdges' /\ \A x : RootOK(x) => RootOK(x)' BY <1>1, <1>3, AddRootTri
<1>5. RootsKnown'
  <2>1. \A x \in Roots \ todo : RootOK(x) BY <1>1 DEF Tricolour, RootsKnown
  <2>2. RootOK(r)' BY <1>1 DEF RootOK
  <2>3. \A x \in Roots \ todo' : RootOK(x)' BY <1>1, <1>4, <2>1, <2>2
  <2> QED BY <1>1, <1>2, <2>3 DEF RootsKnown
<1>6. PinsKnown' /\ TableKnown' BY <1>1 DEF PinsKnown, TableKnown
<1> QED BY <1>4, <1>5, <1>6 DEF Tricolour

LEMMA TracePinTri ==
    ASSUME IInv, Tricolour, NEW o \in todo, TracePin(o), ~undefined' PROVE Tricolour'
<1>1. /\ ~undefined /\ cpc = "pins" /\ cpc' = cpc /\ todo' = todo \ {o} /\ AddRoot(o)
      /\ mark' = mark \cup {o} /\ pins' = pins /\ m_phase' = m_phase
    BY DEF TracePin, AddRoot, At, heapVars
<1>2. o \in Objects BY <1>1, CollectorStarts DEF Control
<1>3. BlackEdges' /\ \A r : RootOK(r) => RootOK(r)' BY <1>1, <1>2, AddRootTri
<1>4. RootsKnown' BY <1>1, <1>3 DEF Tricolour, RootsKnown
<1>5. PinsKnown'
  <2>1. AllPinned \subseteq mark \cup todo BY <1>1 DEF Tricolour, PinsKnown
  <2>2. AllPinned' \subseteq mark' \cup todo' BY <1>1, <2>1 DEF AllPinned
  <2> QED BY <1>1, <2>2 DEF PinsKnown
<1>6. TableKnown' BY <1>1 DEF TableKnown
<1> QED BY <1>3, <1>4, <1>5, <1>6 DEF Tricolour

LEMMA RootsTracedTri == ASSUME IInv, Tricolour, RootsTraced PROVE Tricolour'
<1> USE DEF RootsTraced, At, heapVars, remsetVars, workerVars, scanVars
<1>1. BlackEdges' /\ \A r : RootOK(r) => RootOK(r)'
    BY NotesKept, CollectorTri DEF Tricolour
<1>2. \A r \in Roots : RootOK(r) BY DEF Tricolour, RootsKnown
<1>3. RootsKnown' BY <1>1, <1>2 DEF RootsKnown
<1>4. PinsKnown' BY DEF PinsKnown, AllPinned
<1>5. TableKnown' BY DEF TableKnown
<1> QED BY <1>1, <1>3, <1>4, <1>5 DEF Tricolour

LEMMA FlushBuffersTri == ASSUME IInv, Tricolour, FlushBuffers PROVE Tricolour'
<1> DEFINE popped == PopOutput(pool)
<1> USE DEF FlushBuffers, At, heapVars, workerVars, scanVars
<1>1. /\ ~undefined /\ cpc = "pins" /\ todo = {} /\ m_hashtable' = Flushed /\ todo' = Flushed
      /\ remset_packet' = popped.packet /\ pool' = popped.rest /\ cpc' = "iterate"
      /\ UNCHANGED <<ptr, casts, pins, input, output, cell, fields, loaded, wpc, shading, mark,
                     m_roots_packet, m_phase, kind>>
    OBVIOUS
<1>2. remset_packet = NoPacket /\ pool \in Pools BY <1>1, CollectorStarts
<1>3. \A x : InPool(pool, x) => InPool(popped.rest, x) \/ x \in Queued(popped.packet)
    BY <1>2, PopOutputKeeps
<1> HIDE DEF popped, FlushBuffers
<1>4. \A x : InPool(pool, x) \/ x \in Queued(m_roots_packet) \/ x \in Queued(remset_packet) =>
                \/ InPool(pool', x) \/ x \in Queued(m_roots_packet')
                \/ x \in Queued(remset_packet')
    BY <1>1, <1>2, <1>3, QueuedNothing
<1>5. \A q : Noted(q) => Noted(q)'
  <2>1. \A q : q \in m_hashtable => q \in m_hashtable' BY <1>1 DEF Flushed
  <2>2. \A u \in Mutators : \A i \in 1..Len(ssb[u]) : ssb[u][i] \in m_hashtable'
      BY <1>1 DEF Flushed
  <2> QED BY <2>1, <2>2, <1>1 DEF Noted
<1>6. BlackEdges' /\ \A r : RootOK(r) => RootOK(r)'
    BY <1>1, <1>4, <1>5, CollectorTri DEF Tricolour
<1>7. RootsKnown' BY <1>1, <1>6 DEF Tricolour, RootsKnown
<1>8. PinsKnown' BY <1>1 DEF Tricolour, PinsKnown, AllPinned
<1>9. TableKnown' BY <1>1 DEF TableKnown
<1> QED BY <1>6, <1>7, <1>8, <1>9 DEF Tricolour

LEMMA TraceRemsetTri ==
    ASSUME IInv, Tricolour, NEW o \in todo, TraceRemset(o), ~undefined' PROVE Tricolour'
<1> DEFINE pushed == PushRoot(pool, remset_packet, o)
<1> USE DEF TraceRemset, At, heapVars, remsetVars, workerVars, scanVars
<1>k. ~undefined /\ cpc = "iterate" /\ cpc' = cpc /\ todo' = todo \ {o} OBVIOUS
<1>0. todo \subseteq m_hashtable \cup mark /\ m_hashtable \subseteq mark \cup todo
    BY <1>k DEF Tricolour, TableKnown
<1>1. /\ m_roots_packet' = m_roots_packet
      /\ \/ /\ mark' = mark \cup {o} /\ remset_packet' = pushed.packet /\ pool' = pushed.rest
            /\ pushed.packet # NoPacket
         \/ o \in mark /\ UNCHANGED <<mark, remset_packet, pool>>
    BY <1>0
<1>2. remset_packet \in Queues \cup {NoPacket} /\ pool \in Pools
    BY PacketOrNull DEF IInv, TypeOK
<1>o. o \in Objects BY <1>k, CollectorStarts DEF Control
<1>3. pushed.packet # NoPacket =>
         \A x : InPool(pool, x) \/ x \in Queued(remset_packet) =>
                   InPool(pushed.rest, x) \/ x \in Queued(pushed.packet)
    BY <1>2, <1>o, PushRootKeeps
<1>4. pushed.packet # NoPacket => o \in Queued(pushed.packet) BY <1>2, <1>o, PushRootQueues
<1>5. /\ UNCHANGED <<ptr, casts, pins, input, output, cell, fields, loaded, wpc, m_phase, kind>>
      /\ UNCHANGED <<m_hashtable, ssb, shading>>
    OBVIOUS
<1> HIDE DEF pushed, TraceRemset
<1>6. \A x : InPool(pool, x) \/ x \in Queued(m_roots_packet) \/ x \in Queued(remset_packet) =>
                \/ InPool(pool', x) \/ x \in Queued(m_roots_packet')
                \/ x \in Queued(remset_packet')
    BY <1>1, <1>3
<1>7. \A x \in mark' \ mark : x \in Queued(remset_packet') BY <1>1, <1>4
<1>8. mark \subseteq mark' BY <1>1
<1>9. BlackEdges' /\ \A r : RootOK(r) => RootOK(r)'
    BY <1>5, <1>6, <1>7, <1>8, NotesKept, CollectorTri DEF Tricolour
<1>10. RootsKnown' BY <1>5, <1>k, <1>9 DEF Tricolour, RootsKnown
<1>11. PinsKnown' BY <1>5, <1>k, <1>8 DEF Tricolour, PinsKnown, AllPinned
<1>12. TableKnown' BY <1>0, <1>1, <1>5, <1>k DEF TableKnown
<1> QED BY <1>9, <1>10, <1>11, <1>12 DEF Tricolour

LEMMA ClearRemsetTri ==
    ASSUME IInv, Tricolour, ClearRemset, ~undefined' PROVE Tricolour'
<1> USE DEF ClearRemset, At, heapVars, workerVars, scanVars
<1>1. /\ ~undefined /\ cpc = "iterate" /\ todo = {} /\ m_hashtable' = {}
      /\ remset_packet # NoPacket /\ pool' = PushPacket(pool, remset_packet)
      /\ remset_packet' = NoPacket /\ m_roots_packet' = m_roots_packet
      /\ cpc' = (IF m_phase = "IDLE" THEN "launch" ELSE "mark")
      /\ UNCHANGED <<ptr, casts, pins, input, output, cell, fields, loaded, wpc, mark, m_phase>>
    OBVIOUS
<1>2. m_hashtable \subseteq mark BY <1>1 DEF Tricolour, TableKnown
<1>3. /\ \A u \in Mutators : ssb[u] = <<>> /\ shading[u] = Null
      /\ pool \in Pools /\ remset_packet \in Queues
  <2>1. TypeOK /\ Shades /\ Remembered /\ pool \in Pools BY <1>1, CollectorStarts
  <2>2. remset_packet \in Queues BY <1>1, <2>1, PacketOrNull DEF TypeOK
  <2> QED BY <1>1, <2>1, <2>2 DEF Shades, Remembered, PausedPC
<1> HIDE DEF ClearRemset
<1>4. \A x : InPool(pool, x) \/ x \in Queued(m_roots_packet) \/ x \in Queued(remset_packet) =>
                \/ InPool(pool', x) \/ x \in Queued(m_roots_packet')
                \/ x \in Queued(remset_packet')
    BY <1>1, <1>3, PushPacketKeeps
<1>5. \A q : Noted(q) => q = Null \/ q \in mark
  <2>1. \A u \in Mutators : 1..Len(ssb[u]) = {} BY <1>3
  <2> QED BY <1>2, <1>3, <2>1 DEF Noted
<1>6. BlackEdges' /\ \A r : RootOK(r) => RootOK(r)'
    BY <1>1, <1>4, <1>5, CollectorTri DEF Tricolour
<1>7. RootsKnown' BY <1>1, <1>6 DEF Tricolour, RootsKnown
<1>8. PinsKnown' BY <1>1 DEF Tricolour, PinsKnown, AllPinned
<1>9. TableKnown' BY <1>1 DEF TableKnown
<1> QED BY <1>6, <1>7, <1>8, <1>9 DEF Tricolour

LEMMA HandOverKeeps ==
    ASSUME IInv, HandOverRoots, remset_packet' = remset_packet
    PROVE  \A x : InPool(pool, x) \/ x \in Queued(m_roots_packet) \/ x \in Queued(remset_packet) =>
                \/ InPool(pool', x) \/ x \in Queued(m_roots_packet')
                \/ x \in Queued(remset_packet')
<1>1. m_roots_packet \in Queues \cup {NoPacket} /\ pool \in Pools
    BY PacketOrNull DEF IInv, TypeOK
<1>2. CASE m_roots_packet = NoPacket
    BY <1>2 DEF HandOverRoots
<1>3. CASE m_roots_packet # NoPacket
    BY <1>1, <1>3, PushPacketKeeps DEF HandOverRoots
<1> QED BY <1>2, <1>3

LEMMA ConcurrentMarkTri == ASSUME IInv, Tricolour, ConcurrentMark PROVE Tricolour'
<1> USE DEF ConcurrentMark, At, heapVars, remsetVars, scanVars
<1>1. /\ ~undefined /\ cpc = "launch" /\ m_phase' = "MARK" /\ HandOverRoots /\ kind' = kind
      /\ \/ kind = "COLLECT" /\ cpc' = "mark"
         \/ cpc' = "idle"
      /\ UNCHANGED <<ptr, casts, pins, input, output, cell, fields, loaded, mark, m_hashtable,
                     ssb, shading, remset_packet>>
    OBVIOUS
<1>2. \A w \in Marking : wpc[w] = "off" BY <1>1, CollectorStarts
<1> HIDE DEF ConcurrentMark
<1>3. BlackEdges' /\ \A r : RootOK(r) => RootOK(r)'
    BY <1>1, <1>2, HandOverKeeps, NotesKept, CollectorTri DEF Tricolour
<1>4. \A r \in Roots : RootOK(r) BY <1>1 DEF Tricolour, RootsKnown
<1>5. RootsKnown' BY <1>3, <1>4 DEF RootsKnown
<1>6. PinsKnown' BY <1>1 DEF Tricolour, PinsKnown, AllPinned
<1>7. TableKnown' BY <1>1 DEF TableKnown
<1> QED BY <1>3, <1>5, <1>6, <1>7 DEF Tricolour

LEMMA MarkTri == ASSUME IInv, Tricolour, Mark PROVE Tricolour'
<1> USE DEF Mark, At, heapVars, remsetVars, scanVars
<1>1. /\ ~undefined /\ cpc = "mark" /\ cpc' = "work" /\ HandOverRoots /\ m_phase' = m_phase
      /\ wpc' = [wpc EXCEPT ![Main] = "start"] /\ kind' = kind
      /\ UNCHANGED <<ptr, casts, pins, input, output, cell, fields, loaded, mark, m_hashtable,
                     ssb, shading, remset_packet>>
    OBVIOUS
<1>2. /\ wpc[Main] = "off" /\ wpc \in [Marking -> WorkerPC] /\ m_phase = "MARK"
    BY <1>1, CollectorStarts DEF TypeOK
<1> HIDE DEF Mark
<1>3. \A w \in Marking : wpc[w] \in {"trace", "set"} => wpc'[w] = wpc[w] BY <1>1, <1>2
<1>4. BlackEdges' /\ \A r : RootOK(r) => RootOK(r)'
    BY <1>1, <1>3, HandOverKeeps, NotesKept, CollectorTri DEF Tricolour
<1>5. RootsKnown' BY <1>1, <1>2, <1>4 DEF Tricolour, RootsKnown
<1>6. PinsKnown' BY <1>1 DEF Tricolour, PinsKnown, AllPinned
<1>7. TableKnown' BY <1>1 DEF TableKnown
<1> QED BY <1>4, <1>5, <1>6, <1>7 DEF Tricolour

LEMMA JoinTri == ASSUME IInv, Tricolour, Join PROVE Tricolour'
<1> USE DEF Join, At, heapVars, remsetVars, workerVars, scanVars
<1>1. m_phase = "MARK" BY CollectorStarts
<1>2. BlackEdges' /\ \A r : RootOK(r) => RootOK(r)'
    BY NotesKept, CollectorTri DEF Tricolour
<1>3. RootsKnown' BY <1>1, <1>2 DEF Tricolour, RootsKnown
<1>4. PinsKnown' BY DEF Tricolour, PinsKnown, AllPinned
<1>5. TableKnown' BY DEF TableKnown
<1> QED BY <1>2, <1>3, <1>4, <1>5 DEF Tricolour

LEMMA CollectTri == ASSUME Collect PROVE Tricolour'
BY DEF Collect, Tricolour, BlackEdges, RootsKnown, PinsKnown, TableKnown

LEMMA CollectorKeepsTri ==
    ASSUME IInv, Tricolour, Collector, ~undefined' PROVE Tricolour'
BY StopTri, TraceRootTri, RootsTracedTri, TracePinTri, FlushBuffersTri, TraceRemsetTri,
   ClearRemsetTri, ConcurrentMarkTri, MarkTri, JoinTri, CollectTri
   DEF Collector

LEMMA InitTri == Init => Tricolour
BY DEF Init, Tricolour, BlackEdges, RootsKnown, PinsKnown, TableKnown

\* What marker::worker_routine does not see to: the entry a worker takes out of
\* the remembered set, which it queues without marking it, is marked already.
TakesMarked == \A w \in Marking : TakeRemset(w) => m_hashtable \ m_hashtable' \subseteq mark

LEMMA NextTri ==
    ASSUME IInv, ~undefined => Tricolour, [Next]_vars, [TakesMarked]_vars
    PROVE  (~undefined => Tricolour)'
<1> SUFFICES ASSUME ~undefined' PROVE Tricolour' OBVIOUS
<1>1. ASSUME UNCHANGED vars PROVE Tricolour'
  <2> USE <1>1 DEF vars, heapVars, remsetVars, collectorVars, workerVars, scanVars
  <2>1. Tricolour OBVIOUS
  <2>2. \A q : Noted(q)' <=> Noted(q) BY DEF Noted
  <2>3. BlackEdges' /\ \A r : RootOK(r) => RootOK(r)' BY <2>1, <2>2, CollectorTri DEF Tricolour
  <2>4. RootsKnown' BY <2>1, <2>3 DEF Tricolour, RootsKnown
  <2>5. PinsKnown' BY <2>1 DEF Tricolour, PinsKnown, AllPinned
  <2>6. TableKnown' BY <2>1 DEF Tricolour, TableKnown
  <2> QED BY <2>3, <2>4, <2>5, <2>6 DEF Tricolour
<1>2. CASE Next /\ TakesMarked
  <2>1. CASE Undefined BY <2>1, <1>1 DEF Undefined
  <2>2. CASE Collector
    <3>1. ~undefined
        BY <2>2 DEF Collector, Stop, TraceRoot, RootsTraced, TracePin, FlushBuffers, TraceRemset,
                    ClearRemset, ConcurrentMark, Mark, Join, Collect, At
    <3> QED BY <2>2, <3>1, CollectorKeepsTri
  <2>3. CASE \E t \in Mutators : Mutator(t)
    <3>1. ~undefined
        BY <2>3 DEF Mutator, GcNew, WbarrierStore, WbarrierShade, Cast, Pin, Unpin, Gc, Running
    <3> QED BY <2>3, <3>1, MutatorKeepsTri
  <2>4. CASE \E w \in Marking : Worker(w)
    <3>1. ~undefined
        BY <2>4 DEF Worker, Start, TakeRemset, RemsetTaken, Retry, PushOutput, Check, Again,
                    Ready, PopCell, CellTraced, TraceLoad, TraceMark, Swap, On
    <3> QED BY <2>4, <3>1, <1>2, WorkerKeepsTri DEF TakesMarked
  <2> QED BY <1>2, <2>1, <2>2, <2>3, <2>4 DEF Next
<1> QED BY <1>1, <1>2

-----------------------------------------------------------------------------
(* What the marks are worth when they are taken for the live objects.      *)

\* The objects that can be reached from a set of objects are one of the sets
\* the definition speaks of.
LEMMA ReachFromClosed ==
    ASSUME TypeOK, NEW O \in SUBSET Objects
    PROVE  O \subseteq ReachFrom(O) /\ ReachFrom(O) \subseteq Objects /\ Closed(ReachFrom(O))
<1>1. O \subseteq ReachFrom(O) /\ ReachFrom(O) \subseteq Objects BY DEF ReachFrom
<1>2. ASSUME NEW h \in ReachFrom(O) \X Fields, ptr[h] # Null PROVE ptr[h] \in ReachFrom(O)
  <2>1. PICK o \in ReachFrom(O), f \in Fields : h = <<o, f>> BY <1>2
  <2>2. h \in Handles BY <1>1, <2>1 DEF Handles
  <2>3. ptr[h] \in Objects BY <1>2, <2>2 DEF TypeOK
  <2>4. ASSUME NEW C \in SUBSET Objects, O \subseteq C, Closed(C) PROVE ptr[h] \in C
    <3>1. o \in C BY <2>4 DEF ReachFrom
    <3>2. h \in C \X Fields BY <3>1, <2>1
    <3> QED BY <3>2, <2>4, <1>2 DEF Closed
  <2> QED BY <2>3, <2>4 DEF ReachFrom
<1> QED BY <1>1, <1>2 DEF Closed

\* At that moment no edge leads from a marked object to an unmarked one.
LEMMA MarkedAtCollect ==
    ASSUME IInv, ~undefined, Tricolour, cpc = "collect"
    PROVE  /\ \A h \in mark \X Fields : ptr[h] \in mark \cup {Null}
           /\ \A r \in Roots : ptr[r] \in mark \cup casts \cup {Null}
           /\ AllPinned \subseteq mark
           /\ \A t \in Mutators : shading[t] = Null
<1>1. /\ TypeOK /\ m_phase = "COLLECT" /\ m_hashtable = {} /\ IsNoInput(pool)
      /\ \A t \in Mutators : ssb[t] = <<>> /\ shading[t] = Null
      /\ \A w \in Marking : wpc[w] = "off"
    BY CollectorStarts DEF Shades, Remembered, Finished
<1>2. \A q : Noted(q) => q = Null
  <2>1. \A t \in Mutators : 1..Len(ssb[t]) = {} BY <1>1
  <2> QED BY <1>1, <2>1 DEF Noted
<1>3. \A q : LoadedBy(q) => q = Null BY <1>1 DEF LoadedBy, IInv, Hands, HandOK
<1>4. \A o : ~Waiting(o)
  <2>1. /\ pool.full = <<>> /\ pool.partial = <<>>
        /\ m_roots_packet = NoPacket /\ remset_packet = NoPacket
        /\ \A w \in Marking : input[w] = NoPacket /\ output[w] = NoPacket
      BY <1>1, NothingOut
  <2>2. 1..Len(<<>>) = {} OBVIOUS
  <2>3. \A o : ~InPool(pool, o) BY <2>1, <2>2 DEF InPool, InStack
  <2> QED BY <2>1, <2>3, QueuedNothing DEF Waiting
<1>5. \A o : \A f : ~Traced(o, f) BY <1>1 DEF Traced
<1>6. \A o \in mark, f \in Fields : ptr[<<o, f>>] \in mark \cup {Null}
    BY <1>2, <1>3, <1>4, <1>5 DEF Tricolour, BlackEdges, EdgeOK
<1>7. \A r \in Roots : ptr[r] \in mark \cup casts \cup {Null}
    BY <1>1, <1>2 DEF Tricolour, RootsKnown, RootOK
<1>8. AllPinned \subseteq mark BY DEF Tricolour, PinsKnown
<1> QED BY <1>1, <1>6, <1>7, <1>8

LEMMA MarkedIsEnough ==
    ASSUME IInv, ~undefined => Tricolour
    PROVE  AccessibleIsMarked
<1> SUFFICES ASSUME cpc = "collect" PROVE Accessible \subseteq mark \cup ReachFrom(casts \ mark)
    BY DEF AccessibleIsMarked
<1> DEFINE R == ReachFrom(casts \ mark)
           C == mark \cup R
<1>0. ~undefined /\ TypeOK /\ mark \subseteq Objects /\ casts \subseteq Objects
    BY DEF IInv, Stuck, TypeOK
<1>1. /\ \A h \in mark \X Fields : ptr[h] \in mark \cup {Null}
      /\ \A r \in Roots : ptr[r] \in mark \cup casts \cup {Null}
      /\ AllPinned \subseteq mark
    BY <1>0, MarkedAtCollect
<1>2. casts \ mark \subseteq R /\ R \subseteq Objects /\ Closed(R) BY <1>0, ReachFromClosed
<1> HIDE DEF R
<1>3. Closed(C)
  <2>1. \A h \in R \X Fields : ptr[h] \in R \cup {Null} BY <1>2 DEF Closed
  <2>2. \A h \in C \X Fields : h \in mark \X Fields \/ h \in R \X Fields OBVIOUS
  <2> QED BY <2>1, <2>2, <1>1 DEF Closed
<1>4. ({ptr[r] : r \in Roots} \ {Null}) \cup AllPinned \subseteq C BY <1>1, <1>2
<1>5. C \in SUBSET Objects BY <1>0, <1>2
<1> HIDE DEF C
<1>6. Accessible \subseteq C BY <1>3, <1>4, <1>5 DEF Accessible, ReachFrom
<1> QED BY <1>6 DEF C, R

\* What a member of a lost object holds is lost as well, or marked.
LEMMA LostClosed ==
    ASSUME TypeOK
    PROVE  /\ LostToCasts \subseteq Objects /\ LostToCasts \subseteq ReachFrom(casts)
           /\ \A h \in LostToCasts \X Fields : ptr[h] \in LostToCasts \cup mark \cup {Null}
<1> DEFINE R == ReachFrom(casts \ mark)
           named == ({ptr[r] : r \in Roots} \ {Null}) \cup AllPinned
<1>1. named \subseteq Objects BY DEF TypeOK, Handles, AllPinned
<1>2. Closed(R) /\ R \subseteq Objects BY ReachFromClosed DEF TypeOK
<1>3. R \subseteq ReachFrom(casts) BY DEF ReachFrom
<1> HIDE DEF R
<1>4. Closed(ReachFrom(named)) BY <1>1, ReachFromClosed
<1>5. Accessible = ReachFrom(named) BY DEF Accessible
<1> HIDE DEF named
<1>6. \A h \in R \X Fields : ptr[h] \in R \cup {Null} BY <1>2 DEF Closed
<1>7. \A h \in Accessible \X Fields : ptr[h] \in Accessible \cup {Null}
    BY <1>4, <1>5 DEF Closed
<1>8. LostToCasts = (R \cap Accessible) \ mark BY DEF LostToCasts, R
<1> QED BY <1>2, <1>3, <1>6, <1>7, <1>8

\* The cells that survive a collection do not name one that does not, and the
\* variables do not but for the lost ones.
LEMMA CollectSpares ==
    ASSUME IInv, ~undefined => Tricolour, Collect
    PROVE  /\ \A h \in mark \X Fields : ptr[h] \in mark \cup {Null}
           /\ \A r \in Roots : ptr[r] \in mark \cup {Null} \cup LostToCasts
           /\ AllPinned \subseteq mark
           /\ \A t \in Mutators : shading[t] = Null
<1>0. ~undefined /\ cpc = "collect" BY DEF Collect, At
<1>t. TypeOK /\ casts \subseteq Objects BY DEF IInv, TypeOK
<1>1. /\ \A h \in mark \X Fields : ptr[h] \in mark \cup {Null}
      /\ \A r \in Roots : ptr[r] \in mark \cup casts \cup {Null}
      /\ AllPinned \subseteq mark
      /\ \A t \in Mutators : shading[t] = Null
    BY <1>0, MarkedAtCollect
<1>2. ASSUME NEW r \in Roots, ptr[r] \in casts \ mark, ptr[r] # Null
      PROVE  ptr[r] \in LostToCasts
  <2>1. casts \ mark \subseteq ReachFrom(casts \ mark) BY <1>t, ReachFromClosed
  <2>2. ptr[r] \in Objects BY <1>2, <1>t
  <2>3. ptr[r] \in Accessible BY <1>2, <2>2 DEF Accessible, ReachFrom
  <2> QED BY <1>2, <2>1, <2>3 DEF LostToCasts
<1>3. \A r \in Roots : ptr[r] \in mark \cup {Null} \cup LostToCasts BY <1>1, <1>2
<1> QED BY <1>1, <1>3

-----------------------------------------------------------------------------
(* Pointers to objects that have been destroyed.                           *)

\* What a thread can read holds a live object or nothing.
LEMMA HeldIsLive ==
    ASSUME IInv, NoDanglingPointer, lost = {}, NEW t \in Mutators, NEW h \in Held(t)
    PROVE  h \in Roots \cup (live \X Fields) /\ h \in Handles /\ ptr[h] \in live \cup {Null}
<1>1. pins[t] \subseteq live /\ live \subseteq Objects BY DEF NoDanglingPointer, IInv, TypeOK
<1>2. h \in Roots \cup (live \X Fields) BY <1>1 DEF Held
<1> QED BY <1>1, <1>2 DEF NoDanglingPointer, Handles

\* A handle is given a live object, or Null.
LEMMA AssignSafe ==
    ASSUME IInv, NoDanglingPointer, lost = {}, NEW dst, NEW p \in live \cup {Null},
           ptr' = [ptr EXCEPT ![dst] = p], live' = live,
           \A t \in Mutators : pins'[t] \subseteq live,
           \A t \in Mutators : shading'[t] \in live \cup {Null}
    PROVE  NoDanglingPointer'
<1>1. ptr \in [Handles -> Objects \cup {Null}] /\ live \subseteq Objects BY DEF IInv, TypeOK
<1>2. \A h \in Roots \cup (live \X Fields) : h \in Handles BY <1>1 DEF Handles
<1>3. \A h \in Roots \cup (live \X Fields) : ptr[h] \in live \cup {Null}
    BY DEF NoDanglingPointer
<1>4. \A h \in Handles : ptr'[h] = ptr[h] \/ ptr'[h] = p BY <1>1
<1>5. \A h \in Roots \cup (live \X Fields) : ptr'[h] \in live \cup {Null} BY <1>2, <1>3, <1>4
<1> QED BY <1>5 DEF NoDanglingPointer

LEMMA GcNewSafe ==
    ASSUME IInv, NoDanglingPointer, NEW t \in Mutators, NEW o \in Objects, NEW r \in Roots,
           GcNew(t, o, r)
    PROVE  NoDanglingPointer'
<1>1. /\ live' = live \cup {o} /\ pins' = pins /\ shading' = shading /\ lost = {}
      /\ ptr' = [h \in Handles |->
                    CASE h = r -> o
                      [] h \in {o} \X Fields -> Null
                      [] OTHER -> ptr[h]]
    BY DEF GcNew, Running
<1>2. live \subseteq Objects BY DEF IInv, TypeOK
<1>3. \A h \in Roots \cup (live \X Fields) : ptr[h] \in live \cup {Null}
    BY <1>1 DEF NoDanglingPointer
<1>4. \A h \in Handles : \/ ptr'[h] = o \/ ptr'[h] = Null
                         \/ h \notin {o} \X Fields /\ ptr'[h] = ptr[h]
    BY <1>1
<1>5. \A h \in Roots \cup (live' \X Fields) :
         h \in Handles /\ (h \in Roots \cup (live \X Fields) \/ h \in {o} \X Fields)
    BY <1>1, <1>2 DEF Handles
<1>6. \A h \in Roots \cup (live' \X Fields) : ptr'[h] \in live' \cup {Null}
    BY <1>1, <1>3, <1>4, <1>5
<1>7. \A u \in Mutators : pins'[u] \cup ({shading'[u]} \ {Null}) \subseteq live'
    BY <1>1 DEF NoDanglingPointer
<1> QED BY <1>6, <1>7 DEF NoDanglingPointer

LEMMA MutatorSafe ==
    ASSUME IInv, NoDanglingPointer, NEW t \in Mutators, Mutator(t) PROVE NoDanglingPointer'
<1>t. shading \in [Mutators -> Objects \cup {Null}] /\ pins \in [Mutators -> SUBSET Objects]
    BY DEF IInv, TypeOK
<1>r. lost = {}
    BY DEF Mutator, GcNew, WbarrierStore, WbarrierShade, Cast, Pin, Unpin, Gc, Running
<1>n. \A u \in Mutators : pins[u] \subseteq live /\ shading[u] \in live \cup {Null}
    BY DEF NoDanglingPointer
<1>1. CASE \E o \in Objects, r \in Roots : GcNew(t, o, r) BY <1>1, GcNewSafe
<1>2. ASSUME NEW dst \in Held(t), NEW p \in live \cup {Null}, WbarrierStore(t, dst, p)
      PROVE  NoDanglingPointer'
  <2>1. /\ ptr' = [ptr EXCEPT ![dst] = p] /\ live' = live /\ pins' = pins
        /\ shading' = [shading EXCEPT ![t] = IF m_phase = "MARK" THEN p ELSE Null]
      BY <1>2 DEF WbarrierStore
  <2>2. \A u \in Mutators : shading'[u] \in live \cup {Null} BY <2>1, <1>t, <1>n
  <2> QED BY <2>1, <2>2, <1>n, <1>r, AssignSafe
<1>3. CASE \E dst, src \in Held(t) : WbarrierStore(t, dst, ptr[src])
    BY <1>2, <1>3, <1>r, HeldIsLive
<1>4. CASE \E dst \in Held(t) : WbarrierStore(t, dst, Null) BY <1>2, <1>4
<1>5. CASE WbarrierShade(t)
  <2>1. UNCHANGED <<live, ptr, pins, lost>> /\ shading' = [shading EXCEPT ![t] = Null]
      BY <1>5 DEF WbarrierShade, heapVars
  <2> QED BY <2>1, <1>t DEF NoDanglingPointer
<1>6. CASE \E src \in Held(t), r \in Roots : Cast(t, src, r)
  <2>1. PICK src \in Held(t), r \in Roots : Cast(t, src, r) BY <1>6
  <2>2. /\ ptr' = [ptr EXCEPT ![r] = ptr[src]] /\ live' = live /\ pins' = pins
        /\ shading' = shading
      BY <2>1 DEF Cast
  <2>3. ptr[src] \in live \cup {Null} BY <1>r, HeldIsLive
  <2> QED BY <2>2, <2>3, <1>n, <1>r, AssignSafe
<1>7. CASE \E src \in Held(t) : Pin(t, src)
  <2>1. PICK src \in Held(t) : Pin(t, src) BY <1>7
  <2>2. /\ pins' = [pins EXCEPT ![t] = @ \cup {ptr[src]}] /\ ptr[src] # Null
        /\ UNCHANGED <<live, ptr, shading, lost>>
      BY <2>1 DEF Pin
  <2>3. ptr[src] \in live BY <2>2, <1>r, HeldIsLive
  <2>4. \A u \in Mutators : pins'[u] \subseteq live BY <2>2, <2>3, <1>t, <1>n
  <2> QED BY <2>2, <2>4 DEF NoDanglingPointer
<1>8. CASE \E o \in pins[t] : Unpin(t, o)
  <2>1. PICK o \in pins[t] : Unpin(t, o) BY <1>8
  <2>2. pins' = [pins EXCEPT ![t] = @ \ {o}] /\ UNCHANGED <<live, ptr, shading, lost>>
      BY <2>1 DEF Unpin
  <2>4. \A u \in Mutators : pins'[u] \subseteq live BY <2>2, <1>t, <1>n
  <2> QED BY <2>2, <2>4 DEF NoDanglingPointer
<1>9. CASE \E k \in {"LAUNCH_CONCURRENT_MARK", "COLLECT"} : Gc(t, k)
    BY <1>9 DEF Gc, heapVars, NoDanglingPointer
<1> QED BY <1>1, <1>3, <1>4, <1>5, <1>6, <1>7, <1>8, <1>9 DEF Mutator

LEMMA CollectSafe ==
    ASSUME IInv, ~undefined => Tricolour, NoDanglingPointer, Collect
    PROVE  NoDanglingPointer'
<1>0. /\ live' = live \cap mark /\ ptr' = ptr /\ pins' = pins /\ shading' = shading
      /\ lost = {} /\ lost' = LostToCasts
    BY DEF Collect, At
<1>1. /\ \A h \in mark \X Fields : ptr[h] \in mark \cup {Null}
      /\ \A r \in Roots : ptr[r] \in mark \cup {Null} \cup lost'
      /\ AllPinned \subseteq mark
      /\ \A t \in Mutators : shading[t] = Null
    BY <1>0, CollectSpares
<1>2. \A h \in Roots \cup (live \X Fields) : ptr[h] \in live \cup {Null}
    BY <1>0 DEF NoDanglingPointer
<1>3. \A h \in Roots \cup (live' \X Fields) : ptr[h] \in live' \cup {Null} \cup lost'
    BY <1>0, <1>1, <1>2
<1>4. \A t \in Mutators : pins[t] \subseteq live' BY <1>0, <1>1 DEF NoDanglingPointer, AllPinned
<1> QED BY <1>0, <1>1, <1>3, <1>4 DEF NoDanglingPointer

\* Every other step leaves alone what the program sees.
LEMMA OthersUnseen ==
    /\ \A w \in Marking : Worker(w) => UNCHANGED <<heapVars, shading, lost>>
    /\ Collector /\ ~Collect => UNCHANGED <<heapVars, shading, lost>>
    /\ Undefined \/ UNCHANGED vars => UNCHANGED <<heapVars, shading, lost>>
<1>1. \A w \in Marking : Worker(w) => UNCHANGED <<heapVars, shading, lost>>
    BY DEF Worker, Start, TakeRemset, RemsetTaken, Retry, PushOutput, Check, Again, TakeInput,
           Ready, PopCell, CellTraced, TraceLoad, TraceMark, Swap, WorkerFrame
<1>2. Collector /\ ~Collect => UNCHANGED <<heapVars, shading, lost>>
    BY DEF Collector, Stop, TraceRoot, RootsTraced, TracePin, AddRoot, FlushBuffers, TraceRemset,
           ClearRemset, ConcurrentMark, Mark, Join
<1>3. Undefined \/ UNCHANGED vars => UNCHANGED <<heapVars, shading, lost>>
    BY DEF Undefined, vars
<1> QED BY <1>1, <1>2, <1>3

LEMMA NextSafe ==
    ASSUME IInv, ~undefined => Tricolour, NoDanglingPointer, [Next]_vars
    PROVE  NoDanglingPointer'
<1>1. ASSUME UNCHANGED <<heapVars, shading, lost>> PROVE NoDanglingPointer'
    BY <1>1 DEF heapVars, NoDanglingPointer
<1>2. CASE Undefined \/ UNCHANGED vars BY <1>1, <1>2, OthersUnseen
<1>3. CASE Collector BY <1>1, <1>3, OthersUnseen, CollectSafe
<1>4. CASE \E t \in Mutators : Mutator(t) BY <1>4, MutatorSafe
<1>5. CASE \E w \in Marking : Worker(w) BY <1>1, <1>5, OthersUnseen
<1> QED BY <1>2, <1>3, <1>4, <1>5 DEF Next

LEMMA InitSafe == Init => NoDanglingPointer
<1> SUFFICES ASSUME Init PROVE NoDanglingPointer OBVIOUS
<1>1. /\ live = {} /\ ptr = [h \in Handles |-> Null] /\ pins = [t \in Mutators |-> {}]
      /\ shading = [t \in Mutators |-> Null]
    BY DEF Init
<1>2. \A h \in Roots \cup (live \X Fields) : h \in Handles BY <1>1 DEF Handles
<1> QED BY <1>1, <1>2 DEF NoDanglingPointer

LEMMA TricolourInvariance ==
    Spec /\ [][TakesMarked]_vars => [](IInv /\ (~undefined => Tricolour) /\ NoDanglingPointer)
<1> DEFINE Tri == ~undefined => Tricolour
<1>1. Init => IInv /\ Tri /\ NoDanglingPointer BY InitIInv, InitTri, InitSafe
<1>2. IInv /\ Tri /\ NoDanglingPointer /\ [Next]_vars /\ [TakesMarked]_vars
      => (IInv /\ Tri /\ NoDanglingPointer)'
    BY NextIInv, NextTri, NextSafe
<1> QED BY <1>1, <1>2, PTL DEF Spec

\* Nothing the program can name has been destroyed, whatever the mutators do
\* while the workers mark: the barrier of gc_cms, its remembered set and its
\* marker together lose no pointer, in every execution in which no worker
\* takes an unmarked entry out of the remembered set.
THEOREM NothingDangles == Spec /\ [][TakesMarked]_vars => []NoDanglingPointer
BY TricolourInvariance, PTL

\* "All nodes accessible from roots are marked" when gc_heap::collect starts,
\* in the same executions and but for what a cast leads to.
THEOREM AllAccessibleMarked == Spec /\ [][TakesMarked]_vars => []AccessibleIsMarked
<1>1. IInv /\ (~undefined => Tricolour) => AccessibleIsMarked BY MarkedIsEnough
<1> QED BY <1>1, TricolourInvariance, PTL

-----------------------------------------------------------------------------
(* The refinement of ManagedHeap.                                          *)

LEMMA InitRefines == Init => Heap!Init
BY DEF Init, Heap!Init, Handles, Heap!Handles

\* A store through a handle t holds is an assignment of the abstract heap.
LEMMA StepRefines ==
    ASSUME IInv, ~undefined => Tricolour, NoDanglingPointer, [Next]_vars
    PROVE  [Heap!Next \/ LosesToCasts]_(Heap!vars)
<1>u. ASSUME UNCHANGED <<heapVars, shading, lost>> PROVE UNCHANGED Heap!vars
    BY <1>u DEF heapVars, Heap!vars
<1>h. \A t \in Mutators : \A h \in Held(t) : lost = {} => h \in Heap!HandlesIn(live)
    BY HeldIsLive DEF Heap!HandlesIn
<1>1. CASE Undefined \/ UNCHANGED vars BY <1>1, <1>u, OthersUnseen
<1>2. CASE \E w \in Marking : Worker(w) BY <1>2, <1>u, OthersUnseen
<1>3. CASE Collector /\ ~Collect BY <1>3, <1>u, OthersUnseen
<1>4. CASE Collect
  <2> DEFINE S == (live \ mark) \ LostToCasts
  <2>1. /\ \A h \in mark \X Fields : ptr[h] \in mark \cup {Null}
        /\ \A r \in Roots : ptr[r] \in mark \cup {Null} \cup LostToCasts
        /\ AllPinned \subseteq mark
      BY <1>4, CollectSpares
  <2>2. live' = live \cap mark /\ ptr' = ptr /\ pins' = pins /\ lost' = LostToCasts
      BY <1>4 DEF Collect
  <2>3. Null \notin live /\ TypeOK BY HeapAssumption DEF IInv, TypeOK
  <2>4. S \cap Heap!Designated(live \ S) = {}
    <3>1. \A h \in LostToCasts \X Fields : ptr[h] \in LostToCasts \cup mark \cup {Null}
        BY <2>3, LostClosed
    <3>2. \A h \in Heap!HandlesIn(live \ S) :
             h \in Roots \/ h \in mark \X Fields \/ h \in LostToCasts \X Fields
        BY DEF Heap!HandlesIn
    <3>3. \A h \in Heap!HandlesIn(live \ S) : ptr[h] \notin S BY <2>1, <2>3, <3>1, <3>2
    <3>4. \A t \in Mutators : pins[t] \cap S = {} BY <2>1 DEF AllPinned
    <3> QED BY <3>3, <3>4 DEF Heap!Designated
  <2>5. CASE LostToCasts = {}
    <3>1. live' = live \ S BY <2>2, <2>5
    <3>2. Heap!Free(S) BY <3>1, <2>2, <2>4 DEF Heap!Free
    <3> QED BY <3>2 DEF Heap!Next
  <2>6. CASE LostToCasts # {}
    <3>1. (live \ live') \ lost' = S BY <2>2
    <3>2. lost' \subseteq ReachFrom(casts) BY <2>2, <2>3, LostClosed
    <3>3. LosesToCasts BY <3>1, <3>2, <2>2, <2>4, <2>6 DEF LosesToCasts
    <3> QED BY <3>3
  <2> QED BY <2>5, <2>6
<1>5. ASSUME NEW t \in Mutators, Mutator(t) PROVE [Heap!Next \/ LosesToCasts]_(Heap!vars)
  <2>r. lost = {}
      BY <1>5 DEF Mutator, GcNew, WbarrierStore, WbarrierShade, Cast, Pin, Unpin, Gc, Running
  <2>h. \A h \in Held(t) : h \in Heap!HandlesIn(live) BY <1>h, <2>r
  <2>1. CASE \E o \in Objects, r \in Roots : GcNew(t, o, r)
    <3>1. PICK o \in Objects, r \in Roots : GcNew(t, o, r) BY <2>1
    <3>2. Heap!New(o, r) BY <3>1 DEF GcNew, Heap!New, Handles, Heap!Handles
    <3> QED BY <3>2 DEF Heap!Next
  <2>2. CASE \E dst, src \in Held(t) : WbarrierStore(t, dst, ptr[src])
    <3>1. PICK dst \in Held(t), src \in Held(t) : WbarrierStore(t, dst, ptr[src]) BY <2>2
    <3>2. Heap!Assign(dst, ptr[src]) BY <3>1 DEF WbarrierStore, Heap!Assign
    <3> QED BY <3>2, <2>h DEF Heap!Next
  <2>3. CASE \E dst \in Held(t) : WbarrierStore(t, dst, Null)
    <3>1. PICK dst \in Held(t) : WbarrierStore(t, dst, Null) BY <2>3
    <3>2. Heap!Assign(dst, Null) BY <3>1 DEF WbarrierStore, Heap!Assign
    <3> QED BY <3>2, <2>h DEF Heap!Next
  <2>4. CASE WbarrierShade(t)
    <3>1. UNCHANGED Heap!vars BY <2>4 DEF WbarrierShade, heapVars, Heap!vars
    <3> QED BY <3>1
  <2>5. CASE \E src \in Held(t), r \in Roots : Cast(t, src, r)
    <3>1. PICK src \in Held(t), r \in Roots : Cast(t, src, r) BY <2>5
    <3>2. Heap!Assign(r, ptr[src]) BY <3>1 DEF Cast, Heap!Assign
    <3>3. r \in Heap!HandlesIn(live) BY DEF Heap!HandlesIn
    <3> QED BY <3>2, <3>3, <2>h DEF Heap!Next
  <2>6. CASE \E src \in Held(t) : Pin(t, src)
    <3>1. PICK src \in Held(t) : Pin(t, src) BY <2>6
    <3>2. Heap!Pin(t, ptr[src]) BY <3>1 DEF Pin, Heap!Pin
    <3> QED BY <3>2, <2>h DEF Heap!Next
  <2>7. CASE \E o \in pins[t] : Unpin(t, o)
    <3>1. PICK o \in pins[t] : Unpin(t, o) BY <2>7
    <3>2. Heap!Unpin(t, o) BY <3>1 DEF Unpin, Heap!Unpin
    <3> QED BY <3>2 DEF Heap!Next
  <2>8. CASE \E k \in {"LAUNCH_CONCURRENT_MARK", "COLLECT"} : Gc(t, k)
    <3>1. UNCHANGED Heap!vars BY <2>8 DEF Gc, heapVars, Heap!vars
    <3> QED BY <3>1
  <2> QED BY <1>5, <2>1, <2>2, <2>3, <2>4, <2>5, <2>6, <2>7, <2>8 DEF Mutator
<1> QED BY <1>1, <1>2, <1>3, <1>4, <1>5 DEF Next

\* In the same executions gc_cms is a ManagedHeap: a handle holds what the
\* program last put in it, and gc_heap::collect frees nothing that a handle or
\* a pin that survives the collection designates.
THEOREM OnlyGarbageFreed == Spec /\ [][TakesMarked]_vars => FreesOnlyGarbage
<1>1. Init => Heap!Init BY InitRefines
<1>2. IInv /\ (~undefined => Tricolour) /\ NoDanglingPointer /\ [Next]_vars
      => [Heap!Next \/ LosesToCasts]_(Heap!vars)
    BY StepRefines
<1> QED BY <1>1, <1>2, TricolourInvariance, PTL DEF Spec, FreesOnlyGarbage

=============================================================================
