----------------------- MODULE ObjectConstructionProofs -----------------------
(***************************************************************************)
(* Whatever types, kinds and depths of nesting there are: the first        *)
(* construction of a type finds out exactly where its members are, every   *)
(* object is traced with that, and a collection inside a constructor       *)
(* neither reuses a cell under construction nor destroys what can be       *)
(* reached.                                                                *)
(***************************************************************************)
EXTENDS ObjectConstruction, FiniteSetTheorems, SequenceTheorems, TLAPS

-----------------------------------------------------------------------------
(* Words                                                                   *)

LEMMA Multiples ==
    ASSUME NEW b \in Nat \ {0}, NEW x \in Int, NEW y \in Int, x < y
    PROVE  b * x + b <= b * y
<1>1. b * (y - x - 1) >= 0
  OBVIOUS
<1>2. b * (y - x - 1) = b * y - b * x - b
  OBVIOUS
<1> QED BY <1>1, <1>2

LEMMA DivisionTheorem ==
    ASSUME NEW a \in Nat, NEW b \in Nat \ {0}
    PROVE  /\ a \div b \in Nat /\ a % b \in 0..b-1
           /\ a = b * (a \div b) + (a % b)
OBVIOUS

\* The word w of element i, counted from the start of the array.
LEMMA WordOfElement ==
    ASSUME NEW size \in Nat \ {0}, NEW count \in Nat, NEW i \in 0..count-1, NEW w \in 0..size-1
    PROVE  i * size + w \in 0..size * count - 1 /\ (i * size + w) % size = w
<1> DEFINE a == i * size + w
           q == a \div size
           r == a % size
<1>1. a \in Nat /\ a = size * i + w
  OBVIOUS
<1>2. q \in Nat /\ r \in 0..size-1 /\ a = size * q + r
  BY <1>1, DivisionTheorem
<1>3. size * i + size <= size * count
  BY Multiples
<1>4. size * count \in Nat
  OBVIOUS
<1> HIDE DEF a, q, r
<1>5. ~(q < i) /\ ~(i < q)
  BY <1>1, <1>2, Multiples
<1>6. r = w
  BY <1>1, <1>2, <1>5
<1>7. a \in 0..size * count - 1
  BY <1>1, <1>3, <1>4
<1> QED BY <1>6, <1>7 DEF a, r

\* And the element a word is in.
LEMMA ElementOfWord ==
    ASSUME NEW size \in Nat \ {0}, NEW count \in Nat, NEW v \in 0..size * count - 1
    PROVE  /\ v \div size \in 0..count-1 /\ v % size \in 0..size-1
           /\ v = (v \div size) * size + (v % size)
<1> DEFINE q == v \div size
           r == v % size
<1>1. v \in Nat /\ size * count \in Nat /\ v < size * count
  OBVIOUS
<1>2. q \in Nat /\ r \in 0..size-1 /\ v = size * q + r
  BY <1>1, DivisionTheorem
<1>3. size * q = q * size
  BY <1>2
<1> HIDE DEF q, r
<1>4. ~(count < q) /\ count # q
  BY <1>1, <1>2, Multiples
<1> QED BY <1>2, <1>3, <1>4 DEF q, r

LEMMA WordsFinite == IsFiniteSet(Words) /\ Cardinality(Words) \in Nat
<1> DEFINE W == {0..type_size[k[1]] * k[2] - 1 : k \in Kinds}
           f == [k \in Kinds |-> 0..type_size[k[1]] * k[2] - 1]
<1>1. f \in Surjection(Kinds, W)
  BY DEF Surjection
<1>2. ASSUME NEW X \in W PROVE IsFiniteSet(X)
  <2>1. PICK k \in Kinds : X = 0..type_size[k[1]] * k[2] - 1
    OBVIOUS
  <2>2. type_size[k[1]] * k[2] - 1 \in Int
    BY KindsAssumption, TypesAssumption
  <2> QED BY <2>1, <2>2, FS_Interval
<1> HIDE DEF f
<1>3. IsFiniteSet(W)
  BY <1>1, KindsAssumption, FS_Surjection
<1>4. IsFiniteSet(Words)
  BY <1>2, <1>3, FS_UNION DEF Words
<1> QED BY <1>4, FS_CardinalityType

\* The words of an object of a kind are words, and can be counted.
LEMMA KindWords ==
    ASSUME NEW ty, NEW n, <<ty, n>> \in Kinds
    PROVE  /\ ty \in Types /\ n \in Nat \ {0} /\ n \in Counts
           /\ type_size[ty] \in Nat \ {0} /\ members[ty] \subseteq 0..type_size[ty]-1
           /\ type_size[ty] <= type_size[ty] * n
           /\ 0..type_size[ty] * n - 1 \subseteq Words
           /\ type_size[ty] * n \in 0..Cardinality(Words)
<1>1. ty \in Types /\ n \in Nat \ {0}
  BY KindsAssumption
<1>2. n \in Counts
  BY DEF Counts
<1>3. type_size[ty] \in Nat \ {0} /\ members[ty] \subseteq 0..type_size[ty]-1
  BY <1>1, TypesAssumption
<1> DEFINE size == type_size[ty]
<1>4. 0..size * n - 1 \subseteq Words
  BY DEF Words
<1> HIDE DEF size
<1>5. size \in Nat \ {0}
  BY <1>3 DEF size
<1>6. size * n \in Nat /\ size <= size * n
  <2>1. size * 1 + size * (n - 1) = size * n /\ size * (n - 1) >= 0
    BY <1>1, <1>5
  <2> QED BY <1>1, <1>5, <2>1
<1>7. IsFiniteSet(Words) /\ Cardinality(Words) \in Nat
  BY WordsFinite
<1>8. IsFiniteSet(0..size * n - 1) /\ Cardinality(0..size * n - 1) = size * n
  <2> DEFINE b == size * n - 1
  <2>1. b \in Int /\ ~(0 > b) /\ b - 0 + 1 = size * n
    BY <1>1, <1>5, <1>6
  <2> HIDE DEF b
  <2>2. IsFiniteSet(0..b) /\ Cardinality(0..b) = IF 0 > b THEN 0 ELSE b - 0 + 1
    BY ONLY <2>1, 0 \in Int, FS_Interval
  <2> QED BY <2>1, <2>2 DEF b
<1>9. size * n <= Cardinality(Words) /\ Cardinality(Words) \in Nat
  BY <1>4, <1>7, <1>8, FS_Subset DEF size
<1> QED BY <1>1, <1>2, <1>3, <1>4, <1>6, <1>9 DEF size

-----------------------------------------------------------------------------
(* The inductive invariant                                                 *)

Exact(ty) == [size |-> type_size[ty], offsets |-> members[ty]]

MetaInv == \A ty \in Types : type_meta[ty] # None => type_meta[ty] = Exact(ty)

\* What gc_new found when it asked for the type's meta may have been published
\* since, but not changed.
RequestInv ==
    \A t \in Threads : request[t] # None =>
        /\ Len(news[t]) < MaxNest
        /\ <<request[t].type, request[t].count>> \in Kinds
        /\ request[t].type_meta # None => request[t].type_meta = type_meta[request[t].type]

\* Until create the offsets are those of the members of the first element so
\* far.
OffsetsSoFar(e) ==
    /\ e.meta_requested /\ e.done <= Size(e)
    /\ e.offsets = members[e.type] \cap (0..e.done-1)

EntryInv(e) ==
    /\ <<e.type, e.count>> \in Kinds
    /\ e.done <= Size(e) * e.count
    /\ IF BeforeCreate(e) THEN OffsetsSoFar(e) ELSE e.type_meta = type_meta[e.type]
    /\ e.cell \notin free \cup m_init_bits
    /\ object[e.cell] = [type |-> e.type, count |-> e.count]
    /\ box[e.cell].count = e.count

\* One gc_new has a cell.
OwnCells ==
    \A t, u \in Threads : \A i \in 1..Len(news[t]), j \in 1..Len(news[u]) :
        news[t][i].cell = news[u][j].cell => t = u /\ i = j

StackInv == (\A e \in Entered : EntryInv(e)) /\ OwnCells

ObjectSound(c) ==
    /\ object[c] # None
    /\ <<object[c].type, object[c].count>> \in Kinds
    /\ type_meta[object[c].type] # None
    /\ box[c] = [count |-> object[c].count, type_meta |-> type_meta[object[c].type]]

ObjectInv == m_init_bits \cap free = {} /\ \A c \in m_init_bits : ObjectSound(c)

\* The gc_ptrs that the program can use; those of objects it lost as well.
GcPtrs == handles \cup UNION {MembersSoFar(e) : e \in Entered}
Held == GcPtrs \cup UNION {Members(c) : c \in m_init_bits}

\* Every gc_ptr is null or points to an object that was constructed.
PointerInv ==
    /\ handles = m_stack_roots \cup m_static_roots
    /\ \A h \in Held : ptr[h] \in m_init_bits \cup {Null}

IInv == TypeOK /\ MetaInv /\ RequestInv /\ StackInv /\ ObjectInv /\ PointerInv

-----------------------------------------------------------------------------
(* What can be reached                                                     *)

Targets(c) == {ptr[h] : h \in Members(c)}
Start == {ptr[h] : h \in GcPtrs}

\* The reachable cells are the least set with the targets of the program's
\* gc_ptrs and of its own cells, before a step and after it.
LEMMA ReachLeast ==
    ASSUME NEW C \in SUBSET Cells, Start \cap Cells \subseteq C,
           \A c \in C : Targets(c) \cap Cells \subseteq C
    PROVE  Reachable \subseteq C
BY DEF Reachable, Closure, Start, GcPtrs, Targets

LEMMA ReachLeastNext ==
    ASSUME NEW C \in SUBSET Cells, Start' \cap Cells \subseteq C,
           \A c \in C : Targets(c)' \cap Cells \subseteq C
    PROVE  Reachable' \subseteq C
BY DEF Reachable, Closure, Start, GcPtrs, Targets

LEMMA ReachClosed ==
    /\ Reachable \subseteq Cells /\ Start \cap Cells \subseteq Reachable
    /\ \A c \in Reachable : Targets(c) \cap Cells \subseteq Reachable
<1>1. Reachable \subseteq Cells
  BY DEF Reachable, Closure
<1>2. ASSUME NEW o \in Start \cap Cells PROVE o \in Reachable
  BY DEF Reachable, Closure, Start, GcPtrs
<1>3. ASSUME NEW c \in Reachable, NEW o \in Targets(c) \cap Cells PROVE o \in Reachable
  <2>1. ASSUME NEW C \in SUBSET Cells, Start \cap Cells \subseteq C,
               \A d \in C : Targets(d) \cap Cells \subseteq C
        PROVE  o \in C
    BY <2>1, ReachLeast
  <2> QED BY <2>1 DEF Reachable, Closure, Start, GcPtrs, Targets
<1> QED BY <1>1, <1>2, <1>3

LEMMA ReachClosedNext ==
    /\ Reachable' \subseteq Cells /\ Start' \cap Cells \subseteq Reachable'
    /\ \A c \in Reachable' : Targets(c)' \cap Cells \subseteq Reachable'
<1>1. Reachable' \subseteq Cells
  BY DEF Reachable, Closure
<1>2. ASSUME NEW o \in Start' \cap Cells PROVE o \in Reachable'
  BY DEF Reachable, Closure, Start, GcPtrs
<1>3. ASSUME NEW c \in Reachable', NEW o \in Targets(c)' \cap Cells PROVE o \in Reachable'
  <2>1. ASSUME NEW C \in SUBSET Cells, Start' \cap Cells \subseteq C,
               \A d \in C : Targets(d)' \cap Cells \subseteq C
        PROVE  o \in C
    BY <2>1, ReachLeastNext
  <2> QED BY <2>1 DEF Reachable, Closure, Start, GcPtrs, Targets
<1> QED BY <1>1, <1>2, <1>3

\* Only objects that were constructed can be reached.
LEMMA ReachObjects == ASSUME IInv PROVE Reachable \subseteq m_init_bits
<1>1. m_init_bits \in SUBSET Cells /\ Null \notin Cells
  BY CellsAssumption DEF IInv, TypeOK
<1>2. Start \cap Cells \subseteq m_init_bits
  BY <1>1 DEF Start, IInv, PointerInv, Held
<1>3. ASSUME NEW c \in m_init_bits PROVE Targets(c) \cap Cells \subseteq m_init_bits
  BY <1>1 DEF Targets, IInv, PointerInv, Held
<1> QED BY <1>1, <1>2, <1>3, ReachLeast

-----------------------------------------------------------------------------
(* The stacks of entries                                                   *)

Stacks == [Threads -> Seq(Entries)]
AllOf(ns) == UNION {ToSet(ns[t]) : t \in Threads}
Own(ns) ==
    \A t, u \in Threads : \A i \in 1..Len(ns[t]), j \in 1..Len(ns[u]) :
        ns[t][i].cell = ns[u][j].cell => t = u /\ i = j

\* A step of thread t on its stack.
WithPushed(ns, t, e) == [ns EXCEPT ![t] = Pushed(@, e)]
WithPopped(ns, t) == [ns EXCEPT ![t] = Popped(@)]
WithHead(ns, t, e) == [ns EXCEPT ![t] = [@ EXCEPT ![1] = e]]

LEMMA AllOfStacks ==
    ASSUME NEW ns \in Stacks, NEW e
    PROVE  e \in AllOf(ns) <=> \E t \in Threads : \E i \in 1..Len(ns[t]) : e = ns[t][i]
<1>1. \A t \in Threads : DOMAIN ns[t] = 1..Len(ns[t])
  BY DEF Stacks
<1>2. e \in AllOf(ns) <=> \E t \in Threads : \E i \in DOMAIN ns[t] : e = ns[t][i]
  BY DEF AllOf, ToSet
<1> QED BY <1>1, <1>2

\* Entries are told apart by their cells.
LEMMA DistinctEntries ==
    ASSUME NEW ns \in Stacks, Own(ns), NEW d \in AllOf(ns), NEW e \in AllOf(ns), d.cell = e.cell
    PROVE  d = e
<1>1. PICK t \in Threads : \E i \in 1..Len(ns[t]) : d = ns[t][i]
  BY AllOfStacks
<1>2. PICK u \in Threads : \E j \in 1..Len(ns[u]) : e = ns[u][j]
  BY AllOfStacks
<1> QED BY <1>1, <1>2 DEF Own

LEMMA Push ==
    ASSUME NEW ns \in Stacks, Own(ns), NEW t \in Threads, NEW e \in Entries,
           \A d \in AllOf(ns) : d.cell # e.cell
    PROVE  /\ WithPushed(ns, t, e) \in Stacks /\ Own(WithPushed(ns, t, e))
           /\ AllOf(WithPushed(ns, t, e)) = AllOf(ns) \cup {e}
           /\ Len(WithPushed(ns, t, e)[t]) = Len(ns[t]) + 1
           /\ \A u \in Threads \ {t} : WithPushed(ns, t, e)[u] = ns[u]
<1> DEFINE ns1 == WithPushed(ns, t, e)
           g == Pushed(ns[t], e)
<1>0. ns1 = [ns EXCEPT ![t] = Pushed(@, e)]
  BY DEF WithPushed
<1> HIDE DEF ns1
<1>1. ns[t] \in Seq(Entries)
  BY DEF Stacks
<1>2. /\ g \in Seq(Entries) /\ Len(g) = Len(ns[t]) + 1 /\ g[1] = e
      /\ \A i \in 1..Len(ns[t]) : g[i+1] = ns[t][i]
      /\ \A i \in 2..Len(g) : i - 1 \in 1..Len(ns[t]) /\ g[i] = ns[t][i-1]
  BY <1>1 DEF Pushed
<1>3. ns1[t] = g /\ ns1 \in Stacks /\ \A u \in Threads \ {t} : ns1[u] = ns[u]
  BY <1>0, <1>2 DEF Stacks
<1> HIDE DEF g
<1>4. Len(ns[t]) \in Nat /\ Len(g) \in Nat
  BY <1>1, <1>2
<1>5. ASSUME NEW d PROVE d \in AllOf(ns1) <=> d \in AllOf(ns) \cup {e}
  <2>1. ASSUME NEW u \in Threads, NEW i \in 1..Len(ns1[u]), d = ns1[u][i]
        PROVE  d \in AllOf(ns) \cup {e}
    <3>1. CASE u = t /\ i = 1
      BY <1>2, <1>3, <2>1, <3>1
    <3>2. CASE u = t /\ i # 1
      <4>1. i \in 2..Len(g)
        BY <1>3, <1>4, <3>2
      <4>2. i - 1 \in 1..Len(ns[t]) /\ d = ns[t][i-1]
        BY <1>2, <1>3, <2>1, <3>2, <4>1
      <4> QED BY <4>2, AllOfStacks
    <3>3. CASE u # t
      BY <1>3, <2>1, <3>3, AllOfStacks
    <3> QED BY <3>1, <3>2, <3>3
  <2>2. ASSUME NEW u \in Threads, NEW i \in 1..Len(ns[u]), d = ns[u][i]
        PROVE  d \in AllOf(ns1)
    <3>1. CASE u = t
      <4>1. i + 1 \in 1..Len(g) /\ d = g[i+1]
        BY <1>2, <1>4, <2>2, <3>1
      <4> QED BY <1>3, <3>1, <4>1, AllOfStacks
    <3>2. CASE u # t
      BY <1>3, <2>2, <3>2, AllOfStacks
    <3> QED BY <3>1, <3>2
  <2>3. e \in AllOf(ns1)
    <3>1. 1 \in 1..Len(ns1[t]) /\ e = ns1[t][1]
      BY <1>2, <1>3, <1>4
    <3> QED BY <1>3, <3>1, AllOfStacks
  <2>4. d \in AllOf(ns1) <=> \E u \in Threads : \E i \in 1..Len(ns1[u]) : d = ns1[u][i]
    BY ONLY <1>3, AllOfStacks
  <2>5. d \in AllOf(ns) <=> \E u \in Threads : \E i \in 1..Len(ns[u]) : d = ns[u][i]
    BY ONLY ns \in Stacks, AllOfStacks
  <2> QED BY ONLY <2>1, <2>2, <2>3, <2>4, <2>5
<1>6. Own(ns1)
  <2> SUFFICES ASSUME NEW u \in Threads, NEW v \in Threads,
                      NEW i \in 1..Len(ns1[u]), NEW j \in 1..Len(ns1[v]),
                      ns1[u][i].cell = ns1[v][j].cell
               PROVE  u = v /\ i = j
    BY DEF Own
  <2>1. ASSUME NEW w \in Threads, NEW k \in 1..Len(ns1[w]), ~(w = t /\ k = 1)
        PROVE  /\ ns1[w][k] \in AllOf(ns)
               /\ IF w = t THEN k - 1 \in 1..Len(ns[w]) /\ ns1[w][k] = ns[w][k-1]
                  ELSE k \in 1..Len(ns[w]) /\ ns1[w][k] = ns[w][k]
    <3>1. CASE w = t
      <4>1. k \in 2..Len(g)
        BY <1>3, <1>4, <2>1, <3>1
      <4>2. k - 1 \in 1..Len(ns[w]) /\ ns1[w][k] = ns[w][k-1]
        BY <1>2, <1>3, <3>1, <4>1
      <4> QED BY <3>1, <4>2, AllOfStacks
    <3>2. CASE w # t
      BY <1>3, <3>2, AllOfStacks
    <3> QED BY <3>1, <3>2
  <2>2. CASE ~(u = t /\ i = 1) /\ ~(v = t /\ j = 1)
    <3>1. PICK k \in 1..Len(ns[u]) : ns1[u][i] = ns[u][k] /\ k = IF u = t THEN i - 1 ELSE i
      BY <2>1, <2>2
    <3>2. PICK l \in 1..Len(ns[v]) : ns1[v][j] = ns[v][l] /\ l = IF v = t THEN j - 1 ELSE j
      BY <2>1, <2>2
    <3>3. u = v /\ k = l
      BY <3>1, <3>2 DEF Own
    <3>4. i \in Int /\ j \in Int
      OBVIOUS
    <3> QED BY ONLY <3>1, <3>2, <3>3, <3>4
  <2>3. CASE u = t /\ i = 1
    <3>1. ns1[u][i] = e
      BY <1>2, <1>3, <2>3
    <3> QED BY <2>1, <2>3, <3>1
  <2>4. CASE v = t /\ j = 1
    <3>1. ns1[v][j] = e
      BY <1>2, <1>3, <2>4
    <3> QED BY <2>1, <2>4, <3>1
  <2> QED BY <2>2, <2>3, <2>4
<1> QED BY <1>2, <1>3, <1>5, <1>6 DEF ns1

LEMMA Pop ==
    ASSUME NEW ns \in Stacks, Own(ns), NEW t \in Threads, ns[t] # <<>>
    PROVE  /\ WithPopped(ns, t) \in Stacks /\ Own(WithPopped(ns, t))
           /\ ns[t][1] \in AllOf(ns) /\ AllOf(WithPopped(ns, t)) = AllOf(ns) \ {ns[t][1]}
           /\ Len(WithPopped(ns, t)[t]) <= Len(ns[t])
           /\ \A u \in Threads \ {t} : WithPopped(ns, t)[u] = ns[u]
<1> DEFINE ns1 == WithPopped(ns, t)
           g == Popped(ns[t])
<1>0. ns1 = [ns EXCEPT ![t] = Popped(@)]
  BY DEF WithPopped
<1> HIDE DEF ns1
<1>1. ns[t] \in Seq(Entries) /\ Len(ns[t]) \in Nat \ {0}
  BY EmptySeq DEF Stacks
<1>2. /\ g \in Seq(Entries) /\ Len(g) = Len(ns[t]) - 1
      /\ \A i \in 1..Len(g) : i + 1 \in 1..Len(ns[t]) /\ g[i] = ns[t][i+1]
  BY <1>1 DEF Popped
<1>3. ns1[t] = g /\ ns1 \in Stacks /\ \A u \in Threads \ {t} : ns1[u] = ns[u]
  BY <1>0, <1>2 DEF Stacks
<1> HIDE DEF g
<1>4. ns[t][1] \in AllOf(ns)
  BY <1>1, AllOfStacks
<1>5. ASSUME NEW u \in Threads, NEW i \in 1..Len(ns1[u])
      PROVE  IF u = t THEN i + 1 \in 1..Len(ns[u]) /\ ns1[u][i] = ns[u][i+1]
             ELSE i \in 1..Len(ns[u]) /\ ns1[u][i] = ns[u][i]
  BY <1>2, <1>3
<1>6. Own(ns1)
  <2> SUFFICES ASSUME NEW u \in Threads, NEW v \in Threads,
                      NEW i \in 1..Len(ns1[u]), NEW j \in 1..Len(ns1[v]),
                      ns1[u][i].cell = ns1[v][j].cell
               PROVE  u = v /\ i = j
    BY DEF Own
  <2>1. PICK k \in 1..Len(ns[u]) : ns1[u][i] = ns[u][k] /\ k = IF u = t THEN i + 1 ELSE i
    BY <1>5
  <2>2. PICK l \in 1..Len(ns[v]) : ns1[v][j] = ns[v][l] /\ l = IF v = t THEN j + 1 ELSE j
    BY <1>5
  <2>3. u = v /\ k = l
    BY <2>1, <2>2 DEF Own
  <2>4. i \in Int /\ j \in Int
    OBVIOUS
  <2> QED BY ONLY <2>1, <2>2, <2>3, <2>4
<1>7. ASSUME NEW d PROVE d \in AllOf(ns1) <=> d \in AllOf(ns) \ {ns[t][1]}
  <2>1. ASSUME NEW u \in Threads, NEW i \in 1..Len(ns1[u]), d = ns1[u][i]
        PROVE  d \in AllOf(ns) \ {ns[t][1]}
    <3>1. IF u = t THEN i + 1 \in 1..Len(ns[u]) /\ d = ns[u][i+1]
          ELSE i \in 1..Len(ns[u]) /\ d = ns[u][i]
      BY <1>5, <2>1
    <3>2. d \in AllOf(ns)
      BY <3>1, AllOfStacks
    <3>3. 1 \in 1..Len(ns[t])
      BY <1>1
    <3>4. d # ns[t][1]
      <4>1. CASE u = t
        <5>1. i + 1 # 1
          OBVIOUS
        <5> QED BY <3>1, <3>3, <4>1, <5>1 DEF Own
      <4>2. CASE u # t
        BY <3>1, <3>3, <4>2 DEF Own
      <4> QED BY <4>1, <4>2
    <3> QED BY <3>2, <3>4
  <2>2. ASSUME NEW u \in Threads, NEW i \in 1..Len(ns[u]), d = ns[u][i], d # ns[t][1]
        PROVE  d \in AllOf(ns1)
    <3>1. CASE u = t
      <4>1. i # 1
        BY <2>2, <3>1
      <4>2. i - 1 \in 1..Len(g) /\ i - 1 + 1 = i
        BY <1>1, <1>2, <3>1, <4>1
      <4>3. d = g[i-1]
        BY <1>2, <2>2, <3>1, <4>2
      <4> QED BY <1>3, <3>1, <4>2, <4>3, AllOfStacks
    <3>2. CASE u # t
      BY <1>3, <2>2, <3>2, AllOfStacks
    <3> QED BY <3>1, <3>2
  <2>3. d \in AllOf(ns1) <=> \E u \in Threads : \E i \in 1..Len(ns1[u]) : d = ns1[u][i]
    BY ONLY <1>3, AllOfStacks
  <2>4. d \in AllOf(ns) <=> \E u \in Threads : \E i \in 1..Len(ns[u]) : d = ns[u][i]
    BY ONLY ns \in Stacks, AllOfStacks
  <2> QED BY ONLY <2>1, <2>2, <2>3, <2>4
<1>8. Len(ns1[t]) <= Len(ns[t])
  BY <1>1, <1>2, <1>3
<1> QED BY <1>3, <1>4, <1>6, <1>7, <1>8 DEF ns1

LEMMA ChangeHead ==
    ASSUME NEW ns \in Stacks, Own(ns), NEW t \in Threads, ns[t] # <<>>,
           NEW e \in Entries, e.cell = ns[t][1].cell
    PROVE  /\ WithHead(ns, t, e) \in Stacks /\ Own(WithHead(ns, t, e))
           /\ ns[t][1] \in AllOf(ns) /\ AllOf(WithHead(ns, t, e)) = (AllOf(ns) \ {ns[t][1]}) \cup {e}
           /\ Len(WithHead(ns, t, e)[t]) = Len(ns[t])
           /\ \A u \in Threads \ {t} : WithHead(ns, t, e)[u] = ns[u]
<1> DEFINE ns1 == WithHead(ns, t, e)
           g == [ns[t] EXCEPT ![1] = e]
<1>0. ns1 = [ns EXCEPT ![t] = [@ EXCEPT ![1] = e]]
  BY DEF WithHead
<1> HIDE DEF ns1
<1>1. ns[t] \in Seq(Entries) /\ Len(ns[t]) \in Nat \ {0} /\ 1 \in 1..Len(ns[t])
  BY EmptySeq DEF Stacks
<1>2. /\ g \in Seq(Entries) /\ Len(g) = Len(ns[t]) /\ g[1] = e
      /\ \A i \in 1..Len(ns[t]) : i # 1 => g[i] = ns[t][i]
  BY <1>1
<1>3. ns1[t] = g /\ ns1 \in Stacks /\ \A u \in Threads \ {t} : ns1[u] = ns[u]
  BY <1>0, <1>2 DEF Stacks
<1> HIDE DEF g
<1>4. ns[t][1] \in AllOf(ns)
  BY <1>1, AllOfStacks
<1>5. ASSUME NEW u \in Threads, NEW i \in 1..Len(ns1[u])
      PROVE  /\ i \in 1..Len(ns[u])
             /\ IF u = t /\ i = 1 THEN ns1[u][i] = e ELSE ns1[u][i] = ns[u][i]
             /\ ns1[u][i].cell = ns[u][i].cell
  BY <1>2, <1>3
<1>6. Own(ns1)
  <2> SUFFICES ASSUME NEW u \in Threads, NEW v \in Threads,
                      NEW i \in 1..Len(ns1[u]), NEW j \in 1..Len(ns1[v]),
                      ns1[u][i].cell = ns1[v][j].cell
               PROVE  u = v /\ i = j
    BY DEF Own
  <2>1. i \in 1..Len(ns[u]) /\ j \in 1..Len(ns[v]) /\ ns[u][i].cell = ns[v][j].cell
    BY <1>5
  <2> QED BY <2>1 DEF Own
<1>7. ASSUME NEW d PROVE d \in AllOf(ns1) <=> d \in (AllOf(ns) \ {ns[t][1]}) \cup {e}
  <2>1. ASSUME NEW u \in Threads, NEW i \in 1..Len(ns1[u]), d = ns1[u][i]
        PROVE  d \in (AllOf(ns) \ {ns[t][1]}) \cup {e}
    <3>1. CASE u = t /\ i = 1
      BY <1>5, <2>1, <3>1
    <3>2. CASE ~(u = t /\ i = 1)
      <4>1. i \in 1..Len(ns[u]) /\ d = ns[u][i]
        BY <1>5, <2>1, <3>2
      <4>2. d # ns[t][1]
        BY <1>1, <3>2, <4>1 DEF Own
      <4> QED BY <4>1, <4>2, AllOfStacks
    <3> QED BY <3>1, <3>2
  <2>2. ASSUME NEW u \in Threads, NEW i \in 1..Len(ns[u]), d = ns[u][i], d # ns[t][1]
        PROVE  d \in AllOf(ns1)
    <3>1. ~(u = t /\ i = 1)
      BY <2>2
    <3>2. i \in 1..Len(ns1[u]) /\ d = ns1[u][i]
      BY <1>2, <1>3, <2>2, <3>1
    <3> QED BY <1>3, <3>2, AllOfStacks
  <2>3. e \in AllOf(ns1)
    <3>1. 1 \in 1..Len(ns1[t]) /\ e = ns1[t][1]
      BY <1>1, <1>2, <1>3
    <3> QED BY <1>3, <3>1, AllOfStacks
  <2>4. d \in AllOf(ns1) <=> \E u \in Threads : \E i \in 1..Len(ns1[u]) : d = ns1[u][i]
    BY ONLY <1>3, AllOfStacks
  <2>5. d \in AllOf(ns) <=> \E u \in Threads : \E i \in 1..Len(ns[u]) : d = ns[u][i]
    BY ONLY ns \in Stacks, AllOfStacks
  <2> QED BY ONLY <2>1, <2>2, <2>3, <2>4, <2>5
<1> QED BY <1>2, <1>3, <1>4, <1>6, <1>7 DEF ns1

-----------------------------------------------------------------------------
(* What steps have in common                                               *)

StoreStep == [Store!Next]_(Store!vars)

LEMMA EnteredStacks ==
    ASSUME IInv
    PROVE  /\ news \in Stacks /\ Own(news) /\ AllOf(news) = Entered
           /\ \A t \in Threads : news[t] \in Seq(Entries) /\ Len(news[t]) \in 0..MaxNest
           /\ \A e \in Entered : e \in Entries /\ EntryInv(e)
<1>1. news \in Stacks
  BY DEF IInv, TypeOK, Stacks
<1>2. Own(news) /\ AllOf(news) = Entered
  BY DEF IInv, StackInv, OwnCells, Own, AllOf, Entered
<1>3. ASSUME NEW t \in Threads PROVE news[t] \in Seq(Entries) /\ Len(news[t]) \in 0..MaxNest
  <2>1. news[t] \in Seq(Entries) /\ Len(news[t]) <= MaxNest
    BY DEF IInv, TypeOK
  <2>2. Len(news[t]) \in Nat
    BY <2>1
  <2> QED BY <2>1, <2>2, MaxNestAssumption
<1>4. ASSUME NEW e \in Entered PROVE e \in Entries /\ EntryInv(e)
  <2>1. PICK t \in Threads : \E i \in 1..Len(news[t]) : e = news[t][i]
    BY <1>1, <1>2, AllOfStacks
  <2>2. e \in Entries
    BY <1>3, <2>1
  <2> QED BY <2>2 DEF IInv, StackInv
<1> QED BY <1>1, <1>2, <1>3, <1>4

LEMMA EntryFields ==
    ASSUME NEW e \in Entries
    PROVE  /\ e.cell \in Cells /\ e.type \in Types /\ e.count \in Counts
           /\ e.meta_requested \in BOOLEAN /\ e.type_meta \in Metas \cup {None}
           /\ e.offsets \in SUBSET Words /\ e.done \in Nat /\ e.done <= Cardinality(Words)
<1>2. Cardinality(Words) \in Nat
  BY WordsFinite
<1>3. e.meta_requested \in BOOLEAN
  BY Zenon DEF Entries
<1> QED BY <1>2, <1>3 DEF Entries

\* Every gc_ptr is in one of the places a handle can be at.
LEMMA SoFarPlaces ==
    ASSUME NEW e, EntryInv(e), e \in Entries
    PROVE  MembersSoFar(e) \subseteq Cells \X Words
<1>1. 0..Size(e) * e.count - 1 \subseteq Words /\ Size(e) * e.count \in Nat
  BY KindWords DEF EntryInv, Size
<1>2. e.cell \in Cells /\ e.done \in Nat
  BY EntryFields
<1>3. 0..e.done-1 \subseteq Words
  BY <1>1, <1>2 DEF EntryInv
<1> QED BY <1>2, <1>3 DEF MembersSoFar

LEMMA MemberPlaces ==
    ASSUME NEW c \in Cells, object[c] # None, <<object[c].type, object[c].count>> \in Kinds
    PROVE  Members(c) \subseteq {c} \X Words
<1> DEFINE size == type_size[object[c].type]
           n == object[c].count
<1>1. /\ size \in Nat \ {0} /\ n \in Nat \ {0} /\ 0..size * n - 1 \subseteq Words
      /\ members[object[c].type] \subseteq 0..size-1
  BY KindWords
<1>2. Members(c) = {<<c, i * size + w>> : i \in 0..n-1, w \in members[object[c].type]}
  BY DEF Members
<1> HIDE DEF size, n
<1>3. ASSUME NEW i \in 0..n-1, NEW w \in members[object[c].type] PROVE i * size + w \in Words
  BY <1>1, WordOfElement
<1> QED BY <1>2, <1>3

LEMMA HeldPlaces == ASSUME IInv PROVE Held \subseteq Handles
<1>1. handles \subseteq Handles
  BY DEF IInv, TypeOK, Handles
<1>2. ASSUME NEW e \in Entered PROVE MembersSoFar(e) \subseteq Handles
  BY EnteredStacks, SoFarPlaces DEF Handles
<1>3. ASSUME NEW c \in m_init_bits PROVE Members(c) \subseteq Handles
  <2>1. c \in Cells
    BY DEF IInv, TypeOK
  <2>2. object[c] # None /\ <<object[c].type, object[c].count>> \in Kinds
    BY DEF IInv, ObjectInv, ObjectSound
  <2> QED BY <2>1, <2>2, MemberPlaces DEF Handles
<1> QED BY <1>1, <1>2, <1>3 DEF Held, GcPtrs

\* What a step must leave of an entry's surroundings.
LEMMA EntryKept ==
    ASSUME NEW e, EntryInv(e), e.cell \notin free' \cup m_init_bits',
           object'[e.cell] = object[e.cell], box'[e.cell].count = box[e.cell].count,
           type_meta[e.type] # None => type_meta'[e.type] = type_meta[e.type]
    PROVE  EntryInv(e)'
BY DEF EntryInv, BeforeCreate, OffsetsSoFar, Size

LEMMA ObjectKept ==
    ASSUME NEW c, ObjectSound(c), object'[c] = object[c], box'[c] = box[c],
           type_meta[object[c].type] # None => type_meta'[object[c].type] = type_meta[object[c].type]
    PROVE  ObjectSound(c)'
BY DEF ObjectSound

LEMMA MembersKept ==
    ASSUME NEW c, object'[c] = object[c] PROVE Members(c)' = Members(c)
BY DEF Members

\* A value that a statement can use, and what it points to can be reached.
LEMMA ValuesReach ==
    ASSUME IInv, NEW t, NEW p \in Values(t)
    PROVE  p \in Reachable \cup {Null} /\ p \in m_init_bits \cup {Null}
<1>1. CASE p = Null
  BY <1>1
<1>2. CASE p # Null
  <2>1. PICK h \in handles : p = ptr[h]
    BY <1>2 DEF Values, Named
  <2>2. p \in m_init_bits /\ p \in Start
    BY <1>2, <2>1 DEF IInv, PointerInv, Held, Start, GcPtrs
  <2> QED BY <2>2, ReachClosed DEF IInv, TypeOK
<1> QED BY <1>1, <1>2

\* If the gc_ptrs that are new, and those that are changed, are given nothing
\* but what could be reached, no more can be reached than before.
LEMMA ReachShrinks ==
    ASSUME IInv, \A c \in Reachable : object'[c] = object[c],
           \A h \in GcPtrs' \ GcPtrs : ptr'[h] \in Reachable \cup {Null},
           \A h \in Held : ptr'[h] = ptr[h] \/ ptr'[h] \in Reachable \cup {Null}
    PROVE  Reachable' \subseteq Reachable
<1>1. Reachable \in SUBSET Cells /\ Null \notin Cells /\ Reachable \subseteq m_init_bits
  BY ReachClosed, ReachObjects, CellsAssumption
<1>2. ASSUME NEW h \in GcPtrs', ptr'[h] \in Cells PROVE ptr'[h] \in Reachable
  <2>1. CASE h \in GcPtrs /\ ptr'[h] = ptr[h]
    BY <1>2, <2>1, ReachClosed DEF Start
  <2>2. CASE ptr'[h] \in Reachable \cup {Null}
    BY <1>1, <1>2, <2>2
  <2> QED BY <1>2, <2>1, <2>2 DEF Held
<1>3. ASSUME NEW c \in Reachable, NEW h \in Members(c)', ptr'[h] \in Cells
      PROVE  ptr'[h] \in Reachable
  <2>1. h \in Members(c) /\ h \in Held
    BY <1>1, <1>3, MembersKept DEF Held
  <2>2. CASE ptr'[h] = ptr[h]
    BY <1>3, <2>1, <2>2, ReachClosed DEF Targets
  <2>3. CASE ptr'[h] \in Reachable \cup {Null}
    BY <1>1, <1>3, <2>3
  <2> QED BY <2>1, <2>2, <2>3
<1>4. Start' \cap Cells \subseteq Reachable
  BY <1>2 DEF Start
<1>5. \A c \in Reachable : Targets(c)' \cap Cells \subseteq Reachable
  BY <1>3 DEF Targets
<1> QED BY <1>1, <1>4, <1>5, ReachLeastNext

LEMMA Loses ==
    ASSUME Building' = Building, m_init_bits' = m_init_bits, Reachable' \subseteq Reachable
    PROVE  StoreStep
BY DEF StoreStep, Store!Next, Store!Lose

-----------------------------------------------------------------------------
(* Steps of the program outside of gc_new                                  *)

LEMMA InitIInv == Init => IInv /\ Store!Init
<1> SUFFICES ASSUME Init PROVE IInv /\ Store!Init
  OBVIOUS
<1>1. /\ news = [t \in Threads |-> <<>>] /\ \A t \in Threads : news[t] = <<>> /\ Len(news[t]) = 0
      /\ Entered = {} /\ handles = {} /\ m_init_bits = {}
  BY DEF Init, Entered, ToSet
<1>2. TypeOK
  <2>1. news \in [Threads -> Seq(Entries)]
    BY <1>1
  <2>2. \A t \in Threads : Len(news[t]) <= MaxNest
    BY <1>1, MaxNestAssumption
  <2>3. box \in [Cells -> [count : Counts \cup {0}, type_meta : Metas \cup {None}]]
    BY DEF Init, Cleared
  <2>4. crashed \in BOOLEAN
    BY DEF Init
  <2> QED BY <2>1, <2>2, <2>3, <2>4 DEF Init, TypeOK
<1>3. MetaInv /\ RequestInv
  BY DEF Init, MetaInv, RequestInv
<1>4. StackInv /\ ObjectInv
  BY <1>1 DEF StackInv, OwnCells, ObjectInv
<1>5. GcPtrs = {} /\ Held = {}
  BY <1>1 DEF GcPtrs, Held
<1>6. PointerInv
  BY <1>5 DEF PointerInv, Init
<1>7. Reachable \subseteq {}
  BY <1>5, ReachLeast DEF Start
<1>8. Building = {}
  BY <1>1 DEF Building
<1> QED BY <1>1, <1>2, <1>3, <1>4, <1>6, <1>7, <1>8 DEF IInv, Store!Init

LEMMA SameStacks ==
    ASSUME news' = news
    PROVE  Entered' = Entered /\ Building' = Building /\ (OwnCells => OwnCells')
BY DEF Entered, Building, OwnCells

\* Steps that only change handles and what gc_ptrs hold.
LEMMA HandleStep ==
    ASSUME IInv, UNCHANGED <<type_meta, request, news, alloc, m_init_bits, crashed>>,
           handles' \subseteq Slots, m_stack_roots' \subseteq Threads, m_static_roots' \subseteq Statics,
           handles' = m_stack_roots' \cup m_static_roots',
           ptr' \in [Handles -> Cells \cup {Null, Data}],
           \A h \in handles' \ handles : ptr'[h] = Null,
           \A h \in Held : ptr'[h] = ptr[h] \/ ptr'[h] \in Reachable \cup {Null}
    PROVE  IInv' /\ StoreStep
<1>1. Entered' = Entered /\ Building' = Building /\ OwnCells'
  BY SameStacks DEF IInv, StackInv
<1>2. UNCHANGED <<box, object, free>>
  BY DEF alloc
<1>3. \A c : Members(c)' = Members(c)
  BY <1>2 DEF Members
<1>4. GcPtrs' = handles' \cup UNION {MembersSoFar(e) : e \in Entered}
  BY <1>1 DEF GcPtrs, MembersSoFar, Size
<1>5. Held' = GcPtrs' \cup UNION {Members(c) : c \in m_init_bits}
  BY <1>3 DEF Held
<1>6. \A h \in GcPtrs' \ GcPtrs : ptr'[h] = Null
  BY <1>4 DEF GcPtrs
<1>7. Reachable' \subseteq Reachable
  BY <1>2, <1>6, ReachShrinks
<1>8. \A h \in Held' : ptr'[h] \in m_init_bits' \cup {Null}
  <2>1. SUFFICES ASSUME NEW h \in Held' PROVE ptr'[h] \in m_init_bits \cup {Null}
    OBVIOUS
  <2>2. CASE h \in GcPtrs' \ GcPtrs
    BY <1>6, <2>2
  <2>3. CASE h \in Held
    BY <2>3, ReachObjects DEF IInv, PointerInv
  <2> QED BY <1>5, <2>1, <2>2, <2>3 DEF Held
<1>9. TypeOK'
  BY <1>2 DEF IInv, TypeOK
<1>10. StackInv'
  <2>1. \A e \in Entered : EntryInv(e)'
    BY <1>2, EntryKept DEF IInv, StackInv, EntryInv
  <2> QED BY <1>1, <2>1 DEF StackInv
<1>11. ObjectInv'
  BY <1>2, ObjectKept DEF IInv, ObjectInv
<1>12. MetaInv' /\ RequestInv'
  BY DEF IInv, MetaInv, RequestInv
<1> QED BY <1>1, <1>7, <1>8, <1>9, <1>10, <1>11, <1>12, Loses DEF IInv, PointerInv

LEMMA SlotsApart == ASSUME NEW h \in Slots PROVE h \notin Cells \X Words /\ h \in Handles
BY PlacesAssumption DEF Handles

LEMMA NewHandleStep ==
    ASSUME IInv, NEW t \in Threads, NEW h \in Slots, NewHandle(t, h)
    PROVE  IInv' /\ StoreStep
<1>1. /\ h \notin handles /\ h \in {t} \cup Statics /\ RegisterHandle(h, Null)
      /\ UNCHANGED <<type_meta, request, news, alloc, m_init_bits, crashed>>
  BY DEF NewHandle
<1>2. Handles = Slots \cup (Cells \X Words) /\ handles \subseteq Slots
      /\ m_stack_roots \subseteq Threads /\ m_static_roots \subseteq Statics
      /\ ptr \in [Handles -> Cells \cup {Null, Data}]
      /\ handles = m_stack_roots \cup m_static_roots
  BY DEF Handles, IInv, TypeOK, PointerInv
<1>3. handles' = handles \cup {h} /\ ptr' = [ptr EXCEPT ![h] = Null]
  BY <1>1 DEF RegisterHandle
<1>4. ptr'[h] = Null /\ \A g \in Handles \ {h} : ptr'[g] = ptr[g]
  BY <1>2, <1>3
<1>5. /\ m_stack_roots' = IF h \in Threads THEN m_stack_roots \cup {h} ELSE m_stack_roots
      /\ m_static_roots' = IF h \in Statics THEN m_static_roots \cup {h} ELSE m_static_roots
  BY <1>1, ThreadsAssumption DEF RegisterHandle, RegisterStackRoot, RegisterStaticRoot, Descriptor, Slots
<1>6. m_stack_roots' \subseteq Threads /\ m_static_roots' \subseteq Statics
      /\ handles' = m_stack_roots' \cup m_static_roots'
  BY <1>2, <1>3, <1>5 DEF Slots
<1>7. ptr' \in [Handles -> Cells \cup {Null, Data}]
  BY <1>2, <1>3
<1>8. \A g \in Held : ptr'[g] = ptr[g] \/ ptr'[g] \in Reachable \cup {Null}
  BY <1>4, HeldPlaces
<1> QED BY <1>1, <1>2, <1>3, <1>4, <1>6, <1>7, <1>8, HandleStep

LEMMA AssignStep ==
    ASSUME IInv, NEW t \in Threads, NEW h \in Named(t) \cup NamedMembers(t), NEW p \in Values(t),
           Assign(t, h, p)
    PROVE  IInv' /\ StoreStep
<1>1. h \in Held
  <2>1. CASE h \in Named(t)
    BY <2>1 DEF Named, Held, GcPtrs
  <2>2. CASE h \in NamedMembers(t)
    <3>1. PICK g \in handles : ptr[g] # Null /\ h \in Members(ptr[g])
      BY <2>2 DEF NamedMembers, Named
    <3>2. ptr[g] \in m_init_bits
      BY <3>1 DEF IInv, PointerInv, Held, GcPtrs
    <3> QED BY <3>1, <3>2 DEF Held
  <2> QED BY <2>1, <2>2
<1>2. p \in Reachable \cup {Null} /\ p \in Cells \cup {Null}
  BY ValuesReach DEF IInv, TypeOK
<1>3. /\ ptr' = [ptr EXCEPT ![h] = p] /\ UNCHANGED <<handles, m_stack_roots, m_static_roots>>
      /\ UNCHANGED <<type_meta, request, news, alloc, m_init_bits, crashed>>
  BY DEF Assign, roots
<1>4. ptr \in [Handles -> Cells \cup {Null, Data}] /\ Held \subseteq Handles
  BY HeldPlaces DEF IInv, TypeOK
<1>5. ptr' \in [Handles -> Cells \cup {Null, Data}]
      /\ \A g \in Held : ptr'[g] = ptr[g] \/ ptr'[g] \in Reachable \cup {Null}
  BY <1>2, <1>3, <1>4
<1>6. handles' \subseteq Slots /\ m_stack_roots' \subseteq Threads /\ m_static_roots' \subseteq Statics
      /\ handles' = m_stack_roots' \cup m_static_roots' /\ handles' \ handles = {}
  BY <1>3 DEF IInv, TypeOK, PointerInv
<1> QED BY <1>3, <1>5, <1>6, HandleStep

LEMMA DestroyHandleStep ==
    ASSUME IInv, NEW t \in Threads, NEW h \in Named(t), DestroyHandle(t, h)
    PROVE  IInv' /\ StoreStep
<1>1. /\ ptr' = [ptr EXCEPT ![h] = Null] /\ handles' = handles \ {h}
      /\ m_stack_roots' = m_stack_roots \ {h} /\ m_static_roots' = m_static_roots \ {h}
      /\ UNCHANGED <<type_meta, request, news, alloc, m_init_bits, crashed>>
  BY DEF DestroyHandle
<1>2. ptr \in [Handles -> Cells \cup {Null, Data}] /\ Held \subseteq Handles
  BY HeldPlaces DEF IInv, TypeOK
<1>3. ptr' \in [Handles -> Cells \cup {Null, Data}]
      /\ \A g \in Held : ptr'[g] = ptr[g] \/ ptr'[g] \in Reachable \cup {Null}
  BY <1>1, <1>2
<1>4. handles' \subseteq Slots /\ m_stack_roots' \subseteq Threads /\ m_static_roots' \subseteq Statics
      /\ handles' = m_stack_roots' \cup m_static_roots' /\ handles' \ handles = {}
  BY <1>1 DEF IInv, TypeOK, PointerInv
<1> QED BY <1>1, <1>3, <1>4, HandleStep

-----------------------------------------------------------------------------
(* gc_new up to the constructor                                            *)

\* Steps that change no more than one request.
LEMMA RequestStep ==
    ASSUME IInv, NEW t \in Threads, NEW r,
           r \in [type : Types, count : Counts, type_meta : Metas \cup {None}] \cup {None},
           r # None => /\ Len(news[t]) < MaxNest /\ <<r.type, r.count>> \in Kinds
                       /\ r.type_meta = type_meta[r.type],
           request' = [request EXCEPT ![t] = r],
           UNCHANGED <<type_meta, news, alloc, ptr, roots, m_init_bits, crashed>>
    PROVE  IInv' /\ StoreStep
<1>1. UNCHANGED <<handles, m_stack_roots, m_static_roots, box, object, free>>
  BY DEF roots, alloc
<1>2. request'[t] = r /\ (\A u \in Threads \ {t} : request'[u] = request[u])
      /\ request' \in [Threads -> [type : Types, count : Counts, type_meta : Metas \cup {None}]
                                   \cup {None}]
  BY DEF IInv, TypeOK
<1>3. TypeOK'
  BY <1>1, <1>2 DEF IInv, TypeOK
<1>4. RequestInv'
  <2>1. \A u \in Threads : news'[u] = news[u]
    OBVIOUS
  <2> QED BY <1>2, <2>1 DEF IInv, RequestInv
<1>5. Entered' = Entered /\ Building' = Building /\ OwnCells'
  BY SameStacks DEF IInv, StackInv
<1>6. StackInv'
  <2>1. \A e \in Entered : EntryInv(e)'
    BY <1>1, EntryKept DEF IInv, StackInv, EntryInv
  <2> QED BY <1>5, <2>1 DEF StackInv
<1>7. ObjectInv'
  BY <1>1, ObjectKept DEF IInv, ObjectInv
<1>8. GcPtrs' = GcPtrs /\ Held' = Held
  <2>1. \A c : Members(c)' = Members(c)
    BY <1>1 DEF Members
  <2>2. GcPtrs' = GcPtrs
    BY <1>1, <1>5 DEF GcPtrs, MembersSoFar, Size
  <2> QED BY <2>1, <2>2 DEF Held
<1>9. PointerInv' /\ MetaInv'
  BY <1>1, <1>8 DEF IInv, PointerInv, MetaInv
<1>10. Reachable' \subseteq Reachable
  BY <1>1, <1>8, ReachShrinks
<1> QED BY <1>3, <1>4, <1>5, <1>6, <1>7, <1>9, <1>10, Loses DEF IInv

LEMMA GcNewStep ==
    ASSUME IInv, NEW t \in Threads, NEW k \in Kinds, GcNew(t, k[1], k[2])
    PROVE  IInv' /\ StoreStep
<1> DEFINE r == [type |-> k[1], count |-> k[2], type_meta |-> type_meta[k[1]]]
<1>1. k = <<k[1], k[2]>> /\ k[1] \in Types /\ k[2] \in Counts /\ <<k[1], k[2]>> \in Kinds
  BY KindsAssumption DEF Counts
<1>2. type_meta[k[1]] \in Metas \cup {None}
  BY <1>1 DEF IInv, TypeOK
<1>3. r \in [type : Types, count : Counts, type_meta : Metas \cup {None}]
      /\ <<r.type, r.count>> \in Kinds /\ r.type_meta = type_meta[r.type]
  BY <1>1, <1>2
<1>4. /\ Len(news[t]) < MaxNest /\ request' = [request EXCEPT ![t] = r]
      /\ UNCHANGED <<type_meta, news, alloc, ptr, roots, m_init_bits, crashed>>
  BY DEF GcNew
<1> HIDE DEF r
<1> QED BY <1>3, <1>4, RequestStep

LEMMA BadAllocStep ==
    ASSUME IInv, NEW t \in Threads, BadAlloc(t) PROVE IInv' /\ StoreStep
BY RequestStep DEF BadAlloc

\* If the program's gc_ptrs lead where they led, and so do the cells that can
\* be reached, what could be reached still can.
LEMMA ReachKept ==
    ASSUME Start \cap Cells \subseteq Reachable',
           \A c \in Reachable : Targets(c) \subseteq Targets(c)'
    PROVE  Reachable \subseteq Reachable'
<1> DEFINE D == Reachable \cap Reachable'
<1>1. D \in SUBSET Cells /\ Start \cap Cells \subseteq D
  BY ReachClosed
<1>2. \A c \in D : Targets(c) \cap Cells \subseteq D
  BY ReachClosed, ReachClosedNext
<1> HIDE DEF D
<1>3. Reachable \subseteq D
  BY <1>1, <1>2, ReachLeast
<1> QED BY <1>3 DEF D

LEMMA AllocateStep ==
    ASSUME IInv, NEW t \in Threads, NEW c \in Cells, Allocate(t, c)
    PROVE  IInv' /\ StoreStep
<1>1. PICK r : r = request[t]
  OBVIOUS
<1>2. /\ r # None /\ c \in free /\ free' = free \ {c}
      /\ box' = [box EXCEPT ![c] = [count |-> r.count, type_meta |-> r.type_meta]]
      /\ object' = [object EXCEPT ![c] = [type |-> r.type, count |-> r.count]]
      /\ news' = [news EXCEPT ![t] = Pushed(@, NewEntry(c, r))]
      /\ request' = [request EXCEPT ![t] = None]
      /\ UNCHANGED <<type_meta, ptr, handles, m_stack_roots, m_static_roots, m_init_bits, crashed>>
  BY <1>1 DEF Allocate, InitCell, roots
<1>3. /\ r \in [type : Types, count : Counts, type_meta : Metas \cup {None}]
      /\ <<r.type, r.count>> \in Kinds
      /\ r.type_meta # None => r.type_meta = type_meta[r.type]
  BY <1>1, <1>2 DEF IInv, TypeOK, RequestInv
<1>4. PICK e : e = NewEntry(c, r)
  OBVIOUS
<1>5. /\ e.cell = c /\ e.type = r.type /\ e.count = r.count /\ e.type_meta = r.type_meta
      /\ e.offsets = {} /\ e.done = 0 /\ e.meta_requested = (r.type_meta = None)
  BY <1>4 DEF NewEntry
<1>6. e \in Entries
  <2>1. 0 \in 0..Cardinality(Words)
    BY WordsFinite
  <2>2. (r.type_meta = None) \in BOOLEAN
    OBVIOUS
  <2> QED BY <1>3, <1>4, <2>1, <2>2 DEF NewEntry, Entries
<1>7. \A d \in Entered : d.cell # c
  BY <1>2 DEF IInv, StackInv, EntryInv
<1>8. /\ news' \in Stacks /\ Own(news') /\ AllOf(news') = Entered \cup {e}
      /\ Len(news'[t]) = Len(news[t]) + 1 /\ \A u \in Threads \ {t} : news'[u] = news[u]
  <2>1. news' = WithPushed(news, t, e)
    BY <1>2, <1>4 DEF WithPushed
  <2>2. \A d \in AllOf(news) : d.cell # e.cell
    BY <1>5, <1>7, EnteredStacks
  <2>3. news \in Stacks /\ Own(news) /\ AllOf(news) = Entered
    BY EnteredStacks
  <2> QED BY ONLY <1>6, <2>1, <2>2, <2>3, Push
<1>9. Entered' = Entered \cup {e} /\ OwnCells'
  BY <1>8 DEF Entered, AllOf, OwnCells, Own
<1>10. /\ object'[c] = [type |-> r.type, count |-> r.count]
       /\ box'[c] = [count |-> r.count, type_meta |-> r.type_meta]
       /\ \A d \in Cells \ {c} : object'[d] = object[d] /\ box'[d] = box[d]
  BY <1>2 DEF IInv, TypeOK
<1>11. c \notin m_init_bits
  BY <1>2 DEF IInv, ObjectInv
<1>12. TypeOK'
  <2>1. \A u \in Threads : Len(news'[u]) <= MaxNest
    <3>1. Len(news[t]) \in 0..MaxNest /\ Len(news[t]) < MaxNest
      BY <1>1, <1>2, EnteredStacks DEF IInv, RequestInv
    <3> QED BY <1>8, <3>1, MaxNestAssumption DEF IInv, TypeOK
  <2>2. news' \in [Threads -> Seq(Entries)]
    BY <1>8 DEF Stacks
  <2>3. box' \in [Cells -> [count : Counts \cup {0}, type_meta : Metas \cup {None}]]
    BY <1>2, <1>3 DEF IInv, TypeOK
  <2>4. object' \in [Cells -> [type : Types, count : Counts] \cup {None}]
    BY <1>2, <1>3 DEF IInv, TypeOK
  <2>5. request' \in [Threads -> [type : Types, count : Counts, type_meta : Metas \cup {None}]
                               \cup {None}]
    BY <1>2 DEF IInv, TypeOK
  <2> QED BY <1>2, <2>1, <2>2, <2>3, <2>4, <2>5 DEF IInv, TypeOK
<1>13. RequestInv'
  <2>1. /\ request'[t] = None
        /\ \A u \in Threads \ {t} : request'[u] = request[u] /\ news'[u] = news[u]
    BY <1>2, <1>8 DEF IInv, TypeOK
  <2> QED BY <1>2, <2>1 DEF IInv, RequestInv
<1>14. StackInv'
  <2>1. ASSUME NEW d \in Entered PROVE EntryInv(d)'
    <3>1. EntryInv(d) /\ d.cell \in Cells \ {c}
      BY <1>7, <2>1, EnteredStacks, EntryFields
    <3>2. d.cell \notin free' \cup m_init_bits'
      BY <1>2, <3>1 DEF EntryInv
    <3> QED BY <1>2, <1>10, <3>1, <3>2, EntryKept
  <2>2. EntryInv(e)'
    <3>1. e.done <= Size(e) * e.count /\ e.done <= Size(e) /\ 0..e.done-1 = {}
      BY <1>3, <1>5, KindWords DEF Size
    <3>2. OffsetsSoFar(e)' \/ e.type_meta # None
      BY <1>5, <3>1 DEF OffsetsSoFar, Size
    <3>3. e.cell \notin free' \cup m_init_bits'
      BY <1>2, <1>5, <1>11
    <3> QED BY <1>2, <1>3, <1>5, <1>10, <3>1, <3>2, <3>3 DEF EntryInv, BeforeCreate, Size
  <2> QED BY <1>9, <2>1, <2>2 DEF StackInv
<1>15. ObjectInv'
  <2>1. ASSUME NEW d \in m_init_bits PROVE ObjectSound(d)'
    <3>1. d \in Cells \ {c}
      BY <1>11 DEF IInv, TypeOK
    <3> QED BY <1>2, <1>10, <3>1, ObjectKept DEF IInv, ObjectInv
  <2> QED BY <1>2, <2>1 DEF IInv, ObjectInv
<1>16. \A d \in m_init_bits : Members(d)' = Members(d)
  BY <1>10, <1>11, MembersKept DEF IInv, TypeOK
<1>17. GcPtrs' = GcPtrs /\ Held' = Held
  <2>1. MembersSoFar(e) = {}
    BY <1>5 DEF MembersSoFar
  <2>2. GcPtrs' = GcPtrs
    BY <1>2, <1>9, <2>1 DEF GcPtrs, MembersSoFar, Size
  <2> QED BY <1>2, <1>16, <2>2 DEF Held
<1>18. PointerInv' /\ MetaInv'
  BY <1>2, <1>17 DEF IInv, PointerInv, MetaInv
<1>19. Reachable' = Reachable
  <2>1. \A d \in Reachable : object'[d] = object[d] /\ Targets(d)' = Targets(d)
    BY <1>2, <1>10, <1>11, <1>16, ReachObjects DEF Targets, IInv, TypeOK
  <2>2. Reachable' \subseteq Reachable
    BY <1>2, <1>17, <2>1, ReachShrinks
  <2>3. Start' = Start
    BY <1>2, <1>17 DEF Start
  <2>4. Reachable \subseteq Reachable'
    BY <2>1, <2>3, ReachClosedNext, ReachKept
  <2> QED BY <2>2, <2>4
<1>20. Building' = Building \cup {c} /\ c \notin Building
  BY <1>5, <1>7, <1>9 DEF Building
<1>21. StoreStep
  BY <1>2, <1>11, <1>19, <1>20 DEF StoreStep, Store!Next, Store!Allocate
<1> QED BY <1>9, <1>12, <1>13, <1>14, <1>15, <1>18, <1>21 DEF IInv

-----------------------------------------------------------------------------
(* The next word of the object under construction                          *)

DataNext(e) == [e EXCEPT !.done = @ + 1]
MemberNext(e) ==
    [e EXCEPT !.done = @ + 1,
              !.offsets = IF e.meta_requested THEN @ \cup {e.done} ELSE @]
WordNext(e, kind) == IF kind = "data" THEN DataNext(e) ELSE MemberNext(e)

LEMMA WordNextFields ==
    ASSUME NEW e \in Entries, NEW kind \in {"data", "member"}
    PROVE  /\ WordNext(e, kind).cell = e.cell /\ WordNext(e, kind).type = e.type
           /\ WordNext(e, kind).count = e.count
           /\ WordNext(e, kind).meta_requested = e.meta_requested
           /\ WordNext(e, kind).type_meta = e.type_meta
           /\ WordNext(e, kind).done = e.done + 1
           /\ WordNext(e, kind).offsets = IF kind = "member" /\ e.meta_requested
                                          THEN e.offsets \cup {e.done} ELSE e.offsets
BY DEF Entries, WordNext, DataNext, MemberNext

LEMMA HeapPlace ==
    ASSUME NEW c \in Cells, NEW w \in Words
    PROVE  /\ <<c, w>> \in Handles /\ <<c, w>> \notin Slots
           /\ Descriptor(<<c, w>>) = "gc_heap"
BY PlacesAssumption DEF Handles, Slots, Descriptor

LEMMA EntryNext ==
    ASSUME NEW e \in Entries, EntryInv(e), NEW kind \in {"data", "member"}, IsNext(e, kind)
    PROVE  /\ WordNext(e, kind) \in Entries /\ EntryInv(WordNext(e, kind))
           /\ e.cell \in Cells /\ e.done \in Words
           /\ MembersSoFar(WordNext(e, kind)) = IF kind = "data" THEN MembersSoFar(e)
                                                ELSE MembersSoFar(e) \cup {Next1(e)}
<1>1. PICK f : f = WordNext(e, kind)
  OBVIOUS
<1>2. /\ f.cell = e.cell /\ f.type = e.type /\ f.count = e.count /\ f.done = e.done + 1
      /\ f.meta_requested = e.meta_requested /\ f.type_meta = e.type_meta
      /\ f.offsets = IF kind = "member" /\ e.meta_requested
                     THEN e.offsets \cup {e.done} ELSE e.offsets
  BY <1>1, WordNextFields
<1>3. /\ e.cell \in Cells /\ e.type \in Types /\ e.count \in Counts
      /\ e.meta_requested \in BOOLEAN /\ e.type_meta \in Metas \cup {None}
      /\ e.offsets \in SUBSET Words /\ e.done \in Nat /\ e.done <= Cardinality(Words)
  BY EntryFields
<1>4. <<e.type, e.count>> \in Kinds
  BY DEF EntryInv
<1>5. PICK size : size = Size(e)
  OBVIOUS
<1>6. PICK total : total = Size(e) * e.count
  OBVIOUS
<1>7. /\ size \in Nat \ {0} /\ total \in Nat /\ size <= total
      /\ members[e.type] \subseteq 0..size-1 /\ 0..total-1 \subseteq Words
      /\ total <= Cardinality(Words) /\ Cardinality(Words) \in Nat
  BY <1>4, <1>5, <1>6, KindWords, WordsFinite DEF Size
<1>8. /\ e.done < total /\ ~(e.type_meta = None /\ e.done = size)
      /\ kind = IF e.done % size \in members[e.type] THEN "member" ELSE "data"
  BY <1>5, <1>6 DEF IsNext, MustCreate, BeforeCreate
<1>9. e.done \in Words /\ e.done + 1 <= total
  BY <1>3, <1>7, <1>8
<1>10. f.offsets \in SUBSET Words
  BY <1>2, <1>3, <1>9
<1>11. f \in Entries
  <2>1. f.done \in 0..Cardinality(Words)
    BY <1>2, <1>3, <1>7, <1>9
  <2>2. f = [cell |-> f.cell, type |-> f.type, count |-> f.count,
             meta_requested |-> f.meta_requested, type_meta |-> f.type_meta,
             offsets |-> f.offsets, done |-> f.done]
    BY <1>1 DEF Entries, WordNext, DataNext, MemberNext
  <2>3. f.meta_requested \in BOOLEAN
    BY <1>2, <1>3
  <2> QED BY <1>2, <1>3, <1>10, <2>1, <2>2, <2>3 DEF Entries
<1>12. EntryInv(f)
  <2>1. ASSUME BeforeCreate(e) PROVE OffsetsSoFar(f)
    <3>1. e.meta_requested /\ e.done <= size /\ e.offsets = members[e.type] \cap (0..e.done-1)
      BY <1>5, <2>1 DEF EntryInv, OffsetsSoFar
    <3>2. e.done < size /\ e.done % size = e.done
      BY <1>3, <1>7, <1>8, <2>1, <3>1 DEF BeforeCreate
    <3>3. 0..f.done-1 = (0..e.done-1) \cup {e.done}
      BY <1>2, <1>3
    <3>4. CASE kind = "member"
      BY <1>2, <1>8, <3>1, <3>2, <3>3, <3>4, <1>5, <1>7, <1>3 DEF OffsetsSoFar, Size
    <3>5. CASE kind = "data"
      <4>1. e.done \notin members[e.type]
        BY <1>8, <3>2, <3>5
      <4>2. f.offsets = members[f.type] \cap (0..f.done-1)
        BY <1>2, <3>1, <3>3, <3>5, <4>1
      <4>3. f.meta_requested /\ f.done <= Size(f)
        BY <1>2, <1>3, <1>5, <1>7, <3>1, <3>2 DEF Size
      <4> QED BY <4>2, <4>3 DEF OffsetsSoFar
    <3> QED BY <3>4, <3>5
  <2>2. f.done <= Size(f) * f.count
    BY <1>2, <1>6, <1>9 DEF Size
  <2>3. BeforeCreate(f) <=> BeforeCreate(e)
    BY <1>2 DEF BeforeCreate
  <2>4. IF BeforeCreate(f) THEN OffsetsSoFar(f) ELSE f.type_meta = type_meta[f.type]
    BY <1>2, <2>1, <2>3 DEF EntryInv
  <2> QED BY <1>2, <1>4, <2>2, <2>4 DEF EntryInv
<1>13. MembersSoFar(f) = IF kind = "data" THEN MembersSoFar(e)
                         ELSE MembersSoFar(e) \cup {Next1(e)}
  <2>1. 0..f.done-1 = (0..e.done-1) \cup {e.done}
    BY <1>2, <1>3
  <2>2. MembersSoFar(f) = {<<e.cell, w>> : w \in {v \in 0..f.done-1 : v % size \in members[e.type]}}
    BY <1>2, <1>5 DEF MembersSoFar, Size
  <2>3. MembersSoFar(e) = {<<e.cell, w>> : w \in {v \in 0..e.done-1 : v % size \in members[e.type]}}
    BY <1>5 DEF MembersSoFar
  <2>4. CASE kind = "data"
    BY <1>8, <2>1, <2>2, <2>3, <2>4
  <2>5. CASE kind = "member"
    BY <1>8, <2>1, <2>2, <2>3, <2>5 DEF Next1
  <2> QED BY <2>4, <2>5
<1> QED BY <1>1, <1>3, <1>9, <1>11, <1>12, <1>13

LEMMA NextNotHeld ==
    ASSUME IInv, NEW e \in Entered, e.done \in Words PROVE Next1(e) \notin Held
<1>1. e \in Entries /\ EntryInv(e) /\ e.cell \in Cells
  BY EnteredStacks, EntryFields
<1>2. Next1(e) \notin handles
  BY <1>1, HeapPlace DEF Next1, IInv, TypeOK
<1>3. ASSUME NEW d \in Entered, Next1(e) \in MembersSoFar(d) PROVE FALSE
  <2>1. d.cell = e.cell /\ e.done \in 0..d.done-1
    BY <1>3 DEF Next1, MembersSoFar
  <2>2. d = e
    BY <2>1, EnteredStacks, DistinctEntries
  <2>3. e.done \in Nat
    BY <1>1, EntryFields
  <2> QED BY <2>1, <2>2, <2>3
<1>4. ASSUME NEW c \in m_init_bits, Next1(e) \in Members(c) PROVE FALSE
  <2>1. c \in Cells /\ object[c] # None /\ <<object[c].type, object[c].count>> \in Kinds
    BY DEF IInv, TypeOK, ObjectInv, ObjectSound
  <2>2. c = e.cell
    BY <1>4, <2>1, MemberPlaces DEF Next1
  <2> QED BY <1>1, <2>2 DEF EntryInv
<1> QED BY <1>2, <1>3, <1>4 DEF Held, GcPtrs

LEMMA HeadNext ==
    ASSUME NEW s \in Seq(Entries), s # <<>>, s[1].done \in Words
    PROVE  /\ Constructed(s) = [s EXCEPT ![1] = WordNext(s[1], "data")]
           /\ Constructed(RegisterChild(s, Next1(s[1]))) = [s EXCEPT ![1] = WordNext(s[1], "member")]
<1>1. s[1] \in Entries /\ 1 \in DOMAIN s
  BY EmptySeq
<1>2. s[1].cell \in Cells
  BY <1>1, EntryFields
<1>3. Descriptor(Next1(s[1])) = "gc_heap" /\ Next1(s[1])[2] = s[1].done
  BY <1>2, HeapPlace DEF Next1
<1>4. Constructed(s) = [s EXCEPT ![1] = WordNext(s[1], "data")]
  BY <1>1 DEF Constructed, WordNext, DataNext
<1>5. PICK r : r = RegisterChild(s, Next1(s[1]))
  OBVIOUS
<1>6. CASE s[1].meta_requested
  <2>1. PICK g : g = [s[1] EXCEPT !.offsets = s[1].offsets \cup {s[1].done}]
    OBVIOUS
  <2>2. r = [s EXCEPT ![1] = g]
    BY <1>1, <1>3, <1>5, <1>6, <2>1 DEF RegisterChild
  <2>3. [g EXCEPT !.done = g.done + 1] = MemberNext(s[1])
    BY <1>1, <1>6, <2>1 DEF MemberNext, Entries
  <2>4. [r EXCEPT ![1].done = r[1].done + 1] = [s EXCEPT ![1] = MemberNext(s[1])]
    BY <1>1, <2>2, <2>3
  <2> QED BY <1>4, <1>5, <2>4 DEF Constructed, WordNext
<1>7. CASE ~s[1].meta_requested
  <2>1. r = s
    BY <1>5, <1>7 DEF RegisterChild
  <2>2. [s EXCEPT ![1].done = @ + 1] = [s EXCEPT ![1] = MemberNext(s[1])]
    BY <1>1, <1>7 DEF MemberNext, Entries
  <2> QED BY <1>4, <1>5, <2>1, <2>2 DEF Constructed, WordNext
<1> QED BY <1>6, <1>7

\* The next word of the innermost object is constructed; a gc_ptr is given
\* what can be reached, or null.
LEMMA WordStep ==
    ASSUME IInv, NEW t \in Threads, news[t] # <<>>, request[t] = None,
           NEW kind \in {"data", "member"}, IsNext(news[t][1], kind),
           news' = WithHead(news, t, WordNext(news[t][1], kind)),
           NEW p \in Cells \cup {Null, Data}, kind = "member" => p \in Reachable \cup {Null},
           ptr' = [ptr EXCEPT ![Next1(news[t][1])] = p],
           UNCHANGED <<type_meta, request, alloc, roots, m_init_bits, crashed>>
    PROVE  IInv' /\ StoreStep
<1>1. PICK e : e = news[t][1]
  OBVIOUS
<1>2. PICK f : f = WordNext(e, kind)
  OBVIOUS
<1>3. UNCHANGED <<handles, m_stack_roots, m_static_roots, box, object, free>>
  BY DEF roots, alloc
<1>4. e \in Entered /\ e \in Entries /\ EntryInv(e)
  <2>1. news[t] \in Seq(Entries) /\ Len(news[t]) \in Nat \ {0}
    BY EnteredStacks, EmptySeq
  <2>2. 1 \in 1..Len(news[t])
    BY <2>1
  <2> QED BY <1>1, <2>2, EnteredStacks, AllOfStacks
<1>5. /\ f \in Entries /\ EntryInv(f) /\ f.cell = e.cell /\ e.cell \in Cells /\ e.done \in Words
      /\ MembersSoFar(f) = IF kind = "data" THEN MembersSoFar(e)
                           ELSE MembersSoFar(e) \cup {Next1(e)}
  BY <1>1, <1>2, <1>4, EntryNext, WordNextFields
<1>6. /\ news' \in Stacks /\ Own(news') /\ AllOf(news') = (Entered \ {e}) \cup {f}
      /\ Len(news'[t]) = Len(news[t]) /\ \A u \in Threads \ {t} : news'[u] = news[u]
  <2>1. news \in Stacks /\ Own(news) /\ AllOf(news) = Entered
    BY EnteredStacks
  <2>2. news' = WithHead(news, t, f)
    BY <1>1, <1>2
  <2> QED BY ONLY news[t] # <<>>, t \in Threads, <1>1, <1>5, <2>1, <2>2, ChangeHead
<1>7. Entered' = (Entered \ {e}) \cup {f} /\ OwnCells'
  BY <1>6 DEF Entered, AllOf, OwnCells, Own
<1>8. Building' = Building
  BY <1>4, <1>5, <1>7 DEF Building
<1>9. PICK h : h = Next1(e)
  OBVIOUS
<1>10. h \in Handles /\ h \notin Held
  BY <1>4, <1>5, <1>9, HeapPlace, NextNotHeld DEF Next1
<1>11. /\ ptr' \in [Handles -> Cells \cup {Null, Data}] /\ ptr'[h] = p
       /\ \A g \in Handles \ {h} : ptr'[g] = ptr[g]
  BY <1>1, <1>9, <1>10 DEF IInv, TypeOK
<1>12. TypeOK'
  <2>1. \A u \in Threads : Len(news'[u]) <= MaxNest
    BY <1>6 DEF IInv, TypeOK
  <2> QED BY <1>3, <1>6, <1>11, <2>1 DEF IInv, TypeOK, Stacks
<1>13. MetaInv' /\ RequestInv'
  BY <1>6 DEF IInv, MetaInv, RequestInv
<1>14. StackInv'
  <2>1. \A d \in Entered \cup {f} : EntryInv(d)
    BY <1>5, EnteredStacks
  <2>2. ASSUME NEW d, EntryInv(d) PROVE EntryInv(d)'
    BY <1>3, <2>2, EntryKept DEF EntryInv
  <2> QED BY <1>7, <2>1, <2>2 DEF StackInv
<1>15. ObjectInv'
  BY <1>3, ObjectKept DEF IInv, ObjectInv
<1>16. \A c : Members(c)' = Members(c)
  BY <1>3 DEF Members
<1>17. GcPtrs' = GcPtrs \cup (IF kind = "data" THEN {} ELSE {h})
  <2>1. GcPtrs' = handles \cup UNION {MembersSoFar(d) : d \in (Entered \ {e}) \cup {f}}
    BY <1>3, <1>7 DEF GcPtrs, MembersSoFar, Size
  <2>2. UNION {MembersSoFar(d) : d \in (Entered \ {e}) \cup {f}}
        = (UNION {MembersSoFar(d) : d \in Entered}) \cup (IF kind = "data" THEN {} ELSE {h})
    BY <1>4, <1>5, <1>9
  <2> QED BY <2>1, <2>2 DEF GcPtrs
<1>18. Held' = Held \cup (IF kind = "data" THEN {} ELSE {h})
  BY <1>16, <1>17 DEF Held
<1>19. \A g \in Held : ptr'[g] = ptr[g]
  BY <1>10, <1>11, HeldPlaces
<1>20. PointerInv'
  <2>1. ASSUME NEW g \in Held' PROVE ptr'[g] \in m_init_bits' \cup {Null}
    <3>1. CASE g \in Held
      BY <1>19, <3>1 DEF IInv, PointerInv
    <3>2. CASE g \notin Held
      BY <1>11, <1>18, <3>2, ReachObjects
    <3> QED BY <3>1, <3>2
  <2> QED BY <1>3, <2>1 DEF IInv, PointerInv
<1>21. Reachable' \subseteq Reachable
  <2>1. \A g \in GcPtrs' \ GcPtrs : ptr'[g] \in Reachable \cup {Null}
    BY <1>11, <1>17
  <2> QED BY <1>3, <1>19, <2>1, ReachShrinks
<1> QED BY <1>7, <1>8, <1>12, <1>13, <1>14, <1>15, <1>20, <1>21, Loses DEF IInv

LEMMA ConstructDataStep ==
    ASSUME IInv, NEW t \in Threads, NEW d \in {Data} \cup (Values(t) \cap Cells),
           ConstructData(t, d)
    PROVE  IInv' /\ StoreStep
<1>1. /\ news[t] # <<>> /\ request[t] = None /\ IsNext(news[t][1], "data")
      /\ ptr' = [ptr EXCEPT ![Next1(news[t][1])] = d]
      /\ news' = [news EXCEPT ![t] = Constructed(news[t])]
      /\ UNCHANGED <<type_meta, request, alloc, roots, m_init_bits, crashed>>
  BY DEF ConstructData, InConstructor, Idle
<1>2. news[t] \in Seq(Entries) /\ news[t][1].done \in Words
  <2>1. news[t] \in Seq(Entries) /\ 1 \in 1..Len(news[t])
    BY <1>1, EnteredStacks, EmptySeq
  <2>2. news[t][1] \in Entered
    BY <2>1, EnteredStacks, AllOfStacks
  <2> QED BY <1>1, <2>1, <2>2, EnteredStacks, EntryNext
<1>3. news' = WithHead(news, t, WordNext(news[t][1], "data"))
  BY <1>1, <1>2, HeadNext DEF WithHead
<1> QED BY <1>1, <1>3, WordStep

LEMMA ConstructMemberStep ==
    ASSUME IInv, NEW t \in Threads, NEW p \in Values(t), ConstructMember(t, p)
    PROVE  IInv' /\ StoreStep
<1> DEFINE h == Next1(news[t][1])
<1>1. /\ news[t] # <<>> /\ request[t] = None /\ IsNext(news[t][1], "member")
      /\ news' = [news EXCEPT ![t] = Constructed(RegisterChild(news[t], h))]
      /\ RegisterHandle(h, p)
      /\ UNCHANGED <<type_meta, request, alloc, m_init_bits, crashed>>
  BY DEF ConstructMember, InConstructor, Idle
<1>2. news[t] \in Seq(Entries) /\ news[t][1].done \in Words /\ news[t][1].cell \in Cells
  <2>1. news[t] \in Seq(Entries) /\ 1 \in 1..Len(news[t])
    BY <1>1, EnteredStacks, EmptySeq
  <2>2. news[t][1] \in Entered
    BY <2>1, EnteredStacks, AllOfStacks
  <2> QED BY <1>1, <2>1, <2>2, EnteredStacks, EntryNext
<1>3. news' = WithHead(news, t, WordNext(news[t][1], "member"))
  BY <1>1, <1>2, HeadNext DEF WithHead
<1>4. h \notin Slots /\ Descriptor(h) = "gc_heap"
  BY <1>2, HeapPlace DEF Next1
<1>5. ptr' = [ptr EXCEPT ![h] = p] /\ UNCHANGED roots
  BY <1>1, <1>4 DEF RegisterHandle, RegisterStackRoot, RegisterStaticRoot, roots
<1>6. p \in Reachable \cup {Null} /\ p \in Cells \cup {Null, Data}
  BY ValuesReach DEF IInv, TypeOK
<1> QED BY <1>1, <1>3, <1>5, <1>6, WordStep

\* The innermost entry of a thread.
LEMMA Innermost ==
    ASSUME IInv, NEW t \in Threads, news[t] # <<>>
    PROVE  /\ news[t] \in Seq(Entries) /\ 1 \in 1..Len(news[t])
           /\ news[t][1] \in Entered /\ news[t][1] \in Entries /\ EntryInv(news[t][1])
<1>1. news[t] \in Seq(Entries) /\ 1 \in 1..Len(news[t])
  BY EnteredStacks, EmptySeq
<1> QED BY <1>1, EnteredStacks, AllOfStacks

\* What create stores, or finds, is exact.
LEMMA CreateStep ==
    ASSUME IInv, NEW t \in Threads, Create(t) PROVE IInv' /\ StoreStep
<1>1. PICK e : e = news[t][1]
  OBVIOUS
<1>2. PICK m : m = IF type_meta[e.type] # None THEN type_meta[e.type]
                   ELSE [size |-> Size(e), offsets |-> e.offsets]
  OBVIOUS
<1>3. /\ news[t] # <<>> /\ request[t] = None /\ MustCreate(e)
      /\ type_meta' = [type_meta EXCEPT ![e.type] = m]
      /\ news' = [news EXCEPT ![t][1].type_meta = m]
      /\ UNCHANGED <<request, ptr, handles, m_stack_roots, m_static_roots, box, object, free,
                     m_init_bits, crashed>>
  BY <1>1, <1>2 DEF Create, InConstructor, Idle, alloc, roots
<1>4. e \in Entered /\ e \in Entries /\ EntryInv(e) /\ news[t] \in Seq(Entries)
      /\ 1 \in 1..Len(news[t])
  BY <1>1, <1>3, Innermost
<1>5. e.type_meta = None /\ OffsetsSoFar(e) /\ e.done = Size(e) /\ <<e.type, e.count>> \in Kinds
  BY <1>3, <1>4 DEF MustCreate, BeforeCreate, EntryInv
<1>6. /\ e.type \in Types /\ members[e.type] \subseteq 0..Size(e)-1 /\ members[e.type] \subseteq Words
      /\ Size(e) \in Nat /\ Size(e) = type_size[e.type]
  <2>1. 0..Size(e)-1 \subseteq 0..Size(e) * e.count - 1
    BY <1>5, KindWords DEF Size
  <2> QED BY <1>5, <2>1, KindWords DEF Size
<1>7. e.offsets = members[e.type]
  BY <1>5, <1>6 DEF OffsetsSoFar
<1>8. m = Exact(e.type)
  BY <1>2, <1>6, <1>7 DEF Exact, IInv, MetaInv
<1>9. m \in Metas /\ m # None
  BY <1>6, <1>8, NoneAssumption DEF Exact, Metas
<1>10. /\ type_meta' \in [Types -> Metas \cup {None}] /\ type_meta'[e.type] = m
       /\ \A ty \in Types : type_meta[ty] # None => type_meta'[ty] = type_meta[ty]
       /\ \A ty \in Types \ {e.type} : type_meta'[ty] = type_meta[ty]
  BY <1>2, <1>3, <1>6, <1>9 DEF IInv, TypeOK
<1>11. PICK f : f = [e EXCEPT !.type_meta = m]
  OBVIOUS
<1>12. /\ f.cell = e.cell /\ f.type = e.type /\ f.count = e.count /\ f.type_meta = m
       /\ f.done = e.done /\ f \in Entries
  BY <1>4, <1>9, <1>11 DEF Entries
<1>13. /\ news' \in Stacks /\ Own(news') /\ AllOf(news') = (Entered \ {e}) \cup {f}
       /\ Len(news'[t]) = Len(news[t]) /\ \A u \in Threads \ {t} : news'[u] = news[u]
  <2>1. news \in Stacks /\ Own(news) /\ AllOf(news) = Entered
    BY EnteredStacks
  <2>2. news' = WithHead(news, t, f)
    BY <1>1, <1>3, <1>4, <1>11 DEF WithHead
  <2>3. news[t] # <<>> /\ f \in Entries /\ f.cell = news[t][1].cell
    BY <1>1, <1>3, <1>12
  <2> QED BY ONLY t \in Threads, <1>1, <2>1, <2>2, <2>3, ChangeHead
<1>14. Entered' = (Entered \ {e}) \cup {f} /\ OwnCells'
  BY <1>13 DEF Entered, AllOf, OwnCells, Own
<1>15. TypeOK'
  <2>1. \A u \in Threads : Len(news'[u]) <= MaxNest
    BY <1>13 DEF IInv, TypeOK
  <2> QED BY <1>3, <1>10, <1>13, <2>1 DEF IInv, TypeOK, Stacks
<1>16. MetaInv'
  BY <1>8, <1>10 DEF IInv, MetaInv, Exact
<1>17. RequestInv'
  <2>1. ASSUME NEW u \in Threads, request[u] # None
        PROVE  request[u].type_meta # None => request[u].type_meta = type_meta'[request[u].type]
    <3>1. request[u].type \in Types
      BY <2>1 DEF IInv, TypeOK
    <3> QED BY <1>10, <2>1, <3>1 DEF IInv, RequestInv
  <2>2. \A u \in Threads : Len(news'[u]) = Len(news[u])
    BY <1>13
  <2> QED BY <1>3, <2>1, <2>2 DEF IInv, RequestInv
<1>18. StackInv'
  <2>1. ASSUME NEW d \in Entered PROVE EntryInv(d)'
    <3>1. EntryInv(d) /\ d.type \in Types
      BY EnteredStacks, EntryFields
    <3> QED BY <1>3, <1>10, <3>1, EntryKept DEF EntryInv
  <2>2. EntryInv(f)'
    BY <1>3, <1>4, <1>9, <1>10, <1>12 DEF EntryInv, BeforeCreate, Size
  <2> QED BY <1>14, <2>1, <2>2 DEF StackInv
<1>19. ObjectInv'
  <2>1. ASSUME NEW c \in m_init_bits PROVE ObjectSound(c)'
    <3>1. ObjectSound(c) /\ object[c].type \in Types
      BY KindsAssumption DEF IInv, ObjectInv, ObjectSound
    <3> QED BY <1>3, <1>10, <3>1, ObjectKept
  <2> QED BY <1>3, <2>1 DEF IInv, ObjectInv
<1>20. GcPtrs' = GcPtrs /\ Held' = Held
  <2>1. MembersSoFar(f) = MembersSoFar(e)
    BY <1>12 DEF MembersSoFar, Size
  <2>2. GcPtrs' = handles \cup UNION {MembersSoFar(d) : d \in (Entered \ {e}) \cup {f}}
    BY <1>3, <1>14 DEF GcPtrs, MembersSoFar, Size
  <2>3. UNION {MembersSoFar(d) : d \in (Entered \ {e}) \cup {f}}
        = UNION {MembersSoFar(d) : d \in Entered}
    BY <1>4, <2>1
  <2>4. GcPtrs' = GcPtrs
    BY <2>2, <2>3 DEF GcPtrs
  <2>5. \A c : Members(c)' = Members(c)
    BY <1>3 DEF Members
  <2> QED BY <1>3, <2>4, <2>5 DEF Held
<1>21. PointerInv'
  BY <1>3, <1>20 DEF IInv, PointerInv
<1>22. Reachable' \subseteq Reachable
  BY <1>3, <1>20, ReachShrinks
<1>23. Building' = Building
  BY <1>4, <1>12, <1>14 DEF Building
<1> QED BY <1>3, <1>14, <1>15, <1>16, <1>17, <1>18, <1>19, <1>21, <1>22, <1>23, Loses DEF IInv

\* A cell whose constructor threw is no object's.
LEMMA AbortStep ==
    ASSUME IInv, NEW t \in Threads, Abort(t) PROVE IInv' /\ StoreStep
<1>1. PICK e : e = news[t][1]
  OBVIOUS
<1>2. /\ news[t] # <<>> /\ request[t] = None /\ news' = WithPopped(news, t)
      /\ UNCHANGED <<type_meta, request, ptr, handles, m_stack_roots, m_static_roots,
                     box, object, free, m_init_bits, crashed>>
  BY DEF Abort, InConstructor, Idle, alloc, roots, WithPopped
<1>3. e \in Entered /\ e \in Entries /\ EntryInv(e)
  BY <1>1, <1>2, Innermost
<1>4. /\ news' \in Stacks /\ Own(news') /\ AllOf(news') = Entered \ {e}
      /\ Len(news'[t]) <= Len(news[t]) /\ \A u \in Threads \ {t} : news'[u] = news[u]
  <2>1. news \in Stacks /\ Own(news) /\ AllOf(news) = Entered
    BY EnteredStacks
  <2> QED BY ONLY <1>1, <1>2, <2>1, t \in Threads, Pop
<1>5. Entered' = Entered \ {e} /\ OwnCells'
  BY <1>4 DEF Entered, AllOf, OwnCells, Own
<1>6. TypeOK'
  <2>1. \A u \in Threads : Len(news'[u]) <= MaxNest
    <3>1. Len(news'[t]) \in Nat /\ Len(news[t]) \in 0..MaxNest
      BY <1>4, EnteredStacks DEF Stacks
    <3> QED BY <1>4, <3>1, MaxNestAssumption DEF IInv, TypeOK
  <2> QED BY <1>2, <1>4, <2>1 DEF IInv, TypeOK, Stacks
<1>7. MetaInv' /\ RequestInv'
  BY <1>2, <1>4 DEF IInv, MetaInv, RequestInv
<1>8. StackInv'
  <2>1. \A d \in Entered : EntryInv(d)'
    BY <1>2, EntryKept DEF IInv, StackInv, EntryInv
  <2> QED BY <1>5, <2>1 DEF StackInv
<1>9. ObjectInv'
  BY <1>2, ObjectKept DEF IInv, ObjectInv
<1>10. GcPtrs' \subseteq GcPtrs /\ Held' \subseteq Held
  <2>1. GcPtrs' = handles \cup UNION {MembersSoFar(d) : d \in Entered \ {e}}
    BY <1>2, <1>5 DEF GcPtrs, MembersSoFar, Size
  <2>2. \A c : Members(c)' = Members(c)
    BY <1>2 DEF Members
  <2>3. GcPtrs' \subseteq GcPtrs
    BY <2>1 DEF GcPtrs
  <2> QED BY <1>2, <2>2, <2>3 DEF Held
<1>11. PointerInv'
  BY <1>2, <1>10 DEF IInv, PointerInv
<1>12. Reachable' \subseteq Reachable
  BY <1>2, <1>10, ReachShrinks
<1>13. e.cell \in Cells /\ e.cell \in Building /\ Building' = Building \ {e.cell}
  <2>1. \A d \in Entered : d.cell = e.cell => d = e
    BY <1>3, EnteredStacks, DistinctEntries
  <2> QED BY <1>3, <1>5, <2>1, EntryFields DEF Building
<1>14. StoreStep
  BY <1>2, <1>12, <1>13 DEF StoreStep, Store!Next, Store!Abort
<1> QED BY <1>5, <1>6, <1>7, <1>8, <1>9, <1>11, <1>14 DEF IInv

-----------------------------------------------------------------------------
(* Collections                                                             *)

Traced == Closure(Trace, Roots)

LEMMA TracedClosed ==
    /\ Traced \subseteq Cells /\ Roots \cap Cells \subseteq Traced
    /\ \A c \in Traced : Trace(c) \cap Cells \subseteq Traced
<1>1. Traced \subseteq Cells
  BY DEF Traced, Closure
<1>2. ASSUME NEW o \in Roots \cap Cells PROVE o \in Traced
  BY DEF Traced, Closure
<1>3. ASSUME NEW c \in Traced, NEW o \in Trace(c) \cap Cells PROVE o \in Traced
  <2>1. ASSUME NEW C \in SUBSET Cells, Roots \cap Cells \subseteq C,
               \A d \in C : Trace(d) \cap Cells \subseteq C
        PROVE  o \in C
    <3>1. c \in C
      BY <2>1 DEF Traced, Closure
    <3> QED BY <2>1, <3>1
  <2> QED BY <2>1 DEF Traced, Closure
<1> QED BY <1>1, <1>2, <1>3

\* An object is traced along its members, because its meta is exact.
LEMMA TraceExact ==
    ASSUME IInv, NEW c \in m_init_bits PROVE Trace(c) = Targets(c) \ {Null}
<1> DEFINE ty == object[c].type
           n == object[c].count
<1>1. object[c] # None /\ type_meta[ty] # None /\ ty \in Types
      /\ box[c] = [count |-> n, type_meta |-> type_meta[ty]]
  BY KindsAssumption DEF IInv, ObjectInv, ObjectSound
<1>2. type_meta[ty] = [size |-> type_size[ty], offsets |-> members[ty]]
  BY <1>1 DEF IInv, MetaInv, Exact
<1>3. box[c].count = n /\ box[c].type_meta.size = type_size[ty]
      /\ box[c].type_meta.offsets = members[ty]
  BY <1>1, <1>2
<1>4. Members(c) = {<<c, i * type_size[ty] + w>> : i \in 0..n-1, w \in members[ty]}
  BY <1>1 DEF Members
<1>5. Trace(c) = {ptr[<<c, i * type_size[ty] + w>>] : i \in 0..n-1, w \in members[ty]} \ {Null}
  BY <1>3 DEF Trace
<1> HIDE DEF ty, n
<1>6. ASSUME NEW o \in Targets(c), o # Null PROVE o \in Trace(c)
  <2>1. PICK h \in Members(c) : o = ptr[h]
    BY <1>6 DEF Targets
  <2>2. PICK i \in 0..n-1 : \E w \in members[ty] : h = <<c, i * type_size[ty] + w>>
    BY <1>4, <2>1
  <2> QED BY <1>5, <1>6, <2>1, <2>2
<1>7. ASSUME NEW o \in Trace(c) PROVE o \in Targets(c) /\ o # Null
  <2>1. PICK i \in 0..n-1 : \E w \in members[ty] : o = ptr[<<c, i * type_size[ty] + w>>]
    BY <1>5, <1>7
  <2>2. PICK w \in members[ty] : o = ptr[<<c, i * type_size[ty] + w>>]
    BY <2>1
  <2>3. <<c, i * type_size[ty] + w>> \in Members(c)
    BY <1>4
  <2> QED BY <1>5, <1>7, <2>2, <2>3 DEF Targets
<1> QED BY <1>6, <1>7

\* What can be reached is traced: from the roots, from the words of what is
\* under construction, and along the members of objects.
LEMMA ReachTraced == ASSUME IInv PROVE Reachable \subseteq Traced
<1> DEFINE C == Traced \cap m_init_bits
<1>1. C \in SUBSET Cells
  BY TracedClosed
<1>2. ASSUME NEW h \in GcPtrs, ptr[h] \in Cells PROVE ptr[h] \in C
  <2>1. ptr[h] \in m_init_bits /\ ptr[h] # Null
    BY <1>2, CellsAssumption DEF IInv, PointerInv, Held
  <2>2. CASE h \in handles
    BY <1>2, <2>1, <2>2, TracedClosed DEF IInv, PointerInv, Roots
  <2>3. CASE h \notin handles
    <3>1. PICK e \in Entered : h \in MembersSoFar(e)
      BY <2>3 DEF GcPtrs
    <3>2. PICK w \in 0..e.done-1 : h = <<e.cell, w>>
      BY <3>1 DEF MembersSoFar
    <3>3. e \in Entries /\ EntryInv(e) /\ e.done \in Nat
      BY EnteredStacks, EntryFields
    <3>4. w \in 0..Size(e) * e.count - 1
      <4>1. e.done <= Size(e) * e.count /\ Size(e) * e.count \in Nat
        BY <3>3, KindWords DEF EntryInv, Size
      <4> QED BY <3>2, <3>3, <4>1
    <3>5. ptr[h] \in UninitWords
      BY <3>2, <3>4 DEF UninitWords
    <3> QED BY <1>2, <2>1, <3>5, TracedClosed DEF Roots
  <2> QED BY <2>2, <2>3
<1>3. Start \cap Cells \subseteq C
  BY <1>2 DEF Start
<1>4. ASSUME NEW c \in C, NEW o \in Targets(c) \cap Cells PROVE o \in C
  <2>1. o # Null
    BY CellsAssumption
  <2>2. o \in Traced
    BY <2>1, TraceExact, TracedClosed
  <2>3. o \in m_init_bits
    BY <1>4, <2>1 DEF Targets, IInv, PointerInv, Held
  <2> QED BY <2>2, <2>3
<1> HIDE DEF C
<1>5. Reachable \subseteq C
  BY <1>1, <1>3, <1>4, ReachLeast
<1> QED BY <1>5 DEF C

LEMMA SweepStep == ASSUME IInv, Collect, LooksUpCells PROVE IInv' /\ StoreStep
<1>1. /\ m_init_bits' = m_init_bits \cap Marked /\ free' = Cells \ Marked
      /\ UNCHANGED <<type_meta, request, news, handles, m_stack_roots, m_static_roots, crashed>>
  <2>1. m_init_bits \subseteq Cells
    BY DEF IInv, TypeOK
  <2>2. \A c \in Cells : LifetimeTag(c) = "LIVE" <=> c \in Marked /\ c \in m_init_bits
    BY DEF LifetimeTag
  <2>3. \A c \in Cells : LifetimeTag(c) \in {"GARBAGE", "FREE"} <=> c \notin Marked
    BY DEF LifetimeTag
  <2>4. m_init_bits' = m_init_bits \cap Marked
    BY <2>1, <2>2 DEF Collect, Sweep
  <2>5. free' = Cells \ Marked
    BY <2>3 DEF Collect, Sweep
  <2> QED BY <2>4, <2>5 DEF Collect, Sweep, roots
<1>2. /\ box' = [c \in Cells |-> IF c \in free' THEN Cleared ELSE box[c]]
      /\ object' = [c \in Cells |-> IF c \in free' THEN None ELSE object[c]]
      /\ ptr' = [h \in Handles |-> IF h \in free' \X Words THEN Null ELSE ptr[h]]
  BY DEF Collect, Sweep, Forget
<1>3. Marked = Building \cup Traced
  BY DEF Marked, Traced
<1>4. Entered' = Entered /\ Building' = Building /\ OwnCells'
  BY <1>1, SameStacks DEF IInv, StackInv
<1>5. \A e \in Entered : e \in Entries /\ EntryInv(e) /\ e.cell \in Cells /\ e.cell \notin free'
  BY <1>1, <1>3, EnteredStacks, EntryFields DEF Building
<1>6. m_init_bits' \subseteq m_init_bits /\ m_init_bits' \cap free' = {}
      /\ m_init_bits' \subseteq Traced /\ m_init_bits' \subseteq Cells
  <2>1. m_init_bits \cap Building = {}
    BY <1>5 DEF Building, EntryInv
  <2> QED BY <1>1, <1>3, <2>1, TracedClosed
<1>7. Reachable \subseteq m_init_bits'
  BY <1>1, <1>3, ReachObjects, ReachTraced
<1>8. \A c \in Cells \ free' : object'[c] = object[c] /\ box'[c] = box[c] /\ Members(c)' = Members(c)
  BY <1>2, MembersKept
<1>9. TypeOK'
  <2>1. Cleared \in [count : Counts \cup {0}, type_meta : Metas \cup {None}]
    BY DEF Cleared
  <2>2. box' \in [Cells -> [count : Counts \cup {0}, type_meta : Metas \cup {None}]]
    BY <1>2, <2>1 DEF IInv, TypeOK
  <2>3. object' \in [Cells -> [type : Types, count : Counts] \cup {None}]
    BY <1>2 DEF IInv, TypeOK
  <2>4. ptr' \in [Handles -> Cells \cup {Null, Data}]
    BY <1>2 DEF IInv, TypeOK
  <2>5. free' \subseteq Cells
    BY <1>1
  <2> QED BY <1>1, <1>6, <2>2, <2>3, <2>4, <2>5 DEF IInv, TypeOK
<1>10. MetaInv' /\ RequestInv'
  BY <1>1 DEF IInv, MetaInv, RequestInv
<1>11. StackInv'
  <2>1. \A e \in Entered : EntryInv(e)'
    BY <1>1, <1>5, <1>6, <1>8, EntryKept DEF EntryInv
  <2> QED BY <1>4, <2>1 DEF StackInv
<1>12. ObjectInv'
  <2>1. \A c \in m_init_bits' : ObjectSound(c)'
    BY <1>1, <1>6, <1>8, ObjectKept DEF IInv, ObjectInv
  <2> QED BY <1>6, <2>1 DEF ObjectInv
<1>13. GcPtrs' = GcPtrs
  BY <1>1, <1>4 DEF GcPtrs, MembersSoFar, Size
<1>14. Held' = GcPtrs \cup UNION {Members(c) : c \in m_init_bits'}
  <2>1. \A c \in m_init_bits' : Members(c)' = Members(c)
    BY <1>6, <1>8
  <2> QED BY <1>13, <2>1 DEF Held
<1>15. \A h \in Held' : h \in Held /\ ptr'[h] = ptr[h]
  <2>1. ASSUME NEW h \in handles PROVE h \in Handles /\ h \notin free' \X Words
    <3>1. h \in Slots
      BY DEF IInv, TypeOK
    <3> QED BY <1>1, <3>1, SlotsApart
  <2>2. ASSUME NEW e \in Entered, NEW h \in MembersSoFar(e) PROVE h \notin free' \X Words
    BY <1>5 DEF MembersSoFar
  <2>3. ASSUME NEW c \in m_init_bits', NEW h \in Members(c) PROVE h \notin free' \X Words
    <3>1. c \in Cells /\ object[c] # None /\ <<object[c].type, object[c].count>> \in Kinds
      BY <1>6 DEF IInv, ObjectInv, ObjectSound
    <3>2. h \in {c} \X Words
      BY <3>1, MemberPlaces
    <3> QED BY <1>6, <3>2
  <2>4. ASSUME NEW h \in Held' PROVE h \in Held /\ h \notin free' \X Words
    <3>1. h \in Held
      BY <1>6, <1>14 DEF Held
    <3>2. h \notin free' \X Words
      BY <1>14, <2>1, <2>2, <2>3 DEF GcPtrs
    <3> QED BY <3>1, <3>2
  <2> QED BY <1>2, <2>4, HeldPlaces
<1>16. PointerInv'
  <2>1. ASSUME NEW h \in Held', ptr[h] # Null PROVE ptr[h] \in m_init_bits'
    <3>1. ptr[h] \in m_init_bits /\ ptr[h] \in Cells
      BY <1>15, <2>1 DEF IInv, PointerInv, TypeOK
    <3>2. CASE h \in GcPtrs
      BY <1>7, <3>1, <3>2, ReachClosed DEF Start
    <3>3. CASE h \notin GcPtrs
      <4>1. PICK c \in m_init_bits' : h \in Members(c)
        BY <1>14, <3>3
      <4>2. ptr[h] \in Trace(c)
        BY <1>6, <2>1, <4>1, TraceExact DEF Targets
      <4>3. ptr[h] \in Traced
        BY <1>6, <3>1, <4>2, TracedClosed
      <4> QED BY <1>1, <1>3, <3>1, <4>3
    <3> QED BY <3>2, <3>3
  <2>2. \A h \in Held' : ptr'[h] \in m_init_bits' \cup {Null}
    BY <1>15, <2>1
  <2> QED BY <1>1, <2>2 DEF IInv, PointerInv
<1>17. Reachable' = Reachable
  <2>1. ASSUME NEW c \in Reachable
        PROVE  object'[c] = object[c] /\ Targets(c) \subseteq Targets(c)'
    <3>1. c \in m_init_bits' /\ c \in Cells \ free'
      BY <1>6, <1>7
    <3>2. object'[c] = object[c] /\ Members(c)' = Members(c)
      BY <1>8, <3>1
    <3>3. \A h \in Members(c) : ptr'[h] = ptr[h]
      BY <1>14, <1>15, <3>1
    <3> QED BY <3>2, <3>3 DEF Targets
  <2>2. \A h \in Held : ptr'[h] = ptr[h] \/ ptr'[h] = Null
    BY <1>2, HeldPlaces
  <2>3. Reachable' \subseteq Reachable
    BY <1>13, <2>1, <2>2, ReachShrinks
  <2>4. Start' = Start
    BY <1>13, <1>14, <1>15 DEF Start
  <2>5. Reachable \subseteq Reachable'
    BY <2>1, <2>4, ReachClosedNext, ReachKept
  <2> QED BY <2>3, <2>5
<1>18. StoreStep
  <2> DEFINE S == m_init_bits \ m_init_bits'
  <2>1. S \in SUBSET m_init_bits /\ S \cap Reachable = {} /\ m_init_bits' = m_init_bits \ S
    BY <1>6, <1>7
  <2> HIDE DEF S
  <2>2. Store!Destroy(S)
    BY <1>4, <1>17, <2>1 DEF Store!Destroy
  <2> QED BY <2>1, <2>2 DEF StoreStep, Store!Next
<1> QED BY <1>4, <1>9, <1>10, <1>11, <1>12, <1>16, <1>18 DEF IInv

\* A step after which nothing that the invariant speaks of has changed.
LEMMA NoStep ==
    ASSUME IInv, UNCHANGED <<type_meta, request, news, alloc, ptr, roots, m_init_bits>>,
           crashed' \in BOOLEAN
    PROVE  IInv' /\ StoreStep
<1>1. UNCHANGED <<box, object, free, handles, m_stack_roots, m_static_roots>>
  BY DEF alloc, roots
<1>2. TypeOK'
  BY <1>1 DEF IInv, TypeOK
<1>3. MetaInv' /\ RequestInv'
  BY DEF IInv, MetaInv, RequestInv
<1>4. Entered' = Entered /\ Building' = Building /\ OwnCells'
  BY SameStacks DEF IInv, StackInv
<1>5. StackInv' /\ ObjectInv'
  <2>1. \A e \in Entered : EntryInv(e)'
    BY <1>1, EntryKept DEF IInv, StackInv, EntryInv
  <2>2. ObjectInv'
    BY <1>1, ObjectKept DEF IInv, ObjectInv
  <2> QED BY <1>4, <2>1, <2>2 DEF StackInv
<1>6. GcPtrs' = GcPtrs /\ Held' = Held
  <2>1. \A c : Members(c)' = Members(c)
    BY <1>1 DEF Members
  <2>2. GcPtrs' = GcPtrs
    BY <1>1, <1>4 DEF GcPtrs, MembersSoFar, Size
  <2> QED BY <2>1, <2>2 DEF Held
<1>7. PointerInv'
  BY <1>1, <1>6 DEF IInv, PointerInv
<1>8. Reachable' \subseteq Reachable
  BY <1>1, <1>6, ReachShrinks
<1> QED BY <1>2, <1>3, <1>4, <1>5, <1>7, <1>8, Loses DEF IInv

-----------------------------------------------------------------------------
(* Commit                                                                  *)

\* When all is constructed, the members so far are the members.
LEMMA AllMembers ==
    ASSUME NEW e \in Entries, EntryInv(e), e.done = Size(e) * e.count
    PROVE  Members(e.cell) = MembersSoFar(e)
<1> DEFINE size == Size(e)
           n == e.count
           ms == members[e.type]
<1>1. size \in Nat \ {0} /\ n \in Nat \ {0} /\ ms \subseteq 0..size-1
  BY KindWords DEF EntryInv, Size
<1>2. object[e.cell] # None /\ object[e.cell] = [type |-> e.type, count |-> n]
  <2>1. [type |-> e.type, count |-> n] \in [type : Types, count : Counts]
    BY EntryFields
  <2> QED BY <2>1, NoneAssumption DEF EntryInv
<1>3. object[e.cell].type = e.type /\ object[e.cell].count = n
  BY <1>2
<1>4. Members(e.cell) = {<<e.cell, i * size + w>> : i \in 0..n-1, w \in ms}
  BY <1>2, <1>3 DEF Members, Size
<1>5. MembersSoFar(e) = {<<e.cell, w>> : w \in {v \in 0..size * n - 1 : v % size \in ms}}
  BY DEF MembersSoFar
<1> HIDE DEF size, n, ms
<1>6. ASSUME NEW h \in Members(e.cell) PROVE h \in MembersSoFar(e)
  <2>1. PICK i \in 0..n-1 : \E w \in ms : h = <<e.cell, i * size + w>>
    BY <1>4, <1>6
  <2>2. PICK w \in ms : h = <<e.cell, i * size + w>>
    BY <2>1
  <2>3. n \in Nat /\ w \in 0..size-1
    BY <1>1
  <2>4. i * size + w \in 0..size * n - 1 /\ (i * size + w) % size = w
    BY <1>1, <2>3, WordOfElement
  <2> QED BY <1>5, <2>2, <2>4
<1>7. ASSUME NEW h \in MembersSoFar(e) PROVE h \in Members(e.cell)
  <2>1. PICK v \in 0..size * n - 1 : v % size \in ms /\ h = <<e.cell, v>>
    BY <1>5, <1>7
  <2>2. n \in Nat
    BY <1>1
  <2>3. v \div size \in 0..n-1 /\ v = (v \div size) * size + (v % size)
    BY <1>1, <2>2, ElementOfWord
  <2>4. PICK i \in 0..n-1 : v = i * size + (v % size)
    BY <2>3
  <2> QED BY <1>4, <2>1, <2>4
<1> QED BY <1>6, <1>7

\* The object of e is committed and a gc_ptr h, that was none before, points to
\* it; the stack may have changed in the entry around e.
LEMMA CommitStep ==
    ASSUME IInv, NEW e \in Entered, e.done = Size(e) * e.count, ~BeforeCreate(e),
           NEW h \in Handles, h \notin Held,
           box' = [box EXCEPT ![e.cell].type_meta = e.type_meta],
           m_init_bits' = m_init_bits \cup {e.cell},
           ptr' = [ptr EXCEPT ![h] = e.cell],
           UNCHANGED <<type_meta, request, object, free, crashed>>,
           handles' \subseteq Slots, m_stack_roots' \subseteq Threads, m_static_roots' \subseteq Statics,
           handles' = m_stack_roots' \cup m_static_roots',
           news' \in Stacks, Own(news'), \A u \in Threads : Len(news'[u]) <= Len(news[u]),
           \A d \in Entered' : EntryInv(d) /\ d.cell # e.cell,
           Building' = Building \ {e.cell},
           h \in GcPtrs', GcPtrs' \cup MembersSoFar(e) = GcPtrs \cup {h}
    PROVE  IInv' /\ StoreStep
<1>1. e \in Entries /\ EntryInv(e) /\ e.cell \in Cells
  BY EnteredStacks, EntryFields
<1>2. Members(e.cell) = MembersSoFar(e) /\ MembersSoFar(e) \subseteq GcPtrs
  BY <1>1, AllMembers DEF GcPtrs
<1>3. \A c : Members(c)' = Members(c)
  BY DEF Members
<1>4. /\ object[e.cell] = [type |-> e.type, count |-> e.count] /\ object[e.cell] # None
      /\ <<e.type, e.count>> \in Kinds /\ e.type_meta = type_meta[e.type]
      /\ e.type_meta # None /\ box[e.cell].count = e.count /\ e.type_meta \in Metas \cup {None}
  <2>1. [type |-> e.type, count |-> e.count] \in [type : Types, count : Counts]
    BY <1>1, EntryFields
  <2> QED BY <1>1, <2>1, EntryFields, NoneAssumption DEF EntryInv, BeforeCreate
<1>5. /\ box'[e.cell] = [count |-> e.count, type_meta |-> e.type_meta]
      /\ \A c \in Cells \ {e.cell} : box'[c] = box[c]
      /\ box' \in [Cells -> [count : Counts \cup {0}, type_meta : Metas \cup {None}]]
  BY <1>1, <1>4 DEF IInv, TypeOK
<1>6. /\ ptr'[h] = e.cell /\ \A g \in Held : ptr'[g] = ptr[g]
      /\ ptr' \in [Handles -> Cells \cup {Null, Data}]
  BY <1>1, HeldPlaces DEF IInv, TypeOK
<1>7. TypeOK'
  <2>1. \A u \in Threads : Len(news'[u]) <= MaxNest
    <3>1. ASSUME NEW u \in Threads PROVE Len(news'[u]) <= MaxNest
      <4>1. Len(news'[u]) \in Nat /\ Len(news[u]) \in 0..MaxNest
        BY EnteredStacks DEF Stacks
      <4> QED BY <4>1, MaxNestAssumption
    <3> QED BY <3>1
  <2>2. news' \in [Threads -> Seq(Entries)]
    BY DEF Stacks
  <2> QED BY <1>1, <1>5, <1>6, <2>1, <2>2 DEF IInv, TypeOK
<1>8. MetaInv' /\ RequestInv'
  <2>1. ASSUME NEW u \in Threads, request[u] # None PROVE Len(news'[u]) < MaxNest
    <3>1. Len(news'[u]) \in Nat
      BY DEF Stacks
    <3>2. Len(news[u]) \in 0..MaxNest
      BY EnteredStacks
    <3>3. Len(news[u]) < MaxNest
      BY <2>1 DEF IInv, RequestInv
    <3> QED BY <3>1, <3>2, <3>3, MaxNestAssumption
  <2> QED BY <2>1 DEF IInv, MetaInv, RequestInv
<1>9. StackInv'
  <2>1. ASSUME NEW d \in Entered' PROVE EntryInv(d)'
    <3>1. EntryInv(d) /\ d.cell # e.cell
      OBVIOUS
    <3>2. d.cell \in Cells
      <4>1. PICK u \in Threads : \E i \in 1..Len(news'[u]) : d = news'[u][i]
        <5> DEFINE ns == news'
        <5>1. ns \in Stacks /\ d \in AllOf(ns)
          BY DEF Entered, AllOf
        <5> HIDE DEF ns
        <5>2. \E u \in Threads : \E i \in 1..Len(ns[u]) : d = ns[u][i]
          BY <5>1, AllOfStacks
        <5> QED BY <5>2 DEF ns
      <4>2. news'[u] \in Seq(Entries)
        BY DEF Stacks
      <4> QED BY <4>1, <4>2, EntryFields
    <3>3. d.cell \notin free' \cup m_init_bits'
      BY <3>1 DEF EntryInv
    <3> QED BY <1>5, <3>1, <3>2, <3>3, EntryKept
  <2>2. OwnCells'
    BY DEF Own, OwnCells
  <2> QED BY <2>1, <2>2 DEF StackInv
<1>10. ObjectInv'
  <2>1. ASSUME NEW c \in m_init_bits PROVE ObjectSound(c)'
    <3>1. c # e.cell /\ c \in Cells /\ ObjectSound(c)
      BY <1>1 DEF EntryInv, IInv, TypeOK, ObjectInv
    <3> QED BY <1>5, <3>1, ObjectKept
  <2>2. ObjectSound(e.cell)'
    BY <1>4, <1>5 DEF ObjectSound
  <2>3. m_init_bits' \cap free' = {}
    BY <1>1 DEF IInv, ObjectInv, EntryInv
  <2> QED BY <2>1, <2>2, <2>3 DEF ObjectInv
<1>11. Held' = Held \cup {h}
  <2>1. Held' = GcPtrs' \cup Members(e.cell) \cup UNION {Members(c) : c \in m_init_bits}
    BY <1>3 DEF Held
  <2> QED BY <1>2, <2>1 DEF Held
<1>12. PointerInv'
  BY <1>6, <1>11 DEF IInv, PointerInv
<1>13. Reachable' = Reachable \cup {e.cell}
  <2>1. \A g \in GcPtrs : ptr'[g] = ptr[g]
    BY <1>6 DEF Held
  <2>2. ASSUME NEW c \in Reachable PROVE Targets(c)' = Targets(c)
    <3>1. \A g \in Members(c) : ptr'[g] = ptr[g]
      BY <1>6, ReachObjects DEF Held
    <3> QED BY <1>3, <3>1 DEF Targets
  <2>3. Targets(e.cell)' = {ptr[g] : g \in MembersSoFar(e)}
    BY <1>2, <1>3, <2>1 DEF Targets
  <2>4. Reachable' \subseteq Reachable \cup {e.cell}
    <3> DEFINE C == Reachable \cup {e.cell}
    <3>1. C \in SUBSET Cells
      BY <1>1, ReachClosed
    <3>2. Start' \cap Cells \subseteq C
      <4>1. ASSUME NEW g \in GcPtrs', ptr'[g] \in Cells PROVE ptr'[g] \in C
        <5>1. CASE g = h
          BY <1>6, <5>1
        <5>2. CASE g # h
          <6>1. g \in GcPtrs
            BY <5>2
          <6> QED BY <2>1, <4>1, <6>1, ReachClosed DEF Start
        <5> QED BY <5>1, <5>2
      <4> QED BY <4>1 DEF Start
    <3>3. \A c \in C : Targets(c)' \cap Cells \subseteq C
      <4>1. Targets(e.cell)' \cap Cells \subseteq Reachable
        BY <1>2, <2>3, ReachClosed DEF Start
      <4> QED BY <2>2, <4>1, ReachClosed
    <3> HIDE DEF C
    <3>4. Reachable' \subseteq C
      BY <3>1, <3>2, <3>3, ReachLeastNext
    <3> QED BY <3>4 DEF C
  <2>5. e.cell \in Reachable'
    <3>1. e.cell \in Start' \cap Cells
      BY <1>1, <1>6 DEF Start
    <3> QED BY <3>1, ReachClosedNext
  <2>6. Start \cap Cells \subseteq Reachable'
    <3>1. ASSUME NEW g \in GcPtrs, ptr[g] \in Cells PROVE ptr[g] \in Reachable'
      <4>1. CASE g \in GcPtrs'
        <5>1. ptr[g] \in Start' \cap Cells
          BY <2>1, <3>1, <4>1 DEF Start
        <5> QED BY <5>1, ReachClosedNext
      <4>2. CASE g \notin GcPtrs'
        <5>1. g \in MembersSoFar(e)
          BY <4>2
        <5>2. ptr[g] \in Targets(e.cell)' \cap Cells
          BY <2>3, <3>1, <5>1
        <5> QED BY <2>5, <5>2, ReachClosedNext
      <4> QED BY <4>1, <4>2
    <3> QED BY <3>1 DEF Start
  <2>7. Reachable \subseteq Reachable'
    BY <2>2, <2>6, ReachKept
  <2> QED BY <2>4, <2>5, <2>7
<1>14. StoreStep
  <2>1. e.cell \in Building
    BY DEF Building
  <2> QED BY <1>1, <1>13, <2>1 DEF StoreStep, Store!Next, Store!Commit
<1> QED BY <1>7, <1>8, <1>9, <1>10, <1>12, <1>14 DEF IInv

\* The handle that gc_new returns is in a variable of the program.
LEMMA CommitToSlot ==
    ASSUME IInv, NEW t \in Threads, news[t] # <<>>, NEW e, e = news[t][1],
           e.done = Size(e) * e.count, ~BeforeCreate(e), CommitCell(e),
           NEW h \in ({t} \cup Statics) \ handles, news' = WithPopped(news, t),
           RegisterHandle(h, e.cell), UNCHANGED <<type_meta, request, object, free, crashed>>
    PROVE  IInv' /\ StoreStep
<1>1. e \in Entered /\ e \in Entries /\ EntryInv(e) /\ e.cell \in Cells
  BY Innermost, EntryFields
<1>2. h \in Slots /\ h \in Handles /\ h \notin Cells \X Words
  <2>1. h \in Slots
    BY DEF Slots
  <2> QED BY <2>1, SlotsApart
<1>3. h \notin Held
  <2>1. \A d \in Entered : h \notin MembersSoFar(d)
    BY <1>2, EnteredStacks, SoFarPlaces
  <2>2. ASSUME NEW c \in m_init_bits PROVE h \notin Members(c)
    <3>1. c \in Cells /\ object[c] # None /\ <<object[c].type, object[c].count>> \in Kinds
      BY DEF IInv, TypeOK, ObjectInv, ObjectSound
    <3> QED BY <1>2, <3>1, MemberPlaces
  <2> QED BY <2>1, <2>2 DEF Held, GcPtrs
<1>4. /\ ptr' = [ptr EXCEPT ![h] = e.cell] /\ handles' = handles \cup {h}
      /\ m_stack_roots' = IF h \in Threads THEN m_stack_roots \cup {h} ELSE m_stack_roots
      /\ m_static_roots' = IF h \in Statics THEN m_static_roots \cup {h} ELSE m_static_roots
  BY <1>2, ThreadsAssumption
  DEF RegisterHandle, RegisterStackRoot, RegisterStaticRoot, Descriptor, Slots
<1>5. /\ handles' \subseteq Slots /\ m_stack_roots' \subseteq Threads
      /\ m_static_roots' \subseteq Statics /\ handles' = m_stack_roots' \cup m_static_roots'
  BY <1>2, <1>4 DEF IInv, TypeOK, PointerInv, Slots
<1>6. /\ news' \in Stacks /\ Own(news') /\ AllOf(news') = Entered \ {e}
      /\ Len(news'[t]) <= Len(news[t]) /\ \A u \in Threads \ {t} : news'[u] = news[u]
  <2>1. news \in Stacks /\ Own(news) /\ AllOf(news) = Entered
    BY EnteredStacks
  <2>2. e = news[t][1] /\ news[t] # <<>> /\ news' = WithPopped(news, t)
    OBVIOUS
  <2> QED BY ONLY <2>1, <2>2, t \in Threads, Pop
<1>7. Entered' = Entered \ {e}
  BY <1>6 DEF Entered, AllOf
<1>8. \A u \in Threads : Len(news'[u]) <= Len(news[u])
  <2>1. ASSUME NEW u \in Threads PROVE Len(news'[u]) <= Len(news[u])
    <3>1. Len(news[u]) \in 0..MaxNest
      BY EnteredStacks
    <3> QED BY <1>6, <3>1, MaxNestAssumption
  <2> QED BY <2>1
<1>9. \A d \in Entered \ {e} : EntryInv(d) /\ d.cell # e.cell
  BY <1>1, EnteredStacks, DistinctEntries
<1>10. Building' = Building \ {e.cell}
  BY <1>1, <1>7, <1>9 DEF Building
<1>11. GcPtrs' = handles \cup {h} \cup UNION {MembersSoFar(d) : d \in Entered \ {e}}
  BY <1>4, <1>7 DEF GcPtrs, MembersSoFar, Size
<1>12. h \in GcPtrs' /\ GcPtrs' \cup MembersSoFar(e) = GcPtrs \cup {h}
  BY <1>1, <1>11 DEF GcPtrs
<1>13. box' = [box EXCEPT ![e.cell].type_meta = e.type_meta] /\ m_init_bits' = m_init_bits \cup {e.cell}
  BY DEF CommitCell
<1> QED BY <1>1, <1>2, <1>3, <1>4, <1>5, <1>6, <1>7, <1>8, <1>9, <1>10, <1>12, <1>13, CommitStep

\* It is the next member of the object under construction around it.
LEMMA CommitToMember ==
    ASSUME IInv, NEW t \in Threads, news[t] # <<>>, NEW e, e = news[t][1],
           e.done = Size(e) * e.count, ~BeforeCreate(e), CommitCell(e),
           NEW stack, stack = Popped(news[t]), stack # <<>>, IsNext(stack[1], "member"),
           NEW h, h = Next1(stack[1]),
           news' = [news EXCEPT ![t] = Constructed(RegisterChild(stack, h))],
           RegisterHandle(h, e.cell), UNCHANGED <<type_meta, request, object, free, crashed>>
    PROVE  IInv' /\ StoreStep
<1>1. e \in Entered /\ e \in Entries /\ EntryInv(e) /\ e.cell \in Cells
  BY Innermost, EntryFields
<1>2. PICK ns : ns = WithPopped(news, t)
  OBVIOUS
<1>3. /\ ns \in Stacks /\ Own(ns) /\ AllOf(ns) = Entered \ {e}
      /\ Len(ns[t]) <= Len(news[t]) /\ \A u \in Threads \ {t} : ns[u] = news[u]
  <2>1. news \in Stacks /\ Own(news) /\ AllOf(news) = Entered
    BY EnteredStacks
  <2>2. e = news[t][1] /\ news[t] # <<>>
    OBVIOUS
  <2> QED BY ONLY <1>2, <2>1, <2>2, t \in Threads, Pop
<1>4. ns[t] = stack /\ stack \in Seq(Entries) /\ 1 \in 1..Len(stack)
  <2>1. ns[t] = stack
    BY <1>2, EnteredStacks DEF WithPopped, Stacks
  <2>2. stack \in Seq(Entries)
    BY <1>3, <2>1 DEF Stacks
  <2> QED BY <2>1, <2>2, EmptySeq
<1>5. PICK d : d = stack[1]
  OBVIOUS
<1>6. PICK f : f = WordNext(d, "member")
  OBVIOUS
<1>7. d \in Entered \ {e} /\ d \in Entries /\ EntryInv(d)
  <2>1. d \in AllOf(ns)
    BY <1>3, <1>4, <1>5, AllOfStacks
  <2> QED BY <1>3, <2>1, EnteredStacks
<1>8. /\ f \in Entries /\ EntryInv(f) /\ f.cell = d.cell /\ d.cell \in Cells /\ d.done \in Words
      /\ MembersSoFar(f) = MembersSoFar(d) \cup {h}
  BY <1>5, <1>6, <1>7, EntryNext, WordNextFields
<1>9. Constructed(RegisterChild(stack, h)) = [stack EXCEPT ![1] = f]
  BY <1>4, <1>5, <1>6, <1>8, HeadNext
<1>10. news' = WithHead(ns, t, f)
  <2>1. news' = [news EXCEPT ![t] = [stack EXCEPT ![1] = f]]
    BY <1>9
  <2>2. WithHead(ns, t, f) = [news EXCEPT ![t] = [stack EXCEPT ![1] = f]]
    <3>1. ns = [news EXCEPT ![t] = stack] /\ news \in [Threads -> Seq(Entries)]
      BY <1>2, EnteredStacks DEF WithPopped, Stacks
    <3> QED BY <3>1 DEF WithHead
  <2> QED BY <2>1, <2>2
<1>11. /\ news' \in Stacks /\ Own(news') /\ AllOf(news') = (Entered \ {e, d}) \cup {f}
       /\ Len(news'[t]) = Len(ns[t]) /\ \A u \in Threads \ {t} : news'[u] = ns[u]
  <2>1. ns[t] # <<>> /\ f.cell = ns[t][1].cell /\ d = ns[t][1]
    BY <1>4, <1>5, <1>8
  <2>2. /\ WithHead(ns, t, f) \in Stacks /\ Own(WithHead(ns, t, f))
        /\ AllOf(WithHead(ns, t, f)) = (AllOf(ns) \ {d}) \cup {f}
        /\ Len(WithHead(ns, t, f)[t]) = Len(ns[t])
        /\ \A u \in Threads \ {t} : WithHead(ns, t, f)[u] = ns[u]
    BY ONLY <1>3, <1>8, <2>1, t \in Threads, ChangeHead
  <2>3. (AllOf(ns) \ {d}) \cup {f} = (Entered \ {e, d}) \cup {f}
    BY <1>3
  <2> QED BY <1>10, <2>2, <2>3
<1>12. Entered' = (Entered \ {e, d}) \cup {f}
  BY <1>11 DEF Entered, AllOf
<1>13. \A u \in Threads : Len(news'[u]) <= Len(news[u])
  <2>1. ASSUME NEW u \in Threads PROVE Len(news'[u]) <= Len(news[u])
    <3>1. Len(news[u]) \in 0..MaxNest
      BY EnteredStacks
    <3> QED BY <1>3, <1>11, <3>1, MaxNestAssumption
  <2> QED BY <2>1
<1>14. \A g \in Entered \ {e} : EntryInv(g) /\ g.cell # e.cell
  BY <1>1, EnteredStacks, DistinctEntries
<1>15. \A g \in Entered' : EntryInv(g) /\ g.cell # e.cell
  BY <1>7, <1>8, <1>12, <1>14
<1>16. Building' = Building \ {e.cell}
  BY <1>1, <1>7, <1>8, <1>12, <1>14 DEF Building
<1>17. h \in Handles /\ h \notin Held /\ h \notin Slots /\ Descriptor(h) = "gc_heap"
  BY <1>5, <1>7, <1>8, HeapPlace, NextNotHeld DEF Next1
<1>18. ptr' = [ptr EXCEPT ![h] = e.cell] /\ UNCHANGED <<handles, m_stack_roots, m_static_roots>>
  BY <1>17 DEF RegisterHandle, RegisterStackRoot, RegisterStaticRoot
<1>19. /\ handles' \subseteq Slots /\ m_stack_roots' \subseteq Threads
       /\ m_static_roots' \subseteq Statics /\ handles' = m_stack_roots' \cup m_static_roots'
  BY <1>18 DEF IInv, TypeOK, PointerInv
<1>20. GcPtrs' = handles \cup UNION {MembersSoFar(g) : g \in (Entered \ {e, d}) \cup {f}}
  BY <1>12, <1>18 DEF GcPtrs, MembersSoFar, Size
<1>21. h \in GcPtrs' /\ GcPtrs' \cup MembersSoFar(e) = GcPtrs \cup {h}
  <2>1. (UNION {MembersSoFar(g) : g \in (Entered \ {e, d}) \cup {f}}) \cup MembersSoFar(e)
        = (UNION {MembersSoFar(g) : g \in Entered}) \cup {h}
    BY <1>1, <1>7, <1>8
  <2> QED BY <1>8, <1>20, <2>1 DEF GcPtrs
<1>22. box' = [box EXCEPT ![e.cell].type_meta = e.type_meta] /\ m_init_bits' = m_init_bits \cup {e.cell}
  BY DEF CommitCell
<1> QED BY <1>1, <1>11, <1>13, <1>15, <1>16, <1>17, <1>18, <1>19, <1>21, <1>22, CommitStep

\* gc_new returns: the cell of the object becomes an object that can be reached.
LEMMA CommitObject ==
    ASSUME IInv, NEW t \in Threads, NEW h \in Handles, Commit(t, h) PROVE IInv' /\ StoreStep
<1>1. PICK e : e = news[t][1]
  OBVIOUS
<1>2. PICK stack : stack = Popped(news[t])
  OBVIOUS
<1>3. /\ news[t] # <<>> /\ e.done = Size(e) * e.count /\ ~BeforeCreate(e) /\ CommitCell(e)
      /\ Return(t, stack, h) /\ RegisterHandle(h, e.cell)
      /\ UNCHANGED <<type_meta, request, object, free, crashed>>
  BY <1>1, <1>2 DEF Commit, InConstructor
<1>4. CASE h \in ({t} \cup Statics) \ handles /\ news' = [news EXCEPT ![t] = stack]
  <2>1. news' = WithPopped(news, t)
    BY <1>2, <1>4 DEF WithPopped
  <2> QED BY <1>1, <1>3, <1>4, <2>1, CommitToSlot
<1>5. CASE /\ stack # <<>> /\ IsNext(stack[1], "member") /\ h = Next1(stack[1])
           /\ news' = [news EXCEPT ![t] = Constructed(RegisterChild(stack, h))]
  BY <1>1, <1>2, <1>3, <1>5, CommitToMember
<1> QED BY <1>3, <1>4, <1>5 DEF Return

-----------------------------------------------------------------------------
(* Theorems                                                                *)

LEMMA NextIInv == ASSUME IInv, [Next]_vars PROVE IInv' /\ StoreStep
<1>1. ASSUME NEW t \in Threads, Thread(t) PROVE IInv' /\ StoreStep
  <2>1. CASE \E h \in Slots : NewHandle(t, h)
    BY <2>1, NewHandleStep
  <2>2. CASE \E h \in Named(t) \cup NamedMembers(t), p \in Values(t) : Assign(t, h, p)
    BY <2>2, AssignStep
  <2>3. CASE \E h \in Named(t) : DestroyHandle(t, h)
    BY <2>3, DestroyHandleStep
  <2>4. CASE \E k \in Kinds : GcNew(t, k[1], k[2])
    BY <2>4, GcNewStep
  <2>5. CASE \E c \in Cells : Allocate(t, c)
    BY <2>5, AllocateStep
  <2>6. CASE BadAlloc(t)
    BY <2>6, BadAllocStep
  <2>7. CASE \E d \in {Data} \cup (Values(t) \cap Cells) : ConstructData(t, d)
    BY <2>7, ConstructDataStep
  <2>8. CASE \E p \in Values(t) : ConstructMember(t, p)
    BY <2>8, ConstructMemberStep
  <2>9. CASE Create(t)
    BY <2>9, CreateStep
  <2>10. CASE Abort(t)
    BY <2>10, AbortStep
  <2>11. CASE \E h \in Handles : Commit(t, h)
    BY <2>11, CommitObject
  <2> QED BY <1>1, <2>1, <2>2, <2>3, <2>4, <2>5, <2>6, <2>7, <2>8, <2>9, <2>10, <2>11 DEF Thread
<1>2. CASE Collect
  <2>1. CASE ~LooksUpCells
    BY <1>2, <2>1, NoStep DEF Collect, Crash
  <2> QED BY <1>2, <2>1, SweepStep
<1>3. CASE UNCHANGED vars
  <2>1. UNCHANGED <<type_meta, request, news, alloc, ptr, roots, m_init_bits, crashed>>
    BY <1>3 DEF vars
  <2> QED BY <2>1, NoStep DEF IInv, TypeOK
<1> QED BY <1>1, <1>2, <1>3 DEF Next

\* The first construction of a type records where its members are, neither
\* more nor less, whoever wins the race to publish it, whatever the constructor
\* calls and whether it makes an array; and every object is traced with it.
THEOREM MetaIsExact == Spec => []MetaExact
<1>1. IInv => MetaExact
  BY DEF IInv, MetaInv, ObjectInv, ObjectSound, MetaExact, Exact
<1>2. IInv /\ [Next]_vars => IInv'
  BY NextIInv
<1> QED BY <1>1, <1>2, InitIInv, PTL DEF Spec

\* A cell is given to one object at a time, it holds an object when its
\* construction was committed, and a collection that does not end the program
\* destroys no object that can be reached from variables or from the members
\* constructed so far.  Inside a constructor it ends the program when an object
\* under construction has a word that is not the address of a cell, a member
\* not constructed yet for one: nothing is claimed of a collection then.
THEOREM CellsConstructedOnce == Spec => ConstructsCellsOnce
<1>1. IInv /\ [Next]_vars => IInv' /\ [Store!Next]_(Store!vars)
  BY NextIInv DEF StoreStep
<1> QED BY <1>1, InitIInv, PTL DEF Spec, ConstructsCellsOnce, Store!Spec

=============================================================================
