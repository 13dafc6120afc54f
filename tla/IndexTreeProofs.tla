-------------------------- MODULE IndexTreeProofs --------------------------
(***************************************************************************)
(* Proofs about IndexTree for every number of levels and threads and every *)
(* finite set of pages.  A page counts in the tables above it from the     *)
(* step that adds it to a count to the step that takes it out, and it      *)
(* holds the tables it went into.  The counts therefore tell when a table  *)
(* is empty, but not that nobody is on the way into it: DoomInv says who   *)
(* can be.                                                                 *)
(***************************************************************************)
EXTENDS IndexTree, FiniteSetTheorems, TLAPS

\* The thread is in index or deindex.
Working(t) == pc[t] \in Adding \cup Removing

\* The levels up to which the counts above a page count the thread's page.
CountedTo(t) ==
    CASE pc[t] \in {"descend", "erase"} -> LEVEL_CNT
      [] pc[t] \in {"load", "publish", "uncount"} -> Depth(t)
      [] OTHER -> Depth(t) - 1

\* The levels up to which the tables of the thread's page cannot go.
HeldTo(t) ==
    CASE pc[t] \in {"descend", "erase"} -> LEVEL_CNT
      [] pc[t] = "uncount" -> Depth(t)
      [] OTHER -> Depth(t) - 1

\* The pages that the counts of the tables d levels down count, and those that
\* keep these tables in the tree.
Counted(d) ==
    {q \in Pages : \/ mem[q] = "in"
                   \/ \E t \in Threads : Working(t) /\ page[t] = q /\ d <= CountedTo(t)}
HeldAt(d) ==
    {q \in Pages : \/ mem[q] = "in"
                   \/ \E t \in Threads : Working(t) /\ page[t] = q /\ d <= HeldTo(t)}

\* The pages that share the first d indices of p.
Sub(p, d) == {q \in Pages : \A i \in 1..d : q[i] = p[i]}

\* The steps of the tables above the last level.
Inner == {"count", "load", "publish", "descend", "uncount", "unlink", "destroy"}

\* A page is indexed or deindexed by one thread at a time, at a level that has
\* the step the thread is at.
OwnInv ==
    /\ \A t \in Threads :
        /\ pc[t] \in Adding => mem[page[t]] = "indexing" /\ entry[t] \in Descriptors
        /\ pc[t] \in Removing => mem[page[t]] = "deindexing"
        /\ pc[t] \in Inner => Depth(t) < LEVEL_CNT
        /\ pc[t] \in {"store", "erase"} => Depth(t) = LEVEL_CNT
    /\ \A t, u \in Threads : Working(t) /\ Working(u) /\ page[t] = page[u] => t = u

\* Links lead to tables that exist, one level down, and no table is linked twice.
LinkInv ==
    /\ \A p \in Pages : \A d \in 2..LEVEL_CNT : At(p)[d] # Null => At(p)[d] \in pool
    /\ \A p \in Pages : At(p)[LEVEL_CNT + 1] \in Descriptors \cup {Null}
    /\ \A p, q \in Pages : \A d, e \in 1..LEVEL_CNT :
          At(p)[d] # Null /\ At(p)[d] = At(q)[e] => d = e /\ p \in Sub(q, d - 1)

\* The threads that found the count below slot d zero, and will unlink the table.
Unlinks(d) == {t \in Threads : pc[t] = "unlink" /\ Depth(t) = d}

\* A table is in the tree while a page under it holds it, and only while a page
\* is counted in it or a thread is about to unlink it.
UsedInv ==
    /\ \A d \in 1..LEVEL_CNT : \A q \in HeldAt(d) : At(q)[d + 1] # Null
    /\ \A p \in Pages : \A d \in 1..LEVEL_CNT : At(p)[d + 1] # Null =>
          \/ Sub(p, d) \cap Counted(d) # {}
          \/ \E t \in Unlinks(d) : page[t] \in Sub(p, d)

\* A count is the number of the pages under its slot that are counted.
CountInv ==
    \A p \in Pages : \A d \in 1..LEVEL_CNT - 1 : At(p)[d] # Null =>
        m_cnt[At(p)[d]][p[d]] = Cardinality(Sub(p, d) \cap Counted(d))

\* What a thread remembers of the way it came is still the path of its page.
AtInv ==
    \A t \in Threads : Working(t) \/ known[t] =>
        \A d \in 1..Depth(t) : at[t][d] = At(page[t])[d]

\* The threads that added one to a count and have not read the pointer yet.
Loads(d) == {t \in Threads : pc[t] = "load" /\ Depth(t) = d}

\* A table is destroyed under the pages that were counted since, and their
\* threads have not gone into it.
DoomInv ==
    \A d \in 1..LEVEL_CNT : \A t \in Unlinks(d) :
        /\ \A q \in Sub(page[t], d) \cap Counted(d) : \E u \in Loads(d) : page[u] = q
        /\ \A u \in Unlinks(d) : page[u] \in Sub(page[t], d) => u = t

\* No slot of the tree leads to table l.
Unlinked(l) == \A p \in Pages : \A d \in 1..LEVEL_CNT : At(p)[d] # l

\* The tables a thread has made or unlinked, which no page leads to.
Own(t) == IF pc[t] \in {"publish", "destroy"} THEN {fresh[t][j] : j \in 1..Len(fresh[t])} ELSE {}

\* The chain that CreateLevel made: it leads to the descriptor, and its counts are one.
NewTables(t) ==
    /\ Len(fresh[t]) = LEVEL_CNT - Depth(t)
    /\ \A j, k \in 1..Len(fresh[t]) : fresh[t][j] = fresh[t][k] => j = k
    /\ \A j \in 1..Len(fresh[t]) : \A i \in Indices :
          /\ m_ptr[fresh[t][j]][i] = IF i # page[t][Depth(t) + j] THEN Null
                                    ELSE IF j = Len(fresh[t]) THEN entry[t]
                                    ELSE fresh[t][j + 1]
          /\ j # Len(fresh[t]) =>
               m_cnt[fresh[t][j]][i] = IF i = page[t][Depth(t) + j] THEN 1 ELSE 0

\* The tables a thread keeps by itself are in use and not in the tree.
FreshOf(t) ==
    /\ pc[t] \in {"uncount", "unlink"} =>
          fresh[t] = <<At(page[t])[Depth(t) + 1]>> /\ At(page[t])[Depth(t) + 1] # Null
    /\ pc[t] = "destroy" => Len(fresh[t]) = 1
    /\ pc[t] = "publish" => NewTables(t)
    /\ \A l \in Own(t) : l \in pool /\ Unlinked(l)

\* And no two threads keep the same one.
FreshInv ==
    /\ \A t \in Threads : FreshOf(t)
    /\ \A t, u \in Threads : t # u => Own(t) \cap Own(u) = {}

\* A lookup is in a table of its page, in an empty one that is being destroyed,
\* or has left the tree.
ReadOf(t) ==
    /\ pc[t] \in {"get", "got"} =>
         \/ Here(t) \notin pool \cup {Root}
         \/ Here(t) = At(page[t])[Depth(t)]
         \/ \E u \in Threads : pc[u] = "destroy" /\ Here(t) \in Own(u) /\ Ptr(t) = Null
    /\ known[t] =>
         /\ pc[t] \in {"get", "got"}
         /\ mem[page[t]] = "in"
         /\ pc[t] = "got" => Depth(t) = LEVEL_CNT /\ entry[t] = At(page[t])[LEVEL_CNT + 1]

\* So it is for every thread.
ReadInv == \A t \in Threads : ReadOf(t)

\* The inductive invariant.
IInv ==
    /\ TypeOK /\ OwnInv /\ LinkInv /\ UsedInv /\ CountInv
    /\ AtInv /\ DoomInv /\ FreshInv /\ ReadInv

-----------------------------------------------------------------------------
(* Paths                                                                   *)

\* Induction over the numbers, for a set.
LEMMA NatInd ==
    ASSUME NEW S, 0 \in S, \A n \in Nat : n \in S => n+1 \in S
    PROVE  Nat \subseteq S
<1>1. SUFFICES ASSUME Nat \ S # {} PROVE FALSE
  OBVIOUS
<1>2. IsWellFoundedOn({ss \in Nat \X Nat : ss[1] < ss[2]}, Nat)
  BY NatLessThanWellFounded DEF OpToRel
<1>3. PICK x \in Nat \ S : \A y \in Nat \ S : <<y, x>> \notin {ss \in Nat \X Nat : ss[1] < ss[2]}
  BY <1>1, <1>2, WFMin
<1>4. x # 0 /\ x-1 \in Nat /\ (x-1)+1 = x
  OBVIOUS
<1>5. <<x-1, x>> \in {ss \in Nat \X Nat : ss[1] < ss[2]}
  BY <1>4
<1>6. x - 1 \in S
  BY <1>3, <1>4, <1>5
<1> QED BY <1>4, <1>6

\* What a path is: the function that the recursion defines exists.
LEMMA PathStep ==
    ASSUME NEW ptr, NEW p
    PROVE  /\ Path(ptr, p)[1] = Root
           /\ \A d \in 1..LEVEL_CNT :
                Path(ptr, p)[d + 1] =
                    IF Path(ptr, p)[d] = Null THEN Null ELSE ptr[Path(ptr, p)[d]][p[d]]
<1> DEFINE E(f, d) == IF d = 1 THEN Root
                      ELSE IF f[d - 1] = Null THEN Null ELSE ptr[f[d - 1]][p[d - 1]]
           Q == {n \in Nat : \E f : f = [d \in 1..n |-> E(f, d)]}
<1>1. 0 \in Q
  <2> DEFINE f == [d \in 1..0 |-> Root]
  <2>1. f = [d \in 1..0 |-> E(f, d)]
    OBVIOUS
  <2> HIDE DEF f
  <2> QED BY <2>1
<1>2. ASSUME NEW n \in Nat, n \in Q PROVE n + 1 \in Q
  <2>1. PICK f : f = [d \in 1..n |-> E(f, d)]
    BY <1>2
  <2> DEFINE g == [d \in 1..n+1 |-> IF d <= n THEN f[d] ELSE E(f, d)]
  <2>2. ASSUME NEW d \in 1..n+1 PROVE g[d] = E(g, d)
    <3>1. CASE d = 1
      <4>1. g[d] = IF d <= n THEN f[d] ELSE E(f, d)
        OBVIOUS
      <4>2. d <= n => f[d] = E(f, d)
        BY <2>1
      <4> QED BY <4>1, <4>2, <3>1
    <3>2. CASE d # 1
      <4>1. g[d] = E(f, d)
        BY <2>1
      <4>2. d - 1 \in 1..n+1 /\ d - 1 <= n
        BY <3>2
      <4>3. g[d - 1] = f[d - 1]
        BY <4>2
      <4> QED BY <4>1, <4>3, <3>2
    <3> QED BY <3>1, <3>2
  <2>3. g = [d \in 1..n+1 |-> E(g, d)]
    <3> HIDE DEF E
    <3>1. g = [d \in 1..n+1 |-> g[d]]
      OBVIOUS
    <3> HIDE DEF g
    <3> QED BY <3>1, <2>2
  <2> HIDE DEF g
  <2> QED BY <2>3
<1> HIDE DEF Q
<1>3. LEVEL_CNT + 1 \in Q
  BY <1>1, <1>2, NatInd, LevelCntAssumption
<1> DEFINE a == CHOOSE f : f = [d \in 1..LEVEL_CNT + 1 |-> E(f, d)]
<1>4. a = [d \in 1..LEVEL_CNT + 1 |-> E(a, d)]
  <2>1. \E f : f = [d \in 1..LEVEL_CNT + 1 |-> E(f, d)]
    BY <1>3 DEF Q
  <2> HIDE DEF E
  <2> QED BY <2>1
<1>5. Path(ptr, p) = a
  BY DEF Path
<1> HIDE DEF a
<1>6. a[1] = Root
  BY <1>4, LevelCntAssumption
<1>7. ASSUME NEW d \in 1..LEVEL_CNT
      PROVE  a[d + 1] = IF a[d] = Null THEN Null ELSE ptr[a[d]][p[d]]
  <2>1. d + 1 \in 1..LEVEL_CNT + 1 /\ d + 1 # 1 /\ (d + 1) - 1 = d
    BY LevelCntAssumption
  <2>2. a[d + 1] = E(a, d + 1)
    BY <1>4, <2>1
  <2> QED BY <2>1, <2>2
<1> QED BY <1>5, <1>6, <1>7

\* Induction over an interval.
LEMMA RangeInd ==
    ASSUME NEW S, NEW k \in Nat, NEW m \in Nat, k \in S,
           \A n \in k..m : n \in S /\ n < m => n + 1 \in S
    PROVE  \A n \in k..m : n \in S
<1> DEFINE Q == {j \in Nat : k + j <= m => k + j \in S}
<1>1. 0 \in Q
  OBVIOUS
<1>2. ASSUME NEW j \in Nat, j \in Q PROVE j + 1 \in Q
  <2>1. CASE k + (j + 1) <= m
    <3>1. k + j \in k..m /\ k + j < m /\ k + j \in S
      BY <1>2, <2>1
    <3>2. (k + j) + 1 \in S
      BY <3>1
    <3>3. (k + j) + 1 = k + (j + 1)
      OBVIOUS
    <3> QED BY <3>2, <3>3
  <2>2. CASE ~(k + (j + 1) <= m)
    BY <2>2
  <2> QED BY <2>1, <2>2
<1> HIDE DEF Q
<1>3. Nat \subseteq Q
  BY <1>1, <1>2, NatInd
<1>4. ASSUME NEW n \in k..m PROVE n \in S
  <2>1. n - k \in Nat /\ k + (n - k) = n
    OBVIOUS
  <2>2. n - k \in Q
    BY <1>3, <2>1
  <2> QED BY <2>1, <2>2 DEF Q
<1> QED BY <1>4

\* Above a table there is a table.
LEMMA PathDown ==
    ASSUME NEW ptr, NEW p, NEW e \in 1..LEVEL_CNT + 1, Path(ptr, p)[e] # Null,
           NEW d \in 1..e
    PROVE  Path(ptr, p)[d] # Null
<1> DEFINE Q == {n \in Nat : n \in 1..LEVEL_CNT + 1 /\ Path(ptr, p)[n] = Null}
<1>1. SUFFICES ASSUME Path(ptr, p)[d] = Null PROVE FALSE
  OBVIOUS
<1>2. d \in Nat /\ e \in Nat /\ d \in Q
  BY <1>1, LevelCntAssumption
<1>3. ASSUME NEW n \in d..e, n \in Q, n < e PROVE n + 1 \in Q
  <2>1. n \in 1..LEVEL_CNT /\ n + 1 \in 1..LEVEL_CNT + 1 /\ n + 1 \in Nat
    BY <1>3, LevelCntAssumption
  <2>2. Path(ptr, p)[n + 1] = IF Path(ptr, p)[n] = Null THEN Null
                              ELSE ptr[Path(ptr, p)[n]][p[n]]
    BY <2>1, PathStep
  <2> QED BY <2>1, <2>2, <1>3
<1> HIDE DEF Q
<1>4. e \in Q
  <2>1. \A n \in d..e : n \in Q
    BY <1>2, <1>3, RangeInd
  <2> QED BY <2>1, <1>2
<1> QED BY <1>4 DEF Q

\* Two trees that agree on the slots of a page have the same path for it.
LEMMA PathAgree ==
    ASSUME NEW ptr, NEW ptr2, NEW p, NEW q, NEW n \in 1..LEVEL_CNT + 1,
           \A e \in 1..n - 1 : Path(ptr, p)[e] # Null =>
               ptr2[Path(ptr, p)[e]][q[e]] = ptr[Path(ptr, p)[e]][p[e]]
    PROVE  \A e \in 1..n : Path(ptr2, q)[e] = Path(ptr, p)[e]
<1> DEFINE Q == {e \in Nat : Path(ptr2, q)[e] = Path(ptr, p)[e]}
<1>1. 1 \in Q
  BY PathStep
<1>2. ASSUME NEW e \in 1..n, e \in Q, e < n PROVE e + 1 \in Q
  <2>1. e \in 1..LEVEL_CNT /\ e \in 1..n - 1 /\ e + 1 \in Nat
    BY <1>2, LevelCntAssumption
  <2>2. Path(ptr, p)[e + 1] = IF Path(ptr, p)[e] = Null THEN Null
                              ELSE ptr[Path(ptr, p)[e]][p[e]]
    BY <2>1, PathStep
  <2>3. Path(ptr2, q)[e + 1] = IF Path(ptr2, q)[e] = Null THEN Null
                              ELSE ptr2[Path(ptr2, q)[e]][q[e]]
    BY <2>1, PathStep
  <2>4. Path(ptr2, q)[e] = Path(ptr, p)[e]
    BY <1>2
  <2>5. Path(ptr, p)[e] # Null =>
          ptr2[Path(ptr, p)[e]][q[e]] = ptr[Path(ptr, p)[e]][p[e]]
    BY <2>1
  <2>6. Path(ptr2, q)[e + 1] = Path(ptr, p)[e + 1]
    BY <2>2, <2>3, <2>4, <2>5
  <2> QED BY <2>1, <2>6
<1> HIDE DEF Q
<1>3. \A e \in 1..n : e \in Q
  <2>1. 1 \in Nat /\ n \in Nat
    BY LevelCntAssumption
  <2> QED BY <1>1, <1>2, <2>1, RangeInd
<1> QED BY <1>3 DEF Q

\* Pages with the same indices go through the same tables.
LEMMA PathSub ==
    ASSUME NEW ptr, NEW d \in 0..LEVEL_CNT, NEW p, NEW q \in Sub(p, d)
    PROVE  \A e \in 1..d + 1 : Path(ptr, q)[e] = Path(ptr, p)[e]
<1>1. d + 1 \in 1..LEVEL_CNT + 1 /\ (d + 1) - 1 = d
  BY LevelCntAssumption
<1>2. \A e \in 1..d : q[e] = p[e]
  BY DEF Sub
<1> QED BY <1>1, <1>2, PathAgree

\* What a path is in a state of the system.
LEMMA AtFacts ==
    ASSUME LinkInv
    PROVE  /\ \A p : At(p)[1] = Root
           /\ \A p : \A d \in 1..LEVEL_CNT :
                At(p)[d + 1] = IF At(p)[d] = Null THEN Null ELSE m_ptr[At(p)[d]][p[d]]
           /\ \A p : \A e \in 1..LEVEL_CNT + 1 : \A d \in 1..e :
                At(p)[e] # Null => At(p)[d] # Null
           /\ \A p : \A d \in 0..LEVEL_CNT : \A q \in Sub(p, d) : \A e \in 1..d + 1 :
                At(q)[e] = At(p)[e]
           /\ \A p \in Pages : \A d \in 1..LEVEL_CNT : At(p)[d] \in pool \cup {Root, Null}
<1>1. \A p : At(p)[1] = Root
  BY PathStep DEF At
<1>2. \A p : \A d \in 1..LEVEL_CNT :
         At(p)[d + 1] = IF At(p)[d] = Null THEN Null ELSE m_ptr[At(p)[d]][p[d]]
  BY PathStep DEF At
<1>3. \A p : \A e \in 1..LEVEL_CNT + 1 : \A d \in 1..e :
         At(p)[e] # Null => At(p)[d] # Null
  BY PathDown DEF At
<1>4. \A p : \A d \in 0..LEVEL_CNT : \A q \in Sub(p, d) : \A e \in 1..d + 1 :
         At(q)[e] = At(p)[e]
  BY PathSub DEF At
<1>5. ASSUME NEW p \in Pages, NEW d \in 1..LEVEL_CNT PROVE At(p)[d] \in pool \cup {Root, Null}
  <2>1. CASE d = 1
    BY <2>1, <1>1
  <2>2. CASE d # 1
    <3>1. d \in 2..LEVEL_CNT
      BY <2>2, LevelCntAssumption
    <3> QED BY <3>1 DEF LinkInv
  <2> QED BY <2>1, <2>2
<1> QED BY <1>1, <1>2, <1>3, <1>4, <1>5

-----------------------------------------------------------------------------
(* Pages that share indices, and the levels at which pages are counted     *)

\* Pages with the same first indices: they contain the page, they shrink as d
\* grows, and in the end the page is alone.
LEMMA SubFacts ==
    /\ \A p \in Pages : \A d \in 0..LEVEL_CNT : p \in Sub(p, d) /\ Sub(p, d) \subseteq Pages
    /\ \A p \in Pages : \A d \in 0..LEVEL_CNT : \A q \in Sub(p, d) :
          p \in Sub(q, d) /\ Sub(q, d) = Sub(p, d)
    /\ \A p \in Pages : \A d \in 0..LEVEL_CNT : \A e \in 0..d : Sub(p, d) \subseteq Sub(p, e)
    /\ \A p \in Pages : \A d \in 1..LEVEL_CNT : \A q \in Sub(p, d - 1) :
          q[d] = p[d] <=> q \in Sub(p, d)
    /\ \A p \in Pages : Sub(p, LEVEL_CNT) = {p}
<1>1. \A p \in Pages : \A d \in 0..LEVEL_CNT : p \in Sub(p, d) /\ Sub(p, d) \subseteq Pages
  BY DEF Sub
<1>2. ASSUME NEW p \in Pages, NEW d \in 0..LEVEL_CNT, NEW q \in Sub(p, d)
      PROVE  p \in Sub(q, d) /\ Sub(q, d) = Sub(p, d)
  BY DEF Sub
<1>3. ASSUME NEW p \in Pages, NEW d \in 0..LEVEL_CNT, NEW e \in 0..d
      PROVE  Sub(p, d) \subseteq Sub(p, e)
  BY LevelCntAssumption DEF Sub
<1>4. ASSUME NEW p \in Pages, NEW d \in 1..LEVEL_CNT, NEW q \in Sub(p, d - 1)
      PROVE  q[d] = p[d] <=> q \in Sub(p, d)
  <2>1. \A i \in 1..d : i \in 1..d - 1 \/ i = d
    BY LevelCntAssumption
  <2>2. d \in 1..d
    BY LevelCntAssumption
  <2> QED BY <2>1, <2>2 DEF Sub
<1>5. ASSUME NEW p \in Pages PROVE Sub(p, LEVEL_CNT) = {p}
  <2>1. ASSUME NEW q \in Sub(p, LEVEL_CNT) PROVE q = p
    <3>1. q \in [1..LEVEL_CNT -> Indices] /\ p \in [1..LEVEL_CNT -> Indices]
      BY PagesAssumption DEF Sub
    <3>2. \A i \in 1..LEVEL_CNT : q[i] = p[i]
      BY DEF Sub
    <3>3. q = [i \in 1..LEVEL_CNT |-> q[i]] /\ p = [i \in 1..LEVEL_CNT |-> p[i]]
      BY ONLY <3>1
    <3>4. [i \in 1..LEVEL_CNT |-> q[i]] = [i \in 1..LEVEL_CNT |-> p[i]]
      BY ONLY <3>2
    <3> QED BY ONLY <3>3, <3>4
  <2> QED BY <2>1, <1>1, LevelCntAssumption
<1> QED BY <1>1, <1>2, <1>3, <1>4, <1>5

\* The level a page is counted to is the level it is held to, or one more.
LEMMA LevelTypes ==
    ASSUME TypeOK, NEW t \in Threads
    PROVE  /\ Depth(t) \in 1..LEVEL_CNT
           /\ CountedTo(t) \in 0..LEVEL_CNT /\ HeldTo(t) \in 0..LEVEL_CNT
           /\ HeldTo(t) <= CountedTo(t) /\ CountedTo(t) <= HeldTo(t) + 1
<1>1. Depth(t) \in 1..LEVEL_CNT
  BY DEF TypeOK, Depth
<1>2. CASE pc[t] \in {"descend", "erase"}
  BY <1>1, <1>2, LevelCntAssumption DEF CountedTo, HeldTo
<1>3. CASE pc[t] = "uncount"
  BY <1>1, <1>3, LevelCntAssumption DEF CountedTo, HeldTo
<1>4. CASE pc[t] \in {"load", "publish"}
  BY <1>1, <1>4, LevelCntAssumption DEF CountedTo, HeldTo
<1>5. CASE pc[t] \notin {"descend", "erase", "uncount", "load", "publish"}
  BY <1>1, <1>5, LevelCntAssumption DEF CountedTo, HeldTo
<1> QED BY <1>2, <1>3, <1>4, <1>5

\* Counts are added from the root down and taken away from the leaf up.
LEMMA LevelFacts ==
    ASSUME TypeOK, OwnInv
    PROVE  /\ \A d \in Int : HeldAt(d) \subseteq Counted(d) /\ Counted(d) \subseteq Pages
           /\ \A d \in Int : Counted(d + 1) \subseteq HeldAt(d)
           /\ \A d, e \in Int : d <= e => Counted(e) \subseteq Counted(d)
                                       /\ HeldAt(e) \subseteq HeldAt(d)
           /\ \A t \in Threads : Working(t) =>
                /\ page[t] \in Pages /\ mem[page[t]] # "in"
                /\ \A d \in Int : page[t] \in Counted(d) <=> d <= CountedTo(t)
                /\ \A d \in Int : page[t] \in HeldAt(d) <=> d <= HeldTo(t)
<1>1. \A t \in Threads : /\ CountedTo(t) \in Int /\ HeldTo(t) \in Int
                         /\ HeldTo(t) <= CountedTo(t) /\ CountedTo(t) <= HeldTo(t) + 1
  BY LevelTypes, LevelCntAssumption
<1>2. ASSUME NEW d \in Int
      PROVE  /\ HeldAt(d) \subseteq Counted(d) /\ Counted(d) \subseteq Pages
             /\ Counted(d + 1) \subseteq HeldAt(d)
  <2>1. \A t \in Threads : /\ d <= HeldTo(t) => d <= CountedTo(t)
                           /\ d + 1 <= CountedTo(t) => d <= HeldTo(t)
    BY <1>1
  <2> QED BY <2>1 DEF Counted, HeldAt
<1>3. ASSUME NEW d \in Int, NEW e \in Int, d <= e
      PROVE  Counted(e) \subseteq Counted(d) /\ HeldAt(e) \subseteq HeldAt(d)
  <2>1. \A t \in Threads : /\ e <= HeldTo(t) => d <= HeldTo(t)
                           /\ e <= CountedTo(t) => d <= CountedTo(t)
    BY <1>1, <1>3
  <2> QED BY <2>1 DEF Counted, HeldAt
<1>4. ASSUME NEW t \in Threads, Working(t)
      PROVE  /\ page[t] \in Pages /\ mem[page[t]] # "in"
             /\ \A d \in Int : page[t] \in Counted(d) <=> d <= CountedTo(t)
             /\ \A d \in Int : page[t] \in HeldAt(d) <=> d <= HeldTo(t)
  <2>1. page[t] \in Pages
    BY DEF TypeOK
  <2>2. mem[page[t]] # "in"
    BY <1>4 DEF OwnInv, Working
  <2>3. \A u \in Threads : Working(u) /\ page[u] = page[t] => u = t
    BY <1>4 DEF OwnInv
  <2> QED BY <2>1, <2>2, <2>3, <1>4 DEF Counted, HeldAt
<1> QED BY <1>2, <1>3, <1>4

-----------------------------------------------------------------------------
(* What a step of one thread leaves alone                                  *)

\* The step changes nothing of another thread.
Others(t) ==
    \A u \in Threads \ {t} :
        /\ pc'[u] = pc[u] /\ page'[u] = page[u] /\ entry'[u] = entry[u]
        /\ at'[u] = at[u] /\ fresh'[u] = fresh[u] /\ known'[u] = known[u]

\* A step of t changes what is done with page p only.
OnPage(t, p) ==
    /\ Others(t)
    /\ \A q \in Pages \ {p} : mem'[q] = mem[q]
    /\ Working(t) => page[t] = p
    /\ Working(t)' => page'[t] = p
    /\ \A u \in Threads \ {t} : Working(u) => page[u] # p

\* What is defined from the state of another thread stays too.
LEMMA OthersSame ==
    ASSUME NEW t \in Threads, Others(t), NEW u \in Threads \ {t}
    PROVE  /\ Working(u)' <=> Working(u)
           /\ CountedTo(u)' = CountedTo(u) /\ HeldTo(u)' = HeldTo(u)
           /\ Depth(u)' = Depth(u) /\ Here(u)' = Here(u) /\ Own(u)' = Own(u)
           /\ Idx(u)' = Idx(u)
<1>1. /\ pc'[u] = pc[u] /\ page'[u] = page[u] /\ entry'[u] = entry[u]
      /\ at'[u] = at[u] /\ fresh'[u] = fresh[u] /\ known'[u] = known[u]
  BY DEF Others
<1>2. Working(u)' <=> Working(u)
  BY <1>1 DEF Working
<1>3. Depth(u)' = Depth(u)
  BY <1>1 DEF Depth
<1>4. Here(u)' = Here(u) /\ Idx(u)' = Idx(u)
  BY <1>1, <1>3 DEF Here, Idx
<1>5. Own(u)' = Own(u)
  BY <1>1 DEF Own
<1>6. CountedTo(u)' = CountedTo(u) /\ HeldTo(u)' = HeldTo(u)
  BY <1>1, <1>3 DEF CountedTo, HeldTo
<1> QED BY <1>2, <1>3, <1>4, <1>5, <1>6

\* Whether another page is counted or held stays, and for page p it is read off
\* the state of t.
LEMMA LevelStep ==
    ASSUME NEW t \in Threads, NEW p \in Pages, OnPage(t, p), NEW d \in Int
    PROVE  /\ \A q \in Pages \ {p} : /\ q \in Counted(d)' <=> q \in Counted(d)
                                     /\ q \in HeldAt(d)' <=> q \in HeldAt(d)
           /\ p \in Counted(d) <=> mem[p] = "in" \/ (Working(t) /\ d <= CountedTo(t))
           /\ p \in HeldAt(d) <=> mem[p] = "in" \/ (Working(t) /\ d <= HeldTo(t))
           /\ p \in Counted(d)' <=> mem'[p] = "in" \/ (Working(t)' /\ d <= CountedTo(t)')
           /\ p \in HeldAt(d)' <=> mem'[p] = "in" \/ (Working(t)' /\ d <= HeldTo(t)')
<1>1. \A u \in Threads \ {t} :
        /\ page'[u] = page[u] /\ (Working(u)' <=> Working(u))
        /\ CountedTo(u)' = CountedTo(u) /\ HeldTo(u)' = HeldTo(u)
  BY OthersSame DEF OnPage, Others
<1>2. \A q \in Pages \ {p} : mem'[q] = mem[q]
  BY DEF OnPage
<1>3. /\ Working(t) => page[t] = p
      /\ Working(t)' => page'[t] = p
      /\ \A u \in Threads \ {t} : Working(u) => page[u] # p
  BY DEF OnPage
<1>4. ASSUME NEW q \in Pages \ {p}
      PROVE  /\ q \in Counted(d)' <=> q \in Counted(d)
             /\ q \in HeldAt(d)' <=> q \in HeldAt(d)
  <2>1. q \in Counted(d)' <=> q \in Counted(d)
    BY <1>1, <1>2, <1>3 DEF Counted
  <2>2. q \in HeldAt(d)' <=> q \in HeldAt(d)
    BY <1>1, <1>2, <1>3 DEF HeldAt
  <2> QED BY <2>1, <2>2
<1>5. p \in Counted(d) <=> mem[p] = "in" \/ (Working(t) /\ d <= CountedTo(t))
  BY <1>3 DEF Counted
<1>6. p \in HeldAt(d) <=> mem[p] = "in" \/ (Working(t) /\ d <= HeldTo(t))
  BY <1>3 DEF HeldAt
<1>7. p \in Counted(d)' <=> mem'[p] = "in" \/ (Working(t)' /\ d <= CountedTo(t)')
  BY <1>1, <1>3 DEF Counted
<1>8. p \in HeldAt(d)' <=> mem'[p] = "in" \/ (Working(t)' /\ d <= HeldTo(t)')
  BY <1>1, <1>3 DEF HeldAt
<1> QED BY <1>4, <1>5, <1>6, <1>7, <1>8

-----------------------------------------------------------------------------
(* Steps that leave every path as it is                                    *)

\* The path of a page after the step.
NextAt(p) == Path(m_ptr', p)

\* The paths of all pages stay.
SameAt == \A q \in Pages : \A d \in 1..LEVEL_CNT + 1 : NextAt(q)[d] = At(q)[d]

\* Paths stay when the slots of linked tables do.
LEMMA SlotsSame ==
    ASSUME \A q \in Pages : \A d \in 1..LEVEL_CNT : At(q)[d] # Null =>
               m_ptr'[At(q)[d]][q[d]] = m_ptr[At(q)[d]][q[d]]
    PROVE  SameAt
<1>1. SUFFICES ASSUME NEW q \in Pages
               PROVE  \A d \in 1..LEVEL_CNT + 1 : Path(m_ptr', q)[d] = Path(m_ptr, q)[d]
  BY DEF SameAt, NextAt, At
<1>2. LEVEL_CNT + 1 \in 1..LEVEL_CNT + 1 /\ (LEVEL_CNT + 1) - 1 = LEVEL_CNT
  BY LevelCntAssumption
<1>3. \A d \in 1..LEVEL_CNT : Path(m_ptr, q)[d] # Null =>
          m_ptr'[Path(m_ptr, q)[d]][q[d]] = m_ptr[Path(m_ptr, q)[d]][q[d]]
  BY DEF At
<1> QED BY <1>2, <1>3, PathAgree

\* When paths stay and their tables do, the links stay.
LEMMA LinkSame ==
    ASSUME LinkInv, SameAt,
           \A p \in Pages : \A d \in 2..LEVEL_CNT : At(p)[d] # Null => At(p)[d] \in pool'
    PROVE  LinkInv'
<1>1. /\ \A p \in Pages : \A d \in 1..LEVEL_CNT : NextAt(p)[d] = At(p)[d]
      /\ \A p \in Pages : \A d \in 2..LEVEL_CNT : NextAt(p)[d] = At(p)[d]
      /\ \A p \in Pages : NextAt(p)[LEVEL_CNT + 1] = At(p)[LEVEL_CNT + 1]
  BY LevelCntAssumption DEF SameAt
<1>2. \A p \in Pages : \A d \in 2..LEVEL_CNT : NextAt(p)[d] # Null => NextAt(p)[d] \in pool'
  BY <1>1
<1>3. \A p \in Pages : NextAt(p)[LEVEL_CNT + 1] \in Descriptors \cup {Null}
  BY <1>1 DEF LinkInv
<1>4. \A p, q \in Pages : \A d, e \in 1..LEVEL_CNT :
          NextAt(p)[d] # Null /\ NextAt(p)[d] = NextAt(q)[e] => d = e /\ p \in Sub(q, d - 1)
  BY <1>1 DEF LinkInv
<1>5. \A q \in Pages : \A d \in Int : Sub(q, d)' = Sub(q, d)
  BY DEF Sub
<1> QED BY <1>2, <1>3, <1>4, <1>5 DEF LinkInv, At, NextAt

\* When paths stay, a table is still used while no count and no thread that will
\* unlink it goes away.
LEMMA UsedSame ==
    ASSUME UsedInv, SameAt,
           \A d \in 1..LEVEL_CNT :
              /\ \A q \in HeldAt(d)' : q \in HeldAt(d) \/ At(q)[d + 1] # Null
              /\ Counted(d) \subseteq Counted(d)'
              /\ \A t \in Unlinks(d) : t \in Unlinks(d)' /\ page'[t] = page[t]
    PROVE  UsedInv'
<1>1. \A p \in Pages : \A d \in 1..LEVEL_CNT : NextAt(p)[d + 1] = At(p)[d + 1]
  BY LevelCntAssumption DEF SameAt
<1>2. ASSUME NEW d \in 1..LEVEL_CNT, NEW q \in HeldAt(d)'
      PROVE  NextAt(q)[d + 1] # Null
  <2>1. q \in Pages
    BY DEF HeldAt
  <2> QED BY <2>1, <1>1 DEF UsedInv
<1>3. ASSUME NEW p \in Pages, NEW d \in 1..LEVEL_CNT, NextAt(p)[d + 1] # Null
      PROVE  \/ (Sub(p, d) \cap Counted(d))' # {}
             \/ \E t \in Unlinks(d)' : page'[t] \in Sub(p, d)
  <2>1. At(p)[d + 1] # Null
    BY <1>1, <1>3
  <2>2. Sub(p, d) \cap Counted(d) # {} \/ \E t \in Unlinks(d) : page[t] \in Sub(p, d)
    BY <2>1 DEF UsedInv
  <2>3. Sub(p, d)' = Sub(p, d)
    BY DEF Sub
  <2> QED BY <2>2, <2>3
<1>4. \A p \in Pages : \A d \in 1..LEVEL_CNT : Sub(p, d)' = Sub(p, d)
  BY DEF Sub
<1> QED BY <1>2, <1>3, <1>4 DEF UsedInv, At, NextAt

\* When paths and counted pages stay, the counts have to stay.
LEMMA CountSame ==
    ASSUME CountInv, SameAt,
           \A d \in 1..LEVEL_CNT - 1 : Counted(d)' = Counted(d),
           \A p \in Pages : \A d \in 1..LEVEL_CNT - 1 : At(p)[d] # Null =>
              m_cnt'[At(p)[d]] = m_cnt[At(p)[d]]
    PROVE  CountInv'
<1>1. \A p \in Pages : \A d \in 1..LEVEL_CNT - 1 : NextAt(p)[d] = At(p)[d]
  BY LevelCntAssumption DEF SameAt
<1>2. \A p \in Pages : \A d \in 1..LEVEL_CNT - 1 : Sub(p, d)' = Sub(p, d)
  BY DEF Sub
<1>3. ASSUME NEW p \in Pages, NEW d \in 1..LEVEL_CNT - 1, NextAt(p)[d] # Null
      PROVE  m_cnt'[NextAt(p)[d]][p[d]] = Cardinality((Sub(p, d) \cap Counted(d))')
  <2>1. (Sub(p, d) \cap Counted(d))' = Sub(p, d) \cap Counted(d)
    BY <1>2
  <2>2. NextAt(p)[d] = At(p)[d] /\ At(p)[d] # Null
    BY <1>1, <1>3
  <2>3. m_cnt'[At(p)[d]] = m_cnt[At(p)[d]]
    BY <2>2
  <2>4. m_cnt[At(p)[d]][p[d]] = Cardinality(Sub(p, d) \cap Counted(d))
    BY <2>2 DEF CountInv
  <2> QED BY <2>1, <2>2, <2>3, <2>4
<1> QED BY <1>3 DEF CountInv, At, NextAt

\* No thread comes to unlink a table, and none of those that wait to go down to
\* one does.
LEMMA DoomSame ==
    ASSUME DoomInv,
           \A d \in 1..LEVEL_CNT :
              \A t \in Unlinks(d)' :
                 /\ t \in Unlinks(d) /\ page'[t] = page[t]
                 /\ \A q \in Sub(page[t], d) \cap Counted(d)' :
                       q \in Counted(d) \/ \E u \in Loads(d)' : page'[u] = q
                 /\ \A u \in Loads(d) : page[u] \in Sub(page[t], d) =>
                       u \in Loads(d)' /\ page'[u] = page[u]
    PROVE  DoomInv'
<1>1. ASSUME NEW d \in 1..LEVEL_CNT, NEW t \in Unlinks(d)'
      PROVE  /\ \A q \in (Sub(page[t], d) \cap Counted(d))' :
                   \E u \in Loads(d)' : page'[u] = q
             /\ \A u \in Unlinks(d)' : page'[u] \in Sub(page[t], d)' => u = t
  <2>1. t \in Unlinks(d) /\ page'[t] = page[t]
    OBVIOUS
  <2>2. Sub(page[t], d)' = Sub(page[t], d)
    BY <2>1 DEF Sub
  <2>3. ASSUME NEW q \in Sub(page[t], d) \cap Counted(d)'
        PROVE  \E u \in Loads(d)' : page'[u] = q
    <3>1. CASE q \in Counted(d)
      <4>1. PICK u \in Loads(d) : page[u] = q
        BY <2>1, <3>1 DEF DoomInv
      <4> QED BY <4>1
    <3>2. CASE q \notin Counted(d)
      BY <3>2
    <3> QED BY <3>1, <3>2
  <2>4. ASSUME NEW u \in Unlinks(d)', page'[u] \in Sub(page[t], d) PROVE u = t
    <3>1. u \in Unlinks(d) /\ page'[u] = page[u]
      OBVIOUS
    <3> QED BY <3>1, <2>1, <2>4 DEF DoomInv
  <2> QED BY <2>2, <2>3, <2>4
<1> QED BY <1>1 DEF DoomInv

\* Paths that other threads remember stay; that of t is asked for.
LEMMA AtOthers ==
    ASSUME TypeOK, AtInv, NEW t \in Threads, Others(t),
           \A u \in Threads \ {t} : Working(u) \/ known[u] =>
              \A d \in 1..Depth(u) : NextAt(page[u])[d] = At(page[u])[d],
           (Working(t) \/ known[t])' => \A d \in 1..Depth(t)' : at'[t][d] = NextAt(page'[t])[d]
    PROVE  AtInv'
<1>1. ASSUME NEW u \in Threads, (Working(u) \/ known[u])', NEW d \in 1..Depth(u)'
      PROVE  at'[u][d] = NextAt(page'[u])[d]
  <2>1. CASE u = t
    BY <1>1, <2>1
  <2>2. CASE u # t
    <3>1. Depth(u)' = Depth(u) /\ page'[u] = page[u] /\ at'[u] = at[u] /\ (Working(u) \/ known[u])
      BY <1>1, <2>2, OthersSame DEF Others
    <3>2. at[u][d] = At(page[u])[d]
      BY <3>1 DEF AtInv
    <3>3. NextAt(page[u])[d] = At(page[u])[d]
      BY <3>1, <2>2
    <3> QED BY <3>1, <3>2, <3>3
  <2> QED BY <2>1, <2>2
<1> QED BY <1>1 DEF AtInv, At, NextAt

\* Tables that other threads keep stay; those of t are asked for.
LEMMA FreshOthers ==
    ASSUME FreshInv, NEW t \in Threads, Others(t),
           \A u \in Threads \ {t} :
              /\ pc[u] \in {"uncount", "unlink"} =>
                    NextAt(page[u])[Depth(u) + 1] = At(page[u])[Depth(u) + 1]
              /\ \A l \in Own(u) :
                    l \in pool' /\ Unlinked(l)' /\ m_ptr'[l] = m_ptr[l] /\ m_cnt'[l] = m_cnt[l],
           FreshOf(t)',
           \A u \in Threads \ {t} : Own(t)' \cap Own(u) = {}
    PROVE  FreshInv'
<1>1. ASSUME NEW u \in Threads \ {t} PROVE FreshOf(u)'
  <2>1. /\ pc'[u] = pc[u] /\ page'[u] = page[u] /\ fresh'[u] = fresh[u] /\ entry'[u] = entry[u]
        /\ Depth(u)' = Depth(u) /\ Own(u)' = Own(u)
    BY OthersSame DEF Others
  <2>2. FreshOf(u)
    BY DEF FreshInv
  <2>3. pc[u] \in {"uncount", "unlink"} =>
           fresh'[u] = <<NextAt(page'[u])[Depth(u)' + 1]>>
           /\ NextAt(page'[u])[Depth(u)' + 1] # Null
    BY <2>1, <2>2 DEF FreshOf
  <2>4. pc[u] = "publish" => NewTables(u)'
    <3>1. SUFFICES ASSUME pc[u] = "publish" PROVE NewTables(u)'
      OBVIOUS
    <3>2. NewTables(u)
      BY <2>2, <3>1 DEF FreshOf
    <3>3. \A j \in 1..Len(fresh[u]) : /\ m_ptr'[fresh[u][j]] = m_ptr[fresh[u][j]]
                                      /\ m_cnt'[fresh[u][j]] = m_cnt[fresh[u][j]]
      BY <3>1 DEF Own
    <3> QED BY <2>1, <3>2, <3>3 DEF NewTables
  <2>5. \A l \in Own(u)' : l \in pool' /\ Unlinked(l)'
    BY <2>1
  <2> QED BY <2>1, <2>2, <2>3, <2>4, <2>5 DEF FreshOf, At, NextAt
<1>2. ASSUME NEW u \in Threads, NEW v \in Threads, u # v
      PROVE  Own(u)' \cap Own(v)' = {}
  <2>1. u # t => Own(u)' = Own(u)
    BY OthersSame
  <2>2. v # t => Own(v)' = Own(v)
    BY OthersSame
  <2>3. CASE u # t /\ v # t
    BY <2>1, <2>2, <2>3, <1>2 DEF FreshInv
  <2>4. CASE u = t
    BY <2>2, <2>4, <1>2
  <2>5. CASE v = t
    BY <2>1, <2>5, <1>2
  <2> QED BY <2>3, <2>4, <2>5
<1>3. \A u \in Threads : FreshOf(u)'
  BY <1>1
<1> QED BY <1>2, <1>3 DEF FreshInv

\* Where a lookup can be.
Found(t) ==
    \/ Here(t) \notin pool \cup {Root}
    \/ Here(t) = At(page[t])[Depth(t)]
    \/ \E u \in Threads : pc[u] = "destroy" /\ Here(t) \in Own(u) /\ Ptr(t) = Null

\* What other lookups found stays; that of t is asked for.
LEMMA ReadOthers ==
    ASSUME ReadInv, NEW t \in Threads, Others(t),
           \A u \in Threads \ {t} :
              /\ known[u] => /\ mem'[page[u]] = "in"
                             /\ NextAt(page[u])[LEVEL_CNT + 1] = At(page[u])[LEVEL_CNT + 1]
              /\ pc[u] \in {"get", "got"} => Found(u)',
           ReadOf(t)'
    PROVE  ReadInv'
<1>1. ASSUME NEW u \in Threads \ {t} PROVE ReadOf(u)'
  <2>1. /\ pc'[u] = pc[u] /\ page'[u] = page[u] /\ entry'[u] = entry[u] /\ known'[u] = known[u]
        /\ Depth(u)' = Depth(u)
    BY OthersSame DEF Others
  <2>2. ReadOf(u)
    BY DEF ReadInv
  <2>3. pc'[u] \in {"get", "got"} => Found(u)'
    BY <2>1
  <2>4. known'[u] =>
             /\ pc'[u] \in {"get", "got"}
             /\ mem'[page'[u]] = "in"
             /\ pc'[u] = "got" => Depth(u)' = LEVEL_CNT
                                  /\ entry'[u] = NextAt(page'[u])[LEVEL_CNT + 1]
    BY <2>1, <2>2 DEF ReadOf
  <2> QED BY <2>3, <2>4 DEF ReadOf, Found, At, NextAt
<1> QED BY <1>1 DEF ReadInv

\* A lookup of another thread is still in a table of its page, or in an empty one.
LEMMA FoundSame ==
    ASSUME TypeOK, SameAt, NEW t \in Threads, Others(t), NEW u \in Threads \ {t},
           Found(u), Here(u) \in pool \cup {Root, Null}, pool' \subseteq Levels,
           pc[t] = "destroy" => Own(t) \cap pool' = {} /\ Own(t) \subseteq Levels,
           \A v \in Threads \ {t} : pc[v] = "destroy" =>
              \A l \in Own(v) : m_ptr'[l] = m_ptr[l]
    PROVE  Found(u)'
<1>1. /\ page'[u] = page[u] /\ Depth(u)' = Depth(u) /\ Here(u)' = Here(u) /\ Idx(u)' = Idx(u)
  BY OthersSame DEF Others
<1>2. CASE Here(u) \notin pool \cup {Root}
  <2>1. Here(u) = Null
    BY <1>2
  <2>2. Here(u)' \notin pool' \cup {Root}
    BY <2>1, <1>1, LevelsAssumption
  <2> QED BY <2>2 DEF Found
<1>3. CASE Here(u) = At(page[u])[Depth(u)]
  <2>1. page[u] \in Pages /\ Depth(u) \in 1..LEVEL_CNT + 1
    BY LevelTypes, LevelCntAssumption DEF TypeOK
  <2>2. NextAt(page[u])[Depth(u)] = At(page[u])[Depth(u)]
    BY <2>1 DEF SameAt
  <2>3. Here(u)' = NextAt(page'[u])[Depth(u)']
    BY <2>2, <1>3, <1>1
  <2> QED BY <2>3 DEF Found, At, NextAt
<1>4. ASSUME NEW v \in Threads, pc[v] = "destroy", Here(u) \in Own(v), Ptr(u) = Null
      PROVE  Found(u)'
  <2>1. CASE v = t
    <3>1. Here(u)' \notin pool' \cup {Root}
      BY <1>1, <1>4, <2>1, LevelsAssumption
    <3> QED BY <3>1 DEF Found
  <2>2. CASE v # t
    <3>1. pc'[v] = "destroy" /\ Own(v)' = Own(v)
      BY <1>4, <2>2, OthersSame DEF Others
    <3>2. m_ptr'[Here(u)] = m_ptr[Here(u)]
      BY <1>4, <2>2
    <3>3. Ptr(u)' = Null
      BY <3>2, <1>1, <1>4 DEF Ptr
    <3>4. Here(u)' \in Own(v)'
      BY <3>1, <1>1, <1>4
    <3> QED BY <3>1, <3>3, <3>4 DEF Found
  <2> QED BY <2>1, <2>2
<1> QED BY <1>2, <1>3, <1>4 DEF Found

-----------------------------------------------------------------------------
(* Where threads are                                                       *)

\* No thread uses a table that was destroyed.
Steady == \A u \in Threads : ~Astray(u)

\* The pages that were indexed have all their tables and a descriptor.
LEMMA InFacts ==
    ASSUME TypeOK, LinkInv, UsedInv, NEW q \in Pages, mem[q] = "in"
    PROVE  \A d \in 1..LEVEL_CNT + 1 : At(q)[d] # Null
<1>1. q \in HeldAt(LEVEL_CNT) /\ LEVEL_CNT \in 1..LEVEL_CNT
  BY LevelCntAssumption DEF HeldAt
<1>2. At(q)[LEVEL_CNT + 1] # Null
  BY <1>1 DEF UsedInv
<1> QED BY <1>2, AtFacts, LevelCntAssumption

\* Where a thread is, by its type.
LEMMA HereType ==
    ASSUME TypeOK, NEW t \in Threads
    PROVE  /\ Here(t) \in Tables \cup {Null} /\ Here(t) = at[t][Depth(t)]
           /\ page[t] \in Pages /\ Idx(t) = page[t][Depth(t)] /\ Idx(t) \in Indices
<1>1. /\ at[t] \in Seq(Tables \cup {Null}) /\ Depth(t) = Len(at[t]) /\ Depth(t) \in 1..LEVEL_CNT
  BY DEF TypeOK, Depth
<1>2. Here(t) \in Tables \cup {Null} /\ Here(t) = at[t][Depth(t)]
  BY <1>1 DEF Here
<1>3. page[t] \in [1..LEVEL_CNT -> Indices] /\ page[t] \in Pages
  BY PagesAssumption DEF TypeOK
<1> QED BY <1>1, <1>2, <1>3 DEF Idx

\* A thread that works on a page is in a table of the path of the page.
LEMMA HereFacts ==
    ASSUME IInv, Steady, NEW t \in Threads, Working(t)
    PROVE  /\ Here(t) = At(page[t])[Depth(t)] /\ Here(t) \in pool \cup {Root} /\ Here(t) # Null
           /\ Here(t) \in Tables
           /\ Ptr(t) = At(page[t])[Depth(t) + 1] /\ Ptr(t) = m_ptr[Here(t)][Idx(t)]
<1>1. Depth(t) \in 1..LEVEL_CNT /\ page[t] \in Pages /\ Idx(t) = page[t][Depth(t)]
  BY LevelTypes, HereType DEF IInv
<1>2. Here(t) = At(page[t])[Depth(t)]
  <2>1. Depth(t) \in 1..Depth(t)
    BY <1>1
  <2>2. at[t][Depth(t)] = At(page[t])[Depth(t)]
    BY <2>1 DEF IInv, AtInv
  <2> QED BY <2>2 DEF Here
<1>3. Here(t) # Null
  <2>1. CASE pc[t] = "descend"
    <3>1. HeldTo(t) = LEVEL_CNT
      BY <2>1 DEF HeldTo
    <3>2. page[t] \in HeldAt(Depth(t))
      BY <3>1, <1>1, LevelFacts, LevelCntAssumption DEF IInv
    <3>3. At(page[t])[Depth(t) + 1] # Null
      BY <3>2, <1>1 DEF IInv, UsedInv
    <3> QED BY <3>3, <1>1, <1>2, AtFacts DEF IInv
  <2>2. CASE pc[t] # "descend"
    BY <2>2 DEF Steady, Astray, Working, Adding, Removing
  <2> QED BY <2>1, <2>2
<1>4. Here(t) \in pool \cup {Root}
  BY <1>3 DEF Steady, Astray
<1>5. Here(t) \in Tables
  BY <1>4 DEF IInv, TypeOK, Tables
<1>6. Ptr(t) = m_ptr[Here(t)][Idx(t)]
  BY <1>3 DEF Ptr
<1>7. At(page[t])[Depth(t) + 1] = m_ptr[Here(t)][Idx(t)]
  BY <1>1, <1>2, <1>3, AtFacts DEF IInv
<1> QED BY <1>2, <1>3, <1>4, <1>5, <1>6, <1>7

\* What a lookup finds in the table it is in.
LEMMA ReaderFacts ==
    ASSUME IInv, Steady, NEW t \in Threads, pc[t] \in {"get", "got"}
    PROVE  /\ Here(t) \in pool \cup {Root, Null} /\ Found(t)
           /\ Ptr(t) = Null \/ Ptr(t) = At(page[t])[Depth(t) + 1]
           /\ Depth(t) < LEVEL_CNT => Ptr(t) \in pool \cup {Null}
           /\ Depth(t) = LEVEL_CNT => Ptr(t) \in Descriptors \cup {Null}
           /\ known[t] => Ptr(t) = At(page[t])[Depth(t) + 1]
<1>1. Depth(t) \in 1..LEVEL_CNT /\ page[t] \in Pages /\ Idx(t) = page[t][Depth(t)]
  BY LevelTypes, HereType DEF IInv
<1>2. Here(t) \in pool \cup {Root, Null}
  BY DEF Steady, Astray
<1>3. Found(t)
  BY DEF IInv, ReadInv, ReadOf, Found
<1>4. Here(t) = At(page[t])[Depth(t)] => Ptr(t) = At(page[t])[Depth(t) + 1]
  BY <1>1, AtFacts DEF IInv, Ptr
<1>5. Ptr(t) = Null \/ Ptr(t) = At(page[t])[Depth(t) + 1]
  <2>1. CASE Here(t) \notin pool \cup {Root}
    BY <2>1, <1>2 DEF Ptr
  <2> QED BY <2>1, <1>3, <1>4 DEF Found
<1>6. ASSUME Depth(t) < LEVEL_CNT PROVE At(page[t])[Depth(t) + 1] \in pool \cup {Null}
  <2>1. Depth(t) + 1 \in 2..LEVEL_CNT
    BY <1>1, <1>6, LevelCntAssumption
  <2> QED BY <2>1, <1>1 DEF IInv, LinkInv
<1>7. ASSUME Depth(t) = LEVEL_CNT PROVE At(page[t])[Depth(t) + 1] \in Descriptors \cup {Null}
  BY <1>1, <1>7 DEF IInv, LinkInv
<1>8. ASSUME known[t] PROVE Ptr(t) = At(page[t])[Depth(t) + 1]
  <2>1. Depth(t) \in 1..Depth(t)
    BY <1>1
  <2>2. at[t][Depth(t)] = At(page[t])[Depth(t)]
    BY <2>1, <1>8 DEF IInv, AtInv
  <2> QED BY <2>2, <1>4 DEF Here
<1> QED BY <1>2, <1>3, <1>5, <1>6, <1>7, <1>8

\* What holds of threads and tables in every step.
LEMMA FreshFacts ==
    ASSUME IInv, NEW t \in Threads
    PROVE  /\ Own(t) \subseteq pool /\ Own(t) \subseteq Levels
           /\ \A l \in Own(t) : Unlinked(l)
           /\ pc[t] \in {"publish", "destroy"} => fresh[t][1] \in Own(t) /\ Len(fresh[t]) \in Nat \ {0}
<1>1. FreshOf(t)
  BY DEF IInv, FreshInv
<1>2. Own(t) \subseteq pool /\ \A l \in Own(t) : Unlinked(l)
  BY <1>1 DEF FreshOf
<1>3. pool \subseteq Levels
  BY DEF IInv, TypeOK
<1>4. ASSUME pc[t] \in {"publish", "destroy"}
      PROVE  fresh[t][1] \in Own(t) /\ Len(fresh[t]) \in Nat \ {0}
  <2>1. Len(fresh[t]) \in Nat \ {0}
    <3>1. CASE pc[t] = "destroy"
      <4>1. Len(fresh[t]) = 1
        BY <3>1, <1>1 DEF FreshOf
      <4> QED BY ONLY <4>1
    <3>2. CASE pc[t] = "publish"
      <4>1. Len(fresh[t]) = LEVEL_CNT - Depth(t) /\ Depth(t) < LEVEL_CNT
        BY <3>2, <1>1 DEF FreshOf, NewTables, IInv, OwnInv, Inner
      <4>2. Depth(t) \in 1..LEVEL_CNT
        BY LevelTypes DEF IInv
      <4> QED BY <4>1, <4>2, LevelCntAssumption
    <3> QED BY <3>1, <3>2, <1>4
  <2>2. 1 \in 1..Len(fresh[t])
    BY <2>1
  <2> QED BY <2>1, <2>2, <1>4 DEF Own
<1> QED BY <1>2, <1>3, <1>4

-----------------------------------------------------------------------------
(* Lookups, the beginnings of calls, and the way down to a page to remove: *)
(* steps that change neither the tree nor what is counted                  *)

\* When the page of t is counted and held as before, every page is.
LEMMA LevelsSame ==
    ASSUME NEW t \in Threads, NEW p \in Pages, OnPage(t, p),
           \A d \in 1..LEVEL_CNT :
              /\ mem[p] = "in" \/ (Working(t) /\ d <= CountedTo(t))
                 <=> mem'[p] = "in" \/ (Working(t)' /\ d <= CountedTo(t)')
              /\ mem[p] = "in" \/ (Working(t) /\ d <= HeldTo(t))
                 <=> mem'[p] = "in" \/ (Working(t)' /\ d <= HeldTo(t)')
    PROVE  \A d \in 1..LEVEL_CNT : Counted(d)' = Counted(d) /\ HeldAt(d)' = HeldAt(d)
<1> SUFFICES ASSUME NEW d \in 1..LEVEL_CNT PROVE Counted(d)' = Counted(d) /\ HeldAt(d)' = HeldAt(d)
  OBVIOUS
<1>1. d \in Int
  OBVIOUS
<1>2. \A q \in Pages : (q \in Counted(d)' <=> q \in Counted(d)) /\ (q \in HeldAt(d)' <=> q \in HeldAt(d))
  BY <1>1, LevelStep
<1>3. Counted(d) \subseteq Pages /\ Counted(d)' \subseteq Pages
      /\ HeldAt(d) \subseteq Pages /\ HeldAt(d)' \subseteq Pages
  BY DEF Counted, HeldAt
<1> QED BY <1>2, <1>3

\* A thread that works on no page before and after a step changes no count.
LEMMA ReaderLevels ==
    ASSUME NEW t \in Threads, Others(t), mem' = mem, ~Working(t), ~(Working(t)')
    PROVE  \A d \in 1..LEVEL_CNT : Counted(d)' = Counted(d) /\ HeldAt(d)' = HeldAt(d)
<1>1. \A u \in Threads \ {t} :
        /\ page'[u] = page[u] /\ (Working(u)' <=> Working(u))
        /\ CountedTo(u)' = CountedTo(u) /\ HeldTo(u)' = HeldTo(u)
  BY OthersSame DEF Others
<1> SUFFICES ASSUME NEW d \in 1..LEVEL_CNT PROVE Counted(d)' = Counted(d) /\ HeldAt(d)' = HeldAt(d)
  OBVIOUS
<1>2. Counted(d)' = Counted(d)
  BY <1>1 DEF Counted
<1>3. HeldAt(d)' = HeldAt(d)
  BY <1>1 DEF HeldAt
<1> QED BY <1>2, <1>3

\* A step that leaves the tree, the counted pages and the tables that threads
\* keep by themselves keeps the invariant.
LEMMA QuietStep ==
    ASSUME IInv, Steady, NEW t \in Threads, Others(t), UNCHANGED tree, TypeOK', OwnInv',
           \A d \in 1..LEVEL_CNT : Counted(d)' = Counted(d) /\ HeldAt(d)' = HeldAt(d),
           {pc[t], pc'[t]} \cap {"load", "publish", "uncount", "unlink", "destroy"} = {},
           \A u \in Threads \ {t} : known[u] => mem'[page[u]] = "in",
           (Working(t) \/ known[t])' => \A d \in 1..Depth(t)' : at'[t][d] = At(page'[t])[d],
           ReadOf(t)'
    PROVE  IInv'
<1> USE DEF IInv
<1>1. m_ptr' = m_ptr /\ m_cnt' = m_cnt /\ pool' = pool
  BY DEF tree
<1>2. \A q : NextAt(q) = At(q)
  BY <1>1 DEF NextAt, At
<1>3. SameAt
  BY <1>2 DEF SameAt
<1>6. ASSUME NEW d \in 1..LEVEL_CNT
      PROVE  /\ Unlinks(d)' = Unlinks(d) /\ Loads(d)' = Loads(d)
             /\ \A u \in Unlinks(d) \cup Loads(d) : page'[u] = page[u]
  <2>1. \A u \in Threads \ {t} : pc'[u] = pc[u] /\ page'[u] = page[u] /\ Depth(u)' = Depth(u)
    BY OthersSame DEF Others
  <2>2. pc[t] \notin {"load", "unlink"} /\ pc'[t] \notin {"load", "unlink"}
    OBVIOUS
  <2> QED BY <2>1, <2>2 DEF Unlinks, Loads
<1>7. LinkInv'
  BY <1>1, <1>3, LinkSame DEF LinkInv
<1>8. UsedInv'
  BY <1>3, <1>6, UsedSame
<1>9. CountInv'
  BY <1>1, <1>3, CountSame, LevelCntAssumption
<1>10. DoomInv'
  <2>1. ASSUME NEW d \in 1..LEVEL_CNT, NEW u \in Unlinks(d)'
        PROVE /\ u \in Unlinks(d) /\ page'[u] = page[u]
              /\ \A q \in Sub(page[u], d) \cap Counted(d)' :
                       q \in Counted(d) \/ \E v \in Loads(d)' : page'[v] = q
              /\ \A v \in Loads(d) : page[v] \in Sub(page[u], d) =>
                       v \in Loads(d)' /\ page'[v] = page[v]
    BY <1>6
  <2> QED BY <2>1, DoomSame
<1>11. AtInv'
  <2>1. \A u \in Threads : page[u] \in Pages /\ page'[u] \in Pages
    BY DEF TypeOK
  <2> QED BY <1>2, <2>1, AtOthers
<1>12. FreshInv'
  <2>1. FreshOf(t)' /\ Own(t)' = {}
    <3>1. pc'[t] \notin {"publish", "uncount", "unlink", "destroy"}
      OBVIOUS
    <3> QED BY <3>1 DEF FreshOf, Own
  <2>2. ASSUME NEW u \in Threads
        PROVE  /\ NextAt(page[u])[Depth(u) + 1] = At(page[u])[Depth(u) + 1]
               /\ \A l \in Own(u) :
                     l \in pool' /\ Unlinked(l)' /\ m_ptr'[l] = m_ptr[l] /\ m_cnt'[l] = m_cnt[l]
    <3>1. \A l : Unlinked(l) => Unlinked(l)'
      BY <1>2 DEF Unlinked, At, NextAt
    <3> QED BY <3>1, <1>1, <1>2, FreshFacts
  <2> QED BY <2>1, <2>2, FreshOthers
<1>13. ReadInv'
  <2>1. ASSUME NEW u \in Threads \ {t}, pc[u] \in {"get", "got"} PROVE Found(u)'
    <3>1. Found(u) /\ Here(u) \in pool \cup {Root, Null}
      BY <2>1, ReaderFacts
    <3>2. pool' \subseteq Levels
      BY DEF TypeOK
    <3> QED BY <1>1, <1>3, <3>1, <3>2, FoundSame
  <2> QED BY <1>2, <2>1, ReadOthers
<1> QED BY <1>7, <1>8, <1>9, <1>10, <1>11, <1>12, <1>13

\* The conjuncts of TypeOK about what threads remember, and about the tree.
LocalOK ==
    /\ pc \in [Threads -> {"idle", "get", "got"} \cup Adding \cup Removing]
    /\ page \in [Threads -> Pages]
    /\ entry \in [Threads -> Descriptors \cup {Null}]
    /\ at \in [Threads -> Seq(Tables \cup {Null})]
    /\ \A t \in Threads : Len(at[t]) \in 1..LEVEL_CNT
    /\ fresh \in [Threads -> Seq(Levels)]
    /\ known \in [Threads -> BOOLEAN]

TreeOK ==
    /\ m_ptr \in [Tables -> [Indices -> Levels \cup Descriptors \cup {Null}]]
    /\ m_cnt \in [Tables -> [Indices -> 0..Cardinality(Pages)]]
    /\ pool \subseteq Levels
    /\ mem \in [Pages -> {"free", "indexing", "in", "deindexing"}]

\* Where every call begins.
LEMMA RootPath ==
    <<Root>> \in Seq(Tables \cup {Null}) /\ Len(<<Root>>) = 1 /\ <<Root>>[1] = Root
    /\ 1 \in 1..LEVEL_CNT
BY LevelCntAssumption DEF Tables

\* What beginning a call changes.
LEMMA BeginFacts ==
    ASSUME TypeOK, NEW t \in Threads, NEW p \in Pages, NEW label, Begin(t, p, label)
    PROVE  /\ pc[t] = "idle" /\ pc'[t] = label /\ page'[t] = p /\ at'[t] = <<Root>>
           /\ Depth(t)' = 1 /\ Here(t)' = Root
           /\ \A u \in Threads \ {t} : pc'[u] = pc[u] /\ page'[u] = page[u] /\ at'[u] = at[u]
<1>1. /\ pc[t] = "idle" /\ pc' = [pc EXCEPT ![t] = label] /\ page' = [page EXCEPT ![t] = p]
      /\ at' = [at EXCEPT ![t] = <<Root>>]
  BY DEF Begin, Goto
<1>2. t \in DOMAIN pc /\ t \in DOMAIN page /\ t \in DOMAIN at
  BY DEF TypeOK
<1>3. /\ pc[t] = "idle" /\ pc'[t] = label /\ page'[t] = p /\ at'[t] = <<Root>>
      /\ \A u \in Threads \ {t} : pc'[u] = pc[u] /\ page'[u] = page[u] /\ at'[u] = at[u]
  BY <1>1, <1>2
<1>4. Depth(t)' = 1 /\ Here(t)' = Root
  BY <1>3, RootPath DEF Depth, Here
<1> QED BY <1>3, <1>4

\* TypeOK in two parts.
LEMMA TypeStep ==
    ASSUME TypeOK, TreeOK', LocalOK', UNCHANGED <<lost, undefined>>
    PROVE  TypeOK'
BY DEF TypeOK, TreeOK, LocalOK

\* Local changes that leave the tree, and what is done with pages.
LEMMA TypeLocal ==
    ASSUME TypeOK, LocalOK', UNCHANGED <<tree, mem, lost, undefined>>
    PROVE  TypeOK'
BY DEF TypeOK, LocalOK, tree

\* Other threads work on other pages; what t does with its page is asked for.
LEMMA OwnOthers ==
    ASSUME OwnInv, NEW t \in Threads, Others(t),
           \A u \in Threads \ {t} : Working(u) => mem'[page[u]] = mem[page[u]],
           pc'[t] \in Adding => mem'[page'[t]] = "indexing" /\ entry'[t] \in Descriptors,
           pc'[t] \in Removing => mem'[page'[t]] = "deindexing",
           pc'[t] \in Inner => Depth(t)' < LEVEL_CNT,
           pc'[t] \in {"store", "erase"} => Depth(t)' = LEVEL_CNT,
           Working(t)' => \A u \in Threads \ {t} : Working(u) => page[u] # page'[t]
    PROVE  OwnInv'
<1>1. ASSUME NEW u \in Threads
      PROVE  /\ pc'[u] \in Adding => mem'[page'[u]] = "indexing" /\ entry'[u] \in Descriptors
             /\ pc'[u] \in Removing => mem'[page'[u]] = "deindexing"
             /\ pc'[u] \in Inner => Depth(u)' < LEVEL_CNT
             /\ pc'[u] \in {"store", "erase"} => Depth(u)' = LEVEL_CNT
  <2>1. CASE u = t
    BY <2>1
  <2>2. CASE u # t
    <3>1. /\ pc'[u] = pc[u] /\ page'[u] = page[u] /\ entry'[u] = entry[u]
          /\ Depth(u)' = Depth(u)
      BY <2>2, OthersSame DEF Others
    <3>2. Working(u) => mem'[page[u]] = mem[page[u]]
      BY <2>2
    <3> QED BY <3>1, <3>2 DEF OwnInv, Working
  <2> QED BY <2>1, <2>2
<1>2. ASSUME NEW u \in Threads, NEW v \in Threads, Working(u)', Working(v)', page'[u] = page'[v]
      PROVE  u = v
  <2>1. \A w \in Threads \ {t} : page'[w] = page[w] /\ (Working(w)' <=> Working(w))
    BY OthersSame DEF Others
  <2> QED BY <2>1, <1>2 DEF OwnInv
<1> QED BY <1>1, <1>2 DEF OwnInv

\* What returning from a call changes.
LEMMA EndFacts ==
    ASSUME TypeOK, NEW t \in Threads, End(t)
    PROVE  /\ Others(t) /\ LocalOK'
           /\ pc'[t] = "idle" /\ ~known'[t] /\ ~(Working(t)') /\ Own(t)' = {}
           /\ FreshOf(t)' /\ ReadOf(t)'
<1>1. /\ pc' = [pc EXCEPT ![t] = "idle"] /\ at' = [at EXCEPT ![t] = <<Root>>]
      /\ entry' = [entry EXCEPT ![t] = Null] /\ fresh' = [fresh EXCEPT ![t] = <<>>]
      /\ page' = [page EXCEPT ![t] = SomePage] /\ known' = [known EXCEPT ![t] = FALSE]
  BY DEF End, Goto
<1>2. /\ t \in DOMAIN pc /\ t \in DOMAIN page /\ t \in DOMAIN at /\ t \in DOMAIN entry
      /\ t \in DOMAIN fresh /\ t \in DOMAIN known
  BY DEF TypeOK
<1>3. Others(t) /\ pc'[t] = "idle" /\ ~known'[t]
  BY <1>1, <1>2 DEF Others
<1>4. SomePage \in Pages
  BY PagesAssumption DEF SomePage
<1>5. LocalOK'
  <2>1. /\ pc' \in [Threads -> {"idle", "get", "got"} \cup Adding \cup Removing]
        /\ page' \in [Threads -> Pages] /\ known' \in [Threads -> BOOLEAN]
        /\ entry' \in [Threads -> Descriptors \cup {Null}]
    BY <1>1, <1>4 DEF TypeOK
  <2>2. fresh' \in [Threads -> Seq(Levels)]
    <3>1. <<>> \in Seq(Levels)
      OBVIOUS
    <3> QED BY <1>1, <3>1 DEF TypeOK
  <2>3. /\ at' \in [Threads -> Seq(Tables \cup {Null})]
        /\ \A u \in Threads : Len(at'[u]) \in 1..LEVEL_CNT
    BY <1>1, RootPath DEF TypeOK
  <2> QED BY <2>1, <2>2, <2>3 DEF LocalOK, Tables
<1>6. ~(Working(t)') /\ Own(t)' = {} /\ FreshOf(t)' /\ ReadOf(t)'
  BY <1>3 DEF Working, Own, FreshOf, ReadOf, Adding, Removing
<1> QED BY <1>3, <1>5, <1>6

\* index_tree::get begins.
LEMMA LookupStep ==
    ASSUME IInv, Steady, NEW t \in Threads, NEW p \in Pages, Lookup(t, p), UNCHANGED <<lost, undefined>>
    PROVE  IInv'
<1>1. Begin(t, p, "get") /\ known' = [known EXCEPT ![t] = mem[p] = "in"] /\ UNCHANGED tree
      /\ mem' = mem /\ entry' = entry /\ fresh' = fresh
  BY DEF Lookup
<1>2. TypeOK
  BY DEF IInv
<1>3. /\ pc[t] = "idle" /\ pc'[t] = "get" /\ page'[t] = p /\ at'[t] = <<Root>>
      /\ Depth(t)' = 1 /\ Here(t)' = Root
      /\ \A u \in Threads \ {t} : pc'[u] = pc[u] /\ page'[u] = page[u] /\ at'[u] = at[u]
  BY <1>1, <1>2, BeginFacts
<1>4. known'[t] = (mem[p] = "in") /\ \A u \in Threads \ {t} : known'[u] = known[u]
  BY <1>1, <1>2 DEF TypeOK
<1>5. Others(t)
  BY <1>1, <1>3, <1>4 DEF Others
<1>6. ~Working(t) /\ ~(Working(t)')
  BY <1>3 DEF Working, Adding, Removing
<1>7. TypeOK'
  <2>1. LocalOK'
    <3>1. /\ pc' = [pc EXCEPT ![t] = "get"] /\ page' = [page EXCEPT ![t] = p]
          /\ at' = [at EXCEPT ![t] = <<Root>>]
      BY <1>1 DEF Begin, Goto
    <3>2. /\ pc' \in [Threads -> {"idle", "get", "got"} \cup Adding \cup Removing]
          /\ page' \in [Threads -> Pages] /\ known' \in [Threads -> BOOLEAN]
      BY <3>1, <1>1, <1>2 DEF TypeOK
    <3>3. /\ at' \in [Threads -> Seq(Tables \cup {Null})]
          /\ \A u \in Threads : Len(at'[u]) \in 1..LEVEL_CNT
      BY <3>1, <1>2, RootPath DEF TypeOK
    <3> QED BY <3>2, <3>3, <1>1, <1>2 DEF LocalOK, TypeOK, Tables
  <2> QED BY <2>1, <1>1, <1>2, TypeLocal
<1>8. OwnInv'
  BY <1>1, <1>3, <1>5, <1>6, OwnOthers DEF IInv, Adding, Removing, Inner
<1>9. \A u \in Threads \ {t} : known[u] => mem'[page[u]] = "in"
  BY <1>1 DEF IInv, ReadInv, ReadOf
<1>10. At(p)[1] = Root
  BY AtFacts DEF IInv
<1>11. \A d \in 1..Depth(t)' : at'[t][d] = At(page'[t])[d]
  BY <1>3, <1>10, RootPath
<1>12. ReadOf(t)'
  <2>1. Here(t)' = NextAt(page'[t])[Depth(t)']
    BY <1>3, PathStep DEF NextAt
  <2> QED BY <2>1, <1>1, <1>3, <1>4 DEF ReadOf, At, NextAt
<1> QED BY <1>1, <1>3, <1>5, <1>6, <1>7, <1>8, <1>9, <1>11, <1>12, ReaderLevels, QuietStep

\* A thread goes on to a table below the one it is in.
LEMMA AppendFacts ==
    ASSUME TypeOK, NEW t \in Threads, NEW x \in Tables \cup {Null}, Depth(t) < LEVEL_CNT,
           at' = [at EXCEPT ![t] = Append(@, x)]
    PROVE  /\ Depth(t)' = Depth(t) + 1 /\ Here(t)' = x
           /\ at'[t][Depth(t) + 1] = x
           /\ \A d \in 1..Depth(t) : at'[t][d] = at[t][d]
           /\ \A u \in Threads \ {t} : at'[u] = at[u]
           /\ at' \in [Threads -> Seq(Tables \cup {Null})]
           /\ \A u \in Threads : Len(at'[u]) \in 1..LEVEL_CNT
<1>1. at[t] \in Seq(Tables \cup {Null}) /\ Len(at[t]) \in 1..LEVEL_CNT /\ Len(at[t]) < LEVEL_CNT
  BY DEF TypeOK, Depth
<1>2. at'[t] = Append(at[t], x) /\ \A u \in Threads \ {t} : at'[u] = at[u]
  BY DEF TypeOK
<1>3. /\ at'[t] \in Seq(Tables \cup {Null}) /\ Len(at'[t]) = Len(at[t]) + 1
      /\ at'[t][Len(at[t]) + 1] = x
      /\ \A d \in 1..Len(at[t]) : at'[t][d] = at[t][d]
  BY <1>1, <1>2
<1>4. Depth(t)' = Depth(t) + 1 /\ Here(t)' = x
  BY <1>3 DEF Depth, Here
<1>5. at' \in [Threads -> Seq(Tables \cup {Null})]
  BY <1>3 DEF TypeOK
<1>6. \A u \in Threads : Len(at'[u]) \in 1..LEVEL_CNT
  <2>1. Len(at'[t]) \in 1..LEVEL_CNT
    BY <1>1, <1>3, LevelCntAssumption
  <2> QED BY <2>1, <1>2 DEF TypeOK
<1> QED BY <1>2, <1>3, <1>4, <1>5, <1>6 DEF Depth

\* get reads a slot, and goes down or returns.
LEMMA GetStep ==
    ASSUME IInv, Steady, NEW t \in Threads, Get(t), UNCHANGED <<lost, undefined>>
    PROVE  IInv'
<1>1. /\ pc[t] = "get" /\ UNCHANGED tree /\ mem' = mem /\ page' = page /\ fresh' = fresh
      /\ known' = known
  BY DEF Get
<1>2. TypeOK /\ Depth(t) \in 1..LEVEL_CNT /\ page[t] \in Pages
  BY LevelTypes, HereType DEF IInv
<1>3. /\ Ptr(t) = Null \/ Ptr(t) = At(page[t])[Depth(t) + 1]
      /\ Depth(t) < LEVEL_CNT => Ptr(t) \in pool \cup {Null}
      /\ Depth(t) = LEVEL_CNT => Ptr(t) \in Descriptors \cup {Null}
      /\ known[t] => Ptr(t) = At(page[t])[Depth(t) + 1]
      /\ Found(t)
  BY <1>1, ReaderFacts
<1>4. ReadOf(t)
  BY DEF IInv, ReadInv
<1>5. \A q : NextAt(q) = At(q)
  BY <1>1 DEF NextAt, At, tree
<1>6. CASE Depth(t) = LEVEL_CNT
  <2>1. entry' = [entry EXCEPT ![t] = Ptr(t)] /\ pc' = [pc EXCEPT ![t] = "got"] /\ at' = at
    BY <1>6 DEF Get, Goto
  <2>2. entry'[t] = Ptr(t) /\ pc'[t] = "got" /\ Others(t)
    BY <1>1, <1>2, <2>1 DEF Others, TypeOK
  <2>3. ~Working(t) /\ ~(Working(t)')
    BY <1>1, <2>2 DEF Working, Adding, Removing
  <2>4. TypeOK'
    <3>1. LocalOK'
      BY <1>1, <1>2, <1>3, <1>6, <2>1 DEF TypeOK, LocalOK, Tables
    <3> QED BY <3>1, <1>1, <1>2, TypeLocal
  <2>5. OwnInv'
    BY <1>1, <2>2, <2>3, OwnOthers DEF IInv, Adding, Removing, Inner
  <2>6. Depth(t)' = Depth(t) /\ Here(t)' = Here(t) /\ Idx(t)' = Idx(t)
    BY <1>1, <2>1 DEF Depth, Here, Idx
  <2>7. ReadOf(t)'
    <3>1. Found(t)'
      <4>1. ASSUME NEW u \in Threads, pc[u] = "destroy", Here(t) \in Own(u), Ptr(t) = Null
            PROVE  pc'[u] = "destroy" /\ Here(t)' \in Own(u)' /\ Ptr(t)' = Null
        <5>1. u # t
          BY <1>1, <4>1
        <5>2. pc'[u] = "destroy" /\ Own(u)' = Own(u)
          BY <5>1, <4>1, <2>2, OthersSame DEF Others
        <5> QED BY <5>2, <4>1, <2>6, <1>1 DEF Ptr, tree
      <4> QED BY <4>1, <1>1, <1>3, <1>5, <2>6 DEF Found, At, NextAt, tree
    <3>2. known'[t] => /\ pc'[t] \in {"get", "got"}
                       /\ mem'[page'[t]] = "in"
                       /\ Depth(t)' = LEVEL_CNT /\ entry'[t] = NextAt(page'[t])[LEVEL_CNT + 1]
      BY <1>1, <1>3, <1>4, <1>5, <1>6, <2>2, <2>6 DEF ReadOf
    <3> QED BY <3>1, <3>2 DEF ReadOf, Found, At, NextAt
  <2>8. (Working(t) \/ known[t])' => \A d \in 1..Depth(t)' : at'[t][d] = At(page'[t])[d]
    BY <1>1, <2>1, <2>3, <2>6 DEF IInv, AtInv
  <2>9. \A u \in Threads \ {t} : known[u] => mem'[page[u]] = "in"
    BY <1>1 DEF IInv, ReadInv, ReadOf
  <2> QED BY <1>1, <2>2, <2>3, <2>4, <2>5, <2>7, <2>8, <2>9, ReaderLevels, QuietStep
<1>7. CASE Depth(t) # LEVEL_CNT
  <2>1. at' = [at EXCEPT ![t] = Append(@, Ptr(t))] /\ pc' = pc /\ entry' = entry
    BY <1>7 DEF Get
  <2>2. Ptr(t) \in Tables \cup {Null} /\ Depth(t) < LEVEL_CNT
    <3>1. Depth(t) < LEVEL_CNT
      BY <1>2, <1>7, LevelCntAssumption
    <3> QED BY <3>1, <1>2, <1>3 DEF TypeOK, Tables
  <2>3. /\ Depth(t)' = Depth(t) + 1 /\ Here(t)' = Ptr(t)
        /\ at'[t][Depth(t) + 1] = Ptr(t)
        /\ \A d \in 1..Depth(t) : at'[t][d] = at[t][d]
        /\ \A u \in Threads \ {t} : at'[u] = at[u]
        /\ at' \in [Threads -> Seq(Tables \cup {Null})]
        /\ \A u \in Threads : Len(at'[u]) \in 1..LEVEL_CNT
    BY <1>2, <2>1, <2>2, AppendFacts
  <2>4. Others(t) /\ pc'[t] = "get"
    BY <1>1, <2>1, <2>3 DEF Others
  <2>5. ~Working(t) /\ ~(Working(t)')
    BY <1>1, <2>4 DEF Working, Adding, Removing
  <2>6. TypeOK'
    <3>1. LocalOK'
      BY <1>1, <1>2, <2>1, <2>3 DEF TypeOK, LocalOK, Tables
    <3> QED BY <3>1, <1>1, <1>2, TypeLocal
  <2>7. OwnInv'
    BY <1>1, <2>4, <2>5, OwnOthers DEF IInv, Adding, Removing, Inner
  <2>8. ReadOf(t)'
    <3>1. Here(t)' \notin pool' \cup {Root} \/ Here(t)' = NextAt(page'[t])[Depth(t)']
      <4>1. CASE Ptr(t) = Null
        BY <4>1, <1>1, <1>2, <2>3, LevelsAssumption DEF tree, TypeOK
      <4>2. CASE Ptr(t) # Null
        BY <4>2, <1>1, <1>3, <1>5, <2>3
      <4> QED BY <4>1, <4>2
    <3>2. known'[t] => pc'[t] \in {"get", "got"} /\ mem'[page'[t]] = "in"
      BY <1>1, <1>4, <2>1 DEF ReadOf
    <3> QED BY <3>1, <3>2, <2>4 DEF ReadOf, At, NextAt
  <2>9. (Working(t) \/ known[t])' => \A d \in 1..Depth(t)' : at'[t][d] = At(page'[t])[d]
    <3>1. SUFFICES ASSUME known[t], NEW d \in 1..Depth(t) + 1 PROVE at'[t][d] = At(page[t])[d]
      BY <1>1, <2>3, <2>5
    <3>2. CASE d = Depth(t) + 1
      BY <3>1, <3>2, <1>3, <2>3
    <3>3. CASE d # Depth(t) + 1
      <4>1. d \in 1..Depth(t)
        BY <3>3, <1>2
      <4> QED BY <4>1, <3>1, <2>3 DEF IInv, AtInv
    <3> QED BY <3>2, <3>3
  <2>10. \A u \in Threads \ {t} : known[u] => mem'[page[u]] = "in"
    BY <1>1 DEF IInv, ReadInv, ReadOf
  <2> QED BY <1>1, <2>4, <2>5, <2>6, <2>7, <2>8, <2>9, <2>10, ReaderLevels, QuietStep
<1> QED BY <1>6, <1>7

\* The descriptor is returned.
LEMMA GotStep ==
    ASSUME IInv, Steady, NEW t \in Threads, Got(t), UNCHANGED <<lost, undefined>>
    PROVE  IInv'
<1>1. pc[t] = "got" /\ End(t) /\ UNCHANGED tree /\ mem' = mem
  BY DEF Got
<1>2. TypeOK
  BY DEF IInv
<1>3. /\ Others(t) /\ LocalOK'
      /\ pc'[t] = "idle" /\ ~known'[t] /\ ~(Working(t)') /\ ReadOf(t)'
  BY <1>1, <1>2, EndFacts
<1>4. ~Working(t)
  BY <1>1 DEF Working, Adding, Removing
<1>5. TypeOK'
  BY <1>1, <1>2, <1>3, TypeLocal
<1>6. OwnInv'
  BY <1>1, <1>3, OwnOthers DEF IInv, Adding, Removing, Inner
<1>7. \A u \in Threads \ {t} : known[u] => mem'[page[u]] = "in"
  BY <1>1 DEF IInv, ReadInv, ReadOf
<1> QED BY <1>1, <1>3, <1>4, <1>5, <1>6, <1>7, ReaderLevels, QuietStep

\* index_tree::index begins.
LEMMA IndexStep ==
    ASSUME IInv, Steady, NEW t \in Threads, NEW p \in Pages, NEW x \in Descriptors,
           Index(t, p, x), UNCHANGED <<lost, undefined>>
    PROVE  IInv'
<1> DEFINE label == IF LEVEL_CNT = 1 THEN "store" ELSE "count"
<1>1. /\ Begin(t, p, label) /\ mem[p] = "free" /\ mem' = [mem EXCEPT ![p] = "indexing"]
      /\ entry' = [entry EXCEPT ![t] = x]
      /\ UNCHANGED tree /\ fresh' = fresh /\ known' = known
  BY DEF Index
<1>2. TypeOK /\ OwnInv
  BY DEF IInv
<1>3. /\ pc[t] = "idle" /\ pc'[t] = label /\ page'[t] = p /\ at'[t] = <<Root>>
      /\ Depth(t)' = 1 /\ Here(t)' = Root
      /\ \A u \in Threads \ {t} : pc'[u] = pc[u] /\ page'[u] = page[u] /\ at'[u] = at[u]
  BY <1>1, <1>2, BeginFacts
<1>4. /\ mem'[p] = "indexing" /\ \A q \in Pages \ {p} : mem'[q] = mem[q]
      /\ entry'[t] = x /\ \A u \in Threads \ {t} : entry'[u] = entry[u]
  BY <1>1, <1>2 DEF TypeOK
<1>5. Others(t)
  BY <1>1, <1>3, <1>4 DEF Others
<1>6. ~Working(t) /\ Working(t)' /\ pc'[t] \in {"store", "count"} /\ pc'[t] \in Adding
  BY <1>3 DEF Working, Adding, Removing
<1>7. \A u \in Threads \ {t} : Working(u) => page[u] # p
  BY <1>1, <1>2 DEF OwnInv, Working
<1>8. OnPage(t, p)
  BY <1>3, <1>4, <1>5, <1>6, <1>7 DEF OnPage
<1>9. TypeOK'
  <2>1. LocalOK'
    <3>1. /\ pc' = [pc EXCEPT ![t] = label] /\ page' = [page EXCEPT ![t] = p]
          /\ at' = [at EXCEPT ![t] = <<Root>>]
      BY <1>1 DEF Begin, Goto
    <3>2. label \in Adding
      BY DEF Adding
    <3>3. /\ pc' \in [Threads -> {"idle", "get", "got"} \cup Adding \cup Removing]
          /\ page' \in [Threads -> Pages] /\ entry' \in [Threads -> Descriptors \cup {Null}]
      BY <3>1, <3>2, <1>1, <1>2 DEF TypeOK
    <3>4. /\ at' \in [Threads -> Seq(Tables \cup {Null})]
          /\ \A u \in Threads : Len(at'[u]) \in 1..LEVEL_CNT
      BY <3>1, <1>2, RootPath DEF TypeOK
    <3> QED BY <3>3, <3>4, <1>1, <1>2 DEF LocalOK, TypeOK, Tables
  <2>2. TreeOK'
    BY <1>1, <1>2 DEF TreeOK, TypeOK, tree
  <2> QED BY <2>1, <2>2, <1>2, TypeStep
<1>10. OwnInv'
  <2>1. pc'[t] \in Inner => 1 < LEVEL_CNT
    BY <1>3, LevelCntAssumption DEF Inner
  <2>2. pc'[t] \in {"store", "erase"} => LEVEL_CNT = 1
    BY <1>3
  <2>3. pc'[t] \notin Removing
    BY <1>6 DEF Removing
  <2>4. \A u \in Threads \ {t} : Working(u) => mem'[page[u]] = mem[page[u]]
    BY <1>2, <1>4, <1>7 DEF TypeOK
  <2> QED BY <2>1, <2>2, <2>3, <2>4, <1>2, <1>3, <1>4, <1>5, <1>7, OwnOthers
<1>11. \A d \in 1..LEVEL_CNT : Counted(d)' = Counted(d) /\ HeldAt(d)' = HeldAt(d)
  <2>1. CountedTo(t)' = 0 /\ HeldTo(t)' = 0
    BY <1>3, <1>6 DEF CountedTo, HeldTo
  <2>2. \A d \in 1..LEVEL_CNT : ~(d <= 0)
    OBVIOUS
  <2> QED BY <2>1, <2>2, <1>1, <1>4, <1>6, <1>8, LevelsSame
<1>12. \A u \in Threads \ {t} : known[u] => mem'[page[u]] = "in"
  <2>1. \A u \in Threads \ {t} : known[u] => page[u] \in Pages /\ mem[page[u]] = "in"
    BY <1>2 DEF IInv, ReadInv, ReadOf, TypeOK
  <2> QED BY <2>1, <1>1, <1>4
<1>13. ~known'[t]
  BY <1>1, <1>3 DEF IInv, ReadInv, ReadOf
<1>14. \A d \in 1..Depth(t)' : at'[t][d] = At(page'[t])[d]
  <2>1. At(p)[1] = Root
    BY AtFacts DEF IInv
  <2> QED BY <2>1, <1>3, RootPath
<1>15. ReadOf(t)'
  BY <1>6, <1>13 DEF ReadOf
<1> QED BY <1>1, <1>3, <1>5, <1>6, <1>9, <1>10, <1>11, <1>12, <1>14, <1>15, QuietStep

\* index_tree::remove_index begins.
LEMMA DeindexStep ==
    ASSUME IInv, Steady, NEW t \in Threads, NEW p \in Pages, Deindex(t, p), UNCHANGED <<lost, undefined>>
    PROVE  IInv'
<1> DEFINE label == IF LEVEL_CNT = 1 THEN "erase" ELSE "descend"
<1>1. /\ Begin(t, p, label) /\ mem[p] = "in" /\ mem' = [mem EXCEPT ![p] = "deindexing"]
      /\ \A u \in Threads : known[u] => page[u] # p
      /\ UNCHANGED tree /\ fresh' = fresh /\ known' = known /\ entry' = entry
  BY DEF Deindex
<1>2. TypeOK /\ OwnInv
  BY DEF IInv
<1>3. /\ pc[t] = "idle" /\ pc'[t] = label /\ page'[t] = p /\ at'[t] = <<Root>>
      /\ Depth(t)' = 1 /\ Here(t)' = Root
      /\ \A u \in Threads \ {t} : pc'[u] = pc[u] /\ page'[u] = page[u] /\ at'[u] = at[u]
  BY <1>1, <1>2, BeginFacts
<1>4. mem'[p] = "deindexing" /\ \A q \in Pages \ {p} : mem'[q] = mem[q]
  BY <1>1, <1>2 DEF TypeOK
<1>5. Others(t)
  BY <1>1, <1>3 DEF Others
<1>6. ~Working(t) /\ Working(t)' /\ pc'[t] \in {"erase", "descend"} /\ pc'[t] \in Removing
  BY <1>3 DEF Working, Adding, Removing
<1>7. \A u \in Threads \ {t} : Working(u) => page[u] # p
  BY <1>1, <1>2 DEF OwnInv, Working
<1>8. OnPage(t, p)
  BY <1>3, <1>4, <1>5, <1>6, <1>7 DEF OnPage
<1>9. TypeOK'
  <2>1. LocalOK'
    <3>1. /\ pc' = [pc EXCEPT ![t] = label] /\ page' = [page EXCEPT ![t] = p]
          /\ at' = [at EXCEPT ![t] = <<Root>>]
      BY <1>1 DEF Begin, Goto
    <3>2. label \in Removing
      BY DEF Removing
    <3>3. /\ pc' \in [Threads -> {"idle", "get", "got"} \cup Adding \cup Removing]
          /\ page' \in [Threads -> Pages]
      BY <3>1, <3>2, <1>1, <1>2 DEF TypeOK
    <3>4. /\ at' \in [Threads -> Seq(Tables \cup {Null})]
          /\ \A u \in Threads : Len(at'[u]) \in 1..LEVEL_CNT
      BY <3>1, <1>2, RootPath DEF TypeOK
    <3> QED BY <3>3, <3>4, <1>1, <1>2 DEF LocalOK, TypeOK, Tables
  <2>2. TreeOK'
    BY <1>1, <1>2 DEF TreeOK, TypeOK, tree
  <2> QED BY <2>1, <2>2, <1>2, TypeStep
<1>10. OwnInv'
  <2>1. pc'[t] \in Inner => 1 < LEVEL_CNT
    BY <1>3, LevelCntAssumption DEF Inner
  <2>2. pc'[t] \in {"store", "erase"} => LEVEL_CNT = 1
    BY <1>3
  <2>3. pc'[t] \notin Adding
    BY <1>6 DEF Adding
  <2>4. \A u \in Threads \ {t} : Working(u) => mem'[page[u]] = mem[page[u]]
    BY <1>2, <1>4, <1>7 DEF TypeOK
  <2> QED BY <2>1, <2>2, <2>3, <2>4, <1>2, <1>3, <1>4, <1>5, <1>7, OwnOthers
<1>11. \A d \in 1..LEVEL_CNT : Counted(d)' = Counted(d) /\ HeldAt(d)' = HeldAt(d)
  <2>1. CountedTo(t)' = LEVEL_CNT /\ HeldTo(t)' = LEVEL_CNT
    BY <1>6 DEF CountedTo, HeldTo
  <2>2. \A d \in 1..LEVEL_CNT : d <= LEVEL_CNT
    OBVIOUS
  <2> QED BY <2>1, <2>2, <1>1, <1>6, <1>8, LevelsSame
<1>12. \A u \in Threads \ {t} : known[u] => mem'[page[u]] = "in"
  <2>1. \A u \in Threads \ {t} : known[u] => page[u] \in Pages /\ mem[page[u]] = "in"
    BY <1>2 DEF IInv, ReadInv, ReadOf, TypeOK
  <2> QED BY <2>1, <1>1, <1>4
<1>13. ~known'[t]
  BY <1>1, <1>3 DEF IInv, ReadInv, ReadOf
<1>14. \A d \in 1..Depth(t)' : at'[t][d] = At(page'[t])[d]
  <2>1. At(p)[1] = Root
    BY AtFacts DEF IInv
  <2> QED BY <2>1, <1>3, RootPath
<1>15. ReadOf(t)'
  BY <1>6, <1>13 DEF ReadOf
<1> QED BY <1>1, <1>3, <1>5, <1>6, <1>9, <1>10, <1>11, <1>12, <1>14, <1>15, QuietStep

\* What working threads have in common.
LEMMA WorkerFacts ==
    ASSUME IInv, NEW t \in Threads, Working(t)
    PROVE  /\ TypeOK /\ OwnInv /\ ~known[t]
           /\ page[t] \in Pages /\ mem[page[t]] \in {"indexing", "deindexing"}
           /\ Depth(t) \in 1..LEVEL_CNT
           /\ \A u \in Threads \ {t} : Working(u) => page[u] # page[t]
           /\ \A u \in Threads : known[u] => page[u] # page[t] /\ mem[page[u]] = "in"
           /\ \A d \in 1..Depth(t) : at[t][d] = At(page[t])[d]
<1>1. TypeOK /\ OwnInv /\ page[t] \in Pages /\ Depth(t) \in 1..LEVEL_CNT
  BY LevelTypes, HereType DEF IInv
<1>2. mem[page[t]] \in {"indexing", "deindexing"}
  BY <1>1 DEF OwnInv, Working
<1>3. \A u \in Threads : known[u] => mem[page[u]] = "in"
  BY DEF IInv, ReadInv, ReadOf
<1>4. \A u \in Threads \ {t} : Working(u) => page[u] # page[t]
  BY <1>1 DEF OwnInv
<1>5. \A d \in 1..Depth(t) : at[t][d] = At(page[t])[d]
  BY DEF IInv, AtInv
<1> QED BY <1>1, <1>2, <1>3, <1>4, <1>5

\* remove_index goes down to the level below.
LEMMA DescendStep ==
    ASSUME IInv, Steady, NEW t \in Threads, Descend(t), UNCHANGED <<lost, undefined>>
    PROVE  IInv'
<1> DEFINE label == IF Depth(t) + 1 = LEVEL_CNT THEN "erase" ELSE "descend"
<1>1. /\ pc[t] = "descend" /\ at' = [at EXCEPT ![t] = Append(@, Ptr(t))]
      /\ pc' = [pc EXCEPT ![t] = label] /\ UNCHANGED tree
      /\ mem' = mem /\ page' = page /\ entry' = entry /\ fresh' = fresh /\ known' = known
  BY DEF Descend, Goto
<1>2. Working(t)
  BY <1>1 DEF Working, Removing
<1>3. /\ TypeOK /\ OwnInv /\ ~known[t]
      /\ page[t] \in Pages /\ mem[page[t]] \in {"indexing", "deindexing"}
      /\ Depth(t) \in 1..LEVEL_CNT
      /\ \A u \in Threads \ {t} : Working(u) => page[u] # page[t]
      /\ \A u \in Threads : known[u] => page[u] # page[t] /\ mem[page[u]] = "in"
      /\ \A d \in 1..Depth(t) : at[t][d] = At(page[t])[d]
  BY <1>2, WorkerFacts
<1>4. Depth(t) < LEVEL_CNT /\ Depth(t) + 1 \in 2..LEVEL_CNT
  BY <1>1, <1>3, LevelCntAssumption DEF OwnInv, Inner
<1>5. Ptr(t) = At(page[t])[Depth(t) + 1] /\ Ptr(t) \in Tables \cup {Null}
  <2>1. Ptr(t) = At(page[t])[Depth(t) + 1]
    BY <1>2, HereFacts
  <2>2. At(page[t])[Depth(t) + 1] \in pool \cup {Null}
    BY <1>3, <1>4 DEF IInv, LinkInv
  <2> QED BY <2>1, <2>2, <1>3 DEF TypeOK, Tables
<1>6. /\ Depth(t)' = Depth(t) + 1 /\ Here(t)' = Ptr(t)
      /\ at'[t][Depth(t) + 1] = Ptr(t)
      /\ \A d \in 1..Depth(t) : at'[t][d] = at[t][d]
      /\ \A u \in Threads \ {t} : at'[u] = at[u]
      /\ at' \in [Threads -> Seq(Tables \cup {Null})]
      /\ \A u \in Threads : Len(at'[u]) \in 1..LEVEL_CNT
  BY <1>1, <1>3, <1>4, <1>5, AppendFacts
<1>7. pc'[t] = label /\ Others(t)
  BY <1>1, <1>3, <1>6 DEF Others, TypeOK
<1>8. Working(t)' /\ pc'[t] \in {"erase", "descend"} /\ pc'[t] \in Removing
  BY <1>7 DEF Working, Removing
<1>9. OnPage(t, page[t])
  BY <1>1, <1>3, <1>7 DEF OnPage
<1>10. TypeOK'
  <2>1. LocalOK'
    <3>1. label \in Removing
      BY DEF Removing
    <3>2. pc' \in [Threads -> {"idle", "get", "got"} \cup Adding \cup Removing]
      BY <3>1, <1>1, <1>3 DEF TypeOK
    <3> QED BY <3>2, <1>1, <1>3, <1>6 DEF LocalOK, TypeOK, Tables
  <2> QED BY <2>1, <1>1, <1>3, TypeLocal
<1>11. OwnInv'
  <2>1. pc'[t] \in Inner => Depth(t)' < LEVEL_CNT
    BY <1>4, <1>6, <1>7, LevelCntAssumption DEF Inner
  <2>2. pc'[t] \in {"store", "erase"} => Depth(t)' = LEVEL_CNT
    BY <1>6, <1>7
  <2>3. pc'[t] \notin Adding
    BY <1>8 DEF Adding
  <2>4. mem[page[t]] = "deindexing"
    BY <1>1, <1>3 DEF OwnInv, Removing
  <2> QED BY <2>1, <2>2, <2>3, <2>4, <1>1, <1>3, <1>7, OwnOthers
<1>12. \A d \in 1..LEVEL_CNT : Counted(d)' = Counted(d) /\ HeldAt(d)' = HeldAt(d)
  <2>1. CountedTo(t)' = LEVEL_CNT /\ HeldTo(t)' = LEVEL_CNT
    BY <1>8 DEF CountedTo, HeldTo
  <2>2. CountedTo(t) = LEVEL_CNT /\ HeldTo(t) = LEVEL_CNT
    BY <1>1 DEF CountedTo, HeldTo
  <2> QED BY <2>1, <2>2, <1>1, <1>2, <1>3, <1>8, <1>9, LevelsSame
<1>13. \A d \in 1..Depth(t)' : at'[t][d] = At(page'[t])[d]
  <2>1. SUFFICES ASSUME NEW d \in 1..Depth(t) + 1 PROVE at'[t][d] = At(page[t])[d]
    BY <1>1, <1>6
  <2>2. d \in 1..Depth(t) \/ d = Depth(t) + 1
    BY <1>3
  <2> QED BY <2>2, <1>3, <1>5, <1>6
<1>14. ReadOf(t)'
  BY <1>1, <1>3, <1>8 DEF ReadOf
<1>15. \A u \in Threads \ {t} : known[u] => mem'[page[u]] = "in"
  BY <1>1, <1>3
<1> QED BY <1>1, <1>7, <1>8, <1>10, <1>11, <1>12, <1>13, <1>14, <1>15, QuietStep

-----------------------------------------------------------------------------
(* Steps of index and deindex that leave the paths                         *)

\* A step of index or deindex that leaves every path keeps the invariant, when
\* the use of tables, their counts and the doomed tables are right after it.
LEMMA WorkStep ==
    ASSUME IInv, Steady, NEW t \in Threads, Working(t), OnPage(t, page[t]), SameAt,
           TypeOK', OwnInv',
           pool \ Own(t) \subseteq pool',
           pc[t] = "destroy" => Own(t) \cap pool' = {},
           \A u \in Threads \ {t} : \A l \in Own(u) : m_ptr'[l] = m_ptr[l] /\ m_cnt'[l] = m_cnt[l],
           pc'[t] \notin {"get", "got"}, ~known'[t],
           Working(t)' => \A d \in 1..Depth(t)' : at'[t][d] = At(page[t])[d],
           FreshOf(t)', \A u \in Threads \ {t} : Own(t)' \cap Own(u) = {},
           UsedInv', CountInv', DoomInv'
    PROVE  IInv'
<1>1. Others(t) /\ (Working(t)' => page'[t] = page[t])
  BY DEF OnPage
<1>2. /\ TypeOK /\ page[t] \in Pages
      /\ \A u \in Threads : known[u] => page[u] # page[t] /\ mem[page[u]] = "in"
  BY WorkerFacts
<1>3. \A u \in Threads : page[u] \in Pages
  BY <1>2 DEF TypeOK
<1>4. LinkInv'
  <2>1. ASSUME NEW p \in Pages, NEW d \in 2..LEVEL_CNT, At(p)[d] # Null PROVE At(p)[d] \in pool'
    <3>1. At(p)[d] \in pool
      BY <2>1 DEF IInv, LinkInv
    <3>2. d \in 1..LEVEL_CNT
      BY LevelCntAssumption
    <3>3. At(p)[d] \notin Own(t)
      BY <3>2, FreshFacts DEF Unlinked
    <3> QED BY <3>1, <3>3
  <2> QED BY <2>1, LinkSame DEF IInv
<1>5. AtInv'
  <2>1. \A u \in Threads \ {t} : \A d \in 1..Depth(u) : NextAt(page[u])[d] = At(page[u])[d]
    <3>1. \A u \in Threads : \A d \in 1..Depth(u) : d \in 1..LEVEL_CNT + 1
      BY <1>2, LevelTypes, LevelCntAssumption
    <3> QED BY <3>1, <1>3 DEF SameAt
  <2>2. ASSUME (Working(t) \/ known[t])', NEW d \in 1..Depth(t)'
        PROVE  at'[t][d] = NextAt(page'[t])[d]
    <3>1. Working(t)' /\ page'[t] = page[t]
      BY <2>2, <1>1
    <3>2. at'[t][d] = At(page[t])[d]
      BY <3>1
    <3>3. d \in 1..LEVEL_CNT + 1
      BY LevelCntAssumption DEF TypeOK, Depth
    <3> QED BY <3>1, <3>2, <3>3, <1>2 DEF SameAt
  <2> QED BY <1>1, <1>2, <2>1, <2>2, AtOthers DEF IInv
<1>6. FreshInv'
  <2>1. ASSUME NEW u \in Threads \ {t}
        PROVE  /\ NextAt(page[u])[Depth(u) + 1] = At(page[u])[Depth(u) + 1]
               /\ \A l \in Own(u) :
                     l \in pool' /\ Unlinked(l)' /\ m_ptr'[l] = m_ptr[l] /\ m_cnt'[l] = m_cnt[l]
    <3>1. Depth(u) + 1 \in 1..LEVEL_CNT + 1
      BY <1>2, LevelTypes, LevelCntAssumption
    <3>2. NextAt(page[u])[Depth(u) + 1] = At(page[u])[Depth(u) + 1]
      BY <3>1, <1>3 DEF SameAt
    <3>3. ASSUME NEW l \in Own(u) PROVE l \in pool' /\ Unlinked(l)'
      <4>1. l \in pool /\ Unlinked(l)
        BY FreshFacts
      <4>2. l \notin Own(t)
        BY DEF IInv, FreshInv
      <4>3. ASSUME NEW p \in Pages, NEW d \in 1..LEVEL_CNT PROVE NextAt(p)[d] # l
        <5>1. d \in 1..LEVEL_CNT + 1
          BY LevelCntAssumption
        <5> QED BY <5>1, <4>1 DEF SameAt, Unlinked
      <4> QED BY <4>1, <4>2, <4>3 DEF Unlinked, At, NextAt
    <3> QED BY <3>2, <3>3
  <2> QED BY <1>1, <2>1, FreshOthers DEF IInv
<1>7. ReadInv'
  <2>1. ASSUME NEW u \in Threads \ {t}, pc[u] \in {"get", "got"} PROVE Found(u)'
    <3>1. Found(u) /\ Here(u) \in pool \cup {Root, Null}
      BY <2>1, ReaderFacts
    <3>2. pool' \subseteq Levels /\ Own(t) \subseteq Levels
      BY FreshFacts DEF TypeOK
    <3> QED BY <1>1, <1>2, <3>1, <3>2, FoundSame
  <2>2. ASSUME NEW u \in Threads \ {t}, known[u]
        PROVE  mem'[page[u]] = "in" /\ NextAt(page[u])[LEVEL_CNT + 1] = At(page[u])[LEVEL_CNT + 1]
    <3>1. LEVEL_CNT + 1 \in 1..LEVEL_CNT + 1
      BY LevelCntAssumption
    <3> QED BY <3>1, <1>2, <1>3, <2>2 DEF SameAt, OnPage
  <2>3. ReadOf(t)'
    BY DEF ReadOf
  <2> QED BY <1>1, <2>1, <2>2, <2>3, ReadOthers DEF IInv
<1> QED BY <1>4, <1>5, <1>6, <1>7 DEF IInv

\* A set of pages has a number of elements.
LEMMA FiniteCounts ==
    ASSUME NEW S \in SUBSET Pages
    PROVE  IsFiniteSet(S) /\ Cardinality(S) \in 0..Cardinality(Pages) /\ Cardinality(Pages) \in Nat
<1>1. IsFiniteSet(S) /\ Cardinality(S) <= Cardinality(Pages)
  BY PagesAssumption, FS_Subset
<1>2. Cardinality(S) \in Nat /\ Cardinality(Pages) \in Nat
  BY <1>1, PagesAssumption, FS_CardinalityType
<1> QED BY <1>1, <1>2

\* One count changes with the pages it counts.
LEMMA CountStep ==
    ASSUME TypeOK, LinkInv, CountInv, SameAt, NEW q0 \in Pages, NEW d \in 1..LEVEL_CNT - 1,
           At(q0)[d] # Null, NEW c,
           m_cnt' = [m_cnt EXCEPT ![At(q0)[d]][q0[d]] = c],
           c = Cardinality(Sub(q0, d) \cap Counted(d)'),
           \A e \in 1..LEVEL_CNT - 1 : e # d => Counted(e)' = Counted(e),
           \A q \in Pages \ {q0} : q \in Counted(d)' <=> q \in Counted(d)
    PROVE  CountInv'
<1>1. ASSUME NEW p \in Pages, NEW e \in 1..LEVEL_CNT - 1, NextAt(p)[e] # Null
      PROVE  m_cnt'[NextAt(p)[e]][p[e]] = Cardinality(Sub(p, e) \cap Counted(e)')
  <2>1. /\ e \in 1..LEVEL_CNT /\ d \in 1..LEVEL_CNT /\ e \in 1..LEVEL_CNT + 1
        /\ d \in 0..LEVEL_CNT /\ e \in 0..LEVEL_CNT
    BY LevelCntAssumption
  <2>2. NextAt(p)[e] = At(p)[e] /\ At(p)[e] # Null
    BY <1>1, <2>1 DEF SameAt
  <2>3. m_cnt[At(p)[e]][p[e]] = Cardinality(Sub(p, e) \cap Counted(e))
    BY <2>2 DEF CountInv
  <2>4. At(p)[e] \in Tables /\ At(q0)[d] \in Tables
    <3>1. At(p)[e] \in pool \cup {Root} /\ At(q0)[d] \in pool \cup {Root}
      BY <2>1, <2>2, AtFacts
    <3> QED BY <3>1 DEF TypeOK, Tables
  <2>5. p[e] \in Indices /\ q0[d] \in Indices
    BY <2>1, PagesAssumption
  <2>6. m_cnt'[At(p)[e]][p[e]] = IF At(p)[e] = At(q0)[d] /\ p[e] = q0[d] THEN c
                                 ELSE m_cnt[At(p)[e]][p[e]]
    BY <2>4, <2>5 DEF TypeOK
  <2>7. CASE At(p)[e] = At(q0)[d] /\ p[e] = q0[d]
    <3>1. e = d /\ p \in Sub(q0, d - 1)
      BY <2>1, <2>2, <2>7 DEF LinkInv
    <3>2. p \in Sub(q0, d)
      BY <3>1, <2>1, <2>7, SubFacts
    <3>3. Sub(p, d) = Sub(q0, d)
      BY <3>2, <2>1, SubFacts
    <3> QED BY <3>1, <3>3, <2>2, <2>6, <2>7
  <2>8. CASE ~(At(p)[e] = At(q0)[d] /\ p[e] = q0[d])
    <3>1. Sub(p, e) \cap Counted(e)' = Sub(p, e) \cap Counted(e)
      <4>1. CASE e # d
        BY <4>1
      <4>2. CASE e = d
        <5>1. q0 \notin Sub(p, d)
          <6>1. SUFFICES ASSUME q0 \in Sub(p, d) PROVE FALSE
            OBVIOUS
          <6>2. At(q0)[d] = At(p)[d]
            <7>1. d \in 1..d + 1
              OBVIOUS
            <7> QED BY <6>1, <7>1, <2>1, AtFacts
          <6>3. q0[d] = p[d]
            BY <6>1, <2>1 DEF Sub
          <6> QED BY <6>2, <6>3, <4>2, <2>8
        <5>2. Sub(p, d) \subseteq Pages
          BY DEF Sub
        <5> QED BY <5>1, <5>2, <4>2
      <4> QED BY <4>1, <4>2
    <3> QED BY <3>1, <2>2, <2>3, <2>6, <2>8
  <2> QED BY <2>7, <2>8
<1>2. \A p : \A e : Sub(p, e)' = Sub(p, e)
  BY DEF Sub
<1> QED BY <1>1, <1>2 DEF CountInv, At, NextAt

\* Another thread is about to unlink or to load when it was before.
LEMMA DoomOthers ==
    ASSUME NEW t \in Threads, Others(t), NEW d
    PROVE  \A u \in Threads \ {t} :
              /\ u \in Unlinks(d)' <=> u \in Unlinks(d)
              /\ u \in Loads(d)' <=> u \in Loads(d)
              /\ page'[u] = page[u]
BY OthersSame DEF Others, Unlinks, Loads

\* A page that is worked on, before and after a step.
LEMMA WorkLevels ==
    ASSUME IInv, NEW t \in Threads, NEW q0, Working(t), q0 = page[t], OnPage(t, q0),
           Working(t)', mem'[q0] # "in"
    PROVE  \A d \in 1..LEVEL_CNT :
              /\ \A q \in Pages \ {q0} : (q \in Counted(d)' <=> q \in Counted(d))
                                   /\ (q \in HeldAt(d)' <=> q \in HeldAt(d))
              /\ q0 \in Counted(d) <=> d <= CountedTo(t)
              /\ q0 \in HeldAt(d) <=> d <= HeldTo(t)
              /\ q0 \in Counted(d)' <=> d <= CountedTo(t)'
              /\ q0 \in HeldAt(d)' <=> d <= HeldTo(t)'
              /\ Counted(d)' = IF d <= CountedTo(t)' THEN Counted(d) \cup {q0}
                              ELSE Counted(d) \ {q0}
              /\ HeldAt(d)' = IF d <= HeldTo(t)' THEN HeldAt(d) \cup {q0} ELSE HeldAt(d) \ {q0}
              /\ (d <= CountedTo(t) <=> d <= CountedTo(t)') => Counted(d)' = Counted(d)
              /\ (d <= HeldTo(t) <=> d <= HeldTo(t)') => HeldAt(d)' = HeldAt(d)
<1>1. q0 \in Pages /\ mem[q0] # "in"
  BY WorkerFacts
<1>2. ASSUME NEW d \in 1..LEVEL_CNT
      PROVE  /\ \A q \in Pages \ {q0} : (q \in Counted(d)' <=> q \in Counted(d))
                                   /\ (q \in HeldAt(d)' <=> q \in HeldAt(d))
             /\ q0 \in Counted(d) <=> d <= CountedTo(t)
             /\ q0 \in HeldAt(d) <=> d <= HeldTo(t)
             /\ q0 \in Counted(d)' <=> d <= CountedTo(t)'
             /\ q0 \in HeldAt(d)' <=> d <= HeldTo(t)'
  <2>1. d \in Int
    OBVIOUS
  <2> QED BY <2>1, <1>1, LevelStep
<1>3. \A d \in 1..LEVEL_CNT : Counted(d) \subseteq Pages /\ Counted(d)' \subseteq Pages
                              /\ HeldAt(d) \subseteq Pages /\ HeldAt(d)' \subseteq Pages
  BY DEF Counted, HeldAt
<1>4. ASSUME NEW d \in 1..LEVEL_CNT
      PROVE  /\ Counted(d)' = IF d <= CountedTo(t)' THEN Counted(d) \cup {q0} ELSE Counted(d) \ {q0}
             /\ (d <= CountedTo(t) <=> d <= CountedTo(t)') => Counted(d)' = Counted(d)
  <2>1. /\ \A q \in Pages \ {q0} : q \in Counted(d)' <=> q \in Counted(d)
        /\ q0 \in Counted(d) <=> d <= CountedTo(t)
        /\ q0 \in Counted(d)' <=> d <= CountedTo(t)'
        /\ Counted(d) \subseteq Pages /\ Counted(d)' \subseteq Pages
    BY <1>2, <1>3
  <2> QED BY ONLY <2>1, <1>1
<1>5. ASSUME NEW d \in 1..LEVEL_CNT
      PROVE  /\ HeldAt(d)' = IF d <= HeldTo(t)' THEN HeldAt(d) \cup {q0} ELSE HeldAt(d) \ {q0}
             /\ (d <= HeldTo(t) <=> d <= HeldTo(t)') => HeldAt(d)' = HeldAt(d)
  <2>1. /\ \A q \in Pages \ {q0} : q \in HeldAt(d)' <=> q \in HeldAt(d)
        /\ q0 \in HeldAt(d) <=> d <= HeldTo(t)
        /\ q0 \in HeldAt(d)' <=> d <= HeldTo(t)'
        /\ HeldAt(d) \subseteq Pages /\ HeldAt(d)' \subseteq Pages
    BY <1>2, <1>3
  <2> QED BY ONLY <2>1, <1>1
<1> QED BY <1>2, <1>4, <1>5

\* index adds its page to the count of the slot.
LEMMA CountStepInv ==
    ASSUME IInv, Steady, NEW t \in Threads, NEW q0, NEW d, q0 = page[t], d = Depth(t),
           Count(t), UNCHANGED <<lost, undefined>>
    PROVE  IInv'
<1>1. /\ pc[t] = "count" /\ m_cnt' = [m_cnt EXCEPT ![Here(t)][Idx(t)] = @ + 1]
      /\ pc' = [pc EXCEPT ![t] = "load"] /\ m_ptr' = m_ptr /\ pool' = pool
      /\ mem' = mem /\ page' = page /\ entry' = entry /\ at' = at /\ fresh' = fresh /\ known' = known
  BY DEF Count, Goto
<1>2. Working(t)
  BY <1>1 DEF Working, Adding
<1>3. /\ TypeOK /\ OwnInv /\ ~known[t]
      /\ q0 \in Pages /\ mem[q0] \in {"indexing", "deindexing"}
      /\ d \in 1..LEVEL_CNT
      /\ \A u \in Threads \ {t} : Working(u) => page[u] # q0
      /\ \A e \in 1..d : at[t][e] = At(q0)[e]
  BY <1>2, WorkerFacts
<1>4. d < LEVEL_CNT /\ d \in 1..LEVEL_CNT - 1 /\ mem[q0] = "indexing" /\ entry[t] \in Descriptors
  BY <1>1, <1>3, LevelCntAssumption DEF OwnInv, Inner, Adding
<1>5. pc'[t] = "load" /\ Others(t) /\ Working(t)' /\ Depth(t)' = d
  BY <1>1, <1>3 DEF Others, TypeOK, Working, Adding, Depth
<1>6. OnPage(t, q0)
  BY <1>1, <1>3, <1>5 DEF OnPage
<1>7. /\ Here(t) = At(q0)[d] /\ Here(t) # Null /\ Here(t) \in Tables /\ Here(t) \in pool \cup {Root}
      /\ Idx(t) = q0[d] /\ Idx(t) \in Indices
  BY <1>2, <1>3, HereFacts, HereType
<1>8. SameAt
  BY <1>1 DEF SameAt, NextAt, At
<1>9. CountedTo(t) = d - 1 /\ HeldTo(t) = d - 1 /\ CountedTo(t)' = d /\ HeldTo(t)' = d - 1
  BY <1>1, <1>5 DEF CountedTo, HeldTo
<1>10. q0 \notin Counted(d)
  <2>1. ~(d <= d - 1)
    BY <1>3
  <2> QED BY <2>1, <1>2, <1>3, <1>9, LevelFacts
<1>11. /\ \A e \in 1..LEVEL_CNT : HeldAt(e)' = HeldAt(e) /\ (e # d => Counted(e)' = Counted(e))
       /\ Counted(d)' = Counted(d) \cup {q0}
  <2>1. mem'[q0] # "in"
    BY <1>1, <1>3
  <2>2. \A e \in 1..LEVEL_CNT : e # d => (e <= d - 1 <=> e <= d)
    BY <1>3
  <2>3. d <= d
    BY <1>3
  <2> QED BY <2>1, <2>2, <2>3, <1>2, <1>3, <1>5, <1>6, <1>9, WorkLevels
<1>12. m_cnt[Here(t)][Idx(t)] = Cardinality(Sub(q0, d) \cap Counted(d))
  BY <1>3, <1>4, <1>7 DEF IInv, CountInv
<1>13. Cardinality(Sub(q0, d) \cap Counted(d)') = m_cnt[Here(t)][Idx(t)] + 1
  <2>1. q0 \in Sub(q0, d) /\ d \in 0..LEVEL_CNT
    BY <1>3, SubFacts
  <2>2. Sub(q0, d) \cap Counted(d)' = (Sub(q0, d) \cap Counted(d)) \cup {q0}
    BY <2>1, <1>3, <1>11
  <2>3. q0 \notin Counted(d)
    BY <1>3, <1>10
  <2>4. IsFiniteSet(Sub(q0, d) \cap Counted(d))
    BY FiniteCounts DEF Sub
  <2> QED BY <2>2, <2>3, <2>4, <1>12, FS_AddElement
<1>14. m_cnt' = [m_cnt EXCEPT ![At(q0)[d]][q0[d]] = Cardinality(Sub(q0, d) \cap Counted(d)')]
  BY <1>1, <1>3, <1>7, <1>13
<1>15. CountInv'
  <2>1. \A e \in 1..LEVEL_CNT - 1 : e # d => Counted(e)' = Counted(e)
    BY <1>11, LevelCntAssumption
  <2>2. \A q \in Pages \ {q0} : q \in Counted(d)' <=> q \in Counted(d)
    BY <1>11
  <2>3. At(q0)[d] # Null
    BY <1>7
  <2> QED BY <2>1, <2>2, <2>3, <1>3, <1>4, <1>8, <1>14, CountStep DEF IInv
<1>16. TypeOK'
  <2>1. LocalOK'
    <3>1. pc' \in [Threads -> {"idle", "get", "got"} \cup Adding \cup Removing]
      BY <1>1, <1>3 DEF TypeOK, Adding
    <3> QED BY <3>1, <1>1, <1>3 DEF LocalOK, TypeOK, Tables
  <2>2. TreeOK'
    <3>1. Cardinality(Sub(q0, d) \cap Counted(d)') \in 0..Cardinality(Pages)
      BY FiniteCounts DEF Sub
    <3>2. m_cnt[Here(t)][Idx(t)] + 1 \in 0..Cardinality(Pages)
      BY <3>1, <1>13
    <3>3. m_cnt' \in [Tables -> [Indices -> 0..Cardinality(Pages)]]
      BY <3>2, <1>1, <1>3, <1>7 DEF TypeOK
    <3> QED BY <3>3, <1>1, <1>3 DEF TreeOK, TypeOK, Tables
  <2> QED BY <2>1, <2>2, <1>3, TypeStep
<1>17. OwnInv'
  <2>1. pc'[t] \notin Removing /\ pc'[t] \notin {"store", "erase"}
    BY <1>5 DEF Removing
  <2> QED BY <2>1, <1>1, <1>3, <1>4, <1>5, OwnOthers
<1>18. UsedInv'
  <2>1. ASSUME NEW e \in 1..LEVEL_CNT, NEW u \in Unlinks(e)
        PROVE  u \in Unlinks(e)' /\ page'[u] = page[u]
    <3>1. u # t /\ u \in Threads
      BY <1>1 DEF Unlinks
    <3> QED BY <3>1, <1>5, DoomOthers
  <2>2. \A e \in 1..LEVEL_CNT : Counted(e) \subseteq Counted(e)'
    BY <1>11
  <2> QED BY <2>1, <2>2, <1>8, <1>11, UsedSame DEF IInv
<1>19. DoomInv'
  <2>1. t \in Loads(d)' /\ page'[t] = q0
    BY <1>1, <1>5 DEF Loads
  <2>2. ASSUME NEW e \in 1..LEVEL_CNT, NEW u \in Unlinks(e)'
        PROVE  /\ u \in Unlinks(e) /\ page'[u] = page[u]
               /\ \A q \in Sub(page[u], e) \cap Counted(e)' :
                     q \in Counted(e) \/ \E v \in Loads(e)' : page'[v] = q
               /\ \A v \in Loads(e) : page[v] \in Sub(page[u], e) =>
                     v \in Loads(e)' /\ page'[v] = page[v]
    <3>1. u # t /\ u \in Threads
      BY <1>5 DEF Unlinks
    <3>2. \A v \in Loads(e) : v # t /\ v \in Threads
      BY <1>1 DEF Loads
    <3>3. \A q \in Counted(e)' : q \in Counted(e) \/ (q = q0 /\ e = d)
      BY <1>11
    <3> QED BY <3>1, <3>2, <3>3, <2>1, <1>5, DoomOthers
  <2> QED BY <2>2, DoomSame DEF IInv
<1>20. FreshOf(t)' /\ Own(t)' = {}
  BY <1>5 DEF FreshOf, Own
<1>21. \A u \in Threads \ {t} : \A l \in Own(u) : m_ptr'[l] = m_ptr[l] /\ m_cnt'[l] = m_cnt[l]
  <2>1. ASSUME NEW u \in Threads, NEW l \in Own(u) PROVE l # Here(t)
    BY <1>3, <1>7, FreshFacts DEF Unlinked
  <2>2. ASSUME NEW l, l # Here(t) PROVE m_cnt'[l] = m_cnt[l]
    <3>1. m_cnt' = [m_cnt EXCEPT ![Here(t)] = [m_cnt[Here(t)] EXCEPT ![Idx(t)] = @ + 1]]
      BY <1>1
    <3>2. CASE l \in Tables
      BY <3>1, <3>2, <2>2, <1>3 DEF TypeOK
    <3>3. CASE l \notin Tables
      BY <3>1, <3>3, <2>2, <1>3 DEF TypeOK
    <3> QED BY <3>2, <3>3
  <2> QED BY <2>1, <2>2, <1>1
<1>22. \A e \in 1..Depth(t)' : at'[t][e] = At(q0)[e]
  BY <1>1, <1>3, <1>5
<1> QED BY <1>1, <1>2, <1>3, <1>5, <1>6, <1>8, <1>15, <1>16, <1>17, <1>18, <1>19, <1>20, <1>21, <1>22,
           WorkStep

\* A thread that adds a page goes into a table that is there already.
LEMMA EnterInv ==
    ASSUME IInv, Steady, NEW t \in Threads, NEW q0, NEW d, q0 = page[t], d = Depth(t),
           pc[t] \in {"load", "publish"}, Ptr(t) # Null,
           pc[t] = "load" => ~Doomed(Ptr(t)),
           Enter(t, Ptr(t)),
           UNCHANGED <<m_ptr, m_cnt, mem, page, entry, known, lost, undefined>>,
           pool' \subseteq pool, pool \ Own(t) \subseteq pool',
           fresh' \in [Threads -> Seq(Levels)], \A u \in Threads \ {t} : fresh'[u] = fresh[u]
    PROVE  IInv'
<1> DEFINE label == IF d + 1 = LEVEL_CNT THEN "store" ELSE "count"
<1>1. /\ pc' = [pc EXCEPT ![t] = label] /\ at' = [at EXCEPT ![t] = Append(@, Ptr(t))]
      /\ m_ptr' = m_ptr /\ m_cnt' = m_cnt /\ mem' = mem /\ page' = page /\ entry' = entry
      /\ known' = known
  BY DEF Enter, Goto
<1>2. Working(t)
  BY DEF Working, Adding
<1>3. /\ TypeOK /\ OwnInv /\ ~known[t]
      /\ q0 \in Pages /\ mem[q0] \in {"indexing", "deindexing"}
      /\ d \in 1..LEVEL_CNT
      /\ \A u \in Threads \ {t} : Working(u) => page[u] # q0
      /\ \A e \in 1..d : at[t][e] = At(q0)[e]
  BY <1>2, WorkerFacts
<1>4. /\ d < LEVEL_CNT /\ d + 1 \in 2..LEVEL_CNT /\ d + 1 \in 1..LEVEL_CNT + 1
      /\ mem[q0] = "indexing" /\ entry[t] \in Descriptors
  BY <1>3, LevelCntAssumption DEF OwnInv, Inner, Adding
<1>5. Ptr(t) = At(q0)[d + 1] /\ Ptr(t) \in pool /\ Ptr(t) \in Tables \cup {Null}
  <2>1. Ptr(t) = At(q0)[d + 1]
    BY <1>2, HereFacts
  <2>2. At(q0)[d + 1] \in pool
    BY <2>1, <1>3, <1>4 DEF IInv, LinkInv
  <2> QED BY <2>1, <2>2, <1>3 DEF TypeOK, Tables
<1>6. /\ Depth(t)' = d + 1
      /\ at'[t][d + 1] = Ptr(t)
      /\ \A e \in 1..d : at'[t][e] = at[t][e]
      /\ \A u \in Threads \ {t} : at'[u] = at[u]
      /\ at' \in [Threads -> Seq(Tables \cup {Null})]
      /\ \A u \in Threads : Len(at'[u]) \in 1..LEVEL_CNT
  BY <1>1, <1>3, <1>4, <1>5, AppendFacts
<1>7. pc'[t] = label /\ Others(t)
  BY <1>1, <1>3, <1>6 DEF Others, TypeOK
<1>8. Working(t)' /\ pc'[t] \in {"store", "count"} /\ pc'[t] \in Adding
  BY <1>7 DEF Working, Adding
<1>9. OnPage(t, q0)
  BY <1>1, <1>3, <1>7 DEF OnPage
<1>10. SameAt
  BY <1>1 DEF SameAt, NextAt, At
<1>11. CountedTo(t) = d /\ HeldTo(t) = d - 1 /\ CountedTo(t)' = d /\ HeldTo(t)' = d
  <2>1. CountedTo(t) = d /\ HeldTo(t) = d - 1
    BY DEF CountedTo, HeldTo
  <2>2. CountedTo(t)' = (d + 1) - 1 /\ HeldTo(t)' = (d + 1) - 1
    BY <1>6, <1>8 DEF CountedTo, HeldTo
  <2> QED BY <2>1, <2>2, <1>3
<1>12. /\ \A e \in 1..LEVEL_CNT : Counted(e)' = Counted(e)
       /\ \A e \in 1..LEVEL_CNT : e # d => HeldAt(e)' = HeldAt(e)
       /\ HeldAt(d)' = HeldAt(d) \cup {q0}
  <2>1. mem'[q0] # "in"
    BY <1>1, <1>3
  <2>2. \A e \in 1..LEVEL_CNT : e # d => (e <= d - 1 <=> e <= d)
    BY <1>3
  <2>3. d <= d
    BY <1>3
  <2> QED BY <2>1, <2>2, <2>3, <1>2, <1>3, <1>8, <1>9, <1>11, WorkLevels
<1>13. TypeOK'
  <2>1. LocalOK'
    <3>1. label \in Adding
      BY DEF Adding
    <3>2. pc' \in [Threads -> {"idle", "get", "got"} \cup Adding \cup Removing]
      BY <3>1, <1>1, <1>3 DEF TypeOK
    <3> QED BY <3>2, <1>1, <1>3, <1>6 DEF LocalOK, TypeOK, Tables
  <2>2. TreeOK'
    BY <1>1, <1>3 DEF TreeOK, TypeOK
  <2> QED BY <2>1, <2>2, <1>3, TypeStep
<1>14. OwnInv'
  <2>1. pc'[t] \in Inner => Depth(t)' < LEVEL_CNT
    BY <1>4, <1>6, <1>7, LevelCntAssumption DEF Inner
  <2>2. pc'[t] \in {"store", "erase"} => Depth(t)' = LEVEL_CNT
    BY <1>6, <1>7
  <2>3. pc'[t] \notin Removing
    BY <1>8 DEF Removing
  <2> QED BY <2>1, <2>2, <2>3, <1>1, <1>3, <1>4, <1>7, OwnOthers
<1>15. UsedInv'
  <2>1. ASSUME NEW e \in 1..LEVEL_CNT, NEW u \in Unlinks(e)
        PROVE  u \in Unlinks(e)' /\ page'[u] = page[u]
    <3>1. u # t /\ u \in Threads
      BY DEF Unlinks
    <3> QED BY <3>1, <1>7, DoomOthers
  <2>2. ASSUME NEW e \in 1..LEVEL_CNT, NEW q \in HeldAt(e)'
        PROVE  q \in HeldAt(e) \/ At(q)[e + 1] # Null
    BY <1>5, <1>12
  <2> QED BY <2>1, <2>2, <1>10, <1>12, UsedSame DEF IInv
<1>16. CountInv'
  BY <1>1, <1>10, <1>12, CountSame, LevelCntAssumption DEF IInv
<1>17. DoomInv'
  <2>1. ASSUME NEW e \in 1..LEVEL_CNT, NEW u \in Unlinks(e)'
        PROVE  /\ u \in Unlinks(e) /\ page'[u] = page[u]
               /\ \A q \in Sub(page[u], e) \cap Counted(e)' :
                     q \in Counted(e) \/ \E v \in Loads(e)' : page'[v] = q
               /\ \A v \in Loads(e) : page[v] \in Sub(page[u], e) =>
                     v \in Loads(e)' /\ page'[v] = page[v]
    <3>1. u # t /\ u \in Threads
      BY <1>8 DEF Unlinks
    <3>2. u \in Unlinks(e) /\ page'[u] = page[u] /\ page[u] \in Pages
      BY <3>1, <1>3, <1>7, DoomOthers DEF TypeOK
    <3>3. ~(t \in Loads(e) /\ q0 \in Sub(page[u], e))
      <4>1. SUFFICES ASSUME t \in Loads(e), q0 \in Sub(page[u], e) PROVE FALSE
        OBVIOUS
      <4>2. e = d /\ pc[t] = "load" /\ pc[u] = "unlink" /\ Depth(u) = d
        BY <4>1, <3>2 DEF Loads, Unlinks
      <4>3. At(q0)[d + 1] = At(page[u])[d + 1]
        <5>1. d \in 0..LEVEL_CNT /\ d + 1 \in 1..d + 1
          BY <1>3
        <5> QED BY <5>1, <4>1, <4>2, AtFacts DEF IInv
      <4>4. fresh[u] = <<Ptr(t)>>
        BY <4>2, <4>3, <1>5, <3>1 DEF IInv, FreshInv, FreshOf
      <4> QED BY <4>2, <4>4, <3>1 DEF Doomed
    <3>4. \A v \in Loads(e) : v \in Threads
      BY DEF Loads
    <3> QED BY <3>2, <3>3, <3>4, <1>7, <1>12, DoomOthers
  <2> QED BY <2>1, DoomSame DEF IInv
<1>18. FreshOf(t)' /\ Own(t)' = {}
  BY <1>8 DEF FreshOf, Own
<1>19. \A e \in 1..Depth(t)' : at'[t][e] = At(q0)[e]
  <2>1. SUFFICES ASSUME NEW e \in 1..d + 1 PROVE at'[t][e] = At(q0)[e]
    BY <1>6
  <2>2. e \in 1..d \/ e = d + 1
    BY <1>3
  <2> QED BY <2>2, <1>3, <1>5, <1>6
<1>20. pc'[t] \notin {"get", "got"} /\ ~known'[t] /\ pc[t] # "destroy"
  BY <1>1, <1>3, <1>8
<1>21. \A u \in Threads \ {t} : \A l \in Own(u) : m_ptr'[l] = m_ptr[l] /\ m_cnt'[l] = m_cnt[l]
  BY <1>1
<1>22. \A u \in Threads \ {t} : Own(t)' \cap Own(u) = {}
  BY <1>18
<1> QED BY <1>2, <1>9, <1>10, <1>13, <1>14, <1>15, <1>16, <1>17, <1>18, <1>19, <1>20, <1>21, <1>22,
           WorkStep

\* index finds the table below and goes into it.
LEMMA LoadLevelStep ==
    ASSUME IInv, Steady, NEW t \in Threads, LoadLevel(t), ~EntersDoomed(t),
           UNCHANGED <<lost, undefined>>
    PROVE  IInv'
<1>1. /\ pc[t] = "load" /\ Ptr(t) # Null /\ ~Doomed(Ptr(t)) /\ Enter(t, Ptr(t))
      /\ UNCHANGED <<m_ptr, m_cnt, mem, page, entry, known, lost, undefined>>
      /\ pool' = pool /\ fresh' = fresh
  BY DEF LoadLevel, EntersDoomed, tree
<1>2. fresh' \in [Threads -> Seq(Levels)]
  BY <1>1 DEF IInv, TypeOK
<1> QED BY <1>1, <1>2, EnterInv

\* index made tables for its page, finds that another thread was faster, and
\* gives them back.
LEMMA PublishLateStep ==
    ASSUME IInv, Steady, NEW t \in Threads, PublishLate(t), UNCHANGED <<lost, undefined>>
    PROVE  IInv'
<1>1. /\ pc[t] = "publish" /\ Ptr(t) # Null /\ Enter(t, Ptr(t))
      /\ UNCHANGED <<m_ptr, m_cnt, mem, page, entry, known, lost, undefined>>
      /\ pool' = pool \ {fresh[t][1]} /\ fresh' = [fresh EXCEPT ![t] = <<>>]
  BY DEF PublishLate
<1>2. fresh' \in [Threads -> Seq(Levels)] /\ \A u \in Threads \ {t} : fresh'[u] = fresh[u]
  <2>1. <<>> \in Seq(Levels)
    OBVIOUS
  <2> QED BY <2>1, <1>1 DEF IInv, TypeOK
<1>3. pool' \subseteq pool /\ pool \ Own(t) \subseteq pool'
  BY <1>1, FreshFacts
<1> QED BY <1>1, <1>2, <1>3, EnterInv

\* remove_index returns to the table above, or is through.
LEMMA UpFacts ==
    ASSUME IInv, Steady, NEW t \in Threads, NEW q0, NEW d, q0 = page[t], d = Depth(t),
           pc[t] \in {"erase", "uncount", "destroy"}, Up(t), NextAt(q0)[d] = At(q0)[d]
    PROVE  /\ OnPage(t, q0) /\ Others(t) /\ LocalOK' /\ OwnInv'
           /\ mem' \in [Pages -> {"free", "indexing", "in", "deindexing"}]
           /\ pc'[t] \in {"idle", "uncount"} /\ ~known'[t]
           /\ FreshOf(t)' /\ Own(t)' = {}
           /\ Working(t)' => \A e \in 1..Depth(t)' : at'[t][e] = At(q0)[e]
           /\ \A e \in 1..LEVEL_CNT :
                 /\ Counted(e)' = IF e <= d - 1 THEN Counted(e) \cup {q0} ELSE Counted(e) \ {q0}
                 /\ HeldAt(e)' = IF e <= d - 1 THEN HeldAt(e) \cup {q0} ELSE HeldAt(e) \ {q0}
           /\ IF d = 1 THEN mem'[q0] = "free" ELSE mem' = mem
<1>1. Working(t) /\ pc[t] \in Removing
  BY DEF Working, Removing
<1>2. /\ TypeOK /\ OwnInv /\ ~known[t]
      /\ q0 \in Pages /\ mem[q0] \in {"indexing", "deindexing"}
      /\ d \in 1..LEVEL_CNT
      /\ \A u \in Threads \ {t} : Working(u) => page[u] # q0
      /\ \A e \in 1..d : at[t][e] = At(q0)[e]
  BY <1>1, WorkerFacts
<1>3. mem[q0] = "deindexing"
  BY <1>1, <1>2 DEF OwnInv
<1>4. CASE d = 1
  <2>1. mem' = [mem EXCEPT ![q0] = "free"] /\ End(t)
    BY <1>4 DEF Up
  <2>2. mem'[q0] = "free" /\ \A q \in Pages \ {q0} : mem'[q] = mem[q]
    BY <2>1, <1>2 DEF TypeOK
  <2>3. /\ Others(t) /\ LocalOK'
        /\ pc'[t] = "idle" /\ ~known'[t] /\ ~(Working(t)') /\ Own(t)' = {}
        /\ FreshOf(t)' /\ ReadOf(t)'
    BY <2>1, <1>2, EndFacts
  <2>4. OnPage(t, q0)
    BY <2>2, <2>3, <1>2 DEF OnPage
  <2>5. OwnInv'
    <3>1. pc'[t] \notin Adding /\ pc'[t] \notin Removing /\ pc'[t] \notin Inner
          /\ pc'[t] \notin {"store", "erase"}
      BY <2>3 DEF Adding, Removing, Inner
    <3>2. \A u \in Threads \ {t} : Working(u) => mem'[page[u]] = mem[page[u]]
      BY <2>2, <1>2 DEF TypeOK
    <3> QED BY <3>1, <3>2, <2>3, <1>2, OwnOthers
  <2>6. ASSUME NEW e \in 1..LEVEL_CNT
        PROVE  Counted(e)' = Counted(e) \ {q0} /\ HeldAt(e)' = HeldAt(e) \ {q0}
    <3>1. e \in Int
      OBVIOUS
    <3>2. /\ \A q \in Pages \ {q0} : (q \in Counted(e)' <=> q \in Counted(e))
                                   /\ (q \in HeldAt(e)' <=> q \in HeldAt(e))
          /\ q0 \notin Counted(e)' /\ q0 \notin HeldAt(e)'
      BY <3>1, <2>2, <2>3, <2>4, <1>2, LevelStep
    <3>3. Counted(e) \subseteq Pages /\ Counted(e)' \subseteq Pages
          /\ HeldAt(e) \subseteq Pages /\ HeldAt(e)' \subseteq Pages
      BY DEF Counted, HeldAt
    <3> QED BY ONLY <3>2, <3>3
  <2>7. \A e \in 1..LEVEL_CNT : ~(e <= d - 1)
    BY <1>4
  <2>8. mem' \in [Pages -> {"free", "indexing", "in", "deindexing"}]
    BY <2>1, <1>2 DEF TypeOK
  <2> QED BY <2>2, <2>3, <2>4, <2>5, <2>6, <2>7, <2>8, <1>4
<1>5. CASE d # 1
  <2>1. /\ at' = [at EXCEPT ![t] = SubSeq(@, 1, d - 1)]
        /\ fresh' = [fresh EXCEPT ![t] = <<Here(t)>>] /\ pc' = [pc EXCEPT ![t] = "uncount"]
        /\ mem' = mem /\ page' = page /\ entry' = entry /\ known' = known
    BY <1>5 DEF Up, Goto
  <2>2. d \in 2..LEVEL_CNT /\ d - 1 \in 1..LEVEL_CNT /\ d - 1 < LEVEL_CNT
    BY <1>2, <1>5, LevelCntAssumption
  <2>3. Here(t) = At(q0)[d] /\ Here(t) # Null /\ Here(t) \in Levels
    <3>1. Here(t) = At(q0)[d] /\ Here(t) # Null
      BY <1>1, HereFacts
    <3>2. At(q0)[d] \in pool
      BY <3>1, <2>2, <1>2 DEF IInv, LinkInv
    <3> QED BY <3>1, <3>2, <1>2 DEF TypeOK
  <2>4. /\ at'[t] \in Seq(Tables \cup {Null}) /\ Len(at'[t]) = d - 1
        /\ \A e \in 1..d - 1 : at'[t][e] = at[t][e]
    <3>1. at[t] \in Seq(Tables \cup {Null}) /\ Len(at[t]) = d /\ at'[t] = SubSeq(at[t], 1, d - 1)
      BY <2>1, <1>2 DEF TypeOK, Depth
    <3> QED BY <3>1, <2>2
  <2>5. /\ Others(t) /\ pc'[t] = "uncount" /\ Depth(t)' = d - 1 /\ fresh'[t] = <<Here(t)>>
    BY <2>1, <2>4, <1>2 DEF Others, TypeOK, Depth
  <2>6. Working(t)' /\ pc'[t] \in Removing
    BY <2>5 DEF Working, Removing
  <2>7. OnPage(t, q0)
    BY <2>1, <2>5, <1>2 DEF OnPage
  <2>8. LocalOK'
    <3>1. pc' \in [Threads -> {"idle", "get", "got"} \cup Adding \cup Removing]
      BY <2>1, <1>2 DEF TypeOK, Removing
    <3>2. fresh' \in [Threads -> Seq(Levels)]
      <4>1. <<Here(t)>> \in Seq(Levels)
        BY <2>3
      <4> QED BY <4>1, <2>1, <1>2 DEF TypeOK
    <3>3. at' \in [Threads -> Seq(Tables \cup {Null})]
      BY <2>1, <2>4, <1>2 DEF TypeOK
    <3>4. \A u \in Threads : Len(at'[u]) \in 1..LEVEL_CNT
      <4>1. \A u \in Threads \ {t} : at'[u] = at[u]
        BY <2>5 DEF Others
      <4> QED BY <4>1, <2>2, <2>4, <1>2 DEF TypeOK
    <3> QED BY <3>1, <3>2, <3>3, <3>4, <2>1, <1>2 DEF LocalOK, TypeOK, Tables
  <2>9. OwnInv'
    <3>1. pc'[t] \notin Adding /\ pc'[t] \notin {"store", "erase"}
      BY <2>5 DEF Adding
    <3> QED BY <3>1, <2>1, <2>2, <2>5, <1>2, <1>3, OwnOthers
  <2>10. FreshOf(t)' /\ Own(t)' = {}
    <3>1. Depth(t)' + 1 = d
      BY <2>2, <2>5
    <3>2. fresh'[t] = <<NextAt(page'[t])[Depth(t)' + 1]>> /\ NextAt(page'[t])[Depth(t)' + 1] # Null
      BY <3>1, <2>1, <2>3, <2>5
    <3>3. Own(t)' = {}
      BY <2>5 DEF Own
    <3> QED BY <3>2, <3>3, <2>5 DEF FreshOf, At, NextAt
  <2>11. \A e \in 1..Depth(t)' : at'[t][e] = At(q0)[e]
    BY <2>2, <2>4, <2>5, <1>2
  <2>12. CountedTo(t)' = d - 1 /\ HeldTo(t)' = d - 1
    BY <2>5 DEF CountedTo, HeldTo
  <2>13. \A e \in 1..LEVEL_CNT :
                 /\ Counted(e)' = IF e <= d - 1 THEN Counted(e) \cup {q0} ELSE Counted(e) \ {q0}
                 /\ HeldAt(e)' = IF e <= d - 1 THEN HeldAt(e) \cup {q0} ELSE HeldAt(e) \ {q0}
    <3>1. mem'[q0] # "in"
      BY <2>1, <1>3
    <3> QED BY <3>1, <2>6, <2>7, <2>12, <1>1, WorkLevels
  <2>14. mem' \in [Pages -> {"free", "indexing", "in", "deindexing"}]
    BY <2>1, <1>2 DEF TypeOK
  <2> QED BY <2>1, <2>5, <2>7, <2>8, <2>9, <2>10, <2>11, <2>13, <2>14, <1>2, <1>5
<1> QED BY <1>4, <1>5

\* A thread that neither loads nor unlinks, and counts no new page, dooms no table.
LEMMA QuietDoom ==
    ASSUME TypeOK, OwnInv, DoomInv, NEW t \in Threads, Others(t),
           {pc[t], pc'[t]} \cap {"load", "unlink"} = {},
           \A d \in 1..LEVEL_CNT - 1 : Counted(d)' \subseteq Counted(d)
    PROVE  /\ DoomInv'
           /\ \A d \in 1..LEVEL_CNT : \A u \in Unlinks(d) : u \in Unlinks(d)' /\ page'[u] = page[u]
<1>1. ASSUME NEW d \in 1..LEVEL_CNT
      PROVE  /\ Unlinks(d)' = Unlinks(d) /\ Loads(d)' = Loads(d)
             /\ \A u \in Unlinks(d) \cup Loads(d) : page'[u] = page[u]
  <2>1. \A u \in Threads \ {t} : pc'[u] = pc[u] /\ page'[u] = page[u] /\ Depth(u)' = Depth(u)
    BY OthersSame DEF Others
  <2>2. pc[t] \notin {"load", "unlink"} /\ pc'[t] \notin {"load", "unlink"}
    OBVIOUS
  <2> QED BY <2>1, <2>2 DEF Unlinks, Loads
<1>2. ASSUME NEW d \in 1..LEVEL_CNT, NEW u \in Unlinks(d)
      PROVE  d \in 1..LEVEL_CNT - 1
  <2>1. Depth(u) < LEVEL_CNT /\ Depth(u) = d
    BY DEF Unlinks, OwnInv, Inner
  <2> QED BY <2>1, LevelCntAssumption
<1>3. ASSUME NEW d \in 1..LEVEL_CNT, NEW u \in Unlinks(d)'
      PROVE /\ u \in Unlinks(d) /\ page'[u] = page[u]
            /\ \A q \in Sub(page[u], d) \cap Counted(d)' :
                     q \in Counted(d) \/ \E v \in Loads(d)' : page'[v] = q
            /\ \A v \in Loads(d) : page[v] \in Sub(page[u], d) =>
                     v \in Loads(d)' /\ page'[v] = page[v]
  BY <1>1, <1>2
<1> QED BY <1>1, <1>3, DoomSame

\* remove_index gives back the table it unlinked.
LEMMA DestroyLevelStep ==
    ASSUME IInv, Steady, NEW t \in Threads, NEW q0, NEW d, q0 = page[t], d = Depth(t),
           DestroyLevel(t), UNCHANGED <<lost, undefined>>
    PROVE  IInv'
<1>1. /\ pc[t] = "destroy" /\ pool' = pool \ {fresh[t][1]} /\ Up(t)
      /\ m_ptr' = m_ptr /\ m_cnt' = m_cnt
  BY DEF DestroyLevel
<1>2. Working(t)
  BY <1>1 DEF Working, Removing
<1>3. TypeOK /\ OwnInv /\ q0 \in Pages /\ d \in 1..LEVEL_CNT
  BY <1>2, WorkerFacts
<1>4. SameAt /\ NextAt(q0)[d] = At(q0)[d]
  BY <1>1 DEF SameAt, NextAt, At
<1>5. /\ OnPage(t, q0) /\ Others(t) /\ LocalOK' /\ OwnInv'
      /\ mem' \in [Pages -> {"free", "indexing", "in", "deindexing"}]
      /\ pc'[t] \in {"idle", "uncount"} /\ ~known'[t]
      /\ FreshOf(t)' /\ Own(t)' = {}
      /\ Working(t)' => \A e \in 1..Depth(t)' : at'[t][e] = At(q0)[e]
      /\ \A e \in 1..LEVEL_CNT :
            /\ Counted(e)' = IF e <= d - 1 THEN Counted(e) \cup {q0} ELSE Counted(e) \ {q0}
            /\ HeldAt(e)' = IF e <= d - 1 THEN HeldAt(e) \cup {q0} ELSE HeldAt(e) \ {q0}
  BY <1>1, <1>4, UpFacts
<1>6. \A e \in 1..LEVEL_CNT : Counted(e)' = Counted(e) /\ HeldAt(e)' = HeldAt(e)
  <2>1. CountedTo(t) = d - 1 /\ HeldTo(t) = d - 1
    BY <1>1 DEF CountedTo, HeldTo
  <2>2. \A e \in 1..LEVEL_CNT : (q0 \in Counted(e) <=> e <= d - 1) /\ (q0 \in HeldAt(e) <=> e <= d - 1)
    BY <2>1, <1>2, <1>3, LevelFacts
  <2>3. ASSUME NEW e \in 1..LEVEL_CNT
        PROVE  /\ e <= d - 1 => Counted(e) \cup {q0} = Counted(e) /\ HeldAt(e) \cup {q0} = HeldAt(e)
               /\ ~(e <= d - 1) => Counted(e) \ {q0} = Counted(e) /\ HeldAt(e) \ {q0} = HeldAt(e)
    <3>1. (q0 \in Counted(e) <=> e <= d - 1) /\ (q0 \in HeldAt(e) <=> e <= d - 1)
      BY <2>2
    <3> QED BY ONLY <3>1
  <2> QED BY <2>3, <1>5
<1>7. TypeOK'
  <2>1. TreeOK'
    BY <1>1, <1>3, <1>5 DEF TreeOK, TypeOK, Tables
  <2> QED BY <2>1, <1>3, <1>5, TypeStep
<1>8. /\ DoomInv'
      /\ \A e \in 1..LEVEL_CNT : \A u \in Unlinks(e) : u \in Unlinks(e)' /\ page'[u] = page[u]
  <2>1. \A e \in 1..LEVEL_CNT - 1 : Counted(e)' \subseteq Counted(e)
    BY <1>6, LevelCntAssumption
  <2>2. {pc[t], pc'[t]} \cap {"load", "unlink"} = {}
    BY <1>1, <1>5
  <2> QED BY <2>1, <2>2, <1>3, <1>5, QuietDoom DEF IInv
<1>9. UsedInv'
  BY <1>4, <1>6, <1>8, UsedSame DEF IInv
<1>10. CountInv'
  BY <1>1, <1>4, <1>6, CountSame, LevelCntAssumption DEF IInv
<1>11. pool \ Own(t) \subseteq pool' /\ Own(t) \cap pool' = {}
  <2>1. Len(fresh[t]) = 1
    BY <1>1 DEF IInv, FreshInv, FreshOf
  <2>2. \A j \in 1..Len(fresh[t]) : j = 1
    BY <2>1
  <2>3. Own(t) \subseteq {fresh[t][1]}
    BY <2>2, <1>1 DEF Own
  <2>4. fresh[t][1] \in Own(t)
    BY <1>1, FreshFacts
  <2> QED BY <2>3, <2>4, <1>1
<1>12. \A u \in Threads \ {t} : \A l \in Own(u) : m_ptr'[l] = m_ptr[l] /\ m_cnt'[l] = m_cnt[l]
  BY <1>1
<1>13. pc'[t] \notin {"get", "got"} /\ \A u \in Threads \ {t} : Own(t)' \cap Own(u) = {}
  BY <1>5
<1> QED BY <1>2, <1>4, <1>5, <1>7, <1>8, <1>9, <1>10, <1>11, <1>12, <1>13, WorkStep

\* remove_index takes its page out of the count of a table, and leaves the table
\* to be destroyed when it was the last one.
LEMMA UncountStep ==
    ASSUME IInv, Steady, NEW t \in Threads, NEW q0, NEW d, q0 = page[t], d = Depth(t),
           Uncount(t), UNCHANGED <<lost, undefined>>
    PROVE  IInv'
<1>1. /\ pc[t] = "uncount" /\ m_cnt' = [m_cnt EXCEPT ![Here(t)][Idx(t)] = @ - 1]
      /\ m_ptr' = m_ptr /\ pool' = pool
      /\ IF m_cnt[Here(t)][Idx(t)] = 1
           THEN Goto(t, "unlink") /\ UNCHANGED <<mem, page, entry, at, fresh, known>>
           ELSE Up(t)
  BY DEF Uncount
<1>2. Working(t)
  BY <1>1 DEF Working, Removing
<1>3. /\ TypeOK /\ OwnInv /\ ~known[t]
      /\ q0 \in Pages /\ mem[q0] \in {"indexing", "deindexing"}
      /\ d \in 1..LEVEL_CNT
      /\ \A u \in Threads \ {t} : Working(u) => page[u] # q0
      /\ \A e \in 1..d : at[t][e] = At(q0)[e]
  BY <1>2, WorkerFacts
<1>4. d < LEVEL_CNT /\ d \in 1..LEVEL_CNT - 1 /\ mem[q0] = "deindexing"
  BY <1>1, <1>3, LevelCntAssumption DEF OwnInv, Inner, Removing
<1>5. /\ Here(t) = At(q0)[d] /\ Here(t) # Null /\ Here(t) \in Tables /\ Here(t) \in pool \cup {Root}
      /\ Idx(t) = q0[d] /\ Idx(t) \in Indices
  BY <1>2, <1>3, HereFacts, HereType
<1>6. SameAt /\ NextAt(q0)[d] = At(q0)[d]
  BY <1>1 DEF SameAt, NextAt, At
<1>7. CountedTo(t) = d /\ HeldTo(t) = d
  BY <1>1 DEF CountedTo, HeldTo
<1>8. \A e \in 1..LEVEL_CNT : (q0 \in Counted(e) <=> e <= d) /\ (q0 \in HeldAt(e) <=> e <= d)
  BY <1>2, <1>3, <1>7, LevelFacts
<1> DEFINE One == m_cnt[Here(t)][Idx(t)] = 1
<1>9. /\ OnPage(t, q0) /\ Others(t) /\ LocalOK' /\ OwnInv'
      /\ mem' \in [Pages -> {"free", "indexing", "in", "deindexing"}]
      /\ pc'[t] \in {"idle", "uncount", "unlink"} /\ ~known'[t]
      /\ One => pc'[t] = "unlink" /\ Depth(t)' = d /\ page'[t] = q0
      /\ ~One => pc'[t] # "unlink"
      /\ FreshOf(t)' /\ Own(t)' = {}
      /\ Working(t)' => \A e \in 1..Depth(t)' : at'[t][e] = At(q0)[e]
      /\ \A e \in 1..LEVEL_CNT :
            /\ Counted(e)' = IF e <= d - 1 THEN Counted(e) \cup {q0} ELSE Counted(e) \ {q0}
            /\ HeldAt(e)' = IF e <= d - 1 THEN HeldAt(e) \cup {q0} ELSE HeldAt(e) \ {q0}
  <2>1. CASE One
    <3>1. /\ pc' = [pc EXCEPT ![t] = "unlink"] /\ mem' = mem /\ page' = page /\ entry' = entry
          /\ at' = at /\ fresh' = fresh /\ known' = known
      BY <1>1, <2>1 DEF Goto
    <3>2. Others(t) /\ pc'[t] = "unlink" /\ Depth(t)' = d /\ page'[t] = q0
      BY <3>1, <1>3 DEF Others, TypeOK, Depth
    <3>3. Working(t)' /\ pc'[t] \notin Adding /\ pc'[t] \notin {"store", "erase"}
      BY <3>2 DEF Working, Removing, Adding
    <3>4. OnPage(t, q0)
      BY <3>1, <3>2, <1>3 DEF OnPage
    <3>5. LocalOK'
      <4>1. pc' \in [Threads -> {"idle", "get", "got"} \cup Adding \cup Removing]
        BY <3>1, <1>3 DEF TypeOK, Removing
      <4> QED BY <4>1, <3>1, <1>3 DEF LocalOK, TypeOK, Tables
    <3>6. OwnInv'
      BY <3>1, <3>2, <3>3, <1>3, <1>4, OwnOthers
    <3>7. FreshOf(t)' /\ Own(t)' = {}
      <4>1. FreshOf(t)
        BY DEF IInv, FreshInv
      <4>2. fresh[t] = <<At(q0)[d + 1]>> /\ At(q0)[d + 1] # Null
        BY <4>1, <1>1 DEF FreshOf
      <4>3. NextAt(q0) = At(q0)
        BY <1>1 DEF NextAt, At
      <4>4. /\ fresh'[t] = <<NextAt(page'[t])[Depth(t)' + 1]>>
            /\ NextAt(page'[t])[Depth(t)' + 1] # Null
        BY <4>2, <4>3, <3>1, <3>2
      <4>5. Own(t)' = {}
        BY <3>2 DEF Own
      <4> QED BY <3>2, <4>4, <4>5 DEF FreshOf, At, NextAt
    <3>8. CountedTo(t)' = d - 1 /\ HeldTo(t)' = d - 1
      BY <3>2 DEF CountedTo, HeldTo
    <3>9. \A e \in 1..LEVEL_CNT :
            /\ Counted(e)' = IF e <= d - 1 THEN Counted(e) \cup {q0} ELSE Counted(e) \ {q0}
            /\ HeldAt(e)' = IF e <= d - 1 THEN HeldAt(e) \cup {q0} ELSE HeldAt(e) \ {q0}
      <4>1. mem'[q0] # "in"
        BY <3>1, <1>4
      <4> QED BY <4>1, <3>3, <3>4, <3>8, <1>2, WorkLevels
    <3>10. \A e \in 1..Depth(t)' : at'[t][e] = At(q0)[e]
      BY <3>1, <3>2, <1>3
    <3>11. ~known'[t] /\ mem' \in [Pages -> {"free", "indexing", "in", "deindexing"}]
      BY <3>1, <1>3 DEF TypeOK
    <3> QED BY <2>1, <3>2, <3>4, <3>5, <3>6, <3>7, <3>9, <3>10, <3>11
  <2>2. CASE ~One
    <3>1. Up(t)
      BY <1>1, <2>2
    <3>2. /\ OnPage(t, q0) /\ Others(t) /\ LocalOK' /\ OwnInv'
          /\ mem' \in [Pages -> {"free", "indexing", "in", "deindexing"}]
          /\ pc'[t] \in {"idle", "uncount"} /\ ~known'[t]
          /\ FreshOf(t)' /\ Own(t)' = {}
          /\ Working(t)' => \A e \in 1..Depth(t)' : at'[t][e] = At(q0)[e]
          /\ \A e \in 1..LEVEL_CNT :
                /\ Counted(e)' = IF e <= d - 1 THEN Counted(e) \cup {q0} ELSE Counted(e) \ {q0}
                /\ HeldAt(e)' = IF e <= d - 1 THEN HeldAt(e) \cup {q0} ELSE HeldAt(e) \ {q0}
      BY <3>1, <1>1, <1>6, UpFacts
    <3> QED BY <3>2, <2>2
  <2> QED BY <2>1, <2>2
<1>10. /\ \A e \in 1..LEVEL_CNT : e # d => Counted(e)' = Counted(e) /\ HeldAt(e)' = HeldAt(e)
       /\ Counted(d)' = Counted(d) \ {q0} /\ HeldAt(d)' = HeldAt(d) \ {q0}
  <2>1. ASSUME NEW e \in 1..LEVEL_CNT, e # d
        PROVE  Counted(e)' = Counted(e) /\ HeldAt(e)' = HeldAt(e)
    <3>1. CASE e <= d - 1
      <4>1. q0 \in Counted(e) /\ q0 \in HeldAt(e)
        BY <3>1, <1>3, <1>8
      <4>2. Counted(e) \cup {q0} = Counted(e) /\ HeldAt(e) \cup {q0} = HeldAt(e)
        BY ONLY <4>1
      <4> QED BY <4>2, <3>1, <1>9
    <3>2. CASE ~(e <= d - 1)
      <4>1. q0 \notin Counted(e) /\ q0 \notin HeldAt(e)
        BY <2>1, <3>2, <1>3, <1>8
      <4>2. Counted(e) \ {q0} = Counted(e) /\ HeldAt(e) \ {q0} = HeldAt(e)
        BY ONLY <4>1
      <4> QED BY <4>2, <3>2, <1>9
    <3> QED BY <3>1, <3>2
  <2>2. ~(d <= d - 1)
    BY <1>3
  <2> QED BY <2>1, <2>2, <1>3, <1>9
<1>11. m_cnt[Here(t)][Idx(t)] = Cardinality(Sub(q0, d) \cap Counted(d))
  BY <1>3, <1>4, <1>5 DEF IInv, CountInv
<1>12. q0 \in Sub(q0, d) /\ d \in 0..LEVEL_CNT /\ q0 \in Counted(d)
  <2>1. d \in 0..LEVEL_CNT /\ d <= d
    BY <1>3
  <2> QED BY <2>1, <1>3, <1>8, SubFacts
<1>13. /\ Sub(q0, d) \cap Counted(d)' = (Sub(q0, d) \cap Counted(d)) \ {q0}
       /\ IsFiniteSet(Sub(q0, d) \cap Counted(d)')
       /\ Cardinality(Sub(q0, d) \cap Counted(d)') = m_cnt[Here(t)][Idx(t)] - 1
       /\ Cardinality(Sub(q0, d) \cap Counted(d)') \in 0..Cardinality(Pages)
  <2>1. Sub(q0, d) \cap Counted(d)' = (Sub(q0, d) \cap Counted(d)) \ {q0}
    BY <1>10
  <2>2. /\ IsFiniteSet(Sub(q0, d) \cap Counted(d)) /\ IsFiniteSet(Sub(q0, d) \cap Counted(d)')
        /\ Cardinality(Sub(q0, d) \cap Counted(d)') \in 0..Cardinality(Pages)
    BY FiniteCounts DEF Sub
  <2>3. q0 \in Sub(q0, d) \cap Counted(d)
    BY <1>12
  <2>4. Cardinality((Sub(q0, d) \cap Counted(d)) \ {q0}) = Cardinality(Sub(q0, d) \cap Counted(d)) - 1
    BY <2>2, <2>3, FS_RemoveElement
  <2>5. Cardinality(Sub(q0, d) \cap Counted(d)') = m_cnt[Here(t)][Idx(t)] - 1
    BY ONLY <2>1, <2>4, <1>11
  <2> QED BY <2>1, <2>2, <2>5
<1>14. One <=> Sub(q0, d) \cap Counted(d)' = {}
  <2>1. m_cnt[Here(t)][Idx(t)] \in Int
    BY <1>3, <1>5 DEF TypeOK
  <2>2. Cardinality(Sub(q0, d) \cap Counted(d)') = 0 <=> Sub(q0, d) \cap Counted(d)' = {}
    BY <1>13, FS_EmptySet
  <2> QED BY <2>1, <2>2, <1>13
<1>15. CountInv'
  <2>1. m_cnt' = [m_cnt EXCEPT ![At(q0)[d]][q0[d]] = Cardinality(Sub(q0, d) \cap Counted(d)')]
    BY <1>1, <1>3, <1>5, <1>13
  <2>2. \A e \in 1..LEVEL_CNT - 1 : e # d => Counted(e)' = Counted(e)
    BY <1>10, LevelCntAssumption
  <2>3. \A q \in Pages \ {q0} : q \in Counted(d)' <=> q \in Counted(d)
    BY <1>10
  <2>4. At(q0)[d] # Null
    BY <1>5
  <2> QED BY <2>1, <2>2, <2>3, <2>4, <1>3, <1>4, <1>6, CountStep DEF IInv
<1>16. TypeOK'
  <2>1. m_cnt' \in [Tables -> [Indices -> 0..Cardinality(Pages)]]
    BY <1>1, <1>3, <1>5, <1>13 DEF TypeOK
  <2>2. TreeOK'
    BY <2>1, <1>1, <1>3, <1>9 DEF TreeOK, TypeOK, Tables
  <2> QED BY <2>2, <1>3, <1>9, TypeStep
\* Nobody is unlinking a table that the page of t is still counted in.
<1>17. ASSUME NEW u \in Unlinks(d) PROVE page[u] \in Pages /\ page[u] \notin Sub(q0, d)
  <2>1. u \in Threads /\ page[u] \in Pages
    BY <1>3 DEF Unlinks, TypeOK
  <2>2. SUFFICES ASSUME page[u] \in Sub(q0, d) PROVE FALSE
    BY <2>1
  <2>3. q0 \in Sub(page[u], d)
    BY <2>2, <1>3, <1>12, SubFacts
  <2>4. PICK v \in Loads(d) : page[v] = q0
    BY <2>3, <1>3, <1>12 DEF IInv, DoomInv
  <2>5. v \in Threads /\ pc[v] = "load"
    BY DEF Loads
  <2>6. Working(v) /\ v # t
    BY <2>5, <1>1 DEF Working, Adding
  <2> QED BY <2>4, <2>5, <2>6, <1>3
<1>18. \A e \in 1..LEVEL_CNT :
          /\ \A u \in Unlinks(e) : u \in Unlinks(e)' /\ page'[u] = page[u] /\ u # t
          /\ \A u \in Unlinks(e)' : u # t => u \in Unlinks(e)
          /\ \A u \in Loads(e) : u \in Loads(e)' /\ page'[u] = page[u]
  <2>1. \A e : \A u \in Unlinks(e) \cup Loads(e) : u # t /\ u \in Threads
    BY <1>1 DEF Unlinks, Loads
  <2>2. \A e : \A u \in Unlinks(e)' : u \in Threads
    BY DEF Unlinks
  <2> QED BY <2>1, <2>2, <1>9, DoomOthers
<1>19. UsedInv'
  <2>1. ASSUME NEW e \in 1..LEVEL_CNT, NEW q \in HeldAt(e)' PROVE NextAt(q)[e + 1] # Null
    <3>1. q \in HeldAt(e) /\ q \in Pages
      BY <1>10 DEF HeldAt
    <3>2. e + 1 \in 1..LEVEL_CNT + 1
      BY LevelCntAssumption
    <3> QED BY <3>1, <3>2, <1>6 DEF IInv, UsedInv, SameAt
  <2>2. ASSUME NEW p \in Pages, NEW e \in 1..LEVEL_CNT, NextAt(p)[e + 1] # Null
        PROVE  Sub(p, e) \cap Counted(e)' # {} \/ \E u \in Unlinks(e)' : page'[u] \in Sub(p, e)
    <3>1. At(p)[e + 1] # Null
      <4>1. e + 1 \in 1..LEVEL_CNT + 1
        BY LevelCntAssumption
      <4> QED BY <4>1, <2>2, <1>6 DEF SameAt
    <3>2. Sub(p, e) \cap Counted(e) # {} \/ \E u \in Unlinks(e) : page[u] \in Sub(p, e)
      BY <3>1 DEF IInv, UsedInv
    <3>3. CASE \E u \in Unlinks(e) : page[u] \in Sub(p, e)
      BY <3>3, <1>18
    <3>4. CASE Sub(p, e) \cap Counted(e) # {}
      <4>1. PICK q \in Sub(p, e) : q \in Counted(e)
        BY <3>4
      <4>2. CASE q # q0 \/ e # d
        BY <4>1, <4>2, <1>10
      <4>3. CASE q = q0 /\ e = d
        <5>1. Sub(q0, d) = Sub(p, d)
          BY <4>1, <4>3, <1>12, SubFacts
        <5>2. CASE One
          <6>1. t \in Unlinks(d)' /\ page'[t] = q0
            BY <5>2, <1>9 DEF Unlinks
          <6> QED BY <6>1, <4>1, <4>3
        <5>3. CASE ~One
          BY <5>1, <5>3, <4>3, <1>14
        <5> QED BY <5>2, <5>3
      <4> QED BY <4>2, <4>3
    <3> QED BY <3>2, <3>3, <3>4
  <2>3. \A p : \A e : Sub(p, e)' = Sub(p, e)
    BY DEF Sub
  <2> QED BY <2>1, <2>2, <2>3 DEF UsedInv, At, NextAt
<1>20. DoomInv'
  <2>1. ASSUME NEW e \in 1..LEVEL_CNT, NEW u \in Unlinks(e)'
        PROVE  /\ \A q \in Sub(page'[u], e) \cap Counted(e)' : \E v \in Loads(e)' : page'[v] = q
               /\ \A w \in Unlinks(e)' : page'[w] \in Sub(page'[u], e) => w = u
    <3>1. CASE u = t
      <4>1. One /\ e = d /\ page'[u] = q0
        BY <3>1, <1>9 DEF Unlinks
      <4>2. Sub(q0, d) \cap Counted(d)' = {}
        BY <4>1, <1>14
      <4>3. ASSUME NEW w \in Unlinks(d)', page'[w] \in Sub(q0, d) PROVE w = t
        <5>1. SUFFICES ASSUME w # t PROVE FALSE
          OBVIOUS
        <5>2. w \in Unlinks(d) /\ page'[w] = page[w]
          BY <5>1, <1>3, <1>18
        <5> QED BY <5>2, <4>3, <1>17
      <4> QED BY <4>1, <4>2, <4>3, <3>1
    <3>2. CASE u # t
      <4>1. u \in Unlinks(e) /\ page'[u] = page[u]
        BY <3>2, <1>18
      <4>2. \A q \in Sub(page[u], e) \cap Counted(e)' : \E v \in Loads(e)' : page'[v] = q
        <5>1. \A q \in Sub(page[u], e) \cap Counted(e) : \E v \in Loads(e) : page[v] = q
          BY <4>1 DEF IInv, DoomInv
        <5>2. Counted(e)' \subseteq Counted(e)
          BY <1>10
        <5> QED BY <5>1, <5>2, <1>18
      <4>3. ASSUME NEW w \in Unlinks(e)', page'[w] \in Sub(page[u], e) PROVE w = u
        <5>1. CASE w = t
          <6>1. e = d /\ page'[w] = q0
            BY <5>1, <1>9 DEF Unlinks
          <6>2. page[u] \in Sub(q0, d)
            BY <6>1, <4>1, <4>3, <1>12, <1>17, SubFacts
          <6> QED BY <6>1, <6>2, <4>1, <1>17
        <5>2. CASE w # t
          <6>1. w \in Unlinks(e) /\ page'[w] = page[w]
            BY <5>2, <1>18
          <6> QED BY <6>1, <4>1, <4>3 DEF IInv, DoomInv
        <5> QED BY <5>1, <5>2
      <4> QED BY <4>1, <4>2, <4>3
    <3> QED BY <3>1, <3>2
  <2>2. \A p : \A e : Sub(p, e)' = Sub(p, e)
    BY DEF Sub
  <2> QED BY <2>1, <2>2 DEF DoomInv, Sub
<1>21. \A u \in Threads \ {t} : \A l \in Own(u) : m_ptr'[l] = m_ptr[l] /\ m_cnt'[l] = m_cnt[l]
  <2>1. ASSUME NEW u \in Threads, NEW l \in Own(u) PROVE l # Here(t)
    BY <1>3, <1>5, FreshFacts DEF Unlinked
  <2>2. ASSUME NEW l, l # Here(t) PROVE m_cnt'[l] = m_cnt[l]
    <3>1. m_cnt' = [m_cnt EXCEPT ![Here(t)] = [m_cnt[Here(t)] EXCEPT ![Idx(t)] = @ - 1]]
      BY <1>1
    <3>2. CASE l \in Tables
      BY <3>1, <3>2, <2>2, <1>3 DEF TypeOK
    <3>3. CASE l \notin Tables
      BY <3>1, <3>3, <2>2, <1>3 DEF TypeOK
    <3> QED BY <3>2, <3>3
  <2> QED BY <2>1, <2>2, <1>1
<1>22. pool \ Own(t) \subseteq pool' /\ pc[t] # "destroy" /\ pc'[t] \notin {"get", "got"}
       /\ \A u \in Threads \ {t} : Own(t)' \cap Own(u) = {}
  BY <1>1, <1>9
<1> QED BY <1>2, <1>6, <1>9, <1>15, <1>16, <1>19, <1>20, <1>21, <1>22, WorkStep

\* The chain of tables that index creates for its page.
LEMMA CreateLevelStep ==
    ASSUME IInv, Steady, NEW t \in Threads, NEW q0, NEW d, q0 = page[t], d = Depth(t),
           CreateLevel(t), UNCHANGED <<lost, undefined>>
    PROVE  IInv' /\ SameAt
<1>1. PICK new \in [1..LEVEL_CNT - Depth(t) -> Levels \ pool] :
        /\ \A j, k \in DOMAIN new : new[j] = new[k] => j = k
        /\ fresh' = [fresh EXCEPT ![t] = new]
        /\ pool' = pool \cup {new[j] : j \in DOMAIN new}
        /\ m_ptr' = [l \in Tables |->
              IF \A j \in DOMAIN new : new[j] # l THEN m_ptr[l]
              ELSE [Empty EXCEPT ![page[t][Depth(t) + (CHOOSE j \in DOMAIN new : new[j] = l)]] =
                      IF (CHOOSE j \in DOMAIN new : new[j] = l) = Len(new) THEN entry[t]
                      ELSE new[(CHOOSE j \in DOMAIN new : new[j] = l) + 1]]]
        /\ m_cnt' = [l \in Tables |->
              IF \A j \in DOMAIN new : new[j] # l THEN m_cnt[l]
              ELSE [NoCount EXCEPT ![page[t][Depth(t) + (CHOOSE j \in DOMAIN new : new[j] = l)]] =
                      IF (CHOOSE j \in DOMAIN new : new[j] = l) = Len(new) THEN 0 ELSE 1]]
  BY DEF CreateLevel
<1>2. /\ pc[t] = "load" /\ Ptr(t) = Null /\ pc' = [pc EXCEPT ![t] = "publish"]
      /\ mem' = mem /\ page' = page /\ entry' = entry /\ at' = at /\ known' = known
  BY DEF CreateLevel, Goto
<1>3. Working(t)
  BY <1>2 DEF Working, Adding
<1>4. /\ TypeOK /\ OwnInv /\ ~known[t]
      /\ q0 \in Pages /\ mem[q0] \in {"indexing", "deindexing"}
      /\ d \in 1..LEVEL_CNT
      /\ \A u \in Threads \ {t} : Working(u) => page[u] # q0
      /\ \A e \in 1..d : at[t][e] = At(q0)[e]
  BY <1>3, WorkerFacts
<1>5. d < LEVEL_CNT /\ d \in 1..LEVEL_CNT - 1 /\ mem[q0] = "indexing" /\ entry[t] \in Descriptors
      /\ LEVEL_CNT - d \in Nat
  BY <1>2, <1>4, LevelCntAssumption DEF OwnInv, Inner, Adding
<1>6. /\ DOMAIN new = 1..LEVEL_CNT - d /\ Len(new) = LEVEL_CNT - d /\ new \in Seq(Levels)
      /\ \A j \in 1..LEVEL_CNT - d : new[j] \in Levels /\ new[j] \notin pool /\ new[j] \in Tables
                                     /\ new[j] # Root /\ new[j] # Null
  BY <1>1, <1>5, LevelsAssumption DEF Tables
<1>7. \A j \in 1..LEVEL_CNT - d : (CHOOSE k \in DOMAIN new : new[k] = new[j]) = j
  BY <1>1, <1>6
<1>8. ASSUME NEW j \in 1..LEVEL_CNT - d
      PROVE  /\ m_ptr'[new[j]] = [Empty EXCEPT ![q0[d + j]] =
                                    IF j = LEVEL_CNT - d THEN entry[t] ELSE new[j + 1]]
             /\ m_cnt'[new[j]] = [NoCount EXCEPT ![q0[d + j]] = IF j = LEVEL_CNT - d THEN 0 ELSE 1]
  BY <1>1, <1>6, <1>7
<1>9. ASSUME NEW l \in Tables, \A j \in 1..LEVEL_CNT - d : new[j] # l
      PROVE  m_ptr'[l] = m_ptr[l] /\ m_cnt'[l] = m_cnt[l]
  BY <1>1, <1>6, <1>9
<1>10. ASSUME NEW l \in pool \cup {Root}
       PROVE  m_ptr'[l] = m_ptr[l] /\ m_cnt'[l] = m_cnt[l] /\ \A j \in 1..LEVEL_CNT - d : new[j] # l
  <2>1. l \in Tables
    BY <1>4 DEF TypeOK, Tables
  <2>2. \A j \in 1..LEVEL_CNT - d : new[j] # l
    BY <1>6
  <2> QED BY <2>1, <2>2, <1>9
<1>11. SameAt
  <2>1. ASSUME NEW q \in Pages, NEW e \in 1..LEVEL_CNT, At(q)[e] # Null
        PROVE  m_ptr'[At(q)[e]] = m_ptr[At(q)[e]]
    <3>1. At(q)[e] \in pool \cup {Root}
      BY <2>1, AtFacts DEF IInv
    <3> QED BY <3>1, <1>10
  <2> QED BY <2>1, SlotsSame
<1>12. pc'[t] = "publish" /\ Others(t) /\ Working(t)' /\ Depth(t)' = d /\ fresh'[t] = new
  BY <1>1, <1>2, <1>4 DEF Others, TypeOK, Working, Adding, Depth
<1>13. OnPage(t, q0)
  BY <1>2, <1>4, <1>12 DEF OnPage
<1>14. CountedTo(t) = d /\ HeldTo(t) = d - 1 /\ CountedTo(t)' = d /\ HeldTo(t)' = d - 1
  BY <1>2, <1>12 DEF CountedTo, HeldTo
<1>15. \A e \in 1..LEVEL_CNT : Counted(e)' = Counted(e) /\ HeldAt(e)' = HeldAt(e)
  <2>1. mem'[q0] # "in"
    BY <1>2, <1>4
  <2> QED BY <2>1, <1>3, <1>12, <1>13, <1>14, WorkLevels
<1>16. TypeOK'
  <2>1. LocalOK'
    <3>1. pc' \in [Threads -> {"idle", "get", "got"} \cup Adding \cup Removing]
      BY <1>2, <1>4 DEF TypeOK, Adding
    <3>2. fresh' \in [Threads -> Seq(Levels)]
      BY <1>1, <1>4, <1>6 DEF TypeOK
    <3> QED BY <3>1, <3>2, <1>2, <1>4 DEF LocalOK, TypeOK, Tables
  <2>2. pool' \subseteq Levels
    BY <1>1, <1>4, <1>6 DEF TypeOK
  <2>3. ASSUME NEW l \in Tables
        PROVE  /\ m_ptr'[l] \in [Indices -> Levels \cup Descriptors \cup {Null}]
               /\ m_cnt'[l] \in [Indices -> 0..Cardinality(Pages)]
    <3>1. CASE \A j \in 1..LEVEL_CNT - d : new[j] # l
      BY <3>1, <1>4, <1>9 DEF TypeOK
    <3>2. ASSUME NEW j \in 1..LEVEL_CNT - d, new[j] = l
          PROVE  /\ m_ptr'[l] \in [Indices -> Levels \cup Descriptors \cup {Null}]
                 /\ m_cnt'[l] \in [Indices -> 0..Cardinality(Pages)]
      <4>1. Empty \in [Indices -> Levels \cup Descriptors \cup {Null}]
        BY DEF Empty
      <4>2. 0 \in 0..Cardinality(Pages) /\ 1 \in 0..Cardinality(Pages)
        <5>1. Cardinality(Pages) \in Nat /\ (Cardinality(Pages) = 0 <=> Pages = {})
          BY PagesAssumption, FS_CardinalityType, FS_EmptySet
        <5> QED BY <5>1, PagesAssumption
      <4>3. NoCount \in [Indices -> 0..Cardinality(Pages)]
        BY <4>2 DEF NoCount
      <4>4. j # LEVEL_CNT - d => new[j + 1] \in Levels
        <5>1. j # LEVEL_CNT - d => j + 1 \in 1..LEVEL_CNT - d
          BY <1>5
        <5> QED BY <5>1, <1>6
      <4>5. m_ptr'[l] \in [Indices -> Levels \cup Descriptors \cup {Null}]
        <5> DEFINE x == IF j = LEVEL_CNT - d THEN entry[t] ELSE new[j + 1]
        <5>1. x \in Levels \cup Descriptors \cup {Null}
          BY <4>4, <1>5
        <5>2. m_ptr'[l] = [Empty EXCEPT ![q0[d + j]] = x]
          BY <3>2, <1>8
        <5> HIDE DEF x
        <5> QED BY ONLY <4>1, <5>1, <5>2
      <4>6. m_cnt'[l] \in [Indices -> 0..Cardinality(Pages)]
        <5> DEFINE x == IF j = LEVEL_CNT - d THEN 0 ELSE 1
        <5>1. x \in 0..Cardinality(Pages)
          BY <4>2
        <5>2. m_cnt'[l] = [NoCount EXCEPT ![q0[d + j]] = x]
          BY <3>2, <1>8
        <5> HIDE DEF x
        <5> QED BY ONLY <4>3, <5>1, <5>2
      <4> QED BY <4>5, <4>6
    <3> QED BY <3>1, <3>2
  <2>4. /\ m_ptr' \in [Tables -> [Indices -> Levels \cup Descriptors \cup {Null}]]
        /\ m_cnt' \in [Tables -> [Indices -> 0..Cardinality(Pages)]]
    <3>1. m_ptr' = [l \in Tables |-> m_ptr'[l]] /\ m_cnt' = [l \in Tables |-> m_cnt'[l]]
      BY <1>1
    <3> HIDE <1>1
    <3> QED BY ONLY <3>1, <2>3
  <2>5. TreeOK'
    BY <2>2, <2>4, <1>2, <1>4 DEF TreeOK, TypeOK, Tables
  <2> QED BY <2>1, <2>5, <1>4, TypeStep
<1>17. OwnInv'
  <2>1. pc'[t] \notin Removing /\ pc'[t] \notin {"store", "erase"}
    BY <1>12 DEF Removing
  <2> QED BY <2>1, <1>2, <1>4, <1>5, <1>12, OwnOthers
<1>18. \A e \in 1..LEVEL_CNT : \A u \in Unlinks(e) : u \in Unlinks(e)' /\ page'[u] = page[u]
  <2>1. \A e : \A u \in Unlinks(e) : u # t /\ u \in Threads
    BY <1>2 DEF Unlinks
  <2> QED BY <2>1, <1>12, DoomOthers
<1>19. UsedInv'
  BY <1>11, <1>15, <1>18, UsedSame DEF IInv
<1>20. CountInv'
  <2>1. ASSUME NEW p \in Pages, NEW e \in 1..LEVEL_CNT - 1, At(p)[e] # Null
        PROVE  m_cnt'[At(p)[e]] = m_cnt[At(p)[e]]
    <3>1. e \in 1..LEVEL_CNT
      BY LevelCntAssumption
    <3>2. At(p)[e] \in pool \cup {Root}
      BY <3>1, <2>1, AtFacts DEF IInv
    <3> QED BY <3>2, <1>10
  <2>2. \A e \in 1..LEVEL_CNT - 1 : Counted(e)' = Counted(e)
    BY <1>15, LevelCntAssumption
  <2> QED BY <2>1, <2>2, <1>11, CountSame DEF IInv
<1>21. DoomInv'
  <2>1. ASSUME NEW e \in 1..LEVEL_CNT, NEW u \in Unlinks(e)'
        PROVE  /\ u \in Unlinks(e) /\ page'[u] = page[u]
               /\ \A q \in Sub(page[u], e) \cap Counted(e)' :
                     q \in Counted(e) \/ \E v \in Loads(e)' : page'[v] = q
               /\ \A v \in Loads(e) : page[v] \in Sub(page[u], e) =>
                     v \in Loads(e)' /\ page'[v] = page[v]
    <3>1. u # t /\ u \in Threads
      BY <1>12 DEF Unlinks
    <3>2. u \in Unlinks(e) /\ page'[u] = page[u] /\ page[u] \in Pages
      BY <3>1, <1>4, <1>12, DoomOthers DEF TypeOK
    <3>3. ~(t \in Loads(e) /\ q0 \in Sub(page[u], e))
      <4>1. SUFFICES ASSUME t \in Loads(e), q0 \in Sub(page[u], e) PROVE FALSE
        OBVIOUS
      <4>2. e = d /\ pc[u] = "unlink" /\ Depth(u) = d
        BY <4>1, <3>2 DEF Loads, Unlinks
      <4>3. At(q0)[d + 1] = At(page[u])[d + 1]
        <5>1. d \in 0..LEVEL_CNT /\ d + 1 \in 1..d + 1
          BY <1>4
        <5> QED BY <5>1, <4>1, <4>2, AtFacts DEF IInv
      <4>4. At(page[u])[d + 1] # Null
        BY <4>2, <3>1 DEF IInv, FreshInv, FreshOf
      <4>5. Ptr(t) = At(q0)[d + 1]
        BY <1>3, HereFacts
      <4> QED BY <4>3, <4>4, <4>5, <1>2
    <3>4. \A v \in Loads(e) : v \in Threads
      BY DEF Loads
    <3> QED BY <3>2, <3>3, <3>4, <1>12, <1>15, DoomOthers
  <2> QED BY <2>1, DoomSame DEF IInv
<1>22. Own(t)' = {new[j] : j \in 1..LEVEL_CNT - d}
  BY <1>6, <1>12 DEF Own
<1>23. FreshOf(t)'
  <2>1. NewTables(t)'
    <3>1. Len(fresh'[t]) = LEVEL_CNT - Depth(t)' /\ page'[t] = q0
      BY <1>2, <1>6, <1>12
    <3>2. \A j, k \in 1..Len(fresh'[t]) : fresh'[t][j] = fresh'[t][k] => j = k
      BY <1>1, <1>6, <1>12
    <3>3. ASSUME NEW j \in 1..LEVEL_CNT - d, NEW i \in Indices
          PROVE  /\ m_ptr'[new[j]][i] = IF i # q0[d + j] THEN Null
                                        ELSE IF j = LEVEL_CNT - d THEN entry[t] ELSE new[j + 1]
                 /\ j # LEVEL_CNT - d => m_cnt'[new[j]][i] = IF i = q0[d + j] THEN 1 ELSE 0
      <4> DEFINE x == IF j = LEVEL_CNT - d THEN entry[t] ELSE new[j + 1]
                 y == IF j = LEVEL_CNT - d THEN 0 ELSE 1
      <4>1. m_ptr'[new[j]] = [Empty EXCEPT ![q0[d + j]] = x]
            /\ m_cnt'[new[j]] = [NoCount EXCEPT ![q0[d + j]] = y]
        BY <1>8
      <4>2. j # LEVEL_CNT - d => y = 1
        OBVIOUS
      <4> HIDE DEF x, y
      <4>3. m_ptr'[new[j]][i] = IF i # q0[d + j] THEN Null ELSE x
        BY ONLY <4>1 DEF Empty
      <4>4. m_cnt'[new[j]][i] = IF i = q0[d + j] THEN y ELSE 0
        BY ONLY <4>1 DEF NoCount
      <4> QED BY ONLY <4>2, <4>3, <4>4 DEF x
    <3> QED BY <3>1, <3>2, <3>3, <1>2, <1>6, <1>12 DEF NewTables
  <2>2. ASSUME NEW l \in Own(t)' PROVE l \in pool' /\ Unlinked(l)'
    <3>1. PICK j \in 1..LEVEL_CNT - d : l = new[j]
      BY <1>22
    <3>2. l \in pool'
      BY <3>1, <1>1, <1>6
    <3>3. ASSUME NEW p \in Pages, NEW e \in 1..LEVEL_CNT PROVE NextAt(p)[e] # l
      <4>1. e \in 1..LEVEL_CNT + 1
        BY LevelCntAssumption
      <4>2. NextAt(p)[e] \in pool \cup {Root, Null}
        BY <4>1, <1>11, AtFacts DEF SameAt, IInv
      <4> QED BY <4>2, <3>1, <1>6
    <3> QED BY <3>2, <3>3 DEF Unlinked, At, NextAt
  <2> QED BY <2>1, <2>2, <1>12 DEF FreshOf
<1>24. \A u \in Threads \ {t} : Own(t)' \cap Own(u) = {}
  <2>1. \A u \in Threads : Own(u) \subseteq pool
    BY FreshFacts
  <2> QED BY <2>1, <1>6, <1>22
<1>25. \A u \in Threads \ {t} : \A l \in Own(u) : m_ptr'[l] = m_ptr[l] /\ m_cnt'[l] = m_cnt[l]
  BY <1>10, FreshFacts
<1>26. \A e \in 1..Depth(t)' : at'[t][e] = At(q0)[e]
  BY <1>2, <1>4, <1>12
<1>27. /\ pool \ Own(t) \subseteq pool' /\ pc[t] # "destroy" /\ pc'[t] \notin {"get", "got"}
       /\ ~known'[t]
  BY <1>1, <1>2, <1>4, <1>12
<1> QED BY <1>3, <1>4, <1>11, <1>12, <1>13, <1>16, <1>17, <1>19, <1>20, <1>21, <1>23, <1>24, <1>25,
           <1>26, <1>27, WorkStep

-----------------------------------------------------------------------------
(* Steps that link tables and descriptors                                  *)

\* A path after the step.
LEMMA NextFacts ==
    /\ \A q : NextAt(q)[1] = Root
    /\ \A q : \A e \in 1..LEVEL_CNT :
          NextAt(q)[e + 1] = IF NextAt(q)[e] = Null THEN Null ELSE m_ptr'[NextAt(q)[e]][q[e]]
    /\ \A q : \A e \in 1..LEVEL_CNT + 1 : \A d \in 1..e : NextAt(q)[e] # Null => NextAt(q)[d] # Null
<1>1. \A q : NextAt(q)[1] = Root
  BY PathStep DEF NextAt
<1>2. \A q : \A e \in 1..LEVEL_CNT :
          NextAt(q)[e + 1] = IF NextAt(q)[e] = Null THEN Null ELSE m_ptr'[NextAt(q)[e]][q[e]]
  BY PathStep DEF NextAt
<1>3. \A q : \A e \in 1..LEVEL_CNT + 1 : \A d \in 1..e : NextAt(q)[e] # Null => NextAt(q)[d] # Null
  BY PathDown DEF NextAt
<1> QED BY <1>1, <1>2, <1>3

\* The step stores x to slot i of table l.
Sets(l, i, x) == m_ptr' = [m_ptr EXCEPT ![l][i] = x]

\* Only the slot of q0 at the level d changes, to x: the paths above it, and of
\* the pages that do not go through it, stay.
Redirects(q0, d, x) ==
    /\ \A l : l # At(q0)[d] => m_ptr'[l] = m_ptr[l]
    /\ At(q0)[d] \in Tables /\ q0[d] \in Indices
    /\ \A i \in Indices : i # q0[d] => m_ptr'[At(q0)[d]][i] = m_ptr[At(q0)[d]][i]
    /\ \A q \in Pages : \A e \in 1..LEVEL_CNT + 1 :
          e <= d \/ q \notin Sub(q0, d) => NextAt(q)[e] = At(q)[e]
    /\ \A q \in Sub(q0, d) : NextAt(q)[d + 1] = x
    /\ \A q \in Sub(q0, d) : \A e \in d + 1..LEVEL_CNT + 1 : x = Null => NextAt(q)[e] = Null

\* A store to a slot of a linked table changes the paths through that slot only.
LEMMA SlotChange ==
    ASSUME TypeOK, LinkInv, NEW q0 \in Pages, NEW d \in 1..LEVEL_CNT, At(q0)[d] # Null, NEW x,
           Sets(At(q0)[d], q0[d], x)
    PROVE  Redirects(q0, d, x)
<1> USE DEF Sets
<1>1. At(q0)[d] \in Tables
  <2>1. At(q0)[d] \in pool \cup {Root}
    BY AtFacts
  <2> QED BY <2>1 DEF TypeOK, Tables
<1>2. q0[d] \in Indices
  BY PagesAssumption
<1>3. \A l \in Tables : \A i \in Indices :
         m_ptr'[l][i] = IF l = At(q0)[d] /\ i = q0[d] THEN x ELSE m_ptr[l][i]
  BY <1>1, <1>2 DEF TypeOK
<1>4. ASSUME NEW l, l # At(q0)[d] PROVE m_ptr'[l] = m_ptr[l]
  <2>1. m_ptr' = [m_ptr EXCEPT ![At(q0)[d]] = [m_ptr[At(q0)[d]] EXCEPT ![q0[d]] = x]]
    OBVIOUS
  <2>2. CASE l \in Tables
    BY <2>1, <2>2, <1>4 DEF TypeOK
  <2>3. CASE l \notin Tables
    BY <2>1, <2>3, <1>4 DEF TypeOK
  <2> QED BY <2>2, <2>3
<1>5. ASSUME NEW q \in Pages, NEW e \in 1..LEVEL_CNT, At(q)[e] # Null, e # d \/ q \notin Sub(q0, d)
      PROVE  m_ptr'[At(q)[e]][q[e]] = m_ptr[At(q)[e]][q[e]]
  <2>1. At(q)[e] \in Tables /\ q[e] \in Indices
    <3>1. At(q)[e] \in pool \cup {Root}
      BY <1>5, AtFacts
    <3>2. q[e] \in Indices
      BY PagesAssumption
    <3> QED BY <3>1, <3>2 DEF TypeOK, Tables
  <2>2. ~(At(q)[e] = At(q0)[d] /\ q[e] = q0[d])
    <3>1. SUFFICES ASSUME At(q)[e] = At(q0)[d], q[e] = q0[d] PROVE FALSE
      OBVIOUS
    <3>2. e = d /\ q \in Sub(q0, d - 1)
      BY <3>1, <1>5 DEF LinkInv
    <3>3. q \in Sub(q0, d)
      BY <3>1, <3>2, SubFacts
    <3> QED BY <3>2, <3>3, <1>5
  <2> QED BY <2>1, <2>2, <1>3
<1>6. ASSUME NEW q \in Pages, NEW e \in 1..LEVEL_CNT + 1, e <= d \/ q \notin Sub(q0, d)
      PROVE  NextAt(q)[e] = At(q)[e]
  <2>1. ASSUME NEW f \in 1..e - 1, Path(m_ptr, q)[f] # Null
        PROVE  m_ptr'[Path(m_ptr, q)[f]][q[f]] = m_ptr[Path(m_ptr, q)[f]][q[f]]
    <3>1. f \in 1..LEVEL_CNT /\ (f # d \/ q \notin Sub(q0, d))
      BY <1>6, LevelCntAssumption
    <3> QED BY <3>1, <2>1, <1>5 DEF At
  <2>2. \A f \in 1..e : Path(m_ptr', q)[f] = Path(m_ptr, q)[f]
    <3>1. \A f \in 1..e - 1 : Path(m_ptr, q)[f] # Null =>
             m_ptr'[Path(m_ptr, q)[f]][q[f]] = m_ptr[Path(m_ptr, q)[f]][q[f]]
      BY <2>1
    <3> QED BY ONLY <3>1, PathAgree
  <2>3. e \in 1..e
    BY LevelCntAssumption
  <2> QED BY <2>2, <2>3 DEF NextAt, At
<1>7. ASSUME NEW q \in Sub(q0, d) PROVE NextAt(q)[d + 1] = x
  <2>1. q \in Pages /\ q[d] = q0[d]
    BY DEF Sub
  <2>2. At(q)[d] = At(q0)[d]
    <3>1. d \in 0..LEVEL_CNT /\ d \in 1..d + 1
      OBVIOUS
    <3> QED BY <3>1, AtFacts
  <2>3. NextAt(q)[d] = At(q0)[d]
    <3>1. d \in 1..LEVEL_CNT + 1 /\ d <= d
      BY LevelCntAssumption
    <3> QED BY <3>1, <2>1, <2>2, <1>6
  <2>4. NextAt(q)[d + 1] = m_ptr'[At(q0)[d]][q0[d]]
    <3>1. NextAt(q)[d + 1] = IF NextAt(q)[d] = Null THEN Null ELSE m_ptr'[NextAt(q)[d]][q[d]]
      BY NextFacts
    <3> QED BY <3>1, <2>1, <2>3
  <2> QED BY <2>4, <1>1, <1>2, <1>3
<1>8. ASSUME x = Null, NEW q \in Sub(q0, d), NEW e \in d + 1..LEVEL_CNT + 1
      PROVE  NextAt(q)[e] = Null
  <2>1. e \in 1..LEVEL_CNT + 1 /\ d + 1 \in 1..e
    BY LevelCntAssumption
  <2>2. NextAt(q)[d + 1] = Null
    BY <1>7, <1>8
  <2> QED BY <2>1, <2>2, NextFacts
<1>9. \A i \in Indices : i # q0[d] => m_ptr'[At(q0)[d]][i] = m_ptr[At(q0)[d]][i]
  BY <1>1, <1>3
<1> QED BY <1>1, <1>2, <1>4, <1>6, <1>7, <1>8, <1>9 DEF Redirects

\* The step gives a page the rest of its path, c, below the level d.
Extends(t, q0, d, c) ==
    /\ At(q0)[d + 1] = Null
    /\ \A q \in Pages : \A e \in 1..LEVEL_CNT + 1 :
          NextAt(q)[e] = IF e <= d \/ q \notin Sub(q0, d) THEN At(q)[e]
                         ELSE IF q \in Sub(q0, e - 1) THEN c[e] ELSE Null
    /\ \A e \in d + 1..LEVEL_CNT : c[e] \in Own(t)
    /\ \A e, f \in d + 1..LEVEL_CNT : c[e] = c[f] => e = f
    /\ c[LEVEL_CNT + 1] \in Descriptors
    /\ \A e \in d + 1..LEVEL_CNT - 1 : \A i \in Indices :
          m_cnt[c[e]][i] = IF i = q0[e] THEN 1 ELSE 0
    /\ \A l : l # At(q0)[d] => m_ptr'[l] = m_ptr[l]

\* The step indexes p.
Adds(p) ==
    /\ At(p)[LEVEL_CNT + 1] = Null /\ NextAt(p)[LEVEL_CNT + 1] \in Descriptors
    /\ \A q \in Pages \ {p} : NextAt(q)[LEVEL_CNT + 1] = At(q)[LEVEL_CNT + 1]

\* The page of t is indexed: the slot it is at links the rest of its path.
LEMMA AddStep ==
    ASSUME IInv, Steady, NEW t \in Threads, NEW q0, NEW d, q0 = page[t], d = Depth(t),
           pc[t] \in {"publish", "store"}, NEW c, Extends(t, q0, d, c),
           m_cnt' = m_cnt, pool' = pool, mem' = [mem EXCEPT ![q0] = "in"], End(t), TypeOK'
    PROVE  IInv' /\ Adds(q0)
<1> USE DEF Extends
<1>1. Working(t) /\ pc[t] \in Adding
  BY DEF Working, Adding
<1>2. /\ TypeOK /\ OwnInv /\ ~known[t]
      /\ q0 \in Pages /\ mem[q0] \in {"indexing", "deindexing"}
      /\ d \in 1..LEVEL_CNT
      /\ \A u \in Threads \ {t} : Working(u) => page[u] # q0
      /\ \A u \in Threads : known[u] => page[u] # q0 /\ mem[page[u]] = "in"
  BY <1>1, WorkerFacts
<1>3. LinkInv /\ UsedInv /\ CountInv /\ AtInv /\ DoomInv /\ FreshInv /\ ReadInv
  BY DEF IInv
<1>4. At(q0)[d] # Null
  BY <1>1, HereFacts
<1>5. /\ Others(t) /\ LocalOK'
      /\ pc'[t] = "idle" /\ ~known'[t] /\ ~(Working(t)') /\ Own(t)' = {}
      /\ FreshOf(t)' /\ ReadOf(t)'
  BY <1>2, EndFacts
<1>6. mem'[q0] = "in" /\ \A q \in Pages \ {q0} : mem'[q] = mem[q]
  BY <1>2 DEF TypeOK
<1>7. OnPage(t, q0)
  BY <1>2, <1>5, <1>6 DEF OnPage
<1>8. OwnInv'
  <2>1. pc'[t] \notin Adding /\ pc'[t] \notin Removing /\ pc'[t] \notin Inner
        /\ pc'[t] \notin {"store", "erase"}
    BY <1>5 DEF Adding, Removing, Inner
  <2>2. \A u \in Threads \ {t} : Working(u) => mem'[page[u]] = mem[page[u]]
    BY <1>2, <1>6 DEF TypeOK
  <2> QED BY <2>1, <2>2, <1>2, <1>5, OwnOthers
\* Nothing was below the slot, and paths that were are.
<1>9. \A q \in Sub(q0, d) : \A e \in d + 1..LEVEL_CNT + 1 : At(q)[e] = Null
  <2>1. ASSUME NEW q \in Sub(q0, d), NEW e \in d + 1..LEVEL_CNT + 1, At(q)[e] # Null PROVE FALSE
    <3>1. At(q)[d + 1] = At(q0)[d + 1]
      <4>1. d \in 0..LEVEL_CNT /\ d + 1 \in 1..d + 1
        BY <1>2
      <4> QED BY <4>1, <1>3, AtFacts
    <3>2. e \in 1..LEVEL_CNT + 1 /\ d + 1 \in 1..e
      BY <1>2
    <3>3. At(q)[d + 1] # Null
      BY <3>2, <2>1, <1>3, AtFacts
    <3> QED BY <3>1, <3>3
  <2> QED BY <2>1
<1>10. \A q \in Pages : \A e \in 1..LEVEL_CNT + 1 : At(q)[e] # Null => NextAt(q)[e] = At(q)[e]
  <2>1. ASSUME NEW q \in Pages, NEW e \in 1..LEVEL_CNT + 1, At(q)[e] # Null
        PROVE  NextAt(q)[e] = At(q)[e]
    <3>1. e <= d \/ q \notin Sub(q0, d)
      <4>1. SUFFICES ASSUME ~(e <= d), q \in Sub(q0, d) PROVE FALSE
        OBVIOUS
      <4>2. e \in d + 1..LEVEL_CNT + 1
        BY <4>1, <1>2
      <4> QED BY <4>1, <4>2, <2>1, <1>9
    <3> QED BY <3>1
  <2> QED BY <2>1
<1>11. \A q \in Pages : \A e \in 1..LEVEL_CNT + 1 : NextAt(q)[e] # Null =>
          \/ NextAt(q)[e] = At(q)[e] /\ At(q)[e] # Null /\ (e <= d \/ q \notin Sub(q0, d))
          \/ NextAt(q)[e] = c[e] /\ e \in d + 1..LEVEL_CNT + 1 /\ q \in Sub(q0, e - 1)
  <2>1. ASSUME NEW q \in Pages, NEW e \in 1..LEVEL_CNT + 1, NextAt(q)[e] # Null,
               ~(e <= d \/ q \notin Sub(q0, d))
        PROVE  NextAt(q)[e] = c[e] /\ e \in d + 1..LEVEL_CNT + 1 /\ q \in Sub(q0, e - 1)
    <3>1. e \in d + 1..LEVEL_CNT + 1
      BY <2>1, <1>2
    <3>2. NextAt(q)[e] = IF q \in Sub(q0, e - 1) THEN c[e] ELSE Null
      BY <2>1
    <3> QED BY <3>1, <3>2, <2>1
  <2> QED BY <2>1
<1>12. \A e \in d + 1..LEVEL_CNT : c[e] \in pool /\ c[e] \in Levels /\ Unlinked(c[e]) /\ c[e] # Null
  <2>1. Own(t) \subseteq pool /\ Own(t) \subseteq Levels /\ \A l \in Own(t) : Unlinked(l)
    BY FreshFacts
  <2> QED BY <2>1, LevelsAssumption
<1>13. c[LEVEL_CNT + 1] # Null
  BY LevelsAssumption
<1>14. LinkInv'
  <2>1. ASSUME NEW p \in Pages, NEW e \in 2..LEVEL_CNT, NextAt(p)[e] # Null
        PROVE  NextAt(p)[e] \in pool'
    <3>1. e \in 1..LEVEL_CNT + 1
      BY LevelCntAssumption
    <3>2. CASE NextAt(p)[e] = At(p)[e] /\ At(p)[e] # Null
      BY <3>2, <1>3 DEF LinkInv
    <3>3. CASE NextAt(p)[e] = c[e] /\ e \in d + 1..LEVEL_CNT + 1
      <4>1. e \in d + 1..LEVEL_CNT
        BY <3>3, <1>2
      <4> QED BY <4>1, <3>3, <1>12
    <3> QED BY <3>1, <3>2, <3>3, <2>1, <1>11
  <2>2. ASSUME NEW p \in Pages PROVE NextAt(p)[LEVEL_CNT + 1] \in Descriptors \cup {Null}
    <3>1. LEVEL_CNT + 1 \in 1..LEVEL_CNT + 1
      BY LevelCntAssumption
    <3> QED BY <3>1, <1>3, <1>11 DEF LinkInv
  <2>3. ASSUME NEW p \in Pages, NEW q \in Pages, NEW e \in 1..LEVEL_CNT, NEW f \in 1..LEVEL_CNT,
               NextAt(p)[e] # Null, NextAt(p)[e] = NextAt(q)[f]
        PROVE  e = f /\ p \in Sub(q, e - 1)
    <3>1. e \in 1..LEVEL_CNT + 1 /\ f \in 1..LEVEL_CNT + 1
      BY LevelCntAssumption
    <3> DEFINE Old(g, h) == NextAt(g)[h] = At(g)[h] /\ At(g)[h] # Null
               New(g, h) == NextAt(g)[h] = c[h] /\ h \in d + 1..LEVEL_CNT /\ g \in Sub(q0, h - 1)
    <3>2. (Old(p, e) \/ New(p, e)) /\ (Old(q, f) \/ New(q, f))
      <4>1. \A h \in 1..LEVEL_CNT : h \in d + 1..LEVEL_CNT + 1 => h \in d + 1..LEVEL_CNT
        BY <1>2
      <4> QED BY <4>1, <3>1, <2>3, <1>11
    <3>3. CASE Old(p, e) /\ Old(q, f)
      BY <3>3, <2>3, <1>3 DEF LinkInv
    <3>4. CASE New(p, e) /\ New(q, f)
      <4>1. e = f
        <5>1. e \in d + 1..LEVEL_CNT /\ f \in d + 1..LEVEL_CNT /\ c[e] = c[f]
          BY <3>4, <2>3
        <5> QED BY <5>1
      <4>2. e - 1 \in 0..LEVEL_CNT
        BY LevelCntAssumption
      <4>3. Sub(q, e - 1) = Sub(q0, e - 1)
        BY <4>1, <4>2, <3>4, <1>2, SubFacts
      <4> QED BY <4>1, <4>3, <3>4
    <3>5. CASE Old(p, e) /\ New(q, f)
      <4>1. Unlinked(c[f]) /\ At(p)[e] = c[f]
        BY <3>5, <2>3, <1>12
      <4> QED BY <4>1 DEF Unlinked
    <3>6. CASE New(p, e) /\ Old(q, f)
      <4>1. Unlinked(c[e]) /\ At(q)[f] = c[e]
        BY <3>6, <2>3, <1>12
      <4> QED BY <4>1 DEF Unlinked
    <3> QED BY <3>2, <3>3, <3>4, <3>5, <3>6
  <2>4. \A p : \A e : Sub(p, e)' = Sub(p, e)
    BY DEF Sub
  <2> QED BY <2>1, <2>2, <2>3, <2>4 DEF LinkInv, At, NextAt
\* What is counted, and which threads unlink.
<1>15. \A e \in 1..LEVEL_CNT : Counted(e)' = Counted(e) \cup {q0} /\ HeldAt(e)' = HeldAt(e) \cup {q0}
  <2>1. ASSUME NEW e \in 1..LEVEL_CNT
        PROVE  Counted(e)' = Counted(e) \cup {q0} /\ HeldAt(e)' = HeldAt(e) \cup {q0}
    <3>1. e \in Int
      OBVIOUS
    <3>2. /\ \A q \in Pages \ {q0} : (q \in Counted(e)' <=> q \in Counted(e))
                                   /\ (q \in HeldAt(e)' <=> q \in HeldAt(e))
          /\ q0 \in Counted(e)' /\ q0 \in HeldAt(e)'
      BY <3>1, <1>2, <1>6, <1>7, LevelStep
    <3>3. Counted(e) \subseteq Pages /\ Counted(e)' \subseteq Pages
          /\ HeldAt(e) \subseteq Pages /\ HeldAt(e)' \subseteq Pages
      BY DEF Counted, HeldAt
    <3> QED BY ONLY <3>2, <3>3, <1>2
  <2> QED BY <2>1
<1>16. CountedTo(t) = (IF pc[t] = "publish" THEN d ELSE d - 1) /\ (pc[t] = "store" => d = LEVEL_CNT)
       /\ (pc[t] = "publish" => d < LEVEL_CNT)
  BY <1>2 DEF CountedTo, OwnInv, Inner
<1>17. \A e \in 1..LEVEL_CNT : q0 \in Counted(e) <=> e <= CountedTo(t)
  BY <1>1, LevelFacts, <1>2
<1>18. \A e \in 1..LEVEL_CNT :
          /\ Unlinks(e)' = Unlinks(e) /\ Loads(e)' = Loads(e)
          /\ \A u \in Unlinks(e) \cup Loads(e) :
                u # t /\ u \in Threads /\ page'[u] = page[u] /\ page[u] \in Pages
  <2>1. \A u \in Threads \ {t} : pc'[u] = pc[u] /\ page'[u] = page[u] /\ Depth(u)' = Depth(u)
    BY <1>5, OthersSame DEF Others
  <2>2. pc[t] \notin {"load", "unlink"} /\ pc'[t] \notin {"load", "unlink"}
    BY <1>5
  <2>3. \A u \in Threads : page[u] \in Pages
    BY <1>2 DEF TypeOK
  <2> SUFFICES ASSUME NEW e \in 1..LEVEL_CNT
               PROVE  /\ Unlinks(e)' = Unlinks(e) /\ Loads(e)' = Loads(e)
                      /\ \A u \in Unlinks(e) \cup Loads(e) :
                            u # t /\ u \in Threads /\ page'[u] = page[u] /\ page[u] \in Pages
    OBVIOUS
  <2> QED BY <2>1, <2>2, <2>3 DEF Unlinks, Loads
<1>19. \A p : \A e : Sub(p, e)' = Sub(p, e)
  BY DEF Sub
<1>20. UsedInv'
  <2>1. ASSUME NEW e \in 1..LEVEL_CNT, NEW q \in HeldAt(e)' PROVE NextAt(q)[e + 1] # Null
    <3>1. e + 1 \in 1..LEVEL_CNT + 1
      BY LevelCntAssumption
    <3>2. CASE q = q0
      <4>1. CASE e + 1 <= d
        <5>1. d \in 1..LEVEL_CNT + 1 /\ e + 1 \in 1..d
          BY <4>1, <1>2, LevelCntAssumption
        <5>2. At(q0)[e + 1] # Null
          BY <5>1, <1>3, <1>4, AtFacts
        <5> QED BY <5>2, <3>1, <3>2, <1>2, <1>10
      <4>2. CASE ~(e + 1 <= d)
        <5>1. q0 \in Sub(q0, d) /\ q0 \in Sub(q0, (e + 1) - 1)
          <6>1. d \in 0..LEVEL_CNT /\ (e + 1) - 1 \in 0..LEVEL_CNT
            BY <1>2
          <6> QED BY <6>1, <1>2, SubFacts
        <5>2. NextAt(q0)[e + 1] = c[e + 1]
          BY <5>1, <4>2, <3>1, <1>2
        <5>3. e + 1 \in d + 1..LEVEL_CNT \/ e + 1 = LEVEL_CNT + 1
          BY <4>2, <1>2, LevelCntAssumption
        <5> QED BY <5>2, <5>3, <3>2, <1>12, <1>13
      <4> QED BY <4>1, <4>2
    <3>3. CASE q # q0
      <4>1. q \in HeldAt(e) /\ q \in Pages
        BY <3>3, <1>15 DEF HeldAt
      <4>2. At(q)[e + 1] # Null
        BY <4>1, <1>3 DEF UsedInv
      <4> QED BY <4>1, <4>2, <3>1, <1>10
    <3> QED BY <3>2, <3>3
  <2>2. ASSUME NEW p \in Pages, NEW e \in 1..LEVEL_CNT, NextAt(p)[e + 1] # Null
        PROVE  Sub(p, e) \cap Counted(e)' # {} \/ \E u \in Unlinks(e)' : page'[u] \in Sub(p, e)
    <3>1. e + 1 \in 1..LEVEL_CNT + 1 /\ (e + 1) - 1 = e /\ e \in 0..LEVEL_CNT
      BY LevelCntAssumption
    <3>2. CASE At(p)[e + 1] # Null
      <4>1. Sub(p, e) \cap Counted(e) # {} \/ \E u \in Unlinks(e) : page[u] \in Sub(p, e)
        BY <3>2, <1>3 DEF UsedInv
      <4> QED BY <4>1, <1>15, <1>18
    <3>3. CASE p \in Sub(q0, e)
      <4>1. q0 \in Sub(p, e)
        BY <3>1, <3>3, <1>2, SubFacts
      <4> QED BY <4>1, <1>15
    <3> QED BY <3>1, <3>2, <3>3, <2>2, <1>11
  <2> QED BY <2>1, <2>2, <1>19 DEF UsedInv, At, NextAt
\* Nothing but the page of t is counted below the slot.
<1>21. ASSUME NEW e \in d + 1..LEVEL_CNT, NEW q \in Sub(q0, d) PROVE q \notin Counted(e)
  <2>1. SUFFICES ASSUME q \in Counted(e) PROVE FALSE
    OBVIOUS
  <2>2. q \in HeldAt(d)
    <3>1. d \in Int /\ e \in Int /\ d + 1 \in Int /\ d + 1 <= e
      BY <1>2
    <3>2. Counted(e) \subseteq Counted(d + 1)
      BY <3>1, <1>2, LevelFacts
    <3>3. Counted(d + 1) \subseteq HeldAt(d)
      BY <3>1, <1>2, LevelFacts
    <3> QED BY <3>2, <3>3, <2>1
  <2>3. At(q)[d + 1] # Null
    BY <2>2, <1>2, <1>3 DEF UsedInv
  <2>4. d + 1 \in d + 1..LEVEL_CNT + 1
    BY <1>2, LevelCntAssumption
  <2> QED BY <2>3, <2>4, <1>9
<1>22. CountInv'
  <2>1. ASSUME NEW p \in Pages, NEW e \in 1..LEVEL_CNT - 1, NextAt(p)[e] # Null
        PROVE  m_cnt'[NextAt(p)[e]][p[e]] = Cardinality(Sub(p, e) \cap Counted(e)')
    <3>1. e \in 1..LEVEL_CNT + 1 /\ e \in 1..LEVEL_CNT /\ e \in 0..LEVEL_CNT /\ d \in 0..LEVEL_CNT
      BY <1>2, LevelCntAssumption
    <3>2. CASE NextAt(p)[e] = At(p)[e] /\ At(p)[e] # Null /\ (e <= d \/ p \notin Sub(q0, d))
      <4>1. m_cnt[At(p)[e]][p[e]] = Cardinality(Sub(p, e) \cap Counted(e))
        BY <3>2, <1>3 DEF CountInv
      <4>2. q0 \in Counted(e) \/ q0 \notin Sub(p, e)
        <5>1. CASE e <= d
          <6>1. e <= CountedTo(t)
            BY <5>1, <1>2, <1>16
          <6> QED BY <6>1, <3>1, <1>17
        <5>2. CASE ~(e <= d)
          <6>1. p \notin Sub(q0, d) /\ d \in 0..e
            BY <5>2, <3>2, <1>2
          <6>2. SUFFICES ASSUME q0 \in Sub(p, e) PROVE FALSE
            OBVIOUS
          <6>3. q0 \in Sub(p, d)
            BY <6>1, <6>2, <3>1, SubFacts
          <6>4. p \in Sub(q0, d)
            BY <6>3, <3>1, SubFacts
          <6> QED BY <6>1, <6>4
        <5> QED BY <5>1, <5>2
      <4>3. Sub(p, e) \cap (Counted(e) \cup {q0}) = Sub(p, e) \cap Counted(e)
        BY ONLY <4>2
      <4> QED BY <4>1, <4>3, <3>1, <3>2, <1>15
    <3>3. CASE NextAt(p)[e] = c[e] /\ e \in d + 1..LEVEL_CNT + 1 /\ p \in Sub(q0, e - 1)
      <4>1. /\ e \in d + 1..LEVEL_CNT - 1 /\ e \in d + 1..LEVEL_CNT /\ e - 1 \in 0..LEVEL_CNT
            /\ d \in 0..e - 1
            /\ p[e] \in Indices /\ d \in 0..e
        <5>1. p[e] \in Indices
          <6>1. p \in [1..LEVEL_CNT -> Indices]
            BY PagesAssumption
          <6>2. e \in 1..LEVEL_CNT
            BY <3>1
          <6> QED BY ONLY <6>1, <6>2
        <5>2. e \in Int /\ d \in Int /\ LEVEL_CNT \in Int
          BY LevelCntAssumption, <1>2
        <5>3. 1 <= d /\ e <= LEVEL_CNT - 1
          BY <5>2, <1>2
        <5>4. d + 1 <= e
          BY <5>2, <3>3
        <5> QED BY ONLY <5>1, <5>2, <5>3, <5>4
      <4>2. m_cnt'[NextAt(p)[e]][p[e]] = IF p[e] = q0[e] THEN 1 ELSE 0
        BY <4>1, <3>3
      <4>3. p \in Sub(q0, d) /\ Sub(p, d) = Sub(q0, d) /\ Sub(p, e) \subseteq Sub(q0, d)
        <5>1. p \in Sub(q0, d)
          BY <4>1, <3>3, <1>2, SubFacts
        <5>2. Sub(p, d) = Sub(q0, d)
          BY <5>1, <3>1, <1>2, SubFacts
        <5>3. Sub(p, e) \subseteq Sub(p, d)
          BY <4>1, <3>1, SubFacts
        <5> QED BY <5>1, <5>2, <5>3
      <4>4. Sub(p, e) \cap Counted(e) = {}
        BY <4>1, <4>3, <1>21
      <4>5. p[e] = q0[e] <=> q0 \in Sub(p, e)
        <5>1. p[e] = q0[e] <=> p \in Sub(q0, e)
          BY <3>1, <3>3, <1>2, SubFacts
        <5>2. p \in Sub(q0, e) <=> q0 \in Sub(p, e)
          BY <3>1, <1>2, SubFacts
        <5> QED BY <5>1, <5>2
      <4>6. Counted(e)' = Counted(e) \cup {q0}
        BY <3>1, <1>15
      <4>7. CASE q0 \in Sub(p, e)
        <5>1. Sub(p, e) \cap Counted(e)' = {q0}
          BY ONLY <4>4, <4>6, <4>7
        <5>2. Cardinality({q0}) = 1
          BY FS_Singleton
        <5> QED BY <5>1, <5>2, <4>2, <4>5, <4>7
      <4>8. CASE q0 \notin Sub(p, e)
        <5>1. Sub(p, e) \cap Counted(e)' = {}
          BY ONLY <4>4, <4>6, <4>8
        <5> QED BY <5>1, <4>2, <4>5, <4>8, FS_EmptySet
      <4> QED BY <4>7, <4>8
    <3> QED BY <3>1, <3>2, <3>3, <2>1, <1>11
  <2> QED BY <2>1, <1>19 DEF CountInv, At, NextAt
<1>23. DoomInv'
  <2>1. ASSUME NEW e \in 1..LEVEL_CNT, NEW u \in Unlinks(e)'
        PROVE  /\ u \in Unlinks(e) /\ page'[u] = page[u]
               /\ \A q \in Sub(page[u], e) \cap Counted(e)' :
                     q \in Counted(e) \/ \E v \in Loads(e)' : page'[v] = q
               /\ \A v \in Loads(e) : page[v] \in Sub(page[u], e) =>
                     v \in Loads(e)' /\ page'[v] = page[v]
    <3>1. u \in Unlinks(e) /\ page'[u] = page[u] /\ page[u] \in Pages /\ u \in Threads
      BY <1>18
    <3>2. q0 \in Sub(page[u], e) => q0 \in Counted(e)
      <4>1. SUFFICES ASSUME q0 \in Sub(page[u], e) PROVE q0 \in Counted(e)
        OBVIOUS
      <4>2. At(q0)[e + 1] # Null
        <5>1. e \in 0..LEVEL_CNT /\ e + 1 \in 1..e + 1
          OBVIOUS
        <5>2. At(q0)[e + 1] = At(page[u])[e + 1]
          BY <5>1, <4>1, <1>3, AtFacts
        <5>3. At(page[u])[e + 1] # Null
          BY <3>1, <1>3 DEF Unlinks, FreshInv, FreshOf
        <5> QED BY <5>2, <5>3
      <4>3. e + 1 <= d
        <5>1. SUFFICES ASSUME ~(e + 1 <= d) PROVE FALSE
          OBVIOUS
        <5>2. e + 1 \in d + 1..LEVEL_CNT + 1 /\ q0 \in Sub(q0, d)
          <6>1. d \in 0..LEVEL_CNT /\ e + 1 \in d + 1..LEVEL_CNT + 1
            BY <5>1, <1>2, LevelCntAssumption
          <6> QED BY <6>1, <1>2, SubFacts
        <5> QED BY <5>2, <4>2, <1>9
      <4>4. e <= CountedTo(t)
        BY <4>3, <1>2, <1>16
      <4> QED BY <4>4, <1>17
    <3>3. \A q \in Counted(e)' : q \in Counted(e) \/ q = q0
      BY <1>15
    <3> QED BY <3>1, <3>2, <3>3, <1>18
  <2> QED BY <2>1, <1>3, DoomSame
\* The other threads are on paths that stay.
<1>24. \A u \in Threads : page[u] \in Pages /\ Depth(u) \in 1..LEVEL_CNT
  BY <1>2, LevelTypes DEF TypeOK
<1>25. ASSUME NEW u \in Threads, NEW e \in 1..LEVEL_CNT + 1, At(page[u])[e] # Null, NEW f \in 1..e
       PROVE  NextAt(page[u])[f] = At(page[u])[f]
  <2>1. f \in 1..LEVEL_CNT + 1 /\ At(page[u])[f] # Null
    BY <1>3, <1>25, LevelCntAssumption, AtFacts
  <2> QED BY <2>1, <1>10, <1>24
<1>26. AtInv'
  <2>1. ASSUME NEW u \in Threads \ {t}, Working(u) \/ known[u], NEW f \in 1..Depth(u)
        PROVE  NextAt(page[u])[f] = At(page[u])[f]
    <3>1. Depth(u) \in 1..LEVEL_CNT + 1
      BY <1>24, LevelCntAssumption
    <3>2. At(page[u])[Depth(u)] # Null
      <4>1. CASE Working(u)
        BY <4>1, HereFacts
      <4>2. CASE known[u]
        BY <4>2, <3>1, <1>2, <1>3, <1>24, InFacts
      <4> QED BY <4>1, <4>2, <2>1
    <3> QED BY <3>1, <3>2, <1>25
  <2> QED BY <2>1, <1>2, <1>3, <1>5, AtOthers
<1>27. FreshInv'
  <2>1. ASSUME NEW u \in Threads \ {t}, pc[u] \in {"uncount", "unlink"}
        PROVE  NextAt(page[u])[Depth(u) + 1] = At(page[u])[Depth(u) + 1]
    <3>1. At(page[u])[Depth(u) + 1] # Null
      BY <2>1, <1>3 DEF FreshInv, FreshOf
    <3>2. Depth(u) + 1 \in 1..LEVEL_CNT + 1
      BY <1>24, LevelCntAssumption
    <3> QED BY <3>1, <3>2, <1>10, <1>24
  <2>2. ASSUME NEW u \in Threads \ {t}, NEW l \in Own(u)
        PROVE  l \in pool' /\ Unlinked(l)' /\ m_ptr'[l] = m_ptr[l] /\ m_cnt'[l] = m_cnt[l]
    <3>1. l \in pool /\ l \in Levels /\ Unlinked(l)
      BY FreshFacts
    <3>2. l \notin Own(t)
      BY <1>3 DEF FreshInv
    <3>3. ASSUME NEW p \in Pages, NEW e \in 1..LEVEL_CNT PROVE NextAt(p)[e] # l
      <4>1. SUFFICES ASSUME NextAt(p)[e] = l PROVE FALSE
        OBVIOUS
      <4>2. l # Null
        BY <3>1, LevelsAssumption
      <4>3. e \in 1..LEVEL_CNT + 1 /\ (e \in d + 1..LEVEL_CNT + 1 => e \in d + 1..LEVEL_CNT)
        BY <1>2, LevelCntAssumption
      <4> QED BY <4>1, <4>2, <4>3, <3>1, <3>2, <1>11 DEF Unlinked
    <3>4. l # At(q0)[d]
      BY <3>1, <1>2 DEF Unlinked
    <3> QED BY <3>1, <3>3, <3>4 DEF Unlinked, At, NextAt
  <2> QED BY <2>1, <2>2, <1>3, <1>5, FreshOthers
<1>28. ReadInv'
  <2>1. ASSUME NEW u \in Threads \ {t}, known[u]
        PROVE  mem'[page[u]] = "in" /\ NextAt(page[u])[LEVEL_CNT + 1] = At(page[u])[LEVEL_CNT + 1]
    <3>1. mem[page[u]] = "in" /\ page[u] # q0 /\ LEVEL_CNT + 1 \in 1..LEVEL_CNT + 1
      BY <2>1, <1>2, LevelCntAssumption
    <3> QED BY <3>1, <1>2, <1>3, <1>6, <1>10, <1>24, InFacts
  <2>2. ASSUME NEW u \in Threads \ {t}, pc[u] \in {"get", "got"} PROVE Found(u)'
    <3>1. Found(u) /\ Here(u) \in pool \cup {Root, Null}
      BY <2>2, ReaderFacts
    <3>2. /\ page'[u] = page[u] /\ Depth(u)' = Depth(u) /\ Here(u)' = Here(u) /\ Idx(u)' = Idx(u)
      BY <1>5, OthersSame DEF Others
    <3>3. CASE Here(u) \notin pool \cup {Root}
      BY <3>2, <3>3 DEF Found
    <3>4. CASE Here(u) = At(page[u])[Depth(u)] /\ Here(u) # Null
      <4>1. Depth(u) \in 1..LEVEL_CNT + 1
        BY <1>24, LevelCntAssumption
      <4>2. Here(u)' = NextAt(page'[u])[Depth(u)']
        BY <4>1, <3>2, <3>4, <1>10, <1>24
      <4> QED BY <4>2 DEF Found, At, NextAt
    <3>5. CASE Here(u) = Null
      <4>1. Here(u)' \notin pool' \cup {Root}
        BY <3>2, <3>5, <1>2, LevelsAssumption DEF TypeOK
      <4> QED BY <4>1 DEF Found
    <3>6. ASSUME NEW v \in Threads, pc[v] = "destroy", Here(u) \in Own(v), Ptr(u) = Null
          PROVE  Found(u)'
      <4>1. v # t
        BY <3>6
      <4>2. pc'[v] = "destroy" /\ Own(v)' = Own(v)
        BY <4>1, <3>6, <1>5, OthersSame DEF Others
      <4>3. m_ptr'[Here(u)] = m_ptr[Here(u)]
        <5>1. Unlinked(Here(u))
          BY <3>6, FreshFacts
        <5> QED BY <5>1, <1>2 DEF Unlinked
      <4>4. Ptr(u)' = Null
        BY <4>3, <3>2, <3>6 DEF Ptr
      <4> QED BY <4>2, <4>4, <3>2, <3>6 DEF Found
    <3> QED BY <3>1, <3>3, <3>4, <3>5, <3>6 DEF Found
  <2> QED BY <2>1, <2>2, <1>3, <1>5, ReadOthers
<1>29. Adds(q0)
  <2>1. LEVEL_CNT + 1 \in d + 1..LEVEL_CNT + 1 /\ LEVEL_CNT + 1 \in 1..LEVEL_CNT + 1
        /\ ~(LEVEL_CNT + 1 <= d) /\ (LEVEL_CNT + 1) - 1 = LEVEL_CNT
        /\ d \in 0..LEVEL_CNT /\ LEVEL_CNT \in 0..LEVEL_CNT
    BY <1>2, LevelCntAssumption
  <2>2. q0 \in Sub(q0, d) /\ Sub(q0, LEVEL_CNT) = {q0}
    BY <2>1, <1>2, SubFacts
  <2>3. At(q0)[LEVEL_CNT + 1] = Null
    BY <2>1, <2>2, <1>9
  <2>4. NextAt(q0)[LEVEL_CNT + 1] \in Descriptors
    <3>1. q0 \in Sub(q0, (LEVEL_CNT + 1) - 1)
      BY <2>1, <2>2
    <3>2. NextAt(q0)[LEVEL_CNT + 1] = c[LEVEL_CNT + 1]
      BY <3>1, <2>1, <2>2, <1>2
    <3> QED BY <3>2
  <2>5. ASSUME NEW q \in Pages \ {q0} PROVE NextAt(q)[LEVEL_CNT + 1] = At(q)[LEVEL_CNT + 1]
    <3>1. CASE q \in Sub(q0, d)
      <4>1. q \notin Sub(q0, (LEVEL_CNT + 1) - 1)
        BY <2>1, <2>2
      <4>2. NextAt(q)[LEVEL_CNT + 1] = Null
        BY <4>1, <3>1, <2>1
      <4>3. At(q)[LEVEL_CNT + 1] = Null
        BY <3>1, <2>1, <1>9
      <4> QED BY <4>2, <4>3
    <3>2. CASE q \notin Sub(q0, d)
      BY <3>2, <2>1
    <3> QED BY <3>1, <3>2
  <2> QED BY <2>3, <2>4, <2>5 DEF Adds
<1> QED BY <1>8, <1>14, <1>20, <1>22, <1>23, <1>26, <1>27, <1>28, <1>29 DEF IInv

\* A thread stores to the slot of its page.
LEMMA SetFacts ==
    ASSUME IInv, Steady, NEW t \in Threads, NEW q0, NEW d, q0 = page[t], d = Depth(t), Working(t),
           NEW x, SetPtr(t, x)
    PROVE  /\ Sets(At(q0)[d], q0[d], x) /\ At(q0)[d] # Null
           /\ q0 \in Pages /\ d \in 1..LEVEL_CNT
           /\ x \in Levels \cup Descriptors \cup {Null} =>
                m_ptr' \in [Tables -> [Indices -> Levels \cup Descriptors \cup {Null}]]
<1>1. /\ Here(t) = At(q0)[d] /\ Here(t) # Null /\ Here(t) \in Tables /\ Idx(t) = q0[d]
      /\ Idx(t) \in Indices
  BY HereFacts, HereType DEF IInv
<1>2. m_ptr' = [m_ptr EXCEPT ![Here(t)][Idx(t)] = x]
  BY DEF SetPtr
<1>3. q0 \in Pages /\ d \in 1..LEVEL_CNT /\ TypeOK
  BY WorkerFacts
<1>4. x \in Levels \cup Descriptors \cup {Null} =>
        m_ptr' \in [Tables -> [Indices -> Levels \cup Descriptors \cup {Null}]]
  BY <1>1, <1>2, <1>3 DEF TypeOK
<1> QED BY <1>1, <1>2, <1>3, <1>4 DEF Sets

\* index links the chain it made: its page is indexed.
LEMMA PublishStep ==
    ASSUME IInv, Steady, NEW t \in Threads, NEW q0, NEW d, q0 = page[t], d = Depth(t),
           Publish(t), UNCHANGED <<lost, undefined>>
    PROVE  IInv' /\ Adds(q0)
<1>1. /\ pc[t] = "publish" /\ Ptr(t) = Null /\ SetPtr(t, fresh[t][1])
      /\ mem' = [mem EXCEPT ![q0] = "in"] /\ End(t) /\ m_cnt' = m_cnt /\ pool' = pool
  BY DEF Publish
<1>2. Working(t) /\ pc[t] \in Adding
  BY <1>1 DEF Working, Adding
<1>3. /\ Sets(At(q0)[d], q0[d], fresh[t][1]) /\ At(q0)[d] # Null
      /\ q0 \in Pages /\ d \in 1..LEVEL_CNT
      /\ fresh[t][1] \in Levels \cup Descriptors \cup {Null} =>
           m_ptr' \in [Tables -> [Indices -> Levels \cup Descriptors \cup {Null}]]
  BY <1>1, <1>2, SetFacts
<1>4. TypeOK /\ OwnInv /\ LinkInv /\ d < LEVEL_CNT /\ entry[t] \in Descriptors
  BY <1>1, <1>2 DEF IInv, OwnInv, Inner
<1>5. /\ Len(fresh[t]) = LEVEL_CNT - d /\ LEVEL_CNT - d \in Nat
      /\ \A j, k \in 1..LEVEL_CNT - d : fresh[t][j] = fresh[t][k] => j = k
      /\ \A j \in 1..LEVEL_CNT - d : \A i \in Indices :
          /\ m_ptr[fresh[t][j]][i] = IF i # q0[d + j] THEN Null
                                     ELSE IF j = LEVEL_CNT - d THEN entry[t] ELSE fresh[t][j + 1]
          /\ j # LEVEL_CNT - d =>
               m_cnt[fresh[t][j]][i] = IF i = q0[d + j] THEN 1 ELSE 0
  <2>1. NewTables(t)
    BY <1>1 DEF IInv, FreshInv, FreshOf
  <2>2. LEVEL_CNT - d \in Nat
    BY <1>3, LevelCntAssumption
  <2> QED BY <2>1, <2>2 DEF NewTables
<1>6. \A j \in 1..LEVEL_CNT - d : fresh[t][j] \in Own(t) /\ fresh[t][j] \in Levels
                                  /\ fresh[t][j] # Null /\ Unlinked(fresh[t][j])
  <2>1. \A j \in 1..LEVEL_CNT - d : fresh[t][j] \in Own(t)
    BY <1>1, <1>5 DEF Own
  <2> QED BY <2>1, FreshFacts, LevelsAssumption
<1>7. /\ \A l : l # At(q0)[d] => m_ptr'[l] = m_ptr[l]
      /\ \A q \in Pages : \A e \in 1..LEVEL_CNT + 1 :
            e <= d \/ q \notin Sub(q0, d) => NextAt(q)[e] = At(q)[e]
      /\ \A q \in Sub(q0, d) : NextAt(q)[d + 1] = fresh[t][1]
  <2>1. Redirects(q0, d, fresh[t][1])
    BY <1>3, <1>4, SlotChange
  <2> QED BY <2>1 DEF Redirects
<1> DEFINE c == [e \in d + 1..LEVEL_CNT + 1 |-> IF e = LEVEL_CNT + 1 THEN entry[t] ELSE fresh[t][e - d]]
<1>8. \A e \in d + 1..LEVEL_CNT : c[e] = fresh[t][e - d] /\ e - d \in 1..LEVEL_CNT - d
  BY <1>3, LevelCntAssumption
<1>9. c[LEVEL_CNT + 1] = entry[t]
  BY <1>3, LevelCntAssumption
<1> HIDE DEF c
<1>10. ASSUME NEW q \in Sub(q0, d), NEW e \in d + 1..LEVEL_CNT + 1
       PROVE  NextAt(q)[e] = IF q \in Sub(q0, e - 1) THEN c[e] ELSE Null
  <2> DEFINE S == {f \in Nat : NextAt(q)[f] = IF q \in Sub(q0, f - 1) THEN c[f] ELSE Null}
  <2>1. q \in Pages
    BY DEF Sub
  <2>2. d + 1 \in S
    <3>1. d + 1 \in d + 1..LEVEL_CNT /\ (d + 1) - d = 1 /\ (d + 1) - 1 = d /\ d + 1 \in Nat
      BY <1>3, <1>4, LevelCntAssumption
    <3> QED BY <3>1, <1>7, <1>8
  <2>3. ASSUME NEW f \in d + 1..LEVEL_CNT + 1, f \in S, f < LEVEL_CNT + 1 PROVE f + 1 \in S
    <3>1. /\ f \in d + 1..LEVEL_CNT /\ f \in 1..LEVEL_CNT /\ f + 1 \in Nat /\ (f + 1) - 1 = f
          /\ f - 1 \in 0..LEVEL_CNT /\ f \in 0..LEVEL_CNT /\ f - 1 \in 0..f
          /\ d + (f - d) = f /\ f - d \in 1..LEVEL_CNT - d
          /\ (f + 1) - d = (f - d) + 1
      BY <2>3, <1>3, LevelCntAssumption
    <3>2. NextAt(q)[f + 1] = IF NextAt(q)[f] = Null THEN Null ELSE m_ptr'[NextAt(q)[f]][q[f]]
      BY <3>1, NextFacts
    <3>3. CASE q \in Sub(q0, f - 1)
      <4>1. NextAt(q)[f] = fresh[t][f - d]
        BY <3>1, <3>3, <2>3, <1>8
      <4>2. m_ptr'[fresh[t][f - d]] = m_ptr[fresh[t][f - d]]
        <5>1. fresh[t][f - d] # At(q0)[d]
          BY <3>1, <1>3, <1>6 DEF Unlinked
        <5> QED BY <5>1, <1>7
      <4>3. q[f] \in Indices
        <5>1. q \in [1..LEVEL_CNT -> Indices]
          BY <2>1, PagesAssumption
        <5> QED BY <5>1, <3>1
      <4>4. m_ptr[fresh[t][f - d]][q[f]] =
                IF q[f] # q0[f] THEN Null
                ELSE IF f - d = LEVEL_CNT - d THEN entry[t] ELSE fresh[t][(f - d) + 1]
        <5> DEFINE j == f - d
        <5>1. j \in 1..LEVEL_CNT - d /\ d + j = f
          BY <3>1
        <5> HIDE DEF j
        <5>2. m_ptr[fresh[t][j]][q[f]] =
                IF q[f] # q0[d + j] THEN Null
                ELSE IF j = LEVEL_CNT - d THEN entry[t] ELSE fresh[t][j + 1]
          BY <5>1, <4>3, <1>5
        <5> QED BY ONLY <5>1, <5>2 DEF j
      <4>5. (IF f - d = LEVEL_CNT - d THEN entry[t] ELSE fresh[t][(f - d) + 1]) = c[f + 1]
        <5>1. CASE f = LEVEL_CNT
          BY <5>1, <1>9
        <5>2. CASE f # LEVEL_CNT
          <6>1. f + 1 \in d + 1..LEVEL_CNT /\ f - d # LEVEL_CNT - d
            BY <3>1, <5>2, <1>3, LevelCntAssumption
          <6> QED BY <6>1, <3>1, <1>8
        <5> QED BY <5>1, <5>2
      <4>6. q[f] = q0[f] <=> q \in Sub(q0, f)
        BY <3>1, <3>3, <1>3, SubFacts
      <4>7. fresh[t][f - d] # Null
        BY <3>1, <1>6
      <4>8. NextAt(q)[f + 1] = IF q \in Sub(q0, f) THEN c[f + 1] ELSE Null
        BY ONLY <3>2, <4>1, <4>2, <4>4, <4>5, <4>6, <4>7
      <4> QED BY <4>8, <3>1
    <3>4. CASE q \notin Sub(q0, f - 1)
      <4>1. NextAt(q)[f] = Null
        BY <3>4, <2>3
      <4>2. q \notin Sub(q0, f)
        BY <3>1, <3>4, <1>3, SubFacts
      <4> QED BY <4>1, <4>2, <3>1, <3>2
    <3> QED BY <3>3, <3>4
  <2> HIDE DEF S
  <2>4. d + 1 \in Nat /\ LEVEL_CNT + 1 \in Nat
    BY <1>3, LevelCntAssumption
  <2>5. \A f \in d + 1..LEVEL_CNT + 1 : f \in S
    BY <2>2, <2>3, <2>4, RangeInd
  <2> QED BY <2>5 DEF S
<1>11. \A q \in Pages : \A e \in 1..LEVEL_CNT + 1 :
          NextAt(q)[e] = IF e <= d \/ q \notin Sub(q0, d) THEN At(q)[e]
                         ELSE IF q \in Sub(q0, e - 1) THEN c[e] ELSE Null
  <2>1. ASSUME NEW q \in Pages, NEW e \in 1..LEVEL_CNT + 1
        PROVE  NextAt(q)[e] = IF e <= d \/ q \notin Sub(q0, d) THEN At(q)[e]
                              ELSE IF q \in Sub(q0, e - 1) THEN c[e] ELSE Null
    <3>1. CASE e <= d \/ q \notin Sub(q0, d)
      BY <3>1, <1>7
    <3>2. CASE ~(e <= d \/ q \notin Sub(q0, d))
      <4>1. e \in d + 1..LEVEL_CNT + 1
        BY <3>2, <1>3
      <4> QED BY <4>1, <3>2, <1>10
    <3> QED BY <3>1, <3>2
  <2> QED BY <2>1
<1>12. \A e \in d + 1..LEVEL_CNT : c[e] \in Own(t)
  BY <1>6, <1>8
<1>13. ASSUME NEW e \in d + 1..LEVEL_CNT, NEW f \in d + 1..LEVEL_CNT, c[e] = c[f] PROVE e = f
  <2>1. e - d = f - d
    BY <1>5, <1>8, <1>13
  <2> QED BY <2>1, <1>3
<1>14. ASSUME NEW e \in d + 1..LEVEL_CNT - 1, NEW i \in Indices
       PROVE  m_cnt[c[e]][i] = IF i = q0[e] THEN 1 ELSE 0
  <2>1. e \in d + 1..LEVEL_CNT /\ e - d # LEVEL_CNT - d /\ d + (e - d) = e
    BY <1>3, LevelCntAssumption
  <2> QED BY <2>1, <1>5, <1>8
<1>15. At(q0)[d + 1] = Null
  BY <1>1, <1>2, HereFacts
<1>16. TypeOK'
  <2>1. LocalOK'
    BY <1>1, <1>4, EndFacts
  <2>2. fresh[t][1] \in Levels
    <3>1. 1 \in 1..LEVEL_CNT - d
      BY <1>3, <1>4, LevelCntAssumption
    <3> QED BY <3>1, <1>6
  <2>3. m_ptr' \in [Tables -> [Indices -> Levels \cup Descriptors \cup {Null}]]
    BY <2>2, <1>3
  <2>4. mem' \in [Pages -> {"free", "indexing", "in", "deindexing"}]
    BY <1>1, <1>4 DEF TypeOK
  <2>5. TreeOK'
    BY <2>3, <2>4, <1>1, <1>4 DEF TreeOK, TypeOK, Tables
  <2> QED BY <2>1, <2>5, <1>4, TypeStep
<1>17. Extends(t, q0, d, c)
  BY <1>4, <1>7, <1>9, <1>11, <1>12, <1>13, <1>14, <1>15 DEF Extends
<1> QED BY <1>1, <1>16, <1>17, AddStep

\* last_level::index.
LEMMA StoreEntryStep ==
    ASSUME IInv, Steady, NEW t \in Threads, NEW q0, NEW d, q0 = page[t], d = Depth(t),
           StoreEntry(t), UNCHANGED <<lost, undefined>>
    PROVE  IInv' /\ Adds(q0)
<1>1. /\ pc[t] = "store" /\ SetPtr(t, entry[t])
      /\ mem' = [mem EXCEPT ![q0] = "in"] /\ End(t) /\ m_cnt' = m_cnt /\ pool' = pool
  BY DEF StoreEntry
<1>2. Working(t) /\ pc[t] \in Adding
  BY <1>1 DEF Working, Adding
<1>3. /\ Sets(At(q0)[d], q0[d], entry[t]) /\ At(q0)[d] # Null
      /\ q0 \in Pages /\ d \in 1..LEVEL_CNT
      /\ entry[t] \in Levels \cup Descriptors \cup {Null} =>
           m_ptr' \in [Tables -> [Indices -> Levels \cup Descriptors \cup {Null}]]
  BY <1>1, <1>2, SetFacts
<1>4. TypeOK /\ OwnInv /\ LinkInv /\ d = LEVEL_CNT /\ entry[t] \in Descriptors
  BY <1>1, <1>2 DEF IInv, OwnInv
<1>5. Sub(q0, d) = {q0}
  BY <1>3, <1>4, SubFacts
<1>6. /\ \A l : l # At(q0)[d] => m_ptr'[l] = m_ptr[l]
      /\ \A q \in Pages : \A e \in 1..LEVEL_CNT + 1 :
            e <= d \/ q \notin Sub(q0, d) => NextAt(q)[e] = At(q)[e]
      /\ \A q \in Sub(q0, d) : NextAt(q)[d + 1] = entry[t]
  <2>1. Redirects(q0, d, entry[t])
    BY <1>3, <1>4, SlotChange
  <2> QED BY <2>1 DEF Redirects
<1> DEFINE c == [e \in {LEVEL_CNT + 1} |-> entry[t]]
<1>7. c[LEVEL_CNT + 1] = entry[t]
  OBVIOUS
<1> HIDE DEF c
<1>8. \A q \in Pages : \A e \in 1..LEVEL_CNT + 1 :
          NextAt(q)[e] = IF e <= d \/ q \notin Sub(q0, d) THEN At(q)[e]
                         ELSE IF q \in Sub(q0, e - 1) THEN c[e] ELSE Null
  <2>1. ASSUME NEW q \in Pages, NEW e \in 1..LEVEL_CNT + 1, ~(e <= d \/ q \notin Sub(q0, d))
        PROVE  NextAt(q)[e] = c[e] /\ q \in Sub(q0, e - 1)
    <3>1. e = d + 1 /\ e - 1 = d
      BY <2>1, <1>3, <1>4, LevelCntAssumption
    <3> QED BY <3>1, <2>1, <1>4, <1>6, <1>7
  <2> QED BY <2>1, <1>6
<1>9. \A e \in d + 1..LEVEL_CNT : FALSE
  BY <1>3, <1>4
<1>10. \A e \in d + 1..LEVEL_CNT - 1 : FALSE
  BY <1>3, <1>4
<1>11. At(q0)[d + 1] = Null
  <2>1. SUFFICES ASSUME At(q0)[d + 1] # Null PROVE FALSE
    OBVIOUS
  <2>2. Sub(q0, d) \cap Counted(d) # {} \/ \E u \in Unlinks(d) : page[u] \in Sub(q0, d)
    BY <2>1, <1>3 DEF IInv, UsedInv
  <2>3. Unlinks(d) = {}
    <3>1. \A u \in Threads : pc[u] = "unlink" => Depth(u) < LEVEL_CNT
      BY <1>4 DEF OwnInv, Inner
    <3>2. ~(LEVEL_CNT < LEVEL_CNT)
      BY LevelCntAssumption
    <3> QED BY <3>1, <3>2, <1>4 DEF Unlinks
  <2>4. q0 \notin Counted(d)
    <3>1. CountedTo(t) = d - 1
      BY <1>1 DEF CountedTo
    <3>2. ~(d <= d - 1) /\ d \in Int
      BY <1>3
    <3> QED BY <3>1, <3>2, <1>2, <1>4, LevelFacts
  <2> QED BY <2>2, <2>3, <2>4, <1>5
<1>12. TypeOK'
  <2>1. LocalOK'
    BY <1>1, <1>4, EndFacts
  <2>3. m_ptr' \in [Tables -> [Indices -> Levels \cup Descriptors \cup {Null}]]
    BY <1>3, <1>4
  <2>4. mem' \in [Pages -> {"free", "indexing", "in", "deindexing"}]
    BY <1>1, <1>4 DEF TypeOK
  <2>2. TreeOK'
    BY <2>3, <2>4, <1>1, <1>4 DEF TreeOK, TypeOK, Tables
  <2> QED BY <2>1, <2>2, <1>4, TypeStep
<1>13. Extends(t, q0, d, c)
  BY <1>4, <1>6, <1>7, <1>8, <1>9, <1>10, <1>11 DEF Extends
<1> QED BY <1>1, <1>12, <1>13, AddStep

-----------------------------------------------------------------------------
(* Steps that cut paths                                                    *)

\* The step cuts, below the level d, the paths that go through the slot of q0.
Cuts(q0, d) ==
    /\ \A q \in Pages : \A e \in 1..LEVEL_CNT + 1 :
          NextAt(q)[e] = IF e <= d \/ q \notin Sub(q0, d) THEN At(q)[e] ELSE Null
    /\ \A l : l # At(q0)[d] => m_ptr'[l] = m_ptr[l]

\* A slot that becomes null cuts all the paths through it.
LEMMA CutFacts ==
    ASSUME IInv, Steady, NEW t \in Threads, NEW q0, NEW d, q0 = page[t], d = Depth(t), Working(t),
           SetPtr(t, Null)
    PROVE  Cuts(q0, d)
<1>1. /\ Sets(At(q0)[d], q0[d], Null) /\ At(q0)[d] # Null /\ q0 \in Pages /\ d \in 1..LEVEL_CNT
  BY SetFacts
<1>2. /\ \A l : l # At(q0)[d] => m_ptr'[l] = m_ptr[l]
      /\ \A q \in Pages : \A e \in 1..LEVEL_CNT + 1 :
            e <= d \/ q \notin Sub(q0, d) => NextAt(q)[e] = At(q)[e]
      /\ \A q \in Sub(q0, d) : \A e \in d + 1..LEVEL_CNT + 1 : NextAt(q)[e] = Null
  <2>1. TypeOK /\ LinkInv
    BY DEF IInv
  <2>2. Redirects(q0, d, Null)
    BY <1>1, <2>1, SlotChange
  <2> QED BY <2>2 DEF Redirects
<1>3. ASSUME NEW q \in Pages, NEW e \in 1..LEVEL_CNT + 1, ~(e <= d \/ q \notin Sub(q0, d))
      PROVE  NextAt(q)[e] = Null
  <2>1. e \in d + 1..LEVEL_CNT + 1
    BY <1>1, <1>3
  <2> QED BY <2>1, <1>2, <1>3
<1> QED BY <1>2, <1>3 DEF Cuts

\* A thread cuts the paths through the slot of its page, which are needed by no
\* other page.
LEMMA RemoveStep ==
    ASSUME IInv, Steady, NEW t \in Threads, NEW q0, NEW d, q0 = page[t], d = Depth(t),
           pc[t] \in {"erase", "unlink"}, Cuts(q0, d), OnPage(t, q0),
           \A q \in Sub(q0, d) \ {q0} : q \notin HeldAt(d),
           \A e \in d..LEVEL_CNT : q0 \notin HeldAt(e)',
           \A e \in 1..LEVEL_CNT : HeldAt(e)' \subseteq HeldAt(e) /\ Counted(e)' \subseteq Counted(e),
           \A e \in 1..LEVEL_CNT - 1 : Counted(e)' = Counted(e),
           d < LEVEL_CNT => Counted(LEVEL_CNT)' = Counted(LEVEL_CNT),
           d = LEVEL_CNT => Counted(d)' = Counted(d) \ {q0} /\ Sub(q0, d) = {q0},
           \A u \in Threads \ {t} : pc[u] = "unlink" /\ Depth(u) = d => page[u] \notin Sub(q0, d),
           d < LEVEL_CNT => pc'[t] = "destroy" /\ Own(t)' = {At(q0)[d + 1]}
                            /\ q0 \notin Counted(d + 1),
           pc'[t] \notin {"get", "got", "load", "unlink"}, ~known'[t],
           Working(t)' => Depth(t)' <= d /\ \A e \in 1..Depth(t)' : at'[t][e] = At(q0)[e],
           FreshOf(t)', \A u \in Threads \ {t} : Own(t)' \cap Own(u) = {},
           m_cnt' = m_cnt, pool' = pool, TypeOK', OwnInv'
    PROVE  IInv'
<1>1. Working(t)
  BY DEF Working, Removing
<1>2. /\ TypeOK /\ OwnInv /\ ~known[t]
      /\ q0 \in Pages /\ d \in 1..LEVEL_CNT /\ d \in 0..LEVEL_CNT
      /\ \A u \in Threads \ {t} : Working(u) => page[u] # q0
      /\ \A u \in Threads : known[u] => page[u] # q0 /\ mem[page[u]] = "in"
  BY <1>1, WorkerFacts
<1>3. LinkInv /\ UsedInv /\ CountInv /\ AtInv /\ DoomInv /\ FreshInv /\ ReadInv
  BY DEF IInv
<1>4. At(q0)[d] # Null
  BY <1>1, HereFacts
<1>5. Others(t) /\ (Working(t)' => page'[t] = q0) /\ \A q \in Pages \ {q0} : mem'[q] = mem[q]
  BY DEF OnPage
<1>6. \A q \in Pages : \A e \in 1..LEVEL_CNT + 1 :
         /\ e <= d \/ q \notin Sub(q0, d) => NextAt(q)[e] = At(q)[e]
         /\ NextAt(q)[e] # Null => NextAt(q)[e] = At(q)[e] /\ (e <= d \/ q \notin Sub(q0, d))
  BY DEF Cuts
<1>7. \A l : l # At(q0)[d] => m_ptr'[l] = m_ptr[l]
  BY DEF Cuts
<1>8. \A u \in Threads : page[u] \in Pages /\ Depth(u) \in 1..LEVEL_CNT
  BY <1>2, LevelTypes DEF TypeOK
<1>9. \A p : \A e : Sub(p, e)' = Sub(p, e)
  BY DEF Sub
\* Other threads over the slot are above it.
<1>10. ASSUME NEW u \in Threads \ {t}, Working(u), page[u] \in Sub(q0, d)
       PROVE  HeldTo(u) < d
  <2>1. page[u] \notin HeldAt(d)
    BY <1>2, <1>10
  <2>2. ~(d <= HeldTo(u)) /\ HeldTo(u) \in Int /\ d \in Int
    BY <2>1, <1>2, <1>10, LevelFacts, LevelTypes, LevelCntAssumption
  <2> QED BY <2>2
<1>11. \A u \in Threads : known[u] => page[u] \notin Sub(q0, d)
  <2>1. ASSUME NEW u \in Threads, known[u], page[u] \in Sub(q0, d) PROVE FALSE
    <3>1. page[u] \in HeldAt(d) /\ page[u] # q0
      BY <2>1, <1>2, <1>8 DEF HeldAt
    <3> QED BY <3>1, <2>1
  <2> QED BY <2>1
<1>12. LinkInv'
  <2>1. ASSUME NEW p \in Pages, NEW e \in 2..LEVEL_CNT, NextAt(p)[e] # Null
        PROVE  NextAt(p)[e] \in pool'
    <3>1. e \in 1..LEVEL_CNT + 1
      BY LevelCntAssumption
    <3> QED BY <3>1, <2>1, <1>3, <1>6 DEF LinkInv
  <2>2. ASSUME NEW p \in Pages PROVE NextAt(p)[LEVEL_CNT + 1] \in Descriptors \cup {Null}
    <3>1. LEVEL_CNT + 1 \in 1..LEVEL_CNT + 1
      BY LevelCntAssumption
    <3> QED BY <3>1, <1>3, <1>6 DEF LinkInv
  <2>3. ASSUME NEW p \in Pages, NEW q \in Pages, NEW e \in 1..LEVEL_CNT, NEW f \in 1..LEVEL_CNT,
               NextAt(p)[e] # Null, NextAt(p)[e] = NextAt(q)[f]
        PROVE  e = f /\ p \in Sub(q, e - 1)
    <3>1. e \in 1..LEVEL_CNT + 1 /\ f \in 1..LEVEL_CNT + 1
      BY LevelCntAssumption
    <3>2. At(p)[e] # Null /\ At(p)[e] = At(q)[f]
      BY <3>1, <2>3, <1>6
    <3> QED BY <3>2, <1>3 DEF LinkInv
  <2> QED BY <2>1, <2>2, <2>3, <1>9 DEF LinkInv, At, NextAt
<1>13. UsedInv'
  <2>1. ASSUME NEW e \in 1..LEVEL_CNT, NEW q \in HeldAt(e)' PROVE NextAt(q)[e + 1] # Null
    <3>1. e + 1 \in 1..LEVEL_CNT + 1 /\ q \in HeldAt(e) /\ q \in Pages
      BY LevelCntAssumption DEF HeldAt
    <3>2. At(q)[e + 1] # Null
      BY <3>1, <1>3 DEF UsedInv
    <3>3. e + 1 <= d \/ q \notin Sub(q0, d)
      <4>1. SUFFICES ASSUME ~(e + 1 <= d), q \in Sub(q0, d) PROVE FALSE
        OBVIOUS
      <4>2. d <= e /\ e \in d..LEVEL_CNT /\ d \in Int /\ e \in Int
        BY <4>1, <1>2
      <4>3. q \in HeldAt(d)
        BY <4>2, <3>1, <1>2, LevelFacts
      <4>4. q = q0
        BY <4>1, <4>3
      <4> QED BY <4>2, <4>4
    <3> QED BY <3>1, <3>2, <3>3, <1>6
  <2>2. ASSUME NEW p \in Pages, NEW e \in 1..LEVEL_CNT, NextAt(p)[e + 1] # Null
        PROVE  Sub(p, e) \cap Counted(e)' # {} \/ \E u \in Unlinks(e)' : page'[u] \in Sub(p, e)
    <3>1. e + 1 \in 1..LEVEL_CNT + 1 /\ e \in 0..LEVEL_CNT
      BY LevelCntAssumption
    <3>2. At(p)[e + 1] # Null /\ (e + 1 <= d \/ p \notin Sub(q0, d))
      BY <3>1, <2>2, <1>6
    <3>3. Sub(p, e) \cap Counted(e) # {} \/ \E u \in Unlinks(e) : page[u] \in Sub(p, e)
      BY <3>2, <1>3 DEF UsedInv
    <3>4. ASSUME NEW u \in Unlinks(e), page[u] \in Sub(p, e)
          PROVE  u \in Unlinks(e)' /\ page'[u] = page[u]
      <4>1. u \in Threads /\ Depth(u) = e
        BY DEF Unlinks
      <4>2. u # t
        <5>1. SUFFICES ASSUME u = t PROVE FALSE
          OBVIOUS
        <5>2. e = d /\ p \in Sub(q0, d)
          BY <5>1, <4>1, <3>1, <3>4, SubFacts
        <5> QED BY <5>2, <3>2, <1>2
      <4> QED BY <4>1, <4>2, <1>5, DoomOthers
    <3>5. ASSUME NEW q \in Sub(p, e), q \in Counted(e) PROVE q \in Counted(e)'
      <4>1. CASE e \in 1..LEVEL_CNT - 1
        BY <4>1, <3>5
      <4>2. CASE e = LEVEL_CNT
        <5>1. CASE d = LEVEL_CNT
          <6>1. p # q0
            <7>1. ~(e + 1 <= d)
              BY <4>2, <5>1, LevelCntAssumption
            <7> QED BY <7>1, <5>1, <3>2
          <6>2. q = p
            BY <4>2, <3>5, SubFacts
          <6> QED BY <6>1, <6>2, <5>1, <4>2, <3>5
        <5>2. CASE d # LEVEL_CNT
          <6>1. d < LEVEL_CNT
            BY <5>2, <1>2, LevelCntAssumption
          <6> QED BY <6>1, <3>5, <4>2
        <5> QED BY <5>1, <5>2
      <4> QED BY <4>1, <4>2, LevelCntAssumption
    <3> QED BY <3>3, <3>4, <3>5
  <2> QED BY <2>1, <2>2, <1>9 DEF UsedInv, At, NextAt

<1>14. CountInv'
  <2>1. ASSUME NEW p \in Pages, NEW e \in 1..LEVEL_CNT - 1, NextAt(p)[e] # Null
        PROVE  m_cnt'[NextAt(p)[e]][p[e]] = Cardinality(Sub(p, e) \cap Counted(e)')
    <3>1. e \in 1..LEVEL_CNT + 1
      BY LevelCntAssumption
    <3>2. NextAt(p)[e] = At(p)[e] /\ At(p)[e] # Null
      BY <3>1, <2>1, <1>6
    <3>3. m_cnt[At(p)[e]][p[e]] = Cardinality(Sub(p, e) \cap Counted(e))
      BY <3>2, <1>3 DEF CountInv
    <3>4. Counted(e)' = Counted(e)
      OBVIOUS
    <3> QED BY <3>2, <3>3, <3>4
  <2> QED BY <2>1, <1>9 DEF CountInv, At, NextAt
<1>15. DoomInv'
  <2>1. ASSUME NEW e \in 1..LEVEL_CNT, NEW u \in Unlinks(e)'
        PROVE  /\ u \in Unlinks(e) /\ page'[u] = page[u]
               /\ \A q \in Sub(page[u], e) \cap Counted(e)' :
                     q \in Counted(e) \/ \E v \in Loads(e)' : page'[v] = q
               /\ \A v \in Loads(e) : page[v] \in Sub(page[u], e) =>
                     v \in Loads(e)' /\ page'[v] = page[v]
    <3>1. u \in Threads \ {t}
      BY DEF Unlinks
    <3>2. u \in Unlinks(e) /\ page'[u] = page[u]
      BY <3>1, <1>5, DoomOthers
    <3>3. \A v \in Loads(e) : v \in Threads \ {t}
      BY DEF Loads
    <3>4. \A v \in Loads(e) : v \in Loads(e)' /\ page'[v] = page[v]
      BY <3>3, <1>5, DoomOthers
    <3> QED BY <3>2, <3>4
  <2> QED BY <2>1, <1>3, DoomSame
\* What the other threads work with is above the slot, or beside it.
<1>16. ASSUME NEW u \in Threads \ {t}, Working(u), page[u] \in Sub(q0, d)
       PROVE  /\ Depth(u) <= d
              /\ pc[u] \in {"uncount", "unlink"} => Depth(u) + 1 <= d
  <2>1. HeldTo(u) < d
    BY <1>16, <1>10
  <2>2. Depth(u) \in 1..LEVEL_CNT /\ d \in 1..LEVEL_CNT
    BY <1>2, <1>8
  <2>3. HeldTo(u) \in {LEVEL_CNT, Depth(u), Depth(u) - 1}
    BY DEF HeldTo
  <2>4. Depth(u) - 1 <= HeldTo(u)
    BY <2>2, <2>3, LevelCntAssumption
  <2>5. HeldTo(u) \in Int
    BY <2>2, <2>3, LevelCntAssumption
  <2>6. pc[u] = "uncount" => HeldTo(u) = Depth(u)
    BY DEF HeldTo
  <2>7. pc[u] = "unlink" => Depth(u) # d
    BY <1>16
  <2> QED BY <2>1, <2>2, <2>4, <2>5, <2>6, <2>7
<1>17. AtInv'
  <2>1. ASSUME NEW u \in Threads \ {t}, Working(u) \/ known[u], NEW e \in 1..Depth(u)
        PROVE  NextAt(page[u])[e] = At(page[u])[e]
    <3>1. e \in 1..LEVEL_CNT + 1 /\ page[u] \in Pages
      BY <1>8, LevelCntAssumption
    <3>2. e <= d \/ page[u] \notin Sub(q0, d)
      <4>1. SUFFICES ASSUME page[u] \in Sub(q0, d) PROVE e <= d
        OBVIOUS
      <4>2. Depth(u) <= d
        BY <4>1, <2>1, <1>11, <1>16
      <4> QED BY <4>2, <1>2, <1>8
    <3> QED BY <3>1, <3>2, <1>6
  <2>2. ASSUME (Working(t) \/ known[t])', NEW e \in 1..Depth(t)'
        PROVE  at'[t][e] = NextAt(page'[t])[e]
    <3>1. Working(t)' /\ page'[t] = q0 /\ Depth(t)' <= d /\ at'[t][e] = At(q0)[e]
      BY <2>2, <1>5
    <3>2. Depth(t)' \in Int
      BY <3>1 DEF Depth
    <3>3. e <= d /\ e \in 1..LEVEL_CNT + 1
      BY <3>1, <3>2, <1>2, LevelCntAssumption
    <3> QED BY <3>1, <3>3, <1>2, <1>6
  <2> QED BY <2>1, <2>2, <1>2, <1>3, <1>5, AtOthers
<1>18. FreshInv'
  <2>1. ASSUME NEW u \in Threads \ {t}, pc[u] \in {"uncount", "unlink"}
        PROVE  NextAt(page[u])[Depth(u) + 1] = At(page[u])[Depth(u) + 1]
    <3>1. Depth(u) + 1 \in 1..LEVEL_CNT + 1 /\ page[u] \in Pages
      BY <1>8, LevelCntAssumption
    <3>2. Working(u)
      BY <2>1 DEF Working, Removing
    <3>3. Depth(u) + 1 <= d \/ page[u] \notin Sub(q0, d)
      BY <2>1, <3>2, <1>16
    <3> QED BY <3>1, <3>3, <1>6
  <2>2. ASSUME NEW u \in Threads \ {t}, NEW l \in Own(u)
        PROVE  l \in pool' /\ Unlinked(l)' /\ m_ptr'[l] = m_ptr[l] /\ m_cnt'[l] = m_cnt[l]
    <3>1. l \in pool /\ l # Null /\ Unlinked(l)
      BY FreshFacts, LevelsAssumption
    <3>2. l # At(q0)[d]
      BY <3>1, <1>2 DEF Unlinked
    <3>3. ASSUME NEW p \in Pages, NEW e \in 1..LEVEL_CNT PROVE NextAt(p)[e] # l
      <4>1. e \in 1..LEVEL_CNT + 1
        BY LevelCntAssumption
      <4>2. At(p)[e] # l
        BY <3>1 DEF Unlinked
      <4> QED BY <4>1, <4>2, <3>1, <1>6
    <3>4. Unlinked(l)'
      BY <3>3 DEF Unlinked, At, NextAt
    <3> QED BY <3>1, <3>2, <3>4, <1>7
  <2> QED BY <2>1, <2>2, <1>3, <1>5, FreshOthers
\* What is cut off is one table, with nothing below.
<1>19. ASSUME d < LEVEL_CNT, NEW q \in Sub(q0, d) PROVE At(q)[(d + 1) + 1] = Null
  <2>1. SUFFICES ASSUME At(q)[(d + 1) + 1] # Null PROVE FALSE
    OBVIOUS
  <2>2. d + 1 \in 1..LEVEL_CNT /\ d + 1 \in 0..LEVEL_CNT /\ d \in 0..d + 1 /\ d + 1 # d
    BY <1>2, <1>19, LevelCntAssumption
  <2>3. q \in Pages /\ Sub(q, d + 1) \subseteq Sub(q0, d)
    <3>1. q \in Pages
      BY DEF Sub
    <3>2. Sub(q, d + 1) \subseteq Sub(q, d)
      BY <3>1, <2>2, SubFacts
    <3>3. Sub(q, d) = Sub(q0, d)
      BY <1>2, SubFacts
    <3> QED BY <3>1, <3>2, <3>3
  <2>4. Sub(q, d + 1) \cap Counted(d + 1) # {} \/ \E w \in Unlinks(d + 1) : page[w] \in Sub(q, d + 1)
    BY <2>1, <2>2, <2>3, <1>3 DEF UsedInv
  <2>5. Sub(q, d + 1) \cap Counted(d + 1) = {}
    <3>1. SUFFICES ASSUME NEW r \in Sub(q, d + 1), r \in Counted(d + 1) PROVE FALSE
      OBVIOUS
    <3>2. d \in Int
      BY <1>2
    <3>3. r \in HeldAt(d)
      BY <3>1, <3>2, <1>2, LevelFacts
    <3>4. r = q0
      BY <3>3, <2>3
    <3> QED BY <3>1, <3>4, <1>19
  <2>6. ASSUME NEW w \in Unlinks(d + 1), page[w] \in Sub(q, d + 1) PROVE FALSE
    <3>1. w \in Threads /\ pc[w] = "unlink" /\ Depth(w) = d + 1
      BY DEF Unlinks
    <3>2. w # t /\ Working(w) /\ HeldTo(w) = (d + 1) - 1
      BY <3>1, <2>2 DEF Working, Removing, HeldTo
    <3>3. HeldTo(w) < d
      BY <3>1, <3>2, <2>3, <2>6, <1>10
    <3> QED BY <3>2, <3>3, <1>2
  <2> QED BY <2>4, <2>5, <2>6
<1>20. ASSUME NEW u \in Threads \ {t}, pc[u] \in {"get", "got"} PROVE Found(u)'
  <2>1. /\ Here(u) \in pool \cup {Root, Null} /\ Found(u)
        /\ Ptr(u) = Null \/ Ptr(u) = At(page[u])[Depth(u) + 1]
    BY <1>20, ReaderFacts
  <2>2. /\ Here(u)' = Here(u) /\ Depth(u)' = Depth(u) /\ Idx(u)' = Idx(u) /\ page'[u] = page[u]
    BY <1>5, OthersSame DEF Others
  <2>3. Here(u) # At(q0)[d] => Ptr(u)' = Ptr(u)
    BY <2>2, <1>7 DEF Ptr
  <2>4. CASE Here(u) \notin pool \cup {Root}
    BY <2>2, <2>4 DEF Found
  <2>5. CASE Here(u) \in pool \cup {Root} /\ Here(u) = At(page[u])[Depth(u)]
    <3>1. Here(u) # Null /\ Depth(u) \in 1..LEVEL_CNT + 1 /\ page[u] \in Pages
      BY <2>5, <1>2, <1>8, LevelsAssumption, LevelCntAssumption DEF TypeOK
    <3>2. CASE Depth(u) <= d \/ page[u] \notin Sub(q0, d)
      <4>1. NextAt(page[u])[Depth(u)] = At(page[u])[Depth(u)]
        BY <3>1, <3>2, <1>6
      <4>2. Here(u)' = At(page[u])'[Depth(u)']
        BY <4>1, <2>2, <2>5 DEF At, NextAt
      <4> QED BY <4>2, <2>2 DEF Found
    <3>3. CASE ~(Depth(u) <= d) /\ page[u] \in Sub(q0, d)
      <4>1. d < LEVEL_CNT
        BY <3>3, <1>2, <1>8, LevelCntAssumption
      <4>2. At(page[u])[(d + 1) + 1] = Null
        BY <4>1, <3>3, <1>19
      <4>3. Depth(u) = d + 1
        <5>1. SUFFICES ASSUME Depth(u) # d + 1 PROVE FALSE
          OBVIOUS
        <5>2. (d + 1) + 1 \in 1..Depth(u)
          BY <5>1, <3>3, <1>2, <1>8
        <5>3. At(page[u])[(d + 1) + 1] # Null
          BY <5>2, <3>1, <2>5, <1>3, AtFacts
        <5> QED BY <5>3, <4>2
      <4>4. Here(u) = At(q0)[d + 1]
        <5>1. d \in 0..LEVEL_CNT /\ d + 1 \in 1..d + 1
          BY <1>2
        <5>2. At(page[u])[d + 1] = At(q0)[d + 1]
          BY <5>1, <3>3, <1>3, AtFacts
        <5> QED BY <5>2, <4>3, <2>5
      <4>5. Here(u) # At(q0)[d]
        <5>1. d + 1 \in 1..LEVEL_CNT /\ d + 1 # d
          BY <4>1, <1>2, LevelCntAssumption
        <5> QED BY <5>1, <4>4, <3>1, <1>2, <1>3 DEF LinkInv
      <4>6. Ptr(u)' = Null
        BY <4>2, <4>3, <4>5, <2>1, <2>3
      <4>7. pc'[t] = "destroy" /\ Here(u)' \in Own(t)'
        BY <4>1, <4>4, <2>2
      <4> QED BY <4>6, <4>7 DEF Found
    <3> QED BY <3>2, <3>3
  <2>6. ASSUME NEW v \in Threads, pc[v] = "destroy", Here(u) \in Own(v), Ptr(u) = Null
        PROVE  Found(u)'
    <3>1. v \in Threads \ {t}
      BY <2>6
    <3>2. pc'[v] = "destroy" /\ Own(v)' = Own(v)
      BY <3>1, <2>6, <1>5, OthersSame DEF Others
    <3>3. Here(u) # At(q0)[d]
      BY <2>6, <1>2, FreshFacts DEF Unlinked
    <3>4. Ptr(u)' = Null
      BY <3>3, <2>3, <2>6
    <3> QED BY <3>2, <3>4, <2>2, <2>6 DEF Found
  <2> QED BY <2>1, <2>4, <2>5, <2>6 DEF Found
<1>21. ReadInv'
  <2>1. ASSUME NEW u \in Threads \ {t}, known[u]
        PROVE  mem'[page[u]] = "in" /\ NextAt(page[u])[LEVEL_CNT + 1] = At(page[u])[LEVEL_CNT + 1]
    <3>1. page[u] \in Pages \ {q0} /\ mem[page[u]] = "in" /\ page[u] \notin Sub(q0, d)
      BY <2>1, <1>2, <1>8, <1>11
    <3>2. LEVEL_CNT + 1 \in 1..LEVEL_CNT + 1
      BY LevelCntAssumption
    <3> QED BY <3>1, <3>2, <1>5, <1>6
  <2>2. ReadOf(t)'
    BY DEF ReadOf
  <2> QED BY <2>1, <2>2, <1>3, <1>5, <1>20, ReadOthers
<1> QED BY <1>12, <1>13, <1>14, <1>15, <1>17, <1>18, <1>21 DEF IInv

\* last_level::remove_index.
LEMMA EraseEntryStep ==
    ASSUME IInv, Steady, NEW t \in Threads, NEW q0, NEW d, q0 = page[t], d = Depth(t),
           EraseEntry(t), UNCHANGED <<lost, undefined>>
    PROVE  IInv'
<1>1. pc[t] = "erase" /\ SetPtr(t, Null) /\ Up(t) /\ m_cnt' = m_cnt /\ pool' = pool
  BY DEF EraseEntry
<1>2. Working(t)
  BY <1>1 DEF Working, Removing
<1>3. TypeOK /\ OwnInv /\ q0 \in Pages /\ d \in 1..LEVEL_CNT /\ d = LEVEL_CNT
  BY <1>1, <1>2, WorkerFacts DEF OwnInv
<1>4. Cuts(q0, d)
  BY <1>1, <1>2, CutFacts
<1>5. NextAt(q0)[d] = At(q0)[d]
  <2>1. d \in 1..LEVEL_CNT + 1 /\ d <= d
    BY <1>3, LevelCntAssumption
  <2> QED BY <2>1, <1>3, <1>4 DEF Cuts
<1>6. /\ OnPage(t, q0) /\ Others(t) /\ LocalOK' /\ OwnInv'
      /\ mem' \in [Pages -> {"free", "indexing", "in", "deindexing"}]
      /\ pc'[t] \in {"idle", "uncount"} /\ ~known'[t]
      /\ FreshOf(t)' /\ Own(t)' = {}
      /\ Working(t)' => \A e \in 1..Depth(t)' : at'[t][e] = At(q0)[e]
      /\ \A e \in 1..LEVEL_CNT :
            /\ Counted(e)' = IF e <= d - 1 THEN Counted(e) \cup {q0} ELSE Counted(e) \ {q0}
            /\ HeldAt(e)' = IF e <= d - 1 THEN HeldAt(e) \cup {q0} ELSE HeldAt(e) \ {q0}
  BY <1>1, <1>5, UpFacts
<1>7. Depth(t)' <= d
  <2>1. Len(at'[t]) \in 1..LEVEL_CNT
    BY <1>6 DEF LocalOK
  <2> QED BY <2>1, <1>3, LevelCntAssumption DEF Depth
<1>8. \A e \in 1..LEVEL_CNT : q0 \in Counted(e) /\ q0 \in HeldAt(e)
  <2>1. CountedTo(t) = LEVEL_CNT /\ HeldTo(t) = LEVEL_CNT
    BY <1>1 DEF CountedTo, HeldTo
  <2>2. \A e \in 1..LEVEL_CNT : e \in Int /\ e <= LEVEL_CNT
    BY LevelCntAssumption
  <2> QED BY <2>1, <2>2, <1>2, <1>3, LevelFacts
<1>9. ASSUME NEW e \in 1..LEVEL_CNT
      PROVE  /\ e <= d - 1 => Counted(e)' = Counted(e) /\ HeldAt(e)' = HeldAt(e)
             /\ ~(e <= d - 1) => Counted(e)' = Counted(e) \ {q0} /\ HeldAt(e)' = HeldAt(e) \ {q0}
  <2>1. Counted(e) \cup {q0} = Counted(e) /\ HeldAt(e) \cup {q0} = HeldAt(e)
    BY <1>8
  <2> QED BY <2>1, <1>6
<1>10. /\ \A e \in 1..LEVEL_CNT : HeldAt(e)' \subseteq HeldAt(e) /\ Counted(e)' \subseteq Counted(e)
       /\ \A e \in d..LEVEL_CNT : q0 \notin HeldAt(e)'
       /\ \A e \in 1..LEVEL_CNT - 1 : Counted(e)' = Counted(e)
       /\ Counted(d)' = Counted(d) \ {q0}
  <2>1. \A e \in 1..LEVEL_CNT : HeldAt(e)' \subseteq HeldAt(e) /\ Counted(e)' \subseteq Counted(e)
    BY <1>9
  <2>2. ASSUME NEW e \in d..LEVEL_CNT PROVE q0 \notin HeldAt(e)'
    <3>1. e \in 1..LEVEL_CNT /\ ~(e <= d - 1)
      BY <1>3, LevelCntAssumption
    <3> QED BY <3>1, <1>9
  <2>3. ASSUME NEW e \in 1..LEVEL_CNT - 1 PROVE Counted(e)' = Counted(e)
    <3>1. e \in 1..LEVEL_CNT /\ e <= d - 1
      BY <1>3, LevelCntAssumption
    <3> QED BY <3>1, <1>9
  <2>4. Counted(d)' = Counted(d) \ {q0}
    <3>1. ~(d <= d - 1)
      BY <1>3, LevelCntAssumption
    <3> QED BY <3>1, <1>3, <1>9
  <2> QED BY <2>1, <2>2, <2>3, <2>4
<1>11. Sub(q0, d) = {q0} /\ ~(d < LEVEL_CNT)
  BY <1>3, SubFacts, LevelCntAssumption
<1>12. \A u \in Threads \ {t} : pc[u] = "unlink" /\ Depth(u) = d => page[u] \notin Sub(q0, d)
  BY <1>3, <1>11 DEF OwnInv, Inner
<1>13. TypeOK'
  <2>1. m_ptr' \in [Tables -> [Indices -> Levels \cup Descriptors \cup {Null}]]
    BY <1>1, <1>2, SetFacts
  <2>2. TreeOK'
    BY <2>1, <1>1, <1>3, <1>6 DEF TreeOK, TypeOK, Tables
  <2> QED BY <2>2, <1>3, <1>6, TypeStep
<1>14. pc[t] \in {"erase", "unlink"} /\ pc'[t] \notin {"get", "got", "load", "unlink"}
  BY <1>1, <1>6
<1>15. \A q \in Sub(q0, d) \ {q0} : q \notin HeldAt(d)
  BY <1>11
<1> QED BY <1>1, <1>4, <1>6, <1>7, <1>10, <1>11, <1>12, <1>13, <1>14, <1>15, RemoveStep

\* The table that is about to be unlinked has lost its last page.
LEMMA NothingHeld ==
    ASSUME IInv, NEW t \in Threads, NEW q0, NEW d, q0 = page[t], d = Depth(t), pc[t] = "unlink",
           NEW q \in Sub(q0, d)
    PROVE  q \notin HeldAt(d)
<1>1. Working(t)
  BY DEF Working, Removing
<1>2. TypeOK /\ OwnInv /\ q0 \in Pages /\ d \in 1..LEVEL_CNT /\ DoomInv
  BY <1>1, WorkerFacts DEF IInv
<1>3. SUFFICES ASSUME q \in HeldAt(d) PROVE FALSE
  OBVIOUS
<1>4. q \in Counted(d)
  <2>1. d \in Int
    BY <1>2
  <2> QED BY <2>1, <1>2, <1>3, LevelFacts
<1>5. t \in Unlinks(d)
  BY DEF Unlinks
<1>6. PICK u \in Loads(d) : page[u] = q
  BY <1>2, <1>4, <1>5 DEF DoomInv
<1>7. u \in Threads /\ pc[u] = "load" /\ Depth(u) = d
  BY DEF Loads
<1>8. Working(u) /\ HeldTo(u) = d - 1
  BY <1>7 DEF Working, Adding, HeldTo
<1>9. d \in Int /\ ~(d <= d - 1)
  BY <1>2
<1> QED BY <1>2, <1>3, <1>6, <1>7, <1>8, <1>9, LevelFacts

\* remove_index of a level above takes the table out that lost its last page.
LEMMA UnlinkStep ==
    ASSUME IInv, Steady, NEW t \in Threads, NEW q0, NEW d, q0 = page[t], d = Depth(t),
           Unlink(t), UNCHANGED <<lost, undefined>>
    PROVE  IInv'
<1>1. /\ pc[t] = "unlink" /\ SetPtr(t, Null) /\ pc' = [pc EXCEPT ![t] = "destroy"]
      /\ m_cnt' = m_cnt /\ pool' = pool /\ mem' = mem /\ page' = page /\ entry' = entry
      /\ at' = at /\ fresh' = fresh /\ known' = known
  BY DEF Unlink, Goto
<1>2. Working(t)
  BY <1>1 DEF Working, Removing
<1>3. /\ TypeOK /\ OwnInv /\ q0 \in Pages /\ d \in 1..LEVEL_CNT /\ d \in 0..LEVEL_CNT
      /\ ~known[t] /\ mem[q0] \in {"indexing", "deindexing"}
      /\ \A u \in Threads \ {t} : Working(u) => page[u] # q0
      /\ \A e \in 1..d : at[t][e] = At(q0)[e]
  BY <1>2, WorkerFacts
<1>4. d < LEVEL_CNT /\ mem[q0] = "deindexing"
  BY <1>1, <1>3 DEF OwnInv, Inner, Removing
<1>5. LinkInv /\ DoomInv /\ FreshInv
  BY DEF IInv
<1>6. Cuts(q0, d)
  BY <1>1, <1>2, CutFacts
<1>7. Others(t) /\ pc'[t] = "destroy" /\ Depth(t)' = d /\ page'[t] = q0
  BY <1>1, <1>3 DEF Others, TypeOK, Depth
<1>8. Working(t)' /\ pc'[t] \notin Adding /\ pc'[t] \notin {"store", "erase"}
  BY <1>7 DEF Working, Removing, Adding
<1>9. OnPage(t, q0)
  BY <1>1, <1>3, <1>7 DEF OnPage
<1>10. OwnInv'
  BY <1>1, <1>3, <1>4, <1>7, <1>8, OwnOthers
<1>11. CountedTo(t) = d - 1 /\ HeldTo(t) = d - 1 /\ CountedTo(t)' = d - 1 /\ HeldTo(t)' = d - 1
  BY <1>1, <1>7 DEF CountedTo, HeldTo
<1>12. \A e \in 1..LEVEL_CNT : Counted(e)' = Counted(e) /\ HeldAt(e)' = HeldAt(e)
  <2>1. mem'[q0] # "in"
    BY <1>1, <1>4
  <2> QED BY <2>1, <1>2, <1>8, <1>9, <1>11, WorkLevels
<1>13. \A q \in Sub(q0, d) : q \notin HeldAt(d)
  BY <1>1, NothingHeld
<1>14. \A e \in d..LEVEL_CNT : q0 \notin HeldAt(e)'
  <2>1. ASSUME NEW e \in d..LEVEL_CNT PROVE q0 \notin HeldAt(e)'
    <3>1. e \in 1..LEVEL_CNT /\ e \in Int /\ ~(e <= d - 1)
      BY <1>3
    <3>2. q0 \notin HeldAt(e)
      BY <3>1, <1>2, <1>3, <1>11, LevelFacts
    <3> QED BY <3>1, <3>2, <1>12
  <2> QED BY <2>1
<1>15. \A u \in Threads \ {t} : pc[u] = "unlink" /\ Depth(u) = d => page[u] \notin Sub(q0, d)
  <2>1. ASSUME NEW u \in Threads \ {t}, pc[u] = "unlink", Depth(u) = d, page[u] \in Sub(q0, d)
        PROVE  FALSE
    <3>1. u \in Unlinks(d) /\ t \in Unlinks(d)
      BY <2>1, <1>1 DEF Unlinks
    <3>2. u = t
      BY <3>1, <2>1, <1>3, <1>5 DEF DoomInv
    <3> QED BY <3>2
  <2> QED BY <2>1
<1>16. q0 \notin Counted(d + 1)
  <2>1. d + 1 \in Int /\ ~(d + 1 <= d - 1)
    BY <1>3
  <2> QED BY <2>1, <1>2, <1>3, <1>11, LevelFacts
<1>17. fresh[t] = <<At(q0)[d + 1]>> /\ At(q0)[d + 1] # Null
  <2>1. FreshOf(t)
    BY <1>5 DEF FreshInv
  <2> QED BY <2>1, <1>1 DEF FreshOf
<1>18. Own(t)' = {At(q0)[d + 1]} /\ Len(fresh'[t]) = 1
  <2>1. Len(fresh[t]) = 1 /\ fresh[t][1] = At(q0)[d + 1]
    BY <1>17
  <2>2. 1..Len(fresh[t]) = {1}
    BY <2>1
  <2>3. {fresh[t][j] : j \in 1..Len(fresh[t])} = {At(q0)[d + 1]}
    BY <2>1, <2>2
  <2>4. Own(t)' = {fresh[t][j] : j \in 1..Len(fresh[t])}
    BY <1>1, <1>7 DEF Own
  <2> QED BY <2>1, <2>3, <2>4, <1>1
<1>19. d + 1 \in 2..LEVEL_CNT /\ d + 1 \in 1..LEVEL_CNT
  BY <1>3, <1>4, LevelCntAssumption
<1>20. FreshOf(t)'
  <2>1. At(q0)[d + 1] \in pool'
    BY <1>1, <1>3, <1>5, <1>17, <1>19 DEF LinkInv
  <2>2. ASSUME NEW p \in Pages, NEW e \in 1..LEVEL_CNT PROVE NextAt(p)[e] # At(q0)[d + 1]
    <3>1. SUFFICES ASSUME NextAt(p)[e] = At(q0)[d + 1] PROVE FALSE
      OBVIOUS
    <3>2. e \in 1..LEVEL_CNT + 1
      BY LevelCntAssumption
    <3>3. NextAt(p)[e] = At(p)[e] /\ (e <= d \/ p \notin Sub(q0, d))
      BY <3>1, <3>2, <1>6, <1>17 DEF Cuts
    <3>4. e = d + 1 /\ p \in Sub(q0, e - 1)
      <4>1. At(p)[e] # Null /\ At(p)[e] = At(q0)[d + 1]
        BY <3>1, <3>3, <1>17
      <4>2. \A f \in 1..LEVEL_CNT : At(p)[e] = At(q0)[f] => e = f /\ p \in Sub(q0, e - 1)
        BY <4>1, <1>3, <1>5 DEF LinkInv
      <4> QED BY <4>1, <4>2, <1>19
    <3>5. e - 1 = d /\ ~(e <= d)
      BY <3>4, <1>3
    <3> QED BY <3>3, <3>4, <3>5
  <2>3. ASSUME NEW l, l \in Own(t)' PROVE l \in pool' /\ Unlinked(l)'
    <3>1. l = At(q0)[d + 1]
      BY <2>3, <1>18
    <3>2. \A p \in Pages : \A e \in 1..LEVEL_CNT : NextAt(p)[e] # l
      BY <3>1, <2>2
    <3>3. Unlinked(l)'
      BY <3>2 DEF Unlinked, At, NextAt
    <3> QED BY <3>1, <3>3, <2>1
  <2> QED BY <2>3, <1>7, <1>18 DEF FreshOf
<1>21. \A u \in Threads \ {t} : Own(t)' \cap Own(u) = {}
  <2>1. \A u \in Threads : \A l \in Own(u) : l # At(q0)[d + 1]
    BY <1>3, <1>19, FreshFacts DEF Unlinked
  <2> QED BY <2>1, <1>18
<1>22. TypeOK'
  <2>1. m_ptr' \in [Tables -> [Indices -> Levels \cup Descriptors \cup {Null}]]
    BY <1>1, <1>2, SetFacts
  <2>2. TreeOK'
    BY <2>1, <1>1, <1>3 DEF TreeOK, TypeOK, Tables
  <2>3. pc' \in [Threads -> {"idle", "get", "got"} \cup Adding \cup Removing]
    BY <1>1, <1>3 DEF TypeOK, Removing
  <2>4. LocalOK'
    BY <2>3, <1>1, <1>3 DEF LocalOK, TypeOK, Tables
  <2> QED BY <2>2, <2>4, <1>3, TypeStep
<1>23. /\ \A e \in 1..LEVEL_CNT : HeldAt(e)' \subseteq HeldAt(e) /\ Counted(e)' \subseteq Counted(e)
       /\ \A e \in 1..LEVEL_CNT - 1 : Counted(e)' = Counted(e)
       /\ Counted(LEVEL_CNT)' = Counted(LEVEL_CNT)
       /\ d # LEVEL_CNT /\ d < LEVEL_CNT
  BY <1>3, <1>4, <1>12, LevelCntAssumption
<1>24. pc[t] \in {"erase", "unlink"} /\ pc'[t] \notin {"get", "got", "load", "unlink"} /\ ~known'[t]
  BY <1>1, <1>3, <1>7
<1>25. Depth(t)' <= d /\ \A e \in 1..Depth(t)' : at'[t][e] = At(q0)[e]
  BY <1>1, <1>3, <1>7
<1>26. \A q \in Sub(q0, d) \ {q0} : q \notin HeldAt(d)
  BY <1>13
<1> QED BY <1>1, <1>6, <1>7, <1>9, <1>10, <1>14, <1>15, <1>16, <1>18, <1>20, <1>21, <1>22, <1>23,
           <1>24, <1>25, <1>26, RemoveStep

-----------------------------------------------------------------------------
(* The invariant                                                           *)

\* A step that only says that the program has no meaning any more.
LEMMA SameStep ==
    ASSUME IInv, UNCHANGED <<tree, mem, local, lost>>, undefined' \in BOOLEAN
    PROVE  IInv'
<1>1. /\ m_ptr' = m_ptr /\ m_cnt' = m_cnt /\ pool' = pool /\ mem' = mem /\ pc' = pc
      /\ page' = page /\ entry' = entry /\ at' = at /\ fresh' = fresh /\ known' = known
  BY DEF tree, local
<1>2. \A t : /\ Depth(t)' = Depth(t) /\ Here(t)' = Here(t) /\ Idx(t)' = Idx(t)
             /\ (Working(t)' <=> Working(t))
  BY <1>1 DEF Depth, Here, Idx, Working
<1>3. \A t : /\ CountedTo(t)' = CountedTo(t) /\ HeldTo(t)' = HeldTo(t) /\ Own(t)' = Own(t)
             /\ Ptr(t)' = Ptr(t)
  BY <1>1, <1>2 DEF CountedTo, HeldTo, Own, Ptr
<1>4. \A d : /\ Counted(d)' = Counted(d) /\ HeldAt(d)' = HeldAt(d)
             /\ Unlinks(d)' = Unlinks(d) /\ Loads(d)' = Loads(d)
  BY <1>1, <1>2, <1>3 DEF Counted, HeldAt, Unlinks, Loads
<1>5. SameAt /\ \A l : Unlinked(l)' <=> Unlinked(l)
  BY <1>1 DEF SameAt, NextAt, Unlinked, At
<1>6. TypeOK'
  BY <1>1 DEF IInv, TypeOK, Tables
<1>7. OwnInv'
  BY <1>1, <1>2 DEF IInv, OwnInv
<1>8. LinkInv'
  BY <1>1, <1>5, LinkSame DEF IInv, LinkInv
<1>9. UsedInv'
  BY <1>1, <1>4, <1>5, UsedSame DEF IInv
<1>10. CountInv'
  BY <1>1, <1>4, <1>5, CountSame DEF IInv
<1>11. AtInv'
  BY <1>1, <1>2 DEF IInv, AtInv, At
<1>12. DoomInv'
  BY <1>1, <1>4, DoomSame DEF IInv
<1>13. FreshInv'
  <2>1. ASSUME NEW t \in Threads PROVE FreshOf(t)'
    <3>1. FreshOf(t)
      BY DEF IInv, FreshInv
    <3>2. NewTables(t)' <=> NewTables(t)
      BY <1>1, <1>2 DEF NewTables
    <3> QED BY <3>1, <3>2, <1>1, <1>2, <1>3, <1>5 DEF FreshOf, At
  <2>2. \A t, u \in Threads : t # u => Own(t)' \cap Own(u)' = {}
    BY <1>3 DEF IInv, FreshInv
  <2> QED BY <2>1, <2>2 DEF FreshInv
<1>14. ReadInv'
  <2>1. ASSUME NEW t \in Threads PROVE ReadOf(t)'
    <3>1. ReadOf(t)
      BY DEF IInv, ReadInv
    <3> QED BY <3>1, <1>1, <1>2, <1>3 DEF ReadOf, At
  <2> QED BY <2>1 DEF ReadInv
<1> QED BY <1>6, <1>7, <1>8, <1>9, <1>10, <1>11, <1>12, <1>13, <1>14 DEF IInv

\* The empty tree.
LEMMA InitPaths ==
    ASSUME Init
    PROVE  /\ \A p : At(p)[1] = Root
           /\ \A p \in Pages : \A d \in 2..LEVEL_CNT + 1 : At(p)[d] = Null
<1>1. \A p : At(p)[1] = Root
  BY PathStep DEF At
<1>2. ASSUME NEW p \in Pages, NEW d \in 2..LEVEL_CNT + 1, At(p)[d] # Null PROVE FALSE
  <2>1. 2 \in 1..d /\ d \in 1..LEVEL_CNT + 1
    BY LevelCntAssumption
  <2>2. At(p)[2] # Null
    BY <2>1, <1>2, PathDown DEF At
  <2>3. 1 \in 1..LEVEL_CNT /\ 1 + 1 = 2
    BY LevelCntAssumption
  <2>4. At(p)[2] = IF At(p)[1] = Null THEN Null ELSE m_ptr[At(p)[1]][p[1]]
    BY <2>3, PathStep DEF At
  <2>5. p[1] \in Indices
    <3>1. p \in [1..LEVEL_CNT -> Indices]
      BY PagesAssumption
    <3> QED BY ONLY <3>1, <2>3
  <2>6. m_ptr[Root][p[1]] = Null
    BY <2>5 DEF Init, Empty, Tables
  <2> QED BY <2>2, <2>4, <2>6, <1>1
<1> QED BY <1>1, <1>2

\* The invariant holds in the beginning.
LEMMA InitStep ==
    ASSUME Init
    PROVE  IInv
<1>1. /\ m_ptr = [l \in Tables |-> Empty] /\ m_cnt = [l \in Tables |-> NoCount] /\ pool = {}
      /\ mem = [p \in Pages |-> "free"] /\ pc = [t \in Threads |-> "idle"]
      /\ page = [t \in Threads |-> SomePage] /\ entry = [t \in Threads |-> Null]
      /\ at = [t \in Threads |-> <<Root>>] /\ fresh = [t \in Threads |-> <<>>]
      /\ known = [t \in Threads |-> FALSE] /\ lost = {} /\ undefined = FALSE
  BY DEF Init
<1>2. \A t \in Threads : pc[t] = "idle" /\ ~known[t] /\ ~Working(t)
  BY <1>1 DEF Working, Adding, Removing
<1>3. \A d : Counted(d) = {} /\ HeldAt(d) = {} /\ Unlinks(d) = {}
  BY <1>1, <1>2 DEF Counted, HeldAt, Unlinks
<1>4. /\ \A p : At(p)[1] = Root
      /\ \A p \in Pages : \A d \in 2..LEVEL_CNT + 1 : At(p)[d] = Null
  BY InitPaths
<1>5. TypeOK
  <2>1. SomePage \in Pages
    BY PagesAssumption DEF SomePage
  <2>2. m_ptr \in [Tables -> [Indices -> Levels \cup Descriptors \cup {Null}]]
    BY <1>1 DEF Empty
  <2>3. Cardinality(Pages) \in Nat
    BY PagesAssumption, FS_CardinalityType
  <2>4. m_cnt \in [Tables -> [Indices -> 0..Cardinality(Pages)]]
    <3>1. 0 \in 0..Cardinality(Pages)
      BY <2>3
    <3> QED BY <3>1, <1>1 DEF NoCount
  <2>5. /\ at \in [Threads -> Seq(Tables \cup {Null})]
        /\ \A t \in Threads : Len(at[t]) \in 1..LEVEL_CNT
    BY <1>1, RootPath
  <2>6. fresh \in [Threads -> Seq(Levels)]
    BY <1>1
  <2>7. /\ pool \subseteq Levels
        /\ mem \in [Pages -> {"free", "indexing", "in", "deindexing"}]
        /\ pc \in [Threads -> {"idle", "get", "got"} \cup Adding \cup Removing]
        /\ page \in [Threads -> Pages]
        /\ entry \in [Threads -> Descriptors \cup {Null}]
        /\ known \in [Threads -> BOOLEAN] /\ lost \subseteq Pages /\ undefined \in BOOLEAN
    BY <2>1, <1>1
  <2> QED BY <2>2, <2>4, <2>5, <2>6, <2>7 DEF TypeOK
<1>6. OwnInv
  BY <1>2 DEF OwnInv, Working, Adding, Removing, Inner
<1>7. \A p \in Pages : \A d \in 1..LEVEL_CNT : At(p)[d] # Null => d = 1 /\ At(p)[d] = Root
  <2>1. \A d \in 1..LEVEL_CNT : d = 1 \/ d \in 2..LEVEL_CNT + 1
    BY LevelCntAssumption
  <2> QED BY <2>1, <1>4
<1>8. LinkInv
  <2>1. \A d \in 2..LEVEL_CNT : d \in 1..LEVEL_CNT /\ d # 1
    BY LevelCntAssumption
  <2>2. LEVEL_CNT + 1 \in 2..LEVEL_CNT + 1
    BY LevelCntAssumption
  <2>3. ASSUME NEW p \in Pages, NEW q \in Pages, NEW d \in 1..LEVEL_CNT, NEW e \in 1..LEVEL_CNT,
               At(p)[d] # Null, At(p)[d] = At(q)[e]
        PROVE  d = e /\ p \in Sub(q, d - 1)
    <3>1. d = 1 /\ e = 1
      BY <2>3, <1>7
    <3>2. p \in Sub(q, 0)
      BY DEF Sub
    <3> QED BY <3>1, <3>2
  <2> QED BY <2>1, <2>2, <2>3, <1>4, <1>7 DEF LinkInv
<1>9. UsedInv
  <2>1. \A d \in 1..LEVEL_CNT : d + 1 \in 2..LEVEL_CNT + 1
    BY LevelCntAssumption
  <2> QED BY <2>1, <1>3, <1>4 DEF UsedInv
<1>10. CountInv
  <2>1. ASSUME NEW p \in Pages, NEW d \in 1..LEVEL_CNT - 1, At(p)[d] # Null
        PROVE  m_cnt[At(p)[d]][p[d]] = Cardinality(Sub(p, d) \cap Counted(d))
    <3>1. d \in 1..LEVEL_CNT
      BY LevelCntAssumption
    <3>2. At(p)[d] = Root
      BY <3>1, <2>1, <1>7
    <3>3. p[d] \in Indices
      <4>1. p \in [1..LEVEL_CNT -> Indices]
        BY PagesAssumption
      <4> QED BY ONLY <4>1, <3>1
    <3>4. m_cnt[Root][p[d]] = 0
      BY <3>3, <1>1 DEF NoCount, Tables
    <3>5. Sub(p, d) \cap Counted(d) = {}
      BY <1>3
    <3> QED BY <3>2, <3>4, <3>5, FS_EmptySet
  <2> QED BY <2>1 DEF CountInv
<1>11. AtInv /\ DoomInv
  BY <1>2, <1>3 DEF AtInv, DoomInv
<1>12. FreshInv
  <2>1. \A t \in Threads : Own(t) = {}
    BY <1>2 DEF Own
  <2> QED BY <2>1, <1>2 DEF FreshInv, FreshOf
<1>13. ReadInv
  BY <1>2 DEF ReadInv, ReadOf
<1> QED BY <1>5, <1>6, <1>8, <1>9, <1>10, <1>11, <1>12, <1>13 DEF IInv

\* A step that puts no page into a table about to be destroyed.
LEMMA NotLost ==
    ASSUME NEW t \in Threads, Work(t), lost' = {}
    PROVE  Steady /\ UNCHANGED <<lost, undefined>> /\ ~EntersDoomed(t) /\ (Call(t) \/ Step(t))
<1>1. lost' = (IF EntersDoomed(t) THEN lost \cup {page[t]} ELSE lost)
  BY DEF Work
<1>2. ~EntersDoomed(t) /\ lost' = lost
  BY <1>1
<1> QED BY <1>2 DEF Work, Steady

\* And every step keeps it until one does.
LEMMA NextStep ==
    ASSUME lost = {} => IInv, [Next]_vars, lost' = {}
    PROVE  IInv'
<1>1. CASE UNCHANGED vars
  BY <1>1, SameStep DEF vars, IInv, TypeOK
<1>2. CASE Stray
  BY <1>2, SameStep DEF Stray
<1>3. ASSUME NEW t \in Threads, Work(t) PROVE IInv'
  <2>1. /\ IInv /\ Steady /\ UNCHANGED <<lost, undefined>> /\ ~EntersDoomed(t)
        /\ Call(t) \/ Step(t)
    BY <1>3, NotLost
  <2>2. CASE Call(t)
    BY <2>1, <2>2, IndexStep, DeindexStep, LookupStep DEF Call
  <2>3. CASE Step(t)
    <3>1. CASE Count(t)
      BY <3>1, <2>1, CountStepInv
    <3>2. CASE LoadLevel(t)
      BY <3>2, <2>1, LoadLevelStep
    <3>3. CASE CreateLevel(t)
      BY <3>3, <2>1, CreateLevelStep
    <3>4. CASE Publish(t)
      BY <3>4, <2>1, PublishStep
    <3>5. CASE PublishLate(t)
      BY <3>5, <2>1, PublishLateStep
    <3>6. CASE StoreEntry(t)
      BY <3>6, <2>1, StoreEntryStep
    <3>7. CASE Descend(t)
      BY <3>7, <2>1, DescendStep
    <3>8. CASE EraseEntry(t)
      BY <3>8, <2>1, EraseEntryStep
    <3>9. CASE Uncount(t)
      BY <3>9, <2>1, UncountStep
    <3>10. CASE Unlink(t)
      BY <3>10, <2>1, UnlinkStep
    <3>11. CASE DestroyLevel(t)
      BY <3>11, <2>1, DestroyLevelStep
    <3>12. CASE Get(t)
      BY <3>12, <2>1, GetStep
    <3>13. CASE Got(t)
      BY <3>13, <2>1, GotStep
    <3> QED BY <2>3, <3>1, <3>2, <3>3, <3>4, <3>5, <3>6, <3>7, <3>8, <3>9, <3>10, <3>11, <3>12,
               <3>13 DEF Step
  <2> QED BY <2>1, <2>2, <2>3
<1> QED BY <1>1, <1>2, <1>3 DEF Next

\* So it holds in every state before.
LEMMA Invariance == Spec => [](lost = {} => IInv)
<1>1. Init => (lost = {} => IInv)
  BY InitStep
<1>2. (lost = {} => IInv) /\ [Next]_vars => (lost = {} => IInv)'
  BY NextStep
<1> QED BY <1>1, <1>2, PTL DEF Spec

-----------------------------------------------------------------------------
(* What the tree promises                                                  *)

\* The invariant gives what a lookup needs,
LEMMA FindsFacts ==
    ASSUME IInv
    PROVE  FindsIndexed
<1>1. TypeOK /\ LinkInv /\ UsedInv /\ AtInv /\ ReadInv
  BY DEF IInv
<1>2. ASSUME NEW t \in Threads, known[t]
      PROVE  /\ Here(t) \in pool \cup {Root}
             /\ at[t] = [d \in 1..Depth(t) |-> At(page[t])[d]]
             /\ pc[t] = "got" => entry[t] \in Descriptors /\ entry[t] = At(page[t])[LEVEL_CNT + 1]
  <2>1. /\ page[t] \in Pages /\ mem[page[t]] = "in"
        /\ pc[t] = "got" => entry[t] = At(page[t])[LEVEL_CNT + 1]
        /\ \A d \in 1..Depth(t) : at[t][d] = At(page[t])[d]
    BY <1>1, <1>2 DEF ReadInv, ReadOf, AtInv, TypeOK
  <2>2. \A d \in 1..LEVEL_CNT + 1 : At(page[t])[d] # Null
    BY <1>1, <2>1, InFacts
  <2>3. Depth(t) \in 1..LEVEL_CNT
    BY <1>1, LevelTypes
  <2>4. Here(t) \in pool \cup {Root}
    <3>1. Here(t) = At(page[t])[Depth(t)]
      BY <2>1, <2>3 DEF Here
    <3>2. Depth(t) \in 1..LEVEL_CNT + 1
      BY <2>3, LevelCntAssumption
    <3> QED BY <3>1, <3>2, <2>1, <2>2, <2>3, <1>1, AtFacts
  <2>5. at[t] = [d \in 1..Depth(t) |-> At(page[t])[d]]
    <3>1. at[t] \in Seq(Tables \cup {Null})
      BY <1>1 DEF TypeOK
    <3>2. at[t] = [d \in 1..Len(at[t]) |-> at[t][d]]
      BY <3>1
    <3> QED BY <3>2, <2>1 DEF Depth
  <2>6. At(page[t])[LEVEL_CNT + 1] \in Descriptors
    <3>1. LEVEL_CNT + 1 \in 1..LEVEL_CNT + 1
      BY LevelCntAssumption
    <3> QED BY <3>1, <2>1, <2>2, <1>1 DEF LinkInv
  <2> QED BY <2>1, <2>4, <2>5, <2>6
<1> QED BY <1>2 DEF FindsIndexed

\* what a removal needs,
LEMMA RemovesFacts ==
    ASSUME IInv
    PROVE  RemovesIndexed
<1>1. ASSUME NEW t \in Threads, pc[t] = "erase" PROVE Ptr(t) # Null
  <2>1. Working(t) /\ HeldTo(t) = LEVEL_CNT
    BY <1>1 DEF Working, Removing, HeldTo
  <2>2. /\ TypeOK /\ OwnInv /\ LinkInv /\ UsedInv
        /\ page[t] \in Pages /\ Depth(t) = LEVEL_CNT /\ at[t][Depth(t)] = At(page[t])[Depth(t)]
    BY <1>1, <2>1, WorkerFacts DEF IInv, OwnInv
  <2>3. LEVEL_CNT \in 1..LEVEL_CNT /\ LEVEL_CNT <= LEVEL_CNT /\ LEVEL_CNT \in Int
    BY LevelCntAssumption
  <2>4. page[t] \in HeldAt(LEVEL_CNT)
    BY <2>1, <2>2, <2>3, LevelFacts
  <2>5. At(page[t])[LEVEL_CNT + 1] # Null
    BY <2>2, <2>3, <2>4 DEF UsedInv
  <2>6. At(page[t])[LEVEL_CNT + 1] = IF At(page[t])[LEVEL_CNT] = Null THEN Null
                               ELSE m_ptr[At(page[t])[LEVEL_CNT]][page[t][LEVEL_CNT]]
    BY <2>2, <2>3, AtFacts
  <2> QED BY <2>2, <2>5, <2>6 DEF Ptr, Here, Idx
<1> QED BY <1>1 DEF RemovesIndexed

\* Two pages begin with the same indices when they are under the same slot.
LEMMA BelowSub ==
    ASSUME NEW p \in Pages, NEW d \in 1..LEVEL_CNT
    PROVE  Below(p, d) = {q \in Sub(p, d) : mem[q] = "in"}
<1>1. ASSUME NEW q \in Pages PROVE SubSeq(q, 1, d) = [i \in 1..d |-> q[i]]
  <2>1. q \in [1..LEVEL_CNT -> Indices] /\ LEVEL_CNT \in Nat
    BY PagesAssumption, LevelCntAssumption
  <2>2. q \in Seq(Indices) /\ Len(q) = LEVEL_CNT
    BY <2>1
  <2>3. /\ SubSeq(q, 1, d) \in Seq(Indices) /\ Len(SubSeq(q, 1, d)) = d
        /\ \A i \in 1..d : SubSeq(q, 1, d)[i] = q[i]
    BY <2>1, <2>2
  <2>4. SubSeq(q, 1, d) = [i \in 1..Len(SubSeq(q, 1, d)) |-> SubSeq(q, 1, d)[i]]
    BY <2>3
  <2> QED BY <2>3, <2>4
<1>2. ASSUME NEW q \in Pages
      PROVE  SubSeq(q, 1, d) = SubSeq(p, 1, d) <=> \A i \in 1..d : q[i] = p[i]
  <2>1. SubSeq(q, 1, d) = [i \in 1..d |-> q[i]] /\ SubSeq(p, 1, d) = [i \in 1..d |-> p[i]]
    BY <1>1
  <2> QED BY <2>1
<1> QED BY <1>2 DEF Below, Sub

\* and what the counts are, when no thread is at work.
LEMMA CountsFacts ==
    ASSUME IInv
    PROVE  CountsExact
<1>1. SUFFICES ASSUME \A t \in Threads : ~Working(t),
                      NEW p \in Pages, NEW d \in 1..LEVEL_CNT - 1, NEW l, l = At(p)[d], l # Null
               PROVE  /\ l \in pool \cup {Root}
                      /\ m_cnt[l][p[d]] = Cardinality(Below(p, d))
                      /\ (m_ptr[l][p[d]] = Null) <=> (Below(p, d) = {})
  BY DEF CountsExact, Working
<1>2. d \in 1..LEVEL_CNT /\ d \in 0..LEVEL_CNT
  BY LevelCntAssumption
<1>3. LinkInv /\ UsedInv /\ CountInv
  BY DEF IInv
<1>4. /\ Counted(d) = {q \in Pages : mem[q] = "in"} /\ HeldAt(d) = {q \in Pages : mem[q] = "in"}
      /\ Unlinks(d) = {}
  BY <1>1 DEF Counted, HeldAt, Unlinks, Working, Removing
<1>5. Below(p, d) = Sub(p, d) \cap Counted(d) /\ Sub(p, d) \subseteq Pages
  BY <1>2, <1>4, BelowSub DEF Sub
<1>6. l \in pool \cup {Root}
  BY <1>1, <1>2, <1>3, AtFacts
<1>7. m_cnt[l][p[d]] = Cardinality(Below(p, d))
  BY <1>1, <1>3, <1>5 DEF CountInv
<1>8. m_ptr[l][p[d]] = At(p)[d + 1]
  BY <1>1, <1>2, <1>3, AtFacts
<1>9. At(p)[d + 1] # Null => Below(p, d) # {}
  BY <1>2, <1>3, <1>4, <1>5 DEF UsedInv
<1>10. Below(p, d) # {} => At(p)[d + 1] # Null
  <2>1. ASSUME NEW q \in Below(p, d) PROVE At(p)[d + 1] # Null
    <3>1. q \in HeldAt(d) /\ q \in Sub(p, d)
      BY <1>4, <1>5
    <3>2. At(q)[d + 1] # Null
      BY <3>1, <1>2, <1>3 DEF UsedInv
    <3>3. d + 1 \in 1..d + 1
      BY <1>2
    <3>4. At(q)[d + 1] = At(p)[d + 1]
      BY <3>1, <3>3, <1>2, <1>3, AtFacts
    <3> QED BY <3>2, <3>4
  <2> QED BY <2>1
<1> QED BY <1>6, <1>7, <1>8, <1>9, <1>10

\* For every tree, as long as no page is indexed below a table that remove_index
\* is about to destroy: a lookup of a page that is in the index finds its descriptor
\* whatever other threads index and remove meanwhile, a removal finds what it is
\* to remove, and at rest the counts of the tables are the numbers of their pages.
THEOREM TreeIsSound == Spec => []TreeSound
<1>1. (lost = {} => IInv) => TreeSound
  BY FindsFacts, RemovesFacts, CountsFacts DEF TreeSound, IInv
<1> QED BY <1>1, Invariance, PTL

-----------------------------------------------------------------------------
(* The tree is a map from pages to descriptors                             *)

\* A step of PageMap, or none.
MapStep == [PM!Next]_(PM!vars)

\* The descriptors of the pages, before and after a step.
LEMMA EntriesFacts ==
    /\ \A p \in Pages : Entries[p] = At(p)[LEVEL_CNT + 1] /\ Entries'[p] = NextAt(p)[LEVEL_CNT + 1]
    /\ (\A p \in Pages : NextAt(p)[LEVEL_CNT + 1] = At(p)[LEVEL_CNT + 1]) => Entries' = Entries
    /\ DOMAIN Entries = Pages /\ DOMAIN Entries' = Pages
    /\ Entries = [p \in Pages |-> Entries[p]] /\ Entries' = [p \in Pages |-> Entries'[p]]
BY DEF Entries, At, NextAt

\* Most steps leave the map.
LEMMA MapStutters ==
    ASSUME mem' = mem, Entries' = Entries
    PROVE  MapStep
BY DEF MapStep, PM!vars

\* Descriptors stay when paths do,
LEMMA SameEntries ==
    ASSUME SameAt
    PROVE  Entries' = Entries
<1>1. LEVEL_CNT + 1 \in 1..LEVEL_CNT + 1
  BY LevelCntAssumption
<1> QED BY <1>1, EntriesFacts DEF SameAt

\* and when no slot is written.
LEMMA SameTables ==
    ASSUME m_ptr' = m_ptr
    PROVE  Entries' = Entries
BY SameEntries DEF SameAt, At, NextAt

\* A page that the counts of the last table do not count has no descriptor.
LEMMA NoEntry ==
    ASSUME IInv, NEW q \in Pages, q \notin Counted(LEVEL_CNT)
    PROVE  At(q)[LEVEL_CNT + 1] = Null
<1>1. TypeOK /\ OwnInv /\ UsedInv
  BY DEF IInv
<1>2. LEVEL_CNT \in 1..LEVEL_CNT /\ LEVEL_CNT \in 0..LEVEL_CNT
  BY LevelCntAssumption
<1>3. SUFFICES ASSUME At(q)[LEVEL_CNT + 1] # Null PROVE FALSE
  OBVIOUS
<1>4. \/ Sub(q, LEVEL_CNT) \cap Counted(LEVEL_CNT) # {}
      \/ \E u \in Unlinks(LEVEL_CNT) : page[u] \in Sub(q, LEVEL_CNT)
  BY <1>1, <1>2, <1>3 DEF UsedInv
<1>5. Sub(q, LEVEL_CNT) = {q}
  BY SubFacts
<1>6. ASSUME NEW u \in Unlinks(LEVEL_CNT) PROVE FALSE
  <2>1. u \in Threads /\ pc[u] = "unlink" /\ Depth(u) = LEVEL_CNT
    BY DEF Unlinks
  <2>2. Depth(u) < LEVEL_CNT
    BY <2>1, <1>1 DEF OwnInv, Inner
  <2> QED BY <2>1, <2>2, LevelCntAssumption
<1> QED BY <1>4, <1>5, <1>6

\* A removal that goes up, past Root in the end, took its page out before.
LEMMA UpMaps ==
    ASSUME IInv, NEW t \in Threads, pc[t] \in {"uncount", "destroy"}, Up(t), m_ptr' = m_ptr
    PROVE  MapStep
<1>1. Working(t) /\ pc[t] \in Removing /\ pc[t] \in Inner
  BY DEF Working, Removing, Inner
<1>2. /\ TypeOK /\ OwnInv /\ page[t] \in Pages /\ mem[page[t]] = "deindexing"
      /\ Depth(t) \in 1..LEVEL_CNT /\ Depth(t) < LEVEL_CNT
  BY <1>1, WorkerFacts DEF OwnInv
<1>3. Entries' = Entries
  BY SameTables
<1>4. Entries[page[t]] = Null
  <2>1. CountedTo(t) \in {Depth(t), Depth(t) - 1}
    BY DEF CountedTo
  <2>2. ~(LEVEL_CNT <= CountedTo(t)) /\ LEVEL_CNT \in Int
    BY <2>1, <1>2, LevelCntAssumption
  <2>3. page[t] \notin Counted(LEVEL_CNT)
    BY <2>2, <1>1, <1>2, LevelFacts
  <2> QED BY <2>3, <1>2, NoEntry, EntriesFacts
<1>5. CASE Depth(t) = 1
  <2>1. mem' = [mem EXCEPT ![page[t]] = "free"]
    BY <1>5 DEF Up
  <2>2. PM!Return(page[t])
    BY <2>1, <1>2, <1>3, <1>4 DEF PM!Return
  <2> QED BY <2>2, <1>2, <1>3 DEF MapStep, PM!Next
<1>6. CASE Depth(t) # 1
  BY <1>3, <1>6, MapStutters DEF Up
<1> QED BY <1>5, <1>6

\* The page gets its descriptor, and index returns.
LEMMA AddMaps ==
    ASSUME IInv, NEW p \in Pages, Adds(p), mem[p] = "indexing", mem' = [mem EXCEPT ![p] = "in"]
    PROVE  MapStep
<1>1. /\ Entries[p] = Null /\ Entries'[p] \in Descriptors
      /\ \A q \in Pages \ {p} : Entries'[q] = Entries[q]
  BY EntriesFacts DEF Adds
<1>2. Entries' = [Entries EXCEPT ![p] = Entries'[p]]
  BY <1>1, EntriesFacts
<1>3. PM!Enter(p, Entries'[p])
  BY <1>1, <1>2 DEF PM!Enter
<1>4. Entries'[p] # Null
  BY <1>1, LevelsAssumption
<1>5. PM!Return(p)
  BY <1>4 DEF PM!Return
<1> QED BY <1>1, <1>3, <1>5 DEF MapStep, PM!Next, PM!Effect

\* The page loses its descriptor; deindex returns when there is one level only.
LEMMA EraseMaps ==
    ASSUME IInv, Steady, NEW t \in Threads, EraseEntry(t)
    PROVE  MapStep
<1> DEFINE p == page[t]
<1>1. pc[t] = "erase" /\ SetPtr(t, Null) /\ Up(t)
  BY DEF EraseEntry
<1>2. Working(t) /\ pc[t] \in Removing /\ HeldTo(t) = LEVEL_CNT
  BY <1>1 DEF Working, Removing, HeldTo
<1>3. /\ TypeOK /\ OwnInv /\ UsedInv /\ p \in Pages /\ mem[p] = "deindexing" /\ Depth(t) = LEVEL_CNT
  BY <1>1, <1>2, WorkerFacts DEF OwnInv, IInv
<1>4. Cuts(page[t], Depth(t))
  BY <1>1, <1>2, CutFacts
<1>5. LEVEL_CNT \in 1..LEVEL_CNT /\ LEVEL_CNT \in Int /\ LEVEL_CNT + 1 \in 1..LEVEL_CNT + 1
      /\ ~(LEVEL_CNT + 1 <= LEVEL_CNT)
  BY LevelCntAssumption
<1>6. Sub(p, LEVEL_CNT) = {p}
  BY <1>3, SubFacts
<1>7. At(p)[LEVEL_CNT + 1] # Null
  <2>1. LEVEL_CNT <= LEVEL_CNT
    BY <1>5
  <2>2. p \in HeldAt(LEVEL_CNT)
    BY <2>1, <1>2, <1>3, <1>5, LevelFacts
  <2> QED BY <2>2, <1>3, <1>5 DEF UsedInv
<1>8. \A q \in Pages : NextAt(q)[LEVEL_CNT + 1] = IF q # p THEN At(q)[LEVEL_CNT + 1] ELSE Null
  BY <1>3, <1>4, <1>5, <1>6 DEF Cuts
<1> HIDE DEF p
<1>9. Entries[p] # Null /\ Entries'[p] = Null /\ \A q \in Pages \ {p} : Entries'[q] = Entries[q]
  BY <1>3, <1>7, <1>8, EntriesFacts
<1>10. Entries' = [Entries EXCEPT ![p] = Null]
  BY <1>3, <1>9, EntriesFacts
<1>11. PM!Leave(p)
  BY <1>3, <1>9, <1>10 DEF PM!Leave
<1>12. CASE Depth(t) = 1
  <2>1. mem' = [mem EXCEPT ![p] = "free"]
    BY <1>1, <1>12 DEF Up, p
  <2>2. PM!Return(p)
    BY <2>1, <1>3, <1>9 DEF PM!Return
  <2> QED BY <2>2, <1>3, <1>11 DEF MapStep, PM!Next, PM!Effect
<1>13. CASE Depth(t) # 1
  <2>1. mem' = mem
    BY <1>1, <1>13 DEF Up
  <2> QED BY <2>1, <1>3, <1>11 DEF MapStep, PM!Next, PM!Effect
<1> QED BY <1>12, <1>13

\* A table that is unlinked leads to no descriptor.
LEMMA UnlinkMaps ==
    ASSUME IInv, Steady, NEW t \in Threads, NEW q0, NEW d, q0 = page[t], d = Depth(t), Unlink(t)
    PROVE  MapStep
<1>1. pc[t] = "unlink" /\ SetPtr(t, Null) /\ mem' = mem
  BY DEF Unlink
<1>2. Working(t)
  BY <1>1 DEF Working, Removing
<1>3. TypeOK /\ OwnInv /\ q0 \in Pages /\ d \in 1..LEVEL_CNT /\ d < LEVEL_CNT
  BY <1>1, <1>2, WorkerFacts DEF OwnInv, Inner
<1>4. Cuts(q0, d)
  BY <1>1, <1>2, CutFacts
<1>5. ASSUME NEW q \in Pages PROVE NextAt(q)[LEVEL_CNT + 1] = At(q)[LEVEL_CNT + 1]
  <2>1. LEVEL_CNT + 1 \in 1..LEVEL_CNT + 1
    BY LevelCntAssumption
  <2>2. CASE q \in Sub(q0, d)
    <3>1. q \notin HeldAt(d)
      BY <2>2, <1>1, NothingHeld
    <3>2. d \in Int /\ d + 1 \in Int /\ LEVEL_CNT \in Int /\ d + 1 <= LEVEL_CNT
      BY <1>3, LevelCntAssumption
    <3>3. q \notin Counted(LEVEL_CNT)
      BY <3>1, <3>2, <1>3, LevelFacts
    <3>4. At(q)[LEVEL_CNT + 1] = Null
      BY <3>3, NoEntry
    <3> QED BY <3>4, <2>1, <1>4 DEF Cuts
  <2>3. CASE q \notin Sub(q0, d)
    BY <2>1, <2>3, <1>4 DEF Cuts
  <2> QED BY <2>2, <2>3
<1> QED BY <1>1, <1>5, EntriesFacts, MapStutters

\* Every step of the tree is a step of the map or leaves it.
LEMMA StepMaps ==
    ASSUME lost = {} => IInv, [Next]_vars, lost' = {}
    PROVE  MapStep
<1>1. CASE UNCHANGED <<tree, mem>>
  BY <1>1, SameTables, MapStutters DEF tree
<1>2. ASSUME NEW t \in Threads, Work(t) PROVE MapStep
  <2>1. /\ IInv /\ Steady /\ UNCHANGED <<lost, undefined>> /\ TypeOK /\ OwnInv
        /\ Call(t) \/ Step(t)
    BY <1>2, NotLost DEF IInv
  <2>2. ASSUME NEW p \in Pages, NEW d \in Descriptors, Index(t, p, d) PROVE MapStep
    <3>1. mem[p] = "free" /\ mem' = [mem EXCEPT ![p] = "indexing"] /\ m_ptr' = m_ptr
      BY <2>2 DEF Index, tree
    <3>2. PM!Call(p, "free", "indexing")
      BY <3>1, SameTables DEF PM!Call
    <3> QED BY <3>2 DEF MapStep, PM!Next
  <2>3. ASSUME NEW p \in Pages, Deindex(t, p) PROVE MapStep
    <3>1. mem[p] = "in" /\ mem' = [mem EXCEPT ![p] = "deindexing"] /\ m_ptr' = m_ptr
      BY <2>3 DEF Deindex, tree
    <3>2. PM!Call(p, "in", "deindexing")
      BY <3>1, SameTables DEF PM!Call
    <3> QED BY <3>2 DEF MapStep, PM!Next
  <2>4. ASSUME NEW p \in Pages, Lookup(t, p) PROVE MapStep
    BY <2>4, <1>1 DEF Lookup
  <2>5. CASE Step(t)
    <3>1. CASE Count(t)
      BY <3>1, SameTables, MapStutters DEF Count
    <3>2. CASE LoadLevel(t) \/ Descend(t) \/ Get(t) \/ Got(t)
      BY <3>2, <1>1 DEF LoadLevel, Descend, Get, Got
    <3>3. CASE CreateLevel(t)
      <4>1. SameAt
        BY <3>3, <2>1, CreateLevelStep
      <4> QED BY <4>1, <3>3, SameEntries, MapStutters DEF CreateLevel
    <3>4. CASE Publish(t)
      <4>1. pc[t] \in Adding /\ Adds(page[t]) /\ mem' = [mem EXCEPT ![page[t]] = "in"]
        BY <3>4, <2>1, PublishStep DEF Publish, Adding
      <4>2. page[t] \in Pages /\ mem[page[t]] = "indexing"
        BY <4>1, <2>1 DEF TypeOK, OwnInv
      <4> QED BY <2>1, <4>1, <4>2, AddMaps
    <3>5. CASE PublishLate(t)
      BY <3>5, SameTables, MapStutters DEF PublishLate
    <3>6. CASE StoreEntry(t)
      <4>1. pc[t] \in Adding /\ Adds(page[t]) /\ mem' = [mem EXCEPT ![page[t]] = "in"]
        BY <3>6, <2>1, StoreEntryStep DEF StoreEntry, Adding
      <4>2. page[t] \in Pages /\ mem[page[t]] = "indexing"
        BY <4>1, <2>1 DEF TypeOK, OwnInv
      <4> QED BY <2>1, <4>1, <4>2, AddMaps
    <3>7. CASE EraseEntry(t)
      BY <3>7, <2>1, EraseMaps
    <3>8. CASE Uncount(t)
      <4>1. pc[t] = "uncount" /\ m_ptr' = m_ptr /\ (Up(t) \/ mem' = mem)
        BY <3>8 DEF Uncount
      <4>2. CASE Up(t)
        BY <2>1, <4>1, <4>2, UpMaps
      <4>3. CASE mem' = mem
        BY <4>1, <4>3, SameTables, MapStutters
      <4> QED BY <4>1, <4>2, <4>3
    <3>9. CASE Unlink(t)
      BY <3>9, <2>1, UnlinkMaps
    <3>10. CASE DestroyLevel(t)
      BY <2>1, <3>10, UpMaps DEF DestroyLevel
    <3> QED BY <2>5, <3>1, <3>2, <3>3, <3>4, <3>5, <3>6, <3>7, <3>8, <3>9, <3>10 DEF Step
  <2> QED BY <2>1, <2>2, <2>3, <2>4, <2>5 DEF Call
<1>3. ASSUME Stray \/ UNCHANGED vars PROVE MapStep
  BY <1>1, <1>3 DEF Stray, vars
<1> QED BY <1>2, <1>3 DEF Next

\* For every tree, and up to the step that indexes a page below a table that
\* remove_index is about to destroy: it implements PageMap, the map from pages to descriptors where
\* index and deindex of a page are single steps.
THEOREM IndexIsMap == Spec => KeepsIndex
<1>1. Init => PM!Init
  <2>1. SUFFICES ASSUME Init PROVE PM!Init
    OBVIOUS
  <2>2. LEVEL_CNT + 1 \in 2..LEVEL_CNT + 1
    BY LevelCntAssumption
  <2>3. Entries = [p \in Pages |-> Null]
    BY <2>1, <2>2, InitPaths DEF Entries
  <2> QED BY <2>1, <2>3 DEF PM!Init, Init
<1>2. (lost = {} => IInv) /\ [Next]_vars => [lost' = {} => PM!Next]_(PM!vars)
  BY StepMaps DEF MapStep
<1> QED BY <1>1, <1>2, Invariance, PTL DEF Spec, KeepsIndex

=============================================================================
