---------------------------- MODULE PinSetProofs ----------------------------
(***************************************************************************)
(* However many pins a thread takes and drops, over whatever stack, chunks *)
(* and nesting of calls: what it pinned stays live, there is one pin for   *)
(* each guard, and the nodes and the blocks they come from stay apart.     *)
(***************************************************************************)
EXTENDS PinSet, FiniteSetTheorems, SequenceTheorems, WellFoundedInduction, TLAPS

-----------------------------------------------------------------------------
(* Walks                                                                   *)

LEMMA LeastNumber ==
    ASSUME NEW T \in SUBSET Nat, T # {}
    PROVE  \E x \in T : \A y \in T : x <= y
<1> DEFINE R == OpToRel(<, Nat)
<1>1. IsWellFoundedOn(R, Nat)
  BY NatLessThanWellFounded
<1>2. R = {ss \in Nat \X Nat : ss[1] < ss[2]}
  BY DEF OpToRel
<1> HIDE DEF R
<1>3. PICK x \in T : \A y \in T : ~ (<<y, x>> \in R)
  BY <1>1, WFMin
<1>4. ASSUME NEW y \in T PROVE x <= y
  <2>1. x \in Nat /\ y \in Nat /\ <<y, x>> \notin R /\ <<y, x>> \in Nat \X Nat
    BY <1>3
  <2>2. ~(y < x)
    BY <1>2, <2>1
  <2> QED BY <2>1, <2>2
<1> QED BY <1>4

Distinct(s) == \A i, j \in 1..Len(s) : s[i] = s[j] => i = j

\* The elements of a list, as its links have them: from first on along next, to end.
Path(s, first, next, end) ==
    /\ s \in Seq(DOMAIN next \ {end}) /\ Distinct(s)
    /\ first = IF s = <<>> THEN end ELSE s[1]
    /\ \A i \in 1..Len(s) : next[s[i]] = IF i = Len(s) THEN end ELSE s[i+1]

LEMMA DistinctLength ==
    ASSUME NEW S, IsFiniteSet(S), NEW s \in Seq(S), Distinct(s)
    PROVE  /\ Len(s) <= Cardinality(S) /\ Cardinality(S) \in Nat
           /\ IsFiniteSet(ToSet(s)) /\ Cardinality(ToSet(s)) = Len(s)
<1> DEFINE n == Len(s)
<1>1. n \in Nat /\ s \in [1..n -> S]
  OBVIOUS
<1>2. IsFiniteSet(1..n) /\ Cardinality(1..n) = n
  <2>1. n \in Nat /\ n \in Int /\ 1 \in Int
    BY <1>1
  <2>2. IsFiniteSet(1..n) /\ Cardinality(1..n) = IF 1 > n THEN 0 ELSE n - 1 + 1
    BY ONLY <2>1, FS_Interval
  <2> QED BY ONLY <2>1, <2>2
<1>3. s \in Bijection(1..n, ToSet(s))
  <2>1. \A i \in 1..n : s[i] \in ToSet(s)
    BY <1>1 DEF ToSet
  <2>2. s \in [1..n -> ToSet(s)]
    BY <1>1, <2>1
  <2>3. \A x \in ToSet(s) : \E i \in 1..n : s[i] = x
    BY <1>1 DEF ToSet
  <2> QED BY <2>2, <2>3 DEF Bijection, Injection, Surjection, IsInjective, Distinct
<1>4. IsFiniteSet(ToSet(s)) /\ Cardinality(ToSet(s)) = n
  <2>1. ExistsBijection(1..n, ToSet(s))
    BY <1>3 DEF ExistsBijection
  <2> QED BY <1>2, <2>1, FS_Bijection
<1>5. ToSet(s) \subseteq S
  BY <1>1 DEF ToSet
<1> QED BY <1>4, <1>5, FS_Subset, FS_CardinalityType

LEMMA MetAlong ==
    ASSUME NEW next, IsFiniteSet(DOMAIN next), NEW first, NEW end, NEW s, Path(s, first, next, end)
    PROVE  Met(first, next, end)
             = [i \in 0..Cardinality(DOMAIN next) |-> IF i < Len(s) THEN s[i+1] ELSE end]
<1> DEFINE N == Cardinality(DOMAIN next)
           n == Len(s)
           w == [i \in 0..N |-> IF i < n THEN s[i+1] ELSE end]
           Eq(g) == g = [i \in 0..N |-> IF i = 0 THEN first
                                        ELSE IF g[i-1] = end THEN end ELSE next[g[i-1]]]
           at == CHOOSE g : Eq(g)
<1>1. Met(first, next, end) = at
  BY DEF Met
<1>2. N \in Nat /\ n \in Nat /\ s \in Seq(DOMAIN next \ {end})
  BY FS_CardinalityType DEF Path
<1>3. \A i \in 1..n : s[i] # end
  BY <1>2
<1>4. Eq(w)
  <2>1. ASSUME NEW i \in 0..N
        PROVE  w[i] = IF i = 0 THEN first ELSE IF w[i-1] = end THEN end ELSE next[w[i-1]]
    <3>1. CASE i = 0
      BY <1>2, <3>1 DEF Path
    <3>2. CASE i # 0 /\ i - 1 < n
      <4>1. i \in 1..n /\ w[i-1] = s[i] /\ w[i-1] # end
        BY <1>2, <1>3, <3>2
      <4>2. next[s[i]] = IF i = n THEN end ELSE s[i+1]
        BY <4>1 DEF Path
      <4> QED BY <1>2, <3>2, <4>1, <4>2
    <3>3. CASE i # 0 /\ ~(i - 1 < n)
      BY <1>2, <3>3
    <3> QED BY <3>1, <3>2, <3>3
  <2> QED BY <2>1
<1>5. Eq(at)
  <2> HIDE DEF Eq, w
  <2> QED BY <1>4
<1>6. at = w
  <2> DEFINE T == {i \in 0..N : at[i] # w[i]}
  <2>1. at = [i \in 0..N |-> at[i]] /\ \A i \in 0..N :
           at[i] = IF i = 0 THEN first ELSE IF at[i-1] = end THEN end ELSE next[at[i-1]]
    <3> HIDE DEF at
    <3> QED BY <1>5
  <2>2. \A i \in 0..N :
           w[i] = IF i = 0 THEN first ELSE IF w[i-1] = end THEN end ELSE next[w[i-1]]
    <3> HIDE DEF w
    <3> QED BY <1>4
  <2>3. w = [i \in 0..N |-> w[i]]
    OBVIOUS
  <2> HIDE DEF at, w, Eq
  <2>4. CASE T # {}
    <3>1. T \in SUBSET Nat
      OBVIOUS
    <3> HIDE DEF T
    <3>2. PICK i \in T : \A j \in T : i <= j
      BY <2>4, <3>1, LeastNumber
    <3>3. i \in 0..N /\ at[i] # w[i]
      BY <3>2 DEF T
    <3>4. i # 0
      BY <2>1, <2>2, <3>3
    <3>5. i - 1 \in 0..N /\ i - 1 \notin T
      BY <1>2, <3>2, <3>3, <3>4
    <3>6. at[i-1] = w[i-1]
      BY <3>5 DEF T
    <3> QED BY <2>1, <2>2, <3>3, <3>4, <3>6
  <2>5. CASE T = {}
    <3>1. \A i \in 0..N : at[i] = w[i]
      BY <2>5
    <3> QED BY <2>1, <2>3, <3>1
  <2> QED BY <2>4, <2>5
<1> QED BY <1>1, <1>6

LEMMA WalkIsPath ==
    ASSUME NEW next, IsFiniteSet(DOMAIN next), NEW first, NEW end, NEW s, Path(s, first, next, end)
    PROVE  Walk(first, next, end) = s
<1> DEFINE N == Cardinality(DOMAIN next)
           n == Len(s)
           w == [i \in 0..N |-> IF i < n THEN s[i+1] ELSE end]
<1>1. Met(first, next, end) = w
  BY MetAlong
<1>2. s \in Seq(DOMAIN next) /\ s \in Seq(DOMAIN next \ {end}) /\ n \in Nat
  BY DEF Path
<1>3. n <= N /\ N \in Nat
  BY <1>2, DistinctLength DEF Path
<1>4. \A i \in 1..n : s[i] # end
  BY <1>2
<1>5. {j \in 0..N : w[j] # end} = 0..n-1
  BY <1>2, <1>3, <1>4
<1>6. Cardinality(0..n-1) = n
  <2>1. n \in Nat /\ n - 1 \in Int /\ 0 \in Int
    BY <1>2
  <2>2. Cardinality(0..n-1) = IF 0 > n-1 THEN 0 ELSE n - 1 - 0 + 1
    BY ONLY <2>1, FS_Interval
  <2> QED BY ONLY <2>1, <2>2
<1>7. DOMAIN w = 0..N
  OBVIOUS
<1>8. Walk(first, next, end) = [i \in 1..n |-> w[i-1]]
  <2>1. Walk(first, next, end) = [i \in 1..Cardinality({j \in DOMAIN w : w[j] # end}) |-> w[i-1]]
    BY <1>1 DEF Walk
  <2> QED BY <1>5, <1>6, <1>7, <2>1
<1>9. \A i \in 1..n : w[i-1] = s[i]
  BY <1>2, <1>3
<1>10. s = [i \in 1..n |-> s[i]]
  BY <1>2
<1> QED BY <1>8, <1>9, <1>10

-----------------------------------------------------------------------------
(* Lists with an element more or less                                      *)

With(s, p) == [i \in 1..Len(s)+1 |-> IF i = 1 THEN p ELSE s[i-1]]
Without(s, k) == [i \in 1..Len(s)-1 |-> IF i < k THEN s[i] ELSE s[i+1]]

LEMMA Members ==
    ASSUME NEW S, NEW s \in Seq(S), NEW x
    PROVE  x \in ToSet(s) <=> \E i \in 1..Len(s) : x = s[i]
<1>1. DOMAIN s = 1..Len(s)
  OBVIOUS
<1> QED BY <1>1 DEF ToSet

LEMMA Longer ==
    ASSUME NEW S, NEW s \in Seq(S), Distinct(s), NEW p \in S, p \notin ToSet(s)
    PROVE  /\ With(s, p) \in Seq(S) /\ Distinct(With(s, p)) /\ Len(With(s, p)) = Len(s) + 1
           /\ ToSet(With(s, p)) = ToSet(s) \cup {p}
<1> DEFINE g == With(s, p)
<1>1. Len(s) \in Nat
  OBVIOUS
<1>2. /\ g \in Seq(S) /\ Len(g) = Len(s) + 1 /\ g[1] = p
      /\ \A i \in 2..Len(s)+1 : i - 1 \in 1..Len(s) /\ g[i] = s[i-1]
      /\ \A i \in 1..Len(s) : i + 1 \in 1..Len(g) /\ g[i+1] = s[i]
  <2>1. ASSUME NEW i \in 1..Len(s)+1 PROVE (IF i = 1 THEN p ELSE s[i-1]) \in S
    <3>1. CASE i # 1
      <4>1. i - 1 \in 1..Len(s)
        BY <3>1
      <4> QED BY <3>1, <4>1
    <3> QED BY <3>1
  <2>2. g \in [1..Len(s)+1 -> S]
    BY <2>1 DEF With
  <2>3. g \in Seq(S) /\ Len(g) = Len(s) + 1
    BY <1>1, <2>2
  <2> QED BY <1>1, <2>3 DEF With
<1> HIDE DEF g
<1>3. \A i \in 1..Len(s) : s[i] # p
  BY Members
<1>4. Distinct(g)
  <2> SUFFICES ASSUME NEW i \in 1..Len(g), NEW j \in 1..Len(g), g[i] = g[j] PROVE i = j
    BY DEF Distinct
  <2>0. \A a \in 1..Len(g) : a # 1 => g[a] # p
    <3> TAKE a \in 1..Len(g)
    <3>1. a # 1 => a - 1 \in 1..Len(s) /\ g[a] = s[a-1]
      BY <1>1, <1>2
    <3> QED BY ONLY <1>3, <3>1
  <2>1. CASE i = 1 \/ j = 1
    BY <1>1, <1>2, <2>0, <2>1
  <2>2. CASE i # 1 /\ j # 1
    <3>1. /\ i - 1 \in 1..Len(s) /\ g[i] = s[i-1] /\ j - 1 \in 1..Len(s) /\ g[j] = s[j-1]
          /\ i \in Int /\ j \in Int
      BY <1>1, <1>2, <2>2
    <3>2. i - 1 = j - 1
      BY <3>1 DEF Distinct
    <3> QED BY <3>1, <3>2
  <2> QED BY <2>1, <2>2
<1>5. ASSUME NEW x PROVE x \in ToSet(g) <=> x \in ToSet(s) \cup {p}
  <2>1. x \in ToSet(g) <=> \E i \in 1..Len(g) : x = g[i]
    BY <1>2, Members
  <2>2. x \in ToSet(s) <=> \E i \in 1..Len(s) : x = s[i]
    BY Members
  <2>3. ASSUME NEW i \in 1..Len(g), x = g[i] PROVE x \in ToSet(s) \cup {p}
    <3>1. CASE i = 1
      BY <1>2, <2>3, <3>1
    <3>2. CASE i # 1
      <4>1. i - 1 \in 1..Len(s) /\ g[i] = s[i-1]
        BY <1>1, <1>2, <3>2
      <4> QED BY <2>2, <2>3, <4>1
    <3> QED BY <3>1, <3>2
  <2>4. ASSUME NEW i \in 1..Len(s), x = s[i] PROVE x \in ToSet(g)
    BY <1>2, <2>1, <2>4
  <2>5. p \in ToSet(g)
    <3>1. 1 \in 1..Len(g)
      BY <1>1, <1>2
    <3> QED BY <1>2, <3>1, Members
  <2> QED BY ONLY <2>1, <2>2, <2>3, <2>4, <2>5
<1> QED BY <1>2, <1>4, <1>5 DEF g

LEMMA Shorter ==
    ASSUME NEW S, NEW s \in Seq(S), Distinct(s), NEW k \in 1..Len(s)
    PROVE  /\ Without(s, k) \in Seq(S) /\ Distinct(Without(s, k))
           /\ Len(Without(s, k)) = Len(s) - 1
           /\ ToSet(Without(s, k)) = ToSet(s) \ {s[k]}
<1> DEFINE g == Without(s, k)
           at(i) == IF i < k THEN i ELSE i + 1
<1>1. Len(s) \in Nat \ {0} /\ k \in Int
  OBVIOUS
<1>2. \A i \in 1..Len(s)-1 : at(i) \in 1..Len(s) /\ at(i) # k
  BY <1>1
<1>3. /\ g \in Seq(S) /\ Len(g) = Len(s) - 1 /\ \A i \in 1..Len(s)-1 : g[i] = s[at(i)]
  <2>1. \A i \in 1..Len(s)-1 : (IF i < k THEN s[i] ELSE s[i+1]) = s[at(i)]
    OBVIOUS
  <2>2. \A i \in 1..Len(s)-1 : s[at(i)] \in S
    BY <1>2
  <2>3. g \in [1..Len(s)-1 -> S]
    BY <2>1, <2>2 DEF Without
  <2>4. g \in Seq(S) /\ Len(g) = Len(s) - 1
    BY <1>1, <2>3
  <2> QED BY <2>1, <2>4 DEF Without
<1>4. \A i, j \in 1..Len(s)-1 : at(i) = at(j) => i = j
  BY <1>1
<1>5. \A j \in 1..Len(s) : j # k => \E i \in 1..Len(s)-1 : at(i) = j
  <2> TAKE j \in 1..Len(s)
  <2> HAVE j # k
  <2>1. CASE j < k
    <3>1. j \in 1..Len(s)-1 /\ at(j) = j
      BY <1>1, <2>1
    <3> QED BY ONLY <3>1
  <2>2. CASE j > k
    <3>1. j - 1 \in 1..Len(s)-1 /\ at(j-1) = j
      BY <1>1, <2>2
    <3> QED BY ONLY <3>1
  <2> QED BY <1>1, <2>1, <2>2
<1> HIDE DEF g, at
<1>6. Distinct(g)
  BY <1>2, <1>3, <1>4 DEF Distinct
<1>7. ASSUME NEW x PROVE x \in ToSet(g) <=> x \in ToSet(s) \ {s[k]}
  <2>1. x \in ToSet(g) <=> \E i \in 1..Len(g) : x = g[i]
    BY <1>3, Members
  <2>2. x \in ToSet(s) <=> \E i \in 1..Len(s) : x = s[i]
    BY Members
  <2>3. ASSUME NEW i \in 1..Len(g), x = g[i] PROVE x \in ToSet(s) \ {s[k]}
    <3>1. at(i) \in 1..Len(s) /\ at(i) # k /\ x = s[at(i)]
      BY <1>2, <1>3, <2>3
    <3> QED BY <2>2, <3>1 DEF Distinct
  <2>4. ASSUME NEW j \in 1..Len(s), x = s[j], x # s[k] PROVE x \in ToSet(g)
    <3>1. PICK i \in 1..Len(s)-1 : at(i) = j
      BY <1>5, <2>4
    <3> QED BY <1>3, <2>1, <2>4, <3>1
  <2> QED BY ONLY <2>1, <2>2, <2>3, <2>4
<1> QED BY <1>3, <1>6, <1>7 DEF g

LEMMA PathKept ==
    ASSUME NEW s, NEW first, NEW next, NEW end, Path(s, first, next, end),
           NEW next1, DOMAIN next1 = DOMAIN next, \A x \in ToSet(s) : next1[x] = next[x]
    PROVE  Path(s, first, next1, end)
<1>1. \A i \in 1..Len(s) : s[i] \in ToSet(s)
  BY Members DEF Path
<1> QED BY <1>1 DEF Path

LEMMA PathPush ==
    ASSUME NEW s, NEW first, NEW next, NEW end, Path(s, first, next, end),
           NEW p \in DOMAIN next \ {end}, p \notin ToSet(s),
           NEW next1, DOMAIN next1 = DOMAIN next, \A x \in ToSet(s) : next1[x] = next[x],
           next1[p] = first
    PROVE  Path(With(s, p), p, next1, end)
<1> DEFINE g == With(s, p)
<1>1. s \in Seq(DOMAIN next \ {end}) /\ Len(s) \in Nat
  BY DEF Path
<1>2. g \in Seq(DOMAIN next \ {end}) /\ Distinct(g) /\ Len(g) = Len(s) + 1
  BY <1>1, Longer DEF Path
<1>3. \A i \in 1..Len(s)+1 : g[i] = IF i = 1 THEN p ELSE s[i-1]
  BY DEF With
<1> HIDE DEF g
<1>4. g # <<>> /\ g[1] = p
  BY <1>1, <1>2, <1>3
<1>5. ASSUME NEW i \in 1..Len(g) PROVE next1[g[i]] = IF i = Len(g) THEN end ELSE g[i+1]
  <2>1. CASE i = 1
    <3>1. next1[g[i]] = first
      BY <1>4, <2>1
    <3>2. CASE s = <<>>
      BY <1>2, <2>1, <3>1, <3>2 DEF Path
    <3>3. CASE s # <<>>
      <4>1. Len(s) # 0 /\ i + 1 \in 1..Len(s)+1 /\ g[i+1] = s[1]
        BY <1>1, <1>3, <2>1, <3>3, EmptySeq
      <4> QED BY <1>2, <2>1, <3>1, <3>3, <4>1 DEF Path
    <3> QED BY <3>2, <3>3
  <2>2. CASE i # 1
    <3>1. i - 1 \in 1..Len(s) /\ g[i] = s[i-1]
      BY <1>1, <1>2, <1>3, <2>2
    <3>2. next1[g[i]] = next[s[i-1]]
      BY <1>1, <3>1, Members
    <3>3. next[s[i-1]] = IF i - 1 = Len(s) THEN end ELSE s[i-1+1]
      BY <3>1 DEF Path
    <3>4. i # Len(g) => i + 1 \in 1..Len(s)+1 /\ g[i+1] = s[i]
      BY <1>1, <1>2, <1>3, <2>2
    <3>5. i - 1 + 1 = i /\ (i - 1 = Len(s) <=> i = Len(g))
      BY <1>1, <1>2
    <3> QED BY <3>2, <3>3, <3>4, <3>5
  <2> QED BY <2>1, <2>2
<1>6. g \in Seq(DOMAIN next1 \ {end})
  BY <1>2
<1> QED BY <1>2, <1>4, <1>5, <1>6 DEF Path, g

LEMMA PathPop ==
    ASSUME NEW s, NEW first, NEW next, NEW end, Path(s, first, next, end), first # end,
           NEW next1, DOMAIN next1 = DOMAIN next,
           \A x \in ToSet(s) \ {first} : next1[x] = next[x]
    PROVE  /\ 1 \in 1..Len(s) /\ s[1] = first
           /\ Path(Without(s, 1), next[first], next1, end)
<1> DEFINE g == Without(s, 1)
<1>1. s \in Seq(DOMAIN next \ {end}) /\ Len(s) \in Nat \ {0} /\ s[1] = first
  BY EmptySeq DEF Path
<1>2. 1 \in 1..Len(s)
  BY <1>1
<1>3. /\ g \in Seq(DOMAIN next \ {end}) /\ Distinct(g) /\ Len(g) = Len(s) - 1
      /\ ToSet(g) = ToSet(s) \ {s[1]}
  <2>1. Distinct(s)
    BY DEF Path
  <2> QED BY ONLY <1>1, <1>2, <2>1, Shorter
<1>4. \A i \in 1..Len(s)-1 : g[i] = s[i+1]
  BY DEF Without
<1> HIDE DEF g
<1>5. next[first] = IF g = <<>> THEN end ELSE g[1]
  <2>1. next[first] = IF 1 = Len(s) THEN end ELSE s[1+1]
    BY <1>1, <1>2 DEF Path
  <2>2. g = <<>> <=> Len(s) = 1
    BY <1>1, <1>3, EmptySeq
  <2>3. CASE Len(s) = 1
    BY <2>1, <2>2, <2>3
  <2>4. CASE Len(s) # 1
    <3>1. 1 \in 1..Len(s)-1
      <4>1. \A n \in Nat \ {0, 1} : 1 \in 1..n-1
        OBVIOUS
      <4>2. Len(s) \in Nat \ {0, 1}
        BY <1>1, <2>4
      <4> QED BY ONLY <4>1, <4>2
    <3>2. g[1] = s[1+1]
      BY <1>4, <3>1
    <3> QED BY <2>1, <2>2, <2>4, <3>2
  <2> QED BY <2>3, <2>4
<1>6. ASSUME NEW i \in 1..Len(g) PROVE next1[g[i]] = IF i = Len(g) THEN end ELSE g[i+1]
  <2>1. g[i] = s[i+1] /\ i + 1 \in 1..Len(s)
    BY <1>1, <1>3, <1>4
  <2>2. next1[g[i]] = next[g[i]]
    BY <1>1, <1>3, Members
  <2>3. next[s[i+1]] = IF i + 1 = Len(s) THEN end ELSE s[i+1+1]
    BY <2>1 DEF Path
  <2>4. i # Len(g) => i + 1 \in 1..Len(s)-1 /\ g[i+1] = s[i+1+1]
    BY <1>1, <1>3, <1>4
  <2>5. i + 1 = Len(s) <=> i = Len(g)
    BY <1>1, <1>3
  <2> QED BY <2>1, <2>2, <2>3, <2>4, <2>5
<1> QED BY <1>1, <1>2, <1>3, <1>5, <1>6 DEF Path, g

LEMMA PathRemove ==
    ASSUME NEW s, NEW first, NEW next, NEW end, Path(s, first, next, end), NEW k \in 2..Len(s),
           NEW next1, DOMAIN next1 = DOMAIN next, next1[s[k-1]] = next[s[k]],
           \A x \in ToSet(s) \ {s[k-1]} : next1[x] = next[x]
    PROVE  Path(Without(s, k), first, next1, end)
<1> DEFINE g == Without(s, k)
<1>1. s \in Seq(DOMAIN next \ {end}) /\ Len(s) \in Nat \ {0, 1} /\ k \in 1..Len(s)
      /\ k - 1 \in 1..Len(s) /\ s # <<>>
  <2>1. s \in Seq(DOMAIN next \ {end}) /\ Len(s) \in Nat
    BY DEF Path
  <2> QED BY <2>1, EmptySeq
<1>2. g \in Seq(DOMAIN next \ {end}) /\ Distinct(g) /\ Len(g) = Len(s) - 1
      /\ ToSet(g) = ToSet(s) \ {s[k]}
  <2>1. Distinct(s)
    BY DEF Path
  <2> QED BY ONLY <1>1, <2>1, Shorter
<1>3. \A i \in 1..Len(s)-1 : g[i] = IF i < k THEN s[i] ELSE s[i+1]
  BY DEF Without
<1> HIDE DEF g
<1>4. g # <<>> /\ g[1] = s[1]
  BY <1>1, <1>2, <1>3, EmptySeq
<1>5. \A i \in 1..Len(s) : next[s[i]] = IF i = Len(s) THEN end ELSE s[i+1]
  BY DEF Path
<1>6. \A i \in 1..Len(s) : i # k - 1 => next1[s[i]] = next[s[i]]
  <2>1. \A i \in 1..Len(s) : s[i] \in ToSet(s)
    BY <1>1, Members
  <2>2. \A i \in 1..Len(s) : i # k - 1 => s[i] # s[k-1]
    BY <1>1 DEF Path, Distinct
  <2> QED BY <2>1, <2>2
<1>7. ASSUME NEW i \in 1..Len(g) PROVE next1[g[i]] = IF i = Len(g) THEN end ELSE g[i+1]
  <2>1. i # Len(g) => i + 1 \in 1..Len(s)-1
    BY ONLY <1>1, <1>2, i \in 1..Len(g)
  <2>2. CASE i < k - 1
    <3>1. g[i] = s[i] /\ i + 1 \in 1..Len(s)-1 /\ g[i+1] = s[i+1] /\ i \in 1..Len(s) /\ i # Len(s)
          /\ i # Len(g)
      BY <1>1, <1>2, <1>3, <2>2
    <3>2. next1[s[i]] = s[i+1]
      BY <1>5, <1>6, <2>2, <3>1
    <3> QED BY <3>1, <3>2
  <2>3. CASE i = k - 1
    <3>1. g[i] = s[k-1] /\ next1[g[i]] = next[s[k]]
      BY <1>1, <1>2, <1>3, <2>3
    <3>2. next[s[k]] = IF k = Len(s) THEN end ELSE s[k+1]
      BY <1>1, <1>5
    <3>3. (k = Len(s) <=> i = Len(g)) /\ i + 1 = k
      BY <1>1, <1>2, <2>3
    <3>4. i # Len(g) => g[i+1] = s[k+1]
      BY <1>1, <1>3, <2>1, <3>3
    <3> QED BY <3>1, <3>2, <3>3, <3>4
  <2>4. CASE i > k - 1
    <3>1. g[i] = s[i+1] /\ i + 1 \in 1..Len(s) /\ i + 1 # k - 1
      BY <1>1, <1>2, <1>3, <2>4
    <3>2. next1[s[i+1]] = IF i + 1 = Len(s) THEN end ELSE s[i+1+1]
      BY <1>5, <1>6, <3>1
    <3>3. i + 1 = Len(s) <=> i = Len(g)
      BY <1>1, <1>2
    <3>4. i # Len(g) => g[i+1] = s[i+1+1]
      BY <1>1, <1>3, <2>1, <2>4
    <3> QED BY <3>1, <3>2, <3>3, <3>4
  <2> QED BY <1>1, <2>2, <2>3, <2>4
<1> QED BY <1>1, <1>2, <1>4, <1>7 DEF Path, g

-----------------------------------------------------------------------------
(* Counting                                                                *)

\* How many x of S there are with f[x] = o: the nodes with a pin of o, the places of
\* a sequence that hold o, the guards of o.
Count(S, f, o) == Cardinality({x \in S : f[x] = o})

LEMMA CountNat ==
    ASSUME NEW S, IsFiniteSet(S), NEW f, NEW o
    PROVE  /\ Count(S, f, o) \in Nat
           /\ Count(S, f, o) = 0 <=> \A x \in S : f[x] # o
<1> DEFINE T == {x \in S : f[x] = o}
<1>1. IsFiniteSet(T)
  BY FS_Subset
<1>2. Cardinality(T) \in Nat /\ (Cardinality(T) = 0 <=> T = {})
  BY <1>1, FS_CardinalityType, FS_EmptySet
<1> QED BY <1>2 DEF Count

LEMMA CountSame ==
    ASSUME NEW S, NEW f, NEW f1, \A x \in S : f1[x] = f[x], NEW o
    PROVE  Count(S, f1, o) = Count(S, f, o)
<1>1. {x \in S : f1[x] = o} = {x \in S : f[x] = o}
  OBVIOUS
<1> QED BY <1>1 DEF Count

LEMMA CountAdd ==
    ASSUME NEW S, IsFiniteSet(S), NEW y, y \notin S, NEW S1, S1 = S \cup {y}, NEW f, NEW f1,
           \A x \in S : f1[x] = f[x], NEW o
    PROVE  Count(S1, f1, o) = Count(S, f, o) + IF f1[y] = o THEN 1 ELSE 0
<1> DEFINE T == {x \in S : f[x] = o}
           T1 == {x \in S1 : f1[x] = o}
<1>1. IsFiniteSet(T) /\ Cardinality(T) \in Nat
  BY FS_Subset, FS_CardinalityType
<1>2. CASE f1[y] = o
  <2>1. T1 = T \cup {y} /\ y \notin T
    BY <1>2
  <2>2. Cardinality(T1) = Cardinality(T) + 1
    BY <1>1, <2>1, FS_AddElement
  <2> QED BY <1>2, <2>2 DEF Count
<1>3. CASE f1[y] # o
  <2>1. T1 = T
    BY <1>3
  <2>2. Cardinality(T1) = Cardinality(T) + 0
    <3> HIDE DEF T, T1
    <3> QED BY <1>1, <2>1
  <2> QED BY <1>3, <2>2 DEF Count
<1> QED BY <1>2, <1>3

LEMMA CountRemove ==
    ASSUME NEW S, IsFiniteSet(S), NEW y \in S, NEW f, NEW f1,
           \A x \in S \ {y} : f1[x] = f[x], NEW o
    PROVE  Count(S \ {y}, f1, o) = Count(S, f, o) - IF f[y] = o THEN 1 ELSE 0
<1> DEFINE R == S \ {y}
<1>1. IsFiniteSet(R) /\ y \notin R /\ R \cup {y} = S /\ \A x \in R : f[x] = f1[x]
  BY FS_Subset
<1> HIDE DEF R
<1>2. Count(S, f, o) = Count(R, f1, o) + IF f[y] = o THEN 1 ELSE 0
  BY <1>1, CountAdd
<1>3. Count(R, f1, o) \in Nat
  BY <1>1, CountNat
<1>4. Count(R, f1, o) = Count(S, f, o) - IF f[y] = o THEN 1 ELSE 0
  BY <1>2, <1>3
<1> QED BY <1>4 DEF R

LEMMA CountChange ==
    ASSUME NEW S, IsFiniteSet(S), NEW y \in S, NEW f, NEW f1,
           \A x \in S \ {y} : f1[x] = f[x], NEW o
    PROVE  Count(S, f1, o) = Count(S, f, o) - (IF f[y] = o THEN 1 ELSE 0)
                                            + (IF f1[y] = o THEN 1 ELSE 0)
<1> DEFINE R == S \ {y}
<1>1. Count(R, f1, o) = Count(S, f, o) - IF f[y] = o THEN 1 ELSE 0
  BY CountRemove
<1>2. Count(R, f1, o) = Count(S, f1, o) - IF f1[y] = o THEN 1 ELSE 0
  <2>1. \A x \in S \ {y} : f1[x] = f1[x]
    OBVIOUS
  <2> QED BY <2>1, CountRemove
<1>3. Count(S, f, o) \in Nat /\ Count(S, f1, o) \in Nat
  BY CountNat
<1> HIDE DEF R
<1> QED BY <1>1, <1>2, <1>3

LEMMA CountSwap ==
    ASSUME NEW S, IsFiniteSet(S), NEW y \in S, NEW z \in S, NEW f, NEW f2,
           \A x \in S : f2[x] = IF x = z THEN f[y] ELSE IF x = y THEN f[z] ELSE f[x], NEW o
    PROVE  Count(S, f2, o) = Count(S, f, o)
<1> DEFINE f1 == [x \in S |-> IF x = y THEN f[z] ELSE f[x]]
<1>1. CASE y = z
  <2>1. \A x \in S : f2[x] = f[x]
    BY <1>1
  <2> QED BY <2>1, CountSame
<1>2. CASE y # z
  <2>1. f1[y] = f[z] /\ f1[z] = f[z] /\ f2[z] = f[y]
    BY <1>2
  <2>2. \A x \in S \ {y} : f1[x] = f[x]
    OBVIOUS
  <2>3. \A x \in S \ {z} : f2[x] = f1[x]
    BY <1>2
  <2> HIDE DEF f1
  <2>4. Count(S, f1, o) = Count(S, f, o) - (IF f[y] = o THEN 1 ELSE 0)
                                         + (IF f1[y] = o THEN 1 ELSE 0)
    BY <2>2, CountChange
  <2>5. Count(S, f2, o) = Count(S, f1, o) - (IF f1[z] = o THEN 1 ELSE 0)
                                          + (IF f2[z] = o THEN 1 ELSE 0)
    BY <2>3, CountChange
  <2>6. Count(S, f, o) \in Nat
    BY CountNat
  <2>7. Count(S, f2, o) = Count(S, f, o)
    BY <2>1, <2>4, <2>5, <2>6
  <2> QED BY <2>7
<1> QED BY <1>1, <1>2

\* What is embedded in a sequence is not more often in the embedded one.
LEMMA CountEmbedded ==
    ASSUME NEW S, NEW T, IsFiniteSet(T), NEW f, NEW h, NEW e \in [S -> T],
           \A x, y \in S : e[x] = e[y] => x = y,
           \A x \in S : f[x] = h[e[x]], NEW o
    PROVE  Count(S, f, o) <= Count(T, h, o)
<1> DEFINE A == {x \in S : f[x] = o}
           B == {x \in T : h[x] = o}
           g == [x \in A |-> e[x]]
<1>1. g \in [A -> B]
  OBVIOUS
<1>2. g \in Injection(A, B)
  BY <1>1 DEF Injection, IsInjective
<1>3. IsFiniteSet(B)
  BY FS_Subset
<1> HIDE DEF g, A, B
<1>4. Cardinality(A) <= Cardinality(B)
  BY <1>2, <1>3, FS_Injection
<1> QED BY <1>4 DEF Count, A, B

LEMMA CountAppend ==
    ASSUME NEW S, NEW s \in Seq(S), NEW e \in S, NEW o
    PROVE  Count(DOMAIN Append(s, e), Append(s, e), o)
             = Count(DOMAIN s, s, o) + IF e = o THEN 1 ELSE 0
<1> DEFINE f == Append(s, e)
           n == Len(s)
<1>1. n \in Nat /\ DOMAIN s = 1..n /\ DOMAIN f = 1..n+1 /\ f[n+1] = e /\ \A i \in 1..n : f[i] = s[i]
  OBVIOUS
<1> HIDE DEF f, n
<1>2. IsFiniteSet(1..n) /\ n + 1 \notin 1..n /\ 1..n+1 = (1..n) \cup {n+1}
  <2>1. n \in Int /\ 1 \in Int
    BY <1>1
  <2>2. IsFiniteSet(1..n)
    BY ONLY <2>1, FS_Interval
  <2> QED BY <1>1, <2>2
<1>3. Count((1..n) \cup {n+1}, f, o) = Count(1..n, s, o) + IF f[n+1] = o THEN 1 ELSE 0
  BY <1>1, <1>2, CountAdd
<1> QED BY <1>1, <1>2, <1>3 DEF f

LEMMA FrontIs ==
    ASSUME NEW S, NEW s \in Seq(S), s # <<>>
    PROVE  /\ Front(s) \in Seq(S) /\ Len(Front(s)) = Len(s) - 1 /\ Len(s) \in Nat \ {0}
           /\ \A i \in 1..Len(s)-1 : Front(s)[i] = s[i]
           /\ Last(s) = s[Len(s)] /\ Last(s) \in S
<1>1. Len(s) \in Nat \ {0}
  BY EmptySeq
<1>2. Front(s) = SubSeq(s, 1, Len(s)-1)
  BY DEF Front
<1>3. SubSeq(s, 1, Len(s)-1) \in Seq(S) /\ Len(SubSeq(s, 1, Len(s)-1)) = Len(s) - 1
      /\ \A i \in 1..Len(s)-1 : SubSeq(s, 1, Len(s)-1)[i] = s[i]
  <2>1. Len(s)-1 \in 1-1..Len(s) /\ 1 \in 1..Len(s)+1
    BY <1>1
  <2>2. /\ SubSeq(s, 1, Len(s)-1) \in Seq(S)
        /\ Len(SubSeq(s, 1, Len(s)-1)) = IF 1 <= Len(s)-1 THEN (Len(s)-1)-1+1 ELSE 0
        /\ \A i \in 1..(Len(s)-1)-1+1 : SubSeq(s, 1, Len(s)-1)[i] = s[1+i-1]
    BY <2>1, SubSeqProperties
  <2>3. (Len(s)-1)-1+1 = Len(s)-1 /\ \A i \in 1..Len(s)-1 : 1+i-1 = i
    BY <1>1
  <2> QED BY <1>1, <2>2, <2>3
<1> QED BY <1>1, <1>2, <1>3 DEF Last

LEMMA CountFront ==
    ASSUME NEW S, NEW s \in Seq(S), s # <<>>, NEW o
    PROVE  Count(DOMAIN Front(s), Front(s), o)
             = Count(DOMAIN s, s, o) - IF Last(s) = o THEN 1 ELSE 0
<1> DEFINE f == Front(s)
           n == Len(s)
<1>1. /\ n \in Nat \ {0} /\ DOMAIN s = 1..n /\ DOMAIN f = 1..n-1 /\ s[n] = Last(s)
      /\ \A i \in 1..n-1 : f[i] = s[i]
  <2>1. f \in Seq(S) /\ Len(f) = n - 1 /\ n \in Nat \ {0} /\ s[n] = Last(s)
        /\ \A i \in 1..n-1 : f[i] = s[i]
    BY FrontIs
  <2> HIDE DEF f
  <2> QED BY <2>1
<1> HIDE DEF f, n
<1>2. IsFiniteSet(1..n) /\ n \in 1..n /\ 1..n-1 = (1..n) \ {n}
  <2>1. n \in Int /\ 1 \in Int
    BY <1>1
  <2>2. IsFiniteSet(1..n)
    BY ONLY <2>1, FS_Interval
  <2> QED BY <1>1, <2>2
<1>3. Count((1..n) \ {n}, f, o) = Count(1..n, s, o) - IF s[n] = o THEN 1 ELSE 0
  BY <1>1, <1>2, CountRemove
<1> QED BY <1>1, <1>2, <1>3 DEF f

-----------------------------------------------------------------------------
(* The nodes                                                               *)

FirstCells(S) == S \X {0}

LEMMA FirstCellsAre ==
    ASSUME NEW S, NEW b
    PROVE  /\ \A c \in FirstCells(S) : c[1] \in S
           /\ S = {} => FirstCells(S) = {}
           /\ FirstCells(S) \cup {<<b, 0>>} = FirstCells(S \cup {b})
<1>1. \A T : \A c : c \in T \X {0} <=> \E x \in T : c = <<x, 0>>
  OBVIOUS
<1>2. \A c \in S \X {0} : c[1] \in S
  OBVIOUS
<1>3. S = {} => S \X {0} = {}
  BY <1>1
<1>4. (S \X {0}) \cup {<<b, 0>>} = (S \cup {b}) \X {0}
  <2> DEFINE A == S \X {0}
             B == (S \cup {b}) \X {0}
  <2>1. \A c : c \in A <=> \E x \in S : c = <<x, 0>>
    BY <1>1
  <2>2. \A c : c \in B <=> \E x \in S \cup {b} : c = <<x, 0>>
    BY <1>1
  <2> HIDE DEF A, B
  <2>3. A \cup {<<b, 0>>} = B
    BY <2>1, <2>2
  <2> QED BY <2>3 DEF A, B
<1> QED BY <1>2, <1>3, <1>4 DEF FirstCells

PcInv ==
    pc \in {Idle} \cup [at : {"register"}, ptr : Objects, guard : Guards]
             \cup [at : {"push"}, ptr : Objects]
             \cup [at : {"destroy", "free"}, node : Cells]

\* The list of pins, and the value of each.
ListInv ==
    /\ Path(Nodes, m_head, m_next, Null)
    /\ \A p \in ToSet(Nodes) : word[p] \in Objects

\* The free list, and what it shares with the list of pins: nothing.  A chunk
\* gives its first cell when it is made and is not asked again.
FreeInv ==
    /\ DOMAIN word = Cells
    /\ Path(FreeNodes, m_freelist, word, Null)
    /\ pc.at = "free" => word[pc.node] = m_freelist
    /\ ToSet(Nodes) \cap Leaving = {}
    /\ ToSet(FreeNodes) \cap (ToSet(Nodes) \cup Leaving) = {}
    /\ (ToSet(FreeNodes) \cup ToSet(Nodes)) \cup Leaving = FirstCells(DOMAIN chunk)
    /\ DOMAIN chunk \subseteq Blocks /\ \A b \in DOMAIN chunk : chunk[b].m_next = <<b, 1>>
    /\ in_use = Cardinality(ToSet(Nodes) \cup Leaving)

NodesInv == PcInv /\ ListInv /\ FreeInv

LEMMA CellsAre ==
    /\ IsFiniteSet(Cells) /\ Null \notin Cells
    /\ \A b \in Blocks : <<b, 0>> \in Cells
    /\ \A c \in Cells : c[1] \in Blocks /\ c = <<c[1], c[2]>>
<1>1. ALLOC_CNT - 1 \in Int /\ 0 \in Int /\ ALLOC_CNT \in Nat \ {0}
  BY AllocCntAssumption
<1>2. IsFiniteSet(0..ALLOC_CNT-1)
  BY ONLY <1>1, FS_Interval
<1>3. IsFiniteSet(Cells)
  BY <1>2, AddressesAssumption, FS_Product DEF Cells
<1>4. 0 \in 0..ALLOC_CNT-1
  BY <1>1
<1> QED BY <1>3, <1>4, AddressesAssumption DEF Cells

\* The walks of the next state.
LEMMA NodesNext ==
    ASSUME DOMAIN m_next' = Cells, NEW s, Path(s, m_head', m_next', Null)
    PROVE  Nodes' = s
<1> DEFINE next == m_next'
           first == m_head'
<1>1. IsFiniteSet(DOMAIN next) /\ Path(s, first, next, Null)
  BY CellsAre
<1> HIDE DEF next, first
<1>2. Walk(first, next, Null) = s
  BY <1>1, WalkIsPath
<1> QED BY <1>2 DEF Nodes, next, first

LEMMA FreeNodesNext ==
    ASSUME DOMAIN word' = Cells, NEW s, Path(s, m_freelist', word', Null)
    PROVE  FreeNodes' = s
<1> DEFINE next == word'
           first == m_freelist'
<1>1. IsFiniteSet(DOMAIN next) /\ Path(s, first, next, Null)
  BY CellsAre
<1> HIDE DEF next, first
<1>2. Walk(first, next, Null) = s
  BY <1>1, WalkIsPath
<1> QED BY <1>2 DEF FreeNodes, next, first

\* No list but the empty one starts at its end.
LEMMA PathEmpty ==
    ASSUME NEW s, NEW next, NEW end
    PROVE  Path(s, end, next, end) <=> s = <<>>
<1>1. Path(<<>>, end, next, end)
  BY DEF Path, Distinct
<1>2. ASSUME Path(s, end, next, end), s # <<>> PROVE FALSE
  <2>1. s \in Seq(DOMAIN next \ {end}) /\ end = s[1]
    BY <1>2 DEF Path
  <2>2. 1 \in 1..Len(s)
    BY <1>2, <2>1, EmptySeq
  <2> QED BY <2>1, <2>2
<1> QED BY <1>1, <1>2

LEMMA EmptyMembers == ToSet(<<>>) = {}
<1>1. DOMAIN <<>> = {}
  OBVIOUS
<1> QED BY <1>1 DEF ToSet

LEMMA NodesFinite ==
    ASSUME TypeOK, ListInv
    PROVE  /\ Nodes \in Seq(Cells \ {Null}) /\ Distinct(Nodes) /\ DOMAIN Nodes = 1..Len(Nodes)
           /\ IsFiniteSet(ToSet(Nodes)) /\ ToSet(Nodes) \subseteq Cells
           /\ Len(Nodes) \in Nat
<1> DEFINE s == Nodes
<1>1. DOMAIN m_next = Cells
  BY DEF TypeOK
<1>2. Path(s, m_head, m_next, Null)
  BY DEF ListInv
<1> HIDE DEF s
<1>3. s \in Seq(Cells \ {Null}) /\ Distinct(s) /\ s \in Seq(Cells)
  BY <1>1, <1>2 DEF Path
<1>4. IsFiniteSet(ToSet(s))
  BY <1>3, CellsAre, DistinctLength
<1>5. ToSet(s) \subseteq Cells
  BY <1>3 DEF ToSet
<1>6. DOMAIN s = 1..Len(s) /\ Len(s) \in Nat
  BY <1>3
<1> QED BY <1>3, <1>4, <1>5, <1>6 DEF s

LEMMA NodesInit == ASSUME Init PROVE NodesInv /\ TypeOK /\ Nodes = <<>>
<1> USE DEF Init, PoolInit
<1>1. DOMAIN m_next = Cells /\ DOMAIN word = Cells
  OBVIOUS
<1>2. Path(<<>>, m_head, m_next, Null) /\ Path(<<>>, m_freelist, word, Null)
  BY PathEmpty
<1>3. Nodes = <<>> /\ FreeNodes = <<>>
  BY <1>1, <1>2, WalkIsPath, CellsAre DEF Nodes, FreeNodes
<1>4. Leaving = {}
  BY DEF Leaving, Idle
<1>5. ToSet(<<>>) = {}
  BY EmptyMembers
<1>6. TypeOK
  <2>1. m_stack \in Seq(Objects) /\ nested \in Seq(Objects) /\ Len(m_stack) <= CAPACITY
    BY CapacityAssumption
  <2> QED BY <2>1 DEF TypeOK, Idle
<1>7. PcInv
  BY DEF PcInv
<1>8. ListInv
  BY <1>2, <1>3, <1>5 DEF ListInv
<1>9. FreeInv
  <2>1. DOMAIN chunk = {}
    OBVIOUS
  <2>2. Cardinality({}) = 0
    BY FS_EmptySet
  <2>3. FirstCells(DOMAIN chunk) = {}
    BY ONLY <2>1, FirstCellsAre
  <2>4. pc.at # "free"
    BY DEF Idle
  <2>5. /\ ToSet(Nodes) = {} /\ ToSet(FreeNodes) = {}
        /\ Path(FreeNodes, m_freelist, word, Null)
    BY <1>2, <1>3, <1>5
  <2>6. ToSet(Nodes) \cup Leaving = {} /\ (ToSet(FreeNodes) \cup ToSet(Nodes)) \cup Leaving = {}
    BY ONLY <1>4, <2>5
  <2>7. in_use = Cardinality(ToSet(Nodes) \cup Leaving)
    BY <2>2, <2>6
  <2>8. (ToSet(FreeNodes) \cup ToSet(Nodes)) \cup Leaving = FirstCells(DOMAIN chunk)
    BY ONLY <2>3, <2>6
  <2> QED BY ONLY <1>1, <1>4, <2>1, <2>4, <2>5, <2>7, <2>8 DEF FreeInv
<1> QED BY <1>3, <1>6, <1>7, <1>8, <1>9 DEF NodesInv

LEMMA PcIs ==
    ASSUME PcInv
    PROVE  /\ pc = Idle \/ pc.at # "run"
           /\ pc.at = "register" => pc.ptr \in Objects /\ pc.guard \in Guards
           /\ pc.at = "push" => pc.ptr \in Objects
           /\ pc.at \in {"destroy", "free"} => pc.node \in Cells
           /\ pc.at \in {"run", "register", "push", "destroy", "free"}
           /\ pc = Idle => pc.at = "run"
BY DEF PcInv, Idle

\* A new node comes from the free list, or is the first cell of a new chunk.
LEMMA CreateNodes ==
    ASSUME TypeOK, NodesInv, pc.at \in {"register", "push"}, NEW ptr \in Objects,
           PushFront(ptr), pc' = Idle
    PROVE  \E p \in Cells \ ToSet(Nodes) :
              /\ ToSet(Nodes') = ToSet(Nodes) \cup {p}
              /\ word'[p] = ptr /\ \A x \in ToSet(Nodes) : word'[x] = word[x]
              /\ NodesInv' /\ DOMAIN m_next' = Cells /\ m_head' \in Cells
              /\ m_next' \in [Cells -> Cells \cup {Null}]
<1> DEFINE s == Nodes
           free == FreeNodes
<1>1. /\ DOMAIN m_next = Cells /\ DOMAIN word = Cells /\ Leaving = {} /\ Leaving' = {}
      /\ Path(s, m_head, m_next, Null) /\ Path(free, m_freelist, word, Null)
      /\ \A x \in ToSet(s) : word[x] \in Objects
      /\ ToSet(free) \cap ToSet(s) = {} /\ ToSet(free) \cup ToSet(s) = FirstCells(DOMAIN chunk)
      /\ DOMAIN chunk \subseteq Blocks /\ \A b \in DOMAIN chunk : chunk[b].m_next = <<b, 1>>
      /\ in_use = Cardinality(ToSet(s))
  BY DEF TypeOK, NodesInv, ListInv, FreeInv, Leaving, Idle
<1>2. s \in Seq(Cells) /\ Distinct(s) /\ IsFiniteSet(ToSet(s)) /\ ToSet(s) \subseteq Cells
  BY NodesFinite DEF NodesInv
<1>3. m_head \in Cells \cup {Null} /\ m_next \in [Cells -> Cells \cup {Null}]
  BY DEF TypeOK
<1> HIDE DEF s, free
<1>4. PICK p \in Cells : /\ Create(p, ptr) /\ m_next' = [m_next EXCEPT ![p] = m_head]
                         /\ m_head' = p
  BY DEF PushFront
\* What both ways to get the node have in common.
<1>5. \E free1 : /\ p \notin ToSet(s) /\ DOMAIN word' = Cells /\ word'[p] = ptr
                 /\ \A x \in ToSet(s) : word'[x] = word[x]
                 /\ Path(free1, m_freelist', word', Null) /\ in_use' = in_use + 1
                 /\ ToSet(free1) \cap ToSet(s) = {} /\ p \notin ToSet(free1)
                 /\ (ToSet(free1) \cup ToSet(s)) \cup {p} = FirstCells(DOMAIN chunk')
                 /\ DOMAIN chunk' \subseteq Blocks
                 /\ \A b \in DOMAIN chunk' : chunk'[b].m_next = <<b, 1>>
  <2>1. CASE TakeFree(p, ptr)
    <3>1. /\ m_freelist # Null /\ p = m_freelist /\ m_freelist' = word[p]
          /\ word' = [word EXCEPT ![p] = ptr] /\ in_use' = in_use + 1 /\ chunk' = chunk
      BY <2>1 DEF TakeFree
    <3>2. /\ DOMAIN word' = Cells /\ word'[p] = ptr
          /\ \A x \in Cells : x # p => word'[x] = word[x]
      BY <1>1, <3>1
    <3>3. free \in Seq(Cells \ {Null}) /\ Distinct(free) /\ free \in Seq(Cells)
      BY <1>1 DEF Path
    <3>4. \A x \in ToSet(free) : x \in Cells
      BY <3>3, Members
    <3>5. 1 \in 1..Len(free) /\ free[1] = p /\ Path(Without(free, 1), word[p], word', Null)
      <4>1. \A x \in ToSet(free) \ {m_freelist} : word'[x] = word[x]
        BY <3>1, <3>2, <3>4
      <4>2. DOMAIN word' = DOMAIN word
        BY <1>1, <3>2
      <4> DEFINE word1 == word'
      <4> HIDE DEF word1
      <4>3. DOMAIN word1 = DOMAIN word /\ \A x \in ToSet(free) \ {m_freelist} : word1[x] = word[x]
        BY <4>1, <4>2 DEF word1
      <4>4. 1 \in 1..Len(free) /\ free[1] = m_freelist
            /\ Path(Without(free, 1), word[m_freelist], word1, Null)
        BY <1>1, <3>1, <4>3, PathPop
      <4> QED BY <3>1, <4>4 DEF word1
    <3>6. ToSet(Without(free, 1)) = ToSet(free) \ {p} /\ p \in ToSet(free)
      BY <3>3, <3>5, Shorter, Members
    <3>7. /\ p \notin ToSet(s) /\ ToSet(Without(free, 1)) \cap ToSet(s) = {}
          /\ p \notin ToSet(Without(free, 1))
          /\ (ToSet(Without(free, 1)) \cup ToSet(s)) \cup {p} = FirstCells(DOMAIN chunk')
      BY <1>1, <3>1, <3>6
    <3>8. \A x \in ToSet(s) : word'[x] = word[x]
      BY <1>2, <3>2, <3>7
    <3> QED BY <1>1, <3>1, <3>2, <3>5, <3>7, <3>8
  <2>2. CASE \E b \in Blocks : TakeChunk(b, p, ptr)
    <3>1. PICK b \in Blocks : TakeChunk(b, p, ptr)
      BY <2>2
    <3> DEFINE links == Linked(b, NewChunk(b))
               written == [c \in Cells |-> IF c \in {b} \X links THEN <<b, c[2] + 1>> ELSE word[c]]
    <3>2. m_freelist = Null /\ b \notin DOMAIN chunk /\ p = <<b, 0>>
          /\ word' = [written EXCEPT ![p] = ptr] /\ in_use' = in_use + 1 /\ m_freelist' = Null
      BY <3>1 DEF TakeChunk, NewChunk
    <3>3. 0 \in links
      <4>1. ALLOC_CNT \in Nat \ {0}
        BY AllocCntAssumption
      <4>2. links = 0 .. (IF 0 + 1 < ALLOC_CNT THEN 0 + 1 ELSE ALLOC_CNT) - 1
        BY DEF Linked, NewChunk
      <4> QED BY <4>1, <4>2
    <3>4. written[p] = <<b, 1>>
      <4>1. <<b, 0>> \in {b} \X links
        BY <3>3
      <4>2. written[<<b, 0>>] = <<b, <<b, 0>>[2] + 1>>
        BY <3>2, <4>1
      <4>3. <<b, 0>>[2] + 1 = 1
        OBVIOUS
      <4> QED BY <3>2, <4>2, <4>3
    <3>5. /\ DOMAIN chunk' = DOMAIN chunk \cup {b} /\ chunk'[b].m_next = <<b, 1>>
          /\ \A x \in DOMAIN chunk : chunk'[x] = chunk[x]
      <4> DEFINE left == [m_next |-> written[p],
                          m_init |-> NewChunk(b).m_init + Cardinality(links),
                          m_gain |-> IF links = {} THEN NewChunk(b).m_gain
                                                   ELSE 2 * NewChunk(b).m_gain,
                          m_alloc_cnt |-> NewChunk(b).m_alloc_cnt + 1]
      <4>1. chunk' = [x \in DOMAIN chunk \cup {b} |-> IF x = b THEN left ELSE chunk[x]]
        BY <3>1 DEF TakeChunk
      <4>2. left.m_next = written[p]
        OBVIOUS
      <4> HIDE DEF left, written
      <4>3. chunk'[b] = left
        BY <4>1
      <4> QED BY <3>2, <3>4, <4>1, <4>2, <4>3
    <3>6. \A x \in ToSet(s) : x \in Cells /\ x[1] # b
      <4>1. \A x \in ToSet(s) : x \in FirstCells(DOMAIN chunk)
        BY <1>1
      <4>2. \A c \in FirstCells(DOMAIN chunk) : c[1] \in DOMAIN chunk
        BY ONLY FirstCellsAre
      <4>3. b \notin DOMAIN chunk
        BY <3>2
      <4> QED BY ONLY <1>2, <4>1, <4>2, <4>3
    <3>7. /\ DOMAIN word' = Cells /\ word'[p] = ptr
          /\ \A x \in Cells : x[1] # b => word'[x] = word[x]
      BY <3>2
    <3> HIDE DEF written, links
    <3>8. p \notin ToSet(s) /\ \A x \in ToSet(s) : word'[x] = word[x]
      BY <3>2, <3>6, <3>7
    <3>9. free = <<>> /\ ToSet(free) = {} /\ ToSet(<<>>) = {}
      BY <1>1, <3>2, PathEmpty, EmptyMembers
    <3>10. Path(<<>>, m_freelist', word', Null)
      BY <3>2, PathEmpty
    <3>11. (ToSet(<<>>) \cup ToSet(s)) \cup {p} = FirstCells(DOMAIN chunk')
      <4>1. ToSet(s) = FirstCells(DOMAIN chunk)
        BY <1>1, <3>9
      <4>2. FirstCells(DOMAIN chunk) \cup {<<b, 0>>} = FirstCells(DOMAIN chunk \cup {b})
        BY FirstCellsAre
      <4>3. FirstCells(DOMAIN chunk') = FirstCells(DOMAIN chunk) \cup {<<b, 0>>}
        BY ONLY <3>5, <4>2
      <4> QED BY ONLY <3>2, <3>9, <4>1, <4>3
    <3>12. DOMAIN chunk' \subseteq Blocks /\ \A x \in DOMAIN chunk' : chunk'[x].m_next = <<x, 1>>
      BY <1>1, <3>2, <3>5
    <3> QED BY <3>2, <3>7, <3>8, <3>9, <3>10, <3>11, <3>12
  <2> QED BY <1>4, <2>1, <2>2 DEF Create
<1>6. PICK free1 :
         /\ p \notin ToSet(s) /\ DOMAIN word' = Cells /\ word'[p] = ptr
         /\ \A x \in ToSet(s) : word'[x] = word[x]
         /\ Path(free1, m_freelist', word', Null) /\ in_use' = in_use + 1
         /\ ToSet(free1) \cap ToSet(s) = {} /\ p \notin ToSet(free1)
         /\ (ToSet(free1) \cup ToSet(s)) \cup {p} = FirstCells(DOMAIN chunk')
         /\ DOMAIN chunk' \subseteq Blocks
         /\ \A b \in DOMAIN chunk' : chunk'[b].m_next = <<b, 1>>
  BY ONLY <1>5
<1>7. FreeNodes' = free1
  BY <1>6, FreeNodesNext
<1>8. p # Null /\ DOMAIN m_next' = Cells /\ m_next'[p] = m_head
      /\ m_next' \in [Cells -> Cells \cup {Null}]
      /\ \A x \in ToSet(s) : m_next'[x] = m_next[x]
  BY <1>1, <1>2, <1>3, <1>4, <1>6, CellsAre
<1>9. Path(With(s, p), m_head', m_next', Null)
  <2> DEFINE next1 == m_next'
  <2>1. DOMAIN next1 = DOMAIN m_next /\ p \in DOMAIN m_next \ {Null} /\ next1[p] = m_head
        /\ \A x \in ToSet(s) : next1[x] = m_next[x]
    BY <1>1, <1>8
  <2> HIDE DEF next1
  <2>2. Path(With(s, p), p, next1, Null)
    BY <1>1, <1>6, <2>1, PathPush
  <2> QED BY <1>4, <2>2 DEF next1
<1>10. Nodes' = With(s, p)
  BY <1>8, <1>9, NodesNext
<1>11. ToSet(Nodes') = ToSet(s) \cup {p}
  BY <1>2, <1>6, <1>10, Longer
<1>12. Cardinality(ToSet(s) \cup {p}) = Cardinality(ToSet(s)) + 1
  BY <1>2, <1>6, FS_AddElement
<1>13. PcInv'
  BY DEF PcInv
<1>14. ListInv'
  BY <1>1, <1>6, <1>9, <1>10, <1>11 DEF ListInv
<1>15. FreeInv'
  <2>1. in_use' = Cardinality(ToSet(Nodes') \cup Leaving')
    BY <1>1, <1>6, <1>11, <1>12
  <2>2. Path(FreeNodes', m_freelist', word', Null)
    BY <1>6, <1>7
  <2>3. /\ ToSet(FreeNodes') \cap (ToSet(Nodes') \cup Leaving') = {}
        /\ ToSet(Nodes') \cap Leaving' = {}
    BY <1>1, <1>6, <1>7, <1>11
  <2>4. (ToSet(FreeNodes') \cup ToSet(Nodes')) \cup Leaving' = FirstCells(DOMAIN chunk')
    BY <1>1, <1>6, <1>7, <1>11
  <2>5. pc'.at # "free"
    BY DEF Idle
  <2> QED BY ONLY <1>6, <2>1, <2>2, <2>3, <2>4, <2>5 DEF FreeInv
<1> QED BY <1>4, <1>6, <1>8, <1>11, <1>13, <1>14, <1>15 DEF NodesInv, s

\* The free list where the list of pins and the pool are as they were.
LEMMA PoolKept ==
    ASSUME TypeOK, NodesInv, UNCHANGED <<pool, m_head, m_next>>,
           Leaving' = Leaving, pc'.at = "free" => pc.at = "free" /\ pc' = pc
    PROVE  /\ Nodes' = Nodes /\ ListInv' /\ FreeInv'
<1>1. Nodes' = Nodes /\ FreeNodes' = FreeNodes
  BY DEF Nodes, FreeNodes, pool
<1>2. ListInv'
  BY <1>1 DEF NodesInv, ListInv, pool
<1>3. FreeInv'
  BY <1>1 DEF NodesInv, FreeInv, pool
<1> QED BY <1>1, <1>2, <1>3

\* remove_first takes one node with the value out, or there is none.
LEMMA UnlinkNodes ==
    ASSUME TypeOK, NodesInv, pc = Idle, NEW ptr \in Objects, Unlink(ptr), UNCHANGED pool
    PROVE  /\ NodesInv'
           /\ \/ /\ \A p \in ToSet(Nodes) : word[p] # ptr
                 /\ failed' = TRUE /\ Nodes' = Nodes /\ pc' = Idle
              \/ \E p \in ToSet(Nodes) : /\ word[p] = ptr /\ failed' = failed
                                         /\ ToSet(Nodes') = ToSet(Nodes) \ {p}
           /\ pc' = Idle \/ pc' \in [at : {"destroy"}, node : Cells]
           /\ m_head' \in Cells \cup {Null} /\ m_next' \in [Cells -> Cells \cup {Null}]
<1> DEFINE s == Nodes
<1>1. /\ DOMAIN m_next = Cells /\ DOMAIN word = Cells /\ Leaving = {}
      /\ m_head \in Cells \cup {Null} /\ m_next \in [Cells -> Cells \cup {Null}]
      /\ Path(s, m_head, m_next, Null)
      /\ \A x \in ToSet(s) : word[x] \in Objects
      /\ s \in Seq(Cells) /\ Distinct(s) /\ DOMAIN s = 1..Len(s) /\ Len(s) \in Nat
      /\ ToSet(s) \subseteq Cells
  BY NodesFinite DEF TypeOK, NodesInv, ListInv, FreeInv, Leaving, Idle
<1>2. CASE /\ \A p \in ToSet(Nodes) : word[p] # ptr
           /\ failed' = TRUE /\ pc' = Idle /\ UNCHANGED <<m_head, m_next>>
  <2>1. Leaving' = Leaving
    BY <1>2 DEF Leaving, Idle
  <2>2. pc'.at # "free"
    BY <1>2 DEF Idle
  <2>3. Nodes' = Nodes /\ ListInv' /\ FreeInv'
    BY <1>2, <2>1, <2>2, PoolKept
  <2>4. PcInv'
    BY <1>2 DEF PcInv
  <2> QED BY <1>1, <1>2, <2>3, <2>4 DEF NodesInv
<1>3. CASE \E at \in DOMAIN Nodes :
              /\ word[Nodes[at]] = ptr /\ \A i \in 1..at-1 : word[Nodes[i]] # ptr
              /\ IF at = 1
                   THEN m_head' = m_next[m_head] /\ UNCHANGED m_next
                   ELSE /\ m_next' = [m_next EXCEPT ![Nodes[at-1]] = m_next[Nodes[at]]]
                        /\ UNCHANGED m_head
              /\ pc' = [at |-> "destroy", node |-> Nodes[at]]
              /\ UNCHANGED failed
  <2>1. PICK at \in 1..Len(s) :
              /\ word[s[at]] = ptr
              /\ IF at = 1
                   THEN m_head' = m_next[m_head] /\ UNCHANGED m_next
                   ELSE /\ m_next' = [m_next EXCEPT ![s[at-1]] = m_next[s[at]]]
                        /\ UNCHANGED m_head
              /\ pc' = [at |-> "destroy", node |-> s[at]]
              /\ failed' = failed
    BY <1>1, <1>3
  <2> HIDE DEF s
  <2>2. s[at] \in ToSet(s) /\ s[at] \in Cells
    BY <1>1, Members
  <2>3. /\ Path(Without(s, at), m_head', m_next', Null)
        /\ m_head' \in Cells \cup {Null} /\ m_next' \in [Cells -> Cells \cup {Null}]
    <3>1. CASE at = 1
      <4>1. m_head # Null
        BY <1>1, <3>1, PathEmpty
      <4>2. Path(Without(s, 1), m_next[m_head], m_next, Null)
        BY <1>1, <4>1, PathPop
      <4> QED BY <1>1, <2>1, <3>1, <4>1, <4>2
    <3>2. CASE at # 1
      <4>1. at \in 2..Len(s) /\ at - 1 \in 1..Len(s)
        BY <1>1, <3>2
      <4>2. s[at-1] \in Cells /\ m_next[s[at]] \in Cells \cup {Null}
        BY <1>1, <2>2, <4>1
      <4> DEFINE next1 == [m_next EXCEPT ![s[at-1]] = m_next[s[at]]]
      <4>3. /\ DOMAIN next1 = DOMAIN m_next /\ next1[s[at-1]] = m_next[s[at]]
            /\ \A x \in ToSet(s) \ {s[at-1]} : next1[x] = m_next[x]
            /\ next1 \in [Cells -> Cells \cup {Null}]
        BY <1>1, <4>2
      <4>4. m_next' = next1 /\ m_head' = m_head
        BY <2>1, <3>2
      <4> HIDE DEF next1
      <4>5. Path(Without(s, at), m_head, next1, Null)
        BY <1>1, <4>1, <4>3, PathRemove
      <4> QED BY <1>1, <4>3, <4>4, <4>5
    <3> QED BY <3>1, <3>2
  <2>4. DOMAIN m_next' = Cells
    BY <2>3
  <2>5. Nodes' = Without(s, at)
    BY <2>3, <2>4, NodesNext
  <2>6. ToSet(Nodes') = ToSet(s) \ {s[at]}
    BY <1>1, <2>5, Shorter
  <2>7. Leaving' = {s[at]} /\ pc'.at # "free" /\ pc' \in [at : {"destroy"}, node : Cells]
    BY <2>1, <2>2 DEF Leaving
  <2>8. PcInv'
    BY <2>1, <2>2 DEF PcInv
  <2>9. ListInv'
    BY <1>1, <2>3, <2>5, <2>6 DEF ListInv, pool
  <2>10. FreeInv'
    <3>1. FreeNodes' = FreeNodes /\ UNCHANGED <<word, m_freelist, chunk, in_use>>
      BY DEF FreeNodes, pool
    <3>2. ToSet(Nodes') \cup Leaving' = ToSet(s) /\ ToSet(Nodes') \cap Leaving' = {}
      BY <2>2, <2>6, <2>7
    <3>3. /\ Path(FreeNodes, m_freelist, word, Null)
          /\ ToSet(FreeNodes) \cap ToSet(s) = {}
          /\ ToSet(FreeNodes) \cup ToSet(s) = FirstCells(DOMAIN chunk)
          /\ DOMAIN chunk \subseteq Blocks /\ \A b \in DOMAIN chunk : chunk[b].m_next = <<b, 1>>
          /\ in_use = Cardinality(ToSet(s))
      BY <1>1 DEF NodesInv, FreeInv, s
    <3>4. (ToSet(FreeNodes) \cup ToSet(Nodes')) \cup Leaving' = FirstCells(DOMAIN chunk)
      BY <3>2, <3>3
    <3> QED BY <1>1, <2>7, <3>1, <3>2, <3>3, <3>4 DEF FreeInv
  <2> QED BY <2>1, <2>2, <2>3, <2>6, <2>7, <2>8, <2>9, <2>10 DEF NodesInv, s
<1> QED BY <1>2, <1>3 DEF Unlink

LEMMA LinkNodes ==
    ASSUME TypeOK, NodesInv, pc.at = "destroy", LinkFree(pc.node),
           pc' = [pc EXCEPT !.at = "free"], UNCHANGED set
    PROVE  NodesInv' /\ Nodes' = Nodes /\ \A p \in ToSet(Nodes) : word'[p] = word[p]
<1> DEFINE s == Nodes
           free == FreeNodes
           n == pc.node
<1>1. /\ DOMAIN m_next = Cells /\ DOMAIN word = Cells /\ Leaving = {n}
      /\ Path(s, m_head, m_next, Null) /\ Path(free, m_freelist, word, Null)
      /\ \A x \in ToSet(s) : word[x] \in Objects
      /\ ToSet(s) \cap {n} = {} /\ ToSet(free) \cap (ToSet(s) \cup {n}) = {}
      /\ n \in Cells
  BY PcIs DEF TypeOK, NodesInv, ListInv, FreeInv, Leaving
<1>2. pc' = [at |-> "free", node |-> n]
  BY DEF NodesInv, PcInv, Idle
<1>3. /\ Leaving' = {n} /\ pc'.at = "free" /\ pc'.node = n
  BY <1>2 DEF Leaving
<1>4. /\ word' = [word EXCEPT ![n] = m_freelist] /\ UNCHANGED <<m_alloc, chunk, m_freelist, in_use>>
      /\ UNCHANGED <<m_head, m_next>>
  BY DEF LinkFree, set
<1>5. s \in Seq(Cells) /\ Distinct(s) /\ IsFiniteSet(ToSet(s)) /\ ToSet(s) \subseteq Cells
  BY NodesFinite DEF NodesInv
<1>6. ToSet(free) \subseteq Cells
  <2>1. free \in Seq(Cells \ {Null})
    BY <1>1 DEF Path
  <2> HIDE DEF free
  <2> QED BY <2>1, Members
<1>7. Nodes' = Nodes
  BY <1>4 DEF Nodes
<1> HIDE DEF s, free, n
<1>8. DOMAIN word' = Cells /\ word'[n] = m_freelist /\ \A x \in Cells : x # n => word'[x] = word[x]
  BY <1>1, <1>4
<1>9. \A x \in ToSet(s) : word'[x] = word[x]
  BY <1>1, <1>5, <1>8
<1>10. Path(free, m_freelist, word', Null)
  <2> DEFINE next1 == word'
  <2>1. DOMAIN next1 = DOMAIN word /\ \A x \in ToSet(free) : next1[x] = word[x]
    BY <1>1, <1>6, <1>8
  <2> HIDE DEF next1
  <2>2. Path(free, m_freelist, next1, Null)
    BY <1>1, <2>1, PathKept
  <2> QED BY <2>2 DEF next1
<1>11. FreeNodes' = free
  <2>1. Path(free, m_freelist', word', Null)
    BY <1>4, <1>10
  <2> QED BY <1>8, <2>1, FreeNodesNext
<1>12. PcInv'
  <2>1. n \in Cells
    BY <1>1
  <2>2. pc' \in [at : {"destroy", "free"}, node : Cells]
    BY ONLY <1>2, <2>1
  <2> QED BY <2>2 DEF PcInv
<1>13. ListInv'
  BY <1>1, <1>4, <1>7, <1>9 DEF ListInv, s
<1>14. FreeInv'
  <2>1. /\ (ToSet(free) \cup ToSet(s)) \cup Leaving' = FirstCells(DOMAIN chunk)
        /\ DOMAIN chunk \subseteq Blocks /\ \A b \in DOMAIN chunk : chunk[b].m_next = <<b, 1>>
        /\ in_use = Cardinality(ToSet(s) \cup Leaving')
    BY <1>1, <1>3 DEF NodesInv, FreeInv, s, free
  <2>2. ToSet(s) \cap Leaving' = {} /\ ToSet(free) \cap (ToSet(s) \cup Leaving') = {}
    BY <1>1, <1>3
  <2>3. Nodes' = s
    BY <1>7 DEF s
  <2>4. word'[pc'.node] = m_freelist'
    BY <1>3, <1>4, <1>8
  <2> QED BY <1>4, <1>8, <1>10, <1>11, <2>1, <2>2, <2>3, <2>4 DEF FreeInv
<1> QED BY <1>7, <1>9, <1>12, <1>13, <1>14 DEF NodesInv, s

LEMMA PushNodes ==
    ASSUME TypeOK, NodesInv, pc.at = "free", PushFree(pc.node), pc' = Idle, UNCHANGED set
    PROVE  NodesInv' /\ Nodes' = Nodes /\ word' = word
<1> DEFINE s == Nodes
           free == FreeNodes
           n == pc.node
<1>1. /\ DOMAIN m_next = Cells /\ DOMAIN word = Cells /\ Leaving = {n} /\ Leaving' = {}
      /\ Path(s, m_head, m_next, Null) /\ Path(free, m_freelist, word, Null)
      /\ \A x \in ToSet(s) : word[x] \in Objects
      /\ ToSet(s) \cap {n} = {} /\ ToSet(free) \cap (ToSet(s) \cup {n}) = {}
      /\ n \in Cells /\ word[n] = m_freelist
      /\ (ToSet(free) \cup ToSet(s)) \cup {n} = FirstCells(DOMAIN chunk)
      /\ DOMAIN chunk \subseteq Blocks /\ \A b \in DOMAIN chunk : chunk[b].m_next = <<b, 1>>
      /\ in_use = Cardinality(ToSet(s) \cup {n})
  BY PcIs DEF TypeOK, NodesInv, ListInv, FreeInv, Leaving, Idle
<1>2. /\ m_freelist' = n /\ in_use' = in_use - 1 /\ UNCHANGED <<m_alloc, chunk, word>>
      /\ UNCHANGED <<m_head, m_next>>
  BY DEF PushFree, set
<1>3. IsFiniteSet(ToSet(s))
  BY NodesFinite DEF NodesInv
<1>4. Nodes' = Nodes
  BY <1>2 DEF Nodes
<1> HIDE DEF s, free, n
<1>5. free \in Seq(Cells) /\ Distinct(free)
  BY <1>1 DEF Path
<1>6. n \in DOMAIN word \ {Null} /\ n \notin ToSet(free) /\ n \notin ToSet(s)
  BY <1>1, CellsAre
<1>7. Path(With(free, n), n, word, Null)
  BY <1>1, <1>6, PathPush
<1>8. FreeNodes' = With(free, n)
  <2>1. Path(With(free, n), m_freelist', word', Null) /\ DOMAIN word' = Cells
    BY <1>1, <1>2, <1>7
  <2> QED BY <2>1, FreeNodesNext
<1>9. ToSet(With(free, n)) = ToSet(free) \cup {n}
  BY <1>1, <1>5, <1>6, Longer
<1>10. in_use' = Cardinality(ToSet(s))
  <2>1. Cardinality(ToSet(s) \cup {n}) = Cardinality(ToSet(s)) + 1 /\ Cardinality(ToSet(s)) \in Nat
    BY <1>3, <1>6, FS_AddElement, FS_CardinalityType
  <2> QED BY <1>1, <1>2, <2>1
<1>11. PcInv'
  BY DEF PcInv
<1>12. ListInv'
  BY <1>1, <1>2, <1>4 DEF ListInv, s
<1>13. FreeInv'
  <2>1. Nodes' = s /\ pc'.at # "free" /\ ToSet(s) \cup {} = ToSet(s)
    BY <1>4 DEF s, Idle
  <2>2. /\ ToSet(FreeNodes') \cap (ToSet(s) \cup Leaving') = {} /\ ToSet(s) \cap Leaving' = {}
        /\ (ToSet(FreeNodes') \cup ToSet(s)) \cup Leaving' = FirstCells(DOMAIN chunk)
        /\ in_use' = Cardinality(ToSet(s) \cup Leaving')
    BY <1>1, <1>6, <1>8, <1>9, <1>10, <2>1
  <2>3. Path(FreeNodes', m_freelist', word', Null)
    BY <1>2, <1>7, <1>8
  <2> QED BY <1>1, <1>2, <2>1, <2>2, <2>3 DEF FreeInv
<1> QED BY <1>2, <1>4, <1>11, <1>12, <1>13 DEF NodesInv, s

LEMMA EndNodes ==
    ASSUME EndThread
    PROVE  /\ NodesInv' /\ Nodes' = <<>>
           /\ m_head' \in Cells \cup {Null} /\ m_next' \in [Cells -> Cells \cup {Null}]
<1>1. /\ chunk' = <<>> /\ m_freelist' = Null /\ word' = [c \in Cells |-> Null] /\ in_use' = 0
      /\ m_head' = Null /\ m_next' = [c \in Cells |-> Null] /\ pc' = Idle
  BY DEF EndThread, DestroyPool
<1>2. Path(<<>>, m_head', m_next', Null) /\ Path(<<>>, m_freelist', word', Null)
      /\ DOMAIN m_next' = Cells /\ DOMAIN word' = Cells
  BY <1>1, PathEmpty
<1>3. Nodes' = <<>> /\ FreeNodes' = <<>>
  BY <1>2, NodesNext, FreeNodesNext
<1>4. Leaving' = {} /\ ToSet(<<>>) = {} /\ pc'.at # "free"
  BY <1>1, EmptyMembers DEF Leaving, Idle
<1>5. PcInv'
  BY <1>1 DEF PcInv
<1>6. ListInv'
  BY <1>2, <1>3, <1>4 DEF ListInv
<1>7. FreeInv'
  <2>1. DOMAIN chunk' = {}
    BY <1>1
  <2>2. FirstCells(DOMAIN chunk') = {}
    BY ONLY <2>1, FirstCellsAre
  <2>3. Cardinality({}) = 0 /\ {} \cup {} = {}
    BY FS_EmptySet
  <2>4. /\ ToSet(Nodes') \cup Leaving' = {}
        /\ (ToSet(FreeNodes') \cup ToSet(Nodes')) \cup Leaving' = {}
    BY ONLY <1>3, <1>4
  <2>5. in_use' = Cardinality(ToSet(Nodes') \cup Leaving')
    BY <1>1, <2>3, <2>4
  <2>6. (ToSet(FreeNodes') \cup ToSet(Nodes')) \cup Leaving' = FirstCells(DOMAIN chunk')
    BY ONLY <2>2, <2>4
  <2>7. /\ ToSet(Nodes') \cap Leaving' = {}
        /\ ToSet(FreeNodes') \cap (ToSet(Nodes') \cup Leaving') = {}
    BY <1>3, <1>4
  <2>8. Path(FreeNodes', m_freelist', word', Null)
    BY <1>2, <1>3
  <2> QED BY ONLY <1>2, <1>4, <2>1, <2>5, <2>6, <2>7, <2>8 DEF FreeInv
<1> QED BY <1>1, <1>3, <1>5, <1>6, <1>7 DEF NodesInv

-----------------------------------------------------------------------------
(* The stack                                                               *)

\* s is in n in its order.
Embedded(s, n) ==
    \E f \in [1..Len(s) -> 1..Len(n)] :
        /\ \A i, j \in 1..Len(s) : i < j => f[i] < f[j]
        /\ \A i \in 1..Len(s) : s[i] = n[f[i]]

\* s has the first cap elements of n, and none that comes after them.
FirstOf(s, n, cap) ==
    /\ Len(s) = IF Len(n) < cap THEN Len(n) ELSE cap
    /\ \A i \in 1..Len(s) : s[i] = n[i]
    /\ \A i \in cap+1..Len(n) : n[i] \notin ToSet(s)

LEMMA EmbeddedCount ==
    ASSUME NEW S, NEW s \in Seq(S), NEW n \in Seq(S), Embedded(s, n), NEW o
    PROVE  Count(DOMAIN s, s, o) <= Count(DOMAIN n, n, o)
<1>1. DOMAIN s = 1..Len(s) /\ DOMAIN n = 1..Len(n) /\ Len(s) \in Nat /\ Len(n) \in Nat
  OBVIOUS
<1>2. IsFiniteSet(1..Len(n))
  <2>1. Len(n) \in Int /\ 1 \in Int
    BY <1>1
  <2> QED BY ONLY <2>1, FS_Interval
<1>3. PICK f \in [1..Len(s) -> 1..Len(n)] :
         /\ \A i, j \in 1..Len(s) : i < j => f[i] < f[j]
         /\ \A i \in 1..Len(s) : s[i] = n[f[i]]
  BY DEF Embedded
<1>4. \A i, j \in 1..Len(s) : f[i] = f[j] => i = j
  <2> SUFFICES ASSUME NEW i \in 1..Len(s), NEW j \in 1..Len(s), f[i] = f[j], i # j PROVE FALSE
    OBVIOUS
  <2>1. f[i] \in Int /\ f[j] \in Int /\ i \in Int /\ j \in Int
    BY <1>1, <1>3
  <2>2. i < j \/ j < i
    BY <2>1
  <2> QED BY <1>3, <2>1, <2>2
<1>5. Count(1..Len(s), s, o) <= Count(1..Len(n), n, o)
  BY <1>2, <1>3, <1>4, CountEmbedded
<1> QED BY <1>1, <1>5

LEMMA EmbeddedInEmpty ==
    ASSUME NEW S, NEW s \in Seq(S), Embedded(s, <<>>)
    PROVE  s = <<>>
<1>1. PICK f : f \in [1..Len(s) -> 1..0]
  BY DEF Embedded
<1>2. 1 \notin 1..Len(s)
  BY <1>1
<1> QED BY <1>2, EmptySeq

LEMMA FirstOfEmpty ==
    ASSUME NEW cap \in Nat \ {0}
    PROVE  FirstOf(<<>>, <<>>, cap) /\ Embedded(<<>>, <<>>)
<1>1. FirstOf(<<>>, <<>>, cap)
  BY DEF FirstOf
<1>2. <<>> \in [1..0 -> 1..0] /\ Len(<<>>) = 0
  OBVIOUS
<1>3. Embedded(<<>>, <<>>)
  <2>1. \A i \in 1..0 : FALSE
    OBVIOUS
  <2> QED BY <1>2, <2>1 DEF Embedded
<1> QED BY <1>1, <1>3

LEMMA Appended ==
    ASSUME NEW S, NEW s \in Seq(S), NEW e \in S
    PROVE  /\ Append(s, e) \in Seq(S) /\ Len(Append(s, e)) = Len(s) + 1 /\ Len(s) \in Nat
           /\ \A i \in 1..Len(s) : Append(s, e)[i] = s[i]
           /\ Append(s, e)[Len(s)+1] = e
           /\ ToSet(Append(s, e)) = ToSet(s) \cup {e}
<1> DEFINE a == Append(s, e)
           n == Len(s)
<1>1. a \in Seq(S) /\ Len(a) = n + 1 /\ n \in Nat /\ (\A i \in 1..n : a[i] = s[i]) /\ a[n+1] = e
  OBVIOUS
<1> HIDE DEF a, n
<1>2. \A i \in 1..n+1 : i = n + 1 \/ i \in 1..n
  BY <1>1
<1>3. n + 1 \in 1..n+1 /\ \A i \in 1..n : i \in 1..n+1
  BY <1>1
<1>4. \A x : x \in ToSet(a) <=> \E i \in 1..n+1 : x = a[i]
  BY <1>1, Members
<1>5. \A x : x \in ToSet(s) <=> \E i \in 1..n : x = s[i]
  BY Members DEF n
<1>6. ToSet(a) = ToSet(s) \cup {e}
  BY ONLY <1>1, <1>2, <1>3, <1>4, <1>5
<1> QED BY <1>1, <1>6 DEF a, n

LEMMA EmbeddedPush ==
    ASSUME NEW S, NEW s \in Seq(S), NEW n \in Seq(S), NEW e \in S, Embedded(s, n)
    PROVE  Embedded(s, Append(n, e)) /\ Embedded(Append(s, e), Append(n, e))
<1> DEFINE a == Append(s, e)
           b == Append(n, e)
           k == Len(s)
           m == Len(n)
<1>1. PICK f \in [1..k -> 1..m] :
         /\ \A i, j \in 1..k : i < j => f[i] < f[j]
         /\ \A i \in 1..k : s[i] = n[f[i]]
  BY DEF Embedded
<1>2. /\ Len(a) = k + 1 /\ (\A i \in 1..k : a[i] = s[i]) /\ a[k+1] = e /\ k \in Nat
      /\ Len(b) = m + 1 /\ (\A i \in 1..m : b[i] = n[i]) /\ b[m+1] = e /\ m \in Nat
  BY Appended
<1> HIDE DEF a, b, k, m
<1>3. Embedded(s, b)
  <2>1. \A i \in 1..k : f[i] \in 1..m /\ f[i] \in 1..m+1
    BY <1>1, <1>2
  <2>2. f \in [1..k -> 1..m+1] /\ \A i \in 1..k : s[i] = b[f[i]]
    BY <1>1, <1>2, <2>1
  <2> QED BY <1>1, <1>2, <2>2 DEF Embedded, k
<1>4. Embedded(a, b)
  <2> DEFINE g == [i \in 1..k+1 |-> IF i = k + 1 THEN m + 1 ELSE f[i]]
  <2>1. /\ \A i \in 1..k : g[i] = f[i] /\ f[i] \in 1..m
        /\ g[k+1] = m + 1
        /\ \A i \in 1..k+1 : i \in 1..k \/ i = k + 1
    BY <1>1, <1>2
  <2>2. g \in [1..k+1 -> 1..m+1]
    BY <1>1, <1>2
  <2> HIDE DEF g
  <2>3. \A i, j \in 1..k+1 : i < j => g[i] < g[j]
    <3> SUFFICES ASSUME NEW i \in 1..k+1, NEW j \in 1..k+1, i < j PROVE g[i] < g[j]
      OBVIOUS
    <3>1. i \in 1..k
      BY <1>2
    <3>2. CASE j = k + 1
      BY <1>2, <2>1, <3>1, <3>2
    <3>3. CASE j \in 1..k
      BY <1>1, <2>1, <3>1, <3>3
    <3> QED BY <2>1, <3>2, <3>3
  <2>4. \A i \in 1..k+1 : a[i] = b[g[i]]
    <3> TAKE i \in 1..k+1
    <3>1. CASE i = k + 1
      BY <1>2, <2>1, <3>1
    <3>2. CASE i \in 1..k
      <4>1. a[i] = s[i] /\ s[i] = n[f[i]] /\ g[i] = f[i] /\ f[i] \in 1..m
        BY <1>1, <1>2, <2>1, <3>2
      <4> QED BY <1>2, <4>1
    <3> QED BY <2>1, <3>1, <3>2
  <2> QED BY <1>2, <2>2, <2>3, <2>4 DEF Embedded
<1> QED BY <1>3, <1>4 DEF a, b

LEMMA EmbeddedPop ==
    ASSUME NEW S, NEW s \in Seq(S), NEW n \in Seq(S), n # <<>>, Embedded(s, n)
    PROVE  /\ s = <<>> \/ Last(s) # Last(n) => Embedded(s, Front(n))
           /\ s # <<>> => Embedded(Front(s), Front(n))
<1> DEFINE k == Len(s)
           m == Len(n)
           b == Front(n)
<1>1. PICK f \in [1..k -> 1..m] :
         /\ \A i, j \in 1..k : i < j => f[i] < f[j]
         /\ \A i \in 1..k : s[i] = n[f[i]]
  BY DEF Embedded
<1>2. Len(b) = m - 1 /\ m \in Nat \ {0} /\ (\A i \in 1..m-1 : b[i] = n[i]) /\ Last(n) = n[m]
      /\ k \in Nat
  <2>1. k \in Nat
    OBVIOUS
  <2>2. Len(b) = m - 1 /\ m \in Nat \ {0} /\ (\A i \in 1..m-1 : b[i] = n[i]) /\ Last(n) = n[m]
    BY FrontIs
  <2> QED BY <2>1, <2>2
<1>3. s # <<>> => /\ Len(Front(s)) = k - 1 /\ k \in Nat \ {0} /\ Last(s) = s[k]
                  /\ \A i \in 1..k-1 : Front(s)[i] = s[i]
  BY FrontIs
<1> DEFINE a == Front(s)
<1>4. s = <<>> => k = 0
  OBVIOUS
<1> HIDE DEF k, m, b, a
<1>5. ASSUME s # <<>> PROVE Embedded(a, b)
  <2>1. \A i \in 1..k-1 : i \in 1..k /\ f[i] \in 1..m-1
    <3> TAKE i \in 1..k-1
    <3>1. i \in 1..k /\ k \in 1..k /\ i < k
      BY <1>3, <1>5
    <3>2. f[i] < f[k] /\ f[i] \in 1..m /\ f[k] \in 1..m
      BY <1>1, <3>1
    <3> QED BY <1>2, <3>1, <3>2
  <2> DEFINE g == [i \in 1..k-1 |-> f[i]]
  <2>2. g \in [1..k-1 -> 1..m-1] /\ \A i \in 1..k-1 : g[i] = f[i]
    BY <2>1
  <2> HIDE DEF g
  <2>3. \A i, j \in 1..k-1 : i < j => g[i] < g[j]
    BY <1>1, <2>1, <2>2
  <2>4. \A i \in 1..k-1 : a[i] = b[g[i]]
    <3>1. \A i \in 1..k-1 : a[i] = s[i]
      BY <1>3, <1>5 DEF a
    <3> TAKE i \in 1..k-1
    <3>2. a[i] = s[i] /\ s[i] = n[f[i]] /\ g[i] = f[i] /\ f[i] \in 1..m-1
      BY <1>1, <2>1, <2>2, <3>1
    <3> QED BY <1>2, <3>2
  <2>5. Len(a) = k - 1
    BY <1>3, <1>5 DEF a
  <2> QED BY <1>2, <2>2, <2>3, <2>4, <2>5 DEF Embedded
<1>6. ASSUME s = <<>> \/ Last(s) # Last(n) PROVE Embedded(s, b)
  <2>1. \A i \in 1..k : f[i] \in 1..m-1
    <3> TAKE i \in 1..k
    <3>1. s # <<>>
      BY <1>4
    <3>2. k \in 1..k /\ f[k] \in 1..m /\ f[i] \in 1..m /\ s[k] = n[f[k]]
      <4>1. k \in 1..k
        BY <1>3, <3>1
      <4> QED BY ONLY <1>1, <4>1, f \in [1..k -> 1..m], i \in 1..k
    <3>3. f[k] # m
      BY <1>2, <1>3, <1>6, <3>1, <3>2
    <3>4. i = k \/ f[i] < f[k]
      BY <1>1, <1>2, <3>2
    <3> QED BY <1>2, <3>2, <3>3, <3>4
  <2>2. f \in [1..k -> 1..m-1]
    BY <1>1, <2>1
  <2>3. \A i \in 1..k : s[i] = b[f[i]]
    BY <1>1, <1>2, <2>1
  <2> QED BY <1>1, <1>2, <2>2, <2>3 DEF Embedded, k
<1> QED BY <1>5, <1>6 DEF a, b

LEMMA FirstOfPush ==
    ASSUME NEW S, NEW s \in Seq(S), NEW n \in Seq(S), NEW e \in S, NEW cap \in Nat \ {0},
           FirstOf(s, n, cap), Len(s) <= cap
    PROVE  /\ Len(s) # cap => FirstOf(Append(s, e), Append(n, e), cap)
           /\ Len(s) = cap /\ e \notin ToSet(s) => FirstOf(s, Append(n, e), cap)
<1> DEFINE a == Append(s, e)
           b == Append(n, e)
           k == Len(s)
           m == Len(n)
<1>1. /\ k = IF m < cap THEN m ELSE cap
      /\ \A i \in 1..k : s[i] = n[i]
      /\ \A i \in cap+1..m : n[i] \notin ToSet(s)
  BY DEF FirstOf
<1>2. /\ Len(a) = k + 1 /\ (\A i \in 1..k : a[i] = s[i]) /\ a[k+1] = e /\ k \in Nat
      /\ Len(b) = m + 1 /\ (\A i \in 1..m : b[i] = n[i]) /\ b[m+1] = e /\ m \in Nat
      /\ k <= cap
  BY Appended
<1> HIDE DEF a, b, k, m
<1>3. ASSUME k # cap PROVE FirstOf(a, b, cap)
  <2>1. k = m /\ m < cap
    BY <1>1, <1>2, <1>3
  <2>2. Len(a) = IF Len(b) < cap THEN Len(b) ELSE cap
    BY <1>2, <2>1
  <2>3. \A i \in 1..k+1 : a[i] = b[i]
    <3> TAKE i \in 1..k+1
    <3>1. i = k + 1 \/ i \in 1..k
      BY <1>2
    <3> QED BY <1>1, <1>2, <2>1, <3>1
  <2>4. \A i \in cap+1..m+1 : FALSE
    BY <1>2, <2>1
  <2> QED BY <1>2, <2>2, <2>3, <2>4 DEF FirstOf
<1>4. ASSUME k = cap, e \notin ToSet(s) PROVE FirstOf(s, b, cap)
  <2>1. m >= cap
    BY <1>1, <1>2, <1>4
  <2>2. k = IF m + 1 < cap THEN m + 1 ELSE cap
    BY <1>2, <1>4, <2>1
  <2>3. \A i \in 1..k : s[i] = b[i]
    BY <1>1, <1>2, <1>4, <2>1
  <2>4. \A i \in cap+1..m+1 : b[i] \notin ToSet(s)
    <3> TAKE i \in cap+1..m+1
    <3>1. i = m + 1 \/ (i \in cap+1..m /\ i \in 1..m)
      BY <1>2
    <3> QED BY <1>1, <1>2, <1>4, <3>1
  <2> QED BY <1>2, <2>2, <2>3, <2>4 DEF FirstOf, k
<1> QED BY <1>3, <1>4 DEF a, b, k

LEMMA FirstOfPop ==
    ASSUME NEW S, NEW s \in Seq(S), NEW n \in Seq(S), n # <<>>, NEW cap \in Nat \ {0},
           FirstOf(s, n, cap)
    PROVE  /\ s # <<>>
           /\ Last(s) = Last(n) => FirstOf(Front(s), Front(n), cap)
           /\ Last(s) # Last(n) => /\ FirstOf(s, Front(n), cap)
                                   /\ Last(n) \notin ToSet(s)
<1> DEFINE a == Front(s)
           b == Front(n)
           k == Len(s)
           m == Len(n)
<1>1. /\ k = IF m < cap THEN m ELSE cap
      /\ \A i \in 1..k : s[i] = n[i]
      /\ \A i \in cap+1..m : n[i] \notin ToSet(s)
  BY DEF FirstOf
<1>2. Len(b) = m - 1 /\ m \in Nat \ {0} /\ (\A i \in 1..m-1 : b[i] = n[i]) /\ Last(n) = n[m]
      /\ k \in Nat
  <2>1. k \in Nat
    OBVIOUS
  <2>2. Len(b) = m - 1 /\ m \in Nat \ {0} /\ (\A i \in 1..m-1 : b[i] = n[i]) /\ Last(n) = n[m]
    BY FrontIs
  <2> QED BY <2>1, <2>2
<1>3. s # <<>>
  BY <1>1, <1>2
<1>4. Len(a) = k - 1 /\ k \in Nat \ {0} /\ Last(s) = s[k] /\ \A i \in 1..k-1 : a[i] = s[i]
  BY <1>3, FrontIs
<1>5. Last(s) \in ToSet(s)
  <2>1. k \in 1..Len(s)
    BY <1>4
  <2> QED BY <1>4, <2>1, Members
<1>6. ToSet(a) \subseteq ToSet(s)
  <2>1. a \in Seq(S)
    BY <1>3, FrontIs
  <2>2. ASSUME NEW x \in ToSet(a) PROVE x \in ToSet(s)
    <3> HIDE DEF a
    <3>1. PICK i \in 1..Len(a) : x = a[i]
      BY <2>1, Members
    <3>2. i \in 1..Len(s) /\ x = s[i]
      BY <1>4, <3>1
    <3> QED BY <3>2, Members
  <2> QED BY <2>2
<1> HIDE DEF a, b, k, m
<1>7. ASSUME m > cap PROVE Last(n) \notin ToSet(s) /\ FirstOf(s, b, cap)
  <2>1. m \in cap+1..m /\ k = cap
    BY <1>1, <1>2, <1>7
  <2>2. k = IF m - 1 < cap THEN m - 1 ELSE cap
    BY <1>2, <1>7, <2>1
  <2>3. \A i \in 1..k : s[i] = b[i]
    BY <1>1, <1>2, <1>7, <2>1
  <2>4. \A i \in cap+1..m-1 : b[i] \notin ToSet(s)
    BY <1>1, <1>2
  <2> QED BY <1>1, <1>2, <2>1, <2>2, <2>3, <2>4 DEF FirstOf, k
<1>8. ASSUME m <= cap PROVE Last(s) = Last(n) /\ FirstOf(a, b, cap)
  <2>1. k = m
    BY <1>1, <1>2, <1>8
  <2>2. Last(s) = Last(n)
    BY <1>1, <1>2, <1>4, <2>1
  <2>3. k - 1 = IF m - 1 < cap THEN m - 1 ELSE cap
    BY <1>2, <1>8, <2>1
  <2>4. \A i \in 1..k-1 : a[i] = b[i]
    BY <1>1, <1>2, <1>4, <2>1
  <2>5. \A i \in cap+1..m-1 : FALSE
    BY <1>2, <1>8
  <2> QED BY <1>2, <1>4, <2>2, <2>3, <2>4, <2>5 DEF FirstOf
<1>9. m > cap \/ m <= cap
  BY <1>2
<1> QED BY <1>3, <1>5, <1>7, <1>8, <1>9 DEF a, b

-----------------------------------------------------------------------------
(* The invariant                                                           *)

\* The stack is in the nested calls, and has the outermost of them unless a
\* pin repeats: a pin that found it full is in the list.
StackInv ==
    /\ Embedded(m_stack, nested)
    /\ failed \/ repeats \/ FirstOf(m_stack, nested, CAPACITY)

\* What is pinned, or about to be, is live; the guard to come is free.
UseInv ==
    /\ Held \subseteq live
    /\ pc.at \in {"register", "push"} => pc.ptr \in live
    /\ pc.at = "register" => guard[pc.guard] = Null

\* The pins of o in the list and the stack, and the guards of o.
Exact(o) ==
    Count(ToSet(Nodes), word, o) + Count(DOMAIN m_stack, m_stack, o)
        = Count(Guards, guard, o) + Count(DOMAIN nested, nested, o)

IInv == TypeOK /\ NodesInv /\ StackInv /\ UseInv /\ PinsExact /\ FailsOnlyOnRepeats

LEMMA PinsExactIs == PinsExact <=> (~failed => \A o \in Objects : Exact(o))
BY DEF PinsExact, Exact, Count

LEMMA PinsExactNext ==
    ASSUME ~failed' => \A o \in Objects : Exact(o)'
    PROVE  PinsExact'
BY DEF PinsExact, Exact, Count

LEMMA Counted ==
    ASSUME TypeOK, ListInv, NEW o
    PROVE  /\ IsFiniteSet(ToSet(Nodes)) /\ IsFiniteSet(DOMAIN m_stack)
           /\ IsFiniteSet(DOMAIN nested) /\ IsFiniteSet(Guards)
           /\ Count(ToSet(Nodes), word, o) \in Nat /\ Count(DOMAIN m_stack, m_stack, o) \in Nat
           /\ Count(Guards, guard, o) \in Nat /\ Count(DOMAIN nested, nested, o) \in Nat
<1>1. IsFiniteSet(ToSet(Nodes)) /\ IsFiniteSet(Guards)
  BY NodesFinite, GuardsAssumption
<1>2. m_stack \in Seq(Objects) /\ nested \in Seq(Objects)
  BY DEF TypeOK
<1>3. ASSUME NEW s \in Seq(Objects) PROVE IsFiniteSet(DOMAIN s)
  <2>1. DOMAIN s = 1..Len(s) /\ Len(s) \in Int /\ 1 \in Int
    OBVIOUS
  <2>2. IsFiniteSet(1..Len(s))
    BY ONLY <2>1, FS_Interval
  <2> QED BY <2>1, <2>2
<1>4. IsFiniteSet(DOMAIN m_stack) /\ IsFiniteSet(DOMAIN nested)
  BY <1>2, <1>3
<1> QED BY <1>1, <1>4, CountNat

\* A guard has its pin in the list: the stack has no more pins than there are calls.
LEMMA GuardInList ==
    ASSUME IInv, ~failed, NEW o \in Objects
    PROVE  Count(Guards, guard, o) <= Count(ToSet(Nodes), word, o)
<1>1. Count(DOMAIN m_stack, m_stack, o) <= Count(DOMAIN nested, nested, o)
  BY EmbeddedCount DEF IInv, StackInv, TypeOK
<1>2. Exact(o)
  BY PinsExactIs DEF IInv
<1> QED BY <1>1, <1>2, Counted DEF IInv, NodesInv, Exact

\* The list with a node more, and with one less.
LEMMA ListGrows ==
    ASSUME TypeOK, ListInv, NEW p, p \notin ToSet(Nodes), NEW o,
           ToSet(Nodes') = ToSet(Nodes) \cup {p}, \A x \in ToSet(Nodes) : word'[x] = word[x]
    PROVE  Count(ToSet(Nodes'), word', o)
             = Count(ToSet(Nodes), word, o) + IF word'[p] = o THEN 1 ELSE 0
<1> DEFINE word1 == word'
           S == ToSet(Nodes)
           S1 == ToSet(Nodes')
<1>1. IsFiniteSet(S) /\ p \notin S /\ S1 = S \cup {p} /\ \A x \in S : word1[x] = word[x]
  BY NodesFinite
<1> HIDE DEF word1, S, S1
<1>2. Count(S1, word1, o) = Count(S, word, o) + IF word1[p] = o THEN 1 ELSE 0
  BY <1>1, CountAdd
<1> QED BY <1>2 DEF word1, S, S1

LEMMA ListShrinks ==
    ASSUME TypeOK, ListInv, NEW p \in ToSet(Nodes), NEW o,
           ToSet(Nodes') = ToSet(Nodes) \ {p}, word' = word
    PROVE  Count(ToSet(Nodes'), word', o)
             = Count(ToSet(Nodes), word, o) - IF word[p] = o THEN 1 ELSE 0
<1> DEFINE S == ToSet(Nodes)
<1>1. IsFiniteSet(S) /\ p \in S /\ \A x \in S \ {p} : word[x] = word[x]
  BY NodesFinite
<1> HIDE DEF S
<1>2. Count(S \ {p}, word, o) = Count(S, word, o) - IF word[p] = o THEN 1 ELSE 0
  BY <1>1, CountRemove
<1> QED BY <1>2 DEF S

LEMMA IInvInit == ASSUME Init PROVE IInv
<1> USE DEF Init
<1>1. TypeOK /\ NodesInv /\ Nodes = <<>>
  BY NodesInit
<1>2. StackInv
  BY FirstOfEmpty, CapacityAssumption DEF StackInv
<1>3. ToSet(<<>>) = {} /\ DOMAIN <<>> = {}
  BY EmptyMembers
<1>4. UseInv
  BY <1>3 DEF UseInv, Held, Pinned, Called, Idle
<1>5. \A o \in Objects : Exact(o)
  <2> TAKE o \in Objects
  <2>1. \A f : Count({}, f, o) = 0
    BY FS_EmptySet, CountNat
  <2>2. Count(Guards, guard, o) = 0
    <3>1. \A g \in Guards : guard[g] # o
      BY NullAssumption
    <3> QED BY <3>1, CountNat, GuardsAssumption
  <2>3. ToSet(Nodes) = {} /\ DOMAIN m_stack = {} /\ DOMAIN nested = {}
    BY <1>1, <1>3
  <2> QED BY <2>1, <2>2, <2>3 DEF Exact
<1> QED BY <1>1, <1>2, <1>4, <1>5, PinsExactIs DEF IInv, FailsOnlyOnRepeats

\* A step that leaves the pins, the guards and what is stored as they were.
LEMMA PinsKept ==
    ASSUME IInv, UNCHANGED <<pool, set, guard, nested, failed, repeats>>,
           Leaving' = Leaving, pc'.at = "free" => pc.at = "free" /\ pc' = pc, PcInv',
           TypeOK', UseInv'
    PROVE  IInv'
<1>1. Nodes' = Nodes /\ ListInv' /\ FreeInv'
  BY PoolKept DEF IInv, set
<1>2. StackInv'
  BY DEF IInv, StackInv, set
<1>3. \A o \in Objects : Exact(o)' <=> Exact(o)
  BY <1>1 DEF Exact, set, pool
<1>4. PinsExact' /\ FailsOnlyOnRepeats'
  <2>1. ~failed' => \A o \in Objects : Exact(o)'
    BY <1>3, PinsExactIs DEF IInv
  <2>2. PinsExact'
    BY ONLY <2>1, PinsExactNext
  <2> QED BY <2>2 DEF IInv, FailsOnlyOnRepeats
<1> QED BY <1>1, <1>2, <1>4 DEF IInv, NodesInv

LEMMA ReadHandleStep ==
    ASSUME IInv, NEW o \in Objects, NEW g \in Guards, ReadHandle(o, g)
    PROVE  IInv'
<1> USE DEF ReadHandle
<1>1. pc' = [at |-> "register", ptr |-> o, guard |-> g]
  OBVIOUS
<1>2. PcInv' /\ Leaving' = Leaving /\ pc'.at = "register"
  BY <1>1 DEF PcInv, Leaving, Idle
<1>3. TypeOK'
  BY <1>2 DEF IInv, TypeOK, set, program
<1>4. UseInv'
  BY <1>1 DEF IInv, UseInv, TypeOK, Held, Pinned, Called, program
<1> QED BY <1>2, <1>3, <1>4, PinsKept

LEMMA ReadHandleOfCallStep ==
    ASSUME IInv, NEW o \in Objects, ReadHandleOfCall(o)
    PROVE  IInv'
<1> USE DEF ReadHandleOfCall
<1>1. pc' = [at |-> "push", ptr |-> o]
  OBVIOUS
<1>2. PcInv' /\ Leaving' = Leaving /\ pc'.at = "push"
  BY <1>1 DEF PcInv, Leaving, Idle
<1>3. TypeOK'
  BY <1>2 DEF IInv, TypeOK, set, program
<1>4. UseInv'
  BY <1>1 DEF IInv, UseInv, TypeOK, Held, Pinned, Called, program
<1> QED BY <1>2, <1>3, <1>4, PinsKept

LEMMA NewStep == ASSUME IInv, NEW o \in Objects, New(o) PROVE IInv'
<1> USE DEF New
<1>1. PcInv' /\ Leaving' = Leaving
  BY DEF IInv, NodesInv, PcInv, Leaving
<1>2. TypeOK'
  BY DEF IInv, TypeOK, set
<1>3. UseInv'
  BY DEF IInv, UseInv, Held, Pinned, Called
<1> QED BY <1>1, <1>2, <1>3, PinsKept

LEMMA LoseStep == ASSUME IInv, NEW o \in Objects, Lose(o) PROVE IInv'
<1> USE DEF Lose
<1>1. PcInv' /\ Leaving' = Leaving
  BY DEF IInv, NodesInv, PcInv, Leaving
<1>2. TypeOK'
  BY DEF IInv, TypeOK, set
<1>3. UseInv'
  BY DEF IInv, UseInv, Held, Pinned, Called
<1> QED BY <1>1, <1>2, <1>3, PinsKept

\* What is pinned has a pin in the list or on the stack, and these are traced.
LEMMA CollectStep == ASSUME IInv, ~failed, Collect PROVE IInv'
<1> USE DEF Collect
<1>1. PcInv' /\ Leaving' = Leaving
  BY DEF IInv, NodesInv, PcInv, Leaving
<1>2. Held \subseteq Traced
  <2> SUFFICES ASSUME NEW o \in Held PROVE o \in Traced
    OBVIOUS
  <2>1. o \in Objects
    BY DEF IInv, UseInv, TypeOK
  <2>2. Count(Guards, guard, o) # 0 \/ Count(DOMAIN nested, nested, o) # 0
    <3>1. CASE o \in Pinned
      <4>1. PICK g \in Guards : guard[g] = o
        BY <3>1 DEF Pinned
      <4> QED BY <4>1, CountNat, GuardsAssumption
    <3>2. CASE o \in Called
      <4>1. \E i \in DOMAIN nested : nested[i] = o
        BY <3>2 DEF Called, ToSet
      <4>2. IsFiniteSet(DOMAIN nested)
        BY Counted DEF IInv, NodesInv
      <4> QED BY <4>1, <4>2, CountNat
    <3> QED BY <3>1, <3>2 DEF Held
  <2>3. Exact(o)
    BY <2>1, PinsExactIs DEF IInv
  <2>4. Count(ToSet(Nodes), word, o) # 0 \/ Count(DOMAIN m_stack, m_stack, o) # 0
    BY <2>2, <2>3, Counted DEF IInv, NodesInv, Exact
  <2>5. CASE Count(ToSet(Nodes), word, o) # 0
    <3>1. \E p \in ToSet(Nodes) : word[p] = o
      BY <2>5, Counted, CountNat DEF IInv, NodesInv
    <3> QED BY <3>1 DEF Traced
  <2>6. CASE Count(DOMAIN m_stack, m_stack, o) # 0
    <3>1. \E i \in DOMAIN m_stack : m_stack[i] = o
      BY <2>6, Counted, CountNat DEF IInv, NodesInv
    <3> QED BY <3>1 DEF Traced, ToSet
  <2> QED BY <2>4, <2>5, <2>6
<1>3. TypeOK'
  BY DEF IInv, TypeOK, set
<1>4. UseInv'
  <2>1. Held' = Held
    BY DEF Held, Pinned, Called
  <2>2. Held \subseteq live'
    BY <1>2 DEF IInv, UseInv
  <2>3. pc'.at \notin {"register", "push"}
    BY DEF InUnsafeScope
  <2> QED BY <2>1, <2>2, <2>3 DEF UseInv
<1> QED BY <1>1, <1>3, <1>4, PinsKept

LEMMA RegisterPinStep == ASSUME IInv, ~failed, RegisterPin PROVE IInv'
<1> DEFINE o1 == pc.ptr
           g1 == pc.guard
<1>1. /\ pc.at = "register" /\ PushFront(o1) /\ guard' = [guard EXCEPT ![g1] = o1]
      /\ pc' = Idle /\ UNCHANGED <<m_stack, nested, program, failed, repeats>>
  BY DEF RegisterPin
<1>2. /\ o1 \in Objects /\ g1 \in Guards /\ o1 \in live /\ guard[g1] = Null
      /\ guard \in [Guards -> Objects \cup {Null}]
  BY <1>1, PcIs DEF IInv, NodesInv, UseInv, TypeOK
<1> HIDE DEF o1, g1
<1>3. PICK p \in Cells \ ToSet(Nodes) :
              /\ ToSet(Nodes') = ToSet(Nodes) \cup {p}
              /\ word'[p] = o1 /\ \A x \in ToSet(Nodes) : word'[x] = word[x]
              /\ NodesInv' /\ DOMAIN m_next' = Cells /\ m_head' \in Cells
              /\ m_next' \in [Cells -> Cells \cup {Null}]
  BY <1>1, <1>2, CreateNodes DEF IInv
<1>4. TypeOK'
  BY <1>1, <1>2, <1>3 DEF IInv, TypeOK, program, Idle
<1>5. StackInv'
  BY <1>1 DEF IInv, StackInv
<1>6. UseInv'
  <2>1. \A g \in Guards : guard'[g] = o1 \/ guard'[g] = guard[g]
    BY <1>1, <1>2
  <2>2. pc'.at = "run"
    BY <1>1 DEF Idle
  <2> QED BY <1>1, <1>2, <2>1, <2>2 DEF IInv, UseInv, Held, Pinned, Called, program
<1>7. \A o \in Objects : Exact(o)'
  <2> TAKE o \in Objects
  <2>1. Count(ToSet(Nodes'), word', o)
          = Count(ToSet(Nodes), word, o) + IF o1 = o THEN 1 ELSE 0
    BY <1>3, ListGrows DEF IInv, NodesInv
  <2>2. Count(Guards, guard', o) = Count(Guards, guard, o) + IF o1 = o THEN 1 ELSE 0
    <3> DEFINE guard1 == [guard EXCEPT ![g1] = o1]
    <3>1. guard1[g1] = o1 /\ \A g \in Guards \ {g1} : guard1[g] = guard[g]
      BY <1>2
    <3> HIDE DEF guard1
    <3>2. Count(Guards, guard1, o) = Count(Guards, guard, o)
             - (IF guard[g1] = o THEN 1 ELSE 0) + (IF guard1[g1] = o THEN 1 ELSE 0)
      BY <1>2, <3>1, CountChange, GuardsAssumption
    <3>3. guard[g1] # o /\ Count(Guards, guard, o) \in Nat
      BY <1>2, NullAssumption, CountNat, GuardsAssumption
    <3>4. Count(Guards, guard1, o) = Count(Guards, guard, o) + IF o1 = o THEN 1 ELSE 0
      BY <3>1, <3>2, <3>3
    <3> QED BY <1>1, <3>4 DEF guard1
  <2>3. Exact(o)
    BY PinsExactIs DEF IInv
  <2> QED BY <1>1, <2>1, <2>2, <2>3, Counted DEF IInv, NodesInv, Exact
<1>8. PinsExact'
  BY ONLY <1>7, PinsExactNext
<1> QED BY <1>1, <1>3, <1>4, <1>5, <1>6, <1>8 DEF IInv, FailsOnlyOnRepeats

LEMMA PushPinStep == ASSUME IInv, ~failed, PushPin PROVE IInv'
<1> DEFINE o1 == pc.ptr
<1>1. /\ pc.at = "push"
      /\ IF ~IsFull
           THEN m_stack' = Append(m_stack, o1) /\ UNCHANGED <<pool, m_head, m_next>>
           ELSE PushFront(o1) /\ UNCHANGED m_stack
      /\ repeats' = (nested # <<>> /\ (repeats \/ (IsFull /\ o1 \in ToSet(m_stack))))
      /\ nested' = Append(nested, o1)
      /\ pc' = Idle
      /\ UNCHANGED <<guard, program, failed>>
  BY DEF PushPin
<1>2. /\ o1 \in Objects /\ o1 \in live /\ m_stack \in Seq(Objects) /\ nested \in Seq(Objects)
      /\ Len(m_stack) <= CAPACITY /\ CAPACITY \in Nat \ {0} /\ Len(m_stack) \in Nat
  BY <1>1, PcIs, CapacityAssumption DEF IInv, NodesInv, UseInv, TypeOK
<1> HIDE DEF o1
<1>3. /\ nested' \in Seq(Objects) /\ ToSet(nested') = ToSet(nested) \cup {o1}
      /\ \A o : Count(DOMAIN nested', nested', o)
                  = Count(DOMAIN nested, nested, o) + IF o1 = o THEN 1 ELSE 0
  BY <1>1, <1>2, Appended, CountAppend
<1>4. Embedded(m_stack, nested) /\ (repeats \/ FirstOf(m_stack, nested, CAPACITY))
  BY DEF IInv, StackInv
<1>5. UseInv'
  <2>1. pc'.at = "run"
    BY <1>1 DEF Idle
  <2> QED BY <1>1, <1>2, <1>3, <2>1 DEF IInv, UseInv, Held, Pinned, Called, program
\* The stack is in order again when no call is left.
<1>6. ~repeats' => /\ FirstOf(m_stack, nested, CAPACITY)
                   /\ IsFull => o1 \notin ToSet(m_stack)
  <2>1. CASE nested = <<>>
    <3>1. m_stack = <<>>
      BY <1>2, <1>4, <2>1, EmbeddedInEmpty
    <3>2. ~IsFull
      BY <1>2, <3>1 DEF IsFull
    <3> QED BY <1>2, <2>1, <3>1, <3>2, FirstOfEmpty
  <2>2. CASE nested # <<>>
    BY <1>1, <1>4, <2>2
  <2> QED BY <2>1, <2>2
<1>7. repeats' \in BOOLEAN
  <2>1. (nested # <<>> /\ (repeats \/ (IsFull /\ o1 \in ToSet(m_stack)))) \in BOOLEAN
    OBVIOUS
  <2> QED BY <1>1, <2>1
<1>8. CASE ~IsFull
  <2>1. m_stack' = Append(m_stack, o1) /\ UNCHANGED <<pool, m_head, m_next>>
    BY <1>1, <1>8
  <2>2. Len(m_stack) # CAPACITY
    BY <1>8 DEF IsFull
  <2>3. /\ m_stack' \in Seq(Objects) /\ Len(m_stack') <= CAPACITY
        /\ \A o : Count(DOMAIN m_stack', m_stack', o)
                    = Count(DOMAIN m_stack, m_stack, o) + IF o1 = o THEN 1 ELSE 0
    <3>1. /\ Append(m_stack, o1) \in Seq(Objects) /\ Len(Append(m_stack, o1)) = Len(m_stack) + 1
      BY <1>2, Appended
    <3>2. Len(m_stack) + 1 <= CAPACITY
      BY <1>2, <2>2
    <3>3. \A o : Count(DOMAIN Append(m_stack, o1), Append(m_stack, o1), o)
                    = Count(DOMAIN m_stack, m_stack, o) + IF o1 = o THEN 1 ELSE 0
      BY <1>2, CountAppend
    <3> QED BY <2>1, <3>1, <3>2, <3>3
  <2>4. Leaving' = Leaving /\ pc'.at # "free" /\ PcInv'
    BY <1>1 DEF Leaving, Idle, PcInv
  <2>5. Nodes' = Nodes /\ ListInv' /\ FreeInv'
    BY <2>1, <2>4, PoolKept DEF IInv
  <2>6. TypeOK'
    BY <1>1, <1>3, <1>7, <2>1, <2>3 DEF IInv, TypeOK, program, Idle
  <2>7. StackInv'
    <3>1. Embedded(m_stack', nested')
      BY <1>1, <1>2, <1>4, <2>1, EmbeddedPush
    <3>2. ~repeats' => FirstOf(m_stack', nested', CAPACITY)
      BY <1>1, <1>2, <1>6, <2>1, <2>2, FirstOfPush
    <3> QED BY <3>1, <3>2 DEF StackInv
  <2>8. \A o \in Objects : Exact(o)'
    <3> TAKE o \in Objects
    <3>1. Exact(o)
      BY PinsExactIs DEF IInv
    <3>2. Count(ToSet(Nodes'), word', o) = Count(ToSet(Nodes), word, o)
      BY <2>1, <2>5 DEF pool
    <3>3. /\ Count(ToSet(Nodes), word, o) \in Nat /\ Count(DOMAIN m_stack, m_stack, o) \in Nat
          /\ Count(Guards, guard, o) \in Nat /\ Count(DOMAIN nested, nested, o) \in Nat
      BY Counted DEF IInv, NodesInv
    <3>4. /\ Count(DOMAIN m_stack', m_stack', o)
               = Count(DOMAIN m_stack, m_stack, o) + IF o1 = o THEN 1 ELSE 0
          /\ Count(DOMAIN nested', nested', o)
               = Count(DOMAIN nested, nested, o) + IF o1 = o THEN 1 ELSE 0
          /\ Count(Guards, guard', o) = Count(Guards, guard, o)
      BY <1>1, <1>3, <2>3
    <3> QED BY ONLY <3>1, <3>2, <3>3, <3>4 DEF Exact
  <2>9. PinsExact'
    BY ONLY <2>8, PinsExactNext
  <2> QED BY <1>1, <1>5, <2>4, <2>5, <2>6, <2>7, <2>9 DEF IInv, NodesInv, FailsOnlyOnRepeats
<1>9. CASE IsFull
  <2>1. PushFront(o1) /\ m_stack' = m_stack /\ Len(m_stack) = CAPACITY
    BY <1>1, <1>9 DEF IsFull
  <2>2. PICK p \in Cells \ ToSet(Nodes) :
              /\ ToSet(Nodes') = ToSet(Nodes) \cup {p}
              /\ word'[p] = o1 /\ \A x \in ToSet(Nodes) : word'[x] = word[x]
              /\ NodesInv' /\ DOMAIN m_next' = Cells /\ m_head' \in Cells
              /\ m_next' \in [Cells -> Cells \cup {Null}]
    BY <1>1, <1>2, <2>1, CreateNodes DEF IInv
  <2>3. TypeOK'
    BY <1>1, <1>3, <1>7, <2>1, <2>2 DEF IInv, TypeOK, program, Idle
  <2>4. StackInv'
    <3>1. Embedded(m_stack', nested')
      BY <1>1, <1>2, <1>4, <2>1, EmbeddedPush
    <3>2. ~repeats' => FirstOf(m_stack', nested', CAPACITY)
      BY <1>1, <1>2, <1>6, <1>9, <2>1, FirstOfPush
    <3> QED BY <3>1, <3>2 DEF StackInv
  <2>5. \A o \in Objects : Exact(o)'
    <3> TAKE o \in Objects
    <3>1. Exact(o)
      BY PinsExactIs DEF IInv
    <3>2. Count(ToSet(Nodes'), word', o)
             = Count(ToSet(Nodes), word, o) + IF o1 = o THEN 1 ELSE 0
      BY <2>2, ListGrows DEF IInv, NodesInv
    <3> QED BY <1>1, <1>3, <2>1, <3>1, <3>2, Counted DEF IInv, NodesInv, Exact
  <2>6. PinsExact'
    BY ONLY <2>5, PinsExactNext
  <2> QED BY <1>1, <1>5, <2>2, <2>3, <2>4, <2>6 DEF IInv, FailsOnlyOnRepeats
<1> QED BY <1>8, <1>9

LEMMA DeregisterPinStep ==
    ASSUME IInv, ~failed, NEW g \in Guards, DeregisterPin(g)
    PROVE  IInv'
<1> DEFINE o1 == guard[g]
<1>1. /\ pc = Idle /\ o1 # Null /\ Unlink(o1) /\ guard' = [guard EXCEPT ![g] = Null]
      /\ UNCHANGED <<pool, m_stack, nested, program, repeats>>
  BY DEF DeregisterPin
<1>2. o1 \in Objects /\ guard \in [Guards -> Objects \cup {Null}]
  BY <1>1 DEF IInv, TypeOK
<1>3. \E x \in Guards : guard[x] = o1
  OBVIOUS
<1> HIDE DEF o1
<1>4. Count(ToSet(Nodes), word, o1) # 0
  <2>1. Count(Guards, guard, o1) # 0
    BY <1>3, CountNat, GuardsAssumption
  <2>2. Count(Guards, guard, o1) <= Count(ToSet(Nodes), word, o1)
    BY <1>2, GuardInList
  <2> QED BY <2>1, <2>2, Counted DEF IInv, NodesInv
<1>5. \E p \in ToSet(Nodes) : word[p] = o1
  BY <1>4, Counted, CountNat DEF IInv, NodesInv
<1>6. /\ NodesInv'
      /\ \E p \in ToSet(Nodes) : /\ word[p] = o1 /\ failed' = failed
                                 /\ ToSet(Nodes') = ToSet(Nodes) \ {p}
      /\ pc' = Idle \/ pc' \in [at : {"destroy"}, node : Cells]
      /\ m_head' \in Cells \cup {Null} /\ m_next' \in [Cells -> Cells \cup {Null}]
  BY <1>1, <1>2, <1>5, UnlinkNodes DEF IInv
<1>7. PICK p \in ToSet(Nodes) : /\ word[p] = o1 /\ failed' = failed
                                /\ ToSet(Nodes') = ToSet(Nodes) \ {p}
  BY <1>6
<1>8. pc'.at \in {"run", "destroy"}
  BY <1>6 DEF Idle
<1>9. TypeOK'
  BY <1>1, <1>2, <1>6, <1>7, <1>8 DEF IInv, TypeOK, program
<1>10. StackInv'
  BY <1>1, <1>7 DEF IInv, StackInv
<1>11. UseInv'
  <2>1. \A x \in Guards : guard'[x] = Null \/ guard'[x] = guard[x]
    BY <1>1, <1>2
  <2> QED BY <1>1, <1>8, <2>1 DEF IInv, UseInv, Held, Pinned, Called, program
<1>12. \A o \in Objects : Exact(o)'
  <2> TAKE o \in Objects
  <2>1. Count(ToSet(Nodes'), word', o)
          = Count(ToSet(Nodes), word, o) - IF o1 = o THEN 1 ELSE 0
    <3>1. word' = word
      BY <1>1 DEF pool
    <3> QED BY <1>7, <3>1, ListShrinks DEF IInv, NodesInv
  <2>2. Count(Guards, guard', o) = Count(Guards, guard, o) - IF o1 = o THEN 1 ELSE 0
    <3> DEFINE guard1 == [guard EXCEPT ![g] = Null]
    <3>1. guard1[g] = Null /\ \A x \in Guards \ {g} : guard1[x] = guard[x]
      BY <1>2
    <3> HIDE DEF guard1
    <3>2. Count(Guards, guard1, o) = Count(Guards, guard, o)
             - (IF guard[g] = o THEN 1 ELSE 0) + (IF guard1[g] = o THEN 1 ELSE 0)
      BY <3>1, CountChange, GuardsAssumption
    <3>3. guard1[g] # o /\ Count(Guards, guard, o) \in Nat
      BY <3>1, NullAssumption, CountNat, GuardsAssumption
    <3>4. Count(Guards, guard1, o) = Count(Guards, guard, o) - IF guard[g] = o THEN 1 ELSE 0
      BY <3>2, <3>3
    <3> QED BY <1>1, <3>4 DEF guard1, o1
  <2>3. Exact(o)
    BY PinsExactIs DEF IInv
  <2> QED BY <1>1, <2>1, <2>2, <2>3, Counted DEF IInv, NodesInv, Exact
<1>13. PinsExact'
  BY ONLY <1>12, PinsExactNext
<1> QED BY <1>1, <1>6, <1>7, <1>9, <1>10, <1>11, <1>13 DEF IInv, FailsOnlyOnRepeats

LEMMA PopPinStep == ASSUME IInv, ~failed, PopPin PROVE IInv'
<1> DEFINE o1 == Last(nested)
<1>1. /\ pc = Idle /\ nested # <<>> /\ nested' = Front(nested)
      /\ IF m_stack = <<>>
           THEN failed' = TRUE /\ UNCHANGED <<set, pc>>
           ELSE IF Top = o1
                  THEN m_stack' = Front(m_stack) /\ UNCHANGED <<m_head, m_next, pc, failed>>
                  ELSE Unlink(o1) /\ UNCHANGED m_stack
      /\ UNCHANGED <<pool, guard, program, repeats>>
  BY DEF PopPin
<1>2. /\ m_stack \in Seq(Objects) /\ nested \in Seq(Objects)
      /\ CAPACITY \in Nat \ {0} /\ Len(m_stack) \in Nat /\ Len(m_stack) <= CAPACITY
  BY CapacityAssumption DEF IInv, TypeOK
<1>3. /\ o1 \in Objects /\ Front(nested) \in Seq(Objects)
      /\ \A o : Count(DOMAIN nested', nested', o)
                  = Count(DOMAIN nested, nested, o) - IF o1 = o THEN 1 ELSE 0
  BY <1>1, <1>2, FrontIs, CountFront
<1>4. o1 \in ToSet(nested) /\ ToSet(Front(nested)) \subseteq ToSet(nested)
  <2>1. /\ Len(Front(nested)) = Len(nested) - 1 /\ Len(nested) \in Nat \ {0}
        /\ \A i \in 1..Len(nested)-1 : Front(nested)[i] = nested[i]
        /\ o1 = nested[Len(nested)]
    BY <1>1, <1>2, FrontIs
  <2>2. o1 \in ToSet(nested)
    BY <1>2, <2>1, Members
  <2> DEFINE a == Front(nested)
  <2>3. ASSUME NEW x \in ToSet(a) PROVE x \in ToSet(nested)
    <3>1. a \in Seq(Objects) /\ Len(a) = Len(nested) - 1
          /\ \A i \in 1..Len(nested)-1 : a[i] = nested[i]
      BY <1>3, <2>1
    <3> HIDE DEF a
    <3>2. PICK i \in 1..Len(a) : x = a[i]
      BY <2>3, <3>1, Members
    <3>3. i \in 1..Len(nested) /\ x = nested[i]
      BY <2>1, <3>1, <3>2
    <3> QED BY <1>2, <3>3, Members
  <2> QED BY <2>2, <2>3
<1> HIDE DEF o1
<1>5. Embedded(m_stack, nested) /\ (repeats \/ FirstOf(m_stack, nested, CAPACITY))
  BY DEF IInv, StackInv
<1>6. pc'.at \in {"run", "destroy"} => UseInv'
  BY <1>1, <1>4 DEF IInv, UseInv, Held, Pinned, Called, program
<1>7. CASE m_stack = <<>>
  <2>1. failed' = TRUE /\ UNCHANGED <<m_head, m_next, m_stack, pc>>
    BY <1>1, <1>7 DEF set
  <2>2. Leaving' = Leaving /\ pc'.at = "run" /\ PcInv'
    BY <1>1, <2>1 DEF Leaving, Idle, PcInv
  <2>3. Nodes' = Nodes /\ ListInv' /\ FreeInv'
    BY <1>1, <2>1, <2>2, PoolKept DEF IInv
  <2>4. TypeOK'
    BY <1>1, <1>3, <2>1, <2>2 DEF IInv, TypeOK, program
  <2>5. StackInv'
    BY <1>1, <1>2, <1>5, <1>7, <2>1, EmbeddedPop DEF StackInv
  <2>6. FailsOnlyOnRepeats'
    <3>1. repeats
      BY <1>1, <1>2, <1>5, <1>7, FirstOfPop
    <3> QED BY <1>1, <3>1 DEF FailsOnlyOnRepeats
  <2>7. PinsExact'
    BY ONLY <2>1, PinsExactNext
  <2> QED BY <1>6, <2>2, <2>3, <2>4, <2>5, <2>6, <2>7 DEF IInv, NodesInv
<1>8. CASE m_stack # <<>> /\ Last(m_stack) = o1
  <2>1. m_stack' = Front(m_stack) /\ UNCHANGED <<m_head, m_next, pc, failed>>
    BY <1>1, <1>8 DEF Top
  <2>2. /\ m_stack' \in Seq(Objects) /\ Len(m_stack') <= CAPACITY
        /\ \A o : Count(DOMAIN m_stack', m_stack', o)
                    = Count(DOMAIN m_stack, m_stack, o) - IF o1 = o THEN 1 ELSE 0
    BY <1>2, <1>8, <2>1, FrontIs, CountFront
  <2>3. Leaving' = Leaving /\ pc'.at = "run" /\ PcInv'
    BY <1>1, <2>1 DEF Leaving, Idle, PcInv
  <2>4. Nodes' = Nodes /\ ListInv' /\ FreeInv'
    BY <1>1, <2>1, <2>3, PoolKept DEF IInv
  <2>5. TypeOK'
    BY <1>1, <1>3, <2>1, <2>2, <2>3 DEF IInv, TypeOK, program
  <2>6. StackInv'
    <3>1. Embedded(m_stack', nested')
      BY <1>1, <1>2, <1>5, <1>8, <2>1, EmbeddedPop
    <3>2. ~repeats => FirstOf(m_stack', nested', CAPACITY)
      BY <1>1, <1>2, <1>5, <1>8, <2>1, FirstOfPop DEF o1
    <3> QED BY <1>1, <3>1, <3>2 DEF StackInv
  <2>7. \A o \in Objects : Exact(o)'
    <3> TAKE o \in Objects
    <3>1. Exact(o)
      BY PinsExactIs DEF IInv
    <3>2. Count(ToSet(Nodes'), word', o) = Count(ToSet(Nodes), word, o)
      BY <1>1, <2>4 DEF pool
    <3>3. /\ Count(ToSet(Nodes), word, o) \in Nat /\ Count(DOMAIN m_stack, m_stack, o) \in Nat
          /\ Count(Guards, guard, o) \in Nat /\ Count(DOMAIN nested, nested, o) \in Nat
      BY Counted DEF IInv, NodesInv
    <3>4. /\ Count(DOMAIN m_stack', m_stack', o)
               = Count(DOMAIN m_stack, m_stack, o) - IF o1 = o THEN 1 ELSE 0
          /\ Count(DOMAIN nested', nested', o)
               = Count(DOMAIN nested, nested, o) - IF o1 = o THEN 1 ELSE 0
          /\ Count(Guards, guard', o) = Count(Guards, guard, o)
      BY <1>1, <1>3, <2>2
    <3> QED BY ONLY <3>1, <3>2, <3>3, <3>4 DEF Exact
  <2>8. PinsExact'
    BY ONLY <2>7, PinsExactNext
  <2> QED BY <1>1, <1>6, <2>1, <2>3, <2>4, <2>5, <2>6, <2>8 DEF IInv, NodesInv, FailsOnlyOnRepeats
<1>9. CASE m_stack # <<>> /\ Last(m_stack) # o1
  <2>1. Unlink(o1) /\ m_stack' = m_stack
    BY <1>1, <1>9 DEF Top
  <2>2. /\ NodesInv'
        /\ \/ /\ \A p \in ToSet(Nodes) : word[p] # o1
              /\ failed' = TRUE /\ Nodes' = Nodes /\ pc' = Idle
           \/ \E p \in ToSet(Nodes) : /\ word[p] = o1 /\ failed' = failed
                                      /\ ToSet(Nodes') = ToSet(Nodes) \ {p}
        /\ pc' = Idle \/ pc' \in [at : {"destroy"}, node : Cells]
        /\ m_head' \in Cells \cup {Null} /\ m_next' \in [Cells -> Cells \cup {Null}]
    BY <1>1, <1>3, <2>1, UnlinkNodes DEF IInv
  <2>3. pc'.at \in {"run", "destroy"} /\ failed' \in BOOLEAN
    <3>1. pc'.at \in {"run", "destroy"}
      BY <2>2 DEF Idle
    <3>2. failed \in BOOLEAN
      BY DEF IInv, TypeOK
    <3>3. failed' \in BOOLEAN
      <4>1. CASE failed' = TRUE
        BY <4>1
      <4>2. CASE failed' = failed
        BY <3>2, <4>2
      <4> QED BY <2>2, <4>1, <4>2
    <3> QED BY <3>1, <3>3
  <2>4. TypeOK'
    BY <1>1, <1>3, <2>1, <2>2, <2>3 DEF IInv, TypeOK, program
  <2>5. StackInv'
    <3>1. Embedded(m_stack', nested')
      BY <1>1, <1>2, <1>5, <1>9, <2>1, EmbeddedPop DEF o1
    <3>2. ~repeats => FirstOf(m_stack', nested', CAPACITY)
      BY <1>1, <1>2, <1>5, <1>9, <2>1, FirstOfPop DEF o1
    <3> QED BY <1>1, <3>1, <3>2 DEF StackInv
\* Without a repeat the call is beyond those of the stack, and its pin in the list.
  <2>6. ASSUME ~repeats PROVE \E p \in ToSet(Nodes) : word[p] = o1
    <3>1. o1 \notin ToSet(m_stack)
      BY <1>1, <1>2, <1>5, <1>9, <2>6, FirstOfPop DEF o1
    <3>2. \A i \in DOMAIN m_stack : m_stack[i] # o1
      BY <3>1 DEF ToSet
    <3>3. Count(DOMAIN m_stack, m_stack, o1) = 0
      BY <3>2, Counted, CountNat DEF IInv, NodesInv
    <3>4. \E i \in DOMAIN nested : nested[i] = o1
      BY <1>4 DEF ToSet
    <3>5. Count(DOMAIN nested, nested, o1) # 0
      BY <3>4, Counted, CountNat DEF IInv, NodesInv
    <3>6. Exact(o1)
      BY <1>3, PinsExactIs DEF IInv
    <3>7. Count(ToSet(Nodes), word, o1) # 0
      BY <3>3, <3>5, <3>6, Counted DEF IInv, NodesInv, Exact
    <3> QED BY <3>7, Counted, CountNat DEF IInv, NodesInv
  <2>7. FailsOnlyOnRepeats'
    BY <1>1, <2>2, <2>6 DEF IInv, FailsOnlyOnRepeats
  <2>8. ASSUME ~failed' PROVE \A o \in Objects : Exact(o)'
    <3> TAKE o \in Objects
    <3>1. PICK p \in ToSet(Nodes) : word[p] = o1 /\ ToSet(Nodes') = ToSet(Nodes) \ {p}
      BY <2>2, <2>8
    <3>2. Count(ToSet(Nodes'), word', o)
            = Count(ToSet(Nodes), word, o) - IF o1 = o THEN 1 ELSE 0
      <4>1. word' = word
        BY <1>1 DEF pool
      <4> QED BY <3>1, <4>1, ListShrinks DEF IInv, NodesInv
    <3>3. /\ Count(ToSet(Nodes), word, o) \in Nat /\ Count(DOMAIN m_stack, m_stack, o) \in Nat
          /\ Count(Guards, guard, o) \in Nat /\ Count(DOMAIN nested, nested, o) \in Nat
      BY Counted DEF IInv, NodesInv
    <3>4. /\ Count(DOMAIN m_stack', m_stack', o) = Count(DOMAIN m_stack, m_stack, o)
          /\ Count(DOMAIN nested', nested', o)
               = Count(DOMAIN nested, nested, o) - IF o1 = o THEN 1 ELSE 0
          /\ Count(Guards, guard', o) = Count(Guards, guard, o)
      BY <1>1, <1>3, <2>1
    <3>5. Exact(o)
      BY PinsExactIs DEF IInv
    <3> QED BY ONLY <3>2, <3>3, <3>4, <3>5 DEF Exact
  <2>9. PinsExact'
    BY ONLY <2>8, PinsExactNext
  <2> QED BY <1>6, <2>2, <2>3, <2>4, <2>5, <2>7, <2>9 DEF IInv
<1> QED BY <1>7, <1>8, <1>9

LEMMA DestroyNodeStep == ASSUME IInv, ~failed, DestroyNode PROVE IInv'
<1>1. /\ pc.at = "destroy" /\ LinkFree(pc.node) /\ pc' = [pc EXCEPT !.at = "free"]
      /\ UNCHANGED <<set, guard, nested, program, failed, repeats>>
  BY DEF DestroyNode
<1>2. NodesInv' /\ Nodes' = Nodes /\ \A p \in ToSet(Nodes) : word'[p] = word[p]
  BY <1>1, LinkNodes DEF IInv
<1>3. pc'.at = "free"
  BY <1>1 DEF IInv, NodesInv, PcInv, Idle
<1>4. TypeOK'
  BY <1>1, <1>3 DEF IInv, TypeOK, set, program
<1>5. StackInv'
  BY <1>1 DEF IInv, StackInv, set
<1>6. UseInv'
  BY <1>1, <1>3 DEF IInv, UseInv, Held, Pinned, Called, program
<1>7. \A o \in Objects : Exact(o)'
  <2> TAKE o \in Objects
  <2>1. Count(ToSet(Nodes'), word', o) = Count(ToSet(Nodes), word, o)
    <3> DEFINE word1 == word'
    <3>1. \A p \in ToSet(Nodes) : word1[p] = word[p]
      BY <1>2
    <3> HIDE DEF word1
    <3>2. Count(ToSet(Nodes), word1, o) = Count(ToSet(Nodes), word, o)
      BY <3>1, CountSame
    <3> QED BY <1>2, <3>2 DEF word1
  <2>2. Exact(o)
    BY PinsExactIs DEF IInv
  <2> QED BY <1>1, <2>1, <2>2 DEF Exact, set
<1>8. PinsExact'
  BY ONLY <1>7, PinsExactNext
<1> QED BY <1>1, <1>2, <1>4, <1>5, <1>6, <1>8 DEF IInv, FailsOnlyOnRepeats

LEMMA FreeNodeStep == ASSUME IInv, ~failed, FreeNode PROVE IInv'
<1>1. /\ pc.at = "free" /\ PushFree(pc.node) /\ pc' = Idle
      /\ UNCHANGED <<set, guard, nested, program, failed, repeats>>
  BY DEF FreeNode
<1>2. NodesInv' /\ Nodes' = Nodes /\ word' = word
  BY <1>1, PushNodes DEF IInv
<1>3. pc'.at = "run"
  BY <1>1 DEF Idle
<1>4. TypeOK'
  BY <1>1, <1>3 DEF IInv, TypeOK, set, program
<1>5. StackInv'
  BY <1>1 DEF IInv, StackInv, set
<1>6. UseInv'
  BY <1>1, <1>3 DEF IInv, UseInv, Held, Pinned, Called, program
<1>7. \A o \in Objects : Exact(o)'
  <2> TAKE o \in Objects
  <2>1. Exact(o)
    BY PinsExactIs DEF IInv
  <2> QED BY <1>1, <1>2, <2>1 DEF Exact, set
<1>8. PinsExact'
  BY ONLY <1>7, PinsExactNext
<1> QED BY <1>1, <1>2, <1>4, <1>5, <1>6, <1>8 DEF IInv, FailsOnlyOnRepeats

LEMMA MoveStep ==
    ASSUME IInv, ~failed, NEW g \in Guards, NEW h \in Guards, Move(g, h)
    PROVE  IInv'
<1>1. /\ pc = Idle /\ guard' = [guard EXCEPT ![g] = guard[h], ![h] = guard[g]]
      /\ UNCHANGED <<pool, set, nested, pc, program, failed, repeats>>
  BY DEF Move
<1>2. guard \in [Guards -> Objects \cup {Null}]
  BY DEF IInv, TypeOK
<1>3. PcInv' /\ Leaving' = Leaving /\ pc'.at = "run"
  BY <1>1 DEF PcInv, Leaving, Idle
<1>4. Nodes' = Nodes /\ ListInv' /\ FreeInv'
  <2>1. UNCHANGED <<pool, m_head, m_next>>
    BY <1>1 DEF set
  <2> QED BY <1>1, <1>3, <2>1, PoolKept DEF IInv
<1>5. /\ guard' \in [Guards -> Objects \cup {Null}]
      /\ \A x \in Guards : guard'[x] \in {guard[x], guard[g], guard[h]}
  BY <1>1, <1>2
<1>6. TypeOK'
  BY <1>1, <1>5 DEF IInv, TypeOK, set, program
<1>7. StackInv'
  BY <1>1 DEF IInv, StackInv, set
<1>8. UseInv'
  BY <1>1, <1>3, <1>5 DEF IInv, UseInv, Held, Pinned, Called, program
<1>9. \A o \in Objects : Exact(o)'
  <2> TAKE o \in Objects
  <2>1. Count(Guards, guard', o) = Count(Guards, guard, o)
    <3> DEFINE guard1 == guard'
    <3>1. \A x \in Guards : guard1[x] = IF x = h THEN guard[g]
                                       ELSE IF x = g THEN guard[h] ELSE guard[x]
      BY <1>1, <1>2
    <3> HIDE DEF guard1
    <3>2. Count(Guards, guard1, o) = Count(Guards, guard, o)
      BY <3>1, CountSwap, GuardsAssumption
    <3> QED BY <3>2 DEF guard1
  <2>2. Exact(o)
    BY PinsExactIs DEF IInv
  <2> QED BY <1>1, <1>4, <2>1, <2>2 DEF Exact, set, pool
<1>10. PinsExact'
  BY ONLY <1>9, PinsExactNext
<1> QED BY <1>1, <1>3, <1>4, <1>6, <1>7, <1>8, <1>10 DEF IInv, NodesInv, FailsOnlyOnRepeats

LEMMA EndThreadStep == ASSUME IInv, ~failed, EndThread PROVE IInv'
<1>1. /\ pc = Idle /\ nested = <<>> /\ \A g \in Guards : guard[g] = Null
      /\ UNCHANGED <<m_stack, guard, nested, pc, program, failed, repeats>>
  BY DEF EndThread
<1>2. /\ NodesInv' /\ Nodes' = <<>>
      /\ m_head' \in Cells \cup {Null} /\ m_next' \in [Cells -> Cells \cup {Null}]
  BY EndNodes
<1>3. pc'.at = "run"
  BY <1>1 DEF Idle
<1>4. TypeOK'
  BY <1>1, <1>2 DEF IInv, TypeOK, program
<1>5. StackInv'
  BY <1>1 DEF IInv, StackInv
<1>6. UseInv'
  BY <1>1, <1>3 DEF IInv, UseInv, Held, Pinned, Called, program
<1>7. \A o \in Objects : Exact(o)'
  <2> TAKE o \in Objects
  <2>1. m_stack = <<>>
    BY <1>1, EmbeddedInEmpty DEF IInv, StackInv, TypeOK
  <2>2. DOMAIN <<>> = {} /\ ToSet(<<>>) = {}
    BY EmptyMembers
  <2>3. \A f : Count({}, f, o) = 0
    BY FS_EmptySet, CountNat
  <2>4. Count(Guards, guard, o) = 0
    <3>1. \A g \in Guards : guard[g] # o
      BY <1>1, NullAssumption
    <3> QED BY <3>1, CountNat, GuardsAssumption
  <2> QED BY <1>1, <1>2, <2>1, <2>2, <2>3, <2>4 DEF Exact
<1>8. PinsExact'
  BY ONLY <1>7, PinsExactNext
<1> QED BY <1>1, <1>2, <1>4, <1>5, <1>6, <1>8 DEF IInv, FailsOnlyOnRepeats

-----------------------------------------------------------------------------
(* The blocks                                                              *)

\* l is the list of the blocks s.
IsListOf(l, s) ==
    /\ s \in Seq(Blocks) /\ Distinct(s)
    /\ DOMAIN l.m_next = ToSet(s) \cup {Fake} /\ DOMAIN l.m_prev = ToSet(s) \cup {Fake}
    /\ l.m_head = IF s = <<>> THEN Fake ELSE s[1]
    /\ l.m_next[Fake] = l.m_head
    /\ l.m_prev[Fake] = IF s = <<>> THEN Fake ELSE s[Len(s)]
    /\ \A i \in 1..Len(s) : l.m_next[s[i]] = IF i = Len(s) THEN Fake ELSE s[i+1]
    /\ \A i \in 1..Len(s) : l.m_prev[s[i]] = IF i = 1 THEN Fake ELSE s[i-1]
    /\ l = [m_head |-> l.m_head,
            m_next |-> [x \in ToSet(s) \cup {Fake} |-> l.m_next[x]],
            m_prev |-> [x \in ToSet(s) \cup {Fake} |-> l.m_prev[x]]]

BlocksInv ==
    /\ IsListOf(m_alloc, Forward(m_alloc))
    /\ ToSet(Forward(m_alloc)) = DOMAIN chunk

LEMMA ReverseIs ==
    ASSUME NEW S, NEW s \in Seq(S)
    PROVE  /\ Reverse(s) \in Seq(S) /\ Len(Reverse(s)) = Len(s) /\ Len(s) \in Nat
           /\ \A i \in 1..Len(s) : Len(s) - i + 1 \in 1..Len(s) /\ Reverse(s)[i] = s[Len(s) - i + 1]
<1>1. Len(s) \in Nat
  OBVIOUS
<1>2. \A i \in 1..Len(s) : Len(s) - i + 1 \in 1..Len(s)
  BY <1>1
<1>3. \A i \in 1..Len(s) : s[Len(s) - i + 1] \in S
  BY <1>2
<1>4. Reverse(s) = [i \in 1..Len(s) |-> s[(Len(s) - i) + 1]]
  BY DEF Reverse
<1>5. Reverse(s) \in [1..Len(s) -> S]
  BY <1>3, <1>4
<1>6. Reverse(s) \in Seq(S) /\ Len(Reverse(s)) = Len(s)
  BY <1>1, <1>5
<1> QED BY <1>1, <1>2, <1>4, <1>6

LEMMA ReverseTwice ==
    ASSUME NEW S, NEW s \in Seq(S)
    PROVE  Reverse(Reverse(s)) = s
<1> DEFINE r == Reverse(s)
           t == Reverse(r)
<1>1. /\ r \in Seq(S) /\ Len(r) = Len(s) /\ Len(s) \in Nat
      /\ \A i \in 1..Len(s) : Len(s) - i + 1 \in 1..Len(s) /\ r[i] = s[Len(s) - i + 1]
  BY ReverseIs
<1> HIDE DEF r
<1>2. /\ t \in Seq(S) /\ Len(t) = Len(r)
      /\ \A i \in 1..Len(r) : t[i] = r[Len(r) - i + 1]
  BY <1>1, ReverseIs
<1> HIDE DEF t
<1>3. \A i \in 1..Len(s) : t[i] = s[i]
  <2> TAKE i \in 1..Len(s)
  <2> DEFINE j == Len(s) - i + 1
  <2>1. j \in 1..Len(s) /\ Len(s) - j + 1 = i /\ t[i] = r[j]
    BY <1>1, <1>2
  <2>2. r[j] = s[Len(s) - j + 1]
    BY <1>1, <2>1
  <2> QED BY <2>1, <2>2
<1>4. t = s
  <2>1. t = [i \in 1..Len(s) |-> t[i]] /\ s = [i \in 1..Len(s) |-> s[i]]
    BY <1>1, <1>2
  <2> QED BY <1>3, <2>1
<1> QED BY <1>4 DEF r, t

LEMMA ListWalks ==
    ASSUME NEW l, NEW s, IsListOf(l, s)
    PROVE  /\ Forward(l) = s /\ Backward(l) = Reverse(s)
<1> USE DEF IsListOf
<1>1. s \in Seq(Blocks) /\ Len(s) \in Nat /\ Fake \notin Blocks /\ IsFiniteSet(ToSet(s))
  BY AddressesAssumption, DistinctLength
<1>2. s \in Seq(ToSet(s)) /\ Fake \notin ToSet(s)
  <2>1. \A i \in 1..Len(s) : s[i] \in ToSet(s)
    BY <1>1, Members
  <2>2. \A x \in ToSet(s) : x \in Blocks
    BY <1>1, Members
  <2> QED BY <1>1, <2>1, <2>2
<1>3. IsFiniteSet(ToSet(s) \cup {Fake}) /\ (ToSet(s) \cup {Fake}) \ {Fake} = ToSet(s)
  BY <1>1, <1>2, FS_AddElement
<1>4. Path(s, l.m_head, l.m_next, Fake)
  BY <1>2, <1>3 DEF Path
<1>5. Forward(l) = s
  BY <1>3, <1>4, WalkIsPath DEF Forward
<1> DEFINE r == Reverse(s)
           n == Len(s)
<1>6. /\ r \in Seq(ToSet(s)) /\ Len(r) = n /\ n \in Nat
      /\ \A i \in 1..n : n - i + 1 \in 1..n /\ r[i] = s[n - i + 1]
  BY <1>2, ReverseIs
<1> HIDE DEF r
<1>7. Distinct(r)
  <2> SUFFICES ASSUME NEW i \in 1..n, NEW j \in 1..n, r[i] = r[j] PROVE i = j
    BY <1>6 DEF Distinct
  <2>1. n - i + 1 = n - j + 1
    BY <1>6 DEF Distinct
  <2> QED BY <1>6, <2>1
<1>8. l.m_prev[Fake] = IF r = <<>> THEN Fake ELSE r[1]
  <2>1. r = <<>> <=> s = <<>>
    BY <1>1, <1>6, EmptySeq
  <2>2. s # <<>> => r[1] = s[n]
    <3>1. s # <<>> => 1 \in 1..n /\ n - 1 + 1 = n
      BY <1>1, EmptySeq
    <3> QED BY <1>6, <3>1
  <2> QED BY <2>1, <2>2
<1>9. ASSUME NEW i \in 1..Len(r) PROVE l.m_prev[r[i]] = IF i = Len(r) THEN Fake ELSE r[i+1]
  <2> DEFINE j == n - i + 1
  <2>1. j \in 1..n /\ r[i] = s[j] /\ (j = 1 <=> i = n)
    BY <1>6
  <2>2. l.m_prev[s[j]] = IF j = 1 THEN Fake ELSE s[j-1]
    BY <2>1
  <2>3. i # n => r[i+1] = s[j-1]
    <3>1. i # n => i + 1 \in 1..n /\ n - (i + 1) + 1 = j - 1
      BY <1>6
    <3> QED BY <1>6, <3>1
  <2> HIDE DEF j
  <2> QED BY <1>6, <2>1, <2>2, <2>3
<1>10. Path(r, l.m_prev[Fake], l.m_prev, Fake)
  BY <1>3, <1>6, <1>7, <1>8, <1>9 DEF Path
<1>11. Backward(l) = r
  BY <1>3, <1>10, WalkIsPath DEF Backward
<1> QED BY <1>5, <1>11 DEF r

LEMMA EmptyList == IsListOf(NoBlocks, <<>>)
<1>1. ToSet(<<>>) = {} /\ {} \cup {Fake} = {Fake}
  BY EmptyMembers
<1> QED BY <1>1 DEF IsListOf, NoBlocks, Distinct

\* A new block is put between the last one and the fake one.
LEMMA BlockAppended ==
    ASSUME NEW l, NEW s, IsListOf(l, s), NEW b \in Blocks, b \notin ToSet(s)
    PROVE  IsListOf(AllocateBlock(l, b), Append(s, b))
<1> DEFINE n == Len(s)
           t == Append(s, b)
           last == l.m_prev[Fake]
           B == ToSet(t) \cup {Fake}
           l1 == [m_head |-> IF l.m_head = Fake THEN b ELSE l.m_head,
                  m_next |-> [x \in B |-> IF x = b THEN Fake
                                          ELSE IF x = last THEN b ELSE l.m_next[x]],
                  m_prev |-> [x \in B |-> IF x = b THEN last
                                          ELSE IF x = Fake THEN b ELSE l.m_prev[x]]]
<1>1. /\ s \in Seq(Blocks) /\ Distinct(s) /\ n \in Nat
      /\ DOMAIN l.m_next = ToSet(s) \cup {Fake} /\ DOMAIN l.m_prev = ToSet(s) \cup {Fake}
      /\ l.m_head = IF s = <<>> THEN Fake ELSE s[1]
      /\ l.m_next[Fake] = l.m_head
      /\ last = IF s = <<>> THEN Fake ELSE s[n]
      /\ \A i \in 1..n : l.m_next[s[i]] = IF i = n THEN Fake ELSE s[i+1]
      /\ \A i \in 1..n : l.m_prev[s[i]] = IF i = 1 THEN Fake ELSE s[i-1]
  BY DEF IsListOf
<1>2. /\ t \in Seq(Blocks) /\ Len(t) = n + 1 /\ (\A i \in 1..n : t[i] = s[i]) /\ t[n+1] = b
      /\ ToSet(t) = ToSet(s) \cup {b}
  BY <1>1, Appended
<1>3. /\ Fake \notin Blocks /\ b # Fake
      /\ \A i \in 1..n : s[i] # b /\ s[i] # Fake /\ s[i] \in ToSet(s)
  <2>1. \A i \in 1..n : s[i] \in ToSet(s) /\ s[i] \in Blocks
    BY <1>1, Members
  <2> QED BY <2>1, AddressesAssumption
<1>4. l1 = AllocateBlock(l, b)
  <2>1. DOMAIN l.m_next \cup {b} = B
    BY <1>1, <1>2
  <2> HIDE DEF t, B
  <2> QED BY <2>1 DEF AllocateBlock
<1>5. s = <<>> <=> n = 0
  BY <1>1, EmptySeq
<1>6. \A i \in 1..n : s[i] \in B /\ b \in B /\ Fake \in B
  BY <1>2, <1>3
<1>7. b \in B /\ Fake \in B
  BY <1>2
<1> HIDE DEF t, n, B, last
<1>8. Distinct(t)
  <2> SUFFICES ASSUME NEW i \in 1..n+1, NEW j \in 1..n+1, t[i] = t[j] PROVE i = j
    BY <1>2 DEF Distinct
  <2>1. (i = n + 1 \/ i \in 1..n) /\ (j = n + 1 \/ j \in 1..n)
    BY <1>1
  <2> QED BY <1>1, <1>2, <1>3, <2>1 DEF Distinct, n
<1>9. /\ l1.m_next[b] = Fake
      /\ \A x \in B : x # b => l1.m_next[x] = IF x = last THEN b ELSE l.m_next[x]
      /\ l1.m_prev[b] = last /\ l1.m_prev[Fake] = b
      /\ \A x \in B : x # b /\ x # Fake => l1.m_prev[x] = l.m_prev[x]
      /\ DOMAIN l1.m_next = B /\ DOMAIN l1.m_prev = B
      /\ l1.m_head = IF l.m_head = Fake THEN b ELSE l.m_head
      /\ l1 = [m_head |-> l1.m_head,
               m_next |-> [x \in B |-> l1.m_next[x]], m_prev |-> [x \in B |-> l1.m_prev[x]]]
  BY <1>3, <1>7
<1> HIDE DEF l1
<1>10. l1.m_head = t[1] /\ l1.m_next[Fake] = l1.m_head
  <2>1. CASE n = 0
    BY <1>1, <1>2, <1>3, <1>5, <1>7, <1>9, <2>1
  <2>2. CASE n # 0
    <3>1. 1 \in 1..n /\ n \in 1..n
      BY <1>1, <2>2
    <3>2. l.m_head = s[1] /\ s[1] # Fake /\ t[1] = s[1] /\ last = s[n] /\ last # Fake
      BY <1>1, <1>2, <1>3, <1>5, <2>2, <3>1
    <3> QED BY <1>1, <1>3, <1>7, <1>9, <3>2
  <2> QED BY <2>1, <2>2
<1>11. ASSUME NEW i \in 1..n+1 PROVE l1.m_next[t[i]] = IF i = n + 1 THEN Fake ELSE t[i+1]
  <2>1. CASE i = n + 1
    BY <1>2, <1>9, <2>1
  <2>2. CASE i \in 1..n
    <3>1. t[i] = s[i] /\ s[i] \in B /\ s[i] # b /\ i # n + 1
      BY <1>1, <1>2, <1>3, <1>6, <2>2
    <3>2. l1.m_next[s[i]] = IF s[i] = last THEN b ELSE l.m_next[s[i]]
      BY <1>9, <3>1
    <3>3. CASE i = n
      <4>1. s[i] = last
        BY <1>1, <1>5, <2>2, <3>3
      <4> QED BY <1>2, <3>1, <3>2, <3>3, <4>1
    <3>4. CASE i # n
      <4>1. n \in 1..n /\ i + 1 \in 1..n
        BY <1>1, <2>2, <3>4
      <4>2. last = s[n]
        BY <1>1, <1>5, <4>1
      <4>3. s[i] # last
        BY <1>1, <2>2, <3>4, <4>1, <4>2 DEF Distinct, n
      <4>4. l.m_next[s[i]] = s[i+1]
        BY <1>1, <2>2, <3>4
      <4> QED BY <1>2, <3>1, <3>2, <4>1, <4>3, <4>4
    <3> QED BY <3>3, <3>4
  <2> QED BY <1>1, <2>1, <2>2
<1>12. ASSUME NEW i \in 1..n+1 PROVE l1.m_prev[t[i]] = IF i = 1 THEN Fake ELSE t[i-1]
  <2>1. CASE i = n + 1
    <3>1. l1.m_prev[t[i]] = last
      BY <1>2, <1>9, <2>1
    <3>2. CASE n = 0
      BY <1>1, <1>5, <2>1, <3>1, <3>2
    <3>3. CASE n # 0
      <4>1. i # 1 /\ i - 1 = n /\ n \in 1..n
        BY <1>1, <2>1, <3>3
      <4> QED BY <1>1, <1>2, <1>5, <3>1, <3>3, <4>1
    <3> QED BY <3>2, <3>3
  <2>2. CASE i \in 1..n
    <3>1. t[i] = s[i] /\ s[i] \in B /\ s[i] # b /\ s[i] # Fake
      BY <1>2, <1>3, <1>6, <2>2
    <3>2. l1.m_prev[t[i]] = IF i = 1 THEN Fake ELSE s[i-1]
      BY <1>1, <1>9, <2>2, <3>1
    <3>3. i # 1 => i - 1 \in 1..n
      BY <1>1, <2>2
    <3> QED BY <1>2, <3>2, <3>3
  <2> QED BY <1>1, <2>1, <2>2
<1>13. t # <<>> /\ l1.m_prev[Fake] = t[n+1]
  BY <1>1, <1>2, <1>9, EmptySeq
<1>14. IsListOf(l1, t)
  BY <1>2, <1>8, <1>9, <1>10, <1>11, <1>12, <1>13 DEF IsListOf, B
<1> QED BY <1>4, <1>14 DEF t

\* What is left of the list l of the blocks s when the first i of them are gone.
FirstLeft(s, i) == IF i < Len(s) THEN s[i+1] ELSE Fake
AreLeft(s, i) == {s[j] : j \in i+1..Len(s)} \cup {Fake}
Left(l, s, i) ==
    [m_head |-> FirstLeft(s, i),
     m_next |-> [x \in AreLeft(s, i) |-> IF x = Fake THEN FirstLeft(s, i) ELSE l.m_next[x]],
     m_prev |-> [x \in AreLeft(s, i) |-> IF x = FirstLeft(s, i) THEN Fake ELSE l.m_prev[x]]]

LEMMA AllLeft ==
    ASSUME NEW l, NEW s, IsListOf(l, s)
    PROVE  Left(l, s, 0) = l
<1>1. /\ s \in Seq(Blocks) /\ Len(s) \in Nat
      /\ l.m_head = IF s = <<>> THEN Fake ELSE s[1]
      /\ l.m_next[Fake] = l.m_head
      /\ l.m_prev[Fake] = IF s = <<>> THEN Fake ELSE s[Len(s)]
      /\ \A i \in 1..Len(s) : l.m_prev[s[i]] = IF i = 1 THEN Fake ELSE s[i-1]
      /\ l = [m_head |-> l.m_head,
              m_next |-> [x \in ToSet(s) \cup {Fake} |-> l.m_next[x]],
              m_prev |-> [x \in ToSet(s) \cup {Fake} |-> l.m_prev[x]]]
  BY DEF IsListOf
<1>2. FirstLeft(s, 0) = l.m_head
  BY <1>1, EmptySeq DEF FirstLeft
<1>3. AreLeft(s, 0) = ToSet(s) \cup {Fake}
  <2>1. \A x : x \in ToSet(s) <=> \E i \in 1..Len(s) : x = s[i]
    BY <1>1, Members
  <2>2. 0 + 1 = 1
    OBVIOUS
  <2> QED BY <2>1, <2>2 DEF AreLeft
<1>4. l.m_prev[l.m_head] = Fake
  <2>1. CASE s = <<>>
    BY <1>1, <2>1
  <2>2. CASE s # <<>>
    <3>1. 1 \in 1..Len(s)
      BY <1>1, <2>2, EmptySeq
    <3> QED BY <1>1, <2>2, <3>1
  <2> QED BY <2>1, <2>2
<1>5. \A x : /\ (IF x = Fake THEN FirstLeft(s, 0) ELSE l.m_next[x]) = l.m_next[x]
             /\ (IF x = FirstLeft(s, 0) THEN Fake ELSE l.m_prev[x]) = l.m_prev[x]
  BY <1>1, <1>2, <1>4
<1>6. Left(l, s, 0) = [m_head |-> l.m_head,
                       m_next |-> [x \in ToSet(s) \cup {Fake} |-> l.m_next[x]],
                       m_prev |-> [x \in ToSet(s) \cup {Fake} |-> l.m_prev[x]]]
  BY <1>2, <1>3, <1>5 DEF Left
<1> QED BY <1>1, <1>6

LEMMA NoneLeft ==
    ASSUME NEW l, NEW s \in Seq(Blocks)
    PROVE  Left(l, s, Len(s)) = NoBlocks
<1>1. FirstLeft(s, Len(s)) = Fake
  BY DEF FirstLeft
<1>2. AreLeft(s, Len(s)) = {Fake}
  <2>1. \A j \in Len(s)+1..Len(s) : FALSE
    OBVIOUS
  <2> QED BY <2>1 DEF AreLeft
<1> QED BY <1>1, <1>2 DEF Left, NoBlocks

\* The first block is taken out from between the fake one and the second.
LEMMA OneLeft ==
    ASSUME NEW l, NEW s, IsListOf(l, s), NEW i \in 1..Len(s)
    PROVE  DeallocateBlock(Left(l, s, i-1), s[i]) = Left(l, s, i)
<1> DEFINE b == s[i]
           l0 == Left(l, s, i-1)
           A0 == AreLeft(s, i-1)
           A == AreLeft(s, i)
           h == FirstLeft(s, i)
<1>1. /\ s \in Seq(Blocks) /\ Len(s) \in Nat /\ Distinct(s)
      /\ \A k \in 1..Len(s) : l.m_next[s[k]] = IF k = Len(s) THEN Fake ELSE s[k+1]
  BY DEF IsListOf
<1>2. b \in Blocks /\ b # Fake
  BY <1>1, AddressesAssumption
<1>3. FirstLeft(s, i-1) = b
  BY <1>1 DEF FirstLeft
<1>4. l.m_next[b] = h
  BY <1>1 DEF FirstLeft
<1>5. A = A0 \ {b} /\ b \in A0 /\ Fake \in A /\ Fake \in A0
  <2>1. i - 1 + 1 = i
    BY <1>1
  <2>2. \A x : x \in A0 <=> x = Fake \/ \E j \in i..Len(s) : x = s[j]
    BY <2>1 DEF AreLeft
  <2>3. \A x : x \in A <=> x = Fake \/ \E j \in i+1..Len(s) : x = s[j]
    BY DEF AreLeft
  <2>4. \A j \in i+1..Len(s) : j \in i..Len(s) /\ s[j] # b
    BY <1>1 DEF Distinct
  <2>5. \A j \in i..Len(s) : j = i \/ j \in i+1..Len(s)
    BY <1>1
  <2>6. i \in i..Len(s)
    BY <1>1
  <2> HIDE DEF A, A0
  <2>7. b = s[i]
    OBVIOUS
  <2> HIDE DEF b
  <2>8. ASSUME NEW x PROVE x \in A <=> x \in A0 \ {b}
    BY <1>2, <2>2, <2>3, <2>4, <2>5, <2>7
  <2> QED BY <2>2, <2>3, <2>6, <2>7, <2>8
<1>6. /\ l0.m_head = b /\ DOMAIN l0.m_next = A0
      /\ l0.m_prev[b] = Fake /\ l0.m_next[b] = h
      /\ \A x \in A : l0.m_next[x] = IF x = Fake THEN b ELSE l.m_next[x]
      /\ \A x \in A : l0.m_prev[x] = l.m_prev[x]
  <2> HIDE DEF A, A0, b, h
  <2>1. l0 = [m_head |-> b,
              m_next |-> [x \in A0 |-> IF x = Fake THEN b ELSE l.m_next[x]],
              m_prev |-> [x \in A0 |-> IF x = b THEN Fake ELSE l.m_prev[x]]]
    BY <1>3 DEF Left, A0
  <2> HIDE DEF l0
  <2> QED BY <1>2, <1>4, <1>5, <2>1
<1> HIDE DEF A, A0, b, h, l0
<1>7. DeallocateBlock(l0, b)
         = [m_head |-> h,
            m_next |-> [x \in A |-> IF x = Fake THEN h ELSE l0.m_next[x]],
            m_prev |-> [x \in A |-> IF x = h THEN Fake ELSE l0.m_prev[x]]]
  BY <1>5, <1>6 DEF DeallocateBlock
<1>8. [x \in A |-> IF x = Fake THEN h ELSE l0.m_next[x]]
         = [x \in A |-> IF x = Fake THEN h ELSE l.m_next[x]]
  BY <1>6
<1>9. [x \in A |-> IF x = h THEN Fake ELSE l0.m_prev[x]]
         = [x \in A |-> IF x = h THEN Fake ELSE l.m_prev[x]]
  BY <1>6
<1>10. Left(l, s, i) = [m_head |-> h,
            m_next |-> [x \in A |-> IF x = Fake THEN h ELSE l.m_next[x]],
            m_prev |-> [x \in A |-> IF x = h THEN Fake ELSE l.m_prev[x]]]
  BY DEF Left, A, h
<1> QED BY <1>7, <1>8, <1>9, <1>10 DEF l0, b

\* ~pool_allocator leaves an empty list: the one to go is the first each time.
LEMMA DestroyEmpties ==
    ASSUME BlocksInv, DestroyPool
    PROVE  m_alloc' = NoBlocks /\ chunk' = <<>>
<1> DEFINE s == Forward(m_alloc)
           l == m_alloc
           n == Len(s)
           Eq(g) == g = [i \in 0..n |-> IF i = 0 THEN l ELSE DeallocateBlock(g[i-1], s[i])]
           without == CHOOSE g : Eq(g)
           w == [i \in 0..n |-> Left(l, s, i)]
<1>1. m_alloc' = without[n] /\ chunk' = <<>>
  BY DEF DestroyPool
<1>2. IsListOf(l, s) /\ s \in Seq(Blocks) /\ n \in Nat
  BY DEF BlocksInv, IsListOf
<1> HIDE DEF s, l
<1>3. Eq(w)
  <2>1. ASSUME NEW i \in 0..n
        PROVE  Left(l, s, i) = IF i = 0 THEN l ELSE DeallocateBlock(w[i-1], s[i])
    <3>1. CASE i = 0
      BY <1>2, <3>1, AllLeft
    <3>2. CASE i # 0
      <4>1. i \in 1..n /\ i - 1 \in 0..n
        BY <1>2, <3>2
      <4>2. w[i-1] = Left(l, s, i-1)
        BY <4>1
      <4> QED BY <1>2, <3>2, <4>1, <4>2, OneLeft
    <3> QED BY <3>1, <3>2
  <2> QED BY <2>1
<1>4. Eq(without)
  <2> HIDE DEF Eq, w
  <2> QED BY <1>3
<1>5. without[n] = w[n]
  <2> DEFINE T == {i \in 0..n : without[i] # w[i]}
  <2>1. \A i \in 0..n : without[i] = IF i = 0 THEN l ELSE DeallocateBlock(without[i-1], s[i])
    <3> HIDE DEF without
    <3> QED BY <1>4
  <2>2. \A i \in 0..n : w[i] = IF i = 0 THEN l ELSE DeallocateBlock(w[i-1], s[i])
    <3> HIDE DEF w
    <3> QED BY <1>3
  <2> HIDE DEF without, w, Eq
  <2>3. CASE T # {}
    <3>1. T \in SUBSET Nat
      OBVIOUS
    <3> HIDE DEF T
    <3>2. PICK i \in T : \A j \in T : i <= j
      BY <2>3, <3>1, LeastNumber
    <3>3. i \in 0..n /\ without[i] # w[i]
      BY <3>2 DEF T
    <3>4. i # 0
      BY <2>1, <2>2, <3>3
    <3>5. i - 1 \in 0..n /\ i - 1 \notin T
      BY <1>2, <3>2, <3>3, <3>4
    <3>6. without[i-1] = w[i-1]
      BY <3>5 DEF T
    <3> QED BY <2>1, <2>2, <3>3, <3>4, <3>6
  <2>4. CASE T = {}
    <3>1. n \in 0..n
      BY <1>2
    <3> QED BY <2>4, <3>1
  <2> QED BY <2>3, <2>4
<1>6. w[n] = NoBlocks
  <2>1. n \in 0..n
    BY <1>2
  <2>2. w[n] = Left(l, s, n)
    BY <2>1
  <2> QED BY <1>2, <2>2, NoneLeft
<1> HIDE DEF without, w, n
<1> QED BY <1>1, <1>5, <1>6

LEMMA BlocksInvInit == ASSUME Init PROVE BlocksInv
<1>1. m_alloc = NoBlocks /\ chunk = <<>>
  BY DEF Init, PoolInit
<1>2. Forward(NoBlocks) = <<>> /\ IsListOf(NoBlocks, <<>>)
  BY EmptyList, ListWalks
<1>3. ToSet(<<>>) = {} /\ DOMAIN <<>> = {}
  BY EmptyMembers
<1> QED BY <1>1, <1>2, <1>3 DEF BlocksInv

LEMMA BlocksKept ==
    ASSUME BlocksInv, UNCHANGED <<m_alloc, chunk>>
    PROVE  BlocksInv'
BY DEF BlocksInv

LEMMA CreateBlocks ==
    ASSUME BlocksInv, NEW ptr, PushFront(ptr)
    PROVE  BlocksInv'
<1>1. PICK p \in Cells : Create(p, ptr)
  BY DEF PushFront
<1>2. CASE TakeFree(p, ptr)
  BY <1>2, BlocksKept DEF TakeFree
<1>3. CASE \E b \in Blocks : TakeChunk(b, p, ptr)
  <2>1. PICK b \in Blocks : TakeChunk(b, p, ptr)
    BY <1>3
  <2>2. m_alloc' = AllocateBlock(m_alloc, b) /\ b \notin DOMAIN chunk
        /\ DOMAIN chunk' = DOMAIN chunk \cup {b}
    BY <2>1 DEF TakeChunk
  <2> DEFINE s == Forward(m_alloc)
             l1 == AllocateBlock(m_alloc, b)
  <2>3. IsListOf(m_alloc, s) /\ ToSet(s) = DOMAIN chunk /\ s \in Seq(Blocks)
    BY DEF BlocksInv, IsListOf
  <2> HIDE DEF s
  <2>4. IsListOf(l1, Append(s, b))
    BY <2>2, <2>3, BlockAppended
  <2>5. ToSet(Append(s, b)) = DOMAIN chunk \cup {b}
    BY <2>3, Appended
  <2> HIDE DEF l1
  <2>6. Forward(l1) = Append(s, b)
    BY <2>4, ListWalks
  <2>7. IsListOf(l1, Forward(l1)) /\ ToSet(Forward(l1)) = DOMAIN chunk'
    BY <2>2, <2>4, <2>5, <2>6
  <2>8. m_alloc' = l1
    BY <2>2 DEF l1
  <2> QED BY <2>7, <2>8 DEF BlocksInv
<1> QED BY <1>1, <1>2, <1>3 DEF Create

LEMMA BlocksInvNext == ASSUME BlocksInv, [Next]_vars PROVE BlocksInv'
<1>1. CASE UNCHANGED vars
  BY <1>1, BlocksKept DEF vars, pool
<1>2. CASE RegisterPin
  BY <1>2, CreateBlocks DEF RegisterPin
<1>3. CASE PushPin
  <2>1. CASE IsFull
    BY <1>3, <2>1, CreateBlocks DEF PushPin
  <2>2. CASE ~IsFull
    BY <1>3, <2>2, BlocksKept DEF PushPin, pool
  <2> QED BY <2>1, <2>2
<1>4. CASE DestroyNode \/ FreeNode
  BY <1>4, BlocksKept DEF DestroyNode, LinkFree, FreeNode, PushFree
<1>5. CASE EndThread
  <2>1. m_alloc' = NoBlocks /\ chunk' = <<>>
    BY <1>5, DestroyEmpties DEF EndThread
  <2>2. Forward(NoBlocks) = <<>> /\ IsListOf(NoBlocks, <<>>)
    BY EmptyList, ListWalks
  <2>3. ToSet(<<>>) = {} /\ DOMAIN <<>> = {}
    BY EmptyMembers
  <2> QED BY <2>1, <2>2, <2>3 DEF BlocksInv
<1>6. CASE \/ \E o \in Objects, g \in Guards : ReadHandle(o, g)
           \/ \E o \in Objects : ReadHandleOfCall(o)
           \/ \E g \in Guards : DeregisterPin(g)
           \/ PopPin
           \/ \E g, h \in Guards : Move(g, h)
           \/ \E o \in Objects : New(o) \/ Lose(o)
           \/ Collect
  <2>1. UNCHANGED pool
    BY <1>6 DEF ReadHandle, ReadHandleOfCall, DeregisterPin, PopPin, Move, New, Lose, Collect
  <2> QED BY <2>1, BlocksKept DEF pool
<1> QED BY <1>1, <1>2, <1>3, <1>4, <1>5, <1>6 DEF Next

-----------------------------------------------------------------------------
(* Theorems                                                                *)

LEMMA IInvNext == ASSUME IInv, [Next]_vars PROVE IInv'
<1>1. CASE UNCHANGED vars
  <2>1. UNCHANGED <<pool, set, guard, nested, pc, program, failed, repeats>>
    BY <1>1 DEF vars
  <2>2. Leaving' = Leaving /\ PcInv'
    BY <2>1 DEF Leaving, IInv, NodesInv, PcInv
  <2>3. TypeOK' /\ UseInv'
    BY <2>1 DEF IInv, TypeOK, UseInv, Held, Pinned, Called, set, program
  <2> QED BY <2>1, <2>2, <2>3, PinsKept
<1>2. CASE Next
  <2>1. ~failed
    BY <1>2 DEF Next
  <2>2. CASE \E o \in Objects, g \in Guards : ReadHandle(o, g)
    BY <2>2, ReadHandleStep
  <2>3. CASE \E o \in Objects : ReadHandleOfCall(o)
    BY <2>3, ReadHandleOfCallStep
  <2>4. CASE RegisterPin
    BY <2>1, <2>4, RegisterPinStep
  <2>5. CASE PushPin
    BY <2>1, <2>5, PushPinStep
  <2>6. CASE \E g \in Guards : DeregisterPin(g)
    BY <2>1, <2>6, DeregisterPinStep
  <2>7. CASE PopPin
    BY <2>1, <2>7, PopPinStep
  <2>8. CASE DestroyNode
    BY <2>1, <2>8, DestroyNodeStep
  <2>9. CASE FreeNode
    BY <2>1, <2>9, FreeNodeStep
  <2>10. CASE \E g, h \in Guards : Move(g, h)
    BY <2>1, <2>10, MoveStep
  <2>11. CASE EndThread
    BY <2>1, <2>11, EndThreadStep
  <2>12. CASE \E o \in Objects : New(o) \/ Lose(o)
    BY <2>12, NewStep, LoseStep
  <2>13. CASE Collect
    BY <2>1, <2>13, CollectStep
  <2> QED BY <1>2, <2>2, <2>3, <2>4, <2>5, <2>6, <2>7, <2>8, <2>9, <2>10, <2>11, <2>12, <2>13
          DEF Next
<1> QED BY <1>1, <1>2

LEMMA IInvHolds == Spec => [](IInv /\ BlocksInv)
<1>1. Init => IInv /\ BlocksInv
  BY IInvInit, BlocksInvInit
<1>2. (IInv /\ BlocksInv) /\ [Next]_vars => (IInv /\ BlocksInv)'
  BY IInvNext, BlocksInvNext
<1> QED BY <1>1, <1>2, PTL DEF Spec

\* A collection frees nothing a guard of the thread points to, wherever between
\* two of its stores the thread was stopped.
THEOREM PinsKeepLive == Spec => []PinnedStaysLive
<1>1. IInv => PinnedStaysLive
  BY DEF IInv, UseInv, PinnedStaysLive
<1> QED BY <1>1, IInvHolds, PTL

\* register_pin, push_pin and their ends leave one pin for each guard, whether in
\* the list or on the stack.
THEOREM PinsAreExact == Spec => []PinsExact
<1>1. IInv => PinsExact
  BY DEF IInv
<1> QED BY <1>1, IInvHolds, PTL

\* The pin that ~pin_guard and ~stack_pin_guard look for is there, but for calls
\* nested beyond the capacity of the stack on an object that is on it.
THEOREM PinsAreFound == Spec => []FailsOnlyOnRepeats
<1>1. IInv => FailsOnlyOnRepeats
  BY DEF IInv
<1> QED BY <1>1, IInvHolds, PTL

LEMMA DistinctIsInjective ==
    ASSUME NEW S, NEW s \in Seq(S), Distinct(s)
    PROVE  IsInjective(s)
<1>1. DOMAIN s = 1..Len(s)
  OBVIOUS
<1> QED BY <1>1 DEF Distinct, IsInjective

\* What is left of the chunks is all but their first cells.
LEMMA FirstCellsGiven ==
    ASSUME NEW S, NEW n \in Nat \ {0}
    PROVE  (S \X (0..n-1)) \ UNION {{b} \X (1..n-1) : b \in S} = FirstCells(S)
<1>1. ASSUME NEW c, c \in FirstCells(S)
      PROVE  c \in S \X (0..n-1) /\ \A b \in S : c \notin {b} \X (1..n-1)
  <2>1. PICK b \in S : c = <<b, 0>>
    BY <1>1 DEF FirstCells
  <2> QED BY <2>1
<1>2. ASSUME NEW c, c \in S \X (0..n-1), \A b \in S : c \notin {b} \X (1..n-1)
      PROVE  c \in FirstCells(S)
  <2>1. PICK b \in S : \E k \in 0..n-1 : c = <<b, k>>
    BY <1>2
  <2>2. PICK k \in 0..n-1 : c = <<b, k>>
    BY <2>1
  <2>3. k = 0
    <3>1. c \notin {b} \X (1..n-1)
      BY <1>2
    <3> QED BY <2>2, <3>1
  <2> QED BY <2>2, <2>3 DEF FirstCells
<1> DEFINE A == S \X (0..n-1)
           R == {{b} \X (1..n-1) : b \in S}
<1>3. \A c : (\E r \in R : c \in r) <=> \E b \in S : c \in {b} \X (1..n-1)
  OBVIOUS
<1>4. \A c : c \in A \ UNION R <=> c \in FirstCells(S)
  <2> TAKE c
  <2>1. c \in UNION R <=> \E b \in S : c \in {b} \X (1..n-1)
    BY <1>3
  <2> HIDE DEF R
  <2> QED BY <1>1, <1>2, <2>1
<1> HIDE DEF A, R
<1>5. A \ UNION R = FirstCells(S)
  BY <1>4
<1> QED BY <1>5 DEF A, R

\* The list of pins and the free list of the pool have no node twice and none in
\* common, they have the cells the chunks gave, and the blocks of the chunks are in
\* the list the allocator keeps, which reads the same in both directions.
THEOREM NodesAreSound == Spec => []NodesSound
<1>1. IInv /\ BlocksInv => NodesSound
  <2> SUFFICES ASSUME IInv, BlocksInv PROVE NodesSound
    OBVIOUS
  <2>1. TypeOK /\ IsInjective(Nodes) /\ ToSet(Nodes) \cap Leaving = {}
    BY NodesFinite, DistinctIsInjective DEF IInv, NodesInv, FreeInv
  <2>2. BlocksSound
    <3> DEFINE s == Forward(m_alloc)
    <3>1. IsListOf(m_alloc, s) /\ ToSet(s) = DOMAIN chunk /\ s \in Seq(Blocks) /\ Distinct(s)
      BY DEF BlocksInv, IsListOf
    <3>2. Forward(m_alloc) = s /\ Backward(m_alloc) = Reverse(s)
      <4> HIDE DEF s
      <4> QED BY <3>1, ListWalks
    <3> HIDE DEF s
    <3>3. Reverse(Reverse(s)) = s /\ IsInjective(s)
      BY <3>1, ReverseTwice, DistinctIsInjective
    <3> QED BY <3>1, <3>2, <3>3 DEF BlocksSound
  <2>3. CellsSound(ToSet(Nodes) \cup Leaving)
    <3>1. IsInjective(FreeNodes)
      <4>1. FreeNodes \in Seq(DOMAIN word \ {Null}) /\ Distinct(FreeNodes)
        BY DEF IInv, NodesInv, FreeInv, Path
      <4> QED BY <4>1, DistinctIsInjective
    <3>2. \A b \in DOMAIN chunk : ChunkCells(b) = {b} \X (1..ALLOC_CNT-1)
      BY DEF ChunkCells, IInv, NodesInv, FreeInv
    <3>3. {ChunkCells(b) : b \in DOMAIN chunk}
             = {{b} \X (1..ALLOC_CNT-1) : b \in DOMAIN chunk}
      BY <3>2
    <3>4. ((DOMAIN chunk) \X (0..ALLOC_CNT-1))
              \ UNION {{b} \X (1..ALLOC_CNT-1) : b \in DOMAIN chunk} = FirstCells(DOMAIN chunk)
      BY AllocCntAssumption, FirstCellsGiven
    <3>5. ((DOMAIN chunk) \X (0..ALLOC_CNT-1)) \ UNION {ChunkCells(b) : b \in DOMAIN chunk}
             = FirstCells(DOMAIN chunk)
      BY <3>3, <3>4
    <3>6. /\ ToSet(FreeNodes) \cap (ToSet(Nodes) \cup Leaving) = {}
          /\ (ToSet(FreeNodes) \cup ToSet(Nodes)) \cup Leaving = FirstCells(DOMAIN chunk)
          /\ in_use = Cardinality(ToSet(Nodes) \cup Leaving)
      BY DEF IInv, NodesInv, FreeInv
    <3>7. ToSet(FreeNodes) \cup (ToSet(Nodes) \cup Leaving) = FirstCells(DOMAIN chunk)
      BY <3>6
    <3> QED BY <3>1, <3>5, <3>6, <3>7 DEF CellsSound
  <2> QED BY <2>1, <2>2, <2>3 DEF NodesSound, PoolSound
<1> QED BY <1>1, IInvHolds, PTL

=============================================================================
