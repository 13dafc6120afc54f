----------------------- MODULE StaticThreadPoolProofs -----------------------
(***************************************************************************)
(* Proofs about StaticThreadPool, for pools, calls and numbers of calls of *)
(* every size: the shares partition the tasks of a call and run executes   *)
(* each of them once before it returns.                                    *)
(*                                                                         *)
(* The argument is a count.  With c tasks and n workers a worker's share is*)
(* c \div n or one more, so that the workers of any set take Portion(S)    *)
(* tasks together, which needs no sum.  The queue holds the portion of the *)
(* workers that have not taken theirs, and m_complete_tasks_cnt and the    *)
(* portion of those that have not reported add up to c.                    *)
(***************************************************************************)
EXTENDS StaticThreadPool, FiniteSetTheorems, TLAPS

\* The tasks that the workers of S take together, when n workers share c tasks.
ShareOf(c, n, w) == c \div n + (IF w < c % n THEN 1 ELSE 0)
Portion(c, n, S) == (c \div n) * Cardinality(S) + Cardinality(S \cap 0..(c % n) - 1)

\* Workers that have their share of the current call still to take: a worker that
\* is not back from the last call takes none.  And those that have it to report.
Untaken == In("ready") \cup (caught \cap (In("work") \cup In("complete")))
Unreported == Untaken \cup In("work")

Hands ==
    /\ \A w \in Workers :
         /\ pc[w] # "work" => worker_tasks[w] = <<>>
         /\ pc[w] = "work" => Len(worker_tasks[w]) <= share[w]
    /\ mpc # "inline" => todo = <<>>

Phases ==
    /\ mpc = "inline" => N = 0
    /\ mpc = "run" => N > 0 /\ m_tasks_ready
    /\ m_tasks_ready => mpc = "run"
    /\ m_done => mpc \in {"stop", "gone"}
    /\ In("gone") # {} => m_done
    /\ m_threads_exit_cnt = Cardinality(In("gone"))

\* Between calls, and when the count says that the call is complete, nobody has
\* a task, and who has still to report reports nothing.
Quiet ==
    mpc # "run" \/ Complete =>
        /\ m_tasks = <<>>
        /\ \A w \in Workers :
              worker_tasks[w] = <<>> /\ (pc[w] = "work" => share[w] = 0)

\* During a call the queue holds the shares that are not taken, and the count
\* and the shares not reported add up to the tasks of the call.
Running ==
    mpc = "run" /\ ~Complete =>
        /\ Len(m_tasks) = Portion(m_tasks_cnt, N, Untaken)
        /\ m_complete_tasks_cnt + Portion(m_tasks_cnt, N, Unreported) = m_tasks_cnt
        /\ caught \cap In("ready") = {}
        /\ \A w \in In("work") :
             share[w] = IF w \in caught THEN 0 ELSE ShareOf(m_tasks_cnt, N, w)

IInv == TypeOK /\ EachTaskOnce /\ Hands /\ Phases /\ Quiet /\ Running



\* Facts about the sequences that hold tasks.
LEMMA SeqElements ==
    ASSUME NEW s \in Seq(Tasks), NEW x
    PROVE  x \in ToSet(s) <=> \E i \in 1..Len(s) : s[i] = x
BY DEF ToSet

LEMMA EmptyLen == ASSUME NEW s \in Seq(Tasks) PROVE (s = <<>>) <=> (Len(s) = 0)
OBVIOUS

LEMMA NoTasksSeq ==
    ASSUME NEW s \in Seq(Tasks), Len(s) = 0
    PROVE  ToSet(s) = {} /\ IsInjective(s)
<1>1. ASSUME NEW x PROVE x \in ToSet(s) <=> \E i \in 1..Len(s) : s[i] = x
  BY SeqElements
<1>2. ToSet(s) = {}
  BY <1>1
<1>3. IsInjective(s)
  BY DEF IsInjective
<1>4. QED BY <1>2, <1>3

\* The tasks of a call, in the order in which they are appended.
LEMMA CallSeq ==
    ASSUME NEW k \in 0..MaxTasks
    PROVE  LET s == [i \in 1..k |-> i] IN
             /\ s \in Seq(Tasks)
             /\ Len(s) = k
             /\ IsInjective(s)
             /\ ToSet(s) = 1..k
             /\ <<>> \o s = s
<1> DEFINE s == [i \in 1..k |-> i]
<1>1. s \in Seq(Tasks) /\ Len(s) = k
  BY MaxTasksAssumption DEF Tasks
<1>2. IsInjective(s) /\ ToSet(s) = 1..k
  BY MaxTasksAssumption DEF IsInjective, ToSet
<1>3. <<>> \o s = s
  BY <1>1
<1> QED BY <1>1, <1>2, <1>3

\* One task less.
LEMMA TailSeq ==
    ASSUME NEW s \in Seq(Tasks), s # <<>>, IsInjective(s)
    PROVE  /\ Tail(s) \in Seq(Tasks)
           /\ Len(Tail(s)) = Len(s) - 1
           /\ IsInjective(Tail(s))
           /\ Head(s) \in ToSet(s)
           /\ ToSet(Tail(s)) = ToSet(s) \ {Head(s)}
<1>1. /\ Tail(s) \in Seq(Tasks) /\ Len(Tail(s)) = Len(s) - 1 /\ Len(s) \in Nat \ {0}
      /\ Head(s) = s[1]
      /\ \A i \in 1..Len(s)-1 : Tail(s)[i] = s[i+1]
  OBVIOUS
<1>2. \A i, j \in 1..Len(s) : s[i] = s[j] => i = j
  BY DEF IsInjective
<1>3. IsInjective(Tail(s))
  BY <1>1, <1>2 DEF IsInjective
<1>4. Head(s) \in ToSet(s)
  BY <1>1, SeqElements
<1>5. ASSUME NEW x PROVE x \in ToSet(Tail(s)) <=> x \in ToSet(s) \ {Head(s)}
  <2>0. x \in ToSet(Tail(s)) <=> \E i \in 1..Len(Tail(s)) : Tail(s)[i] = x
    BY <1>1, SeqElements
  <2>1. x \in ToSet(Tail(s)) <=> \E i \in 1..Len(s)-1 : s[i+1] = x
    BY <2>0, <1>1
  <2>2. x \in ToSet(s) <=> \E i \in 1..Len(s) : s[i] = x
    BY SeqElements
  <2>3. ASSUME x \in ToSet(s) \ {Head(s)} PROVE \E i \in 1..Len(s)-1 : s[i+1] = x
    <3>1. PICK i \in 1..Len(s) : s[i] = x
      BY <2>2, <2>3
    <3>2. i # 1
      BY <3>1, <2>3, <1>1
    <3>3. (i - 1) \in 1..Len(s)-1 /\ s[(i-1)+1] = x
      BY <3>1, <3>2, <1>1
    <3> QED BY <3>3
  <2>4. ASSUME NEW i \in 1..Len(s)-1, s[i+1] = x PROVE x \in ToSet(s) \ {Head(s)}
    BY <2>4, <2>2, <1>1, <1>2
  <2> QED BY <2>1, <2>3, <2>4
<1> QED BY <1>1, <1>3, <1>4, <1>5

\* The last n tasks are cut off and reversed.
LEMMA CutSeq ==
    ASSUME NEW s \in Seq(Tasks), IsInjective(s), NEW n \in 0..Len(s)
    PROVE  LET rest == Len(s) - n
               p == SubSeq(s, 1, rest)
               t == Reverse(SubSeq(s, rest + 1, Len(s)))
           IN  /\ p \in Seq(Tasks) /\ t \in Seq(Tasks)
               /\ Len(p) = rest /\ Len(t) = n
               /\ IsInjective(p) /\ IsInjective(t)
               /\ ToSet(p) \cap ToSet(t) = {}
               /\ ToSet(p) \cup ToSet(t) = ToSet(s)
<1> DEFINE rest == Len(s) - n
           p == SubSeq(s, 1, rest)
           u == SubSeq(s, rest + 1, Len(s))
           t == Reverse(u)
<1>0. \A i, j \in 1..Len(s) : s[i] = s[j] => i = j
  BY DEF IsInjective
<1>1. p \in Seq(Tasks) /\ Len(p) = rest /\ \A i \in 1..rest : p[i] = s[i]
  OBVIOUS
<1>2. u \in Seq(Tasks) /\ Len(u) = n /\ \A i \in 1..n : u[i] = s[rest + i]
  OBVIOUS
<1> HIDE DEF u
<1>3. t \in Seq(Tasks) /\ Len(t) = n /\ \A i \in 1..n : t[i] = s[Len(s) - i + 1]
  <2>1. t = [i \in 1..n |-> u[n - i + 1]]
    BY <1>2 DEF Reverse
  <2>2. \A i \in 1..n : n - i + 1 \in 1..n /\ rest + (n - i + 1) = Len(s) - i + 1
    OBVIOUS
  <2>3. \A i \in 1..n : u[n - i + 1] = s[Len(s) - i + 1] /\ u[n - i + 1] \in Tasks
    BY <2>2, <1>2
  <2>4. t \in [1..n -> Tasks] /\ \A i \in 1..n : t[i] = s[Len(s) - i + 1]
    BY <2>1, <2>3
  <2> QED BY <2>1, <2>4
<1> HIDE DEF p, t
<1>4. IsInjective(p)
  BY <1>0, <1>1 DEF IsInjective
<1>5. IsInjective(t)
  <2> SUFFICES ASSUME NEW i \in 1..n, NEW j \in 1..n, t[i] = t[j] PROVE i = j
    BY <1>3 DEF IsInjective
  <2>0. t[i] = s[Len(s) - i + 1] /\ t[j] = s[Len(s) - j + 1] /\ Len(s) \in Nat
    BY <1>3
  <2>1. Len(s) - i + 1 \in 1..Len(s) /\ Len(s) - j + 1 \in 1..Len(s)
    OBVIOUS
  <2>2. Len(s) - i + 1 = Len(s) - j + 1
    BY <2>0, <2>1, <1>0
  <2> HIDE DEF rest
  <2> QED BY <2>0, <2>2
<1>6. \A x : x \in ToSet(p) <=> \E i \in 1..rest : s[i] = x
  <2> SUFFICES ASSUME NEW x PROVE x \in ToSet(p) <=> \E i \in 1..rest : s[i] = x
    OBVIOUS
  <2>1. x \in ToSet(p) <=> \E i \in 1..Len(p) : p[i] = x
    BY ONLY <1>1, SeqElements
  <2> QED BY ONLY <1>1, <2>1
<1>7. \A x : x \in ToSet(t) <=> \E i \in rest+1..Len(s) : s[i] = x
  <2> SUFFICES ASSUME NEW x PROVE x \in ToSet(t) <=> \E i \in rest+1..Len(s) : s[i] = x
    OBVIOUS
  <2>0. x \in ToSet(t) <=> \E i \in 1..Len(t) : t[i] = x
    BY <1>3, SeqElements
  <2>1. x \in ToSet(t) <=> \E i \in 1..n : s[Len(s) - i + 1] = x
    BY <2>0, <1>3
  <2>2. ASSUME NEW i \in rest+1..Len(s), s[i] = x PROVE \E j \in 1..n : s[Len(s) - j + 1] = x
    <3>1. Len(s) - i + 1 \in 1..n /\ Len(s) - (Len(s) - i + 1) + 1 = i
      OBVIOUS
    <3> QED BY <3>1, <2>2
  <2>3. \A i \in 1..n : Len(s) - i + 1 \in rest+1..Len(s)
    OBVIOUS
  <2> QED BY <2>1, <2>2, <2>3
<1>8. \A x : x \in ToSet(s) <=> \E i \in 1..Len(s) : s[i] = x
  BY SeqElements
<1>9. ToSet(p) \cap ToSet(t) = {}
  <2> SUFFICES ASSUME NEW x, x \in ToSet(p), x \in ToSet(t) PROVE FALSE
    OBVIOUS
  <2>1. PICK i \in 1..rest : s[i] = x
    BY <1>6
  <2>2. PICK j \in rest+1..Len(s) : s[j] = x
    BY <1>7
  <2> QED BY <2>1, <2>2, <1>0
<1>10. ToSet(p) \cup ToSet(t) = ToSet(s)
  <2>1. 1..Len(s) = (1..rest) \cup (rest+1..Len(s))
    OBVIOUS
  <2> QED BY <2>1, <1>6, <1>7, <1>8
<1> QED BY <1>1, <1>3, <1>4, <1>5, <1>9, <1>10 DEF p, t, u

-----------------------------------------------------------------------------

LEMMA WorkersFinite ==
    ASSUME NEW n \in Nat
    PROVE  /\ IsFiniteSet(0..n-1) /\ Cardinality(0..n-1) = n
           /\ \A S \in SUBSET (0..n-1) : IsFiniteSet(S) /\ Cardinality(S) \in Nat
<1>1. IsFiniteSet(0..n-1) /\ Cardinality(0..n-1) = (n - 1) - 0 + 1
  <2>1. n = 0 \/ (0 \in Int /\ n - 1 \in Int /\ ~(0 > n - 1))
    OBVIOUS
  <2> QED BY <2>1, FS_Interval
<1> DEFINE W == 0..n-1
<1>2. IsFiniteSet(W) /\ Cardinality(W) = n
  BY <1>1
<1> HIDE DEF W
<1>3. \A S \in SUBSET W : IsFiniteSet(S) /\ Cardinality(S) \in Nat
  BY <1>2, FS_Subset, FS_CardinalityType
<1> QED BY <1>2, <1>3 DEF W

\* Tasks left for the workers of S, when each takes its share.
LEMMA PortionNat ==
    ASSUME NEW n \in Nat \ {0}, NEW c \in Nat, NEW S \in SUBSET (0..n-1)
    PROVE  Portion(c, n, S) \in Nat
<1>1. Cardinality(S) \in Nat /\ Cardinality(S \cap 0..(c % n)-1) \in Nat
  BY WorkersFinite
<1>2. c \div n \in Nat
  OBVIOUS
<1> QED BY <1>1, <1>2 DEF Portion

LEMMA ShareNat ==
    ASSUME NEW n \in Nat \ {0}, NEW c \in Nat, NEW w \in 0..n-1
    PROVE  ShareOf(c, n, w) \in Nat
BY DEF ShareOf

\* Taking one worker out of a set takes its share out of the portion.
LEMMA PortionRemove ==
    ASSUME NEW n \in Nat \ {0}, NEW c \in Nat, NEW S \in SUBSET (0..n-1), NEW w \in S
    PROVE  Portion(c, n, S) = Portion(c, n, S \ {w}) + ShareOf(c, n, w)
<1> DEFINE q == c \div n
           R == 0..(c % n)-1
           T == S \ {w}
<1>1. q \in Nat /\ c % n \in Nat
  OBVIOUS
<1>2. Cardinality(S) = Cardinality(T) + 1 /\ Cardinality(T) \in Nat
  <2> DEFINE W == 0..n-1
  <2>1. S \in SUBSET W /\ \A X \in SUBSET W : IsFiniteSet(X) /\ Cardinality(X) \in Nat
    BY WorkersFinite
  <2> HIDE DEF W
  <2> QED BY <2>1, FS_RemoveElement
<1>3. q * Cardinality(S) = q * Cardinality(T) + q
  <2> HIDE DEF q, T
  <2>1. q * (Cardinality(T) + 1) = q * Cardinality(T) + q
    BY <1>1, <1>2
  <2> QED BY <2>1, <1>2
<1>4. (T \cap R) = (S \cap R) \ {w}
  OBVIOUS
<1>5. IsFiniteSet(S \cap R) /\ Cardinality(T \cap R) \in Nat /\ Cardinality(S \cap R) \in Nat
  BY WorkersFinite
<1>6. w \in R <=> w < c % n
  BY <1>1
<1>7. CASE w \in R
  <2>1. Cardinality(S \cap R) = Cardinality(T \cap R) + 1
    <3>1. w \in S \cap R
      BY <1>7
    <3> HIDE DEF R
    <3>2. Cardinality((S \cap R) \ {w}) = Cardinality(S \cap R) - 1
      BY <3>1, <1>5, FS_RemoveElement
    <3> QED BY <3>2, <1>4, <1>5
  <2>2. ShareOf(c, n, w) = q + 1
    BY <1>7, <1>6 DEF ShareOf
  <2> HIDE DEF q, R, T
  <2>3. Portion(c, n, S) = q * Cardinality(S) + Cardinality(S \cap R) /\ Portion(c, n, T) = q * Cardinality(T) + Cardinality(T \cap R)
    BY DEF Portion, q, R
  <2>4. q * Cardinality(T) \in Nat
    BY <1>1, <1>2 DEF q
  <2>5. Portion(c, n, S) = Portion(c, n, T) + ShareOf(c, n, w)
    BY <2>1, <2>2, <2>3, <2>4, <1>2, <1>3, <1>5, <1>1
  <2> QED BY <2>5 DEF T
<1>8. CASE w \notin R
  <2>1. Cardinality(S \cap R) = Cardinality(T \cap R)
    <3>1. S \cap R = T \cap R
      BY <1>8
    <3> HIDE DEF R, T
    <3> QED BY <3>1
  <2>2. ShareOf(c, n, w) = q
    BY <1>8, <1>6, <1>1 DEF ShareOf
  <2> HIDE DEF q, R, T
  <2>3. Portion(c, n, S) = q * Cardinality(S) + Cardinality(S \cap R) /\ Portion(c, n, T) = q * Cardinality(T) + Cardinality(T \cap R)
    BY DEF Portion, q, R
  <2>4. q * Cardinality(T) \in Nat
    BY <1>1, <1>2 DEF q
  <2>5. Portion(c, n, S) = Portion(c, n, T) + ShareOf(c, n, w)
    BY <2>1, <2>2, <2>3, <2>4, <1>2, <1>3, <1>5, <1>1
  <2> QED BY <2>5 DEF T
<1> QED BY <1>7, <1>8

LEMMA PortionSubset ==
    ASSUME NEW n \in Nat \ {0}, NEW c \in Nat,
           NEW T \in SUBSET (0..n-1), NEW S \in SUBSET T
    PROVE  Portion(c, n, S) <= Portion(c, n, T)
<1> DEFINE q == c \div n
           R == 0..(c % n)-1
<1>1. q \in Nat
  OBVIOUS
<1>2. Cardinality(S) <= Cardinality(T) /\ Cardinality(S) \in Nat /\ Cardinality(T) \in Nat
  BY WorkersFinite, FS_Subset
<1>3. /\ Cardinality(S \cap R) <= Cardinality(T \cap R)
      /\ Cardinality(S \cap R) \in Nat /\ Cardinality(T \cap R) \in Nat
  <2>1. S \cap R \in SUBSET (T \cap R) /\ T \cap R \in SUBSET (0..n-1)
    OBVIOUS
  <2> HIDE DEF R
  <2> QED BY <2>1, WorkersFinite, FS_Subset
<1> HIDE DEF q, R
<1>4. q * Cardinality(S) <= q * Cardinality(T) /\ q * Cardinality(S) \in Nat /\ q * Cardinality(T) \in Nat
  BY <1>1, <1>2
<1>5. Portion(c, n, S) = q * Cardinality(S) + Cardinality(S \cap R) /\ Portion(c, n, T) = q * Cardinality(T) + Cardinality(T \cap R)
  BY DEF Portion, q, R
<1> QED BY <1>3, <1>4, <1>5

\* All shares together are the tasks of the call.
LEMMA PortionAll ==
    ASSUME NEW n \in Nat \ {0}, NEW c \in Nat
    PROVE  Portion(c, n, 0..n-1) = c
<1>1. /\ c % n \in 0..n-1 /\ c \div n \in Nat
      /\ c = (c \div n) * n + (c % n)
  OBVIOUS
<1>2. Cardinality(0..n-1) = n
  BY WorkersFinite
<1>3. (0..n-1) \cap 0..(c % n)-1 = 0..(c % n)-1
  BY <1>1
<1>4. Cardinality(0..(c % n)-1) = c % n
  BY <1>1, FS_Interval
<1> QED BY <1>1, <1>2, <1>3, <1>4 DEF Portion

-----------------------------------------------------------------------------

LEMMA Facts ==
    ASSUME TypeOK
    PROVE  /\ N \in Nat /\ m_tasks_cnt \in Nat /\ m_complete_tasks_cnt \in Nat
           /\ Len(m_tasks) \in Nat
           /\ \A w \in Workers : Len(worker_tasks[w]) \in Nat
           /\ Workers = 0..N-1 /\ Main \notin Workers
           /\ \A l \in STRING : In(l) \subseteq Workers
           /\ Untaken \subseteq Workers /\ Unreported \subseteq Workers
           /\ Untaken \subseteq Unreported
BY MaxThreadsAssumption, MaxTasksAssumption
   DEF TypeOK, Workers, Main, In, Untaken, Unreported

\* A worker that finds tasks finds its whole share: the shares not taken are in
\* the queue together.
LEMMA IInvSharesFit == IInv => SharesFit
<1> SUFFICES ASSUME IInv, Ready, NEW w \in In("ready")
             PROVE  TasksPerWorker(w) <= Len(m_tasks)
  BY DEF SharesFit
<1>1. TypeOK /\ Phases /\ Quiet /\ Running
  BY DEF IInv
<1>2. mpc = "run" /\ ~Complete /\ N > 0
  BY <1>1 DEF Phases, Quiet, Ready
<1>3. N \in Nat \ {0} /\ m_tasks_cnt \in Nat /\ Untaken \in SUBSET (0..N-1)
  BY <1>1, <1>2, Facts
<1>4. w \in Untaken /\ w \in 0..N-1
  BY <1>3 DEF Untaken
<1>5. Portion(m_tasks_cnt, N, Untaken)
        = Portion(m_tasks_cnt, N, Untaken \ {w}) + ShareOf(m_tasks_cnt, N, w)
  BY <1>3, <1>4, PortionRemove
<1>6. Untaken \ {w} \in SUBSET (0..N-1)
  BY <1>3
<1>7. Portion(m_tasks_cnt, N, Untaken \ {w}) \in Nat
  BY <1>3, <1>6, PortionNat
<1>8. ShareOf(m_tasks_cnt, N, w) \in Nat
  BY <1>3, <1>4, ShareNat
<1>9. Len(m_tasks) = Portion(m_tasks_cnt, N, Untaken)
  BY <1>1, <1>2 DEF Running
<1>10. ShareOf(m_tasks_cnt, N, w) <= Len(m_tasks)
  BY <1>5, <1>7, <1>8, <1>9
<1> QED BY <1>10 DEF TasksPerWorker, ShareOf

LEMMA InitIInv == Init => IInv
<1> SUFFICES ASSUME Init PROVE IInv
  OBVIOUS
<1>1. N \in 0..MaxThreads /\ N \in Nat
  BY MaxThreadsAssumption DEF Init
<1>2. <<>> \in Seq(Tasks) /\ Len(<<>>) = 0
  OBVIOUS
<1>3. ToSet(<<>>) = {} /\ IsInjective(<<>>)
  BY <1>2, NoTasksSeq
<1>4. In("gone") = {} /\ Cardinality(In("gone")) = 0
  <2>1. In("gone") = {}
    BY DEF In, Init
  <2> QED BY <2>1, FS_EmptySet
<1>5. TypeOK
  <2>1. worker_tasks \in [Workers -> Seq(Tasks)] /\ m_tasks \in Seq(Tasks) /\ todo \in Seq(Tasks)
    BY <1>2 DEF Init
  <2>2. pc \in [Workers -> {"ready", "work", "complete", "gone"}]
    BY DEF Init
  <2>3. share \in [Workers -> 0..MaxTasks] /\ 0 \in 0..MaxTasks /\ 0 \in 0..MaxRuns
    BY MaxTasksAssumption, MaxRunsAssumption DEF Init
  <2>4. /\ m_tasks_cnt \in 0..MaxTasks /\ m_complete_tasks_cnt \in 0..MaxTasks
        /\ m_tasks_ready \in BOOLEAN /\ m_done \in BOOLEAN
        /\ runs \in 0..MaxRuns
        /\ mpc \in {"idle", "run", "inline", "stop", "gone"}
    BY <2>3 DEF Init
  <2>5. m_threads_exit_cnt \in 0..N
    BY <1>1 DEF Init
  <2>6. /\ awake \subseteq Workers \cup {Main}
        /\ left \subseteq Tasks /\ caught \subseteq Workers
    BY DEF Init
  <2> QED BY <1>1, <2>1, <2>2, <2>3, <2>4, <2>5, <2>6 DEF TypeOK
<1>6. EachTaskOnce
  BY <1>3 DEF Init, EachTaskOnce
<1>7. Hands /\ Quiet /\ Running
  BY DEF Init, Hands, Quiet, Running
<1>8. Phases
  BY <1>4 DEF Init, Phases
<1> QED BY <1>5, <1>6, <1>7, <1>8 DEF IInv

\* Who is awake matters to no part of the invariant but the type.
LEMMA AwakeIInv ==
    ASSUME IInv, awake' \subseteq Workers \cup {Main},
           UNCHANGED <<N, pool, pc, worker_tasks, share, mpc, todo, left, caught, runs>>
    PROVE  IInv'
<1>1. TypeOK'
  BY DEF IInv, TypeOK, pool, Workers, Main
<1>2. EachTaskOnce'
  BY DEF IInv, EachTaskOnce, pool, Workers
<1>3. Hands' /\ Phases' /\ Quiet'
  BY DEF IInv, Hands, Phases, Quiet, Complete, pool, Workers, In
<1>4. Running'
  BY DEF IInv, Running, Complete, pool, Workers, In, Untaken, Unreported
<1> QED BY <1>1, <1>2, <1>3, <1>4 DEF IInv

LEMMA RunInlineIInv ==
    ASSUME IInv, NEW k \in 0..MaxTasks, RunInline(k)
    PROVE  IInv'
<1> DEFINE s == [i \in 1..k |-> i]
<1>1. /\ s \in Seq(Tasks) /\ IsInjective(s) /\ ToSet(s) = 1..k
  BY CallSeq
<1> HIDE DEF s
<1>2. todo' = s /\ left' = 1..k /\ mpc' = "inline" /\ N = 0
  BY DEF RunInline, s
<1>3. TypeOK
  BY DEF IInv
<1>4. Workers = {} /\ Workers' = {} /\ m_tasks = <<>>
  <2>1. mpc = "idle" /\ N' = N
    BY DEF RunInline
  <2> QED BY <1>2, <2>1 DEF IInv, Quiet, Workers
<1>5. m_tasks \in Seq(Tasks) /\ Len(m_tasks) = 0
  BY <1>3, <1>4 DEF TypeOK
<1>6. ToSet(m_tasks) = {} /\ IsInjective(m_tasks)
  BY <1>5, NoTasksSeq
<1>7. TypeOK'
  BY <1>1, <1>2, <1>3, MaxTasksAssumption, MaxRunsAssumption
     DEF TypeOK, RunInline, pool, Tasks, Workers, Main
<1>8. EachTaskOnce'
  <2>1. m_tasks' = m_tasks
    BY DEF RunInline, pool
  <2> QED BY <1>1, <1>2, <1>4, <1>6, <2>1 DEF EachTaskOnce
<1>9. Hands' /\ Quiet' /\ Running'
  BY <1>2, <1>4 DEF IInv, Hands, Quiet, Running, RunInline, pool
<1>10. Phases'
  <2>1. In("gone") = {} /\ In("gone")' = {}
    BY <1>4 DEF In
  <2> QED BY <1>2, <2>1 DEF IInv, Phases, RunInline, pool
<1> QED BY <1>7, <1>8, <1>9, <1>10 DEF IInv

LEMMA InlineTaskIInv == ASSUME IInv, InlineTask PROVE IInv'
<1>1. /\ todo \in Seq(Tasks) /\ todo # <<>> /\ IsInjective(todo)
      /\ mpc = "inline" /\ N = 0 /\ N' = N /\ todo' = Tail(todo)
      /\ left' = left \ {Head(todo)}
  BY DEF IInv, TypeOK, EachTaskOnce, Phases, InlineTask
<1>2. /\ todo' \in Seq(Tasks) /\ IsInjective(todo')
      /\ ToSet(todo') = ToSet(todo) \ {Head(todo)}
  BY <1>1, TailSeq
<1>3. Workers = {} /\ Workers' = {} /\ m_tasks = <<>>
  BY <1>1 DEF IInv, Quiet, Workers
<1>4. ToSet(m_tasks) = {} /\ IsInjective(m_tasks)
  <2>1. m_tasks \in Seq(Tasks) /\ Len(m_tasks) = 0
    BY <1>3 DEF IInv, TypeOK
  <2> QED BY <2>1, NoTasksSeq
<1>5. TypeOK'
  BY <1>1, <1>2 DEF IInv, TypeOK, InlineTask, pool, Workers, Main
<1>6. EachTaskOnce'
  <2>1. m_tasks' = m_tasks
    BY DEF InlineTask, pool
  <2>2. left = ToSet(todo)
    BY <1>3, <1>4 DEF IInv, EachTaskOnce
  <2>3. UNION {ToSet(worker_tasks[w])' : w \in Workers'} = {}
    BY <1>3
  <2> QED BY <1>1, <1>2, <1>3, <1>4, <2>1, <2>2, <2>3 DEF EachTaskOnce
<1>7. Hands' /\ Quiet' /\ Running'
  BY <1>1, <1>3 DEF IInv, Hands, Quiet, Running, InlineTask, pool
<1>8. Phases'
  BY <1>1 DEF IInv, Phases, InlineTask, pool, In, Workers
<1> QED BY <1>5, <1>6, <1>7, <1>8 DEF IInv

LEMMA OwnerReturnIInv ==
    ASSUME IInv, InlineReturn \/ StopWake \/ (RunWake /\ Complete)
    PROVE  IInv'
<1> USE DEF InlineReturn, StopWake, RunWake, pool
<1>1. TypeOK'
  BY DEF IInv, TypeOK, Workers, Main
<1>2. EachTaskOnce'
  BY DEF IInv, EachTaskOnce, Workers
<1>3. Hands'
  BY DEF IInv, Hands, Workers
<1>4. Phases'
  <2>1. In("gone")' = In("gone")
    BY DEF Workers, In
  <2>2. m_tasks_ready \in BOOLEAN /\ m_done \in BOOLEAN
    BY DEF IInv, TypeOK
  <2> QED BY <2>1, <2>2 DEF IInv, Phases
<1>5. Quiet' /\ Running'
  BY DEF IInv, Quiet, Running, Workers, Complete
<1> QED BY <1>1, <1>2, <1>3, <1>4, <1>5 DEF IInv

LEMMA StopWorkersIInv == ASSUME IInv, StopWorkers PROVE IInv'
<1> USE DEF StopWorkers
<1>1. TypeOK'
  BY Facts DEF IInv, TypeOK, Workers, Main, In
<1>2. EachTaskOnce'
  BY DEF IInv, EachTaskOnce, Workers
<1>3. Hands'
  BY DEF IInv, Hands, Workers
<1>4. Phases'
  BY DEF IInv, Phases, Workers, In
<1>5. Quiet' /\ Running'
  BY DEF IInv, Quiet, Running, Workers, Complete
<1> QED BY <1>1, <1>2, <1>3, <1>4, <1>5 DEF IInv

\* With nothing in any worker's hands, the queue and the caller hold what is left.
LEMMA NoHands ==
    ASSUME TypeOK, \A w \in Workers : worker_tasks[w] = <<>>
    PROVE  /\ \A w \in Workers : ToSet(worker_tasks[w]) = {} /\ IsInjective(worker_tasks[w])
           /\ UNION {ToSet(worker_tasks[w]) : w \in Workers} = {}
<1>1. ASSUME NEW w \in Workers
      PROVE  ToSet(worker_tasks[w]) = {} /\ IsInjective(worker_tasks[w])
  <2>1. worker_tasks[w] \in Seq(Tasks)
    BY DEF TypeOK
  <2>2. Len(worker_tasks[w]) = 0
    BY <2>1
  <2> QED BY <2>1, <2>2, NoTasksSeq
<1> QED BY <1>1

LEMMA RunPostIInv ==
    ASSUME IInv, NEW k \in 0..MaxTasks, RunPost(k)
    PROVE  IInv'
<1> DEFINE s == [i \in 1..k |-> i]
<1>1. /\ s \in Seq(Tasks) /\ IsInjective(s) /\ ToSet(s) = 1..k /\ Len(s) = k
      /\ <<>> \o s = s
  BY CallSeq
<1> HIDE DEF s
<1>2. TypeOK /\ mpc = "idle" /\ N \in Nat \ {0}
  BY Facts DEF IInv, RunPost
<1>3. /\ m_tasks = <<>>
      /\ \A w \in Workers : worker_tasks[w] = <<>> /\ (pc[w] = "work" => share[w] = 0)
  BY <1>2 DEF IInv, Quiet
<1>4. /\ m_tasks' = s /\ m_tasks_cnt' = k /\ m_complete_tasks_cnt' = 0
      /\ m_tasks_ready' = (k # 0) /\ left' = 1..k
      /\ mpc' = IF k = 0 THEN "idle" ELSE "run"
      /\ N' = N /\ Workers' = Workers /\ todo' = todo /\ worker_tasks' = worker_tasks
      /\ pc' = pc /\ share' = share
  <2>1. m_tasks' = <<>> \o s
    BY <1>3 DEF RunPost, s
  <2> QED BY <2>1, <1>1 DEF RunPost, Workers
<1>5. todo = <<>> /\ ToSet(todo) = {} /\ IsInjective(todo)
  <2>1. todo = <<>> /\ todo \in Seq(Tasks) /\ Len(todo) = 0
    BY <1>2 DEF IInv, Hands, TypeOK
  <2> QED BY <2>1, NoTasksSeq
<1>6. TypeOK'
  <2>1. awake' \subseteq Workers \cup {Main} /\ caught' \subseteq Workers /\ runs' \in 0..MaxRuns
    BY <1>2, MaxRunsAssumption DEF TypeOK, RunPost, In
  <2>2. 1..k \subseteq Tasks
    BY MaxTasksAssumption DEF Tasks
  <2>3. m_done' = m_done /\ m_threads_exit_cnt' = m_threads_exit_cnt /\ Main' = Main
    BY DEF RunPost, Main
  <2>4. 0 \in 0..MaxTasks /\ (k # 0) \in BOOLEAN
    BY MaxTasksAssumption
  <2> HIDE DEF Main, Workers
  <2> QED BY <1>1, <1>2, <1>4, <2>1, <2>2, <2>3, <2>4 DEF TypeOK
<1>7. EachTaskOnce'
  <2>1. /\ \A w \in Workers : ToSet(worker_tasks[w]) = {} /\ IsInjective(worker_tasks[w])
        /\ UNION {ToSet(worker_tasks[w]) : w \in Workers} = {}
    BY <1>2, <1>3, NoHands
  <2>2. /\ m_tasks' = s /\ todo' = <<>> /\ ToSet(todo') = {} /\ IsInjective(todo')
        /\ \A w \in Workers : ToSet(worker_tasks'[w]) = {} /\ IsInjective(worker_tasks'[w])
        /\ UNION {ToSet(worker_tasks'[w]) : w \in Workers} = {}
        /\ left' = ToSet(s)
    BY ONLY <1>1, <1>4, <1>5, <2>1
  <2> QED BY ONLY <1>1, <1>4, <2>2 DEF EachTaskOnce
<1>8. Hands'
  BY <1>2, <1>4, <1>5 DEF IInv, Hands
<1>9. Phases'
  <2>1. In("gone")' = In("gone")
    BY <1>4 DEF In
  <2> QED BY <1>2, <1>4, <2>1 DEF IInv, Phases, RunPost
<1>10. Quiet'
  <2>1. CASE k = 0
    <3>1. s = <<>>
      BY <1>1, <2>1, EmptyLen
    <3> QED BY <1>3, <1>4, <3>1 DEF Quiet
  <2>2. CASE k # 0
    BY <1>4, <2>2 DEF Quiet, Complete
  <2> QED BY <2>1, <2>2
<1>11. Running'
  <2>1. In("gone") = {}
    BY <1>2 DEF IInv, Phases
  <2>2. \A w \in Workers : pc[w] \in {"ready", "work", "complete"}
    BY <1>2, <2>1 DEF TypeOK, In
  <2>3. caught' = In("work") \cup In("complete") /\ In("work")' = In("work") /\ In("ready")' = In("ready")
        /\ In("complete")' = In("complete")
    BY <1>4 DEF RunPost, In
  <2>4. Untaken' = Workers /\ Unreported' = Workers
    BY <2>2, <2>3 DEF Untaken, Unreported, In
  <2>5. Portion(k, N, 0..N-1) = k
    BY <1>2, PortionAll
  <2>6. Len(m_tasks') = Portion(m_tasks_cnt', N', Untaken')
    BY <1>1, <1>4, <2>4, <2>5 DEF Workers
  <2>7. m_complete_tasks_cnt' + Portion(m_tasks_cnt', N', Unreported') = m_tasks_cnt'
    BY <1>4, <2>4, <2>5 DEF Workers
  <2>8. caught' \cap In("ready")' = {}
    BY <2>3 DEF In
  <2>9. \A w \in In("work")' : w \in caught' /\ share'[w] = 0
    BY <2>3, <1>3, <1>4 DEF In
  <2> QED BY <2>6, <2>7, <2>8, <2>9 DEF Running
<1> QED BY <1>6, <1>7, <1>8, <1>9, <1>10, <1>11 DEF IInv

\* A worker leaves only after stop_workers, when no call is in progress.
LEMMA WorkerExitIInv ==
    ASSUME IInv, NEW w \in Workers, WorkerExit(w)
    PROVE  IInv'
<1>1. /\ TypeOK /\ m_done /\ mpc \in {"stop", "gone"} /\ pc[w] = "ready"
      /\ Workers' = Workers /\ N' = N /\ mpc' = mpc /\ worker_tasks' = worker_tasks
      /\ share' = share /\ m_tasks' = m_tasks
  BY DEF IInv, Phases, WorkerExit, Workers
<1>2. /\ pc' \in [Workers -> {"ready", "work", "complete", "gone"}]
      /\ pc'[w] = "gone" /\ \A v \in Workers \ {w} : pc'[v] = pc[v]
  BY <1>1 DEF WorkerExit, TypeOK
<1>3. In("gone")' = In("gone") \cup {w} /\ w \notin In("gone")
  BY <1>1, <1>2 DEF In
<1>4. /\ IsFiniteSet(In("gone")) /\ Cardinality(In("gone")') = Cardinality(In("gone")) + 1
      /\ Cardinality(In("gone")') <= N /\ Cardinality(In("gone")) \in Nat
  <2>1. N \in Nat /\ Workers = 0..N-1
    BY <1>1, Facts
  <2>2. IsFiniteSet(Workers) /\ Cardinality(Workers) = N
    BY <2>1, WorkersFinite
  <2>3. In("gone") \subseteq Workers /\ In("gone")' \subseteq Workers
    BY <1>1 DEF In
  <2>4. IsFiniteSet(In("gone")) /\ Cardinality(In("gone")) \in Nat
    BY <2>2, <2>3, FS_Subset, FS_CardinalityType
  <2>5. Cardinality(In("gone")') <= N
    BY <2>2, <2>3, FS_Subset
  <2>6. Cardinality(In("gone") \cup {w}) = Cardinality(In("gone")) + 1
    BY <1>3, <2>4, FS_AddElement
  <2> QED BY <1>3, <2>4, <2>5, <2>6
<1>5. m_threads_exit_cnt' = Cardinality(In("gone")') /\ m_threads_exit_cnt' \in 0..N
  BY <1>4 DEF IInv, Phases, WorkerExit
<1>6. TypeOK'
  <2>1. awake' \subseteq Workers \cup {Main}
    BY <1>1 DEF TypeOK, WorkerExit
  <2> QED BY <1>1, <1>2, <1>5, <2>1 DEF TypeOK, WorkerExit, Main
<1>7. EachTaskOnce'
  BY <1>1 DEF IInv, EachTaskOnce, WorkerExit
<1>8. Hands'
  BY <1>1, <1>2 DEF IInv, Hands, WorkerExit
<1>9. Phases'
  BY <1>1, <1>5 DEF IInv, Phases, WorkerExit
<1>10. Quiet'
  BY <1>1, <1>2 DEF IInv, Quiet
<1>11. Running'
  BY <1>1 DEF Running
<1> QED BY <1>6, <1>7, <1>8, <1>9, <1>10, <1>11 DEF IInv

LEMMA WorkerCompleteIInv ==
    ASSUME IInv, NEW w \in Workers, WorkerCompleteWake(w), Complete
    PROVE  IInv'
<1>1. /\ TypeOK /\ pc[w] = "complete" /\ Complete'
      /\ Workers' = Workers /\ N' = N /\ mpc' = mpc /\ worker_tasks' = worker_tasks
      /\ share' = share /\ m_tasks' = m_tasks /\ awake' = awake /\ left' = left
      /\ todo' = todo
  BY DEF IInv, WorkerCompleteWake, Workers, Complete, pool
<1>2. /\ pc' \in [Workers -> {"ready", "work", "complete", "gone"}]
      /\ pc'[w] = "ready" /\ \A v \in Workers \ {w} : pc'[v] = pc[v]
  BY <1>1 DEF WorkerCompleteWake, TypeOK
<1>3. In("gone")' = In("gone")
  BY <1>1, <1>2 DEF In
<1>4. TypeOK'
  BY <1>1, <1>2 DEF TypeOK, WorkerCompleteWake, pool, Main
<1>5. EachTaskOnce'
  BY <1>1 DEF IInv, EachTaskOnce
<1>6. Hands'
  BY <1>1, <1>2 DEF IInv, Hands
<1>7. Phases'
  BY <1>1, <1>3 DEF IInv, Phases, WorkerCompleteWake, pool
<1>8. Quiet' /\ Running'
  BY <1>1, <1>2 DEF IInv, Quiet, Running
<1> QED BY <1>4, <1>5, <1>6, <1>7, <1>8 DEF IInv

\* The share moves from the end of the queue to the worker's hands.
LEMMA WorkerTakeIInv ==
    ASSUME IInv, NEW w \in Workers, WorkerTake(w)
    PROVE  IInv'
<1> DEFINE n == TasksPerWorker(w)
           rest == Len(m_tasks) - n
           p == SubSeq(m_tasks, 1, rest)
           t == Reverse(SubSeq(m_tasks, rest + 1, Len(m_tasks)))
<1>1. /\ TypeOK /\ mpc = "run" /\ ~Complete /\ ~Complete' /\ pc[w] = "ready"
      /\ N \in Nat \ {0} /\ N' = N /\ Workers' = Workers /\ Workers = 0..N-1
      /\ mpc' = mpc /\ m_tasks_cnt' = m_tasks_cnt /\ m_tasks_cnt \in Nat
      /\ m_complete_tasks_cnt' = m_complete_tasks_cnt /\ caught' = caught
      /\ left' = left /\ todo' = todo /\ w \in 0..N-1
  <2>1. mpc = "run" /\ ~Complete /\ N > 0
    BY DEF IInv, WorkerTake, Take, Ready, Phases, Quiet
  <2> QED BY <2>1, Facts DEF IInv, WorkerTake, Take, Complete, Workers
<1>2. n \in 0..Len(m_tasks) /\ n = ShareOf(m_tasks_cnt, N, w)
  <2>1. n <= Len(m_tasks)
    BY <1>1, IInvSharesFit DEF SharesFit, WorkerTake, Take, In
  <2>2. n = ShareOf(m_tasks_cnt, N, w)
    BY DEF TasksPerWorker, ShareOf
  <2>3. n \in Nat
    BY <2>2, <1>1, ShareNat
  <2> QED BY <2>1, <2>2, <2>3
<1>3. /\ m_tasks \in Seq(Tasks) /\ IsInjective(m_tasks)
      /\ Len(m_tasks) \in 0..MaxTasks
  <2>1. m_tasks \in Seq(Tasks) /\ IsInjective(m_tasks) /\ Len(m_tasks) \in Nat
    BY <1>1 DEF IInv, TypeOK, EachTaskOnce
  <2>2. /\ Len(m_tasks) = Portion(m_tasks_cnt, N, Untaken)
        /\ m_complete_tasks_cnt + Portion(m_tasks_cnt, N, Unreported) = m_tasks_cnt
    BY <1>1 DEF IInv, Running
  <2>3. /\ Unreported \in SUBSET (0..N-1) /\ Untaken \in SUBSET Unreported
        /\ m_complete_tasks_cnt \in Nat
    BY <1>1, Facts
  <2>4. /\ Portion(m_tasks_cnt, N, Untaken) <= Portion(m_tasks_cnt, N, Unreported)
        /\ Portion(m_tasks_cnt, N, Unreported) \in Nat
    BY <1>1, <2>3, PortionSubset, PortionNat
  <2>5. m_tasks_cnt <= MaxTasks
    BY <1>1 DEF TypeOK
  <2> QED BY <2>1, <2>2, <2>3, <2>4, <2>5, <1>1, MaxTasksAssumption
<1>4. /\ p \in Seq(Tasks) /\ t \in Seq(Tasks)
      /\ Len(p) = Len(m_tasks) - n /\ Len(t) = n
      /\ IsInjective(p) /\ IsInjective(t)
      /\ ToSet(p) \cap ToSet(t) = {}
      /\ ToSet(p) \cup ToSet(t) = ToSet(m_tasks)
  <2> HIDE DEF n
  <2> QED BY <1>2, <1>3, CutSeq
<1>5. /\ m_tasks' = p
      /\ worker_tasks' = [worker_tasks EXCEPT ![w] = t]
      /\ share' = [share EXCEPT ![w] = n]
      /\ pc' = [pc EXCEPT ![w] = "work"]
  BY DEF WorkerTake, Take
<1> HIDE DEF n, p, t, rest
<1>6. /\ pc' \in [Workers -> {"ready", "work", "complete", "gone"}]
      /\ worker_tasks' \in [Workers -> Seq(Tasks)]
      /\ share' \in [Workers -> 0..MaxTasks]
      /\ pc'[w] = "work" /\ worker_tasks'[w] = t /\ share'[w] = n
      /\ \A v \in Workers \ {w} : /\ pc'[v] = pc[v] /\ share'[v] = share[v]
                                  /\ worker_tasks'[v] = worker_tasks[v]
  <2>1. n \in 0..MaxTasks
    <3>1. n \in 0..Len(m_tasks) /\ Len(m_tasks) \in 0..MaxTasks
      BY <1>2, <1>3
    <3> QED BY <3>1, MaxTasksAssumption
  <2>2. /\ pc' \in [Workers -> {"ready", "work", "complete", "gone"}] /\ pc'[w] = "work"
        /\ \A v \in Workers \ {w} : pc'[v] = pc[v]
    BY <1>1, <1>5 DEF TypeOK
  <2>3. /\ worker_tasks' \in [Workers -> Seq(Tasks)] /\ worker_tasks'[w] = t
        /\ \A v \in Workers \ {w} : worker_tasks'[v] = worker_tasks[v]
    BY <1>1, <1>4, <1>5 DEF TypeOK
  <2>4. /\ share' \in [Workers -> 0..MaxTasks] /\ share'[w] = n
        /\ \A v \in Workers \ {w} : share'[v] = share[v]
    BY <1>1, <1>5, <2>1 DEF TypeOK
  <2> QED BY <2>2, <2>3, <2>4
<1>7. worker_tasks[w] = <<>> /\ ToSet(worker_tasks[w]) = {}
  <2>1. worker_tasks[w] = <<>> /\ worker_tasks[w] \in Seq(Tasks)
    BY <1>1 DEF IInv, Hands, TypeOK
  <2>2. Len(worker_tasks[w]) = 0
    BY <2>1
  <2> QED BY <2>1, <2>2, NoTasksSeq
<1>8. TypeOK'
  <2>1. awake' \subseteq Workers \cup {Main} /\ Main' = Main
    BY <1>1 DEF TypeOK, WorkerTake, Take, Main
  <2>2. runs' = runs /\ m_tasks_ready' = m_tasks_ready /\ m_done' = m_done
        /\ m_threads_exit_cnt' = m_threads_exit_cnt
    BY DEF WorkerTake, Take
  <2> HIDE DEF Workers, Main
  <2> QED BY <1>1, <1>4, <1>5, <1>6, <2>1, <2>2 DEF TypeOK
<1>9. EachTaskOnce'
  <2> DEFINE held(v) == ToSet(worker_tasks[v])
             heldn(v) == ToSet(worker_tasks'[v])
  <2>1. /\ left = ToSet(m_tasks) \cup ToSet(todo) \cup UNION {held(v) : v \in Workers}
        /\ IsInjective(todo) /\ ToSet(m_tasks) \cap ToSet(todo) = {}
    BY DEF IInv, EachTaskOnce
  <2>2. \A v \in Workers : IsInjective(worker_tasks[v])
                           /\ held(v) \cap (ToSet(m_tasks) \cup ToSet(todo)) = {}
    BY DEF IInv, EachTaskOnce
  <2>3. \A u, v \in Workers : u # v => held(u) \cap held(v) = {}
    BY DEF IInv, EachTaskOnce
  <2>4. heldn(w) = ToSet(t) /\ \A v \in Workers \ {w} : heldn(v) = held(v)
    BY <1>6
  <2>5. \A v \in Workers : IsInjective(worker_tasks'[v])
    BY <1>4, <1>6, <2>2
  <2> HIDE DEF held, heldn
  <2>6. held(w) = {}
    BY <1>7 DEF held
  <2>7. left = ToSet(p) \cup ToSet(todo) \cup UNION {heldn(v) : v \in Workers}
    BY <1>4, <2>1, <2>4, <2>6
  <2>8. \A v \in Workers : heldn(v) \cap (ToSet(p) \cup ToSet(todo)) = {}
    BY <1>4, <2>1, <2>2, <2>4
  <2>9. \A u, v \in Workers : u # v => heldn(u) \cap heldn(v) = {}
    BY <1>4, <2>2, <2>3, <2>4
  <2>10. ToSet(p) \cap ToSet(todo) = {}
    BY <1>4, <2>1
  <2> QED BY <1>1, <1>4, <1>5, <2>1, <2>5, <2>7, <2>8, <2>9, <2>10 DEF EachTaskOnce, heldn
<1>10. Hands'
  <2>1. Len(worker_tasks'[w]) <= share'[w] /\ pc'[w] = "work"
    BY <1>2, <1>4, <1>6
  <2> QED BY <1>1, <1>6, <2>1 DEF IInv, Hands
<1>11. Phases'
  <2>1. In("gone")' = In("gone")
    BY <1>1, <1>6 DEF In
  <2> QED BY <1>1, <2>1 DEF IInv, Phases, WorkerTake, Take
<1>12. Quiet'
  BY <1>1 DEF Quiet
<1>13. Running'
  <2>1. w \in Untaken /\ w \notin caught /\ Untaken \subseteq 0..N-1
    BY <1>1, Facts DEF IInv, Running, In, Untaken
  <2>2. Untaken' = Untaken \ {w} /\ Unreported' = Unreported
    <3>1. /\ w \in Workers /\ pc[w] = "ready" /\ pc'[w] = "work"
          /\ \A v \in Workers \ {w} : pc'[v] = pc[v]
          /\ caught' = caught /\ Workers' = Workers
      BY <1>1, <1>6 DEF WorkerTake, Workers, In
    <3>2. /\ In("ready")' = In("ready") \ {w} /\ In("work")' = In("work") \cup {w}
          /\ In("complete")' = In("complete")
      <4> HIDE DEF Workers
      <4> QED BY ONLY <3>1 DEF In
    <3>3. w \in In("ready")
      BY ONLY <3>1 DEF In
    <3> HIDE DEF In
    <3> QED BY ONLY <2>1, <3>1, <3>2, <3>3 DEF Untaken, Unreported
  <2>3. Portion(m_tasks_cnt, N, Untaken) = Portion(m_tasks_cnt, N, Untaken \ {w}) + n
    BY <1>1, <1>2, <2>1, PortionRemove
  <2>4. Portion(m_tasks_cnt, N, Untaken \ {w}) \in Nat
    BY <1>1, <2>1, PortionNat
  <2>5. Len(m_tasks') = Portion(m_tasks_cnt', N', Untaken')
    BY <1>1, <1>2, <1>4, <1>5, <2>2, <2>3, <2>4 DEF IInv, Running
  <2>6. m_complete_tasks_cnt' + Portion(m_tasks_cnt', N', Unreported') = m_tasks_cnt'
    BY <1>1, <2>2 DEF IInv, Running
  <2>7. caught' \cap In("ready")' = {}
    BY <1>1, <1>6 DEF IInv, Running, In
  <2>8. ASSUME NEW v \in In("work")'
        PROVE share'[v] = IF v \in caught' THEN 0 ELSE ShareOf(m_tasks_cnt', N', v)
    BY <1>1, <1>2, <1>6, <2>1, <2>8 DEF IInv, Running, In
  <2> QED BY <2>5, <2>6, <2>7, <2>8 DEF Running
<1> QED BY <1>8, <1>9, <1>10, <1>11, <1>12, <1>13 DEF IInv

LEMMA WorkerTaskIInv ==
    ASSUME IInv, NEW w \in Workers, WorkerTask(w)
    PROVE  IInv'
<1> DEFINE s == worker_tasks[w]
<1>1. /\ TypeOK /\ mpc = "run" /\ ~Complete /\ pc[w] = "work" /\ s # <<>>
      /\ N' = N /\ Workers' = Workers /\ mpc' = mpc /\ pc' = pc /\ share' = share
      /\ caught' = caught /\ todo' = todo /\ m_tasks' = m_tasks
      /\ left' = left \ {Head(s)} /\ ~Complete'
  BY DEF IInv, WorkerTask, Quiet, pool, Workers, Complete
<1>2. s \in Seq(Tasks) /\ IsInjective(s) /\ Len(s) <= share[w]
  BY <1>1 DEF IInv, TypeOK, EachTaskOnce, Hands
<1>3. /\ Tail(s) \in Seq(Tasks) /\ Len(Tail(s)) = Len(s) - 1 /\ IsInjective(Tail(s))
      /\ Head(s) \in ToSet(s) /\ ToSet(Tail(s)) = ToSet(s) \ {Head(s)}
  BY <1>1, <1>2, TailSeq
<1>4. /\ worker_tasks' \in [Workers -> Seq(Tasks)]
      /\ worker_tasks'[w] = Tail(s)
      /\ \A v \in Workers \ {w} : worker_tasks'[v] = worker_tasks[v]
  BY <1>1, <1>3 DEF WorkerTask, TypeOK
<1>5. TypeOK'
  BY <1>1, <1>4 DEF TypeOK, WorkerTask, pool, Main
<1>6. EachTaskOnce'
  <2> DEFINE held(v) == ToSet(worker_tasks[v])
             heldn(v) == ToSet(worker_tasks'[v])
  <2>1. /\ left = ToSet(m_tasks) \cup ToSet(todo) \cup UNION {held(v) : v \in Workers}
        /\ IsInjective(m_tasks) /\ IsInjective(todo)
        /\ ToSet(m_tasks) \cap ToSet(todo) = {}
    BY DEF IInv, EachTaskOnce
  <2>2. \A v \in Workers : IsInjective(worker_tasks[v])
                           /\ held(v) \cap (ToSet(m_tasks) \cup ToSet(todo)) = {}
    BY DEF IInv, EachTaskOnce
  <2>3. \A u, v \in Workers : u # v => held(u) \cap held(v) = {}
    BY DEF IInv, EachTaskOnce
  <2>4. \A v \in Workers : IsInjective(worker_tasks'[v])
    BY <1>3, <1>4, <2>2
  <2>5. /\ heldn(w) = held(w) \ {Head(s)} /\ Head(s) \in held(w)
        /\ \A v \in Workers \ {w} : heldn(v) = held(v)
    BY <1>3, <1>4
  <2> HIDE DEF held, heldn
  <2>6. left' = ToSet(m_tasks) \cup ToSet(todo) \cup UNION {heldn(v) : v \in Workers}
    <3> SUFFICES ASSUME NEW x
                 PROVE  x \in left' <=> x \in ToSet(m_tasks) \/ x \in ToSet(todo)
                                          \/ \E v \in Workers : x \in heldn(v)
      OBVIOUS
    <3>1. x \in left <=> x \in ToSet(m_tasks) \/ x \in ToSet(todo)
                           \/ \E v \in Workers : x \in held(v)
      BY <2>1
    <3>2. CASE x = Head(s)
      BY <1>1, <2>2, <2>3, <2>5, <3>2
    <3>3. CASE x # Head(s)
      BY <1>1, <2>5, <3>1, <3>3
    <3> QED BY <3>2, <3>3
  <2>7. \A v \in Workers : heldn(v) \cap (ToSet(m_tasks) \cup ToSet(todo)) = {}
    BY <2>2, <2>5
  <2>8. \A u, v \in Workers : u # v => heldn(u) \cap heldn(v) = {}
    BY <2>3, <2>5
  <2> QED BY <1>1, <2>1, <2>4, <2>6, <2>7, <2>8 DEF EachTaskOnce, heldn
<1>7. Hands'
  <2>1. share[w] \in Int /\ Len(s) \in Int
    BY <1>1, <1>2 DEF TypeOK
  <2>2. Len(worker_tasks'[w]) <= share'[w]
    BY <2>1, <1>1, <1>2, <1>3, <1>4
  <2> QED BY <1>1, <1>4, <2>2 DEF IInv, Hands
<1>8. Phases'
  BY <1>1 DEF IInv, Phases, WorkerTask, pool, In
<1>9. Quiet'
  BY <1>1 DEF Quiet
<1>10. Running'
  BY <1>1 DEF IInv, Running, WorkerTask, pool, In, Untaken, Unreported
<1> QED BY <1>5, <1>6, <1>7, <1>8, <1>9, <1>10 DEF IInv

\* The last report of a call: no share is left that has a task.
LEMMA LastReport ==
    ASSUME IInv, mpc = "run", ~Complete, NEW w \in In("work"), w \notin caught,
           Portion(m_tasks_cnt, N, Unreported \ {w}) = 0
    PROVE  /\ m_tasks = <<>>
           /\ \A v \in Workers \ {w} :
                 worker_tasks[v] = <<>> /\ (pc[v] = "work" => share[v] = 0)
<1>1. /\ TypeOK /\ N \in Nat \ {0} /\ m_tasks_cnt \in Nat
      /\ Unreported \in SUBSET (0..N-1) /\ Untaken \in SUBSET Unreported
      /\ Workers = 0..N-1
  BY Facts DEF IInv, Phases
<1>2. m_tasks = <<>>
  <2>1. Untaken \in SUBSET (Unreported \ {w}) /\ Unreported \ {w} \in SUBSET (0..N-1)
    BY <1>1 DEF Untaken, In
  <2>2. Portion(m_tasks_cnt, N, Untaken) \in Nat
    BY <1>1, PortionNat
  <2>3. Portion(m_tasks_cnt, N, Untaken) <= 0
    BY <1>1, <2>1, PortionSubset
  <2>4. Len(m_tasks) = 0 /\ m_tasks \in Seq(Tasks)
    BY <1>1, <2>2, <2>3 DEF IInv, Running, TypeOK
  <2> QED BY <2>4, EmptyLen
<1>3. ASSUME NEW v \in Workers, v # w, pc[v] = "work" PROVE share[v] = 0
  <2>1. CASE v \in caught
    BY <1>3, <2>1 DEF IInv, Running, In
  <2>2. CASE v \notin caught
    <3>1. share[v] = ShareOf(m_tasks_cnt, N, v)
      BY <1>3, <2>2 DEF IInv, Running, In
    <3> DEFINE S == Unreported \ {w}
    <3>2. v \in S /\ S \in SUBSET (0..N-1) /\ S \ {v} \in SUBSET (0..N-1) /\ v \in 0..N-1
      BY <1>1, <1>3 DEF Unreported, In
    <3>3. Portion(m_tasks_cnt, N, S) = 0
      OBVIOUS
    <3> HIDE DEF S
    <3>4. N \in Nat \ {0} /\ m_tasks_cnt \in Nat
      BY <1>1
    <3>5. Portion(m_tasks_cnt, N, S) = Portion(m_tasks_cnt, N, S \ {v}) + ShareOf(m_tasks_cnt, N, v)
      BY <3>2, <3>4, PortionRemove
    <3>6. Portion(m_tasks_cnt, N, S \ {v}) \in Nat
      BY <3>2, <3>4, PortionNat
    <3>7. ShareOf(m_tasks_cnt, N, v) \in Nat
      BY <3>2, <3>4, ShareNat
    <3> QED BY <3>1, <3>3, <3>5, <3>6, <3>7
  <2> QED BY <2>1, <2>2
<1>4. ASSUME NEW v \in Workers, v # w PROVE worker_tasks[v] = <<>>
  <2>1. CASE pc[v] # "work"
    BY <2>1 DEF IInv, Hands
  <2>2. CASE pc[v] = "work"
    <3>1. worker_tasks[v] \in Seq(Tasks) /\ Len(worker_tasks[v]) <= 0
      BY <1>1, <1>3, <1>4, <2>2 DEF IInv, Hands, TypeOK
    <3>2. Len(worker_tasks[v]) = 0
      BY <3>1
    <3> QED BY <3>1, <3>2, EmptyLen
  <2> QED BY <2>1, <2>2
<1> QED BY <1>2, <1>3, <1>4

\* A report that completes the call leaves nothing behind; the report of a worker
\* that was not back from the last call adds nothing to this one.
LEMMA WorkerReportIInv ==
    ASSUME IInv, NEW w \in Workers, WorkerReport(w)
    PROVE  IInv'
<1>1. /\ TypeOK /\ pc[w] = "work" /\ worker_tasks[w] = <<>>
      /\ N' = N /\ Workers' = Workers /\ mpc' = mpc /\ share' = share
      /\ caught' = caught /\ todo' = todo /\ m_tasks' = m_tasks /\ left' = left
      /\ worker_tasks' = worker_tasks /\ m_tasks_cnt' = m_tasks_cnt
      /\ m_complete_tasks_cnt' = m_complete_tasks_cnt + share[w]
      /\ share[w] \in Nat /\ m_complete_tasks_cnt \in Nat /\ m_tasks_cnt \in Nat
  <2>1. TypeOK
    BY DEF IInv
  <2>2. share[w] \in Nat /\ m_complete_tasks_cnt \in Nat /\ m_tasks_cnt \in Nat
    BY <2>1, MaxTasksAssumption DEF TypeOK
  <2> QED BY <2>1, <2>2 DEF WorkerReport, Report, Workers
<1>2. /\ pc' \in [Workers -> {"ready", "work", "complete", "gone"}]
      /\ pc'[w] = IF Complete' THEN "ready" ELSE "complete"
      /\ \A v \in Workers \ {w} : pc'[v] = pc[v]
  BY <1>1 DEF WorkerReport, Report, TypeOK, Complete
<1>3. In("gone")' = In("gone") /\ In("work")' = In("work") \ {w} /\ w \in In("work")
  BY <1>1, <1>2 DEF In
<1>4. EachTaskOnce' /\ Hands' /\ Phases'
  <2>1. EachTaskOnce'
    BY <1>1 DEF IInv, EachTaskOnce
  <2>2. Hands'
    BY <1>1, <1>2 DEF IInv, Hands
  <2>3. Phases'
    BY <1>1, <1>3 DEF IInv, Phases, WorkerReport, Report
  <2> QED BY <2>1, <2>2, <2>3
<1>5. ASSUME m_complete_tasks_cnt' <= MaxTasks PROVE TypeOK'
  <2>1. awake' \subseteq Workers \cup {Main} /\ Main' = Main /\ runs' = runs
        /\ m_tasks_ready' = m_tasks_ready /\ m_done' = m_done
        /\ m_threads_exit_cnt' = m_threads_exit_cnt
    BY <1>1 DEF TypeOK, WorkerReport, Report, Main, In
  <2>2. m_complete_tasks_cnt' \in 0..MaxTasks
    BY <1>1, <1>5
  <2> HIDE DEF Workers, Main
  <2> QED BY <1>1, <1>2, <2>1, <2>2 DEF TypeOK
<1>6. CASE mpc # "run" \/ Complete
  <2>1. /\ share[w] = 0 /\ m_tasks = <<>>
        /\ \A v \in Workers : worker_tasks[v] = <<>> /\ (pc[v] = "work" => share[v] = 0)
    BY <1>1, <1>6 DEF IInv, Quiet
  <2>2. m_complete_tasks_cnt' = m_complete_tasks_cnt /\ (Complete' <=> Complete)
    BY <1>1, <2>1 DEF Complete
  <2>3. TypeOK'
    BY <1>1, <1>5, <2>2 DEF TypeOK
  <2>4. Quiet'
    BY <1>1, <1>2, <2>1 DEF Quiet
  <2>5. Running'
    BY <1>1, <1>6, <2>2 DEF Running
  <2> QED BY <1>4, <2>3, <2>4, <2>5 DEF IInv
<1>7. CASE mpc = "run" /\ ~Complete
  <2>1. /\ N \in Nat \ {0} /\ Workers = 0..N-1 /\ Unreported \in SUBSET (0..N-1)
        /\ w \in Unreported /\ w \in 0..N-1
    BY <1>1, <1>3, <1>7, Facts DEF IInv, Phases, Unreported
  <2>2. /\ Len(m_tasks) = Portion(m_tasks_cnt, N, Untaken)
        /\ m_complete_tasks_cnt + Portion(m_tasks_cnt, N, Unreported) = m_tasks_cnt
        /\ caught \cap In("ready") = {}
        /\ \A v \in In("work") :
             share[v] = IF v \in caught THEN 0 ELSE ShareOf(m_tasks_cnt, N, v)
    BY <1>7 DEF IInv, Running
  <2>3. m_tasks_cnt \in Nat /\ N \in Nat \ {0} /\ m_tasks_cnt <= MaxTasks
    BY <1>1, <2>1 DEF TypeOK
  <2>4. CASE w \in caught
    <3>1. share[w] = 0
      BY <1>3, <2>2, <2>4
    <3>2. m_complete_tasks_cnt' = m_complete_tasks_cnt /\ ~Complete'
      BY <1>1, <1>7, <3>1 DEF Complete
    <3>3. TypeOK'
      BY <1>1, <1>5, <3>2 DEF TypeOK
    <3>4. Untaken' = Untaken /\ Unreported' = Unreported
      BY <1>1, <1>2, <1>3, <2>4, <3>2 DEF Untaken, Unreported, In
    <3>5. caught' \cap In("ready")' = {}
      BY <1>1, <1>2, <2>2, <3>2 DEF In
    <3>6. Running'
      BY <1>1, <1>3, <2>2, <3>2, <3>4, <3>5 DEF Running
    <3>7. Quiet'
      BY <1>1, <1>7, <3>2 DEF Quiet
    <3> QED BY <1>4, <3>3, <3>6, <3>7 DEF IInv
  <2>5. CASE w \notin caught
    <3>1. share[w] = ShareOf(m_tasks_cnt, N, w)
      BY <1>3, <2>2, <2>5
    <3> DEFINE rest == Portion(m_tasks_cnt, N, Unreported \ {w})
    <3>2. Unreported \ {w} \in SUBSET (0..N-1)
      BY <2>1
    <3>3. Portion(m_tasks_cnt, N, Unreported) = rest + share[w] /\ rest \in Nat
      <4>1. Unreported \in SUBSET (0..N-1) /\ w \in Unreported
        BY <2>1
      <4>2. Portion(m_tasks_cnt, N, Unreported) = rest + ShareOf(m_tasks_cnt, N, w)
        BY <2>3, <4>1, PortionRemove
      <4>3. rest \in Nat
        BY <2>3, <3>2, PortionNat
      <4> QED BY <3>1, <4>2, <4>3
    <3> HIDE DEF rest
    <3>4. m_complete_tasks_cnt' + rest = m_tasks_cnt
      BY <1>1, <2>2, <3>3
    <3>5. TypeOK'
      <4>1. m_complete_tasks_cnt' <= m_tasks_cnt
        BY <1>1, <3>3, <3>4
      <4> QED BY <1>1, <1>5, <2>3, <4>1, MaxTasksAssumption
    <3>6. CASE Complete'
      <4>1. rest = 0
        BY <1>1, <3>3, <3>4, <3>6 DEF Complete
      <4>2. /\ m_tasks = <<>>
            /\ \A v \in Workers \ {w} :
                 worker_tasks[v] = <<>> /\ (pc[v] = "work" => share[v] = 0)
        BY <1>3, <1>7, <2>5, <4>1, LastReport DEF rest
      <4>3. Quiet'
        BY <1>1, <1>2, <3>6, <4>2 DEF Quiet
      <4>4. Running'
        BY <3>6 DEF Running
      <4> QED BY <1>4, <3>5, <4>3, <4>4 DEF IInv
    <3>7. CASE ~Complete'
      <4>1. Untaken' = Untaken /\ Unreported' = Unreported \ {w}
        BY <1>1, <1>2, <1>3, <2>5, <3>7 DEF Untaken, Unreported, In
      <4>2. caught' \cap In("ready")' = {}
        BY <1>1, <1>2, <2>2, <3>7 DEF In
      <4>3. m_complete_tasks_cnt' + Portion(m_tasks_cnt', N', Unreported') = m_tasks_cnt'
        BY <1>1, <3>4, <4>1 DEF rest
      <4>4. Running'
        BY <1>1, <1>3, <2>2, <4>1, <4>2, <4>3 DEF Running
      <4>5. Quiet'
        BY <1>1, <1>7, <3>7 DEF Quiet
      <4> QED BY <1>4, <3>5, <4>4, <4>5 DEF IInv
    <3> QED BY <3>6, <3>7
  <2> QED BY <2>4, <2>5
<1> QED BY <1>6, <1>7

-----------------------------------------------------------------------------

LEMMA NextIInv == ASSUME IInv, [Next]_vars PROVE IInv'
<1>1. ASSUME NEW k \in 0..MaxTasks, RunInline(k) PROVE IInv'
  BY <1>1, RunInlineIInv
<1>2. ASSUME NEW k \in 0..MaxTasks, RunPost(k) PROVE IInv'
  BY <1>2, RunPostIInv
<1>3. ASSUME InlineTask PROVE IInv'
  BY <1>3, InlineTaskIInv
<1>4. ASSUME StopWorkers PROVE IInv'
  BY <1>4, StopWorkersIInv
<1>5. ASSUME InlineReturn \/ StopWake \/ (RunWake /\ Complete) PROVE IInv'
  BY <1>5, OwnerReturnIInv
<1>6. ASSUME NEW w \in Workers, WorkerExit(w) PROVE IInv'
  BY <1>6, WorkerExitIInv
<1>7. ASSUME NEW w \in Workers, WorkerTake(w) PROVE IInv'
  BY <1>7, WorkerTakeIInv
<1>8. ASSUME NEW w \in Workers, WorkerTask(w) PROVE IInv'
  BY <1>8, WorkerTaskIInv
<1>9. ASSUME NEW w \in Workers, WorkerReport(w) PROVE IInv'
  BY <1>9, WorkerReportIInv
<1>10. ASSUME NEW w \in Workers, WorkerCompleteWake(w), Complete PROVE IInv'
  BY <1>10, WorkerCompleteIInv
<1>11. ASSUME \/ RunWake /\ ~Complete
              \/ SpuriousWake
              \/ \E w \in Workers : WorkerSleep(w) \/ (WorkerCompleteWake(w) /\ ~Complete)
              \/ UNCHANGED vars
       PROVE  IInv'
  <2>1. UNCHANGED <<N, pool, pc, worker_tasks, share, mpc, todo, left, caught, runs>>
    BY <1>11 DEF RunWake, SpuriousWake, WorkerSleep, WorkerCompleteWake, vars, pool
  <2>2. awake' \subseteq Workers \cup {Main}
    BY <1>11 DEF RunWake, SpuriousWake, WorkerSleep, WorkerCompleteWake, vars, In, IInv, TypeOK
  <2> QED BY <2>1, <2>2, AwakeIInv
<1> QED
  BY <1>1, <1>2, <1>3, <1>4, <1>5, <1>6, <1>7, <1>8, <1>9, <1>10, <1>11
     DEF Next, OwnerStep, WorkerStep, Destroyed

\* The invariant of the pool: counts, shares and queues fit together.
LEMMA PoolInvariant == Spec => []IInv
BY InitIInv, NextIInv, PTL DEF Spec

\* The variables of the pool keep their types; in particular the counts stay
\* within the number of tasks and of threads.
THEOREM PoolTypeOK == Spec => []TypeOK
<1>1. IInv => TypeOK
  BY DEF IInv
<1> QED BY <1>1, PoolInvariant, PTL

\* What is left to execute is in the queue or in one worker's hands, in one place
\* and once, and the queue is never shorter than the share a worker takes.
THEOREM PoolSharesPartitionTasks == Spec => []SharesPartitionTasks
<1>1. IInv => SharesPartitionTasks
  BY IInvSharesFit DEF IInv, SharesPartitionTasks
<1> QED BY <1>1, PoolInvariant, PTL

-----------------------------------------------------------------------------

\* The steps of the pool are steps of TaskRun.
LEMMA InitRefines == Init => Run!Init
BY DEF Init, Run!Init

\* When no call is in progress, or the count says that it is complete, every
\* task was executed.
NoneLeft == (mpc = "run" => Complete) /\ mpc # "inline" => left = {}

LEMMA IInvNoneLeft == IInv => NoneLeft
<1> SUFFICES ASSUME IInv, mpc = "run" => Complete, mpc # "inline" PROVE left = {}
  BY DEF NoneLeft
<1>1. /\ TypeOK /\ m_tasks = <<>> /\ todo = <<>>
      /\ \A w \in Workers : worker_tasks[w] = <<>>
  BY DEF IInv, Quiet, Hands
<1>2. ToSet(m_tasks) = {} /\ ToSet(todo) = {}
  <2>1. m_tasks \in Seq(Tasks) /\ todo \in Seq(Tasks) /\ Len(m_tasks) = 0 /\ Len(todo) = 0
    BY <1>1 DEF TypeOK
  <2> QED BY <2>1, NoTasksSeq
<1>3. UNION {ToSet(worker_tasks[w]) : w \in Workers} = {}
  BY <1>1, NoHands
<1> QED BY <1>2, <1>3 DEF IInv, EachTaskOnce

LEMMA StepRefines ==
    ASSUME IInv, NoneLeft, NoneLeft', [Next]_vars
    PROVE  [Run!Next]_(Run!vars)
<1> USE DEF Run!vars
<1>0. TypeOK /\ EachTaskOnce /\ Phases
  BY DEF IInv
<1>1. ASSUME NEW k \in 0..MaxTasks, RunInline(k) PROVE Run!Next
  <2>1. 1..k \in SUBSET Tasks
    BY MaxTasksAssumption DEF Tasks
  <2>2. Run!Call(1..k)
    BY <1>1 DEF Run!Call, RunInline
  <2> QED BY <2>1, <2>2 DEF Run!Next
<1>2. ASSUME NEW k \in 0..MaxTasks, RunPost(k) PROVE [Run!Next]_(Run!vars)
  <2>1. mpc = "idle" /\ left' = 1..k /\ 1..k \in SUBSET Tasks
    BY <1>2, MaxTasksAssumption DEF RunPost, Tasks
  <2>2. mpc' = "run" \/ mpc' = "idle"
    BY <1>2 DEF RunPost
  <2>3. CASE mpc' = "run"
    <3>1. Run!Call(1..k)
      BY <2>1, <2>3 DEF Run!Call
    <3> QED BY <2>1, <3>1 DEF Run!Next
  <2>4. CASE mpc' = "idle"
    BY <2>1, <2>4 DEF NoneLeft
  <2> QED BY <2>2, <2>3, <2>4
<1>3. ASSUME InlineTask PROVE Run!Next
  <2>1. todo \in Seq(Tasks) /\ todo # <<>> /\ IsInjective(todo)
    BY <1>0, <1>3 DEF TypeOK, EachTaskOnce, InlineTask
  <2>2. Head(todo) \in ToSet(todo)
    BY <2>1, TailSeq
  <2>3. Head(todo) \in left /\ Head(todo) \in Tasks
    BY <1>0, <2>2 DEF EachTaskOnce, TypeOK
  <2>4. Run!Execute(Head(todo))
    BY <1>3, <2>3 DEF InlineTask, Run!Execute
  <2> QED BY <2>3, <2>4 DEF Run!Next
<1>4. ASSUME NEW w \in Workers, WorkerTask(w) PROVE Run!Next
  <2> DEFINE s == worker_tasks[w]
  <2>1. s \in Seq(Tasks) /\ s # <<>> /\ IsInjective(s)
    BY <1>0, <1>4 DEF TypeOK, EachTaskOnce, WorkerTask
  <2>2. Head(s) \in ToSet(s)
    BY <2>1, TailSeq
  <2>3. Head(s) \in left /\ Head(s) \in Tasks
    BY <1>0, <1>4, <2>2 DEF EachTaskOnce, TypeOK
  <2>4. Run!Execute(Head(s))
    BY <1>4, <2>3 DEF WorkerTask, Run!Execute
  <2> QED BY <2>3, <2>4 DEF Run!Next
<1>5. ASSUME InlineReturn PROVE Run!Next
  <2>1. left = {} /\ left' = left
    BY <1>5 DEF InlineReturn, NoneLeft
  <2> QED BY <1>5, <2>1 DEF InlineReturn, Run!Return, Run!Next
<1>6. ASSUME RunWake PROVE [Run!Next]_(Run!vars)
  <2>1. CASE Complete
    <3>1. left = {} /\ left' = left
      BY <1>6, <2>1 DEF RunWake, NoneLeft
    <3> QED BY <1>6, <2>1, <3>1 DEF RunWake, Run!Return, Run!Next
  <2>2. CASE ~Complete
    BY <1>6, <2>2 DEF RunWake
  <2> QED BY <2>1, <2>2
<1>7. ASSUME StopWorkers \/ StopWake PROVE UNCHANGED Run!vars
  BY <1>7 DEF StopWorkers, StopWake
<1>8. ASSUME NEW w \in Workers,
             WorkerSleep(w) \/ WorkerExit(w) \/ WorkerTake(w) \/ WorkerReport(w)
                \/ WorkerCompleteWake(w)
      PROVE  UNCHANGED Run!vars
  BY <1>8 DEF WorkerSleep, WorkerExit, WorkerTake, Take, WorkerReport, Report,
              WorkerCompleteWake
<1>9. ASSUME SpuriousWake \/ UNCHANGED vars PROVE UNCHANGED Run!vars
  BY <1>9 DEF SpuriousWake, vars
<1> QED
  BY <1>1, <1>2, <1>3, <1>4, <1>5, <1>6, <1>7, <1>8, <1>9
     DEF Next, OwnerStep, WorkerStep, Destroyed

\* static_thread_pool::run executes every task of a call once, and returns only
\* when all were executed.
THEOREM PoolRunsEveryTask == Spec => RunsEveryTask
<1>1. Spec => [](IInv /\ NoneLeft)
  BY PoolInvariant, IInvNoneLeft, PTL
<1> QED BY <1>1, InitRefines, StepRefines, PTL DEF Spec, RunsEveryTask, Run!Spec
=============================================================================
