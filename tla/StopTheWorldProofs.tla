------------------------- MODULE StopTheWorldProofs -------------------------
(***************************************************************************)
(* Proofs about StopTheWorld for any finite set of threads and any buffer  *)
(* size.  Both pipes only count bytes, so the argument is about set sizes: *)
(* every byte in a pipe, or already read from it, stands for one thread    *)
(* that has reached a point of the handler.  The last section is about     *)
(* PendingCall: how one thread defers the signal.                          *)
(***************************************************************************)
EXTENDS StopTheWorld, PendingCall, FiniteSetTheorems, SequenceTheorems, TLAPS

\* The handler of t, if any, has done all it does to others.
Idle(t) == hpc[t] \in {"none", "leave"}

Targets(c) == registered \ {c}
Signalled(c) == Targets(c) \ todo
Counted == {t \in Threads : hpc[t] \in {"publish", "arrive", "wait", "uncount"}}
Arrived == {t \in Threads : hpc[t] = "wait"}
Taken(c) == {t \in Targets(c) : hpc[t] # "wait"}
Departed(c) == {t \in Targets(c) : Idle(t)}

\* Who holds which lock, read off the program counters.
LockInv ==
    /\ \A t \in Threads :
          pc[t] \in CollectorPC \cup {"register_locked", "deregister_locked"} <=> m_lock = t
    /\ \A t \in Threads :
          pc[t] \in CollectorPC \cup {"gc_snapshot", "gc_unlock"} <=> m_mutex = t

\* Collections and registrations happen outside unsafe scopes, and so does the
\* handler.
DepthInv ==
    \A t \in Threads :
        (hpc[t] # "none" \/ pc[t] # "user") => depth[t] = 0

\* A handler interrupts only one that returns, and there is none under none.
FrameInv ==
    \A t \in Threads :
        /\ under[t] \in {"none", "leave"}
        /\ hpc[t] = "none" => under[t] = "none"

\* Threads that are not signalled have nothing left to do in the handler.
OthersInv(c) ==
    /\ todo \in SUBSET Targets(c)
    /\ pc[c] # "suspend" => todo = {}
    /\ \A t \in Threads \ Signalled(c) : sig[t] = "none" /\ Idle(t)

CountInv(c) ==
    /\ m_threads_cnt = Cardinality(Signalled(c))
    /\ m_threads_suspended_cnt = Cardinality(Counted)
    /\ moved <= m_threads_cnt

\* While the world is being stopped, m_barrier counts the arrivals.
StopInv(c) ==
    pc[c] \in {"suspend", "wait_stop"} =>
        /\ event = 0
        /\ pc[c] = "suspend" => moved = 0
        /\ barrier + moved = Cardinality(Arrived)
        /\ \A t \in Signalled(c) :
              \/ sig[t] # "none" /\ Idle(t)
              \/ sig[t] = "none" /\ hpc[t] \in {"count", "publish", "arrive", "wait"}

StoppedInv(c) ==
    pc[c] = "stopped" =>
        /\ event = 0
        /\ barrier = 0
        /\ \A t \in Targets(c) : sig[t] = "none" /\ hpc[t] = "wait"

\* Where a handler may be while the world is being started.
LeavingPC(place) == place \in {"wait", "uncount", "depart", "leave", "none"}

\* While it is being started, m_event counts the threads still to wake up and
\* m_barrier the departures.
StartInv(c) ==
    pc[c] \in {"notify", "wait_start"} =>
        /\ \A t \in Targets(c) :
              sig[t] = "none" /\ LeavingPC(hpc[t])
        /\ event + Cardinality(Taken(c)) = IF pc[c] = "notify" THEN moved ELSE m_threads_cnt
        /\ barrier + (IF pc[c] = "notify" THEN 0 ELSE moved) = Cardinality(Departed(c))

Cycle(c) == OthersInv(c) /\ CountInv(c) /\ StopInv(c) /\ StoppedInv(c) /\ StartInv(c)

CycleInv == \A c \in Threads : pc[c] \in CollectorPC => Cycle(c)

IInv ==
    /\ TypeOK
    /\ LockInv
    /\ DepthInv
    /\ FrameInv
    /\ LockHoldersRun
    /\ CleanBetweenCycles
    /\ CycleInv

USE DEF Idle, LeavingPC, Done

-----------------------------------------------------------------------------
(* Sizes                                                                   *)

LEMMA SubsetsFinite ==
  ASSUME NEW S \in SUBSET Threads
  PROVE  IsFiniteSet(S) /\ Cardinality(S) \in Nat
  BY FS_Subset, FS_CardinalityType, ThreadsAssumption

LEMMA SetSizes ==
  ASSUME TypeOK, NEW c \in Threads
  PROVE  /\ IsFiniteSet(Targets(c)) /\ Cardinality(Targets(c)) \in Nat
         /\ IsFiniteSet(Signalled(c)) /\ Cardinality(Signalled(c)) \in Nat
         /\ IsFiniteSet(Counted) /\ Cardinality(Counted) \in Nat
         /\ IsFiniteSet(Arrived) /\ Cardinality(Arrived) \in Nat
         /\ IsFiniteSet(Taken(c)) /\ Cardinality(Taken(c)) \in Nat
         /\ IsFiniteSet(Departed(c)) /\ Cardinality(Departed(c)) \in Nat
  <1>1. /\ Targets(c) \in SUBSET Threads
        /\ Signalled(c) \in SUBSET Threads
        /\ Counted \in SUBSET Threads
        /\ Arrived \in SUBSET Threads
        /\ Taken(c) \in SUBSET Threads
        /\ Departed(c) \in SUBSET Threads
    BY DEF TypeOK, Targets, Signalled, Counted, Arrived, Taken, Departed
  <1>2. QED BY <1>1, SubsetsFinite

\* At most one thread is inside a cycle.
LEMMA OneCollector ==
  ASSUME LockInv, NEW c \in Threads, NEW d \in Threads,
         pc[c] \in CollectorPC, pc[d] \in CollectorPC
  PROVE  c = d
  BY DEF LockInv

-----------------------------------------------------------------------------
LEMMA InitIInv == Init => IInv
  <1> SUFFICES ASSUME Init PROVE IInv
    OBVIOUS
  <1>1. TypeOK
    <2>1. m_stack_ends \in [0..MAX_THREAD_NUM-1 -> Threads \cup {None}]
      BY DEF Init
    <2>2. /\ pc \in [Threads -> PC]
          /\ hpc \in [Threads -> HPC]
          /\ sig \in [Threads -> {"none", "sent", "deferred"}]
      BY DEF Init, PC, HPC
    <2>3. /\ depth \in [Threads -> 0..MaxDepth]
          /\ saved \in [Threads -> 0..MaxDepth]
      BY MaxDepthAssumption DEF Init
    <2>4. QED BY <2>1, <2>2, <2>3 DEF Init, TypeOK
  <1>2. LockInv
    BY ThreadsAssumption DEF Init, LockInv, CollectorPC
  <1>3. DepthInv /\ FrameInv /\ LockHoldersRun /\ CleanBetweenCycles
    BY ThreadsAssumption DEF Init, DepthInv, FrameInv, LockHoldersRun, CleanBetweenCycles
  <1>4. CycleInv
    BY DEF Init, CycleInv, CollectorPC
  <1>5. QED BY <1>1, <1>2, <1>3, <1>4 DEF IInv

-----------------------------------------------------------------------------
(* Steps that leave the running cycle, if any, where it is                 *)

CycleVars == <<registered, m_threads_cnt, m_threads_suspended_cnt, barrier, event,
               todo, moved>>

\* The same threads are collecting, at the same place.
SamePhases ==
    \A c \in Threads :
        /\ pc[c] \in CollectorPC => pc'[c] = pc[c]
        /\ pc'[c] \in CollectorPC => pc'[c] = pc[c]

\* No handler moves, except from its return to the code below it.
SamePlaces == \A t \in Threads : hpc'[t] = hpc[t] \/ (Idle(t) /\ Idle(t)')

LEMMA Frame ==
  ASSUME IInv, SamePhases, SamePlaces, FrameInv', UNCHANGED <<CycleVars, sig>>
  PROVE  CleanBetweenCycles' /\ CycleInv'
  <1>1. CleanBetweenCycles'
    BY DEF IInv, SamePhases, SamePlaces, FrameInv, CleanBetweenCycles, CycleVars
  <1>2. ASSUME NEW c \in Threads, pc'[c] \in CollectorPC
        PROVE  Cycle(c)'
    <2>1. pc[c] \in CollectorPC /\ pc'[c] = pc[c]
      BY <1>2 DEF SamePhases
    <2>2. Cycle(c)
      BY <2>1 DEF IInv, CycleInv
    <2>3. Targets(c) \subseteq Threads /\ Signalled(c) \subseteq Threads
      BY DEF IInv, TypeOK, Targets, Signalled
    <2>4. /\ Targets(c)' = Targets(c) /\ Signalled(c)' = Signalled(c)
          /\ Counted' = Counted /\ Arrived' = Arrived
          /\ Taken(c)' = Taken(c) /\ Departed(c)' = Departed(c)
      <3>1. Targets(c)' = Targets(c) /\ Signalled(c)' = Signalled(c)
        BY DEF CycleVars, Targets, Signalled
      <3>2. QED
        BY <2>3, <3>1 DEF SamePlaces, Counted, Arrived, Taken, Departed
    <2>5. OthersInv(c)' /\ CountInv(c)'
      BY <2>1, <2>2, <2>4 DEF CycleVars, SamePlaces, Cycle, OthersInv, CountInv
    <2>6. StopInv(c)' /\ StoppedInv(c)'
      BY <2>1, <2>2, <2>3, <2>4 DEF CycleVars, SamePlaces, Cycle, StopInv, StoppedInv
    <2>7. StartInv(c)'
      BY <2>1, <2>2, <2>3, <2>4 DEF CycleVars, SamePlaces, Cycle, StartInv
    <2>8. QED BY <2>5, <2>6, <2>7 DEF Cycle
  <1>3. QED BY <1>1, <1>2 DEF CycleInv

\* A signal under way means that a cycle is, and that its thread is signalled.
LEMMA SignalInCycle ==
  ASSUME IInv, NEW t \in Threads, sig[t] # "none" \/ ~Idle(t)
  PROVE  \E c \in Threads : pc[c] \in CollectorPC /\ Cycle(c) /\ t \in Signalled(c) /\ t # c
  <1>1. PICK c \in Threads : pc[c] \in CollectorPC
    BY DEF IInv, CleanBetweenCycles
  <1>2. Cycle(c)
    BY <1>1 DEF IInv, CycleInv
  <1>3. t \in Signalled(c)
    BY <1>2 DEF Cycle, OthersInv
  <1>4. QED BY <1>1, <1>2, <1>3 DEF Signalled, Targets

\* A thread with a signal on its way has left the handler, or is about to.
LEMMA SignalFindsIdle ==
  ASSUME IInv, NEW t \in Threads, sig[t] # "none"
  PROVE  Idle(t)
  <1>1. PICK c \in Threads : pc[c] \in CollectorPC /\ Cycle(c) /\ t \in Signalled(c) /\ t # c
    BY SignalInCycle
  <1>2. pc[c] \in {"suspend", "wait_stop"}
    BY <1>1 DEF Cycle, StoppedInv, StartInv, Signalled, CollectorPC
  <1>3. QED BY <1>1, <1>2 DEF Cycle, StopInv

\* A lock is held by a thread no cycle has signalled.
LEMMA SignalledHoldNothing ==
  ASSUME IInv, NEW t \in Threads, sig[t] # "none" \/ ~Idle(t)
  PROVE  t # m_lock /\ t # m_mutex
  <1>1. PICK c \in Threads : pc[c] \in CollectorPC /\ Cycle(c) /\ t \in Signalled(c) /\ t # c
    BY SignalInCycle
  <1>2. QED BY <1>1 DEF IInv, LockInv

\* A signal is deferred, or its handler starts.
SignalMoves(t) ==
    /\ sig[t] # "none"
    /\ Idle(t)
    /\ \/ sig' = [sig EXCEPT ![t] = "deferred"] /\ hpc' = hpc
       \/ sig' = [sig EXCEPT ![t] = "none"] /\ hpc' = [hpc EXCEPT ![t] = "count"]

LEMMA SignalFrame ==
  ASSUME IInv, SamePhases, NEW t \in Threads, SignalMoves(t), UNCHANGED CycleVars
  PROVE  CleanBetweenCycles' /\ CycleInv'
  <1>1. PICK c \in Threads : pc[c] \in CollectorPC /\ Cycle(c) /\ t \in Signalled(c) /\ t # c
    BY SignalInCycle DEF SignalMoves
  <1>2. pc'[c] = pc[c]
    BY <1>1 DEF SamePhases
  <1>3. pc[c] \in {"suspend", "wait_stop"}
    BY <1>1 DEF SignalMoves, Cycle, StoppedInv, StartInv, Signalled, CollectorPC
  <1>4. /\ Counted' = Counted /\ Arrived' = Arrived
        /\ Targets(c)' = Targets(c) /\ Signalled(c)' = Signalled(c)
    <2>1. \A u \in Threads : u # t => hpc'[u] = hpc[u]
      BY DEF IInv, TypeOK, SignalMoves
    <2>2. hpc[t] \in {"none", "leave"} /\ hpc'[t] \in {"none", "leave", "count"}
      BY DEF IInv, TypeOK, SignalMoves
    <2>3. Counted' = Counted /\ Arrived' = Arrived
      BY <2>1, <2>2 DEF Counted, Arrived
    <2>4. Targets(c)' = Targets(c) /\ Signalled(c)' = Signalled(c)
      BY DEF CycleVars, Targets, Signalled
    <2>5. QED BY <2>3, <2>4
  <1>5. /\ \A u \in Threads \ {t} : sig'[u] = sig[u] /\ hpc'[u] = hpc[u]
        /\ \/ sig'[t] # "none" /\ hpc'[t] \in {"none", "leave"}
           \/ sig'[t] = "none" /\ hpc'[t] = "count"
    BY DEF IInv, TypeOK, SignalMoves
  <1>6. OthersInv(c)' /\ CountInv(c)' /\ StopInv(c)'
    <2>1. OthersInv(c)'
      BY <1>1, <1>2, <1>4, <1>5 DEF Cycle, OthersInv, CycleVars
    <2>2. CountInv(c)'
      BY <1>1, <1>4 DEF Cycle, CountInv, CycleVars
    <2>3. Signalled(c) \in SUBSET Threads
      BY DEF IInv, TypeOK, Signalled, Targets
    <2>4. StopInv(c)'
      BY <1>1, <1>2, <1>3, <1>4, <1>5, <2>3 DEF Cycle, StopInv, CycleVars
    <2>5. QED BY <2>1, <2>2, <2>4
  <1>7. StoppedInv(c)' /\ StartInv(c)'
    BY <1>2, <1>3 DEF StoppedInv, StartInv
  <1>8. ASSUME NEW d \in Threads, pc'[d] \in CollectorPC
        PROVE  d = c
    BY <1>1, <1>8, OneCollector DEF IInv, SamePhases
  <1>9. CycleInv'
    BY <1>6, <1>7, <1>8 DEF CycleInv, Cycle
  <1>10. CleanBetweenCycles'
    BY <1>1, <1>2 DEF CleanBetweenCycles
  <1>11. QED BY <1>9, <1>10

-----------------------------------------------------------------------------
(* The threads' own steps                                                  *)

\* EnterUnsafe, and the steps before and after a cycle.
QuietStep(t) ==
    \/ EnterUnsafe(t) \/ StartRegister(t) \/ StartDeregister(t)
    \/ LockManager(t) \/ LockMutex(t) \/ UnlockMutex(t) \/ LeaveGC(t)

LEMMA QuietSteps ==
  ASSUME IInv, NEW t \in Threads, QuietStep(t)
  PROVE  IInv'
  <1> USE DEF At, Goto, lockVars, stwVars, waitVars, handlerVars
  <1>1. UNCHANGED <<CycleVars, sig, hpc, under>>
    BY DEF QuietStep, EnterUnsafe, StartRegister, StartDeregister, LockManager, LockMutex,
           UnlockMutex, LeaveGC, CycleVars
  <1>2. SamePhases
    BY DEF QuietStep, EnterUnsafe, StartRegister, StartDeregister, LockManager, LockMutex,
           UnlockMutex, LeaveGC, SamePhases, CollectorPC, IInv, TypeOK
  <1>3. TypeOK'
    <2> USE DEF IInv, TypeOK, PC
    <2>1. CASE EnterUnsafe(t)
      <3>1. /\ depth \in [Threads -> 0..MaxDepth] /\ depth[t] < MaxDepth
            /\ depth' = [depth EXCEPT ![t] = @ + 1]
        BY <2>1 DEF EnterUnsafe
      <3>2. depth' \in [Threads -> 0..MaxDepth]
        BY ONLY <3>1, MaxDepthAssumption
      <3>3. UNCHANGED <<lockVars, stwVars, waitVars, pc, saved, handlerVars>>
        BY <2>1 DEF EnterUnsafe
      <3>4. TypeOK
        BY DEF IInv
      <3>5. QED
        BY ONLY <3>2, <3>3, <3>4 DEF TypeOK, lockVars, stwVars, waitVars, handlerVars
    <2>2. CASE StartRegister(t) BY <2>2 DEF StartRegister
    <2>3. CASE StartDeregister(t) BY <2>3 DEF StartDeregister
    <2>4. CASE LockManager(t) BY <2>4 DEF LockManager
    <2>5. CASE LockMutex(t) BY <2>5 DEF LockMutex
    <2>6. CASE UnlockMutex(t) BY <2>6 DEF UnlockMutex
    <2>7. CASE LeaveGC(t) BY <2>7 DEF LeaveGC
    <2>8. QED BY <2>1, <2>2, <2>3, <2>4, <2>5, <2>6, <2>7 DEF QuietStep
  <1>4. LockInv'
    <2> USE ThreadsAssumption DEF IInv, TypeOK, LockInv, CollectorPC
    <2>1. CASE EnterUnsafe(t) BY <2>1 DEF EnterUnsafe
    <2>2. CASE StartRegister(t) BY <2>2 DEF StartRegister
    <2>3. CASE StartDeregister(t) BY <2>3 DEF StartDeregister
    <2>4. CASE LockManager(t) BY <2>4 DEF LockManager
    <2>5. CASE LockMutex(t) BY <2>5 DEF LockMutex
    <2>6. CASE UnlockMutex(t) BY <2>6 DEF UnlockMutex
    <2>7. CASE LeaveGC(t) BY <2>7 DEF LeaveGC
    <2>8. QED BY <2>1, <2>2, <2>3, <2>4, <2>5, <2>6, <2>7 DEF QuietStep
  <1>5. DepthInv'
    BY DEF QuietStep, EnterUnsafe, StartRegister, StartDeregister, LockManager, LockMutex,
           UnlockMutex, LeaveGC, DepthInv, IInv, TypeOK
  <1>6. FrameInv'
    BY <1>1 DEF IInv, FrameInv
  <1>7. LockHoldersRun'
    <2>1. CASE m_lock' \in {m_lock, None} /\ m_mutex' \in {m_mutex, None}
      BY <1>1, <2>1, ThreadsAssumption DEF IInv, LockHoldersRun
    <2>2. CASE LockManager(t) \/ LockMutex(t)
      <3>1. /\ m_lock = None \/ m_mutex = None
            /\ hpc[t] = "none"
            /\ m_lock' \in {m_lock, t} /\ m_mutex' \in {m_mutex, t}
        BY <2>2 DEF LockManager, LockMutex
      <3>2. sig[t] = "none"
        <4>1. \A c \in Threads : pc[c] \notin CollectorPC
          BY <3>1, ThreadsAssumption DEF IInv, LockInv
        <4>2. QED BY <4>1 DEF IInv, CleanBetweenCycles
      <3>3. QED BY <1>1, <3>1, <3>2 DEF IInv, LockHoldersRun
    <2>3. QED
      BY <2>1, <2>2 DEF QuietStep, EnterUnsafe, StartRegister, StartDeregister, UnlockMutex, LeaveGC
  <1>8. SamePlaces
    BY <1>1 DEF SamePlaces
  <1>9. QED
    BY <1>1, <1>2, <1>3, <1>4, <1>5, <1>6, <1>7, <1>8, Frame DEF IInv

\* The steps that answer or defer a signal: its delivery, and leaving the
\* outermost unsafe scope or entering the safe scope of gc.
LEMMA ScopeSteps ==
  ASSUME IInv, NEW t \in Threads, Deliver(t) \/ LeaveUnsafe(t) \/ EnterGC(t)
  PROVE  IInv'
  <1> USE DEF At, Goto, lockVars, stwVars, waitVars, handlerVars, threadVars, AnswerDeferred
  <1>1. UNCHANGED CycleVars
    BY DEF Deliver, LeaveUnsafe, EnterGC, CycleVars
  <1>2. SamePhases
    BY DEF Deliver, LeaveUnsafe, EnterGC, SamePhases, CollectorPC, IInv, TypeOK
  <1>3. SignalMoves(t) \/ UNCHANGED <<sig, hpc>>
    BY SignalFindsIdle DEF Deliver, LeaveUnsafe, EnterGC, SignalMoves
  <1>4. TypeOK'
    <2> USE DEF IInv, TypeOK, PC, HPC
    <2>1. CASE Deliver(t) BY <2>1 DEF Deliver
    <2>2. CASE LeaveUnsafe(t)
      <3>1. depth[t] - 1 \in 0..MaxDepth
        BY <2>2, MaxDepthAssumption DEF LeaveUnsafe
      <3>2. QED BY <2>2, <3>1 DEF LeaveUnsafe
    <2>3. CASE EnterGC(t)
      <3>1. depth' \in [Threads -> 0..MaxDepth] /\ saved' \in [Threads -> 0..MaxDepth]
        BY <2>3, MaxDepthAssumption DEF EnterGC
      <3>2. pc' \in [Threads -> PC]
        BY <2>3 DEF EnterGC
      <3>3. /\ hpc' \in [Threads -> HPC] /\ sig' \in [Threads -> {"none", "sent", "deferred"}]
            /\ UNCHANGED <<under, masked, idx>>
        BY <2>3 DEF EnterGC
      <3>4. QED BY <2>3, <3>1, <3>2, <3>3 DEF EnterGC
    <2>4. QED BY <2>1, <2>2, <2>3
  <1>5. LockInv'
    <2>1. UNCHANGED <<m_lock, m_mutex>>
      BY DEF Deliver, LeaveUnsafe, EnterGC
    <2>2. pc' = pc \/ (pc[t] = "user" /\ pc' = [pc EXCEPT ![t] = "gc_mutex"])
      BY DEF Deliver, LeaveUnsafe, EnterGC
    <2>3. LockInv /\ DOMAIN pc = Threads
      BY DEF IInv, TypeOK
    <2>4. CASE pc' = pc
      BY ONLY <2>1, <2>3, <2>4 DEF LockInv
    <2>5. CASE pc[t] = "user" /\ pc' = [pc EXCEPT ![t] = "gc_mutex"]
      <3>1. /\ pc'[t] = "gc_mutex" /\ \A u \in Threads : u # t => pc'[u] = pc[u]
        BY ONLY <2>3, <2>5, t \in Threads
      <3>2. QED BY ONLY <2>1, <2>3, <2>5, <3>1 DEF LockInv, CollectorPC
    <2>6. QED BY ONLY <2>2, <2>4, <2>5
  <1>6. DepthInv'
    <2> USE MaxDepthAssumption DEF IInv, TypeOK, DepthInv
    <2>1. CASE Deliver(t) BY <2>1 DEF Deliver
    <2>2. CASE LeaveUnsafe(t) BY <2>2 DEF LeaveUnsafe
    <2>3. CASE EnterGC(t) BY <2>3 DEF EnterGC
    <2>4. QED BY <2>1, <2>2, <2>3
  <1>7. FrameInv'
    <2>1. CASE Deliver(t)
      <3>1. Idle(t) /\ hpc \in [Threads -> HPC] /\ under \in [Threads -> HPC]
        BY <2>1, SignalFindsIdle DEF Deliver, IInv, TypeOK
      <3>2. \/ UNCHANGED <<hpc, under>>
            \/ /\ hpc' = [hpc EXCEPT ![t] = "count"]
               /\ under' = [under EXCEPT ![t] = hpc[t]]
        BY <2>1 DEF Deliver
      <3>3. QED BY <3>1, <3>2 DEF IInv, FrameInv
    <2>2. CASE LeaveUnsafe(t) \/ EnterGC(t)
      <3>1. /\ hpc[t] = "none" /\ under' = under
            /\ hpc' = hpc \/ hpc' = [hpc EXCEPT ![t] = "count"]
        BY <2>2 DEF LeaveUnsafe, EnterGC
      <3>2. QED BY <3>1 DEF IInv, TypeOK, FrameInv
    <2>3. QED BY <2>1, <2>2
  <1>8. LockHoldersRun'
    <2>1. UNCHANGED <<m_lock, m_mutex>>
      BY DEF Deliver, LeaveUnsafe, EnterGC
    <2>2. \/ UNCHANGED <<sig, hpc>>
          \/ /\ sig[t] # "none"
             /\ \A u \in Threads \ {t} : sig'[u] = sig[u] /\ hpc'[u] = hpc[u]
      BY <1>3 DEF SignalMoves, IInv, TypeOK
    <2>3. QED BY <2>1, <2>2, SignalledHoldNothing DEF IInv, LockHoldersRun
  <1>9. UNCHANGED <<sig, hpc>> => SamePlaces
    BY DEF SamePlaces
  <1>10. CleanBetweenCycles' /\ CycleInv'
    <2>1. CASE SignalMoves(t)
      <3>1. CycleInv' /\ CleanBetweenCycles'
        BY <1>1, <1>2, <2>1, SignalFrame
      <3>2. QED BY <3>1
    <2>2. CASE UNCHANGED <<sig, hpc>>
      BY <1>1, <1>2, <1>7, <1>9, <2>2, Frame
    <2>3. QED BY <1>3, <2>1, <2>2
  <1>11. QED BY <1>4, <1>5, <1>6, <1>7, <1>8, <1>10 DEF IInv

\* The handler's return, alone or to the one it interrupted.
LEMMA LeaveStep ==
  ASSUME IInv, NEW t \in Threads, HandlerLeave(t)
  PROVE  IInv'
  <1>1. /\ hpc[t] = "leave" /\ hpc' = [hpc EXCEPT ![t] = under[t]]
        /\ under' = [under EXCEPT ![t] = "none"]
        /\ masked' = [masked EXCEPT ![t] = FALSE]
        /\ under[t] \in {"none", "leave"}
        /\ UNCHANGED <<CycleVars, sig, lockVars, stwVars, waitVars, threadVars, idx>>
    BY DEF HandlerLeave, IInv, FrameInv, CycleVars, lockVars, stwVars, waitVars
  <1>2. SamePhases /\ SamePlaces
    BY <1>1 DEF SamePhases, SamePlaces, threadVars, IInv, TypeOK
  <1>3. TypeOK'
    BY <1>1 DEF lockVars, stwVars, waitVars, threadVars, IInv, TypeOK, HPC
  <1>4. LockInv'
    BY <1>1 DEF lockVars, threadVars, IInv, LockInv
  <1>5. DepthInv'
    BY <1>1 DEF threadVars, IInv, TypeOK, DepthInv
  <1>6. FrameInv'
    BY <1>1 DEF IInv, TypeOK, FrameInv
  <1>7. LockHoldersRun'
    BY <1>1 DEF lockVars, IInv, TypeOK, LockHoldersRun
  <1>8. CleanBetweenCycles' /\ CycleInv'
    BY <1>1, <1>2, <1>6, Frame
  <1>9. QED BY <1>3, <1>4, <1>5, <1>6, <1>7, <1>8 DEF IInv

\* While a thread is in the manager, no cycle runs.
LEMMA ManagerSteps ==
  ASSUME IInv, NEW t \in Threads, RegisterThread(t) \/ DeregisterThread(t)
  PROVE  IInv'
  <1> USE DEF At, Goto, lockVars, stwVars, waitVars, handlerVars, RegisterThread, DeregisterThread
  <1>1. m_lock = t /\ pc[t] \notin CollectorPC
    BY DEF IInv, LockInv, CollectorPC
  <1>2. \A c \in Threads : pc[c] \notin CollectorPC /\ pc'[c] \notin CollectorPC
    BY <1>1 DEF IInv, TypeOK, LockInv, CollectorPC
  <1>3. CleanBetweenCycles' /\ CycleInv'
    BY <1>2 DEF IInv, CleanBetweenCycles, CycleInv
  <1>4. TypeOK'
    BY DEF IInv, TypeOK, PC
  <1>5. LockInv'
    <2>1. CASE RegisterThread(t)
      BY <1>1, <2>1, ThreadsAssumption DEF IInv, TypeOK, LockInv, CollectorPC
    <2>2. CASE DeregisterThread(t)
      BY <1>1, <2>2, ThreadsAssumption DEF IInv, TypeOK, LockInv, CollectorPC
    <2>3. QED BY <2>1, <2>2
  <1>6. DepthInv' /\ FrameInv'
    BY DEF IInv, TypeOK, DepthInv, FrameInv
  <1>7. LockHoldersRun'
    BY ThreadsAssumption DEF IInv, LockHoldersRun
  <1>8. QED BY <1>3, <1>4, <1>5, <1>6, <1>7 DEF IInv

-----------------------------------------------------------------------------
(* The handler's steps                                                     *)

\* What all of them share: the handler of t goes from one place to another in
\* the cycle of c, and only t moves.
HandlerMoves(t, from, to) ==
    /\ hpc[t] = from
    /\ hpc' = [hpc EXCEPT ![t] = to]
    /\ UNCHANGED <<registered, m_lock, m_mutex, m_threads_cnt, todo, moved,
                   pc, depth, saved, sig, under>>

LEMMA HandlerFrame ==
  ASSUME IInv, NEW t \in Threads, NEW c \in Threads,
         NEW from \in HPC \ {"none", "leave"}, NEW to \in HPC \ {"none"},
         HandlerMoves(t, from, to),
         pc[c] \in CollectorPC,
         TypeOK', CountInv(c)', StopInv(c)', StoppedInv(c)', StartInv(c)'
  PROVE  IInv'
  <1>1. t \in Signalled(c)
    BY DEF IInv, CycleInv, Cycle, OthersInv, HandlerMoves
  <1>2. OthersInv(c)'
    <2>1. \A u \in Threads \ {t} : hpc'[u] = hpc[u]
      BY DEF IInv, TypeOK, HandlerMoves
    <2>2. Signalled(c)' = Signalled(c) /\ Targets(c)' = Targets(c)
      BY DEF HandlerMoves, Signalled, Targets
    <2>3. OthersInv(c)
      BY DEF IInv, CycleInv, Cycle
    <2>4. QED BY <1>1, <2>1, <2>2, <2>3 DEF OthersInv, HandlerMoves
  <1>3. LockInv'
    BY DEF IInv, LockInv, HandlerMoves
  <1>4. DepthInv' /\ FrameInv'
    BY DEF IInv, TypeOK, DepthInv, FrameInv, HandlerMoves
  <1>5. CleanBetweenCycles' /\ LockHoldersRun'
    <2>1. CleanBetweenCycles'
      BY DEF CleanBetweenCycles, HandlerMoves
    <2>2. t # m_lock /\ t # m_mutex
      BY SignalledHoldNothing DEF HandlerMoves
    <2>3. LockHoldersRun'
      BY <2>2 DEF IInv, TypeOK, LockHoldersRun, HandlerMoves
    <2>4. QED BY <2>1, <2>3
  <1>6. ASSUME NEW d \in Threads, pc'[d] \in CollectorPC
        PROVE  d = c
    BY <1>6, OneCollector DEF IInv, HandlerMoves
  <1>7. Cycle(c)'
    BY <1>2 DEF Cycle
  <1>8. CycleInv'
    BY <1>6, <1>7 DEF CycleInv
  <1>9. QED BY <1>3, <1>4, <1>5, <1>8 DEF IInv

LEMMA CountStep ==
  ASSUME IInv, NEW t \in Threads, HandlerCount(t)
  PROVE  IInv'
  <1>1. PICK c \in Threads : pc[c] \in CollectorPC /\ Cycle(c) /\ t \in Signalled(c) /\ t # c
    BY SignalInCycle DEF HandlerCount
  <1>2. HandlerMoves(t, "count", "publish")
    BY DEF HandlerCount, HandlerMoves, lockVars, waitVars, threadVars
  <1>3. pc[c] \in {"suspend", "wait_stop"}
    BY <1>1, <1>2 DEF HandlerMoves, Cycle, StoppedInv, StartInv, Signalled, CollectorPC
  <1>4. /\ hpc'[t] = "publish"
        /\ \A u \in Threads \ {t} : hpc'[u] = hpc[u]
    BY <1>2 DEF IInv, TypeOK, HandlerMoves
  <1>5. Counted' = Counted \cup {t} /\ t \notin Counted
    BY <1>2, <1>4 DEF Counted, HandlerMoves
  <1>6. Arrived' = Arrived /\ Signalled(c)' = Signalled(c)
    BY <1>2, <1>4 DEF Arrived, Signalled, Targets, HandlerMoves
  <1>7. Cardinality(Counted') = m_threads_suspended_cnt'
    BY <1>1, <1>5, FS_AddElement, SetSizes DEF IInv, Cycle, CountInv, HandlerCount
  <1>8. TypeOK'
    BY DEF HandlerCount, IInv, TypeOK, HPC, lockVars, waitVars, threadVars
  <1>9. CountInv(c)'
    BY <1>1, <1>2, <1>6, <1>7 DEF Cycle, CountInv, HandlerMoves
  <1>10. StopInv(c)'
    <2>1. event' = event /\ barrier' = barrier
      BY DEF HandlerCount
    <2>2. Signalled(c) \in SUBSET Threads
      BY DEF IInv, TypeOK, Signalled, Targets
    <2>3. QED BY <1>1, <1>2, <1>3, <1>4, <1>6, <2>1, <2>2 DEF Cycle, StopInv, HandlerMoves
  <1>11. StoppedInv(c)' /\ StartInv(c)'
    BY <1>2, <1>3 DEF StoppedInv, StartInv, HandlerMoves
  <1>12. QED
    BY <1>1, <1>2, <1>8, <1>9, <1>10, <1>11, HandlerFrame DEF HPC

LEMMA PublishStep ==
  ASSUME IInv, NEW t \in Threads, HandlerPublish(t)
  PROVE  IInv'
  <1>1. PICK c \in Threads : pc[c] \in CollectorPC /\ Cycle(c) /\ t \in Signalled(c) /\ t # c
    BY SignalInCycle DEF HandlerPublish
  <1>2. HandlerMoves(t, "publish", "arrive")
    BY DEF HandlerPublish, HandlerMoves, lockVars, waitVars, threadVars
  <1>3. pc[c] \in {"suspend", "wait_stop"}
    BY <1>1, <1>2 DEF HandlerMoves, Cycle, StoppedInv, StartInv, Signalled, CollectorPC
  <1>4. /\ hpc'[t] = "arrive"
        /\ \A u \in Threads \ {t} : hpc'[u] = hpc[u]
    BY <1>2 DEF IInv, TypeOK, HandlerMoves
  <1>5. Counted' = Counted /\ Arrived' = Arrived /\ Signalled(c)' = Signalled(c)
    BY <1>2, <1>4 DEF Counted, Arrived, Signalled, Targets, HandlerMoves
  <1>6. TypeOK'
    BY DEF HandlerPublish, IInv, TypeOK, HPC, lockVars, waitVars, threadVars
  <1>7. CountInv(c)'
    BY <1>1, <1>2, <1>5 DEF Cycle, CountInv, HandlerMoves, HandlerPublish
  <1>8. StopInv(c)'
    <2>1. event' = event /\ barrier' = barrier
      BY DEF HandlerPublish
    <2>2. Signalled(c) \in SUBSET Threads
      BY DEF IInv, TypeOK, Signalled, Targets
    <2>3. QED BY <1>1, <1>2, <1>3, <1>4, <1>5, <2>1, <2>2 DEF Cycle, StopInv, HandlerMoves
  <1>9. StoppedInv(c)' /\ StartInv(c)'
    BY <1>2, <1>3 DEF StoppedInv, StartInv, HandlerMoves
  <1>10. QED
    BY <1>1, <1>2, <1>6, <1>7, <1>8, <1>9, HandlerFrame DEF HPC

LEMMA ArriveStep ==
  ASSUME IInv, NEW t \in Threads, HandlerArrive(t)
  PROVE  IInv'
  <1>1. PICK c \in Threads : pc[c] \in CollectorPC /\ Cycle(c) /\ t \in Signalled(c) /\ t # c
    BY SignalInCycle DEF HandlerArrive
  <1>2. HandlerMoves(t, "arrive", "wait")
    BY DEF HandlerArrive, HandlerMoves, lockVars, waitVars, threadVars
  <1>3. pc[c] \in {"suspend", "wait_stop"}
    BY <1>1, <1>2 DEF HandlerMoves, Cycle, StoppedInv, StartInv, Signalled, CollectorPC
  <1>4. /\ hpc'[t] = "wait"
        /\ \A u \in Threads \ {t} : hpc'[u] = hpc[u]
    BY <1>2 DEF IInv, TypeOK, HandlerMoves
  <1>5. Counted' = Counted /\ Signalled(c)' = Signalled(c)
    BY <1>2, <1>4 DEF Counted, Signalled, Targets, HandlerMoves
  <1>6. Arrived' = Arrived \cup {t} /\ t \notin Arrived
    BY <1>2, <1>4 DEF Arrived, HandlerMoves
  <1>7. barrier' + moved' = Cardinality(Arrived')
    <2>1. Cardinality(Arrived') = Cardinality(Arrived) + 1
      BY <1>1, <1>6, FS_AddElement, SetSizes DEF IInv
    <2>2. barrier + moved = Cardinality(Arrived)
      BY <1>1, <1>3 DEF Cycle, StopInv
    <2>3. QED BY <1>2, <2>1, <2>2 DEF IInv, TypeOK, HandlerArrive, HandlerMoves
  <1>8. TypeOK'
    BY DEF HandlerArrive, IInv, TypeOK, HPC, lockVars, waitVars, threadVars
  <1>9. CountInv(c)'
    BY <1>1, <1>2, <1>5 DEF Cycle, CountInv, HandlerMoves, HandlerArrive
  <1>10. StopInv(c)'
    <2>1. event' = event
      BY DEF HandlerArrive
    <2>2. Signalled(c) \in SUBSET Threads
      BY DEF IInv, TypeOK, Signalled, Targets
    <2>3. \A u \in Signalled(c) :
            \/ sig'[u] # "none" /\ hpc'[u] \in {"none", "leave"}
            \/ sig'[u] = "none" /\ hpc'[u] \in {"count", "publish", "arrive", "wait"}
      BY <1>1, <1>2, <1>3, <1>4, <2>2 DEF Cycle, StopInv, HandlerMoves
    <2>4. QED BY <1>1, <1>2, <1>3, <1>5, <1>7, <2>1, <2>3 DEF Cycle, StopInv, HandlerMoves
  <1>11. StoppedInv(c)' /\ StartInv(c)'
    BY <1>2, <1>3 DEF StoppedInv, StartInv, HandlerMoves
  <1>12. QED
    BY <1>1, <1>2, <1>8, <1>9, <1>10, <1>11, HandlerFrame DEF HPC

\* The byte taken from m_event turns into a thread on its way out.
LEMMA ResumeStep ==
  ASSUME IInv, NEW t \in Threads, HandlerResume(t)
  PROVE  IInv'
  <1>1. PICK c \in Threads : pc[c] \in CollectorPC /\ Cycle(c) /\ t \in Signalled(c) /\ t # c
    BY SignalInCycle DEF HandlerResume
  <1>2. HandlerMoves(t, "wait", "uncount")
    BY DEF HandlerResume, HandlerMoves, lockVars, waitVars, threadVars
  <1>3. event > 0 /\ event' = event - 1 /\ barrier' = barrier
    BY DEF HandlerResume
  <1>4. pc[c] \in {"notify", "wait_start"}
    BY <1>1, <1>3 DEF IInv, TypeOK, Cycle, StopInv, StoppedInv, CollectorPC
  <1>5. /\ hpc'[t] = "uncount"
        /\ \A u \in Threads \ {t} : hpc'[u] = hpc[u]
    BY <1>2 DEF IInv, TypeOK, HandlerMoves
  <1>6. Counted' = Counted /\ Signalled(c)' = Signalled(c)
    BY <1>2, <1>5 DEF Counted, Signalled, Targets, HandlerMoves
  <1>7. t \in Targets(c) /\ Targets(c)' = Targets(c) /\ Targets(c) \in SUBSET Threads
    BY <1>1, <1>2 DEF IInv, TypeOK, Signalled, Targets, HandlerMoves
  <1>8. Taken(c)' = Taken(c) \cup {t} /\ t \notin Taken(c) /\ Departed(c)' = Departed(c)
    BY <1>2, <1>5, <1>7 DEF Taken, Departed, HandlerMoves
  <1>9. TypeOK'
    BY <1>3 DEF HandlerResume, IInv, TypeOK, HPC, lockVars, waitVars, threadVars
  <1>10. CountInv(c)'
    BY <1>1, <1>2, <1>6 DEF Cycle, CountInv, HandlerMoves, HandlerResume
  <1>11. StartInv(c)'
    <2>1. Cardinality(Taken(c)') = Cardinality(Taken(c)) + 1 /\ Cardinality(Taken(c)) \in Nat
      BY <1>8, FS_AddElement, SetSizes DEF IInv
    <2>2. StartInv(c) /\ event \in Nat
      BY <1>1 DEF IInv, TypeOK, Cycle
    <2>3. event' + Cardinality(Taken(c)') = event + Cardinality(Taken(c))
      BY <1>3, <2>1, <2>2
    <2>4. \A u \in Targets(c) : sig'[u] = "none" /\ LeavingPC(hpc'[u])
      BY <1>2, <1>4, <1>5, <1>7, <2>2 DEF StartInv, HandlerMoves
    <2>5. QED BY <1>2, <1>3, <1>4, <1>7, <1>8, <2>2, <2>3, <2>4 DEF StartInv, HandlerMoves
  <1>12. StopInv(c)' /\ StoppedInv(c)'
    BY <1>2, <1>4 DEF StopInv, StoppedInv, HandlerMoves
  <1>13. QED
    BY <1>1, <1>2, <1>9, <1>10, <1>11, <1>12, HandlerFrame DEF HPC

LEMMA UncountStep ==
  ASSUME IInv, NEW t \in Threads, HandlerUncount(t)
  PROVE  IInv'
  <1>1. PICK c \in Threads : pc[c] \in CollectorPC /\ Cycle(c) /\ t \in Signalled(c) /\ t # c
    BY SignalInCycle DEF HandlerUncount
  <1>2. HandlerMoves(t, "uncount", "depart")
    BY DEF HandlerUncount, HandlerMoves, lockVars, waitVars, threadVars
  <1>3. t \in Targets(c) /\ Targets(c)' = Targets(c) /\ Targets(c) \in SUBSET Threads
    BY <1>1, <1>2 DEF IInv, TypeOK, Signalled, Targets, HandlerMoves
  <1>4. pc[c] \in {"notify", "wait_start"}
    BY <1>1, <1>2, <1>3 DEF HandlerMoves, Cycle, StopInv, StoppedInv, CollectorPC
  <1>5. /\ hpc'[t] = "depart"
        /\ \A u \in Threads \ {t} : hpc'[u] = hpc[u]
    BY <1>2 DEF IInv, TypeOK, HandlerMoves
  <1>6. Counted' = Counted \ {t} /\ t \in Counted /\ Signalled(c)' = Signalled(c)
    BY <1>2, <1>5 DEF Counted, Signalled, Targets, HandlerMoves
  <1>7. Cardinality(Counted') = Cardinality(Counted) - 1 /\ Cardinality(Counted') \in Nat
    <2>1. Cardinality(Counted') = Cardinality(Counted) - 1
      BY <1>6, FS_RemoveElement, SetSizes DEF IInv
    <2>2. Counted' \in SUBSET Threads
      BY DEF Counted
    <2>3. QED BY <2>1, <2>2, SubsetsFinite
  <1>8. m_threads_suspended_cnt' = Cardinality(Counted')
    BY <1>1, <1>7 DEF Cycle, CountInv, HandlerUncount
  <1>9. TypeOK'
    <2>1. m_threads_suspended_cnt' \in Nat
      BY <1>7, <1>8
    <2>2. QED BY <2>1 DEF HandlerUncount, IInv, TypeOK, HPC, lockVars, waitVars, threadVars
  <1>10. CountInv(c)'
    BY <1>1, <1>2, <1>6, <1>8 DEF Cycle, CountInv, HandlerMoves
  <1>11. StartInv(c)'
    <2>1. Taken(c)' = Taken(c) /\ Departed(c)' = Departed(c)
      BY <1>2, <1>3, <1>5 DEF Taken, Departed, HandlerMoves
    <2>2. \A u \in Targets(c) : sig'[u] = "none" /\ LeavingPC(hpc'[u])
      BY <1>1, <1>2, <1>3, <1>4, <1>5 DEF Cycle, StartInv, HandlerMoves
    <2>3. event' = event /\ barrier' = barrier
      BY DEF HandlerUncount
    <2>4. QED BY <1>1, <1>2, <1>3, <1>4, <2>1, <2>2, <2>3 DEF Cycle, StartInv, HandlerMoves
  <1>12. StopInv(c)' /\ StoppedInv(c)'
    BY <1>2, <1>4 DEF StopInv, StoppedInv, HandlerMoves
  <1>13. QED
    BY <1>1, <1>2, <1>9, <1>10, <1>11, <1>12, HandlerFrame DEF HPC

LEMMA DepartStep ==
  ASSUME IInv, NEW t \in Threads, HandlerDepart(t)
  PROVE  IInv'
  <1>1. PICK c \in Threads : pc[c] \in CollectorPC /\ Cycle(c) /\ t \in Signalled(c) /\ t # c
    BY SignalInCycle DEF HandlerDepart
  <1>2. HandlerMoves(t, "depart", "leave")
    BY DEF HandlerDepart, HandlerMoves, lockVars, waitVars, threadVars
  <1>3. t \in Targets(c) /\ Targets(c)' = Targets(c) /\ Targets(c) \in SUBSET Threads
    BY <1>1, <1>2 DEF IInv, TypeOK, Signalled, Targets, HandlerMoves
  <1>4. pc[c] \in {"notify", "wait_start"}
    BY <1>1, <1>2, <1>3 DEF HandlerMoves, Cycle, StopInv, StoppedInv, CollectorPC
  <1>5. /\ hpc'[t] = "leave"
        /\ \A u \in Threads \ {t} : hpc'[u] = hpc[u]
    BY <1>2 DEF IInv, TypeOK, HandlerMoves
  <1>6. Counted' = Counted /\ Signalled(c)' = Signalled(c)
    BY <1>2, <1>5 DEF Counted, Signalled, Targets, HandlerMoves
  <1>7. Departed(c)' = Departed(c) \cup {t} /\ t \notin Departed(c) /\ Taken(c)' = Taken(c)
    BY <1>2, <1>3, <1>5 DEF Taken, Departed, HandlerMoves
  <1>8. TypeOK'
    BY DEF HandlerDepart, IInv, TypeOK, HPC, lockVars, waitVars, threadVars
  <1>9. CountInv(c)'
    BY <1>1, <1>2, <1>6 DEF Cycle, CountInv, HandlerMoves, HandlerDepart
  <1>10. StartInv(c)'
    <2>1. Cardinality(Departed(c)') = Cardinality(Departed(c)) + 1
      BY <1>7, FS_AddElement, SetSizes DEF IInv
    <2>2. \A u \in Targets(c) : sig'[u] = "none" /\ LeavingPC(hpc'[u])
      BY <1>1, <1>2, <1>3, <1>4, <1>5 DEF Cycle, StartInv, HandlerMoves
    <2>3. event' = event /\ barrier' = barrier + 1 /\ barrier \in Nat /\ moved \in Nat
      BY DEF HandlerDepart, IInv, TypeOK
    <2>4. StartInv(c)
      BY <1>1 DEF Cycle
    <2>5. barrier' + (IF pc[c] = "notify" THEN 0 ELSE moved) = Cardinality(Departed(c)')
      BY <1>4, <2>1, <2>3, <2>4 DEF StartInv
    <2>6. QED BY <1>2, <1>3, <1>4, <1>7, <2>2, <2>3, <2>4, <2>5 DEF StartInv, HandlerMoves
  <1>11. StopInv(c)' /\ StoppedInv(c)'
    BY <1>2, <1>4 DEF StopInv, StoppedInv, HandlerMoves
  <1>12. QED
    BY <1>1, <1>2, <1>8, <1>9, <1>10, <1>11, HandlerFrame DEF HPC

-----------------------------------------------------------------------------
(* The collector's steps                                                   *)

\* A step inside the cycle of c, from one of its places to another.
CollectorMoves(c, to) ==
    /\ pc[c] \in CollectorPC
    /\ pc' = [pc EXCEPT ![c] = to]
    /\ UNCHANGED <<lockVars, m_threads_suspended_cnt, m_stack_ends,
                   depth, saved, hpc, under, masked, idx>>

LEMMA CollectorFrame ==
  ASSUME IInv, NEW c \in Threads, NEW to \in CollectorPC, CollectorMoves(c, to),
         m_threads_cnt' \in Nat, barrier' \in Nat, event' \in Nat, moved' \in Nat,
         todo' \in SUBSET Threads,
         sig' \in [Threads -> {"none", "sent", "deferred"}],
         sig'[c] = sig[c],
         Cycle(c)'
  PROVE  IInv'
  <1>1. /\ pc'[c] = to
        /\ \A d \in Threads \ {c} : pc'[d] = pc[d]
    BY DEF IInv, TypeOK, CollectorMoves
  <1>2. TypeOK'
    BY DEF IInv, TypeOK, CollectorMoves, lockVars, PC
  <1>3. LockInv'
    BY <1>1 DEF IInv, LockInv, CollectorMoves, lockVars
  <1>4. DepthInv'
    BY <1>1 DEF IInv, DepthInv, CollectorMoves, CollectorPC
  <1>5. CleanBetweenCycles'
    BY <1>1 DEF CleanBetweenCycles
  <1>6. ASSUME NEW d \in Threads, pc'[d] \in CollectorPC
        PROVE  d = c
    BY <1>1, <1>6, OneCollector DEF IInv, CollectorMoves
  <1>7. CycleInv'
    BY <1>6 DEF CycleInv
  <1>8. FrameInv'
    BY DEF IInv, FrameInv, CollectorMoves
  <1>9. LockHoldersRun'
    <2>1. m_lock = c /\ m_mutex = c
      BY DEF IInv, LockInv, CollectorMoves
    <2>2. QED BY <2>1 DEF IInv, LockHoldersRun, CollectorMoves, lockVars
  <1>10. QED BY <1>2, <1>3, <1>4, <1>5, <1>7, <1>8, <1>9 DEF IInv

\* hpc and registered stay, so do the sets made of them.
LEMMA CollectorSets ==
  ASSUME NEW c \in Threads, NEW to, CollectorMoves(c, to)
  PROVE  /\ Targets(c)' = Targets(c) /\ Counted' = Counted /\ Arrived' = Arrived
         /\ Taken(c)' = Taken(c) /\ Departed(c)' = Departed(c)
         /\ (todo' = todo => Signalled(c)' = Signalled(c))
  BY DEF CollectorMoves, lockVars, Targets, Counted, Arrived, Taken, Departed, Signalled

LEMMA SuspendStep ==
  ASSUME IInv, NEW c \in Threads, NEW u \in Threads, SuspendThread(c, u)
  PROVE  IInv'
  <1>1. pc[c] = "suspend" /\ pc' = pc /\ u \in todo
    BY DEF SuspendThread, At, threadVars
  <1>2. CollectorMoves(c, "suspend")
    BY <1>1 DEF SuspendThread, At, threadVars, CollectorMoves, CollectorPC, lockVars, IInv, TypeOK
  <1>3. Cycle(c)
    BY <1>1 DEF IInv, CycleInv, CollectorPC
  <1>4. /\ u \in Targets(c) /\ u \notin Signalled(c)
        /\ Signalled(c)' = Signalled(c) \cup {u}
        /\ sig[u] = "none" /\ Idle(u) /\ u # c
    BY <1>1, <1>2, <1>3, CollectorSets DEF Cycle, OthersInv, Signalled, SuspendThread, Targets
  <1>5. m_threads_cnt' = Cardinality(Signalled(c)')
    BY <1>3, <1>4, FS_AddElement, SetSizes DEF IInv, Cycle, CountInv, SuspendThread
  <1>6. /\ sig'[u] = "sent" /\ \A t \in Threads \ {u} : sig'[t] = sig[t]
        /\ hpc' = hpc
        /\ sig' \in [Threads -> {"none", "sent", "deferred"}]
    BY DEF SuspendThread, IInv, TypeOK
  <1>7. Signalled(c) \in SUBSET Threads /\ todo' \in SUBSET Threads
    BY DEF IInv, TypeOK, Signalled, Targets, SuspendThread
  <1>8. OthersInv(c)'
    BY <1>1, <1>2, <1>3, <1>4, <1>6, CollectorSets DEF Cycle, OthersInv, SuspendThread
  <1>9. CountInv(c)'
    BY <1>2, <1>3, <1>5, CollectorSets DEF Cycle, CountInv, SuspendThread, IInv, TypeOK
  <1>10. StopInv(c)'
    BY <1>1, <1>2, <1>3, <1>4, <1>6, <1>7, CollectorSets DEF Cycle, StopInv, SuspendThread
  <1>11. StoppedInv(c)' /\ StartInv(c)'
    BY <1>1 DEF StoppedInv, StartInv
  <1>12. Cycle(c)'
    BY <1>8, <1>9, <1>10, <1>11 DEF Cycle
  <1>13. m_threads_cnt' \in Nat /\ barrier' \in Nat /\ event' \in Nat /\ moved' \in Nat
    BY DEF SuspendThread, IInv, TypeOK
  <1>14. sig'[c] = sig[c]
    BY <1>4, <1>6
  <1>15. QED BY <1>2, <1>6, <1>7, <1>12, <1>13, <1>14, CollectorFrame DEF CollectorPC

LEMMA AllSignalledStep ==
  ASSUME IInv, NEW c \in Threads, AllSignalled(c)
  PROVE  IInv'
  <1>1. CollectorMoves(c, "wait_stop")
    BY DEF AllSignalled, At, Goto, stwVars, handlerVars, CollectorMoves, CollectorPC
  <1>2. pc[c] = "suspend" /\ pc'[c] = "wait_stop" /\ Cycle(c)
    BY DEF AllSignalled, At, Goto, IInv, TypeOK, CycleInv, CollectorPC
  <1>3. UNCHANGED <<m_threads_cnt, m_threads_suspended_cnt, barrier, event, todo, moved, sig, hpc>> /\ todo = {}
    BY DEF AllSignalled, stwVars, waitVars, handlerVars
  <1>4. OthersInv(c)' /\ CountInv(c)'
    BY <1>1, <1>2, <1>3, CollectorSets DEF Cycle, OthersInv, CountInv
  <1>5. StopInv(c)'
    BY <1>1, <1>2, <1>3, CollectorSets DEF Cycle, StopInv
  <1>6. Cycle(c)'
    BY <1>2, <1>4, <1>5 DEF Cycle, StoppedInv, StartInv
  <1>7. QED BY <1>1, <1>3, <1>6, CollectorFrame DEF CollectorPC, IInv, TypeOK

\* Bytes go from the pipe to the count of what was read.
LEMMA BarrierReadStep ==
  ASSUME IInv, NEW c \in Threads, BarrierRead(c)
  PROVE  IInv'
  <1>1. PICK k \in Chunk : k <= barrier /\ barrier' = barrier - k /\ moved' = moved + k
    BY DEF BarrierRead
  <1>2. k \in Nat /\ k <= m_threads_cnt - moved /\ barrier' \in Nat /\ moved' \in Nat
    BY <1>1, BufAssumption DEF Chunk, IInv, TypeOK
  <1>3. /\ pc[c] \in {"wait_stop", "wait_start"} /\ pc' = pc
        /\ UNCHANGED <<m_threads_cnt, m_threads_suspended_cnt, event, todo, sig, hpc>>
    BY DEF BarrierRead, At, threadVars, handlerVars
  <1>4. CollectorMoves(c, pc[c])
    BY <1>3 DEF BarrierRead, threadVars, handlerVars, CollectorMoves, CollectorPC, IInv, TypeOK
  <1>5. Cycle(c)
    BY <1>3 DEF IInv, CycleInv, CollectorPC
  <1>6. OthersInv(c)'
    BY <1>3, <1>4, <1>5, CollectorSets DEF Cycle, OthersInv
  <1>7. CountInv(c)'
    BY <1>1, <1>2, <1>3, <1>4, <1>5, CollectorSets DEF Cycle, CountInv, IInv, TypeOK
  <1>8. barrier' + moved' = barrier + moved
    BY <1>1, <1>2 DEF IInv, TypeOK
  <1>9. StopInv(c)'
    BY <1>3, <1>4, <1>5, <1>8, CollectorSets DEF Cycle, StopInv
  <1>10. StartInv(c)' /\ StoppedInv(c)'
    BY <1>3, <1>4, <1>5, <1>8, CollectorSets DEF Cycle, StartInv, StoppedInv
  <1>11. Cycle(c)'
    BY <1>6, <1>7, <1>9, <1>10 DEF Cycle
  <1>12. QED BY <1>2, <1>3, <1>4, <1>11, CollectorFrame DEF CollectorPC, IInv, TypeOK

\* All the arrivals have been read: every target has arrived, none is early.
LEMMA WorldStoppedStep ==
  ASSUME IInv, NEW c \in Threads, WorldStopped(c)
  PROVE  IInv'
  <1>1. CollectorMoves(c, "stopped")
    BY DEF WorldStopped, At, Goto, stwVars, handlerVars, CollectorMoves, CollectorPC
  <1>2. pc[c] = "wait_stop" /\ pc'[c] = "stopped" /\ Cycle(c)
    BY DEF WorldStopped, At, Goto, IInv, TypeOK, CycleInv, CollectorPC
  <1>3. /\ UNCHANGED <<m_threads_cnt, m_threads_suspended_cnt, barrier, event, todo, moved, sig, hpc>>
        /\ moved = m_threads_cnt
    BY DEF WorldStopped, stwVars, waitVars, handlerVars
  <1>4. Signalled(c) = Targets(c)
    BY <1>2 DEF Cycle, OthersInv, Signalled
  <1>5. Arrived \in SUBSET Targets(c)
    BY <1>2 DEF Cycle, OthersInv, Arrived, Signalled
  <1>6. barrier = 0 /\ Arrived = Targets(c)
    <2>1. barrier + m_threads_cnt = Cardinality(Arrived) /\ m_threads_cnt = Cardinality(Targets(c))
      BY <1>2, <1>3, <1>4 DEF Cycle, StopInv, CountInv
    <2>2. Cardinality(Arrived) <= Cardinality(Targets(c))
      BY <1>5, FS_Subset, SetSizes DEF IInv
    <2>3. barrier \in Nat /\ Cardinality(Arrived) \in Nat /\ Cardinality(Targets(c)) \in Nat
      BY SetSizes DEF IInv, TypeOK
    <2>4. barrier = 0 /\ Cardinality(Arrived) = Cardinality(Targets(c))
      BY <2>1, <2>2, <2>3
    <2>5. QED BY <1>5, <2>4, FS_Subset, SetSizes DEF IInv
  <1>7. StoppedInv(c)'
    BY <1>1, <1>2, <1>3, <1>4, <1>6, CollectorSets DEF Cycle, StopInv, StoppedInv, Arrived
  <1>8. OthersInv(c)' /\ CountInv(c)'
    BY <1>1, <1>2, <1>3, CollectorSets DEF Cycle, OthersInv, CountInv
  <1>9. Cycle(c)'
    BY <1>2, <1>7, <1>8 DEF Cycle, StopInv, StartInv
  <1>10. QED BY <1>1, <1>3, <1>9, CollectorFrame DEF CollectorPC, IInv, TypeOK

LEMMA StartWorldStep ==
  ASSUME IInv, NEW c \in Threads, StartWorld(c)
  PROVE  IInv'
  <1>1. CollectorMoves(c, "notify")
    BY DEF StartWorld, At, Goto, stwVars, handlerVars, CollectorMoves, CollectorPC
  <1>2. pc[c] = "stopped" /\ pc'[c] = "notify" /\ Cycle(c)
    BY DEF StartWorld, At, Goto, IInv, TypeOK, CycleInv, CollectorPC
  <1>3. /\ UNCHANGED <<m_threads_cnt, m_threads_suspended_cnt, barrier, event, todo, sig, hpc>>
        /\ moved' = 0
    BY DEF StartWorld, stwVars, handlerVars
  <1>4. /\ event = 0 /\ barrier = 0
        /\ \A t \in Targets(c) : sig[t] = "none" /\ hpc[t] = "wait"
    BY <1>2 DEF Cycle, StoppedInv
  <1>5. Cardinality(Taken(c)) = 0 /\ Cardinality(Departed(c)) = 0
    <2>1. Taken(c) = {} /\ Departed(c) = {}
      BY <1>4 DEF Taken, Departed
    <2>2. QED BY <2>1, FS_EmptySet
  <1>6. StartInv(c)'
    BY <1>1, <1>2, <1>3, <1>4, <1>5, CollectorSets DEF StartInv
  <1>7. OthersInv(c)'
    BY <1>1, <1>2, <1>3, CollectorSets DEF Cycle, OthersInv
  <1>8. CountInv(c)'
    BY <1>1, <1>2, <1>3, CollectorSets DEF Cycle, CountInv, IInv, TypeOK
  <1>9. Cycle(c)'
    BY <1>2, <1>6, <1>7, <1>8 DEF Cycle, StopInv, StoppedInv
  <1>10. QED BY <1>1, <1>3, <1>9, CollectorFrame DEF CollectorPC, IInv, TypeOK

LEMMA EventWriteStep ==
  ASSUME IInv, NEW c \in Threads, EventWrite(c)
  PROVE  IInv'
  <1>1. PICK k \in Chunk : event' = event + k /\ moved' = moved + k
    BY DEF EventWrite
  <1>2. k \in Nat /\ k <= m_threads_cnt - moved /\ event' \in Nat /\ moved' \in Nat
    BY <1>1, BufAssumption DEF Chunk, IInv, TypeOK
  <1>3. /\ pc[c] = "notify" /\ pc' = pc
        /\ UNCHANGED <<m_threads_cnt, m_threads_suspended_cnt, barrier, todo, sig, hpc>>
    BY DEF EventWrite, At, threadVars, handlerVars
  <1>4. CollectorMoves(c, "notify")
    BY <1>3 DEF EventWrite, threadVars, handlerVars, CollectorMoves, CollectorPC, IInv, TypeOK
  <1>5. Cycle(c)
    BY <1>3 DEF IInv, CycleInv, CollectorPC
  <1>6. OthersInv(c)'
    BY <1>3, <1>4, <1>5, CollectorSets DEF Cycle, OthersInv
  <1>7. CountInv(c)'
    BY <1>1, <1>2, <1>3, <1>4, <1>5, CollectorSets DEF Cycle, CountInv, IInv, TypeOK
  <1>8. StartInv(c)'
    <2>1. Cardinality(Taken(c)) \in Nat
      BY SetSizes DEF IInv
    <2>2. event' + Cardinality(Taken(c)) = moved'
      <3>1. event + Cardinality(Taken(c)) = moved
        BY <1>3, <1>5 DEF Cycle, StartInv
      <3>2. event \in Nat /\ moved \in Nat
        BY DEF IInv, TypeOK
      <3>3. QED BY ONLY <1>1, <1>2, <2>1, <3>1, <3>2
    <2>3. QED BY <1>3, <1>4, <1>5, <2>2, CollectorSets DEF Cycle, StartInv
  <1>9. Cycle(c)'
    BY <1>3, <1>6, <1>7, <1>8 DEF Cycle, StopInv, StoppedInv
  <1>10. QED BY <1>2, <1>3, <1>4, <1>9, CollectorFrame DEF CollectorPC, IInv, TypeOK

LEMMA AllNotifiedStep ==
  ASSUME IInv, NEW c \in Threads, AllNotified(c)
  PROVE  IInv'
  <1>1. CollectorMoves(c, "wait_start")
    BY DEF AllNotified, At, Goto, stwVars, handlerVars, CollectorMoves, CollectorPC
  <1>2. pc[c] = "notify" /\ pc'[c] = "wait_start" /\ Cycle(c)
    BY DEF AllNotified, At, Goto, IInv, TypeOK, CycleInv, CollectorPC
  <1>3. /\ UNCHANGED <<m_threads_cnt, m_threads_suspended_cnt, barrier, event, todo, sig, hpc>>
        /\ moved = m_threads_cnt /\ moved' = 0
    BY DEF AllNotified, stwVars, handlerVars
  <1>4. OthersInv(c)'
    BY <1>1, <1>2, <1>3, CollectorSets DEF Cycle, OthersInv
  <1>5. CountInv(c)'
    BY <1>1, <1>2, <1>3, CollectorSets DEF Cycle, CountInv, IInv, TypeOK
  <1>6. StartInv(c)'
    BY <1>1, <1>2, <1>3, CollectorSets DEF Cycle, StartInv
  <1>7. Cycle(c)'
    BY <1>2, <1>4, <1>5, <1>6 DEF Cycle, StopInv, StoppedInv
  <1>8. QED BY <1>1, <1>3, <1>7, CollectorFrame DEF CollectorPC, IInv, TypeOK

\* All the departures have been read: every target has left the handler, so
\* the event's bytes have all been taken and nothing is left behind.
LEMMA WorldStartedStep ==
  ASSUME IInv, NEW c \in Threads, WorldStarted(c)
  PROVE  IInv'
  <1>1. /\ pc[c] = "wait_start" /\ pc' = [pc EXCEPT ![c] = "gc_unlock"] /\ Cycle(c)
        /\ moved = m_threads_cnt
        /\ UNCHANGED <<registered, m_mutex, m_threads_suspended_cnt, m_stack_ends, barrier, event,
                       todo, moved, depth, saved, sig, hpc, under, masked, idx>>
        /\ m_threads_cnt' = 0 /\ m_lock' = None
    BY DEF WorldStarted, At, Goto, waitVars, handlerVars, IInv, CycleInv, CollectorPC
  <1>2. Signalled(c) = Targets(c)
    BY <1>1 DEF Cycle, OthersInv, Signalled
  <1>3. Departed(c) \in SUBSET Taken(c) /\ Taken(c) \in SUBSET Targets(c)
    BY DEF Departed, Taken
  <1>4. barrier = 0 /\ event = 0 /\ Departed(c) = Targets(c)
    <2>1. /\ barrier + m_threads_cnt = Cardinality(Departed(c))
          /\ event + Cardinality(Taken(c)) = m_threads_cnt
          /\ m_threads_cnt = Cardinality(Targets(c))
      <3>1. StartInv(c) /\ CountInv(c) /\ pc[c] = "wait_start"
        BY <1>1 DEF Cycle
      <3>2. QED BY <1>1, <1>2, <3>1 DEF StartInv, CountInv
    <2>2. Cardinality(Departed(c)) <= Cardinality(Taken(c)) /\ Cardinality(Taken(c)) <= Cardinality(Targets(c))
      BY <1>3, FS_Subset, SetSizes DEF IInv
    <2>3. /\ barrier \in Nat /\ event \in Nat /\ Cardinality(Departed(c)) \in Nat
          /\ Cardinality(Taken(c)) \in Nat /\ Cardinality(Targets(c)) \in Nat
      BY SetSizes DEF IInv, TypeOK
    <2>4. barrier = 0 /\ event = 0 /\ Cardinality(Departed(c)) = Cardinality(Targets(c))
      BY <2>1, <2>2, <2>3
    <2>5. Departed(c) \in SUBSET Targets(c)
      BY <1>3
    <2>6. QED BY <2>4, <2>5, FS_Subset, SetSizes DEF IInv
  <1>5. \A t \in Threads : sig[t] = "none" /\ Idle(t)
    BY <1>1, <1>2, <1>4 DEF Cycle, OthersInv, StartInv, Departed
  <1>6. m_threads_suspended_cnt = 0
    <2>1. Counted = {}
      BY <1>5 DEF Counted
    <2>2. QED BY <1>1, <2>1, FS_EmptySet DEF Cycle, CountInv
  <1>7. CleanBetweenCycles'
    BY <1>1, <1>4, <1>5, <1>6 DEF CleanBetweenCycles, IInv, FrameInv
  <1>8. \A d \in Threads : pc'[d] \notin CollectorPC
    <2>1. \A d \in Threads \ {c} : pc[d] \notin CollectorPC
      BY <1>1, OneCollector DEF IInv, CollectorPC
    <2>2. QED BY <1>1, <2>1 DEF IInv, TypeOK, CollectorPC
  <1>9. CycleInv'
    BY <1>8 DEF CycleInv
  <1>10. TypeOK'
    BY <1>1 DEF IInv, TypeOK, PC
  <1>11. LockInv'
    BY <1>1, ThreadsAssumption DEF IInv, TypeOK, LockInv, CollectorPC
  <1>12. DepthInv' /\ FrameInv'
    BY <1>1 DEF IInv, TypeOK, DepthInv, FrameInv
  <1>13. LockHoldersRun'
    BY <1>1, ThreadsAssumption DEF IInv, LockHoldersRun
  <1>14. QED BY <1>7, <1>9, <1>10, <1>11, <1>12, <1>13 DEF IInv

\* A cycle starts clean, with nobody signalled.
LEMMA TakeSnapshotStep ==
  ASSUME IInv, NEW c \in Threads, TakeSnapshot(c)
  PROVE  IInv'
  <1>1. /\ pc[c] = "gc_snapshot" /\ pc' = [pc EXCEPT ![c] = "suspend"]
        /\ m_lock = None /\ m_lock' = c /\ todo' = registered \ {c} /\ moved' = 0
        /\ UNCHANGED <<registered, m_mutex, m_threads_cnt, m_threads_suspended_cnt, m_stack_ends,
                       barrier, event, depth, saved, sig, hpc, under, masked, idx>>
        /\ hpc[c] = "none"
    BY DEF TakeSnapshot, At, Goto, stwVars, handlerVars
  <1>2. \A d \in Threads : pc[d] \notin CollectorPC
    BY <1>1, ThreadsAssumption DEF IInv, LockInv
  <1>3. /\ barrier = 0 /\ event = 0 /\ m_threads_cnt = 0 /\ m_threads_suspended_cnt = 0
        /\ \A t \in Threads : sig[t] = "none" /\ Idle(t)
    BY <1>2 DEF IInv, CleanBetweenCycles
  <1>4. Signalled(c)' = {} /\ Counted' = {} /\ Arrived' = {} /\ Targets(c)' = todo'
    BY <1>1, <1>3 DEF Signalled, Counted, Arrived, Targets
  <1>5. pc'[c] = "suspend" /\ \A d \in Threads \ {c} : pc'[d] = pc[d]
    BY <1>1 DEF IInv, TypeOK
  <1>6. OthersInv(c)'
    BY <1>1, <1>3, <1>4, <1>5 DEF OthersInv
  <1>7. CountInv(c)' /\ StopInv(c)'
    BY <1>1, <1>3, <1>4, <1>5, FS_EmptySet DEF CountInv, StopInv
  <1>8. Cycle(c)'
    BY <1>5, <1>6, <1>7 DEF Cycle, StoppedInv, StartInv
  <1>9. CycleInv'
    BY <1>2, <1>5, <1>8 DEF CycleInv
  <1>10. CleanBetweenCycles'
    BY <1>5 DEF CleanBetweenCycles, CollectorPC
  <1>11. TypeOK'
    BY <1>1 DEF IInv, TypeOK, PC, CollectorPC
  <1>12. LockInv'
    BY <1>1, <1>2, <1>5, ThreadsAssumption DEF IInv, LockInv, CollectorPC
  <1>13. DepthInv' /\ FrameInv'
    BY <1>1, <1>5 DEF IInv, DepthInv, FrameInv
  <1>14. LockHoldersRun'
    BY <1>1, <1>3 DEF IInv, LockHoldersRun
  <1>15. QED BY <1>9, <1>10, <1>11, <1>12, <1>13, <1>14 DEF IInv

-----------------------------------------------------------------------------
LEMMA Inductive == IInv /\ [Next]_vars => IInv'
  <1> SUFFICES ASSUME IInv, [Next]_vars PROVE IInv'
    OBVIOUS
  <1>1. ASSUME NEW t \in Threads, Handler(t)
        PROVE  IInv'
    BY <1>1, ScopeSteps, CountStep, PublishStep, ArriveStep, ResumeStep, UncountStep, DepartStep,
       LeaveStep
       DEF Handler
  <1>2. ASSUME NEW t \in Threads, User(t)
        PROVE  IInv'
    BY <1>2, QuietSteps, ScopeSteps DEF User, QuietStep
  <1>3. ASSUME NEW t \in Threads, Manager(t)
        PROVE  IInv'
    BY <1>3, QuietSteps, ManagerSteps DEF Manager, QuietStep
  <1>4. ASSUME NEW t \in Threads, Collector(t)
        PROVE  IInv'
    <2>1. ASSUME NEW u \in Threads, SuspendThread(t, u)
          PROVE  IInv'
      BY <2>1, SuspendStep
    <2>2. CASE LockMutex(t) \/ UnlockMutex(t) \/ LeaveGC(t)
      BY <2>2, QuietSteps DEF QuietStep
    <2>3. QED
      BY <1>4, <2>1, <2>2, TakeSnapshotStep, AllSignalledStep, BarrierReadStep, WorldStoppedStep,
         StartWorldStep, EventWriteStep, AllNotifiedStep, WorldStartedStep
         DEF Collector
  <1>5. CASE UNCHANGED vars
    <2>1. UNCHANGED <<CycleVars, sig, hpc>> /\ SamePhases /\ SamePlaces
      BY <1>5 DEF vars, lockVars, stwVars, waitVars, threadVars, handlerVars, CycleVars,
                  SamePhases, SamePlaces
    <2>2. TypeOK' /\ LockInv' /\ DepthInv' /\ FrameInv' /\ LockHoldersRun'
      BY <1>5 DEF vars, lockVars, stwVars, waitVars, threadVars, handlerVars,
                  IInv, TypeOK, LockInv, DepthInv, FrameInv, LockHoldersRun
    <2>3. QED BY <2>1, <2>2, Frame DEF IInv
  <1>6. CASE Finished
    BY <1>5, <1>6 DEF Finished
  <1>7. QED BY <1>1, <1>2, <1>3, <1>4, <1>5, <1>6 DEF Next

LEMMA Invariance == Spec => []IInv
  BY InitIInv, Inductive, PTL DEF Spec

\* The declared types hold in every reachable state; the counter of suspended
\* threads, a size_t in the code, never falls below zero.
THEOREM TypeCorrect == Spec => []TypeOK
  BY Invariance, PTL DEF IInv

\* While a collection works on the stopped world, every other managed thread is
\* parked in the handler, outside its unsafe scopes, and no byte in the event's
\* pipe can wake it: for any number of threads and any partial reads.
THEOREM StoppedWorld == Spec => []WorldIsStopped
  <1>1. IInv => WorldIsStopped
    <2> SUFFICES ASSUME IInv, NEW c \in Threads, pc[c] = "stopped"
                 PROVE  /\ event = 0
                        /\ \A t \in registered \ {c} : hpc[t] = "wait" /\ depth[t] = 0
      BY DEF WorldIsStopped
    <2>1. StoppedInv(c)
      BY DEF IInv, CycleInv, Cycle, CollectorPC
    <2>2. registered \in SUBSET Threads
      BY DEF IInv, TypeOK
    <2>3. QED BY <2>1, <2>2 DEF StoppedInv, Targets, IInv, DepthInv
  <1>2. QED BY <1>1, Invariance, PTL

\* A finished cycle leaves both pipes empty, both counters at zero and no
\* signal under way, so that the next one starts from nothing.
THEOREM CleanCycles == Spec => []CleanBetweenCycles
  BY Invariance, PTL DEF IInv

\* A thread is not stopped while it holds m_lock or m_mutex.
THEOREM HoldersRun == Spec => []LockHoldersRun
  BY Invariance, PTL DEF IInv

\* The next signal may find a thread inside the handler, but only past its last
\* notify: no two handlers of one thread use the counter, the pipes or the slots.
THEOREM OneHandlerAtWork == Spec => []NoNestedHandler
  <1>1. IInv => NoNestedHandler
    BY SignalFindsIdle DEF NoNestedHandler, IInv, FrameInv
  <1>2. QED BY <1>1, Invariance, PTL

-----------------------------------------------------------------------------
(* The slots of m_stack_ends                                               *)

StopPC == {"suspend", "wait_stop", "stopped"}
Published == {t \in Threads : hpc[t] \in {"arrive", "wait"}}

\* While the world is being stopped, the threads counted in number themselves
\* from zero without gaps, and those that published are found in their slots.
SlotInv ==
    (\E c \in Threads : pc[c] \in StopPC) =>
        /\ \A t \in Counted : idx[t] \in 0..m_threads_suspended_cnt-1
        /\ \A i \in 0..m_threads_suspended_cnt-1 : \E t \in Counted : idx[t] = i
        /\ \A t, u \in Counted : idx[t] = idx[u] => t = u
        /\ \A t \in Published : m_stack_ends[idx[t]] = t

LEMMA SlotFrame ==
  ASSUME SlotInv, Counted' = Counted, Published' = Published,
         UNCHANGED <<m_threads_suspended_cnt, m_stack_ends, idx>>,
         (\E c \in Threads : pc'[c] \in StopPC) => \E c \in Threads : pc[c] \in StopPC
  PROVE  SlotInv'
  BY DEF SlotInv

\* The steps of the handler on the way out find no cycle that is stopping.
LEMMA NotStopping ==
  ASSUME IInv, NEW t \in Threads, HandlerResume(t) \/ HandlerUncount(t) \/ HandlerDepart(t)
  PROVE  SlotInv'
  <1>1. PICK c \in Threads : pc[c] \in CollectorPC /\ Cycle(c) /\ t \in Signalled(c) /\ t # c
    BY SignalInCycle DEF HandlerResume, HandlerUncount, HandlerDepart
  <1>2. pc[c] \in {"notify", "wait_start"}
    BY <1>1 DEF Cycle, StopInv, StoppedInv, Signalled, CollectorPC,
                HandlerResume, HandlerUncount, HandlerDepart
  <1>3. \A d \in Threads : pc[d] \notin StopPC
    BY <1>1, <1>2, OneCollector DEF IInv, StopPC, CollectorPC
  <1>4. pc' = pc
    BY DEF HandlerResume, HandlerUncount, HandlerDepart, threadVars
  <1>5. QED BY <1>3, <1>4 DEF SlotInv

LEMMA CountSlot ==
  ASSUME IInv, SlotInv, NEW t \in Threads, HandlerCount(t)
  PROVE  SlotInv'
  <1>1. /\ hpc'[t] = "publish" /\ hpc[t] = "count"
        /\ \A u \in Threads \ {t} : hpc'[u] = hpc[u]
        /\ idx'[t] = m_threads_suspended_cnt
        /\ \A u \in Threads \ {t} : idx'[u] = idx[u]
        /\ m_threads_suspended_cnt' = m_threads_suspended_cnt + 1
        /\ m_threads_suspended_cnt \in Nat
        /\ m_stack_ends' = m_stack_ends /\ pc' = pc
    BY DEF HandlerCount, IInv, TypeOK, threadVars
  <1>2. Counted' = Counted \cup {t} /\ t \notin Counted /\ Counted \subseteq Threads
    BY <1>1 DEF Counted
  <1>3. Published' = Published /\ t \notin Published /\ Published \subseteq Threads
    BY <1>1 DEF Published
  <1> SUFFICES ASSUME \E c \in Threads : pc[c] \in StopPC
               PROVE  /\ \A u \in Counted' : idx'[u] \in 0..m_threads_suspended_cnt
                      /\ \A i \in 0..m_threads_suspended_cnt : \E u \in Counted' : idx'[u] = i
                      /\ \A u, v \in Counted' : idx'[u] = idx'[v] => u = v
                      /\ \A u \in Published' : m_stack_ends'[idx'[u]] = u
    BY <1>1 DEF SlotInv
  <1>4. /\ \A u \in Counted : idx[u] \in 0..m_threads_suspended_cnt-1
        /\ \A i \in 0..m_threads_suspended_cnt-1 : \E u \in Counted : idx[u] = i
        /\ \A u, v \in Counted : idx[u] = idx[v] => u = v
        /\ \A u \in Published : m_stack_ends[idx[u]] = u
    BY DEF SlotInv
  <1>5. \A u \in Counted' : idx'[u] \in 0..m_threads_suspended_cnt
    BY <1>1, <1>2, <1>4
  <1>6. ASSUME NEW i \in 0..m_threads_suspended_cnt PROVE \E u \in Counted' : idx'[u] = i
    <2>1. CASE i = m_threads_suspended_cnt
      BY <1>1, <1>2, <2>1
    <2>2. CASE i # m_threads_suspended_cnt
      <3>1. i \in 0..m_threads_suspended_cnt-1
        BY <1>1, <2>2
      <3>2. PICK u \in Counted : idx[u] = i
        BY <1>4, <3>1
      <3>3. QED BY <1>1, <1>2, <3>2
    <2>3. QED BY <2>1, <2>2
  <1>7. \A u \in Counted : idx[u] # m_threads_suspended_cnt
    BY <1>1, <1>4
  <1>8. \A u, v \in Counted' : idx'[u] = idx'[v] => u = v
    BY <1>1, <1>2, <1>4, <1>7
  <1>9. \A u \in Published' : m_stack_ends'[idx'[u]] = u
    BY <1>1, <1>3, <1>4
  <1>10. QED BY <1>5, <1>6, <1>8, <1>9

LEMMA PublishSlot ==
  ASSUME IInv, SlotInv, NEW t \in Threads, HandlerPublish(t)
  PROVE  SlotInv'
  <1>1. /\ hpc'[t] = "arrive" /\ hpc[t] = "publish"
        /\ \A u \in Threads \ {t} : hpc'[u] = hpc[u]
        /\ m_stack_ends' = [m_stack_ends EXCEPT ![idx[t]] = t]
        /\ m_threads_suspended_cnt' = m_threads_suspended_cnt
        /\ idx' = idx /\ pc' = pc
    BY DEF HandlerPublish, IInv, TypeOK, threadVars
  <1>2. Counted' = Counted /\ t \in Counted
    BY <1>1 DEF Counted
  <1>3. Published' = Published \cup {t} /\ Published \subseteq Counted
    BY <1>1 DEF Published, Counted
  <1> SUFFICES ASSUME \E c \in Threads : pc[c] \in StopPC
               PROVE  \A u \in Published' : m_stack_ends'[idx'[u]] = u
    BY <1>1, <1>2 DEF SlotInv
  <1>4. /\ \A u \in Counted : idx[u] \in 0..m_threads_suspended_cnt-1
        /\ \A u, v \in Counted : idx[u] = idx[v] => u = v
        /\ \A u \in Published : m_stack_ends[idx[u]] = u
    BY DEF SlotInv
  <1>5. 0..m_threads_suspended_cnt-1 \subseteq 0..MAX_THREAD_NUM-1
    <2>1. m_threads_suspended_cnt = Cardinality(Counted)
      BY <1>2, SignalInCycle DEF Counted, Cycle, CountInv
    <2>2. Cardinality(Counted) <= Cardinality(Threads) /\ Cardinality(Counted) \in Nat
      <3>1. Counted \in SUBSET Threads
        BY DEF Counted
      <3>2. QED BY <3>1, FS_Subset, SubsetsFinite, ThreadsAssumption
    <2>3. Cardinality(Threads) \in Nat
      BY ThreadsAssumption, FS_CardinalityType
    <2>4. QED BY <2>1, <2>2, <2>3, MaxThreadAssumption
  <1>6. \A u \in Counted : idx[u] \in DOMAIN m_stack_ends
    BY <1>4, <1>5 DEF IInv, TypeOK
  <1>7. ASSUME NEW u \in Published' PROVE m_stack_ends'[idx[u]] = u
    <2>1. u \in Counted /\ idx[u] \in DOMAIN m_stack_ends
      BY <1>2, <1>3, <1>6
    <2>2. CASE u = t
      BY <1>1, <2>1, <2>2
    <2>3. CASE u # t
      BY <1>1, <1>2, <1>3, <1>4, <2>1, <2>3
    <2>4. QED BY <2>2, <2>3
  <1>8. QED BY <1>1, <1>7

LEMMA SnapshotSlot ==
  ASSUME IInv, IInv', NEW t \in Threads, TakeSnapshot(t)
  PROVE  SlotInv'
  <1>1. pc'[t] = "suspend" /\ todo' = registered' \ {t}
    BY DEF TakeSnapshot, At, Goto, IInv, TypeOK
  <1>2. Cycle(t)'
    BY <1>1 DEF IInv, CycleInv, CollectorPC
  <1>3. Signalled(t)' = {}
    BY <1>1 DEF Signalled, Targets
  <1>4. \A u \in Threads : Idle(u)'
    BY <1>2, <1>3 DEF Cycle, OthersInv
  <1>5. Counted' = {} /\ Published' = {}
    BY <1>4 DEF Counted, Published
  <1>6. m_threads_suspended_cnt' = 0
    BY <1>2, <1>5, FS_EmptySet DEF Cycle, CountInv
  <1>7. QED BY <1>5, <1>6 DEF SlotInv

\* The steps that leave the handlers that are under way alone, or take a signal
\* to the start of one.
LEMMA OtherSlots ==
  ASSUME IInv, SlotInv, NEW t \in Threads,
         \/ Deliver(t) \/ HandlerArrive(t) \/ HandlerLeave(t) \/ User(t) \/ Manager(t)
         \/ LockMutex(t) \/ UnlockMutex(t) \/ LeaveGC(t)
         \/ (\E u \in Threads : SuspendThread(t, u)) \/ AllSignalled(t)
         \/ BarrierRead(t) \/ WorldStopped(t) \/ StartWorld(t) \/ EventWrite(t)
         \/ AllNotified(t) \/ WorldStarted(t)
  PROVE  SlotInv'
  <1> USE DEF At, Goto, lockVars, stwVars, waitVars, handlerVars, threadVars, AnswerDeferred
  <1>1. CASE Deliver(t) \/ LeaveUnsafe(t) \/ EnterGC(t)
    <2>1. /\ hpc' = hpc \/ (Idle(t) /\ hpc' = [hpc EXCEPT ![t] = "count"])
          /\ UNCHANGED <<m_threads_suspended_cnt, m_stack_ends, idx>>
      BY <1>1, SignalFindsIdle DEF Deliver, LeaveUnsafe, EnterGC
    <2>2. Counted' = Counted /\ Published' = Published
      BY <2>1 DEF Counted, Published, IInv, TypeOK
    <2>3. \A c \in Threads : pc'[c] \in StopPC => pc[c] \in StopPC
      BY <1>1 DEF Deliver, LeaveUnsafe, EnterGC, StopPC, IInv, TypeOK
    <2>4. QED BY <2>1, <2>2, <2>3, SlotFrame
  <1>2. CASE HandlerArrive(t)
    <2>1. /\ hpc[t] = "arrive" /\ hpc' = [hpc EXCEPT ![t] = "wait"] /\ pc' = pc
          /\ UNCHANGED <<m_threads_suspended_cnt, m_stack_ends, idx>>
      BY <1>2 DEF HandlerArrive
    <2>2. Counted' = Counted /\ Published' = Published
      BY <2>1 DEF Counted, Published, IInv, TypeOK
    <2>3. QED BY <2>1, <2>2, SlotFrame
  <1>3. CASE \/ EnterUnsafe(t) \/ StartRegister(t) \/ StartDeregister(t) \/ Manager(t)
             \/ LockMutex(t) \/ UnlockMutex(t) \/ LeaveGC(t)
             \/ (\E u \in Threads : SuspendThread(t, u)) \/ AllSignalled(t)
             \/ BarrierRead(t) \/ WorldStopped(t) \/ StartWorld(t) \/ EventWrite(t)
             \/ AllNotified(t) \/ WorldStarted(t)
    <2> USE DEF EnterUnsafe, StartRegister, StartDeregister, Manager, LockManager, RegisterThread,
          DeregisterThread, LockMutex, UnlockMutex, LeaveGC, SuspendThread, AllSignalled,
          BarrierRead, WorldStopped, StartWorld, EventWrite, AllNotified, WorldStarted
    <2>1. UNCHANGED <<m_threads_suspended_cnt, m_stack_ends, idx, hpc>>
      BY <1>3
    <2>2. Counted' = Counted /\ Published' = Published
      BY <2>1 DEF Counted, Published
    <2>3. \A c \in Threads : pc'[c] \in StopPC => pc[c] \in StopPC
      BY <1>3 DEF StopPC, IInv, TypeOK
    <2>4. QED BY <2>1, <2>2, <2>3, SlotFrame
  <1>4. CASE HandlerLeave(t)
    <2>1. /\ hpc[t] = "leave" /\ hpc' = [hpc EXCEPT ![t] = under[t]] /\ pc' = pc
          /\ under[t] \in {"none", "leave"}
          /\ UNCHANGED <<m_threads_suspended_cnt, m_stack_ends, idx>>
      BY <1>4 DEF HandlerLeave, IInv, FrameInv
    <2>2. Counted' = Counted /\ Published' = Published
      BY <2>1 DEF Counted, Published, IInv, TypeOK
    <2>3. QED BY <2>1, <2>2, SlotFrame
  <1>5. QED BY <1>1, <1>2, <1>3, <1>4 DEF User

LEMMA SlotInvariance == Spec => []SlotInv
  <1>1. Init => SlotInv
    BY DEF Init, SlotInv, StopPC
  <1>2. IInv /\ IInv' /\ SlotInv /\ [Next]_vars => SlotInv'
    <2> SUFFICES ASSUME IInv, IInv', SlotInv, [Next]_vars PROVE SlotInv'
      OBVIOUS
    <2>1. ASSUME NEW t \in Threads, Handler(t) \/ User(t) \/ Manager(t) \/ Collector(t)
          PROVE  SlotInv'
      BY <2>1, NotStopping, CountSlot, PublishSlot, SnapshotSlot, OtherSlots
         DEF Handler, Collector
    <2>2. CASE UNCHANGED vars \/ Finished
      <3>1. UNCHANGED <<m_threads_suspended_cnt, m_stack_ends, idx, hpc, pc>>
        BY <2>2 DEF Finished, vars, stwVars, threadVars, handlerVars
      <3>2. Counted' = Counted /\ Published' = Published
        BY <3>1 DEF Counted, Published
      <3>3. QED BY <3>1, <3>2, SlotFrame
    <2>3. QED BY <2>1, <2>2 DEF Next
  <1>3. QED BY <1>1, <1>2, Invariance, PTL DEF Spec

\* In the stopped world get_thread_stack_end finds every parked thread, in
\* exactly one of the slots it searches: the counter handed each of them a slot of
\* its own below the number of threads, and no slot holds a stranger's id.
THEOREM StackEnds == Spec => []StackEndsFound
  <1>1. IInv /\ SlotInv => StackEndsFound
    <2> SUFFICES ASSUME IInv, SlotInv, NEW c \in Threads, pc[c] = "stopped"
                 PROVE  /\ m_threads_suspended_cnt = Cardinality(registered \ {c})
                        /\ \A t \in registered \ {c} : Cardinality(SlotsOf(t)) = 1
      BY DEF StackEndsFound
    <2>1. Cycle(c)
      BY DEF IInv, CycleInv, CollectorPC
    <2>2. todo = {} /\ Signalled(c) = Targets(c) /\ Targets(c) \subseteq Threads
      BY <2>1 DEF Cycle, OthersInv, Signalled, Targets, IInv, TypeOK
    <2>3. Counted = Targets(c) /\ Published = Targets(c)
      <3>1. \A t \in Threads \ Targets(c) : Idle(t)
        BY <2>1, <2>2 DEF Cycle, OthersInv
      <3>2. \A t \in Targets(c) : hpc[t] = "wait"
        BY <2>1 DEF Cycle, StoppedInv
      <3>3. QED BY <2>2, <3>1, <3>2 DEF Counted, Published
    <2>4. m_threads_suspended_cnt = Cardinality(registered \ {c})
      BY <2>1, <2>3 DEF Cycle, CountInv, Targets
    <2>5. ASSUME NEW t \in registered \ {c} PROVE Cardinality(SlotsOf(t)) = 1
      <3>1. /\ \A u \in Counted : idx[u] \in 0..m_threads_suspended_cnt-1
            /\ \A i \in 0..m_threads_suspended_cnt-1 : \E u \in Counted : idx[u] = i
            /\ \A u \in Counted : m_stack_ends[idx[u]] = u
        BY <2>3 DEF SlotInv, StopPC
      <3>2. t \in Counted
        BY <2>3 DEF Targets
      <3>3. SlotsOf(t) = {idx[t]}
        BY <3>1, <3>2 DEF SlotsOf
      <3>4. QED BY <3>3, FS_Singleton
    <2>6. QED BY <2>4, <2>5
  <1>2. QED BY <1>1, Invariance, SlotInvariance, PTL

-----------------------------------------------------------------------------
(* Refinement of World                                                     *)

StoppedBy == IF m_mutex # None /\ pc[m_mutex] = "stopped" THEN m_mutex ELSE None
Unsafe == {t \in Threads : depth[t] > 0}

\* While the world is stopped, nobody who is frozen runs code of his own.
LEMMA FrozenDoNotRun ==
  ASSUME IInv, NEW t \in Threads, pc[t] # "stopped", hpc[t] = "none",
         StoppedBy # None
  PROVE  t \notin registered \cup {StoppedBy}
  <1>1. /\ m_mutex \in Threads /\ pc[m_mutex] = "stopped" /\ StoppedBy = m_mutex
    BY ThreadsAssumption DEF StoppedBy, IInv, TypeOK
  <1>2. StoppedInv(m_mutex)
    BY <1>1 DEF IInv, CycleInv, Cycle, CollectorPC
  <1>3. QED BY <1>1, <1>2 DEF StoppedInv, Targets

\* A step of t that goes from and to another place than "stopped" and lets
\* m_mutex alone, takes it or gives it back, does not stop or start the world.
LEMMA StoppedByStays ==
  ASSUME IInv, NEW t \in Threads, NEW to \in PC \ {"stopped"}, pc[t] # "stopped",
         pc' = [pc EXCEPT ![t] = to] \/ pc' = pc,
         \/ m_mutex' = m_mutex
         \/ m_mutex = None /\ m_mutex' = t
         \/ m_mutex = t /\ m_mutex' = None
  PROVE  StoppedBy' = StoppedBy
  BY ThreadsAssumption DEF IInv, TypeOK, StoppedBy

\* Steps that change no depth, no registration, and no stop or start.
LEMMA StutterSteps ==
  ASSUME IInv, NEW t \in Threads,
         \/ Deliver(t) \/ HandlerCount(t) \/ HandlerPublish(t) \/ HandlerArrive(t)
         \/ HandlerResume(t) \/ HandlerUncount(t) \/ HandlerDepart(t) \/ HandlerLeave(t)
         \/ StartRegister(t) \/ StartDeregister(t) \/ LockManager(t)
         \/ LockMutex(t) \/ TakeSnapshot(t) \/ (\E u \in Threads : SuspendThread(t, u))
         \/ AllSignalled(t) \/ BarrierRead(t) \/ EventWrite(t) \/ AllNotified(t)
         \/ WorldStarted(t) \/ UnlockMutex(t)
  PROVE  UNCHANGED <<StoppedBy, registered, Unsafe>>
  <1> USE DEF At, Goto, lockVars, stwVars, waitVars, handlerVars, threadVars
  <1>1. CASE \/ Deliver(t) \/ HandlerCount(t) \/ HandlerPublish(t) \/ HandlerArrive(t)
             \/ HandlerResume(t) \/ HandlerUncount(t) \/ HandlerDepart(t) \/ HandlerLeave(t)
             \/ (\E u \in Threads : SuspendThread(t, u))
             \/ BarrierRead(t) \/ EventWrite(t)
    <2>1. UNCHANGED <<registered, m_mutex, pc, depth>>
      BY <1>1 DEF Deliver, HandlerCount, HandlerPublish, HandlerArrive, HandlerResume,
                  HandlerUncount, HandlerDepart, HandlerLeave, SuspendThread, BarrierRead,
                  EventWrite
    <2>2. QED BY <2>1 DEF StoppedBy, Unsafe
  <1>2. CASE \/ StartRegister(t) \/ StartDeregister(t) \/ LockManager(t)
             \/ TakeSnapshot(t) \/ AllSignalled(t) \/ AllNotified(t) \/ WorldStarted(t)
             \/ LockMutex(t) \/ UnlockMutex(t)
    <2>1. UNCHANGED <<registered, depth>> /\ pc[t] # "stopped"
      BY <1>2 DEF StartRegister, StartDeregister, LockManager, TakeSnapshot, AllSignalled,
                  AllNotified, WorldStarted, LockMutex, UnlockMutex
    <2>2. PICK to \in PC \ {"stopped"} : pc' = [pc EXCEPT ![t] = to]
      BY <1>2 DEF StartRegister, StartDeregister, LockManager, TakeSnapshot, AllSignalled,
                  AllNotified, WorldStarted, LockMutex, UnlockMutex, PC, CollectorPC
    <2>3. \/ m_mutex' = m_mutex
          \/ m_mutex = None /\ m_mutex' = t
          \/ m_mutex = t /\ m_mutex' = None
      BY <1>2 DEF StartRegister, StartDeregister, LockManager, TakeSnapshot, AllSignalled,
                  AllNotified, WorldStarted, LockMutex, UnlockMutex, IInv, LockInv
    <2>4. QED BY <2>1, <2>2, <2>3, StoppedByStays DEF Unsafe
  <1>3. QED BY <1>1, <1>2

\* Steps into or out of unsafe scopes, by a thread that is not frozen.
LEMMA UnsafeSteps ==
  ASSUME IInv, NEW t \in Threads,
         EnterUnsafe(t) \/ LeaveUnsafe(t) \/ EnterGC(t) \/ LeaveGC(t)
  PROVE  \/ AbstractWorld!EnterUnsafe(t) \/ AbstractWorld!LeaveUnsafe(t)
         \/ UNCHANGED AbstractWorld!vars
  <1> USE DEF At, Goto, lockVars, stwVars, waitVars
  <1>1. /\ UNCHANGED <<registered, m_mutex>> /\ hpc[t] = "none" /\ pc[t] # "stopped"
        /\ \E d \in 0..MaxDepth : depth' = [depth EXCEPT ![t] = d]
    <2>1. /\ depth \in [Threads -> 0..MaxDepth] /\ saved \in [Threads -> 0..MaxDepth]
          /\ MaxDepth \in Nat
      BY MaxDepthAssumption DEF IInv, TypeOK
    <2>2. /\ UNCHANGED <<registered, m_mutex>> /\ hpc[t] = "none" /\ pc[t] # "stopped"
      BY DEF EnterUnsafe, LeaveUnsafe, EnterGC, LeaveGC
    <2>3. \/ depth[t] < MaxDepth /\ depth' = [depth EXCEPT ![t] = depth[t] + 1]
          \/ depth[t] > 0 /\ depth' = [depth EXCEPT ![t] = depth[t] - 1]
          \/ depth' = [depth EXCEPT ![t] = 0]
          \/ depth' = [depth EXCEPT ![t] = saved[t]]
      BY DEF EnterUnsafe, LeaveUnsafe, EnterGC, LeaveGC
    <2>4. /\ depth[t] < MaxDepth => depth[t] + 1 \in 0..MaxDepth
          /\ depth[t] > 0 => depth[t] - 1 \in 0..MaxDepth
          /\ 0 \in 0..MaxDepth /\ saved[t] \in 0..MaxDepth
      BY ONLY <2>1, t \in Threads
    <2> QED BY <2>2, <2>3, <2>4
  <1>2. StoppedBy' = StoppedBy
    <2>1. \/ pc' = pc
          \/ pc' = [pc EXCEPT ![t] = "gc_mutex"]
          \/ pc' = [pc EXCEPT ![t] = "user"]
      BY DEF EnterUnsafe, LeaveUnsafe, EnterGC, LeaveGC
    <2>2. QED BY <1>1, <2>1, StoppedByStays DEF PC
  <1>3. StoppedBy # None => t \notin registered \cup {StoppedBy}
    BY <1>1, FrozenDoNotRun
  <1>4. Unsafe' \in {Unsafe, Unsafe \cup {t}, Unsafe \ {t}}
    BY <1>1 DEF Unsafe, IInv, TypeOK
  <1>5. QED
    BY <1>1, <1>2, <1>3, <1>4
       DEF AbstractWorld!EnterUnsafe, AbstractWorld!LeaveUnsafe, AbstractWorld!Frozen,
           AbstractWorld!vars, StoppedBy, Unsafe

\* Registration needs m_lock, which the collector of a stopped world holds.
LEMMA RegistrationSteps ==
  ASSUME IInv, NEW t \in Threads, RegisterThread(t) \/ DeregisterThread(t)
  PROVE  AbstractWorld!Register(t) \/ AbstractWorld!Deregister(t)
  <1> USE DEF At, Goto, stwVars, waitVars, handlerVars, RegisterThread, DeregisterThread
  <1>1. \A c \in Threads : pc[c] # "stopped" /\ pc'[c] # "stopped"
    BY DEF IInv, TypeOK, LockInv, CollectorPC
  <1>2. StoppedBy = None /\ StoppedBy' = None
    BY <1>1 DEF StoppedBy, IInv, TypeOK
  <1>3. Unsafe' = Unsafe
    BY DEF Unsafe
  <1>4. QED
    BY <1>2, <1>3 DEF AbstractWorld!Register, AbstractWorld!Deregister, StoppedBy, Unsafe

LEMMA StopStep ==
  ASSUME IInv, IInv', NEW c \in Threads, WorldStopped(c)
  PROVE  AbstractWorld!Stop(c)
  <1>1. /\ pc[c] = "wait_stop" /\ pc'[c] = "stopped" /\ m_mutex = c
        /\ UNCHANGED <<registered, m_mutex, depth>>
    BY DEF WorldStopped, At, Goto, lockVars, IInv, TypeOK, LockInv, CollectorPC
  <1>2. StoppedBy = None /\ StoppedBy' = c
    BY <1>1, ThreadsAssumption DEF StoppedBy
  <1>3. \A t \in registered \cup {c} : depth[t] = 0
    <2>1. StoppedInv(c)' /\ DepthInv'
      BY <1>1 DEF IInv, CycleInv, Cycle, CollectorPC
    <2>2. \A t \in registered \ {c} : depth'[t] = 0
      BY <1>1, <2>1 DEF StoppedInv, Targets, DepthInv, IInv, TypeOK
    <2>3. depth'[c] = 0
      BY <1>1, <2>1 DEF DepthInv
    <2>4. QED BY <1>1, <2>2, <2>3
  <1>4. QED BY <1>1, <1>2, <1>3 DEF AbstractWorld!Stop, StoppedBy, Unsafe

LEMMA StartStep ==
  ASSUME IInv, NEW c \in Threads, StartWorld(c)
  PROVE  AbstractWorld!Start
  <1>1. /\ pc[c] = "stopped" /\ pc'[c] = "notify" /\ m_mutex = c
        /\ UNCHANGED <<registered, m_mutex, depth>>
    BY DEF StartWorld, At, Goto, lockVars, IInv, TypeOK, LockInv, CollectorPC
  <1>2. QED BY <1>1, ThreadsAssumption DEF AbstractWorld!Start

\* The protocol of signals, pipes and locks implements World: the world stops
\* at one instant, and until it starts again no managed thread crosses the
\* border of an unsafe scope, registers or deregisters.
THEOREM Refinement == Spec => StopsTheWorld
  <1>1. Init => AbstractWorld!Init
    BY DEF Init, AbstractWorld!Init
  <1>2. IInv /\ IInv' /\ [Next]_vars => [AbstractWorld!Next]_AbstractWorld!vars
    <2> SUFFICES ASSUME IInv, IInv', [Next]_vars
                 PROVE  [AbstractWorld!Next]_AbstractWorld!vars
      OBVIOUS
    <2>1. ASSUME NEW t \in Threads, Handler(t) \/ User(t) \/ Manager(t) \/ Collector(t)
          PROVE  [AbstractWorld!Next]_AbstractWorld!vars
      <3>1. CASE EnterUnsafe(t) \/ LeaveUnsafe(t) \/ EnterGC(t) \/ LeaveGC(t)
        BY <3>1, UnsafeSteps DEF AbstractWorld!Next
      <3>2. CASE RegisterThread(t) \/ DeregisterThread(t)
        BY <3>2, RegistrationSteps DEF AbstractWorld!Next
      <3>3. CASE WorldStopped(t)
        BY <3>3, StopStep DEF AbstractWorld!Next
      <3>4. CASE StartWorld(t)
        BY <3>4, StartStep DEF AbstractWorld!Next
      <3>5. CASE UNCHANGED <<StoppedBy, registered, Unsafe>>
        BY <3>5 DEF AbstractWorld!vars, StoppedBy, Unsafe
      <3>6. QED
        BY <2>1, <3>1, <3>2, <3>3, <3>4, <3>5, StutterSteps
           DEF Handler, User, Manager, Collector
    <2>2. CASE UNCHANGED vars \/ Finished
      BY <2>2 DEF Finished, vars, lockVars, threadVars, AbstractWorld!vars
    <2>3. QED BY <2>1, <2>2 DEF Next
  <1>3. QED BY <1>1, <1>2, Invariance, PTL DEF Spec, StopsTheWorld, AbstractWorld!Spec

-----------------------------------------------------------------------------
(* How one thread defers the signal                                        *)

(***************************************************************************)
(* PendingCall: the thread's side of the protocol in detail, for every     *)
(* number of scopes its stack holds.                                       *)
(***************************************************************************)

\* m_depth and the saved depths follow the open scopes through every load and
\* store, not only between two calls as DepthsMatchScopes says.
ScopesInv ==
    /\ Len(open) > 0
    /\ m_depth = open[Len(open)]
    /\ m_depth_stack_top =
         IF call_pc \in {"safe_zero", "restore_top"} THEN Len(open) ELSE Len(open) - 1
    /\ \A i \in 1..Len(open)-1 : m_depth_stack[i-1] = open[i]
    /\ call_pc \in {"safe_top", "safe_zero"} =>
         /\ Len(open) <= DEPTH_STACK_SIZE
         /\ m_depth_stack[Len(open)-1] = m_depth

\* What the running function has read is still what memory holds: the handler
\* changes no depth, and sets no flag once the depth is zero.
RegInv ==
    /\ call_pc \in {"enter_store", "leave_store"} => reg = m_depth
    /\ call_pc = "leave_store" => reg > 0
    /\ call_pc \in {"cip_load", "cip_clear", "call"} => m_depth = 0
    /\ call_hpc = "call" => m_depth = 0
    /\ call_pc = "cip_clear" => reg = m_pending_flag
    /\ m_pending_flag = PENDING => m_depth > 0 \/ call_pc \in {"cip_load", "cip_clear"}

\* A signal is kept in one place at a time.
OnePlaceInv ==
    /\ ~(call_sig /\ call_hpc = "entry")
    /\ ~(call_sig /\ m_pending_flag = PENDING)
    /\ ~(call_hpc = "entry" /\ m_pending_flag = PENDING)

CallInv == CallTypeOK /\ ScopesInv /\ RegInv /\ OnePlaceInv

LEMMA InitCallInv == CallInit => CallInv
  <1> SUFFICES ASSUME CallInit PROVE CallInv
    OBVIOUS
  <1> USE DepthStackAssumption
  <1>1. /\ open \in Seq(Nat)
        /\ Len(open) = 1
        /\ open[1] = 0
    BY DEF CallInit
  <1>2. CallTypeOK
    <2>1. m_depth_stack \in [0..DEPTH_STACK_SIZE-1 -> Nat]
      BY DEF CallInit
    <2>2. call_sig \in BOOLEAN
      BY DEF CallInit
    <2>3. m_depth_stack_top \in 0..DEPTH_STACK_SIZE
      BY DEF CallInit
    <2>4. QED
      BY <1>1, <2>1, <2>2, <2>3
         DEF CallInit, CallTypeOK, CallPC, HandlerPC, PENDING,
             NOT_PENDING
  <1>3. ScopesInv
    BY <1>1 DEF CallInit, ScopesInv
  <1>4. RegInv /\ OnePlaceInv
    BY DEF CallInit, RegInv, OnePlaceInv, PENDING, NOT_PENDING
  <1>5. QED BY <1>2, <1>3, <1>4 DEF CallInv

\* The steps of the kernel's side and of the functions that do not touch the
\* scopes.
LEMMA FlatSteps ==
  ASSUME CallInv,
         \/ Send \/ DeliverSignal \/ HandlerEntry \/ HandlerReturn
         \/ EnterPendingLoad \/ LeavePendingLoad
         \/ EnterSafeTop \/ LeaveSafeTop
         \/ CallIfPendedLoad \/ CallIfPendedClear \/ CallReturn
  PROVE  CallInv'
  <1> USE DepthStackAssumption DEF CallInv, CallTypeOK, ScopesInv, RegInv, OnePlaceInv, CallPC,
                                   HandlerPC, PENDING, NOT_PENDING, pendingVars, AtStep
  <1>1. CASE Send BY <1>1 DEF Send, Outstanding
  <1>2. CASE DeliverSignal BY <1>2 DEF DeliverSignal
  <1>3. CASE HandlerEntry
    <2>1. CASE m_depth > 0
      <3>1. CallTypeOK'
        BY <1>3, <2>1 DEF HandlerEntry
      <3>2. ScopesInv'
        BY <1>3, <2>1 DEF HandlerEntry
      <3>3. RegInv' /\ OnePlaceInv'
        BY <1>3, <2>1 DEF HandlerEntry
      <3>4. QED BY ONLY <3>1, <3>2, <3>3 DEF CallInv
    <2>2. CASE ~(m_depth > 0)
      BY <1>3, <2>2 DEF HandlerEntry
    <2>3. QED BY ONLY <2>1, <2>2
  <1>4. CASE HandlerReturn BY <1>4 DEF HandlerReturn
  <1>5. CASE EnterPendingLoad
    <2>1. CallTypeOK' BY <1>5 DEF EnterPendingLoad
    <2>2. ScopesInv' BY <1>5 DEF EnterPendingLoad
    <2>3. RegInv' /\ OnePlaceInv' BY <1>5 DEF EnterPendingLoad
    <2>4. QED BY ONLY <2>1, <2>2, <2>3 DEF CallInv
  <1>6. CASE LeavePendingLoad
    <2>1. CallTypeOK' BY <1>6 DEF LeavePendingLoad
    <2>2. ScopesInv' BY <1>6 DEF LeavePendingLoad
    <2>3. RegInv' /\ OnePlaceInv' BY <1>6 DEF LeavePendingLoad
    <2>4. QED BY ONLY <2>1, <2>2, <2>3 DEF CallInv
  <1>7. CASE EnterSafeTop
    <2>1. CallTypeOK' BY <1>7 DEF EnterSafeTop
    <2>2. ScopesInv' BY <1>7 DEF EnterSafeTop
    <2>3. RegInv' /\ OnePlaceInv' BY <1>7 DEF EnterSafeTop
    <2>4. QED BY ONLY <2>1, <2>2, <2>3 DEF CallInv
  <1>8. CASE LeaveSafeTop
    <2>1. CallTypeOK' BY <1>8 DEF LeaveSafeTop
    <2>2. ScopesInv' BY <1>8 DEF LeaveSafeTop
    <2>3. RegInv' /\ OnePlaceInv' BY <1>8 DEF LeaveSafeTop
    <2>4. QED BY ONLY <2>1, <2>2, <2>3 DEF CallInv
  <1>9. CASE CallIfPendedLoad
    <2>1. CallTypeOK'
      BY <1>9 DEF CallIfPendedLoad
    <2>2. ScopesInv'
      BY <1>9 DEF CallIfPendedLoad
    <2>3. RegInv' /\ OnePlaceInv'
      BY <1>9 DEF CallIfPendedLoad
    <2>4. QED BY ONLY <2>1, <2>2, <2>3 DEF CallInv
  <1>10. CASE CallIfPendedClear BY <1>10 DEF CallIfPendedClear
  <1>11. CASE CallReturn BY <1>11 DEF CallReturn
  <1>12. QED BY <1>1, <1>2, <1>3, <1>4, <1>5, <1>6, <1>7, <1>8, <1>9, <1>10, <1>11

\* The steps that open or close a scope.
LEMMA OpenSteps ==
  ASSUME CallInv,
         \/ EnterPendingStore \/ LeavePendingStore
         \/ EnterSafeSave \/ EnterSafeZero \/ LeaveSafeRestore
  PROVE  CallInv'
  <1> USE DepthStackAssumption DEF CallInv, CallTypeOK, ScopesInv, RegInv, OnePlaceInv, CallPC,
                                   HandlerPC, PENDING, NOT_PENDING, pendingVars, AtStep
  <1>1. CASE EnterPendingStore
    <2>1. /\ open' \in Seq(Nat) /\ Len(open') = Len(open) /\ Len(open) \in Nat
          /\ open'[Len(open)] = m_depth' /\ m_depth' = reg + 1 /\ m_depth' \in Nat
          /\ \A i \in 1..Len(open)-1 : open'[i] = open[i]
      <3>1. /\ reg \in Nat /\ reg = m_depth /\ m_depth = open[Len(open)] /\ m_depth' = reg + 1
            /\ open' = [open EXCEPT ![Len(open)] = @ + 1]
        BY <1>1 DEF EnterPendingStore
      <3>2. open \in Seq(Nat) /\ Len(open) > 0
        OBVIOUS
      <3>3. open' = [open EXCEPT ![Len(open)] = reg + 1] /\ reg + 1 \in Nat
        BY ONLY <3>1
      <3>4. QED BY ONLY <3>1, <3>2, <3>3
    <2>2. CallTypeOK'
      BY <1>1, <2>1 DEF EnterPendingStore
    <2>3. ScopesInv'
      BY <1>1, <2>1 DEF EnterPendingStore
    <2>4. RegInv' /\ OnePlaceInv'
      BY <1>1, <2>1 DEF EnterPendingStore
    <2>5. QED BY ONLY <2>2, <2>3, <2>4 DEF CallInv
  <1>2. CASE LeavePendingStore
    <2>1. /\ open' \in Seq(Nat) /\ Len(open') = Len(open) /\ Len(open) \in Nat
          /\ open'[Len(open)] = m_depth' /\ m_depth' = reg - 1 /\ m_depth' \in Nat
          /\ \A i \in 1..Len(open)-1 : open'[i] = open[i]
      <3>1. /\ reg \in Nat /\ reg > 0 /\ reg = m_depth /\ m_depth = open[Len(open)]
            /\ m_depth' = reg - 1
            /\ open' = [open EXCEPT ![Len(open)] = @ - 1]
        BY <1>2 DEF LeavePendingStore
      <3>2. open \in Seq(Nat) /\ Len(open) > 0
        OBVIOUS
      <3>3. open' = [open EXCEPT ![Len(open)] = reg - 1] /\ reg - 1 \in Nat
        BY ONLY <3>1
      <3>4. QED BY ONLY <3>1, <3>2, <3>3
    <2>2. CallTypeOK'
      BY <1>2, <2>1 DEF LeavePendingStore
    <2>3. ScopesInv'
      BY <1>2, <2>1 DEF LeavePendingStore
    <2>4. RegInv' /\ OnePlaceInv'
      BY <1>2, <2>1 DEF LeavePendingStore
    <2>5. QED BY ONLY <2>2, <2>3, <2>4 DEF CallInv
  <1>3. CASE EnterSafeSave
    <2>1. /\ m_depth_stack_top = Len(open) - 1 /\ Len(open) - 1 \in 0..DEPTH_STACK_SIZE-1
          /\ m_depth \in Nat
      <3>1. /\ m_depth_stack_top = Len(open) - 1 /\ Len(open) <= MaxSafe
            /\ m_depth_stack_top \in 0..DEPTH_STACK_SIZE /\ m_depth \in Nat
        BY <1>3 DEF EnterSafeSave
      <3>2. QED BY ONLY <3>1, DepthStackAssumption, MaxSafeAssumption
    <2>2. /\ m_depth_stack' \in [0..DEPTH_STACK_SIZE-1 -> Nat]
          /\ m_depth_stack'[Len(open)-1] = m_depth
          /\ \A i \in 1..Len(open)-1 : m_depth_stack'[i-1] = m_depth_stack[i-1]
      <3>1. /\ m_depth_stack \in [0..DEPTH_STACK_SIZE-1 -> Nat]
            /\ m_depth_stack' = [m_depth_stack EXCEPT ![Len(open)-1] = m_depth]
        BY <1>3, <2>1 DEF EnterSafeSave
      <3>2. QED BY ONLY <2>1, <3>1
    <2>3. CallTypeOK'
      BY <1>3, <2>2 DEF EnterSafeSave
    <2>4. ScopesInv'
      BY <1>3, <2>1, <2>2 DEF EnterSafeSave
    <2>5. RegInv' /\ OnePlaceInv'
      BY <1>3 DEF EnterSafeSave
    <2>6. QED BY ONLY <2>3, <2>4, <2>5 DEF CallInv
  <1>4. CASE EnterSafeZero
    <2>1. /\ open' \in Seq(Nat) /\ Len(open') = Len(open) + 1 /\ open'[Len(open')] = 0
          /\ \A i \in 1..Len(open) : open'[i] = open[i]
          /\ Len(open) \in Nat
      <3>1. open \in Seq(Nat) /\ open' = Append(open, 0)
        BY <1>4 DEF EnterSafeZero
      <3>2. QED BY ONLY <3>1
    <2>2. CallTypeOK'
      BY <1>4, <2>1 DEF EnterSafeZero
    <2>3. ScopesInv'
      <3>1. /\ call_pc' = "cip_load" /\ m_depth' = 0 /\ m_depth_stack' = m_depth_stack
            /\ m_depth_stack_top' = Len(open)
        BY <1>4 DEF EnterSafeZero
      <3>2. \A i \in 1..Len(open) : m_depth_stack[i-1] = open[i]
        <4>1. /\ \A i \in 1..Len(open)-1 : m_depth_stack[i-1] = open[i]
              /\ m_depth_stack[Len(open)-1] = open[Len(open)]
          BY <1>4 DEF EnterSafeZero
        <4>2. QED BY ONLY <2>1, <4>1
      <3>3. QED BY ONLY <2>1, <3>1, <3>2 DEF ScopesInv
    <2>4. RegInv' /\ OnePlaceInv'
      BY <1>4 DEF EnterSafeZero
    <2>5. QED BY ONLY <2>2, <2>3, <2>4 DEF CallInv
  <1>5. CASE LeaveSafeRestore
    <2>1. /\ Len(open) - 1 \in 1..Len(open)
          /\ m_depth_stack_top = Len(open) - 1
          /\ m_depth' = open[Len(open) - 1]
      <3>1. /\ Len(open) \in Nat /\ Len(open) > 1 /\ m_depth_stack_top = Len(open) - 1
            /\ m_depth' = m_depth_stack[m_depth_stack_top - 1]
        BY <1>5 DEF LeaveSafeRestore
      <3>2. \A i \in 1..Len(open)-1 : m_depth_stack[i-1] = open[i]
        OBVIOUS
      <3>3. QED BY ONLY <3>1, <3>2
    <2>2. /\ open' \in Seq(Nat)
          /\ Len(open') = Len(open) - 1
          /\ \A i \in 1..Len(open)-1 : open'[i] = open[i]
      <3>1. \A i \in 1..Len(open)-1 : open[i] \in Nat
        <4>1. open \in Seq(Nat)
          OBVIOUS
        <4>2. QED BY ONLY <4>1
      <3>2. /\ 1 \in Int
            /\ Len(open) - 1 \in Int
            /\ 1 <= Len(open) - 1
        BY <2>1
      <3>3. open' = SubSeq(open, 1, Len(open) - 1)
        BY <1>5 DEF LeaveSafeRestore
      <3>4. QED
        BY ONLY <3>1, <3>2, <3>3, SubSeqProperties
    <2>3. ScopesInv'
      <3>1. /\ m_depth_stack' = m_depth_stack
            /\ m_depth_stack_top' = m_depth_stack_top
            /\ call_pc' = "restore_top"
            /\ Len(open) \in Nat
            /\ m_depth' = open'[Len(open')]
        BY <1>5, <2>1, <2>2 DEF LeaveSafeRestore
      <3>2. ScopesInv /\ call_pc = "run"
        BY <1>5 DEF LeaveSafeRestore
      <3>3. \A i \in 1..Len(open')-1 : m_depth_stack'[i-1] = open'[i]
        <4> SUFFICES ASSUME NEW i \in 1..Len(open')-1
                     PROVE  m_depth_stack'[i-1] = open'[i]
          OBVIOUS
        <4>1. i \in 1..Len(open)-1
          BY ONLY <2>2, <3>1, i \in 1..Len(open')-1
        <4>2. m_depth_stack[i-1] = open[i]
          BY ONLY <3>2, <4>1 DEF ScopesInv
        <4>3. QED
          BY ONLY <2>2, <3>1, <4>1, <4>2
      <3>4. Len(open') > 0 /\ m_depth_stack_top' = Len(open')
        BY ONLY <2>1, <2>2, <3>1
      <3>5. QED
        BY ONLY <3>1, <3>3, <3>4 DEF ScopesInv
    <2>4. CallTypeOK'
      <3>1. m_depth' \in Nat
        BY ONLY <2>1, <2>2, open \in Seq(Nat)
      <3>2. call_pc' \in CallPC
        BY <1>5 DEF LeaveSafeRestore
      <3>3. UNCHANGED <<m_pending_flag, m_depth_stack_top, m_depth_stack, reg, call_sig, call_hpc>>
        BY <1>5 DEF LeaveSafeRestore
      <3>4. CallTypeOK
        OBVIOUS
      <3>5. QED
        BY ONLY <2>2, <3>1, <3>2, <3>3, <3>4 DEF CallTypeOK
    <2>5. RegInv' /\ OnePlaceInv'
      BY <1>5, <2>1 DEF LeaveSafeRestore
    <2>6. QED BY ONLY <2>3, <2>4, <2>5 DEF CallInv
  <1>6. QED BY <1>1, <1>2, <1>3, <1>4, <1>5

LEMMA CallInductive == CallInv /\ [CallNext]_callVars => CallInv'
  <1> SUFFICES ASSUME CallInv, [CallNext]_callVars PROVE CallInv'
    OBVIOUS
  <1>1. CASE UNCHANGED callVars
    BY <1>1 DEF callVars, CallInv, CallTypeOK, ScopesInv, RegInv, OnePlaceInv
  <1>2. CASE CallNext
    BY <1>2, FlatSteps, OpenSteps
       DEF CallNext, SignalHandler, OpenScope, CloseScope, Finish
  <1>3. QED BY <1>1, <1>2

\* Reachable states of PendingCall satisfy the inductive invariant.
LEMMA CallInvariance == CallSpec => []CallInv
  BY InitCallInv, CallInductive, PTL DEF CallSpec

\* Every field of pending_call keeps its type.  The assertions of lines 39 and
\* 47 hold as long as the callers nest no more safe scopes than the stack has
\* places (MaxSafeAssumption): every entry is popped again.
THEOREM CallTypes == CallSpec => []CallTypeOK
  BY CallInvariance, PTL DEF CallInv

\* The stop-the-world handler never runs on top of an unsafe scope, wherever
\* in pending_call.cpp the signal lands.
THEOREM HandlerOutsideUnsafe == CallSpec => []CallOnlyOutsideUnsafe
  <1>1. CallInv => CallOnlyOutsideUnsafe
    BY DEF CallInv, ScopesInv, RegInv, CallOnlyOutsideUnsafe
  <1>2. QED BY <1>1, CallInvariance, PTL

\* Between two calls, m_depth and the saved depths are those of the scope
\* objects alive on the thread's stack.
THEOREM DepthsCorrect == CallSpec => []DepthsMatchScopes
  <1>1. CallInv => DepthsMatchScopes
    <2> SUFFICES ASSUME CallInv, call_pc = "run"
                 PROVE  /\ m_depth_stack_top = Len(open) - 1
                        /\ m_depth = open[Len(open)]
                        /\ \A i \in 0..m_depth_stack_top-1 : m_depth_stack[i] = open[i+1]
      BY DEF DepthsMatchScopes
    <2>1. m_depth_stack_top = Len(open) - 1 /\ m_depth = open[Len(open)]
      BY DEF CallInv, ScopesInv
    <2>2. ASSUME NEW i \in 0..m_depth_stack_top-1
          PROVE  m_depth_stack[i] = open[i+1]
      <3>1. i+1 \in 1..Len(open)-1 /\ (i+1)-1 = i
        BY <2>1, <2>2 DEF CallInv, CallTypeOK
      <3>2. QED BY <3>1 DEF CallInv, ScopesInv
    <2>3. QED BY <2>1, <2>2
  <1>2. QED BY <1>1, CallInvariance, PTL

\* A thread outside pending_call and outside every unsafe scope holds no
\* deferred signal.
THEOREM NothingForgotten == CallSpec => []NoForgottenSignal
  <1>1. CallInv => NoForgottenSignal
    BY DEF CallInv, CallTypeOK, RegInv, NoForgottenSignal, PENDING,
           NOT_PENDING
  <1>2. QED BY <1>1, CallInvariance, PTL

-----------------------------------------------------------------------------
(* Refinement of DeferredCall                                              *)

\* Steps of the kernel's side map to Send, StartCall, EndCall or a stutter.
LEMMA HandlerRefines ==
  ASSUME CallInv, Send \/ DeliverSignal \/ HandlerEntry \/ HandlerReturn
  PROVE  [Promise!Next]_Promise!vars
  <1> USE DEF Promise!Next, Promise!vars, Promise!Send,
              Promise!ChangeScope,
              Promise!StartCall, Promise!EndCall, Outstanding,
              pendingVars
  <1>1. CASE Send BY <1>1 DEF Send
  <1>2. CASE DeliverSignal BY <1>2 DEF DeliverSignal
  <1>3. CASE HandlerEntry
    BY <1>3
       DEF HandlerEntry, CallInv, CallTypeOK, RegInv, OnePlaceInv, CallPC,
           HandlerPC, PENDING, NOT_PENDING
  <1>4. CASE HandlerReturn BY <1>4 DEF HandlerReturn
  <1>5. QED BY <1>1, <1>2, <1>3, <1>4

\* Steps of the thread's own code map to ChangeScope when they cross the
\* border of an unsafe scope, to StartCall and EndCall around a deferred call,
\* and to a stutter otherwise.
LEMMA ThreadRefines ==
  ASSUME CallInv, OpenScope \/ CloseScope \/ Finish
  PROVE  [Promise!Next]_Promise!vars
  <1> USE DEF Promise!Next, Promise!vars, Promise!ChangeScope,
              Promise!StartCall, Promise!EndCall, Outstanding,
              pendingVars, AtStep
  <1>1. CASE EnterPendingLoad BY <1>1 DEF EnterPendingLoad
  <1>2. CASE EnterPendingStore
    BY <1>2 DEF EnterPendingStore, CallInv, CallTypeOK, RegInv
  <1>3. CASE LeavePendingLoad BY <1>3 DEF LeavePendingLoad
  <1>4. CASE LeavePendingStore
    BY <1>4 DEF LeavePendingStore, CallInv, CallTypeOK, RegInv
  <1>5. CASE EnterSafeSave BY <1>5 DEF EnterSafeSave
  <1>6. CASE EnterSafeTop BY <1>6 DEF EnterSafeTop
  <1>7. CASE EnterSafeZero
    BY <1>7 DEF EnterSafeZero, CallInv, CallTypeOK
  <1>8. CASE LeaveSafeRestore
    <2>1. m_depth = 0 /\ m_depth_stack_top - 1 \in 0..DEPTH_STACK_SIZE-1
      <3>1. /\ m_depth_stack_top = Len(open) - 1
            /\ Len(open) > 1
            /\ m_depth = 0
        BY <1>8 DEF LeaveSafeRestore, CallInv, ScopesInv
      <3>2. m_depth_stack_top \in 0..DEPTH_STACK_SIZE /\ Len(open) \in Nat
        BY DEF CallInv, CallTypeOK
      <3>3. QED BY ONLY <3>1, <3>2, DepthStackAssumption
    <2>2. m_depth' \in Nat
      BY <1>8, <2>1 DEF LeaveSafeRestore, CallInv, CallTypeOK
    <2>3. QED
      BY <1>8, <2>1, <2>2 DEF LeaveSafeRestore
  <1>9. CASE LeaveSafeTop BY <1>9 DEF LeaveSafeTop
  <1>10. CASE CallIfPendedLoad
    BY <1>10 DEF CallIfPendedLoad
  <1>11. CASE CallIfPendedClear
    <2>1. CASE reg = PENDING
      <3>1. /\ Outstanding
            /\ ~(m_depth > 0)
            /\ ~call_sig /\ call_hpc = "none"
        BY <1>11, <2>1
           DEF CallIfPendedClear, CallInv, CallTypeOK, RegInv, OnePlaceInv
      <3>2. /\ ~Outstanding'
            /\ ~(m_depth' > 0)
            /\ call_pc = "cip_clear" /\ call_pc' = "call" /\ call_hpc' = "none"
        BY <1>11, <2>1, <3>1
           DEF CallIfPendedClear, PENDING, NOT_PENDING
      <3>3. Promise!StartCall
        BY ONLY <3>1, <3>2 DEF Promise!StartCall
      <3>4. QED BY ONLY <3>3 DEF Promise!Next
    <2>2. CASE reg # PENDING
      BY <1>11, <2>2
         DEF CallIfPendedClear, CallInv, CallTypeOK, RegInv, OnePlaceInv,
             PENDING, NOT_PENDING
    <2>3. QED BY ONLY <2>1, <2>2
  <1>12. CASE CallReturn BY <1>12 DEF CallReturn
  <1>13. QED
    BY <1>1, <1>2, <1>3, <1>4, <1>5, <1>6, <1>7, <1>8, <1>9, <1>10, <1>11, <1>12
       DEF OpenScope, CloseScope, Finish

\* pending_call implements DeferredCall: each signal is answered by exactly one
\* call, never inside an unsafe scope.
THEOREM CallRefinement == CallSpec => KeepsPromise
  <1>1. CallInit => Promise!Init
    BY DEF CallInit, Promise!Init, Outstanding, PENDING,
           NOT_PENDING
  <1>2. CallInv /\ [CallNext]_callVars => [Promise!Next]_Promise!vars
    <2> SUFFICES ASSUME CallInv, [CallNext]_callVars
                 PROVE  [Promise!Next]_Promise!vars
      OBVIOUS
    <2>1. CASE UNCHANGED callVars
      BY <2>1 DEF callVars, Promise!vars, Outstanding
    <2>2. CASE CallNext
      BY <2>2, HandlerRefines, ThreadRefines DEF CallNext, SignalHandler
    <2>3. QED BY <2>1, <2>2
  <1>3. QED BY <1>1, <1>2, CallInvariance, PTL
     DEF CallSpec, KeepsPromise, Promise!Spec

=============================================================================
