---------------------------- MODULE StopTheWorld ----------------------------
(***************************************************************************)
(* Stopping and restarting the managed threads: stw_manager, ass_event and *)
(* ass_barrier, world_snapshot, gc_thread_manager, and gc_core::gc, which  *)
(* drives them.  Any thread may call gc; the others go through unsafe      *)
(* scopes, register themselves and leave.                                  *)
(*                                                                         *)
(* The deferral of the signal is the one DeferredCall specifies and        *)
(* PendingCall implements: entering and leaving a scope and answering the  *)
(* signal are single steps here.                                           *)
(***************************************************************************)
EXTENDS Integers, FiniteSets

CONSTANTS
    Threads,            \* the threads of the process
    None,               \* no thread
    BUF_SIZE,           \* most bytes one read or write of a pipe moves (64)
    MAX_THREAD_NUM,     \* capacity of m_stack_ends (128)
    MaxDepth            \* bound on nested unsafe scopes

ASSUME ThreadsAssumption == IsFiniteSet(Threads) /\ None \notin Threads
ASSUME BufAssumption == BUF_SIZE \in Nat \ {0}
ASSUME MaxThreadAssumption ==
    MAX_THREAD_NUM \in Nat /\ Cardinality(Threads) <= MAX_THREAD_NUM
ASSUME MaxDepthAssumption == MaxDepth \in Nat \ {0}

VARIABLES
    registered,              \* gc_thread_manager::m_threads
    m_lock,                  \* who holds gc_thread_manager::m_lock
    m_mutex,                 \* who holds gc_core::m_mutex
    m_threads_cnt,           \* threads signalled in this cycle
    m_threads_suspended_cnt, \* threads counted in by the handler
    m_stack_ends,            \* m_stack_ends[i].first
    barrier,                 \* bytes in the pipe of m_barrier
    event,                   \* bytes in the pipe of m_event
    todo,                    \* threads world_snapshot has still to signal
    moved,                   \* bytes moved so far by the running wait/notify
    pc,                      \* pc[t]: where the code of t is
    depth,                   \* depth[t]: unsafe scopes t is in
    saved,                   \* saved[t]: depth put away by gc's safe scope
    sig,                     \* sig[t]: the stop signal on its way to t
    hpc,                     \* hpc[t]: where the innermost handler of t is
    under,                   \* under[t]: the handler that one interrupted
    masked,                  \* masked[t]: the kernel runs a handler of t, and
                             \* holds further signals back until it returns
    idx                      \* idx[t]: the handler's local

stwVars == <<m_threads_cnt, m_threads_suspended_cnt, m_stack_ends, barrier, event>>
lockVars == <<registered, m_lock, m_mutex>>
threadVars == <<pc, depth, saved>>
handlerVars == <<sig, hpc, under, masked, idx>>
waitVars == <<todo, moved>>
vars == <<lockVars, stwVars, waitVars, threadVars, handlerVars>>

CollectorPC == {"suspend", "wait_stop", "stopped", "notify", "wait_start"}
PC == {"user", "register", "register_locked", "deregister", "deregister_locked",
       "exit", "gc_mutex", "gc_snapshot", "gc_unlock", "gc_leave"} \cup CollectorPC
HPC == {"none", "count", "publish", "arrive", "wait", "uncount", "depart", "leave"}

TypeOK ==
    /\ registered \in SUBSET Threads
    /\ m_lock \in Threads \cup {None}
    /\ m_mutex \in Threads \cup {None}
    /\ m_threads_cnt \in Nat
    /\ m_threads_suspended_cnt \in Nat
    /\ m_stack_ends \in [0..MAX_THREAD_NUM-1 -> Threads \cup {None}]
    /\ barrier \in Nat
    /\ event \in Nat
    /\ todo \in SUBSET Threads
    /\ moved \in Nat
    /\ pc \in [Threads -> PC]
    /\ depth \in [Threads -> 0..MaxDepth]
    /\ saved \in [Threads -> 0..MaxDepth]
    /\ sig \in [Threads -> {"none", "sent", "deferred"}]
    /\ hpc \in [Threads -> HPC]
    /\ under \in [Threads -> HPC]
    /\ masked \in [Threads -> BOOLEAN]
    /\ idx \in [Threads -> Nat]

\* Some threads (the main thread at least) are registered before the others run.
Init ==
    /\ registered \in SUBSET Threads
    /\ m_lock = None
    /\ m_mutex = None
    /\ m_threads_cnt = 0
    /\ m_threads_suspended_cnt = 0
    /\ m_stack_ends = [i \in 0..MAX_THREAD_NUM-1 |-> None]
    /\ barrier = 0
    /\ event = 0
    /\ todo = {}
    /\ moved = 0
    /\ pc = [t \in Threads |-> "user"]
    /\ depth = [t \in Threads |-> 0]
    /\ saved = [t \in Threads |-> 0]
    /\ sig = [t \in Threads |-> "none"]
    /\ hpc = [t \in Threads |-> "none"]
    /\ under = [t \in Threads |-> "none"]
    /\ masked = [t \in Threads |-> FALSE]
    /\ idx = [t \in Threads |-> 0]

\* The code of t runs only when the handler is not on top of it.
At(t, label) == pc[t] = label /\ hpc[t] = "none"
Goto(t, label) == pc' = [pc EXCEPT ![t] = label]

-----------------------------------------------------------------------------
(* Scopes, and the handler that runs when they let it.                     *)

EnterUnsafe(t) ==
    /\ At(t, "user")
    /\ depth[t] < MaxDepth
    /\ depth' = [depth EXCEPT ![t] = @ + 1]
    /\ UNCHANGED <<lockVars, stwVars, waitVars, pc, saved, handlerVars>>

\* The signal deferred so far is answered as soon as the depth is zero, by a
\* call: the kernel does not know of it and holds no signal back meanwhile.
AnswerDeferred(t) ==
    IF sig[t] = "deferred"
      THEN /\ sig' = [sig EXCEPT ![t] = "none"]
           /\ hpc' = [hpc EXCEPT ![t] = "count"]
           /\ UNCHANGED <<under, masked, idx>>
      ELSE UNCHANGED handlerVars

LeaveUnsafe(t) ==
    /\ At(t, "user")
    /\ depth[t] > 0
    /\ depth' = [depth EXCEPT ![t] = @ - 1]
    /\ IF depth[t] = 1 THEN AnswerDeferred(t) ELSE UNCHANGED handlerVars
    /\ UNCHANGED <<lockVars, stwVars, waitVars, pc, saved>>

\* Mutation: the signal is answered inside an unsafe scope too.
Deliver_Unsafe(t) ==
    /\ sig[t] = "sent"
    /\ ~masked[t]
    /\ sig' = [sig EXCEPT ![t] = "none"]
    /\ hpc' = [hpc EXCEPT ![t] = "count"]
    /\ under' = [under EXCEPT ![t] = hpc[t]]
    /\ masked' = [masked EXCEPT ![t] = TRUE]
    /\ UNCHANGED <<lockVars, stwVars, waitVars, threadVars, idx>>

\* sa_mask holds the signal back while the kernel runs the handler; a handler
\* that call_if_pended called is interrupted wherever it is.
Deliver(t) ==
    /\ sig[t] = "sent"
    /\ ~masked[t]
    /\ IF depth[t] > 0
         THEN /\ sig' = [sig EXCEPT ![t] = "deferred"]
              /\ UNCHANGED <<hpc, under, masked>>
         ELSE /\ sig' = [sig EXCEPT ![t] = "none"]
              /\ hpc' = [hpc EXCEPT ![t] = "count"]
              /\ under' = [under EXCEPT ![t] = hpc[t]]
              /\ masked' = [masked EXCEPT ![t] = TRUE]
    /\ UNCHANGED <<lockVars, stwVars, waitVars, threadVars, idx>>

(* stw_manager::sighandler *)

HandlerCount(t) ==
    /\ hpc[t] = "count"
    /\ idx' = [idx EXCEPT ![t] = m_threads_suspended_cnt]
    /\ m_threads_suspended_cnt' = m_threads_suspended_cnt + 1
    /\ hpc' = [hpc EXCEPT ![t] = "publish"]
    /\ UNCHANGED <<lockVars, m_threads_cnt, m_stack_ends, barrier, event,
                   waitVars, threadVars, sig, under, masked>>

\* Mutation: the slot is read back from the shared counter.
HandlerPublish_Shared(t) ==
    /\ hpc[t] = "publish"
    /\ m_stack_ends' = [m_stack_ends EXCEPT ![m_threads_suspended_cnt - 1] = t]
    /\ hpc' = [hpc EXCEPT ![t] = "arrive"]
    /\ UNCHANGED <<lockVars, m_threads_cnt, m_threads_suspended_cnt, barrier, event,
                   waitVars, threadVars, sig, under, masked, idx>>

HandlerPublish(t) ==
    /\ hpc[t] = "publish"
    /\ m_stack_ends' = [m_stack_ends EXCEPT ![idx[t]] = t]
    /\ hpc' = [hpc EXCEPT ![t] = "arrive"]
    /\ UNCHANGED <<lockVars, m_threads_cnt, m_threads_suspended_cnt, barrier, event,
                   waitVars, threadVars, sig, under, masked, idx>>

HandlerArrive(t) ==
    /\ hpc[t] = "arrive"
    /\ barrier' = barrier + 1
    /\ hpc' = [hpc EXCEPT ![t] = "wait"]
    /\ UNCHANGED <<lockVars, m_threads_cnt, m_threads_suspended_cnt, m_stack_ends, event,
                   waitVars, threadVars, sig, under, masked, idx>>

\* ass_event::wait takes one byte.
HandlerResume(t) ==
    /\ hpc[t] = "wait"
    /\ event > 0
    /\ event' = event - 1
    /\ hpc' = [hpc EXCEPT ![t] = "uncount"]
    /\ UNCHANGED <<lockVars, m_threads_cnt, m_threads_suspended_cnt, m_stack_ends, barrier,
                   waitVars, threadVars, sig, under, masked, idx>>

HandlerUncount(t) ==
    /\ hpc[t] = "uncount"
    /\ m_threads_suspended_cnt' = m_threads_suspended_cnt - 1
    /\ hpc' = [hpc EXCEPT ![t] = "depart"]
    /\ UNCHANGED <<lockVars, m_threads_cnt, m_stack_ends, barrier, event,
                   waitVars, threadVars, sig, under, masked, idx>>

\* Mutation: the thread is counted out twice.
HandlerDepart_Uncount(t) ==
    /\ hpc[t] = "depart"
    /\ barrier' = barrier + 1
    /\ m_threads_suspended_cnt' = m_threads_suspended_cnt - 1
    /\ hpc' = [hpc EXCEPT ![t] = "leave"]
    /\ UNCHANGED <<lockVars, m_threads_cnt, m_stack_ends, event,
                   waitVars, threadVars, sig, under, masked, idx>>

\* The last notify: from here on the cycle may end, and the next one signal t,
\* before t has left the handler.
HandlerDepart(t) ==
    /\ hpc[t] = "depart"
    /\ barrier' = barrier + 1
    /\ hpc' = [hpc EXCEPT ![t] = "leave"]
    /\ UNCHANGED <<lockVars, m_threads_cnt, m_threads_suspended_cnt, m_stack_ends, event,
                   waitVars, threadVars, sig, under, masked, idx>>

\* The handler returns, to the code it interrupted or was called from; the
\* kernel lets the next signal through again.
HandlerLeave(t) ==
    /\ hpc[t] = "leave"
    /\ hpc' = [hpc EXCEPT ![t] = under[t]]
    /\ under' = [under EXCEPT ![t] = "none"]
    /\ masked' = [masked EXCEPT ![t] = FALSE]
    /\ UNCHANGED <<lockVars, stwVars, waitVars, threadVars, sig, idx>>

-----------------------------------------------------------------------------
(* gc_thread_manager: a thread registers when it starts, in no scope, and  *)
(* deregisters when it ends.                                               *)

StartRegister(t) ==
    /\ At(t, "user")
    /\ t \notin registered
    /\ depth[t] = 0
    /\ Goto(t, "register")
    /\ UNCHANGED <<lockVars, stwVars, waitVars, depth, saved, handlerVars>>

StartDeregister(t) ==
    /\ At(t, "user")
    /\ t \in registered
    /\ depth[t] = 0
    /\ Goto(t, "deregister")
    /\ UNCHANGED <<lockVars, stwVars, waitVars, depth, saved, handlerVars>>

LockManager(t) ==
    /\ At(t, "register") \/ At(t, "deregister")
    /\ m_lock = None
    /\ m_lock' = t
    /\ Goto(t, IF pc[t] = "register" THEN "register_locked" ELSE "deregister_locked")
    /\ UNCHANGED <<registered, m_mutex, stwVars, waitVars, depth, saved, handlerVars>>

RegisterThread(t) ==
    /\ At(t, "register_locked")
    /\ registered' = registered \cup {t}
    /\ m_lock' = None
    /\ Goto(t, "user")
    /\ UNCHANGED <<m_mutex, stwVars, waitVars, depth, saved, handlerVars>>

DeregisterThread(t) ==
    /\ At(t, "deregister_locked")
    /\ registered' = registered \ {t}
    /\ m_lock' = None
    /\ Goto(t, "exit")
    /\ UNCHANGED <<m_mutex, stwVars, waitVars, depth, saved, handlerVars>>

-----------------------------------------------------------------------------
(* gc_core::gc on thread t, with the snapshot its gc_impl takes.           *)

\* gc_safe_scope: the depth is put away, a deferred signal is answered.
EnterGC(t) ==
    /\ At(t, "user")
    /\ saved' = [saved EXCEPT ![t] = depth[t]]
    /\ depth' = [depth EXCEPT ![t] = 0]
    /\ AnswerDeferred(t)
    /\ Goto(t, "gc_mutex")
    /\ UNCHANGED <<lockVars, stwVars, waitVars>>

LockMutex(t) ==
    /\ At(t, "gc_mutex")
    /\ m_mutex = None
    /\ m_mutex' = t
    /\ Goto(t, "gc_snapshot")
    /\ UNCHANGED <<registered, m_lock, stwVars, waitVars, depth, saved, handlerVars>>

\* Mutation: the snapshot does not take m_lock.
TakeSnapshot_NoLock(t) ==
    /\ At(t, "gc_snapshot")
    /\ depth[t] = 0
    /\ todo' = registered \ {t}
    /\ moved' = 0
    /\ Goto(t, "suspend")
    /\ UNCHANGED <<lockVars, stwVars, depth, saved, handlerVars>>

\* threads_snapshot, kept locked for the life of the snapshot.  The exception
\* of world_snapshot's constructor needs depth[t] > 0, which the safe scope
\* rules out.
TakeSnapshot(t) ==
    /\ At(t, "gc_snapshot")
    /\ m_lock = None
    /\ depth[t] = 0
    /\ m_lock' = t
    /\ todo' = registered \ {t}
    /\ moved' = 0
    /\ Goto(t, "suspend")
    /\ UNCHANGED <<registered, m_mutex, stwVars, depth, saved, handlerVars>>

SuspendThread(t, u) ==
    /\ At(t, "suspend")
    /\ u \in todo
    /\ todo' = todo \ {u}
    /\ m_threads_cnt' = m_threads_cnt + 1
    /\ sig' = [sig EXCEPT ![u] = "sent"]
    /\ UNCHANGED <<lockVars, m_threads_suspended_cnt, m_stack_ends, barrier, event,
                   moved, threadVars, hpc, under, masked, idx>>

AllSignalled(t) ==
    /\ At(t, "suspend")
    /\ todo = {}
    /\ Goto(t, "wait_stop")
    /\ UNCHANGED <<lockVars, stwVars, waitVars, depth, saved, handlerVars>>

\* Bytes one read or write may move: at least one, at most the buffer and what
\* is still asked for.
Chunk == {k \in 1..BUF_SIZE : k <= m_threads_cnt - moved}

\* ass_barrier::wait, in wait_for_world_stop and in wait_for_world_start.
BarrierRead(t) ==
    /\ At(t, "wait_stop") \/ At(t, "wait_start")
    /\ \E k \in Chunk :
          /\ k <= barrier
          /\ barrier' = barrier - k
          /\ moved' = moved + k
    /\ UNCHANGED <<lockVars, m_threads_cnt, m_threads_suspended_cnt, m_stack_ends, event,
                   todo, threadVars, handlerVars>>

\* Mutation: one arrival too few is waited for.
WorldStopped_OneEarly(t) ==
    /\ At(t, "wait_stop")
    /\ moved + 1 >= m_threads_cnt
    /\ Goto(t, "stopped")
    /\ UNCHANGED <<lockVars, stwVars, waitVars, depth, saved, handlerVars>>

\* The snapshot is complete: the collector traces and collects at "stopped".
WorldStopped(t) ==
    /\ At(t, "wait_stop")
    /\ moved = m_threads_cnt
    /\ Goto(t, "stopped")
    /\ UNCHANGED <<lockVars, stwVars, waitVars, depth, saved, handlerVars>>

\* The snapshot's destructor.
StartWorld(t) ==
    /\ At(t, "stopped")
    /\ moved' = 0
    /\ Goto(t, "notify")
    /\ UNCHANGED <<lockVars, stwVars, todo, depth, saved, handlerVars>>

\* ass_event::notify
EventWrite(t) ==
    /\ At(t, "notify")
    /\ \E k \in Chunk :
          /\ event' = event + k
          /\ moved' = moved + k
    /\ UNCHANGED <<lockVars, m_threads_cnt, m_threads_suspended_cnt, m_stack_ends, barrier,
                   todo, threadVars, handlerVars>>

\* Mutation: the last byte is not written.
AllNotified_Short(t) ==
    /\ At(t, "notify")
    /\ moved + 1 >= m_threads_cnt
    /\ moved' = 0
    /\ Goto(t, "wait_start")
    /\ UNCHANGED <<lockVars, stwVars, todo, depth, saved, handlerVars>>

AllNotified(t) ==
    /\ At(t, "notify")
    /\ moved = m_threads_cnt
    /\ moved' = 0
    /\ Goto(t, "wait_start")
    /\ UNCHANGED <<lockVars, stwVars, todo, depth, saved, handlerVars>>

\* Mutation: the departures are not waited for.
WorldStarted_NoWait(t) ==
    /\ At(t, "wait_start")
    /\ m_threads_cnt' = 0
    /\ m_lock' = None
    /\ Goto(t, "gc_unlock")
    /\ UNCHANGED <<registered, m_mutex, m_threads_suspended_cnt, m_stack_ends, barrier,
                   event, waitVars, depth, saved, handlerVars>>

\* Mutation: m_threads_cnt is not reset for the next cycle.
WorldStarted_NoReset(t) ==
    /\ At(t, "wait_start")
    /\ moved = m_threads_cnt
    /\ m_lock' = None
    /\ Goto(t, "gc_unlock")
    /\ UNCHANGED <<registered, m_mutex, stwVars, waitVars, depth, saved, handlerVars>>

\* The end of wait_for_world_start; the snapshot then lets m_lock go.
WorldStarted(t) ==
    /\ At(t, "wait_start")
    /\ moved = m_threads_cnt
    /\ m_threads_cnt' = 0
    /\ m_lock' = None
    /\ Goto(t, "gc_unlock")
    /\ UNCHANGED <<registered, m_mutex, m_threads_suspended_cnt, m_stack_ends, barrier,
                   event, waitVars, depth, saved, handlerVars>>

UnlockMutex(t) ==
    /\ At(t, "gc_unlock")
    /\ m_mutex' = None
    /\ Goto(t, "gc_leave")
    /\ UNCHANGED <<registered, m_lock, stwVars, waitVars, depth, saved, handlerVars>>

LeaveGC(t) ==
    /\ At(t, "gc_leave")
    /\ depth' = [depth EXCEPT ![t] = saved[t]]
    /\ Goto(t, "user")
    /\ UNCHANGED <<lockVars, stwVars, waitVars, saved, handlerVars>>

-----------------------------------------------------------------------------

Handler(t) ==
    \/ Deliver(t)
    \/ HandlerCount(t) \/ HandlerPublish(t) \/ HandlerArrive(t)
    \/ HandlerResume(t) \/ HandlerUncount(t) \/ HandlerDepart(t) \/ HandlerLeave(t)

\* What a thread chooses to do.
User(t) ==
    EnterUnsafe(t) \/ LeaveUnsafe(t) \/ StartRegister(t) \/ StartDeregister(t) \/ EnterGC(t)

\* What a thread is bound to go on with.
Manager(t) == LockManager(t) \/ RegisterThread(t) \/ DeregisterThread(t)

Collector(t) ==
    \/ LockMutex(t) \/ TakeSnapshot(t)
    \/ \E u \in Threads : SuspendThread(t, u)
    \/ AllSignalled(t) \/ BarrierRead(t) \/ WorldStopped(t)
    \/ StartWorld(t) \/ EventWrite(t) \/ AllNotified(t) \/ WorldStarted(t)
    \/ UnlockMutex(t) \/ LeaveGC(t)

\* Every thread has ended.
Finished ==
    /\ \A t \in Threads : pc[t] = "exit"
    /\ UNCHANGED vars

Next ==
    \/ \E t \in Threads : Handler(t) \/ User(t) \/ Manager(t) \/ Collector(t)
    \/ Finished

Spec == Init /\ [][Next]_vars

\* Threads run on; a thread inside nested unsafe scopes leaves them, and comes
\* out of the outermost one again, for these are short blocks of the library.
\* A thread need not ask for collections or end.  The last instructions of a
\* handler are run even if new signals keep coming just there.
LeaveOutermost(t) == depth[t] = 1 /\ LeaveUnsafe(t)
ReturnToCode(t) == under[t] = "none" /\ HandlerLeave(t)

Fairness ==
    \A t \in Threads :
        /\ WF_vars(Handler(t))
        /\ WF_vars(Manager(t))
        /\ WF_vars(Collector(t))
        /\ WF_vars(LeaveUnsafe(t)) /\ SF_vars(LeaveOutermost(t))
        /\ SF_vars(ReturnToCode(t))

FairSpec == Spec /\ Fairness

-----------------------------------------------------------------------------
(* Properties                                                              *)

\* While a collection works on the stopped world, every other managed thread
\* is parked in the handler, outside its unsafe scopes, with nothing in the
\* pipe that could wake it.
WorldIsStopped ==
    \A c \in Threads : pc[c] = "stopped" =>
        /\ event = 0
        /\ \A t \in registered \ {c} : hpc[t] = "wait" /\ depth[t] = 0

\* The slots get_thread_stack_end searches for the thread id.
SlotsOf(id) == {i \in 0..m_threads_suspended_cnt-1 : m_stack_ends[i] = id}

\* In the stopped world each parked thread's stack end is found, in a slot of
\* its own, among the first m_threads_suspended_cnt ones.
StackEndsFound ==
    \A c \in Threads : pc[c] = "stopped" =>
        /\ m_threads_suspended_cnt = Cardinality(registered \ {c})
        /\ \A t \in registered \ {c} : Cardinality(SlotsOf(t)) = 1

\* The thread owes no cycle anything: it is in no handler, or only returns.
Done(t) == {hpc[t], under[t]} \subseteq {"none", "leave"}

\* A cycle leaves nothing behind for the next: outside of one, both pipes and
\* both counters are at zero, no signal is on its way to any thread, and no
\* handler has more to do than to return.
CleanBetweenCycles ==
    (\A c \in Threads : pc[c] \notin CollectorPC) =>
        /\ barrier = 0 /\ event = 0
        /\ m_threads_cnt = 0 /\ m_threads_suspended_cnt = 0
        /\ \A t \in Threads : sig[t] = "none" /\ Done(t)

\* A thread is never stopped while it holds a lock the collector may need.
LockHoldersRun ==
    \A t \in Threads : t \in {m_lock, m_mutex} => sig[t] = "none" /\ hpc[t] = "none"

\* The next cycle may signal a thread that is still inside the handler, but not
\* before its last notify: a handler that is interrupted has only to return, so
\* no two handlers of one thread use the counter, the pipes and the slots.
NoNestedHandler ==
    \A t \in Threads :
        /\ sig[t] # "none" => Done(t)
        /\ under[t] \in {"none", "leave"}

\* To the threads and to the collector, the protocol looks like World.
AbstractWorld == INSTANCE World WITH
    stoppedBy <- IF m_mutex # None /\ pc[m_mutex] = "stopped" THEN m_mutex ELSE None,
    managed <- registered,
    unsafe <- {t \in Threads : depth[t] > 0}

StopsTheWorld == AbstractWorld!Spec

\* A collection that got the mutex runs to its end: the world is stopped and
\* started again.
CollectionEnds ==
    \A t \in Threads : m_mutex = t ~> m_mutex # t

\* A thread stopped by the handler runs again.
ThreadsResume ==
    \A t \in Threads : hpc[t] = "wait" ~> hpc[t] = "none"

=============================================================================
