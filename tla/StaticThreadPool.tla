-------------------------- MODULE StaticThreadPool --------------------------
(***************************************************************************)
(* details/utils/static_thread_pool.hpp: the pool that gc_heap::collect    *)
(* creates, runs once for every thread's allocator, and destroys.          *)
(*                                                                         *)
(* A critical section of m_mutex is one step: it starts by locking, or by  *)
(* locking again after a wait, and ends by unlocking or by waiting.  A     *)
(* thread in a wait is awake once it was notified (or for no reason at     *)
(* all), and looks at its predicate when it gets the lock.                 *)
(***************************************************************************)
EXTENDS Integers, Sequences, SequencesExt, FiniteSets

CONSTANTS
    MaxThreads, \* bound on the size of the pool
    MaxTasks,   \* bound on the tasks of one call of run
    MaxRuns     \* bound on the calls of run, over the pool's life

ASSUME MaxThreadsAssumption == MaxThreads \in Nat
ASSUME MaxTasksAssumption == MaxTasks \in Nat
ASSUME MaxRunsAssumption == MaxRuns \in Nat

Tasks == 1..MaxTasks

VARIABLES
    N,              \* m_threads.size(), as the constructor was told
    m_tasks,
    m_tasks_cnt,
    m_complete_tasks_cnt,
    m_tasks_ready,
    m_done,
    m_threads_exit_cnt,
    pc,             \* where each worker is in thread_routine
    worker_tasks,   \* what each worker still has to execute of its share
    share,          \* tasks_per_worker
    mpc,            \* where the owner is
    todo,           \* without workers: what the owner still has to execute
    awake,          \* threads in a wait that will look at their predicate
    left,           \* tasks of the current run not executed yet
    caught,         \* workers not back from an earlier run when the last one
                    \* reset m_complete_tasks_cnt
    runs            \* calls of run so far

pool == <<m_tasks, m_tasks_cnt, m_complete_tasks_cnt, m_tasks_ready, m_done,
          m_threads_exit_cnt>>
vars == <<N, pool, pc, worker_tasks, share, mpc, todo, awake, left, caught, runs>>

Workers == 0..N-1
Main == N               \* the thread that owns the pool

TypeOK ==
    /\ N \in 0..MaxThreads
    /\ m_tasks \in Seq(Tasks)
    /\ m_tasks_cnt \in 0..MaxTasks
    /\ m_complete_tasks_cnt \in 0..MaxTasks
    /\ m_tasks_ready \in BOOLEAN
    /\ m_done \in BOOLEAN
    /\ m_threads_exit_cnt \in 0..N
    /\ pc \in [Workers -> {"ready", "work", "complete", "gone"}]
    /\ worker_tasks \in [Workers -> Seq(Tasks)]
    /\ share \in [Workers -> 0..MaxTasks]
    /\ mpc \in {"idle", "run", "inline", "stop", "gone"}
    /\ todo \in Seq(Tasks)
    /\ awake \subseteq Workers \cup {Main}
    /\ left \subseteq Tasks
    /\ caught \subseteq Workers
    /\ runs \in 0..MaxRuns

\* Every worker starts by locking m_mutex for its first look.
Init ==
    /\ N \in 0..MaxThreads
    /\ m_tasks = <<>>
    /\ m_tasks_cnt = 0
    /\ m_complete_tasks_cnt = 0
    /\ m_tasks_ready = FALSE
    /\ m_done = FALSE
    /\ m_threads_exit_cnt = 0
    /\ pc = [w \in Workers |-> "ready"]
    /\ worker_tasks = [w \in Workers |-> <<>>]
    /\ share = [w \in Workers |-> 0]
    /\ mpc = "idle"
    /\ todo = <<>>
    /\ awake = Workers
    /\ left = {}
    /\ caught = {}
    /\ runs = 0

Ready == m_tasks_ready /\ m_tasks # <<>>
Complete == m_complete_tasks_cnt = m_tasks_cnt
In(label) == {w \in Workers : pc[w] = label}

-----------------------------------------------------------------------------
(* The owner.                                                              *)

\* run without workers: the caller executes the tasks itself.
RunInline(k) ==
    /\ mpc = "idle"
    /\ N = 0
    /\ runs < MaxRuns
    /\ runs' = runs + 1
    /\ todo' = [i \in 1..k |-> i]
    /\ left' = 1..k
    /\ mpc' = "inline"
    /\ UNCHANGED <<N, pool, pc, worker_tasks, share, awake, caught>>

InlineTask ==
    /\ mpc = "inline"
    /\ todo # <<>>
    /\ left' = left \ {Head(todo)}
    /\ todo' = Tail(todo)
    /\ UNCHANGED <<N, pool, pc, worker_tasks, share, mpc, awake, caught, runs>>

InlineReturn ==
    /\ mpc = "inline"
    /\ todo = <<>>
    /\ mpc' = "idle"
    /\ UNCHANGED <<N, pool, pc, worker_tasks, share, todo, awake, left, caught, runs>>

\* run up to its wait.  The predicate of the wait is looked at before the lock
\* is given up: a call without tasks returns at once.
RunPost(k) ==
    /\ mpc = "idle"
    /\ N > 0
    /\ runs < MaxRuns
    /\ runs' = runs + 1
    /\ m_tasks' = m_tasks \o [i \in 1..k |-> i]
    /\ m_tasks_cnt' = Len(m_tasks')
    /\ m_complete_tasks_cnt' = 0
    /\ m_tasks_ready' = (m_tasks_cnt' # 0)
    /\ left' = 1..k
    /\ mpc' = IF m_tasks_cnt' = 0 THEN "idle" ELSE "run"
    /\ awake' = awake \cup In("ready")
    /\ caught' = In("work") \cup In("complete")
    /\ UNCHANGED <<N, m_done, m_threads_exit_cnt, pc, worker_tasks, share, todo>>

\* The owner has the lock again: it returns, or waits on.
RunWake ==
    /\ mpc = "run"
    /\ Main \in awake
    /\ IF Complete
         THEN m_tasks_ready' = FALSE /\ mpc' = "idle"
         ELSE UNCHANGED <<m_tasks_ready, mpc>>
    /\ awake' = awake \ {Main}
    /\ UNCHANGED <<N, m_tasks, m_tasks_cnt, m_complete_tasks_cnt, m_done,
                   m_threads_exit_cnt, pc, worker_tasks, share, todo, left, caught, runs>>

\* Mutation: the waiting workers are not notified.
StopWorkers_Silent ==
    /\ mpc = "idle"
    /\ m_done' = TRUE
    /\ mpc' = "stop"
    /\ awake' = awake \cup {Main}
    /\ UNCHANGED <<N, m_tasks, m_tasks_cnt, m_complete_tasks_cnt, m_tasks_ready,
                   m_threads_exit_cnt, pc, worker_tasks, share, todo, left, caught, runs>>

\* stop_workers, called by the destructor: first under m_mutex ...
StopWorkers ==
    /\ mpc = "idle"
    /\ m_done' = TRUE
    /\ mpc' = "stop"
    /\ awake' = awake \cup In("ready") \cup {Main}
    /\ UNCHANGED <<N, m_tasks, m_tasks_cnt, m_complete_tasks_cnt, m_tasks_ready,
                   m_threads_exit_cnt, pc, worker_tasks, share, todo, left, caught, runs>>

\* ... then under m_threads_exit_mutex, until all threads have left.
StopWake ==
    /\ mpc = "stop"
    /\ Main \in awake
    /\ mpc' = IF m_threads_exit_cnt = N THEN "gone" ELSE "stop"
    /\ awake' = awake \ {Main}
    /\ UNCHANGED <<N, pool, pc, worker_tasks, share, todo, left, caught, runs>>

-----------------------------------------------------------------------------
(* thread_routine.                                                         *)

TasksPerWorker(w) == m_tasks_cnt \div N + (IF w < m_tasks_cnt % N THEN 1 ELSE 0)

\* The section that starts at the top of the loop, or when the wait for tasks
\* gets the lock again.
WorkerSleep(w) ==
    /\ pc[w] = "ready"
    /\ w \in awake
    /\ ~Ready
    /\ ~m_done
    /\ awake' = awake \ {w}
    /\ UNCHANGED <<N, pool, pc, worker_tasks, share, mpc, todo, left, caught, runs>>

WorkerExit(w) ==
    /\ pc[w] = "ready"
    /\ w \in awake
    /\ m_done
    /\ m_threads_exit_cnt' = m_threads_exit_cnt + 1
    /\ pc' = [pc EXCEPT ![w] = "gone"]
    /\ awake' = (awake \ {w}) \cup (IF mpc = "stop" THEN {Main} ELSE {})
    /\ UNCHANGED <<N, m_tasks, m_tasks_cnt, m_complete_tasks_cnt, m_tasks_ready,
                   m_done, worker_tasks, share, mpc, todo, left, caught, runs>>

\* The worker takes its share from the back of the queue and unlocks.
Take(w, n) ==
    LET rest == Len(m_tasks) - n IN
    /\ pc[w] = "ready"
    /\ w \in awake
    /\ Ready
    /\ ~m_done
    /\ share' = [share EXCEPT ![w] = n]
    /\ worker_tasks' = [worker_tasks EXCEPT ![w] =
                          Reverse(SubSeq(m_tasks, rest + 1, Len(m_tasks)))]
    /\ m_tasks' = SubSeq(m_tasks, 1, rest)
    /\ pc' = [pc EXCEPT ![w] = "work"]
    /\ awake' = awake \ {w}
    /\ UNCHANGED <<N, m_tasks_cnt, m_complete_tasks_cnt, m_tasks_ready, m_done,
                   m_threads_exit_cnt, mpc, todo, left, caught, runs>>

\* Mutation: the queue is not shortened.
WorkerTake_NoResize(w) ==
    /\ pc[w] = "ready"
    /\ w \in awake
    /\ Ready
    /\ ~m_done
    /\ share' = [share EXCEPT ![w] = TasksPerWorker(w)]
    /\ worker_tasks' = [worker_tasks EXCEPT ![w] =
            Reverse(SubSeq(m_tasks, Len(m_tasks) - TasksPerWorker(w) + 1, Len(m_tasks)))]
    /\ pc' = [pc EXCEPT ![w] = "work"]
    /\ awake' = awake \ {w}
    /\ UNCHANGED <<N, m_tasks, m_tasks_cnt, m_complete_tasks_cnt, m_tasks_ready, m_done,
                   m_threads_exit_cnt, mpc, todo, left, caught, runs>>

WorkerTake(w) == Take(w, TasksPerWorker(w))

WorkerTask(w) ==
    /\ pc[w] = "work"
    /\ worker_tasks[w] # <<>>
    /\ left' = left \ {Head(worker_tasks[w])}
    /\ worker_tasks' = [worker_tasks EXCEPT ![w] = Tail(@)]
    /\ UNCHANGED <<N, pool, pc, share, mpc, todo, awake, caught, runs>>

\* The worker reports its share, wakes everybody who waits for completion, and
\* looks itself before it gives the lock up.
Report(w, wake) ==
    /\ m_complete_tasks_cnt' = m_complete_tasks_cnt + share[w]
    /\ pc' = [pc EXCEPT ![w] = IF m_complete_tasks_cnt' = m_tasks_cnt
                                 THEN "ready" ELSE "complete"]
    /\ awake' = awake \cup wake
                      \cup (IF m_complete_tasks_cnt' = m_tasks_cnt THEN {w} ELSE {})
    /\ UNCHANGED <<N, m_tasks, m_tasks_cnt, m_tasks_ready, m_done, m_threads_exit_cnt,
                   worker_tasks, share, mpc, todo, left, caught, runs>>

\* Mutation: only one of the waiting threads is notified.
WorkerReport_NotifyOne(w) ==
    /\ pc[w] = "work"
    /\ worker_tasks[w] = <<>>
    /\ \E x \in In("complete") \cup {Main} : Report(w, {x})

\* Mutation: the share is reported before it is executed.
WorkerReport_Early(w) ==
    /\ pc[w] = "work"
    /\ Report(w, In("complete") \cup (IF mpc = "run" THEN {Main} ELSE {}))

WorkerReport(w) ==
    /\ pc[w] = "work"
    /\ worker_tasks[w] = <<>>
    /\ Report(w, In("complete") \cup (IF mpc = "run" THEN {Main} ELSE {}))

\* The wait for completion gets the lock again.
WorkerCompleteWake(w) ==
    /\ pc[w] = "complete"
    /\ w \in awake
    /\ IF Complete
         THEN pc' = [pc EXCEPT ![w] = "ready"] /\ UNCHANGED awake
         ELSE awake' = awake \ {w} /\ UNCHANGED pc
    /\ UNCHANGED <<N, pool, worker_tasks, share, mpc, todo, left, caught, runs>>

-----------------------------------------------------------------------------

\* std::condition_variable::wait may return without a notification.
SpuriousWake ==
    /\ \E t \in In("ready") \cup In("complete")
                  \cup (IF mpc \in {"run", "stop"} THEN {Main} ELSE {}) :
          t \notin awake /\ awake' = awake \cup {t}
    /\ UNCHANGED <<N, pool, pc, worker_tasks, share, mpc, todo, left, caught, runs>>

OwnerStep == InlineTask \/ InlineReturn \/ RunWake \/ StopWake

WorkerStep(w) ==
    \/ WorkerSleep(w) \/ WorkerExit(w) \/ WorkerTake(w)
    \/ WorkerTask(w) \/ WorkerReport(w) \/ WorkerCompleteWake(w)

\* The pool is destroyed.
Destroyed == mpc = "gone" /\ UNCHANGED vars

Next ==
    \/ \E k \in 0..MaxTasks : RunInline(k) \/ RunPost(k)
    \/ StopWorkers
    \/ OwnerStep
    \/ \E w \in Workers : WorkerStep(w)
    \/ SpuriousWake
    \/ Destroyed

Spec == Init /\ [][Next]_vars

\* Threads are scheduled, locks are given to those who ask, tasks end.  The
\* owner need not call anything.
FairSpec ==
    /\ Spec
    /\ WF_vars(OwnerStep)
    /\ \A w \in 0..MaxThreads-1 : WF_vars(w \in Workers /\ WorkerStep(w))

-----------------------------------------------------------------------------
(* Properties                                                              *)

\* run returns when all tasks of the call were executed, each once, and none
\* is executed after it returned.
Run == INSTANCE TaskRun WITH running <- mpc \in {"run", "inline"}

RunsEveryTask == Run!Spec

EachTaskOnce ==
    /\ left = ToSet(m_tasks) \cup ToSet(todo)
                \cup UNION {ToSet(worker_tasks[w]) : w \in Workers}
    /\ IsInjective(m_tasks) /\ IsInjective(todo)
    /\ ToSet(m_tasks) \cap ToSet(todo) = {}
    /\ \A w \in Workers :
          /\ IsInjective(worker_tasks[w])
          /\ ToSet(worker_tasks[w]) \cap (ToSet(m_tasks) \cup ToSet(todo)) = {}
          /\ \A v \in Workers \ {w} :
                ToSet(worker_tasks[v]) \cap ToSet(worker_tasks[w]) = {}

SharesFit == Ready => \A w \in In("ready") : TasksPerWorker(w) <= Len(m_tasks)

\* What is not executed yet is in the queue or in one worker's hands, in one
\* place and once, and a worker that finds tasks ready finds its whole share: the
\* vector is not read past its end.
SharesPartitionTasks == TypeOK /\ EachTaskOnce /\ SharesFit

\* A call of run returns, unless it reset the count of completed tasks under a
\* worker that has still to look at the end of the last run, notified of it or
\* with an empty share: that worker waits for the new count and its share of
\* the new tasks stays in m_tasks.  gc_heap::collect runs one pool once for
\* every thread.
RunReturns == mpc = "run" ~> mpc = "idle" \/ caught # {}

\* The destructor returns: every worker sees m_done, wherever it was.
PoolStops == mpc = "stop" ~> mpc = "gone"

=============================================================================
