----------------------------- MODULE PendingCall -----------------------------
(***************************************************************************)
(* details/threads/pending_call.cpp and posix_signal.cpp: how ONE thread   *)
(* defers the stop-the-world signal while it is in an unsafe scope.        *)
(*                                                                         *)
(* The object is thread local, so the only concurrency is the signal       *)
(* itself, which the kernel may deliver between any two loads and stores   *)
(* of the thread's own code.  Every load and store is therefore a step,    *)
(* and no step of the thread is taken while the kernel's handler runs.     *)
(*                                                                         *)
(* StopTheWorldProofs extends this module and StopTheWorld: what the two   *)
(* would both call Init, pc and so on has a longer name here.              *)
(***************************************************************************)
EXTENDS Naturals, Sequences

CONSTANTS
    DEPTH_STACK_SIZE,   \* capacity of m_depth_stack (8 in the code)
    MaxNested,          \* bound on the unsafe scopes nested in one another
    MaxSafe             \* bound on the safe scopes nested in one another

NOT_PENDING == 0
PENDING == 1

ASSUME DepthStackAssumption == DEPTH_STACK_SIZE \in Nat \ {0}
ASSUME MaxNestedAssumption == MaxNested \in Nat \ {0}

\* What the callers keep to: the one safe scope of the library is that of
\* gc_core::gc, and no collection is launched inside another.
ASSUME MaxSafeAssumption == MaxSafe \in Nat /\ MaxSafe <= DEPTH_STACK_SIZE

VARIABLES
    m_depth,            \* unsafe scopes open since the last safe scope
    m_pending_flag,     \* a signal came while m_depth > 0
    m_depth_stack_top,
    m_depth_stack,      \* m_depth saved by the enclosing safe scopes
    call_pc,            \* next step of the thread's own code
    reg,                \* the local of the running function
    call_sig,           \* SIGUSR2 is pending in the kernel
    call_hpc,           \* next step of the kernel-invoked handler
    open                \* the scope objects alive on the thread's stack:
                        \* open[i] unsafe scopes inside i-1 safe scopes

pendingVars == <<m_depth, m_pending_flag, m_depth_stack_top, m_depth_stack>>
callVars == <<m_depth, m_pending_flag, m_depth_stack_top, m_depth_stack,
              call_pc, reg, call_sig, call_hpc, open>>

CallPC == {"run", "enter_store", "leave_store", "safe_top", "safe_zero",
           "restore_top", "cip_load", "cip_clear", "call"}
HandlerPC == {"none", "entry", "call"}

CallTypeOK ==
    /\ m_depth \in Nat
    /\ m_pending_flag \in {NOT_PENDING, PENDING}
    /\ m_depth_stack_top \in 0..DEPTH_STACK_SIZE
    /\ m_depth_stack \in [0..DEPTH_STACK_SIZE-1 -> Nat]
    /\ call_pc \in CallPC
    /\ reg \in Nat
    /\ call_sig \in BOOLEAN
    /\ call_hpc \in HandlerPC
    /\ open \in Seq(Nat)

CallInit ==
    /\ m_depth = 0
    /\ m_pending_flag = NOT_PENDING
    /\ m_depth_stack_top = 0
    /\ m_depth_stack = [i \in 0..DEPTH_STACK_SIZE-1 |-> 0]
    /\ call_pc = "run"
    /\ reg = 0
    /\ call_sig = FALSE
    /\ call_hpc = "none"
    /\ open = <<0>>

-----------------------------------------------------------------------------
(* The kernel's side: pthread_kill, delivery, and the installed handler.   *)

\* A signal whose call has not started yet, wherever it is being kept.
Outstanding ==
    \/ call_sig
    \/ call_hpc = "entry"
    \/ m_pending_flag = PENDING
    \/ call_pc = "cip_clear" /\ reg = PENDING

\* stw_manager sends a thread the next signal only after it answered the last.
Send ==
    /\ ~Outstanding
    /\ call_sig' = TRUE
    /\ UNCHANGED <<pendingVars, call_pc, reg, call_hpc, open>>

\* sa_mask blocks the signal while its own handler runs, and only then: a call
\* made by call_if_pended can be interrupted by the next signal.
DeliverSignal ==
    /\ call_sig
    /\ call_hpc = "none"
    /\ call_sig' = FALSE
    /\ call_hpc' = "entry"
    /\ UNCHANGED <<pendingVars, call_pc, reg, open>>

\* pending_call::operator()
HandlerEntry ==
    /\ call_hpc = "entry"
    /\ IF m_depth > 0
         THEN /\ m_pending_flag' = PENDING
              /\ call_hpc' = "none"
         ELSE /\ call_hpc' = "call"
              /\ UNCHANGED m_pending_flag
    /\ UNCHANGED <<m_depth, m_depth_stack_top, m_depth_stack, call_pc, reg, call_sig, open>>

\* m_callable returns to the kernel frame.
HandlerReturn ==
    /\ call_hpc = "call"
    /\ call_hpc' = "none"
    /\ UNCHANGED <<pendingVars, call_pc, reg, call_sig, open>>

-----------------------------------------------------------------------------
(* The thread's own code, which runs only when no handler is above it.     *)

AtStep(label) == call_pc = label /\ call_hpc = "none"

\* enter_pending_scope: the load, then the store, of m_depth.
EnterPendingLoad ==
    /\ AtStep("run")
    /\ m_depth < MaxNested
    /\ reg' = m_depth
    /\ call_pc' = "enter_store"
    /\ UNCHANGED <<pendingVars, call_sig, call_hpc, open>>

EnterPendingStore ==
    /\ AtStep("enter_store")
    /\ m_depth' = reg + 1
    /\ open' = [open EXCEPT ![Len(open)] = @ + 1]
    /\ call_pc' = "run"
    /\ UNCHANGED <<m_pending_flag, m_depth_stack_top, m_depth_stack, reg, call_sig, call_hpc>>

\* leave_pending_scope: the destructor of an unsafe scope that is open.
LeavePendingLoad ==
    /\ AtStep("run")
    /\ open[Len(open)] > 0
    /\ reg' = m_depth
    /\ call_pc' = "leave_store"
    /\ UNCHANGED <<pendingVars, call_sig, call_hpc, open>>

\* Mutation: leaving the outermost scope does not look at the flag.
LeavePendingStore_NoCall ==
    /\ AtStep("leave_store")
    /\ m_depth' = reg - 1
    /\ open' = [open EXCEPT ![Len(open)] = @ - 1]
    /\ call_pc' = "run"
    /\ UNCHANGED <<m_pending_flag, m_depth_stack_top, m_depth_stack, reg, call_sig, call_hpc>>

LeavePendingStore ==
    /\ AtStep("leave_store")
    /\ m_depth' = reg - 1
    /\ open' = [open EXCEPT ![Len(open)] = @ - 1]
    /\ call_pc' = IF reg = 1 THEN "cip_load" ELSE "run"
    /\ UNCHANGED <<m_pending_flag, m_depth_stack_top, m_depth_stack, reg, call_sig, call_hpc>>

\* enter_safe_scope: save the depth, push it, and only then drop to zero.  Line
\* 39 only asserts that there is room; it is the callers who do not nest deeper.
EnterSafeSave ==
    /\ AtStep("run")
    /\ Len(open) <= MaxSafe
    /\ m_depth_stack' = [m_depth_stack EXCEPT ![m_depth_stack_top] = m_depth]
    /\ call_pc' = "safe_top"
    /\ UNCHANGED <<m_depth, m_pending_flag, m_depth_stack_top, reg, call_sig, call_hpc, open>>

EnterSafeTop ==
    /\ AtStep("safe_top")
    /\ m_depth_stack_top' = m_depth_stack_top + 1
    /\ call_pc' = "safe_zero"
    /\ UNCHANGED <<m_depth, m_pending_flag, m_depth_stack, reg, call_sig, call_hpc, open>>

\* Mutation: a signal deferred so far stays deferred in the safe scope.
EnterSafeZero_NoCall ==
    /\ AtStep("safe_zero")
    /\ m_depth' = 0
    /\ open' = Append(open, 0)
    /\ call_pc' = "run"
    /\ UNCHANGED <<m_pending_flag, m_depth_stack_top, m_depth_stack, reg, call_sig, call_hpc>>

EnterSafeZero ==
    /\ AtStep("safe_zero")
    /\ m_depth' = 0
    /\ open' = Append(open, 0)
    /\ call_pc' = "cip_load"
    /\ UNCHANGED <<m_pending_flag, m_depth_stack_top, m_depth_stack, reg, call_sig, call_hpc>>

\* Mutation: the saved depth is not put back.
LeaveSafeRestore_Zero ==
    /\ AtStep("run")
    /\ Len(open) > 1
    /\ open[Len(open)] = 0
    /\ m_depth' = 0
    /\ open' = SubSeq(open, 1, Len(open) - 1)
    /\ call_pc' = "restore_top"
    /\ UNCHANGED <<m_pending_flag, m_depth_stack_top, m_depth_stack, reg, call_sig, call_hpc>>

\* leave_safe_scope: no unsafe scope opened inside it is still alive.
LeaveSafeRestore ==
    /\ AtStep("run")
    /\ Len(open) > 1
    /\ open[Len(open)] = 0
    /\ m_depth' = m_depth_stack[m_depth_stack_top - 1]
    /\ open' = SubSeq(open, 1, Len(open) - 1)
    /\ call_pc' = "restore_top"
    /\ UNCHANGED <<m_pending_flag, m_depth_stack_top, m_depth_stack, reg, call_sig, call_hpc>>

\* Mutation: the saved depth is put back but not popped.
LeaveSafeTop_Keep ==
    /\ AtStep("restore_top")
    /\ call_pc' = "run"
    /\ UNCHANGED <<pendingVars, reg, call_sig, call_hpc, open>>

LeaveSafeTop ==
    /\ AtStep("restore_top")
    /\ m_depth_stack_top' = m_depth_stack_top - 1
    /\ call_pc' = "run"
    /\ UNCHANGED <<m_depth, m_pending_flag, m_depth_stack, reg, call_sig, call_hpc, open>>

\* call_if_pended: load the flag, clear it, call.
CallIfPendedLoad ==
    /\ AtStep("cip_load")
    /\ reg' = m_pending_flag
    /\ call_pc' = "cip_clear"
    /\ UNCHANGED <<pendingVars, call_sig, call_hpc, open>>

\* Mutation: the flag is not cleared before the call.
CallIfPendedClear_Forget ==
    /\ AtStep("cip_clear")
    /\ call_pc' = IF reg = PENDING THEN "call" ELSE "run"
    /\ UNCHANGED <<pendingVars, reg, call_sig, call_hpc, open>>

CallIfPendedClear ==
    /\ AtStep("cip_clear")
    /\ m_pending_flag' = NOT_PENDING
    /\ call_pc' = IF reg = PENDING THEN "call" ELSE "run"
    /\ UNCHANGED <<m_depth, m_depth_stack_top, m_depth_stack, reg, call_sig, call_hpc, open>>

\* m_callable returns to call_if_pended.
CallReturn ==
    /\ AtStep("call")
    /\ call_pc' = "run"
    /\ UNCHANGED <<pendingVars, reg, call_sig, call_hpc, open>>

-----------------------------------------------------------------------------

OpenScope ==
    EnterPendingLoad \/ EnterSafeSave

\* Steps that finish a function already entered.
Finish ==
    \/ EnterPendingStore
    \/ LeavePendingStore
    \/ EnterSafeTop \/ EnterSafeZero
    \/ LeaveSafeTop
    \/ CallIfPendedLoad \/ CallIfPendedClear
    \/ CallReturn

CloseScope ==
    LeavePendingLoad \/ LeaveSafeRestore

SignalHandler == DeliverSignal \/ HandlerEntry \/ HandlerReturn

CallNext == Send \/ SignalHandler \/ OpenScope \/ CloseScope \/ Finish

CallSpec == CallInit /\ [][CallNext]_callVars

\* The kernel delivers a pending signal, a started function is finished and
\* the call returns; that scopes are opened and closed is not assumed.
FairCallSpec == CallSpec /\ WF_callVars(SignalHandler) /\ WF_callVars(Finish)

-----------------------------------------------------------------------------
(* Properties                                                              *)

\* The stop-the-world handler never runs on top of an unsafe scope, whichever
\* load or store of pending_call.cpp the signal interrupts.
CallOnlyOutsideUnsafe ==
    (call_pc = "call" \/ call_hpc = "call") =>
        m_depth = 0 /\ open[Len(open)] = 0

\* Between two calls into pending_call, m_depth and the saved depths are those
\* of the scope objects really alive on the thread's stack: leaving a safe
\* scope puts back the depth that entering it took away.
DepthsMatchScopes ==
    call_pc = "run" =>
        /\ m_depth_stack_top = Len(open) - 1
        /\ m_depth = open[Len(open)]
        /\ \A i \in 0..m_depth_stack_top-1 : m_depth_stack[i] = open[i+1]

\* A thread that is outside pending_call and in no unsafe scope holds no
\* deferred signal: it has already answered.
NoForgottenSignal ==
    (call_pc = "run" /\ m_depth = 0) => m_pending_flag = NOT_PENDING

\* Every step is one DeferredCall allows: no signal is dropped, answered twice
\* or answered inside an unsafe scope.
Promise == INSTANCE DeferredCall WITH
    owed <- Outstanding,
    deferred <- m_depth > 0,
    calls <- (IF call_pc = "call" THEN 1 ELSE 0) + (IF call_hpc = "call" THEN 1 ELSE 0)

KeepsPromise == Promise!Spec

\* A thread that comes out of its unsafe scopes again and again answers every
\* signal.
SignalsAnswered ==
    ([]<>(m_depth = 0)) => (Outstanding ~> ~Outstanding)

=============================================================================
