--------------------------- MODULE ContextSwitch ---------------------------
(***************************************************************************)
(* The deferred context switch of the Cortex-M3 port (context_rvde.s,      *)
(* cpuport.c): rt_schedule only records which thread to leave and which to *)
(* enter and pends PendSV; PendSV_Handler saves and restores later, when   *)
(* no interrupt handler runs and PRIMASK is clear.                         *)
(*                                                                         *)
(* A context (r0-r15, psr and the stack above them) is abstracted to the   *)
(* thread it belongs to and how far that thread has run.  The choice of    *)
(* the next thread is left open: RtKernel models how rt_schedule makes it. *)
(***************************************************************************)
EXTENDS Naturals

CONSTANTS Thread,    \* the thread control blocks
          Null,      \* 0 in rt_interrupt_from_thread, RT_NULL elsewhere
          MaxStep    \* bound on the steps of a thread

ASSUME SwitchAssumption == Null \notin Thread /\ MaxStep \in Nat

VARIABLES
    current_thread,  \* rt_current_thread
    flag,            \* rt_thread_switch_interrupt_flag
    from_thread,     \* rt_interrupt_from_thread
    to_thread,       \* rt_interrupt_to_thread
    pendsv,          \* PendSV is pending
    primask,         \* PRIMASK: interrupts are masked
    mode,            \* "boot": main; "thread"; "isr": SysTick_Handler
    cpu,             \* the thread whose stack the PSP points into
    regs,            \* the context in the CPU
    saved,           \* the context at thread->sp
    steps            \* how far each thread has run (history)

request == <<flag, from_thread, to_thread, pendsv>>
contexts == <<cpu, regs, saved, steps>>
vars == <<current_thread, request, primask, mode, contexts>>

Context == [owner : Thread \cup {Null}, step : Nat]

\* rt_hw_stack_init has built a first context for every thread.  main runs
\* on the main stack, with interrupts masked.
Init ==
    /\ current_thread = Null
    /\ flag = FALSE /\ from_thread = Null /\ to_thread = Null /\ pendsv = FALSE
    /\ primask = TRUE /\ mode = "boot"
    /\ cpu = Null
    /\ regs = [owner |-> Null, step |-> 0]
    /\ saved = [t \in Thread |-> [owner |-> t, step |-> 0]]
    /\ steps = [t \in Thread |-> 0]

\* Mutation: the target is not stored.
SwitchToForgetsTarget(t) ==
    /\ mode = "boot" /\ current_thread = Null
    /\ current_thread' = t
    /\ from_thread' = Null
    /\ flag' = TRUE /\ pendsv' = TRUE
    /\ primask' = FALSE
    /\ UNCHANGED <<to_thread, mode, contexts>>

\* rt_system_scheduler_start: rt_hw_context_switch_to(t) and CPSIE I.
rt_hw_context_switch_to(t) ==
    /\ mode = "boot" /\ current_thread = Null
    /\ current_thread' = t
    /\ to_thread' = t /\ from_thread' = Null
    /\ flag' = TRUE /\ pendsv' = TRUE
    /\ primask' = FALSE
    /\ UNCHANGED <<mode, contexts>>

\* Mutation: without _reswitch, every request names the thread it leaves.
SwitchOverwritesFrom(from, to) ==
    /\ flag' = TRUE
    /\ from_thread' = from
    /\ to_thread' = to
    /\ pendsv' = TRUE

\* Mutation: a request that has not been served is left as it is.
SwitchKeepsFirst(from, to) ==
    /\ flag' = TRUE
    /\ from_thread' = IF flag THEN from_thread ELSE from
    /\ to_thread' = IF flag THEN to_thread ELSE to
    /\ pendsv' = TRUE

\* Mutation: PendSV is not pended.
SwitchForgetsPendSV(from, to) ==
    /\ flag' = TRUE
    /\ from_thread' = IF flag THEN from_thread ELSE from
    /\ to_thread' = to
    /\ UNCHANGED pendsv

\* rt_hw_context_switch(from, to): a request that has not been served keeps
\* the thread it leaves (_reswitch) and changes only where it goes.
rt_hw_context_switch(from, to) ==
    /\ flag' = TRUE
    /\ from_thread' = IF flag THEN from_thread ELSE from
    /\ to_thread' = to
    /\ pendsv' = TRUE

\* An exception is taken as soon as it is pending and not masked; of the two,
\* which have the same priority, PendSV has the lower number and goes first.
PendSVWaits == pendsv /\ ~primask /\ mode # "isr"

\* rt_schedule, in a thread or in the tick interrupt, chooses thread t.
rt_schedule(t) ==
    /\ mode \in {"thread", "isr"} /\ ~PendSVWaits
    /\ t # current_thread
    /\ current_thread' = t
    /\ rt_hw_context_switch(current_thread, t)
    /\ UNCHANGED <<primask, mode, contexts>>

\* PendSV_Handler.  Without a request it returns to where it came from.
PendSV_Handler ==
    /\ PendSVWaits
    /\ pendsv' = FALSE
    /\ flag' = FALSE
    /\ mode' = "thread"
    /\ IF flag
       THEN /\ saved' = IF from_thread = Null THEN saved
                        ELSE [saved EXCEPT ![from_thread] = regs]
            /\ regs' = saved'[to_thread]
            /\ cpu' = to_thread
       ELSE UNCHANGED <<saved, regs, cpu>>
    /\ UNCHANGED <<current_thread, from_thread, to_thread, primask, steps>>

\* The SysTick exception, which no other exception of this system preempts.
SysTick_Handler ==
    /\ mode = "thread" /\ ~primask /\ ~PendSVWaits
    /\ mode' = "isr"
    /\ UNCHANGED <<current_thread, request, primask, contexts>>

SysTick_Return ==
    /\ mode = "isr"
    /\ mode' = "thread"
    /\ UNCHANGED <<current_thread, request, primask, contexts>>

\* rt_hw_interrupt_disable and rt_hw_interrupt_enable in a thread: a kernel
\* call, or an application that brackets several of them.
rt_hw_interrupt_disable ==
    /\ mode = "thread" /\ ~PendSVWaits
    /\ primask' = TRUE
    /\ UNCHANGED <<current_thread, request, mode, contexts>>

rt_hw_interrupt_enable ==
    /\ mode = "thread" /\ primask
    /\ primask' = FALSE
    /\ UNCHANGED <<current_thread, request, mode, contexts>>

\* The CPU executes the thread whose context it holds.
ThreadStep ==
    /\ mode = "thread" /\ ~PendSVWaits
    /\ steps[cpu] < MaxStep
    /\ steps' = [steps EXCEPT ![cpu] = @ + 1]
    /\ regs' = [owner |-> regs.owner, step |-> regs.step + 1]
    /\ UNCHANGED <<current_thread, request, primask, mode, cpu, saved>>

Next ==
    \/ \E t \in Thread : rt_hw_context_switch_to(t) \/ rt_schedule(t)
    \/ PendSV_Handler
    \/ SysTick_Handler
    \/ SysTick_Return
    \/ rt_hw_interrupt_disable
    \/ rt_hw_interrupt_enable
    \/ ThreadStep

Spec == Init /\ [][Next]_vars

\* main reaches its first switch, every handler returns, every critical
\* section ends, and the hardware takes an exception that is due.
FairSpec ==
    /\ Spec
    /\ WF_vars(\E t \in Thread : rt_hw_context_switch_to(t))
    /\ WF_vars(PendSV_Handler)
    /\ WF_vars(SysTick_Return)
    /\ WF_vars(rt_hw_interrupt_enable)

-----------------------------------------------------------------------------
(* Properties.                                                             *)

\* Each variable stays in its type, and a request names the thread to enter.
TypeOK ==
    /\ current_thread \in Thread \cup {Null}
    /\ flag \in BOOLEAN /\ pendsv \in BOOLEAN /\ primask \in BOOLEAN
    /\ from_thread \in Thread \cup {Null}
    /\ to_thread \in Thread \cup {Null}
    /\ flag => to_thread # Null
    /\ mode \in {"boot", "thread", "isr"}
    /\ cpu \in Thread \cup {Null}
    /\ regs \in Context
    /\ saved \in [Thread -> Context]
    /\ steps \in [Thread -> Nat]

\* A thread always goes on in its own context, where it stopped: the CPU
\* holds the running thread's, and every other thread's is at its sp.
ContextsKept ==
    /\ cpu # Null => regs = [owner |-> cpu, step |-> steps[cpu]]
    /\ \A t \in Thread : t # cpu => saved[t] = [owner |-> t, step |-> steps[t]]

\* With interrupts enabled and no switch due, the thread that runs is
\* rt_current_thread: rt_thread_self() is the caller.
RunsCurrent ==
    mode = "thread" /\ ~primask /\ ~pendsv => cpu = current_thread

\* A request leaves the thread whose context is in the CPU, whatever number of
\* rt_schedule calls it merges, and enters the thread chosen last; without a
\* request nothing is owed to anybody.
RequestConsistent ==
    /\ flag => pendsv /\ from_thread = cpu /\ to_thread = current_thread
    /\ ~flag => cpu = current_thread

\* Every request that rt_schedule records is served: interrupts that are
\* masked and requests that replace each other only delay PendSV.
RequestsServed == flag ~> ~flag
=============================================================================
