---------------------------- MODULE RtSemaphore ----------------------------
(***************************************************************************)
(* The semaphore (ipc.c) on top of the kernel core.  Each semaphore is the *)
(* head of its own suspend list (parent.suspend_thread), one of the lists  *)
(* of tlist; a thread blocked in rt_sem_take is linked there by the same   *)
(* node that links it in a ready list.                                     *)
(*                                                                         *)
(* owed is a history variable: for each semaphore, its initial value plus  *)
(* the releases minus the takes that returned RT_EOK.                      *)
(***************************************************************************)
EXTENDS RtKernel, FiniteSets

CONSTANTS
    SemFlag,      \* RT_IPC_FLAG_FIFO ("fifo") or RT_IPC_FLAG_PRIO ("prio")
    SemValue,     \* the value each semaphore is initialised with
    SemValueMax,  \* largest value of sem->value (a 16-bit field)
    ReleaseMax,   \* bound: clients release while fewer tokens are owed
    WaitTime,     \* the times threads pass to rt_sem_take, -1 for ever
    ResetValue    \* the values passed to RT_IPC_CMD_RESET

Sem == IpcList

ASSUME SemAssumption ==
    /\ SemFlag \in [Sem -> {"fifo", "prio"}]
    /\ SemValueMax \in Nat \ {0}
    /\ SemValue \in [Sem -> 0 .. SemValueMax]
    /\ ReleaseMax \in Nat
    /\ WaitTime \subseteq Int
    /\ ResetValue \subseteq 0 .. SemValueMax
    /\ Sem \cap Thread = {}
    /\ IsFiniteSet(Thread)

VARIABLES
    value,    \* sem->value
    result,   \* whether the last rt_sem_take of each thread returned RT_EOK
    owed      \* tokens released (or initial) and not yet taken

semVars == <<value, result, owed>>
allVars == <<vars, semVars>>

\* rt_sem_init
SemInit ==
    /\ Init
    /\ value = SemValue
    /\ result = [t \in Thread |-> "ok"]
    /\ owed = SemValue

-----------------------------------------------------------------------------
(* rt_sem_take.                                                            *)

\* Mutation: the value is not looked at.
TakeUnavailable(t, s) ==
    /\ Calls(t, "sem_take", s)
    /\ value' = [value EXCEPT ![s] = @ - 1]
    /\ owed' = [owed EXCEPT ![s] = @ - 1]
    /\ result' = [result EXCEPT ![t] = "ok"]
    /\ UNCHANGED vars

\* Value available: the fast path.
TakeAvailable(t, s) ==
    /\ Calls(t, "sem_take", s) /\ value[s] > 0
    /\ value' = [value EXCEPT ![s] = @ - 1]
    /\ owed' = [owed EXCEPT ![s] = @ - 1]
    /\ result' = [result EXCEPT ![t] = "ok"]
    /\ UNCHANGED vars

\* No value and time = 0 (rt_sem_trytake).
TakeRefused(t, s) ==
    /\ Calls(t, "sem_take", s) /\ value[s] = 0 /\ 0 \in WaitTime
    /\ result' = [result EXCEPT ![t] = "failed"]
    /\ UNCHANGED <<vars, value, owed>>

\* Mutation: at the end, whatever the priority.
WaitLast(s, l, t) == Len(l) + 1

\* Mutation: at the front.
WaitFirst(s, l, t) == 1

\* Mutation: before waiters of the same priority.
WaitBeforeEquals(s, l, t) ==
    CHOOSE i \in 1 .. Len(l) + 1 :
        /\ \A j \in 1 .. i - 1 : Priority[l[j]] < Priority[t]
        /\ i <= Len(l) => Priority[t] <= Priority[l[i]]

\* Where rt_ipc_list_suspend links the thread in list l.
WaitPosition(s, l, t) ==
    IF SemFlag[s] = "fifo"
    THEN Len(l) + 1
    ELSE CHOOSE i \in 1 .. Len(l) + 1 :
            /\ \A j \in 1 .. i - 1 : Priority[l[j]] <= Priority[t]
            /\ i <= Len(l) => Priority[t] < Priority[l[i]]

\* Mutation: the thread is moved but stays ready.
SuspendStaysReady(s, t) ==
    /\ tlist' = [rt_list_remove(tlist, t) EXCEPT ![s] = InsertAt(@, WaitPosition(s, @, t), t)]
    /\ group' = IF Len(tlist[Priority[t]]) = 1 THEN group \ {Priority[t]} ELSE group
    /\ UNCHANGED <<stat, fault>>

\* rt_ipc_list_suspend.  The result of rt_thread_suspend is ignored: a thread
\* that is not ready keeps its stat and is linked all the same.
rt_ipc_list_suspend(s, t) ==
    LET ready == stat[t] = "ready"
        ls == IF ready THEN rt_list_remove(tlist, t) ELSE tlist
    IN /\ tlist' = [ls EXCEPT ![s] = InsertAt(@, WaitPosition(s, @, t), t)]
       /\ stat' = IF ready THEN [stat EXCEPT ![t] = "suspend"] ELSE stat
       /\ group' = IF ready /\ ls[Priority[t]] = <<>> THEN group \ {Priority[t]}
                                                      ELSE group
       /\ fault' = IF IsLinked(ls, t) THEN "double_link" ELSE fault

\* The timer that rt_thread_suspend stops and rt_sem_take may start again.
WaitTimer(t, time) ==
    IF time > 0 THEN rt_timer_start(t, time)
    ELSE IF stat[t] = "ready" THEN rt_timer_stop(t) ELSE UNCHANGED timers

\* No value: join the suspend list, start the timer if there is a limit.
TakeBlock(t, s, time) ==
    /\ Calls(t, "sem_take", s) /\ value[s] = 0 /\ time # 0
    /\ error' = [error EXCEPT ![t] = "ok"]
    /\ rt_ipc_list_suspend(s, t)
    /\ WaitTimer(t, time)
    /\ Goto(t, At("sem_schedule", s, "user"))
    /\ UNCHANGED <<sched, remaining_tick, isr, semVars>>

\* do schedule; without the scheduler lock the thread stops here until it is
\* readied and chosen again.
TakeSchedule(t) ==
    /\ Running(t) /\ pc[t].at = "sem_schedule"
    /\ rt_schedule(tlist, group)
    /\ Goto(t, At("sem_woken", pc[t].arg, pc[t].then))
    /\ UNCHANGED <<links, timers, lock_nest, error, remaining_tick, isr, semVars>>

\* Back from rt_schedule: the take fails if thread->error is an error.  Line 346
\* reads it again, with interrupts on, to return it: a time-out in between can
\* change which error that is, but makes it no RT_EOK.
TakeReturn(t) ==
    /\ Running(t) /\ pc[t].at = "sem_woken"
    /\ result' = [result EXCEPT ![t] = IF error[t] = "ok" THEN "ok" ELSE "failed"]
    /\ owed' = IF error[t] = "ok" THEN [owed EXCEPT ![pc[t].arg] = @ - 1] ELSE owed
    /\ Goto(t, User)
    /\ UNCHANGED <<links, timers, sched, error, remaining_tick, isr, fault, value>>

-----------------------------------------------------------------------------
(* rt_sem_release.                                                         *)

\* rt_thread_resume with interrupts off: one step; it refuses a thread that
\* is not suspended.
ResumeNow(x) ==
    IF stat[x] = "suspend"
    THEN rt_schedule_insert_thread(rt_list_remove(tlist, x), x)
    ELSE UNCHANGED links

\* Mutation: the value is increased for a waiter as well.
ReleaseTwice(t, s) ==
    /\ Calls(t, "sem_release", s) /\ tlist[s] # <<>> /\ owed[s] < ReleaseMax
    /\ ResumeNow(Head(tlist[s]))
    /\ value' = [value EXCEPT ![s] = @ + 1]
    /\ owed' = [owed EXCEPT ![s] = @ + 1]
    /\ Goto(t, At("schedule", NoThread, "user"))
    /\ UNCHANGED <<timers, sched, error, remaining_tick, isr, fault, result>>

\* Mutation: the waiter is readied without a reschedule.
ReleaseWithoutSchedule(t, s) ==
    /\ Calls(t, "sem_release", s) /\ tlist[s] # <<>> /\ owed[s] < ReleaseMax
    /\ ResumeNow(Head(tlist[s]))
    /\ owed' = [owed EXCEPT ![s] = @ + 1]
    /\ UNCHANGED <<timers, sched, error, remaining_tick, pc, isr, fault, value, result>>

ReleaseToWaiter(t, s) ==
    /\ Calls(t, "sem_release", s) /\ tlist[s] # <<>> /\ owed[s] < ReleaseMax
    /\ ResumeNow(Head(tlist[s]))
    /\ owed' = [owed EXCEPT ![s] = @ + 1]
    /\ Goto(t, At("schedule", NoThread, "user"))
    /\ UNCHANGED <<timers, sched, error, remaining_tick, isr, fault, value, result>>

\* Mutation: the value is increased although a thread waits.
ReleasePastWaiter(t, s) ==
    /\ Calls(t, "sem_release", s) /\ owed[s] < ReleaseMax
    /\ value' = [value EXCEPT ![s] = IF @ = SemValueMax THEN 0 ELSE @ + 1]
    /\ owed' = [owed EXCEPT ![s] = @ + 1]
    /\ UNCHANGED <<vars, result>>

\* sem->value is 16 bits wide and nothing checks it.
ReleaseToValue(t, s) ==
    /\ Calls(t, "sem_release", s) /\ tlist[s] = <<>> /\ owed[s] < ReleaseMax
    /\ value' = [value EXCEPT ![s] = IF @ = SemValueMax THEN 0 ELSE @ + 1]
    /\ owed' = [owed EXCEPT ![s] = @ + 1]
    /\ UNCHANGED <<vars, result>>

-----------------------------------------------------------------------------
(* rt_sem_detach and rt_sem_control(RT_IPC_CMD_RESET).                     *)

\* Mutation: the body of the loop runs before its test.
ResumeAllUntested(t, s) == Goto(t, At("sem_resume_one", s, "user"))

\* The loop test of rt_ipc_list_resume_all, with interrupts on.
ResumeAllTest(t, s) ==
    Goto(t, IF tlist[s] = <<>> THEN User ELSE At("sem_resume_one", s, "user"))

rt_sem_detach(t, s) ==
    /\ Calls(t, "sem_detach", s)
    /\ ResumeAllTest(t, s)
    /\ UNCHANGED <<links, timers, sched, error, remaining_tick, isr, fault, semVars>>

\* One turn of the loop of rt_ipc_list_resume_all: the first waiter is readied
\* with an error code.
ResumeFirst(s) ==
    /\ error' = [error EXCEPT ![Head(tlist[s])] = "error"]
    /\ ResumeNow(Head(tlist[s]))

\* Each turn masks interrupts for itself.  If the list has emptied since the
\* test, its head is taken for a thread.
ResumeAllOne(t) ==
    LET s == pc[t].arg IN
    /\ Running(t) /\ pc[t].at = "sem_resume_one"
    /\ IF tlist[s] = <<>>
       THEN fault' = "no_waiter" /\ UNCHANGED <<links, error>>
       ELSE ResumeFirst(s) /\ UNCHANGED fault
    /\ Goto(t, At("sem_resume_all", s, "user"))
    /\ UNCHANGED <<timers, sched, remaining_tick, isr, semVars>>

ResumeAllAgain(t) ==
    /\ Running(t) /\ pc[t].at = "sem_resume_all"
    /\ ResumeAllTest(t, pc[t].arg)
    /\ UNCHANGED <<links, timers, sched, error, remaining_tick, isr, fault, semVars>>

\* Waiters that a release has readied and that have not returned yet.
Granted(s) ==
    {t \in Thread : /\ pc[t].at \in {"sem_schedule", "sem_woken"} /\ pc[t].arg = s
                    /\ ~Contains(tlist[s], t) /\ error[t] = "ok"}

\* rt_sem_control masks interrupts around the whole loop and the new value.
rt_sem_control(t, s) ==
    /\ Calls(t, "sem_reset", s)
    /\ isr' = "masked"
    /\ Goto(t, At("sem_reset", s, "user"))
    /\ UNCHANGED <<links, timers, sched, error, remaining_tick, fault, semVars>>

InReset(t) ==
    current_thread = t /\ isr = "masked" /\ fault = "none" /\ pc[t].at = "sem_reset"

ResetOne(t) ==
    /\ InReset(t) /\ tlist[pc[t].arg] # <<>>
    /\ ResumeFirst(pc[t].arg)
    /\ UNCHANGED <<timers, sched, remaining_tick, pc, isr, fault, semVars>>

ResetValueTo(t, v) ==
    LET s == pc[t].arg IN
    /\ InReset(t) /\ tlist[s] = <<>>
    /\ value' = [value EXCEPT ![s] = v]
    /\ owed' = [owed EXCEPT ![s] = v + Cardinality(Granted(s))]
    /\ isr' = "none"
    /\ Goto(t, At("schedule", NoThread, "user"))
    /\ UNCHANGED <<links, timers, sched, error, remaining_tick, fault, result>>

Reset(t) == ResetOne(t) \/ \E v \in ResetValue : ResetValueTo(t, v)

-----------------------------------------------------------------------------
SemCall(t, s) ==
    \/ TakeAvailable(t, s)
    \/ TakeRefused(t, s)
    \/ \E time \in WaitTime : TakeBlock(t, s, time)
    \/ ReleaseToWaiter(t, s)
    \/ ReleaseToValue(t, s)
    \/ rt_sem_detach(t, s)
    \/ rt_sem_control(t, s)

SemContinue(t) ==
    \/ TakeSchedule(t)
    \/ TakeReturn(t)
    \/ ResumeAllOne(t)
    \/ ResumeAllAgain(t)
    \/ Reset(t)

SemNext ==
    \/ Next /\ UNCHANGED semVars
    \/ \E t \in Thread, s \in Sem : SemCall(t, s)
    \/ \E t \in Thread : SemContinue(t)

SemSpec == SemInit /\ [][SemNext]_allVars

\* The tick comes as soon as a region that masks it is left, hence SF; such a
\* region runs on.
SemFairSpec ==
    /\ SemSpec
    /\ SF_allVars(SysTick /\ UNCHANGED semVars)
    /\ WF_allVars(\E t \in Thread : Reset(t))

-----------------------------------------------------------------------------
(* Properties.                                                             *)

SemTypeOK ==
    /\ TypeOK
    /\ value \in [Sem -> 0 .. SemValueMax]
    /\ result \in [Thread -> {"ok", "failed"}]
    /\ owed \in [Sem -> Int]

\* No token is lost and none is made up: what was released and not yet taken
\* is in the value or with a waiter that is on its way out of rt_sem_take.
TokensConserved ==
    fault = "none" => \A s \in Sem : owed[s] = value[s] + Cardinality(Granted(s))

\* Nobody waits for a semaphore that is available.
WaitersMeanZero == \A s \in Sem : tlist[s] # <<>> => value[s] = 0

\* A thread in a suspend list is suspended, inside its rt_sem_take on that
\* semaphore: rt_thread_resume will not refuse it, resume_all will end.
WaitersWait ==
    fault = "none" =>
        \A s \in Sem : \A x \in ToSet(tlist[s]) :
            /\ stat[x] = "suspend"
            /\ pc[x].arg = s /\ pc[x].at \in {"sem_schedule", "sem_woken"}

\* A priority list is ordered: release wakes the most urgent waiter.
PrioOrder ==
    \A s \in Sem : SemFlag[s] = "prio" =>
        \A i, j \in DOMAIN tlist[s] :
            i < j => Priority[tlist[s][i]] <= Priority[tlist[s][j]]

\* Nobody gets ahead of a waiter that was there before, except a waiter of
\* higher priority where the semaphore is RT_IPC_FLAG_PRIO.
NoOvertaking ==
    [][ \A s \in Sem : \A x, y \in Thread :
          /\ Precedes(tlist'[s], x, y) /\ Contains(tlist[s], y)
          /\ ~Precedes(tlist[s], x, y)
          => SemFlag[s] = "prio" /\ Priority[x] < Priority[y] ]_allVars

\* A take with a time limit does not wait for ever.
TimedTakesEnd ==
    \A x \in Thread :
        (\E s \in Sem : Contains(tlist[s], x)) /\ Contains(timer_list, x)
            ~> ~\E s \in Sem : Contains(tlist[s], x)

\* A take returns RT_EOK only with a token.
NoFalseTake == \A s \in Sem : owed[s] >= value[s]

\* A waiter that rt_sem_release has readied returns RT_EOK.
GrantedTakesSucceed ==
    \A s \in Sem : owed[s] <= value[s] + Cardinality(Granted(s))

\* rt_ipc_list_resume_all resumes threads that are suspended in the list, as
\* its comment says, and never its head taken for a thread.
NoPhantomWaiter == fault # "no_waiter"
=============================================================================
