------------------------------ MODULE RtKernel ------------------------------
(***************************************************************************)
(* The kernel core of the repository: the scheduler (scheduler.c), the     *)
(* thread operations (thread.c), the system tick (clock.c) and the thread  *)
(* timers that sleeping uses (timer.c).                                    *)
(*                                                                         *)
(* One CPU runs rt_current_thread.  A step of this module is a stretch of  *)
(* code during which the CPU takes no interrupt: a region between          *)
(* rt_hw_interrupt_disable and rt_hw_interrupt_enable, or one shared       *)
(* access outside such a region.  Between two steps of a call the SysTick  *)
(* interrupt may run and hand the CPU to another thread; pc remembers, for *)
(* each thread, where in which call it was.  Inside the interrupt no       *)
(* thread runs (isr); RtSemaphore has a masked region of several steps.    *)
(*                                                                         *)
(* thread->tlist is an intrusive node, so a thread is in at most one list: *)
(* linking a node that is already linked, or scheduling out of an empty    *)
(* level, is undefined in C.  The model records it in fault and stops.     *)
(***************************************************************************)
EXTENDS Integers, Sequences, SequencesExt, BitSearch

CONSTANTS
    Thread,       \* the thread control blocks
    NoThread,     \* RT_NULL
    idle,         \* the idle thread
    PrioMax,      \* RT_THREAD_PRIORITY_MAX
    IpcList,      \* heads of the suspend lists of IPC objects
    Priority,     \* priority each thread was initialised with
    InitTick,     \* time slice each thread was initialised with
    TickMax,      \* largest value of rt_tick_t
    LockMax,      \* value at which rt_enter_critical stops counting (255)
    Delay,        \* delays the threads ask for
    BootThread,   \* threads that main starts before the scheduler
    Api           \* the calls each thread makes: <<operation, its target>>

Prio == 0 .. PrioMax - 1
ListHead == Prio \cup IpcList

ASSUME ConstantsAssumption ==
    /\ NoThread \notin Thread
    /\ idle \in BootThread
    /\ BootThread \subseteq Thread
    /\ PrioMax \in 1 .. 32
    /\ IpcList \cap Prio = {}
    /\ Priority \in [Thread -> Prio]
    /\ TickMax \in Nat \ {0}
    /\ InitTick \in [Thread -> 0 .. TickMax]
    /\ LockMax \in Nat \ {0}
    /\ Delay \subseteq Nat

VARIABLES
    tlist,           \* every list that links threads by thread->tlist
    group,           \* rt_thread_ready_priority_group, as the set of its bits
    stat,            \* thread->stat
    error,           \* thread->error
    remaining_tick,  \* thread->remaining_tick
    current_thread,  \* rt_current_thread
    lock_nest,       \* rt_scheduler_lock_nest
    timer_list,      \* rt_timer_list: the threads whose timer is in it
    timeout,         \* thread_timer.timeout_tick, counted from rt_tick
    activated,       \* threads whose timer has RT_TIMER_FLAG_ACTIVATED
    pc,              \* where each thread is in its kernel call
    isr,             \* where the SysTick handler is, or "masked"
    fault            \* the first undefined operation, if any

links == <<tlist, group, stat>>
timers == <<timer_list, timeout, activated>>
sched == <<current_thread, lock_nest>>
vars == <<links, timers, sched, error, remaining_tick, pc, isr, fault>>

\* RT_THREAD_CLOSE is "close_init" for a thread that was closed without having been
\* started: its number_mask is still 0.
Stat == {"init", "ready", "suspend", "close", "close_init"}
NumberMask(x) == IF stat[x] \in {"init", "close_init"} THEN {} ELSE {Priority[x]}

\* Where a thread is (at), what the call works on (arg), what follows (then).
PC ==
    [at : {"user", "schedule"}, arg : {NoThread}, then : {"user"}]
    \cup [at : {"startup_resume", "resume_remove", "resume_insert", "suspend_crit"},
          arg : Thread, then : {"user", "schedule"}]
    \cup [at : {"close_remove", "close_timer", "close_stat", "close_list"},
          arg : Thread, then : {"delete", "detach"}]
    \cup [at : {"sem_schedule", "sem_woken", "sem_resume_all", "sem_resume_one", "sem_reset"},
          arg : IpcList, then : {"user"}]

User == [at |-> "user", arg |-> NoThread, then |-> "user"]
At(label, x, next) == [at |-> label, arg |-> x, then |-> next]

-----------------------------------------------------------------------------
(* Lists of threads (rtservice.h).                                         *)

IndexOf(s, x) == CHOOSE i \in DOMAIN s : s[i] = x
Without(s, x) == IF Contains(s, x) THEN RemoveAt(s, IndexOf(s, x)) ELSE s

\* rt_list_remove(&thread->tlist): unlinks x wherever it is linked; a node
\* that is alone stays as it is.
rt_list_remove(ls, x) == [h \in ListHead |-> Without(ls[h], x)]

IsLinked(ls, x) == \E h \in ListHead : Contains(ls[h], x)

\* Mutation: rt_list_insert_after, at the front of the level.
insert_front(ls, x) == [ls EXCEPT ![Priority[x]] = <<x>> \o @]

\* rt_list_insert_before(head, node): appends at the tail of the level.
insert_ready(ls, x) == [ls EXCEPT ![Priority[x]] = Append(@, x)]

-----------------------------------------------------------------------------
(* Scheduler (scheduler.c).                                                *)

highest_ready_priority(g) == __rt_ffs(g) - 1

to_thread(ls, g) ==
    IF g = {} \/ ls[highest_ready_priority(g)] = <<>>
    THEN NoThread
    ELSE Head(ls[highest_ready_priority(g)])

\* Mutation: the scheduler lock is not looked at.
ScheduleIgnoresLock(ls, g) ==
    /\ current_thread' = to_thread(ls, g)
    /\ fault' = IF current_thread' = NoThread THEN "empty_level" ELSE fault

\* rt_schedule with the lists ls and the bitmap g.  PendSV runs as soon as
\* interrupts are enabled again, so the switch is this step.
rt_schedule(ls, g) ==
    /\ current_thread' = IF lock_nest = 0 THEN to_thread(ls, g)
                                          ELSE current_thread
    /\ fault' = IF current_thread' = NoThread THEN "empty_level" ELSE fault

\* Mutation: the state is left as it is.
InsertForgetsStat(ls, x) ==
    /\ tlist' = insert_ready(ls, x)
    /\ group' = group \cup {Priority[x]}
    /\ UNCHANGED stat

\* rt_schedule_insert_thread on the lists ls.
rt_schedule_insert_thread(ls, x) ==
    /\ stat' = [stat EXCEPT ![x] = "ready"]
    /\ tlist' = insert_ready(ls, x)
    /\ group' = group \cup {Priority[x]}

\* Mutation: the bit stays.
RemoveKeepsBit(x) == tlist' = rt_list_remove(tlist, x) /\ UNCHANGED group

\* Mutation: the bit of rt_current_priority goes.
RemoveClearsCurrent(x) ==
    /\ tlist' = rt_list_remove(tlist, x)
    /\ group' = IF tlist'[Priority[x]] = <<>> THEN group \ {Priority[current_thread]}
                                              ELSE group

\* rt_schedule_remove_thread: the bit goes when the level is empty, and the
\* thread has one.
rt_schedule_remove_thread(x) ==
    /\ tlist' = rt_list_remove(tlist, x)
    /\ group' = IF tlist'[Priority[x]] = <<>> THEN group \ NumberMask(x) ELSE group

-----------------------------------------------------------------------------
(* Thread timers (timer.c), as far as the thread operations use them.      *)

\* rt_timer_stop: only an activated timer is taken out of the list.
rt_timer_stop(x) ==
    /\ timer_list' = IF x \in activated THEN Without(timer_list, x)
                                        ELSE timer_list
    /\ activated' = activated \ {x}
    /\ UNCHANGED timeout

\* Mutation: new timers go to the end of the list.
InsertLast(l, d) == Len(l) + 1

\* Position before the first timer that expires strictly later.
InsertPosition(l, d) ==
    CHOOSE i \in 1 .. Len(l) + 1 :
        /\ \A j \in 1 .. i - 1 : timeout[l[j]] <= d
        /\ i <= Len(l) => timeout[l[i]] > d

\* Mutation: RT_TIMER_FLAG_ACTIVATED is not set.
StartForgetsFlag(x, d) ==
    LET l == Without(timer_list, x) IN
    /\ timer_list' = InsertAt(l, InsertPosition(l, d), x)
    /\ timeout' = [timeout EXCEPT ![x] = d]
    /\ UNCHANGED activated

\* Mutation: the search leaves without inserting when the list has elements.
StartIntoEmptyList(x, d) ==
    LET l == Without(timer_list, x) IN
    /\ timer_list' = IF l = <<>> THEN <<x>> ELSE l
    /\ timeout' = [timeout EXCEPT ![x] = d]
    /\ activated' = activated \cup {x}

\* rt_timer_control(SET_TIME) and rt_timer_start, called with interrupts off.
rt_timer_start(x, d) ==
    LET l == Without(timer_list, x) IN
    /\ timer_list' = InsertAt(l, InsertPosition(l, d), x)
    /\ timeout' = [timeout EXCEPT ![x] = d]
    /\ activated' = activated \cup {x}

-----------------------------------------------------------------------------
(* Boot (main.c): interrupts are off until the first switch.               *)

\* The lists of the IPC objects are initialised with their objects.
rt_system_scheduler_init ==
    /\ tlist = [h \in ListHead |-> <<>>]
    /\ group = {}
    /\ current_thread = NoThread
    /\ lock_nest = 0

rt_thread_init ==
    /\ stat = [t \in Thread |-> "init"]
    /\ error = [t \in Thread |-> "ok"]
    /\ remaining_tick = InitTick

\* rt_system_timer_init and the rt_timer_init of every thread.
rt_timer_init ==
    /\ timer_list = <<>>
    /\ timeout = [t \in Thread |-> 0]
    /\ activated = {}

Init ==
    /\ rt_system_scheduler_init /\ rt_thread_init /\ rt_timer_init
    /\ pc = [t \in Thread |-> User]
    /\ isr = "none"
    /\ fault = "none"

\* rt_thread_startup as main calls it: rt_thread_self() is RT_NULL, so there
\* is no rt_schedule.  main starts the idle thread first.
BootStartup(x) ==
    /\ current_thread = NoThread /\ fault = "none"
    /\ x \in BootThread /\ stat[x] = "init"
    /\ x = idle \/ stat[idle] = "ready"
    /\ rt_schedule_insert_thread(rt_list_remove(tlist, x), x)
    /\ UNCHANGED <<timers, sched, error, remaining_tick, pc, isr, fault>>

rt_system_scheduler_start ==
    /\ current_thread = NoThread /\ fault = "none"
    /\ \A x \in BootThread : stat[x] = "ready"
    /\ current_thread' = to_thread(tlist, group)
    /\ UNCHANGED <<links, timers, lock_nest, error, remaining_tick, pc, isr, fault>>

-----------------------------------------------------------------------------
(* Thread operations (thread.c), called by the running thread t.           *)

Running(t) == current_thread = t /\ isr = "none" /\ fault = "none"
Calls(t, op, x) == Running(t) /\ pc[t] = User /\ <<op, x>> \in Api[t]
Goto(t, next) == pc' = [pc EXCEPT ![t] = next]

\* The last statement of several calls.
Reschedule(t) ==
    /\ Running(t) /\ pc[t].at = "schedule"
    /\ rt_schedule(tlist, group)
    /\ Goto(t, User)
    /\ UNCHANGED <<links, timers, lock_nest, error, remaining_tick, isr>>

\* The state check of rt_thread_resume, with interrupts on.
CheckSuspended(t, x, next) ==
    Goto(t, IF stat[x] = "suspend" THEN At("resume_remove", x, next)
                                   ELSE At(next, NoThread, "user"))

rt_thread_resume(t, x) ==
    /\ Calls(t, "resume", x)
    /\ CheckSuspended(t, x, "user")
    /\ UNCHANGED <<links, timers, sched, error, remaining_tick, isr, fault>>

\* First critical section of rt_thread_resume.  The bitmap is not touched.
ResumeRemove(t) ==
    /\ Running(t) /\ pc[t].at = "resume_remove"
    /\ tlist' = rt_list_remove(tlist, pc[t].arg)
    /\ Goto(t, At("resume_insert", pc[t].arg, pc[t].then))
    /\ UNCHANGED <<group, stat, timers, sched, error, remaining_tick, isr, fault>>

\* Second critical section: rt_schedule_insert_thread.
ResumeInsert(t) ==
    /\ Running(t) /\ pc[t].at = "resume_insert"
    /\ rt_schedule_insert_thread(tlist, pc[t].arg)
    /\ fault' = IF IsLinked(tlist, pc[t].arg) THEN "double_link" ELSE fault
    /\ Goto(t, At(pc[t].then, NoThread, "user"))
    /\ UNCHANGED <<timers, sched, error, remaining_tick, isr>>

\* rt_thread_startup of a thread main left to the application, which starts
\* it once: the code does not look at its state.
rt_thread_startup(t, x) ==
    /\ Calls(t, "startup", x) /\ stat[x] = "init"
    /\ stat' = [stat EXCEPT ![x] = "suspend"]
    /\ Goto(t, At("startup_resume", x, "schedule"))
    /\ UNCHANGED <<tlist, group, timers, sched, error, remaining_tick, isr, fault>>

StartupResume(t) ==
    /\ Running(t) /\ pc[t].at = "startup_resume"
    /\ CheckSuspended(t, pc[t].arg, "schedule")
    /\ UNCHANGED <<links, timers, sched, error, remaining_tick, isr, fault>>

\* The state check of rt_thread_suspend, with interrupts on.
rt_thread_suspend(t, x) ==
    /\ Calls(t, "suspend", x)
    /\ Goto(t, IF stat[x] = "ready" THEN At("suspend_crit", x, "user") ELSE User)
    /\ UNCHANGED <<links, timers, sched, error, remaining_tick, isr, fault>>

\* Mutation: the state is left as it is.
SuspendForgetsStat(x) == rt_schedule_remove_thread(x) /\ UNCHANGED stat

\* The effect of rt_thread_suspend once past its check.
Suspend(x) ==
    /\ stat' = [stat EXCEPT ![x] = "suspend"]
    /\ rt_schedule_remove_thread(x)

SuspendCrit(t) ==
    /\ Running(t) /\ pc[t].at = "suspend_crit"
    /\ Suspend(pc[t].arg)
    /\ rt_timer_stop(pc[t].arg)
    /\ Goto(t, User)
    /\ UNCHANGED <<sched, error, remaining_tick, isr, fault>>

\* rt_thread_sleep up to rt_schedule.  rt_thread_suspend refuses a thread that
\* is not ready (it runs on after suspending itself, or under the scheduler
\* lock) and its result is ignored: the timer is started all the same.
rt_thread_sleep(t, tick) ==
    /\ Calls(t, "sleep", NoThread) /\ tick \in Delay
    /\ IF stat[t] = "ready" THEN Suspend(t) ELSE UNCHANGED links
    /\ rt_timer_start(t, tick)
    /\ Goto(t, At("schedule", NoThread, "user"))
    /\ UNCHANGED <<sched, error, remaining_tick, isr, fault>>

\* tlist.next # tlist.prev holds when another thread is in the same list.
HasPeer(x) == \E h \in ListHead : Contains(tlist[h], x) /\ Len(tlist[h]) > 1
CanYield(x) == stat[x] = "ready" /\ HasPeer(x)

MoveToTail(x) ==
    /\ tlist' = insert_ready(rt_list_remove(tlist, x), x)
    /\ UNCHANGED <<group, stat>>

rt_thread_yield(t) ==
    /\ Calls(t, "yield", NoThread) /\ CanYield(t)
    /\ MoveToTail(t)
    /\ Goto(t, At("schedule", NoThread, "user"))
    /\ UNCHANGED <<timers, sched, error, remaining_tick, isr, fault>>

call_rt_schedule(t) ==
    /\ Calls(t, "schedule", NoThread)
    /\ rt_schedule(tlist, group)
    /\ UNCHANGED <<links, timers, lock_nest, error, remaining_tick, pc, isr>>

\* Mutation: the counter does not stop at its limit.
EnterWithoutLimit(t) ==
    /\ Calls(t, "lock", NoThread)
    /\ lock_nest' = lock_nest + 1
    /\ UNCHANGED <<links, timers, current_thread, error, remaining_tick, pc, isr, fault>>

rt_enter_critical(t) ==
    /\ Calls(t, "lock", NoThread)
    /\ lock_nest' = IF lock_nest < LockMax THEN lock_nest + 1 ELSE lock_nest
    /\ UNCHANGED <<links, timers, current_thread, error, remaining_tick, pc, isr, fault>>

\* Mutation: unlocking does not reschedule.
ExitWithoutSchedule(t) ==
    /\ Calls(t, "unlock", NoThread)
    /\ lock_nest' = IF lock_nest <= 1 THEN 0 ELSE lock_nest - 1
    /\ UNCHANGED <<links, timers, current_thread, error, remaining_tick, pc, isr, fault>>

rt_exit_critical(t) ==
    /\ Calls(t, "unlock", NoThread)
    /\ lock_nest' = IF lock_nest <= 1 THEN 0 ELSE lock_nest - 1
    /\ Goto(t, IF lock_nest <= 1 THEN At("schedule", NoThread, "user") ELSE User)
    /\ UNCHANGED <<links, timers, current_thread, error, remaining_tick, isr, fault>>

-----------------------------------------------------------------------------
(* rt_thread_delete and rt_thread_detach, which differ in the last step.   *)

\* The test for RT_THREAD_INIT; a closed thread may be closed again.
CloseThread(t, x, kind) ==
    /\ Calls(t, kind, x)
    /\ Goto(t, At(IF stat[x] = "init" THEN "close_timer" ELSE "close_remove", x, kind))
    /\ UNCHANGED <<links, timers, sched, error, remaining_tick, isr, fault>>

rt_thread_delete(t, x) == CloseThread(t, x, "delete")
rt_thread_detach(t, x) == CloseThread(t, x, "detach")

\* Mutation: a thread that is ready stays linked.
CloseKeepsReady(t) ==
    /\ Running(t) /\ pc[t].at = "close_remove"
    /\ IF stat[pc[t].arg] = "ready" THEN UNCHANGED <<tlist, group>>
                                    ELSE rt_schedule_remove_thread(pc[t].arg)
    /\ Goto(t, At("close_timer", pc[t].arg, pc[t].then))
    /\ UNCHANGED <<stat, timers, sched, error, remaining_tick, isr, fault>>

CloseRemove(t) ==
    /\ Running(t) /\ pc[t].at = "close_remove"
    /\ rt_schedule_remove_thread(pc[t].arg)
    /\ Goto(t, At("close_timer", pc[t].arg, pc[t].then))
    /\ UNCHANGED <<stat, timers, sched, error, remaining_tick, isr, fault>>

\* rt_timer_detach leaves RT_TIMER_FLAG_ACTIVATED as it is.
CloseTimer(t) ==
    /\ Running(t) /\ pc[t].at = "close_timer"
    /\ timer_list' = Without(timer_list, pc[t].arg)
    /\ Goto(t, At("close_stat", pc[t].arg, pc[t].then))
    /\ UNCHANGED <<links, timeout, activated, sched, error, remaining_tick, isr, fault>>

CloseStat(t) ==
    /\ Running(t) /\ pc[t].at = "close_stat"
    /\ stat' = [stat EXCEPT ![pc[t].arg] =
                    IF NumberMask(pc[t].arg) = {} THEN "close_init" ELSE "close"]
    /\ Goto(t, At("close_list", pc[t].arg, pc[t].then))
    /\ UNCHANGED <<tlist, group, timers, sched, error, remaining_tick, isr, fault>>

\* A detached static thread leaves only the object container.  A deleted one
\* goes into rt_thread_defunct, whose head nothing initialises: it is all
\* zeroes and rt_list_insert_after writes through its null next.
CloseList(t) ==
    /\ Running(t) /\ pc[t].at = "close_list"
    /\ fault' = IF pc[t].then = "delete" THEN "null_list" ELSE fault
    /\ Goto(t, User)
    /\ UNCHANGED <<links, timers, sched, error, remaining_tick, isr>>

-----------------------------------------------------------------------------
(* The SysTick interrupt (main.c, clock.c, timer.c).                       *)

TickDec(n) == IF n = 0 THEN TickMax ELSE n - 1
SliceEnds == TickDec(remaining_tick[current_thread]) = 0

\* rt_tick_increase up to rt_timer_check, with the yield of the slice's end.
rt_tick_increase ==
    /\ current_thread # NoThread /\ isr = "none" /\ fault = "none"
    /\ isr' = "timer_check"
    /\ timeout' = [x \in Thread |-> IF Contains(timer_list, x) THEN timeout[x] - 1
                                                           ELSE timeout[x]]
    /\ remaining_tick' = [remaining_tick EXCEPT ![current_thread] =
                            IF SliceEnds THEN InitTick[current_thread]
                                         ELSE TickDec(@)]
    /\ IF SliceEnds /\ CanYield(current_thread)
       THEN MoveToTail(current_thread) /\ rt_schedule(tlist', group)
       ELSE UNCHANGED <<links, current_thread, fault>>
    /\ UNCHANGED <<timer_list, activated, lock_nest, error, pc>>

\* Mutation: timers fire one tick early.
ExpiresEarly == timer_list # <<>> /\ timeout[Head(timer_list)] <= 1

Expired == timer_list # <<>> /\ timeout[Head(timer_list)] <= 0

\* Mutation: the thread is not unlinked.
TimeoutKeepsLink ==
    LET x == Head(timer_list) IN
    /\ isr = "timer_check" /\ Expired /\ fault = "none"
    /\ timer_list' = Tail(timer_list)
    /\ activated' = activated \ {x}
    /\ error' = [error EXCEPT ![x] = "timeout"]
    /\ rt_schedule_insert_thread(tlist, x)
    /\ rt_schedule(tlist', group')
    /\ UNCHANGED <<timeout, lock_nest, remaining_tick, pc, isr>>

\* Mutation: no error code.
TimeoutForgetsError ==
    LET x == Head(timer_list) IN
    /\ isr = "timer_check" /\ Expired /\ fault = "none"
    /\ timer_list' = Tail(timer_list)
    /\ activated' = activated \ {x}
    /\ rt_schedule_insert_thread(rt_list_remove(tlist, x), x)
    /\ rt_schedule(tlist', group')
    /\ UNCHANGED <<error, timeout, lock_nest, remaining_tick, pc, isr>>

\* One turn of the loop of rt_timer_check: the first timer has expired and
\* its callback is rt_thread_timeout.
rt_thread_timeout ==
    LET x == Head(timer_list) IN
    /\ isr = "timer_check" /\ Expired /\ fault = "none"
    /\ timer_list' = Tail(timer_list)
    /\ activated' = activated \ {x}
    /\ error' = [error EXCEPT ![x] = "timeout"]
    /\ rt_schedule_insert_thread(rt_list_remove(tlist, x), x)
    /\ rt_schedule(tlist', group')
    /\ UNCHANGED <<timeout, lock_nest, remaining_tick, pc, isr>>

\* Mutation: the loop may end with an expired timer left.
CheckEndsEarly ==
    /\ isr = "timer_check" /\ fault = "none"
    /\ isr' = "none"
    /\ UNCHANGED <<links, timers, sched, error, remaining_tick, pc, fault>>

rt_timer_check_done ==
    /\ isr = "timer_check" /\ ~Expired /\ fault = "none"
    /\ isr' = "none"
    /\ UNCHANGED <<links, timers, sched, error, remaining_tick, pc, fault>>

-----------------------------------------------------------------------------
Boot == (\E x \in Thread : BootStartup(x)) \/ rt_system_scheduler_start

SysTick == rt_tick_increase \/ rt_thread_timeout \/ rt_timer_check_done

OnTarget(t, x) ==
    \/ rt_thread_resume(t, x)
    \/ rt_thread_startup(t, x)
    \/ rt_thread_suspend(t, x)
    \/ rt_thread_delete(t, x)
    \/ rt_thread_detach(t, x)

Call(t) ==
    \/ \E x \in Thread : OnTarget(t, x)
    \/ \E tick \in Delay : rt_thread_sleep(t, tick)
    \/ rt_thread_yield(t)
    \/ call_rt_schedule(t)
    \/ rt_enter_critical(t)
    \/ rt_exit_critical(t)

\* The rest of a call that has begun.
Continue(t) ==
    \/ Reschedule(t)
    \/ ResumeRemove(t)
    \/ ResumeInsert(t)
    \/ StartupResume(t)
    \/ SuspendCrit(t)
    \/ CloseRemove(t)
    \/ CloseTimer(t)
    \/ CloseStat(t)
    \/ CloseList(t)

Next == Boot \/ SysTick \/ \E t \in Thread : Call(t) \/ Continue(t)

Spec == Init /\ [][Next]_vars

\* main runs until it starts the scheduler.  SysTick is a hardware timer that
\* main starts first, and every critical section of the kernel ends: the
\* interrupt keeps coming and its handler goes on.  Between two interrupts the
\* CPU executes instructions: a call that is under way goes on (it is disabled
\* while the handler runs, hence SF).  Nothing is assumed of the threads' own code.
FairSpec ==
    /\ Spec
    /\ WF_vars(Boot) /\ WF_vars(SysTick)
    /\ SF_vars(\E t \in Thread : Continue(t))

-----------------------------------------------------------------------------
(* Properties.                                                             *)

\* Each variable stays in its type; the lists hold threads.
TypeOK ==
    /\ tlist \in [ListHead -> Seq(Thread)]
    /\ group \subseteq Prio
    /\ stat \in [Thread -> Stat]
    /\ error \in [Thread -> {"ok", "timeout", "error"}]
    /\ remaining_tick \in [Thread -> 0 .. TickMax]
    /\ current_thread \in Thread \cup {NoThread}
    /\ lock_nest \in 0 .. LockMax
    /\ timer_list \in Seq(Thread)
    /\ timeout \in [Thread -> Int]
    /\ activated \subseteq Thread
    /\ pc \in [Thread -> PC]
    /\ isr \in {"none", "timer_check", "masked"}
    /\ fault \in {"none", "empty_level", "double_link", "null_list", "no_waiter"}

\* A level with a ready thread always has its bit: rt_schedule, which looks
\* only at the bitmap, cannot overlook it.
ReadyLevelsHaveBits == \A p \in Prio : tlist[p] # <<>> => p \in group

\* A bit without a thread exists only between the two critical sections of an
\* rt_thread_resume, whose second one links a thread of that priority again.
StaleBitsAreTransient ==
    \A p \in group : tlist[p] = <<>> =>
        \E t \in Thread : pc[t].at = "resume_insert" /\ Priority[pc[t].arg] = p

\* Without IPC objects a thread is linked only in the level of its priority,
\* so clearing one bit is enough when a thread leaves.
OwnLevel == \A h \in ListHead : \A x \in Thread : Contains(tlist[h], x) => h = Priority[x]

\* An intrusive node is linked once, in one list, and so is a timer.
LinkedOnce ==
    fault = "none" =>
        \A g, h \in ListHead : \A i \in DOMAIN tlist[g], j \in DOMAIN tlist[h] :
            tlist[g][i] = tlist[h][j] => g = h /\ i = j

\* No call sequence the environment allows makes the kernel link a node twice,
\* run a thread of an empty level, or write through a null list head.
NoFault == fault = "none"

\* When the scheduler is unlocked and the running thread is in its own code,
\* it is the first thread of the highest non-empty level: every call and every
\* tick that readies, blocks or rotates a thread is followed by a rt_schedule.
InUserCode ==
    /\ current_thread # NoThread /\ isr = "none" /\ fault = "none"
    /\ pc[current_thread] = User
HighestRuns ==
    InUserCode /\ lock_nest = 0 => current_thread = to_thread(tlist, group)

\* While rt_scheduler_lock_nest is above zero nothing takes the CPU from the
\* thread that holds it: no tick, no timeout, no call.
LockKeepsCpu == [][lock_nest > 0 => current_thread' = current_thread]_vars

\* Whether x comes before y in a list.
Precedes(s, x, y) == \E i, j \in DOMAIN s : i < j /\ s[i] = x /\ s[j] = y

\* Outside the operations that are half done, a thread is READY exactly when
\* it is in the ready list of its own priority.
InTransit(x) == \E t \in Thread : pc[t].arg = x
ReadyIffListed ==
    fault = "none" =>
        \A x \in Thread : ~InTransit(x) =>
            (stat[x] = "ready" <=> Contains(tlist[Priority[x]], x))

\* A thread that sleeps has its timer pending: nothing forgets to wake it.
SleepersHaveTimers ==
    \A x \in Thread : stat[x] = "suspend" => Contains(timer_list, x) /\ x \in activated

\* Timers are kept in the order of their expiry, which lets rt_timer_check
\* stop at the first one that has not expired.
TimersSorted ==
    \A i, j \in DOMAIN timer_list :
        i < j => timeout[timer_list[i]] <= timeout[timer_list[j]]

\* No expired timer outlives the tick in which it expires.
NoneOverdue == isr = "none" => \A x \in Thread : Contains(timer_list, x) => timeout[x] >= 0

\* The scheduler with its bitmap, thread states, tick and timers, used by threads
\* that act for themselves, implements the abstract one: at every call the CPU
\* belongs to the caller, levels are first in, first out, the lock holds.
Scheduler ==
    INSTANCE FixedPriority WITH
        queue <- [p \in Prio |-> tlist[p]],
        running <- current_thread,
        locked <- lock_nest > 0
SchedulesByPriority == Scheduler!FixedSpec

\* The sorted list of thread timers and the scan of its head keep the promise
\* of one countdown per thread: the handler of the tick makes a thread ready with
\* -RT_ETIMEOUT when its time is over, not earlier and not later, the longest due
\* first, and takes no timer out without that; however timers are started,
\* restarted and stopped.
Timers ==
    INSTANCE Countdown WITH
        Timer <- Thread, NoTimer <- NoThread,
        left <- [x \in ToSet(timer_list) |-> timeout[x]], begun <- <<>>,
        time <- [x \in Thread |-> Delay], periodic <- {},
        checking <- isr = "timer_check", taken <- NoThread,
        fired <- {x \in Thread : stat[x] = "ready" /\ error[x] = "timeout"}
TimersCountDown == Timers!CountdownSpec

\* A sleeping thread becomes ready again, unless the scheduler stays locked: a
\* thread that sleeps under the lock runs on and may restart its timer for ever.
SleepersWake ==
    \A x \in Thread :
        []<>(lock_nest = 0) => (stat[x] = "suspend" ~> stat[x] = "ready")

\* A ready thread gets the CPU, whatever its peers do, if again and again the
\* scheduler is unlocked and the CPU is with a thread that is not more urgent.
LevelRuns(x) ==
    lock_nest = 0 /\ current_thread \in {y \in Thread : Priority[y] >= Priority[x]}
PeersTakeTurns ==
    \A x \in Thread \ {idle} :
        []<>LevelRuns(x) => (stat[x] = "ready" ~> current_thread = x)

\* rt_thread_resume puts a thread into the ready list only while it is
\* suspended, as its comment says.
ResumesOnlySuspended ==
    [][ \A t \in Thread : ResumeInsert(t) => stat[pc[t].arg] = "suspend" ]_vars

\* A thread that was detached is in no list of threads, as the comment on
\* rt_thread_detach says, and does not run.
ClosedStaysOut ==
    fault = "none" =>
        \A x \in Thread : stat[x] \in {"close", "close_init"} => ~IsLinked(tlist, x)

=============================================================================
