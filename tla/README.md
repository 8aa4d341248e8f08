# A TLA+ model of MY_sample_RTOS

The repository is a small RTOS kernel in the shape of RT-Thread for one Cortex-M3 core: fixed
priorities, round robin within a priority, thread timers, a scheduler lock and one kind of IPC object,
the semaphore. It is written in C (`src/rtt_source`, `src/include`), with a port in assembly
(`src/rtt_ports`) and a demo application (`src/User/main.c`). It has no tests. The C files are
encoded in GBK; their comments, quoted below in translation, are the only statements of what the
code should do.

This directory holds TLA+ modules of the kernel, the TLC configurations that check them on small
instances, and proofs of their central invariants for all values of the constants.

## 1. Inventory

| Part | Source | State | Operations |
|---|---|---|---|
| scheduler | `rtt_source/scheduler.c` | `rt_thread_priority_table` (one ready list per priority), `rt_thread_ready_priority_group` (a bit per priority), `rt_current_thread`, `rt_scheduler_lock_nest`, `rt_thread_defunct` | init, start, insert, remove, `rt_schedule`, enter and exit critical |
| threads | `rtt_source/thread.c` | `stat`, `error`, `remaining_tick`, `tlist`, `thread_timer` in `struct rt_thread` | init, startup, resume, suspend, sleep/delay, yield, timeout, delete, detach, getinfo |
| tick | `rtt_source/clock.c` | `rt_tick` | `rt_tick_increase`, `rt_tick_get` |
| timers | `rtt_source/timer.c` | `rt_timer_list` sorted by expiry, `timeout_tick` and flags of each timer | init, start, stop, control, detach, check |
| semaphores | `rtt_source/ipc.c` | `value`, suspend list | init, take, trytake, release, detach, control(RESET); create and delete only with `RT_USING_HEAP`, which is off |
| context switch | `rtt_ports/context_rvde.s`, `cpuport.c` | switch flag, from and to thread, PendSV, PRIMASK, the stacks | switch_to, switch, PendSV handler, interrupt disable and enable, stack init |
| application | `User/main.c` | four demo threads, `sharecounter` | boot, SysTick handler, the threads' loops |
| idle thread | `rtt_source/idle.c` | a counter | an endless loop |
| lists | `include/rtservice.h` | intrusive doubly linked rings | init, insert before and after, remove, isempty, len |
| bit search, strings | `rtt_source/kservice.c` | none | `__rt_ffs`, `rt_strncpy` |
| object container | `rtt_source/object.c` | one list of objects per class | init, detach, lookup |
| interrupt nesting | `rtt_source/irq.c` | `rt_interrupt_nest` | enter, leave, PRIMASK save and restore |
| vendored code | `rt-thread_reference/`, `rt-thread-master/` | | copies of upstream RT-Thread, not built |
| build output | `Listings/`, `Objects/`, `MYRTT.*` | | generated |

**How the parts interact.** Everything is direct calls on shared globals. The SysTick interrupt
calls `rt_tick_increase`, which may rotate the ready list of the running thread and then scans the
timers; the time-out function of every thread timer, `rt_thread_timeout`, puts its thread into the
ready list and calls `rt_schedule` inside the interrupt. `rt_schedule` chooses a thread by the bitmap
and the first element of its list, writes `rt_current_thread` and pends PendSV; the switch itself
happens when PendSV is taken. A semaphore moves the same list node (`thread->tlist`) between a
ready list and its own suspend list, through `rt_thread_suspend` and `rt_thread_resume`.

**What is hard.** Mutual exclusion is by disabling interrupts, in pieces: many operations test a
state with interrupts on and act on it afterwards, or are two or three critical sections in a row
(resume, detach, delete, `rt_sem_detach`). In each gap the tick may come, wake a thread and switch to
it, and the other thread may call anything. One node serves two kinds of list, so a wrong order
corrupts memory rather than returning an error. Time-outs race with releases. Waking and switching
are separate steps, so a thread may be readied without running, and the switch request itself is
deferred and may be replaced before it is served. `PROJECT.json` lists the places under `hazards`.

**What makes each part correct.** Scheduler: the bitmap and the lists agree; a thread is linked
once; the running thread is the first of the highest level; equal threads take turns; the lock holds.
Threads: state and list agree; whoever sleeps wakes. Timers: sorted, none overdue. Semaphores: no token
lost or made up, waiters in order, time limits end, `RT_EOK` means a token. Context switch: every
thread continues in its own context; the thread chosen last runs. Lists: the pointers form rings, and
`prev` leads back where `next` led. Container: it holds exactly the objects that were not detached.
Application: no increment of the shared counter is lost, a closed thread stays out.

## 2. Modules

| Module | Models | Notes |
|---|---|---|
| `RtKernel` | scheduler, threads, tick, thread timers, boot, idle | the core; the calls are those its own operations and the application make |
| `RtSemaphore` | `ipc.c` | extends `RtKernel`: the suspend lists are further lists of `tlist` |
| `TimerList` | `timer.c` for an application | stands alone: absolute ticks that wrap, callers that do not mask interrupts, periodic timers, time-out functions |
| `Demo` | `User/main.c`, `object.c` | extends `RtKernel`: the threads as programs, and the object container |
| `ContextSwitch` | the port | stands alone: the choice of the next thread is arbitrary |
| `KernelList` | `rtservice.h` | the rings with their pointers; used by `TimerList` and `Demo` |
| `BitSearch` | `__rt_ffs` | used by `RtKernel` |
| `FixedPriority` | what the scheduler promises | abstract; implemented by `RtKernel` |
| `Countdown` | what timers promise | abstract; implemented by `RtKernel` and by `TimerList` |
| `MCKernel`, `MCSemaphore`, `MCTimers`, `MCDemo`, `MCContextSwitch` | | the instances for TLC |
| `ContextSwitch_proofs`, `RtKernel_proofs`, `RtTimers_proofs`, `RtScheduler_proofs`, `RtSemaphore_proofs`, `RtTokens_proofs`, `TimerList_proofs`, `Demo_proofs` | | the proofs |

### RtKernel: state and steps

*State.* `tlist` maps every list head to the sequence of threads linked in it (ready levels, and
the lists of IPC objects for `RtSemaphore`). `group` is the bitmap as a set. `stat`, `error`,
`remaining_tick`, `current_thread` and `lock_nest` are the C variables. `timer_list`, `timeout` and
`activated` are the timer list, the expiry of each pending timer and the `ACTIVATED` flag. `number_mask` of
a thread follows from its state (`NumberMask`): `rt_thread_startup` computes it, so it is still 0 in a thread that
was closed without having been started (`close_init`), and unlinking such a thread clears no bit. This module
has no absolute `rt_tick`: `timeout` is the distance to it, decremented by each tick, so the
comparison `< RT_TICK_MAX/2` becomes a comparison with zero. `TimerList` has the absolute ticks, and
both are shown to implement `Countdown`.

*Steps.* A step is a stretch of code in which no interrupt can come: a critical section, or a
single shared access outside one. A call with several of them leaves its place in `pc[t]`; the record
says where the thread is, which thread or semaphore it works on, and what follows. So
`rt_thread_resume` is the test (`rt_thread_resume`), the unlinking (`ResumeRemove`) and the insertion
(`ResumeInsert`), and between them anything may happen. Calls that run with interrupts disabled
by their caller are one step (`ResumeNow`, `rt_thread_sleep` up to its `rt_schedule`). Threads only
step while they are `current_thread` and the handler is not active (`isr`).

*rt_schedule.* The level is found by `__rt_ffs` of `BitSearch`, byte by byte as in the C code. In
`RtKernel` the switch is part of the step that calls `rt_schedule`: with interrupts
on again, PendSV is taken before the next instruction of the thread, or, from SysTick, when the
handler returns. `ContextSwitch` models what this leaves out and its properties `RunsCurrent` and
`RequestConsistent` justify it: however requests merge, a thread that executes with interrupts on is
`rt_current_thread`.

*Undefined behaviour.* Linking a node that is linked, taking the first thread of an empty list and
writing through the uninitialised `rt_thread_defunct` destroy memory. What the model does instead
is to set `fault` and stop; invariants that cannot survive this are stated for `fault = "none"`.

*What callers do.* `Api` says which calls each thread makes on which targets. It is a constant, so one
module serves disciplined applications and undisciplined ones. Two
restrictions are guards of the model and not of the code: only a thread in the initial state is
started, and (in `RtSemaphore`) clients release only while fewer than `ReleaseMax` tokens are out.

### RtSemaphore

`rt_sem_take` is the fast path (`TakeAvailable`), the refusal (`TakeRefused`), or blocking: one critical
section (`TakeBlock`), the `rt_schedule` (`TakeSchedule`), and, when the thread runs again, the reading
of `thread->error` (`TakeReturn`). The code reads it twice with interrupts on, to test it and to return it; a
time-out in between can only exchange one error for another, and `result` does not tell errors apart. `rt_sem_release` readies the first waiter and reschedules or
increments the value. `rt_sem_detach` loops: a test with interrupts on, a body with interrupts off.
`rt_sem_control(RESET)` runs its loop with interrupts off: `isr = "masked"` keeps the tick and every
other thread out while `ResetOne` readies the waiters one by one and until `ResetValueTo` writes the
new value. A waiter that could not be readied would keep the loop, and the machine, for ever.
The history variable `owed` counts tokens: initial value plus releases minus takes that returned
`RT_EOK`; a reset starts the account anew.

### TimerList and KernelList

`ring` is the heap of the `next` and `prev` pointers of all timers and of the head of `rt_timer_list`;
`KernelList` translates the assignments of `rtservice.h`, so what happens to a node that is linked
already is what the C code does. `rt_tick` and `timeout_tick` count modulo `TickRange` (2^32 in the code)
and are compared as in the code, by their difference. `init_tick` and `flag` are the fields of the same
names.

`rt_timer_start` of a caller that does not mask interrupts is three steps: the removal, the computation of
`timeout_tick` (line 161, with interrupts on), the insertion. `rt_timer_stop` is the test, the removal, and,
with interrupts on again, the reading of the flag byte (`StopClear`) and its writing back (`SetFlag`), as in
`rt_timer_control`. The tick handler
is `rt_timer_check` (take the first expired timer out), `timeout_func` (the callback, which may start or stop
timers), `RestartPeriodic` or `StopOneShot`, and `CheckDone`. Threads are only callers here: any of
them may take the next step while the handler is not active.

A `timeout_tick` that nothing reads before the next start (that of a timer in no list that no thread is about to
insert) is forgotten (set to 0), which keeps the state space finite and small.

### Demo

`line[t]` is the statement a thread comes to next; its calls are those of `RtKernel`, so the tick comes
between any two steps. `sharecounter++`, and the copy to a local variable, its increment and the assignment
back, are a read and a later write; `written` counts the writes. Boot starts the threads in the order
of `main`. The object container is the ring of `thread->list`: `rt_object_init` links a thread at boot, the
last step of `rt_thread_detach` unlinks it.

### ContextSwitch

A context is abstracted to whose it is and how far that thread has run. `rt_hw_context_switch`
merges requests as the assembly does (`_reswitch`); `PendSV_Handler` saves into `from_thread` and
restores from `to_thread`. Threads may mask interrupts around `rt_schedule`, the tick handler may call
it, and PendSV and SysTick have the same priority, so neither preempts the other.

### The abstract specifications

`FixedPriority` knows a queue for each priority, who has the CPU, and whether the scheduler is locked. A
thread acts only while the CPU is its by right (`Entitled`): so a step of the kernel that readies or blocks
somebody has to be followed by a dispatch before the caller's next call. The refinement
(`SchedulesByPriority`) maps the queues to the levels of `tlist`, and the bitmap, thread states, slices,
timers and the place of each call disappear.

`Countdown` gives each pending timer the number of ticks that are left (`left`) and does the same for a timer whose
start has read the tick and has not inserted it yet (`begun`). A start gives a timer its own time (`time`: the
`init_tick` of a timer, a member of `Delay` for a thread), counted from the tick it has read. A tick
counts all of them down. What its handler does is observable: it may take a timer out only when it is due and none
is due for longer (`Expire`; `taken` is then the timer), has to call the function of the one it took out before it
does anything else (`Call`; `fired` gains it), does not return while one is due, and starts again only a periodic
timer that has fired (`Return`). Only callers outside the handler, and time-out functions, start and stop timers. So a handler that
fires early, out of order or not at all, or drops a timer, makes a step that `Countdown` does not have.
`RtKernel` implements it (`TimersCountDown`) with `left` as the `timeout` of the threads in `timer_list` and
`fired` as the threads that are ready with `-RT_ETIMEOUT`: unlinking and `rt_thread_timeout` are one step there (`Fire`).
`TimerList` implements it (`CountsDown`) with the distance of `timeout_tick` from `rt_tick` modulo 2^w as `left`, the timer between
its removal and its `timeout_func` as `taken`, and the one whose function has just returned as `fired`.

## 3. What the runs check

Three threads and idle are the smallest instance in which a thread has a peer and somebody above or
below: a thread `hi`, two peers `p1` and `p2`, and `idle`. Two or three levels of priority, delays of
0 to 2 ticks and slices of 1 or 2 ticks make every order of expiry and rotation possible: two timers in
either order or equal, a timer that expires before, with or after a slice.

| Run | States | Question and properties |
|---|---|---|
| `context_switch` | 2,947 | Every interleaving of threads, masking, SysTick and PendSV: `TypeOK`, `ContextsKept`, `RunsCurrent`, `RequestConsistent`; and `RequestsServed`. |
| `kernel_sleepers` | 59,223 | Threads sleep, yield, lock and unlock, each for itself, also asleep under the lock, which the application does (`main.c:117-123`): `TypeOK`, `NoFault`, `ReadyIffListed`, `SleepersHaveTimers`, `TimersSorted`, `NoneOverdue`, `LockKeepsCpu`; the refinements `SchedulesByPriority` and `TimersCountDown`; and, with fair ticks, `SleepersWake` and `PeersTakeTurns`. |
| `kernel_free` | 72,035 | Two threads and idle call everything on each other. The kernel may fault; up to then the bitmap covers the ready threads (`ReadyLevelsHaveBits`), its stale bits belong to a resume in progress (`StaleBitsAreTransient`) and lists stay sound (`LinkedOnce`). The priorities are 7, 8 and 9, so the search crosses from one byte of the bitmap to the next. A behaviour ends with a fault, so deadlock is not checked. |
| `sem_untimed` | 99,963 | A priority semaphore, takes without limit or without waiting, releases, resets and detaches: `SemTypeOK`, `NoFault`, `TokensConserved`, `WaitersMeanZero`, `WaitersWait`, `PrioOrder`, `HighestRuns`, `NoOvertaking`. |
| `sem_timed` | 241,259 | A FIFO semaphore, takes with a limit of one tick, releases, resets, fair ticks: `NoFalseTake`, `WaitersWait`, `NoOvertaking`, `TimedTakesEnd`. Only `p1` also sleeps. |
| `timers` | 275,808 | Two threads and three timers: one with two times, a periodic one whose callback stops or restarts it, one that changes its mode and whose callback stops another thread's timer: `TimerTypeOK`, `RingSound`, `PendingCanBeStopped`, `CheckEnds`, and the refinement `CountsDown`. `RingSound` says that the pointers form rings and that every pending timer is in the ring of the head. |
| `demo` | 1,571,804 | The application: `ReadyIffListed`, `ClosedStaysOut`, `NoLostUpdate`, `ContainerMatches`. |

Five more runs show where the code does not do what its own comments say:

| Run | Property | What TLC finds |
|---|---|---|
| `kernel_resume_race` | `ResumesOnlySuspended` (`thread.c:78`) | the thread wakes by its own timer between the test and the insertion of a resume and is inserted although it is ready |
| `kernel_detach_race` | `ClosedStaysOut` (`thread.c:234-235`) | the timer fires between the unlinking and the detaching of the timer, and a closed thread is in the ready list |
| `sem_timed_detach` | `NoPhantomWaiter` (`ipc.c:110`) | the last waiter times out between the loop's test and its body: the list head is taken for a thread |
| `sem_lost_token` | `GrantedTakesSucceed` (`ipc.c:371-372`) | a waiter that a release has readied still has its timer running; it expires before the waiter runs, and the token is lost |
| `demo_turns` | `PeersGetTurns` (`clock.c:17`) | `flag3` suspends itself and runs on; `rt_thread_yield` at the end of its slice refuses a thread that is not ready, so `flag4`, ready and of the same priority, gets no turn |

`sem_lost_token` explains why `TokensConserved` is a property of `sem_untimed` and not of `sem_timed`,
which has the weaker `NoFalseTake`: tokens get lost, none is made up. In the semaphore
runs nobody uses the scheduler lock: a take under the lock does not switch, does not wait and returns `RT_EOK` without
a token, so `NoFalseTake` fails with it (hazard at `ipc.c:342`). `kernel_detach_race` needs a sleeping thread: `flag4` of the application, which
never sleeps, is detached safely, and the same property holds in `demo`.

Each property of a passing run has a mutant in `PROJECT.json`: an operator, marked "Mutation" in the
module, that changes one definition the way a plausible mistake in that code would. TLC finds the property
violated with it.

### Bounds

* `TickMax` 3 (2 in the demo): `remaining_tick` has 32 bits; slices are at most 2, so no run reaches the
  underflow of a slice of 0, which is modelled (`TickDec`).
* `LockMax` 2 (255 in the code): a saturated counter occurs; 1 for semaphores, which do not lock.
* `SemValueMax` 2 (65535), `ReleaseMax` 2: two tokens for three threads, so that threads both wait and are
  released; the wrap of the value is modelled and not reached.
* `MaxStep` 2: a thread's context has three versions, enough to tell a stale one from the current one.
* `TickRange` 12 with times of 1 to 3: ticks wrap many times. The comparison leaves room for
  `RT_TICK_MAX/2 = 5`, which `TimerAssumption` uses to the full: 3 ticks and 1 of delay (`Patience`) is the
  largest sum that it allows. `Patience` bounds how many ticks may pass between lines 161 and 164 of one
  start; the code has no bound, and with unbounded delay the comparison is wrong.
* `CounterRange` 3, `DetachAt` 2: `sharecounter` wraps and reaches the value at which `flag4` is detached again and
  again. The delays 100 and 10 become 2 and 1, the slices 10, 10, 5 and 2 become 2, 2, 1 and 1.

### Fairness

Safety needs none. `FairSpec` of `RtKernel` assumes that boot proceeds (WF), that SysTick keeps coming and
its handler goes on (WF: it is a hardware timer started by `main`), and that a call that is under way goes
on (SF: it is disabled while the handler runs, and enabled again each time it returns). Nothing
is assumed of the threads' own code, which may loop for ever between calls. `SemFairSpec` has SF for SysTick,
which a reset disables while it masks interrupts, and WF for the steps of the reset. `TimerFairSpec` only says
that the handler, which nothing preempts, goes on. In `DemoFairSpec` the program of the threads is known, so
whichever thread has the CPU executes (SF, as for calls). `ContextSwitch` assumes besides that handlers return,
that a thread that masks interrupts unmasks them again, and that the hardware takes a pending exception.

`SleepersWake` and `PeersTakeTurns` are stated for behaviours in which the scheduler is unlocked again and
again: a thread that never unlocks starves the others, and nothing in the kernel prevents it.

## 4. What is proved

The proofs hold for any number of threads, priorities, semaphores and timers, any slices and delays. The constants
satisfy `ConstantsAssumption`, `SwitchAssumption`, `SemAssumption`, `TimerAssumption` and `DemoAssumption`, which TLC
evaluates. Where a theorem does not hold for every pattern of calls, its assumption on `Api` is named:

* `SelfCalls`: threads sleep, yield, reschedule, lock and unlock, each for itself; idle does not sleep.
* `ClientCalls`: threads use semaphores (take, release, reset, detach), sleep, yield and reschedule; nobody uses the
  scheduler lock or works on another thread; idle does not block; `ReleaseMax` does not exceed the largest value.
* `NoDetach`: nobody detaches a semaphore. `NoTimeLimits`: takes wait for ever or not at all.
  `DetachedFromAbove`: a thread that detaches semaphores is more urgent than every other thread.
* `StartsAlone` (`TimerList`): nobody else starts a timer between the critical sections of a `rt_timer_start`: two
  insertions of one node destroy the ring. `OwnTimers`: one thread uses a timer, a timer that a time-out function
  starts is not started, stopped or given a mode by a thread in sections, and one that starts itself is periodic.
  `MCTimers` asserts both of its instance.

The runs `kernel_resume_race`, `sem_timed_detach` and `sem_lost_token` show what goes wrong without `SelfCalls`,
`NoDetach` (with time limits) and `NoTimeLimits`.

| Theorem | Property | Assumes | Module |
|---|---|---|---|
| `SwitchTyped`, `ContextsNeverMixed`, `RequestsMerge`, `CurrentThreadRuns` | `TypeOK`, `ContextsKept`, `RequestConsistent`, `RunsCurrent` | | `ContextSwitch_proofs` |
| `TypeCorrect` | `TypeOK` | | `RtKernel_proofs` |
| `NoReadyLevelIsOverlooked`, `OnlyResumeLeavesStaleBits`, `ThreadsAreLinkedOnce` | `ReadyLevelsHaveBits`, `StaleBitsAreTransient`, `LinkedOnce` | | `RtKernel_proofs` |
| `FirstBitIsFound` | `__rt_ffs` finds the least bit of every word | | `RtKernel_proofs` |
| `TimerListIsSorted`, `NoTimerIsOverdue`, `LockHolds` | `TimersSorted`, `NoneOverdue`, `LockKeepsCpu` | | `RtTimers_proofs` |
| `TimersImplementCountdown` | `TimersCountDown` (refinement) | | `RtTimers_proofs` |
| `OwnCallsDoNoHarm`, `StatesMatchLists`, `NobodyIsForgotten`, `MostUrgentRuns` | `NoFault`, `ReadyIffListed`, `SleepersHaveTimers`, `HighestRuns` | `SelfCalls` | `RtScheduler_proofs` |
| `SchedulerImplementsFixedPriority` | `SchedulesByPriority` (refinement) | `SelfCalls` | `RtScheduler_proofs` |
| `SemaphoreTyped`, `NobodyWaitsForAvailable`, `MostUrgentIsFirst` | `SemTypeOK`, `WaitersMeanZero`, `PrioOrder` | | `RtSemaphore_proofs` |
| `NoTokenTwice`, `OnlyTakersWait` | `NoFalseTake`, `WaitersWait` | `ClientCalls` | `RtTokens_proofs` |
| `NobodyOvertakes` | `NoOvertaking` | `ClientCalls` | `RtTokens_proofs` |
| `ClientsDoNoHarm`, `MostUrgentClientRuns` | `NoFault`, `HighestRuns` | `ClientCalls`, `NoDetach` | `RtTokens_proofs` |
| `NoTokenIsLost` | `TokensConserved` | `ClientCalls`, `NoTimeLimits` | `RtTokens_proofs` |
| `DetachDoesNoHarm`, `MostUrgentRunsPastDetach` | `NoFault`, `HighestRuns` | `ClientCalls`, `NoTimeLimits`, `DetachedFromAbove` | `RtTokens_proofs` |
| `TimersTyped`, `RingsStaySound` | `TimerTypeOK`, `RingSound` | `StartsAlone` | `TimerList_proofs` |
| `PendingIsStoppable` | `PendingCanBeStopped` | `OwnTimers` | `TimerList_proofs` |
| `TimersKeepTheirPromise` | `CountsDown` (refinement) | `StartsAlone` | `TimerList_proofs` |
| `DemoIsAnApplication` | every step of the demo is one of `RtKernel` | | `Demo_proofs` |
| `NoIncrementIsLost`, `DetachedStaysOut`, `ContainerIsRight` | `NoLostUpdate`, `ClosedStaysOut`, `ContainerMatches` | | `Demo_proofs` |
| `DemoNeverFaults`, `DemoStatesMatchLists` | `NoFault`, `ReadyIffListed` | | `Demo_proofs` |

The arguments:

* **ContextSwitch.** The invariant is `TypeOK /\ ContextsKept /\ RequestConsistent` plus the shape of the boot
  state. `RequestConsistent` is the heart: `from_thread = cpu` while a request is pending is what makes
  PendSV save the right registers into the right place.
* **Lists and bitmap.** `ListInv` is `ReadyLevelsHaveBits`, `OwnLevel`, `StaleBitsAreTransient` and `LinkedOnce`,
  inductive only as a whole: clearing the bit of one level when a thread leaves is right only if the
  thread was in its own level and linked once, and the insertion ends the window that `StaleBitsAreTransient` allows.
  A thread that was never started is in no list (`StartedInv`), so it does not matter that its `number_mask` is 0.
* **Timers.** `TimerInv` adds to the order that a timer is in the list once: stopping removes one occurrence,
  and a restart must not leave a second, older one behind. The refinement of `Countdown` follows from it
  action by action: the first of a sorted list is the longest due, it is taken out only when due and is then in `fired`,
  and the scan stops where all others are later. Every other step leaves the handler alone.
* **Scheduler.** `SelfInv` says that the states and the lists agree, that whoever is suspended has its timer
  pending, that idle is always ready, and that a thread in its own code is `Entitled`, also inside the tick
  handler, where each time-out reschedules. Together with `ListInv` (the bitmap is exact because nobody resumes)
  and `TimerInv`, the choice through the bitmap is the first of the most urgent level, and each step maps to
  one of `FixedPriority` or to a stutter.
* **Semaphores.** `SemTypeOK`, `WaitersMeanZero` and `PrioOrder` are inductive with the typing alone. Tokens need `TokenInv`:
  a thread is linked once, in its level or in a suspend list; who is in a suspend list is suspended inside its
  take; the running thread is ready except just before its `rt_schedule`; and `owed` is at least the value plus
  the waiters that were granted a token and have not returned (`Ahead`). A time-out can only lower the right side.
  `ConservedInv` makes `Ahead` an equality: without time limits no timer of a thread inside a take
  is pending, so nobody can turn a granted token into a time-out. `NobodyOvertakes` uses `TokenInv` for one fact: a
  thread that joins a suspend list is not in it already (under the scheduler lock it could be). Without detach,
  each call that readies or blocks is on its way to a `rt_schedule` until it has made it (`Right`), hence `MostUrgentClientRuns`.
  With detach (`LoopSound`): the loop of `rt_ipc_list_resume_all` runs in a thread that is ready and more urgent than
  all others, so every choice of the scheduler is that thread; and with no timer on a waiter, the handler takes none
  away between the test of the loop and its body. `sem_timed_detach` shows what happens with time limits.

* **TimerList.** The rings (`ListSound`): the list is walked by a recursive function over the pointers. That the
  walk ends at the head, visits only linked nodes and follows `next` is proved from `Rings` by the pigeonhole
  principle (the nodes before the first repetition are distinct, and there are finitely many), so the search of
  `rt_timer_start` always finds a place. The invariant needs `StartsApart`: a timer that a thread has unlinked in
  order to start it stays unlinked until that thread inserts it. `StopSound`, for `PendingCanBeStopped`, says besides
  what each interrupted call has already done and not yet done to its timer (`TakenOut`, `SavedFlag`), and that the
  handler's timer is out of the list unless its callback put it back (`HandlerTimer`).
  `Timely`, for `CountsDown`, has three parts. `Order`: there are ranks that rise from the head along `next`, and the
  ticks do not fall along them; so the first timer is the longest due. `Window`: every pending timer is at most
  `Patience` behind and `MaxTime` ahead of `rt_tick`, and not further behind than a tick may still go when the
  handler is not active; in that window the comparison of two ticks modulo 2^w is the comparison of their distances
  (`LaterIsLater`, `ExpiredIsDue`), across the wrap too. `StartWindow`: the same of a timer that is about to be inserted.
  `RingSound` is `Rings` and, from `Order`, that every linked timer is in the ring of the head: ranks fall along
  `prev`, so whoever is linked leads back to the head.
  Each step then is a `Tick`, `Expire`, `Call`, `Return` or `CheckDone` of the handler, a `Start`, `Begin`, `Insert`, `Stop` or
  `Control` of a caller, or changes nothing of `Countdown`. A time-out function is called for the timer that was taken out
  because the handler's place names it, and for no other.
* **Demo.** `DemoIsAnApplication` shows that each statement of `main.c` is a call `RtKernel` allows, so what is proved of
  the kernel for every `Api` (`ListInv`, `TimerInv`) holds of the demo. `CounterInv`: a thread between its read and its
  write of `sharecounter` holds the scheduler lock, so it keeps the CPU and what it read stays true. `DemoSafe`
  replaces `SelfInv`, because here threads do work on each other: `flag1` resumes `flag3`, `flag2` detaches `flag4`,
  `flag3` suspends itself. It says where each of these calls can be and what it relies on (`CallPlaces`: `flag3` stays
  suspended while it is being resumed), that states and lists agree but for `flag4` while it is being detached
  (`StatesAgree`), and that idle is always linked, so `rt_schedule` always finds a thread. The container
  (`ContainerInv`): ranks lead down to the head of the ring, and who is linked was initialised and not detached.

The modules rest on lemmas about sequences (what `RemoveAt`, `InsertAt`, `Append` and `Tail` keep), on
cardinalities of sets that gain or lose an element, on the existence of the elements chosen by `CHOOSE`, on
pointers (what linking and unlinking a node does to the rings), on differences modulo 2^w, and on one lemma per
kind of list update.

Only model-checked: all liveness (`SleepersWake`, `PeersTakeTurns`, `TimedTakesEnd`, `CheckEnds`,
`RequestsServed`), because the prover has no rule for fairness. Every invariant and every refinement that a passing
run checks is also a theorem; `RtKernel`'s `ClosedStaysOut` is one of the demo, since it fails for other
applications (`kernel_detach_race`).

## 5. What is not modelled

* The two vendored trees, `rt-thread_reference/` and `rt-thread-master/`, which hold nearly all lines of the
  repository: kernels, components and board packages of upstream RT-Thread. `MYRTT.uvprojx` builds none
  of it and no file of the sample includes it, so it is not part of this program's behaviour.
* `rt_interrupt_nest`, which is written and never read, and `rt_Thread_critical_in/out`, which have no caller.
* `rt_current_priority`, names (`rt_strncpy`), entry points, stack frames, `rt_thread_getinfo`: no control depends on them.
* The container's missing entry for timers (`object.c:129-135` is commented out): `rt_object_init` of every
  thread timer writes through a null `information`, and what happens depends on the memory at address 0. The
  model leaves the write out and records it as a hazard.
* `rt_sem_create` and `rt_sem_delete`, which are not compiled without `RT_USING_HEAP`.
* Mutex, event, mailbox, message queue: declared in `rtdef.h`, not implemented.
* `RtKernel` and `ContextSwitch` in one state space: the deferred switch is tied to the kernel by `RunsCurrent` and
  `RequestConsistent`, not by a composed module.
* Delayed starts without bound, and times above `TimerAssumption`: there the comparison modulo 2^w
  is wrong, which `timer.c:160` leaves to the caller.
* Two threads that stop one timer, and a one-shot timer restarted by its own callback: `PendingCanBeStopped` fails
  there (hazards at `timer.c:94` and `timer.c:291`), and no statement of the repository promises it.

## 6. Order of development

`RtKernel`, `RtSemaphore` and `ContextSwitch` came first, with their instances and the proofs of the lists, the timers
and the switch. Then `TimerList` on `KernelList`, `Countdown` and its two refinements; `FixedPriority` and its
refinement; `Demo` with the object container; `BitSearch`; the proofs of the refinements and of the semaphores; and
those of the demo, of the pointer rings and of the refinement of `Countdown` by absolute ticks.
What could still be added is a composition of `RtKernel` with `ContextSwitch`, in which a request and its PendSV are
separate steps of the kernel model.
