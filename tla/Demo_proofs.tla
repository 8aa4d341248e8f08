------------------------------ MODULE Demo_proofs ------------------------------
(* The application: its calls never make the kernel fail, no increment of   *)
(* the shared counter is lost, a closed thread stays out, and the container *)
(* holds the threads it should.                                             *)
EXTENDS Demo, RtScheduler_proofs

-----------------------------------------------------------------------------
(* The program.                                                            *)

Lines ==
    /\ line \in [Thread -> Nat]
    /\ line[flag1] \in 1 .. 8 /\ line[flag2] \in 1 .. 7 /\ line[flag3] \in 1 .. 2
    /\ line[flag4] = 1 /\ line[idle] = 1

\* The statements of main.c, by thread and line.
LEMMA Statements ==
  ASSUME Lines, NEW t \in Thread
  PROVE  /\ Now(t).op = "resume" => t = flag1 /\ line[t] \in {1, 7} /\ Now(t).arg = flag3
         /\ Now(t).op = "suspend" => t = flag3 /\ Now(t).arg = flag3
         /\ Now(t).op = "lock" => (t = flag1 /\ line[t] = 2) \/ (t = flag2 /\ line[t] = 1)
         /\ Now(t).op = "read" => (t = flag1 /\ line[t] = 3) \/ (t = flag2 /\ line[t] = 2)
         /\ Now(t).op = "write" => (t = flag1 /\ line[t] = 5) \/ (t = flag2 /\ line[t] = 3)
         /\ Now(t).op = "unlock" => (t = flag1 /\ line[t] = 6) \/ (t = flag2 /\ line[t] = 4)
         /\ Now(t).op = "sleep" => (t = flag1 /\ line[t] \in {4, 8}) \/ (t = flag2 /\ line[t] \in {6, 7})
         /\ Now(t).op = "detach" => t = flag2 /\ line[t] = 5 /\ Now(t).arg = flag4
<1>1. CASE t = flag1
  <2>1. Now(t) = << Do("resume", flag3), Do("lock", NoThread),
                    Do("read", NoThread), Do("sleep", LongDelay),
                    Do("write", NoThread), Do("unlock", NoThread),
                    Do("resume", flag3), Do("sleep", LongDelay) >>[line[t]]
    BY <1>1, DemoAssumption DEF Now, Program
  <2>2. line[t] \in {1, 2, 3, 4, 5, 6, 7, 8}
    BY <1>1 DEF Lines
  <2> QED
    BY <1>1, <2>1, <2>2 DEF Do
<1>2. CASE t = flag2
  <2>1. Now(t) = << Do("lock", NoThread), Do("read", NoThread),
                    Do("write", NoThread), Do("unlock", NoThread),
                    Do("detach", flag4),
                    Do("sleep", ShortDelay), Do("sleep", ShortDelay) >>[line[t]]
    BY <1>2, DemoAssumption DEF Now, Program
  <2>2. line[t] \in {1, 2, 3, 4, 5, 6, 7}
    BY <1>2 DEF Lines
  <2> QED
    BY <1>2, <2>1, <2>2 DEF Do
<1>3. CASE t = flag3
  <2>1. Now(t) = << Do("suspend", flag3), Do("suspend", flag3) >>[line[t]]
    BY <1>3, DemoAssumption DEF Now, Program
  <2>2. line[t] \in {1, 2}
    BY <1>3 DEF Lines
  <2> QED
    BY <1>3, <2>1, <2>2 DEF Do
<1>4. CASE t \in {flag4, idle}
  <2>1. Now(t) = << Do("loop", NoThread) >>[line[t]]
    BY <1>4, DemoAssumption DEF Now, Program
  <2>2. line[t] = 1
    BY <1>4 DEF Lines
  <2> QED
    BY <2>1, <2>2 DEF Do
<1> QED
  BY <1>1, <1>2, <1>3, <1>4, DemoAssumption

\* The line after it; the loop starts again after the last one.
LEMMA NextLine ==
  ASSUME Lines, NEW t \in Thread, AfterLine(t)
  PROVE  /\ Lines' /\ \A y \in Thread \ {t} : line'[y] = line[y]
         /\ t = flag1 => line'[t] = IF line[t] = 8 THEN 1 ELSE line[t] + 1
         /\ t = flag2 => line'[t] = IF line[t] = 7 THEN 1 ELSE line[t] + 1
<1>1. /\ line' \in [Thread -> Nat \cup {line'[t]}] /\ line'[t] = 1 + (line[t] % Len(Program[t]))
      /\ \A y \in Thread \ {t} : line'[y] = line[y]
  BY DEF AfterLine, Lines
<1>2. CASE t = flag1
  <2>1. Len(Program[t]) = 8
    BY <1>2, DemoAssumption DEF Program
  <2>2. line'[t] = IF line[t] = 8 THEN 1 ELSE line[t] + 1
    BY <1>1, <1>2, <2>1 DEF Lines
  <2> QED
    BY <1>1, <1>2, <2>2, DemoAssumption DEF Lines
<1>3. CASE t = flag2
  <2>1. Len(Program[t]) = 7
    BY <1>3, DemoAssumption DEF Program
  <2>2. line'[t] = IF line[t] = 7 THEN 1 ELSE line[t] + 1
    BY <1>1, <1>3, <2>1 DEF Lines
  <2> QED
    BY <1>1, <1>3, <2>2, DemoAssumption DEF Lines
<1>4. CASE t = flag3
  <2>1. Len(Program[t]) = 2
    BY <1>4, DemoAssumption DEF Program
  <2>2. line'[t] \in 1 .. 2
    BY <1>1, <1>4, <2>1 DEF Lines
  <2> QED
    BY <1>1, <1>4, <2>2, DemoAssumption DEF Lines
<1>5. CASE t \in {flag4, idle}
  <2>1. Len(Program[t]) = 1
    BY <1>5, DemoAssumption DEF Program
  <2>2. line'[t] = 1
    BY <1>1, <1>5, <2>1 DEF Lines
  <2> QED
    BY <1>1, <1>5, <2>2, DemoAssumption DEF Lines
<1> QED
  BY <1>2, <1>3, <1>4, <1>5, DemoAssumption

-----------------------------------------------------------------------------
(* Every step of the application is one of the kernel, or none of its.     *)

LEMMA LinesStep == Lines /\ [DemoNext]_demoVars => Lines'
<1>1. ASSUME Lines, UNCHANGED line PROVE Lines'
  BY <1>1 DEF Lines
<1>2. ASSUME Lines, NEW t \in Thread, AfterLine(t) PROVE Lines'
  BY <1>2, NextLine
<1>3. DemoNext => UNCHANGED line \/ \E t \in Thread : AfterLine(t)
  BY DEF DemoNext, DemoBoot, BootNext, DemoTick, DemoStep, KernelCall, TestAndDetach,
     ReadCounter, WriteCounter, ContinueCall, appVars
<1> QED
  BY <1>1, <1>2, <1>3 DEF demoVars, appVars

LEMMA KernelStep == Lines /\ [DemoNext]_demoVars => [Next]_vars
<1> SUFFICES ASSUME Lines, DemoNext PROVE Next \/ UNCHANGED vars
  BY DEF demoVars
<1>1. CASE DemoBoot
  <2>1. \A i \in DOMAIN BootOrder : BootOrder[i] \in Thread
    BY DemoAssumption DEF BootOrder
  <2> QED
    BY <1>1, <2>1 DEF DemoBoot, BootNext, Next, Boot
<1>2. CASE DemoTick
  BY <1>2 DEF DemoTick, Next
<1>3. ASSUME NEW t \in Thread, KernelCall(t) PROVE Next
  <2>1. Executes(t, "resume") /\ rt_thread_resume(t, Now(t).arg) => Call(t)
    BY Statements, DemoAssumption DEF Executes, Call, OnTarget
  <2>2. Executes(t, "suspend") /\ rt_thread_suspend(t, Now(t).arg) => Call(t)
    BY Statements, DemoAssumption DEF Executes, Call, OnTarget
  <2>3. rt_thread_sleep(t, Now(t).arg) => Call(t)
    BY DEF Call, rt_thread_sleep
  <2> QED
    BY <1>3, <2>1, <2>2, <2>3 DEF KernelCall, Call, Next
<1>4. ASSUME NEW t \in Thread, TestAndDetach(t) PROVE Next \/ UNCHANGED vars
  <2>1. Executes(t, "detach") /\ rt_thread_detach(t, Now(t).arg) => Call(t)
    BY Statements, DemoAssumption DEF Executes, Call, OnTarget
  <2> QED
    BY <1>4, <2>1 DEF TestAndDetach, Next
<1>5. ASSUME NEW t \in Thread, ReadCounter(t) \/ WriteCounter(t) PROVE UNCHANGED vars
  BY <1>5 DEF ReadCounter, WriteCounter
<1>6. ASSUME NEW t \in Thread, ContinueCall(t) PROVE Next
  BY <1>6 DEF ContinueCall, Next
<1> QED
  BY <1>1, <1>2, <1>3, <1>4, <1>5, <1>6 DEF DemoNext, DemoStep

LEMMA LinesInvariant == DemoSpec => []Lines
<1>1. DemoInit => Lines
  BY DemoAssumption DEF DemoInit, Lines
<1> QED
  BY <1>1, LinesStep, PTL DEF DemoSpec

\* The application is one of those that RtKernel is about: what is proved of
\* every application, holds of this one.
THEOREM DemoIsAnApplication == DemoSpec => Spec
<1>1. DemoInit => Init
  BY DEF DemoInit
<1> QED
  BY <1>1, KernelStep, LinesInvariant, PTL DEF DemoSpec, Spec

-----------------------------------------------------------------------------
(* The shared counter.                                                     *)

\* Between rt_enter_critical and rt_exit_critical a thread keeps the CPU, and
\* what it has read of the counter is still true.
InRegion(t) ==
    \/ t = flag1 /\ line[t] \in 3 .. 6
    \/ t = flag2 /\ line[t] \in 2 .. 4
HasRead(t) ==
    \/ t = flag1 /\ line[t] \in 4 .. 5
    \/ t = flag2 /\ line[t] = 3
CounterInv ==
    /\ var \in [Thread -> Int] /\ sharecounter \in Int
    /\ \A t \in Thread : InRegion(t) => current_thread = t /\ lock_nest = 1
    /\ (\A t \in Thread : ~InRegion(t)) => lock_nest = 0
    /\ \A t \in Thread : HasRead(t) => var[t] = (sharecounter + 1) % CounterRange
    /\ sharecounter = written

\* A step that neither comes to another line nor locks.
LEMMA CounterStays ==
  ASSUME CounterInv, UNCHANGED <<line, var, sharecounter, written, lock_nest>>,
         lock_nest > 0 => current_thread' = current_thread
  PROVE  CounterInv'
<1>1. \A t \in Thread : (InRegion(t)' <=> InRegion(t)) /\ (HasRead(t)' <=> HasRead(t))
  BY DEF InRegion, HasRead
<1> QED
  BY <1>1 DEF CounterInv

LEMMA CounterStep ==
  ASSUME TypeOK, BootUnlocked, Lines, CounterInv, [DemoNext]_demoVars
  PROVE  CounterInv'
<1>1. lock_nest > 0 => current_thread' = current_thread
  BY KernelStep, LockStep
<1>2. CASE UNCHANGED <<line, var, sharecounter, written, lock_nest>>
  BY <1>1, <1>2, CounterStays
<1>3. ASSUME NEW t \in Thread, Executes(t, "lock"), rt_enter_critical(t), AfterLine(t),
             UNCHANGED <<var, sharecounter, written>>
      PROVE  CounterInv'
  <2>1. /\ current_thread = t /\ current_thread' = t
        /\ lock_nest' = IF lock_nest < LockMax THEN lock_nest + 1 ELSE lock_nest
    BY <1>3 DEF rt_enter_critical, Calls, Running
  <2>2. (t = flag1 /\ line[t] = 2) \/ (t = flag2 /\ line[t] = 1)
    BY <1>3, Statements DEF Executes
  <2>3. /\ line'[t] = line[t] + 1 /\ Lines'
        /\ \A y \in Thread \ {t} : line'[y] = line[y]
    BY <1>3, <2>2, NextLine
  <2>4. \A y \in Thread : ~InRegion(y)
    BY <2>1, <2>2, DemoAssumption DEF CounterInv, InRegion
  <2>5. lock_nest = 0 /\ lock_nest' = 1
    BY <2>1, <2>4, ConstantsAssumption DEF CounterInv
  <2>6. /\ InRegion(t)' /\ ~HasRead(t)'
        /\ \A y \in Thread \ {t} : ~InRegion(y)' /\ ~HasRead(y)'
    BY <2>2, <2>3, <2>4, DemoAssumption DEF InRegion, HasRead
  <2> QED
    BY <1>3, <2>1, <2>5, <2>6 DEF CounterInv
<1>4. ASSUME NEW t \in Thread, Executes(t, "unlock"), rt_exit_critical(t), AfterLine(t),
             UNCHANGED <<var, sharecounter, written>>
      PROVE  CounterInv'
  <2>1. /\ current_thread = t
        /\ lock_nest' = IF lock_nest <= 1 THEN 0 ELSE lock_nest - 1
    BY <1>4 DEF rt_exit_critical, Calls, Running
  <2>2. (t = flag1 /\ line[t] = 6) \/ (t = flag2 /\ line[t] = 4)
    BY <1>4, Statements DEF Executes
  <2>3. /\ line'[t] = line[t] + 1 /\ Lines'
        /\ \A y \in Thread \ {t} : line'[y] = line[y]
    BY <1>4, <2>2, NextLine
  <2>4. \A y \in Thread \ {t} : ~InRegion(y)
    BY <2>1 DEF CounterInv
  <2>5. lock_nest' = 0
    BY <2>1, <2>2 DEF CounterInv, InRegion
  <2>6. \A y \in Thread : ~InRegion(y)' /\ ~HasRead(y)'
    BY <2>2, <2>3, <2>4, DemoAssumption DEF InRegion, HasRead
  <2> QED
    BY <1>4, <2>5, <2>6 DEF CounterInv
<1>5. ASSUME NEW t \in Thread, AfterLine(t), UNCHANGED <<var, sharecounter, written, lock_nest>>,
             Executes(t, "resume") \/ Executes(t, "suspend") \/ Executes(t, "sleep")
               \/ Executes(t, "detach")
      PROVE  CounterInv'
  <2>1. /\ t \in {flag1, flag2, flag3}
        /\ t = flag1 => line[t] \in {1, 4, 7, 8}
        /\ t = flag2 => line[t] \in {5, 6, 7}
    BY <1>5, Statements, DemoAssumption DEF Executes
  <2>2. /\ \A y \in Thread \ {t} : line'[y] = line[y]
        /\ t = flag1 => line'[t] = IF line[t] = 8 THEN 1 ELSE line[t] + 1
        /\ t = flag2 => line'[t] = IF line[t] = 7 THEN 1 ELSE line[t] + 1
    BY <1>5, NextLine
  <2>3. \A y \in Thread : (InRegion(y)' <=> InRegion(y)) /\ (HasRead(y)' <=> HasRead(y))
    BY <2>1, <2>2, DemoAssumption DEF InRegion, HasRead
  <2> QED
    BY <1>1, <1>5, <2>3 DEF CounterInv
<1>6. ASSUME NEW t \in Thread, ReadCounter(t) PROVE CounterInv'
  <2>1. /\ current_thread = t /\ UNCHANGED <<current_thread, lock_nest, sharecounter, written>>
        /\ var' = [var EXCEPT ![t] = (sharecounter + 1) % CounterRange]
    BY <1>6 DEF ReadCounter, Executes, Running, vars, sched
  <2>2. (t = flag1 /\ line[t] = 3) \/ (t = flag2 /\ line[t] = 2)
    BY <1>6, Statements DEF ReadCounter, Executes
  <2>3. line'[t] = line[t] + 1 /\ \A y \in Thread \ {t} : line'[y] = line[y]
    BY <1>6, <2>2, NextLine DEF ReadCounter
  <2>4. \A y \in Thread \ {t} : ~InRegion(y) /\ ~HasRead(y)
    BY <2>1, DemoAssumption DEF CounterInv, InRegion, HasRead
  <2>5. /\ InRegion(t) /\ InRegion(t)'
        /\ \A y \in Thread \ {t} : ~InRegion(y)' /\ ~HasRead(y)'
    BY <2>2, <2>3, <2>4, DemoAssumption DEF InRegion, HasRead
  <2>6. (sharecounter + 1) % CounterRange \in Int
    BY <2>1, DemoAssumption DEF CounterInv
  <2> QED
    BY <2>1, <2>5, <2>6 DEF CounterInv
<1>7. ASSUME NEW t \in Thread, WriteCounter(t) PROVE CounterInv'
  <2>1. /\ current_thread = t /\ UNCHANGED <<current_thread, lock_nest, var>>
        /\ sharecounter' = var[t] /\ written' = (written + 1) % CounterRange
    BY <1>7 DEF WriteCounter, Executes, Running, vars, sched
  <2>2. (t = flag1 /\ line[t] = 5) \/ (t = flag2 /\ line[t] = 3)
    BY <1>7, Statements DEF WriteCounter, Executes
  <2>3. line'[t] = line[t] + 1 /\ \A y \in Thread \ {t} : line'[y] = line[y]
    BY <1>7, <2>2, NextLine DEF WriteCounter
  <2>4. \A y \in Thread \ {t} : ~InRegion(y) /\ ~HasRead(y)
    BY <2>1, DemoAssumption DEF CounterInv, InRegion, HasRead
  <2>5. /\ InRegion(t) /\ InRegion(t)' /\ HasRead(t) /\ ~HasRead(t)'
        /\ \A y \in Thread \ {t} : ~InRegion(y)' /\ ~HasRead(y)'
    BY <2>2, <2>3, <2>4, DemoAssumption DEF InRegion, HasRead
  <2> QED
    BY <2>1, <2>5 DEF CounterInv
<1>8. CASE DemoBoot
  <2>1. UNCHANGED <<line, var, sharecounter, written, lock_nest>>
    BY <1>8 DEF DemoBoot, BootNext, BootStartup, rt_system_scheduler_start, appVars, sched
  <2> QED
    BY <1>2, <2>1
<1>9. CASE DemoTick
  <2>1. UNCHANGED <<line, var, sharecounter, written, lock_nest>>
    BY <1>9 DEF DemoTick, SysTick, rt_tick_increase, rt_thread_timeout, rt_timer_check_done,
       appVars, sched
  <2> QED
    BY <1>2, <2>1
<1>10. ASSUME NEW t \in Thread, ContinueCall(t) PROVE CounterInv'
  <2>1. UNCHANGED <<line, var, sharecounter, written, lock_nest>>
    BY <1>10 DEF ContinueCall, Continue, Reschedule, ResumeRemove, ResumeInsert, StartupResume,
       SuspendCrit, CloseRemove, CloseTimer, CloseStat, CloseList, appVars, sched
  <2> QED
    BY <1>2, <2>1
<1>11. ASSUME NEW t \in Thread, KernelCall(t) PROVE CounterInv'
  <2>1. \/ Executes(t, "lock") /\ rt_enter_critical(t)
        \/ Executes(t, "unlock") /\ rt_exit_critical(t)
        \/ /\ Executes(t, "resume") \/ Executes(t, "suspend") \/ Executes(t, "sleep")
           /\ lock_nest' = lock_nest
    BY <1>11 DEF KernelCall, rt_thread_resume, rt_thread_suspend, rt_thread_sleep, sched
  <2>2. AfterLine(t) /\ UNCHANGED <<var, sharecounter, written>>
    BY <1>11 DEF KernelCall
  <2> QED
    BY <1>3, <1>4, <1>5, <2>1, <2>2
<1>12. ASSUME NEW t \in Thread, TestAndDetach(t) PROVE CounterInv'
  <2>1. Executes(t, "detach") /\ lock_nest' = lock_nest
        /\ AfterLine(t) /\ UNCHANGED <<var, sharecounter, written>>
    BY <1>12 DEF TestAndDetach, rt_thread_detach, CloseThread, vars, sched
  <2> QED
    BY <1>5, <2>1
<1>13. CASE UNCHANGED demoVars
  BY <1>2, <1>13 DEF demoVars, vars, appVars, sched
<1> QED
  BY <1>6, <1>7, <1>8, <1>9, <1>10, <1>11, <1>12, <1>13 DEF DemoNext, DemoStep

LEMMA CounterInvariant == DemoSpec => []CounterInv
<1>1. DemoInit => CounterInv
  BY DemoAssumption DEF DemoInit, CounterInv, InRegion, HasRead, Init, rt_system_scheduler_init
<1>2. Spec => []BootUnlocked
  <2>1. Init => BootUnlocked
    BY DEF Init, rt_system_scheduler_init, BootUnlocked
  <2>2. TypeOK /\ BootUnlocked /\ [Next]_vars => BootUnlocked'
    BY LockStep
  <2> QED
    BY <2>1, <2>2, TypeCorrect, PTL DEF Spec
<1>3. TypeOK /\ BootUnlocked /\ Lines /\ CounterInv /\ [DemoNext]_demoVars => CounterInv'
  BY CounterStep
<1> QED
  BY <1>1, <1>2, <1>3, DemoIsAnApplication, TypeCorrect, LinesInvariant, PTL DEF DemoSpec

\* The counter shared under the scheduler lock has every increment, for any slices
\* and delays: nobody runs between the read and the write, although flag1 sleeps there.
THEOREM NoIncrementIsLost == DemoSpec => []NoLostUpdate
<1>1. CounterInv => NoLostUpdate
  BY DEF CounterInv, NoLostUpdate
<1> QED
  BY <1>1, CounterInvariant, PTL

-----------------------------------------------------------------------------
(* States, lists and the calls that are under way.                         *)

InLevel(x) == Contains(tlist[Priority[x]], x)

\* Where the calls of main.c can be: flag1 resumes flag3, flag2 detaches flag4,
\* flag3 suspends itself.
CallPlaces ==
    /\ pc[flag1] \in {User, AtSchedule} \cup
          {At(l, flag3, "user") : l \in {"resume_remove", "resume_insert"}}
    /\ pc[flag2] \in {User, AtSchedule} \cup
          {At(l, flag4, "detach") : l \in {"close_remove", "close_timer", "close_stat", "close_list"}}
    /\ pc[flag3] \in {User, At("suspend_crit", flag3, "user")}
    /\ pc[flag4] = User /\ pc[idle] = User

\* A thread is ready exactly when it is in its level, but for flag4 while
\* flag2 closes it; what the calls have tested remains true.
StatesAgree ==
    /\ \A x \in Thread \ {flag4} : stat[x] = "ready" <=> InLevel(x)
    /\ InLevel(flag4) <=> stat[flag4] = "ready" /\ pc[flag2].at \notin {"close_timer", "close_stat"}
    /\ \A x \in Thread : stat[x] # "close_init" /\ (stat[x] = "close" => x = flag4)
    /\ \A x \in Thread : stat[x] = "suspend" => x \in {flag1, flag2, flag3}
    /\ pc[flag1].at \in {"resume_remove", "resume_insert"} => stat[flag3] = "suspend"
    /\ pc[flag3].at = "suspend_crit" => stat[flag3] = "ready"
    /\ pc[flag2].at = "close_list" => stat[flag4] = "close"

\* All threads are initialised before one of them runs; flag1 and flag2 sleep.
Started ==
    /\ current_thread # NoThread => \A x \in Thread : stat[x] # "init"
    /\ current_thread = NoThread => \A x \in Thread : pc[x] = User
    /\ isr = "none" \/ (isr = "timer_check" /\ current_thread # NoThread)
    /\ \A x \in Thread : Contains(timer_list, x) => x \in {flag1, flag2}

DemoSafe ==
    fault = "none" /\ group = Nonempty(tlist) /\ CallPlaces /\ StatesAgree /\ Started

-----------------------------------------------------------------------------
(* What the kernel does to the levels.                                     *)

Exact == TypeOK /\ ListInv /\ fault = "none" /\ group = Nonempty(tlist)

LEMMA LevelFacts ==
  ASSUME Exact
  PROVE  /\ tlist \in [ListHead -> Seq(Thread)] /\ OnceIn(tlist)
         /\ group \subseteq Prio /\ Prio \subseteq ListHead
         /\ stat \in [Thread -> Stat] /\ timer_list \in Seq(Thread)
         /\ \A x \in Thread : Priority[x] \in Prio
         /\ \A h \in ListHead, x \in Thread : Contains(tlist[h], x) => h = Priority[x]
BY LinkedOnceIsOnceIn, ConstantsAssumption DEF Exact, TypeOK, ListInv, OwnLevel, ListHead

\* A bitmap is exact if it says of each level whether it has members.
LEMMA ExactBitmap ==
  ASSUME NEW ls \in [ListHead -> Seq(Thread)], NEW g \in SUBSET Prio,
         \A p \in Prio : p \in g <=> \E y \in Thread : Contains(ls[p], y)
  PROVE  g = Nonempty(ls)
<1>1. \A p \in Prio : p \in g <=> p \in Nonempty(ls)
  BY NonemptyMembers
<1> QED
  BY <1>1 DEF Nonempty

\* rt_schedule_insert_thread, of a thread that has been unlinked.
LEMMA JoinsLevel ==
  ASSUME Exact, NEW x \in Thread,
         rt_schedule_insert_thread(rt_list_remove(tlist, x), x)
  PROVE  /\ group' = Nonempty(tlist)' /\ stat' = [stat EXCEPT ![x] = "ready"]
         /\ \A y \in Thread : InLevel(y)' <=> InLevel(y) \/ y = x
<1> DEFINE l == rt_list_remove(tlist, x)
<1>1. l \in [ListHead -> Seq(Thread)]
  BY LevelFacts, RemoveProperties
<1>2. \A h \in ListHead, y \in Thread : Contains(l[h], y) <=> Contains(tlist[h], y) /\ y # x
  BY LevelFacts, RemovedMembers
<1>3. /\ tlist' = insert_ready(l, x) /\ group' = group \cup {Priority[x]}
      /\ stat' = [stat EXCEPT ![x] = "ready"]
  BY DEF rt_schedule_insert_thread
<1> HIDE DEF l
<1>4. tlist' \in [ListHead -> Seq(Thread)] /\ group' \subseteq Prio
  <2>1. insert_ready(l, x) \in [ListHead -> Seq(Thread)]
    BY <1>1, InsertProperties
  <2>2. group \subseteq Prio /\ Priority[x] \in Prio
    BY LevelFacts
  <2> QED
    BY <1>3, <2>1, <2>2
<1>5. \A h \in ListHead, y \in Thread :
        Contains(tlist'[h], y) <=> (Contains(tlist[h], y) /\ y # x) \/ (y = x /\ h = Priority[x])
  BY <1>1, <1>2, <1>3, AddedMembers
<1>6. \A p \in Prio : p \in group' <=> \E y \in Thread : Contains(tlist'[p], y)
  <2> TAKE p \in Prio
  <2>1. p \in group <=> \E y \in Thread : Contains(tlist[p], y)
    BY LevelFacts, NonemptyMembers DEF Exact
  <2>2. Contains(tlist[p], x) => p = Priority[x]
    BY LevelFacts
  <2> QED
    BY <1>3, <1>5, <2>1, <2>2, LevelFacts
<1>7. group' = Nonempty(tlist')
  BY <1>4, <1>6, ExactBitmap
<1> QED
  BY <1>3, <1>5, <1>7, LevelFacts DEF InLevel, Nonempty

\* rt_schedule_remove_thread, whether the thread is linked or not.
LEMMA LeavesLevel ==
  ASSUME Exact, NEW x \in Thread, rt_schedule_remove_thread(x), NumberMask(x) = {Priority[x]}
  PROVE  /\ group' = Nonempty(tlist)'
         /\ \A y \in Thread : InLevel(y)' <=> InLevel(y) /\ y # x
<1>1. /\ tlist' = rt_list_remove(tlist, x)
      /\ group' = IF tlist'[Priority[x]] = <<>> THEN group \ {Priority[x]} ELSE group
  BY DEF rt_schedule_remove_thread
<1>2. tlist' \in [ListHead -> Seq(Thread)] /\ group' \subseteq Prio
  BY <1>1, LevelFacts, RemoveProperties
<1>3. \A h \in ListHead, y \in Thread : Contains(tlist'[h], y) <=> Contains(tlist[h], y) /\ y # x
  BY <1>1, LevelFacts, RemovedMembers
<1>4. \A p \in Prio : p \in group' <=> \E y \in Thread : Contains(tlist'[p], y)
  <2> TAKE p \in Prio
  <2>1. p \in group <=> \E y \in Thread : Contains(tlist[p], y)
    BY LevelFacts, NonemptyMembers DEF Exact
  <2>2. Contains(tlist[p], x) => p = Priority[x]
    BY LevelFacts
  <2>3. p \in Nonempty(tlist') <=> \E y \in Thread : Contains(tlist'[p], y)
    BY <1>2, NonemptyMembers
  <2>4. CASE p = Priority[x]
    <3>1. p \in Nonempty(tlist') <=> tlist'[p] # <<>>
      BY DEF Nonempty
    <3> QED
      BY <1>1, <1>3, <2>1, <2>3, <2>4, <3>1, LevelFacts
  <2>5. CASE p # Priority[x]
    BY <1>1, <1>3, <2>1, <2>2, <2>5, LevelFacts
  <2> QED
    BY <2>4, <2>5
<1>5. group' = Nonempty(tlist')
  BY <1>2, <1>4, ExactBitmap
<1> QED
  BY <1>3, <1>5, LevelFacts DEF InLevel, Nonempty

\* rt_thread_yield, of a thread that is linked.
LEMMA TurnsInLevel ==
  ASSUME Exact, NEW x \in Thread, CanYield(x), MoveToTail(x)
  PROVE  /\ group' = Nonempty(tlist)' /\ stat' = stat
         /\ \A y \in Thread : InLevel(y)' <=> InLevel(y)
<1> DEFINE l == rt_list_remove(tlist, x)
<1>1. l \in [ListHead -> Seq(Thread)]
  BY LevelFacts, RemoveProperties
<1>2. \A h \in ListHead, y \in Thread : Contains(l[h], y) <=> Contains(tlist[h], y) /\ y # x
  BY LevelFacts, RemovedMembers
<1>3. tlist' = insert_ready(l, x) /\ group' = group /\ stat' = stat
  BY DEF MoveToTail
<1> HIDE DEF l
<1>4. tlist' \in [ListHead -> Seq(Thread)] /\ group' \subseteq Prio
  <2>1. insert_ready(l, x) \in [ListHead -> Seq(Thread)]
    BY <1>1, InsertProperties
  <2>2. group \subseteq Prio /\ Priority[x] \in Prio
    BY LevelFacts
  <2> QED
    BY <1>3, <2>1, <2>2
<1>5. \A h \in ListHead, y \in Thread :
        Contains(tlist'[h], y) <=> (Contains(tlist[h], y) /\ y # x) \/ (y = x /\ h = Priority[x])
  BY <1>1, <1>2, <1>3, AddedMembers
<1>6. Contains(tlist[Priority[x]], x)
  BY LevelFacts DEF CanYield, HasPeer
<1>7. \A h \in ListHead, y \in Thread : Contains(tlist'[h], y) <=> Contains(tlist[h], y)
  BY <1>5, <1>6, LevelFacts
<1>8. \A p \in Prio : p \in group' <=> \E y \in Thread : Contains(tlist'[p], y)
  <2> TAKE p \in Prio
  <2>1. p \in group <=> \E y \in Thread : Contains(tlist[p], y)
    BY LevelFacts, NonemptyMembers DEF Exact
  <2> QED
    BY <1>3, <1>7, <2>1, LevelFacts
<1>9. group' = Nonempty(tlist')
  BY <1>4, <1>8, ExactBitmap
<1> QED
  BY <1>3, <1>7, <1>9, LevelFacts DEF InLevel, Nonempty

\* While idle is linked the bitmap and the lists choose a thread.
ChoosesThread == to_thread(tlist, group) \in Thread
LEMMA Chooses ==
  ASSUME TypeOK, group = Nonempty(tlist), InLevel(idle)
  PROVE  ChoosesThread
<1>1. tlist \in [ListHead -> Seq(Thread)] /\ idle \in Thread /\ Priority[idle] \in Prio
  BY ConstantsAssumption DEF TypeOK
<1>2. Priority[idle] \in group
  BY <1>1, NonemptyMembers DEF InLevel
<1> QED
  BY <1>1, <1>2, ChoiceIsFirst DEF ChoosesThread

CanChoose == TypeOK /\ group = Nonempty(tlist) /\ InLevel(idle)
LEMMA ChoosesNext == CanChoose' => ChoosesThread'
<1>1. CanChoose => ChoosesThread
  BY Chooses DEF CanChoose
<1> QED
  BY <1>1, PTL

\* rt_schedule, then, does not fail.
LEMMA Dispatches ==
  ASSUME TypeOK', group' = Nonempty(tlist)', InLevel(idle)', fault = "none",
         current_thread # NoThread, rt_schedule(tlist', group')
  PROVE  fault' = "none" /\ current_thread' # NoThread
<1>1. ChoosesThread'
  BY ChoosesNext DEF CanChoose
<1> QED
  BY <1>1, ConstantsAssumption DEF ChoosesThread, rt_schedule

-----------------------------------------------------------------------------
(* The steps.                                                              *)

SafeNow == TypeOK /\ ListInv /\ TimerInv /\ Lines /\ DemoSafe

\* Once a thread runs, idle is ready for ever.
LEMMA SafeFacts ==
  ASSUME SafeNow
  PROVE  /\ Exact /\ fault = "none" /\ group = Nonempty(tlist)
         /\ Thread = {flag1, flag2, flag3, flag4, idle} /\ NoThread \notin Thread
         /\ stat \in [Thread -> Stat] /\ pc \in [Thread -> PC] /\ timer_list \in Seq(Thread)
         /\ current_thread \in Thread \cup {NoThread}
         /\ current_thread # NoThread =>
              InLevel(idle) /\ \A x \in Thread : NumberMask(x) = {Priority[x]}
<1>1. /\ Exact /\ fault = "none" /\ group = Nonempty(tlist)
      /\ stat \in [Thread -> Stat] /\ pc \in [Thread -> PC] /\ timer_list \in Seq(Thread)
      /\ current_thread \in Thread \cup {NoThread}
  BY DEF SafeNow, DemoSafe, Exact, TypeOK
<1>2. current_thread # NoThread => InLevel(idle)
  BY <1>1, DemoAssumption DEF SafeNow, DemoSafe, Started, StatesAgree, Stat
<1>3. current_thread # NoThread => \A x \in Thread : NumberMask(x) = {Priority[x]}
  BY DEF SafeNow, DemoSafe, Started, StatesAgree, NumberMask
<1> QED
  BY <1>1, <1>2, <1>3, DemoAssumption, ConstantsAssumption

\* A step that leaves the lists and the states alone.
LEMMA StatesStay ==
  ASSUME SafeNow, UNCHANGED links, fault' = "none",
         current_thread' # NoThread \/ (current_thread' = current_thread /\ isr' = isr /\ pc' = pc),
         current_thread' # NoThread => \A x \in Thread : stat[x] # "init",
         isr' \in {"none", "timer_check"}, CallPlaces',
         pc'[flag1].at \in {"resume_remove", "resume_insert"} => stat[flag3] = "suspend",
         pc'[flag3].at = "suspend_crit" => stat[flag3] = "ready",
         pc'[flag2].at = "close_list" <=> pc[flag2].at = "close_list",
         pc'[flag2].at \in {"close_timer", "close_stat"}
           <=> pc[flag2].at \in {"close_timer", "close_stat"},
         \A x \in Thread : Contains(timer_list', x) => Contains(timer_list, x)
  PROVE  DemoSafe'
<1>1. tlist' = tlist /\ group' = group /\ stat' = stat /\ \A x \in Thread : InLevel(x)' <=> InLevel(x)
  BY DEF links, InLevel
<1>2. group' = Nonempty(tlist)'
  BY <1>1, SafeFacts DEF Nonempty
<1>3. StatesAgree'
  BY <1>1, DemoAssumption DEF SafeNow, DemoSafe, StatesAgree
<1>4. Started'
  BY <1>1, SafeFacts DEF SafeNow, DemoSafe, Started
<1> QED
  BY <1>2, <1>3, <1>4 DEF DemoSafe

LEMMA SafeBoot == ASSUME SafeNow, DemoBoot PROVE DemoSafe'
<1>1. ASSUME NEW x \in Thread, BootStartup(x) PROVE DemoSafe'
  <2>1. /\ current_thread = NoThread /\ stat[x] = "init"
        /\ rt_schedule_insert_thread(rt_list_remove(tlist, x), x)
        /\ UNCHANGED <<timer_list, current_thread, pc, isr, fault>>
    BY <1>1 DEF BootStartup, timers, sched
  <2>2. /\ group' = Nonempty(tlist)' /\ stat' = [stat EXCEPT ![x] = "ready"]
        /\ \A y \in Thread : InLevel(y)' <=> InLevel(y) \/ y = x
    BY <2>1, SafeFacts, JoinsLevel
  <2>3. \A y \in Thread : pc[y] = User
    BY <2>1 DEF SafeNow, DemoSafe, Started
  <2>4. CallPlaces' /\ Started'
    BY <2>1 DEF SafeNow, DemoSafe, Started, CallPlaces
  <2>5. StatesAgree'
    BY <2>1, <2>2, <2>3, SafeFacts DEF SafeNow, DemoSafe, StatesAgree, User
  <2> QED
    BY <2>1, <2>2, <2>4, <2>5, SafeFacts DEF DemoSafe
<1>2. CASE rt_system_scheduler_start
  <2>1. /\ \A x \in BootThread : stat[x] = "ready"
        /\ current_thread' = to_thread(tlist, group)
        /\ UNCHANGED <<links, timer_list, pc, isr, fault>>
    BY <1>2 DEF rt_system_scheduler_start, timers
  <2>2. \A x \in Thread : stat[x] = "ready"
    BY <2>1, DemoAssumption
  <2>3. InLevel(idle)
    BY <2>2, SafeFacts, DemoAssumption DEF SafeNow, DemoSafe, StatesAgree
  <2>4. current_thread' \in Thread
    BY <2>1, <2>3, SafeFacts, Chooses DEF ChoosesThread, SafeNow
  <2> QED
    BY <2>1, <2>2, <2>4, SafeFacts, StatesStay DEF SafeNow, DemoSafe, StatesAgree, Started, CallPlaces
<1>3. \A i \in DOMAIN BootOrder : BootOrder[i] \in Thread
  BY DemoAssumption DEF BootOrder
<1> QED
  BY <1>1, <1>2, <1>3 DEF DemoBoot, BootNext

LEMMA SafeTick == ASSUME SafeNow, TypeOK', rt_tick_increase PROVE DemoSafe'
<1>1. /\ current_thread \in Thread /\ current_thread # NoThread /\ isr' = "timer_check"
      /\ UNCHANGED <<timer_list, pc>>
  BY SafeFacts DEF rt_tick_increase
<1>2. CASE UNCHANGED <<links, current_thread, fault>>
  BY <1>1, <1>2, SafeFacts, StatesStay DEF SafeNow, DemoSafe, StatesAgree, Started, CallPlaces
<1>3. CASE /\ CanYield(current_thread) /\ MoveToTail(current_thread)
           /\ rt_schedule(tlist', group)
  <2>1. /\ group' = Nonempty(tlist)' /\ stat' = stat
        /\ \A y \in Thread : InLevel(y)' <=> InLevel(y)
    BY <1>1, <1>3, SafeFacts, TurnsInLevel
  <2>2. fault' = "none" /\ current_thread' # NoThread
    <3>1. rt_schedule(tlist', group') /\ idle \in Thread
      BY <1>3, DemoAssumption DEF MoveToTail
    <3> QED
      BY <1>1, <2>1, <3>1, SafeFacts, Dispatches
  <2>3. StatesAgree'
    BY <1>1, <2>1, DemoAssumption DEF SafeNow, DemoSafe, StatesAgree
  <2> QED
    BY <1>1, <2>1, <2>2, <2>3 DEF SafeNow, DemoSafe, Started, CallPlaces
<1> QED
  BY <1>2, <1>3 DEF rt_tick_increase

LEMMA SafeTimeout == ASSUME SafeNow, TypeOK', rt_thread_timeout PROVE DemoSafe'
<1> DEFINE x == Head(timer_list)
<1>1. /\ isr = "timer_check" /\ timer_list # <<>> /\ timer_list' = Tail(timer_list)
      /\ rt_schedule_insert_thread(rt_list_remove(tlist, x), x)
      /\ rt_schedule(tlist', group') /\ UNCHANGED <<pc, isr>>
  BY DEF rt_thread_timeout, Expired
<1>2. /\ x \in Thread /\ Contains(timer_list, x)
      /\ \A y : Contains(timer_list', y) => Contains(timer_list, y)
  BY <1>1, SafeFacts, TailElements, HeadIsMember
<1>3. x \in {flag1, flag2} /\ current_thread # NoThread
  BY <1>1, <1>2 DEF SafeNow, DemoSafe, Started
<1> HIDE DEF x
<1>4. /\ group' = Nonempty(tlist)' /\ stat' = [stat EXCEPT ![x] = "ready"]
      /\ \A y \in Thread : InLevel(y)' <=> InLevel(y) \/ y = x
  BY <1>1, <1>2, SafeFacts, JoinsLevel
<1>5. fault' = "none" /\ current_thread' # NoThread
  BY <1>1, <1>3, <1>4, SafeFacts, Dispatches, DemoAssumption
<1>6. StatesAgree'
  BY <1>1, <1>3, <1>4, SafeFacts, DemoAssumption DEF SafeNow, DemoSafe, StatesAgree
<1>7. Started' /\ CallPlaces'
  BY <1>1, <1>2, <1>3, <1>4, <1>5, SafeFacts DEF SafeNow, DemoSafe, Started, CallPlaces
<1> QED
  BY <1>4, <1>5, <1>6, <1>7 DEF DemoSafe

LEMMA SafeDone == ASSUME SafeNow, rt_timer_check_done PROVE DemoSafe'
<1>1. isr' = "none" /\ UNCHANGED <<links, timer_list, current_thread, pc, fault>>
      /\ isr = "timer_check"
  BY DEF rt_timer_check_done, timers, sched
<1> QED
  BY <1>1, SafeFacts, StatesStay DEF SafeNow, DemoSafe, StatesAgree, Started, CallPlaces

\* Where a thread that runs can be in a call, and whom the call is about.
LEMMA Places ==
  ASSUME SafeNow, NEW t \in Thread, pc[t].at # "user"
  PROVE  \/ t \in {flag1, flag2} /\ pc[t] = AtSchedule
         \/ t = flag1 /\ pc[t] = At("resume_remove", flag3, "user")
         \/ t = flag1 /\ pc[t] = At("resume_insert", flag3, "user")
         \/ t = flag2 /\ pc[t] = At("close_remove", flag4, "detach")
         \/ t = flag2 /\ pc[t] = At("close_timer", flag4, "detach")
         \/ t = flag2 /\ pc[t] = At("close_stat", flag4, "detach")
         \/ t = flag2 /\ pc[t] = At("close_list", flag4, "detach")
         \/ t = flag3 /\ pc[t] = At("suspend_crit", flag3, "user")
BY DemoAssumption DEF SafeNow, DemoSafe, CallPlaces, User

LEMMA PlacesDiffer ==
  /\ User.at = "user" /\ AtSchedule.at = "schedule" /\ At("user", NoThread, "user") = User
  /\ \A l, x, k : At(l, x, k).at = l /\ At(l, x, k).arg = x /\ At(l, x, k).then = k
BY DEF User, AtSchedule, At

LEMMA CallGoesTo ==
  ASSUME SafeNow, NEW t \in Thread, NEW p, Goto(t, p)
  PROVE  pc'[t] = p /\ \A y \in Thread \ {t} : pc'[y] = pc[y]
BY SafeFacts DEF Goto

LEMMA SafeReschedule == ASSUME SafeNow, TypeOK', NEW t \in Thread, Reschedule(t) PROVE DemoSafe'
<1>1. /\ current_thread = t /\ t # NoThread /\ pc[t].at = "schedule"
      /\ rt_schedule(tlist', group') /\ Goto(t, User)
      /\ UNCHANGED <<links, timer_list, isr>>
  BY SafeFacts DEF Reschedule, Running, links, timers
<1>2. t \in {flag1, flag2} /\ pc'[t] = User /\ \A y \in Thread \ {t} : pc'[y] = pc[y]
  BY <1>1, Places, PlacesDiffer, CallGoesTo
<1>3. group' = Nonempty(tlist)' /\ InLevel(idle)'
  BY <1>1, SafeFacts DEF links, InLevel, Nonempty
<1>4. fault' = "none" /\ current_thread' # NoThread
  BY <1>1, <1>3, SafeFacts, Dispatches
<1>5. CallPlaces'
  BY <1>2, DemoAssumption DEF SafeNow, DemoSafe, CallPlaces
<1> QED
  BY <1>1, <1>2, <1>4, <1>5, StatesStay, PlacesDiffer, DemoAssumption
     DEF SafeNow, DemoSafe, StatesAgree, Started

LEMMA SafeResume ==
  ASSUME SafeNow, NEW t \in Thread, ResumeRemove(t) \/ ResumeInsert(t)
  PROVE  DemoSafe'
<1>1. /\ current_thread = t /\ t # NoThread /\ isr = "none"
      /\ UNCHANGED <<timer_list, current_thread, isr>>
  BY SafeFacts DEF ResumeRemove, ResumeInsert, Running, sched, timers
<1>2. /\ t = flag1 /\ pc[t].arg = flag3 /\ pc[t].then = "user"
      /\ pc[t].at \in {"resume_remove", "resume_insert"}
  BY Places, PlacesDiffer DEF ResumeRemove, ResumeInsert
<1>3. ~IsLinked(tlist, flag3) /\ rt_list_remove(tlist, flag3) = tlist
  <2>1. ~InLevel(flag3)
    BY <1>2, SafeFacts, DemoAssumption DEF SafeNow, DemoSafe, StatesAgree
  <2>2. ~IsLinked(tlist, flag3)
    BY <2>1, NowhereElse, DemoAssumption DEF InLevel, SafeNow
  <2> QED
    BY <2>2, SafeFacts, LevelFacts, NotLinked
<1>4. CASE ResumeRemove(t)
  <2>1. /\ UNCHANGED <<links, fault>> /\ Goto(t, At("resume_insert", flag3, "user"))
    BY <1>2, <1>3, <1>4 DEF ResumeRemove, links
  <2>2. /\ pc'[t] = At("resume_insert", flag3, "user") /\ \A y \in Thread \ {t} : pc'[y] = pc[y]
    BY <2>1, CallGoesTo
  <2>3. CallPlaces'
    BY <1>2, <2>2, DemoAssumption DEF SafeNow, DemoSafe, CallPlaces
  <2> QED
    BY <1>1, <1>2, <2>1, <2>2, <2>3, SafeFacts, StatesStay, PlacesDiffer, DemoAssumption
       DEF SafeNow, DemoSafe, StatesAgree, Started
<1>5. CASE ResumeInsert(t)
  <2>1. /\ rt_schedule_insert_thread(rt_list_remove(tlist, flag3), flag3)
        /\ fault' = fault /\ Goto(t, User)
    BY <1>2, <1>3, <1>5, PlacesDiffer DEF ResumeInsert
  <2>2. /\ group' = Nonempty(tlist)' /\ stat' = [stat EXCEPT ![flag3] = "ready"]
        /\ \A y \in Thread : InLevel(y)' <=> InLevel(y) \/ y = flag3
    BY <2>1, SafeFacts, JoinsLevel
  <2>3. pc'[t] = User /\ \A y \in Thread \ {t} : pc'[y] = pc[y]
    BY <2>1, CallGoesTo
  <2>4. CallPlaces'
    BY <1>2, <2>3, DemoAssumption DEF SafeNow, DemoSafe, CallPlaces
  <2>5. StatesAgree'
    BY <1>2, <2>2, <2>3, SafeFacts, PlacesDiffer, DemoAssumption DEF SafeNow, DemoSafe, StatesAgree
  <2>6. Started'
    BY <1>1, <2>2, SafeFacts DEF SafeNow, DemoSafe, Started
  <2> QED
    BY <2>1, <2>2, <2>4, <2>5, <2>6, SafeFacts DEF DemoSafe
<1> QED
  BY <1>4, <1>5

LEMMA SafeSuspend == ASSUME SafeNow, NEW t \in Thread, SuspendCrit(t) PROVE DemoSafe'
<1>1. /\ current_thread = t /\ t # NoThread /\ pc[t].at = "suspend_crit"
      /\ Suspend(pc[t].arg) /\ rt_timer_stop(pc[t].arg) /\ Goto(t, User)
      /\ UNCHANGED <<current_thread, isr, fault>>
  BY SafeFacts DEF SuspendCrit, Running, sched
<1>2. t = flag3 /\ pc[t].arg = flag3
  BY <1>1, Places, PlacesDiffer
<1>3. /\ group' = Nonempty(tlist)' /\ stat' = [stat EXCEPT ![flag3] = "suspend"]
      /\ \A y \in Thread : InLevel(y)' <=> InLevel(y) /\ y # flag3
  BY <1>1, <1>2, SafeFacts, LeavesLevel DEF Suspend
<1>4. pc'[t] = User /\ \A y \in Thread \ {t} : pc'[y] = pc[y]
  BY <1>1, CallGoesTo
<1>5. \A y : Contains(timer_list', y) => Contains(timer_list, y)
  BY <1>1, SafeFacts, WithoutElements DEF rt_timer_stop
<1>6. CallPlaces'
  BY <1>2, <1>4, DemoAssumption DEF SafeNow, DemoSafe, CallPlaces
<1>7. StatesAgree'
  BY <1>2, <1>3, <1>4, SafeFacts, PlacesDiffer, DemoAssumption DEF SafeNow, DemoSafe, StatesAgree
<1>8. Started'
  BY <1>1, <1>3, <1>5, SafeFacts DEF SafeNow, DemoSafe, Started
<1> QED
  BY <1>1, <1>3, <1>6, <1>7, <1>8, SafeFacts DEF DemoSafe

LEMMA SafeClose ==
  ASSUME SafeNow, NEW t \in Thread,
         CloseRemove(t) \/ CloseTimer(t) \/ CloseStat(t) \/ CloseList(t)
  PROVE  DemoSafe'
<1>1. /\ current_thread = t /\ t # NoThread /\ UNCHANGED <<current_thread, isr>>
  BY SafeFacts DEF CloseRemove, CloseTimer, CloseStat, CloseList, Running, sched
<1>2. t = flag2 /\ pc[t].arg = flag4 /\ pc[t].then = "detach"
  BY Places, PlacesDiffer DEF CloseRemove, CloseTimer, CloseStat, CloseList
<1>3. ASSUME NEW p, Goto(t, p),
             p \in {User} \cup {At(l, flag4, "detach") : l \in {"close_timer", "close_stat", "close_list"}}
      PROVE  CallPlaces' /\ pc'[t] = p /\ \A y \in Thread \ {t} : pc'[y] = pc[y]
  <2>1. pc'[t] = p /\ \A y \in Thread \ {t} : pc'[y] = pc[y]
    BY <1>3, CallGoesTo
  <2> QED
    BY <1>2, <1>3, <2>1, DemoAssumption DEF SafeNow, DemoSafe, CallPlaces
<1>4. CASE CloseRemove(t)
  <2>1. /\ rt_schedule_remove_thread(flag4) /\ UNCHANGED <<stat, timer_list, fault>>
        /\ Goto(t, At("close_timer", flag4, "detach"))
    BY <1>2, <1>4 DEF CloseRemove, timers
  <2>2. /\ group' = Nonempty(tlist)'
        /\ \A y \in Thread : InLevel(y)' <=> InLevel(y) /\ y # flag4
    BY <1>1, <2>1, SafeFacts, LeavesLevel, DemoAssumption
  <2>3. /\ CallPlaces' /\ pc'[t] = At("close_timer", flag4, "detach")
        /\ \A y \in Thread \ {t} : pc'[y] = pc[y]
    BY <1>3, <2>1
  <2>4. StatesAgree'
    BY <1>2, <2>1, <2>2, <2>3, SafeFacts, PlacesDiffer, DemoAssumption
       DEF SafeNow, DemoSafe, StatesAgree
  <2>5. Started'
    BY <1>1, <2>1, SafeFacts DEF SafeNow, DemoSafe, Started
  <2> QED
    BY <2>1, <2>2, <2>3, <2>4, <2>5, SafeFacts DEF DemoSafe
<1>5. CASE CloseTimer(t)
  <2>1. /\ UNCHANGED <<links, fault>> /\ timer_list' = Without(timer_list, flag4)
        /\ Goto(t, At("close_stat", flag4, "detach")) /\ pc[t].at = "close_timer"
    BY <1>2, <1>5 DEF CloseTimer
  <2>2. /\ CallPlaces' /\ pc'[t] = At("close_stat", flag4, "detach")
        /\ \A y \in Thread \ {t} : pc'[y] = pc[y]
    BY <1>3, <2>1
  <2>3. \A y : Contains(timer_list', y) => Contains(timer_list, y)
    BY <2>1, SafeFacts, WithoutElements
  <2> QED
    BY <1>1, <1>2, <2>1, <2>2, <2>3, SafeFacts, StatesStay, PlacesDiffer, DemoAssumption
       DEF SafeNow, DemoSafe, StatesAgree, Started
<1>6. CASE CloseStat(t)
  <2>1. /\ stat' = [stat EXCEPT ![flag4] = "close"] /\ UNCHANGED <<tlist, group, timer_list, fault>>
        /\ Goto(t, At("close_list", flag4, "detach")) /\ pc[t].at = "close_stat"
    <3>1. NumberMask(flag4) # {}
      BY <1>1, SafeFacts, DemoAssumption
    <3> QED
      BY <1>2, <1>6, <3>1 DEF CloseStat, timers
  <2>2. /\ CallPlaces' /\ pc'[t] = At("close_list", flag4, "detach")
        /\ \A y \in Thread \ {t} : pc'[y] = pc[y]
    BY <1>3, <2>1
  <2>3. /\ \A y \in Thread : InLevel(y)' <=> InLevel(y)
        /\ group' = Nonempty(tlist)'
    BY <2>1, SafeFacts DEF InLevel, Nonempty
  <2>4. StatesAgree'
    BY <1>2, <2>1, <2>2, <2>3, SafeFacts, PlacesDiffer, DemoAssumption
       DEF SafeNow, DemoSafe, StatesAgree
  <2>5. Started'
    BY <1>1, <2>1, SafeFacts DEF SafeNow, DemoSafe, Started
  <2> QED
    BY <2>1, <2>2, <2>3, <2>4, <2>5, SafeFacts DEF DemoSafe
<1>7. CASE CloseList(t)
  <2>1. /\ UNCHANGED <<links, timer_list, fault>> /\ Goto(t, User) /\ pc[t].at = "close_list"
    BY <1>2, <1>7 DEF CloseList, timers
  <2>2. /\ CallPlaces' /\ pc'[t] = User /\ \A y \in Thread \ {t} : pc'[y] = pc[y]
    BY <1>3, <2>1
  <2>3. /\ \A y \in Thread : InLevel(y)' <=> InLevel(y)
        /\ group' = Nonempty(tlist)' /\ stat' = stat
    BY <2>1, SafeFacts DEF InLevel, Nonempty, links
  <2>4. StatesAgree'
    BY <1>2, <2>1, <2>2, <2>3, SafeFacts, PlacesDiffer, DemoAssumption
       DEF SafeNow, DemoSafe, StatesAgree
  <2>5. Started'
    BY <1>1, <2>1, <2>3, SafeFacts DEF SafeNow, DemoSafe, Started
  <2> QED
    BY <2>1, <2>2, <2>3, <2>4, <2>5, SafeFacts DEF DemoSafe
<1> QED
  BY <1>4, <1>5, <1>6, <1>7

LEMMA SafeContinue == ASSUME SafeNow, TypeOK', NEW t \in Thread, Continue(t) PROVE DemoSafe'
<1>1. ~StartupResume(t)
  BY Places, PlacesDiffer DEF StartupResume
<1> QED
  BY <1>1, SafeReschedule, SafeResume, SafeSuspend, SafeClose DEF Continue

\* The timer that rt_timer_start starts is the only new one in the list.
LEMMA StartsOne ==
  ASSUME SafeNow, NEW x \in Thread, NEW d \in Delay, rt_timer_start(x, d)
  PROVE  \A y : Contains(timer_list', y) => Contains(timer_list, y) \/ y = x
<1> DEFINE l == Without(timer_list, x)
           k == InsertPosition(l, d)
<1>1. l \in Seq(Thread) /\ \A y : Contains(l, y) => Contains(timer_list, y)
  BY SafeFacts, WithoutProperties, WithoutElements
<1>2. timeout \in [Thread -> Int] /\ d \in Int
  BY ConstantsAssumption DEF SafeNow, TypeOK
<1>3. timer_list' = InsertAt(l, k, x)
  BY DEF rt_timer_start
<1> HIDE DEF l
<1>4. k \in 1 .. Len(l) + 1
  BY <1>1, <1>2, InsertPlace
<1> QED
  BY <1>1, <1>3, <1>4, InsertMembers

LEMMA SafeSleep ==
  ASSUME SafeNow, NEW t \in {flag1, flag2}, NEW d \in Delay, rt_thread_sleep(t, d)
  PROVE  DemoSafe'
<1>1. /\ current_thread = t /\ t # NoThread /\ pc[t] = User /\ rt_timer_start(t, d)
      /\ Goto(t, AtSchedule) /\ UNCHANGED <<current_thread, isr, fault>>
  BY SafeFacts DEF rt_thread_sleep, Calls, Running, sched, AtSchedule
<1>2. /\ group' = Nonempty(tlist)'
      /\ \A y \in Thread : InLevel(y)' <=> InLevel(y) /\ y # t
      /\ stat' = IF stat[t] = "ready" THEN [stat EXCEPT ![t] = "suspend"] ELSE stat
  <2>1. CASE stat[t] = "ready"
    <3>1. Suspend(t) /\ t \in Thread
      BY <2>1, DemoAssumption DEF rt_thread_sleep
    <3>2. NumberMask(t) = {Priority[t]}
      BY <1>1, <3>1, SafeFacts
    <3> QED
      BY <2>1, <3>1, <3>2, SafeFacts, LeavesLevel DEF Suspend
  <2>2. CASE stat[t] # "ready"
    <3>1. UNCHANGED links
      BY <2>2 DEF rt_thread_sleep
    <3>2. ~InLevel(t)
      BY <2>2, DemoAssumption DEF SafeNow, DemoSafe, StatesAgree
    <3> QED
      BY <2>2, <3>1, <3>2, SafeFacts DEF InLevel, Nonempty, links
  <2> QED
    BY <2>1, <2>2
<1>3. pc'[t] = AtSchedule /\ \A y \in Thread \ {t} : pc'[y] = pc[y]
  BY <1>1, CallGoesTo, DemoAssumption
<1>4. CallPlaces'
  BY <1>3, DemoAssumption DEF SafeNow, DemoSafe, CallPlaces
<1>5. StatesAgree'
  BY <1>1, <1>2, <1>3, SafeFacts, PlacesDiffer, DemoAssumption DEF SafeNow, DemoSafe, StatesAgree
<1>6. \A y \in Thread : Contains(timer_list', y) => y \in {flag1, flag2}
  BY <1>1, StartsOne, DemoAssumption DEF SafeNow, DemoSafe, Started
<1>7. \A x \in Thread : stat[x] # "init" /\ stat'[x] # "init"
  BY <1>1, <1>2, SafeFacts DEF SafeNow, DemoSafe, Started
<1>8. Started'
  BY <1>1, <1>6, <1>7, SafeFacts DEF SafeNow, DemoSafe, Started
<1> QED
  BY <1>1, <1>2, <1>4, <1>5, <1>8, SafeFacts DEF DemoSafe

\* A call that only tests something: at its first step the lists stay.
LEMMA SafeGo ==
  ASSUME SafeNow, NEW t \in Thread, NEW p, Goto(t, p), current_thread = t,
         UNCHANGED <<links, timer_list, current_thread, isr, fault>>, pc[t] = User,
         \/ p = User
         \/ p = AtSchedule /\ t \in {flag1, flag2}
         \/ p = At("resume_remove", flag3, "user") /\ t = flag1 /\ stat[flag3] = "suspend"
         \/ p = At("suspend_crit", flag3, "user") /\ t = flag3 /\ stat[flag3] = "ready"
         \/ p = At("close_remove", flag4, "detach") /\ t = flag2
  PROVE  DemoSafe'
<1>1. pc'[t] = p /\ \A y \in Thread \ {t} : pc'[y] = pc[y]
  BY CallGoesTo
<1>2. CallPlaces'
  BY <1>1, DemoAssumption DEF SafeNow, DemoSafe, CallPlaces
<1>3. /\ pc'[flag1].at \in {"resume_remove", "resume_insert"} => stat[flag3] = "suspend"
      /\ pc'[flag3].at = "suspend_crit" => stat[flag3] = "ready"
      /\ pc'[flag2].at = "close_list" <=> pc[flag2].at = "close_list"
      /\ pc'[flag2].at \in {"close_timer", "close_stat"}
           <=> pc[flag2].at \in {"close_timer", "close_stat"}
  BY <1>1, PlacesDiffer, DemoAssumption DEF SafeNow, DemoSafe, StatesAgree
<1>4. current_thread # NoThread
  BY SafeFacts
<1>5. (\A x \in Thread : stat[x] # "init") /\ isr \in {"none", "timer_check"}
  BY <1>4 DEF SafeNow, DemoSafe, Started
<1> QED
  BY <1>2, <1>3, <1>4, <1>5, SafeFacts, StatesStay

LEMMA SafeCall == ASSUME SafeNow, NEW t \in Thread, KernelCall(t) PROVE DemoSafe'
<1>1. ASSUME Executes(t, "resume"), rt_thread_resume(t, Now(t).arg) PROVE DemoSafe'
  <2>1. t = flag1 /\ Now(t).arg = flag3
    BY <1>1, Statements DEF SafeNow, Executes
  <2> QED
    BY <1>1, <2>1, SafeGo, PlacesDiffer
       DEF rt_thread_resume, CheckSuspended, Calls, Running, timers, sched
<1>2. ASSUME Executes(t, "suspend"), rt_thread_suspend(t, Now(t).arg) PROVE DemoSafe'
  <2>1. t = flag3 /\ Now(t).arg = flag3
    BY <1>2, Statements DEF SafeNow, Executes
  <2> QED
    BY <1>2, <2>1, SafeGo DEF rt_thread_suspend, Calls, Running, timers, sched
<1>3. ASSUME Executes(t, "lock"), rt_enter_critical(t) PROVE DemoSafe'
  <2>1. /\ current_thread = t /\ pc[t] = User /\ pc' = pc
        /\ UNCHANGED <<links, timer_list, current_thread, isr, fault>>
    BY <1>3 DEF rt_enter_critical, Calls, Running, timers
  <2>2. Goto(t, User)
    BY <2>1, SafeFacts DEF Goto
  <2> QED
    BY <2>1, <2>2, SafeGo
<1>4. ASSUME Executes(t, "unlock"), rt_exit_critical(t) PROVE DemoSafe'
  <2>1. t \in {flag1, flag2}
    BY <1>4, Statements DEF SafeNow, Executes
  <2> QED
    BY <1>4, <2>1, SafeGo DEF rt_exit_critical, Calls, Running, timers, AtSchedule
<1>5. ASSUME Executes(t, "sleep"), rt_thread_sleep(t, Now(t).arg) PROVE DemoSafe'
  <2>1. t \in {flag1, flag2}
    BY <1>5, Statements DEF SafeNow, Executes
  <2> QED
    BY <1>5, <2>1, SafeSleep DEF rt_thread_sleep
<1> QED
  BY <1>1, <1>2, <1>3, <1>4, <1>5 DEF KernelCall

LEMMA SafeDetach == ASSUME SafeNow, NEW t \in Thread, TestAndDetach(t) PROVE DemoSafe'
<1>1. CASE UNCHANGED vars
  <2>1. UNCHANGED <<links, timer_list, current_thread, isr, pc, fault>>
    BY <1>1 DEF vars, timers, sched
  <2> QED
    BY <2>1, SafeFacts, StatesStay DEF SafeNow, DemoSafe, StatesAgree, Started, CallPlaces
<1>2. CASE Executes(t, "detach") /\ rt_thread_detach(t, Now(t).arg)
  <2>1. t = flag2 /\ Now(t).arg = flag4
    BY <1>2, Statements DEF SafeNow, Executes
  <2>2. current_thread = t /\ stat[flag4] # "init"
    BY <1>2, <2>1, SafeFacts DEF rt_thread_detach, CloseThread, Calls, Running, SafeNow, DemoSafe, Started
  <2> QED
    BY <1>2, <2>1, <2>2, SafeGo DEF rt_thread_detach, CloseThread, Calls, timers, sched
<1> QED
  BY <1>1, <1>2 DEF TestAndDetach

LEMMA SafeStep ==
  ASSUME TypeOK, TypeOK', ListInv, TimerInv, Lines, DemoSafe, [DemoNext]_demoVars
  PROVE  DemoSafe'
<1>1. SafeNow
  BY DEF SafeNow
<1>2. CASE UNCHANGED vars
  <2>1. UNCHANGED <<links, timer_list, current_thread, isr, pc, fault>>
    BY <1>2 DEF vars, timers, sched
  <2> QED
    BY <1>1, <2>1, SafeFacts, StatesStay DEF SafeNow, DemoSafe, StatesAgree, Started, CallPlaces
<1>3. CASE DemoTick
  BY <1>1, <1>3, SafeTick, SafeTimeout, SafeDone DEF DemoTick, SysTick
<1>4. ASSUME NEW t \in Thread, DemoStep(t) PROVE DemoSafe'
  <2>1. ReadCounter(t) \/ WriteCounter(t) => UNCHANGED vars
    BY DEF ReadCounter, WriteCounter
  <2> QED
    BY <1>1, <1>2, <1>4, <2>1, SafeCall, SafeDetach, SafeContinue DEF DemoStep, ContinueCall
<1> QED
  BY <1>1, <1>2, <1>3, <1>4, SafeBoot DEF DemoNext, demoVars

LEMMA SafeInvariant == DemoSpec => []DemoSafe
<1>1. DemoInit => DemoSafe
  <2> SUFFICES ASSUME DemoInit PROVE DemoSafe
    OBVIOUS
  <2>1. /\ tlist = [h \in ListHead |-> <<>>] /\ group = {} /\ current_thread = NoThread
        /\ stat = [t \in Thread |-> "init"] /\ pc = [t \in Thread |-> User]
        /\ timer_list = <<>> /\ isr = "none" /\ fault = "none"
    BY DEF DemoInit, Init, rt_system_scheduler_init, rt_thread_init, rt_timer_init
  <2>2. (\A x \in Thread : Priority[x] \in ListHead) /\ Prio \subseteq ListHead
    BY ConstantsAssumption DEF ListHead
  <2>3. (\A x \in Thread : ~InLevel(x) /\ ~Contains(timer_list, x)) /\ group = Nonempty(tlist)
    BY <2>1, <2>2 DEF InLevel, Contains, Nonempty
  <2>4. CallPlaces
    BY <2>1, DemoAssumption DEF CallPlaces
  <2> QED
    BY <2>1, <2>3, <2>4, DemoAssumption, PlacesDiffer DEF DemoSafe, StatesAgree, Started
<1>2. TypeOK /\ TypeOK' /\ ListInv /\ TimerInv /\ Lines /\ DemoSafe /\ [DemoNext]_demoVars
        => DemoSafe'
  BY SafeStep
<1> QED
  BY <1>1, <1>2, DemoIsAnApplication, TypeCorrect, ListsAndBitmap, TimerInvariant, LinesInvariant,
     PTL DEF DemoSpec

\* main.c never makes the kernel link a node twice or run a thread of an empty level.
THEOREM DemoNeverFaults == DemoSpec => []NoFault
<1>1. DemoSafe => NoFault
  BY DEF DemoSafe, NoFault
<1> QED
  BY <1>1, SafeInvariant, PTL

\* In main.c a thread about which no call is under way is READY exactly when
\* it is in the ready list of its priority.
THEOREM DemoStatesMatchLists == DemoSpec => []ReadyIffListed
<1>1. DemoSafe => ReadyIffListed
  <2> SUFFICES ASSUME DemoSafe, NEW x \in Thread, ~InTransit(x)
               PROVE  stat[x] = "ready" <=> Contains(tlist[Priority[x]], x)
    BY DEF ReadyIffListed
  <2>1. x = flag4 => pc[flag2].at \notin {"close_timer", "close_stat"}
    BY DemoAssumption, PlacesDiffer DEF DemoSafe, CallPlaces, InTransit
  <2> QED
    BY <2>1 DEF DemoSafe, StatesAgree, InLevel
<1> QED
  BY <1>1, SafeInvariant, PTL

\* The thread that flag2 detaches is in no list of threads afterwards: nobody
\* resumes it meanwhile and it has no timer that would.
THEOREM DetachedStaysOut == DemoSpec => []ClosedStaysOut
<1>1. TypeOK /\ ListInv /\ DemoSafe => ClosedStaysOut
  <2> SUFFICES ASSUME TypeOK, ListInv, DemoSafe, NEW x \in Thread,
                      stat[x] \in {"close", "close_init"}
               PROVE  ~IsLinked(tlist, x)
    BY DEF ClosedStaysOut
  <2>1. ~Contains(tlist[Priority[x]], x)
    BY DEF DemoSafe, StatesAgree, InLevel
  <2> QED
    BY <2>1, NowhereElse
<1> QED
  BY <1>1, SafeInvariant, DemoIsAnApplication, TypeCorrect, ListsAndBitmap, PTL

-----------------------------------------------------------------------------
(* The object container.                                                   *)

Object == Thread \cup {container}
Heap == [next : [Object -> Object], prev : [Object -> Object]]

\* rt_list_insert_after behind the head, of a node that is alone.
LEMMA ObjectInserted ==
  ASSUME NEW r \in Heap, List!Rings(r), NEW x \in Thread, r.next[x] = x
  PROVE  LET q == List!rt_list_insert_after(r, container, x) IN
         /\ q \in Heap /\ List!Rings(q)
         /\ q.next[x] = r.next[container] /\ r.next[container] # x
         /\ \A y \in Thread \ {x} : q.next[y] = r.next[y] /\ r.next[y] # x
<1> DEFINE q == List!rt_list_insert_after(r, container, x)
           m == r.next[container]
<1>1. /\ r.next \in [Object -> Object] /\ r.prev \in [Object -> Object]
      /\ x \in Object /\ container \in Object /\ container # x /\ m \in Object
  BY DemoAssumption DEF Heap, Object
<1>2. \A n \in Object : r.prev[r.next[n]] = n /\ r.next[r.prev[n]] = n
  BY <1>1 DEF List!Rings
<1>3. r.prev[x] = x /\ m # x /\ \A y \in Object \ {x} : r.next[y] # x /\ r.prev[y] # x
  BY <1>1, <1>2
<1>4. /\ q.next = [r.next EXCEPT ![x] = m, ![container] = x]
      /\ q.prev = [r.prev EXCEPT ![m] = x, ![x] = container]
      /\ q = [next |-> q.next, prev |-> q.prev]
  BY DEF List!rt_list_insert_after
<1> HIDE DEF q
<1>5. q.next \in [Object -> Object] /\ q.prev \in [Object -> Object]
  BY <1>1, <1>4
<1>6. /\ q.next[x] = m /\ q.next[container] = x
      /\ \A n \in Object \ {x, container} : q.next[n] = r.next[n]
      /\ q.prev[m] = x /\ q.prev[x] = container
      /\ \A n \in Object \ {x, m} : q.prev[n] = r.prev[n]
  BY <1>1, <1>3, <1>4
<1>7. ASSUME NEW n \in Object PROVE q.prev[q.next[n]] = n /\ q.next[q.prev[n]] = n
  <2>1. CASE n = x
    BY <1>6, <2>1
  <2>2. CASE n # x
    <3>1. q.prev[q.next[n]] = n
      BY <1>1, <1>2, <1>3, <1>6, <2>2
    <3>2. q.next[q.prev[n]] = n
      BY <1>1, <1>2, <1>3, <1>6, <2>2
    <3> QED
      BY <3>1, <3>2
  <2> QED
    BY <2>1, <2>2
<1>8. q \in Heap /\ List!Rings(q)
  BY <1>4, <1>5, <1>7 DEF Heap, List!Rings
<1>9. \A y \in Thread \ {x} : q.next[y] = r.next[y] /\ r.next[y] # x
  BY <1>3, <1>6, DemoAssumption DEF Object
<1> QED
  BY <1>3, <1>6, <1>8, <1>9 DEF q

\* rt_list_remove: the neighbours are linked to each other.
LEMMA ObjectRemoved ==
  ASSUME NEW r \in Heap, List!Rings(r), NEW x \in Thread
  PROVE  LET q == List!rt_list_remove(r, x) IN
         /\ q \in Heap /\ List!Rings(q) /\ q.next[x] = x
         /\ \A y \in Thread \ {x} : q.next[y] = IF r.next[y] = x THEN r.next[x] ELSE r.next[y]
<1> DEFINE q == List!rt_list_remove(r, x)
           a == r.prev[x]
           b == r.next[x]
<1>1. /\ r.next \in [Object -> Object] /\ r.prev \in [Object -> Object]
      /\ x \in Object /\ a \in Object /\ b \in Object
  BY DEF Heap, Object
<1>2. \A n \in Object : r.prev[r.next[n]] = n /\ r.next[r.prev[n]] = n
  BY <1>1 DEF List!Rings
<1>3. /\ a = x <=> b = x
      /\ \A y \in Object : (r.next[y] = x <=> y = a) /\ (r.prev[y] = x <=> y = b)
  BY <1>1, <1>2
<1>4. /\ q.next = [r.next EXCEPT ![a] = b, ![x] = x]
      /\ q.prev = [r.prev EXCEPT ![b] = a, ![x] = x]
      /\ q = [next |-> q.next, prev |-> q.prev]
  BY DEF List!rt_list_remove
<1> HIDE DEF q
<1>5. q.next \in [Object -> Object] /\ q.prev \in [Object -> Object]
  BY <1>1, <1>4
<1>6. /\ q.next[x] = x /\ q.prev[x] = x
      /\ a # x => q.next[a] = b /\ q.prev[b] = a
      /\ \A n \in Object \ {x, a} : q.next[n] = r.next[n]
      /\ \A n \in Object \ {x, b} : q.prev[n] = r.prev[n]
  BY <1>1, <1>3, <1>4
<1>7. ASSUME NEW n \in Object PROVE q.prev[q.next[n]] = n /\ q.next[q.prev[n]] = n
  <2>1. CASE n = x
    BY <1>6, <2>1
  <2>2. CASE n # x
    <3>1. q.prev[q.next[n]] = n
      BY <1>1, <1>2, <1>3, <1>6, <2>2
    <3>2. q.next[q.prev[n]] = n
      BY <1>1, <1>2, <1>3, <1>6, <2>2
    <3> QED
      BY <3>1, <3>2
  <2> QED
    BY <2>1, <2>2
<1>8. q \in Heap /\ List!Rings(q)
  BY <1>4, <1>5, <1>7 DEF Heap, List!Rings
<1>9. \A y \in Thread \ {x} : q.next[y] = IF r.next[y] = x THEN r.next[x] ELSE r.next[y]
  BY <1>3, <1>6 DEF Object
<1> QED
  BY <1>6, <1>8, <1>9 DEF q

\* The ring is sound and leads down to its head: rank says how far it is.  So
\* all its nodes are in one ring, and one that leaves leaves no other alone.
LeadsDown(rank) ==
    \A n \in Thread : InContainer(n) => rank[objects.next[n]] < rank[n]
Leads == \E rank \in [Object -> Nat] : LeadsDown(rank)
ContainerSound == objects \in Heap /\ List!Rings(objects) /\ Leads

LEMMA ContainerGains ==
  ASSUME ContainerSound, NEW x \in Thread, ~InContainer(x),
         objects' = List!rt_list_insert_after(objects, container, x)
  PROVE  ContainerSound' /\ \A y \in Thread : InContainer(y)' <=> InContainer(y) \/ y = x
<1> DEFINE m == objects.next[container]
<1>1. /\ objects' \in Heap /\ List!Rings(objects') /\ objects'.next[x] = m /\ m # x /\ m \in Object
      /\ \A y \in Thread \ {x} : objects'.next[y] = objects.next[y] /\ objects.next[y] # x
  BY ObjectInserted DEF ContainerSound, InContainer, Heap, Object
<1>2. PICK rank \in [Object -> Nat] : LeadsDown(rank)
  BY DEF ContainerSound, Leads
<1>3. PICK up \in [Object -> Nat] :
         /\ up[x] = rank[m] + 1 /\ rank[m] \in Nat
         /\ \A y \in Object \ {x} : up[y] = rank[y]
  <2> DEFINE w == [rank EXCEPT ![x] = rank[m] + 1]
  <2>1. w \in [Object -> Nat] /\ w[x] = rank[m] + 1 /\ rank[m] \in Nat
        /\ \A y \in Object \ {x} : w[y] = rank[y]
    BY <1>1 DEF Object
  <2> QED
    BY <2>1
<1>4. \A y \in Thread : InContainer(y)' <=> InContainer(y) \/ y = x
  BY <1>1 DEF InContainer
<1>5. ASSUME NEW y \in Thread, InContainer(y)' PROVE up[objects'.next[y]] < up[y]
  <2>1. CASE y = x
    BY <1>1, <1>3, <2>1
  <2>2. CASE y # x
    <3>1. /\ objects'.next[y] = objects.next[y] /\ objects.next[y] \in Object \ {x}
          /\ rank[objects.next[y]] < rank[y] /\ y \in Object
      BY <1>1, <1>2, <1>4, <1>5, <2>2 DEF LeadsDown, ContainerSound, Heap, Object
    <3> QED
      BY <1>3, <2>2, <3>1
  <2> QED
    BY <2>1, <2>2
<1>6. LeadsDown(up)'
  BY <1>5 DEF LeadsDown
<1> QED
  BY <1>1, <1>3, <1>4, <1>6 DEF ContainerSound, Leads, LeadsDown, InContainer

LEMMA ContainerLoses ==
  ASSUME ContainerSound, NEW x \in Thread, objects' = List!rt_list_remove(objects, x)
  PROVE  ContainerSound' /\ \A y \in Thread : InContainer(y)' <=> InContainer(y) /\ y # x
<1>1. /\ objects' \in Heap /\ List!Rings(objects') /\ objects'.next[x] = x
      /\ \A y \in Thread \ {x} : objects'.next[y] =
            IF objects.next[y] = x THEN objects.next[x] ELSE objects.next[y]
      /\ objects.next \in [Object -> Object] /\ objects.prev \in [Object -> Object]
  BY ObjectRemoved DEF ContainerSound, Heap
<1>2. PICK rank \in [Object -> Nat] : LeadsDown(rank)
  BY DEF ContainerSound, Leads
<1>3. \A y \in Object : rank[y] \in Nat /\ objects.next[y] \in Object
  BY <1>1, <1>2
<1>4. ASSUME NEW y \in Thread \ {x}
      PROVE  /\ InContainer(y)' <=> InContainer(y)
             /\ InContainer(y) => rank[objects'.next[y]] < rank[y]
  <2>1. CASE objects.next[y] # x
    BY <1>1, <1>2, <2>1 DEF InContainer, LeadsDown
  <2>2. CASE objects.next[y] = x
    <3>1. InContainer(y) /\ objects'.next[y] = objects.next[x] /\ rank[x] < rank[y]
      BY <1>1, <1>2, <2>2 DEF InContainer, LeadsDown
    <3>2. objects.prev[x] = y
      BY <1>1, <2>2 DEF ContainerSound, List!Rings, Object
    <3>3. objects.next[x] # x
      BY <1>1, <3>2 DEF ContainerSound, List!Rings, Object
    <3>4. rank[objects.next[x]] < rank[x]
      BY <1>2, <3>3 DEF LeadsDown, InContainer
    <3>5. rank[objects.next[x]] < rank[y]
      BY <1>3, <3>1, <3>4 DEF Object
    <3>6. objects.next[x] # y
      BY <1>3, <3>5 DEF Object
    <3> QED
      BY <3>1, <3>5, <3>6 DEF InContainer
  <2> QED
    BY <2>1, <2>2
<1>5. \A y \in Thread : InContainer(y)' <=> InContainer(y) /\ y # x
  BY <1>1, <1>4 DEF InContainer
<1>6. \A y \in Thread : objects'.next[y] # y => rank[objects'.next[y]] < rank[y]
  BY <1>1, <1>4 DEF InContainer
<1> QED
  BY <1>1, <1>2, <1>5, <1>6 DEF ContainerSound, Leads, LeadsDown, InContainer

\* Whom the container holds: the threads that were initialised and, until
\* rt_thread_detach is done, the one it closes.
Closing == {"close_remove", "close_timer", "close_stat", "close_list"}
Holds ==
    \A x \in Thread :
        /\ stat[x] = "init" => ~InContainer(x)
        /\ stat[x] \in {"ready", "suspend"} => InContainer(x)
        /\ stat[x] = "close" /\ InContainer(x) => pc[flag2].at \in Closing
ContainerInv == ContainerSound /\ Holds

\* A step that takes no thread in or out and initialises or closes none.
LEMMA ContainerStays ==
  ASSUME ContainerInv, objects' = objects,
         \A x \in Thread : \/ stat'[x] = stat[x]
                           \/ {stat[x], stat'[x]} \subseteq {"ready", "suspend"},
         pc[flag2].at \in Closing => pc'[flag2].at \in Closing
  PROVE  ContainerInv'
<1>1. ContainerSound' /\ \A x \in Thread : InContainer(x)' <=> InContainer(x)
  BY DEF ContainerInv, ContainerSound, Leads, LeadsDown, InContainer
<1> QED
  BY <1>1 DEF ContainerInv, Holds

\* The steps of the threads but for the last two of rt_thread_detach.
LEMMA ThreadStepKeeps ==
  ASSUME SafeNow, ContainerInv, objects' = objects, NEW t \in Thread,
         KernelCall(t) \/ TestAndDetach(t) \/ Continue(t),
         ~CloseStat(t), ~CloseList(t)
  PROVE  ContainerInv'
<1>1. /\ \A x \in Thread : \/ stat'[x] = stat[x]
                           \/ {stat[x], stat'[x]} \subseteq {"ready", "suspend"}
      /\ pc[flag2].at \in Closing => pc'[flag2].at \in Closing
  <2>1. CASE ResumeInsert(t)
    <3>0. t = flag1 /\ pc[t].arg = flag3 /\ pc[t].at = "resume_insert"
      BY <2>1, Places, PlacesDiffer DEF ResumeInsert
    <3>1. /\ t = flag1 /\ stat[flag3] = "suspend"
          /\ stat' = [stat EXCEPT ![flag3] = "ready"] /\ Goto(t, At(pc[t].then, NoThread, "user"))
      BY <2>1, <3>0 DEF ResumeInsert, rt_schedule_insert_thread, SafeNow, DemoSafe, StatesAgree
    <3>2. pc'[flag2] = pc[flag2]
      BY <3>1, CallGoesTo, DemoAssumption
    <3> QED
      BY <3>1, <3>2, SafeFacts
  <2>2. CASE SuspendCrit(t)
    <3>0. t = flag3 /\ pc[t].arg = flag3 /\ pc[t].at = "suspend_crit"
      BY <2>2, Places, PlacesDiffer DEF SuspendCrit
    <3>1. /\ t = flag3 /\ stat[flag3] = "ready"
          /\ stat' = [stat EXCEPT ![flag3] = "suspend"] /\ Goto(t, User)
      BY <2>2, <3>0 DEF SuspendCrit, Suspend, SafeNow, DemoSafe, StatesAgree
    <3>2. pc'[flag2] = pc[flag2]
      BY <3>1, CallGoesTo, DemoAssumption
    <3> QED
      BY <3>1, <3>2, SafeFacts
  <2>3. CASE CloseRemove(t) \/ CloseTimer(t)
    <3>1. /\ stat' = stat
          /\ \/ Goto(t, At("close_timer", pc[t].arg, pc[t].then))
             \/ Goto(t, At("close_stat", pc[t].arg, pc[t].then))
      BY <2>3 DEF CloseRemove, CloseTimer, links
    <3>2. t = flag2
      BY <2>3, Places, PlacesDiffer DEF CloseRemove, CloseTimer
    <3>3. pc'[flag2].at \in Closing
      BY <3>1, <3>2, CallGoesTo, PlacesDiffer DEF Closing
    <3> QED
      BY <3>1, <3>3
  <2>4. CASE Reschedule(t) \/ ResumeRemove(t)
    <3>1. stat' = stat /\ pc[t].at \in {"schedule", "resume_remove"} /\ \E p : Goto(t, p)
      BY <2>4 DEF Reschedule, ResumeRemove, links
    <3>2. pc[flag2].at \in Closing => pc'[flag2] = pc[flag2]
      BY <3>1, CallGoesTo, DemoAssumption DEF Closing
    <3> QED
      BY <3>1, <3>2
  <2>5. CASE KernelCall(t) \/ TestAndDetach(t)
    <3>1. pc[t] = User
      BY <2>5 DEF KernelCall, TestAndDetach, Executes
    <3>2. pc' = pc \/ \E p : Goto(t, p)
      BY <2>5 DEF KernelCall, TestAndDetach, rt_thread_resume, CheckSuspended, rt_thread_suspend,
         rt_enter_critical, rt_exit_critical, rt_thread_sleep, rt_thread_detach, CloseThread, vars
    <3>3. pc[flag2].at \in Closing => pc'[flag2] = pc[flag2]
      BY <3>1, <3>2, CallGoesTo, PlacesDiffer, DemoAssumption DEF Closing
    <3>4. stat' = stat \/ (stat[t] = "ready" /\ stat' = [stat EXCEPT ![t] = "suspend"])
      BY <2>5 DEF KernelCall, TestAndDetach, rt_thread_resume, rt_thread_suspend, rt_enter_critical,
         rt_exit_critical, rt_thread_sleep, Suspend, rt_thread_detach, CloseThread, vars, links
    <3> QED
      BY <3>3, <3>4, SafeFacts
  <2>6. ~StartupResume(t)
    BY Places, PlacesDiffer DEF StartupResume
  <2> QED
    BY <2>1, <2>2, <2>3, <2>4, <2>5, <2>6 DEF Continue
<1> QED
  BY <1>1, ContainerStays

LEMMA ContainerStep ==
  ASSUME SafeNow, ContainerInv, [DemoNext]_demoVars
  PROVE  ContainerInv'
<1>1. ASSUME NEW x \in Thread, BootStartup(x),
             objects' = List!rt_list_insert_after(objects, container, x)
      PROVE  ContainerInv'
  <2>1. /\ stat[x] = "init" /\ stat' = [stat EXCEPT ![x] = "ready"] /\ pc' = pc
    BY <1>1 DEF BootStartup, rt_schedule_insert_thread
  <2>2. ~InContainer(x)
    BY <2>1 DEF ContainerInv, Holds
  <2>3. ContainerSound' /\ \A y \in Thread : InContainer(y)' <=> InContainer(y) \/ y = x
    BY <1>1, <2>2, ContainerGains DEF ContainerInv
  <2> QED
    BY <2>1, <2>3, SafeFacts DEF ContainerInv, Holds
<1>2. CASE UNCHANGED <<stat, pc, objects>>
  BY <1>2, ContainerStays
<1>3. ASSUME rt_thread_timeout, objects' = objects PROVE ContainerInv'
  <2> DEFINE x == Head(timer_list)
  <2>1. /\ timer_list # <<>> /\ isr = "timer_check" /\ pc' = pc
        /\ stat' = [stat EXCEPT ![x] = "ready"]
    BY <1>3 DEF rt_thread_timeout, Expired, rt_schedule_insert_thread
  <2>2. x \in Thread /\ x \in {flag1, flag2} /\ stat[x] # "init"
    BY <2>1, SafeFacts, HeadIsMember DEF SafeNow, DemoSafe, Started
  <2>3. stat[x] \in {"ready", "suspend"}
    BY <2>2, SafeFacts, DemoAssumption DEF SafeNow, DemoSafe, StatesAgree, Stat
  <2> HIDE DEF x
  <2> QED
    BY <1>3, <2>1, <2>3, SafeFacts, ContainerStays
<1>4. CASE DemoTick
  <2>1. rt_tick_increase \/ rt_timer_check_done => UNCHANGED <<stat, pc>>
    BY DEF rt_tick_increase, MoveToTail, rt_timer_check_done, links
  <2> QED
    BY <1>2, <1>3, <1>4, <2>1 DEF DemoTick, SysTick
<1>5. CASE DemoBoot
  <2>1. \A i \in DOMAIN BootOrder : BootOrder[i] \in Thread
    BY DemoAssumption DEF BootOrder
  <2>2. rt_system_scheduler_start => UNCHANGED <<stat, pc>>
    BY DEF rt_system_scheduler_start, links
  <2> QED
    BY <1>1, <1>2, <1>5, <2>1, <2>2 DEF DemoBoot, BootNext
<1>6. ASSUME NEW t \in Thread, CloseStat(t), ContinueCall(t) PROVE ContainerInv'
  <2>1. /\ t = flag2 /\ pc[t] = At("close_stat", flag4, "detach")
    BY <1>6, Places, PlacesDiffer DEF CloseStat
  <2>2. /\ stat' = [stat EXCEPT ![flag4] = "close"] /\ objects' = objects
        /\ Goto(t, At("close_list", flag4, "detach"))
    <3>1. pc[t].at = "close_stat" /\ pc[t].arg = flag4 /\ pc[t].then = "detach"
      BY <2>1, PlacesDiffer
    <3>2. NumberMask(flag4) # {}
      BY <1>6, SafeFacts, DemoAssumption DEF CloseStat, Running
    <3> QED
      BY <1>6, <3>1, <3>2 DEF CloseStat, ContinueCall, rt_object_detach
  <2>3. pc'[flag2].at \in Closing
    BY <2>1, <2>2, CallGoesTo, PlacesDiffer DEF Closing
  <2>4. ContainerSound' /\ \A x \in Thread : InContainer(x)' <=> InContainer(x)
    BY <2>2 DEF ContainerInv, ContainerSound, Leads, LeadsDown, InContainer
  <2> QED
    BY <2>2, <2>3, <2>4, SafeFacts DEF ContainerInv, Holds
<1>7. ASSUME NEW t \in Thread, CloseList(t), ContinueCall(t) PROVE ContainerInv'
  <2>1. /\ t = flag2 /\ pc[t] = At("close_list", flag4, "detach")
    BY <1>7, Places, PlacesDiffer DEF CloseList
  <2>2. /\ stat' = stat /\ objects' = List!rt_list_remove(objects, flag4)
    BY <1>7, <2>1, PlacesDiffer DEF CloseList, ContinueCall, rt_object_detach, links
  <2>3. stat[flag4] = "close" /\ \A x \in Thread : stat[x] = "close" => x = flag4
    BY <2>1, PlacesDiffer DEF SafeNow, DemoSafe, StatesAgree
  <2>4. ContainerSound' /\ \A x \in Thread : InContainer(x)' <=> InContainer(x) /\ x # flag4
    BY <2>2, ContainerLoses, DemoAssumption DEF ContainerInv
  <2> QED
    BY <2>2, <2>3, <2>4 DEF ContainerInv, Holds
<1>8. ASSUME NEW t \in Thread, DemoStep(t), ~CloseStat(t), ~CloseList(t) PROVE ContainerInv'
  <2>1. ReadCounter(t) \/ WriteCounter(t) => UNCHANGED <<stat, pc, objects>>
    BY DEF ReadCounter, WriteCounter, vars, links
  <2>2. ContinueCall(t) => Continue(t) /\ objects' = objects
    <3>1. ASSUME ContinueCall(t), pc[t].at = "close_list" PROVE CloseList(t)
      BY <3>1 DEF ContinueCall, Continue, Reschedule, ResumeRemove, ResumeInsert, StartupResume,
         SuspendCrit, CloseRemove, CloseTimer, CloseStat
    <3> QED
      BY <1>8, <3>1 DEF ContinueCall, rt_object_detach
  <2>3. KernelCall(t) \/ TestAndDetach(t) => objects' = objects
    BY DEF KernelCall, TestAndDetach
  <2> QED
    BY <1>2, <1>8, <2>1, <2>2, <2>3, ThreadStepKeeps DEF DemoStep
<1>9. ASSUME NEW t \in Thread, DemoStep(t), CloseStat(t) \/ CloseList(t) PROVE ContinueCall(t)
  <2>1. pc[t].at \in {"close_stat", "close_list"}
    BY <1>9 DEF CloseStat, CloseList
  <2>2. pc[t] # User
    BY <2>1, PlacesDiffer
  <2> QED
    BY <1>9, <2>2 DEF DemoStep, KernelCall, TestAndDetach, ReadCounter, WriteCounter, Executes
<1>10. CASE UNCHANGED demoVars
  BY <1>2, <1>10 DEF demoVars, vars, links
<1> QED
  BY <1>4, <1>5, <1>6, <1>7, <1>8, <1>9, <1>10 DEF DemoNext

\* The container's ring is sound and holds the threads that were initialised and
\* not detached: for any slices and delays, wherever an interrupt comes in.
THEOREM ContainerIsRight == DemoSpec => []ContainerMatches
<1>1. DemoInit => ContainerInv
  <2> SUFFICES ASSUME DemoInit PROVE ContainerInv
    OBVIOUS
  <2>1. /\ objects = [next |-> [n \in Object |-> n], prev |-> [n \in Object |-> n]]
        /\ stat = [t \in Thread |-> "init"]
    BY DEF DemoInit, List!rt_list_init, Init, rt_thread_init, Object
  <2>2. /\ objects \in Heap /\ List!Rings(objects) /\ \A x \in Thread : ~InContainer(x)
    BY <2>1 DEF Heap, List!Rings, InContainer, Object
  <2>3. [n \in Object |-> 0] \in [Object -> Nat]
    OBVIOUS
  <2>4. Leads
    BY <2>2, <2>3 DEF Leads, LeadsDown
  <2> QED
    BY <2>1, <2>2, <2>4 DEF ContainerInv, ContainerSound, Holds
<1>2. TypeOK /\ ListInv /\ TimerInv /\ Lines /\ DemoSafe /\ ContainerInv /\ [DemoNext]_demoVars
        => ContainerInv'
  BY ContainerStep DEF SafeNow
<1>3. DemoSafe /\ ContainerInv => ContainerMatches
  <2> SUFFICES ASSUME DemoSafe, ContainerInv PROVE ContainerMatches
    OBVIOUS
  <2>1. pc[flag2].at \in Closing => pc[flag2].arg = flag4
    BY PlacesDiffer, DemoAssumption DEF DemoSafe, CallPlaces, Closing
  <2>2. \A x \in Thread : stat[x] = "close" /\ InContainer(x) => InTransit(x)
    BY <2>1, DemoAssumption DEF ContainerInv, Holds, DemoSafe, StatesAgree, InTransit
  <2> QED
    BY <2>2 DEF ContainerInv, ContainerSound, Holds, ContainerMatches
<1> QED
  BY <1>1, <1>2, <1>3, SafeInvariant, DemoIsAnApplication, TypeCorrect, ListsAndBitmap,
     TimerInvariant, LinesInvariant, PTL DEF DemoSpec

=============================================================================
