--------------------------- MODULE RtTimers_proofs ---------------------------
(* Proofs about the thread timers and the scheduler lock of RtKernel.       *)
EXTENDS RtKernel_proofs

\* The order of the timer list is inductive only if no timer is in it twice:
\* rt_timer_start changes the expiry of a timer it has just taken out.
TimerInv == Distinct(timer_list) /\ TimersSorted /\ NoneOverdue

\* Taking a timer out keeps the order.
LEMMA SortedWithout ==
  ASSUME TypeOK, TimerInv, NEW x
  PROVE  LET l == Without(timer_list, x) IN
         /\ l \in Seq(Thread) /\ Distinct(l) /\ ~Contains(l, x)
         /\ \A y : Contains(l, y) => Contains(timer_list, y)
         /\ \A i, j \in DOMAIN l : i < j => timeout[l[i]] <= timeout[l[j]]
<1> DEFINE s == timer_list
           l == Without(s, x)
           k == IndexOf(s, x)
<1>1. s \in Seq(Thread) /\ Len(s) \in Nat /\ DOMAIN s = 1 .. Len(s)
  BY LenProperties DEF TypeOK
<1>2. /\ l \in Seq(Thread) /\ Distinct(l) /\ ~Contains(l, x)
      /\ \A y : Contains(l, y) => Contains(s, y)
      /\ Len(l) \in Nat /\ DOMAIN l = 1 .. Len(l)
  BY <1>1, WithoutProperties, WithoutElements, LenProperties DEF TimerInv
<1>3. ASSUME NEW i \in DOMAIN l, NEW j \in DOMAIN l, i < j
      PROVE  timeout[l[i]] <= timeout[l[j]]
  <2>1. CASE ~Contains(s, x)
    <3>1. l = s
      BY <1>1, <2>1, WithoutProperties
    <3> QED
      BY <1>3, <3>1 DEF TimerInv, TimersSorted
  <2>2. CASE Contains(s, x)
    <3>1. /\ k \in 1 .. Len(s) /\ Len(l) = Len(s) - 1
          /\ \A n \in 1 .. Len(s) - 1 : l[n] = IF n < k THEN s[n] ELSE s[n + 1]
      BY <1>1, <2>2, WithoutProperties
    <3> DEFINE m == IF i < k THEN i ELSE i + 1
               n == IF j < k THEN j ELSE j + 1
    <3> HIDE DEF l, k, s
    <3>2. /\ m \in 1 .. Len(s) /\ n \in 1 .. Len(s) /\ m < n
          /\ l[i] = s[m] /\ l[j] = s[n]
      BY <1>1, <1>2, <1>3, <3>1
    <3> HIDE DEF m, n
    <3>3. \A a, b \in DOMAIN s : a < b => timeout[s[a]] <= timeout[s[b]]
      BY DEF TimerInv, TimersSorted, s
    <3> QED
      BY <1>1, <3>2, <3>3
  <2> QED
    BY <2>1, <2>2
<1> QED
  BY <1>2, <1>3

\* rt_timer_start links x where the order is kept.
LEMMA StartSorted ==
  ASSUME TypeOK, TimerInv, NEW x \in Thread, NEW d \in Nat, rt_timer_start(x, d)
  PROVE  Distinct(timer_list') /\ TimersSorted'
         /\ ((\A y \in Thread : Contains(timer_list, y) => timeout[y] >= 0)
              => \A y \in Thread : Contains(timer_list', y) => timeout'[y] >= 0)
<1> DEFINE l == Without(timer_list, x)
           k == InsertPosition(l, d)
<1>1. /\ l \in Seq(Thread) /\ Distinct(l) /\ ~Contains(l, x)
      /\ \A y : Contains(l, y) => Contains(timer_list, y)
      /\ \A i, j \in DOMAIN l : i < j => timeout[l[i]] <= timeout[l[j]]
  BY SortedWithout
<1>2. /\ timer_list' = InsertAt(l, k, x)
      /\ timeout' = [timeout EXCEPT ![x] = d]
  BY DEF rt_timer_start
<1>3. timeout \in [Thread -> Int]
  BY DEF TypeOK
<1> HIDE DEF l
<1>4. /\ k \in 1 .. Len(l) + 1
      /\ \A j \in 1 .. k - 1 : timeout[l[j]] <= d
      /\ k <= Len(l) => timeout[l[k]] > d
  BY <1>1, <1>3, InsertPlace
<1> HIDE DEF k
<1>5. Len(l) \in Nat /\ DOMAIN l = 1 .. Len(l) /\ \A i \in 1 .. Len(l) : l[i] \in Thread
  BY <1>1, LenProperties, ElementOfSeq
<1> DEFINE t == timer_list'
<1>6. /\ t \in Seq(Thread) /\ Len(t) = Len(l) + 1
      /\ \A i \in 1 .. Len(l) + 1 :
           t[i] = IF i < k THEN l[i] ELSE IF i = k THEN x ELSE l[i - 1]
  <2>1. l \in Seq(Thread) /\ k \in 1 .. Len(l) + 1 /\ t = InsertAt(l, k, x)
    BY <1>1, <1>2, <1>4
  <2>2. InsertAt(l, k, x) \in Seq(Thread) /\ Len(InsertAt(l, k, x)) = Len(l) + 1
    BY <2>1, InsertAtProperties
  <2>3. ASSUME NEW i \in 1 .. Len(l) + 1
        PROVE  InsertAt(l, k, x)[i] = IF i < k THEN l[i] ELSE IF i = k THEN x ELSE l[i - 1]
    <3>1. l \in Seq(Thread) /\ k \in 1 .. Len(l) + 1
      BY <2>1
    <3> HIDE DEF t
    <3> QED
      BY <3>1, InsertAtProperties
  <2> HIDE DEF t
  <2> QED
    BY <2>1, <2>2, <2>3
<1>7. DOMAIN t = 1 .. Len(l) + 1
  BY <1>6, LenProperties
<1>8. ASSUME NEW i \in 1 .. Len(l)
      PROVE  l[i] # x /\ timeout'[l[i]] = timeout[l[i]] /\ timeout[l[i]] \in Int
  <2>1. l[i] # x /\ l[i] \in Thread
    BY <1>1, <1>5 DEF Contains
  <2> QED
    BY <1>2, <1>3, <2>1
<1>9. timeout'[x] = d
  BY <1>2, <1>3
<1> HIDE DEF t
<1>10. Distinct(t)
  <2> SUFFICES ASSUME NEW i \in 1 .. Len(l) + 1, NEW j \in 1 .. Len(l) + 1,
                      t[i] = t[j], i < j
               PROVE  FALSE
    <3>1. \A i, j \in 1 .. Len(l) + 1 : i = j \/ i < j \/ j < i
      BY <1>5
    <3> QED
      BY <1>7, <3>1 DEF Distinct
  <2>1. \A m, n \in 1 .. Len(l) : l[m] = l[n] => m = n
    BY <1>1, <1>5 DEF Distinct
  <2>2. CASE i < k /\ j < k
    <3>1. i \in 1 .. Len(l) /\ j \in 1 .. Len(l) /\ t[i] = l[i] /\ t[j] = l[j]
          /\ i # j
      BY <1>4, <1>5, <1>6, <2>2
    <3> QED
      BY <2>1, <3>1
  <2>3. CASE i < k /\ j > k
    <3>1. i \in 1 .. Len(l) /\ j - 1 \in 1 .. Len(l) /\ t[i] = l[i] /\ t[j] = l[j - 1]
          /\ i # j - 1
      BY <1>4, <1>5, <1>6, <2>3
    <3> QED
      BY <2>1, <3>1
  <2>4. CASE i > k
    <3>1. i - 1 \in 1 .. Len(l) /\ j - 1 \in 1 .. Len(l) /\ t[i] = l[i - 1] /\ t[j] = l[j - 1]
          /\ i - 1 # j - 1
      BY <1>4, <1>5, <1>6, <2>4
    <3> QED
      BY <2>1, <3>1
  <2>5. CASE i = k
    <3>1. j - 1 \in 1 .. Len(l) /\ t[i] = x /\ t[j] = l[j - 1]
      BY <1>4, <1>5, <1>6, <2>5
    <3> QED
      BY <1>8, <3>1
  <2>6. CASE j = k
    <3>1. i \in 1 .. Len(l) /\ t[j] = x /\ t[i] = l[i]
      BY <1>4, <1>5, <1>6, <2>6
    <3> QED
      BY <1>8, <3>1
  <2> QED
    BY <1>4, <1>5, <2>2, <2>3, <2>4, <2>5, <2>6
<1>11. ASSUME NEW i \in 1 .. Len(l) + 1, NEW j \in 1 .. Len(l) + 1, i < j
       PROVE  timeout'[t[i]] <= timeout'[t[j]]
  <2>1. \A m, n \in 1 .. Len(l) : m < n => timeout[l[m]] <= timeout[l[n]]
    BY <1>1, <1>5
  <2>2. CASE j < k
    BY <1>4, <1>5, <1>6, <1>8, <1>11, <2>1, <2>2
  <2>3. CASE j = k
    <3>1. i \in 1 .. Len(l) /\ i \in 1 .. k - 1 /\ t[i] = l[i] /\ t[j] = x
      BY <1>4, <1>5, <1>6, <1>11, <2>3
    <3> QED
      BY <1>4, <1>8, <1>9, <3>1
  <2>4. CASE j > k
    <3>1. j - 1 \in 1 .. Len(l) /\ k \in 1 .. Len(l) /\ t[j] = l[j - 1] /\ k <= j - 1
      BY <1>4, <1>5, <1>6, <2>4
    <3>2. timeout[l[k]] <= timeout[l[j - 1]]
      <4>1. CASE k = j - 1
        BY <1>8, <3>1, <4>1
      <4>2. CASE k < j - 1
        BY <2>1, <3>1, <4>2
      <4> QED
        BY <3>1, <4>1, <4>2
    <3>3. CASE i = k
      <4>1. t[i] = x /\ timeout[l[k]] > d
        BY <1>4, <1>6, <3>1, <3>3
      <4> QED
        BY <1>8, <1>9, <3>1, <3>2, <4>1
    <3>4. CASE i < k
      <4>1. i \in 1 .. Len(l) /\ t[i] = l[i] /\ i < j - 1
        BY <1>4, <1>5, <1>6, <3>1, <3>4
      <4> QED
        BY <1>8, <2>1, <3>1, <4>1
    <3>5. CASE i > k
      <4>1. i - 1 \in 1 .. Len(l) /\ t[i] = l[i - 1] /\ i - 1 < j - 1
        BY <1>4, <1>5, <1>6, <1>11, <3>5
      <4> QED
        BY <1>8, <2>1, <3>1, <4>1
    <3> QED
      BY <1>4, <1>11, <3>3, <3>4, <3>5
  <2> QED
    BY <1>4, <1>5, <2>2, <2>3, <2>4
<1>12. TimersSorted'
  BY <1>7, <1>11 DEF TimersSorted, t
<1>13. ASSUME \A y \in Thread : Contains(timer_list, y) => timeout[y] >= 0,
              NEW y \in Thread, Contains(t, y)
       PROVE  timeout'[y] >= 0
  <2>1. y = x \/ Contains(l, y)
    <3>1. PICK i \in 1 .. Len(l) + 1 : t[i] = y
      BY <1>6, <1>13 DEF Contains
    <3>2. CASE i < k
      BY <1>4, <1>5, <1>6, <3>1, <3>2 DEF Contains
    <3>3. CASE i = k
      BY <1>6, <3>1, <3>3
    <3>4. CASE i > k
      <4>1. i - 1 \in 1 .. Len(l) /\ l[i - 1] = y
        BY <1>4, <1>5, <1>6, <3>1, <3>4
      <4> QED
        BY <4>1 DEF Contains
    <3> QED
      BY <1>4, <3>2, <3>3, <3>4
  <2> QED
    BY <1>1, <1>2, <1>3, <1>9, <1>13, <2>1
<1> QED
  BY <1>10, <1>12, <1>13 DEF t

\* A step that leaves the timers and the interrupt handler alone.
LEMMA NoTimerStep ==
  ASSUME TimerInv, UNCHANGED <<timers, isr>>
  PROVE  TimerInv'
  BY DEF TimerInv, TimersSorted, NoneOverdue, Distinct, timers

\* rt_timer_stop and rt_timer_detach only take x out.
LEMMA TakeOutStep ==
  ASSUME TypeOK, TimerInv, NEW x, UNCHANGED <<timeout, isr>>,
         timer_list' = timer_list \/ timer_list' = Without(timer_list, x)
  PROVE  TimerInv'
<1> DEFINE l == Without(timer_list, x)
<1>1. /\ Distinct(l) /\ \A y : Contains(l, y) => Contains(timer_list, y)
      /\ \A i, j \in DOMAIN l : i < j => timeout[l[i]] <= timeout[l[j]]
  BY SortedWithout
<1> HIDE DEF l
<1>2. CASE timer_list' = timer_list
  BY <1>2 DEF TimerInv, TimersSorted, NoneOverdue, Distinct
<1>3. CASE timer_list' = l
  BY <1>1, <1>3 DEF TimerInv, TimersSorted, NoneOverdue, Distinct
<1> QED
  BY <1>2, <1>3 DEF l

\* The tick brings every pending timer one step closer.
LEMMA TickTimers ==
  ASSUME TypeOK, TimerInv, rt_tick_increase
  PROVE  TimerInv'
<1>1. /\ timer_list' = timer_list /\ isr' = "timer_check"
      /\ timeout \in [Thread -> Int]
      /\ timeout' = [x \in Thread |-> IF Contains(timer_list, x) THEN timeout[x] - 1
                                                                 ELSE timeout[x]]
  BY DEF rt_tick_increase, TypeOK
<1>2. DOMAIN timer_list = 1 .. Len(timer_list)
      /\ \A i \in 1 .. Len(timer_list) : timer_list[i] \in Thread
  BY LenProperties, ElementOfSeq DEF TypeOK
<1>3. ASSUME NEW i \in DOMAIN timer_list
      PROVE  timeout'[timer_list[i]] = timeout[timer_list[i]] - 1
             /\ timeout[timer_list[i]] \in Int
  <2>1. timer_list[i] \in Thread /\ Contains(timer_list, timer_list[i])
    BY <1>2 DEF Contains
  <2> QED
    BY <1>1, <2>1
<1>4. TimersSorted'
  BY <1>1, <1>3 DEF TimerInv, TimersSorted
<1> QED
  BY <1>1, <1>4 DEF TimerInv, NoneOverdue, Distinct

\* rt_timer_check takes the first timer out.
LEMMA TimeoutTimers ==
  ASSUME TypeOK, TimerInv, rt_thread_timeout
  PROVE  TimerInv'
<1> DEFINE s == timer_list
<1>1. /\ s \in Seq(Thread) /\ s # <<>> /\ timer_list' = Tail(s) /\ timeout' = timeout
      /\ isr' = "timer_check"
  BY DEF rt_thread_timeout, Expired, TypeOK
<1>2. /\ Tail(s) \in Seq(Thread) /\ Len(s) \in Nat /\ Len(Tail(s)) = Len(s) - 1
      /\ \A i \in 1 .. Len(Tail(s)) : Tail(s)[i] = s[i + 1]
      /\ DOMAIN s = 1 .. Len(s) /\ DOMAIN Tail(s) = 1 .. Len(s) - 1
  <2>1. /\ Tail(s) \in Seq(Thread) /\ Len(Tail(s)) = Len(s) - 1
        /\ \A i \in 1 .. Len(Tail(s)) : Tail(s)[i] = s[i + 1]
    BY <1>1, HeadTailProperties
  <2> QED
    BY <1>1, <2>1, LenProperties
<1> DEFINE u == Tail(s)
<1>3. \A i \in DOMAIN u : u[i] = s[i + 1] /\ i + 1 \in DOMAIN s
  BY <1>2
<1>4. DOMAIN u \subseteq Int /\ DOMAIN s \subseteq Int
  BY <1>2
<1> HIDE DEF u
<1>5. timer_list' = u /\ timeout' = timeout /\ isr' = "timer_check"
  BY <1>1 DEF u
<1>6. \A i, j \in DOMAIN u : i < j => timeout[u[i]] <= timeout[u[j]]
  <2> SUFFICES ASSUME NEW i \in DOMAIN u, NEW j \in DOMAIN u, i < j
               PROVE  timeout[u[i]] <= timeout[u[j]]
    OBVIOUS
  <2>1. i + 1 < j + 1 /\ u[i] = s[i + 1] /\ u[j] = s[j + 1]
        /\ i + 1 \in DOMAIN s /\ j + 1 \in DOMAIN s
    BY <1>3, <1>4
  <2> QED
    BY <2>1 DEF TimerInv, TimersSorted
<1>7. \A i, j \in DOMAIN u : u[i] = u[j] => i = j
  <2> SUFFICES ASSUME NEW i \in DOMAIN u, NEW j \in DOMAIN u, u[i] = u[j]
               PROVE  i = j
    OBVIOUS
  <2>1. s[i + 1] = s[j + 1] /\ i + 1 \in DOMAIN s /\ j + 1 \in DOMAIN s
    BY <1>3
  <2>2. i + 1 = j + 1
    BY <2>1 DEF TimerInv, Distinct
  <2> QED
    BY <1>4, <2>2
<1> QED
  BY <1>5, <1>6, <1>7 DEF TimerInv, TimersSorted, NoneOverdue, Distinct

\* rt_timer_check ends when its first timer, hence every timer, is in the
\* future.
LEMMA DoneTimers ==
  ASSUME TypeOK, TimerInv, rt_timer_check_done
  PROVE  TimerInv'
<1>1. UNCHANGED <<timer_list, timeout>> /\ ~Expired
  BY DEF rt_timer_check_done, timers
<1>2. timer_list \in Seq(Thread) /\ timeout \in [Thread -> Int]
  BY DEF TypeOK
<1>3. ASSUME NEW x \in Thread, Contains(timer_list, x) PROVE timeout[x] >= 0
  <2>1. PICK i \in 1 .. Len(timer_list) : timer_list[i] = x
    BY <1>3 DEF Contains
  <2>2. Len(timer_list) \in Nat /\ DOMAIN timer_list = 1 .. Len(timer_list) /\ 1 <= i
    BY <1>2, LenProperties
  <2>3. timer_list # <<>> /\ 1 \in 1 .. Len(timer_list)
    BY <2>1, <2>2, EmptySeq
  <2>4. Head(timer_list) = timer_list[1] /\ timer_list[1] \in Thread
    BY <1>2, <2>3, ElementOfSeq
  <2>5. timeout[timer_list[1]] > 0 /\ timeout[timer_list[1]] \in Int /\ timeout[x] \in Int
    BY <1>1, <1>2, <2>3, <2>4 DEF Expired
  <2>6. timeout[timer_list[1]] <= timeout[x]
    <3>1. CASE i = 1
      BY <2>1, <2>5, <3>1
    <3>2. CASE i # 1
      BY <2>1, <2>2, <2>3, <3>2 DEF TimerInv, TimersSorted
    <3> QED
      BY <3>1, <3>2
  <2> QED
    BY <2>5, <2>6
<1> QED
  BY <1>1, <1>3 DEF TimerInv, TimersSorted, NoneOverdue, Distinct

\* Every step of the kernel keeps the timer list in order and up to date.
LEMMA TimerStep == TypeOK /\ TimerInv /\ [Next]_vars => TimerInv'
<1> SUFFICES ASSUME TypeOK, TimerInv, [Next]_vars PROVE TimerInv'
  OBVIOUS
<1>1. CASE Boot
  BY <1>1, NoTimerStep DEF Boot, BootStartup, rt_system_scheduler_start
<1>2. CASE SysTick
  BY <1>2, TickTimers, TimeoutTimers, DoneTimers DEF SysTick
<1>3. ASSUME NEW t \in Thread, Call(t) PROVE TimerInv'
  <2>1. ASSUME NEW tick \in Delay, rt_thread_sleep(t, tick) PROVE TimerInv'
    <3>1. rt_timer_start(t, tick) /\ tick \in Nat /\ isr = "none" /\ isr' = isr
      BY <2>1, ConstantsAssumption DEF rt_thread_sleep, Calls, Running
    <3> QED
      BY <3>1, StartSorted DEF TimerInv, NoneOverdue
  <2>2. CASE ~\E tick \in Delay : rt_thread_sleep(t, tick)
    <3>1. UNCHANGED <<timers, isr>>
      BY <1>3, <2>2 DEF Call, OnTarget, rt_thread_resume, rt_thread_startup,
         rt_thread_suspend, rt_thread_delete, rt_thread_detach, CloseThread,
         rt_thread_yield, call_rt_schedule, rt_enter_critical, rt_exit_critical
    <3> QED
      BY <3>1, NoTimerStep
  <2> QED
    BY <2>1, <2>2
<1>4. ASSUME NEW t \in Thread, Continue(t) PROVE TimerInv'
  <2>1. CASE SuspendCrit(t)
    BY <2>1, TakeOutStep DEF SuspendCrit, rt_timer_stop
  <2>2. CASE CloseTimer(t)
    BY <2>2, TakeOutStep DEF CloseTimer
  <2>3. CASE ~SuspendCrit(t) /\ ~CloseTimer(t)
    <3>1. UNCHANGED <<timers, isr>>
      BY <1>4, <2>3 DEF Continue, Reschedule, ResumeRemove, ResumeInsert,
         StartupResume, CloseRemove, CloseStat, CloseList
    <3> QED
      BY <3>1, NoTimerStep
  <2> QED
    BY <2>1, <2>2, <2>3
<1>5. CASE UNCHANGED vars
  BY <1>5, NoTimerStep DEF vars
<1> QED
  BY <1>1, <1>2, <1>3, <1>4, <1>5 DEF Next

\* The timer list is in order and up to date in every reachable state.
LEMMA TimerInvariant == Spec => []TimerInv
<1>1. Init => TimerInv
  BY DEF Init, rt_system_scheduler_init, rt_thread_init, rt_timer_init,
         TimerInv, Distinct, TimersSorted, NoneOverdue, Contains
<1> QED
  BY <1>1, TimerStep, TypeCorrect, PTL DEF Spec

\* The timer list is in the order of expiry for any number of threads, any
\* delays and any calls, restarts of a pending timer included.
THEOREM TimerListIsSorted == Spec => []TimersSorted
<1>1. TimerInv => TimersSorted
  BY DEF TimerInv
<1> QED
  BY <1>1, TimerInvariant, PTL

\* rt_timer_check, which stops at the first timer in the future, leaves no
\* expired timer behind: when the handler returns all are in the future.
THEOREM NoTimerIsOverdue == Spec => []NoneOverdue
<1>1. TimerInv => NoneOverdue
  BY DEF TimerInv
<1> QED
  BY <1>1, TimerInvariant, PTL

-----------------------------------------------------------------------------
(* The scheduler lock.                                                     *)

\* Before the scheduler is started nobody locks it, and there is no tick.
BootUnlocked ==
    current_thread = NoThread /\ fault = "none" => lock_nest = 0 /\ isr = "none"

\* While the lock is held, no step takes the CPU away; before the first switch
\* it is not held.
LEMMA LockStep ==
  TypeOK /\ BootUnlocked /\ [Next]_vars
    => BootUnlocked' /\ (lock_nest > 0 => current_thread' = current_thread)
<1> SUFFICES ASSUME TypeOK, BootUnlocked, [Next]_vars
             PROVE  BootUnlocked' /\ (lock_nest > 0 => current_thread' = current_thread)
  OBVIOUS
<1>1. lock_nest \in Nat /\ LockMax \in Nat \ {0}
  BY ConstantsAssumption DEF TypeOK
<1>2. ASSUME NEW ls, NEW g, rt_schedule(ls, g)
      PROVE  /\ lock_nest > 0 => current_thread' = current_thread
             /\ fault' = "none" => current_thread' # NoThread
  BY <1>1, <1>2 DEF rt_schedule
<1>3. ASSUME NEW x \in Thread, BootStartup(x) PROVE UNCHANGED <<sched, fault, isr>>
  BY <1>3 DEF BootStartup
<1>4. CASE rt_system_scheduler_start
  BY <1>1, <1>4 DEF rt_system_scheduler_start, BootUnlocked
<1>5. CASE rt_tick_increase
  BY <1>2, <1>5 DEF rt_tick_increase, BootUnlocked
<1>6. CASE rt_thread_timeout
  BY <1>2, <1>6 DEF rt_thread_timeout, BootUnlocked
<1>7. CASE rt_timer_check_done
  BY <1>7 DEF rt_timer_check_done, BootUnlocked, sched
<1>8. ASSUME NEW t \in Thread, Running(t) PROVE current_thread # NoThread
  BY <1>8, ConstantsAssumption DEF Running
<1>9. ASSUME NEW t \in Thread, Call(t) PROVE
        BootUnlocked' /\ (lock_nest > 0 => current_thread' = current_thread)
  <2>1. CASE call_rt_schedule(t)
    BY <1>2, <2>1 DEF call_rt_schedule, BootUnlocked
  <2>2. CASE ~call_rt_schedule(t)
    <3>1. Running(t) /\ current_thread' = current_thread
      BY <1>9, <2>2 DEF Call, OnTarget, rt_thread_resume, rt_thread_startup,
         rt_thread_suspend, rt_thread_delete, rt_thread_detach, CloseThread, rt_thread_sleep,
         rt_thread_yield, rt_enter_critical, rt_exit_critical, Calls, sched
    <3> QED
      BY <1>8, <3>1 DEF BootUnlocked
  <2> QED
    BY <2>1, <2>2
<1>10. ASSUME NEW t \in Thread, Continue(t) PROVE
        BootUnlocked' /\ (lock_nest > 0 => current_thread' = current_thread)
  <2>1. CASE Reschedule(t)
    BY <1>2, <2>1 DEF Reschedule, BootUnlocked
  <2>2. CASE ~Reschedule(t)
    <3>1. Running(t) /\ current_thread' = current_thread
      BY <1>10, <2>2 DEF Continue, ResumeRemove, ResumeInsert, StartupResume, SuspendCrit,
         CloseRemove, CloseTimer, CloseStat, CloseList, sched
    <3> QED
      BY <1>8, <3>1 DEF BootUnlocked
  <2> QED
    BY <2>1, <2>2
<1>11. CASE UNCHANGED vars
  BY <1>11 DEF vars, sched, BootUnlocked
<1> QED
  BY <1>3, <1>4, <1>5, <1>6, <1>7, <1>9, <1>10, <1>11
  DEF Next, Boot, SysTick, BootUnlocked, sched

\* rt_enter_critical keeps the CPU for its caller: no tick, no timeout and no
\* call switches threads before the matching rt_exit_critical.
THEOREM LockHolds == Spec => LockKeepsCpu
<1>1. Init => BootUnlocked
  BY DEF Init, rt_system_scheduler_init, rt_thread_init, rt_timer_init,
         BootUnlocked
<1>2. TypeOK /\ BootUnlocked /\ [Next]_vars => BootUnlocked'
  BY LockStep
<1>3. TypeOK /\ BootUnlocked /\ [Next]_vars
        => [lock_nest > 0 => current_thread' = current_thread]_vars
  BY LockStep
<1> QED
  BY <1>1, <1>2, <1>3, TypeCorrect, PTL DEF Spec, LockKeepsCpu

-----------------------------------------------------------------------------
(* The thread timers implement Countdown.                                  *)

\* Countdown's variables in terms of the kernel's.
Left == [x \in ToSet(timer_list) |-> timeout[x]]
Times == [x \in Thread |-> Delay]
Checking == isr = "timer_check"
TimedOut == {x \in Thread : stat[x] = "ready" /\ error[x] = "timeout"}
Mapped == <<Left, <<>>, Times, {}, Checking, NoThread, TimedOut>>

\* Membership and ToSet are the same.
LEMMA ToSetContains ==
  ASSUME NEW s \in Seq(Thread)
  PROVE  /\ \A x : x \in ToSet(s) <=> Contains(s, x)
         /\ ToSet(s) \subseteq Thread
<1>1. DOMAIN s = 1 .. Len(s) /\ \A i \in 1 .. Len(s) : s[i] \in Thread
  BY LenProperties, ElementOfSeq
<1> QED
  BY <1>1 DEF ToSet, Contains

\* Without takes exactly x out of a list of distinct elements.
LEMMA WithoutSet ==
  ASSUME NEW s \in Seq(Thread), Distinct(s), NEW x
  PROVE  ToSet(Without(s, x)) = ToSet(s) \ {x}
<1>1. Without(s, x) \in Seq(Thread)
  BY WithoutProperties
<1>2. ASSUME NEW y, Contains(s, y), y # x PROVE Contains(Without(s, x), y)
  <2>1. CASE ~Contains(s, x)
    BY <1>2, <2>1, WithoutProperties
  <2>2. CASE Contains(s, x)
    <3> DEFINE w == Without(s, x)
               k == IndexOf(s, x)
    <3>1. /\ k \in 1 .. Len(s) /\ s[k] = x /\ Len(w) = Len(s) - 1 /\ Len(s) \in Nat
          /\ \A i \in 1 .. Len(s) - 1 : w[i] = IF i < k THEN s[i] ELSE s[i + 1]
      BY <2>2, WithoutProperties, LenProperties
    <3>2. PICK i \in 1 .. Len(s) : s[i] = y
      BY <1>2 DEF Contains
    <3> HIDE DEF w, k
    <3>3. CASE i < k
      <4>1. i \in 1 .. Len(w) /\ w[i] = y
        BY <3>1, <3>2, <3>3
      <4> QED
        BY <4>1 DEF Contains, w
    <3>4. CASE i > k
      <4>1. i - 1 \in 1 .. Len(w) /\ w[i - 1] = y
        BY <3>1, <3>2, <3>4
      <4> QED
        BY <4>1 DEF Contains, w
    <3> QED
      BY <1>2, <3>1, <3>2, <3>3, <3>4
  <2> QED
    BY <2>1, <2>2
<1> QED
  BY <1>1, <1>2, WithoutElements, ToSetContains

\* Tail takes exactly the head out of a list of distinct elements.
LEMMA TailMembers ==
  ASSUME NEW s \in Seq(Thread), s # <<>>, Distinct(s)
  PROVE  \A y : Contains(Tail(s), y) <=> Contains(s, y) /\ y # Head(s)
<1>1. /\ Len(s) \in Nat \ {0} /\ DOMAIN s = 1 .. Len(s)
      /\ Tail(s) \in Seq(Thread) /\ Len(Tail(s)) = Len(s) - 1
      /\ \A i \in 1 .. Len(s) - 1 : Tail(s)[i] = s[i + 1]
      /\ Head(s) = s[1]
  BY HeadTailProperties, LenProperties, EmptySeq
<1>2. \A i, j \in 1 .. Len(s) : s[i] = s[j] => i = j
  BY <1>1 DEF Distinct
<1>3. ASSUME NEW y, Contains(Tail(s), y) PROVE Contains(s, y) /\ y # Head(s)
  <2>1. PICK i \in 1 .. Len(Tail(s)) : Tail(s)[i] = y
    BY <1>3 DEF Contains
  <2>2. i + 1 \in 1 .. Len(s) /\ s[i + 1] = y /\ i + 1 # 1 /\ 1 \in 1 .. Len(s)
    BY <1>1, <2>1
  <2> QED
    BY <1>1, <1>2, <2>2 DEF Contains
<1>4. ASSUME NEW y, Contains(s, y), y # Head(s) PROVE Contains(Tail(s), y)
  <2>1. PICK i \in 1 .. Len(s) : s[i] = y
    BY <1>4 DEF Contains
  <2>2. i - 1 \in 1 .. Len(Tail(s)) /\ Tail(s)[i - 1] = y
    BY <1>1, <1>4, <2>1
  <2> QED
    BY <2>2 DEF Contains
<1> QED
  BY <1>3, <1>4

\* InsertAt adds exactly x, and keeps the elements distinct.
LEMMA InsertMembers ==
  ASSUME NEW l \in Seq(Thread), NEW k \in 1 .. Len(l) + 1, NEW x \in Thread
  PROVE  /\ \A y : Contains(InsertAt(l, k, x), y) <=> Contains(l, y) \/ y = x
         /\ Distinct(l) /\ ~Contains(l, x) => Distinct(InsertAt(l, k, x))
<1> DEFINE m == InsertAt(l, k, x)
<1>1. /\ m \in Seq(Thread) /\ Len(m) = Len(l) + 1 /\ Len(l) \in Nat
      /\ DOMAIN m = 1 .. Len(l) + 1 /\ DOMAIN l = 1 .. Len(l)
      /\ \A i \in 1 .. Len(l) + 1 :
           m[i] = IF i < k THEN l[i] ELSE IF i = k THEN x ELSE l[i - 1]
  <2>1. m \in Seq(Thread) /\ Len(m) = Len(l) + 1
    BY InsertAtProperties
  <2>2. \A i \in 1 .. Len(l) + 1 :
          m[i] = IF i < k THEN l[i] ELSE IF i = k THEN x ELSE l[i - 1]
    BY InsertAtProperties
  <2> HIDE DEF m
  <2> QED
    BY <2>1, <2>2, LenProperties
<1> HIDE DEF m
<1>2. ASSUME NEW y, Contains(m, y) PROVE Contains(l, y) \/ y = x
  <2>1. PICK i \in 1 .. Len(l) + 1 : m[i] = y
    BY <1>1, <1>2 DEF Contains
  <2>2. CASE i < k
    <3>1. i \in 1 .. Len(l) /\ l[i] = y
      BY <1>1, <2>1, <2>2
    <3> QED
      BY <1>1, <3>1 DEF Contains
  <2>3. CASE i > k
    <3>1. i - 1 \in 1 .. Len(l) /\ l[i - 1] = y
      BY <1>1, <2>1, <2>3
    <3> QED
      BY <1>1, <3>1 DEF Contains
  <2> QED
    BY <1>1, <2>1, <2>2, <2>3
<1>3. ASSUME NEW y, Contains(l, y) PROVE Contains(m, y)
  <2>1. PICK i \in 1 .. Len(l) : l[i] = y
    BY <1>1, <1>3 DEF Contains
  <2>2. CASE i < k
    <3>1. i \in 1 .. Len(l) + 1 /\ m[i] = y
      BY <1>1, <2>1, <2>2
    <3> QED
      BY <1>1, <3>1 DEF Contains
  <2>3. CASE i >= k
    <3>1. i + 1 \in 1 .. Len(l) + 1 /\ m[i + 1] = y
      BY <1>1, <2>1, <2>3
    <3> QED
      BY <1>1, <3>1 DEF Contains
  <2> QED
    BY <1>1, <2>1, <2>2, <2>3
<1>4. Contains(m, x)
  <2>1. k \in 1 .. Len(l) + 1 /\ m[k] = x
    BY <1>1
  <2> QED
    BY <1>1, <2>1 DEF Contains
<1>5. ASSUME Distinct(l), ~Contains(l, x) PROVE Distinct(m)
  <2>1. /\ \A i, j \in 1 .. Len(l) : l[i] = l[j] => i = j
        /\ \A i \in 1 .. Len(l) : l[i] # x
    BY <1>1, <1>5 DEF Distinct, Contains
  <2>2. ASSUME NEW i \in 1 .. Len(l) + 1, NEW j \in 1 .. Len(l) + 1, m[i] = m[j], i < j
        PROVE  FALSE
    <3>1. CASE j < k
      BY <1>1, <2>1, <2>2, <3>1
    <3>2. CASE j = k
      BY <1>1, <2>1, <2>2, <3>2
    <3>3. CASE j > k /\ i < k
      <4>1. j - 1 \in 1 .. Len(l) /\ i \in 1 .. Len(l) /\ l[i] = l[j - 1]
        BY <1>1, <2>2, <3>3
      <4> QED
        BY <2>1, <2>2, <3>3, <4>1
    <3>4. CASE j > k /\ i = k
      <4>1. j - 1 \in 1 .. Len(l) /\ x = l[j - 1]
        BY <1>1, <2>2, <3>4
      <4> QED
        BY <2>1, <4>1
    <3>5. CASE j > k /\ i > k
      <4>1. j - 1 \in 1 .. Len(l) /\ i - 1 \in 1 .. Len(l) /\ l[i - 1] = l[j - 1]
        BY <1>1, <2>2, <3>5
      <4> QED
        BY <2>1, <2>2, <4>1
    <3> QED
      BY <1>1, <2>2, <3>1, <3>2, <3>3, <3>4, <3>5
  <2> QED
    BY <1>1, <2>2 DEF Distinct
<1> QED
  BY <1>2, <1>3, <1>4, <1>5 DEF m

\* A step of a thread that leaves the timers alone.
LEMMA NoticeStep ==
  ASSUME isr = "none", UNCHANGED <<timers, isr>>
  PROVE  Timers!Notice
<1>1. Left' = Left /\ TimedOut' \subseteq Thread
  BY DEF Left, TimedOut, timers, ToSet
<1> QED
  BY <1>1 DEF Timers!Notice, Timers!Outside, Left, TimedOut

\* rt_timer_start: whatever the timer was, x is pending with d ticks.
LEMMA StartPending ==
  ASSUME TypeOK, TimerInv, NEW x \in Thread, NEW d \in Delay, rt_timer_start(x, d)
  PROVE  /\ ToSet(timer_list') = ToSet(timer_list) \cup {x}
         /\ Left' = [y \in ToSet(timer_list) \cup {x} |-> IF y = x THEN d ELSE Left[y]]
<1> DEFINE l == Without(timer_list, x)
           k == InsertPosition(l, d)
<1>1. /\ l \in Seq(Thread) /\ ToSet(l) = ToSet(timer_list) \ {x}
      /\ timer_list \in Seq(Thread) /\ timeout \in [Thread -> Int]
      /\ ToSet(timer_list) \subseteq Thread
  BY WithoutProperties, WithoutSet, ToSetContains DEF TimerInv, TypeOK
<1>2. k \in 1 .. Len(l) + 1
  <2>1. d \in Int
    BY ConstantsAssumption
  <2> HIDE DEF l
  <2> QED
    BY <1>1, <2>1, InsertPlace
<1>3. timer_list' = InsertAt(l, k, x) /\ timeout' = [timeout EXCEPT ![x] = d]
  BY DEF rt_timer_start
<1> HIDE DEF l, k
<1>4. ToSet(timer_list') = ToSet(l) \cup {x}
  <2>1. /\ InsertAt(l, k, x) \in Seq(Thread)
        /\ \A y : Contains(InsertAt(l, k, x), y) <=> Contains(l, y) \/ y = x
    BY <1>1, <1>2, InsertAtProperties, InsertMembers
  <2> QED
    BY <1>1, <1>3, <2>1, ToSetContains
<1>5. ToSet(timer_list') = ToSet(timer_list) \cup {x}
  BY <1>1, <1>4
<1>6. Left' = [y \in ToSet(timer_list) \cup {x} |-> IF y = x THEN d ELSE Left[y]]
  BY <1>1, <1>3, <1>5 DEF Left
<1> QED
  BY <1>5, <1>6

\* So it is Start.
LEMMA StartImplements ==
  ASSUME TypeOK, TimerInv, NEW x \in Thread, NEW d \in Delay,
         rt_timer_start(x, d), isr = "none", isr' = isr
  PROVE  Timers!Start(x)
<1>1. Left' = Timers!With(Left, x, d)
  BY StartPending DEF Timers!With, Left
<1>2. d \in Times[x]
  BY DEF Times
<1>3. TimedOut' \subseteq Thread
  BY DEF TimedOut
<1> QED
  BY <1>1, <1>2, <1>3
  DEF Timers!Start, Timers!Starts, Timers!Outside, Timers!With, Left, Times, TimedOut

\* rt_timer_stop and rt_timer_detach are Stop, or nothing.
LEMMA StopImplements ==
  ASSUME TypeOK, TimerInv, NEW x \in Thread, UNCHANGED <<timeout, isr>>, isr = "none",
         timer_list' = timer_list \/ timer_list' = Without(timer_list, x)
  PROVE  Timers!Stop(x) \/ Timers!Notice
<1>1. TimedOut' \subseteq Thread
  BY DEF TimedOut
<1>2. CASE timer_list' = timer_list
  BY <1>1, <1>2 DEF Timers!Notice, Timers!Outside, Left, TimedOut
<1>3. CASE timer_list' = Without(timer_list, x)
  <2>1. ToSet(timer_list') = ToSet(timer_list) \ {x}
    BY <1>3, WithoutSet DEF TimerInv, TypeOK
  <2>2. Left' = Timers!Without(Left, x)
    BY <2>1 DEF Left, Timers!Without
  <2> QED
    BY <1>1, <2>2 DEF Timers!Stop, Timers!Stops, Timers!Outside, Left, TimedOut
<1> QED
  BY <1>2, <1>3

\* rt_tick_increase is Tick.
LEMMA TickImplements ==
  ASSUME TypeOK, TimerInv, rt_tick_increase
  PROVE  Timers!Tick
<1>1. /\ timer_list' = timer_list /\ isr = "none" /\ isr' = "timer_check"
      /\ timeout' = [x \in Thread |-> IF Contains(timer_list, x) THEN timeout[x] - 1
                                                                 ELSE timeout[x]]
  BY DEF rt_tick_increase
<1>2. \A x \in ToSet(timer_list) : x \in Thread /\ Contains(timer_list, x)
  BY ToSetContains DEF TypeOK
<1>3. Left' = Timers!CountedDown(Left)
  BY <1>1, <1>2 DEF Left, Timers!CountedDown
<1>4. Timers!CountedDown(<<>>) = <<>>
  BY DEF Timers!CountedDown
<1>5. TimedOut' = TimedOut
  BY DEF rt_tick_increase, MoveToTail, links, TimedOut
<1> QED
  BY <1>1, <1>3, <1>4, <1>5 DEF Timers!Tick, Timers!CountedDown, Left, TimedOut

\* A turn of the loop of rt_timer_check is Fire: the head of the sorted list is
\* a timer that is due the longest, and its thread is ready with -RT_ETIMEOUT.
LEMMA FireImplements ==
  ASSUME TypeOK, TimerInv, rt_thread_timeout
  PROVE  \E x \in Thread : Timers!Fire(x)
<1> DEFINE s == timer_list
<1>0. Head(s) \in Thread
  BY HeadTailProperties DEF rt_thread_timeout, Expired, TypeOK
<1> PICK x \in Thread : x = Head(s)
  BY <1>0
<1>1. /\ s \in Seq(Thread) /\ s # <<>> /\ timeout[x] <= 0
      /\ timer_list' = Tail(s) /\ timeout' = timeout
      /\ isr = "timer_check" /\ isr' = "timer_check"
  BY DEF rt_thread_timeout, Expired, TypeOK
<1>2. /\ Len(s) \in Nat \ {0} /\ DOMAIN s = 1 .. Len(s)
      /\ Tail(s) \in Seq(Thread) /\ Len(Tail(s)) = Len(s) - 1
      /\ \A i \in 1 .. Len(s) - 1 : Tail(s)[i] = s[i + 1]
      /\ x = s[1] /\ \A i \in 1 .. Len(s) : s[i] \in Thread
  BY <1>1, HeadTailProperties, LenProperties, EmptySeq, ElementOfSeq
<1>3. /\ \A i, j \in 1 .. Len(s) : s[i] = s[j] => i = j
      /\ \A i, j \in 1 .. Len(s) : i < j => timeout[s[i]] <= timeout[s[j]]
      /\ timeout \in [Thread -> Int]
  BY <1>2 DEF TimerInv, Distinct, TimersSorted, TypeOK
<1>4. /\ \A y : y \in ToSet(s) <=> Contains(s, y)
      /\ \A y : y \in ToSet(Tail(s)) <=> Contains(Tail(s), y)
  BY <1>1, <1>2, ToSetContains
<1>5. Contains(s, x)
  BY <1>2 DEF Contains
<1>6. ASSUME NEW y, Contains(s, y) PROVE timeout[x] <= timeout[y]
  <2>1. PICK i \in 1 .. Len(s) : s[i] = y
    BY <1>6 DEF Contains
  <2>2. CASE i = 1
    BY <1>2, <1>3, <2>1, <2>2
  <2>3. CASE i # 1
    BY <1>2, <1>3, <2>1, <2>3
  <2> QED
    BY <2>2, <2>3
<1>7. \A y : Contains(Tail(s), y) <=> Contains(s, y) /\ y # x
  BY <1>1, TailMembers DEF TimerInv
<1>8. ToSet(timer_list') = ToSet(s) \ {x}
  BY <1>1, <1>4, <1>7
<1>9. Left' = Timers!Without(Left, x)
  BY <1>1, <1>8 DEF Left, Timers!Without
<1>10. Left[x] <= 0 /\ \A y \in ToSet(s) : Left[x] <= Left[y]
  BY <1>1, <1>4, <1>5, <1>6 DEF Left
<1>11. Timers!Due(x)
  BY <1>4, <1>5, <1>10 DEF Timers!Due, Left
<1>12. TimedOut' = TimedOut \cup {x}
  <2>1. /\ stat' = [stat EXCEPT ![x] = "ready"] /\ error' = [error EXCEPT ![x] = "timeout"]
        /\ DOMAIN stat = Thread /\ DOMAIN error = Thread
    BY DEF rt_thread_timeout, rt_schedule_insert_thread, TypeOK
  <2> QED
    BY <2>1 DEF TimedOut
<1>13. Timers!Fire(x)
  <2>1. Timers!Handling /\ Timers!Stops(x)
    BY <1>1, <1>9 DEF Timers!Handling, Timers!Stops, Left
  <2> QED
    BY <1>11, <1>12, <2>1 DEF Timers!Fire, TimedOut
<1> QED
  BY <1>13

\* The end of rt_timer_check is CheckDone: the head is in the future, and so
\* is every timer behind it.
LEMMA DoneImplements ==
  ASSUME TypeOK, TimerInv, rt_timer_check_done
  PROVE  Timers!CheckDone
<1> DEFINE s == timer_list
<1>1. /\ s \in Seq(Thread) /\ timeout \in [Thread -> Int]
      /\ UNCHANGED <<timer_list, timeout>>
      /\ isr = "timer_check" /\ isr' = "none"
      /\ s # <<>> => ~(timeout[Head(s)] <= 0)
  BY DEF rt_timer_check_done, Expired, TypeOK, timers
<1>2. DOMAIN s = 1 .. Len(s) /\ Len(s) \in Nat
      /\ \A i \in 1 .. Len(s) : s[i] \in Thread
  BY <1>1, LenProperties, ElementOfSeq
<1>3. \A i, j \in 1 .. Len(s) : i < j => timeout[s[i]] <= timeout[s[j]]
  BY <1>2 DEF TimerInv, TimersSorted
<1>4. ASSUME NEW x \in ToSet(s) PROVE timeout[x] > 0
  <2>1. PICK i \in 1 .. Len(s) : s[i] = x
    BY <1>2, <1>4 DEF ToSet
  <2>2. Head(s) = s[1] /\ s # <<>> /\ 1 \in 1 .. Len(s)
    BY <1>1, <1>2, <2>1, EmptySeq
  <2>3. timeout[s[1]] \in Int /\ timeout[s[i]] \in Int /\ timeout[s[1]] > 0
    BY <1>1, <1>2, <2>2
  <2>4. timeout[s[1]] <= timeout[s[i]]
    <3>1. CASE i = 1
      BY <2>3, <3>1
    <3>2. CASE i # 1
      BY <1>2, <1>3, <2>2, <3>2
    <3> QED
      BY <3>1, <3>2
  <2> QED
    BY <2>1, <2>3, <2>4
<1>5. \A x \in DOMAIN Left : Left[x] > 0
  BY <1>4 DEF Left
<1>6. TimedOut' = TimedOut
  BY DEF rt_timer_check_done, links, TimedOut
<1> QED
  BY <1>1, <1>5, <1>6 DEF Timers!CheckDone, Left, TimedOut

\* Every step of the kernel is a step of Countdown or a stutter.
LEMMA CountdownStep ==
  TypeOK /\ TimerInv /\ BootUnlocked /\ [Next]_vars => [Timers!CountdownNext]_Mapped
<1> SUFFICES ASSUME TypeOK, TimerInv, BootUnlocked, [Next]_vars
             PROVE  Timers!CountdownNext \/ UNCHANGED Mapped
  OBVIOUS
<1>1. CASE Boot
  <2>1. isr = "none" /\ UNCHANGED <<timers, isr>>
    BY <1>1 DEF Boot, BootStartup, rt_system_scheduler_start, BootUnlocked
  <2> QED
    BY <2>1, NoticeStep DEF Timers!CountdownNext, Timers!Caller
<1>2. CASE SysTick
  BY <1>2, TickImplements, FireImplements, DoneImplements
  DEF SysTick, Timers!CountdownNext, Timers!Handler
<1>3. ASSUME NEW t \in Thread, Call(t) PROVE Timers!CountdownNext
  <2>1. ASSUME NEW tick \in Delay, rt_thread_sleep(t, tick) PROVE Timers!CountdownNext
    <3>1. rt_timer_start(t, tick) /\ isr = "none" /\ isr' = isr
      BY <2>1 DEF rt_thread_sleep, Calls, Running
    <3>2. Timers!Start(t)
      BY <3>1, StartImplements
    <3> QED
      BY <3>2 DEF Timers!CountdownNext, Timers!Caller
  <2>2. CASE ~\E tick \in Delay : rt_thread_sleep(t, tick)
    <3>1. isr = "none" /\ UNCHANGED <<timers, isr>>
      BY <1>3, <2>2 DEF Call, OnTarget, rt_thread_resume, rt_thread_startup,
         rt_thread_suspend, rt_thread_delete, rt_thread_detach, CloseThread,
         rt_thread_yield, call_rt_schedule, rt_enter_critical, rt_exit_critical, Calls, Running
    <3> QED
      BY <3>1, NoticeStep DEF Timers!CountdownNext, Timers!Caller
  <2> QED
    BY <2>1, <2>2
<1>4. ASSUME NEW t \in Thread, Continue(t) PROVE Timers!CountdownNext
  <2>1. ASSUME SuspendCrit(t) \/ CloseTimer(t) PROVE Timers!CountdownNext
    <3>1. /\ UNCHANGED <<timeout, isr>> /\ isr = "none"
          /\ timer_list' = timer_list \/ timer_list' = Without(timer_list, pc[t].arg)
      BY <2>1 DEF SuspendCrit, CloseTimer, rt_timer_stop, Running
    <3>2. pc[t].arg \in Thread
      BY <2>1, PlacesOfPC DEF SuspendCrit, CloseTimer, TypeOK
    <3> QED
      BY <3>1, <3>2, StopImplements DEF Timers!CountdownNext, Timers!Caller
  <2>2. CASE ~SuspendCrit(t) /\ ~CloseTimer(t)
    <3>1. isr = "none" /\ UNCHANGED <<timers, isr>>
      BY <1>4, <2>2 DEF Continue, Reschedule, ResumeRemove, ResumeInsert,
         StartupResume, CloseRemove, CloseStat, CloseList, Running
    <3> QED
      BY <3>1, NoticeStep DEF Timers!CountdownNext, Timers!Caller
  <2> QED
    BY <2>1, <2>2
<1>5. CASE UNCHANGED vars
  BY <1>5 DEF vars, timers, links, Mapped, Left, Times, Checking, TimedOut, ToSet
<1> QED
  BY <1>1, <1>2, <1>3, <1>4, <1>5 DEF Next

\* Initially no timer is pending and no thread has timed out.
LEMMA CountdownStart == Init => Timers!CountdownInit
<1> SUFFICES ASSUME Init PROVE Timers!CountdownInit
  OBVIOUS
<1>1. timer_list = <<>> /\ isr = "none" /\ stat = [t \in Thread |-> "init"]
  BY DEF Init, rt_timer_init, rt_thread_init, rt_system_scheduler_init
<1>2. ToSet(timer_list) = {}
  BY <1>1 DEF ToSet
<1>3. Left = <<>> /\ TimedOut = {} /\ Times \in [Thread -> SUBSET Int]
  BY <1>1, <1>2, ConstantsAssumption DEF Left, TimedOut, Times
<1> QED
  BY <1>1, <1>3 DEF Timers!CountdownInit, Left, TimedOut, Times

\* The sorted list of thread timers and the scan of its head implement one
\* countdown per thread, for any number of threads, any delays and any calls: the
\* tick handler readies a thread with -RT_ETIMEOUT when its time is over and never
\* before, the longest due first, and takes out no timer without doing so.
THEOREM TimersImplementCountdown == Spec => TimersCountDown
<1>1. Init => BootUnlocked
  BY DEF Init, rt_system_scheduler_init, BootUnlocked
<1>2. TypeOK /\ BootUnlocked /\ [Next]_vars => BootUnlocked'
  BY LockStep
<1>3. Timers!CountdownInit /\ [][Timers!CountdownNext]_Mapped => TimersCountDown
  BY PTL DEF TimersCountDown, Timers!CountdownSpec, Timers!countdownVars, Mapped,
     Left, Times, Checking, TimedOut
<1> QED
  BY <1>1, <1>2, <1>3, CountdownStart, CountdownStep, TypeCorrect, TimerInvariant, PTL DEF Spec

=============================================================================
