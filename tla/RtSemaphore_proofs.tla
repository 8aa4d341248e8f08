-------------------------- MODULE RtSemaphore_proofs --------------------------
(* Proofs about RtSemaphore, for any threads, semaphores, values and calls. *)
EXTENDS RtSemaphore, RtKernel_proofs, FiniteSetTheorems

-----------------------------------------------------------------------------
(* Suspend lists.                                                          *)

Ordered(l) == \A i, j \in DOMAIN l : i < j => Priority[l[i]] <= Priority[l[j]]

\* rt_ipc_list_suspend always finds a place; in a priority list it is behind
\* the waiters that are at least as urgent and before all the others.
LEMMA WaitPlace ==
  ASSUME NEW s \in Sem, NEW l \in Seq(Thread), NEW t \in Thread
  PROVE  /\ WaitPosition(s, l, t) \in 1 .. Len(l) + 1
         /\ SemFlag[s] = "prio" =>
              /\ \A j \in 1 .. WaitPosition(s, l, t) - 1 : Priority[l[j]] <= Priority[t]
              /\ WaitPosition(s, l, t) <= Len(l)
                   => Priority[t] < Priority[l[WaitPosition(s, l, t)]]
<1> DEFINE T == {i \in 1 .. Len(l) + 1 : i <= Len(l) => Priority[t] < Priority[l[i]]}
<1>1. /\ Len(l) \in Nat /\ Priority[t] \in Int
      /\ \A i \in 1 .. Len(l) : l[i] \in Thread /\ Priority[l[i]] \in Int
  BY LenProperties, ElementOfSeq, ConstantsAssumption DEF Prio
<1>2. T \in SUBSET Nat /\ Len(l) + 1 \in T
  BY <1>1
<1>3. PICK m \in T : \A n \in T : m <= n
  <2> HIDE DEF T
  <2> QED
    BY <1>2, LeastNat
<1>4. m \in 1 .. Len(l) + 1 /\ (m <= Len(l) => Priority[t] < Priority[l[m]])
  BY <1>3
<1>5. ASSUME NEW j \in 1 .. m - 1 PROVE Priority[l[j]] <= Priority[t]
  <2>1. j \in 1 .. Len(l) + 1 /\ j <= Len(l) /\ j \notin T
    BY <1>1, <1>3, <1>4
  <2> QED
    BY <1>1, <2>1
<1>6. \E i \in 1 .. Len(l) + 1 :
        /\ \A j \in 1 .. i - 1 : Priority[l[j]] <= Priority[t]
        /\ i <= Len(l) => Priority[t] < Priority[l[i]]
  BY <1>4, <1>5
<1>7. CASE SemFlag[s] = "fifo"
  BY <1>1, <1>7 DEF WaitPosition
<1>8. CASE SemFlag[s] # "fifo"
  BY <1>6, <1>8 DEF WaitPosition
<1> QED
  BY <1>7, <1>8

\* Taking a waiter out keeps the order.
LEMMA OrderedWithout ==
  ASSUME NEW l \in Seq(Thread), NEW x, Ordered(l)
  PROVE  Ordered(Without(l, x))
<1> DEFINE w == Without(l, x)
           k == IndexOf(l, x)
<1>1. CASE ~Contains(l, x)
  BY <1>1, WithoutProperties
<1>2. CASE Contains(l, x)
  <2>1. /\ Len(l) \in Nat /\ DOMAIN l = 1 .. Len(l) /\ w \in Seq(Thread)
        /\ k \in 1 .. Len(l) /\ Len(w) = Len(l) - 1
        /\ \A i \in 1 .. Len(l) - 1 : w[i] = IF i < k THEN l[i] ELSE l[i + 1]
    BY <1>2, WithoutProperties, LenProperties
  <2>2. DOMAIN w = 1 .. Len(l) - 1
    BY <2>1, LenProperties
  <2> HIDE DEF w, k
  <2>3. ASSUME NEW i \in DOMAIN w, NEW j \in DOMAIN w, i < j
        PROVE  Priority[w[i]] <= Priority[w[j]]
    <3> DEFINE m == IF i < k THEN i ELSE i + 1
               n == IF j < k THEN j ELSE j + 1
    <3>1. /\ m \in 1 .. Len(l) /\ n \in 1 .. Len(l) /\ m < n
          /\ w[i] = l[m] /\ w[j] = l[n]
      BY <2>1, <2>2, <2>3
    <3> HIDE DEF m, n
    <3> QED
      BY <2>1, <3>1 DEF Ordered
  <2> QED
    BY <2>3 DEF Ordered, w
<1> QED
  BY <1>1, <1>2

\* A waiter joins a priority list where the order is kept.
LEMMA OrderedInsert ==
  ASSUME NEW s \in Sem, SemFlag[s] = "prio", NEW l \in Seq(Thread), NEW t \in Thread,
         Ordered(l)
  PROVE  Ordered(InsertAt(l, WaitPosition(s, l, t), t))
<1> DEFINE k == WaitPosition(s, l, t)
           m == InsertAt(l, k, t)
<1>1. /\ Len(l) \in Nat /\ DOMAIN l = 1 .. Len(l) /\ Priority[t] \in Int
      /\ \A i \in 1 .. Len(l) : Priority[l[i]] \in Int
  BY LenProperties, ElementOfSeq, ConstantsAssumption DEF Prio
<1>2. /\ k \in 1 .. Len(l) + 1
      /\ \A j \in 1 .. k - 1 : Priority[l[j]] <= Priority[t]
      /\ k <= Len(l) => Priority[t] < Priority[l[k]]
  BY WaitPlace
<1> HIDE DEF k
<1>3. /\ m \in Seq(Thread) /\ Len(m) = Len(l) + 1
      /\ \A i \in 1 .. Len(l) + 1 :
           m[i] = IF i < k THEN l[i] ELSE IF i = k THEN t ELSE l[i - 1]
  BY <1>2, InsertAtProperties
<1>4. DOMAIN m = 1 .. Len(l) + 1
  BY <1>3, LenProperties
<1>5. \A i, j \in 1 .. Len(l) : i < j => Priority[l[i]] <= Priority[l[j]]
  BY <1>1 DEF Ordered
<1>6. \A j \in 1 .. Len(l) : k <= j => Priority[t] <= Priority[l[j]]
  <2> SUFFICES ASSUME NEW j \in 1 .. Len(l), k <= j PROVE Priority[t] <= Priority[l[j]]
    OBVIOUS
  <2>1. k \in 1 .. Len(l) /\ Priority[t] < Priority[l[k]] /\ (k = j \/ k < j)
    BY <1>1, <1>2
  <2>2. Priority[l[k]] <= Priority[l[j]]
    BY <1>1, <1>5, <2>1
  <2> QED
    BY <1>1, <2>1, <2>2
<1> HIDE DEF m
<1>7. ASSUME NEW i \in 1 .. Len(l) + 1, NEW j \in 1 .. Len(l) + 1, i < j
      PROVE  Priority[m[i]] <= Priority[m[j]]
  <2>1. CASE j < k
    <3>1. i \in 1 .. Len(l) /\ j \in 1 .. Len(l) /\ m[i] = l[i] /\ m[j] = l[j]
      BY <1>1, <1>2, <1>3, <1>7, <2>1
    <3> QED
      BY <1>5, <1>7, <3>1
  <2>2. CASE j = k
    <3>1. i \in 1 .. k - 1 /\ m[i] = l[i] /\ m[j] = t
      BY <1>1, <1>2, <1>3, <1>7, <2>2
    <3> QED
      BY <1>2, <3>1
  <2>3. CASE i < k /\ k < j
    <3>1. i \in 1 .. Len(l) /\ j - 1 \in 1 .. Len(l) /\ i < j - 1
          /\ m[i] = l[i] /\ m[j] = l[j - 1]
      BY <1>1, <1>2, <1>3, <1>7, <2>3
    <3> QED
      BY <1>5, <3>1
  <2>4. CASE i = k
    <3>1. j - 1 \in 1 .. Len(l) /\ k <= j - 1 /\ m[i] = t /\ m[j] = l[j - 1]
      BY <1>1, <1>2, <1>3, <1>7, <2>4
    <3> QED
      BY <1>6, <3>1
  <2>5. CASE k < i
    <3>1. i - 1 \in 1 .. Len(l) /\ j - 1 \in 1 .. Len(l) /\ i - 1 < j - 1
          /\ m[i] = l[i - 1] /\ m[j] = l[j - 1]
      BY <1>1, <1>2, <1>3, <1>7, <2>5
    <3> QED
      BY <1>5, <3>1
  <2> QED
    BY <1>1, <1>2, <1>7, <2>1, <2>2, <2>3, <2>4, <2>5
<1>8. Ordered(m)
  BY <1>4, <1>7 DEF Ordered
<1> QED
  BY <1>8 DEF m, k
-----------------------------------------------------------------------------
(* Type correctness.                                                       *)

\* A step that leaves the kernel alone keeps its types.
LEMMA KernelStutter == TypeOK /\ UNCHANGED vars => TypeOK'
  BY TypeStep

\* The places of the semaphore calls are in PC and know their semaphore.
LEMMA SemPlaces ==
  /\ \A l \in {"sem_schedule", "sem_woken", "sem_resume_all", "sem_resume_one", "sem_reset"},
        s \in Sem : At(l, s, "user") \in PC
  /\ \A p \in PC :
        p.at \in {"sem_schedule", "sem_woken", "sem_resume_all", "sem_resume_one", "sem_reset"}
          => p.arg \in Sem /\ p.then = "user"
  BY DEF PC, At, Sem

\* rt_thread_resume with interrupts off keeps the types of the lists.
LEMMA ResumeNowType ==
  ASSUME TypeOK, NEW x \in Thread, ResumeNow(x)
  PROVE  /\ tlist' \in [ListHead -> Seq(Thread)] /\ group' \in SUBSET Prio
         /\ stat' \in [Thread -> Stat]
<1>1. rt_list_remove(tlist, x) \in [ListHead -> Seq(Thread)]
  BY RemoveProperties DEF TypeOK
<1>2. CASE stat[x] = "suspend"
  BY <1>1, <1>2, InsertType DEF ResumeNow
<1>3. CASE stat[x] # "suspend"
  BY <1>3 DEF ResumeNow, links, TypeOK
<1> QED
  BY <1>2, <1>3

\* Joining a suspend list keeps the types of the lists.
LEMMA SuspendType ==
  ASSUME TypeOK, NEW s \in Sem, NEW t \in Thread, rt_ipc_list_suspend(s, t)
  PROVE  /\ tlist' \in [ListHead -> Seq(Thread)] /\ group' \in SUBSET Prio
         /\ stat' \in [Thread -> Stat]
         /\ fault' = fault \/ fault' = "double_link"
<1> DEFINE ls == IF stat[t] = "ready" THEN rt_list_remove(tlist, t) ELSE tlist
<1>1. ls \in [ListHead -> Seq(Thread)] /\ s \in ListHead
  BY RemoveProperties DEF TypeOK, ListHead, Sem
<1>2. tlist' = [ls EXCEPT ![s] = InsertAt(@, WaitPosition(s, @, t), t)]
  BY DEF rt_ipc_list_suspend
<1> HIDE DEF ls
<1>3. WaitPosition(s, ls[s], t) \in 1 .. Len(ls[s]) + 1
  BY <1>1, WaitPlace
<1>4. InsertAt(ls[s], WaitPosition(s, ls[s], t), t) \in Seq(Thread)
  BY <1>1, <1>3, InsertAtProperties
<1>5. tlist' \in [ListHead -> Seq(Thread)]
  BY <1>1, <1>2, <1>4
<1>6. /\ group' \in SUBSET Prio /\ stat' \in [Thread -> Stat]
      /\ fault' = fault \/ fault' = "double_link"
  BY DEF rt_ipc_list_suspend, TypeOK, Stat
<1> QED
  BY <1>5, <1>6

\* Reading the waiters that were granted a token gives a number.
LEMMA GrantedCount == \A s \in Sem : Cardinality(Granted(s)) \in Nat
<1>1. \A s \in Sem : Granted(s) \subseteq Thread
  BY DEF Granted
<1> QED
  BY <1>1, SemAssumption, FS_Subset, FS_CardinalityType

\* The steps of rt_sem_take keep the types.
LEMMA TakeTypes ==
  ASSUME SemTypeOK, NEW t \in Thread, NEW s \in Sem,
         TakeAvailable(t, s) \/ TakeRefused(t, s)
           \/ (\E time \in WaitTime : TakeBlock(t, s, time))
  PROVE  SemTypeOK'
<1> USE DEF SemTypeOK
<1>1. CASE TakeAvailable(t, s)
  <2>1. value' \in [Sem -> 0 .. SemValueMax]
    BY <1>1, SemAssumption DEF TakeAvailable
  <2> QED
    BY <1>1, <2>1, KernelStutter DEF TakeAvailable
<1>2. CASE TakeRefused(t, s)
  BY <1>2, KernelStutter DEF TakeRefused
<1>3. ASSUME NEW time \in WaitTime, TakeBlock(t, s, time) PROVE SemTypeOK'
  <2>1. /\ tlist' \in [ListHead -> Seq(Thread)] /\ group' \in SUBSET Prio
        /\ stat' \in [Thread -> Stat]
        /\ fault' = fault \/ fault' = "double_link"
    BY <1>3, SuspendType DEF TakeBlock
  <2>2. pc' \in [Thread -> PC]
    BY <1>3, GotoType, SemPlaces DEF TakeBlock, TypeOK
  <2>3. /\ timer_list' \in Seq(Thread) /\ activated' \in SUBSET Thread
        /\ timeout' \in [Thread -> Int]
    BY <1>3, TimerType, SemAssumption DEF TakeBlock, WaitTimer, TypeOK, timers
  <2>4. TypeOK'
    BY <1>3, <2>1, <2>2, <2>3 DEF TakeBlock, TypeOK, sched
  <2> QED
    BY <1>3, <2>4 DEF TakeBlock, semVars
<1> QED
  BY <1>1, <1>2, <1>3

\* rt_sem_release keeps the types.
LEMMA ReleaseTypes ==
  ASSUME SemTypeOK, NEW t \in Thread, NEW s \in Sem,
         ReleaseToWaiter(t, s) \/ ReleaseToValue(t, s)
  PROVE  SemTypeOK'
<1> USE DEF SemTypeOK
<1>1. CASE ReleaseToWaiter(t, s)
  <2>1. Head(tlist[s]) \in Thread
    BY <1>1, HeadTailProperties DEF ReleaseToWaiter, TypeOK, ListHead, Sem
  <2>2. /\ tlist' \in [ListHead -> Seq(Thread)] /\ group' \in SUBSET Prio
        /\ stat' \in [Thread -> Stat]
    BY <1>1, <2>1, ResumeNowType DEF ReleaseToWaiter
  <2>3. pc' \in [Thread -> PC]
    BY <1>1, GotoType, PlacesInPC DEF ReleaseToWaiter, TypeOK
  <2>4. TypeOK'
    BY <1>1, <2>2, <2>3 DEF ReleaseToWaiter, TypeOK, timers, sched
  <2> QED
    BY <1>1, <2>4 DEF ReleaseToWaiter
<1>2. CASE ReleaseToValue(t, s)
  <2>1. value' \in [Sem -> 0 .. SemValueMax]
    BY <1>2, SemAssumption DEF ReleaseToValue
  <2> QED
    BY <1>2, <2>1, KernelStutter DEF ReleaseToValue
<1> QED
  BY <1>1, <1>2

\* The steps of rt_sem_detach and rt_sem_control keep the types.
LEMMA ResumeAllTypes ==
  ASSUME SemTypeOK, NEW t \in Thread,
         \/ \E s \in Sem : rt_sem_detach(t, s) \/ rt_sem_control(t, s)
         \/ ResumeAllOne(t) \/ ResumeAllAgain(t) \/ Reset(t)
  PROVE  SemTypeOK'
<1> USE DEF SemTypeOK
<1>1. ASSUME NEW s \in Sem, rt_sem_detach(t, s) PROVE SemTypeOK'
  <2>1. pc' \in [Thread -> PC]
    BY <1>1, GotoType, SemPlaces, PlacesInPC DEF rt_sem_detach, ResumeAllTest, TypeOK
  <2> QED
    BY <1>1, <2>1 DEF rt_sem_detach, TypeOK, links, timers, sched, semVars
<1>2. ASSUME NEW s \in Sem, rt_sem_control(t, s) PROVE SemTypeOK'
  <2>1. pc' \in [Thread -> PC]
    BY <1>2, GotoType, SemPlaces DEF rt_sem_control, TypeOK
  <2> QED
    BY <1>2, <2>1 DEF rt_sem_control, TypeOK, links, timers, sched, semVars
<1>3. pc[t] \in PC /\ pc \in [Thread -> PC]
  BY DEF TypeOK
<1>4. ASSUME NEW s \in Sem, tlist[s] # <<>>, ResumeFirst(s)
      PROVE  /\ tlist' \in [ListHead -> Seq(Thread)] /\ group' \in SUBSET Prio
             /\ stat' \in [Thread -> Stat]
             /\ error' \in [Thread -> {"ok", "timeout", "error"}]
  <2>1. Head(tlist[s]) \in Thread
    BY <1>4, HeadTailProperties DEF TypeOK, ListHead, Sem
  <2> QED
    BY <1>4, <2>1, ResumeNowType DEF ResumeFirst, TypeOK
<1>5. CASE ResumeAllOne(t)
  <2>1. pc[t].arg \in Sem
    BY <1>3, <1>5, SemPlaces DEF ResumeAllOne
  <2>2. pc' \in [Thread -> PC]
    BY <1>3, <1>5, <2>1, GotoType, SemPlaces DEF ResumeAllOne
  <2>3. CASE tlist[pc[t].arg] = <<>>
    BY <1>5, <2>2, <2>3 DEF ResumeAllOne, TypeOK, links, timers, sched, semVars
  <2>4. CASE tlist[pc[t].arg] # <<>>
    BY <1>4, <1>5, <2>1, <2>2, <2>4 DEF ResumeAllOne, TypeOK, timers, sched, semVars
  <2> QED
    BY <2>3, <2>4
<1>6. CASE ResumeAllAgain(t)
  <2>1. pc[t].arg \in Sem
    BY <1>3, <1>6, SemPlaces DEF ResumeAllAgain
  <2>2. pc' \in [Thread -> PC]
    BY <1>3, <1>6, <2>1, GotoType, SemPlaces, PlacesInPC DEF ResumeAllAgain, ResumeAllTest
  <2> QED
    BY <1>6, <2>2 DEF ResumeAllAgain, TypeOK, links, timers, sched, semVars
<1>7. CASE ResetOne(t)
  <2>1. pc[t].arg \in Sem
    BY <1>3, <1>7, SemPlaces DEF ResetOne, InReset
  <2> QED
    BY <1>4, <1>7, <2>1 DEF ResetOne, TypeOK, timers, sched, semVars
<1>8. ASSUME NEW v \in ResetValue, ResetValueTo(t, v) PROVE SemTypeOK'
  <2>1. pc[t].arg \in Sem
    BY <1>3, <1>8, SemPlaces DEF ResetValueTo, InReset
  <2>2. pc' \in [Thread -> PC]
    BY <1>3, <1>8, GotoType, PlacesInPC DEF ResetValueTo
  <2>3. v \in 0 .. SemValueMax /\ v \in Int
    BY SemAssumption
  <2>4. value' \in [Sem -> 0 .. SemValueMax] /\ owed' \in [Sem -> Int]
    BY <1>8, <2>1, <2>3, GrantedCount DEF ResetValueTo
  <2> QED
    BY <1>8, <2>2, <2>4 DEF ResetValueTo, TypeOK, links, timers, sched
<1> QED
  BY <1>1, <1>2, <1>5, <1>6, <1>7, <1>8 DEF Reset

\* The two steps after a thread has joined a suspend list keep the types.
LEMMA TakeRestTypes ==
  ASSUME SemTypeOK, NEW t \in Thread, TakeSchedule(t) \/ TakeReturn(t)
  PROVE  SemTypeOK'
<1> USE DEF SemTypeOK
<1>1. pc[t] \in PC /\ pc \in [Thread -> PC]
  BY DEF TypeOK
<1>2. CASE TakeSchedule(t)
  <2>1. pc[t].arg \in Sem /\ pc[t].then = "user"
    BY <1>1, <1>2, SemPlaces DEF TakeSchedule
  <2>2. pc' \in [Thread -> PC]
    BY <1>1, <1>2, <2>1, GotoType, SemPlaces DEF TakeSchedule
  <2>3. /\ current_thread' \in Thread \cup {NoThread}
        /\ fault' = fault \/ fault' = "empty_level"
    BY <1>2, ScheduleType DEF TakeSchedule, TypeOK
  <2> QED
    BY <1>2, <2>2, <2>3 DEF TakeSchedule, TypeOK, links, timers, semVars
<1>3. CASE TakeReturn(t)
  <2>1. pc' \in [Thread -> PC]
    BY <1>1, <1>3, GotoType, PlacesInPC DEF TakeReturn
  <2>2. pc[t].arg \in Sem /\ error[t] \in {"ok", "timeout", "error"}
    BY <1>1, <1>3, SemPlaces DEF TakeReturn, TypeOK
  <2>3. result' \in [Thread -> {"ok", "failed"}]
    BY <1>3, <2>2 DEF TakeReturn
  <2>4. owed' \in [Sem -> Int]
    <3>1. owed[pc[t].arg] - 1 \in Int
      BY <2>2
    <3> QED
      BY <1>3, <3>1 DEF TakeReturn
  <2> QED
    BY <1>3, <2>1, <2>3, <2>4 DEF TakeReturn, TypeOK, links, timers, sched
<1> QED
  BY <1>2, <1>3

\* Every step keeps the types.
LEMMA SemTypeStep == SemTypeOK /\ [SemNext]_allVars => SemTypeOK'
<1> SUFFICES ASSUME SemTypeOK, [SemNext]_allVars PROVE SemTypeOK'
  OBVIOUS
<1>1. CASE Next /\ UNCHANGED semVars
  BY <1>1, TypeStep DEF SemTypeOK, semVars
<1>2. CASE UNCHANGED allVars
  BY <1>2, KernelStutter DEF SemTypeOK, allVars, semVars
<1>3. ASSUME NEW t \in Thread, NEW s \in Sem, SemCall(t, s) PROVE SemTypeOK'
  BY <1>3, TakeTypes, ReleaseTypes, ResumeAllTypes DEF SemCall
<1>4. ASSUME NEW t \in Thread, SemContinue(t) PROVE SemTypeOK'
  BY <1>4, TakeRestTypes, ResumeAllTypes DEF SemContinue
<1> QED
  BY <1>1, <1>2, <1>3, <1>4 DEF SemNext

\* The value of a semaphore never leaves 0 .. SemValueMax and every variable
\* of the kernel stays in its type, whatever is taken, released, detached and
\* reset, and however the calls, the tick and the time-outs interleave.
THEOREM SemaphoreTyped == SemSpec => []SemTypeOK
<1>1. SemInit => SemTypeOK
  <2>1. Init => TypeOK
    BY ConstantsAssumption, PlacesInPC, EmptySeq
       DEF Init, rt_system_scheduler_init, rt_thread_init, rt_timer_init, TypeOK, Stat
  <2> QED
    BY <2>1, SemAssumption DEF SemInit, SemTypeOK
<1> QED
  BY <1>1, SemTypeStep, PTL DEF SemSpec

-----------------------------------------------------------------------------
(* Waiters and values.                                                     *)

\* Suspend lists only lose waiters.
Shrinks ==
    \A h \in Sem : tlist'[h] = tlist[h] \/ \E x : tlist'[h] = Without(tlist[h], x)

\* Unlinking x from wherever it is, and linking it into its level or not.
LEMMA UnlinkShrinks ==
  ASSUME TypeOK, NEW x \in Thread,
         \/ tlist' = rt_list_remove(tlist, x)
         \/ tlist' = insert_ready(rt_list_remove(tlist, x), x)
         \/ tlist' = insert_ready(tlist, x)
  PROVE  Shrinks
<1> DEFINE m == rt_list_remove(tlist, x)
<1>1. /\ tlist \in [ListHead -> Seq(Thread)] /\ m \in [ListHead -> Seq(Thread)]
      /\ \A h \in ListHead : m[h] = Without(tlist[h], x)
  BY RemoveProperties DEF TypeOK
<1>2. \A h \in Sem : h \in ListHead /\ h # Priority[x]
  BY ConstantsAssumption DEF Sem, ListHead
<1> HIDE DEF m
<1>3. \A h \in Sem : insert_ready(m, x)[h] = m[h]
  BY <1>1, <1>2 DEF insert_ready
<1>4. \A h \in Sem : insert_ready(tlist, x)[h] = tlist[h]
  BY <1>1, <1>2 DEF insert_ready
<1> QED
  BY <1>1, <1>2, <1>3, <1>4 DEF Shrinks, m

\* No step of the kernel core links a thread into a suspend list.
LEMMA KernelShrinks == TypeOK /\ [Next]_vars => Shrinks
<1> SUFFICES ASSUME TypeOK, [Next]_vars PROVE Shrinks
  OBVIOUS
<1>1. ASSUME tlist' = tlist PROVE Shrinks
  BY <1>1 DEF Shrinks
<1>2. CASE Boot
  BY <1>1, <1>2, UnlinkShrinks DEF Boot, BootStartup, rt_system_scheduler_start,
     rt_schedule_insert_thread, links
<1>3. CASE rt_tick_increase
  <2>1. current_thread \in Thread
    BY <1>3 DEF rt_tick_increase, TypeOK
  <2> QED
    BY <1>1, <1>3, <2>1, UnlinkShrinks DEF rt_tick_increase, MoveToTail, links
<1>4. CASE rt_thread_timeout
  <2>1. Head(timer_list) \in Thread
    BY <1>4, HeadTailProperties DEF rt_thread_timeout, Expired, TypeOK
  <2> QED
    BY <1>4, <2>1, UnlinkShrinks DEF rt_thread_timeout, rt_schedule_insert_thread
<1>5. CASE rt_timer_check_done
  BY <1>1, <1>5 DEF rt_timer_check_done, links
<1>6. ASSUME NEW t \in Thread, Call(t) PROVE Shrinks
  <2>1. ASSUME NEW tick \in Delay, rt_thread_sleep(t, tick) PROVE Shrinks
    BY <1>1, <2>1, UnlinkShrinks
       DEF rt_thread_sleep, Suspend, rt_schedule_remove_thread, links
  <2>2. CASE rt_thread_yield(t)
    BY <2>2, UnlinkShrinks DEF rt_thread_yield, MoveToTail
  <2>3. CASE ~(\E tick \in Delay : rt_thread_sleep(t, tick)) /\ ~rt_thread_yield(t)
    <3>1. tlist' = tlist
      BY <1>6, <2>3 DEF Call, OnTarget, rt_thread_resume, rt_thread_startup,
         rt_thread_suspend, rt_thread_delete, rt_thread_detach, CloseThread,
         call_rt_schedule, rt_enter_critical, rt_exit_critical, links
    <3> QED
      BY <1>1, <3>1
  <2> QED
    BY <2>1, <2>2, <2>3
<1>7. ASSUME NEW t \in Thread, Continue(t) PROVE Shrinks
  <2>1. pc[t] \in PC
    BY DEF TypeOK
  <2>2. CASE ResumeRemove(t) \/ ResumeInsert(t) \/ SuspendCrit(t) \/ CloseRemove(t)
    <3>1. pc[t].arg \in Thread
      BY <2>1, <2>2, PlacesOfPC DEF ResumeRemove, ResumeInsert, SuspendCrit, CloseRemove
    <3> QED
      BY <2>2, <3>1, UnlinkShrinks DEF ResumeRemove, ResumeInsert, SuspendCrit, CloseRemove,
         rt_schedule_insert_thread, rt_schedule_remove_thread, Suspend
  <2>3. CASE ~(ResumeRemove(t) \/ ResumeInsert(t) \/ SuspendCrit(t) \/ CloseRemove(t))
    <3>1. tlist' = tlist
      BY <1>7, <2>3 DEF Continue, Reschedule, StartupResume, CloseTimer, CloseStat,
         CloseList, links
    <3> QED
      BY <1>1, <3>1
  <2> QED
    BY <2>2, <2>3
<1>8. CASE UNCHANGED vars
  BY <1>1, <1>8 DEF vars, links
<1> QED
  BY <1>2, <1>3, <1>4, <1>5, <1>6, <1>7, <1>8 DEF Next, SysTick

\* Nor does any step of the semaphore calls but the blocking one.
LEMMA SemShrinks ==
  ASSUME SemTypeOK, [SemNext]_allVars,
         ~\E t \in Thread, s \in Sem, time \in WaitTime : TakeBlock(t, s, time)
  PROVE  Shrinks
<1>1. ASSUME tlist' = tlist PROVE Shrinks
  BY <1>1 DEF Shrinks
<1>2. TypeOK /\ \A t \in Thread : pc[t] \in PC
  BY DEF SemTypeOK, TypeOK
<1>3. ASSUME NEW s \in Sem, tlist[s] # <<>>, ResumeNow(Head(tlist[s])) PROVE Shrinks
  <2>1. Head(tlist[s]) \in Thread
    BY <1>2, <1>3, HeadTailProperties DEF TypeOK, ListHead, Sem
  <2> QED
    BY <1>1, <1>2, <1>3, <2>1, UnlinkShrinks DEF ResumeNow, rt_schedule_insert_thread, links
<1>4. CASE Next \/ UNCHANGED vars
  BY <1>2, <1>4, KernelShrinks
<1>5. ASSUME NEW t \in Thread, NEW s \in Sem, SemCall(t, s) PROVE Shrinks
  <2>1. CASE ReleaseToWaiter(t, s)
    BY <1>3, <2>1 DEF ReleaseToWaiter
  <2>2. CASE ~ReleaseToWaiter(t, s)
    <3>1. tlist' = tlist
      BY <1>5, <2>2 DEF SemCall, TakeAvailable, TakeRefused, ReleaseToValue, rt_sem_detach,
         rt_sem_control, vars, links
    <3> QED
      BY <1>1, <3>1
  <2> QED
    BY <2>1, <2>2
<1>6. ASSUME NEW t \in Thread, SemContinue(t) PROVE Shrinks
  <2>1. CASE (ResumeAllOne(t) \/ ResetOne(t)) /\ tlist[pc[t].arg] # <<>>
    <3>1. pc[t].arg \in Sem
      BY <1>2, <2>1, SemPlaces DEF ResumeAllOne, ResetOne, InReset
    <3> QED
      BY <1>3, <2>1, <3>1 DEF ResumeAllOne, ResetOne, ResumeFirst
  <2>2. CASE ~((ResumeAllOne(t) \/ ResetOne(t)) /\ tlist[pc[t].arg] # <<>>)
    <3>1. tlist' = tlist
      BY <1>6, <2>2 DEF SemContinue, TakeSchedule, TakeReturn, ResumeAllOne, ResumeAllAgain,
         Reset, ResetOne, ResetValueTo, links
    <3> QED
      BY <1>1, <3>1
  <2> QED
    BY <2>1, <2>2
<1> QED
  BY <1>4, <1>5, <1>6 DEF SemNext, allVars

\* The list a blocking take joins: the others keep what they had.
LEMMA BlockLists ==
  ASSUME SemTypeOK, NEW t \in Thread, NEW s \in Sem, NEW time \in WaitTime,
         TakeBlock(t, s, time)
  PROVE  /\ \E l \in Seq(Thread) :
              /\ l = tlist[s] \/ l = Without(tlist[s], t)
              /\ tlist'[s] = InsertAt(l, WaitPosition(s, l, t), t)
         /\ \A h \in Sem \ {s} : tlist'[h] = tlist[h] \/ tlist'[h] = Without(tlist[h], t)
<1> DEFINE ls == IF stat[t] = "ready" THEN rt_list_remove(tlist, t) ELSE tlist
<1>1. /\ ls \in [ListHead -> Seq(Thread)]
      /\ \A h \in ListHead : ls[h] = tlist[h] \/ ls[h] = Without(tlist[h], t)
      /\ \A h \in Sem : h \in ListHead
  BY RemoveProperties DEF SemTypeOK, TypeOK, ListHead, Sem
<1>2. tlist' = [ls EXCEPT ![s] = InsertAt(@, WaitPosition(s, @, t), t)]
  BY DEF TakeBlock, rt_ipc_list_suspend
<1> HIDE DEF ls
<1>3. ls[s] \in Seq(Thread) /\ tlist'[s] = InsertAt(ls[s], WaitPosition(s, ls[s], t), t)
  BY <1>1, <1>2
<1> QED
  BY <1>1, <1>2, <1>3

\* A value is raised only while nobody waits, and a thread joins only while
\* the value is zero: the two together are inductive.
LEMMA MeanZeroStep == SemTypeOK /\ WaitersMeanZero /\ [SemNext]_allVars => WaitersMeanZero'
<1> SUFFICES ASSUME SemTypeOK, WaitersMeanZero, [SemNext]_allVars, NEW h \in Sem,
                    tlist'[h] # <<>>
             PROVE  value'[h] = 0
  BY DEF WaitersMeanZero
<1>1. value \in [Sem -> 0 .. SemValueMax] /\ tlist[h] \in Seq(Thread)
  BY DEF SemTypeOK, TypeOK, ListHead, Sem
<1>2. ASSUME NEW t \in Thread, NEW s \in Sem, NEW time \in WaitTime, TakeBlock(t, s, time)
      PROVE  value'[h] = 0
  <2>1. value' = value /\ value[s] = 0
    BY <1>2 DEF TakeBlock, semVars
  <2>2. CASE h = s
    BY <2>1, <2>2
  <2>3. CASE h # s
    <3>1. tlist[h] # <<>>
      BY <1>1, <1>2, <2>3, BlockLists, WithoutElements
    <3> QED
      BY <2>1, <3>1 DEF WaitersMeanZero
  <2> QED
    BY <2>2, <2>3
<1>3. CASE ~\E t \in Thread, s \in Sem, time \in WaitTime : TakeBlock(t, s, time)
  <2>1. tlist[h] # <<>>
    BY <1>1, <1>3, SemShrinks, WithoutElements DEF Shrinks
  <2>2. value[h] = 0
    BY <2>1 DEF WaitersMeanZero
  <2>3. CASE (Next /\ UNCHANGED semVars) \/ UNCHANGED allVars
    BY <2>2, <2>3 DEF semVars, allVars
  <2>4. ASSUME NEW t \in Thread, NEW s \in Sem, SemCall(t, s) PROVE value'[h] = 0
    BY <1>1, <1>3, <2>1, <2>2, <2>4 DEF SemCall, TakeAvailable, TakeRefused,
       ReleaseToWaiter, ReleaseToValue, rt_sem_detach, rt_sem_control, semVars
  <2>5. ASSUME NEW t \in Thread, SemContinue(t) PROVE value'[h] = 0
    <3>1. CASE \E v \in ResetValue : ResetValueTo(t, v)
      BY <1>1, <2>1, <2>2, <3>1 DEF ResetValueTo, links
    <3>2. CASE ~\E v \in ResetValue : ResetValueTo(t, v)
      BY <2>2, <2>5, <3>2 DEF SemContinue, TakeSchedule, TakeReturn, ResumeAllOne,
         ResumeAllAgain, Reset, ResetOne, semVars
    <3> QED
      BY <3>1, <3>2
  <2> QED
    BY <2>3, <2>4, <2>5 DEF SemNext
<1> QED
  BY <1>2, <1>3

\* Nobody waits for a semaphore whose value is above zero: for any number of
\* threads and semaphores, with time-outs, detach, reset and thread suspension.
THEOREM NobodyWaitsForAvailable == SemSpec => []WaitersMeanZero
<1>1. SemInit => WaitersMeanZero
  BY DEF SemInit, Init, rt_system_scheduler_init, WaitersMeanZero, ListHead, Sem
<1> QED
  BY <1>1, MeanZeroStep, SemTypeStep, SemaphoreTyped, PTL DEF SemSpec

\* Joining at WaitPosition and leaving anywhere keep a priority list ordered.
LEMMA PrioOrderStep == SemTypeOK /\ PrioOrder /\ [SemNext]_allVars => PrioOrder'
<1> SUFFICES ASSUME SemTypeOK, PrioOrder, [SemNext]_allVars, NEW h \in Sem,
                    SemFlag[h] = "prio"
             PROVE  Ordered(tlist'[h])
  BY DEF PrioOrder, Ordered
<1>1. tlist[h] \in Seq(Thread) /\ Ordered(tlist[h])
  BY DEF SemTypeOK, TypeOK, ListHead, Sem, PrioOrder, Ordered
<1>2. \A x : Ordered(Without(tlist[h], x))
  BY <1>1, OrderedWithout
<1>3. ASSUME NEW t \in Thread, NEW s \in Sem, NEW time \in WaitTime, TakeBlock(t, s, time)
      PROVE  Ordered(tlist'[h])
  <2>1. CASE h # s
    BY <1>1, <1>2, <1>3, <2>1, BlockLists
  <2>2. CASE h = s
    <3>1. PICK l \in Seq(Thread) : /\ l = tlist[h] \/ l = Without(tlist[h], t)
                                   /\ tlist'[h] = InsertAt(l, WaitPosition(h, l, t), t)
      BY <1>3, <2>2, BlockLists
    <3>2. Ordered(l)
      BY <1>1, <1>2, <3>1
    <3> QED
      BY <3>1, <3>2, OrderedInsert
  <2> QED
    BY <2>1, <2>2
<1>4. CASE ~\E t \in Thread, s \in Sem, time \in WaitTime : TakeBlock(t, s, time)
  BY <1>1, <1>2, <1>4, SemShrinks DEF Shrinks
<1> QED
  BY <1>3, <1>4

\* The suspend list of a RT_IPC_FLAG_PRIO semaphore is ordered by urgency, so
\* rt_sem_release wakes the most urgent waiter, whoever joins or times out.
THEOREM MostUrgentIsFirst == SemSpec => []PrioOrder
<1>1. SemInit => PrioOrder
  BY DEF SemInit, Init, rt_system_scheduler_init, PrioOrder, ListHead, Sem
<1> QED
  BY <1>1, PrioOrderStep, SemTypeStep, SemaphoreTyped, PTL DEF SemSpec

=============================================================================
