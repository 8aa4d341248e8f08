---------------------------- MODULE RtTokens_proofs ----------------------------
(* Semaphores never hand out a token twice, whatever time limits, resets    *)
(* and detaches do; and when clients do no harm.                           *)
EXTENDS RtSemaphore_proofs, RtScheduler_proofs

\* Threads use semaphores, sleep, yield and reschedule; none of them uses the
\* scheduler lock or works on another thread; idle does not block.  The bound
\* on releases keeps the 16-bit value from wrapping.
SemOps == {"sem_take", "sem_release", "sem_reset", "sem_detach"}
ClientCalls ==
    /\ \A t \in Thread : Api[t] \subseteq
          (SemOps \X Sem) \cup ({"sleep", "yield", "schedule"} \X {NoThread})
    /\ \A s \in Sem : <<"sem_take", s>> \notin Api[idle]
    /\ <<"sleep", NoThread>> \notin Api[idle]
    /\ ReleaseMax <= SemValueMax

SemLabels == {"sem_schedule", "sem_woken", "sem_resume_all", "sem_resume_one", "sem_reset"}
Places == \A t \in Thread : pc[t].at \in {"user", "schedule"} \cup SemLabels

\* A thread is linked once, in its level or in a suspend list; the bitmap is exact.
InPlace == \A h \in ListHead : \A x \in Thread :
              Contains(tlist[h], x) => h = Priority[x] \/ h \in Sem
Lists == OnceIn(tlist) /\ InPlace /\ group = Nonempty(tlist) /\ ReadyIsListed

Waiting ==
    \A s \in Sem : \A x \in Thread : Contains(tlist[s], x) =>
        stat[x] = "suspend" /\ pc[x].arg = s /\ pc[x].at \in {"sem_schedule", "sem_woken"}

\* The running thread is ready, but for the moment before its rt_schedule.
RunsReady ==
    /\ isr # "none" => current_thread # NoThread
    /\ current_thread # NoThread =>
         /\ stat[idle] = "ready"
         /\ pc[current_thread].at \notin {"schedule", "sem_schedule"}
              => stat[current_thread] = "ready"

\* A time-out can take a granted token away; nothing adds one.
Ahead == \A s \in Sem : owed[s] >= value[s] + Cardinality(Granted(s))

Core == Places /\ lock_nest = 0 /\ Lists /\ Waiting /\ RunsReady /\ Ahead
TokenInv == NoFalseTake /\ (fault = "none" => Core)

-----------------------------------------------------------------------------
(* Sets and lists.                                                         *)

LEMMA Counting ==
  ASSUME NEW S \in SUBSET Thread
  PROVE  /\ Cardinality(S) \in Nat
         /\ \A T \in SUBSET S : Cardinality(T) <= Cardinality(S)
         /\ \A x \in Thread : Cardinality(S \cup {x}) <= Cardinality(S) + 1
         /\ \A x \in S : Cardinality(S \ {x}) = Cardinality(S) - 1
<1>1. IsFiniteSet(S)
  BY SemAssumption, FS_Subset
<1>2. Cardinality(S) \in Nat
  BY <1>1, FS_CardinalityType
<1>3. \A T \in SUBSET S : Cardinality(T) <= Cardinality(S)
  BY <1>1, FS_Subset
<1>4. \A x \in Thread : Cardinality(S \cup {x}) <= Cardinality(S) + 1
  BY <1>1, <1>2, FS_AddElement
<1>5. \A x \in S : Cardinality(S \ {x}) = Cardinality(S) - 1
  BY <1>1, FS_RemoveElement
<1> QED
  BY <1>2, <1>3, <1>4, <1>5

\* The levels and the semaphores are different heads.
LEMMA Heads ==
  /\ Prio \subseteq ListHead /\ Sem \subseteq ListHead /\ Sem \cap Prio = {}
  /\ \A x \in Thread : Priority[x] \in Prio /\ Priority[x] \in ListHead /\ Priority[x] \notin Sem
  /\ idle \in Thread /\ NoThread \notin Thread
BY ConstantsAssumption DEF ListHead, Sem

-----------------------------------------------------------------------------
(* What a step does to the lists.                                          *)

\* The thread that the bitmap and the lists choose is ready, if idle is.
IdleReady == stat[idle] = "ready"
ChosenReady ==
    to_thread(tlist, group) \in Thread /\ stat[to_thread(tlist, group)] = "ready"

LEMMA ChosenIsReady == TypeOK /\ Lists /\ IdleReady => ChosenReady
<1> SUFFICES ASSUME TypeOK, Lists, IdleReady PROVE ChosenReady
  OBVIOUS
<1>1. tlist \in [ListHead -> Seq(Thread)] /\ Contains(tlist[Priority[idle]], idle)
      /\ group = Nonempty(tlist)
  BY Heads DEF TypeOK, Lists, ReadyIsListed, IdleReady
<1>2. group # {}
  BY <1>1, Heads, NonemptyMembers
<1>3. to_thread(tlist, group) \in Thread
      /\ \E p \in Prio : Contains(tlist[p], to_thread(tlist, group))
  BY <1>1, <1>2, ChoiceIsFirst
<1> QED
  BY <1>3, Heads DEF Lists, InPlace, ReadyIsListed, ChosenReady

LEMMA ChosenIsReadyNext == TypeOK' /\ Lists' /\ IdleReady' => ChosenReady'
BY ChosenIsReady, PTL

\* x is unlinked and appended to its level.
LEMMA Relinked ==
  ASSUME TypeOK, Lists, NEW x \in Thread,
         rt_schedule_insert_thread(rt_list_remove(tlist, x), x)
  PROVE  /\ Lists' /\ stat' = [stat EXCEPT ![x] = "ready"]
         /\ \A h \in Sem, y \in Thread :
               Contains(tlist'[h], y) <=> Contains(tlist[h], y) /\ y # x
<1> DEFINE l == rt_list_remove(tlist, x)
<1>1. /\ tlist \in [ListHead -> Seq(Thread)] /\ l \in [ListHead -> Seq(Thread)]
      /\ OnceIn(tlist) /\ group \subseteq Prio /\ stat \in [Thread -> Stat]
  BY RemoveProperties DEF TypeOK, Lists
<1>2. /\ OnceIn(l) /\ ~IsLinked(l, x)
      /\ \A h \in ListHead, y \in Thread : Contains(l[h], y) <=> Contains(tlist[h], y) /\ y # x
  BY <1>1, Unlinked, RemovedMembers
<1>3. /\ tlist' = insert_ready(l, x) /\ group' = group \cup {Priority[x]}
      /\ stat' = [stat EXCEPT ![x] = "ready"]
  BY DEF rt_schedule_insert_thread
<1> HIDE DEF l
<1>4. /\ OnceIn(tlist') /\ tlist' \in [ListHead -> Seq(Thread)]
      /\ \A h \in ListHead, y \in Thread :
           Contains(tlist'[h], y) <=> (Contains(tlist[h], y) /\ y # x) \/ (y = x /\ h = Priority[x])
  <2>1. OnceIn(tlist') /\ tlist' \in [ListHead -> Seq(Thread)]
    BY <1>1, <1>2, <1>3, Linked, InsertProperties
  <2>2. \A h \in ListHead, y \in Thread :
          Contains(tlist'[h], y) <=> Contains(l[h], y) \/ (y = x /\ h = Priority[x])
    BY <1>1, <1>3, AddedMembers
  <2> QED
    BY <1>2, <2>1, <2>2
<1>5. InPlace'
  BY <1>4, Heads DEF InPlace, Lists
<1>6. ReadyIsListed'
  BY <1>1, <1>3, <1>4, Heads DEF ReadyIsListed, Lists
<1>7. group' = Nonempty(tlist')
  <2>1. ASSUME NEW p \in Prio PROVE p \in group' <=> p \in Nonempty(tlist')
    <3>1. p \in group <=> \E y \in Thread : Contains(tlist[p], y)
      BY <1>1, NonemptyMembers DEF Lists
    <3>2. p \in Nonempty(tlist') <=> \E y \in Thread : Contains(tlist'[p], y)
      BY <1>4, NonemptyMembers
    <3>3. Contains(tlist[p], x) => p = Priority[x]
      BY Heads DEF Lists, InPlace
    <3> QED
      BY <1>3, <1>4, <3>1, <3>2, <3>3, Heads
  <2>2. group' \subseteq Prio
    BY <1>1, <1>3, Heads
  <2> QED
    BY <2>1, <2>2 DEF Nonempty
<1> QED
  BY <1>3, <1>4, <1>5, <1>6, <1>7, Heads DEF Lists

\* The ready thread x leaves its level.
LEMMA Suspended ==
  ASSUME TypeOK, Lists, NEW x \in Thread, stat[x] = "ready", Suspend(x)
  PROVE  /\ Lists' /\ stat' = [stat EXCEPT ![x] = "suspend"]
         /\ \A h \in Sem, y \in Thread : Contains(tlist'[h], y) => Contains(tlist[h], y) /\ y # x
         /\ \A h \in Sem, y \in Thread : Contains(tlist[h], y) /\ y # x => Contains(tlist'[h], y)
<1>1. /\ tlist \in [ListHead -> Seq(Thread)]
      /\ OnceIn(tlist) /\ group \subseteq Prio /\ stat \in [Thread -> Stat]
  BY DEF TypeOK, Lists
<1>2. /\ tlist' = rt_list_remove(tlist, x) /\ stat' = [stat EXCEPT ![x] = "suspend"]
      /\ group' = IF tlist'[Priority[x]] = <<>> THEN group \ {Priority[x]} ELSE group
  BY DEF Suspend, rt_schedule_remove_thread, NumberMask
<1>3. /\ OnceIn(tlist') /\ tlist' \in [ListHead -> Seq(Thread)]
      /\ \A h \in ListHead, y \in Thread : Contains(tlist'[h], y) <=> Contains(tlist[h], y) /\ y # x
  BY <1>1, <1>2, Unlinked, RemovedMembers, RemoveProperties
<1>4. InPlace'
  BY <1>3 DEF InPlace, Lists
<1>5. ReadyIsListed'
  BY <1>1, <1>2, <1>3, Heads DEF ReadyIsListed, Lists
<1>6. group' = Nonempty(tlist')
  <2>1. ASSUME NEW p \in Prio PROVE p \in group' <=> p \in Nonempty(tlist')
    <3>1. p \in group <=> \E y \in Thread : Contains(tlist[p], y)
      BY <1>1, NonemptyMembers DEF Lists
    <3>2. p \in Nonempty(tlist') <=> \E y \in Thread : Contains(tlist'[p], y)
      BY <1>3, NonemptyMembers
    <3>3. Contains(tlist[p], x) => p = Priority[x]
      BY Heads DEF Lists, InPlace
    <3>4. CASE p = Priority[x]
      <4>1. p \in group
        BY <3>1, <3>4 DEF Lists, ReadyIsListed
      <4>2. p \in Nonempty(tlist') <=> tlist'[p] # <<>>
        BY DEF Nonempty
      <4> QED
        BY <1>2, <3>4, <4>1, <4>2
    <3>5. CASE p # Priority[x]
      BY <1>2, <1>3, <3>1, <3>2, <3>3, <3>5, Heads
    <3> QED
      BY <3>4, <3>5
  <2>2. group' \subseteq Prio
    BY <1>1, <1>2
  <2> QED
    BY <2>1, <2>2 DEF Nonempty
<1> QED
  BY <1>2, <1>3, <1>4, <1>5, <1>6, Heads DEF Lists

\* The ready thread x goes to the end of its level: the members stay.
LEMMA Moved ==
  ASSUME TypeOK, Lists, NEW x \in Thread, stat[x] = "ready", MoveToTail(x)
  PROVE  /\ Lists' /\ stat' = stat
         /\ \A h \in Sem, y \in Thread : Contains(tlist'[h], y) <=> Contains(tlist[h], y)
<1> DEFINE l == rt_list_remove(tlist, x)
<1>1. /\ tlist \in [ListHead -> Seq(Thread)] /\ l \in [ListHead -> Seq(Thread)]
      /\ OnceIn(tlist) /\ group \subseteq Prio
  BY RemoveProperties DEF TypeOK, Lists
<1>2. /\ OnceIn(l) /\ ~IsLinked(l, x)
      /\ \A h \in ListHead, y \in Thread : Contains(l[h], y) <=> Contains(tlist[h], y) /\ y # x
  BY <1>1, Unlinked, RemovedMembers
<1>3. tlist' = insert_ready(l, x) /\ group' = group /\ stat' = stat
  BY DEF MoveToTail
<1> HIDE DEF l
<1>4. /\ OnceIn(tlist') /\ tlist' \in [ListHead -> Seq(Thread)]
      /\ \A h \in ListHead, y \in Thread :
           Contains(tlist'[h], y) <=> (Contains(tlist[h], y) /\ y # x) \/ (y = x /\ h = Priority[x])
  <2>1. OnceIn(tlist') /\ tlist' \in [ListHead -> Seq(Thread)]
    BY <1>1, <1>2, <1>3, Linked, InsertProperties
  <2>2. \A h \in ListHead, y \in Thread :
          Contains(tlist'[h], y) <=> Contains(l[h], y) \/ (y = x /\ h = Priority[x])
    BY <1>1, <1>3, AddedMembers
  <2> QED
    BY <1>2, <2>1, <2>2
<1>5. /\ Contains(tlist[Priority[x]], x)
      /\ \A h \in ListHead : Contains(tlist[h], x) => h = Priority[x]
  BY <1>1, Heads, OnceMembership DEF Lists, ReadyIsListed
<1>6. \A h \in ListHead, y \in Thread : Contains(tlist'[h], y) <=> Contains(tlist[h], y)
  BY <1>4, <1>5
<1>7. InPlace' /\ ReadyIsListed'
  BY <1>3, <1>6, Heads DEF InPlace, ReadyIsListed, Lists
<1>8. Nonempty(tlist') = Nonempty(tlist)
  <2>1. ASSUME NEW p \in Prio PROVE p \in Nonempty(tlist') <=> p \in Nonempty(tlist)
    BY <1>1, <1>4, <1>6, NonemptyMembers, Heads
  <2> QED
    BY <2>1 DEF Nonempty
<1> QED
  BY <1>3, <1>4, <1>6, <1>7, <1>8, Heads DEF Lists

\* The ready thread t goes from its level to the suspend list of s.
LEMMA JoinedWaiters ==
  ASSUME TypeOK, Lists, NEW s \in Sem, NEW t \in Thread, stat[t] = "ready",
         rt_ipc_list_suspend(s, t), fault = "none"
  PROVE  /\ Lists' /\ stat' = [stat EXCEPT ![t] = "suspend"] /\ fault' = "none"
         /\ \A h \in Sem, y \in Thread :
               Contains(tlist'[h], y) <=> (Contains(tlist[h], y) /\ y # t) \/ (y = t /\ h = s)
<1> DEFINE l == rt_list_remove(tlist, t)
           k == WaitPosition(s, l[s], t)
<1>1. /\ tlist \in [ListHead -> Seq(Thread)] /\ l \in [ListHead -> Seq(Thread)]
      /\ OnceIn(tlist) /\ group \subseteq Prio /\ stat \in [Thread -> Stat]
  BY RemoveProperties DEF TypeOK, Lists
<1>2. /\ OnceIn(l) /\ ~IsLinked(l, t)
      /\ \A h \in ListHead, y \in Thread : Contains(l[h], y) <=> Contains(tlist[h], y) /\ y # t
  BY <1>1, Unlinked, RemovedMembers
<1>3. /\ tlist' = [l EXCEPT ![s] = InsertAt(l[s], k, t)]
      /\ stat' = [stat EXCEPT ![t] = "suspend"]
      /\ group' = IF l[Priority[t]] = <<>> THEN group \ {Priority[t]} ELSE group
      /\ fault' = "none"
  BY <1>2 DEF rt_ipc_list_suspend
<1>4. k \in 1 .. Len(l[s]) + 1 /\ l[s] \in Seq(Thread)
  BY <1>1, WaitPlace, Heads
<1> HIDE DEF l, k
<1>5. /\ InsertAt(l[s], k, t) \in Seq(Thread) /\ Distinct(InsertAt(l[s], k, t))
      /\ \A y : Contains(InsertAt(l[s], k, t), y) <=> Contains(l[s], y) \/ y = t
  <2>1. Distinct(l[s]) /\ ~Contains(l[s], t)
    BY <1>1, <1>2, OnceMembership, Heads DEF IsLinked
  <2> QED
    BY <1>4, <2>1, InsertMembers, InsertAtProperties
<1>6. /\ tlist' \in [ListHead -> Seq(Thread)]
      /\ \A h \in ListHead : tlist'[h] = IF h = s THEN InsertAt(l[s], k, t) ELSE l[h]
  BY <1>1, <1>3, <1>5, Heads
<1>7. \A h \in ListHead, y \in Thread :
        Contains(tlist'[h], y) <=> (Contains(tlist[h], y) /\ y # t) \/ (y = t /\ h = s)
  BY <1>2, <1>5, <1>6, Heads
<1>8. OnceIn(tlist')
  <2>1. \A h \in ListHead : Distinct(tlist'[h])
    BY <1>1, <1>2, <1>5, <1>6, OnceMembership
  <2>2. \A g, h \in ListHead : \A x \in Thread :
          Contains(tlist'[g], x) /\ Contains(tlist'[h], x) => g = h
    BY <1>1, <1>7, OnceMembership
  <2> QED
    BY <1>6, <2>1, <2>2, OnceMembership
<1>9. InPlace' /\ ReadyIsListed'
  BY <1>1, <1>3, <1>7, Heads DEF InPlace, ReadyIsListed, Lists
<1>10. group' = Nonempty(tlist')
  <2>1. ASSUME NEW p \in Prio PROVE p \in group' <=> p \in Nonempty(tlist')
    <3>1. p \in group <=> \E y \in Thread : Contains(tlist[p], y)
      BY <1>1, NonemptyMembers DEF Lists
    <3>2. p \in Nonempty(tlist') <=> \E y \in Thread : Contains(tlist'[p], y)
      BY <1>6, NonemptyMembers
    <3>3. (Contains(tlist[p], t) => p = Priority[t]) /\ p # s /\ p \in ListHead
      BY Heads DEF Lists, InPlace
    <3>4. CASE p = Priority[t]
      <4>1. p \in group
        BY <3>1, <3>4 DEF Lists, ReadyIsListed
      <4>2. p \in Nonempty(tlist') <=> l[p] # <<>>
        BY <1>6, <3>3 DEF Nonempty
      <4> QED
        BY <1>3, <3>4, <4>1, <4>2
    <3>5. CASE p # Priority[t]
      BY <1>3, <1>7, <3>1, <3>2, <3>3, <3>5
    <3> QED
      BY <3>4, <3>5
  <2>2. group' \subseteq Prio
    BY <1>1, <1>3
  <2> QED
    BY <2>1, <2>2 DEF Nonempty
<1> QED
  BY <1>3, <1>7, <1>8, <1>9, <1>10, Heads DEF Lists

-----------------------------------------------------------------------------
(* What the steps have in common.                                          *)

State == SemTypeOK /\ Core /\ fault = "none"
InTake(x) == pc[x].at \in {"sem_schedule", "sem_woken"}
WaitsRightly(s, x) == stat[x] = "suspend" /\ pc[x].arg = s /\ InTake(x)

\* The step leaves y where it is.
Same(y) == /\ pc'[y] = pc[y] /\ error'[y] = error[y] /\ stat'[y] = stat[y]
           /\ \A s \in Sem : Contains(tlist'[s], y) <=> Contains(tlist[s], y)

\* Threads a step leaves alone wait and hold granted tokens as before.
LEMMA Others ==
  ASSUME Waiting, NEW X, \A y \in Thread \ X : Same(y)
  PROVE  /\ \A s \in Sem : Granted(s)' \ X = Granted(s) \ X
         /\ (\A s \in Sem : \A x \in X \cap Thread : Contains(tlist'[s], x) => WaitsRightly(s, x)')
              => Waiting'
<1>1. ASSUME NEW s \in Sem PROVE Granted(s)' \ X = Granted(s) \ X
  <2>1. \A y \in Thread \ X : y \in Granted(s)' <=> y \in Granted(s)
    BY DEF Granted, Same
  <2> QED
    BY <2>1 DEF Granted
<1>2. \A s \in Sem, y \in Thread \ X : Contains(tlist'[s], y) => WaitsRightly(s, y)'
  BY DEF Same, Waiting, WaitsRightly, InTake
<1> QED
  BY <1>1, <1>2 DEF Waiting, WaitsRightly, InTake

\* No token is spent or made, and nobody is granted one.
LEMMA AheadStays ==
  ASSUME SemTypeOK, Ahead, value' = value, owed' = owed,
         \A s \in Sem : Granted(s)' \subseteq Granted(s)
  PROVE  Ahead'
<1> SUFFICES ASSUME NEW s \in Sem
             PROVE  owed[s] >= value[s] + Cardinality(Granted(s)')
  BY DEF Ahead
<1>1. Granted(s) \in SUBSET Thread /\ Granted(s)' \in SUBSET Thread
  BY DEF Granted
<1>2. /\ Cardinality(Granted(s)) \in Nat /\ Cardinality(Granted(s)') \in Nat
      /\ Cardinality(Granted(s)') <= Cardinality(Granted(s))
  BY <1>1, Counting
<1>3. owed[s] \in Int /\ value[s] \in Int /\ owed[s] >= value[s] + Cardinality(Granted(s))
  BY DEF SemTypeOK, Ahead
<1> QED
  BY <1>2, <1>3

LEMMA AheadIsEnough == SemTypeOK /\ Ahead => NoFalseTake
<1> SUFFICES ASSUME SemTypeOK, Ahead, NEW s \in Sem PROVE owed[s] >= value[s]
  BY DEF NoFalseTake
<1>1. owed[s] \in Int /\ value[s] \in Int /\ owed[s] >= value[s] + Cardinality(Granted(s))
  BY DEF SemTypeOK, Ahead
<1>2. Cardinality(Granted(s)) \in Nat
  BY GrantedCount
<1> QED
  BY <1>1, <1>2

\* rt_schedule gives the CPU to a ready thread.
LEMMA DispatchesReady ==
  ASSUME TypeOK', Lists', IdleReady', lock_nest = 0, rt_schedule(tlist', group'),
         fault = "none"
  PROVE  fault' = "none" /\ RunsReady'
<1>1. ChosenReady'
  BY ChosenIsReadyNext
<1>2. /\ to_thread(tlist', group') \in Thread
      /\ stat'[to_thread(tlist', group')] = "ready"
  BY <1>1 DEF ChosenReady, to_thread
<1>3. current_thread' = to_thread(tlist', group') /\ current_thread' # NoThread
  BY <1>2, Heads DEF rt_schedule
<1> QED
  BY <1>2, <1>3 DEF rt_schedule, RunsReady, IdleReady

\* The running thread, but for the moment before its rt_schedule.
LEMMA Runner ==
  ASSUME State, NEW t \in Thread, current_thread = t
  PROVE  /\ IdleReady
         /\ pc[t].at \notin {"schedule", "sem_schedule"}
              => stat[t] = "ready" /\ \A s \in Sem : ~Contains(tlist[s], t)
BY Heads DEF State, Core, RunsReady, Waiting, IdleReady

\* t goes on to place p.
LEMMA GoesTo ==
  ASSUME State, NEW t \in Thread, NEW p, Goto(t, p),
         p.at \in {"user", "schedule"} \cup SemLabels
  PROVE  Places' /\ pc'[t] = p /\ \A y \in Thread \ {t} : pc'[y] = pc[y]
BY DEF State, SemTypeOK, TypeOK, Core, Places, Goto

LEMMA Labels ==
  /\ User.at = "user" /\ AtSchedule.at = "schedule"
  /\ \A s : /\ At("sem_schedule", s, "user").at = "sem_schedule"
            /\ At("sem_schedule", s, "user").arg = s
            /\ \A l \in {"sem_woken", "sem_resume_all", "sem_resume_one", "sem_reset"} :
                  At(l, s, "user").at = l /\ At(l, s, "user").arg = s
BY DEF User, AtSchedule, At

-----------------------------------------------------------------------------
(* The steps of the kernel core.                                           *)

CoreNext == Core' /\ fault' = "none"

\* Nobody but x changes, and x neither waits nor holds a token afterwards.
LEMMA OneMoves ==
  ASSUME State, NEW x \in Thread, \A y \in Thread \ {x} : Same(y),
         value' = value, owed' = owed,
         \A s \in Sem : ~Contains(tlist'[s], x) /\ (x \in Granted(s)' => x \in Granted(s))
  PROVE  Waiting' /\ Ahead'
<1> DEFINE X == {x}
<1>1. Waiting /\ (\A y \in Thread \ X : Same(y)) /\ (\A y \in X \cap Thread : y = x)
  BY DEF State, Core
<1> HIDE DEF X
<1>2. /\ \A s \in Sem : Granted(s)' \ X = Granted(s) \ X
      /\ (\A s \in Sem : \A y \in X \cap Thread : Contains(tlist'[s], y) => WaitsRightly(s, y)')
           => Waiting'
  BY <1>1, Others
<1>3. Waiting'
  BY <1>1, <1>2
<1>4. \A s \in Sem : Granted(s)' \subseteq Granted(s)
  BY <1>2 DEF X
<1> QED
  BY <1>3, <1>4, AheadStays DEF State, Core

\* A thread out of the suspend lists goes on to a place outside rt_sem_take.
LEMMA GoesOn ==
  ASSUME State, NEW t \in Thread, NEW p, Goto(t, p), error' = error,
         p.at \in {"user", "schedule", "sem_resume_all", "sem_resume_one", "sem_reset"},
         \A y \in Thread \ {t} : stat'[y] = stat[y],
         \A s \in Sem, y \in Thread \ {t} : Contains(tlist'[s], y) <=> Contains(tlist[s], y),
         \A s \in Sem : ~Contains(tlist'[s], t),
         value' = value, owed' = owed
  PROVE  Places' /\ Waiting' /\ Ahead'
<1>1. Places' /\ pc'[t] = p /\ \A y \in Thread \ {t} : pc'[y] = pc[y]
  BY GoesTo DEF SemLabels
<1>2. \A y \in Thread \ {t} : Same(y)
  BY <1>1 DEF Same
<1>3. \A s \in Sem : t \notin Granted(s)'
  BY <1>1 DEF Granted
<1> QED
  BY <1>1, <1>2, <1>3, OneMoves

LEMMA BootKeepsCore ==
  ASSUME State, TypeOK', UNCHANGED semVars, Boot
  PROVE  CoreNext
<1> USE DEF State
<1>1. ASSUME NEW x \in Thread, BootStartup(x) PROVE CoreNext
  <2>1. /\ rt_schedule_insert_thread(rt_list_remove(tlist, x), x) /\ stat[x] = "init"
        /\ UNCHANGED <<sched, error, pc, isr, fault>> /\ current_thread = NoThread
    BY <1>1 DEF BootStartup
  <2>2. /\ Lists' /\ stat' = [stat EXCEPT ![x] = "ready"]
        /\ \A h \in Sem, y \in Thread :
              Contains(tlist'[h], y) <=> Contains(tlist[h], y) /\ y # x
    BY <2>1, Relinked DEF SemTypeOK, Core
  <2>3. \A s \in Sem : ~Contains(tlist[s], x)
    BY <2>1 DEF Core, Waiting
  <2>4. \A y \in Thread \ {x} : Same(y)
    BY <2>1, <2>2 DEF Same, SemTypeOK, TypeOK
  <2>5. \A s \in Sem : x \in Granted(s)' => x \in Granted(s)
    BY <2>1, <2>3 DEF Granted
  <2>6. Waiting' /\ Ahead'
    BY <2>2, <2>4, <2>5, OneMoves DEF semVars
  <2>7. RunsReady'
    BY <2>1 DEF RunsReady, Core, sched
  <2> QED
    BY <2>1, <2>2, <2>6, <2>7 DEF CoreNext, Core, Places, sched
<1>2. CASE rt_system_scheduler_start
  <2>1. /\ UNCHANGED <<links, lock_nest, error, pc, isr, fault>> /\ IdleReady
        /\ current_thread' = to_thread(tlist, group)
    BY <1>2, ConstantsAssumption DEF rt_system_scheduler_start, IdleReady
  <2>2. ChosenReady
    BY <2>1, ChosenIsReady DEF SemTypeOK, Core
  <2>3. RunsReady'
    BY <2>1, <2>2, Heads DEF RunsReady, ChosenReady, IdleReady, links
  <2>4. \A y \in Thread \ {} : Same(y)
    BY <2>1 DEF Same, links
  <2>5. Waiting'
    BY <2>4, Others DEF Core
  <2>6. Ahead'
    BY <2>1 DEF Core, Ahead, Granted, links, semVars
  <2> QED
    BY <2>1, <2>3, <2>5, <2>6
       DEF CoreNext, Core, Lists, InPlace, ReadyIsListed, Places, links
<1> QED
  BY <1>1, <1>2 DEF Boot

LEMMA TickKeepsCore ==
  ASSUME State, TypeOK', UNCHANGED semVars, rt_tick_increase
  PROVE  CoreNext
<1> USE DEF State
<1> DEFINE t == current_thread
<1>1. t \in Thread /\ UNCHANGED <<lock_nest, error, pc>> /\ current_thread # NoThread
  BY DEF rt_tick_increase, SemTypeOK, TypeOK
<1>2. CASE SliceEnds /\ CanYield(t)
  <2>1. MoveToTail(t) /\ stat[t] = "ready" /\ rt_schedule(tlist', group)
    BY <1>2 DEF rt_tick_increase, CanYield
  <2>2. /\ Lists' /\ stat' = stat /\ group' = group
        /\ \A h \in Sem, y \in Thread : Contains(tlist'[h], y) <=> Contains(tlist[h], y)
    BY <1>1, <2>1, Moved DEF SemTypeOK, Core, MoveToTail
  <2>3. IdleReady'
    BY <1>1, <2>2, Runner DEF IdleReady
  <2>4. fault' = "none" /\ RunsReady'
    BY <2>1, <2>2, <2>3, DispatchesReady DEF Core
  <2>5. Waiting' /\ Ahead'
    BY <1>1, <2>2 DEF Core, Waiting, Ahead, Granted, semVars
  <2> QED
    BY <1>1, <2>2, <2>4, <2>5 DEF CoreNext, Core, Places
<1>3. CASE ~(SliceEnds /\ CanYield(t))
  <2>1. UNCHANGED <<links, current_thread, fault>>
    BY <1>3 DEF rt_tick_increase
  <2>2. RunsReady'
    BY <1>1, <2>1 DEF RunsReady, Core, links
  <2>3. Waiting' /\ Ahead'
    BY <1>1, <2>1 DEF Core, Waiting, Ahead, Granted, semVars, links
  <2> QED
    BY <1>1, <2>1, <2>2, <2>3
       DEF CoreNext, Core, Lists, InPlace, ReadyIsListed, Places, links
<1> QED
  BY <1>2, <1>3

\* A time-out takes the thread out of its suspend list, and the token it may
\* have been granted with it.
LEMMA TimeoutKeepsCore ==
  ASSUME State, TypeOK', UNCHANGED semVars, rt_thread_timeout
  PROVE  CoreNext
<1> USE DEF State
<1>1. Head(timer_list) \in Thread
  BY HeadTailProperties DEF rt_thread_timeout, Expired, SemTypeOK, TypeOK
<1> PICK x \in Thread : x = Head(timer_list)
  BY <1>1
<1>2. /\ error' = [error EXCEPT ![x] = "timeout"]
      /\ rt_schedule_insert_thread(rt_list_remove(tlist, x), x)
      /\ rt_schedule(tlist', group')
      /\ UNCHANGED <<lock_nest, pc, isr>> /\ isr = "timer_check"
  BY DEF rt_thread_timeout
<1>3. /\ Lists' /\ stat' = [stat EXCEPT ![x] = "ready"]
      /\ \A h \in Sem, y \in Thread :
            Contains(tlist'[h], y) <=> Contains(tlist[h], y) /\ y # x
  BY <1>2, Relinked DEF SemTypeOK, Core
<1>4. stat[idle] = "ready" /\ stat \in [Thread -> Stat]
      /\ error \in [Thread -> {"ok", "timeout", "error"}]
  BY <1>2 DEF Core, RunsReady, SemTypeOK, TypeOK
<1>5. IdleReady'
  BY <1>3, <1>4, Heads DEF IdleReady
<1>6. fault' = "none" /\ RunsReady'
  BY <1>2, <1>3, <1>5, DispatchesReady DEF Core
<1>7. \A y \in Thread \ {x} : Same(y)
  BY <1>2, <1>3, <1>4 DEF Same
<1>8. \A s \in Sem : x \notin Granted(s)'
  BY <1>2, <1>4 DEF Granted
<1>9. Waiting' /\ Ahead'
  BY <1>3, <1>7, <1>8, OneMoves DEF semVars
<1> QED
  BY <1>2, <1>3, <1>6, <1>9 DEF CoreNext, Core, Places

LEMMA SysTickKeepsCore ==
  ASSUME State, TypeOK', UNCHANGED semVars, SysTick
  PROVE  CoreNext
<1>1. CASE rt_timer_check_done
  <2>1. isr' = "none" /\ UNCHANGED <<links, sched, error, pc, fault>>
    BY <1>1 DEF rt_timer_check_done
  <2>2. RunsReady'
    BY <2>1 DEF State, Core, RunsReady, links, sched
  <2>3. Waiting' /\ Ahead'
    BY <2>1 DEF State, Core, Waiting, Ahead, Granted, semVars, links
  <2> QED
    BY <2>1, <2>2, <2>3
       DEF CoreNext, State, Core, Lists, InPlace, ReadyIsListed, Places, links, sched
<1> QED
  BY <1>1, TickKeepsCore, TimeoutKeepsCore DEF SysTick

\* A call that ends in rt_schedule, or is nothing else.
LEMMA ScheduleKeepsCore ==
  ASSUME State, TypeOK', UNCHANGED semVars, NEW t \in Thread,
         call_rt_schedule(t) \/ Reschedule(t)
  PROVE  CoreNext
<1>1. /\ rt_schedule(tlist', group') /\ current_thread = t
      /\ UNCHANGED <<links, lock_nest, error, isr>>
  BY DEF call_rt_schedule, Reschedule, Calls, Running, links
<1>2. Lists' /\ stat' = stat
  BY <1>1 DEF State, Core, Lists, InPlace, ReadyIsListed, links
<1>3. IdleReady'
  BY <1>1, <1>2, Runner DEF IdleReady
<1>4. fault' = "none" /\ RunsReady'
  BY <1>1, <1>2, <1>3, DispatchesReady DEF State, Core
<1>5. Places' /\ Waiting' /\ Ahead'
  <2>1. CASE call_rt_schedule(t)
    <3>1. pc' = pc
      BY <2>1 DEF call_rt_schedule
    <3> QED
      BY <1>1, <3>1 DEF State, Core, Places, Waiting, Ahead, Granted, semVars, links
  <2>2. CASE Reschedule(t)
    <3>1. Goto(t, User) /\ pc[t].at = "schedule"
      BY <2>2 DEF Reschedule
    <3>2. \A s \in Sem : ~Contains(tlist'[s], t)
      BY <1>1, <3>1 DEF State, Core, Waiting, links
    <3> QED
      BY <1>1, <3>1, <3>2, GoesOn, Labels DEF semVars, links
  <2> QED
    BY <2>1, <2>2
<1> QED
  BY <1>1, <1>2, <1>4, <1>5 DEF CoreNext, State, Core

\* The clients call no other operation of the kernel core.
LEMMA CallsOfClients ==
  ASSUME ClientCalls, State, NEW t \in Thread, Call(t) \/ Continue(t)
  PROVE  \/ \E tick \in Delay : rt_thread_sleep(t, tick)
         \/ rt_thread_yield(t) \/ call_rt_schedule(t) \/ Reschedule(t)
<1>1. ASSUME NEW x \in Thread, OnTarget(t, x) PROVE FALSE
  <2>1. \E op \in {"resume", "startup", "suspend", "delete", "detach"} : <<op, x>> \in Api[t]
    BY <1>1 DEF OnTarget, rt_thread_resume, rt_thread_startup, rt_thread_suspend,
       rt_thread_delete, rt_thread_detach, CloseThread, Calls
  <2> QED
    BY <2>1 DEF ClientCalls, SemOps
<1>2. ASSUME rt_enter_critical(t) \/ rt_exit_critical(t) PROVE FALSE
  <2>1. \E op \in {"lock", "unlock"} : <<op, NoThread>> \in Api[t]
    BY <1>2 DEF rt_enter_critical, rt_exit_critical, Calls
  <2> QED
    BY <2>1 DEF ClientCalls, SemOps
<1>3. pc[t].at \in {"user", "schedule"} \cup SemLabels
  BY DEF State, Core, Places
<1>4. CASE Continue(t)
  BY <1>3, <1>4 DEF Continue, SemLabels, ResumeRemove, ResumeInsert, StartupResume,
     SuspendCrit, CloseRemove, CloseTimer, CloseStat, CloseList
<1> QED
  BY <1>1, <1>2, <1>4 DEF Call

LEMMA KernelKeepsCore ==
  ASSUME ClientCalls, State, TypeOK', UNCHANGED semVars, Next
  PROVE  CoreNext
<1>1. ASSUME NEW t \in Thread, NEW tick \in Delay, rt_thread_sleep(t, tick) PROVE CoreNext
  <2>1. /\ current_thread = t /\ pc[t] = User /\ <<"sleep", NoThread>> \in Api[t]
        /\ Goto(t, AtSchedule) /\ UNCHANGED <<sched, error, isr, fault>>
        /\ IF stat[t] = "ready" THEN Suspend(t) ELSE UNCHANGED links
    BY <1>1 DEF rt_thread_sleep, Calls, Running, AtSchedule
  <2>2. t # idle /\ stat[t] = "ready" /\ IdleReady
    BY <2>1, Runner, Labels DEF ClientCalls
  <2>3. /\ Lists' /\ stat' = [stat EXCEPT ![t] = "suspend"]
        /\ \A h \in Sem, y \in Thread : Contains(tlist'[h], y) => Contains(tlist[h], y) /\ y # t
        /\ \A h \in Sem, y \in Thread : Contains(tlist[h], y) /\ y # t => Contains(tlist'[h], y)
    BY <2>1, <2>2, Suspended DEF State, SemTypeOK, Core
  <2>4. stat \in [Thread -> Stat]
    BY DEF State, SemTypeOK, TypeOK
  <2>5. Places' /\ Waiting' /\ Ahead'
    BY <2>1, <2>3, <2>4, GoesOn, Labels DEF semVars
  <2>6. pc'[t] = AtSchedule
    BY <2>1, GoesTo, Labels
  <2>7. RunsReady'
    BY <2>1, <2>2, <2>3, <2>4, <2>6, Heads, Labels DEF RunsReady, IdleReady, sched
  <2> QED
    BY <2>1, <2>3, <2>5, <2>7 DEF CoreNext, State, Core, sched
<1>2. ASSUME NEW t \in Thread, rt_thread_yield(t) PROVE CoreNext
  <2>1. /\ current_thread = t /\ stat[t] = "ready" /\ MoveToTail(t)
        /\ Goto(t, AtSchedule) /\ UNCHANGED <<sched, error, isr, fault>> /\ pc[t] = User
    BY <1>2 DEF rt_thread_yield, Calls, Running, CanYield, AtSchedule
  <2>2. IdleReady /\ \A s \in Sem : ~Contains(tlist[s], t)
    BY <2>1, Runner, Labels
  <2>3. /\ Lists' /\ stat' = stat
        /\ \A h \in Sem, y \in Thread : Contains(tlist'[h], y) <=> Contains(tlist[h], y)
    BY <2>1, Moved DEF State, SemTypeOK, Core
  <2>4. Places' /\ Waiting' /\ Ahead'
    BY <2>1, <2>2, <2>3, GoesOn, Labels DEF semVars
  <2>5. RunsReady'
    BY <2>1, <2>2, <2>3, Heads DEF RunsReady, IdleReady, sched
  <2> QED
    BY <2>1, <2>3, <2>4, <2>5 DEF CoreNext, State, Core, sched
<1> QED
  BY <1>1, <1>2, ScheduleKeepsCore, CallsOfClients, BootKeepsCore, SysTickKeepsCore DEF Next

-----------------------------------------------------------------------------
(* The steps of the semaphore calls.                                       *)

\* Nobody but t and x changes, and neither is in a suspend list afterwards.
LEMMA TwoMove ==
  ASSUME State, NEW t \in Thread, NEW x \in Thread, \A y \in Thread \ {t, x} : Same(y),
         \A s \in Sem : ~Contains(tlist'[s], t) /\ ~Contains(tlist'[s], x)
  PROVE  Waiting' /\ \A s \in Sem : Granted(s)' \ {t, x} = Granted(s) \ {t, x}
<1> DEFINE X == {t, x}
<1>1. /\ Waiting /\ (\A y \in Thread \ X : Same(y))
      /\ \A s \in Sem : \A y \in X \cap Thread : ~Contains(tlist'[s], y)
  BY DEF State, Core
<1> HIDE DEF X
<1>2. /\ \A s \in Sem : Granted(s)' \ X = Granted(s) \ X
      /\ (\A s \in Sem : \A y \in X \cap Thread : Contains(tlist'[s], y) => WaitsRightly(s, y)')
           => Waiting'
  BY <1>1, Others
<1>3. Waiting'
  BY <1>1, <1>2
<1> QED
  BY <1>2, <1>3 DEF X

\* Only the value and the count of tokens change.
LEMMA KernelStays ==
  ASSUME State, UNCHANGED vars
  PROVE  /\ Places' /\ lock_nest' = 0 /\ Lists' /\ Waiting' /\ RunsReady' /\ fault' = "none"
         /\ \A s \in Sem : Granted(s)' = Granted(s)
BY DEF State, Core, Places, Lists, InPlace, ReadyIsListed, Waiting, RunsReady, Granted,
   vars, links, sched

LEMMA QuickTakesKeepCore ==
  ASSUME ClientCalls, State, NEW t \in Thread, NEW s \in Sem,
         TakeAvailable(t, s) \/ TakeRefused(t, s) \/ ReleaseToValue(t, s)
  PROVE  CoreNext
<1>1. UNCHANGED vars
  BY DEF TakeAvailable, TakeRefused, ReleaseToValue
<1>2. /\ value \in [Sem -> 0 .. SemValueMax] /\ owed \in [Sem -> Int]
      /\ ReleaseMax \in Nat /\ SemValueMax \in Nat /\ ReleaseMax <= SemValueMax
  BY SemAssumption DEF State, SemTypeOK, ClientCalls
<1>3. \A h \in Sem : /\ Cardinality(Granted(h)) \in Nat
                     /\ owed[h] >= value[h] + Cardinality(Granted(h))
  BY GrantedCount DEF State, Core, Ahead
<1>4. \A h \in Sem : owed'[h] >= value'[h] + Cardinality(Granted(h))
  <2>1. CASE TakeAvailable(t, s)
    BY <1>2, <1>3, <2>1 DEF TakeAvailable
  <2>2. CASE TakeRefused(t, s)
    BY <1>3, <2>2 DEF TakeRefused
  <2>3. CASE ReleaseToValue(t, s)
    BY <1>2, <1>3, <2>3 DEF ReleaseToValue
  <2> QED
    BY <2>1, <2>2, <2>3
<1>5. /\ Places' /\ lock_nest' = 0 /\ Lists' /\ Waiting' /\ RunsReady' /\ fault' = "none"
      /\ \A h \in Sem : Granted(h)' = Granted(h)
  BY <1>1, KernelStays
<1>6. Ahead'
  BY <1>4, <1>5 DEF Ahead
<1> QED
  BY <1>5, <1>6 DEF CoreNext, Core

LEMMA BlockKeepsCore ==
  ASSUME ClientCalls, State, NEW t \in Thread, NEW s \in Sem, NEW time \in WaitTime,
         TakeBlock(t, s, time)
  PROVE  CoreNext
<1> DEFINE X == {t}
           p == At("sem_schedule", s, "user")
<1>1. /\ current_thread = t /\ pc[t] = User /\ <<"sem_take", s>> \in Api[t]
      /\ error' = [error EXCEPT ![t] = "ok"] /\ rt_ipc_list_suspend(s, t)
      /\ Goto(t, p) /\ UNCHANGED <<sched, isr, semVars>> /\ fault = "none"
  BY DEF TakeBlock, Calls, Running
<1>2. t # idle /\ stat[t] = "ready" /\ IdleReady
      /\ stat \in [Thread -> Stat] /\ error \in [Thread -> {"ok", "timeout", "error"}]
  BY <1>1, Runner, Labels DEF ClientCalls, State, SemTypeOK, TypeOK
<1>3. /\ Lists' /\ stat' = [stat EXCEPT ![t] = "suspend"] /\ fault' = "none"
      /\ \A h \in Sem, y \in Thread :
            Contains(tlist'[h], y) <=> (Contains(tlist[h], y) /\ y # t) \/ (y = t /\ h = s)
  BY <1>1, <1>2, JoinedWaiters DEF State, SemTypeOK, Core
<1>4. p.at = "sem_schedule" /\ p.arg = s
  BY Labels
<1> HIDE DEF p
<1>5. Places' /\ pc'[t] = p /\ \A y \in Thread \ {t} : pc'[y] = pc[y]
  BY <1>1, <1>4, GoesTo DEF SemLabels
<1>6. Waiting /\ \A y \in Thread \ X : Same(y)
  BY <1>1, <1>2, <1>3, <1>5 DEF Same, State, Core
<1>7. \A h \in Sem : t \notin Granted(h)' /\ (Contains(tlist'[h], t) => WaitsRightly(h, t)')
  BY <1>2, <1>3, <1>4, <1>5 DEF Granted, WaitsRightly, InTake
<1>8. \A h \in Sem : \A y \in X \cap Thread : Contains(tlist'[h], y) => WaitsRightly(h, y)'
  BY <1>7, Zenon
<1>9. t \in X /\ \A y \in X : y = t
  OBVIOUS
<1> HIDE DEF X
<1>10. Waiting' /\ \A h \in Sem : Granted(h)' \ X = Granted(h) \ X
  BY <1>6, <1>8, Others
<1>11. \A h \in Sem : Granted(h)' \subseteq Granted(h)
  BY <1>7, <1>9, <1>10
<1>12. Ahead'
  BY <1>1, <1>11, AheadStays DEF semVars, State, Core
<1>13. RunsReady'
  BY <1>1, <1>2, <1>3, <1>4, <1>5, Heads DEF RunsReady, IdleReady, sched
<1> QED
  BY <1>1, <1>3, <1>5, <1>10, <1>12, <1>13 DEF CoreNext, State, Core, sched

\* A waiter is there; its head is readied.
LEMMA HeadResumed ==
  ASSUME State, NEW s \in Sem, tlist[s] # <<>>, NEW x, x = Head(tlist[s]), ResumeNow(x)
  PROVE  /\ x \in Thread /\ stat[x] = "suspend" /\ pc[x].arg = s /\ InTake(x)
         /\ Contains(tlist[s], x)
         /\ Lists' /\ stat' = [stat EXCEPT ![x] = "ready"]
         /\ \A h \in Sem, y \in Thread :
               Contains(tlist'[h], y) <=> Contains(tlist[h], y) /\ y # x
<1>1. tlist[s] \in Seq(Thread)
  BY Heads DEF State, SemTypeOK, TypeOK
<1>2. x \in Thread /\ Contains(tlist[s], x)
  BY <1>1, HeadIsMember
<1>3. stat[x] = "suspend" /\ pc[x].arg = s /\ InTake(x)
  BY <1>2 DEF State, Core, Waiting, InTake
<1>4. rt_schedule_insert_thread(rt_list_remove(tlist, x), x)
  BY <1>3 DEF ResumeNow
<1> QED
  BY <1>2, <1>3, <1>4, Relinked DEF State, SemTypeOK, Core

\* The head of the list is readied with an error code by t, which goes on to p
\* or stays in its masked region: no token is granted.
LEMMA ResumedWithError ==
  ASSUME State, NEW t \in Thread, NEW s \in Sem, tlist[s] # <<>>, ResumeFirst(s),
         current_thread = t, pc[t].at \in {"sem_resume_one", "sem_reset"},
         NEW p, pc' = pc \/ Goto(t, p), p.at = "sem_resume_all",
         UNCHANGED <<sched, isr, semVars, fault>>
  PROVE  CoreNext
<1> PICK x : x = Head(tlist[s])
  OBVIOUS
<1>1. error' = [error EXCEPT ![x] = "error"] /\ ResumeNow(x)
  BY DEF ResumeFirst
<1>2. /\ x \in Thread /\ stat[x] = "suspend" /\ pc[x].arg = s /\ InTake(x)
      /\ Lists' /\ stat' = [stat EXCEPT ![x] = "ready"]
      /\ \A h \in Sem, y \in Thread :
            Contains(tlist'[h], y) <=> Contains(tlist[h], y) /\ y # x
  BY <1>1, HeadResumed
<1>3. /\ stat \in [Thread -> Stat] /\ error \in [Thread -> {"ok", "timeout", "error"}]
  BY DEF State, SemTypeOK, TypeOK
<1>4. IdleReady /\ stat[t] = "ready" /\ x # t /\ \A h \in Sem : ~Contains(tlist[h], t)
  BY <1>2, Runner
<1>5. /\ Places' /\ pc'[t].at \in {"sem_resume_all", "sem_resume_one", "sem_reset"}
      /\ \A y \in Thread \ {t} : pc'[y] = pc[y]
  <2>1. CASE pc' = pc
    BY <2>1 DEF State, Core, Places
  <2>2. CASE Goto(t, p)
    BY <2>2, GoesTo DEF SemLabels
  <2> QED
    BY <2>1, <2>2
<1>6. \A y \in Thread \ {t, x} : Same(y)
  BY <1>1, <1>2, <1>3, <1>5 DEF Same
<1>7. Waiting' /\ \A h \in Sem : Granted(h)' \ {t, x} = Granted(h) \ {t, x}
  <2>1. \A h \in Sem : ~Contains(tlist'[h], t) /\ ~Contains(tlist'[h], x)
    BY <1>2, <1>4
  <2> QED
    BY <1>2, <1>6, <2>1, TwoMove
<1>8. \A h \in Sem : t \notin Granted(h)' /\ x \notin Granted(h)'
  BY <1>1, <1>2, <1>3, <1>5 DEF Granted
<1>9. Ahead'
  <2>1. \A h \in Sem : Granted(h)' \subseteq Granted(h)
    BY <1>7, <1>8
  <2> QED
    BY <2>1, AheadStays DEF State, Core, semVars
<1>10. RunsReady'
  BY <1>2, <1>3, <1>4, Heads DEF RunsReady, IdleReady, sched
<1> QED
  BY <1>2, <1>5, <1>7, <1>9, <1>10 DEF CoreNext, State, Core, sched

\* A release to a waiter: one token more, with that waiter.
LEMMA ReleaseKeepsCore ==
  ASSUME State, NEW t \in Thread, NEW s \in Sem, ReleaseToWaiter(t, s)
  PROVE  CoreNext
<1> PICK x : x = Head(tlist[s])
  OBVIOUS
<1>1. /\ tlist[s] # <<>> /\ ResumeNow(x) /\ Goto(t, AtSchedule)
      /\ current_thread = t /\ pc[t] = User
      /\ owed' = [owed EXCEPT ![s] = @ + 1] /\ UNCHANGED <<sched, error, isr, fault, value>>
  BY DEF ReleaseToWaiter, Calls, Running, AtSchedule
<1>2. /\ x \in Thread /\ stat[x] = "suspend" /\ pc[x].arg = s /\ InTake(x)
      /\ Lists' /\ stat' = [stat EXCEPT ![x] = "ready"]
      /\ \A h \in Sem, y \in Thread :
            Contains(tlist'[h], y) <=> Contains(tlist[h], y) /\ y # x
  BY <1>1, HeadResumed
<1>3. stat \in [Thread -> Stat] /\ owed \in [Sem -> Int] /\ value \in [Sem -> 0 .. SemValueMax]
      /\ SemValueMax \in Nat
  BY SemAssumption DEF State, SemTypeOK, TypeOK
<1>4. IdleReady /\ x # t /\ \A h \in Sem : ~Contains(tlist[h], t)
  BY <1>1, <1>2, Runner, Labels
<1>5. Places' /\ pc'[t] = AtSchedule /\ \A y \in Thread \ {t} : pc'[y] = pc[y]
  BY <1>1, GoesTo, Labels
<1>6. \A y \in Thread \ {t, x} : Same(y)
  BY <1>1, <1>2, <1>3, <1>5 DEF Same
<1>7. Waiting' /\ \A h \in Sem : Granted(h)' \ {t, x} = Granted(h) \ {t, x}
  <2>1. \A h \in Sem : ~Contains(tlist'[h], t) /\ ~Contains(tlist'[h], x)
    BY <1>2, <1>4
  <2> QED
    BY <1>2, <1>6, <2>1, TwoMove
<1>8. \A h \in Sem : t \notin Granted(h)' /\ (h # s => x \notin Granted(h)')
  BY <1>2, <1>4, <1>5, Labels DEF Granted
<1>9. ASSUME NEW h \in Sem PROVE owed'[h] >= value'[h] + Cardinality(Granted(h)')
  <2>1. owed[h] >= value[h] + Cardinality(Granted(h))
    BY DEF State, Core, Ahead
  <2>2. Granted(h) \in SUBSET Thread /\ Granted(h)' \in SUBSET Thread
    BY DEF Granted
  <2>3. Granted(h) \cup {x} \in SUBSET Thread
    BY <1>2, <2>2
  <2>4. /\ Cardinality(Granted(h)) \in Nat /\ Cardinality(Granted(h)') \in Nat
        /\ Cardinality(Granted(h) \cup {x}) \in Nat
        /\ Cardinality(Granted(h) \cup {x}) <= Cardinality(Granted(h)) + 1
    BY <1>2, <2>2, <2>3, Counting
  <2>5. CASE h = s
    <3>1. Granted(h)' \in SUBSET (Granted(h) \cup {x})
      BY <1>7, <1>8
    <3>2. Cardinality(Granted(h)') <= Cardinality(Granted(h) \cup {x})
      BY <2>3, <3>1, Counting
    <3> QED
      BY <1>1, <1>3, <2>1, <2>4, <2>5, <3>2
  <2>6. CASE h # s
    <3>1. Granted(h)' \in SUBSET Granted(h)
      BY <1>7, <1>8, <2>6
    <3>2. Cardinality(Granted(h)') <= Cardinality(Granted(h))
      BY <2>2, <3>1, Counting
    <3> QED
      BY <1>1, <1>3, <2>1, <2>4, <2>6, <3>2
  <2> QED
    BY <2>5, <2>6
<1>10. Ahead'
  BY <1>9 DEF Ahead
<1>11. RunsReady'
  BY <1>1, <1>2, <1>3, <1>4, <1>5, Heads, Labels DEF RunsReady, IdleReady, sched
<1> QED
  BY <1>1, <1>2, <1>5, <1>7, <1>10, <1>11 DEF CoreNext, State, Core, sched

\* A ready thread goes from one place of the resume loops to another.
LEMMA LoopKeepsCore ==
  ASSUME State, NEW t \in Thread, NEW p, Goto(t, p), current_thread = t,
         pc[t].at \notin {"schedule", "sem_schedule"},
         p.at \in {"user", "sem_resume_all", "sem_resume_one", "sem_reset"},
         UNCHANGED <<links, sched, error, fault, semVars>>
  PROVE  CoreNext
<1>1. IdleReady /\ stat[t] = "ready" /\ \A s \in Sem : ~Contains(tlist[s], t)
  BY Runner
<1>2. Places' /\ Waiting' /\ Ahead'
  BY <1>1, GoesOn DEF links, semVars
<1>3. RunsReady'
  BY <1>1, Heads DEF RunsReady, IdleReady, links, sched
<1>4. Lists'
  BY DEF State, Core, Lists, InPlace, ReadyIsListed, links
<1> QED
  BY <1>2, <1>3, <1>4 DEF CoreNext, State, Core, sched

\* The rest of a take that blocked, up to its return.
LEMMA TakeScheduleKeepsCore ==
  ASSUME State, TypeOK', NEW t \in Thread, TakeSchedule(t)
  PROVE  CoreNext
<1> DEFINE p == At("sem_woken", pc[t].arg, pc[t].then)
<1>1. /\ rt_schedule(tlist', group') /\ current_thread = t /\ Goto(t, p)
      /\ pc[t].at = "sem_schedule" /\ UNCHANGED <<links, lock_nest, error, isr, semVars>>
  BY DEF TakeSchedule, Running, links
<1>2. p.at = "sem_woken" /\ p.arg = pc[t].arg
  BY DEF At
<1> HIDE DEF p
<1>3. Places' /\ pc'[t] = p /\ \A y \in Thread \ {t} : pc'[y] = pc[y]
  BY <1>1, <1>2, GoesTo DEF SemLabels
<1>4. Lists' /\ stat' = stat
  BY <1>1 DEF State, Core, Lists, InPlace, ReadyIsListed, links
<1>5. IdleReady'
  BY <1>1, <1>4, Runner DEF IdleReady
<1>6. fault' = "none" /\ RunsReady'
  BY <1>1, <1>4, <1>5, DispatchesReady DEF State, Core
<1>7. Waiting'
  BY <1>1, <1>2, <1>3 DEF State, Core, Waiting, links
<1>8. \A s \in Sem : Granted(s)' \subseteq Granted(s)
  BY <1>1, <1>2, <1>3 DEF Granted, links
<1>9. Ahead'
  BY <1>1, <1>8, AheadStays DEF semVars, State, Core
<1> QED
  BY <1>1, <1>3, <1>4, <1>6, <1>7, <1>9 DEF CoreNext, State, Core

\* A take that returns RT_EOK spends the token its thread was granted.
LEMMA ReturnKeepsCore ==
  ASSUME State, NEW t \in Thread, TakeReturn(t)
  PROVE  CoreNext
<1>1. /\ current_thread = t /\ pc[t].at = "sem_woken" /\ Goto(t, User)
      /\ owed' = IF error[t] = "ok" THEN [owed EXCEPT ![pc[t].arg] = @ - 1] ELSE owed
      /\ UNCHANGED <<links, sched, error, isr, fault, value>>
  BY DEF TakeReturn, Running
<1>2. /\ owed \in [Sem -> Int] /\ value \in [Sem -> 0 .. SemValueMax] /\ SemValueMax \in Nat
      /\ pc[t] \in PC
  BY SemAssumption DEF State, SemTypeOK, TypeOK
<1>3. pc[t].arg \in Sem
  BY <1>1, <1>2, SemPlaces
<1>4. IdleReady /\ stat[t] = "ready" /\ \A s \in Sem : ~Contains(tlist[s], t)
  BY <1>1, Runner
<1>5. Places' /\ pc'[t] = User /\ \A y \in Thread \ {t} : pc'[y] = pc[y]
  BY <1>1, GoesTo, Labels
<1>6. \A y \in Thread \ {t, t} : Same(y)
  BY <1>1, <1>5 DEF Same, links
<1>7. Waiting' /\ \A h \in Sem : Granted(h)' \ {t, t} = Granted(h) \ {t, t}
  <2>1. \A h \in Sem : ~Contains(tlist'[h], t) /\ ~Contains(tlist'[h], t)
    BY <1>1, <1>4 DEF links
  <2> QED
    BY <1>6, <2>1, TwoMove
<1>8. \A h \in Sem : t \notin Granted(h)'
  BY <1>5, Labels DEF Granted
<1>9. error[t] = "ok" => t \in Granted(pc[t].arg)
  BY <1>1, <1>3, <1>4 DEF Granted
<1>10. ASSUME NEW h \in Sem PROVE owed'[h] >= value'[h] + Cardinality(Granted(h)')
  <2>1. owed[h] >= value[h] + Cardinality(Granted(h)) /\ value' = value
    BY <1>1 DEF State, Core, Ahead
  <2>2. Granted(h) \in SUBSET Thread /\ Granted(h)' = Granted(h) \ {t}
    BY <1>7, <1>8 DEF Granted
  <2>3. /\ Cardinality(Granted(h)) \in Nat /\ Cardinality(Granted(h) \ {t}) \in Nat
        /\ Cardinality(Granted(h) \ {t}) <= Cardinality(Granted(h))
        /\ t \in Granted(h) => Cardinality(Granted(h) \ {t}) = Cardinality(Granted(h)) - 1
    <3>1. Granted(h) \ {t} \in SUBSET Granted(h) /\ Granted(h) \ {t} \in SUBSET Thread
      BY <2>2
    <3> QED
      BY <2>2, <3>1, Counting
  <2>4. CASE error[t] = "ok" /\ h = pc[t].arg
    <3>1. owed'[h] = owed[h] - 1
      BY <1>1, <1>2, <2>4
    <3> QED
      BY <1>2, <1>9, <2>1, <2>2, <2>3, <2>4, <3>1
  <2>5. CASE ~(error[t] = "ok" /\ h = pc[t].arg)
    <3>1. owed'[h] = owed[h]
      BY <1>1, <1>2, <2>5
    <3> QED
      BY <1>2, <2>1, <2>2, <2>3, <3>1
  <2> QED
    BY <2>4, <2>5
<1>11. Ahead'
  BY <1>10 DEF Ahead
<1>12. RunsReady'
  BY <1>1, <1>4, Heads DEF RunsReady, IdleReady, links, sched
<1>13. Lists'
  BY <1>1 DEF State, Core, Lists, InPlace, ReadyIsListed, links
<1> QED
  BY <1>1, <1>5, <1>7, <1>11, <1>12, <1>13 DEF CoreNext, State, Core, sched

\* The end of a reset: the new value comes on top of the granted tokens.
LEMMA ResetValueKeepsCore ==
  ASSUME State, NEW t \in Thread, NEW v \in ResetValue, ResetValueTo(t, v)
  PROVE  CoreNext
<1> DEFINE s == pc[t].arg
<1>1. /\ current_thread = t /\ pc[t].at = "sem_reset" /\ Goto(t, AtSchedule)
      /\ value' = [value EXCEPT ![s] = v]
      /\ owed' = [owed EXCEPT ![s] = v + Cardinality(Granted(s))]
      /\ isr' = "none" /\ UNCHANGED <<links, sched, error, fault>>
  BY DEF ResetValueTo, InReset, AtSchedule
<1>2. /\ owed \in [Sem -> Int] /\ value \in [Sem -> 0 .. SemValueMax] /\ SemValueMax \in Nat
      /\ v \in Int /\ pc[t] \in PC
  BY SemAssumption DEF State, SemTypeOK, TypeOK
<1>3. s \in Sem
  BY <1>1, <1>2, SemPlaces
<1> HIDE DEF s
<1>4. IdleReady /\ stat[t] = "ready" /\ \A h \in Sem : ~Contains(tlist[h], t)
  BY <1>1, Runner
<1>5. Places' /\ pc'[t] = AtSchedule /\ \A y \in Thread \ {t} : pc'[y] = pc[y]
  BY <1>1, GoesTo, Labels
<1>6. \A y \in Thread \ {t, t} : Same(y)
  BY <1>1, <1>5 DEF Same, links
<1>7. Waiting' /\ \A h \in Sem : Granted(h)' \ {t, t} = Granted(h) \ {t, t}
  <2>1. \A h \in Sem : ~Contains(tlist'[h], t) /\ ~Contains(tlist'[h], t)
    BY <1>1, <1>4 DEF links
  <2> QED
    BY <1>6, <2>1, TwoMove
<1>8. \A h \in Sem : t \notin Granted(h)'
  BY <1>5, Labels DEF Granted
<1>9. ASSUME NEW h \in Sem PROVE owed'[h] >= value'[h] + Cardinality(Granted(h)')
  <2>1. owed[h] >= value[h] + Cardinality(Granted(h))
    BY DEF State, Core, Ahead
  <2>2. Granted(h) \in SUBSET Thread /\ Granted(h)' \in SUBSET Granted(h)
    BY <1>7, <1>8 DEF Granted
  <2>3. /\ Cardinality(Granted(h)) \in Nat
        /\ Cardinality(Granted(h)') <= Cardinality(Granted(h))
    BY <2>2, Counting
  <2>4. Cardinality(Granted(h)') \in Nat
    <3>1. Granted(h)' \in SUBSET Thread
      BY <2>2
    <3> QED
      BY <3>1, Counting
  <2>5. CASE h = s
    <3>1. owed'[h] = v + Cardinality(Granted(h)) /\ value'[h] = v
      BY <1>1, <1>2, <1>3, <2>5
    <3> QED
      BY <1>2, <2>3, <2>4, <3>1
  <2>6. CASE h # s
    <3>1. owed'[h] = owed[h] /\ value'[h] = value[h]
      BY <1>1, <1>2, <2>6
    <3> QED
      BY <1>2, <2>1, <2>3, <2>4, <3>1
  <2> QED
    BY <2>5, <2>6
<1>10. Ahead'
  BY <1>9 DEF Ahead
<1>11. RunsReady'
  BY <1>1, <1>4, Heads DEF RunsReady, IdleReady, links, sched
<1>12. Lists'
  BY <1>1 DEF State, Core, Lists, InPlace, ReadyIsListed, links
<1> QED
  BY <1>1, <1>5, <1>7, <1>10, <1>11, <1>12 DEF CoreNext, State, Core, sched

LEMMA SemCallKeepsCore ==
  ASSUME ClientCalls, State, NEW t \in Thread, NEW s \in Sem, SemCall(t, s)
  PROVE  CoreNext
<1>1. CASE rt_sem_detach(t, s)
  <2>1. /\ current_thread = t /\ pc[t] = User
        /\ Goto(t, IF tlist[s] = <<>> THEN User ELSE At("sem_resume_one", s, "user"))
        /\ UNCHANGED <<links, sched, error, fault, semVars>>
    BY <1>1 DEF rt_sem_detach, ResumeAllTest, Calls, Running
  <2> QED
    BY <2>1, LoopKeepsCore, Labels
<1>2. CASE rt_sem_control(t, s)
  <2>1. /\ current_thread = t /\ pc[t] = User /\ Goto(t, At("sem_reset", s, "user"))
        /\ UNCHANGED <<links, sched, error, fault, semVars>>
    BY <1>2 DEF rt_sem_control, Calls, Running
  <2> QED
    BY <2>1, LoopKeepsCore, Labels
<1> QED
  BY <1>1, <1>2, QuickTakesKeepCore, BlockKeepsCore, ReleaseKeepsCore DEF SemCall

\* The one step that goes wrong: a detach that takes the head of a list that
\* has emptied since its test for a thread.
LEMMA SemContinueKeepsCore ==
  ASSUME State, TypeOK', NEW t \in Thread, SemContinue(t)
  PROVE  CoreNext \/ (ResumeAllOne(t) /\ fault' # "none" /\ value' = value /\ owed' = owed)
<1>1. pc[t] \in PC
  BY DEF State, SemTypeOK, TypeOK
<1>2. CASE ResumeAllOne(t) /\ tlist[pc[t].arg] = <<>>
  BY <1>2 DEF ResumeAllOne, semVars
<1>3. CASE ResumeAllOne(t) /\ tlist[pc[t].arg] # <<>>
  <2>1. /\ current_thread = t /\ pc[t].at = "sem_resume_one" /\ ResumeFirst(pc[t].arg)
        /\ Goto(t, At("sem_resume_all", pc[t].arg, "user"))
        /\ UNCHANGED <<sched, isr, semVars, fault>>
    BY <1>3 DEF ResumeAllOne, Running
  <2>2. pc[t].arg \in Sem
    BY <1>1, <2>1, SemPlaces
  <2> QED
    BY <1>3, <2>1, <2>2, ResumedWithError, Labels
<1>4. CASE ResetOne(t)
  <2>1. /\ current_thread = t /\ pc[t].at = "sem_reset" /\ ResumeFirst(pc[t].arg)
        /\ tlist[pc[t].arg] # <<>> /\ pc' = pc
        /\ UNCHANGED <<sched, isr, semVars, fault>>
    BY <1>4 DEF ResetOne, InReset
  <2>2. pc[t].arg \in Sem
    BY <1>1, <2>1, SemPlaces
  <2>3. At("sem_resume_all", pc[t].arg, "user").at = "sem_resume_all"
    BY Labels
  <2> QED
    BY <2>1, <2>2, <2>3, ResumedWithError
<1>5. CASE ResumeAllAgain(t)
  <2>1. /\ current_thread = t /\ pc[t].at = "sem_resume_all"
        /\ Goto(t, IF tlist[pc[t].arg] = <<>> THEN User
                   ELSE At("sem_resume_one", pc[t].arg, "user"))
        /\ UNCHANGED <<links, sched, error, fault, semVars>>
    BY <1>5 DEF ResumeAllAgain, ResumeAllTest, Running
  <2> QED
    BY <2>1, LoopKeepsCore, Labels
<1> QED
  BY <1>2, <1>3, <1>4, <1>5, TakeScheduleKeepsCore, ReturnKeepsCore, ResetValueKeepsCore
     DEF SemContinue, Reset

-----------------------------------------------------------------------------
(* The theorems.                                                           *)

\* After a fault nothing happens any more.
LEMMA NothingAfterFault == [SemNext]_allVars /\ fault # "none" => UNCHANGED allVars
<1> SUFFICES ASSUME fault # "none", SemNext
             PROVE  FALSE
  OBVIOUS
<1>1. \A t \in Thread : ~Running(t) /\ ~InReset(t)
  BY DEF Running, InReset
<1>2. \A t \in Thread : \A x, op : ~Calls(t, op, x)
  BY <1>1 DEF Calls
<1>3. ~Boot
  BY DEF Boot, BootStartup, rt_system_scheduler_start
<1>4. ~SysTick
  BY DEF SysTick, rt_tick_increase, rt_thread_timeout, rt_timer_check_done
<1>5. ASSUME NEW t \in Thread
      PROVE  ~Call(t)
  <2>1. \A x \in Thread : ~OnTarget(t, x)
    BY <1>2 DEF OnTarget, rt_thread_resume, rt_thread_startup, rt_thread_suspend,
       rt_thread_delete, rt_thread_detach, CloseThread
  <2>2. \A tick \in Delay : ~rt_thread_sleep(t, tick)
    BY <1>2 DEF rt_thread_sleep
  <2>3. ~rt_thread_yield(t) /\ ~call_rt_schedule(t)
    BY <1>2 DEF rt_thread_yield, call_rt_schedule
  <2>4. ~rt_enter_critical(t) /\ ~rt_exit_critical(t)
    BY <1>2 DEF rt_enter_critical, rt_exit_critical
  <2> QED
    BY <2>1, <2>2, <2>3, <2>4 DEF Call
<1>6. ASSUME NEW t \in Thread
      PROVE  ~Continue(t)
  <2>1. ~Reschedule(t) /\ ~ResumeRemove(t) /\ ~ResumeInsert(t)
    BY <1>1 DEF Reschedule, ResumeRemove, ResumeInsert
  <2>2. ~StartupResume(t) /\ ~SuspendCrit(t)
    BY <1>1 DEF StartupResume, SuspendCrit
  <2>3. ~CloseRemove(t) /\ ~CloseTimer(t) /\ ~CloseStat(t) /\ ~CloseList(t)
    BY <1>1 DEF CloseRemove, CloseTimer, CloseStat, CloseList
  <2> QED
    BY <2>1, <2>2, <2>3 DEF Continue
<1>7. ASSUME NEW t \in Thread, NEW s \in Sem
      PROVE  ~SemCall(t, s)
  <2>1. ~TakeAvailable(t, s) /\ ~TakeRefused(t, s)
    BY <1>2 DEF TakeAvailable, TakeRefused
  <2>2. \A time \in WaitTime : ~TakeBlock(t, s, time)
    BY <1>2 DEF TakeBlock
  <2>3. ~ReleaseToWaiter(t, s) /\ ~ReleaseToValue(t, s)
    BY <1>2 DEF ReleaseToWaiter, ReleaseToValue
  <2>4. ~rt_sem_detach(t, s) /\ ~rt_sem_control(t, s)
    BY <1>2 DEF rt_sem_detach, rt_sem_control
  <2> QED
    BY <2>1, <2>2, <2>3, <2>4 DEF SemCall
<1>8. ASSUME NEW t \in Thread
      PROVE  ~SemContinue(t)
  <2>1. ~TakeSchedule(t) /\ ~TakeReturn(t)
    BY <1>1 DEF TakeSchedule, TakeReturn
  <2>2. ~ResumeAllOne(t) /\ ~ResumeAllAgain(t)
    BY <1>1 DEF ResumeAllOne, ResumeAllAgain
  <2>3. ~Reset(t)
    BY <1>1 DEF Reset, ResetOne, ResetValueTo
  <2> QED
    BY <2>1, <2>2, <2>3 DEF SemContinue
<1> QED
  BY <1>3, <1>4, <1>5, <1>6, <1>7, <1>8 DEF SemNext, Next

LEMMA TokenStep ==
  ClientCalls /\ SemTypeOK /\ SemTypeOK' /\ TokenInv /\ [SemNext]_allVars => TokenInv'
<1> SUFFICES ASSUME ClientCalls, SemTypeOK, SemTypeOK', TokenInv, [SemNext]_allVars
             PROVE  TokenInv'
  OBVIOUS
<1>1. CoreNext => TokenInv'
  <2>1. SemTypeOK' /\ Ahead' => NoFalseTake'
    BY AheadIsEnough, PTL
  <2> QED
    BY <2>1 DEF CoreNext, Core, TokenInv
<1>2. fault' # "none" /\ value' = value /\ owed' = owed => TokenInv'
  BY DEF TokenInv, NoFalseTake
<1>3. TypeOK'
  BY DEF SemTypeOK
<1>4. CASE fault = "none"
  <2>1. State
    BY <1>4 DEF State, TokenInv
  <2>2. CASE Next /\ UNCHANGED semVars
    BY <1>1, <1>3, <2>1, <2>2, KernelKeepsCore
  <2>3. ASSUME NEW t \in Thread, NEW s \in Sem, SemCall(t, s) PROVE TokenInv'
    BY <1>1, <2>1, <2>3, SemCallKeepsCore
  <2>4. ASSUME NEW t \in Thread, SemContinue(t) PROVE TokenInv'
    BY <1>1, <1>2, <1>3, <2>1, <2>4, SemContinueKeepsCore
  <2>5. CASE UNCHANGED allVars
    <3>1. UNCHANGED vars /\ value' = value /\ owed' = owed
      BY <2>5 DEF allVars, semVars
    <3>2. /\ Places' /\ lock_nest' = 0 /\ Lists' /\ Waiting' /\ RunsReady' /\ fault' = "none"
          /\ \A s \in Sem : Granted(s)' = Granted(s)
      BY <2>1, <3>1, KernelStays
    <3>3. Ahead'
      BY <2>1, <3>1, <3>2, AheadStays DEF State, Core
    <3> QED
      BY <1>1, <3>2, <3>3 DEF CoreNext, Core
  <2> QED
    BY <2>2, <2>3, <2>4, <2>5 DEF SemNext
<1>5. CASE fault # "none"
  <2>1. UNCHANGED allVars
    BY <1>5, NothingAfterFault
  <2>2. fault' # "none" /\ value' = value /\ owed' = owed
    BY <1>5, <2>1 DEF allVars, vars, semVars
  <2> QED
    BY <1>2, <2>2
<1> QED
  BY <1>4, <1>5

LEMMA TokenStart == SemInit => TokenInv
<1> SUFFICES ASSUME SemInit PROVE TokenInv
  OBVIOUS
<1>1. /\ tlist = [h \in ListHead |-> <<>>] /\ group = {} /\ current_thread = NoThread
      /\ lock_nest = 0 /\ stat = [t \in Thread |-> "init"]
      /\ pc = [t \in Thread |-> User] /\ isr = "none" /\ value = SemValue /\ owed = SemValue
  BY DEF SemInit, Init, rt_system_scheduler_init, rt_thread_init
<1>2. \A h \in ListHead : /\ tlist[h] = <<>> /\ DOMAIN tlist[h] = {}
                          /\ \A x : ~Contains(tlist[h], x)
  BY <1>1 DEF Contains
<1>3. Lists
  BY <1>1, <1>2, Heads DEF Lists, OnceIn, InPlace, Nonempty, ReadyIsListed
<1>4. Places /\ Waiting /\ RunsReady
  BY <1>1, <1>2, Heads, Labels DEF Places, Waiting, RunsReady
<1>5. \A s \in Sem : Granted(s) = {} /\ owed[s] = value[s] /\ value[s] \in Int
  BY <1>1, SemAssumption, Labels DEF Granted
<1>6. Ahead /\ NoFalseTake
  <2>1. Cardinality({}) = 0
    BY FS_EmptySet
  <2>2. \A s \in Sem : Cardinality(Granted(s)) = 0
    BY <1>5, <2>1
  <2> QED
    BY <1>5, <2>2 DEF Ahead, NoFalseTake
<1> QED
  BY <1>1, <1>3, <1>4, <1>6 DEF TokenInv, Core

LEMMA TokenInvariant == ASSUME ClientCalls PROVE SemSpec => []TokenInv
<1>1. SemInit => TokenInv
  BY TokenStart
<1>2. SemTypeOK /\ SemTypeOK' /\ TokenInv /\ [SemNext]_allVars => TokenInv'
  BY TokenStep
<1> QED
  BY <1>1, <1>2, SemaphoreTyped, PTL DEF SemSpec

\* rt_sem_take returns RT_EOK only with a token that was released or initial,
\* for any threads and semaphores, whatever time limits, resets and detaches do.
THEOREM NoTokenTwice == ASSUME ClientCalls PROVE SemSpec => []NoFalseTake
<1>1. TokenInv => NoFalseTake
  BY DEF TokenInv
<1> QED
  BY <1>1, TokenInvariant, PTL

\* Whoever is linked in a suspend list is suspended inside its rt_sem_take on
\* that semaphore, so a release never readies a thread that does not wait.
THEOREM OnlyTakersWait == ASSUME ClientCalls PROVE SemSpec => []WaitersWait
<1>1. SemTypeOK /\ TokenInv => WaitersWait
  <2> SUFFICES ASSUME SemTypeOK, TokenInv, fault = "none", NEW s \in Sem,
                      NEW x \in ToSet(tlist[s])
               PROVE  /\ stat[x] = "suspend" /\ pc[x].arg = s
                      /\ pc[x].at \in {"sem_schedule", "sem_woken"}
    BY DEF WaitersWait
  <2>1. tlist[s] \in Seq(Thread)
    BY Heads DEF SemTypeOK, TypeOK
  <2>2. x \in Thread /\ Contains(tlist[s], x)
    BY <2>1, ToSetContains
  <2> QED
    BY <2>2 DEF TokenInv, Core, Waiting
<1> QED
  BY <1>1, TokenInvariant, SemaphoreTyped, PTL

-----------------------------------------------------------------------------
(* The order of the waiters.                                               *)

\* Taking z out brings nobody ahead of anybody.
LEMMA PrecedesWithout ==
  ASSUME NEW l \in Seq(Thread), NEW z, NEW x, NEW y, Precedes(Without(l, z), x, y)
  PROVE  Precedes(l, x, y)
<1> DEFINE w == Without(l, z)
           k == IndexOf(l, z)
<1>1. CASE ~Contains(l, z)
  BY <1>1, WithoutProperties
<1>2. CASE Contains(l, z)
  <2>1. /\ Len(l) \in Nat /\ DOMAIN l = 1 .. Len(l) /\ w \in Seq(Thread)
        /\ k \in 1 .. Len(l) /\ Len(w) = Len(l) - 1
        /\ \A i \in 1 .. Len(l) - 1 : w[i] = IF i < k THEN l[i] ELSE l[i + 1]
    BY <1>2, WithoutProperties, LenProperties
  <2>2. DOMAIN w = 1 .. Len(l) - 1
    BY <2>1, LenProperties
  <2>3. PICK i \in DOMAIN w, j \in DOMAIN w : i < j /\ w[i] = x /\ w[j] = y
    BY DEF Precedes
  <2> HIDE DEF w, k
  <2> DEFINE m == IF i < k THEN i ELSE i + 1
             n == IF j < k THEN j ELSE j + 1
  <2>4. m \in DOMAIN l /\ n \in DOMAIN l /\ m < n /\ l[m] = x /\ l[n] = y
    BY <2>1, <2>2, <2>3
  <2> QED
    BY <2>4 DEF Precedes
<1> QED
  BY <1>1, <1>2

\* A new waiter gets ahead only of less urgent waiters of a priority semaphore,
\* and brings no other waiter ahead of anybody.
LEMMA PrecedesInsert ==
  ASSUME NEW s \in Sem, NEW l \in Seq(Thread), NEW t \in Thread, ~Contains(l, t),
         SemFlag[s] = "prio" => Ordered(l),
         NEW x, NEW y, Contains(l, y), ~Precedes(l, x, y),
         Precedes(InsertAt(l, WaitPosition(s, l, t), t), x, y)
  PROVE  SemFlag[s] = "prio" /\ Priority[x] < Priority[y]
<1> DEFINE k == WaitPosition(s, l, t)
           m == InsertAt(l, k, t)
<1>1. /\ Len(l) \in Nat /\ DOMAIN l = 1 .. Len(l) /\ Priority[t] \in Int
      /\ \A i \in 1 .. Len(l) : Priority[l[i]] \in Int
  BY LenProperties, ElementOfSeq, ConstantsAssumption DEF Prio
<1>2. /\ k \in 1 .. Len(l) + 1
      /\ SemFlag[s] = "prio" => (k <= Len(l) => Priority[t] < Priority[l[k]])
      /\ SemFlag[s] = "fifo" => k = Len(l) + 1
      /\ SemFlag[s] \in {"fifo", "prio"}
  BY WaitPlace, SemAssumption DEF WaitPosition
<1>3. PICK i \in DOMAIN m, j \in DOMAIN m : i < j /\ m[i] = x /\ m[j] = y
  BY DEF Precedes
<1> HIDE DEF k
<1>4. /\ m \in Seq(Thread) /\ Len(m) = Len(l) + 1
      /\ \A n \in 1 .. Len(l) + 1 :
           m[n] = IF n < k THEN l[n] ELSE IF n = k THEN t ELSE l[n - 1]
  BY <1>2, InsertAtProperties
<1>5. DOMAIN m = 1 .. Len(l) + 1
  BY <1>4, LenProperties
<1> HIDE DEF m
<1>6. y # t /\ j # k
  BY <1>3, <1>4, <1>5 DEF Contains
<1>7. i = k
  <2> SUFFICES ASSUME i # k PROVE FALSE
    OBVIOUS
  <2> DEFINE a == IF i < k THEN i ELSE i - 1
             b == IF j < k THEN j ELSE j - 1
  <2>1. /\ a \in 1 .. Len(l) /\ b \in 1 .. Len(l) /\ a < b
        /\ m[i] = l[a] /\ m[j] = l[b]
    BY <1>1, <1>2, <1>3, <1>4, <1>5, <1>6
  <2> HIDE DEF a, b
  <2> QED
    BY <1>1, <1>3, <2>1 DEF Precedes
<1>8. x = t /\ j - 1 \in 1 .. Len(l) /\ k <= j - 1 /\ y = l[j - 1] /\ k <= Len(l)
  BY <1>1, <1>2, <1>3, <1>4, <1>5, <1>7
<1>9. SemFlag[s] = "prio" /\ Priority[t] < Priority[l[k]] /\ k \in 1 .. Len(l)
  BY <1>1, <1>2, <1>8
<1>10. Priority[l[k]] <= Priority[l[j - 1]]
  <2>1. CASE k = j - 1
    BY <1>1, <1>9, <2>1
  <2>2. CASE k < j - 1
    BY <1>1, <1>8, <1>9, <2>2 DEF Ordered
  <2> QED
    BY <1>8, <1>9, <2>1, <2>2
<1> QED
  BY <1>1, <1>8, <1>9, <1>10

\* A step lets nobody overtake unlawfully.
MayPrecede(s, x, y) == SemFlag[s] = "prio" /\ Priority[x] < Priority[y]
KeepsOrder ==
    \A s \in Sem : \A x, y \in Thread :
        /\ Precedes(tlist'[s], x, y) /\ Contains(tlist[s], y)
        /\ ~Precedes(tlist[s], x, y)
        => MayPrecede(s, x, y)

LEMMA OrderStep ==
  SemTypeOK /\ TokenInv /\ PrioOrder /\ [SemNext]_allVars => KeepsOrder
<1> SUFFICES ASSUME SemTypeOK, TokenInv, PrioOrder, [SemNext]_allVars,
                    NEW s \in Sem, NEW x \in Thread, NEW y \in Thread,
                    Precedes(tlist'[s], x, y), Contains(tlist[s], y),
                    ~Precedes(tlist[s], x, y)
             PROVE  MayPrecede(s, x, y)
  BY DEF KeepsOrder
<1>1. tlist[s] \in Seq(Thread) /\ (SemFlag[s] = "prio" => Ordered(tlist[s]))
  BY Heads DEF SemTypeOK, TypeOK, PrioOrder, Ordered
<1>2. \A z : ~Precedes(Without(tlist[s], z), x, y)
  BY <1>1, PrecedesWithout
<1>3. ASSUME NEW t \in Thread, NEW h \in Sem, NEW time \in WaitTime, TakeBlock(t, h, time)
      PROVE  MayPrecede(s, x, y)
  <2>1. h = s
    BY <1>2, <1>3, BlockLists
  <2>2. State /\ current_thread = t /\ pc[t] = User
    BY <1>3 DEF TakeBlock, Calls, Running, State, TokenInv
  <2>3. ~Contains(tlist[s], t)
    BY <2>2, Runner, Labels
  <2>4. tlist'[s] = InsertAt(tlist[s], WaitPosition(s, tlist[s], t), t)
    BY <1>1, <1>3, <2>1, <2>3, BlockLists, WithoutProperties
  <2> QED
    BY <1>1, <2>3, <2>4, PrecedesInsert DEF MayPrecede
<1>4. CASE ~\E t \in Thread, h \in Sem, time \in WaitTime : TakeBlock(t, h, time)
  BY <1>2, <1>4, SemShrinks DEF Shrinks
<1> QED
  BY <1>3, <1>4

\* A waiter that was there first is overtaken only by more urgent ones on a
\* priority semaphore, whatever joins, leaves or times out in between.
THEOREM NobodyOvertakes == ASSUME ClientCalls PROVE SemSpec => NoOvertaking
<1>1. SemTypeOK /\ TokenInv /\ PrioOrder /\ [SemNext]_allVars => [KeepsOrder]_allVars
  BY OrderStep
<1>2. [][KeepsOrder]_allVars => NoOvertaking
  BY DEF KeepsOrder, MayPrecede, NoOvertaking
<1> QED
  BY <1>1, <1>2, MostUrgentIsFirst, TokenInvariant, SemaphoreTyped, PTL DEF SemSpec

-----------------------------------------------------------------------------
(* Without detach.                                                         *)

\* Nobody detaches a semaphore: the loop with interrupts on does not run.
NoDetach == \A t \in Thread, s \in Sem : <<"sem_detach", s>> \notin Api[t]
NoLoops == \A t \in Thread : pc[t].at \notin {"sem_resume_all", "sem_resume_one"}

LEMMA NobodyDetaches ==
  ASSUME NoDetach
  PROVE  \A t \in Thread, s \in Sem : ~rt_sem_detach(t, s)
BY DEF rt_sem_detach, Calls, NoDetach

LEMMA NoLoopStep ==
  ASSUME ClientCalls, State, TypeOK', NoLoops, [SemNext]_allVars,
         \A t \in Thread, s \in Sem : ~rt_sem_detach(t, s)
  PROVE  fault' = "none" /\ NoLoops'
<1>1. ASSUME pc' = pc PROVE NoLoops'
  BY <1>1 DEF NoLoops
<1>2. ASSUME NEW t \in Thread, NEW p, Goto(t, p),
             p.at \notin {"sem_resume_all", "sem_resume_one"}
      PROVE  NoLoops'
  BY <1>2 DEF NoLoops, Goto, State, SemTypeOK, TypeOK
<1>3. CASE Next /\ UNCHANGED semVars
  <2>1. fault' = "none"
    BY <1>3, KernelKeepsCore DEF CoreNext
  <2>2. CASE Boot \/ SysTick
    <3>1. ASSUME NEW x \in Thread, BootStartup(x) PROVE pc' = pc
      BY <3>1 DEF BootStartup
    <3>2. CASE rt_system_scheduler_start \/ rt_timer_check_done
      BY <1>1, <2>1, <3>2 DEF rt_system_scheduler_start, rt_timer_check_done
    <3>3. CASE rt_tick_increase
      BY <1>1, <2>1, <3>3 DEF rt_tick_increase
    <3>4. CASE rt_thread_timeout
      <4>1. pc' = pc
        BY <3>4 DEF rt_thread_timeout
      <4> QED
        BY <1>1, <2>1, <4>1
    <3> QED
      BY <1>1, <2>1, <2>2, <3>1, <3>2, <3>3, <3>4 DEF Boot, SysTick
  <2>3. ASSUME NEW t \in Thread, Call(t) \/ Continue(t) PROVE NoLoops'
    <3>1. pc' = pc \/ Goto(t, AtSchedule) \/ Goto(t, User)
      BY <2>3, CallsOfClients DEF rt_thread_sleep, rt_thread_yield, call_rt_schedule,
         Reschedule, AtSchedule
    <3> QED
      BY <1>1, <1>2, <3>1, Labels
  <2> QED
    BY <1>3, <2>1, <2>2, <2>3 DEF Next
<1>4. ASSUME NEW t \in Thread, NEW s \in Sem, SemCall(t, s)
      PROVE  fault' = "none" /\ NoLoops'
  <2>1. fault' = "none"
    BY <1>4, SemCallKeepsCore DEF CoreNext
  <2>2. ~rt_sem_detach(t, s)
    OBVIOUS
  <2>3. \/ pc' = pc \/ Goto(t, AtSchedule)
        \/ Goto(t, At("sem_schedule", s, "user")) \/ Goto(t, At("sem_reset", s, "user"))
    BY <1>4, <2>2 DEF SemCall, TakeAvailable, TakeRefused, TakeBlock, ReleaseToWaiter,
       ReleaseToValue, rt_sem_control, AtSchedule, vars
  <2>4. At("sem_schedule", s, "user").at = "sem_schedule" /\ At("sem_reset", s, "user").at = "sem_reset"
    BY DEF At
  <2>5. CASE pc' = pc
    BY <1>1, <2>1, <2>5
  <2>6. CASE Goto(t, AtSchedule)
    BY <1>2, <2>1, <2>6, Labels
  <2>7. CASE Goto(t, At("sem_schedule", s, "user"))
    BY <1>2, <2>1, <2>4, <2>7
  <2>8. CASE Goto(t, At("sem_reset", s, "user"))
    BY <1>2, <2>1, <2>4, <2>8
  <2> QED
    BY <2>3, <2>5, <2>6, <2>7, <2>8
<1>5. ASSUME NEW t \in Thread, SemContinue(t) PROVE fault' = "none" /\ NoLoops'
  <2>1. ~ResumeAllOne(t) /\ ~ResumeAllAgain(t)
    BY DEF ResumeAllOne, ResumeAllAgain, NoLoops
  <2>2. fault' = "none"
    BY <1>5, <2>1, SemContinueKeepsCore DEF CoreNext
  <2>3. \/ pc' = pc \/ Goto(t, AtSchedule) \/ Goto(t, User)
        \/ Goto(t, At("sem_woken", pc[t].arg, pc[t].then))
    BY <1>5, <2>1 DEF SemContinue, TakeSchedule, TakeReturn, Reset, ResetOne, ResetValueTo,
       AtSchedule
  <2>4. At("sem_woken", pc[t].arg, pc[t].then).at = "sem_woken"
    BY DEF At
  <2>5. CASE pc' = pc
    BY <1>1, <2>2, <2>5
  <2>6. CASE Goto(t, AtSchedule)
    BY <1>2, <2>2, <2>6, Labels
  <2>7. CASE Goto(t, User)
    BY <1>2, <2>2, <2>7, Labels
  <2>8. CASE Goto(t, At("sem_woken", pc[t].arg, pc[t].then))
    BY <1>2, <2>2, <2>4, <2>8
  <2> QED
    BY <2>3, <2>5, <2>6, <2>7, <2>8
<1>6. CASE UNCHANGED allVars
  BY <1>1, <1>6 DEF allVars, vars, State
<1> QED
  BY <1>3, <1>4, <1>5, <1>6 DEF SemNext

\* Threads that take, release and reset semaphores, sleep and yield never make
\* the kernel link a node twice, schedule an empty level or take a list head for
\* a thread, however ticks and time-outs interleave with their calls.
THEOREM ClientsDoNoHarm == ASSUME ClientCalls, NoDetach PROVE SemSpec => []NoFault
<1> DEFINE Inv == fault = "none" /\ NoLoops
<1>1. SemInit => Inv
  BY Labels DEF SemInit, Init, NoLoops
<1>2. SemTypeOK /\ SemTypeOK' /\ TokenInv /\ Inv /\ [SemNext]_allVars => Inv'
  BY NobodyDetaches, NoLoopStep DEF State, SemTypeOK, TokenInv
<1>3. Inv => NoFault
  BY DEF NoFault
<1> QED
  BY <1>1, <1>2, <1>3, TokenInvariant, SemaphoreTyped, PTL DEF SemSpec

-----------------------------------------------------------------------------
(* Who runs.                                                               *)

\* A thread in its own code, or back from the rt_schedule of rt_sem_take, has
\* the CPU by right, in the tick handler as well.
Right ==
    current_thread # NoThread /\ pc[current_thread].at \in {"user", "sem_woken"}
        => current_thread = to_thread(tlist, group)

\* rt_schedule gives the CPU to the thread it belongs to.
LEMMA ScheduleIsRight ==
  ASSUME lock_nest = 0,
         rt_schedule(tlist', group') \/ (rt_schedule(tlist, group) /\ UNCHANGED links)
  PROVE  Right'
BY DEF rt_schedule, Right, links

\* A thread that is on its way to its rt_schedule is not there yet.
LEMMA NotThereYet ==
  ASSUME State, NEW t \in Thread, current_thread = t, current_thread' = t, NEW p, Goto(t, p),
         p.at \notin {"user", "sem_woken"}
  PROVE  Right'
BY DEF State, SemTypeOK, TypeOK, Goto, Right

LEMMA RightStays ==
  ASSUME Right, UNCHANGED <<links, current_thread, pc>>
  PROVE  Right'
BY DEF Right, links

LEMMA RightStep ==
  ASSUME ClientCalls, State, NoLoops, Right, [SemNext]_allVars,
         \A t \in Thread, s \in Sem : ~rt_sem_detach(t, s)
  PROVE  Right'
<1>1. lock_nest = 0 /\ pc \in [Thread -> PC]
  BY DEF State, SemTypeOK, TypeOK, Core
<1>2. CASE Boot
  <2>1. CASE rt_system_scheduler_start
    BY <2>1 DEF rt_system_scheduler_start, Right, links
  <2>2. ASSUME NEW x \in Thread, BootStartup(x) PROVE Right'
    BY <2>2 DEF BootStartup, Right, sched
  <2> QED
    BY <1>2, <2>1, <2>2 DEF Boot
<1>3. CASE SysTick
  <2>1. CASE rt_tick_increase /\ SliceEnds /\ CanYield(current_thread)
    <3>1. MoveToTail(current_thread) /\ rt_schedule(tlist', group)
      BY <2>1 DEF rt_tick_increase
    <3>2. group' = group
      BY <3>1 DEF MoveToTail
    <3> QED
      BY <1>1, <3>1, <3>2, ScheduleIsRight
  <2>2. CASE rt_tick_increase /\ ~(SliceEnds /\ CanYield(current_thread))
    <3>1. UNCHANGED <<links, current_thread, pc>>
      BY <2>2 DEF rt_tick_increase
    <3> QED
      BY <3>1, RightStays
  <2>3. CASE rt_thread_timeout
    BY <1>1, <2>3, ScheduleIsRight DEF rt_thread_timeout
  <2>4. CASE rt_timer_check_done
    BY <2>4, RightStays DEF rt_timer_check_done, sched
  <2> QED
    BY <1>3, <2>1, <2>2, <2>3, <2>4 DEF SysTick
<1>4. ASSUME NEW t \in Thread, Call(t) \/ Continue(t) PROVE Right'
  <2>1. CASE \E tick \in Delay : rt_thread_sleep(t, tick)
    BY <2>1, NotThereYet, Labels DEF rt_thread_sleep, Calls, Running, AtSchedule, sched
  <2>2. CASE rt_thread_yield(t)
    BY <2>2, NotThereYet, Labels DEF rt_thread_yield, Calls, Running, AtSchedule, sched
  <2>3. CASE call_rt_schedule(t)
    BY <1>1, <2>3, ScheduleIsRight DEF call_rt_schedule
  <2>4. CASE Reschedule(t)
    BY <1>1, <2>4, ScheduleIsRight DEF Reschedule
  <2> QED
    BY <1>4, <2>1, <2>2, <2>3, <2>4, CallsOfClients
<1>5. ASSUME NEW t \in Thread, NEW s \in Sem, SemCall(t, s) PROVE Right'
  <2>1. CASE UNCHANGED vars
    BY <2>1, RightStays DEF vars, sched
  <2>2. ASSUME NEW time \in WaitTime, TakeBlock(t, s, time) PROVE Right'
    BY <2>2, NotThereYet, Labels DEF TakeBlock, Calls, Running, sched
  <2>3. CASE ReleaseToWaiter(t, s)
    BY <2>3, NotThereYet, Labels DEF ReleaseToWaiter, Calls, Running, AtSchedule, sched
  <2>4. CASE rt_sem_control(t, s)
    BY <2>4, NotThereYet, Labels DEF rt_sem_control, Calls, Running, sched
  <2>5. ~rt_sem_detach(t, s)
    OBVIOUS
  <2> QED
    BY <1>5, <2>1, <2>2, <2>3, <2>4, <2>5
       DEF SemCall, TakeAvailable, TakeRefused, ReleaseToValue
<1>6. ASSUME NEW t \in Thread, SemContinue(t) PROVE Right'
  <2>1. CASE TakeSchedule(t)
    BY <1>1, <2>1, ScheduleIsRight DEF TakeSchedule
  <2>2. CASE TakeReturn(t)
    BY <2>2 DEF TakeReturn, Running, Right, links, sched
  <2>3. CASE ResetOne(t)
    BY <2>3 DEF ResetOne, InReset, Right, sched
  <2>4. ASSUME NEW v \in ResetValue, ResetValueTo(t, v) PROVE Right'
    BY <2>4, NotThereYet, Labels DEF ResetValueTo, InReset, AtSchedule, sched
  <2>5. ~ResumeAllOne(t) /\ ~ResumeAllAgain(t)
    BY DEF ResumeAllOne, ResumeAllAgain, NoLoops
  <2> QED
    BY <1>6, <2>1, <2>2, <2>3, <2>4, <2>5 DEF SemContinue, Reset
<1>7. CASE UNCHANGED allVars
  BY <1>7, RightStays DEF allVars, vars, sched
<1> QED
  BY <1>2, <1>3, <1>4, <1>5, <1>6, <1>7 DEF SemNext, Next

\* Every call on a semaphore that readies or blocks a thread is followed by a
\* rt_schedule: a thread runs in its own code only if it is the first of the most
\* urgent level.  rt_sem_detach is the exception: it readies and does not schedule.
THEOREM MostUrgentClientRuns == ASSUME ClientCalls, NoDetach PROVE SemSpec => []HighestRuns
<1> DEFINE Inv == fault = "none" /\ NoLoops /\ Right
<1>1. SemInit => Inv
  BY Labels DEF SemInit, Init, rt_system_scheduler_init, NoLoops, Right
<1>2. SemTypeOK /\ SemTypeOK' /\ TokenInv /\ Inv /\ [SemNext]_allVars => Inv'
  BY NobodyDetaches, NoLoopStep, RightStep DEF State, SemTypeOK, TokenInv
<1>3. Inv => HighestRuns
  BY Labels DEF Right, HighestRuns, InUserCode
<1> QED
  BY <1>1, <1>2, <1>3, TokenInvariant, SemaphoreTyped, PTL DEF SemSpec

-----------------------------------------------------------------------------
(* Without time limits semaphores lose no token either.                    *)

\* Threads wait for ever or not at all.
NoTimeLimits == \A time \in WaitTime : time <= 0

\* No thread inside rt_sem_take has its timer pending: none can time out.
Pending(x) == Contains(timer_list, x)
NoTimers == /\ Distinct(timer_list)
            /\ \A x \in Thread : Pending(x) => x \in activated /\ ~InTake(x)

\* A waiter that is readied next will find RT_EOK.
WaitersOk == \A s \in Sem : \A x \in Thread : Contains(tlist[s], x) => error[x] = "ok"

Exact == \A s \in Sem : owed[s] = value[s] + Cardinality(Granted(s))

Conserved == NoTimers /\ WaitersOk /\ Exact
ConservedInv == fault = "none" => Conserved

-----------------------------------------------------------------------------
(* What the steps have in common.                                          *)

Known == State /\ Conserved

\* Nobody enters rt_sem_take and no timer is touched.
LEMMA NoTimersStay ==
  ASSUME NoTimers, UNCHANGED <<timer_list, activated>>,
         \A x \in Thread : InTake(x)' => InTake(x)
  PROVE  NoTimers'
BY DEF NoTimers, Distinct, Pending

\* No token changes hands.
LEMMA ExactStays ==
  ASSUME Exact, value' = value, owed' = owed,
         \A s \in Sem : Granted(s)' = Granted(s)
  PROVE  Exact'
BY DEF Exact

\* t goes on to a place outside rt_sem_take, and nothing else matters.
LEMMA Passes ==
  ASSUME Known, NEW t \in Thread, NEW p, Goto(t, p), error' = error,
         UNCHANGED <<timer_list, activated, value, owed>>,
         p.at \in {"user", "schedule", "sem_resume_all", "sem_resume_one", "sem_reset"},
         ~InTake(t),
         \A s \in Sem, y \in Thread : Contains(tlist'[s], y) <=> Contains(tlist[s], y)
  PROVE  Conserved'
<1>1. pc'[t] = p /\ \A y \in Thread \ {t} : pc'[y] = pc[y]
  BY GoesTo DEF SemLabels, Known
<1>2. NoTimers'
  BY <1>1, NoTimersStay DEF Known, Conserved, InTake
<1>3. \A s \in Sem : Granted(s)' = Granted(s)
  BY <1>1 DEF Granted, InTake
<1>4. Exact'
  BY <1>3, ExactStays DEF Known, Conserved
<1>5. WaitersOk'
  BY DEF WaitersOk, Known, Conserved
<1> QED
  BY <1>2, <1>4, <1>5 DEF Conserved

\* Places, timers and errors stay, and suspend lists keep their waiters.
LEMMA NothingMoves ==
  ASSUME Known, UNCHANGED <<timer_list, activated, pc, error, value, owed>>,
         \A s \in Sem, y \in Thread : Contains(tlist'[s], y) <=> Contains(tlist[s], y)
  PROVE  Conserved'
<1>1. NoTimers'
  BY NoTimersStay DEF Known, Conserved, InTake
<1>2. \A s \in Sem : Granted(s)' = Granted(s)
  BY DEF Granted
<1>3. Exact'
  BY <1>2, ExactStays DEF Known, Conserved
<1>4. WaitersOk'
  BY DEF WaitersOk, Known, Conserved
<1> QED
  BY <1>1, <1>3, <1>4 DEF Conserved

-----------------------------------------------------------------------------
(* The steps of the kernel core.                                           *)

LEMMA BootConserves ==
  ASSUME Known, UNCHANGED semVars, Boot
  PROVE  Conserved'
<1> USE DEF Known, State
<1>1. ASSUME NEW x \in Thread, BootStartup(x) PROVE Conserved'
  <2>1. /\ rt_schedule_insert_thread(rt_list_remove(tlist, x), x) /\ stat[x] = "init"
        /\ UNCHANGED <<timers, error, pc>>
    BY <1>1 DEF BootStartup
  <2>2. /\ \A h \in Sem, y \in Thread :
              Contains(tlist'[h], y) <=> Contains(tlist[h], y) /\ y # x
        /\ \A s \in Sem : ~Contains(tlist[s], x)
    BY <2>1, Relinked DEF SemTypeOK, Core, Waiting
  <2>3. \A s \in Sem, y \in Thread : Contains(tlist'[s], y) <=> Contains(tlist[s], y)
    BY <2>2
  <2> QED
    BY <2>1, <2>3, NothingMoves DEF timers, semVars
<1>2. CASE rt_system_scheduler_start
  BY <1>2, NothingMoves DEF rt_system_scheduler_start, links, timers, semVars
<1> QED
  BY <1>1, <1>2 DEF Boot

\* Who times out was not in rt_sem_take.
LEMMA TimeoutConserves ==
  ASSUME Known, UNCHANGED semVars, rt_thread_timeout
  PROVE  Conserved'
<1> USE DEF Known, State
<1>1. /\ timer_list \in Seq(Thread) /\ timer_list # <<>> /\ Distinct(timer_list)
      /\ error \in [Thread -> {"ok", "timeout", "error"}]
  BY DEF rt_thread_timeout, Expired, SemTypeOK, TypeOK, Conserved, NoTimers
<1> PICK x : x = Head(timer_list)
  OBVIOUS
<1>2. x \in Thread /\ Contains(timer_list, x)
  BY <1>1, HeadIsMember
<1>3. /\ timer_list' = Tail(timer_list) /\ activated' = activated \ {x}
      /\ error' = [error EXCEPT ![x] = "timeout"]
      /\ rt_schedule_insert_thread(rt_list_remove(tlist, x), x) /\ pc' = pc
  BY DEF rt_thread_timeout
<1>4. \A y \in Thread : Contains(timer_list', y) <=> Contains(timer_list, y) /\ y # x
  BY <1>1, <1>3, TailMembers
<1>5. Distinct(timer_list')
  <2>1. /\ Len(timer_list) \in Nat /\ DOMAIN timer_list = 1 .. Len(timer_list)
        /\ Tail(timer_list) \in Seq(Thread) /\ Len(Tail(timer_list)) = Len(timer_list) - 1
        /\ \A i \in 1 .. Len(timer_list) - 1 : Tail(timer_list)[i] = timer_list[i + 1]
    BY <1>1, HeadTailProperties, LenProperties
  <2>2. DOMAIN Tail(timer_list) = 1 .. Len(timer_list) - 1
    BY <2>1, LenProperties
  <2>3. ASSUME NEW i \in DOMAIN Tail(timer_list), NEW j \in DOMAIN Tail(timer_list),
               Tail(timer_list)[i] = Tail(timer_list)[j]
        PROVE  i = j
    <3>1. /\ i + 1 \in DOMAIN timer_list /\ j + 1 \in DOMAIN timer_list
          /\ timer_list[i + 1] = timer_list[j + 1] /\ i \in Int /\ j \in Int
      BY <2>1, <2>2, <2>3
    <3>2. i + 1 = j + 1
      BY <1>1, <3>1 DEF Distinct
    <3> QED
      BY <3>1, <3>2
  <2> QED
    BY <1>3, <2>3 DEF Distinct
<1>6. NoTimers'
  BY <1>3, <1>4, <1>5 DEF Conserved, NoTimers, Pending, InTake
<1>7. /\ ~InTake(x)
      /\ \A h \in Sem, y \in Thread :
            Contains(tlist'[h], y) <=> Contains(tlist[h], y) /\ y # x
  BY <1>2, <1>3, Relinked DEF Conserved, NoTimers, Pending, SemTypeOK, Core
<1>8. \A s \in Sem : Granted(s)' = Granted(s)
  BY <1>1, <1>3, <1>7 DEF Granted, InTake
<1>9. Exact'
  BY <1>8, ExactStays DEF Conserved, semVars
<1>10. WaitersOk'
  BY <1>1, <1>3, <1>7 DEF WaitersOk, Conserved
<1> QED
  BY <1>6, <1>9, <1>10 DEF Conserved

LEMMA SysTickConserves ==
  ASSUME Known, UNCHANGED semVars, SysTick
  PROVE  Conserved'
<1>1. CASE rt_tick_increase
  <2>1. UNCHANGED <<timer_list, activated, pc, error>> /\ current_thread \in Thread
    BY <1>1 DEF rt_tick_increase, Known, State, SemTypeOK, TypeOK
  <2>2. \A s \in Sem, y \in Thread : Contains(tlist'[s], y) <=> Contains(tlist[s], y)
    <3>1. CASE SliceEnds /\ CanYield(current_thread)
      <4>1. MoveToTail(current_thread) /\ stat[current_thread] = "ready"
        BY <1>1, <3>1 DEF rt_tick_increase, CanYield
      <4> QED
        BY <2>1, <4>1, Moved DEF Known, State, SemTypeOK, Core
    <3>2. CASE ~(SliceEnds /\ CanYield(current_thread))
      BY <1>1, <3>2 DEF rt_tick_increase, links
    <3> QED
      BY <3>1, <3>2
  <2> QED
    BY <2>1, <2>2, NothingMoves DEF semVars
<1>2. CASE rt_timer_check_done
  BY <1>2, NothingMoves DEF rt_timer_check_done, links, timers, semVars
<1> QED
  BY <1>1, <1>2, TimeoutConserves DEF SysTick

\* A thread that sleeps is not in rt_sem_take either.
LEMMA SleepConserves ==
  ASSUME Known, UNCHANGED semVars, NEW t \in Thread, NEW tick \in Delay,
         rt_thread_sleep(t, tick)
  PROVE  Conserved'
<1> DEFINE l == Without(timer_list, t)
           k == InsertPosition(l, tick)
<1>1. /\ current_thread = t /\ pc[t] = User /\ Goto(t, AtSchedule) /\ error' = error
      /\ IF stat[t] = "ready" THEN Suspend(t) ELSE UNCHANGED links
      /\ timer_list' = InsertAt(l, k, t) /\ activated' = activated \cup {t}
  BY DEF rt_thread_sleep, rt_timer_start, Calls, Running, AtSchedule
<1>2. /\ l \in Seq(Thread) /\ Distinct(l) /\ ~Contains(l, t)
      /\ \A y : Contains(l, y) => Contains(timer_list, y)
  BY WithoutProperties, WithoutElements
     DEF Known, Conserved, NoTimers, State, SemTypeOK, TypeOK
<1>3. k \in 1 .. Len(l) + 1
  <2>1. tick \in Int /\ timeout \in [Thread -> Int]
    BY ConstantsAssumption DEF Known, State, SemTypeOK, TypeOK
  <2> HIDE DEF l
  <2> QED
    BY <1>2, <2>1, InsertPlace
<1> HIDE DEF l, k
<1>4. Distinct(timer_list') /\ \A y : Contains(timer_list', y) => Contains(timer_list, y) \/ y = t
  BY <1>1, <1>2, <1>3, InsertMembers
<1>5. pc'[t] = AtSchedule /\ \A y \in Thread \ {t} : pc'[y] = pc[y]
  BY <1>1, GoesTo, Labels DEF Known
<1>6. NoTimers'
  BY <1>1, <1>4, <1>5, Labels DEF Known, Conserved, NoTimers, Pending, InTake
<1>7. stat[t] = "ready" /\ \A s \in Sem : ~Contains(tlist[s], t)
  BY <1>1, Runner, Labels DEF Known
<1>8. \A s \in Sem, y \in Thread : Contains(tlist'[s], y) <=> Contains(tlist[s], y)
  BY <1>1, <1>7, Suspended DEF Known, State, SemTypeOK, Core
<1>9. \A s \in Sem : Granted(s)' = Granted(s)
  BY <1>1, <1>5, <1>8, Labels DEF Granted
<1>10. Exact'
  BY <1>9, ExactStays DEF Known, Conserved, semVars
<1>11. WaitersOk'
  BY <1>1, <1>8 DEF Known, Conserved, WaitersOk
<1> QED
  BY <1>6, <1>10, <1>11 DEF Conserved

LEMMA KernelConserves ==
  ASSUME ClientCalls, Known, UNCHANGED semVars, Next
  PROVE  Conserved'
<1>1. ASSUME NEW t \in Thread, rt_thread_yield(t) PROVE Conserved'
  <2>1. /\ stat[t] = "ready" /\ MoveToTail(t) /\ pc[t] = User
        /\ Goto(t, AtSchedule) /\ UNCHANGED <<timers, error>>
    BY <1>1 DEF rt_thread_yield, Calls, CanYield, AtSchedule
  <2>2. \A s \in Sem, y \in Thread : Contains(tlist'[s], y) <=> Contains(tlist[s], y)
    BY <2>1, Moved DEF Known, State, SemTypeOK, Core
  <2>3. ~InTake(t)
    BY <2>1, Labels DEF InTake
  <2> QED
    BY <2>1, <2>2, <2>3, Passes, Labels DEF semVars, timers
<1>2. ASSUME NEW t \in Thread, call_rt_schedule(t) PROVE Conserved'
  BY <1>2, NothingMoves DEF call_rt_schedule, links, timers, semVars
<1>3. ASSUME NEW t \in Thread, Reschedule(t) PROVE Conserved'
  <2>1. /\ Goto(t, User) /\ pc[t].at = "schedule" /\ UNCHANGED <<links, timers, error>>
    BY <1>3 DEF Reschedule
  <2>2. ~InTake(t)
    BY <2>1 DEF InTake
  <2> QED
    BY <2>1, <2>2, Passes, Labels DEF semVars, links, timers
<1> QED
  BY <1>1, <1>2, <1>3, SleepConserves, CallsOfClients, BootConserves, SysTickConserves
     DEF Next, Known

-----------------------------------------------------------------------------
(* The steps of the semaphore calls.                                       *)

LEMMA QuickTakesConserve ==
  ASSUME ClientCalls, Known, NEW t \in Thread, NEW s \in Sem,
         TakeAvailable(t, s) \/ TakeRefused(t, s) \/ ReleaseToValue(t, s)
  PROVE  Conserved'
<1> USE DEF Known, State
<1>1. UNCHANGED vars
  BY DEF TakeAvailable, TakeRefused, ReleaseToValue
<1>2. /\ value \in [Sem -> 0 .. SemValueMax] /\ owed \in [Sem -> Int]
      /\ ReleaseMax \in Nat /\ SemValueMax \in Nat /\ ReleaseMax <= SemValueMax
  BY SemAssumption DEF SemTypeOK, ClientCalls
<1>3. \A h \in Sem : /\ Cardinality(Granted(h)) \in Nat
                     /\ owed[h] = value[h] + Cardinality(Granted(h))
  BY GrantedCount DEF Conserved, Exact
<1>4. \A h \in Sem : owed'[h] = value'[h] + Cardinality(Granted(h))
  <2>1. CASE TakeAvailable(t, s)
    BY <1>2, <1>3, <2>1 DEF TakeAvailable
  <2>2. CASE TakeRefused(t, s)
    BY <1>3, <2>2 DEF TakeRefused
  <2>3. CASE ReleaseToValue(t, s)
    BY <1>2, <1>3, <2>3 DEF ReleaseToValue
  <2> QED
    BY <2>1, <2>2, <2>3
<1>5. \A h \in Sem : Granted(h)' = Granted(h)
  BY <1>1, KernelStays
<1>6. Exact'
  BY <1>4, <1>5 DEF Exact
<1>7. NoTimers' /\ WaitersOk'
  BY <1>1, NoTimersStay DEF Conserved, InTake, WaitersOk, vars, links, timers
<1> QED
  BY <1>6, <1>7 DEF Conserved

\* A thread that starts to wait stops its timer and clears its error.
LEMMA BlockConserves ==
  ASSUME NoTimeLimits, Known, NEW t \in Thread, NEW s \in Sem, NEW time \in WaitTime,
         TakeBlock(t, s, time)
  PROVE  Conserved'
<1> DEFINE p == At("sem_schedule", s, "user")
<1>1. /\ current_thread = t /\ pc[t] = User /\ Goto(t, p)
      /\ error' = [error EXCEPT ![t] = "ok"] /\ rt_ipc_list_suspend(s, t)
      /\ WaitTimer(t, time) /\ UNCHANGED semVars /\ fault = "none"
  BY DEF TakeBlock, Calls, Running
<1>2. p.at = "sem_schedule" /\ p.arg = s
  BY Labels
<1> HIDE DEF p
<1>3. /\ stat[t] = "ready" /\ \A h \in Sem : ~Contains(tlist[h], t)
      /\ error \in [Thread -> {"ok", "timeout", "error"}] /\ timer_list \in Seq(Thread)
  BY <1>1, Runner, Labels DEF Known, State, SemTypeOK, TypeOK
<1>4. \A h \in Sem, y \in Thread :
         Contains(tlist'[h], y) <=> (Contains(tlist[h], y) /\ y # t) \/ (y = t /\ h = s)
  BY <1>1, <1>3, JoinedWaiters DEF Known, State, SemTypeOK, Core
<1>5. pc'[t] = p /\ \A y \in Thread \ {t} : pc'[y] = pc[y]
  BY <1>1, <1>2, GoesTo DEF Known, SemLabels
<1>6. rt_timer_stop(t)
  <2>1. ~(time > 0)
    BY SemAssumption DEF NoTimeLimits
  <2> QED
    BY <1>1, <1>3, <2>1 DEF WaitTimer
<1>7. /\ Distinct(timer_list')
      /\ \A y : Contains(timer_list', y) => Contains(timer_list, y) /\ y # t
  <2>1. Contains(timer_list, t) => t \in activated
    BY DEF Known, Conserved, NoTimers, Pending
  <2>2. Distinct(timer_list)
    BY DEF Known, Conserved, NoTimers
  <2>3. /\ Distinct(Without(timer_list, t)) /\ ~Contains(Without(timer_list, t), t)
        /\ \A y : Contains(Without(timer_list, t), y) => Contains(timer_list, y)
    BY <1>3, <2>2, WithoutElements
  <2>4. CASE t \in activated
    BY <1>6, <2>3, <2>4 DEF rt_timer_stop
  <2>5. CASE t \notin activated
    <3>1. timer_list' = timer_list
      BY <1>6, <2>5 DEF rt_timer_stop
    <3> QED
      BY <2>1, <2>2, <2>5, <3>1
  <2> QED
    BY <2>4, <2>5
<1>8. activated' = activated \ {t}
  BY <1>6 DEF rt_timer_stop
<1>9. NoTimers'
  BY <1>5, <1>7, <1>8 DEF Known, Conserved, NoTimers, Pending, InTake
<1>10. WaitersOk'
  BY <1>1, <1>3, <1>4 DEF Known, Conserved, WaitersOk
<1>11. \A h \in Sem : Granted(h)' = Granted(h)
  BY <1>1, <1>2, <1>3, <1>4, <1>5, Labels DEF Granted
<1>12. Exact'
  BY <1>1, <1>11, ExactStays DEF Known, Conserved, semVars
<1> QED
  BY <1>9, <1>10, <1>12 DEF Conserved

\* A release to a waiter: one token more, and it is with that waiter.
LEMMA ReleaseConserves ==
  ASSUME Known, NEW t \in Thread, NEW s \in Sem, ReleaseToWaiter(t, s)
  PROVE  Conserved'
<1> PICK x : x = Head(tlist[s])
  OBVIOUS
<1>1. /\ tlist[s] # <<>> /\ ResumeNow(x) /\ Goto(t, AtSchedule)
      /\ current_thread = t /\ pc[t] = User
      /\ owed' = [owed EXCEPT ![s] = @ + 1] /\ UNCHANGED <<timers, error, value>>
  BY DEF ReleaseToWaiter, Calls, Running, AtSchedule
<1>2. /\ x \in Thread /\ stat[x] = "suspend" /\ pc[x].arg = s /\ InTake(x)
      /\ Contains(tlist[s], x)
      /\ \A h \in Sem, y \in Thread :
            Contains(tlist'[h], y) <=> Contains(tlist[h], y) /\ y # x
  BY <1>1, HeadResumed DEF Known
<1>3. owed \in [Sem -> Int] /\ value \in [Sem -> 0 .. SemValueMax] /\ SemValueMax \in Nat
  BY SemAssumption DEF Known, State, SemTypeOK
<1>4. x # t /\ error[x] = "ok"
  BY <1>1, <1>2, Labels DEF InTake, Known, Conserved, WaitersOk
<1>5. pc'[t] = AtSchedule /\ \A y \in Thread \ {t} : pc'[y] = pc[y]
  BY <1>1, GoesTo, Labels DEF Known
<1>6. NoTimers'
  BY <1>1, <1>5, NoTimersStay, Labels DEF Known, Conserved, InTake, timers
<1>7. WaitersOk'
  BY <1>1, <1>2 DEF Known, Conserved, WaitersOk
<1>8. \A h \in Sem \ {s} : Granted(h)' = Granted(h)
  BY <1>1, <1>2, <1>4, <1>5, Labels DEF Granted, InTake
<1>9. x \notin Granted(s) /\ Granted(s)' = Granted(s) \cup {x}
  <2>1. x \notin Granted(s)
    BY <1>2 DEF Granted
  <2>2. \A y \in Thread : y \in Granted(s)' <=> y \in Granted(s) \/ y = x
    BY <1>1, <1>2, <1>4, <1>5, Labels DEF Granted, InTake
  <2>3. Granted(s) \subseteq Thread /\ Granted(s)' \subseteq Thread
    BY DEF Granted
  <2> QED
    BY <1>2, <2>1, <2>2, <2>3
<1>10. Cardinality(Granted(s)') = Cardinality(Granted(s)) + 1 /\ Cardinality(Granted(s)) \in Nat
  <2>1. Granted(s)' \in SUBSET Thread /\ Granted(s) \in SUBSET Thread
    BY DEF Granted
  <2>2. x \in Granted(s)' /\ Granted(s)' \ {x} = Granted(s)
    BY <1>9
  <2>3. /\ Cardinality(Granted(s)' \ {x}) = Cardinality(Granted(s)') - 1
        /\ Cardinality(Granted(s)') \in Nat /\ Cardinality(Granted(s)) \in Nat
    BY <2>1, <2>2, Counting
  <2> QED
    BY <2>2, <2>3
<1>11. Exact'
  <2> SUFFICES ASSUME NEW h \in Sem PROVE owed'[h] = value'[h] + Cardinality(Granted(h)')
    BY DEF Exact
  <2>1. owed[h] = value[h] + Cardinality(Granted(h)) /\ value'[h] = value[h] /\ value[h] \in Int
    BY <1>1, <1>3 DEF Known, Conserved, Exact
  <2>2. CASE h = s
    BY <1>1, <1>3, <1>10, <2>1, <2>2
  <2>3. CASE h # s
    BY <1>1, <1>3, <1>8, <2>1, <2>3
  <2> QED
    BY <2>2, <2>3
<1> QED
  BY <1>6, <1>7, <1>11 DEF Conserved

\* A waiter that is readied with an error code is granted nothing.
LEMMA ErrorConserves ==
  ASSUME Known, NEW t \in Thread, NEW s \in Sem, tlist[s] # <<>>, ResumeFirst(s),
         NEW p, pc' = pc \/ Goto(t, p), p.at = "sem_resume_all", ~InTake(t),
         UNCHANGED <<timers, semVars>>
  PROVE  Conserved'
<1> PICK x : x = Head(tlist[s])
  OBVIOUS
<1>1. error' = [error EXCEPT ![x] = "error"] /\ ResumeNow(x)
  BY DEF ResumeFirst
<1>2. /\ x \in Thread /\ pc[x].arg = s /\ InTake(x) /\ Contains(tlist[s], x)
      /\ \A h \in Sem, y \in Thread :
            Contains(tlist'[h], y) <=> Contains(tlist[h], y) /\ y # x
  BY <1>1, HeadResumed DEF Known
<1>3. error \in [Thread -> {"ok", "timeout", "error"}]
  BY DEF Known, State, SemTypeOK, TypeOK
<1>4. ~InTake(t)' /\ \A y \in Thread \ {t} : pc'[y] = pc[y]
  <2>1. CASE pc' = pc
    BY <2>1 DEF InTake
  <2>2. CASE Goto(t, p)
    BY <2>2, GoesTo DEF SemLabels, InTake, Known
  <2> QED
    BY <2>1, <2>2
<1>5. NoTimers'
  BY <1>4, NoTimersStay DEF Known, Conserved, InTake, timers
<1>6. WaitersOk'
  BY <1>1, <1>2, <1>3 DEF Known, Conserved, WaitersOk
<1>7. \A h \in Sem : Granted(h)' = Granted(h)
  BY <1>1, <1>2, <1>3, <1>4 DEF Granted, InTake
<1>8. Exact'
  BY <1>7, ExactStays DEF Known, Conserved, semVars
<1> QED
  BY <1>5, <1>6, <1>8 DEF Conserved

\* The rest of a take that blocked: its token is spent when it returns RT_EOK.
LEMMA TakeRestConserves ==
  ASSUME Known, NEW t \in Thread, TakeSchedule(t) \/ TakeReturn(t)
  PROVE  Conserved'
<1>1. CASE TakeSchedule(t)
  <2> DEFINE p == At("sem_woken", pc[t].arg, pc[t].then)
  <2>1. /\ Goto(t, p) /\ pc[t].at = "sem_schedule"
        /\ UNCHANGED <<links, timers, error, semVars>>
    BY <1>1 DEF TakeSchedule
  <2>2. p.at = "sem_woken" /\ p.arg = pc[t].arg
    BY DEF At
  <2> HIDE DEF p
  <2>3. pc'[t] = p /\ \A y \in Thread \ {t} : pc'[y] = pc[y]
    BY <2>1, <2>2, GoesTo DEF SemLabels, Known
  <2>4. NoTimers'
    BY <2>1, <2>3, NoTimersStay DEF Known, Conserved, InTake, timers
  <2>5. \A s \in Sem : Granted(s)' = Granted(s)
    BY <2>1, <2>2, <2>3 DEF Granted, links
  <2>6. Exact'
    BY <2>1, <2>5, ExactStays DEF Known, Conserved, semVars
  <2>7. WaitersOk'
    BY <2>1 DEF Known, Conserved, WaitersOk, links
  <2> QED
    BY <2>4, <2>6, <2>7 DEF Conserved
<1>2. CASE TakeReturn(t)
  <2>1. /\ current_thread = t /\ pc[t].at = "sem_woken" /\ Goto(t, User)
        /\ owed' = IF error[t] = "ok" THEN [owed EXCEPT ![pc[t].arg] = @ - 1] ELSE owed
        /\ UNCHANGED <<links, timers, error, value>>
    BY <1>2 DEF TakeReturn, Running
  <2>2. /\ owed \in [Sem -> Int] /\ value \in [Sem -> 0 .. SemValueMax] /\ SemValueMax \in Nat
        /\ pc[t] \in PC
    BY SemAssumption DEF Known, State, SemTypeOK, TypeOK
  <2>3. pc[t].arg \in Sem /\ \A s \in Sem : ~Contains(tlist[s], t)
    BY <2>1, <2>2, SemPlaces, Runner DEF Known
  <2>4. pc'[t] = User /\ \A y \in Thread \ {t} : pc'[y] = pc[y]
    BY <2>1, GoesTo, Labels DEF Known
  <2>5. NoTimers'
    BY <2>1, <2>4, NoTimersStay, Labels DEF Known, Conserved, InTake, timers
  <2>6. WaitersOk'
    BY <2>1 DEF Known, Conserved, WaitersOk, links
  <2>7. /\ \A h \in Sem : Granted(h)' = Granted(h) \ {t}
        /\ \A h \in Sem : t \in Granted(h) <=> h = pc[t].arg /\ error[t] = "ok"
    BY <2>1, <2>3, <2>4, Labels DEF Granted, links
  <2>8. ASSUME NEW h \in Sem PROVE owed'[h] = value'[h] + Cardinality(Granted(h)')
    <3>1. /\ owed[h] = value[h] + Cardinality(Granted(h)) /\ value'[h] = value[h]
          /\ value[h] \in Int
      BY <2>1, <2>2 DEF Known, Conserved, Exact
    <3>2. Granted(h) \in SUBSET Thread
      BY DEF Granted
    <3>3. CASE t \in Granted(h)
      <4>1. Cardinality(Granted(h)') = Cardinality(Granted(h)) - 1
            /\ Cardinality(Granted(h)) \in Nat
        BY <2>7, <3>2, <3>3, Counting
      <4>2. owed'[h] = owed[h] - 1
        BY <2>1, <2>2, <2>7, <3>3
      <4> QED
        BY <3>1, <4>1, <4>2
    <3>4. CASE t \notin Granted(h)
      <4>1. Granted(h)' = Granted(h)
        BY <2>7, <3>4
      <4>2. owed'[h] = owed[h]
        BY <2>1, <2>2, <2>7, <3>4
      <4> QED
        BY <3>1, <4>1, <4>2
    <3> QED
      BY <3>3, <3>4
  <2>9. Exact'
    BY <2>8 DEF Exact
  <2> QED
    BY <2>5, <2>6, <2>9 DEF Conserved
<1> QED
  BY <1>1, <1>2

\* A reset: the new value and the tokens granted before.
LEMMA ResetValueConserves ==
  ASSUME Known, NEW t \in Thread, NEW v \in ResetValue, ResetValueTo(t, v)
  PROVE  Conserved'
<1> DEFINE s == pc[t].arg
<1>1. /\ pc[t].at = "sem_reset" /\ Goto(t, AtSchedule)
      /\ value' = [value EXCEPT ![s] = v]
      /\ owed' = [owed EXCEPT ![s] = v + Cardinality(Granted(s))]
      /\ UNCHANGED <<links, timers, error>>
  BY DEF ResetValueTo, InReset, AtSchedule
<1>2. /\ owed \in [Sem -> Int] /\ value \in [Sem -> 0 .. SemValueMax] /\ pc[t] \in PC
  BY DEF Known, State, SemTypeOK, TypeOK
<1>3. s \in Sem
  BY <1>1, <1>2, SemPlaces
<1> HIDE DEF s
<1>4. pc'[t] = AtSchedule /\ \A y \in Thread \ {t} : pc'[y] = pc[y]
  BY <1>1, GoesTo, Labels DEF Known
<1>5. NoTimers'
  BY <1>1, <1>4, NoTimersStay, Labels DEF Known, Conserved, InTake, timers
<1>6. WaitersOk'
  BY <1>1 DEF Known, Conserved, WaitersOk, links
<1>7. \A h \in Sem : Granted(h)' = Granted(h)
  BY <1>1, <1>4, Labels DEF Granted, links
<1>8. \A h \in Sem : owed'[h] = value'[h] + Cardinality(Granted(h))
  BY <1>1, <1>2, <1>3 DEF Known, Conserved, Exact
<1>9. Exact'
  BY <1>7, <1>8 DEF Exact
<1> QED
  BY <1>5, <1>6, <1>9 DEF Conserved

LEMMA SemConserves ==
  ASSUME ClientCalls, NoTimeLimits, Known, NEW t \in Thread,
         (\E s \in Sem : SemCall(t, s)) \/ SemContinue(t), fault' = "none"
  PROVE  Conserved'
<1>1. pc[t] \in PC
  BY DEF Known, State, SemTypeOK, TypeOK
<1>2. ASSUME NEW s \in Sem, rt_sem_detach(t, s) PROVE Conserved'
  <2>1. /\ pc[t] = User /\ UNCHANGED <<links, timers, error, semVars>>
        /\ Goto(t, IF tlist[s] = <<>> THEN User ELSE At("sem_resume_one", s, "user"))
    BY <1>2 DEF rt_sem_detach, ResumeAllTest, Calls
  <2>2. ~InTake(t)
    BY <2>1, Labels DEF InTake
  <2> QED
    BY <2>1, <2>2, Passes, Labels DEF links, timers, semVars
<1>3. ASSUME NEW s \in Sem, rt_sem_control(t, s) PROVE Conserved'
  <2>1. /\ pc[t] = User /\ UNCHANGED <<links, timers, error, semVars>>
        /\ Goto(t, At("sem_reset", s, "user"))
    BY <1>3 DEF rt_sem_control, Calls
  <2>2. ~InTake(t)
    BY <2>1, Labels DEF InTake
  <2> QED
    BY <2>1, <2>2, Passes, Labels DEF links, timers, semVars
<1>4. CASE ResumeAllOne(t)
  <2>1. /\ pc[t].at = "sem_resume_one" /\ tlist[pc[t].arg] # <<>> /\ ResumeFirst(pc[t].arg)
        /\ Goto(t, At("sem_resume_all", pc[t].arg, "user")) /\ UNCHANGED <<timers, semVars>>
    BY <1>4 DEF ResumeAllOne
  <2>2. pc[t].arg \in Sem /\ ~InTake(t)
    BY <1>1, <2>1, SemPlaces DEF InTake
  <2> QED
    BY <2>1, <2>2, ErrorConserves, Labels
<1>5. CASE ResetOne(t)
  <2>1. /\ pc[t].at = "sem_reset" /\ tlist[pc[t].arg] # <<>> /\ ResumeFirst(pc[t].arg)
        /\ pc' = pc /\ UNCHANGED <<timers, semVars>>
    BY <1>5 DEF ResetOne, InReset
  <2>2. pc[t].arg \in Sem /\ ~InTake(t)
    BY <1>1, <2>1, SemPlaces DEF InTake
  <2>3. At("sem_resume_all", pc[t].arg, "user").at = "sem_resume_all"
    BY Labels
  <2> QED
    BY <2>1, <2>2, <2>3, ErrorConserves
<1>6. CASE ResumeAllAgain(t)
  <2>1. /\ pc[t].at = "sem_resume_all" /\ UNCHANGED <<links, timers, error, semVars>>
        /\ Goto(t, IF tlist[pc[t].arg] = <<>> THEN User
                   ELSE At("sem_resume_one", pc[t].arg, "user"))
    BY <1>6 DEF ResumeAllAgain, ResumeAllTest
  <2>2. ~InTake(t)
    BY <2>1 DEF InTake
  <2> QED
    BY <2>1, <2>2, Passes, Labels DEF links, timers, semVars
<1> QED
  BY <1>2, <1>3, <1>4, <1>5, <1>6, QuickTakesConserve, BlockConserves, ReleaseConserves,
     TakeRestConserves, ResetValueConserves DEF SemCall, SemContinue, Reset

-----------------------------------------------------------------------------
(* The theorems.                                                           *)

\* fault stays as it is once it is set.
LEMMA FaultStays == [SemNext]_allVars /\ fault # "none" => fault' # "none"
BY NothingAfterFault DEF allVars, vars

LEMMA ConservedStep ==
  ClientCalls /\ NoTimeLimits /\ SemTypeOK /\ TokenInv /\ ConservedInv /\ [SemNext]_allVars
    => ConservedInv'
<1> SUFFICES ASSUME ClientCalls, NoTimeLimits, SemTypeOK, TokenInv, ConservedInv,
                    [SemNext]_allVars, fault' = "none"
             PROVE  Conserved'
  BY DEF ConservedInv
<1>1. Known
  BY FaultStays DEF Known, State, TokenInv, ConservedInv
<1>2. CASE Next /\ UNCHANGED semVars
  BY <1>1, <1>2, KernelConserves
<1>3. CASE UNCHANGED allVars
  BY <1>1, <1>3, NothingMoves DEF allVars, vars, links, timers, semVars
<1>4. ASSUME NEW t \in Thread, (\E s \in Sem : SemCall(t, s)) \/ SemContinue(t)
      PROVE  Conserved'
  BY <1>1, <1>4, SemConserves
<1> QED
  BY <1>2, <1>3, <1>4 DEF SemNext

LEMMA ConservedStart == SemInit => ConservedInv
<1> SUFFICES ASSUME SemInit PROVE Conserved
  BY DEF ConservedInv
<1>1. /\ tlist = [h \in ListHead |-> <<>>] /\ timer_list = <<>>
      /\ error = [t \in Thread |-> "ok"]
      /\ pc = [t \in Thread |-> User] /\ value = SemValue /\ owed = SemValue
  BY DEF SemInit, Init, rt_system_scheduler_init, rt_thread_init, rt_timer_init
<1>2. NoTimers /\ WaitersOk
  BY <1>1 DEF NoTimers, WaitersOk, Distinct, Pending, Contains
<1>3. \A s \in Sem : Granted(s) = {} /\ owed[s] = value[s] /\ value[s] \in Int
  BY <1>1, SemAssumption, Labels DEF Granted
<1>4. Exact
  <2>1. Cardinality({}) = 0
    BY FS_EmptySet
  <2>2. \A s \in Sem : Cardinality(Granted(s)) = 0
    BY <1>3, <2>1
  <2> QED
    BY <1>3, <2>2 DEF Exact
<1> QED
  BY <1>2, <1>4 DEF Conserved

\* Without time limits no token is lost and none is made up: what was released
\* and not taken is in the value or with a waiter that rt_sem_release has readied,
\* for any threads and semaphores, whatever resets and detaches do.
THEOREM NoTokenIsLost ==
  ASSUME ClientCalls, NoTimeLimits PROVE SemSpec => []TokensConserved
<1>1. SemInit => ConservedInv
  BY ConservedStart
<1>2. SemTypeOK /\ TokenInv /\ ConservedInv /\ [SemNext]_allVars => ConservedInv'
  BY ConservedStep
<1>3. ConservedInv => TokensConserved
  BY DEF ConservedInv, Conserved, Exact, TokensConserved
<1> QED
  BY <1>1, <1>2, <1>3, TokenInvariant, SemaphoreTyped, PTL DEF SemSpec

-----------------------------------------------------------------------------
(* With detach.                                                            *)

\* Only the most urgent thread of all detaches semaphores.
MostUrgent(t) == \A u \in Thread \ {t} : Priority[t] < Priority[u]
DetachedFromAbove ==
    \A t \in Thread : (\E s \in Sem : <<"sem_detach", s>> \in Api[t]) => MostUrgent(t)

\* Nothing takes the CPU from the loop of rt_ipc_list_resume_all, and nobody
\* takes a waiter away after its test.
InLoop(t) == pc[t].at \in {"sem_resume_all", "sem_resume_one"}
LoopSound ==
    \A t \in Thread : InLoop(t) =>
        /\ MostUrgent(t) /\ current_thread = t /\ stat[t] = "ready"
        /\ pc[t].at = "sem_resume_one" => tlist[pc[t].arg] # <<>>

\* The most urgent thread is chosen whenever it is ready.
UrgentChosen ==
    \A t \in Thread : MostUrgent(t) /\ stat[t] = "ready" => to_thread(tlist, group) = t

LEMMA UrgentIsChosen == TypeOK /\ Lists => UrgentChosen
<1> SUFFICES ASSUME TypeOK, Lists, NEW t \in Thread, MostUrgent(t), stat[t] = "ready"
             PROVE  to_thread(tlist, group) = t
  BY DEF UrgentChosen
<1> DEFINE h == highest_ready_priority(group)
<1>1. tlist \in [ListHead -> Seq(Thread)] /\ group = Nonempty(tlist) /\ group \in SUBSET Prio
  BY DEF TypeOK, Lists, Nonempty
<1>2. Priority[t] \in group
  BY <1>1, Heads, NonemptyMembers DEF Lists, ReadyIsListed
<1>3. h \in group /\ h <= Priority[t]
  BY <1>1, <1>2, HighestPriority
<1> HIDE DEF h
<1>4. tlist[h] \in Seq(Thread) /\ tlist[h] # <<>> /\ h \in Prio
  BY <1>1, <1>3, Heads DEF Nonempty
<1>5. Head(tlist[h]) \in Thread /\ Contains(tlist[h], Head(tlist[h]))
  BY <1>4, HeadIsMember
<1>6. ASSUME NEW y \in Thread, Contains(tlist[h], y) PROVE y = t
  <2>1. h = Priority[y]
    BY <1>4, <1>6, Heads DEF Lists, InPlace
  <2>2. Priority[y] \in Int /\ Priority[t] \in Int
    BY Heads DEF Prio
  <2> QED
    BY <1>3, <2>1, <2>2 DEF MostUrgent
<1> QED
  BY <1>2, <1>4, <1>5, <1>6 DEF to_thread, h

LEMMA UrgentIsChosenNext == TypeOK' /\ Lists' => UrgentChosen'
BY UrgentIsChosen, PTL

\* Without time limits the tick handler takes nobody out of a suspend list.
LEMMA TickKeepsWaiters ==
  ASSUME Known, SysTick
  PROVE  /\ pc' = pc
         /\ \A s \in Sem, y \in Thread : Contains(tlist'[s], y) <=> Contains(tlist[s], y)
<1> USE DEF Known, State
<1>1. CASE rt_tick_increase /\ SliceEnds /\ CanYield(current_thread)
  <2>1. /\ MoveToTail(current_thread) /\ stat[current_thread] = "ready" /\ pc' = pc
        /\ current_thread \in Thread
    BY <1>1 DEF rt_tick_increase, CanYield, SemTypeOK, TypeOK
  <2> QED
    BY <2>1, Moved DEF SemTypeOK, Core
<1>2. CASE rt_tick_increase /\ ~(SliceEnds /\ CanYield(current_thread))
  BY <1>2 DEF rt_tick_increase, links
<1>3. CASE rt_timer_check_done
  BY <1>3 DEF rt_timer_check_done, links
<1>4. CASE rt_thread_timeout
  <2>1. timer_list \in Seq(Thread) /\ timer_list # <<>> /\ pc' = pc
    BY <1>4 DEF rt_thread_timeout, Expired, SemTypeOK, TypeOK
  <2>2. PICK x \in Thread : x = Head(timer_list) /\ Contains(timer_list, x)
    BY <2>1, HeadIsMember
  <2>3. rt_schedule_insert_thread(rt_list_remove(tlist, x), x)
    BY <1>4, <2>2 DEF rt_thread_timeout
  <2>4. \A s \in Sem, y \in Thread : Contains(tlist'[s], y) <=> Contains(tlist[s], y) /\ y # x
    BY <2>3, Relinked DEF SemTypeOK, Core
  <2>5. \A s \in Sem : ~Contains(tlist[s], x)
    BY <2>2 DEF Conserved, NoTimers, Pending, InTake, Core, Waiting
  <2> QED
    BY <2>1, <2>4, <2>5
<1> QED
  BY <1>1, <1>2, <1>3, <1>4 DEF SysTick

\* ... and leaves the CPU to the loop.
LEMMA TickKeepsLoop ==
  ASSUME Known, TypeOK', Lists', SysTick, NEW t \in Thread, MostUrgent(t),
         current_thread = t, stat[t] = "ready"
  PROVE  current_thread' = t /\ stat'[t] = "ready"
<1> USE DEF Known, State
<1>1. lock_nest = 0 /\ stat \in [Thread -> Stat]
  BY DEF Core, SemTypeOK, TypeOK
<1>2. ASSUME stat'[t] = "ready", rt_schedule(tlist', group') PROVE current_thread' = t
  <2>1. to_thread(tlist', group') = t
    BY <1>2, UrgentIsChosenNext DEF UrgentChosen, to_thread
  <2> QED
    BY <1>1, <1>2, <2>1 DEF rt_schedule
<1>3. CASE rt_tick_increase /\ SliceEnds /\ CanYield(current_thread)
  <2>1. MoveToTail(t) /\ rt_schedule(tlist', group)
    BY <1>3 DEF rt_tick_increase
  <2>2. stat' = stat /\ group' = group
    BY <2>1 DEF MoveToTail
  <2> QED
    BY <1>2, <2>1, <2>2
<1>4. CASE (rt_tick_increase /\ ~(SliceEnds /\ CanYield(current_thread))) \/ rt_timer_check_done
  BY <1>4 DEF rt_tick_increase, rt_timer_check_done, links, sched
<1>5. CASE rt_thread_timeout
  <2>1. /\ stat' = [stat EXCEPT ![Head(timer_list)] = "ready"]
        /\ rt_schedule(tlist', group')
    BY <1>5 DEF rt_thread_timeout, rt_schedule_insert_thread
  <2>2. stat'[t] = "ready"
    BY <1>1, <2>1
  <2> QED
    BY <1>2, <2>1, <2>2
<1> QED
  BY <1>3, <1>4, <1>5 DEF SysTick

\* A step while the loop of x runs.
LEMMA LoopRuns ==
  ASSUME ClientCalls, Known, SemTypeOK', TypeOK', LoopSound, [SemNext]_allVars,
         NEW x \in Thread, InLoop(x)
  PROVE  fault' = "none" /\ LoopSound' /\ Right'
<1>1. /\ MostUrgent(x) /\ current_thread = x /\ stat[x] = "ready" /\ x # NoThread
      /\ pc[x].at = "sem_resume_one" => tlist[pc[x].arg] # <<>>
      /\ \A t \in Thread \ {x} : ~InLoop(t)
  BY Heads DEF LoopSound
<1>2. /\ State /\ fault = "none" /\ pc \in [Thread -> PC] /\ pc[x].arg \in Sem
      /\ TypeOK /\ Lists
  BY SemPlaces DEF Known, State, SemTypeOK, TypeOK, InLoop, Core
<1>3. pc[x] # User /\ pc[x].at \notin {"schedule", "sem_schedule", "sem_woken", "sem_reset"}
  BY Labels DEF InLoop
<1>4. CASE UNCHANGED allVars
  <2>1. UNCHANGED <<links, current_thread, pc, fault>>
    BY <1>4 DEF allVars, vars, sched
  <2> QED
    BY <1>1, <1>2, <1>3, <2>1 DEF LoopSound, InLoop, Right, links
<1>5. CASE Next /\ UNCHANGED semVars
  <2>1. ~Boot
    BY <1>1 DEF Boot, BootStartup, rt_system_scheduler_start
  <2>2. ASSUME NEW t \in Thread, Call(t) \/ Continue(t) PROVE FALSE
    <3>1. current_thread = t /\ (pc[t] = User \/ pc[t].at = "schedule")
      BY <1>2, <2>2, CallsOfClients DEF rt_thread_sleep, rt_thread_yield, call_rt_schedule,
         Reschedule, Calls, Running
    <3> QED
      BY <1>1, <1>3, <3>1
  <2>3. SysTick
    BY <1>5, <2>1, <2>2 DEF Next
  <2>4. fault' = "none" /\ Lists'
    BY <1>2, <2>3, <1>5, SysTickKeepsCore DEF CoreNext, Core
  <2>5. /\ current_thread' = x /\ stat'[x] = "ready" /\ pc' = pc
        /\ \A s \in Sem, y \in Thread : Contains(tlist'[s], y) <=> Contains(tlist[s], y)
    BY <1>1, <2>3, <2>4, TickKeepsLoop, TickKeepsWaiters
  <2>6. pc[x].at = "sem_resume_one" => tlist'[pc[x].arg] # <<>>
    <3>1. tlist[pc[x].arg] \in Seq(Thread) /\ tlist'[pc[x].arg] \in Seq(Thread)
      BY <1>2, Heads DEF TypeOK
    <3> QED
      BY <1>1, <1>2, <2>5, <3>1, HeadIsMember
  <2>7. LoopSound'
    BY <1>1, <2>5, <2>6 DEF LoopSound, InLoop
  <2>8. Right'
    BY <1>3, <2>5 DEF Right, InLoop
  <2> QED
    BY <2>4, <2>7, <2>8
<1>6. ASSUME NEW t \in Thread, NEW s \in Sem, SemCall(t, s) PROVE FALSE
  <2>1. current_thread = t /\ pc[t] = User
    BY <1>6 DEF SemCall, TakeAvailable, TakeRefused, TakeBlock, ReleaseToWaiter,
       ReleaseToValue, rt_sem_detach, rt_sem_control, Calls, Running
  <2> QED
    BY <1>1, <1>3, <2>1
<1>7. ASSUME NEW t \in Thread, SemContinue(t)
      PROVE  fault' = "none" /\ LoopSound' /\ Right'
  <2>1. t = x /\ (ResumeAllOne(x) \/ ResumeAllAgain(x))
    BY <1>1, <1>3, <1>7 DEF SemContinue, TakeSchedule, TakeReturn, ResumeAllOne,
       ResumeAllAgain, Reset, ResetOne, ResetValueTo, InReset, Running
  <2>2. CASE ResumeAllOne(x)
    <3>1. /\ ResumeFirst(pc[x].arg) /\ tlist[pc[x].arg] # <<>>
          /\ Goto(x, At("sem_resume_all", pc[x].arg, "user"))
          /\ current_thread' = x /\ fault' = "none"
      BY <1>1, <1>2, <2>2 DEF ResumeAllOne, sched
    <3>2. PICK y : y = Head(tlist[pc[x].arg])
      OBVIOUS
    <3>3. stat' = [stat EXCEPT ![y] = "ready"]
      BY <1>2, <3>1, <3>2, HeadResumed DEF ResumeFirst
    <3>4. stat'[x] = "ready"
      BY <1>1, <1>2, <3>3 DEF TypeOK
    <3>5. pc'[x].at = "sem_resume_all" /\ \A u \in Thread \ {x} : pc'[u] = pc[u]
      BY <1>2, <3>1, Labels DEF Goto
    <3>6. LoopSound'
      BY <1>1, <3>1, <3>4, <3>5 DEF LoopSound, InLoop
    <3>7. Right'
      BY <3>1, <3>5 DEF Right
    <3> QED
      BY <3>1, <3>6, <3>7
  <2>3. CASE ResumeAllAgain(x)
    <3>1. /\ UNCHANGED <<tlist, group, stat, current_thread, fault>>
          /\ Goto(x, IF tlist[pc[x].arg] = <<>> THEN User
                     ELSE At("sem_resume_one", pc[x].arg, "user"))
      BY <2>3 DEF ResumeAllAgain, ResumeAllTest, links, sched
    <3>2. /\ pc'[x] = IF tlist[pc[x].arg] = <<>> THEN User
                      ELSE At("sem_resume_one", pc[x].arg, "user")
          /\ \A u \in Thread \ {x} : pc'[u] = pc[u]
      BY <1>2, <3>1 DEF Goto
    <3>3. LoopSound'
      BY <1>1, <3>1, <3>2, Labels DEF LoopSound, InLoop
    <3>4. to_thread(tlist, group) = x
      BY <1>1, <1>2, UrgentIsChosen DEF UrgentChosen
    <3>5. Right'
      BY <1>1, <3>1, <3>4 DEF Right
    <3> QED
      BY <1>2, <3>1, <3>3, <3>5
  <2> QED
    BY <2>1, <2>2, <2>3
<1> QED
  BY <1>4, <1>5, <1>6, <1>7 DEF SemNext

\* The call of rt_sem_detach itself.
LEMMA DetachBegins ==
  ASSUME DetachedFromAbove, Known, NoLoops, Right, NEW t \in Thread, NEW s \in Sem,
         rt_sem_detach(t, s)
  PROVE  fault' = "none" /\ LoopSound' /\ Right'
<1>1. /\ current_thread = t /\ pc[t] = User /\ <<"sem_detach", s>> \in Api[t]
      /\ Goto(t, IF tlist[s] = <<>> THEN User ELSE At("sem_resume_one", s, "user"))
      /\ UNCHANGED <<tlist, group, stat, current_thread, fault>>
  BY DEF rt_sem_detach, ResumeAllTest, Calls, Running, links, sched
<1>2. MostUrgent(t) /\ stat[t] = "ready" /\ fault = "none" /\ pc \in [Thread -> PC]
  BY <1>1, Runner, Labels DEF Known, State, SemTypeOK, TypeOK, DetachedFromAbove
<1>3. /\ pc'[t] = IF tlist[s] = <<>> THEN User ELSE At("sem_resume_one", s, "user")
      /\ \A u \in Thread \ {t} : pc'[u] = pc[u]
  BY <1>1, <1>2 DEF Goto
<1>4. LoopSound'
  BY <1>1, <1>2, <1>3, Labels DEF LoopSound, InLoop, NoLoops
<1>5. Right'
  BY <1>1, <1>3, Labels DEF Right
<1> QED
  BY <1>1, <1>2, <1>4, <1>5

LEMMA LoopStep ==
  ASSUME ClientCalls, DetachedFromAbove, Known, SemTypeOK', LoopSound, Right,
         [SemNext]_allVars
  PROVE  fault' = "none" /\ LoopSound' /\ Right'
<1>1. State /\ TypeOK'
  BY DEF Known, SemTypeOK
<1>2. CASE \E x \in Thread : InLoop(x)
  BY <1>1, <1>2, LoopRuns
<1>3. CASE NoLoops /\ \E t \in Thread, s \in Sem : rt_sem_detach(t, s)
  BY <1>3, DetachBegins
<1>4. CASE NoLoops /\ \A t \in Thread, s \in Sem : ~rt_sem_detach(t, s)
  <2>1. fault' = "none" /\ NoLoops' /\ Right'
    BY <1>1, <1>4, NoLoopStep, RightStep
  <2> QED
    BY <2>1 DEF NoLoops, LoopSound, InLoop
<1> QED
  BY <1>2, <1>3, <1>4 DEF NoLoops, InLoop

DetachSound == fault = "none" /\ LoopSound /\ Right

LEMMA DetachInvariant ==
  ASSUME ClientCalls, NoTimeLimits, DetachedFromAbove
  PROVE  SemSpec => []DetachSound
<1>1. SemInit => DetachSound /\ ConservedInv
  BY ConservedStart, Labels DEF SemInit, Init, rt_system_scheduler_init, LoopSound, InLoop,
     Right, DetachSound
<1>2. SemTypeOK /\ TokenInv /\ ConservedInv /\ [SemNext]_allVars => ConservedInv'
  BY ConservedStep
<1>3. SemTypeOK /\ SemTypeOK' /\ TokenInv /\ ConservedInv /\ DetachSound /\ [SemNext]_allVars
        => DetachSound'
  BY LoopStep DEF Known, State, TokenInv, ConservedInv, DetachSound
<1> QED
  BY <1>1, <1>2, <1>3, TokenInvariant, SemaphoreTyped, PTL DEF SemSpec

\* Detaching (ipc.c:117-141, 191-202) does no harm either when the thread that detaches is
\* more urgent than all others and nobody waits with a time limit: nothing comes
\* between the test of the loop with interrupts on and its body, so the head of an
\* empty list is never taken for a waiter.
THEOREM DetachDoesNoHarm ==
  ASSUME ClientCalls, NoTimeLimits, DetachedFromAbove PROVE SemSpec => []NoFault
BY DetachInvariant, PTL DEF DetachSound, NoFault

\* Then nobody runs in the place of a more urgent thread, although the loop
\* readies all waiters (ipc.c:123-141) and rt_sem_detach does not reschedule.
THEOREM MostUrgentRunsPastDetach ==
  ASSUME ClientCalls, NoTimeLimits, DetachedFromAbove PROVE SemSpec => []HighestRuns
<1>1. DetachSound => HighestRuns
  BY Labels DEF DetachSound, Right, HighestRuns, InUserCode
<1> QED
  BY <1>1, DetachInvariant, PTL

=============================================================================
