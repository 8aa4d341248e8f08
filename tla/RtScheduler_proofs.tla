-------------------------- MODULE RtScheduler_proofs --------------------------
(* RtKernel, used by threads that act for themselves, implements           *)
(* FixedPriority, and wakes and runs whom it should.                       *)
EXTENDS RtTimers_proofs

\* Each thread sleeps, yields, reschedules, locks and unlocks for itself, as the
\* sleepers of MCKernel do, and idle does not sleep.
SelfOps == {"sleep", "yield", "schedule", "lock", "unlock"}
SelfCalls ==
    /\ \A t \in Thread : Api[t] \subseteq SelfOps \X {NoThread}
    /\ <<"sleep", NoThread>> \notin Api[idle]

AtSchedule == At("schedule", NoThread, "user")
OwnPlaces == \A t \in Thread : pc[t] \in {User, AtSchedule}

\* Without the windows of rt_thread_resume the states and the lists agree.
ReadyIsListed == \A x \in Thread : stat[x] = "ready" <=> Contains(tlist[Priority[x]], x)
SleepsByTimer ==
    \A x \in Thread : /\ stat[x] = "suspend" <=> Contains(timer_list, x)
                      /\ stat[x] = "suspend" => x \in activated
Begun ==
    /\ current_thread # NoThread =>
         stat[idle] = "ready" /\ stat[current_thread] \in {"ready", "suspend"}
    /\ isr # "none" => current_thread # NoThread

\* A thread in its own code has the CPU by right, in the tick as well.
Entitled ==
    current_thread # NoThread /\ pc[current_thread] = User /\ lock_nest = 0
        => current_thread = to_thread(tlist, group)

SelfInv ==
    /\ fault = "none" /\ OwnPlaces
    /\ ReadyIsListed /\ SleepsByTimer
    /\ Begun /\ Entitled

-----------------------------------------------------------------------------
(* The levels.                                                             *)

Levels(ls) == [p \in Prio |-> ls[p]]
Nonempty(ls) == {p \in Prio : ls[p] # <<>>}

LEMMA HeadIsMember ==
  ASSUME NEW s \in Seq(Thread)
  PROVE  /\ s # <<>> <=> \E y \in Thread : Contains(s, y)
         /\ s # <<>> => Head(s) \in Thread /\ Contains(s, Head(s))
<1>1. s # <<>> => Head(s) = s[1] /\ 1 \in DOMAIN s /\ Head(s) \in Thread
  BY HeadTailProperties, LenProperties, EmptySeq
<1>2. s = <<>> => \A y : ~Contains(s, y)
  BY DEF Contains
<1> QED
  BY <1>1, <1>2 DEF Contains

\* An exact bitmap in terms of membership.
LEMMA NonemptyMembers ==
  ASSUME NEW ls \in [ListHead -> Seq(Thread)], NEW p \in Prio
  PROVE  p \in Nonempty(ls) <=> \E y \in Thread : Contains(ls[p], y)
<1>1. ls[p] \in Seq(Thread)
  BY DEF ListHead
<1> QED
  BY <1>1, HeadIsMember DEF Nonempty

\* With a bitmap that is exact, the bitmap's choice is FixedPriority's.
LEMMA ChoiceIsFirst ==
  ASSUME NEW ls \in [ListHead -> Seq(Thread)], NEW g, g = Nonempty(ls)
  PROVE  /\ to_thread(ls, g) = Scheduler!First(Levels(ls))
         /\ g # {} => /\ to_thread(ls, g) \in Thread
                      /\ \E p \in Prio : Contains(ls[p], to_thread(ls, g))
<1> DEFINE h == highest_ready_priority(g)
<1>0. g \in SUBSET Prio /\ Prio \subseteq ListHead /\ Scheduler!Level = Prio
  BY DEF Nonempty, ListHead, Scheduler!Level, Prio
<1>1. {p \in Scheduler!Level : Levels(ls)[p] # <<>>} = g
  BY <1>0 DEF Nonempty, Levels
<1>2. CASE g = {}
  BY <1>1, <1>2 DEF to_thread, Scheduler!First
<1>3. CASE g # {}
  <2>1. h \in g /\ \A q \in g : h <= q
    BY <1>0, <1>3, HighestPriority
  <2>2. \A m \in g : (\A q \in g : m <= q) => m = h
    <3>1. \A m \in g : m \in Int
      BY <1>0 DEF Prio
    <3> HIDE DEF h
    <3> QED
      BY <2>1, <3>1
  <2>3. (CHOOSE p \in g : \A o \in g : p <= o) = h
    BY <2>1, <2>2
  <2>4. h \in Prio /\ ls[h] # <<>> /\ ls[h] \in Seq(Thread) /\ Levels(ls)[h] = ls[h]
    BY <1>0, <2>1 DEF Nonempty, Levels
  <2>5. to_thread(ls, g) = Head(ls[h])
    BY <1>3, <2>4 DEF to_thread
  <2>6. Scheduler!First(Levels(ls)) = Head(ls[h])
    BY <1>1, <1>3, <2>3, <2>4 DEF Scheduler!First
  <2>7. Head(ls[h]) \in Thread /\ Contains(ls[h], Head(ls[h]))
    <3> DEFINE s == ls[h]
    <3>1. s \in Seq(Thread) /\ s # <<>>
      BY <2>4
    <3> HIDE DEF s
    <3>2. Head(s) = s[1] /\ 1 \in DOMAIN s /\ Head(s) \in Thread
      BY <3>1, HeadTailProperties, LenProperties, EmptySeq
    <3> QED
      BY <3>2 DEF Contains, s
  <2> QED
    BY <2>4, <2>5, <2>6, <2>7
<1> QED
  BY <1>2, <1>3

\* Appending x to its level.
LEMMA JoinedLevels ==
  ASSUME NEW ls \in [ListHead -> Seq(Thread)], NEW x \in Thread
  PROVE  Levels(insert_ready(ls, x)) = Scheduler!Joined(Levels(ls), x)
<1>1. Priority[x] \in Prio /\ Prio \subseteq ListHead
  BY ConstantsAssumption DEF ListHead
<1> QED
  BY <1>1 DEF Levels, insert_ready, Scheduler!Joined

\* Unlinking x from its level, the only one it is in.
LEMMA LeftLevels ==
  ASSUME NEW ls \in [ListHead -> Seq(Thread)], NEW x \in Thread,
         Contains(ls[Priority[x]], x),
         \A h \in ListHead : Contains(ls[h], x) => h = Priority[x]
  PROVE  Levels(rt_list_remove(ls, x)) = Scheduler!Left(Levels(ls), x)
<1>1. Priority[x] \in Prio /\ Prio \subseteq ListHead
  BY ConstantsAssumption DEF ListHead
<1>2. \A p \in Prio : rt_list_remove(ls, x)[p] =
        IF p = Priority[x] THEN RemoveAt(ls[p], IndexOf(ls[p], x)) ELSE ls[p]
  BY <1>1 DEF rt_list_remove, Without
<1>3. Levels(rt_list_remove(ls, x)) =
        [p \in Prio |-> IF p = Priority[x] THEN RemoveAt(ls[p], IndexOf(ls[p], x)) ELSE ls[p]]
  BY <1>2 DEF Levels
<1>4. ASSUME NEW q
      PROVE  Scheduler!Left(q, x) = [q EXCEPT ![Priority[x]] = RemoveAt(@, IndexOf(@, x))]
  <2>1. Scheduler!RemoveAt(q[Priority[x]], CHOOSE i \in DOMAIN q[Priority[x]] : q[Priority[x]][i] = x)
          = RemoveAt(q[Priority[x]], IndexOf(q[Priority[x]], x))
    BY Zenon DEF Scheduler!RemoveAt, RemoveAt, IndexOf
  <2> QED
    BY <2>1, Zenon DEF Scheduler!Left
<1>5. Scheduler!Left(Levels(ls), x) =
        [Levels(ls) EXCEPT ![Priority[x]] = RemoveAt(ls[Priority[x]], IndexOf(ls[Priority[x]], x))]
  BY <1>1, <1>4 DEF Levels
<1>6. Scheduler!Left(Levels(ls), x) =
        [p \in Prio |-> IF p = Priority[x] THEN RemoveAt(ls[p], IndexOf(ls[p], x)) ELSE ls[p]]
  BY <1>1, <1>5 DEF Levels
<1> QED
  BY <1>3, <1>6

\* Unlinking a thread that is in no list changes nothing.
LEMMA NotLinked ==
  ASSUME NEW ls \in [ListHead -> Seq(Thread)], NEW x, ~IsLinked(ls, x)
  PROVE  rt_list_remove(ls, x) = ls
BY DEF rt_list_remove, Without, IsLinked

\* Who is in a list after x has been unlinked ...
LEMMA RemovedMembers ==
  ASSUME NEW ls \in [ListHead -> Seq(Thread)], NEW x, OnceIn(ls)
  PROVE  \A h \in ListHead, y \in Thread :
            Contains(rt_list_remove(ls, x)[h], y) <=> Contains(ls[h], y) /\ y # x
<1>1. ASSUME NEW h \in ListHead, NEW y \in Thread
      PROVE  Contains(rt_list_remove(ls, x)[h], y) <=> Contains(ls[h], y) /\ y # x
  <2> DEFINE s == ls[h]
  <2>1. s \in Seq(Thread) /\ Distinct(s) /\ Without(s, x) \in Seq(Thread)
    BY OnceMembership, WithoutProperties
  <2>2. rt_list_remove(ls, x)[h] = Without(s, x)
    BY RemoveProperties
  <2> HIDE DEF s
  <2>3. ToSet(Without(s, x)) = ToSet(s) \ {x}
    BY <2>1, WithoutSet
  <2>4. Contains(Without(s, x), y) <=> Contains(s, y) /\ y # x
    BY <2>1, <2>3, ToSetContains
  <2> QED
    BY <2>2, <2>4 DEF s
<1> QED
  BY <1>1

\* ... and after x has been appended to its level.
LEMMA AddedMembers ==
  ASSUME NEW ls \in [ListHead -> Seq(Thread)], NEW x \in Thread
  PROVE  \A h \in ListHead, y \in Thread :
            Contains(insert_ready(ls, x)[h], y)
              <=> Contains(ls[h], y) \/ (y = x /\ h = Priority[x])
<1>1. ASSUME NEW h \in ListHead, NEW y \in Thread
      PROVE  Contains(insert_ready(ls, x)[h], y)
               <=> Contains(ls[h], y) \/ (y = x /\ h = Priority[x])
  <2>1. ls[h] \in Seq(Thread)
    OBVIOUS
  <2>2. insert_ready(ls, x)[h] = IF h = Priority[x] THEN Append(ls[h], x) ELSE ls[h]
    BY InsertProperties
  <2>3. Contains(Append(ls[h], x), y) <=> Contains(ls[h], y) \/ y = x
    BY <2>1, AppendElements
  <2> QED
    BY <2>2, <2>3
<1> QED
  BY <1>1

\* What the bitmap chooses is what the levels say, and a thread if one is ready.
ChoiceInv ==
    LET chosen == to_thread(tlist, group) IN
    /\ chosen = Scheduler!First(Levels(tlist))
    /\ \A x \in Thread : Contains(tlist[Priority[x]], x) => chosen \in Thread
    /\ chosen \in Thread => Contains(tlist[Priority[chosen]], chosen)

LEMMA Choice == TypeOK /\ ListInv /\ OwnPlaces => ChoiceInv
<1> SUFFICES ASSUME TypeOK, ListInv, OwnPlaces PROVE ChoiceInv
  OBVIOUS
<1> DEFINE chosen == to_thread(tlist, group)
<1>1. tlist \in [ListHead -> Seq(Thread)] /\ Prio \subseteq ListHead /\ NoThread \notin Thread
  BY ConstantsAssumption DEF TypeOK, ListHead
<1>2. \A t \in Thread : pc[t].at # "resume_insert"
  BY DEF OwnPlaces, User, AtSchedule, At
<1>3. group = Nonempty(tlist)
  BY <1>2 DEF TypeOK, ListInv, ReadyLevelsHaveBits, StaleBitsAreTransient, Nonempty
<1>4. /\ chosen = Scheduler!First(Levels(tlist))
      /\ group # {} => chosen \in Thread /\ \E p \in Prio : Contains(tlist[p], chosen)
  BY <1>1, <1>3, ChoiceIsFirst
<1>5. group = {} => chosen = NoThread
  BY DEF to_thread
<1>6. ASSUME NEW x \in Thread, Contains(tlist[Priority[x]], x) PROVE group # {}
  <2>1. Priority[x] \in Prio
    BY ConstantsAssumption
  <2>2. tlist[Priority[x]] # <<>>
    BY <1>6 DEF Contains
  <2> QED
    BY <1>3, <2>1, <2>2 DEF Nonempty
<1>7. chosen \in Thread => Contains(tlist[Priority[chosen]], chosen)
  BY <1>1, <1>4, <1>5 DEF ListInv, OwnLevel
<1> QED
  BY <1>4, <1>6, <1>7 DEF ChoiceInv

LEMMA ChoiceNext == TypeOK' /\ ListInv' /\ OwnPlaces' => ChoiceInv'
BY Choice, PTL

-----------------------------------------------------------------------------
(* The steps.                                                              *)

SchedInv == TypeOK /\ ListInv /\ TimerInv /\ SelfInv
Fixed == <<Levels(tlist), current_thread, lock_nest > 0>>

\* In no list of its level, in no list at all.
LEMMA NowhereElse ==
  ASSUME TypeOK, ListInv, NEW x \in Thread, ~Contains(tlist[Priority[x]], x)
  PROVE  ~IsLinked(tlist, x)
BY DEF IsLinked, ListInv, OwnLevel

\* A thread that was not ready joins its level.
LEMMA ReadyStep ==
  ASSUME SchedInv, NEW x \in Thread, stat[x] # "ready",
         rt_schedule_insert_thread(rt_list_remove(tlist, x), x)
  PROVE  /\ ReadyIsListed' /\ stat' = [stat EXCEPT ![x] = "ready"]
         /\ ~Scheduler!Listed(Levels(tlist), x)
         /\ Levels(tlist)' = Scheduler!Joined(Levels(tlist), x)
<1>1. /\ tlist \in [ListHead -> Seq(Thread)] /\ stat \in [Thread -> Stat]
      /\ \A y \in Thread : Priority[y] \in ListHead
  BY InsertProperties DEF SchedInv, TypeOK
<1>2. ~Contains(tlist[Priority[x]], x)
  BY DEF SchedInv, SelfInv, ReadyIsListed
<1>3. rt_list_remove(tlist, x) = tlist
  BY <1>1, <1>2, NowhereElse, NotLinked DEF SchedInv
<1>4. tlist' = insert_ready(tlist, x) /\ stat' = [stat EXCEPT ![x] = "ready"]
  BY <1>3 DEF rt_schedule_insert_thread
<1>5. ReadyIsListed'
  BY <1>1, <1>4, AddedMembers DEF SchedInv, SelfInv, ReadyIsListed
<1>6. Levels(tlist)' = Scheduler!Joined(Levels(tlist), x)
  BY <1>1, <1>4, JoinedLevels DEF Levels
<1>7. Levels(tlist)[Priority[x]] = tlist[Priority[x]]
  BY ConstantsAssumption DEF Levels
<1> QED
  BY <1>2, <1>4, <1>5, <1>6, <1>7 DEF Scheduler!Listed, Scheduler!Contains, Contains

\* A ready thread leaves its level.
LEMMA BlockStep ==
  ASSUME SchedInv, NEW x \in Thread, stat[x] = "ready", Suspend(x)
  PROVE  /\ ReadyIsListed' /\ stat' = [stat EXCEPT ![x] = "suspend"]
         /\ Scheduler!Listed(Levels(tlist), x)
         /\ Levels(tlist)' = Scheduler!Left(Levels(tlist), x)
<1>1. /\ tlist \in [ListHead -> Seq(Thread)] /\ stat \in [Thread -> Stat]
      /\ \A y \in Thread : Priority[y] \in ListHead
  BY InsertProperties DEF SchedInv, TypeOK
<1>2. Contains(tlist[Priority[x]], x) /\ OnceIn(tlist)
      /\ \A h \in ListHead : Contains(tlist[h], x) => h = Priority[x]
  BY LinkedOnceIsOnceIn DEF SchedInv, SelfInv, ReadyIsListed, ListInv, OwnLevel
<1>3. tlist' = rt_list_remove(tlist, x) /\ stat' = [stat EXCEPT ![x] = "suspend"]
  BY DEF Suspend, rt_schedule_remove_thread
<1>4. ReadyIsListed'
  BY <1>1, <1>2, <1>3, RemovedMembers DEF SchedInv, SelfInv, ReadyIsListed
<1>5. Levels(tlist)' = Scheduler!Left(Levels(tlist), x)
  BY <1>1, <1>2, <1>3, LeftLevels DEF Levels
<1>6. Levels(tlist)[Priority[x]] = tlist[Priority[x]]
  BY ConstantsAssumption DEF Levels
<1> QED
  BY <1>2, <1>3, <1>4, <1>5, <1>6 DEF Scheduler!Listed, Scheduler!Contains, Contains

\* A ready thread goes to the end of its level.
LEMMA TurnStep ==
  ASSUME SchedInv, NEW x \in Thread, stat[x] = "ready", MoveToTail(x)
  PROVE  /\ ReadyIsListed'
         /\ Scheduler!Listed(Levels(tlist), x)
         /\ Levels(tlist)' = Scheduler!Joined(Scheduler!Left(Levels(tlist), x), x)
<1> DEFINE l == rt_list_remove(tlist, x)
<1>1. /\ tlist \in [ListHead -> Seq(Thread)] /\ l \in [ListHead -> Seq(Thread)]
      /\ \A y \in Thread : Priority[y] \in ListHead
  BY RemoveProperties, InsertProperties DEF SchedInv, TypeOK
<1>2. Contains(tlist[Priority[x]], x) /\ OnceIn(tlist)
      /\ \A h \in ListHead : Contains(tlist[h], x) => h = Priority[x]
  BY LinkedOnceIsOnceIn DEF SchedInv, SelfInv, ReadyIsListed, ListInv, OwnLevel
<1>3. tlist' = insert_ready(l, x) /\ stat' = stat
  BY DEF MoveToTail
<1>4. \A y \in Thread : Contains(l[Priority[y]], y) <=> Contains(tlist[Priority[y]], y) /\ y # x
  BY <1>1, <1>2, RemovedMembers
<1>5. Levels(l) = Scheduler!Left(Levels(tlist), x)
  BY <1>1, <1>2, LeftLevels
<1> HIDE DEF l
<1>6. ReadyIsListed'
  BY <1>1, <1>2, <1>3, <1>4, AddedMembers DEF SchedInv, SelfInv, ReadyIsListed
<1>7. Levels(tlist)' = Scheduler!Joined(Levels(l), x)
  BY <1>1, <1>3, JoinedLevels DEF Levels
<1>8. Levels(tlist)[Priority[x]] = tlist[Priority[x]]
  BY ConstantsAssumption DEF Levels
<1> QED
  BY <1>2, <1>5, <1>6, <1>7, <1>8 DEF Scheduler!Listed, Scheduler!Contains, Contains

\* rt_schedule never meets an empty level, because idle is always ready.
LEMMA DispatchStep ==
  ASSUME SchedInv, ChoiceInv', current_thread # NoThread, rt_schedule(tlist', group'),
         ReadyIsListed', stat'[idle] = "ready"
  PROVE  /\ fault' = "none" /\ current_thread' \in Thread
         /\ lock_nest = 0 => /\ current_thread' = to_thread(tlist, group)'
                             /\ stat'[current_thread'] = "ready"
         /\ lock_nest # 0 => current_thread' = current_thread
         /\ Scheduler!Choose(Levels(tlist)')
<1>1. idle \in Thread /\ NoThread \notin Thread /\ lock_nest \in Nat
      /\ current_thread \in Thread /\ fault = "none"
  BY ConstantsAssumption DEF SchedInv, TypeOK, SelfInv
<1>2. to_thread(tlist, group)' \in Thread
  BY <1>1 DEF ChoiceInv, ReadyIsListed
<1>3. stat'[to_thread(tlist, group)'] = "ready"
  BY <1>2 DEF ChoiceInv, ReadyIsListed
<1>4. /\ current_thread' = IF lock_nest = 0 THEN to_thread(tlist', group') ELSE current_thread
      /\ fault' = IF current_thread' = NoThread THEN "empty_level" ELSE fault
  BY DEF rt_schedule
<1>5. to_thread(tlist, group)' = to_thread(tlist', group')
  BY DEF to_thread
<1>6. Scheduler!First(Levels(tlist)') = to_thread(tlist', group')
  BY <1>5 DEF ChoiceInv
<1> QED
  BY <1>1, <1>2, <1>3, <1>4, <1>5, <1>6 DEF Scheduler!Choose

LEMMA TwoPlaces == AtSchedule # User /\ User.at = "user" /\ AtSchedule.at = "schedule"
BY DEF AtSchedule, User, At

LEMMA OwnGoto ==
  ASSUME TypeOK, OwnPlaces, NEW t \in Thread, NEW p \in {User, AtSchedule}, Goto(t, p)
  PROVE  OwnPlaces' /\ pc'[t] = p
BY DEF TypeOK, OwnPlaces, Goto, User, AtSchedule, At

\* rt_thread_startup by main is MakeReady.
LEMMA BootImplements ==
  ASSUME SchedInv, NEW x \in Thread, BootStartup(x)
  PROVE  SelfInv' /\ Scheduler!MakeReady(x)
<1>1. /\ current_thread = NoThread /\ stat[x] = "init"
      /\ rt_schedule_insert_thread(rt_list_remove(tlist, x), x)
      /\ UNCHANGED <<timers, sched, pc, isr, fault>>
  BY DEF BootStartup
<1>2. /\ ReadyIsListed' /\ stat' = [stat EXCEPT ![x] = "ready"]
      /\ ~Scheduler!Listed(Levels(tlist), x)
      /\ Levels(tlist)' = Scheduler!Joined(Levels(tlist), x)
  BY <1>1, ReadyStep
<1>3. SleepsByTimer'
  BY <1>1, <1>2 DEF SchedInv, SelfInv, SleepsByTimer, TypeOK, timers
<1>4. SelfInv'
  BY <1>1, <1>2, <1>3 DEF SchedInv, SelfInv, OwnPlaces, Begun, Entitled, sched
<1>5. Scheduler!MakeReady(x)
  BY <1>1, <1>2 DEF Scheduler!MakeReady, Scheduler!Begun, Levels, sched
<1> QED
  BY <1>4, <1>5

\* rt_system_scheduler_start is Begin: idle is ready by then.
LEMMA StartImplementsBegin ==
  ASSUME SchedInv, rt_system_scheduler_start
  PROVE  SelfInv' /\ Scheduler!Begin
<1>1. /\ current_thread = NoThread /\ current_thread' = to_thread(tlist, group)
      /\ stat[idle] = "ready" /\ idle \in Thread /\ NoThread \notin Thread
      /\ UNCHANGED <<links, timers, lock_nest, pc, isr, fault>>
  BY ConstantsAssumption DEF rt_system_scheduler_start
<1>2. ChoiceInv
  BY Choice DEF SchedInv, SelfInv
<1>3. /\ current_thread' \in Thread /\ stat[current_thread'] = "ready"
      /\ current_thread' = Scheduler!First(Levels(tlist))
  BY <1>1, <1>2 DEF ChoiceInv, SchedInv, SelfInv, ReadyIsListed
<1>4. OwnPlaces' /\ ReadyIsListed' /\ SleepsByTimer' /\ fault' = "none"
  BY <1>1 DEF SchedInv, SelfInv, OwnPlaces, ReadyIsListed, SleepsByTimer, links, timers
<1>5. Begun'
  BY <1>1, <1>3 DEF Begun, links
<1>6. Entitled'
  BY <1>1 DEF Entitled, links, to_thread
<1>7. Scheduler!Begin
  BY <1>1, <1>3 DEF Scheduler!Begin, Scheduler!Begun, Levels, links
<1> QED
  BY <1>4, <1>5, <1>6, <1>7 DEF SelfInv

\* rt_tick_increase is SliceEnds, or nothing.
LEMMA TickImplementsSlice ==
  ASSUME SchedInv, TypeOK', ListInv', rt_tick_increase
  PROVE  SelfInv' /\ (Scheduler!SliceEnds \/ UNCHANGED Fixed)
<1> DEFINE t == current_thread
<1>1. /\ t \in Thread /\ t # NoThread /\ pc' = pc /\ fault = "none"
      /\ UNCHANGED <<timer_list, activated, lock_nest>>
  BY DEF rt_tick_increase, SchedInv, TypeOK
<1>2. OwnPlaces' /\ ChoiceInv'
  <2>1. OwnPlaces'
    BY <1>1 DEF SchedInv, SelfInv, OwnPlaces
  <2> QED
    BY <2>1, ChoiceNext
<1>3. CASE SliceEnds /\ CanYield(t)
  <2>1. MoveToTail(t) /\ rt_schedule(tlist', group) /\ stat[t] = "ready"
    BY <1>3 DEF rt_tick_increase, CanYield
  <2>2. group' = group /\ stat' = stat
    BY <2>1 DEF MoveToTail
  <2>3. /\ ReadyIsListed' /\ Scheduler!Listed(Levels(tlist), t)
        /\ Levels(tlist)' = Scheduler!Joined(Scheduler!Left(Levels(tlist), t), t)
    BY <1>1, <2>1, TurnStep
  <2>4. stat'[idle] = "ready"
    BY <1>1, <2>2 DEF SchedInv, SelfInv, Begun
  <2>5. /\ fault' = "none" /\ current_thread' \in Thread
        /\ lock_nest = 0 => /\ current_thread' = to_thread(tlist, group)'
                            /\ stat'[current_thread'] = "ready"
        /\ lock_nest # 0 => current_thread' = current_thread
        /\ Scheduler!Choose(Levels(tlist)')
    BY <1>1, <1>2, <2>1, <2>2, <2>3, <2>4, DispatchStep
  <2>6. SleepsByTimer'
    BY <1>1, <2>2 DEF SchedInv, SelfInv, SleepsByTimer
  <2>7. Begun'
    BY <1>1, <2>1, <2>2, <2>4, <2>5, ConstantsAssumption DEF Begun
  <2>8. Entitled'
    BY <1>1, <2>5 DEF Entitled
  <2>9. Scheduler!SliceEnds
    BY <1>1, <2>3, <2>5 DEF Scheduler!SliceEnds, Scheduler!Begun, Levels
  <2> QED
    BY <1>2, <2>3, <2>5, <2>6, <2>7, <2>8, <2>9 DEF SelfInv
<1>4. CASE ~(SliceEnds /\ CanYield(t))
  <2>1. UNCHANGED <<links, current_thread, fault>>
    BY <1>4 DEF rt_tick_increase
  <2>2. SelfInv'
    BY <1>1, <1>2, <2>1 DEF SchedInv, SelfInv, ReadyIsListed, SleepsByTimer, Begun, Entitled,
       links, to_thread
  <2>3. UNCHANGED Fixed
    BY <1>1, <2>1 DEF Fixed, Levels, links
  <2> QED
    BY <2>2, <2>3
<1> QED
  BY <1>3, <1>4

\* A turn of the loop of rt_timer_check is Wake.
LEMMA TimeoutImplementsWake ==
  ASSUME SchedInv, TypeOK', ListInv', rt_thread_timeout
  PROVE  SelfInv' /\ \E x \in Thread : Scheduler!Wake(x)
<1>0. /\ timer_list \in Seq(Thread) /\ timer_list # <<>> /\ Distinct(timer_list)
      /\ Head(timer_list) \in Thread /\ isr = "timer_check"
  BY HeadTailProperties DEF rt_thread_timeout, Expired, SchedInv, TypeOK, TimerInv
<1> PICK x \in Thread : x = Head(timer_list)
  BY <1>0
<1>1. /\ timer_list' = Tail(timer_list) /\ activated' = activated \ {x}
      /\ rt_schedule_insert_thread(rt_list_remove(tlist, x), x)
      /\ rt_schedule(tlist', group')
      /\ UNCHANGED <<lock_nest, pc, isr>>
  BY DEF rt_thread_timeout
<1>2. Contains(timer_list, x)
  <2>1. x = timer_list[1] /\ 1 \in DOMAIN timer_list
    BY <1>0, HeadTailProperties, LenProperties, EmptySeq
  <2> QED
    BY <2>1 DEF Contains
<1>3. stat[x] = "suspend"
  BY <1>2 DEF SchedInv, SelfInv, SleepsByTimer
<1>4. /\ ReadyIsListed' /\ stat' = [stat EXCEPT ![x] = "ready"]
      /\ ~Scheduler!Listed(Levels(tlist), x)
      /\ Levels(tlist)' = Scheduler!Joined(Levels(tlist), x)
  BY <1>1, <1>3, ReadyStep
<1>5. OwnPlaces'
  BY <1>1 DEF SchedInv, SelfInv, OwnPlaces
<1>6. /\ current_thread # NoThread /\ stat[idle] = "ready"
      /\ stat[current_thread] \in {"ready", "suspend"} /\ stat \in [Thread -> Stat]
      /\ current_thread \in Thread /\ idle \in Thread
  BY <1>0, ConstantsAssumption DEF SchedInv, SelfInv, Begun, TypeOK
<1>7. stat'[idle] = "ready"
  BY <1>4, <1>6
<1>8. /\ fault' = "none" /\ current_thread' \in Thread
      /\ lock_nest = 0 => /\ current_thread' = to_thread(tlist, group)'
                          /\ stat'[current_thread'] = "ready"
      /\ lock_nest # 0 => current_thread' = current_thread
      /\ Scheduler!Choose(Levels(tlist)')
  BY <1>1, <1>4, <1>5, <1>6, <1>7, ChoiceNext, DispatchStep
<1>9. \A y \in Thread : Contains(timer_list', y) <=> Contains(timer_list, y) /\ y # x
  BY <1>0, <1>1, TailMembers
<1>10. SleepsByTimer'
  BY <1>1, <1>3, <1>4, <1>6, <1>9 DEF SchedInv, SelfInv, SleepsByTimer
<1>11. Begun'
  BY <1>4, <1>6, <1>7, <1>8, ConstantsAssumption DEF Begun
<1>12. Entitled'
  BY <1>1, <1>8 DEF Entitled
<1>13. Scheduler!Wake(x)
  BY <1>1, <1>4, <1>6, <1>8 DEF Scheduler!Wake, Scheduler!Begun, Levels
<1> QED
  BY <1>4, <1>5, <1>8, <1>10, <1>11, <1>12, <1>13 DEF SelfInv

\* The end of rt_timer_check is nothing.
LEMMA DoneImplementsNothing ==
  ASSUME SchedInv, rt_timer_check_done
  PROVE  SelfInv' /\ UNCHANGED Fixed
<1>1. isr' = "none" /\ UNCHANGED <<links, timers, sched, pc, fault>>
  BY DEF rt_timer_check_done
<1> QED
  BY <1>1 DEF SchedInv, SelfInv, OwnPlaces, ReadyIsListed, SleepsByTimer, Begun, Entitled,
     Fixed, Levels, links, timers, sched, to_thread

\* What a thread that makes a call has: the CPU, by right.
LEMMA Caller ==
  ASSUME SchedInv, NEW t \in Thread, NEW op, NEW x, Calls(t, op, x)
  PROVE  /\ current_thread = t /\ t # NoThread /\ isr = "none" /\ pc[t] = User
         /\ stat[t] \in {"ready", "suspend"} /\ stat[idle] = "ready"
         /\ Scheduler!Entitled
<1>1. /\ current_thread = t /\ t # NoThread /\ isr = "none" /\ pc[t] = User
      /\ lock_nest \in Nat
  BY ConstantsAssumption DEF Calls, Running, SchedInv, TypeOK
<1>2. ChoiceInv
  BY Choice DEF SchedInv, SelfInv
<1>3. lock_nest = 0 => current_thread = Scheduler!First(Levels(tlist))
  BY <1>1, <1>2 DEF SchedInv, SelfInv, Entitled, ChoiceInv
<1>4. Scheduler!Entitled
  BY <1>1, <1>3 DEF Scheduler!Entitled, Scheduler!Begun, Levels
<1> QED
  BY <1>1, <1>4 DEF SchedInv, SelfInv, Begun

\* rt_thread_sleep up to its rt_schedule is Block; nothing if the thread is
\* suspended already.
LEMMA SleepImplementsBlock ==
  ASSUME SelfCalls, SchedInv, TypeOK', ListInv', NEW t \in Thread, NEW tick \in Delay,
         rt_thread_sleep(t, tick)
  PROVE  SelfInv' /\ (Scheduler!Block \/ UNCHANGED Fixed)
<1>1. /\ rt_timer_start(t, tick) /\ Goto(t, AtSchedule)
      /\ UNCHANGED <<sched, isr, fault>> /\ Calls(t, "sleep", NoThread)
  BY DEF rt_thread_sleep, AtSchedule
<1>2. /\ current_thread = t /\ t # NoThread /\ isr = "none"
      /\ stat[t] \in {"ready", "suspend"} /\ stat[idle] = "ready" /\ Scheduler!Entitled
  BY <1>1, Caller
<1>3. t # idle
  BY <1>1 DEF Calls, SelfCalls
<1>4. IF stat[t] = "ready" THEN Suspend(t) ELSE UNCHANGED links
  BY DEF rt_thread_sleep
<1>5. stat' = [stat EXCEPT ![t] = "suspend"] /\ ReadyIsListed'
  <2>1. CASE stat[t] = "ready"
    BY <1>4, <2>1, BlockStep
  <2>2. CASE stat[t] = "suspend"
    BY <1>4, <2>2 DEF SchedInv, SelfInv, ReadyIsListed, TypeOK, links
  <2> QED
    BY <1>2, <2>1, <2>2
<1>6. Scheduler!Block \/ UNCHANGED Fixed
  <2>1. CASE stat[t] = "ready"
    <3>1. /\ Scheduler!Listed(Levels(tlist), t)
          /\ Levels(tlist)' = Scheduler!Left(Levels(tlist), t)
      BY <1>4, <2>1, BlockStep
    <3>2. Scheduler!Block
      BY <1>1, <1>2, <3>1 DEF Scheduler!Block, Levels, sched
    <3> QED
      BY <3>2
  <2>2. CASE stat[t] # "ready"
    BY <1>1, <1>4, <2>2 DEF Fixed, Levels, links, sched
  <2> QED
    BY <2>1, <2>2
<1>7. OwnPlaces' /\ pc'[t] = AtSchedule
  BY <1>1, OwnGoto DEF SchedInv, SelfInv
<1>8. SleepsByTimer'
  <2>1. rt_timer_start(t, tick)
    BY <1>1
  <2>2. ToSet(timer_list') = ToSet(timer_list) \cup {t}
    BY <2>1, StartPending DEF SchedInv
  <2>3. timer_list \in Seq(Thread) /\ timer_list' \in Seq(Thread) /\ stat \in [Thread -> Stat]
    BY DEF SchedInv, TypeOK
  <2>4. \A y : Contains(timer_list', y) <=> Contains(timer_list, y) \/ y = t
    BY <2>2, <2>3, ToSetContains
  <2>5. activated' = activated \cup {t}
    BY <1>1 DEF rt_timer_start
  <2> QED
    BY <1>5, <2>3, <2>4, <2>5 DEF SchedInv, SelfInv, SleepsByTimer
<1>9. Begun'
  BY <1>1, <1>2, <1>3, <1>5, ConstantsAssumption DEF Begun, SchedInv, TypeOK, sched
<1>10. Entitled'
  BY <1>1, <1>2, <1>7, TwoPlaces DEF Entitled, sched
<1> QED
  BY <1>1, <1>5, <1>6, <1>7, <1>8, <1>9, <1>10 DEF SelfInv, SchedInv

\* rt_thread_yield up to its rt_schedule is Yield.
LEMMA YieldImplements ==
  ASSUME SchedInv, NEW t \in Thread, rt_thread_yield(t)
  PROVE  SelfInv' /\ Scheduler!Yield
<1>1. /\ MoveToTail(t) /\ Goto(t, AtSchedule) /\ stat[t] = "ready"
      /\ UNCHANGED <<timers, sched, isr, fault>> /\ Calls(t, "yield", NoThread)
  BY DEF rt_thread_yield, AtSchedule, CanYield
<1>2. /\ current_thread = t /\ t # NoThread /\ isr = "none"
      /\ stat[idle] = "ready" /\ Scheduler!Entitled
  BY <1>1, Caller
<1>3. /\ ReadyIsListed' /\ Scheduler!Listed(Levels(tlist), t)
      /\ Levels(tlist)' = Scheduler!Joined(Scheduler!Left(Levels(tlist), t), t)
  BY <1>1, TurnStep
<1>4. stat' = stat
  BY <1>1 DEF MoveToTail
<1>5. OwnPlaces' /\ pc'[t] = AtSchedule
  BY <1>1, OwnGoto DEF SchedInv, SelfInv
<1>6. SleepsByTimer' /\ Begun'
  BY <1>1, <1>2, <1>4 DEF SchedInv, SelfInv, SleepsByTimer, Begun, timers, sched
<1>7. Entitled'
  BY <1>1, <1>2, <1>5, TwoPlaces DEF Entitled, sched
<1>8. Scheduler!Yield
  BY <1>1, <1>2, <1>3 DEF Scheduler!Yield, Levels, sched
<1> QED
  BY <1>1, <1>3, <1>5, <1>6, <1>7, <1>8 DEF SelfInv, SchedInv

\* rt_schedule, called or at the end of a call, is Dispatch.
LEMMA ScheduleImplementsDispatch ==
  ASSUME SchedInv, TypeOK', ListInv', NEW t \in Thread, current_thread = t, t # NoThread,
         rt_schedule(tlist, group), OwnPlaces',
         UNCHANGED <<links, timers, lock_nest, isr>>
  PROVE  SelfInv' /\ Scheduler!Dispatch
<1>1. rt_schedule(tlist', group') /\ stat' = stat
  BY DEF links
<1>2. stat[idle] = "ready" /\ stat[t] \in {"ready", "suspend"}
  BY DEF SchedInv, SelfInv, Begun
<1>3. ReadyIsListed' /\ SleepsByTimer'
  BY DEF SchedInv, SelfInv, ReadyIsListed, SleepsByTimer, links, timers
<1>4. /\ fault' = "none" /\ current_thread' \in Thread
      /\ lock_nest = 0 => /\ current_thread' = to_thread(tlist, group)'
                          /\ stat'[current_thread'] = "ready"
      /\ lock_nest # 0 => current_thread' = current_thread
      /\ Scheduler!Choose(Levels(tlist)')
  BY <1>1, <1>2, <1>3, ChoiceNext, DispatchStep
<1>5. Begun'
  BY <1>1, <1>2, <1>4, ConstantsAssumption DEF Begun
<1>6. Entitled'
  BY <1>4 DEF Entitled
<1>7. Scheduler!Dispatch
  BY <1>1, <1>4 DEF Scheduler!Dispatch, Scheduler!Begun, Levels, links
<1> QED
  BY <1>3, <1>4, <1>5, <1>6, <1>7 DEF SelfInv

\* rt_enter_critical and rt_exit_critical are LockOrUnlock.
LEMMA LockImplements ==
  ASSUME SchedInv, NEW t \in Thread, rt_enter_critical(t) \/ rt_exit_critical(t)
  PROVE  SelfInv' /\ Scheduler!LockOrUnlock
<1>1. /\ UNCHANGED <<links, timers, current_thread, isr, fault>>
      /\ Calls(t, "lock", NoThread) \/ Calls(t, "unlock", NoThread)
  BY DEF rt_enter_critical, rt_exit_critical
<1>2. current_thread = t /\ pc[t] = User /\ Scheduler!Entitled
      /\ lock_nest \in Nat /\ LockMax \in Nat \ {0}
  BY <1>1, Caller, ConstantsAssumption DEF SchedInv, TypeOK
<1>3. OwnPlaces' /\ (pc'[t] = User => lock_nest' > 0)
  <2>1. CASE rt_enter_critical(t)
    <3>1. pc' = pc /\ lock_nest' > 0
      BY <1>2, <2>1 DEF rt_enter_critical
    <3> QED
      BY <3>1 DEF SchedInv, SelfInv, OwnPlaces
  <2>2. CASE rt_exit_critical(t) /\ lock_nest <= 1
    <3>1. Goto(t, AtSchedule)
      BY <2>2 DEF rt_exit_critical, AtSchedule
    <3> QED
      BY <3>1, OwnGoto, TwoPlaces DEF SchedInv, SelfInv
  <2>3. CASE rt_exit_critical(t) /\ ~(lock_nest <= 1)
    <3>1. Goto(t, User) /\ lock_nest' > 0
      BY <1>2, <2>3 DEF rt_exit_critical
    <3> QED
      BY <3>1, OwnGoto DEF SchedInv, SelfInv
  <2> QED
    BY <2>1, <2>2, <2>3
<1>4. ReadyIsListed' /\ SleepsByTimer' /\ Begun'
  BY <1>1 DEF SchedInv, SelfInv, ReadyIsListed, SleepsByTimer, Begun, links, timers
<1>5. Entitled'
  BY <1>1, <1>2, <1>3 DEF Entitled
<1>6. Scheduler!LockOrUnlock
  BY <1>1, <1>2 DEF Scheduler!LockOrUnlock, Levels, links
<1> QED
  BY <1>1, <1>3, <1>4, <1>5, <1>6 DEF SelfInv, SchedInv

\* Every step of a kernel whose threads act for themselves keeps the invariant
\* and is a step of FixedPriority or a stutter.
LEMMA SelfStep ==
  ASSUME SelfCalls, SchedInv, TypeOK', ListInv', [Next]_vars
  PROVE  SelfInv' /\ [Scheduler!FixedNext]_Fixed
<1>1. ASSUME NEW x \in Thread, BootStartup(x) PROVE SelfInv' /\ Scheduler!FixedNext
  BY <1>1, BootImplements DEF Scheduler!FixedNext
<1>2. CASE rt_system_scheduler_start
  BY <1>2, StartImplementsBegin DEF Scheduler!FixedNext
<1>3. CASE SysTick
  BY <1>3, TickImplementsSlice, TimeoutImplementsWake, DoneImplementsNothing
     DEF SysTick, Scheduler!FixedNext
<1>4. ASSUME NEW t \in Thread, Call(t) PROVE SelfInv' /\ [Scheduler!FixedNext]_Fixed
  <2>1. ASSUME NEW x \in Thread, OnTarget(t, x) PROVE FALSE
    <3>1. \E op \in {"resume", "startup", "suspend", "delete", "detach"} : <<op, x>> \in Api[t]
      BY <2>1 DEF OnTarget, rt_thread_resume, rt_thread_startup, rt_thread_suspend,
         rt_thread_delete, rt_thread_detach, CloseThread, Calls
    <3> QED
      BY <3>1 DEF SelfCalls, SelfOps
  <2>2. ASSUME NEW tick \in Delay, rt_thread_sleep(t, tick)
        PROVE  SelfInv' /\ [Scheduler!FixedNext]_Fixed
    BY <2>2, SleepImplementsBlock DEF Scheduler!FixedNext
  <2>3. CASE rt_thread_yield(t)
    BY <2>3, YieldImplements DEF Scheduler!FixedNext
  <2>4. CASE call_rt_schedule(t)
    <3>1. /\ current_thread = t /\ t # NoThread
          /\ rt_schedule(tlist, group) /\ UNCHANGED <<links, timers, lock_nest, isr>>
      BY <2>4, Caller DEF call_rt_schedule
    <3>2. OwnPlaces'
      BY <2>4 DEF call_rt_schedule, SchedInv, SelfInv, OwnPlaces
    <3> QED
      BY <3>1, <3>2, ScheduleImplementsDispatch DEF Scheduler!FixedNext
  <2>5. CASE rt_enter_critical(t) \/ rt_exit_critical(t)
    BY <2>5, LockImplements DEF Scheduler!FixedNext
  <2> QED
    BY <1>4, <2>1, <2>2, <2>3, <2>4, <2>5 DEF Call
<1>5. ASSUME NEW t \in Thread, Continue(t) PROVE SelfInv' /\ [Scheduler!FixedNext]_Fixed
  <2>1. pc[t].at \in {"user", "schedule"}
    BY TwoPlaces DEF SchedInv, SelfInv, OwnPlaces
  <2>2. Reschedule(t)
    BY <1>5, <2>1 DEF Continue, ResumeRemove, ResumeInsert, StartupResume, SuspendCrit,
       CloseRemove, CloseTimer, CloseStat, CloseList
  <2>3. /\ current_thread = t /\ t # NoThread /\ rt_schedule(tlist, group) /\ Goto(t, User)
        /\ UNCHANGED <<links, timers, lock_nest, isr>>
    BY <2>2, ConstantsAssumption DEF Reschedule, Running
  <2>4. OwnPlaces'
    BY <2>3, OwnGoto DEF SchedInv, SelfInv
  <2> QED
    BY <2>3, <2>4, ScheduleImplementsDispatch DEF Scheduler!FixedNext
<1>6. CASE UNCHANGED vars
  BY <1>6 DEF vars, SchedInv, SelfInv, OwnPlaces, ReadyIsListed, SleepsByTimer, Begun,
     Entitled, Fixed, Levels, links, timers, sched, to_thread
<1> QED
  BY <1>1, <1>2, <1>3, <1>4, <1>5, <1>6 DEF Next, Boot

\* The initial states.
LEMMA SelfStart == Init => SelfInv /\ Scheduler!FixedInit
<1> SUFFICES ASSUME Init PROVE SelfInv /\ Scheduler!FixedInit
  OBVIOUS
<1>1. /\ tlist = [h \in ListHead |-> <<>>] /\ current_thread = NoThread /\ lock_nest = 0
      /\ stat = [t \in Thread |-> "init"] /\ timer_list = <<>>
      /\ pc = [t \in Thread |-> User] /\ isr = "none" /\ fault = "none"
  BY DEF Init, rt_system_scheduler_init, rt_thread_init, rt_timer_init
<1>2. \A x \in Thread : Priority[x] \in ListHead
  BY ConstantsAssumption DEF ListHead
<1>3. SelfInv
  BY <1>1, <1>2 DEF SelfInv, OwnPlaces, ReadyIsListed, SleepsByTimer, Begun, Entitled, Contains
<1>4. Levels(tlist) = [p \in Prio |-> <<>>]
  BY <1>1 DEF Levels, ListHead
<1>5. Scheduler!FixedInit
  BY <1>1, <1>4 DEF Scheduler!FixedInit, Scheduler!Level, Levels, Prio
<1> QED
  BY <1>3, <1>5

-----------------------------------------------------------------------------
(* The theorems.                                                           *)

LEMMA SelfInvariant == ASSUME SelfCalls PROVE Spec => []SelfInv
<1>1. Init => SelfInv
  BY SelfStart
<1>2. TypeOK /\ TypeOK' /\ ListInv /\ ListInv' /\ TimerInv /\ SelfInv /\ [Next]_vars => SelfInv'
  BY SelfStep DEF SchedInv
<1> QED
  BY <1>1, <1>2, TypeCorrect, ListsAndBitmap, TimerInvariant, PTL DEF Spec

\* Threads that sleep, yield, reschedule and lock for themselves never make the
\* kernel link a node twice or run a thread of an empty level, however the tick
\* interrupts their calls.
THEOREM OwnCallsDoNoHarm == ASSUME SelfCalls PROVE Spec => []NoFault
<1>1. SelfInv => NoFault
  BY DEF SelfInv, NoFault
<1> QED
  BY <1>1, SelfInvariant, PTL

\* Then a thread is READY exactly when it is in the ready list of its priority.
THEOREM StatesMatchLists == ASSUME SelfCalls PROVE Spec => []ReadyIffListed
<1>1. SelfInv => ReadyIffListed
  BY DEF SelfInv, ReadyIsListed, ReadyIffListed
<1> QED
  BY <1>1, SelfInvariant, PTL

\* Then no thread sleeps without a pending timer that wakes it.
THEOREM NobodyIsForgotten == ASSUME SelfCalls PROVE Spec => []SleepersHaveTimers
<1>1. SelfInv => SleepersHaveTimers
  BY DEF SelfInv, SleepsByTimer, SleepersHaveTimers
<1> QED
  BY <1>1, SelfInvariant, PTL

\* Then a thread runs in its own code only if it is the first of the most urgent
\* level, or the scheduler is locked.
THEOREM MostUrgentRuns == ASSUME SelfCalls PROVE Spec => []HighestRuns
<1>1. SelfInv => HighestRuns
  BY DEF SelfInv, Entitled, HighestRuns, InUserCode
<1> QED
  BY <1>1, SelfInvariant, PTL

\* Refinement: with bitmap, thread states, tick and timers the scheduler does
\* what the fixed-priority scheduler promises, for any number of threads and
\* priorities, any slices and delays.
THEOREM SchedulerImplementsFixedPriority == ASSUME SelfCalls PROVE Spec => SchedulesByPriority
<1>1. Init => Scheduler!FixedInit
  BY SelfStart
<1>2. TypeOK /\ TypeOK' /\ ListInv /\ ListInv' /\ TimerInv /\ SelfInv /\ [Next]_vars
        => [Scheduler!FixedNext]_Fixed
  BY SelfStep DEF SchedInv
<1>3. Scheduler!FixedInit /\ [][Scheduler!FixedNext]_Fixed => SchedulesByPriority
  BY PTL DEF SchedulesByPriority, Scheduler!FixedSpec, Scheduler!fixedVars, Fixed, Levels
<1> QED
  BY <1>1, <1>2, <1>3, SelfInvariant, TypeCorrect, ListsAndBitmap, TimerInvariant, PTL DEF Spec
=============================================================================
