------------------------------ MODULE TimerList ------------------------------
(***************************************************************************)
(* The timers (timer.c) as an application may use them: absolute ticks     *)
(* that wrap around, the pointer ring of pending timers, one-shot and      *)
(* periodic timers, time-out functions that use timers themselves, and     *)
(* callers that do not mask interrupts, so that the tick and other threads *)
(* come in between the critical sections of a call.                        *)
(*                                                                         *)
(* RtKernel has the calls its thread operations make, which are masked.    *)
(* Here the threads are only callers of timer.c: any of them may take the  *)
(* next step while the tick handler is not active.                         *)
(***************************************************************************)
EXTENDS Integers, Sequences, KernelList

CONSTANTS
    Timer,         \* the timers
    rt_timer_list, \* the head of the list of pending timers
    Thread,        \* the threads that call timer.c
    TickRange,     \* rt_tick_t counts modulo this (2^32)
    Time,          \* the times each timer may be given; the first is initial
    Period,        \* the timers initialised with RT_TIMER_FLAG_PERIODIC
    Patience,      \* bound: ticks between lines 161 and 164 of one start
    Api,           \* the calls each thread makes: <<operation, timer>>
    Callback       \* what the time-out function of each timer may do

Node == Timer \cup {rt_timer_list}
RT_TICK_MAX == TickRange - 1
MaxTime == CHOOSE d \in UNION {Time[x] : x \in Timer} :
              \A x \in Timer : \A e \in Time[x] : e <= d

\* Line 160: no time above RT_TICK_MAX/2, which the comparisons make "below",
\* less the ticks a start may be late.  A timer of time 0 that is started in
\* the tick handler would never let it return.
ASSUME TimerAssumption ==
    /\ rt_timer_list \notin Timer
    /\ TickRange \in Nat \ {0} /\ Patience \in Nat
    /\ IsFiniteSet(Timer) /\ MaxTime \in Nat
    /\ \A x \in Timer : Time[x] \subseteq 1 .. MaxTime /\ Time[x] # {}
    /\ MaxTime + Patience < RT_TICK_MAX \div 2
    /\ Period \subseteq Timer

VARIABLES
    rt_tick,       \* the tick counter (clock.c)
    ring,          \* the pointers of the nodes timer->row[0] and of the head
    timeout_tick,  \* timer->timeout_tick
    init_tick,     \* timer->init_tick
    flag,          \* timer->parent.flag, as the set of its bits
    pc,            \* where each thread is in its call
    isr            \* where the tick handler is, and with which timer

fields == <<timeout_tick, init_tick, flag>>
timerVars == <<rt_tick, ring, fields, pc, isr>>

-----------------------------------------------------------------------------
(* Ticks and the list.                                                     *)

\* a - b in rt_tick_t.
TickDiff(a, b) == (a - b) % TickRange

\* Mutation: the later tick is the larger number.
LargerNumber(a, b) == a > b /\ a - b < RT_TICK_MAX \div 2

\* (a - b) < RT_TICK_MAX / 2, without the case a = b.
Later(a, b) == TickDiff(a, b) \in 1 .. (RT_TICK_MAX \div 2) - 1

\* Mutation: timers fire one tick early.
ExpiresEarly(x) == TickDiff(rt_tick + 1, timeout_tick[x]) < RT_TICK_MAX \div 2

Expired(x) == TickDiff(rt_tick, timeout_tick[x]) < RT_TICK_MAX \div 2

Pending(x) == ring.next[x] # x

\* The search of rt_timer_start for a timer of timeout t: the last node before
\* the first one that is later.
RowHead(r, t) ==
    LET list == Elements(r, rt_timer_list)
        k == CHOOSE i \in 1 .. Len(list) + 1 :
                /\ \A j \in 1 .. i - 1 : ~Later(timeout_tick[list[j]], t)
                /\ i <= Len(list) => Later(timeout_tick[list[i]], t)
    IN IF k = 1 THEN rt_timer_list ELSE list[k - 1]

\* Second critical section of rt_timer_start.
Insert(r, x, t) == rt_list_insert_after(r, RowHead(r, t), x)

\* _rt_timer_remove.  Nothing reads the timeout_tick of a timer that is in no
\* list and that no thread is about to insert: the model forgets it.
AboutToInsert(x) == \E t \in Thread : pc[t].at = "start_insert" /\ pc[t].timer = x
_rt_timer_remove(x) ==
    /\ ring' = rt_list_remove(ring, x)
    /\ timeout_tick' = IF AboutToInsert(x) THEN timeout_tick
                                           ELSE [timeout_tick EXCEPT ![x] = 0]

\* Mutation: a pending timer is not unlinked first.
StartLinked(x) ==
    LET t == (rt_tick + init_tick[x]) % TickRange IN
    /\ ring' = Insert(ring, x, t)
    /\ timeout_tick' = [timeout_tick EXCEPT ![x] = t]
    /\ flag' = [flag EXCEPT ![x] = @ \cup {"activated"}]
    /\ UNCHANGED init_tick

\* rt_timer_start as one step: in the tick handler, or masked by the caller.
StartNow(x) ==
    LET t == (rt_tick + init_tick[x]) % TickRange IN
    /\ ring' = Insert(rt_list_remove(ring, x), x, t)
    /\ timeout_tick' = [timeout_tick EXCEPT ![x] = t]
    /\ flag' = [flag EXCEPT ![x] = @ \cup {"activated"}]
    /\ UNCHANGED init_tick

\* rt_timer_stop as one step.
StopNow(x) ==
    /\ IF "activated" \in flag[x] THEN _rt_timer_remove(x)
                                  ELSE UNCHANGED <<ring, timeout_tick>>
    /\ flag' = [flag EXCEPT ![x] = @ \ {"activated"}]
    /\ UNCHANGED init_tick

-----------------------------------------------------------------------------
(* Calls of the threads.                                                   *)

User == [at |-> "user", timer |-> rt_timer_list, flag |-> {}]
At(label, x) == [at |-> label, timer |-> x, flag |-> {}]
Goto(t, place) == pc' = [pc EXCEPT ![t] = place]
NoHandler == [at |-> "none", timer |-> rt_timer_list]

Free(t) == isr = NoHandler
Calls(t, op, x) == Free(t) /\ pc[t] = User /\ <<op, x>> \in Api[t]
AtPlace(t, label) == Free(t) /\ pc[t].at = label

\* rt_system_timer_init and a rt_timer_init of every timer.
TimerInit ==
    /\ rt_tick = 0
    /\ ring = rt_list_init(Node)
    /\ timeout_tick = [x \in Timer |-> 0]
    /\ init_tick \in {f \in [Timer -> 1 .. MaxTime] : \A x \in Timer : f[x] \in Time[x]}
    /\ flag = [x \in Timer |-> IF x \in Period THEN {"periodic"} ELSE {}]
    /\ pc = [t \in Thread |-> User]
    /\ isr = NoHandler

\* First critical section of rt_timer_start.
rt_timer_start(t, x) ==
    /\ Calls(t, "start", x)
    /\ _rt_timer_remove(x)
    /\ flag' = [flag EXCEPT ![x] = @ \ {"activated"}]
    /\ Goto(t, At("start_tick", x))
    /\ UNCHANGED <<rt_tick, init_tick, isr>>

\* Line 161, with interrupts on.  The timer is in no list, so only this thread
\* can see its timeout_tick.
StartTick(t) ==
    /\ AtPlace(t, "start_tick")
    /\ timeout_tick' = [timeout_tick EXCEPT ![pc[t].timer] =
                            (rt_tick + init_tick[pc[t].timer]) % TickRange]
    /\ Goto(t, At("start_insert", pc[t].timer))
    /\ UNCHANGED <<rt_tick, ring, init_tick, flag, isr>>

\* Mutation: the timer is linked but not marked.
StartInsertForgetsFlag(t) ==
    /\ AtPlace(t, "start_insert")
    /\ ring' = Insert(ring, pc[t].timer, timeout_tick[pc[t].timer])
    /\ Goto(t, User)
    /\ UNCHANGED <<rt_tick, fields, isr>>

StartInsert(t) ==
    LET x == pc[t].timer IN
    /\ AtPlace(t, "start_insert")
    /\ ring' = Insert(ring, x, timeout_tick[x])
    /\ flag' = [flag EXCEPT ![x] = @ \cup {"activated"}]
    /\ Goto(t, User)
    /\ UNCHANGED <<rt_tick, timeout_tick, init_tick, isr>>

\* What rt_thread_sleep and rt_sem_take do with interrupts off: start.
StartMasked(t, x) ==
    /\ Calls(t, "start_masked", x)
    /\ StartNow(x)
    /\ UNCHANGED <<rt_tick, pc, isr>>

\* The test of rt_timer_stop, with interrupts on.
rt_timer_stop(t, x) ==
    /\ Calls(t, "stop", x)
    /\ "activated" \in flag[x]
    /\ Goto(t, At("stop_remove", x))
    /\ UNCHANGED <<rt_tick, ring, fields, isr>>

StopRemove(t) ==
    /\ AtPlace(t, "stop_remove")
    /\ _rt_timer_remove(pc[t].timer)
    /\ Goto(t, At("stop_clear", pc[t].timer))
    /\ UNCHANGED <<rt_tick, init_tick, flag, isr>>

\* Line 94, after the critical section: the flag byte is read, changed ...
StopClear(t) ==
    LET x == pc[t].timer IN
    /\ AtPlace(t, "stop_clear")
    /\ Goto(t, [At("set_flag", x) EXCEPT !.flag = flag[x] \ {"activated"}])
    /\ UNCHANGED <<rt_tick, ring, fields, isr>>

\* rt_timer_detach: RT_TIMER_FLAG_ACTIVATED stays.
rt_timer_detach(t, x) ==
    /\ Calls(t, "detach", x)
    /\ _rt_timer_remove(x)
    /\ UNCHANGED <<rt_tick, init_tick, flag, pc, isr>>

\* rt_timer_control(SET_TIME)
SetTime(t, x) ==
    /\ Calls(t, "set_time", x)
    /\ \E d \in Time[x] : init_tick' = [init_tick EXCEPT ![x] = d]
    /\ UNCHANGED <<rt_tick, ring, timeout_tick, flag, pc, isr>>

\* rt_timer_control(SET_ONESHOT) and (SET_PERIODIC): the flag byte is read,
\* with interrupts on, changed ...
SetMode(t, x) ==
    /\ \/ /\ Calls(t, "set_oneshot", x)
          /\ Goto(t, [At("set_flag", x) EXCEPT !.flag = flag[x] \ {"periodic"}])
       \/ /\ Calls(t, "set_periodic", x)
          /\ Goto(t, [At("set_flag", x) EXCEPT !.flag = flag[x] \cup {"periodic"}])
    /\ UNCHANGED <<rt_tick, ring, fields, isr>>

\* ... and written back.
SetFlag(t) ==
    /\ AtPlace(t, "set_flag")
    /\ flag' = [flag EXCEPT ![pc[t].timer] = pc[t].flag]
    /\ Goto(t, User)
    /\ UNCHANGED <<rt_tick, ring, timeout_tick, init_tick, isr>>

-----------------------------------------------------------------------------
(* The tick handler.                                                       *)

\* Ticks since line 161 of a start that has not inserted yet.
Delayed(t) == TickDiff(rt_tick, timeout_tick[pc[t].timer] - init_tick[pc[t].timer])

\* Mutation: the tick is wider than rt_tick_t.
TickWithoutWrap ==
    /\ isr = NoHandler
    /\ \A t \in Thread : pc[t].at = "start_insert" => Delayed(t) < Patience
    /\ rt_tick' = rt_tick + 1
    /\ isr' = [NoHandler EXCEPT !.at = "check"]
    /\ UNCHANGED <<ring, fields, pc>>

\* rt_tick_increase up to rt_timer_check.
rt_tick_increase ==
    /\ isr = NoHandler
    /\ \A t \in Thread : pc[t].at = "start_insert" => Delayed(t) < Patience
    /\ rt_tick' = (rt_tick + 1) % TickRange
    /\ isr' = [NoHandler EXCEPT !.at = "check"]
    /\ UNCHANGED <<ring, fields, pc>>

First == ring.next[rt_timer_list]
FirstExpired == ~rt_list_isempty(ring, rt_timer_list) /\ Expired(First)

\* rt_timer_check takes the first timer, if it has expired, out of the list.
rt_timer_check ==
    /\ isr.at = "check" /\ FirstExpired
    /\ _rt_timer_remove(First)
    /\ isr' = [at |-> "callback", timer |-> First]
    /\ UNCHANGED <<rt_tick, init_tick, flag, pc>>

\* timer->timeout_func: it uses the timers, or does something else.
timeout_func ==
    /\ isr.at = "callback"
    /\ \/ <<"none", isr.timer>> \in Callback[isr.timer] /\ UNCHANGED <<ring, fields>>
       \/ \E x \in Timer : <<"start", x>> \in Callback[isr.timer] /\ StartNow(x)
       \/ \E x \in Timer : <<"stop", x>> \in Callback[isr.timer] /\ StopNow(x)
    /\ isr' = [isr EXCEPT !.at = "called"]
    /\ UNCHANGED <<rt_tick, pc>>

\* Mutation: the periodic timer is due again at once.
PeriodicStartsDue ==
    LET x == isr.timer IN
    /\ isr.at = "called"
    /\ {"periodic", "activated"} \subseteq flag[x]
    /\ ring' = Insert(rt_list_remove(ring, x), x, rt_tick)
    /\ timeout_tick' = [timeout_tick EXCEPT ![x] = rt_tick]
    /\ isr' = [NoHandler EXCEPT !.at = "check"]
    /\ UNCHANGED <<rt_tick, init_tick, flag, pc>>

\* A periodic timer that is still activated is started again.
RestartPeriodic ==
    /\ isr.at = "called"
    /\ {"periodic", "activated"} \subseteq flag[isr.timer]
    /\ StartNow(isr.timer)
    /\ isr' = [NoHandler EXCEPT !.at = "check"]
    /\ UNCHANGED <<rt_tick, pc>>

\* Any other loses RT_TIMER_FLAG_ACTIVATED; it may be linked all the same.
StopOneShot ==
    /\ isr.at = "called"
    /\ ~({"periodic", "activated"} \subseteq flag[isr.timer])
    /\ flag' = [flag EXCEPT ![isr.timer] = @ \ {"activated"}]
    /\ isr' = [NoHandler EXCEPT !.at = "check"]
    /\ UNCHANGED <<rt_tick, ring, timeout_tick, init_tick, pc>>

CheckDone ==
    /\ isr.at = "check" /\ ~FirstExpired
    /\ isr' = NoHandler
    /\ UNCHANGED <<rt_tick, ring, fields, pc>>

-----------------------------------------------------------------------------
TimerCall(t) ==
    \/ \E x \in Timer :
        \/ rt_timer_start(t, x)
        \/ StartMasked(t, x)
        \/ rt_timer_stop(t, x)
        \/ rt_timer_detach(t, x)
        \/ SetTime(t, x)
        \/ SetMode(t, x)
    \/ StartTick(t)
    \/ StartInsert(t)
    \/ StopRemove(t)
    \/ StopClear(t)
    \/ SetFlag(t)

Handler ==
    \/ rt_timer_check \/ timeout_func \/ RestartPeriodic \/ StopOneShot \/ CheckDone

TimerNext == rt_tick_increase \/ Handler \/ \E t \in Thread : TimerCall(t)

TimerSpec == TimerInit /\ [][TimerNext]_timerVars

\* The handler runs on: nothing preempts it.
TimerFairSpec == TimerSpec /\ WF_timerVars(Handler)

-----------------------------------------------------------------------------
(* What an application keeps to: the properties need it, timer.c does not  *)
(* enforce it.                                                             *)

\* Nobody else starts a timer between the critical sections of a rt_timer_start.
StartsAlone ==
    \A t \in Thread, x \in Timer : <<"start", x>> \in Api[t] =>
        /\ \A u \in Thread \ {t} : {<<"start", x>>, <<"start_masked", x>>} \cap Api[u] = {}
        /\ \A y \in Timer : <<"start", x>> \notin Callback[y]

Op == {"start", "start_masked", "stop", "detach", "set_time", "set_oneshot", "set_periodic"}
Uses(t, x) == \E op \in Op : <<op, x>> \in Api[t]

\* One thread uses a timer; one that a time-out function starts is not started,
\* stopped or given a mode in sections, and a timer that starts itself is
\* periodic.
OwnTimers ==
    /\ \A t, u \in Thread, x \in Timer : Uses(t, x) /\ Uses(u, x) => t = u
    /\ \A x, y \in Timer : <<"start", y>> \in Callback[x] =>
          /\ \A t \in Thread, op \in {"start", "stop", "set_oneshot", "set_periodic"} :
                <<op, y>> \notin Api[t]
          /\ y = x => y \in Period

-----------------------------------------------------------------------------
(* Properties.                                                             *)

Place == {"user", "start_tick", "start_insert", "stop_remove", "stop_clear", "set_flag"}
Bits == {"activated", "periodic"}
TimerTypeOK ==
    /\ rt_tick \in 0 .. RT_TICK_MAX
    /\ ring \in [next : [Node -> Node], prev : [Node -> Node]]
    /\ timeout_tick \in [Timer -> 0 .. RT_TICK_MAX]
    /\ init_tick \in [Timer -> 1 .. MaxTime]
    /\ flag \in [Timer -> SUBSET Bits]
    /\ pc \in [Thread -> [at : Place, timer : Node, flag : SUBSET Bits]]
    /\ isr \in [at : {"none", "check", "callback", "called"}, timer : Node]

InRow(x) ==
    LET row == Elements(ring, rt_timer_list) IN \E i \in DOMAIN row : row[i] = x

\* The pointers always form rings, however calls, the tick and the time-out
\* functions interleave, and every linked timer is in the ring of the head, where
\* rt_timer_check finds it: none is linked twice, none is lost.
RingSound ==
    /\ Rings(ring)
    /\ \A x \in Timer : Pending(x) => InRow(x)

\* rt_timer_stop refuses a timer that is not activated: so every pending timer
\* is, as soon as the tick handler has returned.
PendingCanBeStopped ==
    isr = NoHandler => \A x \in Timer : Pending(x) => "activated" \in flag[x]

\* The tick handler returns: periodic timers and time-out functions that start
\* timers do not keep its loop going.
CheckEnds == isr.at # "none" ~> isr = NoHandler

\* The distance from rt_tick to tick a, in -TickRange/2 .. TickRange/2.
TicksUntil(a) ==
    LET d == TickDiff(a, rt_tick) IN IF d < RT_TICK_MAX \div 2 THEN d ELSE d - TickRange

Promised ==
    INSTANCE Countdown WITH
        NoTimer <- rt_timer_list,
        left <- [x \in {y \in Timer : Pending(y)} |-> TicksUntil(timeout_tick[x])],
        begun <- [x \in {y \in Timer : AboutToInsert(y)} |-> TicksUntil(timeout_tick[x])],
        time <- [x \in Timer |-> {init_tick[x]}],
        periodic <- {x \in Timer : "periodic" \in flag[x]},
        checking <- isr.at # "none",
        taken <- IF isr.at = "callback" THEN isr.timer ELSE rt_timer_list,
        fired <- IF isr.at = "called" THEN {isr.timer} ELSE {}

\* The list of absolute ticks, compared modulo 2^w, keeps the promise of a
\* countdown for each timer, also across the wrap of rt_tick, with starts that
\* are interrupted and timers that restart: each runs for its init_tick from
\* the tick that rt_timer_start has read; the handler calls the time-out function
\* of a timer when it is due and never before, the longest due first, and of
\* every timer it takes out; only periodic timers restart.
CountsDown == Promised!CountdownSpec
=============================================================================
