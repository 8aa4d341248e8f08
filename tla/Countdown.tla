------------------------------ MODULE Countdown ------------------------------
(***************************************************************************)
(* What the timers of the kernel promise (timer.c, clock.c), without lists *)
(* and without an absolute tick: a pending timer counts the ticks that     *)
(* are left, from the tick its start has read.  A tick counts all of them  *)
(* down.  Its handler takes a timer out only when it is due, the longest   *)
(* due first, calls the time-out function of every timer it takes out and  *)
(* does not return while one is due.  Timers are started, with their own   *)
(* time, and stopped by callers outside the handler and by time-out        *)
(* functions; the handler itself starts again only a periodic timer that   *)
(* has fired, and stops none.                                              *)
(***************************************************************************)
EXTENDS Integers

CONSTANTS
    Timer,      \* the timers
    NoTimer     \* none of them

VARIABLES
    left,       \* ticks left of each pending timer; its domain is the pending ones
    begun,      \* the same of those whose start has read the tick, no more
    time,       \* the times each timer may be started with at present
    periodic,   \* the timers that are started again when they have fired
    checking,   \* the tick handler is active
    taken,      \* the timer it has taken out and whose function it has to call
    fired       \* the timers whose function it has called

countdownVars == <<left, begun, time, periodic, checking, taken, fired>>

CountdownInit ==
    /\ left = <<>> /\ begun = <<>>
    /\ time \in [Timer -> SUBSET Int] /\ periodic \subseteq Timer
    /\ checking = FALSE /\ taken = NoTimer /\ fired = {}

With(f, x, d) == [y \in DOMAIN f \cup {x} |-> IF y = x THEN d ELSE f[y]]
Without(f, x) == [y \in DOMAIN f \ {x} |-> f[y]]
CountedDown(f) == [y \in DOMAIN f |-> f[y] - 1]

\* The timer is pending with a time of its own, whatever it was before.
Starts(x) == \E d \in time[x] : left' = With(left, x, d)
Stops(x) == left' = Without(left, x)

-----------------------------------------------------------------------------
(* Callers, outside the handler.  They also use up what fired tells them.  *)

Outside == ~checking /\ UNCHANGED <<checking, taken>> /\ fired' \subseteq Timer

\* rt_timer_start in one step ...
Start(x) == Outside /\ Starts(x) /\ UNCHANGED <<begun, time, periodic>>

\* ... or in two: it reads the tick, and inserts the timer ticks later.
Begin(x) ==
    /\ Outside /\ \E d \in time[x] : begun' = With(begun, x, d)
    /\ UNCHANGED <<left, time, periodic>>

Insert(x) ==
    /\ Outside /\ x \in DOMAIN begun
    /\ left' = With(left, x, begun[x]) /\ begun' = Without(begun, x)
    /\ UNCHANGED <<time, periodic>>

\* rt_timer_stop and rt_timer_detach.
Stop(x) == Outside /\ Stops(x) /\ UNCHANGED <<begun, time, periodic>>

\* rt_timer_control: a new time or mode for x.
Control(x) ==
    /\ Outside /\ UNCHANGED <<left, begun>>
    /\ \A y \in Timer \ {x} : time'[y] = time[y] /\ (y \in periodic' <=> y \in periodic)

Notice == Outside /\ UNCHANGED <<left, begun, time, periodic>>

-----------------------------------------------------------------------------
(* The tick and its handler.                                               *)

\* rt_tick_increase, up to rt_timer_check.
Tick ==
    /\ ~checking /\ checking' = TRUE
    /\ left' = CountedDown(left) /\ begun' = CountedDown(begun)
    /\ UNCHANGED <<time, periodic, taken, fired>>

Handling == checking /\ UNCHANGED <<begun, time, periodic, checking>>

Due(x) ==
    /\ taken = NoTimer
    /\ x \in DOMAIN left /\ left[x] <= 0
    /\ \A y \in DOMAIN left : left[x] <= left[y]

\* rt_timer_check takes x out ...
Expire(x) == Handling /\ Due(x) /\ Stops(x) /\ taken' = x /\ UNCHANGED fired

\* ... and calls its time-out function, which may use the timers; ...
Call ==
    /\ Handling /\ taken # NoTimer /\ taken' = NoTimer
    /\ fired' = fired \cup {taken}
    /\ UNCHANGED left \/ \E y \in Timer : Starts(y) \/ Stops(y)

\* ... or both at once, where the function does not use the timers.
Fire(x) == Handling /\ Due(x) /\ Stops(x) /\ fired' = fired \cup {x} /\ UNCHANGED taken

\* Back from the function: a periodic timer may be started again.
Return(x) ==
    /\ Handling /\ x \in fired /\ fired' = fired \ {x} /\ UNCHANGED taken
    /\ UNCHANGED left \/ (x \in periodic /\ Starts(x))

\* rt_timer_check returns.
CheckDone ==
    /\ checking /\ checking' = FALSE
    /\ taken = NoTimer /\ \A y \in DOMAIN left : left[y] > 0
    /\ UNCHANGED <<left, begun, time, periodic, taken, fired>>

-----------------------------------------------------------------------------
Caller ==
    \/ Notice
    \/ \E x \in Timer : Start(x) \/ Begin(x) \/ Insert(x) \/ Stop(x) \/ Control(x)

Handler == Call \/ CheckDone \/ \E x \in Timer : Expire(x) \/ Fire(x) \/ Return(x)

CountdownNext == Tick \/ Caller \/ Handler

CountdownSpec == CountdownInit /\ [][CountdownNext]_countdownVars
=============================================================================
