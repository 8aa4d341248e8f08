------------------------------ MODULE MCTimers ------------------------------
(* An instance of TimerList for TLC: two threads and three timers.  u owns *)
(* a one-shot timer with two times and a periodic one whose time-out       *)
(* function may stop it; v owns a timer that changes between the modes,    *)
(* whose time-out function stops the one of u and which sleeps use.        *)
EXTENDS TimerList

CONSTANTS u, v, once, beat, both

MCTimer == {once, beat, both}
MCTime == [x \in MCTimer |-> CASE x = once -> {1, 3} [] x = beat -> {2} [] OTHER -> {1}]
MCPeriod == {beat}
MCApi == [t \in {u, v} |->
    IF t = u
    THEN ({"start", "stop", "set_time"} \X {once}) \cup ({"start_masked", "detach"} \X {beat})
    ELSE {"start", "stop", "set_oneshot", "set_periodic"} \X {both}]
MCCallback == [x \in MCTimer |->
    CASE x = once -> {<<"none", x>>}
      [] x = beat -> {<<"none", x>>, <<"stop", x>>, <<"start", x>>}
      [] OTHER -> {<<"none", x>>, <<"stop", once>>}]

\* The threads and the time-out functions keep what the theorems ask of them.
ASSUME MCTimersKeep == StartsAlone /\ OwnTimers
=============================================================================
