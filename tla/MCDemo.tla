------------------------------- MODULE MCDemo -------------------------------
(* The instance of Demo for TLC: the delays 100 and 10 become 2 and 1, the *)
(* slices 10, 10, 5 and 2 become 2, 2, 1 and 1.                            *)
EXTENDS Demo

MCThread == {flag1, flag2, flag3, flag4, idle}
MCPriority == [t \in MCThread |-> IF t = idle THEN 1 ELSE 0]
MCInitTick == [t \in MCThread |-> IF t \in {flag1, flag2} THEN 2 ELSE 1]
MCApi == [t \in MCThread |->
    CASE t = flag1 -> {<<"resume", flag3>>} \cup ({"lock", "unlock", "sleep"} \X {NoThread})
      [] t = flag2 -> {<<"detach", flag4>>} \cup ({"lock", "unlock", "sleep"} \X {NoThread})
      [] t = flag3 -> {<<"suspend", flag3>>}
      [] OTHER -> {}]
=============================================================================
