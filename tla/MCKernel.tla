------------------------------ MODULE MCKernel ------------------------------
(* Instances of RtKernel for TLC: a thread hi above two peers p1 and p2,    *)
(* and the idle thread below.                                              *)
EXTENDS RtKernel

CONSTANTS hi, p1, p2

MCThread == {hi, p1, p2, idle}
MCPriority == [t \in MCThread |-> CASE t = hi -> 0 [] t = idle -> 2 [] OTHER -> 1]
MCInitTick == [t \in MCThread |-> IF t = p1 THEN 2 ELSE 1]

\* Calls without a target, on one thread, and on every other thread.
Plain(ops) == ops \X {NoThread}
Others(ops, t) == ops \X (MCThread \ {t, idle})
OneSlice == [t \in MCThread |-> 1]

\* Threads that block, yield and use the scheduler lock, each for itself.
SleepersApi == [t \in MCThread |->
    IF t = idle THEN {} ELSE Plain({"sleep", "yield", "schedule", "lock", "unlock"})]

\* Two threads of different priority and idle; their bits are in two bytes of
\* the bitmap.
PairThread == {hi, p1, idle}
Pair(f) == [t \in PairThread |-> f[t]]
PairPriority == [t \in PairThread |-> CASE t = hi -> 7 [] t = idle -> 9 [] OTHER -> 8]
PairInitTick == Pair(OneSlice)

\* Every operation, by every thread but idle, on every thread but idle; a
\* thread resumes only others.
FreeBoot == {hi, idle}
FreeApi == Pair([t \in MCThread |->
    IF t = idle THEN {}
    ELSE Plain({"sleep", "yield", "schedule", "lock", "unlock"})
         \cup ({"startup", "resume", "suspend", "detach", "delete"} \X (PairThread \ {t, idle}))
         \cup {<<"suspend", t>>}])

\* All threads sleep, and x applies one operation to the others.
AndSleep(x, kind) == [t \in MCThread |->
    CASE t = x -> Plain({"sleep"}) \cup Others({kind}, x)
      [] t = idle -> {}
      [] OTHER -> Plain({"sleep"})]
ResumeApi == AndSleep(hi, "resume")
DetachApi == AndSleep(hi, "detach")
=============================================================================
