---------------------------- MODULE MCSemaphore ----------------------------
(* Instances of RtSemaphore for TLC: a thread hi, two peers below it, idle, *)
(* and one semaphore.                                                      *)
EXTENDS RtSemaphore

CONSTANTS hi, p1, p2, sem

MCThread == {hi, p1, p2, idle}
MCPriority == [t \in MCThread |-> CASE t = hi -> 0 [] t = idle -> 2 [] OTHER -> 1]
MCInitTick == [t \in MCThread |-> 1]
MCSem == {sem}
Fifo == [s \in MCSem |-> "fifo"]
Prio_ == [s \in MCSem |-> "prio"]
One == [s \in MCSem |-> 1]

Forever == {-1, 0}
Timed == {-1, 1}
TimedLong == {-1, 2}

OnSem(ops) == ops \X MCSem
Plain(ops) == ops \X {NoThread}

\* Threads that take and release as they like.
TakersApi == [t \in MCThread |->
    IF t = idle THEN {} ELSE OnSem({"sem_take", "sem_release"}) \cup Plain({"sleep"})]

\* hi also resets the semaphore.
ResetApi == [t \in MCThread |->
    IF t = hi THEN OnSem({"sem_take", "sem_reset"}) \cup Plain({"sleep"})
    ELSE TakersApi[t]]

\* hi also resets the semaphore or detaches it.
FullApi == [t \in MCThread |->
    IF t = hi THEN ResetApi[t] \cup OnSem({"sem_detach"}) ELSE TakersApi[t]]

\* The same as ResetApi where only p1 sleeps: the others wait with a time limit.
TimedApi == [t \in MCThread |-> IF t = p1 THEN ResetApi[t] ELSE ResetApi[t] \ Plain({"sleep"})]

\* hi also detaches the semaphore.
DetachApi == [t \in MCThread |->
    IF t = hi THEN OnSem({"sem_detach"}) \cup Plain({"sleep"})
    ELSE TakersApi[t]]
=============================================================================
