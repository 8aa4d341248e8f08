---------------------------- MODULE FixedPriority ----------------------------
(***************************************************************************)
(* What the scheduler promises (scheduler.c, thread.c, clock.c), without   *)
(* bitmap, thread states, timers and slices: the CPU belongs to the first  *)
(* thread of the most urgent level that has one; threads of a level take   *)
(* turns in the order in which they became ready; while the scheduler is   *)
(* locked nobody takes the CPU.  A thread does nothing in its own code     *)
(* while the CPU belongs to another (Entitled), so a change of the levels  *)
(* has to be followed by a dispatch before the next call.                  *)
(***************************************************************************)
EXTENDS Integers, Sequences, SequencesExt

CONSTANTS
    Thread,
    NoThread,
    PrioMax,
    Priority

VARIABLES
    queue,      \* the ready threads of each priority, next one first
    running,    \* the thread that has the CPU
    locked      \* the scheduler is locked

fixedVars == <<queue, running, locked>>
Level == 0 .. PrioMax - 1
Listed(q, x) == Contains(q[Priority[x]], x)

\* The thread the CPU belongs to.
First(q) ==
    LET nonempty == {p \in Level : q[p] # <<>>} IN
    IF nonempty = {} THEN NoThread
    ELSE Head(q[CHOOSE p \in nonempty : \A o \in nonempty : p <= o])

Joined(q, x) == [q EXCEPT ![Priority[x]] = Append(@, x)]
Left(q, x) ==
    [q EXCEPT ![Priority[x]] = RemoveAt(@, CHOOSE i \in DOMAIN @ : @[i] = x)]

Begun == running # NoThread
Entitled == Begun /\ (locked \/ running = First(queue))
Choose(q) == running' = IF locked THEN running ELSE First(q)

FixedInit ==
    /\ queue = [p \in Level |-> <<>>]
    /\ running = NoThread
    /\ locked = FALSE

\* Before the scheduler starts.
MakeReady(x) ==
    /\ ~Begun /\ ~Listed(queue, x)
    /\ queue' = Joined(queue, x)
    /\ UNCHANGED <<running, locked>>

Begin ==
    /\ ~Begun
    /\ running' = First(queue) /\ running' # NoThread
    /\ UNCHANGED <<queue, locked>>

\* The running thread, in its own code, leaves the levels or gives up its turn.
Block ==
    /\ Entitled /\ Listed(queue, running)
    /\ queue' = Left(queue, running)
    /\ UNCHANGED <<running, locked>>

Yield ==
    /\ Entitled /\ Listed(queue, running)
    /\ queue' = Joined(Left(queue, running), running)
    /\ UNCHANGED <<running, locked>>

LockOrUnlock ==
    /\ Entitled /\ locked' \in BOOLEAN
    /\ UNCHANGED <<queue, running>>

Dispatch ==
    /\ Begun /\ Choose(queue)
    /\ UNCHANGED <<queue, locked>>

\* The tick: the slice of the running thread ends, or a sleeping thread wakes.
SliceEnds ==
    /\ Begun /\ Listed(queue, running)
    /\ queue' = Joined(Left(queue, running), running)
    /\ Choose(queue')
    /\ UNCHANGED locked

Wake(x) ==
    /\ Begun /\ ~Listed(queue, x)
    /\ queue' = Joined(queue, x)
    /\ Choose(queue')
    /\ UNCHANGED locked

FixedNext ==
    \/ \E x \in Thread : MakeReady(x) \/ Wake(x)
    \/ Begin \/ Block \/ Yield \/ LockOrUnlock \/ Dispatch \/ SliceEnds

FixedSpec == FixedInit /\ [][FixedNext]_fixedVars
=============================================================================
