-------------------------------- MODULE Demo --------------------------------
(***************************************************************************)
(* The application (User/main.c) on the kernel core: four threads of one   *)
(* priority, a counter they share under the scheduler lock, a thread that  *)
(* suspends itself and is resumed, one that is detached; and the object    *)
(* container (object.c), in which boot puts the threads and out of which   *)
(* rt_thread_detach takes them.                                            *)
(*                                                                         *)
(* line[t] is the statement thread t comes to next; its calls are those of *)
(* RtKernel.  The flags that only an oscilloscope reads are left out, and  *)
(* rt_thread_getinfo, which changes nothing.                               *)
(***************************************************************************)
EXTENDS RtKernel

\* The rings of rtservice.h; rt_list_remove of RtKernel is that of its own lists.
List == INSTANCE KernelList

CONSTANTS
    flag1, flag2, flag3, flag4, \* the threads of main.c
    container,     \* object_list of the container's entry for threads
    LongDelay,     \* 100 ticks
    ShortDelay,    \* 10 ticks
    CounterRange,  \* sharecounter counts modulo this (2^32)
    DetachAt       \* 0xf

ASSUME DemoAssumption ==
    /\ Thread = {flag1, flag2, flag3, flag4, idle}
    /\ flag1 \notin {flag2, flag3, flag4, idle} /\ flag2 \notin {flag3, flag4, idle}
    /\ flag3 \notin {flag4, idle} /\ flag4 # idle
    /\ BootThread = Thread
    /\ container \notin Thread
    /\ {LongDelay, ShortDelay} \subseteq Delay
    /\ CounterRange \in Nat \ {0}

VARIABLES
    line,          \* the next statement of each thread
    var,           \* the local copy of sharecounter of each thread
    sharecounter,
    objects,       \* the ring of thread objects (thread->list and its head)
    written        \* history: increments of sharecounter done so far

appVars == <<line, var, sharecounter, written>>
demoVars == <<vars, appVars, objects>>

Do(op, arg) == [op |-> op, arg |-> arg]

\* sharecounter++ and var = sharecounter; var++ are a read and a later write.
Program ==
    [t \in Thread |->
        CASE t = flag1 -> << Do("resume", flag3), Do("lock", NoThread),
                             Do("read", NoThread), Do("sleep", LongDelay),
                             Do("write", NoThread), Do("unlock", NoThread),
                             Do("resume", flag3), Do("sleep", LongDelay) >>
          [] t = flag2 -> << Do("lock", NoThread), Do("read", NoThread),
                             Do("write", NoThread), Do("unlock", NoThread),
                             Do("detach", flag4),
                             Do("sleep", ShortDelay), Do("sleep", ShortDelay) >>
          [] t = flag3 -> << Do("suspend", flag3), Do("suspend", flag3) >>
          [] OTHER -> << Do("loop", NoThread) >>]

Now(t) == Program[t][line[t]]
AfterLine(t) == line' = [line EXCEPT ![t] = 1 + (@ % Len(Program[t]))]
Executes(t, op) == Running(t) /\ pc[t] = User /\ Now(t).op = op

-----------------------------------------------------------------------------
(* Boot and the object container.                                          *)

DemoInit ==
    /\ Init
    /\ line = [t \in Thread |-> 1]
    /\ var = [t \in Thread |-> 0]
    /\ sharecounter = 0 /\ written = 0
    /\ objects = List!rt_list_init(Thread \cup {container})

\* main initialises and starts the threads in this order.
BootOrder == <<idle, flag1, flag2, flag3, flag4>>

\* rt_thread_init, as far as rt_object_init, and rt_thread_startup.
BootNext ==
    \E i \in DOMAIN BootOrder :
        /\ \A j \in 1 .. i - 1 : stat[BootOrder[j]] = "ready"
        /\ BootStartup(BootOrder[i])
        /\ objects' = List!rt_list_insert_after(objects, container, BootOrder[i])
        /\ UNCHANGED appVars

\* Mutation: the object stays in the container.
DetachKeepsObject(t) == objects

\* rt_object_detach, the last step of rt_thread_detach.
rt_object_detach(t) ==
    IF pc[t].at = "close_list" /\ pc[t].then = "detach"
    THEN List!rt_list_remove(objects, pc[t].arg)
    ELSE objects

-----------------------------------------------------------------------------
(* The statements.                                                         *)

\* A call to the kernel: its first step, after which RtKernel!Continue goes on.
KernelCall(t) ==
    /\ \/ Executes(t, "resume") /\ rt_thread_resume(t, Now(t).arg)
       \/ Executes(t, "suspend") /\ rt_thread_suspend(t, Now(t).arg)
       \/ Executes(t, "lock") /\ rt_enter_critical(t)
       \/ Executes(t, "unlock") /\ rt_exit_critical(t)
       \/ Executes(t, "sleep") /\ rt_thread_sleep(t, Now(t).arg)
    /\ AfterLine(t)
    /\ UNCHANGED <<var, sharecounter, written, objects>>

\* if (sharecounter == 0xf) rt_thread_detach(&rt_flag4_thread)
TestAndDetach(t) ==
    /\ IF sharecounter = DetachAt
       THEN Executes(t, "detach") /\ rt_thread_detach(t, Now(t).arg)
       ELSE Executes(t, "detach") /\ UNCHANGED vars
    /\ AfterLine(t)
    /\ UNCHANGED <<var, sharecounter, written, objects>>

ReadCounter(t) ==
    /\ Executes(t, "read")
    /\ var' = [var EXCEPT ![t] = (sharecounter + 1) % CounterRange]
    /\ AfterLine(t)
    /\ UNCHANGED <<vars, sharecounter, written, objects>>

WriteCounter(t) ==
    /\ Executes(t, "write")
    /\ sharecounter' = var[t]
    /\ written' = (written + 1) % CounterRange
    /\ AfterLine(t)
    /\ UNCHANGED <<vars, var, objects>>

ContinueCall(t) ==
    /\ Continue(t)
    /\ objects' = rt_object_detach(t)
    /\ UNCHANGED appVars

DemoStep(t) ==
    KernelCall(t) \/ TestAndDetach(t) \/ ReadCounter(t) \/ WriteCounter(t) \/ ContinueCall(t)

DemoBoot == BootNext \/ (rt_system_scheduler_start /\ UNCHANGED <<appVars, objects>>)
DemoTick == SysTick /\ UNCHANGED <<appVars, objects>>

DemoNext == DemoBoot \/ DemoTick \/ \E t \in Thread : DemoStep(t)

DemoSpec == DemoInit /\ [][DemoNext]_demoVars

\* As in RtKernel; here the program of the threads is known, so whichever of
\* them has the CPU executes its statements.
DemoFairSpec ==
    /\ DemoSpec
    /\ WF_demoVars(DemoBoot) /\ WF_demoVars(DemoTick)
    /\ SF_demoVars(\E t \in Thread : DemoStep(t))

-----------------------------------------------------------------------------
(* Properties.                                                             *)

\* The counter shared under the scheduler lock has every increment, although
\* flag1 calls rt_thread_delay between its read and its write.
NoLostUpdate == sharecounter = written

\* The container's ring is sound and holds the threads that were initialised
\* and not detached: no thread that runs or can be made ready is missing, and
\* none that is closed is left once rt_thread_detach has returned.
InContainer(x) == objects.next[x] # x
ContainerMatches ==
    /\ List!Rings(objects)
    /\ \A x \in Thread :
        /\ stat[x] \in {"ready", "suspend"} => InContainer(x)
        /\ InContainer(x) /\ stat[x] = "close" => InTransit(x)

\* When its slice is used up a thread hands the CPU over, as the comment in
\* rt_tick_increase says: so a ready thread of that priority gets its turn.
PeersGetTurns ==
    \A x \in Thread \ {idle} :
        stat[x] = "ready" /\ Contains(tlist[Priority[x]], x)
            ~> current_thread = x \/ stat[x] = "close"
=============================================================================
