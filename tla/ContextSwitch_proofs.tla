------------------------ MODULE ContextSwitch_proofs ------------------------
(* Proofs about ContextSwitch, for any set of threads.                     *)
EXTENDS ContextSwitch, TLAPS

\* What RequestConsistent and ContextsKept need to be inductive: PendSV is
\* pending only for a request, main runs until the first request is served,
\* and after that some thread is in the CPU.
BootShape ==
    /\ pendsv => flag
    /\ mode = "boot" => cpu = Null
    /\ mode = "boot" /\ current_thread # Null => flag
    /\ mode # "boot" => cpu # Null /\ current_thread # Null

IInv == TypeOK /\ ContextsKept /\ RequestConsistent /\ BootShape

\* The initial state: main runs, nothing is requested.
LEMMA InitInv == Init => IInv
<1> SUFFICES ASSUME Init PROVE IInv
  OBVIOUS
<1>1. TypeOK
  BY DEF Init, TypeOK, Context
<1>2. ContextsKept
  BY DEF Init, ContextsKept
<1>3. RequestConsistent /\ BootShape
  BY DEF Init, RequestConsistent, BootShape
<1> QED
  BY <1>1, <1>2, <1>3 DEF IInv

\* Every step keeps the invariant.
LEMMA NextInv == IInv /\ [Next]_vars => IInv'
<1> SUFFICES ASSUME IInv, [Next]_vars PROVE IInv'
  OBVIOUS
<1> USE DEF IInv, TypeOK, ContextsKept, RequestConsistent, BootShape, request, contexts
<1>1. ASSUME NEW t \in Thread, rt_hw_context_switch_to(t) PROVE IInv'
  BY <1>1, SwitchAssumption DEF rt_hw_context_switch_to
<1>2. ASSUME NEW t \in Thread, rt_schedule(t) PROVE IInv'
  BY <1>2, SwitchAssumption DEF rt_schedule, rt_hw_context_switch
<1>3. CASE PendSV_Handler
  <2>1. flag /\ cpu = from_thread /\ to_thread = current_thread /\ to_thread \in Thread
    BY <1>3 DEF PendSV_Handler, PendSVWaits
  <2>2. CASE cpu = Null
    <3>1. saved' = saved /\ regs' = saved[to_thread] /\ cpu' = to_thread
      BY <1>3, <2>1, <2>2 DEF PendSV_Handler
    <3>2. regs' = [owner |-> to_thread, step |-> steps[to_thread]]
      BY <2>1, <2>2, <3>1, SwitchAssumption
    <3>3. TypeOK'
      BY <1>3, <2>1, <3>1 DEF PendSV_Handler
    <3>4. ContextsKept'
      BY <1>3, <2>1, <2>2, <3>1, <3>2, SwitchAssumption DEF PendSV_Handler
    <3>5. RequestConsistent' /\ BootShape'
      BY <1>3, <2>1, <3>1, SwitchAssumption DEF PendSV_Handler
    <3> QED
      BY <3>3, <3>4, <3>5
  <2>3. CASE cpu # Null
    <3>1. saved' = [saved EXCEPT ![cpu] = regs] /\ regs' = saved'[to_thread]
          /\ cpu' = to_thread
      BY <1>3, <2>1, <2>3 DEF PendSV_Handler
    <3>2. \A t \in Thread : saved'[t] = [owner |-> t, step |-> steps[t]]
      BY <2>3, <3>1
    <3>3. ContextsKept'
      BY <1>3, <2>1, <3>1, <3>2 DEF PendSV_Handler
    <3>4. TypeOK'
      BY <1>3, <2>1, <2>3, <3>1 DEF PendSV_Handler
    <3>5. RequestConsistent' /\ BootShape'
      BY <1>3, <2>1, <2>3, <3>1, SwitchAssumption DEF PendSV_Handler
    <3> QED
      BY <3>3, <3>4, <3>5
  <2> QED
    BY <2>2, <2>3
<1>4. CASE SysTick_Handler
  BY <1>4 DEF SysTick_Handler
<1>5. CASE SysTick_Return
  BY <1>5 DEF SysTick_Return
<1>6. CASE rt_hw_interrupt_disable
  BY <1>6 DEF rt_hw_interrupt_disable
<1>7. CASE rt_hw_interrupt_enable
  BY <1>7 DEF rt_hw_interrupt_enable
<1>8. CASE ThreadStep
  <2>1. cpu \in Thread /\ regs = [owner |-> cpu, step |-> steps[cpu]]
    BY <1>8 DEF ThreadStep
  <2>2. /\ steps' = [steps EXCEPT ![cpu] = steps[cpu] + 1]
        /\ regs' = [owner |-> cpu, step |-> steps[cpu] + 1]
    BY <1>8, <2>1 DEF ThreadStep, Context
  <2>3. steps' \in [Thread -> Nat] /\ regs' \in Context
    BY <2>1, <2>2 DEF Context
  <2> QED
    BY <1>8, <2>1, <2>2, <2>3 DEF ThreadStep
<1>9. CASE UNCHANGED vars
  BY <1>9 DEF vars
<1> QED
  BY <1>1, <1>2, <1>3, <1>4, <1>5, <1>6, <1>7, <1>8, <1>9 DEF Next

\* The inductive invariant holds in every reachable state.
LEMMA Inv == Spec => []IInv
  BY InitInv, NextInv, PTL DEF Spec

\* The request variables, the CPU and the saved contexts stay in their types;
\* a request that is pending always has a thread to switch to.
THEOREM SwitchTyped == Spec => []TypeOK
<1>1. IInv => TypeOK
  BY DEF IInv
<1> QED
  BY <1>1, Inv, PTL

\* For any number of threads, a thread always goes on in its own context: the
\* switches of context_rvde.s neither lose nor mix up a saved context.
THEOREM ContextsNeverMixed == Spec => []ContextsKept
<1>1. IInv => ContextsKept
  BY DEF IInv
<1> QED
  BY Inv, <1>1, PTL

\* However many rt_schedule calls are merged before PendSV runs, the request
\* leaves the thread in the CPU and enters the one chosen last.
THEOREM RequestsMerge == Spec => []RequestConsistent
<1>1. IInv => RequestConsistent
  BY DEF IInv
<1> QED
  BY Inv, <1>1, PTL

\* With interrupts on and no PendSV pending, the CPU runs rt_current_thread.
THEOREM CurrentThreadRuns == Spec => []RunsCurrent
<1>1. IInv => RunsCurrent
  BY DEF IInv, TypeOK, RequestConsistent, RunsCurrent
<1> QED
  BY Inv, <1>1, PTL
=============================================================================
