--------------------------- MODULE YieldLockProofs ---------------------------
(***************************************************************************)
(* Proofs about the lock of locks.c (module YieldLock), for every set of   *)
(* tasks, every scheduling order and every mix of lock_take and            *)
(* lock_take_spin: preemption anywhere outside the sections with           *)
(* interrupts disabled does not let two tasks in.                          *)
(***************************************************************************)
EXTENDS YieldLock, TLAPS

\* The inductive invariant: what the word says about the holder is true.
IInv == TypeOK /\ HolderRecorded

\* A lock word of zero: nobody holds the lock and nobody believes it does.
LEMMA InitInv == Init => IInv
BY LockAssumption DEF Init, IInv, TypeOK, HolderRecorded, InCS, PCs

\* Every step keeps the word and the tasks typed.
LEMMA StepType ==
  ASSUME TypeOK, [Next]_vars
  PROVE  TypeOK'
<1> USE LockAssumption DEF TypeOK
<1>1. ASSUME NEW t \in Tasks, Call(t)
      PROVE  TypeOK'
  BY <1>1 DEF Call, At, Goto, Stay, PCs
<1>2. ASSUME NEW t \in Tasks, LockStep(t)
      PROVE  TypeOK'
  <2>1. CASE Test(t) \/ Missed(t) \/ BusyCheck(t)
    BY <2>1 DEF Test, Missed, BusyCheck, Again, Goto, Stay, PCs
  <2>2. CASE Take(t)
    BY <2>2 DEF Take, TakeWord, Goto, Stay, PCs
  <2>3. CASE GiveWay(t)
    <3>1. word' \in [held : BOOLEAN, busy : BOOLEAN, owner : Tasks \cup {NoTask}]
      BY <2>3 DEF GiveWay
    <3> QED
      BY <2>3, <3>1 DEF GiveWay, Goto, Switch, PCs
  <2>4. CASE SetBusy(t)
    <3>1. word' \in [held : BOOLEAN, busy : BOOLEAN, owner : Tasks \cup {NoTask}]
      BY <2>4 DEF SetBusy
    <3> QED
      BY <2>4, <3>1 DEF SetBusy, Again, Goto, Stay, PCs
  <2>5. CASE Yield(t)
    BY <2>5 DEF Yield, Goto, Switch, PCs
  <2>6. CASE Release(t)
    <3>1. word' \in [held : BOOLEAN, busy : BOOLEAN, owner : Tasks \cup {NoTask}]
      BY <2>6 DEF Release
    <3> QED
      BY <2>6, <3>1 DEF Release, Goto, Stay, PCs
  <2> QED
    BY <1>2, <2>1, <2>2, <2>3, <2>4, <2>5, <2>6 DEF LockStep
<1>3. ASSUME NEW t \in Tasks, YieldElsewhere(t) \/ Preempt(t)
      PROVE  TypeOK'
  BY <1>3 DEF YieldElsewhere, Preempt, At, Switch
<1>4. CASE UNCHANGED vars
  BY <1>4 DEF vars
<1> QED
  BY <1>1, <1>2, <1>3, <1>4 DEF Next

\* A step that neither enters nor leaves the critical section.
LEMMA OutsideInv ==
  ASSUME HolderRecorded, InCS' = InCS, word'.held = word.held,
         word'.owner = word.owner \/ InCS = {}
  PROVE  HolderRecorded'
BY DEF HolderRecorded

\* The invariant is inductive.
LEMMA StepInv ==
  ASSUME IInv, [Next]_vars
  PROVE  IInv'
<1>1. TypeOK /\ HolderRecorded /\ TypeOK'
  BY StepType DEF IInv
<1>2. ASSUME NEW t \in Tasks, Take(t)
      PROVE  HolderRecorded'
  <2>1. InCS = {} /\ word' = [held |-> TRUE, busy |-> FALSE, owner |-> t]
    BY <1>1, <1>2 DEF Take, TakeWord, HolderRecorded
  <2>2. InCS' = {t}
    BY <1>1, <1>2, <2>1 DEF Take, Goto, InCS, TypeOK
  <2> QED
    BY <2>1, <2>2 DEF HolderRecorded
<1>3. ASSUME NEW t \in Tasks, Release(t)
      PROVE  HolderRecorded'
  <2>1. t \in InCS /\ word'.held = FALSE
    BY <1>1, <1>3 DEF Release, At, InCS, TypeOK
  <2>2. InCS = {t}
    BY <1>1, <2>1 DEF HolderRecorded
  <2>3. InCS' = {}
    BY <1>1, <1>3, <2>2 DEF Release, Goto, InCS, TypeOK
  <2> QED
    BY <2>1, <2>3 DEF HolderRecorded
<1>4. ASSUME NEW t \in Tasks, GiveWay(t)
      PROVE  HolderRecorded'
  <2>1. InCS = {} /\ word'.held = word.held
    BY <1>1, <1>4 DEF GiveWay, HolderRecorded, TypeOK
  <2>2. InCS' = InCS
    BY <1>1, <1>4 DEF GiveWay, At, Goto, InCS, TypeOK
  <2> QED
    BY <1>1, <2>1, <2>2, OutsideInv
<1>5. ASSUME NEW t \in Tasks,
             \/ Call(t) \/ Test(t) \/ Missed(t) \/ BusyCheck(t) \/ SetBusy(t) \/ Yield(t)
             \/ YieldElsewhere(t) \/ Preempt(t)
      PROVE  HolderRecorded'
  <2>1. word'.held = word.held /\ word'.owner = word.owner
    BY <1>1, <1>5 DEF Call, Test, Missed, BusyCheck, SetBusy, Yield, YieldElsewhere, Preempt,
         TypeOK
  <2>2. InCS' = InCS
    BY <1>1, <1>5 DEF Call, Test, Missed, BusyCheck, SetBusy, Yield, YieldElsewhere, Preempt,
         At, Goto, Again, InCS, TypeOK
  <2> QED
    BY <1>1, <2>1, <2>2, OutsideInv
<1>6. ASSUME UNCHANGED vars
      PROVE  HolderRecorded'
  BY <1>1, <1>6 DEF vars, HolderRecorded, InCS
<1>7. HolderRecorded'
  BY <1>2, <1>3, <1>4, <1>5, <1>6 DEF Next, LockStep
<1> QED
  BY <1>1, <1>7 DEF IInv

\* Type correctness, and the lock word always tells the truth about its holder.
THEOREM WordCorrect == Spec => []IInv
BY InitInv, StepInv, PTL DEF Spec

\* The lock word names the one task whose lock_take has returned.
THEOREM HolderIsRecorded == Spec => []HolderRecorded
<1>1. IInv => HolderRecorded
  BY DEF IInv
<1> QED
  BY <1>1, WordCorrect, PTL

\* Two tasks never hold the lock at the same time.
THEOREM Exclusion == Spec => []MutualExclusion
<1>1. IInv => MutualExclusion
  BY DEF IInv, HolderRecorded, MutualExclusion
<1> QED
  BY <1>1, WordCorrect, PTL

------------------------------------------------------------------------------
(* Refinement of the abstract lock.                                        *)

\* The abstract owner is the task in the critical section.
LEMMA OwnerIs ==
  ASSUME HolderRecorded
  PROVE  /\ InCS = {} => Owner = NoTask
         /\ \A t : InCS = {t} => Owner = t
         /\ InCS = {} \/ \E t \in Tasks : InCS = {t}
<1>1. InCS = {} => Owner = NoTask
  BY DEF InCS, Owner
<1>2. ASSUME NEW t, InCS = {t}
      PROVE  Owner = t
  <2>1. t \in Tasks /\ pc[t] = "cs" /\ \A u \in Tasks : pc[u] = "cs" => u = t
    BY <1>2 DEF InCS
  <2> QED
    BY <2>1 DEF Owner
<1>3. InCS = {} \/ \E t \in Tasks : InCS = {t}
  BY DEF HolderRecorded, InCS
<1> QED
  BY <1>1, <1>2, <1>3

\* lock_take returning and lock_release implement the two actions of the
\* abstract lock, and every other step leaves its owner alone.
THEOREM Refinement == Spec => LockSpec
<1>1. Init => Owner = NoTask
  BY DEF Init, Owner
<1>2. IInv /\ IInv' /\ [Next]_vars => [Abstract!Taken \/ Abstract!GivenBack]_Owner
  <2> SUFFICES ASSUME IInv, IInv', [Next]_vars
               PROVE  [Abstract!Taken \/ Abstract!GivenBack]_Owner
    OBVIOUS
  <2>0. HolderRecorded /\ HolderRecorded' /\ TypeOK
    BY DEF IInv
  <2>a. /\ InCS' = {} => Owner' = NoTask
        /\ \A t : InCS' = {t} => Owner' = t
    <3>1. InCS' = {} => Owner' = NoTask
      BY DEF InCS, Owner
    <3>2. ASSUME NEW t, InCS' = {t}
          PROVE  Owner' = t
      <4>1. t \in Tasks /\ pc'[t] = "cs" /\ \A u \in Tasks : pc'[u] = "cs" => u = t
        BY <3>2 DEF InCS
      <4> QED
        BY <4>1 DEF Owner
    <3> QED
      BY <3>1, <3>2
  <2>1. ASSUME NEW t \in Tasks, Take(t)
        PROVE  Abstract!Taken
    <3>1. InCS = {}
      BY <2>0, <2>1 DEF Take, HolderRecorded
    <3>2. InCS' = {t}
      BY <2>0, <2>1, <3>1 DEF Take, Goto, InCS, TypeOK
    <3> QED
      BY <2>0, <2>a, <3>1, <3>2, OwnerIs DEF Abstract!Taken
  <2>2. ASSUME NEW t \in Tasks, Release(t)
        PROVE  Abstract!GivenBack
    <3>1. InCS = {t}
      BY <2>0, <2>2 DEF Release, At, InCS, HolderRecorded
    <3>2. InCS' = {}
      BY <2>0, <2>2, <3>1 DEF Release, Goto, InCS, TypeOK
    <3> QED
      BY <2>0, <2>a, <3>1, <3>2, OwnerIs DEF Abstract!GivenBack
  <2>3. ASSUME InCS' = InCS
        PROVE  Owner' = Owner
    BY <2>0, <2>a, <2>3, OwnerIs
  <2>4. ASSUME NEW t \in Tasks,
               \/ Call(t) \/ Test(t) \/ Missed(t) \/ BusyCheck(t) \/ SetBusy(t) \/ Yield(t)
               \/ GiveWay(t) \/ YieldElsewhere(t) \/ Preempt(t)
        PROVE  InCS' = InCS
    BY <2>0, <2>4 DEF Call, Test, Missed, BusyCheck, SetBusy, Yield, GiveWay,
         YieldElsewhere, Preempt, At, Goto, Again, InCS, TypeOK
  <2>5. CASE UNCHANGED vars
    BY <2>3, <2>5 DEF vars, InCS
  <2> QED
    BY <2>1, <2>2, <2>3, <2>4, <2>5 DEF Next, LockStep
<1> QED
  BY <1>1, <1>2, WordCorrect, PTL DEF Spec, LockSpec, Abstract!Promise
==============================================================================
