------------------------------ MODULE YieldLock ------------------------------
(***************************************************************************)
(* The lock of src/src/kernel/locks.c on the single CPU that the scheduler *)
(* hands from task to task.  The lock word has a held bit, a busy bit      *)
(* (somebody is waiting) and the last owner.  Every read of the word       *)
(* outside an interrupts-disabled section is a step of its own, and the    *)
(* timer may preempt a TASK_PREEMPT task between any two steps; a section  *)
(* between disable_interrupts and enable_interrupts is one step.           *)
(*                                                                         *)
(* pc[t]: "idle" (outside), "test" (reads held), "sect" (about to disable  *)
(* interrupts and look again), "busychk" (reads busy), "setbusy", "yield", *)
(* "cs" (lock_take has returned).                                          *)
(***************************************************************************)
EXTENDS Integers

CONSTANTS
  Tasks, NoTask,
  Preemptible,  \* tasks with TASK_PREEMPT
  Spinners,     \* tasks that call lock_take_spin instead of lock_take
  After,        \* After[t]: the tasks the scheduler may run after t
  Quantum       \* a task gets at least this many steps before the timer fires

ASSUME LockAssumption ==
  /\ NoTask \notin Tasks
  /\ Preemptible \subseteq Tasks
  /\ Spinners \subseteq Tasks
  /\ After \in [Tasks -> SUBSET Tasks]
  /\ Quantum \in Nat

VARIABLES
  word,     \* the lock: [held, busy, owner]
  pc,
  current,  \* the running task
  slice     \* steps of the running task since it was switched in, up to Quantum

vars == <<word, pc, current, slice>>

PCs == {"idle", "test", "sect", "busychk", "setbusy", "yield", "cs"}

Init ==
  /\ word = [held |-> FALSE, busy |-> FALSE, owner |-> NoTask]
  /\ pc = [t \in Tasks |-> "idle"]
  /\ current \in Tasks
  /\ slice = 0

------------------------------------------------------------------------------
At(t, label) == current = t /\ pc[t] = label
Goto(t, label) == pc' = [pc EXCEPT ![t] = label]
Stay(t) == /\ current' = t
           /\ slice' = IF slice < Quantum THEN slice + 1 ELSE slice
Switch(t) == /\ current' \in After[t]
             /\ slice' = 0

\* Where the loops go when the lock was not taken: lock_take yields first.
Again(t) == IF t \in Spinners THEN "test" ELSE "yield"

\* A task calls lock_take or lock_take_spin.
Call(t) ==
  /\ At(t, "idle")
  /\ Goto(t, "test")
  /\ Stay(t)
  /\ UNCHANGED word

\* The first IS_LOCK_HELD, with interrupts enabled.
Test(t) ==
  /\ At(t, "test")
  /\ Goto(t, IF word.held THEN "busychk" ELSE "sect")
  /\ Stay(t)
  /\ UNCHANGED word

\* Mutation: the last owner never gives way.
MustGiveWay_Never(t) == FALSE

\* lock_take gives way to the waiters if it was the last owner.
MustGiveWay(t) == t \notin Spinners /\ word.owner = t /\ word.busy

TakeWord(t) == word' = [held |-> TRUE, busy |-> FALSE, owner |-> t]

\* Mutation: the lock is not looked at again with interrupts disabled.
Take_NoSecondLook(t) ==
  /\ At(t, "sect")
  /\ ~MustGiveWay(t)
  /\ TakeWord(t)
  /\ Goto(t, "cs")
  /\ Stay(t)

\* disable_interrupts, IS_LOCK_HELD again: take the lock.
Take(t) ==
  /\ At(t, "sect")
  /\ ~word.held
  /\ ~MustGiveWay(t)
  /\ TakeWord(t)
  /\ Goto(t, "cs")
  /\ Stay(t)

\* The last owner forgets that it was and yields (task_yield_asserted).
GiveWay(t) ==
  /\ At(t, "sect")
  /\ ~word.held
  /\ MustGiveWay(t)
  /\ word' = [word EXCEPT !.owner = NoTask]
  /\ Goto(t, "test")
  /\ Switch(t)

\* Somebody took the lock between the two reads.
Missed(t) ==
  /\ At(t, "sect")
  /\ word.held
  /\ Goto(t, Again(t))
  /\ Stay(t)
  /\ UNCHANGED word

BusyCheck(t) ==
  /\ At(t, "busychk")
  /\ Goto(t, IF word.busy THEN Again(t) ELSE "setbusy")
  /\ Stay(t)
  /\ UNCHANGED word

SetBusy(t) ==
  /\ At(t, "setbusy")
  /\ word' = [word EXCEPT !.busy = TRUE]
  /\ Goto(t, Again(t))
  /\ Stay(t)

\* task_yield at the end of the loop of lock_take.
Yield(t) ==
  /\ At(t, "yield")
  /\ Goto(t, "test")
  /\ Switch(t)
  /\ UNCHANGED word

\* Mutation: the release leaves the held bit set.
Release_KeepsHeld(t) ==
  /\ At(t, "cs")
  /\ word' = [word EXCEPT !.owner = t]
  /\ Goto(t, "idle")
  /\ Stay(t)

\* lock_release.
Release(t) ==
  /\ At(t, "cs")
  /\ word' = [word EXCEPT !.held = FALSE, !.owner = t]
  /\ Goto(t, "idle")
  /\ Stay(t)

\* A task yields in code that has nothing to do with the lock, holding it or not.
YieldElsewhere(t) ==
  /\ At(t, "idle") \/ At(t, "cs")
  /\ Switch(t)
  /\ UNCHANGED <<word, pc>>

\* The timer FIQ: pongo_fiq_handler, task_yield_preemption.
Preempt(t) ==
  /\ current = t
  /\ t \in Preemptible
  /\ slice = Quantum \/ pc[t] = "idle"
  /\ Switch(t)
  /\ UNCHANGED <<word, pc>>

LockStep(t) ==
  \/ Test(t) \/ Take(t) \/ GiveWay(t) \/ Missed(t) \/ BusyCheck(t) \/ SetBusy(t)
  \/ Yield(t) \/ Release(t)

Next == \E t \in Tasks : Call(t) \/ LockStep(t) \/ YieldElsewhere(t) \/ Preempt(t)

Spec == Init /\ [][Next]_vars

\* The CPU executes the running task, the timer keeps firing, and a holder that
\* runs again and again (it may yield in between) reaches its lock_release.
FairSpec == /\ Spec
            /\ \A t \in Tasks : /\ WF_vars(LockStep(t))
                               /\ WF_vars(Preempt(t))
                               /\ SF_vars(Release(t))

------------------------------------------------------------------------------
(* Properties.                                                             *)

\* Type invariant of the lock word and the tasks.
TypeOK ==
  /\ word \in [held : BOOLEAN, busy : BOOLEAN, owner : Tasks \cup {NoTask}]
  /\ pc \in [Tasks -> PCs]
  /\ current \in Tasks
  /\ slice \in 0..Quantum

InCS == {t \in Tasks : pc[t] = "cs"}

\* Safety: two tasks never hold the lock, though held is first read with
\* interrupts enabled.
MutualExclusion == \A t, u \in InCS : t = u

\* Safety: a task in the critical section is the owner the lock word names,
\* and the word says held exactly while somebody is in it.
HolderRecorded ==
  /\ word.held <=> InCS # {}
  /\ \A t \in InCS : word.owner = t

\* Refinement: the lock implements the abstract lock, owned by the task whose
\* lock_take has returned.
Owner == IF \E t \in Tasks : pc[t] = "cs" THEN CHOOSE t \in Tasks : pc[t] = "cs" ELSE NoTask
Abstract == INSTANCE LockPromise WITH holder <- Owner
LockSpec == Abstract!Promise

\* Liveness: a task that asks for the lock gets it, although the last owner
\* may ask again at once: this is what the busy bit and the last owner are
\* kept for (the comment at the top of locks.c).
NoStarvation == \A t \in Tasks : pc[t] = "test" ~> pc[t] = "cs"
==============================================================================
