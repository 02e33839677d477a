-------------------------------- MODULE Sched --------------------------------
(***************************************************************************)
(* The scheduler of src/src/kernel/task.c and entry.c: the circular list   *)
(* of tasks that have ever been linked, the scheduler head that walks it,  *)
(* events with their queues of waiting tasks, preempting IRQ handlers, and *)
(* the life of a task from task_create to the release that frees it.       *)
(*                                                                         *)
(* There is one CPU.  Every operation below runs with interrupts disabled  *)
(* and is one step; an IRQ or the timer comes between two steps.  The loop *)
(* of event_fire is one step per waiting task, during which (fire.ev #     *)
(* NoEvent) nothing else happens.                                          *)
(***************************************************************************)
EXTENDS Integers, FiniteSets

CONSTANTS
  Tasks, NoTask,
  SchedTask,     \* sched_task: the idle loop of pongo_entry_cached
  Static,        \* tasks in static storage (TASK_REFCOUNT_GLOBAL)
  Handlers,      \* preempting IRQ handlers (TASK_IRQ_HANDLER | TASK_PREEMPT)
  CanExit,       \* tasks with TASK_CAN_EXIT
  Restarting,    \* tasks with TASK_RESTART_ON_EXIT
  Waiters,       \* tasks that call event_wait
  Events, NoEvent,
  Irqs, NoIrq,
  AckMasks,      \* TRUE: taking an IRQ masks it until unmask_interrupt (the Apple
                 \* controller); FALSE: it stays enabled (the GIC driver)
  GLOBAL,        \* TASK_REFCOUNT_GLOBAL
  MaxExtra,      \* bound: references on a task taken with task_reference
  MaxIrqs,       \* bound: IRQs taken
  MaxCreates     \* bound: tasks created

ASSUME SchedAssumption ==
  /\ NoTask \notin Tasks
  /\ SchedTask \in Static
  /\ Static \subseteq Tasks
  /\ Handlers \subseteq Tasks \ {SchedTask}
  /\ CanExit \subseteq Tasks \ (Handlers \cup {SchedTask})
  /\ Restarting \subseteq CanExit
  /\ Waiters \subseteq Tasks \ {SchedTask}
  /\ AckMasks \/ Waiters \cap Handlers = {}  \* of the handlers only usb_main waits
  /\ NoEvent \notin Events
  /\ NoIrq \notin Irqs
  /\ AckMasks \in BOOLEAN
  /\ MaxExtra \in Nat
  /\ MaxIrqs \in Nat
  /\ MaxCreates \in Nat
  /\ GLOBAL \in Nat
  /\ \A vecs \in SUBSET Irqs : Cardinality(vecs) + MaxExtra + 1 < GLOBAL

VARIABLES
  k,         \* the tasks: alive, refcount, flags, next, prev; and pongo_sched_head
  current,   \* task_current()
  irqvecs,   \* the handler of every IRQ
  irq_type,  \* the IRQ a handler was last entered for
  masked,    \* the IRQs the interrupt controller does not deliver
  task_head, \* the first waiter of every event
  eq_next,   \* the waiter after a task in the queue it is in
  fire,      \* the event_fire loop that is running: event and cursor
  idle,      \* [preempted, wfe]: has_been_preempted, and waiting in wfe
  irqs,      \* IRQs taken
  creates,   \* tasks created
  own,       \* ghost: tasks whose initial reference has not been given back
  extra,     \* ghost: references taken with task_reference
  waits,     \* ghost: the event a task waits for
  panic

irqVars == <<irqvecs, irq_type, masked>>
evVars == <<task_head, eq_next, waits>>
refVars == <<own, extra>>
bounds == <<irqs, creates>>
vars == <<k, current, irqvecs, irq_type, masked, task_head, eq_next, fire, idle,
          irqs, creates, own, extra, waits, panic>>

Flags == {"LINKED", "WAS_LINKED", "PLEASE_DEREF"}
NoFire == [ev |-> NoEvent, at |-> NoTask]

------------------------------------------------------------------------------
(* Operators on the tasks and the ring.                                    *)

SetFlag(s, t, f) == [s EXCEPT !.flags[t] = @ \cup {f}]
ClearFlags(s, t, fs) == [s EXCEPT !.flags[t] = @ \ fs]

\* Mutation: the back link of the task after the new one is forgotten.
RingInsert_NoBackLink(s, t) ==
  [s EXCEPT !.next = [u \in Tasks |-> IF u = s.head THEN t
                                      ELSE IF u = t THEN s.next[s.head] ELSE s.next[u]],
            !.prev[t] = s.head, !.head = t]

\* The insertion of task_link: behind the head, which moves to the new task.
RingInsert(s, t) ==
  LET h == s.head
  IN  IF h = NoTask
      THEN [s EXCEPT !.next[t] = t, !.prev[t] = t, !.head = t]
      ELSE [s EXCEPT
              !.next = [u \in Tasks |-> IF u = h THEN t ELSE IF u = t THEN s.next[h] ELSE s.next[u]],
              !.prev = [u \in Tasks |-> IF u = s.next[h] THEN t ELSE IF u = t THEN h ELSE s.prev[u]],
              !.head = t]

\* Mutation: a task that was linked before is not made runnable again.
TaskLink_OnlyOnce(s, t) ==
  IF "WAS_LINKED" \in s.flags[t] THEN s
  ELSE [RingInsert(s, t) EXCEPT !.flags[t] = @ \cup {"WAS_LINKED", "LINKED"}]

\* task_link.
TaskLink(s, t) ==
  IF "WAS_LINKED" \in s.flags[t] THEN SetFlag(s, t, "LINKED")
  ELSE [RingInsert(s, t) EXCEPT !.flags[t] = @ \cup {"WAS_LINKED", "LINKED"}]

\* task_unlink only clears the flag: the task stays in the ring.
TaskUnlink(s, t) == ClearFlags(s, t, {"LINKED"})

\* task_real_unlink.
TaskRealUnlink(s, t) ==
  IF "WAS_LINKED" \notin s.flags[t] THEN s
  ELSE LET nx == s.next[t]
           pv == s.prev[t]
       IN  [s EXCEPT
              !.head = IF @ # t THEN @ ELSE IF nx = t THEN NoTask ELSE nx,
              !.next = [u \in Tasks |-> IF u = pv THEN nx ELSE s.next[u]],
              !.prev = [u \in Tasks |-> IF u = nx THEN pv ELSE s.prev[u]],
              !.flags[t] = @ \ {"WAS_LINKED", "LINKED"}]

\* Mutation: nothing is counted.
TaskReference_Never(s, t) == s

TaskReference(s, t) == IF s.refcount[t] = GLOBAL THEN s ELSE [s EXCEPT !.refcount[t] = @ + 1]

\* The object is gone: nothing can be said of its fields.
Free(s, t) == [s EXCEPT !.alive = @ \ {t}, !.flags[t] = {},
                        !.next[t] = NoTask, !.prev[t] = NoTask]

\* task_release: the last reference takes the task out of the ring and frees it.
TaskRelease(s, t) ==
  IF s.refcount[t] = GLOBAL THEN s
  ELSE LET s1 == [s EXCEPT !.refcount[t] = @ - 1]
       IN  IF s.refcount[t] = 1 THEN Free(TaskRealUnlink(s1, t), t) ELSE s1

\* task_release panics before it frees the running task.
FreesCurrent(s, t) == t = current /\ s.refcount[t] = 1

------------------------------------------------------------------------------
(* pongo_entry_cached has linked sched_task and the main task.             *)
Init ==
  /\ k = [alive |-> {SchedTask}, refcount |-> [t \in Tasks |-> IF t \in Static THEN GLOBAL ELSE 0],
          flags |-> [t \in Tasks |-> IF t = SchedTask THEN {"LINKED", "WAS_LINKED"} ELSE {}],
          next |-> [t \in Tasks |-> IF t = SchedTask THEN t ELSE NoTask],
          prev |-> [t \in Tasks |-> IF t = SchedTask THEN t ELSE NoTask],
          head |-> SchedTask]
  /\ current = SchedTask
  /\ irqvecs = [i \in Irqs |-> NoTask]
  /\ irq_type = [t \in Tasks |-> NoIrq]
  /\ masked = Irqs
  /\ task_head = [e \in Events |-> NoTask]
  /\ eq_next = [t \in Tasks |-> NoTask]
  /\ fire = NoFire
  /\ idle = [preempted |-> FALSE, wfe |-> FALSE]
  /\ irqs = 0
  /\ creates = 0
  /\ own = {}
  /\ extra = [t \in Tasks |-> 0]
  /\ waits = [t \in Tasks |-> NoEvent]
  /\ panic = "none"

Up == panic = "none" /\ fire = NoFire
\* The task t is running its own code.
Runs(t) == Up /\ current = t /\ t # SchedTask

Panic(reason) ==
  /\ panic' = reason
  /\ UNCHANGED <<k, current, irqVars, evVars, fire, idle, bounds, refVars>>

\* Mutation: the head stays on sched_task.
LoopAround_Stays ==
  /\ Up /\ current = SchedTask /\ ~idle.wfe
  /\ k.head = SchedTask
  /\ idle' = [preempted |-> FALSE, wfe |-> ~idle.preempted]
  /\ UNCHANGED <<k, current, irqVars, evVars, fire, bounds, refVars, panic>>

(* pongo_sched_tick and the part of the idle loop that looks at its result. *)
\* The head is back at sched_task: the loop sleeps in wfe unless somebody was
\* preempted since it was last here.
LoopAround ==
  /\ Up /\ current = SchedTask /\ ~idle.wfe
  /\ k.head \in {SchedTask, NoTask}
  /\ IF k.head = NoTask
     THEN Panic("no tasks to schedule")
     ELSE /\ k' = [k EXCEPT !.head = k.next[SchedTask]]
          /\ idle' = [preempted |-> FALSE, wfe |-> ~idle.preempted]
          /\ UNCHANGED <<current, irqVars, evVars, fire, bounds, refVars, panic>>

TickTask(t) ==
  /\ Up /\ current = SchedTask /\ ~idle.wfe
  /\ k.head = t /\ t # SchedTask

Advanced(t) == [k EXCEPT !.head = k.next[t]]

\* Mutation: TASK_LINKED is tested before TASK_PLEASE_DEREF.
Reap_IfLinked(t) ==
  /\ TickTask(t)
  /\ {"LINKED", "PLEASE_DEREF"} \subseteq k.flags[t]
  /\ k' = TaskRelease(ClearFlags(Advanced(t), t, {"PLEASE_DEREF"}), t)
  /\ own' = own \ {t}
  /\ UNCHANGED <<current, irqVars, evVars, fire, idle, bounds, extra, panic>>

\* The task at the head has exited: drop its own reference.
Reap(t) ==
  /\ TickTask(t)
  /\ "PLEASE_DEREF" \in k.flags[t]
  /\ k' = TaskRelease(ClearFlags(Advanced(t), t, {"PLEASE_DEREF"}), t)
  /\ own' = own \ {t}
  /\ UNCHANGED <<current, irqVars, evVars, fire, idle, bounds, extra, panic>>

SwitchTo(t) ==
  /\ TickTask(t)
  /\ "PLEASE_DEREF" \notin k.flags[t]
  /\ "LINKED" \in k.flags[t]
  /\ k' = Advanced(t)
  /\ current' = t
  /\ UNCHANGED <<irqVars, evVars, fire, idle, bounds, refVars, panic>>

Skip(t) ==
  /\ TickTask(t)
  /\ k.flags[t] \cap {"PLEASE_DEREF", "LINKED"} = {}
  /\ k' = Advanced(t)
  /\ UNCHANGED <<current, irqVars, evVars, fire, idle, bounds, refVars, panic>>

(* The timer: fiq_exc, pongo_fiq_handler and task_yield_preemption.  Back in *)
(* sched_task it only ends the wfe.                                          *)
Timer ==
  /\ Up
  /\ IF current = SchedTask
     THEN idle.wfe /\ idle' = [idle EXCEPT !.wfe = FALSE]
     ELSE idle' = [idle EXCEPT !.preempted = TRUE]
  /\ current' = SchedTask
  /\ UNCHANGED <<k, irqVars, evVars, fire, bounds, refVars, panic>>

(* irq_exc, task_irq_dispatch and task_switch_irq for a preempting handler: *)
(* it is linked and moved to the head, and runs when the scheduler runs     *)
(* next.  The return from the exception ends a wfe.                         *)
Irq(i) ==
  /\ Up
  /\ i \notin masked
  /\ irqs < MaxIrqs
  /\ IF irqvecs[i] = NoTask
     THEN Panic("task_irq_dispatch")
     ELSE LET h  == irqvecs[i]
              k1 == TaskLink(k, h)
          IN  IF "LINKED" \notin k1.flags[h]
              THEN Panic("task was not linked but was asked to move to head")
              ELSE /\ k' = [k1 EXCEPT !.head = h]
                   /\ irq_type' = [irq_type EXCEPT ![h] = i]
                   /\ masked' = IF AckMasks THEN masked \cup {i} ELSE masked
                   /\ irqs' = irqs + 1
                   /\ idle' = [idle EXCEPT !.wfe = FALSE]
                   /\ UNCHANGED <<current, irqvecs, evVars, fire, creates, refVars, panic>>

------------------------------------------------------------------------------
(* What a running task does.                                               *)

\* task_yield.
Yield(t) ==
  /\ Runs(t)
  /\ current' = SchedTask
  /\ UNCHANGED <<k, irqVars, evVars, fire, idle, bounds, refVars, panic>>

Created(u) == [k EXCEPT !.alive = @ \cup {u}, !.refcount[u] = 1]

\* task_create: the new task is linked at once.
TaskCreate(t, u) ==
  /\ Runs(t)
  /\ creates < MaxCreates
  /\ u \notin k.alive \cup Static \cup Handlers
  /\ k' = TaskLink(Created(u), u)
  /\ own' = own \cup {u}
  /\ creates' = creates + 1
  /\ UNCHANGED <<current, irqVars, evVars, fire, idle, irqs, extra, panic>>

\* task_create_extended without TASK_LINKED: proc_create_task, serial_init.
TaskCreateUnlinked(t, u) ==
  /\ Runs(t)
  /\ creates < MaxCreates
  /\ u \notin k.alive \cup Static
  /\ k' = Created(u)
  /\ own' = own \cup {u}
  /\ creates' = creates + 1
  /\ UNCHANGED <<current, irqVars, evVars, fire, idle, irqs, extra, panic>>

\* The creator of a task links it later, as spawn_cmd does.
LinkCreated(t, u) ==
  /\ Runs(t)
  /\ u \in k.alive \ (Static \cup Handlers)
  /\ "WAS_LINKED" \notin k.flags[u]
  /\ k' = TaskLink(k, u)
  /\ UNCHANGED <<current, irqVars, evVars, fire, idle, bounds, refVars, panic>>

\* task_register of a task in static storage, which may be running already:
\* everything but WAS_LINKED is forgotten.
TaskRegister(t, u) ==
  /\ Up /\ current = t /\ u # t
  /\ t # SchedTask \/ k.alive = {SchedTask}
  /\ u \in Static \ (Handlers \cup {SchedTask})
  /\ u \in Waiters => u \notin k.alive
  /\ k' = TaskLink([k EXCEPT !.alive = @ \cup {u},
                             !.flags[u] = @ \cap {"WAS_LINKED"}], u)
  /\ UNCHANGED <<current, irqVars, evVars, fire, idle, bounds, refVars, panic>>

\* A handler that has been entered and has not left: runnable, or waiting.
Active(h) == "LINKED" \in k.flags[h] \/ waits[h] # NoEvent

\* Mutation: the old handler keeps its reference.
BindIrq_KeepsOld(t, u, i) ==
  /\ Runs(t)
  /\ u \in Handlers /\ u \in k.alive \cup Static
  /\ irq_type[u] = NoIrq /\ \A j \in Irqs : irqvecs[j] # u
  /\ irqvecs[i] # NoTask => ~Active(irqvecs[i])
  /\ k' = TaskReference([k EXCEPT !.alive = @ \cup {u}], u)
  /\ irqvecs' = [irqvecs EXCEPT ![i] = u]
  /\ masked' = masked \ {i}
  /\ UNCHANGED <<current, irq_type, evVars, fire, idle, bounds, refVars, panic>>

\* register_irq_handler and unmask_interrupt, as task_bind_to_irq and
\* task_register_preempt_irq call them.  A handler serves one IRQ and is bound
\* before it is first entered; an earlier handler of the IRQ is released.  No
\* driver of the source replaces a handler in use, so the earlier one is idle.
BindIrq(t, u, i) ==
  /\ Runs(t)
  /\ u \in Handlers /\ u \in k.alive \cup Static
  /\ irq_type[u] = NoIrq /\ \A j \in Irqs : irqvecs[j] # u
  /\ irqvecs[i] # NoTask => ~Active(irqvecs[i])
  /\ LET old == irqvecs[i]
         k1  == [k EXCEPT !.alive = @ \cup {u}]
     IN  IF old # NoTask /\ FreesCurrent(k1, old)
         THEN Panic("trying to free the current task")
         ELSE /\ k' = TaskReference(IF old = NoTask THEN k1 ELSE TaskRelease(k1, old), u)
              /\ irqvecs' = [irqvecs EXCEPT ![i] = u]
              /\ masked' = masked \ {i}
              /\ UNCHANGED <<current, irq_type, evVars, fire, idle, bounds, refVars, panic>>

\* task_reference and task_release by whoever keeps a pointer to a task.
Reference(t, u) ==
  /\ Runs(t)
  /\ u \in own \/ extra[u] > 0
  /\ extra[u] < MaxExtra
  /\ k' = TaskReference(k, u)
  /\ extra' = [extra EXCEPT ![u] = @ + 1]
  /\ UNCHANGED <<current, irqVars, evVars, fire, idle, bounds, own, panic>>

Release(t, u) ==
  /\ Runs(t)
  /\ extra[u] > 0
  /\ IF FreesCurrent(k, u)
     THEN Panic("trying to free the current task")
     ELSE /\ k' = TaskRelease(k, u)
          /\ extra' = [extra EXCEPT ![u] = @ - 1]
          /\ UNCHANGED <<current, irqVars, evVars, fire, idle, bounds, own, panic>>

\* event_wait: enter the queue, unlink, give up the CPU.
EventWait(t, e) ==
  /\ Runs(t)
  /\ t \in Waiters
  /\ eq_next' = [eq_next EXCEPT ![t] = task_head[e]]
  /\ task_head' = [task_head EXCEPT ![e] = t]
  /\ waits' = [waits EXCEPT ![t] = e]
  /\ k' = TaskUnlink(k, t)
  /\ current' = SchedTask
  /\ UNCHANGED <<irqVars, fire, idle, bounds, refVars, panic>>

\* event_fire: link every task of the queue, then empty it.
EventFire(t, e) ==
  /\ Runs(t)
  /\ fire' = [ev |-> e, at |-> task_head[e]]
  /\ UNCHANGED <<k, current, irqVars, evVars, idle, bounds, refVars, panic>>

FireStep ==
  /\ panic = "none" /\ fire.at # NoTask
  /\ k' = TaskLink(k, fire.at)
  /\ waits' = [waits EXCEPT ![fire.at] = NoEvent]
  /\ fire' = [fire EXCEPT !.at = eq_next[fire.at]]
  /\ UNCHANGED <<current, irqVars, task_head, eq_next, idle, bounds, refVars, panic>>

\* Mutation: the queue is not emptied.
FireDone_KeepsQueue ==
  /\ panic = "none" /\ fire # NoFire /\ fire.at = NoTask
  /\ fire' = NoFire
  /\ UNCHANGED <<k, current, irqVars, evVars, idle, bounds, refVars, panic>>

FireDone ==
  /\ panic = "none" /\ fire # NoFire /\ fire.at = NoTask
  /\ task_head' = [task_head EXCEPT ![fire.ev] = NoTask]
  /\ fire' = NoFire
  /\ UNCHANGED <<k, current, irqVars, eq_next, waits, idle, bounds, refVars, panic>>

\* Mutation: the IRQ is not re-armed.
ExitIrq_StaysMasked(t) ==
  /\ Runs(t)
  /\ t \in Handlers
  /\ k' = TaskUnlink(k, t)
  /\ current' = SchedTask
  /\ UNCHANGED <<irqVars, evVars, fire, idle, bounds, refVars, panic>>

\* task_exit_irq: unlink and re-arm the IRQ the handler was entered for.
ExitIrq(t) ==
  /\ Runs(t)
  /\ t \in Handlers
  /\ IF "LINKED" \notin k.flags[t]
     THEN Panic("task_exit_irq on unlinked preempt irq handler?")
     ELSE /\ k' = TaskUnlink(k, t)
          /\ masked' = masked \ {irq_type[t]}
          /\ current' = SchedTask
          /\ UNCHANGED <<irqvecs, irq_type, evVars, fire, idle, bounds, refVars, panic>>

\* task_exit, also the end of task_crash.
Exit(t) ==
  /\ Runs(t)
  /\ IF t \in Handlers THEN Panic("irq handler exited!")
     ELSE IF t \notin CanExit THEN Panic("required task exited!")
     ELSE /\ k' = IF t \in Restarting THEN TaskLink(TaskUnlink(k, t), t)
                  ELSE SetFlag(TaskUnlink(k, t), t, "PLEASE_DEREF")
          /\ current' = SchedTask
          /\ UNCHANGED <<irqVars, evVars, fire, idle, bounds, refVars, panic>>

Tick == LoopAround \/ \E t \in Tasks : Reap(t) \/ SwitchTo(t) \/ Skip(t)

TaskStep(t) ==
  \/ Yield(t) \/ Exit(t) \/ ExitIrq(t)
  \/ \E e \in Events : EventWait(t, e) \/ EventFire(t, e)
  \/ \E u \in Tasks : \/ TaskCreate(t, u) \/ TaskCreateUnlinked(t, u) \/ LinkCreated(t, u)
                      \/ TaskRegister(t, u) \/ Reference(t, u) \/ Release(t, u)
                      \/ \E i \in Irqs : BindIrq(t, u, i)

Next == \/ Tick \/ Timer \/ FireStep \/ FireDone
        \/ \E i \in Irqs : Irq(i)
        \/ \E t \in Tasks : TaskStep(t)

Spec == Init /\ [][Next]_vars

\* The CPU runs the idle loop and the loop of event_fire, and the timer keeps
\* firing: its FIQ stays pending while interrupts are disabled and is taken when
\* they are enabled again.
FairSpec == Spec /\ WF_vars(Tick) /\ SF_vars(Timer) /\ WF_vars(FireStep \/ FireDone)

------------------------------------------------------------------------------
(* Properties.                                                             *)

Ring == {t \in Tasks : "WAS_LINKED" \in k.flags[t]}

\* Type invariant of the scheduler state.
TypeOK ==
  /\ k \in [alive : SUBSET Tasks, refcount : [Tasks -> 0..GLOBAL],
            flags : [Tasks -> SUBSET Flags], next : [Tasks -> Tasks \cup {NoTask}],
            prev : [Tasks -> Tasks \cup {NoTask}], head : Tasks \cup {NoTask}]
  /\ current \in Tasks
  /\ irqvecs \in [Irqs -> Tasks \cup {NoTask}]
  /\ irq_type \in [Tasks -> Irqs \cup {NoIrq}]
  /\ masked \subseteq Irqs
  /\ task_head \in [Events -> Tasks \cup {NoTask}]
  /\ eq_next \in [Tasks -> Tasks \cup {NoTask}]
  /\ fire \in [ev : Events \cup {NoEvent}, at : Tasks \cup {NoTask}]
  /\ idle \in [preempted : BOOLEAN, wfe : BOOLEAN]
  /\ irqs \in 0..MaxIrqs
  /\ creates \in 0..MaxCreates
  /\ own \subseteq Tasks
  /\ extra \in [Tasks -> 0..MaxExtra]
  /\ waits \in [Tasks -> Events \cup {NoEvent}]

\* No part of the tasks of r, other than all of them, is closed under next.
OneRing(r, next) ==
  \A part \in SUBSET r : part # {} /\ (\A t \in part : next[t] \in part) => part = r

\* Safety: next and prev of the tasks that were ever linked are inverse to each
\* other and stay among them, whatever is inserted while the head is somewhere
\* else and whatever is freed; sched_task never leaves and the head is one of
\* them.  It is one ring: from wherever the head is, pongo_sched_tick meets
\* every task that it has to consider.
RingOK ==
  /\ TypeOK
  /\ SchedTask \in Ring
  /\ k.head \in Ring
  /\ Ring \subseteq k.alive
  /\ \A t \in Ring : /\ k.next[t] \in Ring /\ k.prev[k.next[t]] = t
                     /\ k.prev[t] \in Ring /\ k.next[k.prev[t]] = t
  /\ OneRing(Ring, k.next)

Waiting(e) == {t \in Tasks : waits[t] = e}

\* The queue starts at first and has exactly the members w, none of them twice:
\* no link leads back to the first or to a member that another link leads to,
\* and no part of w that holds the first, other than all of w, is closed under
\* next.
QueueOf(first, w, next) ==
  /\ first \in w \cup {NoTask}
  /\ first = NoTask => w = {}
  /\ \A t \in w : next[t] \in (w \cup {NoTask}) \ ({first} \ {NoTask})
  /\ \A t, u \in w : next[t] = next[u] /\ next[t] # NoTask => t = u
  /\ \A part \in SUBSET w :
       first \in part /\ (\A t \in part : next[t] \in part \cup {NoTask}) => part = w

\* Safety: every queue ends, and holds exactly the tasks that wait for the
\* event, so event_fire (with interrupts disabled) terminates, wakes everybody
\* and nobody twice; a task that waits is not runnable and not running, so it
\* cannot enter a queue again.
QueuesExact ==
  /\ fire = NoFire => \A e \in Events : QueueOf(task_head[e], Waiting(e), eq_next)
  /\ \A t \in Tasks : waits[t] # NoEvent => "LINKED" \notin k.flags[t] /\ t # current

\* Safety: no pointer the kernel follows leads to a freed task: the running
\* task, the head of the ring, the handlers, the event_fire cursor, and the
\* queues of the events with the links of everybody in them.
NoDangling ==
  {current, k.head, fire.at} \cup {irqvecs[i] : i \in Irqs}
    \cup {t \in Tasks : waits[t] # NoEvent} \cup {eq_next[t] : t \in {u \in Tasks : waits[u] # NoEvent}}
    \cup (IF fire = NoFire THEN {task_head[e] : e \in Events} ELSE {})
    \subseteq k.alive \cup {NoTask}

\* Safety: the count of a task is the number of irqvecs entries that name it,
\* of references taken with task_reference, and its own until it has exited.
RefsExact ==
  \A t \in k.alive \ Static :
    k.refcount[t] = Cardinality({i \in Irqs : irqvecs[i] = t}) + extra[t]
                    + Cardinality({t} \cap own)

\* Safety: an IRQ whose handler is neither runnable nor waiting inside its
\* handler is deliverable; otherwise the device would be dead.
IdleHandlersArmed ==
  \A i \in Irqs : LET h == irqvecs[i] IN
    (h # NoTask /\ i \in masked) => Active(h)

\* Safety: the only panics are the two that punish a task for exiting; the
\* consistency panics of the scheduler, of task_release and of task_exit_irq
\* are unreachable.
OnlyExitPanics == panic \in {"none", "irq handler exited!", "required task exited!"}

\* Liveness: once IRQs and the creation of tasks have come to an end (each
\* moves the head past tasks whose turn it was), a runnable task gets the CPU,
\* although the loop sleeps in wfe with runnable tasks in the ring.
RunnableRuns ==
  \A t \in Tasks \ {SchedTask} :
    ("LINKED" \in k.flags[t]) ~>
      (current = t \/ "LINKED" \notin k.flags[t] \/ panic # "none")

\* Liveness: a task that has exited is reaped.
ExitedReaped ==
  \A t \in Tasks : ("PLEASE_DEREF" \in k.flags[t]) ~>
                     ("PLEASE_DEREF" \notin k.flags[t] \/ panic # "none")
==============================================================================
