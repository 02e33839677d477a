----------------------------- MODULE SchedProofs ------------------------------
(***************************************************************************)
(* The scheduler for every set of tasks, events and IRQs, on either        *)
(* interrupt controller, and any number of IRQs and creations: the ring,   *)
(* the references, the pointers, the masks and the panics.                 *)
(*                                                                         *)
(* None of the properties is inductive alone.  That the running task is    *)
(* never freed rests on its own reference, which it has while it is linked *)
(* (Lives); that event_fire meets only living tasks rests on the shape of  *)
(* the queues (Queues), which an IRQ could break by linking a handler that *)
(* waits, were its IRQ not masked (Vectors).                               *)
(***************************************************************************)
EXTENDS Sched, FiniteSetTheorems, TLAPS

\* The tasks as a record of their fields.
KType(s) ==
  s \in [alive : SUBSET Tasks, refcount : [Tasks -> 0..GLOBAL],
         flags : [Tasks -> SUBSET Flags], next : [Tasks -> Tasks \cup {NoTask}],
         prev : [Tasks -> Tasks \cup {NoTask}], head : Tasks \cup {NoTask}]

RingOf(s) == {t \in Tasks : "WAS_LINKED" \in s.flags[t]}

\* next and prev are inverse to each other on the tasks of r.
Links(r, next, prev) ==
  \A t \in r : /\ next[t] \in r /\ prev[next[t]] = t
               /\ prev[t] \in r /\ next[prev[t]] = t

\* RingOK without the types, for any record of tasks; a task that is not alive
\* has no flags.
GoodRing(s) ==
  /\ SchedTask \in RingOf(s)
  /\ s.head \in RingOf(s)
  /\ \A t \in Tasks : s.flags[t] # {} => t \in s.alive
  /\ Links(RingOf(s), s.next, s.prev)
  /\ OneRing(RingOf(s), s.next)

\* References: who holds one of a task, and which tasks have their own.
HasVec(t) == \E i \in Irqs : irqvecs[i] = t
B2N(b) == IF b THEN 1 ELSE 0
Counts ==
  /\ \A t \in Static : k.refcount[t] = GLOBAL
  /\ \A t \in k.alive \ Static :
       k.refcount[t] = B2N(HasVec(t)) + extra[t] + B2N(t \in own)
  /\ own \subseteq k.alive \ Static
  /\ \A t \in Tasks : extra[t] > 0 => t \in k.alive \ Static

\* A task that can run, or will, has its own reference.
Owned(t) == t \in own \cup Static
Lives ==
  /\ current \in k.alive
  /\ current # SchedTask => "LINKED" \in k.flags[current]
  /\ \A t \in k.alive : \/ "WAS_LINKED" \notin k.flags[t]
                        \/ "LINKED" \in k.flags[t]
                        \/ "PLEASE_DEREF" \in k.flags[t]
                        \/ waits[t] # NoEvent
                        \/ t \in Handlers
                        => Owned(t)
  /\ \A t \in Tasks :
       /\ "LINKED" \in k.flags[t] => "WAS_LINKED" \in k.flags[t]
       /\ "PLEASE_DEREF" \in k.flags[t] => /\ "LINKED" \notin k.flags[t]
                                           /\ "WAS_LINKED" \in k.flags[t]
                                           /\ waits[t] = NoEvent
                                           /\ t \in CanExit
       /\ waits[t] # NoEvent => /\ t \in k.alive /\ t \in Waiters /\ t # current
                                /\ "WAS_LINKED" \in k.flags[t]
                                /\ "LINKED" \notin k.flags[t]

\* The handlers: each serves one IRQ, and its IRQ is masked while it is active
\* (on a controller that masks) and only then.
Vectors ==
  /\ \A i \in Irqs : irqvecs[i] # NoTask => irqvecs[i] \in k.alive \cap Handlers
  /\ \A i, j \in Irqs : irqvecs[i] = irqvecs[j] /\ irqvecs[i] # NoTask => i = j
  /\ \A i \in Irqs : irqvecs[i] = NoTask => i \in masked
  /\ \A h \in Handlers : Active(h) => /\ irq_type[h] \in Irqs
                                      /\ irqvecs[irq_type[h]] = h
                                      /\ AckMasks => irq_type[h] \in masked
  /\ IdleHandlersArmed

\* The queue of an event: event_fire has dealt with what comes before First.
First(e) == IF fire.ev = e THEN fire.at ELSE task_head[e]
Queues ==
  /\ fire = NoFire \/ fire.ev \in Events
  /\ \A e \in Events : QueueOf(First(e), Waiting(e), eq_next)

IInv == TypeOK /\ GoodRing(k) /\ Counts /\ Lives /\ Vectors /\ Queues /\ OnlyExitPanics

------------------------------------------------------------------------------
(* The operators on the tasks.                                             *)

\* Only WAS_LINKED, next and the head matter to the ring.
LEMMA RingFrame ==
  ASSUME NEW s, NEW r, GoodRing(s),
         r.next = s.next, r.prev = s.prev, r.head \in RingOf(s),
         \A t \in Tasks : "WAS_LINKED" \in r.flags[t] <=> "WAS_LINKED" \in s.flags[t],
         \A t \in Tasks : r.flags[t] # {} => t \in r.alive
  PROVE  GoodRing(r) /\ RingOf(r) = RingOf(s)
<1>1. RingOf(r) = RingOf(s)
  BY DEF RingOf
<1>2. QED
  BY <1>1 DEF GoodRing

\* task_link inserts a new task behind the head: the ring stays one ring.
LEMMA InsertRing ==
  ASSUME NEW R \in SUBSET Tasks, NEW h \in R, NEW t \in Tasks \ R,
         NEW next \in [Tasks -> Tasks \cup {NoTask}], NEW prev \in [Tasks -> Tasks \cup {NoTask}],
         Links(R, next, prev), OneRing(R, next),
         NEW n2, n2 = [u \in Tasks |-> IF u = h THEN t ELSE IF u = t THEN next[h] ELSE next[u]],
         NEW p2, p2 = [u \in Tasks |-> IF u = next[h] THEN t ELSE IF u = t THEN h ELSE prev[u]]
  PROVE  Links(R \cup {t}, n2, p2) /\ OneRing(R \cup {t}, n2)
<1>1. next[h] \in R /\ h # t /\ next[h] # t
  BY DEF Links
<1>2. /\ n2[h] = t /\ n2[t] = next[h]
      /\ \A u \in R \ {h} : n2[u] = next[u]
      /\ p2[next[h]] = t /\ p2[t] = h
      /\ \A u \in R \ {next[h]} : p2[u] = prev[u]
  BY <1>1
<1>3. Links(R \cup {t}, n2, p2)
  <2>1. SUFFICES ASSUME NEW u \in R \cup {t}
                 PROVE  /\ n2[u] \in R \cup {t} /\ p2[n2[u]] = u
                        /\ p2[u] \in R \cup {t} /\ n2[p2[u]] = u
    BY DEF Links
  <2>2. CASE u = t
    BY <1>1, <1>2, <2>2
  <2>3. CASE u \in R
    <3>1. n2[u] \in R \cup {t} /\ p2[n2[u]] = u
      <4>1. CASE u = h
        BY <1>2, <4>1
      <4>2. CASE u # h
        <5>1. next[u] # next[h]
          BY <2>3, <4>2 DEF Links
        <5>2. QED
          BY <1>2, <2>3, <4>2, <5>1 DEF Links
      <4>3. QED
        BY <4>1, <4>2
    <3>2. p2[u] \in R \cup {t} /\ n2[p2[u]] = u
      <4>1. CASE u = next[h]
        BY <1>2, <4>1
      <4>2. CASE u # next[h]
        <5>1. prev[u] # h
          BY <2>3, <4>2 DEF Links
        <5>2. QED
          BY <1>2, <2>3, <4>2, <5>1 DEF Links
      <4>3. QED
        BY <4>1, <4>2
    <3>3. QED
      BY <3>1, <3>2
  <2>4. QED
    BY <2>2, <2>3
<1>4. OneRing(R \cup {t}, n2)
  <2>1. SUFFICES ASSUME NEW X \in SUBSET (R \cup {t}), X # {}, \A u \in X : n2[u] \in X
                 PROVE  X = R \cup {t}
    BY DEF OneRing
  <2> DEFINE Y == X \ {t}
  <2>2. Y # {}
    BY <1>1, <1>2, <2>1
  <2>3. \A u \in Y : next[u] \in Y
    <3>1. SUFFICES ASSUME NEW u \in Y PROVE next[u] \in Y
      OBVIOUS
    <3>2. CASE u = h
      BY <1>1, <1>2, <2>1, <3>2
    <3>3. CASE u # h
      BY <1>2, <2>1, <3>3 DEF Links
    <3>4. QED
      BY <3>2, <3>3
  <2>4. Y = R
    BY <2>2, <2>3 DEF OneRing
  <2>5. t \in X
    BY <1>2, <2>1, <2>4
  <2>6. QED
    BY <2>4, <2>5
<1>5. QED
  BY <1>3, <1>4

\* n2 and p2 are the links next and prev of R around the task t.
Removed(R, t, next, prev, n2, p2) ==
  /\ prev[t] # t => n2[prev[t]] = next[t]
  /\ next[t] # t => p2[next[t]] = prev[t]
  /\ \A u \in R \ {t, prev[t]} : n2[u] = next[u]
  /\ \A u \in R \ {t, next[t]} : p2[u] = prev[u]

\* task_real_unlink takes a task out of a ring that has another one.
LEMMA RemoveRing ==
  ASSUME NEW R \in SUBSET Tasks, NEW t \in R, R # {t},
         NEW next \in [Tasks -> Tasks \cup {NoTask}], NEW prev \in [Tasks -> Tasks \cup {NoTask}],
         Links(R, next, prev), OneRing(R, next),
         NEW n2, NEW p2, Removed(R, t, next, prev, n2, p2)
  PROVE  /\ next[t] \in R \ {t} /\ prev[t] \in R \ {t}
         /\ Links(R \ {t}, n2, p2) /\ OneRing(R \ {t}, n2)
<1> USE DEF Removed
<1>1. next[t] \in R /\ prev[t] \in R /\ next[prev[t]] = t /\ prev[next[t]] = t
  BY DEF Links
<1>2. next[t] # t
  <2>1. SUFFICES ASSUME next[t] = t PROVE FALSE
    OBVIOUS
  <2>2. {t} = R
    <3>1. {t} \in SUBSET R /\ {t} # {} /\ \A u \in {t} : next[u] \in {t}
      BY <2>1
    <3>2. QED
      BY <3>1, Zenon DEF OneRing
  <2>3. QED
    BY <2>2
<1>3. prev[t] # t
  BY <1>1, <1>2
<1>4. Links(R \ {t}, n2, p2)
  <2>1. SUFFICES ASSUME NEW u \in R \ {t}
                 PROVE  /\ n2[u] \in R \ {t} /\ p2[n2[u]] = u
                        /\ p2[u] \in R \ {t} /\ n2[p2[u]] = u
    BY DEF Links
  <2>2. n2[u] \in R \ {t} /\ p2[n2[u]] = u
    <3>1. CASE u = prev[t]
      BY <1>1, <1>2, <3>1
    <3>2. CASE u # prev[t]
      <4>1. n2[u] = next[u] /\ next[u] \in R /\ next[u] # t /\ next[u] # next[t]
        BY <3>2 DEF Links
      <4>2. QED
        BY <4>1 DEF Links
    <3>3. QED
      BY <3>1, <3>2
  <2>3. p2[u] \in R \ {t} /\ n2[p2[u]] = u
    <3>1. CASE u = next[t]
      BY <1>1, <1>3, <3>1
    <3>2. CASE u # next[t]
      <4>1. p2[u] = prev[u] /\ prev[u] \in R /\ prev[u] # t /\ prev[u] # prev[t]
        BY <3>2 DEF Links
      <4>2. QED
        BY <4>1 DEF Links
    <3>3. QED
      BY <3>1, <3>2
  <2>4. QED
    BY <2>2, <2>3
<1>5. OneRing(R \ {t}, n2)
  <2>1. SUFFICES ASSUME NEW X \in SUBSET (R \ {t}), X # {}, \A u \in X : n2[u] \in X
                 PROVE  X = R \ {t}
    BY DEF OneRing
  <2>2. CASE prev[t] \in X
    <3> DEFINE Y == X \cup {t}
    <3>1. next[t] \in X
      BY <2>1, <2>2
    <3>2. \A u \in Y : next[u] \in Y
      BY <1>1, <2>1, <3>1
    <3>3. Y \in SUBSET R /\ Y # {}
      BY <2>1
    <3> HIDE DEF Y
    <3>4. Y = R
      BY <3>2, <3>3, Zenon DEF OneRing
    <3>5. QED
      BY <3>4 DEF Y
  <2>3. CASE prev[t] \notin X
    <3>1. \A u \in X : next[u] \in X
      BY <2>1, <2>3
    <3>2. X = R
      BY <2>1, <3>1 DEF OneRing
    <3>3. QED
      BY <3>2
  <2>4. QED
    BY <2>2, <2>3
<1>6. QED
  BY <1>1, <1>2, <1>3, <1>4, <1>5

\* task_link: the fields after it.
LEMMA LinkFields ==
  ASSUME NEW s, KType(s), GoodRing(s), NEW t \in s.alive
  PROVE  /\ KType(TaskLink(s, t)) /\ GoodRing(TaskLink(s, t))
         /\ TaskLink(s, t).alive = s.alive /\ TaskLink(s, t).refcount = s.refcount
         /\ TaskLink(s, t).flags = [s.flags EXCEPT ![t] = @ \cup {"WAS_LINKED", "LINKED"}]
         /\ t \in RingOf(TaskLink(s, t))
<1> DEFINE r == TaskLink(s, t)
<1>0. t \in Tasks
  BY DEF KType
<1>1. CASE "WAS_LINKED" \in s.flags[t]
  <2>1. r = [s EXCEPT !.flags = [s.flags EXCEPT ![t] = @ \cup {"LINKED"}]]
    BY <1>1 DEF TaskLink, SetFlag, KType
  <2>2. /\ r.alive = s.alive /\ r.refcount = s.refcount /\ r.next = s.next /\ r.prev = s.prev
        /\ r.head = s.head /\ r.flags = [s.flags EXCEPT ![t] = @ \cup {"LINKED"}]
    BY <2>1 DEF KType
  <2>3. r.flags = [s.flags EXCEPT ![t] = @ \cup {"WAS_LINKED", "LINKED"}]
    BY <1>0, <1>1, <2>2 DEF KType
  <2>4. KType(r)
    BY <1>0, <2>1 DEF KType, Flags
  <2> HIDE DEF r
  <2>5. GoodRing(r) /\ RingOf(r) = RingOf(s)
    <3>1. r.head \in RingOf(s)
      BY <2>2 DEF GoodRing
    <3>2. \A u \in Tasks : "WAS_LINKED" \in r.flags[u] <=> "WAS_LINKED" \in s.flags[u]
      BY <1>0, <2>2 DEF KType
    <3>3. \A u \in Tasks : r.flags[u] # {} => u \in r.alive
      BY <1>0, <2>2 DEF KType, GoodRing
    <3>4. QED
      BY <2>2, <3>1, <3>2, <3>3, RingFrame
  <2>6. t \in RingOf(r)
    BY <1>0, <1>1, <2>5 DEF RingOf
  <2>7. QED
    BY <2>2, <2>3, <2>4, <2>5, <2>6 DEF r
<1>2. CASE "WAS_LINKED" \notin s.flags[t]
  <2> DEFINE h == s.head
             n2 == [u \in Tasks |-> IF u = h THEN t ELSE IF u = t THEN s.next[h] ELSE s.next[u]]
             p2 == [u \in Tasks |-> IF u = s.next[h] THEN t ELSE IF u = t THEN h ELSE s.prev[u]]
             f2 == [s.flags EXCEPT ![t] = @ \cup {"WAS_LINKED", "LINKED"}]
  <2>1. h \in RingOf(s) /\ h # NoTask /\ h \in Tasks
    BY SchedAssumption DEF GoodRing, RingOf
  <2>2. RingInsert(s, t) = [s EXCEPT !.next = n2, !.prev = p2, !.head = t]
    BY <2>1 DEF RingInsert
  <2>3. r = [RingInsert(s, t) EXCEPT !.flags[t] = @ \cup {"WAS_LINKED", "LINKED"}]
    BY <1>2 DEF TaskLink
  <2> HIDE DEF r, n2, p2
  <2>4. /\ r.alive = s.alive /\ r.refcount = s.refcount /\ r.next = n2 /\ r.prev = p2
        /\ r.head = t /\ r.flags = f2
        /\ r = [alive |-> s.alive, refcount |-> s.refcount, flags |-> f2, next |-> n2,
                prev |-> p2, head |-> t]
    BY <2>2, <2>3 DEF KType
  <2>5. n2 \in [Tasks -> Tasks \cup {NoTask}] /\ p2 \in [Tasks -> Tasks \cup {NoTask}]
    BY <1>0, <2>1 DEF KType, n2, p2
  <2>6. f2 \in [Tasks -> SUBSET Flags]
    BY <1>0 DEF KType, Flags
  <2>7. KType(r)
    BY <1>0, <2>4, <2>5, <2>6 DEF KType
  <2>8. RingOf(r) = RingOf(s) \cup {t} /\ t \notin RingOf(s)
    BY <1>0, <1>2, <2>4 DEF RingOf, KType
  <2>9. Links(RingOf(s) \cup {t}, n2, p2) /\ OneRing(RingOf(s) \cup {t}, n2)
    <3>1. RingOf(s) \in SUBSET Tasks /\ t \in Tasks \ RingOf(s)
      BY <1>0, <2>8 DEF RingOf
    <3>2. s.next \in [Tasks -> Tasks \cup {NoTask}] /\ s.prev \in [Tasks -> Tasks \cup {NoTask}]
      BY DEF KType
    <3>3. Links(RingOf(s), s.next, s.prev) /\ OneRing(RingOf(s), s.next)
      BY DEF GoodRing
    <3>4. QED
      BY <2>1, <3>1, <3>2, <3>3, InsertRing DEF n2, p2
  <2>10. \A u \in Tasks : r.flags[u] # {} => u \in r.alive
    BY <1>0, <2>4 DEF KType, GoodRing
  <2>11. GoodRing(r)
    BY <2>4, <2>8, <2>9, <2>10 DEF GoodRing
  <2>12. QED
    BY <2>4, <2>7, <2>8, <2>11 DEF r
<1>3. QED
  BY <1>1, <1>2

\* Changing flags other than WAS_LINKED of a living task.
LEMMA FlagFields ==
  ASSUME NEW s, KType(s), GoodRing(s), NEW t \in s.alive, NEW fs \in SUBSET Flags,
         "WAS_LINKED" \in fs <=> "WAS_LINKED" \in s.flags[t]
  PROVE  LET r == [s EXCEPT !.flags[t] = fs]
         IN  /\ KType(r) /\ GoodRing(r)
             /\ r.alive = s.alive /\ r.refcount = s.refcount /\ r.head = s.head
             /\ r.next = s.next /\ r.flags = [s.flags EXCEPT ![t] = fs]
<1> DEFINE r == [s EXCEPT !.flags[t] = fs]
<1>0. t \in Tasks
  BY DEF KType
<1>1. /\ r.alive = s.alive /\ r.refcount = s.refcount /\ r.next = s.next /\ r.prev = s.prev
      /\ r.head = s.head /\ r.flags = [s.flags EXCEPT ![t] = fs]
  BY DEF KType
<1>2. KType(r)
  BY <1>0 DEF KType
<1> HIDE DEF r
<1>3. r.head \in RingOf(s)
  BY <1>1 DEF GoodRing
<1>4. \A u \in Tasks : "WAS_LINKED" \in r.flags[u] <=> "WAS_LINKED" \in s.flags[u]
  BY <1>0, <1>1 DEF KType
<1>5. \A u \in Tasks : r.flags[u] # {} => u \in r.alive
  BY <1>0, <1>1 DEF KType, GoodRing
<1>6. GoodRing(r)
  BY <1>1, <1>3, <1>4, <1>5, RingFrame
<1>7. QED
  BY <1>1, <1>2, <1>6 DEF r

\* Moving the head to a task of the ring.
LEMMA HeadFields ==
  ASSUME NEW s, KType(s), GoodRing(s), NEW t \in RingOf(s)
  PROVE  LET r == [s EXCEPT !.head = t]
         IN  /\ KType(r) /\ GoodRing(r)
             /\ r.alive = s.alive /\ r.refcount = s.refcount /\ r.flags = s.flags
<1> DEFINE r == [s EXCEPT !.head = t]
<1>0. t \in Tasks
  BY DEF RingOf
<1>1. /\ r.alive = s.alive /\ r.refcount = s.refcount /\ r.next = s.next /\ r.prev = s.prev
      /\ r.head = t /\ r.flags = s.flags
  BY DEF KType
<1>2. KType(r)
  BY <1>0 DEF KType
<1> HIDE DEF r
<1>3. \A u \in Tasks : r.flags[u] # {} => u \in r.alive
  BY <1>1 DEF GoodRing
<1>4. GoodRing(r)
  BY <1>1, <1>3, RingFrame
<1>5. QED
  BY <1>1, <1>2, <1>4 DEF r

\* Changing the set of living tasks and the counts only.
LEMMA CountRing ==
  ASSUME NEW s, GoodRing(s), NEW r, r.next = s.next, r.prev = s.prev, r.flags = s.flags,
         r.head = s.head, s.alive \subseteq r.alive
  PROVE  GoodRing(r)
<1>1. r.head \in RingOf(s)
  BY DEF GoodRing
<1>2. \A t \in Tasks : r.flags[t] # {} => t \in r.alive
  BY DEF GoodRing
<1>3. QED
  BY <1>1, <1>2, RingFrame

\* The last task_release: the task leaves the ring and is gone.
LEMMA FreeFields ==
  ASSUME NEW s, KType(s), GoodRing(s), NEW t \in s.alive, t # SchedTask,
         s.refcount[t] = 1, GLOBAL # 1
  PROVE  LET r == TaskRelease(s, t)
         IN  /\ KType(r) /\ GoodRing(r)
             /\ r.alive = s.alive \ {t} /\ r.refcount = [s.refcount EXCEPT ![t] = 0]
             /\ r.flags = [s.flags EXCEPT ![t] = {}]
<1> DEFINE r == TaskRelease(s, t)
           s1 == [s EXCEPT !.refcount[t] = @ - 1]
           c2 == [s.refcount EXCEPT ![t] = 0]
           f2 == [s.flags EXCEPT ![t] = {}]
<1>0. t \in Tasks /\ GLOBAL \in Nat /\ NoTask \notin Tasks
  BY SchedAssumption DEF KType
<1>1. r = Free(TaskRealUnlink(s1, t), t)
  BY DEF TaskRelease
<1>2. s1 = [s EXCEPT !.refcount = c2]
  BY <1>0 DEF KType
<1>3. c2 \in [Tasks -> 0..GLOBAL] /\ f2 \in [Tasks -> SUBSET Flags]
  BY <1>0 DEF KType
<1>4. /\ s1.alive = s.alive /\ s1.refcount = c2 /\ s1.flags = s.flags
      /\ s1.next = s.next /\ s1.prev = s.prev /\ s1.head = s.head
      /\ s1 = [alive |-> s.alive, refcount |-> c2, flags |-> s.flags, next |-> s.next,
               prev |-> s.prev, head |-> s.head]
  BY <1>2 DEF KType
<1> HIDE DEF s1, c2, r
<1>5. CASE "WAS_LINKED" \notin s.flags[t]
  <2>1. r = Free(s1, t)
    BY <1>1, <1>4, <1>5 DEF TaskRealUnlink
  <2> DEFINE n2 == [s.next EXCEPT ![t] = NoTask]
             p2 == [s.prev EXCEPT ![t] = NoTask]
  <2>2. /\ r.alive = s.alive \ {t} /\ r.refcount = c2 /\ r.flags = f2
        /\ r.next = n2 /\ r.prev = p2 /\ r.head = s.head
        /\ r = [alive |-> s.alive \ {t}, refcount |-> c2, flags |-> f2, next |-> n2,
                prev |-> p2, head |-> s.head]
    BY <1>4, <2>1 DEF Free
  <2>3. KType(r)
    BY <1>0, <1>3, <2>2 DEF KType
  <2>4. RingOf(r) = RingOf(s) /\ t \notin RingOf(s) /\ RingOf(s) \subseteq Tasks
    BY <1>0, <1>5, <2>2 DEF RingOf, KType
  <2>5. \A u \in RingOf(s) : n2[u] = s.next[u] /\ p2[u] = s.prev[u]
    BY <2>4 DEF KType
  <2>6. Links(RingOf(s), n2, p2)
    BY <2>5 DEF GoodRing, Links
  <2>7. OneRing(RingOf(s), n2)
    <3>1. SUFFICES ASSUME NEW X \in SUBSET RingOf(s), X # {}, \A u \in X : n2[u] \in X
                   PROVE  X = RingOf(s)
      BY DEF OneRing
    <3>2. \A u \in X : s.next[u] \in X
      BY <2>5, <3>1
    <3>3. QED
      BY <3>1, <3>2, Zenon DEF GoodRing, OneRing
  <2>8. \A u \in Tasks : r.flags[u] # {} => u \in r.alive
    BY <1>0, <2>2 DEF KType, GoodRing
  <2>9. GoodRing(r)
    BY <2>2, <2>4, <2>6, <2>7, <2>8 DEF GoodRing
  <2>10. QED
    BY <2>2, <2>3, <2>9 DEF r, c2
<1>6. CASE "WAS_LINKED" \in s.flags[t]
  <2> DEFINE nx == s.next[t]
             pv == s.prev[t]
             n1 == [u \in Tasks |-> IF u = pv THEN nx ELSE s.next[u]]
             p1 == [u \in Tasks |-> IF u = nx THEN pv ELSE s.prev[u]]
             n2 == [n1 EXCEPT ![t] = NoTask]
             p2 == [p1 EXCEPT ![t] = NoTask]
             h2 == IF s.head # t THEN s.head ELSE IF nx = t THEN NoTask ELSE nx
             s2 == TaskRealUnlink(s1, t)
  <2>1. t \in RingOf(s) /\ SchedTask \in RingOf(s) \ {t} /\ RingOf(s) \subseteq Tasks
    BY <1>0, <1>6 DEF RingOf, GoodRing
  <2>2. \A u \in RingOf(s) \ {t} :
          /\ n2[u] = IF u = pv THEN nx ELSE s.next[u]
          /\ p2[u] = IF u = nx THEN pv ELSE s.prev[u]
    BY <2>1 DEF KType
  <2>3. /\ nx \in RingOf(s) \ {t} /\ pv \in RingOf(s) \ {t}
        /\ Links(RingOf(s) \ {t}, n2, p2) /\ OneRing(RingOf(s) \ {t}, n2)
    <3>1. /\ s.next \in [Tasks -> Tasks \cup {NoTask}]
          /\ s.prev \in [Tasks -> Tasks \cup {NoTask}]
          /\ Links(RingOf(s), s.next, s.prev) /\ OneRing(RingOf(s), s.next)
      BY DEF KType, GoodRing
    <3>2. RingOf(s) \in SUBSET Tasks
      BY <2>1
    <3> HIDE DEF n1, p1, n2, p2
    <3>3. /\ s.prev[t] # t => n2[s.prev[t]] = s.next[t]
          /\ s.next[t] # t => p2[s.next[t]] = s.prev[t]
      BY <2>1, <2>2, <3>1 DEF Links
    <3>4. Removed(RingOf(s), t, s.next, s.prev, n2, p2)
      BY <2>2, <3>3 DEF Removed
    <3>5. RingOf(s) # {t} /\ t \in RingOf(s)
      BY <2>1
    <3>6. QED
      BY <3>1, <3>2, <3>4, <3>5, RemoveRing
  <2>4. s2 = [s1 EXCEPT !.head = h2, !.next = n1, !.prev = p1,
                        !.flags[t] = @ \ {"WAS_LINKED", "LINKED"}]
    BY <1>4, <1>6 DEF TaskRealUnlink
  <2>5. n1 \in [Tasks -> Tasks \cup {NoTask}] /\ p1 \in [Tasks -> Tasks \cup {NoTask}]
    BY <1>0, <2>1, <2>3 DEF KType
  <2>6. h2 \in RingOf(s) \ {t}
    BY <2>3 DEF GoodRing
  <2> HIDE DEF n1, p1, h2, s2
  <2>7. /\ s2.alive = s.alive /\ s2.refcount = c2 /\ s2.next = n1 /\ s2.prev = p1 /\ s2.head = h2
        /\ s2.flags = [s.flags EXCEPT ![t] = @ \ {"WAS_LINKED", "LINKED"}]
        /\ s2 = [alive |-> s.alive, refcount |-> c2, flags |-> s2.flags, next |-> n1,
                 prev |-> p1, head |-> h2]
    BY <1>4, <2>4
  <2>8. s2.flags \in [Tasks -> SUBSET Flags] /\ [s2.flags EXCEPT ![t] = {}] = f2
    BY <1>0, <2>7 DEF KType
  <2>9. /\ r.alive = s.alive \ {t} /\ r.refcount = c2 /\ r.flags = f2
        /\ r.next = n2 /\ r.prev = p2 /\ r.head = h2
        /\ r = [alive |-> s.alive \ {t}, refcount |-> c2, flags |-> f2, next |-> n2,
                prev |-> p2, head |-> h2]
    <3>1. r = Free(s2, t)
      BY <1>1 DEF s2
    <3>2. QED
      BY <2>7, <2>8, <3>1 DEF Free
  <2>10. KType(r)
    BY <1>0, <1>3, <2>1, <2>5, <2>6, <2>9 DEF KType
  <2>11. RingOf(r) = RingOf(s) \ {t}
    BY <1>0, <2>9 DEF RingOf, KType
  <2>12. \A u \in Tasks : r.flags[u] # {} => u \in r.alive
    BY <1>0, <2>9 DEF KType, GoodRing
  <2>13. GoodRing(r)
    BY <2>1, <2>3, <2>6, <2>9, <2>11, <2>12 DEF GoodRing
  <2>14. QED
    BY <2>9, <2>10, <2>13 DEF r, c2
<1>7. QED
  BY <1>5, <1>6

\* A task_release that is not the last one.
LEMMA ReleaseFields ==
  ASSUME NEW s, KType(s), GoodRing(s), NEW t \in s.alive,
         s.refcount[t] \in 2..(GLOBAL - 1)
  PROVE  LET r == TaskRelease(s, t)
         IN  /\ KType(r) /\ GoodRing(r)
             /\ r.alive = s.alive /\ r.refcount = [s.refcount EXCEPT ![t] = @ - 1]
             /\ r.flags = s.flags
<1> DEFINE c2 == [s.refcount EXCEPT ![t] = @ - 1]
           r == TaskRelease(s, t)
<1>0. t \in Tasks /\ GLOBAL \in Nat
  BY SchedAssumption DEF KType
<1>1. r = [s EXCEPT !.refcount = c2]
  BY <1>0 DEF TaskRelease, KType
<1>2. c2 \in [Tasks -> 0..GLOBAL]
  BY <1>0 DEF KType
<1> HIDE DEF c2
<1>3. KType(r)
  BY <1>1, <1>2 DEF KType
<1>4. /\ r.alive = s.alive /\ r.refcount = c2 /\ r.flags = s.flags /\ r.head = s.head
      /\ r.next = s.next /\ r.prev = s.prev
  BY <1>1 DEF KType
<1> HIDE DEF r
<1>5. GoodRing(r)
  BY <1>4, CountRing
<1>6. QED
  BY <1>3, <1>4, <1>5 DEF c2, r

\* task_reference of a task that is not static.
LEMMA ReferenceFields ==
  ASSUME NEW s, KType(s), GoodRing(s), NEW t \in s.alive,
         s.refcount[t] \in 0..(GLOBAL - 1)
  PROVE  LET r == TaskReference(s, t)
         IN  /\ KType(r) /\ GoodRing(r)
             /\ r.alive = s.alive /\ r.refcount = [s.refcount EXCEPT ![t] = @ + 1]
             /\ r.flags = s.flags
<1> DEFINE c2 == [s.refcount EXCEPT ![t] = @ + 1]
           r == TaskReference(s, t)
<1>0. t \in Tasks /\ GLOBAL \in Nat
  BY SchedAssumption DEF KType
<1>1. r = [s EXCEPT !.refcount = c2]
  BY <1>0 DEF TaskReference, KType
<1>2. c2 \in [Tasks -> 0..GLOBAL]
  BY <1>0 DEF KType
<1> HIDE DEF c2
<1>3. KType(r)
  BY <1>1, <1>2 DEF KType
<1>4. /\ r.alive = s.alive /\ r.refcount = c2 /\ r.flags = s.flags /\ r.head = s.head
      /\ r.next = s.next /\ r.prev = s.prev
  BY <1>1 DEF KType
<1> HIDE DEF r
<1>5. GoodRing(r)
  BY <1>4, CountRing
<1>6. QED
  BY <1>3, <1>4, <1>5 DEF c2, r

------------------------------------------------------------------------------
(* The queues, and what each part of the invariant depends on.             *)

\* event_fire takes the first waiter off: the rest is the queue.
LEMMA QueuePop ==
  ASSUME NEW w \in SUBSET Tasks, NEW f \in w, NEW next, QueueOf(f, w, next)
  PROVE  QueueOf(next[f], w \ {f}, next)
<1>0. NoTask \notin w
  BY SchedAssumption
<1>1. next[f] \in (w \ {f}) \cup {NoTask}
  BY <1>0 DEF QueueOf
<1>2. next[f] = NoTask => w \ {f} = {}
  <2>1. SUFFICES ASSUME next[f] = NoTask PROVE {f} = w
    OBVIOUS
  <2>2. {f} \in SUBSET w /\ f \in {f} /\ \A t \in {f} : next[t] \in {f} \cup {NoTask}
    BY <2>1
  <2>3. QED
    BY <2>2, Zenon DEF QueueOf
<1>3. \A t \in w \ {f} : next[t] \in ((w \ {f}) \cup {NoTask}) \ ({next[f]} \ {NoTask})
  BY <1>0 DEF QueueOf
<1>4. \A t, u \in w \ {f} : next[t] = next[u] /\ next[t] # NoTask => t = u
  BY DEF QueueOf
<1>5. ASSUME NEW X \in SUBSET (w \ {f}), next[f] \in X, \A t \in X : next[t] \in X \cup {NoTask}
      PROVE  X = w \ {f}
  <2> DEFINE Y == X \cup {f}
  <2>1. Y \in SUBSET w /\ f \in Y /\ \A t \in Y : next[t] \in Y \cup {NoTask}
    BY <1>5
  <2> HIDE DEF Y
  <2>2. Y = w
    BY <2>1, Zenon DEF QueueOf
  <2>3. QED
    BY <1>5, <2>2 DEF Y
<1>6. QED
  BY <1>1, <1>2, <1>3, <1>4, <1>5 DEF QueueOf

\* event_wait puts a task before the first one.
LEMMA QueuePush ==
  ASSUME NEW w \in SUBSET Tasks, NEW f, NEW t \in Tasks \ w,
         NEW next \in [Tasks -> Tasks \cup {NoTask}], QueueOf(f, w, next),
         NEW n2, n2 = [next EXCEPT ![t] = f]
  PROVE  QueueOf(t, w \cup {t}, n2)
<1>0. NoTask \notin w \cup {t}
  BY SchedAssumption
<1>1. n2[t] = f /\ (\A u \in w : n2[u] = next[u]) /\ t \notin w
  OBVIOUS
<1>2. \A u \in w \cup {t} : n2[u] \in ((w \cup {t}) \cup {NoTask}) \ ({t} \ {NoTask})
  BY <1>0, <1>1 DEF QueueOf
<1>3. \A u, v \in w \cup {t} : n2[u] = n2[v] /\ n2[u] # NoTask => u = v
  BY <1>0, <1>1 DEF QueueOf
<1>4. ASSUME NEW X \in SUBSET (w \cup {t}), t \in X, \A u \in X : n2[u] \in X \cup {NoTask}
      PROVE  X = w \cup {t}
  <2>1. CASE f = NoTask
    BY <1>4, <2>1 DEF QueueOf
  <2>2. CASE f # NoTask
    <3> DEFINE Y == X \ {t}
    <3>1. Y \in SUBSET w /\ f \in Y
      BY <1>1, <1>4, <2>2 DEF QueueOf
    <3>2. \A u \in Y : next[u] \in Y \cup {NoTask}
      BY <1>0, <1>1, <1>4 DEF QueueOf
    <3> HIDE DEF Y
    <3>3. Y = w
      BY <3>1, <3>2, Zenon DEF QueueOf
    <3>4. QED
      BY <1>4, <3>3 DEF Y
  <2>3. QED
    BY <2>1, <2>2
<1> HIDE DEF QueueOf
<1>5. QED
  BY <1>0, <1>2, <1>3, <1>4 DEF QueueOf

\* A count, one more included, stays below TASK_REFCOUNT_GLOBAL.
LEMMA GlobalBound ==
  /\ GLOBAL \in Nat /\ MaxExtra \in Nat /\ MaxExtra + 1 < GLOBAL
  /\ \A t \in Tasks : HasVec(t) => 1 + MaxExtra + 1 < GLOBAL
<1>1. Cardinality({}) = 0
  BY FS_EmptySet
<1>2. MaxExtra + 1 < GLOBAL /\ GLOBAL \in Nat /\ MaxExtra \in Nat
  BY <1>1, SchedAssumption
<1>3. ASSUME NEW i \in Irqs PROVE 1 + MaxExtra + 1 < GLOBAL
  <2>1. Cardinality({i}) = 1
    BY FS_Singleton
  <2>2. {i} \in SUBSET Irqs
    OBVIOUS
  <2>3. QED
    BY <2>1, <2>2, SchedAssumption
<1>4. QED
  BY <1>2, <1>3 DEF HasVec

\* The types of everything but the tasks.
OtherTypes ==
  /\ current \in Tasks
  /\ irqvecs \in [Irqs -> Tasks \cup {NoTask}]
  /\ irq_type \in [Tasks -> Irqs \cup {NoIrq}]
  /\ masked \subseteq Irqs
  /\ task_head \in [Events -> Tasks \cup {NoTask}]
  /\ eq_next \in [Tasks -> Tasks \cup {NoTask}]
  /\ fire \in [ev : Events \cup {NoEvent}, at : Tasks \cup {NoTask}]
  /\ idle \in [preempted : BOOLEAN, wfe : BOOLEAN]
  /\ irqs \in 0..MaxIrqs
  /\ creates \in 0..MaxCreates
  /\ own \subseteq Tasks
  /\ extra \in [Tasks -> 0..MaxExtra]
  /\ waits \in [Tasks -> Events \cup {NoEvent}]

\* The type invariant in two parts.
LEMMA Types == (TypeOK <=> KType(k) /\ OtherTypes) /\ (TypeOK' <=> KType(k') /\ OtherTypes')
BY DEF TypeOK, KType, OtherTypes

\* The variables that each part of the invariant looks at.
LEMMA Frames ==
  /\ Counts /\ UNCHANGED <<irqvecs, extra, own>> /\ k'.refcount = k.refcount /\ k'.alive = k.alive
       => Counts'
  /\ Lives /\ UNCHANGED <<current, waits, own>> /\ k'.flags = k.flags /\ k'.alive = k.alive
       => Lives'
  /\ Vectors /\ UNCHANGED <<irqVars, waits>> /\ k'.flags = k.flags /\ k'.alive = k.alive
       => Vectors'
  /\ Queues /\ UNCHANGED <<fire, evVars>> => Queues'
<1>1. Counts /\ UNCHANGED <<irqvecs, extra, own>> /\ k'.refcount = k.refcount /\ k'.alive = k.alive
       => Counts'
  BY DEF Counts, HasVec, B2N
<1>2. Lives /\ UNCHANGED <<current, waits, own>> /\ k'.flags = k.flags /\ k'.alive = k.alive
       => Lives'
  BY DEF Lives, Owned
<1>3. Vectors /\ UNCHANGED <<irqVars, waits>> /\ k'.flags = k.flags /\ k'.alive = k.alive
       => Vectors'
  BY DEF Vectors, irqVars, Active, IdleHandlersArmed
<1>4. Queues /\ UNCHANGED <<fire, evVars>> => Queues'
  BY DEF Queues, First, Waiting, evVars
<1>5. QED
  BY <1>1, <1>2, <1>3, <1>4

------------------------------------------------------------------------------
(* The first state, and one lemma for every step.                          *)

\* pongo_entry_cached establishes the invariant.
LEMMA InitIInv == Init => IInv
<1>1. SUFFICES ASSUME Init PROVE IInv
  OBVIOUS
<1>2. SchedTask \in Tasks /\ SchedTask \in Static /\ NoTask \notin Tasks /\ GLOBAL \in Nat
      /\ MaxExtra \in Nat /\ MaxIrqs \in Nat /\ MaxCreates \in Nat /\ NoEvent \notin Events
      /\ SchedTask \notin Handlers /\ Static \subseteq Tasks
  BY SchedAssumption
<1>3. KType(k)
  BY <1>1, <1>2 DEF Init, KType, Flags
<1>4. OtherTypes
  BY <1>1, <1>2 DEF Init, OtherTypes, NoFire
<1>5. /\ k.alive = {SchedTask} /\ k.head = SchedTask
      /\ k.flags = [t \in Tasks |-> IF t = SchedTask THEN {"LINKED", "WAS_LINKED"} ELSE {}]
      /\ k.next[SchedTask] = SchedTask /\ k.prev[SchedTask] = SchedTask
      /\ \A t \in Static : k.refcount[t] = GLOBAL
  BY <1>1, <1>2 DEF Init
<1>6. RingOf(k) = {SchedTask}
  BY <1>2, <1>5 DEF RingOf
<1>7. GoodRing(k)
  <2>1. \A t \in Tasks : k.flags[t] # {} => t \in k.alive
    BY <1>5
  <2>2. Links({SchedTask}, k.next, k.prev)
    BY <1>5 DEF Links
  <2>3. OneRing({SchedTask}, k.next)
    BY DEF OneRing
  <2>4. QED
    BY <1>5, <1>6, <2>1, <2>2, <2>3 DEF GoodRing
<1>8. Counts
  BY <1>1, <1>2, <1>5 DEF Init, Counts
<1>9. Lives
  BY <1>1, <1>2, <1>5 DEF Init, Lives, Owned
<1>10. Vectors
  BY <1>1, <1>2, <1>5, SchedAssumption DEF Init, Vectors, Active, IdleHandlersArmed
<1>11. Queues
  <2>1. ASSUME NEW e \in Events PROVE QueueOf(First(e), Waiting(e), eq_next)
    <3>1. First(e) = NoTask /\ Waiting(e) = {}
      BY <1>1, <1>2 DEF Init, First, Waiting, NoFire
    <3>2. QED
      BY <3>1 DEF QueueOf
  <2>2. QED
    BY <1>1, <2>1 DEF Queues, Init
<1>12. QED
  BY <1>1, <1>3, <1>4, <1>7, <1>8, <1>9, <1>10, <1>11, Types DEF IInv, OnlyExitPanics, Init

\* A panic of a task that exits changes nothing else.
LEMMA PanicStep ==
  ASSUME IInv, NEW r \in {"none", "irq handler exited!", "required task exited!"}, Panic(r)
  PROVE  IInv'
<1>1. UNCHANGED <<k, current, irqVars, evVars, fire, idle, bounds, refVars>> /\ panic' = r
  BY DEF Panic
<1>2. TypeOK'
  BY <1>1 DEF IInv, TypeOK, irqVars, evVars, bounds, refVars
<1>3. GoodRing(k)'
  BY <1>1 DEF IInv
<1>4. Counts' /\ Lives' /\ Vectors' /\ Queues'
  BY <1>1, Frames DEF IInv, irqVars, evVars, refVars
<1>5. QED
  BY <1>1, <1>2, <1>3, <1>4 DEF IInv, OnlyExitPanics

\* A step that moves the head or gives the CPU to a runnable task, and leaves
\* the references, the flags and the queues alone.
LEMMA QuietStep ==
  ASSUME IInv, KType(k'), GoodRing(k)',
         k'.alive = k.alive, k'.refcount = k.refcount, k'.flags = k.flags,
         UNCHANGED <<irqVars, evVars, fire, refVars, bounds, panic>>,
         current' \in k.alive, current' # SchedTask => "LINKED" \in k.flags[current'],
         idle' \in [preempted : BOOLEAN, wfe : BOOLEAN]
  PROVE  IInv'
<1>0. SchedTask \notin Waiters
  BY SchedAssumption
<1>1. OtherTypes'
  BY Types DEF IInv, OtherTypes, KType, irqVars, evVars, refVars, bounds
<1>2. Lives'
  <2>1. UNCHANGED <<waits, own>> /\ Lives
    BY DEF evVars, refVars, IInv
  <2>2. QED
    BY <1>0, <2>1 DEF Lives, Owned
<1>3. Counts' /\ Vectors' /\ Queues'
  BY Frames DEF IInv, irqVars, evVars, refVars
<1>4. QED
  BY <1>1, <1>2, <1>3, Types DEF IInv, OnlyExitPanics

\* The links of a task of the ring.
LEMMA NextInRing ==
  ASSUME IInv, NEW t \in Tasks, "WAS_LINKED" \in k.flags[t]
  PROVE  /\ KType(k) /\ t \in RingOf(k) /\ k.next[t] \in RingOf(k) /\ t \in k.alive
<1>1. t \in RingOf(k)
  BY DEF RingOf
<1>2. QED
  BY <1>1, Types DEF IInv, GoodRing, Links

\* The head is never NoTask and the head is in the ring.
LEMMA HeadInRing ==
  ASSUME IInv
  PROVE  k.head \in Tasks /\ k.head # NoTask /\ "WAS_LINKED" \in k.flags[k.head]
BY SchedAssumption DEF IInv, GoodRing, RingOf

\* The idle loop comes around.
LEMMA LoopAroundStep == ASSUME IInv, LoopAround PROVE IInv'
<1>1. k.head = SchedTask /\ "WAS_LINKED" \in k.flags[SchedTask] /\ SchedTask \in Tasks
  BY HeadInRing DEF LoopAround
<1>2. /\ k' = [k EXCEPT !.head = k.next[SchedTask]]
      /\ idle' = [preempted |-> FALSE, wfe |-> ~idle.preempted]
      /\ UNCHANGED <<current, irqVars, evVars, fire, bounds, refVars, panic>>
  BY <1>1, HeadInRing DEF LoopAround
<1>3. KType(k) /\ k.next[SchedTask] \in RingOf(k) /\ GoodRing(k)
  BY <1>1, NextInRing DEF IInv
<1>4. /\ KType(k') /\ GoodRing(k')
      /\ k'.alive = k.alive /\ k'.refcount = k.refcount /\ k'.flags = k.flags
  BY <1>2, <1>3, HeadFields
<1>5. idle' \in [preempted : BOOLEAN, wfe : BOOLEAN]
  BY <1>2, Zenon
<1>6. current' \in k.alive /\ (current' # SchedTask => "LINKED" \in k.flags[current'])
  BY <1>2 DEF IInv, Lives
<1>7. QED
  BY <1>2, <1>4, <1>5, <1>6, QuietStep

\* pongo_sched_tick at a task of the ring: the head moves on.
LEMMA TickFields ==
  ASSUME IInv, NEW t \in Tasks, TickTask(t)
  PROVE  /\ KType(Advanced(t)) /\ GoodRing(Advanced(t))
         /\ Advanced(t).alive = k.alive /\ Advanced(t).refcount = k.refcount
         /\ Advanced(t).flags = k.flags
         /\ t \in k.alive /\ "WAS_LINKED" \in k.flags[t] /\ t # SchedTask
         /\ idle \in [preempted : BOOLEAN, wfe : BOOLEAN]
<1>1. k.head = t /\ t # SchedTask /\ "WAS_LINKED" \in k.flags[t]
  BY HeadInRing DEF TickTask
<1>2. KType(k) /\ k.next[t] \in RingOf(k) /\ GoodRing(k) /\ t \in k.alive
  BY <1>1, NextInRing DEF IInv
<1>3. idle \in [preempted : BOOLEAN, wfe : BOOLEAN]
  BY DEF IInv, TypeOK
<1>4. QED
  BY <1>1, <1>2, <1>3, HeadFields DEF Advanced

\* The scheduler gives the CPU to a runnable task.
LEMMA SwitchToStep == ASSUME IInv, NEW t \in Tasks, SwitchTo(t) PROVE IInv'
<1>1. TickTask(t) /\ k' = Advanced(t) /\ current' = t /\ "LINKED" \in k.flags[t]
      /\ UNCHANGED <<irqVars, evVars, fire, idle, bounds, refVars, panic>>
  BY DEF SwitchTo
<1>2. QED
  BY <1>1, TickFields, QuietStep

\* The scheduler passes a task that is not runnable.
LEMMA SkipStep == ASSUME IInv, NEW t \in Tasks, Skip(t) PROVE IInv'
<1>1. TickTask(t) /\ k' = Advanced(t)
      /\ UNCHANGED <<current, irqVars, evVars, fire, idle, bounds, refVars, panic>>
  BY DEF Skip
<1>2. current \in k.alive /\ (current # SchedTask => "LINKED" \in k.flags[current])
  BY DEF IInv, Lives
<1>3. QED
  BY <1>1, <1>2, TickFields, QuietStep

\* sched_task is alive.
LEMMA SchedLives == IInv => SchedTask \in k.alive /\ SchedTask \in Tasks
BY DEF IInv, GoodRing, RingOf

\* The timer takes the CPU away.
LEMMA TimerStep == ASSUME IInv, Timer PROVE IInv'
<1>1. current' = SchedTask /\ UNCHANGED <<k, irqVars, evVars, fire, bounds, refVars, panic>>
  BY DEF Timer
<1>2. idle' \in [preempted : BOOLEAN, wfe : BOOLEAN]
  <2>1. idle \in [preempted : BOOLEAN, wfe : BOOLEAN]
    BY DEF IInv, TypeOK
  <2>2. idle' = [idle EXCEPT !.wfe = FALSE] \/ idle' = [idle EXCEPT !.preempted = TRUE]
    BY DEF Timer
  <2>3. QED
    BY <2>1, <2>2
<1>3. KType(k) /\ GoodRing(k)
  BY Types DEF IInv
<1>4. QED
  BY <1>1, <1>2, <1>3, SchedLives, QuietStep

\* A task gives up the CPU.
LEMMA YieldStep == ASSUME IInv, NEW t \in Tasks, Yield(t) PROVE IInv'
<1>1. current' = SchedTask /\ UNCHANGED <<k, irqVars, evVars, fire, idle, bounds, refVars, panic>>
  BY DEF Yield
<1>2. idle \in [preempted : BOOLEAN, wfe : BOOLEAN]
  BY DEF IInv, TypeOK
<1>3. KType(k) /\ GoodRing(k)
  BY Types DEF IInv
<1>4. QED
  BY <1>1, <1>2, <1>3, SchedLives, QuietStep

------------------------------------------------------------------------------
(* Steps that make a task runnable.                                        *)

\* A task that has its own reference and waits for nothing becomes runnable.
LEMMA LinkLives ==
  ASSUME IInv, NEW u \in Tasks, k'.alive = k.alive \cup {u},
         NEW fs, k'.flags = [k.flags EXCEPT ![u] = fs],
         "LINKED" \in fs, "WAS_LINKED" \in fs, "PLEASE_DEREF" \notin fs,
         u \in own' \cup Static, own \subseteq own', current' = current,
         waits'[u] = NoEvent, \A t \in Tasks \ {u} : waits'[t] = waits[t]
  PROVE  Lives'
<1>1. KType(k) /\ Lives /\ current \in Tasks
  BY Types DEF IInv, OtherTypes
<1>2. /\ k'.flags[u] = fs /\ u \in k'.alive
      /\ \A t \in Tasks \ {u} : k'.flags[t] = k.flags[t] /\ (t \in k'.alive <=> t \in k.alive)
      /\ k'.alive \subseteq Tasks
  BY <1>1 DEF KType
<1>3. current' \in k'.alive /\ (current' # SchedTask => "LINKED" \in k'.flags[current'])
  BY <1>1, <1>2 DEF Lives
<1>4. ASSUME NEW t \in k'.alive
      PROVE  \/ "WAS_LINKED" \notin k'.flags[t] \/ "LINKED" \in k'.flags[t]
             \/ "PLEASE_DEREF" \in k'.flags[t] \/ waits'[t] # NoEvent \/ t \in Handlers
             => Owned(t)'
  <2>1. CASE t = u
    BY <2>1 DEF Owned
  <2>2. CASE t # u
    <3>1. t \in Tasks \ {u} /\ t \in k.alive
      BY <1>2, <2>2
    <3>2. QED
      BY <1>1, <1>2, <3>1 DEF Lives, Owned
  <2>3. QED
    BY <2>1, <2>2
<1>5. ASSUME NEW t \in Tasks
      PROVE  /\ "LINKED" \in k'.flags[t] => "WAS_LINKED" \in k'.flags[t]
             /\ "PLEASE_DEREF" \in k'.flags[t] => /\ "LINKED" \notin k'.flags[t]
                                                  /\ "WAS_LINKED" \in k'.flags[t]
                                                  /\ waits'[t] = NoEvent
                                                  /\ t \in CanExit
             /\ waits'[t] # NoEvent => /\ t \in k'.alive /\ t \in Waiters /\ t # current'
                                       /\ "WAS_LINKED" \in k'.flags[t]
                                       /\ "LINKED" \notin k'.flags[t]
  <2>1. CASE t = u
    BY <1>2, <2>1
  <2>2. CASE t # u
    BY <1>1, <1>2, <2>2 DEF Lives
  <2>3. QED
    BY <2>1, <2>2
<1>6. QED
  BY <1>3, <1>4, <1>5 DEF Lives

\* The handlers are as active as before, and their IRQs as masked.
LEMMA SameVectors ==
  ASSUME Vectors, UNCHANGED irqVars, k.alive \subseteq k'.alive,
         \A h \in Handlers : Active(h)' <=> Active(h)
  PROVE  Vectors'
<1>1. UNCHANGED <<irqvecs, irq_type, masked>>
  BY DEF irqVars
<1>2. IdleHandlersArmed'
  BY <1>1 DEF Vectors, IdleHandlersArmed
<1>3. QED
  BY <1>1, <1>2 DEF Vectors

\* Static tasks aside, nothing changes in who is alive and who holds references.
LEMMA SameCounts ==
  ASSUME Counts, UNCHANGED <<irqvecs, extra, own>>, k'.refcount = k.refcount,
         k'.alive \ Static = k.alive \ Static
  PROVE  Counts'
BY DEF Counts, HasVec, B2N

\* A task that is not a handler is linked: what the handlers do is the same.
LEMMA OtherActive ==
  ASSUME IInv, NEW u \in Tasks \ Handlers, NEW fs, k'.flags = [k.flags EXCEPT ![u] = fs],
         UNCHANGED waits
  PROVE  \A h \in Handlers : Active(h)' <=> Active(h)
<1>1. KType(k) /\ Handlers \subseteq Tasks
  BY Types, SchedAssumption DEF IInv
<1>2. \A h \in Handlers : k'.flags[h] = k.flags[h] /\ waits'[h] = waits[h]
  BY <1>1 DEF KType
<1>3. QED
  BY <1>2 DEF Active

\* The creator links a task that it created.
LEMMA LinkCreatedStep ==
  ASSUME IInv, NEW t \in Tasks, NEW u \in Tasks, LinkCreated(t, u) PROVE IInv'
<1>1. /\ u \in k.alive \ (Static \cup Handlers) /\ "WAS_LINKED" \notin k.flags[u]
      /\ k' = TaskLink(k, u)
      /\ UNCHANGED <<current, irqVars, evVars, fire, idle, bounds, refVars, panic>>
  BY DEF LinkCreated
<1> DEFINE fs == k.flags[u] \cup {"WAS_LINKED", "LINKED"}
<1>2. KType(k) /\ GoodRing(k) /\ OtherTypes /\ Lives
  BY Types DEF IInv
<1>3. /\ KType(k') /\ GoodRing(k') /\ k'.alive = k.alive /\ k'.refcount = k.refcount
      /\ k'.flags = [k.flags EXCEPT ![u] = fs]
  BY <1>1, <1>2, LinkFields
<1>4. OtherTypes'
  BY <1>1, <1>2 DEF OtherTypes, irqVars, evVars, refVars, bounds
<1>5. Lives'
  <2>1. Owned(u) /\ waits[u] = NoEvent /\ "PLEASE_DEREF" \notin k.flags[u]
    BY <1>1, <1>2 DEF Lives
  <2>2. u \in own' \cup Static /\ UNCHANGED <<own, waits, current>>
    BY <1>1, <2>1 DEF Owned, evVars, refVars
  <2>3. k'.alive = k.alive \cup {u}
    BY <1>1, <1>3
  <2>4. "LINKED" \in fs /\ "WAS_LINKED" \in fs /\ "PLEASE_DEREF" \notin fs
    BY <2>1
  <2> HIDE DEF fs
  <2>5. QED
    BY <1>3, <2>1, <2>2, <2>3, <2>4, LinkLives
<1> HIDE DEF fs
<1>6. Vectors'
  <2>1. \A h \in Handlers : Active(h)' <=> Active(h)
    BY <1>1, <1>3, OtherActive DEF evVars
  <2>2. QED
    BY <1>1, <1>3, <2>1, SameVectors DEF IInv
<1>7. Counts' /\ Queues'
  BY <1>1, <1>3, Frames DEF IInv, irqVars, evVars, refVars
<1>8. QED
  BY <1>1, <1>3, <1>4, <1>5, <1>6, <1>7, Types DEF IInv, OnlyExitPanics

\* task_register of a static task, running already or not.
LEMMA TaskRegisterStep ==
  ASSUME IInv, NEW t \in Tasks, NEW u \in Tasks, TaskRegister(t, u) PROVE IInv'
<1> DEFINE g == k.flags[u] \cap {"WAS_LINKED"}
           fs == g \cup {"WAS_LINKED", "LINKED"}
           s1 == [k EXCEPT !.alive = @ \cup {u}]
           s == [k EXCEPT !.alive = @ \cup {u}, !.flags[u] = @ \cap {"WAS_LINKED"}]
<1>1. /\ u \in Static \ (Handlers \cup {SchedTask}) /\ (u \in Waiters => u \notin k.alive)
      /\ k' = TaskLink(s, u)
      /\ UNCHANGED <<current, irqVars, evVars, fire, idle, bounds, refVars, panic>>
  BY DEF TaskRegister
<1>2. KType(k) /\ GoodRing(k) /\ OtherTypes /\ Lives
  BY Types DEF IInv
<1>3. KType(s1) /\ GoodRing(s1) /\ s1.alive = k.alive \cup {u} /\ s1.refcount = k.refcount
      /\ s1.flags = k.flags
  <2>1. /\ s1.alive = k.alive \cup {u} /\ s1.refcount = k.refcount /\ s1.flags = k.flags
        /\ s1.next = k.next /\ s1.prev = k.prev /\ s1.head = k.head
    BY <1>2 DEF KType
  <2>2. KType(s1)
    BY <1>2 DEF KType
  <2> HIDE DEF s1
  <2>3. GoodRing(s1)
    BY <1>2, <2>1, CountRing
  <2>4. QED
    BY <2>1, <2>2, <2>3
<1>4. KType(s) /\ GoodRing(s) /\ s.alive = k.alive \cup {u} /\ s.refcount = k.refcount
      /\ s.flags = [k.flags EXCEPT ![u] = g]
  <2>1. s = [s1 EXCEPT !.flags[u] = g]
    BY <1>2 DEF KType
  <2>2. u \in s1.alive /\ g \in SUBSET Flags /\ ("WAS_LINKED" \in g <=> "WAS_LINKED" \in s1.flags[u])
    BY <1>3 DEF Flags
  <2> HIDE DEF s1, s, g
  <2>3. QED
    BY <1>3, <2>1, <2>2, FlagFields
<1> HIDE DEF s1, s, g
<1>5. /\ KType(k') /\ GoodRing(k') /\ k'.alive = k.alive \cup {u} /\ k'.refcount = k.refcount
      /\ k'.flags = [k.flags EXCEPT ![u] = fs]
  <2>1. u \in s.alive
    BY <1>4
  <2>2. /\ KType(k') /\ GoodRing(k') /\ k'.alive = s.alive /\ k'.refcount = s.refcount
        /\ k'.flags = [s.flags EXCEPT ![u] = @ \cup {"WAS_LINKED", "LINKED"}]
    BY <1>1, <1>4, <2>1, LinkFields
  <2>3. QED
    BY <1>2, <1>4, <2>2 DEF KType
<1>6. OtherTypes'
  BY <1>1, <1>2 DEF OtherTypes, irqVars, evVars, refVars, bounds
<1>7. "LINKED" \in fs /\ "WAS_LINKED" \in fs /\ "PLEASE_DEREF" \notin fs
  BY DEF g
<1> HIDE DEF fs
<1>8. Lives'
  <2>1. waits[u] = NoEvent
    BY <1>1, <1>2 DEF Lives
  <2>2. UNCHANGED <<own, waits, current>>
    BY <1>1 DEF evVars, refVars
  <2>3. QED
    BY <1>1, <1>5, <1>7, <2>1, <2>2, LinkLives
<1>9. Vectors'
  <2>1. \A h \in Handlers : Active(h)' <=> Active(h)
    BY <1>1, <1>5, OtherActive DEF evVars
  <2>2. QED
    BY <1>1, <1>5, <2>1, SameVectors DEF IInv
<1>10. Counts'
  BY <1>1, <1>5, SameCounts DEF IInv, irqVars, refVars
<1>11. Queues'
  BY <1>1, Frames DEF IInv, evVars
<1>12. QED
  BY <1>1, <1>5, <1>6, <1>8, <1>9, <1>10, <1>11, Types DEF IInv, OnlyExitPanics

\* task_create_extended: nobody knows the new task.
LEMMA CreatedFields ==
  ASSUME IInv, NEW u \in Tasks, u \notin k.alive, u \notin Static
  PROVE  /\ KType(Created(u)) /\ GoodRing(Created(u))
         /\ Created(u).alive = k.alive \cup {u} /\ Created(u).flags = k.flags
         /\ Created(u).refcount = [k.refcount EXCEPT ![u] = 1]
         /\ k.flags[u] = {} /\ waits[u] = NoEvent /\ ~HasVec(u) /\ extra[u] = 0 /\ u \notin own
<1> DEFINE r == Created(u)
<1>1. KType(k) /\ GoodRing(k) /\ OtherTypes /\ Lives /\ Counts /\ Vectors
  BY Types DEF IInv
<1>2. GLOBAL \in Nat /\ 1 \in 0..GLOBAL
  BY GlobalBound
<1>3. /\ r.alive = k.alive \cup {u} /\ r.flags = k.flags /\ r.head = k.head
      /\ r.refcount = [k.refcount EXCEPT ![u] = 1] /\ r.next = k.next /\ r.prev = k.prev
  BY <1>1 DEF KType, Created
<1>4. KType(r)
  BY <1>1, <1>2 DEF KType, Created
<1> HIDE DEF r
<1>5. GoodRing(r)
  BY <1>1, <1>3, CountRing
<1>6. k.flags[u] = {} /\ waits[u] = NoEvent
  BY <1>1 DEF GoodRing, Lives
<1>7. ~HasVec(u)
  BY <1>1, SchedAssumption DEF Vectors, HasVec
<1>8. extra[u] = 0 /\ u \notin own
  BY <1>1, SchedAssumption DEF Counts, OtherTypes
<1>9. QED
  BY <1>3, <1>4, <1>5, <1>6, <1>7, <1>8 DEF r

\* The one reference of a new task is its own.
LEMMA CreatedCounts ==
  ASSUME IInv, NEW u \in Tasks, u \notin k.alive, u \notin Static,
         k'.alive = k.alive \cup {u}, k'.refcount = [k.refcount EXCEPT ![u] = 1],
         own' = own \cup {u}, UNCHANGED <<irqvecs, extra>>
  PROVE  Counts'
<1>1. KType(k) /\ Counts /\ ~HasVec(u) /\ extra[u] = 0 /\ OtherTypes
  BY CreatedFields, Types DEF IInv
<1>2. k'.refcount[u] = 1 /\ \A t \in Tasks \ {u} : k'.refcount[t] = k.refcount[t]
  BY <1>1 DEF KType
<1>3. \A t \in Tasks : HasVec(t)' <=> HasVec(t)
  BY DEF HasVec
<1>4. \A t \in Static : k'.refcount[t] = GLOBAL
  BY <1>1, <1>2, SchedAssumption DEF Counts
<1>5. ASSUME NEW t \in k'.alive \ Static
      PROVE  k'.refcount[t] = B2N(HasVec(t)') + extra'[t] + B2N(t \in own')
  <2>1. CASE t = u
    BY <1>1, <1>2, <1>3, <2>1 DEF B2N
  <2>2. CASE t # u
    <3>1. t \in Tasks \ {u} /\ t \in k.alive \ Static
      BY <1>1, <2>2 DEF KType
    <3>2. k.refcount[t] = B2N(HasVec(t)) + extra[t] + B2N(t \in own)
      BY <1>1, <3>1 DEF Counts
    <3>3. (t \in own') <=> (t \in own)
      BY <2>2
    <3>4. B2N(HasVec(t)') = B2N(HasVec(t)) /\ B2N(t \in own') = B2N(t \in own)
      BY <1>3, <3>1, <3>3 DEF B2N
    <3>5. QED
      BY <1>2, <3>1, <3>2, <3>4
  <2>3. QED
    BY <2>1, <2>2
<1>6. own' \subseteq k'.alive \ Static
  BY <1>1 DEF Counts
<1>7. \A t \in Tasks : extra'[t] > 0 => t \in k'.alive \ Static
  BY <1>1 DEF Counts
<1>8. QED
  BY <1>4, <1>5, <1>6, <1>7 DEF Counts, B2N

\* task_create: the new task is runnable.
LEMMA TaskCreateStep ==
  ASSUME IInv, NEW t \in Tasks, NEW u \in Tasks, TaskCreate(t, u) PROVE IInv'
<1> DEFINE fs == {"WAS_LINKED", "LINKED"}
           s == Created(u)
<1>1. /\ u \notin k.alive /\ u \notin Static /\ u \notin Handlers /\ creates < MaxCreates
      /\ k' = TaskLink(s, u) /\ own' = own \cup {u} /\ creates' = creates + 1
      /\ UNCHANGED <<current, irqVars, evVars, fire, idle, irqs, extra, panic>>
  BY DEF TaskCreate
<1>2. KType(k) /\ OtherTypes /\ Lives
  BY Types DEF IInv
<1>3. /\ KType(s) /\ GoodRing(s) /\ s.alive = k.alive \cup {u} /\ s.flags = k.flags
      /\ s.refcount = [k.refcount EXCEPT ![u] = 1] /\ k.flags[u] = {} /\ waits[u] = NoEvent
  BY <1>1, CreatedFields
<1> HIDE DEF s
<1>4. /\ KType(k') /\ GoodRing(k') /\ k'.alive = k.alive \cup {u}
      /\ k'.refcount = [k.refcount EXCEPT ![u] = 1] /\ k'.flags = [k.flags EXCEPT ![u] = fs]
  <2>1. u \in s.alive
    BY <1>3
  <2>2. /\ KType(k') /\ GoodRing(k') /\ k'.alive = s.alive /\ k'.refcount = s.refcount
        /\ k'.flags = [s.flags EXCEPT ![u] = @ \cup {"WAS_LINKED", "LINKED"}]
    BY <1>1, <1>3, <2>1, LinkFields
  <2>3. QED
    BY <1>2, <1>3, <2>2 DEF KType
<1>5. OtherTypes'
  BY <1>1, <1>2, SchedAssumption DEF OtherTypes, irqVars, evVars
<1>6. "LINKED" \in fs /\ "WAS_LINKED" \in fs /\ "PLEASE_DEREF" \notin fs
  OBVIOUS
<1> HIDE DEF fs
<1>7. Lives'
  <2>1. UNCHANGED <<waits, current>>
    BY <1>1 DEF evVars
  <2>2. own \subseteq own' /\ u \in own' \cup Static
    BY <1>1
  <2>3. QED
    BY <1>3, <1>4, <1>6, <2>1, <2>2, LinkLives
<1>8. Vectors'
  <2>1. \A h \in Handlers : Active(h)' <=> Active(h)
    BY <1>1, <1>4, OtherActive DEF evVars
  <2>2. QED
    BY <1>1, <1>4, <2>1, SameVectors DEF IInv
<1>9. Counts'
  BY <1>1, <1>4, CreatedCounts DEF irqVars
<1>10. Queues'
  BY <1>1, Frames DEF IInv, evVars
<1>11. QED
  BY <1>1, <1>4, <1>5, <1>7, <1>8, <1>9, <1>10, Types DEF IInv, OnlyExitPanics

\* task_create_extended without TASK_LINKED.
LEMMA TaskCreateUnlinkedStep ==
  ASSUME IInv, NEW t \in Tasks, NEW u \in Tasks, TaskCreateUnlinked(t, u) PROVE IInv'
<1>1. /\ u \notin k.alive /\ u \notin Static /\ creates < MaxCreates
      /\ k' = Created(u) /\ own' = own \cup {u} /\ creates' = creates + 1
      /\ UNCHANGED <<current, irqVars, evVars, fire, idle, irqs, extra, panic>>
  BY DEF TaskCreateUnlinked
<1>2. KType(k) /\ OtherTypes /\ Lives /\ Vectors
  BY Types DEF IInv
<1>3. /\ KType(k') /\ GoodRing(k') /\ k'.alive = k.alive \cup {u} /\ k'.flags = k.flags
      /\ k'.refcount = [k.refcount EXCEPT ![u] = 1] /\ k.flags[u] = {}
  BY <1>1, CreatedFields
<1>4. OtherTypes'
  BY <1>1, <1>2, SchedAssumption DEF OtherTypes, irqVars, evVars
<1>5. Lives'
  <2>1. UNCHANGED <<waits, current>>
    BY <1>1 DEF evVars
  <2>2. QED
    BY <1>1, <1>2, <1>3, <2>1 DEF Lives, Owned
<1>6. Vectors'
  <2>1. \A h \in Handlers : Active(h)' <=> Active(h)
    BY <1>1, <1>3 DEF evVars, Active
  <2>2. QED
    BY <1>1, <1>2, <1>3, <2>1, SameVectors
<1>7. Counts'
  BY <1>1, <1>3, CreatedCounts DEF irqVars
<1>8. Queues'
  BY <1>1, Frames DEF IInv, evVars
<1>9. QED
  BY <1>1, <1>3, <1>4, <1>5, <1>6, <1>7, <1>8, Types DEF IInv, OnlyExitPanics

\* An IRQ: the handler is linked and comes next.  It does not wait, since its
\* IRQ would be masked.
LEMMA IrqStep == ASSUME IInv, NEW i \in Irqs, Irq(i) PROVE IInv'
<1>0. PICK h : h = irqvecs[i]
  OBVIOUS
<1> DEFINE k1 == TaskLink(k, h)
           fs == k.flags[h] \cup {"WAS_LINKED", "LINKED"}
<1>1. KType(k) /\ GoodRing(k) /\ OtherTypes /\ Lives /\ Vectors /\ Handlers \subseteq Tasks
  BY Types, SchedAssumption DEF IInv
<1>2. i \notin masked /\ irqs < MaxIrqs
  BY DEF Irq
<1>3. h # NoTask /\ h \in k.alive /\ h \in Handlers /\ h \in Tasks
  BY <1>0, <1>1, <1>2 DEF Vectors, OtherTypes
<1>4. /\ KType(k1) /\ GoodRing(k1) /\ k1.alive = k.alive /\ k1.refcount = k.refcount
      /\ k1.flags = [k.flags EXCEPT ![h] = fs] /\ h \in RingOf(k1)
  BY <1>1, <1>3, LinkFields
<1>5. k1.flags[h] = fs
  BY <1>1, <1>3, <1>4 DEF KType
<1>6. /\ k' = [k1 EXCEPT !.head = h]
      /\ irq_type' = [irq_type EXCEPT ![h] = i]
      /\ masked' = IF AckMasks THEN masked \cup {i} ELSE masked
      /\ irqs' = irqs + 1
      /\ idle' = [idle EXCEPT !.wfe = FALSE]
      /\ UNCHANGED <<current, irqvecs, evVars, fire, creates, refVars, panic>>
  <2>1. "LINKED" \in k1.flags[h]
    BY <1>5
  <2> HIDE DEF k1, fs
  <2>2. QED
    BY <1>0, <1>3, <2>1 DEF Irq, k1
<1> HIDE DEF k1
<1>7. /\ KType(k') /\ GoodRing(k') /\ k'.alive = k.alive /\ k'.refcount = k.refcount
      /\ k'.flags = [k.flags EXCEPT ![h] = fs]
  BY <1>4, <1>6, HeadFields
<1>8. OtherTypes'
  <2>1. idle' \in [preempted : BOOLEAN, wfe : BOOLEAN]
    <3>1. idle \in [preempted : BOOLEAN, wfe : BOOLEAN]
      BY <1>1 DEF OtherTypes
    <3>2. QED
      BY <1>6, <3>1
  <2>2. irqs' \in 0..MaxIrqs
    BY <1>1, <1>2, <1>6, SchedAssumption DEF OtherTypes
  <2>3. irq_type' \in [Tasks -> Irqs \cup {NoIrq}] /\ masked' \subseteq Irqs
    BY <1>1, <1>3, <1>6 DEF OtherTypes
  <2>4. QED
    BY <1>1, <1>6, <2>1, <2>2, <2>3 DEF OtherTypes, evVars, refVars
<1>9. waits[h] = NoEvent /\ "PLEASE_DEREF" \notin k.flags[h] /\ Owned(h)
  <2>1. "PLEASE_DEREF" \notin k.flags[h] /\ Owned(h)
    BY <1>1, <1>3, SchedAssumption DEF Lives
  <2>2. SUFFICES ASSUME waits[h] # NoEvent PROVE FALSE
    BY <2>1
  <2>3. h \in Waiters /\ Active(h)
    BY <1>1, <1>3, <2>2 DEF Lives, Active
  <2>4. AckMasks
    BY <1>3, <2>3, SchedAssumption
  <2>5. irq_type[h] \in masked /\ irq_type[h] \in Irqs /\ irqvecs[irq_type[h]] = h
    BY <1>1, <1>3, <2>3, <2>4 DEF Vectors
  <2>6. irq_type[h] = i
    BY <1>0, <1>1, <1>3, <2>5 DEF Vectors
  <2>7. QED
    BY <1>2, <2>5, <2>6
<1>10. "LINKED" \in fs /\ "WAS_LINKED" \in fs /\ "PLEASE_DEREF" \notin fs
  BY <1>9
<1> HIDE DEF fs
<1>11. Lives'
  <2>1. h \in own' \cup Static /\ UNCHANGED <<own, waits, current>>
    BY <1>6, <1>9 DEF Owned, evVars, refVars
  <2>2. k'.alive = k.alive \cup {h}
    BY <1>3, <1>7
  <2>3. QED
    BY <1>3, <1>7, <1>9, <1>10, <2>1, <2>2, LinkLives
<1>12. Vectors'
  <2>1. Active(h)' /\ \A g \in Handlers \ {h} : Active(g)' <=> Active(g)
    BY <1>1, <1>3, <1>6, <1>7, <1>10 DEF Active, KType, evVars
  <2>2. /\ irq_type'[h] = i /\ \A g \in Handlers \ {h} : irq_type'[g] = irq_type[g]
        /\ irqvecs' = irqvecs /\ masked \subseteq masked' /\ masked' \subseteq masked \cup {i}
        /\ AckMasks => i \in masked'
    BY <1>1, <1>3, <1>6 DEF OtherTypes
  <2>3. ASSUME NEW j \in Irqs, NEW g, g = irqvecs[j], g # NoTask, j \in masked' PROVE Active(g)'
    <3>1. CASE g = h
      BY <2>1, <3>1
    <3>2. CASE g # h
      <4>1. j \in masked
        BY <1>0, <2>2, <2>3, <3>2
      <4>2. Active(g) /\ g \in Handlers
        BY <1>1, <2>3, <4>1 DEF Vectors, IdleHandlersArmed
      <4>3. QED
        BY <2>1, <3>2, <4>2
    <3>3. QED
      BY <3>1, <3>2
  <2>4. IdleHandlersArmed'
    BY <2>2, <2>3 DEF IdleHandlersArmed
  <2>5. ASSUME NEW g \in Handlers, Active(g)'
        PROVE  irq_type'[g] \in Irqs /\ irqvecs'[irq_type'[g]] = g
               /\ (AckMasks => irq_type'[g] \in masked')
    <3>1. CASE g = h
      BY <1>0, <2>2, <3>1
    <3>2. CASE g # h
      <4>1. Active(g) /\ irq_type'[g] = irq_type[g]
        BY <2>1, <2>2, <2>5, <3>2
      <4>2. QED
        BY <1>1, <2>2, <4>1 DEF Vectors
    <3>3. QED
      BY <3>1, <3>2
  <2>6. \A j \in Irqs : irqvecs'[j] = NoTask => j \in masked'
    BY <1>1, <2>2 DEF Vectors
  <2>7. QED
    BY <1>1, <1>7, <2>2, <2>4, <2>5, <2>6 DEF Vectors
<1>13. Counts' /\ Queues'
  BY <1>6, <1>7, Frames DEF IInv, evVars, refVars
<1>14. QED
  BY <1>6, <1>7, <1>8, <1>11, <1>12, <1>13, Types DEF IInv, OnlyExitPanics

------------------------------------------------------------------------------
(* Events.                                                                 *)

\* A queue looks only at the links of its members.
LEMMA QueueFrame ==
  ASSUME NEW w, NEW f, NEW next, NEW n2, QueueOf(f, w, next), \A t \in w : n2[t] = next[t]
  PROVE  QueueOf(f, w, n2)
<1>1. ASSUME NEW X \in SUBSET w, f \in X, \A t \in X : n2[t] \in X \cup {NoTask}
      PROVE  X = w
  <2>1. \A t \in X : next[t] \in X \cup {NoTask}
    BY <1>1
  <2>2. QED
    BY <1>1, <2>1, Zenon DEF QueueOf
<1>2. QED
  BY <1>1 DEF QueueOf

\* event_fire links the task at its cursor and goes on to the next.
LEMMA FireStepStep == ASSUME IInv, FireStep PROVE IInv'
<1>0. PICK a, e : a = fire.at /\ e = fire.ev
  OBVIOUS
<1> DEFINE fs == k.flags[a] \cup {"WAS_LINKED", "LINKED"}
<1>1. /\ a # NoTask /\ k' = TaskLink(k, a) /\ waits' = [waits EXCEPT ![a] = NoEvent]
      /\ fire' = [fire EXCEPT !.at = eq_next[a]]
      /\ UNCHANGED <<current, irqVars, task_head, eq_next, idle, bounds, refVars, panic>>
  BY <1>0 DEF FireStep
<1>2. KType(k) /\ GoodRing(k) /\ OtherTypes /\ Lives /\ Vectors /\ Queues
  BY Types DEF IInv
<1>3. a \in Tasks /\ e \in Events /\ NoEvent \notin Events
  BY <1>0, <1>1, <1>2, SchedAssumption DEF OtherTypes, Queues, NoFire
<1>4. QueueOf(a, Waiting(e), eq_next) /\ a \in Waiting(e)
  <2>1. QueueOf(a, Waiting(e), eq_next)
    BY <1>0, <1>2, <1>3 DEF Queues, First
  <2>2. QED
    BY <1>1, <2>1 DEF QueueOf
<1>5. waits[a] = e /\ a \in k.alive /\ Owned(a) /\ "PLEASE_DEREF" \notin k.flags[a]
  BY <1>2, <1>3, <1>4 DEF Waiting, Lives
<1>6. /\ KType(k') /\ GoodRing(k') /\ k'.alive = k.alive /\ k'.refcount = k.refcount
      /\ k'.flags = [k.flags EXCEPT ![a] = fs]
  BY <1>1, <1>2, <1>5, LinkFields
<1>7. fire'.ev = e /\ fire'.at = eq_next[a] /\ fire' \in [ev : Events \cup {NoEvent}, at : Tasks \cup {NoTask}]
  BY <1>0, <1>1, <1>2, <1>3 DEF OtherTypes
<1>8. waits'[a] = NoEvent /\ (\A t \in Tasks \ {a} : waits'[t] = waits[t])
      /\ waits' \in [Tasks -> Events \cup {NoEvent}]
  BY <1>1, <1>2, <1>3 DEF OtherTypes
<1>9. OtherTypes'
  BY <1>1, <1>2, <1>7, <1>8 DEF OtherTypes, irqVars, refVars, bounds
<1>10. "LINKED" \in fs /\ "WAS_LINKED" \in fs /\ "PLEASE_DEREF" \notin fs
  BY <1>5
<1> HIDE DEF fs
<1>11. Lives'
  <2>1. a \in own' \cup Static /\ UNCHANGED <<own, current>>
    BY <1>1, <1>5 DEF Owned, refVars
  <2>2. k'.alive = k.alive \cup {a}
    BY <1>5, <1>6
  <2>3. QED
    BY <1>3, <1>6, <1>8, <1>10, <2>1, <2>2, LinkLives
<1>12. Vectors'
  <2>1. Handlers \subseteq Tasks
    BY SchedAssumption
  <2>2. \A h \in Handlers : Active(h)' <=> Active(h)
    <3>1. SUFFICES ASSUME NEW h \in Handlers PROVE Active(h)' <=> Active(h)
      OBVIOUS
    <3>2. CASE h = a
      <4>1. Active(h)
        BY <1>3, <1>5, <3>2 DEF Active
      <4>2. Active(h)'
        BY <1>2, <1>3, <1>6, <1>10, <3>2 DEF Active, KType
      <4>3. QED
        BY <4>1, <4>2
    <3>3. CASE h # a
      BY <1>2, <1>6, <1>8, <2>1, <3>3 DEF Active, KType
    <3>4. QED
      BY <3>2, <3>3
  <2>3. QED
    BY <1>1, <1>2, <1>6, <2>2, SameVectors
<1>13. Queues'
  <2>1. ASSUME NEW x \in Events PROVE QueueOf(First(x), Waiting(x), eq_next)'
    <3>1. CASE x = e
      <4>1. First(x)' = eq_next[a] /\ Waiting(x)' = Waiting(e) \ {a}
        BY <1>1, <1>3, <1>7, <1>8, <3>1 DEF First, Waiting
      <4>2. Waiting(e) \in SUBSET Tasks
        BY DEF Waiting
      <4>3. QueueOf(eq_next[a], Waiting(e) \ {a}, eq_next)
        BY <1>4, <4>2, QueuePop
      <4>4. QED
        BY <1>1, <4>1, <4>3
    <3>2. CASE x # e
      <4>1. First(x)' = First(x) /\ Waiting(x)' = Waiting(x)
        BY <1>0, <1>1, <1>3, <1>5, <1>7, <1>8, <3>2 DEF First, Waiting
      <4>2. QED
        BY <1>1, <1>2, <4>1 DEF Queues
    <3>3. QED
      BY <3>1, <3>2
  <2>2. QED
    BY <1>3, <1>7, <2>1 DEF Queues
<1>14. Counts'
  BY <1>1, <1>6, Frames DEF IInv, irqVars, refVars
<1>15. QED
  BY <1>1, <1>6, <1>9, <1>11, <1>12, <1>13, <1>14, Types DEF IInv, OnlyExitPanics

\* The loop of event_fire begins or ends: no queue changes.
LEMMA FireEdgeStep ==
  ASSUME IInv, UNCHANGED <<k, current, irqVars, eq_next, waits, idle, bounds, refVars, panic>>,
         task_head' \in [Events -> Tasks \cup {NoTask}],
         fire' \in [ev : Events \cup {NoEvent}, at : Tasks \cup {NoTask}],
         fire' = NoFire \/ fire'.ev \in Events,
         \A e \in Events : First(e)' = First(e)
  PROVE  IInv'
<1>1. OtherTypes'
  BY Types DEF IInv, OtherTypes, irqVars, refVars, bounds
<1>2. KType(k') /\ GoodRing(k')
  BY Types DEF IInv
<1>3. Counts' /\ Lives' /\ Vectors'
  BY Frames DEF IInv, irqVars, refVars
<1>4. Queues'
  <2>1. \A e \in Events : Waiting(e)' = Waiting(e)
    BY DEF Waiting
  <2>2. QED
    BY <2>1 DEF IInv, Queues, NoFire
<1>5. QED
  BY <1>1, <1>2, <1>3, <1>4, Types DEF IInv, OnlyExitPanics

\* event_fire begins with the first waiter.
LEMMA EventFireStep ==
  ASSUME IInv, NEW t \in Tasks, NEW e \in Events, EventFire(t, e) PROVE IInv'
<1>1. /\ fire = NoFire /\ fire' = [ev |-> e, at |-> task_head[e]]
      /\ UNCHANGED <<k, current, irqVars, evVars, idle, bounds, refVars, panic>>
  BY DEF EventFire, Runs, Up
<1>2. task_head \in [Events -> Tasks \cup {NoTask}] /\ NoEvent \notin Events
  BY SchedAssumption DEF IInv, TypeOK
<1>3. fire' \in [ev : Events \cup {NoEvent}, at : Tasks \cup {NoTask}] /\ fire'.ev = e
      /\ fire'.at = task_head[e] /\ fire.ev = NoEvent
  BY <1>1, <1>2 DEF NoFire
<1>4. UNCHANGED <<task_head, eq_next, waits>>
  BY <1>1 DEF evVars
<1>5. \A x \in Events : First(x)' = First(x)
  BY <1>2, <1>3, <1>4 DEF First
<1>6. QED
  BY <1>1, <1>2, <1>3, <1>4, <1>5, FireEdgeStep

\* event_fire ends with an empty queue.
LEMMA FireDoneStep == ASSUME IInv, FireDone PROVE IInv'
<1>0. PICK e : e = fire.ev
  OBVIOUS
<1>1. /\ fire # NoFire /\ fire.at = NoTask /\ fire' = NoFire
      /\ task_head' = [task_head EXCEPT ![e] = NoTask]
      /\ UNCHANGED <<k, current, irqVars, eq_next, waits, idle, bounds, refVars, panic>>
  BY <1>0 DEF FireDone
<1>2. task_head \in [Events -> Tasks \cup {NoTask}] /\ NoEvent \notin Events /\ e \in Events
  BY <1>0, <1>1, SchedAssumption DEF IInv, TypeOK, Queues
<1>3. fire' \in [ev : Events \cup {NoEvent}, at : Tasks \cup {NoTask}] /\ fire'.ev = NoEvent
  BY <1>1 DEF NoFire
<1>4. task_head' \in [Events -> Tasks \cup {NoTask}]
  BY <1>1, <1>2
<1>5. \A x \in Events : First(x)' = First(x)
  BY <1>0, <1>1, <1>2, <1>3 DEF First
<1>6. QED
  BY <1>1, <1>3, <1>4, <1>5, FireEdgeStep

\* The running task gives up the CPU and is no longer runnable: it waits, or
\* has left its handler, or has exited.
LEMMA UnlinkLives ==
  ASSUME IInv, NEW t \in Tasks, t = current, t # SchedTask, k'.alive = k.alive,
         NEW fs, k'.flags = [k.flags EXCEPT ![t] = fs],
         "LINKED" \notin fs, "WAS_LINKED" \in fs,
         "PLEASE_DEREF" \in fs => t \in CanExit /\ waits'[t] = NoEvent,
         waits'[t] # NoEvent => t \in Waiters,
         \A u \in Tasks \ {t} : waits'[u] = waits[u], own' = own, current' = SchedTask
  PROVE  Lives'
<1>1. KType(k) /\ Lives /\ Owned(t) /\ t \in k.alive
  BY Types DEF IInv, Lives
<1>2. /\ k'.flags[t] = fs /\ \A u \in Tasks \ {t} : k'.flags[u] = k.flags[u]
      /\ k'.alive \subseteq Tasks /\ current' \in k'.alive
  BY <1>1, SchedLives DEF KType
<1>3. ASSUME NEW u \in k'.alive
      PROVE  \/ "WAS_LINKED" \notin k'.flags[u] \/ "LINKED" \in k'.flags[u]
             \/ "PLEASE_DEREF" \in k'.flags[u] \/ waits'[u] # NoEvent \/ u \in Handlers
             => Owned(u)'
  <2>1. CASE u = t
    BY <1>1, <2>1 DEF Owned
  <2>2. CASE u # t
    <3>1. u \in Tasks \ {t} /\ u \in k.alive
      BY <1>2, <2>2
    <3>2. QED
      BY <1>1, <1>2, <3>1 DEF Lives, Owned
  <2>3. QED
    BY <2>1, <2>2
<1>4. ASSUME NEW u \in Tasks
      PROVE  /\ "LINKED" \in k'.flags[u] => "WAS_LINKED" \in k'.flags[u]
             /\ "PLEASE_DEREF" \in k'.flags[u] => /\ "LINKED" \notin k'.flags[u]
                                                  /\ "WAS_LINKED" \in k'.flags[u]
                                                  /\ waits'[u] = NoEvent
                                                  /\ u \in CanExit
             /\ waits'[u] # NoEvent => /\ u \in k'.alive /\ u \in Waiters /\ u # current'
                                       /\ "WAS_LINKED" \in k'.flags[u]
                                       /\ "LINKED" \notin k'.flags[u]
  <2>1. CASE u = t
    BY <1>1, <1>2, <2>1
  <2>2. CASE u # t
    <3>1. u \in Waiters => u # SchedTask
      BY SchedAssumption
    <3>2. QED
      BY <1>1, <1>2, <2>2, <3>1 DEF Lives
  <2>3. QED
    BY <2>1, <2>2
<1>5. QED
  BY <1>2, <1>3, <1>4 DEF Lives

\* What is known of the running task.
LEMMA RunsFacts ==
  ASSUME IInv, NEW t \in Tasks, Runs(t)
  PROVE  /\ t = current /\ t # SchedTask /\ t \in k.alive /\ fire = NoFire
         /\ "LINKED" \in k.flags[t] /\ "WAS_LINKED" \in k.flags[t]
         /\ "PLEASE_DEREF" \notin k.flags[t] /\ waits[t] = NoEvent
BY DEF IInv, Lives, Runs, Up

\* task_unlink of the running task.
LEMMA UnlinkFields ==
  ASSUME IInv, NEW t \in Tasks, Runs(t), NEW fs \in SUBSET Flags, "WAS_LINKED" \in fs,
         k' = [k EXCEPT !.flags[t] = fs]
  PROVE  /\ KType(k') /\ GoodRing(k') /\ k'.alive = k.alive /\ k'.refcount = k.refcount
         /\ k'.flags = [k.flags EXCEPT ![t] = fs]
<1>1. KType(k) /\ GoodRing(k) /\ t \in k.alive /\ "WAS_LINKED" \in k.flags[t]
  BY Types, RunsFacts DEF IInv
<1>2. QED
  BY <1>1, FlagFields

\* event_wait.
LEMMA EventWaitStep ==
  ASSUME IInv, NEW t \in Tasks, NEW e \in Events, EventWait(t, e) PROVE IInv'
<1> DEFINE fs == k.flags[t] \ {"LINKED"}
<1>1. /\ Runs(t) /\ t \in Waiters
      /\ eq_next' = [eq_next EXCEPT ![t] = task_head[e]]
      /\ task_head' = [task_head EXCEPT ![e] = t]
      /\ waits' = [waits EXCEPT ![t] = e]
      /\ k' = TaskUnlink(k, t) /\ current' = SchedTask
      /\ UNCHANGED <<irqVars, fire, idle, bounds, refVars, panic>>
  BY DEF EventWait
<1>2. KType(k) /\ GoodRing(k) /\ OtherTypes /\ Lives /\ Vectors /\ Queues
  BY Types DEF IInv
<1>3. /\ t = current /\ t # SchedTask /\ t \in k.alive /\ fire = NoFire
      /\ "LINKED" \in k.flags[t] /\ "WAS_LINKED" \in k.flags[t]
      /\ "PLEASE_DEREF" \notin k.flags[t] /\ waits[t] = NoEvent
  BY <1>1, RunsFacts
<1>4. /\ KType(k') /\ GoodRing(k') /\ k'.alive = k.alive /\ k'.refcount = k.refcount
      /\ k'.flags = [k.flags EXCEPT ![t] = fs]
  <2>1. k' = [k EXCEPT !.flags[t] = fs]
    BY <1>1 DEF TaskUnlink, ClearFlags
  <2>2. fs \in SUBSET Flags /\ "WAS_LINKED" \in fs
    BY <1>2, <1>3 DEF KType
  <2> HIDE DEF fs
  <2>3. QED
    BY <1>1, <2>1, <2>2, UnlinkFields
<1>5. /\ waits'[t] = e /\ (\A u \in Tasks \ {t} : waits'[u] = waits[u])
      /\ waits' \in [Tasks -> Events \cup {NoEvent}]
  BY <1>1, <1>2 DEF OtherTypes
<1>6. OtherTypes'
  <2>1. eq_next' \in [Tasks -> Tasks \cup {NoTask}] /\ task_head' \in [Events -> Tasks \cup {NoTask}]
    BY <1>1, <1>2 DEF OtherTypes
  <2>2. current' \in Tasks
    BY <1>1, SchedLives
  <2>3. QED
    BY <1>1, <1>2, <1>5, <2>1, <2>2 DEF OtherTypes, irqVars, refVars, bounds
<1>7. "LINKED" \notin fs /\ "WAS_LINKED" \in fs /\ "PLEASE_DEREF" \notin fs
  BY <1>3
<1> HIDE DEF fs
<1>8. Lives'
  BY <1>1, <1>3, <1>4, <1>5, <1>7, UnlinkLives DEF refVars
<1>9. Vectors'
  <2>1. Handlers \subseteq Tasks /\ NoEvent \notin Events
    BY SchedAssumption
  <2>2. \A h \in Handlers : Active(h)' <=> Active(h)
    <3>1. SUFFICES ASSUME NEW h \in Handlers PROVE Active(h)' <=> Active(h)
      OBVIOUS
    <3>2. CASE h = t
      BY <1>3, <1>5, <2>1, <3>2 DEF Active
    <3>3. CASE h # t
      BY <1>2, <1>4, <1>5, <2>1, <3>3 DEF Active, KType
    <3>4. QED
      BY <3>2, <3>3
  <2>3. QED
    BY <1>1, <1>2, <1>4, <2>2, SameVectors
<1>10. Queues'
  <2>1. fire.ev = NoEvent /\ NoEvent \notin Events /\ fire' = fire
    BY <1>1, <1>3, SchedAssumption DEF NoFire
  <2>2. ASSUME NEW x \in Events PROVE QueueOf(First(x), Waiting(x), eq_next)'
    <3>1. Waiting(x) \in SUBSET Tasks /\ t \notin Waiting(x)
          /\ QueueOf(First(x), Waiting(x), eq_next) /\ First(x) = task_head[x]
      BY <1>2, <1>3, <2>1 DEF Waiting, Queues, First
    <3>2. CASE x = e
      <4>1. First(x)' = t /\ Waiting(x)' = Waiting(x) \cup {t}
        BY <1>1, <1>2, <1>5, <2>1, <3>2 DEF First, Waiting, OtherTypes
      <4>2. eq_next' = [eq_next EXCEPT ![t] = task_head[x]]
            /\ eq_next \in [Tasks -> Tasks \cup {NoTask}]
        BY <1>1, <1>2, <3>2 DEF OtherTypes
      <4>3. QueueOf(t, Waiting(x) \cup {t}, eq_next')
        <5>1. QueueOf(task_head[x], Waiting(x), eq_next) /\ t \in Tasks \ Waiting(x)
          BY <3>1
        <5> HIDE DEF QueueOf, Waiting
        <5>2. QED
          BY <3>1, <4>2, <5>1, QueuePush
      <4>4. QED
        BY <4>1, <4>3
    <3>3. CASE x # e
      <4>1. First(x)' = First(x) /\ Waiting(x)' = Waiting(x)
        BY <1>1, <1>2, <1>3, <1>5, <2>1, <3>3 DEF First, Waiting, OtherTypes
      <4>2. \A u \in Waiting(x) : eq_next'[u] = eq_next[u]
        BY <1>1, <1>2, <3>1 DEF OtherTypes
      <4>3. QueueOf(First(x), Waiting(x), eq_next')
        BY <3>1, <4>2, QueueFrame
      <4>4. QED
        BY <4>1, <4>3
    <3>4. QED
      BY <3>2, <3>3
  <2>3. QED
    BY <1>2, <2>1, <2>2 DEF Queues
<1>11. Counts'
  BY <1>1, <1>4, Frames DEF IInv, irqVars, refVars
<1>12. QED
  BY <1>1, <1>4, <1>6, <1>8, <1>9, <1>10, <1>11, Types DEF IInv, OnlyExitPanics

------------------------------------------------------------------------------
(* The end of a task and of a handler, and the references.                 *)

\* task_exit_irq: the handler has left, and its IRQ is armed again.
LEMMA ExitIrqStep == ASSUME IInv, NEW t \in Tasks, ExitIrq(t) PROVE IInv'
<1> DEFINE fs == k.flags[t] \ {"LINKED"}
<1>0. PICK i : i = irq_type[t]
  OBVIOUS
<1>1. Runs(t) /\ t \in Handlers
  BY DEF ExitIrq
<1>2. KType(k) /\ GoodRing(k) /\ OtherTypes /\ Lives /\ Vectors
  BY Types DEF IInv
<1>3. /\ t = current /\ t # SchedTask /\ t \in k.alive
      /\ "LINKED" \in k.flags[t] /\ "WAS_LINKED" \in k.flags[t]
      /\ "PLEASE_DEREF" \notin k.flags[t] /\ waits[t] = NoEvent
  BY <1>1, RunsFacts
<1>4. /\ k' = TaskUnlink(k, t) /\ masked' = masked \ {i} /\ current' = SchedTask
      /\ UNCHANGED <<irqvecs, irq_type, evVars, fire, idle, bounds, refVars, panic>>
  BY <1>0, <1>3 DEF ExitIrq
<1>5. /\ KType(k') /\ GoodRing(k') /\ k'.alive = k.alive /\ k'.refcount = k.refcount
      /\ k'.flags = [k.flags EXCEPT ![t] = fs]
  <2>1. k' = [k EXCEPT !.flags[t] = fs]
    BY <1>4 DEF TaskUnlink, ClearFlags
  <2>2. fs \in SUBSET Flags /\ "WAS_LINKED" \in fs
    BY <1>2, <1>3 DEF KType
  <2> HIDE DEF fs
  <2>3. QED
    BY <1>1, <2>1, <2>2, UnlinkFields
<1>6. OtherTypes'
  BY <1>2, <1>4, SchedLives DEF OtherTypes, evVars, refVars, bounds
<1>7. "LINKED" \notin fs /\ "WAS_LINKED" \in fs /\ "PLEASE_DEREF" \notin fs
  BY <1>3
<1> HIDE DEF fs
<1>8. Lives'
  <2>1. UNCHANGED <<waits, own>>
    BY <1>4 DEF evVars, refVars
  <2>2. QED
    BY <1>3, <1>4, <1>5, <1>7, <2>1, UnlinkLives
<1>9. Vectors'
  <2>1. Active(t) /\ i \in Irqs /\ irqvecs[i] = t /\ t # NoTask
    BY <1>0, <1>1, <1>2, <1>3, SchedAssumption DEF Active, Vectors
  <2>2. \A h \in Handlers \ {t} : Active(h)' <=> Active(h)
    BY <1>2, <1>4, <1>5, SchedAssumption DEF Active, KType, evVars
  <2>3. ~Active(t)'
    BY <1>2, <1>3, <1>4, <1>5, <1>7 DEF Active, KType, evVars
  <2>4. ASSUME NEW h \in Handlers, Active(h)'
        PROVE  irq_type[h] \in Irqs /\ irqvecs[irq_type[h]] = h
               /\ (AckMasks => irq_type[h] \in masked')
    <3>1. h # t /\ Active(h)
      BY <2>2, <2>3, <2>4
    <3>2. irq_type[h] \in Irqs /\ irqvecs[irq_type[h]] = h /\ (AckMasks => irq_type[h] \in masked)
      BY <1>2, <3>1 DEF Vectors
    <3>3. irq_type[h] # i
      BY <2>1, <3>1, <3>2
    <3>4. QED
      BY <1>4, <3>2, <3>3
  <2>5. \A j \in Irqs : irqvecs[j] = NoTask => j \in masked'
    BY <1>2, <1>4, <2>1 DEF Vectors
  <2>6. ASSUME NEW j \in Irqs, NEW g, g = irqvecs[j], g # NoTask, j \in masked' PROVE Active(g)'
    <3>1. j \in masked /\ j # i
      BY <1>4, <2>6
    <3>2. g # t /\ g \in Handlers /\ Active(g)
      BY <1>2, <2>1, <2>6, <3>1 DEF Vectors, IdleHandlersArmed
    <3>3. QED
      BY <2>2, <3>2
  <2>7. IdleHandlersArmed'
    BY <1>4, <2>6 DEF IdleHandlersArmed
  <2>8. QED
    BY <1>2, <1>4, <1>5, <2>4, <2>5, <2>7 DEF Vectors
<1>10. Counts' /\ Queues'
  BY <1>4, <1>5, Frames DEF IInv, evVars, refVars
<1>11. QED
  BY <1>4, <1>5, <1>6, <1>8, <1>9, <1>10, Types DEF IInv, OnlyExitPanics

\* task_exit of a task that may exit.
LEMMA ExitStep == ASSUME IInv, NEW t \in Tasks, Exit(t) PROVE IInv'
<1>1. Runs(t)
  BY DEF Exit
<1>2. CASE t \in Handlers
  BY <1>2, PanicStep DEF Exit
<1>3. CASE t \notin Handlers /\ t \notin CanExit
  BY <1>3, PanicStep DEF Exit
<1>4. CASE t \notin Handlers /\ t \in CanExit
  <2>1. /\ k' = IF t \in Restarting THEN TaskLink(TaskUnlink(k, t), t)
                ELSE SetFlag(TaskUnlink(k, t), t, "PLEASE_DEREF")
        /\ current' = SchedTask
        /\ UNCHANGED <<irqVars, evVars, fire, idle, bounds, refVars, panic>>
    BY <1>4 DEF Exit
  <2>2. KType(k) /\ GoodRing(k) /\ OtherTypes /\ Lives /\ Vectors
    BY Types DEF IInv
  <2>3. /\ t = current /\ t # SchedTask /\ t \in k.alive
        /\ "LINKED" \in k.flags[t] /\ "WAS_LINKED" \in k.flags[t] /\ waits[t] = NoEvent
    BY <1>1, RunsFacts
  <2>4. CASE t \in Restarting
    <3> DEFINE s == TaskUnlink(k, t)
               fs == k.flags[t] \ {"LINKED"}
    <3>1. /\ KType(s) /\ GoodRing(s) /\ s.alive = k.alive /\ s.refcount = k.refcount
          /\ s.flags = [k.flags EXCEPT ![t] = fs]
      <4>1. s = [k EXCEPT !.flags[t] = fs]
        BY DEF TaskUnlink, ClearFlags
      <4>2. fs \in SUBSET Flags /\ ("WAS_LINKED" \in fs <=> "WAS_LINKED" \in k.flags[t])
        BY <2>2, <2>3 DEF KType
      <4> HIDE DEF s, fs
      <4>3. QED
        BY <2>2, <2>3, <4>1, <4>2, FlagFields
    <3> HIDE DEF s
    <3>2. k' = TaskLink(s, t)
      BY <2>1, <2>4 DEF s
    <3>3. /\ KType(k') /\ GoodRing(k') /\ k'.alive = s.alive /\ k'.refcount = s.refcount
          /\ k'.flags = [s.flags EXCEPT ![t] = @ \cup {"WAS_LINKED", "LINKED"}]
      BY <2>3, <3>1, <3>2, LinkFields
    <3>4. k'.flags = k.flags
      <4>1. fs \cup {"WAS_LINKED", "LINKED"} = k.flags[t]
        BY <2>3
      <4>2. k'.flags = [k.flags EXCEPT ![t] = fs \cup {"WAS_LINKED", "LINKED"}]
        BY <2>2, <3>1, <3>3 DEF KType
      <4>3. QED
        BY <2>2, <4>1, <4>2 DEF KType
    <3>5. idle' \in [preempted : BOOLEAN, wfe : BOOLEAN]
      BY <2>1, <2>2 DEF OtherTypes
    <3>6. QED
      BY <2>1, <3>1, <3>3, <3>4, <3>5, SchedLives, QuietStep
  <2>5. CASE t \notin Restarting
    <3> DEFINE fs == (k.flags[t] \ {"LINKED"}) \cup {"PLEASE_DEREF"}
    <3>1. /\ KType(k') /\ GoodRing(k') /\ k'.alive = k.alive /\ k'.refcount = k.refcount
          /\ k'.flags = [k.flags EXCEPT ![t] = fs]
      <4>1. k' = [k EXCEPT !.flags[t] = fs]
        BY <2>1, <2>2, <2>5 DEF TaskUnlink, ClearFlags, SetFlag, KType
      <4>2. fs \in SUBSET Flags /\ "WAS_LINKED" \in fs
        BY <2>2, <2>3 DEF KType, Flags
      <4> HIDE DEF fs
      <4>3. QED
        BY <1>1, <4>1, <4>2, UnlinkFields
    <3>2. "LINKED" \notin fs /\ "WAS_LINKED" \in fs
      BY <2>3
    <3> HIDE DEF fs
    <3>3. OtherTypes'
      BY <2>1, <2>2, SchedLives DEF OtherTypes, irqVars, evVars, refVars, bounds
    <3>4. Lives'
      <4>1. UNCHANGED <<waits, own>>
        BY <2>1 DEF evVars, refVars
      <4>2. QED
        BY <1>4, <2>1, <2>3, <3>1, <3>2, <4>1, UnlinkLives
    <3>5. Vectors'
      <4>1. \A h \in Handlers : Active(h)' <=> Active(h)
        BY <1>4, <2>1, <3>1, OtherActive DEF evVars
      <4>2. QED
        BY <2>1, <2>2, <3>1, <4>1, SameVectors
    <3>6. Counts' /\ Queues'
      BY <2>1, <3>1, Frames DEF IInv, irqVars, evVars, refVars
    <3>7. QED
      BY <2>1, <3>1, <3>3, <3>4, <3>5, <3>6, Types DEF IInv, OnlyExitPanics
  <2>6. QED
    BY <2>4, <2>5
<1>5. QED
  BY <1>2, <1>3, <1>4

\* The count of one task changes with the references to it.
LEMMA OneCount ==
  ASSUME IInv, NEW u \in k.alive \ Static, k'.alive = k.alive,
         NEW n, k'.refcount = [k.refcount EXCEPT ![u] = n],
         n = B2N(HasVec(u)) + extra'[u] + B2N(u \in own'), irqvecs' = irqvecs,
         \A t \in Tasks \ {u} : extra'[t] = extra[t] /\ (t \in own' <=> t \in own),
         own' \subseteq Tasks
  PROVE  Counts'
<1>1. KType(k) /\ Counts /\ OtherTypes /\ u \in Tasks
  BY Types DEF IInv, KType
<1>2. k'.refcount[u] = n /\ \A t \in Tasks \ {u} : k'.refcount[t] = k.refcount[t]
  BY <1>1 DEF KType
<1>3. \A t : HasVec(t)' <=> HasVec(t)
  BY DEF HasVec
<1>4. \A t \in Static : k'.refcount[t] = GLOBAL
  BY <1>1, <1>2, SchedAssumption DEF Counts
<1>5. ASSUME NEW t \in k'.alive \ Static
      PROVE  k'.refcount[t] = B2N(HasVec(t)') + extra'[t] + B2N(t \in own')
  <2>1. CASE t = u
    BY <1>2, <1>3, <2>1 DEF B2N
  <2>2. CASE t # u
    <3>1. t \in Tasks \ {u} /\ t \in k.alive \ Static
      BY <1>1, <2>2 DEF KType
    <3>2. k.refcount[t] = B2N(HasVec(t)) + extra[t] + B2N(t \in own)
      BY <1>1, <3>1 DEF Counts
    <3>3. (t \in own') <=> (t \in own)
      BY <3>1
    <3>4. B2N(HasVec(t)') = B2N(HasVec(t)) /\ B2N(t \in own') = B2N(t \in own)
      BY <1>3, <3>3 DEF B2N
    <3>5. QED
      BY <1>2, <3>1, <3>2, <3>4
  <2>3. QED
    BY <2>1, <2>2
<1>6. own' \subseteq k'.alive \ Static
  BY <1>1 DEF Counts
<1>7. \A t \in Tasks : extra'[t] > 0 => t \in k'.alive \ Static
  BY <1>1 DEF Counts
<1>8. QED
  BY <1>4, <1>5, <1>6, <1>7 DEF Counts, B2N

\* task_reference.
LEMMA ReferenceStep ==
  ASSUME IInv, NEW t \in Tasks, NEW u \in Tasks, Reference(t, u) PROVE IInv'
<1> DEFINE n == k.refcount[u] + 1
<1>1. /\ u \in own \/ extra[u] > 0
      /\ extra[u] < MaxExtra /\ k' = TaskReference(k, u)
      /\ extra' = [extra EXCEPT ![u] = @ + 1]
      /\ UNCHANGED <<current, irqVars, evVars, fire, idle, bounds, own, panic>>
  BY DEF Reference
<1>2. KType(k) /\ GoodRing(k) /\ OtherTypes /\ Counts
  BY Types DEF IInv
<1>3. u \in k.alive \ Static /\ extra[u] \in Nat
  BY <1>1, <1>2 DEF Counts, OtherTypes
<1>4. k.refcount[u] = B2N(HasVec(u)) + extra[u] + B2N(u \in own)
  BY <1>2, <1>3 DEF Counts
<1>5. k.refcount[u] \in 0..(GLOBAL - 1)
  BY <1>1, <1>3, <1>4, GlobalBound DEF B2N
<1>6. /\ KType(k') /\ GoodRing(k') /\ k'.alive = k.alive /\ k'.flags = k.flags
      /\ k'.refcount = [k.refcount EXCEPT ![u] = n]
  BY <1>1, <1>2, <1>3, <1>5, ReferenceFields
<1>7. extra' \in [Tasks -> 0..MaxExtra] /\ extra'[u] = extra[u] + 1
      /\ \A v \in Tasks \ {u} : extra'[v] = extra[v]
  BY <1>1, <1>2, <1>3, GlobalBound DEF OtherTypes
<1>8. OtherTypes'
  BY <1>1, <1>2, <1>7 DEF OtherTypes, irqVars, evVars, bounds
<1>9. Counts'
  <2>1. n = B2N(HasVec(u)) + extra'[u] + B2N(u \in own')
    BY <1>1, <1>3, <1>4, <1>7 DEF B2N
  <2>2. irqvecs' = irqvecs /\ own' = own /\ own \subseteq Tasks
    BY <1>1, <1>2 DEF irqVars, OtherTypes
  <2> HIDE DEF n
  <2>3. QED
    BY <1>3, <1>6, <1>7, <2>1, <2>2, OneCount
<1>10. Lives' /\ Vectors' /\ Queues'
  BY <1>1, <1>6, Frames DEF IInv, evVars
<1>11. QED
  BY <1>1, <1>6, <1>8, <1>9, <1>10, Types DEF IInv, OnlyExitPanics

\* A task is freed that does not run, cannot run and is nobody's handler: no
\* pointer to it is left.
LEMMA FreeStep ==
  ASSUME IInv, NEW u \in k.alive \ Static, u # current, "LINKED" \notin k.flags[u],
         waits[u] = NoEvent, u \notin Handlers,
         k'.alive = k.alive \ {u}, k'.refcount = [k.refcount EXCEPT ![u] = 0],
         k'.flags = [k.flags EXCEPT ![u] = {}],
         own' = own \ {u}, extra'[u] = 0, \A t \in Tasks \ {u} : extra'[t] = extra[t],
         UNCHANGED <<current, irqVars, waits>>
  PROVE  Counts' /\ Lives' /\ Vectors'
<1>1. KType(k) /\ Counts /\ OtherTypes /\ u \in Tasks /\ Lives /\ Vectors
  BY Types DEF IInv, KType
<1>2. /\ k'.refcount[u] = 0 /\ k'.flags[u] = {}
      /\ \A t \in Tasks \ {u} : k'.refcount[t] = k.refcount[t] /\ k'.flags[t] = k.flags[t]
  BY <1>1 DEF KType
<1>3. UNCHANGED <<irqvecs, irq_type, masked>>
  BY DEF irqVars
<1>4. Counts'
  <2>1. \A t : HasVec(t)' <=> HasVec(t)
    BY <1>3 DEF HasVec
  <2>2. \A t \in Static : k'.refcount[t] = GLOBAL
    BY <1>1, <1>2, SchedAssumption DEF Counts
  <2>3. ASSUME NEW t \in k'.alive \ Static
        PROVE  k'.refcount[t] = B2N(HasVec(t)') + extra'[t] + B2N(t \in own')
    <3>1. t \in Tasks \ {u} /\ t \in k.alive \ Static
      BY <1>1 DEF KType
    <3>2. k.refcount[t] = B2N(HasVec(t)) + extra[t] + B2N(t \in own)
      BY <1>1, <3>1 DEF Counts
    <3>3. (t \in own') <=> (t \in own)
      BY <3>1
    <3>4. B2N(HasVec(t)') = B2N(HasVec(t)) /\ B2N(t \in own') = B2N(t \in own)
      BY <2>1, <3>3 DEF B2N
    <3>5. QED
      BY <1>2, <3>1, <3>2, <3>4
  <2>4. own' \subseteq k'.alive \ Static
    BY <1>1 DEF Counts
  <2>5. \A t \in Tasks : extra'[t] > 0 => t \in k'.alive \ Static
    BY <1>1 DEF Counts
  <2>6. QED
    BY <2>2, <2>3, <2>4, <2>5 DEF Counts, B2N
<1>5. Lives'
  <2>1. current' \in k'.alive /\ (current' # SchedTask => "LINKED" \in k'.flags[current'])
    BY <1>1, <1>2 DEF Lives, OtherTypes
  <2>2. ASSUME NEW t \in k'.alive
        PROVE  \/ "WAS_LINKED" \notin k'.flags[t] \/ "LINKED" \in k'.flags[t]
               \/ "PLEASE_DEREF" \in k'.flags[t] \/ waits'[t] # NoEvent \/ t \in Handlers
               => Owned(t)'
    <3>1. t \in Tasks \ {u} /\ t \in k.alive
      BY <1>1 DEF KType
    <3>2. QED
      BY <1>1, <1>2, <3>1 DEF Lives, Owned
  <2>3. ASSUME NEW t \in Tasks
        PROVE  /\ "LINKED" \in k'.flags[t] => "WAS_LINKED" \in k'.flags[t]
               /\ "PLEASE_DEREF" \in k'.flags[t] => /\ "LINKED" \notin k'.flags[t]
                                                    /\ "WAS_LINKED" \in k'.flags[t]
                                                    /\ waits'[t] = NoEvent
                                                    /\ t \in CanExit
               /\ waits'[t] # NoEvent => /\ t \in k'.alive /\ t \in Waiters /\ t # current'
                                         /\ "WAS_LINKED" \in k'.flags[t]
                                         /\ "LINKED" \notin k'.flags[t]
    <3>1. CASE t = u
      BY <1>2, <3>1
    <3>2. CASE t # u
      BY <1>1, <1>2, <3>2 DEF Lives
    <3>3. QED
      BY <3>1, <3>2
  <2>4. QED
    BY <2>1, <2>2, <2>3 DEF Lives
<1>6. Vectors'
  <2>1. \A h \in Handlers : Active(h)' <=> Active(h)
    BY <1>1, <1>2, SchedAssumption DEF Active
  <2>2. IdleHandlersArmed'
    BY <1>1, <1>3, <2>1 DEF Vectors, IdleHandlersArmed
  <2>3. \A i \in Irqs : irqvecs[i] # NoTask => irqvecs[i] \in k'.alive \cap Handlers
    BY <1>1 DEF Vectors
  <2>4. QED
    BY <1>1, <1>3, <2>1, <2>2, <2>3 DEF Vectors
<1>7. QED
  BY <1>4, <1>5, <1>6

\* The count of a task that has its own reference and another one is above one.
LEMMA OwnedCount ==
  ASSUME IInv, NEW u \in k.alive
  PROVE  /\ u \in Static => k.refcount[u] = GLOBAL /\ GLOBAL # 1
         /\ u \notin Static => /\ k.refcount[u] = B2N(HasVec(u)) + extra[u] + B2N(u \in own)
                               /\ extra[u] \in 0..MaxExtra /\ k.refcount[u] < GLOBAL
                               /\ k.refcount[u] \in Nat
<1>1. u \in Tasks /\ Counts /\ OtherTypes
  BY Types DEF IInv, KType
<1>2. QED
  BY <1>1, GlobalBound DEF Counts, OtherTypes, B2N

\* task_release of a reference taken with task_reference.
LEMMA ReleaseStep ==
  ASSUME IInv, NEW t \in Tasks, NEW u \in Tasks, Release(t, u) PROVE IInv'
<1>1. Runs(t) /\ extra[u] > 0
  BY DEF Release
<1>2. KType(k) /\ GoodRing(k) /\ OtherTypes /\ Counts /\ Lives
  BY Types DEF IInv
<1>3. u \in k.alive \ Static /\ u # SchedTask /\ extra[u] \in 1..MaxExtra
  BY <1>1, <1>2, SchedAssumption DEF Counts, OtherTypes
<1>4. /\ k.refcount[u] = B2N(HasVec(u)) + extra[u] + B2N(u \in own)
      /\ k.refcount[u] < GLOBAL /\ k.refcount[u] \in Nat /\ GLOBAL \in Nat
  BY <1>3, OwnedCount, GlobalBound
<1>5. Owned(u) => k.refcount[u] # 1
  BY <1>3, <1>4 DEF Owned, B2N
<1>6. ~FreesCurrent(k, u)
  BY <1>2, <1>3, <1>5 DEF FreesCurrent, Lives
<1>7. /\ k' = TaskRelease(k, u) /\ extra' = [extra EXCEPT ![u] = @ - 1]
      /\ UNCHANGED <<current, irqVars, evVars, fire, idle, bounds, own, panic>>
  BY <1>6 DEF Release
<1>8. /\ extra' \in [Tasks -> 0..MaxExtra] /\ extra'[u] = extra[u] - 1
      /\ \A v \in Tasks \ {u} : extra'[v] = extra[v]
  <2>1. extra \in [Tasks -> 0..MaxExtra] /\ MaxExtra \in Nat
    BY <1>2, GlobalBound DEF OtherTypes
  <2>2. QED
    BY <1>3, <1>7, <2>1
<1>9. OtherTypes'
  BY <1>2, <1>7, <1>8 DEF OtherTypes, irqVars, evVars, bounds
<1>10. CASE k.refcount[u] = 1
  <2>1. /\ KType(k') /\ GoodRing(k') /\ k'.alive = k.alive \ {u}
        /\ k'.refcount = [k.refcount EXCEPT ![u] = 0] /\ k'.flags = [k.flags EXCEPT ![u] = {}]
    BY <1>2, <1>3, <1>4, <1>7, <1>10, FreeFields
  <2>2. ~Owned(u) /\ extra'[u] = 0 /\ u \notin own
    BY <1>3, <1>4, <1>5, <1>8, <1>10 DEF B2N
  <2>3. "LINKED" \notin k.flags[u] /\ waits[u] = NoEvent /\ u \notin Handlers /\ u # current
    BY <1>2, <1>3, <2>2 DEF Lives
  <2>4. own' = own \ {u} /\ UNCHANGED <<current, irqVars, waits>>
    BY <1>7, <2>2 DEF evVars
  <2>5. Counts' /\ Lives' /\ Vectors'
    BY <1>3, <1>8, <2>1, <2>2, <2>3, <2>4, FreeStep
  <2>6. Queues'
    BY <1>7, Frames DEF IInv, evVars
  <2>7. QED
    BY <1>7, <1>9, <2>1, <2>5, <2>6, Types DEF IInv, OnlyExitPanics
<1>11. CASE k.refcount[u] # 1
  <2> DEFINE n == k.refcount[u] - 1
  <2>1. k.refcount[u] \in 2..(GLOBAL - 1)
    BY <1>3, <1>4, <1>11 DEF B2N
  <2>2. /\ KType(k') /\ GoodRing(k') /\ k'.alive = k.alive
        /\ k'.refcount = [k.refcount EXCEPT ![u] = n] /\ k'.flags = k.flags
    BY <1>2, <1>3, <1>7, <2>1, ReleaseFields
  <2>3. Counts'
    <3>1. n = B2N(HasVec(u)) + extra'[u] + B2N(u \in own')
      BY <1>3, <1>4, <1>7, <1>8 DEF B2N
    <3>2. irqvecs' = irqvecs /\ own' = own /\ own \subseteq Tasks
      BY <1>2, <1>7 DEF irqVars, OtherTypes
    <3> HIDE DEF n
    <3>3. QED
      BY <1>3, <1>8, <2>2, <3>1, <3>2, OneCount
  <2>4. Lives' /\ Vectors' /\ Queues'
    BY <1>7, <2>2, Frames DEF IInv, evVars
  <2>5. QED
    BY <1>7, <1>9, <2>2, <2>3, <2>4, Types DEF IInv, OnlyExitPanics
<1>12. QED
  BY <1>10, <1>11

\* The scheduler drops the reference that an exited task has to itself.
LEMMA ReapStep == ASSUME IInv, NEW t \in Tasks, Reap(t) PROVE IInv'
<1> DEFINE fs == k.flags[t] \ {"PLEASE_DEREF"}
           s == ClearFlags(Advanced(t), t, {"PLEASE_DEREF"})
<1>1. /\ TickTask(t) /\ current = SchedTask /\ "PLEASE_DEREF" \in k.flags[t]
      /\ k' = TaskRelease(s, t) /\ own' = own \ {t}
      /\ UNCHANGED <<current, irqVars, evVars, fire, idle, bounds, extra, panic>>
  BY DEF Reap, TickTask
<1>2. KType(k) /\ GoodRing(k) /\ OtherTypes /\ Counts /\ Lives /\ Vectors
  BY Types DEF IInv
<1>3. /\ KType(Advanced(t)) /\ GoodRing(Advanced(t))
      /\ Advanced(t).alive = k.alive /\ Advanced(t).refcount = k.refcount
      /\ Advanced(t).flags = k.flags /\ t \in k.alive /\ t # SchedTask
  BY <1>1, TickFields
<1>4. /\ "LINKED" \notin k.flags[t] /\ "WAS_LINKED" \in k.flags[t] /\ waits[t] = NoEvent
      /\ t \in CanExit /\ t \notin Handlers /\ Owned(t) /\ t # current
  BY <1>1, <1>2, <1>3, SchedAssumption DEF Lives
<1>5. /\ KType(s) /\ GoodRing(s) /\ s.alive = k.alive /\ s.refcount = k.refcount
      /\ s.flags = [k.flags EXCEPT ![t] = fs]
  <2>1. s = [Advanced(t) EXCEPT !.flags[t] = fs]
    BY <1>3 DEF ClearFlags
  <2>2. fs \in SUBSET Flags /\ ("WAS_LINKED" \in fs <=> "WAS_LINKED" \in Advanced(t).flags[t])
    BY <1>2, <1>3 DEF KType
  <2> HIDE DEF s, fs
  <2>3. QED
    BY <1>3, <2>1, <2>2, FlagFields
<1> HIDE DEF s
<1>6. OtherTypes'
  BY <1>1, <1>2 DEF OtherTypes, irqVars, evVars, bounds
<1>7. Queues'
  BY <1>1, Frames DEF IInv, evVars
<1>8. ~HasVec(t)
  BY <1>2, <1>4, SchedAssumption DEF HasVec, Vectors
<1>9. CASE t \notin Static /\ k.refcount[t] = 1
  <2>1. GLOBAL # 1 /\ extra[t] = 0
    BY <1>3, <1>4, <1>9, OwnedCount, GlobalBound DEF Owned, B2N
  <2>2. /\ KType(k') /\ GoodRing(k') /\ k'.alive = s.alive \ {t}
        /\ k'.refcount = [s.refcount EXCEPT ![t] = 0] /\ k'.flags = [s.flags EXCEPT ![t] = {}]
    <3>1. t \in s.alive /\ s.refcount[t] = 1 /\ k' = TaskRelease(s, t)
      BY <1>1, <1>3, <1>5, <1>9
    <3>2. QED
      BY <1>3, <1>5, <2>1, <3>1, FreeFields
  <2>3. /\ k'.alive = k.alive \ {t} /\ k'.refcount = [k.refcount EXCEPT ![t] = 0]
        /\ k'.flags = [k.flags EXCEPT ![t] = {}]
    BY <1>2, <1>5, <2>2 DEF KType
  <2>4. UNCHANGED <<current, irqVars, waits, extra>>
    BY <1>1 DEF evVars
  <2>5. Counts' /\ Lives' /\ Vectors'
    BY <1>1, <1>3, <1>4, <1>9, <2>1, <2>3, <2>4, FreeStep
  <2>6. QED
    BY <1>1, <1>6, <1>7, <2>2, <2>5, Types DEF IInv, OnlyExitPanics
<1>10. CASE t \in Static \/ k.refcount[t] # 1
  <2>1. /\ KType(k') /\ GoodRing(k') /\ k'.alive = k.alive /\ k'.flags = [k.flags EXCEPT ![t] = fs]
        /\ Counts'
    <3>1. CASE t \in Static
      <4>1. k' = s
        BY <1>1, <1>3, <1>5, <3>1, OwnedCount DEF TaskRelease
      <4>2. own' = own /\ UNCHANGED <<irqvecs, extra>>
        BY <1>1, <1>2, <3>1 DEF Counts, irqVars
      <4>3. QED
        BY <1>2, <1>5, <4>1, <4>2, Frames
    <3>2. CASE t \notin Static
      <4> DEFINE n == k.refcount[t] - 1
      <4>1. t \in own /\ k.refcount[t] = B2N(HasVec(t)) + extra[t] + 1
            /\ k.refcount[t] < GLOBAL /\ k.refcount[t] \in Nat /\ extra[t] \in Nat
        BY <1>3, <1>4, <3>2, OwnedCount DEF Owned, B2N
      <4>2. s.refcount[t] \in 2..(GLOBAL - 1)
        BY <1>5, <1>10, <3>2, <4>1, GlobalBound DEF B2N
      <4>3. /\ KType(k') /\ GoodRing(k') /\ k'.alive = s.alive
            /\ k'.refcount = [s.refcount EXCEPT ![t] = @ - 1] /\ k'.flags = s.flags
        BY <1>1, <1>3, <1>5, <4>2, ReleaseFields
      <4>4. k'.refcount = [k.refcount EXCEPT ![t] = n]
        BY <1>2, <1>5, <4>3 DEF KType
      <4>5. n = B2N(HasVec(t)) + extra'[t] + B2N(t \in own')
        BY <1>1, <4>1 DEF B2N
      <4>6. irqvecs' = irqvecs /\ extra' = extra /\ own' \subseteq Tasks
            /\ \A v \in Tasks \ {t} : v \in own' <=> v \in own
        BY <1>1, <1>2 DEF irqVars, OtherTypes
      <4> HIDE DEF n
      <4>7. k'.alive = k.alive /\ t \in k.alive \ Static
        BY <1>3, <1>5, <3>2, <4>3
      <4>8. Counts'
        BY <4>4, <4>5, <4>6, <4>7, OneCount
      <4>9. QED
        BY <1>5, <4>3, <4>8
    <3>3. QED
      BY <3>1, <3>2
  <2>2. Vectors'
    <3>1. \A h \in Handlers : Active(h)' <=> Active(h)
      BY <1>1, <1>4, <2>1, OtherActive DEF evVars
    <3>2. QED
      BY <1>1, <1>2, <2>1, <3>1, SameVectors
  <2>3. Lives'
    <3>1. /\ k'.flags[t] = fs /\ \A u \in Tasks \ {t} : k'.flags[u] = k.flags[u]
          /\ k'.alive \subseteq Tasks /\ UNCHANGED <<waits, current>>
          /\ \A u \in Tasks \ {t} : Owned(u)' <=> Owned(u)
      BY <1>1, <1>2, <2>1 DEF KType, Owned, evVars
    <3>2. "LINKED" \notin fs /\ "WAS_LINKED" \in fs /\ "PLEASE_DEREF" \notin fs
      BY <1>4
    <3> HIDE DEF fs
    <3>3. current' \in k'.alive /\ (current' # SchedTask => "LINKED" \in k'.flags[current'])
      BY <1>1, <1>2, <2>1 DEF Lives
    <3>4. ASSUME NEW u \in k'.alive
          PROVE  \/ "WAS_LINKED" \notin k'.flags[u] \/ "LINKED" \in k'.flags[u]
                 \/ "PLEASE_DEREF" \in k'.flags[u] \/ waits'[u] # NoEvent \/ u \in Handlers
                 => Owned(u)'
      <4>1. CASE u = t
        BY <1>4, <3>1, <3>2, <4>1
      <4>2. CASE u # t
        <5>1. u \in Tasks \ {t} /\ u \in k.alive
          BY <2>1, <3>1, <4>2
        <5>2. QED
          BY <1>2, <3>1, <5>1 DEF Lives
      <4>3. QED
        BY <4>1, <4>2
    <3>5. ASSUME NEW u \in Tasks
          PROVE  /\ "LINKED" \in k'.flags[u] => "WAS_LINKED" \in k'.flags[u]
                 /\ "PLEASE_DEREF" \in k'.flags[u] => /\ "LINKED" \notin k'.flags[u]
                                                      /\ "WAS_LINKED" \in k'.flags[u]
                                                      /\ waits'[u] = NoEvent
                                                      /\ u \in CanExit
                 /\ waits'[u] # NoEvent => /\ u \in k'.alive /\ u \in Waiters /\ u # current'
                                           /\ "WAS_LINKED" \in k'.flags[u]
                                           /\ "LINKED" \notin k'.flags[u]
      <4>1. CASE u = t
        BY <1>4, <3>1, <3>2, <4>1
      <4>2. CASE u # t
        BY <1>2, <2>1, <3>1, <4>2 DEF Lives
      <4>3. QED
        BY <4>1, <4>2
    <3>6. QED
      BY <3>3, <3>4, <3>5 DEF Lives
  <2>4. QED
    BY <1>1, <1>6, <1>7, <2>1, <2>2, <2>3, Types DEF IInv, OnlyExitPanics
<1>11. QED
  BY <1>9, <1>10

\* register_irq_handler, the tasks: the new handler gains a reference and the
\* old one, which keeps its own, loses one and is not freed.
LEMMA BindFields ==
  ASSUME IInv, NEW u \in Handlers, u \in k.alive \cup Static, ~HasVec(u),
         NEW i \in Irqs, NEW old, old = irqvecs[i]
  PROVE  LET s1 == [k EXCEPT !.alive = @ \cup {u}]
             s2 == IF old = NoTask THEN s1 ELSE TaskRelease(s1, old)
             r  == TaskReference(s2, u)
         IN  /\ KType(r) /\ GoodRing(r) /\ r.alive = k.alive \cup {u} /\ r.flags = k.flags
             /\ \A t \in Tasks : r.refcount[t] = IF t \in Static THEN k.refcount[t]
                                                 ELSE IF t = old THEN k.refcount[t] - 1
                                                 ELSE IF t = u THEN k.refcount[t] + 1
                                                 ELSE k.refcount[t]
             /\ old # NoTask => ~FreesCurrent(s1, old)
<1> DEFINE s1 == [k EXCEPT !.alive = @ \cup {u}]
           s2 == IF old = NoTask THEN s1 ELSE TaskRelease(s1, old)
           r == TaskReference(s2, u)
<1>1. KType(k) /\ GoodRing(k) /\ Counts /\ Lives /\ Vectors /\ u \in Tasks /\ old # u
      /\ u # NoTask /\ GLOBAL \in Nat
  BY Types, SchedAssumption DEF IInv, HasVec
<1>2. /\ KType(s1) /\ GoodRing(s1) /\ s1.alive = k.alive \cup {u}
      /\ s1.flags = k.flags /\ s1.refcount = k.refcount
  <2>1. /\ s1.alive = k.alive \cup {u} /\ s1.refcount = k.refcount /\ s1.flags = k.flags
        /\ s1.next = k.next /\ s1.prev = k.prev /\ s1.head = k.head
    BY <1>1 DEF KType
  <2>2. KType(s1)
    BY <1>1 DEF KType
  <2> HIDE DEF s1
  <2>3. s1.alive = k.alive \cup {u} /\ k.alive \subseteq s1.alive
    BY <2>1
  <2>4. GoodRing(s1)
    BY <1>1, <2>1, <2>3, CountRing
  <2>5. QED
    BY <2>1, <2>2, <2>4
<1> HIDE DEF s1
<1>3. /\ KType(s2) /\ GoodRing(s2) /\ s2.alive = k.alive \cup {u} /\ s2.flags = k.flags
      /\ \A t \in Tasks : s2.refcount[t] = IF t \in Static THEN k.refcount[t]
                                           ELSE IF t = old THEN k.refcount[t] - 1
                                           ELSE k.refcount[t]
      /\ old # NoTask => ~FreesCurrent(s1, old)
  <2>1. \A t \in Tasks : k.refcount[t] \in Nat
    BY <1>1 DEF KType
  <2>2. CASE old = NoTask
    <3>1. s2 = s1 /\ old \notin Tasks
      BY <2>2, SchedAssumption
    <3> HIDE DEF s2
    <3>2. QED
      BY <1>2, <2>1, <2>2, <3>1
  <2>3. CASE old # NoTask
    <3>1. old \in k.alive /\ old \in Handlers /\ Owned(old) /\ old \in Tasks /\ HasVec(old)
      BY <1>1, <2>3, SchedAssumption DEF Vectors, Lives, HasVec
    <3>2. s2 = TaskRelease(s1, old)
      BY <2>3
    <3>3. CASE old \in Static
      <4> HIDE DEF s2
      <4>1. k.refcount[old] = GLOBAL /\ GLOBAL # 1
        BY <3>1, <3>3, OwnedCount
      <4>2. s2 = s1
        BY <1>2, <3>2, <4>1 DEF TaskRelease
      <4>3. ~FreesCurrent(s1, old)
        BY <1>2, <4>1 DEF FreesCurrent
      <4>4. QED
        BY <1>2, <2>1, <3>3, <4>2, <4>3
    <3>4. CASE old \notin Static
      <4> HIDE DEF s2
      <4>1. s1.refcount[old] \in 2..(GLOBAL - 1)
        BY <1>1, <1>2, <3>1, <3>4, OwnedCount DEF Owned, B2N
      <4>2. old \in s1.alive
        BY <1>2, <3>1
      <4>3. /\ KType(s2) /\ GoodRing(s2) /\ s2.alive = s1.alive /\ s2.flags = s1.flags
            /\ s2.refcount = [s1.refcount EXCEPT ![old] = @ - 1]
        BY <1>2, <3>2, <4>1, <4>2, ReleaseFields
      <4>4. ~FreesCurrent(s1, old)
        BY <1>2, <4>1 DEF FreesCurrent
      <4>5. \A t \in Tasks : s2.refcount[t] = IF t = old THEN k.refcount[t] - 1 ELSE k.refcount[t]
        BY <1>1, <1>2, <4>3 DEF KType
      <4>6. QED
        BY <1>2, <2>1, <3>4, <4>3, <4>4, <4>5
    <3>5. QED
      BY <3>3, <3>4
  <2>4. QED
    BY <2>2, <2>3
<1> HIDE DEF s2
<1>4. \A t \in Tasks : k.refcount[t] \in Nat
  BY <1>1 DEF KType
<1>5. CASE u \in Static
  <2>1. s2.refcount[u] = GLOBAL
    BY <1>1, <1>3, <1>5 DEF Counts
  <2>2. r = s2
    BY <2>1 DEF TaskReference
  <2> HIDE DEF r
  <2>3. \A t \in Tasks : r.refcount[t] = IF t \in Static THEN k.refcount[t]
                                         ELSE IF t = old THEN k.refcount[t] - 1
                                         ELSE IF t = u THEN k.refcount[t] + 1
                                         ELSE k.refcount[t]
    BY <1>3, <1>4, <1>5, <2>2
  <2>4. QED
    BY <1>3, <2>2, <2>3 DEF r, s1, s2
<1>6. CASE u \notin Static
  <2>1. u \in k.alive /\ u \in s2.alive
    BY <1>3, <1>6
  <2>2. s2.refcount[u] \in 0..(GLOBAL - 1)
    <3>1. s2.refcount[u] = k.refcount[u]
      BY <1>1, <1>3, <1>4, <1>6
    <3>2. QED
      BY <1>1, <1>6, <2>1, <3>1, OwnedCount
  <2>3. /\ KType(r) /\ GoodRing(r) /\ r.alive = s2.alive /\ r.flags = s2.flags
        /\ r.refcount = [s2.refcount EXCEPT ![u] = @ + 1]
    BY <1>3, <2>1, <2>2, ReferenceFields
  <2> HIDE DEF r
  <2>4. \A t \in Tasks : r.refcount[t] = IF t = u THEN s2.refcount[t] + 1 ELSE s2.refcount[t]
    BY <1>1, <1>3, <2>3 DEF KType
  <2>5. \A t \in Tasks : r.refcount[t] = IF t \in Static THEN k.refcount[t]
                                         ELSE IF t = old THEN k.refcount[t] - 1
                                         ELSE IF t = u THEN k.refcount[t] + 1
                                         ELSE k.refcount[t]
    BY <1>1, <1>3, <1>4, <1>6, <2>4
  <2>6. QED
    BY <1>3, <2>3, <2>5 DEF r, s1, s2
<1>7. QED
  BY <1>5, <1>6

\* task_bind_to_irq and task_register_preempt_irq.
LEMMA BindIrqStep ==
  ASSUME IInv, NEW t \in Tasks, NEW u \in Tasks, NEW i \in Irqs, BindIrq(t, u, i) PROVE IInv'
<1>0. PICK old : old = irqvecs[i]
  OBVIOUS
<1>1. /\ u \in Handlers /\ u \in k.alive \cup Static /\ irq_type[u] = NoIrq
      /\ \A j \in Irqs : irqvecs[j] # u
      /\ old # NoTask => ~Active(old)
  BY <1>0 DEF BindIrq
<1>2. ~HasVec(u)
  BY <1>1 DEF HasVec
<1>3. KType(k) /\ OtherTypes /\ Counts /\ Lives /\ Vectors /\ NoTask \notin Tasks
  BY Types, SchedAssumption DEF IInv
<1> DEFINE s1 == [k EXCEPT !.alive = @ \cup {u}]
           s2 == IF old = NoTask THEN s1 ELSE TaskRelease(s1, old)
           r == TaskReference(s2, u)
<1>4. /\ KType(r) /\ GoodRing(r) /\ r.alive = k.alive \cup {u} /\ r.flags = k.flags
      /\ \A x \in Tasks : r.refcount[x] = IF x \in Static THEN k.refcount[x]
                                          ELSE IF x = old THEN k.refcount[x] - 1
                                          ELSE IF x = u THEN k.refcount[x] + 1
                                          ELSE k.refcount[x]
      /\ old # NoTask => ~FreesCurrent(s1, old)
  BY <1>0, <1>1, <1>2, BindFields
<1>5. /\ k' = r /\ irqvecs' = [irqvecs EXCEPT ![i] = u] /\ masked' = masked \ {i}
      /\ UNCHANGED <<current, irq_type, evVars, fire, idle, bounds, refVars, panic>>
  BY <1>0, <1>4 DEF BindIrq
<1> HIDE DEF r, s1, s2
<1>6. irqvecs'[i] = u /\ (\A j \in Irqs \ {i} : irqvecs'[j] = irqvecs[j])
      /\ irqvecs' \in [Irqs -> Tasks \cup {NoTask}]
  BY <1>3, <1>5 DEF OtherTypes
<1>7. OtherTypes'
  BY <1>3, <1>5, <1>6 DEF OtherTypes, evVars, refVars, bounds
<1>8. Counts'
  <2>1. UNCHANGED <<own, extra>> /\ k'.alive \ Static = k.alive \ Static
    BY <1>1, <1>4, <1>5 DEF refVars
  <2>2. ASSUME NEW x \in k.alive \ Static
        PROVE  k'.refcount[x] = B2N(HasVec(x)') + extra[x] + B2N(x \in own)
    <3>1. x \in Tasks /\ x # NoTask
      BY <1>3 DEF KType
    <3>2. k.refcount[x] = B2N(HasVec(x)) + extra[x] + B2N(x \in own) /\ extra[x] \in Nat
      BY <2>2, OwnedCount
    <3>3. k'.refcount[x] = IF x = old THEN k.refcount[x] - 1
                           ELSE IF x = u THEN k.refcount[x] + 1 ELSE k.refcount[x]
      BY <1>4, <1>5, <3>1
    <3>4. CASE x = u
      <4>1. HasVec(x)' /\ ~HasVec(x) /\ x # old
        BY <1>0, <1>1, <1>2, <1>6, <3>4 DEF HasVec
      <4>2. QED
        BY <3>2, <3>3, <3>4, <4>1 DEF B2N
    <3>5. CASE x = old
      <4>1. ~HasVec(x)' /\ HasVec(x) /\ x # u
        BY <1>0, <1>1, <1>3, <1>6, <3>1, <3>5 DEF HasVec, Vectors
      <4>2. QED
        BY <3>2, <3>3, <3>5, <4>1 DEF B2N
    <3>6. CASE x # u /\ x # old
      <4>1. HasVec(x)' <=> HasVec(x)
        BY <1>0, <1>6, <3>6 DEF HasVec
      <4>2. QED
        BY <3>2, <3>3, <3>6, <4>1 DEF B2N
    <3>7. QED
      BY <3>4, <3>5, <3>6
  <2>3. \A x \in Static : k'.refcount[x] = GLOBAL
    BY <1>3, <1>4, <1>5, SchedAssumption DEF Counts
  <2>4. own \subseteq k'.alive \ Static /\ \A x \in Tasks : extra[x] > 0 => x \in k'.alive \ Static
    BY <1>3, <2>1 DEF Counts
  <2>5. QED
    BY <2>1, <2>2, <2>3, <2>4 DEF Counts, B2N
<1>9. Lives'
  <2>1. UNCHANGED <<own, waits, current>> /\ k'.flags = k.flags /\ k'.alive = k.alive \cup {u}
        /\ (u \in k.alive \/ u \in Static)
    BY <1>1, <1>4, <1>5 DEF refVars, evVars
  <2>2. QED
    BY <1>3, <2>1 DEF Lives, Owned
<1>10. Vectors'
  <2>1. \A h : Active(h)' <=> Active(h)
    BY <1>4, <1>5 DEF Active, evVars
  <2>2. \A j \in Irqs : irqvecs'[j] # NoTask => irqvecs'[j] \in k'.alive \cap Handlers
    BY <1>1, <1>3, <1>4, <1>5, <1>6 DEF Vectors
  <2>3. \A a, b \in Irqs : irqvecs'[a] = irqvecs'[b] /\ irqvecs'[a] # NoTask => a = b
    BY <1>1, <1>3, <1>6 DEF Vectors
  <2>4. \A j \in Irqs : irqvecs'[j] = NoTask => j \in masked'
    BY <1>3, <1>5, <1>6 DEF Vectors
  <2>5. ASSUME NEW h \in Handlers, Active(h)
        PROVE  irq_type[h] \in Irqs /\ irqvecs'[irq_type[h]] = h
               /\ (AckMasks => irq_type[h] \in masked')
    <3>1. irq_type[h] \in Irqs /\ irqvecs[irq_type[h]] = h /\ (AckMasks => irq_type[h] \in masked)
      BY <1>3, <2>5 DEF Vectors
    <3>2. irq_type[h] # i
      BY <1>0, <1>1, <2>5, <3>1, SchedAssumption
    <3>3. QED
      BY <1>5, <1>6, <3>1, <3>2
  <2>6. ASSUME NEW j \in Irqs, NEW g, g = irqvecs'[j], g # NoTask, j \in masked' PROVE Active(g)'
    <3>1. j # i /\ j \in masked /\ g = irqvecs[j]
      BY <1>5, <1>6, <2>6
    <3>2. QED
      BY <1>3, <2>1, <2>6, <3>1 DEF Vectors, IdleHandlersArmed
  <2>7. IdleHandlersArmed'
    BY <2>6 DEF IdleHandlersArmed
  <2>8. QED
    BY <1>5, <2>1, <2>2, <2>3, <2>4, <2>5, <2>7 DEF Vectors
<1>11. Queues'
  BY <1>5, Frames DEF IInv, evVars
<1>12. QED
  BY <1>4, <1>5, <1>7, <1>8, <1>9, <1>10, <1>11, Types DEF IInv, OnlyExitPanics

------------------------------------------------------------------------------
(* The theorems.                                                           *)

\* Every step of the scheduler, of a task and of the interrupt entry keeps the
\* invariant.
LEMMA NextIInv == IInv /\ [Next]_vars => IInv'
<1>1. SUFFICES ASSUME IInv, [Next]_vars PROVE IInv'
  OBVIOUS
<1>2. CASE UNCHANGED vars
  <2>1. TypeOK'
    BY <1>1, <1>2 DEF vars, IInv, TypeOK
  <2>2. GoodRing(k)' /\ OnlyExitPanics'
    BY <1>1, <1>2 DEF vars, IInv, OnlyExitPanics
  <2>3. Counts' /\ Lives' /\ Vectors' /\ Queues'
    BY <1>1, <1>2, Frames DEF vars, IInv, irqVars, evVars
  <2>4. QED
    BY <2>1, <2>2, <2>3 DEF IInv
<1>3. CASE Tick
  BY <1>1, <1>3, LoopAroundStep, ReapStep, SwitchToStep, SkipStep DEF Tick
<1>4. CASE Timer
  BY <1>1, <1>4, TimerStep
<1>5. CASE FireStep \/ FireDone
  BY <1>1, <1>5, FireStepStep, FireDoneStep
<1>6. CASE \E i \in Irqs : Irq(i)
  BY <1>1, <1>6, IrqStep
<1>7. ASSUME NEW t \in Tasks, TaskStep(t) PROVE IInv'
  <2>1. CASE Yield(t) \/ Exit(t) \/ ExitIrq(t)
    BY <1>1, <2>1, YieldStep, ExitStep, ExitIrqStep
  <2>2. CASE \E e \in Events : EventWait(t, e) \/ EventFire(t, e)
    BY <1>1, <2>2, EventWaitStep, EventFireStep
  <2>3. ASSUME NEW u \in Tasks,
               \/ TaskCreate(t, u) \/ TaskCreateUnlinked(t, u) \/ LinkCreated(t, u)
               \/ TaskRegister(t, u) \/ Reference(t, u) \/ Release(t, u)
        PROVE  IInv'
    BY <1>1, <2>3, TaskCreateStep, TaskCreateUnlinkedStep, LinkCreatedStep, TaskRegisterStep,
       ReferenceStep, ReleaseStep
  <2>4. ASSUME NEW u \in Tasks, NEW i \in Irqs, BindIrq(t, u, i) PROVE IInv'
    BY <1>1, <2>4, BindIrqStep
  <2>5. QED
    BY <1>7, <2>1, <2>2, <2>3, <2>4 DEF TaskStep
<1>8. QED
  BY <1>1, <1>2, <1>3, <1>4, <1>5, <1>6, <1>7 DEF Next

\* The invariant of the scheduler.
THEOREM Scheduler == Spec => []IInv
BY InitIInv, NextIInv, PTL DEF Spec

\* task_link, task_real_unlink and the walk of pongo_sched_tick keep one ring
\* with sched_task and the head in it, for every set of tasks.
THEOREM RingAlwaysOK == Spec => []RingOK
<1>1. IInv => RingOK
  <2>1. Ring = RingOf(k)
    BY DEF Ring, RingOf
  <2>2. ASSUME IInv PROVE Ring \subseteq k.alive
    BY <2>1, <2>2 DEF IInv, GoodRing, RingOf
  <2>3. QED
    BY <2>1, <2>2 DEF IInv, RingOK, GoodRing, Links
<1>2. QED
  BY <1>1, Scheduler, PTL

\* The reference count of a task is the number of its references, whatever the
\* order of task_reference, task_release, register_irq_handler and exits.
THEOREM CountsAreExact == Spec => []RefsExact
<1>1. ASSUME IInv PROVE RefsExact
  <2>1. SUFFICES ASSUME NEW t \in k.alive \ Static
                 PROVE  k.refcount[t] = Cardinality({i \in Irqs : irqvecs[i] = t}) + extra[t]
                                        + Cardinality({t} \cap own)
    BY DEF RefsExact
  <2>2. k.refcount[t] = B2N(HasVec(t)) + extra[t] + B2N(t \in own)
    BY <1>1, <2>1, OwnedCount
  <2>3. Cardinality({}) = 0 /\ Cardinality({t}) = 1
    BY FS_EmptySet, FS_Singleton
  <2>4. Cardinality({t} \cap own) = B2N(t \in own)
    <3>1. {t} \cap own = IF t \in own THEN {t} ELSE {}
      OBVIOUS
    <3>2. QED
      BY <2>3, <3>1 DEF B2N
  <2>5. Cardinality({i \in Irqs : irqvecs[i] = t}) = B2N(HasVec(t))
    <3>1. CASE HasVec(t)
      <4>1. PICK j \in Irqs : irqvecs[j] = t
        BY <3>1 DEF HasVec
      <4>2. t # NoTask /\ Vectors
        BY <1>1, SchedAssumption, Types DEF IInv, KType
      <4>3. {i \in Irqs : irqvecs[i] = t} = {j}
        BY <4>1, <4>2 DEF Vectors
      <4>4. Cardinality({j}) = 1
        BY FS_Singleton
      <4>5. QED
        BY <3>1, <4>3, <4>4 DEF B2N
    <3>2. CASE ~HasVec(t)
      <4>1. {i \in Irqs : irqvecs[i] = t} = {}
        BY <3>2 DEF HasVec
      <4>2. QED
        BY <2>3, <3>2, <4>1 DEF B2N
    <3>3. QED
      BY <3>1, <3>2
  <2>6. QED
    BY <2>2, <2>4, <2>5
<1>2. QED
  BY <1>1, Scheduler, PTL

\* No pointer that the scheduler, the interrupt entry or event_fire follows
\* leads to a freed task.
THEOREM NothingDangles == Spec => []NoDangling
<1>1. ASSUME IInv PROVE NoDangling
  <2>1. /\ GoodRing(k) /\ Lives /\ Vectors /\ Queues /\ OtherTypes /\ NoEvent \notin Events
        /\ fire \in [ev : Events \cup {NoEvent}, at : Tasks \cup {NoTask}]
    BY <1>1, Types, SchedAssumption DEF IInv, OtherTypes
  <2>2. current \in k.alive /\ k.head \in k.alive
    BY <2>1 DEF GoodRing, RingOf, Lives
  <2>3. \A e \in Events : /\ Waiting(e) \subseteq k.alive /\ First(e) \in k.alive \cup {NoTask}
                          /\ \A t \in Waiting(e) : eq_next[t] \in k.alive \cup {NoTask}
    <3>1. ASSUME NEW e \in Events
          PROVE  /\ Waiting(e) \subseteq k.alive /\ First(e) \in k.alive \cup {NoTask}
                 /\ \A t \in Waiting(e) : eq_next[t] \in k.alive \cup {NoTask}
      <4>1. Waiting(e) \subseteq k.alive
        BY <2>1 DEF Waiting, Lives
      <4>2. QueueOf(First(e), Waiting(e), eq_next)
        BY <2>1 DEF Queues
      <4>3. QED
        BY <4>1, <4>2 DEF QueueOf
    <3>2. QED
      BY <3>1
  <2>4. fire.at \in k.alive \cup {NoTask}
    <3>1. CASE fire = NoFire
      BY <3>1 DEF NoFire
    <3>2. CASE fire.ev \in Events
      BY <2>3, <3>2 DEF First
    <3>3. QED
      BY <2>1, <3>1, <3>2 DEF Queues
  <2>5. \A i \in Irqs : irqvecs[i] \in k.alive \cup {NoTask}
    BY <2>1 DEF Vectors
  <2>6. \A t \in Tasks : waits[t] # NoEvent => t \in k.alive /\ eq_next[t] \in k.alive \cup {NoTask}
    <3>1. SUFFICES ASSUME NEW t \in Tasks, waits[t] # NoEvent
                   PROVE  t \in k.alive /\ eq_next[t] \in k.alive \cup {NoTask}
      OBVIOUS
    <3>2. waits[t] \in Events /\ t \in Waiting(waits[t])
      BY <2>1, <3>1 DEF OtherTypes, Waiting
    <3>3. QED
      BY <2>3, <3>2
  <2>7. fire = NoFire => \A e \in Events : task_head[e] \in k.alive \cup {NoTask}
    BY <2>1, <2>3 DEF First, NoFire
  <2>8. QED
    BY <2>2, <2>4, <2>5, <2>6, <2>7 DEF NoDangling
<1>2. QED
  BY <1>1, Scheduler, PTL

\* The queue of an event holds exactly the tasks that wait for it, each once
\* and each parked, however event_wait and event_fire are interleaved.
THEOREM QueuesStayExact == Spec => []QueuesExact
<1>1. ASSUME IInv PROVE QueuesExact
  <2>1. Queues /\ Lives /\ NoEvent \notin Events
    BY <1>1, SchedAssumption DEF IInv
  <2>2. fire = NoFire => \A e \in Events : First(e) = task_head[e]
    BY <2>1 DEF First, NoFire
  <2>3. fire = NoFire => \A e \in Events : QueueOf(task_head[e], Waiting(e), eq_next)
    BY <2>1, <2>2 DEF Queues
  <2>4. QED
    BY <2>1, <2>3 DEF QueuesExact, Lives
<1>2. QED
  BY <1>1, Scheduler, PTL

\* task_exit_irq, task_bind_to_irq and the interrupt entry never leave the IRQ
\* of an idle handler masked.
THEOREM HandlersStayArmed == Spec => []IdleHandlersArmed
<1>1. IInv => IdleHandlersArmed
  BY DEF IInv, Vectors
<1>2. QED
  BY <1>1, Scheduler, PTL

\* The consistency panics of task.c and entry.c are unreachable.
THEOREM NoOtherPanic == Spec => []OnlyExitPanics
<1>1. IInv => OnlyExitPanics
  BY DEF IInv
<1>2. QED
  BY <1>1, Scheduler, PTL
==============================================================================
