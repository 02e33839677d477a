------------------------------ MODULE UartProofs ------------------------------
(***************************************************************************)
(* The safety of both serial drivers for every FIFO and any number of      *)
(* characters, and the difference between the two controllers: on the      *)
(* Apple one no character can be stranded.                                 *)
(*                                                                         *)
(* NoBogusChar and ExitsLinked say nothing about how the handler came to   *)
(* run.  What carries them is that on the GIC a handler that is linked at  *)
(* the top of its loop, or an edge latched while the handler is not        *)
(* reading, stands for a character in the FIFO (Announced), and that the   *)
(* handler stays linked from its first step to its last (InLoopLinked).    *)
(***************************************************************************)
EXTENDS Uart, TLAPS

\* Interrupts are disabled only by the running handler, and not while it is
\* preempted, in queue_rx_char or about to leave.
MaskSound ==
  /\ irqOff => running
  /\ pc \in {"top", "queue", "leave"} => ~irqOff
  /\ pc \in {"got", "drained"} => irqOff

\* A handler that has begun, or that runs, is linked.
InLoopLinked == (running \/ pc # "top") => linked

\* The GIC: while the handler does not read, a latched edge stands for a
\* character, and so does the link of a handler that has not begun.
Announced ==
  platform = "qemu" => /\ latched /\ pc \in {"top", "leave"} => fifo > 0
                       /\ linked /\ pc = "top" => fifo > 0

\* What the handler is about to queue was read from a FIFO that had something.
HoldsChar == pc \in {"got", "queue"} => char = "some"

\* The Apple controller masks the IRQ only while the handler is linked, and
\* nothing is latched there.
MaskedLinked == masked => linked

IInv == /\ NoBogusChar /\ ExitsLinked /\ MaskSound /\ InLoopLinked
        /\ Announced /\ HoldsChar /\ MaskedLinked

\* serial_init establishes the invariant: nothing has arrived, nothing is linked.
LEMMA InitIInv == Init => IInv
<1> SUFFICES ASSUME Init PROVE IInv
  OBVIOUS
<1>1. fifo \in 0..FifoSize /\ arrived \in 0..MaxChars
  BY UartAssumption DEF Init
<1>2. TypeOK
  BY <1>1, Zenon DEF Init, TypeOK
<1>3. ~latched /\ ~masked /\ ~linked /\ ~running /\ ~irqOff
  BY Zenon DEF Init
<1>4. NoBogusChar /\ ExitsLinked /\ MaskSound /\ InLoopLinked
  BY <1>2, <1>3 DEF Init, NoBogusChar, ExitsLinked, MaskSound, InLoopLinked
<1>5. Announced /\ HoldsChar /\ MaskedLinked
  BY <1>3 DEF Init, Announced, HoldsChar, MaskedLinked
<1>6. QED
  BY <1>4, <1>5 DEF IInv

\* Every step of the UART, of the controller, of the scheduler and of uart_main
\* keeps the invariant.
LEMMA NextIInv == IInv /\ [Next]_vars => IInv'
<1> SUFFICES ASSUME IInv, [Next]_vars PROVE IInv'
  OBVIOUS
<1> USE UartAssumption DEF IInv, NoBogusChar, TypeOK, ExitsLinked, MaskSound, InLoopLinked,
                           Announced, HoldsChar, MaskedLinked, Up, hw
<1>1. CASE Arrive
  BY <1>1 DEF Arrive
<1>2. CASE TakeIrq
  BY <1>2 DEF TakeIrq, Pending
<1>3. CASE SwitchIn
  BY <1>3 DEF SwitchIn
<1>4. CASE Preempt
  BY <1>4 DEF Preempt
<1>5. CASE EnableRx
  BY <1>5 DEF EnableRx
<1>6. CASE Top
  BY <1>6 DEF Top, At, Getc
<1>7. CASE Got
  <2>1. CASE drop
    BY <1>7, <2>1 DEF Got, At
  <2>2. CASE ~drop
    <3>1. ~irqOff' /\ ~latched' /\ linked'
      BY <1>7, <2>2 DEF Got, At, EnableInterrupts
    <3>2. pc' = "queue"
      BY <1>7, <2>2 DEF Got
    <3>3. linked' \in BOOLEAN /\ masked' \in BOOLEAN /\ latched' \in BOOLEAN /\ irqOff' \in BOOLEAN
      BY <1>7, <2>2 DEF Got, EnableInterrupts
    <3>4. UNCHANGED <<platform, fifo, arrived, running, char, drop, queued, panic>>
      BY <1>7 DEF Got
    <3>5. char = "some"
      BY <1>7 DEF Got, At
    <3>6. QED
      BY <3>1, <3>2, <3>3, <3>4, <3>5
  <2>3. QED
    BY <2>1, <2>2
<1>8. CASE Queue
  BY <1>8 DEF Queue, At
<1>9. CASE NextChar
  BY <1>9 DEF NextChar, At, Getc
<1>10. CASE Drained
  BY <1>10 DEF Drained, At, EnableInterrupts, Pending
<1>11. CASE Leave
  BY <1>11 DEF Leave, At
<1>12. CASE UNCHANGED vars
  BY <1>12 DEF vars
<1>13. QED
  BY <1>1, <1>2, <1>3, <1>4, <1>5, <1>6, <1>7, <1>8, <1>9, <1>10, <1>11, <1>12
     DEF Next, Handler

\* The inductive invariant of the serial input holds in every state.
THEOREM SerialInput == Spec => []IInv
BY InitIInv, NextIInv, PTL DEF Spec

\* uart_main never queues the ERROR_NO_PENDING_CHAR of an empty FIFO.
THEOREM NeverBogus == Spec => []NoBogusChar
<1>1. IInv => NoBogusChar
  BY DEF IInv
<1>2. QED
  BY <1>1, SerialInput, PTL

\* task_exit_irq never finds the handler unlinked.
THEOREM AlwaysExitsLinked == Spec => []ExitsLinked
<1>1. IInv => ExitsLinked
  BY DEF IInv
<1>2. QED
  BY <1>1, SerialInput, PTL

\* On the Apple controller the re-arming of task_exit_irq is complete: a
\* character in the FIFO has the handler linked or its IRQ pending, always.
THEOREM AppleRearmed == Spec => [](platform = "apple" => Rearmed)
<1>1. IInv => (platform = "apple" => Rearmed)
  BY DEF IInv, MaskedLinked, Rearmed, Pending, NoBogusChar, TypeOK
<1>2. QED
  BY <1>1, SerialInput, PTL
==============================================================================
