-------------------------------- MODULE Uart ---------------------------------
(***************************************************************************)
(* Serial input: the receive FIFO of the UART, the interrupt controller,   *)
(* and the preempting IRQ handler task that drains the FIFO, on the two    *)
(* platforms the source supports.                                          *)
(*   "qemu":  pl011.c on gic.c.  The IRQ is configured as edge triggered   *)
(*            and acknowledged and ended at once; the handler drains the   *)
(*            FIFO.                                                        *)
(*   "apple": uart.c on the controller of lowlevel.c.  The IRQ is a level, *)
(*            taking it masks it; the handler reads one character.         *)
(* The scheduler is reduced to what it does to this task: it runs it when  *)
(* it is linked, and the timer preempts it while interrupts are enabled.   *)
(*                                                                         *)
(* pc: "top" of the handler loop, "got" a character with interrupts        *)
(* disabled, "queue" (in queue_rx_char, interrupts enabled), "next" (the   *)
(* second serial_getc), "drained" (interrupts still disabled), "leave"     *)
(* (interrupts enabled, about to call task_exit_irq).                      *)
(***************************************************************************)
EXTENDS Integers

CONSTANTS
  Platforms,  \* the platforms to look at: "qemu", "apple"
  FifoSize,   \* bound: characters in the FIFO; the host waits when it is full
  MaxChars    \* bound: characters that arrive

ASSUME UartAssumption ==
  /\ Platforms \subseteq {"qemu", "apple"}
  /\ FifoSize \in Nat \ {0}
  /\ MaxChars \in Nat

VARIABLES
  platform,  \* the machine the kernel runs on
  fifo,      \* characters in the receive FIFO
  arrived,   \* characters that have arrived
  latched,   \* the edge the GIC has latched
  masked,    \* the Apple controller does not deliver the IRQ
  linked,    \* TASK_LINKED of the handler
  running,   \* the handler is task_current()
  irqOff,    \* interrupts are disabled
  pc,
  char,      \* what the last serial_getc returned: "some" or "none"
  drop,      \* uart_should_drop_rx
  queued,    \* the kinds of characters given to queue_rx_char
  panic

vars == <<platform, fifo, arrived, latched, masked, linked, running, irqOff, pc, char, drop, queued, panic>>
hw == <<fifo, arrived, latched, masked>>

\* serial_init has bound the handler and start_host_shell may have enabled rx.
Init ==
  /\ platform \in Platforms
  /\ fifo = 0 /\ arrived = 0
  /\ latched = FALSE /\ masked = FALSE
  /\ linked = FALSE /\ running = FALSE /\ irqOff = FALSE
  /\ pc = "top" /\ char = "none"
  /\ drop \in BOOLEAN
  /\ queued = {}
  /\ panic = "none"

Up == panic = "none"

\* The UART: a character arrives; the interrupt line rises when the FIFO was
\* empty.
Arrive ==
  /\ Up
  /\ arrived < MaxChars /\ fifo < FifoSize
  /\ fifo' = fifo + 1
  /\ arrived' = arrived + 1
  /\ latched' = (latched \/ (platform = "qemu" /\ fifo = 0))
  /\ UNCHANGED <<platform, masked, linked, running, irqOff, pc, char, drop, queued, panic>>

\* interrupt_vector finds the IRQ.
Pending == IF platform = "qemu" THEN latched ELSE fifo > 0 /\ ~masked

\* irq_exc with a pending IRQ: acknowledge it, link the handler.
TakeIrq ==
  /\ Up /\ ~irqOff
  /\ Pending
  /\ latched' = FALSE
  /\ masked' = (platform = "apple")
  /\ linked' = TRUE
  /\ UNCHANGED <<platform, fifo, arrived, running, irqOff, pc, char, drop, queued, panic>>

\* Mutation: the handler is run without having been linked.
SwitchIn_Unlinked ==
  /\ Up /\ ~running
  /\ running' = TRUE
  /\ UNCHANGED <<platform, hw, linked, irqOff, pc, char, drop, queued, panic>>

\* The scheduler switches to the handler; the timer switches away from it.
SwitchIn ==
  /\ Up /\ ~running /\ linked
  /\ running' = TRUE
  /\ UNCHANGED <<platform, hw, linked, irqOff, pc, char, drop, queued, panic>>

Preempt ==
  /\ Up /\ running /\ ~irqOff
  /\ running' = FALSE
  /\ UNCHANGED <<platform, hw, linked, irqOff, pc, char, drop, queued, panic>>

\* start_host_shell: serial_enable_rx, by another task.
EnableRx ==
  /\ Up /\ ~running /\ drop
  /\ drop' = FALSE
  /\ UNCHANGED <<platform, hw, linked, running, irqOff, pc, char, queued, panic>>

------------------------------------------------------------------------------
(* uart_main.                                                              *)

At(label) == Up /\ running /\ pc = label

\* serial_getc takes a character off the FIFO, or returns
\* ERROR_NO_PENDING_CHAR.
Getc == /\ char' = IF fifo > 0 THEN "some" ELSE "none"
        /\ fifo' = IF fifo > 0 THEN fifo - 1 ELSE fifo

\* Mutation: without the isb the IRQ stays pending for later.
EnableInterrupts_NoIsb == irqOff' = FALSE /\ UNCHANGED <<linked, masked, latched>>

\* enable_interrupts ends with an isb: an IRQ that is pending is taken there.
EnableInterrupts ==
  /\ irqOff' = FALSE
  /\ linked' = (linked \/ Pending)
  /\ masked' = (masked \/ (platform = "apple" /\ Pending))
  /\ latched' = FALSE

\* disable_interrupts and the first read.  uart.c looks at the status first.
Top ==
  /\ At("top")
  /\ Getc
  /\ irqOff' = TRUE
  /\ pc' = IF platform = "apple" /\ fifo = 0 THEN "drained" ELSE "got"
  /\ UNCHANGED <<platform, arrived, latched, masked, linked, running, drop, queued, panic>>

\* pl011.c queues the character of the first read without looking at it.
Got ==
  /\ At("got")
  /\ IF drop
     THEN /\ pc' = IF platform = "qemu" THEN "next" ELSE "drained"
          /\ UNCHANGED <<irqOff, linked, masked, latched>>
     ELSE /\ pc' = "queue"
          /\ EnableInterrupts
  /\ UNCHANGED <<platform, fifo, arrived, running, char, drop, queued, panic>>

\* queue_rx_char, with interrupts enabled.  uart.c then only clears the error
\* status with interrupts disabled.
Queue ==
  /\ At("queue")
  /\ queued' = queued \cup {char}
  /\ IF platform = "qemu" THEN pc' = "next" /\ irqOff' = FALSE
                          ELSE pc' = "drained" /\ irqOff' = TRUE
  /\ UNCHANGED <<platform, hw, linked, running, char, drop, panic>>

\* pl011.c: disable_interrupts, read again, until the FIFO is empty.
NextChar ==
  /\ At("next")
  /\ Getc
  /\ irqOff' = TRUE
  /\ pc' = IF fifo > 0 THEN "got" ELSE "drained"
  /\ UNCHANGED <<platform, arrived, latched, masked, linked, running, drop, queued, panic>>

\* The enable_interrupts before task_exit_irq.
Drained ==
  /\ At("drained")
  /\ EnableInterrupts
  /\ pc' = "leave"
  /\ UNCHANGED <<platform, fifo, arrived, running, char, drop, queued, panic>>

\* Mutation: the IRQ is not re-armed.
Leave_StaysMasked ==
  /\ At("leave")
  /\ linked' = FALSE
  /\ running' = FALSE
  /\ pc' = "top"
  /\ UNCHANGED <<platform, hw, irqOff, char, drop, queued, panic>>

\* task_exit_irq: with interrupts disabled, unlink the task, re-arm the IRQ and
\* switch to the scheduler.  Re-arming enables the IRQ; it does not look at the
\* level of an edge triggered one.
Leave ==
  /\ At("leave")
  /\ IF ~linked
     THEN /\ panic' = "task_exit_irq on unlinked preempt irq handler?"
          /\ UNCHANGED <<platform, hw, linked, running, irqOff, pc, char, drop, queued>>
     ELSE /\ linked' = FALSE
          /\ masked' = FALSE
          /\ running' = FALSE
          /\ pc' = "top"
          /\ UNCHANGED <<platform, fifo, arrived, latched, irqOff, char, drop, queued, panic>>

Handler == Top \/ Got \/ Queue \/ NextChar \/ Drained \/ Leave

Next == Arrive \/ TakeIrq \/ SwitchIn \/ Preempt \/ EnableRx \/ Handler

Spec == Init /\ [][Next]_vars

\* The CPU takes pending IRQs once interrupts are enabled, the scheduler runs a
\* linked task (RunnableRuns of Sched), and a task that is run again and again
\* makes progress between preemptions.
FairSpec == Spec /\ WF_vars(TakeIrq) /\ WF_vars(SwitchIn) /\ SF_vars(Handler)

------------------------------------------------------------------------------
(* Properties.                                                             *)

\* Type invariant.
TypeOK ==
  /\ platform \in Platforms
  /\ fifo \in 0..FifoSize /\ arrived \in 0..MaxChars
  /\ latched \in BOOLEAN /\ masked \in BOOLEAN /\ linked \in BOOLEAN
  /\ running \in BOOLEAN /\ irqOff \in BOOLEAN /\ drop \in BOOLEAN
  /\ pc \in {"top", "got", "queue", "next", "drained", "leave"}
  /\ char \in {"some", "none"}
  /\ queued \subseteq {"some", "none"}

\* Safety: the handler never queues the ERROR_NO_PENDING_CHAR of a read of an
\* empty FIFO, although uart_main of pl011.c does not look at what its first
\* read returns: whenever the handler starts, an IRQ has announced a character
\* that nobody has read.
NoBogusChar == TypeOK /\ "none" \notin queued

\* Safety: the handler is linked whenever it calls task_exit_irq, although IRQs
\* may link it again at any time before.
ExitsLinked == panic = "none"

\* Safety: task_exit_irq re-arms the IRQ ("re-arm IRQ", task.c:644): with a
\* character in the FIFO either the handler is linked or the IRQ is pending,
\* so the character will be read.
Rearmed == fifo > 0 => linked \/ Pending

\* Liveness: on the Apple controller, which delivers a level and masks it, the
\* re-arming of task_exit_irq leaves no character behind: what is in the FIFO is
\* read.
InputServed == (platform = "apple" /\ fifo > 0) ~> (fifo = 0)
==============================================================================
