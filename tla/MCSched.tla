------------------------------ MODULE MCSched --------------------------------
(* The scheduler with sched_task, the main task M, dynamic tasks A and B *)
(* and an IRQ handler H, for TLC.                                           *)
EXTENDS Sched
CONSTANTS S, M, A, B, H
==============================================================================
