------------------------------- MODULE MCUart --------------------------------
(* The serial input for TLC, with the walks that find its registers.       *)
EXTENDS Uart, DeviceTrees
==============================================================================
