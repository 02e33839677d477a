----------------------------- MODULE MCLifetime -------------------------------
(* User processes on a small machine, for TLC: the constants of Lifetime    *)
(* are given in the configurations.                                         *)
EXTENDS Lifetime
==============================================================================
