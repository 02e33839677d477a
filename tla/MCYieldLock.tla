----------------------------- MODULE MCYieldLock -----------------------------
(* Values of the constants of YieldLock for TLC.                           *)
EXTENDS YieldLock, FiniteSets, TLC
CONSTANTS A, B, C

\* The scheduler's ring A, B, C.
RingOrder == (A :> {B}) @@ (B :> {C}) @@ (C :> {A})
==============================================================================
