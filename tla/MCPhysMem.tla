------------------------------ MODULE MCPhysMem ------------------------------
(* Values of the constants of PhysMem for TLC.                             *)
EXTENDS PhysMem

StaticTailValue == <<1, 3>>
HeapValue == <<4, 6>>
==============================================================================
