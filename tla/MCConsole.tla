------------------------------ MODULE MCConsole ------------------------------
(* Lines for TLC: one that deletes from an empty buffer or from the line   *)
(* before it and of which three overfill the buffer, and a short one; with *)
(* the tables that the commands are looked up in.                          *)
EXTENDS Console, ShellTables

EditedLine == <<"del", "c", "nl">>
ShortLine == <<"c", "nl">>
==============================================================================
