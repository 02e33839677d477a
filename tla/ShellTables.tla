----------------------------- MODULE ShellTables -----------------------------
(***************************************************************************)
(* The tables that commands and modules are looked up in: the sorted array *)
(* of shell/command.c, whose functions run under command_lock, and the     *)
(* chain of exported symbols of dynamic/modload.c.  Each is compared with  *)
(* a partial function from names to values, for every short history of     *)
(* operations.                                                             *)
(***************************************************************************)
EXTENDS Naturals, SequencesExt, FiniteSetsExt

\* Names are numbers, ordered as strcmp orders the strings; 0 is a null pointer.
NULL == 0

------------------------------------------------------------------------------
(* The command table.                                                      *)

NoCommand == [name |-> NULL, cb |-> NULL]

\* cmp_cmd(x, y) < 0: free entries come last.
CmpCmd(x, y) == x.name # NULL /\ (y.name = NULL \/ x.name < y.name)

\* command_unregister: every entry of that name is cleared.
CommandUnregister(commands, name) ==
  SortSeq([i \in DOMAIN commands |->
             IF commands[i].name = name THEN NoCommand ELSE commands[i]], CmpCmd)

\* command_register: "autoboot" may be masked; otherwise the first entry that is
\* free or has the name is used, and if there is none it panics.
Autoboot == 3
Masked(is_masking_autoboot, name) == is_masking_autoboot /\ name = Autoboot
Fitting(commands, name) == {i \in DOMAIN commands : commands[i].name \in {NULL, name}}
TooManyCommands(commands, name) == Fitting(commands, name) = {}
CommandRegister(commands, name, cb) ==
  SortSeq([commands EXCEPT ![Min(Fitting(commands, name))] = [name |-> name, cb |-> cb]],
          CmpCmd)

\* command_execute: the first entry with the name, or COMMAND_NOTFOUND.
CommandLookup(commands, name) ==
  LET i == SelectInSeq(commands, LAMBDA c : c.name = name)
  IN  IF i = 0 THEN "not found" ELSE commands[i].cb

CommandNames == 1..3
CommandSlots == 2
CommandOps == [op : {"register"}, name : CommandNames, cb : {"f", "g"}]
                \cup [op : {"unregister"}, name : CommandNames]

\* One operation on the table; a panic is final.
ApplyCommand(t, op) ==
  IF t.panic \/ (op.op = "register" /\ Masked(t.is_masking_autoboot, op.name)) THEN t
  ELSE IF op.op = "unregister" THEN [t EXCEPT !.commands = CommandUnregister(@, op.name)]
  ELSE IF TooManyCommands(t.commands, op.name) THEN [t EXCEPT !.panic = TRUE]
  ELSE [t EXCEPT !.commands = CommandRegister(@, op.name, op.cb)]

\* The names that a history of operations leaves registered, and for each of
\* them the function that was registered last.
LastOp(h, name) == SelectLastInSeq(h, LAMBDA op : op.name = name)
Registered(h) ==
  {n \in CommandNames : LastOp(h, n) # 0 /\ h[LastOp(h, n)].op = "register"}

\* After any history of registrations the table dispatches as a map would: a
\* name has one entry although registration takes the first entry that fits
\* (the sort keeps the free ones behind the names), a full table can still
\* replace a command, and it panics only when another name does not fit.
ASSUME CommandTableIsAMap ==
  \A ops \in SeqOf(CommandOps, 4), masking \in BOOLEAN :
    LET t == FoldLeft(ApplyCommand,
                      [panic |-> FALSE, is_masking_autoboot |-> masking,
                       commands |-> [i \in 1..CommandSlots |-> NoCommand]], ops)
        h == SelectSeq(ops, LAMBDA op : op.op = "register" => ~Masked(masking, op.name))
    IN  /\ t.panic <=> \E k \in 1..Len(h) :
                          Cardinality(Registered(SubSeq(h, 1, k))) > CommandSlots
        /\ ~t.panic => \A n \in CommandNames :
             CommandLookup(t.commands, n) =
               IF n \in Registered(h) THEN h[LastOp(h, n)].cb ELSE "not found"

------------------------------------------------------------------------------
(* The chain of exported symbols.  api is the index of an entry in memory,  *)
(* an entry without a name ends a set and points to the next one.          *)

EndOfExports == [name |-> NULL, value |-> NULL]

\* The entry without a name that ends the set which begins at api.
EndOfSet(memory, api) == Min({i \in api..Len(memory) : memory[i].name = NULL})

\* The walk of link_exports and resolve_symbol along the sets: where each starts.
ExportSets(memory) ==
  LET next(api) == memory[EndOfSet(memory, api)].value
      walk[n \in 1..Len(memory)] ==
        IF n = 1 THEN 1
        ELSE IF walk[n - 1] = NULL THEN NULL ELSE next(walk[n - 1])
  IN  SelectSeq([n \in 1..Len(memory) |-> walk[n]], LAMBDA api : api # NULL)

\* link_exports: the last set of the chain is made to point to the new one.  A
\* module that exports nothing has a null pointer here and changes nothing.
LinkExports(memory, export) ==
  [memory EXCEPT ![EndOfSet(memory, Last(ExportSets(memory)))].value = export]

\* resolve_symbol: the first entry of the chain with the name.
ResolveSymbol(memory, name) ==
  LET set(api) == SubSeq(memory, api, EndOfSet(memory, api) - 1)
      chain == FlattenSeq([n \in DOMAIN ExportSets(memory) |-> set(ExportSets(memory)[n])])
      i == SelectInSeq(chain, LAMBDA e : e.name = name)
  IN  IF i = 0 THEN NULL ELSE chain[i].value

\* A module is loaded: its exports lie in memory of their own, and are linked.
LoadExports(memory, exports) ==
  IF exports = << >> THEN LinkExports(memory, NULL)
  ELSE LinkExports(memory \o exports \o <<EndOfExports>>, Len(memory) + 1)

ExportedSets(n) == SeqOf([name : 1..2, value : 7..8], n)

\* Whatever modules are loaded after each other, with or without exports, a
\* symbol resolves to the definition of the kernel's own set, or else of the
\* first module that has it.
ASSUME ExportsResolveInLoadOrder ==
  \A kernel \in ExportedSets(2), m1, m2 \in ExportedSets(1) :
    LET memory == LoadExports(LoadExports(kernel \o <<EndOfExports>>, m1), m2)
        all == kernel \o m1 \o m2
    IN  \A name \in 1..2 :
          LET at == {i \in DOMAIN all : all[i].name = name}
          IN  ResolveSymbol(memory, name) = IF at = {} THEN NULL ELSE all[Min(at)].value
==============================================================================
