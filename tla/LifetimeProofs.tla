---------------------------- MODULE LifetimeProofs ----------------------------
(***************************************************************************)
(* The safety properties of Lifetime for every number of processes, pages, *)
(* ASIDs and addresses.                                                    *)
(*                                                                         *)
(* RefsExact becomes inductive with the shell's place in spawn_cmd: which  *)
(* objects exist at which step (Places), and what a process that the shell *)
(* is freeing still holds (DyingRefs).  NoStaleTlb rests on the ASIDs: an  *)
(* ASID stays marked in asid_table until nothing in the TLB refers to it,  *)
(* although asid_free is interrupted between its read and its write of the *)
(* table (StaleByte: what it read then is never less than the table).      *)
(* StacksExclusive needs when a task has its stacks (StackPlaces) and that *)
(* they were all made (StackTypes).  PagesExact counts; its invariant says *)
(* the same with sets: the pool, each address space (Own) and the shell    *)
(* have different pages and together all (PagesApart, PagesCovered), and   *)
(* only allocated addresses have entries (SpaceOK), so that reserving a    *)
(* stack overwrites none.                                                  *)
(***************************************************************************)
EXTENDS Lifetime, ListLemmas, FiniteSetTheorems, TLAPS

\* The steps of spawn_cmd.
PCs == {"idle", "asid", "code", "map", "task", "stack", "link", "release",
        "vm", "read", "write", "tlbi", "files"}

\* sh has its five fields.
ShRecord == sh = [pc |-> sh.pc, k |-> sh.k, va |-> sh.va, phys |-> sh.phys, byte |-> sh.byte]

\* The types the counting needs.
Shape ==
  /\ ShRecord
  /\ sh.k \in 0..NSpawn /\ sh.pc \in PCs
  /\ sh.pc # "idle" => sh.k \in Spawns
  /\ proc \in [Spawns -> Int] /\ files \in [Spawns -> Int]
  /\ vmref \in [Spawns -> Int]
  /\ tstate \in [Spawns -> {"none", "new", "linked", "user", "exited", "freed"}]

\* Which task exists at which step of spawn_cmd.
Places ==
  \A k \in Spawns :
    /\ tstate[k] = "none" <=> (k > sh.k \/ (k = sh.k /\ sh.pc \in {"asid", "code", "map", "task"}))
    /\ tstate[k] = "new" <=> (k = sh.k /\ sh.pc \in {"stack", "link"})

\* What the shell still has to give back of a process it is freeing.
DyingRefs ==
  \A k \in Spawns : Dying(k) => /\ ~TaskLives(k) /\ files[k] = 1
                                /\ vmref[k] = IF sh.pc = "vm" THEN 1 ELSE 0

RefInv == Shape /\ Places /\ DyingRefs /\ RefsExact

\* ASIDs are numbers, and page tables are functions.
VmShape ==
  /\ asid \in [Spawns -> Int]
  /\ pte = [k \in Spawns |-> pte[k]]
  /\ \A k \in Spawns : pte[k] = [v \in VA |-> pte[k][v]]

\* Two address spaces that have an ASID have different ones.
AsidsApart ==
  \A j, k \in Spawns : j # k /\ asid[j] # 0 => asid[j] # asid[k]

\* A living address space has an ASID, which is marked in the table until the
\* shell has cleared its bit.
AsidsMarked ==
  \A k \in Spawns :
    /\ vmref[k] > 0 => asid[k] # 0
    /\ asid[k] # 0 => asid[k] \in asids \/ (k = sh.k /\ sh.pc = "tlbi")
    /\ asid[k] # 0 => k < sh.k \/ (k = sh.k /\ sh.pc # "asid")

\* What asid_free read of the table is never less than the table.
StaleByte == sh.pc = "write" => asids \subseteq sh.byte

\* The TLB knows only ASIDs that an address space has.
TlbOwned ==
  \A e \in tlb : /\ e[2] \in VA
                 /\ \E k \in Spawns : asid[k] # 0 /\ e[1] = asid[k]

TlbInv == VmShape /\ AsidsApart /\ AsidsMarked /\ StaleByte /\ TlbOwned /\ NoStaleTlb

------------------------------------------------------------------------------
(* The references.                                                         *)

\* In the initial state there is no process.
LEMMA RefInvInit == Init => RefInv
  BY LifetimeAssumption DEF Init, RefInv, Shape, ShRecord, Places, DyingRefs,
     RefsExact, RefsOf, Spawns, PCs, Dying, Ref, ShellHolds, TaskLives, ProcLives

\* Every step keeps the counts exact.
LEMMA RefInvNext == RefInv /\ [Next]_vars => RefInv'
<1> SUFFICES ASSUME RefInv, [Next]_vars PROVE RefInv'
  OBVIOUS
<1> USE LifetimeAssumption DEF RefInv
<1>0. CASE UNCHANGED vars
  BY <1>0 DEF vars, Shape, ShRecord, Places, DyingRefs, RefsExact, RefsOf, Dying, ShellHolds, TaskLives,
     ProcLives, SpaceLives
<1>p. ASSUME NEW why, Panic(why) PROVE RefInv'
  BY <1>p DEF Panic, vm, Shape, ShRecord, Places, DyingRefs, RefsExact, RefsOf, Dying, ShellHolds, TaskLives,
     ProcLives, SpaceLives
<1>1. CASE ProcCreate
  <2>1. CASE NoTtbPage(mem)
    BY <1>1, <2>1, <1>p DEF ProcCreate
  <2>2. CASE ~NoTtbPage(mem)
    <3>1. /\ sh.pc = "idle" /\ sh.k + 1 \in Spawns
          /\ sh' = [sh EXCEPT !.pc = "asid", !.k = @ + 1]
          /\ files' = [files EXCEPT ![sh.k + 1] = 1]
          /\ UNCHANGED <<proc, vmref, tstate>>
      BY <1>1, <2>2 DEF ProcCreate, At, K, Running, Shape, ShRecord, Spawns, vm
    <3>u. /\ ShRecord'
          /\ sh'.pc = "asid" /\ sh'.k = sh.k + 1
      BY <3>1 DEF Shape, ShRecord
    <3>f. /\ files' \in [Spawns -> Int]
          /\ \A j \in Spawns : files'[j] = IF j = sh.k + 1 THEN 1 ELSE files[j]
      BY <3>1 DEF Shape
    <3>2. Shape'
      BY <3>1, <3>u, <3>f DEF Shape, PCs, Spawns
    <3>3. Places'
      BY <3>1, <3>u, <3>f DEF Shape, Places, PCs, Spawns
    <3>4. DyingRefs'
      BY <3>1, <3>u, <3>f DEF Shape, Places, DyingRefs, RefsExact, RefsOf, PCs, Spawns,
         Dying, Ref, ShellHolds, TaskLives, ProcLives, SpaceLives
    <3>5. ASSUME NEW j \in Spawns PROVE RefsOf(j)'
      <4>1. CASE j = sh.k + 1
        BY <4>1, <3>1, <3>u, <3>f DEF Shape, Places, DyingRefs, RefsExact, RefsOf, PCs, Spawns,
             Dying, Ref, ShellHolds, TaskLives, ProcLives, SpaceLives
      <4>2. CASE j # sh.k + 1
        BY <4>2, <3>1, <3>u, <3>f DEF Shape, Places, DyingRefs, RefsExact, RefsOf, PCs, Spawns,
             Dying, Ref, ShellHolds, TaskLives, ProcLives, SpaceLives
      <4> QED
        BY <4>1, <4>2
    <3> QED
      BY <3>2, <3>3, <3>4, <3>5 DEF RefsExact
  <2> QED
    BY <2>1, <2>2
<1>2. CASE AsidAlloc
  <2>1. CASE Asids \subseteq asids
    BY <1>2, <2>1, <1>p DEF AsidAlloc
  <2>2. CASE ~(Asids \subseteq asids)
    <3>1. /\ sh.pc = "asid"
          /\ sh'.pc = "code" /\ sh'.k = sh.k
          /\ ShRecord'
          /\ vmref' = [vmref EXCEPT ![sh.k] = 1]
          /\ proc' = [proc EXCEPT ![sh.k] = 1]
          /\ UNCHANGED <<files, tstate>>
      BY <1>2, <2>2 DEF AsidAlloc, At, K, Running, Shape, ShRecord, Spawns, vm
    <3>u. /\ vmref' \in [Spawns -> Int]
          /\ \A j \in Spawns : vmref'[j] = IF j = sh.k THEN 1 ELSE vmref[j]
          /\ proc' \in [Spawns -> Int]
          /\ \A j \in Spawns : proc'[j] = IF j = sh.k THEN 1 ELSE proc[j]
      BY <3>1 DEF Shape, ShRecord
    <3>2. Shape'
      BY <3>1, <3>u DEF Shape, PCs
    <3>3. Places'
      BY <3>1, <3>u DEF Shape, Places, PCs, Spawns
    <3>4. DyingRefs'
      BY <3>1, <3>u DEF Shape, Places, DyingRefs, RefsExact, RefsOf, PCs, Spawns,
         Dying, Ref, ShellHolds, TaskLives, ProcLives, SpaceLives
    <3>5. ASSUME NEW j \in Spawns PROVE RefsOf(j)'
      <4>1. CASE j = sh.k
        BY <4>1, <3>1, <3>u DEF Shape, Places, DyingRefs, RefsExact, RefsOf, PCs, Spawns,
             Dying, Ref, ShellHolds, TaskLives, ProcLives, SpaceLives
      <4>2. CASE j # sh.k
        BY <4>2, <3>1, <3>u DEF Shape, Places, DyingRefs, RefsExact, RefsOf, PCs, Spawns,
             Dying, Ref, ShellHolds, TaskLives, ProcLives, SpaceLives
      <4> QED
        BY <4>1, <4>2
    <3> QED
      BY <3>2, <3>3, <3>4, <3>5 DEF RefsExact
  <2> QED
    BY <2>1, <2>2
<1>3. CASE CodePage
  <2>1. CASE mem.pages = <<>>
    BY <1>3, <2>1, <1>p DEF CodePage
  <2>2. CASE mem.pages # <<>>
    <3>1. /\ sh.pc = "code"
          /\ sh'.pc = "map" /\ sh'.k = sh.k
          /\ ShRecord'
          /\ UNCHANGED <<proc, files, vmref, tstate>>
      BY <1>3, <2>2 DEF CodePage, At, K, Running, Shape, ShRecord, Spawns, vm
    <3>2. Shape'
      BY <3>1 DEF Shape, PCs
    <3>3. Places'
      BY <3>1 DEF Shape, Places, PCs, Spawns
    <3>4. DyingRefs'
      BY <3>1 DEF Shape, Places, DyingRefs, RefsExact, RefsOf, PCs, Spawns,
         Dying, Ref, ShellHolds, TaskLives, ProcLives, SpaceLives
    <3>5. ASSUME NEW j \in Spawns PROVE RefsOf(j)'
      <4>1. CASE j = sh.k
        BY <4>1, <3>1 DEF Shape, Places, DyingRefs, RefsExact, RefsOf, PCs, Spawns,
             Dying, Ref, ShellHolds, TaskLives, ProcLives, SpaceLives
      <4>2. CASE j # sh.k
        BY <4>2, <3>1 DEF Shape, Places, DyingRefs, RefsExact, RefsOf, PCs, Spawns,
             Dying, Ref, ShellHolds, TaskLives, ProcLives, SpaceLives
      <4> QED
        BY <4>1, <4>2
    <3> QED
      BY <3>2, <3>3, <3>4, <3>5 DEF RefsExact
  <2> QED
    BY <2>1, <2>2
<1>4. CASE MapCode
  <2>1. CASE NoTtbPage(mem)
    BY <1>4, <2>1, <1>p DEF MapCode
  <2>2. CASE ~NoTtbPage(mem)
    <3>1. /\ sh.pc = "map"
          /\ sh'.pc = "task" /\ sh'.k = sh.k
          /\ ShRecord'
          /\ UNCHANGED <<proc, files, vmref, tstate>>
      BY <1>4, <2>2 DEF MapCode, At, K, Running, Shape, ShRecord, Spawns, vm
    <3>2. Shape'
      BY <3>1 DEF Shape, PCs
    <3>3. Places'
      BY <3>1 DEF Shape, Places, PCs, Spawns
    <3>4. DyingRefs'
      BY <3>1 DEF Shape, Places, DyingRefs, RefsExact, RefsOf, PCs, Spawns,
         Dying, Ref, ShellHolds, TaskLives, ProcLives, SpaceLives
    <3>5. ASSUME NEW j \in Spawns PROVE RefsOf(j)'
      <4>1. CASE j = sh.k
        BY <4>1, <3>1 DEF Shape, Places, DyingRefs, RefsExact, RefsOf, PCs, Spawns,
             Dying, Ref, ShellHolds, TaskLives, ProcLives, SpaceLives
      <4>2. CASE j # sh.k
        BY <4>2, <3>1 DEF Shape, Places, DyingRefs, RefsExact, RefsOf, PCs, Spawns,
             Dying, Ref, ShellHolds, TaskLives, ProcLives, SpaceLives
      <4> QED
        BY <4>1, <4>2
    <3> QED
      BY <3>2, <3>3, <3>4, <3>5 DEF RefsExact
  <2> QED
    BY <2>1, <2>2
<1>5. CASE CreateTask
  <2>1. /\ sh.pc = "task"
        /\ sh'.pc = "stack" /\ sh'.k = sh.k
        /\ ShRecord'
        /\ proc' = [proc EXCEPT ![sh.k] = @ + 1]
        /\ vmref' = [vmref EXCEPT ![sh.k] = @ + 1]
        /\ tstate' = [tstate EXCEPT ![sh.k] = "new"]
        /\ UNCHANGED files
    BY <1>5 DEF CreateTask, At, K, Running, Shape, ShRecord, Spawns, vm
  <2>u. /\ proc' \in [Spawns -> Int]
        /\ \A j \in Spawns : proc'[j] = IF j = sh.k THEN proc[j] + 1 ELSE proc[j]
        /\ vmref' \in [Spawns -> Int]
        /\ \A j \in Spawns : vmref'[j] = IF j = sh.k THEN vmref[j] + 1 ELSE vmref[j]
        /\ tstate' \in [Spawns -> {"none", "new", "linked", "user", "exited", "freed"}]
        /\ \A j \in Spawns : tstate'[j] = IF j = sh.k THEN "new" ELSE tstate[j]
    BY <2>1 DEF Shape, ShRecord
  <2>2. Shape'
    BY <2>1, <2>u DEF Shape, PCs
  <2>3. Places'
    BY <2>1, <2>u DEF Shape, Places, PCs, Spawns
  <2>4. DyingRefs'
    BY <2>1, <2>u DEF Shape, Places, DyingRefs, RefsExact, RefsOf, PCs, Spawns,
       Dying, Ref, ShellHolds, TaskLives, ProcLives, SpaceLives
  <2>5. ASSUME NEW j \in Spawns PROVE RefsOf(j)'
    <3>1. CASE j = sh.k
      <4>1. RefsOf(j) /\ ~TaskLives(j) /\ ShellHolds(j) /\ ~Dying(j)
        BY <3>1, <2>1 DEF RefsExact, Places, TaskLives, ShellHolds, Dying
      <4>a. proc[j] = 1 /\ vmref[j] = 1 /\ files[j] = 1
        BY <4>1 DEF RefsOf, Ref, ProcLives
      <4>2. proc'[j] = 2 /\ vmref'[j] = 2 /\ files'[j] = 1 /\ tstate'[j] = "new"
        BY <3>1, <4>a, <2>1, <2>u
      <4> QED
        BY <3>1, <4>2, <2>1 DEF RefsOf, Dying, Ref, ShellHolds, TaskLives, ProcLives, SpaceLives
    <3>2. CASE j # sh.k
      <4>1. RefsOf(j) /\ ~ShellHolds(j) /\ ~Dying(j) /\ ~ShellHolds(j)' /\ ~Dying(j)' /\ j # sh'.k
        BY <3>2, <2>1 DEF RefsExact, ShellHolds, Dying
      <4>2. proc'[j] = proc[j] /\ vmref'[j] = vmref[j] /\ files'[j] = files[j] /\ tstate'[j] = tstate[j]
        BY <3>2, <2>1, <2>u
      <4>3. /\ TaskLives(j)' <=> TaskLives(j)
            /\ ProcLives(j)' <=> ProcLives(j)
            /\ SpaceLives(j)' <=> SpaceLives(j)
        BY <4>2 DEF TaskLives, ProcLives, SpaceLives
      <4> QED
        BY <3>2, <4>1, <4>2, <4>3 DEF RefsOf, Ref
    <3> QED
      BY <3>1, <3>2
  <2> QED
    BY <2>2, <2>3, <2>4, <2>5 DEF RefsExact
<1>6. CASE ListTask
  BY <1>6 DEF ListTask, ShRecord, Running, At, K, vm, Shape, Places, DyingRefs, RefsExact, RefsOf, PCs, Spawns,
     Dying, Ref, ShellHolds, TaskLives, ProcLives, SpaceLives
<1>7. CASE LinkTask
  BY <1>7 DEF LinkTask, ShRecord, Running, At, K, vm, Shape, Places, DyingRefs, RefsExact, RefsOf, PCs, Spawns,
     Dying, Ref, ShellHolds, TaskLives, ProcLives, SpaceLives
<1>8. CASE ShellProcRelease
  <2>1. /\ sh.pc = "release"
        /\ sh'.pc = (IF proc[sh.k] = 1 THEN "vm" ELSE "idle") /\ sh'.k = sh.k
        /\ ShRecord'
        /\ proc' = [proc EXCEPT ![sh.k] = @ - 1]
        /\ UNCHANGED <<files, vmref, tstate>>
    BY <1>8 DEF ShellProcRelease, At, K, Running, Shape, ShRecord, Spawns, vm
  <2>u. /\ proc' \in [Spawns -> Int]
        /\ \A j \in Spawns : proc'[j] = IF j = sh.k THEN proc[j] - 1 ELSE proc[j]
    BY <2>1 DEF Shape, ShRecord
  <2>2. Shape'
    BY <2>1, <2>u DEF Shape, PCs
  <2>3. Places'
    BY <2>1, <2>u DEF Shape, Places, PCs, Spawns
  <2>4. DyingRefs'
    <3> SUFFICES ASSUME NEW j \in Spawns, Dying(j)' PROVE files'[j] = 1 /\ vmref'[j] = 1 /\ sh'.pc = "vm" /\ ~TaskLives(j)'
      BY DEF DyingRefs
    <3>1. j = sh.k /\ proc[j] = 1
      BY <2>1 DEF Dying
    <3>2. ~TaskLives(j) /\ vmref[j] = 1 /\ files[j] = 1
      BY <3>1, <2>1 DEF RefsExact, RefsOf, Places, Dying, Ref, ShellHolds, TaskLives, ProcLives
    <3> QED
      BY <3>1, <3>2, <2>1 DEF Dying, TaskLives
  <2>5. ASSUME NEW j \in Spawns PROVE RefsOf(j)'
    <3>1. CASE j = sh.k
      <4>1. /\ proc[j] = 1 + Ref(TaskLives(j)) /\ vmref[j] = proc[j] /\ files[j] = 1
            /\ proc'[j] = proc[j] - 1
        BY <3>1, <2>1, <2>u DEF RefsExact, RefsOf, Places, Dying, Ref, ShellHolds, TaskLives, ProcLives
      <4>2. CASE TaskLives(j)
        BY <3>1, <4>1, <4>2, <2>1 DEF RefsOf, Dying, Ref, ShellHolds, TaskLives, ProcLives, SpaceLives
      <4>3. CASE ~TaskLives(j)
        BY <3>1, <4>1, <4>3, <2>1 DEF RefsOf, Dying, Ref, ShellHolds, TaskLives, ProcLives, SpaceLives
      <4> QED
        BY <4>2, <4>3
    <3>2. CASE j # sh.k
      BY <3>2, <2>1, <2>u DEF Shape, Places, DyingRefs, RefsExact, RefsOf, PCs, Spawns,
           Dying, Ref, ShellHolds, TaskLives, ProcLives, SpaceLives
    <3> QED
      BY <3>1, <3>2
  <2> QED
    BY <2>2, <2>3, <2>4, <2>5 DEF RefsExact
<1>9. CASE ShellVmRelease
  <2>1. /\ sh.pc = "vm"
        /\ vmref[sh.k] = 1
        /\ sh'.pc = "read" /\ sh'.k = sh.k
        /\ ShRecord'
        /\ vmref' = [vmref EXCEPT ![sh.k] = @ - 1]
        /\ UNCHANGED <<proc, files, tstate>>
    BY <1>9 DEF ShellVmRelease, At, K, Running, Shape, ShRecord, Spawns, vm, DyingRefs, Dying
  <2>u. /\ vmref' \in [Spawns -> Int]
        /\ \A j \in Spawns : vmref'[j] = IF j = sh.k THEN 0 ELSE vmref[j]
    BY <2>1 DEF Shape, ShRecord
  <2>2. Shape'
    BY <2>1, <2>u DEF Shape, PCs
  <2>3. Places'
    BY <2>1, <2>u DEF Shape, Places, PCs, Spawns
  <2>4. DyingRefs'
    BY <2>1, <2>u DEF Shape, Places, DyingRefs, RefsExact, RefsOf, PCs, Spawns,
       Dying, Ref, ShellHolds, TaskLives, ProcLives, SpaceLives
  <2>5. ASSUME NEW j \in Spawns PROVE RefsOf(j)'
    <3>1. CASE j = sh.k
      <4>1. proc[j] = 0 /\ ~TaskLives(j)
        BY <3>1, <2>1 DEF RefsExact, RefsOf, DyingRefs, Dying, Ref, ShellHolds
      <4> QED
        BY <3>1, <4>1, <2>1, <2>u DEF RefsOf, Dying, Ref, ShellHolds, TaskLives, ProcLives, SpaceLives
    <3>2. CASE j # sh.k
      BY <3>2, <2>1, <2>u DEF Shape, Places, DyingRefs, RefsExact, RefsOf, PCs, Spawns,
           Dying, Ref, ShellHolds, TaskLives, ProcLives, SpaceLives
    <3> QED
      BY <3>1, <3>2
  <2> QED
    BY <2>2, <2>3, <2>4, <2>5 DEF RefsExact
<1>10. CASE ShellAsidRead
  <2>1. CASE asid[K] \notin asids
    BY <1>10, <2>1, <1>p DEF ShellAsidRead
  <2>2. CASE ~(asid[K] \notin asids)
    <3>1. /\ sh.pc = "read"
          /\ sh'.pc = "write" /\ sh'.k = sh.k
          /\ ShRecord'
          /\ UNCHANGED <<proc, files, vmref, tstate>>
      BY <1>10, <2>2 DEF ShellAsidRead, At, K, Running, Shape, ShRecord, Spawns, vm
    <3>2. Shape'
      BY <3>1 DEF Shape, PCs
    <3>3. Places'
      BY <3>1 DEF Shape, Places, PCs, Spawns
    <3>4. DyingRefs'
      BY <3>1 DEF Shape, Places, DyingRefs, RefsExact, RefsOf, PCs, Spawns,
         Dying, Ref, ShellHolds, TaskLives, ProcLives, SpaceLives
    <3>5. ASSUME NEW j \in Spawns PROVE RefsOf(j)'
      <4>1. CASE j = sh.k
        BY <4>1, <3>1 DEF Shape, Places, DyingRefs, RefsExact, RefsOf, PCs, Spawns,
             Dying, Ref, ShellHolds, TaskLives, ProcLives, SpaceLives
      <4>2. CASE j # sh.k
        BY <4>2, <3>1 DEF Shape, Places, DyingRefs, RefsExact, RefsOf, PCs, Spawns,
             Dying, Ref, ShellHolds, TaskLives, ProcLives, SpaceLives
      <4> QED
        BY <4>1, <4>2
    <3> QED
      BY <3>2, <3>3, <3>4, <3>5 DEF RefsExact
  <2> QED
    BY <2>1, <2>2
<1>11. CASE ShellAsidWrite
  BY <1>11 DEF ShellAsidWrite, ShRecord, Running, At, K, vm, Shape, Places, DyingRefs, RefsExact, RefsOf, PCs, Spawns,
     Dying, Ref, ShellHolds, TaskLives, ProcLives, SpaceLives
<1>12. CASE ShellTlbi
  BY <1>12 DEF ShellTlbi, ShRecord, Running, At, K, vm, Shape, Places, DyingRefs, RefsExact, RefsOf, PCs, Spawns,
     Dying, Ref, ShellHolds, TaskLives, ProcLives, SpaceLives
<1>13. CASE ShellFilesRelease
  <2>1. /\ sh.pc = "files"
        /\ sh'.pc = "idle" /\ sh'.k = sh.k
        /\ ShRecord'
        /\ files' = [files EXCEPT ![sh.k] = @ - 1]
        /\ UNCHANGED <<proc, vmref, tstate>>
    BY <1>13 DEF ShellFilesRelease, At, K, Running, Shape, ShRecord, Spawns, vm
  <2>u. /\ files' \in [Spawns -> Int]
        /\ \A j \in Spawns : files'[j] = IF j = sh.k THEN files[j] - 1 ELSE files[j]
    BY <2>1 DEF Shape, ShRecord
  <2>2. Shape'
    BY <2>1, <2>u DEF Shape, PCs
  <2>3. Places'
    BY <2>1, <2>u DEF Shape, Places, PCs, Spawns
  <2>4. DyingRefs'
    BY <2>1, <2>u DEF Shape, Places, DyingRefs, RefsExact, RefsOf, PCs, Spawns,
       Dying, Ref, ShellHolds, TaskLives, ProcLives, SpaceLives
  <2>5. ASSUME NEW j \in Spawns PROVE RefsOf(j)'
    <3>1. CASE j = sh.k
      BY <3>1, <2>1, <2>u DEF Shape, Places, DyingRefs, RefsExact, RefsOf, PCs, Spawns,
           Dying, Ref, ShellHolds, TaskLives, ProcLives, SpaceLives
    <3>2. CASE j # sh.k
      BY <3>2, <2>1, <2>u DEF Shape, Places, DyingRefs, RefsExact, RefsOf, PCs, Spawns,
           Dying, Ref, ShellHolds, TaskLives, ProcLives, SpaceLives
    <3> QED
      BY <3>1, <3>2
  <2> QED
    BY <2>2, <2>3, <2>4, <2>5 DEF RefsExact
<1>14. ASSUME NEW k \in Spawns, TaskEntry(k) PROVE RefInv'
  <2>1. /\ tstate[k] = "linked"
        /\ tstate' = [tstate EXCEPT ![k] = "user"]
        /\ UNCHANGED <<sh, proc, files, vmref>>
    BY <1>14 DEF TaskEntry, At, K, Running, Shape, ShRecord, Spawns, vm
  <2>2. Shape'
    BY <2>1 DEF Shape, PCs, ShRecord
  <2>3. Places'
    BY <2>1 DEF Shape, Places, PCs, Spawns
  <2>4. DyingRefs'
    BY <2>1 DEF Shape, Places, DyingRefs, RefsExact, RefsOf, PCs, Spawns,
       Dying, Ref, ShellHolds, TaskLives, ProcLives, SpaceLives
  <2>5. ASSUME NEW j \in Spawns PROVE RefsOf(j)'
    <3>1. CASE j = k
      BY <3>1, <2>1 DEF Shape, Places, DyingRefs, RefsExact, RefsOf, PCs, Spawns,
           Dying, Ref, ShellHolds, TaskLives, ProcLives, SpaceLives
    <3>2. CASE j # k
      BY <3>2, <2>1 DEF Shape, Places, DyingRefs, RefsExact, RefsOf, PCs, Spawns,
           Dying, Ref, ShellHolds, TaskLives, ProcLives, SpaceLives
    <3> QED
      BY <3>1, <3>2
  <2> QED
    BY <2>2, <2>3, <2>4, <2>5 DEF RefsExact
<1>15. ASSUME NEW k \in Spawns, TaskExit(k) PROVE RefInv'
  BY <1>15 DEF TaskExit, ShRecord, Running, At, K, vm, Shape, Places, DyingRefs, RefsExact, RefsOf, PCs, Spawns,
     Dying, Ref, ShellHolds, TaskLives, ProcLives, SpaceLives
<1>16. ASSUME NEW k \in Spawns, TaskRelease(k) PROVE RefInv'
  <2>1. /\ tstate[k] = "exited"
        /\ tstate' = [tstate EXCEPT ![k] = "freed"]
        /\ proc' = [proc EXCEPT ![k] = ProcRefsLeft(k)]
        /\ files' = [files EXCEPT ![k] = IF ProcRefsLeft(k) = 0 THEN @ - 1 ELSE @]
        /\ vmref' = [vmref EXCEPT ![k] = VmRefsLeft(k)]
        /\ UNCHANGED sh
    BY <1>16 DEF TaskRelease, At, K, Running, Shape, ShRecord, Spawns, vm
  <2>u. /\ proc' \in [Spawns -> Int]
        /\ \A j \in Spawns : proc'[j] = IF j = k THEN proc[j] - 1 ELSE proc[j]
        /\ files' \in [Spawns -> Int]
        /\ \A j \in Spawns : files'[j] = IF j = k THEN (IF proc[j] = 1 THEN files[j] - 1 ELSE files[j]) ELSE files[j]
        /\ vmref' \in [Spawns -> Int]
        /\ \A j \in Spawns : vmref'[j] = IF j = k THEN vmref[j] - (IF proc[j] = 1 THEN 2 ELSE 1) ELSE vmref[j]
        /\ tstate' \in [Spawns -> {"none", "new", "linked", "user", "exited", "freed"}]
        /\ \A j \in Spawns : tstate'[j] = IF j = k THEN "freed" ELSE tstate[j]
    BY <2>1 DEF Shape, ShRecord, ProcRefsLeft, VmRefsLeft
  <2>2. Shape'
    BY <2>1, <2>u DEF Shape, PCs, ShRecord
  <2>3. Places'
    BY <2>1, <2>u DEF Shape, Places, PCs, Spawns
  <2>4. DyingRefs'
    <3> SUFFICES ASSUME NEW j \in Spawns, Dying(j)
                 PROVE  files'[j] = files[j] /\ vmref'[j] = vmref[j] /\ tstate'[j] = tstate[j]
      BY <2>1 DEF DyingRefs, Dying, TaskLives
    <3>1. j # k
      BY <2>1 DEF DyingRefs, TaskLives
    <3> QED
      BY <3>1, <2>u
  <2>5. ASSUME NEW j \in Spawns PROVE RefsOf(j)'
    <3>1. CASE j = k
      <4>1. /\ proc[j] = 1 + Ref(ShellHolds(j)) /\ vmref[j] = 2 /\ files[j] = 1
            /\ ~Dying(j) /\ sh.pc = "asid" => j # sh.k
        <5>1. RefsOf(j) /\ TaskLives(j) /\ ~Dying(j) /\ tstate[j] # "none"
          BY <3>1, <2>1 DEF RefsExact, TaskLives, DyingRefs
        <5> QED
          BY <5>1 DEF RefsOf, Ref, ProcLives, Places
      <4>2. CASE ShellHolds(j)
        BY <3>1, <4>1, <4>2, <2>1, <2>u DEF RefsOf, Dying, Ref, ShellHolds, TaskLives, ProcLives, SpaceLives
      <4>3. CASE ~ShellHolds(j)
        BY <3>1, <4>1, <4>3, <2>1, <2>u DEF RefsOf, Dying, Ref, ShellHolds, TaskLives, ProcLives, SpaceLives
      <4> QED
        BY <4>2, <4>3
    <3>2. CASE j # k
      BY <3>2, <2>1, <2>u DEF Shape, Places, DyingRefs, RefsExact, RefsOf, PCs, Spawns,
           Dying, Ref, ShellHolds, TaskLives, ProcLives, SpaceLives
    <3> QED
      BY <3>1, <3>2
  <2> QED
    BY <2>2, <2>3, <2>4, <2>5 DEF RefsExact
<1>17. ASSUME NEW k \in Spawns, NEW v \in VA, Access(k, v) PROVE RefInv'
  BY <1>17 DEF Access, ShRecord, Running, At, K, vm, Shape, Places, DyingRefs, RefsExact, RefsOf, PCs, Spawns,
     Dying, Ref, ShellHolds, TaskLives, ProcLives, SpaceLives
<1>18. ASSUME NEW k \in Spawns, NEW v \in VA, VmFault(k, v) PROVE RefInv'
  <2>1. CASE mem.pages = <<>>
    BY <1>18, <2>1, <1>p DEF VmFault
  <2>2. CASE mem.pages # <<>>
    <3>1. /\ UNCHANGED <<sh, proc, files, vmref, tstate>>
      BY <1>18, <2>2 DEF VmFault, At, K, Running, Shape, ShRecord, Spawns, vm
    <3>2. Shape'
      BY <3>1 DEF Shape, PCs, ShRecord
    <3>3. Places'
      BY <3>1 DEF Shape, Places, PCs, Spawns
    <3>4. DyingRefs'
      BY <3>1 DEF Shape, Places, DyingRefs, RefsExact, RefsOf, PCs, Spawns,
         Dying, Ref, ShellHolds, TaskLives, ProcLives, SpaceLives
    <3>5. ASSUME NEW j \in Spawns PROVE RefsOf(j)'
      <4>1. CASE j = k
        BY <4>1, <3>1 DEF Shape, Places, DyingRefs, RefsExact, RefsOf, PCs, Spawns,
             Dying, Ref, ShellHolds, TaskLives, ProcLives, SpaceLives
      <4>2. CASE j # k
        BY <4>2, <3>1 DEF Shape, Places, DyingRefs, RefsExact, RefsOf, PCs, Spawns,
             Dying, Ref, ShellHolds, TaskLives, ProcLives, SpaceLives
      <4> QED
        BY <4>1, <4>2
    <3> QED
      BY <3>2, <3>3, <3>4, <3>5 DEF RefsExact
  <2> QED
    BY <2>1, <2>2
<1> QED
  BY <1>0, <1>1, <1>2, <1>3, <1>4, <1>5, <1>6, <1>7, <1>8, <1>9, <1>10, <1>11, <1>12, <1>13, <1>14, <1>15, <1>16, <1>17, <1>18 DEF Next, Spawning

------------------------------------------------------------------------------
(* The ASIDs and the TLB.                                                  *)

\* What the steps below have in common: no address space comes to life, and
\* the shell neither starts a call nor touches asid_table.
Quiet ==
  /\ \A k \in Spawns : vmref'[k] > 0 => vmref[k] > 0
  /\ sh'.k = sh.k /\ sh.pc # "asid" /\ sh'.pc # "asid"
  /\ sh.pc # "tlbi" /\ sh'.pc # "tlbi"
  /\ sh'.pc = "write" => asids \subseteq sh'.byte

\* The shell may be at any place while a task or the scheduler runs.
Elsewhere ==
  /\ \A k \in Spawns : vmref'[k] > 0 => vmref[k] > 0
  /\ sh' = sh

\* In the initial state no ASID is in use.
LEMMA TlbInvInit == Init => TlbInv
  BY DEF Init, TlbInv, VmShape, AsidsApart, AsidsMarked, StaleByte, TlbOwned, NoStaleTlb,
     NoEntries, SpaceLives

\* A step that changes no translation and no ASID.
LEMMA QuietStep ==
  ASSUME RefInv, TlbInv, Quiet \/ Elsewhere, UNCHANGED <<asid, pte, asids, tlb>>
  PROVE  TlbInv'
<1>1. VmShape' /\ AsidsApart' /\ TlbOwned'
  BY DEF TlbInv, VmShape, AsidsApart, TlbOwned
<1>2. AsidsMarked'
  BY DEF TlbInv, AsidsMarked, Quiet, Elsewhere
<1>3. StaleByte'
  BY DEF TlbInv, StaleByte, Quiet, Elsewhere
<1>4. NoStaleTlb'
  BY DEF TlbInv, NoStaleTlb, SpaceLives, Quiet, Elsewhere
<1> QED
  BY <1>1, <1>2, <1>3, <1>4 DEF TlbInv

\* A step that changes entries of one page table and flushes their addresses.
LEMMA MapStep ==
  ASSUME RefInv, TlbInv, Quiet \/ Elsewhere,
         NEW k \in Spawns, NEW t, NEW vs, t = [v \in VA |-> t[v]],
         \A v \in VA \ vs : t[v] = pte[k][v],
         pte' = [pte EXCEPT ![k] = t],
         tlb' = VmFlushByAddr(tlb, asid[k], vs),
         UNCHANGED <<asid, asids>>
  PROVE  TlbInv'
<1>1. \A j \in Spawns : pte'[j] = IF j = k THEN t ELSE pte[j]
  BY DEF TlbInv, VmShape
<1>2. VmShape'
  BY <1>1 DEF TlbInv, VmShape
<1>3. AsidsApart' /\ StaleByte'
  BY DEF TlbInv, AsidsApart, StaleByte, Quiet, Elsewhere
<1>4. AsidsMarked'
  BY DEF TlbInv, AsidsMarked, Quiet, Elsewhere
<1>5. TlbOwned'
  BY DEF TlbInv, TlbOwned, VmFlushByAddr
<1>6. NoStaleTlb'
  <2>1. ASSUME NEW j \in Spawns, NEW e \in tlb', vmref'[j] > 0, e[1] = asid'[j]
        PROVE  pte'[j][e[2]] = e[3]
    <3>1. e \in tlb /\ (e[1] # asid[k] \/ e[2] \notin vs) /\ e[2] \in VA
      BY <2>1 DEF TlbInv, TlbOwned, VmFlushByAddr
    <3>2. pte[j][e[2]] = e[3]
      BY <2>1, <3>1 DEF TlbInv, NoStaleTlb, SpaceLives, Quiet, Elsewhere
    <3>3. CASE j = k
      BY <2>1, <3>1, <3>2, <3>3, <1>1
    <3>4. CASE j # k
      BY <3>2, <3>4, <1>1
    <3> QED
      BY <3>3, <3>4
  <2>2. \A i, j \in Spawns : i # j /\ vmref'[i] > 0 /\ vmref'[j] > 0 => asid'[i] # asid'[j]
    BY DEF TlbInv, NoStaleTlb, SpaceLives, Quiet, Elsewhere
  <2> QED
    BY <2>1, <2>2 DEF NoStaleTlb, SpaceLives
<1> QED
  BY <1>2, <1>3, <1>4, <1>5, <1>6 DEF TlbInv

\* A step that frees an address space and flushes its ASID.
LEMMA FreeStep ==
  ASSUME RefInv, TlbInv, NEW k \in Spawns,
         \A j \in Spawns : vmref'[j] > 0 => vmref[j] > 0 /\ j # k,
         asid' = [asid EXCEPT ![k] = 0],
         pte' = [pte EXCEPT ![k] = NoEntries],
         tlb' = VmFlush(tlb, asid[k]),
         \A j \in Spawns : j # k /\ asid[j] # 0 =>
           /\ asid[j] \in asids' \/ (j = sh'.k /\ sh'.pc = "tlbi")
           /\ j < sh'.k \/ (j = sh'.k /\ sh'.pc # "asid"),
         StaleByte'
  PROVE  TlbInv'
<1>1. /\ \A j \in Spawns : asid'[j] = IF j = k THEN 0 ELSE asid[j]
      /\ \A j \in Spawns : pte'[j] = IF j = k THEN NoEntries ELSE pte[j]
  BY DEF TlbInv, VmShape
<1>2. VmShape'
  BY <1>1 DEF TlbInv, VmShape, NoEntries
<1>3. AsidsApart'
  BY <1>1 DEF TlbInv, AsidsApart
<1>4. AsidsMarked'
  BY <1>1 DEF TlbInv, AsidsMarked
<1>5. TlbOwned'
  BY <1>1 DEF TlbInv, TlbOwned, VmFlush
<1>6. NoStaleTlb'
  BY <1>1 DEF TlbInv, NoStaleTlb, SpaceLives, VmFlush
<1> QED
  BY <1>2, <1>3, <1>4, <1>5, <1>6 DEF TlbInv

\* Every step keeps the TLB in agreement with the page tables.
LEMMA TlbInvNext == RefInv /\ TlbInv /\ [Next]_vars => TlbInv'
<1> SUFFICES ASSUME RefInv, TlbInv, [Next]_vars PROVE TlbInv'
  OBVIOUS
<1> USE LifetimeAssumption
<1>e. \A k \in Spawns : vmref[k] \in Int
  BY DEF RefInv, Shape
<1>0. CASE UNCHANGED vars
  BY <1>0, <1>e, QuietStep DEF vars, Elsewhere
<1>p. ASSUME NEW why, Panic(why) PROVE TlbInv'
  BY <1>p, <1>e, QuietStep DEF Panic, vm, Elsewhere
<1>1. CASE ProcCreate
  <2>1. CASE NoTtbPage(mem)
    BY <1>1, <2>1, <1>p DEF ProcCreate
  <2>2. CASE ~NoTtbPage(mem)
    <3>s. /\ sh.pc = "idle" /\ sh.k \in Int
          /\ sh' = [sh EXCEPT !.pc = "asid", !.k = @ + 1]
          /\ UNCHANGED <<vmref, asid, pte, asids, tlb>>
      BY <1>1, <2>2 DEF ProcCreate, At, K, RefInv, Shape
    <3>1. /\ sh.pc = "idle" /\ sh.k \in Int
          /\ sh'.pc = "asid" /\ sh'.k = sh.k + 1
          /\ UNCHANGED <<vmref, asid, pte, asids, tlb>>
      BY <3>s DEF RefInv, Shape, ShRecord
    <3>2. AsidsMarked'
      BY <3>1 DEF TlbInv, AsidsMarked, Spawns
    <3>3. VmShape' /\ AsidsApart' /\ TlbOwned' /\ NoStaleTlb' /\ StaleByte'
      BY <3>1 DEF TlbInv, VmShape, AsidsApart, TlbOwned, NoStaleTlb, StaleByte, SpaceLives
    <3> QED
      BY <3>2, <3>3 DEF TlbInv
  <2> QED
    BY <2>1, <2>2
<1>2. CASE AsidAlloc
  <2>1. CASE Asids \subseteq asids
    BY <1>2, <2>1, <1>p DEF AsidAlloc
  <2>2. CASE ~(Asids \subseteq asids)
    <3>1. PICK a \in Asids \ asids :
            /\ asids' = asids \cup {a}
            /\ asid' = [asid EXCEPT ![sh.k] = a]
            /\ vmref' = [vmref EXCEPT ![sh.k] = 1]
            /\ sh.pc = "asid" /\ sh.k \in Spawns
            /\ sh'.pc = "code" /\ sh'.k = sh.k
            /\ UNCHANGED <<pte, tlb>>
      BY <1>2, <2>2 DEF AsidAlloc, At, K, RefInv, Shape, ShRecord
    <3>2. /\ a \in Int /\ a # 0
          /\ \A j \in Spawns : asid'[j] = IF j = sh.k THEN a ELSE asid[j]
          /\ \A j \in Spawns : vmref'[j] = IF j = sh.k THEN 1 ELSE vmref[j]
      BY <3>1 DEF TlbInv, VmShape, RefInv, Shape, Asids
    <3>3. asid[sh.k] = 0 /\ \A j \in Spawns : asid[j] # a
      BY <3>1, <3>2 DEF TlbInv, AsidsMarked, Spawns
    <3>4. \A e \in tlb : e[1] # a
      BY <3>1, <3>3 DEF TlbInv, TlbOwned
    <3>5. VmShape' /\ AsidsApart' /\ StaleByte'
      BY <3>1, <3>2, <3>3 DEF TlbInv, VmShape, AsidsApart, StaleByte
    <3>6. AsidsMarked'
      BY <3>1, <3>2 DEF TlbInv, AsidsMarked
    <3>7. TlbOwned'
      BY <3>1, <3>2, <3>3 DEF TlbInv, TlbOwned
    <3>8. NoStaleTlb'
      BY <3>1, <3>2, <3>3, <3>4 DEF TlbInv, NoStaleTlb, AsidsApart, AsidsMarked, SpaceLives
    <3> QED
      BY <3>5, <3>6, <3>7, <3>8 DEF TlbInv
  <2> QED
    BY <2>1, <2>2
<1>3. CASE CodePage
  <2>1. CASE mem.pages = <<>>
    BY <1>3, <2>1, <1>p DEF CodePage
  <2>2. CASE mem.pages # <<>>
    <3>1. Quiet /\ UNCHANGED <<asid, pte, asids, tlb>>
      BY <1>3, <2>2, <1>e DEF CodePage, Quiet, At, K, RefInv, Shape, ShRecord
    <3> QED
      BY <3>1, QuietStep
  <2> QED
    BY <2>1, <2>2
<1>4. CASE MapCode
  <2>1. CASE NoTtbPage(mem)
    BY <1>4, <2>1, <1>p DEF MapCode
  <2>2. CASE ~NoTtbPage(mem)
    <3> DEFINE t == MapPages(pte[sh.k], {sh.va}, sh.phys)
    <3>1. Quiet /\ UNCHANGED <<asid, asids>>
      BY <1>4, <2>2, <1>e DEF MapCode, Quiet, At, K, RefInv, Shape, ShRecord
    <3>2. /\ sh.k \in Spawns
          /\ t = [v \in VA |-> t[v]]
          /\ \A v \in VA \ {sh.va} : t[v] = pte[sh.k][v]
      BY <1>4 DEF MapCode, At, K, RefInv, Shape, MapPages
    <3>3. /\ pte' = [pte EXCEPT ![sh.k] = t]
          /\ tlb' = VmFlushByAddr(tlb, asid[sh.k], {sh.va})
      BY <1>4, <2>2 DEF MapCode, K
    <3> HIDE DEF t
    <3> QED
      BY <3>1, <3>2, <3>3, MapStep
  <2> QED
    BY <2>1, <2>2
<1>5. CASE CreateTask
  <2>1. /\ sh.pc = "task" /\ sh.k \in Spawns
        /\ sh'.pc = "stack" /\ sh'.k = sh.k
        /\ vmref' = [vmref EXCEPT ![sh.k] = @ + 1]
        /\ UNCHANGED <<asid, pte, asids, tlb>>
    BY <1>5 DEF CreateTask, At, K, RefInv, Shape, ShRecord
  <2>2. RefsOf(sh.k) /\ ShellHolds(sh.k) /\ ~Dying(sh.k)
    BY <2>1 DEF RefInv, RefsExact, ShellHolds, Dying
  <2>3. vmref[sh.k] > 0
    BY <2>2 DEF RefsOf, Ref, ProcLives
  <2>4. Quiet
    BY <2>1, <2>3, <1>e DEF Quiet, RefInv, Shape
  <2> QED
    BY <2>1, <2>4, QuietStep
<1>6. CASE ListTask
  <2>1. Quiet /\ UNCHANGED <<asid, pte, asids, tlb>>
    BY <1>6, <1>e DEF ListTask, vm, Quiet, At, K, RefInv, Shape, ShRecord
  <2> QED
    BY <2>1, QuietStep
<1>7. CASE LinkTask
  <2>1. Quiet /\ UNCHANGED <<asid, pte, asids, tlb>>
    BY <1>7, <1>e DEF LinkTask, vm, Quiet, At, K, RefInv, Shape, ShRecord
  <2> QED
    BY <2>1, QuietStep
<1>8. CASE ShellProcRelease
  <2>1. Quiet /\ UNCHANGED <<asid, pte, asids, tlb>>
    BY <1>8, <1>e DEF ShellProcRelease, vm, Quiet, At, K, RefInv, Shape, ShRecord
  <2> QED
    BY <2>1, QuietStep
<1>9. CASE ShellVmRelease
  <2>1. /\ sh.pc = "vm" /\ sh.k \in Spawns
        /\ sh'.pc \in {"read", "files"} /\ sh'.k = sh.k
        /\ vmref' = [vmref EXCEPT ![sh.k] = @ - 1]
        /\ UNCHANGED <<asid, pte, asids, tlb>>
    BY <1>9 DEF ShellVmRelease, At, K, RefInv, Shape, ShRecord
  <2>2. Quiet
    BY <2>1, <1>e DEF Quiet, RefInv, Shape
  <2> QED
    BY <2>1, <2>2, QuietStep
<1>10. CASE ShellAsidRead
  <2>1. CASE asid[K] \notin asids
    BY <1>10, <2>1, <1>p DEF ShellAsidRead
  <2>2. CASE asid[K] \in asids
    <3>1. Quiet /\ UNCHANGED <<asid, pte, asids, tlb>>
      BY <1>10, <2>2, <1>e DEF ShellAsidRead, vm, Quiet, At, K, RefInv, Shape, ShRecord
    <3> QED
      BY <3>1, QuietStep
  <2> QED
    BY <2>1, <2>2
<1>11. CASE ShellAsidWrite
  <2>1. /\ sh.pc = "write" /\ sh.k \in Spawns
        /\ sh'.pc = "tlbi" /\ sh'.k = sh.k
        /\ asids' = sh.byte \ {asid[sh.k]}
        /\ UNCHANGED <<vmref, asid, pte, tlb>>
    BY <1>11 DEF ShellAsidWrite, vm, At, K, RefInv, Shape, ShRecord
  <2>2. VmShape' /\ AsidsApart' /\ TlbOwned' /\ NoStaleTlb' /\ StaleByte'
    BY <2>1 DEF TlbInv, VmShape, AsidsApart, TlbOwned, NoStaleTlb, StaleByte, SpaceLives
  <2>3. AsidsMarked'
    BY <2>1 DEF TlbInv, AsidsMarked, AsidsApart, StaleByte
  <2> QED
    BY <2>2, <2>3 DEF TlbInv
<1>12. CASE ShellTlbi
  <2>1. /\ sh.pc = "tlbi" /\ sh.k \in Spawns
        /\ sh'.pc = "files" /\ sh'.k = sh.k
        /\ asid' = [asid EXCEPT ![sh.k] = 0]
        /\ pte' = [pte EXCEPT ![sh.k] = NoEntries]
        /\ tlb' = VmFlush(tlb, asid[sh.k])
        /\ UNCHANGED <<vmref, asids>>
    BY <1>12 DEF ShellTlbi, At, K, RefInv, Shape, ShRecord
  <2>2. vmref[sh.k] = 0
    BY <2>1 DEF RefInv, DyingRefs, Dying
  <2>3. \A j \in Spawns : vmref'[j] > 0 => vmref[j] > 0 /\ j # sh.k
    BY <2>1, <2>2
  <2>4. \A j \in Spawns : j # sh.k /\ asid[j] # 0 =>
          /\ asid[j] \in asids' \/ (j = sh'.k /\ sh'.pc = "tlbi")
          /\ j < sh'.k \/ (j = sh'.k /\ sh'.pc # "asid")
    BY <2>1 DEF TlbInv, AsidsMarked
  <2>5. StaleByte'
    BY <2>1 DEF StaleByte
  <2> QED
    BY <2>1, <2>3, <2>4, <2>5, FreeStep
<1>13. CASE ShellFilesRelease
  <2>1. Quiet /\ UNCHANGED <<asid, pte, asids, tlb>>
    BY <1>13, <1>e DEF ShellFilesRelease, vm, Quiet, At, K, RefInv, Shape, ShRecord
  <2> QED
    BY <2>1, QuietStep
<1>14. ASSUME NEW k \in Spawns, TaskEntry(k) PROVE TlbInv'
  <2>1. PICK b \in VA :
          /\ pte' = [pte EXCEPT ![k] = MapPages(MapPages(@, PageRange(b, StackPages), ONFAULT),
                                               {b, b + StackPages - 1}, NONE)]
          /\ tlb' = VmFlushByAddr(tlb, asid[k], PageRange(b, StackPages))
          /\ Elsewhere /\ UNCHANGED <<asid, asids>>
    BY <1>14, <1>e DEF TaskEntry, Elsewhere
  <2> DEFINE vs == PageRange(b, StackPages)
             t  == MapPages(MapPages(pte[k], vs, ONFAULT), {b, b + StackPages - 1}, NONE)
  <2>2. b \in vs /\ b + StackPages - 1 \in vs
    BY DEF PageRange, VA
  <2>3. pte' = [pte EXCEPT ![k] = t]
    BY <2>1
  <2>4. t = [v \in VA |-> t[v]] /\ \A v \in VA \ vs : t[v] = pte[k][v]
    <3> HIDE DEF vs
    <3> QED
      BY <2>2 DEF MapPages
  <2> HIDE DEF vs, t
  <2>5. tlb' = VmFlushByAddr(tlb, asid[k], vs)
    BY <2>1 DEF vs
  <2> QED
    BY <2>1, <2>3, <2>4, <2>5, MapStep
<1>15. ASSUME NEW k \in Spawns, TaskExit(k) PROVE TlbInv'
  BY <1>15, <1>e, QuietStep DEF TaskExit, vm, Elsewhere
<1>16. ASSUME NEW k \in Spawns, TaskRelease(k) PROVE TlbInv'
  <2> DEFINE gone == Deallocated(space[k], task[k].user_stack, StackPages)
             t    == MapPages(pte[k], gone, NONE)
  <2>1. /\ vmref' = [vmref EXCEPT ![k] = VmRefsLeft(k)]
        /\ VmRefsLeft(k) \in Int /\ vmref[k] > VmRefsLeft(k)
        /\ sh' = sh
    <3>1. vmref' = [vmref EXCEPT ![k] = VmRefsLeft(k)] /\ sh' = sh
      BY <1>16, Zenon DEF TaskRelease
    <3>2. VmRefsLeft(k) \in Int /\ vmref[k] > VmRefsLeft(k)
      BY <1>e DEF VmRefsLeft
    <3> QED
      BY <3>1, <3>2
  <2>2. \A j \in Spawns : vmref'[j] > 0 => vmref[j] > 0 /\ (j = k => VmRefsLeft(k) # 0)
    BY <2>1, <1>e DEF RefInv, Shape
  <2>3. CASE VmRefsLeft(k) = 0
    <3>1. /\ asid' = [asid EXCEPT ![k] = 0]
          /\ pte' = [pte EXCEPT ![k] = NoEntries]
          /\ asids' = asids \ {asid[k]}
          /\ tlb' = VmFlush(tlb, asid[k])
      BY <1>16, <2>3 DEF TaskRelease
    <3>2. \A j \in Spawns : j # k /\ asid[j] # 0 =>
            /\ asid[j] \in asids' \/ (j = sh'.k /\ sh'.pc = "tlbi")
            /\ j < sh'.k \/ (j = sh'.k /\ sh'.pc # "asid")
      BY <2>1, <3>1 DEF TlbInv, AsidsMarked, AsidsApart
    <3>3. StaleByte'
      BY <2>1, <3>1 DEF TlbInv, StaleByte
    <3> QED
      BY <2>2, <2>3, <3>1, <3>2, <3>3, FreeStep
  <2>4. CASE VmRefsLeft(k) # 0
    <3>1. /\ pte' = [pte EXCEPT ![k] = t]
          /\ tlb' = VmFlushByAddr(tlb, asid[k], gone)
          /\ UNCHANGED <<asid, asids>>
      BY <1>16, <2>4 DEF TaskRelease
    <3>2. t = [v \in VA |-> t[v]] /\ \A v \in VA \ gone : t[v] = pte[k][v]
      <4> HIDE DEF gone
      <4> QED
        BY DEF MapPages
    <3>3. Elsewhere
      BY <2>1, <2>2 DEF Elsewhere
    <3> HIDE DEF t, gone
    <3> QED
      BY <3>1, <3>2, <3>3, MapStep
  <2> QED
    BY <2>3, <2>4
<1>17. ASSUME NEW k \in Spawns, NEW v \in VA, Access(k, v) PROVE TlbInv'
  <2>1. /\ tstate[k] = "user"
        /\ tlb' = tlb \cup {<<asid[k], v, pte[k][v]>>}
        /\ UNCHANGED <<sh, vmref, asid, pte, asids>>
    BY <1>17 DEF Access, Running, vm
  <2>2. asid[k] # 0
    BY <2>1, <1>e DEF RefInv, RefsExact, RefsOf, TaskLives, SpaceLives, TlbInv, AsidsMarked
  <2>3. VmShape' /\ AsidsApart' /\ AsidsMarked' /\ StaleByte'
    BY <2>1 DEF TlbInv, VmShape, AsidsApart, AsidsMarked, StaleByte
  <2>4. TlbOwned'
    BY <2>1, <2>2 DEF TlbInv, TlbOwned
  <2>5. NoStaleTlb'
    BY <2>1, <2>2 DEF TlbInv, NoStaleTlb, AsidsApart, SpaceLives
  <2> QED
    BY <2>3, <2>4, <2>5 DEF TlbInv
<1>18. ASSUME NEW k \in Spawns, NEW v \in VA, VmFault(k, v) PROVE TlbInv'
  <2>1. CASE mem.pages = <<>>
    BY <1>18, <2>1, <1>p DEF VmFault
  <2>2. CASE mem.pages # <<>>
    <3> DEFINE t == MapPages(pte[k], {v}, Head(mem.pages))
    <3>1. /\ pte' = [pte EXCEPT ![k] = t]
          /\ tlb' = VmFlushByAddr(tlb, asid[k], {v})
          /\ Elsewhere /\ UNCHANGED <<asid, asids>>
      BY <1>18, <2>2, <1>e DEF VmFault, Elsewhere
    <3>2. t = [u \in VA |-> t[u]] /\ \A u \in VA \ {v} : t[u] = pte[k][u]
      BY DEF MapPages
    <3> HIDE DEF t
    <3> QED
      BY <3>1, <3>2, MapStep
  <2> QED
    BY <2>1, <2>2
<1> QED
  BY <1>0, <1>1, <1>2, <1>3, <1>4, <1>5, <1>6, <1>7, <1>8, <1>9, <1>10, <1>11, <1>12, <1>13,
     <1>14, <1>15, <1>16, <1>17, <1>18 DEF Next, Spawning

------------------------------------------------------------------------------
(* The walk over a page table.                                             *)

\* One step of the walk.
Walked(t, vs, v, ps) == IF v \in vs /\ t[v] \in Pages THEN Append(ps, t[v]) ELSE ps

\* The pages found up to the address v.
Upto(t, vs, n, f) == f = [v \in 0..n |-> IF v = 0 THEN <<>> ELSE Walked(t, vs, v, f[v - 1])]

\* The walk is well defined.
LEMMA WalkExists == ASSUME NEW t, NEW vs, NEW n \in Nat PROVE \E f : Upto(t, vs, n, f)
<1> DEFINE T == {i \in 0..n : \E f : Upto(t, vs, i, f)}
<1>1. 0 \in T
  <2> DEFINE f == [v \in 0..0 |-> <<>>]
  <2>1. f = [v \in 0..0 |-> IF v = 0 THEN <<>> ELSE Walked(t, vs, v, f[v - 1])]
    OBVIOUS
  <2>2. Upto(t, vs, 0, f)
    BY <2>1 DEF Upto
  <2> HIDE DEF f
  <2> QED
    BY <2>2
<1>2. ASSUME NEW i \in 1..n, i - 1 \in T PROVE i \in T
  <2>1. PICK f : Upto(t, vs, i - 1, f)
    BY <1>2
  <2> DEFINE e == Walked(t, vs, i, f[i - 1])
             g == [v \in 0..i |-> IF v = i THEN e ELSE f[v]]
  <2>2. ASSUME NEW v \in 0..i PROVE g[v] = IF v = 0 THEN <<>> ELSE Walked(t, vs, v, g[v - 1])
    <3>1. CASE v = i
      <4>1. v # 0 /\ v - 1 \in 0..i /\ v - 1 # i /\ g[v - 1] = f[i - 1]
        BY <3>1
      <4>2. g[v] = e
        BY <3>1
      <4> HIDE DEF g
      <4> QED
        BY <3>1, <4>1, <4>2
    <3>2. CASE v # i
      <4>1. v \in 0..(i - 1) /\ g[v] = f[v] /\ (v # 0 => g[v - 1] = f[v - 1])
        BY <3>2
      <4>2. f[v] = IF v = 0 THEN <<>> ELSE Walked(t, vs, v, f[v - 1])
        BY <2>1, <4>1 DEF Upto
      <4> HIDE DEF g
      <4> QED
        BY <4>1, <4>2
    <3> QED
      BY <3>1, <3>2
  <2>3. g = [v \in 0..i |-> g[v]]
    OBVIOUS
  <2> HIDE DEF g
  <2>4. Upto(t, vs, i, g)
    BY <2>2, <2>3 DEF Upto
  <2> QED
    BY <2>4
<1> HIDE DEF T
<1>3. n \in T
  BY <1>1, <1>2, UpTo
<1> QED
  BY <1>3 DEF T

\* The walk finds each mapped page of vs once.
LEMMA Mapped ==
  ASSUME NEW t, NEW vs \in SUBSET VA,
         \A v, w \in VA : t[v] \in Pages /\ t[v] = t[w] => v = w
  PROVE  /\ List(MappedPages(t, vs))
         /\ ToSet(MappedPages(t, vs)) = {t[v] : v \in {w \in vs : t[w] \in Pages}}
<1> DEFINE F == CHOOSE f : f = [v \in 0..NVa |-> IF v = 0 THEN <<>>
                                                ELSE IF v \in vs /\ t[v] \in Pages THEN Append(f[v - 1], t[v])
                                                ELSE f[v - 1]]
           Found(n) == {t[v] : v \in {w \in vs : w <= n /\ t[w] \in Pages}}
           T == {n \in 0..NVa : List(F[n]) /\ ToSet(F[n]) = Found(n)}
<1>n. NVa \in Nat
  BY LifetimeAssumption
<1>1. MappedPages(t, vs) = F[NVa]
  BY DEF MappedPages
<1>2. Upto(t, vs, NVa, F)
  <2>1. PICK g : Upto(t, vs, NVa, g)
    BY <1>n, WalkExists
  <2>2. \E f : f = [v \in 0..NVa |-> IF v = 0 THEN <<>>
                                     ELSE IF v \in vs /\ t[v] \in Pages THEN Append(f[v - 1], t[v])
                                     ELSE f[v - 1]]
    BY <2>1, Zenon DEF Upto, Walked
  <2> QED
    BY <2>2, Zenon DEF Upto, Walked
<1> HIDE DEF F
<1>3. F[0] = <<>>
  BY <1>2, <1>n DEF Upto
<1>4. \A v \in 1..NVa : F[v] = Walked(t, vs, v, F[v - 1])
  BY <1>2, <1>n DEF Upto
<1>5. 0 \in T
  <2>1. \A w \in vs : ~(w <= 0)
    BY <1>n DEF VA
  <2>2. Found(0) = {}
    BY <2>1
  <2> QED
    BY <2>2, <1>3, <1>n, EmptyList
<1>6. ASSUME NEW n \in 1..NVa, n - 1 \in T PROVE n \in T
  <2>1. List(F[n - 1]) /\ ToSet(F[n - 1]) = Found(n - 1)
    BY <1>6
  <2>2. \A w \in vs : w \in Int /\ (w <= n <=> w = n \/ w <= n - 1)
    BY DEF VA
  <2>3. CASE n \in vs /\ t[n] \in Pages
    <3>1. F[n] = Append(F[n - 1], t[n])
      BY <1>4, <2>3 DEF Walked
    <3>2. t[n] \notin Found(n - 1) /\ t[n] \in Int
      BY <2>3, <2>2 DEF VA, Pages
    <3>3. F[n] = F[n - 1] \o <<t[n]>>
      BY <2>1, <3>1, <3>2 DEF List
    <3>4. List(F[n]) /\ ToSet(F[n]) = Found(n - 1) \cup {t[n]}
      <4>1. List(<<t[n]>>) /\ ToSet(<<t[n]>>) = {t[n]}
        BY <3>2, Single
      <4> QED
        BY <2>1, <3>2, <3>3, <4>1, Joined
    <3>5. Found(n) = Found(n - 1) \cup {t[n]}
      BY <2>2, <2>3
    <3> QED
      BY <3>4, <3>5, <1>n
  <2>4. CASE ~(n \in vs /\ t[n] \in Pages)
    <3>1. F[n] = F[n - 1]
      BY <1>4, <2>4 DEF Walked
    <3>2. Found(n) = Found(n - 1)
      BY <2>2, <2>4
    <3> QED
      BY <2>1, <3>1, <3>2, <1>n
  <2> QED
    BY <2>3, <2>4
<1>7. NVa \in T
  <2> HIDE DEF T
  <2> QED
    BY <1>n, <1>5, <1>6, UpTo
<1>8. Found(NVa) = {t[v] : v \in {w \in vs : t[w] \in Pages}}
  BY <1>n DEF VA
<1> QED
  BY <1>1, <1>7, <1>8

------------------------------------------------------------------------------
(* The kernel stacks.                                                      *)

\* The four fields of the allocators.
Fields(m) == m = [pages |-> m.pages, ttbs |-> m.ttbs, stacks |-> m.stacks, made |-> m.made]
MemRecord == Fields(mem)

\* What freeing pages does to the allocators.
LEMMA FreePagesIs ==
  ASSUME NEW m, NEW ps, Fields(m)
  PROVE  LET n == FreePages(m, ps) IN
         /\ Fields(n) /\ n.pages = Reverse(ps) \o m.pages
         /\ n.ttbs = m.ttbs /\ n.stacks = m.stacks /\ n.made = m.made
<1>1. \A e : LET n == [m EXCEPT !.pages = e] IN
             /\ Fields(n) /\ n.pages = e
             /\ n.ttbs = m.ttbs /\ n.stacks = m.stacks /\ n.made = m.made
  BY DEF Fields
<1> QED
  BY <1>1, Zenon DEF FreePages

\* What freeing an address space does to the allocators.
LEMMA FreeWalkIs ==
  ASSUME NEW m, NEW s, NEW t, Fields(m)
  PROVE  LET n == FreeWalk(m, s, t) IN
         /\ Fields(n) /\ n.pages = Reverse(MappedPages(t, VA)) \o m.pages
         /\ n.ttbs = <<s.root, s.leaf>> \o m.ttbs
         /\ n.stacks = m.stacks /\ n.made = m.made
<1> DEFINE f == FreePages(m, MappedPages(t, VA))
<1>1. /\ Fields(f) /\ f.pages = Reverse(MappedPages(t, VA)) \o m.pages
      /\ f.ttbs = m.ttbs /\ f.stacks = m.stacks /\ f.made = m.made
  BY FreePagesIs, Zenon
<1> HIDE DEF f
<1>2. Fields(f)
  BY <1>1
<1>3. \A e : LET n == [f EXCEPT !.ttbs = e] IN
             /\ Fields(n) /\ n.pages = f.pages /\ n.ttbs = e
             /\ n.stacks = f.stacks /\ n.made = f.made
  BY <1>2 DEF Fields
<1>4. FreeWalk(m, s, t) = [f EXCEPT !.ttbs = <<s.root, s.leaf>> \o f.ttbs]
  BY DEF FreeWalk, f
<1> QED
  BY <1>1, <1>3, <1>4, Zenon

\* It leaves the stacks alone.
LEMMA FreeWalkKeeps ==
  ASSUME NEW m, NEW s, NEW t, Fields(m), NEW w, w = FreeWalk(m, s, t)
  PROVE  Fields(w) /\ w.stacks = m.stacks /\ w.made = m.made
<1>1. LET n == FreeWalk(m, s, t) IN Fields(n) /\ n.stacks = m.stacks /\ n.made = m.made
  BY FreeWalkIs, Zenon
<1> QED
  BY <1>1, Zenon

\* kernel_stack_allocate has made the stacks 1..mem.made, and every stack of a
\* task or on stack_freelist is one of them.
StackTypes ==
  /\ MemRecord
  /\ mem.made \in Nat
  /\ List(mem.stacks) /\ ToSet(mem.stacks) \subseteq 1..mem.made
  /\ task \in [Spawns -> [user_stack : Int, kernel_stack : 0..mem.made, exception_stack : 0..mem.made]]

\* A task has its stacks from the step of spawn_cmd that allocates them until
\* it is freed.
StackPlaces ==
  \A k \in Spawns :
    /\ task[k].kernel_stack # NONE <=> TaskLives(k)
    /\ task[k].exception_stack # NONE <=> TaskLives(k) /\ ~(k = sh.k /\ sh.pc = "stack")

\* The stack x is not on the free list, and no stack of a task other than k.
OnlyOf(k, x) ==
  /\ x \notin ToSet(mem.stacks)
  /\ \A j \in Spawns \ {k} : task[j].kernel_stack # x /\ task[j].exception_stack # x

\* StacksExclusive, task by task.
StacksApart ==
  \A k \in Spawns :
    /\ task[k].kernel_stack # NONE => OnlyOf(k, task[k].kernel_stack)
    /\ task[k].exception_stack # NONE => OnlyOf(k, task[k].exception_stack)
    /\ task[k].kernel_stack # NONE => task[k].kernel_stack # task[k].exception_stack

StackInv == StackTypes /\ StackPlaces /\ StacksApart

\* At the start there are no stacks.
LEMMA StackInvInit == Init => StackInv
<1> SUFFICES ASSUME Init PROVE StackInv
  OBVIOUS
<1>1. StackTypes
  BY EmptyList DEF Init, StackTypes, MemRecord, Fields, NoStacks, NONE
<1> QED
  BY <1>1 DEF Init, StackInv, StackPlaces, StacksApart, NoStacks, TaskLives

\* A step that leaves the kernel stacks alone.
LEMMA SameStacks ==
  ASSUME StackInv, MemRecord', mem'.stacks = mem.stacks, mem'.made = mem.made,
         task' \in [Spawns -> [user_stack : Int, kernel_stack : 0..mem.made, exception_stack : 0..mem.made]],
         \A k \in Spawns : /\ task'[k].kernel_stack = task[k].kernel_stack
                           /\ task'[k].exception_stack = task[k].exception_stack,
         \A k \in Spawns : TaskLives(k)' <=> TaskLives(k),
         \A k \in Spawns : TaskLives(k) =>
            ((k = sh'.k /\ sh'.pc = "stack") <=> (k = sh.k /\ sh.pc = "stack"))
  PROVE  StackInv'
<1>1. StackTypes'
  BY DEF StackInv, StackTypes
<1>2. StackPlaces'
  BY DEF StackInv, StackPlaces
<1>3. StacksApart'
  BY DEF StackInv, StacksApart, OnlyOf
<1> QED
  BY <1>1, <1>2, <1>3 DEF StackInv

\* kernel_stack_allocate gives a stack that nobody has.
LEMMA StackAllocated ==
  ASSUME StackInv, NEW m, m = KernelStackAllocate(mem), NEW x, x = KernelStack(mem)
  PROVE  /\ m = [pages |-> mem.pages, ttbs |-> mem.ttbs, stacks |-> m.stacks, made |-> m.made]
         /\ m.made \in Nat /\ mem.made <= m.made
         /\ List(m.stacks) /\ ToSet(m.stacks) \subseteq ToSet(mem.stacks)
         /\ x \in 1..m.made /\ x \notin ToSet(m.stacks)
         /\ \A k \in Spawns : task[k].kernel_stack # x /\ task[k].exception_stack # x
<1>t. StackTypes /\ StacksApart
  BY DEF StackInv
<1>0. mem.made \in Nat
  BY <1>t DEF StackTypes
<1>1. CASE mem.stacks # <<>>
  <2>1. m = [pages |-> mem.pages, ttbs |-> mem.ttbs, stacks |-> Tail(mem.stacks), made |-> mem.made]
    BY <1>t, <1>1 DEF KernelStackAllocate, StackTypes, MemRecord, Fields
  <2>2. x = Head(mem.stacks)
    BY <1>1 DEF KernelStack
  <2>3. /\ List(Tail(mem.stacks)) /\ x \in ToSet(mem.stacks)
        /\ ToSet(Tail(mem.stacks)) = ToSet(mem.stacks) \ {x}
    BY <1>t, <1>1, <2>2, Popped DEF StackTypes
  <2>4. x \in 1..mem.made /\ x # NONE
    BY <1>t, <1>0, <2>3 DEF StackTypes, NONE
  <2>5. \A k \in Spawns : task[k].kernel_stack # x /\ task[k].exception_stack # x
    BY <1>t, <2>3, <2>4 DEF StacksApart, OnlyOf
  <2> QED
    BY <1>0, <2>1, <2>3, <2>4, <2>5
<1>2. CASE mem.stacks = <<>>
  <2>1. m = [pages |-> mem.pages, ttbs |-> mem.ttbs, stacks |-> <<>>, made |-> mem.made + 1]
    BY <1>t, <1>2 DEF KernelStackAllocate, StackTypes, MemRecord, Fields
  <2>2. x = mem.made + 1
    BY <1>2 DEF KernelStack
  <2>3. \A k \in Spawns : task[k].kernel_stack # x /\ task[k].exception_stack # x
    BY <1>t, <1>0, <2>2 DEF StackTypes
  <2> QED
    BY <1>0, <2>1, <2>2, <2>3, EmptyList
<1> QED
  BY <1>1, <1>2

\* task_release gives both stacks back.
LEMMA StacksFreed ==
  ASSUME StackInv, NEW k \in Spawns, tstate[k] = "exited", RefInv,
         NEW m, m = StacksFree(mem, task[k])
  PROVE  /\ m = [pages |-> mem.pages, ttbs |-> mem.ttbs, stacks |-> m.stacks, made |-> mem.made]
         /\ List(m.stacks)
         /\ ToSet(m.stacks) = ToSet(mem.stacks) \cup {task[k].kernel_stack, task[k].exception_stack}
         /\ task[k].kernel_stack \in 1..mem.made /\ task[k].exception_stack \in 1..mem.made
<1> DEFINE x == task[k].kernel_stack
           y == task[k].exception_stack
           s == <<x>> \o mem.stacks
           t == <<y>> \o s
<1>1. TaskLives(k) /\ ~(k = sh.k /\ sh.pc = "stack")
  BY DEF TaskLives, RefInv, Places
<1>2. x # NONE /\ y # NONE
  BY <1>1 DEF StackInv, StackPlaces
<1>3. mem.made \in Nat /\ x \in 0..mem.made /\ y \in 0..mem.made /\ List(mem.stacks)
  BY DEF StackInv, StackTypes
<1>4. x \in 1..mem.made /\ y \in 1..mem.made /\ x \in Int /\ y \in Int
  BY <1>2, <1>3 DEF NONE
<1>5. x \notin ToSet(mem.stacks) /\ y \notin ToSet(mem.stacks) /\ x # y
  BY <1>2 DEF StackInv, StacksApart, OnlyOf
<1>6. m = [pages |-> mem.pages, ttbs |-> mem.ttbs, stacks |-> t, made |-> mem.made]
  BY DEF StacksFree, KernelStackFree, StackInv, StackTypes, MemRecord, Fields
<1> HIDE DEF x, y
<1>7. List(s) /\ ToSet(s) = ToSet(mem.stacks) \cup {x}
  BY <1>3, <1>4, <1>5, Pushed
<1> HIDE DEF s
<1>8. List(t) /\ ToSet(t) = ToSet(s) \cup {y}
  BY <1>4, <1>5, <1>7, Pushed
<1> HIDE DEF t
<1>9. m.stacks = t
  BY <1>6
<1> QED
  BY <1>4, <1>6, <1>7, <1>8, <1>9 DEF x, y

\* Every step keeps the stacks apart.
LEMMA StackInvNext == RefInv /\ StackInv /\ [Next]_vars => StackInv'
<1> SUFFICES ASSUME RefInv, StackInv, [Next]_vars PROVE StackInv'
  OBVIOUS
<1> USE LifetimeAssumption
<1>t. /\ MemRecord
      /\ task \in [Spawns -> [user_stack : Int, kernel_stack : 0..mem.made, exception_stack : 0..mem.made]]
  BY DEF StackInv, StackTypes
<1>s. ShRecord /\ (sh.pc # "idle" => sh.k \in Spawns)
  BY DEF RefInv, Shape
<1>0. CASE UNCHANGED vars
  BY <1>0, <1>t, SameStacks DEF vars, MemRecord, Fields, TaskLives
<1>p. ASSUME NEW why, Panic(why) PROVE StackInv'
  BY <1>p, <1>t, SameStacks DEF Panic, MemRecord, Fields, TaskLives
<1>q. ASSUME UNCHANGED <<tstate, task>>, MemRecord', mem'.stacks = mem.stacks, mem'.made = mem.made,
             sh.pc # "stack", sh'.pc # "stack"
      PROVE  StackInv'
  BY <1>q, <1>t, SameStacks DEF TaskLives
<1>a. LET m == TtbPageAlloc(mem) IN
      m = [pages |-> m.pages, ttbs |-> m.ttbs, stacks |-> mem.stacks, made |-> mem.made]
  BY <1>t DEF MemRecord, Fields, TtbPageAlloc
<1>1. CASE ProcCreate
  <2>1. CASE NoTtbPage(mem)
    BY <1>1, <2>1, <1>p DEF ProcCreate
  <2>2. CASE ~NoTtbPage(mem)
    <3>1. sh.pc = "idle" /\ sh'.pc = "asid" /\ mem' = TtbPageAlloc(mem) /\ UNCHANGED <<tstate, task>>
      BY <1>1, <2>2, <1>s DEF ProcCreate, At, ShRecord
    <3> QED
      BY <3>1, <1>a, <1>q DEF MemRecord, Fields
  <2> QED
    BY <2>1, <2>2
<1>2. CASE AsidAlloc
  <2>1. CASE Asids \subseteq asids
    BY <1>2, <2>1, <1>p DEF AsidAlloc
  <2>2. CASE ~(Asids \subseteq asids)
    <3>1. sh.pc = "asid" /\ sh'.pc = "code" /\ UNCHANGED <<mem, tstate, task>>
      BY <1>2, <2>2, <1>s DEF AsidAlloc, At, ShRecord
    <3> QED
      BY <3>1, <1>t, <1>q DEF MemRecord, Fields
  <2> QED
    BY <2>1, <2>2
<1>3. CASE CodePage
  <2>1. CASE mem.pages = <<>>
    BY <1>3, <2>1, <1>p DEF CodePage
  <2>2. CASE mem.pages # <<>>
    <3>1. sh.pc = "code" /\ sh'.pc = "map" /\ mem' = [mem EXCEPT !.pages = Tail(@)] /\ UNCHANGED <<tstate, task>>
      BY <1>3, <2>2, <1>s DEF CodePage, At, ShRecord
    <3> QED
      BY <3>1, <1>t, <1>q DEF MemRecord, Fields
  <2> QED
    BY <2>1, <2>2
<1>4. CASE MapCode
  <2>1. CASE NoTtbPage(mem)
    BY <1>4, <2>1, <1>p DEF MapCode
  <2>2. CASE ~NoTtbPage(mem)
    <3>1. sh.pc = "map" /\ sh'.pc = "task" /\ mem' = TtbPageAlloc(mem) /\ UNCHANGED <<tstate, task>>
      BY <1>4, <2>2, <1>s DEF MapCode, At, ShRecord
    <3> QED
      BY <3>1, <1>a, <1>q DEF MemRecord, Fields
  <2> QED
    BY <2>1, <2>2
<1>5. CASE CreateTask
  <2> DEFINE x == KernelStack(mem)
             m == KernelStackAllocate(mem)
  <2>1. /\ sh.pc = "task" /\ sh'.pc = "stack" /\ sh'.k = sh.k /\ sh.k \in Spawns
        /\ mem' = m /\ task' = [task EXCEPT ![sh.k].kernel_stack = x]
        /\ tstate' = [tstate EXCEPT ![sh.k] = "new"]
    BY <1>5, <1>s DEF CreateTask, At, K, ShRecord
  <2>2. /\ m = [pages |-> mem.pages, ttbs |-> mem.ttbs, stacks |-> m.stacks, made |-> m.made]
        /\ m.made \in Nat /\ mem.made <= m.made
        /\ List(m.stacks) /\ ToSet(m.stacks) \subseteq ToSet(mem.stacks)
        /\ x \in 1..m.made /\ x \notin ToSet(m.stacks)
        /\ \A k \in Spawns : task[k].kernel_stack # x /\ task[k].exception_stack # x
    BY StackAllocated
  <2> HIDE DEF x, m
  <2>3. mem'.stacks = m.stacks /\ mem'.made = m.made /\ MemRecord'
    BY <2>1, <2>2 DEF MemRecord, Fields
  <2>4. mem.made \in Nat /\ ToSet(mem.stacks) \subseteq 1..mem.made
    BY DEF StackInv, StackTypes
  <2>5. 0..mem.made \subseteq 0..m.made /\ x \in 0..m.made /\ 1..mem.made \subseteq 1..m.made /\ x # NONE
    BY <2>2, <2>4 DEF NONE
  <2>6. /\ task' \in [Spawns -> [user_stack : Int, kernel_stack : 0..m.made, exception_stack : 0..m.made]]
        /\ task'[sh.k].kernel_stack = x /\ task'[sh.k].exception_stack = task[sh.k].exception_stack
        /\ \A k \in Spawns \ {sh.k} : task'[k] = task[k]
    BY <2>1, <2>5, <1>t
  <2>7. StackTypes'
    BY <2>2, <2>3, <2>4, <2>5, <2>6 DEF StackTypes
  <2>8. tstate[sh.k] = "none" /\ tstate'[sh.k] = "new" /\ \A k \in Spawns \ {sh.k} : tstate'[k] = tstate[k]
    BY <2>1 DEF RefInv, Shape, Places
  <2>9. StackPlaces'
    BY <2>1, <2>5, <2>6, <2>8 DEF StackInv, StackPlaces, TaskLives
  <2>10. task[sh.k].exception_stack = NONE
    BY <2>1, <2>8 DEF StackInv, StackPlaces, TaskLives
  <2>11. StacksApart'
    BY <2>1, <2>2, <2>3, <2>5, <2>6, <2>10 DEF StackInv, StacksApart, OnlyOf
  <2> QED
    BY <2>7, <2>9, <2>11 DEF StackInv
<1>6. CASE ListTask
  <2> DEFINE x == KernelStack(mem)
             m == KernelStackAllocate(mem)
  <2>1. /\ sh.pc = "stack" /\ sh'.pc = "link" /\ sh'.k = sh.k /\ sh.k \in Spawns
        /\ mem' = m /\ task' = [task EXCEPT ![sh.k].exception_stack = x]
        /\ UNCHANGED tstate
    BY <1>6, <1>s DEF ListTask, At, K, ShRecord
  <2>2. /\ m = [pages |-> mem.pages, ttbs |-> mem.ttbs, stacks |-> m.stacks, made |-> m.made]
        /\ m.made \in Nat /\ mem.made <= m.made
        /\ List(m.stacks) /\ ToSet(m.stacks) \subseteq ToSet(mem.stacks)
        /\ x \in 1..m.made /\ x \notin ToSet(m.stacks)
        /\ \A k \in Spawns : task[k].kernel_stack # x /\ task[k].exception_stack # x
    BY StackAllocated
  <2> HIDE DEF x, m
  <2>3. mem'.stacks = m.stacks /\ mem'.made = m.made /\ MemRecord'
    BY <2>1, <2>2 DEF MemRecord, Fields
  <2>4. mem.made \in Nat /\ ToSet(mem.stacks) \subseteq 1..mem.made
    BY DEF StackInv, StackTypes
  <2>5. 0..mem.made \subseteq 0..m.made /\ x \in 0..m.made /\ 1..mem.made \subseteq 1..m.made /\ x # NONE
    BY <2>2, <2>4 DEF NONE
  <2>6. /\ task' \in [Spawns -> [user_stack : Int, kernel_stack : 0..m.made, exception_stack : 0..m.made]]
        /\ task'[sh.k].exception_stack = x /\ task'[sh.k].kernel_stack = task[sh.k].kernel_stack
        /\ \A k \in Spawns \ {sh.k} : task'[k] = task[k]
    BY <2>1, <2>5, <1>t
  <2>7. StackTypes'
    BY <2>2, <2>3, <2>4, <2>5, <2>6 DEF StackTypes
  <2>8. TaskLives(sh.k)
    BY <2>1 DEF RefInv, Shape, Places, TaskLives
  <2>9. StackPlaces'
    BY <2>1, <2>5, <2>6, <2>8 DEF StackInv, StackPlaces, TaskLives
  <2>11. StacksApart'
    BY <2>1, <2>2, <2>3, <2>5, <2>6 DEF StackInv, StacksApart, OnlyOf
  <2> QED
    BY <2>7, <2>9, <2>11 DEF StackInv
<1>7. CASE LinkTask
  <2>1. /\ sh.pc = "link" /\ sh'.pc = "release" /\ sh.k \in Spawns
        /\ tstate' = [tstate EXCEPT ![sh.k] = "linked"] /\ UNCHANGED <<mem, task>>
    BY <1>7, <1>s DEF LinkTask, At, K, ShRecord
  <2>2. tstate[sh.k] = "new" /\ tstate \in [Spawns -> {"none", "new", "linked", "user", "exited", "freed"}]
    BY <2>1 DEF RefInv, Shape, Places
  <2>3. \A k \in Spawns : TaskLives(k)' <=> TaskLives(k)
    BY <2>1, <2>2 DEF TaskLives
  <2> QED
    BY <2>1, <2>3, <1>t, SameStacks DEF MemRecord, Fields
<1>8. CASE ShellProcRelease
  <2>1. sh.pc = "release" /\ sh'.pc \in {"vm", "idle"} /\ UNCHANGED <<mem, tstate, task>>
    BY <1>8, <1>s DEF ShellProcRelease, At, ShRecord
  <2> QED
    BY <2>1, <1>t, <1>q DEF MemRecord, Fields
<1>9. CASE ShellVmRelease
  <2>1. /\ sh.pc = "vm" /\ sh'.pc \in {"read", "files"} /\ UNCHANGED <<tstate, task>>
        /\ mem' = mem \/ mem' = FreeWalk(mem, space[K], pte[K])
    BY <1>9, <1>s DEF ShellVmRelease, At, ShRecord
  <2>2. MemRecord' /\ mem'.stacks = mem.stacks /\ mem'.made = mem.made
    BY <2>1, <1>t DEF MemRecord, Fields, FreeWalk, FreePages
  <2> QED
    BY <2>1, <2>2, <1>q
<1>10. CASE ShellAsidRead
  <2>1. CASE asid[K] \notin asids
    BY <1>10, <2>1, <1>p DEF ShellAsidRead
  <2>2. CASE asid[K] \in asids
    <3>1. sh.pc = "read" /\ sh'.pc = "write" /\ UNCHANGED <<mem, tstate, task>>
      BY <1>10, <2>2, <1>s DEF ShellAsidRead, At, ShRecord
    <3> QED
      BY <3>1, <1>t, <1>q DEF MemRecord, Fields
  <2> QED
    BY <2>1, <2>2
<1>11. CASE ShellAsidWrite
  <2>1. sh.pc = "write" /\ sh'.pc = "tlbi" /\ UNCHANGED <<mem, tstate, task>>
    BY <1>11, <1>s DEF ShellAsidWrite, At, ShRecord
  <2> QED
    BY <2>1, <1>t, <1>q DEF MemRecord, Fields
<1>12. CASE ShellTlbi
  <2>1. sh.pc = "tlbi" /\ sh'.pc = "files" /\ UNCHANGED <<mem, tstate, task>>
    BY <1>12, <1>s DEF ShellTlbi, At, ShRecord
  <2> QED
    BY <2>1, <1>t, <1>q DEF MemRecord, Fields
<1>13. CASE ShellFilesRelease
  <2>1. sh.pc = "files" /\ sh'.pc = "idle" /\ UNCHANGED <<mem, tstate, task>>
    BY <1>13, <1>s DEF ShellFilesRelease, At, ShRecord
  <2> QED
    BY <2>1, <1>t, <1>q DEF MemRecord, Fields
<1>14. ASSUME NEW k \in Spawns, TaskEntry(k) PROVE StackInv'
  <2>1. PICK b \in VA : /\ task' = [task EXCEPT ![k].user_stack = b]
                        /\ tstate[k] = "linked" /\ tstate' = [tstate EXCEPT ![k] = "user"]
                        /\ UNCHANGED <<sh, mem>>
    BY <1>14 DEF TaskEntry, Running
  <2>2. b \in Int
    BY DEF VA
  <2>3. \A j \in Spawns : TaskLives(j)' <=> TaskLives(j)
    BY <2>1 DEF TaskLives, RefInv, Shape
  <2>4. /\ task' \in [Spawns -> [user_stack : Int, kernel_stack : 0..mem.made, exception_stack : 0..mem.made]]
        /\ \A j \in Spawns : /\ task'[j].kernel_stack = task[j].kernel_stack
                             /\ task'[j].exception_stack = task[j].exception_stack
    BY <2>1, <2>2, <1>t
  <2> QED
    BY <2>1, <2>3, <2>4, <1>t, SameStacks DEF MemRecord, Fields
<1>15. ASSUME NEW k \in Spawns, TaskExit(k) PROVE StackInv'
  <2>1. tstate[k] = "user" /\ tstate' = [tstate EXCEPT ![k] = "exited"] /\ UNCHANGED <<sh, mem, task>>
    BY <1>15 DEF TaskExit, Running
  <2>2. \A j \in Spawns : TaskLives(j)' <=> TaskLives(j)
    BY <2>1 DEF TaskLives, RefInv, Shape
  <2> QED
    BY <2>1, <2>2, <1>t, SameStacks DEF MemRecord, Fields
<1>16. ASSUME NEW k \in Spawns, TaskRelease(k) PROVE StackInv'
  <2> DEFINE n == StacksFree(mem, task[k])
  <2>1. /\ tstate[k] = "exited" /\ tstate' = [tstate EXCEPT ![k] = "freed"]
        /\ task' = [task EXCEPT ![k] = NoStacks] /\ UNCHANGED sh
    BY <1>16 DEF TaskRelease, Running
  <2>f. \E ps, s, t : mem' \in {FreePages(n, ps), FreeWalk(FreePages(n, ps), s, t)}
    BY <1>16, Zenon DEF TaskRelease
  <2>2. /\ n = [pages |-> mem.pages, ttbs |-> mem.ttbs, stacks |-> n.stacks, made |-> mem.made]
        /\ List(n.stacks)
        /\ ToSet(n.stacks) = ToSet(mem.stacks) \cup {task[k].kernel_stack, task[k].exception_stack}
        /\ task[k].kernel_stack \in 1..mem.made /\ task[k].exception_stack \in 1..mem.made
    BY <2>1, StacksFreed
  <2> HIDE DEF n
  <2>3. MemRecord' /\ mem'.stacks = n.stacks /\ mem'.made = mem.made
    <3>1. PICK ps, s, t : mem' \in {FreePages(n, ps), FreeWalk(FreePages(n, ps), s, t)}
      BY <2>f
    <3>2. Fields(n) /\ n.made = mem.made
      BY <2>2 DEF Fields
    <3>f. PICK f : f = FreePages(n, ps)
      OBVIOUS
    <3>3. Fields(f) /\ f.stacks = n.stacks /\ f.made = n.made
      BY <3>2, <3>f, FreePagesIs, Zenon
    <3>4. CASE mem' = f
      BY <3>2, <3>3, <3>4 DEF MemRecord, Fields
    <3>5. CASE mem' = FreeWalk(f, s, t)
      <4>1. PICK w : w = FreeWalk(f, s, t)
        OBVIOUS
      <4>2. Fields(w) /\ w.stacks = f.stacks /\ w.made = f.made
        <5>1. Fields(f)
          BY <3>3
        <5> QED
          BY <4>1, <5>1, FreeWalkKeeps
      <4>3. mem' = w
        BY <3>5, <4>1
      <4> QED
        BY <3>2, <3>3, <4>2, <4>3 DEF MemRecord
    <3> QED
      BY <3>1, <3>f, <3>4, <3>5
  <2>4. /\ task' \in [Spawns -> [user_stack : Int, kernel_stack : 0..mem.made, exception_stack : 0..mem.made]]
        /\ task'[k].kernel_stack = NONE /\ task'[k].exception_stack = NONE
        /\ \A j \in Spawns \ {k} : task'[j] = task[j]
    BY <2>1, <1>t DEF NoStacks, NONE, StackInv, StackTypes
  <2>5. StackTypes'
    BY <2>2, <2>3, <2>4 DEF StackInv, StackTypes
  <2>6. tstate'[k] = "freed" /\ \A j \in Spawns \ {k} : tstate'[j] = tstate[j]
    BY <2>1 DEF RefInv, Shape
  <2>7. StackPlaces'
    BY <2>1, <2>4, <2>6 DEF StackInv, StackPlaces, TaskLives
  <2>n. task[k].kernel_stack # NONE /\ task[k].exception_stack # NONE
    BY <2>2 DEF NONE
  <2>8. StacksApart'
    BY <2>2, <2>3, <2>4, <2>n DEF StackInv, StacksApart, OnlyOf
  <2> QED
    BY <2>5, <2>7, <2>8 DEF StackInv
<1>17. ASSUME NEW k \in Spawns, NEW v \in VA, Access(k, v) PROVE StackInv'
  BY <1>17, <1>t, SameStacks DEF Access, MemRecord, Fields, TaskLives
<1>18. ASSUME NEW k \in Spawns, NEW v \in VA, VmFault(k, v) PROVE StackInv'
  <2>1. CASE mem.pages = <<>>
    BY <1>18, <2>1, <1>p DEF VmFault
  <2>2. CASE mem.pages # <<>>
    <3>1. mem' = [mem EXCEPT !.pages = Tail(@)] /\ UNCHANGED <<sh, tstate, task>>
      BY <1>18, <2>2 DEF VmFault
    <3>2. MemRecord' /\ mem'.stacks = mem.stacks /\ mem'.made = mem.made
      BY <3>1, <1>t DEF MemRecord, Fields
    <3> QED
      BY <3>1, <3>2, <1>t, SameStacks DEF TaskLives
  <2> QED
    BY <2>1, <2>2
<1> QED
  BY <1>0, <1>1, <1>2, <1>3, <1>4, <1>5, <1>6, <1>7, <1>8, <1>9, <1>10, <1>11, <1>12, <1>13,
     <1>14, <1>15, <1>16, <1>17, <1>18 DEF Next, Spawning

------------------------------------------------------------------------------
(* The pages.                                                              *)

\* The two lists of free pages.
PoolOK(m) ==
  /\ Fields(m)
  /\ List(m.pages) /\ List(m.ttbs)
  /\ ToSet(m.pages) \cap ToSet(m.ttbs) = {}
PoolOf(m) == ToSet(m.pages) \cup ToSet(m.ttbs)

\* ppage_alloc takes a page out of the pool.
LEMMA PageTaken ==
  ASSUME NEW m, PoolOK(m), m.pages # <<>>, NEW n, n = [m EXCEPT !.pages = Tail(@)]
  PROVE  /\ PoolOK(n) /\ Head(m.pages) \in PoolOf(m)
         /\ PoolOf(n) = PoolOf(m) \ {Head(m.pages)}
<1>1. Fields(n) /\ n.pages = Tail(m.pages) /\ n.ttbs = m.ttbs
  BY DEF PoolOK, Fields
<1>2. /\ List(Tail(m.pages)) /\ Head(m.pages) \in ToSet(m.pages)
      /\ ToSet(Tail(m.pages)) = ToSet(m.pages) \ {Head(m.pages)}
  BY Popped DEF PoolOK
<1> QED
  BY <1>1, <1>2 DEF PoolOK, PoolOf

\* ttbpage_alloc takes a page out of the pool.
LEMMA TtbTaken ==
  ASSUME NEW m, PoolOK(m), ~NoTtbPage(m), NEW n, n = TtbPageAlloc(m), NEW x, x = TtbPage(m)
  PROVE  PoolOK(n) /\ x \in PoolOf(m) /\ PoolOf(n) = PoolOf(m) \ {x}
<1>1. CASE m.ttbs # <<>>
  <2>1. Fields(n) /\ n.ttbs = Tail(m.ttbs) /\ n.pages = m.pages /\ x = Head(m.ttbs)
    BY <1>1 DEF PoolOK, Fields, TtbPageAlloc, TtbPage
  <2>2. /\ List(Tail(m.ttbs)) /\ Head(m.ttbs) \in ToSet(m.ttbs)
        /\ ToSet(Tail(m.ttbs)) = ToSet(m.ttbs) \ {Head(m.ttbs)}
    BY <1>1, Popped DEF PoolOK
  <2> QED
    BY <2>1, <2>2 DEF PoolOK, PoolOf
<1>2. CASE m.ttbs = <<>>
  <2>1. m.pages # <<>> /\ n = [m EXCEPT !.pages = Tail(@)] /\ x = Head(m.pages)
    BY <1>2 DEF NoTtbPage, TtbPageAlloc, TtbPage
  <2> QED
    BY <2>1, PageTaken
<1> QED
  BY <1>1, <1>2

\* The kernel stacks are no part of the pool.
LEMMA StacksAside ==
  ASSUME NEW m, PoolOK(m), NEW t
  PROVE  /\ PoolOK(KernelStackAllocate(m)) /\ PoolOf(KernelStackAllocate(m)) = PoolOf(m)
         /\ PoolOK(StacksFree(m, t)) /\ PoolOf(StacksFree(m, t)) = PoolOf(m)
<1>1. \A s : LET n == [m EXCEPT !.stacks = s] IN Fields(n) /\ n.pages = m.pages /\ n.ttbs = m.ttbs
  BY DEF PoolOK, Fields
<1>2. \A s : LET n == [m EXCEPT !.made = s] IN Fields(n) /\ n.pages = m.pages /\ n.ttbs = m.ttbs
  BY DEF PoolOK, Fields
<1>a. \A s, f, g : /\ LET n == [m EXCEPT !.stacks = s] IN PoolOK(n) /\ PoolOf(n) = PoolOf(m)
                   /\ LET n == [m EXCEPT !.made = s] IN PoolOK(n) /\ PoolOf(n) = PoolOf(m)
  BY <1>1, <1>2 DEF PoolOK, PoolOf
<1>3. PoolOK(KernelStackAllocate(m)) /\ PoolOf(KernelStackAllocate(m)) = PoolOf(m)
  BY <1>a, Zenon DEF KernelStackAllocate
<1>4. \A s : LET n == KernelStackFree(m, s) IN PoolOK(n) /\ PoolOf(n) = PoolOf(m)
  BY <1>a, Zenon DEF KernelStackFree
<1> DEFINE n == KernelStackFree(m, t.kernel_stack)
           y == t.exception_stack
<1>5. PoolOK(n) /\ PoolOf(n) = PoolOf(m)
  BY <1>4
<1>6. StacksFree(m, t) = KernelStackFree(n, y)
  BY DEF StacksFree
<1> HIDE DEF n, y
<1>7. \A s : LET w == [n EXCEPT !.stacks = s] IN Fields(w) /\ w.pages = n.pages /\ w.ttbs = n.ttbs
  BY <1>5 DEF PoolOK, Fields
<1>8. \A s : LET w == [n EXCEPT !.stacks = s] IN PoolOK(w) /\ PoolOf(w) = PoolOf(n)
  BY <1>5, <1>7 DEF PoolOK, PoolOf
<1>9. PoolOK(KernelStackFree(n, y)) /\ PoolOf(KernelStackFree(n, y)) = PoolOf(n)
  BY <1>8, Zenon DEF KernelStackFree
<1> QED
  BY <1>3, <1>5, <1>6, <1>9

\* Freed pages go to the pool.
LEMMA PagesFreed ==
  ASSUME NEW m, NEW ps, PoolOK(m), List(ps), ToSet(ps) \cap PoolOf(m) = {}
  PROVE  PoolOK(FreePages(m, ps)) /\ PoolOf(FreePages(m, ps)) = PoolOf(m) \cup ToSet(ps)
<1> DEFINE n == FreePages(m, ps)
           q == Reverse(ps) \o m.pages
<1>1. Fields(n) /\ n.pages = q /\ n.ttbs = m.ttbs
  BY FreePagesIs, Zenon DEF PoolOK
<1>2. List(Reverse(ps)) /\ ToSet(Reverse(ps)) = ToSet(ps)
  BY Reversed
<1>3. List(q) /\ ToSet(q) = ToSet(ps) \cup ToSet(m.pages)
  BY <1>2, Joined DEF PoolOK, PoolOf
<1> HIDE DEF n, q
<1>4. PoolOK(n) /\ PoolOf(n) = PoolOf(m) \cup ToSet(ps)
  BY <1>1, <1>3 DEF PoolOK, PoolOf
<1> QED
  BY <1>4 DEF n

\* The pages that the entries t map.
PagesOf(t, vs) == {t[v] : v \in {w \in vs : t[w] \in Pages}}
OneToOne(t) == \A v, w \in VA : t[v] \in Pages /\ t[v] = t[w] => v = w

\* ttbpage_free_walk gives the whole address space to the pool.
LEMMA SpaceFreed ==
  ASSUME NEW m, NEW s, NEW t, PoolOK(m), OneToOne(t),
         s.root \in Pages, s.leaf \in Pages, s.root # s.leaf,
         s.root \notin PagesOf(t, VA), s.leaf \notin PagesOf(t, VA),
         s.root \notin PoolOf(m), s.leaf \notin PoolOf(m), PagesOf(t, VA) \cap PoolOf(m) = {}
  PROVE  /\ PoolOK(FreeWalk(m, s, t))
         /\ PoolOf(FreeWalk(m, s, t)) = PoolOf(m) \cup PagesOf(t, VA) \cup {s.root, s.leaf}
<1> DEFINE ps == MappedPages(t, VA)
           f  == FreePages(m, ps)
           n  == FreeWalk(m, s, t)
           q  == <<s.root, s.leaf>> \o m.ttbs
<1>1. List(ps) /\ ToSet(ps) = PagesOf(t, VA)
  BY Mapped DEF OneToOne, PagesOf
<1>2. PoolOK(f) /\ PoolOf(f) = PoolOf(m) \cup ToSet(ps)
  <2> HIDE DEF ps
  <2> QED
    BY <1>1, PagesFreed
<1>3. Fields(n) /\ n.pages = Reverse(ps) \o m.pages /\ n.ttbs = q
  BY FreeWalkIs, Zenon DEF PoolOK
<1>4. f.pages = Reverse(ps) \o m.pages /\ f.ttbs = m.ttbs
  BY FreePagesIs, Zenon DEF PoolOK
<1> HIDE DEF ps, f, n
<1>5. s.root \in Int /\ s.leaf \in Int
  BY DEF Pages
<1>6. q = <<s.root>> \o (<<s.leaf>> \o m.ttbs)
  <2>1. m.ttbs \in Seq(Int)
    BY DEF PoolOK, List
  <2>2. <<s.root, s.leaf>> = <<s.root>> \o <<s.leaf>> /\ <<s.root>> \in Seq(Int) /\ <<s.leaf>> \in Seq(Int)
    BY <1>5
  <2> QED
    BY <2>1, <2>2, ConcatAssociative
<1>7. List(<<s.leaf>> \o m.ttbs) /\ ToSet(<<s.leaf>> \o m.ttbs) = ToSet(m.ttbs) \cup {s.leaf}
  BY <1>5, Pushed DEF PoolOK, PoolOf
<1>8. List(q) /\ ToSet(q) = ToSet(m.ttbs) \cup {s.leaf, s.root}
  <2> DEFINE r == <<s.leaf>> \o m.ttbs
  <2>1. s.root \notin ToSet(r)
    BY <1>7 DEF PoolOf
  <2>2. q = <<s.root>> \o r /\ List(r) /\ ToSet(r) = ToSet(m.ttbs) \cup {s.leaf}
    BY <1>6, <1>7
  <2> HIDE DEF r, q
  <2>3. List(q) /\ ToSet(q) = ToSet(r) \cup {s.root}
    BY <1>5, <2>1, <2>2, Pushed
  <2> QED
    BY <2>2, <2>3
<1> HIDE DEF q
<1>9. n.pages = f.pages
  BY <1>3, <1>4
<1>10. ToSet(f.pages) \cap {s.leaf, s.root} = {}
  BY <1>1, <1>2 DEF PoolOf
<1>11. PoolOK(n) /\ PoolOf(n) = PoolOf(m) \cup PagesOf(t, VA) \cup {s.root, s.leaf}
  BY <1>1, <1>2, <1>3, <1>4, <1>8, <1>9, <1>10 DEF PoolOK, PoolOf
<1> QED
  BY <1>11 DEF n

\* The address space of call k has been made and not yet been freed.
Live(k) == vmref[k] > 0 \/ (k = sh.k /\ sh.pc = "asid")

\* spawn_cmd has not yet mapped anything in it.
Fresh(k) == k = sh.k /\ sh.pc \in {"asid", "code", "map"}

\* vm_release has given its pages back, and not yet forgotten them.
Freeing(k) == k = sh.k /\ sh.pc \in {"read", "write", "tlbi"}

VmTypes ==
  /\ PoolOK(mem) /\ PoolOf(mem) \subseteq Pages
  /\ pte \in [Spawns -> [VA -> Pages \cup {NONE, ONFAULT}]]
  /\ space \in [Spawns -> [root : Pages \cup {NONE}, leaf : Pages \cup {NONE}, alloc : SUBSET VA]]
  /\ sh.phys \in Pages \cup {NONE} /\ sh.va \in VA \cup {NONE}

\* The tables and the mapped pages of an address space are different pages,
\* and only allocated addresses have an entry.
SpaceOK(k) ==
  /\ Live(k) =>
       /\ space[k].root \in Pages /\ space[k].root # space[k].leaf
       /\ space[k].root \notin PagesOf(pte[k], VA) /\ space[k].leaf \notin PagesOf(pte[k], VA)
       /\ OneToOne(pte[k])
       /\ \A v \in VA : pte[k][v] # NONE => v \in space[k].alloc
       /\ space[k].leaf = NONE <=> Fresh(k)
       /\ Fresh(k) => pte[k] = NoEntries
  /\ ~Live(k) /\ ~Freeing(k) => space[k] = NoSpace /\ pte[k] = NoEntries

\* The page in the hands of the shell.
ShellPage ==
  /\ sh.phys # NONE <=> sh.pc = "map"
  /\ sh.pc = "map" => sh.va \in VA /\ sh.va \in space[sh.k].alloc

\* The pages of an address space.
Own(k) ==
  IF Live(k) THEN PagesOf(pte[k], VA) \cup ({space[k].root, space[k].leaf} \cap Pages) ELSE {}

\* The pages of the address space k and those of no address space.
ShellHas == {sh.phys} \cap Pages
Mine(k) == PoolOf(mem) \cup Own(k) \cup ShellHas

\* No page has two owners, and every page has one.
PagesApart ==
  /\ \A k \in Spawns : Own(k) \cap PoolOf(mem) = {} /\ Own(k) \cap ShellHas = {}
  /\ \A j, k \in Spawns : j # k => Own(j) \cap Own(k) = {}
  /\ ShellHas \cap PoolOf(mem) = {}
PagesCovered ==
  \A p \in Pages : p \in PoolOf(mem) \/ p \in ShellHas \/ \E k \in Spawns : p \in Own(k)

PageInv ==
  VmTypes /\ (\A k \in Spawns : SpaceOK(k)) /\ ShellPage /\ PagesApart /\ PagesCovered

\* A step that moves pages between one address space, the shell and the pool.
LEMMA PageStep ==
  ASSUME PageInv, NEW k \in Spawns,
         \A j \in Spawns \ {k} : /\ Live(j)' <=> Live(j)
                                 /\ Fresh(j)' <=> Fresh(j)
                                 /\ Freeing(j)' <=> Freeing(j)
                                 /\ space'[j] = space[j] /\ pte'[j] = pte[j],
         VmTypes', ShellPage', SpaceOK(k)',
         Mine(k)' = Mine(k),
         Own(k)' \cap PoolOf(mem)' = {}, Own(k)' \cap ShellHas' = {}, ShellHas' \cap PoolOf(mem)' = {}
  PROVE  PageInv'
<1>1. \A j \in Spawns \ {k} : Own(j)' = Own(j)
  BY DEF Own, PagesOf
<1>2. \A j \in Spawns \ {k} : SpaceOK(j)'
  BY DEF PageInv, SpaceOK, OneToOne, PagesOf
<1>3. \A j \in Spawns \ {k} : Own(j) \cap Mine(k) = {}
  BY DEF PageInv, PagesApart, Mine
<1>4. PoolOf(mem)' \subseteq Mine(k) /\ ShellHas' \subseteq Mine(k) /\ Own(k)' \subseteq Mine(k)
  BY DEF Mine
<1>5. PagesApart'
  <2>1. \A j \in Spawns : Own(j)' \cap PoolOf(mem)' = {} /\ Own(j)' \cap ShellHas' = {}
    BY <1>1, <1>3, <1>4
  <2>2. \A i, j \in Spawns : i # j => Own(i)' \cap Own(j)' = {}
    BY <1>1, <1>3, <1>4 DEF PageInv, PagesApart
  <2> QED
    BY <2>1, <2>2 DEF PagesApart
<1>6. PagesCovered'
  <2> SUFFICES ASSUME NEW p \in Pages
               PROVE  p \in PoolOf(mem)' \/ p \in ShellHas' \/ \E j \in Spawns : p \in Own(j)'
    BY DEF PagesCovered
  <2>1. p \in Mine(k) \/ \E j \in Spawns \ {k} : p \in Own(j)
    BY DEF PageInv, PagesCovered, Mine
  <2>2. CASE p \in Mine(k)
    BY <2>2 DEF Mine
  <2>3. CASE \E j \in Spawns \ {k} : p \in Own(j)
    BY <2>3, <1>1
  <2> QED
    BY <2>1, <2>2, <2>3
<1> QED
  BY <1>2, <1>5, <1>6 DEF PageInv

\* A step that leaves the pages where they are.
LEMMA SamePages ==
  ASSUME PageInv, PoolOK(mem)', PoolOf(mem)' = PoolOf(mem), UNCHANGED <<pte, space>>,
         sh'.phys = sh.phys, sh'.va = sh.va, sh'.pc = "map" <=> sh.pc = "map",
         sh'.pc = "map" => sh'.k = sh.k,
         \A j \in Spawns : /\ Live(j)' <=> Live(j)
                           /\ Fresh(j)' <=> Fresh(j)
                           /\ Freeing(j)' <=> Freeing(j)
  PROVE  PageInv'
<1>1. \A j \in Spawns : Own(j)' = Own(j)
  BY DEF Own, PagesOf
<1>2. \A j \in Spawns : SpaceOK(j)'
  BY DEF PageInv, SpaceOK, OneToOne, PagesOf
<1>3. VmTypes' /\ ShellPage' /\ ShellHas' = ShellHas
  BY DEF PageInv, VmTypes, ShellPage, ShellHas
<1>4. PagesApart' /\ PagesCovered'
  BY <1>1, <1>3 DEF PageInv, PagesApart, PagesCovered
<1> QED
  BY <1>2, <1>3, <1>4 DEF PageInv

\* At the start every page is free.
LEMMA PageInvInit == Init => PageInv
<1> SUFFICES ASSUME Init PROVE PageInv
  OBVIOUS
<1> USE LifetimeAssumption
<1>1. PoolOK(mem) /\ PoolOf(mem) = Pages
  <2> DEFINE q == [p \in Pages |-> p]
  <2>1. q \in Seq(Int) /\ IsInjective(q) /\ ToSet(q) = Pages
    <3>1. q \in [1..NPages -> Int] /\ DOMAIN q = Pages /\ \A p \in Pages : q[p] = p
      BY DEF Pages
    <3> QED
      BY <3>1 DEF IsInjective, ToSet
  <2>2. mem = [pages |-> q, ttbs |-> <<>>, stacks |-> <<>>, made |-> 0]
    BY DEF Init
  <2> HIDE DEF q
  <2> QED
    BY <2>1, <2>2, EmptyList DEF PoolOK, PoolOf, Fields, List
<1>2. VmTypes
  BY <1>1 DEF Init, VmTypes, NoEntries, NoSpace, NONE
<1>3. \A k \in Spawns : ~Live(k) /\ SpaceOK(k)
  BY DEF Init, Live, SpaceOK
<1>4. ShellPage /\ ShellHas = {}
  BY DEF Init, ShellPage, ShellHas, Pages, NONE
<1>5. \A k \in Spawns : Own(k) = {}
  BY <1>3 DEF Own
<1> QED
  BY <1>1, <1>2, <1>3, <1>4, <1>5 DEF PageInv, PagesApart, PagesCovered

\* proc_create takes the root table.
LEMMA PagesProcCreate ==
  ASSUME RefInv, PageInv, ProcCreate, ~NoTtbPage(mem)
  PROVE  PageInv'
<1> USE LifetimeAssumption
<1>k. PICK k \in Spawns : k = sh.k + 1
  BY DEF ProcCreate, At, K, RefInv, Shape, Spawns
<1>x. PICK x : x = TtbPage(mem)
  OBVIOUS
<1>1. /\ sh.pc = "idle" /\ sh.k = k - 1 /\ k \in Int
      /\ sh'.pc = "asid" /\ sh'.k = k /\ sh'.phys = sh.phys /\ sh'.va = sh.va
      /\ space' = [space EXCEPT ![k].root = x]
      /\ mem' = TtbPageAlloc(mem)
      /\ UNCHANGED <<vmref, pte>>
  <2>1. /\ sh.pc = "idle" /\ K + 1 = k
        /\ sh' = [sh EXCEPT !.pc = "asid", !.k = k]
        /\ space' = [space EXCEPT ![K + 1].root = TtbPage(mem)]
        /\ mem' = TtbPageAlloc(mem)
        /\ UNCHANGED <<vmref, pte>>
    BY <1>k DEF ProcCreate, At, K
  <2>2. ShRecord /\ sh.k \in Int
    BY DEF RefInv, Shape
  <2>3. sh'.pc = "asid" /\ sh'.k = k /\ sh'.phys = sh.phys /\ sh'.va = sh.va
    BY <2>1, <2>2 DEF ShRecord
  <2>4. sh.k = k - 1 /\ k \in Int
    BY <1>k, <2>2 DEF Spawns
  <2>5. space' = [space EXCEPT ![k].root = x]
    BY <1>x, <2>1
  <2> QED
    BY <2>1, <2>3, <2>4, <2>5
<1>2. PoolOK(mem') /\ x \in PoolOf(mem) /\ PoolOf(mem') = PoolOf(mem) \ {x} /\ x \in Pages
  BY <1>1, <1>x, TtbTaken DEF PageInv, VmTypes
<1>3. vmref[k] = 0
  BY <1>1 DEF RefInv, Shape, Places, RefsExact, RefsOf, Dying, ShellHolds, TaskLives, ProcLives, Ref
<1>4. ~Live(k) /\ ~Freeing(k) /\ space[k] = NoSpace /\ pte[k] = NoEntries
  BY <1>1, <1>3 DEF Live, Freeing, PageInv, SpaceOK
<1>5. /\ space' \in [Spawns -> [root : Pages \cup {NONE}, leaf : Pages \cup {NONE}, alloc : SUBSET VA]]
      /\ \A j \in Spawns \ {k} : space'[j] = space[j]
      /\ space'[k] = [root |-> x, leaf |-> NONE, alloc |-> {}]
  <2>1. /\ space' \in [Spawns -> [root : Pages \cup {NONE}, leaf : Pages \cup {NONE}, alloc : SUBSET VA]]
        /\ \A j \in Spawns \ {k} : space'[j] = space[j]
        /\ space'[k].root = x /\ space'[k].leaf = space[k].leaf /\ space'[k].alloc = space[k].alloc
    BY <1>1, <1>2 DEF PageInv, VmTypes
  <2>2. space[k].leaf = NONE /\ space[k].alloc = {}
    BY <1>4 DEF NoSpace
  <2> QED
    BY <2>1, <2>2
<1>6. Live(k)' /\ Fresh(k)'
  BY <1>1 DEF Live, Fresh
<1>7. x # NONE /\ NONE \notin Pages
  BY <1>2 DEF Pages, NONE
<1>8. PagesOf(pte[k], VA) = {}
  BY <1>4, <1>7 DEF PagesOf, NoEntries
<1>9. Own(k)' = {x} /\ Own(k) = {} /\ ShellHas' = ShellHas
  BY <1>1, <1>2, <1>4, <1>5, <1>6, <1>7, <1>8 DEF Own, ShellHas, PagesOf
<1>10. SpaceOK(k)'
  <2>1. OneToOne(pte[k])
    BY <1>4, <1>7 DEF OneToOne, NoEntries
  <2>2. \A v \in VA : pte[k][v] = NONE
    BY <1>4 DEF NoEntries
  <2> QED
    BY <1>1, <1>2, <1>4, <1>5, <1>6, <1>7, <1>8, <2>1, <2>2 DEF SpaceOK, PagesOf, OneToOne
<1>11. VmTypes' /\ ShellPage'
  BY <1>1, <1>2, <1>5 DEF PageInv, VmTypes, ShellPage
<1>12. \A j \in Spawns \ {k} : /\ Live(j)' <=> Live(j)
                               /\ Fresh(j)' <=> Fresh(j)
                               /\ Freeing(j)' <=> Freeing(j)
  BY <1>1 DEF Live, Fresh, Freeing
<1>13. ShellHas \cap PoolOf(mem) = {}
  BY DEF PageInv, PagesApart
<1>14. Mine(k)' = Mine(k)
  BY <1>2, <1>9 DEF Mine
<1> QED
  BY <1>1, <1>2, <1>5, <1>9, <1>10, <1>11, <1>12, <1>13, <1>14, PageStep

\* The page for the code is in the hands of the shell.
LEMMA PagesCodePage ==
  ASSUME RefInv, PageInv, CodePage, mem.pages # <<>>
  PROVE  PageInv'
<1> USE LifetimeAssumption
<1>k. PICK k \in Spawns : k = sh.k
  BY DEF CodePage, At, RefInv, Shape
<1>x. PICK x : x = Head(mem.pages)
  OBVIOUS
<1>1. PICK b \in VA :
        /\ sh.pc = "code" /\ sh.k = k
        /\ sh'.pc = "map" /\ sh'.k = k /\ sh'.phys = x /\ sh'.va = b
        /\ space' = [space EXCEPT ![k].alloc = @ \cup {b}]
        /\ mem' = [mem EXCEPT !.pages = Tail(@)]
        /\ UNCHANGED <<vmref, pte>>
  BY <1>k, <1>x DEF CodePage, At, K, RefInv, Shape, ShRecord
<1>2. PoolOK(mem') /\ x \in PoolOf(mem) /\ PoolOf(mem') = PoolOf(mem) \ {x} /\ x \in Pages
  BY <1>1, <1>x, PageTaken DEF PageInv, VmTypes
<1>3. /\ space' \in [Spawns -> [root : Pages \cup {NONE}, leaf : Pages \cup {NONE}, alloc : SUBSET VA]]
      /\ \A j \in Spawns \ {k} : space'[j] = space[j]
      /\ space'[k].root = space[k].root /\ space'[k].leaf = space[k].leaf
      /\ space'[k].alloc = space[k].alloc \cup {b}
  BY <1>1 DEF PageInv, VmTypes
<1>4. \A j \in Spawns : /\ Live(j)' <=> Live(j)
                        /\ Fresh(j)' <=> Fresh(j)
                        /\ Freeing(j)' <=> Freeing(j)
  BY <1>1 DEF Live, Fresh, Freeing
<1>5. Fresh(k) /\ Fresh(k)' /\ ~Freeing(k)
  BY <1>1 DEF Fresh, Freeing
<1>l. Live(k)
  BY <1>1 DEF Live, RefInv, Shape, RefsExact, RefsOf, Dying, ShellHolds, Ref, ProcLives
<1>6. Own(k)' = Own(k)
  BY <1>1, <1>3, <1>4 DEF Own, PagesOf
<1>7. sh.phys = NONE
  BY <1>1 DEF PageInv, ShellPage
<1>8. ShellHas = {} /\ ShellHas' = {x}
  BY <1>1, <1>2, <1>7 DEF ShellHas, Pages, NONE
<1>9. SpaceOK(k)'
  <2>1. SpaceOK(k)
    BY <1>1 DEF PageInv
  <2> QED
    BY <2>1, <1>1, <1>3, <1>4, <1>l DEF SpaceOK, PagesOf, OneToOne
<1>10. VmTypes'
  BY <1>1, <1>2, <1>3 DEF PageInv, VmTypes
<1>11. ShellPage'
  BY <1>1, <1>2, <1>3 DEF ShellPage, Pages, NONE
<1>12. Own(k) \cap PoolOf(mem) = {}
  BY <1>1 DEF PageInv, PagesApart
<1>13. Mine(k)' = Mine(k)
  BY <1>2, <1>6, <1>8 DEF Mine
<1>14. Own(k)' \cap PoolOf(mem)' = {} /\ Own(k)' \cap ShellHas' = {} /\ ShellHas' \cap PoolOf(mem)' = {}
  BY <1>2, <1>6, <1>8, <1>12
<1>15. \A j \in Spawns \ {k} : space'[j] = space[j] /\ pte'[j] = pte[j]
  BY <1>1, <1>3
<1> QED
  BY <1>4, <1>9, <1>10, <1>11, <1>13, <1>14, <1>15, PageStep

\* The leaf table is made, and the shell's page is mapped.
LEMMA PagesMapCode ==
  ASSUME RefInv, PageInv, MapCode, ~NoTtbPage(mem)
  PROVE  PageInv'
<1> USE LifetimeAssumption
<1>k. PICK k \in Spawns : k = sh.k
  BY DEF MapCode, At, RefInv, Shape
<1>x. PICK b, y, x, t : /\ b = sh.va /\ y = sh.phys
                        /\ x = TtbPage(mem) /\ t = MapPages(pte[k], {b}, y)
  OBVIOUS
<1>1. /\ sh.pc = "map" /\ sh.k = k /\ b = sh.va /\ y = sh.phys
      /\ sh'.pc = "task" /\ sh'.k = k /\ sh'.phys = NONE /\ sh'.va = b
      /\ space' = [space EXCEPT ![k].leaf = x]
      /\ pte' = [pte EXCEPT ![k] = t]
      /\ mem' = TtbPageAlloc(mem)
      /\ UNCHANGED vmref
  BY <1>k, <1>x DEF MapCode, At, K, RefInv, Shape, ShRecord
<1>2. PoolOK(mem') /\ x \in PoolOf(mem) /\ PoolOf(mem') = PoolOf(mem) \ {x} /\ x \in Pages
  BY <1>1, <1>x, TtbTaken DEF PageInv, VmTypes
<1>0. NONE \notin Pages
  BY DEF Pages, NONE
<1>3. y \in Pages /\ b \in VA /\ b \in space[k].alloc
  BY <1>1 DEF PageInv, VmTypes, ShellPage
<1>l. Live(k) /\ Live(k)' /\ Fresh(k) /\ ~Fresh(k)'
  BY <1>1 DEF Live, Fresh, RefInv, Shape, RefsExact, RefsOf, Dying, ShellHolds, Ref, ProcLives
<1>4. pte[k] = NoEntries /\ space[k].leaf = NONE /\ space[k].root \in Pages
  BY <1>1, <1>l DEF PageInv, SpaceOK
<1>5. t = [v \in VA |-> IF v = b THEN y ELSE NONE]
  BY <1>4, <1>x DEF MapPages, NoEntries
<1>n. ShellHas = {y} /\ ShellHas' = {}
  BY <1>0, <1>1, <1>3 DEF ShellHas
<1>6. /\ space' \in [Spawns -> [root : Pages \cup {NONE}, leaf : Pages \cup {NONE}, alloc : SUBSET VA]]
      /\ \A j \in Spawns \ {k} : space'[j] = space[j]
      /\ space'[k].root = space[k].root /\ space'[k].leaf = x
      /\ space'[k].alloc = space[k].alloc
  BY <1>1, <1>2 DEF PageInv, VmTypes
<1>7. /\ pte' \in [Spawns -> [VA -> Pages \cup {NONE, ONFAULT}]]
      /\ \A j \in Spawns \ {k} : pte'[j] = pte[j]
      /\ pte'[k] = t
  <2>1. t \in [VA -> Pages \cup {NONE, ONFAULT}]
    BY <1>3, <1>5
  <2> QED
    BY <2>1, <1>1 DEF PageInv, VmTypes
<1>8. PagesOf(pte[k], VA) = {} /\ PagesOf(t, VA) = {y}
  BY <1>0, <1>3, <1>4, <1>5 DEF PagesOf, NoEntries
<1>9. Own(k) = {space[k].root} /\ Own(k)' = {y, space[k].root, x}
  BY <1>0, <1>2, <1>4, <1>6, <1>7, <1>8, <1>l DEF Own
<1>10. Own(k) \cap PoolOf(mem) = {} /\ ShellHas \cap PoolOf(mem) = {} /\ Own(k) \cap ShellHas = {}
  BY <1>1 DEF PageInv, PagesApart
<1>11. SpaceOK(k)'
  <2>1. x # y /\ x # space[k].root /\ space[k].root # y /\ x # NONE
    BY <1>0, <1>2, <1>9, <1>10, <1>n
  <2>2. OneToOne(t)
    BY <1>0, <1>5 DEF OneToOne
  <2>3. \A v \in VA : t[v] # NONE => v \in space[k].alloc
    BY <1>3, <1>5
  <2> QED
    BY <2>1, <2>2, <2>3, <1>2, <1>4, <1>6, <1>7, <1>8, <1>l DEF SpaceOK
<1>12. VmTypes' /\ ShellPage'
  BY <1>1, <1>2, <1>6, <1>7 DEF PageInv, VmTypes, ShellPage
<1>13. \A j \in Spawns \ {k} : /\ Live(j)' <=> Live(j)
                               /\ Fresh(j)' <=> Fresh(j)
                               /\ Freeing(j)' <=> Freeing(j)
  BY <1>1 DEF Live, Fresh, Freeing
<1>14. Mine(k)' = Mine(k)
  BY <1>2, <1>9, <1>n DEF Mine
<1>15. Own(k)' \cap PoolOf(mem)' = {} /\ Own(k)' \cap ShellHas' = {} /\ ShellHas' \cap PoolOf(mem)' = {}
  BY <1>2, <1>9, <1>10, <1>n
<1> QED
  BY <1>1, <1>6, <1>7, <1>11, <1>12, <1>13, <1>14, <1>15, PageStep

\* The shell frees the address space.
LEMMA PagesVmRelease ==
  ASSUME RefInv, PageInv, ShellVmRelease
  PROVE  PageInv'
<1> USE LifetimeAssumption
<1>k. PICK k \in Spawns : k = sh.k
  BY DEF ShellVmRelease, At, RefInv, Shape
<1>1. /\ sh.pc = "vm" /\ sh.k = k /\ vmref[k] = 1
      /\ sh'.pc = "read" /\ sh'.k = k /\ sh'.phys = sh.phys /\ sh'.va = sh.va
      /\ vmref' = [vmref EXCEPT ![k] = @ - 1]
      /\ mem' = FreeWalk(mem, space[k], pte[k])
      /\ UNCHANGED <<space, pte>>
  BY <1>k DEF ShellVmRelease, At, K, RefInv, Shape, ShRecord, DyingRefs, Dying
<1>2. vmref'[k] = 0 /\ \A j \in Spawns \ {k} : vmref'[j] = vmref[j]
  BY <1>1 DEF RefInv, Shape
<1>3. Live(k) /\ ~Live(k)' /\ ~Fresh(k) /\ Freeing(k)'
  BY <1>1, <1>2 DEF Live, Fresh, Freeing
<1>4. SpaceOK(k) /\ PoolOK(mem) /\ PoolOf(mem) \subseteq Pages
      /\ space[k].leaf \in Pages \cup {NONE} /\ NONE \notin Pages
  BY <1>1 DEF PageInv, VmTypes, Pages, NONE
<1>5. Own(k) = PagesOf(pte[k], VA) \cup {space[k].root, space[k].leaf}
  BY <1>3, <1>4 DEF Own, SpaceOK
<1>6. Own(k) \cap PoolOf(mem) = {}
  BY <1>1 DEF PageInv, PagesApart
<1>7. /\ PoolOK(mem')
      /\ PoolOf(mem') = PoolOf(mem) \cup PagesOf(pte[k], VA) \cup {space[k].root, space[k].leaf}
  BY <1>1, <1>3, <1>4, <1>5, <1>6, SpaceFreed DEF SpaceOK
<1>8. Own(k)' = {} /\ PoolOf(mem)' = PoolOf(mem) \cup Own(k) /\ ShellHas' = ShellHas
  BY <1>1, <1>3, <1>5, <1>7 DEF Own, ShellHas
<1>9. Own(k) \subseteq Pages
  BY <1>4, <1>3 DEF Own, PagesOf
<1>10. VmTypes' /\ ShellPage' /\ SpaceOK(k)'
  BY <1>1, <1>3, <1>4, <1>7, <1>8, <1>9 DEF PageInv, VmTypes, ShellPage, SpaceOK
<1>11. \A j \in Spawns \ {k} : /\ Live(j)' <=> Live(j)
                               /\ Fresh(j)' <=> Fresh(j)
                               /\ Freeing(j)' <=> Freeing(j)
  BY <1>1, <1>2 DEF Live, Fresh, Freeing
<1>12. Mine(k)' = Mine(k)
  BY <1>8 DEF Mine
<1>13. ShellHas \cap PoolOf(mem) = {} /\ Own(k) \cap ShellHas = {}
  BY <1>1 DEF PageInv, PagesApart
<1> QED
  BY <1>1, <1>8, <1>10, <1>11, <1>12, <1>13, PageStep

\* The end of vm_release forgets the pages.
LEMMA PagesTlbi ==
  ASSUME RefInv, PageInv, ShellTlbi
  PROVE  PageInv'
<1> USE LifetimeAssumption
<1>k. PICK k \in Spawns : k = sh.k
  BY DEF ShellTlbi, At, RefInv, Shape
<1>1. /\ sh.pc = "tlbi" /\ sh.k = k
      /\ sh'.pc = "files" /\ sh'.k = k /\ sh'.phys = sh.phys /\ sh'.va = sh.va
      /\ pte' = [pte EXCEPT ![k] = NoEntries]
      /\ space' = [space EXCEPT ![k] = NoSpace]
      /\ UNCHANGED <<mem, vmref>>
  BY <1>k DEF ShellTlbi, At, K, RefInv, Shape, ShRecord
<1>2. vmref[k] = 0
  BY <1>1 DEF RefInv, DyingRefs, Dying
<1>3. ~Live(k) /\ ~Live(k)' /\ ~Freeing(k)'
  BY <1>1, <1>2 DEF Live, Freeing
<1>4. \A j \in Spawns \ {k} : /\ Live(j)' <=> Live(j)
                              /\ Fresh(j)' <=> Fresh(j)
                              /\ Freeing(j)' <=> Freeing(j)
  BY <1>1 DEF Live, Fresh, Freeing
<1>5. /\ space' \in [Spawns -> [root : Pages \cup {NONE}, leaf : Pages \cup {NONE}, alloc : SUBSET VA]]
      /\ pte' \in [Spawns -> [VA -> Pages \cup {NONE, ONFAULT}]]
      /\ space'[k] = NoSpace /\ pte'[k] = NoEntries
      /\ \A j \in Spawns \ {k} : space'[j] = space[j] /\ pte'[j] = pte[j]
  <2>1. /\ NoSpace \in [root : Pages \cup {NONE}, leaf : Pages \cup {NONE}, alloc : SUBSET VA]
        /\ NoEntries \in [VA -> Pages \cup {NONE, ONFAULT}]
    BY DEF NoSpace, NoEntries
  <2> QED
    BY <2>1, <1>1 DEF PageInv, VmTypes
<1>6. Own(k) = {} /\ Own(k)' = {} /\ ShellHas' = ShellHas
  BY <1>1, <1>3 DEF Own, ShellHas
<1>7. VmTypes' /\ ShellPage' /\ SpaceOK(k)'
  BY <1>1, <1>3, <1>5 DEF PageInv, VmTypes, ShellPage, SpaceOK
<1>8. ShellHas \cap PoolOf(mem) = {}
  BY DEF PageInv, PagesApart
<1>9. Mine(k)' = Mine(k)
  BY <1>1, <1>6 DEF Mine
<1> QED
  BY <1>1, <1>4, <1>5, <1>6, <1>7, <1>8, <1>9, PageStep

\* A task that is linked has an address space with all its tables.
LEMMA TaskSpace ==
  ASSUME RefInv, PageInv, NEW k \in Spawns, TaskLives(k), tstate[k] # "new"
  PROVE  /\ Live(k) /\ ~Fresh(k) /\ ~Freeing(k) /\ vmref[k] = 2
         /\ proc[k] = Ref(ShellHolds(k)) + 1
         /\ space[k].root \in Pages /\ space[k].leaf \in Pages /\ space[k].root # space[k].leaf
         /\ space[k].root \notin PagesOf(pte[k], VA) /\ space[k].leaf \notin PagesOf(pte[k], VA)
         /\ OneToOne(pte[k])
         /\ \A v \in VA : pte[k][v] # NONE => v \in space[k].alloc
         /\ Own(k) = PagesOf(pte[k], VA) \cup {space[k].root, space[k].leaf}
         /\ Own(k) \cap PoolOf(mem) = {} /\ Own(k) \cap ShellHas = {} /\ ShellHas \cap PoolOf(mem) = {}
<1>1. ~Dying(k) /\ ~Fresh(k)
  BY DEF RefInv, DyingRefs, Places, TaskLives, Fresh
<1>2. vmref[k] = 2 /\ proc[k] = Ref(ShellHolds(k)) + 1
  BY <1>1 DEF RefInv, RefsExact, RefsOf, Ref
<1>3. Live(k) /\ ~Freeing(k)
  BY <1>1, <1>2 DEF Live, Freeing, Dying
<1>4. space[k].root \in Pages /\ space[k].leaf \in Pages \cup {NONE} /\ space[k].leaf # NONE
  BY <1>1, <1>3 DEF PageInv, SpaceOK, VmTypes
<1> QED
  BY <1>1, <1>2, <1>3, <1>4 DEF PageInv, SpaceOK, PagesApart, Own

\* A step of a task that has changed entries and the pool.
LEMMA EntriesStep ==
  ASSUME RefInv, PageInv, NEW k \in Spawns, TaskLives(k), tstate[k] # "new",
         NEW t \in [VA -> Pages \cup {NONE, ONFAULT}], NEW a \in SUBSET VA,
         pte' = [pte EXCEPT ![k] = t],
         space' = [space EXCEPT ![k].alloc = a],
         UNCHANGED sh,
         vmref'[k] > 0, \A j \in Spawns \ {k} : vmref'[j] = vmref[j],
         OneToOne(t), \A v \in VA : t[v] # NONE => v \in a,
         PoolOK(mem'), PoolOf(mem') \cap PagesOf(t, VA) = {},
         PoolOf(mem') \cup PagesOf(t, VA) = PoolOf(mem) \cup PagesOf(pte[k], VA)
  PROVE  PageInv'
<1>1. /\ Live(k) /\ ~Fresh(k) /\ ~Freeing(k)
      /\ space[k].root \in Pages /\ space[k].leaf \in Pages /\ space[k].root # space[k].leaf
      /\ space[k].root \notin PagesOf(pte[k], VA) /\ space[k].leaf \notin PagesOf(pte[k], VA)
      /\ Own(k) = PagesOf(pte[k], VA) \cup {space[k].root, space[k].leaf}
      /\ Own(k) \cap PoolOf(mem) = {} /\ Own(k) \cap ShellHas = {} /\ ShellHas \cap PoolOf(mem) = {}
  BY TaskSpace
<1>0. NONE \notin Pages
  BY DEF Pages, NONE
<1>2. /\ space' \in [Spawns -> [root : Pages \cup {NONE}, leaf : Pages \cup {NONE}, alloc : SUBSET VA]]
      /\ \A j \in Spawns \ {k} : space'[j] = space[j]
      /\ space'[k].root = space[k].root /\ space'[k].leaf = space[k].leaf /\ space'[k].alloc = a
  BY DEF PageInv, VmTypes
<1>3. /\ pte' \in [Spawns -> [VA -> Pages \cup {NONE, ONFAULT}]]
      /\ \A j \in Spawns \ {k} : pte'[j] = pte[j]
      /\ pte'[k] = t
  BY DEF PageInv, VmTypes
<1>4. /\ \A j \in Spawns : /\ Fresh(j)' <=> Fresh(j)
                           /\ Freeing(j)' <=> Freeing(j)
      /\ \A j \in Spawns \ {k} : Live(j)' <=> Live(j)
      /\ Live(k)'
  BY DEF Live, Fresh, Freeing
<1>5. Own(k)' = PagesOf(t, VA) \cup {space[k].root, space[k].leaf} /\ ShellHas' = ShellHas
  BY <1>1, <1>2, <1>3, <1>4 DEF Own, ShellHas
<1>6. space[k].root \notin PagesOf(t, VA) /\ space[k].leaf \notin PagesOf(t, VA)
  BY <1>1
<1>7. SpaceOK(k)'
  BY <1>0, <1>1, <1>2, <1>3, <1>4, <1>6 DEF SpaceOK
<1>8. PagesOf(t, VA) \subseteq Pages /\ PagesOf(pte[k], VA) \subseteq Pages
  BY DEF PagesOf
<1>9. VmTypes'
  BY <1>2, <1>3, <1>8 DEF PageInv, VmTypes
<1>10. ShellPage'
  <2>1. sh.pc = "map" => sh.k # k
    BY <1>1 DEF Fresh
  <2>2. sh.pc = "map" => sh.k \in Spawns
    BY DEF RefInv, Shape
  <2> QED
    BY <2>1, <2>2, <1>2 DEF PageInv, ShellPage
<1>11. Mine(k)' = Mine(k)
  BY <1>1, <1>5 DEF Mine
<1>12. Own(k)' \cap PoolOf(mem)' = {} /\ Own(k)' \cap ShellHas' = {} /\ ShellHas' \cap PoolOf(mem)' = {}
  BY <1>1, <1>5, <1>6
<1> QED
  BY <1>2, <1>3, <1>4, <1>7, <1>9, <1>10, <1>11, <1>12, PageStep

\* task_entry reserves addresses that had no entry.
LEMMA PagesTaskEntry ==
  ASSUME RefInv, PageInv, NEW k \in Spawns, TaskEntry(k)
  PROVE  PageInv'
<1> USE LifetimeAssumption
<1>1. PICK b \in VA :
        /\ FirstFit(space[k], StackPages, b)
        /\ space' = [space EXCEPT ![k].alloc = @ \cup PageRange(b, StackPages)]
        /\ pte' = [pte EXCEPT ![k] = MapPages(MapPages(@, PageRange(b, StackPages), ONFAULT),
                                             {b, b + StackPages - 1}, NONE)]
        /\ tstate[k] = "linked"
        /\ UNCHANGED <<sh, vmref, mem>>
  BY DEF TaskEntry, Running
<1>2. PICK vs, ends, t, a :
        /\ vs = PageRange(b, StackPages) /\ ends = {b, b + StackPages - 1}
        /\ t = MapPages(MapPages(pte[k], vs, ONFAULT), ends, NONE)
        /\ a = space[k].alloc \cup vs
  OBVIOUS
<1>3. vs \subseteq VA /\ vs \cap space[k].alloc = {} /\ ends \subseteq vs
  BY <1>1, <1>2 DEF FirstFit, Fits, PageRange, VA
<1>4. TaskLives(k) /\ tstate[k] # "new"
  BY <1>1 DEF TaskLives
<1>5. /\ OneToOne(pte[k]) /\ \A v \in VA : pte[k][v] # NONE => v \in space[k].alloc
      /\ Own(k) \cap PoolOf(mem) = {} /\ vmref[k] = 2
      /\ PagesOf(pte[k], VA) \subseteq Own(k)
  BY <1>4, TaskSpace
<1>6. pte[k] \in [VA -> Pages \cup {NONE, ONFAULT}] /\ PoolOK(mem) /\ space[k].alloc \in SUBSET VA
  BY DEF PageInv, VmTypes
<1>0. NONE \notin Pages /\ ONFAULT \notin Pages
  BY DEF Pages, NONE, ONFAULT
<1>7. /\ t \in [VA -> Pages \cup {NONE, ONFAULT}] /\ a \in SUBSET VA
      /\ \A v \in VA \ vs : t[v] = pte[k][v]
      /\ \A v \in vs : t[v] \notin Pages /\ pte[k][v] \notin Pages
  BY <1>0, <1>2, <1>3, <1>5, <1>6 DEF MapPages
<1>8. OneToOne(t) /\ PagesOf(t, VA) = PagesOf(pte[k], VA)
  BY <1>3, <1>5, <1>7 DEF OneToOne, PagesOf
<1>9. \A v \in VA : t[v] # NONE => v \in a
  BY <1>2, <1>5, <1>7
<1>10. pte' = [pte EXCEPT ![k] = t] /\ space' = [space EXCEPT ![k].alloc = a]
  BY <1>1, <1>2
<1>11. vmref'[k] > 0 /\ \A j \in Spawns \ {k} : vmref'[j] = vmref[j]
  BY <1>1, <1>5
<1>12. /\ PoolOK(mem') /\ PoolOf(mem') \cap PagesOf(t, VA) = {}
       /\ PoolOf(mem') \cup PagesOf(t, VA) = PoolOf(mem) \cup PagesOf(pte[k], VA)
  BY <1>1, <1>5, <1>6, <1>8
<1> QED
  BY <1>1, <1>4, <1>7, <1>8, <1>9, <1>10, <1>11, <1>12, EntriesStep

\* vm_fault maps a free page.
LEMMA PagesVmFault ==
  ASSUME RefInv, PageInv, NEW k \in Spawns, NEW v \in VA, VmFault(k, v), mem.pages # <<>>
  PROVE  PageInv'
<1> USE LifetimeAssumption
<1>x. PICK x, t, a : x = Head(mem.pages) /\ t = MapPages(pte[k], {v}, x) /\ a = space[k].alloc
  OBVIOUS
<1>1. /\ tstate[k] = "user" /\ v \in a /\ pte[k][v] = ONFAULT
      /\ pte' = [pte EXCEPT ![k] = t]
      /\ mem' = [mem EXCEPT !.pages = Tail(@)]
      /\ UNCHANGED <<sh, vmref, space>>
  BY <1>x DEF VmFault, Running
<1>2. PoolOK(mem') /\ x \in PoolOf(mem) /\ PoolOf(mem') = PoolOf(mem) \ {x} /\ x \in Pages
  BY <1>1, <1>x, PageTaken DEF PageInv, VmTypes
<1>4. TaskLives(k) /\ tstate[k] # "new"
  BY <1>1 DEF TaskLives
<1>5. /\ OneToOne(pte[k]) /\ \A w \in VA : pte[k][w] # NONE => w \in a
      /\ Own(k) \cap PoolOf(mem) = {} /\ vmref[k] = 2
      /\ PagesOf(pte[k], VA) \subseteq Own(k)
  BY <1>4, <1>x, TaskSpace
<1>6. pte[k] \in [VA -> Pages \cup {NONE, ONFAULT}] /\ a \in SUBSET VA
  BY <1>x DEF PageInv, VmTypes
<1>0. NONE \notin Pages /\ ONFAULT \notin Pages
  BY DEF Pages, NONE, ONFAULT
<1>7. t = [w \in VA |-> IF w = v THEN x ELSE pte[k][w]]
  BY <1>x, <1>6 DEF MapPages
<1>8. x \notin PagesOf(pte[k], VA)
  BY <1>2, <1>5
<1>9. \A w \in VA : pte[k][w] # x
  BY <1>2, <1>8 DEF PagesOf
<1>10. t \in [VA -> Pages \cup {NONE, ONFAULT}] /\ OneToOne(t)
  BY <1>2, <1>5, <1>6, <1>7, <1>9 DEF OneToOne
<1>11. PagesOf(t, VA) = PagesOf(pte[k], VA) \cup {x}
  BY <1>0, <1>1, <1>2, <1>7 DEF PagesOf
<1>12. \A w \in VA : t[w] # NONE => w \in a
  BY <1>1, <1>5, <1>7
<1>13. space' = [space EXCEPT ![k].alloc = a]
  BY <1>1, <1>x DEF PageInv, VmTypes
<1>14. /\ PoolOf(mem') \cap PagesOf(t, VA) = {}
       /\ PoolOf(mem') \cup PagesOf(t, VA) = PoolOf(mem) \cup PagesOf(pte[k], VA)
  BY <1>2, <1>5, <1>11
<1>15. vmref'[k] > 0 /\ \A j \in Spawns \ {k} : vmref'[j] = vmref[j]
  BY <1>1, <1>5
<1> QED
  BY <1>1, <1>2, <1>4, <1>6, <1>10, <1>12, <1>13, <1>14, <1>15, EntriesStep

\* task_release gives back the stack, and the rest with the last reference.
LEMMA PagesTaskRelease ==
  ASSUME RefInv, PageInv, NEW k \in Spawns, TaskRelease(k)
  PROVE  PageInv'
<1> USE LifetimeAssumption
<1>1. PICK gone, t, ps, m0, m :
        /\ gone = Deallocated(space[k], task[k].user_stack, StackPages)
        /\ t = MapPages(pte[k], gone, NONE)
        /\ ps = MappedPages(pte[k], gone)
        /\ m0 = StacksFree(mem, task[k])
        /\ m = FreePages(m0, ps)
  OBVIOUS
<1>2. /\ tstate[k] = "exited" /\ UNCHANGED sh
      /\ vmref' = [vmref EXCEPT ![k] = VmRefsLeft(k)]
  BY DEF TaskRelease, Running
<1>3. TaskLives(k) /\ tstate[k] # "new"
  BY <1>2 DEF TaskLives
<1>4. /\ Live(k) /\ ~Fresh(k) /\ ~Freeing(k) /\ vmref[k] = 2
      /\ proc[k] = Ref(ShellHolds(k)) + 1
      /\ space[k].root \in Pages /\ space[k].leaf \in Pages /\ space[k].root # space[k].leaf
      /\ space[k].root \notin PagesOf(pte[k], VA) /\ space[k].leaf \notin PagesOf(pte[k], VA)
      /\ OneToOne(pte[k])
      /\ \A v \in VA : pte[k][v] # NONE => v \in space[k].alloc
      /\ Own(k) = PagesOf(pte[k], VA) \cup {space[k].root, space[k].leaf}
      /\ Own(k) \cap PoolOf(mem) = {} /\ Own(k) \cap ShellHas = {} /\ ShellHas \cap PoolOf(mem) = {}
  BY <1>3, TaskSpace
<1>5. VmRefsLeft(k) \in {0, 1}
  BY <1>4 DEF VmRefsLeft, ProcRefsLeft, Ref
<1>6. gone \subseteq space[k].alloc /\ gone \in SUBSET VA
  BY <1>1 DEF Deallocated, PageInv, VmTypes
<1>0. NONE \notin Pages /\ pte[k] \in [VA -> Pages \cup {NONE, ONFAULT}] /\ PoolOK(mem)
  BY DEF Pages, NONE, PageInv, VmTypes
<1>7. PoolOK(m0) /\ PoolOf(m0) = PoolOf(mem)
  BY <1>0, <1>1, StacksAside
<1>8. List(ps) /\ ToSet(ps) = PagesOf(pte[k], gone)
  BY <1>1, <1>4, <1>6, Mapped DEF OneToOne, PagesOf
<1>9. PagesOf(pte[k], gone) \subseteq PagesOf(pte[k], VA)
  BY <1>6 DEF PagesOf
<1>10. PoolOK(m) /\ PoolOf(m) = PoolOf(mem) \cup PagesOf(pte[k], gone)
  <2>1. ToSet(ps) \cap PoolOf(m0) = {}
    BY <1>4, <1>7, <1>8, <1>9
  <2> QED
    BY <2>1, <1>1, <1>7, <1>8, PagesFreed
<1>11. t = [v \in VA |-> IF v \in gone THEN NONE ELSE pte[k][v]]
  BY <1>1 DEF MapPages
<1>12. t \in [VA -> Pages \cup {NONE, ONFAULT}] /\ OneToOne(t)
  BY <1>0, <1>4, <1>11 DEF OneToOne
<1>13. /\ PagesOf(t, VA) \cup PagesOf(pte[k], gone) = PagesOf(pte[k], VA)
       /\ PagesOf(t, VA) \cap PagesOf(pte[k], gone) = {}
  BY <1>0, <1>4, <1>6, <1>11 DEF PagesOf, OneToOne
<1>14. PoolOf(m) \cap PagesOf(t, VA) = {}
  BY <1>4, <1>10, <1>13
<1>15. vmref'[k] = VmRefsLeft(k) /\ \A j \in Spawns \ {k} : vmref'[j] = vmref[j]
  BY <1>2 DEF RefInv, Shape
<1>16. CASE VmRefsLeft(k) # 0
  <2>1. pte' = [pte EXCEPT ![k] = t] /\ space' = [space EXCEPT ![k].alloc = @ \ gone] /\ mem' = m
    BY <1>1, <1>16 DEF TaskRelease
  <2>2. PICK a \in SUBSET VA : a = space[k].alloc \ gone
    BY DEF PageInv, VmTypes
  <2>3. \A v \in VA : t[v] # NONE => v \in a
    BY <2>2, <1>4, <1>11
  <2>4. space' = [space EXCEPT ![k].alloc = a] /\ vmref'[k] > 0
    BY <2>1, <2>2, <1>5, <1>15, <1>16
  <2>5. PoolOf(m) \cup PagesOf(t, VA) = PoolOf(mem) \cup PagesOf(pte[k], VA)
    BY <1>10, <1>13
  <2> QED
    BY <2>1, <2>3, <2>4, <2>5, <1>2, <1>3, <1>10, <1>12, <1>14, <1>15, EntriesStep
<1>17. CASE VmRefsLeft(k) = 0
  <2>1. /\ pte' = [pte EXCEPT ![k] = NoEntries] /\ space' = [space EXCEPT ![k] = NoSpace]
        /\ mem' = FreeWalk(m, space[k], t)
    BY <1>1, <1>17 DEF TaskRelease
  <2>a. /\ space[k].root \notin PagesOf(t, VA) /\ space[k].leaf \notin PagesOf(t, VA)
        /\ space[k].root \notin PoolOf(m) /\ space[k].leaf \notin PoolOf(m)
    BY <1>4, <1>10, <1>13
  <2>2. PoolOK(mem') /\ PoolOf(mem') = PoolOf(m) \cup PagesOf(t, VA) \cup {space[k].root, space[k].leaf}
    BY <2>a, <2>1, <1>4, <1>10, <1>12, <1>14, SpaceFreed
  <2>3. PoolOf(mem') = PoolOf(mem) \cup Own(k)
    BY <2>2, <1>4, <1>10, <1>13
  <2>4. /\ space' \in [Spawns -> [root : Pages \cup {NONE}, leaf : Pages \cup {NONE}, alloc : SUBSET VA]]
        /\ pte' \in [Spawns -> [VA -> Pages \cup {NONE, ONFAULT}]]
        /\ space'[k] = NoSpace /\ pte'[k] = NoEntries
        /\ \A j \in Spawns \ {k} : space'[j] = space[j] /\ pte'[j] = pte[j]
    <3>1. /\ NoSpace \in [root : Pages \cup {NONE}, leaf : Pages \cup {NONE}, alloc : SUBSET VA]
          /\ NoEntries \in [VA -> Pages \cup {NONE, ONFAULT}]
      BY DEF NoSpace, NoEntries
    <3> QED
      BY <3>1, <2>1 DEF PageInv, VmTypes
  <2>5. /\ \A j \in Spawns : /\ Fresh(j)' <=> Fresh(j)
                             /\ Freeing(j)' <=> Freeing(j)
        /\ \A j \in Spawns \ {k} : Live(j)' <=> Live(j)
        /\ ~Live(k)'
    BY <1>2, <1>4, <1>15, <1>17 DEF Live, Fresh, Freeing
  <2>6. SpaceOK(k)' /\ Own(k)' = {} /\ ShellHas' = ShellHas
    BY <2>4, <2>5, <1>2 DEF SpaceOK, Own, ShellHas
  <2>7. PagesOf(pte[k], VA) \subseteq Pages
    BY DEF PagesOf
  <2>8. VmTypes'
    BY <2>2, <2>3, <2>4, <2>7, <1>2, <1>4 DEF PageInv, VmTypes
  <2>9. ShellPage'
    <3>1. sh.pc = "map" => sh.k # k
      BY <1>4 DEF Fresh
    <3>2. sh.pc = "map" => sh.k \in Spawns
      BY DEF RefInv, Shape
    <3> QED
      BY <3>1, <3>2, <2>4, <1>2 DEF PageInv, ShellPage
  <2>10. Mine(k)' = Mine(k)
    BY <2>3, <2>6 DEF Mine
  <2>11. ShellHas' \cap PoolOf(mem)' = {}
    BY <2>3, <2>6, <1>4
  <2> QED
    BY <2>4, <2>5, <2>6, <2>8, <2>9, <2>10, <2>11, PageStep
<1> QED
  BY <1>16, <1>17

\* Every step keeps the pages in one hand each.
LEMMA PageInvNext == RefInv /\ PageInv /\ [Next]_vars => PageInv'
<1> SUFFICES ASSUME RefInv, PageInv, [Next]_vars PROVE PageInv'
  OBVIOUS
<1> USE LifetimeAssumption
<1>v. PoolOK(mem) /\ (\A j \in Spawns : vmref[j] \in Int) /\ ShRecord /\ (sh.pc # "idle" => sh.k \in Spawns)
  BY DEF PageInv, VmTypes, RefInv, Shape
<1>s. ASSUME UNCHANGED <<pte, space, sh, vmref, mem>> PROVE PageInv'
  BY <1>s, <1>v, SamePages DEF Live, Fresh, Freeing
<1>q. ASSUME UNCHANGED <<pte, space>>, mem' = mem \/ mem' = KernelStackAllocate(mem),
             sh'.k = sh.k, sh'.phys = sh.phys, sh'.va = sh.va,
             sh.pc \notin {"asid", "code", "map", "read", "write", "tlbi"},
             sh'.pc \notin {"asid", "code", "map", "read", "write", "tlbi"},
             \A j \in Spawns : vmref'[j] > 0 <=> vmref[j] > 0
      PROVE  PageInv'
  <2>1. PoolOK(mem)' /\ PoolOf(mem)' = PoolOf(mem)
    BY <1>q, <1>v, StacksAside
  <2> QED
    BY <1>q, <2>1, SamePages DEF Live, Fresh, Freeing
<1>0. CASE UNCHANGED vars
  BY <1>0, <1>s DEF vars
<1>p. ASSUME NEW why, Panic(why) PROVE PageInv'
  BY <1>p, <1>s DEF Panic, vm
<1>1. CASE ProcCreate
  BY <1>1, <1>p, PagesProcCreate DEF ProcCreate
<1>2. CASE AsidAlloc
  <2>1. CASE Asids \subseteq asids
    BY <1>2, <2>1, <1>p DEF AsidAlloc
  <2>2. CASE ~(Asids \subseteq asids)
    <3>1. /\ sh.pc = "asid" /\ sh'.pc = "code" /\ sh'.k = sh.k /\ sh'.phys = sh.phys /\ sh'.va = sh.va
          /\ vmref' = [vmref EXCEPT ![sh.k] = 1]
          /\ UNCHANGED <<pte, space, mem>>
      BY <1>2, <2>2, <1>v DEF AsidAlloc, At, K, ShRecord
    <3>2. \A j \in Spawns : vmref'[j] = IF j = sh.k THEN 1 ELSE vmref[j]
      BY <3>1 DEF RefInv, Shape
    <3> QED
      BY <3>1, <3>2, <1>v, SamePages DEF Live, Fresh, Freeing
  <2> QED
    BY <2>1, <2>2
<1>3. CASE CodePage
  BY <1>3, <1>p, PagesCodePage DEF CodePage
<1>4. CASE MapCode
  BY <1>4, <1>p, PagesMapCode DEF MapCode
<1>5. CASE CreateTask
  <2>1. /\ sh.pc = "task" /\ sh'.pc = "stack" /\ sh'.k = sh.k /\ sh'.phys = sh.phys /\ sh'.va = sh.va
        /\ vmref' = [vmref EXCEPT ![sh.k] = @ + 1] /\ sh.k \in Spawns
        /\ UNCHANGED <<pte, space>> /\ mem' = KernelStackAllocate(mem)
    BY <1>5, <1>v DEF CreateTask, At, K, ShRecord
  <2>2. vmref[sh.k] > 0
    BY <2>1, <1>v DEF RefInv, RefsExact, RefsOf, ShellHolds, Dying, Ref, ProcLives
  <2>3. \A j \in Spawns : vmref'[j] > 0 <=> vmref[j] > 0
    BY <2>1, <2>2, <1>v DEF RefInv, Shape
  <2> QED
    BY <2>1, <2>3, <1>q
<1>6. CASE ListTask
  <2>1. /\ sh.pc = "stack" /\ sh'.pc = "link" /\ sh'.k = sh.k /\ sh'.phys = sh.phys /\ sh'.va = sh.va
        /\ UNCHANGED <<pte, space, vmref>> /\ mem' = KernelStackAllocate(mem)
    BY <1>6, <1>v DEF ListTask, At, K, ShRecord, vm
  <2> QED
    BY <2>1, <1>q
<1>7. CASE LinkTask
  <2>1. /\ sh.pc = "link" /\ sh'.pc = "release" /\ sh'.k = sh.k /\ sh'.phys = sh.phys /\ sh'.va = sh.va
        /\ UNCHANGED <<pte, space, vmref, mem>>
    BY <1>7, <1>v DEF LinkTask, At, K, ShRecord, vm
  <2> QED
    BY <2>1, <1>q
<1>8. CASE ShellProcRelease
  <2>1. /\ sh.pc = "release" /\ sh'.pc \in {"vm", "idle"} /\ sh'.k = sh.k /\ sh'.phys = sh.phys /\ sh'.va = sh.va
        /\ UNCHANGED <<pte, space, vmref, mem>>
    BY <1>8, <1>v DEF ShellProcRelease, At, K, ShRecord, vm
  <2> QED
    BY <2>1, <1>q
<1>9. CASE ShellVmRelease
  BY <1>9, PagesVmRelease
<1>10. CASE ShellAsidRead
  <2>1. CASE asid[K] \notin asids
    BY <1>10, <2>1, <1>p DEF ShellAsidRead
  <2>2. CASE asid[K] \in asids
    <3>1. /\ sh.pc = "read" /\ sh'.pc = "write" /\ sh'.k = sh.k /\ sh'.phys = sh.phys /\ sh'.va = sh.va
          /\ UNCHANGED <<pte, space, vmref, mem>>
      BY <1>10, <2>2, <1>v DEF ShellAsidRead, At, K, ShRecord, vm
    <3> QED
      BY <3>1, <1>v, SamePages DEF Live, Fresh, Freeing
  <2> QED
    BY <2>1, <2>2
<1>11. CASE ShellAsidWrite
  <2>1. /\ sh.pc = "write" /\ sh'.pc = "tlbi" /\ sh'.k = sh.k /\ sh'.phys = sh.phys /\ sh'.va = sh.va
        /\ UNCHANGED <<pte, space, vmref, mem>>
    BY <1>11, <1>v DEF ShellAsidWrite, At, K, ShRecord, vm
  <2> QED
    BY <2>1, <1>v, SamePages DEF Live, Fresh, Freeing
<1>12. CASE ShellTlbi
  BY <1>12, PagesTlbi
<1>13. CASE ShellFilesRelease
  <2>1. /\ sh.pc = "files" /\ sh'.pc = "idle" /\ sh'.k = sh.k /\ sh'.phys = sh.phys /\ sh'.va = sh.va
        /\ UNCHANGED <<pte, space, vmref, mem>>
    BY <1>13, <1>v DEF ShellFilesRelease, At, K, ShRecord, vm
  <2> QED
    BY <2>1, <1>q
<1>14. ASSUME NEW k \in Spawns, TaskEntry(k) PROVE PageInv'
  BY <1>14, PagesTaskEntry
<1>15. ASSUME NEW k \in Spawns, TaskExit(k) PROVE PageInv'
  BY <1>15, <1>s DEF TaskExit, vm
<1>16. ASSUME NEW k \in Spawns, TaskRelease(k) PROVE PageInv'
  BY <1>16, PagesTaskRelease
<1>17. ASSUME NEW k \in Spawns, NEW v \in VA, Access(k, v) PROVE PageInv'
  BY <1>17, <1>s DEF Access, vm
<1>18. ASSUME NEW k \in Spawns, NEW v \in VA, VmFault(k, v) PROVE PageInv'
  BY <1>18, <1>p, PagesVmFault DEF VmFault
<1> QED
  BY <1>0, <1>1, <1>2, <1>3, <1>4, <1>5, <1>6, <1>7, <1>8, <1>9, <1>10, <1>11, <1>12, <1>13,
     <1>14, <1>15, <1>16, <1>17, <1>18 DEF Next, Spawning

\* The rest of the type invariant, and what keeps asid_free from its panic: an
\* address space that is being freed still has its ASID.
RestTypes ==
  /\ sh.byte \subseteq Asids /\ asids \subseteq Asids
  /\ asid \in [Spawns -> Asids \cup {0}]
  /\ tlb \subseteq Asids \X VA \X Pages
  /\ panic \in {"none", "out of pages", "out of ASIDs"}
  /\ \A k \in Spawns : task[k].user_stack \in VA \cup {NONE}
  /\ \A k \in Spawns : Freeing(k) => asid[k] # 0

LEMMA RestTypesInit == Init => RestTypes
  BY DEF Init, RestTypes, NoStacks, Freeing

\* Every step keeps them.
LEMMA RestTypesNext ==
  RefInv /\ TlbInv /\ StackInv /\ RestTypes /\ [Next]_vars => RestTypes'
<1> SUFFICES ASSUME RefInv, TlbInv, StackInv, RestTypes, [Next]_vars PROVE RestTypes'
  OBVIOUS
<1> USE LifetimeAssumption
<1>v. ShRecord /\ (sh.pc # "idle" => sh.k \in Spawns) /\ 0 \notin Asids
  BY DEF RefInv, Shape, Asids
<1>w. \A k \in Spawns : vmref[k] > 0 => asid[k] # 0
  BY DEF TlbInv, AsidsMarked
<1>t. task \in [Spawns -> [user_stack : Int, kernel_stack : 0..mem.made, exception_stack : 0..mem.made]]
  BY DEF StackInv, StackTypes
<1>q. ASSUME UNCHANGED <<asids, asid, tlb, panic>>, sh'.byte \subseteq Asids,
             \A k \in Spawns : task'[k].user_stack = task[k].user_stack,
             \A k \in Spawns : Freeing(k)' => asid[k] # 0
      PROVE  RestTypes'
  BY <1>q DEF RestTypes
<1>r. ASSUME UNCHANGED <<asids, asid, tlb, panic, task>>, sh'.byte = sh.byte,
             \A k \in Spawns : Freeing(k)' => Freeing(k)
      PROVE  RestTypes'
  BY <1>r DEF RestTypes
<1>0. CASE UNCHANGED vars
  BY <1>0, <1>r DEF vars, Freeing
<1>p. ASSUME NEW why \in {"out of pages", "out of ASIDs"}, Panic(why) PROVE RestTypes'
  BY <1>p DEF Panic, vm, RestTypes, Freeing
<1>1. CASE ProcCreate
  <2>1. CASE NoTtbPage(mem)
    BY <1>1, <2>1, <1>p DEF ProcCreate
  <2>2. CASE ~NoTtbPage(mem)
    <3>1. sh'.pc = "asid" /\ sh'.byte = sh.byte /\ UNCHANGED <<asids, asid, tlb, panic, task>>
      BY <1>1, <2>2, <1>v DEF ProcCreate, ShRecord
    <3> QED
      BY <3>1, <1>r DEF Freeing
  <2> QED
    BY <2>1, <2>2
<1>2. CASE AsidAlloc
  <2>1. CASE Asids \subseteq asids
    BY <1>2, <2>1, <1>p DEF AsidAlloc
  <2>2. CASE ~(Asids \subseteq asids)
    <3>1. PICK a \in Asids :
            /\ sh'.pc = "code" /\ sh'.byte = sh.byte
            /\ asids' = asids \cup {a} /\ asid' = [asid EXCEPT ![sh.k] = a]
            /\ UNCHANGED <<tlb, panic, task>>
      BY <1>2, <2>2, <1>v DEF AsidAlloc, K, ShRecord
    <3>2. \A k \in Spawns : ~Freeing(k)'
      BY <3>1 DEF Freeing
    <3>3. asid' \in [Spawns -> Asids \cup {0}]
      BY <3>1 DEF RestTypes
    <3> QED
      BY <3>1, <3>2, <3>3 DEF RestTypes
  <2> QED
    BY <2>1, <2>2
<1>3. CASE CodePage
  <2>1. CASE mem.pages = <<>>
    BY <1>3, <2>1, <1>p DEF CodePage
  <2>2. CASE mem.pages # <<>>
    <3>1. sh'.pc = "map" /\ sh'.byte = sh.byte /\ UNCHANGED <<asids, asid, tlb, panic, task>>
      BY <1>3, <2>2, <1>v DEF CodePage, ShRecord
    <3> QED
      BY <3>1, <1>r DEF Freeing
  <2> QED
    BY <2>1, <2>2
<1>4. CASE MapCode
  <2>1. CASE NoTtbPage(mem)
    BY <1>4, <2>1, <1>p DEF MapCode
  <2>2. CASE ~NoTtbPage(mem)
    <3>1. /\ sh'.pc = "task" /\ sh'.byte = sh.byte /\ UNCHANGED <<asids, asid, panic, task>>
          /\ tlb' \subseteq tlb
      BY <1>4, <2>2, <1>v DEF MapCode, ShRecord, VmFlushByAddr
    <3> QED
      BY <3>1 DEF RestTypes, Freeing
  <2> QED
    BY <2>1, <2>2
<1>5. CASE CreateTask
  <2>1. /\ sh'.pc = "stack" /\ sh'.byte = sh.byte /\ UNCHANGED <<asids, asid, tlb, panic>>
        /\ task' = [task EXCEPT ![sh.k].kernel_stack = KernelStack(mem)]
    BY <1>5, <1>v DEF CreateTask, ShRecord, K
  <2>2. \A k \in Spawns : task'[k].user_stack = task[k].user_stack
    BY <2>1, <1>t
  <2> QED
    BY <2>1, <2>2, <1>q DEF Freeing, RestTypes
<1>6. CASE ListTask
  <2>1. /\ sh'.pc = "link" /\ sh'.byte = sh.byte /\ UNCHANGED <<asids, asid, tlb, panic>>
        /\ task' = [task EXCEPT ![sh.k].exception_stack = KernelStack(mem)]
    BY <1>6, <1>v DEF ListTask, ShRecord, K, vm
  <2>2. \A k \in Spawns : task'[k].user_stack = task[k].user_stack
    BY <2>1, <1>t
  <2> QED
    BY <2>1, <2>2, <1>q DEF Freeing, RestTypes
<1>7. CASE LinkTask
  <2>1. sh'.pc = "release" /\ sh'.byte = sh.byte /\ UNCHANGED <<asids, asid, tlb, panic, task>>
    BY <1>7, <1>v DEF LinkTask, ShRecord, vm
  <2> QED
    BY <2>1, <1>r DEF Freeing
<1>8. CASE ShellProcRelease
  <2>1. sh'.pc \in {"vm", "idle"} /\ sh'.byte = sh.byte /\ UNCHANGED <<asids, asid, tlb, panic, task>>
    BY <1>8, <1>v DEF ShellProcRelease, ShRecord, vm
  <2> QED
    BY <2>1, <1>r DEF Freeing
<1>9. CASE ShellVmRelease
  <2>1. /\ sh.pc = "vm" /\ sh'.k = sh.k /\ sh'.byte = sh.byte
        /\ UNCHANGED <<asids, asid, tlb, panic, task>>
    BY <1>9, <1>v DEF ShellVmRelease, At, ShRecord
  <2>2. vmref[sh.k] = 1
    BY <2>1, <1>v DEF RefInv, DyingRefs, Dying
  <2>3. asid[sh.k] # 0
    BY <2>1, <2>2, <1>v, <1>w
  <2> QED
    BY <2>1, <2>3, <1>q DEF Freeing, RestTypes
<1>10. CASE ShellAsidRead
  <2>1. /\ sh.pc = "read" /\ sh.k \in Spawns
    BY <1>10, <1>v DEF ShellAsidRead, At
  <2>2. asid[sh.k] \in asids
    BY <2>1 DEF RestTypes, Freeing, TlbInv, AsidsMarked
  <2>3. /\ sh'.pc = "write" /\ sh'.k = sh.k /\ sh'.byte = asids
        /\ UNCHANGED <<asids, asid, tlb, panic, task>>
    BY <1>10, <2>2, <1>v DEF ShellAsidRead, ShRecord, vm, K
  <2> QED
    BY <2>1, <2>3, <1>q DEF Freeing, RestTypes
<1>11. CASE ShellAsidWrite
  <2>1. /\ sh.pc = "write" /\ sh'.k = sh.k /\ sh'.byte = {}
        /\ asids' = sh.byte \ {asid[sh.k]}
        /\ UNCHANGED <<asid, tlb, panic, task>>
    BY <1>11, <1>v DEF ShellAsidWrite, At, ShRecord, vm, K
  <2> QED
    BY <2>1 DEF Freeing, RestTypes
<1>12. CASE ShellTlbi
  <2>1. /\ sh'.pc = "files" /\ sh'.byte = sh.byte
        /\ asid' = [asid EXCEPT ![sh.k] = 0] /\ tlb' \subseteq tlb
        /\ UNCHANGED <<asids, panic, task>>
    BY <1>12, <1>v DEF ShellTlbi, At, ShRecord, K, VmFlush
  <2>2. asid' \in [Spawns -> Asids \cup {0}]
    BY <2>1 DEF RestTypes
  <2> QED
    BY <2>1, <2>2 DEF Freeing, RestTypes
<1>13. CASE ShellFilesRelease
  <2>1. sh'.pc = "idle" /\ sh'.byte = sh.byte /\ UNCHANGED <<asids, asid, tlb, panic, task>>
    BY <1>13, <1>v DEF ShellFilesRelease, ShRecord, vm
  <2> QED
    BY <2>1, <1>r DEF Freeing
<1>14. ASSUME NEW k \in Spawns, TaskEntry(k) PROVE RestTypes'
  <2>1. PICK b \in VA : /\ task' = [task EXCEPT ![k].user_stack = b] /\ tlb' \subseteq tlb
                        /\ UNCHANGED <<sh, asids, asid, panic>>
    BY <1>14 DEF TaskEntry, VmFlushByAddr
  <2>2. \A j \in Spawns : task'[j].user_stack = IF j = k THEN b ELSE task[j].user_stack
    BY <2>1, <1>t
  <2> QED
    BY <2>1, <2>2 DEF RestTypes, Freeing
<1>15. ASSUME NEW k \in Spawns, TaskExit(k) PROVE RestTypes'
  BY <1>15, <1>r DEF TaskExit, vm, Freeing
<1>16. ASSUME NEW k \in Spawns, TaskRelease(k) PROVE RestTypes'
  <2>1. /\ tstate[k] = "exited" /\ task' = [task EXCEPT ![k] = NoStacks] /\ tlb' \subseteq tlb
        /\ asids' \subseteq asids /\ asid' \in {asid, [asid EXCEPT ![k] = 0]}
        /\ sh' = sh /\ (asid[k] \in asids => panic' = panic)
    BY <1>16 DEF TaskRelease, Running, VmFlush, VmFlushByAddr
  <2>2. \A j \in Spawns : task'[j].user_stack = IF j = k THEN NONE ELSE task[j].user_stack
    BY <2>1, <1>t DEF NoStacks
  <2>3. asid' \in [Spawns -> Asids \cup {0}] /\ \A j \in Spawns \ {k} : asid'[j] = asid[j]
    BY <2>1 DEF RestTypes
  <2>4. ~Freeing(k)
    BY <2>1 DEF RefInv, DyingRefs, Dying, Freeing, TaskLives
  <2>5. vmref[k] > 0
    BY <2>1 DEF RefInv, RefsExact, RefsOf, TaskLives, SpaceLives
  <2>6. panic' = panic
    BY <1>w, <2>1, <2>4, <2>5 DEF TlbInv, AsidsMarked, Freeing
  <2> QED
    BY <2>1, <2>2, <2>3, <2>4, <2>6 DEF RestTypes, Freeing
<1>17. ASSUME NEW k \in Spawns, NEW v \in VA, Access(k, v) PROVE RestTypes'
  <2>1. /\ tstate[k] = "user" /\ pte[k][v] \in Pages /\ tlb' = tlb \cup {<<asid[k], v, pte[k][v]>>}
        /\ UNCHANGED <<sh, asids, asid, panic, task>>
    BY <1>17 DEF Access, Running, vm
  <2>2. vmref[k] > 0
    BY <2>1 DEF RefInv, RefsExact, RefsOf, TaskLives, SpaceLives
  <2>3. asid[k] \in Asids
    BY <2>2, <1>w DEF RestTypes
  <2>a. PICK a \in Asids, p \in Pages : tlb' = tlb \cup {<<a, v, p>>}
    BY <2>1, <2>3, Zenon
  <2>b. <<a, v, p>> \in Asids \X VA \X Pages
    OBVIOUS
  <2>4. tlb' \subseteq Asids \X VA \X Pages
    BY <2>a, <2>b, Zenon DEF RestTypes
  <2>5. (\A j \in Spawns : Freeing(j)' => asid[j] # 0) /\ panic' = panic /\ sh'.byte = sh.byte
    BY <2>1 DEF RestTypes, Freeing
  <2> QED
    BY <2>1, <2>4, <2>5 DEF RestTypes
<1>18. ASSUME NEW k \in Spawns, NEW v \in VA, VmFault(k, v) PROVE RestTypes'
  <2>1. CASE mem.pages = <<>>
    BY <1>18, <2>1, <1>p DEF VmFault
  <2>2. CASE mem.pages # <<>>
    <3>1. tlb' \subseteq tlb /\ UNCHANGED <<sh, asids, asid, panic, task>>
      BY <1>18, <2>2 DEF VmFault, VmFlushByAddr
    <3> QED
      BY <3>1 DEF RestTypes, Freeing
  <2> QED
    BY <2>1, <2>2
<1> QED
  BY <1>0, <1>1, <1>2, <1>3, <1>4, <1>5, <1>6, <1>7, <1>8, <1>9, <1>10, <1>11, <1>12, <1>13,
     <1>14, <1>15, <1>16, <1>17, <1>18 DEF Next, Spawning

\* A set with at most one element.
LEMMA AtMostOne ==
  ASSUME NEW S, \A x, y \in S : x = y
  PROVE  Cardinality(S) = Ref(S # {})
<1>1. CASE S = {}
  BY <1>1, FS_EmptySet DEF Ref
<1>2. CASE S # {}
  <2>1. PICK x : x \in S
    BY <1>2
  <2>2. S = {x}
    BY <2>1
  <2> QED
    BY <1>2, <2>2, FS_Singleton DEF Ref
<1> QED
  BY <1>1, <1>2

\* How often a list has a page.
LEMMA CountInList ==
  ASSUME NEW s, List(s), NEW p
  PROVE  Cardinality({i \in DOMAIN s : s[i] = p}) = Ref(p \in ToSet(s))
<1> DEFINE S == {i \in DOMAIN s : s[i] = p}
<1>1. \A x, y \in S : x = y
  BY DEF List, IsInjective
<1>2. S # {} <=> p \in ToSet(s)
  BY DEF ToSet
<1> HIDE DEF S
<1>3. Cardinality(S) = Ref(S # {})
  BY <1>1, AtMostOne
<1>4. Cardinality(S) = Ref(p \in ToSet(s))
  BY <1>2, <1>3 DEF Ref
<1> QED
  BY <1>4 DEF S

\* The owners that PagesExact counts.
LEMMA OneOwner ==
  ASSUME RefInv, PageInv, NEW p \in Pages
  PROVE  Cardinality({i \in DOMAIN mem.pages : mem.pages[i] = p})
         + Cardinality({i \in DOMAIN mem.ttbs : mem.ttbs[i] = p})
         + Cardinality({k \in Spawns : (SpaceLives(k) \/ sh.pc = "asid") /\ space[k].root = p})
         + Cardinality({k \in Spawns : SpaceLives(k) /\ space[k].leaf = p})
         + Cardinality({u \in Spawns \X VA : SpaceLives(u[1]) /\ pte[u[1]][u[2]] = p})
         + Ref(sh.phys = p) = 1
<1> DEFINE R == {k \in Spawns : (SpaceLives(k) \/ sh.pc = "asid") /\ space[k].root = p}
           L == {k \in Spawns : SpaceLives(k) /\ space[k].leaf = p}
           M == {u \in Spawns \X VA : SpaceLives(u[1]) /\ pte[u[1]][u[2]] = p}
<1>0. p # NONE /\ NONE \notin Pages
  BY DEF Pages, NONE
<1>1. List(mem.pages) /\ List(mem.ttbs) /\ ToSet(mem.pages) \cap ToSet(mem.ttbs) = {}
  BY DEF PageInv, VmTypes, PoolOK
<1>2. ASSUME NEW k \in Spawns, ~Live(k) PROVE ~SpaceLives(k) /\ ~(sh.pc = "asid" /\ space[k].root = p)
  BY <1>0, <1>2 DEF PageInv, SpaceOK, Live, SpaceLives, Freeing, NoSpace
<1>3. ASSUME NEW k \in Spawns, Live(k)
      PROVE  /\ space[k].root # space[k].leaf
             /\ space[k].root \notin PagesOf(pte[k], VA) /\ space[k].leaf \notin PagesOf(pte[k], VA)
             /\ OneToOne(pte[k])
             /\ Own(k) = PagesOf(pte[k], VA) \cup ({space[k].root, space[k].leaf} \cap Pages)
             /\ ~SpaceLives(k) => space[k].leaf = NONE /\ sh.pc = "asid" /\ PagesOf(pte[k], VA) = {}
  <2>1. /\ space[k].root # space[k].leaf
        /\ space[k].root \notin PagesOf(pte[k], VA) /\ space[k].leaf \notin PagesOf(pte[k], VA)
        /\ OneToOne(pte[k])
        /\ Own(k) = PagesOf(pte[k], VA) \cup ({space[k].root, space[k].leaf} \cap Pages)
    BY <1>3 DEF PageInv, SpaceOK, Own
  <2>2. ASSUME ~SpaceLives(k)
        PROVE  space[k].leaf = NONE /\ sh.pc = "asid" /\ PagesOf(pte[k], VA) = {}
    <3>1. Fresh(k) /\ sh.pc = "asid"
      BY <1>3, <2>2 DEF Live, Fresh, SpaceLives
    <3>2. space[k].leaf = NONE /\ pte[k] = NoEntries
      BY <3>1, <1>3 DEF PageInv, SpaceOK
    <3> QED
      BY <3>1, <3>2, <1>0 DEF PagesOf, NoEntries
  <2> QED
    BY <2>1, <2>2
<1>4. ASSUME NEW k \in R PROVE Live(k) /\ p \in Own(k)
  BY <1>2, <1>3, <1>4
<1>5. ASSUME NEW k \in L PROVE Live(k) /\ p \in Own(k)
  BY <1>2, <1>3, <1>5
<1>6. ASSUME NEW u \in M PROVE u[1] \in Spawns /\ Live(u[1]) /\ p \in PagesOf(pte[u[1]], VA) /\ p \in Own(u[1])
  BY <1>2, <1>3, <1>6 DEF PagesOf
<1>7. \A j, k \in Spawns : p \in Own(j) /\ p \in Own(k) => j = k
  BY DEF PageInv, PagesApart
<1>8. Cardinality(R) = Ref(R # {})
  <2>1. \A x, y \in R : x = y
    BY <1>4, <1>7
  <2> HIDE DEF R
  <2> QED
    BY <2>1, AtMostOne
<1>9. Cardinality(L) = Ref(L # {})
  <2>1. \A x, y \in L : x = y
    BY <1>5, <1>7
  <2> HIDE DEF L
  <2> QED
    BY <2>1, AtMostOne
<1>10. Cardinality(M) = Ref(M # {})
  <2>1. ASSUME NEW x \in M, NEW y \in M PROVE x = y
    <3>1. x[1] = y[1]
      BY <1>6, <1>7
    <3>2. OneToOne(pte[x[1]])
      BY <1>3, <1>6
    <3>3. x[2] = y[2]
      BY <3>1, <3>2 DEF OneToOne
    <3> QED
      BY <3>1, <3>3
  <2> HIDE DEF M
  <2> QED
    BY <2>1, AtMostOne
<1>11. /\ Cardinality({i \in DOMAIN mem.pages : mem.pages[i] = p}) = Ref(p \in ToSet(mem.pages))
       /\ Cardinality({i \in DOMAIN mem.ttbs : mem.ttbs[i] = p}) = Ref(p \in ToSet(mem.ttbs))
  BY <1>1, CountInList
\* An address space that has the page has it in one place.
<1>12. ASSUME NEW k \in Spawns, p \in Own(k)
       PROVE  \/ R # {} /\ L = {} /\ M = {}
              \/ R = {} /\ L # {} /\ M = {}
              \/ R = {} /\ L = {} /\ M # {}
  <2>0. Live(k)
    BY <1>12 DEF Own
  <2>a. (R # {} => k \in R) /\ (L # {} => k \in L) /\ (M # {} => \E u \in M : u[1] = k)
    BY <1>4, <1>5, <1>6, <1>7, <1>12
  <2>b. ~(k \in R /\ k \in L)
    BY <1>3, <1>4
  <2>c. \A u \in M : u[1] = k => ~(k \in R) /\ ~(k \in L)
    BY <1>3, <1>6
  <2>d. k \in R \/ k \in L \/ M # {}
    <3>1. CASE p = space[k].root
      BY <3>1, <2>0 DEF Live, SpaceLives
    <3>2. CASE p = space[k].leaf
      BY <3>2, <2>0, <1>0, <1>3
    <3>3. CASE p \in PagesOf(pte[k], VA)
      <4>1. PICK v \in VA : pte[k][v] = p
        BY <3>3 DEF PagesOf
      <4>2. SpaceLives(k)
        BY <3>3, <2>0, <1>3
      <4>3. <<k, v>> \in M
        BY <4>1, <4>2
      <4> QED
        BY <4>3
    <3> QED
      BY <3>1, <3>2, <3>3, <1>12, <2>0, <1>3
  <2> HIDE DEF R, L, M
  <2> QED
    BY <2>a, <2>b, <2>c, <2>d
<1>13. (\A k \in Spawns : p \notin Own(k)) => R = {} /\ L = {} /\ M = {}
  BY <1>4, <1>5, <1>6
<1> HIDE DEF R, L, M
<1>14. Ref(sh.phys = p) = Ref(p \in ShellHas)
  BY DEF Ref, ShellHas
<1>15. Ref(p \in ToSet(mem.pages)) + Ref(p \in ToSet(mem.ttbs)) = Ref(p \in PoolOf(mem))
  BY <1>1 DEF Ref, PoolOf
<1>16. Ref(p \in ToSet(mem.pages)) + Ref(p \in ToSet(mem.ttbs)) + Ref(R # {}) + Ref(L # {}) + Ref(M # {}) + Ref(p \in ShellHas) = 1
  <2>1. CASE \E k \in Spawns : p \in Own(k)
    <3>1. PICK k \in Spawns : p \in Own(k)
      BY <2>1
    <3>2. p \notin PoolOf(mem) /\ p \notin ShellHas
      BY <3>1 DEF PageInv, PagesApart
    <3> QED
      BY <3>1, <3>2, <1>12, <1>15 DEF Ref, PoolOf
  <2>2. CASE \A k \in Spawns : p \notin Own(k)
    <3>1. p \in PoolOf(mem) <=> p \notin ShellHas
      BY <2>2 DEF PageInv, PagesApart, PagesCovered
    <3> QED
      BY <3>1, <2>2, <1>13, <1>15 DEF Ref
  <2> QED
    BY <2>1, <2>2
<1>17. Cardinality({i \in DOMAIN mem.pages : mem.pages[i] = p})
       + Cardinality({i \in DOMAIN mem.ttbs : mem.ttbs[i] = p})
       + Cardinality(R) + Cardinality(L) + Cardinality(M) + Ref(sh.phys = p) = 1
  BY <1>8, <1>9, <1>10, <1>11, <1>14, <1>16
<1> QED
  BY <1>17 DEF R, L, M

------------------------------------------------------------------------------
(* The theorems.                                                           *)

\* The reference counts of processes, address spaces and file tables are
\* exactly the references that exist, however spawn_cmd, the tasks and the
\* scheduler's task_release are interleaved.
THEOREM RefsAreExact == Spec => []RefsExact
<1>1. RefInv => RefsExact
  BY DEF RefInv
<1> QED
  BY RefInvInit, RefInvNext, <1>1, PTL DEF Spec

\* No task ever uses a translation that an earlier address space or an earlier
\* mapping left in the TLB, although asid_free is preemptible.
THEOREM TlbNeverStale == Spec => []NoStaleTlb
<1>1. TlbInv => NoStaleTlb
  BY DEF TlbInv
<1> QED
  BY RefInvInit, RefInvNext, TlbInvInit, TlbInvNext, <1>1, PTL DEF Spec

\* A task never runs on, or takes an exception on, a kernel stack that another
\* task uses or that is on stack_freelist.
THEOREM StacksAreExclusive == Spec => []StacksExclusive
<1>1. ASSUME StackInv PROVE StacksExclusive
  <2> DEFINE stack(u) == task[u[1]][u[2]]
             used == {u \in Spawns \X {"kernel_stack", "exception_stack"} : stack(u) # NONE}
  <2>1. ASSUME NEW u \in used
        PROVE  \E k \in Spawns : \/ u = <<k, "kernel_stack">> /\ stack(u) = task[k].kernel_stack
                                 \/ u = <<k, "exception_stack">> /\ stack(u) = task[k].exception_stack
    OBVIOUS
  <2>2. ASSUME NEW u \in used, NEW w \in used, u # w PROVE stack(u) # stack(w)
    <3>1. PICK j \in Spawns : \/ u = <<j, "kernel_stack">> /\ stack(u) = task[j].kernel_stack
                              \/ u = <<j, "exception_stack">> /\ stack(u) = task[j].exception_stack
      BY <2>1
    <3>2. PICK k \in Spawns : \/ w = <<k, "kernel_stack">> /\ stack(w) = task[k].kernel_stack
                              \/ w = <<k, "exception_stack">> /\ stack(w) = task[k].exception_stack
      BY <2>1
    <3>3. stack(u) # NONE /\ stack(w) # NONE
      OBVIOUS
    <3> HIDE DEF stack
    <3> QED
      BY <1>1, <2>2, <3>1, <3>2, <3>3 DEF StackInv, StacksApart, OnlyOf
  <2>3. ASSUME NEW u \in used, NEW i \in DOMAIN mem.stacks PROVE mem.stacks[i] # stack(u)
    <3>1. PICK j \in Spawns : \/ stack(u) = task[j].kernel_stack
                              \/ stack(u) = task[j].exception_stack
      BY <2>1
    <3>3. stack(u) # NONE /\ mem.stacks[i] \in ToSet(mem.stacks)
      BY DEF ToSet
    <3> HIDE DEF stack
    <3> QED
      BY <1>1, <3>1, <3>3 DEF StackInv, StacksApart, OnlyOf
  <2>4. \A i, j \in DOMAIN mem.stacks : i # j => mem.stacks[i] # mem.stacks[j]
    BY <1>1 DEF StackInv, StackTypes, List, IsInjective
  <2> QED
    BY <2>2, <2>3, <2>4 DEF StacksExclusive
<1> QED
  BY RefInvInit, RefInvNext, StackInvInit, StackInvNext, <1>1, PTL DEF Spec

\* No page is lost and none has two owners, in whatever order spawn_cmd, the
\* faults of the tasks, vm_release and task_release are interleaved, and
\* asid_free never meets an ASID that is not allocated (TypeOK).
THEOREM PagesAreExact == Spec => []PagesExact
<1>1. RefInv /\ TlbInv /\ StackInv /\ PageInv /\ RestTypes => PagesExact
  <2> SUFFICES ASSUME RefInv, TlbInv, StackInv, PageInv, RestTypes PROVE PagesExact
    OBVIOUS
  <2>1. proc \in [Spawns -> 0..2] /\ files \in [Spawns -> 0..1] /\ vmref \in [Spawns -> 0..2]
    <3>1. ASSUME NEW k \in Spawns PROVE proc[k] \in 0..2 /\ files[k] \in 0..1 /\ vmref[k] \in 0..2
      <4>1. RefsOf(k)
        BY DEF RefInv, RefsExact
      <4>2. CASE Dying(k)
        BY <4>1, <4>2 DEF RefInv, DyingRefs, RefsOf, Ref
      <4>3. CASE ~Dying(k)
        BY <4>1, <4>3 DEF RefsOf, Ref
      <4> QED
        BY <4>2, <4>3
    <3> QED
      BY <3>1 DEF RefInv, Shape
  <2>2. mem.pages \in Seq(Pages) /\ mem.ttbs \in Seq(Pages)
    <3>1. ASSUME NEW s, List(s), ToSet(s) \subseteq Pages PROVE s \in Seq(Pages)
      <4>1. s \in [1..Len(s) -> Int] /\ Len(s) \in Nat
        BY <3>1, LenProperties DEF List
      <4>2. \A i \in 1..Len(s) : s[i] \in Pages
        BY <3>1, ListLen
      <4>3. s \in [1..Len(s) -> Pages]
        BY <4>1, <4>2
      <4> QED
        BY <4>1, <4>3, SeqDef
    <3> QED
      BY <3>1 DEF PageInv, VmTypes, PoolOK, PoolOf
  <2>3. TypeOK
    BY <2>1, <2>2 DEF TypeOK, RefInv, Shape, PageInv, VmTypes, RestTypes
  <2> QED
    BY <2>3, OneOwner DEF PagesExact
<1> QED
  BY RefInvInit, RefInvNext, TlbInvInit, TlbInvNext, StackInvInit, StackInvNext,
     PageInvInit, PageInvNext, RestTypesInit, RestTypesNext, <1>1, PTL DEF Spec
==============================================================================
