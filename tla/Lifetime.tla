------------------------------ MODULE Lifetime --------------------------------
(***************************************************************************)
(* The life of user processes: what spawn_cmd of the shell builds          *)
(* (src/src/shell/main.c), what the task does with it, and how the         *)
(* references of task, process, address space and file table give it back  *)
(* (src/src/kernel/task.c, mm.c, vfs.c).                                   *)
(*                                                                         *)
(* spawn_cmd makes exactly one process, file table, address space and task *)
(* per call, so the number k of the call names all four.  Three kinds of   *)
(* actors are interleaved: the shell, which runs spawn_cmd with interrupts *)
(* enabled and can be preempted between any two of its steps, the user     *)
(* tasks, and the scheduler, which frees an exited task with interrupts    *)
(* disabled.  A step is a part of the code that runs with interrupts       *)
(* disabled, or one access to shared memory.                               *)
(*                                                                         *)
(* The reference counts of pages and the links of their free list are the  *)
(* subject of PhysMem; here a page is free, or has one owner.              *)
(***************************************************************************)
EXTENDS Integers, FiniteSets, Sequences, SequencesExt

CONSTANTS
  NSpawn,      \* bound: calls of spawn_cmd
  NPages,      \* physical pages on the free list at the start
  NAsids,      \* ASIDs besides the one of the kernel (255 in the code)
  NVa,         \* pages of the managed range of an address space
  StackPages   \* pages of a user stack, the two guard pages included

ASSUME LifetimeAssumption ==
  /\ NSpawn \in Nat /\ NPages \in Nat
  /\ NAsids \in 1..7            \* all in the first byte of asid_table
  /\ StackPages \in Nat /\ StackPages > 2
  /\ NVa \in Nat /\ NVa > StackPages

Spawns == 1..NSpawn
Pages  == 1..NPages
Asids  == 1..NAsids
VA     == 1..NVa
NONE    == 0     \* no page, no address, no stack
ONFAULT == -1    \* PAGING_INFO_ALLOC_ON_FAULT_MAGIC

VARIABLES
  sh,      \* the shell: where it is in spawn_cmd, and its local variables
  proc,    \* refcount of every process
  files,   \* refcount of its file table
  vmref,   \* refcount of its address space
  asid,    \* ASID of the address space (0: none)
  pte,     \* what its page table holds for every address
  space,   \* its root table, leaf table and allocation bitmap
  tstate,  \* where its task is in its life
  task,    \* the stacks of the task
  mem,     \* free pages, free table pages, free kernel stacks, stacks made
  asids,   \* asid_table: the ASIDs in use
  tlb,     \* what the MMU may have cached: <<asid, va, page>>
  panic    \* "none", or the panic that halted the machine

vm   == <<vmref, asid, pte, space>>
vars == <<sh, proc, files, vmref, asid, pte, space, tstate, task, mem, asids, tlb, panic>>

------------------------------------------------------------------------------
(* Page tables and the page allocators.                                    *)

\* ttbpage_alloc: a table page that was given back, or else a fresh page.
TtbPage(m)      == IF m.ttbs # <<>> THEN Head(m.ttbs) ELSE Head(m.pages)
TtbPageAlloc(m) == IF m.ttbs # <<>> THEN [m EXCEPT !.ttbs = Tail(@)]
                                    ELSE [m EXCEPT !.pages = Tail(@)]
NoTtbPage(m)    == m.ttbs = <<>> /\ m.pages = <<>>

\* The pages that the entries t map at the addresses of vs, in the order of
\* the walk.
MappedPages(t, vs) ==
  LET upto[v \in 0..NVa] == IF v = 0 THEN <<>>
                            ELSE IF v \in vs /\ t[v] \in Pages THEN Append(upto[v - 1], t[v])
                            ELSE upto[v - 1]
  IN  upto[NVa]

\* Pages whose last reference is dropped go back to the front of the free list.
FreePages(m, ps) == [m EXCEPT !.pages = Reverse(ps) \o @]

\* Mutation: the leaf tables are not given back.
FreeWalk_KeepsLeaf(m, s, t) == [FreePages(m, MappedPages(t, VA)) EXCEPT !.ttbs = <<s.root>> \o @]

\* ttbpage_free_walk: the mapped pages, the leaf table, the root table.
FreeWalk(m, s, t) ==
  [FreePages(m, MappedPages(t, VA)) EXCEPT !.ttbs = <<s.root, s.leaf>> \o @]

\* vm_space_map_page_physical_prot on every page of vs: the entries become x.
MapPages(t, vs, x) == [v \in VA |-> IF v \in vs THEN x ELSE t[v]]

\* n pages from b on.
PageRange(b, n) == b..(b + n - 1)

\* The search of vm_allocate: the first n free pages in a row begin at b.  A
\* new address space has room for one page and a stack (LifetimeAssumption).
Fits(s, n, b) == b + n - 1 <= NVa /\ PageRange(b, n) \cap s.alloc = {}
FirstFit(s, n, b) == Fits(s, n, b) /\ \A c \in 1..(b - 1) : ~Fits(s, n, c)

\* vm_deallocate does nothing unless all the pages are allocated.
Deallocated(s, b, n) ==
  IF b # NONE /\ PageRange(b, n) \subseteq s.alloc THEN PageRange(b, n) ELSE {}

\* Mutation: the entries of the ASID stay in the TLB.
VmFlush_Nothing(t, a) == t

\* TLBI ASIDE1IS: forget every entry of the ASID.
VmFlush(t, a) == {e \in t : e[1] # a}

\* TLBI VAE1 for each address of vs.
VmFlushByAddr(t, a, vs) == {e \in t : e[1] # a \/ e[2] \notin vs}

NoSpace   == [root |-> NONE, leaf |-> NONE, alloc |-> {}]
NoEntries == [v \in VA |-> NONE]
NoStacks  == [user_stack |-> NONE, kernel_stack |-> NONE, exception_stack |-> NONE]

\* kernel_stack_allocate: from stack_freelist, or a new one, whose two pages never
\* come back to the page allocator and are not counted in mem.
KernelStack(m) == IF m.stacks # <<>> THEN Head(m.stacks) ELSE m.made + 1
KernelStackAllocate(m) == IF m.stacks # <<>> THEN [m EXCEPT !.stacks = Tail(@)]
                                             ELSE [m EXCEPT !.made = @ + 1]
KernelStackFree(m, s) == [m EXCEPT !.stacks = <<s>> \o @]

Init ==
  /\ sh = [pc |-> "idle", k |-> 0, va |-> NONE, phys |-> NONE, byte |-> {}]
  /\ proc  = [k \in Spawns |-> 0]
  /\ files = [k \in Spawns |-> 0]
  /\ vmref = [k \in Spawns |-> 0]
  /\ asid  = [k \in Spawns |-> 0]
  /\ pte   = [k \in Spawns |-> NoEntries]
  /\ space = [k \in Spawns |-> NoSpace]
  /\ tstate = [k \in Spawns |-> "none"]
  /\ task  = [k \in Spawns |-> NoStacks]
  /\ mem = [pages |-> [p \in Pages |-> p], ttbs |-> <<>>, stacks |-> <<>>, made |-> 0]
  /\ asids = {}
  /\ tlb = {}
  /\ panic = "none"

Panic(why) == panic' = why /\ UNCHANGED <<sh, proc, files, vm, tstate, task, mem, asids, tlb>>

------------------------------------------------------------------------------
(* The shell: spawn_cmd.  k is the number of the call.                     *)

At(pc) == panic = "none" /\ sh.pc = pc
K == sh.k

\* proc_create: a file table, and the root table of vm_create.
ProcCreate ==
  /\ At("idle") /\ K < NSpawn
  /\ IF NoTtbPage(mem) THEN Panic("out of pages")
     ELSE /\ sh' = [sh EXCEPT !.pc = "asid", !.k = @ + 1]
          /\ files' = [files EXCEPT ![K + 1] = 1]
          /\ space' = [space EXCEPT ![K + 1].root = TtbPage(mem)]
          /\ mem' = TtbPageAlloc(mem)
          /\ UNCHANGED <<proc, vmref, asid, pte, tstate, task, asids, tlb, panic>>

\* asid_alloc, and the rest of vm_create and proc_create.
AsidAlloc ==
  /\ At("asid")
  /\ IF Asids \subseteq asids THEN Panic("out of ASIDs")
     ELSE \E a \in Asids \ asids :
            /\ \A b \in Asids \ asids : a <= b
            /\ sh' = [sh EXCEPT !.pc = "code"]
            /\ asids' = asids \cup {a}
            /\ asid' = [asid EXCEPT ![K] = a]
            /\ vmref' = [vmref EXCEPT ![K] = 1]
            /\ proc' = [proc EXCEPT ![K] = 1]
            /\ UNCHANGED <<files, pte, space, tstate, task, mem, tlb, panic>>

\* vm_allocate of one page that the caller maps, then ppage_alloc.
CodePage ==
  /\ At("code")
  /\ IF mem.pages = <<>> THEN Panic("out of pages")
     ELSE \E b \in VA :
            /\ FirstFit(space[K], 1, b)
            /\ space' = [space EXCEPT ![K].alloc = @ \cup {b}]
            /\ sh' = [sh EXCEPT !.pc = "map", !.va = b, !.phys = Head(mem.pages)]
            /\ mem' = [mem EXCEPT !.pages = Tail(@)]
            /\ UNCHANGED <<proc, files, vmref, asid, pte, tstate, task, asids, tlb, panic>>

\* vm_space_map_page_physical_prot: the leaf table of the range is made on the
\* first mapping, and the shell's reference passes to the entry.
MapCode ==
  /\ At("map")
  /\ IF NoTtbPage(mem) THEN Panic("out of pages")
     ELSE /\ space' = [space EXCEPT ![K].leaf = TtbPage(mem)]
          /\ pte' = [pte EXCEPT ![K] = MapPages(@, {sh.va}, sh.phys)]
          /\ mem' = TtbPageAlloc(mem)
          /\ sh' = [sh EXCEPT !.pc = "task", !.phys = NONE]
          /\ tlb' = VmFlushByAddr(tlb, asid[K], {sh.va})
          /\ UNCHANGED <<proc, files, vmref, asid, tstate, task, asids, panic>>

\* Mutation: the task takes no reference on its process.
CreateTask_NoReference ==
  /\ At("task")
  /\ vmref' = [vmref EXCEPT ![K] = @ + 1]
  /\ tstate' = [tstate EXCEPT ![K] = "new"]
  /\ task' = [task EXCEPT ![K].kernel_stack = KernelStack(mem)]
  /\ mem' = KernelStackAllocate(mem)
  /\ sh' = [sh EXCEPT !.pc = "stack"]
  /\ UNCHANGED <<proc, files, asid, pte, space, asids, tlb, panic>>

\* task_create_extended and task_register_unlinked up to the first stack: the
\* task references the process and its address space.
CreateTask ==
  /\ At("task")
  /\ proc' = [proc EXCEPT ![K] = @ + 1]
  /\ vmref' = [vmref EXCEPT ![K] = @ + 1]
  /\ tstate' = [tstate EXCEPT ![K] = "new"]
  /\ task' = [task EXCEPT ![K].kernel_stack = KernelStack(mem)]
  /\ mem' = KernelStackAllocate(mem)
  /\ sh' = [sh EXCEPT !.pc = "stack"]
  /\ UNCHANGED <<files, asid, pte, space, asids, tlb, panic>>

\* The exception stack and the task list of the process.
ListTask ==
  /\ At("stack")
  /\ task' = [task EXCEPT ![K].exception_stack = KernelStack(mem)]
  /\ mem' = KernelStackAllocate(mem)
  /\ sh' = [sh EXCEPT !.pc = "link"]
  /\ UNCHANGED <<proc, files, vm, tstate, asids, tlb, panic>>

\* task_link: from here on the task runs, exits and is freed at any time.
LinkTask ==
  /\ At("link")
  /\ tstate' = [tstate EXCEPT ![K] = "linked"]
  /\ sh' = [sh EXCEPT !.pc = "release"]
  /\ UNCHANGED <<proc, files, vm, task, mem, asids, tlb, panic>>

\* proc_release of the shell's own reference.
ShellProcRelease ==
  /\ At("release")
  /\ proc' = [proc EXCEPT ![K] = @ - 1]
  /\ sh' = [sh EXCEPT !.pc = IF proc[K] = 1 THEN "vm" ELSE "idle"]
  /\ UNCHANGED <<files, vm, tstate, task, mem, asids, tlb, panic>>

\* vm_release up to ttbpage_free_walk, when the reference was the last one.  The
\* walk, which may be interrupted, is one step: nobody else reaches its pages
\* any more, each push on a free list is atomic, and what another task finds on
\* the lists in the middle of the walk it may also find before or after it, but
\* for the order of the pages.
ShellVmRelease ==
  /\ At("vm")
  /\ vmref' = [vmref EXCEPT ![K] = @ - 1]
  /\ IF vmref[K] = 1
     THEN mem' = FreeWalk(mem, space[K], pte[K]) /\ sh' = [sh EXCEPT !.pc = "read"]
     ELSE mem' = mem /\ sh' = [sh EXCEPT !.pc = "files"]
  /\ UNCHANGED <<proc, files, asid, pte, space, tstate, task, asids, tlb, panic>>

\* asid_free with interrupts enabled reads the byte of the table...
ShellAsidRead ==
  /\ At("read")
  /\ IF asid[K] \notin asids THEN Panic("ASID was not allocated")
     ELSE /\ sh' = [sh EXCEPT !.pc = "write", !.byte = asids]
          /\ UNCHANGED <<proc, files, vm, tstate, task, mem, asids, tlb, panic>>

\* ... and stores it without the bit.
ShellAsidWrite ==
  /\ At("write")
  /\ asids' = sh.byte \ {asid[K]}
  /\ sh' = [sh EXCEPT !.pc = "tlbi", !.byte = {}]
  /\ UNCHANGED <<proc, files, vm, tstate, task, mem, tlb, panic>>

\* TLBI, and the end of vm_release.
ShellTlbi ==
  /\ At("tlbi")
  /\ tlb' = VmFlush(tlb, asid[K])
  /\ asid' = [asid EXCEPT ![K] = 0]
  /\ pte' = [pte EXCEPT ![K] = NoEntries]
  /\ space' = [space EXCEPT ![K] = NoSpace]
  /\ sh' = [sh EXCEPT !.pc = "files"]
  /\ UNCHANGED <<proc, files, vmref, tstate, task, mem, asids, panic>>

\* filetable_release.
ShellFilesRelease ==
  /\ At("files")
  /\ files' = [files EXCEPT ![K] = @ - 1]
  /\ sh' = [sh EXCEPT !.pc = "idle"]
  /\ UNCHANGED <<proc, vm, tstate, task, mem, asids, tlb, panic>>

\* spawn_cmd once it has been called.
Spawning ==
  \/ AsidAlloc \/ CodePage \/ MapCode \/ CreateTask \/ ListTask \/ LinkTask
  \/ ShellProcRelease \/ ShellVmRelease \/ ShellAsidRead \/ ShellAsidWrite
  \/ ShellTlbi \/ ShellFilesRelease

------------------------------------------------------------------------------
(* The user task.                                                          *)

Running(k, st) == panic = "none" /\ tstate[k] = st

\* task_entry: task_fault_stack reserves the stack, whose pages are allocated
\* on the first access, and clears the entries of its first and last page.
TaskEntry(k) ==
  /\ Running(k, "linked")
  /\ \E b \in VA :
       /\ FirstFit(space[k], StackPages, b)
       /\ space' = [space EXCEPT ![k].alloc = @ \cup PageRange(b, StackPages)]
       /\ pte' = [pte EXCEPT ![k] = MapPages(MapPages(@, PageRange(b, StackPages), ONFAULT),
                                             {b, b + StackPages - 1}, NONE)]
       /\ tlb' = VmFlushByAddr(tlb, asid[k], PageRange(b, StackPages))
       /\ task' = [task EXCEPT ![k].user_stack = b]
       /\ tstate' = [tstate EXCEPT ![k] = "user"]
       /\ UNCHANGED <<sh, proc, files, vmref, asid, mem, asids, panic>>

\* The task reads or writes a mapped page: the MMU may keep the translation.
Access(k, v) ==
  /\ Running(k, "user")
  /\ pte[k][v] \in Pages
  /\ \A p \in Pages : <<asid[k], v, p>> \notin tlb
  /\ tlb' = tlb \cup {<<asid[k], v, pte[k][v]>>}
  /\ UNCHANGED <<sh, proc, files, vm, tstate, task, mem, asids, panic>>

\* sync_exc_handle and vm_fault: an allocated page that is entered as
\* ALLOC_ON_FAULT gets a physical page.
VmFault(k, v) ==
  /\ Running(k, "user")
  /\ v \in space[k].alloc /\ pte[k][v] = ONFAULT
  /\ IF mem.pages = <<>> THEN Panic("out of pages")
     ELSE /\ pte' = [pte EXCEPT ![k] = MapPages(@, {v}, Head(mem.pages))]
          /\ mem' = [mem EXCEPT !.pages = Tail(@)]
          /\ tlb' = VmFlushByAddr(tlb, asid[k], {v})
          /\ UNCHANGED <<sh, proc, files, vmref, asid, space, tstate, task, asids, panic>>

\* sys_exit, a bad system call, or a fault that vm_fault does not handle:
\* task_exit_asserted leaves the freeing to the scheduler.
TaskExit(k) ==
  /\ Running(k, "user")
  /\ tstate' = [tstate EXCEPT ![k] = "exited"]
  /\ UNCHANGED <<sh, proc, files, vm, task, mem, asids, tlb, panic>>

------------------------------------------------------------------------------
(* The scheduler frees an exited task: task_release with interrupts        *)
(* disabled, and the last vm_release and proc_release with it.             *)

\* Mutation: the kernel stack is freed twice, the exception stack never.
StacksFree_Twice(m, t) == KernelStackFree(KernelStackFree(m, t.kernel_stack), t.kernel_stack)

StacksFree(m, t) == KernelStackFree(KernelStackFree(m, t.kernel_stack), t.exception_stack)

\* Mutation: task_release forgets its reference on the process.
ProcRefsLeft_Leak(k) == proc[k]

\* proc_release: the references left on the process.
ProcRefsLeft(k) == proc[k] - 1

\* The references left on the address space: the task's is dropped, and that
\* of the process with the process.
VmRefsLeft(k) == vmref[k] - 1 - (IF ProcRefsLeft(k) = 0 THEN 1 ELSE 0)

TaskRelease(k) ==
  /\ Running(k, "exited")
  /\ LET gone == Deallocated(space[k], task[k].user_stack, StackPages)
         t    == MapPages(pte[k], gone, NONE)
         m    == FreePages(StacksFree(mem, task[k]), MappedPages(pte[k], gone))
     IN  /\ tstate' = [tstate EXCEPT ![k] = "freed"]
         /\ task' = [task EXCEPT ![k] = NoStacks]
         /\ proc' = [proc EXCEPT ![k] = ProcRefsLeft(k)]
         /\ files' = [files EXCEPT ![k] = IF ProcRefsLeft(k) = 0 THEN @ - 1 ELSE @]
         /\ vmref' = [vmref EXCEPT ![k] = VmRefsLeft(k)]
         /\ IF VmRefsLeft(k) = 0
            THEN /\ asid' = [asid EXCEPT ![k] = 0]
                 /\ pte' = [pte EXCEPT ![k] = NoEntries]
                 /\ space' = [space EXCEPT ![k] = NoSpace]
                 /\ mem' = FreeWalk(m, space[k], t)
                 /\ asids' = asids \ {asid[k]}
                 /\ tlb' = VmFlush(tlb, asid[k])
            ELSE /\ pte' = [pte EXCEPT ![k] = t]
                 /\ space' = [space EXCEPT ![k].alloc = @ \ gone]
                 /\ mem' = m
                 /\ tlb' = VmFlushByAddr(tlb, asid[k], gone)
                 /\ UNCHANGED <<asid, asids>>
         /\ panic' = IF VmRefsLeft(k) = 0 /\ asid[k] \notin asids
                     THEN "ASID was not allocated" ELSE panic
         /\ sh' = sh

\* A panic stops the machine; a system without a call of spawn_cmd idles.
Next ==
  \/ ProcCreate
  \/ Spawning
  \/ \E k \in Spawns : TaskEntry(k) \/ TaskExit(k) \/ TaskRelease(k)
  \/ \E k \in Spawns, v \in VA : Access(k, v) \/ VmFault(k, v)

Spec == Init /\ [][Next]_vars

\* The shell and the scheduler get the CPU again and again: both are in the
\* ring of tasks that the scheduler goes round (see Sched, RunnableRuns).
Fairness == WF_vars(Spawning) /\ \A k \in Spawns : WF_vars(TaskRelease(k))

FairSpec == Spec /\ Fairness

------------------------------------------------------------------------------
(* Properties.                                                             *)

\* The objects of call k that are not freed.
TaskLives(k) == tstate[k] \notin {"none", "freed"}
ProcLives(k) == proc[k] > 0
SpaceLives(k) == vmref[k] > 0

\* The shell has not yet given back its reference on the process of call k.
ShellHolds(k) ==
  k = sh.k /\ sh.pc \in {"code", "map", "task", "stack", "link", "release"}

\* The shell is freeing the process of call k.
Dying(k) == k = sh.k /\ sh.pc \in {"vm", "read", "write", "tlbi", "files"}

Ref(b) == IF b THEN 1 ELSE 0

\* The type invariant, a part of PagesExact below.
TypeOK ==
  /\ sh.k \in 0..NSpawn /\ sh.va \in VA \cup {NONE} /\ sh.phys \in Pages \cup {NONE}
  /\ sh.byte \subseteq Asids
  /\ proc \in [Spawns -> 0..2] /\ files \in [Spawns -> 0..1]
  /\ vmref \in [Spawns -> 0..2] /\ asid \in [Spawns -> Asids \cup {0}]
  /\ pte \in [Spawns -> [VA -> Pages \cup {NONE, ONFAULT}]]
  /\ space \in [Spawns -> [root : Pages \cup {NONE}, leaf : Pages \cup {NONE}, alloc : SUBSET VA]]
  /\ tstate \in [Spawns -> {"none", "new", "linked", "user", "exited", "freed"}]
  /\ \A k \in Spawns : task[k].user_stack \in VA \cup {NONE}
  /\ mem.pages \in Seq(Pages) /\ mem.ttbs \in Seq(Pages)
  /\ asids \subseteq Asids
  /\ tlb \subseteq Asids \X VA \X Pages
  /\ panic \in {"none", "out of pages", "out of ASIDs"}

RefsOf(k) ==
  /\ proc[k] = Ref(ShellHolds(k)) + Ref(TaskLives(k))
  /\ Dying(k) \/ vmref[k] = Ref(ProcLives(k)) + Ref(TaskLives(k))
  /\ Dying(k) \/ files[k] = Ref(ProcLives(k) \/ (k = sh.k /\ sh.pc = "asid"))
  /\ TaskLives(k) => ProcLives(k) /\ SpaceLives(k) /\ files[k] = 1

\* The counts of proc_reference/proc_release, vm_reference/vm_release and
\* filetable_create/filetable_release are exactly the references that exist:
\* the shell's and the task's on the process, the process's and the task's on
\* the address space, the process's on the file table; and what is referenced
\* is not freed.
RefsExact == \A k \in Spawns : RefsOf(k)

\* No page is lost and none has two owners, whoever frees the address space
\* and when: every page is on the free list, on ttb_freelist, a table or a
\* mapped page of one address space, or in the hands of the shell.
PagesExact ==
  /\ TypeOK
  /\ \A p \in Pages :
       Cardinality({i \in DOMAIN mem.pages : mem.pages[i] = p})
       + Cardinality({i \in DOMAIN mem.ttbs : mem.ttbs[i] = p})
       + Cardinality({k \in Spawns : (SpaceLives(k) \/ sh.pc = "asid") /\ space[k].root = p})
       + Cardinality({k \in Spawns : SpaceLives(k) /\ space[k].leaf = p})
       + Cardinality({u \in Spawns \X VA : SpaceLives(u[1]) /\ pte[u[1]][u[2]] = p})
       + Ref(sh.phys = p) = 1

\* An access never goes through a translation left over by an earlier owner of
\* the ASID or by an earlier mapping: every entry the TLB may hold for the ASID
\* of a living address space agrees with its page table, and no two living
\* address spaces have the same ASID.
NoStaleTlb ==
  /\ \A k \in Spawns, e \in tlb :
       SpaceLives(k) /\ e[1] = asid[k] => pte[k][e[2]] = e[3]
  /\ \A j, k \in Spawns :
       j # k /\ SpaceLives(j) /\ SpaceLives(k) => asid[j] # asid[k]

\* No two kernel stacks in use are the same, and none is on stack_freelist:
\* a task never runs on, or takes an exception on, the stack of another one.
StacksExclusive ==
  LET stack(u) == task[u[1]][u[2]]
      used == {u \in Spawns \X {"kernel_stack", "exception_stack"} : stack(u) # NONE}
  IN  /\ \A u, w \in used : u # w => stack(u) # stack(w)
      /\ \A u \in used : \A i \in DOMAIN mem.stacks : mem.stacks[i] # stack(u)
      /\ \A i, j \in DOMAIN mem.stacks : i # j => mem.stacks[i] # mem.stacks[j]

\* Nothing outlives an exited task: once it has exited, the task, its process,
\* its address space and its file table are all freed in the end, whether the
\* scheduler or the shell drops the last reference.
Freed(k) == tstate[k] = "freed" /\ proc[k] = 0 /\ files[k] = 0 /\ vmref[k] = 0
ExitFreesAll ==
  \A k \in Spawns : tstate[k] = "exited" ~> (Freed(k) \/ panic # "none")

\* "asid_alloc: out of ASIDs, are we leaking vm_spaces?" blames the address
\* spaces when the table is full: the ASIDs in use are those of address spaces
\* that are not freed.
AsidsExact == asids \subseteq {asid[k] : k \in Spawns}
==============================================================================
