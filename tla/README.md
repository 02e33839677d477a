# pongoOS-QEMU: a TLA+ verification project

pongoOS is a small pre-boot kernel for one ARM64 core. It has tasks, events,
locks, preempting IRQ handlers, a physical page allocator, address spaces,
processes, a shell that reads commands from a UART or from USB, and loaders for
modules and for the next operating system. This fork also runs on QEMU's `virt`
machine (GIC, PL011). The modules here model the kernel's own core; TLC checks
them on small instances, and TLAPS proves theorems about seven of them for every
value of their constants.

All paths below are those of the repository, with `src/src/` as the kernel tree.

## 1. Inventory

| Component | State | Operations | Hard behaviour | What makes it correct |
|---|---|---|---|---|
| Physical page allocator, `kernel/mm.c` | reference count per page, free list threaded through the pages, two counters | `ppage_alloc`, `alloc_phys`, `free_phys`, `phys_reference/dereference`, `phys_force_free` | counters kept by hand; list words live in memory that owners overwrite; last page | list, counts and counters agree; a page is handed out once; consistency panics unreachable |
| Address spaces, `mm.c` | page tables, allocation bitmaps, ASIDs, kernel VA bump pointer | `vm_create/release`, `vm_allocate/deallocate`, `vm_fault`, `map_range`, `linear_kvm_alloc`, `jit_alloc` | reference consumed by mapping; ASIDs reused; `asid_free` with interrupts enabled | no page is freed while mapped; no stale translation |
| Locks, `kernel/locks.c` | one word: held, busy, last owner | `lock_take`, `lock_take_spin`, `lock_release` | word read with interrupts enabled, then again; fairness | mutual exclusion; nobody starves |
| Scheduler, tasks, events, `kernel/task.c`, `kernel/entry.c` | ring of tasks, head, flags, reference counts, event queues, `irqvecs` | `task_create/register/link/unlink/exit/release`, `task_yield*`, `event_wait/fire`, `pongo_sched_tick` | IRQs move the head; reaping; sleeping in `wfe`; handlers that wait | one consistent ring; no freed task reachable; waiters parked and woken; runnable tasks run |
| IRQ entry and controllers, `kernel/lowlevel.c`, `drivers/gic/gic.c` | masks, pending IRQs, `dis_int_count` | take, acknowledge, mask, unmask, re-arm | level against edge | an IRQ is never dead while its handler is idle |
| Serial drivers, `drivers/pl011`, `drivers/uart` | receive FIFO, drop flag | `uart_main`, `serial_getc` | an edge between the last read and the exit | no bogus and no stranded character |
| Standard input, command loop, `support/io.c`, `shell/command.c`, `shell/usbloader.c` | `stdin_buf`, `stdin_lock`, two events | `queue_rx_char`, `_read`, `command_main`, `usb_write_stdin` | lock released before waiting: lost wake-ups; full buffer | first-in first-out; input is read; writers return |
| Standard output, `support/io.c` | `stdout_buf`, blocking flag | `_write`, `fetch_stdoutbuf`, `set_stdout_blocking` | a blocking writer gives the lock back in the middle of a line and polls | nothing lost while blocking; writer and fetcher never wait for each other |
| Processes, `task.c`, `shell/main.c`, `vfs.c` | reference counts of process, task, address space, file table | `proc_create/release`, `proc_create_task`, `spawn_cmd` | the last reference is dropped by the shell or by the scheduler | everything is released once and completely |
| USB device, `drivers/usb/synopsys_otg.c` | endpoint states, EP0 stage, DMA buffers | `usb_main`, EP0 and bulk transfers, reset | interrupts handled late and together; a callback that waits | EP0 protocol; exact answers; no `BUG()` |
| USB loader, `shell/usbloader.c` | transfer buffer, its size, count, waiting flag | `ep0_device_request`, resize, done callback | size of transfer and of buffer change apart | the controller stays in the buffer; a command sees the upload |
| Command table, `shell/command.c` | 64 sorted entries | register, unregister, execute | replacement in a full table | it dispatches as a map |
| Modules, `dynamic/` | load area, export chain | `pongo_module_load*` | modules without exports | symbols resolve in load order |
| Device trees, `kernel/fdtree.c`, `kernel/dtree.c` | none | `fdtree_find_prop`, `dt_check`, `dt_parse`, `dt_find`, `dt_prop` | nesting, sizes, padding | the walk finds what a search in the tree finds |
| Boot path, system calls, VFS, heap, `fw_cfg`, frame buffer, AES/TZ/MIPI/GPIO drivers, XNU and Linux boot | see `PROJECT.json` | | mostly sequential code and hardware sequences | |

How they interact: every blocking call ends in the scheduler. A handler task is
linked by an IRQ (`task_switch_irq`), runs `queue_rx_char`, takes `stdin_lock`
(which may yield), fires `stdin_ev`, and leaves through `task_exit_irq`, which
unlinks it and re-arms the IRQ. The shell task waits on `stdin_ev` and fires
`command_handler_iter` between commands; a USB write may wait for that. A
command may print, and then waits until the USB task fetches the output. It may
also consume what the USB task received. `spawn_cmd` builds a process whose task
the scheduler frees. Task stacks, page tables and DMA buffers come from the page
allocator.

`PROJECT.json` lists every component, and under `hazards` the places where each
hard behaviour bites.

## 2. Modules

| Module | Models |
|---|---|
| `PhysMem` | the page allocator and the reference traffic of mapping one page |
| `LockPromise` | what a lock promises (abstract specification) |
| `YieldLock` | the lock of `locks.c`, on one CPU with preemption |
| `Sched` | the scheduler, events, task life and IRQ dispatch |
| `Uart` | both serial input drivers with their interrupt controllers |
| `Console` | standard input and output, the command loop, `usb_write_stdin`, the fetching host |
| `Usb` | the USB device driver and the loader, with controller and host |
| `Lifetime` | processes, tasks, address spaces, file tables and ASIDs from `spawn_cmd` to the last release |
| `ShellTables` | the command table and the chain of exported symbols, as algorithms |
| `DeviceTrees` | the walks over both kinds of device tree, as algorithms |
| `PhysMemProofs`, `YieldLockProofs`, `SchedProofs`, `UartProofs`, `ConsoleProofs`, `UsbProofs`, `LifetimeProofs` | theorems about the module of that name |
| `ListLemmas` | lemmas on lists without repetition and on the least element of a set of numbers, shared by the proofs |
| `MC*` | values of the constants for TLC |

Definitions named `X_Something` with the comment "Mutation" are faulty variants
of `X`. No specification uses them; they are there to show that a property
notices when `X` is replaced.

How the modules rest on each other: `YieldLock` implements `LockPromise`, and
`Console` uses the promise for its two locks. `RunnableRuns` of `Sched` and
`NoStarvation` of `YieldLock` are the fairness of `Uart`, `Console`, `Usb` and
`Lifetime`. `Usb` and `Console` share the wait of `usb_write_stdin`: `Console`
has the characters and the two modes, `Usb` the control transfer around them.
`Lifetime` uses a page as `PhysMem` proves it: handed out once, until it is freed.

### PhysMem

`mem` holds `ppage_list`, `pa_head`, the first two words of every page (`next`,
`prev`) and `free_pages`, `wired_pages`. Once a page is handed out its words are
`Junk`, because the owner writes to it; following `Junk` is a panic in the model.
All the functions run with interrupts disabled, so an operation on one page is an
operator on `mem` and a loop over a range (`op`) is one step per page during
which nothing else is enabled. The states in the middle of `alloc_phys` (unlink,
then reference) are visible, and the invariants hold there too. `alloc_init` is
the initial state and the loops "init1" and "init2". `held` is a ghost: how many
references callers still have to give back. It encodes the contract of the API
(give back only what you were given); without it `free_phys` of a foreign page is
trivially fatal. `MapPage` is `vm_space_map_page_physical_prot` on a ttbr1 address,
with page 0 for clearing it: one `MapStep` per page-table entry references the new
page and drops the page of the old entry, and `MapDone` consumes the caller's
reference. The allocator's pages are 16K on either granule; `Entries` is the number
of entries that map one, 1 on a 16K granule and 4 on a 4K granule, where a page
mapped once has a count of 4. Wired pages are outside the contract: no caller drops
a reference on one. `mark_phys_wired` has no caller and is left out.

### YieldLock

`word` is the lock word, `pc` the position of each task in `lock_take` or
`lock_take_spin`, `current` the running task. Each read of the word outside a
section with interrupts disabled is a step; each such section is one step.
`Preempt` is the timer FIQ and may come between any two steps; `Quantum` is how
many steps a task gets at least before it, and is only used for liveness.
`After` is the order in which the scheduler picks tasks. `LockPromise` has one
variable, `holder`; the refinement maps it to the task whose `lock_take` has
returned.

### Sched

`k` holds the tasks: alive, reference count, the flags `LINKED`, `WAS_LINKED`
and `PLEASE_DEREF`, `next` and `prev` of the ring, and `pongo_sched_head`.
`task_unlink` only clears a flag, so the ring holds every task that was ever
linked until it is reaped. `LoopAround`, `Reap`, `SwitchTo` and `Skip` are the
four outcomes of `pongo_sched_tick` in the idle loop (`idle` is
`has_been_preempted` and the `wfe`). `Timer` is the FIQ, `Irq` the IRQ with
`task_irq_dispatch`, which moves the head to its handler. A running task may
yield, create tasks, register a static one again, bind a handler, take and drop
references, wait, fire, leave a handler or exit. `event_fire` is one step per
waiter with nothing else enabled.

Three restrictions are contracts that the drivers keep. A handler is bound to one
IRQ, before it is entered for the first time. A handler that is replaced is idle:
were it replaced inside its handler, `task_exit_irq` of the old one would unmask
the IRQ of the new one, whose handler might then be linked while it waits. On a
controller that does not mask, no handler waits (of the handlers only `usb_main`
does). With the second contract dropped, TLC finds a task that is in the queue of
an event and runnable.

### Uart

One handler task, the FIFO and the line. With `platform = "qemu"`, `pl011.c` runs
on `gic.c`: an edge is latched, acknowledging it clears the latch and nothing is
masked, and the handler drains the FIFO. With `"apple"`, `uart.c` runs on the
controller of `lowlevel.c`: a level is delivered unless masked, taking it masks
it, and the handler reads one character. `EnableInterrupts` takes a pending IRQ
at once because `_enable_interrupts` ends with an `isb`. The scheduler is reduced
to switching the handler in when it is linked, and to preempting it. The UART's
own FIFO and line are external.

### Console

A writer (the UART or USB handler task) and the shell share `stdin_buf` under
`stdin_lock`. Characters are ordinary, newline or delete. `_read` gives the lock
back and then waits; `usb_write_stdin` queues and then, in waiting mode, waits for
`command_handler_iter`. `fgets` is external: it refills an empty stdio buffer with
`_read` and stops at a newline. `log` is a ghost: the characters accepted, not
deleted and not yet read.

A command writes `OutLen` characters with one `_write`; they are numbered, so that
a gap or a repetition shows. A discarding `_write` moves the buffer by one when it
is full; a blocking one gives `stdout_lock` back, polls and takes it again. The
USB task sets the modes of the request `0x21/4` (wait for commands, block stdout,
or neither) and fetches with one of the lengths the request allows (`FetchLens`): the
buffer is emptied, but a host that asked for less gets the last characters only
(`Sent`). `host` is a ghost: how much of the output of the command has been fetched,
and whether stdout has been blocking and fetched whole since the command began.

### Usb

`dev` is what the driver and the loader keep, `reg` and `int` the registers and
pending interrupts of the controller, `usb` the handler task in `usb_main`,
`shell` a command that consumes an upload. Functions of the driver keep their
names and map the driver and the registers to what they become. A pass of
`usb_ep_interrupt` reads `DAINT` once and then serves the endpoints in the code's
order, and anything may happen between two of these steps. The loader is the
callbacks: `ep0_device_request` with all of its requests, the resizing of the
buffer, the end of an upload, the two modes of request 4 (`dev.wait`, off at the
start), and the write to stdin, which waits for the command in the waiting mode and
returns at once in the other. At most `LinesMax` lines are queued, as `stdin_buf` is
bounded. `shell.careful` is a ghost: the next command was written in waiting mode to
an idle shell. The driver reads `DOEPINT` of EP 0 OUT once; the two bits of a SETUP
that it looks at are set together here (`SetupDone`).
Every `BUG()` of the modelled functions is a value of `dev.bug`, after which
nothing runs.

Controller and host are external, from how the driver and the scripts use them.
The host makes the requests of a given set in any order, finishes what it begins
(unless `Unruly`), sends a SETUP only when the endpoint is enabled, resets only
when quiet, and uploads at most the size the loader expects. Packets and buffers
are counted in bytes, a packet having two. `mem` says which byte of the upload is
where in the buffer. Left out: EP 1 IN and `usb_write` (no user), `usb_init`, the
hand-off mode of `usb_main`, and the power states.

### Lifetime

A call of `spawn_cmd` makes one process, file table, address space and task, so
its number `k` names all four. The shell runs `spawn_cmd` with interrupts enabled
and is interleaved with user tasks (fault in pages of the stack, fault fatally,
exit) and with the scheduler, which frees an exited task with interrupts disabled.
A step is a section with interrupts disabled or one access to shared memory: the
load and the store of a byte of `asid_table` are two steps of the shell. A page is
free or has one owner; kernel stacks are kept apart from the counted pages. The
ASIDs are in one byte of the table. The walk that frees the table pages of a dead
address space is one step of the shell: nobody else can reach them any more. The
panics of `asid_free` and `asid_alloc` are values of `panic`. The MMU is external: `tlb` holds the pairs
that may be cached, an entry can enter it while the task runs, and the `tlbi`
instructions of the code take entries out.

### ShellTables and DeviceTrees

Pure algorithms, each compared with its reference definition by an `ASSUME` that
TLC evaluates. `ShellTables` belongs to the run `console`, `DeviceTrees` to the
run `uart`.

* `CommandTableIsAMap`: every history of up to four registrations and removals of
  three names in a table of two entries, with and without the masking of
  `autoboot`, dispatches as a map and panics only when another name does not fit.
* `ExportsResolveInLoadOrder`: symbols of up to two modules after the kernel's own.
* `FdtFindsFirst`: every tree of three levels whose root has up to two children
  with at most one each, with and without `FDT_NOP`.
* `DtCheckExact`, `DtFindsFirst`: the same trees as Apple records, with flags in
  the length word, properties without a value, and every size around the true one.

## 3. Runs

| Run | What it shows | Bounds |
|---|---|---|
| `physmem` | list, counters and counts agree in every order of operations; no consistency panic; pages are handed out fresh and freed with their last reference | 5 pages in two regions with one wired between, up to 2 references held by callers, runs of up to 3 pages, 2 virtual pages of 4 entries |
| `lock` | exclusion, the word's holder, refinement of `LockPromise`, no starvation | 3 preemptible tasks in ring order, 4 steps per time slice |
| `sched_safety` | ring, queues, references, pointers, masks; panics only for forbidden exits | 5 tasks: `sched_task`, a static task, a static handler, a dynamic handler, a dynamic task; one event, one IRQ; 3 IRQs taken, 2 creations, 1 extra reference |
| `sched_liveness` | runnable tasks run, exited ones are reaped | 5 tasks, a restarting one among them, IRQs not masked, 1 IRQ, 3 creations |
| `uart` | no bogus character, exits only when linked, both platforms; on Apple nothing is left behind | FIFO of 3, 5 characters |
| `uart_lost_edge` (violation) | on the GIC a character can be stranded | the same |
| `console` | stdin is a queue with delete; stdout keeps its tail, and all of it while blocking and fetched whole; no mutual wait; commands end; input is read while lines keep coming | `stdin_buf` of 3 bytes, reads of 2, `fgets` of 2, the line delete-character-newline any number of times; 3 characters of output, `stdout_buf` of 2, fetches of 1 and 2 |
| `console_usb_wait` (violation) | a USB write can wait for a command that is already over | one short line |
| `usb` | no `BUG()`; the three records of an upload agree; the controller stays in the buffer; answers are exact; a command written in waiting mode to an idle shell sees the upload; transfers end | packets of 2 bytes, DMA buffer of 4, transfer limit 6, transfers of 4 and 8, 11 requests (`MCRequests`), uploads of 2, 4 and 8 bytes, 1 queued line |
| `usb_setup_abort` (violation) | a SETUP during a DATA OUT stage stops the system | an unruly host |
| `lifetime` | references, pages, TLB and stacks through three lives; everything is freed in the end | 3 calls of `spawn_cmd`, 8 pages, 2 ASIDs, 5 virtual pages, stacks of 3 |
| `lifetime_asid_leak` (violation) | an interrupted `asid_free` leaks an ASID | 3 calls, 2 ASIDs |

The type invariant of a module is a conjunct of one of its properties (`RingOK`,
`NoBogusChar`, `StdinFifo`, `BulkInBuffer`, `PagesExact`) or proved
(`AllocatorType`, `WordCorrect`).

Why the bounds are enough: five pages in two regions have neighbours of every
kind (free, wired, none) and runs that fit and do not fit; with two
references a caller maps a page and keeps it, so a page is mapped over itself, over
another and in two places. Three tasks are one more than the lock has waiter
roles (last owner, waiter that set busy, waiter that found it set). In the
scheduler two dynamic tasks give insertion between two neighbours, removal of the
head and of its predecessor, and a freed task whose slot is created again; three
IRQs let a handler be entered, replaced, and the new one entered twice. A FIFO of
3 with 5 characters covers empty, full and refilled while draining. Three lines
overfill `stdin_buf`, so that a newline is dropped, and reads shorter than the
content leave a rest to be moved to the front; output longer than `stdout_buf`
makes a writer block or discard, and a fetch of 1 cuts a full buffer. In `usb` an answer
is cut, ends with whole packets and more requested, or fits exactly; an upload ends
behind a packet, with the first of the hardware's transfers, or with the last byte
expected; a line is written to an idle shell and behind a running command, in either
mode. With two ASIDs and three calls an ASID is used again, and
8 pages run out. `CHECK_DEADLOCK FALSE` is given where a panic halts the machine
(`PhysMem`, `Sched`, `Usb`), where a bounded environment ends (`Uart`,
`Lifetime`) and where the stall of `console_usb_wait` is reachable (`Console`).

### Fairness

* `YieldLock`: weak fairness of the running task and of the timer, which is
  armed again by every FIQ; strong fairness of a holder's release, since a holder
  may yield in between. `Quantum = 4` says that a time slice covers one turn of
  `lock_take`. `NoStarvation` is about callers of `lock_take`; `lock_take_spin`
  ignores the hand-off and can starve others.
* `Sched`: weak fairness of the idle loop and of the loop of `event_fire`, strong
  fairness of the timer because its FIQ stays pending while interrupts are off.
  IRQs and creations are finite: each moves the head past tasks whose turn it
  was, and an endless supply of either starves a task (two tasks created
  alternately without end are such a behaviour). `RunnableRuns` is therefore a
  statement about the time after the last of them.
* `Uart`: `SwitchIn` from `RunnableRuns`; pending IRQs are taken; the handler
  makes progress between preemptions (strong fairness).
* `Console`: both tasks run (`RunnableRuns`), and whoever wants a lock that is free
  again and again gets it (`NoStarvation`): strong fairness of `QueueLock`,
  `SetBlocking`, `Fetch` and `ReadLock`. `BusySpec` adds that somebody keeps
  typing and fetching: without further input the lost wake-up of `_read` leaves a
  line in the buffer, and without a fetch a blocking writer waits by design.
* `Usb`: the handler task and the shell run, a command returns, and the host goes
  on with what it began (weak fairness; for the handler the condition under which
  it can move is written out). `ControlEnds` has two named exceptions: `ExactFit`,
  in which driver and host each wait for the other after an answer of whole
  packets, and `MissedEnd`, the lost event of `console_usb_wait`.
* `Lifetime`: the shell goes on with `spawn_cmd`, and exited tasks are reaped
  (`ExitedReaped`). A user task need not exit.

## 4. What is proved

Each `THEOREM` is of the form `Spec => []P`, or an action property, for every value
of the constants that the module's named `ASSUME`s admit. Where a property is not
inductive, the invariant that is has been checked with TLC first.

`PhysMemProofs` (`PhysAssumption`): `AllocatorType`, `FreeListWellFormed`,
`NoPageIsLost`, `FreeCounterExact`, `WiredCounterExact`, `ReferencesExact`,
`NoConsistencyPanic`, `AllocatedPageIsFresh`, `PagesAreGivenBack`, for every number of
pages, every memory layout and every number of entries per page. `PagesAreGivenBack`
is the action property `FreedAtLastUse`: every step frees exactly the pages whose last
reference it takes away, also between two entries of a mapping. A list of free pages says nothing about a
page in the middle of `alloc_phys`, so the inductive invariant carries the set of
unlinked pages (`MemOK(mem, Unlinked)`) and, in `OpOK`, what each loop knows about
the pages it has not reached. `CountBound` keeps an ordinary count away from
`PAGE_WIRED`, and `RefsExact` is what excludes dropping a free page.

Links that are inverse to each other (`Linked`) would also admit a free list with a
separate cycle, whose pages no walk from the head meets. `Ordered` excludes it: some
function ranks the free pages so that it grows along `next`. Pushing a page in front
ranks it below all others (`PushOrdered`), and taking one out keeps the ranks of the
rest (`StaysOrdered`). `NoPageIsLost` then follows without induction on the walk: a
page that the walk misses has a predecessor of lower rank that it misses too, and the
one of least rank has none (`WalkCovers`). The counters are cardinalities, kept exact
by each single step of the loops.

`YieldLockProofs`: `WordCorrect`, `HolderIsRecorded`, `Exclusion`, `Refinement`, for
every set of tasks, every scheduling order, any mix of the two lock functions and
every quantum, preemption after every single step included. The second read, in
the section with interrupts disabled, decides, whatever happened since the first.

`SchedProofs` (`SchedAssumption`): `RingAlwaysOK`, `CountsAreExact`,
`NothingDangles`, `QueuesStayExact`, `HandlersStayArmed`, `NoOtherPanic`, for every
set of tasks, events and IRQs, and both kinds of controller. None of them is
inductive alone; they hold together, as `IInv`:

* `GoodRing`: the links are inverse to each other and no proper part of the ring is
  closed under `next`. This form of "one ring" needs no walk and no induction:
  inserting a task and taking one out each have a lemma (`InsertRing`,
  `RemoveRing`).
* `Counts`: references are counted by who has them. `Lives`: a task that is
  runnable, waiting, exiting or a handler still has its own reference. So the
  release of another one never frees it, and never the running task.
* `Vectors`: a handler serves one IRQ, and while it is active the IRQ is masked. So
  an IRQ never links a handler that waits, which is what
* `Queues` needs: a queue has exactly the waiters of its event, seen by `event_fire`
  from its cursor on. Waiting pushes in front (`QueuePush`) and firing pops
  (`QueuePop`).

`UartProofs`: `NeverBogus`, `AlwaysExitsLinked`, and `AppleRearmed` (a character in
the FIFO has the handler linked or its IRQ pending, which on the GIC is false). The
invariant adds where in `uart_main` a character is held and when the mask is set.

`ConsoleProofs` (`ConsoleAssumption`): `InputIsAQueue`, `OutputIsKept`,
`NoTaskWaitsForItself`, for every line, buffer size, read length and set of fetch
lengths (`FetchAssumption`). `OutputIsKept` claims all of the output only for a host
that took the whole buffer each time. The invariant is
`Control` (who holds which lock at which step), `Input` (the buffer against the
log), `Output` (positions against characters) and `Wait` (the modes under which a
writer waits).

`LifetimeProofs` (`LifetimeAssumption`): `RefsAreExact`, `TlbNeverStale`,
`StacksAreExclusive` and `PagesAreExact`, for every number of processes, pages and
addresses, and for the ASIDs of one byte of `asid_table` (at most 7, as ASID 0 is the
kernel's). The references need to know where in `spawn_cmd` the shell is
(`Places`) and what a process that it is freeing still holds (`DyingRefs`). The TLB
needs `StaleByte`: what the interrupted `asid_free` read is never less than the table,
so its store can bring an ASID back (the leak) but never take one away from its owner.
The stacks need `StackInv`: the list that recycles them has no repetition, and none of
its stacks is a task's. The pages need `PageInv`: each space maps what its regions
say (`SpaceOK`), the page that `spawn_cmd` holds between allocating and mapping it is
no one else's (`ShellPage`), no page belongs to two owners (`PagesApart`), and every
page that is not free has one (`PagesCovered`).

`UsbProofs` (`UsbAssumption`, `LinesAssumption`, `RequestsAssumption`, and `~Unruly`: the host finishes
what it begins): `DriverNeverBugs`, `UploadFlagsAgree`, `UploadStaysInBuffer`,
`AnswersAreExact` and `CommandsSeeUploads`, for every size of packets and buffers,
every set of requests and every length of an upload. With an unruly host
the system does stop, which is the run `usb_setup_abort`. The proof has three layers:

* What the driver's functions compute where none of their checks strikes (`Send`,
  `BulkRecv`, `TransferDma`, ...). This is where whole packets matter: `Room` (a
  packet behind whole packets fits into the DMA buffer) and `BulkOf` (what `DOEPTSIZ`
  is given is whole packets, within the transfer and below its limit).
* The invariant `IInv`. `Phase` lists the 17 places where a control transfer can be,
  each with the states of driver, controller and host, among them the ones where the
  driver is behind: the host has taken the packet of STATUS IN, or begun another
  transfer, before the handler task looks. `Daint` is what the handler has read in
  this pass and not served; EP 0 IN is served before what came later on EP 0 OUT.
  `BulkInv` has the place in an upload twice, for the hardware and for the host, and
  says that `ep2_out_interrupt` will see the end when the host believes it was sent
  (`Over`), an empty packet behind whole ones included (`ShortSeen`). `Meet` relates
  the pipes: an upload is granted by the packet of STATUS IN, and its interrupt is
  served in the pass that takes the SETUP of the command that uses it
  (`CommandAfterUpload`), which is what `CommandsSeeUploads` needs. That theorem is
  about lines written in waiting mode to an idle shell. `Commands` says that such a
  write keeps the control pipe until the command is over, so no upload, discard or
  change of mode gets in; without the mode the write returns at once, and a discard
  may change the count under the command.
* One lemma per action, with the parts that it leaves alone taken from `PhaseKept`
  and `BulkKept`.

Only model-checked: liveness and everything under fairness (`ControlEnds` and
`UploadEnds` of `Usb` among them); the recursive walks of `DeviceTrees` and the tables, over bounded inputs, since what a recursive definition
computes for every input is an induction over data.

## 5. Findings

* `uart_main` on the GIC can strand a character (`pl011.c:93`): an edge that comes
  between the last `serial_getc` and `task_unlink` is acknowledged while the
  handler is still linked.
* `usb_write_stdin` (`usbloader.c:56`) can wait for an event that is already over.
  `usb_init` is not called in this fork's `shell/main.c`, so this and the next
  finding concern builds that enable USB.
* A SETUP packet during a DATA OUT stage (`synopsys_otg.c:859`) reaches `BUG`
  `recv 3`, where the comments promise that the old data is discarded.
* `asid_free` (`mm.c:557`) changes a byte of `asid_table` with interrupts enabled;
  the scheduler may free an ASID of the same byte in between, and that ASID stays
  allocated.

Remarks without a run: `mark_phys_wired`, which nothing calls, leaves a page on the
free list. `phys_dereference` decrements a wired page although `phys_reference`
leaves it alone; the kernel maps no wired memory this way. A received byte `0xff`
compares equal to `ERROR_NO_PENDING_CHAR`, as `char` is signed on this target.
`vm_create` references its parent although a comment says that it consumes the
reference; `task_spawn`, which would matter, is unused. `jit_alloc` records the
size 0, so that `jit_free` leaves the pages mapped.

## 6. Not modelled

Vendored code (`lib/`, `include/`, `apple-include/`, the newlib tree), which is most
of the repository's lines; assembly except where a module maps it; hardware
bring-up sequences; formatting and the text of messages. Of the kernel's own
parts: the boot path, straight-line code before there is a second task; the heap,
which is newlib's; `fw_cfg`, the frame buffer, and the AES, TZ, MIPI and GPIO
drivers, register programming without state of their own; the XNU and Linux boot,
which patch images at the level of bytes; relocation of Mach-O modules, likewise.
`PROJECT.json` has the reason for each.

## 7. Plan

Done: the core (`PhysMem`, `YieldLock`, `Sched`, `Uart`, `Console`), the output
buffer, USB with its loader, lifetimes with ASIDs and the TLB, the tables and device
trees, and the proofs of section 4. What is left, in order of value:

1. Proofs: every invariant and every action property of the runs has its theorem;
   what the tables of `ShellTables` promise between two calls is next.
2. `linear_kvm_alloc` and `jit_alloc`/`jit_free` beside the address spaces of
   `Lifetime`; the list of tasks and `task_list`.
3. IRQ handlers that do not preempt (`TASK_IRQ_HANDLER` alone), which run on the
   interrupted task's time; no driver of this build registers one.
4. USB: the hand-off mode of `usb_main`, and EP 1 IN when it has a user.
