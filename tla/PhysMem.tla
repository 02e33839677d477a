------------------------------- MODULE PhysMem -------------------------------
(***************************************************************************)
(* The physical page allocator of src/src/kernel/mm.c: the table of page   *)
(* reference counts (ppage_list), the free list threaded through the free  *)
(* pages themselves (pa_head, word 0 = next, word 1 = prev), the counters  *)
(* free_pages and wired_pages, and the operations on them.                 *)
(*                                                                         *)
(* Every operation runs with interrupts disabled, so it is not interleaved *)
(* with another one.  The operations on one page are operators on the      *)
(* record mem; an operation on a range is a loop of one step per page,     *)
(* and while a loop is running (op.kind # "idle") no other action is       *)
(* enabled.                                                                *)
(*                                                                         *)
(* Pages are numbered 1..NPages and 0 is the null address.                 *)
(***************************************************************************)
EXTENDS Integers, FiniteSets

CONSTANTS
  NPages,       \* ppages
  PAGE_WIRED,   \* the all-ones reference count (0xffffff in the code)
  MaxRefs,      \* bound: no reference is added above this count
  MaxHeld,      \* bound: callers take no reference beyond this many
  StaticTail,   \* <<lo, hi>>: the pages alloc_init frees above the static region
  Heap,         \* <<lo, hi>>: the pages alloc_init frees as heap
  MaxAlloc,     \* bound: pages of one alloc_phys
  VAs,          \* virtual pages of a ttbr1 address space
  Entries       \* page-table entries of one page: 1 (16K granule) or 4 (4K granule)

PAGE_FREE == 0
NULL == 0
Junk == -1
Pages == 1..NPages

\* lowlevel_setup: a page of the allocator is 16K whatever the granule, so on a
\* 4K granule four entries of the last level map it.
Ptes == VAs \X (1..Entries)

\* A range <<lo, hi>> stands for the pages lo..hi-1; it may be empty.
IsRange(r) == /\ r[1] \in 1..(NPages + 1)
              /\ r[2] \in r[1]..(NPages + 1)

ASSUME PhysAssumption ==
  /\ NPages \in Nat \ {0}
  /\ PAGE_WIRED \in Nat
  /\ MaxRefs \in Nat /\ MaxHeld \in Nat
  /\ 1 < MaxRefs
  /\ MaxRefs + 1 < PAGE_WIRED
  /\ IsRange(StaticTail)
  /\ IsRange(Heap)
  /\ MaxAlloc \in Nat
  /\ IsFiniteSet(VAs)
  /\ Entries \in Nat \ {0}
  /\ Entries <= MaxRefs

VARIABLES
  mem,    \* ppage_list, the link words of every page, pa_head and the counters
  op,     \* the range loop that is running, or "idle"
  held,   \* ghost: the references on each page that callers still have to give back
  pte,    \* the page that every page-table entry maps (0: none)
  call,   \* the running vm_space_map_page_physical_prot: its virtual page, its
          \* page (0: unmap) and the entry it writes next
  panic   \* "none", or the panic that halted the machine

vars == <<mem, op, held, pte, call, panic>>

------------------------------------------------------------------------------
(* Operators on one page.                                                  *)

\* Mutation: the old head is lost.
PhysPageWasFreed_LosesHead(m, p) ==
  [m EXCEPT !.prev[p] = NULL, !.next[p] = NULL, !.pa_head = p, !.free_pages = @ + 1]

\* phys_page_was_freed: push page p on the free list.
PhysPageWasFreed(m, p) ==
  [m EXCEPT
     !.prev = [q \in Pages |-> IF q = p THEN NULL
                               ELSE IF q = m.pa_head THEN p ELSE m.prev[q]],
     !.next[p] = m.pa_head,
     !.pa_head = p,
     !.free_pages = @ + 1]

\* Mutation: the free page counter is forgotten.
PhysReference_NoCount(m, p) ==
  IF m.ppage_list[p] = PAGE_WIRED THEN m ELSE [m EXCEPT !.ppage_list[p] = @ + 1]

\* One iteration of phys_reference: wired pages are not counted.
PhysReference(m, p) ==
  IF m.ppage_list[p] = PAGE_WIRED THEN m
  ELSE IF m.ppage_list[p] = PAGE_FREE
       THEN [m EXCEPT !.ppage_list[p] = @ + 1, !.free_pages = @ - 1]
       ELSE [m EXCEPT !.ppage_list[p] = @ + 1]

\* Mutation: the page is freed one reference too early.
PhysDereference_Early(m, p) ==
  LET m1 == [m EXCEPT !.ppage_list[p] = @ - 1]
  IN  IF m1.ppage_list[p] = PAGE_FREE + 1 THEN PhysPageWasFreed(m1, p) ELSE m1

\* One iteration of phys_dereference on a page that is not free.  A wired
\* page is decremented like any other.
PhysDereference(m, p) ==
  LET m1 == [m EXCEPT !.ppage_list[p] = @ - 1]
  IN  IF m1.ppage_list[p] = PAGE_FREE THEN PhysPageWasFreed(m1, p) ELSE m1

\* Mutation: the wired page counter is forgotten.
PhysForceFree_KeepsWired(m, p) ==
  LET m1 == IF m.ppage_list[p] # PAGE_FREE THEN PhysPageWasFreed(m, p) ELSE m
  IN  [m1 EXCEPT !.ppage_list[p] = PAGE_FREE]

\* One iteration of phys_force_free.
PhysForceFree(m, p) ==
  LET m1 == [m EXCEPT !.wired_pages =
                        IF m.ppage_list[p] = PAGE_WIRED THEN @ - 1 ELSE @]
      m2 == IF m.ppage_list[p] # PAGE_FREE THEN PhysPageWasFreed(m1, p) ELSE m1
  IN  [m2 EXCEPT !.ppage_list[p] = PAGE_FREE]

\* Mutation: the back link of the next page is not repaired.
PhysUnlink_NoBackLink(m, p) ==
  [m EXCEPT
     !.next = [q \in Pages |-> IF q = m.prev[p] THEN m.next[p] ELSE m.next[q]],
     !.pa_head = IF m.prev[p] = NULL THEN m.next[p] ELSE @]

\* One iteration of phys_unlink_contiguous: take p out of the free list.
PhysUnlink(m, p) ==
  LET nx == m.next[p]
      pv == m.prev[p]
  IN  [m EXCEPT
         !.prev = [q \in Pages |-> IF q = nx THEN pv ELSE m.prev[q]],
         !.next = [q \in Pages |-> IF q = pv THEN nx ELSE m.next[q]],
         !.pa_head = IF pv = NULL THEN nx ELSE @]

\* Mutation: the new head still points back to the page handed out.
PpagePop_KeepsPrev(m) == [m EXCEPT !.pa_head = m.next[m.pa_head], !.next[m.pa_head] = NULL]

\* The body of ppage_alloc: pop the head, whose words are then cleared.
PpagePop(m) ==
  LET h  == m.pa_head
      nx == m.next[h]
  IN  [m EXCEPT
         !.pa_head = nx,
         !.prev = [q \in Pages |-> IF q = nx \/ q = h THEN NULL ELSE m.prev[q]],
         !.next[h] = NULL]

\* A page that is handed out belongs to its owner, who writes to it: its first
\* words are not links any more.
HandedOut(m, p) == [m EXCEPT !.next[p] = Junk, !.prev[p] = Junk]

------------------------------------------------------------------------------
Idle == [kind |-> "idle", i |-> 1, lo |-> 1, hi |-> 1]
NoCall == [va |-> NULL, page |-> NULL, i |-> 1]

Init ==
  /\ mem = [ppage_list |-> [p \in Pages |-> PAGE_WIRED],
            next |-> [p \in Pages |-> Junk],
            prev |-> [p \in Pages |-> Junk],
            pa_head |-> NULL, free_pages |-> 0, wired_pages |-> NPages]
  /\ op = [kind |-> "init1", i |-> StaticTail[1],
           lo |-> StaticTail[1], hi |-> StaticTail[2]]
  /\ held = [p \in Pages |-> 0]
  /\ pte = [e \in Ptes |-> NULL]
  /\ call = NoCall
  /\ panic = "none"

Running(kind) == panic = "none" /\ op.kind = kind
StartLoop(kind, lo, hi) == op' = [kind |-> kind, i |-> lo, lo |-> lo, hi |-> hi]
Advance == op' = [op EXCEPT !.i = @ + 1]
Panic(reason) == panic' = reason /\ UNCHANGED <<mem, op, held, pte, call>>

(* alloc_init: every page is wired, then two ranges are forced free.       *)
ForceStep ==
  /\ \E k \in {"init1", "init2", "force"} : Running(k)
  /\ op.i < op.hi
  /\ mem' = PhysForceFree(mem, op.i)
  /\ Advance
  /\ UNCHANGED <<held, pte, call, panic>>

ForceDone ==
  /\ \E k \in {"init1", "init2", "force"} : Running(k)
  /\ op.i = op.hi
  /\ IF op.kind = "init1" THEN StartLoop("init2", Heap[1], Heap[2]) ELSE op' = Idle
  /\ UNCHANGED <<mem, held, pte, call, panic>>

(* phys_force_free as autoboot calls it: give back a wired block.          *)
ForceFree(lo, hi) ==
  /\ Running("idle")
  /\ \A p \in lo..(hi - 1) : mem.ppage_list[p] = PAGE_WIRED /\ held[p] = 0
  /\ StartLoop("force", lo, hi)
  /\ UNCHANGED <<mem, held, pte, call, panic>>

(* ppage_alloc, also the one-page path of alloc_phys.  A next word that an  *)
(* owner has overwritten is followed as an address: the access faults.      *)
PpageAlloc ==
  /\ Running("idle")
  /\ IF mem.pa_head = NULL
     THEN Panic("ppage_alloc: OOM")
     ELSE IF mem.next[mem.pa_head] = Junk
     THEN Panic("wild free list")
     ELSE /\ mem' = HandedOut(PhysReference(PpagePop(mem), mem.pa_head), mem.pa_head)
          /\ held' = [held EXCEPT ![mem.pa_head] = @ + 1]
          /\ UNCHANGED <<op, pte, call, panic>>

(* alloc_phys of n pages, n > 1: the first run of n free pages is taken    *)
(* off the free list, then referenced.                                     *)
FreeRun(lo, n) == /\ lo + n - 1 <= NPages
                  /\ \A p \in lo..(lo + n - 1) : mem.ppage_list[p] = PAGE_FREE

AllocPhys(n) ==
  /\ Running("idle")
  /\ IF \A lo \in Pages : ~FreeRun(lo, n)
     THEN Panic("alloc_phys: OOM")
     ELSE \E lo \in Pages :
            /\ FreeRun(lo, n)
            /\ \A q \in 1..(lo - 1) : ~FreeRun(q, n)
            /\ StartLoop("unlink", lo, lo + n)
            /\ UNCHANGED <<mem, held, pte, call, panic>>

UnlinkStep ==
  /\ Running("unlink")
  /\ op.i < op.hi
  /\ LET touched == {op.i, mem.next[op.i], mem.prev[op.i]} \ {NULL}
     IN  IF Junk \in touched THEN Panic("wild free list")
         ELSE IF \E q \in touched : mem.ppage_list[q] # PAGE_FREE
         THEN Panic("phys_unlink_contiguous: not free")
         ELSE /\ mem' = PhysUnlink(mem, op.i)
              /\ Advance
              /\ UNCHANGED <<held, pte, call, panic>>

UnlinkDone ==
  /\ Running("unlink")
  /\ op.i = op.hi
  /\ StartLoop("ref", op.lo, op.hi)
  /\ UNCHANGED <<mem, held, pte, call, panic>>

RefStep ==
  /\ Running("ref")
  /\ op.i < op.hi
  /\ mem' = HandedOut(PhysReference(mem, op.i), op.i)
  /\ held' = [held EXCEPT ![op.i] = @ + 1]
  /\ Advance
  /\ UNCHANGED <<pte, call, panic>>

RefDone ==
  /\ Running("ref")
  /\ op.i = op.hi
  /\ op' = Idle
  /\ UNCHANGED <<mem, held, pte, call, panic>>

(* phys_reference by a caller that already owns a reference.               *)
Reference(p) ==
  /\ Running("idle")
  /\ held[p] > 0
  /\ mem.ppage_list[p] < MaxRefs /\ held[p] < MaxHeld
  /\ StartLoop("ref", p, p + 1)
  /\ UNCHANGED <<mem, held, pte, call, panic>>

(* free_phys (phys_dereference) by the owner of the pages lo..hi-1.        *)
FreePhys(lo, hi) ==
  /\ Running("idle")
  /\ \A p \in lo..(hi - 1) : held[p] > 0
  /\ StartLoop("deref", lo, hi)
  /\ UNCHANGED <<mem, held, pte, call, panic>>

DerefStep ==
  /\ Running("deref")
  /\ op.i < op.hi
  /\ IF mem.ppage_list[op.i] = PAGE_FREE
     THEN Panic("phys_dereference: free page")
     ELSE /\ mem' = PhysDereference(mem, op.i)
          /\ held' = [held EXCEPT ![op.i] = @ - 1]
          /\ Advance
          /\ UNCHANGED <<pte, call, panic>>

DerefDone ==
  /\ Running("deref")
  /\ op.i = op.hi
  /\ op' = Idle
  /\ UNCHANGED <<mem, held, pte, call, panic>>

\* Mutations: the new entry takes no reference; the page of the old entry is
\* not given back.
MapEntry_NoReference(m, old, p) == IF old = NULL THEN m ELSE PhysDereference(m, old)
MapEntry_KeepsOld(m, old, p) == IF p = NULL THEN m ELSE PhysReference(m, p)

(* One entry of map_range_map on a ttbr1 address: the new page is           *)
(* referenced, also when it is not the first entry of this page, and then   *)
(* the page of the old entry is dereferenced.                               *)
MapEntry(m, old, p) ==
  LET m1 == IF p = NULL THEN m ELSE PhysReference(m, p)
  IN  IF old = NULL THEN m1 ELSE PhysDereference(m1, old)

(* vm_space_map_page_physical_prot maps page p at v, or clears v for        *)
(* physical 0.  The entries are a loop of one step each.                    *)
MapPage(v, p) ==
  /\ Running("idle")
  /\ p # NULL => held[p] > 0 /\ mem.ppage_list[p] + Entries <= MaxRefs + 1
  /\ StartLoop("map", 1, 1)
  /\ call' = [va |-> v, page |-> p, i |-> 1]
  /\ UNCHANGED <<mem, held, pte, panic>>

MapStep ==
  /\ Running("map")
  /\ call.i <= Entries
  /\ LET e   == <<call.va, call.i>>
         old == pte[e]
     IN  IF old # NULL /\ old # call.page /\ mem.ppage_list[old] = PAGE_FREE
         THEN Panic("phys_dereference: free page")
         ELSE /\ mem' = MapEntry(mem, old, call.page)
              /\ pte' = [pte EXCEPT ![e] = call.page]
              /\ call' = [call EXCEPT !.i = @ + 1]
              /\ UNCHANGED <<op, held, panic>>

\* Mutation: the reference of the caller is not consumed.
MapDone_NoConsume ==
  /\ Running("map")
  /\ call.i = Entries + 1
  /\ held' = IF call.page = NULL THEN held ELSE [held EXCEPT ![call.page] = @ - 1]
  /\ op' = Idle
  /\ call' = NoCall
  /\ UNCHANGED <<mem, pte, panic>>

(* The reference of the caller is consumed, once for all the entries;       *)
(* phys_dereference of physical 0 returns at once.                          *)
MapDone ==
  /\ Running("map")
  /\ call.i = Entries + 1
  /\ IF call.page # NULL /\ mem.ppage_list[call.page] = PAGE_FREE
     THEN Panic("phys_dereference: free page")
     ELSE /\ mem' = IF call.page = NULL THEN mem ELSE PhysDereference(mem, call.page)
          /\ held' = IF call.page = NULL THEN held ELSE [held EXCEPT ![call.page] = @ - 1]
          /\ op' = Idle
          /\ call' = NoCall
          /\ UNCHANGED <<pte, panic>>

Next ==
  \/ ForceStep \/ ForceDone
  \/ PpageAlloc
  \/ \E n \in 2..MaxAlloc : AllocPhys(n)
  \/ UnlinkStep \/ UnlinkDone \/ RefStep \/ RefDone \/ DerefStep \/ DerefDone
  \/ \E lo \in Pages, hi \in 2..(NPages + 1) :
       lo < hi /\ (ForceFree(lo, hi) \/ FreePhys(lo, hi))
  \/ \E p \in Pages : Reference(p)
  \/ \E v \in VAs, p \in Pages \cup {NULL} : MapPage(v, p)
  \/ MapStep \/ MapDone

Spec == Init /\ [][Next]_vars

------------------------------------------------------------------------------
(* Properties.                                                             *)

FreePages(m) == {p \in Pages : m.ppage_list[p] = PAGE_FREE}
WiredPages(m) == {p \in Pages : m.ppage_list[p] = PAGE_WIRED}
Mappings(p) == {e \in Ptes : pte[e] = p}

\* The pages of the range that alloc_phys has taken off the list and not yet
\* referenced.
Unlinked ==
  CASE op.kind = "unlink" -> op.lo..(op.i - 1)
    [] op.kind = "ref"    -> op.i..(op.hi - 1)
    [] OTHER              -> {}

Kinds == {"idle", "init1", "init2", "force", "unlink", "ref", "deref", "map"}

MemType(m) ==
  /\ m \in [ppage_list : [Pages -> 0..PAGE_WIRED],
             next : [Pages -> Pages \cup {NULL, Junk}],
             prev : [Pages -> Pages \cup {NULL, Junk}],
             pa_head : Pages \cup {NULL},
             free_pages : Int, wired_pages : Int]

\* Type invariant of the allocator state of mm.c.
TypeOK ==
  /\ MemType(mem)
  /\ op \in [kind : Kinds, i : 1..(NPages + 1), lo : 1..(NPages + 1), hi : 1..(NPages + 1)]
  /\ op.lo <= op.i /\ op.i <= op.hi
  /\ held \in [Pages -> Nat]
  /\ pte \in [Ptes -> Pages \cup {NULL}]
  /\ call \in [va : VAs \cup {NULL}, page : Pages \cup {NULL}, i : 1..(Entries + 1)]

\* L is a well-formed doubly linked list that starts at pa_head.
Linked(m, L) ==
  /\ m.pa_head \in L \cup {NULL}
  /\ \A p \in L :
       /\ m.next[p] \in L \cup {NULL}
       /\ m.prev[p] \in L \cup {NULL}
       /\ m.next[p] # NULL => m.prev[m.next[p]] = p
       /\ m.prev[p] # NULL => m.next[m.prev[p]] = p
       /\ m.prev[p] = NULL <=> p = m.pa_head

\* Safety: the pages on the free list are exactly pages whose count is
\* PAGE_FREE, and their next and prev words agree, also in the middle of
\* alloc_phys; the panics of phys_unlink_contiguous assert parts of this.
FreeListLinked == Linked(mem, FreePages(mem) \ Unlinked)

\* Safety: walking next from pa_head visits every free page, so none is lost
\* to the allocator, and the walk ends.
Walk[n \in 0..NPages] ==
  IF n = 0 THEN mem.pa_head
  ELSE IF Walk[n - 1] = NULL THEN NULL ELSE mem.next[Walk[n - 1]]
FreeListComplete ==
  /\ {Walk[n] : n \in 0..NPages} \ {NULL} = FreePages(mem) \ Unlinked
  /\ Walk[NPages] = NULL

\* Safety: free_pages is the number of pages with count PAGE_FREE, whatever
\* the mix of references and forced frees (mm.c keeps the counter by hand).
FreePagesExact == mem.free_pages = Cardinality(FreePages(mem))

\* Safety: wired_pages is the number of pages with count PAGE_WIRED.
WiredPagesExact == mem.wired_pages = Cardinality(WiredPages(mem))

\* Safety: the count of a page that is not wired is the number of references
\* its owners still have to give back plus the number of page-table entries
\* that map it (up to four for one virtual page on a 4K granule), also between
\* two entries of one map_range_map; nobody holds a wired page.
RefsExact ==
  \A p \in Pages :
    held[p] + Cardinality(Mappings(p)) =
      IF mem.ppage_list[p] = PAGE_WIRED THEN 0 ELSE mem.ppage_list[p]

\* Safety: the only panics of the allocator are the two out-of-memory ones;
\* the consistency panics of phys_unlink_contiguous and phys_dereference
\* cannot happen when every caller gives back only what it was given.
OnlyOOMPanics == panic \in {"none", "ppage_alloc: OOM", "alloc_phys: OOM"}

\* Action property: the page that ppage_alloc hands out had no owner and no
\* mapping.
AllocFresh ==
  [][PpageAlloc /\ mem.pa_head # NULL =>
       /\ held[mem.pa_head] = 0
       /\ Mappings(mem.pa_head) = {}]_vars

\* Action property: a page in use goes back to the free list in exactly the
\* step that takes away its last use.  "consume reference (map_range_map will
\* take a reference if successful)" (mm.c:508): the reference of the caller is
\* consumed once while every entry of map_range_map takes one of its own, and
\* unmapping gives one back per entry, so a page mapped once and unmapped is
\* free again, and not before its last entry is cleared, on either granule.
FreedAtLastUse ==
  [][\A p \in Pages :
       mem.ppage_list[p] \notin {PAGE_FREE, PAGE_WIRED} =>
         (mem'.ppage_list[p] = PAGE_FREE <=> held'[p] = 0 /\ Mappings(p)' = {})]_vars

==============================================================================
