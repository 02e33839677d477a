---------------------------- MODULE PhysMemProofs ----------------------------
(***************************************************************************)
(* Proofs about the physical page allocator (module PhysMem), for every    *)
(* number of pages, every layout of the regions that alloc_init frees,     *)
(* every set of virtual pages and every number of entries per page (one on *)
(* a 16K granule, four on a 4K granule).  Spec does not include            *)
(* mark_phys_wired, which only modules could call and which breaks the     *)
(* free list.                                                              *)
(***************************************************************************)
EXTENDS PhysMem, ListLemmas, FiniteSetTheorems, TLAPS

USE DEF PAGE_FREE, NULL, Junk

\* Both counters of mm.c are exact.
CountsOK(m) ==
  /\ m.free_pages = Cardinality(FreePages(m))
  /\ m.wired_pages = Cardinality(WiredPages(m))

\* The pages of L can be ranked so that next always leads to a lower rank:
\* following it from a page never leads back to that page.
Ordered(m, L) ==
  \E b \in Nat, r \in [Pages -> Nat] :
    \A p \in L : r[p] <= b /\ (m.next[p] # NULL => r[m.next[p]] < r[p])

\* L is a doubly linked list without a cycle that starts at pa_head.
Chain(m, L) == Linked(m, L) /\ Ordered(m, L)

\* What every operation on one page keeps: U is the set of free pages that
\* are not on the free list.
MemOK(m, U) ==
  /\ MemType(m)
  /\ Chain(m, FreePages(m) \ U)
  /\ CountsOK(m)

------------------------------------------------------------------------------
(* Lists.                                                                  *)

\* Pushing a page that is not on the list (phys_page_was_freed) keeps the
\* list well formed.
LEMMA PushLinked ==
  ASSUME NEW m, MemType(m), NEW L \in SUBSET Pages, NEW p \in Pages \ L,
         Linked(m, L)
  PROVE  Linked(PhysPageWasFreed(m, p), L \cup {p})
<1> DEFINE n == PhysPageWasFreed(m, p)
<1>1. /\ n.pa_head = p
      /\ n.next = [m.next EXCEPT ![p] = m.pa_head]
      /\ n.prev = [q \in Pages |-> IF q = p THEN 0
                                   ELSE IF q = m.pa_head THEN p ELSE m.prev[q]]
  BY DEF PhysPageWasFreed, MemType
<1>2. \A q \in Pages : q \in Int /\ q # 0
  BY PhysAssumption DEF Pages
<1>3. m.next \in [Pages -> Pages \cup {0, -1}]
  BY DEF MemType
<1> HIDE DEF n
<1>4. Linked(n, L \cup {p})
  BY <1>1, <1>2, <1>3 DEF Linked
<1> QED
  BY <1>4 DEF n

\* Taking a page out of the list (one iteration of phys_unlink_contiguous).
LEMMA UnlinkLinked ==
  ASSUME NEW m, MemType(m), NEW L \in SUBSET Pages, NEW p \in L, Linked(m, L)
  PROVE  Linked(PhysUnlink(m, p), L \ {p})
<1> DEFINE n == PhysUnlink(m, p)
<1>1. /\ n.pa_head = IF m.prev[p] = 0 THEN m.next[p] ELSE m.pa_head
      /\ n.next = [q \in Pages |-> IF q = m.prev[p] THEN m.next[p] ELSE m.next[q]]
      /\ n.prev = [q \in Pages |-> IF q = m.next[p] THEN m.prev[p] ELSE m.prev[q]]
  BY DEF PhysUnlink, MemType
<1>2. \A q \in Pages : q \in Int /\ q # 0
  BY PhysAssumption DEF Pages
<1> HIDE DEF n
<1>4. Linked(n, L \ {p})
  BY <1>1, <1>2 DEF Linked
<1> QED
  BY <1>4 DEF n

\* Popping the head (ppage_alloc).
LEMMA PopLinked ==
  ASSUME NEW m, MemType(m), NEW L \in SUBSET Pages, Linked(m, L),
         m.pa_head # 0
  PROVE  Linked(PpagePop(m), L \ {m.pa_head})
<1> DEFINE n == PpagePop(m)
           h == m.pa_head
<1>1. /\ n.pa_head = m.next[h]
      /\ n.next = [m.next EXCEPT ![h] = 0]
      /\ n.prev = [q \in Pages |-> IF q = m.next[h] \/ q = h THEN 0 ELSE m.prev[q]]
  BY DEF PpagePop, MemType
<1>2. \A q \in Pages : q \in Int /\ q # 0
  BY PhysAssumption DEF Pages
<1>3. h \in L /\ m.next \in [Pages -> Pages \cup {0, -1}] /\ m.prev[h] = 0
  BY DEF Linked, MemType
<1> HIDE DEF n, h
<1>4. Linked(n, L \ {h})
  <2>0. m.pa_head = h BY DEF h
  <2> QED BY <1>1, <1>2, <1>3, <2>0 DEF Linked
<1> QED
  BY <1>4 DEF n, h

\* The links of a page that is not on the list do not matter.
LEMMA HandedOutLinked ==
  ASSUME NEW m, MemType(m), NEW L \in SUBSET Pages, NEW p \in Pages \ L,
         Linked(m, L)
  PROVE  Linked(HandedOut(m, p), L)
<1> DEFINE n == HandedOut(m, p)
<1>1. /\ n.pa_head = m.pa_head
      /\ n.next = [m.next EXCEPT ![p] = -1]
      /\ n.prev = [m.prev EXCEPT ![p] = -1]
  BY DEF HandedOut, MemType
<1>2. \A q \in Pages : q \in Int /\ q # 0
  BY PhysAssumption DEF Pages
<1>3. /\ m.next \in [Pages -> Pages \cup {0, -1}]
      /\ m.prev \in [Pages -> Pages \cup {0, -1}]
  BY DEF MemType
<1> HIDE DEF n
<1>4. Linked(n, L)
  BY <1>1, <1>2, <1>3 DEF Linked
<1> QED
  BY <1>4 DEF n

\* Only the links and the head matter.
LEMMA SameLinks ==
  ASSUME NEW m, NEW n, NEW L, Linked(m, L),
         n.pa_head = m.pa_head, n.next = m.next, n.prev = m.prev
  PROVE  Linked(n, L)
BY DEF Linked

\* The page that is pushed is ranked above the old head.
LEMMA PushOrdered ==
  ASSUME NEW m, MemType(m), NEW L \in SUBSET Pages, NEW p \in Pages \ L,
         Linked(m, L), Ordered(m, L)
  PROVE  Ordered(PhysPageWasFreed(m, p), L \cup {p})
<1> DEFINE n == PhysPageWasFreed(m, p)
<1>1. n.next = [m.next EXCEPT ![p] = m.pa_head]
  BY DEF PhysPageWasFreed, MemType
<1>2. m.next \in [Pages -> Pages \cup {0, -1}] /\ 0 \notin Pages
  BY PhysAssumption DEF MemType, Pages
<1> HIDE DEF n
<1>3. PICK b \in Nat, r \in [Pages -> Nat] :
        \A q \in L : r[q] <= b /\ (m.next[q] # 0 => r[m.next[q]] < r[q])
  BY DEF Ordered
<1> DEFINE t == [r EXCEPT ![p] = b + 1]
<1>4. /\ t \in [Pages -> Nat] /\ t[p] = b + 1
      /\ \A q \in L : t[q] = r[q] /\ t[q] \in Nat
  OBVIOUS
<1>5. /\ n.next[p] = m.pa_head
      /\ \A q \in L : n.next[q] = m.next[q]
  BY <1>1, <1>2
<1>6. m.pa_head \in L \cup {0} /\ \A q \in L : m.next[q] \in L \cup {0}
  BY DEF Linked
<1> HIDE DEF t
<1>7. ASSUME NEW q \in L \cup {p}
      PROVE  t[q] <= b + 1 /\ (n.next[q] # 0 => t[n.next[q]] < t[q])
  <2>1. CASE q = p
    <3>1. n.next[q] # 0 => t[n.next[q]] <= b /\ t[n.next[q]] \in Nat
      BY <1>3, <1>4, <1>5, <1>6, <2>1
    <3> QED
      BY <3>1, <1>4, <2>1
  <2>2. CASE q \in L
    <3>1. t[q] <= b /\ t[q] \in Nat
      BY <1>3, <1>4, <2>2
    <3>2. n.next[q] # 0 => t[n.next[q]] < t[q]
      BY <1>3, <1>4, <1>5, <1>6, <2>2
    <3> QED
      BY <3>1, <3>2
  <2> QED
    BY <2>1, <2>2
<1>8. b + 1 \in Nat
  OBVIOUS
<1>9. Ordered(n, L \cup {p})
  BY <1>4, <1>7, <1>8 DEF Ordered
<1> QED
  BY <1>9 DEF n

\* On the pages of K, n keeps the links of m, cuts them or skips one page.
Shortens(m, n, K) ==
  \A q \in K : \/ n.next[q] \in {0, m.next[q]}
              \/ /\ m.next[q] # 0 /\ m.next[m.next[q]] # 0
                 /\ n.next[q] = m.next[m.next[q]]

\* Links that only lead to lower ranks, between pages of the old list, keep the
\* order.
LEMMA StaysOrdered ==
  ASSUME NEW m, NEW n, NEW L \in SUBSET Pages, NEW K \in SUBSET L,
         \A q \in L : m.next[q] \in L \cup {0},
         Ordered(m, L), Shortens(m, n, K)
  PROVE  Ordered(n, K)
<1>1. PICK b \in Nat, r \in [Pages -> Nat] :
        \A q \in L : r[q] <= b /\ (m.next[q] # 0 => r[m.next[q]] < r[q])
  BY DEF Ordered
<1>2. \A q \in L : r[q] \in Nat
  OBVIOUS
<1>3. ASSUME NEW q \in K, n.next[q] # 0
      PROVE  r[n.next[q]] < r[q]
  <2>1. CASE n.next[q] = m.next[q]
    BY <1>1, <1>3, <2>1
  <2>2. CASE /\ m.next[q] # 0 /\ m.next[m.next[q]] # 0
             /\ n.next[q] = m.next[m.next[q]]
    <3>1. m.next[q] \in L /\ m.next[m.next[q]] \in L
      BY <2>2
    <3>2. r[m.next[q]] < r[q] /\ r[m.next[m.next[q]]] < r[m.next[q]]
      BY <1>1, <2>2, <3>1
    <3> QED
      BY <1>2, <2>2, <3>1, <3>2
  <2> QED
    BY <1>3, <2>1, <2>2 DEF Shortens
<1> QED
  BY <1>1, <1>3 DEF Ordered

\* Pushing a page keeps a list without a cycle.
LEMMA PushChain ==
  ASSUME NEW m, MemType(m), NEW L \in SUBSET Pages, NEW p \in Pages \ L,
         Chain(m, L)
  PROVE  Chain(PhysPageWasFreed(m, p), L \cup {p})
BY PushLinked, PushOrdered DEF Chain

\* Unlinking a page keeps a list without a cycle: its predecessor is led to its
\* successor.
LEMMA UnlinkChain ==
  ASSUME NEW m, MemType(m), NEW L \in SUBSET Pages, NEW p \in L, Chain(m, L)
  PROVE  Chain(PhysUnlink(m, p), L \ {p})
<1> DEFINE n == PhysUnlink(m, p)
<1>1. n.next = [q \in Pages |-> IF q = m.prev[p] THEN m.next[p] ELSE m.next[q]]
  BY DEF PhysUnlink, MemType
<1>2. Linked(n, L \ {p})
  BY UnlinkLinked DEF Chain
<1> HIDE DEF n
<1>3. /\ \A q \in L : m.next[q] \in L \cup {0}
      /\ m.prev[p] # 0 => m.next[m.prev[p]] = p
      /\ 0 \notin L
  BY PhysAssumption DEF Chain, Linked, Pages
<1>4. \A q \in L \ {p} : \/ n.next[q] \in {0, m.next[q]}
                        \/ /\ m.next[q] # 0 /\ m.next[m.next[q]] # 0
                           /\ n.next[q] = m.next[m.next[q]]
  <2> SUFFICES ASSUME NEW q \in L \ {p}
               PROVE  \/ n.next[q] \in {0, m.next[q]}
                      \/ /\ m.next[q] # 0 /\ m.next[m.next[q]] # 0
                         /\ n.next[q] = m.next[m.next[q]]
    OBVIOUS
  <2>1. CASE q = m.prev[p]
    <3>1. n.next[q] = m.next[p] /\ m.next[q] = p
      BY <1>1, <1>3, <2>1
    <3> QED
      BY <1>3, <3>1
  <2>2. CASE q # m.prev[p]
    BY <1>1, <2>2
  <2> QED
    BY <2>1, <2>2
<1>5. Ordered(n, L \ {p})
  <2> DEFINE K == L \ {p}
  <2>1. Ordered(m, L) /\ K \in SUBSET L
    BY DEF Chain
  <2>2. Shortens(m, n, K)
    BY <1>4 DEF Shortens
  <2> HIDE DEF K
  <2>3. Ordered(n, K)
    BY <1>3, <2>1, <2>2, StaysOrdered
  <2> QED
    BY <2>3 DEF K
<1> QED
  BY <1>2, <1>5 DEF n, Chain

\* Popping the head keeps a list without a cycle.
LEMMA PopChain ==
  ASSUME NEW m, MemType(m), NEW L \in SUBSET Pages, Chain(m, L),
         m.pa_head # 0
  PROVE  Chain(PpagePop(m), L \ {m.pa_head})
<1> DEFINE n == PpagePop(m)
<1>1. n.next = [m.next EXCEPT ![m.pa_head] = 0] /\ m.next \in [Pages -> Pages \cup {0, -1}]
  BY DEF PpagePop, MemType
<1>2. Linked(n, L \ {m.pa_head})
  BY PopLinked DEF Chain
<1> HIDE DEF n
<1>3. \A q \in L : m.next[q] \in L \cup {0}
  BY DEF Chain, Linked
<1>4. \A q \in L \ {m.pa_head} : n.next[q] = m.next[q]
  BY <1>1
<1>5. Ordered(n, L \ {m.pa_head})
  BY <1>3, <1>4, StaysOrdered DEF Chain, Shortens
<1> QED
  BY <1>2, <1>5 DEF n, Chain

\* The links of a page that is not on the list do not matter.
LEMMA HandedOutChain ==
  ASSUME NEW m, MemType(m), NEW L \in SUBSET Pages, NEW p \in Pages \ L,
         Chain(m, L)
  PROVE  Chain(HandedOut(m, p), L)
<1> DEFINE n == HandedOut(m, p)
<1>1. n.next = [m.next EXCEPT ![p] = -1] /\ m.next \in [Pages -> Pages \cup {0, -1}]
  BY DEF HandedOut, MemType
<1>2. Linked(n, L)
  BY HandedOutLinked DEF Chain
<1> HIDE DEF n
<1>3. \A q \in L : m.next[q] \in L \cup {0}
  BY DEF Chain, Linked
<1>4. \A q \in L : n.next[q] = m.next[q]
  BY <1>1
<1>5. Ordered(n, L)
  BY <1>3, <1>4, StaysOrdered DEF Chain, Shortens
<1> QED
  BY <1>2, <1>5 DEF n, Chain

\* Only the links and the head matter.
LEMMA SameChain ==
  ASSUME NEW m, NEW n, NEW L, Chain(m, L),
         n.pa_head = m.pa_head, n.next = m.next, n.prev = m.prev
  PROVE  Chain(n, L)
<1>1. Linked(n, L)
  BY SameLinks DEF Chain
<1>2. Ordered(n, L)
  BY DEF Chain, Ordered
<1> QED
  BY <1>1, <1>2 DEF Chain

------------------------------------------------------------------------------
(* Counters.                                                               *)

\* There are finitely many pages.
LEMMA PagesFinite ==
  /\ IsFiniteSet(Pages)
  /\ Cardinality(Pages) = NPages
  /\ \A S \in SUBSET Pages : IsFiniteSet(S) /\ Cardinality(S) \in Nat
<1>1. IsFiniteSet(1..NPages) /\ Cardinality(1..NPages) = NPages
  BY FS_Interval, PhysAssumption
<1>2. \A S \in SUBSET (1..NPages) : IsFiniteSet(S)
  BY <1>1, FS_Subset
<1>3. \A S \in SUBSET (1..NPages) : Cardinality(S) \in Nat
  BY <1>2, FS_CardinalityType
<1> QED
  BY <1>1, <1>2, <1>3 DEF Pages

\* A set of pages that gains or loses one page.
LEMMA CountAdd ==
  ASSUME NEW S \in SUBSET Pages, NEW p \in Pages \ S
  PROVE  Cardinality(S \cup {p}) = Cardinality(S) + 1
BY PagesFinite, FS_AddElement

\* Taking one page out of a set of pages lowers its cardinality by one: how
\* free_pages and wired_pages follow the sets they count.
LEMMA CountRemove ==
  ASSUME NEW S \in SUBSET Pages, NEW p \in S
  PROVE  Cardinality(S \ {p}) = Cardinality(S) - 1
BY PagesFinite, FS_RemoveElement

------------------------------------------------------------------------------
(* The walk along the free list.                                           *)

\* The first n links after the head h.
Follows(h, nx, n, f) ==
  f = [i \in 0..n |-> IF i = 0 THEN h
                      ELSE IF f[i - 1] = 0 THEN 0 ELSE nx[f[i - 1]]]

\* The walk is well defined.
LEMMA FollowsExists == ASSUME NEW h, NEW nx, NEW n \in Nat PROVE \E f : Follows(h, nx, n, f)
<1> DEFINE T == {i \in 0..n : \E f : Follows(h, nx, i, f)}
<1>1. 0 \in T
  <2> DEFINE f == [v \in 0..0 |-> h]
  <2>1. f = [i \in 0..0 |-> IF i = 0 THEN h
                            ELSE IF f[i - 1] = 0 THEN 0 ELSE nx[f[i - 1]]]
    OBVIOUS
  <2>2. Follows(h, nx, 0, f)
    BY <2>1 DEF Follows
  <2> HIDE DEF f
  <2> QED
    BY <2>2
<1>2. ASSUME NEW i \in 1..n, i - 1 \in T PROVE i \in T
  <2>1. PICK f : Follows(h, nx, i - 1, f)
    BY <1>2
  <2> DEFINE e == IF f[i - 1] = 0 THEN 0 ELSE nx[f[i - 1]]
             g == [v \in 0..i |-> IF v = i THEN e ELSE f[v]]
  <2>2. ASSUME NEW v \in 0..i
        PROVE  g[v] = IF v = 0 THEN h ELSE IF g[v - 1] = 0 THEN 0 ELSE nx[g[v - 1]]
    <3>1. CASE v = i
      <4>1. v # 0 /\ v - 1 \in 0..i /\ v - 1 # i /\ g[v - 1] = f[i - 1]
        BY <3>1
      <4>2. g[v] = e
        BY <3>1
      <4> HIDE DEF g
      <4> QED
        BY <3>1, <4>1, <4>2
    <3>2. CASE v # i
      <4>1. v \in 0..(i - 1) /\ g[v] = f[v] /\ (v # 0 => g[v - 1] = f[v - 1])
        BY <3>2
      <4>2. f[v] = IF v = 0 THEN h ELSE IF f[v - 1] = 0 THEN 0 ELSE nx[f[v - 1]]
        BY <2>1, <4>1 DEF Follows
      <4> HIDE DEF g
      <4> QED
        BY <4>1, <4>2
    <3> QED
      BY <3>1, <3>2
  <2>3. g = [v \in 0..i |-> g[v]]
    OBVIOUS
  <2> HIDE DEF g
  <2>4. Follows(h, nx, i, g)
    BY <2>2, <2>3 DEF Follows
  <2> QED
    BY <2>4
<1> HIDE DEF T
<1>3. n \in T
  BY <1>1, <1>2, UpTo
<1> QED
  BY <1>3 DEF T

\* Walk follows the links of the allocator's memory.
LEMMA WalkFollows == Follows(mem.pa_head, mem.next, NPages, Walk)
<1>1. NPages \in Nat
  BY PhysAssumption
<1>2. \E f : Follows(mem.pa_head, mem.next, NPages, f)
  BY <1>1, FollowsExists
<1>3. \E f : f = [n \in 0..NPages |-> IF n = 0 THEN mem.pa_head
                                       ELSE IF f[n - 1] = NULL THEN NULL ELSE mem.next[f[n - 1]]]
  BY <1>2, Zenon DEF Follows
<1> QED
  BY <1>3, Zenon DEF Walk, Follows

\* A walk along a list without a cycle visits every page of the list and ends:
\* the ranks fall along the walk, so it has no room to go on for NPages links,
\* and a page it missed would be preceded by another one of higher rank.
LEMMA WalkCovers ==
  ASSUME NEW m, NEW L \in SUBSET Pages, Chain(m, L), NEW f,
         Follows(m.pa_head, m.next, NPages, f)
  PROVE  /\ {f[n] : n \in 0..NPages} \ {0} = L
         /\ f[NPages] = 0
<1>n. NPages \in Nat /\ 0 \notin Pages /\ 0 \notin L
  BY PhysAssumption DEF Pages
<1>1. /\ f[0] = m.pa_head
      /\ \A i \in 1..NPages : f[i] = IF f[i - 1] = 0 THEN 0 ELSE m.next[f[i - 1]]
  BY <1>n DEF Follows
<1>2. /\ m.pa_head \in L \cup {0}
      /\ \A p \in L : m.next[p] \in L \cup {0} /\ m.prev[p] \in L \cup {0}
      /\ \A p \in L : m.prev[p] # 0 => m.next[m.prev[p]] = p
      /\ \A p \in L : m.prev[p] = 0 => p = m.pa_head
  BY DEF Chain, Linked
<1>3. PICK b \in Nat, r \in [Pages -> Nat] :
        \A p \in L : r[p] <= b /\ (m.next[p] # 0 => r[m.next[p]] < r[p])
  BY DEF Chain, Ordered
<1>r. \A p \in L : r[p] \in Nat
  OBVIOUS
<1>4. ASSUME NEW n \in 0..NPages
      PROVE  /\ f[n] \in L \cup {0}
             /\ \A i \in 0..n : f[n] # 0 /\ i < n => f[i] \in L /\ r[f[n]] < r[f[i]]
  <2> DEFINE Falls(k) == /\ f[k] \in L \cup {0}
                         /\ \A i \in 0..k : f[k] # 0 /\ i < k => f[i] \in L /\ r[f[k]] < r[f[i]]
             T == {k \in 0..n : Falls(k)}
  <2>1. 0 \in T
    BY <1>1, <1>2
  <2>2. ASSUME NEW k \in 1..n, k - 1 \in T PROVE k \in T
    <3>0. Falls(k - 1)
      BY <2>2
    <3>1. Falls(k - 1) /\ k \in 1..NPages /\ k - 1 \in 0..NPages
      <4> HIDE DEF Falls
      <4> QED
        BY <1>n, <3>0
    <3>2. f[k] = IF f[k - 1] = 0 THEN 0 ELSE m.next[f[k - 1]]
      BY <1>1, <3>1
    <3>3. f[k - 1] \in L \cup {0} /\ f[k] \in L \cup {0}
      BY <1>2, <3>1, <3>2
    <3>4. ASSUME NEW i \in 0..k, f[k] # 0, i < k
          PROVE  f[i] \in L /\ r[f[k]] < r[f[i]]
      <4>1. f[k - 1] \in L /\ f[k - 1] # 0 /\ f[k] \in L /\ r[f[k]] < r[f[k - 1]]
        BY <1>3, <3>2, <3>3, <3>4
      <4>2. CASE i = k - 1
        BY <4>1, <4>2
      <4>3. CASE i # k - 1
        <5>1. i \in 0..(k - 1) /\ i < k - 1
          BY <4>3, <3>4
        <5>2. f[i] \in L /\ r[f[k - 1]] < r[f[i]]
          BY <5>1, <4>1, <3>1
        <5>3. r[f[i]] \in Nat /\ r[f[k]] \in Nat /\ r[f[k - 1]] \in Nat
          BY <1>r, <4>1, <5>2
        <5> QED
          BY <5>2, <5>3, <4>1
      <4> QED
        BY <4>2, <4>3
    <3> QED
      BY <3>3, <3>4
  <2>3. n \in Nat
    BY <1>n
  <2> HIDE DEF T
  <2>4. n \in T
    BY <2>1, <2>2, <2>3, UpTo
  <2> QED
    BY <2>4 DEF T
<1>5. f[NPages] = 0
  <2>1. SUFFICES ASSUME f[NPages] # 0 PROVE FALSE
    OBVIOUS
  <2>2. \A i \in 0..NPages : f[i] \in L
    BY <1>4, <1>n, <2>1
  <2> DEFINE g == [i \in 0..NPages |-> f[i]]
  <2>3. g \in [0..NPages -> Pages]
    BY <2>2
  <2>4. IsFiniteSet(0..NPages) /\ Cardinality(0..NPages) = NPages + 1
    BY FS_Interval, <1>n
  <2>5. IsFiniteSet(Pages) /\ Cardinality(Pages) = NPages
    BY PagesFinite
  <2>6. \E x, y \in 0..NPages : x # y /\ g[x] = g[y]
    <3> HIDE DEF g
    <3> QED
      BY <1>n, <2>3, <2>4, <2>5, FS_PigeonHole
  <2>7. PICK x, y \in 0..NPages : x < y /\ f[x] = f[y]
    BY <2>6, <1>n
  <2>8. r[f[y]] < r[f[x]] /\ r[f[y]] \in Nat
    BY <1>4, <1>n, <1>r, <2>2, <2>7
  <2> QED
    BY <2>7, <2>8
<1>6. ASSUME NEW p \in L PROVE \E n \in 0..NPages : f[n] = p
  <2> DEFINE M == {q \in L : \A n \in 0..NPages : f[n] # q}
             D == {b - r[q] : q \in M}
  <2>1. SUFFICES ASSUME p \in M PROVE FALSE
    OBVIOUS
  <2>2. D \subseteq Nat /\ D # {}
    BY <1>3, <1>r, <2>1
  <2>3. PICK d \in D : \A e \in D : d <= e
    <3> HIDE DEF D
    <3> QED
      BY <2>2, Least
  <2>4. PICK q \in M : d = b - r[q]
    OBVIOUS
  <2>5. m.prev[q] # 0 /\ m.prev[q] \in L
    BY <1>1, <1>2, <1>n, <2>4
  <2>6. r[q] < r[m.prev[q]] /\ r[q] \in Nat /\ r[m.prev[q]] \in Nat
    BY <1>2, <1>3, <1>n, <1>r, <2>4, <2>5
  <2>7. m.prev[q] \in M
    <3>1. SUFFICES ASSUME NEW n \in 0..NPages, f[n] = m.prev[q] PROVE FALSE
      BY <2>5
    <3>2. n \in 0..(NPages - 1) /\ n + 1 \in 1..NPages /\ (n + 1) - 1 = n
      BY <1>5, <1>n, <2>5, <3>1
    <3>3. f[n + 1] = q
      BY <1>1, <1>2, <2>4, <2>5, <3>1, <3>2
    <3> QED
      BY <2>4, <3>2, <3>3
  <2>8. b - r[m.prev[q]] \in D
    BY <2>7
  <2> QED
    BY <2>3, <2>4, <2>6, <2>8
<1> QED
  BY <1>4, <1>5, <1>6, <1>n

------------------------------------------------------------------------------
(* The operations on one page.                                             *)

\* Freeing a page only changes the links, the head and free_pages.
LEMMA FreedType ==
  ASSUME NEW m, MemType(m), NEW p \in Pages
  PROVE  /\ MemType(PhysPageWasFreed(m, p))
         /\ PhysPageWasFreed(m, p).ppage_list = m.ppage_list
         /\ PhysPageWasFreed(m, p).free_pages = m.free_pages + 1
         /\ PhysPageWasFreed(m, p).wired_pages = m.wired_pages
<1> DEFINE pv == [q \in Pages |-> IF q = p THEN 0
                                 ELSE IF q = m.pa_head THEN p ELSE m.prev[q]]
           nx == [m.next EXCEPT ![p] = m.pa_head]
           f == m.free_pages + 1
<1>1. /\ f \in Int
      /\ pv \in [Pages -> Pages \cup {0, -1}]
      /\ nx \in [Pages -> Pages \cup {0, -1}]
  BY DEF MemType
<1>2. PhysPageWasFreed(m, p) = [m EXCEPT !.prev = pv, !.next = nx, !.pa_head = p,
                                         !.free_pages = f]
  BY DEF PhysPageWasFreed
<1>3. f = m.free_pages + 1
  OBVIOUS
<1> HIDE DEF pv, nx, f
<1> QED
  BY <1>1, <1>2, <1>3 DEF MemType

\* A further reference on a page in use.
LEMMA ReferenceUsed ==
  ASSUME NEW m, NEW U, MemOK(m, U), NEW p \in Pages,
         m.ppage_list[p] \in 1..(PAGE_WIRED - 2)
  PROVE  /\ MemOK(PhysReference(m, p), U)
         /\ PhysReference(m, p).ppage_list = [m.ppage_list EXCEPT ![p] = @ + 1]
<1> DEFINE n == PhysReference(m, p)
           c == m.ppage_list[p] + 1
<1>1. MemType(m) /\ m.ppage_list \in [Pages -> 0..PAGE_WIRED]
  BY DEF MemOK, MemType
<1>2. c \in 0..PAGE_WIRED /\ c # 0 /\ c # PAGE_WIRED
  BY PhysAssumption
<1>3. n = [m EXCEPT !.ppage_list[p] = c]
  BY PhysAssumption DEF PhysReference
<1> HIDE DEF c
<1>4. /\ n.ppage_list = [m.ppage_list EXCEPT ![p] = c]
      /\ n.pa_head = m.pa_head /\ n.next = m.next /\ n.prev = m.prev
      /\ n.free_pages = m.free_pages /\ n.wired_pages = m.wired_pages
      /\ MemType(n)
  BY <1>1, <1>2, <1>3 DEF MemType
<1> HIDE DEF n
<1>6. /\ FreePages(n) = FreePages(m)
      /\ WiredPages(n) = WiredPages(m)
  BY <1>1, <1>2, <1>4, PhysAssumption DEF FreePages, WiredPages
<1>7. Chain(n, FreePages(n) \ U)
  BY <1>4, <1>6, SameChain DEF MemOK
<1>8. CountsOK(n)
  BY <1>4, <1>6 DEF MemOK, CountsOK
<1> QED
  BY <1>4, <1>7, <1>8 DEF n, c, MemOK

\* The first reference on a free page that has been taken off the list, which
\* its owner then overwrites.
LEMMA ReferenceUnlinked ==
  ASSUME NEW m, NEW U, MemOK(m, U), NEW p \in Pages \cap U,
         m.ppage_list[p] = 0
  PROVE  /\ MemOK(HandedOut(PhysReference(m, p), p), U \ {p})
         /\ HandedOut(PhysReference(m, p), p).ppage_list =
              [m.ppage_list EXCEPT ![p] = 1]
<1> DEFINE n == PhysReference(m, p)
           k == HandedOut(n, p)
<1>1. MemType(m) /\ m.ppage_list \in [Pages -> 0..PAGE_WIRED]
  BY DEF MemOK, MemType
<1>2. 0 # PAGE_WIRED /\ 1 \in 0..PAGE_WIRED /\ 1 # PAGE_WIRED
  BY PhysAssumption
<1> DEFINE a == [m.ppage_list EXCEPT ![p] = 1]
           f == m.free_pages - 1
<1>3. n = [m EXCEPT !.ppage_list = a, !.free_pages = f]
  BY <1>2 DEF PhysReference
<1>4. a \in [Pages -> 0..PAGE_WIRED] /\ f \in Int
  BY <1>1, <1>2 DEF MemType
<1> HIDE DEF a, f
<1>5. /\ n.ppage_list = a
      /\ n.pa_head = m.pa_head /\ n.next = m.next /\ n.prev = m.prev
      /\ n.free_pages = f /\ n.wired_pages = m.wired_pages
      /\ MemType(n)
  BY <1>1, <1>3, <1>4 DEF MemType
<1> HIDE DEF n
<1>6. /\ k.ppage_list = n.ppage_list
      /\ k.free_pages = n.free_pages /\ k.wired_pages = n.wired_pages
      /\ MemType(k)
  BY <1>5 DEF HandedOut, MemType
<1> HIDE DEF k
<1>7. k.ppage_list = [m.ppage_list EXCEPT ![p] = 1]
  BY <1>5, <1>6 DEF a
<1>8. /\ FreePages(k) = FreePages(m) \ {p}
      /\ CountsOK(k)
  <2>1. /\ FreePages(k) = FreePages(m) \ {p}
        /\ WiredPages(k) = WiredPages(m)
        /\ FreePages(m) \in SUBSET Pages /\ p \in FreePages(m)
    BY <1>1, <1>2, <1>7 DEF FreePages, WiredPages
  <2> QED
    BY <2>1, <1>5, <1>6, CountRemove DEF f, MemOK, CountsOK
<1>9. Chain(k, FreePages(k) \ (U \ {p}))
  <2>1. FreePages(k) \ (U \ {p}) = FreePages(m) \ U
    BY <1>8
  <2>2. FreePages(m) \ U \in SUBSET Pages
    BY DEF FreePages
  <2>3. Chain(n, FreePages(m) \ U)
    BY <1>5, SameChain DEF MemOK
  <2>4. Chain(k, FreePages(m) \ U)
    BY <2>2, <2>3, <1>5, HandedOutChain DEF k
  <2> QED
    BY <2>1, <2>4
<1> QED
  BY <1>6, <1>7, <1>8, <1>9 DEF n, k, MemOK

\* Giving back one reference of a page in use; the last one puts the page on
\* the free list.
LEMMA DereferenceUsed ==
  ASSUME NEW m, MemOK(m, {}), NEW p \in Pages,
         m.ppage_list[p] \in 1..(PAGE_WIRED - 1)
  PROVE  /\ MemOK(PhysDereference(m, p), {})
         /\ PhysDereference(m, p).ppage_list = [m.ppage_list EXCEPT ![p] = @ - 1]
<1> DEFINE m1 == [m EXCEPT !.ppage_list[p] = @ - 1]
           c == m.ppage_list[p] - 1
           n == PhysDereference(m, p)
<1>1. MemType(m) /\ m.ppage_list \in [Pages -> 0..PAGE_WIRED]
  BY DEF MemOK, MemType
<1>2. c \in 0..PAGE_WIRED /\ c # PAGE_WIRED /\ c + 1 # 0 /\ c + 1 # PAGE_WIRED
  BY PhysAssumption
<1>3. /\ m1.ppage_list = [m.ppage_list EXCEPT ![p] = c]
      /\ m1.pa_head = m.pa_head /\ m1.next = m.next /\ m1.prev = m.prev
      /\ m1.free_pages = m.free_pages /\ m1.wired_pages = m.wired_pages
      /\ MemType(m1)
      /\ m1.ppage_list[p] = c
  BY <1>1, <1>2 DEF MemType
<1>4. n = IF c = 0 THEN PhysPageWasFreed(m1, p) ELSE m1
  BY <1>3 DEF PhysDereference
<1> HIDE DEF m1, n
<1>5. CASE c = 0
  <2>1. /\ n.ppage_list = m1.ppage_list
        /\ n.free_pages = m.free_pages + 1 /\ n.wired_pages = m.wired_pages
        /\ MemType(n)
    BY <1>3, <1>4, <1>5, FreedType
  <2>2. /\ FreePages(n) = FreePages(m) \cup {p}
        /\ CountsOK(n)
    <3>1. n.ppage_list = [m.ppage_list EXCEPT ![p] = 0]
      BY <1>3, <1>5, <2>1
    <3>2. /\ FreePages(n) = FreePages(m) \cup {p}
          /\ WiredPages(n) = WiredPages(m)
          /\ FreePages(m) \in SUBSET Pages /\ p \notin FreePages(m)
      <4>1. m.ppage_list[p] # 0 /\ m.ppage_list[p] # PAGE_WIRED /\ 0 # PAGE_WIRED
        BY PhysAssumption
      <4>2. \A q \in Pages : n.ppage_list[q] = IF q = p THEN 0 ELSE m.ppage_list[q]
        BY <3>1, <1>1
      <4> QED
        BY <4>1, <4>2 DEF FreePages, WiredPages
    <3> QED
      BY <2>1, <3>2, CountAdd DEF MemOK, CountsOK
  <2>3. FreePages(m) \in SUBSET Pages /\ p \notin FreePages(m)
    BY DEF FreePages
  <2>4. Chain(m1, FreePages(m) \ {})
    BY <1>3, SameChain DEF MemOK
  <2>5. Chain(n, (FreePages(m) \ {}) \cup {p})
    BY <2>3, <2>4, <1>3, <1>4, <1>5, PushChain
  <2>6. (FreePages(m) \ {}) \cup {p} = FreePages(n) \ {}
    BY <2>2
  <2> QED
    BY <1>3, <2>1, <2>2, <2>5, <2>6 DEF n, MemOK
<1>6. CASE c # 0
  <2>1. FreePages(n) = FreePages(m) /\ WiredPages(n) = WiredPages(m)
    BY <1>1, <1>2, <1>3, <1>4, <1>6 DEF FreePages, WiredPages
  <2>2. Chain(n, FreePages(n) \ {})
    BY <1>3, <1>4, <1>6, <2>1, SameChain DEF MemOK
  <2>3. CountsOK(n)
    BY <1>3, <1>4, <1>6, <2>1 DEF MemOK, CountsOK
  <2> QED
    BY <1>3, <1>4, <1>6, <2>2, <2>3 DEF n, MemOK
<1> QED
  BY <1>5, <1>6

\* Forcing a page free that is wired (autoboot, alloc_init) or already free
\* (overlapping regions of alloc_init).
LEMMA ForceFreeOK ==
  ASSUME NEW m, MemOK(m, {}), NEW p \in Pages,
         m.ppage_list[p] \in {0, PAGE_WIRED}
  PROVE  /\ MemOK(PhysForceFree(m, p), {})
         /\ PhysForceFree(m, p).ppage_list = [m.ppage_list EXCEPT ![p] = 0]
<1> DEFINE w == m.wired_pages - 1
           m1 == [m EXCEPT !.wired_pages = w]
           m2 == PhysPageWasFreed(m1, p)
           n == PhysForceFree(m, p)
<1>0. 0 # PAGE_WIRED /\ PAGE_WIRED \in Nat
  BY PhysAssumption
<1>1. MemType(m) /\ m.ppage_list \in [Pages -> 0..PAGE_WIRED] /\ w \in Int
  BY DEF MemOK, MemType
<1>2. CASE m.ppage_list[p] = PAGE_WIRED
  <2>1. n = [m2 EXCEPT !.ppage_list[p] = 0]
    BY <1>0, <1>2 DEF PhysForceFree
  <2> HIDE DEF w
  <2>2. /\ m1.pa_head = m.pa_head /\ m1.next = m.next /\ m1.prev = m.prev
        /\ m1.ppage_list = m.ppage_list
        /\ m1.free_pages = m.free_pages /\ m1.wired_pages = w
        /\ MemType(m1)
    BY <1>1 DEF MemType
  <2> HIDE DEF m1
  <2>3. /\ m2.ppage_list = m.ppage_list
        /\ m2.free_pages = m.free_pages + 1 /\ m2.wired_pages = w
        /\ MemType(m2)
    BY <2>2, FreedType
  <2> HIDE DEF m2, n
  <2>4. /\ n.ppage_list = [m.ppage_list EXCEPT ![p] = 0]
        /\ n.pa_head = m2.pa_head /\ n.next = m2.next /\ n.prev = m2.prev
        /\ n.free_pages = m.free_pages + 1 /\ n.wired_pages = w
        /\ MemType(n)
    BY <1>0, <2>1, <2>3 DEF MemType
  <2>5. /\ FreePages(n) = FreePages(m) \cup {p}
        /\ WiredPages(n) = WiredPages(m) \ {p}
        /\ FreePages(m) \in SUBSET Pages /\ p \notin FreePages(m)
        /\ WiredPages(m) \in SUBSET Pages /\ p \in WiredPages(m)
    BY <1>0, <1>1, <1>2, <2>4 DEF FreePages, WiredPages
  <2>6. CountsOK(n)
    BY <2>4, <2>5, CountAdd, CountRemove DEF w, MemOK, CountsOK
  <2>7. Chain(m1, FreePages(m) \ {})
    BY <2>2, SameChain DEF MemOK
  <2>8. Chain(m2, (FreePages(m) \ {}) \cup {p})
    BY <2>2, <2>5, <2>7, PushChain DEF m2
  <2>9. Chain(n, FreePages(n) \ {})
    <3>1. (FreePages(m) \ {}) \cup {p} = FreePages(n) \ {}
      BY <2>5
    <3> QED
      BY <3>1, <2>4, <2>8, SameChain
  <2> QED
    BY <2>4, <2>6, <2>9 DEF n, MemOK
<1>3. CASE m.ppage_list[p] = 0
  <2> DEFINE w3 == m.wired_pages
             m3 == [m EXCEPT !.wired_pages = w3]
  <2>1. n = [m3 EXCEPT !.ppage_list[p] = 0] /\ w3 \in Int /\ w3 = m.wired_pages
    BY <1>0, <1>1, <1>3 DEF PhysForceFree, MemType
  <2> HIDE DEF w3
  <2>a. /\ m3.ppage_list = m.ppage_list
        /\ m3.pa_head = m.pa_head /\ m3.next = m.next /\ m3.prev = m.prev
        /\ m3.free_pages = m.free_pages /\ m3.wired_pages = m.wired_pages
        /\ MemType(m3)
    BY <1>1, <2>1 DEF MemType
  <2> HIDE DEF n, m3
  <2>2. /\ n.ppage_list = [m.ppage_list EXCEPT ![p] = 0]
        /\ n.pa_head = m.pa_head /\ n.next = m.next /\ n.prev = m.prev
        /\ n.free_pages = m.free_pages /\ n.wired_pages = m.wired_pages
        /\ MemType(n)
    BY <1>0, <2>1, <2>a DEF MemType
  <2>3. FreePages(n) = FreePages(m) /\ WiredPages(n) = WiredPages(m)
    BY <1>0, <1>1, <1>3, <2>2 DEF FreePages, WiredPages
  <2>4. Chain(n, FreePages(n) \ {}) /\ CountsOK(n)
    BY <2>2, <2>3, SameChain DEF MemOK, CountsOK
  <2> QED
    BY <2>2, <2>4 DEF n, MemOK
<1> QED
  BY <1>2, <1>3

\* Taking one page of a contiguous run off the free list.
LEMMA UnlinkOK ==
  ASSUME NEW m, NEW U, MemOK(m, U), NEW p \in FreePages(m) \ U
  PROVE  /\ MemOK(PhysUnlink(m, p), U \cup {p})
         /\ PhysUnlink(m, p).ppage_list = m.ppage_list
<1> DEFINE pv == [q \in Pages |-> IF q = m.next[p] THEN m.prev[p] ELSE m.prev[q]]
           nx == [q \in Pages |-> IF q = m.prev[p] THEN m.next[p] ELSE m.next[q]]
           h == IF m.prev[p] = 0 THEN m.next[p] ELSE m.pa_head
           n == PhysUnlink(m, p)
<1>1. n = [m EXCEPT !.prev = pv, !.next = nx, !.pa_head = h]
  BY DEF PhysUnlink
<1>2. FreePages(m) \ U \in SUBSET Pages /\ MemType(m) /\ Chain(m, FreePages(m) \ U)
  BY DEF MemOK, FreePages
<1>3. /\ pv \in [Pages -> Pages \cup {0, -1}]
      /\ nx \in [Pages -> Pages \cup {0, -1}]
      /\ h \in Pages \cup {0}
  <2>1. m.next[p] \in Pages \cup {0} /\ m.prev[p] \in Pages \cup {0}
    BY <1>2 DEF Chain, Linked
  <2> QED
    BY <2>1, <1>2 DEF MemType
<1> HIDE DEF pv, nx, h
<1>4. /\ n.ppage_list = m.ppage_list
      /\ n.free_pages = m.free_pages /\ n.wired_pages = m.wired_pages
      /\ MemType(n)
  BY <1>1, <1>2, <1>3 DEF MemType
<1>5. Chain(n, (FreePages(m) \ U) \ {p})
  BY <1>2, UnlinkChain
<1> HIDE DEF n
<1>6. /\ FreePages(n) = FreePages(m) /\ WiredPages(n) = WiredPages(m)
      /\ (FreePages(m) \ U) \ {p} = FreePages(n) \ (U \cup {p})
  BY <1>4 DEF FreePages, WiredPages
<1> QED
  BY <1>4, <1>5, <1>6 DEF n, MemOK, CountsOK

\* ppage_alloc: the page handed out was free, and no page is left off the list.
LEMMA PopOK ==
  ASSUME NEW m, MemOK(m, {}), m.pa_head # 0
  PROVE  LET h == m.pa_head
             n == HandedOut(PhysReference(PpagePop(m), h), h)
         IN  /\ h \in FreePages(m)
             /\ m.next[h] # Junk
             /\ MemOK(n, {})
             /\ n.ppage_list = [m.ppage_list EXCEPT ![h] = 1]
<1> DEFINE h == m.pa_head
           pv == [q \in Pages |-> IF q = m.next[h] \/ q = h THEN 0 ELSE m.prev[q]]
           nx == [m.next EXCEPT ![h] = 0]
           a == m.next[h]
           n == PpagePop(m)
<1>1. n = [m EXCEPT !.pa_head = a, !.prev = pv, !.next = nx]
  BY DEF PpagePop
<1>2. /\ FreePages(m) \ {} = FreePages(m)
      /\ FreePages(m) \in SUBSET Pages /\ MemType(m) /\ Chain(m, FreePages(m))
  <2>1. FreePages(m) \ {} = FreePages(m)
    OBVIOUS
  <2> QED
    BY <2>1 DEF MemOK, FreePages
<1>3. /\ h \in FreePages(m) /\ h \in Pages
      /\ a \in Pages \cup {0} /\ a # -1
      /\ pv \in [Pages -> Pages \cup {0, -1}]
      /\ nx \in [Pages -> Pages \cup {0, -1}]
  <2>1. h \in FreePages(m) /\ a \in Pages \cup {0}
    BY <1>2 DEF Chain, Linked
  <2>2. a # -1
    BY <2>1, PhysAssumption DEF Pages
  <2>3. h \in Pages
    BY <1>2, <2>1
  <2> QED
    BY <2>1, <2>2, <2>3, <1>2 DEF MemType
<1>4. m.pa_head = h /\ m.next[h] # -1
  BY <1>3
<1> HIDE DEF h, pv, nx, a
<1>5. /\ n.ppage_list = m.ppage_list
      /\ n.free_pages = m.free_pages /\ n.wired_pages = m.wired_pages
      /\ MemType(n)
  BY <1>1, <1>2, <1>3 DEF MemType
<1>6. Chain(n, FreePages(m) \ {h})
  BY <1>2, <1>4, PopChain
<1> HIDE DEF n
<1>7. /\ FreePages(n) = FreePages(m) /\ WiredPages(n) = WiredPages(m)
      /\ n.ppage_list[h] = 0
  BY <1>3, <1>5 DEF FreePages, WiredPages
<1>8. MemOK(n, {h})
  BY <1>5, <1>6, <1>7 DEF MemOK, CountsOK
<1>9. /\ MemOK(HandedOut(PhysReference(n, h), h), {h} \ {h})
      /\ HandedOut(PhysReference(n, h), h).ppage_list = [m.ppage_list EXCEPT ![h] = 1]
  BY <1>3, <1>5, <1>7, <1>8, ReferenceUnlinked
<1>10. {h} \ {h} = {}
  OBVIOUS
<1> QED
  BY <1>3, <1>4, <1>9, <1>10 DEF h, n

------------------------------------------------------------------------------
(* The inductive invariant.                                                *)

\* No count comes near the wired value: a caller that owns a reference adds
\* another one only below MaxRefs, and a page that is being mapped has one more
\* until the reference of the caller is consumed.
CountBound ==
  \A p \in Pages :
    \/ mem.ppage_list[p] <= MaxRefs
    \/ mem.ppage_list[p] = PAGE_WIRED
    \/ op.kind = "map" /\ p = call.page /\ mem.ppage_list[p] <= MaxRefs + 1

\* What the loop over a range may still rely on for the pages ahead of it.
OpOK ==
  /\ op.kind \in {"init1", "init2"} =>
       \A p \in Pages : mem.ppage_list[p] \in {PAGE_FREE, PAGE_WIRED}
  /\ op.kind = "force" =>
       \A p \in op.i..(op.hi - 1) : mem.ppage_list[p] = PAGE_WIRED
  /\ op.kind = "unlink" =>
       \A p \in op.lo..(op.hi - 1) : mem.ppage_list[p] = PAGE_FREE
  /\ op.kind = "ref" =>
       \/ \A p \in op.i..(op.hi - 1) : mem.ppage_list[p] = PAGE_FREE
       \/ \A p \in op.i..(op.hi - 1) : held[p] > 0 /\ mem.ppage_list[p] < MaxRefs
  /\ op.kind = "deref" =>
       \A p \in op.i..(op.hi - 1) : held[p] > 0
  /\ op.kind = "map" =>
       /\ call.va \in VAs
       /\ call.page # NULL =>
            /\ held[call.page] > 0
            /\ mem.ppage_list[call.page] + Entries <= MaxRefs + call.i

IInv ==
  /\ TypeOK
  /\ MemOK(mem, Unlinked)
  /\ RefsExact
  /\ CountBound
  /\ OpOK
  /\ OnlyOOMPanics

\* The step makes no page wired: only alloc_init does.
NoNewWired ==
  \A q \in Pages : mem'.ppage_list[q] = PAGE_WIRED => mem.ppage_list[q] = PAGE_WIRED

\* Every page a loop still has to visit is a page.
LEMMA LoopPage ==
  ASSUME TypeOK, op.i < op.hi
  PROVE  /\ op.i \in Pages /\ op.i + 1 \in 1..(NPages + 1)
         /\ op.i \in op.i..(op.hi - 1)
         /\ op.i \in op.lo..(op.hi - 1)
         /\ op.i + 1 <= op.hi
         /\ (op.i + 1)..(op.hi - 1) \subseteq op.i..(op.hi - 1)
         /\ op.i..(op.hi - 1) \subseteq Pages
         /\ op.lo..(op.hi - 1) \subseteq Pages
         /\ op.i \notin op.lo..(op.i - 1)
         /\ op.i \notin (op.i + 1)..(op.hi - 1)
         /\ op.i..(op.hi - 1) = {op.i} \cup ((op.i + 1)..(op.hi - 1))
         /\ op.lo..((op.i + 1) - 1) = {op.i} \cup (op.lo..(op.i - 1))
<1> DEFINE i == op.i
           lo == op.lo
           hi == op.hi
<1>1. /\ i \in 1..(NPages + 1) /\ lo \in 1..(NPages + 1) /\ hi \in 1..(NPages + 1)
      /\ lo <= i /\ i < hi
  BY DEF TypeOK
<1>2. NPages \in Nat
  BY PhysAssumption
<1> HIDE DEF i, lo, hi
<1>3. /\ i \in Pages /\ i + 1 \in 1..(NPages + 1)
      /\ i \in i..(hi - 1)
      /\ i \in lo..(hi - 1)
      /\ i + 1 <= hi
      /\ i \notin lo..(i - 1)
      /\ i \notin (i + 1)..(hi - 1)
  BY <1>1, <1>2 DEF Pages
<1>4. /\ (i + 1)..(hi - 1) \subseteq i..(hi - 1)
      /\ i..(hi - 1) \subseteq Pages
      /\ lo..(hi - 1) \subseteq Pages
  BY <1>1, <1>2 DEF Pages
<1>5. i..(hi - 1) = {i} \cup ((i + 1)..(hi - 1))
  BY <1>1, <1>2
<1>6. lo..((i + 1) - 1) = {i} \cup (lo..(i - 1))
  BY <1>1, <1>2
<1> QED
  BY <1>3, <1>4, <1>5, <1>6 DEF i, lo, hi

\* Mappings are counted by natural numbers.
LEMMA MappingsType ==
  ASSUME NEW p
  PROVE  /\ IsFiniteSet(Mappings(p)) /\ Cardinality(Mappings(p)) \in Nat
         /\ IsFiniteSet(Mappings(p))' /\ Cardinality(Mappings(p))' \in Nat
<1>1. Mappings(p) \in SUBSET Ptes /\ Mappings(p)' \in SUBSET Ptes
  BY DEF Mappings
<1>2. IsFiniteSet(VAs) /\ IsFiniteSet(1..Entries)
  BY PhysAssumption, FS_Interval
<1>3. IsFiniteSet(Ptes)
  BY <1>2, FS_Product DEF Ptes
<1> QED
  BY <1>1, <1>3, FS_Subset, FS_CardinalityType

\* A page that somebody holds or maps is neither free nor wired.
LEMMA UsedPage ==
  ASSUME TypeOK, RefsExact, CountBound, NEW p \in Pages,
         held[p] > 0 \/ Mappings(p) # {}
  PROVE  /\ mem.ppage_list[p] \in 1..(MaxRefs + 1)
         /\ op.kind # "map" => mem.ppage_list[p] \in 1..MaxRefs
         /\ mem.ppage_list[p] # PAGE_FREE
         /\ mem.ppage_list[p] # PAGE_WIRED
         /\ mem.ppage_list[p] = held[p] + Cardinality(Mappings(p))
<1>1. held[p] \in Nat /\ mem.ppage_list[p] \in 0..PAGE_WIRED
  BY DEF TypeOK, MemType
<1>2. Cardinality(Mappings(p)) \in Nat /\ (Mappings(p) # {} => Cardinality(Mappings(p)) # 0)
  BY MappingsType, FS_EmptySet
<1>3. held[p] + Cardinality(Mappings(p)) # 0
  BY <1>1, <1>2
<1>4. held[p] + Cardinality(Mappings(p)) =
        IF mem.ppage_list[p] = PAGE_WIRED THEN 0 ELSE mem.ppage_list[p]
  BY DEF RefsExact
<1>5. mem.ppage_list[p] # PAGE_WIRED /\ mem.ppage_list[p] # 0
  BY <1>3, <1>4
<1>6. /\ mem.ppage_list[p] <= MaxRefs \/ mem.ppage_list[p] <= MaxRefs + 1
      /\ op.kind # "map" => mem.ppage_list[p] <= MaxRefs
  BY <1>5 DEF CountBound
<1> QED
  BY <1>1, <1>4, <1>5, <1>6, PhysAssumption

\* A page that is free or wired has no owner and no mapping.
LEMMA UnusedPage ==
  ASSUME TypeOK, RefsExact, CountBound, NEW p \in Pages,
         mem.ppage_list[p] \in {PAGE_FREE, PAGE_WIRED}
  PROVE  held[p] = 0 /\ Mappings(p) = {}
<1>1. held[p] \in Nat
  BY DEF TypeOK
<1>2. ~(held[p] > 0 \/ Mappings(p) # {})
  BY UsedPage
<1> QED
  BY <1>1, <1>2

------------------------------------------------------------------------------
(* One lemma per action.                                                   *)

\* alloc_init wires every page.
LEMMA InitInv ==
  ASSUME Init
  PROVE  IInv
<1>1. TypeOK
  BY PhysAssumption DEF Init, TypeOK, MemType, Kinds, IsRange, Pages, NoCall
<1>2. FreePages(mem) = {} /\ WiredPages(mem) = Pages /\ Unlinked = {}
  BY PhysAssumption DEF Init, FreePages, WiredPages, Unlinked
<1>3. MemOK(mem, Unlinked)
  <2>1. mem.pa_head = 0 /\ mem.free_pages = 0 /\ mem.wired_pages = NPages
    BY DEF Init
  <2>2. CountsOK(mem)
    BY <2>1, <1>2, PagesFinite, FS_EmptySet DEF CountsOK
  <2>3. Chain(mem, FreePages(mem) \ Unlinked)
    <3>1. 0 \in Nat /\ [q \in Pages |-> 0] \in [Pages -> Nat]
      OBVIOUS
    <3>2. FreePages(mem) \ Unlinked = {}
      BY <1>2
    <3>3. Ordered(mem, {})
      BY <3>1 DEF Ordered
    <3> QED
      BY <2>1, <3>2, <3>3 DEF Chain, Linked
  <2> QED
    BY <1>1, <1>2, <2>1, <2>2, <2>3 DEF MemOK, TypeOK
<1>4. RefsExact
  <2>1. \A p \in Pages : Mappings(p) = {}
    BY PhysAssumption DEF Init, Mappings, Pages
  <2> QED
    BY <2>1, FS_EmptySet DEF Init, RefsExact
<1>5. CountBound /\ OpOK /\ OnlyOOMPanics
  BY DEF Init, CountBound, OpOK, OnlyOOMPanics
<1> QED
  BY <1>1, <1>3, <1>4, <1>5 DEF IInv

\* A step that starts or ends a loop, or panics for lack of memory, leaves
\* memory, owners and mappings alone.
LEMMA ControlInv ==
  ASSUME IInv, mem' = mem, held' = held, pte' = pte, TypeOK', OpOK',
         FreePages(mem) \ Unlinked' = FreePages(mem) \ Unlinked,
         OnlyOOMPanics',
         op.kind # "map" \/ (op' = op /\ call' = call)
  PROVE  IInv'
<1>1. MemOK(mem, Unlinked)'
  BY DEF IInv, MemOK
<1>2. RefsExact'
  BY DEF IInv, RefsExact, Mappings
<1>3. CountBound'
  BY DEF IInv, CountBound
<1> QED
  BY <1>1, <1>2, <1>3 DEF IInv

\* phys_force_free: one page.
LEMMA ForceStepInv ==
  ASSUME IInv, ForceStep
  PROVE  IInv' /\ NoNewWired
<1>1. /\ TypeOK /\ RefsExact /\ CountBound /\ OpOK /\ OnlyOOMPanics
      /\ MemOK(mem, {}) /\ op.i < op.hi
      /\ mem' = PhysForceFree(mem, op.i) /\ op' = [op EXCEPT !.i = @ + 1]
      /\ held' = held /\ pte' = pte /\ call' = call /\ panic' = panic
      /\ op.kind \in {"init1", "init2", "force"}
  BY DEF IInv, ForceStep, Running, Unlinked, Advance
<1>2. op.i \in Pages /\ op.i \in op.i..(op.hi - 1)
  BY <1>1, LoopPage
<1>3. mem.ppage_list[op.i] \in {0, PAGE_WIRED}
  BY <1>1, <1>2 DEF OpOK
<1>4. MemOK(mem', {}) /\ mem'.ppage_list = [mem.ppage_list EXCEPT ![op.i] = 0]
  BY <1>1, <1>2, <1>3, ForceFreeOK
<1>5. op'.kind = op.kind /\ op'.lo = op.lo /\ op'.hi = op.hi /\ op'.i = op.i + 1
  BY <1>1 DEF TypeOK
<1>6. TypeOK'
  BY <1>1, <1>4, <1>5, LoopPage DEF TypeOK, MemOK
<1>7. MemOK(mem, Unlinked)'
  BY <1>1, <1>4, <1>5 DEF Unlinked
<1>8. /\ mem.ppage_list \in [Pages -> 0..PAGE_WIRED]
      /\ \A q \in Pages : mem'.ppage_list[q] = IF q = op.i THEN 0 ELSE mem.ppage_list[q]
  BY <1>1, <1>4 DEF TypeOK, MemType
<1>9. RefsExact'
  <2>1. held[op.i] = 0 /\ Mappings(op.i) = {}
    BY <1>1, <1>2, <1>3, UnusedPage
  <2>2. \A p \in Pages : Mappings(p)' = Mappings(p)
    BY <1>1 DEF Mappings
  <2>3. SUFFICES ASSUME NEW p \in Pages
                 PROVE  held'[p] + Cardinality(Mappings(p)') =
                          IF mem'.ppage_list[p] = PAGE_WIRED THEN 0 ELSE mem'.ppage_list[p]
    BY DEF RefsExact
  <2>4. CASE p = op.i
    <3>1. held'[p] = 0 /\ mem'.ppage_list[p] = 0
      BY <1>1, <1>8, <2>1, <2>4
    <3>2. Cardinality(Mappings(p)') = 0
      BY <2>1, <2>2, <2>4, FS_EmptySet
    <3> QED
      BY <3>1, <3>2
  <2>5. CASE p # op.i
    BY <1>1, <1>8, <2>2, <2>5 DEF RefsExact
  <2> QED
    BY <2>4, <2>5
<1>10. CountBound' /\ OnlyOOMPanics'
  <2>1. CountBound'
    BY <1>1, <1>8, PhysAssumption DEF CountBound
  <2> QED
    BY <2>1, <1>1 DEF OnlyOOMPanics
<1>11. OpOK'
  BY <1>1, <1>2, <1>4, <1>5, <1>8, LoopPage DEF OpOK
<1>12. NoNewWired
  BY <1>8, PhysAssumption DEF NoNewWired
<1> QED
  BY <1>6, <1>7, <1>9, <1>10, <1>11, <1>12 DEF IInv

\* phys_unlink_contiguous: one page; its panics cannot happen.
LEMMA UnlinkStepInv ==
  ASSUME IInv, UnlinkStep
  PROVE  IInv' /\ NoNewWired
<1>1. /\ TypeOK /\ RefsExact /\ CountBound /\ OpOK /\ OnlyOOMPanics
      /\ MemOK(mem, op.lo..(op.i - 1)) /\ op.i < op.hi /\ op.kind = "unlink"
  BY DEF IInv, UnlinkStep, Running, Unlinked
<1> DEFINE L == FreePages(mem) \ (op.lo..(op.i - 1))
<1>2. op.i \in L /\ op.i \in Pages
  BY <1>1, LoopPage DEF OpOK, FreePages
<1>3. mem.next[op.i] \in L \cup {0} /\ mem.prev[op.i] \in L \cup {0}
  BY <1>1, <1>2 DEF MemOK, Chain, Linked
<1>4. -1 \notin {op.i, mem.next[op.i], mem.prev[op.i]} \ {0}
  BY <1>2, <1>3, PhysAssumption DEF FreePages, Pages
<1>5. \A q \in {op.i, mem.next[op.i], mem.prev[op.i]} \ {0} : mem.ppage_list[q] = 0
  BY <1>2, <1>3 DEF FreePages
<1>6. /\ mem' = PhysUnlink(mem, op.i) /\ op' = [op EXCEPT !.i = @ + 1]
      /\ held' = held /\ pte' = pte /\ call' = call /\ panic' = panic
  BY <1>4, <1>5 DEF UnlinkStep, Advance
<1>7. op'.kind = op.kind /\ op'.lo = op.lo /\ op'.hi = op.hi /\ op'.i = op.i + 1
  BY <1>1, <1>6 DEF TypeOK
<1>8. /\ MemOK(mem', (op.lo..(op.i - 1)) \cup {op.i})
      /\ mem'.ppage_list = mem.ppage_list
  BY <1>1, <1>2, <1>6, UnlinkOK
<1>9. TypeOK'
  BY <1>1, <1>6, <1>7, <1>8, LoopPage DEF TypeOK, MemOK
<1>10. MemOK(mem, Unlinked)'
  <2>1. Unlinked' = op.lo..((op.i + 1) - 1)
    BY <1>1, <1>7 DEF Unlinked
  <2>2. Unlinked' = (op.lo..(op.i - 1)) \cup {op.i}
    BY <1>1, <2>1, LoopPage
  <2> QED
    BY <1>8, <2>2
<1>11. RefsExact' /\ CountBound' /\ OpOK' /\ OnlyOOMPanics'
  BY <1>1, <1>6, <1>7, <1>8
  DEF RefsExact, Mappings, CountBound, OpOK, OnlyOOMPanics
<1>12. NoNewWired
  BY <1>8 DEF NoNewWired
<1> QED
  BY <1>9, <1>10, <1>11, <1>12 DEF IInv

\* phys_reference: one page, either fresh from the free list or owned.
LEMMA RefStepInv ==
  ASSUME IInv, RefStep
  PROVE  IInv' /\ NoNewWired
<1> DEFINE i == op.i
           U == i..(op.hi - 1)
           c == mem.ppage_list[i]
<1>1. /\ TypeOK /\ RefsExact /\ CountBound /\ OpOK /\ OnlyOOMPanics
      /\ MemOK(mem, U) /\ i < op.hi /\ op.kind = "ref"
      /\ mem' = HandedOut(PhysReference(mem, i), i)
      /\ held' = [held EXCEPT ![i] = @ + 1]
      /\ op' = [op EXCEPT !.i = @ + 1]
      /\ pte' = pte /\ call' = call /\ panic' = panic
  BY DEF IInv, RefStep, Running, Unlinked, Advance
<1>2. i \in Pages /\ i \in U
  BY <1>1, LoopPage
<1>3. op'.kind = op.kind /\ op'.lo = op.lo /\ op'.hi = op.hi /\ op'.i = i + 1
  BY <1>1 DEF TypeOK
<1>4. /\ mem.ppage_list \in [Pages -> 0..PAGE_WIRED] /\ held \in [Pages -> Nat]
      /\ c \in 0..PAGE_WIRED /\ held[i] \in Nat
  BY <1>1, <1>2 DEF TypeOK, MemType
<1>5. /\ Unlinked' = (i + 1)..(op.hi - 1)
      /\ U \ {i} = Unlinked'
  <2>1. Unlinked' = (i + 1)..(op.hi - 1)
    BY <1>1, <1>3 DEF Unlinked
  <2> QED
    BY <1>1, <2>1, LoopPage
<1>6. /\ MemOK(mem', Unlinked')
      /\ mem'.ppage_list = [mem.ppage_list EXCEPT ![i] = c + 1]
      /\ c + 1 \in 1..MaxRefs
      /\ c = held[i] + Cardinality(Mappings(i))
  <2>1. CASE c = 0
    <3>1. held[i] = 0 /\ Cardinality(Mappings(i)) = 0
      BY <1>1, <1>2, <2>1, UnusedPage, FS_EmptySet
    <3>2. /\ MemOK(mem', U \ {i})
          /\ mem'.ppage_list = [mem.ppage_list EXCEPT ![i] = 1]
      BY <1>1, <1>2, <2>1, ReferenceUnlinked
    <3>3. c + 1 = 1 /\ 1 \in 1..MaxRefs /\ c = held[i] + Cardinality(Mappings(i))
      BY <2>1, <3>1, PhysAssumption
    <3> HIDE DEF c
    <3> QED
      BY <1>5, <3>2, <3>3
  <2>2. CASE c # 0
    <3>1. held[i] > 0 /\ c < MaxRefs
      BY <1>1, <1>2, <2>2 DEF OpOK
    <3>2. c = held[i] + Cardinality(Mappings(i)) /\ c \in 1..MaxRefs
      BY <1>1, <1>2, <3>1, UsedPage
    <3>3. c \in 1..(PAGE_WIRED - 2) /\ c + 1 \in 1..MaxRefs
      BY <3>1, <3>2, PhysAssumption
    <3> DEFINE n == PhysReference(mem, i)
    <3>4. MemOK(n, U) /\ n.ppage_list = [mem.ppage_list EXCEPT ![i] = c + 1]
      BY <1>1, <1>2, <3>3, ReferenceUsed
    <3>5. mem' = HandedOut(n, i)
      BY <1>1
    <3> HIDE DEF n
    <3>6. /\ mem'.ppage_list = n.ppage_list
          /\ mem'.free_pages = n.free_pages /\ mem'.wired_pages = n.wired_pages
          /\ MemType(mem')
      BY <3>4, <3>5 DEF HandedOut, MemOK, MemType
    <3>7. /\ FreePages(mem') = FreePages(n) /\ WiredPages(mem') = WiredPages(n)
          /\ FreePages(n) \ U \in SUBSET Pages
      BY <3>6 DEF FreePages, WiredPages
    <3>8. FreePages(mem') \ (U \ {i}) = FreePages(n) \ U
      <4>1. i \notin FreePages(n)
        BY <1>4, <3>2, <3>4 DEF FreePages
      <4> QED
        BY <4>1, <3>7
    <3>9. Chain(mem', FreePages(n) \ U)
      BY <1>2, <3>4, <3>5, <3>7, HandedOutChain DEF MemOK
    <3> QED
      BY <1>5, <3>2, <3>3, <3>4, <3>6, <3>7, <3>8, <3>9 DEF MemOK, CountsOK
  <2> QED
    BY <2>1, <2>2
<1>7. TypeOK'
  BY <1>1, <1>2, <1>3, <1>4, <1>6, LoopPage DEF TypeOK, MemOK
<1>8. \A q \in Pages : /\ mem'.ppage_list[q] = IF q = i THEN c + 1 ELSE mem.ppage_list[q]
                       /\ held'[q] = IF q = i THEN held[i] + 1 ELSE held[q]
  BY <1>1, <1>4, <1>6
<1> HIDE DEF c
<1>9. RefsExact'
  <2>1. \A q \in Pages : Mappings(q)' = Mappings(q)
    BY <1>1 DEF Mappings
  <2>2. SUFFICES ASSUME NEW q \in Pages
                 PROVE  held'[q] + Cardinality(Mappings(q)') =
                          IF mem'.ppage_list[q] = PAGE_WIRED THEN 0 ELSE mem'.ppage_list[q]
    BY DEF RefsExact
  <2>3. CASE q = i
    <3>1. held'[q] = held[i] + 1 /\ mem'.ppage_list[q] = c + 1 /\ c + 1 # PAGE_WIRED
      BY <1>6, <1>8, <2>3, PhysAssumption
    <3>2. Cardinality(Mappings(i)) \in Nat
      BY MappingsType
    <3> QED
      BY <1>4, <1>6, <2>1, <2>3, <3>1, <3>2
  <2>4. CASE q # i
    BY <1>1, <1>8, <2>1, <2>4 DEF RefsExact
  <2> QED
    BY <2>3, <2>4
<1>10. CountBound'
  BY <1>1, <1>6, <1>8, PhysAssumption DEF CountBound
<1>11. OpOK'
  <2>1. \A q \in (i + 1)..(op.hi - 1) : q \in Pages /\ q # i /\ q \in U
    BY <1>1, LoopPage
  <2> QED
    BY <1>1, <1>3, <1>8, <2>1 DEF OpOK
<1>12. OnlyOOMPanics'
  BY <1>1 DEF OnlyOOMPanics
<1>13. NoNewWired
  BY <1>6, <1>8, PhysAssumption DEF NoNewWired
<1> QED
  BY <1>6, <1>7, <1>9, <1>10, <1>11, <1>12, <1>13 DEF IInv

\* phys_dereference: one page; its panic cannot happen.
LEMMA DerefStepInv ==
  ASSUME IInv, DerefStep
  PROVE  IInv' /\ NoNewWired
<1> DEFINE i == op.i
           c == mem.ppage_list[i]
<1>1. /\ TypeOK /\ RefsExact /\ CountBound /\ OpOK /\ OnlyOOMPanics
      /\ MemOK(mem, {}) /\ i < op.hi /\ op.kind = "deref"
  BY DEF IInv, DerefStep, Running, Unlinked
<1>2. i \in Pages /\ i \in i..(op.hi - 1)
  BY <1>1, LoopPage
<1>3. held[i] > 0
  BY <1>1, <1>2 DEF OpOK
<1>4. c \in 1..MaxRefs /\ c # 0 /\ c # PAGE_WIRED /\ c = held[i] + Cardinality(Mappings(i))
  BY <1>1, <1>2, <1>3, UsedPage
<1>5. /\ mem' = PhysDereference(mem, i)
      /\ held' = [held EXCEPT ![i] = @ - 1]
      /\ op' = [op EXCEPT !.i = @ + 1]
      /\ pte' = pte /\ call' = call /\ panic' = panic
  BY <1>4 DEF DerefStep, Advance
<1>6. op'.kind = op.kind /\ op'.lo = op.lo /\ op'.hi = op.hi /\ op'.i = i + 1
  BY <1>1, <1>5 DEF TypeOK
<1>7. c \in 1..(PAGE_WIRED - 1)
  BY <1>4, PhysAssumption
<1>8. MemOK(mem', {}) /\ mem'.ppage_list = [mem.ppage_list EXCEPT ![i] = c - 1]
  BY <1>1, <1>2, <1>5, <1>7, DereferenceUsed
<1>9. /\ mem.ppage_list \in [Pages -> 0..PAGE_WIRED] /\ held \in [Pages -> Nat]
      /\ held[i] \in Nat
  BY <1>1, <1>2 DEF TypeOK, MemType
<1>10. TypeOK'
  BY <1>1, <1>2, <1>3, <1>5, <1>6, <1>8, <1>9, LoopPage DEF TypeOK, MemOK
<1>11. \A q \in Pages : /\ mem'.ppage_list[q] = IF q = i THEN c - 1 ELSE mem.ppage_list[q]
                        /\ held'[q] = IF q = i THEN held[i] - 1 ELSE held[q]
  BY <1>5, <1>8, <1>9
<1> HIDE DEF c
<1>12. RefsExact'
  <2>1. \A q \in Pages : Mappings(q)' = Mappings(q)
    BY <1>5 DEF Mappings
  <2>2. SUFFICES ASSUME NEW q \in Pages
                 PROVE  held'[q] + Cardinality(Mappings(q)') =
                          IF mem'.ppage_list[q] = PAGE_WIRED THEN 0 ELSE mem'.ppage_list[q]
    BY DEF RefsExact
  <2>3. CASE q = i
    <3>1. held'[q] = held[i] - 1 /\ mem'.ppage_list[q] = c - 1 /\ c - 1 # PAGE_WIRED
      BY <1>4, <1>11, <2>3, PhysAssumption
    <3>2. Cardinality(Mappings(i)) \in Nat
      BY MappingsType
    <3> QED
      BY <1>4, <1>9, <2>1, <2>3, <3>1, <3>2
  <2>4. CASE q # i
    BY <1>1, <1>11, <2>1, <2>4 DEF RefsExact
  <2> QED
    BY <2>3, <2>4
<1>13. CountBound'
  BY <1>1, <1>4, <1>11, PhysAssumption DEF CountBound
<1>14. OpOK'
  <2>1. \A q \in (i + 1)..(op.hi - 1) : q \in Pages /\ q # i /\ q \in i..(op.hi - 1)
    BY <1>1, LoopPage
  <2> QED
    BY <1>1, <1>6, <1>11, <2>1 DEF OpOK
<1>15. MemOK(mem, Unlinked)' /\ OnlyOOMPanics'
  BY <1>1, <1>5, <1>6, <1>8 DEF OnlyOOMPanics, Unlinked
<1>16. NoNewWired
  BY <1>4, <1>11, PhysAssumption DEF NoNewWired
<1> QED
  BY <1>10, <1>12, <1>13, <1>14, <1>15, <1>16 DEF IInv

\* ppage_alloc never follows an overwritten link, and the page it hands out
\* had neither owner nor mapping.
LEMMA PpageAllocInv ==
  ASSUME IInv, PpageAlloc
  PROVE  /\ IInv' /\ NoNewWired
         /\ mem.pa_head # NULL => held[mem.pa_head] = 0 /\ Mappings(mem.pa_head) = {}
<1> DEFINE h == mem.pa_head
<1>1. /\ TypeOK /\ RefsExact /\ CountBound /\ OpOK /\ OnlyOOMPanics
      /\ MemOK(mem, {}) /\ op.kind = "idle" /\ Unlinked = {}
  BY DEF IInv, PpageAlloc, Running, Unlinked
<1>2. CASE h = 0
  <2>1. UNCHANGED <<mem, op, held, pte, call>> /\ panic' = "ppage_alloc: OOM"
    BY <1>2 DEF PpageAlloc, Panic
  <2>2. TypeOK' /\ OpOK' /\ OnlyOOMPanics' /\ Unlinked' = Unlinked
    BY <1>1, <2>1 DEF TypeOK, OpOK, OnlyOOMPanics, Unlinked
  <2>3. NoNewWired
    BY <2>1 DEF NoNewWired
  <2> QED
    BY <1>1, <1>2, <2>1, <2>2, <2>3, ControlInv
<1>3. CASE h # 0
  <2>1. /\ h \in FreePages(mem) /\ mem.next[h] # -1
        /\ MemOK(HandedOut(PhysReference(PpagePop(mem), h), h), {})
        /\ HandedOut(PhysReference(PpagePop(mem), h), h).ppage_list =
             [mem.ppage_list EXCEPT ![h] = 1]
    BY <1>1, <1>3, PopOK
  <2>2. /\ mem' = HandedOut(PhysReference(PpagePop(mem), h), h)
        /\ held' = [held EXCEPT ![h] = @ + 1]
        /\ op' = op /\ pte' = pte /\ call' = call /\ panic' = panic
    BY <1>3, <2>1 DEF PpageAlloc
  <2>3. MemOK(mem', {}) /\ mem'.ppage_list = [mem.ppage_list EXCEPT ![h] = 1]
    BY <2>1, <2>2
  <2>4. h \in Pages /\ mem.ppage_list[h] = 0
    BY <2>1 DEF FreePages
  <2> HIDE DEF h
  <2>5. held[h] = 0 /\ Mappings(h) = {}
    BY <1>1, <2>4, UnusedPage
  <2>6. mem.ppage_list \in [Pages -> 0..PAGE_WIRED] /\ held \in [Pages -> Nat]
    BY <1>1 DEF TypeOK, MemType
  <2>7. \A q \in Pages : /\ mem'.ppage_list[q] = IF q = h THEN 1 ELSE mem.ppage_list[q]
                         /\ held'[q] = IF q = h THEN 1 ELSE held[q]
    BY <2>2, <2>3, <2>5, <2>6
  <2>8. TypeOK'
    BY <1>1, <2>2, <2>3, <2>4, <2>6 DEF TypeOK, MemOK
  <2>9. RefsExact'
    <3>1. \A q \in Pages : Mappings(q)' = Mappings(q)
      BY <2>2 DEF Mappings
    <3>2. SUFFICES ASSUME NEW q \in Pages
                   PROVE  held'[q] + Cardinality(Mappings(q)') =
                            IF mem'.ppage_list[q] = PAGE_WIRED THEN 0 ELSE mem'.ppage_list[q]
      BY DEF RefsExact
    <3>3. CASE q = h
      <4>1. Cardinality(Mappings(q)') = 0
        BY <2>5, <3>1, <3>3, FS_EmptySet
      <4> QED
        BY <2>7, <3>3, <4>1, PhysAssumption
    <3>4. CASE q # h
      BY <1>1, <2>7, <3>1, <3>4 DEF RefsExact
    <3> QED
      BY <3>3, <3>4
  <2>10. CountBound'
    BY <1>1, <2>7, PhysAssumption DEF CountBound
  <2>11. OpOK' /\ OnlyOOMPanics' /\ MemOK(mem, Unlinked)'
    BY <1>1, <2>2, <2>3 DEF OpOK, OnlyOOMPanics, Unlinked
  <2>12. NoNewWired
    BY <2>7, PhysAssumption DEF NoNewWired
  <2> QED
    BY <2>5, <2>8, <2>9, <2>10, <2>11, <2>12 DEF IInv, h
<1> QED
  BY <1>2, <1>3

\* One entry that maps old and is to map p: p gains a reference, old loses one.
LEMMA MapEntryOK ==
  ASSUME NEW m, MemOK(m, {}), NEW p \in Pages \cup {0}, NEW old \in Pages \cup {0},
         p # 0 => m.ppage_list[p] \in 1..MaxRefs,
         old # 0 => m.ppage_list[old] \in 1..(MaxRefs + 1)
  PROVE  /\ MemOK(MapEntry(m, old, p), {})
         /\ \A q \in Pages : MapEntry(m, old, p).ppage_list[q] =
              IF q = p /\ q # old THEN m.ppage_list[q] + 1
              ELSE IF q = old /\ q # p THEN m.ppage_list[q] - 1 ELSE m.ppage_list[q]
<1> DEFINE m1 == IF p = 0 THEN m ELSE PhysReference(m, p)
           n == IF old = 0 THEN m1 ELSE PhysDereference(m1, old)
<1>0. 0 \notin Pages
  BY PhysAssumption DEF Pages
<1>1. m.ppage_list \in [Pages -> 0..PAGE_WIRED]
  BY DEF MemOK, MemType
<1>2. /\ MemOK(m1, {})
      /\ \A q \in Pages : m1.ppage_list[q] =
           IF q = p THEN m.ppage_list[q] + 1 ELSE m.ppage_list[q]
      /\ m1.ppage_list \in [Pages -> 0..PAGE_WIRED]
  <2>1. CASE p = 0
    BY <1>0, <1>1, <2>1
  <2>2. CASE p # 0
    <3>1. p \in Pages /\ m.ppage_list[p] \in 1..(PAGE_WIRED - 2)
      BY <2>2, PhysAssumption
    <3>2. /\ MemOK(m1, {})
          /\ m1.ppage_list = [m.ppage_list EXCEPT ![p] = m.ppage_list[p] + 1]
      BY <2>2, <3>1, ReferenceUsed
    <3> HIDE DEF m1
    <3> QED
      BY <1>1, <3>1, <3>2 DEF MemOK, MemType
  <2> QED
    BY <2>1, <2>2
<1>3. MapEntry(m, old, p) = n
  BY DEF MapEntry
<1> HIDE DEF m1
<1>4. CASE old = 0
  BY <1>0, <1>2, <1>3, <1>4
<1>5. CASE old # 0
  <2>1. old \in Pages /\ m1.ppage_list[old] \in 1..(PAGE_WIRED - 1)
    <3>1. m.ppage_list[old] \in 1..(MaxRefs + 1) /\ old \in Pages
      BY <1>5
    <3>2. m1.ppage_list[old] = IF old = p THEN m.ppage_list[old] + 1 ELSE m.ppage_list[old]
      BY <1>2, <3>1
    <3>3. old = p => m.ppage_list[old] \in 1..MaxRefs
      BY <1>5
    <3> QED
      BY <3>1, <3>2, <3>3, PhysAssumption
  <2>2. /\ MemOK(n, {})
        /\ n.ppage_list = [m1.ppage_list EXCEPT ![old] = m1.ppage_list[old] - 1]
    BY <1>2, <1>5, <2>1, DereferenceUsed
  <2> HIDE DEF n
  <2>3. \A q \in Pages : n.ppage_list[q] =
          IF q = old THEN m1.ppage_list[q] - 1 ELSE m1.ppage_list[q]
    BY <1>2, <2>1, <2>2
  <2>4. \A q \in Pages : m.ppage_list[q] \in Int
    BY <1>1, PhysAssumption
  <2> QED
    BY <1>2, <1>3, <2>2, <2>3, <2>4
<1> QED
  BY <1>4, <1>5

\* How the number of mappings of a page follows a change of one entry.
LEMMA MappingsChange ==
  ASSUME NEW e \in Ptes, NEW p \in Pages \cup {0}, NEW q \in Pages,
         pte \in [Ptes -> Pages \cup {0}], pte' = [pte EXCEPT ![e] = p]
  PROVE  /\ (q = p /\ q # pte[e]) =>
              Cardinality(Mappings(q)') = Cardinality(Mappings(q)) + 1
         /\ (q # p /\ q = pte[e]) =>
              Cardinality(Mappings(q)') = Cardinality(Mappings(q)) - 1
         /\ (q = p <=> q = pte[e]) => Mappings(q)' = Mappings(q)
<1>1. /\ q = p => Mappings(q)' = Mappings(q) \cup {e}
      /\ q # p => Mappings(q)' = Mappings(q) \ {e}
      /\ e \in Mappings(q) <=> q = pte[e]
  BY DEF Mappings
<1>2. IsFiniteSet(Mappings(q)) /\ Cardinality(Mappings(q)) \in Nat
  BY MappingsType
<1>3. (q = p /\ q # pte[e]) => Cardinality(Mappings(q)') = Cardinality(Mappings(q)) + 1
  BY <1>1, <1>2, FS_AddElement
<1>4. (q # p /\ q = pte[e]) => Cardinality(Mappings(q)') = Cardinality(Mappings(q)) - 1
  BY <1>1, <1>2, FS_RemoveElement
<1>5. (q = p <=> q = pte[e]) => Mappings(q)' = Mappings(q)
  BY <1>1
<1> QED
  BY <1>3, <1>4, <1>5

\* map_range_map: one entry, whatever it maps and is to map; the panic of
\* phys_dereference cannot happen.
LEMMA MapStepInv ==
  ASSUME IInv, MapStep
  PROVE  IInv' /\ NoNewWired
<1> DEFINE e == <<call.va, call.i>>
           old == pte[e]
           p == call.page
<1>1. /\ TypeOK /\ RefsExact /\ CountBound /\ OpOK /\ OnlyOOMPanics
      /\ MemOK(mem, {}) /\ op.kind = "map" /\ call.i <= Entries
  BY DEF IInv, MapStep, Running, Unlinked
<1>2. /\ mem.ppage_list \in [Pages -> 0..PAGE_WIRED] /\ held \in [Pages -> Nat]
      /\ pte \in [Ptes -> Pages \cup {0}]
      /\ call.i \in 1..Entries /\ p \in Pages \cup {0} /\ 0 \notin Pages
      /\ call \in [va : VAs \cup {0}, page : Pages \cup {0}, i : 1..(Entries + 1)]
  <2>1. mem.ppage_list \in [Pages -> 0..PAGE_WIRED]
    BY <1>1 DEF TypeOK, MemType
  <2>2. /\ held \in [Pages -> Nat] /\ pte \in [Ptes -> Pages \cup {0}]
        /\ call \in [va : VAs \cup {0}, page : Pages \cup {0}, i : 1..(Entries + 1)]
    BY <1>1 DEF TypeOK
  <2>3. call.i \in 1..Entries /\ p \in Pages \cup {0} /\ 0 \notin Pages
    BY <1>1, <2>2, PhysAssumption DEF Pages
  <2> QED
    BY <2>1, <2>2, <2>3
<1>3. e \in Ptes /\ old \in Pages \cup {0}
  <2>1. call.va \in VAs
    BY <1>1 DEF OpOK
  <2> QED
    BY <1>2, <2>1 DEF Ptes
<1> HIDE DEF e
<1>4. old # 0 => mem.ppage_list[old] \in 1..(MaxRefs + 1) /\ mem.ppage_list[old] # 0
  <2>1. e \in Mappings(old)
    BY <1>3 DEF Mappings
  <2> QED
    BY <1>1, <1>3, <2>1, UsedPage
<1>5. p # 0 => /\ held[p] > 0
               /\ mem.ppage_list[p] \in 1..MaxRefs
               /\ mem.ppage_list[p] + Entries <= MaxRefs + call.i
  <2>1. p # 0 => held[p] > 0 /\ mem.ppage_list[p] + Entries <= MaxRefs + call.i
    BY <1>1 DEF OpOK
  <2>2. p # 0 => mem.ppage_list[p] \in 1..(MaxRefs + 1)
    BY <1>1, <1>2, <2>1, UsedPage
  <2> HIDE DEF p
  <2> QED
    BY <1>2, <2>1, <2>2, PhysAssumption
<1>6. /\ mem' = MapEntry(mem, old, p)
      /\ pte' = [pte EXCEPT ![e] = p]
      /\ call' = [call EXCEPT !.i = @ + 1]
      /\ op' = op /\ held' = held /\ panic' = panic
  BY <1>4 DEF MapStep, e
<1>7. /\ MemOK(mem', {})
      /\ \A q \in Pages : mem'.ppage_list[q] =
           IF q = p /\ q # old THEN mem.ppage_list[q] + 1
           ELSE IF q = old /\ q # p THEN mem.ppage_list[q] - 1 ELSE mem.ppage_list[q]
  BY <1>1, <1>2, <1>3, <1>4, <1>5, <1>6, MapEntryOK
<1>8. /\ call'.i = call.i + 1 /\ call'.page = p /\ call'.va = call.va
      /\ call' \in [va : VAs \cup {0}, page : Pages \cup {0}, i : 1..(Entries + 1)]
  BY <1>2, <1>6, PhysAssumption
<1>9. TypeOK'
  <2>1. pte' \in [Ptes -> Pages \cup {0}]
    BY <1>2, <1>3, <1>6
  <2> QED
    BY <1>1, <1>6, <1>7, <1>8, <2>1 DEF TypeOK, MemOK
<1> HIDE DEF old, p
<1>10. ASSUME NEW q \in Pages
       PROVE  /\ held'[q] + Cardinality(Mappings(q)') =
                   IF mem'.ppage_list[q] = PAGE_WIRED THEN 0 ELSE mem'.ppage_list[q]
              /\ mem'.ppage_list[q] = PAGE_WIRED => mem.ppage_list[q] = PAGE_WIRED
  <2>1. /\ held[q] + Cardinality(Mappings(q)) =
             IF mem.ppage_list[q] = PAGE_WIRED THEN 0 ELSE mem.ppage_list[q]
        /\ held[q] \in Nat /\ Cardinality(Mappings(q)) \in Nat
        /\ mem.ppage_list[q] \in 0..PAGE_WIRED
        /\ held'[q] = held[q]
    BY <1>1, <1>2, <1>6, MappingsType DEF RefsExact
  <2>2. /\ (q = p /\ q # old) => Cardinality(Mappings(q)') = Cardinality(Mappings(q)) + 1
        /\ (q # p /\ q = old) => Cardinality(Mappings(q)') = Cardinality(Mappings(q)) - 1
        /\ (q = p <=> q = old) => Mappings(q)' = Mappings(q)
    BY <1>2, <1>3, <1>6, MappingsChange DEF old
  <2>3. CASE q = p /\ q # old
    <3>1. /\ Cardinality(Mappings(q)') = Cardinality(Mappings(q)) + 1
          /\ mem'.ppage_list[q] = mem.ppage_list[q] + 1
          /\ mem.ppage_list[q] \in 1..MaxRefs
      BY <1>2, <1>5, <1>7, <2>2, <2>3
    <3> QED
      BY <2>1, <3>1, PhysAssumption
  <2>4. CASE q # p /\ q = old
    <3>1. /\ Cardinality(Mappings(q)') = Cardinality(Mappings(q)) - 1
          /\ mem'.ppage_list[q] = mem.ppage_list[q] - 1
          /\ mem.ppage_list[q] \in 1..(MaxRefs + 1)
      BY <1>2, <1>4, <1>7, <2>2, <2>4
    <3> QED
      BY <2>1, <3>1, PhysAssumption
  <2>5. CASE q = p <=> q = old
    <3>1. Mappings(q)' = Mappings(q) /\ mem'.ppage_list[q] = mem.ppage_list[q]
      BY <1>7, <2>2, <2>5
    <3> QED
      BY <2>1, <3>1
  <2> QED
    BY <2>3, <2>4, <2>5
<1>11. RefsExact' /\ NoNewWired
  BY <1>10 DEF RefsExact, NoNewWired
<1>12. CountBound'
  <2>1. SUFFICES ASSUME NEW q \in Pages
                 PROVE  \/ mem'.ppage_list[q] <= MaxRefs
                        \/ mem'.ppage_list[q] = PAGE_WIRED
                        \/ q = p /\ mem'.ppage_list[q] <= MaxRefs + 1
    BY <1>1, <1>6, <1>8 DEF CountBound
  <2>2. mem.ppage_list[q] \in Int /\ MaxRefs \in Int
    BY <1>2, PhysAssumption
  <2>3. CASE q = p
    <3>1. mem.ppage_list[q] \in 1..MaxRefs
      BY <1>2, <1>5, <2>3
    <3>2. mem'.ppage_list[q] = mem.ppage_list[q] + 1 \/ mem'.ppage_list[q] = mem.ppage_list[q]
      BY <1>7, <2>3
    <3> QED
      BY <2>2, <2>3, <3>1, <3>2
  <2>4. CASE q # p
    <3>1. mem.ppage_list[q] <= MaxRefs \/ mem.ppage_list[q] = PAGE_WIRED
      BY <1>1, <2>4 DEF CountBound, p
    <3>2. CASE q = old
      <4>1. mem.ppage_list[q] \in 1..(MaxRefs + 1) /\ mem'.ppage_list[q] = mem.ppage_list[q] - 1
        BY <1>2, <1>4, <1>7, <2>4, <3>2
      <4> QED
        BY <2>2, <4>1
    <3>3. CASE q # old
      BY <1>7, <2>4, <3>1, <3>3
    <3> QED
      BY <3>2, <3>3
  <2> QED
    BY <2>3, <2>4
<1>13. OpOK'
  <2>1. call.va \in VAs
    BY <1>1 DEF OpOK
  <2>2. p # 0 => mem'.ppage_list[p] + Entries <= MaxRefs + (call.i + 1)
    <3>1. SUFFICES ASSUME p # 0
                   PROVE  mem'.ppage_list[p] + Entries <= MaxRefs + (call.i + 1)
      OBVIOUS
    <3>2. /\ mem.ppage_list[p] \in 1..MaxRefs
          /\ mem.ppage_list[p] + Entries <= MaxRefs + call.i
      BY <1>5, <3>1
    <3>3. mem'.ppage_list[p] = mem.ppage_list[p] + 1 \/ mem'.ppage_list[p] = mem.ppage_list[p]
      BY <1>2, <1>7, <3>1
    <3> QED
      BY <1>2, <3>2, <3>3, PhysAssumption
  <2> QED
    BY <1>1, <1>5, <1>6, <1>8, <2>1, <2>2 DEF OpOK
<1>14. OnlyOOMPanics' /\ MemOK(mem, Unlinked)'
  BY <1>1, <1>6, <1>7 DEF OnlyOOMPanics, Unlinked
<1> QED
  BY <1>9, <1>11, <1>12, <1>13, <1>14 DEF IInv

\* The end of vm_space_map_page_physical_prot: the reference of the caller is
\* consumed.
LEMMA MapDoneInv ==
  ASSUME IInv, MapDone
  PROVE  IInv' /\ NoNewWired
<1> DEFINE p == call.page
           c == mem.ppage_list[p]
<1>1. /\ TypeOK /\ RefsExact /\ CountBound /\ OpOK /\ OnlyOOMPanics
      /\ MemOK(mem, {}) /\ op.kind = "map" /\ call.i = Entries + 1
  BY DEF IInv, MapDone, Running, Unlinked
<1>2. /\ mem.ppage_list \in [Pages -> 0..PAGE_WIRED] /\ held \in [Pages -> Nat]
      /\ pte \in [Ptes -> Pages \cup {0}]
      /\ p \in Pages \cup {0} /\ 0 \notin Pages
      /\ \A q \in Pages : mem.ppage_list[q] \in Int
  <2>1. mem.ppage_list \in [Pages -> 0..PAGE_WIRED]
    BY <1>1 DEF TypeOK, MemType
  <2>2. /\ held \in [Pages -> Nat] /\ pte \in [Ptes -> Pages \cup {0}]
        /\ p \in Pages \cup {0}
    BY <1>1 DEF TypeOK
  <2>3. 0 \notin Pages
    BY PhysAssumption DEF Pages
  <2> QED
    BY <2>1, <2>2, <2>3, PhysAssumption
<1>3. p # 0 => /\ p \in Pages /\ held[p] > 0 /\ held[p] \in Nat
               /\ c \in 1..(MaxRefs + 1) /\ c # 0 /\ c # PAGE_WIRED
               /\ c = held[p] + Cardinality(Mappings(p))
  <2>1. p # 0 => held[p] > 0
    BY <1>1 DEF OpOK
  <2> QED
    BY <1>1, <1>2, <2>1, UsedPage
<1>4. /\ mem' = IF p = 0 THEN mem ELSE PhysDereference(mem, p)
      /\ held' = IF p = 0 THEN held ELSE [held EXCEPT ![p] = @ - 1]
      /\ op' = Idle /\ call' = NoCall /\ pte' = pte /\ panic' = panic
  BY <1>3 DEF MapDone
<1>5. /\ MemOK(mem', {})
      /\ \A q \in Pages : /\ mem'.ppage_list[q] = IF q = p THEN mem.ppage_list[q] - 1
                                                            ELSE mem.ppage_list[q]
                          /\ held'[q] = IF q = p THEN held[q] - 1 ELSE held[q]
      /\ held' \in [Pages -> Nat]
  <2>1. CASE p = 0
    BY <1>1, <1>2, <1>4, <2>1
  <2>2. CASE p # 0
    <3>1. p \in Pages /\ mem.ppage_list[p] \in 1..(PAGE_WIRED - 1)
      BY <1>3, <2>2, PhysAssumption
    <3>2. mem' = PhysDereference(mem, p) /\ held' = [held EXCEPT ![p] = @ - 1]
      BY <1>4, <2>2
    <3> HIDE DEF p, c
    <3>3. MemOK(mem', {}) /\ mem'.ppage_list = [mem.ppage_list EXCEPT ![p] = @ - 1]
      BY <1>1, <3>1, <3>2, DereferenceUsed
    <3>4. held[p] - 1 \in Nat
      BY <1>3, <2>2
    <3> QED
      BY <1>2, <3>1, <3>2, <3>3, <3>4
  <2> QED
    BY <2>1, <2>2
<1> HIDE DEF p, c
<1>6. TypeOK'
  <2>1. call' \in [va : VAs \cup {0}, page : Pages \cup {0}, i : 1..(Entries + 1)]
    BY <1>4, PhysAssumption DEF NoCall
  <2>2. /\ op' \in [kind : Kinds, i : 1..(NPages + 1), lo : 1..(NPages + 1), hi : 1..(NPages + 1)]
        /\ op'.lo <= op'.i /\ op'.i <= op'.hi
    BY <1>4, PhysAssumption DEF Idle, Kinds
  <2> QED
    BY <1>2, <1>4, <1>5, <2>1, <2>2 DEF TypeOK, MemOK
<1>7. ASSUME NEW q \in Pages
      PROVE  /\ held'[q] + Cardinality(Mappings(q)') =
                  IF mem'.ppage_list[q] = PAGE_WIRED THEN 0 ELSE mem'.ppage_list[q]
             /\ mem'.ppage_list[q] = PAGE_WIRED => mem.ppage_list[q] = PAGE_WIRED
             /\ mem'.ppage_list[q] <= MaxRefs \/ mem'.ppage_list[q] = PAGE_WIRED
  <2>1. /\ held[q] + Cardinality(Mappings(q)) =
             IF mem.ppage_list[q] = PAGE_WIRED THEN 0 ELSE mem.ppage_list[q]
        /\ held[q] \in Nat /\ Cardinality(Mappings(q)) \in Nat
        /\ mem.ppage_list[q] \in 0..PAGE_WIRED
        /\ Mappings(q)' = Mappings(q)
    BY <1>1, <1>2, <1>4, MappingsType DEF RefsExact, Mappings
  <2>2. CASE q = p
    <3>1. /\ mem'.ppage_list[q] = mem.ppage_list[q] - 1 /\ held'[q] = held[q] - 1
          /\ mem.ppage_list[q] \in 1..(MaxRefs + 1)
          /\ mem.ppage_list[q] = held[q] + Cardinality(Mappings(q))
      BY <1>2, <1>3, <1>5, <2>2 DEF c
    <3> QED
      BY <2>1, <3>1, PhysAssumption
  <2>3. CASE q # p
    <3>1. mem'.ppage_list[q] = mem.ppage_list[q] /\ held'[q] = held[q]
      BY <1>5, <2>3
    <3>2. mem.ppage_list[q] <= MaxRefs \/ mem.ppage_list[q] = PAGE_WIRED
      BY <1>1, <2>3 DEF CountBound, p
    <3> QED
      BY <2>1, <3>1, <3>2
  <2> QED
    BY <2>2, <2>3
<1>8. RefsExact' /\ NoNewWired /\ CountBound'
  <2>1. RefsExact' /\ NoNewWired
    BY <1>7 DEF RefsExact, NoNewWired
  <2>2. CountBound'
    BY <1>7 DEF CountBound
  <2> QED
    BY <2>1, <2>2
<1>9. OpOK' /\ OnlyOOMPanics' /\ MemOK(mem, Unlinked)'
  BY <1>1, <1>4, <1>5 DEF OpOK, OnlyOOMPanics, Unlinked, Idle
<1> QED
  BY <1>6, <1>8, <1>9 DEF IInv

\* The actions that start a loop over lo..hi-1, or return from one.
LEMMA StartInv ==
  ASSUME IInv, NEW k \in Kinds,
         NEW lo \in 1..(NPages + 1), NEW hi \in 1..(NPages + 1), lo <= hi,
         op' = [kind |-> k, i |-> lo, lo |-> lo, hi |-> hi],
         UNCHANGED <<mem, held, pte, panic>>, op.kind # "map",
         call' \in [va : VAs \cup {NULL}, page : Pages \cup {NULL}, i : 1..(Entries + 1)],
         OpOK',
         FreePages(mem) \ Unlinked' = FreePages(mem) \ Unlinked
  PROVE  IInv'
<1>1. TypeOK'
  BY PhysAssumption DEF IInv, TypeOK
<1>2. OnlyOOMPanics'
  BY DEF IInv, OnlyOOMPanics
<1> QED
  BY <1>1, <1>2, ControlInv

\* A loop that ends returns to idle, or init1 goes on with init2.
LEMMA DoneInv ==
  ASSUME IInv, ForceDone \/ UnlinkDone \/ RefDone \/ DerefDone
  PROVE  IInv' /\ mem' = mem
<1>1. TypeOK /\ OpOK
  BY DEF IInv
<1>2. 1 \in 1..(NPages + 1) /\ op.lo \in 1..(NPages + 1) /\ op.hi \in 1..(NPages + 1)
      /\ op.lo <= op.hi /\ op.i \in Int
  BY <1>1, PhysAssumption DEF TypeOK
<1>0. /\ mem' = mem /\ op.kind # "map" /\ call' = call
      /\ call \in [va : VAs \cup {0}, page : Pages \cup {0}, i : 1..(Entries + 1)]
  BY <1>1 DEF ForceDone, UnlinkDone, RefDone, DerefDone, Running, TypeOK
<1>3. CASE ForceDone /\ op.kind = "init1"
  <2>1. /\ op' = [kind |-> "init2", i |-> Heap[1], lo |-> Heap[1], hi |-> Heap[2]]
        /\ UNCHANGED <<mem, held, pte, call, panic>>
    BY <1>3 DEF ForceDone, StartLoop
  <2>2. /\ Heap[1] \in 1..(NPages + 1) /\ Heap[2] \in 1..(NPages + 1)
        /\ Heap[1] <= Heap[2] /\ "init2" \in Kinds
    BY PhysAssumption DEF IsRange, Kinds
  <2>3. OpOK' /\ Unlinked' = {} /\ Unlinked = {}
    BY <1>1, <1>3, <2>1 DEF OpOK, Unlinked
  <2> QED
    BY <1>0, <2>1, <2>2, <2>3, StartInv
<1>4. CASE (ForceDone /\ op.kind # "init1") \/ RefDone \/ DerefDone
  <2>1. /\ op' = [kind |-> "idle", i |-> 1, lo |-> 1, hi |-> 1]
        /\ UNCHANGED <<mem, held, pte, call, panic>>
        /\ op.i = op.hi /\ op.kind # "unlink"
    BY <1>4 DEF ForceDone, RefDone, DerefDone, Idle, Running
  <2>2. OpOK' /\ Unlinked' = {} /\ "idle" \in Kinds
    BY <2>1 DEF OpOK, Unlinked, Kinds
  <2>3. Unlinked = {}
    BY <1>2, <2>1 DEF Unlinked
  <2> QED
    BY <1>0, <1>2, <2>1, <2>2, <2>3, StartInv
<1>5. CASE UnlinkDone
  <2>1. /\ op' = [kind |-> "ref", i |-> op.lo, lo |-> op.lo, hi |-> op.hi]
        /\ UNCHANGED <<mem, held, pte, call, panic>>
        /\ op.i = op.hi /\ op.kind = "unlink"
    BY <1>5 DEF UnlinkDone, StartLoop, Running
  <2>2. OpOK' /\ "ref" \in Kinds
    BY <1>1, <2>1 DEF OpOK, Kinds
  <2>3. Unlinked' = Unlinked
    BY <2>1 DEF Unlinked
  <2> QED
    BY <1>0, <1>2, <2>1, <2>2, <2>3, StartInv
<1> QED
  BY <1>0, <1>3, <1>4, <1>5

\* The calls that start a loop: phys_force_free, free_phys, phys_reference,
\* alloc_phys and vm_space_map_page_physical_prot.
LEMMA CallInv ==
  ASSUME IInv,
         \/ \E lo \in Pages, hi \in 2..(NPages + 1) :
              lo < hi /\ (ForceFree(lo, hi) \/ FreePhys(lo, hi))
         \/ \E p \in Pages : Reference(p)
         \/ \E n \in 2..MaxAlloc : AllocPhys(n)
         \/ \E v \in VAs, p \in Pages \cup {NULL} : MapPage(v, p)
  PROVE  IInv' /\ mem' = mem
<1>1. TypeOK /\ OpOK /\ RefsExact /\ CountBound /\ OnlyOOMPanics
  BY DEF IInv
<1>2. op.kind = "idle" /\ Unlinked = {} /\ mem' = mem
  BY DEF ForceFree, FreePhys, Reference, AllocPhys, MapPage, Running, Unlinked, Panic
<1>a. call \in [va : VAs \cup {0}, page : Pages \cup {0}, i : 1..(Entries + 1)]
  BY <1>1 DEF TypeOK
<1>3. ASSUME NEW lo \in Pages, NEW hi \in 2..(NPages + 1), lo < hi,
             ForceFree(lo, hi) \/ FreePhys(lo, hi)
      PROVE  IInv'
  <2>0. lo \in 1..(NPages + 1) /\ hi \in 1..(NPages + 1) /\ lo <= hi
    BY <1>3, PhysAssumption DEF Pages
  <2>1. CASE ForceFree(lo, hi)
    <3>1. /\ op' = [kind |-> "force", i |-> lo, lo |-> lo, hi |-> hi]
          /\ UNCHANGED <<mem, held, pte, call, panic>>
          /\ \A p \in lo..(hi - 1) : mem.ppage_list[p] = PAGE_WIRED
      BY <2>1 DEF ForceFree, StartLoop
    <3>2. OpOK' /\ Unlinked' = {} /\ "force" \in Kinds
      BY <3>1 DEF OpOK, Unlinked, Kinds
    <3> QED
      BY <1>2, <2>0, <3>1, <3>2, <1>a, StartInv
  <2>2. CASE FreePhys(lo, hi)
    <3>1. /\ op' = [kind |-> "deref", i |-> lo, lo |-> lo, hi |-> hi]
          /\ UNCHANGED <<mem, held, pte, call, panic>>
          /\ \A p \in lo..(hi - 1) : held[p] > 0
      BY <2>2 DEF FreePhys, StartLoop
    <3>2. OpOK' /\ Unlinked' = {} /\ "deref" \in Kinds
      BY <3>1 DEF OpOK, Unlinked, Kinds
    <3> QED
      BY <1>2, <2>0, <3>1, <3>2, <1>a, StartInv
  <2> QED
    BY <1>3, <2>1, <2>2
<1>4. ASSUME NEW p \in Pages, Reference(p)
      PROVE  IInv'
  <2>1. /\ op' = [kind |-> "ref", i |-> p, lo |-> p, hi |-> p + 1]
        /\ UNCHANGED <<mem, held, pte, call, panic>>
        /\ held[p] > 0 /\ mem.ppage_list[p] < MaxRefs
    BY <1>4 DEF Reference, StartLoop
  <2>2. p \in 1..(NPages + 1) /\ p + 1 \in 1..(NPages + 1) /\ p <= p + 1
        /\ p..((p + 1) - 1) = {p}
    BY PhysAssumption DEF Pages
  <2>3. Unlinked' = {p}
    BY <2>1, <2>2 DEF Unlinked
  <2>4. OpOK' /\ "ref" \in Kinds
    BY <2>1, <2>2 DEF OpOK, Kinds
  <2>5. FreePages(mem) \ {p} = FreePages(mem)
    BY <1>1, <2>1, UsedPage DEF FreePages
  <2> QED
    BY <1>2, <2>1, <2>2, <2>3, <2>4, <2>5, <1>a, StartInv
<1>5. ASSUME NEW n \in 2..MaxAlloc, AllocPhys(n)
      PROVE  IInv'
  <2>1. CASE \A lo \in Pages : ~FreeRun(lo, n)
    <3>1. UNCHANGED <<mem, op, held, pte, call>> /\ panic' = "alloc_phys: OOM"
      BY <1>5, <2>1 DEF AllocPhys, Panic
    <3>2. TypeOK' /\ OpOK' /\ OnlyOOMPanics' /\ Unlinked' = Unlinked
      BY <1>1, <3>1 DEF TypeOK, OpOK, OnlyOOMPanics, Unlinked
    <3> QED
      BY <1>2, <3>1, <3>2, ControlInv
  <2>2. CASE \E lo \in Pages : FreeRun(lo, n)
    <3>1. PICK lo \in Pages :
            /\ FreeRun(lo, n)
            /\ op' = [kind |-> "unlink", i |-> lo, lo |-> lo, hi |-> lo + n]
            /\ UNCHANGED <<mem, held, pte, call, panic>>
      BY <1>5, <2>2 DEF AllocPhys, StartLoop
    <3>2. /\ lo \in 1..(NPages + 1) /\ lo + n \in 1..(NPages + 1) /\ lo <= lo + n
          /\ lo..(lo - 1) = {}
          /\ \A p \in lo..((lo + n) - 1) : mem.ppage_list[p] = 0
      BY <3>1, PhysAssumption DEF FreeRun, Pages
    <3>3. OpOK' /\ Unlinked' = {} /\ "unlink" \in Kinds
      BY <3>1, <3>2 DEF OpOK, Unlinked, Kinds
    <3> QED
      BY <1>2, <3>1, <3>2, <3>3, <1>a, StartInv
  <2> QED
    BY <2>1, <2>2
<1>6. ASSUME NEW v \in VAs, NEW p \in Pages \cup {0}, MapPage(v, p)
      PROVE  IInv'
  <2>1. /\ op' = [kind |-> "map", i |-> 1, lo |-> 1, hi |-> 1]
        /\ call' = [va |-> v, page |-> p, i |-> 1]
        /\ UNCHANGED <<mem, held, pte, panic>>
        /\ p # 0 => held[p] > 0 /\ mem.ppage_list[p] + Entries <= MaxRefs + 1
    BY <1>6 DEF MapPage, StartLoop
  <2>2. /\ call' \in [va : VAs \cup {0}, page : Pages \cup {0}, i : 1..(Entries + 1)]
        /\ 1 \in 1..(NPages + 1)
    BY <2>1, PhysAssumption
  <2>3. OpOK' /\ Unlinked' = {} /\ "map" \in Kinds
    BY <2>1 DEF OpOK, Unlinked, Kinds
  <2> QED
    BY <1>2, <2>1, <2>2, <2>3, StartInv
<1> QED
  BY <1>2, <1>3, <1>4, <1>5, <1>6

------------------------------------------------------------------------------
(* The theorems.                                                           *)

\* The invariant is inductive.
LEMMA StepInv ==
  ASSUME IInv, [Next]_vars
  PROVE  IInv' /\ NoNewWired
<1>1. CASE UNCHANGED vars
  <2>1. TypeOK' /\ OpOK' /\ OnlyOOMPanics' /\ Unlinked' = Unlinked
    BY <1>1 DEF vars, IInv, TypeOK, OpOK, OnlyOOMPanics, Unlinked
  <2> QED
    BY <1>1, <2>1, ControlInv DEF vars, NoNewWired
<1>2. CASE Next
  <2>1. mem' = mem => NoNewWired
    BY DEF NoNewWired
  <2> QED
    BY <1>2, <2>1, ForceStepInv, DoneInv, PpageAllocInv, CallInv, UnlinkStepInv,
       RefStepInv, DerefStepInv, MapStepInv, MapDoneInv DEF Next
<1> QED
  BY <1>1, <1>2

\* The allocator keeps the inductive invariant.
THEOREM Allocator ==
  Spec => []IInv
BY InitInv, StepInv, PTL DEF Spec

\* Type correctness of the page table, the free list words and the counters.
THEOREM AllocatorType ==
  Spec => []TypeOK
<1>1. IInv => TypeOK
  BY DEF IInv
<1> QED
  BY <1>1, Allocator, PTL

\* The free list is a well-formed doubly linked list over exactly the pages
\* whose count is PAGE_FREE, also between the two loops of alloc_phys.
THEOREM FreeListWellFormed ==
  Spec => []FreeListLinked
<1>1. IInv => FreeListLinked
  BY DEF IInv, MemOK, Chain, FreeListLinked
<1> QED
  BY <1>1, Allocator, PTL

\* Walking next from pa_head, as ppage_alloc does from one call to the next,
\* visits every page whose count is PAGE_FREE and ends: no page is lost to the
\* allocator, whatever the mix of single pages, runs of pages and forced frees.
THEOREM NoPageIsLost ==
  Spec => []FreeListComplete
<1>1. ASSUME IInv PROVE FreeListComplete
  <2>1. Chain(mem, FreePages(mem) \ Unlinked)
    BY <1>1 DEF IInv, MemOK
  <2>2. FreePages(mem) \ Unlinked \in SUBSET Pages
    BY DEF FreePages
  <2> QED
    BY <2>1, <2>2, WalkFollows, WalkCovers DEF FreeListComplete
<1> QED
  BY <1>1, Allocator, PTL

\* free_pages is exact: the counter kept by hand in phys_reference,
\* phys_page_was_freed and phys_force_free is the number of free pages.
THEOREM FreeCounterExact ==
  Spec => []FreePagesExact
<1>1. IInv => FreePagesExact
  BY DEF IInv, MemOK, CountsOK, FreePagesExact
<1> QED
  BY <1>1, Allocator, PTL

\* wired_pages is exact: phys_force_free takes a page out of it exactly when the
\* page was wired.
THEOREM WiredCounterExact ==
  Spec => []WiredPagesExact
<1>1. IInv => WiredPagesExact
  BY DEF IInv, MemOK, CountsOK, WiredPagesExact
<1> QED
  BY <1>1, Allocator, PTL

\* A page's count is what its owners and its mappings account for, so a page
\* is freed exactly when the last of them lets go.
THEOREM ReferencesExact ==
  Spec => []RefsExact
<1>1. IInv => RefsExact
  BY DEF IInv
<1> QED
  BY <1>1, Allocator, PTL

\* None of the consistency panics of phys_unlink_contiguous, phys_dereference
\* and ppage_alloc is reachable.
THEOREM NoConsistencyPanic ==
  Spec => []OnlyOOMPanics
<1>1. IInv => OnlyOOMPanics
  BY DEF IInv
<1> QED
  BY <1>1, Allocator, PTL

\* ppage_alloc never hands out a page that somebody holds or maps.
THEOREM AllocatedPageIsFresh ==
  Spec => AllocFresh
<1>1. IInv /\ [Next]_vars =>
        [PpageAlloc /\ mem.pa_head # NULL =>
           /\ held[mem.pa_head] = 0
           /\ Mappings(mem.pa_head) = {}]_vars
  BY PpageAllocInv
<1> QED
  BY <1>1, Allocator, PTL DEF Spec, AllocFresh

\* A page in use goes back to the free list exactly when its last owner and its
\* last page-table entry are gone: the reference that vm_space_map_page_physical_prot
\* consumes and the ones that its entries take and give back balance, for every
\* number of entries per page.
THEOREM PagesAreGivenBack ==
  Spec => FreedAtLastUse
<1>1. ASSUME IInv, [Next]_vars, NEW p \in Pages,
             mem.ppage_list[p] \notin {PAGE_FREE, PAGE_WIRED}
      PROVE  mem'.ppage_list[p] = PAGE_FREE <=> held'[p] = 0 /\ Mappings(p)' = {}
  <2>1. IInv' /\ NoNewWired
    BY <1>1, StepInv
  <2>2. mem'.ppage_list[p] # PAGE_WIRED
    BY <1>1, <2>1 DEF NoNewWired
  <2>3. /\ held'[p] + Cardinality(Mappings(p)') = mem'.ppage_list[p]
        /\ held'[p] \in Nat
    BY <2>1, <2>2 DEF IInv, RefsExact, TypeOK
  <2>4. /\ Cardinality(Mappings(p)') \in Nat
        /\ Cardinality(Mappings(p)') = 0 <=> Mappings(p)' = {}
    BY MappingsType, FS_EmptySet
  <2> QED
    BY <2>3, <2>4
<1>2. IInv /\ [Next]_vars =>
        [\A p \in Pages :
           mem.ppage_list[p] \notin {PAGE_FREE, PAGE_WIRED} =>
             (mem'.ppage_list[p] = PAGE_FREE <=> held'[p] = 0 /\ Mappings(p)' = {})]_vars
  BY <1>1
<1> QED
  BY <1>2, Allocator, PTL DEF Spec, FreedAtLastUse

==============================================================================
