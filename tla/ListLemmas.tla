----------------------------- MODULE ListLemmas -------------------------------
(***************************************************************************)
(* What the proofs about free lists share: lists without repetition and    *)
(* what taking, putting, joining and reversing do to them, and induction   *)
(* over numbers in a form that the provers can instantiate (UpTo: the      *)
(* property is a set, not an operator).                                    *)
(***************************************************************************)
EXTENDS Integers, Sequences, SequencesExt, SequenceTheorems, WellFoundedInduction, TLAPS

------------------------------------------------------------------------------
(* Free lists: sequences without repetition.                               *)

\* A list of numbers, none twice.
List(s) == s \in Seq(Int) /\ IsInjective(s)

\* The empty list, and the only empty one.
LEMMA EmptyList == List(<<>>) /\ ToSet(<<>>) = {}
  BY DEF List, IsInjective, ToSet

\* The elements of a list.
LEMMA ListLen ==
  ASSUME NEW s, List(s)
  PROVE  /\ Len(s) \in Nat /\ DOMAIN s = 1..Len(s)
         /\ \A i \in 1..Len(s) : s[i] \in ToSet(s) /\ s[i] \in Int
         /\ \A i, j \in 1..Len(s) : s[i] = s[j] => i = j
         /\ \A x \in ToSet(s) : x \in Int /\ \E i \in 1..Len(s) : x = s[i]
  BY LenProperties, ElementOfSeq DEF List, IsInjective, ToSet

\* Taking the first element.
LEMMA Popped ==
  ASSUME NEW s, List(s), s # <<>>
  PROVE  /\ List(Tail(s)) /\ Head(s) \in ToSet(s)
         /\ ToSet(Tail(s)) = ToSet(s) \ {Head(s)}
<1>1. s \in Seq(Int) /\ Len(s) \in Nat \ {0} /\ Head(s) = s[1]
  BY EmptySeq DEF List
<1>2. /\ Tail(s) \in Seq(Int) /\ Len(Tail(s)) = Len(s) - 1
      /\ \A i \in 1..Len(Tail(s)) : Tail(s)[i] = s[i + 1]
  BY <1>1, HeadTailProperties
<1>3. DOMAIN Tail(s) = 1..(Len(s) - 1)
  BY <1>2, LenProperties
<1>4. \A i \in 1..(Len(s) - 1) : i + 1 \in 1..Len(s) /\ Tail(s)[i] = s[i + 1]
  BY <1>1, <1>2
<1>5. \A i \in 2..Len(s) : i - 1 \in 1..(Len(s) - 1) /\ Tail(s)[i - 1] = s[i]
  BY <1>1, <1>2
<1>6. \A i, j \in 1..Len(s) : s[i] = s[j] => i = j
  BY ListLen
<1>a. ASSUME NEW i \in 1..(Len(s) - 1), NEW j \in 1..(Len(s) - 1), Tail(s)[i] = Tail(s)[j]
      PROVE  i = j
  <2>1. i + 1 = j + 1
    BY <1>a, <1>4, <1>6
  <2> QED
    BY <2>1
<1>7. IsInjective(Tail(s))
  BY <1>a, <1>3 DEF IsInjective
<1>8. ToSet(s) = {s[i] : i \in 1..Len(s)} /\ ToSet(Tail(s)) = {Tail(s)[i] : i \in 1..(Len(s) - 1)}
  BY <1>3, ListLen DEF ToSet
<1>9. ASSUME NEW x \in ToSet(Tail(s)) PROVE x \in ToSet(s) /\ x # s[1]
  <2>1. PICK i \in 1..(Len(s) - 1) : x = Tail(s)[i]
    BY <1>8
  <2>2. i + 1 \in 1..Len(s) /\ 1 \in 1..Len(s) /\ i + 1 # 1
    BY <1>1
  <2> QED
    BY <2>1, <2>2, <1>4, <1>6, <1>8
<1>10. ASSUME NEW x \in ToSet(s), x # s[1] PROVE x \in ToSet(Tail(s))
  <2>1. PICK i \in 1..Len(s) : x = s[i]
    BY <1>8
  <2>2. i \in 2..Len(s)
    BY <2>1, <1>10
  <2> QED
    BY <2>1, <2>2, <1>5, <1>8
<1>11. s[1] \in ToSet(s)
  BY <1>1, ListLen
<1> QED
  BY <1>1, <1>2, <1>7, <1>9, <1>10, <1>11 DEF List

\* Two lists that share nothing, one after the other.
LEMMA Joined ==
  ASSUME NEW r, NEW s, List(r), List(s), ToSet(r) \cap ToSet(s) = {}
  PROVE  List(r \o s) /\ ToSet(r \o s) = ToSet(r) \cup ToSet(s)
<1> DEFINE m == Len(r)
           n == Len(s)
           q == r \o s
<1>1. /\ q \in Seq(Int) /\ Len(q) = m + n
      /\ \A i \in 1..(m + n) : q[i] = IF i <= m THEN r[i] ELSE s[i - m]
  BY ConcatProperties DEF List
<1>2. DOMAIN q = 1..(m + n)
  BY <1>1, LenProperties
<1>r. m \in Nat /\ (\A i \in 1..m : r[i] \in ToSet(r)) /\ (\A i, j \in 1..m : r[i] = r[j] => i = j)
      /\ (\A x \in ToSet(r) : \E i \in 1..m : x = r[i])
  BY ListLen
<1>s. n \in Nat /\ (\A i \in 1..n : s[i] \in ToSet(s)) /\ (\A i, j \in 1..n : s[i] = s[j] => i = j)
      /\ (\A x \in ToSet(s) : \E i \in 1..n : x = s[i])
  BY ListLen
<1> HIDE DEF m, n, q
<1>3. ToSet(q) = {q[i] : i \in 1..(m + n)}
  BY <1>2 DEF ToSet
<1>4. \A i \in 1..m : i \in 1..(m + n) /\ q[i] = r[i]
  BY <1>1, <1>r, <1>s
<1>5. ASSUME NEW i \in 1..n PROVE i + m \in 1..(m + n) /\ q[i + m] = s[i]
  <2>1. i + m \in 1..(m + n) /\ ~(i + m <= m) /\ i + m - m = i
    BY <1>r, <1>s
  <2>2. PICK j \in 1..(m + n) : j = i + m /\ ~(j <= m) /\ j - m = i
    BY <2>1, <1>r, <1>s
  <2>3. q[j] = s[j - m]
    BY <2>2, <1>1
  <2> QED
    BY <2>2, <2>3
<1>6. ASSUME NEW i \in 1..(m + n), NEW j \in 1..(m + n), q[i] = q[j] PROVE i = j
  <2>1. CASE i <= m /\ j <= m
    BY <2>1, <1>6, <1>1, <1>r, <1>s
  <2>2. CASE ~(i <= m) /\ ~(j <= m)
    <3>1. i - m \in 1..n /\ j - m \in 1..n /\ s[i - m] = s[j - m]
      BY <2>2, <1>6, <1>1, <1>r, <1>s
    <3>2. i - m = j - m
      BY <3>1, <1>s
    <3> QED
      BY <3>2, <1>r, <1>s
  <2>3. CASE i <= m /\ ~(j <= m)
    <3>1. i \in 1..m /\ j - m \in 1..n /\ r[i] = s[j - m]
      BY <2>3, <1>6, <1>1, <1>r, <1>s
    <3> QED
      BY <3>1, <1>r, <1>s
  <2>4. CASE ~(i <= m) /\ j <= m
    <3>1. j \in 1..m /\ i - m \in 1..n /\ r[j] = s[i - m]
      BY <2>4, <1>6, <1>1, <1>r, <1>s
    <3> QED
      BY <3>1, <1>r, <1>s
  <2> QED
    BY <2>1, <2>2, <2>3, <2>4
<1>7. ASSUME NEW x \in ToSet(q) PROVE x \in ToSet(r) \cup ToSet(s)
  <2>1. PICK i \in 1..(m + n) : x = q[i]
    BY <1>3
  <2>2. CASE i <= m
    BY <2>1, <2>2, <1>1, <1>r, <1>s
  <2>3. CASE ~(i <= m)
    <3>1. i - m \in 1..n
      BY <2>3, <1>r, <1>s
    <3> QED
      BY <2>1, <2>3, <3>1, <1>1, <1>s
  <2> QED
    BY <2>2, <2>3
<1>8. ToSet(r) \subseteq ToSet(q) /\ ToSet(s) \subseteq ToSet(q)
  BY <1>3, <1>4, <1>5, <1>r, <1>s
<1>9. ToSet(q) = ToSet(r) \cup ToSet(s)
  BY <1>7, <1>8
<1>10. List(q)
  BY <1>1, <1>2, <1>6 DEF List, IsInjective
<1> QED
  BY <1>9, <1>10 DEF q

\* A single element.
LEMMA Single == ASSUME NEW x \in Int PROVE List(<<x>>) /\ ToSet(<<x>>) = {x}
<1>1. <<x>> \in Seq(Int) /\ DOMAIN <<x>> = {1} /\ <<x>>[1] = x
  OBVIOUS
<1> HIDE <1>1
<1> QED
  BY <1>1 DEF List, ToSet, IsInjective

\* Putting an element in front.
LEMMA Pushed ==
  ASSUME NEW s, NEW x \in Int, List(s), x \notin ToSet(s)
  PROVE  List(<<x>> \o s) /\ ToSet(<<x>> \o s) = ToSet(s) \cup {x}
<1>1. List(<<x>>) /\ ToSet(<<x>>) = {x}
  BY Single
<1>2. List(<<x>> \o s) /\ ToSet(<<x>> \o s) = ToSet(<<x>>) \cup ToSet(s)
  BY <1>1, Joined
<1> QED
  BY <1>1, <1>2

\* The same list backwards.
LEMMA Reversed ==
  ASSUME NEW s, List(s)
  PROVE  List(Reverse(s)) /\ ToSet(Reverse(s)) = ToSet(s)
<1> DEFINE n == Len(s)
           q == Reverse(s)
<1>1. n \in Nat /\ (\A i \in 1..n : s[i] \in Int /\ s[i] \in ToSet(s))
      /\ (\A i, j \in 1..n : s[i] = s[j] => i = j) /\ (\A x \in ToSet(s) : \E i \in 1..n : x = s[i])
  BY ListLen
<1>2. q = [i \in 1..n |-> s[(n - i) + 1]]
  BY DEF Reverse
<1> HIDE DEF n, q
<1>3. \A i \in 1..n : (n - i) + 1 \in 1..n /\ (n - ((n - i) + 1)) + 1 = i
  BY <1>1
<1>4. q \in [1..n -> Int] /\ DOMAIN q = 1..n /\ \A i \in 1..n : q[i] = s[(n - i) + 1]
  BY <1>1, <1>2, <1>3
<1>5. q \in Seq(Int)
  BY <1>1, <1>4
<1>6. ASSUME NEW i \in 1..n, NEW j \in 1..n, q[i] = q[j] PROVE i = j
  <2>1. (n - i) + 1 = (n - j) + 1
    BY <1>1, <1>3, <1>4, <1>6
  <2> QED
    BY <2>1, <1>1
<1>7. ToSet(q) = {q[i] : i \in 1..n}
  BY <1>4 DEF ToSet
<1>8. ASSUME NEW i \in 1..n PROVE s[i] \in ToSet(q)
  BY <1>3, <1>4, <1>7
<1>a. ASSUME NEW x \in ToSet(q) PROVE x \in ToSet(s)
  <2>1. PICK i \in 1..n : x = q[i]
    BY <1>7
  <2> QED
    BY <2>1, <1>1, <1>3, <1>4
<1>b. ASSUME NEW x \in ToSet(s) PROVE x \in ToSet(q)
  BY <1>1, <1>8
<1>9. ToSet(q) = ToSet(s)
  BY <1>a, <1>b
<1> QED
  BY <1>4, <1>5, <1>6, <1>9 DEF List, IsInjective, q

------------------------------------------------------------------------------
(* Induction over numbers, through the least element of a set.             *)

\* Every nonempty set of numbers has a least one: the induction below.
LEMMA LessIsWellFounded ==
  \E R : IsWellFoundedOn(R, Nat) /\ R = {ss \in Nat \X Nat : ss[1] < ss[2]}
  BY NatLessThanWellFounded, Zenon DEF OpToRel

LEMMA Least ==
  ASSUME NEW T, T \subseteq Nat, T # {}
  PROVE  \E m \in T : \A k \in T : m <= k
<1>1. PICK R : IsWellFoundedOn(R, Nat) /\ R = {ss \in Nat \X Nat : ss[1] < ss[2]}
  BY LessIsWellFounded
<1>2. PICK x \in T : \A y \in T : <<y, x>> \notin R
  BY <1>1, WFMin, Zenon
<1>3. ASSUME NEW y \in T PROVE x <= y
  <2>1. <<y, x>> \notin R
    BY <1>2
  <2>2. x \in Nat /\ y \in Nat
    OBVIOUS
  <2>3. y < x => <<y, x>> \in R
    BY <1>1, <2>2
  <2> QED
    BY <2>1, <2>2, <2>3
<1> QED
  BY <1>3

\* A set of numbers with 0 and with every successor up to n is 0..n.
LEMMA UpTo ==
  ASSUME NEW n \in Nat, NEW T, 0 \in T, \A i \in 1..n : i - 1 \in T => i \in T
  PROVE  n \in T
<1> DEFINE B == {i \in 0..n : i \notin T}
<1>1. SUFFICES ASSUME n \notin T PROVE FALSE
  OBVIOUS
<1>b. B \subseteq Nat /\ B # {}
  BY <1>1
<1>2. PICK m \in B : \A k \in B : m <= k
  <2> HIDE DEF B
  <2> QED
    BY <1>b, Least
<1>3. m \in 1..n /\ m - 1 \in 0..n /\ ~(m <= m - 1)
  BY <1>2
<1>4. m - 1 \in T
  BY <1>2, <1>3
<1> QED
  BY <1>2, <1>3, <1>4
==============================================================================
