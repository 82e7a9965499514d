-------------------------- MODULE SolutionListsProofs --------------------------
(***************************************************************************)
(* Lemmas about the lists of solutions for lists of every length: what is  *)
(* left of a list from which elements are erased, what a sort and a cut    *)
(* leave of it, and what becomes of a list to which a state is offered.    *)
(***************************************************************************)
EXTENDS SolutionLists, FiniteSetTheorems, SequenceTheorems, TLAPS

-----------------------------------------------------------------------------
(* Numbers and positions.                                                  *)

(* A set of natural numbers that is not empty has a least element.         *)
LEMMA LeastNat ==
  ASSUME NEW T \in SUBSET Nat, T # {}
  PROVE  \E m \in T : \A n \in T : m <= n
<1>1. PICK m \in T : \A n \in T : <<n, m>> \notin OpToRel(<, Nat)
  BY NatLessThanWellFounded, WFMin
<1>2. \A n \in T : ~(n < m)
  BY <1>1 DEF OpToRel
<1> QED BY <1>2

(* A finite set of positions has a greatest element.                       *)
LEMMA GreatestNat ==
  ASSUME NEW n \in Nat, NEW T \in SUBSET (0..n), T # {}
  PROVE  \E m \in T : \A k \in T : k <= m
<1> DEFINE R == {n - k : k \in T}
<1>1. R \in SUBSET Nat /\ R # {}
  <2>1. \A k \in T : n - k \in Nat
    OBVIOUS
  <2> QED BY <2>1
<1>2. PICK r \in R : \A q \in R : r <= q
  BY <1>1, LeastNat
<1>3. PICK m \in T : r = n - m
  BY <1>2
<1>4. \A k \in T : n - m <= n - k
  BY <1>2, <1>3
<1> QED BY <1>3, <1>4

(* The number of elements of keep up to i.                                 *)
UpTo(keep, i) == {j \in keep : j <= i}

(* Sets of positions are finite, and so is what is below one of them.      *)
LEMMA UpToFinite ==
  ASSUME NEW n \in Nat, NEW keep \in SUBSET (1..n)
  PROVE  /\ IsFiniteSet(keep) /\ Cardinality(keep) \in Nat
         /\ Cardinality(keep) <= n
         /\ \A i \in keep : /\ IsFiniteSet(UpTo(keep, i))
                            /\ Cardinality(UpTo(keep, i)) \in 1..Cardinality(keep)
<1>1. IsFiniteSet(1..n) /\ Cardinality(1..n) = n
  BY FS_Interval
<1>2. /\ IsFiniteSet(keep) /\ Cardinality(keep) \in Nat
      /\ Cardinality(keep) <= n
  BY <1>1, FS_Subset, FS_CardinalityType
<1>3. ASSUME NEW i \in keep
      PROVE  /\ IsFiniteSet(UpTo(keep, i))
             /\ Cardinality(UpTo(keep, i)) \in 1..Cardinality(keep)
  <2>1. UpTo(keep, i) \in SUBSET keep /\ i \in UpTo(keep, i)
    BY DEF UpTo
  <2>2. /\ IsFiniteSet(UpTo(keep, i)) /\ Cardinality(UpTo(keep, i)) \in Nat
        /\ Cardinality(UpTo(keep, i)) <= Cardinality(keep)
    BY <1>2, <2>1, FS_Subset, FS_CardinalityType
  <2>3. Cardinality(UpTo(keep, i)) # 0
    BY <2>1, <2>2, FS_EmptySet
  <2> QED BY <1>2, <2>2, <2>3
<1> QED BY <1>2, <1>3

(* A greater element has a greater number.                                 *)
LEMMA UpToGrows ==
  ASSUME NEW n \in Nat, NEW keep \in SUBSET (1..n),
         NEW i \in keep, NEW j \in keep, i < j
  PROVE  Cardinality(UpTo(keep, i)) < Cardinality(UpTo(keep, j))
<1> DEFINE A == UpTo(keep, i)
           B == UpTo(keep, j)
<1>1. IsFiniteSet(A) /\ IsFiniteSet(B) /\ Cardinality(A) \in Nat
      /\ Cardinality(B) \in Nat
  BY UpToFinite
<1>2. A \cup {j} \in SUBSET B /\ j \notin A
  <2>1. i \in Nat /\ j \in Nat /\ ~(j <= i) /\ j <= j
    OBVIOUS
  <2>2. \A l \in keep : l <= i => l <= j
    OBVIOUS
  <2> QED BY <2>1, <2>2 DEF UpTo
<1>3. Cardinality(A \cup {j}) = Cardinality(A) + 1
  BY <1>1, <1>2, FS_AddElement
<1>4. Cardinality(A \cup {j}) <= Cardinality(B)
  BY <1>1, <1>2, FS_Subset
<1> HIDE DEF A, B
<1>5. Cardinality(A) < Cardinality(B)
  BY <1>1, <1>3, <1>4
<1> QED BY <1>5 DEF A, B

(* Every number up to the size of the set is the number of an element: by  *)
(* contradiction, from the least number that is not.                       *)
LEMMA NthExists ==
  ASSUME NEW n \in Nat, NEW keep \in SUBSET (1..n),
         NEW k \in 1..Cardinality(keep)
  PROVE  \E i \in keep : Cardinality(UpTo(keep, i)) = k
<1> DEFINE C == Cardinality(keep)
           Missed == {m \in 1..C : \A i \in keep : Cardinality(UpTo(keep, i)) # m}
<1>1. IsFiniteSet(keep) /\ C \in Nat
  BY UpToFinite
<1> SUFFICES ASSUME Missed # {} PROVE FALSE
  OBVIOUS
<1>2. Missed \in SUBSET Nat
  BY <1>1
<1>3. PICK m \in Missed : \A l \in Missed : m <= l
  BY <1>2, LeastNat
<1>4. m \in 1..C /\ \A i \in keep : Cardinality(UpTo(keep, i)) # m
  BY <1>3
<1>5. CASE m = 1
  <2>1. keep # {}
    BY <1>1, <1>4, FS_EmptySet
  <2>2. PICK i \in keep : \A j \in keep : i <= j
    BY <2>1, LeastNat
  <2>3. UpTo(keep, i) = {i}
    <3>1. \A j \in keep : j <= i => j = i
      BY <2>2
    <3>2. i <= i
      OBVIOUS
    <3> QED BY <3>1, <3>2 DEF UpTo
  <2>4. Cardinality(UpTo(keep, i)) = 1
    BY <2>3, FS_Singleton
  <2> QED BY <1>4, <1>5, <2>4
<1>6. CASE m # 1
  <2>1. m - 1 \in 1..C /\ m - 1 \notin Missed
    BY <1>1, <1>3, <1>4, <1>6
  <2>2. PICK i \in keep : Cardinality(UpTo(keep, i)) = m - 1
    BY <2>1
  <2> DEFINE A == UpTo(keep, i)
             R == keep \ A
  <2>3. IsFiniteSet(A) /\ A \in SUBSET keep
    BY UpToFinite DEF UpTo
  <2>4. R # {}
    <3>1. CASE R = {}
      <4>1. A = keep
        BY <2>3, <3>1
      <4>2. C = m - 1
        BY <2>2, <4>1
      <4> QED BY <1>1, <1>4, <4>2
    <3> QED BY <3>1
  <2>5. R \in SUBSET Nat
    <3>1. \A j \in keep : j \in Nat
      OBVIOUS
    <3> HIDE DEF A
    <3> QED BY <3>1
  <2>6. PICK j \in R : \A l \in R : j <= l
    BY <2>4, <2>5, LeastNat
  <2>7. UpTo(keep, j) = A \cup {j} /\ j \notin A /\ j \in keep
    <3>1. j \in keep /\ j \in Nat /\ i \in Nat /\ ~(j <= i)
      BY DEF UpTo
    <3>2. \A l \in keep : l <= j <=> (l <= i \/ l = j)
      <4> SUFFICES ASSUME NEW l \in keep
                   PROVE  l <= j <=> (l <= i \/ l = j)
        OBVIOUS
      <4>1. l \in Nat /\ (l \in R \/ l <= i)
        BY DEF UpTo
      <4>2. l \in R => j <= l
        BY <2>6
      <4> QED BY <3>1, <4>1, <4>2
    <3> QED BY <3>1, <3>2 DEF UpTo
  <2>8. Cardinality(A \cup {j}) = Cardinality(A) + 1
    BY <2>3, <2>7, FS_AddElement
  <2>9. Cardinality(UpTo(keep, j)) = m
    BY <1>4, <2>2, <2>7, <2>8
  <2> QED BY <1>4, <2>7, <2>9
<1> QED BY <1>5, <1>6

-----------------------------------------------------------------------------
(* Erasing.                                                                *)

(* The positions that stay, in their order: e lists them all.              *)
Keeps(e, n, keep) ==
  /\ e \in [1..n -> keep]
  /\ \A k, l \in 1..n : k < l => e[k] < e[l]
  /\ \A i \in keep : \E k \in 1..n : e[k] = i

(* What is left of a list is listed by such an enumeration.                *)
LEMMA SubsequenceKeeps ==
  ASSUME NEW S, NEW list \in Seq(S), NEW keep \in SUBSET (DOMAIN list)
  PROVE  LET m == Cardinality(keep)
         IN  /\ m \in Nat /\ m <= Len(list)
             /\ \E e : /\ Keeps(e, m, keep)
                       /\ Subsequence(list, keep) = [k \in 1..m |-> list[e[k]]]
<1> DEFINE m == Cardinality(keep)
           e == [k \in 1..m |-> Nth(keep, k)]
           n == Len(list)
<1>1. n \in Nat /\ DOMAIN list = 1..n
  OBVIOUS
<1>2. m \in Nat /\ m <= n /\ IsFiniteSet(keep)
  BY <1>1, UpToFinite
<1>3. ASSUME NEW k \in 1..m
      PROVE  Nth(keep, k) \in keep /\ Cardinality(UpTo(keep, Nth(keep, k))) = k
  <2>1. \E i \in keep : Cardinality(UpTo(keep, i)) = k
    BY <1>1, NthExists
  <2> QED BY <2>1 DEF Nth, UpTo
<1>4. e \in [1..m -> keep]
  BY <1>3
<1>5. ASSUME NEW k \in 1..m, NEW l \in 1..m, k < l
      PROVE  e[k] < e[l]
  <2>1. /\ e[k] \in keep /\ Cardinality(UpTo(keep, e[k])) = k
        /\ e[l] \in keep /\ Cardinality(UpTo(keep, e[l])) = l
    BY <1>3
  <2>2. e[k] \in 1..n /\ e[l] \in 1..n
    BY <1>1, <2>1
  <2>3. CASE e[l] < e[k]
    <3>1. l < k
      BY <1>1, <2>1, <2>3, UpToGrows
    <3> QED BY <1>2, <1>5, <3>1
  <2>4. CASE e[l] = e[k]
    BY <1>2, <1>5, <2>1, <2>4
  <2> QED BY <2>2, <2>3, <2>4
<1>6. ASSUME NEW i \in keep
      PROVE  \E k \in 1..m : e[k] = i
  <2> DEFINE k == Cardinality(UpTo(keep, i))
  <2>1. k \in 1..m
    BY <1>1, UpToFinite
  <2>2. e[k] \in keep /\ Cardinality(UpTo(keep, e[k])) = k
    BY <1>3, <2>1
  <2>3. i \in 1..n /\ e[k] \in 1..n
    BY <1>1, <2>2
  <2>4. ~(e[k] < i)
    <3>1. CASE e[k] < i
      <4>1. Cardinality(UpTo(keep, e[k])) < k
        BY <1>1, <2>2, <3>1, UpToGrows
      <4> QED BY <1>2, <2>1, <2>2, <4>1
    <3> QED BY <3>1
  <2>5. ~(i < e[k])
    <3>1. CASE i < e[k]
      <4>1. k < Cardinality(UpTo(keep, e[k]))
        BY <1>1, <2>2, <3>1, UpToGrows
      <4> QED BY <1>2, <2>1, <2>2, <4>1
    <3> QED BY <3>1
  <2> HIDE DEF k, e
  <2>6. e[k] = i
    BY <2>3, <2>4, <2>5
  <2> QED BY <2>1, <2>6
<1>7. Subsequence(list, keep) = [k \in 1..m |-> list[e[k]]]
  BY DEF Subsequence
<1>8. Keeps(e, m, keep)
  BY <1>4, <1>5, <1>6 DEF Keeps
<1> HIDE DEF e
<1> QED BY <1>1, <1>2, <1>7, <1>8

(* As many positions as the enumeration has places.                        *)
LEMMA KeepsCounts ==
  ASSUME NEW n \in Nat, NEW keep, NEW e, Keeps(e, n, keep), keep \in SUBSET Nat
  PROVE  IsFiniteSet(keep) /\ Cardinality(keep) = n
<1>1. IsFiniteSet(1..n) /\ Cardinality(1..n) = n
  BY FS_Interval
<1>2. /\ e \in [1..n -> keep]
      /\ \A i \in keep : \E k \in 1..n : e[k] = i
  BY DEF Keeps
<1>3. ASSUME NEW k \in 1..n, NEW l \in 1..n, e[k] = e[l] PROVE k = l
  <2>1. e[k] \in Nat /\ e[l] \in Nat
    BY <1>2
  <2>2. ~(e[k] < e[l]) /\ ~(e[l] < e[k])
    BY <1>3, <2>1
  <2>3. ~(k < l) /\ ~(l < k)
    BY <2>2 DEF Keeps
  <2> QED BY <2>3
<1>4. e \in Surjection(1..n, keep) /\ e \in Injection(1..n, keep)
  BY <1>2, <1>3 DEF Surjection, Injection, IsInjective
<1>5. IsFiniteSet(keep) /\ Cardinality(keep) = Cardinality(1..n)
  BY <1>1, <1>4, FS_Surjection
<1> QED BY <1>1, <1>5

(* Whoever lists the positions that stay knows what is left of the list.   *)
LEMMA SubsequenceIs ==
  ASSUME NEW n \in Nat, NEW keep, NEW e, Keeps(e, n, keep), keep \in SUBSET Nat
  PROVE  Cardinality(keep) = n /\ \A k \in 1..n : Nth(keep, k) = e[k]
<1>1. Cardinality(keep) = n
  BY KeepsCounts
<1>2. /\ e \in [1..n -> keep]
      /\ \A k, l \in 1..n : k < l => e[k] < e[l]
      /\ \A i \in keep : \E k \in 1..n : e[k] = i
  BY DEF Keeps
<1>3. ASSUME NEW k \in 1..n PROVE Cardinality(UpTo(keep, e[k])) = k
  <2> DEFINE front == [l \in 1..k |-> e[l]]
             below == UpTo(keep, e[k])
  <2>1. k \in Nat /\ \A l \in 1..k : l \in 1..n /\ (l < k \/ l = k)
    OBVIOUS
  <2>2. ASSUME NEW l \in 1..k PROVE e[l] \in Nat /\ e[l] <= e[k]
    <3>1. l \in 1..n /\ (l < k \/ l = k)
      BY <2>1
    <3>2. e[l] \in Nat /\ e[k] \in Nat
      BY <1>2, <3>1
    <3>3. e[l] < e[k] \/ e[l] = e[k]
      BY <1>2, <3>1
    <3> QED BY <3>2, <3>3
  <2>3. \A l \in 1..k : front[l] \in below
    BY <1>2, <2>1, <2>2 DEF UpTo
  <2>4. ASSUME NEW i \in below PROVE \E l \in 1..k : front[l] = i
    <3>1. i \in keep /\ i <= e[k]
      BY DEF UpTo
    <3>2. PICK l \in 1..n : e[l] = i
      BY <1>2, <3>1
    <3>3. ~(k < l)
      <4>1. CASE k < l
        <5>1. e[k] < e[l] /\ e[k] \in Nat /\ e[l] \in Nat
          BY <1>2, <4>1
        <5> QED BY <3>1, <3>2, <5>1
      <4> QED BY <4>1
    <3>4. l \in 1..k
      BY <3>3
    <3> QED BY <3>2, <3>4
  <2>5. Keeps(front, k, below)
    <3>1. front \in [1..k -> below]
      BY <2>3
    <3>2. \A a, b \in 1..k : a < b => front[a] < front[b]
      BY <1>2, <2>1
    <3> QED BY <2>4, <3>1, <3>2 DEF Keeps
  <2>6. below \in SUBSET Nat
    BY DEF UpTo
  <2> HIDE DEF front, below
  <2>7. Cardinality(below) = k
    BY <2>1, <2>5, <2>6, KeepsCounts
  <2> QED BY <2>7 DEF below
<1>4. ASSUME NEW k \in 1..n PROVE Nth(keep, k) = e[k]
  <2>1. e[k] \in keep /\ Cardinality(UpTo(keep, e[k])) = k
    BY <1>2, <1>3
  <2>2. \A i \in keep : Cardinality(UpTo(keep, i)) = k => i = e[k]
    BY <1>2, <1>3
  <2>3. Nth(keep, k) \in keep /\ Cardinality(UpTo(keep, Nth(keep, k))) = k
    BY <2>1 DEF Nth, UpTo
  <2> QED BY <2>2, <2>3
<1> QED BY <1>1, <1>4

(* The elements of new are elements of list, taken in their order from the *)
(* positions f.                                                            *)
Ordered(f, new, list) ==
  /\ f \in [DOMAIN new -> DOMAIN list]
  /\ \A k \in DOMAIN new : new[k] = list[f[k]]
  /\ \A k, l \in DOMAIN new : k < l => f[k] < f[l]

IsOrdered(new, list) == \E f : Ordered(f, new, list)

(* What is left of a list is in its order.                                 *)
LEMMA SubsequenceOrdered ==
  ASSUME NEW S, NEW list \in Seq(S), NEW keep \in SUBSET (DOMAIN list)
  PROVE  LET sub == Subsequence(list, keep)
         IN  /\ sub \in Seq(S) /\ Len(sub) = Cardinality(keep)
             /\ Len(sub) <= Len(list)
             /\ IsOrdered(sub, list)
             /\ InList(sub) = {list[i] : i \in keep}
<1> DEFINE m == Cardinality(keep)
           sub == Subsequence(list, keep)
<1>1. /\ m \in Nat /\ m <= Len(list)
      /\ \E e : Keeps(e, m, keep) /\ sub = [k \in 1..m |-> list[e[k]]]
  BY SubsequenceKeeps
<1> HIDE DEF m, sub
<1>2. PICK e : Keeps(e, m, keep) /\ sub = [k \in 1..m |-> list[e[k]]]
  BY <1>1
<1>3. \A i \in DOMAIN list : list[i] \in S
  OBVIOUS
<1>4. /\ e \in [1..m -> keep]
      /\ \A k, l \in 1..m : k < l => e[k] < e[l]
      /\ \A i \in keep : \E k \in 1..m : e[k] = i
  BY <1>2 DEF Keeps
<1>5. \A k \in 1..m : list[e[k]] \in S
  BY <1>3, <1>4
<1>6. sub \in Seq(S) /\ Len(sub) = m /\ DOMAIN sub = 1..m
  BY <1>1, <1>2, <1>5
<1>7. Ordered(e, sub, list)
  BY <1>2, <1>4, <1>6 DEF Ordered
<1>8. InList(sub) = {list[i] : i \in keep}
  BY <1>2, <1>4, <1>6 DEF InList
<1> QED BY <1>1, <1>6, <1>7, <1>8 DEF IsOrdered, m, sub

-----------------------------------------------------------------------------
(* Sorting and cutting.                                                    *)

(* The elements of new are elements of list at different positions.        *)
IsTaken(new, list) ==
  \E f \in [DOMAIN new -> DOMAIN list] :
    /\ \A k \in DOMAIN new : new[k] = list[f[k]]
    /\ \A k, l \in DOMAIN new : k # l => f[k] # f[l]

(* A sort keeps the elements and their number.                             *)
LEMMA SortingTakes ==
  ASSUME NEW S, NEW list \in Seq(S), NEW sorted \in Rearrangements(list)
  PROVE  /\ sorted \in Seq(S) /\ Len(sorted) = Len(list)
         /\ IsTaken(sorted, list) /\ InList(sorted) = InList(list)
<1> DEFINE D == DOMAIN list
<1>1. PICK p \in Bijection(D, D) : sorted = [i \in D |-> list[p[i]]]
  BY DEF Rearrangements
<1>2. /\ p \in [D -> D]
      /\ \A a, b \in D : p[a] = p[b] => a = b
      /\ \A t \in D : \E s \in D : p[s] = t
  BY <1>1 DEF Bijection, Injection, Surjection, IsInjective
<1>3. D = 1..Len(list) /\ Len(list) \in Nat /\ \A i \in D : list[i] \in S
  OBVIOUS
<1> HIDE DEF D
<1>4. sorted \in [1..Len(list) -> S]
  BY <1>1, <1>2, <1>3
<1>5. sorted \in Seq(S) /\ Len(sorted) = Len(list) /\ DOMAIN sorted = D
  BY <1>3, <1>4
<1>6. \A k \in DOMAIN sorted : sorted[k] = list[p[k]]
  BY <1>1, <1>5
<1>7. IsTaken(sorted, list)
  BY <1>2, <1>5, <1>6 DEF IsTaken, D
<1>8. InList(sorted) = InList(list)
  BY <1>2, <1>5, <1>6 DEF InList, D
<1> QED BY <1>5, <1>7, <1>8

(* A cut keeps the front.                                                  *)
LEMMA CutKeeps ==
  ASSUME NEW S, NEW list \in Seq(S), NEW n \in Nat
  PROVE  LET cut == CutTo(list, n)
         IN  /\ cut \in Seq(S) /\ Len(cut) <= n
             /\ Len(cut) = IF Len(list) > n THEN n ELSE Len(list)
             /\ DOMAIN cut \subseteq DOMAIN list
             /\ \A i \in DOMAIN cut : cut[i] = list[i]
<1>1. CASE Len(list) > n
  <2>1. CutTo(list, n) = SubSeq(list, 1, n)
    BY <1>1 DEF CutTo
  <2>2. /\ SubSeq(list, 1, n) \in Seq(S) /\ Len(SubSeq(list, 1, n)) = n
        /\ \A i \in 1..n : SubSeq(list, 1, n)[i] = list[i]
    BY <1>1, SubSeqProperties
  <2>3. DOMAIN SubSeq(list, 1, n) = 1..n /\ 1..n \subseteq DOMAIN list
    BY <1>1, <2>2
  <2> QED BY <1>1, <2>1, <2>2, <2>3
<1>2. CASE ~(Len(list) > n)
  BY <1>2 DEF CutTo
<1> QED BY <1>1, <1>2

-----------------------------------------------------------------------------
(* Offering a state to a list.                                             *)

(* The states of the list that are not near s.                             *)
Others(list, s) == {list[i] : i \in {j \in DOMAIN list : ~Near(s, list[j])}}

(* A state that no other stops goes to the back of those not near it.      *)
LEMMA AddUniqueAdded ==
  ASSUME NEW S, NEW list \in Seq(S), NEW s \in S, IsAdded(list, s)
  PROVE  \E sub \in Seq(S) :
           /\ AddUnique(list, s) = Append(sub, s)
           /\ Len(sub) <= Len(list)
           /\ IsOrdered(sub, list)
           /\ InList(sub) = Others(list, s)
<1> DEFINE stay == {i \in DOMAIN list : ~Near(s, list[i])}
           sub == Subsequence(list, stay)
           n == Len(list)
<1>1. n \in Nat /\ list = SubSeq(list, 1, n) /\ SubSeq(list, n + 1, n) = <<>>
  <2>1. n \in Nat /\ DOMAIN list = 1..n /\ list \in [1..n -> S]
    OBVIOUS
  <2>2. /\ SubSeq(list, 1, n) \in Seq(S) /\ Len(SubSeq(list, 1, n)) = n
        /\ \A i \in 1..n : SubSeq(list, 1, n)[i] = list[i]
    BY <2>1, SubSeqProperties
  <2>3. SubSeq(list, 1, n) = list
    BY <2>1, <2>2, SeqEqual
  <2>4. SubSeq(list, n + 1, n) = <<>>
    BY <2>1
  <2> QED BY <2>1, <2>3, <2>4
<1>2. ScanEnd(list, s) = n + 1 /\ n + 1 - 1 = n
  BY <1>1 DEF IsAdded, ScanEnd
<1>3. AddUnique(list, s) = sub \o <<>> \o <<s>>
  <2> DEFINE Left(b) == Subsequence(b, {i \in DOMAIN b : ~Near(s, b[i])})
             end == ScanEnd(list, s)
  <2>1. AddUnique(list, s)
          = Left(SubSeq(list, 1, end - 1)) \o SubSeq(list, end, n) \o <<s>>
    BY DEF AddUnique
  <2>2. sub = Left(list)
    OBVIOUS
  <2> HIDE DEF Left, sub, end
  <2>3. SubSeq(list, 1, end - 1) = list /\ SubSeq(list, end, n) = <<>>
    BY <1>1, <1>2 DEF end
  <2> QED BY <2>1, <2>2, <2>3
<1>4. /\ sub \in Seq(S) /\ Len(sub) <= n /\ IsOrdered(sub, list)
      /\ InList(sub) = {list[i] : i \in stay}
  BY SubsequenceOrdered
<1> HIDE DEF sub
<1>5. sub \o <<>> \o <<s>> = Append(sub, s)
  BY <1>4, ConcatEmptySeq, AppendIsConcat
<1>6. {list[i] : i \in stay} = Others(list, s)
  BY DEF Others
<1> QED BY <1>3, <1>4, <1>5, <1>6

(* The scan ends at the first state that stops it.                         *)
LEMMA ScanEndsThere ==
  ASSUME NEW S, NEW list \in Seq(S), NEW s \in S, ~IsAdded(list, s)
  PROVE  LET e == ScanEnd(list, s)
         IN  /\ e \in Blocker(list, s) /\ e \in 1..Len(list)
             /\ \A i \in Blocker(list, s) : e <= i
<1>1. Blocker(list, s) # {} /\ Blocker(list, s) \in SUBSET (1..Len(list))
  BY DEF IsAdded, Blocker
<1>2. Blocker(list, s) \in SUBSET Nat
  BY <1>1
<1>3. \E m \in Blocker(list, s) : \A i \in Blocker(list, s) : m <= i
  BY <1>1, <1>2, LeastNat
<1>4. ScanEnd(list, s) =
        CHOOSE i \in Blocker(list, s) : \A j \in Blocker(list, s) : i <= j
  BY <1>1 DEF ScanEnd
<1> QED BY <1>1, <1>3, <1>4

(* A state that another stops only takes out states that come before that. *)
LEMMA AddUniqueNot ==
  ASSUME NEW S, NEW list \in Seq(S), NEW s \in S, ~IsAdded(list, s)
  PROVE  LET new == AddUnique(list, s)
         IN  /\ new \in Seq(S) /\ Len(new) <= Len(list)
             /\ IsOrdered(new, list)
             /\ \A i \in DOMAIN list :
                  (i < ScanEnd(list, s) => ~Near(s, list[i]))
                    => list[i] \in InList(new)
<1> DEFINE e == ScanEnd(list, s)
           n == Len(list)
           before == SubSeq(list, 1, e - 1)
           after == SubSeq(list, e, n)
           stay == {i \in DOMAIN before : ~Near(s, before[i])}
           sub == Subsequence(before, stay)
           new == AddUnique(list, s)
<1>1. e \in 1..n /\ n \in Nat /\ DOMAIN list = 1..n
  BY ScanEndsThere
<1> HIDE DEF e
<1>2. /\ before \in Seq(S) /\ Len(before) = e - 1
      /\ \A i \in 1..e - 1 : before[i] = list[i]
  BY <1>1, SubSeqProperties
<1>3. /\ after \in Seq(S) /\ Len(after) = n - e + 1
      /\ \A i \in 1..n - e + 1 : after[i] = list[e + i - 1]
  BY <1>1, SubSeqProperties
<1>4. DOMAIN before = 1..e - 1 /\ DOMAIN after = 1..n - e + 1
  BY <1>2, <1>3
<1> HIDE DEF before, after
<1>5. /\ sub \in Seq(S) /\ Len(sub) = Cardinality(stay) /\ Len(sub) <= e - 1
      /\ IsOrdered(sub, before) /\ InList(sub) = {before[i] : i \in stay}
  BY <1>2, SubsequenceOrdered
<1> DEFINE m == Len(sub)
<1>6. m \in Nat /\ DOMAIN sub = 1..m /\ m <= e - 1
  BY <1>5
<1>7. new = sub \o after
  <2>1. new = sub \o after \o <<>>
    BY DEF AddUnique, before, after, e
  <2> HIDE DEF sub, new
  <2>2. sub \o after \in Seq(S)
    BY <1>3, <1>5
  <2> QED BY <2>1, <2>2, ConcatEmptySeq
<1>8. /\ new \in Seq(S) /\ Len(new) = m + (n - e + 1)
      /\ \A i \in 1..m + (n - e + 1) :
           new[i] = IF i <= m THEN sub[i] ELSE after[i - m]
  <2>1. Len(after) = n - e + 1
    BY <1>3
  <2> HIDE DEF sub, new
  <2>2. /\ sub \o after \in Seq(S)
        /\ Len(sub \o after) = Len(sub) + Len(after)
        /\ \A i \in 1..Len(sub) + Len(after) :
             (sub \o after)[i] = IF i <= Len(sub) THEN sub[i] ELSE after[i - Len(sub)]
    BY <1>3, <1>5, ConcatProperties
  <2> QED BY <1>7, <2>1, <2>2
<1>9. DOMAIN new = 1..m + (n - e + 1)
  <2> HIDE DEF sub, new
  <2> QED BY <1>8
<1>10. PICK f : Ordered(f, sub, before)
  BY <1>5 DEF IsOrdered
<1>11. /\ f \in [1..m -> 1..e - 1]
       /\ \A k \in 1..m : sub[k] = before[f[k]]
       /\ \A k, l \in 1..m : k < l => f[k] < f[l]
  BY <1>4, <1>6, <1>10 DEF Ordered
<1> HIDE DEF m, new
<1> DEFINE g == [k \in DOMAIN new |-> IF k <= m THEN f[k] ELSE k - m + e - 1]
<1>12. g \in [DOMAIN new -> DOMAIN list]
  <2> SUFFICES ASSUME NEW k \in DOMAIN new
               PROVE  (IF k <= m THEN f[k] ELSE k - m + e - 1) \in DOMAIN list
    OBVIOUS
  <2>1. k \in 1..m + (n - e + 1)
    BY <1>9
  <2>2. CASE k <= m
    <3>1. k \in 1..m
      BY <1>6, <2>1, <2>2
    <3>2. f[k] \in 1..e - 1
      BY <1>11, <3>1
    <3> QED BY <1>1, <2>2, <3>2
  <2>3. CASE ~(k <= m)
    BY <1>1, <1>6, <2>1, <2>3
  <2> QED BY <2>2, <2>3
<1>13. \A k \in DOMAIN new : new[k] = list[g[k]]
  <2> SUFFICES ASSUME NEW k \in DOMAIN new PROVE new[k] = list[g[k]]
    OBVIOUS
  <2>1. k \in 1..m + (n - e + 1)
    BY <1>9
  <2>2. CASE k <= m
    <3>1. k \in 1..m
      BY <1>6, <2>1, <2>2
    <3>2. f[k] \in 1..e - 1 /\ sub[k] = before[f[k]]
      BY <1>11, <3>1
    <3>3. new[k] = list[f[k]]
      BY <1>2, <1>8, <2>1, <2>2, <3>2
    <3> QED BY <2>2, <3>3
  <2>3. CASE ~(k <= m)
    <3>1. k - m \in 1..n - e + 1 /\ e + (k - m) - 1 = k - m + e - 1
      BY <1>1, <1>6, <2>1, <2>3
    <3>2. new[k] = after[k - m]
      BY <1>8, <2>1, <2>3
    <3>3. after[k - m] = list[k - m + e - 1]
      BY <1>3, <3>1
    <3> QED BY <2>3, <3>2, <3>3
  <2> QED BY <2>2, <2>3
<1>14. \A k, l \in DOMAIN new : k < l => g[k] < g[l]
  <2> SUFFICES ASSUME NEW k \in DOMAIN new, NEW l \in DOMAIN new, k < l
               PROVE  g[k] < g[l]
    OBVIOUS
  <2>1. k \in Nat \ {0} /\ l \in Nat \ {0} /\ m \in Nat /\ e \in Nat
    BY <1>1, <1>6, <1>9
  <2>2. CASE l <= m
    <3>1. k \in 1..m /\ l \in 1..m
      BY <2>1, <2>2
    <3>2. f[k] < f[l] /\ k <= m
      BY <1>11, <2>1, <2>2, <3>1
    <3> QED BY <2>2, <3>2
  <2>3. CASE k <= m /\ ~(l <= m)
    <3>1. k \in 1..m
      BY <2>1, <2>3
    <3>2. f[k] \in 1..e - 1
      BY <1>11, <3>1
    <3>3. f[k] < l - m + e - 1
      BY <2>1, <2>3, <3>2
    <3> QED BY <2>3, <3>3
  <2>4. CASE ~(k <= m) /\ ~(l <= m)
    <3>1. k - m + e - 1 < l - m + e - 1
      BY <2>1
    <3> QED BY <2>4, <3>1
  <2>5. l <= m => k <= m
    BY <2>1
  <2> HIDE DEF g
  <2> QED BY <2>2, <2>3, <2>4, <2>5
<1>15. IsOrdered(new, list)
  <2> HIDE DEF g
  <2> QED BY <1>12, <1>13, <1>14 DEF IsOrdered, Ordered
<1>16. ASSUME NEW i \in DOMAIN list, i < e => ~Near(s, list[i])
       PROVE  list[i] \in InList(new)
  <2>1. i \in 1..n
    BY <1>1
  <2>2. CASE i < e
    <3>1. i \in 1..e - 1
      BY <1>1, <2>1, <2>2
    <3>2. i \in stay /\ before[i] = list[i]
      BY <1>2, <1>4, <1>16, <2>2, <3>1
    <3>3. list[i] \in InList(sub)
      BY <1>5, <3>2
    <3> HIDE DEF sub
    <3>4. PICK k \in 1..m : sub[k] = list[i]
      BY <1>6, <3>3 DEF InList
    <3>5. k \in 1..m + (n - e + 1) /\ k <= m
      BY <1>1, <1>6
    <3>6. k \in DOMAIN new /\ new[k] = list[i]
      BY <1>8, <1>9, <3>4, <3>5
    <3> QED BY <3>6 DEF InList
  <2>3. CASE ~(i < e)
    <3> DEFINE k == m + (i - e + 1)
    <3>1. /\ k \in 1..m + (n - e + 1) /\ ~(k <= m) /\ k - m = i - e + 1
          /\ i - e + 1 \in 1..n - e + 1 /\ e + (i - e + 1) - 1 = i
      BY <1>1, <1>6, <2>1, <2>3
    <3> HIDE DEF k
    <3>2. after[k - m] = list[i]
      BY <1>3, <3>1
    <3>3. k \in DOMAIN new /\ new[k] = list[i]
      BY <1>8, <1>9, <3>1, <3>2
    <3> QED BY <3>3 DEF InList
  <2> QED BY <2>2, <2>3
<1>17. Len(new) <= n
  BY <1>1, <1>6, <1>8
<1> QED BY <1>8, <1>15, <1>16, <1>17 DEF new, e

(* No two states of the list are near each other.                          *)
Apart(list) == \A i, j \in DOMAIN list : i # j => ~Near(list[i], list[j])

(* What is taken from a list is as far apart, and what is left of a sorted *)
(* list is sorted.                                                         *)
LEMMA TakenApart ==
  ASSUME NEW list, NEW new, IsTaken(new, list), Apart(list)
  PROVE  Apart(new) /\ InList(new) \subseteq InList(list)
<1>1. PICK f \in [DOMAIN new -> DOMAIN list] :
        /\ \A k \in DOMAIN new : new[k] = list[f[k]]
        /\ \A k, l \in DOMAIN new : k # l => f[k] # f[l]
  BY DEF IsTaken
<1> QED BY <1>1 DEF Apart, InList

LEMMA OrderedKeeps ==
  ASSUME NEW S, NEW list \in Seq(S), NEW new \in Seq(S), IsOrdered(new, list)
  PROVE  /\ Apart(list) => Apart(new)
         /\ InOrder(list) => InOrder(new)
         /\ InList(new) \subseteq InList(list)
<1>1. PICK f : Ordered(f, new, list)
  BY DEF IsOrdered
<1>2. /\ f \in [DOMAIN new -> DOMAIN list]
      /\ \A k \in DOMAIN new : new[k] = list[f[k]]
      /\ \A k, l \in DOMAIN new : k < l => f[k] < f[l]
  BY <1>1 DEF Ordered
<1>3. \A k, l \in DOMAIN new : k # l => f[k] # f[l]
  <2> SUFFICES ASSUME NEW k \in DOMAIN new, NEW l \in DOMAIN new, k # l
               PROVE  f[k] # f[l]
    OBVIOUS
  <2>1. k \in Nat /\ l \in Nat /\ f[k] \in Nat /\ f[l] \in Nat
    BY <1>2
  <2>2. k < l \/ l < k
    BY <2>1
  <2>3. f[k] < f[l] \/ f[l] < f[k]
    BY <1>2, <2>2
  <2> QED BY <2>1, <2>3
<1>4. InOrder(list) => InOrder(new)
  BY <1>2 DEF InOrder
<1>5. Apart(list) => Apart(new)
  BY <1>2, <1>3 DEF Apart
<1>6. InList(new) \subseteq InList(list)
  BY <1>2 DEF InList
<1> QED BY <1>4, <1>5, <1>6

(* addToListOfUniqueSolutions() with a distance that is symmetric.         *)
LEMMA AddUniqueApart ==
  ASSUME NEW S, NEW list \in Seq(S), NEW s \in S, Apart(list),
         \A x, y \in S : Near(x, y) <=> Near(y, x)
  PROVE  LET new == AddUnique(list, s)
         IN  /\ new \in Seq(S) /\ Len(new) <= Len(list) + 1
             /\ ~IsAdded(list, s) => Len(new) <= Len(list)
             /\ Apart(new) /\ InList(new) \subseteq InList(list) \cup {s}
<1>1. CASE IsAdded(list, s)
  <2>1. PICK sub \in Seq(S) :
          /\ AddUnique(list, s) = Append(sub, s)
          /\ Len(sub) <= Len(list)
          /\ IsOrdered(sub, list)
          /\ InList(sub) = Others(list, s)
    BY <1>1, AddUniqueAdded
  <2> DEFINE new == Append(sub, s)
             m == Len(sub)
  <2>2. /\ new \in Seq(S) /\ m \in Nat /\ Len(new) = m + 1
        /\ \A i \in 1..m : new[i] = sub[i]
        /\ new[m + 1] = s
    BY AppendProperties
  <2>3. DOMAIN new = 1..m + 1 /\ DOMAIN sub = 1..m
    BY <2>2
  <2>4. Apart(sub) /\ InList(sub) \subseteq InList(list)
    BY <2>1, OrderedKeeps
  <2>5. \A i \in 1..m : ~Near(s, sub[i]) /\ sub[i] \in S
    BY <2>1, <2>3 DEF InList, Others
  <2> HIDE DEF new, m
  <2>6. \A i \in DOMAIN new : i = m + 1 \/ i \in 1..m
    BY <2>2, <2>3
  <2>7. Apart(new)
    <3> SUFFICES ASSUME NEW i \in DOMAIN new, NEW j \in DOMAIN new, i # j
                 PROVE  ~Near(new[i], new[j])
      BY DEF Apart
    <3>1. CASE i = m + 1
      <4>1. j \in 1..m
        BY <2>6, <3>1
      <4> QED BY <2>2, <2>5, <3>1, <4>1
    <3>2. CASE j = m + 1
      <4>1. i \in 1..m
        BY <2>6, <3>2
      <4>2. ~Near(s, sub[i]) /\ sub[i] \in S
        BY <2>5, <4>1
      <4>3. ~Near(sub[i], s)
        BY <4>2
      <4> QED BY <2>2, <3>2, <4>1, <4>3
    <3>3. CASE i \in 1..m /\ j \in 1..m
      <4>1. ~Near(sub[i], sub[j])
        BY <2>3, <2>4, <3>3 DEF Apart
      <4> QED BY <2>2, <3>3, <4>1
    <3> QED BY <2>6, <3>1, <3>2, <3>3
  <2>8. InList(new) \subseteq InList(list) \cup {s}
    <3> SUFFICES ASSUME NEW i \in DOMAIN new
                 PROVE  new[i] \in InList(list) \cup {s}
      BY DEF InList
    <3>1. i \in 1..m => sub[i] \in InList(sub)
      BY <2>3 DEF InList
    <3> QED BY <2>2, <2>4, <2>6, <3>1
  <2>9. Len(new) <= Len(list) + 1
    BY <2>1, <2>2 DEF m
  <2> QED BY <1>1, <2>1, <2>2, <2>7, <2>8, <2>9 DEF new
<1>2. CASE ~IsAdded(list, s)
  <2> DEFINE new == AddUnique(list, s)
  <2>1. new \in Seq(S) /\ Len(new) <= Len(list) /\ IsOrdered(new, list)
    BY <1>2, AddUniqueNot
  <2> HIDE DEF new
  <2>2. Apart(new) /\ InList(new) \subseteq InList(list)
    BY <2>1, OrderedKeeps
  <2>3. Len(new) <= Len(list) + 1
    BY <2>1
  <2> QED BY <1>2, <2>1, <2>2, <2>3 DEF new
<1> QED BY <1>1, <1>2

(* What a planner keeps of a list that was sorted.                         *)
LEMMA SortedAndCut ==
  ASSUME NEW S, NEW list \in Seq(S), NEW n \in Nat,
         NEW sorted \in Sortings(list)
  PROVE  LET new == CutTo(sorted, n)
         IN  /\ new \in Seq(S) /\ Len(new) <= n
             /\ Len(new) = IF Len(list) > n THEN n ELSE Len(list)
             /\ IsTaken(new, list) /\ InOrder(new)
<1>1. sorted \in Rearrangements(list) /\ InOrder(sorted)
  BY DEF Sortings
<1>2. /\ sorted \in Seq(S) /\ Len(sorted) = Len(list)
      /\ IsTaken(sorted, list)
  BY <1>1, SortingTakes
<1> DEFINE new == CutTo(sorted, n)
<1>3. /\ new \in Seq(S) /\ Len(new) <= n
      /\ Len(new) = IF Len(sorted) > n THEN n ELSE Len(sorted)
      /\ DOMAIN new \subseteq DOMAIN sorted
      /\ \A i \in DOMAIN new : new[i] = sorted[i]
  BY <1>2, CutKeeps
<1> HIDE DEF new
<1>4. InOrder(new)
  BY <1>1, <1>3 DEF InOrder
<1>5. PICK f \in [DOMAIN sorted -> DOMAIN list] :
        /\ \A k \in DOMAIN sorted : sorted[k] = list[f[k]]
        /\ \A k, l \in DOMAIN sorted : k # l => f[k] # f[l]
  BY <1>2 DEF IsTaken
<1> DEFINE g == [k \in DOMAIN new |-> f[k]]
<1>6. g \in [DOMAIN new -> DOMAIN list]
  BY <1>3
<1>7. /\ \A k \in DOMAIN new : new[k] = list[g[k]]
      /\ \A k, l \in DOMAIN new : k # l => g[k] # g[l]
  BY <1>3, <1>5
<1>8. IsTaken(new, list)
  <2> HIDE DEF g
  <2> QED BY <1>6, <1>7 DEF IsTaken
<1> QED BY <1>2, <1>3, <1>4, <1>8 DEF new

(* A list to which a state is offered keeps to its size, and its states    *)
(* stay apart.                                                             *)
LEMMA OffersApart ==
  ASSUME NEW S, NEW list \in Seq(S), NEW s \in S, NEW n \in Nat, NEW ceiling,
         Len(list) <= n, Apart(list),
         \A x, y \in S : Near(x, y) <=> Near(y, x),
         NEW new \in Offers(list, s, n, ceiling)
  PROVE  /\ new \in Seq(S) /\ Len(new) <= n
         /\ Apart(new) /\ InList(new) \subseteq InList(list) \cup {s}
<1> DEFINE more == AddUnique(list, s)
<1>1. /\ more \in Seq(S) /\ Apart(more)
      /\ ~IsAdded(list, s) => Len(more) <= Len(list)
      /\ InList(more) \subseteq InList(list) \cup {s}
  BY AddUniqueApart
<1>2. \/ \E sorted \in Sortings(more) : new = CutTo(sorted, n)
      \/ ~IsAdded(list, s) /\ new = more
      \/ new = list
  BY DEF Offers
<1> HIDE DEF more
<1>3. CASE \E sorted \in Sortings(more) : new = CutTo(sorted, n)
  <2>1. new \in Seq(S) /\ Len(new) <= n /\ IsTaken(new, more)
    BY <1>1, <1>3, SortedAndCut
  <2>2. Apart(new) /\ InList(new) \subseteq InList(more)
    BY <1>1, <2>1, TakenApart
  <2> QED BY <1>1, <2>1, <2>2
<1>4. CASE ~IsAdded(list, s) /\ new = more
  <2>1. Len(more) \in Nat /\ Len(list) \in Nat
    BY <1>1
  <2> QED BY <1>1, <1>4, <2>1
<1>5. CASE new = list
  BY <1>5
<1> QED BY <1>2, <1>3, <1>4, <1>5

(* The list is sorted and low is the energy of its best state; an empty    *)
(* list has the energy at the ceiling.                                     *)
Tops(list, low, ceiling) ==
  /\ InOrder(list)
  /\ IF list = <<>> THEN low = ceiling
     ELSE low < ceiling /\ Energy(list[1]) = low

(* An empty list holds nothing.                                           *)
LEMMA EmptyHasNone == InList(<<>>) = {}
  BY DEF InList

(* In a sorted list the first is the best.                                 *)
LEMMA FirstIsBest ==
  ASSUME NEW S, NEW list \in Seq(S), InOrder(list), list # <<>>,
         \A x \in S : Energy(x) \in Int
  PROVE  /\ 1 \in DOMAIN list /\ list[1] \in InList(list)
         /\ \A x \in InList(list) : x \in S /\ Energy(list[1]) <= Energy(x)
<1>1. 1 \in DOMAIN list
  BY EmptySeq
<1>2. ASSUME NEW i \in DOMAIN list
      PROVE  list[i] \in S /\ Energy(list[1]) <= Energy(list[i])
  <2>1. i \in Nat /\ i >= 1 /\ list[i] \in S
    OBVIOUS
  <2>2. CASE i = 1
    BY <2>1, <2>2
  <2>3. CASE i # 1
    BY <1>1, <2>1, <2>3 DEF InOrder
  <2> QED BY <2>1, <2>2, <2>3
<1> QED BY <1>1, <1>2 DEF InList

(* A sorted list with its best state x, whatever else it holds.            *)
LEMMA TopsIs ==
  ASSUME NEW S, NEW list \in Seq(S), InOrder(list),
         \A y \in S : Energy(y) \in Int,
         NEW x \in InList(list), NEW low \in Int, NEW ceiling \in Int,
         Energy(x) = low, low < ceiling,
         \A y \in InList(list) : low <= Energy(y)
  PROVE  Tops(list, low, ceiling)
<1>1. list # <<>>
  BY DEF InList
<1>2. /\ list[1] \in InList(list) /\ list[1] \in S
      /\ x \in S /\ Energy(list[1]) <= Energy(x)
  BY <1>1, FirstIsBest
<1>3. Energy(list[1]) = low
  BY <1>2
<1> QED BY <1>1, <1>3 DEF Tops

(* The cut keeps the first.                                                *)
LEMMA CutKeepsFirst ==
  ASSUME NEW S, NEW list \in Seq(S), NEW n \in Nat \ {0}, list # <<>>
  PROVE  CutTo(list, n) # <<>> /\ CutTo(list, n)[1] = list[1]
<1>1. /\ CutTo(list, n) \in Seq(S)
      /\ Len(CutTo(list, n)) = IF Len(list) > n THEN n ELSE Len(list)
      /\ \A i \in DOMAIN CutTo(list, n) : CutTo(list, n)[i] = list[i]
  BY CutKeeps
<1>2. Len(list) \in Nat /\ Len(list) # 0
  BY EmptySeq
<1>3. 1 \in DOMAIN CutTo(list, n)
  BY <1>1, <1>2
<1> QED BY <1>1, <1>3

(* The best state is never lost to a near one, to the sort or to the cut.  *)
LEMMA OffersTops ==
  ASSUME NEW S, NEW list \in Seq(S), NEW s \in S, NEW n \in Nat \ {0},
         NEW low \in Int, NEW ceiling \in Int,
         \A x \in S : Energy(x) \in Int, Tops(list, low, ceiling),
         NEW new \in Offers(list, s, n, ceiling)
  PROVE  Tops(new, IF Energy(s) < low THEN Energy(s) ELSE low, ceiling)
<1> DEFINE more == AddUnique(list, s)
           worst == IF Len(list) < n THEN ceiling ELSE Energy(list[Len(list)])
           least == IF Energy(s) < low THEN Energy(s) ELSE low
<1>1. /\ Energy(s) \in Int /\ least \in Int /\ InOrder(list)
      /\ least <= low /\ least <= Energy(s)
  BY DEF Tops
<1>2. CASE list = <<>>
  <2>1. low = ceiling
    BY <1>2 DEF Tops
  <2>2. Len(list) = 0 /\ worst = ceiling
    BY <1>2
  <2>3. IsAdded(list, s)
    BY <1>2 DEF IsAdded, Blocker
  <2>4. CASE Energy(s) < ceiling
    <3>1. PICK sorted \in Sortings(more) : new = CutTo(sorted, n)
      BY <2>2, <2>3, <2>4 DEF Offers
    <3>2. PICK sub \in Seq(S) : more = Append(sub, s) /\ Len(sub) <= Len(list)
      BY <2>3, AddUniqueAdded
    <3>3. sub = <<>>
      BY <2>2, <3>2, EmptySeq
    <3>4. more \in Seq(S) /\ InList(more) = {s}
      BY <3>2, <3>3 DEF InList
    <3> HIDE DEF more
    <3>5. /\ sorted \in Seq(S) /\ InList(sorted) = {s} /\ InOrder(sorted)
      BY <3>4, SortingTakes DEF Sortings
    <3>6. sorted # <<>>
      BY <3>5, EmptyHasNone
    <3>7. sorted[1] = s
      BY <3>5, <3>6, FirstIsBest
    <3>8. new # <<>> /\ new[1] = s
      BY <3>1, <3>5, <3>6, <3>7, CutKeepsFirst
    <3>9. InOrder(new)
      BY <3>1, <3>4, SortedAndCut
    <3> QED BY <1>1, <2>1, <2>4, <3>8, <3>9 DEF Tops
  <2>5. CASE ~(Energy(s) < ceiling)
    <3>1. new = list
      BY <2>2, <2>5 DEF Offers
    <3> QED BY <2>1, <2>5, <3>1
  <2> QED BY <2>4, <2>5
<1>3. CASE list # <<>>
  <2>1. low < ceiling /\ Energy(list[1]) = low
    BY <1>3 DEF Tops
  <2>2. /\ 1 \in DOMAIN list /\ list[1] \in InList(list) /\ list[1] \in S
        /\ \A x \in InList(list) : x \in S /\ low <= Energy(x)
    BY <1>1, <1>3, <2>1, FirstIsBest
  <2>3. least < ceiling
    BY <1>1, <2>1
  <2>4. CASE Energy(s) < worst /\ IsAdded(list, s)
    <3>1. PICK sorted \in Sortings(more) : new = CutTo(sorted, n)
      BY <2>4 DEF Offers
    <3>2. PICK sub \in Seq(S) :
            more = Append(sub, s) /\ InList(sub) = Others(list, s)
      BY <2>4, AddUniqueAdded
    <3>3. more \in Seq(S) /\ InList(more) = Others(list, s) \cup {s}
      <4> DEFINE m == Len(sub)
      <4>1. /\ more \in Seq(S) /\ m \in Nat /\ Len(more) = m + 1
            /\ \A i \in 1..m : more[i] = sub[i]
            /\ more[m + 1] = s
        BY <3>2, AppendProperties
      <4>2. DOMAIN more = 1..m + 1 /\ DOMAIN sub = 1..m
        BY <4>1
      <4> HIDE DEF m, more
      <4>3. 1..m + 1 = 1..m \cup {m + 1}
        BY <4>1
      <4>4. InList(more) = InList(sub) \cup {s}
        <5>1. \A i \in 1..m : more[i] \in InList(sub)
          BY <4>1, <4>2 DEF InList
        <5>2. \A x \in InList(sub) : x \in InList(more)
          BY <4>1, <4>2, <4>3 DEF InList
        <5>3. s \in InList(more)
          BY <4>1, <4>2, <4>3 DEF InList
        <5>4. \A x \in InList(more) : x \in InList(sub) \cup {s}
          BY <4>1, <4>2, <4>3, <5>1 DEF InList
        <5> QED BY <5>2, <5>3, <5>4
      <4> QED BY <3>2, <4>1, <4>4
    <3>4. Others(list, s) \subseteq InList(list)
      BY DEF Others, InList
    <3> HIDE DEF more
    <3>5. /\ sorted \in Seq(S) /\ InList(sorted) = InList(more)
          /\ InOrder(sorted)
      BY <3>3, SortingTakes DEF Sortings
    <3>6. \A x \in InList(sorted) : least <= Energy(x)
      <4> SUFFICES ASSUME NEW x \in InList(sorted) PROVE least <= Energy(x)
        OBVIOUS
      <4>1. x = s \/ x \in InList(list)
        BY <3>3, <3>4, <3>5
      <4>2. x \in InList(list) => low <= Energy(x) /\ Energy(x) \in Int
        BY <2>2
      <4> HIDE DEF least
      <4> QED BY <1>1, <4>1, <4>2
    <3>7. \E x \in InList(sorted) : Energy(x) = least
      <4>1. CASE Energy(s) < low
        BY <3>3, <3>5, <4>1
      <4>2. CASE ~(Energy(s) < low)
        <5>1. Energy(s) >= Energy(list[1])
          BY <1>1, <2>1, <4>2
        <5>2. 1 \notin Blocker(list, s)
          BY <2>4 DEF IsAdded
        <5>3. ~Near(s, list[1])
          BY <2>2, <5>1, <5>2 DEF Blocker
        <5>4. list[1] \in Others(list, s)
          BY <2>2, <5>3 DEF Others
        <5> QED BY <2>1, <3>3, <3>5, <4>2, <5>4
      <4> QED BY <4>1, <4>2
    <3>8. Tops(sorted, least, ceiling)
      <4> HIDE DEF least
      <4>1. PICK x \in InList(sorted) : Energy(x) = least
        BY <3>7
      <4> QED BY <1>1, <2>3, <3>5, <3>6, <4>1, TopsIs
    <3>9. sorted # <<>>
      BY <3>3, <3>5, EmptyHasNone
    <3>10. new # <<>> /\ new[1] = sorted[1]
      BY <3>1, <3>5, <3>9, CutKeepsFirst
    <3>11. InOrder(new)
      BY <3>1, <3>3, SortedAndCut
    <3>12. Tops(new, least, ceiling)
      <4> HIDE DEF least
      <4> QED BY <3>8, <3>9, <3>10, <3>11 DEF Tops
    <3> QED BY <3>12
  <2>5. CASE Energy(s) < worst /\ ~IsAdded(list, s)
    <3>1. new = more
      BY <2>5 DEF Offers
    <3>2. PICK e : /\ e = ScanEnd(list, s) /\ e \in Blocker(list, s)
                   /\ \A i \in Blocker(list, s) : e <= i
      BY <2>5, ScanEndsThere
    <3>3. list[e] \in InList(list) /\ Energy(s) >= Energy(list[e]) /\ e \in Nat
      BY <3>2 DEF Blocker, InList
    <3>4. least = low /\ ~(Energy(s) < low)
      BY <1>1, <2>2, <3>3
    <3>5. /\ new \in Seq(S) /\ IsOrdered(new, list)
          /\ (1 < e => ~Near(s, list[1])) => list[1] \in InList(new)
      BY <2>2, <2>5, <3>1, <3>2, AddUniqueNot
    <3>6. 1 < e => ~Near(s, list[1])
      <4> SUFFICES ASSUME 1 < e, Near(s, list[1]) PROVE FALSE
        OBVIOUS
      <4>1. 1 \in Blocker(list, s)
        BY <1>1, <2>1, <2>2, <3>4 DEF Blocker
      <4> QED BY <3>2, <3>3, <4>1
    <3>7. InOrder(new) /\ InList(new) \subseteq InList(list)
      BY <1>1, <3>5, OrderedKeeps
    <3>8. Tops(new, low, ceiling)
      BY <2>1, <2>2, <3>5, <3>6, <3>7, TopsIs
    <3> QED BY <3>4, <3>8
  <2>6. CASE ~(Energy(s) < worst)
    <3>1. new = list
      BY <2>6 DEF Offers
    <3>2. worst \in Int /\ low <= worst
      <4>1. CASE Len(list) < n
        BY <2>1, <4>1
      <4>2. CASE ~(Len(list) < n)
        <5>1. Len(list) \in DOMAIN list
          BY <1>3, EmptySeq
        <5>2. list[Len(list)] \in InList(list)
          BY <5>1 DEF InList
        <5> QED BY <2>2, <4>2, <5>2
      <4> QED BY <4>1, <4>2
    <3>3. least = low
      <4> HIDE DEF worst
      <4> QED BY <1>1, <2>6, <3>2
    <3> QED BY <3>1, <3>3
  <2> QED BY <2>4, <2>5, <2>6
<1> QED BY <1>2, <1>3
=============================================================================
