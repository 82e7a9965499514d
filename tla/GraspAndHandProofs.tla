-------------------------- MODULE GraspAndHandProofs --------------------------
(***************************************************************************)
(* Proofs about GraspManager for lists, measures and qualities of every    *)
(* number: wrench spaces count their users, the manager's list holds no    *)
(* grasp that was deleted, and a test that ends leaves the good grasps in  *)
(* order.  Then proofs about HandMotion, the hand that such a test closes, *)
(* for every number of DOFs, joints and values and for every geometry:     *)
(* restores return, moves end by themselves, leave a free hand free and go *)
(* as far as they can.                                                     *)
(***************************************************************************)
EXTENDS GraspManager, HandMotion, FiniteSetTheorems, SequenceTheorems, NaturalsInduction,
        WellFoundedInduction, TLAPS

-----------------------------------------------------------------------------
(***************************************************************************)
(* The planner for primitives.                                             *)
(***************************************************************************)
(* A grasp, without the bounds of TypeOK.                                  *)
Measured(g) ==
  /\ DOMAIN g = {"qmList", "projections", "refs"}
  /\ g.qmList \in Seq(GWSType)

-----------------------------------------------------------------------------
(* The functions on a grasp.                                               *)

(* A GWS found, created or given up leaves the measures alone.             *)
LEMMA Referred ==
  ASSUME NEW g, Measured(g), NEW t
  PROVE  /\ Measured(AddGWS(g, t)) /\ AddGWS(g, t).qmList = g.qmList
         /\ Measured(RemoveGWS(g, t)) /\ RemoveGWS(g, t).qmList = g.qmList
<1>1. ASSUME NEW r PROVE /\ DOMAIN [g EXCEPT !.refs = r] = DOMAIN g
                         /\ [g EXCEPT !.refs = r].qmList = g.qmList
  BY DEF Measured
<1>2. AddGWS(g, t) = [g EXCEPT !.refs = [g.refs EXCEPT ![t] = g.refs[t] + 1]]
  BY DEF AddGWS
<1>3. RemoveGWS(g, t) = [g EXCEPT !.refs = [g.refs EXCEPT ![t] = g.refs[t] - 1]]
  BY DEF RemoveGWS
<1> QED BY <1>1, <1>2, <1>3 DEF Measured

(* So does a projection.                                                   *)
LEMMA Projected ==
  ASSUME NEW g, Measured(g), NEW t
  PROVE  /\ Measured(AddProjection(g, t))
         /\ AddProjection(g, t).qmList = g.qmList
         /\ Measured(RemoveProjection(g, t))
         /\ RemoveProjection(g, t).qmList = g.qmList
<1>1. ASSUME NEW h, Measured(h), NEW p
      PROVE  /\ DOMAIN [h EXCEPT !.projections = p] = DOMAIN h
             /\ [h EXCEPT !.projections = p].qmList = h.qmList
  BY DEF Measured
<1> DEFINE u == AddGWS(g, t)
           v == RemoveGWS(g, t)
<1>2. /\ Measured(u) /\ u.qmList = g.qmList
      /\ Measured(v) /\ v.qmList = g.qmList
  BY Referred
<1>3. AddProjection(g, t) =
        [u EXCEPT !.projections = [u.projections EXCEPT ![t] = u.projections[t] + 1]]
  BY DEF AddProjection
<1>4. RemoveProjection(g, t) =
        [v EXCEPT !.projections = [v.projections EXCEPT ![t] = v.projections[t] - 1]]
  BY DEF RemoveProjection
<1> HIDE DEF u, v
<1> QED BY <1>1, <1>2, <1>3, <1>4 DEF Measured

(* A grasp with another list of measures.                                  *)
LEMMA Relisted ==
  ASSUME NEW h, Measured(h), NEW l \in Seq(GWSType)
  PROVE  Measured([h EXCEPT !.qmList = l]) /\ [h EXCEPT !.qmList = l].qmList = l
  BY DEF Measured

(* A new measure is one more.                                              *)
LEMMA Added ==
  ASSUME NEW g, Measured(g), NEW t \in GWSType
  PROVE  Measured(AddQM(g, t)) /\ Len(AddQM(g, t).qmList) = Len(g.qmList) + 1
<1> DEFINE u == AddGWS(g, t)
           l == Append(g.qmList, t)
<1>1. Measured(u) /\ u.qmList = g.qmList
  BY Referred
<1>2. l \in Seq(GWSType) /\ Len(l) = Len(g.qmList) + 1
  BY DEF Measured
<1>3. AddQM(g, t) = [u EXCEPT !.qmList = l]
  BY <1>1 DEF AddQM
<1> HIDE DEF u, l
<1> QED BY <1>1, <1>2, <1>3, Relisted

(* A measure that is replaced leaves as many.                              *)
LEMMA Replaced ==
  ASSUME NEW g, Measured(g), NEW i \in DOMAIN g.qmList, NEW t \in GWSType
  PROVE  /\ Measured(ReplaceQM(g, i, t))
         /\ Len(ReplaceQM(g, i, t).qmList) = Len(g.qmList)
<1> DEFINE u == AddGWS(g, t)
           v == RemoveGWS(u, g.qmList[i])
           l == [g.qmList EXCEPT ![i] = t]
<1>1. Measured(v) /\ v.qmList = g.qmList
  BY Referred
<1>2. l \in Seq(GWSType) /\ Len(l) = Len(g.qmList)
  BY DEF Measured
<1>3. ReplaceQM(g, i, t) = [v EXCEPT !.qmList = l]
  BY <1>1 DEF ReplaceQM
<1> HIDE DEF v, l
<1> QED BY <1>1, <1>2, <1>3, Relisted

(* A measure that is removed is one less.                                  *)
LEMMA Removed ==
  ASSUME NEW g, Measured(g), NEW i \in DOMAIN g.qmList
  PROVE  /\ Measured(RemoveQM(g, i))
         /\ Len(RemoveQM(g, i).qmList) = Len(g.qmList) - 1
<1> DEFINE v == RemoveGWS(g, g.qmList[i])
           q == g.qmList
           l == SubSeq(q, 1, i - 1) \o SubSeq(q, i + 1, Len(q))
<1>1. Measured(v) /\ v.qmList = q
  BY Referred
<1>2. q \in Seq(GWSType) /\ i \in 1..Len(q) /\ Len(q) \in Nat
  BY DEF Measured
<1>3. l \in Seq(GWSType) /\ Len(l) = Len(q) - 1
  <2> HIDE DEF q
  <2> DEFINE a == SubSeq(q, 1, i - 1)
             b == SubSeq(q, i + 1, Len(q))
  <2>1. a \in Seq(GWSType) /\ Len(a) = i - 1
    BY <1>2, SubSeqProperties
  <2>2. b \in Seq(GWSType) /\ Len(b) = Len(q) - i
    BY <1>2, SubSeqProperties
  <2> HIDE DEF a, b
  <2>3. a \o b \in Seq(GWSType) /\ Len(a \o b) = Len(a) + Len(b)
    BY <2>1, <2>2
  <2> QED BY <1>2, <2>1, <2>2, <2>3 DEF a, b
<1>4. RemoveQM(g, i) = [v EXCEPT !.qmList = l]
  BY <1>1 DEF RemoveQM, RemoveAt
<1> HIDE DEF v, l
<1> QED BY <1>1, <1>3, <1>4, Relisted

-----------------------------------------------------------------------------
(* The users of a GWS.                                                     *)

(* The measures of a list that use the GWS of type u.                      *)
Users(q, u) == {i \in DOMAIN q : q[i] = u}

(* Few measures use a GWS.                                                 *)
LEMMA FiniteUsers ==
  ASSUME NEW q \in Seq(GWSType), NEW u
  PROVE  IsFiniteSet(Users(q, u)) /\ Cardinality(Users(q, u)) \in Int
<1>1. Len(q) \in Nat /\ Users(q, u) \subseteq 1..Len(q)
  BY DEF Users
<1>2. IsFiniteSet(1..Len(q))
  BY <1>1, FS_Interval
<1>3. IsFiniteSet(Users(q, u))
  BY <1>1, <1>2, FS_Subset
<1> QED BY <1>3, FS_CardinalityType

(* A measure at the end is one more user of its GWS.                       *)
LEMMA UsersAppended ==
  ASSUME NEW q \in Seq(GWSType), NEW t \in GWSType, NEW u
  PROVE  Cardinality(Users(Append(q, t), u)) =
           Cardinality(Users(q, u)) + (IF u = t THEN 1 ELSE 0)
<1> DEFINE n == Len(q) + 1
           S == Users(q, u)
<1>1. Len(q) \in Nat /\ IsFiniteSet(S) /\ n \notin S /\ Cardinality(S) \in Int
  <2>1. Len(q) \in Nat /\ n \notin DOMAIN q
    OBVIOUS
  <2> QED BY <2>1, FiniteUsers DEF Users
<1>2. CASE u = t
  <2>1. Users(Append(q, t), u) = S \cup {n}
    BY <1>1, <1>2 DEF Users
  <2>2. Cardinality(S \cup {n}) = Cardinality(S) + 1
    BY <1>1, FS_AddElement
  <2> QED BY <1>2, <2>1, <2>2
<1>3. CASE u # t
  <2>1. Users(Append(q, t), u) = S
    BY <1>1, <1>3 DEF Users
  <2> QED BY <1>1, <1>3, <2>1
<1> QED BY <1>2, <1>3

(* One GWS gains the user that another one loses.                          *)
LEMMA UsersReplaced ==
  ASSUME NEW q \in Seq(GWSType), NEW i \in DOMAIN q, NEW t \in GWSType, NEW u
  PROVE  Cardinality(Users([q EXCEPT ![i] = t], u)) =
           Cardinality(Users(q, u)) + (IF u = t THEN 1 ELSE 0)
             - (IF u = q[i] THEN 1 ELSE 0)
<1> DEFINE l == [q EXCEPT ![i] = t]
           S == Users(q, u)
<1>1. IsFiniteSet(S) /\ Cardinality(S) \in Int
  BY FiniteUsers
<1>2. \A j \in DOMAIN q : l[j] = IF j = i THEN t ELSE q[j]
  OBVIOUS
<1>3. DOMAIN l = DOMAIN q
  OBVIOUS
<1> HIDE DEF l
<1>4. CASE u = t /\ u # q[i]
  <2>1. Users(l, u) = S \cup {i} /\ i \notin S
    BY <1>2, <1>3, <1>4 DEF Users
  <2>2. Cardinality(S \cup {i}) = Cardinality(S) + 1
    BY <1>1, <2>1, FS_AddElement
  <2>3. Cardinality(Users(l, u)) = Cardinality(S) + 1 - 0
    BY <1>1, <2>1, <2>2
  <2> QED BY <1>4, <2>3 DEF l
<1>5. CASE u # t /\ u = q[i]
  <2>1. Users(l, u) = S \ {i} /\ i \in S
    BY <1>2, <1>3, <1>5 DEF Users
  <2>2. Cardinality(S \ {i}) = Cardinality(S) - 1
    BY <1>1, <2>1, FS_RemoveElement
  <2>3. Cardinality(Users(l, u)) = Cardinality(S) + 0 - 1
    BY <1>1, <2>1, <2>2
  <2> QED BY <1>5, <2>3 DEF l
<1>6. CASE (u = t) <=> (u = q[i])
  <2>1. Users(l, u) = S
    BY <1>2, <1>3, <1>6 DEF Users
  <2> QED BY <1>1, <1>6, <2>1 DEF l
<1> QED BY <1>4, <1>5, <1>6

(* A measure that is removed is a user less of its GWS.                    *)
LEMMA UsersRemoved ==
  ASSUME NEW q \in Seq(GWSType), NEW i \in DOMAIN q, NEW u
  PROVE  Cardinality(Users(RemoveAt(q, i), u)) =
           Cardinality(Users(q, u)) - (IF u = q[i] THEN 1 ELSE 0)
<1> DEFINE l == SubSeq(q, 1, i - 1) \o SubSeq(q, i + 1, Len(q))
           S == Users(q, u) \ {i}
           T == Users(l, u)
           f == [j \in S |-> IF j < i THEN j ELSE j - 1]
<1>1. i \in 1..Len(q) /\ Len(q) \in Nat /\ DOMAIN q = 1..Len(q)
  OBVIOUS
<1>2. DOMAIN l = 1..(Len(q) - 1)
      /\ \A j \in 1..(Len(q) - 1) : l[j] = IF j < i THEN q[j] ELSE q[j + 1]
  <2> DEFINE a == SubSeq(q, 1, i - 1)
             b == SubSeq(q, i + 1, Len(q))
  <2>1. a \in Seq(GWSType) /\ Len(a) = i - 1 /\ \A j \in 1..i - 1 : a[j] = q[j]
    BY <1>1, SubSeqProperties
  <2>2. b \in Seq(GWSType) /\ Len(b) = Len(q) - i
        /\ \A j \in 1..Len(q) - i : b[j] = q[i + j]
    BY <1>1, SubSeqProperties
  <2> HIDE DEF a, b
  <2> HIDE DEF l, S, T, f
  <2>c. /\ a \o b \in Seq(GWSType) /\ Len(a \o b) = Len(a) + Len(b)
        /\ \A j \in 1..Len(a) + Len(b) :
             (a \o b)[j] = IF j <= Len(a) THEN a[j] ELSE b[j - Len(a)]
    BY <2>1, <2>2, ConcatProperties
  <2>3. Len(a \o b) = Len(q) - 1 /\ DOMAIN (a \o b) = 1..(Len(q) - 1)
    <3> DEFINE c == a \o b
    <3>1. c \in Seq(GWSType) /\ Len(c) = (i - 1) + (Len(q) - i)
      BY <2>1, <2>2, <2>c
    <3>2. (i - 1) + (Len(q) - i) = Len(q) - 1
      BY <1>1
    <3> HIDE DEF c
    <3>3. Len(c) = Len(q) - 1 /\ DOMAIN c = 1..(Len(q) - 1)
      BY <3>1, <3>2
    <3> QED BY <3>3 DEF c
  <2>4. ASSUME NEW j \in 1..(Len(q) - 1)
        PROVE  (a \o b)[j] = IF j < i THEN q[j] ELSE q[j + 1]
    <3>1. j \in 1..Len(a) + Len(b)
      BY <1>1, <2>1, <2>2
    <3>2. CASE j < i
      <4>1. j \in 1..i - 1 /\ j <= Len(a)
        BY <1>1, <2>1, <3>2
      <4> QED BY <2>1, <2>c, <3>1, <3>2, <4>1
    <3>3. CASE ~(j < i)
      <4>1. ~(j <= Len(a)) /\ j - Len(a) \in 1..Len(q) - i
            /\ i + (j - Len(a)) = j + 1
        BY <1>1, <2>1, <3>3
      <4> QED BY <2>2, <2>c, <3>1, <3>3, <4>1
    <3> QED BY <3>2, <3>3
  <2> QED BY <2>3, <2>4 DEF a, b, l
<1> HIDE DEF l
<1>3. f \in Bijection(S, T)
  <2>1. f \in [S -> T]
    <3>1. ASSUME NEW j \in S PROVE (IF j < i THEN j ELSE j - 1) \in T
      BY <1>1, <1>2 DEF Users
    <3> QED BY <3>1
  <2>2. \A j, k \in S : f[j] = f[k] => j = k
    BY <1>1 DEF Users
  <2>3. ASSUME NEW n \in T PROVE \E j \in S : f[j] = n
    <3>1. n \in 1..(Len(q) - 1) /\ l[n] = u
      BY <1>2 DEF Users
    <3>2. CASE n < i
      <4>1. n \in S
        BY <1>1, <1>2, <3>1, <3>2 DEF Users
      <4> QED BY <3>2, <4>1
    <3>3. CASE ~(n < i)
      <4>1. n + 1 \in S /\ ~(n + 1 < i)
        BY <1>1, <1>2, <3>1, <3>3 DEF Users
      <4> QED BY <1>1, <3>1, <4>1
    <3> QED BY <3>2, <3>3
  <2> QED BY <2>1, <2>2, <2>3 DEF Bijection, Injection, Surjection, IsInjective
<1>4. IsFiniteSet(Users(q, u)) /\ Cardinality(Users(q, u)) \in Int
  BY FiniteUsers
<1> HIDE DEF f
<1>5. IsFiniteSet(S)
  BY <1>4, FS_RemoveElement
<1>6. Cardinality(T) = Cardinality(S)
  BY <1>3, <1>5, FS_Bijection DEF ExistsBijection
<1>7. Cardinality(S) = Cardinality(Users(q, u)) - (IF u = q[i] THEN 1 ELSE 0)
  <2>1. i \in Users(q, u) <=> u = q[i]
    BY DEF Users
  <2> DEFINE A == Users(q, u)
  <2>2. Cardinality(A \ {i}) = IF i \in A THEN Cardinality(A) - 1 ELSE Cardinality(A)
    BY <1>4, FS_RemoveElement
  <2> QED BY <1>4, <2>1, <2>2
<1> QED BY <1>6, <1>7 DEF RemoveAt, l

(* Every GWS counts its users, measures and projections.                   *)
Tallied(g) ==
  /\ Measured(g)
  /\ g.refs \in [GWSType -> Int] /\ g.projections \in [GWSType -> Int]
  /\ \A t \in GWSType :
       g.refs[t] = Cardinality(Users(g.qmList, t)) + g.projections[t]

(* The members of a grasp after each function on it.                       *)
LEMMA Members ==
  ASSUME NEW g, Measured(g), NEW t
  PROVE  /\ AddGWS(g, t).refs = [g.refs EXCEPT ![t] = g.refs[t] + 1]
         /\ AddGWS(g, t).projections = g.projections
         /\ RemoveGWS(g, t).refs = [g.refs EXCEPT ![t] = g.refs[t] - 1]
         /\ RemoveGWS(g, t).projections = g.projections
<1>1. ASSUME NEW r PROVE /\ [g EXCEPT !.refs = r].refs = r
                         /\ [g EXCEPT !.refs = r].projections = g.projections
  BY DEF Measured
<1>2. AddGWS(g, t) = [g EXCEPT !.refs = [g.refs EXCEPT ![t] = g.refs[t] + 1]]
  BY DEF AddGWS
<1>3. RemoveGWS(g, t) = [g EXCEPT !.refs = [g.refs EXCEPT ![t] = g.refs[t] - 1]]
  BY DEF RemoveGWS
<1> QED BY <1>1, <1>2, <1>3

(* Another list of measures changes nothing else.                          *)
LEMMA ListOnly ==
  ASSUME NEW h, Measured(h), NEW l
  PROVE  /\ [h EXCEPT !.qmList = l].refs = h.refs
         /\ [h EXCEPT !.qmList = l].projections = h.projections
         /\ [h EXCEPT !.qmList = l].qmList = l
  BY DEF Measured

(* addQM() keeps the count.                                                *)
LEMMA TallyAdded ==
  ASSUME NEW g, Tallied(g), NEW t \in GWSType
  PROVE  Tallied(AddQM(g, t))
<1> DEFINE u == AddGWS(g, t)
           q == g.qmList
           l == Append(q, t)
           r == AddQM(g, t)
<1>1. Measured(g) /\ q \in Seq(GWSType)
  BY DEF Tallied, Measured
<1>2. /\ Measured(u) /\ u.qmList = q /\ u.projections = g.projections
      /\ u.refs = [g.refs EXCEPT ![t] = g.refs[t] + 1]
  BY <1>1, Referred, Members
<1>3. r = [u EXCEPT !.qmList = l]
  BY <1>2 DEF AddQM
<1> HIDE DEF u
<1>4. /\ r.refs = [g.refs EXCEPT ![t] = g.refs[t] + 1]
      /\ r.projections = g.projections /\ r.qmList = l
  BY <1>2, <1>3, ListOnly
<1>5. Measured(r)
  BY <1>1, Added
<1> HIDE DEF r
<1>6. \A x \in GWSType : Cardinality(Users(l, x)) =
                           Cardinality(Users(q, x)) + (IF x = t THEN 1 ELSE 0)
  BY <1>1, UsersAppended
<1>7. \A x \in GWSType : Cardinality(Users(q, x)) \in Int
  BY <1>1, FiniteUsers
<1> HIDE DEF l
<1>8. \A x \in GWSType : r.refs[x] = Cardinality(Users(l, x)) + r.projections[x]
  BY <1>4, <1>6, <1>7 DEF Tallied
<1> QED BY <1>4, <1>5, <1>8 DEF Tallied, r

(* So does replaceQM(), which counts the new one before it lets the old    *)
(* one go.                                                                 *)
LEMMA TallyReplaced ==
  ASSUME NEW g, Tallied(g), NEW i \in DOMAIN g.qmList, NEW t \in GWSType
  PROVE  Tallied(ReplaceQM(g, i, t))
<1> DEFINE u == AddGWS(g, t)
           q == g.qmList
           v == RemoveGWS(u, q[i])
           l == [q EXCEPT ![i] = t]
           r == ReplaceQM(g, i, t)
           c == [g.refs EXCEPT ![t] = g.refs[t] + 1]
<1>1. Measured(g) /\ q \in Seq(GWSType) /\ q[i] \in GWSType
  BY DEF Tallied, Measured
<1>2. /\ Measured(u) /\ u.qmList = q /\ u.projections = g.projections
      /\ u.refs = c
  BY <1>1, Referred, Members
<1> HIDE DEF u
<1>3. /\ Measured(v) /\ v.qmList = q /\ v.projections = g.projections
      /\ v.refs = [c EXCEPT ![q[i]] = c[q[i]] - 1]
  <2> HIDE DEF c
  <2>1. /\ Measured(v) /\ v.qmList = u.qmList /\ v.projections = u.projections
        /\ v.refs = [u.refs EXCEPT ![q[i]] = u.refs[q[i]] - 1]
    BY <1>2, Referred, Members
  <2> HIDE DEF v
  <2> QED BY <1>2, <2>1
<1>4. r = [v EXCEPT !.qmList = l]
  BY <1>3 DEF ReplaceQM, u
<1> HIDE DEF v
<1>5. /\ r.refs = [c EXCEPT ![q[i]] = c[q[i]] - 1]
      /\ r.projections = g.projections /\ r.qmList = l
  BY <1>3, <1>4, ListOnly
<1>6. Measured(r)
  BY <1>1, Replaced
<1> HIDE DEF r
<1>7. \A x \in GWSType : Cardinality(Users(l, x)) =
          Cardinality(Users(q, x)) + (IF x = t THEN 1 ELSE 0)
            - (IF x = q[i] THEN 1 ELSE 0)
  BY <1>1, UsersReplaced
<1>8. \A x \in GWSType : Cardinality(Users(q, x)) \in Int
  BY <1>1, FiniteUsers
<1> HIDE DEF l
<1>9. \A x \in GWSType : r.refs[x] = Cardinality(Users(l, x)) + r.projections[x]
  <2> TAKE x \in GWSType
  <2>1. c \in [GWSType -> Int] /\ c[x] = g.refs[x] + (IF x = t THEN 1 ELSE 0)
    BY DEF Tallied
  <2> HIDE DEF c
  <2>2. r.refs[x] = c[x] - (IF x = q[i] THEN 1 ELSE 0)
    BY <1>1, <1>5, <2>1
  <2>3. /\ g.refs[x] = Cardinality(Users(q, x)) + g.projections[x]
        /\ g.projections[x] \in Int /\ g.refs[x] \in Int
    BY DEF Tallied
  <2>4. r.projections[x] = g.projections[x]
    BY <1>5
  <2> DEFINE k == Cardinality(Users(q, x))
             m == Cardinality(Users(l, x))
             up == IF x = t THEN 1 ELSE 0
             down == IF x = q[i] THEN 1 ELSE 0
             before == g.refs[x]
             kept == g.projections[x]
  <2>5. /\ k \in Int /\ m = k + up - down /\ up \in Int /\ down \in Int
        /\ before = k + kept /\ before \in Int /\ kept \in Int
    BY <1>7, <1>8, <2>3
  <2>6. r.refs[x] = before + up - down
    BY <2>1, <2>2, <2>3
  <2> HIDE DEF k, m, up, down, before, kept
  <2>7. before + up - down = m + kept
    BY <2>5
  <2>8. r.refs[x] = m + kept
    BY <2>6, <2>7
  <2> QED BY <2>4, <2>8 DEF m, kept
<1>b. c \in [GWSType -> Int] /\ g.projections \in [GWSType -> Int]
  BY DEF Tallied
<1> HIDE DEF c
<1>a. r.refs \in [GWSType -> Int] /\ r.projections \in [GWSType -> Int]
  <2>1. c[q[i]] - 1 \in Int
    BY <1>1, <1>b
  <2> QED BY <1>1, <1>5, <1>b, <2>1
<1> QED BY <1>5, <1>6, <1>9, <1>a DEF Tallied, r

(* So does removeQM().                                                     *)
LEMMA TallyRemoved ==
  ASSUME NEW g, Tallied(g), NEW i \in DOMAIN g.qmList
  PROVE  Tallied(RemoveQM(g, i))
<1> DEFINE q == g.qmList
           v == RemoveGWS(g, q[i])
           l == RemoveAt(q, i)
           r == RemoveQM(g, i)
<1>1. Measured(g) /\ q \in Seq(GWSType) /\ q[i] \in GWSType
  BY DEF Tallied, Measured
<1>2. /\ Measured(v) /\ v.qmList = q /\ v.projections = g.projections
      /\ v.refs = [g.refs EXCEPT ![q[i]] = g.refs[q[i]] - 1]
  BY <1>1, Referred, Members
<1>3. r = [v EXCEPT !.qmList = l]
  BY <1>2 DEF RemoveQM
<1> HIDE DEF v
<1>4. /\ r.refs = [g.refs EXCEPT ![q[i]] = g.refs[q[i]] - 1]
      /\ r.projections = g.projections /\ r.qmList = l
  BY <1>2, <1>3, ListOnly
<1>5. Measured(r)
  BY <1>1, Removed
<1> HIDE DEF r
<1>6. \A x \in GWSType : Cardinality(Users(l, x)) =
                  Cardinality(Users(q, x)) - (IF x = q[i] THEN 1 ELSE 0)
  BY <1>1, UsersRemoved
<1>7. \A x \in GWSType : Cardinality(Users(q, x)) \in Int
  BY <1>1, FiniteUsers
<1> HIDE DEF l
<1>8. \A x \in GWSType : r.refs[x] = Cardinality(Users(l, x)) + r.projections[x]
  <2> TAKE x \in GWSType
  <2>1. r.refs[x] = g.refs[x] - (IF x = q[i] THEN 1 ELSE 0)
    BY <1>1, <1>4 DEF Tallied
  <2>2. /\ g.refs[x] = Cardinality(Users(q, x)) + g.projections[x]
        /\ g.projections[x] \in Int /\ g.refs[x] \in Int
    BY DEF Tallied
  <2> QED BY <1>4, <1>6, <1>7, <2>1, <2>2
<1> QED BY <1>1, <1>4, <1>5, <1>8 DEF Tallied, r

(* A projection is a user too.                                             *)
LEMMA TallyProjected ==
  ASSUME NEW g, Tallied(g), NEW t \in GWSType
  PROVE  Tallied(AddProjection(g, t)) /\ Tallied(RemoveProjection(g, t))
<1> DEFINE u == AddGWS(g, t)
           v == RemoveGWS(g, t)
           a == AddProjection(g, t)
           b == RemoveProjection(g, t)
<1>1. ASSUME NEW h, Measured(h), NEW p
      PROVE  /\ [h EXCEPT !.projections = p].projections = p
             /\ [h EXCEPT !.projections = p].refs = h.refs
  BY DEF Measured
<1>2. Measured(g)
  BY DEF Tallied
<1>3. /\ Measured(u) /\ u.projections = g.projections
      /\ u.refs = [g.refs EXCEPT ![t] = g.refs[t] + 1]
      /\ Measured(v) /\ v.projections = g.projections
      /\ v.refs = [g.refs EXCEPT ![t] = g.refs[t] - 1]
  BY <1>2, Referred, Members
<1>4. a = [u EXCEPT !.projections = [u.projections EXCEPT ![t] = u.projections[t] + 1]]
  BY DEF AddProjection
<1>5. b = [v EXCEPT !.projections = [v.projections EXCEPT ![t] = v.projections[t] - 1]]
  BY DEF RemoveProjection
<1> HIDE DEF u, v
<1>6. /\ a.projections = [g.projections EXCEPT ![t] = g.projections[t] + 1]
      /\ a.refs = [g.refs EXCEPT ![t] = g.refs[t] + 1]
      /\ b.projections = [g.projections EXCEPT ![t] = g.projections[t] - 1]
      /\ b.refs = [g.refs EXCEPT ![t] = g.refs[t] - 1]
  BY <1>1, <1>3, <1>4, <1>5
<1>7. Measured(a) /\ a.qmList = g.qmList /\ Measured(b) /\ b.qmList = g.qmList
  BY <1>2, Projected
<1>8. \A x \in GWSType : Cardinality(Users(g.qmList, x)) \in Int
  BY <1>2, FiniteUsers DEF Measured
<1> HIDE DEF a, b
<1> QED BY <1>6, <1>7, <1>8 DEF Tallied, a, b

(* However many measures and projections come and go: a GWS counts exactly *)
(* those that use it, so it is deleted with the last and never before.     *)
THEOREM AlwaysCounted == Spec => []RefsCounted(grasp)
<1>1. Init => Tallied(grasp)
  <2>1. Measured(NoMeasures) /\ NoMeasures.qmList = <<>>
    BY DEF Measured, NoMeasures
  <2>2. \A t : Cardinality(Users(<<>>, t)) = 0
    BY FS_EmptySet DEF Users
  <2>3. Tallied(NoMeasures)
    BY <2>1, <2>2 DEF Tallied, NoMeasures
  <2> QED BY <2>3, TallyAdded DEF Init
<1>2. Tallied(grasp) /\ [Next]_vars => Tallied(grasp)'
  <2> SUFFICES ASSUME Tallied(grasp), [Next]_vars PROVE Tallied(grasp')
    OBVIOUS
  <2>1. CASE AddEditQM
    BY <2>1, TallyAdded, TallyReplaced DEF AddEditQM
  <2>2. CASE DeleteQM
    BY <2>2, TallyRemoved DEF DeleteQM
  <2>3. CASE ShowProjection
    BY <2>3, TallyProjected DEF ShowProjection
  <2>4. CASE ~AddEditQM /\ ~DeleteQM /\ ~ShowProjection
    <3>1. grasp' = grasp
      BY <2>4 DEF Next, Clicks, OpenQMDlg, CloseQMDlg, GenerateGrasps, GenerateNothing,
         ReadGrasps, ReadFails, TestGrasps, ShowGrasp, Close, GoesAstray, TestIt, TestOne,
         TestEnd, program, vars
    <3> QED BY <3>1
  <2> QED BY <2>1, <2>2, <2>3, <2>4
<1>3. Tallied(grasp) => RefsCounted(grasp)
  BY DEF Tallied, RefsCounted, Users
<1> QED BY <1>1, <1>2, <1>3, PTL DEF Spec
-----------------------------------------------------------------------------
(* Grasps and the lists that hold them.                                    *)

(* What pointers refer to.  The presenter's may dangle, but they refer to  *)
(* grasps that there were.  The iterator of a test is in the list, at its  *)
(* end, or dangles.                                                        *)
Pointers ==
  /\ planned \in Seq(PlannedGrasp) /\ Len(planned) <= MaxGrasps
  /\ alive \subseteq 1..Len(planned)
  /\ graspList \in Seq(Nat) /\ ToSet(graspList) \subseteq alive /\ Len(graspList) <= MaxList
  /\ presenterList \in Seq(Nat) /\ ToSet(presenterList) \subseteq 1..Len(planned)
  /\ Len(presenterList) <= MaxList /\ processing \in 0..Len(presenterList)
  /\ hand \in 0..Len(planned) /\ origTran \in -1..Len(planned)
  /\ idleSensor \in BOOLEAN /\ isOpen \in BOOLEAN /\ iterator \in 0..MaxList + 1
  /\ idleSensor => iterator <= Len(graspList) + 1
  /\ idleSensor /\ isOpen => origTran # -1

(* The grasps of which the final position is on record.                    *)
AreSaved == \A g \in 1..Len(planned) : planned[g].quality \in Good => planned[g].saved

(* What is left of deleted grasps are grasps that do not count.            *)
LEMMA ErasedGrasps ==
  ASSUME Pointers, AreSaved, NEW gs
  PROVE  /\ Erased(gs) \in Seq(PlannedGrasp) /\ Len(Erased(gs)) = Len(planned)
         /\ \A g \in 1..Len(planned) :
              /\ Erased(gs)[g].quality \in Good => Erased(gs)[g].saved
              /\ g \notin gs => Erased(gs)[g] = planned[g]
<1> DEFINE gone == [quality |-> Bad, saved |-> FALSE, visible |-> FALSE]
           m == Len(planned)
<1>1. planned \in [1..m -> PlannedGrasp] /\ DOMAIN planned = 1..m /\ m \in Nat
  BY DEF Pointers
<1>2. gone \in PlannedGrasp /\ gone.quality \notin Good
  BY ManagerConstants DEF PlannedGrasp, Bad
<1>3. Erased(gs) = [g \in 1..m |-> IF g \in gs THEN gone ELSE planned[g]]
  BY <1>1 DEF Erased
<1> HIDE DEF gone, m
<1>4. Erased(gs) \in [1..m -> PlannedGrasp]
  BY <1>1, <1>2, <1>3
<1>5. Erased(gs) \in Seq(PlannedGrasp) /\ Len(Erased(gs)) = m
  <2> HIDE DEF PlannedGrasp
  <2> QED BY <1>1, <1>4
<1>6. ASSUME NEW g \in 1..m
      PROVE  /\ Erased(gs)[g].quality \in Good => Erased(gs)[g].saved
             /\ g \notin gs => Erased(gs)[g] = planned[g]
  <2>1. CASE g \in gs
    BY <1>2, <1>3, <1>6, <2>1
  <2>2. CASE g \notin gs
    <3>1. Erased(gs)[g] = planned[g]
      BY <1>3, <1>6, <2>2
    <3> QED BY <1>6, <2>2, <3>1 DEF AreSaved, m
  <2> QED BY <2>1, <2>2
<1> QED BY <1>5, <1>6 DEF m

(* New grasps come to the end of the heap.                                 *)
LEMMA NewGrasps ==
  ASSUME Pointers, AreSaved, NEW n \in 0..MaxList, Len(planned) + n <= MaxGrasps,
         NEW deleted, NewList(n, deleted)
  PROVE  /\ planned' \in Seq(PlannedGrasp) /\ Len(planned') <= MaxGrasps
         /\ Len(planned') \in Nat /\ Len(planned) <= Len(planned')
         /\ AreSaved'
         /\ alive' = (alive \ deleted) \cup ToSet(Fresh(n))
         /\ graspList' \in Seq(Nat) /\ Len(graspList') = n /\ n \in Nat /\ n <= MaxList
         /\ ToSet(graspList') = ToSet(Fresh(n)) /\ ToSet(Fresh(n)) \subseteq 1..Len(planned')
<1> DEFINE new == [k \in 1..n |-> [quality |-> Bad, saved |-> FALSE, visible |-> TRUE]]
           old == Erased(deleted)
           m == Len(planned)
<1>1. n \in Nat /\ n <= MaxList /\ m \in Nat
  BY ManagerConstants DEF Pointers
<1>2. /\ old \in Seq(PlannedGrasp) /\ Len(old) = m
      /\ \A g \in 1..m : old[g].quality \in Good => old[g].saved
  BY ErasedGrasps
<1>3. new \in Seq(PlannedGrasp) /\ Len(new) = n
  BY <1>1 DEF PlannedGrasp
<1>4. \A k \in 1..n : new[k].quality = Bad
  OBVIOUS
<1> HIDE DEF new, old
<1>5. /\ planned' = old \o new /\ graspList' = Fresh(n)
      /\ alive' = (alive \ deleted) \cup ToSet(Fresh(n))
  BY DEF NewList, new, old
<1>6. /\ planned' \in Seq(PlannedGrasp) /\ Len(planned') = m + n
      /\ \A k \in 1..m + n : planned'[k] = IF k <= m THEN old[k] ELSE new[k - m]
  <2>1. old \in Seq(PlannedGrasp) /\ new \in Seq(PlannedGrasp) /\ Len(old) = m /\ Len(new) = n
    BY <1>2, <1>3
  <2> HIDE DEF m, PlannedGrasp
  <2>2. /\ old \o new \in Seq(PlannedGrasp) /\ Len(old \o new) = m + n
        /\ \A k \in 1..m + n : (old \o new)[k] = IF k <= m THEN old[k] ELSE new[k - m]
    BY <2>1, ConcatProperties
  <2> QED BY <1>5, <2>2
<1>7. AreSaved'
  <2> SUFFICES ASSUME NEW g \in 1..m + n, planned'[g].quality \in Good
               PROVE  planned'[g].saved
    BY <1>6 DEF AreSaved
  <2>1. CASE g <= m
    BY <1>1, <1>2, <1>6, <2>1
  <2>2. CASE ~(g <= m)
    <3>1. g - m \in 1..n /\ planned'[g] = new[g - m]
      BY <1>1, <1>6, <2>2
    <3>2. Bad \notin Good
      BY ManagerConstants DEF Bad
    <3> QED BY <1>4, <3>1, <3>2
  <2> QED BY <2>1, <2>2
<1>8. Fresh(n) \in Seq(Nat) /\ Len(Fresh(n)) = n /\ DOMAIN Fresh(n) = 1..n
      /\ \A k \in 1..n : Fresh(n)[k] = m + k
  BY <1>1 DEF Fresh
<1>9. ToSet(Fresh(n)) \subseteq 1..m + n
  BY <1>1, <1>8 DEF ToSet
<1> QED BY <1>1, <1>5, <1>6, <1>7, <1>8, <1>9

(* A sorted list has the grasps it was made of.                            *)
LEMMA SortedList ==
  ASSUME NEW list \in Seq(Nat), NEW gs \in SUBSET ToSet(list), NEW new \in BestFirst(gs)
  PROVE  /\ new \in Seq(Nat) /\ Len(new) <= Len(list) /\ ToSet(new) = gs
         /\ \A i, j \in DOMAIN new :
              i < j => planned[new[i]].quality >= planned[new[j]].quality
<1> DEFINE n == Len(list)
           c == Cardinality(gs)
<1>1. DOMAIN list = 1..n /\ n \in Nat
  OBVIOUS
<1>2. IsFiniteSet(1..n) /\ Cardinality(1..n) = n
  <2> HIDE DEF n
  <2> QED BY <1>1, FS_Interval
<1>3. list \in Surjection(1..n, ToSet(list))
  BY <1>1 DEF ToSet, Surjection
<1>4. IsFiniteSet(ToSet(list)) /\ Cardinality(ToSet(list)) <= n
  BY <1>2, <1>3, FS_Surjection
<1>5. IsFiniteSet(gs) /\ c <= Cardinality(ToSet(list)) /\ c \in Nat
  BY <1>4, FS_Subset, FS_CardinalityType
<1>6. Cardinality(ToSet(list)) \in Nat
  BY <1>4, FS_CardinalityType
<1> HIDE DEF c
<1>7. /\ new \in [1..c -> gs] /\ \A g \in gs : \E i \in 1..c : new[i] = g
      /\ \A i, j \in DOMAIN new :
           i < j => planned[new[i]].quality >= planned[new[j]].quality
  BY DEF BestFirst, Bijection, Injection, Surjection, c
<1>8. gs \subseteq Nat
  BY <1>1 DEF ToSet
<1>9. new \in Seq(Nat) /\ Len(new) = c /\ DOMAIN new = 1..c
  <2>1. new \in [1..c -> Nat] /\ c \in Nat
    BY <1>5, <1>7, <1>8
  <2> QED BY <2>1
<1>10. ToSet(new) = gs
  BY <1>7, <1>9 DEF ToSet
<1> QED BY <1>1, <1>4, <1>5, <1>6, <1>7, <1>9, <1>10

(* There are no grasps at first.                                           *)
LEMMA PointersInit == Init => Pointers /\ AreSaved
<1> SUFFICES ASSUME Init PROVE Pointers /\ AreSaved
  OBVIOUS
<1>1. /\ planned = <<>> /\ alive = {} /\ graspList = <<>> /\ presenterList = <<>>
      /\ processing = 0 /\ hand = 0 /\ origTran = -1 /\ idleSensor = FALSE /\ iterator = 1
      /\ isOpen = TRUE
  BY DEF Init
<1>2. Len(planned) = 0 /\ ToSet(<<>>) = {}
  BY <1>1 DEF ToSet
<1>3. AreSaved
  BY <1>2 DEF AreSaved
<1>4. MaxGrasps \in Nat /\ MaxList \in Nat
  BY ManagerConstants
<1>5. Pointers
  <2>1. planned \in Seq(PlannedGrasp) /\ graspList \in Seq(Nat) /\ presenterList \in Seq(Nat)
    BY <1>1
  <2>2. Len(planned) = 0 /\ Len(graspList) = 0 /\ Len(presenterList) = 0
        /\ ToSet(graspList) = {} /\ ToSet(presenterList) = {}
    BY <1>1, <1>2
  <2>3. 0 \in 0..0 /\ -1 \in -1..0 /\ 1 \in 0..MaxList + 1 /\ 0 <= MaxList /\ 0 <= MaxGrasps
    BY <1>4
  <2>4. alive \subseteq 1..Len(planned) /\ ToSet(graspList) \subseteq alive
        /\ ToSet(presenterList) \subseteq 1..Len(planned)
    BY <1>1, <2>2
  <2>5. idleSensor = FALSE /\ idleSensor \in BOOLEAN /\ isOpen \in BOOLEAN
    BY <1>1
  <2>6. hand \in 0..Len(planned) /\ origTran \in -1..Len(planned)
        /\ iterator \in 0..MaxList + 1 /\ processing \in 0..Len(presenterList)
    BY <1>1, <2>2, <2>3
  <2> QED BY <2>1, <2>2, <2>3, <2>4, <2>5, <2>6 DEF Pointers
<1> QED BY <1>3, <1>5

(* A list takes the place of another.                                      *)
LEMMA PointersNew ==
  ASSUME Pointers, AreSaved, GenerateGrasps \/ ReadGrasps
  PROVE  Pointers' /\ AreSaved'
<1>1. PICK n \in 0..MaxList, deleted \in {{}, ToSet(graspList)} :
        /\ Len(planned) + n <= MaxGrasps /\ NewList(n, deleted)
        /\ IF idleSensor THEN iterator' \in {n + 1} \cup {0} \cup 1..n
                         ELSE iterator' = iterator
  BY DEF GenerateGrasps, ReadGrasps
<1>2. /\ planned' \in Seq(PlannedGrasp) /\ Len(planned') <= MaxGrasps
      /\ Len(planned') \in Nat /\ Len(planned) <= Len(planned')
      /\ AreSaved' /\ alive' \subseteq alive \cup ToSet(Fresh(n))
      /\ ToSet(Fresh(n)) \subseteq alive'
      /\ graspList' \in Seq(Nat) /\ Len(graspList') = n /\ n \in Nat /\ n <= MaxList
      /\ ToSet(graspList') = ToSet(Fresh(n)) /\ ToSet(Fresh(n)) \subseteq 1..Len(planned')
  BY <1>1, NewGrasps
<1>3. UNCHANGED <<presenterList, processing, hand, origTran, idleSensor, isOpen>>
  BY DEF GenerateGrasps, ReadGrasps, presenter
<1>4. 1..Len(planned) \subseteq 1..Len(planned') /\ 0..Len(planned) \subseteq 0..Len(planned')
      /\ -1..Len(planned) \subseteq -1..Len(planned')
  <2>1. Len(planned) \in Nat
    BY DEF Pointers
  <2> QED BY <1>2, <2>1
<1>5. alive' \subseteq 1..Len(planned') /\ ToSet(graspList') \subseteq alive'
  BY <1>1, <1>2, <1>4 DEF Pointers
<1>6. iterator' \in 0..MaxList + 1 /\ (idleSensor' => iterator' <= Len(graspList') + 1)
  <2>1. MaxList \in Nat
    BY ManagerConstants
  <2>2. CASE idleSensor
    BY <1>1, <1>2, <2>1, <2>2
  <2>3. CASE ~idleSensor
    BY <1>1, <1>3, <2>3 DEF Pointers
  <2> QED BY <2>2, <2>3
<1>7. Pointers'
  BY <1>2, <1>3, <1>4, <1>5, <1>6 DEF Pointers
<1> QED BY <1>2, <1>7

(* The presenter moves on in its list.                                     *)
LEMMA PointersShow == ASSUME Pointers, ShowGrasp PROVE Pointers'
<1>1. UNCHANGED <<planned, alive, graspList, origTran, idleSensor, isOpen, iterator>>
  BY DEF ShowGrasp, dialog, tester
<1> DEFINE i == Presented
           n == Len(Offered)
<1>2. /\ Offered # <<>> /\ presenterList' = Offered
      /\ processing' = IF i = n THEN 1 ELSE i + 1
      /\ hand' = IF planned[Offered[i]].quality > 0 THEN Offered[i] ELSE hand
  BY DEF ShowGrasp, Presents
<1>3. Offered \in Seq(Nat) /\ n <= MaxList /\ ToSet(Offered) \subseteq 1..Len(planned)
  BY DEF Offered, Pointers
<1>4. n \in Nat /\ n > 0 /\ DOMAIN Offered = 1..n
  BY <1>2, <1>3
<1>5. i \in 1..n
  BY <1>4 DEF Offered, Presented, Pointers
<1> HIDE DEF i, n
<1>6. Offered[i] \in 1..Len(planned)
  BY <1>3, <1>4, <1>5 DEF ToSet
<1>7. processing' \in 0..n
  BY <1>2, <1>4, <1>5
<1>8. hand' \in 0..Len(planned)
  BY <1>2, <1>6 DEF Pointers
<1> QED BY <1>1, <1>2, <1>3, <1>7, <1>8 DEF Pointers, n

(* A test gives one grasp its quality.                                     *)
LEMMA PointersTestOne ==
  ASSUME Pointers, AreSaved, TestOne
  PROVE  Pointers' /\ AreSaved'
<1> DEFINE g == graspList[iterator]
           n == Len(planned)
<1>1. PICK outcome \in Unevaluated(planned[g]) \cup Evaluated(planned[g]) :
        planned' = [planned EXCEPT ![g] = outcome]
  BY DEF TestOne, ThisGrasp
<1>2. /\ idleSensor /\ isOpen /\ iterator # 0 /\ iterator # Len(graspList) + 1
      /\ iterator' = iterator + 1 /\ hand' \in {g, origTran}
      /\ UNCHANGED <<alive, graspList, idleSensor, isOpen, origTran, presenterList, processing>>
  BY DEF TestOne, Testing, AtEnd, ThisGrasp, dialog, manager, presenter
<1>c. /\ Len(graspList) \in Nat /\ Len(graspList) <= MaxList /\ n \in Nat
      /\ iterator \in 1..Len(graspList) /\ iterator \in DOMAIN graspList
  BY <1>2, ManagerConstants DEF Pointers
<1>3. g \in 1..n /\ n \in Nat
  <2>2. g \in ToSet(graspList)
    BY <1>c DEF ToSet
  <2> QED BY <1>c, <2>2 DEF Pointers
<1> HIDE DEF g
<1>4. planned[g] \in PlannedGrasp /\ (planned[g].quality \in Good => planned[g].saved)
  BY <1>3 DEF Pointers, AreSaved
<1>5. outcome \in PlannedGrasp /\ (outcome.quality \in Good => outcome.saved)
  <2>1. Bad \notin Good /\ Good \cap High = {}
    BY ManagerConstants DEF Bad
  <2>2. PICK q \in Good \cup High \cup {Bad} :
          \/ outcome = [planned[g] EXCEPT !.visible = FALSE]
          \/ /\ q \in High \cup {Bad}
             /\ outcome = [planned[g] EXCEPT !.quality = q, !.visible = FALSE]
          \/ /\ q \in Good \cup High
             /\ outcome = [planned[g] EXCEPT !.quality = q, !.saved = TRUE]
    BY <1>1 DEF Unevaluated, Evaluated
  <2>3. CASE outcome = [planned[g] EXCEPT !.visible = FALSE]
    BY <1>4, <2>3 DEF PlannedGrasp
  <2>4. CASE /\ q \in High \cup {Bad}
             /\ outcome = [planned[g] EXCEPT !.quality = q, !.visible = FALSE]
    BY <1>4, <2>1, <2>4 DEF PlannedGrasp
  <2>5. CASE /\ q \in Good \cup High
             /\ outcome = [planned[g] EXCEPT !.quality = q, !.saved = TRUE]
    BY <1>4, <2>5 DEF PlannedGrasp
  <2> QED BY <2>2, <2>3, <2>4, <2>5
<1>6. /\ planned' \in Seq(PlannedGrasp) /\ Len(planned') = n
      /\ \A k \in 1..n : planned'[k] = IF k = g THEN outcome ELSE planned[k]
  <2>1. planned \in Seq(PlannedGrasp) /\ g \in DOMAIN planned /\ outcome \in PlannedGrasp
    BY <1>3, <1>5 DEF Pointers
  <2> HIDE DEF PlannedGrasp
  <2> QED BY <1>1, <1>3, <2>1
<1>7. AreSaved'
  BY <1>5, <1>6 DEF AreSaved
<1>8. hand' \in 0..n
  <2>1. origTran \in -1..n /\ origTran # -1
    BY <1>2 DEF Pointers
  <2> QED BY <1>2, <1>3, <2>1
<1>9. iterator' \in 0..MaxList + 1 /\ iterator' <= Len(graspList') + 1
  BY <1>2, <1>c, ManagerConstants
<1>10. Pointers'
  BY <1>2, <1>3, <1>6, <1>8, <1>9 DEF Pointers
<1> QED BY <1>7, <1>10

(* The grasps that do not count are deleted and leave the list.            *)
LEMMA PointersTestEnd ==
  ASSUME Pointers, AreSaved, TestEnd
  PROVE  Pointers' /\ AreSaved'
<1>1. /\ graspList' \in BestFirst(GoodGrasps)
      /\ alive' = alive \ BadGrasps /\ planned' = Erased(BadGrasps)
      /\ idleSensor /\ isOpen /\ idleSensor' = FALSE /\ hand' = origTran
      /\ UNCHANGED <<isOpen, iterator, origTran, presenterList, processing>>
  BY DEF TestEnd, Testing, OrderGraspListByQuality, DeleteBadGrasps, presenter
<1>2. /\ graspList' \in Seq(Nat) /\ Len(graspList') <= Len(graspList)
      /\ ToSet(graspList') = GoodGrasps
  <2>1. GoodGrasps \in SUBSET ToSet(graspList) /\ graspList \in Seq(Nat)
    BY DEF GoodGrasps, Pointers
  <2> QED BY <1>1, <2>1, SortedList
<1>3. GoodGrasps \subseteq alive' /\ alive' \subseteq alive
  BY <1>1 DEF Pointers, GoodGrasps, BadGrasps
<1>4. Len(graspList') <= MaxList
  BY <1>2, ManagerConstants DEF Pointers
<1>5. hand' \in 0..Len(planned)
  BY <1>1, ManagerConstants DEF Pointers
<1>6. planned' \in Seq(PlannedGrasp) /\ Len(planned') = Len(planned)
  BY <1>1, ErasedGrasps
<1>7. AreSaved'
  BY <1>1, <1>6, ErasedGrasps DEF AreSaved
<1>8. Pointers'
  BY <1>1, <1>2, <1>3, <1>4, <1>5, <1>6 DEF Pointers
<1> QED BY <1>7, <1>8

(* Whatever the user and the sensor do, in whichever order.                *)
LEMMA PointersNext == Pointers /\ AreSaved /\ [Next]_vars => Pointers' /\ AreSaved'
<1> SUFFICES ASSUME Pointers, AreSaved, [Next]_vars PROVE Pointers' /\ AreSaved'
  OBVIOUS
<1>1. CASE \/ OpenQMDlg \/ AddEditQM \/ DeleteQM \/ CloseQMDlg \/ ShowProjection
           \/ GenerateNothing \/ ReadFails \/ GoesAstray \/ UNCHANGED vars
  <2>1. UNCHANGED <<planned, alive, graspList, presenterList, processing, hand, origTran,
                    idleSensor, isOpen, iterator>>
    BY <1>1 DEF OpenQMDlg, AddEditQM, DeleteQM, CloseQMDlg, ShowProjection, GenerateNothing,
                ReadFails, GoesAstray, program, vars, dialog, manager, tester, presenter
  <2> QED BY <2>1 DEF Pointers, AreSaved
<1>2. CASE GenerateGrasps \/ ReadGrasps
  BY <1>2, PointersNew
<1>3. CASE TestGrasps
  <2>1. /\ UNCHANGED <<planned, alive, graspList, isOpen, presenterList, processing, hand>>
        /\ \/ UNCHANGED <<idleSensor, iterator, origTran>>
           \/ idleSensor' = TRUE /\ iterator' = 1 /\ origTran' = hand
    BY <1>3 DEF TestGrasps, dialog, presenter
  <2>2. /\ hand \in -1..Len(planned) /\ hand # -1 /\ 1 \in 0..MaxList + 1
        /\ 1 <= Len(graspList) + 1
    BY ManagerConstants DEF Pointers
  <2>3. CASE UNCHANGED <<idleSensor, iterator, origTran>>
    BY <2>1, <2>3 DEF Pointers, AreSaved
  <2>4. CASE idleSensor' = TRUE /\ iterator' = 1 /\ origTran' = hand
    BY <2>1, <2>2, <2>4 DEF Pointers, AreSaved
  <2> QED BY <2>1, <2>3, <2>4
<1>4. CASE ShowGrasp
  <2>1. planned' = planned
    BY <1>4 DEF ShowGrasp
  <2> QED BY <1>4, <2>1, PointersShow DEF AreSaved
<1>5. CASE Close
  <2>0. planned' \in Seq(PlannedGrasp) /\ Len(planned') = Len(planned) /\ AreSaved'
    <3>1. planned' = Erased(ToSet(graspList))
      BY <1>5 DEF Close
    <3> QED BY <3>1, ErasedGrasps DEF AreSaved
  <2>1. /\ idleSensor' = idleSensor /\ isOpen' = FALSE
        /\ alive' \subseteq alive /\ graspList' = <<>> /\ presenterList' = <<>>
        /\ processing' = 0 /\ iterator' = 1 /\ origTran' = -1
        /\ hand' \in 0..Len(planned)
    BY <1>5 DEF Close, Pointers
  <2>2. /\ graspList' \in Seq(Nat) /\ Len(graspList') = 0 /\ ToSet(graspList') = {}
        /\ presenterList' \in Seq(Nat) /\ Len(presenterList') = 0
        /\ ToSet(presenterList') = {}
    BY <2>1 DEF ToSet
  <2>3. 1 \in 0..MaxList + 1 /\ -1 \in -1..Len(planned) /\ 0 <= MaxList /\ 0 \in 0..0
    BY ManagerConstants DEF Pointers
  <2>4. alive' \subseteq 1..Len(planned') /\ ToSet(graspList') \subseteq alive'
        /\ ToSet(presenterList') \subseteq 1..Len(planned')
    BY <2>0, <2>1, <2>2 DEF Pointers
  <2>5. iterator' \in 0..MaxList + 1 /\ iterator' <= Len(graspList') + 1
        /\ processing' \in 0..Len(presenterList')
    BY <2>1, <2>2, <2>3
  <2>6. planned \in Seq(PlannedGrasp) /\ Len(planned) <= MaxGrasps /\ idleSensor \in BOOLEAN
    BY DEF Pointers
  <2>7. /\ planned' \in Seq(PlannedGrasp) /\ Len(planned') <= MaxGrasps
        /\ hand' \in 0..Len(planned') /\ origTran' \in -1..Len(planned')
        /\ Len(graspList') <= MaxList /\ Len(presenterList') <= MaxList
    BY <2>0, <2>1, <2>2, <2>3, <2>6
  <2>8. isOpen' \in BOOLEAN /\ idleSensor' \in BOOLEAN /\ ~(idleSensor' /\ isOpen')
    BY <2>1, <2>6, Zenon
  <2>9. Pointers'
    BY <2>2, <2>4, <2>5, <2>7, <2>8 DEF Pointers
  <2> QED BY <2>0, <2>9
<1>6. CASE TestOne
  BY <1>6, PointersTestOne
<1>7. CASE TestEnd
  BY <1>7, PointersTestEnd
<1> QED BY <1>1, <1>2, <1>3, <1>4, <1>5, <1>6, <1>7 DEF Next, Clicks, TestIt
-----------------------------------------------------------------------------
(* The bounds of a grasp, and the settings of the dialogs.                 *)

(* A grasp is a record of its members.                                     *)
Recorded(g) ==
  g = [qmList |-> g.qmList, projections |-> g.projections, refs |-> g.refs]

(* Measures and projections are as many as there may be.                   *)
Bounded(g) ==
  /\ Tallied(g) /\ Recorded(g)
  /\ Len(g.qmList) <= MaxMeasures
  /\ g.projections \in [GWSType -> 0..MaxViews]

(* A record with another member is a record.                               *)
LEMMA StaysRecord ==
  ASSUME NEW g, Recorded(g), NEW m
  PROVE  /\ Recorded([g EXCEPT !.qmList = m])
         /\ Recorded([g EXCEPT !.projections = m])
         /\ Recorded([g EXCEPT !.refs = m])
<1> DEFINE q == g.qmList
           p == g.projections
           r == g.refs
<1>1. g = [qmList |-> q, projections |-> p, refs |-> r]
  BY DEF Recorded
<1> HIDE DEF q, p, r
<1>2. /\ [g EXCEPT !.qmList = m] = [qmList |-> m, projections |-> p, refs |-> r]
      /\ [g EXCEPT !.projections = m] = [qmList |-> q, projections |-> m, refs |-> r]
      /\ [g EXCEPT !.refs = m] = [qmList |-> q, projections |-> p, refs |-> m]
  BY <1>1
<1> QED BY <1>2 DEF Recorded

(* So are the results of the functions on a grasp.                         *)
LEMMA AllRecords ==
  ASSUME NEW g, Recorded(g), NEW t, NEW i
  PROVE  /\ Recorded(AddQM(g, t)) /\ Recorded(ReplaceQM(g, i, t)) /\ Recorded(RemoveQM(g, i))
         /\ Recorded(AddProjection(g, t)) /\ Recorded(RemoveProjection(g, t))
<1>1. ASSUME NEW h, Recorded(h), NEW x
      PROVE  Recorded(AddGWS(h, x)) /\ Recorded(RemoveGWS(h, x))
  <2> DEFINE up == [h.refs EXCEPT ![x] = h.refs[x] + 1]
             down == [h.refs EXCEPT ![x] = h.refs[x] - 1]
  <2>1. AddGWS(h, x) = [h EXCEPT !.refs = up] /\ RemoveGWS(h, x) = [h EXCEPT !.refs = down]
    BY DEF AddGWS, RemoveGWS
  <2> HIDE DEF up, down
  <2>2. Recorded([h EXCEPT !.refs = up]) /\ Recorded([h EXCEPT !.refs = down])
    BY <1>1, StaysRecord
  <2> QED BY <2>1, <2>2
<1> DEFINE u == AddGWS(g, t)
           v == RemoveGWS(g, t)
           w == RemoveGWS(u, g.qmList[i])
           x == RemoveGWS(g, g.qmList[i])
<1>2. Recorded(u) /\ Recorded(v) /\ Recorded(w) /\ Recorded(x)
  BY <1>1
<1> DEFINE added == Append(u.qmList, t)
           replaced == [w.qmList EXCEPT ![i] = t]
           removed == RemoveAt(x.qmList, i)
           more == [u.projections EXCEPT ![t] = u.projections[t] + 1]
           less == [v.projections EXCEPT ![t] = v.projections[t] - 1]
<1>3. /\ AddQM(g, t) = [u EXCEPT !.qmList = added]
      /\ ReplaceQM(g, i, t) = [w EXCEPT !.qmList = replaced]
      /\ RemoveQM(g, i) = g \/ RemoveQM(g, i) = [x EXCEPT !.qmList = removed]
  BY DEF AddQM, ReplaceQM, RemoveQM
<1>4. /\ AddProjection(g, t) = [u EXCEPT !.projections = more]
      /\ RemoveProjection(g, t) = [v EXCEPT !.projections = less]
  BY DEF AddProjection, RemoveProjection
<1> HIDE DEF u, v, w, x, added, replaced, removed, more, less
<1>5. /\ Recorded([u EXCEPT !.qmList = added]) /\ Recorded([w EXCEPT !.qmList = replaced])
      /\ Recorded([x EXCEPT !.qmList = removed])
  BY <1>2, StaysRecord
<1>6. Recorded([u EXCEPT !.projections = more]) /\ Recorded([v EXCEPT !.projections = less])
  BY <1>2, StaysRecord
<1> QED BY <1>3, <1>4, <1>5, <1>6

(* Measures leave projections alone.                                       *)
LEMMA ViewsKept ==
  ASSUME NEW g, Measured(g), NEW t \in GWSType, NEW i \in DOMAIN g.qmList
  PROVE  /\ ReplaceQM(g, i, t).projections = g.projections
         /\ RemoveQM(g, i).projections = g.projections
<1> DEFINE u == AddGWS(g, t)
           v == RemoveGWS(u, g.qmList[i])
           w == RemoveGWS(g, g.qmList[i])
<1>1. Measured(u) /\ u.projections = g.projections
  BY Referred, Members
<1> HIDE DEF u
<1>2. Measured(v) /\ v.projections = g.projections
  BY <1>1, Referred, Members
<1>3. Measured(w) /\ w.projections = g.projections
  BY Referred, Members
<1>4. ReplaceQM(g, i, t) = [v EXCEPT !.qmList = [v.qmList EXCEPT ![i] = t]]
  BY DEF ReplaceQM, u
<1>5. RemoveQM(g, i) = [w EXCEPT !.qmList = RemoveAt(w.qmList, i)]
  BY DEF RemoveQM
<1> HIDE DEF v, w
<1> QED BY <1>2, <1>3, <1>4, <1>5, ListOnly

LEMMA ViewsKeptAdding ==
  ASSUME NEW g, Measured(g), NEW t
  PROVE  AddQM(g, t).projections = g.projections
<1> DEFINE u == AddGWS(g, t)
<1>1. Measured(u) /\ u.projections = g.projections
  BY Referred, Members
<1>2. AddQM(g, t) = [u EXCEPT !.qmList = Append(u.qmList, t)]
  BY DEF AddQM
<1> HIDE DEF u
<1> QED BY <1>1, <1>2, ListOnly

(* One projection more or less.                                            *)
LEMMA ViewsChanged ==
  ASSUME NEW g, Measured(g), NEW t
  PROVE  /\ AddProjection(g, t).projections =
              [g.projections EXCEPT ![t] = g.projections[t] + 1]
         /\ RemoveProjection(g, t).projections =
              [g.projections EXCEPT ![t] = g.projections[t] - 1]
<1> DEFINE u == AddGWS(g, t)
           v == RemoveGWS(g, t)
<1>1. ASSUME NEW h, Measured(h), NEW p PROVE [h EXCEPT !.projections = p].projections = p
  BY DEF Measured
<1>2. /\ Measured(u) /\ u.projections = g.projections
      /\ Measured(v) /\ v.projections = g.projections
  BY Referred, Members
<1>3. AddProjection(g, t) =
        [u EXCEPT !.projections = [u.projections EXCEPT ![t] = u.projections[t] + 1]]
  BY DEF AddProjection
<1>4. RemoveProjection(g, t) =
        [v EXCEPT !.projections = [v.projections EXCEPT ![t] = v.projections[t] - 1]]
  BY DEF RemoveProjection
<1> HIDE DEF u, v
<1> QED BY <1>1, <1>2, <1>3, <1>4

(* The grasp of an open world stays within the bounds.                     *)
LEMMA BoundedInit == Init => Bounded(grasp)
<1>1. Measured(NoMeasures) /\ NoMeasures.qmList = <<>> /\ Recorded(NoMeasures)
  BY DEF Measured, NoMeasures, Recorded
<1>2. \A t : Cardinality(Users(<<>>, t)) = 0
  BY FS_EmptySet DEF Users
<1>3. Tallied(NoMeasures)
  BY <1>1, <1>2 DEF Tallied, NoMeasures
<1>4. NoMeasures.projections \in [GWSType -> 0..MaxViews]
  <2>1. 0 \in 0..MaxViews
    BY ManagerConstants
  <2> QED BY <2>1 DEF NoMeasures
<1>5. Bounded(NoMeasures)
  BY <1>1, <1>3, <1>4, ManagerConstants DEF Bounded
<1>6. ASSUME NEW t \in GWSType PROVE Bounded(AddQM(NoMeasures, t))
  <2>0. Len(NoMeasures.qmList) = 0
    BY <1>1
  <2>1. Len(AddQM(NoMeasures, t).qmList) = 1
    <3>1. Len(AddQM(NoMeasures, t).qmList) = Len(NoMeasures.qmList) + 1
      BY <1>1, <1>6, Added
    <3> QED BY <2>0, <3>1
  <2> DEFINE g == AddQM(NoMeasures, t)
  <2>2. Tallied(g)
    BY <1>3, TallyAdded
  <2>3. Recorded(g)
    BY <1>1, AllRecords
  <2>4. g.projections \in [GWSType -> 0..MaxViews]
    BY <1>1, <1>4, ViewsKeptAdding
  <2>5. Len(g.qmList) <= MaxMeasures
    BY <2>1, ManagerConstants
  <2> QED BY <2>2, <2>3, <2>4, <2>5 DEF Bounded
<1> QED BY <1>5, <1>6 DEF Init

LEMMA BoundedNext == Bounded(grasp) /\ [Next]_vars => Bounded(grasp)'
<1> SUFFICES ASSUME Bounded(grasp), [Next]_vars PROVE Bounded(grasp')
  OBVIOUS
<1>0. /\ Tallied(grasp) /\ Recorded(grasp) /\ Measured(grasp)
      /\ Len(grasp.qmList) \in Nat /\ Len(grasp.qmList) <= MaxMeasures
      /\ grasp.projections \in [GWSType -> 0..MaxViews]
  BY DEF Bounded, Tallied, Measured
<1>1. ASSUME NEW t \in GWSType, Len(grasp.qmList) < MaxMeasures, grasp' = AddQM(grasp, t)
      PROVE  Bounded(grasp')
  <2>1. Len(grasp'.qmList) <= MaxMeasures
    BY <1>0, <1>1, Added, ManagerConstants
  <2> QED BY <1>0, <1>1, <2>1, TallyAdded, AllRecords, ViewsKeptAdding DEF Bounded
<1>2. ASSUME NEW t \in GWSType, NEW i \in DOMAIN grasp.qmList, grasp' = ReplaceQM(grasp, i, t)
      PROVE  Bounded(grasp')
  <2>1. Len(grasp'.qmList) <= MaxMeasures
    BY <1>0, <1>2, Replaced
  <2> QED BY <1>0, <1>2, <2>1, TallyReplaced, AllRecords, ViewsKept DEF Bounded
<1>3. ASSUME NEW i \in DOMAIN grasp.qmList, grasp' = RemoveQM(grasp, i)
      PROVE  Bounded(grasp')
  <2>1. Len(grasp'.qmList) <= MaxMeasures
    BY <1>0, <1>3, Removed, ManagerConstants
  <2>2. grasp.qmList[i] \in GWSType
    BY <1>0, <1>3 DEF Measured
  <2> QED BY <1>0, <1>3, <2>1, <2>2, TallyRemoved, AllRecords, ViewsKept DEF Bounded
<1>4. ASSUME NEW t \in GWSType,
             \/ grasp.projections[t] < MaxViews /\ grasp' = AddProjection(grasp, t)
             \/ grasp.projections[t] > 0 /\ grasp' = RemoveProjection(grasp, t)
      PROVE  Bounded(grasp')
  <2>1. grasp'.qmList = grasp.qmList
    BY <1>0, <1>4, Projected
  <2>2. grasp'.projections \in [GWSType -> 0..MaxViews]
    <3> DEFINE p == grasp.projections
    <3>1. p \in [GWSType -> 0..MaxViews] /\ MaxViews \in Nat
      BY <1>0, ManagerConstants
    <3>2. \/ p[t] < MaxViews /\ grasp'.projections = [p EXCEPT ![t] = p[t] + 1]
          \/ p[t] > 0 /\ grasp'.projections = [p EXCEPT ![t] = p[t] - 1]
      BY <1>0, <1>4, ViewsChanged
    <3> HIDE DEF p
    <3>3. p[t] \in 0..MaxViews
      BY <1>4, <3>1
    <3>4. CASE p[t] < MaxViews /\ grasp'.projections = [p EXCEPT ![t] = p[t] + 1]
      <4>1. p[t] + 1 \in 0..MaxViews
        BY <3>1, <3>3, <3>4
      <4> QED BY <3>1, <3>4, <4>1
    <3>5. CASE p[t] > 0 /\ grasp'.projections = [p EXCEPT ![t] = p[t] - 1]
      <4>1. p[t] - 1 \in 0..MaxViews
        BY <3>1, <3>3, <3>5
      <4> QED BY <3>1, <3>5, <4>1
    <3> QED BY <3>2, <3>4, <3>5
  <2> QED BY <1>0, <1>4, <2>1, <2>2, TallyProjected, AllRecords DEF Bounded
<1>5. CASE AddEditQM
  BY <1>1, <1>2, <1>5 DEF AddEditQM
<1>6. CASE DeleteQM
  BY <1>3, <1>6 DEF DeleteQM
<1>7. CASE ShowProjection
  BY <1>4, <1>7 DEF ShowProjection
<1>8. CASE ~AddEditQM /\ ~DeleteQM /\ ~ShowProjection
  <2>1. grasp' = grasp
    BY <1>8 DEF Next, Clicks, OpenQMDlg, CloseQMDlg, GenerateGrasps, GenerateNothing,
       ReadGrasps, ReadFails, TestGrasps, ShowGrasp, Close, GoesAstray, TestIt, TestOne,
       TestEnd, program, vars
  <2> QED BY <2>1
<1> QED BY <1>5, <1>6, <1>7, <1>8

(* A grasp within the bounds is one of the type.                           *)
LEMMA BoundedIsGrasp ==
  ASSUME NEW g, Bounded(g)
  PROVE  g \in Grasp(MaxMeasures, MaxViews)
<1>1. /\ g.qmList \in Seq(GWSType) /\ Len(g.qmList) \in 0..MaxMeasures
      /\ g.projections \in [GWSType -> 0..MaxViews] /\ g.refs \in [GWSType -> Int]
  BY ManagerConstants DEF Bounded, Tallied, Measured
<1>2. g.qmList \in BoundedSeq(GWSType, MaxMeasures)
  <2>1. g.qmList \in [1..Len(g.qmList) -> GWSType]
    BY <1>1
  <2> QED BY <1>1, <2>1 DEF BoundedSeq, SeqOf
<1>3. ASSUME NEW t \in GWSType PROVE g.refs[t] \in 0..MaxMeasures + MaxViews
  <2> DEFINE S == Users(g.qmList, t)
             n == Len(g.qmList)
  <2>1. g.refs[t] = Cardinality(S) + g.projections[t] /\ g.projections[t] \in 0..MaxViews
    BY <1>1 DEF Bounded, Tallied
  <2>2. IsFiniteSet(1..n) /\ Cardinality(1..n) = n
    <3>1. n \in Nat
      BY <1>1
    <3> HIDE DEF n
    <3> QED BY <3>1, FS_Interval
  <2>3. S \subseteq 1..n
    BY <1>1 DEF Users
  <2>4. IsFiniteSet(S) /\ Cardinality(S) <= Cardinality(1..n)
    BY <2>2, <2>3, FS_Subset
  <2>5. Cardinality(S) \in Nat
    BY <2>4, FS_CardinalityType
  <2> QED BY <1>1, <2>1, <2>2, <2>4, <2>5, ManagerConstants
<1>4. g.refs \in [GWSType -> 0..MaxMeasures + MaxViews]
  BY <1>1, <1>3
<1> QED BY <1>1, <1>2, <1>4 DEF Bounded, Recorded, Grasp

(* What the dialogs say is in its range.                                   *)
Settings ==
  /\ qmDlg \in {"closed", "menu", "newQM"} /\ isOpen \in BOOLEAN
  /\ enabled \subseteq {"Generate", "Test", "Show"}
  /\ qmComboBox \in 0..MaxMeasures /\ connected \in BOOLEAN
  /\ graspsNotShown \in BOOLEAN /\ undefined \in BOOLEAN
  /\ whichQM \in -1..MaxMeasures - 1

LEMMA SettingsInit == Init => Settings
<1> SUFFICES ASSUME Init PROVE Settings
  OBVIOUS
<1>1. Len(grasp.qmList) \in 0..MaxMeasures
  BY BoundedInit, ManagerConstants DEF Bounded, Tallied, Measured
<1>2. -1 \in -1..MaxMeasures - 1
  BY ManagerConstants
<1> QED BY <1>1, <1>2 DEF Init, Settings

LEMMA SettingsNext == Settings /\ Bounded(grasp) /\ [Next]_vars => Settings'
<1> SUFFICES ASSUME Settings, Bounded(grasp), [Next]_vars PROVE Settings'
  OBVIOUS
<1> DEFINE Chosen ==
             /\ qmDlg \in {"closed", "menu", "newQM"} /\ isOpen \in BOOLEAN
             /\ enabled \subseteq {"Generate", "Test", "Show"}
             /\ qmComboBox \in 0..MaxMeasures /\ connected \in BOOLEAN
             /\ graspsNotShown \in BOOLEAN /\ whichQM \in -1..MaxMeasures - 1
<1>1. undefined' \in BOOLEAN
  BY DEF Next, TestIt, GoesAstray, vars, Settings
<1>2. Chosen
  BY DEF Settings
<1>3. CASE \/ AddEditQM \/ DeleteQM \/ ShowProjection \/ TestOne \/ GoesAstray \/ UNCHANGED vars
  <2>1. UNCHANGED <<isOpen, enabled, qmComboBox, connected, graspsNotShown, whichQM, qmDlg>>
    BY <1>3 DEF AddEditQM, DeleteQM, ShowProjection, TestOne, GoesAstray, program, vars,
                dialog, manager, tester
  <2> QED BY <1>1, <1>2, <2>1 DEF Settings
<1>4. CASE OpenQMDlg
  BY <1>1, <1>2, <1>4 DEF OpenQMDlg, dialog, manager, tester, Settings
<1>5. CASE CloseQMDlg
  <2>1. Len(grasp.qmList) \in 0..MaxMeasures
    BY ManagerConstants DEF Bounded, Tallied, Measured
  <2>2. UNCHANGED <<isOpen, connected, graspsNotShown, whichQM>> /\ qmDlg' = "closed"
    BY <1>5 DEF CloseQMDlg, manager, tester
  <2>3. qmComboBox' \in 0..MaxMeasures /\ enabled' \subseteq {"Generate", "Test", "Show"}
    BY <1>2, <1>5, <2>1 DEF CloseQMDlg
  <2> QED BY <1>1, <1>2, <2>2, <2>3 DEF Settings
<1>6. CASE GenerateGrasps \/ GenerateNothing \/ ReadGrasps \/ ReadFails
  <2>1. whichQM' \in -1..MaxMeasures - 1
    BY <1>2, <1>6, ManagerConstants
       DEF GenerateGrasps, GenerateNothing, ReadGrasps, ReadFails, ReadsSettings
  <2>2. /\ UNCHANGED <<qmDlg, isOpen, qmComboBox, graspsNotShown>>
        /\ connected' \in {TRUE, connected} /\ enabled' \subseteq enabled \cup {"Test"}
    BY <1>6 DEF GenerateGrasps, GenerateNothing, ReadGrasps, ReadFails, manager
  <2> QED BY <1>1, <1>2, <2>1, <2>2 DEF Settings
<1>7. CASE TestGrasps
  BY <1>1, <1>2, <1>7 DEF TestGrasps, dialog, Settings
<1>8. CASE ShowGrasp
  BY <1>1, <1>2, <1>8 DEF ShowGrasp, dialog, tester, Settings
<1>9. CASE Close
  <2>1. 0 \in 0..MaxMeasures /\ -1 \in -1..MaxMeasures - 1
    BY ManagerConstants
  <2> QED BY <1>1, <1>2, <1>9, <2>1 DEF Close, Settings
<1>10. CASE TestEnd
  BY <1>1, <1>2, <1>10 DEF TestEnd, Settings
<1> QED BY <1>3, <1>4, <1>5, <1>6, <1>7, <1>8, <1>9, <1>10 DEF Next, Clicks, TestIt

(* All of the invariant.                                                   *)
ManagerInv == Bounded(grasp) /\ Settings /\ Pointers /\ AreSaved

LEMMA ManagerInvAlways == Spec => []ManagerInv
<1>1. Init => ManagerInv
  BY BoundedInit, SettingsInit, PointersInit DEF ManagerInv
<1>2. ManagerInv /\ [Next]_vars => ManagerInv'
  BY BoundedNext, SettingsNext, PointersNext DEF ManagerInv
<1> QED BY <1>1, <1>2, PTL DEF Spec

(* However many grasps are generated, read, tested and shown, and whatever *)
(* the user does during a test: the manager's list holds no grasp that was *)
(* deleted, and every GWS counts its users.  The presenter's copy of the   *)
(* list, the iterator of a test and the number of its measure are not      *)
(* covered: they do go astray, and then the behaviour ends.                *)
THEOREM NothingEverDangles == Spec => []NothingDangles
<1> SUFFICES ASSUME ManagerInv PROVE NothingDangles
  BY ManagerInvAlways, PTL
<1>1. grasp \in Grasp(MaxMeasures, MaxViews)
  BY BoundedIsGrasp DEF ManagerInv
<1>2. RefsCounted(grasp)
  BY DEF ManagerInv, Bounded, Tallied, RefsCounted, Users
<1>3. /\ Len(planned) \in Nat /\ Len(planned) <= MaxGrasps /\ DOMAIN planned = 1..Len(planned)
      /\ Len(presenterList) \in Nat /\ Len(presenterList) <= MaxList
  BY DEF ManagerInv, Pointers
<1>4. hand \in 0..MaxGrasps /\ origTran \in -1..MaxGrasps /\ processing \in 0..MaxList
  BY <1>3, ManagerConstants DEF ManagerInv, Pointers
<1>5. TypeOK
  BY <1>1, <1>3, <1>4 DEF ManagerInv, Settings, Pointers, TypeOK
<1> QED BY <1>2, <1>5 DEF NothingDangles, ManagerInv, Pointers

(* A test that ends leaves the good grasps of the list, the best first and *)
(* each with its final position, unless no code records it, and the hand   *)
(* where it was: however long the list and whatever the user did meanwhile.*)
THEOREM TestsEndInOrder == Spec => AfterTest
<1> DEFINE A == idleSensor /\ ~idleSensor' =>
                  /\ Ranked(graspList)' /\ hand' = origTran
                  /\ \A g \in ToSet(graspList) :
                       planned[g].quality > 0 => g \in ToSet(graspList')
<1>1. ASSUME ManagerInv, [Next]_vars PROVE [A]_vars
  <2> SUFFICES ASSUME idleSensor, ~idleSensor', Next
               PROVE  /\ Ranked(graspList)' /\ hand' = origTran
                      /\ \A g \in ToSet(graspList) :
                           planned[g].quality > 0 => g \in ToSet(graspList')
    BY <1>1
  <2>1. TestEnd
    BY DEF Next, Clicks, TestIt, OpenQMDlg, AddEditQM, DeleteQM, CloseQMDlg,
           ShowProjection, GenerateGrasps, GenerateNothing, ReadGrasps, ReadFails, TestGrasps,
           ShowGrasp, Close, TestOne, GoesAstray, program, tester
  <2>2. graspList' \in BestFirst(GoodGrasps) /\ planned' = Erased(BadGrasps) /\ hand' = origTran
    BY <2>1 DEF TestEnd, OrderGraspListByQuality, DeleteBadGrasps
  <2>3. /\ graspList' \in Seq(Nat) /\ ToSet(graspList') = GoodGrasps
        /\ \A i, j \in DOMAIN graspList' :
             i < j => planned[graspList'[i]].quality >= planned[graspList'[j]].quality
    <3>1. GoodGrasps \in SUBSET ToSet(graspList) /\ graspList \in Seq(Nat)
      BY <1>1 DEF GoodGrasps, ManagerInv, Pointers
    <3> QED BY <2>2, <3>1, SortedList
  <2>4. ASSUME NEW g \in GoodGrasps
        PROVE  /\ planned'[g] = planned[g] /\ planned[g].quality > 0
               /\ planned[g].quality \in Good => planned[g].saved
    <3>1. g \in 1..Len(planned) /\ g \notin BadGrasps
      BY <1>1 DEF ManagerInv, Pointers, GoodGrasps, BadGrasps
    <3>2. planned'[g] = planned[g]
      BY <1>1, <2>2, <3>1, ErasedGrasps DEF ManagerInv
    <3> QED BY <1>1, <3>1, <3>2 DEF ManagerInv, GoodGrasps, AreSaved
  <2>5. \A i \in DOMAIN graspList' : graspList'[i] \in GoodGrasps
    BY <2>3 DEF ToSet
  <2>6. Ranked(graspList)'
    BY <2>3, <2>4, <2>5 DEF Ranked
  <2> QED BY <2>2, <2>3, <2>6 DEF GoodGrasps
<1> QED BY <1>1, ManagerInvAlways, PTL DEF Spec, AfterTest

-----------------------------------------------------------------------------
(***************************************************************************)
(* What is known of a hand between two steps.                              *)
(***************************************************************************)
(* What a robot's record and a running move are made of.                   *)
RobotType ==
  [q : [Dof -> 0..MaxVal], val : [Joint -> 0..MaxVal],
   broken : SUBSET OfKind("BREAKAWAY"), at : [Joint -> 0..MaxVal]]
MoveType ==
  [desired : [Dof -> 0..MaxVal], step : [Dof -> Int], stopAtContact : BOOLEAN,
   stopped : SUBSET (Joint \X Directions), itercount : 0..MaxIter]

Ranges ==
  /\ robot \in RobotType /\ contacts \subseteq Link \X Directions
  /\ tran \in Trans /\ place \in Places
  /\ move # None => move \in MoveType

(* Rigid joints follow their DOF, the only joint of a compliant DOF too.   *)
Follows(j) == j \in OfKind("RIGID") \/ (j \in OfKind("COMPLIANT") /\ Drives[DofOf[j]] = {j})
Together(h) == \A j \in Joint : Follows(j) => h.val[j] = h.q[DofOf[j]]

(* No joint with breakaway is ahead of its DOF, nor of where it was        *)
(* disengaged.                                                             *)
Behind(h) ==
  \A j \in OfKind("BREAKAWAY") :
    /\ h.val[j] <= h.q[DofOf[j]]
    /\ j \in h.broken => h.val[j] <= h.at[j] /\ h.at[j] <= h.q[DofOf[j]]

(* The last joint of a DOF with breakaway tells its value.                 *)
IsLast(j) == j \in OfKind("BREAKAWAY") /\ Drives[DofOf[j]] \subseteq Upto[j]
LastFollows(h) == \A j \in Joint : IsLast(j) => j \notin h.broken /\ h.val[j] = h.q[DofOf[j]]

Posture(h) == h \in RobotType /\ Together(h) /\ Behind(h) /\ LastFollows(h)

(* Where the DOFs of a running move are on their way.                      *)
Heading ==
  \A d \in Dof : /\ move.step[d] > 0 => robot.q[d] <= move.desired[d]
                 /\ move.step[d] < 0 => robot.q[d] >= move.desired[d]
                 /\ move.step[d] = 0 => robot.q[d] = move.desired[d]

(* When the last joint of a DOF is stopped, all are, or are disengaged.    *)
LastStops(h, stopped) ==
  \A j \in Joint : IsLast(j) /\ <<j, 1>> \in stopped =>
     \A i \in Drives[DofOf[j]] : <<i, 1>> \in stopped \/ i \in h.broken

(* A joint that will not go anywhere in the rest of a move, from h on.     *)
Stuck(h, j, stopped) ==
  LET d == DofOf[j]
  IN  \/ h.q[d] = move.desired[d]
      \/ Kind[d] = "RIGID" /\ \E i \in Drives[d] : Halted(i, stopped)
      \/ Kind[d] = "COMPLIANT" /\ <<j, Sign(move.desired[d] - h.val[j])>> \in stopped
      \/ /\ Kind[d] = "BREAKAWAY" /\ move.desired[d] < h.q[d]
         /\ \E i \in Drives[d] : Halted(i, stopped)
      \/ /\ Kind[d] = "BREAKAWAY" /\ move.desired[d] > h.q[d]
         /\ (<<j, 1>> \in stopped \/ j \in h.broken)

(* What is stopped has a chain that stays where it is.                     *)
Chained(stopped) == \A s \in stopped : \A j \in Upto[s[1]] : Stuck(robot, j, stopped)

(* It is held by a contact, which stays too.                               *)
Pinned(stopped) ==
  \A s \in stopped : \E c \in contacts :
    s[1] \in Upto[c[1]] /\ \A j \in Upto[c[1]] : Stuck(robot, j, stopped)

(* A joint after one with breakaway goes when that one has come to its     *)
(* end, or not at all; a chain with breakaway goes alone.                  *)
InTurn(i, j) ==
  Kind[DofOf[j]] = "BREAKAWAY" /\ DofOf[i] # DofOf[j] =>
    robot.q[DofOf[i]] = move.desired[DofOf[i]] \/ robot.q[DofOf[j]] = move.desired[DofOf[j]]
GoesInTurn == \A i \in Joint : \A j \in Upto[i] : InTurn(i, j)
GoesAlone == \A l \in Link : \A i, j \in Upto[l] : InTurn(i, j)

(* The values that DOFs still have before them, and the stops that are left*)
Ahead ==
  {x \in Dof \X (1..MaxVal) : \/ robot.q[x[1]] < x[2] /\ x[2] <= move.desired[x[1]]
                              \/ move.desired[x[1]] < x[2] /\ x[2] <= robot.q[x[1]]}
Room == (Joint \X Directions) \ move.stopped
Budget == Cardinality(Dof \X (1..MaxVal)) + Cardinality(Joint \X Directions)
InBudget == move.itercount + Cardinality(Ahead) + Cardinality(Room) <= Budget

MInv == move # None => Heading /\ LastStops(robot, move.stopped)
Sure == move # None => GoesInTurn /\ Chained(move.stopped)
Solo == move # None => GoesAlone /\ Pinned(move.stopped)
Spent == move # None => InBudget
IHand == Ranges /\ Posture(robot) /\ MInv

-----------------------------------------------------------------------------
(***************************************************************************)
(* The way of a step, in whole points.                                     *)
(***************************************************************************)
(* A quotient, rounded down, between its multiples.                        *)
LEMMA DivBounds ==
  ASSUME NEW n \in Int, NEW m \in Nat \ {0}
  PROVE  n \div m \in Int /\ m * (n \div m) <= n /\ n < m * (n \div m) + m
  OBVIOUS

(* A smaller number has no larger quotient.                                *)
LEMMA DivMonotone ==
  ASSUME NEW m \in Nat \ {0}, NEW x \in Int, NEW y \in Int, x <= y
  PROVE  x \div m <= y \div m
  BY DivBounds

(* Multiples divide without rest.                                          *)
LEMMA DivMultiple ==
  ASSUME NEW m \in Nat \ {0}, NEW x \in Int
  PROVE  (x * m) \div m = x
<1> DEFINE q == (x * m) \div m
<1>1. q \in Int /\ m * q <= x * m /\ x * m < m * q + m
  BY DivBounds
<1> HIDE DEF q
<1>2. CASE q < x BY <1>1, <1>2
<1>3. CASE q > x BY <1>1, <1>3
<1> QED BY <1>1, <1>2, <1>3 DEF q

(* A multiple of the divisor comes out of a quotient.                      *)
LEMMA DivShift ==
  ASSUME NEW m \in Nat \ {0}, NEW x \in Int, NEW n \in Int
  PROVE  (n + x * m) \div m = n \div m + x
<1> DEFINE q == n \div m
           r == (n + x * m) \div m
<1>1. q \in Int /\ m * q <= n /\ n < m * q + m
  BY DivBounds
<1>2. n + x * m \in Int /\ r \in Int /\ m * r <= n + x * m /\ n + x * m < m * r + m
  BY DivBounds
<1> HIDE DEF q, r
<1>3. m * (q + x) <= n + x * m /\ n + x * m < m * (q + x) + m
  BY <1>1
<1>4. CASE r < q + x BY <1>1, <1>2, <1>3, <1>4
<1>5. CASE r > q + x BY <1>1, <1>2, <1>3, <1>5
<1> QED BY <1>1, <1>2, <1>4, <1>5 DEF q, r

(* The points of the way of a DOF or joint lie between its ends.           *)
LEMMA BetweenBounds ==
  ASSUME NEW a \in 0..MaxVal, NEW b \in 0..MaxVal, NEW i \in 0..MaxVal
  PROVE  /\ Between(a, b, i) \in 0..MaxVal
         /\ a <= b => a <= Between(a, b, i) /\ Between(a, b, i) <= b
         /\ b <= a => b <= Between(a, b, i) /\ Between(a, b, i) <= a
<1>0. MaxVal \in Nat \ {0} BY MotionAssumption
<1>1. CASE a <= b
  <2>1. 0 <= (b - a) * i /\ (b - a) * i <= (b - a) * MaxVal
    BY <1>0, <1>1
  <2>2. 0 \div MaxVal = 0 /\ ((b - a) * MaxVal) \div MaxVal = b - a
    BY <1>0, DivMultiple, 0 * MaxVal = 0
  <2>3. 0 <= ((b - a) * i) \div MaxVal /\ ((b - a) * i) \div MaxVal <= b - a
    BY <2>1, <2>2, <1>0, DivMonotone
  <2> QED BY <2>3, <1>0, <1>1, DivBounds DEF Between
<1>2. CASE b <= a
  <2>1. (b - a) * i <= 0 /\ (b - a) * MaxVal <= (b - a) * i
    BY <1>0, <1>2
  <2>2. 0 \div MaxVal = 0 /\ ((b - a) * MaxVal) \div MaxVal = b - a
    BY <1>0, DivMultiple, 0 * MaxVal = 0
  <2>3. ((b - a) * i) \div MaxVal <= 0 /\ b - a <= ((b - a) * i) \div MaxVal
    BY <2>1, <2>2, <1>0, DivMonotone
  <2> QED BY <2>3, <1>0, <1>2, DivBounds DEF Between
<1> QED BY <1>0, <1>1, <1>2

(* The way ends where it is to go; the way from a value to itself is that  *)
(* value.                                                                  *)
LEMMA BetweenEnds ==
  ASSUME NEW a \in 0..MaxVal, NEW b \in 0..MaxVal
  PROVE  /\ Between(a, b, MaxVal) = b
         /\ \A i \in 0..MaxVal : Between(a, a, i) = a
<1>0. MaxVal \in Nat \ {0} BY MotionAssumption
<1>1. ((b - a) * MaxVal) \div MaxVal = b - a
  BY <1>0, DivMultiple
<1>2. ASSUME NEW i \in 0..MaxVal PROVE Between(a, a, i) = a
  <2>1. Between(a, a, i) \in 0..MaxVal /\ a <= Between(a, a, i) /\ Between(a, a, i) <= a
    BY <1>0, BetweenBounds
  <2> QED BY <2>1, <1>0
<1> QED BY <1>0, <1>1, <1>2 DEF Between

(* Of two joints on their way to the same value, the one behind stays      *)
(* behind: at any point where interpolateJoints() ends.                    *)
LEMMA BetweenMonotone ==
  ASSUME NEW a \in 0..MaxVal, NEW c \in 0..MaxVal, NEW b \in 0..MaxVal, NEW i \in 0..MaxVal, a <= c
  PROVE  Between(a, b, i) <= Between(c, b, i)
<1>0. MaxVal \in Nat \ {0} BY MotionAssumption
<1>1. ASSUME NEW x \in 0..MaxVal
      PROVE  x + ((b - x) * i) \div MaxVal = ((b - x) * i + x * MaxVal) \div MaxVal
  <2>1. (b - x) * i \in Int /\ x \in Int
    BY <1>0
  <2> DEFINE n == (b - x) * i
  <2> HIDE DEF n
  <2>2. n \in Int BY <2>1 DEF n
  <2>3. n \div MaxVal \in Int BY <2>2, <1>0, DivBounds
  <2>4. (n + x * MaxVal) \div MaxVal = n \div MaxVal + x BY <1>0, <2>1, <2>2, DivShift
  <2>5. x + n \div MaxVal = (n + x * MaxVal) \div MaxVal BY <2>1, <2>3, <2>4
  <2> QED BY <2>5 DEF n
<1>2. (b - a) * i + a * MaxVal <= (b - c) * i + c * MaxVal
  <2>1. (c - a) * i <= (c - a) * MaxVal
    BY <1>0
  <2>2. (b - a) * i + a * MaxVal = (b * i - a * i) + a * MaxVal
        /\ (b - c) * i + c * MaxVal = (b * i - c * i) + c * MaxVal
    BY <1>0
  <2>3. (c - a) * i = c * i - a * i /\ (c - a) * MaxVal = c * MaxVal - a * MaxVal
    BY <1>0
  <2> QED BY <2>1, <2>2, <2>3, <1>0
<1>3. (b - a) * i + a * MaxVal \in Int /\ (b - c) * i + c * MaxVal \in Int
  BY <1>0
<1> QED BY <1>0, <1>1, <1>2, <1>3, DivMonotone DEF Between

-----------------------------------------------------------------------------
(***************************************************************************)
(* DOFs and their joints.                                                  *)
(***************************************************************************)
(* Every joint has one DOF.                                                *)
LEMMA DofOfJoint ==
  /\ \A j \in Joint : DofOf[j] \in Dof /\ j \in Drives[DofOf[j]]
  /\ \A d \in Dof : \A j \in Drives[d] : j \in Joint /\ DofOf[j] = d
<1>1. ASSUME NEW j \in Joint PROVE DofOf[j] \in Dof /\ j \in Drives[DofOf[j]]
  <2>1. \E d \in Dof : j \in Drives[d] BY DofAssumption
  <2>2. DofOf[j] = CHOOSE d \in Dof : j \in Drives[d] BY DEF DofOf
  <2> QED BY <2>1, <2>2
<1>2. ASSUME NEW d \in Dof, NEW j \in Drives[d] PROVE j \in Joint /\ DofOf[j] = d
  <2>1. j \in Joint BY DofAssumption
  <2>2. DofOf[j] \in Dof /\ j \in Drives[DofOf[j]] BY <1>1, <2>1
  <2> QED BY <2>1, <2>2, DofAssumption
<1> QED BY <1>1, <1>2

(* A joint is of one kind.                                                 *)
LEMMA KindOfJoint ==
  ASSUME NEW j \in Joint
  PROVE  /\ DofOf[j] \in Dof /\ Kind[DofOf[j]] \in {"RIGID", "BREAKAWAY", "COMPLIANT"}
         /\ \A kind : j \in OfKind(kind) <=> Kind[DofOf[j]] = kind
  BY DofOfJoint, DofAssumption DEF OfKind

(* The signs of differences.                                               *)
LEMMA SignOf ==
  ASSUME NEW n \in Int
  PROVE  /\ Sign(n) = 1 <=> n > 0
         /\ Sign(n) = -1 <=> n < 0
         /\ Sign(n) = 0 <=> n = 0
         /\ Sign(n) \in {1, -1, 0}
         /\ Sign(n) \in Directions <=> n # 0
  BY DEF Sign, Directions

(* The joints that move, and what stops them, by the kind of their DOF.    *)
LEMMA MoverOf ==
  ASSUME NEW h, NEW desired, NEW stopped, NEW j \in Joint,
         j \in Movers(h, desired, stopped)
  PROVE  /\ desired[DofOf[j]] # h.q[DofOf[j]]
         /\ Kind[DofOf[j]] = "RIGID" =>
              /\ \A i \in Drives[DofOf[j]] : ~Halted(i, stopped)
              /\ Drives[DofOf[j]] \subseteq Movers(h, desired, stopped)
         /\ Kind[DofOf[j]] = "BREAKAWAY" =>
              /\ ~InBreakAway(h, j, desired[DofOf[j]]) /\ ~Held(h, j, desired[DofOf[j]], stopped)
              /\ desired[DofOf[j]] < h.q[DofOf[j]] => \A i \in Drives[DofOf[j]] : ~Halted(i, stopped)
         /\ Kind[DofOf[j]] = "COMPLIANT" => ~Held(h, j, desired[DofOf[j]], stopped)
<1>1. PICK d \in Dof : j \in AccumulateMove(h, d, desired[d], stopped)
  BY DEF Movers
<1>2. Kind[d] \in {"RIGID", "BREAKAWAY", "COMPLIANT"}
  BY DofAssumption
<1>3. desired[d] # h.q[d] /\ j \in Drives[d]
  BY <1>1, <1>2 DEF AccumulateMove
<1>4. DofOf[j] = d
  BY <1>3, DofOfJoint
<1>5. AccumulateMove(h, d, desired[d], stopped) \subseteq Movers(h, desired, stopped)
  BY DEF Movers
<1> QED BY <1>1, <1>2, <1>3, <1>4, <1>5 DEF AccumulateMove

(* What keeps a joint that does not move from moving, by the kind of its   *)
(* DOF: the other half of accumulateMove().                                *)
LEMMA NotMoverOf ==
  ASSUME NEW h, NEW desired, NEW stopped, NEW j \in Joint,
         j \notin Movers(h, desired, stopped), desired[DofOf[j]] # h.q[DofOf[j]]
  PROVE  /\ Kind[DofOf[j]] = "RIGID" => \E i \in Drives[DofOf[j]] : Halted(i, stopped)
         /\ Kind[DofOf[j]] = "BREAKAWAY" =>
              \/ InBreakAway(h, j, desired[DofOf[j]])
              \/ Held(h, j, desired[DofOf[j]], stopped)
              \/ /\ desired[DofOf[j]] < h.q[DofOf[j]]
                 /\ \E i \in Drives[DofOf[j]] : Halted(i, stopped)
         /\ Kind[DofOf[j]] = "COMPLIANT" => Held(h, j, desired[DofOf[j]], stopped)
<1> DEFINE d == DofOf[j]
<1>1. d \in Dof /\ j \in Drives[d]
  BY DofOfJoint
<1>2. j \notin AccumulateMove(h, d, desired[d], stopped)
  BY <1>1 DEF Movers
<1> QED BY <1>1, <1>2 DEF AccumulateMove

(* A DOF that is where it is to go moves no joint.                         *)
LEMMA MoversAreJoints ==
  ASSUME NEW h, NEW desired, NEW stopped
  PROVE  Movers(h, desired, stopped) \subseteq Joint
<1> SUFFICES ASSUME NEW d \in Dof PROVE AccumulateMove(h, d, desired[d], stopped) \subseteq Joint
  BY DEF Movers
<1>1. Kind[d] \in {"RIGID", "BREAKAWAY", "COMPLIANT"} /\ Drives[d] \subseteq Joint
  BY DofAssumption
<1> QED BY <1>1 DEF AccumulateMove

-----------------------------------------------------------------------------
(***************************************************************************)
(* Postures: what updateVal(), forceDOFVals() and restoreState() leave.    *)
(***************************************************************************)
Values == [Dof -> 0..MaxVal]
Stops == SUBSET (Joint \X Directions)

(* Joints and DOFs keep their limits at every point of a step.             *)
LEMMA PostureAtType ==
  ASSUME NEW desired \in Values, NEW movers, NEW i \in 0..MaxVal, robot \in RobotType
  PROVE  /\ PostureAt(desired, movers, i) \in [Joint -> 0..MaxVal]
         /\ ActualDOFVals(desired, movers, i) \in Values
<1>1. ASSUME NEW j \in Joint
      PROVE  (IF j \in movers THEN Between(robot.val[j], desired[DofOf[j]], i) ELSE robot.val[j]) \in 0..MaxVal
  <2>1. robot.val[j] \in 0..MaxVal /\ desired[DofOf[j]] \in 0..MaxVal
    BY DofOfJoint DEF RobotType, Values
  <2> QED BY <2>1, BetweenBounds
<1>2. ASSUME NEW d \in Dof
      PROVE  (IF Drives[d] \cap movers # {} THEN Between(robot.q[d], desired[d], i) ELSE robot.q[d]) \in 0..MaxVal
  <2>1. robot.q[d] \in 0..MaxVal /\ desired[d] \in 0..MaxVal
    BY DEF RobotType, Values
  <2> QED BY <2>1, BetweenBounds
<1> QED BY <1>1, <1>2 DEF PostureAt, ActualDOFVals, Values

(* updateVal() leaves a posture when no joint is ahead of its DOF, and the *)
(* joints that follow their DOF have come along with it.                   *)
LEMMA UpdateValPosture ==
  ASSUME NEW h \in RobotType, NEW newq \in Values,
         \A j \in Joint : Follows(j) \/ IsLast(j) => h.val[j] = newq[DofOf[j]],
         \A j \in OfKind("BREAKAWAY") :
           h.val[j] <= newq[DofOf[j]] /\ (j \in h.broken => h.val[j] <= h.at[j]),
         \A j \in Joint : IsLast(j) => j \notin h.broken
  PROVE  /\ Posture(UpdateVal(h, newq))
         /\ UpdateVal(h, newq).q = newq /\ UpdateVal(h, newq).val = h.val
         /\ \A j \in h.broken : newq[DofOf[j]] >= h.at[j] => j \in UpdateVal(h, newq).broken
<1> DEFINE behind == {j \in OfKind("BREAKAWAY") : IF j \in h.broken THEN newq[DofOf[j]] >= h.at[j]
                                                  ELSE h.val[j] < newq[DofOf[j]]}
           at == [j \in Joint |-> IF j \notin behind THEN 0 ELSE IF j \in h.broken THEN h.at[j] ELSE h.val[j]]
           u == UpdateVal(h, newq)
<1>1. u = [h EXCEPT !.q = newq, !.broken = behind, !.at = at]
  BY DEF UpdateVal
<1>2. h.q \in Values /\ h.val \in [Joint -> 0..MaxVal] /\ h.at \in [Joint -> 0..MaxVal]
      /\ h.broken \subseteq OfKind("BREAKAWAY")
  BY DEF RobotType, Values
<1>3. MaxVal \in Nat \ {0} BY MotionAssumption
<1>4. at \in [Joint -> 0..MaxVal] /\ behind \subseteq OfKind("BREAKAWAY") /\ OfKind("BREAKAWAY") \subseteq Joint
  BY <1>2, <1>3 DEF OfKind
<1>5. u.q = newq /\ u.val = h.val /\ u.broken = behind /\ u.at = at /\ u \in RobotType
  BY <1>1, <1>4 DEF RobotType, Values
<1> HIDE DEF behind, u
<1>6. Together(u)
  BY <1>5 DEF Together
<1>7. Behind(u)
  <2> SUFFICES ASSUME NEW j \in OfKind("BREAKAWAY")
               PROVE  /\ u.val[j] <= u.q[DofOf[j]]
                      /\ j \in u.broken => u.val[j] <= u.at[j] /\ u.at[j] <= u.q[DofOf[j]]
    BY DEF Behind
  <2>1. u.val[j] <= u.q[DofOf[j]] BY <1>5
  <2>2. ASSUME j \in behind PROVE u.val[j] <= u.at[j] /\ u.at[j] <= u.q[DofOf[j]]
    <3>1. h.val[j] \in 0..MaxVal /\ h.at[j] \in 0..MaxVal /\ newq[DofOf[j]] \in 0..MaxVal /\ j \in Joint
      BY <1>2, <1>4, DofOfJoint DEF Values
    <3>2. at[j] = IF j \in h.broken THEN h.at[j] ELSE h.val[j]
      BY <2>2, <3>1
    <3>3. IF j \in h.broken THEN newq[DofOf[j]] >= h.at[j] ELSE h.val[j] < newq[DofOf[j]]
      BY <2>2 DEF behind
    <3> QED BY <1>5, <3>1, <3>2, <3>3
  <2> QED BY <1>5, <2>1, <2>2
<1>8. LastFollows(u)
  <2> SUFFICES ASSUME NEW j \in Joint, IsLast(j) PROVE j \notin u.broken /\ u.val[j] = u.q[DofOf[j]]
    BY DEF LastFollows
  <2>1. h.val[j] \in 0..MaxVal /\ newq[DofOf[j]] = h.val[j] /\ j \notin h.broken
    BY <1>2
  <2> QED BY <2>1, <1>5 DEF behind
<1>9. \A j \in h.broken : newq[DofOf[j]] >= h.at[j] => j \in behind
  BY <1>2 DEF behind
<1> QED BY <1>5, <1>6, <1>7, <1>8, <1>9 DEF Posture, u

(* Every DOF with breakaway has a last joint.                              *)
LEMMA LastJoint ==
  /\ \A j \in Joint : IsLast(j) => Kind[DofOf[j]] = "BREAKAWAY" /\ ~Follows(j)
  /\ \A d \in Dof : Kind[d] = "BREAKAWAY" => \E j \in Drives[d] : IsLast(j)
<1>1. ASSUME NEW d \in Dof, Kind[d] = "BREAKAWAY" PROVE \E j \in Drives[d] : IsLast(j)
  <2>1. PICK j \in Drives[d] : Drives[d] \subseteq Upto[j] BY <1>1, ChainAssumption
  <2>2. j \in Joint /\ DofOf[j] = d BY DofOfJoint
  <2> QED BY <1>1, <2>1, <2>2, KindOfJoint DEF IsLast
<1>2. ASSUME NEW j \in Joint, IsLast(j) PROVE Kind[DofOf[j]] = "BREAKAWAY" /\ ~Follows(j)
  <2>1. Kind[DofOf[j]] = "BREAKAWAY" BY <1>2, KindOfJoint DEF IsLast
  <2> QED BY <2>1, KindOfJoint DEF Follows
<1> QED BY <1>1, <1>2

(* What a posture says of a joint, by the kind of its DOF.                 *)
LEMMA PostureOf ==
  ASSUME NEW h, Posture(h), NEW j \in Joint
  PROVE  /\ h.val[j] \in 0..MaxVal /\ h.at[j] \in 0..MaxVal /\ h.q[DofOf[j]] \in 0..MaxVal
         /\ Follows(j) \/ IsLast(j) => h.val[j] = h.q[DofOf[j]]
         /\ IsLast(j) => j \notin h.broken
         /\ j \in h.broken => /\ Kind[DofOf[j]] = "BREAKAWAY"
                              /\ h.val[j] <= h.at[j] /\ h.at[j] <= h.q[DofOf[j]]
         /\ Kind[DofOf[j]] = "BREAKAWAY" => h.val[j] <= h.q[DofOf[j]]
  BY KindOfJoint DEF Posture, RobotType, Together, Behind, LastFollows

(* forceDOFVals() and restoreState() leave a posture.                      *)
LEMMA ForcedPosture ==
  ASSUME Posture(robot), NEW v \in Values
  PROVE  Posture(Forced(v))
<1> DEFINE r == Reset(robot)
           movers == Movers(r, v, {})
           h == [r EXCEPT !.val = PostureAt(v, movers, MaxVal)]
<1>0. MaxVal \in Nat \ {0} /\ MaxVal \in 0..MaxVal BY MotionAssumption
<1>1. robot \in RobotType BY DEF Posture
<1>2. /\ r \in RobotType /\ r.q = robot.q /\ r.val = robot.val /\ r.broken = {}
  <2> DEFINE at == [j \in Joint |-> 0]
  <2>1. at \in [Joint -> 0..MaxVal] BY <1>0
  <2>2. r = [robot EXCEPT !.broken = {}, !.at = at] BY DEF Reset
  <2> HIDE DEF at
  <2> QED BY <1>1, <2>1, <2>2 DEF RobotType
<1>3. PostureAt(v, movers, MaxVal) \in [Joint -> 0..MaxVal]
  BY <1>0, <1>1, PostureAtType
<1>4. h \in RobotType /\ h.val = PostureAt(v, movers, MaxVal) /\ h.broken = {}
  BY <1>2, <1>3 DEF RobotType
<1> HIDE DEF h
<1>5. ASSUME NEW j \in Joint
      PROVE  /\ v[DofOf[j]] # robot.q[DofOf[j]] => h.val[j] = v[DofOf[j]]
             /\ v[DofOf[j]] = robot.q[DofOf[j]] => h.val[j] = robot.val[j]
  <2>1. ~ \E i \in Drives[DofOf[j]] : Halted(i, {}) BY DEF Halted
  <2>2. ~Held(r, j, v[DofOf[j]], {}) /\ ~InBreakAway(r, j, v[DofOf[j]]) BY <1>2 DEF Held, InBreakAway
  <2>3. Kind[DofOf[j]] \in {"RIGID", "BREAKAWAY", "COMPLIANT"} BY KindOfJoint
  <2>4. j \in movers <=> v[DofOf[j]] # robot.q[DofOf[j]]
    BY <1>2, <2>1, <2>2, <2>3, MoverOf, NotMoverOf
  <2>5. h.val[j] = IF j \in movers THEN Between(robot.val[j], v[DofOf[j]], MaxVal) ELSE robot.val[j]
    BY <1>4 DEF PostureAt
  <2>6. robot.val[j] \in 0..MaxVal /\ v[DofOf[j]] \in 0..MaxVal
    BY <1>1, DofOfJoint DEF RobotType, Values
  <2>7. Between(robot.val[j], v[DofOf[j]], MaxVal) = v[DofOf[j]]
    BY <2>6, BetweenEnds
  <2> QED BY <2>4, <2>5, <2>7
<1>6. ASSUME NEW j \in Joint
      PROVE  /\ Follows(j) \/ IsLast(j) => h.val[j] = v[DofOf[j]]
             /\ Kind[DofOf[j]] = "BREAKAWAY" => h.val[j] <= v[DofOf[j]]
  <2>1. v[DofOf[j]] \in 0..MaxVal BY DofOfJoint DEF Values
  <2> QED BY <1>0, <1>5, <2>1, PostureOf
<1>7. \A j \in OfKind("BREAKAWAY") : j \in Joint /\ Kind[DofOf[j]] = "BREAKAWAY"
  BY DEF OfKind
<1>8. Posture(UpdateVal(h, v))
  BY <1>4, <1>6, <1>7, UpdateValPosture
<1> QED BY <1>8 DEF Forced, h

(* restoreState() leaves a posture, whatever the hand was tried in.        *)
LEMMA RestoredPosture ==
  ASSUME NEW tried \in RobotType, NEW h, Posture(h)
  PROVE  Posture(Restored(tried, [q |-> h.q, broken |-> h.broken, at |-> h.at]))
<1> DEFINE read == [tried EXCEPT !.q = h.q, !.broken = h.broken, !.at = h.at]
           r == [read EXCEPT !.val = JointValues(read)]
<1>1. h \in RobotType BY DEF Posture
<1>2. read \in RobotType /\ read.q = h.q /\ read.broken = h.broken /\ read.at = h.at
  BY <1>1 DEF RobotType
<1>3. \A j \in Joint : JointValues(read)[j] = IF j \in h.broken /\ h.q[DofOf[j]] > h.at[j] THEN h.at[j] ELSE h.q[DofOf[j]]
  BY <1>2 DEF JointValues, InBreakAway
<1>4. JointValues(read) \in [Joint -> 0..MaxVal]
  <2>1. \A j \in Joint : JointValues(read)[j] \in 0..MaxVal
    BY <1>3, PostureOf
  <2> QED BY <2>1 DEF JointValues
<1>5. r \in RobotType /\ r.q = h.q /\ r.broken = h.broken /\ r.at = h.at /\ r.val = JointValues(read)
  BY <1>2, <1>4 DEF RobotType
<1> HIDE DEF r
<1>6. Together(r)
  <2> SUFFICES ASSUME NEW j \in Joint, Follows(j) PROVE r.val[j] = r.q[DofOf[j]]
    BY DEF Together
  <2>1. j \notin h.broken BY PostureOf, KindOfJoint DEF Follows
  <2> QED BY <2>1, <1>3, <1>5
<1>7. Behind(r)
  <2> SUFFICES ASSUME NEW j \in Joint, Kind[DofOf[j]] = "BREAKAWAY"
               PROVE  /\ r.val[j] <= r.q[DofOf[j]]
                      /\ j \in r.broken => r.val[j] <= r.at[j] /\ r.at[j] <= r.q[DofOf[j]]
    BY DEF Behind, OfKind
  <2>1. /\ h.at[j] \in 0..MaxVal /\ h.q[DofOf[j]] \in 0..MaxVal
        /\ j \in h.broken => h.at[j] <= h.q[DofOf[j]]
    BY PostureOf
  <2> QED BY <2>1, <1>3, <1>5
<1>8. LastFollows(r)
  BY <1>3, <1>5, PostureOf DEF LastFollows
<1> QED BY <1>5, <1>6, <1>7, <1>8 DEF Restored, r, Posture

-----------------------------------------------------------------------------
(***************************************************************************)
(* Stops: stopJointsFromLink(), and the rounds of getJointValuesFromDOF(). *)
(***************************************************************************)
(* stopJointsFromLink(): what it stops moves, in the chains of the links,  *)
(* and all of their joints that move are stopped.                          *)
LEMMA StopJointsOf ==
  ASSUME NEW desired, NEW movers, NEW ls \in SUBSET Link
  PROVE  /\ StopJoints(desired, movers, ls) \in Stops
         /\ \A c \in StopJoints(desired, movers, ls) :
              \E l \in ls : c[1] \in Upto[l] /\ Direction(desired, movers, c[1]) = c[2]
         /\ \A l \in ls : \A j \in Upto[l] : Direction(desired, movers, j) # 0 =>
              /\ Direction(desired, movers, j) \in Directions
                   => <<j, Direction(desired, movers, j)>> \in StopJoints(desired, movers, ls)
<1>1. \A l \in ls : Upto[l] \subseteq Joint
  BY MotionAssumption DEF Link
<1> QED BY <1>1 DEF StopJoints, Stops

(* The direction of a joint, by numbers.                                   *)
LEMMA DirectionOf ==
  ASSUME NEW desired \in Values, NEW movers, robot \in RobotType, NEW j \in Joint
  PROVE  /\ desired[DofOf[j]] \in Int /\ robot.val[j] \in Int
         /\ j \notin movers => Direction(desired, movers, j) = 0
         /\ j \in movers => Direction(desired, movers, j) = Sign(desired[DofOf[j]] - robot.val[j])
         /\ Direction(desired, movers, j) \in {0, 1, -1}
<1>1. desired[DofOf[j]] \in Int /\ robot.val[j] \in Int
  <2>1. desired[DofOf[j]] \in 0..MaxVal /\ robot.val[j] \in 0..MaxVal BY DofOfJoint DEF RobotType, Values
  <2> QED BY <2>1
<1>2. Sign(desired[DofOf[j]] - robot.val[j]) \in {1, -1, 0} BY <1>1, SignOf
<1> QED BY <1>1, <1>2 DEF Direction

(* A mover is not stopped in the direction in which it moves.              *)
LEMMA MoverNotStopped ==
  ASSUME NEW desired \in Values, NEW stopped \in Stops, robot \in RobotType,
         NEW j \in Movers(robot, desired, stopped)
  PROVE  j \in Joint /\ <<j, Direction(desired, Movers(robot, desired, stopped), j)>> \notin stopped
<1> DEFINE movers == Movers(robot, desired, stopped)
           d == DofOf[j]
<1>1. j \in Joint BY MoversAreJoints
<1>2. Direction(desired, movers, j) = Sign(desired[d] - robot.val[j])
  BY DEF Direction
<1>3. CASE Kind[d] = "RIGID"
  <2>1. ~Halted(j, stopped) BY <1>1, <1>3, MoverOf, DofOfJoint
  <2>2. \A s : <<j, s>> \in stopped => s \in Directions BY DEF Stops
  <2> QED BY <1>1, <2>1, <2>2 DEF Halted
<1>4. CASE Kind[d] \in {"BREAKAWAY", "COMPLIANT"}
  <2>1. ~Held(robot, j, desired[d], stopped) BY <1>1, <1>4, MoverOf
  <2> QED BY <1>1, <1>2, <2>1 DEF Held
<1> QED BY <1>1, <1>3, <1>4, KindOfJoint

(* Joints with breakaway stopped before their last one, or with it.        *)
LEMMA StopJointsLast ==
  ASSUME Posture(robot), NEW desired \in Values, NEW stopped \in Stops, NEW ls \in SUBSET Link,
         LastStops(robot, stopped)
  PROVE  LastStops(robot, stopped \cup StopJoints(desired, Movers(robot, desired, stopped), ls))
<1> DEFINE movers == Movers(robot, desired, stopped)
           new == StopJoints(desired, movers, ls)
<1> SUFFICES ASSUME NEW j \in Joint, IsLast(j), <<j, 1>> \in stopped \cup new,
                    NEW i \in Drives[DofOf[j]], i \notin robot.broken
             PROVE  <<i, 1>> \in stopped \cup new
  BY DEF LastStops
<1>1. CASE <<j, 1>> \in stopped BY <1>1 DEF LastStops
<1>2. CASE <<j, 1>> \in new
  <2>1. PICK l \in ls : j \in Upto[l] /\ Direction(desired, movers, j) = 1
    BY <1>2, StopJointsOf
  <2>2. /\ DofOf[j] \in Dof /\ i \in Joint /\ DofOf[i] = DofOf[j] /\ Kind[DofOf[j]] = "BREAKAWAY"
    BY DofOfJoint, LastJoint
  <2> DEFINE d == DofOf[j]
  <2>3. robot \in RobotType BY DEF Posture
  <2>4. j \in movers /\ Sign(desired[d] - robot.val[j]) = 1
    BY <2>1, <2>3, DirectionOf
  <2>5. /\ desired[d] \in Int /\ robot.val[j] \in Int /\ robot.val[i] \in Int
    BY <2>2, <2>3, DirectionOf
  <2>6. robot.val[j] < desired[d] BY <2>4, <2>5, SignOf
  <2>7. robot.val[j] = robot.q[d] /\ robot.val[i] <= robot.q[d]
    BY <2>2, PostureOf
  <2>8. Sign(desired[d] - robot.val[i]) = 1 /\ desired[d] # robot.q[d] /\ ~(desired[d] < robot.q[d])
    <3>1. robot.val[i] < desired[d] BY <2>5, <2>6, <2>7
    <3>2. desired[d] - robot.val[i] \in Int /\ desired[d] - robot.val[i] > 0 BY <3>1, <2>5
    <3> QED BY <2>5, <2>6, <2>7, <3>2, SignOf
  <2>9. CASE i \in movers
    <3>1. Direction(desired, movers, i) = 1 BY <2>2, <2>8, <2>9 DEF Direction
    <3>2. i \in Upto[l]
      <4>1. Drives[d] \subseteq Upto[j] /\ Upto[j] \subseteq Upto[l]
        BY <2>1, MotionAssumption DEF IsLast, Link
      <4> QED BY <4>1
    <3> QED BY <3>1, <3>2, StopJointsOf DEF Directions
  <2>10. CASE i \notin movers
    <3>1. Held(robot, i, desired[d], stopped)
      BY <2>2, <2>8, <2>10, NotMoverOf DEF InBreakAway
    <3> QED BY <2>8, <3>1 DEF Held
  <2> QED BY <2>9, <2>10
<1> QED BY <1>1, <1>2

(* A set of natural numbers that is not empty has a least element.         *)
LEMMA LeastNat ==
  ASSUME NEW T \in SUBSET Nat, T # {}
  PROVE  \E m \in T : \A n \in T : m <= n
<1>1. PICK m \in T : \A n \in T : <<n, m>> \notin OpToRel(<, Nat)
  BY NatLessThanWellFounded, WFMin
<1>2. \A n \in T : ~(n < m)
  BY <1>1 DEF OpToRel
<1> QED BY <1>2

(* The rounds of getJointValuesFromDOF() stay within every set of stops    *)
(* that a round does not leave.                                            *)
LEMMA StoppedWithin ==
  ASSUME NEW desired, NEW stopped, NEW F, stopped \in F,
         \A before \in F : StopPrevented(desired, before) \in F
  PROVE  Stopped(desired, stopped) \in F
<1> DEFINE N == Cardinality(Joint)
           Round(n, r) == IF n = 0 THEN stopped ELSE StopPrevented(desired, r[n - 1])
           Is(r, n) == r = [m \in 0..n |-> Round(m, r)]
           round == CHOOSE r : r = [n \in 0..N |-> IF n = 0 THEN stopped ELSE StopPrevented(desired, r[n - 1])]
<1>1. N \in Nat BY DofAssumption, FS_CardinalityType
<1>2. \A n \in Nat : \E r : Is(r, n)
  <2> DEFINE T == {n \in Nat : ~ \E r : Is(r, n)}
  <2> SUFFICES ASSUME T # {} PROVE FALSE OBVIOUS
  <2>1. PICK n \in T : \A m \in T : n <= m BY LeastNat
  <2>2. CASE n = 0
    <3> DEFINE r == [m \in 0..0 |-> stopped]
    <3>1. Is(r, 0) OBVIOUS
    <3> QED BY <2>1, <2>2, <3>1
  <2>3. CASE n # 0
    <3>0. n \in Nat /\ n - 1 \in Nat BY <2>1, <2>3
    <3>1. n \in Nat /\ n - 1 \in Nat /\ n - 1 \notin T
      <4> HIDE DEF T
      <4>1. n - 1 \in T => n <= n - 1 BY <2>1
      <4> QED BY <3>0, <4>1
    <3>2. PICK r : Is(r, n - 1) BY <3>1
    <3> DEFINE s == [m \in 0..n |-> IF m = n THEN StopPrevented(desired, r[n - 1]) ELSE r[m]]
    <3>3. \A m \in 0..n - 1 : r[m] = Round(m, r) BY <3>2
    <3>4. ASSUME NEW m \in 0..n PROVE s[m] = Round(m, s)
      <4>1. CASE m = n BY <4>1, <2>3, <3>1
      <4>2. CASE m # n
        <5>1. m \in 0..n - 1 /\ (m # 0 => m - 1 \in 0..n - 1) BY <4>2, <3>1
        <5>2. s[m] = r[m] /\ (m # 0 => s[m - 1] = r[m - 1]) BY <5>1, <3>1
        <5> QED BY <5>1, <5>2, <3>3
      <4> QED BY <4>1, <4>2
    <3>5. Is(s, n)
      <4> DEFINE t == [m \in 0..n |-> Round(m, s)]
      <4>1. DOMAIN s = 0..n /\ DOMAIN t = 0..n /\ \A m \in 0..n : s[m] = t[m] BY <3>4
      <4> HIDE DEF Round
      <4>2. s = t BY <4>1
      <4> QED BY <4>2
    <3> HIDE DEF s, Is
    <3> QED BY <3>5, <2>1
  <2> QED BY <2>2, <2>3
<1>3. Is(round, N) BY <1>1, <1>2
<1> HIDE DEF round
<1>4. \A n \in 0..N : round[n] = Round(n, round) BY <1>3
<1>5. \A n \in 0..N : round[n] \in F
  <2> DEFINE T == {n \in 0..N : round[n] \notin F}
  <2> SUFFICES ASSUME T # {} PROVE FALSE OBVIOUS
  <2>0. T \in SUBSET Nat BY <1>1
  <2>1. PICK n \in T : \A m \in T : n <= m
    <3> HIDE DEF T
    <3> QED BY <2>0, LeastNat
  <2>2. CASE n = 0 BY <2>1, <2>2, <1>4
  <2>3. CASE n # 0
    <3>1. n - 1 \in 0..N /\ n - 1 \notin T BY <2>1, <2>3, <1>1
    <3>2. round[n - 1] \in F BY <3>1
    <3>3. round[n] = StopPrevented(desired, round[n - 1]) BY <1>4, <2>1, <2>3
    <3> QED BY <3>2, <3>3, <2>1
  <2> QED BY <2>2, <2>3
<1>6. round[N] \in F BY <1>1, <1>5
<1> QED BY <1>6 DEF Stopped, round

-----------------------------------------------------------------------------
(***************************************************************************)
(* A running move.                                                         *)
(***************************************************************************)
(* The DOFs of a running move go on towards the values desired.            *)
LEMMA NewValsOf ==
  ASSUME robot \in RobotType, move \in MoveType, Heading
  PROVE  /\ NewVals \in Values
         /\ \A d \in Dof :
              /\ robot.q[d] \in 0..MaxVal /\ move.desired[d] \in 0..MaxVal /\ NewVals[d] \in 0..MaxVal
              /\ NewVals[d] = robot.q[d] <=> robot.q[d] = move.desired[d]
              /\ robot.q[d] < move.desired[d] => robot.q[d] < NewVals[d] /\ NewVals[d] <= move.desired[d]
              /\ robot.q[d] > move.desired[d] => robot.q[d] > NewVals[d] /\ NewVals[d] >= move.desired[d]
<1>0. MaxVal \in Nat \ {0} BY MotionAssumption
<1>1. ASSUME NEW d \in Dof
      PROVE  /\ robot.q[d] \in 0..MaxVal /\ move.desired[d] \in 0..MaxVal /\ NewVals[d] \in 0..MaxVal
             /\ NewVals[d] = robot.q[d] <=> robot.q[d] = move.desired[d]
             /\ robot.q[d] < move.desired[d] => robot.q[d] < NewVals[d] /\ NewVals[d] <= move.desired[d]
             /\ robot.q[d] > move.desired[d] => robot.q[d] > NewVals[d] /\ NewVals[d] >= move.desired[d]
  <2>1. robot.q[d] \in 0..MaxVal /\ move.desired[d] \in 0..MaxVal /\ move.step[d] \in Int
    BY DEF RobotType, MoveType
  <2>2. NewVals[d] = IF \/ move.step[d] > 0 /\ robot.q[d] + move.step[d] > move.desired[d]
                        \/ move.step[d] < 0 /\ robot.q[d] + move.step[d] < move.desired[d]
                     THEN move.desired[d] ELSE robot.q[d] + move.step[d]
    BY DEF NewVals
  <2>3. /\ move.step[d] > 0 => robot.q[d] <= move.desired[d]
        /\ move.step[d] < 0 => robot.q[d] >= move.desired[d]
        /\ move.step[d] = 0 => robot.q[d] = move.desired[d]
    BY DEF Heading
  <2> QED BY <2>1, <2>2, <2>3, <1>0
<1>2. NewVals \in Values BY <1>1 DEF Values, NewVals
<1> QED BY <1>1, <1>2

(* A round of getJointValuesFromDOF() adds stops of links that contacts    *)
(* keep from moving.                                                       *)
LEMMA StopPreventedOf ==
  ASSUME NEW desired \in Values, NEW before \in Stops
  PROVE  /\ \E ls \in SUBSET Link :
              /\ StopPrevented(desired, before) =
                   before \cup StopJoints(desired, Movers(robot, desired, before), ls)
              /\ \A l \in ls : <<l, Motion(desired, Movers(robot, desired, before), l)>> \in contacts
         /\ StopPrevented(desired, before) \in Stops
         /\ before \subseteq StopPrevented(desired, before)
<1> DEFINE movers == Movers(robot, desired, before)
           prevented == Prevented(desired, movers)
           ls == {l \in prevented : prevented \cap Upto[l] = {l}}
<1>1. ls \in SUBSET Link /\ \A l \in ls : <<l, Motion(desired, movers, l)>> \in contacts
  BY DEF Prevented
<1>2. StopPrevented(desired, before) = before \cup StopJoints(desired, movers, ls)
  BY DEF StopPrevented
<1>3. StopJoints(desired, movers, ls) \in Stops BY <1>1, StopJointsOf
<1> HIDE DEF ls, movers
<1>4. StopPrevented(desired, before) \in Stops BY <1>2, <1>3 DEF Stops
<1> QED BY <1>1, <1>2, <1>4 DEF movers

(* The rounds keep what was stopped before, and LastStops.                 *)
LEMMA NewStoppedOf ==
  ASSUME Posture(robot), move \in MoveType, Heading, LastStops(robot, move.stopped)
  PROVE  NewStopped \in Stops /\ move.stopped \subseteq NewStopped /\ LastStops(robot, NewStopped)
<1> DEFINE F == {s \in Stops : move.stopped \subseteq s /\ LastStops(robot, s)}
<1>1. NewVals \in Values BY NewValsOf DEF Posture
<1>2. move.stopped \in F BY DEF MoveType, Stops
<1>3. ASSUME NEW before \in F PROVE StopPrevented(NewVals, before) \in F
  <2>1. before \in Stops /\ move.stopped \subseteq before /\ LastStops(robot, before) OBVIOUS
  <2>2. PICK ls \in SUBSET Link : StopPrevented(NewVals, before) =
                   before \cup StopJoints(NewVals, Movers(robot, NewVals, before), ls)
    BY <1>1, <2>1, StopPreventedOf
  <2>3. LastStops(robot, StopPrevented(NewVals, before))
    BY <1>1, <2>1, <2>2, StopJointsLast
  <2>4. StopPrevented(NewVals, before) \in Stops /\ before \subseteq StopPrevented(NewVals, before)
    BY <1>1, <2>1, StopPreventedOf
  <2> QED BY <2>1, <2>3, <2>4
<1> HIDE DEF F
<1>4. NewStopped \in F BY <1>2, <1>3, StoppedWithin DEF NewStopped
<1> QED BY <1>4 DEF F

(* A step that is cut short anywhere leaves a posture.                     *)
LEMMA StepPosture ==
  ASSUME Posture(robot), NEW desired \in Values, NEW stopped \in Stops, LastStops(robot, stopped),
         NEW i \in 0..MaxVal
  PROVE  LET movers == Movers(robot, desired, stopped)
             p == PostureAt(desired, movers, i)
             newq == ActualDOFVals(desired, movers, i)
             u == UpdateVal([robot EXCEPT !.val = p], newq)
         IN  /\ Posture(u)
             /\ u.q = newq /\ u.val = p
             /\ \A j \in robot.broken : newq[DofOf[j]] >= robot.at[j] => j \in u.broken
<1> DEFINE movers == Movers(robot, desired, stopped)
           p == PostureAt(desired, movers, i)
           newq == ActualDOFVals(desired, movers, i)
           h == [robot EXCEPT !.val = p]
<1>0. robot \in RobotType BY DEF Posture
<1>1. p \in [Joint -> 0..MaxVal] /\ newq \in Values BY <1>0, PostureAtType
<1>2. h \in RobotType /\ h.val = p /\ h.broken = robot.broken /\ h.at = robot.at
  BY <1>0, <1>1 DEF RobotType
<1>3. ASSUME NEW j \in Joint
      PROVE  /\ robot.val[j] \in 0..MaxVal /\ robot.at[j] \in 0..MaxVal
             /\ robot.q[DofOf[j]] \in 0..MaxVal /\ desired[DofOf[j]] \in 0..MaxVal
             /\ p[j] = IF j \in movers THEN Between(robot.val[j], desired[DofOf[j]], i) ELSE robot.val[j]
             /\ newq[DofOf[j]] = IF Drives[DofOf[j]] \cap movers # {}
                                 THEN Between(robot.q[DofOf[j]], desired[DofOf[j]], i) ELSE robot.q[DofOf[j]]
             /\ j \in movers => Drives[DofOf[j]] \cap movers # {}
  BY PostureOf, DofOfJoint DEF PostureAt, ActualDOFVals, Values
<1> HIDE DEF p, newq, h
<1>4. ASSUME NEW j \in Joint, Follows(j) PROVE p[j] = newq[DofOf[j]]
  <2>1. robot.val[j] = robot.q[DofOf[j]] BY <1>4, PostureOf
  <2>2. Drives[DofOf[j]] \cap movers # {} => j \in movers
    <3>1. CASE Kind[DofOf[j]] = "RIGID"
      <4> SUFFICES ASSUME NEW k \in Drives[DofOf[j]] \cap movers PROVE j \in movers OBVIOUS
      <4>1. k \in Joint /\ DofOf[k] = DofOf[j] /\ j \in Drives[DofOf[j]] BY DofOfJoint
      <4> QED BY <4>1, <3>1, MoverOf
    <3>2. CASE Drives[DofOf[j]] = {j} BY <3>2
    <3> QED BY <1>4, <3>1, <3>2, KindOfJoint DEF Follows
  <2> QED BY <1>3, <2>1, <2>2
<1>5. ASSUME NEW j \in Joint, Kind[DofOf[j]] = "BREAKAWAY"
      PROVE  p[j] <= newq[DofOf[j]] /\ (j \in robot.broken => p[j] <= robot.at[j])
  <2> DEFINE d == DofOf[j]
  <2>1. /\ robot.val[j] <= robot.q[d]
        /\ j \in robot.broken => robot.val[j] <= robot.at[j] /\ robot.at[j] <= robot.q[d]
    BY <1>5, PostureOf
  <2>2. CASE Drives[d] \cap movers = {} BY <1>3, <2>1, <2>2
  <2>3. CASE Drives[d] \cap movers # {} /\ j \in movers
    <3>1. Between(robot.val[j], desired[d], i) <= Between(robot.q[d], desired[d], i)
      BY <1>3, <2>1, BetweenMonotone
    <3>2. j \in robot.broken => ~(desired[d] > robot.at[j])
      BY <1>5, <2>3, MoverOf DEF InBreakAway
    <3>3. /\ Between(robot.val[j], desired[d], i) \in 0..MaxVal
          /\ robot.val[j] <= desired[d] => Between(robot.val[j], desired[d], i) <= desired[d]
          /\ desired[d] <= robot.val[j] => Between(robot.val[j], desired[d], i) <= robot.val[j]
      BY <1>3, BetweenBounds
    <3>4. j \in robot.broken => Between(robot.val[j], desired[d], i) <= robot.at[j]
      BY <3>2, <3>3, <2>1, <1>3
    <3> QED BY <1>3, <2>3, <3>1, <3>4
  <2>4. CASE Drives[d] \cap movers # {} /\ j \notin movers
    <3>1. PICK k \in Drives[d] : k \in movers BY <2>4
    <3>2. k \in Joint /\ DofOf[k] = d BY DofOfJoint
    <3>3. /\ desired[d] # robot.q[d]
          /\ desired[d] < robot.q[d] => \A m \in Drives[d] : ~Halted(m, stopped)
      BY <1>5, <3>1, <3>2, MoverOf
    <3>4. \/ InBreakAway(robot, j, desired[d])
          \/ Held(robot, j, desired[d], stopped)
      BY <1>5, <2>4, <3>3, NotMoverOf
    <3>5. /\ Between(robot.q[d], desired[d], i) \in 0..MaxVal
          /\ robot.q[d] <= desired[d] => robot.q[d] <= Between(robot.q[d], desired[d], i)
          /\ desired[d] <= robot.q[d] => desired[d] <= Between(robot.q[d], desired[d], i)
      BY <1>3, BetweenBounds
    <3>6. CASE desired[d] < robot.q[d]
      <4>1. ~Halted(j, stopped) BY <3>3, <3>6, DofOfJoint
      <4>2. ~Held(robot, j, desired[d], stopped)
        <5>1. \A s : <<j, s>> \in stopped => s \in Directions BY DEF Stops
        <5> QED BY <4>1, <5>1 DEF Held, Halted
      <4>3. j \in robot.broken /\ desired[d] > robot.at[j] BY <3>4, <4>2 DEF InBreakAway
      <4> QED BY <4>3, <3>5, <3>6, <2>1, <1>3, <2>4
    <3>7. CASE desired[d] > robot.q[d]
      BY <3>5, <3>7, <2>1, <1>3, <2>4
    <3> QED BY <3>3, <3>6, <3>7, <1>3
  <2> QED BY <2>2, <2>3, <2>4
<1>6. ASSUME NEW j \in Joint, IsLast(j) PROVE p[j] = newq[DofOf[j]] /\ j \notin robot.broken
  <2> DEFINE d == DofOf[j]
  <2>1. robot.val[j] = robot.q[d] /\ j \notin robot.broken /\ Kind[d] = "BREAKAWAY"
    BY <1>6, PostureOf, LastJoint
  <2>2. ASSUME NEW k \in Drives[d] \cap movers PROVE j \in movers
    <3> SUFFICES ASSUME j \notin movers PROVE FALSE OBVIOUS
    <3>2. k \in Joint /\ DofOf[k] = d /\ j \in Drives[d] BY DofOfJoint
    <3>3. /\ desired[d] # robot.q[d]
          /\ desired[d] < robot.q[d] => \A m \in Drives[d] : ~Halted(m, stopped)
          /\ ~InBreakAway(robot, k, desired[d]) /\ ~Held(robot, k, desired[d], stopped)
      BY <2>1, <2>2, <3>2, MoverOf
    <3>4. Held(robot, j, desired[d], stopped) \/ (desired[d] < robot.q[d] /\ \E m \in Drives[d] : Halted(m, stopped))
      BY <2>1, <3>3, NotMoverOf DEF InBreakAway
    <3>5. Held(robot, j, desired[d], stopped) => Halted(j, stopped)
      BY DEF Stops, Held, Halted
    <3>6. desired[d] > robot.q[d] /\ Held(robot, j, desired[d], stopped)
      BY <3>2, <3>3, <3>4, <3>5, <1>3
    <3>7. robot.val[k] <= robot.q[d] /\ robot.val[k] \in 0..MaxVal /\ robot.at[k] \in 0..MaxVal
          /\ (k \in robot.broken => robot.at[k] <= robot.q[d])
      BY <2>1, <3>2, PostureOf
    <3>8. Sign(desired[d] - robot.val[j]) = 1 /\ Sign(desired[d] - robot.val[k]) = 1
      BY <3>6, <3>7, <2>1, <1>3, SignOf
    <3>9. <<k, 1>> \in stopped \/ k \in robot.broken
      BY <1>6, <3>2, <3>6, <3>8 DEF Held, LastStops
    <3>10. k \in robot.broken BY <3>3, <3>8, <3>9 DEF Held
    <3>11. desired[d] > robot.at[k] BY <3>6, <3>7, <3>10, <1>3
    <3> QED BY <3>3, <3>10, <3>11 DEF InBreakAway
  <2> QED BY <1>3, <2>1, <2>2
<1>7. \A j \in OfKind("BREAKAWAY") : j \in Joint /\ Kind[DofOf[j]] = "BREAKAWAY"
  BY DEF OfKind
<1>8. /\ Posture(UpdateVal(h, newq))
      /\ UpdateVal(h, newq).q = newq /\ UpdateVal(h, newq).val = h.val
      /\ \A j \in h.broken : newq[DofOf[j]] >= h.at[j] => j \in UpdateVal(h, newq).broken
  BY <1>1, <1>2, <1>4, <1>5, <1>6, <1>7, UpdateValPosture
<1> QED BY <1>2, <1>8 DEF h, p, newq

-----------------------------------------------------------------------------
(***************************************************************************)
(* Geometry, and loops that go back from collisions.                       *)
(***************************************************************************)
(* The pose of a link depends on its chain.                                *)
LEMMA SameReach ==
  ASSUME NEW l \in Link, NEW p1 \in [Joint -> -1..MaxVal], NEW p2 \in [Joint -> -1..MaxVal],
         \A j \in Upto[l] : p1[j] = p2[j]
  PROVE  Reach(p1, l) = Reach(p2, l)
<1> DEFINE z(p) == [j \in Joint |-> IF j \in Upto[l] THEN p[j] ELSE 0]
<1>1. z(p1) = z(p2) OBVIOUS
<1>2. Reach(p1, l) = Reach(z(p1), l) /\ Reach(p2, l) = Reach(z(p2), l)
  BY ReachAssumption DEF Link
<1> QED BY <1>1, <1>2

(* The gap of a link depends on its chain.                                 *)
LEMMA GapOf ==
  ASSUME NEW t \in Int, NEW l \in Link, NEW s \in Directions, place \in Places,
         NEW p \in [Joint -> 0..MaxVal]
  PROVE  /\ Gap(t, p, l, s) \in Int /\ Reach(p, l) \in Int
         /\ place.front[l] \in Int /\ place.behind[l] \in Int
         /\ \A r \in [Joint -> 0..MaxVal] :
              (\A j \in Upto[l] : p[j] = r[j]) => Gap(t, p, l, s) = Gap(t, r, l, s)
<1>0. MaxVal \in Nat \ {0} BY MotionAssumption
<1>1. \A r \in [Joint -> 0..MaxVal] : r \in [Joint -> -1..MaxVal]
  <2>1. 0..MaxVal \subseteq -1..MaxVal BY <1>0
  <2> QED BY <2>1
<1>2. place.front[l] \in Int /\ place.behind[l] \in Int
  BY MotionAssumption DEF Link
<1>3. Reach(p, l) \in Int BY <1>1, ReachAssumption DEF Link
<1>4. \A r \in [Joint -> 0..MaxVal] : (\A j \in Upto[l] : p[j] = r[j]) => Reach(p, l) = Reach(r, l)
  BY <1>1, SameReach
<1> QED BY <1>2, <1>3, <1>4 DEF Gap, Directions

(* Where a loop that goes back from collisions may end.                    *)
LEMMA EndsOf ==
  ASSUME NEW report, NEW back, NEW last \in DOMAIN back, NEW e \in Ends(report, back, last)
  PROVE  /\ report[e[1]] = {}
         /\ \/ e[1] = last /\ e[2] = {}
            \/ \E i \in DOMAIN back : e[2] = report[i] /\ e[1] \in back[i]
<1>1. CASE report[last] = {}
  BY <1>1 DEF Ends
<1>2. CASE report[last] # {}
  <2>1. PICK i \in Passed(back, last) : e \in {<<k, report[i]>> : k \in {k \in back[i] : report[k] = {}}}
    BY <1>2 DEF Ends
  <2>2. i \in DOMAIN back BY DEF Passed
  <2> QED BY <2>1, <2>2
<1> QED BY <1>1, <1>2

(* Where the loop of jumpDOFToContact() may end: what is looked at does    *)
(* not collide, and the collisions of the last report are resolved.        *)
LEMMA SettledOf ==
  ASSUME NEW desired, NEW movers, NEW interest, NEW e \in Settled(desired, movers, interest)
  PROVE  /\ e[1] \in 0..MaxVal
         /\ Collisions(tran, PostureAt(desired, movers, e[1]), interest) = {}
         /\ \/ e[1] = MaxVal /\ e[2] = {}
            \/ \E i \in 0..MaxVal :
                 /\ e[2] = Collisions(tran, PostureAt(desired, movers, i), interest)
                 /\ Resolved(tran, PostureAt(desired, movers, e[1]), e[2])
<1> DEFINE report == Reports(desired, movers, interest)
           back == Backs(desired, movers, report)
<1>0. MaxVal \in 0..MaxVal BY MotionAssumption
<1>1. e \in Ends(report, back, MaxVal) BY DEF Settled
<1>2. DOMAIN back = 0..MaxVal /\ MaxVal \in DOMAIN back BY <1>0 DEF Backs
<1>3. \A i \in 0..MaxVal : report[i] = Collisions(tran, PostureAt(desired, movers, i), interest)
  BY DEF Reports
<1>4. \A i \in 0..MaxVal : back[i] = {k \in 0..i - 1 : Resolved(tran, PostureAt(desired, movers, k), report[i])}
  BY DEF Backs, InterpolateJoints
<1> HIDE DEF report, back
<1>5. /\ report[e[1]] = {}
      /\ \/ e[1] = MaxVal /\ e[2] = {}
         \/ \E i \in 0..MaxVal : e[2] = report[i] /\ e[1] \in back[i]
  BY <1>1, <1>2, EndsOf
<1>6. ASSUME NEW i \in 0..MaxVal, e[1] \in back[i]
      PROVE  e[1] \in 0..MaxVal /\ Resolved(tran, PostureAt(desired, movers, e[1]), report[i])
  <2>1. e[1] \in 0..i - 1 /\ Resolved(tran, PostureAt(desired, movers, e[1]), report[i]) BY <1>4, <1>6
  <2>2. 0..i - 1 \subseteq 0..MaxVal BY MotionAssumption
  <2> QED BY <2>1, <2>2
<1>7. e[1] \in 0..MaxVal BY <1>0, <1>5, <1>6
<1> QED BY <1>3, <1>5, <1>6, <1>7

(* A link that contacts keep from moving, or that has come into contact,   *)
(* has a joint in its chain that moves.                                    *)
LEMMA PreventedMoves ==
  ASSUME robot \in RobotType, contacts \subseteq Link \X Directions,
         NEW desired \in Values, NEW movers, NEW l,
         <<l, Motion(desired, movers, l)>> \in contacts
  PROVE  l \in Link /\ \E j \in Upto[l] : Direction(desired, movers, j) # 0
<1>0. MaxVal \in Nat \ {0} /\ 0 \in -1..MaxVal /\ 1 \in -1..MaxVal /\ -1 \in -1..MaxVal BY MotionAssumption
<1>1. l \in Link /\ Motion(desired, movers, l) \in Directions OBVIOUS
<1> DEFINE p == [j \in Joint |-> Direction(desired, movers, j)]
           z == [j \in Joint |-> 0]
<1>2. p \in [Joint -> -1..MaxVal] /\ z \in [Joint -> -1..MaxVal] BY <1>0, DirectionOf
<1>3. SUFFICES ASSUME \A j \in Upto[l] : Direction(desired, movers, j) = 0 PROVE FALSE
  BY <1>1
<1>4. \A j \in Upto[l] : p[j] = z[j]
  <2>1. Upto[l] \subseteq Joint BY <1>1, MotionAssumption DEF Link
  <2> QED BY <2>1, <1>3
<1> HIDE DEF p
<1>5. Reach(p, l) = Reach(z, l) BY <1>1, <1>2, <1>4, SameReach
<1>6. Reach(z, l) = 0 BY <1>1, ReachAssumption DEF Link
<1>7. Motion(desired, movers, l) = 0 BY <1>5, <1>6 DEF Motion, Sign, p
<1> QED BY <1>1, <1>7 DEF Directions

(* So does a link that touches at the end of a step what it collided with. *)
LEMMA LateMoves ==
  ASSUME robot \in RobotType, tran \in Int, place \in Places,
         NEW desired \in Values, NEW movers, NEW interest \in SUBSET Link, NEW k \in 0..MaxVal, NEW i \in 0..MaxVal,
         NEW c \in Touching(tran, PostureAt(desired, movers, k),
                            Collisions(tran, PostureAt(desired, movers, i), interest))
  PROVE  c \in Link \X Directions /\ \E j \in Upto[c[1]] : Direction(desired, movers, j) # 0
<1> DEFINE pk == PostureAt(desired, movers, k)
           pi == PostureAt(desired, movers, i)
<1>1. pk \in [Joint -> 0..MaxVal] /\ pi \in [Joint -> 0..MaxVal] BY PostureAtType
<1>2. c \in Link \X Directions /\ Gap(tran, pk, c[1], c[2]) \in 1..Threshold /\ Gap(tran, pi, c[1], c[2]) <= 0
  BY DEF Touching, Collisions
<1>3. Gap(tran, pk, c[1], c[2]) # Gap(tran, pi, c[1], c[2])
  BY <1>2, MotionAssumption
<1> HIDE DEF pk, pi
<1>4. PICK j \in Upto[c[1]] : pk[j] # pi[j]
  BY <1>1, <1>2, <1>3, GapOf
<1>5. j \in Joint BY <1>2, MotionAssumption DEF Link
<1>6. j \in movers BY <1>4, <1>5 DEF pk, pi, PostureAt
<1>7. /\ desired[DofOf[j]] \in 0..MaxVal /\ robot.val[j] \in 0..MaxVal
      /\ Direction(desired, movers, j) = Sign(desired[DofOf[j]] - robot.val[j])
  BY <1>5, <1>6, DofOfJoint DEF Values, RobotType, Direction
<1>8. robot.val[j] # desired[DofOf[j]]
  BY <1>4, <1>5, <1>6, <1>7, BetweenEnds DEF pk, pi, PostureAt
<1>9. Direction(desired, movers, j) # 0
  <2>1. desired[DofOf[j]] - robot.val[j] \in Int /\ desired[DofOf[j]] - robot.val[j] # 0 BY <1>7, <1>8
  <2> QED BY <2>1, <1>7, SignOf
<1> QED BY <1>2, <1>9

-----------------------------------------------------------------------------
(***************************************************************************)
(* A step of a move.                                                       *)
(***************************************************************************)
(* What a step takes: the DOFs and joints go to the point i of their way,  *)
(* where the contacts late are found.                                      *)
NewStops(late) == StopJoints(NewVals, NewMovers, {c[1] : c \in late})
Taken(i, late) ==
  /\ NewMovers # {}
  /\ robot'.q = ActualDOFVals(NewVals, NewMovers, i)
  /\ robot'.val = PostureAt(NewVals, NewMovers, i)
  /\ \A j \in robot.broken : robot'.q[DofOf[j]] >= robot.at[j] => j \in robot'.broken
  /\ Collisions(tran, robot'.val, InterestList(NewStopped)) = {}
  /\ contacts' = Unbroken(robot.val, PostureAt(NewVals, NewMovers, MaxVal)) \cup late
  /\ late \subseteq Link \X Directions
  /\ \A c \in late : \E j \in Upto[c[1]] : Direction(NewVals, NewMovers, j) # 0
  /\ late = {} => i = MaxVal
  /\ move' # None =>
       /\ move.itercount < MaxIter
       /\ move' = [move EXCEPT !.stopped = NewStopped \cup NewStops(late), !.itercount = @ + 1]
  /\ UNCHANGED <<tran, place>>

(* One turn of the loop of moveDOFToContacts() takes such a step.          *)
LEMMA StepTaken ==
  ASSUME IHand, Step
  PROVE  Posture(robot') /\ \E i \in 0..MaxVal : \E late : Taken(i, late)
<1>0. /\ move # None /\ move \in MoveType /\ Heading /\ LastStops(robot, move.stopped)
      /\ robot \in RobotType /\ Posture(robot) /\ place \in Places /\ tran \in Int
      /\ contacts \subseteq Link \X Directions
  BY MotionAssumption DEF IHand, Ranges, MInv, Step
<1>1. NewVals \in Values BY <1>0, NewValsOf
<1>2. NewStopped \in Stops /\ LastStops(robot, NewStopped) BY <1>0, NewStoppedOf
<1> DEFINE interest == InterestList(NewStopped)
<1>3. NewMovers = Movers(robot, NewVals, NewStopped) BY DEF NewMovers
<1>4. PICK end \in Settled(NewVals, NewMovers, interest), stopRequest \in BOOLEAN :
              LET p    == PostureAt(NewVals, NewMovers, end[1])
                  late == Touching(tran, p, end[2])
              IN  /\ NewMovers # {}
                  /\ robot' = UpdateVal([robot EXCEPT !.val = p], ActualDOFVals(NewVals, NewMovers, end[1]))
                  /\ contacts' = Unbroken(robot.val, PostureAt(NewVals, NewMovers, MaxVal)) \cup late
                  /\ move' = IF stopRequest \/ (move.stopAtContact /\ late # {}) \/ move.itercount >= MaxIter
                             THEN None
                             ELSE [move EXCEPT !.stopped = NewStopped \cup NewStops(late),
                                               !.itercount = @ + 1]
  BY <1>3 DEF Step, NewStops
<1> DEFINE i == end[1]
           p == PostureAt(NewVals, NewMovers, i)
           late == Touching(tran, p, end[2])
<1>5. /\ i \in 0..MaxVal
      /\ Collisions(tran, p, interest) = {}
      /\ \/ end[1] = MaxVal /\ end[2] = {}
         \/ \E k \in 0..MaxVal :
                 /\ end[2] = Collisions(tran, PostureAt(NewVals, NewMovers, k), interest)
                 /\ Resolved(tran, p, end[2])
  BY SettledOf
<1>6. /\ Posture(robot') /\ robot'.q = ActualDOFVals(NewVals, NewMovers, i) /\ robot'.val = p
      /\ \A j \in robot.broken : robot'.q[DofOf[j]] >= robot.at[j] => j \in robot'.broken
  <2> HIDE DEF i
  <2> QED BY <1>0, <1>1, <1>2, <1>3, <1>4, <1>5, StepPosture DEF i
<1>7. interest \in SUBSET Link BY DEF InterestList
<1> HIDE DEF interest
<1>8. /\ late \subseteq Link \X Directions
      /\ \A c \in late : \E j \in Upto[c[1]] : Direction(NewVals, NewMovers, j) # 0
      /\ late = {} => i = MaxVal
  <2>1. CASE end[1] = MaxVal /\ end[2] = {}
    BY <2>1 DEF Touching
  <2>2. ASSUME NEW k \in 0..MaxVal, end[2] = Collisions(tran, PostureAt(NewVals, NewMovers, k), interest),
               Resolved(tran, p, end[2])
        PROVE  /\ late \subseteq Link \X Directions
               /\ \A c \in late : \E j \in Upto[c[1]] : Direction(NewVals, NewMovers, j) # 0
               /\ late = {} => i = MaxVal
    <3>1. late # {} BY <2>2 DEF Resolved
    <3>2. ASSUME NEW c \in late
          PROVE  c \in Link \X Directions /\ \E j \in Upto[c[1]] : Direction(NewVals, NewMovers, j) # 0
      BY <1>0, <1>1, <1>5, <1>7, <2>2, LateMoves
    <3> QED BY <3>1, <3>2
  <2> QED BY <1>5, <2>1, <2>2
<1>9. move' # None =>
       /\ move.itercount < MaxIter
       /\ move' = [move EXCEPT !.stopped = NewStopped \cup NewStops(late), !.itercount = @ + 1]
  <2>1. move.itercount \in 0..MaxIter /\ MaxIter \in Nat BY <1>0, MotionAssumption DEF MoveType
  <2> QED BY <1>4, <2>1
<1>10. UNCHANGED <<tran, place>> BY DEF Step
<1>11. Taken(i, late)
  <2> HIDE DEF i, p, late
  <2>1. contacts' = Unbroken(robot.val, PostureAt(NewVals, NewMovers, MaxVal)) \cup late /\ NewMovers # {}
    BY <1>4 DEF i, p, late
  <2> QED BY <2>1, <1>5, <1>6, <1>8, <1>9, <1>10 DEF Taken, interest, p
<1> QED BY <1>5, <1>6, <1>11

(* Where the DOFs are after a step.                                        *)
LEMMA TakenDofs ==
  ASSUME IHand, move # None, NEW i \in 0..MaxVal, NEW late, Taken(i, late), NEW d \in Dof
  PROVE  /\ robot'.q[d] \in 0..MaxVal /\ robot.q[d] \in 0..MaxVal
         /\ NewVals[d] \in 0..MaxVal /\ move.desired[d] \in 0..MaxVal
         /\ robot.q[d] <= move.desired[d] =>
              robot.q[d] <= robot'.q[d] /\ robot'.q[d] <= NewVals[d] /\ NewVals[d] <= move.desired[d]
         /\ robot.q[d] >= move.desired[d] =>
              robot.q[d] >= robot'.q[d] /\ robot'.q[d] >= NewVals[d] /\ NewVals[d] >= move.desired[d]
         /\ Drives[d] \cap NewMovers = {} => robot'.q[d] = robot.q[d]
         /\ Drives[d] \cap NewMovers # {} /\ i = MaxVal => robot'.q[d] = NewVals[d]
<1>0. robot \in RobotType /\ move \in MoveType /\ Heading /\ MaxVal \in Nat \ {0}
  BY MotionAssumption DEF IHand, Ranges, MInv
<1>1. /\ robot.q[d] \in 0..MaxVal /\ move.desired[d] \in 0..MaxVal /\ NewVals[d] \in 0..MaxVal
      /\ NewVals[d] = robot.q[d] <=> robot.q[d] = move.desired[d]
      /\ robot.q[d] < move.desired[d] => robot.q[d] < NewVals[d] /\ NewVals[d] <= move.desired[d]
      /\ robot.q[d] > move.desired[d] => robot.q[d] > NewVals[d] /\ NewVals[d] >= move.desired[d]
  BY <1>0, NewValsOf
<1>2. robot'.q[d] = IF Drives[d] \cap NewMovers # {} THEN Between(robot.q[d], NewVals[d], i) ELSE robot.q[d]
  BY DEF Taken, ActualDOFVals
<1>3. /\ Between(robot.q[d], NewVals[d], i) \in 0..MaxVal
      /\ robot.q[d] <= NewVals[d] => robot.q[d] <= Between(robot.q[d], NewVals[d], i)
                                      /\ Between(robot.q[d], NewVals[d], i) <= NewVals[d]
      /\ NewVals[d] <= robot.q[d] => NewVals[d] <= Between(robot.q[d], NewVals[d], i)
                                      /\ Between(robot.q[d], NewVals[d], i) <= robot.q[d]
      /\ Between(robot.q[d], NewVals[d], MaxVal) = NewVals[d]
  BY <1>1, BetweenBounds, BetweenEnds
<1>4. CASE robot.q[d] = move.desired[d]
  <2>1. Between(robot.q[d], NewVals[d], i) = robot.q[d] BY <1>0, <1>1, <1>3, <1>4
  <2> QED BY <1>1, <1>2, <1>4, <2>1
<1>5. CASE robot.q[d] < move.desired[d]
  BY <1>0, <1>1, <1>2, <1>3, <1>5
<1>6. CASE robot.q[d] > move.desired[d]
  BY <1>0, <1>1, <1>2, <1>3, <1>6
<1> QED BY <1>1, <1>4, <1>5, <1>6

-----------------------------------------------------------------------------
(***************************************************************************)
(* Every operation keeps the posture of the hand and the direction of its  *)
(* move.                                                                   *)
(***************************************************************************)
(* What a step stops keeps LastStops.                                      *)
LEMMA TakenLastStops ==
  ASSUME IHand, move # None, NEW i \in 0..MaxVal, NEW late, Taken(i, late)
  PROVE  LastStops(robot', NewStopped \cup NewStops(late))
<1> DEFINE all == NewStopped \cup NewStops(late)
<1>0. /\ move \in MoveType /\ Heading /\ LastStops(robot, move.stopped) /\ Posture(robot) /\ robot \in RobotType
  BY DEF IHand, Ranges, MInv
<1>1. NewVals \in Values BY <1>0, NewValsOf
<1>2. NewStopped \in Stops /\ LastStops(robot, NewStopped) BY <1>0, NewStoppedOf
<1>3. {c[1] : c \in late} \in SUBSET Link BY DEF Taken
<1>4. LastStops(robot, all)
  BY <1>0, <1>1, <1>2, <1>3, StopJointsLast DEF NewStops, NewMovers
<1> SUFFICES ASSUME NEW j \in Joint, IsLast(j), <<j, 1>> \in all, NEW k \in Drives[DofOf[j]],
                    k \in robot.broken
             PROVE  k \in robot'.broken
  BY <1>4 DEF LastStops
<1> DEFINE d == DofOf[j]
<1>5. d \in Dof /\ j \in Drives[d] /\ k \in Joint /\ DofOf[k] = d /\ Kind[d] = "BREAKAWAY"
  BY DofOfJoint, LastJoint
<1>6. robot.at[k] <= robot.q[d] /\ robot.at[k] \in 0..MaxVal /\ robot.val[j] = robot.q[d]
  BY <1>0, <1>5, PostureOf
<1>7. robot'.q[d] >= robot.q[d]
  <2>1. CASE robot.q[d] <= move.desired[d] BY <2>1, <1>5, TakenDofs
  <2>2. CASE robot.q[d] > move.desired[d]
    <3>1. SUFFICES ASSUME Drives[d] \cap NewMovers # {} PROVE FALSE
      BY <1>5, TakenDofs
    <3>2. PICK m \in Drives[d] : m \in NewMovers BY <3>1
    <3>3. m \in Joint /\ DofOf[m] = d BY <1>5, DofOfJoint
    <3>4. NewVals[d] < robot.q[d] /\ NewVals[d] \in 0..MaxVal /\ robot.q[d] \in 0..MaxVal
      BY <1>0, <1>5, <2>2, NewValsOf
    <3>5. ~Halted(j, NewStopped) BY <1>5, <3>2, <3>3, <3>4, MoverOf DEF NewMovers
    <3>6. <<j, 1>> \in NewStops(late) BY <3>5 DEF Halted, Directions
    <3>7. Direction(NewVals, NewMovers, j) = 1 BY <1>3, <3>6, StopJointsOf DEF NewStops
    <3>8. Sign(NewVals[d] - robot.val[j]) = 1 BY <1>0, <1>1, <3>7, DirectionOf
    <3> QED BY <1>6, <3>4, <3>8, SignOf
  <2>3. robot.q[d] \in 0..MaxVal /\ move.desired[d] \in 0..MaxVal BY <1>0, <1>5, NewValsOf
  <2> QED BY <2>1, <2>2, <2>3
<1>8. robot'.q[d] >= robot.at[k]
  <2>1. robot'.q[d] \in 0..MaxVal /\ robot.q[d] \in 0..MaxVal BY <1>5, TakenDofs
  <2> QED BY <2>1, <1>6, <1>7
<1> QED BY <1>5, <1>8 DEF Taken

(* A step keeps the invariant.                                             *)
LEMMA StepKeeps ==
  ASSUME IHand, Step
  PROVE  IHand'
<1>0. /\ move # None /\ move \in MoveType /\ Heading /\ LastStops(robot, move.stopped)
      /\ Posture(robot) /\ robot \in RobotType /\ contacts \subseteq Link \X Directions
      /\ tran \in Trans /\ place \in Places
  BY DEF IHand, Ranges, MInv, Step
<1>1. PICK i, late : i \in 0..MaxVal /\ Taken(i, late) BY StepTaken
<1>2. Posture(robot') BY StepTaken
<1>3. contacts' \subseteq Link \X Directions
  BY <1>0, <1>1 DEF Taken, Unbroken
<1>4. ASSUME move' # None PROVE move' \in MoveType /\ Heading' /\ LastStops(robot', move'.stopped)
  <2>1. /\ move.itercount < MaxIter
        /\ move' = [move EXCEPT !.stopped = NewStopped \cup NewStops(late), !.itercount = @ + 1]
    BY <1>1, <1>4 DEF Taken
  <2>2. NewStopped \in Stops BY <1>0, NewStoppedOf
  <2>3. NewStops(late) \in Stops
    <3>1. {c[1] : c \in late} \in SUBSET Link BY <1>1 DEF Taken
    <3> QED BY <3>1, StopJointsOf DEF NewStops
  <2>4. NewStopped \cup NewStops(late) \in SUBSET (Joint \X Directions) BY <2>2, <2>3 DEF Stops
  <2>5. move.itercount + 1 \in 0..MaxIter BY <1>0, <2>1, MotionAssumption DEF MoveType
  <2>6. move' \in MoveType BY <1>0, <2>1, <2>4, <2>5 DEF MoveType
  <2>7. /\ move'.stopped = NewStopped \cup NewStops(late)
        /\ move'.desired = move.desired /\ move'.step = move.step
    BY <1>0, <2>1 DEF MoveType
  <2>8. LastStops(robot', move'.stopped) BY <1>0, <1>1, <2>7, TakenLastStops
  <2>9. ASSUME NEW d \in Dof
        PROVE  /\ move.step[d] > 0 => robot'.q[d] <= move.desired[d]
               /\ move.step[d] < 0 => robot'.q[d] >= move.desired[d]
               /\ move.step[d] = 0 => robot'.q[d] = move.desired[d]
    <3>1. /\ robot'.q[d] \in 0..MaxVal /\ robot.q[d] \in 0..MaxVal
          /\ NewVals[d] \in 0..MaxVal /\ move.desired[d] \in 0..MaxVal
          /\ robot.q[d] <= move.desired[d] =>
               robot.q[d] <= robot'.q[d] /\ robot'.q[d] <= NewVals[d] /\ NewVals[d] <= move.desired[d]
          /\ robot.q[d] >= move.desired[d] =>
               robot.q[d] >= robot'.q[d] /\ robot'.q[d] >= NewVals[d] /\ NewVals[d] >= move.desired[d]
      BY <1>0, <1>1, TakenDofs
    <3>2. /\ move.step[d] > 0 => robot.q[d] <= move.desired[d]
          /\ move.step[d] < 0 => robot.q[d] >= move.desired[d]
          /\ move.step[d] = 0 => robot.q[d] = move.desired[d]
      BY <1>0 DEF Heading
    <3> QED BY <3>1, <3>2
  <2>10. Heading' BY <2>7, <2>9 DEF Heading
  <2> QED BY <2>6, <2>8, <2>10
<1>5. tran' \in Trans /\ place' \in Places BY <1>0, <1>1 DEF Taken
<1> QED BY <1>2, <1>3, <1>4, <1>5 DEF IHand, Ranges, MInv, Posture

(* A move starts towards the values desired.                               *)
LEMMA StartKeeps ==
  ASSUME IHand, NEW desired \in Values, NEW steps \in [Dof -> Nat], NEW stopAtContact \in BOOLEAN,
         MoveDOFToContacts(desired, steps, stopAtContact)
  PROVE  IHand'
<1>0. Posture(robot) /\ robot \in RobotType BY DEF IHand, Ranges
<1>1. ASSUME NEW d \in Dof
      PROVE  /\ (IF steps[d] = 0 THEN robot.q[d] ELSE desired[d]) \in 0..MaxVal
             /\ StepSize(d, desired[d], steps[d]) \in Int
             /\ StepSize(d, desired[d], steps[d]) > 0 =>
                  robot.q[d] <= IF steps[d] = 0 THEN robot.q[d] ELSE desired[d]
             /\ StepSize(d, desired[d], steps[d]) < 0 =>
                  robot.q[d] >= IF steps[d] = 0 THEN robot.q[d] ELSE desired[d]
             /\ StepSize(d, desired[d], steps[d]) = 0 =>
                  robot.q[d] = IF steps[d] = 0 THEN robot.q[d] ELSE desired[d]
  <2>1. robot.q[d] \in 0..MaxVal /\ desired[d] \in 0..MaxVal /\ steps[d] \in Nat
    BY <1>0 DEF RobotType, Values
  <2>2. ONE_STEP \in Nat \ {0} BY MotionAssumption
  <2> QED BY <2>1, <2>2 DEF StepSize
<1>2. move' = [desired |-> [d \in Dof |-> IF steps[d] = 0 THEN robot.q[d] ELSE desired[d]],
               step |-> [d \in Dof |-> StepSize(d, desired[d], steps[d])],
               stopAtContact |-> stopAtContact, stopped |-> {}, itercount |-> 0]
  BY DEF MoveDOFToContacts
<1>3. 0 \in 0..MaxIter BY MotionAssumption
<1>4. move' \in MoveType BY <1>1, <1>2, <1>3 DEF MoveType
<1>5. LastStops(robot', move'.stopped) BY <1>2 DEF LastStops
<1>6. UNCHANGED <<robot, tran, contacts, place>> BY DEF MoveDOFToContacts
<1>7. Heading' BY <1>1, <1>2, <1>6 DEF Heading
<1> QED BY <1>4, <1>5, <1>6, <1>7 DEF IHand, Ranges, MInv

(* Setting a posture, as execute() and quickOpen() do, keeps the           *)
(* invariant.                                                              *)
LEMMA SetPostureKeeps ==
  ASSUME IHand, NEW t \in Trans, NEW h, Posture(h), SetPosture(t, h)
  PROVE  IHand'
<1>1. move = None /\ move' = None /\ robot' = h /\ tran' = t /\ place' = place
      /\ contacts' \subseteq contacts
  BY DEF SetPosture, Unbroken
<1> QED BY <1>1 DEF IHand, Ranges, MInv, Posture

(* So does a hand that is saved, tried and restored.                       *)
LEMMA AnalyzeStateKeeps ==
  ASSUME IHand, NEW t \in Trans, NEW v \in Values, AnalyzeState(t, v)
  PROVE  IHand'
<1>1. Posture(robot) BY DEF IHand
<1>2. Posture(Forced(v)) /\ Forced(v) \in RobotType BY <1>1, ForcedPosture DEF Posture
<1>3. Posture(robot') BY <1>1, <1>2, RestoredPosture DEF AnalyzeState
<1>4. /\ move = None /\ UNCHANGED <<tran, place, move>> /\ contacts' \subseteq contacts
  BY DEF AnalyzeState, Unbroken
<1> QED BY <1>3, <1>4 DEF IHand, Ranges, MInv, Posture

(* quickOpen() keeps to the limits of the DOFs.                            *)
LEMMA OpenedType ==
  ASSUME robot \in RobotType, NEW n \in 1..MaxVal + 1
  PROVE  Opened(n) \in Values
<1>1. ASSUME NEW d \in Dof
      PROVE  LET v == robot.q[d] - n * Sign(Velocity[d])
             IN  (IF v < 0 THEN 0 ELSE IF v > MaxVal THEN MaxVal ELSE v) \in 0..MaxVal
  <2>0. MaxVal \in Nat \ {0} /\ Velocity[d] \in Int BY MotionAssumption
  <2>1. robot.q[d] \in 0..MaxVal /\ Sign(Velocity[d]) \in {1, -1, 0} /\ n \in Int
    BY <2>0, SignOf DEF RobotType
  <2>2. robot.q[d] - n * Sign(Velocity[d]) \in Int BY <2>1
  <2> QED BY <2>0, <2>2
<1> QED BY <1>1 DEF Opened, Values

(* Moving the whole hand ends on the way, at a place where nothing collides*)
(* if it starts there.                                                     *)
LEMMA JumpToOf ==
  ASSUME NEW t \in Int, NEW u \in Int, t <= u, NEW e \in JumpTo(t, u)
  PROVE  /\ e.at \in t..u /\ e.found \subseteq Link \X Directions
         /\ e.ok => Free(e.at, robot.val)
         /\ ~e.ok => e.at = t
<1> DEFINE report == [i \in t..u |-> Collisions(i, robot.val, Link)]
           back   == [i \in t..u |-> {k \in t..i - 1 : Resolved(k, robot.val, report[i])}]
<1>1. CASE e \in {[at |-> x[1], found |-> Touching(x[1], robot.val, x[2]), ok |-> TRUE] : x \in Ends(report, back, u)}
  <2>1. PICK x \in Ends(report, back, u) : e = [at |-> x[1], found |-> Touching(x[1], robot.val, x[2]), ok |-> TRUE]
    BY <1>1
  <2>2. u \in DOMAIN back /\ DOMAIN back = t..u OBVIOUS
  <2>3. /\ report[x[1]] = {}
        /\ \/ x[1] = u /\ x[2] = {}
           \/ \E i \in DOMAIN back : x[2] = report[i] /\ x[1] \in back[i]
    <3> HIDE DEF report, back
    <3> QED BY <2>1, <2>2, EndsOf
  <2>4. x[1] \in t..u
    <3>1. ASSUME NEW i \in t..u, x[1] \in back[i] PROVE x[1] \in t..u
      <4>1. x[1] \in t..i - 1 BY <3>1
      <4> QED BY <4>1
    <3> QED BY <2>2, <2>3, <3>1
  <2>5. x[2] \subseteq Link \X Directions
    <3>1. \A i \in t..u : report[i] \subseteq Link \X Directions BY DEF Collisions
    <3> HIDE DEF report, back
    <3> QED BY <2>2, <2>3, <3>1
  <2>6. Free(x[1], robot.val) BY <2>3, <2>4 DEF Free
  <2> QED BY <2>1, <2>4, <2>5, <2>6 DEF Touching
<1>2. CASE e = [at |-> t, found |-> {}, ok |-> FALSE]
  BY <1>2
<1> QED BY <1>1, <1>2 DEF JumpTo

(* An approach in steps ends in a jump from where it began or from a place *)
(* where nothing collides.                                                 *)
LEMMA MoveToOf ==
  ASSUME NEW t \in Int, NEW u \in Int, t <= u, NEW step \in Nat \ {0}, NEW e \in MoveTo(t, u, step)
  PROVE  \E k \in t..u : \E n \in k..u :
            /\ e \in JumpTo(k, n) /\ (~e.ok \/ e.found # {} \/ n = u)
            /\ k = t \/ Free(k, robot.val)
<1> DEFINE Stop(k) == (k - t) % step = 0
           starts  == {k \in t..u - 1 : Stop(k) /\ \A m \in t + 1..k : Stop(m) => Free(m, robot.val)}
           NextStop(k) == IF k + step > u THEN u ELSE k + step
<1>1. PICK k \in starts : e \in JumpTo(k, NextStop(k)) /\ (~e.ok \/ e.found # {} \/ NextStop(k) = u)
  BY DEF MoveTo
<1>2. k \in t..u /\ NextStop(k) \in k..u OBVIOUS
<1>3. k = t \/ k \in t + 1..k BY <1>2
<1>4. k = t \/ Free(k, robot.val) BY <1>3
<1> QED BY <1>1, <1>2, <1>4

(* What an approach does: nothing, where contact prevents it, or a jump.   *)
LEMMA ApproachOf ==
  ASSUME tran \in Int, Trans \subseteq Int, NEW t \in Trans, NEW ks, NEW dist \in Approach,
         NEW oneStep \in BOOLEAN, ApproachToContact(t, ks, dist, oneStep)
  PROVE  /\ move = None /\ t + dist \in Trans
         /\ \/ /\ \E l \in Link : <<l, 1>> \in ks
               /\ tran' = t /\ contacts' = ks
            \/ \E k \in t..t + dist : \E n \in k..t + dist : \E e \in JumpTo(k, n) :
                 /\ tran' = e.at /\ contacts' = e.found
                 /\ ~e.ok \/ e.found # {} \/ n = t + dist
                 /\ k = t \/ Free(k, robot.val)
         /\ UNCHANGED <<robot, place, move>>
<1>1. t \in Int /\ dist \in Nat \ {0} /\ ApproachStep \in Nat \ {0} BY MotionAssumption
<1>2. t + dist \in Int /\ t <= t + dist /\ (IF oneStep THEN dist ELSE ApproachStep) \in Nat \ {0} BY <1>1
<1>3. ASSUME NEW e \in MoveTo(t, t + dist, IF oneStep THEN dist ELSE ApproachStep),
             tran' = e.at, contacts' = e.found
      PROVE  \E k \in t..t + dist : \E n \in k..t + dist : \E x \in JumpTo(k, n) :
                 /\ tran' = x.at /\ contacts' = x.found
                 /\ ~x.ok \/ x.found # {} \/ n = t + dist
                 /\ k = t \/ Free(k, robot.val)
  BY <1>1, <1>2, <1>3, MoveToOf
<1> QED BY <1>3 DEF ApproachToContact

(* Approaches keep the invariant.                                          *)
LEMMA ApproachKeeps ==
  ASSUME IHand, NEW t \in Trans, NEW ks \in SUBSET (Link \X Directions), NEW dist \in Approach,
         NEW oneStep \in BOOLEAN, ApproachToContact(t, ks, dist, oneStep)
  PROVE  IHand'
<1>0. /\ tran \in Trans /\ Trans \subseteq Int /\ tran \in Int /\ t \in Int /\ dist \in Nat \ {0}
      /\ \A a, b \in Trans : a..b \subseteq Trans
  BY MotionAssumption DEF IHand, Ranges
<1>1. /\ move = None /\ t + dist \in Trans
      /\ \/ tran' = t /\ contacts' = ks
         \/ \E k \in t..t + dist : \E n \in k..t + dist : \E e \in JumpTo(k, n) :
                 tran' = e.at /\ contacts' = e.found
      /\ UNCHANGED <<robot, place, move>>
  BY <1>0, ApproachOf
<1>2. ASSUME NEW k \in t..t + dist, NEW n \in k..t + dist, NEW e \in JumpTo(k, n)
      PROVE  e.at \in Trans /\ e.found \in SUBSET (Link \X Directions)
  <2>1. k \in Int /\ n \in Int /\ k <= n BY <1>0
  <2>2. e.at \in k..n /\ e.found \subseteq Link \X Directions BY <2>1, JumpToOf
  <2>3. e.at \in t..t + dist BY <2>2, <1>0
  <2> QED BY <2>2, <2>3, <1>0, <1>1
<1>3. tran' \in Trans /\ contacts' \subseteq Link \X Directions BY <1>1, <1>2
<1> QED BY <1>1, <1>3 DEF IHand, Ranges, MInv

-----------------------------------------------------------------------------
(***************************************************************************)
(* The invariant, and what it says of postures and restores.               *)
(***************************************************************************)
(* autoGrasp() starts a move of the DOFs with a velocity.                  *)
LEMMA AutoGraspStarts ==
  ASSUME robot \in RobotType, NEW speed \in Directions, NEW step \in Steps, NEW stopAtContact \in BOOLEAN,
         AutoGrasp(speed, step, stopAtContact)
  PROVE  \E desired \in Values, steps \in [Dof -> Nat] :
           /\ MoveDOFToContacts(desired, steps, stopAtContact)
           /\ steps = [d \in Dof |-> IF Velocity[d] = 0 THEN 0 ELSE step]
<1> DEFINE desired == [d \in Dof |-> IF speed * Velocity[d] >= 0 THEN MaxVal ELSE 0]
           steps == [d \in Dof |-> IF Velocity[d] = 0 THEN 0 ELSE step]
<1>1. MaxVal \in 0..MaxVal /\ 0 \in 0..MaxVal /\ step \in Nat BY MotionAssumption
<1>2. desired \in Values /\ steps \in [Dof -> Nat] BY <1>1 DEF Values
<1> QED BY <1>2 DEF AutoGrasp

(* A user who drags a joint starts a move of its DOF.                      *)
LEMMA MoveDOFStarts ==
  ASSUME robot \in RobotType, NEW d \in Dof, NEW v \in {0, MaxVal}, NEW step \in Steps, MoveDOF(d, v, step)
  PROVE  \E desired \in Values, steps \in [Dof -> Nat], stopAtContact \in BOOLEAN :
           /\ MoveDOFToContacts(desired, steps, stopAtContact)
           /\ steps = [e \in Dof |-> IF e = d THEN step ELSE 0]
<1> DEFINE desired == [robot.q EXCEPT ![d] = v]
           steps == [e \in Dof |-> IF e = d THEN step ELSE 0]
<1>1. v \in 0..MaxVal /\ step \in Nat BY MotionAssumption
<1>2. desired \in Values /\ steps \in [Dof -> Nat] BY <1>1 DEF Values, RobotType
<1> QED BY <1>2 DEF MoveDOF

(* A hand starts in the posture of all values 0.                           *)
LEMMA HandInitHolds ==
  ASSUME HandInit
  PROVE  IHand
<1>0. MaxVal \in Nat \ {0} /\ 0 \in 0..MaxVal /\ 0 \in Trans BY MotionAssumption
<1> DEFINE z == [j \in Joint |-> 0]
<1>1. robot = [q |-> [d \in Dof |-> 0], val |-> z, broken |-> {}, at |-> z]
  BY DEF HandInit, AllAt
<1>2. robot \in RobotType BY <1>0, <1>1 DEF RobotType
<1>3. \A j \in Joint : robot.val[j] = 0 /\ robot.q[DofOf[j]] = 0
  BY <1>1, DofOfJoint
<1>4. robot.broken = {} BY <1>1
<1> HIDE DEF z
<1>5. \A j \in OfKind("BREAKAWAY") : j \in Joint BY DEF OfKind
<1>6. Behind(robot)
  BY <1>3, <1>4, <1>5, 0 <= 0 DEF Behind
<1>7. Posture(robot) BY <1>2, <1>3, <1>4, <1>6 DEF Posture, Together, LastFollows
<1> QED BY <1>0, <1>2, <1>7 DEF HandInit, IHand, Ranges, MInv

(* Every operation of the hand keeps the invariant.                        *)
LEMMA HandNextKeeps ==
  ASSUME IHand, [HandNext]_handVars
  PROVE  IHand'
<1>0. /\ robot \in RobotType /\ Posture(robot) /\ tran \in Trans /\ contacts \subseteq Link \X Directions
  BY DEF IHand, Ranges
<1>1. CASE UNCHANGED handVars
  BY <1>1 DEF handVars, IHand, Ranges, MInv, Heading
<1>2. CASE NoMovement
  BY <1>2 DEF NoMovement, IHand, Ranges, MInv
<1>3. CASE InterpolationFails
  BY <1>3 DEF InterpolationFails, IHand, Ranges, MInv, Unbroken
<1>4. CASE Step
  BY <1>4, StepKeeps
<1>5. ASSUME NEW speed \in Directions, NEW step \in Steps, NEW stopAtContact \in BOOLEAN,
             AutoGrasp(speed, step, stopAtContact)
      PROVE  IHand'
  BY <1>0, <1>5, AutoGraspStarts, StartKeeps
<1>6. ASSUME NEW d \in Dof, NEW v \in {0, MaxVal}, NEW step \in Steps, MoveDOF(d, v, step)
      PROVE  IHand'
  BY <1>0, <1>6, MoveDOFStarts, StartKeeps
<1>7. ASSUME NEW t \in Trans, NEW v \in 0..MaxVal, Execute(t, [d \in Dof |-> v])
      PROVE  IHand'
  <2>1. [d \in Dof |-> v] \in Values BY DEF Values
  <2>2. Posture(Forced([d \in Dof |-> v])) BY <1>0, <2>1, ForcedPosture
  <2> QED BY <1>7, <2>2, SetPostureKeeps DEF Execute
<1>8. ASSUME NEW t \in Trans, NEW v \in 0..MaxVal, AnalyzeState(t, [d \in Dof |-> v])
      PROVE  IHand'
  <2>1. [d \in Dof |-> v] \in Values BY DEF Values
  <2> QED BY <1>8, <2>1, AnalyzeStateKeeps
<1>9. CASE QuickOpen
  <2>1. PICK n \in 1..MaxVal + 1 : SetPosture(tran, Forced(Opened(n)))
    BY <1>9 DEF QuickOpen
  <2>2. Posture(Forced(Opened(n))) BY <1>0, OpenedType, ForcedPosture
  <2> QED BY <1>0, <2>1, <2>2, SetPostureKeeps
<1>10. CASE FindAllContacts
  BY <1>10 DEF FindAllContacts, IHand, Ranges, MInv, Touching
<1>11. ASSUME NEW dist \in Approach, NEW oneStep \in BOOLEAN, ApproachToContact(tran, contacts, dist, oneStep)
       PROVE  IHand'
  BY <1>0, <1>11, ApproachKeeps
<1>12. ASSUME NEW dist \in Approach, FindInitialContact(dist)
       PROVE  IHand'
  <2>1. PICK t \in Retreated(dist) :
          ApproachToContact(t, IF t = tran THEN contacts ELSE {}, dist, FALSE)
    BY <1>12 DEF FindInitialContact
  <2>2. t \in Trans BY DEF Retreated
  <2>3. (IF t = tran THEN contacts ELSE {}) \in SUBSET (Link \X Directions) /\ FALSE \in BOOLEAN BY <1>0
  <2> QED BY <2>1, <2>2, <2>3, ApproachKeeps
<1>13. ASSUME NEW p \in Places, PlaceObstacles(p)
       PROVE  IHand'
  BY <1>13 DEF PlaceObstacles, IHand, Ranges, MInv
<1> QED BY <1>1, <1>2, <1>3, <1>4, <1>5, <1>6, <1>7, <1>8, <1>9, <1>10, <1>11, <1>12, <1>13 DEF HandNext

(* The invariant holds always.                                             *)
LEMMA HandInvariant == HandSpec => []IHand
<1>1. HandInit => IHand BY HandInitHolds
<1>2. IHand /\ [HandNext]_handVars => IHand' BY HandNextKeeps
<1> QED BY <1>1, <1>2, PTL DEF HandSpec

(* It implies what the run checks of postures.                             *)
LEMMA IHandSafe ==
  ASSUME IHand
  PROVE  HandTypeOK /\ RigidTogether /\ SomeJointEngaged
<1>1. robot \in RobotType /\ Posture(robot) BY DEF IHand, Ranges
<1>2. HandTypeOK BY <1>1 DEF IHand, Ranges, HandTypeOK, RobotType, MoveType
<1>3. RigidTogether BY <1>1 DEF RigidTogether, Posture, Together, Follows, OfKind
<1>4. SomeJointEngaged
  <2> SUFFICES ASSUME NEW d \in Dof, Kind[d] = "BREAKAWAY" PROVE ~(Drives[d] \subseteq robot.broken)
    BY DEF SomeJointEngaged
  <2>1. PICK j \in Drives[d] : IsLast(j) BY LastJoint
  <2>2. j \in Joint BY DofOfJoint
  <2> QED BY <1>1, <2>1, <2>2, PostureOf
<1> QED BY <1>2, <1>3, <1>4

(* DOFs and joints keep their ranges, the joints of a rigid DOF stay       *)
(* together, and a DOF with breakaway has a joint that tells its value     *)
(* (the assert of BreakAwayDOF::updateFromJointValues()), for every hand   *)
(* and every geometry.                                                     *)
THEOREM HandPostures == HandSpec => [](HandTypeOK /\ RigidTogether /\ SomeJointEngaged)
<1>1. IHand => HandTypeOK /\ RigidTogether /\ SomeJointEngaged BY IHandSafe
<1> QED BY <1>1, HandInvariant, PTL

(* saveState(), anything analyzeState() tries, and restoreState() return   *)
(* every joint of a rigid DOF, and of a DOF with breakaway all but the     *)
(* strays.                                                                 *)
THEOREM RestoreReturns == HandSpec => RestoreRestores
<1> DEFINE A == (\E t \in Trans, v \in 0..MaxVal : AnalyzeState(t, [d \in Dof |-> v])) =>
                  \A j \in Joint \ OfKind("COMPLIANT") : robot'.val[j] = robot.val[j] \/ Strays(j)
<1>1. ASSUME IHand, [HandNext]_handVars PROVE [A]_handVars
  <2> SUFFICES ASSUME NEW t \in Trans, NEW v \in 0..MaxVal, AnalyzeState(t, [d \in Dof |-> v]),
                      NEW j \in Joint \ OfKind("COMPLIANT"), ~Strays(j)
               PROVE  robot'.val[j] = robot.val[j]
    OBVIOUS
  <2>1. Posture(robot) BY <1>1 DEF IHand
  <2> DEFINE tried == Forced([d \in Dof |-> v])
  <2>2. [d \in Dof |-> v] \in Values BY DEF Values
  <2>3. tried \in RobotType BY <2>1, <2>2, ForcedPosture DEF Posture
  <2>4. robot' = Restored(tried, [q |-> robot.q, broken |-> robot.broken, at |-> robot.at])
    BY DEF AnalyzeState
  <2> HIDE DEF tried
  <2> DEFINE read == [tried EXCEPT !.q = robot.q, !.broken = robot.broken, !.at = robot.at]
  <2>5. robot' = [read EXCEPT !.val = JointValues(read)] BY <2>4 DEF Restored
  <2>6. /\ read \in RobotType /\ read.q = robot.q /\ read.broken = robot.broken /\ read.at = robot.at
    BY <2>1, <2>3 DEF RobotType, Posture
  <2>7. robot'.val = JointValues(read) BY <2>5, <2>6 DEF RobotType
  <2>8. robot'.val[j] = IF j \in robot.broken /\ robot.q[DofOf[j]] > robot.at[j] THEN robot.at[j] ELSE robot.q[DofOf[j]]
    BY <2>6, <2>7 DEF JointValues, InBreakAway
  <2>9. /\ robot.val[j] \in 0..MaxVal /\ robot.at[j] \in 0..MaxVal /\ robot.q[DofOf[j]] \in 0..MaxVal
        /\ Follows(j) => robot.val[j] = robot.q[DofOf[j]]
        /\ j \in robot.broken => /\ Kind[DofOf[j]] = "BREAKAWAY"
                                 /\ robot.val[j] <= robot.at[j] /\ robot.at[j] <= robot.q[DofOf[j]]
        /\ Kind[DofOf[j]] = "BREAKAWAY" => robot.val[j] <= robot.q[DofOf[j]]
    BY <2>1, PostureOf
  <2>10. CASE Kind[DofOf[j]] = "RIGID"
    BY <2>8, <2>9, <2>10, KindOfJoint DEF Follows
  <2>11. CASE Kind[DofOf[j]] = "BREAKAWAY"
    <3>1. ~(robot.val[j] < (IF j \in robot.broken THEN robot.at[j] ELSE robot.q[DofOf[j]]))
      BY <2>11, KindOfJoint DEF Strays
    <3> QED BY <2>8, <2>9, <2>11, <3>1
  <2> QED BY <2>10, <2>11, KindOfJoint
<1> QED BY <1>1, HandInvariant, PTL DEF HandSpec, RestoreRestores

-----------------------------------------------------------------------------
(***************************************************************************)
(* Moves end by themselves.                                                *)
(***************************************************************************)
(* The budget of a move is a number.                                       *)
LEMMA Finite ==
  /\ IsFiniteSet(Ahead) /\ Cardinality(Ahead) \in Nat /\ Cardinality(Ahead) <= Cardinality(Dof \X (1..MaxVal))
  /\ IsFiniteSet(Room) /\ Cardinality(Room) \in Nat /\ Cardinality(Room) <= Cardinality(Joint \X Directions)
  /\ Budget = Cardinality(Dof) * MaxVal + 2 * Cardinality(Joint) /\ Budget \in Nat
<1>0. MaxVal \in Nat \ {0} /\ IsFiniteSet(Dof) /\ IsFiniteSet(Joint) BY MotionAssumption, DofAssumption
<1>1. IsFiniteSet(1..MaxVal) /\ Cardinality(1..MaxVal) = MaxVal
  BY <1>0, FS_Interval
<1>2. IsFiniteSet(Dof \X (1..MaxVal)) /\ Cardinality(Dof \X (1..MaxVal)) = Cardinality(Dof) * MaxVal
  BY <1>0, <1>1, FS_Product
<1>3. IsFiniteSet(Directions) /\ Cardinality(Directions) = 2
  <2>1. IsFiniteSet({1}) /\ Cardinality({1}) = 1 BY FS_Singleton
  <2>2. IsFiniteSet({1} \cup {-1}) /\ Cardinality({1} \cup {-1}) = 2
    BY <2>1, FS_AddElement
  <2>3. Directions = {1} \cup {-1} BY DEF Directions
  <2> QED BY <2>2, <2>3
<1>4. IsFiniteSet(Joint \X Directions) /\ Cardinality(Joint \X Directions) = Cardinality(Joint) * 2
  BY <1>0, <1>3, FS_Product
<1>5. Cardinality(Dof) \in Nat /\ Cardinality(Joint) \in Nat BY <1>0, FS_CardinalityType
<1>6. Ahead \subseteq Dof \X (1..MaxVal) /\ Room \subseteq Joint \X Directions BY DEF Ahead, Room
<1>7. /\ IsFiniteSet(Ahead) /\ Cardinality(Ahead) <= Cardinality(Dof \X (1..MaxVal))
      /\ IsFiniteSet(Room) /\ Cardinality(Room) <= Cardinality(Joint \X Directions)
  BY <1>2, <1>4, <1>6, FS_Subset
<1>8. Cardinality(Ahead) \in Nat /\ Cardinality(Room) \in Nat BY <1>7, FS_CardinalityType
<1>9. Budget = Cardinality(Dof) * MaxVal + 2 * Cardinality(Joint) BY <1>2, <1>4, <1>5 DEF Budget
<1>10. Cardinality(Dof) * MaxVal \in Nat BY <1>0, <1>5
<1> QED BY <1>5, <1>7, <1>8, <1>9, <1>10

(* A set that lost an element has fewer.                                   *)
LEMMA Fewer ==
  ASSUME NEW S, IsFiniteSet(S), NEW T \in SUBSET S
  PROVE  /\ Cardinality(T) \in Nat /\ Cardinality(S) \in Nat /\ Cardinality(T) <= Cardinality(S)
         /\ T # S => Cardinality(T) + 1 <= Cardinality(S)
<1>1. IsFiniteSet(T) /\ Cardinality(T) <= Cardinality(S) /\ (Cardinality(S) = Cardinality(T) => S = T)
  BY FS_Subset
<1>2. Cardinality(T) \in Nat /\ Cardinality(S) \in Nat BY <1>1, FS_CardinalityType
<1> QED BY <1>1, <1>2

(* Every step of a move spends a value of a DOF or a stop of a joint.      *)
LEMMA StepSpends ==
  ASSUME IHand, Step, move' # None
  PROVE  /\ Ahead' \subseteq Ahead /\ Room' \subseteq Room
         /\ Ahead' # Ahead \/ Room' # Room
<1>0. /\ move # None /\ move \in MoveType /\ Heading /\ LastStops(robot, move.stopped)
      /\ Posture(robot) /\ robot \in RobotType
  BY DEF IHand, Ranges, MInv, Step
<1>1. PICK i, late : i \in 0..MaxVal /\ Taken(i, late) BY StepTaken
<1>2. /\ move'.stopped = NewStopped \cup NewStops(late) /\ move'.desired = move.desired
  BY <1>0, <1>1 DEF Taken, MoveType
<1>3. NewVals \in Values /\ NewStopped \in Stops /\ move.stopped \subseteq NewStopped
  BY <1>0, NewValsOf, NewStoppedOf
<1>4. Room' \subseteq Room BY <1>2, <1>3 DEF Room
<1>5. ASSUME NEW x \in Ahead' PROVE x \in Ahead
  <2>1. x[1] \in Dof /\ x[2] \in 1..MaxVal /\ x \in Dof \X (1..MaxVal)
        /\ \/ robot'.q[x[1]] < x[2] /\ x[2] <= move.desired[x[1]]
           \/ move.desired[x[1]] < x[2] /\ x[2] <= robot'.q[x[1]]
    BY <1>2, <1>5 DEF Ahead
  <2> DEFINE d == x[1]
  <2>2. /\ robot'.q[d] \in 0..MaxVal /\ robot.q[d] \in 0..MaxVal
        /\ NewVals[d] \in 0..MaxVal /\ move.desired[d] \in 0..MaxVal
        /\ robot.q[d] <= move.desired[d] => robot.q[d] <= robot'.q[d] /\ robot'.q[d] <= move.desired[d]
        /\ robot.q[d] >= move.desired[d] => robot.q[d] >= robot'.q[d] /\ robot'.q[d] >= move.desired[d]
    <3>1. /\ robot'.q[d] \in 0..MaxVal /\ robot.q[d] \in 0..MaxVal
          /\ NewVals[d] \in 0..MaxVal /\ move.desired[d] \in 0..MaxVal
          /\ robot.q[d] <= move.desired[d] =>
               robot.q[d] <= robot'.q[d] /\ robot'.q[d] <= NewVals[d] /\ NewVals[d] <= move.desired[d]
          /\ robot.q[d] >= move.desired[d] =>
               robot.q[d] >= robot'.q[d] /\ robot'.q[d] >= NewVals[d] /\ NewVals[d] >= move.desired[d]
      BY <1>0, <1>1, <2>1, TakenDofs
    <3> QED BY <3>1
  <2>3. \/ robot.q[d] < x[2] /\ x[2] <= move.desired[d]
        \/ move.desired[d] < x[2] /\ x[2] <= robot.q[d]
    BY <2>1, <2>2
  <2> QED BY <2>1, <2>3 DEF Ahead
<1>6. CASE late # {}
  <2>1. PICK c \in late : TRUE BY <1>6
  <2>2. PICK j \in Upto[c[1]] : Direction(NewVals, NewMovers, j) # 0 BY <1>1, <2>1 DEF Taken
  <2>3. {x[1] : x \in late} \in SUBSET Link BY <1>1 DEF Taken
  <2> DEFINE dir == Direction(NewVals, NewMovers, j)
  <2>4. j \in NewMovers BY <2>2 DEF Direction
  <2>5. j \in Joint /\ <<j, dir>> \notin NewStopped
    BY <1>0, <1>3, <2>4, MoverNotStopped DEF NewMovers
  <2>6. dir \in Directions BY <1>0, <1>3, <2>2, <2>5, DirectionOf DEF Directions
  <2>7. <<j, dir>> \in NewStops(late)
    BY <2>1, <2>2, <2>3, <2>6, StopJointsOf DEF NewStops
  <2>8. <<j, dir>> \in Room BY <1>3, <2>5, <2>6 DEF Room
  <2>9. <<j, dir>> \notin Room' BY <1>2, <2>7 DEF Room
  <2> QED BY <1>4, <1>5, <2>8, <2>9
<1>7. CASE late = {}
  <2>1. i = MaxVal BY <1>1, <1>7 DEF Taken
  <2>2. PICK j \in NewMovers : TRUE BY <1>1 DEF Taken
  <2>3. j \in Joint BY MoversAreJoints DEF NewMovers
  <2> DEFINE d == DofOf[j]
  <2>4. d \in Dof /\ j \in Drives[d] BY <2>3, DofOfJoint
  <2>5. NewVals[d] # robot.q[d] BY <2>2, <2>3, MoverOf DEF NewMovers
  <2>6. robot'.q[d] = NewVals[d] BY <1>0, <1>1, <2>1, <2>2, <2>4, TakenDofs
  <2>7. /\ robot.q[d] \in 0..MaxVal /\ move.desired[d] \in 0..MaxVal /\ NewVals[d] \in 0..MaxVal
        /\ NewVals[d] = robot.q[d] <=> robot.q[d] = move.desired[d]
        /\ robot.q[d] < move.desired[d] => robot.q[d] < NewVals[d] /\ NewVals[d] <= move.desired[d]
        /\ robot.q[d] > move.desired[d] => robot.q[d] > NewVals[d] /\ NewVals[d] >= move.desired[d]
    BY <1>0, <2>4, NewValsOf
  <2>8. CASE robot.q[d] < move.desired[d]
    <3>1. NewVals[d] \in 1..MaxVal BY <2>7, <2>8
    <3>2. <<d, NewVals[d]>> \in Ahead BY <2>4, <2>7, <2>8, <3>1 DEF Ahead
    <3>3. <<d, NewVals[d]>> \notin Ahead' BY <1>2, <2>6, <2>7, <2>8 DEF Ahead
    <3> QED BY <1>4, <1>5, <3>2, <3>3
  <2>9. CASE robot.q[d] > move.desired[d]
    <3>1. robot.q[d] \in 1..MaxVal BY <2>7, <2>9
    <3>2. <<d, robot.q[d]>> \in Ahead BY <2>4, <2>7, <2>9, <3>1 DEF Ahead
    <3>3. <<d, robot.q[d]>> \notin Ahead' BY <1>2, <2>6, <2>7, <2>9 DEF Ahead
    <3> QED BY <1>4, <1>5, <3>2, <3>3
  <2> QED BY <2>5, <2>7, <2>8, <2>9
<1> QED BY <1>4, <1>5, <1>6, <1>7

(* What a move that starts or goes on has to do with the one before.       *)
LEMMA MoveStarts ==
  ASSUME IHand, [HandNext]_handVars, move' # None
  PROVE  \/ UNCHANGED handVars
         \/ Step
         \/ /\ move = None /\ robot' = robot /\ contacts' = contacts
            /\ move'.stopped = {} /\ move'.itercount = 0
            /\ \E steps \in [Dof -> Nat] :
                 /\ \A d \in Dof : steps[d] = 0 => move'.desired[d] = robot.q[d]
                 /\ \/ \E step \in Steps : steps = [d \in Dof |-> IF Velocity[d] = 0 THEN 0 ELSE step]
                    \/ \E d \in Dof, step \in Steps : steps = [e \in Dof |-> IF e = d THEN step ELSE 0]
<1>0. robot \in RobotType BY DEF IHand, Ranges
<1>1. ASSUME NEW desired \in Values, NEW steps \in [Dof -> Nat], NEW stopAtContact \in BOOLEAN,
             MoveDOFToContacts(desired, steps, stopAtContact)
      PROVE  /\ move = None /\ robot' = robot /\ contacts' = contacts
             /\ move'.stopped = {} /\ move'.itercount = 0
             /\ \A d \in Dof : steps[d] = 0 => move'.desired[d] = robot.q[d]
  BY <1>1 DEF MoveDOFToContacts
<1>2. ASSUME NEW speed \in Directions, NEW step \in Steps, NEW stopAtContact \in BOOLEAN,
             AutoGrasp(speed, step, stopAtContact)
      PROVE  \E desired \in Values, steps \in [Dof -> Nat] :
               /\ MoveDOFToContacts(desired, steps, stopAtContact)
               /\ steps = [d \in Dof |-> IF Velocity[d] = 0 THEN 0 ELSE step]
  BY <1>0, <1>2, AutoGraspStarts
<1>3. ASSUME NEW d \in Dof, NEW v \in {0, MaxVal}, NEW step \in Steps, MoveDOF(d, v, step)
      PROVE  \E desired \in Values, steps \in [Dof -> Nat], stopAtContact \in BOOLEAN :
               /\ MoveDOFToContacts(desired, steps, stopAtContact)
               /\ steps = [e \in Dof |-> IF e = d THEN step ELSE 0]
  BY <1>0, <1>3, MoveDOFStarts
<1>5. (\E t \in Trans, v \in 0..MaxVal : Execute(t, [d \in Dof |-> v]) \/ AnalyzeState(t, [d \in Dof |-> v]))
        => move' = None
  BY DEF Execute, SetPosture, AnalyzeState
<1>6. QuickOpen \/ FindAllContacts => move' = None
  BY DEF QuickOpen, SetPosture, FindAllContacts
<1>7. ASSUME NEW t, NEW ks, NEW dist, NEW oneStep, ApproachToContact(t, ks, dist, oneStep) PROVE move' = None
  BY <1>7 DEF ApproachToContact
<1>8. (\E dist \in Approach : FindInitialContact(dist)) => move' = None
  BY <1>7 DEF FindInitialContact
<1>9. NoMovement \/ InterpolationFails \/ (\E p \in Places : PlaceObstacles(p)) => move' = None
  BY DEF NoMovement, InterpolationFails, PlaceObstacles
<1>10. CASE \E speed \in Directions, step \in Steps, stopAtContact \in BOOLEAN : AutoGrasp(speed, step, stopAtContact)
  BY <1>1, <1>2, <1>10
<1>11. CASE \E d \in Dof, v \in {0, MaxVal}, step \in Steps : MoveDOF(d, v, step)
  BY <1>1, <1>3, <1>11
<1>12. (\E dist \in Approach, oneStep \in BOOLEAN : ApproachToContact(tran, contacts, dist, oneStep))
         => move' = None
  BY <1>7
<1>13. CASE HandNext
  BY <1>5, <1>6, <1>8, <1>9, <1>10, <1>11, <1>12, <1>13 DEF HandNext
<1> QED BY <1>13

(* A move keeps to its budget.                                             *)
LEMMA SpentKept ==
  ASSUME IHand, Spent, [HandNext]_handVars
  PROVE  Spent'
<1> SUFFICES ASSUME move' # None PROVE InBudget'
  BY DEF Spent
<1>1. CASE UNCHANGED handVars
  BY <1>1 DEF handVars, Spent, InBudget, Ahead, Room
<1>2. CASE Step
  <2>1. move # None BY <1>2 DEF Step
  <2>2. move'.itercount = move.itercount + 1 /\ move.itercount \in Nat
    <3>1. PICK i, late : i \in 0..MaxVal /\ Taken(i, late) BY <1>2, StepTaken
    <3>2. move \in MoveType BY <2>1 DEF IHand, Ranges
    <3>3. move.itercount \in Nat BY <3>2, MotionAssumption DEF MoveType
    <3> QED BY <3>1, <3>2, <3>3 DEF Taken, MoveType
  <2>3. /\ Ahead' \subseteq Ahead /\ Room' \subseteq Room
        /\ Ahead' # Ahead \/ Room' # Room
    BY <1>2, StepSpends
  <2>4. IsFiniteSet(Ahead) /\ IsFiniteSet(Room) /\ Budget \in Nat BY Finite
  <2>5. /\ Cardinality(Ahead') \in Nat /\ Cardinality(Ahead) \in Nat
        /\ Cardinality(Room') \in Nat /\ Cardinality(Room) \in Nat
        /\ Cardinality(Ahead') <= Cardinality(Ahead) /\ Cardinality(Room') <= Cardinality(Room)
        /\ Cardinality(Ahead') + 1 <= Cardinality(Ahead) \/ Cardinality(Room') + 1 <= Cardinality(Room)
    <3>1. Ahead' \in SUBSET Ahead /\ Room' \in SUBSET Room BY <2>3
    <3> QED BY <3>1, <2>3, <2>4, Fewer
  <2>6. move.itercount + Cardinality(Ahead) + Cardinality(Room) <= Budget BY <2>1 DEF Spent, InBudget
  <2>7. move'.itercount + Cardinality(Ahead') + Cardinality(Room') <= Budget
    BY <2>2, <2>4, <2>5, <2>6
  <2>8. Budget' = Budget BY DEF Budget
  <2> QED BY <2>7, <2>8 DEF InBudget
<1>3. CASE move'.itercount = 0
  <2>1. (Ahead \in SUBSET (Dof \X (1..MaxVal)))' /\ (Room \in SUBSET (Joint \X Directions))' BY DEF Ahead, Room
  <2>2. IsFiniteSet(Dof \X (1..MaxVal)) /\ IsFiniteSet(Joint \X Directions)
    <3>1. IsFiniteSet(Dof) /\ IsFiniteSet(Joint) /\ MaxVal \in Int BY DofAssumption, MotionAssumption
    <3>2. IsFiniteSet(1..MaxVal) BY <3>1, FS_Interval
    <3>3. IsFiniteSet({1}) BY FS_Singleton
    <3>4. IsFiniteSet({1} \cup {-1}) BY <3>3, FS_AddElement
    <3>5. Directions = {1} \cup {-1} BY DEF Directions
    <3> QED BY <3>1, <3>2, <3>4, <3>5, FS_Product
  <2>3. /\ Cardinality(Ahead') \in Nat /\ Cardinality(Dof \X (1..MaxVal)) \in Nat
        /\ Cardinality(Ahead') <= Cardinality(Dof \X (1..MaxVal))
        /\ Cardinality(Room') \in Nat /\ Cardinality(Joint \X Directions) \in Nat
        /\ Cardinality(Room') <= Cardinality(Joint \X Directions)
    BY <2>1, <2>2, Fewer
  <2> QED BY <1>3, <2>3 DEF InBudget, Budget
<1> QED BY <1>1, <1>2, <1>3, MoveStarts

(* The loop of moveDOFToContacts() never runs into a failsafe that is far  *)
(* enough: every step before ends a way or stops a joint.                  *)
THEOREM HandConsistency ==
  ASSUME FailsafeIsFar
  PROVE  HandSpec => []HandConsistent
<1>1. HandInit => Spent BY DEF HandInit, Spent
<1>2. IHand /\ Spent /\ [HandNext]_handVars => Spent' BY SpentKept
<1>3. ASSUME IHand, Spent PROVE HandConsistent
  <2>1. HandTypeOK /\ RigidTogether /\ SomeJointEngaged BY <1>3, IHandSafe
  <2>2. FailsafeUnused
    <3> SUFFICES ASSUME move # None PROVE move.itercount < MaxIter
      BY DEF FailsafeUnused
    <3>1. move.itercount \in Int /\ MaxIter \in Int
      BY <1>3, MotionAssumption DEF IHand, Ranges, MoveType
    <3>2. move.itercount + Cardinality(Ahead) + Cardinality(Room) <= Budget
      BY <1>3 DEF Spent, InBudget
    <3>3. Budget < MaxIter
      <4>1. Budget = Cardinality(Dof) * MaxVal + 2 * Cardinality(Joint) /\ Budget \in Nat BY Finite
      <4> DEFINE n == Cardinality(Dof) * MaxVal + 2 * Cardinality(Joint)
      <4>2. MaxIter > n BY FailsafeIsFar DEF FailsafeIsFar
      <4> HIDE DEF n
      <4>3. Budget = n BY <4>1 DEF n
      <4> QED BY <4>1, <4>2, <4>3, <3>1
    <3> QED BY <3>1, <3>2, <3>3, Finite
  <2> QED BY <2>1, <2>2 DEF HandConsistent
<1> QED BY <1>1, <1>2, <1>3, HandInvariant, PTL DEF HandSpec

-----------------------------------------------------------------------------
(***************************************************************************)
(* Joints that will not go anywhere in the rest of a move.                 *)
(***************************************************************************)
(* A posture on the way of a step.                                         *)
Reached(h, movers) ==
  /\ h \in RobotType /\ Together(h)
  /\ \A d \in Dof :
       /\ robot.q[d] <= move.desired[d] => robot.q[d] <= h.q[d] /\ h.q[d] <= NewVals[d]
       /\ robot.q[d] >= move.desired[d] => robot.q[d] >= h.q[d] /\ h.q[d] >= NewVals[d]
       /\ Drives[d] \cap movers = {} => h.q[d] = robot.q[d]
  /\ \A j \in Joint : j \notin movers => h.val[j] = robot.val[j]
  /\ \A j \in robot.broken : robot.q[DofOf[j]] <= h.q[DofOf[j]] => j \in h.broken

(* A compliant DOF that drives one joint takes it along.                   *)
LEMMA CompliantFollows ==
  ASSUME OneJointEach, NEW j \in Joint, Kind[DofOf[j]] = "COMPLIANT"
  PROVE  Follows(j) /\ Drives[DofOf[j]] = {j}
<1>1. DofOf[j] \in Dof /\ j \in Drives[DofOf[j]] BY DofOfJoint
<1>2. Drives[DofOf[j]] = {j} BY <1>1 DEF OneJointEach
<1> QED BY <1>2, KindOfJoint DEF Follows

(* What is known of a joint in a step, by numbers.                         *)
LEMMA StepNumbers ==
  ASSUME IHand, move # None, NEW stopped, NEW h, Reached(h, Movers(robot, NewVals, stopped)), NEW i \in Joint
  PROVE  LET d == DofOf[i]
         IN  /\ d \in Dof /\ i \in Drives[d]
             /\ robot.q[d] \in 0..MaxVal /\ h.q[d] \in 0..MaxVal /\ NewVals[d] \in 0..MaxVal /\ move.desired[d] \in 0..MaxVal
             /\ robot.val[i] \in 0..MaxVal /\ h.val[i] \in 0..MaxVal
             /\ NewVals[d] = robot.q[d] <=> robot.q[d] = move.desired[d]
             /\ robot.q[d] < move.desired[d] =>
                  robot.q[d] < NewVals[d] /\ NewVals[d] <= move.desired[d] /\ robot.q[d] <= h.q[d] /\ h.q[d] <= NewVals[d]
             /\ robot.q[d] > move.desired[d] =>
                  robot.q[d] > NewVals[d] /\ NewVals[d] >= move.desired[d] /\ robot.q[d] >= h.q[d] /\ h.q[d] >= NewVals[d]
             /\ robot.q[d] = move.desired[d] => h.q[d] = robot.q[d]
             /\ Follows(i) => robot.val[i] = robot.q[d] /\ h.val[i] = h.q[d]
             /\ Kind[d] = "BREAKAWAY" => robot.val[i] <= robot.q[d]
<1>0. robot \in RobotType /\ move \in MoveType /\ Heading /\ Posture(robot) BY DEF IHand, Ranges, MInv
<1> DEFINE d == DofOf[i]
<1>1. d \in Dof /\ i \in Drives[d] BY DofOfJoint
<1>2. h \in RobotType /\ Together(h) BY DEF Reached
<1>3. h.q[d] \in 0..MaxVal /\ h.val[i] \in 0..MaxVal /\ robot.val[i] \in 0..MaxVal
  BY <1>0, <1>1, <1>2 DEF RobotType
<1>4. /\ robot.q[d] <= move.desired[d] => robot.q[d] <= h.q[d] /\ h.q[d] <= NewVals[d]
      /\ robot.q[d] >= move.desired[d] => robot.q[d] >= h.q[d] /\ h.q[d] >= NewVals[d]
  BY <1>1 DEF Reached
<1>5. /\ robot.q[d] \in 0..MaxVal /\ move.desired[d] \in 0..MaxVal /\ NewVals[d] \in 0..MaxVal
      /\ NewVals[d] = robot.q[d] <=> robot.q[d] = move.desired[d]
      /\ robot.q[d] < move.desired[d] => robot.q[d] < NewVals[d] /\ NewVals[d] <= move.desired[d]
      /\ robot.q[d] > move.desired[d] => robot.q[d] > NewVals[d] /\ NewVals[d] >= move.desired[d]
  BY <1>0, <1>1, NewValsOf
<1>6. /\ Follows(i) => robot.val[i] = robot.q[d] /\ h.val[i] = h.q[d]
      /\ Kind[d] = "BREAKAWAY" => robot.val[i] <= robot.q[d]
  BY <1>0, <1>2, PostureOf DEF Together
<1>7. robot.q[d] = move.desired[d] => h.q[d] = robot.q[d]
  BY <1>3, <1>4, <1>5
<1> HIDE DEF d
<1>8. /\ robot.q[d] < move.desired[d] => robot.q[d] <= h.q[d] /\ h.q[d] <= NewVals[d]
      /\ robot.q[d] > move.desired[d] => robot.q[d] >= h.q[d] /\ h.q[d] >= NewVals[d]
  BY <1>4, <1>5
<1> QED BY <1>1, <1>3, <1>5, <1>6, <1>7, <1>8 DEF d

(* A joint that will not go anywhere does not, and stays like that.        *)
LEMMA StuckStays ==
  ASSUME OneJointEach, IHand, move # None, NEW stopped \in Stops, NEW all, stopped \subseteq all,
         NEW h, Reached(h, Movers(robot, NewVals, stopped)),
         NEW i \in Joint, Stuck(robot, i, stopped)
  PROVE  i \notin Movers(robot, NewVals, stopped) /\ Stuck(h, i, all)
<1> DEFINE d == DofOf[i]
           movers == Movers(robot, NewVals, stopped)
<1>1. /\ d \in Dof /\ i \in Drives[d]
      /\ robot.q[d] \in 0..MaxVal /\ h.q[d] \in 0..MaxVal /\ NewVals[d] \in 0..MaxVal /\ move.desired[d] \in 0..MaxVal
      /\ robot.val[i] \in 0..MaxVal /\ h.val[i] \in 0..MaxVal
      /\ NewVals[d] = robot.q[d] <=> robot.q[d] = move.desired[d]
      /\ robot.q[d] < move.desired[d] =>
           robot.q[d] < NewVals[d] /\ NewVals[d] <= move.desired[d] /\ robot.q[d] <= h.q[d] /\ h.q[d] <= NewVals[d]
      /\ robot.q[d] > move.desired[d] =>
           robot.q[d] > NewVals[d] /\ NewVals[d] >= move.desired[d] /\ robot.q[d] >= h.q[d] /\ h.q[d] >= NewVals[d]
      /\ robot.q[d] = move.desired[d] => h.q[d] = robot.q[d]
      /\ Follows(i) => robot.val[i] = robot.q[d] /\ h.val[i] = h.q[d]
      /\ Kind[d] = "BREAKAWAY" => robot.val[i] <= robot.q[d]
  BY StepNumbers
<1>2. \A k \in Drives[d] : k \in Joint /\ DofOf[k] = d BY <1>1, DofOfJoint
<1>3. \A k : Halted(k, stopped) => Halted(k, all) BY DEF Halted
<1>4. Drives[d] \cap movers = {} => h.q[d] = robot.q[d] BY <1>1 DEF Reached
<1> HIDE DEF movers
<1>5. CASE robot.q[d] = move.desired[d]
  <2>1. i \notin movers BY <1>1, <1>5, MoverOf DEF movers
  <2>2. h.q[d] = move.desired[d] BY <1>1, <1>5
  <2> QED BY <2>1, <2>2 DEF Stuck, movers
<1>6. CASE Kind[d] = "RIGID" /\ \E k \in Drives[d] : Halted(k, stopped)
  <2>1. i \notin movers BY <1>6, MoverOf DEF movers
  <2> QED BY <1>3, <1>6, <2>1 DEF Stuck, movers
<1>7. CASE robot.q[d] # move.desired[d] /\ Kind[d] = "COMPLIANT"
           /\ <<i, Sign(move.desired[d] - robot.val[i])>> \in stopped
  <2>1. Follows(i) /\ Drives[d] = {i} BY <1>7, CompliantFollows
  <2>2. Sign(move.desired[d] - robot.val[i]) = Sign(NewVals[d] - robot.val[i])
    <3>1. robot.val[i] = robot.q[d] BY <1>1, <2>1
    <3>2. CASE robot.q[d] < move.desired[d]
      <4>1. NewVals[d] - robot.q[d] > 0 /\ move.desired[d] - robot.q[d] > 0 BY <1>1, <3>2
      <4> QED BY <3>1, <4>1 DEF Sign
    <3>3. CASE robot.q[d] > move.desired[d]
      <4>1. /\ NewVals[d] - robot.q[d] < 0 /\ move.desired[d] - robot.q[d] < 0
            /\ ~(NewVals[d] - robot.q[d] > 0) /\ ~(move.desired[d] - robot.q[d] > 0)
        BY <1>1, <3>3
      <4> QED BY <3>1, <4>1 DEF Sign
    <3> QED BY <1>1, <1>7, <3>2, <3>3
  <2>3. Held(robot, i, NewVals[d], stopped) BY <1>7, <2>2 DEF Held
  <2>4. i \notin movers BY <1>7, <2>3, MoverOf DEF movers
  <2>5. h.val[i] = robot.val[i] BY <2>4 DEF Reached, movers
  <2> QED BY <1>7, <2>4, <2>5 DEF Stuck, movers
<1>8. CASE robot.q[d] # move.desired[d] /\ Kind[d] = "BREAKAWAY" /\ move.desired[d] < robot.q[d]
           /\ \E k \in Drives[d] : Halted(k, stopped)
  <2>1. NewVals[d] < robot.q[d] BY <1>1, <1>8
  <2>2. Drives[d] \cap movers = {} BY <1>2, <1>8, <2>1, MoverOf DEF movers
  <2>3. h.q[d] = robot.q[d] BY <1>4, <2>2
  <2> QED BY <1>1, <1>3, <1>8, <2>2, <2>3 DEF Stuck, movers
<1>9. CASE robot.q[d] # move.desired[d] /\ Kind[d] = "BREAKAWAY" /\ move.desired[d] > robot.q[d]
           /\ (<<i, 1>> \in stopped \/ i \in robot.broken)
  <2>1. NewVals[d] > robot.q[d] /\ h.q[d] >= robot.q[d] /\ h.q[d] <= move.desired[d] BY <1>1, <1>9
  <2>2. i \notin movers
    <3>1. CASE <<i, 1>> \in stopped
      <4>1. NewVals[d] - robot.val[i] > 0 BY <1>1, <1>9, <2>1
      <4>2. Held(robot, i, NewVals[d], stopped) BY <3>1, <4>1 DEF Held, Sign
      <4> QED BY <1>9, <4>2, MoverOf DEF movers
    <3>2. CASE i \in robot.broken
      <4>1. robot.at[i] <= robot.q[d] /\ robot.at[i] \in 0..MaxVal BY <3>2, PostureOf DEF IHand
      <4>2. InBreakAway(robot, i, NewVals[d]) BY <1>1, <2>1, <3>2, <4>1 DEF InBreakAway
      <4> QED BY <1>9, <4>2, MoverOf DEF movers
    <3> QED BY <1>9, <3>1, <3>2
  <2>3. i \in robot.broken => i \in h.broken BY <1>1, <2>1 DEF Reached
  <2>4. h.q[d] = move.desired[d] \/ move.desired[d] > h.q[d] BY <1>1, <2>1
  <2> QED BY <1>9, <2>2, <2>3, <2>4 DEF Stuck, movers
<1> QED BY <1>5, <1>6, <1>7, <1>8, <1>9 DEF Stuck

(* A joint that does not move, or is stopped, will not go anywhere; one    *)
(* that opens with breakaway, when one of its DOF is stopped.              *)
LEMMA NewlyStuck ==
  ASSUME OneJointEach, IHand, move # None, NEW stopped \in Stops, NEW all, stopped \subseteq all,
         NEW h, Reached(h, Movers(robot, NewVals, stopped)), NEW i \in Joint,
         Direction(NewVals, Movers(robot, NewVals, stopped), i) # 0 =>
           <<i, Direction(NewVals, Movers(robot, NewVals, stopped), i)>> \in all,
         Kind[DofOf[i]] = "BREAKAWAY" /\ move.desired[DofOf[i]] < robot.q[DofOf[i]] =>
           \E k \in Drives[DofOf[i]] : Halted(k, all)
  PROVE  Stuck(h, i, all)
<1> DEFINE d == DofOf[i]
           movers == Movers(robot, NewVals, stopped)
<1>0. robot \in RobotType /\ NewVals \in Values /\ Posture(robot)
  BY NewValsOf DEF IHand, Ranges, MInv
<1>1. /\ d \in Dof /\ i \in Drives[d]
      /\ robot.q[d] \in 0..MaxVal /\ h.q[d] \in 0..MaxVal /\ NewVals[d] \in 0..MaxVal /\ move.desired[d] \in 0..MaxVal
      /\ robot.val[i] \in 0..MaxVal /\ h.val[i] \in 0..MaxVal
      /\ NewVals[d] = robot.q[d] <=> robot.q[d] = move.desired[d]
      /\ robot.q[d] < move.desired[d] =>
           robot.q[d] < NewVals[d] /\ NewVals[d] <= move.desired[d] /\ robot.q[d] <= h.q[d] /\ h.q[d] <= NewVals[d]
      /\ robot.q[d] > move.desired[d] =>
           robot.q[d] > NewVals[d] /\ NewVals[d] >= move.desired[d] /\ robot.q[d] >= h.q[d] /\ h.q[d] >= NewVals[d]
      /\ robot.q[d] = move.desired[d] => h.q[d] = robot.q[d]
      /\ Follows(i) => robot.val[i] = robot.q[d] /\ h.val[i] = h.q[d]
      /\ Kind[d] = "BREAKAWAY" => robot.val[i] <= robot.q[d]
  BY StepNumbers
<1>3. \A k : Halted(k, stopped) => Halted(k, all) BY DEF Halted
<1>4. i \in movers => Direction(NewVals, movers, i) = Sign(NewVals[d] - robot.val[i])
  BY DEF Direction
<1>5. i \in movers /\ Sign(NewVals[d] - robot.val[i]) # 0 => <<i, Sign(NewVals[d] - robot.val[i])>> \in all
  BY <1>4
<1>11. i \notin movers => h.val[i] = robot.val[i] BY DEF Reached
<1> HIDE DEF movers
<1>6. CASE h.q[d] = move.desired[d] BY <1>6 DEF Stuck
<1>7. CASE h.q[d] # move.desired[d] /\ Kind[d] = "RIGID"
  <2>1. NewVals[d] # robot.q[d] /\ robot.val[i] = robot.q[d] BY <1>1, <1>7, KindOfJoint DEF Follows
  <2>2. CASE i \in movers
    <3>1. Sign(NewVals[d] - robot.val[i]) \in Directions
      <4>1. NewVals[d] - robot.val[i] \in Int /\ NewVals[d] - robot.val[i] # 0 BY <1>1, <2>1
      <4> QED BY <4>1, SignOf
    <3>2. Halted(i, all) BY <1>5, <2>2, <3>1 DEF Halted, Directions
    <3> QED BY <1>1, <1>7, <3>2 DEF Stuck
  <2>3. CASE i \notin movers
    <3>1. \E k \in Drives[d] : Halted(k, stopped) BY <1>7, <2>1, <2>3, NotMoverOf DEF movers
    <3> QED BY <1>3, <1>7, <3>1 DEF Stuck
  <2> QED BY <2>2, <2>3
<1>8. CASE h.q[d] # move.desired[d] /\ Kind[d] = "COMPLIANT"
  <2>1. Follows(i) BY <1>8, CompliantFollows
  <2>2. NewVals[d] # robot.q[d] /\ robot.val[i] = robot.q[d] /\ h.val[i] = h.q[d] BY <1>1, <1>8, <2>1
  <2>3. Sign(move.desired[d] - h.val[i]) = Sign(NewVals[d] - robot.val[i])
    <3>2. CASE robot.q[d] < move.desired[d]
      <4>1. NewVals[d] - robot.q[d] > 0 /\ move.desired[d] - h.q[d] > 0 BY <1>1, <1>8, <3>2
      <4> QED BY <2>2, <4>1 DEF Sign
    <3>3. CASE robot.q[d] > move.desired[d]
      <4>1. /\ NewVals[d] - robot.q[d] < 0 /\ move.desired[d] - h.q[d] < 0
            /\ ~(NewVals[d] - robot.q[d] > 0) /\ ~(move.desired[d] - h.q[d] > 0)
        BY <1>1, <1>8, <3>3
      <4> QED BY <2>2, <4>1 DEF Sign
    <3> QED BY <1>1, <1>8, <3>2, <3>3
  <2>4. Sign(NewVals[d] - robot.val[i]) # 0
    <3>1. NewVals[d] - robot.val[i] \in Int /\ NewVals[d] - robot.val[i] # 0 BY <1>1, <2>2
    <3> QED BY <3>1, SignOf
  <2>5. CASE i \in movers BY <1>5, <1>8, <2>3, <2>4, <2>5 DEF Stuck
  <2>6. CASE i \notin movers
    <3>1. Held(robot, i, NewVals[d], stopped) BY <1>8, <2>2, <2>6, NotMoverOf DEF movers
    <3> QED BY <1>8, <2>3, <3>1 DEF Held, Stuck
  <2> QED BY <2>5, <2>6
<1>9. CASE Kind[d] = "BREAKAWAY" /\ move.desired[d] < h.q[d]
  <2>1. move.desired[d] < robot.q[d] BY <1>1, <1>9
  <2> QED BY <1>9, <2>1 DEF Stuck
<1>10. CASE Kind[d] = "BREAKAWAY" /\ move.desired[d] > h.q[d]
  <2>1. robot.q[d] < move.desired[d] BY <1>1, <1>10
  <2>2. NewVals[d] > robot.val[i] /\ NewVals[d] # robot.q[d] /\ ~(NewVals[d] < robot.q[d]) /\ robot.q[d] <= h.q[d]
    BY <1>1, <1>10, <2>1
  <2>3. Sign(NewVals[d] - robot.val[i]) = 1
    <3>1. NewVals[d] - robot.val[i] > 0 BY <1>1, <2>2
    <3> QED BY <3>1 DEF Sign
  <2>4. CASE i \in movers BY <1>5, <1>10, <2>3, <2>4, 1 # 0 DEF Stuck
  <2>5. CASE i \notin movers
    <3>1. i \in robot.broken \/ Held(robot, i, NewVals[d], stopped)
      BY <1>10, <2>2, <2>5, NotMoverOf DEF movers, InBreakAway
    <3>2. i \in robot.broken => i \in h.broken BY <2>2 DEF Reached
    <3> QED BY <1>10, <2>3, <3>1, <3>2 DEF Held, Stuck
  <2> QED BY <2>4, <2>5
<1> QED BY <1>1, <1>6, <1>7, <1>8, <1>9, <1>10, KindOfJoint

-----------------------------------------------------------------------------
(***************************************************************************)
(* What is stopped stays where it is, and so does what holds it.           *)
(***************************************************************************)
(* A step starts on its way ...                                            *)
LEMMA ReachedAtStart ==
  ASSUME IHand, move # None, NEW movers
  PROVE  Reached(robot, movers)
<1>0. robot \in RobotType /\ move \in MoveType /\ Heading /\ Together(robot)
  BY DEF IHand, Ranges, MInv, Posture
<1>1. ASSUME NEW d \in Dof
      PROVE  /\ robot.q[d] <= move.desired[d] => robot.q[d] <= robot.q[d] /\ robot.q[d] <= NewVals[d]
             /\ robot.q[d] >= move.desired[d] => robot.q[d] >= robot.q[d] /\ robot.q[d] >= NewVals[d]
  <2>1. /\ robot.q[d] \in 0..MaxVal /\ move.desired[d] \in 0..MaxVal /\ NewVals[d] \in 0..MaxVal
        /\ NewVals[d] = robot.q[d] <=> robot.q[d] = move.desired[d]
        /\ robot.q[d] < move.desired[d] => robot.q[d] < NewVals[d] /\ NewVals[d] <= move.desired[d]
        /\ robot.q[d] > move.desired[d] => robot.q[d] > NewVals[d] /\ NewVals[d] >= move.desired[d]
    BY <1>0, NewValsOf
  <2> QED BY <2>1
<1> QED BY <1>0, <1>1 DEF Reached

(* ... and ends on it.                                                     *)
LEMMA ReachedAtEnd ==
  ASSUME IHand, move # None, Posture(robot'), NEW i \in 0..MaxVal, NEW late, Taken(i, late)
  PROVE  Reached(robot', NewMovers)
<1>1. robot' \in RobotType /\ Together(robot') BY DEF Posture
<1>2. ASSUME NEW d \in Dof
      PROVE  /\ robot.q[d] <= move.desired[d] => robot.q[d] <= robot'.q[d] /\ robot'.q[d] <= NewVals[d]
             /\ robot.q[d] >= move.desired[d] => robot.q[d] >= robot'.q[d] /\ robot'.q[d] >= NewVals[d]
             /\ Drives[d] \cap NewMovers = {} => robot'.q[d] = robot.q[d]
  BY TakenDofs
<1>3. \A j \in Joint : j \notin NewMovers => robot'.val[j] = robot.val[j] BY DEF Taken, PostureAt
<1>4. ASSUME NEW j \in robot.broken, robot.q[DofOf[j]] <= robot'.q[DofOf[j]] PROVE j \in robot'.broken
  <2>1. j \in Joint BY DEF IHand, Ranges, RobotType, OfKind
  <2>2. /\ robot.at[j] \in 0..MaxVal /\ robot.q[DofOf[j]] \in 0..MaxVal
        /\ robot.at[j] <= robot.q[DofOf[j]]
    BY <2>1, PostureOf DEF IHand
  <2>3. robot'.q[DofOf[j]] \in 0..MaxVal BY <1>1, <2>1, DofOfJoint DEF RobotType
  <2>4. robot'.q[DofOf[j]] >= robot.at[j] BY <1>4, <2>2, <2>3
  <2> QED BY <2>4 DEF Taken
<1> QED BY <1>1, <1>2, <1>3, <1>4 DEF Reached

(* A chain in which contact stops a joint that moves will not go anywhere. *)
LEMMA ChainStuck ==
  ASSUME OneJointEach, IHand, move # None, NEW stopped \in Stops, NEW ls \in SUBSET Link,
         NEW all, stopped \subseteq all,
         StopJoints(NewVals, Movers(robot, NewVals, stopped), ls) \subseteq all,
         NEW h, Reached(h, Movers(robot, NewVals, stopped)),
         NEW l \in ls, NEW i \in Upto[l], Direction(NewVals, Movers(robot, NewVals, stopped), i) # 0,
         NEW j \in Upto[l], InTurn(i, j)
  PROVE  Stuck(h, j, all)
<1> DEFINE movers == Movers(robot, NewVals, stopped)
<1>0. robot \in RobotType /\ NewVals \in Values /\ move \in MoveType BY NewValsOf DEF IHand, Ranges, MInv
<1>1. i \in Joint /\ j \in Joint BY MotionAssumption DEF Link
<1>2. ASSUME NEW k \in Upto[l], Direction(NewVals, movers, k) # 0
      PROVE  <<k, Direction(NewVals, movers, k)>> \in all /\ Direction(NewVals, movers, k) \in Directions
  <2>1. k \in Joint BY MotionAssumption DEF Link
  <2>2. Direction(NewVals, movers, k) \in Directions BY <1>0, <1>2, <2>1, DirectionOf DEF Directions
  <2> QED BY <1>2, <2>2, StopJointsOf
<1>3. ASSUME Kind[DofOf[j]] = "BREAKAWAY", move.desired[DofOf[j]] < robot.q[DofOf[j]]
      PROVE  \E k \in Drives[DofOf[j]] : Halted(k, all)
  <2>1. i \in movers BY DEF Direction
  <2>2. NewVals[DofOf[i]] # robot.q[DofOf[i]] BY <1>1, <2>1, MoverOf
  <2>3. robot.q[DofOf[i]] # move.desired[DofOf[i]] BY <1>0, <1>1, <2>2, NewValsOf, DofOfJoint DEF IHand, MInv
  <2>4. move.desired[DofOf[j]] \in 0..MaxVal /\ robot.q[DofOf[j]] \in 0..MaxVal
    BY <1>0, <1>1, DofOfJoint DEF MoveType, RobotType
  <2>5. DofOf[i] = DofOf[j] BY <1>3, <2>3, <2>4 DEF InTurn
  <2>6. i \in Drives[DofOf[j]] BY <1>1, <2>5, DofOfJoint
  <2>7. Halted(i, all) BY <1>2 DEF Halted
  <2> QED BY <2>6, <2>7
<1> QED BY <1>1, <1>2, <1>3, NewlyStuck

(* A round of getJointValuesFromDOF() stops joints whose chains will not   *)
(* go anywhere ...                                                         *)
LEMMA RoundChained ==
  ASSUME OneJointEach, IHand, move # None, GoesInTurn, NEW before \in Stops, Chained(before)
  PROVE  Chained(StopPrevented(NewVals, before))
<1> DEFINE movers == Movers(robot, NewVals, before)
           all == StopPrevented(NewVals, before)
<1>0. NewVals \in Values BY NewValsOf DEF IHand, Ranges, MInv
<1>1. PICK ls \in SUBSET Link : all = before \cup StopJoints(NewVals, movers, ls)
  BY <1>0, StopPreventedOf
<1> HIDE DEF all
<1> SUFFICES ASSUME NEW s \in all, NEW j \in Upto[s[1]] PROVE Stuck(robot, j, all)
  BY DEF Chained, all
<1>2. Reached(robot, movers) BY ReachedAtStart
<1>3. all \in Stops BY <1>0, StopPreventedOf DEF all
<1>4. s[1] \in Joint /\ j \in Joint /\ Upto[s[1]] \subseteq Joint BY <1>3, MotionAssumption DEF Stops
<1>5. CASE s \in before
  <2>1. Stuck(robot, j, before) BY <1>5 DEF Chained
  <2> QED BY <1>1, <1>2, <1>4, <2>1, StuckStays
<1>6. CASE s \in StopJoints(NewVals, movers, ls)
  <2>1. PICK l \in ls : s[1] \in Upto[l] /\ Direction(NewVals, movers, s[1]) = s[2]
    BY <1>6, StopJointsOf
  <2>2. s[2] # 0 BY <1>3 DEF Stops, Directions
  <2>3. j \in Upto[l] BY <2>1, MotionAssumption DEF Link
  <2>4. InTurn(s[1], j) BY <1>4 DEF GoesInTurn
  <2> QED BY <1>1, <1>2, <2>1, <2>2, <2>3, <2>4, ChainStuck
<1> QED BY <1>1, <1>5, <1>6

(* ... and are held by a contact that stays.                               *)
LEMMA RoundPinned ==
  ASSUME OneJointEach, IHand, move # None, GoesAlone, NEW before \in Stops, Pinned(before)
  PROVE  Pinned(StopPrevented(NewVals, before))
<1> DEFINE movers == Movers(robot, NewVals, before)
           all == StopPrevented(NewVals, before)
<1>0. NewVals \in Values /\ contacts \subseteq Link \X Directions BY NewValsOf DEF IHand, Ranges, MInv
<1>1. PICK ls \in SUBSET Link :
        /\ all = before \cup StopJoints(NewVals, movers, ls)
        /\ \A l \in ls : <<l, Motion(NewVals, movers, l)>> \in contacts
  BY <1>0, StopPreventedOf
<1> HIDE DEF all
<1> SUFFICES ASSUME NEW s \in all
             PROVE  \E c \in contacts : s[1] \in Upto[c[1]] /\ \A j \in Upto[c[1]] : Stuck(robot, j, all)
  BY DEF Pinned, all
<1>2. Reached(robot, movers) BY ReachedAtStart
<1>3. all \in Stops BY <1>0, StopPreventedOf DEF all
<1>5. CASE s \in before
  <2>1. PICK c \in contacts : s[1] \in Upto[c[1]] /\ \A j \in Upto[c[1]] : Stuck(robot, j, before)
    BY <1>5 DEF Pinned
  <2>2. ASSUME NEW j \in Upto[c[1]] PROVE Stuck(robot, j, all)
    <3>1. j \in Joint BY <1>0, MotionAssumption DEF Link
    <3> QED BY <1>1, <1>2, <2>1, <3>1, StuckStays
  <2> QED BY <2>1, <2>2
<1>6. CASE s \in StopJoints(NewVals, movers, ls)
  <2>1. PICK l \in ls : s[1] \in Upto[l] /\ Direction(NewVals, movers, s[1]) = s[2]
    BY <1>6, StopJointsOf
  <2>2. s[2] # 0 BY <1>3 DEF Stops, Directions
  <2>3. ASSUME NEW j \in Upto[l] PROVE Stuck(robot, j, all)
    <3>1. InTurn(s[1], j) BY <2>1 DEF GoesAlone, Link
    <3> QED BY <1>1, <1>2, <2>1, <2>2, <3>1, ChainStuck
  <2>4. <<l, Motion(NewVals, movers, l)>> \in contacts BY <1>1
  <2> QED BY <2>1, <2>3, <2>4
<1> QED BY <1>1, <1>5, <1>6

(* So do all rounds together.                                              *)
LEMMA NewStoppedChained ==
  ASSUME OneJointEach, IHand, move # None, Sure
  PROVE  Chained(NewStopped)
<1> DEFINE F == {s \in Stops : Chained(s)}
<1>0. NewVals \in Values BY NewValsOf DEF IHand, Ranges, MInv
<1>1. move.stopped \in F BY DEF IHand, Ranges, MoveType, Stops, Sure
<1>2. ASSUME NEW before \in F PROVE StopPrevented(NewVals, before) \in F
  BY <1>0, RoundChained, StopPreventedOf DEF Sure
<1> HIDE DEF F
<1>3. NewStopped \in F BY <1>1, <1>2, StoppedWithin DEF NewStopped
<1> QED BY <1>3 DEF F

(* The same for the contacts that hold them.                               *)
LEMMA NewStoppedPinned ==
  ASSUME OneJointEach, IHand, move # None, Solo
  PROVE  Pinned(NewStopped)
<1> DEFINE F == {s \in Stops : Pinned(s)}
<1>0. NewVals \in Values BY NewValsOf DEF IHand, Ranges, MInv
<1>1. move.stopped \in F BY DEF IHand, Ranges, MoveType, Stops, Solo
<1>2. ASSUME NEW before \in F PROVE StopPrevented(NewVals, before) \in F
  BY <1>0, RoundPinned, StopPreventedOf DEF Solo
<1> HIDE DEF F
<1>3. NewStopped \in F BY <1>1, <1>2, StoppedWithin DEF NewStopped
<1> QED BY <1>3 DEF F

(* A DOF that has come to its end stays there, so joints that go in turn   *)
(* still do after a step.                                                  *)
LEMMA StepInTurn ==
  ASSUME IHand, move # None, NEW n \in 0..MaxVal, NEW late, Taken(n, late), move' # None,
         NEW i \in Joint, NEW j \in Joint, InTurn(i, j)
  PROVE  InTurn(i, j)'
<1>1. move'.desired = move.desired BY DEF Taken, IHand, Ranges, MoveType
<1>2. ASSUME NEW d \in Dof, robot.q[d] = move.desired[d] PROVE robot'.q[d] = move'.desired[d]
  <2>1. /\ robot'.q[d] \in 0..MaxVal /\ robot.q[d] \in 0..MaxVal
        /\ robot.q[d] <= move.desired[d] => robot.q[d] <= robot'.q[d]
        /\ robot.q[d] >= move.desired[d] => robot.q[d] >= robot'.q[d]
    BY TakenDofs
  <2> QED BY <1>1, <1>2, <2>1
<1> QED BY <1>2, DofOfJoint DEF InTurn

(* Stops of a step are in chains that will not go anywhere.                *)
LEMMA StepChained ==
  ASSUME OneJointEach, IHand, Sure, Step, move' # None
  PROVE  GoesInTurn' /\ Chained(move.stopped)'
<1>0. move # None /\ move \in MoveType BY DEF Step, IHand, Ranges
<1>1. PICK n, late : n \in 0..MaxVal /\ Taken(n, late) BY StepTaken
<1>2. Posture(robot') BY StepTaken
<1>3. Reached(robot', NewMovers) BY <1>0, <1>1, <1>2, ReachedAtEnd
<1> DEFINE all == NewStopped \cup NewStops(late)
           ls == {c[1] : c \in late}
<1>4. move'.stopped = all /\ move'.desired = move.desired BY <1>0, <1>1 DEF Taken, MoveType
<1>5. Chained(NewStopped) /\ NewStopped \in Stops
  BY <1>0, NewStoppedChained, NewStoppedOf DEF IHand, Ranges, MInv
<1>6. ls \in SUBSET Link /\ NewStops(late) = StopJoints(NewVals, NewMovers, ls)
  BY <1>1 DEF Taken, NewStops
<1>7. NewMovers = Movers(robot, NewVals, NewStopped) BY DEF NewMovers
<1>8. \A j \in Joint : \A i \in Upto[j] : i \in Joint BY MotionAssumption
<1>9. GoesInTurn'
  <2> SUFFICES ASSUME NEW i \in Joint, NEW j \in Upto[i] PROVE InTurn(i, j)'
    BY DEF GoesInTurn
  <2>1. InTurn(i, j) BY <1>0 DEF Sure, GoesInTurn
  <2> QED BY <1>0, <1>1, <1>8, <2>1, StepInTurn
<1>10. Chained(move.stopped)'
  <2> HIDE DEF ls
  <2>0. NewStops(late) \in Stops BY <1>6, StopJointsOf
  <2> HIDE DEF all
  <2> SUFFICES ASSUME NEW s \in all, NEW j \in Upto[s[1]] PROVE Stuck(robot', j, all)
    BY <1>4 DEF Chained, Stuck
  <2>1. s[1] \in Joint BY <1>5, <2>0 DEF all, Stops
  <2>2. j \in Joint BY <1>8, <2>1
  <2>3. NewStopped \subseteq all /\ NewStops(late) \subseteq all BY DEF all
  <2>4. CASE s \in NewStopped
    <3>1. Stuck(robot, j, NewStopped) BY <1>5, <2>4 DEF Chained
    <3> QED BY <1>0, <1>3, <1>5, <1>7, <2>2, <2>3, <3>1, StuckStays
  <2>5. CASE s \in NewStops(late)
    <3>1. PICK l \in ls : s[1] \in Upto[l] /\ Direction(NewVals, NewMovers, s[1]) = s[2]
      BY <1>6, <2>5, StopJointsOf
    <3>2. s[2] # 0 BY <2>0, <2>5 DEF Stops, Directions
    <3>3. j \in Upto[l] BY <1>6, <3>1, MotionAssumption DEF Link
    <3>4. InTurn(s[1], j) BY <1>0, <2>1 DEF Sure, GoesInTurn
    <3> QED BY <1>0, <1>3, <1>5, <1>6, <1>7, <2>3, <3>1, <3>2, <3>3, <3>4, ChainStuck
  <2> QED BY <2>4, <2>5 DEF all
<1> QED BY <1>9, <1>10

(* Stops of a step are held by contacts which it does not break, or finds. *)
LEMMA StepPinned ==
  ASSUME OneJointEach, IHand, Solo, Step, move' # None
  PROVE  GoesAlone' /\ Pinned(move.stopped)'
<1>0. move # None /\ move \in MoveType /\ contacts \subseteq Link \X Directions BY DEF Step, IHand, Ranges
<1>1. PICK n, late : n \in 0..MaxVal /\ Taken(n, late) BY StepTaken
<1>2. Posture(robot') BY StepTaken
<1>3. Reached(robot', NewMovers) BY <1>0, <1>1, <1>2, ReachedAtEnd
<1> DEFINE all == NewStopped \cup NewStops(late)
           ls == {c[1] : c \in late}
<1>4. move'.stopped = all /\ move'.desired = move.desired BY <1>0, <1>1 DEF Taken, MoveType
<1>5. Pinned(NewStopped) /\ NewStopped \in Stops
  BY <1>0, NewStoppedPinned, NewStoppedOf DEF IHand, Ranges, MInv
<1>6. ls \in SUBSET Link /\ NewStops(late) = StopJoints(NewVals, NewMovers, ls)
  BY <1>1 DEF Taken, NewStops
<1>7. NewMovers = Movers(robot, NewVals, NewStopped) BY DEF NewMovers
<1>8. \A l \in Link : \A i \in Upto[l] : i \in Joint BY MotionAssumption DEF Link
<1>9. GoesAlone'
  <2> SUFFICES ASSUME NEW l \in Link, NEW i \in Upto[l], NEW j \in Upto[l] PROVE InTurn(i, j)'
    BY DEF GoesAlone
  <2>1. InTurn(i, j) BY <1>0 DEF Solo, GoesAlone
  <2> QED BY <1>0, <1>1, <1>8, <2>1, StepInTurn
<1>10. contacts' = Unbroken(robot.val, PostureAt(NewVals, NewMovers, MaxVal)) \cup late
  BY <1>1 DEF Taken
<1>11. Pinned(move.stopped)'
  <2>0. NewStops(late) \in Stops BY <1>6, StopJointsOf
  <2> HIDE DEF all
  <2> SUFFICES ASSUME NEW s \in all
               PROVE  \E c \in contacts' : s[1] \in Upto[c[1]] /\ \A j \in Upto[c[1]] : Stuck(robot', j, all)
    BY <1>4 DEF Pinned, Stuck
  <2>3. NewStopped \subseteq all /\ NewStops(late) \subseteq all BY DEF all
  <2>4. CASE s \in NewStopped
    <3>1. PICK c \in contacts : s[1] \in Upto[c[1]] /\ \A j \in Upto[c[1]] : Stuck(robot, j, NewStopped)
      BY <1>5, <2>4 DEF Pinned
    <3>2. ASSUME NEW j \in Upto[c[1]] PROVE j \in Joint /\ j \notin NewMovers /\ Stuck(robot', j, all)
      <4>1. j \in Joint BY <1>0, <1>8
      <4> QED BY <1>0, <1>3, <1>5, <1>7, <2>3, <3>1, <4>1, StuckStays
    <3>3. c \in contacts'
      <4>1. c[1] \notin Displaced(robot.val, PostureAt(NewVals, NewMovers, MaxVal))
        BY <3>2 DEF Displaced, PostureAt
      <4> QED BY <1>10, <4>1 DEF Unbroken
    <3> QED BY <3>1, <3>2, <3>3
  <2>5. CASE s \in NewStops(late)
    <3>0. PICK l \in ls : s[1] \in Upto[l] /\ Direction(NewVals, NewMovers, s[1]) = s[2]
      BY <1>6, <2>5, StopJointsOf
    <3>1. PICK c \in late : c[1] = l OBVIOUS
    <3> HIDE DEF ls
    <3>2. s[2] # 0 BY <2>0, <2>5 DEF Stops, Directions
    <3>3. ASSUME NEW j \in Upto[l] PROVE Stuck(robot', j, all)
      <4>1. InTurn(s[1], j) BY <1>0, <1>6, <3>0 DEF Solo, GoesAlone
      <4> QED BY <1>0, <1>3, <1>5, <1>6, <1>7, <2>3, <3>0, <3>2, <4>1, ChainStuck
    <3> QED BY <1>10, <3>0, <3>1, <3>3
  <2> QED BY <2>4, <2>5 DEF all
<1> QED BY <1>9, <1>11

-----------------------------------------------------------------------------
(***************************************************************************)
(* Moves stay free and go as far as they can.                              *)
(***************************************************************************)
(* Where no joint goes beyond one with breakaway, Sure is kept.            *)
LEMMA SureKept ==
  ASSUME OneJointEach, NothingBeyond, IHand, Sure, [HandNext]_handVars
  PROVE  Sure'
<1> SUFFICES ASSUME move' # None PROVE GoesInTurn' /\ Chained(move.stopped)'
  BY DEF Sure
<1>1. CASE UNCHANGED handVars
  BY <1>1 DEF handVars, Sure, GoesInTurn, InTurn, Chained, Stuck
<1>2. CASE Step BY <1>2, StepChained
<1>3. CASE /\ move = None /\ robot' = robot /\ contacts' = contacts
           /\ move'.stopped = {} /\ move'.itercount = 0
           /\ \E steps \in [Dof -> Nat] :
                 /\ \A d \in Dof : steps[d] = 0 => move'.desired[d] = robot.q[d]
                 /\ \/ \E step \in Steps : steps = [d \in Dof |-> IF Velocity[d] = 0 THEN 0 ELSE step]
                    \/ \E d \in Dof, step \in Steps : steps = [e \in Dof |-> IF e = d THEN step ELSE 0]
  <2>1. Chained(move.stopped)' BY <1>3 DEF Chained
  <2>2. ASSUME NEW i \in Joint, NEW j \in Upto[i] PROVE InTurn(i, j)'
    <3>1. j \in Joint BY MotionAssumption
    <3>2. DofOf[i] \in Dof /\ DofOf[j] \in Dof /\ Apart(i, j) BY <3>1, DofOfJoint DEF NothingBeyond
    <3> QED BY <1>3, <3>2 DEF InTurn, Apart
  <2> QED BY <2>1, <2>2 DEF GoesInTurn
<1> QED BY <1>1, <1>2, <1>3, MoveStarts

(* Where a chain with breakaway goes alone, Solo is kept.                  *)
LEMMA SoloKept ==
  ASSUME OneJointEach, OneInAChain, IHand, Solo, [HandNext]_handVars
  PROVE  Solo'
<1> SUFFICES ASSUME move' # None PROVE GoesAlone' /\ Pinned(move.stopped)'
  BY DEF Solo
<1>1. CASE UNCHANGED handVars
  BY <1>1 DEF handVars, Solo, GoesAlone, InTurn, Pinned, Stuck
<1>2. CASE Step BY <1>2, StepPinned
<1>3. CASE /\ move = None /\ robot' = robot /\ contacts' = contacts
           /\ move'.stopped = {} /\ move'.itercount = 0
           /\ \E steps \in [Dof -> Nat] :
                 /\ \A d \in Dof : steps[d] = 0 => move'.desired[d] = robot.q[d]
                 /\ \/ \E step \in Steps : steps = [d \in Dof |-> IF Velocity[d] = 0 THEN 0 ELSE step]
                    \/ \E d \in Dof, step \in Steps : steps = [e \in Dof |-> IF e = d THEN step ELSE 0]
  <2>1. Pinned(move.stopped)' BY <1>3 DEF Pinned
  <2>2. ASSUME NEW l \in Link, NEW i \in Upto[l], NEW j \in Upto[l] PROVE InTurn(i, j)'
    <3>1. i \in Joint /\ j \in Joint BY MotionAssumption DEF Link
    <3>2. DofOf[i] \in Dof /\ DofOf[j] \in Dof /\ Apart(i, j) BY <3>1, DofOfJoint DEF OneInAChain
    <3> QED BY <1>3, <3>2 DEF InTurn, Apart
  <2> QED BY <2>1, <2>2 DEF GoesAlone
<1> QED BY <1>1, <1>2, <1>3, MoveStarts

(* A step of a free hand leaves it free: the links that are looked at, as  *)
(* the step ends where they do not collide, and the others, as nothing of  *)
(* their chains moves.                                                     *)
LEMMA StepFree ==
  ASSUME OneJointEach, IHand, Sure, Step, Free(tran, robot.val)
  PROVE  Free(tran', robot'.val)
<1>0. /\ move # None /\ place \in Places /\ tran \in Int /\ robot \in RobotType
  BY MotionAssumption DEF Step, IHand, Ranges
<1>1. PICK n, late : n \in 0..MaxVal /\ Taken(n, late) BY StepTaken
<1>2. Posture(robot') BY StepTaken
<1>3. Reached(robot', NewMovers) BY <1>0, <1>1, <1>2, ReachedAtEnd
<1>4. Chained(NewStopped) /\ NewStopped \in Stops
  BY <1>0, NewStoppedChained, NewStoppedOf DEF IHand, Ranges, MInv
<1>5. Collisions(tran, robot'.val, InterestList(NewStopped)) = {} /\ tran' = tran
  BY <1>1 DEF Taken
<1>6. robot.val \in [Joint -> 0..MaxVal] /\ robot'.val \in [Joint -> 0..MaxVal]
  BY <1>0, <1>2 DEF Posture, RobotType
<1> SUFFICES ASSUME NEW c \in Link \X Directions, Gap(tran, robot'.val, c[1], c[2]) <= 0 PROVE FALSE
  BY <1>5 DEF Free, Collisions
<1>7. c[1] \notin InterestList(NewStopped) BY <1>5 DEF Collisions, InterestList
<1>8. PICK s \in Directions : <<c[1], s>> \in NewStopped BY <1>7 DEF InterestList, Halted
<1>9. ASSUME NEW j \in Upto[c[1]] PROVE robot.val[j] = robot'.val[j]
  <2>1. j \in Joint BY MotionAssumption DEF Link
  <2>2. Stuck(robot, j, NewStopped) BY <1>4, <1>8 DEF Chained
  <2>3. j \notin NewMovers BY <1>0, <1>3, <1>4, <2>1, <2>2, StuckStays DEF NewMovers
  <2> QED BY <1>3, <2>1, <2>3 DEF Reached
<1>10. Gap(tran, robot.val, c[1], c[2]) = Gap(tran, robot'.val, c[1], c[2])
  BY <1>0, <1>6, <1>9, GapOf
<1> QED BY <1>10 DEF Free, Collisions

(* An approach that starts where nothing collides ends where nothing       *)
(* collides.                                                               *)
LEMMA ApproachFree ==
  ASSUME IHand, NEW t \in Trans, Free(t, robot.val), NEW ks, NEW dist \in Approach, NEW oneStep \in BOOLEAN,
         ApproachToContact(t, ks, dist, oneStep)
  PROVE  Free(tran', robot'.val)
<1>0. tran \in Int /\ Trans \subseteq Int /\ t \in Int /\ dist \in Int BY MotionAssumption DEF IHand, Ranges
<1>1. /\ \/ tran' = t
         \/ \E k \in t..t + dist : \E n \in k..t + dist : \E e \in JumpTo(k, n) :
               /\ tran' = e.at /\ contacts' = e.found
               /\ ~e.ok \/ e.found # {} \/ n = t + dist
               /\ k = t \/ Free(k, robot.val)
      /\ robot' = robot
  BY <1>0, ApproachOf
<1>2. ASSUME NEW k \in t..t + dist, NEW n \in k..t + dist, NEW e \in JumpTo(k, n), k = t \/ Free(k, robot.val)
      PROVE  Free(e.at, robot.val)
  <2>1. k \in Int /\ n \in Int /\ k <= n BY <1>0
  <2>2. (e.ok => Free(e.at, robot.val)) /\ (~e.ok => e.at = k) BY <2>1, JumpToOf
  <2> QED BY <1>2, <2>2
<1> QED BY <1>1, <1>2

(* What happens while a move is running.                                   *)
LEMMA RunningMove ==
  ASSUME HandNext, move # None
  PROVE  NoMovement \/ InterpolationFails \/ Step
<1>1. ASSUME NEW desired, NEW steps, NEW stopAtContact, MoveDOFToContacts(desired, steps, stopAtContact) PROVE FALSE
  BY <1>1 DEF MoveDOFToContacts
<1>2. ASSUME NEW t, NEW ks, NEW dist, NEW oneStep, ApproachToContact(t, ks, dist, oneStep) PROVE FALSE
  BY <1>2 DEF ApproachToContact
<1>3. ~ \E speed \in Directions, step \in Steps, stopAtContact \in BOOLEAN : AutoGrasp(speed, step, stopAtContact)
  BY <1>1 DEF AutoGrasp
<1>4. ~ \E d \in Dof, v \in {0, MaxVal}, step \in Steps : MoveDOF(d, v, step)
  BY DEF MoveDOF, MoveDOFToContacts
<1>5. ~ \E t \in Trans, v \in 0..MaxVal : Execute(t, [d \in Dof |-> v]) \/ AnalyzeState(t, [d \in Dof |-> v])
  BY DEF Execute, SetPosture, AnalyzeState
<1>6. ~ QuickOpen /\ ~ FindAllContacts BY DEF QuickOpen, SetPosture, FindAllContacts
<1>7. ~ \E dist \in Approach, oneStep \in BOOLEAN : ApproachToContact(tran, contacts, dist, oneStep) BY <1>2
<1>8. ~ \E dist \in Approach : FindInitialContact(dist) BY DEF FindInitialContact
<1>9. ~ \E p \in Places : PlaceObstacles(p) BY DEF PlaceObstacles
<1> QED BY <1>3, <1>4, <1>5, <1>6, <1>7, <1>8, <1>9 DEF HandNext

(* No move of the DOFs and no approach takes a free hand into an obstacle, *)
(* though jumpDOFToContact() does not look at the links whose last joint   *)
(* is stopped: those have a chain that stands still.                       *)
THEOREM MovesStayFree ==
  ASSUME OneJointEach, NothingBeyond
  PROVE  HandSpec => StaysFree
<1> DEFINE A == Moves /\ Free(tran, robot.val) => Free(tran', robot'.val)
<1>1. HandInit => Sure BY DEF HandInit, Sure
<1>2. IHand /\ Sure /\ [HandNext]_handVars => Sure' BY SureKept
<1>3. ASSUME IHand, Sure, [HandNext]_handVars PROVE [A]_handVars
  <2> SUFFICES ASSUME HandNext, Moves, Free(tran, robot.val) PROVE Free(tran', robot'.val)
    BY <1>3
  <2>1. CASE Step BY <1>3, <2>1, StepFree
  <2>2. CASE NoMovement \/ InterpolationFails BY <2>2 DEF NoMovement, InterpolationFails
  <2>3. ASSUME NEW d \in Approach, NEW b \in BOOLEAN, ApproachToContact(tran, contacts, d, b)
        PROVE  Free(tran', robot'.val)
    <3>1. tran \in Trans BY <1>3 DEF IHand, Ranges
    <3> QED BY <1>3, <2>3, <3>1, ApproachFree
  <2> QED BY <2>1, <2>2, <2>3, RunningMove DEF Moves
<1> QED BY <1>1, <1>2, <1>3, HandInvariant, PTL DEF HandSpec, StaysFree

(* A move that ends for want of movement has brought its DOFs far.         *)
LEMMA NoMovementMovedOut ==
  ASSUME OneJointEach, IHand, Solo, NoMovement
  PROVE  MovedOut
<1>0. /\ move # None /\ NewMovers = {} /\ move \in MoveType /\ Heading /\ Posture(robot) /\ robot \in RobotType
  BY DEF NoMovement, IHand, Ranges, MInv
<1>1. Pinned(NewStopped) /\ NewStopped \in Stops
  BY <1>0, NewStoppedPinned, NewStoppedOf DEF IHand, Ranges, MInv
<1>2. ASSUME NEW j, NEW s, <<j, s>> \in NewStopped
      PROVE  Touches(j) /\ \A i \in Joint : i \in Upto[j] /\ j \in Joint => Touches(i)
  <2>1. PICK c \in contacts : j \in Upto[c[1]] BY <1>1, <1>2 DEF Pinned
  <2>2. c[1] \in Link BY DEF IHand, Ranges
  <2>3. Upto[j] \subseteq Upto[c[1]] BY <2>1, <2>2, MotionAssumption DEF Link
  <2> QED BY <2>1, <2>3 DEF Touches
<1>3. \A j : Halted(j, NewStopped) => Touches(j) BY <1>2 DEF Halted
<1> SUFFICES ASSUME NEW d \in Dof, robot.q[d] # move.desired[d]
             PROVE  IF Kind[d] = "RIGID" \/ (Kind[d] = "BREAKAWAY" /\ move.desired[d] < robot.q[d])
                    THEN \E j \in Drives[d] : Touches(j)
                    ELSE \A j \in Drives[d] : Touches(j)
  BY DEF MovedOut
<1>4. /\ robot.q[d] \in 0..MaxVal /\ move.desired[d] \in 0..MaxVal /\ NewVals[d] \in 0..MaxVal
      /\ NewVals[d] # robot.q[d]
      /\ robot.q[d] < move.desired[d] => robot.q[d] < NewVals[d]
      /\ robot.q[d] > move.desired[d] => robot.q[d] > NewVals[d]
  BY <1>0, NewValsOf
<1>5. \A j \in Drives[d] : j \in Joint /\ DofOf[j] = d /\ j \notin Movers(robot, NewVals, NewStopped)
  BY <1>0, DofOfJoint DEF NewMovers
<1>6. \A j \in Drives[d] : Held(robot, j, NewVals[d], NewStopped) => Halted(j, NewStopped)
  BY <1>1 DEF Held, Halted, Stops
<1>7. CASE Kind[d] = "RIGID"
  <2>1. PICK k \in Drives[d] : TRUE BY DofAssumption
  <2>2. \E j \in Drives[d] : Halted(j, NewStopped) BY <1>4, <1>5, <1>7, <2>1, NotMoverOf
  <2> QED BY <1>3, <1>7, <2>2
<1>8. CASE Kind[d] = "COMPLIANT"
  <2>1. \A j \in Drives[d] : Held(robot, j, NewVals[d], NewStopped) BY <1>4, <1>5, <1>8, NotMoverOf
  <2> QED BY <1>3, <1>6, <1>8, <2>1
<1>9. CASE Kind[d] = "BREAKAWAY"
  <2>1. PICK k \in Drives[d] : IsLast(k) BY <1>9, LastJoint
  <2>2. k \in Joint /\ DofOf[k] = d /\ k \notin robot.broken /\ robot.val[k] = robot.q[d] /\ Drives[d] \subseteq Upto[k]
    BY <1>0, <1>5, <2>1, PostureOf DEF IsLast
  <2>3. \/ Held(robot, k, NewVals[d], NewStopped)
        \/ NewVals[d] < robot.q[d] /\ \E i \in Drives[d] : Halted(i, NewStopped)
    BY <1>4, <1>5, <1>9, <2>2, NotMoverOf DEF InBreakAway
  <2>4. CASE move.desired[d] < robot.q[d]
    <3>1. \E i \in Drives[d] : Halted(i, NewStopped) BY <1>6, <2>3
    <3> QED BY <1>3, <1>9, <2>4, <3>1
  <2>5. CASE move.desired[d] > robot.q[d]
    <3>1. ~(NewVals[d] < robot.q[d]) /\ ~(move.desired[d] < robot.q[d]) BY <1>4, <2>5
    <3>2. PICK s : <<k, s>> \in NewStopped BY <2>3, <3>1 DEF Held
    <3>3. \A j \in Drives[d] : Touches(j) BY <1>2, <1>5, <2>2, <3>2
    <3> QED BY <1>9, <3>1, <3>3
  <2> QED BY <1>4, <2>4, <2>5
<1> QED BY <1>7, <1>8, <1>9, DofAssumption

-----------------------------------------------------------------------------
(***************************************************************************)
(* Approaches.                                                             *)
(***************************************************************************)
(* The gaps of a hand that goes ahead, in front and behind.                *)
LEMMA AheadGap ==
  ASSUME IHand, NEW t \in Int, NEW l \in Link
  PROVE  /\ Gap(t, robot.val, l, 1) \in Int /\ Gap(t, robot.val, l, -1) \in Int
         /\ \A i \in Int : /\ Gap(i, robot.val, l, 1) = Gap(t, robot.val, l, 1) + t - i
                           /\ Gap(i, robot.val, l, -1) = Gap(t, robot.val, l, -1) - t + i
<1>1. place \in Places /\ robot.val \in [Joint -> 0..MaxVal] BY DEF IHand, Ranges, RobotType
<1>2. Reach(robot.val, l) \in Int /\ place.front[l] \in Int /\ place.behind[l] \in Int
  BY <1>1, GapOf DEF Directions
<1>3. (1 = 1) = TRUE /\ (-1 = 1) = FALSE OBVIOUS
<1> QED BY <1>2, <1>3 DEF Gap

(* A free hand that goes ahead collides in front ...                       *)
LEMMA CollidesInFront ==
  ASSUME IHand, NEW t \in Int, Free(t, robot.val), NEW i \in Int, t <= i,
         NEW c \in Collisions(i, robot.val, Link)
  PROVE  c \in Link \X Directions /\ c[2] = 1
<1>1. c \in Link \X Directions /\ Gap(i, robot.val, c[1], c[2]) <= 0 BY DEF Collisions
<1>2. ~(Gap(t, robot.val, c[1], c[2]) <= 0) BY <1>1 DEF Free, Collisions
<1>3. CASE c[2] = -1
  <2>1. /\ Gap(t, robot.val, c[1], -1) \in Int
        /\ Gap(i, robot.val, c[1], -1) = Gap(t, robot.val, c[1], -1) - t + i
    BY <1>1, AheadGap
  <2> QED BY <1>1, <1>2, <1>3, <2>1
<1> QED BY <1>1, <1>3 DEF Directions

(* ... and comes by a place where it just touches what it collides with,   *)
(* so interpolateTo() finds a way back.                                    *)
LEMMA JustTouching ==
  ASSUME IHand, NEW t \in Int, Free(t, robot.val), NEW i \in Int, t <= i,
         Collisions(i, robot.val, Link) # {}
  PROVE  \E m \in t..i - 1 : Resolved(m, robot.val, Collisions(i, robot.val, Link))
<1> DEFINE report == Collisions(i, robot.val, Link)
           T == {n \in Nat : n <= i - t /\ \E c \in report : Gap(t + n, robot.val, c[1], c[2]) <= 0}
<1>1. \A c \in report : c[1] \in Link /\ c[2] = 1 BY CollidesInFront
<1>2. \A c \in report : Gap(i, robot.val, c[1], c[2]) <= 0 /\ ~(Gap(t, robot.val, c[1], c[2]) <= 0)
  BY DEF Free, Collisions
<1>3. i - t \in T
  <2>1. i - t \in Nat /\ t + (i - t) = i OBVIOUS
  <2> HIDE DEF report
  <2>2. PICK c \in report : TRUE BY DEF report
  <2> QED BY <1>2, <2>1, <2>2
<1>4. PICK n \in T : \A m \in T : n <= m
  <2>1. T \in SUBSET Nat /\ T # {} BY <1>3
  <2> HIDE DEF T
  <2> QED BY <2>1, LeastNat
<1> HIDE DEF report
<1>5. n \in Nat /\ n <= i - t BY <1>4
<1>6. PICK c \in report : Gap(t + n, robot.val, c[1], c[2]) <= 0 BY <1>4
<1>7. n # 0
  <2> SUFFICES ASSUME n = 0 PROVE FALSE OBVIOUS
  <2>1. t + n = t OBVIOUS
  <2> QED BY <1>2, <1>6, <2>1
<1>8. n - 1 \in Nat /\ n - 1 <= i - t /\ n - 1 \notin T
  <2>1. n - 1 \in Nat /\ n - 1 <= i - t /\ ~(n <= n - 1) BY <1>5, <1>7
  <2> HIDE DEF T
  <2> QED BY <1>4, <2>1
<1> DEFINE m == t + n - 1
<1>9. m \in t..i - 1 /\ m \in Int /\ t + (n - 1) = m /\ t + n \in Int BY <1>5, <1>7, <1>8
<1>10. \A x \in report : ~(Gap(m, robot.val, x[1], x[2]) <= 0)
  <2>1. \A x \in report : ~(Gap(t + (n - 1), robot.val, x[1], x[2]) <= 0) BY <1>8
  <2> HIDE DEF m
  <2> QED BY <1>9, <2>1
<1>11. /\ Gap(t + n, robot.val, c[1], 1) \in Int
       /\ Gap(m, robot.val, c[1], 1) = Gap(t + n, robot.val, c[1], 1) + (t + n) - m
  <2> HIDE DEF m
  <2> QED BY <1>1, <1>9, AheadGap
<1>12. Gap(m, robot.val, c[1], c[2]) = 1
  <2>1. (t + n) - m = 1 BY <1>5
  <2>2. Gap(t + n, robot.val, c[1], 1) <= 0 /\ ~(Gap(m, robot.val, c[1], 1) <= 0) BY <1>1, <1>6, <1>10
  <2>3. Gap(m, robot.val, c[1], 1) = Gap(t + n, robot.val, c[1], 1) + 1
    <3> HIDE DEF m
    <3> QED BY <1>5, <1>9, <1>11, <2>1
  <2> HIDE DEF m
  <2>4. Gap(m, robot.val, c[1], 1) = 1 BY <1>11, <2>2, <2>3
  <2> QED BY <1>1, <2>4
<1>13. 1 \in 1..Threshold BY MotionAssumption
<1> HIDE DEF m
<1>14. c \in Touching(m, robot.val, report) BY <1>12, <1>13 DEF Touching
<1>15. \A x \in report : Gap(m, robot.val, x[1], x[2]) > 0
  <2>1. \A x \in report : Gap(m, robot.val, x[1], 1) \in Int /\ x[2] = 1 BY <1>1, <1>9, AheadGap
  <2> QED BY <1>10, <2>1
<1> QED BY <1>9, <1>14, <1>15 DEF Resolved, report

(* A jump from a free place succeeds, with a contact in front or at its    *)
(* end.                                                                    *)
LEMMA FreeJump ==
  ASSUME IHand, NEW t \in Int, NEW u \in Int, t <= u, Free(t, robot.val), NEW e \in JumpTo(t, u)
  PROVE  /\ e.ok
         /\ e.found # {} => \E l \in Link : <<l, 1>> \in e.found
         /\ e.found = {} => e.at = u
<1> DEFINE report == [i \in t..u |-> Collisions(i, robot.val, Link)]
           back   == [i \in t..u |-> {k \in t..i - 1 : Resolved(k, robot.val, report[i])}]
<1>1. ~NoWayBack(report, back, u)
  <2> SUFFICES ASSUME NoWayBack(report, back, u) PROVE FALSE OBVIOUS
  <2>1. PICK i \in t..u : report[i] # {} /\ back[i] = {} BY DEF NoWayBack, Passed
  <2>2. i \in Int /\ t <= i /\ Collisions(i, robot.val, Link) # {} BY <2>1
  <2>3. PICK m \in t..i - 1 : Resolved(m, robot.val, Collisions(i, robot.val, Link)) BY <2>2, JustTouching
  <2>4. m \in back[i] BY <2>3
  <2> QED BY <2>1, <2>4
<1>2. PICK x \in Ends(report, back, u) : e = [at |-> x[1], found |-> Touching(x[1], robot.val, x[2]), ok |-> TRUE]
  BY <1>1 DEF JumpTo
<1>3. \/ x[1] = u /\ x[2] = {}
      \/ \E i \in t..u : x[2] = report[i] /\ x[1] \in back[i]
  <2>1. u \in DOMAIN back /\ DOMAIN back = t..u OBVIOUS
  <2> HIDE DEF report, back
  <2> QED BY <1>2, <2>1, EndsOf
<1>4. CASE x[1] = u /\ x[2] = {} BY <1>2, <1>4 DEF Touching
<1>5. ASSUME NEW i \in t..u, x[2] = report[i], x[1] \in back[i]
      PROVE  e.ok /\ e.found # {} /\ \E l \in Link : <<l, 1>> \in e.found
  <2>1. Resolved(x[1], robot.val, report[i]) BY <1>5
  <2>2. PICK c \in Touching(x[1], robot.val, report[i]) : TRUE BY <2>1 DEF Resolved
  <2>3. c \in Collisions(i, robot.val, Link) BY <2>2 DEF Touching
  <2>4. c \in Link \X Directions /\ c[2] = 1 BY <2>3, CollidesInFront
  <2>5. <<c[1], 1>> \in e.found
    <3>1. c = <<c[1], 1>> BY <2>4
    <3>2. c \in e.found BY <1>2, <1>5, <2>2
    <3> QED BY <3>1, <3>2
  <2> QED BY <1>2, <2>4, <2>5
<1> QED BY <1>3, <1>4, <1>5

(* findInitialContact() ends free, and in contact in front or after the    *)
(* whole way.                                                              *)
LEMMA InitialContactFound ==
  ASSUME IHand, NEW dist \in Approach, FindInitialContact(dist)
  PROVE  Found(dist)
<1>1. PICK t \in Retreated(dist) : ApproachToContact(t, IF t = tran THEN contacts ELSE {}, dist, FALSE)
  BY DEF FindInitialContact
<1>2. t \in Trans /\ Free(t, robot.val) /\ t \in Int /\ dist \in Int /\ tran \in Int /\ Trans \subseteq Int
  BY MotionAssumption DEF Retreated, IHand, Ranges
<1> DEFINE ks == IF t = tran THEN contacts ELSE {}
<1>3. FALSE \in BOOLEAN /\ ApproachToContact(t, ks, dist, FALSE) BY <1>1
<1> HIDE DEF ks
<1>4. Free(tran', robot'.val) BY <1>2, <1>3, ApproachFree
<1>5. /\ \/ /\ \E l \in Link : <<l, 1>> \in ks
            /\ tran' = t /\ contacts' = ks
         \/ \E k \in t..t + dist : \E n \in k..t + dist : \E e \in JumpTo(k, n) :
              /\ tran' = e.at /\ contacts' = e.found
              /\ ~e.ok \/ e.found # {} \/ n = t + dist
              /\ k = t \/ Free(k, robot.val)
  BY <1>2, <1>3, ApproachOf
<1>6. ASSUME NEW k \in t..t + dist, NEW n \in k..t + dist, NEW e \in JumpTo(k, n),
             tran' = e.at, contacts' = e.found, ~e.ok \/ e.found # {} \/ n = t + dist,
             k = t \/ Free(k, robot.val)
      PROVE  (\E l \in Link : <<l, 1>> \in contacts') \/ tran' - dist \in Retreated(dist)
  <2>1. k \in Int /\ n \in Int /\ k <= n /\ Free(k, robot.val) BY <1>2, <1>6
  <2>2. /\ e.ok
        /\ e.found # {} => \E l \in Link : <<l, 1>> \in e.found
        /\ e.found = {} => e.at = n
    BY <2>1, FreeJump
  <2>3. CASE e.found # {} BY <1>6, <2>2, <2>3
  <2>4. CASE e.found = {}
    <3>1. tran' = t + dist BY <1>6, <2>2, <2>4
    <3>2. tran' - dist = t BY <1>2, <3>1
    <3> QED BY <3>2
  <2> QED BY <2>3, <2>4
<1>7. (\E l \in Link : <<l, 1>> \in contacts') \/ tran' - dist \in Retreated(dist)
  BY <1>5, <1>6
<1> QED BY <1>4, <1>7 DEF Found

(* A move that ends for want of movement has brought its DOFs as far as    *)
(* they go, though getJointValuesFromDOF() stops the joints up to a link   *)
(* whatever it is that carries the link: the contact still holds them.     *)
THEOREM MovesExhaust ==
  ASSUME OneJointEach, OneInAChain
  PROVE  HandSpec => Exhausted
<1> DEFINE A == (NoMovement => MovedOut) /\ (\A d \in Approach : FindInitialContact(d) => Found(d))
<1>1. HandInit => Solo BY DEF HandInit, Solo
<1>2. IHand /\ Solo /\ [HandNext]_handVars => Solo' BY SoloKept
<1>3. ASSUME IHand, Solo PROVE A
  BY <1>3, NoMovementMovedOut, InitialContactFound
<1>4. IHand /\ Solo /\ [HandNext]_handVars => [A]_handVars BY <1>3
<1> QED BY <1>1, <1>2, <1>4, HandInvariant, PTL DEF HandSpec, Exhausted

(* Going back to where the hand is free and forward again finds the moment *)
(* of contact, whatever the hand is like.                                  *)
THEOREM ApproachFinds ==
  HandSpec => [][\A d \in Approach : FindInitialContact(d) => Found(d)]_handVars
<1> DEFINE A == \A d \in Approach : FindInitialContact(d) => Found(d)
<1>1. ASSUME IHand PROVE A BY <1>1, InitialContactFound
<1>2. IHand /\ [HandNext]_handVars => [A]_handVars BY <1>1
<1> QED BY <1>2, HandInvariant, PTL DEF HandSpec
=============================================================================
