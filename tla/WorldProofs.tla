----------------------------- MODULE WorldProofs -----------------------------
(***************************************************************************)
(* Proofs about World for any number of bodies, hands and contacts: the    *)
(* chains of destructors that delete contacts together with their mates    *)
(* leave no deleted contact in a list, and no contact outside of all lists.*)
(***************************************************************************)
EXTENDS World, FiniteSetTheorems, SequenceTheorems, TLAPS

Fields == {"alive", "mated", "cur", "prev", "num", "unset", "changed"}

(* What numContacts counts.                                                *)
Counts(k) ==
  /\ k.num \in [Body -> Int]
  /\ \A b \in Body \ k.unset : k.num[b] = Cardinality(On(k.cur, b))

(* What holds of the lists of contacts between two operations.  A current  *)
(* contact has its mate in the current list; a previous one has its mate   *)
(* in a previous list, or has forgotten it.                                *)
Lists(k) ==
  /\ DOMAIN k = Fields
  /\ k.alive \subseteq Contact
  /\ k.alive = k.cur \cup k.prev
  /\ k.cur \cap k.prev = {}
  /\ k.mated \subseteq k.alive /\ k.cur \subseteq k.mated
  /\ \A c \in k.cur : Mate(c) \in k.cur
  /\ \A c \in k.prev \cap k.mated : Mate(c) \in k.prev \cap k.mated
  /\ Counts(k)

(* The bodies of all contacts are among bs.                                *)
Within(k, bs) == \A c \in k.alive : c.on \in bs

(* The inductive invariant.  Contacts of a body that is not in the world   *)
(* would not be reset with the others.                                     *)
IInv == Lists(contacts) /\ Within(contacts, bodyVec)

-----------------------------------------------------------------------------
(* Contacts and pairs.                                                     *)

(* The mate of the mate is the contact itself.                             *)
LEMMA MateOfMate ==
  ASSUME NEW c \in Contact
  PROVE  Mate(c) \in Contact /\ Mate(Mate(c)) = c
  BY DEF Contact, Mate

(* A pair has two elements.                                                *)
LEMMA TwoBodies ==
  ASSUME NEW p \in Pairs
  PROVE  \E a, b \in Body : a # b /\ p = {a, b}
<1>1. p \subseteq Body /\ IsFiniteSet(p) /\ Cardinality(p) = 2
  BY LinksAssumption, FS_Subset DEF Pairs
<1>2. PICK a \in p : TRUE
  BY <1>1, FS_EmptySet
<1>3. IsFiniteSet(p \ {a}) /\ Cardinality(p \ {a}) = 1
  BY <1>1, <1>2, FS_RemoveElement
<1>4. PICK b \in p \ {a} : TRUE
  BY <1>3, FS_EmptySet
<1>5. /\ IsFiniteSet((p \ {a}) \ {b})
      /\ Cardinality((p \ {a}) \ {b}) = Cardinality(p \ {a}) - 1
  BY <1>3, <1>4, FS_RemoveElement
<1>6. (p \ {a}) \ {b} = {}
  BY <1>3, <1>5, FS_EmptySet
<1> QED BY <1>1, <1>2, <1>4, <1>6

(* There are finitely many contacts.                                       *)
LEMMA FiniteContacts ==
  ASSUME NEW cs \in SUBSET Contact
  PROVE  IsFiniteSet(cs) /\ Cardinality(cs) \in Nat
<1> DEFINE S == Body \X (Body \X Copies)
           T == [on : Body, against : Body, copy : Copies]
           f == [s \in S |-> [on |-> s[1], against |-> s[2][1], copy |-> s[2][2]]]
<1>1. IsFiniteSet(S)
  <2>1. IsFiniteSet(Body \X Copies)
    BY LinksAssumption, FS_Product
  <2> QED BY <2>1, LinksAssumption, FS_Product
<1>2. f \in Surjection(S, T)
  <2>1. f \in [S -> T]
    OBVIOUS
  <2>2. ASSUME NEW t \in T PROVE \E s \in S : f[s] = t
    <3>1. <<t.on, <<t.against, t.copy>>>> \in S
      OBVIOUS
    <3>2. f[<<t.on, <<t.against, t.copy>>>>] = t
      BY <3>1
    <3> QED BY <3>1, <3>2
  <2> QED BY <2>1, <2>2 DEF Surjection
<1>3. IsFiniteSet(T)
  BY <1>1, <1>2, FS_Surjection
<1>4. cs \in SUBSET T
  BY DEF Contact
<1>5. IsFiniteSet(cs)
  BY <1>3, <1>4, FS_Subset
<1> QED BY <1>5, FS_CardinalityType

(* How many contacts a body has when some go, and when new ones come.      *)
LEMMA Fewer ==
  ASSUME NEW cs \in SUBSET Contact, NEW gone \in SUBSET cs, NEW b
  PROVE  Cardinality(On(cs \ gone, b)) =
           Cardinality(On(cs, b)) - Cardinality(On(gone, b))
<1>1. IsFiniteSet(On(cs, b))
  BY FiniteContacts DEF On
<1>2. On(cs \ gone, b) = On(cs, b) \ On(gone, b)
      /\ On(cs, b) \cap On(gone, b) = On(gone, b)
  BY DEF On
<1> DEFINE S == On(cs, b)
           T == On(gone, b)
<1>3. Cardinality(S \ T) = Cardinality(S) - Cardinality(S \cap T)
  BY <1>1, FS_Difference
<1> QED BY <1>2, <1>3

(* The same for contacts that come.                                        *)
LEMMA More ==
  ASSUME NEW cs \in SUBSET Contact, NEW new \in SUBSET Contact,
         cs \cap new = {}, NEW b
  PROVE  Cardinality(On(cs \cup new, b)) =
           Cardinality(On(cs, b)) + Cardinality(On(new, b))
<1>1. On(cs, b) \in SUBSET Contact /\ On(new, b) \in SUBSET Contact
  BY DEF On
<1>2. /\ IsFiniteSet(On(cs, b)) /\ IsFiniteSet(On(new, b))
      /\ Cardinality(On(cs, b)) \in Nat /\ Cardinality(On(new, b)) \in Nat
  BY <1>1, FiniteContacts
<1>3. On(cs \cup new, b) = On(cs, b) \cup On(new, b)
      /\ On(cs, b) \cap On(new, b) = {}
  BY DEF On
<1> DEFINE S == On(cs, b)
           T == On(new, b)
<1>4. Cardinality(S \cup T) =
        Cardinality(S) + Cardinality(T) - Cardinality(S \cap T)
  BY <1>2, FS_Union
<1>5. Cardinality(S \cap T) = 0
  BY <1>3, FS_EmptySet
<1>6. Cardinality(S \cup T) = Cardinality(S) + Cardinality(T)
  BY <1>2, <1>4, <1>5
<1> QED BY <1>3, <1>6

-----------------------------------------------------------------------------
(* The operators on the lists.                                             *)

(* Hands' flags and bodies without a count say nothing of contacts.        *)
LEMMA Aside ==
  ASSUME NEW k, Lists(k), NEW ch, NEW un, k.unset \subseteq un, NEW bs
  PROVE  /\ Lists([k EXCEPT !.changed = ch])
         /\ Lists([k EXCEPT !.unset = un])
         /\ Within(k, bs) =>
              /\ Within([k EXCEPT !.changed = ch], bs)
              /\ Within([k EXCEPT !.unset = un], bs)
<1> DEFINE u == [k EXCEPT !.changed = ch]
           v == [k EXCEPT !.unset = un]
<1>1. /\ DOMAIN u = Fields
      /\ u.alive = k.alive /\ u.mated = k.mated /\ u.cur = k.cur
      /\ u.prev = k.prev /\ u.num = k.num /\ u.unset = k.unset
  BY DEF Lists, Fields
<1>2. /\ DOMAIN v = Fields
      /\ v.alive = k.alive /\ v.mated = k.mated /\ v.cur = k.cur
      /\ v.prev = k.prev /\ v.num = k.num /\ v.unset = un
  BY DEF Lists, Fields
<1> HIDE DEF u, v
<1>3. Lists(u) /\ (Within(k, bs) => Within(u, bs))
  BY <1>1 DEF Lists, Counts, Within
<1>4. Lists(v) /\ (Within(k, bs) => Within(v, bs))
  BY <1>2 DEF Lists, Counts, Within
<1> QED BY <1>3, <1>4 DEF u, v

(* Previous contacts are deleted, and nobody points to them any more.      *)
LEMMA Dropped ==
  ASSUME NEW k, Lists(k), NEW old \in SUBSET k.prev
  PROVE  /\ Lists(DropPrevious(k, old))
         /\ DropPrevious(k, old).cur = k.cur
         /\ DropPrevious(k, old).prev = k.prev \ old
         /\ DropPrevious(k, old).alive = k.alive \ old
<1> DEFINE d == DropPrevious(k, old)
<1>1. /\ DOMAIN d = Fields
      /\ d.alive = k.alive \ old
      /\ d.mated = (k.mated \ old) \ Mates(old \cap k.mated)
      /\ d.cur = k.cur /\ d.prev = k.prev \ old
      /\ d.num = k.num /\ d.unset = k.unset
  BY DEF DropPrevious, Lists, Fields
<1> HIDE DEF d
<1>2. \A c \in k.alive : Mate(Mate(c)) = c
  BY MateOfMate DEF Lists
<1>3. \A c \in Mates(old \cap k.mated) : c \in k.prev /\ Mate(c) \in old
  BY <1>2 DEF Mates, Lists
<1>4. d.cur \subseteq d.mated
  BY <1>1, <1>3 DEF Lists
<1>5. ASSUME NEW c \in d.prev \cap d.mated
      PROVE  Mate(c) \in d.prev \cap d.mated
  <2>1. c \in k.prev \ old /\ c \in k.mated /\ c \notin Mates(old \cap k.mated)
    BY <1>1, <1>5
  <2>2. Mate(c) \in k.prev \cap k.mated /\ Mate(Mate(c)) = c
    BY <2>1, <1>2 DEF Lists
  <2>3. Mate(c) \notin old
    BY <2>1, <2>2 DEF Mates
  <2>4. Mate(c) \notin Mates(old \cap k.mated)
    BY <1>3, <2>1, <2>2
  <2> QED BY <1>1, <2>2, <2>3, <2>4
<1>6. Counts(d)
  BY <1>1 DEF Lists, Counts
<1> QED BY <1>1, <1>4, <1>5, <1>6 DEF Lists, d

(* Current contacts are deleted with their mates.                          *)
LEMMA Deleted ==
  ASSUME NEW k, Lists(k), NEW own \in SUBSET k.cur
  PROVE  /\ Lists(DeleteWithMates(k, own))
         /\ DeleteWithMates(k, own).alive = k.alive \ (own \cup Mates(own))
         /\ DeleteWithMates(k, own).cur = k.cur \ (own \cup Mates(own))
<1> DEFINE d == DeleteWithMates(k, own)
           gone == own \cup Mates(own)
<1>1. own \cap k.mated = own
  BY DEF Lists
<1>2. /\ DOMAIN d = Fields
      /\ d.alive = k.alive \ gone /\ d.mated = k.mated \ gone
      /\ d.cur = k.cur \ gone /\ d.prev = k.prev
      /\ d.num = [b \in Body |-> k.num[b] - Cardinality(On(gone, b))]
      /\ d.unset = k.unset
  BY <1>1 DEF DeleteWithMates, Lists, Fields
<1> HIDE DEF d
<1>3. \A c \in k.alive : Mate(Mate(c)) = c
  BY MateOfMate DEF Lists
<1>4. gone \subseteq k.cur /\ \A c \in k.cur : Mate(c) \in gone => c \in gone
  BY <1>3 DEF Mates, Lists
<1> HIDE DEF gone
<1>5. d.alive = d.cur \cup d.prev /\ d.cur \cap d.prev = {}
      /\ d.mated \subseteq d.alive /\ d.cur \subseteq d.mated
      /\ d.alive \subseteq Contact
  BY <1>2, <1>4 DEF Lists
<1>6. \A c \in d.cur : Mate(c) \in d.cur
  BY <1>2, <1>4 DEF Lists
<1>7. \A c \in d.prev \cap d.mated : Mate(c) \in d.prev \cap d.mated
  BY <1>2, <1>4 DEF Lists
<1>8. Counts(d)
  <2>1. \A b \in Body : Cardinality(On(gone, b)) \in Int
    <3>1. \A b \in Body : On(gone, b) \in SUBSET Contact
      BY <1>4 DEF On, Lists
    <3> QED BY <3>1, FiniteContacts
  <2>2. \A b \in Body : Cardinality(On(k.cur \ gone, b)) =
                         Cardinality(On(k.cur, b)) - Cardinality(On(gone, b))
    BY <1>4, Fewer DEF Lists
  <2>3. d.num \in [Body -> Int]
    BY <1>2, <2>1 DEF Lists, Counts
  <2>4. ASSUME NEW b \in Body \ d.unset
        PROVE  d.num[b] = Cardinality(On(d.cur, b))
    <3>1. d.num[b] = k.num[b] - Cardinality(On(gone, b))
      BY <1>2
    <3>2. k.num[b] = Cardinality(On(k.cur, b))
      BY <1>2 DEF Lists, Counts
    <3> QED BY <1>2, <2>2, <3>1, <3>2
  <2> QED BY <2>3, <2>4 DEF Counts
<1> QED BY <1>2, <1>5, <1>6, <1>7, <1>8 DEF Lists, d, gone

(* breakContacts() of the bodies bs leaves none of their contacts.         *)
LEMMA Broken ==
  ASSUME NEW k, Lists(k), NEW bs, NEW all, Within(k, all)
  PROVE  /\ Lists(BreakContacts(k, bs))
         /\ Within(BreakContacts(k, bs), all \ bs)
<1> DEFINE own == OnAny(k.cur, bs)
           k1 == DeleteWithMates(k, own)
           old == OnAny(k1.prev, bs)
           k2 == DropPrevious(k1, old)
<1>1. Lists(k1) /\ k1.alive = k.alive \ (own \cup Mates(own))
      /\ k1.cur = k.cur \ (own \cup Mates(own))
  BY Deleted DEF OnAny
<1> HIDE DEF k1
<1>2. Lists(k2) /\ k2.alive = k1.alive \ old /\ k2.cur = k1.cur
  BY <1>1, Dropped DEF OnAny
<1>3. Within(k2, all \ bs)
  BY <1>1, <1>2 DEF Within, OnAny, Lists
<1> HIDE DEF k2
<1>4. BreakContacts(k, bs) =
        [k2 EXCEPT !.num = ZeroNum(k2.num, bs), !.unset = k2.unset \ bs]
  BY DEF BreakContacts, k1, k2
<1> DEFINE r == BreakContacts(k, bs)
<1>5. /\ DOMAIN r = Fields
      /\ r.alive = k2.alive /\ r.mated = k2.mated /\ r.cur = k2.cur
      /\ r.prev = k2.prev
      /\ r.num = ZeroNum(k2.num, bs) /\ r.unset = k2.unset \ bs
  BY <1>2, <1>4 DEF Lists, Fields
<1> HIDE DEF r
<1>6. \A b \in bs : Cardinality(On(r.cur, b)) = 0
  <2>1. \A b \in bs : On(r.cur, b) = {}
    BY <1>1, <1>2, <1>5 DEF On, OnAny
  <2> QED BY <2>1, FS_EmptySet
<1>7. Counts(r)
  BY <1>2, <1>5, <1>6 DEF Lists, Counts, ZeroNum
<1> QED BY <1>2, <1>3, <1>5, <1>7 DEF Lists, Within, r

(* resetContactList() of all bodies in the world: all current contacts     *)
(* become the previous ones.                                               *)
LEMMA ResetLists ==
  ASSUME NEW k, Lists(k), NEW bs, Within(k, bs)
  PROVE  /\ Lists(ResetContactList(k, bs))
         /\ Within(ResetContactList(k, bs), bs)
<1> DEFINE k1 == DropPrevious(k, OnAny(k.prev, bs))
           old == OnAny(k1.cur, bs)
           r == ResetContactList(k, bs)
<1>1. OnAny(k.prev, bs) = k.prev
  BY DEF OnAny, Within, Lists
<1>2. Lists(k1) /\ k1.cur = k.cur /\ k1.prev = {} /\ k1.alive = k.cur
  <2>1. Lists(k1) /\ k1.cur = k.cur /\ k1.prev = k.prev \ k.prev
        /\ k1.alive = k.alive \ k.prev
    BY <1>1, Dropped
  <2> HIDE DEF k1
  <2> QED BY <2>1 DEF Lists
<1> HIDE DEF k1
<1>3. old = k.cur
  BY <1>2 DEF OnAny, Within, Lists
<1> HIDE DEF old
<1>4. /\ DOMAIN r = Fields
      /\ r.alive = k.cur /\ r.cur = {} /\ r.prev = k.cur
      /\ r.mated = k1.mated
      /\ r.num = ZeroNum(k1.num, bs) /\ r.unset = k1.unset \ bs
  <2>1. r = [k1 EXCEPT !.prev = k1.prev \cup old, !.cur = k1.cur \ old,
                       !.num = ZeroNum(k1.num, bs), !.unset = k1.unset \ bs,
                       !.changed = k1.changed \cup Notified(old)]
    BY DEF ResetContactList, k1, old
  <2>2. k1.prev \cup old = k.cur /\ k1.cur \ old = {}
    BY <1>2, <1>3
  <2> HIDE DEF r
  <2> QED BY <1>2, <2>1, <2>2 DEF Lists, Fields
<1> HIDE DEF r
<1>5. \A c \in r.prev \cap r.mated : Mate(c) \in r.prev \cap r.mated
  BY <1>2, <1>4 DEF Lists
<1>6. Counts(r)
  <2>1. \A b : Cardinality(On(r.cur, b)) = 0
    BY <1>4, FS_EmptySet DEF On
  <2>2. \A b \in Body \ bs : Cardinality(On(k1.cur, b)) = 0
    <3>1. \A b \in Body \ bs : On(k1.cur, b) = {}
      BY <1>2 DEF On, Within, Lists
    <3> QED BY <3>1, FS_EmptySet
  <2> QED BY <1>2, <1>4, <2>1, <2>2 DEF Lists, Counts, ZeroNum
<1> QED BY <1>2, <1>4, <1>5, <1>6 DEF Lists, Within, r

(* What addContacts() creates for the pairs ps: new contacts, each with    *)
(* its mate.                                                               *)
LEMMA Created ==
  ASSUME NEW k, Lists(k), NEW ps \in SUBSET Pairs, HasRoom(k, ps)
  PROVE  /\ NewContacts(k, ps) \subseteq Contact
         /\ NewContacts(k, ps) \cap k.alive = {}
         /\ \A c \in NewContacts(k, ps) :
              /\ PairOf(c) \in ps /\ c.on \in UNION ps
              /\ Mate(c) \in NewContacts(k, ps)
<1> DEFINE copy(p) == CHOOSE n \in FreeCopies(k, p) : TRUE
           other(p, b) == CHOOSE a \in p : a # b
           side(p, b) == [on |-> b, against |-> other(p, b), copy |-> copy(p)]
<1>1. NewContacts(k, ps) = UNION {{side(p, b) : b \in p} : p \in ps}
  BY DEF NewContacts
<1>2. ASSUME NEW p \in ps
      PROVE  copy(p) \in FreeCopies(k, p) /\ copy(p) \in Copies
  BY DEF HasRoom, FreeCopies
<1> HIDE DEF copy
<1>3. ASSUME NEW p \in ps, NEW b \in p
      PROVE  /\ b \in Body /\ other(p, b) \in p /\ other(p, b) \in Body
             /\ other(p, b) # b /\ p = {b, other(p, b)}
             /\ other(p, other(p, b)) = b
  <2>1. PICK x, y \in Body : x # y /\ p = {x, y}
    BY <1>3, TwoBodies
  <2>2. b \in Body /\ \E a \in p : a # b
    BY <2>1
  <2>3. other(p, b) \in p /\ other(p, b) # b
    BY <2>2
  <2>4. \E a \in p : a # other(p, b)
    BY <2>3
  <2>5. other(p, other(p, b)) \in p /\ other(p, other(p, b)) # other(p, b)
    BY <2>4
  <2> HIDE DEF other
  <2> QED BY <2>1, <2>2, <2>3, <2>5
<1> HIDE DEF other
<1>4. ASSUME NEW p \in ps, NEW b \in p
      PROVE  /\ side(p, b) \in Contact /\ side(p, b) \notin k.alive
             /\ side(p, b).on \in UNION ps /\ PairOf(side(p, b)) = p
             /\ Mate(side(p, b)) = side(p, other(p, b))
  <2>1. side(p, b) \in Contact
    BY <1>2, <1>3 DEF Contact
  <2>2. PairOf(side(p, b)) = p
    BY <1>3 DEF PairOf
  <2>3. side(p, b) \notin k.alive
    BY <1>2, <2>2 DEF FreeCopies
  <2>4. Mate(side(p, b)) = side(p, other(p, b))
    BY <1>3 DEF Mate
  <2> QED BY <2>1, <2>2, <2>3, <2>4
<1> HIDE DEF side
<1>5. \A c \in NewContacts(k, ps) : \E p \in ps : \E b \in p : c = side(p, b)
  BY <1>1
<1>6. \A p \in ps : \A b \in p : side(p, b) \in NewContacts(k, ps)
  BY <1>1
<1>7. \A p \in ps : \A b \in p : Mate(side(p, b)) \in NewContacts(k, ps)
  BY <1>3, <1>4, <1>6
<1> QED BY <1>4, <1>5, <1>7

(* addContacts() for the pairs ps, some of which lie near previous ones.   *)
LEMMA AddedContacts ==
  ASSUME NEW k, Lists(k), NEW ps \in SUBSET Pairs, HasRoom(k, ps), NEW near,
         NEW bs, Within(k, bs), UNION ps \subseteq bs
  PROVE  /\ Lists(AddContacts(k, ps, near))
         /\ Within(AddContacts(k, ps, near), bs)
<1> DEFINE new == NewContacts(k, ps)
           k1 == [k EXCEPT !.alive = @ \cup new, !.mated = @ \cup new,
                           !.cur = @ \cup new,
                           !.num = [b \in Body |-> @[b] + Cardinality(On(new, b))],
                           !.changed = @ \cup Notified(new)]
<1>1. /\ new \subseteq Contact /\ new \cap k.alive = {}
      /\ \A c \in new : c.on \in UNION ps /\ Mate(c) \in new
  BY Created
<1> HIDE DEF new
<1>2. /\ DOMAIN k1 = Fields
      /\ k1.alive = k.alive \cup new /\ k1.mated = k.mated \cup new
      /\ k1.cur = k.cur \cup new /\ k1.prev = k.prev
      /\ k1.num = [b \in Body |-> k.num[b] + Cardinality(On(new, b))]
      /\ k1.unset = k.unset
  BY DEF Lists, Fields
<1>3. AddContacts(k, ps, near) = Inherit(k1, near)
  BY DEF AddContacts, new
<1> HIDE DEF k1
<1>4. \A c \in k1.prev \cap k1.mated : Mate(c) \in k1.prev \cap k1.mated
  BY <1>1, <1>2 DEF Lists
<1>5. \A c \in k1.cur : Mate(c) \in k1.cur
  BY <1>1, <1>2 DEF Lists
<1>a. Counts(k1)
  <2>1. \A b \in Body : Cardinality(On(new, b)) \in Int
    <3>1. \A b \in Body : On(new, b) \in SUBSET Contact
      BY <1>1 DEF On
    <3> QED BY <3>1, FiniteContacts
  <2>2. k.cur \in SUBSET Contact /\ k.cur \cap new = {}
    BY <1>1 DEF Lists
  <2>3. \A b \in Body : Cardinality(On(k.cur \cup new, b)) =
                         Cardinality(On(k.cur, b)) + Cardinality(On(new, b))
    BY <1>1, <2>2, More
  <2>4. k1.num \in [Body -> Int]
    BY <1>2, <2>1 DEF Lists, Counts
  <2>5. ASSUME NEW b \in Body \ k1.unset
        PROVE  k1.num[b] = Cardinality(On(k1.cur, b))
    <3>1. k1.num[b] = k.num[b] + Cardinality(On(new, b))
      BY <1>2
    <3>2. k.num[b] = Cardinality(On(k.cur, b))
      BY <1>2 DEF Lists, Counts
    <3> QED BY <1>2, <2>3, <3>1, <3>2
  <2> QED BY <2>4, <2>5 DEF Counts
<1>6. Lists(k1) /\ Within(k1, bs)
  BY <1>1, <1>2, <1>4, <1>5, <1>a DEF Lists, Within
<1>7. OfPairs(k1.prev, near) \in SUBSET k1.prev
  BY DEF OfPairs
<1>8. Lists(Inherit(k1, near)) /\ Inherit(k1, near).alive \subseteq k1.alive
  BY <1>6, <1>7, Dropped DEF Inherit
<1> QED BY <1>3, <1>6, <1>8 DEF Within

(* findContacts(): the contacts between the pairs ps are replaced.         *)
LEMMA FoundPairs ==
  ASSUME NEW k, Lists(k), NEW ps \in SUBSET Pairs, HasRoom(k, ps), NEW near,
         NEW bs, Within(k, bs), UNION ps \subseteq bs
  PROVE  Lists(FindPairs(k, ps, near)) /\ Within(FindPairs(k, ps, near), bs)
<1> DEFINE d == RemoveContacts(k, ps)
<1>1. Lists(d) /\ d.alive \subseteq k.alive
  BY Deleted DEF RemoveContacts, OfPairs
<1> HIDE DEF d
<1>2. HasRoom(d, ps)
  BY <1>1 DEF HasRoom, FreeCopies
<1>3. Within(d, bs)
  BY <1>1 DEF Within
<1>4. FindPairs(k, ps, near) = AddContacts(d, ps, near)
  BY DEF FindPairs, d
<1> QED BY <1>1, <1>2, <1>3, <1>4, AddedContacts

-----------------------------------------------------------------------------
(* The operations of the world.                                            *)

(* An empty world has no contacts.                                         *)
LEMMA InvInit == Init => IInv
<1>1. Counts(NoContacts)
  <2>1. \A b : Cardinality(On({}, b)) = 0
    BY FS_EmptySet DEF On
  <2> QED BY <2>1 DEF Counts, NoContacts
<1> QED BY <1>1 DEF Init, IInv, Lists, Within, NoContacts, Fields

(* An operation that leaves the contacts alone, or only resets flags.      *)
LEMMA FlagsStep ==
  ASSUME IInv, bodyVec \subseteq bodyVec', NEW ch,
         contacts' = contacts \/ contacts' = [contacts EXCEPT !.changed = ch]
  PROVE  IInv'
<1>1. CASE contacts' = contacts
  BY <1>1 DEF IInv, Lists, Within
<1>2. CASE contacts' = [contacts EXCEPT !.changed = ch]
  <2>1. Lists(contacts') /\ Within(contacts', bodyVec)
    BY <1>2, Aside DEF IInv
  <2> QED BY <2>1 DEF IInv, Within
<1> QED BY <1>1, <1>2

(* An operation that breaks the contacts of the bodies that go or move.    *)
LEMMA BreakStep ==
  ASSUME IInv, NEW bs, bodyVec \ bs \subseteq bodyVec',
         contacts' = BreakContacts(contacts, bs)
  PROVE  IInv'
<1>1. Lists(contacts') /\ Within(contacts', bodyVec \ bs)
  BY Broken DEF IInv
<1> QED BY <1>1 DEF IInv, Within

(* addBody(): the grasps may be updated.                                   *)
LEMMA AddBodyStep ==
  ASSUME IInv, NEW b, AddBody(b, contacts)
  PROVE  IInv'
<1>1. bodyVec \subseteq bodyVec'
  BY DEF AddBody
<1>2. \/ contacts' = contacts
      \/ contacts' = [contacts EXCEPT !.changed = contacts.changed \ Hands]
  BY DEF AddBody, UpdateGrasps, NoUpdate
<1> QED BY <1>1, <1>2, FlagsStep

(* A body goes with its contacts.                                          *)
LEMMA DestroyBodyStep ==
  ASSUME IInv, NEW b, DestroyBody(b, TRUE)
  PROVE  IInv'
<1>1. PICK ch :
        contacts' = BreakContacts([contacts EXCEPT !.changed = ch], {b})
  BY DEF DestroyBody
<1> DEFINE k == [contacts EXCEPT !.changed = ch]
<1>2. Lists(k) /\ Within(k, bodyVec)
  BY Aside DEF IInv
<1> HIDE DEF k
<1>3. Lists(contacts') /\ Within(contacts', bodyVec \ {b})
  BY <1>1, <1>2, Broken DEF k
<1> QED BY <1>3 DEF IInv, DestroyBody

(* A body takes the place of another.                                      *)
LEMMA MakeBodyDynamicStep ==
  ASSUME IInv, NEW b, NEW d, MakeBodyDynamic(b, d)
  PROVE  IInv'
<1> DEFINE k1 == BreakContacts(contacts, {b})
           k2 == [k1 EXCEPT !.unset = k1.unset \cup {d}]
<1>1. PICK found \in Reports(Cross({d}, bodyVec \ {b})) :
        HasRoom(k2, found) /\ \E near : contacts' = AddContacts(k2, found, near)
  BY DEF MakeBodyDynamic
<1>2. Lists(k1) /\ Within(k1, bodyVec \ {b})
  BY Broken DEF IInv
<1> HIDE DEF k1
<1>3. Lists(k2) /\ Within(k2, bodyVec \ {b})
  BY <1>2, Aside
<1> HIDE DEF k2
<1>4. found \in SUBSET Pairs /\ UNION found \subseteq bodyVec'
      /\ bodyVec \ {b} \subseteq bodyVec'
  BY <1>1 DEF Reports, Cross, MakeBodyDynamic
<1>5. Within(k2, bodyVec')
  BY <1>3, <1>4 DEF Within
<1> QED BY <1>1, <1>3, <1>4, <1>5, AddedContacts DEF IInv

(* A search for contacts after a move.                                     *)
LEMMA MoveStep ==
  ASSUME IInv, NEW e, NEW moved, Move(e, moved)
  PROVE  IInv'
<1> DEFINE k == BreakContacts(contacts, moved)
<1>1. PICK found \in Reports(Searched \cap Cross(moved, bodyVec)) :
        HasRoom(k, found) /\ \E near : UpdateChanged(FindPairs(k, found, near))
  BY DEF Move
<1>2. Lists(k) /\ Within(k, bodyVec)
  <2>1. Lists(k) /\ Within(k, bodyVec \ moved)
    BY Broken DEF IInv
  <2> QED BY <2>1 DEF Within
<1> HIDE DEF k
<1>3. found \in SUBSET Pairs /\ UNION found \subseteq bodyVec
  BY <1>1 DEF Reports, Searched, ActivePairs
<1>. PICK near : UpdateChanged(FindPairs(k, found, near))
  BY <1>1
<1> DEFINE f == FindPairs(k, found, near)
<1>4. Lists(f) /\ Within(f, bodyVec)
  BY <1>1, <1>2, <1>3, FoundPairs
<1> HIDE DEF f
<1>5. PICK ch : contacts' = [f EXCEPT !.changed = ch]
  BY <1>1 DEF UpdateChanged, UpdateGrasps, f
<1>6. bodyVec' = bodyVec
  BY DEF Move, worldVars
<1> QED BY <1>4, <1>5, <1>6, Aside DEF IInv

(* findAllContacts(), whichever pairs it searches.                         *)
LEMMA FoundAll ==
  ASSUME IInv, NEW ps \in SUBSET Pairs, UNION ps \subseteq bodyVec,
         NEW k \in FindAllContacts(ps)
  PROVE  Lists(k) /\ Within(k, bodyVec)
<1> DEFINE r == ResetContactList(contacts, bodyVec)
<1>1. PICK found \in Reports(ps) :
        HasRoom(r, found) /\ \E near : k = AddContacts(r, found, near)
  BY DEF FindAllContacts
<1>2. Lists(r) /\ Within(r, bodyVec)
  BY ResetLists DEF IInv
<1>3. found \in SUBSET Pairs /\ UNION found \subseteq bodyVec
  BY <1>1 DEF Reports
<1> HIDE DEF r
<1> QED BY <1>1, <1>2, <1>3, AddedContacts

(* A planner looks at the state of its hand.                               *)
LEMMA AnalyzeStep == ASSUME IInv, Analyze PROVE IInv'
<1>1. Searched \in SUBSET Pairs /\ UNION Searched \subseteq bodyVec
  BY DEF Searched, ActivePairs
<1>2. PICK k \in FindAllContacts(Searched) : UpdateChanged(k)
  BY DEF Analyze
<1>3. Lists(k) /\ Within(k, bodyVec)
  BY <1>1, <1>2, FoundAll
<1>4. PICK ch : contacts' = [k EXCEPT !.changed = ch]
  BY <1>2 DEF UpdateChanged, UpdateGrasps
<1>5. bodyVec' = bodyVec
  BY DEF Analyze, worldVars
<1> QED BY <1>3, <1>4, <1>5, Aside DEF IInv

(* Collisions are turned on or off.                                        *)
LEMMA ToggleStep ==
  ASSUME IInv, NEW on, NEW qs, ToggleAllCollisions(on, qs)
  PROVE  IInv'
<1> DEFINE ps == IF allCollisionsOFF' THEN {}
                 ELSE {p \in Pairs \ disabled' : p \subseteq bodyVec}
<1>1. ps \in SUBSET Pairs /\ UNION ps \subseteq bodyVec
  OBVIOUS
<1>2. contacts' \in FindAllContacts(ps)
  BY DEF ToggleAllCollisions, NoUpdate
<1> HIDE DEF ps
<1>3. Lists(contacts') /\ Within(contacts', bodyVec)
  BY <1>1, <1>2, FoundAll
<1>4. bodyVec' = bodyVec
  BY DEF ToggleAllCollisions, worldVars
<1> QED BY <1>3, <1>4 DEF IInv

(* The operations on hands.                                                *)
LEMMA HandStep ==
  ASSUME IInv, NEW h \in Hand,
         \/ ImportHand(h) \/ DestroyHand(h) \/ PoseHand(h)
         \/ \E g \in Hand : CloneHand(g, h)
         \/ \E o \in Object : SetObject(h, o) \/ SetObjectNoUpdate(h, o)
  PROVE  IInv'
<1>1. CASE ImportHand(h) \/ \E g \in Hand : CloneHand(g, h)
  <2>1. contacts' = [contacts EXCEPT !.changed = contacts.changed \ {h}]
        /\ bodyVec \subseteq bodyVec'
    BY <1>1 DEF ImportHand, CloneHand, AddRobot
  <2> QED BY <2>1, FlagsStep
<1>2. CASE DestroyHand(h)
  <2>1. contacts' = BreakContacts(contacts, Links[h])
        /\ bodyVec' = bodyVec \ Links[h]
    BY <1>2 DEF DestroyHand
  <2> QED BY <2>1, BreakStep
<1>3. CASE PoseHand(h)
  <2>1. contacts' = BreakContacts(contacts, Links[h]) /\ bodyVec' = bodyVec
    BY <1>3 DEF PoseHand, worldVars
  <2> QED BY <2>1, BreakStep
<1>4. CASE \E o \in Object : SetObject(h, o)
  <2>1. contacts' = [contacts EXCEPT !.changed = contacts.changed \ {h}]
        /\ bodyVec' = bodyVec
    BY <1>4 DEF SetObject, UpdateGrasps, worldVars
  <2> QED BY <2>1, FlagsStep
<1>5. CASE \E o \in Object : SetObjectNoUpdate(h, o)
  <2>1. contacts' = contacts /\ bodyVec' = bodyVec
    BY <1>5 DEF SetObjectNoUpdate, worldVars
  <2> QED BY <2>1, FlagsStep
<1> QED BY <1>1, <1>2, <1>3, <1>4, <1>5

(* Every operation keeps the invariant.                                    *)
LEMMA InvNext == IInv /\ [Next]_vars => IInv'
<1> SUFFICES ASSUME IInv, [Next]_vars PROVE IInv'
  OBVIOUS
<1>1. CASE \E b \in Object \cup Obstacle : ImportBody(b)
  BY <1>1, AddBodyStep DEF ImportBody
<1>2. CASE \E b \in Object \cup Obstacle : PlaceBody(b)
  <2>1. PICK b : contacts' = BreakContacts(contacts, {b}) /\ bodyVec' = bodyVec
    BY <1>2 DEF PlaceBody, worldVars
  <2> QED BY <2>1, BreakStep
<1>3. CASE \E b \in Object \cup Obstacle : DestroyBody(b, TRUE)
  BY <1>3, DestroyBodyStep
<1>4. CASE \E b \in Object \cup Obstacle, d \in Obstacle : MakeBodyDynamic(b, d)
  BY <1>4, MakeBodyDynamicStep
<1>5. CASE \E h \in Hand :
             \/ ImportHand(h) \/ DestroyHand(h) \/ PoseHand(h)
             \/ \E g \in Hand : CloneHand(g, h)
             \/ \E o \in Object : SetObject(h, o) \/ SetObjectNoUpdate(h, o)
  BY <1>5, HandStep
<1>6. CASE \E e \in Object \cup Obstacle \cup Hand : \E moved \in SUBSET Parts(e) : Move(e, moved)
  BY <1>6, MoveStep
<1>7. CASE Analyze
  BY <1>7, AnalyzeStep
<1>8. CASE \E on \in BOOLEAN, ps \in Selections : ToggleAllCollisions(on, ps)
  BY <1>8, ToggleStep
<1>9. CASE UNCHANGED vars
  BY <1>9 DEF vars, worldVars, graspVars, IInv, Lists, Within
<1> QED BY <1>1, <1>2, <1>3, <1>4, <1>5, <1>6, <1>7, <1>8, <1>9 DEF Next

(* However many bodies, hands and contacts there are: a contact exists     *)
(* exactly as long as it is in a list of its body, though destructors of   *)
(* contacts delete other contacts from the lists of other bodies.          *)
THEOREM NothingEverDangles == Spec => []NoDangling
<1>1. IInv => NoDangling
  BY DEF IInv, Lists, NoDangling
<1> QED BY InvInit, InvNext, <1>1, PTL DEF Spec

(* A contact on one body is there with its mate on the other, or not at    *)
(* all, and every body counts its contacts, also those that were deleted   *)
(* from another body's side.                                               *)
THEOREM AlwaysPaired == Spec => [](Mated /\ Counted)
<1>1. IInv => Mated /\ Counted
  BY DEF IInv, Lists, Counts, Mated, Counted
<1> QED BY InvInit, InvNext, <1>1, PTL DEF Spec

-----------------------------------------------------------------------------
(* The lists of the world.                                                 *)

(* The links of a hand that is not in the world are not there either.      *)
Absent == \A h \in Hand \ Hands : Links[h] \cap bodyVec = {}

(* What TypeOK says of the bodies and hands.                               *)
BodiesOK ==
  /\ bodyVec \subseteq Body /\ kept \subseteq Object \cup Obstacle /\ kept \cap bodyVec = {}
  /\ GBVec \in Seq(Object) /\ Graspable = bodyVec \cap Object /\ IsInjective(GBVec)
  /\ handVec \in Seq(Hand) /\ IsInjective(handVec)
  /\ dynamic \subseteq Obstacle \cap (bodyVec \cup kept)

(* What it says of collisions.                                             *)
CollisionsOK ==
  disabled \subseteq Pairs /\ allCollisionsOFF \in BOOLEAN /\ toggled \in 0..MaxToggles

(* An element is erased from a list: the rest stays, in its order.         *)
LEMMA ErasedList ==
  ASSUME NEW S, NEW list \in Seq(S), IsInjective(list), NEW e
  PROVE  /\ Erased(list, e) \in Seq(S) /\ IsInjective(Erased(list, e))
         /\ ToSet(Erased(list, e)) = ToSet(list) \ {e}
<1> DEFINE here == {i \in DOMAIN list : list[i] = e}
           new == Erased(list, e)
<1>1. CASE here = {}
  <2>1. new = list
    BY <1>1 DEF Erased
  <2> QED BY <1>1, <2>1 DEF ToSet
<1>2. CASE here # {}
  <2>1. PICK i \in here : here = {i}
    BY <1>2 DEF IsInjective
  <2>2. i \in 1..Len(list) /\ Len(list) \in Nat /\ list[i] = e /\ i <= i
    BY <2>1
  <2>3. new = RemoveAt(list, i)
    BY <1>2, <2>1, <2>2 DEF Erased
  <2> HIDE DEF new, here
  <2> DEFINE n == Len(list)
             A == SubSeq(list, 1, i - 1)
             B == SubSeq(list, i + 1, n)
  <2>4. /\ A \in Seq(S) /\ Len(A) = i - 1 /\ \A k \in 1..(i - 1) : A[k] = list[k]
        /\ B \in Seq(S) /\ Len(B) = n - i /\ \A k \in 1..(n - i) : B[k] = list[i + k]
    BY <2>2
  <2>5. new = A \o B
    BY <2>3 DEF RemoveAt
  <2> HIDE DEF A, B
  <2>6. /\ A \o B \in Seq(S) /\ Len(A \o B) = Len(A) + Len(B)
        /\ \A k \in 1..(Len(A) + Len(B)) :
             (A \o B)[k] = IF k <= Len(A) THEN A[k] ELSE B[k - Len(A)]
    <3>1. A \in Seq(S) /\ B \in Seq(S)
      BY <2>4
    <3> QED BY <3>1, ConcatProperties
  <2>7. new \in Seq(S) /\ Len(new) = n - 1 /\ DOMAIN new = 1..(n - 1)
    BY <2>2, <2>4, <2>5, <2>6
  <2>8. ASSUME NEW k \in 1..(n - 1)
        PROVE  new[k] = IF k < i THEN list[k] ELSE list[k + 1]
    <3>1. CASE k < i
      BY <2>2, <2>4, <2>5, <2>6, <3>1
    <3>2. CASE ~(k < i)
      <4>1. k - (i - 1) \in 1..(n - i) /\ ~(k <= Len(A)) /\ i + (k - (i - 1)) = k + 1
        BY <2>2, <2>4, <3>2
      <4>2. new[k] = B[k - (i - 1)]
        BY <2>2, <2>4, <2>5, <2>6, <4>1
      <4> QED BY <2>4, <3>2, <4>1, <4>2
    <3> QED BY <3>1, <3>2
  <2>9. IsInjective(new)
    <3>1. \A a, b \in 1..n : list[a] = list[b] => a = b
      BY DEF IsInjective
    <3> SUFFICES ASSUME NEW a \in 1..(n - 1), NEW b \in 1..(n - 1), new[a] = new[b]
                 PROVE  a = b
      BY <2>7 DEF IsInjective
    <3> DEFINE was(k) == IF k < i THEN k ELSE k + 1
    <3>2. new[a] = list[was(a)] /\ new[b] = list[was(b)]
      BY <2>8
    <3>3. was(a) \in 1..n /\ was(b) \in 1..n
      BY <2>2
    <3>4. was(a) = was(b)
      <4> HIDE DEF was
      <4> QED BY <3>1, <3>2, <3>3
    <3> QED BY <2>2, <3>4
  <2>10. ASSUME NEW k \in DOMAIN new PROVE new[k] \in ToSet(list) \ {e}
    <3>1. k \in 1..(Len(list) - 1)
      BY <2>7, <2>10
    <3>2. CASE k < i
      BY <2>2, <2>8, <3>1, <3>2 DEF ToSet, IsInjective
    <3>3. CASE ~(k < i)
      <4>1. k + 1 \in DOMAIN list /\ k + 1 # i
        BY <2>2, <3>1, <3>3
      <4>2. new[k] = list[k + 1]
        BY <2>8, <3>1, <3>3
      <4> QED BY <2>2, <4>1, <4>2 DEF ToSet, IsInjective
    <3> QED BY <3>2, <3>3
  <2>11. ASSUME NEW x \in ToSet(list) \ {e} PROVE x \in ToSet(new)
    <3>1. PICK j \in 1..Len(list) : list[j] = x
      BY <2>11 DEF ToSet
    <3>2. j # i
      BY <2>2, <2>11, <3>1
    <3>3. CASE j < i
      BY <2>2, <2>7, <2>8, <3>1, <3>3 DEF ToSet
    <3>4. CASE j > i
      <4>1. j - 1 \in 1..(Len(list) - 1) /\ new[j - 1] = list[j]
        BY <2>2, <2>8, <3>1, <3>4
      <4> QED BY <2>7, <3>1, <4>1 DEF ToSet
    <3> QED BY <2>2, <3>1, <3>2, <3>3, <3>4
  <2> QED BY <2>7, <2>9, <2>10, <2>11 DEF ToSet, new
<1> QED BY <1>1, <1>2

(* An element that is not in a list comes to its end.                      *)
LEMMA AppendedList ==
  ASSUME NEW S, NEW list \in Seq(S), IsInjective(list), NEW e \in S, e \notin ToSet(list)
  PROVE  /\ Append(list, e) \in Seq(S) /\ IsInjective(Append(list, e))
         /\ ToSet(Append(list, e)) = ToSet(list) \cup {e}
<1> DEFINE new == Append(list, e)
<1>1. /\ new \in Seq(S) /\ Len(new) = Len(list) + 1 /\ Len(list) \in Nat
      /\ \A k \in 1..Len(list) : new[k] = list[k]
      /\ new[Len(list) + 1] = e
  OBVIOUS
<1> HIDE DEF new
<1>2. \A k \in 1..Len(list) : list[k] # e
  BY DEF ToSet
<1>3. IsInjective(new)
  BY <1>1, <1>2 DEF IsInjective
<1>4. ToSet(new) = ToSet(list) \cup {e}
  <2>1. DOMAIN new = 1..(Len(list) + 1) /\ DOMAIN list = 1..Len(list)
    BY <1>1
  <2>2. ASSUME NEW k \in DOMAIN new PROVE new[k] \in ToSet(list) \cup {e}
    BY <1>1, <2>1 DEF ToSet
  <2>3. ToSet(list) \subseteq ToSet(new) /\ e \in ToSet(new)
    BY <1>1, <2>1 DEF ToSet
  <2> QED BY <2>2, <2>3 DEF ToSet
<1> QED BY <1>1, <1>3, <1>4 DEF new
-----------------------------------------------------------------------------
(* Bodies and hands.                                                       *)

(* Lists that hold what the sets hold.                                     *)
LEMMA BodiesInit == Init => BodiesOK /\ Absent /\ CollisionsOK
<1> SUFFICES ASSUME Init PROVE BodiesOK /\ Absent /\ CollisionsOK
  OBVIOUS
<1>1. /\ bodyVec = {} /\ GBVec = <<>> /\ handVec = <<>> /\ kept = {} /\ dynamic = {}
      /\ disabled = {} /\ allCollisionsOFF = FALSE /\ toggled = 0
  BY DEF Init
<1>2. DOMAIN GBVec = {} /\ DOMAIN handVec = {}
  BY <1>1
<1>3. BodiesOK /\ Absent
  BY <1>1, <1>2 DEF BodiesOK, Absent, Graspable, ToSet, IsInjective
<1>4. CollisionsOK
  <2>1. 0 \in 0..MaxToggles
    BY WorldAssumption
  <2>2. disabled \subseteq Pairs /\ allCollisionsOFF \in BOOLEAN
    BY <1>1
  <2> QED BY <1>1, <2>1, <2>2 DEF CollisionsOK
<1> QED BY <1>3, <1>4

(* A body comes into the world.                                            *)
LEMMA BodyComes ==
  ASSUME BodiesOK, Absent, NEW b \in (Object \cup Obstacle) \ bodyVec,
         bodyVec' = bodyVec \cup {b},
         GBVec' = IF b \in Object THEN Append(GBVec, b) ELSE GBVec,
         handVec' = handVec, kept' = kept \/ kept' = kept \ {b}, b \notin kept',
         dynamic' = dynamic
  PROVE  BodiesOK' /\ Absent'
<1>1. b \in Body /\ \A h \in Hand : b \notin Links[h]
  BY WorldAssumption
<1>2. GBVec' \in Seq(Object) /\ IsInjective(GBVec')
      /\ ToSet(GBVec') = (bodyVec \cup {b}) \cap Object
  <2>1. CASE b \in Object
    BY <2>1, AppendedList DEF BodiesOK, Graspable
  <2>2. CASE b \notin Object
    BY <2>2 DEF BodiesOK, Graspable
  <2> QED BY <2>1, <2>2
<1>3. BodiesOK'
  BY <1>1, <1>2 DEF BodiesOK, Graspable
<1>4. Absent'
  BY <1>1 DEF Absent, Hands
<1> QED BY <1>3, <1>4

(* A body goes.                                                            *)
LEMMA BodyGoes ==
  ASSUME BodiesOK, Absent, NEW b, DestroyBody(b, TRUE)
  PROVE  BodiesOK' /\ Absent'
<1>1. /\ bodyVec' = bodyVec \ {b} /\ GBVec' = Erased(GBVec, b)
      /\ handVec' = handVec /\ kept' = kept /\ dynamic' = dynamic \ {b}
  BY DEF DestroyBody
<1>2. GBVec' \in Seq(Object) /\ IsInjective(GBVec')
      /\ ToSet(GBVec') = (bodyVec \ {b}) \cap Object
  BY <1>1, ErasedList DEF BodiesOK, Graspable
<1>3. BodiesOK'
  BY <1>1, <1>2 DEF BodiesOK, Graspable
<1>4. Absent'
  BY <1>1 DEF Absent, Hands
<1> QED BY <1>3, <1>4

(* A dynamic body takes the place of an obstacle.                          *)
LEMMA BodyReplaced ==
  ASSUME BodiesOK, Absent, NEW b, NEW d, MakeBodyDynamic(b, d)
  PROVE  BodiesOK' /\ Absent'
<1>1. /\ b \in (bodyVec \cap Obstacle) \ dynamic /\ d \in Obstacle \ (bodyVec \cup kept)
      /\ bodyVec' = (bodyVec \ {b}) \cup {d} /\ dynamic' = dynamic \cup {d}
      /\ GBVec' = GBVec /\ handVec' = handVec /\ kept' = kept
  BY DEF MakeBodyDynamic
<1>2. /\ d \in Body /\ b \notin Object /\ d \notin Object
      /\ \A h \in Hand : d \notin Links[h]
  BY <1>1, WorldAssumption
<1>3. BodiesOK'
  BY <1>1, <1>2 DEF BodiesOK, Graspable
<1>4. Absent'
  BY <1>1, <1>2 DEF Absent, Hands
<1> QED BY <1>3, <1>4

(* A hand comes with its links.                                            *)
LEMMA HandComes ==
  ASSUME BodiesOK, Absent, NEW h \in Hand \ Hands, NEW obj, AddRobot(h, obj),
         GBVec' = GBVec, kept' = kept, dynamic' = dynamic
  PROVE  BodiesOK' /\ Absent' /\ Hands' = Hands \cup {h}
<1>1. bodyVec' = bodyVec \cup Links[h] /\ handVec' = Append(handVec, h)
  BY DEF AddRobot
<1>2. /\ Links[h] \subseteq Body /\ Links[h] \cap (Object \cup Obstacle) = {}
      /\ \A g \in Hand : g # h => Links[g] \cap Links[h] = {}
  BY LinksAssumption, WorldAssumption
<1>3. handVec' \in Seq(Hand) /\ IsInjective(handVec') /\ Hands' = Hands \cup {h}
  BY <1>1, AppendedList DEF BodiesOK, Hands
<1>4. BodiesOK'
  BY <1>1, <1>2, <1>3 DEF BodiesOK, Graspable
<1>5. Absent'
  BY <1>1, <1>2, <1>3 DEF Absent
<1> QED BY <1>3, <1>4, <1>5

(* A hand goes with its links.                                             *)
LEMMA HandGoes ==
  ASSUME BodiesOK, Absent, NEW h \in Hand, DestroyHand(h)
  PROVE  BodiesOK' /\ Absent' /\ Hands' = Hands \ {h}
<1>1. /\ bodyVec' = bodyVec \ Links[h] /\ handVec' = Erased(handVec, h)
      /\ GBVec' = GBVec /\ kept' = kept /\ dynamic' = dynamic
  BY DEF DestroyHand
<1>2. Links[h] \subseteq Body /\ Links[h] \cap (Object \cup Obstacle) = {}
  BY LinksAssumption, WorldAssumption
<1>3. handVec' \in Seq(Hand) /\ IsInjective(handVec') /\ Hands' = Hands \ {h}
  BY <1>1, ErasedList DEF BodiesOK, Hands
<1>4. BodiesOK'
  BY <1>1, <1>2, <1>3 DEF BodiesOK, Graspable
<1>5. Absent'
  BY <1>1, <1>2, <1>3 DEF Absent
<1> QED BY <1>3, <1>4, <1>5

(* Every operation keeps the lists of the world.                           *)
LEMMA BodiesNext == BodiesOK /\ Absent /\ [Next]_vars => BodiesOK' /\ Absent'
<1> SUFFICES ASSUME BodiesOK, Absent, [Next]_vars PROVE BodiesOK' /\ Absent'
  OBVIOUS
<1>1. CASE UNCHANGED worldVars
  BY <1>1 DEF worldVars, BodiesOK, Absent, Graspable, Hands
<1>2. ASSUME NEW b \in Object \cup Obstacle, ImportBody(b) PROVE BodiesOK' /\ Absent'
  BY <1>2, BodyComes DEF ImportBody, AddBody
<1>3. ASSUME NEW b \in Object \cup Obstacle, DestroyBody(b, TRUE) PROVE BodiesOK' /\ Absent'
  BY <1>3, BodyGoes
<1>4. ASSUME NEW b \in Object \cup Obstacle, NEW d \in Obstacle, MakeBodyDynamic(b, d)
      PROVE  BodiesOK' /\ Absent'
  BY <1>4, BodyReplaced
<1>5. ASSUME NEW h \in Hand, ImportHand(h) \/ \E g \in Hand : CloneHand(g, h)
      PROVE  BodiesOK' /\ Absent'
  BY <1>5, HandComes DEF ImportHand, CloneHand
<1>6. ASSUME NEW h \in Hand, DestroyHand(h) PROVE BodiesOK' /\ Absent'
  BY <1>6, HandGoes
<1>7. Next => \/ UNCHANGED worldVars
              \/ \E b \in Object \cup Obstacle :
                   \/ ImportBody(b) \/ DestroyBody(b, TRUE)
                   \/ \E d \in Obstacle : MakeBodyDynamic(b, d)
              \/ \E h \in Hand : \/ ImportHand(h) \/ DestroyHand(h)
                                 \/ \E g \in Hand : CloneHand(g, h)
  BY DEF Next, PlaceBody, PoseHand, SetObject, SetObjectNoUpdate, Move, Analyze,
         ToggleAllCollisions
<1>8. CASE UNCHANGED vars
  BY <1>1, <1>8 DEF vars
<1> QED BY <1>1, <1>2, <1>3, <1>4, <1>5, <1>6, <1>7, <1>8

(* Every operation keeps collision detection in its range.                 *)
LEMMA CollisionsNext == CollisionsOK /\ [Next]_vars => CollisionsOK'
<1> SUFFICES ASSUME CollisionsOK, [Next]_vars PROVE CollisionsOK'
  OBVIOUS
<1>1. CASE UNCHANGED collisionVars
  BY <1>1 DEF collisionVars, CollisionsOK
<1>2. ASSUME NEW h \in Hand, ImportHand(h) \/ \E g \in Hand : CloneHand(g, h)
      PROVE  CollisionsOK'
  <2>1. WithinChains(h) \subseteq Pairs
    BY DEF WithinChains, Cross
  <2> QED BY <1>2, <2>1 DEF ImportHand, CloneHand, CollisionsOK, Cross
<1>3. ASSUME NEW on \in BOOLEAN, NEW ps \in Selections, ToggleAllCollisions(on, ps)
      PROVE  CollisionsOK'
  <2>1. ps \subseteq Pairs
    BY DEF Selections, Cross
  <2>2. toggled' \in 0..MaxToggles
    BY <1>3, WorldAssumption DEF CollisionsOK, ToggleAllCollisions
  <2>3. disabled' \subseteq Pairs /\ allCollisionsOFF' \in BOOLEAN
    <3>1. CASE ps = {}
      BY <1>3, <3>1 DEF CollisionsOK, ToggleAllCollisions
    <3>2. CASE ps # {}
      BY <1>3, <2>1, <3>2 DEF CollisionsOK, ToggleAllCollisions
    <3> QED BY <3>1, <3>2
  <2> QED BY <2>2, <2>3 DEF CollisionsOK
<1>4. Next => \/ UNCHANGED collisionVars
              \/ \E h \in Hand : ImportHand(h) \/ \E g \in Hand : CloneHand(g, h)
              \/ \E on \in BOOLEAN, ps \in Selections : ToggleAllCollisions(on, ps)
  BY DEF Next, ImportBody, PlaceBody, DestroyBody, MakeBodyDynamic, DestroyHand, PoseHand,
         SetObject, SetObjectNoUpdate, Move, Analyze, collisionVars
<1>5. CASE UNCHANGED vars
  BY <1>1, <1>5 DEF vars
<1> QED BY <1>1, <1>2, <1>3, <1>4, <1>5
-----------------------------------------------------------------------------
(* What hands are told of their contacts.                                  *)

(* From k to k1, a hand whose flag is not set kept the contacts it had.    *)
Told(k, k1) ==
  /\ k.changed \subseteq k1.changed /\ k1.changed \subseteq k.changed \cup Hand
  /\ \A h \in Hand \ k1.changed : OnAny(k1.cur, Links[h]) = OnAny(k.cur, Links[h])

LEMMA ToldChain ==
  ASSUME NEW k, NEW k1, NEW k2, Told(k, k1), Told(k1, k2)
  PROVE  Told(k, k2)
  BY DEF Told

(* Contacts that are deleted or dropped.                                   *)
LEMMA ToldOfDeleted ==
  ASSUME NEW k, Lists(k), NEW own \in SUBSET k.cur
  PROVE  Told(k, DeleteWithMates(k, own)) /\ DeleteWithMates(k, own).cur \subseteq k.cur
<1> DEFINE d == DeleteWithMates(k, own)
           gone == own \cup Mates(own \cap k.mated)
<1>1. d.cur = k.cur \ gone /\ d.changed = k.changed \cup Notified(gone)
  BY DEF DeleteWithMates, Lists, Fields
<1> HIDE DEF d, gone
<1>2. \A h \in Hand \ d.changed : OnAny(gone, Links[h]) = {}
  BY <1>1 DEF Notified
<1>3. \A h \in Hand \ d.changed : OnAny(d.cur, Links[h]) = OnAny(k.cur, Links[h])
  BY <1>1, <1>2 DEF OnAny
<1>4. Told(k, d)
  BY <1>1, <1>3 DEF Told, Notified
<1> QED BY <1>1, <1>4 DEF d

(* Previous contacts are not what a hand touches.                          *)
LEMMA ToldOfDropped ==
  ASSUME NEW k, Lists(k), NEW old
  PROVE  Told(k, DropPrevious(k, old)) /\ DropPrevious(k, old).cur = k.cur
<1>1. DropPrevious(k, old).cur = k.cur /\ DropPrevious(k, old).changed = k.changed
  BY DEF DropPrevious, Lists, Fields
<1> QED BY <1>1 DEF Told

(* breakContacts() tells the hands whose contacts it deletes.              *)
LEMMA ToldOfBroken ==
  ASSUME NEW k, Lists(k), NEW bs
  PROVE  Told(k, BreakContacts(k, bs)) /\ BreakContacts(k, bs).cur \subseteq k.cur
<1> DEFINE own == OnAny(k.cur, bs)
           k1 == DeleteWithMates(k, own)
           old == OnAny(k1.prev, bs)
           k2 == DropPrevious(k1, old)
           r == BreakContacts(k, bs)
<1>1. Told(k, k1) /\ k1.cur \subseteq k.cur /\ Lists(k1)
  BY ToldOfDeleted, Deleted DEF OnAny
<1>2. old \in SUBSET k1.prev
  BY DEF OnAny
<1> HIDE DEF k1, old
<1>3. Told(k1, k2) /\ k2.cur = k1.cur /\ Lists(k2)
  BY <1>1, <1>2, ToldOfDropped, Dropped
<1> HIDE DEF k2
<1>4. r = [k2 EXCEPT !.num = ZeroNum(k2.num, bs), !.unset = k2.unset \ bs]
  BY DEF BreakContacts, k1, k2, old
<1> HIDE DEF r
<1>5. r.cur = k2.cur /\ r.changed = k2.changed
  BY <1>3, <1>4 DEF Lists, Fields
<1>6. Told(k, r)
  BY <1>1, <1>3, <1>5 DEF Told
<1> QED BY <1>1, <1>3, <1>5, <1>6 DEF r

(* resetContactList() tells those whose contacts become previous ones.     *)
LEMMA ToldOfReset ==
  ASSUME NEW k, Lists(k), NEW bs, Within(k, bs)
  PROVE  Told(k, ResetContactList(k, bs)) /\ ResetContactList(k, bs).cur = {}
<1> DEFINE gone == OnAny(k.prev, bs)
           k1 == DropPrevious(k, gone)
           old == OnAny(k1.cur, bs)
           r == ResetContactList(k, bs)
<1>1. gone \in SUBSET k.prev
  BY DEF OnAny
<1> HIDE DEF gone
<1>2. Lists(k1) /\ Told(k, k1) /\ k1.cur = k.cur
  BY <1>1, Dropped, ToldOfDropped
<1>3. r = [k1 EXCEPT !.prev = k1.prev \cup old, !.cur = k1.cur \ old,
                     !.num = ZeroNum(k1.num, bs), !.unset = k1.unset \ bs,
                     !.changed = k1.changed \cup Notified(old)]
  BY DEF ResetContactList, gone
<1> HIDE DEF k1, r
<1>4. r.cur = k1.cur \ old /\ r.changed = k1.changed \cup Notified(old)
  BY <1>2, <1>3 DEF Lists, Fields
<1>5. old = k1.cur
  BY <1>2 DEF OnAny, Within, Lists
<1>6. \A h \in Hand \ r.changed : OnAny(k1.cur, Links[h]) = {}
  BY <1>4, <1>5 DEF Notified
<1>7. \A h : OnAny(r.cur, Links[h]) = {}
  BY <1>4, <1>5 DEF OnAny
<1>8. Told(k1, r)
  BY <1>4, <1>6, <1>7 DEF Told, Notified
<1> QED BY <1>2, <1>4, <1>5, <1>8, ToldChain DEF r

(* addContacts() tells those that get contacts.                            *)
LEMMA ToldOfAdded ==
  ASSUME NEW k, Lists(k), NEW ps, NEW near
  PROVE  /\ Told(k, AddContacts(k, ps, near))
         /\ AddContacts(k, ps, near).cur = k.cur \cup NewContacts(k, ps)
<1> DEFINE new == NewContacts(k, ps)
           k1 == [k EXCEPT !.alive = @ \cup new, !.mated = @ \cup new,
                           !.cur = @ \cup new,
                           !.num = [b \in Body |-> @[b] + Cardinality(On(new, b))],
                           !.changed = @ \cup Notified(new)]
           old == OfPairs(k1.prev, near)
           r == DropPrevious(k1, old)
<1>1. AddContacts(k, ps, near) = r
  BY DEF AddContacts, Inherit
<1> HIDE DEF new, old
<1>2. DOMAIN k1 = Fields /\ k1.cur = k.cur \cup new /\ k1.changed = k.changed \cup Notified(new)
  BY DEF Lists, Fields
<1> HIDE DEF k1
<1>3. r.cur = k1.cur /\ r.changed = k1.changed
  BY <1>2 DEF DropPrevious, Fields
<1> HIDE DEF r
<1>4. \A h \in Hand \ r.changed : OnAny(new, Links[h]) = {}
  BY <1>2, <1>3 DEF Notified
<1>5. \A h \in Hand \ r.changed : OnAny(r.cur, Links[h]) = OnAny(k.cur, Links[h])
  BY <1>2, <1>3, <1>4 DEF OnAny
<1>6. Told(k, r)
  BY <1>2, <1>3, <1>5 DEF Told, Notified
<1> QED BY <1>1, <1>2, <1>3, <1>6 DEF new

(* findContacts() tells both.                                              *)
LEMMA ToldOfFound ==
  ASSUME NEW k, Lists(k), NEW ps, NEW near
  PROVE  LET d == RemoveContacts(k, ps)
         IN  /\ Told(k, FindPairs(k, ps, near))
             /\ FindPairs(k, ps, near).cur \subseteq k.cur \cup NewContacts(d, ps)
<1> DEFINE own == OfPairs(k.cur, ps)
           d == RemoveContacts(k, ps)
<1>1. own \in SUBSET k.cur /\ d = DeleteWithMates(k, own)
  BY DEF OfPairs, RemoveContacts
<1> HIDE DEF own
<1>2. Lists(d) /\ Told(k, d) /\ d.cur \subseteq k.cur
  BY <1>1, Deleted, ToldOfDeleted
<1> HIDE DEF d
<1>3. Told(d, AddContacts(d, ps, near))
      /\ AddContacts(d, ps, near).cur = d.cur \cup NewContacts(d, ps)
  BY <1>2, ToldOfAdded
<1>4. FindPairs(k, ps, near) = AddContacts(d, ps, near)
  BY DEF FindPairs, d
<1> QED BY <1>2, <1>3, <1>4, ToldChain DEF d
-----------------------------------------------------------------------------
(* Grasps.                                                                 *)

(* What grasps refer to, and what that rests on.                           *)
GraspsOK ==
  /\ object \in [Hand -> Object \cup {None}] /\ DOMAIN contactVec = Hand
  /\ contacts.changed \subseteq Hand
  /\ GraspsFollow

(* A contact is between bodies of the world.                               *)
LEMMA BothInside ==
  ASSUME NEW k, Lists(k), NEW bs, Within(k, bs), NEW c \in k.cur
  PROVE  c.on \in bs /\ c.against \in bs
<1>1. c \in k.alive /\ Mate(c) \in k.alive
  BY DEF Lists
<1>2. Mate(c).on = c.against
  BY DEF Mate
<1> QED BY <1>1, <1>2 DEF Within

(* Without graspable bodies there are no contacts with any of them.        *)
LEMMA SomeObject ==
  ASSUME NEW k, Lists(k), NEW bs \in SUBSET Body, Within(k, bs), NEW h, NEW obj,
         obj \in Object \/ (obj = None /\ bs \cap Object = {})
  PROVE  \E o \in Object : HandContacts(k, h, obj) = HandContacts(k, h, o)
<1>1. CASE obj \in Object
  BY <1>1
<1>2. CASE obj = None /\ bs \cap Object = {}
  <2>1. PICK o \in Object : TRUE
    BY WorldAssumption
  <2>2. None \notin bs /\ o \notin bs
    BY <1>2, WorldAssumption
  <2>3. \A c \in k.cur : c.against \in bs
    BY BothInside
  <2>4. HandContacts(k, h, None) = {} /\ HandContacts(k, h, o) = {}
    BY <2>2, <2>3 DEF HandContacts, OnAny
  <2> QED BY <1>2, <2>4
<1> QED BY <1>1, <1>2

(* A grasp that nobody updates, of a hand that was not told of anything.   *)
LEMMA StillCurrent ==
  ASSUME GraspCurrent, NEW k, Told(contacts, k), NEW h \in Hand, h \in Hands,
         h \notin k.changed
  PROVE  \E o \in Object : contactVec[h] = HandContacts(k, h, o)
<1>1. h \in Hands \ contacts.changed
  BY DEF Told
<1>2. PICK o \in Object : contactVec[h] = HandContacts(contacts, h, o)
  BY <1>1 DEF GraspCurrent
<1>3. OnAny(k.cur, Links[h]) = OnAny(contacts.cur, Links[h])
  BY DEF Told
<1> QED BY <1>2, <1>3 DEF HandContacts

(* An operation that updates no grasp, but may tell hands.                 *)
LEMMA NobodyUpdates ==
  ASSUME BodiesOK', GraspsOK, Told(contacts, contacts'), contactVec' = contactVec,
         Hands' \subseteq Hands, object' = object, GBVec' = GBVec
  PROVE  GraspsOK'
<1>1. contacts'.changed \subseteq Hand
  BY DEF GraspsOK, Told
<1>2. GraspHasObject'
  BY DEF GraspsOK, GraspsFollow, GraspHasObject, Graspable
<1>3. GraspCurrent'
  <2> SUFFICES ASSUME NEW h \in Hands' \ contacts'.changed
               PROVE  \E o \in Object : contactVec'[h] = HandContacts(contacts', h, o)
    BY DEF GraspCurrent
  <2>0. Hands' \subseteq Hand
    BY DEF BodiesOK, Hands, ToSet
  <2>1. h \in Hands /\ h \in Hand
    BY <2>0
  <2> QED BY <2>1, StillCurrent DEF GraspsOK, GraspsFollow
<1> QED BY <1>1, <1>2, <1>3 DEF GraspsOK, GraspsFollow

(* The grasps of the hands hs are updated.                                 *)
LEMMA Updated ==
  ASSUME BodiesOK', GraspsOK, NEW k, Told(contacts, k), Lists(k), Within(k, bodyVec'),
         NEW hs, UpdateGrasps(k, object', hs),
         handVec' = handVec, object' \in [Hand -> Object \cup {None}], GraspHasObject',
         \A h \in hs : h \in Hands
  PROVE  GraspsOK'
<1>1. /\ contacts' = [k EXCEPT !.changed = k.changed \ hs]
      /\ contactVec' = [h \in Hand |-> IF h \in hs THEN HandContacts(k, h, object'[h])
                                       ELSE contactVec[h]]
  BY DEF UpdateGrasps
<1>2. contacts'.cur = k.cur /\ contacts'.changed = k.changed \ hs
  BY <1>1 DEF Lists, Fields
<1>3. Hands' = Hands
  BY DEF Hands
<1>4. GraspCurrent'
  <2> SUFFICES ASSUME NEW h \in Hands' \ contacts'.changed
               PROVE  \E o \in Object : contactVec'[h] = HandContacts(contacts', h, o)
    BY DEF GraspCurrent
  <2>1. h \in Hand /\ h \in Hands
    BY <1>3 DEF BodiesOK, Hands, ToSet
  <2>2. \A o : HandContacts(contacts', h, o) = HandContacts(k, h, o)
    BY <1>2 DEF HandContacts
  <2>3. CASE h \in hs
    <3>1. object'[h] \in Object \/ (object'[h] = None /\ bodyVec' \cap Object = {})
      <4>1. CASE GBVec' = <<>>
        <5>1. Graspable' = {}
          BY <4>1 DEF Graspable, ToSet
        <5>2. object'[h] = None
          BY <1>3, <2>1, <4>1 DEF GraspHasObject
        <5> QED BY <5>1, <5>2 DEF BodiesOK
      <4>2. CASE GBVec' # <<>>
        <5>1. object'[h] \in Graspable'
          BY <1>3, <2>1, <4>2 DEF GraspHasObject
        <5> QED BY <5>1 DEF BodiesOK
      <4> QED BY <4>1, <4>2
    <3>2. bodyVec' \in SUBSET Body
      BY DEF BodiesOK
    <3>3. \E o \in Object : HandContacts(k, h, object'[h]) = HandContacts(k, h, o)
      BY <3>1, <3>2, SomeObject
    <3>4. contactVec'[h] = HandContacts(k, h, object'[h])
      BY <1>1, <2>1, <2>3
    <3> QED BY <2>2, <3>3, <3>4
  <2>4. CASE h \notin hs
    <3>1. contactVec'[h] = contactVec[h] /\ h \notin k.changed
      BY <1>1, <1>2, <2>1, <2>4
    <3>2. \E o \in Object : contactVec[h] = HandContacts(k, h, o)
      BY <2>1, <3>1, StillCurrent DEF GraspsOK, GraspsFollow
    <3> QED BY <2>2, <3>1, <3>2
  <2> QED BY <2>3, <2>4
<1>5. contacts'.changed \subseteq Hand /\ DOMAIN contactVec' = Hand
  BY <1>1, <1>2 DEF GraspsOK, Told
<1> QED BY <1>4, <1>5 DEF GraspsOK, GraspsFollow

LEMMA ToldOfNothing == ASSUME NEW k PROVE Told(k, k)
  BY DEF Told

(* An empty world has no grasps.                                           *)
LEMMA GraspsInit == Init => GraspsOK
<1> SUFFICES ASSUME Init PROVE GraspsOK
  OBVIOUS
<1>1. /\ object = [h \in Hand |-> None] /\ contactVec = [h \in Hand |-> {}]
      /\ contacts.changed = {} /\ Hands = {}
  BY DEF Init, Hands, ToSet, NoContacts
<1> QED BY <1>1 DEF GraspsOK, GraspsFollow, GraspCurrent, GraspHasObject

(* The first graspable body becomes the object of every grasp.             *)
LEMMA GraspsAddBody ==
  ASSUME IInv, BodiesOK, BodiesOK', GraspsOK, NEW b \in Object \cup Obstacle,
         AddBody(b, contacts), handVec' = handVec
  PROVE  GraspsOK'
<1>1. Lists(contacts) /\ Within(contacts, bodyVec') /\ Told(contacts, contacts)
  BY ToldOfNothing DEF IInv, Within, AddBody
<1>2. Hands' = Hands
  BY DEF Hands
<1>3. CASE b \in Object /\ GBVec = <<>>
  <2>1. /\ object' = [h \in Hand |-> IF h \in Hands THEN b ELSE object[h]]
        /\ UpdateGrasps(contacts, object', Hands)
        /\ bodyVec' = bodyVec \cup {b}
    BY <1>3 DEF AddBody
  <2>2. object' \in [Hand -> Object \cup {None}]
    BY <1>3, <2>1 DEF GraspsOK
  <2>3. b \in Graspable' /\ GBVec' # <<>> /\ Hands \subseteq Hand
    <3>1. b \in Graspable'
      BY <1>3, <2>1 DEF BodiesOK
    <3> QED BY <3>1 DEF Graspable, ToSet, BodiesOK, Hands
  <2>4. GraspHasObject'
    BY <1>2, <2>1, <2>3 DEF GraspHasObject
  <2> QED BY <1>1, <2>1, <2>2, <2>4, Updated
<1>4. CASE ~(b \in Object /\ GBVec = <<>>)
  <2>1. object' = object /\ contacts' = contacts /\ contactVec' = contactVec
    BY <1>4 DEF AddBody, NoUpdate
  <2>2. GraspHasObject'
    <3>1. CASE b \in Object
      <4>1. GBVec # <<>> /\ GBVec' # <<>> /\ Graspable \subseteq Graspable'
        <5>1. GBVec' = Append(GBVec, b) /\ GBVec # <<>> /\ GBVec \in Seq(Object)
          BY <1>4, <3>1 DEF AddBody, BodiesOK
        <5>2. bodyVec \subseteq bodyVec'
          BY DEF AddBody
        <5> QED BY <5>1, <5>2, <3>1 DEF BodiesOK
      <4> QED BY <1>2, <2>1, <4>1 DEF GraspsOK, GraspsFollow, GraspHasObject
    <3>2. CASE b \notin Object
      <4>1. GBVec' = GBVec
        BY <3>2 DEF AddBody
      <4> QED BY <1>2, <2>1, <4>1 DEF GraspsOK, GraspsFollow, GraspHasObject, Graspable
    <3> QED BY <3>1, <3>2
  <2>3. GraspCurrent'
    BY <1>2, <2>1 DEF GraspsOK, GraspsFollow, GraspCurrent, HandContacts
  <2> QED BY <2>1, <2>2, <2>3 DEF GraspsOK, GraspsFollow
<1> QED BY <1>3, <1>4

(* The grasps of a body that goes get another object.                      *)
LEMMA GraspsDestroyBody ==
  ASSUME IInv, IInv', BodiesOK, BodiesOK', GraspsOK, NEW b, DestroyBody(b, TRUE)
  PROVE  GraspsOK'
<1> DEFINE refocused == {h \in Hands : object[h] = b}
           k == [contacts EXCEPT !.changed = @ \ refocused]
<1>1. /\ bodyVec' = bodyVec \ {b} /\ handVec' = handVec /\ b \in bodyVec
      /\ contactVec' = [h \in Hand |-> IF h \in refocused
                                       THEN HandContacts(contacts, h, object'[h])
                                       ELSE contactVec[h]]
      /\ contacts' = BreakContacts(k, {b})
      /\ object' = [h \in Hand |-> IF h \in refocused THEN First(GBVec') ELSE object[h]]
  BY DEF DestroyBody, Refocus
<1>2. Lists(k) /\ k.cur = contacts.cur /\ k.changed = contacts.changed \ refocused
  <2>1. Lists(k)
    BY Aside DEF IInv
  <2> QED BY <2>1 DEF IInv, Lists, Fields
<1> HIDE DEF k
<1>3. Told(k, contacts')
  BY <1>1, <1>2, ToldOfBroken
<1>4. Hands' = Hands /\ Hands \subseteq Hand
  BY <1>1 DEF BodiesOK, Hands, ToSet
<1>5. First(GBVec') \in Object \cup {None}
  BY DEF BodiesOK, First
<1>6. object' \in [Hand -> Object \cup {None}]
  BY <1>1, <1>5 DEF GraspsOK
<1>7. GraspHasObject'
  <2> SUFFICES ASSUME NEW h \in Hands
               PROVE  IF GBVec' = <<>> THEN object'[h] = None ELSE object'[h] \in Graspable'
    BY <1>4 DEF GraspHasObject
  <2>1. CASE h \in refocused
    <3>1. object'[h] = First(GBVec')
      BY <1>1, <1>4, <2>1
    <3>2. GBVec' # <<>> => GBVec'[1] \in Graspable'
      BY DEF BodiesOK, Graspable, ToSet
    <3> QED BY <3>1, <3>2 DEF First
  <2>2. CASE h \notin refocused
    <3>1. object'[h] = object[h] /\ object[h] # b
      BY <1>1, <1>4, <2>2
    <3>2. CASE GBVec = <<>>
      <4>1. Graspable = {} /\ object[h] = None
        BY <3>2 DEF Graspable, ToSet, GraspsOK, GraspsFollow, GraspHasObject
      <4>2. Graspable' = {}
        BY <1>1, <4>1 DEF BodiesOK
      <4>3. GBVec' = <<>>
        BY <4>2 DEF BodiesOK, Graspable, ToSet
      <4> QED BY <3>1, <4>1, <4>3
    <3>3. CASE GBVec # <<>>
      <4>1. object[h] \in Graspable
        BY <3>3 DEF GraspsOK, GraspsFollow, GraspHasObject
      <4>2. object[h] \in Graspable'
        BY <1>1, <3>1, <4>1 DEF BodiesOK
      <4>3. GBVec' # <<>>
        BY <4>2 DEF Graspable, ToSet
      <4> QED BY <3>1, <4>2, <4>3
    <3> QED BY <3>2, <3>3
  <2> QED BY <2>1, <2>2
<1>8. GraspCurrent'
  <2> SUFFICES ASSUME NEW h \in Hands, h \notin contacts'.changed
               PROVE  \E o \in Object : contactVec'[h] = HandContacts(contacts', h, o)
    BY <1>4 DEF GraspCurrent
  <2>0. h \in Hand /\ OnAny(contacts'.cur, Links[h]) = OnAny(contacts.cur, Links[h])
        /\ h \notin k.changed
    BY <1>2, <1>3, <1>4 DEF Told
  <2>1. \A o : HandContacts(contacts', h, o) = HandContacts(contacts, h, o)
    BY <2>0 DEF HandContacts
  <2>2. CASE h \in refocused
    <3>1. contactVec'[h] = HandContacts(contacts', h, object'[h])
      BY <1>1, <2>0, <2>1, <2>2
    <3>2. object'[h] \in Object \/ (object'[h] = None /\ bodyVec' \cap Object = {})
      <4>1. CASE GBVec' = <<>>
        <5>1. Graspable' = {}
          BY <4>1 DEF Graspable, ToSet
        <5>2. object'[h] = None
          BY <1>4, <1>7, <4>1 DEF GraspHasObject
        <5> QED BY <5>1, <5>2 DEF BodiesOK
      <4>2. CASE GBVec' # <<>>
        <5>1. object'[h] \in Graspable'
          BY <1>4, <1>7, <4>2 DEF GraspHasObject
        <5> QED BY <5>1 DEF BodiesOK
      <4> QED BY <4>1, <4>2
    <3>3. Lists(contacts') /\ Within(contacts', bodyVec') /\ bodyVec' \in SUBSET Body
      BY DEF IInv, BodiesOK
    <3>4. \E o \in Object :
            HandContacts(contacts', h, object'[h]) = HandContacts(contacts', h, o)
      BY <3>2, <3>3, SomeObject
    <3> QED BY <3>1, <3>4
  <2>3. CASE h \notin refocused
    <3>1. contactVec'[h] = contactVec[h] /\ h \notin contacts.changed
      BY <1>1, <1>2, <2>0, <2>3
    <3>2. \E o \in Object : contactVec[h] = HandContacts(contacts, h, o)
      BY <3>1 DEF GraspsOK, GraspsFollow, GraspCurrent
    <3> QED BY <2>1, <3>1, <3>2
  <2> QED BY <2>2, <2>3
<1>9. contacts'.changed \subseteq Hand
  BY <1>2, <1>3 DEF Told, GraspsOK
<1> QED BY <1>1, <1>6, <1>7, <1>8, <1>9 DEF GraspsOK, GraspsFollow
(* A dynamic body takes the place of an obstacle.                          *)
LEMMA GraspsMakeDynamic ==
  ASSUME IInv, BodiesOK', GraspsOK, NEW b, NEW d, MakeBodyDynamic(b, d)
  PROVE  GraspsOK'
<1> DEFINE k1 == BreakContacts(contacts, {b})
           k2 == [k1 EXCEPT !.unset = k1.unset \cup {d}]
<1>1. PICK found, near : contacts' = AddContacts(k2, found, near)
  BY DEF MakeBodyDynamic
<1>2. Lists(k1) /\ Told(contacts, k1)
  BY Broken, ToldOfBroken DEF IInv
<1> HIDE DEF k1
<1>3. Lists(k2)
  BY <1>2, Aside
<1>4. k2.cur = k1.cur /\ k2.changed = k1.changed
  BY <1>2 DEF Lists, Fields
<1> HIDE DEF k2
<1>5. Told(contacts, k2)
  BY <1>2, <1>4 DEF Told
<1>6. Told(k2, contacts')
  BY <1>1, <1>3, ToldOfAdded
<1>7. Told(contacts, contacts')
  BY <1>5, <1>6, ToldChain
<1>8. /\ contactVec' = contactVec /\ Hands' \subseteq Hands /\ object' = object
      /\ GBVec' = GBVec
  BY DEF MakeBodyDynamic, Hands
<1> QED BY <1>7, <1>8, NobodyUpdates

(* A hand comes without contacts.                                          *)
LEMMA GraspsAddRobot ==
  ASSUME IInv, BodiesOK, BodiesOK', Absent, GraspsOK, NEW h \in Hand \ Hands, NEW obj,
         obj \in Object \cup {None}, GBVec = <<>> => obj = None, AddRobot(h, obj),
         Hands' = Hands \cup {h}, GBVec' = GBVec
  PROVE  GraspsOK'
<1>1. /\ object' = [object EXCEPT ![h] = IF GBVec # <<>> THEN GBVec[1] ELSE obj]
      /\ contactVec' = [contactVec EXCEPT ![h] = {}]
      /\ contacts' = [contacts EXCEPT !.changed = contacts.changed \ {h}]
  BY DEF AddRobot
<1>2. contacts'.cur = contacts.cur /\ contacts'.changed = contacts.changed \ {h}
  BY <1>1 DEF IInv, Lists, Fields
<1>3. GBVec # <<>> => GBVec[1] \in Object /\ GBVec[1] \in Graspable
  BY DEF BodiesOK, Graspable, ToSet
<1>4. /\ object' \in [Hand -> Object \cup {None}] /\ DOMAIN contactVec' = Hand
      /\ object'[h] = IF GBVec # <<>> THEN GBVec[1] ELSE obj
      /\ contactVec'[h] = {}
      /\ \A g \in Hand \ {h} : object'[g] = object[g] /\ contactVec'[g] = contactVec[g]
  BY <1>1, <1>3 DEF GraspsOK
<1>5. GraspHasObject'
  <2>1. Graspable' = Graspable /\ Hands \subseteq Hand
    BY DEF Graspable, BodiesOK, Hands, ToSet
  <2>2. \A g \in Hands : object'[g] = object[g]
    BY <1>4, <2>1
  <2>3. \A g \in Hands' : IF GBVec' = <<>> THEN object'[g] = None
                          ELSE object'[g] \in Graspable'
    BY <1>3, <1>4, <2>1, <2>2 DEF GraspsOK, GraspsFollow, GraspHasObject
  <2> QED BY <2>3 DEF GraspHasObject
<1>6. GraspCurrent'
  <2> SUFFICES ASSUME NEW g \in Hands', g \notin contacts'.changed
               PROVE  \E o \in Object : contactVec'[g] = HandContacts(contacts', g, o)
    BY DEF GraspCurrent
  <2>1. \A o : HandContacts(contacts', g, o) = HandContacts(contacts, g, o)
    BY <1>2 DEF HandContacts
  <2>2. CASE g = h
    <3>1. PICK o \in Object : TRUE
      BY WorldAssumption
    <3>2. \A c \in contacts.cur : c.on \in bodyVec
      BY DEF IInv, Lists, Within
    <3>3. HandContacts(contacts, h, o) = {}
      BY <3>2 DEF HandContacts, OnAny, Absent
    <3> QED BY <1>4, <2>1, <2>2, <3>1, <3>3
  <2>3. CASE g # h
    <3>0. Hands \subseteq Hand
      BY DEF BodiesOK, Hands, ToSet
    <3>1. g \in Hands \ contacts.changed /\ g \in Hand
      BY <1>2, <2>3, <3>0
    <3>2. \E o \in Object : contactVec[g] = HandContacts(contacts, g, o)
      BY <3>1 DEF GraspsOK, GraspsFollow, GraspCurrent
    <3> QED BY <1>4, <2>1, <2>3, <3>1, <3>2
  <2> QED BY <2>2, <2>3
<1> QED BY <1>2, <1>4, <1>5, <1>6 DEF GraspsOK, GraspsFollow

(* A hand goes, and its grasp with it.                                     *)
LEMMA GraspsDestroyHand ==
  ASSUME IInv, BodiesOK, BodiesOK', GraspsOK, NEW h \in Hand, DestroyHand(h),
         Hands' = Hands \ {h}
  PROVE  GraspsOK'
<1>1. /\ contacts' = BreakContacts(contacts, Links[h])
      /\ object' = [object EXCEPT ![h] = None]
      /\ contactVec' = [contactVec EXCEPT ![h] = {}]
      /\ GBVec' = GBVec
  BY DEF DestroyHand
<1>2. Told(contacts, contacts') /\ Hands \subseteq Hand
  BY <1>1, ToldOfBroken DEF IInv, BodiesOK, Hands, ToSet
<1>3. /\ object' \in [Hand -> Object \cup {None}] /\ DOMAIN contactVec' = Hand
      /\ \A g \in Hand \ {h} : object'[g] = object[g] /\ contactVec'[g] = contactVec[g]
  BY <1>1 DEF GraspsOK
<1>4. GraspHasObject'
  BY <1>1, <1>2, <1>3 DEF GraspsOK, GraspsFollow, GraspHasObject, Graspable
<1>5. GraspCurrent'
  <2> SUFFICES ASSUME NEW g \in Hands', g \notin contacts'.changed
               PROVE  \E o \in Object : contactVec'[g] = HandContacts(contacts', g, o)
    BY DEF GraspCurrent
  <2>1. g \in Hands /\ g \in Hand \ {h}
    BY <1>2
  <2>2. \E o \in Object : contactVec[g] = HandContacts(contacts', g, o)
    BY <1>2, <2>1, StillCurrent DEF GraspsOK, GraspsFollow
  <2> QED BY <1>3, <2>1, <2>2
<1>6. contacts'.changed \subseteq Hand
  BY <1>2 DEF Told, GraspsOK
<1> QED BY <1>3, <1>4, <1>5, <1>6 DEF GraspsOK, GraspsFollow

(* A grasp gets another object of the world.                               *)
LEMMA GraspsSetObject ==
  ASSUME IInv, BodiesOK, BodiesOK', GraspsOK, NEW h \in Hand, NEW o \in Object,
         SetObject(h, o) \/ SetObjectNoUpdate(h, o)
  PROVE  GraspsOK'
<1>1. /\ o \in Graspable /\ object' = [object EXCEPT ![h] = o] /\ GBVec' = GBVec
      /\ handVec' = handVec /\ bodyVec' = bodyVec /\ h \in Hands
  BY DEF SetObject, SetObjectNoUpdate, worldVars
<1>2. object' \in [Hand -> Object \cup {None}]
  BY <1>1 DEF GraspsOK
<1>3. GBVec # <<>>
  BY <1>1 DEF Graspable, ToSet
<1>4. GraspHasObject'
  BY <1>1, <1>3 DEF GraspsOK, GraspsFollow, GraspHasObject, Graspable, Hands
<1>5. CASE SetObject(h, o)
  <2> DEFINE hs == {h}
  <2>1. UpdateGrasps(contacts, object', hs)
    BY <1>5 DEF SetObject
  <2>2. Told(contacts, contacts) /\ Lists(contacts) /\ Within(contacts, bodyVec')
    BY <1>1, ToldOfNothing DEF IInv, Within
  <2>3. \A g \in hs : g \in Hands
    BY <1>1
  <2> HIDE DEF hs
  <2> QED BY <1>1, <1>2, <1>4, <2>1, <2>2, <2>3, Updated
<1>6. CASE SetObjectNoUpdate(h, o)
  <2>1. contacts' = contacts /\ contactVec' = contactVec
    BY <1>6 DEF SetObjectNoUpdate
  <2>2. GraspCurrent'
    BY <1>1, <2>1 DEF GraspsOK, GraspsFollow, GraspCurrent, HandContacts, Hands
  <2> QED BY <1>2, <1>4, <2>1, <2>2 DEF GraspsOK, GraspsFollow
<1> QED BY <1>5, <1>6

(* Grasps follow a search for contacts: updateGrasps().                    *)
LEMMA GraspsUpdateChanged ==
  ASSUME BodiesOK', GraspsOK, NEW k, Told(contacts, k), Lists(k), Within(k, bodyVec),
         UpdateChanged(k), UNCHANGED worldVars, object' = object
  PROVE  GraspsOK'
<1>1. UpdateGrasps(k, object', Hands \cap k.changed)
  BY DEF UpdateChanged
<1>2. /\ object' \in [Hand -> Object \cup {None}] /\ handVec' = handVec
      /\ bodyVec' = bodyVec /\ GBVec' = GBVec
  BY DEF GraspsOK, worldVars
<1>3. GraspHasObject'
  BY <1>2 DEF GraspsOK, GraspsFollow, GraspHasObject, Graspable, Hands
<1> QED BY <1>1, <1>2, <1>3, Updated

LEMMA GraspsMove ==
  ASSUME IInv, BodiesOK', GraspsOK, NEW e, NEW moved, Move(e, moved)
  PROVE  GraspsOK'
<1> DEFINE k == BreakContacts(contacts, moved)
<1>1. PICK found \in Reports(Searched \cap Cross(moved, bodyVec)) :
        HasRoom(k, found) /\ \E near : UpdateChanged(FindPairs(k, found, near))
  BY DEF Move
<1>2. Lists(k) /\ Within(k, bodyVec) /\ Told(contacts, k)
  <2>1. Lists(k) /\ Within(k, bodyVec \ moved)
    BY Broken DEF IInv
  <2> QED BY <2>1, ToldOfBroken DEF Within, IInv
<1> HIDE DEF k
<1>3. found \in SUBSET Pairs /\ UNION found \subseteq bodyVec
  BY <1>1 DEF Reports, Searched, ActivePairs
<1>. PICK near : UpdateChanged(FindPairs(k, found, near))
  BY <1>1
<1> DEFINE f == FindPairs(k, found, near)
<1>4. Lists(f) /\ Within(f, bodyVec)
  BY <1>1, <1>2, <1>3, FoundPairs
<1>5. Told(contacts, f)
  <2>1. Told(k, f)
    BY <1>2, ToldOfFound
  <2> HIDE DEF f
  <2> QED BY <1>2, <2>1, ToldChain
<1>6. UpdateChanged(f) /\ UNCHANGED worldVars /\ object' = object
  BY <1>1 DEF Move
<1> HIDE DEF f
<1> QED BY <1>4, <1>5, <1>6, GraspsUpdateChanged

(* findAllContacts() tells every hand that had or gets contacts.           *)
LEMMA ToldOfAll ==
  ASSUME IInv, NEW ps, NEW k \in FindAllContacts(ps)
  PROVE  Told(contacts, k)
<1> DEFINE r == ResetContactList(contacts, bodyVec)
<1>1. PICK found, near : k = AddContacts(r, found, near)
  BY DEF FindAllContacts
<1>2. Lists(r) /\ Told(contacts, r)
  BY ResetLists, ToldOfReset DEF IInv
<1> HIDE DEF r
<1>3. Told(r, k)
  BY <1>1, <1>2, ToldOfAdded
<1> QED BY <1>2, <1>3, ToldChain

LEMMA GraspsAnalyze == ASSUME IInv, BodiesOK', GraspsOK, Analyze PROVE GraspsOK'
<1>1. Searched \in SUBSET Pairs /\ UNION Searched \subseteq bodyVec
  BY DEF Searched, ActivePairs
<1>2. PICK k \in FindAllContacts(Searched) : UpdateChanged(k)
  BY DEF Analyze
<1>3. Lists(k) /\ Within(k, bodyVec) /\ Told(contacts, k)
  BY <1>1, <1>2, FoundAll, ToldOfAll
<1>4. UNCHANGED worldVars /\ object' = object
  BY DEF Analyze
<1> QED BY <1>2, <1>3, <1>4, GraspsUpdateChanged

LEMMA GraspsToggle ==
  ASSUME IInv, BodiesOK', GraspsOK, NEW on, NEW ps, ToggleAllCollisions(on, ps)
  PROVE  GraspsOK'
<1>1. \E qs : contacts' \in FindAllContacts(qs)
  BY DEF ToggleAllCollisions, NoUpdate
<1>2. Told(contacts, contacts')
  BY <1>1, ToldOfAll
<1>3. /\ contactVec' = contactVec /\ Hands' \subseteq Hands /\ object' = object
      /\ GBVec' = GBVec
  BY DEF ToggleAllCollisions, NoUpdate, Hands, worldVars
<1> QED BY <1>2, <1>3, NobodyUpdates

(* A body or hand is moved and loses its contacts.                         *)
LEMMA GraspsBreak ==
  ASSUME IInv, BodiesOK', GraspsOK, NEW bs, contacts' = BreakContacts(contacts, bs),
         UNCHANGED <<GBVec, handVec, object, contactVec>>
  PROVE  GraspsOK'
<1>1. Told(contacts, contacts')
  BY ToldOfBroken DEF IInv
<1>2. Hands' \subseteq Hands
  BY DEF Hands
<1> QED BY <1>1, <1>2, NobodyUpdates

(* Every operation keeps grasps what they are.                             *)
LEMMA GraspsNext ==
  IInv /\ IInv' /\ BodiesOK /\ BodiesOK' /\ Absent /\ GraspsOK /\ [Next]_vars => GraspsOK'
<1> SUFFICES ASSUME IInv, IInv', BodiesOK, BodiesOK', Absent, GraspsOK, [Next]_vars
             PROVE  GraspsOK'
  OBVIOUS
<1>1. ASSUME NEW b \in Object \cup Obstacle, ImportBody(b) PROVE GraspsOK'
  BY <1>1, GraspsAddBody DEF ImportBody
<1>2. ASSUME NEW b \in Object \cup Obstacle, PlaceBody(b) PROVE GraspsOK'
  <2>1. contacts' = BreakContacts(contacts, {b})
        /\ UNCHANGED <<GBVec, handVec, object, contactVec>>
    BY <1>2 DEF PlaceBody, worldVars
  <2> QED BY <2>1, GraspsBreak
<1>3. ASSUME NEW b \in Object \cup Obstacle, DestroyBody(b, TRUE) PROVE GraspsOK'
  BY <1>3, GraspsDestroyBody
<1>4. ASSUME NEW b \in Object \cup Obstacle, NEW d \in Obstacle, MakeBodyDynamic(b, d)
      PROVE  GraspsOK'
  BY <1>4, GraspsMakeDynamic
<1>5. ASSUME NEW h \in Hand, ImportHand(h) PROVE GraspsOK'
  <2>1. /\ h \in Hand \ Hands /\ AddRobot(h, None)
        /\ GBVec' = GBVec /\ kept' = kept /\ dynamic' = dynamic
    BY <1>5 DEF ImportHand
  <2>2. Hands' = Hands \cup {h}
    BY <2>1, HandComes
  <2> QED BY <2>1, <2>2, GraspsAddRobot
<1>6. ASSUME NEW g \in Hand, NEW h \in Hand, CloneHand(g, h) PROVE GraspsOK'
  <2>1. /\ g \in Hands /\ h \in Hand \ Hands /\ AddRobot(h, object[g])
        /\ GBVec' = GBVec /\ kept' = kept /\ dynamic' = dynamic
    BY <1>6 DEF CloneHand
  <2>2. Hands' = Hands \cup {h}
    BY <2>1, HandComes
  <2>3. object[g] \in Object \cup {None} /\ (GBVec = <<>> => object[g] = None)
    BY <2>1, <1>6 DEF GraspsOK, GraspsFollow, GraspHasObject
  <2> QED BY <2>1, <2>2, <2>3, GraspsAddRobot
<1>7. ASSUME NEW h \in Hand, DestroyHand(h) PROVE GraspsOK'
  <2>1. Hands' = Hands \ {h}
    BY <1>7, HandGoes
  <2> QED BY <1>7, <2>1, GraspsDestroyHand
<1>8. ASSUME NEW h \in Hand, PoseHand(h) PROVE GraspsOK'
  <2>1. contacts' = BreakContacts(contacts, Links[h])
        /\ UNCHANGED <<GBVec, handVec, object, contactVec>>
    BY <1>8 DEF PoseHand, worldVars
  <2> QED BY <2>1, GraspsBreak
<1>9. ASSUME NEW h \in Hand, NEW o \in Object, SetObject(h, o) \/ SetObjectNoUpdate(h, o)
      PROVE  GraspsOK'
  BY <1>9, GraspsSetObject
<1>10. ASSUME NEW e \in Object \cup Obstacle \cup Hand, NEW moved \in SUBSET Parts(e),
              Move(e, moved)
       PROVE  GraspsOK'
  BY <1>10, GraspsMove
<1>11. CASE Analyze
  BY <1>11, GraspsAnalyze
<1>12. ASSUME NEW on \in BOOLEAN, NEW ps \in Selections, ToggleAllCollisions(on, ps)
       PROVE  GraspsOK'
  BY <1>12, GraspsToggle
<1>13. CASE UNCHANGED vars
  BY <1>13 DEF vars, worldVars, graspVars, GraspsOK, GraspsFollow, GraspHasObject,
               GraspCurrent, HandContacts, Graspable, Hands
<1> QED BY <1>1, <1>2, <1>3, <1>4, <1>5, <1>6, <1>7, <1>8, <1>9, <1>10, <1>11, <1>12,
           <1>13 DEF Next
-----------------------------------------------------------------------------
(* Collisions.                                                             *)

(* No new contacts; the pairs that are switched off do not touch.          *)
LEMMA NoneNew ==
  ASSUME IInv, IInv', DisabledNeverTouch, contacts'.cur \subseteq contacts.cur,
         dynamic \cap bodyVec' \subseteq dynamic', allCollisionsOFF' = allCollisionsOFF,
         \A c \in contacts'.cur : PairOf(c) \in disabled' => PairOf(c) \in disabled
  PROVE  DisabledNeverTouch'
<1> SUFFICES ASSUME NEW c \in contacts'.cur, PairOf(c) \cap dynamic' = {}
             PROVE  PairOf(c) \in Searched'
  BY DEF DisabledNeverTouch, OnAny
<1>1. PairOf(c) \subseteq bodyVec'
  BY BothInside DEF IInv, PairOf
<1>2. c \in contacts.cur /\ c.on \in bodyVec
  BY BothInside DEF IInv
<1>3. PairOf(c) \cap dynamic = {}
  BY <1>1
<1>4. PairOf(c) \in Searched
  BY <1>2, <1>3 DEF DisabledNeverTouch, OnAny
<1> QED BY <1>1, <1>2, <1>4 DEF Searched, ActivePairs

(* New contacts are among the pairs that were looked at.                   *)
LEMMA OnlySearched ==
  ASSUME IInv, DisabledNeverTouch, NEW new,
         contacts'.cur \subseteq contacts.cur \cup new,
         \A c \in new : PairOf(c) \in Searched,
         UNCHANGED <<bodyVec, dynamic, disabled, allCollisionsOFF>>
  PROVE  DisabledNeverTouch'
<1> SUFFICES ASSUME NEW c \in contacts'.cur, PairOf(c) \cap dynamic' = {}
             PROVE  PairOf(c) \in Searched'
  BY DEF DisabledNeverTouch, OnAny
<1>1. Searched' = Searched
  BY DEF Searched, ActivePairs
<1>2. CASE c \in new
  BY <1>1, <1>2
<1>3. CASE c \in contacts.cur
  <2>1. c.on \in bodyVec
    BY <1>3, BothInside DEF IInv
  <2> QED BY <1>1, <1>3, <2>1 DEF DisabledNeverTouch, OnAny
<1> QED BY <1>2, <1>3

(* findAllContacts() leaves contacts between the pairs it searched.        *)
LEMMA AllOfSearched ==
  ASSUME IInv, NEW ps \in SUBSET Pairs, NEW k \in FindAllContacts(ps), NEW c \in k.cur
  PROVE  PairOf(c) \in ps
<1> DEFINE r == ResetContactList(contacts, bodyVec)
<1>1. PICK found \in Reports(ps) :
        \E near : HasRoom(r, found) /\ k = AddContacts(r, found, near)
  BY DEF FindAllContacts
<1>2. Lists(r) /\ r.cur = {}
  BY ResetLists, ToldOfReset DEF IInv
<1>3. found \in SUBSET Pairs /\ found \subseteq ps
  BY <1>1 DEF Reports
<1> HIDE DEF r
<1>4. k.cur = r.cur \cup NewContacts(r, found)
  BY <1>1, <1>2, ToldOfAdded
<1>5. c \in NewContacts(r, found)
  BY <1>2, <1>4
<1>6. PairOf(c) \in found
  BY <1>1, <1>2, <1>3, <1>5, Created
<1> QED BY <1>3, <1>6

(* What a dynamic body runs into is not asked for.                         *)
LEMMA TouchMakeDynamic ==
  ASSUME IInv, IInv', DisabledNeverTouch, NEW b, NEW d, MakeBodyDynamic(b, d)
  PROVE  DisabledNeverTouch'
<1> DEFINE k1 == BreakContacts(contacts, {b})
           k2 == [k1 EXCEPT !.unset = k1.unset \cup {d}]
<1>1. PICK found \in Reports(Cross({d}, bodyVec \ {b})) :
        HasRoom(k2, found) /\ \E near : contacts' = AddContacts(k2, found, near)
  BY DEF MakeBodyDynamic
<1>2. Lists(k1) /\ k1.cur \subseteq contacts.cur
  BY Broken, ToldOfBroken DEF IInv
<1> HIDE DEF k1
<1>3. Lists(k2) /\ k2.cur = k1.cur
  <2>1. Lists(k2)
    BY <1>2, Aside
  <2> QED BY <1>2, <2>1 DEF Lists, Fields
<1> HIDE DEF k2
<1>4. found \in SUBSET Pairs /\ \A p \in found : d \in p
  BY <1>1 DEF Reports, Cross
<1>5. contacts'.cur = k2.cur \cup NewContacts(k2, found)
  BY <1>1, <1>3, ToldOfAdded
<1>6. \A c \in NewContacts(k2, found) : d \in PairOf(c)
  BY <1>1, <1>3, <1>4, Created
<1>7. /\ dynamic' = dynamic \cup {d} /\ UNCHANGED <<disabled, allCollisionsOFF>>
  BY DEF MakeBodyDynamic, collisionVars
<1> SUFFICES ASSUME NEW c \in contacts'.cur, PairOf(c) \cap dynamic' = {}
             PROVE  PairOf(c) \in Searched'
  BY DEF DisabledNeverTouch, OnAny
<1>8. c \in contacts.cur
  BY <1>2, <1>3, <1>5, <1>6, <1>7
<1>9. c.on \in bodyVec /\ PairOf(c) \cap dynamic = {}
  BY <1>7, <1>8, BothInside DEF IInv
<1>10. PairOf(c) \in Searched
  BY <1>8, <1>9 DEF DisabledNeverTouch, OnAny
<1>11. PairOf(c) \subseteq bodyVec'
  BY BothInside DEF IInv, PairOf
<1> QED BY <1>7, <1>10, <1>11 DEF Searched, ActivePairs

(* A move of the user.                                                     *)
LEMMA TouchMove ==
  ASSUME IInv, DisabledNeverTouch, NEW e, NEW moved, Move(e, moved)
  PROVE  DisabledNeverTouch'
<1> DEFINE k == BreakContacts(contacts, moved)
<1>1. PICK found \in Reports(Searched \cap Cross(moved, bodyVec)) :
        HasRoom(k, found) /\ \E near : UpdateChanged(FindPairs(k, found, near))
  BY DEF Move
<1>2. Lists(k) /\ k.cur \subseteq contacts.cur
  BY Broken, ToldOfBroken DEF IInv
<1> HIDE DEF k
<1>3. found \in SUBSET Pairs /\ found \subseteq Searched
  BY <1>1 DEF Reports, Searched, ActivePairs
<1>. PICK near : UpdateChanged(FindPairs(k, found, near))
  BY <1>1
<1> DEFINE d == RemoveContacts(k, found)
           f == FindPairs(k, found, near)
<1>4. Lists(d) /\ d.alive \subseteq k.alive
  BY <1>2, Deleted DEF RemoveContacts, OfPairs
<1>5. Lists(f) /\ f.cur \subseteq k.cur \cup NewContacts(d, found)
  <2>1. Within(k, {c.on : c \in k.alive} \cup UNION found)
    BY DEF Within
  <2>2. Lists(f)
    BY <1>1, <1>2, <1>3, <2>1, FoundPairs
  <2> QED BY <1>2, <2>2, ToldOfFound
<1>6. HasRoom(d, found)
  BY <1>1, <1>4 DEF HasRoom, FreeCopies
<1> HIDE DEF d
<1>7. \A c \in NewContacts(d, found) : PairOf(c) \in Searched
  BY <1>3, <1>4, <1>6, Created
<1>8. contacts'.cur = f.cur
  <2>1. contacts' = [f EXCEPT !.changed = f.changed \ (Hands \cap f.changed)]
    BY <1>1 DEF UpdateChanged, UpdateGrasps
  <2> HIDE DEF f
  <2> QED BY <1>5, <2>1 DEF Lists, Fields
<1>9. UNCHANGED <<bodyVec, dynamic, disabled, allCollisionsOFF>>
  BY DEF Move, worldVars, collisionVars
<1> HIDE DEF f
<1>10. contacts'.cur \subseteq contacts.cur \cup NewContacts(d, found)
  BY <1>2, <1>5, <1>8
<1> QED BY <1>7, <1>9, <1>10, OnlySearched

LEMMA TouchAnalyze ==
  ASSUME IInv, DisabledNeverTouch, Analyze
  PROVE  DisabledNeverTouch'
<1>1. Searched \in SUBSET Pairs /\ UNION Searched \subseteq bodyVec
  BY DEF Searched, ActivePairs
<1>2. PICK k \in FindAllContacts(Searched) : UpdateChanged(k)
  BY DEF Analyze
<1>3. \A c \in k.cur : PairOf(c) \in Searched
  BY <1>1, <1>2, AllOfSearched
<1>4. Lists(k)
  BY <1>1, <1>2, FoundAll
<1>5. contacts'.cur = k.cur
  <2>1. contacts' = [k EXCEPT !.changed = k.changed \ (Hands \cap k.changed)]
    BY <1>2 DEF UpdateChanged, UpdateGrasps
  <2> QED BY <1>4, <2>1 DEF Lists, Fields
<1>6. UNCHANGED <<bodyVec, dynamic, disabled, allCollisionsOFF>>
  BY DEF Analyze, worldVars, collisionVars
<1> QED BY <1>3, <1>5, <1>6, OnlySearched

(* What the user switches off stops touching.                              *)
LEMMA TouchToggle ==
  ASSUME IInv, NEW on, NEW qs, ToggleAllCollisions(on, qs)
  PROVE  DisabledNeverTouch'
<1> DEFINE ps == IF allCollisionsOFF' THEN {}
                 ELSE {p \in Pairs \ disabled' : p \subseteq bodyVec}
<1>1. ps \in SUBSET Pairs
  OBVIOUS
<1>2. contacts' \in FindAllContacts(ps)
  BY DEF ToggleAllCollisions, NoUpdate
<1>3. ps = Searched'
  BY DEF ToggleAllCollisions, worldVars, Searched, ActivePairs
<1> HIDE DEF ps
<1>4. \A c \in contacts'.cur : PairOf(c) \in Searched'
  BY <1>1, <1>2, <1>3, AllOfSearched
<1> QED BY <1>4 DEF DisabledNeverTouch, OnAny

(* A hand comes, of whose links the world knows nothing.                   *)
LEMMA TouchAddRobot ==
  ASSUME IInv, IInv', Absent, DisabledNeverTouch, NEW h \in Hand \ Hands, NEW obj,
         AddRobot(h, obj), NEW ps, \A p \in ps : p \cap Links[h] # {},
         disabled' = disabled \cup ps,
         UNCHANGED <<dynamic, allCollisionsOFF>>
  PROVE  DisabledNeverTouch'
<1>1. contacts'.cur = contacts.cur
  BY DEF AddRobot, IInv, Lists, Fields
<1>2. ASSUME NEW c \in contacts'.cur PROVE PairOf(c) \notin ps
  <2>1. PairOf(c) \subseteq bodyVec
    BY <1>1, BothInside DEF IInv, PairOf
  <2>2. Links[h] \cap bodyVec = {}
    BY DEF Absent
  <2> QED BY <2>1, <2>2
<1> QED BY <1>1, <1>2, NoneNew

(* The pairs that addRobot() switches off are pairs of links of the hand.  *)
LEMMA PairsOfLinks ==
  ASSUME NEW h \in Hand, NEW p \in WithinChains(h)
  PROVE  p \cap Links[h] # {}
<1>1. PICK chain \in Chains[h] :
        p \in Cross({Base[h]}, {Head(chain)}) \cup Cross(ToSet(chain), ToSet(chain))
  BY DEF WithinChains
<1>2. Base[h] \in Links[h] /\ ToSet(chain) \subseteq Links[h]
  BY WorldAssumption
<1>3. CASE p \in Cross({Base[h]}, {Head(chain)})
  BY <1>2, <1>3 DEF Cross
<1>4. CASE p \in Cross(ToSet(chain), ToSet(chain))
  BY <1>2, <1>4 DEF Cross
<1> QED BY <1>1, <1>3, <1>4

(* Every operation keeps apart what does not collide.                      *)
LEMMA TouchNext ==
  IInv /\ IInv' /\ BodiesOK /\ Absent /\ DisabledNeverTouch /\ [Next]_vars
    => DisabledNeverTouch'
<1> SUFFICES ASSUME IInv, IInv', BodiesOK, Absent, DisabledNeverTouch, [Next]_vars
             PROVE  DisabledNeverTouch'
  OBVIOUS
<1>1. ASSUME NEW b \in Object \cup Obstacle, ImportBody(b) PROVE DisabledNeverTouch'
  <2>1. contacts'.cur = contacts.cur
    BY <1>1 DEF ImportBody, AddBody, UpdateGrasps, NoUpdate, IInv, Lists, Fields
  <2>2. UNCHANGED <<dynamic, disabled, allCollisionsOFF>>
    BY <1>1 DEF ImportBody, collisionVars
  <2> QED BY <2>1, <2>2, NoneNew
<1>2. ASSUME NEW bs, contacts' = BreakContacts(contacts, bs),
             UNCHANGED <<dynamic, disabled, allCollisionsOFF>>
      PROVE  DisabledNeverTouch'
  <2>1. contacts'.cur \subseteq contacts.cur
    BY <1>2, ToldOfBroken DEF IInv
  <2> QED BY <1>2, <2>1, NoneNew
<1>3. ASSUME NEW b \in Object \cup Obstacle, PlaceBody(b) PROVE DisabledNeverTouch'
  BY <1>2, <1>3 DEF PlaceBody, worldVars, collisionVars
<1>4. ASSUME NEW h \in Hand, DestroyHand(h) \/ PoseHand(h) PROVE DisabledNeverTouch'
  BY <1>2, <1>4 DEF DestroyHand, PoseHand, worldVars, collisionVars
<1>5. ASSUME NEW b \in Object \cup Obstacle, DestroyBody(b, TRUE) PROVE DisabledNeverTouch'
  <2>1. PICK ch :
          contacts' = BreakContacts([contacts EXCEPT !.changed = ch], {b})
    BY <1>5 DEF DestroyBody
  <2> DEFINE k == [contacts EXCEPT !.changed = ch]
  <2>2. Lists(k) /\ k.cur = contacts.cur
    <3>1. Lists(k)
      BY Aside DEF IInv
    <3> QED BY <3>1 DEF IInv, Lists, Fields
  <2> HIDE DEF k
  <2>3. contacts'.cur \subseteq contacts.cur
    BY <2>1, <2>2, ToldOfBroken DEF k
  <2>4. /\ dynamic' = dynamic \ {b} /\ bodyVec' = bodyVec \ {b}
        /\ UNCHANGED <<disabled, allCollisionsOFF>>
    BY <1>5 DEF DestroyBody, collisionVars
  <2> QED BY <2>3, <2>4, NoneNew
<1>6. ASSUME NEW b, NEW d, MakeBodyDynamic(b, d) PROVE DisabledNeverTouch'
  BY <1>6, TouchMakeDynamic
<1>7. ASSUME NEW h \in Hand, ImportHand(h) PROVE DisabledNeverTouch'
  BY <1>7, PairsOfLinks, TouchAddRobot DEF ImportHand
<1>8. ASSUME NEW g \in Hand, NEW h \in Hand, CloneHand(g, h) PROVE DisabledNeverTouch'
  <2> DEFINE ps == WithinChains(h) \cup Cross(Links[g], Links[h])
  <2>1. \A p \in ps : p \cap Links[h] # {}
    BY PairsOfLinks DEF Cross
  <2>2. /\ h \in Hand \ Hands /\ AddRobot(h, object[g])
        /\ disabled' = disabled \cup ps
        /\ UNCHANGED <<dynamic, allCollisionsOFF>>
    BY <1>8 DEF CloneHand
  <2> HIDE DEF ps
  <2> QED BY <2>1, <2>2, TouchAddRobot
<1>9. ASSUME NEW h \in Hand, NEW o \in Object, SetObject(h, o) \/ SetObjectNoUpdate(h, o)
      PROVE  DisabledNeverTouch'
  <2>1. contacts'.cur = contacts.cur
    BY <1>9 DEF SetObject, SetObjectNoUpdate, UpdateGrasps, IInv, Lists, Fields
  <2>2. UNCHANGED <<dynamic, disabled, allCollisionsOFF>>
    BY <1>9 DEF SetObject, SetObjectNoUpdate, worldVars, collisionVars
  <2> QED BY <2>1, <2>2, NoneNew
<1>10. ASSUME NEW e, NEW moved, Move(e, moved) PROVE DisabledNeverTouch'
  BY <1>10, TouchMove
<1>11. CASE Analyze
  BY <1>11, TouchAnalyze
<1>12. ASSUME NEW on, NEW qs, ToggleAllCollisions(on, qs) PROVE DisabledNeverTouch'
  BY <1>12, TouchToggle
<1>13. CASE UNCHANGED vars
  <2>1. UNCHANGED <<contacts, dynamic, disabled, allCollisionsOFF>>
    BY <1>13 DEF vars, worldVars, collisionVars, graspVars
  <2> QED BY <2>1, NoneNew
<1> QED BY <1>1, <1>3, <1>4, <1>5, <1>6, <1>7, <1>8, <1>9, <1>10, <1>11, <1>12, <1>13
        DEF Next

-----------------------------------------------------------------------------
(* All of the invariant.  That grasps follow rests on the lists of the     *)
(* world, and both it and the pairs that are off rest on the contacts.     *)
WInv == IInv /\ BodiesOK /\ Absent /\ CollisionsOK /\ GraspsOK /\ DisabledNeverTouch

LEMMA WInvAlways == Spec => []WInv
<1>1. Init => WInv
  <2>1. Init => DisabledNeverTouch
    BY DEF Init, NoContacts, DisabledNeverTouch, OnAny
  <2> QED BY <2>1, InvInit, BodiesInit, GraspsInit DEF WInv
<1>2. WInv /\ [Next]_vars => WInv'
  BY InvNext, BodiesNext, CollisionsNext, GraspsNext, TouchNext DEF WInv
<1> QED BY <1>1, <1>2, PTL DEF Spec

(* However many bodies and hands there are: the two sides of every contact *)
(* agree and each body counts what it has, and the lists of the world hold *)
(* what is in it, each once.                                               *)
THEOREM ContactsAlwaysPaired == Spec => []ContactsPaired
<1>1. WInv => ContactsPaired
  BY DEF WInv, IInv, Lists, Counts, Mated, Counted, BodiesOK, CollisionsOK, GraspsOK,
         TypeOK, ContactsPaired
<1> QED BY WInvAlways, <1>1, PTL

(* However bodies come and go, by whomever contacts are deleted: a grasp   *)
(* refers to an object of the world, and unless its hand's flag is set, to *)
(* exactly the contacts the hand has.                                      *)
THEOREM GraspsAlwaysFollow == Spec => []GraspsFollow
<1>1. WInv => GraspsFollow
  BY DEF WInv, GraspsOK
<1> QED BY WInvAlways, <1>1, PTL

(* Whatever is switched off, also while it is in contact, and whatever a   *)
(* hand or clone that comes must not touch: there are no contacts of it.   *)
THEOREM DisabledNeverTouches == Spec => []DisabledNeverTouch
<1>1. WInv => DisabledNeverTouch
  BY DEF WInv
<1> QED BY WInvAlways, <1>1, PTL
=============================================================================
