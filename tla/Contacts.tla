------------------------------- MODULE Contacts -------------------------------
(***************************************************************************)
(* The contacts of the bodies of a world.  A contact between two bodies is *)
(* a pair of mates, one on each body; a body keeps those of the current    *)
(* pose in contactList and those of the last search in prevContactList.    *)
(* Destroying either mate takes the other out of its body's list.          *)
(*                                                                         *)
(* The lists of all bodies are one record, so that what a chain of         *)
(* destructors does to several bodies is one expression:                   *)
(*   alive    the contacts that exist                                      *)
(*   mated    those whose pointer to their mate is not NULL                *)
(*   cur      those in the contactList of their body                       *)
(*   prev     those in the prevContactList of their body                   *)
(*   num      numContacts of every body                                    *)
(*   unset    the bodies whose numContacts was never initialised; num then *)
(*            counts from whatever it held                                 *)
(*   changed  the hands whose contactsChangedFlag is set                   *)
(* Two bodies touch at one point.                                          *)
(***************************************************************************)
EXTENDS Integers, FiniteSets

CONSTANTS
  Body,           (* every body there may ever be                          *)
  Hand,           (* every hand                                            *)
  Links,          (* Links[h] are the bodies of hand h                     *)
  Copies          (* contacts of two bodies that may exist at a time       *)

ASSUME LinksAssumption ==
  /\ IsFiniteSet(Body) /\ IsFiniteSet(Copies)
  /\ Links \in [Hand -> SUBSET Body]

Contact == {c \in [on : Body, against : Body, copy : Copies] : c.on # c.against}
Pairs == {p \in SUBSET Body : Cardinality(p) = 2}

PairOf(c) == {c.on, c.against}
On(cs, b) == {c \in cs : c.on = b}
OnAny(cs, bs) == {c \in cs : c.on \in bs}
OfPairs(cs, ps) == {c \in cs : PairOf(c) \in ps}

(* The two halves of a contact point to each other.                        *)
Mate(c) == [on |-> c.against, against |-> c.on, copy |-> c.copy]
Mates(cs) == {Mate(c) : c \in cs}

NoContacts ==
  [alive |-> {}, mated |-> {}, cur |-> {}, prev |-> {}, num |-> [b \in Body |-> 0],
   unset |-> {}, changed |-> {}]

(* Mutant of Notified: nobody is told.                                     *)
NotifiedNobody(cs) == {}

(* Link::setContactsChanged() tells its robot: the hands that lists lost   *)
(* or got the contacts cs of.                                              *)
Notified(cs) == {h \in Hand : OnAny(cs, Links[h]) # {}}

(* Contacts of the previous lists are deleted on their own: their mates    *)
(* forget them first.                                                      *)
DropPrevious(k, old) ==
  [k EXCEPT !.alive = @ \ old, !.mated = (@ \ old) \ Mates(old \cap @), !.prev = @ \ old]

(* ~Contact() deletes the mate through removeContact() of its body, which  *)
(* looks for it in contactList and nowhere else.                           *)
DeleteWithMates(k, own) ==
  LET gone == own \cup Mates(own \cap k.mated)
  IN  [k EXCEPT !.alive = @ \ gone, !.mated = @ \ gone, !.cur = @ \ gone,
                !.num = [b \in Body |-> @[b] - Cardinality(On(gone, b))],
                !.changed = @ \cup Notified(gone)]

(* The counts of bodies whose contactList was emptied.                     *)
ZeroNum(num, bs) == [b \in Body |-> IF b \in bs THEN 0 ELSE num[b]]

(* breakContacts() of the bodies bs.                                       *)
BreakContacts(k, bs) ==
  LET k1 == DeleteWithMates(k, OnAny(k.cur, bs))
      k2 == DropPrevious(k1, OnAny(k1.prev, bs))
  IN  [k2 EXCEPT !.num = ZeroNum(@, bs), !.unset = @ \ bs]

(* Mutant of ResetContactList: the counts go on.                           *)
ResetContactListCount(k, bs) ==
  LET k1 == DropPrevious(k, OnAny(k.prev, bs))
      old == OnAny(k1.cur, bs)
  IN  [k1 EXCEPT !.prev = @ \cup old, !.cur = @ \ old, !.changed = @ \cup Notified(old)]

(* resetContactList() of the bodies bs: the contacts become the previous   *)
(* ones and those before them are deleted.                                 *)
ResetContactList(k, bs) ==
  LET k1 == DropPrevious(k, OnAny(k.prev, bs))
      old == OnAny(k1.cur, bs)
  IN  [k1 EXCEPT !.prev = @ \cup old, !.cur = @ \ old,
                 !.num = ZeroNum(@, bs), !.unset = @ \ bs,
                 !.changed = @ \cup Notified(old)]

(* removeContact() of every contact between the pairs ps.                  *)
RemoveContacts(k, ps) == DeleteWithMates(k, OfPairs(k.cur, ps))

(* new PointContact or SoftContact: memory that no contact lives in.       *)
FreeCopies(k, p) == {n \in Copies : \A c \in k.alive : PairOf(c) = p => c.copy # n}
HasRoom(k, ps) == \A p \in ps : FreeCopies(k, p) # {}
NewContacts(k, ps) ==
  UNION {LET n == CHOOSE n \in FreeCopies(k, p) : TRUE
         IN  {[on |-> b, against |-> CHOOSE a \in p : a # b, copy |-> n] : b \in p} : p \in ps}

(* The new contacts between the pairs of near inherit from a previous one. *)
(* The ancestors are deleted, so that nobody else inherits from them.      *)
Inherit(k, near) == DropPrevious(k, OfPairs(k.prev, near))

(* Mutant of AddContacts: the ancestors stay in their lists.               *)
AddContactsStale(k, ps, near) ==
  LET new == NewContacts(k, ps)
      k1  == [k EXCEPT !.alive = @ \cup new, !.mated = @ \cup new, !.cur = @ \cup new,
                       !.num = [b \in Body |-> @[b] + Cardinality(On(new, b))],
                       !.changed = @ \cup Notified(new)]
  IN  [Inherit(k1, near) EXCEPT !.prev = k.prev]

(* addContacts() for every pair of bodies of ps; those of near lie where a *)
(* previous contact lay.                                                   *)
AddContacts(k, ps, near) ==
  LET new == NewContacts(k, ps)
      k1  == [k EXCEPT !.alive = @ \cup new, !.mated = @ \cup new, !.cur = @ \cup new,
                       !.num = [b \in Body |-> @[b] + Cardinality(On(new, b))],
                       !.changed = @ \cup Notified(new)]
  IN  Inherit(k1, near)
=============================================================================
