-------------------------------- MODULE World --------------------------------
(***************************************************************************)
(* The world: its bodies, hands and their grasps, the pairs of bodies that *)
(* take part in collision detection, and the contacts of module Contacts.  *)
(* The actions are the operations the user, the dialogs and the planners   *)
(* call.  Geometry is left out: a search for contacts finds any of the     *)
(* pairs it looks at.  A body or hand that is not in the world is memory   *)
(* that a new one may be allocated in.                                     *)
(***************************************************************************)
EXTENDS Contacts, Sequences, SequencesExt

CONSTANTS
  Object,         (* graspable bodies                                      *)
  Obstacle,       (* bodies that are neither graspable nor links           *)
  Base,           (* Base[h] is the base link of hand h                    *)
  Chains,         (* Chains[h] are the kinematic chains of h, its fingers: *)
                  (* sequences of links                                    *)
  None,
  MaxBodies,      (* bound: bodies in the world or kept                    *)
  Selectable,     (* bound: elements that the user selects in pairs        *)
  MaxFound,       (* bound: pairs in contact that one search finds         *)
  MaxContacts,    (* bound: contacts that exist                            *)
  MaxToggles      (* bound: times the user toggles collisions              *)

ASSUME WorldAssumption ==
  /\ Object \cup Obstacle \subseteq Body /\ Object \cap Obstacle = {}
  /\ \A h \in Hand : Links[h] \cap (Object \cup Obstacle) = {}
  /\ \A g, h \in Hand : g # h => Links[g] \cap Links[h] = {}
  /\ \A h \in Hand : \A chain \in Chains[h] : chain # <<>>
  /\ \A h \in Hand : Links[h] = {Base[h]} \cup UNION {ToSet(chain) : chain \in Chains[h]}
  /\ None \notin Body \cup Hand
  /\ Object # {} /\ MaxToggles \in Nat

VARIABLES
  bodyVec,        (* bodies in the world, links included                   *)
  GBVec,          (* graspable bodies in the world, in order               *)
  handVec,        (* hands in the world, in order                          *)
  kept,           (* bodies taken out of the world but not deleted         *)
  dynamic,        (* obstacles that are dynamic bodies                     *)
  disabled,       (* mDisabledMap: pairs of bodies that do not collide     *)
  allCollisionsOFF,
  contacts,       (* the record of module Contacts                         *)
  object,         (* the object of every hand's grasp                      *)
  contactVec,     (* the contacts every grasp has collected                *)
  toggled         (* how often the user has toggled collisions             *)

worldVars == <<bodyVec, GBVec, handVec, kept, dynamic>>
collisionVars == <<disabled, allCollisionsOFF, toggled>>
graspVars == <<contacts, object, contactVec>>
vars == <<worldVars, collisionVars, graspVars>>

(***************************************************************************)
(* Helpers.                                                                *)
(***************************************************************************)
Hands == ToSet(handVec)
Graspable == ToSet(GBVec)
Elements == (bodyVec \cap (Object \cup Obstacle)) \cup Hands
Parts(e) == IF e \in Hand THEN Links[e] ELSE {e}
Cross(bs, cs) == {p \in Pairs : \E b \in bs, c \in cs : p = {b, c}}
First(seq) == IF seq = <<>> THEN None ELSE seq[1]

(* The list after a loop that erases e where it first finds it.            *)
Erased(list, e) ==
  LET here == {i \in DOMAIN list : list[i] = e}
  IN  IF here = {} THEN list ELSE RemoveAt(list, CHOOSE i \in here : \A j \in here : i <= j)

(* getActivePairs()                                                        *)
ActivePairs == {p \in Pairs \ disabled : p \subseteq bodyVec}

(* getCollisionReport() and allContacts() look at no pair when collisions  *)
(* are off.                                                                *)
Searched == IF allCollisionsOFF THEN {} ELSE ActivePairs

(* Some of the contacts found lie where previous ones of the pair lay.     *)
Nears(k, found) == SUBSET {p \in found : OfPairs(k.prev, {p}) # {}}

(* What a search among the pairs ps may find.                              *)
Reports(ps) == {found \in SUBSET ps : Cardinality(found) <= MaxFound}

(* The contacts of hand h with the body o.                                 *)
HandContacts(k, h, o) == {c \in OnAny(k.cur, Links[h]) : c.against = o}

(* Grasp::update() of the hands hs with objects obj: their flags are reset *)
(* and their contacts collected.                                           *)
UpdateGrasps(k, obj, hs) ==
  /\ contacts' = [k EXCEPT !.changed = @ \ hs]
  /\ contactVec' = [h \in Hand |-> IF h \in hs THEN HandContacts(k, h, obj[h]) ELSE contactVec[h]]

(* World::updateGrasps()                                                   *)
UpdateChanged(k) == UpdateGrasps(k, object, Hands \cap k.changed)

NoUpdate(k) == contacts' = k /\ UNCHANGED contactVec

WithinBounds ==
  /\ Cardinality(contacts'.alive) <= MaxContacts
  /\ Cardinality(bodyVec' \cup kept') <= MaxBodies

Init ==
  /\ bodyVec = {} /\ GBVec = <<>> /\ handVec = <<>>
  /\ kept = {} /\ dynamic = {}
  /\ disabled = {} /\ allCollisionsOFF = FALSE /\ toggled = 0
  /\ contacts = NoContacts
  /\ object = [h \in Hand |-> None]
  /\ contactVec = [h \in Hand |-> {}]

(***************************************************************************)
(* Bodies.                                                                 *)
(***************************************************************************)

(* addBody(): the first graspable body becomes the object of every grasp.  *)
AddBody(b, k) ==
  /\ bodyVec' = bodyVec \cup {b}
  /\ GBVec' = IF b \in Object THEN Append(GBVec, b) ELSE GBVec
  /\ IF b \in Object /\ GBVec = <<>>
     THEN /\ object' = [h \in Hand |-> IF h \in Hands THEN b ELSE object[h]]
          /\ UpdateGrasps(k, object', Hands)
     ELSE UNCHANGED object /\ NoUpdate(k)

(* importBody()                                                            *)
ImportBody(b) ==
  /\ b \in (Object \cup Obstacle) \ (bodyVec \cup kept)
  /\ AddBody(b, contacts)
  /\ UNCHANGED <<handVec, kept, dynamic, collisionVars>>

(* A dialog puts a body back that it took out before.                      *)
AddKeptBody(b) ==
  /\ b \in kept
  /\ AddBody(b, contacts)
  /\ kept' = kept \ {b}
  /\ UNCHANGED <<handVec, dynamic, collisionVars>>

(* setTran() of a body, in the world or kept: no contacts are looked for.  *)
PlaceBody(b) ==
  /\ b \in (bodyVec \cap (Object \cup Obstacle)) \cup kept
  /\ contacts' = BreakContacts(contacts, {b})
  /\ UNCHANGED <<worldVars, collisionVars, object, contactVec>>

(* The grasps whose object goes get the first that is left.                *)
Refocus(b) ==
  object' = [h \in Hand |-> IF h \in Hands /\ object[h] = b THEN First(GBVec') ELSE object[h]]

(* destroyElement() of a body                                              *)
DestroyBody(b, deleteElement) ==
  LET refocused == {h \in Hands : object[h] = b}
  IN  /\ b \in bodyVec \cap (Object \cup Obstacle)
      /\ bodyVec' = bodyVec \ {b}
      /\ GBVec' = Erased(GBVec, b)
      /\ Refocus(b)
      /\ contactVec' = [h \in Hand |-> IF h \in refocused THEN HandContacts(contacts, h, object'[h])
                                       ELSE contactVec[h]]
      /\ LET k == [contacts EXCEPT !.changed = @ \ refocused]
         IN  contacts' = IF deleteElement THEN BreakContacts(k, {b}) ELSE k
      /\ kept' = IF deleteElement THEN kept ELSE kept \cup {b}
      /\ dynamic' = IF deleteElement THEN dynamic \ {b} ELSE dynamic
      /\ UNCHANGED <<handVec, collisionVars>>

(* A dialog deletes a body that it has taken out of the world.             *)
DeleteKept(b) ==
  /\ b \in kept
  /\ contacts' = BreakContacts(contacts, {b})
  /\ kept' = kept \ {b}
  /\ dynamic' = dynamic \ {b}
  /\ UNCHANGED <<bodyVec, GBVec, handVec, collisionVars, object, contactVec>>

(* makeBodyDynamic(): d takes the place of the obstacle b, which is        *)
(* destroyed; findContacts(d) looks at every body, also at those collision *)
(* detection has been told to leave out.                                   *)
MakeBodyDynamic(b, d) ==
  /\ b \in (bodyVec \cap Obstacle) \ dynamic
  /\ d \in Obstacle \ (bodyVec \cup kept)
  /\ bodyVec' = (bodyVec \ {b}) \cup {d}
  /\ dynamic' = dynamic \cup {d}
  /\ \E found \in Reports(Cross({d}, bodyVec \ {b})) :
       LET k1 == BreakContacts(contacts, {b})
           k2 == [k1 EXCEPT !.unset = @ \cup {d}]
       IN  HasRoom(k2, found) /\ \E near \in Nears(k2, found) : contacts' = AddContacts(k2, found, near)
  /\ UNCHANGED <<GBVec, handVec, kept, collisionVars, object, contactVec>>

(***************************************************************************)
(* Hands.                                                                  *)
(***************************************************************************)

(* addRobot() of hand h whose grasp has the object obj.  A hand without    *)
(* contacts is added; its grasp gets the first graspable body.             *)
AddRobot(h, obj) ==
  /\ bodyVec' = bodyVec \cup Links[h]
  /\ handVec' = Append(handVec, h)
  /\ object' = [object EXCEPT ![h] = IF GBVec # <<>> THEN GBVec[1] ELSE obj]
  /\ contactVec' = [contactVec EXCEPT ![h] = {}]
  /\ contacts' = [contacts EXCEPT !.changed = @ \ {h}]

(* The pairs of links that addRobot() switches off: the base and the first *)
(* link of every chain, and all links of one chain.                        *)
WithinChains(h) ==
  UNION {Cross({Base[h]}, {Head(chain)}) \cup Cross(ToSet(chain), ToSet(chain)) : chain \in Chains[h]}

(* importRobot() of a hand                                                 *)
ImportHand(h) ==
  /\ h \in Hand \ Hands
  /\ AddRobot(h, None)
  /\ disabled' = disabled \cup WithinChains(h)
  /\ UNCHANGED <<GBVec, kept, dynamic, allCollisionsOFF, toggled>>

(* createAndUseClone(): a clone h of hand g that does not collide with it. *)
CloneHand(g, h) ==
  /\ g \in Hands /\ h \in Hand \ Hands
  /\ Cardinality(Chains[g]) = Cardinality(Chains[h])
  /\ AddRobot(h, object[g])
  /\ disabled' = disabled \cup WithinChains(h) \cup Cross(Links[g], Links[h])
  /\ UNCHANGED <<GBVec, kept, dynamic, allCollisionsOFF, toggled>>

(* destroyElement() of a hand: its links and its grasp go with it.         *)
DestroyHand(h) ==
  /\ h \in Hands
  /\ handVec' = Erased(handVec, h)
  /\ bodyVec' = bodyVec \ Links[h]
  /\ contacts' = BreakContacts(contacts, Links[h])
  /\ object' = [object EXCEPT ![h] = None]
  /\ contactVec' = [contactVec EXCEPT ![h] = {}]
  /\ UNCHANGED <<GBVec, kept, dynamic, disabled, allCollisionsOFF, toggled>>

(* setTran() and forceDOFVals() of a hand: a planner poses it.             *)
PoseHand(h) ==
  /\ h \in Hands
  /\ contacts' = BreakContacts(contacts, Links[h])
  /\ UNCHANGED <<worldVars, collisionVars, object, contactVec>>

(* setObject()                                                             *)
SetObject(h, o) ==
  /\ h \in Hands /\ o \in Graspable
  /\ object' = [object EXCEPT ![h] = o]
  /\ UpdateGrasps(contacts, object', {h})
  /\ UNCHANGED <<worldVars, collisionVars>>

(* setObjectNoUpdate()                                                     *)
SetObjectNoUpdate(h, o) ==
  /\ h \in Hands /\ o \in Graspable
  /\ object' = [object EXCEPT ![h] = o]
  /\ UNCHANGED <<worldVars, collisionVars, contacts, contactVec>>

(***************************************************************************)
(* Contacts and collisions.                                                *)
(***************************************************************************)

(* findContacts(colReport): the contacts of every pair are replaced; those *)
(* of the pairs near lie near previous ones, of the bodies that stood.     *)
FindPairs(k, ps, near) == AddContacts(RemoveContacts(k, ps), ps, near)

(* A move of a body, or of a hand's links, by the user: what moves loses   *)
(* its contacts, what it runs into is looked at, and the grasps follow.    *)
Move(e, moved) ==
  /\ e \in Elements /\ moved \subseteq Parts(e) /\ moved # {}
  /\ LET k == BreakContacts(contacts, moved)
     IN  \E found \in Reports(Searched \cap Cross(moved, bodyVec)) :
           /\ HasRoom(k, found)
           /\ \E near \in Nears(k, found) : UpdateChanged(FindPairs(k, found, near))
  /\ UNCHANGED <<worldVars, collisionVars, object>>

(* findAllContacts() with the pairs searched: the contacts it may leave;   *)
(* some of the new ones lie near previous ones.                            *)
FindAllContacts(searched) ==
  LET k == ResetContactList(contacts, bodyVec)
  IN  UNION {{AddContacts(k, found, near) : near \in Nears(k, found)} :
             found \in {ps \in Reports(searched) : HasRoom(k, ps)}}

(* analyzeState() and the dialogs: findAllContacts(), updateGrasps().      *)
Analyze ==
  /\ \E k \in FindAllContacts(Searched) : UpdateChanged(k)
  /\ UNCHANGED <<worldVars, collisionVars, object>>

(* Mutant of ToggleAllCollisions: the contacts stay as they are.           *)
ToggleAllCollisionsOnly(on, ps) ==
  /\ toggled < MaxToggles
  /\ IF ps = {}
     THEN allCollisionsOFF' = ~on /\ UNCHANGED disabled
     ELSE /\ disabled' = IF on THEN disabled \ ps ELSE disabled \cup ps
          /\ UNCHANGED allCollisionsOFF
  /\ toggled' = toggled + 1
  /\ UNCHANGED <<worldVars, graspVars>>

(* toggleAllCollisions(): all of them when nothing is selected, those of   *)
(* the pairs ps of two selected elements otherwise.                        *)
ToggleAllCollisions(on, ps) ==
  /\ toggled < MaxToggles
  /\ IF ps = {}
     THEN allCollisionsOFF' = ~on /\ UNCHANGED disabled
     ELSE /\ disabled' = IF on THEN disabled \ ps ELSE disabled \cup ps
          /\ UNCHANGED allCollisionsOFF
  /\ LET searched == IF allCollisionsOFF' THEN {} ELSE {p \in Pairs \ disabled' : p \subseteq bodyVec}
     IN  \E k \in FindAllContacts(searched) : NoUpdate(k)
  /\ toggled' = toggled + 1
  /\ UNCHANGED <<worldVars, object>>

Selected == Elements \cap Selectable
Selections == {{}} \cup {Cross(Parts(ef[1]), Parts(ef[2])) : ef \in {ef \in Selected \X Selected : ef[1] # ef[2]}}

Next ==
  /\ \/ \E b \in Object \cup Obstacle :
           \/ ImportBody(b) \/ PlaceBody(b) \/ DestroyBody(b, TRUE)
           \/ \E d \in Obstacle : MakeBodyDynamic(b, d)
     \/ \E h \in Hand :
           \/ ImportHand(h) \/ DestroyHand(h) \/ PoseHand(h)
           \/ \E g \in Hand : CloneHand(g, h)
           \/ \E o \in Object : SetObject(h, o) \/ SetObjectNoUpdate(h, o)
     \/ \E e \in Object \cup Obstacle \cup Hand : \E moved \in SUBSET Parts(e) : Move(e, moved)
     \/ Analyze
     \/ \E on \in BOOLEAN, ps \in Selections : ToggleAllCollisions(on, ps)
  /\ WithinBounds

Spec == Init /\ [][Next]_vars

(* The dialogs and tasks of the grasp database also keep bodies that they  *)
(* take out of the world, put them back and delete them.                   *)
NextKept ==
  \/ Next
  \/ \E b \in Object \cup Obstacle : DestroyBody(b, FALSE) \/ AddKeptBody(b) \/ DeleteKept(b)

SpecKept == Init /\ [][NextKept]_vars

(***************************************************************************)
(* Properties.                                                             *)
(***************************************************************************)

(* GBVec holds the graspable bodies of the world, each once; a body that   *)
(* was taken out of the world and kept is not in it; the rest keeps to its *)
(* range.                                                                  *)
TypeOK ==
  /\ bodyVec \subseteq Body /\ kept \subseteq Object \cup Obstacle /\ kept \cap bodyVec = {}
  /\ GBVec \in Seq(Object) /\ Graspable = bodyVec \cap Object /\ IsInjective(GBVec)
  /\ handVec \in Seq(Hand) /\ IsInjective(handVec)
  /\ dynamic \subseteq Obstacle \cap (bodyVec \cup kept)
  /\ disabled \subseteq Pairs /\ allCollisionsOFF \in BOOLEAN /\ toggled \in 0..MaxToggles
  /\ contacts.alive \subseteq Contact
  /\ contacts.changed \subseteq Hand
  /\ object \in [Hand -> Object \cup {None}]

(* A list never holds a contact that has been deleted, and every contact   *)
(* is in the list of its body: contacts are deleted from the destructors   *)
(* of other contacts.                                                      *)
NoDangling == contacts.alive = contacts.cur \cup contacts.prev

(* The mate of a current contact is a current contact of the other body    *)
(* and points back: forces on one are those on the other.                  *)
Mated ==
  \A c \in contacts.cur : {c, Mate(c)} \subseteq contacts.mated /\ Mate(c) \in contacts.cur

(* numContacts is what contactList holds, also after mates took contacts   *)
(* out of it; except in a body that makeBodyDynamic() made, until its      *)
(* contacts are broken or reset for the first time.                        *)
Counted == \A b \in Body \ contacts.unset : contacts.num[b] = Cardinality(On(contacts.cur, b))

(* The two sides of every contact agree, and each body's count with them.  *)
ContactsPaired == TypeOK /\ Mated /\ Counted

(* As long as a hand's flag is not set, its grasp has collected exactly    *)
(* the contacts that the hand has with some object: what quality measures  *)
(* and force optimisation read has not been deleted.                       *)
GraspCurrent ==
  \A h \in Hands \ contacts.changed :
    \E o \in Object : contactVec[h] = HandContacts(contacts, h, o)

(* The object of a grasp is a graspable body of the world.                 *)
GraspHasObject ==
  \A h \in Hands : IF GBVec = <<>> THEN object[h] = None ELSE object[h] \in Graspable

(* Bodies come and go under a grasp: what it refers to is always there.    *)
GraspsFollow == GraspCurrent /\ GraspHasObject

(* Bodies whose collisions are off have no contacts, but for those that    *)
(* makeBodyDynamic() finds.                                                *)
DisabledNeverTouch ==
  \A c \in OnAny(contacts.cur, bodyVec) :
    PairOf(c) \cap dynamic = {} => PairOf(c) \in Searched

=============================================================================
