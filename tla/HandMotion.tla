------------------------------ MODULE HandMotion ------------------------------
(***************************************************************************)
(* A hand moves its DOFs in statics: step by step towards desired values,  *)
(* every step interpolated back to the moment of contact when it collides, *)
(* and joints that contact has stopped left behind.  Between moves the     *)
(* hand approaches obstacles as a whole, postures are forced, saved and    *)
(* restored, and objects are put elsewhere.                                *)
(*                                                                         *)
(* Geometry: every joint carries a link, which reaches so far, and further *)
(* or less far as the joints before it move and as the hand approaches;    *)
(* obstacles stand in front of it and behind it.                           *)
(***************************************************************************)
EXTENDS DOF

CONSTANTS
  Upto,           (* Upto[l] are the joints of the chain of link l, up to l*)
  Reach(_, _),    (* how far a link reaches with the joints at some values *)
  Velocity,       (* Velocity[d] is the default velocity of DOF d          *)
  MaxVal,         (* DOFs go from 0 to MaxVal                              *)
  Steps,          (* bound: the steps that callers ask for                 *)
  ONE_STEP,       (* no stepping                                           *)
  Threshold,      (* bodies this close are in contact                      *)
  Places,         (* bound: the places of the obstacles                    *)
  Trans,          (* bound: the places of the hand, an interval            *)
  Approach,       (* bound: how far the hand is sent                       *)
  ApproachStep,   (* the steps of an approach                              *)
  MaxIter,        (* the failsafe of moveDOFToContacts()                   *)
  None

ASSUME MotionAssumption ==
  /\ Upto \in [Joint -> SUBSET Joint]
  /\ \A l \in Joint : l \in Upto[l] /\ \A j \in Upto[l] : Upto[j] \subseteq Upto[l]
  /\ Velocity \in [Dof -> Int] /\ MaxVal \in Nat \ {0} /\ Threshold \in Nat \ {0}
  /\ Steps \subseteq Nat \ {0} /\ ONE_STEP \in Nat \ {0} /\ MaxIter \in Nat
  /\ \A p \in Places : p \in [front : [Joint -> Int], behind : [Joint -> Int]]
  /\ 0 \in Trans /\ Trans \subseteq Int /\ \A t, u \in Trans : t..u \subseteq Trans
  /\ \A d \in Approach : d \in Nat \ {0} /\ d % 2 = 0
  /\ ApproachStep \in Nat \ {0}

(* The pose of a link depends on the joints of its chain up to it; a chain *)
(* that stands still does not move it.                                     *)
ASSUME ReachAssumption ==
  \A l \in Joint :
    /\ \A p \in [Joint -> -1..MaxVal] :
         Reach(p, l) \in Int /\ Reach(p, l) = Reach([j \in Joint |-> IF j \in Upto[l] THEN p[j] ELSE 0], l)
    /\ Reach([j \in Joint |-> 0], l) = 0

(* The joints of a DOF with breakaway are in the chain of one of them.     *)
ASSUME ChainAssumption ==
  \A d \in Dof : Kind[d] = "BREAKAWAY" => \E j \in Drives[d] : Drives[d] \subseteq Upto[j]

VARIABLES
  robot,          (* the record of module DOF                              *)
  tran,           (* how far the hand is along its direction of approach   *)
  contacts,       (* links in contact, with the side they are touched on   *)
  place,          (* where the obstacles are                               *)
  move            (* the running moveDOFToContacts(), or None              *)

handVars == <<robot, tran, contacts, place, move>>
Link == Joint

(***************************************************************************)
(* Geometry and collisions.  A link is touched on the side s: in front, 1, *)
(* or behind, -1.                                                          *)
(***************************************************************************)
Gap(t, p, l, s) ==
  IF s = 1 THEN place.front[l] - Reach(p, l) - t ELSE Reach(p, l) + t - place.behind[l]
Collisions(t, p, ls) == {c \in ls \X Directions : Gap(t, p, c[1], c[2]) <= 0}
Touching(t, p, cs) == {c \in cs : Gap(t, p, c[1], c[2]) \in 1..Threshold}
Free(t, p) == Collisions(t, p, Link) = {}

(* Links whose pose differs lose their contacts.                           *)
Displaced(p1, p2) == {l \in Link : \E j \in Upto[l] : p1[j] # p2[j]}
Unbroken(p1, p2) == {c \in contacts : c[1] \notin Displaced(p1, p2)}

(***************************************************************************)
(* One step: the joints movers go towards the DOF values desired.  The way *)
(* is looked at in MaxVal points.                                          *)
(***************************************************************************)
Between(a, b, i) == a + ((b - a) * i) \div MaxVal
PostureAt(desired, movers, i) ==
  [j \in Joint |-> IF j \in movers THEN Between(robot.val[j], desired[DofOf[j]], i) ELSE robot.val[j]]
Direction(desired, movers, j) == IF j \in movers THEN Sign(desired[DofOf[j]] - robot.val[j]) ELSE 0

(* contactsPreventMotion() of the infinitesimal motion of the links.       *)
Motion(desired, movers, l) == Sign(Reach([j \in Joint |-> Direction(desired, movers, j)], l))
Prevented(desired, movers) == {l \in Link : <<l, Motion(desired, movers, l)>> \in contacts}

(* Mutant of StopJoints: the joints after the link are stopped too.        *)
StopJointsAll(desired, movers, ls) ==
  {c \in {j \in Link : \E l \in ls : Upto[j] \cap Upto[l] # {}} \X Directions : Direction(desired, movers, c[1]) = c[2]}

(* stopJointsFromLink(): the joints up to the links ls that are moving.    *)
StopJoints(desired, movers, ls) ==
  {c \in (UNION {Upto[l] : l \in ls}) \X Directions : Direction(desired, movers, c[1]) = c[2]}

(* A round of getJointValuesFromDOF(): where existing contacts prevent the *)
(* motion of a link, the joints up to the first such link are stopped.     *)
StopPrevented(desired, before) ==
  LET movers    == Movers(robot, desired, before)
      prevented == Prevented(desired, movers)
  IN  before \cup StopJoints(desired, movers, {l \in prevented : prevented \cap Upto[l] = {l}})

(* getJointValuesFromDOF(): no more rounds than joints change anything.    *)
Stopped(desired, stopped) ==
  LET round[n \in 0..Cardinality(Joint)] ==
        IF n = 0 THEN stopped ELSE StopPrevented(desired, round[n - 1])
  IN  round[Cardinality(Joint)]

(* Mutant of InterestList: a link with any joint stopped is not looked at. *)
InterestListFew(stopped) == {l \in Link : \A j \in Upto[l] : ~Halted(j, stopped)}

(* Links whose last joint is not stopped are checked for collisions.       *)
InterestList(stopped) == {l \in Link : ~Halted(l, stopped)}

(* Collisions of a report are gone, one of them just so.                   *)
Resolved(t, p, report) ==
  Touching(t, p, report) # {} /\ \A c \in report : Gap(t, p, c[1], c[2]) > 0

(* interpolateJoints(): the points before i that resolve the collisions.   *)
InterpolateJoints(desired, movers, i, report) ==
  {k \in 0..i - 1 : Resolved(tran, PostureAt(desired, movers, k), report)}

(* A loop that looks for collisions at the last point of a way, goes back  *)
(* from a point i to one in back[i], looks again, and so on: the points    *)
(* where it comes by, those where it may end, with the collisions resolved *)
(* last, and whether it may find no way back.                              *)
Passed(back, last) ==
  {i \in DOMAIN back : \A S \in SUBSET DOMAIN back :
                         last \in S /\ (\A k \in S : back[k] \subseteq S) => i \in S}
Ends(report, back, last) ==
  IF report[last] = {} THEN {<<last, {}>>}
  ELSE UNION {{<<k, report[i]>> : k \in {k \in back[i] : report[k] = {}}} : i \in Passed(back, last)}
NoWayBack(report, back, last) == \E i \in Passed(back, last) : report[i] # {} /\ back[i] = {}

(* The loop of jumpDOFToContact().                                         *)
Reports(desired, movers, interest) ==
  [i \in 0..MaxVal |-> Collisions(tran, PostureAt(desired, movers, i), interest)]
Backs(desired, movers, report) ==
  [i \in 0..MaxVal |-> InterpolateJoints(desired, movers, i, report[i])]
Settled(desired, movers, interest) ==
  LET report == Reports(desired, movers, interest)
  IN  Ends(report, Backs(desired, movers, report), MaxVal)
Unsettled(desired, movers, interest) ==
  LET report == Reports(desired, movers, interest)
  IN  NoWayBack(report, Backs(desired, movers, report), MaxVal)

(***************************************************************************)
(* moveDOFToContacts().                                                    *)
(***************************************************************************)
HandInit ==
  /\ robot = AllAt(0) /\ tran = 0 /\ contacts = {}
  /\ place \in Places
  /\ move = None

(* The step of DOF d in the direction of the desired value.                *)
StepSize(d, desired, step) ==
  IF step = ONE_STEP THEN desired - robot.q[d]
  ELSE IF desired < robot.q[d] THEN -step ELSE step

MoveDOFToContacts(desired, steps, stopAtContact) ==
  /\ move = None
  /\ move' = [desired |-> [d \in Dof |-> IF steps[d] = 0 THEN robot.q[d] ELSE desired[d]],
              step |-> [d \in Dof |-> StepSize(d, desired[d], steps[d])],
              stopAtContact |-> stopAtContact, stopped |-> {}, itercount |-> 0]
  /\ UNCHANGED <<robot, tran, contacts, place>>

(* autoGrasp() closes the hand, or opens it.                               *)
AutoGrasp(speed, step, stopAtContact) ==
  MoveDOFToContacts([d \in Dof |-> IF speed * Velocity[d] >= 0 THEN MaxVal ELSE 0],
                    [d \in Dof |-> IF Velocity[d] = 0 THEN 0 ELSE step], stopAtContact)

(* The user or a client of the server moves one DOF.                       *)
MoveDOF(d, v, step) ==
  MoveDOFToContacts([robot.q EXCEPT ![d] = v], [e \in Dof |-> IF e = d THEN step ELSE 0], TRUE)

NewVals ==
  [d \in Dof |-> LET v == robot.q[d] + move.step[d]
                 IN  IF \/ move.step[d] > 0 /\ v > move.desired[d]
                        \/ move.step[d] < 0 /\ v < move.desired[d]
                     THEN move.desired[d] ELSE v]
NewStopped == Stopped(NewVals, move.stopped)
NewMovers == Movers(robot, NewVals, NewStopped)

(* No DOF moves any more.                                                  *)
NoMovement ==
  /\ move # None /\ NewMovers = {}
  /\ move' = None
  /\ UNCHANGED <<robot, tran, contacts, place>>

(* The collisions were there before: the joints go back where they were.   *)
InterpolationFails ==
  /\ move # None
  /\ \E stopped \in {NewStopped} : \E movers \in {Movers(robot, NewVals, stopped)} :
         /\ movers # {} /\ Unsettled(NewVals, movers, InterestList(stopped))
         /\ contacts' = Unbroken(robot.val, PostureAt(NewVals, movers, MaxVal))
  /\ move' = None
  /\ UNCHANGED <<robot, tran, place>>

(* Mutant of ActualDOFVals: DOFs that move take the whole step.            *)
ActualDOFValsWhole(desired, movers, i) ==
  [d \in Dof |-> IF Drives[d] \cap movers # {} THEN desired[d] ELSE robot.q[d]]

ActualDOFVals(desired, movers, i) ==
  [d \in Dof |-> IF Drives[d] \cap movers # {} THEN Between(robot.q[d], desired[d], i) ELSE robot.q[d]]

(* One step: the joints move, up to the first contact; a receiver of       *)
(* moveDOFStepTaken() may ask to stop at new contacts.                     *)
Step ==
  /\ move # None
  /\ \E stopped \in {NewStopped} : \E movers \in {Movers(robot, NewVals, stopped)} :
         /\ movers # {}
         /\ \E end \in Settled(NewVals, movers, InterestList(stopped)), stopRequest \in BOOLEAN :
              LET p    == PostureAt(NewVals, movers, end[1])
                  late == Touching(tran, p, end[2])
              IN  /\ stopRequest => late # {}
                  /\ robot' = UpdateVal([robot EXCEPT !.val = p], ActualDOFVals(NewVals, movers, end[1]))
                  /\ contacts' = Unbroken(robot.val, PostureAt(NewVals, movers, MaxVal)) \cup late
                  /\ move' = IF stopRequest \/ (move.stopAtContact /\ late # {}) \/ move.itercount >= MaxIter
                             THEN None
                             ELSE [move EXCEPT !.stopped = stopped \cup StopJoints(NewVals, movers, {c[1] : c \in late}),
                                               !.itercount = @ + 1]
  /\ UNCHANGED <<tran, place>>

(***************************************************************************)
(* Postures that are set without looking for collisions.                   *)
(***************************************************************************)

(* forceDOFVals()                                                          *)
Forced(v) ==
  UpdateVal([Reset(robot) EXCEPT !.val = PostureAt(v, Movers(Reset(robot), v, {}), MaxVal)], v)

SetPosture(t, h) ==
  /\ move = None
  /\ robot' = h /\ tran' = t
  /\ contacts' = IF t = tran THEN Unbroken(robot.val, h.val) ELSE {}
  /\ UNCHANGED <<place, move>>

(* execute() of a state that a planner found, at the place t.              *)
Execute(t, v) == SetPosture(t, Forced(v))

(* quickOpen(): the DOFs go back until the hand is free or cannot open more.*)
Opened(n) ==
  [d \in Dof |-> LET v == robot.q[d] - n * Sign(Velocity[d])
                 IN  IF v < 0 THEN 0 ELSE IF v > MaxVal THEN MaxVal ELSE v]
FullyOpen(n) == \A d \in Dof : Velocity[d] # 0 => robot.q[d] - n * Sign(Velocity[d]) \notin 0..MaxVal
QuickOpen ==
  \E n \in 1..MaxVal + 1 :
    LET Done(m) == Free(tran, Forced(Opened(m)).val) \/ FullyOpen(m)
    IN  Done(n) /\ (\A m \in 1..n - 1 : ~Done(m)) /\ SetPosture(tran, Forced(Opened(n)))

(* Mutant of Restored: what was disengaged is not read.                    *)
RestoredEngaged(h, savedDOF) ==
  LET read == [h EXCEPT !.q = savedDOF.q] IN [read EXCEPT !.val = JointValues(read)]

(* saveState() writes every DOF; restoreState() reads them into the hand as*)
(* it is by then, and sets the joints from the DOFs.                       *)
Restored(h, savedDOF) ==
  LET read == [h EXCEPT !.q = savedDOF.q, !.broken = savedDOF.broken, !.at = savedDOF.at]
  IN  [read EXCEPT !.val = JointValues(read)]

(* analyzeState(): the hand is saved, takes the place and the posture of a *)
(* search state, and is restored.  An energy that moves it in between has  *)
(* it lose its contacts, and nothing else that is not restored.            *)
AnalyzeState(t, v) ==
  /\ move = None
  /\ UNCHANGED <<tran, place, move>>
  /\ LET tried    == Forced(v)
         restored == Restored(tried, [q |-> robot.q, broken |-> robot.broken, at |-> robot.at])
     IN  /\ robot' = restored
         /\ contacts' = IF t # tran THEN {}
                        ELSE Unbroken(robot.val, tried.val) \cap Unbroken(tried.val, restored.val)

(***************************************************************************)
(* The hand is moved as a whole.                                           *)
(***************************************************************************)

(* jumpTo() a place u from t: where the hand may end, with the contacts    *)
(* found; those are {} when the way is free, or when interpolateTo() fails *)
(* because a collision was there before, and takes it back to t.           *)
JumpTo(t, u) ==
  LET report == [i \in t..u |-> Collisions(i, robot.val, Link)]
      back   == [i \in t..u |-> {k \in t..i - 1 : Resolved(k, robot.val, report[i])}]
  IN  {[at |-> e[1], found |-> Touching(e[1], robot.val, e[2]), ok |-> TRUE] : e \in Ends(report, back, u)}
        \cup (IF NoWayBack(report, back, u) THEN {[at |-> t, found |-> {}, ok |-> FALSE]} ELSE {})

(* moveTo() the place u from t: a jump per step, up to the first contact.  *)
MoveTo(t, u, step) ==
  LET Stop(k) == (k - t) % step = 0
      starts  == {k \in t..u - 1 : Stop(k) /\ \A m \in t + 1..k : Stop(m) => Free(m, robot.val)}
      NextStop(k) == IF k + step > u THEN u ELSE k + step
  IN  UNION {{e \in JumpTo(k, NextStop(k)) : ~e.ok \/ e.found # {} \/ NextStop(k) = u} : k \in starts}

(* approachToContact() from t, with the contacts ks of the hand there: one *)
(* that is in front prevents the motion; moving breaks the others.         *)
ApproachToContact(t, ks, dist, oneStep) ==
  /\ move = None /\ t + dist \in Trans
  /\ UNCHANGED <<robot, place, move>>
  /\ IF \E l \in Link : <<l, 1>> \in ks
     THEN tran' = t /\ contacts' = ks
     ELSE \E e \in MoveTo(t, t + dist, IF oneStep THEN dist ELSE ApproachStep) :
            tran' = e.at /\ contacts' = e.found

(* findInitialContact() goes back by half the distance until nothing       *)
(* collides, then approaches.                                              *)
Retreated(dist) == {t \in Trans : (tran - t) % (dist \div 2) = 0 /\ t <= tran /\ Free(t, robot.val)}
FindInitialContact(dist) ==
  /\ move = None
  /\ \E t \in Retreated(dist) :
       /\ \A u \in Retreated(dist) : u <= t
       /\ ApproachToContact(t, IF t = tran THEN contacts ELSE {}, dist, FALSE)

(* Obstacles are put elsewhere.                                            *)
PlaceObstacles(p) ==
  /\ move = None /\ p # place
  /\ place' = p /\ contacts' = {}
  /\ UNCHANGED <<robot, tran, move>>

(* findAllContacts()                                                       *)
FindAllContacts ==
  /\ move = None
  /\ contacts' = Touching(tran, robot.val, Link \X Directions)
  /\ UNCHANGED <<robot, tran, place, move>>

HandNext ==
  \/ NoMovement \/ InterpolationFails \/ Step
  \/ \E speed \in Directions, step \in Steps, stopAtContact \in BOOLEAN : AutoGrasp(speed, step, stopAtContact)
  \/ \E d \in Dof, v \in {0, MaxVal}, step \in Steps : MoveDOF(d, v, step)
  \/ \E t \in Trans, v \in 0..MaxVal : Execute(t, [d \in Dof |-> v]) \/ AnalyzeState(t, [d \in Dof |-> v])
  \/ QuickOpen \/ FindAllContacts
  \/ \E dist \in Approach, oneStep \in BOOLEAN : ApproachToContact(tran, contacts, dist, oneStep)
  \/ \E dist \in Approach : FindInitialContact(dist)
  \/ \E p \in Places : PlaceObstacles(p)

HandSpec == HandInit /\ [][HandNext]_handVars

(***************************************************************************)
(* Properties.                                                             *)
(***************************************************************************)
(* DOFs and joints stay within their limits, contacts are with links, and  *)
(* only joints of DOFs with breakaway are ever disengaged.                 *)
HandTypeOK ==
  /\ robot.q \in [Dof -> 0..MaxVal] /\ robot.val \in [Joint -> 0..MaxVal]
  /\ robot.broken \subseteq OfKind("BREAKAWAY") /\ robot.at \in [Joint -> 0..MaxVal]
  /\ contacts \subseteq Link \X Directions
  /\ tran \in Trans /\ place \in Places
  /\ move # None => move.stopped \subseteq Joint \X Directions /\ move.itercount \in 0..MaxIter

(* The joints of a rigid DOF stay together, through contacts, errors and   *)
(* restores.                                                               *)
RigidTogether == \A j \in OfKind("RIGID") : robot.val[j] = robot.q[DofOf[j]]

(* A DOF with breakaway always has a joint that tells its value:           *)
(* updateFromJointValues() asserts it.                                     *)
SomeJointEngaged == \A d \in Dof : Kind[d] = "BREAKAWAY" => ~(Drives[d] \subseteq robot.broken)

(* A restored hand has the posture in which it was saved.  DOFs that are   *)
(* COMPLIANT do not promise it.  A joint with breakaway that a step undone *)
(* half way has left behind where its DOF expects it does not return: it   *)
(* goes to where it was disengaged, or follows its DOF.                    *)
Strays(j) ==
  /\ j \in OfKind("BREAKAWAY")
  /\ robot.val[j] < (IF j \in robot.broken THEN robot.at[j] ELSE robot.q[DofOf[j]])
RestoreRestores ==
  [][(\E t \in Trans, v \in 0..MaxVal : AnalyzeState(t, [d \in Dof |-> v])) =>
       \A j \in Joint \ OfKind("COMPLIANT") : robot'.val[j] = robot.val[j] \/ Strays(j)]_handVars

(* Moving never takes a hand that is free into an obstacle, neither its    *)
(* joints nor the whole of it.                                             *)
Moves == move # None \/ \E d \in Approach, b \in BOOLEAN : ApproachToContact(tran, contacts, d, b)
StaysFree == [][Moves /\ Free(tran, robot.val) => Free(tran', robot'.val)]_handVars

(* A move that ends for want of movement has brought every DOF as far as   *)
(* it goes: to the desired value, or until contact holds a joint of it, if *)
(* it is rigid or opens with breakaway, or all that are not disengaged.    *)
Touches(j) == \E t \in contacts : j \in Upto[t[1]]
MovedOut ==
  \A d \in Dof :
    \/ robot.q[d] = move.desired[d]
    \/ IF Kind[d] = "RIGID" \/ (Kind[d] = "BREAKAWAY" /\ move.desired[d] < robot.q[d])
       THEN \E j \in Drives[d] : Touches(j)
       ELSE \A j \in Drives[d] : Touches(j)

(* "back along its approach direction until it is collision free, then     *)
(* forward until it finds the exact moment of contact", from collision too.*)
Found(dist) ==
  /\ Free(tran', robot'.val)
  /\ (\E l \in Link : <<l, 1>> \in contacts') \/ tran' - dist \in Retreated(dist)

Exhausted ==
  [][(NoMovement => MovedOut) /\ (\A d \in Approach : FindInitialContact(d) => Found(d))]_handVars

(* A move ends by itself: the failsafe of 500 steps is never what ends it. *)
FailsafeUnused == move # None => move.itercount < MaxIter

(* What holds of the hand between any two steps of a move.                 *)
HandConsistent == HandTypeOK /\ RigidTogether /\ SomeJointEngaged /\ FailsafeUnused

(***************************************************************************)
(* Hands of which the properties of moves hold.                            *)
(***************************************************************************)
(* The failsafe of a move is further than its values and stops allow.      *)
FailsafeIsFar == MaxIter > Cardinality(Dof) * MaxVal + 2 * Cardinality(Joint)

(* Compliant DOFs drive a joint each.                                      *)
OneJointEach == \A d \in Dof : Kind[d] = "COMPLIANT" => \E j \in Drives[d] : Drives[d] = {j}

(* No joint after one with breakaway is moved together with it by          *)
(* autoGrasp(), or even no other joint of the chain.                       *)
Apart(i, j) ==
  Kind[DofOf[j]] = "BREAKAWAY" /\ DofOf[i] # DofOf[j] => Velocity[DofOf[i]] = 0 \/ Velocity[DofOf[j]] = 0
NothingBeyond == \A i \in Joint : \A j \in Upto[i] : Apart(i, j)
OneInAChain == \A l \in Link : \A i, j \in Upto[l] : Apart(i, j)
=============================================================================
