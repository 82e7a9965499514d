--------------------------------- MODULE DOF ---------------------------------
(***************************************************************************)
(* The degrees of freedom of a robot in statics.  Every DOF drives joints, *)
(* and its kind says what becomes of them when contact stops some:         *)
(*   RIGID       one stopped joint stops them all                          *)
(*   BREAKAWAY   a joint stopped while the DOF closes is disengaged, and   *)
(*               stays where it is until the DOF comes back to that value  *)
(*   COMPLIANT   the others go on, and nothing is remembered               *)
(* The posture of a robot is one record h:                                 *)
(*   q       the value of every DOF                                        *)
(*   val     the value of every joint, in units of its DOF                 *)
(*   broken  the joints that are disengaged (mInBreakAway)                 *)
(*   at      where they were disengaged (mBreakAwayValues), 0 for others   *)
(* Values are whole multiples of a small angle.                            *)
(***************************************************************************)
EXTENDS Integers, FiniteSets

CONSTANTS
  Joint,
  Dof,
  Drives,         (* Drives[d] are the joints of DOF d                     *)
  Kind            (* Kind[d] says how d reacts to contact                  *)

ASSUME DofAssumption ==
  /\ IsFiniteSet(Joint) /\ IsFiniteSet(Dof)
  /\ Drives \in [Dof -> SUBSET Joint] /\ \A d \in Dof : Drives[d] # {}
  /\ Kind \in [Dof -> {"RIGID", "BREAKAWAY", "COMPLIANT"}]
  /\ \A j \in Joint : \E d \in Dof : j \in Drives[d]
  /\ \A d, e \in Dof : d # e => Drives[d] \cap Drives[e] = {}

DofOf == [j \in Joint |-> CHOOSE d \in Dof : j \in Drives[d]]
OfKind(kind) == {j \in Joint : Kind[DofOf[j]] = kind}

(* stoppedJoints is a set of joints with the direction they are stopped in.*)
Directions == {1, -1}
Sign(n) == IF n > 0 THEN 1 ELSE IF n < 0 THEN -1 ELSE 0
Halted(j, stopped) == \E s \in Directions : <<j, s>> \in stopped
Held(h, j, q1, stopped) == <<j, Sign(q1 - h.val[j])>> \in stopped

(* A joint that a DOF at q1 does not take along.                           *)
InBreakAway(h, j, q1) == j \in h.broken /\ q1 > h.at[j]

(* accumulateMove(): the joints that go to q1 with DOF d.                  *)
AccumulateMove(h, d, q1, stopped) ==
  LET halted == \E j \in Drives[d] : Halted(j, stopped)
  IN  CASE q1 = h.q[d] -> {}
        [] q1 # h.q[d] /\ Kind[d] = "RIGID" -> IF halted THEN {} ELSE Drives[d]
        [] q1 # h.q[d] /\ Kind[d] = "BREAKAWAY" ->
             IF q1 < h.q[d] /\ halted THEN {}
             ELSE {j \in Drives[d] : ~InBreakAway(h, j, q1) /\ ~Held(h, j, q1, stopped)}
        [] q1 # h.q[d] /\ Kind[d] = "COMPLIANT" -> {j \in Drives[d] : ~Held(h, j, q1, stopped)}

(* The joints that move when the DOFs go to the values desired.            *)
Movers(h, desired, stopped) == UNION {AccumulateMove(h, d, desired[d], stopped) : d \in Dof}

(* updateVal() of every DOF: joints that stayed behind are disengaged,     *)
(* those the DOF has come back to are engaged again.                       *)
UpdateVal(h, newq) ==
  LET behind == {j \in OfKind("BREAKAWAY") : IF j \in h.broken THEN newq[DofOf[j]] >= h.at[j]
                                             ELSE h.val[j] < newq[DofOf[j]]}
  IN  [h EXCEPT !.q = newq, !.broken = behind,
                !.at = [j \in Joint |-> IF j \notin behind THEN 0 ELSE IF j \in h.broken THEN h.at[j] ELSE h.val[j]]]

(* reset() engages every joint.                                            *)
Reset(h) == [h EXCEPT !.broken = {}, !.at = [j \in Joint |-> 0]]

(* getJointValues()                                                        *)
JointValues(h) ==
  [j \in Joint |-> IF InBreakAway(h, j, h.q[DofOf[j]]) THEN h.at[j] ELSE h.q[DofOf[j]]]

(* The DOFs and joints with every DOF at the value v.                      *)
AllAt(v) ==
  [q |-> [d \in Dof |-> v], val |-> [j \in Joint |-> v], broken |-> {}, at |-> [j \in Joint |-> 0]]
=============================================================================
