---------------------------- MODULE GraspQuality -----------------------------
(***************************************************************************)
(* The quality measures of a Grasp, the projections shown of it, and the   *)
(* wrench spaces (GWS) both are computed from.  A grasp has one GWS of a   *)
(* type at most; measures and projections share it, and the last of them   *)
(* to go deletes it.  Functions on a grasp, which GraspManager applies.    *)
(***************************************************************************)
EXTENDS Integers, Sequences, FiniteSets, SequencesExt

CONSTANT GWSType     (* GWS::TYPE_LIST                                     *)

(* The members of Grasp: a measure and a projection are their type of GWS, *)
(* refs counts who uses the GWS of a type, which is in gwsList while that  *)
(* is not 0.                                                               *)
Grasp(measures, views) ==
  [qmList : BoundedSeq(GWSType, measures),
   projections : [GWSType -> 0..views],
   refs : [GWSType -> 0..measures + views]]

NoMeasures ==
  [qmList |-> <<>>, projections |-> [t \in GWSType |-> 0],
   refs |-> [t \in GWSType |-> 0]]

(* Mutant of AddGWS: a GWS that is found is not counted again.             *)
AddGWSCreatedOnly(g, t) == [g EXCEPT !.refs[t] = 1]

(* The GWS is found or created, and counts one more user.                  *)
AddGWS(g, t) == [g EXCEPT !.refs[t] = @ + 1]

RemoveGWS(g, t) == [g EXCEPT !.refs[t] = @ - 1]

(* A measure asks for its GWS when it is created, and gives it up when it  *)
(* is deleted.  numQM is the length of qmList: the dialog replaces only    *)
(* measures that are in the list.                                          *)
AddQM(g, t) == [AddGWS(g, t) EXCEPT !.qmList = Append(@, t)]

(* The new measure exists before the old one is deleted.                   *)
ReplaceQM(g, i, t) ==
  [RemoveGWS(AddGWS(g, t), g.qmList[i]) EXCEPT !.qmList[i] = t]

RemoveQM(g, i) ==
  IF i \in DOMAIN g.qmList
  THEN [RemoveGWS(g, g.qmList[i]) EXCEPT !.qmList = RemoveAt(@, i)]
  ELSE g

AddProjection(g, t) == [AddGWS(g, t) EXCEPT !.projections[t] = @ + 1]
RemoveProjection(g, t) == [RemoveGWS(g, t) EXCEPT !.projections[t] = @ - 1]

(* getQM(i) is not NULL.                                                   *)
HasQM(g, i) == i \in 0..Len(g.qmList) - 1

(* Whoever uses a GWS is counted, so nobody's is deleted before time and   *)
(* none is kept that nobody uses.                                          *)
RefsCounted(g) ==
  \A t \in GWSType :
    g.refs[t] = Cardinality({i \in DOMAIN g.qmList : g.qmList[i] = t})
                  + g.projections[t]
=============================================================================
