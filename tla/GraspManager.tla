---------------------------- MODULE GraspManager -----------------------------
(***************************************************************************)
(* The planner for primitives: PlannerDlg with its grasp_manager, the      *)
(* grasp_tester, which tests one grasp per call of its idle sensor, and    *)
(* the grasp_presenter; next to them the dialog of quality measures, whose *)
(* measures the tester names by their number, and the menus.  Grasps are   *)
(* pointers; a pointer to one that is not alive dangles.                   *)
(*                                                                         *)
(* The user may press any button that is enabled, also during a test.  A   *)
(* behaviour ends where the program follows a pointer that is NULL or      *)
(* dangles.  Whether a test is rendered and whether there is a graspable   *)
(* body is any choice; the master file, the file of results and            *)
(* doIteration, which no dialog sets, are left out.                        *)
(***************************************************************************)
EXTENDS GraspQuality

CONSTANTS
  Good,         (* qualities that count: above 0 and not above 1           *)
  High,         (* qualities above 1                                       *)
  MaxGrasps,    (* bound: grasps generated                                 *)
  MaxList,      (* bound: grasps in one list                               *)
  MaxMeasures,  (* bound: quality measures                                 *)
  MaxViews      (* bound: projections of a type                            *)

ASSUME ManagerConstants ==
  /\ Good \subseteq Nat \ {0} /\ High \subseteq Nat \ {0} /\ Good \cap High = {}
  /\ MaxGrasps \in Nat /\ MaxList \in Nat
  /\ MaxMeasures \in Nat \ {0} /\ MaxViews \in Nat

VARIABLES
  grasp,            (* the Grasp of the hand                               *)
  qmDlg,            (* who opened the dialog of measures, if it is open    *)
  isOpen,           (* PlannerDlg is open                                  *)
  enabled,          (* its buttons that can be pressed                     *)
  qmComboBox,       (* the number of measures it lists                     *)
  connected,        (* testingComplete() enables the show button           *)
  planned,          (* every plannedGrasp, alive or not                    *)
  alive,            (* those not deleted                                   *)
  graspList,        (* of the manager; the tester has its address          *)
  graspsNotShown,
  whichQM,
  idleSensor,       (* the tester has one                                  *)
  iterator,         (* the index it_gr stands at, 0 if it dangles          *)
  hand,             (* 0, or the grasp it was last moved to                *)
  origTran,         (* where the hand was when the test began; -1 before   *)
  presenterList,    (* graspList of the presenter                          *)
  processing,       (* the index it will present, 0 at the beginning       *)
  undefined         (* a pointer was followed that is NULL or dangles      *)

dialog == <<isOpen, enabled, qmComboBox, connected>>
manager == <<graspList, graspsNotShown>>
tester == <<whichQM, idleSensor, iterator, origTran>>
presenter == <<presenterList, processing>>
program == <<grasp, qmDlg, dialog, planned, alive, manager, tester, hand, presenter>>
vars == <<program, undefined>>

Bad == -1

(* Of a planned grasp: its quality, whether savePosition() has recorded    *)
(* its final position, and whether its representation myCP is not NULL.    *)
PlannedGrasp == [quality : Good \cup High \cup {Bad}, saved : BOOLEAN, visible : BOOLEAN]

Init ==
  /\ grasp \in {NoMeasures} \cup {AddQM(NoMeasures, t) : t \in GWSType}
  /\ qmDlg = "closed" /\ isOpen = TRUE /\ connected = FALSE
  /\ qmComboBox = Len(grasp.qmList)
  /\ enabled = IF qmComboBox > 0 THEN {"Generate"} ELSE {}
  /\ planned = <<>> /\ alive = {} /\ graspList = <<>>
  /\ graspsNotShown = FALSE
  /\ whichQM = -1 /\ idleSensor = FALSE /\ iterator = 1 /\ origTran = -1
  /\ hand = 0
  /\ presenterList = <<>> /\ processing = 0 /\ undefined = FALSE

-----------------------------------------------------------------------------
(* Quality measures and projections.                                       *)

(* The dialog of measures is modal.                                        *)
NoDialog == qmDlg = "closed"

OpenQMDlg ==
  /\ NoDialog
  /\ qmDlg' \in {"menu"} \cup (IF isOpen THEN {"newQM"} ELSE {})
  /\ UNCHANGED <<grasp, dialog, planned, alive, manager, tester, hand, presenter>>

(* addEditQM(): row 0 is "New quality measure".                            *)
AddEditQM ==
  /\ ~NoDialog
  /\ \E t \in GWSType :
       \/ Len(grasp.qmList) < MaxMeasures /\ grasp' = AddQM(grasp, t)
       \/ \E i \in DOMAIN grasp.qmList : grasp' = ReplaceQM(grasp, i, t)
  /\ UNCHANGED <<qmDlg, dialog, planned, alive, manager, tester, hand, presenter>>

(* The delete button is enabled on the rows of measures.                   *)
DeleteQM ==
  /\ ~NoDialog
  /\ \E i \in DOMAIN grasp.qmList :
       grasp' = RemoveQM(grasp, i)
  /\ UNCHANGED <<qmDlg, dialog, planned, alive, manager, tester, hand, presenter>>

(* The dialog returns to newQM(), which lists the measures anew, or to the *)
(* main window.                                                            *)
CloseQMDlg ==
  /\ ~NoDialog /\ qmDlg' = "closed"
  /\ IF qmDlg = "newQM"
     THEN /\ qmComboBox' = Len(grasp.qmList)
          /\ enabled' = enabled \cup (IF qmComboBox' > 0 THEN {"Generate"} ELSE {})
     ELSE UNCHANGED <<qmComboBox, enabled>>
  /\ UNCHANGED <<grasp, isOpen, connected, planned, alive, manager, tester,
                 hand, presenter>>

(* graspCreateProjection(), and the window of a projection closed.         *)
ShowProjection ==
  /\ NoDialog
  /\ \E t \in GWSType :
       \/ grasp.projections[t] < MaxViews /\ grasp' = AddProjection(grasp, t)
       \/ grasp.projections[t] > 0 /\ grasp' = RemoveProjection(grasp, t)
  /\ UNCHANGED <<qmDlg, dialog, planned, alive, manager, tester, hand, presenter>>

-----------------------------------------------------------------------------
(* PlannerDlg and grasp_manager.                                           *)

MayPress(button) == NoDialog /\ isOpen /\ button \in enabled

(* Of grasps that are deleted nothing is left.                             *)
Erased(gs) ==
  [g \in DOMAIN planned |->
     IF g \in gs THEN [quality |-> Bad, saved |-> FALSE, visible |-> FALSE] ELSE planned[g]]

(* n new grasps at the end of the heap.                                    *)
Fresh(n) == [k \in 1..n |-> Len(planned) + k]

(* The new list is drawn by visualizePlannedGrasps().                      *)
NewList(n, deleted) ==
  /\ graspList' = Fresh(n)
  /\ alive' = (alive \ deleted) \cup ToSet(Fresh(n))
  /\ planned' = Erased(deleted) \o [k \in 1..n |-> [quality |-> Bad, saved |-> FALSE, visible |-> TRUE]]

ReadsSettings ==
  whichQM' \in IF qmComboBox = 0 THEN {-1} ELSE 0..qmComboBox - 1

AtEnd == iterator = Len(graspList) + 1

(* generateGrasps(): the manager's list is assigned that of the planner,   *)
(* and its old grasps are not deleted.  During a test, an iterator that is *)
(* not at the end is left at its place if the nodes are used again and the *)
(* new list is long enough, and dangles otherwise.                         *)
GenerateGrasps ==
  /\ MayPress("Generate") /\ ReadsSettings
  /\ \E n \in 0..MaxList :
       /\ Len(planned) + n <= MaxGrasps
       /\ NewList(n, {})
       /\ iterator' \in IF ~idleSensor THEN {iterator}
                        ELSE IF AtEnd THEN {n + 1} ELSE {0} \cup ({iterator} \cap 1..n)
  /\ connected' = TRUE /\ enabled' = enabled \cup {"Test"}
  /\ UNCHANGED <<grasp, qmDlg, isOpen, qmComboBox, graspsNotShown, idleSensor,
                 origTran, hand, presenter>>

(* There is no graspable body: the manager returns with its old list, the  *)
(* dialog goes on.                                                         *)
GenerateNothing ==
  /\ MayPress("Generate") /\ ReadsSettings
  /\ connected' = TRUE /\ enabled' = enabled \cup {"Test"}
  /\ UNCHANGED <<grasp, qmDlg, isOpen, qmComboBox, planned, alive, manager,
                 idleSensor, iterator, origTran, hand, presenter>>

(* readCandidateGraspsFile(), which deletes the grasps of the old list,    *)
(* clears it and connects nothing.                                         *)
ReadGrasps ==
  /\ MayPress("Generate") /\ ReadsSettings
  /\ \E n \in 0..MaxList :
       /\ Len(planned) + n <= MaxGrasps
       /\ NewList(n, ToSet(graspList))
       /\ iterator' = IF ~idleSensor THEN iterator ELSE IF AtEnd THEN n + 1 ELSE 0
  /\ enabled' = enabled \cup {"Test"}
  /\ UNCHANGED <<grasp, qmDlg, isOpen, qmComboBox, connected, graspsNotShown,
                 idleSensor, origTran, hand, presenter>>

(* The file cannot be read, or there is no graspable body: it is then that *)
(* a connection is made.                                                   *)
ReadFails ==
  /\ MayPress("Generate") /\ ReadsSettings
  /\ connected' = TRUE
  /\ UNCHANGED <<grasp, qmDlg, isOpen, enabled, qmComboBox, planned, alive, manager,
                 idleSensor, iterator, origTran, hand, presenter>>

(* Mutant of TestGrasps: a running test is not refused, it begins again.   *)
TestGraspsAgain ==
  /\ MayPress("Test")
  /\ graspsNotShown' = TRUE
  /\ IF whichQM < 0 \/ graspList = <<>>
     THEN UNCHANGED <<idleSensor, iterator, origTran>>
     ELSE idleSensor' = TRUE /\ iterator' = 1 /\ origTran' = hand
  /\ UNCHANGED <<grasp, qmDlg, dialog, planned, alive, graspList, whichQM,
                 hand, presenter>>

(* testGrasps(), with callTestIt(), which refuses an empty list, a missing *)
(* choice of measure and a second test.                                    *)
TestGrasps ==
  /\ MayPress("Test")
  /\ graspsNotShown' = TRUE
  /\ IF idleSensor \/ whichQM < 0 \/ graspList = <<>>
     THEN UNCHANGED <<idleSensor, iterator, origTran>>
     ELSE idleSensor' = TRUE /\ iterator' = 1 /\ origTran' = hand
  /\ UNCHANGED <<grasp, qmDlg, dialog, planned, alive, graspList, whichQM,
                 hand, presenter>>

(* takeList(): the presenter gets the list when it is told there is a new  *)
(* one, and goes on with the one it has otherwise.                         *)
Offered == IF graspsNotShown THEN graspList ELSE presenterList
Presented == IF graspsNotShown \/ processing = 0 THEN 1 ELSE processing
Presents == MayPress("Show") /\ graspList # <<>> /\ Offered # <<>>

(* showGrasps() and showGrasp(): the hand takes the final position of the  *)
(* grasp, whatever that is if none was saved.                              *)
ShowGrasp ==
  LET g == Offered[Presented]
  IN  /\ Presents /\ g \in alive
      /\ graspsNotShown' = FALSE
      /\ presenterList' = Offered
      /\ processing' = IF Presented = Len(Offered) THEN 1 ELSE Presented + 1
      /\ hand' = IF planned[g].quality > 0 THEN g ELSE hand
      /\ UNCHANGED <<grasp, qmDlg, dialog, planned, alive, graspList, tester>>

(* The grasp to be presented was deleted.                                  *)
ShowDeleted == Presents /\ Offered[Presented] \notin alive

(* ~grasp_manager() deletes its list, and ~grasp_tester() puts the hand    *)
(* where the last test found it.  Their members go with them, except the   *)
(* idle sensor of a test.                                                  *)
Close ==
  /\ NoDialog /\ isOpen /\ isOpen' = FALSE
  /\ alive' = alive \ ToSet(graspList) /\ graspList' = <<>>
  /\ planned' = Erased(ToSet(graspList))
  /\ hand' = IF origTran = -1 THEN hand ELSE origTran
  /\ enabled' = {} /\ qmComboBox' = 0 /\ connected' = FALSE
  /\ graspsNotShown' = FALSE
  /\ whichQM' = -1 /\ iterator' = 1 /\ origTran' = -1
  /\ presenterList' = <<>> /\ processing' = 0
  /\ UNCHANGED <<grasp, qmDlg, idleSensor>>

-----------------------------------------------------------------------------
(* The idle sensor calls testIt().                                         *)

Testing == idleSensor /\ isOpen /\ iterator # 0
ThisGrasp == graspList[iterator]

(* What the test can make of a grasp: its approach fails, or no step back  *)
(* finds a contact that counts, and its quality stays as it is; the last   *)
(* one measured does not count; the first one does, and its position is    *)
(* saved if it is not above 1; or one after steps back, which is always    *)
(* saved.  A grasp that is not saved loses its representation.             *)
Unevaluated(pg) == {[pg EXCEPT !.visible = FALSE]}
Evaluated(pg) ==
  {[pg EXCEPT !.quality = q, !.visible = FALSE] : q \in High \cup {Bad}}
  \cup {[pg EXCEPT !.quality = q, !.saved = TRUE] : q \in Good \cup High}

(* A grasp is coloured, put, perhaps measured.  The hand is put back after *)
(* each grasp unless the test is rendered.                                 *)
TestOne ==
  /\ Testing /\ ~AtEnd
  /\ planned[ThisGrasp].visible
  /\ \E outcome \in Unevaluated(planned[ThisGrasp])
                      \cup (IF HasQM(grasp, whichQM) THEN Evaluated(planned[ThisGrasp]) ELSE {}) :
       planned' = [planned EXCEPT ![ThisGrasp] = outcome]
  /\ iterator' = iterator + 1
  /\ hand' \in {ThisGrasp, origTran}
  /\ UNCHANGED <<grasp, qmDlg, dialog, alive, manager, whichQM, idleSensor,
                 origTran, presenter>>

(* The tester was deleted with its dialog; or its iterator dangles; or a   *)
(* grasp without representation is coloured; or a grasp is measured with a *)
(* measure that does not exist.                                            *)
TestAstray ==
  /\ idleSensor
  /\ \/ ~isOpen \/ iterator = 0
     \/ Testing /\ ~AtEnd /\ (~planned[ThisGrasp].visible \/ ~HasQM(grasp, whichQM))

(* The grasps of a set in a list, the best first; those of one quality in  *)
(* any order, which differs between platforms.                             *)
BestFirst(gs) ==
  {list \in Bijection(1..Cardinality(gs), gs) :
     \A i, j \in DOMAIN list :
       i < j => planned[list[i]].quality >= planned[list[j]].quality}

GoodGrasps == {g \in ToSet(graspList) : planned[g].quality > 0}
BadGrasps == ToSet(graspList) \ GoodGrasps
DeleteBadGrasps == alive' = alive \ BadGrasps /\ planned' = Erased(BadGrasps)

(* Mutant of OrderGraspListByQuality: the list is not reversed.            *)
OrderWorstFirst ==
  /\ \E list \in BestFirst(GoodGrasps) : graspList' = Reverse(list)
  /\ DeleteBadGrasps

(* Bad grasps are deleted, the others sorted, the best first.              *)
OrderGraspListByQuality == graspList' \in BestFirst(GoodGrasps) /\ DeleteBadGrasps

(* After the last grasp: the list is put in order, the hand back, the      *)
(* sensor deleted and testingComplete() emitted.                           *)
TestEnd ==
  /\ Testing /\ AtEnd
  /\ OrderGraspListByQuality
  /\ idleSensor' = FALSE
  /\ hand' = origTran
  /\ enabled' = enabled \cup (IF connected THEN {"Show"} ELSE {})
  /\ UNCHANGED <<grasp, qmDlg, isOpen, qmComboBox, connected, iterator,
                 graspsNotShown, whichQM, origTran, presenter>>

-----------------------------------------------------------------------------

(* The program follows a pointer that it must not follow.                  *)
GoesAstray == undefined' = TRUE /\ UNCHANGED program

TestIt ==
  \/ ~undefined /\ (TestOne \/ TestEnd) /\ UNCHANGED undefined
  \/ ~undefined /\ TestAstray /\ GoesAstray

(* The user: the menus and the dialog of measures, and PlannerDlg.         *)
Clicks ==
  \/ OpenQMDlg \/ AddEditQM \/ DeleteQM \/ CloseQMDlg \/ ShowProjection
  \/ GenerateGrasps \/ GenerateNothing \/ ReadGrasps \/ ReadFails
  \/ TestGrasps \/ ShowGrasp \/ Close

Next ==
  \/ ~undefined /\ Clicks /\ UNCHANGED undefined
  \/ ~undefined /\ ShowDeleted /\ GoesAstray
  \/ TestIt

(* Inventor empties its queue of idle sensors between two events.          *)
Spec == Init /\ [][Next]_vars /\ WF_vars(TestIt)

-----------------------------------------------------------------------------

TypeOK ==
  /\ grasp \in Grasp(MaxMeasures, MaxViews)
  /\ qmDlg \in {"closed", "menu", "newQM"} /\ isOpen \in BOOLEAN
  /\ enabled \subseteq {"Generate", "Test", "Show"}
  /\ qmComboBox \in 0..MaxMeasures /\ connected \in BOOLEAN
  /\ planned \in Seq(PlannedGrasp) /\ Len(planned) <= MaxGrasps
  /\ alive \subseteq DOMAIN planned
  /\ Len(graspList) <= MaxList
  /\ {graspsNotShown, idleSensor, undefined} \subseteq BOOLEAN
  /\ whichQM \in -1..MaxMeasures - 1 /\ iterator \in 0..MaxList + 1
  /\ hand \in 0..MaxGrasps /\ origTran \in -1..MaxGrasps
  /\ Len(presenterList) <= MaxList /\ processing \in 0..MaxList

(* The list of the manager never holds a grasp that was deleted, although  *)
(* the tester cuts it and the manager replaces it during a test; and a GWS *)
(* is deleted with its last user.  (The presenter's copy of the list may.) *)
NothingDangles ==
  /\ TypeOK
  /\ ToSet(graspList) \subseteq alive
  /\ RefsCounted(grasp)

(* "When the last grasp is reached, the hand is returned to its position   *)
(* before the testing began, the graspList is sorted in quality order":    *)
(* the grasps left are the good ones.  "the quality and final grasp        *)
(* position are recorded in this class as well": that of a grasp whose     *)
(* quality does not exceed 1, and no code saves the others.                *)
Ranked(list) ==
  /\ \A i, j \in DOMAIN list :
       i < j => planned[list[i]].quality >= planned[list[j]].quality
  /\ \A g \in ToSet(list) : planned[g].quality > 0 /\ (planned[g].quality \in Good => planned[g].saved)

AfterTest ==
  [][idleSensor /\ ~idleSensor' =>
       /\ Ranked(graspList)' /\ hand' = origTran
       /\ \A g \in ToSet(graspList) :
            planned[g].quality > 0 => g \in ToSet(graspList')]_vars

(* A test ends, in the end of the list or in a pointer that must not be   *)
(* followed, whatever the user does meanwhile: other lists are generated   *)
(* and read under its iterator, measures come and go, the dialog closes.   *)
TestEnds == idleSensor ~> ~idleSensor \/ undefined
=============================================================================
