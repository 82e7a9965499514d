# TLA+ models of GraspIt!

GraspIt! simulates robot hands and searches for grasps. This directory holds TLA+ modules of the parts of it that have
control worth checking: planners that run in threads or from an idle sensor and hand states and grasps to each other, the
lists they keep, the dialogs that drive them, the world with its contacts, the motion of a hand to contact, and the older planner for
primitives with its quality measures. TLC checks them on small instances; TLAPS proves, for every value of the constants, the safety properties
of all of them, and that the steps of the planners are steps of what is promised of them. `PROJECT.json` names, for every definition, the
lines of the source it stands for.

Paths below are relative to `src/src/` unless they start with `include/` or `ui/`.

1. [The system](#1-the-system)
2. [The modules](#2-the-modules)
3. [The runs](#3-the-runs)
4. [Bounds, symmetry and fairness](#4-bounds-symmetry-and-fairness)
5. [Proofs](#5-proofs)
6. [Where code and comments disagree](#6-where-code-and-comments-disagree)
7. [Not modelled](#7-not-modelled)
8. [Plan](#8-plan)

## 1. The system

### 1.1 Planners (`EGPlanner/`)

An `EGPlanner` searches for hand states of low energy. It runs either in the main thread, from a Coin idle sensor, or in a
thread of its own (`startThread()`).

| part | state | operations | what makes it correct |
|---|---|---|---|
| life cycle, `egPlanner.cpp` | `mState` under `mControlMutex`; `mCurrentStep`, `mBestList`, `mRepeat`, `mMaxSteps`, `mMaxTime` | `startThread`, `run`, `threadLoop`, `sensorCB`, `resetPlanner`, `startPlanner`, `pausePlanner`, `stopPlanner`, `invalidateReset`, `checkTerminationConditions` | a stop is final and returns; nobody uses a deleted planner; a planner runs on input that was reset; a limit stops it |
| lists, `egPlanner.cpp`, `simAnnPlanner.cpp`, `loopPlanner.cpp` | `mBestList`, `mAvoidList`, `mChildSeeds`, `mCandidateList` | `addToListOfUniqueSolutions`, sort, cut; `resetParameters`, `addToAvoidList` | no two near states, the best one never lost, loops do not repeat each other |
| `OnLinePlanner` and `GraspTester` | five lists a grasp passes through; two under `mListMutex` | `graspLoop`, `mainLoop`, `postCandidate`, `popCandidate`, `testGrasp`, `postSolution`, `popSolution`, `updateSolutionList`, start, pause, reset, delete | every grasp has one owner, order is kept, nothing is stuck, the search never runs without its tester |
| `GuidedPlanner` | queue of seeds, children, `mAvoidList`, `mBestList` | `mainLoop`, `checkChildren`, `startChild`, `stopChild`, pause, stop, reset | children differ, none outlives a pause or stop, each result is kept |
| idle sensor, `egPlanner.cpp` | `mIdleSensor` of Inventor's queue | `startPlanner`, `pausePlanner`, `sensorCB`, `~EGPlanner` | the queue holds a sensor exactly for planners that run |
| `ListPlanner`, `ui/EGPlanner/compliantPlannerDlg.cpp` | input list, iterator, ranked results | `setInput`, `mainLoop`, `showResult`, and the dialog's buttons | each input is tried once, each result names its input, in order of energy |
| `ui/EGPlanner/egPlannerDlg.cpp` | boxes for energy, space and steps; buttons | a slot per box and button, `updateStatus` | a button is enabled only when its slot can act; what runs is what the boxes show |
| `SimAnn`, `SearchState`, energies | temperatures, variables | `iterate`, `stateNeighbour`, `analyzeState` | numerical |

*Interaction.* The user interface owns a planner and calls it from the main thread. `OnLinePlanner` owns a `GraspTester` in
another thread, `GuidedPlanner` owns several `SimAnnPlanner`s, each in a thread. Signals (`update()`, `complete()`) are direct
calls of slots: `egPlannerDlg.cpp` displays, `DBase/dbase_grasp.cpp` writes the solutions to a file and empties the list.
*Hard:* every decision on `getState()` may be stale when `setState()` follows; `stopPlanner()` and `startThread()` spin; lists
change hands between threads; slots run in the middle of the planner's methods; pausing, stopping, resetting and deleting land
anywhere in this. Without threads it is the order of clicks and turns of the sensor that nobody wrote down: planners pause themselves, and the
dialog keeps copies of what the planner has copies of.

### 1.2 World, bodies, contacts, grasps

| part | state | operations | what makes it correct |
|---|---|---|---|
| `world.cpp` | `bodyVec`, `GBVec`, `robotVec`, `handVec`, current hand | import, add, remove, destroy, clone, `makeBodyDynamic`, toggling of collisions, `findContacts`, `findAllContacts`, `updateGrasps` | a grasp's object is in the world; bodies that do not collide do not touch |
| `body.cpp`, `contact/contact.cpp` | `contactList`, `prevContactList`, `numContacts`; mates | `addContact`, `breakContacts`, `resetContactList`, `removeContact`, `inheritContact`, `~Contact` | mates point at each other; no list holds a deleted contact; counts are exact |
| `grasp.cpp` | `object`, `contactVec`, wrench spaces, qualities | `setObject`, `update`, `collectContacts` | what it collected has not been deleted |
| `Collision/` | active and disabled pairs | `activatePair`, `activateBody`, `getActivePairs`, clones | numerical apart from the pairs |

*Interaction.* Contacts are deleted from destructors of other contacts, in lists of bodies nobody mentioned in the call.
Planners pose hands thousands of times a second and ask `findAllContacts()` each time; the database dialogs take bodies out
of the world and put them back. A flag per hand is all that tells a grasp to collect its contacts again.

### 1.3 Hands (`robot.cpp`, `dof.cpp`, `joint.cpp`)

| part | state | operations | what makes it correct |
|---|---|---|---|
| `DOF` | value, engaged joints, breakaway values | `accumulateMove`, `updateVal`, `getJointValues`, `reset`, read and write | joints of a rigid DOF stay together; a DOF knows where its joints are |
| `Robot`, `Hand` | DOFs, chains, saved posture | `moveDOFToContacts`, `jumpDOFToContact`, `approachToContact`, `findInitialContact`, `interpolateJoints`, `stopJointsFromLink`, `autoGrasp`, `quickOpen`, `forceDOFVals`, `saveState`, `restoreState` | a move ends out of collision, ends by itself, and goes as far as it can; a restore restores |

*Hard:* each step is undone half way when it collides; contact stops some joints, which changes where the others take the
links; long sequences of closing, opening, posing and restoring leave a DOF in states no single call produces.

### 1.4 The planner for primitives and quality measures (`Planner/`, `ui/Planner/plannerdlg.cpp`, `ui/qmDlg.cpp`)

| part | state | operations | what makes it correct |
|---|---|---|---|
| `grasp_manager` | `graspList`, flags that say what is in it | `generateGrasps`, `readCandidateGraspsFile`, `testGrasps`, `showGrasps` | its list holds no deleted grasp |
| `grasp_tester` | its idle sensor, `it_gr`, `whichQM`, the hand's position | `callTestIt`, `testIt` per call of the sensor | good grasps are kept and ranked, the hand is put back, every test ends |
| `grasp_presenter` | a list of its own, the number shown | `takeList`, `showGrasp` | shows the list that was tested (the code does not see to it, section 6) |
| `Grasp`, `qmDlg` | `qmList`, projections, `gwsList` with reference counts | `addQM`, `replaceQM`, `removeQM`, `addGWS`, `removeGWS`, `addProjection`, `~GWSprojection` | a wrench space lives as long as its users; the measure a test was started with exists (the code does not see to it, section 6) |

*Interaction.* The dialog passes the number of a measure and a list of pointers; the test deletes grasps from that list behind the presenter's back,
and the dialog of measures renumbers measures behind the tester's.

### 1.5 The rest

Contents of wrench spaces (`gws.cpp`, `gwsprojection.cpp`, `quality.cpp`), the TCP server (`graspitServer.cpp`), the task dispatcher
and database tasks (`DBase/`), dynamics engines (`dynamics/`), eigengrasps, robots of a kind (`robots/`), optimisers and matrices,
start up and plugins, and the vendored qhull, tinyxml and ply. Section 7 says why each is left out.

## 2. The modules

```
PlannerLife <--- implements --- EGPlannerThread <--- EGPlannerThreadProofs
     ^
     +---------- implements --- ListPlanner <--- MCListPlanner
                                   |    ^------- ListPlannerProofs
SensorPlanner <--------------------+
     ^
     +--- EigenGraspPlannerDlg <--- MCEigenGraspPlannerDlg
                   ^--------------- EigenGraspPlannerDlgProofs (with LoopPlanner)

Subsequences <--- SolutionLists <--- LoopPlanner <--- MCLoopPlanner
     ^                 ^
     |                 +--- GuidedPlanner <--- DBaseBatchPlanner <--- MCDBaseBatchPlanner
     |                 |                             ^--------------- DBaseBatchPlannerProofs
     |                 +--- SolutionListsProofs, used by the proofs about planners with lists
     +--- GraspFlow <--- implements --- OnLinePlanner <--- OnLinePlannerProofs

Contacts <--- World <--- MCWorld
                ^------- WorldProofs
GraspQuality <--- GraspManager <--- MCGraspManager
                       ^----------- GraspAndHandProofs
        DOF <---- HandMotion <-----------+
                       ^----------- MCHandMotion
```

**PlannerLife** is what a planner promises of `mState`: the states, the rule by which `setState()` refuses to leave `DONE` and
`EXITED`, and the life cycle that follows. A thread that is being started comes up, a planner that is stopped exits.

**EGPlannerThread** is a planner in a thread of its own. `pc` says where the owner and the worker are between two locked
calls: each `getState()` and each `setState()` is one action, so that what one thread has tested may have changed when it acts.
`startThread()`, `resetPlanner()` (clearing, then `READY`), `startPlanner()`, `setModelState()` or `setInput()` with `invalidateReset()`, `pausePlanner()` and
`stopPlanner()` are split in this way; the last two are shared by the threads, since `checkTerminationConditions()` runs them on
the worker. The planner's `mainLoop()` is one step that counts and may find a solution; the count is a read and a write between
which the owner's reset may fall. `best` holds, of every solution, the reset of the search it is from. The history variable `input` says whether the input was
prepared by a reset since it last changed (`ChangeInput`, `InvalidateTest`, `InvalidateSet`), and tells the one late `setState(READY)` of `pausePlanner()` that passes over the change.

**Subsequences** says what erasing elements and sorting make of a list, by positions: `Subsequence` and `Rearrangements`. **SolutionLists** holds the rule of `addToListOfUniqueSolutions()`: the scan deletes near states that are worse until it meets
one that is better, and the new state goes to the back when there is none. `compareStates()` uses `<=`, so equal states may be
sorted in any order: `Sortings`. **LoopPlanner** is `SimAnnPlanner` and `LoopPlanner` on top of it: any legal state may be
proposed, a loop's good ones go to `mAvoidList`, and the energy calculator keeps the search from them.

**SensorPlanner** has the same functions of `EGPlanner` as they act on a planner of the graphics thread: `startPlanner()` makes an idle sensor,
`pausePlanner()` deletes it, `sensorCB()` calls `mainLoop()`, which may lead to a pause, and then schedules what may be gone.
A planner is the record of the members these functions touch, so that the modules of its users apply them to their own.
**ListPlanner** is the planner of that name in its dialog, with every button and slot that changes either: lists are generated, tested, paused, restarted, their
results shown, one grasp tested, the dialog closed, between any two turns of the sensor. `tried` records the energy each input had when it was
evaluated, which no variable of the program does. **EigenGraspPlannerDlg** has what is kept twice: the boxes of the dialog, and the copies
the planner made of the energy and the number of steps at its last reset and of the search space when it was created. Buttons are what
`updateStatus()` enabled last. The history variable `touched` remembers that the box of the energy was changed while a planner ran, until the next reset.

**GraspFlow** is what a user of grasps may rely on: a grasp is made once, is in one place until it is deleted, and those handed over come back in
order. **OnLinePlanner** implements it: it has the main thread and the tester's thread, and the five lists a grasp passes through. A grasp is a number,
given in order of creation; `born` is the search it comes from. An access to a list under `mListMutex` is one action. The test
of a grasp takes any time and has any outcome. Which of the near candidates are replaced is left open here: any outcome of
the rule in SolutionLists will do.

**GuidedPlanner** anneals in the main thread and has children. `main` and `call` say where it is in `pausePlanner()`,
`stopPlanner()` or `mainLoop()`; `signal` is a signal whose slots are being called, and the main thread goes on when they are
through. A child is its seed, the best solution it holds and its phase; EGPlannerThread is the detailed account of
the stop it is subjected to. `checkChildren()` collects and deletes stopped children and fires new ones, in one action, since the
children take no part in it. **DBaseBatchPlanner** adds the users: a dialog that only displays, or the batch planner, whose
slots write `mBestList` to a file and clear it, and whose timer deletes the planner. At the time limit `complete()` is emitted twice, the first time before the last children are collected: the history
variable `lost` holds what is then cleared from the list after the file was closed.

**Contacts** has the contact lists of all bodies as one record, so that the deletions a destructor sets off in other bodies'
lists are one expression: `BreakContacts`, `ResetContactList`, `RemoveContacts`, `AddContacts` with the inheritance from previous contacts.
`copy` tells contacts of the same two bodies apart that exist at the same time. **World** has the operations of users, dialogs and
planners. Geometry is left out: a search for contacts finds any of the pairs it looks at. A body that is not in the world
is memory that the next one may be allocated in, which is why `disabled` may hold pairs of a body that has been deleted before.
Of the contacts a search finds, any of those on two bodies with a previous contact may lie near it and inherit from it (`Nears`). A hand is a base with chains of links; `addRobot()` switches collisions off within a chain and between
the base and the first link of each (`WithinChains`), and leaves fingers to collide with each other and the palm.
`SpecKept` adds what the database dialogs do: take a body out without deleting it, put it back, delete it later.

**GraspQuality** has the functions of a `Grasp` on its measures, its projections and the wrench spaces both share. **GraspManager** applies them
from the dialog of measures and the menu, next to the planner for primitives: how a list is generated or read (or is not, when there is no graspable body: then the old list stays and Test is enabled all the same), `callTestIt()`, one call of `testIt()`
(a grasp that cannot be set up, one that fails, one that has a quality), the end of a test with its sort and its cut, the presenter and its buttons, and the end of the dialog. A
grasp is the number of its creation, `alive` says which have not been deleted, and a pointer to another dangles; of a deleted grasp nothing is kept (`Erased`). The user may press every button that is enabled *at any time, also during a test*: a list that is generated then leaves the tester's iterator
at its place, at the new end or dangling, and a dialog that is closed leaves the idle sensor of its tester behind. Where the program follows a pointer that is `NULL` or dangles it has no defined behaviour: `undefined` becomes true and the behaviour ends
(`ShowDeleted`, `TestAstray`). `visible` says of a grasp that it has its representation, which a test that does not save the grasp deletes and the next test colours.

**DOF** has the three kinds of DOF and what each remembers. Joint values are in units of their DOF.
**HandMotion** moves a hand: `Step` is one turn of the loop of `moveDOFToContacts()` with all it calls (which joints contacts
stop, the move, the report of collisions, the interpolation back, new contacts, the update of the DOFs), and `NoMovement`,
`InterpolationFails` are the other ways out of that loop. Geometry is a number: a link reaches so far, depending on the joints before it, and
obstacles stand in front of it and behind it. The way of a step is looked at in whole points; the bisection of
`interpolateJoints()` may end at any point where the collisions of the report are gone and one is in contact (`Resolved`). The loop of
`jumpDOFToContact()` that looks for collisions, goes back and looks again is a graph of such points: `Passed` are the points it may come by,
`Ends` those where it may end, and `NoWayBack` says that an interpolation may fail on the way. `StopPrevented` is a round of
`getJointValuesFromDOF()`, of which no more than one per joint change anything. In between moves, the hand
approaches an obstacle (`JumpTo` and `MoveTo` of a world element, `ApproachToContact`, and `FindInitialContact`, which starts in collision), takes the place and posture of a search
state (`Execute`), opens (`quickOpen`), and is saved, tried and restored as search energies do (`AnalyzeState`). An obstacle reaches back without end, so a retreat that would pass
through one does not happen here.

The MC modules give finite geometry: solutions on a line with an energy, six bodies and two hands without fingers, a hand with a spread
DOF, a finger of two joints with breakaway and a compliant thumb, grasps with two types of energy that rank them differently.

## 3. The runs

### Runs that pass

| run | states | properties | what it shows |
|---|---|---|---|
| ThreadSteps | 43,871 | `TypeOK`, `StopMeansExited`, `RunsOnPreparedInput`, `OneStaleSearch`, `LifeCycle`, `StopReturns`, `LimitStops` | every interleaving of an owner and the worker, for a planner that repeats at its step limit and one that pauses. `LifeCycle` is PlannerLife's `Spec`, with its fairness |
| LoopLists | 97,824 | `LoopTypeOK`, `Unique`, `BestIsKept`, `AvoidListServes` | whatever is proposed, the list is unique and keeps the best, and what a LoopPlanner hands out is good and differs across loops |
| Pipeline | 160,275 | `TypeOK`, `OneStaleAtMost`, `SearchHasTester`, `ImplementsFlow`, `QueueMoves`, `DeleteReturns` | the two threads implement GraspFlow, nothing is stuck, and a reset leaves at most the grasp being tested |
| Guided | 631,711 | `NoOrphans`, `ChildrenDiffer`, `ResultsKept`, `CallReturns` | children come and go while the planner is paused, stopped, reset or deleted; every solution is in the list, in the file or, at the second `complete()` of a batch, lost |
| World | 197,771 | `NoDangling`, `ContactsPaired`, `GraspsFollow`, `DisabledNeverTouch` | contacts and grasps stay consistent under every order of the operations |
| HandMotion | 78,041 | `HandConsistent`, `StaysFree`, `RestoreRestores`, `Exhausted` | on this hand, moves of the DOFs and of the whole hand start from any posture the operations lead to, also one in collision |
| ListTests | 134,792 | `SensorMatches`, `ResultsMatch`, `LifeCycle`, `TestEnds` | a planner of the graphics thread under every order of clicks and turns of the sensor; also an implementation of PlannerLife |
| Dialog | 12,834 | `ButtonsMatch`, `RunsAsShown` | buttons follow the planner's state, also when it changes by itself, and no planner runs on an energy other than the one shown, unless the box was changed while one ran |
| Manager | 1,120,292 | `NothingDangles`, `AfterTest`, `TestEnds` | lists are generated, read, tested, tested again and shown while measures and projections come and go and the dialog closes, all of it also during a test |

Some properties are conjunctions of parts that the modules name and comment one by one: `ContactsPaired` of `Mated` and `Counted`, `GraspsFollow` of
`GraspCurrent` and `GraspHasObject`, `HandConsistent` of `RigidTogether`, `SomeJointEngaged` and `FailsafeUnused`, `ResultsKept` of `SolutionsAvoided` and the
order in the file, `AvoidListServes` of `LoopsDiffer` and `SavedAreGood`, `NothingDangles` of `RefsCounted` and living grasps. Where no `TypeOK` is listed it is one of these parts.

Notes on properties that need one:

* `TypeOK` also holds the limits of buffers where there are any: `mCandidateList` of the tester takes one grasp more than
  `mMaxCandidates`, since `postCandidate()` tests with `>`; a GuidedPlanner never has more than `mMaxChildren` children.
* `Unique` holds although the comment of `addToListOfUniqueSolutions()` warns that it is not guaranteed: it does for a distance that is symmetric,
  which `LoopConstants` assumes.
* `OneStaleAtMost` is what is left of a promise of a comment (`include/EGPlanner/graspTesterThread.h:83`): a grasp under test when the tester is reset
  is posted into the list that has just been cleared (`EGPlanner/graspTesterThread.cpp:60`).
* `ImplementsFlow` covers ownership and order at once: the places are mapped to `open`, `pipe` and `kept`, and no step of GraspFlow deletes from the middle
  of the pipe, overtakes, or brings back what was deleted.
* `Counted` leaves out bodies that `makeBodyDynamic()` made until their contacts are broken or reset for the first time, because the constructor it uses
  leaves `numContacts` uninitialised (`body.cpp:135`). `DisabledNeverTouch` leaves out such bodies, because
  `makeBodyDynamic()` looks for contacts with every body.
* `GraspCurrent` says "with some object": `setObjectNoUpdate()` changes the object without collecting.
* `Exhausted` states per kind of DOF how far a move that ends for want of movement has gone, and that `findInitialContact()` ends out of collision, at a contact in front or after the whole way.
* `RestoreRestores` leaves out compliant DOFs, whose comment says that they do not store enough, and disengaged joints of
  breakaway DOFs that are no longer where they were disengaged (`Strays`, section 6).
* `RunsOnPreparedInput` leaves out one call: a worker that pauses its planner at the step limit may have read `RUNNING` before the owner paused the planner and gave it new input; its `READY` then passes over `invalidateReset()`
  (`late`, section 6). A planner that repeats never pauses itself and always runs on input that was prepared.
* `OneStaleSearch`: a reset that falls into a step of the worker leaves a solution of the old search in `mBestList`, but never of two old searches.
* `ResultsKept` says where each solution is, the `lost` ones included, and bounds those: only the second `complete()` of a batch loses any, and at most a pair for each child there can be.
* `RunsAsShown` leaves out a box that was `touched` while a planner ran: that planner goes on, and can be paused and started again, with the energy of its last reset.
* `NothingDangles` is about the list of the manager and the counts of wrench spaces. The copy of the list that the presenter keeps, the iterator of a test and the number of its measure are not covered, for they do go astray (section 6).
* `TestEnds` has two ends: the end of the list, or a pointer that must not be followed. Its mutant is a Test button that starts the running test anew.
* `StaysFree` is of the hand of the run; `MovesStayFree` (section 5) says for which other hands it holds, section 6 for which it does not.
* `AfterTest` asks a saved position only of grasps whose quality does not exceed 1, see section 6.

### Runs that end in a violation

Each checks one sentence of a comment against the code; section 6 tells what happens.
ThreadTimeLimit (`DoneStopsThread`), ThreadNoJoin (`NoUseAfterDelete`), WorldKept (`NoDangling`).

## 4. Bounds, symmetry and fairness

| run | bounds | why they are enough |
|---|---|---|
| ThreadSteps | `MaxSteps` 2, `Resets` 3, `StepCap` 3, one start | a second reset lets a solution and a step count of the first search survive, a third one would tell whether those of two searches can; the count passes the limit by one |
| LoopLists | 7 positions, 3 energies, `BestListSize` 3, `MaxGiven` 1 | a list of three states with room between them for near ones on both sides, ties, a cut; any number of loops |
| Pipeline | candidates 2, solutions 1, `MaxCandidates` 1, `MaxGrasps` 5, `MaxResets` 2 | every list full at the same time, a grasp in each place and one to spare |
| Guided | 5 positions, 2 energies, 2 children, 2 seeds, `MaxJumps` 3 | children all busy while seeds wait; children's results near, equal to and far from seeds |
| World | 2 objects, 2 obstacles, 2 hands without fingers, 2 copies, `MaxBodies` 3, `MaxFound` 1, `MaxContacts` 4, `MaxToggles` 1 | a current and a previous pair of mates; an object to fall back on; a hand and its clone. With a gripper (a palm and two fingers of one link) besides, 593,601 states have been checked with the same result, too many for every day; the theorems are about hands of any structure |
| HandMotion | values 0..3, steps of 2 (which do not divide the range), three places of obstacles, three places of the hand, approaches of 2 in steps of 1 and at once | contacts at once, after one step, and of proximal and distal links, in closing and in opening; `MaxIter` 20 is the least that `FailsafeIsFar` allows for 3 DOFs, values up to 3 and 5 joints |
| ListTests | lists of at most 3 of 4 grasps, 2 types of energy, `BestListSize` 2, `Ceiling` 3 | an illegal grasp, one that is too bad, a list longer than the results kept, two rankings of the same grasps |
| Dialog | 2 kinds, 2 energies, 3 spaces, 3 settings of the steps | a planner that pauses at its limit and one that repeats; spaces that differ in the number of variables |
| Manager | 2 grasps, `MaxMeasures` 1, `MaxViews` 1, one wrench space, qualities bad, good and above 1.0 | a measure and a projection share the wrench space, and either may be its last user (the counts of two wrench spaces have nothing to do with each other); a grasp to delete and one to keep, ties, a list tested and replaced |

World's symmetry exchanges the two objects, the two obstacles, and the two hands along with their links; only safety is
checked under it. The constants of a bound are named in the module that declares them.

`CHECK_DEADLOCK FALSE` stands where a system stops for good: a deleted planner, a dialog that is closed, a program that has aborted or has no defined behaviour any more (`undefined`). LoopPlanner, World and HandMotion
are checked for deadlock, and as a move in HandMotion is the only thing that can happen until it ends, the absence of deadlock together with `FailsafeUnused`
says that moves end.

*Fairness.* EGPlannerThread: `WF` of `OwnerStep` (the rest of a call the owner has made) and of `WorkerStep`: the operating
system schedules both threads, also while one spins; the owner is free to make no further call. OnLinePlanner: `WF` of `MainStep` (the idle
sensor is scheduled again after each call; the rest of a call) and of `Tester`. ListPlanner and GraspManager: `WF` of the call of the idle sensor (`TestIt`, in GraspManager), for Inventor empties
its queue whenever the program is idle; a user who pauses and restarts for ever is free to. DBaseBatchPlanner: `WF` of `MainStep`, the rest of a
call and its slots; neither the search nor a child owes progress. PlannerLife: a thread comes up, a stopped planner exits. World,
HandMotion and EigenGraspPlannerDlg have no fairness and no liveness property.

## 5. Proofs

Every invariant and every action property that a passing run checks is a theorem. Nothing is assumed but the named assumptions on constants
and, where the table says so, how the owner of a thread uses it (`Usage`) or a condition on the hand.

| module | theorem | assumes | says |
|---|---|---|---|
| EGPlannerThreadProofs | `TypeCorrect` | - | `TypeOK`, also with a time limit and several calls of `startThread()` |
| | `StopIsFinal` | `Usage` | `StopMeansExited` |
| | `AlwaysRunsPrepared` | `Usage` | `RunsOnPreparedInput` |
| | `AlwaysOneStaleSearch` | - | `OneStaleSearch` |
| | `ImplementsLifeCycle` | `Usage` | `LifeCycleSafety`: the initial state and every step of the threads are an initial state and a step, or a stutter, of PlannerLife |
| ListPlannerProofs | `SensorAlwaysMatches` | - | `SensorMatches`, for lists of every length |
| | `KeepsLifeCycle` | - | the initial state and every step of dialog and sensor are one of PlannerLife, or a stutter |
| | `ResultsAlwaysMatch` | - | `ResultsMatch` |
| EigenGraspPlannerDlgProofs | `ButtonsAlwaysMatch` | - | `ButtonsMatch`, of the dialog |
| | `AlwaysRunsAsShown` | - | `RunsAsShown`, of a user who clicks whatever is enabled |
| | `ListKeepsItsSize`, `AlwaysUnique`, `BestIsAlwaysKept`, `AvoidListAlwaysServes` | symmetric distances | `LoopTypeOK`, `Unique`, `BestIsKept`, `AvoidListServes`, of LoopPlanner |
| DBaseBatchPlannerProofs | `NeverLeavesOrphans`, `ChildrenAlwaysDiffer`, `ResultsAlwaysKept` | symmetric distance | `NoOrphans`, `ChildrenDiffer`, `ResultsKept` |
| OnLinePlannerProofs | `NeverSearchesAlone` | - | `SearchHasTester`, for buffers of every size |
| | `BuffersAlwaysHold` | - | `TypeOK`, with the limits of all buffers |
| | `OneStaleForever` | - | `OneStaleAtMost` |
| | `KeepsFlow` | - | `ImplementsFlow`: the two planners implement GraspFlow |
| WorldProofs | `NothingEverDangles` | finite bodies, copies | `NoDangling` |
| | `AlwaysPaired` | finite bodies, copies | `Mated` and `Counted`, the parts of `ContactsPaired` other than its types |
| | `ContactsAlwaysPaired`, `GraspsAlwaysFollow`, `DisabledNeverTouches` | finite bodies, copies | `ContactsPaired`, `GraspsFollow`, `DisabledNeverTouch` |
| GraspAndHandProofs | `AlwaysCounted` | - | `RefsCounted`, the part of `NothingDangles` about wrench spaces |
| | `NothingEverDangles` | - | `NothingDangles`, whatever the user does during a test; nothing of the presenter's copy of the list |
| | `TestsEndInOrder` | - | `AfterTest`, an action property |
| | `HandPostures` | - | `HandTypeOK`, `RigidTogether`, `SomeJointEngaged`, for every hand and every geometry |
| | `HandConsistency` | `FailsafeIsFar` | `HandConsistent`: these and `FailsafeUnused` |
| | `RestoreReturns` | - | `RestoreRestores`, an action property |
| | `MovesStayFree` | `OneJointEach`, `NothingBeyond` | `StaysFree`, an action property |
| | `MovesExhaust` | `OneJointEach`, `OneInAChain` | `Exhausted`, an action property |
| | `ApproachFinds` | - | the part of `Exhausted` about `findInitialContact()` |

SolutionListsProofs has no theorem of its own: it holds the lemmas about lists.

**Threads.** `Usage` is `~TimeLimit /\ ThreadStarts <= 1`: nobody sets a time limit on a planner in a thread, and everyone starts a thread
once. ThreadTimeLimit shows that the first is needed. `Joins`, whether the owner waits for the thread to return before it deletes the planner, as `~OnLinePlanner()` does, plays no part in the theorems;
where it is false, as in a `GuidedPlanner`, ThreadNoJoin finds the use after the delete. Few of the properties are inductive. The invariant is

    IInv == TypeOK /\ ResetLeft /\ OwnerSafe /\ WorkerSafe /\ InputSafe

`OwnerSafe` says that where the owner is between a test and the `setState()` that follows, the state is still one the test let
through, whatever the worker has done since; this carries the life cycle, because the worker's late `READY` after a pause can only
fall on states from which it is harmless. `WorkerSafe` ties `mState` to the worker's position: `EXITED` exactly when it has left its
loop, `STARTING_THREAD` exactly when it has not signalled, `DONE` only while the owner waits in `stopPlanner()`, and
the worker never in `stopPlanner()` itself. `InputSafe` says what is known of the input where the planner is `READY` or `RUNNING` and where a call is about to move it there: `READY` on changed input only while `invalidateReset()` is
still under way, and a late `READY` only from the worker's own pause, in a planner that does not repeat. `SearchSafe`, for `OneStaleSearch`, is inductive by itself: a worker whose step began before the last reset finds the list as that reset left it,
and adds to it once. `ResetLeft` keeps the bound on resets. `RangesStep`, `SafeStep`, `InputStep` and `SearchStep` show preservation, one step per action, and the
theorem `Invariant` puts them together.

**Lists of solutions.** What `addToListOfUniqueSolutions()`, a sort and a cut make of a list is defined by positions, without recursion, so that
it can be reasoned about for lists of every length: `Nth` is the k-th position that stays, and a sort is a bijection of the positions. The lemmas of
SolutionListsProofs end in what a list becomes that a state is offered to: no two of its states are near each other (`OffersApart`), and the least energy
ever jumped to is that of its front (`OffersTops`). The second *needs the order
of the whole list*: the scan deletes near states before it meets one that turns the new state down, and only in a sorted list the
deleted ones are never the best.

**Idle sensor.** `IInv == Steady /\ SensorMatches`: the planner is one that never repeats and is `INIT`, `READY` or `RUNNING`. `SensorStep` is the
heart of it, a call of the sensor: it may pause its own planner in the middle, once at the step limit and once at the end of the list, before `sensorCB()` looks whether to
schedule the sensor again. `RInv` adds `Counted`, that the planner's step count and the list's iterator are the same number while the dialog is open, and `Ranked`, which is `ResultsMatch`
without its types. The step that adds a result looks at three cases of the cut: the new result survives, it is the one that is cut, or another one is.

**Dialog.** `ButtonsFollow` is inductive only next to `Limited`, and `RunsAsShown` needs `ReadyAsShown`: a planner that *could be started* already computes the energy
of the box, because a change of the box takes `READY` away (`invalidateReset()`), unless the box was touched while a planner ran.

**Guided planner.** The invariant has a part per group of variables, `Modes /\ Seeding /\ Brood /\ Kept`. `Seeding` says that seeds that wait are near no other *and near none that was
sent*, for the ones sent are in `mAvoidList`. `Kept` says that `mBestList` is a list of pairs. The part about the file, `FileInStep`,
follows the call and the signal: between the first `complete()` and the collection of the children the file is closed already, and what these still hand over is what the second `complete()` loses. That `lost` is no longer than twice `mMaxChildren` follows from the number of children
and from the list being empty when they are collected.

**On-line planner.** `InStep` adds to `SearchHasTester` that a search which may be started has a tester that may be, that the tester stays `READY` in
the middle of a reset, and that it dies only with the search. `GraspInv` adds what the lists hold. `OneStaleAtMost` is not inductive, since it speaks of the planner at rest: between the two
halves of a reset, what the tester still holds or has just handed back is one grasp (`Cleared`), and a grasp that is older than the last reset is the only one at any time (`OneOf(Old)`).
`KeepsFlow` takes the actions one by one: most of them move a grasp from one part of `pipe` to the next and are stutters of GraspFlow, the others are `Find`, `HandOver`, `Collect` and `Lose`.

**World.** `Lists(contacts) /\ Within(contacts, bodyVec)`: a contact is in a list exactly when it exists, current contacts have their mates among the
current, previous ones theirs among the previous or none, every body's count is the length of its list, and *no contact is on a body outside the world*. The last part is what the proof turns on: it
is the reason why resetting the bodies of the world reaches both sides of every pair, and it is what `SpecKept` breaks. The lemmas go through the operators
of Contacts one by one (break, reset, remove, add with inheritance), then through the operations of World. `WInv` adds the lists of the world, which have no element
twice (so that erasing the first is erasing it), and what grasps refer to. `GraspsFollow` rests on lemmas `Told...`, one per operator: *a hand whose contacts changed has its flag set*, also
when the change came from the destructor of a contact on another body. For `DisabledNeverTouch` it is enough that every search looks at pairs that are on, and that switching collisions off breaks contacts; the pairs that `addRobot()` switches off are of links of the new hand (`PairsOfLinks`), which is not in the world and has no contact yet (`TouchAddRobot`), whatever its structure.

**Planner for primitives.** `ManagerInv == Bounded(grasp) /\ Settings /\ Pointers /\ AreSaved`. `Tallied`, in `Bounded`, strengthens
`RefsCounted` with the types its sums need; its lemmas count the positions of a list at which a wrench space stands, when one is added, exchanged or removed. `Pointers` says what pointers refer to: the manager's list to grasps that are alive, the presenter's copy to grasps there were,
and the iterator of a test is in the list, at its end, or dangles, *whichever list was put under it*. `TestsEndInOrder` needs `AreSaved` besides, that a grasp of good quality has its position on record *whichever test* gave it the quality.

**Hand.** `IHand == Ranges /\ Posture(robot) /\ MInv` carries `HandPostures` and `RestoreReturns`. `Posture` says of each kind of DOF where its joints are: a rigid joint is where its DOF is
(`Together`), a joint with breakaway is never ahead of its DOF nor of the value at which it was disengaged (`Behind`), and the joint at the end of a DOF with breakaway is engaged (`LastFollows`).
A step may be undone up to any point of its way, so the lemmas on `Between` say that rounding keeps the order of two joints on their way to the same value.
`MInv` says of a running move that its DOFs still go towards the values desired, and (`LastStops`) that contact never holds the last joint of a DOF with breakaway alone: `stopJointsFromLink()` stops all joints up to it. What
the rounds of `getJointValuesFromDOF()` stop is a function on `0..Cardinality(Joint)`; `StoppedWithin` shows, by the least round that fails, that what one round keeps they all keep.

`HandConsistency` counts. `Ahead` are the pairs of a DOF and a value it has before it, `Room` are the stops that are not set yet. A turn that does not end the move either takes one from `Ahead` or one from `Room` and gives none back
(`StepSpends`), so `InBudget` holds the turns under the number of both, and `FailsafeIsFar` puts `MaxIter` above it. This is the worst case over all hands and obstacles; the 500 of `robot.cpp:1654` are
a choice of its authors, and a step so small that a DOF needs more turns would run into it. What matters is that a turn that neither gets anywhere nor stops a joint cannot occur, because every contact that is found has a joint in its chain that was moving (`LateMoves`).

`MovesStayFree` and `MovesExhaust` turn on the joints that are stopped. `jumpDOFToContact()` does not look at a link whose last joint is stopped; this is safe if the link's *whole chain* stands still for the rest of the move. `Stuck` says what keeps
a joint from going anywhere, by the kind of its DOF, `Chained` that all joints up to a stopped one are stuck, and `Pinned` besides that the contact that stopped it is still there, on a link whose chain is stuck. The first fails if a joint beyond a breakaway joint moves together with
it: the breakaway joint is stopped and comes back when its DOF opens, while the one that is carried is marked as stopped. So `Sure` adds `GoesInTurn`, and `Solo` adds `GoesAlone`. They are kept because a move goes in one direction per DOF.

`ApproachFinds` needs neither: the whole hand is displaced, and one unit is less than the threshold of contacts, so that a hand that goes ahead from a free place comes by a place where it just touches what it is about to collide with (`JustTouching`).

*Which hands.* `OneJointEach` leaves out a compliant DOF of several joints, as those of `models/robots/harvardHand`; section 6 says what happens to `StaysFree` there. `NothingBeyond` and `OneInAChain` speak of the velocities with which `autoGrasp()` moves DOFs together:
a spread that does not move when the fingers close satisfies both (`BarrettBH8_280`). Where the spread has a velocity (`Barrett`), it comes before the fingers in their chains: `NothingBeyond` is true and `OneInAChain` is not. The hand of the run satisfies all four conditions (`HandOfTheorems`).

*Assumptions on constants.* `Object # {}` in `WorldAssumption`: `GraspCurrent` names an object, and memory for one exists. `Good \cap High = {}` in `ManagerConstants`: the code tells the two apart by a comparison with 1.0 (`Planner/grasp_tester.cpp:361`). `MaxMeasures \in Nat \ {0}`: a grasp may have its one measure from the start. `Ceiling \in Int` in `LoopConstants`: it is compared with energies. Distances are assumed to be symmetric and
0 from a state to itself, as a distance of `SearchState` is. All assumptions (`ThreadConstants`, `LoopConstants`, `PipelineConstants`, `GuidedConstants`, `LinksAssumption`, `WorldAssumption`, `DofAssumption`,
`MotionAssumption`, `ReachAssumption`, `ChainAssumption`, `ListConstants`, `DlgConstants`, `ManagerConstants`) are evaluated on the runs of their modules. `DofAssumption` says that a robot has finitely many joints and DOFs, that each joint has one DOF and no DOF is without joints. `MotionAssumption` says that chains are nested, that the
hand may be at any place between two at which it may be, that approaches are of an even length (they are halved) and that `Threshold` is at least one unit. `ReachAssumption` says that the pose of a link depends on the joints of its chain. `ChainAssumption` says that the joints of a DOF with breakaway are in the chain of one of them,
as those of the robots in `models/robots` are: otherwise `SomeJointEngaged` is false, where contact holds the joint that tells the value and lets one go on that an undone step has left behind.

*Only model-checked:* liveness and the fair part of the refinements (`LifeCycle`, `StopReturns`, `LimitStops`, `QueueMoves`,
`DeleteReturns`, `CallReturns`, `TestEnds`), which are out of the prover's reach. Of `LifeCycle` the safety part is proved (`ImplementsLifeCycle`, `KeepsLifeCycle`). That a move of the hand ends is safety here: `FailsafeUnused` is proved, and the
absence of deadlock is left to the run.

## 6. Where code and comments disagree

Shown by a run:

* **ThreadTimeLimit** (`EGPlanner/egPlanner.cpp:194`). With a time limit the worker calls `stopPlanner()` on itself and waits for an `EXITED`
  only it could set. `complete()` is never emitted. The comment at line 105: `DONE` "is guaranteed to stop the thread".
* **ThreadNoJoin** (`EGPlanner/guidedPlanner.cpp:294`). A child is deleted when its state is `EXITED`, which it sets from inside
  `setState()` with `threadLoop()` and `run()` still to return.
* **WorldKept** (`contact/contact.cpp:112`). A body that was taken out of the world and kept still has contacts; after the next search
  their mates are in `prevContactList`, where `~Contact()` does not look.

Seen while modelling. The first of these are in the models: a passing run takes the behaviour and its property names it as the exception, so that what is left of the promise is exact.

* *A late `READY`* (`EGPlanner/egPlanner.cpp:431`). `pausePlanner()` tests for `RUNNING` under the lock (line 424) and sets `READY` under it again. A worker that pauses its planner at the step limit may set it after the owner has paused the planner
  and given it new input: `invalidateReset()` is undone, and the planner can be started on input no reset has prepared, against "initialization is no longer valid" (`include/EGPlanner/egPlanner.h:205`, `EGPlanner/egPlanner.cpp:142`). In ThreadSteps: `input = "late"`.
* *Solutions that are lost* (`EGPlanner/guidedPlanner.cpp:111`). At its time limit a `GuidedPlanner` emits `complete()` before its last children are collected, and again afterwards. The batch has then closed its file, so that the last solutions miss it,
  and closes it again, against "this prints the remainins solutions" (`DBase/dbase_grasp.cpp:278`). In Guided: `lost`, `file = "misused"`.
* *A box that is touched* (`ui/EGPlanner/egPlannerDlg.cpp`). An energy chosen while a planner runs takes effect only at the next reset, although pausing and starting again looks like one. In Dialog: `touched`.
* *A measure that is gone* (`Planner/grasp_tester.cpp:355`). `testIt()` evaluates `getQM(whichQM)` unchecked. The dialog of measures can delete the measure after the list was generated, also during the test: the pointer is `NULL`. In Manager: `TestAstray`.
* *A grasp without representation* (`Planner/grasp_tester.cpp:307`). A test removes the representation of a grasp whose position it does not save (line 402). One whose first quality is above 1.0, and a good one that is tested again and missed, stay in the list; the next test
  colours them through `NULL`. Two clicks on Test are enough. In Manager: `TestAstray`.
* *A list under the iterator* (`Planner/grasp_manager.cpp:304`). Generate is enabled during a test: the assignment of the list may leave `it_gr` dangling, reading a file deletes the grasps it stands at, and closing the dialog deletes the tester but not its idle sensor
  (`Planner/grasp_tester.cpp:108`). In Manager: `iterator = 0`, `~isOpen`, `TestAstray`.
* *Deleted grasps that are shown* (`Planner/grasp_presenter.cpp:133`). The presenter takes its copy of the list only when `graspsNotShown` is set, which a test does. A list that is shown during its test is cut behind the presenter's back, and a file read after a list was shown deletes the grasps
  of that list: Show follows their pointers. In Manager: `ShowDeleted`.

The last four have no property of their own: the models follow the code to the pointer, and such a behaviour ends there. What was seen besides:

* *Threads.* A reset that falls in the worker's `mainLoop()` leaves a solution of the old search in `mBestList`. A second `startThread()` hangs its caller. A planner in a thread that is stopped by its owner does not emit
  `complete()`. The step limit is passed by one for each restart. A grasp under test outlives the reset of its tester (`EGPlanner/graspTesterThread.cpp:60`, against
  `include/EGPlanner/graspTesterThread.h:83`).
* *Planners.* `SimAnn::setParameters()` does not know three of the types the planners pass. `SimAnn` counts its steps from 30000
  (`EGPlanner/simAnn.cpp:210`), so that children with a limit of 200 steps (`include/EGPlanner/guidedPlanner.h:123`) pause after one. `GuidedPlanner::mBestListSize` is never used;
  its comment speaks of a union of the lists, but queued seeds are not avoided; the comment on `stopPlanner()` says that the solutions of children are
  lost, though they are collected; `resetPlanner()` keeps the seeds and clears the avoid list even when it is refused; `~GuidedPlanner()` stops neither its thread nor its children
  (`EGPlanner/guidedPlanner.cpp:72`). `~LoopPlanner()` and `~OnLinePlanner()` never free some of their lists. A planner of the graphics thread emits `complete()` twice at its step limit.
* *Dialogs.* After the search space was changed under a planner, `updateInputLayout()` reads variables its target lacks (`ui/EGPlanner/egPlannerDlg.cpp:262`;
  `include/EGPlanner/searchState.h:141` asserts that it has them): `aborted` in EigenGraspPlannerDlg. The new space and fixed variables never reach a planner that exists. Unticking a variable while
  a planner runs takes Pause away. CompliantPlannerDlg sets the type of energy before it
  looks whether the planner runs, and connects its batch to `finished()`, which only a thread emits, instead of `complete()` (`ui/EGPlanner/compliantPlannerDlg.cpp:67`).
* *World.* `findContacts(Body)` uses one report for all bodies, so contacts found for one are added for the next that has none (`world.cpp:1709`).
  The object that a clone of a hand is given is overwritten by `addRobot()` (`world.cpp:1080`). `addElementToSceneGraph` indexes `GBVec` with the size of `bodyVec`
  (`world.cpp:1146`). `removeRobot()` leaves the current hand. `destroyElement()` calls `removeBody()` twice. `mDisabledMap` keeps pairs of deleted models
  (`Collision/Graspit/graspitCollision.cpp:253`). `GraspitCollision::newThread()` does nothing, against `include/Collision/collisionInterface.h:177`.
  `rad <= 3.0 && rad >= 10.0` is never true (`contactSetting.cpp:132`).
* *Hands.* A DOF that is forced to the value it has leaves its joints where contact left them (`include/robot.h:644`). A finger that opens takes a disengaged joint along, is stopped half way by
  something behind it, and the joint stays marked as disengaged at its old value (`dof.cpp:625`); after a save and a restore (`robot.cpp:1201`) it is elsewhere. A joint that is behind its DOF may also be engaged again. A joint of a compliant DOF with several may be stopped in closing by a contact in front
  while its DOF comes to open: its link is not in the interest list, whatever direction it was stopped in (`robot.cpp:1493`), and opens into what is behind it, against the comment "this function should always leave the robot in a legal state" (`robot.cpp:1451`). The same happens to a joint carried by one with breakaway that was left behind and moves on.
  Where a spread closes together with fingers (`Barrett`), the contact of a finger stops the spread, and is lost when the finger moves on: the spread stays where it is with nothing in its way. These were found on other hands than that of the run, when the conditions of the theorems were looked for. `moveTo()` returns true, "no collisions were encountered",
  when its first jump fails because the element was in collision before (`worldElement.cpp:188`). `findInitialContact()` goes back as long as anything in the world collides with anything (`robot.cpp:2384`), for ever when two obstacles do.
* *Planner for primitives.* Show after a new Generate presents the previous list. Reading a file makes
  no connection, so that Show is never enabled for its grasps (`ui/Planner/plannerdlg.cpp:156`). `generateGrasps()` leaks the old list, and returns without a word when there is no graspable body, after which the dialog enables Test (`Planner/grasp_manager.cpp:292`). A quality above 1.0 is kept without the final position that
  `include/Planner/grasp_grasps.h` promises next to it; showing such a grasp reads DOF values from an empty list (`Planner/grasp_presenter.cpp:215`). A retest that misses keeps the old quality.
* *Grasps.* `~Grasp()` removes every other quality measure (`grasp.cpp:115`). `replaceQM()` past the end inserts without counting. A new wrench space is empty until the next `update()`.
* *Tasks.* `startNewTask()` has an inverted test (`DBase/taskDispatcher.cpp:127`), so that no task runs; a task that ended would be left in `mCurrentTask` for the assertion of the next start;
  `GraspPlanningTask::plannerComplete()` overwrites `FAILED` with `DONE`, and its `setMaxSteps(0)` meets a planner that repeats; `ListPlanner::resetParameters()` dereferences `begin()` of an empty list.

## 7. Not modelled

* *Numbers.* Energies, distances, annealing schedules, eigengrasps, contents of wrench spaces, projections, collision trees, dynamics, optimisers: floating point
  whose values the properties here do not depend on. Where control depends on them (which state is proposed, which bodies touch, whether a test
  succeeds) the models take any outcome.
* *Within modelled parts.* Virtual contacts as a source of a grasp's contacts (`setObject(NULL)` of the contact examiner switches to them), soft contacts, loading and saving of
  worlds, single bodies whose collisions are off, moves of a robot other than along its direction of approach, tendons, robots attached to
  robots, ratios between joints and DOFs, trajectories. The batch planner's `LoopPlanner` variant, its scans and its file format. The master file and the iteration of the planner for primitives,
  which no dialog sets, and how it samples grasps around primitives.
* *Code that does not run.* No task of the task dispatcher is ever started (`DBase/taskDispatcher.cpp:127`), and the program creates no `GraspItServer` (`main.cpp:94`): a model of either would describe
  what could not be observed.
* *Pure I/O or start up.* Hand drivers and tracker, database managers, parsers, plugins, the scene graph and widgets.
* *Vendored.* qhull, tinyxml, ply. They are more than a third of the lines of the repository and have no state that outlives a call into them.

## 8. Plan

All modules of the plan are there: PlannerLife, EGPlannerThread; SolutionLists, LoopPlanner; OnLinePlanner, GraspFlow; GuidedPlanner, DBaseBatchPlanner; Contacts, World; DOF, HandMotion;
SensorPlanner with ListPlanner and EigenGraspPlannerDlg; GraspQuality, GraspManager. All invariants and action properties of the passing runs are proved.

Parts that are modelled partly and could be taken further: virtual contacts and single bodies without collisions in World.
