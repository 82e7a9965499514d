------------------------- MODULE OnLinePlannerProofs -------------------------
(***************************************************************************)
(* Proofs about OnLinePlanner for every size of its buffers and every      *)
(* number of grasps and resets.                                            *)
(***************************************************************************)
EXTENDS OnLinePlanner, SolutionListsProofs, TLAPS

(* The two planners are in step where it matters: a search that runs or    *)
(* may be started has a tester of which the same holds, the tester is      *)
(* READY while the rest of a reset is under way, and it dies only together *)
(* with the search, which dies only when the planner is deleted.           *)
InStep ==
  /\ search \in {"READY", "RUNNING"} => tester \in {"READY", "RUNNING"}
  /\ main \in {"clearing", "resetting"} => tester = "READY"
  /\ tester \in {"DONE", "EXITED"} => search = "DONE"
  /\ search = "DONE" => main \in {"waiting", "deleted"}

(* What makes NeverSearchesAlone inductive.                                *)
IInv == InStep /\ SearchHasTester

-----------------------------------------------------------------------------

(* Neither planner has been reset.                                         *)
LEMMA InStepInit == Init => IInv
  BY DEF Init, IInv, InStep, SearchHasTester

(* The user's calls.                                                       *)
LEMMA InStepUser ==
  ASSUME IInv, User PROVE IInv'
<1> USE DEF IInv, InStep, SearchHasTester, Idle, Call, lists
<1>1. CASE StartPlanner
  BY <1>1 DEF StartPlanner
<1>2. CASE PausePlanner
  BY <1>2 DEF PausePlanner
<1>3. CASE SetModelState
  BY <1>3 DEF SetModelState
<1>4. CASE ResetPlanner
  BY <1>4 DEF ResetPlanner
<1>5. CASE DeleteStop
  BY <1>5 DEF DeleteStop
<1> QED
  BY <1>1, <1>2, <1>3, <1>4, <1>5 DEF User

(* The main thread between two calls of the user.                          *)
LEMMA InStepMain ==
  ASSUME IInv, MainStep PROVE IInv'
<1> USE DEF IInv, InStep, SearchHasTester, Call, lists
<1>1. CASE Manage
  BY <1>1 DEF Manage
<1>2. CASE PostCandidate
  BY <1>2 DEF PostCandidate
<1>3. CASE PostingDone
  BY <1>3 DEF PostingDone
<1>4. CASE RetrieveSolution
  BY <1>4 DEF RetrieveSolution
<1>5. CASE UpdateSolutionList
  BY <1>5 DEF UpdateSolutionList
<1>6. CASE PauseSearch
  BY <1>6 DEF PauseSearch
<1>7. CASE ClearBuffers
  BY <1>7 DEF ClearBuffers
<1>8. CASE ResetSearch
  BY <1>8 DEF ResetSearch
<1>9. CASE DeleteJoined
  BY <1>9 DEF DeleteJoined
<1> QED
  BY <1>1, <1>2, <1>3, <1>4, <1>5, <1>6, <1>7, <1>8, <1>9 DEF MainStep

(* The search, the tester's thread, and steps of neither.                  *)
LEMMA InStepRest ==
  ASSUME IInv, GraspLoop \/ Tester \/ UNCHANGED vars PROVE IInv'
<1> USE DEF IInv, InStep, SearchHasTester, lists
<1>1. CASE GraspLoop
  BY <1>1 DEF GraspLoop
<1>2. CASE TesterLoop
  BY <1>2 DEF TesterLoop
<1>3. CASE TesterExit
  BY <1>3 DEF TesterExit
<1>4. CASE PopCandidate
  BY <1>4 DEF PopCandidate
<1>5. CASE TestGrasp
  BY <1>5 DEF TestGrasp
<1>6. CASE UNCHANGED vars
  BY <1>6 DEF vars
<1> QED
  BY <1>1, <1>2, <1>3, <1>4, <1>5, <1>6 DEF Tester

-----------------------------------------------------------------------------
(* However start, pause, reset, a change of the model state and the test   *)
(* of grasps interleave, the search never runs without its tester.         *)
THEOREM NeverSearchesAlone == Spec => []SearchHasTester
<1>1. IInv /\ [Next]_vars => IInv'
  BY InStepUser, InStepMain, InStepRest DEF Next
<1>2. IInv => SearchHasTester
  BY DEF IInv
<1> QED
  BY InStepInit, <1>1, <1>2, PTL DEF Spec

-----------------------------------------------------------------------------
(* Lists.                                                                  *)

Distinct(list) == \A i, j \in DOMAIN list : list[i] = list[j] => i = j

(* Erasing leaves some of the list, and nothing twice.                     *)
LEMMA ErasedList ==
  ASSUME NEW S, NEW list \in Seq(S), NEW left \in SUBSET (DOMAIN list)
  PROVE  /\ Subsequence(list, left) \in Seq(S)
         /\ Len(Subsequence(list, left)) <= Len(list)
         /\ ToSet(Subsequence(list, left)) \subseteq ToSet(list)
         /\ Distinct(list) => Distinct(Subsequence(list, left))
<1> DEFINE sub == Subsequence(list, left)
<1>1. /\ sub \in Seq(S) /\ Len(sub) <= Len(list)
      /\ IsOrdered(sub, list)
  BY SubsequenceOrdered
<1> HIDE DEF sub
<1>3. PICK f \in [DOMAIN sub -> DOMAIN list] :
        /\ \A k \in DOMAIN sub : sub[k] = list[f[k]]
        /\ \A k, l \in DOMAIN sub : k < l => f[k] < f[l]
  BY <1>1 DEF IsOrdered, Ordered
<1>4. ToSet(sub) \subseteq ToSet(list)
  BY <1>3 DEF ToSet
<1>5. ASSUME Distinct(list) PROVE Distinct(sub)
  <2> SUFFICES ASSUME NEW i \in DOMAIN sub, NEW j \in DOMAIN sub, sub[i] = sub[j]
               PROVE  i = j
    BY DEF Distinct
  <2>1. f[i] \in DOMAIN list /\ f[j] \in DOMAIN list
        /\ list[f[i]] = list[f[j]]
    BY <1>3
  <2>2. f[i] = f[j]
    BY <1>5, <2>1 DEF Distinct
  <2>3. i \in Int /\ j \in Int /\ f[i] \in Int /\ f[j] \in Int
    BY <1>1, <2>1
  <2>4. ~(f[i] < f[j]) /\ ~(f[j] < f[i])
    BY <2>2, <2>3
  <2>5. ~(i < j) /\ ~(j < i)
    BY <1>3, <2>4
  <2> QED BY <2>3, <2>5
<1> QED BY <1>1, <1>4, <1>5 DEF sub

LEMMA SortedList ==
  ASSUME NEW S, NEW list \in Seq(S), NEW sorted \in Rearrangements(list)
  PROVE  /\ sorted \in Seq(S) /\ Len(sorted) = Len(list)
         /\ ToSet(sorted) = ToSet(list)
  BY SortingTakes DEF InList, ToSet

LEMMA CutList ==
  ASSUME NEW S, NEW list \in Seq(S), NEW size \in Nat
  PROVE  /\ Shortened(list, size) \in Seq(S) /\ Len(Shortened(list, size)) <= size
         /\ ToSet(Shortened(list, size)) \subseteq ToSet(list)
         /\ Distinct(list) => Distinct(Shortened(list, size))
<1> DEFINE cut == Shortened(list, size)
<1>1. cut = CutTo(list, size)
  BY DEF CutTo, Shortened
<1>2. /\ cut \in Seq(S) /\ Len(cut) <= size
      /\ DOMAIN cut \subseteq DOMAIN list
      /\ \A i \in DOMAIN cut : cut[i] = list[i]
  BY <1>1, CutKeeps
<1> HIDE DEF cut
<1>3. ToSet(cut) \subseteq ToSet(list) /\ (Distinct(list) => Distinct(cut))
  BY <1>2 DEF ToSet, Distinct
<1> QED BY <1>2, <1>3 DEF cut

(* A new element among the others.                                         *)
LEMMA InsertedList ==
  ASSUME NEW S, NEW list \in Seq(S), NEW i \in 1..Len(list) + 1, NEW x \in S
  PROVE  /\ InsertAt(list, i, x) \in Seq(S)
         /\ ToSet(InsertAt(list, i, x)) \subseteq ToSet(list) \cup {x}
         /\ Distinct(list) /\ x \notin ToSet(list)
              => Distinct(InsertAt(list, i, x))
<1> DEFINE n == Len(list)
           front == SubSeq(list, 1, i - 1)
           back == SubSeq(list, i, n)
           new == InsertAt(list, i, x)
<1>1. n \in Nat /\ DOMAIN list = 1..n /\ \A k \in 1..n : list[k] \in S
  OBVIOUS
<1>2. /\ front \in Seq(S) /\ Len(front) = i - 1
      /\ \A k \in 1..i - 1 : front[k] = list[k]
  <2>1. \A k \in 1..i - 1 : list[k] \in S
    BY <1>1
  <2>2. 1 \in Int /\ i - 1 \in Nat /\ (i - 1) - 1 + 1 = i - 1
    BY <1>1
  <2>3. \A k \in 1..i - 1 : 1 + k - 1 = k
    BY <2>2
  <2> HIDE DEF n
  <2> QED BY <2>1, <2>2, <2>3, SubSeqProperties
<1>3. /\ back \in Seq(S) /\ Len(back) = n - i + 1
      /\ \A k \in 1..n - i + 1 : back[k] = list[i + k - 1]
  <2>1. \A k \in i..n : list[k] \in S
    BY <1>1
  <2>2. i \in Int /\ n \in Int /\ (~(i <= n) => n - i + 1 = 0)
    BY <1>1
  <2> HIDE DEF n
  <2> QED BY <2>1, <2>2, SubSeqProperties
<1>4. new = front \o <<x>> \o back
  BY DEF InsertAt
<1> HIDE DEF front, back, n, new
<1>5. /\ <<x>> \in Seq(S) /\ Len(<<x>>) = 1 /\ <<x>>[1] = x
  OBVIOUS
<1>6. /\ front \o <<x>> \in Seq(S) /\ Len(front \o <<x>>) = i
      /\ \A k \in 1..i : (front \o <<x>>)[k] = IF k < i THEN list[k] ELSE x
  <2>1. i \in Nat /\ \A k \in 1..i : (k <= i - 1 <=> k < i) /\ (k < i => k \in 1..i - 1)
                                     /\ (~(k < i) => k - (i - 1) = 1)
    BY <1>1
  <2>2. /\ front \o <<x>> \in Seq(S) /\ Len(front \o <<x>>) = (i - 1) + 1
        /\ \A k \in 1..(i - 1) + 1 :
             (front \o <<x>>)[k] = IF k <= i - 1 THEN front[k] ELSE <<x>>[k - (i - 1)]
    BY <1>2, <1>5, ConcatProperties
  <2>3. (i - 1) + 1 = i
    BY <2>1
  <2>4. ASSUME NEW k \in 1..i
        PROVE  (front \o <<x>>)[k] = IF k < i THEN list[k] ELSE x
    <3>1. CASE k < i
      BY <1>2, <2>1, <2>2, <2>3, <3>1
    <3>2. CASE ~(k < i)
      <4>1. (front \o <<x>>)[k] = <<x>>[k - (i - 1)] /\ k - (i - 1) = 1
        BY <2>1, <2>2, <2>3, <3>2
      <4> QED BY <1>5, <3>2, <4>1
    <3> QED BY <3>1, <3>2
  <2> QED BY <2>2, <2>3, <2>4
<1>7. /\ new \in Seq(S) /\ Len(new) = n + 1
      /\ \A k \in 1..n + 1 : new[k] = IF k < i THEN list[k]
                                      ELSE IF k = i THEN x ELSE list[k - 1]
  <2>1. /\ new \in Seq(S) /\ Len(new) = i + (n - i + 1)
        /\ \A k \in 1..i + (n - i + 1) :
             new[k] = IF k <= i THEN (front \o <<x>>)[k] ELSE back[k - i]
    <3> DEFINE head == front \o <<x>>
    <3>1. head \in Seq(S) /\ Len(head) = i
      BY <1>6
    <3>2. new = head \o back
      BY <1>4
    <3> HIDE DEF head
    <3>3. /\ head \o back \in Seq(S) /\ Len(head \o back) = i + (n - i + 1)
          /\ \A k \in 1..i + (n - i + 1) :
               (head \o back)[k] = IF k <= i THEN head[k] ELSE back[k - i]
      <4>1. back \in Seq(S)
        BY <1>3
      <4>2. /\ head \o back \in Seq(S) /\ Len(head \o back) = Len(head) + Len(back)
            /\ \A k \in 1..Len(head) + Len(back) :
                 (head \o back)[k] = IF k <= Len(head) THEN head[k]
                                     ELSE back[k - Len(head)]
        BY <3>1, <4>1, ConcatProperties
      <4> QED BY <1>3, <3>1, <4>2
    <3> QED BY <3>2, <3>3 DEF head
  <2>2. i \in Nat /\ n \in Nat /\ i + (n - i + 1) = n + 1
    BY <1>1
  <2>3. ASSUME NEW k \in 1..n + 1
        PROVE new[k] = IF k < i THEN list[k] ELSE IF k = i THEN x ELSE list[k - 1]
    <3>1. CASE k <= i
      <4>1. k \in 1..i
        BY <2>2, <3>1
      <4> QED BY <1>6, <2>1, <2>2, <3>1, <4>1
    <3>2. CASE ~(k <= i)
      <4>1. k - i \in 1..n - i + 1 /\ i + (k - i) - 1 = k - 1 /\ ~(k < i) /\ k # i
        BY <2>2, <3>2
      <4> QED BY <1>3, <2>1, <2>2, <3>2, <4>1
    <3> QED BY <3>1, <3>2
  <2> QED BY <2>1, <2>2, <2>3
<1>8. i \in 1..n + 1
  BY DEF n
<1>9. ToSet(new) \subseteq ToSet(list) \cup {x}
  <2>1. \A k \in 1..n + 1 : (k < i => k \in 1..n) /\ (~(k < i) /\ k # i => k - 1 \in 1..n)
    BY <1>1, <1>8
  <2>2. ASSUME NEW k \in 1..n + 1 PROVE new[k] \in ToSet(list) \cup {x}
    <3>1. \A j \in 1..n : list[j] \in ToSet(list)
      BY <1>1 DEF ToSet
    <3>2. CASE k < i
      BY <1>7, <2>1, <3>1, <3>2
    <3>3. CASE k = i
      BY <1>7, <1>8, <3>3, <1>1
    <3>4. CASE ~(k < i) /\ k # i
      BY <1>7, <2>1, <3>1, <3>4
    <3> QED BY <3>2, <3>3, <3>4
  <2>3. DOMAIN new = 1..n + 1
    BY <1>7
  <2> QED BY <2>2, <2>3 DEF ToSet
<1>10. ASSUME Distinct(list), x \notin ToSet(list) PROVE Distinct(new)
  <2> SUFFICES ASSUME NEW a \in 1..n + 1, NEW b \in 1..n + 1, new[a] = new[b]
               PROVE  a = b
    BY <1>7 DEF Distinct
  <2>1. \A k \in 1..n : list[k] # x
    BY <1>1, <1>10 DEF ToSet
  <2>2. \A k, l \in 1..n : list[k] = list[l] => k = l
    BY <1>1, <1>10 DEF Distinct
  <2> DEFINE from(k) == IF k < i THEN k ELSE k - 1
  <2>3. \A k \in 1..n + 1 : k # i => from(k) \in 1..n /\ new[k] = list[from(k)]
    BY <1>1, <1>7, <1>8
  <2>4. new[i] = x
    BY <1>7, <1>8
  <2>5. CASE a = i \/ b = i
    BY <2>1, <2>3, <2>4, <2>5
  <2>6. CASE a # i /\ b # i
    <3>1. from(a) = from(b)
      BY <2>2, <2>3, <2>6
    <3> QED BY <1>8, <2>6, <3>1
  <2> QED BY <2>5, <2>6
<1> QED BY <1>7, <1>9, <1>10 DEF new

LEMMA AppendedList ==
  ASSUME NEW S, NEW list \in Seq(S), NEW x \in S
  PROVE  /\ Append(list, x) \in Seq(S) /\ Len(Append(list, x)) = Len(list) + 1
         /\ ToSet(Append(list, x)) = ToSet(list) \cup {x}
<1> DEFINE new == Append(list, x)
           n == Len(list)
<1>1. /\ new \in Seq(S) /\ Len(new) = n + 1 /\ n \in Nat
      /\ \A i \in 1..n : new[i] = list[i]
      /\ new[n + 1] = x
  BY AppendProperties
<1>2. DOMAIN list = 1..n
  OBVIOUS
<1> HIDE DEF new, n
<1>3. DOMAIN new = 1..n + 1 /\ 1..n + 1 = 1..n \cup {n + 1}
  BY <1>1
<1>4. ToSet(new) = ToSet(list) \cup {x}
  BY <1>1, <1>2, <1>3 DEF ToSet
<1> QED BY <1>1, <1>4 DEF new, n

(* The first element and the rest.                                         *)
LEMMA TailedList ==
  ASSUME NEW S, NEW list \in Seq(S), list # <<>>
  PROVE  /\ Head(list) \in S /\ Head(list) \in ToSet(list)
         /\ Tail(list) \in Seq(S) /\ Len(Tail(list)) = Len(list) - 1
         /\ ToSet(list) = ToSet(Tail(list)) \cup {Head(list)}
         /\ Distinct(list) => /\ Distinct(Tail(list))
                              /\ Head(list) \notin ToSet(Tail(list))
<1> DEFINE n == Len(list)
           rest == Tail(list)
<1>1. /\ rest \in Seq(S) /\ Len(rest) = n - 1
      /\ \A i \in 1..n - 1 : rest[i] = list[i + 1]
      /\ Head(list) = list[1] /\ Head(list) \in S
  BY HeadTailProperties
<1>2. n \in Nat \ {0} /\ DOMAIN list = 1..n /\ 1 \in 1..n
  OBVIOUS
<1> HIDE DEF rest, n
<1>3. DOMAIN rest = 1..n - 1
  BY <1>1, <1>2
<1>4. \A i \in 1..n : i = 1 \/ (i - 1 \in 1..n - 1 /\ list[i] = rest[i - 1])
  <2> SUFFICES ASSUME NEW i \in 1..n, i # 1
               PROVE  i - 1 \in 1..n - 1 /\ list[i] = rest[i - 1]
    OBVIOUS
  <2>1. i - 1 \in 1..n - 1 /\ (i - 1) + 1 = i
    BY <1>2
  <2> QED BY <1>1, <2>1
<1>5. \A i \in 1..n - 1 : i + 1 \in 1..n /\ i + 1 # 1
  BY <1>2
<1>6. ToSet(list) = ToSet(rest) \cup {Head(list)}
  <2>1. \A i \in 1..n - 1 : rest[i] = list[i + 1]
    BY <1>1
  <2>2. Head(list) = list[1] /\ 1 \in 1..n
    BY <1>1, <1>2
  <2>3. ToSet(list) = {list[i] : i \in 1..n} /\ ToSet(rest) = {rest[i] : i \in 1..n - 1}
    BY <1>2, <1>3 DEF ToSet
  <2>4. ToSet(list) \subseteq ToSet(rest) \cup {Head(list)}
    BY <1>4, <2>2, <2>3
  <2>5. ToSet(rest) \cup {Head(list)} \subseteq ToSet(list)
    BY <1>5, <2>1, <2>2, <2>3
  <2> QED BY <2>4, <2>5
<1>7. ASSUME Distinct(list) PROVE Distinct(rest) /\ Head(list) \notin ToSet(rest)
  <2>1. \A i, j \in 1..n : list[i] = list[j] => i = j
    BY <1>2, <1>7 DEF Distinct
  <2>2. ASSUME NEW i \in 1..n - 1, NEW j \in 1..n - 1, rest[i] = rest[j]
        PROVE  i = j
    <3>1. i + 1 = j + 1
      BY <1>1, <1>5, <2>1, <2>2
    <3> QED BY <3>1
  <2>3. \A i \in 1..n - 1 : rest[i] # list[1]
    BY <1>1, <1>2, <1>5, <2>1
  <2> QED BY <1>1, <1>3, <2>2, <2>3 DEF Distinct, ToSet
<1>8. Head(list) \in ToSet(list)
  BY <1>6
<1> QED BY <1>1, <1>6, <1>7, <1>8 DEF rest, n

-----------------------------------------------------------------------------
(* Where the grasps are.                                                   *)

Held == ToSet(candidates) \cup ToSet(queue) \cup testing \cup ToSet(solutions)
          \cup ToSet(best)

OneOf(S) == \A g, h \in S : g = h

(* Every grasp that is held was found, the planner's candidates differ, and *)
(* the tester holds one exactly while it tests it.                         *)
Grasps ==
  /\ born \in Seq(Nat) /\ epoch \in Nat
  /\ candidates \in Seq(Nat) /\ queue \in Seq(Nat)
  /\ solutions \in Seq(Nat) /\ best \in Seq(Nat)
  /\ Held \subseteq 1..Len(born)
  /\ Distinct(candidates)
  /\ IF worker = "test" THEN \E g \in Nat : testing = {g} ELSE testing = {}

(* The buffers.  Only while it retrieves solutions may the planner hold    *)
(* more of them than it keeps.                                             *)
Limits ==
  /\ main \in {"idle", "posting", "retrieving", "sleeping", "clearing",
               "resetting", "waiting", "deleted"}
  /\ worker \in {"loop", "pop", "test", "ended"}
  /\ search \in State /\ tester \in State
  /\ Len(born) <= MaxGrasps /\ epoch <= MaxResets
  /\ main \in {"clearing", "resetting"} => epoch < MaxResets
  /\ Len(candidates) <= CandidateBuffer
  /\ Len(queue) <= MaxCandidates + 1
  /\ main # "retrieving" => Len(best) <= SolutionBuffer

Old == {g \in Held : born[g] < epoch}

(* Between the two halves of a reset nothing is left of the earlier search *)
(* on the tester's side but the grasp it holds, or has just handed back.   *)
Cleared ==
  main = "resetting" => queue = <<>> /\ OneOf(testing \cup ToSet(solutions))

(* The inductive invariant of the grasps.                                  *)
GraspInv == IInv /\ Grasps /\ Limits /\ OneOf(Old) /\ Cleared

LEMMA EmptyToSet == ToSet(<<>>) = {}
  BY DEF ToSet

LEMMA GraspInit == Init => GraspInv
<1> SUFFICES ASSUME Init PROVE GraspInv
  OBVIOUS
<1>1. IInv
  BY InStepInit
<1>2. Held = {}
  BY EmptyToSet DEF Init, Held
<1>3. Grasps
  BY <1>2, EmptySeq DEF Init, Grasps, Distinct
<1>4. Limits
  BY PipelineConstants, EmptySeq DEF Init, Limits, State
<1>5. OneOf(Old) /\ Cleared
  BY <1>2 DEF Init, Old, OneOf, Cleared
<1> QED BY <1>1, <1>3, <1>4, <1>5 DEF GraspInv

(* No grasp grows old but by a reset.                                      *)
LEMMA OldStays ==
  ASSUME Grasps, OneOf(Old), epoch' = epoch,
         \A g \in Held' : (g \in Held /\ born'[g] = born[g]) \/ born'[g] = epoch
  PROVE  OneOf(Old)'
<1>1. epoch \in Nat
  BY DEF Grasps
<1>2. \A g \in Old' : g \in Old
  BY <1>1 DEF Old
<1> QED BY <1>2 DEF OneOf

(* A step that moves no grasp.                                             *)
LEMMA QuietStep ==
  ASSUME Grasps, OneOf(Old), Cleared, UNCHANGED lists,
         worker' = "test" <=> worker = "test",
         main' = "resetting" => main = "resetting"
  PROVE  Grasps' /\ OneOf(Old)' /\ Cleared'
<1>1. /\ candidates' = candidates /\ queue' = queue /\ testing' = testing
      /\ solutions' = solutions /\ best' = best /\ born' = born /\ epoch' = epoch
  BY DEF lists
<1>2. Held' = Held
  BY <1>1 DEF Held
<1>3. Grasps'
  BY <1>1, <1>2 DEF Grasps, Distinct
<1>4. OneOf(Old)'
  BY <1>1, <1>2, OldStays
<1>5. Cleared'
  BY <1>1 DEF Cleared, OneOf
<1> QED BY <1>3, <1>4, <1>5

(* What a step leaves of Limits: the lists and where the two threads are.  *)
LEMMA QuietLimits ==
  ASSUME Limits, UNCHANGED lists,
         main' \in {"idle", "posting", "retrieving", "sleeping", "clearing",
                    "resetting", "waiting", "deleted"},
         worker' \in {"loop", "pop", "test", "ended"},
         search' \in State, tester' \in State,
         main' \in {"clearing", "resetting"} => epoch < MaxResets,
         main' # "retrieving" => main # "retrieving"
  PROVE  Limits'
  BY DEF Limits, lists

LEMMA QuietSteps ==
  ASSUME GraspInv,
         \/ User \/ Manage \/ PostingDone \/ PauseSearch
         \/ TesterLoop \/ TesterExit \/ UNCHANGED vars
  PROVE  Grasps' /\ Limits' /\ OneOf(Old)' /\ Cleared'
<1> USE DEF Idle, Call, State
<1>1. Grasps /\ Limits /\ OneOf(Old) /\ Cleared
  BY DEF GraspInv
<1>2. /\ main \in {"idle", "posting", "retrieving", "sleeping", "clearing",
                   "resetting", "waiting", "deleted"}
      /\ worker \in {"loop", "pop", "test", "ended"}
      /\ search \in State /\ tester \in State
      /\ main \in {"clearing", "resetting"} => epoch < MaxResets
  BY <1>1 DEF Limits
<1>3. CASE StartPlanner
  BY <1>1, <1>2, <1>3, QuietStep, QuietLimits DEF StartPlanner
<1>4. CASE PausePlanner
  BY <1>1, <1>2, <1>4, QuietStep, QuietLimits DEF PausePlanner
<1>5. CASE SetModelState
  BY <1>1, <1>2, <1>5, QuietStep, QuietLimits DEF SetModelState
<1>6. CASE ResetPlanner
  BY <1>1, <1>2, <1>6, QuietStep, QuietLimits DEF ResetPlanner
<1>7. CASE DeleteStop
  BY <1>1, <1>2, <1>7, QuietStep, QuietLimits DEF DeleteStop
<1>8. CASE Manage
  <2>1. main = "idle" /\ main' = "posting" /\ UNCHANGED <<worker, search, tester>>
        /\ UNCHANGED lists
    BY <1>8 DEF Manage
  <2> QED BY <1>1, <1>2, <2>1, QuietStep, QuietLimits
<1>9. CASE PostingDone
  <2>1. main = "posting" /\ main' = "retrieving"
        /\ UNCHANGED <<worker, search, tester>> /\ UNCHANGED lists
    BY <1>9 DEF PostingDone
  <2> QED BY <1>1, <1>2, <2>1, QuietStep, QuietLimits
<1>10. CASE PauseSearch
  BY <1>1, <1>2, <1>10, QuietStep, QuietLimits DEF PauseSearch
<1>11. CASE TesterLoop
  BY <1>1, <1>2, <1>11, QuietStep, QuietLimits DEF TesterLoop
<1>12. CASE TesterExit
  BY <1>1, <1>2, <1>12, QuietStep, QuietLimits DEF TesterExit
<1>13. CASE UNCHANGED vars
  BY <1>1, <1>2, <1>13, QuietStep, QuietLimits DEF vars, lists
<1> QED
  BY <1>3, <1>4, <1>5, <1>6, <1>7, <1>8, <1>9, <1>10, <1>11, <1>12, <1>13 DEF User

(* A grasp is found.                                                       *)
LEMMA Found ==
  ASSUME Grasps, GraspLoop
  PROVE  /\ candidates' \in Seq(Nat) /\ Distinct(candidates')
         /\ Len(candidates) <= CandidateBuffer
              => Len(candidates') <= CandidateBuffer
         /\ ToSet(candidates') \subseteq ToSet(candidates) \cup {Len(born) + 1}
         /\ born' \in Seq(Nat) /\ Len(born') = Len(born) + 1
         /\ \A g \in 1..Len(born) : born'[g] = born[g]
         /\ born'[Len(born) + 1] = epoch
<1> DEFINE new == Len(born) + 1
<1>1. /\ born \in Seq(Nat) /\ epoch \in Nat /\ Len(born) \in Nat /\ new \in Nat
      /\ candidates \in Seq(Nat) /\ Distinct(candidates)
      /\ ToSet(candidates) \subseteq 1..Len(born)
  BY DEF Grasps, Held
<1>2. /\ born' \in Seq(Nat) /\ Len(born') = Len(born) + 1
      /\ \A g \in 1..Len(born) : born'[g] = born[g]
      /\ born'[Len(born) + 1] = epoch
  BY <1>1, AppendProperties DEF GraspLoop
<1>3. CASE UNCHANGED candidates
  BY <1>1, <1>2, <1>3
<1>4. CASE ~UNCHANGED candidates
  <2> HIDE DEF new
  <2>1. PICK far \in SUBSET DOMAIN candidates :
          \E i \in 1..Len(Subsequence(candidates, far)) + 1 :
            candidates' = Shortened(InsertAt(Subsequence(candidates, far), i, new),
                                    CandidateBuffer)
    BY <1>4 DEF GraspLoop, new
  <2> DEFINE kept == Subsequence(candidates, far)
  <2>2. kept \in Seq(Nat) /\ ToSet(kept) \subseteq ToSet(candidates) /\ Distinct(kept)
    BY <1>1, ErasedList
  <2>3. PICK i \in 1..Len(kept) + 1 :
          candidates' = Shortened(InsertAt(kept, i, new), CandidateBuffer)
    BY <2>1
  <2> DEFINE more == InsertAt(kept, i, new)
  <2>4. new \notin ToSet(kept)
    <3>1. new \notin 1..Len(born)
      BY <1>1 DEF new
    <3> QED BY <1>1, <2>2, <3>1
  <2> HIDE DEF kept
  <2>5. /\ more \in Seq(Nat) /\ ToSet(more) \subseteq ToSet(kept) \cup {new}
        /\ Distinct(more)
    BY <1>1, <2>2, <2>4, InsertedList
  <2> HIDE DEF more
  <2>6. candidates' = Shortened(more, CandidateBuffer)
    BY <2>3 DEF more
  <2>7. CandidateBuffer \in Nat
    BY PipelineConstants
  <2>8. /\ candidates' \in Seq(Nat) /\ Len(candidates') <= CandidateBuffer
        /\ ToSet(candidates') \subseteq ToSet(more) /\ Distinct(candidates')
    BY <2>5, <2>6, <2>7, CutList
  <2>9. ToSet(candidates') \subseteq ToSet(candidates) \cup {new}
    BY <2>2, <2>5, <2>8
  <2> QED BY <1>2, <2>8, <2>9 DEF new
<1> QED BY <1>3, <1>4

LEMMA GraspLoopKeeps ==
  ASSUME GraspInv, GraspLoop
  PROVE  Grasps' /\ Limits' /\ OneOf(Old)' /\ Cleared'
<1> DEFINE n == Len(born)
<1>1. Grasps /\ Limits /\ OneOf(Old) /\ Cleared
  BY DEF GraspInv
<1>2. /\ main = "idle" /\ n < MaxGrasps
      /\ UNCHANGED <<main, worker, search, tester, queue, testing, solutions,
                     best, epoch>>
  BY DEF GraspLoop
<1>3. /\ candidates' \in Seq(Nat) /\ Distinct(candidates')
      /\ Len(candidates') <= CandidateBuffer
      /\ ToSet(candidates') \subseteq ToSet(candidates) \cup {n + 1}
      /\ born' \in Seq(Nat) /\ Len(born') = n + 1
      /\ \A g \in 1..n : born'[g] = born[g]
      /\ born'[n + 1] = epoch
  BY <1>1, Found DEF Limits
<1>4. n \in Nat /\ Held \subseteq 1..n
  BY <1>1 DEF Grasps
<1> HIDE DEF n
<1>5. Held' \subseteq Held \cup {n + 1}
  BY <1>2, <1>3 DEF Held
<1>6. Held' \subseteq 1..Len(born')
  BY <1>3, <1>4, <1>5
<1>7. Grasps'
  BY <1>1, <1>2, <1>3, <1>6 DEF Grasps
<1>8. Limits'
  <2>1. n + 1 <= MaxGrasps
    BY <1>2, <1>4, PipelineConstants
  <2> QED BY <1>1, <1>2, <1>3, <2>1 DEF Limits
<1>9. OneOf(Old)'
  BY <1>1, <1>2, <1>3, <1>4, <1>5, OldStays
<1>10. Cleared'
  BY <1>2 DEF Cleared
<1> QED BY <1>7, <1>8, <1>9, <1>10

(* Grasps change hands, or are deleted: none is held that was not.         *)
LEMMA HeldStays ==
  ASSUME Grasps, OneOf(Old), UNCHANGED <<born, epoch>>, Held' \subseteq Held
  PROVE  Held' \subseteq 1..Len(born') /\ OneOf(Old)'
<1>1. Held' \subseteq 1..Len(born')
  BY DEF Grasps
<1>2. OneOf(Old)'
  BY OldStays
<1> QED BY <1>1, <1>2

LEMMA PostCandidateKeeps ==
  ASSUME GraspInv, PostCandidate
  PROVE  Grasps' /\ Limits' /\ OneOf(Old)' /\ Cleared'
<1>1. Grasps /\ Limits /\ OneOf(Old)
  BY DEF GraspInv
<1>2. /\ main = "posting" /\ candidates # <<>> /\ ~(Len(queue) > MaxCandidates)
      /\ queue' = Append(queue, Head(candidates)) /\ candidates' = Tail(candidates)
      /\ UNCHANGED <<main, worker, search, tester, testing, solutions, best,
                     born, epoch>>
  BY DEF PostCandidate, Full
<1>3. candidates \in Seq(Nat) /\ queue \in Seq(Nat) /\ Distinct(candidates)
  BY <1>1 DEF Grasps
<1>4. /\ candidates' \in Seq(Nat) /\ Len(candidates') = Len(candidates) - 1
      /\ Head(candidates) \in Nat /\ Head(candidates) \in ToSet(candidates)
      /\ ToSet(candidates') \subseteq ToSet(candidates) /\ Distinct(candidates')
  BY <1>2, <1>3, TailedList
<1>5. /\ queue' \in Seq(Nat) /\ Len(queue') = Len(queue) + 1
      /\ ToSet(queue') = ToSet(queue) \cup {Head(candidates)}
  BY <1>2, <1>3, <1>4, AppendedList
<1>6. Held' \subseteq Held
  BY <1>2, <1>4, <1>5 DEF Held
<1>7. Grasps' /\ OneOf(Old)'
  <2>1. Held' \subseteq 1..Len(born') /\ OneOf(Old)'
    BY <1>1, <1>2, <1>6, HeldStays
  <2> QED BY <1>1, <1>2, <1>4, <1>5, <2>1 DEF Grasps
<1>8. Limits'
  <2>1. Len(queue) \in Nat /\ Len(candidates) \in Nat
    BY <1>3
  <2>2. Len(queue') <= MaxCandidates + 1
    BY <1>2, <1>5, <2>1, PipelineConstants
  <2>3. Len(candidates') <= CandidateBuffer
    BY <1>1, <1>4, <2>1, PipelineConstants DEF Limits
  <2> QED BY <1>1, <1>2, <2>2, <2>3 DEF Limits
<1>9. Cleared'
  BY <1>2 DEF Cleared
<1> QED BY <1>7, <1>8, <1>9

LEMMA RetrieveSolutionKeeps ==
  ASSUME GraspInv, RetrieveSolution
  PROVE  Grasps' /\ Limits' /\ OneOf(Old)' /\ Cleared'
<1>1. Grasps /\ Limits /\ OneOf(Old)
  BY DEF GraspInv
<1>2. /\ main = "retrieving" /\ solutions # <<>>
      /\ best' = Append(best, Head(solutions)) /\ solutions' = Tail(solutions)
      /\ UNCHANGED <<main, worker, search, tester, candidates, queue, testing,
                     born, epoch>>
  BY DEF RetrieveSolution
<1>3. solutions \in Seq(Nat) /\ best \in Seq(Nat)
  BY <1>1 DEF Grasps
<1>4. /\ solutions' \in Seq(Nat) /\ Head(solutions) \in Nat
      /\ Head(solutions) \in ToSet(solutions)
      /\ ToSet(solutions') \subseteq ToSet(solutions)
  BY <1>2, <1>3, TailedList
<1>5. /\ best' \in Seq(Nat)
      /\ ToSet(best') = ToSet(best) \cup {Head(solutions)}
  BY <1>2, <1>3, <1>4, AppendedList
<1>6. Held' \subseteq Held
  BY <1>2, <1>4, <1>5 DEF Held
<1>7. Grasps' /\ OneOf(Old)'
  <2>1. Held' \subseteq 1..Len(born') /\ OneOf(Old)'
    BY <1>1, <1>2, <1>6, HeldStays
  <2> QED BY <1>1, <1>2, <1>4, <1>5, <2>1 DEF Grasps, Distinct
<1>8. Limits'
  BY <1>1, <1>2 DEF Limits
<1>9. Cleared'
  BY <1>2 DEF Cleared
<1> QED BY <1>7, <1>8, <1>9

LEMMA UpdateSolutionListKeeps ==
  ASSUME GraspInv, UpdateSolutionList
  PROVE  Grasps' /\ Limits' /\ OneOf(Old)' /\ Cleared'
<1>1. Grasps /\ Limits /\ OneOf(Old)
  BY DEF GraspInv
<1>2. /\ main' = "idle"
      /\ UNCHANGED <<worker, search, tester, candidates, queue, testing,
                     solutions, born, epoch>>
  BY DEF UpdateSolutionList
<1>3. PICK sorted \in Rearrangements(best) : best' = Shortened(sorted, SolutionBuffer)
  BY DEF UpdateSolutionList
<1>4. sorted \in Seq(Nat) /\ ToSet(sorted) = ToSet(best)
  BY <1>1, SortedList DEF Grasps
<1>5. /\ best' \in Seq(Nat) /\ Len(best') <= SolutionBuffer
      /\ ToSet(best') \subseteq ToSet(best)
  BY <1>3, <1>4, CutList, PipelineConstants
<1>6. Held' \subseteq Held
  BY <1>2, <1>5 DEF Held
<1>7. Grasps' /\ OneOf(Old)'
  <2>1. Held' \subseteq 1..Len(born') /\ OneOf(Old)'
    BY <1>1, <1>2, <1>6, HeldStays
  <2> QED BY <1>1, <1>2, <1>5, <2>1 DEF Grasps, Distinct
<1>8. Limits'
  BY <1>1, <1>2, <1>5 DEF Limits
<1>9. Cleared'
  BY <1>2 DEF Cleared
<1> QED BY <1>7, <1>8, <1>9

(* The tester's lists are emptied; it keeps the grasp it holds.            *)
LEMMA ClearBuffersKeeps ==
  ASSUME GraspInv, ClearBuffers
  PROVE  Grasps' /\ Limits' /\ OneOf(Old)' /\ Cleared'
<1>1. Grasps /\ Limits /\ OneOf(Old)
  BY DEF GraspInv
<1>2. /\ main = "clearing" /\ main' = "resetting"
      /\ queue' = <<>> /\ solutions' = <<>>
      /\ UNCHANGED <<worker, search, tester, candidates, testing, best, born,
                     epoch>>
  BY DEF ClearBuffers
<1>3. Held' \subseteq Held
  BY <1>2, EmptyToSet DEF Held
<1>4. Grasps' /\ OneOf(Old)'
  <2>1. Held' \subseteq 1..Len(born') /\ OneOf(Old)'
    BY <1>1, <1>2, <1>3, HeldStays
  <2> QED BY <1>1, <1>2, <2>1, EmptySeq DEF Grasps, Distinct
<1>5. Limits'
  <2>1. Len(queue') <= MaxCandidates + 1
    BY <1>2, PipelineConstants, EmptySeq
  <2> QED BY <1>1, <1>2, <2>1 DEF Limits
<1>6. Cleared'
  <2>1. OneOf(testing)
    BY <1>1 DEF Grasps, OneOf
  <2>2. testing' \cup ToSet(solutions') = testing
    BY <1>2, EmptyToSet
  <2> QED BY <1>2, <2>1, <2>2 DEF Cleared
<1> QED BY <1>4, <1>5, <1>6

(* What was found before the reset is old, if it is still held.            *)
LEMMA ResetSearchKeeps ==
  ASSUME GraspInv, ResetSearch
  PROVE  Grasps' /\ Limits' /\ OneOf(Old)' /\ Cleared'
<1>1. Grasps /\ Limits /\ OneOf(Old) /\ Cleared /\ IInv
  BY DEF GraspInv
<1>2. /\ main = "resetting" /\ main' = "idle" /\ candidates' = <<>>
      /\ UNCHANGED <<worker, tester, queue, testing, solutions, born>>
  BY DEF ResetSearch
<1>3. search \notin {"RUNNING", "DONE"}
  BY <1>1, <1>2 DEF IInv, InStep, SearchHasTester
<1>4. search' = "READY" /\ best' = <<>> /\ epoch' = epoch + 1
  BY <1>3 DEF ResetSearch
<1>5. Held' = testing \cup ToSet(solutions)
  BY <1>1, <1>2, <1>4, EmptyToSet DEF Held, Cleared
<1>6. Held' \subseteq Held
  BY <1>5 DEF Held
<1>7. Grasps'
  BY <1>1, <1>2, <1>4, <1>6, EmptySeq DEF Grasps, Distinct
<1>8. OneOf(Old)'
  BY <1>1, <1>2, <1>5 DEF OneOf, Old, Cleared
<1>9. Limits'
  <2>1. epoch' <= MaxResets
    BY <1>1, <1>2, <1>4, PipelineConstants DEF Limits, Grasps
  <2>2. Len(candidates') <= CandidateBuffer /\ Len(best') <= SolutionBuffer
    BY <1>2, <1>4, PipelineConstants, EmptySeq
  <2> QED BY <1>1, <1>2, <1>4, <2>1, <2>2 DEF Limits, State
<1>10. Cleared'
  BY <1>2 DEF Cleared
<1> QED BY <1>7, <1>8, <1>9, <1>10

LEMMA DeleteJoinedKeeps ==
  ASSUME GraspInv, DeleteJoined
  PROVE  Grasps' /\ Limits' /\ OneOf(Old)' /\ Cleared'
<1>1. Grasps /\ Limits /\ OneOf(Old)
  BY DEF GraspInv
<1>2. /\ main' = "deleted"
      /\ queue' = <<>> /\ solutions' = <<>> /\ best' = <<>>
      /\ UNCHANGED <<worker, search, tester, candidates, testing, born, epoch>>
  BY DEF DeleteJoined
<1>3. Held' \subseteq Held
  BY <1>2, EmptyToSet DEF Held
<1>4. Grasps' /\ OneOf(Old)'
  <2>1. Held' \subseteq 1..Len(born') /\ OneOf(Old)'
    BY <1>1, <1>2, <1>3, HeldStays
  <2> QED BY <1>1, <1>2, <2>1, EmptySeq DEF Grasps, Distinct
<1>5. Limits'
  <2>1. Len(queue') <= MaxCandidates + 1 /\ Len(best') <= SolutionBuffer
    BY <1>2, PipelineConstants, EmptySeq
  <2> QED BY <1>1, <1>2, <2>1 DEF Limits
<1>6. Cleared'
  BY <1>2 DEF Cleared
<1> QED BY <1>4, <1>5, <1>6

(* The tester takes a grasp: none while its queue has just been emptied.   *)
LEMMA PopCandidateKeeps ==
  ASSUME GraspInv, PopCandidate
  PROVE  Grasps' /\ Limits' /\ OneOf(Old)' /\ Cleared'
<1>1. Grasps /\ Limits /\ OneOf(Old) /\ Cleared
  BY DEF GraspInv
<1>2. /\ worker = "pop"
      /\ UNCHANGED <<main, search, tester, candidates, solutions, best, born,
                     epoch>>
  BY DEF PopCandidate
<1>3. testing = {} /\ queue \in Seq(Nat)
  BY <1>1, <1>2 DEF Grasps
<1>4. CASE queue = <<>>
  <2>1. worker' = "loop" /\ UNCHANGED lists
    BY <1>2, <1>4 DEF PopCandidate, lists
  <2> QED BY <1>1, <1>2, <2>1, QuietStep, QuietLimits DEF Limits
<1>5. CASE queue # <<>>
  <2>1. worker' = "test" /\ testing' = {Head(queue)} /\ queue' = Tail(queue)
    BY <1>5 DEF PopCandidate
  <2>2. /\ queue' \in Seq(Nat) /\ Head(queue) \in Nat /\ Head(queue) \in ToSet(queue)
        /\ ToSet(queue') \subseteq ToSet(queue) /\ Len(queue') = Len(queue) - 1
    BY <1>3, <1>5, <2>1, TailedList
  <2>3. Held' \subseteq Held
    BY <1>2, <2>1, <2>2 DEF Held
  <2>4. Grasps' /\ OneOf(Old)'
    <3>1. Held' \subseteq 1..Len(born') /\ OneOf(Old)'
      BY <1>1, <1>2, <2>3, HeldStays
    <3> QED BY <1>1, <1>2, <2>1, <2>2, <3>1 DEF Grasps, Distinct
  <2>5. Limits'
    <3>1. Len(queue') <= MaxCandidates + 1
      BY <1>1, <1>3, <2>2, PipelineConstants DEF Limits
    <3> QED BY <1>1, <1>2, <2>1, <3>1 DEF Limits
  <2>6. Cleared'
    BY <1>1, <1>2, <1>5 DEF Cleared
  <2> QED BY <2>4, <2>5, <2>6
<1> QED BY <1>4, <1>5

LEMMA TestGraspKeeps ==
  ASSUME GraspInv, TestGrasp
  PROVE  Grasps' /\ Limits' /\ OneOf(Old)' /\ Cleared'
<1>1. Grasps /\ Limits /\ OneOf(Old) /\ Cleared
  BY DEF GraspInv
<1>2. /\ worker = "test" /\ worker' = "loop" /\ testing' = {}
      /\ UNCHANGED <<main, search, tester, candidates, queue, best, born, epoch>>
  BY DEF TestGrasp
<1>3. PICK g \in testing : solutions' \in {solutions, Append(solutions, g)}
  BY DEF TestGrasp
<1>4. solutions \in Seq(Nat) /\ g \in Nat
  BY <1>1, <1>2 DEF Grasps
<1>5. /\ solutions' \in Seq(Nat)
      /\ ToSet(solutions') \subseteq testing \cup ToSet(solutions)
  <2>1. /\ Append(solutions, g) \in Seq(Nat)
        /\ ToSet(Append(solutions, g)) = ToSet(solutions) \cup {g}
    BY <1>4, AppendedList
  <2>2. CASE solutions' = solutions
    BY <1>4, <2>2
  <2>3. CASE solutions' = Append(solutions, g)
    BY <2>1, <2>3
  <2> QED BY <1>3, <2>2, <2>3
<1>6. Held' \subseteq Held
  BY <1>2, <1>5 DEF Held
<1>7. Grasps' /\ OneOf(Old)'
  <2>1. Held' \subseteq 1..Len(born') /\ OneOf(Old)'
    BY <1>1, <1>2, <1>6, HeldStays
  <2> QED BY <1>1, <1>2, <1>5, <2>1 DEF Grasps, Distinct
<1>8. Limits'
  BY <1>1, <1>2 DEF Limits
<1>9. Cleared'
  BY <1>1, <1>2, <1>5 DEF Cleared, OneOf
<1> QED BY <1>7, <1>8, <1>9

LEMMA GraspNext == GraspInv /\ [Next]_vars => GraspInv'
<1> SUFFICES ASSUME GraspInv, [Next]_vars PROVE GraspInv'
  OBVIOUS
<1>1. IInv'
  BY InStepUser, InStepMain, InStepRest DEF GraspInv, Next
<1>2. Grasps' /\ Limits' /\ OneOf(Old)' /\ Cleared'
  BY QuietSteps, GraspLoopKeeps, PostCandidateKeeps, RetrieveSolutionKeeps,
     UpdateSolutionListKeeps, ClearBuffersKeeps, ResetSearchKeeps,
     DeleteJoinedKeeps, PopCandidateKeeps, TestGraspKeeps
     DEF Next, MainStep, Tester
<1> QED BY <1>1, <1>2 DEF GraspInv

LEMMA GraspInvImplies == GraspInv => TypeOK /\ OneStaleAtMost
<1> SUFFICES ASSUME GraspInv PROVE TypeOK /\ OneStaleAtMost
  OBVIOUS
<1>1. Grasps /\ Limits /\ OneOf(Old)
  BY DEF GraspInv
<1>2. Cardinality(testing) = IF worker = "test" THEN 1 ELSE 0
  BY <1>1, FS_EmptySet, FS_Singleton DEF Grasps
<1>3. epoch \in 0..MaxResets
  BY <1>1, PipelineConstants DEF Grasps, Limits
<1>4. TypeOK
  BY <1>1, <1>2, <1>3 DEF Limits, TypeOK
<1>5. Stale = Old
  BY DEF Stale, Old, Places, Held
<1>6. Stale = {} \/ \E g : Stale = {g}
  BY <1>1, <1>5 DEF OneOf
<1>7. Cardinality(Stale) \in {0, 1}
  BY <1>6, FS_EmptySet, FS_Singleton
<1> QED BY <1>4, <1>7 DEF OneStaleAtMost

(* The buffers never outgrow their sizes, whatever the tester's thread is  *)
(* doing when the planner fills, empties or clears them.                   *)
THEOREM BuffersAlwaysHold == Spec => []TypeOK
<1> QED BY GraspInit, GraspNext, GraspInvImplies, PTL DEF Spec

(* A reset in the middle of a test leaves no more than one grasp of an     *)
(* earlier search in all the lists, however often it is repeated.          *)
THEOREM OneStaleForever == Spec => []OneStaleAtMost
<1> QED BY GraspInit, GraspNext, GraspInvImplies, PTL DEF Spec

-----------------------------------------------------------------------------
(* The two threads implement GraspFlow.                                    *)

(* What has been handed over and not collected, the oldest first.          *)
Pipe == solutions \o SetToSeq(testing) \o queue

LEMMA Regrouped ==
  ASSUME NEW r \in Seq(Nat), NEW t \in Seq(Nat), NEW u \in Seq(Nat)
  PROVE  (r \o t) \o u = r \o (t \o u)
<1>1. /\ r \o t \in Seq(Nat) /\ Len(r \o t) = Len(r) + Len(t)
      /\ t \o u \in Seq(Nat) /\ Len(t \o u) = Len(t) + Len(u)
  BY ConcatProperties
<1>2. Len((r \o t) \o u) = Len(r \o (t \o u))
  OBVIOUS
<1> QED OBVIOUS

LEMMA NoneInSeq == SetToSeq({}) = <<>>
  BY FS_EmptySet DEF SetToSeq, IsInjective

LEMMA OneInSeq == ASSUME NEW g PROVE SetToSeq({g}) = <<g>>
<1>1. Cardinality({g}) = 1
  BY FS_Singleton
<1>2. [1..1 -> {g}] = {<<g>>}
  OBVIOUS
<1>3. IsInjective(<<g>>)
  BY DEF IsInjective
<1> QED BY <1>1, <1>2, <1>3 DEF SetToSeq

LEMMA PipeIs ==
  ASSUME NEW s \in Seq(Nat), NEW T, NEW q \in Seq(Nat),
         T = {} \/ \E g \in Nat : T = {g}
  PROVE  /\ s \o SetToSeq(T) \o q \in Seq(Nat)
         /\ T = {} => s \o SetToSeq(T) \o q = s \o q
         /\ \A g : T = {g} => s \o SetToSeq(T) \o q = (s \o <<g>>) \o q
<1>1. T = {} => s \o SetToSeq(T) \o q = s \o q
  <2>1. s \o <<>> = s
    BY ConcatEmptySeq
  <2> QED BY <2>1, NoneInSeq
<1>2. \A g : T = {g} => s \o SetToSeq(T) \o q = (s \o <<g>>) \o q
  BY OneInSeq
<1>3. CASE T = {}
  <2>1. s \o q \in Seq(Nat)
    BY ConcatProperties
  <2> QED BY <1>1, <1>2, <1>3, <2>1
<1>4. ASSUME NEW g \in Nat, T = {g} PROVE s \o SetToSeq(T) \o q \in Seq(Nat)
  <2>1. s \o <<g>> \in Seq(Nat)
    BY ConcatProperties
  <2>2. (s \o <<g>>) \o q \in Seq(Nat)
    BY <2>1, ConcatProperties
  <2> QED BY <1>2, <1>4, <2>2
<1> QED BY <1>1, <1>2, <1>3, <1>4

LEMMA PipeParts ==
  Grasps => /\ solutions \in Seq(Nat) /\ queue \in Seq(Nat)
            /\ testing = {} \/ \E g \in Nat : testing = {g}
  BY DEF Grasps

LEMMA PipePartsNext ==
  Grasps' => /\ solutions' \in Seq(Nat) /\ queue' \in Seq(Nat)
             /\ testing' = {} \/ \E g \in Nat : testing' = {g}
  BY DEF Grasps

LEMMA TestedInSeq ==
  ASSUME Grasps PROVE SetToSeq(testing) \in Seq(Nat)
<1>1. CASE testing = {}
  BY <1>1, NoneInSeq, EmptySeq
<1>2. CASE testing # {}
  <2>1. PICK h \in Nat : testing = {h}
    BY <1>2, PipeParts
  <2>2. <<h>> \in Seq(Nat)
    OBVIOUS
  <2>3. SetToSeq(testing) = <<h>>
    BY <2>1, OneInSeq
  <2> QED BY <2>2, <2>3
<1> QED BY <1>1, <1>2

(* A list of elements of another in their order is one that is left of it. *)
LEMMA OrderedIsLeft ==
  ASSUME NEW S, NEW list \in Seq(S), NEW new \in Seq(S), IsOrdered(new, list)
  PROVE  \E left \in SUBSET DOMAIN list : new = Flow!Subsequence(list, left)
<1> DEFINE n == Len(new)
<1>1. n \in Nat /\ DOMAIN new = 1..n /\ DOMAIN list \in SUBSET Nat
      /\ new = [k \in 1..n |-> new[k]]
  OBVIOUS
<1> HIDE DEF n
<1>2. PICK e \in [1..n -> DOMAIN list] :
        /\ \A k \in 1..n : new[k] = list[e[k]]
        /\ \A k, l \in 1..n : k < l => e[k] < e[l]
  BY <1>1 DEF IsOrdered, Ordered
<1> DEFINE left == {e[k] : k \in 1..n}
<1>3. left \in SUBSET DOMAIN list /\ Keeps(e, n, left)
  BY <1>2 DEF Keeps
<1> HIDE DEF left
<1>4. left \in SUBSET Nat
  BY <1>1, <1>3
<1>5. Subsequence(list, left) = [k \in 1..n |-> list[e[k]]]
  <2>1. n \in Nat /\ Keeps(e, n, left) /\ left \in SUBSET Nat
    BY <1>1, <1>3, <1>4
  <2>2. Cardinality(left) = n /\ \A k \in 1..n : Nth(left, k) = e[k]
    BY <2>1, SubsequenceIs
  <2> QED BY <2>2 DEF Subsequence
<1>6. new = Subsequence(list, left)
  BY <1>1, <1>2, <1>5
<1>7. Flow!Subsequence(list, left) = Subsequence(list, left)
  BY DEF Flow!Subsequence, Subsequence, Flow!Nth, Nth, Flow!Cardinality,
         Cardinality
<1> QED BY <1>3, <1>6, <1>7

LEMMA OrderedAll ==
  ASSUME NEW S, NEW list \in Seq(S)
  PROVE  IsOrdered(list, list) /\ IsOrdered(<<>>, list)
<1>1. Ordered([k \in DOMAIN list |-> k], list, list)
  BY DEF Ordered
<1>2. Ordered(<<>>, <<>>, list)
  <2>1. DOMAIN <<>> = {} /\ <<>> \in [{} -> DOMAIN list]
    OBVIOUS
  <2> QED BY <2>1 DEF Ordered
<1> QED BY <1>1, <1>2 DEF IsOrdered

LEMMA OrderedOne ==
  ASSUME NEW S, NEW list \in Seq(S), NEW p \in DOMAIN list
  PROVE  IsOrdered(<<list[p]>>, list)
<1>1. DOMAIN <<list[p]>> = {1} /\ <<list[p]>>[1] = list[p]
  OBVIOUS
<1>2. Ordered([k \in {1} |-> p], <<list[p]>>, list)
  BY <1>1 DEF Ordered
<1> QED BY <1>2 DEF IsOrdered

(* One element is taken out.                                               *)
LEMMA OrderedWithout ==
  ASSUME NEW S, NEW s \in Seq(S), NEW t \in Seq(S), NEW x \in S
  PROVE  IsOrdered(s \o t, (s \o <<x>>) \o t)
<1> DEFINE m == Len(s)
           n == Len(t)
           new == s \o t
           head == s \o <<x>>
           list == head \o t
           e == [k \in 1..m + n |-> IF k <= m THEN k ELSE k + 1]
<1>1. m \in Nat /\ n \in Nat
  OBVIOUS
<1>2. /\ new \in Seq(S) /\ Len(new) = m + n
      /\ \A k \in 1..m + n : new[k] = IF k <= m THEN s[k] ELSE t[k - m]
  BY ConcatProperties
<1>3. <<x>> \in Seq(S) /\ Len(<<x>>) = 1
  OBVIOUS
<1>4. /\ head \in Seq(S) /\ Len(head) = m + 1
      /\ \A k \in 1..m + 1 : head[k] = IF k <= m THEN s[k] ELSE <<x>>[k - m]
  BY <1>3, ConcatProperties
<1>5. /\ list \in Seq(S) /\ Len(list) = Len(head) + n
      /\ \A k \in 1..Len(head) + n :
           list[k] = IF k <= Len(head) THEN head[k] ELSE t[k - Len(head)]
  <2>1. head \in Seq(S)
    BY <1>4
  <2> HIDE DEF head
  <2> QED BY <2>1, ConcatProperties
<1> HIDE DEF m, n, new, head, list
<1>6. DOMAIN new = 1..m + n /\ DOMAIN list = 1..(m + 1) + n
  BY <1>1, <1>2, <1>4, <1>5
<1>7. ASSUME NEW k \in 1..m + n
      PROVE  e[k] \in 1..(m + 1) + n /\ new[k] = list[e[k]]
  <2>1. CASE k <= m
    <3>1. e[k] = k /\ k \in 1..(m + 1) + n /\ k \in 1..m + 1 /\ k <= m + 1
      BY <1>1, <2>1
    <3> QED BY <1>2, <1>4, <1>5, <2>1, <3>1
  <2>2. CASE ~(k <= m)
    <3>1. /\ e[k] = k + 1 /\ k + 1 \in 1..(m + 1) + n /\ ~(k + 1 <= m + 1)
          /\ (k + 1) - (m + 1) = k - m
      BY <1>1, <2>2
    <3> QED BY <1>2, <1>4, <1>5, <2>2, <3>1
  <2> QED BY <2>1, <2>2
<1>8. \A k, l \in 1..m + n : k < l => e[k] < e[l]
  BY <1>1
<1>9. Ordered(e, new, list)
  <2>1. e \in [1..m + n -> 1..(m + 1) + n]
    BY <1>7
  <2> HIDE DEF e
  <2> QED BY <1>6, <1>7, <1>8, <2>1 DEF Ordered
<1> HIDE DEF e
<1>10. IsOrdered(new, list)
  BY <1>9 DEF IsOrdered
<1> QED BY <1>10 DEF new, list, head

(* A step that does not change what GraspFlow sees of the grasps.          *)
FlowStutter ==
  Len(born') = Len(born) /\ ToSet(candidates') = ToSet(candidates)
    /\ Pipe' = Pipe /\ ToSet(best') = ToSet(best)

(* Grasps are only lost.                                                   *)
LEMMA FlowLoses ==
  ASSUME Grasps, Grasps', Len(born') = Len(born),
         ToSet(candidates') \subseteq ToSet(candidates),
         ToSet(best') \subseteq ToSet(best), IsOrdered(Pipe', Pipe)
  PROVE  Flow!Next
<1>1. Pipe \in Seq(Nat) /\ Pipe' \in Seq(Nat)
  BY PipeIs, PipeParts, PipePartsNext DEF Pipe
<1>2. \E left \in SUBSET DOMAIN Pipe : Pipe' = Flow!Subsequence(Pipe, left)
  BY <1>1, OrderedIsLeft
<1>3. Flow!Lose
  BY <1>2 DEF Flow!Lose, Pipe
<1> QED BY <1>3 DEF Flow!Next

LEMMA FlowInit == Init => Flow!Init
<1> SUFFICES ASSUME Init PROVE Flow!Init
  OBVIOUS
<1>1. Pipe = <<>>
  <2>1. <<>> \o <<>> = <<>>
    BY EmptySeq, ConcatEmptySeq
  <2> QED BY <2>1, NoneInSeq DEF Init, Pipe
<1>2. Len(born) = 0
  BY DEF Init
<1> QED BY <1>1, <1>2, EmptyToSet DEF Init, Pipe, Flow!Init

LEMMA FlowGraspLoop ==
  ASSUME Grasps, GraspLoop PROVE Flow!Find
<1>1. /\ ToSet(candidates') \subseteq ToSet(candidates) \cup {Len(born) + 1}
      /\ Len(born') = Len(born) + 1
  BY Found
<1>2. Len(born) < MaxGrasps /\ UNCHANGED <<queue, testing, solutions, best>>
  BY DEF GraspLoop
<1>3. Pipe' = Pipe
  BY <1>2 DEF Pipe
<1> QED BY <1>1, <1>2, <1>3 DEF Flow!Find, Pipe

LEMMA FlowPost ==
  ASSUME Grasps, PostCandidate PROVE Flow!HandOver
<1> DEFINE g == Head(candidates)
           front == solutions \o SetToSeq(testing)
<1>1. /\ candidates # <<>>
      /\ queue' = Append(queue, g) /\ candidates' = Tail(candidates)
      /\ UNCHANGED <<testing, solutions, best, born>>
  BY DEF PostCandidate
<1>2. /\ candidates \in Seq(Nat) /\ queue \in Seq(Nat) /\ Distinct(candidates)
      /\ solutions \in Seq(Nat)
  BY DEF Grasps
<1>3. /\ g \in Nat /\ g \in ToSet(candidates)
      /\ ToSet(candidates) = ToSet(candidates') \cup {g}
      /\ g \notin ToSet(candidates')
  BY <1>1, <1>2, TailedList
<1>4. ToSet(candidates') = ToSet(candidates) \ {g}
  BY <1>3
<1>5. front \in Seq(Nat)
  <2>1. SetToSeq(testing) \in Seq(Nat)
    BY TestedInSeq
  <2> QED BY <1>2, <2>1, ConcatProperties
<1>6. Pipe = front \o queue /\ Pipe' = front \o Append(queue, g)
  BY <1>1 DEF Pipe
<1> HIDE DEF front, g
<1>7. front \o Append(queue, g) = Append(front \o queue, g)
  <2>1. <<g>> \in Seq(Nat) /\ front \o queue \in Seq(Nat)
    BY <1>2, <1>3, <1>5, ConcatProperties
  <2>2. Append(queue, g) = queue \o <<g>>
    BY <1>2, <1>3, AppendIsConcat
  <2>3. Append(front \o queue, g) = (front \o queue) \o <<g>>
    BY <1>3, <2>1, AppendIsConcat
  <2>4. (front \o queue) \o <<g>> = front \o (queue \o <<g>>)
    <3>1. front \in Seq(Nat) /\ queue \in Seq(Nat) /\ <<g>> \in Seq(Nat)
      BY <1>2, <1>5, <2>1
    <3> QED BY <3>1, Regrouped
  <2> QED BY <2>2, <2>3, <2>4
<1> QED BY <1>1, <1>3, <1>4, <1>6, <1>7 DEF Flow!HandOver, Pipe

(* The first of two lists is not empty.                                    *)
LEMMA HeadOfTwo ==
  ASSUME NEW S, NEW s \in Seq(S), NEW t \in Seq(S), s # <<>>
  PROVE  /\ s \o t # <<>> /\ Head(s \o t) = Head(s)
         /\ Tail(s \o t) = Tail(s) \o t
<1>1. Head(s) \in S /\ Tail(s) \in Seq(S) /\ <<Head(s)>> \in Seq(S)
  BY HeadTailProperties
<1>2. s = <<Head(s)>> \o Tail(s)
  OBVIOUS
<1> DEFINE more == Tail(s) \o t
           x == Head(s)
<1>3. more \in Seq(S)
  BY <1>1, ConcatProperties
<1>4. s \o t = <<x>> \o more
  BY <1>1, <1>2, ConcatAssociative
<1> HIDE DEF more, x
<1>5. /\ <<x>> \o more # <<>> /\ Head(<<x>> \o more) = x
      /\ Tail(<<x>> \o more) = more
  BY <1>3
<1> QED BY <1>4, <1>5 DEF more, x

LEMMA FlowRetrieve ==
  ASSUME Grasps, RetrieveSolution PROVE Flow!Collect
<1> DEFINE back == SetToSeq(testing) \o queue
<1>1. /\ solutions # <<>>
      /\ best' = Append(best, Head(solutions)) /\ solutions' = Tail(solutions)
      /\ UNCHANGED <<candidates, queue, testing, born>>
  BY DEF RetrieveSolution
<1>2. solutions \in Seq(Nat) /\ best \in Seq(Nat) /\ queue \in Seq(Nat)
  BY DEF Grasps
<1>3. SetToSeq(testing) \in Seq(Nat)
  BY TestedInSeq
<1>4. back \in Seq(Nat)
  BY <1>2, <1>3, ConcatProperties
<1>5. Head(solutions) \in Nat /\ Tail(solutions) \in Seq(Nat)
  BY <1>1, <1>2, HeadTailProperties
<1>6. ToSet(best') = ToSet(best) \cup {Head(solutions)}
  BY <1>1, <1>2, <1>5, AppendedList
<1>7. Pipe = solutions \o back
  <2> DEFINE tested == SetToSeq(testing)
  <2>1. tested \in Seq(Nat)
    BY <1>3
  <2>2. Pipe = (solutions \o tested) \o queue
    BY DEF Pipe
  <2> HIDE DEF tested, back
  <2>3. (solutions \o tested) \o queue = solutions \o (tested \o queue)
    BY <1>2, <2>1, Regrouped
  <2> QED BY <2>2, <2>3 DEF tested, back
<1>8. Pipe' = Tail(solutions) \o back
  <2>1. Pipe' = (Tail(solutions) \o SetToSeq(testing)) \o queue
    BY <1>1 DEF Pipe
  <2>2. /\ Tail(solutions) \in Seq(Nat) /\ SetToSeq(testing) \in Seq(Nat)
        /\ queue \in Seq(Nat)
    BY <1>2, <1>3, <1>5
  <2>3. (Tail(solutions) \o SetToSeq(testing)) \o queue = Tail(solutions) \o back
    <3> DEFINE rest == Tail(solutions)
               tested == SetToSeq(testing)
    <3>1. rest \in Seq(Nat) /\ tested \in Seq(Nat) /\ queue \in Seq(Nat)
      BY <2>2
    <3> HIDE DEF rest, tested, back
    <3>2. (rest \o tested) \o queue = rest \o (tested \o queue)
      BY <3>1, Regrouped
    <3> QED BY <3>2 DEF rest, tested, back
  <2> QED BY <2>1, <2>3
<1> HIDE DEF back
<1>9. Pipe # <<>> /\ Head(Pipe) = Head(solutions) /\ Tail(Pipe) = Tail(solutions) \o back
  BY <1>1, <1>2, <1>4, <1>7, HeadOfTwo
<1> QED BY <1>1, <1>6, <1>8, <1>9 DEF Flow!Collect, Pipe

(* The tester takes the next grasp: it stays where it was in the flow.     *)
LEMMA FlowPop ==
  ASSUME Grasps, Grasps', PopCandidate PROVE FlowStutter
<1>1. UNCHANGED <<candidates, solutions, best, born>>
  BY DEF PopCandidate
<1>2. CASE queue = <<>>
  <2>1. UNCHANGED <<queue, testing>>
    BY <1>2 DEF PopCandidate
  <2> QED BY <1>1, <2>1 DEF FlowStutter, Pipe
<1>3. CASE queue # <<>>
  <2>1. testing = {} /\ queue \in Seq(Nat) /\ solutions \in Seq(Nat)
    BY DEF Grasps, PopCandidate
  <2>2. testing' = {Head(queue)} /\ queue' = Tail(queue)
    BY <1>3 DEF PopCandidate
  <2>3. Head(queue) \in Nat /\ Tail(queue) \in Seq(Nat) /\ <<Head(queue)>> \in Seq(Nat)
    BY <1>3, <2>1, HeadTailProperties
  <2>4. Pipe = solutions \o queue
    BY <2>1, PipeIs DEF Pipe
  <2>5. Pipe' = (solutions \o <<Head(queue)>>) \o Tail(queue)
    BY <1>1, <2>2, OneInSeq DEF Pipe
  <2>6. queue = <<Head(queue)>> \o Tail(queue)
    BY <1>3, <2>1
  <2>7. Pipe' = solutions \o (<<Head(queue)>> \o Tail(queue))
    <3> DEFINE rest == Tail(queue)
               g == Head(queue)
    <3>1. solutions \in Seq(Nat) /\ <<g>> \in Seq(Nat) /\ rest \in Seq(Nat)
      BY <2>1, <2>3
    <3> HIDE DEF rest, g
    <3>2. (solutions \o <<g>>) \o rest = solutions \o (<<g>> \o rest)
      BY <3>1, Regrouped
    <3> QED BY <2>5, <3>2 DEF rest, g
  <2> QED BY <1>1, <2>4, <2>6, <2>7 DEF FlowStutter
<1> QED BY <1>2, <1>3

(* A test ends: the grasp stays where it was, or is lost.                  *)
LEMMA FlowTest ==
  ASSUME Grasps, Grasps', TestGrasp PROVE Flow!Next \/ FlowStutter
<1>1. testing' = {} /\ UNCHANGED <<candidates, queue, best, born>>
  BY DEF TestGrasp
<1>2. PICK g \in testing : solutions' \in {solutions, Append(solutions, g)}
  BY DEF TestGrasp
<1>3. queue \in Seq(Nat) /\ solutions \in Seq(Nat) /\ g \in Nat /\ testing = {g}
  BY DEF Grasps, TestGrasp
<1>4. Pipe = (solutions \o <<g>>) \o queue
  BY <1>3, OneInSeq DEF Pipe
<1>5. Pipe' = solutions' \o queue
  <2>1. solutions' \in Seq(Nat) /\ queue' \in Seq(Nat)
    BY DEF Grasps
  <2>2. solutions' \o SetToSeq({}) \o queue' = solutions' \o queue'
    BY <2>1, PipeIs
  <2> QED BY <1>1, <2>2 DEF Pipe
<1>6. CASE solutions' = Append(solutions, g)
  <2>1. Append(solutions, g) = solutions \o <<g>>
    BY <1>3, AppendIsConcat
  <2> QED BY <1>1, <1>4, <1>5, <1>6, <2>1 DEF FlowStutter
<1>7. CASE solutions' = solutions
  <2>1. IsOrdered(Pipe', Pipe)
    BY <1>3, <1>4, <1>5, <1>7, OrderedWithout
  <2> QED BY <1>1, <2>1, FlowLoses
<1> QED BY <1>2, <1>6, <1>7

(* Grasps are deleted.                                                     *)
LEMMA FlowUpdate ==
  ASSUME Grasps, Grasps', UpdateSolutionList PROVE Flow!Next
<1>1. UNCHANGED <<candidates, queue, testing, solutions, born>>
  BY DEF UpdateSolutionList
<1>2. PICK sorted \in Rearrangements(best) : best' = Shortened(sorted, SolutionBuffer)
  BY DEF UpdateSolutionList
<1>3. sorted \in Seq(Nat) /\ ToSet(sorted) = ToSet(best)
  BY SortedList DEF Grasps
<1>4. ToSet(best') \subseteq ToSet(best)
  BY <1>2, <1>3, CutList, PipelineConstants
<1>5. Pipe' = Pipe /\ Pipe \in Seq(Nat)
  BY <1>1, PipeIs, PipeParts DEF Pipe
<1>6. IsOrdered(Pipe', Pipe)
  BY <1>5, OrderedAll
<1> QED BY <1>1, <1>4, <1>6, FlowLoses

LEMMA FlowClear ==
  ASSUME Grasps, Grasps', ClearBuffers PROVE Flow!Next
<1>1. /\ queue' = <<>> /\ solutions' = <<>>
      /\ UNCHANGED <<candidates, testing, best, born>>
  BY DEF ClearBuffers
<1>2. Pipe \in Seq(Nat) /\ solutions \in Seq(Nat) /\ queue \in Seq(Nat)
  BY PipeIs, PipeParts DEF Pipe
<1>3. IsOrdered(Pipe', Pipe)
  <2>1. CASE testing = {}
    <3>1. Pipe' = <<>>
      <4>1. <<>> \o <<>> = <<>>
        BY EmptySeq, ConcatEmptySeq
      <4> QED BY <1>1, <2>1, <4>1, NoneInSeq DEF Pipe
    <3> QED BY <1>2, <3>1, OrderedAll
  <2>2. CASE testing # {}
    <3>1. PICK g \in Nat : testing = {g}
      BY <2>2, PipeParts
    <3>2. Pipe = (solutions \o <<g>>) \o queue
      BY <3>1, OneInSeq DEF Pipe
    <3>3. Pipe' = <<g>>
      <4>1. <<>> \o <<g>> = <<g>> /\ <<g>> \o <<>> = <<g>>
        OBVIOUS
      <4> QED BY <1>1, <3>1, <4>1, OneInSeq DEF Pipe
    <3> DEFINE p == Len(solutions) + 1
               head == solutions \o <<g>>
    <3>4. p \in Nat /\ p # 0 /\ head \in Seq(Nat) /\ Len(head) = p /\ head[p] = g
      <4>1. Append(solutions, g) = head
        BY <1>2, AppendIsConcat
      <4> QED BY <1>2, <4>1, AppendProperties
    <3> HIDE DEF p, head
    <3>5. /\ Len(head \o queue) = Len(head) + Len(queue)
          /\ \A i \in 1..Len(head) + Len(queue) :
               (head \o queue)[i] = IF i <= Len(head) THEN head[i]
                                    ELSE queue[i - Len(head)]
      BY <1>2, <3>4, ConcatProperties
    <3>6. p \in 1..Len(head \o queue) /\ (head \o queue)[p] = g
      <4>1. Len(queue) \in Nat
        BY <1>2
      <4> QED BY <3>4, <3>5, <4>1
    <3>7. p \in DOMAIN Pipe /\ Pipe[p] = g
      BY <1>2, <3>2, <3>6 DEF head
    <3> QED BY <1>2, <3>3, <3>7, OrderedOne
  <2> QED BY <2>1, <2>2
<1> QED BY <1>1, <1>3, FlowLoses

LEMMA FlowReset ==
  ASSUME Grasps, Grasps', ResetSearch PROVE Flow!Next
<1>1. /\ candidates' = <<>> /\ best' \in {<<>>, best}
      /\ UNCHANGED <<queue, testing, solutions, born>>
  BY DEF ResetSearch
<1>2. Pipe' = Pipe /\ Pipe \in Seq(Nat)
  BY <1>1, PipeIs, PipeParts DEF Pipe
<1>3. IsOrdered(Pipe', Pipe)
  BY <1>2, OrderedAll
<1>4. /\ ToSet(candidates') \subseteq ToSet(candidates)
      /\ ToSet(best') \subseteq ToSet(best)
  BY <1>1, EmptyToSet
<1> QED BY <1>1, <1>3, <1>4, FlowLoses

LEMMA FlowDelete ==
  ASSUME Grasps, Grasps', DeleteJoined PROVE Flow!Next
<1>1. /\ worker = "ended"
      /\ queue' = <<>> /\ solutions' = <<>> /\ best' = <<>>
      /\ UNCHANGED <<candidates, testing, born>>
  BY DEF DeleteJoined
<1>2. testing = {}
  BY <1>1 DEF Grasps
<1>3. Pipe' = <<>>
  <2>1. <<>> \o <<>> = <<>>
    BY EmptySeq, ConcatEmptySeq
  <2> QED BY <1>1, <1>2, <2>1, NoneInSeq DEF Pipe
<1>4. IsOrdered(Pipe', Pipe)
  <2>1. Pipe \in Seq(Nat)
    BY PipeIs, PipeParts DEF Pipe
  <2> QED BY <1>3, <2>1, OrderedAll
<1>5. ToSet(best') \subseteq ToSet(best)
  BY <1>1, EmptyToSet
<1> QED BY <1>1, <1>4, <1>5, FlowLoses

LEMMA FlowNext ==
  GraspInv /\ GraspInv' /\ [Next]_vars => Flow!Next \/ FlowStutter
<1> SUFFICES ASSUME GraspInv, GraspInv', [Next]_vars
             PROVE  Flow!Next \/ FlowStutter
  OBVIOUS
<1>1. Grasps /\ Grasps'
  BY DEF GraspInv
<1>2. CASE UNCHANGED lists
  BY <1>2 DEF lists, FlowStutter, Pipe
<1>3. CASE ~UNCHANGED lists
  <2>1. \/ GraspLoop \/ PostCandidate \/ RetrieveSolution \/ UpdateSolutionList
        \/ ClearBuffers \/ ResetSearch \/ DeleteJoined \/ PopCandidate \/ TestGrasp
    BY <1>3 DEF Next, User, MainStep, Tester, StartPlanner, PausePlanner,
                SetModelState, ResetPlanner, DeleteStop, Manage, PostingDone,
                PauseSearch, TesterLoop, TesterExit, vars, lists
  <2>2. GraspLoop \/ PostCandidate \/ RetrieveSolution => Flow!Next
    BY <1>1, FlowGraspLoop, FlowPost, FlowRetrieve DEF Flow!Next
  <2>3. UpdateSolutionList \/ ClearBuffers \/ ResetSearch \/ DeleteJoined => Flow!Next
    BY <1>1, FlowUpdate, FlowClear, FlowReset, FlowDelete
  <2>4. PopCandidate \/ TestGrasp => Flow!Next \/ FlowStutter
    BY <1>1, FlowPop, FlowTest
  <2> QED BY <2>1, <2>2, <2>3, <2>4
<1> QED BY <1>2, <1>3

(* The two threads and their shared lists implement GraspFlow: grasps are  *)
(* found once, handed over once, tested and collected in the order they    *)
(* were handed over, and none comes back that was deleted.                 *)
THEOREM KeepsFlow == Spec => ImplementsFlow
<1>1. GraspInv /\ GraspInv' /\ [Next]_vars =>
        [Flow!Next]_<<Len(born), ToSet(candidates), Pipe, ToSet(best)>>
  BY FlowNext DEF FlowStutter
<1>2. GraspInv /\ GraspInv' /\ [Next]_vars =>
        [Flow!Next]_<<Len(born), ToSet(candidates),
                      solutions \o SetToSeq(testing) \o queue, ToSet(best)>>
  BY <1>1 DEF Pipe
<1> QED BY GraspInit, GraspNext, FlowInit, <1>2, PTL
           DEF Spec, ImplementsFlow, Flow!Spec
=============================================================================
