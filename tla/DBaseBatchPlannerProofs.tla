----------------------- MODULE DBaseBatchPlannerProofs -----------------------
(***************************************************************************)
(* Proofs about GuidedPlanner and its users for every set of states,       *)
(* energies and distances and every size of the lists: no child is left    *)
(* behind, no two children get seeds near each other, and no result of a   *)
(* child is lost.                                                          *)
(***************************************************************************)
EXTENDS DBaseBatchPlanner, SolutionListsProofs, TLAPS

ChildRecord == [seed : Solution, best : Solution \cup {None}, phase : Phase]
Entry == [kind : {"pre-grasp", "final"}, of : Solution]

-----------------------------------------------------------------------------
(* The parts of the inductive invariant.                                   *)

(* Where a call is says whether the planner runs; the children are gone    *)
(* when a call that ends the run has returned.                             *)
Control ==
  /\ main \in {"check", "stopChildren", "pause"} => state = "RUNNING"
  /\ main = "pauseChildren" => state = "READY"
  /\ main = "idle" /\ state # "RUNNING" => children = <<>>

(* Seeds that wait are near no other and near none that was handed to a    *)
(* child, which is why those are put in mAvoidList.                        *)
SeedsDiffer ==
  /\ Apart(seeds) /\ Apart(sent)
  /\ \A s \in InList(sent), t \in InList(seeds) : ~Near(s, t)
  /\ main # "deleted" => InList(sent) \subseteq avoid

(* Pre-grasps and final grasps come in pairs, of states of a set.          *)
PairsIn(list, states) ==
  /\ list \in Seq(Entry) /\ Len(list) % 2 = 0
  /\ \A i \in DOMAIN list :
       /\ list[i].of \in states
       /\ list[i].kind = (IF i % 2 = 1 THEN "pre-grasp" ELSE "final")
       /\ i % 2 = 0 => list[i].of = list[i - 1].of

(* Where a call is, and the signal, say what has become of the file.       *)
FileInStep ==
  /\ ~batch => file = "open" /\ written = <<>>
  /\ signal = "update" => state = "RUNNING" /\ main \in {"idle", "check"}
  /\ signal = "complete" => main \in {"idle", "pauseChildren"}
  /\ state = "INIT" => main \in {"idle", "deleted"} /\ written = <<>>
  /\ batch =>
       /\ repeat
       /\ main \in {"stopChildren", "pause", "pauseChildren"} =>
            call = "stop" /\ limit
       /\ main = "idle" /\ signal = "complete" =>
            state = "DONE" /\ file = "closed"
       /\ main = "idle" /\ signal # "complete" =>
            file = (IF state = "DONE" THEN "misused" ELSE "open")
       /\ main \in {"check", "stopChildren", "pause"} => file = "open"
       /\ main = "pauseChildren" =>
            file = (IF signal = "none" THEN "closed" ELSE "open")
       /\ main = "deleted" => file = "misused"

(* What the second complete() loses was collected after the first.         *)
FoundKept ==
  /\ main # "deleted" => found = written \o (lost \o best)
  /\ file # "misused" => lost = <<>>
  /\ Len(lost) <= 2 * MaxChildren
  /\ file = "closed" => Len(best) <= 2 * MaxChildren
  /\ file = "closed" /\ main = "pauseChildren" => best = <<>>

ModesOK ==
  /\ state \in {"INIT", "READY", "RUNNING", "DONE"}
  /\ main \in {"idle", "check", "stopChildren", "pause", "pauseChildren",
               "deleted"}
  /\ call \in {"none", "pause", "stop"} /\ limit \in BOOLEAN
  /\ signal \in {"none", "update", "complete"}
  /\ file \in {"open", "closed", "misused"}
  /\ batch \in BOOLEAN /\ repeat \in BOOLEAN /\ timed \in BOOLEAN

SeedsOK ==
  /\ seeds \in Seq(Solution) /\ Len(seeds) <= ChildSeedSize
  /\ avoid \subseteq Solution /\ sent \in Seq(Solution)
ChildrenOK ==
  children \in Seq(ChildRecord) /\ Len(children) <= MaxChildren
ResultsOK ==
  /\ best \in Seq(Entry) /\ found \in Seq(Entry)
  /\ written \in Seq(Entry) /\ lost \in Seq(Entry)

(* The inductive invariant, by the variables its parts are about.          *)
Modes == ModesOK /\ FileInStep
Seeding == SeedsOK /\ SeedsDiffer
Brood == ChildrenOK /\ Control
Kept == ResultsOK /\ PairsIn(best, avoid) /\ FoundKept
IInv == Modes /\ Seeding /\ Brood /\ Kept

-----------------------------------------------------------------------------
(* Lists of children and their results.                                    *)

LEMMA Constants ==
  /\ MaxChildren \in Nat \ {0} /\ ChildSeedSize \in Nat \ {0}
  /\ MaxChildren \in Nat /\ ChildSeedSize \in Nat
  /\ ChildSolution \subseteq Solution /\ None \notin Solution
  /\ \A s, t \in Solution : Near(s, t) <=> Near(t, s)
  BY GuidedConstants

(* The children that are left are some of those there were.                *)
LEMMA RunningIsPart ==
  ASSUME NEW list \in Seq(ChildRecord)
  PROVE  /\ Running(list) \in Seq(ChildRecord)
         /\ Len(Running(list)) <= Len(list)
         /\ (\A i \in DOMAIN list : list[i].phase = "exited")
              => Running(list) = <<>>
<1> DEFINE keep == {i \in DOMAIN list : list[i].phase = "running"}
<1>1. keep \in SUBSET (DOMAIN list)
  OBVIOUS
<1>2. Running(list) = Subsequence(list, keep)
  BY DEF Running
<1>3. /\ Running(list) \in Seq(ChildRecord)
      /\ Len(Running(list)) <= Len(list)
      /\ Len(Running(list)) = Cardinality(keep)
  BY <1>1, <1>2, SubsequenceOrdered
<1>4. ASSUME \A i \in DOMAIN list : list[i].phase = "exited"
      PROVE  Running(list) = <<>>
  <2>1. keep = {}
    BY <1>4
  <2>2. Len(Running(list)) = 0
    BY <1>3, <2>1, FS_EmptySet
  <2> QED BY <1>3, <2>2, EmptySeq
<1> QED BY <1>3, <1>4

(* The results of the children that have one.                              *)
LEMMA ResultsAre ==
  ASSUME NEW list \in Seq(ChildRecord)
  PROVE  /\ Results(Stopped(list)) \in Seq(Solution)
         /\ Len(Results(Stopped(list))) <= Len(list)
<1> DEFINE stopped == Stopped(list)
           keep == {i \in DOMAIN stopped : stopped[i].best # None}
           with == Subsequence(stopped, keep)
<1>1. stopped \in Seq(ChildRecord) /\ Len(stopped) <= Len(list)
  BY SubsequenceOrdered DEF Stopped
<1> HIDE DEF stopped
<1>2. keep \in SUBSET (DOMAIN stopped)
  OBVIOUS
<1>3. /\ with \in Seq(ChildRecord) /\ InList(with) = {stopped[i] : i \in keep}
      /\ Len(with) <= Len(stopped)
  BY <1>1, <1>2, SubsequenceOrdered
<1>4. ASSUME NEW i \in DOMAIN with
      PROVE  with[i].best \in Solution
  <2>1. with[i] \in InList(with)
    BY DEF InList
  <2>2. PICK j \in keep : with[i] = stopped[j]
    BY <1>3, <2>1
  <2>3. stopped[j] \in ChildRecord /\ stopped[j].best # None
    BY <1>1, <2>2
  <2>4. stopped[j].best \in Solution
    BY <2>3 DEF ChildRecord
  <2> QED BY <2>2, <2>4
<1>5. Results(stopped) = [i \in DOMAIN with |-> with[i].best]
  BY DEF Results
<1> HIDE DEF with
<1>6. DOMAIN with = 1..Len(with) /\ Len(with) \in Nat
  BY <1>3
<1>7. Results(stopped) \in [1..Len(with) -> Solution]
  BY <1>4, <1>5, <1>6
<1>8. Results(stopped) \in Seq(Solution)
  BY <1>6, <1>7
<1>9. Len(Results(stopped)) = Len(with)
  BY <1>5, <1>6, <1>7, <1>8
<1> QED BY <1>1, <1>3, <1>6, <1>8, <1>9 DEF stopped

(* They become pairs of pre-grasps and final grasps.                       *)
LEMMA PairsArePairs ==
  ASSUME NEW results \in Seq(Solution)
  PROVE  PairsIn(Pairs(results), InList(results))
<1> DEFINE n == Len(results)
           pairs == Pairs(results)
<1>1. n \in Nat /\ 2 * n \in Nat /\ DOMAIN results = 1..n
  OBVIOUS
<1> HIDE DEF n
<1>2. ASSUME NEW i \in 1..2 * n
      PROVE  /\ (i + 1) \div 2 \in 1..n
             /\ i % 2 = 0 \/ i % 2 = 1
             /\ i % 2 = 0 =>
                  i - 1 \in 1..2 * n /\ (i - 1) % 2 = 1 /\ (i - 1 + 1) \div 2 = (i + 1) \div 2
  BY <1>1
<1>3. ASSUME NEW i \in 1..2 * n
      PROVE  pairs[i] = Pair(results[(i + 1) \div 2])[IF i % 2 = 1 THEN 1 ELSE 2]
  BY DEF Pairs, n
<1>4. ASSUME NEW i \in 1..2 * n
      PROVE  /\ pairs[i] \in Entry /\ pairs[i].of = results[(i + 1) \div 2]
             /\ pairs[i].of \in InList(results)
             /\ pairs[i].kind = (IF i % 2 = 1 THEN "pre-grasp" ELSE "final")
  <2>1. results[(i + 1) \div 2] \in Solution /\ results[(i + 1) \div 2] \in InList(results)
    BY <1>1, <1>2 DEF InList
  <2> DEFINE s == results[(i + 1) \div 2]
  <2> HIDE DEF s
  <2>2. Pair(s)[1] = [kind |-> "pre-grasp", of |-> s]
        /\ Pair(s)[2] = [kind |-> "final", of |-> s]
    BY DEF Pair
  <2>3. CASE i % 2 = 1
    BY <1>3, <2>1, <2>2, <2>3 DEF s, Entry
  <2>4. CASE i % 2 = 0
    BY <1>3, <2>1, <2>2, <2>4 DEF s, Entry
  <2> QED BY <1>2, <2>3, <2>4
<1>5. pairs = [i \in 1..2 * n |->
                 Pair(results[(i + 1) \div 2])[IF i % 2 = 1 THEN 1 ELSE 2]]
  BY DEF Pairs, n
<1>6. pairs \in Seq(Entry) /\ Len(pairs) = 2 * n /\ DOMAIN pairs = 1..2 * n
  <2>1. pairs \in [1..2 * n -> Entry]
    <3>1. DOMAIN pairs = 1..2 * n /\ pairs = [i \in 1..2 * n |-> pairs[i]]
      BY <1>5
    <3> HIDE DEF pairs
    <3> QED BY <1>4, <3>1
  <2> HIDE DEF pairs
  <2> QED BY <1>1, <2>1
<1> HIDE DEF pairs
<1>7. ASSUME NEW i \in 1..2 * n, i % 2 = 0
      PROVE  pairs[i].of = pairs[i - 1].of
  BY <1>2, <1>4, <1>7
<1>8. (2 * n) % 2 = 0
  BY <1>1
<1> QED BY <1>4, <1>6, <1>7, <1>8 DEF PairsIn, pairs

(* More pairs at the back.                                                 *)
LEMMA PairsAppended ==
  ASSUME NEW A, NEW B, NEW list, NEW more, PairsIn(list, A), PairsIn(more, B)
  PROVE  PairsIn(list \o more, A \cup B)
<1> DEFINE m == Len(list)
           k == Len(more)
           new == list \o more
<1>1. /\ list \in Seq(Entry) /\ more \in Seq(Entry) /\ m \in Nat /\ k \in Nat
      /\ m % 2 = 0 /\ k % 2 = 0 /\ DOMAIN list = 1..m /\ DOMAIN more = 1..k
  <2>1. list \in Seq(Entry) /\ Len(list) % 2 = 0
    BY DEF PairsIn
  <2>2. more \in Seq(Entry) /\ Len(more) % 2 = 0
    BY DEF PairsIn
  <2>3. m \in Nat /\ k \in Nat /\ DOMAIN list = 1..m /\ DOMAIN more = 1..k
    BY <2>1, <2>2
  <2> QED BY <2>1, <2>2, <2>3
<1>2. /\ new \in Seq(Entry) /\ Len(new) = m + k
      /\ \A i \in 1..m + k : new[i] = IF i <= m THEN list[i] ELSE more[i - m]
  BY <1>1, ConcatProperties
<1>3. DOMAIN new = 1..m + k
  BY <1>2
<1> HIDE DEF new, m, k
<1>4. (m + k) % 2 = 0
  BY <1>1
<1>5. ASSUME NEW i \in 1..m + k
      PROVE  /\ new[i].of \in A \cup B
             /\ new[i].kind = (IF i % 2 = 1 THEN "pre-grasp" ELSE "final")
             /\ i % 2 = 0 => new[i].of = new[i - 1].of
  <2>1. CASE i <= m
    <3>1. i \in 1..m /\ new[i] = list[i]
      BY <1>1, <1>2, <2>1
    <3>2. /\ list[i].of \in A
          /\ list[i].kind = (IF i % 2 = 1 THEN "pre-grasp" ELSE "final")
          /\ i % 2 = 0 => list[i].of = list[i - 1].of
      BY <1>1, <3>1 DEF PairsIn
    <3>3. i % 2 = 0 => new[i - 1] = list[i - 1]
      <4>1. i % 2 = 0 => i - 1 \in 1..m + k /\ i - 1 <= m
        BY <1>1, <2>1
      <4> QED BY <1>2, <4>1
    <3> QED BY <3>1, <3>2, <3>3
  <2>2. CASE ~(i <= m)
    <3> DEFINE j == i - m
    <3>1. j \in 1..k /\ j % 2 = i % 2 /\ (i % 2 = 0 => i - 1 - m = j - 1)
      BY <1>1, <2>2
    <3>2. new[i] = more[j]
      BY <1>2, <2>2
    <3>3. i % 2 = 0 => new[i - 1] = more[j - 1]
      <4>1. i % 2 = 0 => i - 1 \in 1..m + k /\ ~(i - 1 <= m)
        BY <1>1, <2>2
      <4> QED BY <1>2, <3>1, <4>1
    <3> HIDE DEF j
    <3>4. /\ more[j].of \in B
          /\ more[j].kind = (IF j % 2 = 1 THEN "pre-grasp" ELSE "final")
          /\ j % 2 = 0 => more[j].of = more[j - 1].of
      BY <1>1, <3>1 DEF PairsIn
    <3> QED BY <3>1, <3>2, <3>3, <3>4
  <2> QED BY <2>1, <2>2
<1> QED BY <1>2, <1>3, <1>4, <1>5 DEF PairsIn, new

-----------------------------------------------------------------------------
(* checkChildren()                                                         *)

(* It fires as many children as there is room and seeds for.               *)
LEMMA FiredFits ==
  ASSUME SeedsOK, ChildrenOK
  PROVE  /\ Fired \in Nat /\ Fired <= Len(seeds)
         /\ Len(Running(children)) + Fired <= MaxChildren
         /\ state # "RUNNING" => Fired = 0
<1> DEFINE busy == Len(Running(children))
<1>1. /\ busy \in Nat /\ busy <= MaxChildren /\ MaxChildren \in Nat
  <2>1. children \in Seq(ChildRecord) /\ Len(children) <= MaxChildren
    BY DEF ChildrenOK
  <2>2. Running(children) \in Seq(ChildRecord) /\ busy <= Len(children)
    BY <2>1, RunningIsPart
  <2>3. busy \in Nat /\ Len(children) \in Nat
    BY <2>1, <2>2
  <2> HIDE DEF busy
  <2> QED BY <2>1, <2>2, <2>3, Constants
<1>2. Len(seeds) \in Nat
  BY DEF SeedsOK
<1>3. Fired = IF state # "RUNNING" THEN 0
              ELSE IF MaxChildren - busy < Len(seeds) THEN MaxChildren - busy
              ELSE Len(seeds)
  BY DEF Fired
<1> HIDE DEF busy
<1> DEFINE waiting == Len(seeds)
<1>4. waiting \in Nat
  BY <1>2
<1>5. Fired = IF state # "RUNNING" THEN 0
              ELSE IF MaxChildren - busy < waiting THEN MaxChildren - busy
              ELSE waiting
  BY <1>3
<1> HIDE DEF waiting
<1>6. Fired \in Nat /\ Fired <= waiting /\ busy + Fired <= MaxChildren
  BY <1>1, <1>4, <1>5
<1> QED BY <1>5, <1>6 DEF waiting, busy

(* A new child for each seed that is used.                                 *)
LEMMA ChildrenFit ==
  ASSUME SeedsOK, ChildrenOK, CheckChildren
  PROVE  /\ ChildrenOK'
         /\ state # "RUNNING" /\ AllExited => children' = <<>>
<1> DEFINE used == SubSeq(seeds, 1, Fired)
           new == [i \in DOMAIN used |-> Child(used[i])]
           left == Running(children)
<1>1. /\ Fired \in Nat /\ Fired <= Len(seeds) /\ Len(left) + Fired <= MaxChildren
      /\ state # "RUNNING" => Fired = 0
  BY FiredFits
<1>2. children' = left \o new
  BY DEF CheckChildren
<1>3. seeds \in Seq(Solution) /\ Len(seeds) \in Nat
  BY DEF SeedsOK
<1>4. /\ left \in Seq(ChildRecord)
      /\ AllExited => left = <<>>
  BY RunningIsPart DEF ChildrenOK, AllExited
<1>5. used \in Seq(Solution) /\ Len(used) = Fired
  <2>1. CASE Fired = 0
    <3>1. used = <<>>
      BY <2>1
    <3> QED BY <2>1, <3>1
  <2>2. CASE Fired # 0
    BY <1>1, <1>3, <2>2, SubSeqProperties
  <2> QED BY <2>1, <2>2
<1> HIDE DEF used, left
<1>6. new \in Seq(ChildRecord) /\ Len(new) = Fired
  <2>1. DOMAIN used = 1..Fired /\ \A i \in 1..Fired : used[i] \in Solution
    BY <1>1, <1>5
  <2>2. \A s \in Solution : Child(s) \in ChildRecord
    BY DEF Child, ChildRecord, Phase
  <2>3. new = [i \in 1..Fired |-> Child(used[i])]
    BY <2>1
  <2>4. new \in [1..Fired -> ChildRecord]
    BY <2>1, <2>2, <2>3
  <2> HIDE DEF new
  <2> QED BY <1>1, <2>4
<1> HIDE DEF new
<1>7. left \o new \in Seq(ChildRecord) /\ Len(left \o new) = Len(left) + Fired
  BY <1>4, <1>6, ConcatProperties
<1>8. ChildrenOK'
  BY <1>1, <1>2, <1>7 DEF ChildrenOK
<1>9. ASSUME state # "RUNNING", AllExited
      PROVE  children' = <<>>
  <2>1. Fired = 0 /\ left = <<>>
    BY <1>1, <1>4, <1>9
  <2>2. Len(left \o new) = 0
    BY <1>7, <2>1
  <2> QED BY <1>2, <1>7, <2>2, EmptySeq
<1> QED BY <1>8, <1>9

(* The seeds that are used move from the front of the queue to the others. *)
LEMMA SeedsMove ==
  ASSUME Seeding, ChildrenOK, CheckChildren, main # "deleted"
  PROVE  Seeding'
<1> DEFINE used == SubSeq(seeds, 1, Fired)
           left == SubSeq(seeds, Fired + 1, Len(seeds))
           n == Len(seeds)
           k == Len(sent)
           f == Fired
<1>1. /\ seeds \in Seq(Solution) /\ n <= ChildSeedSize /\ n \in Nat
      /\ avoid \subseteq Solution /\ sent \in Seq(Solution) /\ k \in Nat
      /\ DOMAIN seeds = 1..n /\ DOMAIN sent = 1..k
  BY DEF Seeding, SeedsOK
<1>2. /\ Apart(seeds) /\ Apart(sent)
      /\ \A s \in InList(sent), t \in InList(seeds) : ~Near(s, t)
      /\ InList(sent) \subseteq avoid
  BY DEF Seeding, SeedsDiffer
<1>3. f \in Nat /\ f <= n
  BY FiredFits DEF Seeding
<1>4. /\ sent' = sent \o used /\ seeds' = left
      /\ avoid' = avoid \cup InList(Results(Stopped(children))) \cup InList(used)
  BY DEF CheckChildren
<1> HIDE DEF n, k, f
<1>5. /\ used \in Seq(Solution) /\ Len(used) = f
      /\ \A i \in 1..f : used[i] = seeds[i]
  <2>1. used = SubSeq(seeds, 1, f)
    BY DEF f
  <2> HIDE DEF used
  <2>2. CASE f = 0
    <3>1. used = <<>>
      BY <2>1, <2>2
    <3> QED BY <2>2, <3>1
  <2>3. CASE f # 0
    <3>1. 1 \in 1..n + 1 /\ f \in 1..n
      BY <1>1, <1>3, <2>3
    <3> QED BY <1>1, <1>3, <2>1, <3>1, SubSeqProperties DEF n
  <2> QED BY <2>2, <2>3
<1>6. /\ left \in Seq(Solution) /\ Len(left) = n - f
      /\ \A i \in 1..n - f : left[i] = seeds[i + f]
  <2>1. left = SubSeq(seeds, f + 1, n)
    BY DEF f, n
  <2> HIDE DEF left
  <2>2. CASE f = n
    <3>1. left = <<>>
      BY <1>1, <2>1, <2>2
    <3>2. n - f = 0 /\ 1..n - f = {}
      BY <1>1, <2>2
    <3> QED BY <3>1, <3>2
  <2>3. CASE f # n
    <3>1. f + 1 \in 1..n + 1 /\ n \in f..n /\ f + 1 <= n
      BY <1>1, <1>3, <2>3
    <3>2. /\ left \in Seq(Solution) /\ Len(left) = n - (f + 1) + 1
          /\ \A i \in 1..n - (f + 1) + 1 : left[i] = seeds[f + 1 + i - 1]
      BY <1>1, <1>3, <2>1, <3>1, SubSeqProperties DEF n
    <3>3. n - (f + 1) + 1 = n - f /\ \A i \in 1..n - f : f + 1 + i - 1 = i + f
      BY <1>1, <1>3
    <3> QED BY <3>2, <3>3
  <2> QED BY <2>2, <2>3
<1> HIDE DEF used, left
<1>7. DOMAIN used = 1..f /\ DOMAIN left = 1..n - f
  BY <1>1, <1>3, <1>5, <1>6
<1>8. /\ sent \o used \in Seq(Solution) /\ Len(sent \o used) = k + f
      /\ \A i \in 1..k + f :
           (sent \o used)[i] = IF i <= k THEN sent[i] ELSE used[i - k]
  BY <1>1, <1>5, ConcatProperties DEF k
<1> DEFINE more == sent \o used
<1>9. DOMAIN more = 1..k + f
  BY <1>8
<1> HIDE DEF more
<1>10. /\ more = sent' /\ more \in Seq(Solution)
       /\ \A i \in 1..k + f : more[i] = IF i <= k THEN sent[i] ELSE used[i - k]
  BY <1>4, <1>8 DEF more
<1>11. Apart(more)
  <2> SUFFICES ASSUME NEW i \in 1..k + f, NEW j \in 1..k + f, i # j
               PROVE  ~Near(more[i], more[j])
    BY <1>9 DEF Apart
  <2>1. CASE i <= k /\ j <= k
    <3>1. i \in DOMAIN sent /\ j \in DOMAIN sent
      BY <1>1, <2>1
    <3> QED BY <1>2, <1>10, <2>1, <3>1 DEF Apart
  <2>2. CASE i <= k /\ ~(j <= k)
    <3>1. i \in DOMAIN sent /\ j - k \in 1..f /\ j - k \in DOMAIN seeds
      BY <1>1, <1>3, <2>2
    <3>2. more[i] = sent[i] /\ more[j] = seeds[j - k]
      BY <1>5, <1>10, <2>2, <3>1
    <3>3. sent[i] \in InList(sent) /\ seeds[j - k] \in InList(seeds)
      BY <3>1 DEF InList
    <3> QED BY <1>2, <3>2, <3>3
  <2>3. CASE ~(i <= k) /\ j <= k
    <3>1. j \in DOMAIN sent /\ i - k \in 1..f /\ i - k \in DOMAIN seeds
      BY <1>1, <1>3, <2>3
    <3>2. more[j] = sent[j] /\ more[i] = seeds[i - k]
      BY <1>5, <1>10, <2>3, <3>1
    <3>3. sent[j] \in InList(sent) /\ seeds[i - k] \in InList(seeds)
      BY <3>1 DEF InList
    <3>4. sent[j] \in Solution /\ seeds[i - k] \in Solution
      BY <1>1, <3>1
    <3> QED BY <1>2, <3>2, <3>3, <3>4, Constants
  <2>4. CASE ~(i <= k) /\ ~(j <= k)
    <3>1. /\ i - k \in 1..f /\ j - k \in 1..f /\ i - k # j - k
          /\ i - k \in DOMAIN seeds /\ j - k \in DOMAIN seeds
      BY <1>1, <1>3, <2>4
    <3>2. more[i] = seeds[i - k] /\ more[j] = seeds[j - k]
      BY <1>5, <1>10, <2>4, <3>1
    <3> QED BY <1>2, <3>1, <3>2 DEF Apart
  <2> QED BY <2>1, <2>2, <2>3, <2>4
<1>12. Apart(left)
  <2> SUFFICES ASSUME NEW i \in 1..n - f, NEW j \in 1..n - f, i # j
               PROVE  ~Near(left[i], left[j])
    BY <1>7 DEF Apart
  <2>1. i + f \in DOMAIN seeds /\ j + f \in DOMAIN seeds /\ i + f # j + f
    BY <1>1, <1>3
  <2> QED BY <1>2, <1>6, <2>1 DEF Apart
<1>13. \A s \in InList(more), t \in InList(left) : ~Near(s, t)
  <2> SUFFICES ASSUME NEW i \in 1..k + f, NEW j \in 1..n - f
               PROVE  ~Near(more[i], left[j])
    BY <1>7, <1>9 DEF InList
  <2>1. /\ j + f \in DOMAIN seeds /\ left[j] = seeds[j + f]
        /\ seeds[j + f] \in InList(seeds)
    BY <1>1, <1>3, <1>6 DEF InList
  <2>2. CASE i <= k
    <3>1. i \in DOMAIN sent
      BY <1>1, <2>2
    <3>2. sent[i] \in InList(sent) /\ more[i] = sent[i]
      BY <1>10, <2>2, <3>1 DEF InList
    <3> QED BY <1>2, <2>1, <3>2
  <2>3. CASE ~(i <= k)
    <3>1. i - k \in 1..f /\ i - k \in DOMAIN seeds /\ i - k # j + f
      BY <1>1, <1>3, <2>3
    <3>2. more[i] = seeds[i - k]
      BY <1>5, <1>10, <2>3, <3>1
    <3> QED BY <1>2, <2>1, <3>1, <3>2 DEF Apart
  <2> QED BY <2>2, <2>3
<1>14. InList(more) \subseteq InList(sent) \cup InList(used)
  <2> SUFFICES ASSUME NEW i \in 1..k + f
               PROVE  more[i] \in InList(sent) \cup InList(used)
    BY <1>9 DEF InList
  <2>1. CASE i <= k
    <3>1. i \in DOMAIN sent
      BY <1>1, <2>1
    <3> QED BY <1>10, <2>1, <3>1 DEF InList
  <2>2. CASE ~(i <= k)
    <3>1. i - k \in DOMAIN used
      BY <1>1, <1>3, <1>7, <2>2
    <3> QED BY <1>10, <2>2, <3>1 DEF InList
  <2> QED BY <2>1, <2>2
<1>15. InList(more) \subseteq avoid'
  BY <1>2, <1>4, <1>14
<1>16. avoid' \subseteq Solution
  <2>1. Results(Stopped(children)) \in Seq(Solution)
    BY ResultsAre DEF ChildrenOK
  <2>2. InList(Results(Stopped(children))) \subseteq Solution
    BY <2>1 DEF InList
  <2>3. InList(used) \subseteq Solution
    BY <1>5 DEF InList
  <2> QED BY <1>1, <1>4, <2>2, <2>3
<1>17. Len(left) <= ChildSeedSize
  BY <1>1, <1>3, <1>6, Constants
<1>18. SeedsOK'
  BY <1>4, <1>6, <1>10, <1>16, <1>17 DEF SeedsOK
<1>19. SeedsDiffer'
  BY <1>4, <1>10, <1>11, <1>12, <1>13, <1>15 DEF SeedsDiffer
<1> QED BY <1>18, <1>19 DEF Seeding

(* Lists of results are joined in any order.                               *)
LEMMA Regrouped ==
  ASSUME NEW r \in Seq(Entry), NEW t \in Seq(Entry), NEW u \in Seq(Entry)
  PROVE  (r \o t) \o u = r \o (t \o u)
<1>1. /\ r \o t \in Seq(Entry) /\ Len(r \o t) = Len(r) + Len(t)
      /\ t \o u \in Seq(Entry) /\ Len(t \o u) = Len(t) + Len(u)
  BY ConcatProperties
<1>2. Len((r \o t) \o u) = Len(r \o (t \o u))
  OBVIOUS
<1> QED OBVIOUS

(* What the children found goes to the back, in pairs that are avoided.    *)
LEMMA ResultsJoin ==
  ASSUME Kept, ChildrenOK, CheckChildren, UNCHANGED <<file, written, lost>>,
         main # "deleted", main' # "pauseChildren",
         file = "closed" => main = "pauseChildren"
  PROVE  Kept'
<1> DEFINE results == Results(Stopped(children))
           more == Pairs(results)
<1>1. /\ best' = best \o more /\ found' = found \o more
      /\ avoid \cup InList(results) \subseteq avoid'
  BY DEF CheckChildren
<1>2. results \in Seq(Solution) /\ Len(results) <= MaxChildren
  BY ResultsAre, Constants DEF ChildrenOK
<1> HIDE DEF results
<1>3. PairsIn(more, InList(results)) /\ PairsIn(best, avoid)
  BY <1>2, PairsArePairs DEF Kept
<1>4. Len(more) <= 2 * MaxChildren
  BY <1>2, Constants DEF Pairs
<1> HIDE DEF more
<1>5. PairsIn(best', avoid \cup InList(results))
  BY <1>1, <1>3, PairsAppended
<1>6. PairsIn(best', avoid')
  BY <1>1, <1>5 DEF PairsIn
<1>7. /\ best \in Seq(Entry) /\ found \in Seq(Entry) /\ written \in Seq(Entry)
      /\ lost \in Seq(Entry) /\ more \in Seq(Entry)
  BY <1>3 DEF Kept, ResultsOK, PairsIn
<1>8. ResultsOK'
  BY <1>1, <1>7, ConcatProperties DEF ResultsOK
<1>9. found' = written' \o (lost' \o best')
  <2>1. found = written \o (lost \o best)
    BY DEF Kept, FoundKept
  <2>2. lost \o best \in Seq(Entry)
    BY <1>7, ConcatProperties
  <2>3. (written \o (lost \o best)) \o more = written \o ((lost \o best) \o more)
    BY <1>7, <2>2, Regrouped
  <2>4. (lost \o best) \o more = lost \o (best \o more)
    BY <1>7, Regrouped
  <2> QED BY <1>1, <2>1, <2>3, <2>4
<1>10. file = "closed" => Len(best') <= 2 * MaxChildren
  <2> SUFFICES ASSUME file = "closed" PROVE Len(best') <= 2 * MaxChildren
    OBVIOUS
  <2>1. best = <<>>
    BY DEF Kept, FoundKept
  <2>2. best' = more
    BY <1>1, <1>7, <2>1, ConcatEmptySeq
  <2> QED BY <1>4, <2>2
<1>11. FoundKept'
  BY <1>9, <1>10 DEF Kept, FoundKept
<1> QED BY <1>6, <1>8, <1>11 DEF Kept

-----------------------------------------------------------------------------
(* The steps.                                                              *)

LEMMA InvInit == Init => IInv
<1> SUFFICES ASSUME Init PROVE IInv
  OBVIOUS
<1> USE DEF Init, GuidedInit
<1>1. Modes
  BY DEF Modes, ModesOK, FileInStep
<1>2. Seeding
  BY EmptyHasNone, Constants DEF Seeding, SeedsOK, SeedsDiffer, Apart
<1>3. Brood
  BY Constants DEF Brood, ChildrenOK, Control
<1>4. Kept
  <2>1. <<>> \o (<<>> \o <<>>) = <<>>
    OBVIOUS
  <2> QED BY <2>1, Constants DEF Kept, ResultsOK, PairsIn, FoundKept
<1> QED BY <1>1, <1>2, <1>3, <1>4 DEF IInv

(* Parts that keep their variables.                                        *)
LEMMA SameSeeds ==
  ASSUME Seeding, UNCHANGED <<seeds, avoid, sent>>,
         main' = "deleted" \/ main # "deleted"
  PROVE  Seeding'
  BY DEF Seeding, SeedsOK, SeedsDiffer, Apart, InList

LEMMA SameResults ==
  ASSUME Kept, UNCHANGED <<avoid, best, found, file, written, lost>>,
         main = "deleted" => main' = "deleted",
         main' = "pauseChildren" => main = "pauseChildren" \/ file # "closed"
  PROVE  Kept'
  BY DEF Kept, ResultsOK, PairsIn, FoundKept

(* A child finds a better state, comes to its end or is stopped.           *)
LEMMA ChildSet ==
  ASSUME ChildrenOK, NEW i \in DOMAIN children, NEW c \in ChildRecord,
         children' = [children EXCEPT ![i] = c]
  PROVE  ChildrenOK' /\ children # <<>>
<1>1. children \in Seq(ChildRecord) /\ Len(children) <= MaxChildren
  BY DEF ChildrenOK
<1>2. children' \in Seq(ChildRecord) /\ Len(children') = Len(children)
  BY <1>1
<1> QED BY <1>1, <1>2 DEF ChildrenOK

LEMMA OneChild ==
  ASSUME ChildrenOK, NEW i \in DOMAIN children,
         \/ \E s \in ChildSolution : children' = [children EXCEPT ![i].best = s]
         \/ \E p \in Phase : children' = [children EXCEPT ![i].phase = p]
  PROVE  ChildrenOK' /\ children # <<>>
<1>1. children[i] \in ChildRecord
  BY DEF ChildrenOK
<1>2. CASE \E s \in ChildSolution : children' = [children EXCEPT ![i].best = s]
  <2>1. PICK s \in ChildSolution :
          children' = [children EXCEPT ![i] = [children[i] EXCEPT !.best = s]]
    BY <1>2
  <2>2. [children[i] EXCEPT !.best = s] \in ChildRecord
    BY <1>1, Constants DEF ChildRecord
  <2> QED BY <2>1, <2>2, ChildSet
<1>3. CASE \E p \in Phase : children' = [children EXCEPT ![i].phase = p]
  <2>1. PICK p \in Phase :
          children' = [children EXCEPT ![i] = [children[i] EXCEPT !.phase = p]]
    BY <1>3
  <2>2. [children[i] EXCEPT !.phase = p] \in ChildRecord
    BY <1>1 DEF ChildRecord
  <2> QED BY <2>1, <2>2, ChildSet
<1> QED BY <1>2, <1>3

LEMMA ChildSteps ==
  ASSUME IInv, ChildStep \/ StopChild, UNCHANGED output
  PROVE  IInv'
<1>1. UNCHANGED <<state, calling, repeat, timed, seeds, avoid, best, sent, found>>
  BY DEF ChildStep, ChildJump, ChildComplete, StopChild
<1>2. ChildrenOK' /\ children # <<>>
  <2>1. PICK i \in DOMAIN children :
         \/ \E s \in ChildSolution : children' = [children EXCEPT ![i].best = s]
         \/ \E p \in Phase : children' = [children EXCEPT ![i].phase = p]
    BY DEF ChildStep, ChildJump, ChildComplete, StopChild, Phase
  <2> QED BY <2>1, OneChild DEF IInv, Brood
<1>3. Modes'
  BY <1>1 DEF IInv, Modes, ModesOK, FileInStep, output, calling
<1>4. Brood'
  BY <1>1, <1>2 DEF IInv, Brood, Control, calling
<1>5. Seeding'
  BY <1>1, SameSeeds DEF IInv, calling
<1>6. Kept'
  BY <1>1, SameResults DEF IInv, calling, output
<1> QED BY <1>3, <1>4, <1>5, <1>6 DEF IInv

(* The search comes upon a state away from all that is avoided.            *)
LEMMA JumpStep ==
  ASSUME IInv, Jump, UNCHANGED output
  PROVE  IInv'
<1>1. PICK s \in Solution :
        /\ \A t \in avoid : ~Near(t, s)
        /\ seeds' \in Offers(seeds, s, ChildSeedSize, MinChildEnergy)
  BY DEF Jump, Legal
<1>2. /\ main = "idle" /\ state = "RUNNING"
      /\ UNCHANGED <<state, calling, repeat, timed, avoid, children, best, sent,
                     found>>
  BY DEF Jump, Idle, At
<1>3. /\ seeds \in Seq(Solution) /\ Len(seeds) <= ChildSeedSize
      /\ Apart(seeds) /\ Apart(sent)
      /\ \A u \in InList(sent), t \in InList(seeds) : ~Near(u, t)
      /\ InList(sent) \subseteq avoid
  BY <1>2 DEF IInv, Seeding, SeedsOK, SeedsDiffer
<1>4. /\ seeds' \in Seq(Solution) /\ Len(seeds') <= ChildSeedSize
      /\ Apart(seeds') /\ InList(seeds') \subseteq InList(seeds) \cup {s}
  BY <1>1, <1>3, Constants, OffersApart
<1>5. \A u \in InList(sent), t \in InList(seeds') : ~Near(u, t)
  BY <1>1, <1>3, <1>4
<1>6. Seeding'
  BY <1>2, <1>3, <1>4, <1>5
     DEF IInv, Seeding, SeedsOK, SeedsDiffer, Apart, InList, calling
<1>7. Modes'
  BY <1>2 DEF IInv, Modes, ModesOK, FileInStep, output, calling
<1>8. Brood'
  BY <1>2 DEF IInv, Brood, ChildrenOK, Control, calling
<1>9. Kept'
  BY <1>2, SameResults DEF IInv, calling, output
<1> QED BY <1>6, <1>7, <1>8, <1>9 DEF IInv

(* Steps that only move a call on.                                         *)
LEMMA CallMoves ==
  ASSUME IInv, UNCHANGED output,
         \/ Update \/ StepsRepeat \/ Terminate
         \/ StartPlanner \/ (UserPause /\ ~batch) \/ PausePlanner
  PROVE  IInv'
<1>1. UNCHANGED lists
  BY DEF Update, StepsRepeat, Terminate, StartPlanner, UserPause, PausePlanner
<1>2. main # "deleted" /\ (main = "idle" \/ main = "pause")
  BY DEF Update, StepsRepeat, Terminate, StartPlanner, UserPause, PausePlanner,
         Idle, At
<1>3. Seeding'
  BY <1>1, <1>2, SameSeeds DEF IInv, lists
<1>4. Kept'
  <2>1. main' = "pauseChildren" => file # "closed"
    BY <1>2 DEF Update, StepsRepeat, Terminate, StartPlanner, UserPause,
                PausePlanner, IInv, Modes, FileInStep, calling, Idle, At
  <2> QED BY <1>1, <1>2, <2>1, SameResults DEF IInv, lists, output
<1>5. ChildrenOK'
  BY <1>1 DEF IInv, Brood, ChildrenOK, lists
<1> USE DEF IInv, Modes, ModesOK, FileInStep, output, Brood, Control, lists, calling,
            Idle, At
<1>6. CASE Update \/ StepsRepeat
  BY <1>1, <1>3, <1>4, <1>5, <1>6 DEF Update, StepsRepeat
<1>7. CASE Terminate
  BY <1>1, <1>3, <1>4, <1>5, <1>7 DEF Terminate
<1>8. CASE StartPlanner
  BY <1>1, <1>3, <1>4, <1>5, <1>8 DEF StartPlanner
<1>9. CASE UserPause /\ ~batch
  BY <1>1, <1>3, <1>4, <1>5, <1>9 DEF UserPause
<1>10. CASE PausePlanner
  BY <1>1, <1>3, <1>4, <1>5, <1>10 DEF PausePlanner
<1> QED BY <1>6, <1>7, <1>8, <1>9, <1>10

(* Steps that look after the children.                                     *)
LEMMA CheckSteps ==
  ASSUME IInv, UNCHANGED output,
         UpdateChildren \/ StopPlanner \/ PauseChildren
  PROVE  IInv'
<1>1. CheckChildren /\ main # "deleted"
  BY DEF UpdateChildren, StopPlanner, PauseChildren, At
<1>2. Seeding'
  BY <1>1, SeedsMove DEF IInv, Brood
<1>3. Kept'
  <2>1. main' # "pauseChildren" /\ (file = "closed" => main = "pauseChildren")
    BY DEF UpdateChildren, StopPlanner, PauseChildren, IInv, Modes, FileInStep, At
  <2> QED BY <1>1, <2>1, ResultsJoin DEF IInv, Brood, output
<1>4. /\ ChildrenOK'
      /\ state # "RUNNING" /\ AllExited => children' = <<>>
  BY <1>1, ChildrenFit DEF IInv, Seeding, Brood
<1>5. CASE UpdateChildren
  <2>1. /\ main = "check" /\ main' = "idle" /\ signal = "none"
        /\ UNCHANGED <<state, call, limit, signal, repeat, timed>>
    BY <1>5 DEF UpdateChildren, At
  <2>2. Modes'
    BY <2>1 DEF IInv, Modes, ModesOK, FileInStep, output, Brood, Control
  <2>3. Control'
    BY <2>1 DEF IInv, Brood, Control
  <2> QED BY <1>2, <1>3, <1>4, <2>2, <2>3 DEF IInv, Brood
<1>6. CASE StopPlanner
  <2>1. /\ main = "stopChildren" /\ main' = "pause" /\ signal = "none"
        /\ UNCHANGED <<state, call, limit, signal, repeat, timed>>
    BY <1>6 DEF StopPlanner, At
  <2>2. Modes'
    BY <2>1 DEF IInv, Modes, ModesOK, FileInStep, output, Brood, Control
  <2>3. Control'
    BY <2>1 DEF IInv, Brood, Control
  <2> QED BY <1>2, <1>3, <1>4, <2>2, <2>3 DEF IInv, Brood
<1>7. CASE PauseChildren
  <2>1. /\ main = "pauseChildren" /\ main' = "idle" /\ signal = "none"
        /\ AllExited
        /\ state' = (IF call = "stop" THEN "DONE" ELSE state)
        /\ signal' = (IF limit THEN "complete" ELSE "none")
        /\ call' = "none" /\ limit' = FALSE
        /\ UNCHANGED <<repeat, timed>>
    BY <1>7 DEF PauseChildren, At
  <2>2. state = "READY"
    BY <2>1 DEF IInv, Brood, Control
  <2>3. Modes'
    BY <2>1, <2>2 DEF IInv, Modes, ModesOK, FileInStep, output
  <2>4. Control'
    BY <1>4, <2>1, <2>2 DEF Control
  <2> QED BY <1>2, <1>3, <1>4, <2>3, <2>4 DEF IInv, Brood
<1> QED BY <1>5, <1>6, <1>7

(* resetPlanner() and delete.                                              *)
LEMMA ClearSteps ==
  ASSUME IInv,
         \/ /\ UNCHANGED output
            /\ \/ ResetPlanner /\ (batch => state = "INIT")
               \/ Delete /\ ~batch
         \/ Exit
  PROVE  IInv'
<1>1. /\ main = "idle" /\ signal = "none"
      /\ avoid' = {} /\ best' = <<>> /\ found' = <<>>
      /\ UNCHANGED <<children, batch, file, written, lost>>
      /\ \/ sent' = <<>> /\ seeds' = seeds
         \/ sent' = sent /\ seeds' = <<>> /\ main' = "deleted"
  BY DEF ResetPlanner, Delete, Exit, Idle, At, output
<1>2. Seeding'
  <2>1. SeedsOK'
    <3>1. seeds \in Seq(Solution) /\ Len(seeds) <= ChildSeedSize
          /\ sent \in Seq(Solution)
      BY DEF IInv, Seeding, SeedsOK
    <3>2. seeds' \in Seq(Solution) /\ Len(seeds') <= ChildSeedSize
          /\ sent' \in Seq(Solution)
      <4>1. <<>> \in Seq(Solution) /\ Len(<<>>) <= ChildSeedSize
        BY Constants
      <4> QED BY <1>1, <3>1, <4>1
    <3> QED BY <1>1, <3>2 DEF SeedsOK
  <2>2. SeedsDiffer'
    <3>1. CASE sent' = <<>> /\ seeds' = seeds
      <4>1. Apart(seeds') /\ Apart(sent') /\ InList(sent') = {}
        BY <3>1, EmptyHasNone DEF IInv, Seeding, SeedsDiffer, Apart
      <4> QED BY <4>1 DEF SeedsDiffer
    <3>2. CASE sent' = sent /\ seeds' = <<>> /\ main' = "deleted"
      <4>1. Apart(seeds') /\ Apart(sent') /\ InList(seeds') = {}
        BY <3>2, EmptyHasNone DEF IInv, Seeding, SeedsDiffer, Apart
      <4> QED BY <3>2, <4>1 DEF SeedsDiffer
    <3> QED BY <1>1, <3>1, <3>2
  <2> QED BY <2>1, <2>2 DEF Seeding
<1>3. PairsIn(best', avoid') /\ ResultsOK'
  BY <1>1 DEF IInv, Kept, ResultsOK, PairsIn
<1>4. Kept'
  <2>1. CASE ResetPlanner /\ (batch => state = "INIT")
    <3>1. written = <<>> /\ file = "open" /\ lost = <<>>
      BY <2>1 DEF ResetPlanner, IInv, Modes, FileInStep, Kept, FoundKept, Idle, At
    <3> QED BY <1>1, <1>3, <3>1, Constants DEF IInv, Kept, FoundKept
  <2>2. CASE (Delete /\ ~batch) \/ Exit
    <3>1. main' = "deleted"
      BY <2>2 DEF Delete, Exit
    <3> QED BY <1>1, <1>3, <3>1, Constants DEF IInv, Kept, FoundKept
  <2> QED BY <2>1, <2>2 DEF Exit
<1>6. ChildrenOK'
  BY <1>1 DEF IInv, Brood, ChildrenOK
<1>7. CASE ResetPlanner /\ (batch => state = "INIT")
  <2>1. /\ state \in {"INIT", "READY"} /\ state' = "READY"
        /\ UNCHANGED <<main, call, limit, signal, repeat, timed>>
    BY <1>7 DEF ResetPlanner, calling
  <2>2. Modes'
    BY <1>1, <1>7, <2>1 DEF IInv, Modes, ModesOK, FileInStep, output
  <2>3. Control'
    BY <1>1, <2>1 DEF IInv, Brood, Control
  <2> QED BY <1>2, <1>4, <1>6, <2>2, <2>3 DEF IInv, Brood
<1>8. CASE (Delete /\ ~batch) \/ Exit
  <2>1. /\ main' = "deleted" /\ (batch => file # "open")
        /\ UNCHANGED <<state, call, limit, signal, repeat, timed>>
    BY <1>8 DEF Delete, Exit
  <2>2. Modes'
    BY <1>1, <2>1 DEF IInv, Modes, ModesOK, FileInStep, output
  <2>3. Control'
    BY <2>1 DEF Control
  <2> QED BY <1>2, <1>4, <1>6, <2>2, <2>3 DEF IInv, Brood
<1> QED BY <1>7, <1>8

(* The slots: the dialog displays, the batch writes.                       *)
LEMMA SlotSteps ==
  ASSUME IInv, Slot PROVE IInv'
<1>1. /\ signal # "none" /\ signal' = "none"
      /\ UNCHANGED <<state, main, call, limit, repeat, timed, seeds, avoid,
                     children, sent, found, batch>>
  BY DEF Slot, DialogSlot, UpdateSlot, CompleteSlot, lists, output
<1>2. Seeding'
  BY <1>1, SameSeeds DEF IInv
<1>3. Brood'
  BY <1>1 DEF IInv, Brood, ChildrenOK, Control
<1>4. CASE DialogSlot
  <2>1. UNCHANGED <<best, file, written, lost>>
    BY <1>4 DEF DialogSlot, lists, output
  <2>2. Kept'
    BY <1>1, <2>1, SameResults DEF IInv
  <2>3. Modes'
    BY <1>1, <1>4, <2>1 DEF IInv, Modes, ModesOK, FileInStep, output, DialogSlot
  <2> QED BY <1>2, <1>3, <2>2, <2>3 DEF IInv
<1>5. CASE UpdateSlot \/ CompleteSlot
  <2>1. /\ batch /\ signal # "none"
        /\ written' = IF file = "open" THEN written \o best ELSE written
        /\ lost' = IF file = "open" THEN lost ELSE lost \o best
        /\ best' = <<>>
        /\ file' \in {file, "closed", "misused"}
        /\ file = "open" \/ file' = file \/ file' = "misused"
        /\ file' # "open" => file' = file \/ signal = "complete"
    BY <1>5 DEF UpdateSlot, CompleteSlot, PlannerUpdate
  <2>2. state # "INIT"
    <3>1. CASE UpdateSlot
      BY <3>1 DEF UpdateSlot, IInv, Modes, FileInStep
    <3>2. CASE CompleteSlot
      BY <3>2 DEF CompleteSlot, IInv, Modes, ModesOK, FileInStep
    <3> QED BY <1>5, <3>1, <3>2
  <2>3. Modes'
    <3>1. CASE UpdateSlot
      BY <1>1, <2>2, <3>1
         DEF UpdateSlot, IInv, Modes, ModesOK, FileInStep, Brood, Control
    <3>2. CASE CompleteSlot
      BY <1>1, <2>2, <3>2
         DEF CompleteSlot, IInv, Modes, ModesOK, FileInStep
    <3> QED BY <1>5, <3>1, <3>2
  <2>4. /\ best \in Seq(Entry) /\ written \in Seq(Entry)
        /\ found \in Seq(Entry) /\ lost \in Seq(Entry)
    BY DEF IInv, Kept, ResultsOK
  <2>5. written' \in Seq(Entry) /\ lost' \in Seq(Entry)
    BY <2>1, <2>4, ConcatProperties
  <2>6. ResultsOK' /\ PairsIn(best', avoid')
    BY <1>1, <2>1, <2>4, <2>5 DEF ResultsOK, PairsIn
  <2>7. file # "misused" /\ lost = <<>> /\ (file = "closed" => file' = "misused")
    <3>1. CASE UpdateSlot
      BY <2>1, <3>1 DEF UpdateSlot, IInv, Modes, ModesOK, FileInStep, Brood,
                        Control, Kept, FoundKept
    <3>2. CASE CompleteSlot
      BY <2>1, <3>2 DEF CompleteSlot, IInv, Modes, ModesOK, FileInStep, Kept,
                        FoundKept
    <3> QED BY <1>5, <3>1, <3>2
  <2>8. CASE main = "deleted"
    BY <1>1, <2>1, <2>8 DEF IInv, Modes, ModesOK, FileInStep
  <2>9. CASE main # "deleted" /\ file = "open"
    <3>1. found = written \o (lost \o best)
      BY <2>9 DEF IInv, Kept, FoundKept
    <3>2. found' = written' /\ lost' = <<>> /\ best' = <<>>
      BY <1>1, <2>1, <2>4, <2>7, <2>9, <3>1, ConcatEmptySeq
    <3>3. <<>> \o <<>> = <<>> /\ written' \o <<>> = written'
      BY <2>5, ConcatEmptySeq
    <3>4. FoundKept'
      BY <3>2, <3>3, Constants DEF FoundKept
    <3> QED BY <1>2, <1>3, <2>3, <2>6, <3>4 DEF IInv, Kept
  <2>10. CASE main # "deleted" /\ file = "closed"
    <3>1. found = written \o (lost \o best) /\ Len(best) <= 2 * MaxChildren
      BY <2>10 DEF IInv, Kept, FoundKept
    <3>2. /\ written' = written /\ lost' = best /\ lost' \o best' = best
          /\ file' = "misused" /\ found = written \o best
      BY <2>1, <2>4, <2>7, <2>10, <3>1, ConcatEmptySeq
    <3>3. FoundKept'
      BY <1>1, <3>1, <3>2 DEF FoundKept
    <3> QED BY <1>2, <1>3, <2>3, <2>6, <3>3 DEF IInv, Kept
  <2> QED BY <2>7, <2>8, <2>9, <2>10 DEF IInv, Modes, ModesOK
<1> QED BY <1>4, <1>5 DEF Slot

LEMMA InvNext == IInv /\ [Next]_vars => IInv'
<1> SUFFICES ASSUME IInv, [Next]_vars PROVE IInv'
  OBVIOUS
<1>1. CASE User
  BY <1>1, ClearSteps, CallMoves DEF User
<1>2. CASE Slot
  BY <1>2, SlotSteps
<1>3. CASE CallStep /\ UNCHANGED output
  BY <1>3, CheckSteps, ChildSteps, CallMoves DEF CallStep
<1>4. CASE Exit
  BY <1>4, ClearSteps
<1>5. CASE (Search \/ ChildStep) /\ UNCHANGED output
  BY <1>5, JumpStep, CallMoves, ChildSteps DEF Search
<1>6. CASE UNCHANGED vars
  <2>1. UNCHANGED <<state, calling, repeat, timed, lists, output>>
    BY <1>6 DEF vars, guided, calling, lists
  <2>2. Modes' /\ Brood'
    BY <2>1 DEF IInv, Modes, ModesOK, FileInStep, output, Brood, ChildrenOK,
                Control, calling, lists
  <2>3. Seeding' /\ Kept'
    BY <2>1, SameSeeds, SameResults DEF IInv, output, lists, calling
  <2> QED BY <2>2, <2>3 DEF IInv
<1> QED BY <1>1, <1>2, <1>3, <1>4, <1>5, <1>6 DEF Next, MainStep

-----------------------------------------------------------------------------

(* No call leaves a child behind, although stopPlanner() may fire new ones *)
(* on its way, and there are never more than mMaxChildren.                 *)
THEOREM NeverLeavesOrphans == Spec => []NoOrphans
<1>1. IInv => NoOrphans
  <2> SUFFICES ASSUME IInv PROVE NoOrphans
    OBVIOUS
  <2>1. TypeOK
    BY DEF IInv, Modes, ModesOK, Seeding, SeedsOK, Brood, ChildrenOK,
           ChildRecord, TypeOK
  <2> QED BY <2>1 DEF IInv, Brood, Control, NoOrphans, Idle, At
<1> QED BY <1>1, InvInit, InvNext, PTL DEF Spec

(* No two children since the last reset search around states near each     *)
(* other, whenever their seeds were found.                                 *)
THEOREM ChildrenAlwaysDiffer == Spec => []ChildrenDiffer
<1>1. IInv => ChildrenDiffer
  BY DEF IInv, Seeding, SeedsDiffer, Apart, ChildrenDiffer
<1> QED BY <1>1, InvInit, InvNext, PTL DEF Spec

(* What the children handed over is written once and in its order, or in   *)
(* mBestList, paired and avoided; all the batch ever loses is a pair for   *)
(* each child stopPlanner() collected after the first complete().          *)
THEOREM ResultsAlwaysKept == Spec => []ResultsKept
<1>1. IInv => ResultsKept
  BY DEF IInv, Kept, PairsIn, FoundKept, ResultsKept, SolutionsAvoided
<1> QED BY <1>1, InvInit, InvNext, PTL DEF Spec
=============================================================================
