-------------------------- MODULE GraspRankingProofs --------------------------
(***************************************************************************)
(* That capping each candidate at max_num_grasps before the pool is ranked *)
(* loses none of its best grasps: GraspAction's BestOfPool, for every pool.*)
(***************************************************************************)
EXTENDS GraspActionProofs

(* The numbers a candidate's grasps carry, up to n, all go to grasps as good as x. *)
Outranked(x, n, pool) ==
  \A j \in 1 .. n : \E y \in pool : y.num = j /\ Better(y, x)

(* A grasp the extraction left behind is outranked by as many as are asked for. *)
NothingLost ==
  \A g \in Goals :
    /\ IsFiniteSet(found[g])
    /\ ToSet(kept[g]) \subseteq found[g]
    /\ \A x \in found[g] \ ToSet(kept[g]) : Outranked(x, Limit[g], ToSet(kept[g]))

-----------------------------------------------------------------------------
(* A ranking. *)

LEMMA CountTo == \A n \in Nat : IsFiniteSet(1 .. n) /\ Cardinality(1 .. n) = n
<1> SUFFICES ASSUME NEW n \in Nat PROVE IsFiniteSet(1 .. n) /\ Cardinality(1 .. n) = n
  OBVIOUS
<1> QED
  BY FS_Interval

(* A ranking lists every grasp once, the better ones first. *)
LEMMA RankingOrder ==
  ASSUME NEW s \in Seq(Grasps), NEW r \in Rankings(s)
  PROVE  /\ IsFiniteSet(ToSet(s))
         /\ Len(r) \in Nat /\ DOMAIN r = 1 .. Len(r)
         /\ ToSet(r) = ToSet(s)
         /\ \A i, j \in 1 .. Len(r) : i # j => r[i] # r[j]
         /\ \A i, j \in 1 .. Len(r) : i <= j => Better(r[i], r[j])
<1> DEFINE pool == ToSet(s)
<1>1. r \in Seq(Grasps) /\ Len(r) = Cardinality(pool)
  BY RankingType
<1>2. Len(r) \in Nat /\ DOMAIN r = 1 .. Len(r)
  BY <1>1, LenProperties
<1>3. IsFiniteSet(pool)
  BY RankingType
<1>4. /\ r \in [1 .. Len(r) -> pool]
      /\ \A i, j \in 1 .. Len(r) : i # j => r[i] # r[j]
      /\ \A i, j \in 1 .. Len(r) : i <= j => Better(r[i], r[j])
  BY <1>1, <1>2 DEF Rankings, SetToSeqs
<1>5. r \in Injection(1 .. Len(r), pool)
  BY <1>4 DEF Injection, IsInjective
<1>6. IsFiniteSet(1 .. Len(r)) /\ Cardinality(1 .. Len(r)) = Len(r)
  BY <1>2, CountTo
<1>7. r \in Surjection(1 .. Len(r), pool)
  BY <1>1, <1>3, <1>5, <1>6, FS_Injection
<1>8. ToSet(r) = pool
  <2> HIDE DEF pool
  <2>1. \A i \in 1 .. Len(r) : r[i] \in pool
    BY <1>4
  <2>2. \A y \in pool : \E i \in 1 .. Len(r) : r[i] = y
    BY <1>7 DEF Surjection
  <2> QED
    BY <1>2, <2>1, <2>2 DEF ToSet
<1> QED
  BY <1>2, <1>3, <1>4, <1>8

(***************************************************************************)
(* A grasp outranked n times in the pool is no better than any of the      *)
(* first n of a ranking, which the pool is large enough for.               *)
(***************************************************************************)
LEMMA FirstAreBetter ==
  ASSUME NEW s \in Seq(Grasps), NEW r \in Rankings(s), NEW n \in Nat,
         NEW x \in Grasps, Outranked(x, n, ToSet(s))
  PROVE  n <= Len(r) /\ \A i \in 1 .. n : Better(r[i], x)
<1> DEFINE above == [j \in 1 .. n |-> CHOOSE y \in ToSet(s) : y.num = j /\ Better(y, x)]
<1>1. \A j \in 1 .. n : above[j] \in ToSet(s) /\ above[j].num = j /\ Better(above[j], x)
  BY DEF Outranked
<1>2. above \in [1 .. n -> ToSet(s)]
  BY <1>1
<1> HIDE DEF above
<1>3. IsFiniteSet(1 .. n) /\ Cardinality(1 .. n) = n
  BY CountTo
<1>4. n <= Len(r)
  <2>1. above \in Injection(1 .. n, ToSet(s))
    BY <1>1, <1>2 DEF Injection, IsInjective
  <2> QED
    BY <1>3, <2>1, RankingOrder, RankingType, FS_Injection
<1>5. ASSUME NEW i \in 1 .. n, ~Better(r[i], x) PROVE FALSE
  <2>1. /\ Len(r) \in Nat /\ ToSet(r) = ToSet(s) /\ DOMAIN r = 1 .. Len(r)
        /\ i \in 1 .. Len(r)
    BY <1>4, RankingOrder
  <2>2. \A y \in ToSet(s) : y \in Grasps /\ y.quality \in Nat
    <3>1. \A k \in DOMAIN s : s[k] \in Grasps
      BY LenProperties, ElementOfSeq
    <3>2. \A y \in Grasps : y.quality \in Nat
      BY PlannerAssumption DEF Grasps
    <3> QED
      BY <3>1, <3>2 DEF ToSet
  <2>3. x.quality \in Nat
    BY PlannerAssumption DEF Grasps
  <2>4. \A k \in 1 .. Len(r) : r[k] \in ToSet(s) /\ (i <= k => Better(r[i], r[k]))
    BY <2>1, RankingOrder DEF ToSet
  <2> DEFINE at == [j \in 1 .. n |-> CHOOSE k \in 1 .. Len(r) : r[k] = above[j]]
  <2>5. \A j \in 1 .. n : at[j] \in 1 .. Len(r) /\ r[at[j]] = above[j]
    <3>1. \A j \in 1 .. n : \E k \in 1 .. Len(r) : r[k] = above[j]
      BY <1>1, <2>1 DEF ToSet
    <3> QED
      BY <3>1
  <2> HIDE DEF at
  <2>6. \A j \in 1 .. n : at[j] \in 1 .. i - 1
    <3> SUFFICES ASSUME NEW j \in 1 .. n, i <= at[j] PROVE FALSE
      BY <2>1, <2>5
    <3>1. Better(r[i], above[j]) /\ Better(above[j], x)
      BY <1>1, <2>4, <2>5
    <3>2. r[i].quality \in Nat /\ above[j].quality \in Nat
      BY <1>1, <2>1, <2>2, <2>4
    <3> QED
      BY <1>5, <2>3, <3>1, <3>2 DEF Better
  <2>7. IsFiniteSet(1 .. i - 1) /\ Cardinality(1 .. i - 1) < n
    <3>1. i - 1 \in Nat /\ i - 1 < n
      OBVIOUS
    <3>2. IsFiniteSet(1 .. i - 1) /\ Cardinality(1 .. i - 1) = i - 1
      BY <3>1, CountTo
    <3> QED
      BY <3>1, <3>2
  <2> DEFINE place == [j \in 1 .. n |-> at[j]]
  <2>8. place \in [1 .. n -> 1 .. i - 1]
    BY <2>6
  <2>9. PICK j, k \in 1 .. n : j # k /\ place[j] = place[k]
    <3> HIDE DEF place
    <3> QED
      BY <1>3, <2>7, <2>8, FS_PigeonHole
  <2>10. above[j] = above[k]
    BY <2>5, <2>9
  <2> QED
    BY <1>1, <2>9, <2>10
<1> QED
  BY <1>4, <1>5

-----------------------------------------------------------------------------
(* The pool while the goal runs. *)

LEMMA LostInit == Init => NothingLost
<1>1. ToSet(<<>>) = {} /\ IsFiniteSet({})
  BY FS_EmptySet DEF ToSet
<1> QED
  BY <1>1 DEF Init, NothingLost

(* The extraction stops at Limit[g] solutions, the cheapest of them first. *)
LEMMA LostPlan ==
  ASSUME TypeInv, NothingLost, NEW g \in Goals, PlanCandidate(g)
  PROVE  NothingLost'
<1>1. PICK q \in Solutions :
        /\ kept' = [kept EXCEPT ![g] = @ \o [j \in 1 .. Kept(g, q) |-> GraspOf(g, q, j)]]
        /\ found' = [found EXCEPT ![g] = @ \cup {GraspOf(g, q, j) : j \in DOMAIN q}]
  BY DEF PlanCandidate
<1> DEFINE new == {GraspOf(g, q, j) : j \in DOMAIN q}
           newKept == {GraspOf(g, q, j) : j \in 1 .. Kept(g, q)}
<1>2. /\ kept \in [Goals -> Seq(Grasps)] /\ found \in [Goals -> SUBSET Grasps]
      /\ Limit[g] \in Nat \ {0}
  BY LimitType DEF TypeInv, TypeOK
<1>3. /\ q \in Seq(Qualities) /\ DOMAIN q = 1 .. Len(q) /\ Len(q) \in Nat
      /\ Kept(g, q) \in 1 .. Len(q)
      /\ \A i, j \in DOMAIN q : i <= j => q[i] >= q[j]
  BY SolutionType, LenProperties DEF Solutions
<1>4. ToSet(kept'[g]) = ToSet(kept[g]) \cup newKept
  BY <1>1, <1>2, SolutionType, ConcatGrasps
<1>5. found'[g] = found[g] \cup new
  BY <1>1, <1>2
<1>6. newKept \subseteq new
  BY <1>3
<1>7. IsFiniteSet(new)
  <2> DEFINE grasp == [j \in DOMAIN q |-> GraspOf(g, q, j)]
  <2>1. grasp \in Surjection(DOMAIN q, new)
    BY DEF Surjection
  <2>2. IsFiniteSet(DOMAIN q)
    BY <1>3, CountTo
  <2> QED
    BY <2>1, <2>2, FS_Surjection
<1>8. \A x \in new \ newKept : Outranked(x, Limit[g], newKept)
  <2> SUFFICES ASSUME NEW j \in DOMAIN q, GraspOf(g, q, j) \notin newKept,
                      NEW i \in 1 .. Limit[g]
               PROVE  \E y \in newKept : y.num = i /\ Better(y, GraspOf(g, q, j))
    BY DEF Outranked
  <2>1. j > Kept(g, q)
    BY <1>3
  <2>2. Kept(g, q) = Limit[g] /\ i < j
    BY <1>2, <1>3, <2>1 DEF Kept, Least
  <2>3. GraspOf(g, q, i) \in newKept /\ q[i] >= q[j]
    BY <1>2, <1>3, <2>2
  <2>4. GraspOf(g, q, i).num = i /\ Better(GraspOf(g, q, i), GraspOf(g, q, j))
    BY <2>3 DEF GraspOf, Better
  <2> QED
    BY <2>3, <2>4
<1> HIDE DEF new, newKept
<1>9. /\ IsFiniteSet(found'[g])
      /\ ToSet(kept'[g]) \subseteq found'[g]
      /\ \A x \in found'[g] \ ToSet(kept'[g]) : Outranked(x, Limit[g], ToSet(kept'[g]))
  <2>1. IsFiniteSet(found'[g])
    BY <1>5, <1>7, FS_Union DEF NothingLost
  <2>2. \A x, pool, more : Outranked(x, Limit[g], pool) => Outranked(x, Limit[g], pool \cup more)
    BY DEF Outranked
  <2>3. \A x \in found[g] \ ToSet(kept[g]) : Outranked(x, Limit[g], ToSet(kept'[g]))
    <3>1. \A x \in found[g] \ ToSet(kept[g]) : Outranked(x, Limit[g], ToSet(kept[g]))
      BY DEF NothingLost
    <3> QED
      BY <1>4, <2>2, <3>1
  <2>4. \A x \in new \ newKept : Outranked(x, Limit[g], ToSet(kept'[g]))
    <3>1. ToSet(kept'[g]) = newKept \cup ToSet(kept[g])
      BY <1>4
    <3> QED
      BY <1>8, <2>2, <3>1
  <2> QED
    <3>1. ToSet(kept'[g]) \subseteq found'[g]
      BY <1>4, <1>5, <1>6 DEF NothingLost
    <3>2. \A x \in found'[g] \ ToSet(kept'[g]) :
            x \in found[g] \ ToSet(kept[g]) \/ x \in new \ newKept
      BY <1>4, <1>5
    <3> QED
      BY <2>1, <2>3, <2>4, <3>1, <3>2
<1>10. \A h \in Goals \ {g} : kept'[h] = kept[h] /\ found'[h] = found[h]
  BY <1>1, <1>2
<1> QED
  BY <1>9, <1>10 DEF NothingLost

LEMMA LostStep == TypeInv /\ NothingLost /\ [Next]_vars => NothingLost'
<1> SUFFICES ASSUME TypeInv, NothingLost, [Next]_vars PROVE NothingLost'
  OBVIOUS
<1>1. CASE UNCHANGED <<kept, found>>
  BY <1>1 DEF NothingLost
<1>2. ASSUME NEW g \in Goals, Thread(g), ~PlanCandidate(g) PROVE UNCHANGED <<kept, found>>
  BY <1>2 DEF Thread, Synchronize, StopCanceled, NextCandidate, ResolveTarget, MeasureObject,
              MeasureFails, GetRobotModel, CheckModel, LockModel, LoadModel, LoadModelFails,
              AssignModel, ReturnModel, PlanFails, Rank, Go, Finish, CandidateFails
<1>3. CASE \A g \in Goals : ~PlanCandidate(g)
  BY <1>1, <1>2, <1>3 DEF Next, SceneChanges, BecomesReady, GoalRequest, CancelRequest, vars
<1> QED
  BY <1>3, LostPlan

-----------------------------------------------------------------------------
(* The result. *)

(* What BestOfPool says of one goal. *)
BestOf(g, ranked, pool) ==
  /\ \A i, j \in DOMAIN ranked : i < j => ranked[i] # ranked[j] /\ Better(ranked[i], ranked[j])
  /\ Len(ranked) = Least(Limit[g], Cardinality(pool))
  /\ \A x \in pool \ ToSet(ranked), y \in ToSet(ranked) : Better(y, x)

LEMMA CutIsBest ==
  ASSUME TypeInv, NothingLost, NEW g \in Goals, NEW r \in Rankings(kept[g])
  PROVE  BestOf(g, SubSeq(r, 1, Least(Limit[g], Len(r))), found[g])
<1> DEFINE n == Least(Limit[g], Len(r))
           cut == SubSeq(r, 1, n)
<1>1. /\ kept[g] \in Seq(Grasps) /\ r \in Seq(Grasps) /\ Limit[g] \in Nat \ {0}
      /\ found[g] \subseteq Grasps /\ Len(r) = Cardinality(ToSet(kept[g]))
  BY LimitType, RankingType DEF TypeInv, TypeOK
<1>2. /\ Len(r) \in Nat /\ DOMAIN r = 1 .. Len(r)
      /\ ToSet(r) = ToSet(kept[g])
      /\ \A i, j \in 1 .. Len(r) : i # j => r[i] # r[j]
      /\ \A i, j \in 1 .. Len(r) : i <= j => Better(r[i], r[j])
  BY <1>1, RankingOrder
<1>3. n \in 0 .. Len(r) /\ n <= Limit[g]
  BY <1>1, <1>2 DEF Least
<1>4. cut \in Seq(Grasps) /\ Len(cut) = n
  BY <1>1, CutType
<1>5. DOMAIN cut = 1 .. n /\ \A i \in 1 .. n : cut[i] = r[i]
  <2>1. \A i \in 1 .. n : r[i] \in Grasps
    BY <1>1, <1>2, <1>3, ElementOfSeq
  <2>2. \A i \in 1 .. n - 1 + 1 : cut[i] = r[1 + i - 1]
    <3> HIDE DEF n
    <3> QED
      BY <1>3, <2>1, SubSeqProperties
  <2> HIDE DEF n, cut
  <2> QED
    BY <1>3, <1>4, <2>2, LenProperties
<1> HIDE DEF cut
<1>6. \A x \in found[g] \ ToSet(kept[g]) :
        Limit[g] <= Len(r) /\ \A i \in 1 .. Limit[g] : Better(r[i], x)
  BY <1>1, FirstAreBetter DEF NothingLost
<1>7. Len(cut) = Least(Limit[g], Cardinality(found[g]))
  <2>1. ToSet(kept[g]) \subseteq found[g] /\ IsFiniteSet(found[g])
    BY DEF NothingLost
  <2>2. Cardinality(found[g]) \in Nat /\ Len(r) <= Cardinality(found[g])
    BY <1>1, <2>1, FS_Subset, FS_CardinalityType
  <2>3. CASE ToSet(kept[g]) = found[g]
    BY <1>1, <1>4, <2>3
  <2>4. CASE ToSet(kept[g]) # found[g]
    <3>1. Limit[g] <= Len(r)
      BY <1>6, <2>1, <2>4
    <3> QED
      BY <1>1, <1>2, <1>4, <2>2, <3>1 DEF Least
  <2> QED
    BY <2>3, <2>4
<1> HIDE DEF n
<1>8. \A x \in found[g] \ ToSet(cut), y \in ToSet(cut) : Better(y, x)
  <2> SUFFICES ASSUME NEW x \in found[g] \ ToSet(cut), NEW i \in 1 .. n PROVE Better(r[i], x)
    BY <1>5 DEF ToSet
  <2>1. CASE x \in ToSet(kept[g])
    <3>1. PICK k \in 1 .. Len(r) : r[k] = x
      BY <1>2, <2>1 DEF ToSet
    <3>2. k \notin 1 .. n
      BY <1>5, <3>1 DEF ToSet
    <3> QED
      BY <1>2, <1>3, <3>1, <3>2
  <2>2. CASE x \notin ToSet(kept[g])
    BY <1>1, <1>3, <1>6, <2>2
  <2> QED
    BY <2>1, <2>2
<1>9. \A i, j \in DOMAIN cut : i < j => cut[i] # cut[j] /\ Better(cut[i], cut[j])
  BY <1>2, <1>3, <1>5
<1> QED
  BY <1>7, <1>8, <1>9 DEF BestOf, cut, n

BestInv == TypeInv /\ ThreadMatchesStatus /\ NothingLost /\ BestOfPool

LEMMA BestInit == Init => BestOfPool
BY DEF Init, BestOfPool

(* A goal that has succeeded was just ranked, or keeps what it was given then. *)
LEMMA RankedStep ==
  ASSUME TypeInv, ThreadMatchesStatus, [Next]_vars, NEW g \in Goals, goal'[g] = "succeeded"
  PROVE  \/ goal[g] = "succeeded" /\ UNCHANGED <<result[g], found[g]>>
         \/ /\ found'[g] = found[g]
            /\ \E r \in Rankings(kept[g]) :
                 result'[g].grasps = SubSeq(r, 1, Least(Limit[g], Len(r)))
<1>1. /\ goal \in [Goals -> Statuses] /\ found \in [Goals -> SUBSET Grasps]
      /\ result \in [Goals -> [code : Codes, grasps : Seq(Grasps)]]
  BY DEF TypeInv, TypeOK, Statuses
<1>2. CASE Rank(g)
  <2>1. PICK r \in Rankings(kept[g]) :
          IF r = <<>> THEN Finish(g, "aborted", "PLANNING_FAILED", r)
          ELSE Finish(g, "succeeded", "SUCCESS", SubSeq(r, 1, Least(Limit[g], Len(r))))
    BY <1>2 DEF Rank
  <2>2. Finish(g, "succeeded", "SUCCESS", SubSeq(r, 1, Least(Limit[g], Len(r))))
    BY <1>1, <2>1 DEF Finish
  <2>3. result'[g].grasps = SubSeq(r, 1, Least(Limit[g], Len(r))) /\ found'[g] = found[g]
    BY <1>1, <2>2 DEF Finish
  <2> QED
    BY <2>3
<1>3. ASSUME NEW h \in Goals, Thread(h), ~(h = g /\ Rank(g))
      PROVE  goal[g] = "succeeded" /\ UNCHANGED <<result[g], found[g]>>
  <2>1. goal[g] = "succeeded"
    BY <1>1, <1>3 DEF Thread, Synchronize, StopCanceled, NextCandidate, ResolveTarget,
              MeasureObject, MeasureFails, GetRobotModel, CheckModel, LockModel, LoadModel,
              LoadModelFails, AssignModel, ReturnModel, PlanCandidate, PlanFails, Rank, Go,
              Finish, CandidateFails
  <2>2. pc[g] = "done"
    BY <2>1 DEF ThreadMatchesStatus, Running
  <2>3. h # g
    BY <1>3, <2>2 DEF Thread, Synchronize, StopCanceled, NextCandidate, ResolveTarget,
              MeasureObject, MeasureFails, GetRobotModel, CheckModel, LockModel, LoadModel,
              LoadModelFails, AssignModel, ReturnModel, PlanCandidate, PlanFails, Rank
  <2>4. UNCHANGED <<result[g], found[g]>>
    BY <1>1, <1>3, <2>3 DEF Thread, Synchronize, StopCanceled, NextCandidate, ResolveTarget,
              MeasureObject, MeasureFails, GetRobotModel, CheckModel, LockModel, LoadModel,
              LoadModelFails, AssignModel, ReturnModel, PlanCandidate, PlanFails, Rank, Go,
              Finish, CandidateFails
  <2> QED
    BY <2>1, <2>4
<1>4. ASSUME ~(\E h \in Goals : Thread(h))
      PROVE  goal[g] = "succeeded" /\ UNCHANGED <<result[g], found[g]>>
  BY <1>1, <1>4 DEF Next, SceneChanges, BecomesReady, GoalRequest, CancelRequest, vars
<1> QED
  BY <1>2, <1>3, <1>4

LEMMA BestStep == BestInv /\ [Next]_vars => BestOfPool'
<1> SUFFICES ASSUME BestInv, [Next]_vars, NEW g \in Goals, goal'[g] = "succeeded"
             PROVE  BestOf(g, result'[g].grasps, found'[g])
  BY DEF BestOfPool, BestOf
<1>1. CASE goal[g] = "succeeded" /\ UNCHANGED <<result[g], found[g]>>
  BY <1>1 DEF BestInv, BestOfPool, BestOf
<1>2. ASSUME NEW r \in Rankings(kept[g]), found'[g] = found[g],
             result'[g].grasps = SubSeq(r, 1, Least(Limit[g], Len(r)))
      PROVE  BestOf(g, result'[g].grasps, found'[g])
  BY <1>2, CutIsBest DEF BestInv
<1> QED
  BY <1>1, <1>2, RankedStep DEF BestInv

(***************************************************************************)
(* A goal that succeeds brings the best of all the grasps MTC found for    *)
(* its pool, best first, and as many of them as were asked for or exist.   *)
(***************************************************************************)
THEOREM ResultsAreBest == Spec => []BestOfPool
<1>1. Spec => [](TypeInv /\ ThreadMatchesStatus)
  BY InitType, NextType, StatusInit, ProtocolStep, PTL DEF Spec
<1>2. Spec => [](TypeInv /\ NothingLost)
  BY InitType, NextType, LostInit, LostStep, PTL DEF Spec
<1> QED
  BY <1>1, <1>2, BestInit, BestStep, PTL DEF Spec, BestInv

-----------------------------------------------------------------------------
(* The ids of the grasps. *)

(* Within a candidate no number is given twice. *)
NumbersDiffer ==
  \A g \in Goals : \A x, y \in ToSet(kept[g]) :
    x.candidate = y.candidate /\ x.num = y.num => x = y

LEMMA NumbersInit == Init => NumbersDiffer
BY DEF Init, NumbersDiffer, ToSet

(* The new grasps are the only ones of their candidate. *)
LEMMA NumbersPlan ==
  ASSUME TypeInv, CompletedHaveGrasps, NumbersDiffer, NEW g \in Goals, PlanCandidate(g)
  PROVE  NumbersDiffer'
<1>1. PICK q \in Solutions :
        kept' = [kept EXCEPT ![g] = @ \o [j \in 1 .. Kept(g, q) |-> GraspOf(g, q, j)]]
  BY DEF PlanCandidate
<1>2. kept \in [Goals -> Seq(Grasps)] /\ completed[g] \in Nat
  BY DEF TypeInv, TypeOK
<1> DEFINE new == {GraspOf(g, q, j) : j \in 1 .. Kept(g, q)}
<1>3. ToSet(kept'[g]) = ToSet(kept[g]) \cup new
  BY <1>1, <1>2, SolutionType, ConcatGrasps
<1>4. \A x \in new : x.candidate = completed[g] + 1
  BY DEF GraspOf
<1>5. \A x, y \in new : x.num = y.num => x = y
  BY DEF GraspOf
<1>6. \A x \in ToSet(kept[g]) : x.candidate # completed[g] + 1
  <2>1. \A x \in ToSet(kept[g]) : x.candidate \in 1 .. completed[g]
    BY DEF CompletedHaveGrasps
  <2> QED
    BY <1>2, <2>1
<1>7. \A h \in Goals \ {g} : kept'[h] = kept[h]
  BY <1>1, <1>2
<1> HIDE DEF new
<1> QED
  BY <1>3, <1>4, <1>5, <1>6, <1>7 DEF NumbersDiffer

LEMMA NumbersStep ==
  TypeInv /\ CompletedHaveGrasps /\ NumbersDiffer /\ [Next]_vars => NumbersDiffer'
<1> SUFFICES ASSUME TypeInv, CompletedHaveGrasps, NumbersDiffer, [Next]_vars PROVE NumbersDiffer'
  OBVIOUS
<1>1. CASE UNCHANGED kept
  BY <1>1 DEF NumbersDiffer
<1>2. ASSUME NEW g \in Goals, Thread(g), ~PlanCandidate(g) PROVE UNCHANGED kept
  BY <1>2 DEF Thread, Synchronize, StopCanceled, NextCandidate, ResolveTarget, MeasureObject,
              MeasureFails, GetRobotModel, CheckModel, LockModel, LoadModel, LoadModelFails,
              AssignModel, ReturnModel, PlanFails, Rank, Go, Finish, CandidateFails
<1>3. CASE \A g \in Goals : ~PlanCandidate(g)
  BY <1>1, <1>2, <1>3 DEF Next, SceneChanges, BecomesReady, GoalRequest, CancelRequest, vars
<1> QED
  BY <1>3, NumbersPlan

(* What GraspFramesAreDistinct says of one goal. *)
FramesDiffer(g, ranked) ==
  IsInjective([i \in DOMAIN ranked |-> <<Candidates[g][ranked[i].candidate], ranked[i].num>>])

LEMMA CutFramesDiffer ==
  ASSUME TypeInv, NothingLost, PoolInv, NumbersDiffer, NEW g \in Goals, NEW r \in Rankings(kept[g]),
         IsInjective(Candidates[g])
  PROVE  FramesDiffer(g, SubSeq(r, 1, Least(Limit[g], Len(r))))
<1> DEFINE cut == SubSeq(r, 1, Least(Limit[g], Len(r)))
<1>1. kept[g] \in Seq(Grasps)
  BY DEF TypeInv, TypeOK
<1>2. cut \in Seq(Grasps) /\ ToSet(cut) \subseteq ToSet(kept[g])
  BY <1>1, RankingType, CutType
<1>3. DOMAIN cut = 1 .. Len(cut) /\ Len(cut) \in Nat
  BY <1>2, LenProperties
<1>4. \A i, j \in DOMAIN cut : i < j => cut[i] # cut[j]
  BY CutIsBest DEF BestOf
<1> HIDE DEF cut
<1>5. \A i \in DOMAIN cut : cut[i] \in ToSet(kept[g]) /\ cut[i].candidate \in DOMAIN Candidates[g]
  BY <1>2 DEF ToSet, PoolInv, PoolMeant, GraspMeant
<1>6. ASSUME NEW i \in DOMAIN cut, NEW j \in DOMAIN cut,
             Candidates[g][cut[i].candidate] = Candidates[g][cut[j].candidate],
             cut[i].num = cut[j].num
      PROVE  i = j
  <2>1. cut[i].candidate = cut[j].candidate
    BY <1>5, <1>6 DEF IsInjective
  <2>2. cut[i] = cut[j]
    BY <1>5, <1>6, <2>1 DEF NumbersDiffer
  <2> QED
    BY <1>3, <1>4, <2>2
<1>7. FramesDiffer(g, cut)
  BY <1>6 DEF FramesDiffer, IsInjective
<1> QED
  BY <1>7 DEF cut

LEMMA FramesStep ==
  BestInv /\ PoolInv /\ NumbersDiffer /\ GraspFramesAreDistinct /\ [Next]_vars
    => GraspFramesAreDistinct'
<1> SUFFICES ASSUME BestInv, PoolInv, NumbersDiffer, GraspFramesAreDistinct, [Next]_vars,
                    NEW g \in Goals, goal'[g] = "succeeded", IsInjective(Candidates[g])
             PROVE  FramesDiffer(g, result'[g].grasps)
  BY DEF GraspFramesAreDistinct, FramesDiffer
<1>1. CASE goal[g] = "succeeded" /\ UNCHANGED result[g]
  BY <1>1 DEF GraspFramesAreDistinct, FramesDiffer
<1>2. ASSUME NEW r \in Rankings(kept[g]),
             result'[g].grasps = SubSeq(r, 1, Least(Limit[g], Len(r)))
      PROVE  FramesDiffer(g, result'[g].grasps)
  BY <1>2, CutFramesDiffer DEF BestInv
<1> QED
  BY <1>1, <1>2, RankedStep DEF BestInv

(***************************************************************************)
(* A frame called by its object and its grasp's id is one grasp's only, in *)
(* pools of any size, provided that the goal names each object once.       *)
(***************************************************************************)
THEOREM FramesAreDistinct == Spec => []GraspFramesAreDistinct
<1>1. Init => GraspFramesAreDistinct
  BY DEF Init, GraspFramesAreDistinct
<1>2. Spec => []BestInv
  <2>1. Spec => [](TypeInv /\ ThreadMatchesStatus)
    BY InitType, NextType, StatusInit, ProtocolStep, PTL DEF Spec
  <2>2. Spec => [](TypeInv /\ NothingLost)
    BY InitType, NextType, LostInit, LostStep, PTL DEF Spec
  <2> QED
    BY <2>1, <2>2, ResultsAreBest, PTL DEF BestInv
<1>3. PoolInv => CompletedHaveGrasps
  BY DEF PoolInv
<1>4. Spec => [](TypeInv /\ PoolInv /\ NumbersDiffer)
  BY <1>3, PoolCorrect, NumbersInit, NumbersStep, PTL DEF Spec
<1> QED
  BY <1>1, <1>2, <1>4, FramesStep, PTL DEF Spec
=============================================================================
