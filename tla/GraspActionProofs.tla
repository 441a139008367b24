--------------------------- MODULE GraspActionProofs ---------------------------
(***************************************************************************)
(* The safety properties of GraspAction, for any number of goals, objects, *)
(* candidates and grasps, and that the server keeps to the part of         *)
(* GoalLifecycle that fairness has no say in.                              *)
(***************************************************************************)
EXTENDS GraspAction, SequenceTheorems, FiniteSetTheorems, TLAPS

(* The lines at which the thread works on a candidate. *)
Planning == {"ids", "measure", "model", "lock", "load", "assign", "return", "plan"}

(* The thread only works on candidates the goal has. *)
PlanningInPool ==
  \A g \in Goals :
    /\ completed[g] <= Len(Candidates[g])
    /\ pc[g] \in Planning => completed[g] < Len(Candidates[g])

TypeInv == TypeOK /\ PlanningInPool

Statuses == {"unsent", "rejected", "executing", "canceling", "succeeded", "aborted", "canceled"}
Lines == {"none", "sync", "poll", "done"} \cup Planning

-----------------------------------------------------------------------------
(* Facts about the operators. *)

(* max_num_grasps asks for one grasp at least. *)
LEMMA LimitType == \A g \in Goals : Limit[g] \in Nat \ {0}
BY RequestsAssumption DEF Limit

(* A candidate that is not complete is one of the goal's. *)
LEMMA CandidateType ==
  ASSUME TypeInv, NEW g \in Goals, completed[g] < Len(Candidates[g])
  PROVE  /\ completed[g] + 1 \in DOMAIN Candidates[g]
         /\ Candidate(g) \in Names
<1>1. Candidates[g] \in Seq(Names) /\ completed[g] \in Nat
  BY RequestsAssumption DEF TypeInv, TypeOK
<1>2. completed[g] + 1 \in 1 .. Len(Candidates[g])
  BY <1>1, LenProperties
<1>3. Candidates[g][completed[g] + 1] \in Names
  BY <1>1, <1>2, ElementOfSeq
<1> QED
  BY <1>1, <1>2, <1>3, LenProperties DEF Candidate

(* A name resolves to itself, or to one of the objects it may stand for. *)
LEMMA ResolveMeaning ==
  ASSUME NEW name \in Names, NEW ids, NEW t \in ResolveTargetObjectId(name, ids)
  PROVE  t \in {name} \cup UNION ToSet(Matches[name])
BY DEF ResolveTargetObjectId, ToSet

(* An object the scene has under the very name is what the name resolves to. *)
LEMMA ExactResolves ==
  ASSUME NEW name \in Names, NEW ids, ids \subseteq Ids, name \in ids,
         NEW t \in ResolveTargetObjectId(name, ids)
  PROVE  t = name
<1> DEFINE hits == {i \in DOMAIN Matches[name] : Matches[name][i] \cap ids # {}}
           best == {i \in hits : \A j \in hits : i <= j}
<1>1. Matches[name] \in Seq(SUBSET Ids) /\ Matches[name] # <<>>
  BY ObjectsAssumption, ExactMatchAssumption
<1>2. DOMAIN Matches[name] = 1 .. Len(Matches[name]) /\ 1 \in DOMAIN Matches[name]
  BY <1>1, LenProperties, EmptySeq
<1>3. Matches[name][1] \cap ids = {name}
  BY ExactMatchAssumption
<1>4. best = {1}
  BY <1>2, <1>3
<1>5. ResolveTargetObjectId(name, ids) = UNION {Matches[name][i] \cap ids : i \in best}
  BY <1>2, <1>3 DEF ResolveTargetObjectId
<1> QED
  BY <1>3, <1>4, <1>5

LEMMA ResolveType ==
  ASSUME NEW name \in Names, NEW ids, NEW t \in ResolveTargetObjectId(name, ids)
  PROVE  t \in Targets
<1>1. Matches[name] \in Seq(SUBSET Ids)
  BY ObjectsAssumption
<1>2. \A i \in DOMAIN Matches[name] : Matches[name][i] \subseteq Ids
  BY <1>1, LenProperties, ElementOfSeq
<1> QED
  BY <1>2, ResolveMeaning DEF ToSet, Targets

(* A ranking is a sequence of the grasps it ranks, in which none is left out. *)
LEMMA RankingType ==
  ASSUME NEW s \in Seq(Grasps), NEW r \in Rankings(s)
  PROVE  /\ r \in Seq(Grasps)
         /\ ToSet(r) \subseteq ToSet(s)
         /\ Len(r) = Cardinality(ToSet(s))
         /\ IsFiniteSet(ToSet(s))
<1>1. IsFiniteSet(ToSet(s)) /\ Cardinality(ToSet(s)) \in Nat
  <2>1. DOMAIN s = 1 .. Len(s) /\ Len(s) \in Nat /\ s = [i \in DOMAIN s |-> s[i]]
    BY LenProperties
  <2>2. IsFiniteSet(DOMAIN s)
    BY <2>1, FS_Interval
  <2>3. s \in Surjection(DOMAIN s, ToSet(s))
    BY <2>1 DEF Surjection, ToSet
  <2> QED
    BY <2>2, <2>3, FS_Surjection, FS_CardinalityType
<1>2. ToSet(s) \subseteq Grasps
  <2>1. \A i \in DOMAIN s : s[i] \in Grasps
    BY LenProperties, ElementOfSeq
  <2> QED
    BY <2>1 DEF ToSet
<1>3. r \in [1 .. Cardinality(ToSet(s)) -> ToSet(s)]
  BY DEF Rankings, SetToSeqs
<1>4. DOMAIN r = 1 .. Cardinality(ToSet(s)) /\ \A i \in DOMAIN r : r[i] \in ToSet(s)
  BY <1>3
<1>5. r \in Seq(Grasps)
  BY <1>1, <1>2, <1>3
<1>6. Len(r) = Cardinality(ToSet(s))
  BY <1>1, <1>4, <1>5, LenProperties
<1>7. ToSet(r) \subseteq ToSet(s)
  BY <1>4 DEF ToSet
<1> QED
  BY <1>1, <1>5, <1>6, <1>7

(* Grasps added to those kept are kept too. *)
LEMMA ConcatGrasps ==
  ASSUME NEW s \in Seq(Grasps), NEW t \in Seq(Grasps)
  PROVE  /\ s \o t \in Seq(Grasps)
         /\ ToSet(s \o t) = ToSet(s) \cup ToSet(t)
<1>1. /\ s \o t \in Seq(Grasps)
      /\ Len(s \o t) = Len(s) + Len(t)
      /\ \A i \in 1 .. Len(s) + Len(t) :
           (s \o t)[i] = IF i <= Len(s) THEN s[i] ELSE t[i - Len(s)]
  BY ConcatProperties
<1>2. /\ DOMAIN (s \o t) = 1 .. Len(s) + Len(t)
      /\ DOMAIN s = 1 .. Len(s) /\ Len(s) \in Nat
      /\ DOMAIN t = 1 .. Len(t) /\ Len(t) \in Nat
  BY <1>1, LenProperties
<1>3. ToSet(s \o t) \subseteq ToSet(s) \cup ToSet(t)
  <2>1. ASSUME NEW i \in DOMAIN (s \o t) PROVE (s \o t)[i] \in ToSet(s) \cup ToSet(t)
    <3>1. CASE i <= Len(s)
      BY <1>1, <1>2, <3>1 DEF ToSet
    <3>2. CASE ~(i <= Len(s))
      <4>1. i - Len(s) \in DOMAIN t /\ (s \o t)[i] = t[i - Len(s)]
        BY <1>1, <1>2, <3>2
      <4> QED
        BY <4>1 DEF ToSet
    <3> QED
      BY <3>1, <3>2
  <2> QED
    BY <2>1 DEF ToSet
<1>4. ToSet(s) \subseteq ToSet(s \o t)
  <2>1. \A i \in DOMAIN s : i \in DOMAIN (s \o t) /\ (s \o t)[i] = s[i]
    BY <1>1, <1>2
  <2> QED
    BY <2>1 DEF ToSet
<1>5. ToSet(t) \subseteq ToSet(s \o t)
  <2>1. \A i \in DOMAIN t : i + Len(s) \in DOMAIN (s \o t) /\ (s \o t)[i + Len(s)] = t[i]
    BY <1>1, <1>2
  <2> QED
    BY <2>1 DEF ToSet
<1> QED
  BY <1>1, <1>3, <1>4, <1>5

(* The grasps a ranking is cut to are grasps it ranks, no more than are asked for. *)
LEMMA CutType ==
  ASSUME NEW s \in Seq(Grasps), NEW g \in Goals
  PROVE  LET cut == SubSeq(s, 1, Least(Limit[g], Len(s)))
         IN  /\ cut \in Seq(Grasps)
             /\ ToSet(cut) \subseteq ToSet(s)
             /\ Len(cut) = Least(Limit[g], Len(s))
<1> DEFINE n == Least(Limit[g], Len(s))
<1>1. n \in 0 .. Len(s)
  BY LimitType, LenProperties DEF Least
<1>2. DOMAIN s = 1 .. Len(s) /\ \A i \in 1 .. n : s[i] \in Grasps
  BY <1>1, LenProperties, ElementOfSeq
<1>3. /\ SubSeq(s, 1, n) \in Seq(Grasps)
      /\ Len(SubSeq(s, 1, n)) = n
      /\ \A i \in 1 .. n : SubSeq(s, 1, n)[i] = s[i]
  <2>1. /\ SubSeq(s, 1, n) \in Seq(Grasps)
        /\ Len(SubSeq(s, 1, n)) = IF 1 <= n THEN n - 1 + 1 ELSE 0
        /\ \A i \in 1 .. n - 1 + 1 : SubSeq(s, 1, n)[i] = s[1 + i - 1]
    <3> HIDE DEF n
    <3> QED
      BY <1>1, <1>2, SubSeqProperties
  <2> HIDE DEF n
  <2> QED
    BY <1>1, <2>1
<1>4. DOMAIN SubSeq(s, 1, n) = 1 .. n
  BY <1>3, LenProperties
<1>5. ToSet(SubSeq(s, 1, n)) \subseteq ToSet(s)
  <2> HIDE DEF n
  <2>1. \A i \in DOMAIN SubSeq(s, 1, n) : i \in DOMAIN s /\ SubSeq(s, 1, n)[i] = s[i]
    BY <1>1, <1>2, <1>3, <1>4
  <2> QED
    BY <2>1 DEF ToSet
<1> QED
  BY <1>3, <1>5

(* What PlanCandidate keeps and finds of MTC's solutions. *)
LEMMA SolutionType ==
  ASSUME TypeInv, NEW g \in Goals, NEW q \in Solutions
  PROVE  LET new == [j \in 1 .. Kept(g, q) |-> GraspOf(g, q, j)]
         IN  /\ q \in Seq(Qualities) /\ DOMAIN q = 1 .. Len(q)
             /\ Kept(g, q) \in 1 .. Len(q)
             /\ \A j \in DOMAIN q : GraspOf(g, q, j) \in Grasps
             /\ new \in Seq(Grasps)
             /\ ToSet(new) = {GraspOf(g, q, j) : j \in 1 .. Kept(g, q)}
<1>1. q \in Seq(Qualities) /\ q # <<>>
  BY DEF Solutions, BoundedSeq, SeqOf
<1>2. Len(q) \in Nat \ {0} /\ DOMAIN q = 1 .. Len(q)
  BY <1>1, LenProperties, EmptySeq
<1>3. Kept(g, q) \in 1 .. Len(q)
  BY <1>2, LimitType DEF Kept, Least
<1>4. \A j \in DOMAIN q : GraspOf(g, q, j) \in Grasps
  <2>1. completed[g] \in Nat /\ target[g] \in Targets
    BY DEF TypeInv, TypeOK
  <2>2. \A j \in DOMAIN q : q[j] \in Qualities
    BY <1>1, <1>2, ElementOfSeq
  <2> QED
    BY <1>2, <2>1, <2>2 DEF GraspOf, Grasps
<1> DEFINE new == [j \in 1 .. Kept(g, q) |-> GraspOf(g, q, j)]
<1>5. new \in [1 .. Kept(g, q) -> Grasps]
  <2>1. \A j \in 1 .. Kept(g, q) : j \in DOMAIN q
    BY <1>2, <1>3
  <2> QED
    BY <1>4, <2>1
<1>6. new \in Seq(Grasps)
  BY <1>2, <1>3, <1>5
<1>7. ToSet(new) = {GraspOf(g, q, j) : j \in 1 .. Kept(g, q)}
  BY DEF ToSet
<1> QED
  BY <1>1, <1>2, <1>3, <1>4, <1>6, <1>7

-----------------------------------------------------------------------------
(* Type correctness. *)

LEMMA InitType == Init => TypeInv
<1> SUFFICES ASSUME Init PROVE TypeInv
  OBVIOUS
<1>1. <<>> \in Seq(Grasps)
  BY EmptySeq
<1>2. NoName \in Targets
  BY RequestsAssumption DEF Targets
<1>3. TypeOK
  BY <1>1, <1>2 DEF Init, TypeOK, NoResult, Codes
<1>4. \A g \in Goals : Len(Candidates[g]) \in Nat
  BY RequestsAssumption, LenProperties
<1> QED
  BY <1>3, <1>4 DEF Init, TypeInv, PlanningInPool, Planning

(* The thread goes on to another line. *)
LEMMA GoType ==
  ASSUME TypeInv, NEW g \in Goals, NEW next \in Lines, Go(g, next),
         next \in Planning => completed[g] < Len(Candidates[g]),
         UNCHANGED sharedVars,
         robotModel' \in {"null", "writing", "loaded"}, modelLock' \in Goals \cup {NoGoal}
  PROVE  TypeInv'
<1>1. TypeOK'
  BY DEF TypeInv, TypeOK, Go, Lines, Planning, sharedVars
<1>2. PlanningInPool'
  BY DEF TypeInv, TypeOK, PlanningInPool, Go
<1> QED
  BY <1>1, <1>2 DEF TypeInv

(* The goal ends. *)
LEMMA FinishType ==
  ASSUME TypeInv, NEW g \in Goals, NEW status \in Statuses, NEW code \in Codes,
         NEW grasps \in Seq(Grasps), Finish(g, status, code, grasps),
         UNCHANGED <<sharedVars, modelVars>>
  PROVE  TypeInv'
<1>1. result' \in [Goals -> [code : Codes, grasps : Seq(Grasps)]]
  BY DEF TypeInv, TypeOK, Finish
<1>2. goal' \in [Goals -> Statuses]
  BY DEF TypeInv, TypeOK, Finish, Statuses
<1>3. TypeOK'
  BY <1>1, <1>2 DEF TypeInv, TypeOK, Finish, Statuses, sharedVars, modelVars
<1>4. PlanningInPool'
  BY DEF TypeInv, TypeOK, PlanningInPool, Finish, Planning
<1> QED
  BY <1>3, <1>4 DEF TypeInv

LEMMA FailsType ==
  ASSUME TypeInv, NEW g \in Goals, CandidateFails(g), UNCHANGED <<sharedVars, modelVars>>
  PROVE  TypeInv'
<1>1. kept[g] \in Seq(Grasps)
  BY DEF TypeInv, TypeOK
<1> QED
  BY <1>1, FinishType DEF CandidateFails, Statuses, Codes

(* What GetRobotModel does keeps the types. *)
LEMMA ModelType ==
  ASSUME TypeInv, NEW g \in Goals, GetRobotModel(g)
  PROVE  TypeInv'
<1> USE DEF modelVars, sharedVars
<1>0. pc[g] \in Planning => completed[g] < Len(Candidates[g])
  BY DEF TypeInv, PlanningInPool
<1>1. robotModel \in {"null", "writing", "loaded"} /\ modelLock \in Goals \cup {NoGoal}
  BY DEF TypeInv, TypeOK
<1>2. CASE CheckModel(g)
  <2>1. PICK seen \in ModelSeen : Go(g, IF seen = "loaded" THEN "plan" ELSE "lock")
    BY <1>2 DEF CheckModel
  <2> QED
    BY <1>0, <1>1, <1>2, <2>1, GoType DEF CheckModel, Lines, Planning
<1>3. CASE LockModel(g)
  BY <1>0, <1>1, <1>3, GoType DEF LockModel, Lines, Planning
<1>4. CASE LoadModel(g)
  BY <1>0, <1>1, <1>4, GoType DEF LoadModel, Lines, Planning
<1>5. CASE LoadModelFails(g)
  BY <1>0, <1>1, <1>5, GoType DEF LoadModelFails, Lines, Planning
<1>6. CASE AssignModel(g)
  BY <1>0, <1>1, <1>6, GoType DEF AssignModel, Lines, Planning
<1>7. CASE ReturnModel(g)
  <2>1. PICK seen \in ModelSeen : IF seen = "loaded" THEN Go(g, "plan") ELSE CandidateFails(g)
    BY <1>7 DEF ReturnModel
  <2>2. CASE seen = "loaded"
    BY <1>0, <1>1, <1>7, <2>1, <2>2, GoType DEF ReturnModel, Lines, Planning
  <2>3. CASE seen # "loaded"
    BY <1>7, <2>1, <2>3, FailsType DEF ReturnModel
  <2> QED
    BY <2>2, <2>3
<1> QED
  BY <1>2, <1>3, <1>4, <1>5, <1>6, <1>7 DEF GetRobotModel

(* What a goal's thread does keeps the types. *)
LEMMA ThreadType ==
  ASSUME TypeInv, NEW g \in Goals, Thread(g)
  PROVE  TypeInv'
<1> USE DEF modelVars, sharedVars
<1>0. /\ pc[g] \in Planning => completed[g] < Len(Candidates[g])
      /\ completed[g] \in Nat /\ Len(Candidates[g]) \in Nat
      /\ kept[g] \in Seq(Grasps)
  BY RequestsAssumption, LenProperties DEF TypeInv, TypeOK, PlanningInPool
<1>1. robotModel \in {"null", "writing", "loaded"} /\ modelLock \in Goals \cup {NoGoal}
  BY DEF TypeInv, TypeOK
<1>2. CASE Synchronize(g)
  BY <1>1, <1>2, GoType DEF Synchronize, Lines, Planning
<1>3. CASE StopCanceled(g)
  BY <1>0, <1>3, FinishType DEF StopCanceled, Statuses, Codes
<1>4. CASE NextCandidate(g)
  BY <1>1, <1>4, GoType DEF NextCandidate, Lines, Planning
<1>5. CASE ResolveTarget(g)
  <2>1. Candidate(g) \in Names
    BY <1>0, <1>5, CandidateType DEF ResolveTarget, Planning
  <2>2. PICK t \in ResolveTargetObjectId(Candidate(g), scene) \cup {Candidate(g)} :
          target' = [target EXCEPT ![g] = t]
    BY <1>5 DEF ResolveTarget
  <2>3. t \in Targets
    BY <2>1, <2>2, ResolveType DEF Targets
  <2>4. TypeOK'
    BY <1>5, <2>2, <2>3 DEF ResolveTarget, TypeInv, TypeOK
  <2>5. PlanningInPool'
    BY <1>0, <1>5 DEF ResolveTarget, TypeInv, TypeOK, PlanningInPool, Planning
  <2> QED
    BY <2>4, <2>5 DEF TypeInv
<1>6. CASE MeasureObject(g)
  BY <1>0, <1>1, <1>6, GoType DEF MeasureObject, Lines, Planning
<1>7. CASE MeasureFails(g)
  BY <1>7, FailsType DEF MeasureFails
<1>8. CASE GetRobotModel(g)
  BY <1>8, ModelType
<1>9. CASE PlanCandidate(g)
  <2>1. PICK q \in Solutions :
          /\ kept' = [kept EXCEPT ![g] = @ \o [j \in 1 .. Kept(g, q) |-> GraspOf(g, q, j)]]
          /\ found' = [found EXCEPT ![g] = @ \cup {GraspOf(g, q, j) : j \in DOMAIN q}]
    BY <1>9 DEF PlanCandidate
  <2>2. kept' \in [Goals -> Seq(Grasps)]
    BY <1>0, <2>1, SolutionType, ConcatGrasps DEF TypeInv, TypeOK
  <2>3. found' \in [Goals -> SUBSET Grasps]
    <3> DEFINE new == {GraspOf(g, q, j) : j \in DOMAIN q}
    <3>1. new \subseteq Grasps
      BY SolutionType
    <3>2. found' = [found EXCEPT ![g] = @ \cup new]
      BY <2>1
    <3> HIDE DEF new
    <3> QED
      BY <3>1, <3>2 DEF TypeInv, TypeOK
  <2>4. TypeOK'
    BY <1>9, <2>2, <2>3 DEF PlanCandidate, TypeInv, TypeOK
  <2>5. PlanningInPool'
    BY <1>0, <1>9 DEF PlanCandidate, TypeInv, TypeOK, PlanningInPool, Planning
  <2> QED
    BY <2>4, <2>5 DEF TypeInv
<1>10. CASE PlanFails(g)
  BY <1>10, FailsType DEF PlanFails
<1>11. CASE Rank(g)
  <2>1. PICK r \in Rankings(kept[g]) :
          IF r = <<>> THEN Finish(g, "aborted", "PLANNING_FAILED", r)
          ELSE Finish(g, "succeeded", "SUCCESS", SubSeq(r, 1, Least(Limit[g], Len(r))))
    BY <1>11 DEF Rank
  <2>2. r \in Seq(Grasps) /\ SubSeq(r, 1, Least(Limit[g], Len(r))) \in Seq(Grasps)
    BY <1>0, <2>1, RankingType, CutType
  <2>3. CASE r = <<>>
    BY <1>11, <2>1, <2>2, <2>3, FinishType DEF Rank, Statuses, Codes
  <2>4. CASE r # <<>>
    BY <1>11, <2>1, <2>2, <2>4, FinishType DEF Rank, Statuses, Codes
  <2> QED
    BY <2>3, <2>4
<1> QED
  BY <1>2, <1>3, <1>4, <1>5, <1>6, <1>7, <1>8, <1>9, <1>10, <1>11 DEF Thread

LEMMA NextType == TypeInv /\ [Next]_vars => TypeInv'
<1> SUFFICES ASSUME TypeInv, [Next]_vars PROVE TypeInv'
  OBVIOUS
<1> USE DEF modelVars, sharedVars
<1>1. ASSUME NEW S \in SUBSET Ids \ {scene}, SceneChanges(S) PROVE TypeInv'
  BY <1>1 DEF SceneChanges, TypeInv, TypeOK, PlanningInPool
<1>2. CASE BecomesReady
  BY <1>2 DEF BecomesReady, TypeInv, TypeOK, PlanningInPool
<1>3. ASSUME NEW g \in Goals, GoalRequest(g) PROVE TypeInv'
  <2>1. TypeOK'
    BY <1>3 DEF GoalRequest, TypeInv, TypeOK
  <2>2. PlanningInPool'
    BY <1>3 DEF GoalRequest, TypeInv, TypeOK, PlanningInPool, Planning
  <2> QED
    BY <2>1, <2>2 DEF TypeInv
<1>4. ASSUME NEW g \in Goals, CancelRequest(g) PROVE TypeInv'
  BY <1>4 DEF CancelRequest, TypeInv, TypeOK, PlanningInPool
<1>5. ASSUME NEW g \in Goals, Thread(g) PROVE TypeInv'
  BY <1>5, ThreadType
<1>6. CASE UNCHANGED vars
  BY <1>6 DEF vars, TypeInv, TypeOK, PlanningInPool
<1> QED
  BY <1>1, <1>2, <1>3, <1>4, <1>5, <1>6 DEF Next

LEMMA TypeInvCorrect == Spec => []TypeInv
BY InitType, NextType, PTL DEF Spec

(* Every variable of the action server stays in its set. *)
THEOREM TypeCorrect == Spec => []TypeOK
<1>1. TypeInv => TypeOK
  BY DEF TypeInv
<1> QED
  BY <1>1, TypeInvCorrect, PTL

-----------------------------------------------------------------------------
(* What the grasps say of the candidates they are for. *)

(* The ids a grasp for the i-th candidate of a goal may carry. *)
Meant(g, i) == {Candidates[g][i]} \cup UNION ToSet(Matches[Candidates[g][i]])

GraspMeant(g, x) ==
  x.candidate \in DOMAIN Candidates[g] /\ x.target \in Meant(g, x.candidate)

(* While a candidate is planned, the resolved id is one its name stands for. *)
TargetMeant ==
  \A g \in Goals : pc[g] \in Planning \ {"ids"} => target[g] \in Meant(g, completed[g] + 1)

PoolMeant ==
  \A g \in Goals : \A x \in ToSet(kept[g]) \cup ToSet(result[g].grasps) : GraspMeant(g, x)

PoolInv == CompletedHaveGrasps /\ TargetMeant /\ PoolMeant

LEMMA PoolInit == Init => PoolInv
<1> SUFFICES ASSUME Init PROVE PoolInv
  OBVIOUS
<1>1. ToSet(<<>>) = {}
  BY DEF ToSet
<1>2. \A g \in Goals : kept[g] = <<>> /\ result[g].grasps = <<>> /\ completed[g] = 0
  BY DEF Init, NoResult
<1> QED
  BY <1>1, <1>2 DEF Init, PoolInv, CompletedHaveGrasps, TargetMeant, PoolMeant, Planning

(* A step that ends a goal with grasps out of the pool. *)
LEMMA PoolFinish ==
  ASSUME TypeInv, PoolInv, NEW g \in Goals, NEW status, NEW code, NEW grasps,
         ToSet(grasps) \subseteq ToSet(kept[g]), Finish(g, status, code, grasps)
  PROVE  PoolInv'
<1> USE DEF Finish
<1>1. CompletedHaveGrasps'
  BY DEF PoolInv, CompletedHaveGrasps
<1>2. TargetMeant'
  BY DEF TypeInv, TypeOK, PoolInv, TargetMeant, Meant, Planning
<1>3. PoolMeant'
  <2>1. \A h \in Goals : result'[h].grasps = IF h = g THEN grasps ELSE result[h].grasps
    BY DEF TypeInv, TypeOK
  <2> QED
    BY <2>1 DEF PoolInv, PoolMeant, GraspMeant, Meant
<1> QED
  BY <1>1, <1>2, <1>3 DEF PoolInv

LEMMA PoolFails ==
  ASSUME TypeInv, PoolInv, NEW g \in Goals, CandidateFails(g)
  PROVE  PoolInv'
BY PoolFinish DEF CandidateFails

(* A step that goes on with the candidate or to the next one. *)
LEMMA PoolGo ==
  ASSUME TypeInv, PoolInv, NEW g \in Goals, NEW line,
         UNCHANGED <<completed, target, kept, result>>, pc' = [pc EXCEPT ![g] = line],
         line \in Planning \ {"ids"} => pc[g] \in Planning \ {"ids"}
  PROVE  PoolInv'
<1>1. TargetMeant'
  BY DEF TypeInv, TypeOK, PoolInv, TargetMeant, Meant
<1> QED
  BY <1>1 DEF PoolInv, CompletedHaveGrasps, PoolMeant, GraspMeant, Meant

(* A planned candidate adds its own grasps, one at least. *)
LEMMA PoolPlan ==
  ASSUME TypeInv, PoolInv, NEW g \in Goals, PlanCandidate(g)
  PROVE  PoolInv'
<1>1. PICK q \in Solutions :
        kept' = [kept EXCEPT ![g] = @ \o [j \in 1 .. Kept(g, q) |-> GraspOf(g, q, j)]]
  BY DEF PlanCandidate
<1>2. /\ kept \in [Goals -> Seq(Grasps)] /\ pc \in [Goals -> Lines]
      /\ completed \in [Goals -> Nat]
  BY DEF TypeInv, TypeOK, Lines, Planning
<1>3. completed[g] + 1 \in DOMAIN Candidates[g] /\ target[g] \in Meant(g, completed[g] + 1)
  BY CandidateType DEF PlanCandidate, TypeInv, PlanningInPool, PoolInv, TargetMeant, Planning
<1> DEFINE new == {GraspOf(g, q, j) : j \in 1 .. Kept(g, q)}
<1>4. ToSet(kept'[g]) = ToSet(kept[g]) \cup new
  BY <1>1, <1>2, SolutionType, ConcatGrasps
<1>5. /\ new # {}
      /\ \A x \in new : x.candidate = completed[g] + 1 /\ x.target = target[g]
  <2>1. 1 \in 1 .. Kept(g, q)
    <3>1. q \in Seq(Qualities) /\ Kept(g, q) \in 1 .. Len(q)
      BY SolutionType
    <3> QED
      BY <3>1, LenProperties
  <2>2. GraspOf(g, q, 1) \in new
    BY <2>1
  <2>3. \A j : /\ GraspOf(g, q, j).candidate = completed[g] + 1
               /\ GraspOf(g, q, j).target = target[g]
    BY DEF GraspOf
  <2> QED
    BY <2>2, <2>3
<1>6. \A h \in Goals \ {g} : kept'[h] = kept[h] /\ completed'[h] = completed[h] /\ pc'[h] = pc[h]
  BY <1>1, <1>2 DEF PlanCandidate
<1>7. completed'[g] = completed[g] + 1 /\ pc'[g] = "poll" /\ UNCHANGED <<target, result>>
  BY <1>2 DEF PlanCandidate
<1> HIDE DEF new
<1>8. CompletedHaveGrasps'
  <2>1. {x.candidate : x \in ToSet(kept'[g])} = {x.candidate : x \in ToSet(kept[g])} \cup {completed[g] + 1}
    BY <1>4, <1>5
  <2>2. {x.candidate : x \in ToSet(kept'[g])} = 1 .. completed'[g]
    <3>1. {x.candidate : x \in ToSet(kept[g])} = 1 .. completed[g]
      BY DEF PoolInv, CompletedHaveGrasps
    <3>2. \A n \in Nat : (1 .. n) \cup {n + 1} = 1 .. n + 1
      OBVIOUS
    <3> QED
      BY <1>2, <1>7, <2>1, <3>1, <3>2
  <2> QED
    BY <1>6, <2>2 DEF PoolInv, CompletedHaveGrasps
<1>9. TargetMeant'
  BY <1>6, <1>7 DEF PoolInv, TargetMeant, Meant, Planning
<1>10. PoolMeant'
  BY <1>3, <1>4, <1>5, <1>6, <1>7 DEF PoolInv, PoolMeant, GraspMeant, Meant
<1> QED
  BY <1>8, <1>9, <1>10 DEF PoolInv

LEMMA PoolThread ==
  ASSUME TypeInv, PoolInv, NEW g \in Goals, Thread(g)
  PROVE  PoolInv'
<1> USE DEF Go, Planning
<1>0. kept[g] \in Seq(Grasps)
  BY DEF TypeInv, TypeOK
<1>1. CASE Synchronize(g)
  BY <1>1, PoolGo DEF Synchronize
<1>2. CASE StopCanceled(g)
  BY <1>2, PoolFinish DEF StopCanceled
<1>3. CASE NextCandidate(g)
  BY <1>3, PoolGo DEF NextCandidate
<1>4. CASE ResolveTarget(g)
  <2>1. Candidate(g) \in Names
    BY <1>4, CandidateType DEF ResolveTarget, TypeInv, PlanningInPool
  <2>2. PICK t \in ResolveTargetObjectId(Candidate(g), scene) \cup {Candidate(g)} :
          target' = [target EXCEPT ![g] = t]
    BY <1>4 DEF ResolveTarget
  <2>3. t \in Meant(g, completed[g] + 1)
    BY <2>1, <2>2, ResolveMeaning DEF Meant, Candidate
  <2>4. TargetMeant'
    BY <1>4, <2>2, <2>3 DEF ResolveTarget, TypeInv, TypeOK, PoolInv, TargetMeant, Meant
  <2> QED
    BY <1>4, <2>4 DEF ResolveTarget, PoolInv, CompletedHaveGrasps, PoolMeant, GraspMeant, Meant
<1>5. CASE MeasureObject(g)
  BY <1>5, PoolGo DEF MeasureObject
<1>6. CASE MeasureFails(g)
  BY <1>6, PoolFails DEF MeasureFails
<1>7. CASE GetRobotModel(g)
  <2>1. CASE ReturnModel(g)
    BY <2>1, PoolGo, PoolFails DEF ReturnModel
  <2>2. CASE CheckModel(g)
    BY <2>2, PoolGo DEF CheckModel
  <2>3. CASE LockModel(g) \/ LoadModel(g) \/ LoadModelFails(g) \/ AssignModel(g)
    BY <2>3, PoolGo DEF LockModel, LoadModel, LoadModelFails, AssignModel
  <2> QED
    BY <1>7, <2>1, <2>2, <2>3 DEF GetRobotModel
<1>8. CASE PlanCandidate(g)
  BY <1>8, PoolPlan
<1>9. CASE PlanFails(g)
  BY <1>9, PoolFails DEF PlanFails
<1>10. CASE Rank(g)
  <2>1. PICK r \in Rankings(kept[g]) :
          IF r = <<>> THEN Finish(g, "aborted", "PLANNING_FAILED", r)
          ELSE Finish(g, "succeeded", "SUCCESS", SubSeq(r, 1, Least(Limit[g], Len(r))))
    BY <1>10 DEF Rank
  <2>2. /\ ToSet(r) \subseteq ToSet(kept[g])
        /\ ToSet(SubSeq(r, 1, Least(Limit[g], Len(r)))) \subseteq ToSet(kept[g])
    BY <1>0, RankingType, CutType
  <2> QED
    BY <2>1, <2>2, PoolFinish
<1> QED
  BY <1>1, <1>2, <1>3, <1>4, <1>5, <1>6, <1>7, <1>8, <1>9, <1>10 DEF Thread

LEMMA PoolStep == TypeInv /\ PoolInv /\ [Next]_vars => PoolInv'
<1> SUFFICES ASSUME TypeInv, PoolInv, [Next]_vars PROVE PoolInv'
  OBVIOUS
<1>1. CASE UNCHANGED <<pc, completed, target, kept, result>>
  BY <1>1 DEF PoolInv, CompletedHaveGrasps, TargetMeant, PoolMeant, GraspMeant, Meant
<1>2. ASSUME NEW g \in Goals, GoalRequest(g) PROVE PoolInv'
  <2>1. CASE Acceptable(g)
    BY <1>2, <2>1, PoolGo DEF GoalRequest, Planning
  <2>2. CASE ~Acceptable(g)
    BY <1>1, <1>2, <2>2 DEF GoalRequest
  <2> QED
    BY <2>1, <2>2
<1>3. ASSUME NEW g \in Goals, CancelRequest(g) PROVE PoolInv'
  BY <1>1, <1>3 DEF CancelRequest
<1>4. ASSUME NEW S \in SUBSET Ids \ {scene}, SceneChanges(S) PROVE PoolInv'
  BY <1>1, <1>4 DEF SceneChanges
<1>5. CASE BecomesReady
  BY <1>1, <1>5 DEF BecomesReady
<1>6. CASE UNCHANGED vars
  BY <1>1, <1>6 DEF vars
<1> QED
  BY <1>2, <1>3, <1>4, <1>5, <1>6, PoolThread DEF Next

LEMMA PoolCorrect == Spec => [](TypeInv /\ PoolInv)
BY InitType, NextType, PoolInit, PoolStep, PTL DEF Spec

(* The feedback counts candidates that have grasps in the pool, and no other. *)
THEOREM FeedbackCorrect == Spec => []CompletedHaveGrasps
<1>1. PoolInv => CompletedHaveGrasps
  BY DEF PoolInv
<1> QED
  BY <1>1, PoolCorrect, PTL

(* A grasp's target_id is one the name at its candidate_index stands for. *)
THEOREM TargetsCorrect == Spec => []GraspsNameTheirCandidate
<1>1. PoolInv => GraspsNameTheirCandidate
  BY DEF PoolInv, PoolMeant, GraspMeant, Meant, GraspsNameTheirCandidate
<1> QED
  BY <1>1, PoolCorrect, PTL

-----------------------------------------------------------------------------
(* The protocol. *)

Running == {"executing", "canceling"}

(* A goal's thread and its status in rclcpp_action agree on whether it runs. *)
ThreadMatchesStatus ==
  \A g \in Goals :
    /\ pc[g] = "none" => goal[g] \in {"unsent", "rejected"}
    /\ pc[g] = "done" => goal[g] \in Protocol!Ended
    /\ pc[g] \notin {"none", "done"} => goal[g] \in Running

LEMMA StatusInit == Init => ThreadMatchesStatus
BY DEF Init, ThreadMatchesStatus

(* How the protocol sees the grasps of a goal. *)
Size == [g \in Goals |-> IF goal[g] = "succeeded" THEN Len(result[g].grasps) ELSE 0]

protocolVars == <<goal, Size>>

(* A goal that is not over has brought nothing, and stays that way until it succeeds. *)
LEMMA SizeStays ==
  ASSUME TypeInv, NEW g \in Goals, goal[g] # "succeeded", NEW to \in Statuses \ {"succeeded"},
         goal' = [goal EXCEPT ![g] = to], \A h \in Goals \ {g} : result'[h] = result[h]
  PROVE  UNCHANGED Size
BY DEF TypeInv, TypeOK, Size

(* A thread ends its goal as the protocol has it. *)
LEMMA GiveUpStep ==
  ASSUME TypeInv, ThreadMatchesStatus, NEW g \in Goals, pc[g] \notin {"none", "done"},
         NEW status \in {"aborted", "canceled"}, NEW code, NEW grasps,
         status = "canceled" => goal[g] = "canceling", Finish(g, status, code, grasps)
  PROVE  Protocol!GiveUp(g) /\ ThreadMatchesStatus'
<1> USE DEF Finish
<1>1. goal[g] \in Running
  BY DEF ThreadMatchesStatus
<1>2. \A h \in Goals \ {g} : result'[h] = result[h]
  BY DEF TypeInv, TypeOK
<1>3. UNCHANGED Size
  BY <1>1, <1>2, SizeStays DEF Running, Statuses
<1>4. Protocol!GiveUp(g)
  BY <1>1, <1>3 DEF Protocol!GiveUp, Protocol!Step, Running, Size
<1>5. ThreadMatchesStatus'
  BY DEF ThreadMatchesStatus, TypeInv, TypeOK, Protocol!Ended
<1> QED
  BY <1>4, <1>5

LEMMA FailsStep ==
  ASSUME TypeInv, ThreadMatchesStatus, NEW g \in Goals, pc[g] \notin {"none", "done"},
         CandidateFails(g)
  PROVE  Protocol!GiveUp(g) /\ ThreadMatchesStatus'
BY GiveUpStep DEF CandidateFails

(* A step of a thread that its goal's client does not see. *)
LEMMA HiddenStep ==
  ASSUME TypeInv, ThreadMatchesStatus, NEW g \in Goals, pc[g] \notin {"none", "done"},
         NEW line \in Lines \ {"none", "done"}, pc' = [pc EXCEPT ![g] = line],
         UNCHANGED <<goal, result>>
  PROVE  UNCHANGED protocolVars /\ ThreadMatchesStatus'
BY DEF ThreadMatchesStatus, TypeInv, TypeOK, protocolVars, Size

LEMMA RankStep ==
  ASSUME TypeInv, ThreadMatchesStatus, NEW g \in Goals, Rank(g)
  PROVE  Protocol!End(g) /\ ThreadMatchesStatus'
<1>1. PICK r \in Rankings(kept[g]) :
        IF r = <<>> THEN Finish(g, "aborted", "PLANNING_FAILED", r)
        ELSE Finish(g, "succeeded", "SUCCESS", SubSeq(r, 1, Least(Limit[g], Len(r))))
  BY DEF Rank
<1>2. pc[g] = "poll"
  BY DEF Rank
<1>3. CASE r = <<>>
  BY <1>1, <1>2, <1>3, GiveUpStep DEF Protocol!End
<1>4. CASE r # <<>>
  <2> DEFINE cut == SubSeq(r, 1, Least(Limit[g], Len(r)))
  <2>1. r \in Seq(Grasps) /\ kept[g] \in Seq(Grasps)
    BY RankingType DEF TypeInv, TypeOK
  <2>2. Len(cut) \in 1 .. Limit[g]
    <3>1. Len(r) \in Nat \ {0} /\ Limit[g] \in Nat \ {0}
      BY <1>4, <2>1, EmptySeq, LimitType
    <3>2. Len(cut) = Least(Limit[g], Len(r))
      BY <2>1, CutType
    <3> QED
      BY <3>1, <3>2 DEF Least
  <2> HIDE DEF cut
  <2>3. goal[g] \in Running
    BY <1>2 DEF ThreadMatchesStatus
  <2>4. Finish(g, "succeeded", "SUCCESS", cut)
    BY <1>1, <1>4 DEF cut
  <2>5. Size' = [Size EXCEPT ![g] = Len(cut)]
    BY <2>4 DEF Finish, Size, TypeInv, TypeOK
  <2>6. Protocol!Succeed(g)
    BY <2>2, <2>3, <2>4, <2>5 DEF Protocol!Succeed, Protocol!Step, Running, Finish, Size
  <2>7. ThreadMatchesStatus'
    BY <2>4 DEF Finish, ThreadMatchesStatus, TypeInv, TypeOK, Protocol!Ended
  <2> QED
    BY <2>6, <2>7 DEF Protocol!End
<1> QED
  BY <1>3, <1>4

(* Every step is a step of the protocol, or one it does not see. *)
LEMMA ProtocolStep ==
  TypeInv /\ ThreadMatchesStatus /\ [Next]_vars =>
    [Protocol!Next]_protocolVars /\ ThreadMatchesStatus'
<1> SUFFICES ASSUME TypeInv, ThreadMatchesStatus, [Next]_vars
             PROVE  [Protocol!Next]_protocolVars /\ ThreadMatchesStatus'
  OBVIOUS
<1>1. CASE UNCHANGED <<goal, pc, result>>
  BY <1>1 DEF ThreadMatchesStatus, protocolVars, Size
<1>2. ASSUME NEW g \in Goals, GetRobotModel(g)
      PROVE  [Protocol!Next]_protocolVars /\ ThreadMatchesStatus'
  <2> USE DEF Go, Lines, Planning
  <2>1. CASE ReturnModel(g)
    <3>1. PICK seen \in ModelSeen : IF seen = "loaded" THEN Go(g, "plan") ELSE CandidateFails(g)
      BY <2>1 DEF ReturnModel
    <3>2. CASE seen = "loaded"
      BY <2>1, <3>1, <3>2, HiddenStep DEF ReturnModel
    <3>3. CASE seen # "loaded"
      BY <2>1, <3>1, <3>3, FailsStep DEF ReturnModel, Protocol!Next, Protocol!End
    <3> QED
      BY <3>2, <3>3
  <2>2. CASE CheckModel(g)
    BY <2>2, HiddenStep DEF CheckModel
  <2>3. CASE LockModel(g) \/ LoadModel(g) \/ LoadModelFails(g) \/ AssignModel(g)
    BY <2>3, HiddenStep DEF LockModel, LoadModel, LoadModelFails, AssignModel
  <2> QED
    BY <1>2, <2>1, <2>2, <2>3 DEF GetRobotModel
<1>3. ASSUME NEW g \in Goals, Thread(g)
      PROVE  [Protocol!Next]_protocolVars /\ ThreadMatchesStatus'
  <2> USE DEF Go, Lines, Planning
  <2>1. CASE Synchronize(g)
    BY <2>1, HiddenStep DEF Synchronize
  <2>2. CASE StopCanceled(g)
    BY <2>2, GiveUpStep DEF StopCanceled, Protocol!Next, Protocol!End
  <2>3. CASE NextCandidate(g)
    BY <2>3, HiddenStep DEF NextCandidate
  <2>4. CASE ResolveTarget(g)
    BY <2>4, HiddenStep DEF ResolveTarget
  <2>5. CASE MeasureObject(g)
    BY <2>5, HiddenStep DEF MeasureObject
  <2>6. CASE MeasureFails(g)
    BY <2>6, FailsStep DEF MeasureFails, Protocol!Next, Protocol!End
  <2>7. CASE PlanCandidate(g)
    BY <2>7, HiddenStep DEF PlanCandidate
  <2>8. CASE PlanFails(g)
    BY <2>8, FailsStep DEF PlanFails, Protocol!Next, Protocol!End
  <2>9. CASE Rank(g)
    BY <2>9, RankStep DEF Protocol!Next
  <2> QED
    BY <1>2, <1>3, <2>1, <2>2, <2>3, <2>4, <2>5, <2>6, <2>7, <2>8, <2>9 DEF Thread
<1>4. ASSUME NEW g \in Goals, GoalRequest(g)
      PROVE  [Protocol!Next]_protocolVars /\ ThreadMatchesStatus'
  <2>1. goal[g] = "unsent" /\ UNCHANGED result
    BY <1>4 DEF GoalRequest
  <2>2. CASE Acceptable(g)
    <3>1. goal' = [goal EXCEPT ![g] = "executing"] /\ pc' = [pc EXCEPT ![g] = "sync"]
      BY <1>4, <2>2 DEF GoalRequest
    <3>2. UNCHANGED Size
      BY <2>1, <3>1, SizeStays DEF Statuses
    <3>3. Protocol!Next
      BY <2>1, <3>1, <3>2 DEF Protocol!Next, Protocol!Answer, Protocol!Step, Size
    <3>4. ThreadMatchesStatus'
      BY <3>1 DEF ThreadMatchesStatus, TypeInv, TypeOK, Running
    <3> QED
      BY <3>3, <3>4
  <2>3. CASE ~Acceptable(g)
    <3>1. goal' = [goal EXCEPT ![g] = "rejected"] /\ UNCHANGED pc
      BY <1>4, <2>3 DEF GoalRequest
    <3>2. UNCHANGED Size
      BY <2>1, <3>1, SizeStays DEF Statuses
    <3>3. Protocol!Next
      BY <2>1, <3>1, <3>2 DEF Protocol!Next, Protocol!Answer, Protocol!Step, Size
    <3>4. pc[g] = "none"
      BY <2>1 DEF ThreadMatchesStatus, Protocol!Ended, Running
    <3>5. ThreadMatchesStatus'
      BY <3>1, <3>4 DEF ThreadMatchesStatus, TypeInv, TypeOK
    <3> QED
      BY <3>3, <3>5
  <2> QED
    BY <2>2, <2>3
<1>5. ASSUME NEW g \in Goals, CancelRequest(g)
      PROVE  [Protocol!Next]_protocolVars /\ ThreadMatchesStatus'
  <2>1. goal[g] = "executing" /\ goal' = [goal EXCEPT ![g] = "canceling"] /\ UNCHANGED <<pc, result>>
    BY <1>5 DEF CancelRequest
  <2>2. UNCHANGED Size
    BY <2>1, SizeStays DEF Statuses
  <2>3. Protocol!Next
    BY <2>1, <2>2 DEF Protocol!Next, Protocol!AcceptCancel, Protocol!Step, Size
  <2>4. pc[g] \notin {"none", "done"}
    BY <2>1 DEF ThreadMatchesStatus, Protocol!Ended
  <2>5. ThreadMatchesStatus'
    BY <2>1, <2>4 DEF ThreadMatchesStatus, TypeInv, TypeOK, Running
  <2> QED
    BY <2>3, <2>5
<1>6. ASSUME NEW S \in SUBSET Ids \ {scene}, SceneChanges(S)
      PROVE  [Protocol!Next]_protocolVars /\ ThreadMatchesStatus'
  BY <1>1, <1>6 DEF SceneChanges
<1>7. CASE BecomesReady
  BY <1>1, <1>7 DEF BecomesReady
<1>8. CASE UNCHANGED vars
  BY <1>1, <1>8 DEF vars
<1> QED
  BY <1>3, <1>4, <1>5, <1>6, <1>7, <1>8 DEF Next

(***************************************************************************)
(* The server implements the safety part of GoalLifecycle: each goal is    *)
(* answered once, ends once, is only canceled when that was asked for, and *)
(* brings at most Limit[g] grasps.                                         *)
(***************************************************************************)
THEOREM ServerKeepsProtocol == Spec => Protocol!Init /\ [][Protocol!Next]_protocolVars
<1>1. Init => Protocol!Init
  BY DEF Init, Protocol!Init
<1>2. Spec => [](TypeInv /\ ThreadMatchesStatus)
  BY InitType, NextType, StatusInit, ProtocolStep, PTL DEF Spec
<1> QED
  BY <1>1, <1>2, ProtocolStep, PTL DEF Spec

-----------------------------------------------------------------------------
(* The robot model. *)

(***************************************************************************)
(* Who holds robot_model_mutex_ is loading or assigning a model, and does  *)
(* so only while there is none: what a thread saw outside the lock is not  *)
(* relied on.  Who plans has seen a model, and none is ever taken away.    *)
(***************************************************************************)
ModelLocked ==
  \A g \in Goals :
    /\ pc[g] \in {"load", "assign"} <=> modelLock = g
    /\ pc[g] = "load" => robotModel = "null"
    /\ pc[g] = "assign" => robotModel = "writing"
    /\ pc[g] = "plan" => robotModel # "null"

LEMMA ModelLockedInit == Init => ModelLocked
BY RequestsAssumption DEF Init, ModelLocked

LEMMA ModelLockedStep ==
  TypeInv /\ ThreadMatchesStatus /\ ModelLocked /\ [Next]_vars => ModelLocked'
<1> SUFFICES ASSUME TypeInv, ThreadMatchesStatus, ModelLocked, [Next]_vars
             PROVE  ModelLocked'
  OBVIOUS
<1> USE DEF modelVars
<1>0. pc \in [Goals -> Lines] /\ NoGoal \notin Goals
  BY RequestsAssumption DEF TypeInv, TypeOK, Lines, Planning
<1>1. CASE UNCHANGED <<modelVars, pc>>
  BY <1>1 DEF ModelLocked
<1>2. ASSUME NEW g \in Goals, NEW line \in Lines \ {"load", "assign"},
             pc[g] \notin {"load", "assign"}, line = "plan" => robotModel # "null",
             pc' = [pc EXCEPT ![g] = line], UNCHANGED modelVars
      PROVE  ModelLocked'
  BY <1>0, <1>2 DEF ModelLocked
<1>3. ASSUME NEW g \in Goals, pc[g] \notin {"load", "assign"}, CandidateFails(g),
             UNCHANGED modelVars
      PROVE  ModelLocked'
  BY <1>2, <1>3 DEF CandidateFails, Finish, Lines
<1>4. ASSUME NEW g \in Goals, GetRobotModel(g) PROVE ModelLocked'
  <2>1. CASE CheckModel(g)
    <3>1. PICK seen \in ModelSeen : Go(g, IF seen = "loaded" THEN "plan" ELSE "lock")
      BY <2>1 DEF CheckModel
    <3>2. seen = "loaded" => robotModel # "null"
      BY <3>1 DEF ModelSeen
    <3> QED
      BY <1>2, <2>1, <3>1, <3>2 DEF CheckModel, Go, Lines, Planning
  <2>2. CASE LockModel(g)
    BY <1>0, <2>2 DEF LockModel, Go, ModelLocked
  <2>3. CASE LoadModel(g)
    BY <1>0, <2>3 DEF LoadModel, Go, ModelLocked
  <2>4. CASE LoadModelFails(g)
    BY <1>0, <2>4 DEF LoadModelFails, Go, ModelLocked
  <2>5. CASE AssignModel(g)
    BY <1>0, <2>5 DEF AssignModel, Go, ModelLocked
  <2>6. CASE ReturnModel(g)
    <3>1. PICK seen \in ModelSeen : IF seen = "loaded" THEN Go(g, "plan") ELSE CandidateFails(g)
      BY <2>6 DEF ReturnModel
    <3>2. CASE seen = "loaded"
      <4>1. robotModel # "null"
        BY <3>1, <3>2 DEF ModelSeen
      <4> QED
        BY <1>2, <2>6, <3>1, <3>2, <4>1 DEF ReturnModel, Go, Lines, Planning
    <3>3. CASE seen # "loaded"
      BY <1>3, <2>6, <3>1, <3>3 DEF ReturnModel
    <3> QED
      BY <3>2, <3>3
  <2> QED
    BY <1>4, <2>1, <2>2, <2>3, <2>4, <2>5, <2>6 DEF GetRobotModel
<1>5. ASSUME NEW g \in Goals, Thread(g) PROVE ModelLocked'
  <2> USE DEF Go, Finish, Lines, Planning
  <2>1. CASE Synchronize(g)
    BY <1>2, <2>1 DEF Synchronize
  <2>2. CASE StopCanceled(g)
    BY <1>2, <2>2 DEF StopCanceled
  <2>3. CASE NextCandidate(g)
    BY <1>2, <2>3 DEF NextCandidate
  <2>4. CASE ResolveTarget(g)
    BY <1>2, <2>4 DEF ResolveTarget
  <2>5. CASE MeasureObject(g)
    BY <1>2, <2>5 DEF MeasureObject
  <2>6. CASE MeasureFails(g)
    BY <1>3, <2>6 DEF MeasureFails
  <2>7. CASE PlanCandidate(g)
    BY <1>2, <2>7 DEF PlanCandidate
  <2>8. CASE PlanFails(g)
    BY <1>3, <2>8 DEF PlanFails
  <2>9. CASE Rank(g)
    <3>1. pc[g] = "poll" /\ pc' = [pc EXCEPT ![g] = "done"] /\ UNCHANGED modelVars
      BY <2>9 DEF Rank
    <3> QED
      BY <1>2, <3>1
  <2> QED
    BY <1>4, <1>5, <2>1, <2>2, <2>3, <2>4, <2>5, <2>6, <2>7, <2>8, <2>9 DEF Thread
<1>6. ASSUME NEW g \in Goals, GoalRequest(g) PROVE ModelLocked'
  <2>1. pc[g] \notin {"load", "assign"}
    BY <1>6 DEF GoalRequest, ThreadMatchesStatus, Running
  <2> QED
    BY <1>1, <1>2, <1>6, <2>1 DEF GoalRequest, Lines
<1>7. ASSUME NEW g \in Goals, CancelRequest(g) PROVE ModelLocked'
  BY <1>1, <1>7 DEF CancelRequest
<1>8. ASSUME NEW S \in SUBSET Ids \ {scene}, SceneChanges(S) PROVE ModelLocked'
  BY <1>1, <1>8 DEF SceneChanges
<1>9. CASE BecomesReady
  BY <1>1, <1>9 DEF BecomesReady
<1>10. CASE UNCHANGED vars
  BY <1>1, <1>10 DEF vars
<1> QED
  BY <1>5, <1>6, <1>7, <1>8, <1>9, <1>10 DEF Next

LEMMA LoadedStays ==
  TypeInv /\ ModelLocked /\ [Next]_vars => (robotModel = "loaded" => robotModel' = "loaded")
<1> SUFFICES ASSUME ModelLocked, [Next]_vars, robotModel = "loaded"
             PROVE  robotModel' = "loaded"
  OBVIOUS
<1> USE DEF modelVars
<1>1. ASSUME NEW g \in Goals, GetRobotModel(g) PROVE robotModel' = "loaded"
  BY <1>1 DEF GetRobotModel, CheckModel, LockModel, LoadModel, LoadModelFails, AssignModel,
              ReturnModel, ModelLocked
<1>2. ASSUME NEW g \in Goals, Thread(g) PROVE robotModel' = "loaded"
  BY <1>1, <1>2 DEF Thread, Synchronize, StopCanceled, NextCandidate, ResolveTarget,
                    MeasureObject, MeasureFails, PlanCandidate, PlanFails, Rank
<1> QED
  BY <1>2 DEF Next, SceneChanges, BecomesReady, GoalRequest, CancelRequest, vars

LEMMA ModelLockedCorrect == Spec => [](TypeInv /\ ModelLocked)
BY InitType, NextType, StatusInit, ProtocolStep, ModelLockedInit, ModelLockedStep, PTL DEF Spec

(* A loaded robot model is never assigned again, however many threads want one. *)
THEOREM ModelOnce == Spec => ModelAssignedOnce
<1>1. TypeInv /\ ModelLocked /\ [Next]_vars => [robotModel = "loaded" => robotModel' = "loaded"]_vars
  BY LoadedStays
<1> QED
  BY <1>1, ModelLockedCorrect, PTL DEF Spec, ModelAssignedOnce

(***************************************************************************)
(* No thread plans with a null model, although it saw the model outside    *)
(* the lock and others may load one meanwhile.                             *)
(***************************************************************************)
NoPlanWithoutModel == \A g \in Goals : pc[g] = "plan" => robotModel # "null"

(***************************************************************************)
(* robot_model_mutex_ is never left locked: a loader that fails or throws  *)
(* releases it, and whoever waits for it waits for a thread that is        *)
(* loading or assigning, and waits for nothing itself.                     *)
(***************************************************************************)
LockHasRunningHolder ==
  \A g \in Goals : pc[g] = "lock" =>
    \/ modelLock = NoGoal
    \/ modelLock \in Goals \ {g} /\ pc[modelLock] \in {"load", "assign"}

(* The mutex keeps at most one loader, and none waits for a thread that has gone. *)
THEOREM ModelIsSafe == Spec => [](NoPlanWithoutModel /\ LockHasRunningHolder)
<1>1. TypeInv /\ ModelLocked => NoPlanWithoutModel
  BY DEF ModelLocked, NoPlanWithoutModel
<1>2. TypeInv /\ ModelLocked => LockHasRunningHolder
  <2> SUFFICES ASSUME TypeInv, ModelLocked, NEW g \in Goals, pc[g] = "lock", modelLock # NoGoal
               PROVE  modelLock \in Goals \ {g} /\ pc[modelLock] \in {"load", "assign"}
    BY DEF LockHasRunningHolder
  <2>1. modelLock \in Goals
    BY DEF TypeInv, TypeOK
  <2>2. pc[modelLock] \in {"load", "assign"}
    BY <2>1 DEF ModelLocked
  <2> QED
    BY <2>1, <2>2
<1> QED
  BY <1>1, <1>2, ModelLockedCorrect, PTL

-----------------------------------------------------------------------------
(* The object a candidate is for. *)

LEMMA ExactStep ==
  ASSUME TypeInv, [Next]_vars, NEW g \in Goals,
         pc[g] = "ids", pc'[g] = "measure", Candidate(g) \in scene
  PROVE  target'[g] = Candidate(g)
<1>0. pc \in [Goals -> Lines] /\ pc # pc'
  BY DEF TypeInv, TypeOK, Lines, Planning
<1>1. Candidate(g) \in Names
  BY CandidateType DEF TypeInv, PlanningInPool, Planning
<1>2. ResolveTarget(g)
  <2>1. PICK h \in Goals : Thread(h) \/ GoalRequest(h)
    BY <1>0 DEF Next, SceneChanges, BecomesReady, CancelRequest, vars
  <2>2. \A line : pc' = [pc EXCEPT ![h] = line] => h = g
    BY <1>0
  <2>3. h = g
    BY <2>1, <2>2 DEF GoalRequest, Thread, Synchronize, StopCanceled, NextCandidate,
         ResolveTarget, MeasureObject, MeasureFails, GetRobotModel, CheckModel, LockModel,
         LoadModel, LoadModelFails, AssignModel, ReturnModel, PlanCandidate, PlanFails, Rank,
         CandidateFails, Finish, Go
  <2>4. ~GoalRequest(g)
    BY <1>0 DEF GoalRequest
  <2>5. Thread(g)
    BY <2>1, <2>3, <2>4
  <2> QED
    BY <1>0, <2>5 DEF Thread, Synchronize, StopCanceled, NextCandidate,
         MeasureObject, MeasureFails, GetRobotModel, CheckModel, LockModel,
         LoadModel, LoadModelFails, AssignModel, ReturnModel, PlanCandidate, PlanFails, Rank
<1>3. PICK t \in ResolveTargetObjectId(Candidate(g), scene) \cup {Candidate(g)} :
        target' = [target EXCEPT ![g] = t]
  BY <1>2 DEF ResolveTarget
<1>4. t = Candidate(g)
  BY <1>1, <1>3, ExactResolves DEF TypeInv, TypeOK
<1> QED
  BY <1>3, <1>4 DEF TypeInv, TypeOK

(* An object called exactly as the client wrote is never taken for another one. *)
THEOREM ExactCorrect == Spec => ExactNameWins
<1>1. TypeInv /\ [Next]_vars =>
        [\A g \in Goals : pc[g] = "ids" /\ pc'[g] = "measure" /\ Candidate(g) \in scene
           => target'[g] = Candidate(g)]_vars
  BY ExactStep
<1> QED
  BY <1>1, TypeInvCorrect, PTL DEF Spec, ExactNameWins

-----------------------------------------------------------------------------
(* How goals end. *)

(***************************************************************************)
(* The status of a goal and the result it delivered tell the same story.   *)
(* One that succeeds has planned every candidate and brings a grasp, one   *)
(* that is aborted or canceled stopped before the last was planned and     *)
(* brings what it had, unranked and uncut.  The branch that ends a ranking *)
(* without a grasp with PLANNING_FAILED is never taken: a candidate counts *)
(* as complete with a grasp only, and a goal has one candidate at least.   *)
(***************************************************************************)
Outcome(g) ==
  /\ goal[g] = "succeeded" =>
       /\ result[g].code = "SUCCESS"
       /\ completed[g] = Len(Candidates[g])
       /\ Len(result[g].grasps) \in 1 .. Limit[g]
  /\ goal[g] = "aborted" =>
       /\ completed[g] < Len(Candidates[g])
       /\ result[g] = [code |-> "FAILURE", grasps |-> kept[g]]
  /\ goal[g] = "canceled" =>
       /\ completed[g] < Len(Candidates[g])
       /\ result[g] = [code |-> "PREEMPTED", grasps |-> kept[g]]
  /\ goal[g] \notin Protocol!Ended => result[g] = NoResult

OutcomeMatchesStatus == \A g \in Goals : Outcome(g)

(* Who has a thread has a candidate. *)
AcceptedHaveCandidates == \A g \in Goals : pc[g] # "none" => Candidates[g] # <<>>

OutcomeInv == OutcomeMatchesStatus /\ AcceptedHaveCandidates

LEMMA OutcomeInit == Init => OutcomeInv
BY DEF Init, OutcomeInv, OutcomeMatchesStatus, Outcome, AcceptedHaveCandidates, Protocol!Ended

(* What a step leaves alone of a goal. *)
Untouched(g) == UNCHANGED <<goal[g], pc[g], completed[g], kept[g], result[g]>>

LEMMA UntouchedOutcome ==
  ASSUME NEW g \in Goals, Untouched(g), Outcome(g)
  PROVE  Outcome(g)'
BY DEF Untouched, Outcome

(* Only the goal a step is about has to be looked at. *)
LEMMA OutcomeOf ==
  ASSUME OutcomeInv, NEW g \in Goals, \A h \in Goals \ {g} : Untouched(h),
         Outcome(g)', Candidates[g] # <<>> \/ pc'[g] = "none"
  PROVE  OutcomeInv'
<1>1. \A h \in Goals \ {g} : Outcome(h)'
  BY UntouchedOutcome DEF OutcomeInv, OutcomeMatchesStatus
<1>2. AcceptedHaveCandidates'
  BY DEF OutcomeInv, AcceptedHaveCandidates, Untouched
<1> QED
  BY <1>1, <1>2 DEF OutcomeInv, OutcomeMatchesStatus

(* A step of a thread that does not end its goal. *)
LEMMA OutcomeGo ==
  ASSUME TypeInv, ThreadMatchesStatus, OutcomeInv, NEW g \in Goals,
         pc[g] \notin {"none", "done"}, NEW line, pc' = [pc EXCEPT ![g] = line],
         \A h \in Goals \ {g} : completed'[h] = completed[h] /\ kept'[h] = kept[h],
         UNCHANGED <<goal, result>>
  PROVE  OutcomeInv'
<1>1. goal[g] \notin Protocol!Ended
  BY DEF ThreadMatchesStatus, Running, Protocol!Ended
<1>2. Outcome(g)'
  BY <1>1 DEF OutcomeInv, OutcomeMatchesStatus, Outcome, Protocol!Ended
<1>3. \A h \in Goals \ {g} : Untouched(h)
  BY DEF Untouched, TypeInv, TypeOK
<1>4. Candidates[g] # <<>>
  BY DEF OutcomeInv, AcceptedHaveCandidates
<1> QED
  BY <1>2, <1>3, <1>4, OutcomeOf

(* A step that ends a goal. *)
LEMMA OutcomeFinish ==
  ASSUME TypeInv, OutcomeInv, NEW g \in Goals, pc[g] # "none",
         NEW status \in Protocol!Ended, NEW code, NEW grasps, Finish(g, status, code, grasps),
         status = "succeeded" => /\ code = "SUCCESS"
                                 /\ completed[g] = Len(Candidates[g])
                                 /\ Len(grasps) \in 1 .. Limit[g],
         status = "aborted" => /\ completed[g] < Len(Candidates[g])
                               /\ code = "FAILURE" /\ grasps = kept[g],
         status = "canceled" => /\ completed[g] < Len(Candidates[g])
                                /\ code = "PREEMPTED" /\ grasps = kept[g]
  PROVE  OutcomeInv'
<1>1. /\ goal'[g] = status /\ result'[g] = [code |-> code, grasps |-> grasps]
      /\ completed'[g] = completed[g] /\ kept'[g] = kept[g]
  BY DEF Finish, TypeInv, TypeOK
<1>2. Outcome(g)'
  BY <1>1 DEF Outcome, Protocol!Ended
<1>3. \A h \in Goals \ {g} : Untouched(h)
  BY DEF Untouched, Finish, TypeInv, TypeOK
<1>4. Candidates[g] # <<>>
  BY DEF OutcomeInv, AcceptedHaveCandidates
<1> QED
  BY <1>2, <1>3, <1>4, OutcomeOf

LEMMA OutcomeFails ==
  ASSUME TypeInv, OutcomeInv, NEW g \in Goals, pc[g] \in Planning, CandidateFails(g)
  PROVE  OutcomeInv'
<1>1. completed[g] < Len(Candidates[g])
  BY DEF TypeInv, PlanningInPool
<1> QED
  BY <1>1, OutcomeFinish DEF CandidateFails, Planning, Protocol!Ended

(* The grasps of the candidates are there to be ranked, and one is left of them. *)
LEMMA OutcomeRank ==
  ASSUME TypeInv, PoolInv, OutcomeInv, NEW g \in Goals, Rank(g)
  PROVE  OutcomeInv'
<1>1. PICK r \in Rankings(kept[g]) :
        IF r = <<>> THEN Finish(g, "aborted", "PLANNING_FAILED", r)
        ELSE Finish(g, "succeeded", "SUCCESS", SubSeq(r, 1, Least(Limit[g], Len(r))))
  BY DEF Rank
<1>2. /\ pc[g] = "poll" /\ completed[g] = Len(Candidates[g])
      /\ kept[g] \in Seq(Grasps) /\ Candidates[g] \in Seq(Names)
  BY RequestsAssumption DEF Rank, TypeInv, TypeOK
<1>3. completed[g] \in Nat \ {0}
  BY <1>2, LenProperties, EmptySeq DEF OutcomeInv, AcceptedHaveCandidates
<1>4. ToSet(kept[g]) # {}
  <2>1. 1 \in {x.candidate : x \in ToSet(kept[g])}
    BY <1>3 DEF PoolInv, CompletedHaveGrasps
  <2> QED
    BY <2>1
<1>5. r \in Seq(Grasps) /\ Len(r) \in Nat \ {0}
  <2>1. /\ r \in Seq(Grasps) /\ Len(r) = Cardinality(ToSet(kept[g]))
        /\ IsFiniteSet(ToSet(kept[g]))
    BY <1>2, RankingType
  <2>2. Cardinality(ToSet(kept[g])) # 0
    BY <1>4, <2>1, FS_EmptySet
  <2> QED
    BY <2>1, <2>2, LenProperties
<1> DEFINE cut == SubSeq(r, 1, Least(Limit[g], Len(r)))
<1>6. Len(cut) \in 1 .. Limit[g]
  <2>1. Len(cut) = Least(Limit[g], Len(r))
    BY <1>5, CutType
  <2> HIDE DEF cut
  <2> QED
    BY <1>5, <2>1, LimitType DEF Least
<1>7. Finish(g, "succeeded", "SUCCESS", cut)
  BY <1>1, <1>5, EmptySeq
<1> HIDE DEF cut
<1> QED
  BY <1>2, <1>6, <1>7, OutcomeFinish DEF Protocol!Ended

LEMMA OutcomeThread ==
  ASSUME TypeInv, ThreadMatchesStatus, PoolInv, OutcomeInv, NEW g \in Goals, Thread(g)
  PROVE  OutcomeInv'
<1> USE DEF Go, Planning
<1>1. CASE Synchronize(g)
  BY <1>1, OutcomeGo DEF Synchronize
<1>2. CASE StopCanceled(g)
  BY <1>2, OutcomeFinish DEF StopCanceled, Protocol!Ended
<1>3. CASE NextCandidate(g)
  BY <1>3, OutcomeGo DEF NextCandidate
<1>4. CASE ResolveTarget(g)
  BY <1>4, OutcomeGo DEF ResolveTarget
<1>5. CASE MeasureObject(g)
  BY <1>5, OutcomeGo DEF MeasureObject
<1>6. CASE MeasureFails(g)
  BY <1>6, OutcomeFails DEF MeasureFails
<1>7. CASE GetRobotModel(g)
  <2>1. CASE CheckModel(g)
    BY <2>1, OutcomeGo DEF CheckModel
  <2>2. CASE LockModel(g) \/ LoadModel(g) \/ LoadModelFails(g) \/ AssignModel(g)
    BY <2>2, OutcomeGo DEF LockModel, LoadModel, LoadModelFails, AssignModel
  <2>3. CASE ReturnModel(g)
    BY <2>3, OutcomeGo, OutcomeFails DEF ReturnModel
  <2> QED
    BY <1>7, <2>1, <2>2, <2>3 DEF GetRobotModel
<1>8. CASE PlanCandidate(g)
  <2>1. \A h \in Goals \ {g} : completed'[h] = completed[h] /\ kept'[h] = kept[h]
    BY <1>8 DEF PlanCandidate, TypeInv, TypeOK
  <2> QED
    BY <1>8, <2>1, OutcomeGo DEF PlanCandidate
<1>9. CASE PlanFails(g)
  BY <1>9, OutcomeFails DEF PlanFails
<1>10. CASE Rank(g)
  BY <1>10, OutcomeRank
<1> QED
  BY <1>1, <1>2, <1>3, <1>4, <1>5, <1>6, <1>7, <1>8, <1>9, <1>10 DEF Thread

LEMMA OutcomeStep ==
  TypeInv /\ ThreadMatchesStatus /\ PoolInv /\ OutcomeInv /\ [Next]_vars => OutcomeInv'
<1> SUFFICES ASSUME TypeInv, ThreadMatchesStatus, PoolInv, OutcomeInv, [Next]_vars
             PROVE  OutcomeInv'
  OBVIOUS
<1>1. CASE UNCHANGED <<goal, pc, completed, kept, result>>
  BY <1>1 DEF OutcomeInv, OutcomeMatchesStatus, Outcome, AcceptedHaveCandidates
<1>2. ASSUME NEW g \in Goals, GoalRequest(g) PROVE OutcomeInv'
  <2>1. result[g] = NoResult
    BY <1>2 DEF GoalRequest, OutcomeInv, OutcomeMatchesStatus, Outcome, Protocol!Ended
  <2>2. goal'[g] \in {"executing", "rejected"} /\ UNCHANGED <<completed, kept, result>>
    BY <1>2 DEF GoalRequest, TypeInv, TypeOK
  <2>3. Outcome(g)'
    BY <2>1, <2>2 DEF Outcome, Protocol!Ended, NoResult
  <2>4. \A h \in Goals \ {g} : Untouched(h)
    BY <1>2 DEF GoalRequest, Untouched, TypeInv, TypeOK
  <2>5. Candidates[g] # <<>> \/ pc'[g] = "none"
    BY <1>2 DEF GoalRequest, Acceptable, ThreadMatchesStatus, Running, Protocol!Ended
  <2> QED
    BY <2>3, <2>4, <2>5, OutcomeOf
<1>3. ASSUME NEW g \in Goals, CancelRequest(g) PROVE OutcomeInv'
  <2>1. result[g] = NoResult
    BY <1>3 DEF CancelRequest, OutcomeInv, OutcomeMatchesStatus, Outcome, Protocol!Ended
  <2>2. goal'[g] = "canceling" /\ UNCHANGED <<pc, completed, kept, result>>
    BY <1>3 DEF CancelRequest, TypeInv, TypeOK
  <2>3. Outcome(g)'
    BY <2>1, <2>2 DEF Outcome, Protocol!Ended, NoResult
  <2>4. \A h \in Goals \ {g} : Untouched(h)
    BY <1>3 DEF CancelRequest, Untouched, TypeInv, TypeOK
  <2>5. Candidates[g] # <<>> \/ pc'[g] = "none"
    BY <2>2 DEF OutcomeInv, AcceptedHaveCandidates
  <2> QED
    BY <2>3, <2>4, <2>5, OutcomeOf
<1>4. ASSUME NEW S \in SUBSET Ids \ {scene}, SceneChanges(S) PROVE OutcomeInv'
  BY <1>1, <1>4 DEF SceneChanges
<1>5. CASE BecomesReady
  BY <1>1, <1>5 DEF BecomesReady
<1>6. CASE UNCHANGED vars
  BY <1>1, <1>6 DEF vars
<1> QED
  BY <1>2, <1>3, <1>4, <1>5, <1>6, OutcomeThread DEF Next

LEMMA StatusCorrect == Spec => [](TypeInv /\ ThreadMatchesStatus)
BY InitType, NextType, StatusInit, ProtocolStep, PTL DEF Spec

(* A goal's result says what its status says, and a goal that planned all succeeds. *)
THEOREM OutcomeCorrect == Spec => []OutcomeMatchesStatus
<1>1. OutcomeInv => OutcomeMatchesStatus
  BY DEF OutcomeInv
<1>2. Spec => [](TypeInv /\ ThreadMatchesStatus /\ PoolInv)
  BY StatusCorrect, PoolCorrect, PTL
<1> QED
  BY <1>1, <1>2, OutcomeInit, OutcomeStep, PTL DEF Spec

(***************************************************************************)
(* What a client was told stays true: a goal that has ended, or was never  *)
(* accepted, is not answered again, whatever the threads of other goals do *)
(* and although its own thread is detached and nobody waits for it.        *)
(***************************************************************************)
ResultIsFinal ==
  [][\A g \in Goals : goal[g] \in {"rejected"} \cup Protocol!Ended => Untouched(g)]_vars

LEMMA FinalStep ==
  ASSUME TypeInv, ThreadMatchesStatus, [Next]_vars, NEW g \in Goals,
         goal[g] \in {"rejected"} \cup Protocol!Ended
  PROVE  Untouched(g)
<1>0. pc[g] \in {"none", "done"}
  BY DEF ThreadMatchesStatus, Running, Protocol!Ended
<1>1. CASE UNCHANGED <<goal, pc, completed, kept, result>>
  BY <1>1 DEF Untouched
<1>2. ASSUME NEW h \in Goals, Thread(h) PROVE Untouched(g)
  <2>1. h # g
    BY <1>0, <1>2 DEF Thread, Synchronize, StopCanceled, NextCandidate, ResolveTarget,
         MeasureObject, MeasureFails, GetRobotModel, CheckModel, LockModel, LoadModel,
         LoadModelFails, AssignModel, ReturnModel, PlanCandidate, PlanFails, Rank
  <2>2. /\ goal'[g] = goal[g] /\ result'[g] = result[g]
        /\ completed'[g] = completed[g] /\ kept'[g] = kept[g] /\ pc'[g] = pc[g]
    BY <1>2, <2>1 DEF Thread, Synchronize, StopCanceled, NextCandidate, ResolveTarget,
         MeasureObject, MeasureFails, GetRobotModel, CheckModel, LockModel, LoadModel,
         LoadModelFails, AssignModel, ReturnModel, PlanCandidate, PlanFails, Rank,
         CandidateFails, Finish, Go, TypeInv, TypeOK
  <2> QED
    BY <2>2 DEF Untouched
<1>3. ASSUME NEW h \in Goals, GoalRequest(h) \/ CancelRequest(h) PROVE Untouched(g)
  <2>1. h # g
    BY <1>3 DEF GoalRequest, CancelRequest, Protocol!Ended
  <2> QED
    BY <1>3, <2>1 DEF GoalRequest, CancelRequest, Untouched, TypeInv, TypeOK
<1>4. ASSUME NEW S \in SUBSET Ids \ {scene}, SceneChanges(S) PROVE Untouched(g)
  BY <1>1, <1>4 DEF SceneChanges
<1>5. CASE BecomesReady
  BY <1>1, <1>5 DEF BecomesReady
<1>6. CASE UNCHANGED vars
  BY <1>1, <1>6 DEF vars
<1> QED
  BY <1>2, <1>3, <1>4, <1>5, <1>6 DEF Next

(* Each goal is answered once and for all. *)
THEOREM FinalCorrect == Spec => ResultIsFinal
<1>1. TypeInv /\ ThreadMatchesStatus /\ [Next]_vars =>
        [\A g \in Goals : goal[g] \in {"rejected"} \cup Protocol!Ended => Untouched(g)]_vars
  BY FinalStep
<1> QED
  BY <1>1, StatusCorrect, PTL DEF Spec, ResultIsFinal
=============================================================================
