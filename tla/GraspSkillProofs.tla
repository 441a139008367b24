--------------------------- MODULE GraspSkillProofs ---------------------------
(***************************************************************************)
(* The safety properties of GraspSkill, for any number of executions and   *)
(* frames, however the executions share them.                              *)
(***************************************************************************)
EXTENDS GraspSkill, TLAPS

Places == Waiting \cup Updating \cup {"returned"}

(* A step of the skill on behalf of e. *)
SkillStep(e) == Execute(e) \/ CallGraspPlanningAction(e) \/ UpdateWorld(e)
ServerStep(e) == HandleGoal(e) \/ HandleCancel(e) \/ GoalEnds(e)

-----------------------------------------------------------------------------
(* What steps do to the parts of the state. *)

LEMMA Records ==
  \A d, e \in Executions : Goal(d) # Cancel(e) /\ (Cancel(d) = Cancel(e) => d = e)
BY DEF Goal, Cancel

(* The server's part: goals only move along their lifecycle. *)
LEMMA ServerSteps ==
  ASSUME TypeOK, NEW e \in Executions, ServerStep(e)
  PROVE  /\ UNCHANGED <<frames, pc, code>>
         /\ net' \subseteq net
         /\ size' \in [Executions -> Nat]
         /\ \E s \in {"unsent", "rejected", "executing", "canceling",
                      "succeeded", "aborted", "canceled"} :
              /\ status' = [status EXCEPT ![e] = s]
              /\ status[e] = "succeeded" => s = "succeeded"
              /\ s = "canceling" => status[e] = "canceling" \/ Cancel(e) \in net
              /\ s = "canceled" => status[e] \in {"canceling", "canceled"}
<1> USE DEF TypeOK, Server!Step
<1>1. CASE HandleGoal(e)
  BY <1>1 DEF HandleGoal, Server!Answer
<1>2. CASE HandleCancel(e)
  <2>1. CASE status[e] = "executing"
    BY <1>2, <2>1 DEF HandleCancel, Server!AcceptCancel
  <2>2. CASE status[e] # "executing"
    <3>1. status' = [status EXCEPT ![e] = status[e]]
      BY <1>2, <2>2 DEF HandleCancel
    <3> QED
      BY <1>2, <2>2, <3>1 DEF HandleCancel
  <2> QED
    BY <2>1, <2>2
<1>3. CASE GoalEnds(e)
  <2>1. UNCHANGED <<net, frames, pc, code>>
    BY <1>3 DEF GoalEnds
  <2>2. CASE Server!Succeed(e)
    <3>1. size' \in [Executions -> Nat]
      <4>1. PICK n \in 1 .. Limit[e] : size' = [size EXCEPT ![e] = n]
        BY <2>2 DEF Server!Succeed
      <4> QED
        BY <4>1, ExecutionsAssumption
    <3> QED
      BY <2>1, <2>2, <3>1 DEF Server!Succeed
  <2>3. CASE Server!GiveUp(e)
    BY <2>1, <2>3 DEF Server!GiveUp
  <2> QED
    BY <1>3, <2>2, <2>3 DEF GoalEnds, Server!End
<1> QED
  BY <1>1, <1>2, <1>3 DEF ServerStep

(* What a step of e leaves alone: the goals, and the other executions. *)
OnlyOf(e) ==
  /\ UNCHANGED serverVars
  /\ \E place \in Places : pc' = [pc EXCEPT ![e] = place]
  /\ \E c \in Codes : code' = [code EXCEPT ![e] = c]
  /\ code'[e] = "NONE" <=> pc'[e] # "returned"

LEMMA ReturnType ==
  ASSUME TypeOK, NEW e \in Executions, NEW c \in Codes \ {"NONE"}, UNCHANGED serverVars, Return(e, c)
  PROVE  OnlyOf(e) /\ pc'[e] = "returned" /\ code'[e] = c
BY DEF TypeOK, Return, OnlyOf, Places

LEMMA GoType ==
  ASSUME TypeOK, NEW e \in Executions, NEW place \in Places \ {"returned"}, UNCHANGED serverVars,
         pc[e] # "returned", Go(e, place)
  PROVE  OnlyOf(e) /\ pc'[e] = place /\ code'[e] = "NONE"
<1>1. code' = [code EXCEPT ![e] = code[e]] /\ code[e] = "NONE" /\ code[e] \in Codes
  BY DEF TypeOK, Go, Codes
<1> QED
  BY <1>1 DEF TypeOK, Go, OnlyOf, Places

(* The frame an execution's step moves, if it moves one. *)
Moves(e) ==
  \/ UNCHANGED frames
  \/ pc[e] = "graspUpdate" /\ frames' = Moved(GraspFrame[e], e, "grasp")
  \/ pc[e] = "pregraspUpdate" /\ frames' = Moved(PregraspFrame[e], e, "pregrasp")

(* How an execution gets to a pregrasp frame, and to OK. *)
Reaches(e) ==
  /\ pc'[e] \in Updating => pc[e] \in Updating \/ status[e] = "succeeded"
  /\ pc'[e] = "object" => UpdatesFrames(e)
  /\ pc'[e] \in {"graspNode", "graspUpdate"} => GraspFrame[e] # NoFrame
  /\ pc'[e] \in {"pregraspNode", "pregraspUpdate"} =>
       /\ PregraspFrame[e] # NoFrame
       /\ \/ pc[e] = "pregraspNode" /\ UNCHANGED frames
          \/ pc[e] = "object" /\ GraspFrame[e] = NoFrame /\ UNCHANGED frames
          \/ pc[e] = "graspUpdate" /\ frames' = Moved(GraspFrame[e], e, "grasp")
  /\ code'[e] = "OK" =>
       \/ ~ UpdatesFrames(e)
       \/ /\ pc[e] = "graspUpdate" /\ PregraspFrame[e] = NoFrame
          /\ frames' = Moved(GraspFrame[e], e, "grasp")
       \/ pc[e] = "pregraspUpdate" /\ frames' = Moved(PregraspFrame[e], e, "pregrasp")

(* When an execution gives its goal up. *)
Abandons(e) ==
  /\ net' \subseteq net \cup {Goal(e), Cancel(e)}
  /\ Cancel(e) \in net' => Cancel(e) \in net \/ code'[e] = "DEADLINE_EXCEEDED"
  /\ code'[e] = "DEADLINE_EXCEEDED" => pc[e] \in {"send", "result"}
  /\ code'[e] = "CANCELLED" => status[e] = "canceled"

(* Up to the goal's result no frame is moved. *)
LEMMA WaitingSteps ==
  ASSUME TypeOK, NEW e \in Executions, Execute(e) \/ CallGraspPlanningAction(e)
  PROVE  pc[e] \in Waiting /\ UNCHANGED frames /\ OnlyOf(e) /\ Reaches(e) /\ Abandons(e)
<1> USE Records DEF At, Waiting, Updating, Codes, Places
<1> DEFINE Effect(place, c) == OnlyOf(e) /\ pc'[e] = place /\ code'[e] = c
<1>1. \A c \in Codes \ {"NONE"} : UNCHANGED serverVars /\ Return(e, c) => Effect("returned", c)
  BY ReturnType
<1>2. \A place \in Places \ {"returned"} :
        UNCHANGED serverVars /\ pc[e] # "returned" /\ Go(e, place) => Effect(place, "NONE")
  BY GoType
<1>3. CASE Execute(e)
  <2>1. pc[e] = "idle" /\ UNCHANGED <<net, frames>>
    BY <1>3 DEF Execute
  <2>2. Effect("connect", "NONE") \/ Effect("returned", "INVALID_ARGUMENT")
    BY <1>1, <1>2, <1>3 DEF Execute
  <2> QED
    BY <2>1, <2>2 DEF Reaches, Abandons
<1>4. CASE Connect(e)
  <2>1. pc[e] = "connect" /\ UNCHANGED frames /\ net' = net \cup {Goal(e)}
    BY <1>4 DEF Connect
  <2>2. Effect("send", "NONE")
    BY <1>2, <1>4 DEF Connect
  <2> QED
    BY <2>1, <2>2 DEF Reaches, Abandons
<1>5. CASE ConnectTimesOut(e)
  <2>1. pc[e] = "connect" /\ UNCHANGED <<net, frames>>
    BY <1>5 DEF ConnectTimesOut
  <2>2. Effect("returned", "UNAVAILABLE")
    BY <1>1, <1>5 DEF ConnectTimesOut
  <2> QED
    BY <2>1, <2>2 DEF Reaches, Abandons
<1>6. CASE SendReturns(e)
  <2>1. pc[e] = "send" /\ UNCHANGED <<net, frames>>
    BY <1>6 DEF SendReturns
  <2>2. Effect("result", "NONE") \/ Effect("returned", "FAILED_PRECONDITION")
    BY <1>1, <1>2, <1>6 DEF SendReturns
  <2> QED
    BY <2>1, <2>2 DEF Reaches, Abandons
<1>7. CASE SendTimesOut(e)
  <2>1. pc[e] = "send" /\ UNCHANGED <<net, frames>>
    BY <1>7 DEF SendTimesOut
  <2>2. Effect("returned", "DEADLINE_EXCEEDED")
    BY <1>1, <1>7 DEF SendTimesOut
  <2> QED
    BY <2>1, <2>2 DEF Reaches, Abandons
<1>8. CASE ResultReturns(e)
  <2>1. pc[e] = "result" /\ UNCHANGED <<net, frames>>
    BY <1>8 DEF ResultReturns
  <2>2. \/ \E c \in {"INTERNAL", "NOT_FOUND"} : Effect("returned", c)
        \/ status[e] = "canceled" /\ Effect("returned", "CANCELLED")
        \/ status[e] = "succeeded" /\ UpdatesFrames(e) /\ Effect("object", "NONE")
        \/ ~ UpdatesFrames(e) /\ Effect("returned", "OK")
    BY <1>1, <1>2, <1>8 DEF ResultReturns, Aborted
  <2> QED
    BY <2>1, <2>2 DEF Reaches, Abandons
<1>9. CASE ResultTimesOut(e)
  <2>1. pc[e] = "result" /\ UNCHANGED frames /\ net' = net \cup {Cancel(e)}
    BY <1>9 DEF ResultTimesOut
  <2>2. Effect("returned", "DEADLINE_EXCEEDED")
    BY <1>1, <1>9 DEF ResultTimesOut
  <2> QED
    BY <2>1, <2>2 DEF Reaches, Abandons
<1> QED
  BY <1>3, <1>4, <1>5, <1>6, <1>7, <1>8, <1>9 DEF CallGraspPlanningAction

(* From then on nothing is asked of the server, and the goal is not given up any more. *)
LEMMA UpdatingSteps ==
  ASSUME TypeOK, NEW e \in Executions, UpdateWorld(e)
  PROVE  /\ pc[e] \in Updating /\ Moves(e) /\ OnlyOf(e) /\ Reaches(e) /\ Abandons(e)
         /\ code'[e] # "DEADLINE_EXCEEDED" /\ pc'[e] \notin Waiting
<1> USE Records DEF At, Waiting, Updating, Codes, Places
<1> DEFINE Effect(place, c) == OnlyOf(e) /\ pc'[e] = place /\ code'[e] = c
<1>1. \A c \in Codes \ {"NONE"} : UNCHANGED serverVars /\ Return(e, c) => Effect("returned", c)
  BY ReturnType
<1>2. \A place \in Places \ {"returned"} :
        UNCHANGED serverVars /\ pc[e] # "returned" /\ Go(e, place) => Effect(place, "NONE")
  BY GoType
<1>3. CASE ResolveObject(e)
  <2>1. pc[e] = "object" /\ UNCHANGED <<net, frames>>
    BY <1>3 DEF ResolveObject
  <2>2. \/ GraspFrame[e] # NoFrame /\ Effect("graspNode", "NONE")
        \/ GraspFrame[e] = NoFrame /\ PregraspFrame[e] # NoFrame /\ Effect("pregraspNode", "NONE")
        \/ Effect("returned", "NOT_FOUND")
    BY <1>1, <1>2, <1>3 DEF ResolveObject, UpdatesFrames, TypeOK
  <2> QED
    BY <2>1, <2>2 DEF Reaches, Abandons, Moves
<1>4. CASE ResolveFrame(e, "graspNode", "graspUpdate")
  <2>1. pc[e] = "graspNode" /\ GraspFrame[e] # NoFrame /\ UNCHANGED <<net, frames>>
    BY <1>4 DEF ResolveFrame, TypeOK
  <2>2. Effect("graspUpdate", "NONE") \/ Effect("returned", "NOT_FOUND")
    BY <1>1, <1>2, <1>4 DEF ResolveFrame
  <2> QED
    BY <2>1, <2>2 DEF Reaches, Abandons, Moves
<1>5. CASE UpdateGraspFrame(e)
  <2>1. pc[e] = "graspUpdate" /\ UNCHANGED net
    BY <1>5 DEF UpdateGraspFrame
  <2>2. CASE frames' = Moved(GraspFrame[e], e, "grasp") /\ AfterGrasp(e)
    <3>1. \/ PregraspFrame[e] # NoFrame /\ Effect("pregraspNode", "NONE")
          \/ PregraspFrame[e] = NoFrame /\ Effect("returned", "OK")
      BY <1>1, <1>2, <1>5, <2>2 DEF UpdateGraspFrame, AfterGrasp
    <3> QED
      BY <2>1, <2>2, <3>1 DEF Reaches, Abandons, Moves
  <2>3. CASE UpdateFails(e, GraspFrame[e], "grasp")
    <3>1. Effect("returned", "INTERNAL")
      BY <1>1, <1>5, <2>3 DEF UpdateGraspFrame, UpdateFails
    <3>2. frames' \in {frames, Moved(GraspFrame[e], e, "grasp")}
      BY <2>3 DEF UpdateFails
    <3> QED
      BY <2>1, <3>1, <3>2 DEF Reaches, Abandons, Moves
  <2> QED
    BY <1>5, <2>2, <2>3 DEF UpdateGraspFrame
<1>6. CASE ResolveFrame(e, "pregraspNode", "pregraspUpdate")
  <2>1. pc[e] = "pregraspNode" /\ PregraspFrame[e] # NoFrame /\ UNCHANGED <<net, frames>>
    BY <1>6 DEF ResolveFrame, TypeOK
  <2>2. Effect("pregraspUpdate", "NONE") \/ Effect("returned", "NOT_FOUND")
    BY <1>1, <1>2, <1>6 DEF ResolveFrame
  <2> QED
    BY <2>1, <2>2 DEF Reaches, Abandons, Moves
<1>7. CASE UpdatePregraspFrame(e)
  <2>1. pc[e] = "pregraspUpdate" /\ UNCHANGED net
    BY <1>7 DEF UpdatePregraspFrame
  <2>2. CASE frames' = Moved(PregraspFrame[e], e, "pregrasp") /\ Return(e, "OK")
    <3>1. Effect("returned", "OK")
      BY <1>1, <1>7, <2>2 DEF UpdatePregraspFrame
    <3> QED
      BY <2>1, <2>2, <3>1 DEF Reaches, Abandons, Moves
  <2>3. CASE UpdateFails(e, PregraspFrame[e], "pregrasp")
    <3>1. Effect("returned", "INTERNAL")
      BY <1>1, <1>7, <2>3 DEF UpdatePregraspFrame, UpdateFails
    <3>2. frames' \in {frames, Moved(PregraspFrame[e], e, "pregrasp")}
      BY <2>3 DEF UpdateFails
    <3> QED
      BY <2>1, <3>1, <3>2 DEF Reaches, Abandons, Moves
  <2> QED
    BY <1>7, <2>2, <2>3 DEF UpdatePregraspFrame
<1> QED
  BY <1>3, <1>4, <1>5, <1>6, <1>7 DEF UpdateWorld

LEMMA SkillSteps ==
  ASSUME TypeOK, NEW e \in Executions, SkillStep(e)
  PROVE  /\ pc[e] \in Waiting \cup Updating
         /\ Moves(e) /\ OnlyOf(e) /\ Reaches(e) /\ Abandons(e)
         /\ code'[e] = "DEADLINE_EXCEEDED" => pc[e] \in Waiting
         /\ pc[e] \in Updating => pc'[e] \notin Waiting
BY WaitingSteps, UpdatingSteps DEF SkillStep, Moves, Waiting, Updating

-----------------------------------------------------------------------------
(* Type correctness. *)

LEMMA InitType == Init => TypeOK
BY ExecutionsAssumption DEF Init, Server!Init, TypeOK, Requests, Waiting, Codes

LEMMA NetType ==
  ASSUME TypeOK, NEW e \in Executions, Abandons(e)
  PROVE  net' \subseteq Requests
BY DEF TypeOK, Abandons, Requests, Goal, Cancel

LEMMA FramesType ==
  ASSUME TypeOK, NEW e \in Executions, Moves(e)
  PROVE  frames' \in [Frames -> [of : Executions \cup {NoOne}, pose : {"before", "grasp", "pregrasp"}]]
BY DEF TypeOK, Moves, Moved

LEMMA NextType == TypeOK /\ [Next]_vars => TypeOK'
<1> SUFFICES ASSUME TypeOK, [Next]_vars PROVE TypeOK'
  OBVIOUS
<1>1. CASE UNCHANGED vars
  BY <1>1 DEF vars, serverVars, TypeOK, UpdatesFrames
<1>2. CASE Lose
  <2>1. UNCHANGED <<status, size, frames, pc, code>> /\ net' \subseteq net
    BY <1>2 DEF Lose, serverVars
  <2> QED
    BY <2>1 DEF TypeOK, UpdatesFrames
<1>3. ASSUME NEW e \in Executions, ServerStep(e) PROVE TypeOK'
  <2>1. PICK s \in {"unsent", "rejected", "executing", "canceling",
                    "succeeded", "aborted", "canceled"} :
          status' = [status EXCEPT ![e] = s]
    BY <1>3, ServerSteps
  <2>2. /\ UNCHANGED <<frames, pc, code>>
        /\ net' \subseteq net
        /\ size' \in [Executions -> Nat]
    BY <1>3, ServerSteps
  <2> QED
    BY <2>1, <2>2 DEF TypeOK, UpdatesFrames
<1>4. ASSUME NEW e \in Executions, SkillStep(e) PROVE TypeOK'
  <2>1. Moves(e) /\ OnlyOf(e) /\ Reaches(e) /\ Abandons(e)
    BY <1>4, SkillSteps
  <2>2. net' \subseteq Requests
    BY <2>1, NetType
  <2>3. frames' \in [Frames -> [of : Executions \cup {NoOne}, pose : {"before", "grasp", "pregrasp"}]]
    BY <2>1, FramesType
  <2>4. /\ UNCHANGED <<status, size>>
        /\ pc' \in [Executions -> Waiting \cup Updating \cup {"returned"}]
        /\ code' \in [Executions -> Codes]
        /\ \A d \in Executions \ {e} : pc'[d] = pc[d] /\ code'[d] = code[d]
    BY <2>1 DEF OnlyOf, TypeOK, serverVars, Places
  <2>5. \A d \in Executions :
          /\ pc'[d] = "object" => UpdatesFrames(d)
          /\ pc'[d] \in {"graspNode", "graspUpdate"} => GraspFrame[d] # NoFrame
          /\ pc'[d] \in {"pregraspNode", "pregraspUpdate"} => PregraspFrame[d] # NoFrame
    BY <2>1, <2>4 DEF Reaches, TypeOK
  <2>6. \A d \in Executions : code'[d] = "NONE" <=> pc'[d] # "returned"
    BY <2>1, <2>4 DEF OnlyOf, TypeOK
  <2> QED
    BY <2>2, <2>3, <2>4, <2>5, <2>6 DEF TypeOK, UpdatesFrames
<1> QED
  BY <1>1, <1>2, <1>3, <1>4 DEF Next, ServerStep, SkillStep

(* Every variable stays in its set, however the requests and the server interleave. *)
THEOREM TypeCorrect == Spec => []TypeOK
BY InitType, NextType, PTL DEF Spec

-----------------------------------------------------------------------------
(* Goals and their executions. *)

(* Only who has given up asks for a cancelation; who updates frames has a goal that succeeded. *)
GoalsOK ==
  \A e \in Executions :
    /\ status[e] \in {"canceling", "canceled"} => code[e] = "DEADLINE_EXCEEDED"
    /\ Cancel(e) \in net => code[e] = "DEADLINE_EXCEEDED"
    /\ code[e] # "CANCELLED"
    /\ pc[e] \in Updating => status[e] = "succeeded"

MovedFramesOK ==
  \A f \in Frames : frames[f].of # NoOne =>
    LET e == frames[f].of IN
    /\ status[e] = "succeeded"
    /\ code[e] # "DEADLINE_EXCEEDED"
    /\ pc[e] \notin Waiting

LEMMA InitGoals == Init => GoalsOK /\ MovedFramesOK
BY DEF Init, Server!Init, GoalsOK, MovedFramesOK, Updating

LEMMA NextGoals == TypeOK /\ GoalsOK /\ [Next]_vars => GoalsOK'
<1> SUFFICES ASSUME TypeOK, GoalsOK, [Next]_vars PROVE GoalsOK'
  OBVIOUS
<1>1. CASE UNCHANGED vars
  BY <1>1 DEF vars, serverVars, GoalsOK
<1>2. CASE Lose
  BY <1>2 DEF Lose, serverVars, GoalsOK
<1>3. ASSUME NEW e \in Executions, ServerStep(e) PROVE GoalsOK'
  <2>1. UNCHANGED <<pc, code>> /\ net' \subseteq net
    BY <1>3, ServerSteps
  <2>2. PICK s \in {"unsent", "rejected", "executing", "canceling",
                    "succeeded", "aborted", "canceled"} :
          /\ status' = [status EXCEPT ![e] = s]
          /\ status[e] = "succeeded" => s = "succeeded"
          /\ s = "canceling" => status[e] = "canceling" \/ Cancel(e) \in net
          /\ s = "canceled" => status[e] \in {"canceling", "canceled"}
    BY <1>3, ServerSteps
  <2> QED
    BY <2>1, <2>2 DEF GoalsOK, TypeOK
<1>4. ASSUME NEW e \in Executions, SkillStep(e) PROVE GoalsOK'
  <2>1. OnlyOf(e) /\ Reaches(e) /\ Abandons(e) /\ pc[e] # "returned"
    BY <1>4, SkillSteps DEF Waiting, Updating
  <2>2. /\ UNCHANGED status
        /\ \A d \in Executions \ {e} : pc'[d] = pc[d] /\ code'[d] = code[d]
        /\ code[e] = "NONE"
    BY <2>1 DEF OnlyOf, TypeOK, serverVars
  <2>3. \A d \in Executions \ {e} : Cancel(d) \in net' => Cancel(d) \in net
    BY <2>1, Records DEF Abandons
  <2> QED
    BY <2>1, <2>2, <2>3 DEF GoalsOK, Reaches, Abandons
<1> QED
  BY <1>1, <1>2, <1>3, <1>4 DEF Next, ServerStep, SkillStep

LEMMA NextMovedFrames == TypeOK /\ GoalsOK /\ MovedFramesOK /\ [Next]_vars => MovedFramesOK'
<1> SUFFICES ASSUME TypeOK, GoalsOK, MovedFramesOK, [Next]_vars,
                    NEW f \in Frames, frames'[f].of # NoOne
             PROVE  LET e == frames'[f].of IN
                    /\ status'[e] = "succeeded"
                    /\ code'[e] # "DEADLINE_EXCEEDED"
                    /\ pc'[e] \notin Waiting
  BY DEF MovedFramesOK
<1>1. CASE UNCHANGED vars
  BY <1>1 DEF vars, serverVars, MovedFramesOK
<1>2. CASE Lose
  BY <1>2 DEF Lose, serverVars, MovedFramesOK
<1>3. ASSUME NEW e \in Executions, ServerStep(e) PROVE status'[frames'[f].of] = "succeeded"
  <2>1. UNCHANGED frames
    BY <1>3, ServerSteps
  <2>2. PICK s : status' = [status EXCEPT ![e] = s] /\ (status[e] = "succeeded" => s = "succeeded")
    BY <1>3, ServerSteps
  <2> QED
    BY <2>1, <2>2 DEF MovedFramesOK, TypeOK
<1>4. ASSUME NEW e \in Executions, ServerStep(e) PROVE UNCHANGED <<frames, pc, code>>
  BY <1>4, ServerSteps
<1>5. ASSUME NEW e \in Executions, SkillStep(e)
      PROVE  LET d == frames'[f].of IN
             /\ status'[d] = "succeeded"
             /\ code'[d] # "DEADLINE_EXCEEDED"
             /\ pc'[d] \notin Waiting
  <2>1. /\ pc[e] \in Waiting \cup Updating
        /\ Moves(e) /\ OnlyOf(e) /\ Reaches(e) /\ Abandons(e)
        /\ code'[e] = "DEADLINE_EXCEEDED" => pc[e] \in Waiting
    BY <1>5, SkillSteps
  <2>2. /\ UNCHANGED status
        /\ \A d \in Executions \ {e} : pc'[d] = pc[d] /\ code'[d] = code[d]
    BY <2>1 DEF OnlyOf, TypeOK, serverVars
  <2>3. pc[e] \in Updating => pc'[e] \notin Waiting
    BY <1>5, SkillSteps
  <2>4. CASE frames'[f] = frames[f]
    <3> DEFINE d == frames[f].of
    <3>1. d \in Executions
      BY <2>4 DEF TypeOK
    <3>2. status[d] = "succeeded" /\ code[d] # "DEADLINE_EXCEEDED" /\ pc[d] \notin Waiting
      BY <2>4 DEF MovedFramesOK
    <3>3. status'[d] = "succeeded" /\ code'[d] # "DEADLINE_EXCEEDED" /\ pc'[d] \notin Waiting
      BY <2>1, <2>2, <2>3, <3>1, <3>2
    <3> QED
      BY <2>4, <3>3
  <2>5. CASE frames'[f].of = e /\ pc[e] \in {"graspUpdate", "pregraspUpdate"}
    BY <2>1, <2>2, <2>3, <2>5 DEF GoalsOK, Updating, Waiting
  <2>6. \/ frames'[f] = frames[f]
        \/ frames'[f].of = e /\ pc[e] \in {"graspUpdate", "pregraspUpdate"}
    BY <2>1 DEF Moves, Moved, TypeOK
  <2> QED
    BY <2>4, <2>5, <2>6
<1> QED
  BY <1>1, <1>2, <1>3, <1>4, <1>5 DEF Next, ServerStep, SkillStep, MovedFramesOK

-----------------------------------------------------------------------------
(* The two frames of an execution. *)

(* Who has begun has waited for those before it. *)
OrderOK == \A e \in Executions : \A d \in Earlier[e] : pc[e] # "idle" => pc[d] = "returned"

LEMMA NextOrder == TypeOK /\ OrderOK /\ [Next]_vars => OrderOK'
<1> SUFFICES ASSUME TypeOK, OrderOK, [Next]_vars PROVE OrderOK'
  OBVIOUS
<1>1. CASE UNCHANGED pc
  BY <1>1 DEF OrderOK
<1>2. ASSUME NEW e \in Executions, SkillStep(e) PROVE OrderOK'
  <2>1. PICK place \in Places : pc' = [pc EXCEPT ![e] = place]
    BY <1>2, SkillSteps DEF OnlyOf
  <2>2. pc[e] # "returned"
    BY <1>2, SkillSteps DEF Waiting, Updating
  <2>3. pc[e] = "idle" => \A d \in Earlier[e] : pc[d] = "returned"
    BY <1>2, UpdatingSteps
       DEF SkillStep, Execute, CallGraspPlanningAction, Connect, ConnectTimesOut, SendReturns,
           SendTimesOut, ResultReturns, ResultTimesOut, At, Updating
  <2>4. \A d \in Executions : pc[d] = "returned" => pc'[d] = "returned"
    BY <2>1, <2>2 DEF TypeOK
  <2>5. \A d \in Executions \ {e} : pc'[d] = pc[d]
    BY <2>1 DEF TypeOK
  <2> QED
    BY <2>3, <2>4, <2>5, ExecutionsAssumption DEF OrderOK
<1> QED
  BY <1>1, <1>2, ServerSteps DEF Next, ServerStep, SkillStep, Lose, vars

(***************************************************************************)
(* Who has moved its grasp frame moves the pregrasp frame that belongs to  *)
(* it next, or says that it failed.                                        *)
(***************************************************************************)
GoesOn(e) ==
  /\ frames' # frames /\ frames' = Moved(GraspFrame[e], e, "grasp") /\ pc[e] = "graspUpdate"
       => PregraspFrame[e] = NoFrame \/ NotSettled(e)'
  /\ pc[e] \in {"pregraspNode", "pregraspUpdate"}
       => NotSettled(e)' \/ frames' = Moved(PregraspFrame[e], e, "pregrasp")

LEMMA UpdatesGoOn ==
  ASSUME TypeOK, NEW e \in Executions, SkillStep(e)
  PROVE  GoesOn(e)
<1> USE DEF GoesOn, NotSettled, TypeOK, At
<1>1. CASE pc[e] \notin {"graspUpdate", "pregraspNode", "pregraspUpdate"}
  BY <1>1
<1>2. CASE UpdateGraspFrame(e)
  BY <1>2 DEF UpdateGraspFrame, UpdateFails, AfterGrasp, Go, Return
<1>3. CASE ResolveFrame(e, "pregraspNode", "pregraspUpdate")
  BY <1>3 DEF ResolveFrame, Go, Return
<1>4. CASE UpdatePregraspFrame(e)
  BY <1>4 DEF UpdatePregraspFrame, UpdateFails, Return
<1>5. pc[e] \in {"graspUpdate", "pregraspNode", "pregraspUpdate"} =>
        \/ UpdateGraspFrame(e)
        \/ ResolveFrame(e, "pregraspNode", "pregraspUpdate")
        \/ UpdatePregraspFrame(e)
  BY WaitingSteps
     DEF SkillStep, UpdateWorld, ResolveObject, ResolveFrame, Waiting
<1> QED
  BY <1>1, <1>2, <1>3, <1>4, <1>5

(* Until its pregrasp frame is moved an execution's grasp frame stays where it put it. *)
PairOK(e) ==
  /\ pc[e] \in {"pregraspNode", "pregraspUpdate"} => Has(GraspFrame[e], e, "grasp")
  /\ PregraspFrame[e] # NoFrame /\ frames[PregraspFrame[e]].of = e =>
       Has(GraspFrame[e], e, "grasp") \/ MovedAway(e)
  /\ code[e] = "OK" /\ NotUsedAgain(e) =>
       Has(GraspFrame[e], e, "grasp") /\ Has(PregraspFrame[e], e, "pregrasp")

PairsOK == \A e \in Executions : Exclusive(e) => PairOK(e)

LEMMA InitPairs == Init => PairsOK /\ OrderOK
BY ExecutionsAssumption DEF Init, PairsOK, PairOK, OrderOK

(* A frame of e that somebody moved was moved by who is past its waits. *)
LEMMA Movers ==
  ASSUME TypeOK, MovedFramesOK, NEW f \in Frames, NEW e \in Executions, frames[f].of = e
  PROVE  pc[e] \notin Waiting
BY ExecutionsAssumption DEF TypeOK, MovedFramesOK

(* What nobody moves stays as it is, and no plan that succeeded is undone. *)
LEMMA PairKept ==
  ASSUME NEW e \in Executions, PairOK(e), pc'[e] = pc[e], code'[e] = code[e],
         \A f \in Targets(e) : frames'[f] = frames[f],
         MovedAway(e) /\ GraspFrame[e] # NoFrame => MovedAway(e)',
         NotUsedAgain(e)' => NotUsedAgain(e)
  PROVE  PairOK(e)'
BY DEF PairOK, Has, Targets

LEMMA PairKeptByAll ==
  ASSUME NEW e \in Executions, PairOK(e), UNCHANGED <<frames, pc, code>>,
         \A d \in Executions : status[d] = "succeeded" => status'[d] = "succeeded"
  PROVE  PairOK(e)'
BY DEF PairOK, Has, MovedAway, NotSettled, NotUsedAgain, Sharing

(* An execution that shares no frame with e. *)
LEMMA PairKeptByStranger ==
  ASSUME TypeOK, NEW e \in Executions, PairOK(e), NEW d \in Executions \ {e},
         d \notin Sharing(e), SkillStep(d)
  PROVE  PairOK(e)'
<1>1. Moves(d) /\ OnlyOf(d)
  BY SkillSteps
<1>2. /\ \A c \in Executions \ {d} : pc'[c] = pc[c] /\ code'[c] = code[c]
      /\ status' = status
  BY <1>1 DEF OnlyOf, TypeOK, serverVars
<1>3. Targets(d) \cap Targets(e) = {}
  BY DEF Sharing
<1>4. /\ pc[d] = "graspUpdate" => GraspFrame[d] \in Targets(d)
      /\ pc[d] = "pregraspUpdate" => PregraspFrame[d] \in Targets(d)
  BY DEF TypeOK, Targets
<1>5. \A f \in Targets(e) : f \in Frames
  BY ExecutionsAssumption DEF Targets
<1>6. \A f \in Targets(e) : frames'[f] = frames[f]
  BY <1>1, <1>3, <1>4, <1>5 DEF Moves, Moved, TypeOK
<1>7. \A c \in Sharing(e) : c \in Executions \ {d}
  BY DEF Sharing
<1>8. MovedAway(e) /\ GraspFrame[e] # NoFrame => MovedAway(e)'
  BY <1>2, <1>6, <1>7 DEF MovedAway, NotSettled, Targets
<1>9. NotUsedAgain(e)' => NotUsedAgain(e)
  BY <1>2, <1>7 DEF NotUsedAgain
<1> QED
  BY <1>2, <1>6, <1>8, <1>9, PairKept

(* An execution that e waits for finds e not begun. *)
LEMMA PairKeptByEarlier ==
  ASSUME TypeOK, MovedFramesOK, OrderOK, NEW e \in Executions, NEW d \in Earlier[e] \ {e},
         SkillStep(d)
  PROVE  PairOK(e)'
<1>1. d \in Executions
  BY ExecutionsAssumption
<1>2. Moves(d) /\ OnlyOf(d) /\ pc[d] # "returned"
  BY <1>1, SkillSteps DEF Waiting, Updating
<1>3. pc[e] = "idle" /\ pc'[e] = "idle" /\ code'[e] = "NONE"
  BY <1>1, <1>2 DEF OrderOK, OnlyOf, TypeOK
<1>4. \A f \in Frames : frames[f].of # e
  BY <1>3, Movers DEF Waiting
<1>5. \A f \in Frames : frames'[f].of # e
  BY <1>1, <1>2, <1>4 DEF Moves, Moved, TypeOK
<1> QED
  BY <1>3, <1>5, ExecutionsAssumption DEF PairOK

(* An execution that waited for e finds it returned, and may move its frames. *)
LEMMA PairKeptByLater ==
  ASSUME TypeOK, GoalsOK, MovedFramesOK, OrderOK, NEW e \in Executions, Exclusive(e), PairOK(e),
         NEW d \in Sharing(e), e \in Earlier[d], SkillStep(d)
  PROVE  PairOK(e)'
<1> DEFINE G == GraspFrame[e]
           P == PregraspFrame[e]
<1>1. d \in Executions \ {e}
  BY DEF Sharing
<1>2. Moves(d) /\ OnlyOf(d)
  BY <1>1, SkillSteps
<1>3. /\ \A c \in Executions \ {d} : pc'[c] = pc[c] /\ code'[c] = code[c]
      /\ status' = status
  BY <1>1, <1>2 DEF OnlyOf, TypeOK, serverVars
<1>4. G \in Frames \cup {NoFrame} /\ P \in Frames \cup {NoFrame}
  BY ExecutionsAssumption
<1>5. CASE pc[d] \in Waiting
  <2>1. frames' = frames
    BY <1>1, <1>5, WaitingSteps, UpdatingSteps DEF SkillStep, Waiting, Updating
  <2>2. MovedAway(e) /\ G # NoFrame => MovedAway(e)'
    <3> SUFFICES ASSUME G # NoFrame, NEW c \in Sharing(e), c = frames[G].of, e \in Earlier[c],
                        SamePair(c, e) => NotSettled(c)
                 PROVE  MovedAway(e)'
      BY DEF MovedAway
    <3>1. c \in Executions
      BY DEF Sharing
    <3>2. c # d
      BY <1>4, <1>5, <3>1, Movers
    <3> QED
      BY <1>3, <2>1, <3>1, <3>2 DEF MovedAway, NotSettled
  <2>3. NotUsedAgain(e)' => NotUsedAgain(e)
    BY <1>3, <1>5 DEF NotUsedAgain, Sharing
  <2> QED
    BY <1>1, <1>3, <2>1, <2>2, <2>3, PairKept
<1>6. CASE pc[d] \in Updating
  <2>1. pc[e] = "returned" /\ pc'[e] = "returned"
    BY <1>1, <1>3, <1>6 DEF OrderOK, Updating
  <2>2. ~ NotUsedAgain(e)'
    <3>1. status'[d] = "succeeded" /\ pc'[d] \notin Waiting
      BY <1>1, <1>3, <1>6, SkillSteps DEF GoalsOK
    <3> QED
      BY <3>1 DEF NotUsedAgain
  <2>3. ASSUME P # NoFrame, frames'[P].of = e
        PROVE  Has(G, e, "grasp")' \/ MovedAway(e)'
    <3>1. frames'[P] = frames[P] /\ frames' # Moved(P, d, "pregrasp")
      BY <1>1, <1>2, <1>4, <2>3 DEF Moves, Moved, TypeOK
    <3>2. GoesOn(d)
      BY <1>1, UpdatesGoOn
    <3>3. CASE G = NoFrame
      BY <3>3 DEF Has
    <3>4. CASE G # NoFrame /\ frames'[G] = frames[G]
      <4>1. CASE Has(G, e, "grasp")
        BY <3>4, <4>1 DEF Has
      <4>2. ASSUME NEW c \in Sharing(e), c = frames[G].of, e \in Earlier[c],
                   SamePair(c, e) => NotSettled(c)
            PROVE  MovedAway(e)'
        <5>1. CASE c = d
          <6>1. code[d] = "NONE"
            BY <1>1, <1>6 DEF TypeOK, Updating
          <6>2. SamePair(d, e) => NotSettled(d)'
            BY <3>1, <3>2, <4>2, <5>1, <6>1 DEF GoesOn, NotSettled, SamePair
          <6> QED
            BY <3>4, <4>2, <5>1, <6>2 DEF MovedAway, SamePair
        <5>2. CASE c # d
          BY <1>3, <3>4, <4>2, <5>2 DEF MovedAway, NotSettled, Sharing
        <5> QED
          BY <5>1, <5>2
      <4> QED
        BY <2>3, <3>1, <4>1, <4>2 DEF PairOK, MovedAway
    <3>5. CASE G # NoFrame /\ frames'[G] # frames[G]
      <4>1. frames'[G].of = d
        BY <1>1, <1>2, <1>4, <3>5 DEF Moves, Moved, TypeOK
      <4>2. SamePair(d, e) =>
              pc[d] = "graspUpdate" /\ frames' # frames /\ frames' = Moved(GraspFrame[d], d, "grasp")
        BY <1>2, <3>1, <3>5 DEF Moves, SamePair
      <4>3. SamePair(d, e) => NotSettled(d)'
        BY <2>3, <3>2, <4>2 DEF GoesOn, SamePair
      <4> QED
        BY <4>1, <4>3 DEF MovedAway, SamePair
    <3> QED
      BY <3>3, <3>4, <3>5
  <2> QED
    BY <2>1, <2>2, <2>3 DEF PairOK
<1> QED
  BY <1>1, <1>5, <1>6, SkillSteps

(* Its own steps: nobody has moved its frames since it began. *)
LEMMA PairKeptByItself ==
  ASSUME TypeOK, TypeOK', MovedFramesOK, OrderOK, NEW e \in Executions, Exclusive(e), PairOK(e),
         SkillStep(e)
  PROVE  PairOK(e)'
<1> DEFINE G == GraspFrame[e]
           P == PregraspFrame[e]
<1>1. /\ pc[e] \in Waiting \cup Updating
      /\ Moves(e) /\ OnlyOf(e) /\ Reaches(e)
  BY SkillSteps
<1>2. /\ G \in Frames \cup {NoFrame} /\ P \in Frames \cup {NoFrame}
      /\ G = NoFrame \/ G # P
      /\ pc[e] = "graspUpdate" => G # NoFrame
      /\ pc[e] = "pregraspUpdate" => P # NoFrame
  BY ExecutionsAssumption DEF Exclusive, TypeOK
<1>3. frames' = Moved(G, e, "grasp") /\ G # NoFrame =>
        /\ frames'[G] = [of |-> e, pose |-> "grasp"]
        /\ P # NoFrame => frames'[P] = frames[P]
  BY <1>2, ExecutionsAssumption DEF Moved, TypeOK
<1>4. frames' = Moved(P, e, "pregrasp") /\ P # NoFrame =>
        /\ frames'[P] = [of |-> e, pose |-> "pregrasp"]
        /\ G # NoFrame => frames'[G] = frames[G]
  BY <1>2, ExecutionsAssumption DEF Moved, TypeOK
<1>5. pc[e] \in {"pregraspNode", "pregraspUpdate"} => Has(G, e, "grasp")
  BY DEF PairOK
<1>6. G # NoFrame => ~ MovedAway(e)
  <2> SUFFICES ASSUME G # NoFrame, NEW d \in Sharing(e), d = frames[G].of, e \in Earlier[d]
               PROVE  FALSE
    BY DEF MovedAway
  <2>1. d \in Executions
    BY DEF Sharing
  <2>2. pc[d] # "idle"
    BY <1>2, <2>1, Movers DEF Waiting
  <2> QED
    BY <1>1, <2>1, <2>2 DEF OrderOK, Waiting, Updating
<1>7. P # NoFrame /\ frames[P].of = e => Has(G, e, "grasp")
  BY <1>6 DEF PairOK, Has
<1>8. pc'[e] \in {"pregraspNode", "pregraspUpdate"} => Has(G, e, "grasp")'
  BY <1>1, <1>2, <1>3, <1>5 DEF Reaches, Has
<1>9. P # NoFrame /\ frames'[P].of = e => Has(G, e, "grasp")'
  BY <1>1, <1>2, <1>3, <1>4, <1>5, <1>7 DEF Moves, Has
<1>10. code'[e] = "OK" => Has(G, e, "grasp")' /\ Has(P, e, "pregrasp")'
  BY <1>1, <1>2, <1>3, <1>4, <1>5 DEF Reaches, Has, UpdatesFrames
<1> QED
  BY <1>8, <1>9, <1>10 DEF PairOK

LEMMA NextPairs ==
  TypeOK /\ TypeOK' /\ GoalsOK /\ MovedFramesOK /\ OrderOK /\ PairsOK /\ [Next]_vars => PairsOK'
<1> SUFFICES ASSUME TypeOK, TypeOK', GoalsOK, MovedFramesOK, OrderOK, PairsOK, [Next]_vars,
                    NEW e \in Executions, Exclusive(e)
             PROVE  PairOK(e)'
  BY DEF PairsOK, Exclusive, Sharing, Targets
<1>1. PairOK(e)
  BY DEF PairsOK
<1>2. CASE UNCHANGED vars
  BY <1>1, <1>2, PairKeptByAll DEF vars, serverVars
<1>3. CASE Lose
  BY <1>1, <1>3, PairKeptByAll DEF Lose, serverVars
<1>4. ASSUME NEW d \in Executions, ServerStep(d) PROVE PairOK(e)'
  <2>1. UNCHANGED <<frames, pc, code>>
    BY <1>4, ServerSteps
  <2>2. PICK s : status' = [status EXCEPT ![d] = s] /\ (status[d] = "succeeded" => s = "succeeded")
    BY <1>4, ServerSteps
  <2>3. \A c \in Executions : status[c] = "succeeded" => status'[c] = "succeeded"
    BY <2>2 DEF TypeOK
  <2> QED
    BY <1>1, <2>1, <2>3, PairKeptByAll
<1>5. ASSUME NEW d \in Executions, SkillStep(d) PROVE PairOK(e)'
  <2>1. CASE d = e
    BY <1>1, <1>5, <2>1, PairKeptByItself
  <2>2. CASE d # e /\ d \notin Sharing(e)
    BY <1>1, <1>5, <2>2, PairKeptByStranger
  <2>3. CASE d # e /\ d \in Earlier[e]
    BY <1>5, <2>3, PairKeptByEarlier
  <2>4. CASE d \in Sharing(e) /\ e \in Earlier[d]
    BY <1>1, <1>5, <2>4, PairKeptByLater
  <2> QED
    BY <2>1, <2>2, <2>3, <2>4 DEF Exclusive
<1> QED
  BY <1>2, <1>3, <1>4, <1>5 DEF Next, ServerStep, SkillStep

-----------------------------------------------------------------------------
(* The theorems. *)

IInv == TypeOK /\ GoalsOK /\ MovedFramesOK /\ OrderOK /\ PairsOK

LEMMA Invariance == Spec => []IInv
<1>1. Init => IInv
  BY InitType, InitGoals, InitPairs DEF IInv
<1>2. IInv /\ [Next]_vars => IInv'
  BY NextType, NextGoals, NextMovedFrames, NextOrder, NextPairs DEF IInv
<1> QED
  BY <1>1, <1>2, PTL DEF Spec

(***************************************************************************)
(* No frame of the World is moved to what an aborted or canceled goal had  *)
(* found, nor by an execution that has given its goal up, however late     *)
(* answers and cancel requests arrive.                                     *)
(***************************************************************************)
THEOREM FramesCorrect == Spec => []FramesFromSucceededPlans
<1>1. IInv => FramesFromSucceededPlans
  BY DEF IInv, MovedFramesOK, FramesFromSucceededPlans
<1> QED
  BY <1>1, Invariance, PTL

(***************************************************************************)
(* A goal is canceled only on behalf of its own execution, after that has  *)
(* given it up.                                                            *)
(***************************************************************************)
THEOREM CancelsCorrect == Spec => []NoStrayCancel
<1>1. IInv => NoStrayCancel
  BY DEF IInv, GoalsOK, NoStrayCancel
<1> QED
  BY <1>1, Invariance, PTL

(***************************************************************************)
(* An execution that says OK has moved each of its frames to the pose that *)
(* is meant for it, whatever earlier executions left there, and there they *)
(* stay until a later one that is given them has a plan that succeeded.    *)
(***************************************************************************)
THEOREM OkCorrect == Spec => []OkMeansBothFrames
<1>1. IInv => OkMeansBothFrames
  BY DEF IInv, PairsOK, PairOK, OkMeansBothFrames
<1> QED
  BY <1>1, Invariance, PTL

(***************************************************************************)
(* For frames that one execution after the other uses: an approach that    *)
(* leads to the pose of another grasp was left by an execution before the  *)
(* one that moved the grasp frame; given the same pair, this one is still  *)
(* between its two updates, or has said that it failed.                    *)
(***************************************************************************)
THEOREM ApproachCorrect == Spec => []OldApproachIsReported
<1>1. IInv => OldApproachIsReported
  BY DEF IInv, PairsOK, PairOK, OldApproachIsReported
<1> QED
  BY <1>1, Invariance, PTL

-----------------------------------------------------------------------------
(* The server the executions assume is that of GoalLifecycle, and no other. *)

LEMMA ServerIsStep == TypeOK /\ [Next]_vars => [Server!Next]_serverVars
<1> SUFFICES ASSUME TypeOK, [Next]_vars PROVE [Server!Next]_serverVars
  OBVIOUS
<1>1. ASSUME NEW e \in Executions, HandleGoal(e) PROVE Server!Next
  BY <1>1 DEF HandleGoal, Server!Next
<1>2. ASSUME NEW e \in Executions, HandleCancel(e) PROVE [Server!Next]_serverVars
  BY <1>2 DEF HandleCancel, Server!Next, serverVars
<1>3. ASSUME NEW e \in Executions, GoalEnds(e) PROVE Server!Next
  BY <1>3 DEF GoalEnds, Server!Next
<1>4. ASSUME NEW e \in Executions, SkillStep(e) PROVE UNCHANGED serverVars
  BY <1>4, SkillSteps DEF OnlyOf
<1>5. CASE Lose
  BY <1>5 DEF Lose
<1>6. CASE UNCHANGED vars
  BY <1>6 DEF vars, serverVars
<1> QED
  BY <1>1, <1>2, <1>3, <1>4, <1>5, <1>6 DEF Next, SkillStep

(***************************************************************************)
(* Whatever the executions, the network and their timeouts do, the goals   *)
(* in the server keep to the protocol that GraspAction is shown to keep:   *)
(* nothing else is asked of the real server.                               *)
(***************************************************************************)
THEOREM GoalsKeepProtocol == Spec => Server!Init /\ [][Server!Next]_serverVars
<1>1. Init => Server!Init
  BY DEF Init
<1> QED
  BY <1>1, ServerIsStep, TypeCorrect, PTL DEF Spec

-----------------------------------------------------------------------------
(* What an execution may take for granted of its goal. *)

(***************************************************************************)
(* The skill takes the first of the grasps it was brought: when it comes   *)
(* to move a frame there is one, and no more than it asked for.            *)
(***************************************************************************)
BestGraspExists == \A e \in Executions : pc[e] \in Updating => size[e] \in 1 .. Limit[e]

SizesOK == \A e \in Executions : status[e] = "succeeded" => size[e] \in 1 .. Limit[e]

LEMMA SizesStep == TypeOK /\ SizesOK /\ [Server!Next]_serverVars => SizesOK'
<1> SUFFICES ASSUME TypeOK, SizesOK, [Server!Next]_serverVars PROVE SizesOK'
  OBVIOUS
<1> USE DEF TypeOK, SizesOK, Server!Step
<1>1. ASSUME NEW e \in Executions, Server!Succeed(e) PROVE SizesOK'
  <2>1. PICK n \in 1 .. Limit[e] : size' = [size EXCEPT ![e] = n]
    BY <1>1 DEF Server!Succeed
  <2> QED
    BY <1>1, <2>1 DEF Server!Succeed
<1>2. ASSUME NEW e \in Executions, Server!GiveUp(e) PROVE SizesOK'
  BY <1>2 DEF Server!GiveUp
<1>3. ASSUME NEW e \in Executions, UNCHANGED size, Server!Answer(e) \/ Server!AcceptCancel(e)
      PROVE  SizesOK'
  BY <1>3 DEF Server!Answer, Server!AcceptCancel
<1>4. CASE UNCHANGED serverVars
  BY <1>4 DEF serverVars
<1> QED
  BY <1>1, <1>2, <1>3, <1>4 DEF Server!Next, Server!End

(* The best grasp is there when the skill moves a frame to it. *)
THEOREM BestGraspCorrect == Spec => []BestGraspExists
<1>1. Init => SizesOK
  BY DEF Init, Server!Init, SizesOK
<1>2. IInv /\ SizesOK => BestGraspExists
  BY DEF IInv, GoalsOK, SizesOK, BestGraspExists
<1> QED
  BY <1>1, <1>2, Invariance, TypeCorrect, ServerIsStep, SizesStep, PTL DEF Spec

(***************************************************************************)
(* A goal is sent once and answered once: a request on its way is of a     *)
(* goal the server does not know yet, the server knows no goal nobody has  *)
(* sent, and a cancel request follows its goal.                            *)
(***************************************************************************)
GoalsAreSentOnce ==
  \A e \in Executions :
    /\ Goal(e) \in net => status[e] = "unsent"
    /\ Goal(e) \in net \/ status[e] # "unsent" => pc[e] \notin {"idle", "connect"}
    /\ Cancel(e) \in net => status[e] # "unsent"

(* Who waits for the result has had its goal answered. *)
SentInv == GoalsAreSentOnce /\ \A e \in Executions : pc[e] = "result" => status[e] # "unsent"

(* How a step of e may send its requests. *)
Sends(e) ==
  /\ net' \subseteq net \cup {Goal(e), Cancel(e)}
  /\ Goal(e) \in net' => Goal(e) \in net \/ (pc[e] = "connect" /\ pc'[e] = "send")
  /\ Cancel(e) \in net' => Cancel(e) \in net \/ pc[e] = "result"
  /\ pc'[e] \in {"idle", "connect"} => pc[e] = "idle" /\ UNCHANGED net
  /\ pc'[e] = "result" => status[e] # "unsent"

LEMMA SkillSends ==
  ASSUME TypeOK, NEW e \in Executions, SkillStep(e)
  PROVE  Sends(e)
<1> USE Records DEF TypeOK, At, Go, Return, Sends
<1>1. CASE Execute(e)
  BY <1>1 DEF Execute
<1>2. CASE Connect(e)
  BY <1>2 DEF Connect
<1>3. CASE ConnectTimesOut(e) \/ SendReturns(e) \/ SendTimesOut(e)
  BY <1>3 DEF ConnectTimesOut, SendReturns, SendTimesOut
<1>4. CASE ResultReturns(e)
  BY <1>4 DEF ResultReturns, Aborted
<1>5. CASE ResultTimesOut(e)
  BY <1>5 DEF ResultTimesOut
<1>6. CASE UpdateWorld(e)
  BY <1>6 DEF UpdateWorld, ResolveObject, ResolveFrame, UpdateGraspFrame, UpdatePregraspFrame,
              UpdateFails, AfterGrasp
<1> QED
  BY <1>1, <1>2, <1>3, <1>4, <1>5, <1>6 DEF SkillStep, CallGraspPlanningAction

LEMMA SentStep == TypeOK /\ SentInv /\ [Next]_vars => SentInv'
<1> SUFFICES ASSUME TypeOK, SentInv, [Next]_vars PROVE SentInv'
  OBVIOUS
<1> USE DEF SentInv, GoalsAreSentOnce
<1>1. ASSUME NEW e \in Executions, HandleGoal(e) PROVE SentInv'
  <2>1. /\ Goal(e) \in net /\ net' = net \ {Goal(e)}
        /\ UNCHANGED pc
        /\ \E s \in {"executing", "rejected"} : status' = [status EXCEPT ![e] = s]
    BY <1>1 DEF HandleGoal, Server!Answer, Server!Step
  <2> QED
    BY <2>1, Records DEF TypeOK
<1>2. ASSUME NEW e \in Executions, HandleCancel(e) \/ GoalEnds(e) PROVE SentInv'
  <2>1. net' \subseteq net /\ UNCHANGED pc
    BY <1>2 DEF HandleCancel, GoalEnds
  <2>2. \/ UNCHANGED status
        \/ /\ status[e] \in {"executing", "canceling"}
           /\ \E s \in {"canceling", "succeeded", "aborted", "canceled"} :
                status' = [status EXCEPT ![e] = s]
    BY <1>2 DEF HandleCancel, GoalEnds, Server!AcceptCancel, Server!End, Server!Succeed,
                Server!GiveUp, Server!Step
  <2>3. CASE UNCHANGED status
    BY <2>1, <2>3
  <2>4. CASE \E s \in {"canceling", "succeeded", "aborted", "canceled"} :
               status' = [status EXCEPT ![e] = s] /\ status[e] # "unsent"
    BY <2>1, <2>4 DEF TypeOK
  <2> QED
    BY <2>2, <2>3, <2>4
<1>3. ASSUME NEW e \in Executions, SkillStep(e) PROVE SentInv'
  <2>1. Sends(e) /\ UNCHANGED status
    BY <1>3, SkillSends, SkillSteps DEF OnlyOf, serverVars
  <2>2. \A d \in Executions \ {e} : pc'[d] = pc[d]
    BY <1>3, SkillSteps DEF OnlyOf, TypeOK
  <2>3. \A d \in Executions \ {e} :
          /\ Goal(d) \in net' => Goal(d) \in net
          /\ Cancel(d) \in net' => Cancel(d) \in net
    <3>1. \A d \in Executions \ {e} : Goal(d) \notin {Goal(e), Cancel(e)}
      BY DEF Goal, Cancel
    <3>2. \A d \in Executions \ {e} : Cancel(d) \notin {Goal(e), Cancel(e)}
      BY DEF Goal, Cancel
    <3> QED
      BY <2>1, <3>1, <3>2 DEF Sends
  <2> DEFINE Sent(d) ==
        /\ Goal(d) \in net => status[d] = "unsent"
        /\ Goal(d) \in net \/ status[d] # "unsent" => pc[d] \notin {"idle", "connect"}
        /\ Cancel(d) \in net => status[d] # "unsent"
        /\ pc[d] = "result" => status[d] # "unsent"
  <2>4. \A d \in Executions : Sent(d)
    OBVIOUS
  <2>5. Sent(e)'
    BY <2>1, <2>4 DEF Sends
  <2>6. ASSUME NEW d \in Executions \ {e} PROVE Sent(d)'
    <3>1. /\ Goal(d) \in net' => Goal(d) \in net
          /\ Cancel(d) \in net' => Cancel(d) \in net
      BY <2>3
    <3>2. pc'[d] = pc[d] /\ status' = status
      BY <2>1, <2>2
    <3>3. Sent(d)
      BY <2>4
    <3> QED
      BY <3>1, <3>2, <3>3
  <2>7. \A d \in Executions : Sent(d)'
    BY <2>5, <2>6
  <2> QED
    BY <2>7
<1>4. CASE Lose
  <2>1. net' \subseteq net /\ UNCHANGED <<status, pc>>
    BY <1>4 DEF Lose, serverVars
  <2> QED
    BY <2>1
<1>5. CASE UNCHANGED vars
  BY <1>5 DEF vars, serverVars
<1> QED
  BY <1>1, <1>2, <1>3, <1>4, <1>5 DEF Next, SkillStep

(* Lost, late and unanswered requests never make the server run a goal twice, or unasked. *)
THEOREM SentCorrect == Spec => []GoalsAreSentOnce
<1>1. Init => SentInv
  BY DEF Init, Server!Init, SentInv, GoalsAreSentOnce
<1>2. SentInv => GoalsAreSentOnce
  BY DEF SentInv
<1> QED
  BY <1>1, <1>2, TypeCorrect, SentStep, PTL DEF Spec
=============================================================================
