--------------------------- MODULE MotionSkillProofs ---------------------------
(***************************************************************************)
(* The composition of the motion skill with the node's process: what is    *)
(* proved of the process alone holds of it, and carries over to what the   *)
(* skill tells its caller.  For any number of executions, any parameters   *)
(* and any number of restarts of MoveIt.                                   *)
(***************************************************************************)
EXTENDS MotionSkill, SceneReadinessProofs

-----------------------------------------------------------------------------
(* The process does not notice the skill. *)

LEMMA ProcessStep == [MotionNext]_<<vars, skillVars>> => [Next]_vars
<1> SUFFICES ASSUME [MotionNext]_<<vars, skillVars>> PROVE [Next]_vars
  OBVIOUS
<1>1. CASE NodeStep
  BY <1>1 DEF NodeStep, Next
<1>2. CASE OtherRequest
  BY <1>2 DEF OtherRequest, Next
<1>3. ASSUME NEW e \in Executions, TakeRequest(e) \/ AnswerRequest(e)
      PROVE Next
  BY <1>3 DEF TakeRequest, AnswerRequest, Next
<1>4. ASSUME NEW e \in Executions, Execute(e) \/ CallGetMotionPlan(e)
      PROVE UNCHANGED vars
  BY <1>4 DEF Execute, CallGetMotionPlan, SendRequest, ConnectTimesOut, ResponseReturns,
              ResponseTimesOut, SkillStep
<1>5. CASE UNCHANGED <<vars, skillVars>>
  BY <1>5
<1> QED
  BY <1>1, <1>2, <1>3, <1>4, <1>5 DEF MotionNext

(* The composed system is one in which the process behaves as its own module says. *)
THEOREM ProcessIsUnaware == MotionSpec => Spec
<1>1. MotionInit => Init
  BY DEF MotionInit
<1> QED
  BY <1>1, ProcessStep, PTL DEF MotionSpec, Spec

-----------------------------------------------------------------------------
(* What an execution is told. *)

LEMMA PopulatedForGood == [Next]_vars /\ populated = TRUE => populated' = TRUE
<1> SUFFICES ASSUME [Next]_vars, populated = TRUE PROVE populated' = TRUE
  OBVIOUS
<1> USE DEF moveitVars
<1>1. CASE MoveIt
  BY <1>1 DEF MoveIt, MoveItStarts, MoveItStops, JointsArrive, ClientAddsObject
<1>2. CASE Deliver
  BY <1>2 DEF Deliver, ClientAddsObject
<1>3. CASE MoveItAnswers \/ GoalRequest \/ MotionRequest \/ MotionAnswer
  BY <1>3 DEF MoveItAnswers, GoalRequest, MotionRequest, MotionAnswer, Tell
<1>4. CASE ReadinessThread
  BY <1>4 DEF ReadinessThread, Start, LoopHead, WaitForService, Synchronize, SkipSynchronize,
              SendQuery, Verify, AwaitTimesOut, RemovePending, Retry, Go, SetReady, Synchronized
<1>5. CASE Interrupt \/ Main
  BY <1>5 DEF Interrupt, Main, SpinReturns, SignalShutdown, CancelExecutor, JoinThreads, GoMain
<1>6. CASE UNCHANGED vars
  BY <1>6 DEF vars
<1> QED
  BY <1>1, <1>2, <1>3, <1>4, <1>5, <1>6 DEF Next

LEMMA MotionInitType == MotionInit => MotionTypeOK
BY DEF MotionInit, MotionTypeOK

LEMMA MotionTypeStep ==
  MotionTypeOK /\ [MotionNext]_<<vars, skillVars>> => MotionTypeOK'
<1> SUFFICES ASSUME MotionTypeOK, [MotionNext]_<<vars, skillVars>> PROVE MotionTypeOK'
  OBVIOUS
<1> USE DEF MotionTypeOK, skillVars
<1>1. CASE NodeStep
  <2>1. executor = "motion" => executor' = "motion"
    BY <1>1 DEF NodeStep, MoveIt, Deliver, MoveItAnswers, ReadinessThread, Start, LoopHead,
                WaitForService, Synchronize, SkipSynchronize, SendQuery, Verify, AwaitTimesOut,
                RemovePending, Retry, Go, SetReady, Synchronized, GoalRequest, Interrupt, Main,
                SpinReturns, SignalShutdown, CancelExecutor, JoinThreads, GoMain
  <2> QED
    BY <1>1, <2>1 DEF NodeStep
<1>2. CASE OtherRequest
  <2>1. CASE MotionRequest
    <3>1. executor' = "motion"
      BY <2>1 DEF MotionRequest, Tell
    <3> QED
      BY <1>2, <3>1 DEF OtherRequest
  <2>2. CASE \A e \in Executions : request[e] # "taken"
    BY <1>2, <2>2 DEF OtherRequest
  <2> QED
    BY <1>2, <2>1, <2>2 DEF OtherRequest
<1>3. ASSUME NEW e \in Executions, TakeRequest(e)
      PROVE MotionTypeOK'
  <2>1. executor = "spin" /\ executor' = "motion"
    BY <1>3 DEF TakeRequest, MotionRequest, Tell
  <2>2. \A d \in Executions : request[d] # "taken"
    BY <2>1
  <2>3. request' = [request EXCEPT ![e] = "taken"] /\ UNCHANGED <<skill, success>>
    BY <1>3 DEF TakeRequest
  <2> QED
    BY <2>1, <2>2, <2>3
<1>4. ASSUME NEW e \in Executions, AnswerRequest(e)
      PROVE MotionTypeOK'
  <2>1. answer' \in {"accepted", "rejected"}
    BY <1>4 DEF AnswerRequest, MotionAnswer, Gate
  <2>2. request[e] = "taken"
    BY <1>4 DEF AnswerRequest
  <2>3. request' = [request EXCEPT ![e] = answer'] /\ UNCHANGED <<skill, success>>
    BY <1>4 DEF AnswerRequest
  <2>4. \A d \in Executions : request'[d] # "taken"
    BY <2>1, <2>2, <2>3
  <2> QED
    BY <2>1, <2>3, <2>4
<1>5. ASSUME NEW e \in Executions, Execute(e) \/ CallGetMotionPlan(e)
      PROVE MotionTypeOK'
  <2>1. UNCHANGED executor
    BY <1>5 DEF Execute, CallGetMotionPlan, SendRequest, ConnectTimesOut, ResponseReturns,
                ResponseTimesOut, SkillStep, vars
  <2>2. CASE Execute(e)
    BY <2>1, <2>2 DEF Execute, SkillStep, Tells
  <2>3. CASE SendRequest(e)
    BY <2>1, <2>3 DEF SendRequest, SkillStep
  <2>4. CASE ConnectTimesOut(e) \/ ResponseReturns(e) \/ ResponseTimesOut(e)
    BY <2>1, <2>4 DEF ConnectTimesOut, ResponseReturns, ResponseTimesOut, SkillStep, Tells
  <2> QED
    BY <1>5, <2>2, <2>3, <2>4 DEF CallGetMotionPlan
<1>6. CASE UNCHANGED <<vars, skillVars>>
  BY <1>6 DEF vars
<1> QED
  BY <1>1, <1>2, <1>3, <1>4, <1>5, <1>6 DEF MotionNext

(* The executor is in one handler at a time, and only who has a request waits for its answer. *)
THEOREM MotionTypeCorrect == MotionSpec => []MotionTypeOK
BY MotionInitType, MotionTypeStep, PTL DEF MotionSpec

(* A request was accepted by the gate, at a moment that lies behind. *)
Meant == config.expect /\ ~config.mock

AnswersPopulated == \A e \in Executions : request[e] = "accepted" /\ Meant => populated = TRUE

Planned == \A e \in Executions : success[e] = "yes" /\ Meant => populated = TRUE

LEMMA ConfigStays == [Next]_vars => UNCHANGED config
<1> SUFFICES ASSUME [Next]_vars PROVE UNCHANGED config
  OBVIOUS
<1>1. CASE MoveIt \/ Deliver \/ MoveItAnswers \/ GoalRequest \/ MotionRequest \/ MotionAnswer
  BY <1>1 DEF MoveIt, Deliver, MoveItAnswers, GoalRequest, MotionRequest, MotionAnswer, Tell
<1>2. CASE ReadinessThread
  BY <1>2 DEF ReadinessThread, Start, LoopHead, WaitForService, Synchronize, SkipSynchronize,
              SendQuery, Verify, AwaitTimesOut, RemovePending, Retry, Go, SetReady, Synchronized
<1>3. CASE Interrupt \/ Main
  BY <1>3 DEF Interrupt, Main, SpinReturns, SignalShutdown, CancelExecutor, JoinThreads, GoMain
<1>4. CASE UNCHANGED vars
  BY <1>4 DEF vars
<1> QED
  BY <1>1, <1>2, <1>3, <1>4 DEF Next

LEMMA PlannedStep ==
  /\ MotionTypeOK /\ AnswersPopulated /\ Planned
  /\ (TypeOK /\ AcceptedIsPopulated)'
  /\ [MotionNext]_<<vars, skillVars>>
  => (AnswersPopulated /\ Planned)'
<1> SUFFICES ASSUME MotionTypeOK, AnswersPopulated, Planned,
                    (TypeOK /\ AcceptedIsPopulated)', [MotionNext]_<<vars, skillVars>>
             PROVE (AnswersPopulated /\ Planned)'
  OBVIOUS
<1> USE DEF AnswersPopulated, Planned, Meant, MotionTypeOK
<1>1. populated = TRUE => populated' = TRUE
  BY ProcessStep, PopulatedForGood
<1>2. UNCHANGED config
  BY ProcessStep, ConfigStays
<1>3. CASE NodeStep \/ OtherRequest \/ UNCHANGED <<vars, skillVars>>
  BY <1>1, <1>2, <1>3 DEF NodeStep, OtherRequest, skillVars
<1>4. ASSUME NEW e \in Executions, TakeRequest(e)
      PROVE (AnswersPopulated /\ Planned)'
  BY <1>1, <1>2, <1>4 DEF TakeRequest
<1>5. ASSUME NEW e \in Executions, AnswerRequest(e)
      PROVE (AnswersPopulated /\ Planned)'
  <2>1. answer' = "accepted" /\ Meant' => populated' = TRUE
    BY DEF AcceptedIsPopulated, TypeOK
  <2>2. request' = [request EXCEPT ![e] = answer'] /\ UNCHANGED <<skill, success>>
    BY <1>5 DEF AnswerRequest
  <2> QED
    BY <1>1, <1>2, <2>1, <2>2
<1>6. ASSUME NEW e \in Executions, Execute(e) \/ SendRequest(e) \/ ConnectTimesOut(e)
                                   \/ ResponseTimesOut(e)
      PROVE (AnswersPopulated /\ Planned)'
  BY <1>1, <1>2, <1>6 DEF Execute, SendRequest, ConnectTimesOut, ResponseTimesOut, SkillStep, Tells
<1>7. ASSUME NEW e \in Executions, ResponseReturns(e)
      PROVE (AnswersPopulated /\ Planned)'
  BY <1>1, <1>2, <1>7 DEF ResponseReturns, SkillStep, Tells
<1> QED
  BY <1>3, <1>4, <1>5, <1>6, <1>7 DEF MotionNext, CallGetMotionPlan

(* A skill that tells its caller of a plan was answered by a gate that had been opened. *)
THEOREM PlannedCorrect == MotionSpec => []PlannedIsPopulated
<1>1. MotionSpec => [](TypeOK /\ AcceptedIsPopulated)
  BY ProcessIsUnaware, TypeCorrect, GateCorrect, PTL
<1>2. MotionInit => AnswersPopulated /\ Planned
  BY DEF MotionInit, AnswersPopulated, Planned
<1>3. Planned => PlannedIsPopulated
  BY DEF Planned, Meant, PlannedIsPopulated
<1> QED
  BY <1>1, <1>2, <1>3, PlannedStep, MotionTypeCorrect, PTL DEF MotionSpec

-----------------------------------------------------------------------------
(***************************************************************************)
(* What an execution tells its caller is the answer to its own request,    *)
(* although its request waited behind those of others; and main does not   *)
(* go on to stop the node while the executor is in a handler.              *)
(***************************************************************************)
AnswersAreOwn ==
  \A e \in Executions :
    /\ success[e] = "yes" => request[e] = "accepted"
    /\ success[e] = "no" => request[e] = "rejected"
    /\ request[e] = "taken" => executor = "motion" /\ main = "spin"

(* Who has not come to the call has sent nothing. *)
NothingSentYet == \A e \in Executions : skill[e] \in {"idle", "connect"} => request[e] = "unsent"

(* An answer is final. *)
AnsweredOnce ==
  [][\A e \in Executions :
       request[e] \in {"accepted", "rejected"} => request'[e] = request[e]]_<<vars, skillVars>>

OwnInv == MotionTypeOK /\ AnswersAreOwn /\ NothingSentYet

LEMMA OwnStep ==
  OwnInv /\ ShutdownOrder' /\ TypeOK' /\ [MotionNext]_<<vars, skillVars>>
    => /\ (AnswersAreOwn /\ NothingSentYet)'
       /\ \A e \in Executions :
            request[e] \in {"accepted", "rejected"} => request'[e] = request[e]
<1> DEFINE Goal == /\ (AnswersAreOwn /\ NothingSentYet)'
                   /\ \A e \in Executions :
                        request[e] \in {"accepted", "rejected"} => request'[e] = request[e]
<1> SUFFICES ASSUME OwnInv, ShutdownOrder', TypeOK', [MotionNext]_<<vars, skillVars>>
             PROVE  Goal
  OBVIOUS
<1>1. MotionTypeOK'
  BY MotionTypeStep DEF OwnInv
<1>2. \A e \in Executions : request'[e] = "taken" => executor' = "motion" /\ main' = "spin"
  BY <1>1 DEF MotionTypeOK, ShutdownOrder
<1> USE DEF OwnInv, AnswersAreOwn, NothingSentYet
<1>3. CASE UNCHANGED skillVars
  BY <1>2, <1>3 DEF skillVars
<1>4. ASSUME NEW e \in Executions, TakeRequest(e) PROVE Goal
  <2>1. request[e] = "queued" /\ request' = [request EXCEPT ![e] = "taken"]
        /\ UNCHANGED <<skill, success>>
    BY <1>4 DEF TakeRequest
  <2> QED
    BY <1>2, <2>1 DEF MotionTypeOK
<1>5. ASSUME NEW e \in Executions, AnswerRequest(e) PROVE Goal
  <2>1. request[e] = "taken" /\ request' = [request EXCEPT ![e] = answer']
        /\ UNCHANGED <<skill, success>>
    BY <1>5 DEF AnswerRequest
  <2> QED
    BY <1>2, <2>1 DEF MotionTypeOK
<1>6. ASSUME NEW e \in Executions, Execute(e) \/ ConnectTimesOut(e) \/ ResponseTimesOut(e)
      PROVE Goal
  <2>1. UNCHANGED request
    BY <1>6 DEF Execute, ConnectTimesOut, ResponseTimesOut
  <2>2. \A d \in Executions :
          /\ success'[d] \in {success[d], "error"}
          /\ skill'[d] \in {"idle", "connect"} => skill[d] \in {"idle", "connect"}
    BY <1>6 DEF Execute, ConnectTimesOut, ResponseTimesOut, SkillStep, Tells, MotionTypeOK
  <2> QED
    BY <1>2, <2>1, <2>2
<1>7. ASSUME NEW e \in Executions, SendRequest(e) PROVE Goal
  <2>1. skill[e] = "connect" /\ skill' = [skill EXCEPT ![e] = "await"]
        /\ request' = [request EXCEPT ![e] = "queued"] /\ UNCHANGED success
    BY <1>7 DEF SendRequest, SkillStep
  <2> QED
    BY <1>2, <2>1 DEF MotionTypeOK
<1>8. ASSUME NEW e \in Executions, ResponseReturns(e) PROVE Goal
  <2>1. skill[e] = "await" /\ skill' = [skill EXCEPT ![e] = "returned"] /\ UNCHANGED request
        /\ request[e] \in {"accepted", "rejected"}
        /\ success' = [success EXCEPT ![e] = IF request[e] = "accepted" THEN "yes" ELSE "no"]
    BY <1>8 DEF ResponseReturns, SkillStep, Tells
  <2> QED
    BY <1>2, <2>1 DEF MotionTypeOK
<1> QED
  BY <1>3, <1>4, <1>5, <1>6, <1>7, <1>8 DEF MotionNext, NodeStep, OtherRequest, CallGetMotionPlan

LEMMA OwnInvCorrect == MotionSpec => []OwnInv
<1>1. MotionSpec => [](TypeOK /\ ShutdownOrder)
  BY ProcessIsUnaware, TypeCorrect, MainIsLast, PTL
<1>2. MotionInit => OwnInv
  BY MotionInitType DEF MotionInit, OwnInv, AnswersAreOwn, NothingSentYet
<1>3. OwnInv /\ (TypeOK /\ ShutdownOrder)' /\ [MotionNext]_<<vars, skillVars>> => OwnInv'
  BY MotionTypeStep, OwnStep DEF OwnInv
<1> QED
  BY <1>1, <1>2, <1>3, PTL DEF MotionSpec

(* An execution is told what its own request was answered, and no handler is cut off. *)
THEOREM OwnCorrect == MotionSpec => []AnswersAreOwn
<1>1. OwnInv => AnswersAreOwn
  BY DEF OwnInv
<1> QED
  BY <1>1, OwnInvCorrect, PTL

(* A request is answered once, whether or not its execution still waits. *)
THEOREM AnswersAreFinal == MotionSpec => AnsweredOnce
<1>1. MotionSpec => [](TypeOK /\ ShutdownOrder)
  BY ProcessIsUnaware, TypeCorrect, MainIsLast, PTL
<1>2. OwnInv /\ (TypeOK /\ ShutdownOrder)' /\ [MotionNext]_<<vars, skillVars>> =>
        [\A e \in Executions :
           request[e] \in {"accepted", "rejected"} => request'[e] = request[e]]_<<vars, skillVars>>
  BY OwnStep
<1> QED
  BY <1>1, <1>2, OwnInvCorrect, PTL DEF MotionSpec, AnsweredOnce
=============================================================================
