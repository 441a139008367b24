------------------------- MODULE SceneReadinessProofs -------------------------
(***************************************************************************)
(* The safety invariants of SceneReadiness, for every set of parameters    *)
(* and any number of restarts of MoveIt.                                   *)
(***************************************************************************)
EXTENDS SceneReadiness, TLAPS

-----------------------------------------------------------------------------
(* The query. *)

(* There is an answer to wait for, or one to throw away, at two lines only. *)
FutureInUse == future # [is |-> NoAnswer] => pc \in {"await", "remove"}

QueryInv == FutureInUse /\ OneQueryPending

(* An answer is none of the states a query is in before it. *)
LEMMA AnswersDiffer == \A a \in Answers : \A s : a # [is |-> s]
<1> SUFFICES ASSUME NEW a \in Answers, NEW s, a = [is |-> s] PROVE FALSE
  OBVIOUS
<1>1. DOMAIN a = {"objects", "joints"}
  BY DEF Answers
<1>2. DOMAIN a = {"is"}
  OBVIOUS
<1> QED
  BY <1>1, <1>2

LEMMA StatesDiffer == [is |-> NoAnswer] # [is |-> Waiting]
<1>1. [is |-> NoAnswer].is # [is |-> Waiting].is
  BY DEF NoAnswer, Waiting
<1> QED
  BY <1>1

LEMMA QueryStep == TypeOK /\ QueryInv /\ [Next]_vars => QueryInv'
<1> SUFFICES ASSUME TypeOK, QueryInv, [Next]_vars PROVE QueryInv'
  OBVIOUS
<1> USE AnswersDiffer, StatesDiffer DEF QueryInv, FutureInUse, OneQueryPending
<1>1. CASE UNCHANGED <<pc, future, pending>>
  BY <1>1
<1>2. CASE MoveItAnswers
  <2>1. future' \in Answers
    BY <1>2 DEF MoveItAnswers, Answers, TypeOK
  <2>2. future = [is |-> Waiting] /\ pending' = pending - 1 /\ UNCHANGED pc
    BY <1>2 DEF MoveItAnswers
  <2> QED
    BY <2>1, <2>2
<1>3. CASE ReadinessThread
  <2> USE DEF Go, SetReady, Synchronized
  <2>1. CASE Start
    BY <2>1 DEF Start
  <2>2. CASE LoopHead
    BY <2>2 DEF LoopHead
  <2>3. CASE WaitForService
    BY <2>3 DEF WaitForService
  <2>4. CASE Synchronize \/ SkipSynchronize
    BY <2>4 DEF Synchronize, SkipSynchronize
  <2>5. CASE SendQuery
    BY <2>5 DEF SendQuery
  <2>6. CASE Verify
    BY <2>6 DEF Verify
  <2>7. CASE AwaitTimesOut
    BY <2>7 DEF AwaitTimesOut
  <2>8. CASE RemovePending
    BY <2>8 DEF RemovePending
  <2>9. CASE Retry
    BY <2>9 DEF Retry
  <2> QED
    BY <1>3, <2>1, <2>2, <2>3, <2>4, <2>5, <2>6, <2>7, <2>8, <2>9 DEF ReadinessThread
<1>4. CASE MoveIt \/ Deliver \/ GoalRequest \/ MotionRequest \/ MotionAnswer \/ Interrupt \/ Main
  BY <1>1, <1>4 DEF MoveIt, Deliver, GoalRequest, MotionRequest, MotionAnswer, Interrupt, Main,
                    Tell, GoMain, SpinReturns, SignalShutdown, CancelExecutor, JoinThreads,
                    threadVars
<1>5. CASE UNCHANGED vars
  BY <1>1, <1>5 DEF vars, threadVars
<1> QED
  BY <1>2, <1>3, <1>4, <1>5 DEF Next

-----------------------------------------------------------------------------
(* Type correctness. *)

LEMMA InitInv == Init => TypeOK /\ QueryInv
<1> SUFFICES ASSUME Init PROVE TypeOK /\ QueryInv
  OBVIOUS
<1>1. TypeOK
  <2>1. {moveit, objects, joints, populated, published, ready, spinning, rosOk} \subseteq BOOLEAN
    BY DEF Init
  <2>2. future \in Answers \cup [is : {NoAnswer, Waiting}]
    BY DEF Init
  <2> QED
    BY <2>1, <2>2, ConfigsAssumption DEF Init, TypeOK
<1>2. QueryInv
  BY StatesDiffer DEF Init, QueryInv, FutureInUse, OneQueryPending
<1> QED
  BY <1>1, <1>2

LEMMA TypeStep == TypeOK /\ QueryInv /\ [Next]_vars => TypeOK'
<1> SUFFICES ASSUME TypeOK, QueryInv, [Next]_vars PROVE TypeOK'
  OBVIOUS
<1> USE ConfigsAssumption DEF TypeOK, moveitVars, threadVars, mainVars
<1>1. CASE MoveIt
  <2>1. CASE MoveItStarts
    BY <1>1, <2>1 DEF MoveIt, MoveItStarts
  <2>2. CASE MoveItStops
    <3>1. restarts' \in 0 .. MaxRestarts
      BY <2>2 DEF MoveItStops
    <3>2. moveit' = FALSE /\ objects' = FALSE /\ joints' = FALSE
      BY <2>2 DEF MoveItStops
    <3>3. UNCHANGED <<config, populated, published, ready, pc, future, pending, executor, answer,
                      spinning, main, rosOk>>
      BY <1>1, <2>2 DEF MoveIt, MoveItStops
    <3> QED
      BY <3>1, <3>2, <3>3
  <2>3. CASE JointsArrive
    BY <1>1, <2>3 DEF MoveIt, JointsArrive
  <2>4. CASE ClientAddsObject
    BY <1>1, <2>4 DEF MoveIt, ClientAddsObject
  <2> QED
    BY <1>1, <2>1, <2>2, <2>3, <2>4 DEF MoveIt
<1>2. CASE Deliver
  BY <1>2 DEF Deliver, ClientAddsObject
<1>3. CASE MoveItAnswers
  BY <1>3 DEF MoveItAnswers, Answers, QueryInv, OneQueryPending
<1>4. CASE ReadinessThread
  <2> USE DEF Go, SetReady, Synchronized
  <2>1. CASE Start
    BY <2>1 DEF Start
  <2>2. CASE LoopHead
    BY <2>2 DEF LoopHead
  <2>3. CASE WaitForService
    BY <2>3 DEF WaitForService
  <2>4. CASE Synchronize \/ SkipSynchronize
    BY <2>4 DEF Synchronize, SkipSynchronize
  <2>5. CASE SendQuery
    BY <2>5 DEF SendQuery
  <2>6. CASE Verify
    BY <2>6 DEF Verify
  <2>7. CASE AwaitTimesOut
    BY <2>7 DEF AwaitTimesOut
  <2>8. CASE RemovePending
    BY <2>8 DEF RemovePending, QueryInv, OneQueryPending
  <2>9. CASE Retry
    BY <2>9 DEF Retry
  <2> QED
    BY <1>4, <2>1, <2>2, <2>3, <2>4, <2>5, <2>6, <2>7, <2>8, <2>9 DEF ReadinessThread
<1>5. CASE GoalRequest \/ MotionRequest \/ MotionAnswer
  BY <1>5 DEF GoalRequest, MotionRequest, MotionAnswer, Tell, Gate
<1>6. CASE Interrupt
  BY <1>6 DEF Interrupt, GoMain
<1>7. CASE Main
  BY <1>7 DEF Main, SpinReturns, SignalShutdown, CancelExecutor, JoinThreads, GoMain
<1>8. CASE UNCHANGED vars
  BY <1>8 DEF vars
<1> QED
  BY <1>1, <1>2, <1>3, <1>4, <1>5, <1>6, <1>7, <1>8 DEF Next

LEMMA QueryInvCorrect == Spec => [](TypeOK /\ QueryInv)
BY InitInv, TypeStep, QueryStep, PTL DEF Spec

(* Every variable of the process stays in its set. *)
THEOREM TypeCorrect == Spec => []TypeOK
BY QueryInvCorrect, PTL

(* The client remembers one pending query at most, while the thread waits for it. *)
THEOREM PendingCorrect == Spec => []OneQueryPending
<1>1. QueryInv => OneQueryPending
  BY DEF QueryInv
<1> QED
  BY <1>1, QueryInvCorrect, PTL

-----------------------------------------------------------------------------
(* The gate. *)

(***************************************************************************)
(* scene_ready is raised for a populated scene, or when the executor, and  *)
(* with it every handler that asks for it, has returned.                   *)
(***************************************************************************)
ReadyMeansPopulated ==
  /\ main # "spin" => executor = "returned"
  /\ config.expect /\ ~config.mock =>
       /\ objects /\ joints => populated
       /\ future \in Answers /\ SceneOk(future) => populated
       /\ ready => populated \/ executor = "returned"
       /\ answer = "accepted" => populated

LEMMA GateInit == Init => ReadyMeansPopulated
<1> SUFFICES ASSUME Init PROVE ReadyMeansPopulated
  OBVIOUS
<1>1. future \notin Answers
  BY AnswersDiffer DEF Init
<1> QED
  BY <1>1 DEF Init, ReadyMeansPopulated

LEMMA GateStep == ReadyMeansPopulated /\ [Next]_vars => ReadyMeansPopulated'
<1> SUFFICES ASSUME ReadyMeansPopulated, [Next]_vars PROVE ReadyMeansPopulated'
  OBVIOUS
<1> USE DEF ReadyMeansPopulated, moveitVars, threadVars, mainVars
<1>1. CASE MoveIt
  <2>1. UNCHANGED <<config, future, ready, answer, executor, main>>
    BY <1>1 DEF MoveIt
  <2>2. populated => populated'
    BY <1>1 DEF MoveIt, MoveItStarts, MoveItStops, JointsArrive, ClientAddsObject
  <2>3. (objects /\ joints => populated) => (objects' /\ joints' => populated')
    BY <1>1 DEF MoveIt, MoveItStarts, MoveItStops, JointsArrive, ClientAddsObject
  <2> QED
    BY <2>1, <2>2, <2>3
<1>2. CASE Deliver
  BY <1>2 DEF Deliver, ClientAddsObject
<1>3. CASE MoveItAnswers
  <2>1. SceneOk(future') => objects /\ joints
    BY <1>3 DEF MoveItAnswers, SceneOk
  <2> QED
    BY <1>3, <2>1 DEF MoveItAnswers
<1>4. CASE ReadinessThread
  <2> USE DEF Go, SetReady, Synchronized
  <2>1. CASE Start
    BY <2>1 DEF Start
  <2>2. CASE LoopHead \/ WaitForService \/ AwaitTimesOut \/ Retry
    BY <2>2 DEF LoopHead, WaitForService, AwaitTimesOut, Retry
  <2>3. CASE Synchronize \/ SkipSynchronize
    BY <2>3 DEF Synchronize, SkipSynchronize
  <2>4. CASE SendQuery
    BY <2>4, AnswersDiffer DEF SendQuery
  <2>5. CASE Verify
    BY <2>5, AnswersDiffer DEF Verify
  <2>6. CASE RemovePending
    BY <2>6, AnswersDiffer DEF RemovePending
  <2> QED
    BY <1>4, <2>1, <2>2, <2>3, <2>4, <2>5, <2>6 DEF ReadinessThread
<1>5. CASE GoalRequest \/ MotionRequest \/ MotionAnswer
  <2>1. CASE MotionRequest
    BY <2>1 DEF MotionRequest, Tell
  <2>2. CASE GoalRequest \/ MotionAnswer
    <3>1. /\ executor # "returned" /\ executor' = "spin" /\ Gate
          /\ UNCHANGED <<config, objects, joints, populated, ready, future, main>>
      BY <2>2 DEF GoalRequest, MotionAnswer, Tell
    <3>2. answer' = "accepted" => ready
      BY <3>1 DEF Gate
    <3>3. main = "spin"
      BY <3>1
    <3> QED
      BY <3>1, <3>2, <3>3
  <2> QED
    BY <1>5, <2>1, <2>2
<1>6. CASE Interrupt
  BY <1>6 DEF Interrupt, GoMain
<1>7. CASE Main
  BY <1>7 DEF Main, SpinReturns, SignalShutdown, CancelExecutor, JoinThreads, GoMain
<1>8. CASE UNCHANGED vars
  BY <1>8 DEF vars
<1> QED
  BY <1>1, <1>2, <1>3, <1>4, <1>5, <1>6, <1>7, <1>8 DEF Next

(* A planning request is only accepted once MoveIt's scene has been populated. *)
THEOREM GateCorrect == Spec => []AcceptedIsPopulated
<1>1. Spec => []ReadyMeansPopulated
  BY GateInit, GateStep, PTL DEF Spec
<1>2. ReadyMeansPopulated => AcceptedIsPopulated
  BY DEF ReadyMeansPopulated, AcceptedIsPopulated
<1> QED
  BY <1>1, <1>2, PTL

-----------------------------------------------------------------------------
(***************************************************************************)
(* The shutdown.  The context, the executor, the readiness thread and the  *)
(* executor of its client end one after the other, each in main's order:   *)
(* when main returns, both threads have been joined and no query is left   *)
(* in the client's table.                                                  *)
(***************************************************************************)
ShutdownOrder ==
  /\ main # "spin" => rosOk = FALSE /\ executor = "returned"
  /\ main \in {"cancel", "join", "done"} => ready = TRUE
  /\ main \in {"join", "done"} => spinning = FALSE
  /\ main = "done" => pc = "exited" /\ pending = 0

ShutdownInv == TypeOK /\ QueryInv /\ ShutdownOrder

LEMMA ShutdownStep == ShutdownInv /\ [Next]_vars => ShutdownOrder'
<1> SUFFICES ASSUME ShutdownInv, [Next]_vars PROVE ShutdownOrder'
  OBVIOUS
<1> USE DEF ShutdownOrder, ShutdownInv, moveitVars, threadVars, mainVars
<1>1. CASE MoveIt \/ Deliver
  BY <1>1 DEF MoveIt, Deliver
<1>2. CASE MoveItAnswers
  BY <1>2 DEF MoveItAnswers
<1>3. CASE ReadinessThread
  <2>1. /\ pc # "exited" /\ UNCHANGED <<executor, mainVars>>
        /\ ready' = ready \/ ready' = TRUE
    BY <1>3 DEF ReadinessThread, Start, LoopHead, WaitForService, Synchronize, SkipSynchronize,
       SendQuery, Verify, AwaitTimesOut, RemovePending, Retry, Go, SetReady, Synchronized
  <2>2. main # "done"
    BY <2>1
  <2> QED
    BY <2>1, <2>2
<1>4. CASE GoalRequest \/ MotionRequest \/ MotionAnswer
  BY <1>4 DEF GoalRequest, MotionRequest, MotionAnswer, Tell
<1>5. CASE Interrupt
  BY <1>5 DEF Interrupt, GoMain
<1>6. CASE SpinReturns \/ SignalShutdown \/ CancelExecutor
  BY <1>6 DEF SpinReturns, SignalShutdown, CancelExecutor, GoMain, TypeOK
<1>7. CASE JoinThreads
  <2>1. future = [is |-> NoAnswer]
    BY <1>7 DEF JoinThreads, QueryInv, FutureInUse
  <2>2. pending = 0
    BY <2>1, StatesDiffer DEF QueryInv, OneQueryPending
  <2> QED
    BY <1>7, <2>2 DEF JoinThreads, GoMain
<1>8. CASE UNCHANGED vars
  BY <1>8 DEF vars
<1> QED
  BY <1>1, <1>2, <1>3, <1>4, <1>5, <1>6, <1>7, <1>8 DEF Next, Main

LEMMA ShutdownInvCorrect == Spec => []ShutdownInv
<1>1. Init => ShutdownInv
  BY InitInv DEF Init, ShutdownInv, ShutdownOrder
<1>2. ShutdownInv /\ [Next]_vars => ShutdownInv'
  BY TypeStep, QueryStep, ShutdownStep DEF ShutdownInv
<1> QED
  BY <1>1, <1>2, PTL DEF Spec

(***************************************************************************)
(* main returns last: the readiness thread has exited, both executors have *)
(* returned, and no request of theirs is left unanswered in the client.    *)
(***************************************************************************)
THEOREM MainIsLast == Spec => []ShutdownOrder
<1>1. ShutdownInv => ShutdownOrder
  BY DEF ShutdownInv
<1> QED
  BY <1>1, ShutdownInvCorrect, PTL

(* After main has returned nothing of the node runs on what main has destroyed. *)
NodeVars == <<ready, threadVars, executor, answer, mainVars>>

LEMMA NothingRuns == ShutdownInv /\ [Next]_vars /\ main = "done" => UNCHANGED NodeVars
<1> SUFFICES ASSUME ShutdownInv, [Next]_vars, main = "done" PROVE UNCHANGED NodeVars
  OBVIOUS
<1>1. executor = "returned" /\ spinning = FALSE /\ rosOk = FALSE /\ pc = "exited"
  BY DEF ShutdownInv, ShutdownOrder
<1>2. ~MoveItAnswers /\ ~GoalRequest /\ ~MotionRequest /\ ~MotionAnswer /\ ~Interrupt
  BY <1>1 DEF MoveItAnswers, GoalRequest, MotionRequest, MotionAnswer, Interrupt
<1>3. ~ReadinessThread
  BY <1>1 DEF ReadinessThread, Start, LoopHead, WaitForService, Synchronize, SkipSynchronize,
     SendQuery, Verify, AwaitTimesOut, RemovePending, Retry
<1>4. ~Main
  BY DEF Main, SpinReturns, SignalShutdown, CancelExecutor, JoinThreads
<1>5. CASE MoveIt \/ Deliver \/ UNCHANGED vars
  BY <1>5 DEF MoveIt, Deliver, vars, NodeVars, threadVars, mainVars
<1> QED
  BY <1>2, <1>3, <1>4, <1>5 DEF Next

(***************************************************************************)
(* Once main has returned only what is outside the process still changes:  *)
(* no handler, no thread and no late answer touches the node's state.      *)
(***************************************************************************)
THEOREM NothingAfterMain == Spec => [][main = "done" => UNCHANGED NodeVars]_vars
  BY ShutdownInvCorrect, NothingRuns, PTL DEF Spec
=============================================================================
