------------------------- MODULE StatusMonitorProofs -------------------------
(***************************************************************************)
(* The safety properties of StatusMonitor, for any number of callers, any  *)
(* methods, parameters and number of faults.                               *)
(***************************************************************************)
EXTENDS StatusMonitor, TLAPS

-----------------------------------------------------------------------------
(* What a step of one call leaves alone of another. *)

Same(c) ==
  /\ pc'[c] = pc[c] /\ verdict'[c] = verdict[c]
  /\ outcome'[c] = outcome[c] /\ method'[c] = method[c]
  /\ (c \in queries') = (c \in queries)
  /\ (c \in triggers') = (c \in triggers)

-----------------------------------------------------------------------------
(* Type correctness. *)

Places ==
  {"idle", "flag", "bridge", "trigger", "dropTrigger", "sleep", "answer"} \cup Checking

LEMMA InitType == Init => TypeOK
<1> SUFFICES ASSUME Init PROVE TypeOK
  OBVIOUS
<1>1. {node, published, abandoned, tf, disabled} \subseteq BOOLEAN
  BY DEF Init
<1> QED
  BY <1>1, CallersAssumption DEF Init, TypeOK, Checking, NoOutcome

LEMMA OutsideType == TypeOK /\ Outside /\ Observe => TypeOK'
<1> SUFFICES ASSUME TypeOK, Outside, Observe PROVE TypeOK'
  OBVIOUS
<1> USE CallersAssumption
<1>1. seen' \in [Callers -> SUBSET (Conditions \cup {"synchronized"})]
  BY DEF Observe, Holding, Synchronized, TypeOK
<1>2. UNCHANGED <<config, disabled, queries, triggers, method, pc, outcome, verdict, main>>
  BY DEF Outside, callVars
<1>3. /\ moveit' \in [up : BOOLEAN, objects : BOOLEAN, joints : BOOLEAN]
      /\ {node', published', abandoned', tf'} \subseteq BOOLEAN
      /\ faults' \in 0..MaxFaults
      /\ jointState' \in {"stale", "partial", "complete"}
      /\ lost' \subseteq Callers
  <2> USE DEF TypeOK, Fault
  <2>1. CASE MoveItStarts
    BY <2>1 DEF MoveItStarts
  <2>2. CASE MoveItStops
    BY <2>2 DEF MoveItStops
  <2>3. CASE Deliver
    BY <2>3 DEF Deliver
  <2>4. CASE NodeStarts
    BY <2>4 DEF NodeStarts
  <2>5. CASE NodeStops
    <3>1. faults' \in 0..MaxFaults /\ lost' \subseteq Callers
      BY <2>5 DEF NodeStops
    <3>2. node' = FALSE /\ abandoned' = FALSE /\ UNCHANGED <<moveit, published, tf, jointState>>
      BY <2>5 DEF NodeStops
    <3> QED
      BY <3>1, <3>2
  <2>6. CASE NodeSynchronizesLate
    BY <2>6 DEF NodeSynchronizesLate
  <2>7. CASE TfArrives
    BY <2>7 DEF TfArrives
  <2>8. CASE RecordJointState
    BY <2>8 DEF RecordJointState
  <2>9. CASE JointStatesFail
    BY <2>9 DEF JointStatesFail
  <2> QED
    BY <2>1, <2>2, <2>3, <2>4, <2>5, <2>6, <2>7, <2>8, <2>9 DEF Outside
<1> QED
  BY <1>1, <1>2, <1>3 DEF TypeOK

(* The steps of a call that give it a new place or a verdict, and nothing else. *)
LEMMA MovesType ==
  ASSUME TypeOK, NEW c \in Callers, Observe,
         UNCHANGED <<config, moveit, node, tf, jointState>>,
         {published', abandoned', disabled'} \subseteq BOOLEAN,
         faults' \in 0..MaxFaults, main' \in {"serve", "drain", "returned"},
         queries' \subseteq Callers, triggers' \subseteq Callers, lost' \subseteq Callers,
         method' \in [Callers -> Methods \cup {"none"}],
         pc' \in [Callers -> Places],
         verdict' \in [Callers -> {"none", "ENABLED", "ERROR", "DISABLED", "OK", "INTERNAL"}],
         outcome' \in [Callers -> Scenes \cup Synced \cup {NoOutcome}],
         \A d \in Callers \ {c} : Same(d),
         pc'[c] \in {"endpoints", "joints"} => outcome'[c] \in Scenes,
         pc'[c] = "query" /\ c \notin queries' => outcome'[c] \in Scenes,
         pc'[c] = "trigger" /\ c \notin triggers' => outcome'[c] \in Synced
  PROVE  TypeOK'
<1>1. seen' \in [Callers -> SUBSET (Conditions \cup {"synchronized"})]
  BY DEF Observe, Holding, Synchronized, TypeOK
<1>2. \A d \in Callers :
        /\ pc'[d] \in {"endpoints", "joints"} => outcome'[d] \in Scenes
        /\ pc'[d] = "query" /\ d \notin queries' => outcome'[d] \in Scenes
        /\ pc'[d] = "trigger" /\ d \notin triggers' => outcome'[d] \in Synced
  BY DEF TypeOK, Same
<1> QED
  BY <1>1, <1>2 DEF TypeOK, Places

(* An action of one call leaves the other calls alone. *)
LEMMA OthersSame ==
  ASSUME TypeOK, NEW c \in Callers,
         \/ Call(c) \/ Handler(c) \/ MoveItAnswers(c)
         \/ \E success \in BOOLEAN : NodeSynchronizes(c, success)
  PROVE  \A d \in Callers \ {c} : Same(d)
<1> SUFFICES ASSUME NEW d \in Callers \ {c} PROVE Same(d)
  OBVIOUS
<1> USE DEF TypeOK, Same, Go, Conclude, Step, clientVars, callVars
<1>1. CASE Call(c)
  BY <1>1 DEF Call
<1>2. CASE MoveItAnswers(c)
  BY <1>2 DEF MoveItAnswers
<1>3. CASE \E success \in BOOLEAN : NodeSynchronizes(c, success)
  BY <1>3 DEF NodeSynchronizes
<1>4. CASE GetState(c)
  BY <1>4 DEF GetState
<1>5. CASE Enable(c)
  BY <1>5 DEF Enable
<1>6. CASE Disable(c)
  BY <1>6 DEF Disable
<1>7. CASE Synchronize(c)
  <2>1. CASE Trigger(c)
    BY <2>1 DEF Trigger
  <2>2. CASE TriggerReturns(c)
    BY <2>2 DEF TriggerReturns
  <2>3. CASE TriggerTimesOut(c)
    BY <2>3 DEF TriggerTimesOut, GiveUp
  <2>4. CASE DropTrigger(c)
    BY <2>4 DEF DropTrigger
  <2>5. CASE Sleep(c)
    BY <2>5 DEF Sleep
  <2> QED
    BY <1>7, <2>1, <2>2, <2>3, <2>4, <2>5 DEF Synchronize
<1>8. CASE CheckHealth(c)
  <2> USE DEF Report, PassIf
  <2>1. CASE Query(c)
    BY <2>1 DEF Query
  <2>2. CASE QueryReturns(c)
    BY <2>2 DEF QueryReturns
  <2>3. CASE QueryTimesOut(c)
    BY <2>3 DEF QueryTimesOut, GiveUp
  <2>4. CASE DropQuery(c)
    BY <2>4 DEF DropQuery
  <2>5. CASE CheckEndpoints(c)
    BY <2>5 DEF CheckEndpoints
  <2>6. CASE CheckJoints(c)
    BY <2>6 DEF CheckJoints
  <2>7. CASE CheckTf(c)
    BY <2>7 DEF CheckTf
  <2> QED
    BY <1>8, <2>1, <2>2, <2>3, <2>4, <2>5, <2>6, <2>7 DEF CheckHealth
<1>9. CASE Return(c)
  BY <1>9 DEF Return
<1> QED
  BY <1>1, <1>2, <1>3, <1>4, <1>5, <1>6, <1>7, <1>8, <1>9 DEF Handler

LEMMA CallType ==
  ASSUME TypeOK, NoForgottenRequests, NEW c \in Callers, Observe,
         \/ Call(c) \/ Handler(c) \/ MoveItAnswers(c)
         \/ \E success \in BOOLEAN : NodeSynchronizes(c, success)
  PROVE  TypeOK'
<1>1. \A d \in Callers \ {c} : Same(d)
  BY OthersSame
<1> USE <1>1, MovesType, CallersAssumption
    DEF TypeOK, Places, Checking, Methods, Go, Conclude, Step, outsideVars, clientVars, callVars
<1>2. CASE Call(c)
  BY <1>2 DEF Call
<1>3. CASE MoveItAnswers(c)
  <2>1. /\ outcome' = [outcome EXCEPT ![c] = [objects |-> moveit.objects, joints |-> moveit.joints]]
        /\ [objects |-> moveit.objects, joints |-> moveit.joints] \in Scenes
    BY <1>3 DEF MoveItAnswers, Scenes
  <2>2. outcome' \in [Callers -> Scenes \cup Synced \cup {NoOutcome}] /\ outcome'[c] \in Scenes
    BY <2>1
  <2>3. pc[c] # "trigger"
    BY <1>3 DEF MoveItAnswers, NoForgottenRequests
  <2> QED
    BY <1>3, <2>2, <2>3 DEF MoveItAnswers
<1>4. CASE \E success \in BOOLEAN : NodeSynchronizes(c, success)
  <2> PICK success \in BOOLEAN : NodeSynchronizes(c, success)
    BY <1>4
  <2>1. outcome' = [outcome EXCEPT ![c] = [success |-> success]] /\ [success |-> success] \in Synced
    BY DEF NodeSynchronizes, Synced
  <2>2. outcome' \in [Callers -> Scenes \cup Synced \cup {NoOutcome}] /\ outcome'[c] \in Synced
    BY <2>1
  <2>3. pc[c] \in {"trigger", "dropTrigger"}
    BY DEF NodeSynchronizes, NoForgottenRequests
  <2>4. faults' \in 0..MaxFaults /\ triggers' \subseteq Callers
    <3>1. faults' = faults \/ Fault
      BY DEF NodeSynchronizes
    <3>2. triggers' = triggers \ {c}
      BY DEF NodeSynchronizes
    <3> QED
      BY <3>1, <3>2 DEF Fault
  <2>5. UNCHANGED <<config, moveit, node, abandoned, tf, disabled, jointState, queries, lost,
                    method, pc, verdict, main>>
    BY DEF NodeSynchronizes
  <2>6. {published', abandoned', disabled'} \subseteq BOOLEAN
    <3>1. CASE success
      BY <3>1, <2>5 DEF NodeSynchronizes
    <3>2. CASE ~success
      BY <3>2, <2>5 DEF NodeSynchronizes
    <3> QED
      BY <3>1, <3>2
  <2> QED
    BY <2>2, <2>3, <2>4, <2>5, <2>6
<1>5. CASE GetState(c)
  BY <1>5 DEF GetState
<1>6. CASE Enable(c)
  BY <1>6 DEF Enable
<1>7. CASE Disable(c)
  BY <1>7 DEF Disable
<1>8. CASE Synchronize(c)
  <2>1. CASE Trigger(c)
    BY <2>1 DEF Trigger
  <2>2. CASE TriggerReturns(c)
    BY <2>2 DEF TriggerReturns
  <2>3. CASE TriggerTimesOut(c)
    BY <2>3 DEF TriggerTimesOut, GiveUp, Fault
  <2>4. CASE DropTrigger(c)
    BY <2>4 DEF DropTrigger
  <2>5. CASE Sleep(c)
    BY <2>5 DEF Sleep
  <2> QED
    BY <1>8, <2>1, <2>2, <2>3, <2>4, <2>5 DEF Synchronize
<1>9. CASE CheckHealth(c)
  <2> USE DEF Report, PassIf
  <2>1. CASE Query(c)
    BY <2>1 DEF Query
  <2>2. CASE QueryReturns(c)
    BY <2>2 DEF QueryReturns
  <2>3. CASE QueryTimesOut(c)
    BY <2>3 DEF QueryTimesOut, GiveUp, Fault
  <2>4. CASE DropQuery(c)
    BY <2>4 DEF DropQuery
  <2>5. CASE CheckEndpoints(c)
    BY <2>5 DEF CheckEndpoints
  <2>6. CASE CheckJoints(c)
    BY <2>6 DEF CheckJoints
  <2>7. CASE CheckTf(c)
    BY <2>7 DEF CheckTf
  <2> QED
    BY <1>9, <2>1, <2>2, <2>3, <2>4, <2>5, <2>6, <2>7 DEF CheckHealth
<1>10. CASE Return(c)
  BY <1>10 DEF Return
<1> QED
  BY <1>2, <1>3, <1>4, <1>5, <1>6, <1>7, <1>8, <1>9, <1>10 DEF Handler

(* A request enters its table when its caller begins to wait, and leaves it before it goes on. *)
LEMMA CallRequests ==
  ASSUME TypeOK, NoForgottenRequests, NEW c \in Callers,
         \/ Call(c) \/ Handler(c) \/ MoveItAnswers(c)
         \/ \E success \in BOOLEAN : NodeSynchronizes(c, success)
  PROVE  NoForgottenRequests'
<1>1. \A d \in Callers \ {c} : Same(d)
  BY OthersSame
<1> SUFFICES /\ c \in queries' => pc'[c] \in {"query", "drop"}
             /\ c \in triggers' => pc'[c] \in {"trigger", "dropTrigger"}
  BY <1>1 DEF NoForgottenRequests, Same
<1> USE DEF TypeOK, NoForgottenRequests, Go, Conclude, Step, clientVars, callVars
<1>2. CASE Call(c)
  BY <1>2 DEF Call
<1>3. CASE MoveItAnswers(c)
  BY <1>3 DEF MoveItAnswers
<1>4. CASE \E success \in BOOLEAN : NodeSynchronizes(c, success)
  BY <1>4 DEF NodeSynchronizes
<1>5. CASE GetState(c) \/ Enable(c) \/ Disable(c)
  BY <1>5 DEF GetState, Enable, Disable
<1>6. CASE Synchronize(c)
  BY <1>6 DEF Synchronize, Trigger, TriggerReturns, TriggerTimesOut, GiveUp, DropTrigger, Sleep
<1>7. CASE CheckHealth(c)
  BY <1>7 DEF CheckHealth, Query, QueryReturns, QueryTimesOut, GiveUp, DropQuery, CheckEndpoints,
              CheckJoints, CheckTf, Report, PassIf
<1>8. CASE Return(c)
  BY <1>8 DEF Return
<1> QED
  BY <1>2, <1>3, <1>4, <1>5, <1>6, <1>7, <1>8 DEF Handler

LEMMA NextRequests == TypeOK /\ NoForgottenRequests /\ [Next]_vars => NoForgottenRequests'
<1> SUFFICES ASSUME TypeOK, NoForgottenRequests, [Next]_vars PROVE NoForgottenRequests'
  OBVIOUS
<1>1. CASE UNCHANGED <<queries, triggers, pc>>
  BY <1>1 DEF NoForgottenRequests
<1>2. CASE Outside \/ Signal \/ Shutdown \/ UNCHANGED vars
  BY <1>1, <1>2 DEF Outside, Signal, Shutdown, vars, clientVars, callVars
<1>3. ASSUME NEW c \in Callers,
             \/ Call(c) \/ Handler(c) \/ MoveItAnswers(c)
             \/ \E success \in BOOLEAN : NodeSynchronizes(c, success)
      PROVE  NoForgottenRequests'
  BY <1>3, CallRequests
<1> QED
  BY <1>2, <1>3 DEF Next, Actions

LEMMA MainType == TypeOK /\ (Signal \/ Shutdown) /\ Observe => TypeOK'
<1> SUFFICES ASSUME TypeOK, Signal \/ Shutdown, Observe PROVE TypeOK'
  OBVIOUS
<1>1. seen' \in [Callers -> SUBSET (Conditions \cup {"synchronized"})]
  BY DEF Observe, Holding, Synchronized, TypeOK
<1>2. main' \in {"drain", "returned"}
  BY DEF Signal, Shutdown
<1>3. UNCHANGED <<config, outsideVars, clientVars, callVars>>
  BY DEF Signal, Shutdown
<1> QED
  BY <1>1, <1>2, <1>3 DEF TypeOK, outsideVars, clientVars, callVars

LEMMA NextType == TypeOK /\ NoForgottenRequests /\ [Next]_vars => TypeOK'
<1> SUFFICES ASSUME TypeOK, NoForgottenRequests, [Next]_vars PROVE TypeOK'
  OBVIOUS
<1>1. CASE UNCHANGED vars
  BY <1>1 DEF vars, outsideVars, clientVars, callVars, TypeOK
<1>2. CASE Outside /\ Observe
  BY <1>2, OutsideType
<1>3. CASE (Signal \/ Shutdown) /\ Observe
  BY <1>3, MainType
<1>4. ASSUME NEW c \in Callers, Observe,
             \/ Call(c) \/ Handler(c) \/ MoveItAnswers(c)
             \/ \E success \in BOOLEAN : NodeSynchronizes(c, success)
      PROVE  TypeOK'
  BY <1>4, CallType
<1> QED
  BY <1>1, <1>2, <1>3, <1>4 DEF Next, Actions

LEMMA InitRequests == Init => NoForgottenRequests
  BY DEF Init, NoForgottenRequests

(* Every variable keeps its type, and nothing is read out of an answer that has not come. *)
THEOREM TypeCorrect == Spec => []TypeOK
  BY InitType, NextType, InitRequests, NextRequests, PTL DEF Spec

(***************************************************************************)
(* However timeouts, late answers and restarts interleave, the clients'    *)
(* tables hold the requests somebody waits for and no other.               *)
(***************************************************************************)
THEOREM RequestsCorrect == Spec => []NoForgottenRequests
  BY InitType, NextType, InitRequests, NextRequests, PTL DEF Spec

-----------------------------------------------------------------------------
(* What a verdict rests on. *)

(***************************************************************************)
(* The part of the health that a check has already been through is among   *)
(* what held since it began, and so is what its answer says of the scene.  *)
(***************************************************************************)
Observed(c) ==
  /\ pc[c] # "answer" => verdict[c] = "none"
  /\ pc[c] \in Checking => Holding \subseteq seen[c]
  /\ (pc[c] = "query" /\ c \notin queries) \/ pc[c] \in {"endpoints", "joints"} =>
       (SceneFine(outcome[c]) => "scene" \in seen[c])
  /\ pc[c] = "joints" =>
       /\ "endpoints" \in seen[c]
       /\ ~config.mock /\ config.expect => outcome[c].objects
  /\ pc[c] = "tf" => {"scene", "endpoints", "joints"} \subseteq seen[c]
  /\ Healthy(c) => Conditions \subseteq seen[c]

(* An Enable that has come past the synchronization has seen it succeed. *)
PastSync(c) ==
  /\ pc[c] = "trigger" /\ c \notin triggers /\ outcome[c].success => "synchronized" \in seen[c]
  /\ method[c] = "Enable" /\ ~config.mock /\ pc[c] \in {"sleep"} \cup Checking =>
       "synchronized" \in seen[c]
  /\ Healthy(c) /\ method[c] = "Enable" /\ ~config.mock => "synchronized" \in seen[c]

Knows(c) == Observed(c) /\ PastSync(c)

(* The history only grows until the call ends or a bad verdict is given. *)
LEMMA SeenGrows ==
  ASSUME Observe, NEW c \in Callers,
         pc'[c] # "idle", verdict'[c] \notin {"DISABLED", "ERROR", "INTERNAL"}
  PROVE  /\ seen[c] \subseteq seen'[c]
         /\ Synchronized(c) \subseteq seen'[c]
         /\ pc'[c] \in Checking => Holding' \subseteq seen'[c]
  BY DEF Observe

LEMMA SameKnows ==
  ASSUME TypeOK, Observe, NEW c \in Callers, Knows(c), Same(c), config' = config
  PROVE  Knows(c)'
<1> USE DEF Knows, Observed, PastSync, Same, Healthy
<1>1. CASE pc'[c] = "idle"
  BY <1>1 DEF Checking
<1>2. CASE verdict'[c] \in {"DISABLED", "ERROR", "INTERNAL"}
  BY <1>2 DEF Checking
<1>3. CASE pc'[c] # "idle" /\ verdict'[c] \notin {"DISABLED", "ERROR", "INTERNAL"}
  <2>1. /\ seen[c] \subseteq seen'[c]
        /\ pc'[c] \in Checking => Holding' \subseteq seen'[c]
    BY <1>3, SeenGrows
  <2>2. SceneFine(outcome[c])' = SceneFine(outcome[c])
    BY DEF SceneFine
  <2> QED
    BY <2>1, <2>2
<1> QED
  BY <1>1, <1>2, <1>3

(* A call that ends, or that goes wrong, knows nothing and says nothing. *)
LEMMA BadKnows ==
  ASSUME NEW c \in Callers,
         \/ pc'[c] = "idle" /\ verdict'[c] = "none"
         \/ pc'[c] = "answer" /\ verdict'[c] \in {"DISABLED", "ERROR", "INTERNAL"}
         \/ pc'[c] = "answer" /\ verdict'[c] = "OK" /\ method'[c] = "Disable"
         \/ pc'[c] \in {"flag", "bridge", "dropTrigger"} /\ verdict'[c] = "none"
  PROVE  Knows(c)'
  BY DEF Knows, Observed, PastSync, Healthy, Checking

LEMMA BeginKnows ==
  ASSUME TypeOK, Observe, NEW c \in Callers, Knows(c),
         Call(c) \/ GetState(c) \/ Enable(c) \/ Disable(c) \/ Return(c)
  PROVE  Knows(c)'
<1> USE BadKnows DEF TypeOK, Go, Conclude, Step
<1>1. CASE Call(c)
  BY <1>1 DEF Call, Knows, Observed
<1>2. CASE GetState(c)
  <2>1. CASE disabled
    BY <1>2, <2>1 DEF GetState
  <2>2. CASE ~disabled
    <3>1. pc'[c] = "service" /\ verdict'[c] = "none" /\ method'[c] = "GetState"
      BY <1>2, <2>2 DEF GetState, Knows, Observed
    <3>2. Holding' \subseteq seen'[c]
      BY <3>1, SeenGrows DEF Checking
    <3> QED
      BY <3>1, <3>2 DEF Knows, Observed, PastSync, Healthy
  <2> QED
    BY <2>1, <2>2
<1>3. CASE Enable(c)
  <2>1. verdict'[c] = "none" /\ pc'[c] = (IF config.mock THEN "sleep" ELSE "bridge")
    BY <1>3 DEF Enable, Knows, Observed
  <2>2. config' = config
    BY <1>3 DEF Enable
  <2> QED
    BY <2>1, <2>2 DEF Knows, Observed, PastSync, Healthy, Checking
<1>4. CASE Disable(c)
  BY <1>4 DEF Disable
<1>5. CASE Return(c)
  BY <1>5 DEF Return
<1> QED
  BY <1>1, <1>2, <1>3, <1>4, <1>5

LEMMA SyncKnows ==
  ASSUME TypeOK, NoForgottenRequests, Observe, NEW c \in Callers, Knows(c),
         Synchronize(c) \/ \E success \in BOOLEAN : NodeSynchronizes(c, success)
  PROVE  Knows(c)'
<1> USE BadKnows DEF TypeOK, Go, Conclude, Step
<1>1. CASE Trigger(c)
  <2>1. CASE node
    <3>1. pc'[c] = "trigger" /\ c \in triggers' /\ verdict'[c] = "none"
      BY <1>1, <2>1 DEF Trigger, Knows, Observed
    <3> QED
      BY <3>1 DEF Knows, Observed, PastSync, Healthy, Checking
  <2>2. CASE ~node
    BY <1>1, <2>2 DEF Trigger
  <2> QED
    BY <2>1, <2>2
<1>2. CASE TriggerReturns(c)
  <2>1. CASE outcome[c].success
    <3>1. pc'[c] = "sleep" /\ verdict'[c] = "none" /\ "synchronized" \in seen[c]
      BY <1>2, <2>1 DEF TriggerReturns, Knows, Observed, PastSync
    <3>2. "synchronized" \in seen'[c]
      BY <3>1, SeenGrows
    <3> QED
      BY <3>1, <3>2 DEF Knows, Observed, PastSync, Healthy, Checking
  <2>2. CASE ~outcome[c].success
    BY <1>2, <2>2 DEF TriggerReturns
  <2> QED
    BY <2>1, <2>2
<1>3. CASE TriggerTimesOut(c)
  BY <1>3 DEF TriggerTimesOut, GiveUp, Knows, Observed
<1>4. CASE DropTrigger(c)
  BY <1>4 DEF DropTrigger
<1>5. CASE Sleep(c)
  <2>1. pc'[c] = "service" /\ verdict'[c] = "none" /\ UNCHANGED <<config, method>>
    BY <1>5 DEF Sleep, Knows, Observed
  <2>2. method[c] = "Enable" /\ ~config.mock => "synchronized" \in seen[c]
    BY <1>5 DEF Sleep, Knows, PastSync
  <2>3. seen[c] \subseteq seen'[c] /\ Holding' \subseteq seen'[c]
    BY <2>1, SeenGrows DEF Checking
  <2> QED
    BY <2>1, <2>2, <2>3 DEF Knows, Observed, PastSync, Healthy, Checking
<1>6. ASSUME NEW success \in BOOLEAN, NodeSynchronizes(c, success)
      PROVE  Knows(c)'
  <2>1. pc[c] \in {"trigger", "dropTrigger"} /\ UNCHANGED <<pc, verdict, method, config>>
    BY <1>6 DEF NodeSynchronizes, NoForgottenRequests
  <2>2. verdict'[c] = "none"
    BY <2>1 DEF Knows, Observed
  <2>3. outcome'[c].success => "synchronized" \in seen'[c]
    <3>1. outcome'[c] = [success |-> success] /\ c \in triggers \ triggers'
      BY <1>6 DEF NodeSynchronizes
    <3>2. CASE success = TRUE
      BY <3>1, <3>2, <2>1, <2>2, SeenGrows DEF Synchronized
    <3>3. CASE success = FALSE
      BY <3>1, <3>3
    <3> QED
      BY <3>2, <3>3
  <2> QED
    BY <2>1, <2>2, <2>3 DEF Knows, Observed, PastSync, Healthy, Checking
<1> QED
  BY <1>1, <1>2, <1>3, <1>4, <1>5, <1>6 DEF Synchronize

(* A check that has not failed has the history it had, and what holds now. *)
LEMMA CheckGoesOn ==
  ASSUME TypeOK, Observe, NEW c \in Callers, Knows(c),
         pc[c] \in Checking, pc'[c] \in Checking, UNCHANGED <<config, method, verdict>>
  PROVE  /\ seen[c] \subseteq seen'[c] /\ Holding' \subseteq seen'[c]
         /\ verdict'[c] = "none"
         /\ PastSync(c)'
<1>1. verdict'[c] = "none" /\ pc'[c] # "idle" /\ pc'[c] # "trigger"
  BY DEF Knows, Observed, Checking
<1>2. seen[c] \subseteq seen'[c] /\ Holding' \subseteq seen'[c]
  BY <1>1, SeenGrows
<1> QED
  BY <1>1, <1>2 DEF Knows, PastSync, Healthy

LEMMA CheckKnows ==
  ASSUME TypeOK, NoForgottenRequests, Observe, NEW c \in Callers, Knows(c),
         CheckHealth(c) \/ MoveItAnswers(c)
  PROVE  Knows(c)'
<1> USE BadKnows DEF TypeOK, Go, Conclude, Step, Report, PassIf
<1>1. CASE Query(c)
  <2>1. CASE moveit.up
    <3>1. /\ pc[c] = "service" /\ pc'[c] = "query" /\ c \in queries'
          /\ UNCHANGED <<config, method, verdict>>
      BY <1>1, <2>1 DEF Query
    <3>2. Holding' \subseteq seen'[c] /\ verdict'[c] = "none" /\ PastSync(c)'
      BY <3>1, CheckGoesOn DEF Checking
    <3> QED
      BY <3>1, <3>2 DEF Knows, Observed, Healthy
  <2>2. CASE ~moveit.up
    BY <1>1, <2>2 DEF Query
  <2> QED
    BY <2>1, <2>2
<1>2. CASE MoveItAnswers(c)
  <2>1. /\ UNCHANGED <<config, method, verdict, pc, moveit>> /\ moveit.up
        /\ outcome'[c] = [objects |-> moveit.objects, joints |-> moveit.joints]
    BY <1>2 DEF MoveItAnswers, outsideVars
  <2>2. CASE pc[c] \in Checking
    <3>1. /\ seen[c] \subseteq seen'[c] /\ Holding' \subseteq seen'[c]
          /\ verdict'[c] = "none" /\ PastSync(c)'
      BY <2>1, <2>2, CheckGoesOn
    <3>2. SceneFine(outcome[c])' => "scene" \in Holding'
      BY <2>1 DEF SceneFine, Holding, Conditions
    <3>3. pc[c] \notin {"joints", "tf", "answer"}
      BY <1>2 DEF MoveItAnswers, NoForgottenRequests
    <3> QED
      BY <2>1, <3>1, <3>2, <3>3 DEF Knows, Observed, Healthy
  <2>3. CASE pc[c] \notin Checking
    BY <1>2, <2>1, <2>3 DEF MoveItAnswers, NoForgottenRequests, Checking
  <2> QED
    BY <2>2, <2>3
<1>3. CASE QueryReturns(c)
  <2>1. /\ pc[c] = "query" /\ pc'[c] = "endpoints" /\ c \notin queries
        /\ UNCHANGED <<config, method, verdict, outcome>>
    BY <1>3 DEF QueryReturns
  <2>2. /\ seen[c] \subseteq seen'[c] /\ Holding' \subseteq seen'[c]
        /\ verdict'[c] = "none" /\ PastSync(c)'
    BY <2>1, CheckGoesOn DEF Checking
  <2> QED
    BY <2>1, <2>2 DEF Knows, Observed, Healthy, SceneFine
<1>4. CASE QueryTimesOut(c)
  <2>1. /\ pc[c] = "query" /\ pc'[c] = "drop"
        /\ UNCHANGED <<config, method, verdict>>
    BY <1>4 DEF QueryTimesOut, GiveUp
  <2>2. Holding' \subseteq seen'[c] /\ verdict'[c] = "none" /\ PastSync(c)'
    BY <2>1, CheckGoesOn DEF Checking
  <2> QED
    BY <2>1, <2>2 DEF Knows, Observed, Healthy
<1>5. CASE DropQuery(c)
  BY <1>5 DEF DropQuery
<1>6. CASE CheckEndpoints(c)
  <2> DEFINE fine == node /\ (~config.mock /\ config.expect => outcome[c].objects)
  <2>1. CASE fine
    <3>1. /\ pc[c] = "endpoints" /\ pc'[c] = "joints" /\ node'
          /\ UNCHANGED <<config, method, verdict, outcome>>
      BY <1>6, <2>1 DEF CheckEndpoints, outsideVars
    <3>2. /\ seen[c] \subseteq seen'[c] /\ Holding' \subseteq seen'[c]
          /\ verdict'[c] = "none" /\ PastSync(c)'
      BY <3>1, CheckGoesOn DEF Checking
    <3>3. "endpoints" \in Holding'
      BY <3>1 DEF Holding, Conditions
    <3> QED
      BY <2>1, <3>1, <3>2, <3>3 DEF Knows, Observed, Healthy, SceneFine
  <2>2. CASE ~fine
    BY <1>6, <2>2 DEF CheckEndpoints
  <2> QED
    BY <2>1, <2>2
<1>7. CASE CheckJoints(c)
  <2> DEFINE fine == config.mock \/ (jointState = "complete" /\ outcome[c].joints)
  <2>1. CASE fine
    <3>1. /\ pc[c] = "joints" /\ pc'[c] = "tf"
          /\ UNCHANGED <<config, method, verdict, jointState>>
      BY <1>7, <2>1 DEF CheckJoints
    <3>2. /\ seen[c] \subseteq seen'[c] /\ Holding' \subseteq seen'[c]
          /\ verdict'[c] = "none" /\ PastSync(c)'
      BY <3>1, CheckGoesOn DEF Checking
    <3>3. "joints" \in Holding'
      BY <2>1, <3>1 DEF Holding, Conditions
    <3>4. {"scene", "endpoints"} \subseteq seen[c]
      BY <2>1, <3>1 DEF Knows, Observed, SceneFine
    <3> QED
      BY <3>1, <3>2, <3>3, <3>4 DEF Knows, Observed, Healthy
  <2>2. CASE ~fine
    BY <1>7, <2>2 DEF CheckJoints
  <2> QED
    BY <2>1, <2>2
<1>8. CASE CheckTf(c)
  <2>1. CASE tf
    <3>1. pc[c] = "tf" /\ pc'[c] = "answer" /\ UNCHANGED <<config, method>>
      BY <1>8, <2>1 DEF CheckTf
    <3>2. verdict'[c] \in {"ENABLED", "OK"}
      BY <1>8, <2>1 DEF CheckTf
    <3>3. Conditions \subseteq seen[c]
      BY <2>1, <3>1 DEF Knows, Observed, Holding, Conditions, Checking
    <3>4. seen[c] \subseteq seen'[c]
      BY <3>1, <3>2, SeenGrows
    <3>5. method[c] = "Enable" /\ ~config.mock => "synchronized" \in seen[c]
      BY <3>1 DEF Knows, PastSync, Checking
    <3> QED
      BY <3>1, <3>2, <3>3, <3>4, <3>5 DEF Knows, Observed, PastSync, Healthy, Checking
  <2>2. CASE ~tf
    BY <1>8, <2>2 DEF CheckTf
  <2> QED
    BY <2>1, <2>2
<1> QED
  BY <1>1, <1>2, <1>3, <1>4, <1>5, <1>6, <1>7, <1>8 DEF CheckHealth

IInv == TypeOK /\ NoForgottenRequests /\ \A c \in Callers : Knows(c)

LEMMA InitInv == Init => IInv
  BY InitType, InitRequests DEF IInv, Init, Knows, Observed, PastSync, Healthy, Checking

LEMMA NextInv == IInv /\ [Next]_vars => IInv'
<1> SUFFICES ASSUME IInv, [Next]_vars PROVE \A c \in Callers : Knows(c)'
  BY NextType, NextRequests DEF IInv
<1> USE DEF IInv
<1>1. CASE UNCHANGED vars
  <2> SUFFICES ASSUME NEW c \in Callers PROVE Knows(c)'
    OBVIOUS
  <2>1. Holding' = Holding /\ Healthy(c)' = Healthy(c)
        /\ SceneFine(outcome[c])' = SceneFine(outcome[c])
    BY <1>1 DEF Holding, Healthy, SceneFine, vars, outsideVars, clientVars, callVars
  <2> QED
    BY <1>1, <2>1 DEF vars, outsideVars, clientVars, callVars, Knows, Observed, PastSync
<1>2. CASE (Outside \/ Signal \/ Shutdown) /\ Observe
  <2> SUFFICES ASSUME NEW c \in Callers PROVE Knows(c)'
    OBVIOUS
  <2>1. UNCHANGED <<config, queries, triggers, callVars>>
    BY <1>2 DEF Outside, Signal, Shutdown, clientVars
  <2>2. Same(c)
    BY <2>1 DEF Same, callVars
  <2> QED
    BY <1>2, <2>1, <2>2, SameKnows
<1>3. ASSUME NEW d \in Callers, Observe,
             \/ Call(d) \/ Handler(d) \/ MoveItAnswers(d)
             \/ \E success \in BOOLEAN : NodeSynchronizes(d, success)
      PROVE  \A c \in Callers : Knows(c)'
  <2>1. Knows(d)'
    BY <1>3, BeginKnows, SyncKnows, CheckKnows DEF Handler
  <2>2. \A c \in Callers \ {d} : Same(c)
    BY <1>3, OthersSame
  <2>3. config' = config
    <3> USE DEF Step
    <3>1. CASE Call(d) \/ MoveItAnswers(d) \/ Return(d)
      BY <3>1 DEF Call, MoveItAnswers, Return
    <3>2. CASE \E success \in BOOLEAN : NodeSynchronizes(d, success)
      BY <3>2 DEF NodeSynchronizes
    <3>3. CASE GetState(d) \/ Enable(d) \/ Disable(d)
      BY <3>3 DEF GetState, Enable, Disable
    <3>4. CASE Synchronize(d)
      BY <3>4 DEF Synchronize, Trigger, TriggerReturns, TriggerTimesOut, GiveUp, DropTrigger, Sleep
    <3>5. CASE CheckHealth(d)
      BY <3>5 DEF CheckHealth, Query, QueryReturns, QueryTimesOut, GiveUp, DropQuery,
                  CheckEndpoints, CheckJoints, CheckTf
    <3> QED
      BY <1>3, <3>1, <3>2, <3>3, <3>4, <3>5 DEF Handler
  <2> QED
    BY <1>3, <2>1, <2>2, <2>3, SameKnows
<1> QED
  BY <1>1, <1>2, <1>3 DEF Next, Actions

(***************************************************************************)
(* However many callers check, enable and disable at once, and whatever    *)
(* goes wrong outside, a caller is told that the service works only if     *)
(* each condition held at some moment of its own check.                    *)
(***************************************************************************)
THEOREM VerdictCorrect == Spec => []HealthyWasObserved
<1>1. IInv => HealthyWasObserved
  BY DEF IInv, Knows, Observed, HealthyWasObserved
<1> QED
  BY <1>1, InitInv, NextInv, PTL DEF Spec

(* An Enable says OK only if a synchronization it asked for has succeeded while it ran. *)
THEOREM EnableCorrect == Spec => []EnableSynchronized
<1>1. IInv => EnableSynchronized
  BY DEF IInv, Knows, PastSync, EnableSynchronized
<1> QED
  BY <1>1, InitInv, NextInv, PTL DEF Spec

-----------------------------------------------------------------------------
(* Each call takes effect at one moment. *)

(* Where a call has taken effect and its answer is not decided yet. *)
Ongoing == {"bridge", "trigger", "dropTrigger", "sleep"} \cup Checking

(* A call is under way exactly while it has a method; only an Enable synchronizes. *)
MethodsOK ==
  \A c \in Callers :
    /\ pc[c] = "idle" <=> method[c] = "none"
    /\ pc[c] \in Ongoing \ Checking => method[c] = "Enable"

(* What a call that goes on does to itself. *)
GoesOn(c) ==
  /\ pc[c] \in Ongoing
  /\ UNCHANGED <<disabled, method>>
  /\ \/ pc'[c] \in Ongoing /\ (pc'[c] \in Checking \/ pc[c] \notin Checking)
     \/ /\ pc'[c] = "answer"
        /\ verdict'[c] \in IF method[c] = "GetState" THEN {"ENABLED", "ERROR"} ELSE {"OK", "INTERNAL"}

LEMMA SyncGoesOn ==
  ASSUME TypeOK, MethodsOK, NEW c \in Callers, Synchronize(c)
  PROVE  GoesOn(c)
<1> USE DEF TypeOK, MethodsOK, GoesOn, Ongoing, Checking, Step, Go, Conclude, clientVars
<1>1. CASE Trigger(c)
  BY <1>1 DEF Trigger
<1>2. CASE TriggerReturns(c)
  BY <1>2 DEF TriggerReturns
<1>3. CASE TriggerTimesOut(c)
  BY <1>3 DEF TriggerTimesOut, GiveUp
<1>4. CASE DropTrigger(c)
  BY <1>4 DEF DropTrigger
<1>5. CASE Sleep(c)
  BY <1>5 DEF Sleep
<1> QED
  BY <1>1, <1>2, <1>3, <1>4, <1>5 DEF Synchronize

LEMMA HealthGoesOn ==
  ASSUME TypeOK, MethodsOK, NEW c \in Callers, CheckHealth(c)
  PROVE  GoesOn(c)
<1> USE DEF TypeOK, MethodsOK, GoesOn, Ongoing, Checking, Step, Go, Conclude, PassIf, Report, clientVars
<1>1. CASE Query(c)
  BY <1>1 DEF Query
<1>2. CASE QueryReturns(c)
  BY <1>2 DEF QueryReturns
<1>3. CASE QueryTimesOut(c)
  BY <1>3 DEF QueryTimesOut, GiveUp
<1>4. CASE DropQuery(c)
  BY <1>4 DEF DropQuery
<1>5. CASE CheckEndpoints(c)
  BY <1>5 DEF CheckEndpoints
<1>6. CASE CheckJoints(c)
  BY <1>6 DEF CheckJoints
<1>7. CASE CheckTf(c)
  BY <1>7 DEF CheckTf
<1> QED
  BY <1>1, <1>2, <1>3, <1>4, <1>5, <1>6, <1>7 DEF CheckHealth

LEMMA InitMethods == Init => MethodsOK
BY DEF Init, MethodsOK, Ongoing, Checking

LEMMA NextMethods == TypeOK /\ MethodsOK /\ [Next]_vars => MethodsOK'
<1> SUFFICES ASSUME TypeOK, MethodsOK, [Next]_vars PROVE MethodsOK'
  OBVIOUS
<1>1. CASE UNCHANGED <<method, pc>>
  BY <1>1 DEF MethodsOK
<1>2. CASE Outside \/ Signal \/ Shutdown \/ UNCHANGED vars
  BY <1>1, <1>2 DEF Outside, Signal, Shutdown, callVars, vars
<1>3. ASSUME NEW c \in Callers,
             MoveItAnswers(c) \/ \E success \in BOOLEAN : NodeSynchronizes(c, success)
      PROVE  MethodsOK'
  BY <1>1, <1>3 DEF MoveItAnswers, NodeSynchronizes
<1>4. ASSUME NEW c \in Callers, Call(c) \/ Handler(c) PROVE MethodsOK'
  <2> SUFFICES /\ pc'[c] = "idle" <=> method'[c] = "none"
               /\ pc'[c] \in Ongoing \ Checking => method'[c] = "Enable"
    BY <1>4, OthersSame DEF MethodsOK, Same
  <2> USE DEF TypeOK, MethodsOK, Ongoing, Checking, Step, Go, Conclude, clientVars
  <2>1. CASE Call(c)
    <3>1. PICK m \in MayCall[c] : method' = [method EXCEPT ![c] = m]
      BY <2>1 DEF Call
    <3>2. m # "none"
      BY <3>1, CallersAssumption DEF Methods
    <3> QED
      BY <2>1, <3>1, <3>2 DEF Call
  <2>2. CASE GetState(c)
    BY <2>2 DEF GetState
  <2>3. CASE Enable(c)
    BY <2>3 DEF Enable
  <2>4. CASE Disable(c)
    BY <2>4 DEF Disable
  <2>5. CASE Return(c)
    BY <2>5 DEF Return
  <2>6. CASE Synchronize(c) \/ CheckHealth(c)
    <3>1. GoesOn(c)
      BY <2>6, SyncGoesOn, HealthGoesOn
    <3> QED
      BY <3>1 DEF GoesOn
  <2> QED
    BY <1>4, <2>1, <2>2, <2>3, <2>4, <2>5, <2>6 DEF Handler
<1> QED
  BY <1>2, <1>3, <1>4 DEF Next, Actions

(* What a call may still return, place by place. *)
LEMMA AnswersAt ==
  \A c \in Callers :
    /\ pc[c] \in {"idle", "flag"} => MayAnswer[c] = {}
    /\ pc[c] = "answer" => MayAnswer[c] = {verdict[c]}
    /\ pc[c] \in Ongoing =>
         MayAnswer[c] = IF method[c] = "GetState" THEN {"ENABLED", "ERROR"} ELSE {"OK", "INTERNAL"}
BY DEF MayAnswer, Ongoing, Checking

LEMMA AnswersNext ==
  \A c \in Callers :
    /\ pc'[c] \in {"idle", "flag"} => MayAnswer'[c] = {}
    /\ pc'[c] = "answer" => MayAnswer'[c] = {verdict'[c]}
    /\ pc'[c] \in Ongoing =>
         MayAnswer'[c] = IF method'[c] = "GetState" THEN {"ENABLED", "ERROR"} ELSE {"OK", "INTERNAL"}
BY DEF MayAnswer, Ongoing, Checking

(* A step of one call changes what that call may return, and no other. *)
LEMMA AnswersMove ==
  ASSUME NEW c \in Callers, \A d \in Callers \ {c} : Same(d)
  PROVE  MayAnswer' = [MayAnswer EXCEPT ![c] = MayAnswer'[c]]
<1>1. \A d \in Callers \ {c} : MayAnswer'[d] = MayAnswer[d]
  BY DEF MayAnswer, Same
<1>2. MayAnswer \in [Callers -> {MayAnswer[d] : d \in Callers}] /\ DOMAIN MayAnswer' = Callers
  BY DEF MayAnswer
<1> QED
  BY <1>1, <1>2 DEF MayAnswer

LEMMA HandlerIsStep ==
  ASSUME TypeOK, MethodsOK, MethodsOK', NEW c \in Callers, Call(c) \/ Handler(c)
  PROVE  [ServiceStateOf!Next]_ServiceStateOf!vars
<1>0. MayAnswer' = [MayAnswer EXCEPT ![c] = MayAnswer'[c]]
  BY OthersSame, AnswersMove
<1>1. CASE Call(c)
  <2>1. PICK m \in MayCall[c] : method' = [method EXCEPT ![c] = m]
    BY <1>1 DEF Call
  <2>2. pc[c] = "idle" /\ pc'[c] = "flag" /\ UNCHANGED disabled
    BY <1>1 DEF Call, Go, clientVars, TypeOK
  <2>3. method[c] = "none" /\ MayAnswer[c] = {} /\ MayAnswer'[c] = {}
    BY <2>2, AnswersAt, AnswersNext DEF MethodsOK
  <2>4. MayAnswer' = MayAnswer
    BY <1>0, <2>3 DEF MayAnswer
  <2>5. ServiceStateOf!Call(c)
    BY <2>1, <2>2, <2>3, <2>4 DEF ServiceStateOf!Call
  <2> QED
    BY <2>5 DEF ServiceStateOf!Next
<1>2. CASE GetState(c) \/ Enable(c) \/ Disable(c)
  <2> DEFINE Possible == MayAnswer'[c]
  <2>1. pc[c] = "flag" /\ MayAnswer[c] = {} /\ UNCHANGED method
    BY <1>2, AnswersAt DEF GetState, Enable, Disable, Step
  <2>2. CASE GetState(c)
    <3>1. method[c] = "GetState" /\ disabled' = disabled
      BY <2>2 DEF GetState
    <3>2. Possible = IF disabled THEN {"DISABLED"} ELSE {"ENABLED", "ERROR"}
      <4>1. CASE disabled
        <5>1. pc'[c] = "answer" /\ verdict'[c] = "DISABLED"
          BY <2>2, <4>1 DEF GetState, Conclude, Go, TypeOK
        <5> QED
          BY <4>1, <5>1, AnswersNext
      <4>2. CASE ~disabled
        <5>1. pc'[c] = "service" /\ method'[c] = "GetState"
          BY <2>1, <2>2, <3>1, <4>2 DEF GetState, Go, TypeOK
        <5> QED
          BY <4>2, <5>1, AnswersNext DEF Ongoing, Checking
      <4> QED
        BY <4>1, <4>2
    <3> QED
      BY <1>0, <2>1, <3>1, <3>2 DEF ServiceStateOf!Next, ServiceStateOf!TakeEffect, ServiceStateOf!Effect
  <2>3. CASE Enable(c)
    <3>1. method[c] = "Enable" /\ disabled' = FALSE
      BY <2>3 DEF Enable
    <3>2. pc'[c] \in {"sleep", "bridge"} /\ method'[c] = "Enable"
      BY <2>1, <2>3, <3>1 DEF Enable, Go, TypeOK
    <3>3. Possible = {"OK", "INTERNAL"}
      BY <3>2, AnswersNext DEF Ongoing
    <3> QED
      BY <1>0, <2>1, <3>1, <3>3 DEF ServiceStateOf!Next, ServiceStateOf!TakeEffect, ServiceStateOf!Effect
  <2>4. CASE Disable(c)
    <3>1. method[c] = "Disable" /\ disabled' = TRUE
      BY <2>4 DEF Disable
    <3>2. pc'[c] = "answer" /\ verdict'[c] = "OK"
      BY <2>4 DEF Disable, Conclude, Go, TypeOK
    <3>3. Possible = {"OK"}
      BY <3>2, AnswersNext
    <3> QED
      BY <1>0, <2>1, <3>1, <3>3 DEF ServiceStateOf!Next, ServiceStateOf!TakeEffect, ServiceStateOf!Effect
  <2> QED
    BY <1>2, <2>2, <2>3, <2>4
<1>3. CASE Synchronize(c) \/ CheckHealth(c)
  <2>1. GoesOn(c)
    BY <1>3, SyncGoesOn, HealthGoesOn
  <2>2. CASE pc'[c] \in Ongoing
    <3>1. MayAnswer'[c] = MayAnswer[c]
      BY <2>1, <2>2, AnswersAt, AnswersNext DEF GoesOn
    <3>2. MayAnswer' = MayAnswer
      BY <1>0, <3>1 DEF MayAnswer
    <3> QED
      BY <2>1, <3>2 DEF GoesOn, ServiceStateOf!vars
  <2>3. CASE pc'[c] = "answer"
    <3>1. verdict'[c] \in MayAnswer[c]
      BY <2>1, <2>3, AnswersAt DEF GoesOn, Ongoing, Checking
    <3>2. MayAnswer'[c] = {verdict'[c]}
      BY <2>3, AnswersNext
    <3>3. ServiceStateOf!Decide(c)
      BY <1>0, <2>1, <3>1, <3>2 DEF GoesOn, ServiceStateOf!Decide
    <3> QED
      BY <3>3 DEF ServiceStateOf!Next
  <2> QED
    BY <2>1, <2>2, <2>3 DEF GoesOn
<1>4. CASE Return(c)
  <2>1. pc[c] = "answer" /\ pc'[c] = "idle" /\ UNCHANGED disabled
        /\ method' = [method EXCEPT ![c] = "none"]
    BY <1>4 DEF Return, Go, TypeOK
  <2>2. MayAnswer[c] = {verdict[c]} /\ MayAnswer'[c] = {}
    BY <2>1, AnswersAt, AnswersNext
  <2>3. ServiceStateOf!Return(c)
    BY <1>0, <2>1, <2>2 DEF ServiceStateOf!Return
  <2> QED
    BY <2>3 DEF ServiceStateOf!Next
<1> QED
  BY <1>1, <1>2, <1>3, <1>4 DEF Handler

LEMMA NextIsStep ==
  TypeOK /\ MethodsOK /\ MethodsOK' /\ [Next]_vars => [ServiceStateOf!Next]_ServiceStateOf!vars
<1> SUFFICES ASSUME TypeOK, MethodsOK, MethodsOK', [Next]_vars
             PROVE  [ServiceStateOf!Next]_ServiceStateOf!vars
  OBVIOUS
<1>1. CASE UNCHANGED <<disabled, method, pc, verdict>>
  <2>1. MayAnswer' = MayAnswer
    BY <1>1 DEF MayAnswer
  <2> QED
    BY <1>1, <2>1 DEF ServiceStateOf!vars
<1>2. CASE Outside \/ Signal \/ Shutdown \/ UNCHANGED vars
  BY <1>1, <1>2 DEF Outside, Signal, Shutdown, callVars, clientVars, vars
<1>3. ASSUME NEW c \in Callers,
             MoveItAnswers(c) \/ \E success \in BOOLEAN : NodeSynchronizes(c, success)
      PROVE  [ServiceStateOf!Next]_ServiceStateOf!vars
  BY <1>1, <1>3 DEF MoveItAnswers, NodeSynchronizes
<1> QED
  BY <1>2, <1>3, HandlerIsStep DEF Next, Actions

(***************************************************************************)
(* Any number of overlapping calls answer as if each had happened at one   *)
(* moment between its start and its return, whatever fails outside: the    *)
(* safety part of AnswersLinearizable.                                     *)
(***************************************************************************)
THEOREM CallsLinearizable == Spec => ServiceStateOf!Init /\ [][ServiceStateOf!Next]_ServiceStateOf!vars
<1>1. Init => ServiceStateOf!Init
  <2> SUFFICES ASSUME Init PROVE ServiceStateOf!Init
    OBVIOUS
  <2>1. MayAnswer = [c \in Callers |-> {}]
    BY DEF Init, MayAnswer
  <2> QED
    BY <2>1 DEF Init, ServiceStateOf!Init
<1>2. Spec => []TypeOK
  BY TypeCorrect
<1>3. Spec => [](TypeOK /\ MethodsOK)
  BY <1>2, InitMethods, NextMethods, PTL DEF Spec
<1> QED
  BY <1>1, <1>3, NextIsStep, PTL DEF Spec

-----------------------------------------------------------------------------
(***************************************************************************)
(* No wait depends on something going wrong.  A request in a table is with *)
(* a server that is up, or went down with one, and then its caller is      *)
(* still in the wait that gives it up: none is taken for lost because an   *)
(* earlier one of the same caller was.                                     *)
(***************************************************************************)
Abandons(c) ==
  \/ pc[c] \in {"query", "drop"} /\ c \in queries
  \/ pc[c] \in {"trigger", "dropTrigger"} /\ c \in triggers
  \/ pc[c] = "answer"

WaitEnds(c) ==
  /\ c \in queries \ lost => moveit.up = TRUE
  /\ c \in triggers \ lost => node = TRUE
  /\ c \in lost => Abandons(c)

WaitsEnd == \A c \in Callers : WaitEnds(c)

(* When main returns, and destroys the clients, no call is under way and no answer expected. *)
QuietAfterMain ==
  main = "returned" => queries = {} /\ triggers = {} /\ \A c \in Callers : pc[c] = "idle"

LEMMA SameWaitEnds ==
  ASSUME NEW c \in Callers, WaitEnds(c), Same(c), UNCHANGED <<moveit, node>>,
         (c \in lost') = (c \in lost)
  PROVE  WaitEnds(c)'
  BY DEF Same, WaitEnds, Abandons

LEMMA CallWaitEnds ==
  ASSUME TypeOK, NoForgottenRequests, NEW c \in Callers, WaitEnds(c),
         \/ Call(c) \/ Handler(c) \/ MoveItAnswers(c)
         \/ \E success \in BOOLEAN : NodeSynchronizes(c, success)
  PROVE  /\ WaitEnds(c)'
         /\ UNCHANGED <<moveit, node>>
         /\ \A d \in Callers \ {c} : (d \in lost') = (d \in lost)
<1> USE DEF TypeOK, NoForgottenRequests, WaitEnds, Abandons, Go, Conclude, Step, outsideVars,
            clientVars, callVars
<1>1. CASE Call(c)
  BY <1>1 DEF Call
<1>2. CASE MoveItAnswers(c)
  BY <1>2 DEF MoveItAnswers
<1>3. CASE \E success \in BOOLEAN : NodeSynchronizes(c, success)
  BY <1>3 DEF NodeSynchronizes
<1>4. CASE GetState(c) \/ Enable(c) \/ Disable(c)
  BY <1>4 DEF GetState, Enable, Disable
<1>5. CASE Synchronize(c)
  BY <1>5 DEF Synchronize, Trigger, TriggerReturns, TriggerTimesOut, GiveUp, DropTrigger, Sleep
<1>6. CASE CheckHealth(c)
  BY <1>6 DEF CheckHealth, Query, QueryReturns, QueryTimesOut, GiveUp, DropQuery, CheckEndpoints,
              CheckJoints, CheckTf, Report, PassIf
<1>7. CASE Return(c)
  BY <1>7 DEF Return
<1> QED
  BY <1>1, <1>2, <1>3, <1>4, <1>5, <1>6, <1>7 DEF Handler

LEMMA OutsideWaitEnds ==
  ASSUME TypeOK, NoForgottenRequests, WaitsEnd, Outside
  PROVE  WaitsEnd'
<1> SUFFICES ASSUME NEW c \in Callers PROVE WaitEnds(c)'
  BY DEF WaitsEnd
<1>1. WaitEnds(c) /\ UNCHANGED <<queries, triggers, pc>>
  BY DEF WaitsEnd, Outside, callVars
<1>2. /\ c \in queries => pc[c] \in {"query", "drop"}
      /\ c \in triggers => pc[c] \in {"trigger", "dropTrigger"}
  BY DEF NoForgottenRequests
<1> USE <1>1, <1>2 DEF WaitEnds, Abandons
<1>3. CASE MoveItStarts
  BY <1>3 DEF MoveItStarts, TypeOK
<1>4. CASE MoveItStops
  BY <1>4 DEF MoveItStops
<1>5. CASE Deliver \/ RecordJointState
  BY <1>5 DEF Deliver, RecordJointState, TypeOK
<1>6. CASE NodeStarts
  BY <1>6 DEF NodeStarts
<1>7. CASE NodeStops
  BY <1>7 DEF NodeStops
<1>8. CASE NodeSynchronizesLate \/ TfArrives \/ JointStatesFail
  BY <1>8 DEF NodeSynchronizesLate, TfArrives, JointStatesFail
<1> QED
  BY <1>3, <1>4, <1>5, <1>6, <1>7, <1>8 DEF Outside

WaitInv == TypeOK /\ NoForgottenRequests /\ WaitsEnd /\ QuietAfterMain

LEMMA NextWaits == WaitInv /\ [Next]_vars => WaitsEnd' /\ QuietAfterMain'
<1> SUFFICES ASSUME WaitInv, [Next]_vars PROVE WaitsEnd' /\ QuietAfterMain'
  OBVIOUS
<1> USE DEF WaitInv
<1>1. ASSUME NEW c \in Callers,
             \/ Call(c) \/ Handler(c) \/ MoveItAnswers(c)
             \/ \E success \in BOOLEAN : NodeSynchronizes(c, success)
      PROVE  WaitsEnd' /\ QuietAfterMain'
  <2>1. WaitsEnd'
    BY <1>1, CallWaitEnds, OthersSame, SameWaitEnds DEF WaitsEnd
  <2>2. main # "returned"
    <3> SUFFICES ASSUME main = "returned" PROVE FALSE
      OBVIOUS
    <3>1. pc[c] = "idle" /\ c \notin queries /\ c \notin triggers
      BY DEF QuietAfterMain
    <3> QED
      BY <1>1, <3>1 DEF Call, Handler, GetState, Enable, Disable, Synchronize, CheckHealth,
         Return,
         Trigger, TriggerReturns, TriggerTimesOut, DropTrigger, Sleep, Query, QueryReturns,
         QueryTimesOut, DropQuery, CheckEndpoints, CheckJoints, CheckTf, MoveItAnswers,
         NodeSynchronizes, Step
  <2>3. main' = main
    BY <1>1 DEF Call, Handler, GetState, Enable, Disable, Synchronize, CheckHealth, Return,
       Trigger, TriggerReturns, TriggerTimesOut, DropTrigger, Sleep, Query, QueryReturns,
       QueryTimesOut, DropQuery, CheckEndpoints, CheckJoints, CheckTf, MoveItAnswers,
       NodeSynchronizes, Step, GiveUp
  <2> QED
    BY <2>1, <2>2, <2>3 DEF QuietAfterMain
<1>2. CASE Outside
  BY <1>2, OutsideWaitEnds DEF Outside, QuietAfterMain, callVars
<1>3. CASE Signal
  BY <1>3 DEF Signal, WaitsEnd, WaitEnds, Abandons, QuietAfterMain, outsideVars, clientVars,
     callVars
<1>4. CASE Shutdown
  BY <1>4 DEF Shutdown, WaitsEnd, WaitEnds, Abandons, QuietAfterMain, NoForgottenRequests, TypeOK,
     outsideVars, clientVars, callVars
<1>5. CASE UNCHANGED vars
  BY <1>5 DEF vars, WaitsEnd, WaitEnds, Abandons, QuietAfterMain, outsideVars, clientVars,
     callVars
<1> QED
  BY <1>1, <1>2, <1>3, <1>4, <1>5 DEF Next, Actions

(***************************************************************************)
(* Whatever restarts and late answers do to the two clients, each wait of  *)
(* a call can end without a further fault; and when main returns, none is  *)
(* left that would use the clients it destroys.                            *)
(***************************************************************************)
THEOREM WaitsCorrect == Spec => [](WaitsEnd /\ QuietAfterMain)
<1>1. Init => WaitInv
  BY InitType, InitRequests DEF Init, WaitInv, WaitsEnd, WaitEnds, QuietAfterMain
<1>2. WaitInv /\ [Next]_vars => WaitInv'
  BY NextType, NextRequests, NextWaits DEF WaitInv
<1>3. WaitInv => WaitsEnd /\ QuietAfterMain
  BY DEF WaitInv
<1> QED
  BY <1>1, <1>2, <1>3, PTL DEF Spec
=============================================================================
