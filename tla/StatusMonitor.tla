---------------------------- MODULE StatusMonitor ----------------------------
(***************************************************************************)
(* moveit_status_monitor: the gRPC methods GetState, Enable and Disable    *)
(* run on threads of their own and share one MoveItStatusClient: its       *)
(* is_disabled_ flag, its record of the joint states, and two ROS clients  *)
(* whose answers the spin thread takes while the callers wait for them.    *)
(*                                                                         *)
(* What is asked changes meanwhile: move_group and moveit_planning_node    *)
(* go down and come back, joint states go stale or name other joints,      *)
(* World synchronizations fail, answers come too late, and what was        *)
(* published to a move_group that is down is lost.                         *)
(***************************************************************************)
EXTENDS Integers

CONSTANTS
  Callers,         \* threads of the gRPC server
  MayCall,         \* the methods each of them is used for
  Configs,         \* parameters: [mock, expect : BOOLEAN]
  MaxFaults        \* bound on what goes wrong

Methods == {"GetState", "Enable", "Disable"}

ASSUME CallersAssumption ==
  /\ MayCall \in [Callers -> SUBSET Methods]
  /\ Configs \subseteq [mock : BOOLEAN, expect : BOOLEAN]
  /\ MaxFaults \in Nat

VARIABLES
  config,          \* use_mock_hardware, expect_collision_objects
  \* outside
  moveit,          \* move_group: is it up, has its scene objects, its robot state joints
  node,            \* moveit_planning_node and its endpoints are up
  published,       \* collision objects are on their way to move_group
  abandoned,       \* a synchronization nobody waits for any more is still to be run
  tf,              \* the transforms from planning frame to tool have arrived
  faults,
  \* MoveItStatusClient
  disabled,        \* is_disabled_
  jointState,      \* the last joint state: none or too old, or fresh and partial or complete
  queries,         \* callers with an entry in get_scene_client_'s table of pending requests
  triggers,        \* callers with an entry in bridge_client_'s
  lost,            \* callers whose request went down with the server
  \* the calls
  method,          \* the method a caller is in
  pc,
  outcome,         \* what its future holds
  verdict,         \* what it returns
  main,
  seen             \* history: what held at some moment of a call's health check

outsideVars == <<moveit, node, published, abandoned, tf, faults>>
clientVars == <<disabled, jointState, queries, triggers, lost>>
callVars == <<method, pc, outcome, verdict>>
vars == <<config, outsideVars, clientVars, callVars, main, seen>>

NoOutcome == [is |-> "none"]
Scenes == [objects : BOOLEAN, joints : BOOLEAN]
Synced == [success : BOOLEAN]

Checking == {"service", "query", "drop", "endpoints", "joints", "tf"}

(* What check_health asks of an answer of move_group. *)
SceneFine(s) == config.mock \/ (s.joints /\ (config.expect => s.objects))

Conditions == {"scene", "endpoints", "joints", "tf"}
Holding ==
  {k \in Conditions :
     \/ k = "scene" /\ moveit.up /\ SceneFine(moveit)
     \/ k = "endpoints" /\ node
     \/ k = "joints" /\ (config.mock \/ jointState = "complete")
     \/ k = "tf" /\ tf}

-----------------------------------------------------------------------------
Init ==
  /\ config \in Configs
  /\ moveit = [up |-> FALSE, objects |-> FALSE, joints |-> FALSE]
  /\ node = FALSE
  /\ published = FALSE
  /\ abandoned = FALSE
  /\ tf = FALSE
  /\ faults = 0
  /\ disabled = FALSE
  /\ jointState = "stale"
  /\ queries = {}
  /\ triggers = {}
  /\ lost = {}
  /\ method = [c \in Callers |-> "none"]
  /\ pc = [c \in Callers |-> "idle"]
  /\ outcome = [c \in Callers |-> NoOutcome]
  /\ verdict = [c \in Callers |-> "none"]
  /\ main = "serve"
  /\ seen = [c \in Callers |-> {}]

-----------------------------------------------------------------------------
(* What goes on outside. *)

Fault ==
  /\ faults < MaxFaults
  /\ faults' = faults + 1

MoveItStarts ==
  /\ ~moveit.up
  /\ moveit' = [moveit EXCEPT !.up = TRUE]
  /\ UNCHANGED <<node, published, abandoned, tf, faults, jointState, lost>>

(* move_group goes down, and with it its scene and the requests it has. *)
MoveItStops ==
  /\ moveit.up
  /\ Fault
  /\ moveit' = [up |-> FALSE, objects |-> FALSE, joints |-> FALSE]
  /\ lost' = lost \cup queries
  /\ UNCHANGED <<node, published, abandoned, tf, jointState>>

(* The objects arrive at move_group, or at nobody. *)
Deliver ==
  /\ published
  /\ published' = FALSE
  /\ moveit' = [moveit EXCEPT !.objects = moveit.up]
  /\ UNCHANGED <<node, abandoned, tf, faults, jointState, lost>>

NodeStarts ==
  /\ ~node
  /\ node' = TRUE
  /\ UNCHANGED <<moveit, published, abandoned, tf, faults, jointState, lost>>

NodeStops ==
  /\ node
  /\ Fault
  /\ node' = FALSE
  /\ abandoned' = FALSE
  /\ lost' = lost \cup triggers
  /\ UNCHANGED <<moveit, published, tf, jointState>>

(* The handler of a request whose caller has given up. *)
NodeSynchronizesLate ==
  /\ node
  /\ abandoned
  /\ abandoned' = FALSE
  /\ published' = TRUE
  /\ UNCHANGED <<moveit, node, tf, faults, jointState, lost>>

TfArrives ==
  /\ ~tf
  /\ tf' = TRUE
  /\ UNCHANGED <<moveit, node, published, abandoned, faults, jointState, lost>>

(***************************************************************************)
(* /joint_states: record_joint_state replaces the names it has, whoever    *)
(* sent the message.  move_group, if it is up, hears it too.               *)
(***************************************************************************)
RecordJointState ==
  /\ jointState' = "complete"
  /\ moveit' = [moveit EXCEPT !.joints = moveit.up]
  /\ UNCHANGED <<node, published, abandoned, tf, faults, lost>>

(* A message without the expected joints, or none for longer than the timeout. *)
JointStatesFail ==
  /\ Fault
  /\ jointState' \in {"partial", "stale"}
  /\ UNCHANGED <<moveit, node, published, abandoned, tf, lost>>

Outside ==
  /\ \/ MoveItStarts \/ MoveItStops \/ Deliver
     \/ NodeStarts \/ NodeStops \/ NodeSynchronizesLate
     \/ TfArrives
     \/ main # "returned" /\ (RecordJointState \/ JointStatesFail)
  /\ UNCHANGED <<config, disabled, queries, triggers, callVars, main>>

-----------------------------------------------------------------------------
(* The calls.  A step of a call leaves what is outside alone. *)

Go(c, next) == pc' = [pc EXCEPT ![c] = next]

(* The call has its answer. *)
Conclude(c, answer) ==
  /\ verdict' = [verdict EXCEPT ![c] = answer]
  /\ Go(c, "answer")

Step(c, at) ==
  /\ pc[c] = at
  /\ UNCHANGED <<config, outsideVars, jointState, lost, method, main>>

Call(c) ==
  /\ main = "serve"
  /\ pc[c] = "idle"
  /\ \E m \in MayCall[c] : method' = [method EXCEPT ![c] = m]
  /\ Go(c, "flag")
  /\ UNCHANGED <<config, outsideVars, clientVars, outcome, verdict, main>>

(* is_disabled() is asked once, before anything else. *)
GetState(c) ==
  /\ method[c] = "GetState"
  /\ Step(c, "flag")
  /\ IF disabled THEN Conclude(c, "DISABLED") ELSE Go(c, "service") /\ UNCHANGED verdict
  /\ UNCHANGED <<disabled, queries, triggers, outcome>>

(* Mutation: the flag is left to whoever sees the service healthy. *)
EnableKeepsFlag(c) ==
  /\ method[c] = "Enable"
  /\ Step(c, "flag")
  /\ Go(c, IF config.mock THEN "sleep" ELSE "bridge")
  /\ UNCHANGED <<disabled, queries, triggers, outcome, verdict>>

(* Mutation: the scene is not synchronized. *)
EnableOnlyChecks(c) ==
  /\ method[c] = "Enable"
  /\ Step(c, "flag")
  /\ disabled' = FALSE
  /\ Go(c, "sleep")
  /\ UNCHANGED <<queries, triggers, outcome, verdict>>

(* Enabled first, whatever becomes of the rest. *)
Enable(c) ==
  /\ method[c] = "Enable"
  /\ Step(c, "flag")
  /\ disabled' = FALSE
  /\ Go(c, IF config.mock THEN "sleep" ELSE "bridge")
  /\ UNCHANGED <<queries, triggers, outcome, verdict>>

Disable(c) ==
  /\ method[c] = "Disable"
  /\ Step(c, "flag")
  /\ disabled' = TRUE
  /\ Conclude(c, "OK")
  /\ UNCHANGED <<queries, triggers, outcome>>

(* trigger_scene_synchronization: a request if the service is there, or else no Enable. *)
Trigger(c) ==
  /\ Step(c, "bridge")
  /\ IF node THEN triggers' = triggers \cup {c} /\ Go(c, "trigger") /\ UNCHANGED verdict
     ELSE Conclude(c, "INTERNAL") /\ UNCHANGED triggers
  /\ UNCHANGED <<disabled, queries, outcome>>

(***************************************************************************)
(* The node's ~/sync_collision_objects.  What its cache holds is published *)
(* although fetching from the World fails.                                 *)
(***************************************************************************)
NodeSynchronizes(c, success) ==
  /\ node
  /\ c \in triggers \ lost
  /\ IF success THEN published' = TRUE /\ UNCHANGED faults
     ELSE published' \in {published, TRUE} /\ Fault
  /\ triggers' = triggers \ {c}
  /\ outcome' = [outcome EXCEPT ![c] = [success |-> success]]
  /\ UNCHANGED <<config, moveit, node, abandoned, tf, disabled, jointState, queries, lost,
                 method, pc, verdict, main>>

TriggerReturns(c) ==
  /\ Step(c, "trigger")
  /\ c \notin triggers
  /\ IF outcome[c].success THEN Go(c, "sleep") /\ UNCHANGED verdict
     ELSE Conclude(c, "INTERNAL")
  /\ outcome' = [outcome EXCEPT ![c] = NoOutcome]
  /\ UNCHANGED <<disabled, queries, triggers>>

(* The wait gives up: the request is lost, or its answer takes too long. *)
GiveUp(c, at, next) ==
  /\ pc[c] = at
  /\ IF c \in lost THEN UNCHANGED faults ELSE Fault
  /\ Go(c, next)
  /\ UNCHANGED <<config, moveit, node, published, abandoned, tf, clientVars,
                 method, outcome, verdict, main>>

TriggerTimesOut(c) == c \in triggers /\ GiveUp(c, "trigger", "dropTrigger")

(* Mutation: a synchronization that takes too long counts as done. *)
DropTriggerGoesOn(c) ==
  /\ Step(c, "dropTrigger")
  /\ triggers' = triggers \ {c}
  /\ outcome' = [outcome EXCEPT ![c] = NoOutcome]
  /\ Go(c, "sleep")
  /\ UNCHANGED <<disabled, queries, verdict>>

(***************************************************************************)
(* remove_pending_request; the answer may have come since.  The request    *)
(* itself is with the node, which still runs it.                           *)
(***************************************************************************)
DropTrigger(c) ==
  /\ pc[c] = "dropTrigger"
  /\ abandoned' = (abandoned \/ c \in triggers \ lost)
  /\ triggers' = triggers \ {c}
  /\ outcome' = [outcome EXCEPT ![c] = NoOutcome]
  /\ Conclude(c, "INTERNAL")
  /\ UNCHANGED <<config, moveit, node, published, tf, faults, disabled, jointState, queries, lost,
                 method, main>>

(* Half a second, in which what was published arrives or not. *)
Sleep(c) ==
  /\ Step(c, "sleep")
  /\ Go(c, "service")
  /\ UNCHANGED <<disabled, queries, triggers, outcome, verdict>>

-----------------------------------------------------------------------------
(* check_health. *)

Report(c, healthy) ==
  Conclude(c, IF method[c] = "GetState" THEN IF healthy THEN "ENABLED" ELSE "ERROR"
              ELSE IF healthy THEN "OK" ELSE "INTERNAL")

PassIf(c, ok, next) ==
  IF ok THEN Go(c, next) /\ UNCHANGED verdict ELSE Report(c, FALSE)

Query(c) ==
  /\ Step(c, "service")
  /\ PassIf(c, moveit.up, "query")
  /\ queries' = IF moveit.up THEN queries \cup {c} ELSE queries
  /\ UNCHANGED <<disabled, triggers, outcome>>

(* move_group's answer, taken by the spin thread. *)
MoveItAnswers(c) ==
  /\ moveit.up
  /\ c \in queries \ lost
  /\ queries' = queries \ {c}
  /\ outcome' = [outcome EXCEPT ![c] = [objects |-> moveit.objects, joints |-> moveit.joints]]
  /\ UNCHANGED <<config, outsideVars, disabled, jointState, triggers, lost, method, pc, verdict,
                 main>>

QueryReturns(c) ==
  /\ Step(c, "query")
  /\ c \notin queries
  /\ Go(c, "endpoints")
  /\ UNCHANGED <<disabled, queries, triggers, outcome, verdict>>

(* Mutation: the wait for move_group has no time limit. *)
QueryWaits(c) == FALSE

QueryTimesOut(c) == c \in queries /\ GiveUp(c, "query", "drop")

(* Mutation: the request stays in the table. *)
DropNothing(c) ==
  /\ Step(c, "drop")
  /\ outcome' = [outcome EXCEPT ![c] = NoOutcome]
  /\ Report(c, FALSE)
  /\ UNCHANGED <<disabled, queries, triggers>>

(* Mutation: the answer is taken without having come. *)
DropQueryGoesOn(c) ==
  /\ Step(c, "drop")
  /\ queries' = queries \ {c}
  /\ Go(c, "endpoints")
  /\ UNCHANGED <<disabled, triggers, outcome, verdict>>

DropQuery(c) ==
  /\ Step(c, "drop")
  /\ queries' = queries \ {c}
  /\ outcome' = [outcome EXCEPT ![c] = NoOutcome]
  /\ Report(c, FALSE)
  /\ UNCHANGED <<disabled, triggers>>

(* The planning endpoints, and the number of objects in the answer. *)
CheckEndpoints(c) ==
  /\ Step(c, "endpoints")
  /\ PassIf(c, node /\ (~config.mock /\ config.expect => outcome[c].objects), "joints")
  /\ UNCHANGED <<disabled, queries, triggers, outcome>>

(* Mutation: how old the joint states are is not asked. *)
CheckJointNames(c) ==
  /\ Step(c, "joints")
  /\ PassIf(c, config.mock \/ (jointState \in {"complete", "stale"} /\ outcome[c].joints), "tf")
  /\ outcome' = [outcome EXCEPT ![c] = NoOutcome]
  /\ UNCHANGED <<disabled, queries, triggers>>

(* Age and names of the last joint state, read under the lock, and the answer's joints. *)
CheckJoints(c) ==
  /\ Step(c, "joints")
  /\ PassIf(c, config.mock \/ (jointState = "complete" /\ outcome[c].joints), "tf")
  /\ outcome' = [outcome EXCEPT ![c] = NoOutcome]
  /\ UNCHANGED <<disabled, queries, triggers>>

CheckTf(c) ==
  /\ Step(c, "tf")
  /\ Report(c, tf)
  /\ UNCHANGED <<disabled, queries, triggers, outcome>>

(* The answer is sent. *)
Return(c) ==
  /\ pc[c] = "answer"
  /\ Go(c, "idle")
  /\ method' = [method EXCEPT ![c] = "none"]
  /\ verdict' = [verdict EXCEPT ![c] = "none"]
  /\ outcome' = [outcome EXCEPT ![c] = NoOutcome]
  /\ lost' = lost \ {c}
  /\ UNCHANGED <<config, outsideVars, disabled, jointState, queries, triggers, main>>

CheckHealth(c) ==
  \/ Query(c) \/ QueryReturns(c) \/ QueryTimesOut(c) \/ DropQuery(c)
  \/ CheckEndpoints(c) \/ CheckJoints(c) \/ CheckTf(c)

Synchronize(c) ==
  Trigger(c) \/ TriggerReturns(c) \/ TriggerTimesOut(c) \/ DropTrigger(c) \/ Sleep(c)

Handler(c) ==
  GetState(c) \/ Enable(c) \/ Disable(c) \/ Synchronize(c) \/ CheckHealth(c) \/ Return(c)

-----------------------------------------------------------------------------
(* main: after a signal no call is taken any more, those under way are awaited. *)

Signal ==
  /\ main = "serve"
  /\ main' = "drain"
  /\ UNCHANGED <<config, outsideVars, clientVars, callVars>>

Shutdown ==
  /\ main = "drain"
  /\ \A c \in Callers : pc[c] = "idle"
  /\ main' = "returned"
  /\ UNCHANGED <<config, outsideVars, clientVars, callVars>>

-----------------------------------------------------------------------------
Actions ==
  \/ Outside
  \/ \E c \in Callers : Call(c) \/ Handler(c) \/ MoveItAnswers(c)
  \/ \E c \in Callers, success \in BOOLEAN : NodeSynchronizes(c, success)
  \/ Signal
  \/ Shutdown

(* The history variable: what a check that is still to be answered, or was answered well, saw. *)
Synchronized(c) ==
  {k \in {"synchronized"} : c \in triggers \ triggers' /\ outcome'[c] = [success |-> TRUE]}

Observe ==
  seen' = [c \in Callers |->
             IF pc'[c] = "idle" \/ verdict'[c] \in {"DISABLED", "ERROR", "INTERNAL"} THEN {}
             ELSE seen[c] \cup Synchronized(c)
                          \cup (IF pc'[c] \in Checking THEN Holding' ELSE {})]

Next == Actions /\ Observe

Spec == Init /\ [][Next]_vars

(***************************************************************************)
(* Threads run, servers that are up answer, what is down comes back, what  *)
(* is sent arrives, and the platform keeps asking for an Enable.           *)
(***************************************************************************)
Asks(c) == Call(c) /\ method'[c] = "Enable" /\ Observe

Recovers == MoveItStarts \/ NodeStarts \/ TfArrives \/ RecordJointState

IsAnswered(c) == MoveItAnswers(c) \/ NodeSynchronizes(c, TRUE)

Fairness ==
  /\ \A c \in Callers :
       /\ WF_vars((Handler(c) \/ IsAnswered(c)) /\ Observe)
       /\ "Enable" \in MayCall[c] => SF_vars(Asks(c))
  /\ WF_vars(Outside /\ Recovers /\ Observe)
  /\ WF_vars(Outside /\ Deliver /\ Observe)
  /\ WF_vars(Shutdown /\ Observe)

FairSpec == Spec /\ Fairness

-----------------------------------------------------------------------------
(***************************************************************************)
(* What the calls work with is there: a caller that reads an answer, or    *)
(* reads the fields of one it was given earlier, has it.                   *)
(***************************************************************************)
TypeOK ==
  /\ config \in Configs
  /\ moveit \in [up : BOOLEAN, objects : BOOLEAN, joints : BOOLEAN]
  /\ {node, published, abandoned, tf, disabled} \subseteq BOOLEAN
  /\ faults \in 0..MaxFaults
  /\ jointState \in {"stale", "partial", "complete"}
  /\ queries \subseteq Callers /\ triggers \subseteq Callers /\ lost \subseteq Callers
  /\ method \in [Callers -> Methods \cup {"none"}]
  /\ pc \in [Callers -> {"idle", "flag", "bridge", "trigger", "dropTrigger", "sleep",
                         "answer"} \cup Checking]
  /\ outcome \in [Callers -> Scenes \cup Synced \cup {NoOutcome}]
  /\ verdict \in [Callers -> {"none", "ENABLED", "ERROR", "DISABLED", "OK", "INTERNAL"}]
  /\ main \in {"serve", "drain", "returned"}
  /\ seen \in [Callers -> SUBSET (Conditions \cup {"synchronized"})]
  /\ \A c \in Callers :
       /\ pc[c] \in {"endpoints", "joints"} => outcome[c] \in Scenes
       /\ pc[c] = "query" /\ c \notin queries => outcome[c] \in Scenes
       /\ pc[c] = "trigger" /\ c \notin triggers => outcome[c] \in Synced

(***************************************************************************)
(* A caller is told that the service works only if each thing check_health *)
(* asks for held at some moment of this check: the answers of an earlier   *)
(* check, of another caller's check or of a move_group that has gone since *)
(* before it began are never what it is told.                              *)
(***************************************************************************)
Healthy(c) ==
  /\ pc[c] = "answer"
  /\ \/ verdict[c] = "ENABLED"
     \/ method[c] = "Enable" /\ verdict[c] = "OK"

HealthyWasObserved == \A c \in Callers : Healthy(c) => Conditions \subseteq seen[c]

(***************************************************************************)
(* An Enable that says OK has had a World synchronization succeed while it *)
(* ran: never one that was still to be run when it gave up.                *)
(***************************************************************************)
EnableSynchronized ==
  \A c \in Callers :
    Healthy(c) /\ method[c] = "Enable" /\ ~config.mock => "synchronized" \in seen[c]

(***************************************************************************)
(* The clients' tables of pending requests hold no request that nobody     *)
(* waits for: those given up are removed, however many checks time out.    *)
(***************************************************************************)
NoForgottenRequests ==
  \A c \in Callers :
    /\ c \in queries => pc[c] \in {"query", "drop"}
    /\ c \in triggers => pc[c] \in {"trigger", "dropTrigger"}

(* Each call takes effect at one moment, and returns what was possible then. *)
MayAnswer ==
  [c \in Callers |->
     CASE pc[c] \in {"idle", "flag"} -> {}
       [] pc[c] = "answer" -> {verdict[c]}
       [] OTHER -> IF method[c] = "GetState" THEN {"ENABLED", "ERROR"} ELSE {"OK", "INTERNAL"}]

ServiceStateOf == INSTANCE ServiceState WITH answers <- MayAnswer

AnswersLinearizable == ServiceStateOf!Spec

(***************************************************************************)
(* Once nothing fails any more, an Enable succeeds although move_group has *)
(* lost its scene: Enable repairs what the service misses.                 *)
(***************************************************************************)
EnableRepairs ==
  []<>(main # "serve" \/ \E c \in Callers : method[c] = "Enable" /\ Healthy(c))

(* After the signal main does not stay in its shutdown: no call waits for ever for an answer. *)
MainReturns == []<>(main # "drain")
=============================================================================
