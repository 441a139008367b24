----------------------------- MODULE ServiceState -----------------------------
(***************************************************************************)
(* What the platform may rely on when it calls the ServiceState interface  *)
(* from several threads: each call takes effect at one moment between its  *)
(* start and its return, and returns.  Enable ends a Disable although what *)
(* Enable does besides may fail, and only a disabled service says so.      *)
(***************************************************************************)
CONSTANTS
  Callers,
  MayCall          \* the methods a caller uses

VARIABLES
  disabled,
  method,          \* the method a caller is in, "none" outside
  answers          \* what its call may still return; {} before it takes effect

vars == <<disabled, method, answers>>

Init ==
  /\ disabled = FALSE
  /\ method = [c \in Callers |-> "none"]
  /\ answers = [c \in Callers |-> {}]

Call(c) ==
  /\ method[c] = "none"
  /\ \E m \in MayCall[c] : method' = [method EXCEPT ![c] = m]
  /\ UNCHANGED <<disabled, answers>>

Effect(c, m, flag, possible) ==
  /\ method[c] = m
  /\ answers[c] = {}
  /\ disabled' = flag
  /\ answers' = [answers EXCEPT ![c] = possible]
  /\ UNCHANGED method

TakeEffect(c) ==
  \/ Effect(c, "GetState", disabled, IF disabled THEN {"DISABLED"} ELSE {"ENABLED", "ERROR"})
  \/ Effect(c, "Enable", FALSE, {"OK", "INTERNAL"})
  \/ Effect(c, "Disable", TRUE, {"OK"})

(* One of the possible answers is decided on. *)
Decide(c) ==
  /\ \E a \in answers[c] : answers' = [answers EXCEPT ![c] = {a}]
  /\ UNCHANGED <<disabled, method>>

Return(c) ==
  /\ \E a \in answers[c] : answers[c] = {a}
  /\ method' = [method EXCEPT ![c] = "none"]
  /\ answers' = [answers EXCEPT ![c] = {}]
  /\ UNCHANGED disabled

Next == \E c \in Callers : Call(c) \/ TakeEffect(c) \/ Decide(c) \/ Return(c)

Spec ==
  /\ Init /\ [][Next]_vars
  /\ \A c \in Callers : WF_vars(TakeEffect(c) \/ Decide(c) \/ Return(c))
=============================================================================
