--------------------------- MODULE MCStatusMonitor ---------------------------
EXTENDS StatusMonitor, TLC

CONSTANTS user, platform

(* Who enables and disables the service, and who looks after it. *)
MCMayCall == (user :> {"Enable", "Disable"}) @@ (platform :> {"GetState"})

MCConfigs ==
  {[mock |-> FALSE, expect |-> TRUE], [mock |-> TRUE, expect |-> TRUE]}
=============================================================================
