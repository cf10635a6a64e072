---------------------------- MODULE MC_Supervisor ----------------------------
(* A Restart may carry status 0 (a normal shutdown) or a non-zero status, *)
(* and the agent mirrors its logs to the gateway.                         *)
EXTENDS Supervisor, TLC

=============================================================================
