--------------------------- MODULE MCAgentQueue ---------------------------
(***************************************************************************)
(* Three cases and two places in line, so that the queue can be full while *)
(* a worker has a case in hand; two submitters stand for two wave cycles   *)
(* that dispatch at once, two workers for AGENT_WORKERS=2.                 *)
(***************************************************************************)
EXTENDS AgentQueue, TLC

CONSTANTS c1, c2, c3
=============================================================================
