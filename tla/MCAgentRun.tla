---------------------------- MODULE MCAgentRun ----------------------------
(***************************************************************************)
(* A session of any number of runs.  The limits are smaller than the       *)
(* code's, so that each of them is met within a few turns.                 *)
(***************************************************************************)
EXTENDS AgentRun

MCCalls == {<<"check", 1>>, <<"notify", 1>>, <<"notify", 2>>, <<"link", 1>>, <<"wait", 1>>}
=============================================================================
