------------------------------ MODULE MCWaves ------------------------------
(***************************************************************************)
(* Two cases and two causes, a short account and a checkout that was left. *)
(* Each cause has a rung the planner acts on, and they share the last.     *)
(***************************************************************************)
EXTENDS Waves, TLC

CONSTANTS c1, c2

MCLadder == <<<<"offer">>, <<"silent_retry", "offer">>>>
MCFirst == {[c \in Cases |-> b] : b \in {1, 2}}
MCTurns == {<<1, 2>>}
MCDefault == <<[silent_retry |-> "none", offer |-> "act"],
               [silent_retry |-> "act", offer |-> "exception"]>>
=============================================================================
