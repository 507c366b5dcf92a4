----------------------------- MODULE MCHandOff -----------------------------
(***************************************************************************)
(* One case and up to three threads: one run can be under way while two    *)
(* hand-offs meet.  Two push outcomes share a scenario, as their flags     *)
(* share a prefix; the payment is the closing signal, and the follow-up of *)
(* a link watcher can be observed again and again.                         *)
(***************************************************************************)
EXTENDS HandOff, TLC

CONSTANTS push1, push2

ScenarioName == [s \in Signals |-> IF s \in {push1, push2} THEN "push" ELSE s]
=============================================================================
