---------------------------- MODULE MCBatchRuns ----------------------------
(***************************************************************************)
(* Four cases, of which two want a link of the one the budget allows, one  *)
(* a retry, and one belongs to a band without a plan; or one case that two *)
(* runs which are live together both act on.                               *)
(***************************************************************************)
EXTENDS BatchRuns, TLC

CONSTANTS c1, c2, c3, c4

Kinds == (c1 :> "link_and_notify" @@ c2 :> "notify_only"
              @@ c3 :> "link_and_notify" @@ c4 :> "retry")
Plans == [c \in Cases |-> Kinds[c]]

AllLinks == [c \in Cases |-> "link_and_notify"]
Mixed == (c1 :> "link_and_notify" @@ c2 :> "retry"
              @@ c3 :> "link_and_notify" @@ c4 :> "none")
=============================================================================
