---------------------------- MODULE MCSettlement ----------------------------
(***************************************************************************)
(* One case, opened by the checkout page or by the gateway, with an order  *)
(* and a link.  One watcher and two handlers are enough for three pieces   *)
(* of news of the same money to meet.                                      *)
(***************************************************************************)
EXTENDS Settlement
=============================================================================
