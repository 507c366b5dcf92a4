--------------------------- MODULE MCDaemonJobs ---------------------------
(***************************************************************************)
(* One case with up to two wake-ups and a retry: the daemon's list can     *)
(* hold a job that is cancelled while it works on another.                 *)
(***************************************************************************)
EXTENDS DaemonJobs, TLC

CONSTANTS c1, w1, w2, r1

Owner == [j \in Jobs |-> c1]
=============================================================================
