------------------------------- MODULE Books -------------------------------
(***************************************************************************)
(* What the recording of a recovery promises: money is taken by the        *)
(* gateway, and of what was taken one payment at most is ever entered in   *)
(* the books as the recovery of the case.                                  *)
(***************************************************************************)
CONSTANT Objects      \* what the customer may pay: orders, links, the payment

VARIABLES taken,      \* captured by the gateway
          booked,     \* entered as the recovery of the case
          entries     \* how many entries there are

vars == <<taken, booked, entries>>

Init == taken = {} /\ booked = {} /\ entries = 0

Take(o) == taken' = taken \cup {o} /\ UNCHANGED <<booked, entries>>

Book(o) ==
    /\ entries = 0 /\ o \in taken
    /\ booked' = {o} /\ entries' = 1
    /\ UNCHANGED taken

Next == \E o \in Objects : Take(o) \/ Book(o)

Spec == Init /\ [][Next]_vars
=============================================================================
