------------------------------ MODULE Webhook ------------------------------
(***************************************************************************)
(* The webhook receiver (webhook.py) between the gateway and the frontend. *)
(* The gateway delivers an event at least once, in any order.  The         *)
(* receiver keeps the ids it has seen in memory, answers at once and       *)
(* forwards in a thread of its own, which may fail; nobody tries again.    *)
(***************************************************************************)
EXTENDS Naturals

CONSTANTS Events,
          MaxDeliveries,  \* bound: how often the gateway sends an event
          LossyForwards,  \* may a forward fail?
          Restarts        \* may the receiver die, or forget after 24 hours?

ASSUME WebhookAssumption ==
    MaxDeliveries \in Nat \ {0} /\ {LossyForwards, Restarts} \subseteq BOOLEAN

VARIABLES raised,     \* events that have happened at the gateway
          sends,      \* how often the gateway has delivered each
          processed,  \* _processed_events
          flight,     \* forwards that have not reached the frontend
          dropped     \* history: events of which a forward came to nothing

hookVars == <<raised, sends, processed, flight, dropped>>

HookTypeOK ==
    /\ raised \subseteq Events
    /\ sends \in [Events -> 0..MaxDeliveries]
    /\ processed \subseteq Events
    /\ flight \in [Events -> 0..MaxDeliveries]
    /\ dropped \subseteq Events

HookInit ==
    /\ raised = {}
    /\ sends = [e \in Events |-> 0]
    /\ processed = {}
    /\ flight = [e \in Events |-> 0]
    /\ dropped = {}

\* handle_webhook: an event is taken for processed before it is forwarded.
Receive(e) ==
    /\ e \in raised /\ sends[e] < MaxDeliveries
    /\ sends' = [sends EXCEPT ![e] = @ + 1]
    /\ processed' = processed \cup {e}
    /\ flight' = IF e \in processed THEN flight ELSE [flight EXCEPT ![e] = @ + 1]
    /\ UNCHANGED <<raised, dropped>>

\* The forward reaches the frontend; what that does is not the receiver's.
Arrive(e) ==
    /\ flight[e] > 0
    /\ flight' = [flight EXCEPT ![e] = @ - 1]
    /\ UNCHANGED <<raised, sends, processed, dropped>>

\* The request fails or times out; the answer to the gateway was given.
ForwardFails(e) ==
    /\ LossyForwards /\ flight[e] > 0
    /\ flight' = [flight EXCEPT ![e] = @ - 1]
    /\ dropped' = dropped \cup {e}
    /\ UNCHANGED <<raised, sends, processed>>

\* The process dies with its memory and its forwarding threads.
ReceiverRestarts ==
    /\ Restarts
    /\ processed' = {}
    /\ flight' = [e \in Events |-> 0]
    /\ dropped' = dropped \cup {e \in Events : flight[e] > 0}
    /\ UNCHANGED <<raised, sends>>

\* An id is purged 24 hours after it came.
Expire(e) ==
    /\ Restarts /\ e \in processed
    /\ processed' = processed \ {e}
    /\ UNCHANGED <<raised, sends, flight, dropped>>
=============================================================================
