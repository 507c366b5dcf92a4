------------------------------- MODULE Ladder -------------------------------
(***************************************************************************)
(* Which steps of a recovery may be taken for a case, and what is left of  *)
(* them (agent/ladder.py), with the diagnosis that picks the ladder        *)
(* (agent/classify.py, drop_reasons.py, labels.py) and the policy that     *)
(* says when a discount may be offered (get_recovery_offer).               *)
(*                                                                         *)
(* Everything here is a function of the case record.  A link is its        *)
(* price: which rails it takes is not told apart, except that FullRoutes   *)
(* and LessRoutes may name several ways of paying.                         *)
(***************************************************************************)
EXTENDS Naturals, Sequences

CONSTANTS Email, Phone,   \* is there an address, a number on file?
          VoiceOn,        \* are calls switched on in this deployment?
          FullRoutes,     \* links for the amount owed, told apart by rails
          LessRoutes      \* links for less than that

ASSUME CustomerAssumption == {Email, Phone, VoiceOn} \subseteq BOOLEAN
ASSUME RoutesAssumption ==
    /\ FullRoutes \cap LessRoutes = {}
    /\ "contact" \notin FullRoutes \cup LessRoutes

Kinds == {"dropoff", "method", "funds", "transient", "risk", "unknown"}

Rungs == {"page_push", "offer", "rail_switch", "voice_call",
          "post_call_email", "silent_retry", "alternate_path"}

\* A label, and an answer, that says nothing of the kind is "".
Labels == {"promised_later", "instrument_broken", "checkout_glitch",
           "too_expensive", "do_not_contact", "dispute", "paid_outside",
           "other"}

LabelKind ==
    [promised_later |-> "funds", instrument_broken |-> "method",
     checkout_glitch |-> "transient", too_expensive |-> "dropoff",
     do_not_contact |-> "", dispute |-> "risk", paid_outside |-> "",
     other |-> "unknown"]

Answers == {"no_balance", "better_price", "payment_kept_failing",
            "just_browsing", "will_pay_later", "other"}

\* What an answer says: the kind, whether price is a lever, where to start.
Meaning ==
    [no_balance |-> [kind |-> "funds", offer |-> FALSE, entry |-> ""],
     better_price |-> [kind |-> "dropoff", offer |-> TRUE, entry |-> "offer"],
     payment_kept_failing |->
         [kind |-> "method", offer |-> FALSE, entry |-> "rail_switch"],
     just_browsing |-> [kind |-> "dropoff", offer |-> TRUE, entry |-> ""],
     will_pay_later |-> [kind |-> "dropoff", offer |-> FALSE, entry |-> ""],
     other |-> [kind |-> "", offer |-> FALSE, entry |-> ""]]

\* A case c is read here as a record with the fields cause, label, answer,
\* walked, climbed, spent, optedOut, live, retry, and tried: the signatures of
\* the actions, a route, or "contact" for any that is itself a rung.

-----------------------------------------------------------------------------
\* failure_kind: the operator's label outranks the customer's answer, which
\* outranks what the codes and the texts of the failure say.
KindOf(c) ==
    IF c.label # "none" /\ LabelKind[c.label] # "" THEN LabelKind[c.label]
    ELSE IF c.answer # "none" /\ Meaning[c.answer].kind # ""
         THEN Meaning[c.answer].kind
         ELSE c.cause

RungsByKind ==
    [dropoff |-> <<"page_push", "offer", "voice_call", "post_call_email",
                   "alternate_path">>,
     method |-> <<"page_push", "rail_switch", "offer", "voice_call",
                  "alternate_path">>,
     funds |-> <<"silent_retry", "page_push", "offer", "alternate_path">>,
     transient |-> <<"silent_retry", "page_push", "alternate_path">>,
     risk |-> <<>>,
     unknown |-> <<"page_push", "rail_switch", "offer", "alternate_path">>]

\* The ladder of someone who failed, saw the alternatives, and walked.
Hesitant == <<"page_push", "offer", "rail_switch", "voice_call",
              "alternate_path">>

WholeLadder(c) ==
    IF c.walked /\ KindOf(c) \in {"method", "unknown"}
    THEN Hesitant
    ELSE RungsByKind[KindOf(c)]

EntryRung(c) == IF c.answer = "none" THEN "" ELSE Meaning[c.answer].entry

\* rungs_for: the ladder from the rung the answer names, if it has that rung.
LadderOf(c) ==
    LET whole == WholeLadder(c)
        named == {i \in 1..Len(whole) : whole[i] = EntryRung(c)}
    IN  IF named = {} THEN whole
        ELSE SubSeq(whole, CHOOSE i \in named : TRUE, Len(whole))

OnLadder(c) == {LadderOf(c)[i] : i \in 1..Len(LadderOf(c))}
HasRung(c, k) == k \in OnLadder(c)

-----------------------------------------------------------------------------
Vetoed(c) == c.answer # "none" /\ ~Meaning[c.answer].offer

\* rung_possible: can this rung ever be climbed for this case?
Possible(c, k) ==
    /\ k = "page_push" => c.live
    /\ k \in {"rail_switch", "offer"} => ~c.spent
    /\ k \in {"rail_switch", "offer", "post_call_email", "alternate_path"} =>
           Email \/ Phone
    /\ k = "offer" => ~Vetoed(c)
    /\ k = "voice_call" => VoiceOn /\ Phone
    /\ k = "post_call_email" => "voice_call" \in c.climbed /\ Email

Open(c, k) == k \notin c.climbed /\ Possible(c, k)

Remaining(c) == {k \in OnLadder(c) : Open(c, k)}

\* next_rung; only a ladder with a rung that remains has one.
NextRung(c) ==
    LET whole == LadderOf(c)
        open == {i \in 1..Len(whole) : Open(c, whole[i])}
    IN  whole[CHOOSE i \in open : \A j \in open : i <= j]

Exhausted(c) == ~c.retry /\ Remaining(c) = {}

\* pursuit_barred reads the texts of the failure, whatever the label says.
PursuitBarred(c) == c.cause = "risk" \/ c.optedOut

\* The test escalate_to_human makes before it files a ticket.
MayEscalate(c) == Exhausted(c) \/ PursuitBarred(c)

-----------------------------------------------------------------------------
Climb(c, k) == [c EXCEPT !.climbed = @ \cup {k}]

OfferResolved(c) ==
    "offer" \in c.climbed \/ ~HasRung(c, "offer") \/ ~Possible(c, "offer")

\* record_action of an action that is a rung itself.
RecordContact(c) == [c EXCEPT !.tried = @ \cup {"contact"}]

\* record_action of a link: the first new route after the offer is settled,
\* with something before it to differ from, is the alternate path.
RecordRoute(c, r) ==
    LET noted == [c EXCEPT !.tried = @ \cup {r}] IN
    IF r \notin c.tried /\ c.tried # {} /\ OfferResolved(c)
    THEN Climb(noted, "alternate_path")
    ELSE noted

\* get_recovery_offer: is an incentive allowed at all?  The code asks after a
\* full-price link, a customer who walked, and an answer that named price.
TriedFullPrice(c) ==
    c.walked \/ c.answer # "none" \/ c.tried \cap FullRoutes # {}

QuoteAllowed(c) ==
    /\ ~Vetoed(c)
    /\ KindOf(c) \notin {"transient", "risk"}
    /\ KindOf(c) = "dropoff" \/ TriedFullPrice(c)

\* The rung a quiet retry counts as.
RetryRung(c) ==
    LET owed(k) == HasRung(c, k) /\ k \notin c.climbed IN
    IF owed("alternate_path") /\ ~owed("silent_retry")
    THEN "alternate_path"
    ELSE "silent_retry"
=============================================================================
