---------------------------- MODULE StoreValues ----------------------------
(***************************************************************************)
(* The records of the state store (state_store.py): what a key of          *)
(* live_payments.json, live_trails.json, live_pending.json or              *)
(* live_jobs.json may hold, and the rule that makes `recovered` absorbing  *)
(* when two processes' versions of one payment meet.                       *)
(*                                                                         *)
(* A payment record keeps the three things the merge tells apart: its      *)
(* status, whether it carries the capture fields (recovered_amount and     *)
(* recovered_payment_id), and everything else as one opaque "note".  The   *)
(* entries of the other files are opaque payloads.                         *)
(***************************************************************************)
EXTENDS Naturals

CONSTANTS Keys,          \* every key of the four files
          NumSections,   \* the number of files
          SectionOf,     \* the file a key lives in; payments are section 1
          Notes,         \* the other fields of a payment record
          Payloads,      \* the entries of the other three files
          Absent         \* "this key is not in the file"

ASSUME SectionAssumption ==
    /\ NumSections \in Nat \ {0}
    /\ SectionOf \in [Keys -> 1..NumSections]

Sections == 1..NumSections
Cases == {k \in Keys : SectionOf[k] = 1}

\* A payment is live, written off by a failed run, or recovered.
Statuses == {"recovering", "failed", "recovered"}

CaseRec == [status : Statuses, captured : BOOLEAN, note : Notes]

ASSUME AbsentAssumption == Absent \notin CaseRec \cup Payloads

EntriesOf(k) == IF k \in Cases THEN CaseRec ELSE Payloads
Entries == CaseRec \cup Payloads \cup {Absent}

Recovered(e) == e \in CaseRec /\ e.status = "recovered"

\* Two defects of the rule below: the disk's recovery is ignored, or its
\* status is kept and its capture fields are not.
AbsorbNothing(k, ours, theirs) == ours

AbsorbStatusOnly(k, ours, theirs) ==
    IF k \in Cases /\ ours \in CaseRec /\ ~Recovered(ours) /\ Recovered(theirs)
    THEN [ours EXCEPT !.status = "recovered"]
    ELSE ours

\* What is stored for key k when a version `ours` that this process changed
\* meets the version `theirs` on disk: ours wins, except that a payment on
\* disk that is recovered keeps its status and its capture fields.
Absorb(k, ours, theirs) ==
    IF /\ k \in Cases
       /\ ours \in CaseRec
       /\ ~Recovered(ours)
       /\ Recovered(theirs)
    THEN [ours EXCEPT !.status = "recovered",
                      !.captured = theirs.captured \/ ours.captured]
    ELSE ours
=============================================================================
