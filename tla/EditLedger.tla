----------------------------- MODULE EditLedger -----------------------------
(***************************************************************************)
(* What the state store promises its processes, with no copies, shadows or *)
(* locks: there is one ledger, and a process holds nothing but its own     *)
(* unpublished edits.  It can publish them or rebase them on the ledger,   *)
(* and a restart forgets them; it can never publish anything else.         *)
(* StateStore implements this under the assumptions its header names.      *)
(***************************************************************************)
EXTENDS StoreValues

CONSTANTS Procs,       \* the processes that open the store
          Unedited     \* "no edit of this key is pending"; it is no entry

VARIABLES ledger,      \* the shared entries
          edits        \* edits[p][k] : p's pending version of k, or Unedited

vars == <<ledger, edits>>

Pending(p, k) == edits[p][k] # Unedited

\* p's pending version of k once it has met the ledger.
Rebased(p, k) == Absorb(k, edits[p][k], ledger[k])

Init == /\ ledger = [k \in Keys |-> Absent]
        /\ edits = [p \in Procs |-> [k \in Keys |-> Unedited]]

\* A local change is remembered, or turns out to be none.
Edit(p, k) ==
    /\ \E e \in EntriesOf(k) \cup {Absent, Unedited} :
           edits' = [edits EXCEPT ![p][k] = e]
    /\ UNCHANGED ledger

\* p reads section s: a pending edit is kept, a recovered payment in the
\* ledger keeps its status and capture, and an edit that says what the ledger
\* already says is no longer pending.
RebasedEdit(p, k) ==
    IF ~Pending(p, k) \/ Rebased(p, k) = ledger[k]
    THEN Unedited ELSE Rebased(p, k)

Rebase(p, S) ==
    /\ edits' = [edits EXCEPT ![p] =
                   [k \in Keys |-> IF SectionOf[k] \in S THEN RebasedEdit(p, k)
                                   ELSE edits[p][k]]]
    /\ UNCHANGED ledger

Publish(p, s) ==
    /\ ledger' = [k \in Keys |->
                    IF SectionOf[k] = s /\ Pending(p, k)
                    THEN Rebased(p, k) ELSE ledger[k]]
    /\ edits' = [edits EXCEPT ![p] =
                   [k \in Keys |-> IF SectionOf[k] = s THEN Unedited
                                   ELSE edits[p][k]]]

Forget(p) == /\ edits' = [edits EXCEPT ![p] = [k \in Keys |-> Unedited]]
             /\ UNCHANGED ledger

Next == \E p \in Procs :
            \/ \E k \in Keys : Edit(p, k)
            \/ \E s \in Sections : Rebase(p, {s}) \/ Publish(p, s)
            \/ Rebase(p, Sections)
            \/ Forget(p)

Spec == Init /\ [][Next]_vars
=============================================================================
