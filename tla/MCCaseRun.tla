------------------------------ MODULE MCCaseRun ------------------------------
(***************************************************************************)
(* Instances of CaseRun for TLC.                                           *)
(***************************************************************************)
EXTENDS CaseRun

\* A link for the whole amount, one for less, told apart from each other.
CONSTANTS full, less

OneFull == {full}
OneLess == {less}
None == {}
=============================================================================
