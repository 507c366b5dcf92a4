---------------------------- MODULE MCStateStore ----------------------------
(***************************************************************************)
(* A small instance of StateStore: two processes, and one payment whose    *)
(* file is the first of the two that every flush walks.                    *)
(***************************************************************************)
EXTENDS StateStore, TLC

CONSTANT c1

PaymentsOnly == c1 :> 1
Symmetry == Permutations(Procs)
=============================================================================
