------------------------------ MODULE MCLedger ------------------------------
(* Ledger for TLC: the symmetry of its processes.                            *)
EXTENDS Ledger, TLC

Symmetry == Permutations(Proc)
=============================================================================
