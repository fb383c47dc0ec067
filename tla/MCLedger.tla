------------------------------ MODULE MCLedger ------------------------------
(* Two calls and two devices that come and go.                             *)
EXTENDS Ledger, TLC

MCSymmetry == Permutations(Calls) \cup Permutations(Devices)
=============================================================================
