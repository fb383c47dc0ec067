------------------------- MODULE MCSendTransaction -------------------------
(* Two attempts at one message, two nodes of two chains.                   *)
EXTENDS SendTransaction, TLC

MCSymmetry == Permutations(Calls) \cup Permutations(Hosts)
=============================================================================
