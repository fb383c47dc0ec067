--------------------------- MODULE MCLinkSession ---------------------------
(* Model values and their symmetry for the runs of LinkSession.            *)
EXTENDS LinkSession, TLC

CONSTANTS r1, r2, s1, s2

Symmetry == Permutations(Reqs) \cup Permutations(Sessions)
=============================================================================
