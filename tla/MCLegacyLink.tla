---------------------------- MODULE MCLegacyLink ----------------------------
(* Values for the run of LegacyLink.                                       *)
EXTENDS LegacyLink

CONSTANTS r1, r2, l1

\* Applications that ask for one thing at a time, whether or not they wait for an old
\* connection to finish before they make a new one.
AsksWithCare == {{"asks"}, {"asks", "connects"}}
=============================================================================
