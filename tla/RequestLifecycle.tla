-------------------------- MODULE RequestLifecycle --------------------------
(***************************************************************************)
(* What a component that answers with promises owes its callers: what is    *)
(* accepted stays open until it settles, once; after a close nothing is    *)
(* accepted and nothing stays open; a page that unloads takes what is open *)
(* with it.  LinkSession implements this specification with the promises   *)
(* of request(), RelayTransport with those of send().                      *)
(***************************************************************************)
EXTENDS Naturals

CONSTANT Reqs

VARIABLES closed, outcome

lifecycleVars == <<closed, outcome>>

Open == {r \in Reqs : outcome[r] = "waiting"}
EndOpen(o) == [r \in Reqs |-> IF r \in Open THEN o ELSE outcome[r]]

LInit ==
    /\ closed = FALSE
    /\ outcome = [r \in Reqs |-> "idle"]

Accept(r) ==
    /\ ~closed
    /\ outcome[r] = "idle"
    /\ outcome' = [outcome EXCEPT ![r] = "waiting"]
    /\ UNCHANGED closed

Refuse(r) ==
    /\ outcome[r] = "idle"
    /\ outcome' = [outcome EXCEPT ![r] = "rejected"]
    /\ UNCHANGED closed

Settle(r) ==
    /\ outcome[r] = "waiting"
    /\ \E o \in {"resolved", "rejected"} : outcome' = [outcome EXCEPT ![r] = o]
    /\ UNCHANGED closed

Shut ==
    /\ closed' = TRUE
    /\ outcome' = EndOpen("rejected")

Unload ==
    /\ closed' = FALSE
    /\ outcome' = EndOpen("lost")

LNext == (\E r \in Reqs : Accept(r) \/ Refuse(r) \/ Settle(r)) \/ Shut \/ Unload

LSpec == LInit /\ [][LNext]_lifecycleVars
=============================================================================
