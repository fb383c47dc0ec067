------------------------------ MODULE MCRelay -------------------------------
(***************************************************************************)
(* Both halves of class RelayTransport in one run, with ladders, sizes and *)
(* model values.                                                           *)
(*                                                                         *)
(* The halves share no state, so what one does is the same whatever the    *)
(* other did: the run takes them one at a time instead of multiplying      *)
(* their states.  The outgoing half moves while nothing has come in, and   *)
(* frames come in over a connection that has just been opened.             *)
(***************************************************************************)
EXTENDS RelayTransport, RelayInbox

CONSTANTS m1, m2, i1, i2

\* A ladder of two rungs, the last repeating.
ShortLadder == <<1, 2>>

\* One message too big to be assembled, and one that just fits.
Sizes == [m \in Ids |-> IF m = i1 THEN 4 ELSE 3]

NothingCameIn == InboxInit
JustOpened == socket = "open" /\ publishSeq = 0 /\ turnedDown = {} /\ got = <<>> /\ ~closed

BothNext ==
    \/ NothingCameIn /\ Next /\ UNCHANGED inboxVars
    \/ JustOpened /\ InboxNext /\ UNCHANGED vars

RelayInit == Init /\ InboxInit

RelaySpec == RelayInit /\ [][BothNext]_<<vars, inboxVars>> /\ Fairness
=============================================================================
