----------------------------- MODULE MCSession -----------------------------
(***************************************************************************)
(* Instances of Session for TLC.  Two requests at a time are what each     *)
(* race needs; more sessions than requests let a third request meet what   *)
(* two others left behind.                                                 *)
(***************************************************************************)
EXTENDS Session

CONSTANTS r1, r2, t1, t2

TwoRequests == {r1, r2}
TwoTickets == {t1, t2}

AllKinds == {"login", "refresh", "logout"}
=============================================================================
