----------------------------- MODULE MCMemStore -----------------------------
(***************************************************************************)
(* Two keys, so that a call on one may find the other over; a ttl of two   *)
(* seconds next to entries without one; counters and a text.               *)
(***************************************************************************)
EXTENDS MemStore

CONSTANTS limit, session

TwoKeys == {limit, session}
SomeValues == {1, NotNumber}
SomeTTLs == {0, 1, 2}
=============================================================================
