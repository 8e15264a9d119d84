----------------------------- MODULE MCEconomy -----------------------------
(***************************************************************************)
(* Instances of Economy for TLC.  Seconds, points and layers are scaled    *)
(* down from game-config.xml; what matters is kept: a pull costs more than *)
(* one second accrues, a window can be partly over, a cairn of two slots   *)
(* gets full within the bound, and the cooldown outlives a request and is  *)
(* shorter than the bound (economy_pull).                                  *)
(***************************************************************************)
EXTENDS Economy, TLC

CONSTANTS r1, r2, r3, pebble, gem

TwoRequests == {r1, r2}
ThreeRequests == {r1, r2, r3}

Symmetry == Permutations(Procs)

PullKinds == {"pull", "status", "sync", "login"}
VowKinds == {"pull", "vow", "state"}

OneSkin == {pebble}
TwoSkins == {pebble, gem}
CommonSkin == [i \in OneSkin |-> 1]
\* One Common, one Uncommon: a vow of Commons can fail or succeed.
MixedSkins == [i \in TwoSkins |-> IF i = pebble THEN 1 ELSE 2]
=============================================================================
