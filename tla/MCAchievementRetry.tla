------------------------- MODULE MCAchievementRetry -------------------------
(***************************************************************************)
(* Instances of AchievementRetry for TLC: two unlocks that may race for    *)
(* one achievement or queue two, so that a batch can hold two items.       *)
(***************************************************************************)
EXTENDS AchievementRetry

CONSTANTS r1, r2, pull, streak

TwoRequests == {r1, r2}
OneRequest == {r1}
TwoItems == {pull, streak}
OneItem == {pull}
=============================================================================
