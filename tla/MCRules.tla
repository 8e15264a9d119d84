------------------------------ MODULE MCRules ------------------------------
(***************************************************************************)
(* Instance of Rules for TLC: a file of up to seven rows over one skin of  *)
(* each rarity, a second Common of another part, a repeated skinId and one *)
(* row for each reason to skip; tiers good and bad; three slots.           *)
(***************************************************************************)
EXTENDS Rules

Row(id, part_, rarity) == [id |-> id, part |-> part_, rarity |-> rarity]

SomeRows ==
    {Row("a", "top", 1), Row("b", "face", 1), Row("c", "top", 2), Row("d", "top", 3),
     Row("e", "top", 4), Row("f", "top", 5), Row("a", "face", 3),
     Row("malformed", "top", 1), Row("g", "top", 0), Row("h", "unknown", 2)}

Tier(target, low, high) ==
    [target |-> target, minN |-> 1, maxN |-> 3, minRate |-> low, maxRate |-> high,
     broken |-> FALSE]

SomeTiers ==
    {Tier(2, 1, 10), Tier(3, 1, 9), Tier(4, 0, 0), Tier(5, 5, 7), Tier(2, 5, 1), Tier(1, 1, 2),
     [Tier(3, 1, 9) EXCEPT !.maxN = 1], [Tier(4, 0, 0) EXCEPT !.broken = TRUE]}
=============================================================================
