------------------------------- MODULE Rules -------------------------------
(***************************************************************************)
(* The rules that are functions of their inputs, each driven through its   *)
(* own states: the data loaded at boot and the vows priced with it         *)
(* (Catalog), the slots grown by hashed steps (CairnSeed) and the login    *)
(* streak (Streak).  They share nothing, so the state space is explored    *)
(* one rule at a time: part says which one moves.                          *)
(***************************************************************************)
EXTENDS Catalog, CairnSeed, Streak

VARIABLE part

vars == <<part, catalogVars, stored, streakVars>>

Init == part \in {"catalog", "seed", "streak"} /\ CatalogInit /\ SeedInit /\ StreakInit

Next ==
    \/ part = "catalog" /\ CatalogNext /\ UNCHANGED <<part, stored, streakVars>>
    \/ part = "seed" /\ SeedNext /\ UNCHANGED <<part, catalogVars, streakVars>>
    \/ part = "streak" /\ StreakNext /\ UNCHANGED <<part, catalogVars, stored>>

Spec == Init /\ [][Next]_vars
=============================================================================
