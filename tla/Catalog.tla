------------------------------ MODULE Catalog ------------------------------
(***************************************************************************)
(* What the server loads before it serves, and what pulls and vows later   *)
(* take for granted: the skins of skins.csv (internal/gacha/pool.go), the  *)
(* vow tiers of game-config.xml (pkg/gameconfig), main's refusal to start  *)
(* with either one damaged, and the pure rules over them: the rarity of a  *)
(* roll, base and target rarity and success rate of a vow                  *)
(* (internal/vow/vow.go).  Economy uses these rules as given.              *)
(*                                                                         *)
(* Rarities are the ordinals of rarityOrder, 1 (Common) to 5 (Legendary).  *)
(***************************************************************************)
EXTENDS Integers, Sequences, FiniteSets

CONSTANTS Rows,         \* rows a skins.csv may have
          MaxRows,      \* bound on the rows of the file
          TierRows,     \* <tier> elements a game-config.xml may have
          VowSize,      \* requiredItemCount
          Powers,       \* n_power of requests
          AllowDebug    \* APP_ENV = development: debug_options are honoured

ASSUME CatalogAssumption ==
    /\ MaxRows \in Nat /\ VowSize \in Nat \ {0}
    /\ Powers \subseteq Nat /\ AllowDebug \in BOOLEAN
    /\ \A tier \in TierRows :
          /\ tier.minN \in Int /\ tier.maxN \in Int
          /\ tier.minRate \in Int /\ tier.maxRate \in Int

Rarities == 1 .. 5
Legendary == 5

VARIABLES boot,         \* how far main got
          skins,        \* rows in the pool, one per skinId
          stats,        \* LoadStats
          tiers,        \* Handler.tiers: tier by target rarity
          vow           \* the last vow that Pray let through, or NoVow

catalogVars == <<boot, skins, stats, tiers, vow>>

NoVow == [materials |-> <<>>, base |-> 0, n |-> 0]
NoTiers == <<>>

----------------------------------------------------------------------------
(* parseSkinPool, row by row. *)

\* Why a row is skipped, if it is; the tests come in this order.
Fault(row) ==
    IF row.id = "malformed" THEN "malformed"
    ELSE IF row.rarity \notin Rarities THEN "badRarity"
    ELSE IF row.part = "unknown" THEN "badPart"
    ELSE "none"

Known(id) == \E row \in skins : row.id = id

Count(field) == stats' = [stats EXCEPT !.total = @ + 1, ![field] = @ + 1]

\* Variant: a row of unknown part is dropped without being counted.
SkipRowSilently(row) ==
    /\ Fault(row) # "none"
    /\ IF Fault(row) = "badPart" THEN stats' = [stats EXCEPT !.total = @ + 1]
       ELSE Count(Fault(row))
    /\ UNCHANGED <<boot, skins, tiers, vow>>

SkipRow(row) ==
    /\ Fault(row) # "none"
    /\ Count(Fault(row))
    /\ UNCHANGED <<boot, skins, tiers, vow>>

\* A skinId that is already loaded refuses the file.
DuplicateRow(row) ==
    /\ Fault(row) = "none" /\ Known(row.id)
    /\ boot' = "refused"
    /\ UNCHANGED <<skins, stats, tiers, vow>>

LoadRow(row) ==
    /\ Fault(row) = "none" /\ ~Known(row.id)
    /\ skins' = skins \cup {row}
    /\ Count("loaded")
    /\ UNCHANGED <<boot, tiers, vow>>

ReadRow(row) ==
    /\ boot = "skins"
    /\ stats.total < MaxRows
    /\ SkipRow(row) \/ DuplicateRow(row) \/ LoadRow(row)

SkinsOf(rarity) == {row \in skins : row.rarity = rarity}

\* Variant: the pool need not hold every rarity.
AnyPool == skins # {}
FullPool == \A rarity \in Rarities : SkinsOf(rarity) # {}

Skipped == stats.malformed + stats.badRarity + stats.badPart

\* The end of the file, then main's test of the statistics.
EndOfSkins ==
    /\ boot = "skins"
    /\ boot' = IF FullPool /\ Skipped = 0 THEN "config" ELSE "refused"
    /\ UNCHANGED <<skins, stats, tiers, vow>>

----------------------------------------------------------------------------
(* gameconfig.Load: tiers and their validation.  NaN, infinities, missing  *)
(* keys and the limits of single numbers are a row with broken = TRUE.     *)

\* Variant: only each rate by itself is in range.
TierInRange(tier) == ~tier.broken /\ tier.target \in 2 .. 5 /\ tier.maxN > tier.minN
ValidTier(tier) ==
    /\ ~tier.broken
    /\ tier.target \in 2 .. 5
    /\ tier.maxN > tier.minN
    /\ tier.maxRate >= tier.minRate

Distinct(file) == \A a, b \in file : a.target = b.target => a = b

\* NewHandler indexes the tiers by target rarity.
LoadConfig(file) ==
    /\ boot = "config"
    /\ IF file # {} /\ Distinct(file) /\ \A tier \in file : ValidTier(tier)
       THEN /\ boot' = "serving"
            /\ tiers' = [r \in {tier.target : tier \in file} |->
                            CHOOSE tier \in file : tier.target = r]
       ELSE boot' = "refused" /\ UNCHANGED tiers
    /\ UNCHANGED <<skins, stats, vow>>

----------------------------------------------------------------------------
(* Pray before its transaction. *)
\* A request lists materials, each by its skin; a count is a repetition.
MaterialLists == UNION {[1 .. n -> skins] : n \in 1 .. VowSize}
Total(m) == Len(m)
Amount(m, rarity) == Cardinality({k \in DOMAIN m : m[k].rarity = rarity})
RaritySum(m) ==
    Amount(m, 1) + 2 * Amount(m, 2) + 3 * Amount(m, 3) + 4 * Amount(m, 4) + 5 * Amount(m, 5)

\* computeRarities: floor(average + 0.5).
Base(m) == (2 * RaritySum(m) + Total(m)) \div (2 * Total(m))

Material(row) == row.rarity < Legendary

PowerInRange(tier, n) == tier.minN <= n /\ n <= tier.maxN

\* In development, ignore_required_items and infinite_n_power waive the size and
\* the price.
Pray(m, n) ==
    /\ boot = "serving"
    /\ Total(m) = VowSize \/ AllowDebug
    /\ \A k \in DOMAIN m : Material(m[k])
    /\ Base(m) + 1 \in DOMAIN tiers
    /\ PowerInRange(tiers[Base(m) + 1], n) \/ AllowDebug
    /\ vow' = [materials |-> m, base |-> Base(m), n |-> n]
    /\ UNCHANGED <<boot, skins, stats, tiers>>

Clamp(v, low, high) == IF v < low THEN low ELSE IF v > high THEN high ELSE v

\* calcSuccessRate times the width of the tier's range of power, which keeps
\* the interpolation whole.
Width(tier) == tier.maxN - tier.minN
RateTimesWidth(tier, n) ==
    tier.minRate * Width(tier)
      + (tier.maxRate - tier.minRate) * Clamp(n - tier.minN, 0, Width(tier))

----------------------------------------------------------------------------
(* determineRarity: cumulative thresholds out of 10000. *)
Thresholds == <<8000, 9000, 9500, 9990, 10000>>

RarityOfRoll(roll) ==
    CHOOSE r \in Rarities : roll < Thresholds[r] /\ \A lower \in 1 .. r - 1 : roll >= Thresholds[lower]

\* Roll and PickByRarity draw a part among those that have a skin of the rarity,
\* then one of that part's skins.
Draws(rarity) ==
    LET parts == {row.part : row \in SkinsOf(rarity)}
    IN  UNION {{row \in SkinsOf(rarity) : row.part = part} : part \in parts}

\* The first and the last roll of every rarity.
EdgeRolls == {0} \cup {Thresholds[r] - 1 : r \in Rarities} \cup {Thresholds[r] : r \in 1 .. 4}

----------------------------------------------------------------------------
CatalogInit ==
    /\ boot = "skins" /\ skins = {} /\ tiers = NoTiers /\ vow = NoVow
    /\ stats = [total |-> 0, loaded |-> 0, malformed |-> 0, badRarity |-> 0, badPart |-> 0]

CatalogNext ==
    \/ \E row \in Rows : ReadRow(row)
    \/ EndOfSkins
    \/ \E file \in SUBSET TierRows : LoadConfig(file)
    \/ \E m \in MaterialLists, n \in Powers : Pray(m, n)

----------------------------------------------------------------------------
\* A server that serves has every row of its file in the pool, once: a row that
\* fails a test is counted by exactly one reason, so main's sum of the reasons
\* sees it (Total == Loaded + Skipped.., pool.go 23-25; main.go 57-67).
WholePool ==
    boot \in {"config", "serving"} =>
        /\ Cardinality(skins) = stats.total
        /\ \A a, b \in skins : a.id = b.id => a = b

\* No request meets an empty pool: every roll of the gacha, and every vow that
\* passed validation, whether it succeeds or fails, finds a skin of its rarity,
\* and every skin of the pool can be drawn (the modulo in Roll; errNoRewardPool,
\* vow.go 100, 303-306).
RewardsExist ==
    /\ boot = "serving" =>
          /\ \A roll \in EdgeRolls : Draws(RarityOfRoll(roll)) # {}
          /\ skins = UNION {Draws(RarityOfRoll(roll)) : roll \in EdgeRolls}
    /\ vow # NoVow => \A r \in {vow.base, vow.base + 1} : Draws(r) # {}

Distance(a, b) == IF a > b THEN a - b ELSE b - a

\* A vow's base rarity is the one closest to the average of its materials, the
\* higher one of two, none of them is Legendary, and its chance stays between
\* the tier's two rates and does not fall when more power is paid, for every
\* configuration the loader accepts (computeRarities, calcSuccessRate).
VowRules ==
    vow # NoVow =>
        LET m == vow.materials
            tier == tiers[vow.base + 1]
            off(r) == Distance(RaritySum(m), r * Total(m))
            rate(n) == RateTimesWidth(tier, n)
        IN  /\ \A k \in DOMAIN m : m[k].rarity # Legendary
            /\ \A r \in Rarities : off(r) > off(vow.base) \/ (off(r) = off(vow.base) /\ r <= vow.base)
            /\ tier.minRate * Width(tier) <= rate(vow.n)
            /\ rate(vow.n) <= tier.maxRate * Width(tier)
            /\ \A n \in Powers : vow.n <= n => rate(vow.n) <= rate(n)
=============================================================================
