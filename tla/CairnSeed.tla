----------------------------- MODULE CairnSeed -----------------------------
(***************************************************************************)
(* How ApplyGrowth picks the slot of each growth step                      *)
(* (internal/cairn/cairn.go).  Cairn, and Economy with it, let a step go   *)
(* to any incomplete slot.  The code hashes the player and the step's      *)
(* second into a seed and takes that index among the incomplete slots, in  *)
(* ascending order, of the layers stored and applied so far.  This module  *)
(* shows that the one is an abstraction of the other.                      *)
(***************************************************************************)
EXTENDS Cairn, FiniteSets, Sequences, SequencesExt

CONSTANTS MaxSteps,     \* steps of one window
          Seeds         \* values of growthSeed (a uint64)

ASSUME CairnSeedAssumption == MaxSteps \in Nat /\ Seeds \subseteq Nat

VARIABLES stored        \* layer counts of the rows

Windows == UNION {[1 .. n -> Seeds] : n \in 0 .. MaxSteps}

Incomplete(layers, applied) == {s \in Slots : layers[s] + applied[s] < MaxLayers}

\* incomplete[index]: the slots are listed in ascending order.
Nth(slots, index) == CHOOSE s \in slots : Cardinality({t \in slots : t < s}) = index

\* Variant: the step is tested against the rows alone.
ApplyStepStale(layers, applied, seed) ==
    LET open == Incomplete(layers, Unchanged)
    IN  IF open = {} THEN applied
        ELSE [applied EXCEPT ![Nth(open, seed % Cardinality(open))] = @ + 1]

\* One step of the loop; a complete cairn ends it, so later steps change nothing.
ApplyStep(layers, applied, seed) ==
    LET open == Incomplete(layers, applied)
    IN  IF open = {} THEN applied
        ELSE [applied EXCEPT ![Nth(open, seed % Cardinality(open))] = @ + 1]

Seeded(layers, window) ==
    FoldLeft(LAMBDA applied, seed : ApplyStep(layers, applied, seed), Unchanged, window)

----------------------------------------------------------------------------
SeedInit == stored = [s \in Slots |-> 0]

GrowSeeded(window) == stored' = Grown(stored, Seeded(stored, window))

\* A pull takes the layers of a complete slot.
ClaimSlot(s) ==
    /\ Complete(stored, s)
    /\ stored' = [stored EXCEPT ![s] = 0]

SeedNext ==
    \/ \E window \in Windows : GrowSeeded(window)
    \/ \E s \in Slots : ClaimSlot(s)

----------------------------------------------------------------------------
\* Whatever the hash yields and wherever pulls left the slots, a window of n
\* steps ends in one of the outcomes the specification Cairn allows, and every
\* such outcome is one some seeds lead to: slots that fill up in the middle of
\* a window pass their steps on, none is lost before the cairn is full (step 5 of
\* ApplyGrowth, cairn.go 241-259).
SeedsDistribute ==
    \A n \in 0 .. MaxSteps :
        {Seeded(stored, window) : window \in [1 .. n -> Seeds]} = Distributions(stored, n)
=============================================================================
