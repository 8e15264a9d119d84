------------------------------- MODULE Cairn -------------------------------
(***************************************************************************)
(* WishCairn growth (internal/cairn/cairn.go).  A player owns SlotCount    *)
(* slots; each holds a stored layer count.  Growth is lazy: a request      *)
(* turns the whole intervals that passed since an anchor into steps, and   *)
(* every step adds one layer to one incomplete slot.  The code picks the   *)
(* slot by hashing the player and the step's second; here any incomplete   *)
(* slot may be picked, so a window of n steps has a set of outcomes.       *)
(*                                                                         *)
(* The module has no variables: Economy applies its operators to the rows  *)
(* of the database.                                                        *)
(***************************************************************************)
EXTENDS Integers, Functions

CONSTANTS SlotCount,    \* slots per player (game-config.xml: 5)
          MaxLayers,    \* layers of a complete slot (5)
          Interval      \* seconds per growth step (30)

ASSUME CairnAssumption ==
    /\ SlotCount \in Nat \ {0}
    /\ MaxLayers \in Nat \ {0}
    /\ Interval \in Nat \ {0}

Slots == 0 .. (SlotCount - 1)

\* No value: a NULL column, an absent row, an absent key.
None == -1

\* All rows exist: the negation of len(slots) < SlotCount.
Initialized(layers) == \A s \in Slots : layers[s] # None

\* Variant, off by one.
CompleteEarly(layers, s) == layers[s] >= MaxLayers - 1

\* statusFor: a slot is complete when its stored count reaches MaxLayers.
Complete(layers, s) == layers[s] >= MaxLayers

\* Layers the slots can still take.
Room(layers) == SumFunction([s \in Slots |-> MaxLayers - layers[s]])

Lesser(a, b) == IF a <= b THEN a ELSE b

(***************************************************************************)
(* Step 5 of ApplyGrowth: the ways n steps can be spread over the slots,   *)
(* as the increment of each slot.  No slot passes MaxLayers, and steps are *)
(* dropped only once every slot is complete.                               *)
(***************************************************************************)
Distributions(layers, n) ==
    {d \in [Slots -> 0 .. Lesser(n, MaxLayers)] :
        /\ \A s \in Slots : layers[s] + d[s] <= MaxLayers
        /\ SumFunction(d) = Lesser(n, Room(layers))}

Unchanged == [s \in Slots |-> 0]

Steps(anchor, now) == (now - anchor) \div Interval

\* A NULL anchor starts at the database's time; a window too short or without
\* its slots is left for the next request.
SelfHeal(clock) == [anchor |-> clock, added |-> Unchanged, windows |-> 0]
NoGrowth(anchor) == [anchor |-> anchor, added |-> Unchanged, windows |-> 0]

\* Variant: the anchor stops one interval short.
GrowthShortAnchor(anchor, layers, now, clock) ==
    IF anchor = None THEN {SelfHeal(clock)}
    ELSE IF Steps(anchor, now) <= 0 \/ ~Initialized(layers) THEN {NoGrowth(anchor)}
    ELSE    {[anchor  |-> anchor + (Steps(anchor, now) - 1) * Interval,
              added   |-> d,
              windows |-> Steps(anchor, now)] :
                 d \in Distributions(layers, Steps(anchor, now))}

\* Variant: no test for missing slots.
GrowthWithoutSlots(anchor, layers, now, clock) ==
    IF anchor = None THEN {SelfHeal(clock)}
    ELSE IF Steps(anchor, now) <= 0 THEN {NoGrowth(anchor)}
    ELSE    {[anchor  |-> anchor + Steps(anchor, now) * Interval,
              added   |-> d,
              windows |-> Steps(anchor, now)] :
                 d \in IF Initialized(layers)
                       THEN Distributions(layers, Steps(anchor, now))
                       ELSE {Unchanged}}

(***************************************************************************)
(* ApplyGrowth: what a transaction that samples `now` before it starts and *)
(* runs at database time `clock` does to the anchor, and what it adds to   *)
(* each slot.  `windows` is the number of steps the anchor moved by.       *)
(***************************************************************************)
Growth(anchor, layers, now, clock) ==
    IF anchor = None THEN {SelfHeal(clock)}
    ELSE IF Steps(anchor, now) <= 0 \/ ~Initialized(layers) THEN {NoGrowth(anchor)}
    ELSE    {[anchor  |-> anchor + Steps(anchor, now) * Interval,
              added   |-> d,
              windows |-> Steps(anchor, now)] :
                 d \in Distributions(layers, Steps(anchor, now))}

Grown(layers, added) == [s \in Slots |-> layers[s] + added[s]]
=============================================================================
