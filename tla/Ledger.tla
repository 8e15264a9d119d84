------------------------------- MODULE Ledger -------------------------------
(***************************************************************************)
(* What the economy promises a player, without the way it is kept: no      *)
(* requests, no transactions, no connection, no cache and no wall clock.   *)
(* Points are earned no faster than time passes, a purchase happens at     *)
(* once and as a whole, and nothing else changes what the player owns.     *)
(* Economy implements this (its property ImplementsLedger), so whatever    *)
(* its requests do between their steps is not visible here.                *)
(***************************************************************************)
EXTENDS Integers

CONSTANTS Slots, MaxLayers,   \* the cairn
          Rate,               \* points per second
          PullCost, Cooldown, \* a pull
          Items,              \* skins
          Offers,             \* bags of materials a vow may take
          Prices,             \* points a vow may cost
          None                \* no row, no pull yet

VARIABLES elapsed,   \* seconds since the player was created
          earned,    \* points credited so far
          points,    \* the balance
          grown,     \* layers each slot ever grew
          layers,    \* layers it holds now
          bag,       \* count of each skin
          lastPull   \* when the last pull was admitted

account == <<earned, points>>
cairn == <<grown, layers>>
vars == <<elapsed, account, cairn, bag, lastPull>>

Init ==
    /\ elapsed = 0
    /\ earned = 0 /\ points = 0
    /\ grown = [s \in Slots |-> 0]
    /\ layers \in {[s \in Slots |-> None], [s \in Slots |-> 0]}
    /\ bag = [i \in Items |-> 0]
    /\ lastPull = None

\* Any part of what the time that passed is worth is credited, then `cost` paid.
Settle(cost) ==
    /\ earned' \in earned .. Rate * elapsed
    /\ points' = points + (earned' - earned) - cost
    /\ points' >= 0

\* Slot s keeps what it holds and what it grows.
Ripen(s) ==
    /\ layers'[s] - layers[s] = grown'[s] - grown[s]
    /\ layers'[s] # layers[s] => /\ layers[s] # None
                                 /\ layers[s] < layers'[s]
                                 /\ layers'[s] <= MaxLayers

\* Slot s completes and is emptied.
Harvest(s) ==
    /\ layers[s] # None
    /\ layers'[s] = 0
    /\ grown'[s] = grown[s] + MaxLayers - layers[s]

Receive(held, item) == bag' = [held EXCEPT ![item] = @ + 1]

Elapse ==
    /\ elapsed' = elapsed + 1
    /\ UNCHANGED <<account, cairn, bag, lastPull>>

Earn ==
    /\ Settle(0)
    /\ UNCHANGED <<elapsed, cairn, bag, lastPull>>

OpenSlot ==
    /\ \E s \in Slots : layers[s] = None /\ layers' = [layers EXCEPT ![s] = 0]
    /\ UNCHANGED <<elapsed, account, grown, bag, lastPull>>

Grow ==
    /\ \A s \in Slots : Ripen(s)
    /\ UNCHANGED <<elapsed, account, bag, lastPull>>

Pull ==
    /\ Settle(PullCost)
    /\ \E s \in Slots : Harvest(s) /\ \A t \in Slots \ {s} : Ripen(t)
    /\ \E item \in Items : Receive(bag, item)
    /\ lastPull' \in 0 .. elapsed
    /\ lastPull # None => lastPull' - lastPull >= Cooldown
    /\ UNCHANGED elapsed

Vow ==
    /\ \E cost \in Prices : Settle(cost)
    /\ \E offer \in Offers, item \in Items :
          /\ \A i \in Items : offer[i] <= bag[i]
          /\ Receive([i \in Items |-> bag[i] - offer[i]], item)
    /\ UNCHANGED <<elapsed, cairn, lastPull>>

Next == Elapse \/ Earn \/ OpenSlot \/ Grow \/ Pull \/ Vow

Spec == Init /\ [][Next]_vars
=============================================================================
