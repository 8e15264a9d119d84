------------------------------ MODULE MemStore ------------------------------
(***************************************************************************)
(* The in-memory key-value store (pkg/kvstore/memory.go).  A mutex makes   *)
(* every call atomic.  An entry whose time is over stays in the map until  *)
(* a call on its key deletes it or the sweeper does; until then it must    *)
(* look absent to every caller, which is what ImplementsMap says.          *)
(*                                                                         *)
(* An entry holds the whole seconds left before expiresAt, and Expired     *)
(* once time.Now() is after it.                                            *)
(***************************************************************************)
EXTENDS Integers

CONSTANTS Keys, Values, TTLs,
          MaxVal      \* bound: a counter stops here

NotNumber == -1    \* a text that is no integer
NotFound == -3     \* ErrNotFound, a ParseInt error

ASSUME MemStoreAssumption ==
    /\ Values \subseteq Nat \cup {NotNumber}
    /\ TTLs \subseteq Nat
    /\ MaxVal \in Nat

VARIABLES kv,         \* m.kv, Absent where it has no entry
          answer      \* what the last call returned

vars == <<kv, answer>>

Never == -2
Expired == -1
Absent == [val |-> NotFound, left |-> Never]
Yes == 1
No == 0

\* expired(): a zero expiresAt never does.
Over(k) == kv[k].left = Expired

\* Variant: getEntry without the test of expired().
FoundStale(k) == kv[k] # Absent

\* What getEntry answers.
Found(k) == kv[k] # Absent /\ ~Over(k)

\* What getEntry leaves: an expired entry is deleted.
Looked(k) == IF Over(k) THEN [kv EXCEPT ![k] = Absent] ELSE kv

Entry(val, ttl) == [val |-> val, left |-> IF ttl > 0 THEN ttl ELSE Never]

Get(k) ==
    /\ kv' = Looked(k)
    /\ answer' = IF Found(k) THEN kv[k].val ELSE NotFound

Set(k, val, ttl) ==
    /\ kv' = [kv EXCEPT ![k] = Entry(val, ttl)]
    /\ answer' = Yes

SetNX(k, val, ttl) ==
    IF Found(k)
    THEN answer' = No /\ UNCHANGED kv
    ELSE answer' = Yes /\ kv' = [Looked(k) EXCEPT ![k] = Entry(val, ttl)]

Del(ks) ==
    /\ kv' = [k \in Keys |-> IF k \in ks THEN Absent ELSE kv[k]]
    /\ answer' = Yes

Exists(k) ==
    /\ kv' = Looked(k)
    /\ answer' = IF Found(k) THEN Yes ELSE No

IncrBy(k, n) ==
    \/ /\ ~Found(k)
       /\ kv' = [Looked(k) EXCEPT ![k] = Entry(n, 0)]
       /\ answer' = n
    \/ /\ Found(k) /\ kv[k].val # NotNumber
       /\ kv[k].val < MaxVal
       /\ kv' = [kv EXCEPT ![k].val = @ + n]
       /\ answer' = kv[k].val + n
    \/ /\ Found(k) /\ kv[k].val = NotNumber
       /\ answer' = NotFound
       /\ UNCHANGED kv

\* Variant: an entry that is over is revived.
ExpireAny(k, ttl) ==
    /\ kv' = IF kv[k] # Absent THEN [kv EXCEPT ![k].left = ttl] ELSE kv
    /\ answer' = Yes

\* Expire looks at the map itself: an expired entry is left alone.
Expire(k, ttl) ==
    /\ kv' = IF Found(k) THEN [kv EXCEPT ![k].left = ttl] ELSE kv
    /\ answer' = Yes

\* Variant: the sweeper passes and deletes nothing.
SweepNothing ==
    /\ \E k \in Keys : Over(k)
    /\ UNCHANGED vars

\* sweep, on the ticker of StartSweeper.
Sweep ==
    /\ \E k \in Keys : Over(k)
    /\ kv' = [k \in Keys |-> IF Over(k) THEN Absent ELSE kv[k]]
    /\ UNCHANGED answer

\* A second passes.
Tick ==
    /\ kv' = [k \in Keys |-> IF kv[k].left >= 0 THEN [kv[k] EXCEPT !.left = @ - 1] ELSE kv[k]]
    /\ UNCHANGED answer

Init ==
    /\ kv = [k \in Keys |-> Absent]
    /\ answer = Yes

Call ==
    \/ \E k \in Keys : Get(k) \/ Exists(k) \/ IncrBy(k, 1)
    \/ \E k \in Keys, val \in Values, ttl \in TTLs : Set(k, val, ttl) \/ SetNX(k, val, ttl)
    \/ \E k \in Keys, ttl \in TTLs \ {0} : Expire(k, ttl)
    \/ \E ks \in SUBSET Keys : Del(ks)

Next == Call \/ Sweep \/ Tick

Spec == Init /\ [][Next]_vars

\* The sweeper's goroutine runs as long as the server does (main.go 109-112).
FairSpec == Spec /\ WF_vars(Sweep)

----------------------------------------------------------------------------
Entries == [val : Nat \cup {NotNumber}, left : Nat \cup {Never, Expired}]

TypeOK ==
    /\ kv \in [Keys -> Entries \cup {Absent}]
    /\ answer \in Int

\* The map callers may believe in.
Seen == [k \in Keys |-> IF Found(k) THEN kv[k] ELSE Absent]
Map == INSTANCE KVMap WITH map <- Seen

\* Lazy expiry cannot be seen: whatever a call leaves behind or deletes, and
\* whenever the sweeper runs, callers get what a map that drops every entry at
\* its ttl would have answered (getEntry, Expire and sweep agree on expired()).
ImplementsMap == Map!Spec

\* An entry nobody asks for again does not stay for ever (the leak described at
\* memory.go 157-163, closed by main.go 110-112).
Reclaimed == \A k \in Keys : Over(k) ~> ~Over(k)
=============================================================================
