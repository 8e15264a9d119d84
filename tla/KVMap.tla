------------------------------- MODULE KVMap -------------------------------
(***************************************************************************)
(* What the rest of the server expects of kvstore.KVStore: a map whose     *)
(* calls are atomic and whose entries vanish when their time is over.      *)
(* Every entry holds the seconds it has left.  `answer` is what the last   *)
(* call returned, so an implementation must return the same.               *)
(***************************************************************************)
EXTENDS Integers

CONSTANTS Keys,
          Values,     \* what callers store: counters and NotNumber
          TTLs        \* the ttls callers pass, 0 for none

NotNumber == -1    \* a text that is no integer
NotFound == -3     \* ErrNotFound, a ParseInt error

VARIABLES map, answer

vars == <<map, answer>>

Never == -2   \* no expiry
Absent == [val |-> NotFound, left |-> Never]
Yes == 1
No == 0

Held(k) == map[k] # Absent

Entry(val, ttl) == [val |-> val, left |-> IF ttl > 0 THEN ttl ELSE Never]
Put(k, e) == map' = [map EXCEPT ![k] = e]
Return(a) == answer' = a

Get(k) ==
    /\ Return(IF Held(k) THEN map[k].val ELSE NotFound)
    /\ UNCHANGED map

Set(k, val, ttl) ==
    /\ Put(k, Entry(val, ttl))
    /\ Return(Yes)

SetNX(k, val, ttl) ==
    IF Held(k)
    THEN Return(No) /\ UNCHANGED map
    ELSE Return(Yes) /\ Put(k, Entry(val, ttl))

Del(ks) ==
    /\ map' = [k \in Keys |-> IF k \in ks THEN Absent ELSE map[k]]
    /\ Return(Yes)

Exists(k) ==
    /\ Return(IF Held(k) THEN Yes ELSE No)
    /\ UNCHANGED map

\* An absent key counts from 0 and gets no ttl; a counter keeps the one it has.
IncrBy(k, n) ==
    \/ /\ ~Held(k)
       /\ Put(k, Entry(n, 0))
       /\ Return(n)
    \/ /\ Held(k) /\ map[k].val # NotNumber
       /\ map' = [map EXCEPT ![k].val = @ + n]
       /\ Return(map[k].val + n)
    \/ /\ Held(k) /\ map[k].val = NotNumber
       /\ Return(NotFound)
       /\ UNCHANGED map

Expire(k, ttl) ==
    /\ map' = IF Held(k) THEN [map EXCEPT ![k].left = ttl] ELSE map
    /\ Return(Yes)

\* A second passes: an entry with none left is gone.
Older(e) ==
    IF e.left = Never THEN e
    ELSE IF e.left = 0 THEN Absent
    ELSE [e EXCEPT !.left = @ - 1]

Tick ==
    /\ map' = [k \in Keys |-> Older(map[k])]
    /\ UNCHANGED answer

Init ==
    /\ map = [k \in Keys |-> Absent]
    /\ answer = Yes

Call ==
    \/ \E k \in Keys : Get(k) \/ Exists(k) \/ IncrBy(k, 1)
    \/ \E k \in Keys, val \in Values, ttl \in TTLs : Set(k, val, ttl) \/ SetNX(k, val, ttl)
    \/ \E k \in Keys, ttl \in TTLs \ {0} : Expire(k, ttl)
    \/ \E ks \in SUBSET Keys : Del(ks)

Next == Call \/ Tick

Spec == Init /\ [][Next]_vars
=============================================================================
