--------------------------- MODULE MemStoreProofs ---------------------------
(***************************************************************************)
(* MemStore implements KVMap for any keys, values and ttls.  The mapping   *)
(* hides the entries that are over, so a call that deletes one, the        *)
(* sweeper and a call that finds one are what they would be on a map that  *)
(* has none.                                                               *)
(***************************************************************************)
EXTENDS MemStore, TLAPS

LEMMA InitType == Init => TypeOK
  BY DEF Init, TypeOK, Absent, Never, Yes, NotFound

LEMMA TypeStep == TypeOK /\ [Next]_vars => TypeOK'
  <1> SUFFICES ASSUME TypeOK, [Next]_vars PROVE TypeOK'
    OBVIOUS
  <1> USE DEF TypeOK, Entries, Absent, Entry, Looked, Never, Expired, NotFound, NotNumber
  <1>1. ASSUME NEW k \in Keys, Get(k) PROVE TypeOK'
    BY <1>1 DEF Get
  <1>2. ASSUME NEW k \in Keys, Exists(k) PROVE TypeOK'
    BY <1>2 DEF Exists, Yes, No
  <1>3. ASSUME NEW k \in Keys, IncrBy(k, 1) PROVE TypeOK'
    <2>1. CASE ~Found(k)
      <3>1. Entry(1, 0) \in Entries
        OBVIOUS
      <3> QED
        BY <1>3, <2>1, <3>1 DEF IncrBy
    <2>2. CASE Found(k)
      <3>1. kv[k] \in Entries
        BY <2>2 DEF Found
      <3>2. kv[k].val # NotNumber => [kv[k] EXCEPT !.val = @ + 1] \in Entries
        BY <3>1
      <3> QED
        BY <1>3, <2>2, <3>1, <3>2 DEF IncrBy
    <2> QED
      BY <2>1, <2>2
  <1>4. ASSUME NEW k \in Keys, NEW v \in Values, NEW ttl \in TTLs,
               Set(k, v, ttl) \/ SetNX(k, v, ttl)
        PROVE  TypeOK'
    BY <1>4, MemStoreAssumption DEF Set, SetNX, Yes, No
  <1>5. ASSUME NEW k \in Keys, NEW ttl \in TTLs \ {0}, Expire(k, ttl) PROVE TypeOK'
    <2>1. Found(k) => kv[k] \in Entries
      BY DEF Found
    <2>2. Found(k) => [kv[k] EXCEPT !.left = ttl] \in Entries
      BY <2>1, MemStoreAssumption
    <2> QED
      BY <1>5, <2>2 DEF Expire, Yes
  <1>6. ASSUME NEW ks \in SUBSET Keys, Del(ks) PROVE TypeOK'
    BY <1>6 DEF Del, Yes
  <1>7. CASE Sweep
    BY <1>7 DEF Sweep
  <1>8. CASE Tick
    <2>1. ASSUME NEW k \in Keys PROVE kv'[k] \in Entries \cup {Absent}
      <3>1. kv'[k] = IF kv[k].left >= 0 THEN [kv[k] EXCEPT !.left = @ - 1] ELSE kv[k]
        BY <1>8 DEF Tick
      <3>2. CASE kv[k] = Absent
        BY <3>1, <3>2
      <3>3. CASE kv[k] \in Entries
        <4>1. [kv[k] EXCEPT !.left = @ - 1] = [val |-> kv[k].val, left |-> kv[k].left - 1]
          BY <3>3
        <4> QED
          BY <3>1, <3>3, <4>1
      <3> QED
        BY <3>2, <3>3
    <2> QED
      BY <1>8, <2>1 DEF Tick
  <1>9. CASE UNCHANGED vars
    BY <1>9 DEF vars
  <1> QED
    BY <1>1, <1>2, <1>3, <1>4, <1>5, <1>6, <1>7, <1>8, <1>9 DEF Next, Call

\* Every entry is typed: an expiry that passed is the only negative time left.
THEOREM TypeCorrect == Spec => []TypeOK
  BY InitType, TypeStep, PTL DEF Spec

----------------------------------------------------------------------------
\* Whether a key is held is what getEntry finds.
LEMMA SeenHeld ==
    ASSUME TypeOK, NEW k \in Keys
    PROVE  /\ Map!Held(k) <=> Found(k)
           /\ Found(k) => Seen[k] = kv[k]
           /\ ~Found(k) => Seen[k] = Absent
  BY DEF Map!Held, Map!Absent, Map!Never, Map!NotFound, Absent, Never, NotFound, Found, Seen

\* Deleting what is over changes nothing that is seen.
LEMMA LookedSeen ==
    ASSUME TypeOK, NEW k \in Keys, kv' = Looked(k)
    PROVE  Seen' = Seen
  <1>1. ASSUME NEW j \in Keys
        PROVE  (IF Found(j) THEN kv[j] ELSE Absent)' = IF Found(j) THEN kv[j] ELSE Absent
    BY DEF TypeOK, Entries, Looked, Found, Over, Absent, Never, Expired
  <1> QED
    BY <1>1 DEF Seen

\* An entry that is not over is seen as it is written.
LEMMA PutSeen ==
    ASSUME TypeOK, NEW k \in Keys, NEW e, e.left # Expired,
           kv' = [kv EXCEPT ![k] = e] \/ kv' = [Looked(k) EXCEPT ![k] = e]
    PROVE  Seen' = [Seen EXCEPT ![k] = e]
  <1>1. ASSUME NEW j \in Keys
        PROVE  (IF Found(j) THEN kv[j] ELSE Absent)'
                 = IF j = k THEN e ELSE IF Found(j) THEN kv[j] ELSE Absent
    BY DEF TypeOK, Entries, Looked, Found, Over
  <1> QED
    BY <1>1 DEF Seen

\* Every step of MemStore is a step of the map it shows, or none.
LEMMA MapStep ==
    ASSUME TypeOK, [Next]_vars
    PROVE  [Map!Next]_(Map!vars)
  <1> USE DEF Map!Return, Map!Put, Map!Yes, Map!No, Map!NotFound, Map!NotNumber,
              Yes, No, NotFound, NotNumber
  <1>0. ASSUME NEW v, NEW ttl \in Nat
        PROVE  Map!Entry(v, ttl) = Entry(v, ttl) /\ Entry(v, ttl).left # Expired
    BY DEF Map!Entry, Map!Never, Entry, Never, Expired
  <1>1. ASSUME NEW k \in Keys, Get(k) PROVE Map!Get(k)
    BY <1>1, LookedSeen, SeenHeld DEF Get, Map!Get
  <1>2. ASSUME NEW k \in Keys, Exists(k) PROVE Map!Exists(k)
    BY <1>2, LookedSeen, SeenHeld DEF Exists, Map!Exists
  <1>3. ASSUME NEW k \in Keys, IncrBy(k, 1) PROVE Map!IncrBy(k, 1)
    <2>1. CASE ~Found(k)
      <3>1. kv' = [Looked(k) EXCEPT ![k] = Entry(1, 0)] /\ answer' = 1
        BY <1>3, <2>1 DEF IncrBy
      <3>2. Seen' = [Seen EXCEPT ![k] = Entry(1, 0)]
        BY <1>0, <3>1, PutSeen
      <3> QED
        BY <1>0, <2>1, <3>1, <3>2, SeenHeld DEF Map!IncrBy
    <2>2. CASE Found(k) /\ kv[k].val # NotNumber
      <3> DEFINE e == [kv[k] EXCEPT !.val = @ + 1]
      <3>1. kv' = [kv EXCEPT ![k] = e] /\ answer' = kv[k].val + 1
        BY <1>3, <2>2 DEF IncrBy, TypeOK
      <3>2. e.left # Expired
        BY <2>2 DEF TypeOK, Found, Over
      <3>3. Seen[k] = kv[k] /\ Map!Held(k) /\ e = [Seen[k] EXCEPT !.val = @ + 1]
        BY <2>2, SeenHeld
      <3> HIDE DEF e
      <3>4. Seen' = [Seen EXCEPT ![k] = e]
        BY <3>1, <3>2, PutSeen
      <3>5. Seen' = [Seen EXCEPT ![k].val = @ + 1]
        BY <3>3, <3>4
      <3> QED
        BY <2>2, <3>1, <3>3, <3>5 DEF Map!IncrBy
    <2>3. CASE Found(k) /\ kv[k].val = NotNumber
      <3>1. kv' = kv /\ answer' = NotFound
        BY <1>3, <2>3 DEF IncrBy
      <3>2. Seen' = Seen
        BY <3>1 DEF Seen, Found, Over
      <3> QED
        BY <2>3, <3>1, <3>2, SeenHeld DEF Map!IncrBy
    <2> QED
      BY <2>1, <2>2, <2>3
  <1>4. ASSUME NEW k \in Keys, NEW v \in Values, NEW ttl \in TTLs, Set(k, v, ttl)
        PROVE  Map!Set(k, v, ttl)
    <2>1. ttl \in Nat /\ kv' = [kv EXCEPT ![k] = Entry(v, ttl)] /\ answer' = Yes
      BY <1>4, MemStoreAssumption DEF Set
    <2>2. Seen' = [Seen EXCEPT ![k] = Entry(v, ttl)]
      BY <1>0, <2>1, PutSeen
    <2> QED
      BY <1>0, <2>1, <2>2 DEF Map!Set
  <1>5. ASSUME NEW k \in Keys, NEW v \in Values, NEW ttl \in TTLs, SetNX(k, v, ttl)
        PROVE  Map!SetNX(k, v, ttl)
    <2>1. CASE Found(k)
      <3>1. kv' = kv /\ answer' = No
        BY <1>5, <2>1 DEF SetNX
      <3>2. Seen' = Seen
        BY <3>1 DEF Seen, Found, Over
      <3> QED
        BY <2>1, <3>1, <3>2, SeenHeld DEF Map!SetNX
    <2>2. CASE ~Found(k)
      <3>1. ttl \in Nat /\ kv' = [Looked(k) EXCEPT ![k] = Entry(v, ttl)] /\ answer' = Yes
        BY <1>5, <2>2, MemStoreAssumption DEF SetNX
      <3>2. Seen' = [Seen EXCEPT ![k] = Entry(v, ttl)]
        BY <1>0, <3>1, PutSeen
      <3> QED
        BY <1>0, <2>2, <3>1, <3>2, SeenHeld DEF Map!SetNX
    <2> QED
      BY <2>1, <2>2
  <1>6. ASSUME NEW k \in Keys, NEW ttl \in TTLs \ {0}, Expire(k, ttl) PROVE Map!Expire(k, ttl)
    <2>1. CASE Found(k)
      <3> DEFINE e == [kv[k] EXCEPT !.left = ttl]
      <3>1. kv' = [kv EXCEPT ![k] = e] /\ answer' = Yes
        BY <1>6, <2>1 DEF Expire, TypeOK
      <3>2. e.left # Expired
        BY MemStoreAssumption DEF TypeOK, Expired
      <3>3. Map!Held(k) /\ e = [Seen[k] EXCEPT !.left = ttl]
        BY <2>1, SeenHeld
      <3> HIDE DEF e
      <3>4. Seen' = [Seen EXCEPT ![k] = e]
        BY <3>1, <3>2, PutSeen
      <3>5. Seen' = [Seen EXCEPT ![k].left = ttl]
        BY <3>3, <3>4
      <3> QED
        BY <3>1, <3>3, <3>5 DEF Map!Expire
    <2>2. CASE ~Found(k)
      <3>1. kv' = kv /\ answer' = Yes
        BY <1>6, <2>2 DEF Expire
      <3>2. Seen' = Seen
        BY <3>1 DEF Seen, Found, Over
      <3> QED
        BY <2>2, <3>1, <3>2, SeenHeld DEF Map!Expire
    <2> QED
      BY <2>1, <2>2
  <1>7. ASSUME NEW ks \in SUBSET Keys, Del(ks) PROVE Map!Del(ks)
    <2>1. ASSUME NEW k \in Keys
          PROVE  Seen'[k] = IF k \in ks THEN Absent ELSE Seen[k]
      BY <1>7 DEF Del, Seen, Found, Over
    <2>2. Seen' = [k \in Keys |-> IF k \in ks THEN Absent ELSE Seen[k]]
      BY <2>1 DEF Seen
    <2> QED
      BY <1>7, <2>2 DEF Del, Map!Del, Map!Absent, Map!Never, Absent, Never
  <1>8. CASE Sweep
    <2>1. ASSUME NEW k \in Keys PROVE Seen'[k] = Seen[k]
      BY <1>8 DEF Sweep, Seen, Found, Over, Absent, Never, Expired
    <2>2. Seen' = Seen
      BY <2>1 DEF Seen
    <2> QED
      BY <1>8, <2>2 DEF Sweep, Map!vars
  <1>9. ASSUME Tick PROVE Map!Tick
    <2>1. ASSUME NEW k \in Keys PROVE Seen'[k] = Map!Older(Seen[k])
      <3>1. kv'[k] = IF kv[k].left >= 0 THEN [kv[k] EXCEPT !.left = @ - 1] ELSE kv[k]
        BY <1>9 DEF Tick
      <3>2. /\ Seen[k] = IF kv[k] # Absent /\ kv[k].left # Expired THEN kv[k] ELSE Absent
            /\ Seen'[k] = IF kv'[k] # Absent /\ kv'[k].left # Expired THEN kv'[k] ELSE Absent
        BY DEF Seen, Found, Over
      <3>3. Map!Absent = Absent /\ Map!Older(Absent) = Absent
        BY DEF Map!Older, Map!Absent, Map!Never, Absent, Never
      <3>4. CASE kv[k] = Absent
        <4>1. kv'[k] = Absent
          BY <3>1, <3>4 DEF Absent, Never
        <4> QED
          BY <3>2, <3>3, <3>4, <4>1
      <3>5. CASE kv[k] \in Entries
        <4> DEFINE e == kv[k]
                   older == [e EXCEPT !.left = @ - 1]
        <4>1. /\ e.left \in Nat \cup {Never, Expired}
              /\ older.left = e.left - 1 /\ older.val = e.val
              /\ e.val # NotFound
          BY <3>5 DEF Entries, NotFound, NotNumber
        <4>2. e # Absent /\ older # Absent
          BY <4>1 DEF Absent
        <4>3. kv'[k] = IF e.left >= 0 THEN older ELSE e
          BY <3>1
        <4>4. Map!Older(e) = IF e.left = Never THEN e ELSE IF e.left = 0 THEN Absent ELSE older
          BY <3>3 DEF Map!Older, Map!Never, Never
        <4> HIDE DEF e, older
        <4> QED
          BY <3>2, <3>3, <4>1, <4>2, <4>3, <4>4 DEF Never, Expired, e
      <3> QED
        BY <3>4, <3>5 DEF TypeOK
    <2>2. Seen' = [k \in Keys |-> Map!Older(Seen[k])]
      BY <2>1 DEF Seen
    <2> QED
      <3>1. answer' = answer
        BY <1>9 DEF Tick
      <3> QED
        BY <2>2, <3>1 DEF Map!Tick
  <1>10. CASE UNCHANGED vars
    BY <1>10 DEF vars, Map!vars, Seen, Found, Over
  <1> QED
    BY <1>1, <1>2, <1>3, <1>4, <1>5, <1>6, <1>7, <1>8, <1>9, <1>10
    DEF Next, Call, Map!Next, Map!Call

LEMMA MapInit == Init => Map!Init
  BY DEF Init, Map!Init, Seen, Found, Absent, Never, NotFound, Map!Absent, Map!Never,
         Map!NotFound, Yes, Map!Yes

\* Lazy expiry and the sweeper are invisible, for any keys, values and ttls: every
\* call answers what a map answers that drops each entry when its ttl is over.
THEOREM MapImplemented == Spec => ImplementsMap
  <1>1. TypeOK /\ [Next]_vars => [Map!Next]_(Map!vars)
    BY MapStep
  <1> QED
    BY <1>1, MapInit, TypeCorrect, PTL DEF Spec, ImplementsMap, Map!Spec
=============================================================================
