--------------------------- MODULE EconomyProofs ---------------------------
(***************************************************************************)
(* Proofs about Economy, for every value of its constants: any number of   *)
(* requests, slots and items, and no bound on time.  First the invariants, *)
(* last that Economy implements Ledger.                                    *)
(***************************************************************************)
EXTENDS Economy, Sums, TLAPS

\* An interval counted whole times never passes the elapsed seconds (the
\* integer division of ApplyGrowth).
LEMMA DivBound ==
    ASSUME NEW a \in Int, NEW b \in Nat \ {0}
    PROVE  /\ a \div b \in Int
           /\ (a \div b) * b <= a
           /\ a - (a \div b) * b < b
  OBVIOUS

LEMMA IdleType == Idle \in Requests
  BY CairnAssumption DEF Idle, Requests, PCs, RequestKinds, Slots, None

\* What one application of growth hands to its transaction: typed increments
\* that keep every slot within MaxLayers and touch no missing slot.
LEMMA GrowthType ==
    ASSUME NEW a \in Nat \cup {None},
           NEW L \in [Slots -> Nat \cup {None}],
           NEW now \in Nat, NEW c \in Nat,
           NEW g \in Growth(a, L, now, c)
    PROVE  /\ g.anchor \in Nat
           /\ g.windows \in Nat
           /\ g.added \in [Slots -> Nat]
           /\ \A s \in Slots : L[s] = None => g.added[s] = 0
           /\ \A s \in Slots : g.added[s] > 0 => L[s] + g.added[s] <= MaxLayers
  <1>1. CASE a = None
    <2>1. g = SelfHeal(c)
      BY <1>1 DEF Growth
    <2> QED
      BY <2>1 DEF SelfHeal, Unchanged
  <1>2. CASE a # None /\ (Steps(a, now) <= 0 \/ ~Initialized(L))
    <2>1. g = NoGrowth(a)
      BY <1>2 DEF Growth
    <2> QED
      BY <1>2, <2>1 DEF NoGrowth, Unchanged
  <1>3. CASE a # None /\ ~(Steps(a, now) <= 0 \/ ~Initialized(L))
    <2> DEFINE n == Steps(a, now)
    <2>1. n \in Int
      BY <1>3, CairnAssumption, DivBound DEF Steps, None
    <2>2. n \in Nat \ {0} /\ Initialized(L)
      BY <1>3, <2>1
    <2>3. PICK d \in Distributions(L, n) :
             g = [anchor |-> a + n * Interval, added |-> d, windows |-> n]
      BY <1>3 DEF Growth
    <2>4. d \in [Slots -> 0 .. Lesser(n, MaxLayers)] /\ \A s \in Slots : L[s] + d[s] <= MaxLayers
      BY DEF Distributions
    <2>5. Lesser(n, MaxLayers) \in Nat
      BY <2>2, CairnAssumption DEF Lesser
    <2>6. a + n * Interval \in Nat
      BY <1>3, <2>2, CairnAssumption DEF None
    <2> QED
      BY <2>2, <2>3, <2>4, <2>5, <2>6 DEF Initialized
  <1> QED
    BY <1>1, <1>2, <1>3

LEMMA GrownType ==
    ASSUME NEW a \in Nat \cup {None},
           NEW L \in [Slots -> Nat \cup {None}],
           NEW now \in Nat, NEW c \in Nat,
           NEW g \in Growth(a, L, now, c)
    PROVE  Grown(L, g.added) \in [Slots -> Nat \cup {None}]
  BY GrowthType DEF Grown, None

\* Accrual credits a natural number of points.
LEMMA AccruedType == TypeOK => Accrued \in Nat
  <1> SUFFICES ASSUME TypeOK PROVE Accrued \in Nat
    OBVIOUS
  <1>1. clock - lastSync \in Int /\ (clock > lastSync => clock - lastSync \in Nat)
    BY DEF TypeOK
  <1>2. \A x \in Nat : Rate * x \in Nat
    BY EconomyAssumption
  <1> QED
    BY <1>1, <1>2 DEF Accrued

\* Paying out of balance and accrual keeps the wallet typed.
LEMMA PayType ==
    ASSUME TypeOK, NEW cost \in Nat, AccrueAndPay(cost)
    PROVE  pts' \in Nat /\ lastSync' \in Nat /\ banked' \in Nat
  BY AccruedType DEF AccrueAndPay, TypeOK

LEMMA EntryType ==
    ASSUME TypeOK, NEW v \in Nat \cup {None}, NEW t \in Int
    PROVE  Entry(v, t) \in [val : Nat \cup {None}, exp : Nat \cup {Never}]
  BY DEF Entry, TypeOK

\* The player's rows and the clocks: everything of TypeOK but the key, the
\* connection and the requests.
RowsOK ==
    /\ ticks \in Nat /\ clock \in 0 .. ticks
    /\ pts \in Nat /\ lastSync \in Nat /\ banked \in Nat
    /\ nextGacha \in Nat \cup {None} /\ lastPull \in Nat \cup {None}
    /\ anchor \in Nat \cup {None}
    /\ layers \in [Slots -> Nat \cup {None}]
    /\ grown \in [Slots -> Nat] /\ claims \in [Slots -> Nat]
    /\ windows \in Nat /\ pulls \in Nat /\ vows \in Nat /\ vowSpent \in Nat
    /\ consumed \in Nat
    /\ inv \in [Items -> Nat]

KeyOK == kv \in [val : Nat \cup {None}, exp : Nat \cup {Never}]
ConnOK == conn \in Procs \cup {None}
ReqOK == req \in [Procs -> Requests]

\* One application of growth keeps the cairn's rows typed.
LEMMA GrowType ==
    ASSUME TypeOK, NEW p \in Procs,
           NEW g \in Growth(anchor, layers, req[p].now, clock), Grow(g)
    PROVE  /\ anchor' \in Nat /\ windows' \in Nat /\ grown' \in [Slots -> Nat]
           /\ Grown(layers, g.added) \in [Slots -> Nat \cup {None}]
  <1>1. req[p].now \in Nat /\ clock \in Nat /\ anchor \in Nat \cup {None}
        /\ layers \in [Slots -> Nat \cup {None}]
    BY DEF TypeOK, Requests
  <1>2. g.anchor \in Nat /\ g.windows \in Nat /\ g.added \in [Slots -> Nat]
    BY <1>1, GrowthType
  <1>3. Grown(layers, g.added) \in [Slots -> Nat \cup {None}]
    BY <1>1, GrownType
  <1>4. grown' \in [Slots -> Nat]
    BY <1>2 DEF Grow, Grown, TypeOK
  <1> QED
    BY <1>2, <1>3, <1>4 DEF Grow, TypeOK

LEMMA InitType == Init => TypeOK
  BY IdleType, CairnAssumption, EconomyAssumption
  DEF Init, TypeOK, NoEntry, Slots, None

\* The steps that write a row or move a clock; every other step leaves both.
RowStep ==
    \/ \E p \in Procs, s \in Slots, item \in Items : PullCommit(p, s, item)
    \/ \E p \in Procs, m \in Materials, reward \in Items : VowCommit(p, m, reward)
    \/ \E p \in Procs : Sync(p) \/ InsertSlot(p) \/ ApplyGrowthTx(p) \/ ResetAnchor(p)
    \/ Tick \/ StepBack

LEMMA RowSteps == [Next]_vars => RowStep \/ UNCHANGED <<time, db>>
  <1> SUFFICES ASSUME [Next]_vars PROVE RowStep \/ UNCHANGED <<time, db>>
    OBVIOUS
  <1>1. ASSUME NEW p \in Procs, PullStep(p) PROVE RowStep \/ UNCHANGED <<time, db>>
    BY <1>1 DEF PullStep, CheckHit, CheckMiss, ReadCooldown, FillCooldown, PullBegin,
                PullGateReject, Rollback, SetCooldown, RowStep
  <1>2. ASSUME NEW p \in Procs, VowStep(p) PROVE RowStep \/ UNCHANGED <<time, db>>
    BY <1>2 DEF VowStep, VowStart, VowReload, RowStep
  <1>3. ASSUME NEW p \in Procs, PlayerStep(p) PROVE RowStep \/ UNCHANGED <<time, db>>
    BY <1>3 DEF PlayerStep, GetState, Login, SampleNow, RowStep
  <1> QED
    BY <1>1, <1>2, <1>3 DEF Next, Abort, Crash, RowStep, vars

\* Rows: one step per action that writes one.
LEMMA RowsType == TypeOK /\ [Next]_vars => RowsOK'
  <1> SUFFICES ASSUME TypeOK, [Next]_vars PROVE RowsOK'
    OBVIOUS
  <1>1. CASE UNCHANGED <<time, db>>
    BY <1>1 DEF TypeOK, RowsOK, time, db, wallet, cairn, gacha, goods
  <1>2. ASSUME NEW p \in Procs, NEW s \in Slots, NEW item \in Items, PullCommit(p, s, item)
        PROVE  RowsOK'
    <2>1. req[p] \in Requests
      BY DEF TypeOK
    <2>2. PICK g \in Growth(anchor, layers, req[p].now, clock) :
             layers' = [Grown(layers, g.added) EXCEPT ![s] = 0] /\ Grow(g)
      BY <1>2 DEF PullCommit
    <2>3. anchor' \in Nat /\ windows' \in Nat /\ grown' \in [Slots -> Nat]
      BY <2>2, GrowType
    <2>4. layers' \in [Slots -> Nat \cup {None}]
      BY <2>2, GrowType
    <2>5. pts' \in Nat /\ lastSync' \in Nat /\ banked' \in Nat
      BY <1>2, PayType, EconomyAssumption DEF PullCommit
    <2>6. /\ nextGacha' \in Nat /\ lastPull' \in Nat /\ pulls' \in Nat
          /\ claims' \in [Slots -> Nat] /\ inv' \in [Items -> Nat]
          /\ UNCHANGED <<time, vows, vowSpent, consumed>>
      BY <1>2, <2>1, EconomyAssumption DEF PullCommit, GrantItem, TypeOK, Requests
    <2> QED
      BY <2>3, <2>4, <2>5, <2>6 DEF TypeOK, RowsOK, time
  <1>3. ASSUME NEW p \in Procs, NEW m \in Materials, NEW reward \in Items,
               VowCommit(p, m, reward)
        PROVE  RowsOK'
    <2>1. PICK cost \in Charges : AccrueAndPay(cost) /\ vowSpent' = vowSpent + cost
      BY <1>3 DEF VowCommit
    <2>2. cost \in Nat
      BY EconomyAssumption DEF Charges
    <2>3. pts' \in Nat /\ lastSync' \in Nat /\ banked' \in Nat /\ vowSpent' \in Nat
      BY <2>1, <2>2, PayType DEF TypeOK
    <2>4. m \in [Items -> 0 .. VowSize] /\ VowSize \in Nat
      BY EconomyAssumption DEF Materials
    <2>5. Consume(m) => [i \in Items |-> inv[i] - m[i]] \in [Items -> Nat]
      BY <2>4 DEF Consume, TypeOK
    <2>6. inv' \in [Items -> Nat] /\ consumed' \in Nat
      <3>1. CASE Consume(m) /\ inv' = GrantItem([i \in Items |-> inv[i] - m[i]], reward)
        BY <2>4, <2>5, <3>1 DEF Consume, GrantItem, TypeOK
      <3>2. CASE inv' = GrantItem(inv, reward) /\ UNCHANGED consumed
        BY <3>2 DEF GrantItem, TypeOK
      <3> QED
        BY <1>3, <3>1, <3>2 DEF VowCommit
    <2> QED
      BY <1>3, <2>3, <2>6 DEF VowCommit, TypeOK, RowsOK, time, cairn, gacha
  <1>4. ASSUME NEW p \in Procs, Sync(p) PROVE RowsOK'
    BY <1>4, PayType DEF Sync, TypeOK, RowsOK, time, cairn, gacha, goods
  <1>5. ASSUME NEW p \in Procs, InsertSlot(p) PROVE RowsOK'
    BY <1>5 DEF InsertSlot, TypeOK, RowsOK, time, wallet, gacha, goods
  <1>6. ASSUME NEW p \in Procs, ApplyGrowthTx(p) PROVE RowsOK'
    <2>2. PICK g \in Growth(anchor, layers, req[p].now, clock) :
             layers' = Grown(layers, g.added) /\ Grow(g)
      BY <1>6 DEF ApplyGrowthTx
    <2>3. anchor' \in Nat /\ windows' \in Nat /\ grown' \in [Slots -> Nat]
      BY <2>2, GrowType
    <2>4. layers' \in [Slots -> Nat \cup {None}]
      BY <2>2, GrowType
    <2> QED
      BY <1>6, <2>3, <2>4 DEF ApplyGrowthTx, TypeOK, RowsOK, time, wallet, gacha, goods
  <1>7. ASSUME NEW p \in Procs, ResetAnchor(p) PROVE RowsOK'
    BY <1>7 DEF ResetAnchor, TypeOK, RowsOK, time, gacha, goods
  <1>8. CASE Tick
    BY <1>8 DEF Tick, TypeOK, RowsOK, db, wallet, cairn, gacha, goods
  <1>9. CASE StepBack
    BY <1>9 DEF StepBack, TypeOK, RowsOK, db, wallet, cairn, gacha, goods
  <1> QED
    BY <1>1, <1>2, <1>3, <1>4, <1>5, <1>6, <1>7, <1>8, <1>9, RowSteps DEF RowStep

LEMMA KeyType == TypeOK /\ [Next]_vars => KeyOK'
  <1> SUFFICES ASSUME TypeOK, [Next]_vars PROVE KeyOK'
    OBVIOUS
  <1>1. CASE UNCHANGED kv
    BY <1>1 DEF TypeOK, KeyOK
  <1>2. ASSUME NEW p \in Procs, FillCooldown(p) PROVE KeyOK'
    <2>1. req[p].val \in Nat \cup {None} /\ clock \in Nat
      BY DEF TypeOK, Requests
    <2>2. req[p].val - clock \in Int
      BY <2>1 DEF None
    <2> QED
      BY <1>2, <2>1, <2>2, EntryType DEF FillCooldown, KeyOK
  <1>3. ASSUME NEW p \in Procs, SetCooldown(p) PROVE KeyOK'
    <2>1. req[p].val \in Nat \cup {None} /\ Cooldown \in Int
      BY EconomyAssumption DEF TypeOK, Requests
    <2> QED
      BY <1>3, <2>1, EntryType DEF SetCooldown, KeyOK
  <1>4. CASE Crash
    BY <1>4 DEF Crash, NoEntry, TypeOK, KeyOK
  <1>5. ASSUME NEW p \in Procs, PullStep(p) PROVE KeyOK'
    BY <1>1, <1>2, <1>3, <1>5
    DEF PullStep, CheckHit, CheckMiss, ReadCooldown, PullBegin, PullGateReject, Rollback,
        PullCommit
  <1>6. ASSUME NEW p \in Procs, VowStep(p) PROVE KeyOK'
    BY <1>1, <1>6 DEF VowStep, VowStart, VowReload, VowCommit
  <1>7. ASSUME NEW p \in Procs, PlayerStep(p) PROVE KeyOK'
    BY <1>1, <1>7
    DEF PlayerStep, Sync, GetState, Login, InsertSlot, SampleNow, ApplyGrowthTx, ResetAnchor
  <1> QED
    BY <1>1, <1>4, <1>5, <1>6, <1>7 DEF Next, Abort, Tick, StepBack, vars

LEMMA ConnType == TypeOK /\ [Next]_vars => ConnOK'
  <1> SUFFICES ASSUME TypeOK, [Next]_vars PROVE ConnOK'
    OBVIOUS
  <1>1. CASE UNCHANGED conn \/ conn' = None \/ conn' \in Procs
    BY <1>1 DEF TypeOK, ConnOK
  <1>2. ASSUME NEW p \in Procs, PullStep(p) PROVE ConnOK'
    BY <1>1, <1>2
    DEF PullStep, CheckHit, CheckMiss, ReadCooldown, FillCooldown, PullBegin,
        PullGateReject, Rollback, SetCooldown, PullCommit
  <1>3. ASSUME NEW p \in Procs, VowStep(p) PROVE ConnOK'
    BY <1>1, <1>3 DEF VowStep, VowStart, VowReload, VowCommit
  <1>4. ASSUME NEW p \in Procs, PlayerStep(p) PROVE ConnOK'
    BY <1>1, <1>4
    DEF PlayerStep, Sync, GetState, Login, InsertSlot, SampleNow, ApplyGrowthTx, ResetAnchor
  <1> QED
    BY <1>1, <1>2, <1>3, <1>4 DEF Next, Abort, Crash, Tick, StepBack, vars

\* A request that starts, moves on or ends is again a request.
LEMMA ReqUpdate ==
    ASSUME ReqOK, NEW p \in Procs, NEW r \in Requests, req' = [req EXCEPT ![p] = r]
    PROVE  ReqOK'
  BY DEF ReqOK

LEMMA DoneType == ASSUME ReqOK, NEW p \in Procs, Done(p) PROVE ReqOK'
  BY IdleType, ReqUpdate DEF Done

LEMMA StartType ==
    ASSUME ReqOK, NEW p \in Procs, NEW k \in RequestKinds, NEW pc \in PCs, Start(p, k, pc)
    PROVE  ReqOK'
  <1>1. [Idle EXCEPT !.pc = pc, !.kind = k] \in Requests
    BY IdleType DEF Requests
  <1> QED
    BY <1>1, ReqUpdate DEF Start

LEMMA GotoType ==
    ASSUME ReqOK, NEW p \in Procs, NEW pc \in PCs, Goto(p, pc)
    PROVE  ReqOK'
  <1>1. req[p] \in Requests
    BY DEF ReqOK
  <1>2. [req[p] EXCEPT !.pc = pc] \in Requests
    BY <1>1 DEF Requests
  <1>3. req' = [req EXCEPT ![p] = [req[p] EXCEPT !.pc = pc]]
    BY DEF Goto
  <1> QED
    BY <1>2, <1>3, ReqUpdate

LEMMA AnsweredType ==
    ASSUME ReqOK, NEW p \in Procs, NEW at, Answered(p, at)
    PROVE  ReqOK'
  <1>1. [Idle EXCEPT !.pc = "begin", !.kind = "pull"] \in Requests
    BY IdleType DEF Requests, PCs, RequestKinds
  <1> QED
    BY <1>1, ReqUpdate, DoneType DEF Answered

LEMMA ReqType == TypeOK /\ [Next]_vars => ReqOK'
  <1> SUFFICES ASSUME TypeOK, [Next]_vars PROVE ReqOK'
    OBVIOUS
  <1> ReqOK
    BY DEF TypeOK, ReqOK
  <1>1. ASSUME NEW p \in Procs, PullStep(p) PROVE ReqOK'
    <2>1. CASE CheckHit(p)
      BY <2>1, StartType DEF CheckHit, PCs, RequestKinds
    <2>2. CASE CheckMiss(p)
      BY <2>2, StartType DEF CheckMiss, PCs, RequestKinds
    <2>3. CASE ReadCooldown(p)
      <3>1. CASE CoolingDown(nextGacha)
        BY <2>3, <3>1 DEF ReadCooldown, TypeOK, ReqOK, Requests, PCs
      <3>2. CASE ~CoolingDown(nextGacha)
        BY <2>3, <3>2, AnsweredType DEF ReadCooldown
      <3> QED
        BY <3>1, <3>2
    <2>4. CASE FillCooldown(p)
      BY <2>4, AnsweredType DEF FillCooldown
    <2>5. CASE PullBegin(p)
      <3>1. clock \in Nat /\ ticks \in Nat
        BY DEF TypeOK
      <3>2. req[p] \in Requests
        BY DEF ReqOK
      <3>3. [req[p] EXCEPT !.pc = "tx", !.now = clock, !.at = ticks] \in Requests
        BY <3>1, <3>2 DEF Requests, PCs
      <3>4. req' = [req EXCEPT ![p] = [req[p] EXCEPT !.pc = "tx", !.now = clock, !.at = ticks]]
        BY <2>5 DEF PullBegin, ReqOK
      <3> QED
        BY <3>3, <3>4, ReqUpdate
    <2>6. CASE PullGateReject(p)
      <3>1. [Idle EXCEPT !.pc = "read", !.kind = "status"] \in Requests
        BY IdleType DEF Requests, PCs, RequestKinds
      <3> QED
        BY <2>6, <3>1, ReqUpdate, DoneType DEF PullGateReject
    <2>7. CASE Rollback(p)
      BY <2>7, DoneType DEF Rollback
    <2>8. CASE SetCooldown(p)
      BY <2>8, DoneType DEF SetCooldown
    <2>9. ASSUME NEW s \in Slots, NEW item \in Items, PullCommit(p, s, item)
          PROVE  ReqOK'
      <3>1. req[p].now + Cooldown \in Nat
        BY EconomyAssumption DEF TypeOK, Requests
      <3>2. [Idle EXCEPT !.pc = "cool", !.kind = "pull", !.val = req[p].now + Cooldown]
              \in Requests
        BY <3>1, IdleType DEF Requests, PCs, RequestKinds
      <3> QED
        BY <2>9, <3>2, ReqUpdate DEF PullCommit
    <2> QED
      BY <1>1, <2>1, <2>2, <2>3, <2>4, <2>5, <2>6, <2>7, <2>8, <2>9 DEF PullStep
  <1>2. ASSUME NEW p \in Procs, VowStep(p) PROVE ReqOK'
    BY <1>2, StartType, GotoType, DoneType
    DEF VowStep, VowStart, VowReload, VowCommit, PCs, RequestKinds
  <1>3. ASSUME NEW p \in Procs, PlayerStep(p) PROVE ReqOK'
    <2>1. CASE Sync(p)
      BY <2>1, StartType DEF Sync, PCs, RequestKinds
    <2>2. CASE GetState(p)
      BY <2>2, StartType DEF GetState, PCs, RequestKinds
    <2>3. CASE Login(p)
      BY <2>3, StartType DEF Login, PCs, RequestKinds
    <2>4. CASE InsertSlot(p)
      <3>1. PICK i \in Slots, pc \in PCs : req' = [req EXCEPT ![p].i = i, ![p].pc = pc]
        <4>1. req[p].i \in Slots
          BY DEF ReqOK, Requests
        <4>2. (IF req[p].i + 1 = SlotCount THEN 0 ELSE req[p].i + 1) \in Slots
          BY <4>1, CairnAssumption DEF Slots
        <4> QED
          BY <2>4, <4>2 DEF InsertSlot, PCs
      <3>2. req[p] \in Requests
        BY DEF ReqOK
      <3>3. [req[p] EXCEPT !.i = i, !.pc = pc] \in Requests
        BY <3>2 DEF Requests
      <3>4. req' = [req EXCEPT ![p] = [req[p] EXCEPT !.i = i, !.pc = pc]]
        BY <3>1
      <3> QED
        BY <3>3, <3>4, ReqUpdate
    <2>5. CASE SampleNow(p)
      <3>1. clock \in Nat
        BY DEF TypeOK
      <3>2. req[p] \in Requests
        BY DEF ReqOK
      <3>3. [req[p] EXCEPT !.pc = "grow", !.now = clock] \in Requests
        BY <3>1, <3>2 DEF Requests, PCs
      <3>4. req' = [req EXCEPT ![p] = [req[p] EXCEPT !.pc = "grow", !.now = clock]]
        BY <2>5 DEF SampleNow
      <3> QED
        BY <3>3, <3>4, ReqUpdate
    <2>6. CASE ApplyGrowthTx(p)
      BY <2>6, DoneType DEF ApplyGrowthTx
    <2>7. CASE ResetAnchor(p)
      BY <2>7, DoneType DEF ResetAnchor
    <2> QED
      BY <1>3, <2>1, <2>2, <2>3, <2>4, <2>5, <2>6, <2>7 DEF PlayerStep
  <1>4. ASSUME NEW p \in Procs, Abort(p) PROVE ReqOK'
    BY <1>4, DoneType DEF Abort
  <1>5. CASE Crash
    BY <1>5, IdleType DEF Crash, ReqOK
  <1>6. CASE UNCHANGED req
    BY <1>6 DEF ReqOK
  <1> QED
    BY <1>1, <1>2, <1>3, <1>4, <1>5, <1>6 DEF Next, Tick, StepBack, vars

LEMMA TypeStep == TypeOK /\ [Next]_vars => TypeOK'
  BY RowsType, KeyType, ConnType, ReqType DEF TypeOK, RowsOK, KeyOK, ConnOK, ReqOK

\* Type correctness of every behaviour of the economy, for any number of
\* requests, slots and items: the balance stays a natural number, so a purchase
\* never overdraws it, and the wall clock model is consistent.
THEOREM TypeCorrect == Spec => []TypeOK
  <1>1. TypeOK /\ [Next]_vars => TypeOK'
    BY TypeStep
  <1> QED
    BY <1>1, InitType, PTL DEF Spec

----------------------------------------------------------------------------
(* The wallet. *)

LEMMA WalletInit == Init => WalletLedger
  BY EconomyAssumption DEF Init, WalletLedger

LEMMA WalletStep == TypeOK /\ WalletLedger /\ [Next]_vars => WalletLedger'
  <1> SUFFICES ASSUME TypeOK, WalletLedger, [Next]_vars PROVE WalletLedger'
    OBVIOUS
  <1> TypeOK'
    BY TypeStep
  <1> DEFINE paid == PullCost * pulls
  <1>0. paid \in Nat /\ PullCost * (pulls + 1) = paid + PullCost /\ Accrued \in Nat
    BY AccruedType, EconomyAssumption DEF TypeOK
  <1>1. CASE UNCHANGED <<pts, banked, pulls, vowSpent>>
    BY <1>1 DEF WalletLedger
  <1>2. ASSUME NEW p \in Procs, NEW s \in Slots, NEW item \in Items, PullCommit(p, s, item)
        PROVE  WalletLedger'
    <2>1. AccrueAndPay(PullCost) /\ pulls' = pulls + 1 /\ vowSpent' = vowSpent
      BY <1>2 DEF PullCommit
    <2>2. PullCost * pulls' = paid + PullCost
      BY <1>0, <2>1
    <2> HIDE DEF paid
    <2>3. pts = banked - paid - vowSpent
      BY DEF WalletLedger, paid
    <2> QED
      BY <1>0, <2>1, <2>2, <2>3, EconomyAssumption DEF AccrueAndPay, WalletLedger, TypeOK
  <1>3. ASSUME NEW p \in Procs, NEW m \in Materials, NEW reward \in Items,
               VowCommit(p, m, reward)
        PROVE  WalletLedger'
    <2>1. PICK cost \in Charges : AccrueAndPay(cost) /\ vowSpent' = vowSpent + cost
      BY <1>3 DEF VowCommit
    <2>2. cost \in Nat /\ pulls' = pulls
      BY <1>3, EconomyAssumption DEF VowCommit, Charges, gacha
    <2>3. pts = banked - paid - vowSpent /\ PullCost * pulls' = paid
      BY <2>2 DEF WalletLedger
    <2> HIDE DEF paid
    <2> QED
      BY <1>0, <2>1, <2>2, <2>3 DEF AccrueAndPay, WalletLedger, TypeOK
  <1>4. ASSUME NEW p \in Procs, Sync(p) PROVE WalletLedger'
    <2>1. AccrueAndPay(0) /\ UNCHANGED <<pulls, vowSpent>>
      BY <1>4 DEF Sync, gacha, goods
    <2>2. pts = banked - paid - vowSpent /\ PullCost * pulls' = paid
      BY <2>1 DEF WalletLedger
    <2> HIDE DEF paid
    <2> QED
      BY <1>0, <2>1, <2>2 DEF AccrueAndPay, WalletLedger, TypeOK
  <1>5. ASSUME NEW p \in Procs, InsertSlot(p) PROVE WalletLedger'
    BY <1>1, <1>5 DEF InsertSlot, wallet, gacha, goods
  <1>6. ASSUME NEW p \in Procs, ApplyGrowthTx(p) PROVE WalletLedger'
    BY <1>1, <1>6 DEF ApplyGrowthTx, wallet, gacha, goods
  <1>7. ASSUME NEW p \in Procs, ResetAnchor(p) PROVE WalletLedger'
    BY <1>1, <1>7 DEF ResetAnchor, gacha, goods
  <1>8. CASE Tick \/ StepBack \/ UNCHANGED <<time, db>>
    BY <1>1, <1>8 DEF Tick, StepBack, db, wallet, gacha, goods
  <1> QED
    BY <1>2, <1>3, <1>4, <1>5, <1>6, <1>7, <1>8, RowSteps DEF RowStep

\* Whatever pulls, vows and syncs interleave, roll back or crash, the balance is
\* what was accrued less what committed purchases cost, and never negative.
THEOREM WalletCorrect == Spec => []WalletLedger
  <1>1. TypeOK /\ WalletLedger /\ [Next]_vars => WalletLedger'
    BY WalletStep
  <1> QED
    BY <1>1, WalletInit, TypeCorrect, PTL DEF Spec

----------------------------------------------------------------------------
(* Accrual.  The seconds that the next accrual would credit count as if    *)
(* they were credited already: that sum never outgrows the time.           *)

AccrualInv == banked + Accrued <= Rate * ticks

LEMMA AccrualInit == Init => AccrualInv
  BY EconomyAssumption DEF Init, AccrualInv, Accrued

\* Once last_sync_at is the present, nothing is left to credit.
LEMMA NothingPending == TypeOK' /\ lastSync' = clock' => Accrued' = 0
  <1> SUFFICES ASSUME TypeOK', lastSync' = clock' PROVE Accrued' = 0
    OBVIOUS
  <1>1. ~(clock' > lastSync') /\ Rate * 0 = 0
    BY EconomyAssumption DEF TypeOK
  <1> QED
    BY <1>1 DEF Accrued

LEMMA PayAccrues ==
    ASSUME TypeOK, TypeOK', AccrualInv, NEW cost \in Nat, AccrueAndPay(cost), UNCHANGED time
    PROVE  AccrualInv'
  <1>1. banked' = banked + Accrued /\ lastSync' = clock' /\ ticks' = ticks
    BY DEF AccrueAndPay, time
  <1>2. Accrued' = 0
    BY <1>1, NothingPending
  <1>3. Rate * ticks \in Nat /\ Accrued \in Nat
    BY AccruedType, EconomyAssumption DEF TypeOK
  <1> QED
    BY <1>1, <1>2, <1>3 DEF AccrualInv, TypeOK

LEMMA AccrualStep == TypeOK /\ AccrualInv /\ [Next]_vars => AccrualInv'
  <1> SUFFICES ASSUME TypeOK, AccrualInv, [Next]_vars PROVE AccrualInv'
    OBVIOUS
  <1> TypeOK'
    BY TypeStep
  <1>1. CASE UNCHANGED <<time, wallet>>
    BY <1>1 DEF AccrualInv, Accrued, time, wallet
  <1>2. ASSUME NEW p \in Procs, NEW s \in Slots, NEW item \in Items, PullCommit(p, s, item)
        PROVE  AccrualInv'
    BY <1>2, PayAccrues, EconomyAssumption DEF PullCommit
  <1>3. ASSUME NEW p \in Procs, NEW m \in Materials, NEW reward \in Items,
               VowCommit(p, m, reward)
        PROVE  AccrualInv'
    <2>1. PICK cost \in Charges : AccrueAndPay(cost)
      BY <1>3 DEF VowCommit
    <2> QED
      BY <1>3, <2>1, PayAccrues, EconomyAssumption DEF VowCommit, Charges
  <1>4. ASSUME NEW p \in Procs, Sync(p) PROVE AccrualInv'
    BY <1>4, PayAccrues DEF Sync
  <1>5. ASSUME NEW p \in Procs, InsertSlot(p) PROVE AccrualInv'
    BY <1>1, <1>5 DEF InsertSlot
  <1>6. ASSUME NEW p \in Procs, ApplyGrowthTx(p) PROVE AccrualInv'
    BY <1>1, <1>6 DEF ApplyGrowthTx
  <1>7. ASSUME NEW p \in Procs, ResetAnchor(p) PROVE AccrualInv'
    <2>1. lastSync' = clock' /\ banked' = banked /\ ticks' = ticks
      BY <1>7 DEF ResetAnchor, time
    <2>2. Accrued' = 0 /\ Accrued \in Nat /\ Rate * ticks \in Nat
      BY <2>1, NothingPending, AccruedType, EconomyAssumption DEF TypeOK
    <2> QED
      BY <2>1, <2>2 DEF AccrualInv, TypeOK
  <1>8. CASE Tick
    <2>1. /\ ticks' = ticks + 1 /\ clock' = clock + 1
          /\ banked' = banked /\ lastSync' = lastSync
      BY <1>8 DEF Tick, db, wallet
    <2>2. Rate * (ticks + 1) = Rate * ticks + Rate /\ Rate * ticks \in Nat
      BY EconomyAssumption DEF TypeOK
    <2>3. Accrued' <= Accrued + Rate /\ Accrued' \in Nat /\ Accrued \in Nat
      <3>1. CASE clock > lastSync
        <4>1. Accrued = Rate * (clock - lastSync) /\ Accrued' = Rate * ((clock - lastSync) + 1)
          BY <2>1, <3>1 DEF Accrued, TypeOK
        <4>2. clock - lastSync \in Nat
          BY <3>1 DEF TypeOK
        <4> QED
          BY <4>1, <4>2, EconomyAssumption
      <3>2. CASE ~(clock > lastSync)
        <4>1. Accrued = 0
          BY <3>2, EconomyAssumption DEF Accrued
        <4>2. (clock' > lastSync' <=> clock = lastSync) /\ (clock = lastSync => clock' - lastSync' = 1)
          BY <2>1, <3>2 DEF TypeOK
        <4>3. Accrued' = IF clock = lastSync THEN Rate * 1 ELSE Rate * 0
          BY <4>2 DEF Accrued
        <4>4. Rate * 1 = Rate /\ Rate * 0 = 0
          BY EconomyAssumption
        <4>5. Accrued' \in {0, Rate}
          BY <4>3, <4>4
        <4> QED
          BY <4>1, <4>5, EconomyAssumption
      <3> QED
        BY <3>1, <3>2
    <2>4. banked + Accrued <= Rate * ticks /\ banked \in Nat /\ Rate \in Nat
      BY EconomyAssumption DEF AccrualInv, TypeOK
    <2>5. banked + Accrued' <= Rate * ticks + Rate
      BY <2>2, <2>3, <2>4
    <2> QED
      BY <2>1, <2>2, <2>5 DEF AccrualInv
  <1>9. CASE StepBack
    <2>1. ticks' = ticks /\ clock' = clock - 1 /\ banked' = banked /\ lastSync' = lastSync
      BY <1>9 DEF StepBack, db, wallet
    <2>2. Accrued' <= Accrued /\ Accrued' \in Nat /\ Accrued \in Nat
      <3>1. CASE clock > lastSync
        <4>1. PICK x \in Nat : clock - lastSync = x + 1
          <5>1. (clock - lastSync) - 1 \in Nat
            BY <3>1 DEF TypeOK
          <5> QED
            BY <5>1 DEF TypeOK
        <4>2. Accrued = Rate * (x + 1)
          BY <3>1, <4>1 DEF Accrued
        <4>3. Accrued' = Rate * x
          <5>1. clock' - lastSync' = x /\ (clock' > lastSync' <=> x > 0) /\ Rate * 0 = 0
            BY <2>1, <4>1, EconomyAssumption DEF TypeOK
          <5> QED
            BY <5>1 DEF Accrued
        <4> QED
          BY <4>2, <4>3, EconomyAssumption
      <3>2. CASE ~(clock > lastSync)
        <4>1. ~(clock' > lastSync') /\ Rate * 0 = 0
          BY <2>1, <3>2, EconomyAssumption DEF TypeOK
        <4> QED
          BY <3>2, <4>1 DEF Accrued
      <3> QED
        BY <3>1, <3>2
    <2>3. banked + Accrued <= Rate * ticks /\ banked \in Nat /\ Rate * ticks \in Nat
      BY EconomyAssumption DEF AccrualInv, TypeOK
    <2>4. banked + Accrued' <= Rate * ticks
      BY <2>2, <2>3
    <2> QED
      BY <2>1, <2>4 DEF AccrualInv
  <1>10. CASE UNCHANGED <<time, db>>
    BY <1>1, <1>10 DEF db
  <1> QED
    BY <1>2, <1>3, <1>4, <1>5, <1>6, <1>7, <1>8, <1>9, <1>10, RowSteps DEF RowStep

\* However sync, pull, vow and login interleave and however often the wall clock
\* is set back, no second is credited twice.
THEOREM AccruedOnce == Spec => []NoDoubleAccrual
  <1>1. TypeOK /\ AccrualInv /\ [Next]_vars => AccrualInv'
    BY AccrualStep
  <1>2. TypeOK /\ AccrualInv => NoDoubleAccrual
    BY AccruedType, EconomyAssumption DEF AccrualInv, NoDoubleAccrual, TypeOK
  <1> QED
    BY <1>1, <1>2, AccrualInit, TypeCorrect, PTL DEF Spec

----------------------------------------------------------------------------
(* Layers.  LayerLedger is inductive: a claim takes exactly the MaxLayers  *)
(* layers of a complete slot, growth adds to rows and ledger alike.        *)

\* What one application of growth leaves in the slots agrees with the ledger.
LEMMA GrowLedger ==
    ASSUME TypeOK, LayerLedger, NEW p \in Procs,
           NEW g \in Growth(anchor, layers, req[p].now, clock), Grow(g), NEW s \in Slots
    PROVE  LET now == Grown(layers, g.added)[s]
           IN  /\ grown'[s] = MaxLayers * claims[s] + (IF now = None THEN 0 ELSE now)
               /\ now <= MaxLayers
               /\ now \in Nat \cup {None}
  <1> DEFINE a == g.added[s]
             m == MaxLayers * claims[s]
  <1>1. req[p].now \in Nat /\ clock \in Nat /\ anchor \in Nat \cup {None}
        /\ layers \in [Slots -> Nat \cup {None}] /\ grown \in [Slots -> Nat]
    BY DEF TypeOK, Requests
  <1>2. /\ a \in Nat
        /\ layers[s] = None => a = 0
        /\ a > 0 => layers[s] + a <= MaxLayers
    <2>1. /\ g.added \in [Slots -> Nat]
          /\ \A t \in Slots : layers[t] = None => g.added[t] = 0
          /\ \A t \in Slots : g.added[t] > 0 => layers[t] + g.added[t] <= MaxLayers
      BY <1>1, GrowthType
    <2> QED
      BY <2>1
  <1>3. /\ m \in Nat /\ layers[s] <= MaxLayers
        /\ grown[s] = m + (IF layers[s] = None THEN 0 ELSE layers[s])
    <2>1. claims[s] \in Nat /\ MaxLayers \in Nat
      BY CairnAssumption DEF TypeOK
    <2> QED
      BY <2>1 DEF LayerLedger
  <1>4. grown'[s] = grown[s] + a /\ Grown(layers, g.added)[s] = layers[s] + a
    BY DEF Grow, Grown
  <1>5. layers[s] \in Nat \cup {None} /\ grown[s] \in Nat
    BY <1>1
  <1> HIDE DEF a, m
  <1>6. /\ grown'[s] = m + (IF layers[s] + a = None THEN 0 ELSE layers[s] + a)
        /\ layers[s] + a <= MaxLayers /\ layers[s] + a \in Nat \cup {None}
    BY <1>2, <1>3, <1>4, <1>5, CairnAssumption DEF None
  <1> QED
    BY <1>4, <1>6 DEF m

LEMMA LayerInit == Init => LayerLedger
  BY CairnAssumption DEF Init, LayerLedger, None

LEMMA LayerStep == TypeOK /\ LayerLedger /\ [Next]_vars => LayerLedger'
  <1> SUFFICES ASSUME TypeOK, LayerLedger, [Next]_vars PROVE LayerLedger'
    OBVIOUS
  <1>1. CASE UNCHANGED <<layers, grown, claims>>
    BY <1>1 DEF LayerLedger
  <1>2. ASSUME NEW p \in Procs, NEW s \in Slots, NEW item \in Items, PullCommit(p, s, item)
        PROVE  LayerLedger'
    <2>1. PICK g \in Growth(anchor, layers, req[p].now, clock) :
             /\ Complete(Grown(layers, g.added), s)
             /\ layers' = [Grown(layers, g.added) EXCEPT ![s] = 0]
             /\ Grow(g)
      BY <1>2 DEF PullCommit
    <2>2. claims' = [claims EXCEPT ![s] = @ + 1] /\ claims \in [Slots -> Nat]
      BY <1>2 DEF PullCommit, TypeOK
    <2>3. SUFFICES ASSUME NEW t \in Slots
                   PROVE  /\ grown'[t] = MaxLayers * claims'[t]
                                          + (IF layers'[t] = None THEN 0 ELSE layers'[t])
                          /\ layers'[t] <= MaxLayers
      BY DEF LayerLedger
    <2> DEFINE now == Grown(layers, g.added)[t]
    <2>4. /\ grown'[t] = MaxLayers * claims[t] + (IF now = None THEN 0 ELSE now)
          /\ now <= MaxLayers /\ now \in Nat \cup {None}
      BY <2>1, GrowLedger
    <2>5. CASE t = s
      <3>1. now = MaxLayers /\ now # None
        BY <2>1, <2>4, <2>5, CairnAssumption DEF Complete, None
      <3>2. layers'[t] = 0 /\ claims'[t] = claims[t] + 1
        BY <2>1, <2>2, <2>5 DEF Grown
      <3>3. MaxLayers * (claims[t] + 1) = MaxLayers * claims[t] + MaxLayers
            /\ MaxLayers * claims[t] \in Nat
        BY <2>2, CairnAssumption
      <3> QED
        BY <2>4, <3>1, <3>2, <3>3, CairnAssumption DEF None
    <2>6. CASE t # s
      <3>1. layers'[t] = now /\ claims'[t] = claims[t]
        BY <2>1, <2>2, <2>6 DEF Grown
      <3> QED
        BY <2>4, <3>1
    <2> QED
      BY <2>5, <2>6
  <1>3. ASSUME NEW p \in Procs, NEW m \in Materials, NEW reward \in Items,
               VowCommit(p, m, reward)
        PROVE  LayerLedger'
    BY <1>1, <1>3 DEF VowCommit, cairn, gacha
  <1>4. ASSUME NEW p \in Procs, Sync(p) PROVE LayerLedger'
    BY <1>1, <1>4 DEF Sync, cairn, gacha
  <1>5. ASSUME NEW p \in Procs, InsertSlot(p) PROVE LayerLedger'
    <2>1. layers' = [layers EXCEPT ![req[p].i] = IF @ = None THEN 0 ELSE @]
          /\ UNCHANGED <<grown, claims>>
      BY <1>5 DEF InsertSlot, gacha
    <2>2. layers \in [Slots -> Nat \cup {None}]
      BY DEF TypeOK
    <2> QED
      BY <2>1, <2>2, CairnAssumption DEF LayerLedger, None
  <1>6. ASSUME NEW p \in Procs, ApplyGrowthTx(p) PROVE LayerLedger'
    <2>1. PICK g \in Growth(anchor, layers, req[p].now, clock) :
             layers' = Grown(layers, g.added) /\ Grow(g)
      BY <1>6 DEF ApplyGrowthTx
    <2>2. claims' = claims
      BY <1>6 DEF ApplyGrowthTx, gacha
    <2> QED
      BY <2>1, <2>2, GrowLedger DEF LayerLedger
  <1>7. ASSUME NEW p \in Procs, ResetAnchor(p) PROVE LayerLedger'
    BY <1>1, <1>7 DEF ResetAnchor, gacha
  <1>8. CASE Tick \/ StepBack \/ UNCHANGED <<time, db>>
    BY <1>1, <1>8 DEF Tick, StepBack, db, cairn, gacha
  <1> QED
    BY <1>2, <1>3, <1>4, <1>5, <1>6, <1>7, <1>8, RowSteps DEF RowStep

\* No slot passes MaxLayers, and every layer ever grown is in its slot or paid
\* for one of its pulls, whichever requests apply growth concurrently.
THEOREM LayersConserved == Spec => []LayerLedger
  <1>1. TypeOK /\ LayerLedger /\ [Next]_vars => LayerLedger'
    BY LayerStep
  <1> QED
    BY <1>1, LayerInit, TypeCorrect, PTL DEF Spec

----------------------------------------------------------------------------
(* The cooldown.  Time that passed since the last pull's gate is at least  *)
(* what the wall clock shows since then; the request that holds the        *)
(* connection took both readings together, and nobody else can move the    *)
(* row while it does.                                                      *)

SinceLast(now, at) == nextGacha # None => at - lastPull >= now - (nextGacha - Cooldown)

Holder(p) ==
    At(p, "tx") => /\ conn = p
                   /\ ticks - req[p].at >= clock - req[p].now
                   /\ SinceLast(req[p].now, req[p].at)

SpacingInv ==
    /\ nextGacha = None <=> lastPull = None
    /\ SinceLast(clock, ticks)
    /\ \A p \in Procs : Holder(p)

LEMMA SpacingInit == Init => SpacingInv
  BY DEF Init, SpacingInv, SinceLast, Holder, At, Idle

\* A step that leaves the cooldown row alone and lets no new request into a
\* transaction.
LEMMA SpacingQuiet ==
    ASSUME TypeOK, SpacingInv, UNCHANGED <<time, nextGacha, lastPull>>,
           \A p \in Procs : At(p, "tx")' => conn' = conn /\ req'[p] = req[p]
    PROVE  SpacingInv'
  BY DEF SpacingInv, SinceLast, Holder, At, time

\* A request that does not hold the connection changes only its own place.
LEMMA SpacingOwnStep ==
    ASSUME TypeOK, SpacingInv, NEW p \in Procs, UNCHANGED <<time, nextGacha, lastPull, conn>>,
           NEW r, req' = [req EXCEPT ![p] = r], r.pc # "tx"
    PROVE  SpacingInv'
  BY SpacingQuiet DEF At, TypeOK

LEMMA SpacingDone ==
    ASSUME TypeOK, SpacingInv, NEW p \in Procs, UNCHANGED <<time, nextGacha, lastPull, conn>>,
           Done(p)
    PROVE  SpacingInv'
  <1>1. req' = [req EXCEPT ![p] = Idle] /\ Idle.pc # "tx"
    BY DEF Done, Idle
  <1> QED
    BY <1>1, SpacingOwnStep

LEMMA SpacingStart ==
    ASSUME TypeOK, SpacingInv, NEW p \in Procs, UNCHANGED <<time, nextGacha, lastPull, conn>>,
           NEW k, NEW pc, pc # "tx", Start(p, k, pc)
    PROVE  SpacingInv'
  <1> DEFINE r == [Idle EXCEPT !.pc = pc, !.kind = k]
  <1>1. req' = [req EXCEPT ![p] = r]
    BY DEF Start
  <1>2. r.pc # "tx"
    BY DEF Idle
  <1> HIDE DEF r
  <1> QED
    BY <1>1, <1>2, SpacingOwnStep

LEMMA SpacingAnswered ==
    ASSUME TypeOK, SpacingInv, NEW p \in Procs, UNCHANGED <<time, nextGacha, lastPull, conn>>,
           NEW at, Answered(p, at)
    PROVE  SpacingInv'
  <1> DEFINE r == [Idle EXCEPT !.pc = "begin", !.kind = "pull"]
  <1>1. Done(p) \/ req' = [req EXCEPT ![p] = r]
    BY DEF Answered
  <1>2. r.pc # "tx"
    BY DEF Idle
  <1> HIDE DEF r
  <1> QED
    BY <1>1, <1>2, SpacingOwnStep, SpacingDone

\* A request that leaves its transaction takes no other with it.
LEMMA SpacingLeave ==
    ASSUME TypeOK, SpacingInv, NEW p \in Procs, UNCHANGED <<time, nextGacha, lastPull>>,
           At(p, "tx") \/ ConnFree, conn' = None,
           NEW r, req' = [req EXCEPT ![p] = r], r.pc # "tx"
    PROVE  SpacingInv'
  <1>1. ASSUME NEW q \in Procs, At(q, "tx")' PROVE conn' = conn /\ req'[q] = req[q]
    <2>1. q # p /\ At(q, "tx") /\ req'[q] = req[q]
      BY <1>1 DEF At, TypeOK
    <2>2. conn = q /\ q # None
      BY <2>1, EconomyAssumption DEF SpacingInv, Holder
    <2> QED
      BY <2>1, <2>2 DEF SpacingInv, Holder, ConnFree
  <1> QED
    BY <1>1, SpacingQuiet

LEMMA SpacingPull ==
    ASSUME TypeOK, SpacingInv, NEW p \in Procs, PullStep(p)
    PROVE  SpacingInv'
  <1>1. CASE CheckHit(p)
    BY <1>1, SpacingStart DEF CheckHit, db, gacha
  <1>2. CASE CheckMiss(p)
    BY <1>2, SpacingStart DEF CheckMiss, db, gacha
  <1>3. CASE ReadCooldown(p)
    <2>1. CASE CoolingDown(nextGacha)
      <3>1. req' = [req EXCEPT ![p] = [req[p] EXCEPT !.pc = "fill", !.val = nextGacha]]
        BY <1>3, <2>1 DEF ReadCooldown, TypeOK
      <3>2. [req[p] EXCEPT !.pc = "fill", !.val = nextGacha].pc # "tx"
        BY DEF TypeOK, Requests
      <3> QED
        BY <1>3, <3>1, <3>2, SpacingOwnStep DEF ReadCooldown, db, gacha
    <2>2. CASE ~CoolingDown(nextGacha)
      BY <1>3, <2>2, SpacingAnswered DEF ReadCooldown, db, gacha
    <2> QED
      BY <2>1, <2>2
  <1>4. CASE FillCooldown(p)
    BY <1>4, SpacingAnswered DEF FillCooldown, db, gacha
  <1>5. CASE PullBegin(p)
    <2>1. /\ conn = None /\ conn' = p
          /\ req' = [req EXCEPT ![p] = [req[p] EXCEPT !.pc = "tx", !.now = clock, !.at = ticks]]
          /\ UNCHANGED <<ticks, clock, nextGacha, lastPull>>
      BY <1>5 DEF PullBegin, ConnFree, db, gacha, time, TypeOK
    <2>2. ASSUME NEW q \in Procs, q # p, At(q, "tx")' PROVE FALSE
      <3>1. At(q, "tx")
        BY <2>1, <2>2 DEF At, TypeOK
      <3> QED
        BY <2>1, <3>1, EconomyAssumption DEF SpacingInv, Holder
    <2>3. Holder(p)'
      <3>1. req'[p].now = clock /\ req'[p].at = ticks
        BY <2>1 DEF TypeOK, Requests
      <3> QED
        BY <2>1, <3>1 DEF SpacingInv, SinceLast, Holder, TypeOK
    <2> QED
      BY <2>1, <2>2, <2>3 DEF SpacingInv, SinceLast, Holder
  <1>6. CASE PullGateReject(p)
    <2> DEFINE r == IF Hit THEN Idle ELSE [Idle EXCEPT !.pc = "read", !.kind = "status"]
    <2>1. req' = [req EXCEPT ![p] = r]
      BY <1>6 DEF PullGateReject, Done
    <2>2. r.pc # "tx"
      BY DEF Idle
    <2>3. At(p, "tx") /\ conn' = None /\ UNCHANGED <<time, nextGacha, lastPull>>
      BY <1>6 DEF PullGateReject, db, gacha
    <2> HIDE DEF r
    <2> QED
      BY <2>1, <2>2, <2>3, SpacingLeave
  <1>7. CASE Rollback(p)
    <2>1. req' = [req EXCEPT ![p] = Idle] /\ Idle.pc # "tx"
      BY <1>7 DEF Rollback, Done, Idle
    <2>2. /\ At(p, "tx") \/ ConnFree
          /\ conn' = None /\ UNCHANGED <<time, nextGacha, lastPull>>
      BY <1>7 DEF Rollback, db, gacha
    <2> QED
      BY <2>1, <2>2, SpacingLeave
  <1>8. CASE SetCooldown(p)
    BY <1>8, SpacingDone DEF SetCooldown, db, gacha
  <1>9. ASSUME NEW s \in Slots, NEW item \in Items, PullCommit(p, s, item)
        PROVE  SpacingInv'
    <2>1. /\ At(p, "tx") /\ conn' = None
          /\ nextGacha' = req[p].now + Cooldown /\ lastPull' = req[p].at
          /\ req' = [req EXCEPT ![p] = [Idle EXCEPT !.pc = "cool", !.kind = "pull",
                                              !.val = req[p].now + Cooldown]]
          /\ UNCHANGED <<ticks, clock>>
      BY <1>9 DEF PullCommit, time
    <2>2. /\ req[p].now \in Nat /\ req[p].at \in Nat /\ Cooldown \in Nat
          /\ ticks \in Nat /\ clock \in Nat
      BY EconomyAssumption DEF TypeOK, Requests
    <2>3. ticks - req[p].at >= clock - req[p].now
      BY <2>1 DEF SpacingInv, Holder
    <2>4. SinceLast(clock, ticks)' /\ nextGacha' # None /\ lastPull' # None
      BY <2>1, <2>2, <2>3 DEF SinceLast, None
    <2>5. ASSUME NEW q \in Procs, At(q, "tx")' PROVE FALSE
      <3>1. q # p /\ At(q, "tx")
        BY <2>1, <2>5 DEF At, TypeOK, Idle
      <3> QED
        BY <2>1, <3>1 DEF SpacingInv, Holder
    <2> QED
      BY <2>4, <2>5 DEF SpacingInv, Holder
  <1> QED
    BY <1>1, <1>2, <1>3, <1>4, <1>5, <1>6, <1>7, <1>8, <1>9 DEF PullStep

LEMMA SpacingStep == TypeOK /\ SpacingInv /\ [Next]_vars => SpacingInv'
  <1> SUFFICES ASSUME TypeOK, SpacingInv, [Next]_vars PROVE SpacingInv'
    OBVIOUS
  <1>1. ASSUME NEW p \in Procs, PullStep(p) PROVE SpacingInv'
    BY <1>1, SpacingPull
  <1>2. ASSUME NEW p \in Procs, VowStep(p) PROVE SpacingInv'
    <2>1. CASE VowStart(p)
      BY <2>1, SpacingStart DEF VowStart, db, gacha
    <2>2. CASE VowReload(p)
      BY <2>2, SpacingDone DEF VowReload, db, gacha
    <2>3. ASSUME NEW m \in Materials, NEW reward \in Items, VowCommit(p, m, reward)
          PROVE  SpacingInv'
      <3> DEFINE r == [req[p] EXCEPT !.pc = "reload"]
      <3>1. req' = [req EXCEPT ![p] = r] /\ r.pc # "tx"
        BY <2>3 DEF VowCommit, Goto, TypeOK, Requests
      <3>2. UNCHANGED <<time, nextGacha, lastPull, conn>>
        BY <2>3 DEF VowCommit, gacha
      <3> HIDE DEF r
      <3> QED
        BY <3>1, <3>2, SpacingOwnStep
    <2> QED
      BY <1>2, <2>1, <2>2, <2>3 DEF VowStep
  <1>3. ASSUME NEW p \in Procs, PlayerStep(p) PROVE SpacingInv'
    <2>1. CASE Sync(p)
      BY <2>1, SpacingStart DEF Sync, gacha
    <2>2. CASE GetState(p)
      BY <2>2, SpacingStart DEF GetState, db, gacha
    <2>3. CASE Login(p)
      BY <2>3, SpacingStart DEF Login, db, gacha
    <2>4. CASE InsertSlot(p)
      <3> DEFINE last == req[p].i + 1 = SlotCount
                 i == IF last THEN 0 ELSE req[p].i + 1
                 pc == IF ~last THEN "init"
                       ELSE IF req[p].kind = "state" THEN "sample" ELSE "reset"
                 r == [req[p] EXCEPT !.i = i, !.pc = pc]
      <3>1. req' = [req EXCEPT ![p] = [req[p] EXCEPT !.i = i, !.pc = pc]]
        BY <2>4 DEF InsertSlot, TypeOK
      <3>2. r.pc # "tx"
        <4>1. r.pc = pc
          BY DEF TypeOK, Requests
        <4> QED
          BY <4>1
      <3>3. UNCHANGED <<time, nextGacha, lastPull, conn>> /\ req' = [req EXCEPT ![p] = r]
        BY <2>4, <3>1 DEF InsertSlot, gacha
      <3> HIDE DEF r
      <3> QED
        BY <3>2, <3>3, SpacingOwnStep
    <2>5. CASE SampleNow(p)
      <3> DEFINE r == [req[p] EXCEPT !.pc = "grow", !.now = clock]
      <3>1. req' = [req EXCEPT ![p] = r] /\ r.pc # "tx"
        BY <2>5 DEF SampleNow, TypeOK, Requests
      <3>2. UNCHANGED <<time, nextGacha, lastPull, conn>>
        BY <2>5 DEF SampleNow, db, gacha
      <3> HIDE DEF r
      <3> QED
        BY <3>1, <3>2, SpacingOwnStep
    <2>6. CASE ApplyGrowthTx(p)
      BY <2>6, SpacingDone DEF ApplyGrowthTx, gacha
    <2>7. CASE ResetAnchor(p)
      BY <2>7, SpacingDone DEF ResetAnchor, gacha
    <2> QED
      BY <1>3, <2>1, <2>2, <2>3, <2>4, <2>5, <2>6, <2>7 DEF PlayerStep
  <1>4. ASSUME NEW p \in Procs, Abort(p) PROVE SpacingInv'
    BY <1>4, SpacingDone DEF Abort, db, gacha
  <1>5. CASE Crash
    <2>1. \A p \in Procs : ~At(p, "tx")'
      BY <1>5 DEF Crash, At, Idle
    <2> QED
      BY <1>5, <2>1, SpacingQuiet DEF Crash, db, gacha
  <1>6. CASE Tick \/ StepBack
    <2>1. /\ \/ ticks' = ticks + 1 /\ clock' = clock + 1
             \/ ticks' = ticks /\ clock' = clock - 1
          /\ UNCHANGED <<nextGacha, lastPull, conn, req>>
      BY <1>6 DEF Tick, StepBack, db, gacha
    <2>2. /\ ticks \in Nat /\ clock \in Nat /\ Cooldown \in Nat
          /\ nextGacha \in Nat \cup {None} /\ lastPull \in Nat \cup {None}
      BY EconomyAssumption DEF TypeOK
    <2>3. SinceLast(clock, ticks)'
      BY <2>1, <2>2 DEF SpacingInv, SinceLast, None
    <2>4. ASSUME NEW p \in Procs, At(p, "tx")' PROVE Holder(p)'
      <3>1. At(p, "tx") /\ Holder(p)
        BY <2>1, <2>4 DEF SpacingInv, At
      <3>2. req[p].now \in Nat /\ req[p].at \in Nat
        BY DEF TypeOK, Requests
      <3> QED
        BY <2>1, <2>2, <3>1, <3>2 DEF Holder, SinceLast
    <2> QED
      BY <2>1, <2>3, <2>4 DEF SpacingInv, SinceLast, Holder
  <1>7. CASE UNCHANGED vars
    BY <1>7, SpacingQuiet DEF vars, db, gacha
  <1> QED
    BY <1>1, <1>2, <1>3, <1>4, <1>5, <1>6, <1>7 DEF Next

\* The transaction's gate alone keeps committed pulls a cooldown apart in real
\* time: neither stale pre-checks, nor a stale or lost cache key, nor a restart,
\* nor a wall clock set back lets a second pull through early.
THEOREM PullsSpaced == Spec => PullSpacing
  <1>1. TypeOK /\ SpacingInv /\ [Next]_vars
          => [pulls' # pulls /\ lastPull # None => lastPull' - lastPull >= Cooldown]_vars
    <2> SUFFICES ASSUME TypeOK, SpacingInv, [Next]_vars, pulls' # pulls, lastPull # None
                 PROVE  lastPull' - lastPull >= Cooldown
      OBVIOUS
    <2>1. PICK p \in Procs, s \in Slots, item \in Items : PullCommit(p, s, item)
      BY RowSteps DEF RowStep, VowCommit, Sync, InsertSlot, ApplyGrowthTx, ResetAnchor,
                      Tick, StepBack, db, gacha
    <2>2. At(p, "tx") /\ GateOpen(p) /\ lastPull' = req[p].at
      BY <2>1 DEF PullCommit
    <2>3. nextGacha # None /\ nextGacha <= req[p].now
          /\ req[p].at - lastPull >= req[p].now - (nextGacha - Cooldown)
      BY <2>2 DEF SpacingInv, Holder, SinceLast, GateOpen
    <2> QED
      BY <2>2, <2>3, EconomyAssumption DEF TypeOK, Requests, None
  <1>2. TypeOK /\ SpacingInv /\ [Next]_vars => SpacingInv'
    BY SpacingStep
  <1> QED
    BY <1>1, <1>2, SpacingInit, TypeCorrect, PTL DEF Spec, PullSpacing

----------------------------------------------------------------------------
(* Charges. *)

\* Only a committed pull or vow lowers the balance, by being one purchase more:
\* accrual, rollbacks, crashes and a wall clock set back never do.
THEOREM ChargesOnlyPurchases == Spec => OnlyPurchasesCharge
  <1>1. TypeOK /\ [Next]_vars => [pts' < pts => pulls' + vows' = pulls + vows + 1]_vars
    <2> SUFFICES ASSUME TypeOK, [Next]_vars, pts' < pts
                 PROVE  pulls' + vows' = pulls + vows + 1
      OBVIOUS
    <2>1. ~UNCHANGED pts
      BY DEF TypeOK
    <2>2. ASSUME NEW p \in Procs, NEW s \in Slots, NEW item \in Items, PullCommit(p, s, item)
          PROVE  pulls' + vows' = pulls + vows + 1
      BY <2>2 DEF PullCommit, TypeOK
    <2>3. ASSUME NEW p \in Procs, NEW m \in Materials, NEW reward \in Items,
                 VowCommit(p, m, reward)
          PROVE  pulls' + vows' = pulls + vows + 1
      BY <2>3 DEF VowCommit, gacha, TypeOK
    <2>4. ASSUME NEW p \in Procs, Sync(p) PROVE FALSE
      BY <2>4, AccruedType DEF Sync, AccrueAndPay, TypeOK
    <2> QED
      BY <2>1, <2>2, <2>3, <2>4, RowSteps
      DEF RowStep, InsertSlot, ApplyGrowthTx, ResetAnchor, Tick, StepBack, db, wallet
  <1> QED
    BY <1>1, TypeCorrect, PTL DEF Spec, OnlyPurchasesCharge

----------------------------------------------------------------------------
(* The pace of growth.  As long as the wall clock was never set back, the  *)
(* windows consumed fit before the anchor, the anchor is not ahead of the  *)
(* clock, and no request carries a `now` from the future.                  *)

AnchorOK ==
    IF anchor = None THEN windows = 0 ELSE Interval * windows <= anchor /\ anchor <= clock

NowOK == \A p \in Procs : req[p].now <= clock

PaceInv == ticks = clock => AnchorOK /\ NowOK

LEMMA PaceInit == Init => PaceInv
  BY DEF Init, PaceInv, AnchorOK, NowOK, Idle

\* A step replaces the record of one request by one whose `now` is not ahead.
LEMMA NowUpdate ==
    ASSUME TypeOK, NowOK, clock' = clock, NEW p \in Procs, NEW r,
           req' = [req EXCEPT ![p] = r], r.now \in {0, clock, req[p].now}
    PROVE  NowOK'
  <1>1. clock \in Nat /\ req[p].now <= clock
    BY DEF NowOK, TypeOK
  <1>2. r.now <= clock
    BY <1>1
  <1>3. ASSUME NEW q \in Procs PROVE req'[q].now <= clock'
    <2>1. req'[q] = IF q = p THEN r ELSE req[q]
      BY DEF TypeOK
    <2> QED
      BY <1>2, <2>1 DEF NowOK
  <1> QED
    BY <1>3 DEF NowOK

LEMMA NowDone ==
    ASSUME TypeOK, NowOK, clock' = clock, NEW p \in Procs, Done(p)
    PROVE  NowOK'
  <1>1. req' = [req EXCEPT ![p] = Idle] /\ Idle.now = 0
    BY DEF Done, Idle
  <1> QED
    BY <1>1, NowUpdate

LEMMA NowStart ==
    ASSUME TypeOK, NowOK, clock' = clock, NEW p \in Procs, NEW k, NEW pc, Start(p, k, pc)
    PROVE  NowOK'
  <1> DEFINE r == [Idle EXCEPT !.pc = pc, !.kind = k]
  <1>1. req' = [req EXCEPT ![p] = r]
    BY DEF Start
  <1>2. r.now = 0
    BY DEF Idle
  <1> HIDE DEF r
  <1> QED
    BY <1>1, <1>2, NowUpdate

LEMMA NowAnswered ==
    ASSUME TypeOK, NowOK, clock' = clock, NEW p \in Procs, NEW at, Answered(p, at)
    PROVE  NowOK'
  <1> DEFINE r == [Idle EXCEPT !.pc = "begin", !.kind = "pull"]
  <1>1. Done(p) \/ req' = [req EXCEPT ![p] = r]
    BY DEF Answered
  <1>2. r.now = 0
    BY DEF Idle
  <1> HIDE DEF r
  <1> QED
    BY <1>1, <1>2, NowUpdate, NowDone

LEMMA NowPull ==
    ASSUME TypeOK, NowOK, NEW p \in Procs, PullStep(p)
    PROVE  NowOK'
  <1>0. req[p] \in Requests
    BY DEF TypeOK
  <1>1. CASE CheckHit(p)
    BY <1>1, NowStart DEF CheckHit, time
  <1>2. CASE CheckMiss(p)
    BY <1>2, NowStart DEF CheckMiss, time
  <1>3. CASE ReadCooldown(p)
    <2>1. CASE CoolingDown(nextGacha)
      <3> DEFINE r == [req[p] EXCEPT !.pc = "fill", !.val = nextGacha]
      <3>1. req' = [req EXCEPT ![p] = r] /\ r.now = req[p].now /\ clock' = clock
        BY <1>0, <1>3, <2>1 DEF ReadCooldown, TypeOK, Requests, time
      <3> HIDE DEF r
      <3> QED
        BY <3>1, NowUpdate
    <2>2. CASE ~CoolingDown(nextGacha)
      BY <1>3, <2>2, NowAnswered DEF ReadCooldown, time
    <2> QED
      BY <2>1, <2>2
  <1>4. CASE FillCooldown(p)
    BY <1>4, NowAnswered DEF FillCooldown, time
  <1>5. CASE PullBegin(p)
    <2> DEFINE r == [req[p] EXCEPT !.pc = "tx", !.now = clock, !.at = ticks]
    <2>1. req' = [req EXCEPT ![p] = r] /\ r.now = clock /\ clock' = clock
      BY <1>0, <1>5 DEF PullBegin, TypeOK, Requests, time
    <2> HIDE DEF r
    <2> QED
      BY <2>1, NowUpdate
  <1>6. CASE PullGateReject(p)
    <2> DEFINE r == IF Hit THEN Idle ELSE [Idle EXCEPT !.pc = "read", !.kind = "status"]
    <2>1. req' = [req EXCEPT ![p] = r] /\ clock' = clock
      BY <1>6 DEF PullGateReject, Done, time
    <2>2. r.now = 0
      BY DEF Idle
    <2> HIDE DEF r
    <2> QED
      BY <2>1, <2>2, NowUpdate
  <1>7. CASE Rollback(p) \/ SetCooldown(p)
    BY <1>7, NowDone DEF Rollback, SetCooldown, time
  <1>8. ASSUME NEW s \in Slots, NEW item \in Items, PullCommit(p, s, item)
        PROVE  NowOK'
    <2> DEFINE r == [Idle EXCEPT !.pc = "cool", !.kind = "pull", !.val = req[p].now + Cooldown]
    <2>1. req' = [req EXCEPT ![p] = r] /\ r.now = 0 /\ clock' = clock
      BY <1>8 DEF PullCommit, Idle, time
    <2> HIDE DEF r
    <2> QED
      BY <2>1, NowUpdate
  <1> QED
    BY <1>1, <1>2, <1>3, <1>4, <1>5, <1>6, <1>7, <1>8 DEF PullStep

\* A request's `now` is the clock of one of its steps, kept or forgotten.
LEMMA NowStep ==
    ASSUME TypeOK, NowOK, [Next]_vars, ~StepBack
    PROVE  NowOK'
  <1>1. ASSUME NEW p \in Procs, PullStep(p) PROVE NowOK'
    BY <1>1, NowPull
  <1>2. ASSUME NEW p \in Procs, VowStep(p) PROVE NowOK'
    <2>1. CASE VowStart(p)
      BY <2>1, NowStart DEF VowStart, time
    <2>2. CASE VowReload(p)
      BY <2>2, NowDone DEF VowReload, time
    <2>3. ASSUME NEW m \in Materials, NEW reward \in Items, VowCommit(p, m, reward)
          PROVE  NowOK'
      <3> DEFINE r == [req[p] EXCEPT !.pc = "reload"]
      <3>1. req' = [req EXCEPT ![p] = r] /\ r.now = req[p].now /\ clock' = clock
        BY <2>3 DEF VowCommit, Goto, TypeOK, Requests, time
      <3> HIDE DEF r
      <3> QED
        BY <3>1, NowUpdate
    <2> QED
      BY <1>2, <2>1, <2>2, <2>3 DEF VowStep
  <1>3. ASSUME NEW p \in Procs, PlayerStep(p) PROVE NowOK'
    <2>1. CASE Sync(p) \/ GetState(p) \/ Login(p)
      BY <2>1, NowStart DEF Sync, GetState, Login, time
    <2>2. CASE InsertSlot(p)
      <3> DEFINE i == IF req[p].i + 1 = SlotCount THEN 0 ELSE req[p].i + 1
                 pc == IF req[p].i + 1 # SlotCount THEN "init"
                       ELSE IF req[p].kind = "state" THEN "sample" ELSE "reset"
                 r == [req[p] EXCEPT !.i = i, !.pc = pc]
      <3>1. req' = [req EXCEPT ![p] = [req[p] EXCEPT !.i = i, !.pc = pc]] /\ clock' = clock
        BY <2>2 DEF InsertSlot, TypeOK, time
      <3>2. r.now = req[p].now
        BY DEF TypeOK, Requests
      <3>3. req' = [req EXCEPT ![p] = r] /\ clock' = clock
        BY <3>1
      <3> HIDE DEF r
      <3> QED
        BY <3>2, <3>3, NowUpdate
    <2>3. CASE SampleNow(p)
      <3> DEFINE r == [req[p] EXCEPT !.pc = "grow", !.now = clock]
      <3>1. req' = [req EXCEPT ![p] = r] /\ r.now = clock /\ clock' = clock
        BY <2>3 DEF SampleNow, TypeOK, Requests, time
      <3> HIDE DEF r
      <3> QED
        BY <3>1, NowUpdate
    <2>4. CASE ApplyGrowthTx(p) \/ ResetAnchor(p)
      BY <2>4, NowDone DEF ApplyGrowthTx, ResetAnchor, time
    <2> QED
      BY <1>3, <2>1, <2>2, <2>3, <2>4 DEF PlayerStep
  <1>4. ASSUME NEW p \in Procs, Abort(p) PROVE NowOK'
    BY <1>4, NowDone DEF Abort, time
  <1>5. CASE Crash
    BY <1>5 DEF Crash, NowOK, Idle, TypeOK, time
  <1>6. CASE Tick
    BY <1>6 DEF Tick, NowOK, TypeOK, Requests
  <1>7. CASE UNCHANGED vars
    BY <1>7 DEF vars, time, NowOK
  <1> QED
    BY <1>1, <1>2, <1>3, <1>4, <1>5, <1>6, <1>7 DEF Next

\* Growth moves the anchor by the windows it consumes, no further than `now`.
LEMMA PaceGrow ==
    ASSUME TypeOK, AnchorOK, NEW now \in Nat, now <= clock,
           NEW g \in Growth(anchor, layers, now, clock), Grow(g), clock' = clock
    PROVE  AnchorOK'
  <1>0. /\ clock \in Nat /\ windows \in Nat /\ Interval \in Nat \ {0}
        /\ anchor \in Nat \cup {None}
    BY CairnAssumption DEF TypeOK
  <1>1. CASE anchor = None
    <2>1. g = SelfHeal(clock)
      BY <1>1 DEF Growth
    <2>2. anchor' = clock /\ windows' = 0
      BY <1>0, <1>1, <2>1 DEF Grow, SelfHeal, AnchorOK
    <2> QED
      BY <1>0, <2>2 DEF AnchorOK, None
  <1>2. CASE anchor # None /\ (Steps(anchor, now) <= 0 \/ ~Initialized(layers))
    <2>1. g = NoGrowth(anchor)
      BY <1>2 DEF Growth
    <2>2. anchor' = anchor /\ windows' = windows
      BY <1>0, <2>1 DEF Grow, NoGrowth
    <2> QED
      BY <2>2 DEF AnchorOK
  <1>3. CASE anchor # None /\ ~(Steps(anchor, now) <= 0 \/ ~Initialized(layers))
    <2> DEFINE n == Steps(anchor, now)
    <2>1. n \in Int /\ n * Interval <= now - anchor
      BY <1>0, <1>3, DivBound DEF Steps, None
    <2>2. n \in Nat
      BY <1>3, <2>1
    <2>3. g.anchor = anchor + n * Interval /\ g.windows = n
      BY <1>3 DEF Growth
    <2>4. anchor' = anchor + n * Interval /\ windows' = windows + n
      BY <2>3 DEF Grow
    <2> HIDE DEF n
    <2>5. /\ Interval * (windows + n) = Interval * windows + n * Interval
          /\ Interval * windows \in Nat /\ n * Interval \in Nat
      BY <1>0, <2>2
    <2>6. Interval * windows <= anchor
      BY <1>3 DEF AnchorOK
    <2> QED
      BY <1>0, <1>3, <2>1, <2>4, <2>5, <2>6 DEF AnchorOK, None
  <1> QED
    BY <1>1, <1>2, <1>3

LEMMA PaceStep == TypeOK /\ PaceInv /\ [Next]_vars => PaceInv'
  <1> SUFFICES ASSUME TypeOK, PaceInv, [Next]_vars, ticks' = clock' PROVE AnchorOK' /\ NowOK'
    BY DEF PaceInv
  <1>0. ticks = clock /\ clock <= clock' /\ clock \in Nat /\ clock' \in Nat /\ ~StepBack
    <2>1. UNCHANGED time \/ Tick \/ StepBack
      <3>1. ASSUME NEW p \in Procs, NEW s \in Slots, NEW item \in Items, PullCommit(p, s, item)
            PROVE  UNCHANGED time
        BY <3>1 DEF PullCommit
      <3>2. ASSUME NEW p \in Procs, NEW m \in Materials, NEW reward \in Items,
                   VowCommit(p, m, reward)
            PROVE  UNCHANGED time
        BY <3>2 DEF VowCommit
      <3>3. ASSUME NEW p \in Procs, Sync(p) \/ InsertSlot(p) \/ ApplyGrowthTx(p) \/ ResetAnchor(p)
            PROVE  UNCHANGED time
        BY <3>3 DEF Sync, InsertSlot, ApplyGrowthTx, ResetAnchor
      <3> QED
        BY <3>1, <3>2, <3>3, RowSteps DEF RowStep
    <2>2. ticks \in Nat /\ clock \in 0 .. ticks
      BY DEF TypeOK
    <2> QED
      BY <2>1, <2>2 DEF Tick, StepBack, time
  <1>1. AnchorOK /\ NowOK
    BY <1>0 DEF PaceInv
  <1>2. NowOK'
    BY <1>0, <1>1, NowStep
  <1>3. ASSUME NEW p \in Procs, NEW g \in Growth(anchor, layers, req[p].now, clock), Grow(g),
               UNCHANGED time
        PROVE  AnchorOK'
    BY <1>1, <1>3, PaceGrow DEF NowOK, TypeOK, Requests, time
  <1>4. ASSUME UNCHANGED <<anchor, windows>> PROVE AnchorOK'
    BY <1>0, <1>1, <1>4 DEF AnchorOK, TypeOK, None
  <1>5. ASSUME NEW p \in Procs, NEW s \in Slots, NEW item \in Items, PullCommit(p, s, item)
        PROVE  AnchorOK'
    BY <1>3, <1>5 DEF PullCommit
  <1>6. ASSUME NEW p \in Procs, ApplyGrowthTx(p) PROVE AnchorOK'
    BY <1>3, <1>6 DEF ApplyGrowthTx
  <1>7. ASSUME NEW p \in Procs, ResetAnchor(p) PROVE AnchorOK'
    <2>1. anchor' = clock /\ windows' = windows /\ clock' = clock
      BY <1>7 DEF ResetAnchor, time
    <2>2. Interval * windows <= clock
      <3>1. CASE anchor = None
        BY <1>0, <1>1, <3>1, CairnAssumption DEF AnchorOK
      <3>2. CASE anchor # None
        <4> DEFINE used == Interval * windows
        <4>1. used \in Nat /\ anchor \in Nat /\ used <= anchor /\ anchor <= clock
          BY <1>1, <3>2, CairnAssumption DEF AnchorOK, TypeOK
        <4> HIDE DEF used
        <4>2. used <= clock
          BY <1>0, <4>1
        <4> QED
          BY <4>2 DEF used
      <3> QED
        BY <3>1, <3>2
    <2> QED
      BY <1>0, <2>1, <2>2 DEF AnchorOK, None
  <1> QED
    BY <1>2, <1>4, <1>5, <1>6, <1>7, RowSteps
    DEF RowStep, VowCommit, Sync, InsertSlot, Tick, StepBack, db, cairn

\* Growth is at most one step per Interval of real time as long as the wall
\* clock is not set back, whichever requests apply it with an old `now`.
THEOREM GrowthIsPaced == Spec => []GrowthPaced
  <1>1. TypeOK /\ PaceInv => GrowthPaced
    <2> SUFFICES ASSUME TypeOK, PaceInv, ticks = clock PROVE Interval * windows <= ticks
      BY DEF GrowthPaced
    <2> DEFINE used == Interval * windows
    <2>1. used \in Nat /\ clock \in Nat /\ anchor \in Nat \cup {None}
      BY CairnAssumption DEF TypeOK
    <2>2. anchor = None => used = 0
      BY CairnAssumption DEF PaceInv, AnchorOK
    <2>3. anchor # None => used <= anchor /\ anchor <= clock
      BY DEF PaceInv, AnchorOK
    <2> HIDE DEF used
    <2>4. used <= ticks
      BY <2>1, <2>2, <2>3
    <2> QED
      BY <2>4 DEF used
  <1>2. TypeOK /\ PaceInv /\ [Next]_vars => PaceInv'
    BY PaceStep
  <1> QED
    BY <1>1, <1>2, PaceInit, TypeCorrect, PTL DEF Spec

----------------------------------------------------------------------------
(* The fast path.  Neither the key nor a request on its way to fill it     *)
(* holds a cooldown beyond the row's, which only moves forward.            *)

Behind(v) == v # None => nextGacha # None /\ v <= nextGacha

FastInv == Behind(kv.val) /\ \A p \in Procs : Behind(req[p].val)

LEMMA FastInit == Init => FastInv
  BY DEF Init, FastInv, Behind, NoEntry, Idle

LEMMA FastUpdate ==
    ASSUME TypeOK, FastInv, UNCHANGED <<nextGacha, kv>>, NEW p \in Procs, NEW r,
           req' = [req EXCEPT ![p] = r], r.val \in {None, req[p].val, nextGacha}
    PROVE  FastInv'
  <1>1. nextGacha \in Nat \cup {None} /\ Behind(req[p].val)
    BY DEF FastInv, TypeOK
  <1>2. Behind(r.val)
    BY <1>1 DEF Behind
  <1>3. ASSUME NEW q \in Procs PROVE Behind(req[q].val)'
    <2>1. req'[q] = IF q = p THEN r ELSE req[q]
      BY DEF TypeOK
    <2> QED
      BY <1>2, <2>1 DEF FastInv, Behind
  <1> QED
    BY <1>3 DEF FastInv, Behind

LEMMA FastDone ==
    ASSUME TypeOK, FastInv, UNCHANGED <<nextGacha, kv>>, NEW p \in Procs, Done(p)
    PROVE  FastInv'
  <1>1. req' = [req EXCEPT ![p] = Idle] /\ Idle.val = None
    BY DEF Done, Idle
  <1> QED
    BY <1>1, FastUpdate

LEMMA FastStart ==
    ASSUME TypeOK, FastInv, UNCHANGED <<nextGacha, kv>>, NEW p \in Procs,
           NEW k, NEW pc, Start(p, k, pc)
    PROVE  FastInv'
  <1> DEFINE r == [Idle EXCEPT !.pc = pc, !.kind = k]
  <1>1. req' = [req EXCEPT ![p] = r]
    BY DEF Start
  <1>2. r.val = None
    BY DEF Idle
  <1> HIDE DEF r
  <1> QED
    BY <1>1, <1>2, FastUpdate

LEMMA FastAnswered ==
    ASSUME TypeOK, FastInv, UNCHANGED <<nextGacha, kv>>, NEW p \in Procs,
           NEW at, Answered(p, at)
    PROVE  FastInv'
  <1> DEFINE r == [Idle EXCEPT !.pc = "begin", !.kind = "pull"]
  <1>1. Done(p) \/ req' = [req EXCEPT ![p] = r]
    BY DEF Answered
  <1>2. r.val = None
    BY DEF Idle
  <1> HIDE DEF r
  <1> QED
    BY <1>1, <1>2, FastUpdate, FastDone

\* A request that writes the key writes the value it carries, and drops it.
LEMMA FastFill ==
    ASSUME TypeOK, FastInv, nextGacha' = nextGacha, NEW p \in Procs, NEW ttl,
           kv' = Entry(req[p].val, ttl), NEW r, r.val = None,
           req' = [req EXCEPT ![p] = r]
    PROVE  FastInv'
  <1>1. kv'.val = req[p].val
    BY DEF Entry
  <1>2. ASSUME NEW q \in Procs PROVE Behind(req[q].val)'
    <2>1. req'[q] = IF q = p THEN r ELSE req[q]
      BY DEF TypeOK
    <2> QED
      BY <2>1 DEF FastInv, Behind
  <1> QED
    BY <1>1, <1>2 DEF FastInv, Behind

LEMMA FastPull ==
    ASSUME TypeOK, FastInv, NEW p \in Procs, PullStep(p)
    PROVE  FastInv'
  <1>0. req[p] \in Requests
    BY DEF TypeOK
  <1>1. CASE CheckHit(p)
    BY <1>1, FastStart DEF CheckHit, db, gacha
  <1>2. CASE CheckMiss(p)
    BY <1>2, FastStart DEF CheckMiss, db, gacha
  <1>3. CASE ReadCooldown(p)
    <2>1. CASE CoolingDown(nextGacha)
      <3> DEFINE r == [req[p] EXCEPT !.pc = "fill", !.val = nextGacha]
      <3>1. req' = [req EXCEPT ![p] = r] /\ r.val = nextGacha /\ UNCHANGED <<nextGacha, kv>>
        BY <1>0, <1>3, <2>1 DEF ReadCooldown, TypeOK, Requests, db, gacha
      <3> HIDE DEF r
      <3> QED
        BY <3>1, FastUpdate
    <2>2. CASE ~CoolingDown(nextGacha)
      BY <1>3, <2>2, FastAnswered DEF ReadCooldown, db, gacha
    <2> QED
      BY <2>1, <2>2
  <1>4. CASE FillCooldown(p)
    <2> DEFINE begin == [Idle EXCEPT !.pc = "begin", !.kind = "pull"]
    <2>1. PICK r \in {Idle, begin} : req' = [req EXCEPT ![p] = r]
      BY <1>4 DEF FillCooldown, Answered, Done
    <2>2. Idle.val = None /\ begin.val = None
      BY DEF Idle
    <2>3. kv' = Entry(req[p].val, req[p].val - clock) /\ nextGacha' = nextGacha
      BY <1>4 DEF FillCooldown, db, gacha
    <2> HIDE DEF begin
    <2>4. r.val = None
      BY <2>1, <2>2
    <2> QED
      BY <2>1, <2>3, <2>4, FastFill
  <1>5. CASE PullBegin(p)
    <2> DEFINE r == [req[p] EXCEPT !.pc = "tx", !.now = clock, !.at = ticks]
    <2>1. req' = [req EXCEPT ![p] = r] /\ r.val = req[p].val /\ UNCHANGED <<nextGacha, kv>>
      BY <1>0, <1>5 DEF PullBegin, TypeOK, Requests, db, gacha
    <2> HIDE DEF r
    <2> QED
      BY <2>1, FastUpdate
  <1>6. CASE PullGateReject(p)
    <2> DEFINE r == IF Hit THEN Idle ELSE [Idle EXCEPT !.pc = "read", !.kind = "status"]
    <2>1. req' = [req EXCEPT ![p] = r] /\ UNCHANGED <<nextGacha, kv>>
      BY <1>6 DEF PullGateReject, Done, db, gacha
    <2>2. r.val = None
      BY DEF Idle
    <2> HIDE DEF r
    <2> QED
      BY <2>1, <2>2, FastUpdate
  <1>7. CASE Rollback(p)
    BY <1>7, FastDone DEF Rollback, db, gacha
  <1>8. CASE SetCooldown(p)
    <2>1. /\ kv' = Entry(req[p].val, Cooldown) /\ nextGacha' = nextGacha
          /\ req' = [req EXCEPT ![p] = Idle] /\ Idle.val = None
      BY <1>8 DEF SetCooldown, Done, Idle, db, gacha
    <2> QED
      BY <2>1, FastFill
  <1>9. ASSUME NEW s \in Slots, NEW item \in Items, PullCommit(p, s, item)
        PROVE  FastInv'
    <2> DEFINE r == [Idle EXCEPT !.pc = "cool", !.kind = "pull", !.val = req[p].now + Cooldown]
    <2>1. /\ req' = [req EXCEPT ![p] = r] /\ r.val = req[p].now + Cooldown
          /\ kv' = kv /\ nextGacha' = req[p].now + Cooldown
      BY <1>9 DEF PullCommit, Idle
    <2>2. /\ nextGacha = None \/ nextGacha <= req[p].now
          /\ req[p].now \in Nat /\ Cooldown \in Nat /\ nextGacha \in Nat \cup {None}
      BY <1>0, <1>9, EconomyAssumption DEF PullCommit, GateOpen, TypeOK, Requests
    <2> HIDE DEF r
    <2>3. ASSUME NEW v \in Nat \cup {None}, Behind(v) PROVE v # None => v <= nextGacha'
      BY <2>1, <2>2, <2>3 DEF Behind
    <2>4. nextGacha' # None
      BY <2>1, <2>2 DEF None
    <2>5. Behind(kv.val)'
      BY <2>1, <2>3, <2>4 DEF FastInv, Behind, TypeOK
    <2>6. ASSUME NEW q \in Procs PROVE Behind(req[q].val)'
      <3>1. req'[q] = IF q = p THEN r ELSE req[q]
        BY <2>1 DEF TypeOK
      <3>2. req[q].val \in Nat \cup {None} /\ Behind(req[q].val)
        BY DEF FastInv, TypeOK, Requests
      <3>3. req[q].val # None => req[q].val <= nextGacha'
        BY <2>3, <3>2
      <3>4. req'[q].val # None => req'[q].val <= nextGacha'
        BY <2>1, <2>2, <3>1, <3>3
      <3> QED
        BY <2>4, <3>4 DEF Behind
    <2> QED
      BY <2>5, <2>6 DEF FastInv
  <1> QED
    BY <1>1, <1>2, <1>3, <1>4, <1>5, <1>6, <1>7, <1>8, <1>9 DEF PullStep

LEMMA FastStep == TypeOK /\ FastInv /\ [Next]_vars => FastInv'
  <1> SUFFICES ASSUME TypeOK, FastInv, [Next]_vars PROVE FastInv'
    OBVIOUS
  <1>1. ASSUME NEW p \in Procs, PullStep(p) PROVE FastInv'
    BY <1>1, FastPull
  <1>2. ASSUME NEW p \in Procs, VowStep(p) PROVE FastInv'
    <2>1. CASE VowStart(p)
      BY <2>1, FastStart DEF VowStart, db, gacha
    <2>2. CASE VowReload(p)
      BY <2>2, FastDone DEF VowReload, db, gacha
    <2>3. ASSUME NEW m \in Materials, NEW reward \in Items, VowCommit(p, m, reward)
          PROVE  FastInv'
      <3> DEFINE r == [req[p] EXCEPT !.pc = "reload"]
      <3>1. req' = [req EXCEPT ![p] = r] /\ r.val = req[p].val /\ UNCHANGED <<nextGacha, kv>>
        BY <2>3 DEF VowCommit, Goto, TypeOK, Requests, gacha
      <3> HIDE DEF r
      <3> QED
        BY <3>1, FastUpdate
    <2> QED
      BY <1>2, <2>1, <2>2, <2>3 DEF VowStep
  <1>3. ASSUME NEW p \in Procs, PlayerStep(p) PROVE FastInv'
    <2>1. CASE Sync(p) \/ GetState(p) \/ Login(p)
      BY <2>1, FastStart DEF Sync, GetState, Login, db, gacha
    <2>2. CASE InsertSlot(p)
      <3> DEFINE i == IF req[p].i + 1 = SlotCount THEN 0 ELSE req[p].i + 1
                 pc == IF req[p].i + 1 # SlotCount THEN "init"
                       ELSE IF req[p].kind = "state" THEN "sample" ELSE "reset"
                 r == [req[p] EXCEPT !.i = i, !.pc = pc]
      <3>1. /\ req' = [req EXCEPT ![p] = [req[p] EXCEPT !.i = i, !.pc = pc]]
            /\ UNCHANGED <<nextGacha, kv>>
        BY <2>2 DEF InsertSlot, TypeOK, gacha
      <3>2. r.val = req[p].val
        BY DEF TypeOK, Requests
      <3>3. req' = [req EXCEPT ![p] = r] /\ UNCHANGED <<nextGacha, kv>>
        BY <3>1
      <3> HIDE DEF r
      <3> QED
        BY <3>2, <3>3, FastUpdate
    <2>3. CASE SampleNow(p)
      <3> DEFINE r == [req[p] EXCEPT !.pc = "grow", !.now = clock]
      <3>1. req' = [req EXCEPT ![p] = r] /\ r.val = req[p].val /\ UNCHANGED <<nextGacha, kv>>
        BY <2>3 DEF SampleNow, TypeOK, Requests, db, gacha
      <3> HIDE DEF r
      <3> QED
        BY <3>1, FastUpdate
    <2>4. CASE ApplyGrowthTx(p) \/ ResetAnchor(p)
      BY <2>4, FastDone DEF ApplyGrowthTx, ResetAnchor, gacha
    <2> QED
      BY <1>3, <2>1, <2>2, <2>3, <2>4 DEF PlayerStep
  <1>4. ASSUME NEW p \in Procs, Abort(p) PROVE FastInv'
    BY <1>4, FastDone DEF Abort, db, gacha
  <1>5. CASE Crash
    <2>1. kv' \in {NoEntry, kv} /\ nextGacha' = nextGacha
          /\ req' = [p \in Procs |-> Idle]
      BY <1>5 DEF Crash, db, gacha
    <2> QED
      BY <2>1 DEF FastInv, Behind, NoEntry, Idle
  <1>6. CASE Tick \/ StepBack \/ UNCHANGED vars
    BY <1>6 DEF Tick, StepBack, vars, db, gacha, FastInv, Behind
  <1> QED
    BY <1>1, <1>2, <1>3, <1>4, <1>5, <1>6 DEF Next

\* The cache never keeps a player out whom the row would let in: a fill from an
\* old read, a late setCooldown, a rollback or a restart leaves in the key at
\* most the cooldown of the row.
THEOREM FastPathCorrect == Spec => []FastPathJustified
  <1>1. TypeOK /\ FastInv => FastPathJustified
    <2> SUFFICES ASSUME TypeOK, FastInv, CoolingDown(kv.val) PROVE CoolingDown(nextGacha)
      BY DEF FastPathJustified
    <2>1. /\ kv.val \in Nat \cup {None} /\ nextGacha \in Nat \cup {None} /\ clock \in Nat
          /\ kv.val # None /\ clock < kv.val /\ nextGacha # None /\ kv.val <= nextGacha
      BY DEF CoolingDown, FastInv, Behind, TypeOK
    <2> QED
      BY <2>1 DEF CoolingDown
  <1>2. TypeOK /\ FastInv /\ [Next]_vars => FastInv'
    BY FastStep
  <1> QED
    BY <1>1, <1>2, FastInit, TypeCorrect, PTL DEF Spec

----------------------------------------------------------------------------
(* The inventory.  Sums over the skins are those of module Sums.           *)

LEMMA ItemInit == Init => ItemLedger
  <1> SUFFICES ASSUME Init PROVE ItemLedger
    OBVIOUS
  <1>1. SumFunction([i \in Items |-> 0]) = 0
    BY EconomyAssumption, SumZero
  <1> QED
    BY <1>1 DEF Init, ItemLedger

\* A skin granted on top of a bag.
LEMMA GrantSum ==
    ASSUME NEW bag \in [Items -> Int], NEW item \in Items
    PROVE  /\ SumFunction(bag) \in Int
           /\ SumFunction(GrantItem(bag, item)) = SumFunction(bag) + 1
  BY EconomyAssumption, SumBump DEF GrantItem

\* The bag that is left once a vow has taken its materials.
LEMMA ConsumeSum ==
    ASSUME TypeOK, NEW m \in Materials
    PROVE  /\ [i \in Items |-> inv[i] - m[i]] \in [Items -> Int]
           /\ SumFunction([i \in Items |-> inv[i] - m[i]]) = SumFunction(inv) - VowSize
  <1> DEFINE left == [i \in Items |-> inv[i] - m[i]]
  <1>1. inv \in [Items -> Int] /\ m \in [Items -> Int] /\ SumFunction(m) = VowSize
    BY EconomyAssumption DEF TypeOK, Materials
  <1>2. left \in [Items -> Int] /\ \A i \in Items : inv[i] = left[i] + m[i]
    BY <1>1
  <1> HIDE DEF left
  <1>3. SumFunction(left) \in Int /\ SumFunction(m) \in Int
        /\ SumFunction(inv) = SumFunction(left) + SumFunction(m)
    BY <1>1, <1>2, SumPlus, EconomyAssumption
  <1>4. SumFunction(left) = SumFunction(inv) - VowSize
    BY <1>1, <1>3
  <1> QED
    BY <1>2, <1>4 DEF left

LEMMA ItemStep == TypeOK /\ ItemLedger /\ [Next]_vars => ItemLedger'
  <1> SUFFICES ASSUME TypeOK, ItemLedger, [Next]_vars PROVE ItemLedger'
    OBVIOUS
  <1>0. inv \in [Items -> Int] /\ pulls \in Nat /\ vows \in Nat /\ consumed \in Nat
        /\ SumFunction(inv) = pulls + vows - consumed
    BY DEF TypeOK, ItemLedger
  <1>1. \A i \in Items : inv'[i] >= 0
    BY TypeStep DEF TypeOK
  <1>2. CASE UNCHANGED <<inv, pulls, vows, consumed>>
    BY <1>2 DEF ItemLedger
  <1>3. ASSUME NEW p \in Procs, NEW s \in Slots, NEW item \in Items, PullCommit(p, s, item)
        PROVE  ItemLedger'
    <2>1. inv' = GrantItem(inv, item) /\ pulls' = pulls + 1 /\ UNCHANGED <<vows, consumed>>
      BY <1>3 DEF PullCommit
    <2>2. SumFunction(inv') = SumFunction(inv) + 1
      BY <1>0, <2>1, GrantSum
    <2> QED
      BY <1>0, <1>1, <2>1, <2>2 DEF ItemLedger
  <1>4. ASSUME NEW p \in Procs, NEW m \in Materials, NEW reward \in Items,
               VowCommit(p, m, reward)
        PROVE  ItemLedger'
    <2>1. vows' = vows + 1 /\ pulls' = pulls
      BY <1>4 DEF VowCommit, gacha
    <2>2. CASE Consume(m) /\ inv' = GrantItem([i \in Items |-> inv[i] - m[i]], reward)
      <3>1. SumFunction(inv') = SumFunction(inv) - VowSize + 1
        BY <2>2, ConsumeSum, GrantSum
      <3>2. consumed' = consumed + VowSize /\ VowSize \in Nat
        BY <2>2, EconomyAssumption DEF Consume
      <3> QED
        BY <1>0, <1>1, <2>1, <3>1, <3>2 DEF ItemLedger
    <2>3. CASE inv' = GrantItem(inv, reward) /\ UNCHANGED consumed
      <3>1. SumFunction(inv') = SumFunction(inv) + 1
        BY <1>0, <2>3, GrantSum
      <3> QED
        BY <1>0, <1>1, <2>1, <2>3, <3>1 DEF ItemLedger
    <2> QED
      BY <1>4, <2>2, <2>3 DEF VowCommit
  <1> QED
    BY <1>2, <1>3, <1>4, RowSteps
    DEF RowStep, Sync, InsertSlot, ApplyGrowthTx, ResetAnchor, Tick, StepBack, db, gacha, goods

\* Every item a player ever held came from a committed pull or vow and left as
\* a vow's material: the upserts, the consumed stacks and the rollbacks neither
\* lose nor mint one, for any number of skins and requests.
THEOREM ItemsConserved == Spec => []ItemLedger
  <1>1. TypeOK /\ ItemLedger /\ [Next]_vars => ItemLedger'
    BY ItemStep
  <1> QED
    BY <1>1, ItemInit, TypeCorrect, PTL DEF Spec

----------------------------------------------------------------------------
(* Growth steps.  A window's steps and the room of the slots are sums.     *)

LEMMA SlotsFinite == IsFiniteSet(Slots)
  BY CairnAssumption, FS_Interval DEF Slots

\* Steps that a window could not hand out filled every slot.
LEMMA SpreadFills ==
    ASSUME NEW L \in [Slots -> Nat], NEW n \in Nat, NEW d \in Distributions(L, n)
    PROVE  /\ SumFunction(d) \in Int /\ SumFunction(d) <= n
           /\ SumFunction(d) < n => \A s \in Slots : L[s] + d[s] = MaxLayers
  <1> DEFINE room == [s \in Slots |-> MaxLayers - L[s]]
  <1>1. d \in [Slots -> Int] /\ room \in [Slots -> Int]
    BY CairnAssumption DEF Distributions
  <1>2. \A s \in Slots : d[s] <= room[s]
    BY <1>1, CairnAssumption DEF Distributions
  <1>3. SumFunction(d) = Lesser(n, SumFunction(room))
    BY DEF Distributions, Room
  <1>4. \A s \in Slots : d[s] = room[s] => L[s] + d[s] = MaxLayers
    BY <1>1, CairnAssumption
  <1> HIDE DEF room
  <1>5. /\ SumFunction(d) \in Int /\ SumFunction(room) \in Int
        /\ SumFunction(d) = SumFunction(room) => \A s \in Slots : d[s] = room[s]
    BY <1>1, <1>2, SlotsFinite, SumBelow
  <1>6. SumFunction(d) <= n /\ (SumFunction(d) < n => SumFunction(d) = SumFunction(room))
    BY <1>3, <1>5 DEF Lesser
  <1> QED
    BY <1>4, <1>5, <1>6

\* What growth adds to the slots, in all.
LEMMA GrowSum ==
    ASSUME TypeOK, NEW d \in [Slots -> Nat], grown' = Grown(grown, d)
    PROVE  SumFunction(grown') - SumFunction(grown) = SumFunction(d)
  <1>1. grown \in [Slots -> Int] /\ d \in [Slots -> Int]
    BY DEF TypeOK
  <1>2. grown' \in [Slots -> Int] /\ \A s \in Slots : grown'[s] = grown[s] + d[s]
    BY <1>1 DEF Grown
  <1>3. /\ SumFunction(grown) \in Int /\ SumFunction(d) \in Int
        /\ SumFunction(grown') = SumFunction(grown) + SumFunction(d)
    BY <1>1, <1>2, SlotsFinite, SumPlus
  <1> QED
    BY <1>3

WindowSpent ==
    LET added == SumFunction(grown') - SumFunction(grown)
        steps == windows' - windows
    IN  /\ added <= steps
        /\ added < steps => \A s \in Slots : grown'[s] = MaxLayers * (claims[s] + 1)

LEMMA GrowthSpends ==
    ASSUME TypeOK, LayerLedger, NEW now \in Nat,
           NEW g \in Growth(anchor, layers, now, clock), Grow(g)
    PROVE  WindowSpent
  <1>0. /\ grown' = Grown(grown, g.added) /\ windows' = windows + g.windows
        /\ windows \in Nat /\ grown \in [Slots -> Nat] /\ claims \in [Slots -> Nat]
        /\ layers \in [Slots -> Nat \cup {None}]
        /\ anchor \in Nat \cup {None} /\ clock \in Nat
    BY DEF Grow, TypeOK
  <1>1. g.added \in [Slots -> Nat] /\ g.windows \in Nat
    BY <1>0, GrowthType
  <1>2. SumFunction(grown') - SumFunction(grown) = SumFunction(g.added)
    BY <1>0, <1>1, GrowSum
  <1>3. CASE g.added = Unchanged /\ g.windows = 0
    <2>1. SumFunction(Unchanged) = 0
      BY SlotsFinite, SumZero DEF Unchanged
    <2> QED
      BY <1>0, <1>2, <1>3, <2>1 DEF WindowSpent
  <1>4. CASE anchor # None /\ ~(Steps(anchor, now) <= 0 \/ ~Initialized(layers))
    <2> DEFINE n == Steps(anchor, now)
               d == g.added
    <2>1. d \in Distributions(layers, n) /\ g.windows = n
      BY <1>4 DEF Growth
    <2>2. n \in Nat /\ layers \in [Slots -> Nat]
      BY <1>0, <1>1, <1>4, <2>1 DEF Initialized
    <2> HIDE DEF n, d
    <2>3. /\ SumFunction(d) \in Int /\ SumFunction(d) <= n
          /\ SumFunction(d) < n => \A s \in Slots : layers[s] + d[s] = MaxLayers
      BY <2>1, <2>2, SpreadFills
    <2>4. ASSUME NEW s \in Slots, layers[s] + d[s] = MaxLayers
          PROVE  grown'[s] = MaxLayers * (claims[s] + 1)
      <3> DEFINE used == MaxLayers * claims[s]
      <3>1. used \in Nat /\ MaxLayers * (claims[s] + 1) = used + MaxLayers
        BY <1>0, CairnAssumption
      <3>2. grown[s] = used + layers[s]
        BY <2>2 DEF LayerLedger, None
      <3>3. grown'[s] = grown[s] + d[s] /\ d[s] \in Nat /\ layers[s] \in Nat
        BY <1>0, <1>1, <2>2 DEF Grown, d
      <3> HIDE DEF used
      <3> QED
        BY <2>4, <3>1, <3>2, <3>3
    <2>5. SumFunction(grown') - SumFunction(grown) = SumFunction(d) /\ windows' - windows = n
      BY <1>0, <1>2, <2>1, <2>2 DEF d
    <2> QED
      BY <2>2, <2>3, <2>4, <2>5 DEF WindowSpent
  <1> QED
    BY <1>3, <1>4 DEF Growth, SelfHeal, NoGrowth

\* A growth window is consumed only by distributing it: for any number of slots,
\* each of its steps adds one layer unless the cairn became full, and no other
\* step of any request adds layers or moves the anchor's windows.
THEOREM WindowsAreSpent == Spec => NoGrowthLost
  <1>1. TypeOK /\ LayerLedger /\ [Next]_vars => [WindowSpent]_vars
    <2> SUFFICES ASSUME TypeOK, LayerLedger, [Next]_vars PROVE WindowSpent
      OBVIOUS
    <2>1. CASE UNCHANGED <<grown, windows>>
      <3>1. grown \in [Slots -> Int] /\ windows \in Nat
        BY DEF TypeOK
      <3>2. SumFunction(grown) \in Int
        BY <3>1, SlotsFinite, SumBelow
      <3> QED
        BY <2>1, <3>1, <3>2 DEF WindowSpent
    <2>2. ASSUME NEW p \in Procs, NEW g \in Growth(anchor, layers, req[p].now, clock), Grow(g)
          PROVE  WindowSpent
      BY <2>2, GrowthSpends DEF TypeOK, Requests
    <2>3. ASSUME NEW p \in Procs, NEW s \in Slots, NEW item \in Items, PullCommit(p, s, item)
          PROVE  WindowSpent
      BY <2>2, <2>3 DEF PullCommit
    <2>4. ASSUME NEW p \in Procs, ApplyGrowthTx(p) PROVE WindowSpent
      BY <2>2, <2>4 DEF ApplyGrowthTx
    <2> QED
      BY <2>1, <2>3, <2>4, RowSteps
      DEF RowStep, VowCommit, Sync, InsertSlot, ResetAnchor, Tick, StepBack, db, cairn
  <1> QED
    BY <1>1, LayersConserved, TypeCorrect, PTL DEF Spec, NoGrowthLost, WindowSpent

----------------------------------------------------------------------------
(* Economy implements Ledger: its initial states are initial states of the *)
(* ledger, and each of its steps is one step of the ledger or none.  What  *)
(* the steps need of the state are invariants from above: the types, that  *)
(* accrual never outgrows time, that layers are conserved and that the     *)
(* pull in the transaction is a cooldown after the last.                   *)

\* A request never holds a reading of the monotonic clock from the future.
AtInv == \A p \in Procs : req[p].at <= ticks

LEMMA AtInit == Init => AtInv
  BY DEF Init, AtInv, Idle

\* A step keeps a request's reading, drops it, or takes a new one.
LEMMA AtUpdate ==
    ASSUME TypeOK, AtInv, ticks' >= ticks, ticks' \in Nat, NEW p \in Procs, NEW r,
           req' = [req EXCEPT ![p] = r], r.at \in {0, req[p].at, ticks}
    PROVE  AtInv'
  <1>1. ASSUME NEW q \in Procs PROVE req'[q].at <= ticks'
    <2>1. req'[q] = IF q = p THEN r ELSE req[q]
      BY DEF TypeOK
    <2>2. req[q].at \in Nat /\ req[q].at <= ticks /\ req[p].at \in Nat /\ req[p].at <= ticks
      BY DEF TypeOK, Requests, AtInv
    <2> QED
      BY <2>1, <2>2 DEF TypeOK
  <1> QED
    BY <1>1 DEF AtInv

LEMMA AtDone ==
    ASSUME TypeOK, AtInv, ticks' = ticks, NEW p \in Procs, Done(p)
    PROVE  AtInv'
  <1>1. req' = [req EXCEPT ![p] = Idle] /\ Idle.at = 0
    BY DEF Done, Idle
  <1>2. ticks' >= ticks /\ ticks' \in Nat
    BY DEF TypeOK
  <1> QED
    BY <1>1, <1>2, AtUpdate

LEMMA AtStart ==
    ASSUME TypeOK, AtInv, ticks' = ticks, NEW p \in Procs, NEW k, NEW pc, Start(p, k, pc)
    PROVE  AtInv'
  <1> DEFINE r == [Idle EXCEPT !.pc = pc, !.kind = k]
  <1>1. req' = [req EXCEPT ![p] = r]
    BY DEF Start
  <1>2. r.at = 0 /\ ticks' >= ticks /\ ticks' \in Nat
    BY DEF Idle, TypeOK
  <1> HIDE DEF r
  <1> QED
    BY <1>1, <1>2, AtUpdate

LEMMA AtAnswered ==
    ASSUME TypeOK, AtInv, ticks' = ticks, NEW p \in Procs, NEW at, Answered(p, at)
    PROVE  AtInv'
  <1> DEFINE r == [Idle EXCEPT !.pc = "begin", !.kind = "pull"]
  <1>1. Done(p) \/ req' = [req EXCEPT ![p] = r]
    BY DEF Answered
  <1>2. r.at = 0 /\ ticks' >= ticks /\ ticks' \in Nat
    BY DEF Idle, TypeOK
  <1> HIDE DEF r
  <1> QED
    BY <1>1, <1>2, AtUpdate, AtDone

LEMMA AtPull ==
    ASSUME TypeOK, AtInv, NEW p \in Procs, PullStep(p)
    PROVE  AtInv'
  <1>0. /\ req[p] \in Requests /\ ticks \in Nat /\ ticks >= ticks
        /\ req[p] = [pc |-> req[p].pc, kind |-> req[p].kind, now |-> req[p].now,
                     at |-> req[p].at, val |-> req[p].val, i |-> req[p].i]
    BY DEF TypeOK, Requests
  <1>1. CASE CheckHit(p)
    BY <1>1, AtStart DEF CheckHit, time
  <1>2. CASE CheckMiss(p)
    BY <1>2, AtStart DEF CheckMiss, time
  <1>3. CASE ReadCooldown(p)
    <2>1. CASE CoolingDown(nextGacha)
      <3> DEFINE r == [req[p] EXCEPT !.pc = "fill", !.val = nextGacha]
      <3>1. req' = [req EXCEPT ![p] = r] /\ r.at = req[p].at /\ ticks' = ticks
        BY <1>0, <1>3, <2>1 DEF ReadCooldown, TypeOK, time
      <3> HIDE DEF r
      <3> QED
        BY <1>0, <3>1, AtUpdate
    <2>2. CASE ~CoolingDown(nextGacha)
      BY <1>3, <2>2, AtAnswered DEF ReadCooldown, time
    <2> QED
      BY <2>1, <2>2
  <1>4. CASE FillCooldown(p)
    BY <1>4, AtAnswered DEF FillCooldown, time
  <1>5. CASE PullBegin(p)
    <2> DEFINE r == [req[p] EXCEPT !.pc = "tx", !.now = clock, !.at = ticks]
    <2>1. req' = [req EXCEPT ![p] = r] /\ r.at = ticks /\ ticks' = ticks
      BY <1>0, <1>5 DEF PullBegin, TypeOK, time
    <2> HIDE DEF r
    <2> QED
      BY <1>0, <2>1, AtUpdate
  <1>6. CASE PullGateReject(p)
    <2> DEFINE r == IF Hit THEN Idle ELSE [Idle EXCEPT !.pc = "read", !.kind = "status"]
    <2>1. req' = [req EXCEPT ![p] = r] /\ ticks' = ticks
      BY <1>6 DEF PullGateReject, Done, time
    <2>2. r.at = 0
      BY DEF Idle
    <2> HIDE DEF r
    <2> QED
      BY <1>0, <2>1, <2>2, AtUpdate
  <1>7. CASE Rollback(p)
    BY <1>7, AtDone DEF Rollback, time
  <1>8. CASE SetCooldown(p)
    BY <1>8, AtDone DEF SetCooldown, time
  <1>9. ASSUME NEW s \in Slots, NEW item \in Items, PullCommit(p, s, item) PROVE AtInv'
    <2> DEFINE r == [Idle EXCEPT !.pc = "cool", !.kind = "pull", !.val = req[p].now + Cooldown]
    <2>1. req' = [req EXCEPT ![p] = r] /\ r.at = 0 /\ ticks' = ticks
      BY <1>9 DEF PullCommit, Idle, time
    <2> HIDE DEF r
    <2> QED
      BY <1>0, <2>1, AtUpdate
  <1> QED
    BY <1>1, <1>2, <1>3, <1>4, <1>5, <1>6, <1>7, <1>8, <1>9 DEF PullStep

LEMMA AtStep == TypeOK /\ AtInv /\ [Next]_vars => AtInv'
  <1> SUFFICES ASSUME TypeOK, AtInv, [Next]_vars PROVE AtInv'
    OBVIOUS
  <1>0. ticks \in Nat /\ ticks >= ticks
    BY DEF TypeOK
  <1>1. ASSUME NEW p \in Procs, PullStep(p) PROVE AtInv'
    BY <1>1, AtPull
  <1>2. ASSUME NEW p \in Procs, VowStep(p) PROVE AtInv'
    <2>1. CASE VowStart(p)
      BY <2>1, AtStart DEF VowStart, time
    <2>2. CASE VowReload(p)
      BY <2>2, AtDone DEF VowReload, time
    <2>3. ASSUME NEW m \in Materials, NEW reward \in Items, VowCommit(p, m, reward)
          PROVE  AtInv'
      <3> DEFINE r == [req[p] EXCEPT !.pc = "reload"]
      <3>1. req' = [req EXCEPT ![p] = r] /\ r.at = req[p].at /\ ticks' = ticks
        BY <2>3 DEF VowCommit, Goto, TypeOK, Requests, time
      <3> HIDE DEF r
      <3> QED
        BY <1>0, <3>1, AtUpdate
    <2> QED
      BY <1>2, <2>1, <2>2, <2>3 DEF VowStep
  <1>3. ASSUME NEW p \in Procs, PlayerStep(p) PROVE AtInv'
    <2>1. CASE Sync(p) \/ GetState(p) \/ Login(p)
      BY <2>1, AtStart DEF Sync, GetState, Login, time
    <2>2. CASE InsertSlot(p)
      <3> DEFINE i == IF req[p].i + 1 = SlotCount THEN 0 ELSE req[p].i + 1
                 pc == IF req[p].i + 1 # SlotCount THEN "init"
                       ELSE IF req[p].kind = "state" THEN "sample" ELSE "reset"
                 r == [req[p] EXCEPT !.i = i, !.pc = pc]
      <3>1. req' = [req EXCEPT ![p] = [req[p] EXCEPT !.i = i, !.pc = pc]] /\ ticks' = ticks
        BY <2>2 DEF InsertSlot, TypeOK, time
      <3>2. r.at = req[p].at
        BY DEF TypeOK, Requests
      <3>3. req' = [req EXCEPT ![p] = r] /\ ticks' = ticks
        BY <3>1
      <3> HIDE DEF r
      <3> QED
        BY <1>0, <3>2, <3>3, AtUpdate
    <2>3. CASE SampleNow(p)
      <3> DEFINE r == [req[p] EXCEPT !.pc = "grow", !.now = clock]
      <3>1. req' = [req EXCEPT ![p] = r] /\ r.at = req[p].at /\ ticks' = ticks
        BY <2>3 DEF SampleNow, TypeOK, Requests, time
      <3> HIDE DEF r
      <3> QED
        BY <1>0, <3>1, AtUpdate
    <2>4. CASE ApplyGrowthTx(p) \/ ResetAnchor(p)
      BY <2>4, AtDone DEF ApplyGrowthTx, ResetAnchor, time
    <2> QED
      BY <1>3, <2>1, <2>2, <2>3, <2>4 DEF PlayerStep
  <1>4. ASSUME NEW p \in Procs, Abort(p) PROVE AtInv'
    BY <1>4, AtDone DEF Abort, time
  <1>5. CASE Crash
    BY <1>0, <1>5 DEF Crash, time, AtInv, Idle
  <1>6. CASE Tick
    <2>1. req' = req /\ ticks' = ticks + 1 /\ \A p \in Procs : req[p].at \in Nat
      BY <1>6 DEF Tick, TypeOK, Requests
    <2> QED
      BY <1>0, <2>1 DEF AtInv
  <1>7. CASE StepBack \/ UNCHANGED vars
    BY <1>7 DEF StepBack, vars, time, AtInv
  <1> QED
    BY <1>1, <1>2, <1>3, <1>4, <1>5, <1>6, <1>7 DEF Next

----------------------------------------------------------------------------
\* What is earned is part of what the time that passed is worth, and paying it
\* never overdraws the balance.
LEMMA SettleStep ==
    ASSUME TypeOK, TypeOK', AccrualInv, NEW cost \in Nat, AccrueAndPay(cost)
    PROVE  Account!Settle(cost)
  <1>1. /\ banked' = banked + Accrued /\ pts' = pts + Accrued - cost
        /\ Accrued \in Nat /\ banked \in Nat /\ pts \in Nat /\ pts' \in Nat
    BY AccruedType DEF AccrueAndPay, TypeOK
  <1>2. banked + Accrued <= Rate * ticks /\ Rate * ticks \in Nat
    BY EconomyAssumption DEF AccrualInv, TypeOK
  <1>3. banked' \in banked .. Rate * ticks
    BY <1>1, <1>2
  <1>4. pts' = pts + (banked' - banked) - cost /\ pts' >= 0
    BY <1>1
  <1> QED
    BY <1>3, <1>4 DEF Account!Settle

\* Growth ripens a slot: what it adds to the row it adds to the ledger, and no
\* slot without a row or at MaxLayers gets any.
LEMMA RipenStep ==
    ASSUME TypeOK, NEW p \in Procs,
           NEW g \in Growth(anchor, layers, req[p].now, clock), Grow(g), NEW s \in Slots,
           layers'[s] = Grown(layers, g.added)[s]
    PROVE  Account!Ripen(s)
  <1> DEFINE a == g.added[s]
  <1>1. req[p].now \in Nat /\ clock \in Nat /\ anchor \in Nat \cup {None}
        /\ layers \in [Slots -> Nat \cup {None}] /\ grown \in [Slots -> Nat]
    BY DEF TypeOK, Requests
  <1>2. /\ a \in Nat
        /\ layers[s] = None => a = 0
        /\ a > 0 => layers[s] + a <= MaxLayers
    <2>1. /\ g.added \in [Slots -> Nat]
          /\ \A t \in Slots : layers[t] = None => g.added[t] = 0
          /\ \A t \in Slots : g.added[t] > 0 => layers[t] + g.added[t] <= MaxLayers
      BY <1>1, GrowthType
    <2> QED
      BY <2>1
  <1>3. grown'[s] = grown[s] + a /\ layers'[s] = layers[s] + a
    BY DEF Grow, Grown
  <1>4. layers[s] \in Nat \cup {None} /\ grown[s] \in Nat
    BY <1>1
  <1> HIDE DEF a
  <1>5. /\ layers'[s] - layers[s] = grown'[s] - grown[s]
        /\ layers'[s] # layers[s] => layers[s] # None /\ layers[s] < layers'[s]
                                     /\ layers'[s] <= MaxLayers
    BY <1>2, <1>3, <1>4 DEF None
  <1> QED
    BY <1>5 DEF Account!Ripen

LEMMA LedgerPull ==
    ASSUME TypeOK, TypeOK', AccrualInv, LayerLedger, SpacingInv, AtInv,
           NEW p \in Procs, NEW s \in Slots, NEW item \in Items, PullCommit(p, s, item)
    PROVE  Account!Pull
  <1>1. PICK g \in Growth(anchor, layers, req[p].now, clock) :
           /\ Complete(Grown(layers, g.added), s)
           /\ layers' = [Grown(layers, g.added) EXCEPT ![s] = 0]
           /\ Grow(g)
    BY DEF PullCommit
  <1>2. Account!Settle(PullCost)
    BY SettleStep, EconomyAssumption DEF PullCommit
  <1>3. ASSUME NEW t \in Slots \ {s} PROVE Account!Ripen(t)
    <2>1. layers'[t] = Grown(layers, g.added)[t]
      BY <1>1 DEF Grown
    <2> QED
      BY <1>1, <2>1, RipenStep
  <1>4. Account!Harvest(s)
    <2> DEFINE full == Grown(layers, g.added)[s]
    <2>1. /\ grown'[s] = MaxLayers * claims[s] + (IF full = None THEN 0 ELSE full)
          /\ full <= MaxLayers /\ full \in Nat \cup {None}
      BY <1>1, GrowLedger
    <2>2. grown[s] = MaxLayers * claims[s] + (IF layers[s] = None THEN 0 ELSE layers[s])
      BY DEF LayerLedger
    <2>3. full = MaxLayers /\ full # None
      BY <1>1, <2>1, CairnAssumption DEF Complete, None
    <2>4. layers[s] # None
      <3>1. req[p].now \in Nat /\ clock \in Nat /\ anchor \in Nat \cup {None}
            /\ layers \in [Slots -> Nat \cup {None}]
        BY DEF TypeOK, Requests
      <3>2. g.added \in [Slots -> Nat] /\ (layers[s] = None => g.added[s] = 0)
        BY <3>1, GrowthType
      <3>3. full = layers[s] + g.added[s]
        BY DEF Grown
      <3> QED
        BY <2>3, <3>2, <3>3 DEF None
    <2>5. layers'[s] = 0
      BY <1>1 DEF Grown
    <2>6. MaxLayers * claims[s] \in Nat /\ layers[s] \in Nat
      BY <2>4, CairnAssumption DEF TypeOK
    <2> HIDE DEF full
    <2>7. grown'[s] = grown[s] + MaxLayers - layers[s]
      BY <2>1, <2>2, <2>3, <2>4, <2>6, CairnAssumption
    <2> QED
      BY <2>4, <2>5, <2>7 DEF Account!Harvest
  <1>5. lastPull' = req[p].at /\ req[p].at \in 0 .. ticks
    BY DEF PullCommit, TypeOK, Requests, AtInv
  <1>6. lastPull # None => lastPull' - lastPull >= Cooldown
    <2> SUFFICES ASSUME lastPull # None PROVE lastPull' - lastPull >= Cooldown
      OBVIOUS
    <2>1. At(p, "tx") /\ GateOpen(p)
      BY DEF PullCommit
    <2>2. nextGacha # None /\ nextGacha <= req[p].now
          /\ req[p].at - lastPull >= req[p].now - (nextGacha - Cooldown)
      BY <2>1 DEF SpacingInv, Holder, SinceLast, GateOpen
    <2> QED
      BY <1>5, <2>2, EconomyAssumption DEF TypeOK, Requests, None
  <1>7. Account!Receive(inv, item) /\ ticks' = ticks
    BY DEF PullCommit, GrantItem, Account!Receive, time
  <1> QED
    BY <1>2, <1>3, <1>4, <1>5, <1>6, <1>7 DEF Account!Pull

\* A vow that waives its materials offers an empty bag.
LEMMA LedgerVow ==
    ASSUME TypeOK, TypeOK', AccrualInv,
           NEW p \in Procs, NEW m \in Materials, NEW reward \in Items, VowCommit(p, m, reward)
    PROVE  Account!Vow
  <1>1. PICK cost \in Charges : AccrueAndPay(cost)
    BY DEF VowCommit
  <1>2. Account!Settle(cost)
    BY <1>1, SettleStep, EconomyAssumption DEF Charges
  <1>3. \E offer \in Offers :
           /\ \A i \in Items : offer[i] <= inv[i]
           /\ Account!Receive([i \in Items |-> inv[i] - offer[i]], reward)
    <2>1. CASE Consume(m) /\ inv' = GrantItem([i \in Items |-> inv[i] - m[i]], reward)
      <3>1. \A i \in Items : m[i] <= inv[i]
        BY <2>1 DEF Consume, TypeOK, Materials
      <3>2. m \in Offers
        BY DEF Offers
      <3> QED
        BY <2>1, <3>1, <3>2 DEF GrantItem, Account!Receive
    <2>2. CASE AllowDebug /\ inv' = GrantItem(inv, reward)
      <3> DEFINE none == [i \in Items |-> 0]
      <3>1. none \in Offers
        BY <2>2 DEF Offers
      <3>2. \A i \in Items : none[i] <= inv[i]
        BY DEF TypeOK
      <3>3. [i \in Items |-> inv[i] - none[i]] = inv
        BY DEF TypeOK
      <3>4. Account!Receive([i \in Items |-> inv[i] - none[i]], reward)
        BY <2>2, <3>3 DEF GrantItem, Account!Receive
      <3> HIDE DEF none
      <3> QED
        BY <3>1, <3>2, <3>4
    <2> QED
      BY <2>1, <2>2 DEF VowCommit
  <1>4. UNCHANGED <<ticks, <<grown, layers>>, lastPull>>
    BY DEF VowCommit, time, cairn, gacha
  <1> QED
    BY <1>1, <1>2, <1>3, <1>4 DEF Account!Vow, Account!cairn

\* Every step of the economy is a step of the ledger, or none.
LEMMA LedgerStep ==
    ASSUME TypeOK, TypeOK', AccrualInv, LayerLedger, SpacingInv, AtInv, [Next]_vars
    PROVE  [Account!Next]_(Account!vars)
  <1> USE DEF Account!vars, Account!account, Account!cairn
  <1>1. ASSUME NEW p \in Procs, NEW s \in Slots, NEW item \in Items, PullCommit(p, s, item)
        PROVE  Account!Next
    BY <1>1, LedgerPull DEF Account!Next
  <1>2. ASSUME NEW p \in Procs, NEW m \in Materials, NEW reward \in Items,
               VowCommit(p, m, reward)
        PROVE  Account!Next
    BY <1>2, LedgerVow DEF Account!Next
  <1>3. ASSUME NEW p \in Procs, Sync(p) PROVE Account!Next
    <2>1. AccrueAndPay(0) /\ UNCHANGED <<ticks, <<grown, layers>>, inv, lastPull>>
      BY <1>3 DEF Sync, time, cairn, gacha, goods
    <2>2. Account!Settle(0)
      BY <2>1, SettleStep
    <2> QED
      BY <2>1, <2>2 DEF Account!Next, Account!Earn
  <1>4. ASSUME NEW p \in Procs, InsertSlot(p) PROVE [Account!Next]_(Account!vars)
    <2> DEFINE s == req[p].i
    <2>1. /\ layers' = [layers EXCEPT ![s] = IF @ = None THEN 0 ELSE @]
          /\ UNCHANGED <<ticks, banked, pts, grown, inv, lastPull>>
      BY <1>4 DEF InsertSlot, time, wallet, gacha, goods
    <2>2. s \in Slots /\ layers \in [Slots -> Nat \cup {None}]
      BY DEF TypeOK, Requests
    <2>3. CASE layers[s] = None
      <3>1. layers' = [layers EXCEPT ![s] = 0]
        BY <2>1, <2>3
      <3> QED
        BY <2>1, <2>2, <2>3, <3>1 DEF Account!Next, Account!OpenSlot
    <2>4. CASE layers[s] # None
      <3>1. layers' = layers
        BY <2>1, <2>2, <2>4
      <3> QED
        BY <2>1, <3>1
    <2> QED
      BY <2>3, <2>4
  <1>5. ASSUME NEW p \in Procs, ApplyGrowthTx(p) PROVE Account!Next
    <2>1. PICK g \in Growth(anchor, layers, req[p].now, clock) :
             layers' = Grown(layers, g.added) /\ Grow(g)
      BY <1>5 DEF ApplyGrowthTx
    <2>2. \A s \in Slots : Account!Ripen(s)
      BY <2>1, RipenStep
    <2>3. UNCHANGED <<ticks, banked, pts, inv, lastPull>>
      BY <1>5 DEF ApplyGrowthTx, time, wallet, gacha, goods
    <2> QED
      BY <2>2, <2>3 DEF Account!Next, Account!Grow
  <1>6. ASSUME NEW p \in Procs, ResetAnchor(p) PROVE UNCHANGED Account!vars
    BY <1>6 DEF ResetAnchor, time, gacha, goods
  <1>7. CASE Tick
    BY <1>7 DEF Tick, Account!Next, Account!Elapse, db, wallet, cairn, gacha, goods
  <1>8. CASE StepBack \/ UNCHANGED <<time, db>>
    BY <1>8 DEF StepBack, time, db, wallet, cairn, gacha, goods
  <1> QED
    BY <1>1, <1>2, <1>3, <1>4, <1>5, <1>6, <1>7, <1>8, RowSteps DEF RowStep

LEMMA LedgerInit == Init => Account!Init
  BY DEF Init, Account!Init

\* For any number of requests, slots, skins and clock corrections, what happens
\* to a player's account is a behaviour of Ledger: points are earned no faster
\* than time passes, every pull and vow happens whole and at once, and nothing
\* a request does on the way, nor an abort or a crash, is visible in between.
THEOREM LedgerImplemented == Spec => ImplementsLedger
  <1>1. TypeOK /\ AccrualInv /\ [Next]_vars => AccrualInv'
    BY AccrualStep
  <1>2. TypeOK /\ SpacingInv /\ [Next]_vars => SpacingInv'
    BY SpacingStep
  <1>3. TypeOK /\ AtInv /\ [Next]_vars => AtInv'
    BY AtStep
  <1>4. TypeOK /\ TypeOK' /\ AccrualInv /\ LayerLedger /\ SpacingInv /\ AtInv /\ [Next]_vars
          => [Account!Next]_(Account!vars)
    BY LedgerStep
  <1> QED
    BY <1>1, <1>2, <1>3, <1>4, AccrualInit, SpacingInit, AtInit, LedgerInit,
       TypeCorrect, LayersConserved, PTL DEF Spec, ImplementsLedger, Account!Spec
=============================================================================
