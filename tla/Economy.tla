------------------------------ MODULE Economy ------------------------------
(***************************************************************************)
(* The game economy of one player: points, WishCairn slots, the gacha      *)
(* cooldown and the inventory, with the requests that read and change      *)
(* them (internal/gacha, internal/vow, internal/player, internal/cairn and *)
(* the economy part of a login in internal/auth).  Every row and key is    *)
(* selected by player_id, so players meet only in the queue for the        *)
(* database connection; Procs are the requests in flight.                  *)
(*                                                                         *)
(* SQLite runs on one connection (pkg/sqlitedb: MaxOpenConns = 1), so a    *)
(* statement or transaction is one step unless something can happen inside *)
(* it.  Only the pull needs two: it reads the clock after Begin, and its   *)
(* accrual reads the clock again later.  `conn` is the request that holds  *)
(* the connection meanwhile.  The cooldown key in the key-value store is   *)
(* read and written outside the transaction.                               *)
(*                                                                         *)
(* Two clocks: `ticks` is time that really passed (Go's monotonic clock,   *)
(* which expires keys); `clock` is the wall clock in seconds, which dates  *)
(* rows and may be set back by as much as MaxSkew in all.                  *)
(***************************************************************************)
EXTENDS Cairn, FiniteSets

CONSTANTS Procs,       \* request goroutines
          Kinds,       \* the requests clients send in this instance
          Rate,        \* enlightenment_rate, points per second
          PullCost,    \* points a pull costs
          Cooldown,    \* seconds between pulls
          Items,       \* skins of the pool
          RarityOf,    \* their rarity order, 1 (Common) .. 5 (Legendary)
          VowSize,     \* required_item_count
          VowCosts,    \* n_power values inside the tier's range
          AllowDebug,  \* APP_ENV = development: vows may carry debug options
          MaxTicks,    \* bound: seconds a behaviour lasts
          MaxVows,     \* bound: vows that commit
          MaxSkew      \* bound: seconds the wall clock is set back

RequestKinds == {"pull", "status", "sync", "state", "vow", "login"}

ASSUME EconomyAssumption ==
    /\ None \notin Procs
    /\ Kinds \subseteq RequestKinds
    /\ Rate \in Nat
    /\ PullCost \in Nat \ {0}
    /\ Cooldown \in Nat \ {0}
    /\ IsFiniteSet(Items)
    /\ RarityOf \in [Items -> 1 .. 5]
    /\ VowSize \in Nat \ {0}
    /\ VowCosts \subseteq Nat
    /\ AllowDebug \in BOOLEAN
    /\ MaxTicks \in Nat
    /\ MaxVows \in Nat
    /\ MaxSkew \in Nat

VARIABLES
    ticks, clock,
    pts, lastSync,        \* player_states: balance, last_sync_at
    nextGacha,            \* player_states.next_gacha_at, or None
    anchor,               \* player_states.cairn_last_growth_at, or None
    layers,               \* wish_cairn_slots.layer_count, None when no row
    inv,                  \* inventories.count (0: no row)
    kv,                   \* the key gacha:cooldown:<player>
    conn,                 \* request inside a pull transaction, or None
    req,                  \* where each request is
    \* History, read by no action: what the ledgers are checked against.
    banked,               \* points ever accrued
    pulls, vows, vowSpent,
    consumed,             \* materials that vows took from the inventory
    grown, claims,        \* layers ever grown, and pulls, per slot
    windows,              \* growth steps the anchor was moved by
    lastPull              \* ticks at which the last pull passed its gate

wallet == <<pts, lastSync, banked>>
cairn  == <<anchor, layers, grown, windows>>
gacha  == <<nextGacha, pulls, claims, lastPull>>
goods  == <<inv, vows, vowSpent, consumed>>
db     == <<wallet, cairn, gacha, goods>>
time   == <<ticks, clock>>
vars   == <<time, db, kv, conn, req>>

----------------------------------------------------------------------------
(* The key-value store: an entry keeps the tick it expires at, or Never.   *)
Never == -2
NoEntry == [val |-> None, exp |-> Never]

\* MemStore.Set: only a positive ttl sets an expiry.
Entry(val, ttl) == [val |-> val, exp |-> IF ttl > 0 THEN ticks + ttl ELSE Never]

\* getEntry: a key is gone once the time is after its expiry.
Hit == kv # NoEntry /\ (kv.exp = Never \/ ticks <= kv.exp)

----------------------------------------------------------------------------
(* Requests. *)
Idle == [pc |-> "idle", kind |-> "none", now |-> 0, at |-> 0, val |-> None, i |-> 0]

At(p, pc) == req[p].pc = pc
Start(p, kind, pc) ==
    /\ At(p, "idle")
    /\ kind \in Kinds
    /\ req' = [req EXCEPT ![p] = [Idle EXCEPT !.pc = pc, !.kind = kind]]
Goto(p, pc) == req' = [req EXCEPT ![p].pc = pc]
Done(p) == req' = [req EXCEPT ![p] = Idle]

ConnFree == conn = None

CoolingDown(at) == at # None /\ clock < at

(***************************************************************************)
(* Pull and Status call getNextGachaAt.  A live key answers; a pull goes   *)
(* on when the answer is not in the future, and is refused otherwise,      *)
(* which changes nothing.  Status only reports.                            *)
(***************************************************************************)
CheckHit(p) ==
    /\ Hit /\ ~CoolingDown(kv.val)
    /\ Start(p, "pull", "begin")
    /\ UNCHANGED <<time, db, kv, conn>>

CheckMiss(p) ==
    /\ ~Hit
    /\ \E k \in {"pull", "status"} : Start(p, k, "read")
    /\ UNCHANGED <<time, db, kv, conn>>

\* What follows the answer `at`: a pull that is not refused enters execPull.
Answered(p, at) ==
    IF req[p].kind = "pull" /\ ~CoolingDown(at)
    THEN req' = [req EXCEPT ![p] = [Idle EXCEPT !.pc = "begin", !.kind = "pull"]]
    ELSE Done(p)

\* The DB fallback: SELECT next_gacha_at, and the test that guards kv.Set.
ReadCooldown(p) ==
    /\ At(p, "read") /\ ConnFree
    /\ IF CoolingDown(nextGacha)
       THEN req' = [req EXCEPT ![p].pc = "fill", ![p].val = nextGacha]
       ELSE Answered(p, nextGacha)
    /\ UNCHANGED <<time, db, kv, conn>>

\* kv.Set(key, nextAt, time.Until(nextAt)): the ttl is computed from a later
\* reading of the clock than the test, and may have become zero.
FillCooldown(p) ==
    /\ At(p, "fill")
    /\ kv' = Entry(req[p].val, req[p].val - clock)
    /\ Answered(p, req[p].val)
    /\ UNCHANGED <<time, db, conn>>

----------------------------------------------------------------------------
\* Variant: without MAX(0, ..).
AccruedSigned == Rate * (clock - lastSync)

(* Points accrue for the time since last_sync_at, never a negative one.    *)
Accrued == Rate * (IF clock > lastSync THEN clock - lastSync ELSE 0)

\* Variant: the balance is not compared with the cost.
AccrueAndOverdraw(cost) ==
    /\ pts' = pts + Accrued - cost
    /\ lastSync' = clock
    /\ banked' = banked + Accrued

\* Variant: last_sync_at stays.
AccrueAgain(cost) ==
    /\ pts + Accrued >= cost
    /\ pts' = pts + Accrued - cost
    /\ lastSync' = lastSync
    /\ banked' = banked + Accrued

\* The one UPDATE that accrues, deducts and moves last_sync_at.
AccrueAndPay(cost) ==
    /\ pts + Accrued >= cost
    /\ pts' = pts + Accrued - cost
    /\ lastSync' = clock
    /\ banked' = banked + Accrued

\* Anchor and ledger part of ApplyGrowth; layers' is left to the caller.
Grow(g) ==
    /\ anchor' = g.anchor
    /\ grown' = Grown(grown, g.added)
    /\ windows' = windows + g.windows

----------------------------------------------------------------------------
\* GrantItem: upsert, a new row counts one.  Variant: a duplicate overwrites.
GrantOnce(bag, item) == [bag EXCEPT ![item] = 1]
GrantItem(bag, item) == [bag EXCEPT ![item] = @ + 1]

(* execPull *)
\* Variant: the cooldown is cached before the transaction decides.
PullBeginCaching(p) ==
    /\ At(p, "begin") /\ ConnFree
    /\ conn' = p
    /\ kv' = Entry(clock + Cooldown, Cooldown)
    /\ req' = [req EXCEPT ![p].pc = "tx", ![p].now = clock, ![p].at = ticks]
    /\ UNCHANGED <<time, db>>

PullBegin(p) ==
    /\ At(p, "begin") /\ ConnFree
    /\ conn' = p
    /\ req' = [req EXCEPT ![p].pc = "tx", ![p].now = clock, ![p].at = ticks]
    /\ UNCHANGED <<time, db, kv>>

\* The cooldown gate inside the transaction.  Variant: only the earlier check.
NoGate(p) == TRUE
GateOpen(p) == nextGacha = None \/ nextGacha <= req[p].now

PullCommit(p, s, item) ==
    /\ At(p, "tx") /\ GateOpen(p)
    /\ \E g \in Growth(anchor, layers, req[p].now, clock) :
          LET full == Grown(layers, g.added)
          IN  /\ Complete(full, s)
              /\ layers' = [full EXCEPT ![s] = 0]
              /\ Grow(g)
    /\ AccrueAndPay(PullCost)
    /\ nextGacha' = req[p].now + Cooldown
    /\ inv' = GrantItem(inv, item)
    /\ pulls' = pulls + 1
    /\ claims' = [claims EXCEPT ![s] = @ + 1]
    /\ lastPull' = req[p].at
    /\ conn' = None
    /\ req' = [req EXCEPT ![p] = [Idle EXCEPT !.pc = "cool", !.kind = "pull",
                                              !.val = req[p].now + Cooldown]]
    /\ UNCHANGED <<time, vows, vowSpent, consumed, kv>>

\* COOLDOWN_ACTIVE from the gate: rolled back, then getNextGachaAt again.
PullGateReject(p) ==
    /\ At(p, "tx") /\ ~GateOpen(p)
    /\ conn' = None
    /\ IF Hit THEN Done(p)
       ELSE req' = [req EXCEPT ![p] = [Idle EXCEPT !.pc = "read", !.kind = "status"]]
    /\ UNCHANGED <<time, db, kv>>

\* After the commit: setCooldown.
SetCooldown(p) ==
    /\ At(p, "cool")
    /\ kv' = Entry(req[p].val, Cooldown)
    /\ Done(p)
    /\ UNCHANGED <<time, db, conn>>

----------------------------------------------------------------------------
(* Pray: an exact number of materials below Legendary fixes base and       *)
(* target rarity; one transaction pays, consumes them and grants a skin    *)
(* of the target rarity (success) or the base rarity (failure).            *)
Materials ==
    {m \in [Items -> 0 .. VowSize] :
        /\ SumFunction(m) = VowSize
        /\ \A i \in Items : m[i] > 0 => RarityOf[i] < 5}

\* floor(average + 0.5)
BaseRarity(m) ==
    (2 * SumFunction([i \in Items |-> RarityOf[i] * m[i]]) + VowSize) \div (2 * VowSize)

VowStart(p) ==
    /\ Start(p, "vow", "pray")
    /\ UNCHANGED <<time, db, kv, conn>>

\* infinite_n_power makes a vow free.
Charges == IF AllowDebug THEN VowCosts \cup {0} ELSE VowCosts

\* Every stack must hold what the request names.
Consume(m) ==
    /\ \A i \in Items : inv[i] >= m[i]
    /\ consumed' = consumed + VowSize

VowCommit(p, m, reward) ==
    /\ At(p, "pray") /\ ConnFree
    /\ vows < MaxVows
    /\ \E cost \in Charges :
          /\ AccrueAndPay(cost)
          /\ vowSpent' = vowSpent + cost
    /\ RarityOf[reward] \in {BaseRarity(m), BaseRarity(m) + 1}
    /\ \/ /\ Consume(m)
          /\ inv' = GrantItem([i \in Items |-> inv[i] - m[i]], reward)
       \/ /\ AllowDebug     \* ignore_required_items
          /\ inv' = GrantItem(inv, reward)
          /\ UNCHANGED consumed
    /\ vows' = vows + 1
    /\ Goto(p, "reload")
    /\ UNCHANGED <<time, cairn, gacha, kv, conn>>

\* loadInventory after the commit: the answer is lost when it fails (Abort).
VowReload(p) ==
    /\ At(p, "reload") /\ ConnFree
    /\ Done(p)
    /\ UNCHANGED <<time, db, kv, conn>>

----------------------------------------------------------------------------
(* Sync, GetState and the economy part of a login. *)
Sync(p) ==
    /\ ConnFree
    /\ AccrueAndPay(0)
    /\ Start(p, "sync", "sample")
    /\ UNCHANGED <<time, cairn, gacha, goods, kv, conn>>

\* LoadSlots, and the lazy InitializeSlots when rows are missing.
GetState(p) ==
    /\ ConnFree
    /\ Start(p, "state", IF Initialized(layers) THEN "sample" ELSE "init")
    /\ UNCHANGED <<time, db, kv, conn>>

Login(p) ==
    /\ Start(p, "login", "init")
    /\ UNCHANGED <<time, db, kv, conn>>

\* InitializeSlots: one INSERT .. ON CONFLICT DO NOTHING per slot, no transaction.
InsertSlot(p) ==
    /\ At(p, "init") /\ ConnFree
    /\ LET i == req[p].i
           last == i + 1 = SlotCount
       IN  /\ layers' = [layers EXCEPT ![i] = IF @ = None THEN 0 ELSE @]
           /\ req' = [req EXCEPT
                ![p].i = IF last THEN 0 ELSE i + 1,
                ![p].pc = IF ~last THEN "init"
                          ELSE IF req[p].kind = "state" THEN "sample" ELSE "reset"]
    /\ UNCHANGED <<time, wallet, anchor, grown, windows, gacha, goods, kv, conn>>

\* time.Now() is evaluated before ApplyGrowthTx asks for the connection.
SampleNow(p) ==
    /\ At(p, "sample")
    /\ req' = [req EXCEPT ![p].pc = "grow", ![p].now = clock]
    /\ UNCHANGED <<time, db, kv, conn>>

ApplyGrowthTx(p) ==
    /\ At(p, "grow") /\ ConnFree
    /\ \E g \in Growth(anchor, layers, req[p].now, clock) :
          /\ layers' = Grown(layers, g.added)
          /\ Grow(g)
    /\ Done(p)
    /\ UNCHANGED <<time, wallet, gacha, goods, kv, conn>>

\* resetAccrualAnchor, once the session is established.
ResetAnchor(p) ==
    /\ At(p, "reset") /\ ConnFree
    /\ lastSync' = clock
    /\ anchor' = clock
    /\ Done(p)
    /\ UNCHANGED <<time, pts, banked, layers, grown, windows, gacha, goods, kv, conn>>

----------------------------------------------------------------------------
\* Variants: the connection is not given back; the payment is committed apart
\* from the claim it pays for.
RollbackKeepingConn(p) ==
    /\ At(p, "tx") \/ (At(p, "pray") /\ ConnFree)
    /\ Done(p)
    /\ UNCHANGED <<time, db, kv, conn>>

RollbackCharging(p) ==
    /\ At(p, "tx") \/ (At(p, "pray") /\ ConnFree)
    /\ Done(p)
    /\ conn' = None
    /\ pts' = pts - (IF pts >= PullCost THEN PullCost ELSE 0)
    /\ UNCHANGED <<time, lastSync, banked, cairn, gacha, goods, kv>>

\* A transaction that ends without a commit: slot incomplete or missing, too
\* few points or materials, no skin of the rarity, a failing statement.  The
\* deferred Rollback frees the connection and leaves every row alone.
Rollback(p) ==
    /\ At(p, "tx") \/ (At(p, "pray") /\ ConnFree)
    /\ Done(p)
    /\ conn' = None
    /\ UNCHANGED <<time, db, kv>>

(* Environment. *)

\* Between two steps: a failed statement or key-value call, a request whose
\* client left, a login that stops before its last step.
Abort(p) ==
    /\ ~At(p, "idle") /\ ~At(p, "tx")
    /\ Done(p)
    /\ UNCHANGED <<time, db, kv, conn>>

\* The process dies: committed rows stay.  MemStore is lost, Redis is not.
Crash ==
    /\ req' = [p \in Procs |-> Idle]
    /\ conn' = None
    /\ kv' \in {NoEntry, kv}
    /\ UNCHANGED <<time, db>>

Tick ==
    /\ ticks < MaxTicks
    /\ ticks' = ticks + 1
    /\ clock' = clock + 1
    /\ UNCHANGED <<db, kv, conn, req>>

\* The wall clock is corrected backwards.
StepBack ==
    /\ clock > 0
    /\ ticks - clock < MaxSkew
    /\ clock' = clock - 1
    /\ UNCHANGED <<ticks, db, kv, conn, req>>

----------------------------------------------------------------------------
\* A player row just created, with no slot rows yet, or an older one whose slots
\* the server completed at boot (sqlitedb.New); no anchor, nothing owned.
Init ==
    /\ ticks = 0 /\ clock = 0
    /\ pts = 0 /\ lastSync = 0 /\ banked = 0
    /\ nextGacha = None /\ lastPull = None /\ pulls = 0
    /\ anchor = None /\ windows = 0
    /\ layers \in {[s \in Slots |-> None], [s \in Slots |-> 0]}
    /\ grown = [s \in Slots |-> 0] /\ claims = [s \in Slots |-> 0]
    /\ inv = [i \in Items |-> 0] /\ vows = 0 /\ vowSpent = 0 /\ consumed = 0
    /\ kv = NoEntry
    /\ conn = None
    /\ req = [p \in Procs |-> Idle]

PullStep(p) ==
    \/ CheckHit(p) \/ CheckMiss(p) \/ ReadCooldown(p) \/ FillCooldown(p)
    \/ PullBegin(p) \/ PullGateReject(p) \/ Rollback(p) \/ SetCooldown(p)
    \/ \E s \in Slots, item \in Items : PullCommit(p, s, item)

VowStep(p) ==
    \/ VowStart(p) \/ VowReload(p)
    \/ \E m \in Materials, reward \in Items : VowCommit(p, m, reward)

PlayerStep(p) ==
    \/ Sync(p) \/ GetState(p) \/ Login(p) \/ InsertSlot(p)
    \/ SampleNow(p) \/ ApplyGrowthTx(p) \/ ResetAnchor(p)

Next ==
    \/ \E p \in Procs : PullStep(p) \/ VowStep(p) \/ PlayerStep(p) \/ Abort(p)
    \/ Crash \/ Tick \/ StepBack

Spec == Init /\ [][Next]_vars

(***************************************************************************)
(* A request that is running keeps running: goroutines are scheduled (WF)  *)
(* and database/sql hands a freed connection to a waiting request (SF).    *)
(* New requests, crashes and the clock are not obliged to happen.          *)
(***************************************************************************)
Advance(p) == ~At(p, "idle") /\ (PullStep(p) \/ VowStep(p) \/ PlayerStep(p))

FairSpec == Spec /\ \A p \in Procs : SF_vars(Advance(p))

----------------------------------------------------------------------------
PCs == {"idle", "read", "fill", "begin", "tx", "cool", "pray", "reload",
        "sample", "grow", "init", "reset"}

Requests == [pc : PCs, kind : RequestKinds \cup {"none"}, now : Nat, at : Nat,
             val : Nat \cup {None}, i : Slots]

\* Every variable holds a value of its column's or key's type; the wall clock
\* is never ahead of the time that passed.
TypeOK ==
    /\ ticks \in Nat /\ clock \in 0 .. ticks
    /\ pts \in Nat /\ lastSync \in Nat /\ banked \in Nat
    /\ nextGacha \in Nat \cup {None} /\ lastPull \in Nat \cup {None}
    /\ anchor \in Nat \cup {None}
    /\ layers \in [Slots -> Nat \cup {None}]
    /\ grown \in [Slots -> Nat] /\ claims \in [Slots -> Nat]
    /\ windows \in Nat /\ pulls \in Nat /\ vows \in Nat /\ vowSpent \in Nat
    /\ consumed \in Nat
    /\ inv \in [Items -> Nat]
    /\ kv \in [val : Nat \cup {None}, exp : Nat \cup {Never}]
    /\ conn \in Procs \cup {None}
    /\ req \in [Procs -> Requests]

----------------------------------------------------------------------------
(* Ledgers. *)

\* The balance is what was accrued less what committed pulls and vows cost: no
\* interleaving, rollback or crash charges without a purchase or grants one
\* that was not paid (execPull steps 1+2, execPray step 1).
WalletLedger == pts = banked - PullCost * pulls - vowSpent /\ pts >= 0

\* No second is credited twice, whichever of sync, pull, vow and login accrue
\* or reset last_sync_at concurrently and however the wall clock is set back
\* ("one UPDATE", player.go 66-67, gacha.go 279-283).
NoDoubleAccrual == banked <= Rate * ticks

\* Every layer a slot ever grew is in the slot or was consumed by a pull that
\* took exactly MaxLayers of them: growth inside a pull, in other requests and
\* the reset to 0 neither lose nor duplicate layers, and no slot passes
\* MaxLayers (cairn.go 293-297, the claim in execPull step 0).
LayerLedger ==
    \A s \in Slots :
        /\ grown[s] = MaxLayers * claims[s] + (IF layers[s] = None THEN 0 ELSE layers[s])
        /\ layers[s] <= MaxLayers

\* Growth is never faster than one step per Interval, however many requests
\* apply it with whatever stale `now` (the CAS on the anchor): as long as the
\* wall clock was not set back, the windows consumed fit the time that passed.
GrowthPaced == ticks = clock => Interval * windows <= ticks

\* Every item came from a committed pull or vow and left through a vow's
\* materials: an upsert, a consumed stack or a rollback loses or mints none.
ItemLedger ==
    /\ SumFunction(inv) = pulls + vows - consumed
    /\ \A i \in Items : inv[i] >= 0

\* A key that turns a pull away does so only while the row would, too: no fill
\* from an old read, late setCooldown or transaction that was rolled back leaves
\* a cooldown in the cache that outlives the row's (the fast path of Pull).
FastPathJustified == Hit /\ CoolingDown(kv.val) => CoolingDown(nextGacha)

\* Two committed pulls are at least Cooldown apart in time that really passed,
\* whatever both read before their transactions (the gate, gacha.go 217-234).
PullSpacing ==
    [][pulls' # pulls /\ lastPull # None => lastPull' - lastPull >= Cooldown]_vars

\* Only a committed purchase lowers the balance: accrual never does, not even
\* when last_sync_at is in the future (MAX(0, ..), player.go 74).
OnlyPurchasesCharge ==
    [][pts' < pts => pulls' + vows' = pulls + vows + 1]_vars

\* A growth window is consumed only by distributing it: each of its steps adds
\* one layer, unless the cairn became full (cairn.go 232-236: missing slots must
\* keep the anchor, a full cairn must not), and nothing else adds layers.
NoGrowthLost ==
    [][LET added == SumFunction(grown') - SumFunction(grown)
           steps == windows' - windows
       IN  /\ added <= steps
           /\ added < steps => \A s \in Slots : grown'[s] = MaxLayers * (claims[s] + 1)]_vars

\* Bags of materials a vow may take; none when a debug option waives them.
Offers == Materials \cup (IF AllowDebug THEN {[i \in Items |-> 0]} ELSE {})

(***************************************************************************)
(* The account a player sees: rows and history, without cache, connection, *)
(* requests in flight, growth anchor and wall clock.                       *)
(***************************************************************************)
Account == INSTANCE Ledger WITH
    elapsed <- ticks, earned <- banked, points <- pts, bag <- inv, Prices <- Charges

\* Every purchase is atomic to the player: each step of any request, failed
\* statement, crash or clock correction is one step of Ledger or none (the
\* transactions of execPull and execPray, the single UPDATEs of Sync and
\* resetAccrualAnchor).
ImplementsLedger == Account!Spec

\* Every request ends: a transaction always gives the only connection back, so
\* nobody waits for it forever (MaxOpenConns = 1, the deferred Rollback).
RequestsEnd == \A p \in Procs : ~At(p, "idle") ~> At(p, "idle")
=============================================================================
