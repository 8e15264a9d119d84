# A TLA+ model of stone_server

stone_server is the game server of an idle game: a Go (gin) HTTP server with one
SQL database and a key-value store. Players log in with a Steam ticket, collect
points and WishCairn layers while they play, and spend both on gacha pulls and
vows. This directory models the parts of it in which requests, the clock, the
cache and failures meet, and the rules they apply, checks them with TLC and proves
the central properties with TLAPS.

1. [Inventory](#1-inventory)
2. [Modules, and how they correspond to the code](#2-modules-and-how-they-correspond-to-the-code)
3. [Runs](#3-runs)
4. [Findings](#4-findings)
5. [Proofs](#5-proofs)
6. [Assumptions and limits](#6-assumptions-and-limits)
7. [Plan](#7-plan)

## 1. Inventory

Paths are relative to `src/`.

| Component | State it keeps | Operations | Correct when | Modelled |
|---|---|---|---|---|
| WishCairn growth `internal/cairn` | `wish_cairn_slots.layer_count`, `player_states.cairn_last_growth_at` | `InitializeSlots`, `LoadSlots`, `ApplyGrowth`, `ApplyGrowthTx` | every window of growth is applied once, to one slot, never past the top; a window is not lost | Cairn, Economy; CairnSeed (choice of slot) |
| Gacha `internal/gacha` | points, `next_gacha_at`, `gacha_logs`, inventory, the cooldown key | `Pull`, `Status`, `Logs` | a pull costs once, takes exactly a complete slot, and two are a cooldown apart; the cache only speeds up a refusal | Economy |
| Vow `internal/vow` | points, inventory, `vow_logs` | `Pray` | payment, materials and reward change together or not at all; base rarity and chance follow the materials and the tier | Economy; Catalog (rules) |
| Player `internal/player` | points, `last_sync_at` | `Sync`, `GetState` | a stretch of time is credited once | Economy |
| Login `internal/auth/handler.go` | `players`, `player_states`, streak, anchors, used tickets | `AuthSteam`, `AuthDev`, `DevToken` | a ticket logs in once; a failed login changes nothing of the live session; a streak counts days | Session (keys), Economy (rows), Streak |
| Sessions `internal/auth/{session,refresh,logout}.go` | `session:*`, `session:current:*`, `session:lock:*`, `refresh*`, `ticket:used:*` | single-session swap, `AuthRefresh`, `AuthLogout` | one JWT at most is accepted as long as calls do not fail; a refresh token is good once; no lock outlives its holder for good | Session |
| JWT middleware `internal/middleware/jwt.go` | none | accepts a JWT whose `session:<jti>` exists | | `Accepted` of Session |
| Achievements `internal/achievement` | `player_achievements`, `achievement_retry_queue`, list `ach:retry` | `Unlock`, `List`, worker, reload at boot | an unlock reaches Steam eventually or is dead-lettered; bounded retries, in order | AchievementRetry |
| Rate limiter `internal/middleware/ratelimit.go` | counter per client and endpoint | `incrRateLimit` | at most limit per window of a counter, hence twice that in any stretch; no client is refused for good | RateLimit |
| Key-value store `pkg/kvstore` | values with expiry, lists | `MemStore` calls, sweeper | a key with a ttl disappears, calls are atomic | KVMap, MemStore; the lists in AchievementRetry |
| Database `pkg/sqlitedb`, `pkg/store` | the rows; one connection | statements, transactions, boot backfill | transactions are atomic; the connection comes back | as the environment of Economy |
| Economy audit `internal/diag` | none, reads the logs | reconcile logs with balance | reports a break only if there is one | Audit |
| Skin pool, random numbers `internal/gacha/{pool,rng}.go` | loaded once | parse, weighted rolls, picks | no row is dropped unnoticed; every rarity has a skin | Catalog |
| Steam client `internal/auth/steam.go` | external | verify a ticket | | accepts, refuses or fails |
| Start and shutdown `cmd/server/main.go` | | boot, signal, drain | | crash at any moment; boot reload, signal and drain in AchievementRetry |
| Configuration `pkg/gameconfig` | loaded once | load and validate | what is accepted makes every rule well defined | Catalog (vow tiers), assumptions on constants |
| Logging, recovery, health, time sync, stubs, environment | no shared state | | | no |
| PostgreSQL store, migrations, Redis adapter | dormant mode | | | no; a store that survives a restart is modelled |

**Interactions.** Every request is a goroutine. Requests of one player meet in
the rows of that player, in the key-value store and in the queue for the single
SQLite connection (`SetMaxOpenConns(1)`, `pkg/sqlitedb/sqlitedb.go:144`).
`cairn.ApplyGrowth` is called inside the transaction of a pull and inside a
transaction of its own by sync and state. A login ends by resetting the anchors
the economy accrues from. The audit reads the rows pulls and vows log. The rate
limiter runs before every handler and shares only the store with them.
`enforceSingleSession` and `storeRefreshToken` are
shared by login and refresh. The achievement worker shares list and table with
the unlock handler.

**What is hard.** A check before a transaction that is stale inside it; wall
clock readings taken before the connection is granted, or twice for one
decision; a wall clock set back; the cache filled from an old read while a pull
commits; a crash between commit and cache; slots that are inserted one by one
while others read them; key-value calls that are atomic one at a time only, a
lock with a ttl, a lost reply, a handler that dies in its critical section. The
list, at its lines, is under `hazards` in `PROJECT.json`.

## 2. Modules, and how they correspond to the code

| Module | Models | Variables | Read it with |
|---|---|---|---|
| `Cairn` | the growth arithmetic | none | `internal/cairn/cairn.go` |
| `Economy` | one player's points, slots, cooldown, inventory, and the requests in flight | rows, cooldown key, connection, clocks, requests | gacha, vow, player, cairn, the end of a login |
| `Ledger` | what the economy promises a player, in whole steps | account | the contract Economy implements |
| `Session` | one player's session and token keys, and the handlers in flight | keys, requests | `internal/auth`, `middleware/jwt.go` |
| `AchievementRetry` | achievements on their way to Steam: unlocks, list, table, worker, boot | tables, list, worker, requests, Steam | `internal/achievement`, `cmd/server/main.go` |
| `KVMap` | what callers expect of the key-value store | map, last answer | `pkg/kvstore/kvstore.go` |
| `MemStore` | the in-memory store: lazy expiry, sweeper | entries, last answer | `pkg/kvstore/memory.go` |
| `RateLimit` | the limiter of one identifier and route, over `KVMap` | store, requests | `internal/middleware/ratelimit.go` |
| `Audit` | the logs the economy writes and the audit's verdict on them | clock, balance, log | `internal/diag/economy.go` |
| `Catalog` | loading of skins and tiers, rules of rolls and vows | pool, statistics, tiers, last vow | `gacha/pool.go`, `gacha/rng.go`, `pkg/gameconfig`, `internal/vow` |
| `CairnSeed` | the indexed choice of slots in growth | slots | `cairn.go`, step 5 of `ApplyGrowth` |
| `Streak` | the daily login streak | date, row | `updateLoginStreak` |
| `Rules` | Catalog, CairnSeed and Streak, each through its own states | | |
| `EconomyProofs`, `SessionProofs`, `AchievementRetryProofs`, `RateLimitProofs`, `MemStoreProofs`, `AuditProofs`, `RulesProofs` | theorems about the module of that name | | |
| `Sums` | lemmas about sums over finite sets, and about induction | | |
| `MC...` | instances for TLC | | |

How they are composed: Economy uses Cairn's operators and implements Ledger;
RateLimit is built on KVMap, which MemStore implements, so what holds of the
limiter over KVMap holds of the limiter over MemStore; CairnSeed shows that
Cairn's nondeterminism is exactly what the code's choice of slots can yield;
Catalog's `Base` is Economy's `BaseRarity`, and its `RewardsExist` is what lets
Economy take any skin of the rarity.

Economy and Session meet in a login: Session's `AnswerLogin` stands where
Economy's `ResetAnchor` is (`handler.go`, the last step before the answer). They
share no key and no row, so they are checked apart. AchievementRetry reads the
economy only to decide whether an achievement's condition is met, which it takes
for granted, and shares nothing else.

### Cairn

`Growth(anchor, layers, now, clock)` is the set of outcomes of `ApplyGrowth`: a
NULL anchor heals to the database's time, a short window or missing slots change
nothing, otherwise the anchor moves by whole intervals and the steps are spread
over the slots. The code picks the slot of a step by hashing player and second,
probing on past complete slots; the model lets any distribution happen that does
not pass `MaxLayers` and drops steps only when all slots are full. Everything
checked or proved therefore holds for whatever the hash yields.

### Economy

Each request is a record in `req`: its place `pc`, its kind, the times it has
sampled and the cooldown value it carries. Between any two steps other requests
run, the clock ticks or is set back, the request's step fails (`Abort`), or the
server dies (`Crash`).

| Step | Code |
|---|---|
| `CheckHit`, `CheckMiss`, `ReadCooldown`, `FillCooldown` | `Pull`/`Status` → `getNextGachaAt`: key, DB fallback, cache fill |
| `PullBegin`, `PullCommit`, `PullGateReject`, `Rollback` | `execPull`: Begin and clock reading; gate, growth, claim, payment, grant, commit; refused at the gate; any other early return |
| `SetCooldown` | `Pull` after the commit |
| `VowStart`, `VowCommit`, `Rollback`, `VowReload` | `Pray`, `execPray`, `loadInventory`; `AllowDebug` adds vows that are free or take no materials |
| `Sync`, `GetState`, `InsertSlot`, `SampleNow`, `ApplyGrowthTx` | `player.Sync`, `player.GetState`, `cairn.InitializeSlots`, `cairn.ApplyGrowthTx` |
| `Login`, `InsertSlot`, `ResetAnchor` | `initPlayerState`, `resetAccrualAnchor` |

SQLite has one connection, so a transaction is one step unless something
observable happens inside: a pull reads the clock after `Begin` and the database
reads its own clock later, so a pull takes two steps and holds `conn` in
between. `time.Now()` in `ApplyGrowthTx(ctx, .., time.Now())` is evaluated before
the connection is granted: `SampleNow` and `ApplyGrowthTx` are two steps.

`ticks` counts seconds that really passed, the time by which keys expire (Go's
monotonic clock); `clock` is the wall clock, which dates the rows.

The variables `banked`, `pulls`, `vows`, `vowSpent`, `consumed`, `grown`, `claims`,
`windows` and `lastPull` are history: no guard reads them.

### Session

The keys of one player and, per request, the place in its handler. One step is
one call of the key-value store. A login and a refresh create a jti and a
refresh token together, so both are named by one number. A step that writes may
also fail before its effect (`Fail`) or lose its reply after it (`Reply`,
`ReplyLocked`), `MaxFaults` times in all; where the code defers a release, the failure goes there. Where it
ignores an error (the `Get` and `Del` of `enforceSingleSession` and `logoutSession`,
the deletes of lock, ticket and lookup) the handler goes on whether or not the call
did anything. `spared`, a history, collects the live sessions left behind that way
(`ReadCurrent` reads nothing, `EvictOld` deletes nothing) and those whose pointer
another session's logout deleted. `Call(effect, error)` is a call that either has
its effect or fails. Locks
lose their key by `ExpireLock` and `ExpireRefreshLock`; `SlowHolders` says
whether that may happen while the holder still runs. `Crash` ends all handlers
without their deferred calls and keeps the keys (`StoreSurvives`, Redis) or
loses them (MemStore).

| Step | Code |
|---|---|
| `ClaimTicket`, `VerifyTicket`, `AnswerLogin`, `ReleaseTicket` | `AuthSteam`, `claimTicket`, `releaseTicket` |
| `LockSession` .. `UnlockSession` | `enforceSingleSession` |
| `StoreToken`, `StoreLookup` | `storeRefreshToken` |
| `LookupToken` .. `UnlockRefresh` | `AuthRefresh` |
| `LogoutRead`, `LogoutDelete` | `AuthLogout`, `logoutSession` |

### AchievementRetry

An item is a player's achievement, one the condition of which is met. Each
statement, each list call and each call to Steam is a step. Steam may refuse at
any time, or accept and lose the reply. What fails in the server itself (a
statement, a list call, a panic, the process) is a `Fault`, and at most
`MaxFaults` of them happen; after a signal the worker's calls may fail without
limit, as its context has ended.

| Step | Code |
|---|---|
| `UnlockCheck`, `InsertUnlock`, `UnlockSteam`, `UnlockMark` | `Handler.Unlock` |
| `PushItem`, `InsertRow` | `enqueueRetry` |
| `WorkerTick`, `WorkerPop`, `WorkerRequeue` | `Worker.run`, `processBatch` |
| `WorkerSteam`, `WorkerCount`, `WorkerMark`, `WorkerResolve` | `processOne` |
| `WorkerPanic` | the recover of `Worker.run` and the restart in `Start` |
| `BootQuery`, `BootDrain`, `BootLoad` | `ReloadPendingRetries` |
| `Signal`, `Exit`, `Crash` | `main` from `<-ctx.Done()` on; the end of the process otherwise |

`steam` is what Steam knows, and `line` is history: the order in which items
entered the list since the boot.

### Ledger

Points are credited at most as fast as time passes, a purchase happens as a
whole, slots ripen and are harvested; there is no request, transaction,
connection, cache or wall clock. The mapping of `Economy!Account` takes `ticks` to
`elapsed`, `banked` to `earned`, the rows to the rest, and drops everything else,
so every step of a request that does not commit is a stutter.

### KVMap, MemStore

An entry of KVMap holds the seconds it has left and vanishes with the second
after the last. MemStore keeps it until a call on its key, or the sweeper, finds
it expired. `Seen` maps the one to the other, and `answer`, what the last call
returned, is part of both, so the refinement compares what callers can see. The
list calls of the interface are modelled where they are used (AchievementRetry).

### RateLimit

A request is `FirstHit` (SetNX), then `Increment` (IncrBy) if the counter was there,
then `Rearm` (Expire) if IncrBy created it anew, then `Drop` (Del) if that failed.
`store` is the one main has chosen, MemStore or Redis. `CallFails` is a call the store
refuses, with Redis also one whose client left (`Leave`). `ReplyLost` is a call Redis
carries out whose answer does not arrive. `Crash` restarts the server; Redis keeps its
keys.

Three variables are history. `recent[age]` counts the requests let through as counted
in the last `age` seconds, whatever became of their counter; `forgiven[age]` counts
those that counters dropped (`Drop`) or lost with the server in the last `age` seconds
had let through, so that `WindowLimit` bounds what really passed and names the excess
a dropped counter causes. `stranded` says that a counter was left without a ttl: a
request could neither arm nor drop it, died with the server or never learnt that it
created it.

### Audit

`Pay` and `Insert` are the two statements that change the balance and write the row;
SQLite reads the clock once per statement, so up to `MaxStall` seconds may lie
between them. As in Economy `ticks` is real time and `clock` the wall clock, which may
be set back at any moment; an elapsed time below zero accrues nothing (`MAX(0, ..)`).
`synced` and `wrote`, what syncs banked before a row and when it was really written,
are history. `Orders` and what follows are the report, operators on the log. The
code sorts by second and balances and breaks ties by the row's id, which is random:
`Orders` is the set of all sorted arrangements, and the properties are for each.

### Catalog, CairnSeed, Streak

| Step | Code |
|---|---|
| `ReadRow` (`SkipRow`, `DuplicateRow`, `LoadRow`), `EndOfSkins` | `parseSkinPool`, main's refusal |
| `LoadConfig` | `gameconfig.Load`, `buildVowTiers`, `vow.NewHandler` |
| `Pray` | validation of `Pray`, `computeRarities`; `RateTimesWidth` is `calcSuccessRate` |
| `Amount`, `RaritySum`, `Base` | the loop and the average of `computeRarities` |
| `RarityOfRoll`, `Draws` | `determineRarity`, `Roll`, `PickByRarity` |
| `Seeded`, `GrowSeeded` | step 5 of `ApplyGrowth`; `growthSeed` may yield anything |
| `LoginToday` | `updateLoginStreak` |

They share no state; `Rules` lets one of them move per behaviour.

## 3. Runs

| Run | Question | Bounds | Result |
|---|---|---|---|
| `economy_pull` | do wallet, layers, growth windows and cooldown hold for pulls, status reads, syncs and logins with a stale or lost cache and a clock set back, and is it all a Ledger to the player? | 2 requests, 2 slots of 1 layer, 2 s windows, cooldown 2 s, 5 s, 1 s of skew | holds, 1.8 M states |
| `economy_vow` | are items and points conserved when vows (with debug options) and pulls compete, is it all a Ledger, and does every request end? | 2 requests, 2 skins, 2 vows of 2 materials, 2 s | holds, 0.1 M states |
| `session_safe` | is nothing accepted but the session the pointer names and those spared, are tickets and refresh tokens spent once, and are both locks always free again, when any call may fail? | 2 requests, 2 tickets, 3 sessions, 1 failing call or crash, keys survive | holds, 0.9 M states |
| `retry_safe` | are items queued once, kept in order, settled for good, truthfully marked, and retried finitely often? | 2 requests, 2 achievements, 2 retries, 3 faults | holds, 0.4 M states |
| `memstore` | can lazy expiry be seen by a caller, and does an entry stay for ever? | 2 keys, ttls 0 to 2 s, counters up to 3 | holds, 1.7 k states |
| `ratelimit` | is a window bounded, is a counter without ttl about to get one, and with MemStore nobody refused for good? | 3 requests, limit 2, window 2 s, 1 failing call or lost reply, 1 restart, counter up to 4, MemStore and Redis | holds, 0.9 M states |
| `audit` | is an honest log whose rows tell order and time reconciled, and do the totals mean what they say? | 3 rows, 5 s, rate 2, costs 0 and 3, stall 1 s, 2 s set back | holds, 1.3 M states |
| `rules` | do the pure rules compute what the rest relies on? | 7 rows of 10, 8 tiers, vows of 2, 3 slots of 2 layers, 6 seeds, 5 days | holds, 13 k states |
| `session_logout` | does a logout spare a newer session? | 2 requests, 2 sessions | violated |
| `retry_race` | is an unsynced unlock always waiting for a retry, or a dead letter? | 1 request, 1 achievement, no fault | violated |
| `ratelimit_cancel` | is nobody refused for good with Redis and clients that leave? | 2 requests, no failing call, no restart | violated |
| `audit_order` | is every honest log reconciled? | 3 rows, 5 s, rate 2, costs 1 and 3 (no free debug vow, unlike `audit`), stall 1 s, no set-back | violated |

What the properties say, in short (each is stated above its definition):

* `WalletLedger`, `ItemLedger`, `LayerLedger`: what is in the rows is what
  history put there. A partial commit, a duplicate claim, a lost update or a
  charge without a purchase breaks one of them.
* `NoDoubleAccrual`, `GrowthPaced`: nobody earns points or layers faster than
  time passes.
* `PullSpacing`: two committed pulls are a cooldown apart in real time.
* `FastPathJustified`: a key that refuses a pull never does so when the row would
  let it through.
* `OnlyPurchasesCharge`: accrual never lowers the balance.
* `NoGrowthLost`: the anchor moves only over windows that were distributed.
* `ImplementsLedger`: every step is an atomic step of Ledger or invisible.
* `OneLiveSession`, `TicketUsedOnce`, `RefreshTokenSpentOnce`: see above.
  `OneLiveSession` says that a second session is accepted only if it was spared,
  by an ignored error or a misdirected logout (see findings), so that no interleaving,
  retry, crash or lost reply alone leaves one. It is about jtis that reached a
  client: one whose handler failed after writing its session was never handed out.
* `QueuedOnce`, `OldestFirst`: an item is in one place only, from the unlock
  over list and batch, and keeps its place in the queue across batches that
  return to the other end than new items enter.
* `SettledStaysOut`, `SteamKnows`: dead letters and resolved rows stay out of
  the list over panics and boots; what the tables call synced is on Steam.
* `ImplementsMap`: MemStore answers as KVMap would.
* `WindowLimit`, `CounterArmed`: in any stretch of a window at most twice the limit
  passes as counted, and beyond it no more than dropped or lost counters had let
  through; a counter without a ttl is on its way to one.
* `SpacedLogReconciles`, `UnloggedIsSynced`: the audit is silent about honest logs
  that are `WellTimed`, and its total is exact: the rows' seconds rise as they were
  written, and between two rows the clock was set back by no more than the margin
  less the stall. Both conditions are needed; the bounds leave room for a set-back
  within the second and one beyond it.
* `UnloggedPlausible`: the total stays below its ceiling for every log.
* `WholePool`, `RewardsExist`, `VowRules`: a server that serves lost no row, always
  has a reward, and prices vows by the nearest rarity and a chance that never
  falls with the price.
* `SeedsDistribute`: the choice by index reaches exactly Cairn's `Distributions`.
* `StreakEarned`: the streak is the run of login days; a date set back only
  shortens it.
* `RequestsEnd`, `LocksFreed`, `RetriesEnd`, `Reclaimed`, `NotPinnedInMemory` and
  `NotPinned`, which is the same of either store: liveness.

**Why the bounds suffice.** The races of Economy and Session are between two
requests; a third one is covered by the sequence "two finish, another starts",
for which time and session bounds leave room (two pulls of different slots, a
cooldown apart or not, fit into `economy_pull`'s five seconds; three sessions are
one more than the concurrent requests). The slot count is 1 where slots do not
matter and 2 where their difference does.
Costs, rate and cooldown are chosen so that a pull can be refused for each
reason: too poor, too early, slot incomplete, slot missing. What section 5 lists is
proved for all bounds. In AchievementRetry two items are enough to
disturb an order, two retries to tell the first from the last, and three faults
for a crash while another failure's trace is still in list or table. The
limiter's third request is the one that meets the counter between the second's
IncrBy and Expire; a window of two seconds can be partly over, and more than twice
the limit does pass when a counter is dropped or lost. Three rows are two
of one second and one after. The logins of `session_safe` share two tickets and three
sessions, so a session spared by one login is met by two more; its one failure may
hit any call of any handler, or all handlers as a crash, and combinations of failures
are left to the theorems. Three slots of two layers let a slot fill up in the middle of
a window while two others stay open.

**Deadlock.** The check is off where a bound lets the system stop: no more seconds,
rows or rows of a file, or every ticket used and nobody with a token to come back with.

**Fairness.** `Economy!FairSpec` asks strong fairness of every started request:
goroutines are scheduled, and `database/sql` hands a freed connection to the
waiting requests in order, so a request for which the connection is free again
and again does get it. `Session!FairSpec` asks weak fairness of every handler
(none of its steps waits for another) and of the expiry of both locks.
`AchievementRetry!FairSpec` asks weak fairness of handlers, worker and boot (the
ticker fires every minute), and strong fairness of `Exit`: Go's `select` chooses
at random between a tick and the end of the context, so the worker's loop ends.
Steam need not ever accept. `MemStore!FairSpec`: the sweeper's goroutine runs.
`RateLimit!FairSpec`: requests that began go on and time passes. No client
is obliged to send a request, and nobody to crash.

**Mutants.** For every property a variant of one definition is kept beside it
("Variant: .."): a dropped gate, a payment apart from its claim, an anchor one
interval short, a lock whose answer is not read, a lock without a ttl. With the
variant in place of the definition the property is violated.

## 4. Findings

* **A logout may delete a newer session's pointer and refresh token**
  (`session.go:105`). Read, compare and delete are separate calls and do not take
  the session lock; the design asks for one atomic script
  (`Goal/02_database.md:160-170`, `Goal/04_milestones.md:54`). The session that
  lost its pointer is not evicted by the next login.
* **A retry may be lost between the list and the table** (`handler.go:219`).
  `enqueueRetry` pushes the item before it inserts the row. If the worker pops it
  in between and Steam refuses again, its UPDATE matches nothing and it drops the
  item (`worker.go:191`), so that the row that follows is retried only after the
  next boot, although `Goal/01_systems.md:260` promises retries from the queue.
  With one fault allowed `UnsyncedIsRetried` fails in two more ways, which no boot
  repairs: the process dies between the unlock's INSERT and `enqueueRetry` (a
  repeated unlock answers "already unlocked"), or the worker's UPDATE of
  `steam_synced` fails and the row is resolved all the same (`worker.go:217-229`).
* **With Redis a client that leaves can pin a rate-limit counter**
  (`ratelimit.go:100`). Expire and the Del meant to repair its failure use the same
  request context; once that is cancelled both fail, and the counter IncrBy
  recreated has no ttl. The comment (`ratelimit.go:97-99`) promises the opposite.
  MemStore ignores contexts, and `NotPinnedInMemory` holds.
* **The audit flags honest rows that follow a shared second**
  (`diag/economy.go:193`). Rows of one second are sorted by descending balance,
  which reverses them when the first accrued more than it cost; the next row is then
  compared with the wrong predecessor, against `economy.go:98-103` and `184-186`.

Also observed while modelling, without a run of their own:

* A failed read leaves two JWTs accepted (`session.go:39`). An error of
  `Get(session:current)` is taken for "no session", one of the `Del` that evicts is
  not looked at; the login goes on, and the old session stays live without a pointer,
  against `session.go:23-25` ("preventing two JWTs from coexisting"). It takes a store
  whose calls can fail, as Redis's; MemStore's do not. `spared` names these sessions.
* The audit flags honest rows when the clock was set back between them
  (`diag/economy.go:191`). The accrual clamps a negative elapsed time; the audit takes
  the seconds of the rows for their order, against "Across seconds, time orders the
  events" (`economy.go:101`). `SpacedLogReconciles` shows that a shared second and a
  clock set back (out of order, or by more than the margin spares) are the only causes.
* The fill of the cooldown key computes its ttl from a second clock reading and may
  store the key without expiry (`gacha.go:199-200`), which `FastPathJustified` shows to
  be harmless.
* A session lock that expires under its holder lets two sessions coexist
  (`session.go:28`, constant `SlowHolders`).
* Refresh tokens are stored outside the session lock, so that of two logins the evicted
  one may store last (`session.go:50`) and the live client is left without a refresh
  token that works.

## 5. Proofs

`EconomyProofs` proves for every number of requests, slots and items, every
interval, cost, rate and bound that satisfies the assumptions
(`CairnAssumption`, `EconomyAssumption`: positive sizes, natural costs, rarities
between 1 and 5):

| Theorem | States | Argument |
|---|---|---|
| `TypeCorrect` | `[]TypeOK` | inductive as it stands; split into rows, key, connection and requests, with `GrowthType` giving what growth may return |
| `WalletCorrect` | `[]WalletLedger` | inductive given types: only `AccrueAndPay` changes both sides, by the same amount |
| `AccruedOnce` | `[]NoDoubleAccrual` | strengthened to `AccrualInv`: points banked *and still pending* never exceed Rate times the time passed. A payment moves pending to banked, a reset drops pending, a step back lowers it, a tick adds Rate at most to either side |
| `LayersConserved` | `[]LayerLedger` | inductive: growth adds to row and ledger alike and stops at MaxLayers, a claim takes exactly MaxLayers |
| `PullsSpaced` | `PullSpacing` | `SpacingInv`: time that passed since the last pull's gate is at least what the wall clock shows since then, now and at the gate of the request that holds the connection; nobody else changes the row meanwhile. The gate of the next pull then gives the cooldown |
| `ChargesOnlyPurchases` | `OnlyPurchasesCharge` | by cases over the steps that write rows; accrual adds a natural number |
| `GrowthIsPaced` | `[]GrowthPaced` | `PaceInv`: as long as the clocks agree, the windows consumed end before the anchor, the anchor is not ahead of the clock, and no request carries a `now` from the future (`NowStep`). `DivBound` gives that whole intervals do not pass `now` |
| `FastPathCorrect` | `[]FastPathJustified` | `FastInv`: neither the key nor a request on its way to fill it holds a cooldown later than the row's; the gate makes the row move forward only. Expiry plays no part |
| `ItemsConserved` | `[]ItemLedger` | inductive given types: a pull adds one to an item and to what was granted, a vow moves its materials from the inventory to `consumed`; the sums by `SumBump` and `SumPlus` |
| `WindowsAreSpent` | `NoGrowthLost` | the windows and layers of a step of `Growth` are those of one of Cairn's distributions, whose sum is the lesser of steps and room; a `LayerLedger` state has no negative room |
| `LedgerImplemented` | `ImplementsLedger` | initial states map to initial states, and per action one lemma names the step of Ledger it maps to (`PullCommit` to `Pull`, `VowCommit` to `Vow`, `Sync` to `Earn`, `ApplyGrowthTx` to `Grow`, `InsertSlot` to `OpenSlot`, `Tick` to `Elapse`, the others to a stutter). It rests on `AccruedOnce` (what a settlement credits is at most what time is worth), `LayersConserved` (a harvested slot grew exactly what it lacked) and `PullsSpaced` |

`RowSteps` sums up which actions touch rows or clocks at all, so that the ledger
proofs do not repeat the others.

`MemStoreProofs` proves `TypeCorrect` and `MapImplemented`, `Spec => ImplementsMap`,
for any keys, values and ttls: each call maps to the call of KVMap of the same name
whether or not it deletes an expired entry, a sweep to a stutter, a second to a
second (an entry whose last second ends is still held, but no longer `Found`).

`SessionProofs` proves, for any number of requests, tickets and sessions:

| Theorem | Assumes | States | Argument |
|---|---|---|---|
| `TypeCorrect` | | `[]TypeOK` | with `KindInv`: the place of a request says whose handler it runs and whether it owns a session number |
| `TicketsCorrect` | `StoreSurvives` | `[]TicketUsedOnce` | `TicketInv`: a login at work has its used ticket to itself and nobody logged in with it |
| `RefreshCorrect` | `~SlowHolders` | `[]RefreshTokenSpentOnce` | `RefreshInv`: refreshes past their lock are alone; what was exchanged is never the stored token again, because the numbers a request owns are known to no client (`IdInv`) |
| `SessionCorrect` | `~SlowHolders` | `[]OneLiveSession` | `PointerInv`: of the live sessions anybody was promised, all but the one the pointer names are spared, and while the holder of the lock (`LockInv`) is past its eviction all are; a step that ignores an error adds what it leaves behind |

Each action is first restated variable by variable (`...Does`), and each invariant
has a lemma for the steps that cannot disturb it (`...Kept`), so that the steps which
can are the ones argued. What the proofs add to `session_safe`: any number of
sessions and of failures, lost keys for all but the tickets, and that slow holders do
no harm to tickets.

`AchievementRetryProofs` proves, for any number of requests, items, retries and
failures (`RetryAssumption`: finitely many items, natural bounds):

| Theorem | States | Argument |
|---|---|---|
| `StaysPlaced` | `[]Placed` | types, and who may be where: what is in the list, the batch, the worker's hand or on a request's way is unlocked, the worker holds an item exactly at the places that handle one, a batch is empty at rest, and no request runs during a boot |
| `TypeCorrect` | `[]TypeOK` | from `Placed` |
| `SteamIsKnown` | `[]SteamKnows` | `SteamInv` adds the requests and the worker between Steam's answer and the UPDATE that records it |
| `StaysOrderly` | `[](Placed /\ OneUnlock /\ Orderly)` | the heart: one request at most carries an unlock of an item (the INSERT's conflict), and batch, the worker's hand and list together are the history `line` without some of its items, also while a boot drains and refills the list |
| `SettledOut`, `InLine`, `OnlyOnce` | `[]SettledStaysOut`, `[]OldestFirst`, `[]QueuedOnce` | read off `Orderly` |

`RateLimitProofs`, for any limit, window and number of requests, over either store,
for any number of failing calls, lost replies, clients that leave and restarts:

| Theorem | States | Argument |
|---|---|---|
| `TypeCorrect` | `[]TypeOK` | inductive as it stands |
| `TwoLimitsPerWindow` | `[]WindowLimit` | `WindowInv`: any stretch of up to a window saw at most a limit besides what was forgiven and what passed by the present counter (`Spent`, the lesser of count and limit); the part of it that began with the counter's ttl saw nothing besides, nor did this second; a counter that is dropped moves `Spent` to `forgiven` |
| `CounterIsArmed` | `[]CounterArmed` | inductive: a counter is without a ttl only from IncrBy's answer 1 on, and the request that got it keeps its place until it arms, drops or strands the counter |
| `NeverStranded` | `[](~Redis => ~stranded)`, where `MaxFaults <= 1` | it takes a failing Expire and then a failing Del |

`AuditProofs`, for logs of any length, any rate and costs:

| Theorem | States | Argument |
|---|---|---|
| `SpacedLogsReconcile` | `[]SpacedLogReconciles` | `BookInv`: each row's identity, and between two rows a gap of what syncs banked, which is no more than the time that *really* passed between the rows, and a stall, is worth: set back or not, nobody banks a second that did not pass (`LastInv` counts the seconds still waiting for the next sync). A `WellTimed` log has one order only, its own (`SpacedOrder`), and its rows' seconds with the margin make up for the real time between them |
| `UnloggedIsBanked` | `[]UnloggedIsSynced` | the summands agree one by one |
| `UnloggedStaysPlausible` | `[]UnloggedPlausible` | each summand is below that of the ceiling (`SumBelow`), in any order of a second's rows |

`WellTimed` compares the margin with stall and set-back row by row, so no assumption on
the constants is left; with a stall above the margin (`economy.go:29-32`) it is true of
logs of one row only.

`RulesProofs`, for any file, tiers, vow size, number of slots and days:

| Theorem | States | Argument |
|---|---|---|
| `StreakIsEarned` | `[]StreakEarned` | `StreakInv`: the streak is the size of the run of login days that ends at the last login, until the date is set back |
| `PoolIsWhole` | `[]WholePool` | `PoolStays`: every row read is in the pool or in one counter, and pool rows have distinct ids |
| `EveryRollDraws`, `RewardsAlwaysExist` | no roll and no vow meets an empty list; `[]RewardsExist` | a full pool has each rarity; a vow that was let through has a base below Legendary |
| `VowsAreFair` | `[]VowRules` | `VowStays`: the last vow was priced by an accepted tier; the rest is arithmetic: rounding to the nearest, and a linear rate between its ends |
| `SeedsWithin` | whatever the hash yields, a window spreads as `Distributions` allows | `LayersStay` for the stored layers; one step of the fold (`SeededStep`), then induction on the window: a step adds one to an open slot unless there is none |
| `SeedsCover` | `[]SeedsDistribute`, where `Slots \subseteq Seeds` | the other direction: any distribution of n + 1 steps is one of n and a last step, for which the slot's index is a seed. A 64-bit hash has every remainder |

**Induction.** The library's induction theorems take an operator as a parameter, which
the provers cannot instantiate. `Sums` replaces them by least counterexamples: the set
of the numbers (`Least`), or of the subsets of a finite set (`Smallest`, `Shrinking`),
for which a claim fails would have a least member, and the induction step refutes
it. With these the folds of the community modules, `SumFunction` and `FoldLeft`, are
unfolded and shown to exist, and `SumPlus`, `SumBelow`, `SumBump` and the others are
what the ledgers, the audit and CairnSeed need of them.

**Only model-checked:** the liveness properties `RequestsEnd`, `LocksFreed`,
`RetriesEnd`, `Reclaimed` and `NotPinnedInMemory`, and the four findings of runs, which
are counterexamples. Every invariant and action property of a passing run has a theorem,
some under the hypotheses above, each of which the run's constants satisfy.

## 6. Assumptions and limits

* One player. Every row and key of these modules is selected by player id;
  players meet only in the queue for the connection, which `Procs` stands for.
* Seconds. The rows hold whole seconds; the pull's gate compares a timestamp
  truncated to a second, so the spacing proved in model seconds may be short by
  less than one second in the server.
* The wall clock may be set back but never jumps ahead of real time. If it did,
  accrual and growth would credit the jump: the code trusts it.
* SQLite and MemStore are what the server runs with; a key-value store that
  survives a crash (Redis) is a case of `Crash` (`StoreSurvives`, `store`).
* `OneLiveSession` and `RefreshTokenSpentOnce` are for lock holders that are faster than the ttl
  (`SlowHolders` FALSE).
* RateLimit: `NotPinnedInMemory` is for MemStore, which is lost with the server and
  whose answers are not, and for one failing call. With Redis a crash between IncrBy
  and Expire, or a lost reply of IncrBy, leaves a counter without ttl (`stranded`);
  `WindowLimit` and `CounterArmed` say what holds nevertheless. go-redis's own
  retries of a call are not modelled. One identifier and route, as keys of others
  are never touched.
* Audit: integers, so the tolerances for rounding are zero; rates are constant per
  player. The accrual of a transaction is the UPDATE's.
* Catalog: a row is a member of a small set with one member per way to be skipped;
  CSV and XML syntax, byte-order marks and missing keys are an early refusal. A
  request's materials are listed one by one, a count being a repetition; the roll
  against the success rate may come out either way.
* Streak: days, not seconds; the UPDATE is one statement and reads one date.
* A rate of points per second; the floating-point rate and the decimal columns
  are integers here.
* Ttls of an hour and more (tickets, sessions, refresh tokens) do not run out in
  Session's behaviours; those of both locks and of the refresh cooldown do.
* `session_safe` is checked for keys that survive a crash; with MemStore a restart
  forgets used tickets, and sessions with them. The proofs cover both but for
  `TicketUsedOnce`, which does not hold then.
* Initial states: a player just created (no slot rows) or completed at boot by
  `sqlitedb.New`. `last_sync_at` is never NULL afterwards.
* AchievementRetry: the order of `next_retry_at` at boot is any order; the rows
  of `players` exist and list items are well formed, so that these two early
  returns of `processOne` do not occur; a request whose client hangs up is a
  `Fault` of its next statement. A statement that fails has no effect: the UPDATE ..
  RETURNING of `worker.go:184` that is carried out while the Scan of its answer fails
  is not modelled.
* Not modelled: pagination of the log query, formatting, JWT signatures, logging,
  environment variables, PostgreSQL and migrations (dormant), scripts.

Bounds in guards: `MaxTicks` (seconds), `MaxSkew` (seconds set back), `MaxVows`
(vows committed), `MaxSessions` (sessions created), `MaxFaults` and `MaxCrashes`
(failures; Session counts a crash as one), `MaxCount` and `MaxVal` (counters), `MaxEvents` (log rows), `MaxStall`
(seconds between two statements), `MaxRows` (rows of a file), `MaxSteps` (steps of a
window), `MaxDays`.

## 7. Plan

Done: every component with logic of its own has a module. What would add most
next, in this order:

1. The log query's two statements (count and page) against concurrent pulls.
2. A bound on how long two sessions coexist when a session lock expires under its
   holder (`SlowHolders`), as an invariant of its own.
