---------------------------- MODULE RulesProofs ----------------------------
(***************************************************************************)
(* The rules for any file of skins, any tiers, any size of a vow and any   *)
(* number of days: the login streak counts days with a login, the pool     *)
(* that is served is the whole file and no draw from it is empty, a vow is *)
(* priced between the rates of its tier, and the slots that the seeds of a *)
(* window choose are exactly what Cairn allows.                            *)
(***************************************************************************)
EXTENDS Rules, Sums, TLAPS

\* The rules move one at a time.
LEMMA Alone ==
    [Next]_vars => [CatalogNext]_catalogVars /\ [StreakNext]_streakVars
  BY DEF Next, vars

----------------------------------------------------------------------------
(* The streak.  Without a date set back the last login is on the latest of   *)
(* the login days, and the run that ends there grows by one day or restarts. *)

RunOf(days, day) == {d \in days : d <= day /\ d .. day \subseteq days}

StreakTypes ==
    /\ today \in 0 .. MaxDays /\ loginDays \subseteq 0 .. MaxDays
    /\ streak \in Nat /\ setBack \in BOOLEAN
    /\ \/ lastLogin = NoDate /\ loginDays = {} /\ streak = 0
       \/ lastLogin \in loginDays
    /\ ~setBack => lastLogin <= today /\ \A d \in loginDays : d <= lastLogin

LEMMA RunsAreFinite ==
    ASSUME NEW days, days \subseteq 0 .. MaxDays, NEW day
    PROVE  IsFiniteSet(RunOf(days, day)) /\ Cardinality(RunOf(days, day)) \in Nat
  <1>1. IsFiniteSet(0 .. MaxDays)
    BY StreakAssumption, FS_Interval
  <1>2. RunOf(days, day) \in SUBSET (0 .. MaxDays)
    BY DEF RunOf
  <1> DEFINE R == RunOf(days, day)
  <1> HIDE DEF R
  <1>3. IsFiniteSet(R)
    BY <1>1, <1>2, FS_Subset DEF R
  <1>4. Cardinality(R) \in Nat
    BY <1>3, FS_CardinalityType
  <1> QED
    BY <1>3, <1>4 DEF R

\* A login on the day after the last one.
LEMMA RunGrows ==
    ASSUME NEW days, days \subseteq 0 .. MaxDays, NEW day \in Int, day - 1 \in days
    PROVE  Cardinality(RunOf(days \cup {day}, day)) = Cardinality(RunOf(days, day - 1)) + 1
  <1> DEFINE R == RunOf(days, day - 1)
             L == days \cup {day}
  <1>1. ASSUME NEW d \in R PROVE d \in RunOf(L, day)
    <2>1. d \in days /\ d \in Int /\ d <= day - 1 /\ d .. day - 1 \subseteq days
      BY StreakAssumption DEF RunOf
    <2>2. \A e \in d .. day : e \in d .. day - 1 \/ e = day
      BY <2>1
    <2>3. d .. day \subseteq L
      BY <2>1, <2>2
    <2> QED
      BY <2>1, <2>3 DEF RunOf
  <1>2. day \in RunOf(L, day)
    <2>1. \A e \in day .. day : e = day
      OBVIOUS
    <2> QED
      BY <2>1 DEF RunOf
  <1>3. ASSUME NEW d \in RunOf(L, day), d # day PROVE d \in R
    <2>1. d \in days /\ d \in Int /\ d <= day - 1 /\ d .. day \subseteq L
      BY <1>3, StreakAssumption DEF RunOf
    <2>2. \A e \in d .. day - 1 : e \in d .. day /\ e # day
      BY <2>1
    <2>3. d .. day - 1 \subseteq days
      BY <2>1, <2>2
    <2> QED
      BY <2>1, <2>3 DEF RunOf
  <1>4. RunOf(L, day) = R \cup {day}
    BY <1>1, <1>2, <1>3
  <1>5. day \notin R
    BY DEF RunOf
  <1>6. IsFiniteSet(R)
    BY RunsAreFinite
  <1> HIDE DEF R
  <1>7. Cardinality(R \cup {day}) = Cardinality(R) + 1
    BY <1>5, <1>6, FS_AddElement
  <1> QED
    BY <1>4, <1>7 DEF R

\* A login after a gap.
LEMMA RunRestarts ==
    ASSUME NEW days, days \subseteq 0 .. MaxDays, NEW day \in Int,
           \A d \in days : d < day - 1
    PROVE  Cardinality(RunOf(days \cup {day}, day)) = 1
  <1> DEFINE R == RunOf(days \cup {day}, day)
  <1>1. day \in R
    <2>1. \A e \in day .. day : e = day
      OBVIOUS
    <2> QED
      BY <2>1 DEF RunOf
  <1>2. ASSUME NEW d \in R PROVE d = day
    <2>1. CASE d \in days
      <3>1. d \in Int /\ d < day - 1 /\ d .. day \subseteq days \cup {day}
        BY <2>1, StreakAssumption DEF RunOf
      <3>2. day - 1 \in d .. day
        BY <3>1
      <3>3. day - 1 \in days
        BY <3>1, <3>2
      <3> QED
        BY <3>3
    <2> QED
      BY <2>1 DEF RunOf
  <1>3. R = {day}
    BY <1>1, <1>2
  <1> HIDE DEF R
  <1> QED
    BY <1>3, FS_Singleton DEF R

\* A login counts at least its own day.
LEMMA RunCounts ==
    ASSUME NEW days, days \subseteq 0 .. MaxDays, NEW day \in days
    PROVE  Cardinality(RunOf(days, day)) >= 1
  <1> DEFINE R == RunOf(days, day)
  <1>1. day \in R
    <2>1. \A e \in day .. day : e = day
      BY StreakAssumption
    <2> QED
      BY <2>1, StreakAssumption DEF RunOf
  <1>2. IsFiniteSet(R) /\ Cardinality(R) \in Nat
    BY RunsAreFinite
  <1> HIDE DEF R
  <1>3. Cardinality(R) # 0
    BY <1>1, <1>2, FS_EmptySet
  <1> QED
    BY <1>2, <1>3 DEF R

LEMMA StreakInts ==
    ASSUME StreakTypes
    PROVE  /\ today \in Int /\ today # NoDate /\ lastLogin \in Int
           /\ loginDays \subseteq Int /\ NoDate \notin loginDays
  <1>1. \A d \in 0 .. MaxDays : d \in Int /\ d # NoDate
    BY DEF NoDate
  <1>2. NoDate \in Int
    BY DEF NoDate
  <1>3. today \in 0 .. MaxDays /\ loginDays \subseteq 0 .. MaxDays
    BY DEF StreakTypes
  <1>4. lastLogin = NoDate \/ lastLogin \in loginDays
    BY DEF StreakTypes
  <1> QED
    BY <1>1, <1>2, <1>3, <1>4

StreakInv == StreakTypes /\ StreakEarned

LEMMA LoginKeepsStreak ==
    ASSUME StreakInv, LoginToday
    PROVE  StreakInv'
  <1> DEFINE run == Cardinality(RunOf(loginDays, lastLogin))
             next == Cardinality(RunOf(loginDays \cup {today}, today))
             L == loginDays \cup {today}
  <1>1. StreakTypes /\ streak <= run /\ (~setBack => streak = run)
    BY DEF StreakInv, StreakEarned, RunUntil, RunOf
  <1>2. /\ lastLogin' = today /\ loginDays' = L /\ UNCHANGED <<today, setBack>>
        /\ streak' = StreakDays
    BY DEF LoginToday
  <1>3. /\ today \in 0 .. MaxDays /\ today \in Int /\ loginDays \subseteq 0 .. MaxDays
        /\ streak \in Nat /\ lastLogin \in Int /\ today # NoDate /\ L \subseteq 0 .. MaxDays
    BY <1>1, StreakInts DEF StreakTypes
  <1>4. run \in Nat /\ next \in Nat /\ next >= 1
    BY <1>3, RunsAreFinite, RunCounts
  <1> HIDE DEF run, next
  <1>5. streak' \in Nat /\ streak' <= next /\ (~setBack => streak' = next)
    <2>1. CASE lastLogin = NoDate
      <3>1. loginDays = {}
        BY <1>1, <2>1, StreakAssumption DEF StreakTypes, NoDate
      <3>2. next = 1
        BY <1>3, <3>1, RunRestarts DEF next
      <3> QED
        BY <1>2, <2>1, <3>2 DEF StreakDays
    <2>2. CASE lastLogin = today
      <3>1. L = loginDays
        BY <1>1, <1>3, <2>2 DEF StreakTypes
      <3>2. next = run
        BY <2>2, <3>1 DEF run, next
      <3> QED
        BY <1>1, <1>2, <1>3, <2>2, <3>2 DEF StreakDays
    <2>3. CASE lastLogin = today - 1 /\ lastLogin # NoDate
      <3>1. today - 1 \in loginDays
        BY <1>1, <2>3 DEF StreakTypes
      <3>2. next = run + 1
        BY <1>3, <2>3, <3>1, RunGrows DEF run, next
      <3>3. streak' = streak + 1
        BY <1>2, <1>3, <2>3 DEF StreakDays
      <3> QED
        BY <1>1, <1>3, <1>4, <3>2, <3>3
    <2>4. CASE lastLogin # NoDate /\ lastLogin # today /\ lastLogin # today - 1
      <3>1. streak' = 1
        BY <1>2, <2>4 DEF StreakDays
      <3>2. ASSUME ~setBack PROVE next = 1
        <4>1. \A d \in loginDays : d < today - 1
          BY <1>1, <1>3, <2>4, <3>2, StreakAssumption DEF StreakTypes
        <4> QED
          BY <1>3, <4>1, RunRestarts DEF next
      <3> QED
        BY <1>4, <3>1, <3>2
    <2> QED
      BY <2>1, <2>2, <2>3, <2>4
  <1>6. StreakEarned'
    BY <1>2, <1>5 DEF StreakEarned, RunUntil, RunOf, next
  <1>7. ASSUME ~setBack, NEW d \in L PROVE d <= today
    BY <1>1, <1>3, <1>7, StreakAssumption DEF StreakTypes
  <1>8. StreakTypes'
    <2>1. setBack' \in BOOLEAN
      BY <1>1, <1>2 DEF StreakTypes
    <2>2. ~setBack' => lastLogin' <= today' /\ \A d \in loginDays' : d <= lastLogin'
      BY <1>2, <1>3, <1>7
    <2> QED
      BY <1>2, <1>3, <1>5, <2>1, <2>2 DEF StreakTypes
  <1> QED
    BY <1>6, <1>8 DEF StreakInv

LEMMA StreakKept ==
    ASSUME StreakInv, [StreakNext]_streakVars
    PROVE  StreakInv'
  <1>1. CASE LoginToday
    BY <1>1, LoginKeepsStreak
  <1>2. CASE UNCHANGED <<lastLogin, streak, loginDays>> /\ today' \in 0 .. MaxDays
             /\ setBack' \in BOOLEAN /\ (~setBack' => ~setBack /\ today <= today')
    <2>1. StreakEarned'
      BY <1>2 DEF StreakInv, StreakEarned, RunUntil
    <2>2. lastLogin \in Int /\ today \in Int /\ today' \in Int
      BY <1>2, StreakInts DEF StreakInv
    <2>3. ~setBack' => lastLogin <= today'
      BY <1>2, <2>2 DEF StreakInv, StreakTypes
    <2>4. StreakTypes'
      BY <1>2, <2>3 DEF StreakInv, StreakTypes
    <2> QED
      BY <2>1, <2>4 DEF StreakInv
  <1>3. CASE Midnight
    <2>1. today' \in 0 .. MaxDays /\ today <= today'
      BY <1>3, StreakAssumption DEF Midnight, StreakInv, StreakTypes
    <2>2. setBack' = setBack /\ setBack' \in BOOLEAN /\ UNCHANGED <<lastLogin, streak, loginDays>>
      BY <1>3 DEF Midnight, StreakInv, StreakTypes
    <2> QED
      BY <1>2, <2>1, <2>2
  <1>4. CASE SetDateBack
    <2>1. today' \in 0 .. MaxDays
      BY <1>4, StreakAssumption DEF SetDateBack, StreakInv, StreakTypes
    <2>2. setBack' = TRUE /\ UNCHANGED <<lastLogin, streak, loginDays>>
      BY <1>4 DEF SetDateBack
    <2> QED
      BY <1>2, <2>1, <2>2
  <1>5. CASE UNCHANGED streakVars
    <2>1. UNCHANGED <<today, lastLogin, streak, setBack, loginDays>>
      BY <1>5 DEF streakVars
    <2> QED
      BY <1>2, <2>1, StreakAssumption DEF StreakInv, StreakTypes
  <1> QED
    BY <1>1, <1>3, <1>4, <1>5 DEF StreakNext

\* The streak is the number of consecutive days with a login up to the last one,
\* however many logins a day has, and a date set back never credits a day without
\* a login: it only shortens the streak (handler.go 223-230).
THEOREM StreakIsEarned == Spec => []StreakEarned
  <1>1. Init => StreakInv
    <2> SUFFICES ASSUME Init PROVE StreakInv
      OBVIOUS
    <2>1. today = 0 /\ lastLogin = NoDate /\ streak = 0 /\ setBack = FALSE /\ loginDays = {}
      BY DEF Init, StreakInit
    <2>2. RunUntil(lastLogin) = Cardinality({})
      BY <2>1 DEF RunUntil
    <2>3. StreakEarned
      BY <2>1, <2>2, FS_EmptySet DEF StreakEarned
    <2>4. setBack \in BOOLEAN
      BY <2>1
    <2>5. StreakTypes
      BY <2>1, <2>4, StreakAssumption DEF StreakTypes, NoDate
    <2> QED
      BY <2>3, <2>5 DEF StreakInv
  <1>2. StreakInv /\ [Next]_vars => StreakInv'
    BY Alone, StreakKept
  <1>3. StreakInv => StreakEarned
    BY DEF StreakInv
  <1> QED
    BY <1>1, <1>2, <1>3, PTL DEF Spec

----------------------------------------------------------------------------
(* The pool.  Every row of the file adds one to the total and one to the     *)
(* pool or to one reason, so a pool short of a row has a reason to show.     *)

Reasons == {"malformed", "badRarity", "badPart"}
StatFields == {"total", "loaded"} \cup Reasons

PoolInv ==
    /\ boot \in {"skins", "config", "serving", "refused"}
    /\ stats \in [StatFields -> Nat]
    /\ IsFiniteSet(skins) /\ Cardinality(skins) = stats.loaded
    /\ stats.total = stats.loaded + Skipped
    /\ \A a, b \in skins : a.id = b.id => a = b
    /\ \A row \in skins : row.rarity \in Rarities
    /\ boot \in {"config", "serving"} => FullPool /\ Skipped = 0

LEMMA Counted ==
    ASSUME stats \in [StatFields -> Nat], NEW field \in StatFields \ {"total"}, Count(field)
    PROVE  /\ stats' \in [StatFields -> Nat]
           /\ stats'.total = stats.total + 1 /\ stats'[field] = stats[field] + 1
           /\ \A other \in StatFields \ {"total", field} : stats'[other] = stats[other]
  <1> DEFINE total == [stats EXCEPT !.total = stats.total + 1]
  <1>1. "total" \in StatFields /\ field # "total"
    BY DEF StatFields
  <1>2. /\ total \in [StatFields -> Nat] /\ total.total = stats.total + 1
        /\ \A other \in StatFields \ {"total"} : total[other] = stats[other]
    BY <1>1
  <1>3. stats' = [total EXCEPT ![field] = total[field] + 1]
    BY <1>1 DEF Count
  <1> HIDE DEF total
  <1> QED
    BY <1>1, <1>2, <1>3

LEMMA PoolKept ==
    ASSUME PoolInv, [CatalogNext]_catalogVars
    PROVE  PoolInv' /\ (boot \in {"config", "serving"} => UNCHANGED skins)
  <1>1. /\ stats \in [StatFields -> Nat] /\ stats.total = stats.loaded + Skipped
        /\ IsFiniteSet(skins) /\ Cardinality(skins) = stats.loaded
    BY DEF PoolInv
  <1>2. /\ {"total", "loaded", "malformed", "badRarity", "badPart"} \subseteq StatFields
        /\ Reasons \subseteq StatFields \ {"total"}
    BY DEF StatFields, Reasons
  <1>3. ASSUME UNCHANGED <<skins, stats>>, boot' \in {"skins", "config", "serving", "refused"},
               boot' \in {"config", "serving"} => FullPool /\ Skipped = 0
        PROVE  PoolInv' /\ UNCHANGED skins
    BY <1>3 DEF PoolInv, Skipped, FullPool, SkinsOf
  <1>4. ASSUME NEW row, boot = "skins", SkipRow(row) PROVE PoolInv'
    <2> DEFINE f == Fault(row)
    <2>1. f \in Reasons /\ Count(f) /\ UNCHANGED <<boot, skins>>
      BY <1>4 DEF SkipRow, Fault, Reasons
    <2> HIDE DEF f
    <2>2. /\ stats' \in [StatFields -> Nat]
          /\ stats'.total = stats.total + 1 /\ stats'[f] = stats[f] + 1
          /\ \A other \in StatFields \ {"total", f} : stats'[other] = stats[other]
      BY <1>1, <1>2, <2>1, Counted
    <2>3. stats'.loaded = stats.loaded
      BY <1>2, <2>1, <2>2 DEF Reasons
    <2>4. Skipped' = Skipped + 1
      <3>1. /\ stats.malformed \in Nat /\ stats.badRarity \in Nat /\ stats.badPart \in Nat
        BY <1>1, <1>2
      <3>2. f = "malformed" \/ f = "badRarity" \/ f = "badPart"
        BY <2>1 DEF Reasons
      <3> QED
        BY <1>2, <2>2, <3>1, <3>2 DEF Skipped
    <2>5. stats'.total = stats'.loaded + Skipped'
      <3>1. stats.loaded \in Nat /\ Skipped \in Nat
        BY <1>1, <1>2 DEF Skipped
      <3> QED
        BY <1>1, <2>2, <2>3, <2>4, <3>1
    <2> QED
      BY <1>4, <2>1, <2>2, <2>3, <2>5 DEF PoolInv
  <1>5. ASSUME NEW row, boot = "skins", LoadRow(row) PROVE PoolInv'
    <2>1. /\ Fault(row) = "none" /\ \A other \in skins : other.id # row.id
          /\ skins' = skins \cup {row} /\ Count("loaded") /\ UNCHANGED boot
      BY <1>5 DEF LoadRow, Known
    <2>2. row.rarity \in Rarities
      BY <2>1 DEF Fault
    <2>3. row \notin skins
      BY <2>1
    <2>4. /\ stats' \in [StatFields -> Nat]
          /\ stats'.total = stats.total + 1 /\ stats'["loaded"] = stats["loaded"] + 1
          /\ \A other \in StatFields \ {"total", "loaded"} : stats'[other] = stats[other]
      <3>1. "loaded" \in StatFields \ {"total"}
        BY <1>2
      <3> QED
        BY <1>1, <2>1, <3>1, Counted
    <2>5. Skipped' = Skipped
      BY <1>2, <2>4 DEF Skipped
    <2>6. stats'.total = stats'.loaded + Skipped'
      <3>1. stats.loaded \in Nat /\ Skipped \in Nat
        BY <1>1, <1>2 DEF Skipped
      <3> QED
        BY <1>1, <2>4, <2>5, <3>1
    <2>7. IsFiniteSet(skins') /\ Cardinality(skins') = stats'.loaded
      <3>1. IsFiniteSet(skins \cup {row}) /\ Cardinality(skins \cup {row}) = Cardinality(skins) + 1
        BY <1>1, <2>3, FS_AddElement
      <3> QED
        BY <1>1, <2>1, <2>4, <3>1
    <2>8. \A a, b \in skins' : a.id = b.id => a = b
      BY <2>1 DEF PoolInv
    <2>9. \A other \in skins' : other.rarity \in Rarities
      BY <2>1, <2>2 DEF PoolInv
    <2> QED
      BY <1>5, <2>1, <2>4, <2>6, <2>7, <2>8, <2>9 DEF PoolInv
  <1>6. ASSUME NEW row, ReadRow(row) PROVE PoolInv' /\ boot = "skins"
    BY <1>3, <1>4, <1>5, <1>6 DEF ReadRow, DuplicateRow
  <1>7. CASE EndOfSkins
    BY <1>3, <1>7 DEF EndOfSkins
  <1>8. ASSUME NEW file, LoadConfig(file) PROVE PoolInv' /\ UNCHANGED skins
    BY <1>3, <1>8 DEF LoadConfig, PoolInv
  <1>9. ASSUME NEW m, NEW n, Pray(m, n) PROVE PoolInv' /\ UNCHANGED skins
    BY <1>3, <1>9 DEF Pray, PoolInv
  <1>10. CASE UNCHANGED catalogVars
    BY <1>3, <1>10 DEF catalogVars, PoolInv
  <1> QED
    BY <1>6, <1>7, <1>8, <1>9, <1>10 DEF CatalogNext

\* The pool holds the rows that were loaded, one per skinId and each counted,
\* from the first row of the file to the last vow (pool.go 90-134).
THEOREM PoolStays == Spec => []PoolInv
  <1>1. Init => PoolInv
    <2> SUFFICES ASSUME Init PROVE PoolInv
      OBVIOUS
    <2>1. /\ boot = "skins" /\ skins = {}
          /\ stats = [total |-> 0, loaded |-> 0, malformed |-> 0, badRarity |-> 0, badPart |-> 0]
      BY DEF Init, CatalogInit
    <2>2. stats \in [StatFields -> Nat] /\ stats.loaded = 0 /\ stats.total = 0 /\ Skipped = 0
      BY <2>1 DEF StatFields, Reasons, Skipped
    <2> QED
      BY <2>1, <2>2, FS_EmptySet DEF PoolInv
  <1>2. PoolInv /\ [Next]_vars => PoolInv'
    BY Alone, PoolKept
  <1> QED
    BY <1>1, <1>2, PTL DEF Spec

\* A server that serves has every row of its file in the pool, once: a row that
\* fails a test is counted by exactly one reason, so main's sum of the reasons
\* sees it (Total == Loaded + Skipped.., pool.go 23-25; main.go 57-67).
THEOREM PoolIsWhole == Spec => []WholePool
  <1>1. PoolInv => WholePool
    <2> SUFFICES ASSUME PoolInv, boot \in {"config", "serving"}
                 PROVE  Cardinality(skins) = stats.total /\ \A a, b \in skins : a.id = b.id => a = b
      BY DEF WholePool
    <2>1. stats.loaded \in Nat
      BY DEF PoolInv, StatFields
    <2> QED
      BY <2>1 DEF PoolInv
  <1> QED
    BY <1>1, PoolStays, PTL

----------------------------------------------------------------------------
(* Draws.  A roll has exactly one rarity, and the two draws, of a part and   *)
(* of a skin, reach the same skins as one draw among the rarity would.       *)

LEMMA DrawsAll == ASSUME NEW r PROVE Draws(r) = SkinsOf(r)
  BY DEF Draws, SkinsOf

Rolls == 0 .. 9999

\* The rarity of a roll is the first whose threshold is above it.
First(roll, r) == roll < Thresholds[r] /\ \A lower \in 1 .. r - 1 : roll >= Thresholds[lower]

LEMMA ThresholdsAre ==
    /\ Thresholds[1] = 8000 /\ Thresholds[2] = 9000 /\ Thresholds[3] = 9500
    /\ Thresholds[4] = 9990 /\ Thresholds[5] = 10000
  BY DEF Thresholds

LEMMA FirstIs ==
    ASSUME NEW roll \in Int, NEW r \in Rarities
    PROVE  First(roll, r) <=>
              \/ r = 1 /\ roll < 8000
              \/ r = 2 /\ 8000 <= roll /\ roll < 9000
              \/ r = 3 /\ 9000 <= roll /\ roll < 9500
              \/ r = 4 /\ 9500 <= roll /\ roll < 9990
              \/ r = 5 /\ 9990 <= roll /\ roll < 10000
  <1> DEFINE T(k) == Thresholds[k]
  <1>1. T(1) = 8000 /\ T(2) = 9000 /\ T(3) = 9500 /\ T(4) = 9990 /\ T(5) = 10000
    BY ThresholdsAre
  <1>2. First(roll, r) <=> roll < T(r) /\ \A lower \in 1 .. r - 1 : roll >= T(lower)
    BY DEF First
  <1> HIDE DEF T
  <1>3. CASE r = 1
    BY <1>1, <1>2, <1>3
  <1>4. CASE r = 2
    <2>1. 1 .. r - 1 = {1}
      BY <1>4
    <2> QED
      BY <1>1, <1>2, <1>4, <2>1
  <1>5. CASE r = 3
    <2>1. 1 .. r - 1 = {1, 2}
      BY <1>5
    <2> QED
      BY <1>1, <1>2, <1>5, <2>1
  <1>6. CASE r = 4
    <2>1. 1 .. r - 1 = {1, 2, 3}
      BY <1>6
    <2> QED
      BY <1>1, <1>2, <1>6, <2>1
  <1>7. CASE r = 5
    <2>1. 1 .. r - 1 = {1, 2, 3, 4}
      BY <1>7
    <2> QED
      BY <1>1, <1>2, <1>7, <2>1
  <1> QED
    BY <1>3, <1>4, <1>5, <1>6, <1>7 DEF Rarities

LEMMA RollHasRarity ==
    ASSUME NEW roll \in Rolls
    PROVE  /\ RarityOfRoll(roll) \in Rarities
           /\ \A r \in Rarities : First(roll, r) => RarityOfRoll(roll) = r
  <1>1. roll \in Int /\ 0 <= roll /\ roll < 10000
    BY DEF Rolls
  <1>2. \E r \in Rarities : First(roll, r)
    <2>1. /\ 1 \in Rarities /\ 2 \in Rarities /\ 3 \in Rarities /\ 4 \in Rarities /\ 5 \in Rarities
      BY DEF Rarities
    <2>2. \/ roll < 8000 \/ (8000 <= roll /\ roll < 9000) \/ (9000 <= roll /\ roll < 9500)
          \/ (9500 <= roll /\ roll < 9990) \/ (9990 <= roll /\ roll < 10000)
      BY <1>1
    <2> QED
      BY <1>1, <2>1, <2>2, FirstIs
  <1>3. \A q, r \in Rarities : First(roll, q) /\ First(roll, r) => q = r
    BY <1>1, FirstIs
  <1>4. RarityOfRoll(roll) = CHOOSE r \in Rarities : First(roll, r)
    BY DEF RarityOfRoll, First
  <1> HIDE DEF First
  <1>5. RarityOfRoll(roll) \in Rarities /\ First(roll, RarityOfRoll(roll))
    BY <1>2, <1>4
  <1> QED
    BY <1>3, <1>5

LEMMA LastRollOf ==
    ASSUME NEW r \in Rarities
    PROVE  Thresholds[r] - 1 \in Rolls /\ RarityOfRoll(Thresholds[r] - 1) = r
  <1>1. /\ 7999 \in Rolls /\ 8999 \in Rolls /\ 9499 \in Rolls /\ 9989 \in Rolls /\ 9999 \in Rolls
        /\ 8000 - 1 = 7999 /\ 9000 - 1 = 8999 /\ 9500 - 1 = 9499 /\ 9990 - 1 = 9989 /\ 10000 - 1 = 9999
    BY DEF Rolls
  <1>2. CASE r = 1
    <2>1. First(7999, r)
      BY <1>2, FirstIs
    <2> QED
      BY <1>1, <1>2, <2>1, ThresholdsAre, RollHasRarity
  <1>3. CASE r = 2
    <2>1. First(8999, r)
      BY <1>3, FirstIs
    <2> QED
      BY <1>1, <1>3, <2>1, ThresholdsAre, RollHasRarity
  <1>4. CASE r = 3
    <2>1. First(9499, r)
      BY <1>4, FirstIs
    <2> QED
      BY <1>1, <1>4, <2>1, ThresholdsAre, RollHasRarity
  <1>5. CASE r = 4
    <2>1. First(9989, r)
      BY <1>5, FirstIs
    <2> QED
      BY <1>1, <1>5, <2>1, ThresholdsAre, RollHasRarity
  <1>6. CASE r = 5
    <2>1. First(9999, r)
      BY <1>6, FirstIs
    <2> QED
      BY <1>1, <1>6, <2>1, ThresholdsAre, RollHasRarity
  <1> QED
    BY <1>2, <1>3, <1>4, <1>5, <1>6 DEF Rarities

LEMMA EdgesCover ==
    /\ EdgeRolls \subseteq Rolls
    /\ \A r \in Rarities : \E roll \in EdgeRolls : RarityOfRoll(roll) = r
  <1>1. EdgeRolls = {0} \cup {Thresholds[r] - 1 : r \in Rarities} \cup {Thresholds[r] : r \in 1 .. 4}
    BY DEF EdgeRolls
  <1>2. 0 \in Rolls
    BY DEF Rolls
  <1>3. \A r \in 1 .. 4 : Thresholds[r] \in Rolls
    <2>1. \A r \in 1 .. 4 : r = 1 \/ r = 2 \/ r = 3 \/ r = 4
      OBVIOUS
    <2>2. 8000 \in Rolls /\ 9000 \in Rolls /\ 9500 \in Rolls /\ 9990 \in Rolls
      BY DEF Rolls
    <2> QED
      BY <2>1, <2>2, ThresholdsAre
  <1>4. EdgeRolls \subseteq Rolls
    BY <1>1, <1>2, <1>3, LastRollOf
  <1>5. ASSUME NEW r \in Rarities PROVE \E roll \in EdgeRolls : RarityOfRoll(roll) = r
    <2>1. Thresholds[r] - 1 \in EdgeRolls
      BY <1>1
    <2> QED
      BY <2>1, LastRollOf
  <1> QED
    BY <1>4, <1>5

EveryRoll == boot = "serving" => \A roll \in Rolls : Draws(RarityOfRoll(roll)) # {}

\* While a full pool is served no roll at all, and not only the edges of the
\* rarities, finds an empty list (the modulo in Roll, gacha.go).
THEOREM EveryRollDraws == Spec => []EveryRoll
  <1>1. PoolInv => EveryRoll
    <2> SUFFICES ASSUME PoolInv, boot = "serving", NEW roll \in Rolls
                 PROVE  Draws(RarityOfRoll(roll)) # {}
      BY DEF EveryRoll
    <2>1. RarityOfRoll(roll) \in Rarities
      BY RollHasRarity
    <2>2. SkinsOf(RarityOfRoll(roll)) # {}
      BY <2>1 DEF PoolInv, FullPool
    <2> QED
      BY <2>2, DrawsAll
  <1> QED
    BY <1>1, PoolStays, PTL

----------------------------------------------------------------------------
(* Vows.  The tiers and the pool stay as they are once the server serves,    *)
(* so what Pray tested of a vow is true of it for good.                      *)

TiersInv ==
    boot = "serving" =>
        \A r \in DOMAIN tiers : tiers[r] \in TierRows /\ ValidTier(tiers[r]) /\ tiers[r].target = r

PricedVow ==
    /\ boot = "serving"
    /\ vow.materials \in MaterialLists /\ vow.n \in Powers
    /\ vow.base = Base(vow.materials) /\ vow.base + 1 \in DOMAIN tiers
    /\ \A k \in DOMAIN vow.materials : Material(vow.materials[k])

VowInv == vow # NoVow => PricedVow

LEMMA VowKept ==
    ASSUME TiersInv, VowInv, [CatalogNext]_catalogVars
    PROVE  TiersInv' /\ VowInv'
  <1>1. ASSUME NEW row \in Rows, ReadRow(row) PROVE TiersInv' /\ VowInv'
    <2>1. boot' # "serving" /\ boot # "serving" /\ UNCHANGED vow
      BY <1>1 DEF ReadRow, SkipRow, DuplicateRow, LoadRow
    <2> QED
      BY <2>1 DEF TiersInv, VowInv, PricedVow
  <1>2. CASE EndOfSkins
    <2>1. boot' # "serving" /\ boot # "serving" /\ UNCHANGED vow
      BY <1>2 DEF EndOfSkins
    <2> QED
      BY <2>1 DEF TiersInv, VowInv, PricedVow
  <1>3. ASSUME NEW file \in SUBSET TierRows, LoadConfig(file) PROVE TiersInv' /\ VowInv'
    <2>1. boot # "serving" /\ UNCHANGED vow
      BY <1>3 DEF LoadConfig
    <2>2. VowInv'
      BY <2>1 DEF VowInv, PricedVow
    <2>3. CASE boot' = "refused"
      BY <2>2, <2>3 DEF TiersInv
    <2>4. CASE /\ \A tier \in file : ValidTier(tier)
               /\ tiers' = [r \in {tier.target : tier \in file} |->
                               CHOOSE tier \in file : tier.target = r]
      <3> DEFINE Q(r) == CHOOSE tier \in file : tier.target = r
      <3>1. ASSUME NEW r \in DOMAIN tiers'
            PROVE  tiers'[r] \in TierRows /\ ValidTier(tiers'[r]) /\ tiers'[r].target = r
        <4>1. (\E tier \in file : tier.target = r) /\ tiers'[r] = Q(r)
          BY <2>4, <3>1
        <4>2. Q(r) \in file /\ Q(r).target = r
          BY <4>1
        <4> HIDE DEF Q
        <4> QED
          BY <2>4, <4>1, <4>2
      <3>2. TiersInv'
        BY <3>1 DEF TiersInv, ValidTier
      <3> QED
        BY <2>2, <3>2
    <2> QED
      BY <1>3, <2>3, <2>4 DEF LoadConfig
  <1>4. ASSUME NEW m \in MaterialLists, NEW n \in Powers, Pray(m, n) PROVE TiersInv' /\ VowInv'
    <2>1. /\ boot = "serving" /\ UNCHANGED <<boot, skins, tiers>>
          /\ \A k \in DOMAIN m : Material(m[k])
          /\ Base(m) + 1 \in DOMAIN tiers
          /\ vow' = [materials |-> m, base |-> Base(m), n |-> n]
      BY <1>4 DEF Pray
    <2>2. TiersInv'
      BY <2>1 DEF TiersInv, ValidTier
    <2>3. vow'.materials = m /\ vow'.base = Base(m) /\ vow'.n = n
      BY <2>1
    <2>4. m \in MaterialLists'
      BY <2>1 DEF MaterialLists
    <2>5. PricedVow'
      BY <2>1, <2>3, <2>4 DEF PricedVow, Base, Total, RaritySum, Amount, Material, Legendary
    <2> QED
      BY <2>2, <2>5 DEF VowInv
  <1>5. CASE UNCHANGED catalogVars
    <2>1. UNCHANGED <<boot, skins, tiers, vow>>
      BY <1>5 DEF catalogVars
    <2>2. TiersInv'
      BY <2>1 DEF TiersInv, ValidTier
    <2>3. MaterialLists' = MaterialLists
      BY <2>1 DEF MaterialLists
    <2>4. VowInv'
      BY <2>1, <2>3 DEF VowInv, PricedVow, Base, Total, RaritySum, Amount, Material, Legendary
    <2> QED
      BY <2>2, <2>4
  <1> QED
    BY <1>1, <1>2, <1>3, <1>4, <1>5 DEF CatalogNext

\* The tiers in force are ones the loader accepts, and the last vow was priced by
\* the tier of its target rarity (gameconfig.go 133-214, vow.go 106-150).
THEOREM VowStays == Spec => [](PoolInv /\ TiersInv /\ VowInv)
  <1>1. Init => TiersInv /\ VowInv
    BY DEF Init, CatalogInit, TiersInv, VowInv
  <1>2. TiersInv /\ VowInv /\ [Next]_vars => TiersInv' /\ VowInv'
    BY Alone, VowKept
  <1> QED
    BY <1>1, <1>2, PoolStays, PTL DEF Spec

\* Products, which the interpolation and the average are made of.
LEMMA TimesMono ==
    ASSUME NEW a \in Int, NEW b \in Int, NEW t \in Nat, a <= b
    PROVE  a * t \in Int /\ b * t \in Int /\ a * t <= b * t
  <1>1. b - a \in Nat /\ b * t = a * t + (b - a) * t
    OBVIOUS
  <1>2. (b - a) * t >= 0
    BY <1>1
  <1> QED
    BY <1>1, <1>2

LEMMA WeightedSum ==
    ASSUME NEW a \in Nat, NEW b \in Nat, NEW c \in Nat, NEW d \in Nat, NEW e \in Nat
    PROVE  a + 2 * b + 3 * c + 4 * d + 5 * e \in Nat
  OBVIOUS

LEMMA RaritySumIs ==
    ASSUME NEW m \in MaterialLists
    PROVE  RaritySum(m) \in Nat /\ Total(m) \in Nat \ {0}
  <1> PICK n \in 1 .. VowSize : m \in [1 .. n -> skins]
    BY DEF MaterialLists
  <1>1. n \in Nat \ {0} /\ DOMAIN m = 1 .. n
    BY CatalogAssumption
  <1>2. Total(m) = n
    BY <1>1 DEF Total
  <1>3. ASSUME NEW r PROVE Amount(m, r) \in Nat
    <2> DEFINE K == {k \in DOMAIN m : m[k].rarity = r}
    <2>1. IsFiniteSet(1 .. n) /\ K \in SUBSET (1 .. n)
      BY <1>1, FS_Interval
    <2> HIDE DEF K
    <2>2. Cardinality(K) \in Nat
      BY <2>1, FS_Subset, FS_CardinalityType
    <2> QED
      BY <2>2 DEF Amount, K
  <1>4. /\ Amount(m, 1) \in Nat /\ Amount(m, 2) \in Nat /\ Amount(m, 3) \in Nat
        /\ Amount(m, 4) \in Nat /\ Amount(m, 5) \in Nat
    BY <1>3
  <1>5. RaritySum(m) \in Nat
    BY <1>4, WeightedSum, Zenon DEF RaritySum
  <1> QED
    BY <1>1, <1>2, <1>5

\* Rounding half up.
LEMMA Rounds ==
    ASSUME NEW s \in Nat, NEW t \in Nat \ {0}, NEW b, b = (2 * s + t) \div (2 * t)
    PROVE  /\ b \in Nat /\ b * t \in Nat
           /\ 2 * (b * t) <= 2 * s + t /\ 2 * s + t < 2 * (b * t) + 2 * t
  <1> DEFINE x == 2 * s + t
             y == 2 * t
  <1>1. x \in Nat /\ y \in Nat \ {0}
    OBVIOUS
  <1>2. b = x \div y
    OBVIOUS
  <1> HIDE DEF x, y
  <1>3. b \in Int /\ y * b <= x /\ x < y * b + y
    BY <1>1, <1>2
  <1>4. b \in Nat
    BY <1>1, <1>3
  <1>5. y * b = 2 * (b * t) /\ b * t \in Nat
    BY <1>4 DEF y
  <1> QED
    BY <1>3, <1>4, <1>5 DEF x, y

LEMMA Closest ==
    ASSUME NEW s \in Nat, NEW t \in Nat \ {0}, NEW b \in Nat, NEW r \in Nat,
           2 * (b * t) <= 2 * s + t, 2 * s + t < 2 * (b * t) + 2 * t
    PROVE  \/ Distance(s, r * t) > Distance(s, b * t)
           \/ Distance(s, r * t) = Distance(s, b * t) /\ r <= b
  <1> DEFINE x == b * t
             y == r * t
  <1>1. x \in Int /\ y \in Int
    OBVIOUS
  <1>2. r < b => y + t <= x
    <2> SUFFICES ASSUME r < b PROVE y + t <= x
      OBVIOUS
    <2>1. (r + 1) * t <= b * t
      BY TimesMono
    <2>2. (r + 1) * t = r * t + t
      OBVIOUS
    <2> QED
      BY <2>1, <2>2
  <1>3. b < r => x + t <= y
    <2> SUFFICES ASSUME b < r PROVE x + t <= y
      OBVIOUS
    <2>1. (b + 1) * t <= r * t
      BY TimesMono
    <2>2. (b + 1) * t = b * t + t
      OBVIOUS
    <2> QED
      BY <2>1, <2>2
  <1>4. 2 * x <= 2 * s + t /\ 2 * s + t < 2 * x + 2 * t
    OBVIOUS
  <1> SUFFICES Distance(s, y) > Distance(s, x) \/ (Distance(s, y) = Distance(s, x) /\ r <= b)
    OBVIOUS
  <1>5. r = b => x = y
    OBVIOUS
  <1> HIDE DEF x, y
  <1>6. CASE r < b
    BY <1>1, <1>2, <1>4, <1>6 DEF Distance
  <1>7. CASE b < r
    BY <1>1, <1>3, <1>4, <1>7 DEF Distance
  <1>8. CASE r = b
    BY <1>1, <1>5, <1>8 DEF Distance
  <1> QED
    BY <1>6, <1>7, <1>8

LEMMA RateIs ==
    ASSUME NEW tier \in TierRows, ValidTier(tier), NEW n \in Nat
    PROVE  /\ tier.minRate * Width(tier) <= RateTimesWidth(tier, n)
           /\ RateTimesWidth(tier, n) <= tier.maxRate * Width(tier)
           /\ \A k \in Nat : n <= k => RateTimesWidth(tier, n) <= RateTimesWidth(tier, k)
  <1> DEFINE w == Width(tier)
             d == tier.maxRate - tier.minRate
             low == tier.minRate
             c(k) == Clamp(k - tier.minN, 0, w)
  <1>1. w \in Nat /\ d \in Nat /\ low \in Int /\ tier.maxRate = low + d /\ tier.minN \in Int
    BY CatalogAssumption DEF ValidTier, Width
  <1>2. \A k \in Nat : RateTimesWidth(tier, k) = low * w + d * c(k)
    BY DEF RateTimesWidth
  <1>3. ASSUME NEW k \in Nat PROVE c(k) \in 0 .. w
    BY <1>1 DEF Clamp
  <1>4. ASSUME NEW k \in Nat, n <= k PROVE c(n) <= c(k)
    BY <1>1, <1>4 DEF Clamp
  <1>5. tier.maxRate * w = low * w + d * w /\ low * w \in Int
    BY <1>1
  <1> HIDE DEF w, d, low, c
  <1>6. ASSUME NEW a \in Int, NEW b \in Int, a <= b PROVE d * a \in Int /\ d * b \in Int /\ d * a <= d * b
    <2>1. a * d \in Int /\ b * d \in Int /\ a * d <= b * d
      BY <1>1, <1>6, TimesMono
    <2>2. d * a = a * d /\ d * b = b * d
      BY <1>1
    <2> QED
      BY <2>1, <2>2
  <1>7. c(n) \in Int /\ 0 <= c(n) /\ c(n) <= w /\ w \in Int
    BY <1>1, <1>3
  <1>8. d * 0 = 0
    BY <1>1
  <1>9. d * c(n) \in Int /\ 0 <= d * c(n)
    BY <1>6, <1>7, <1>8
  <1>10. d * w \in Int /\ d * c(n) <= d * w
    BY <1>6, <1>7
  <1>11. low * w <= RateTimesWidth(tier, n)
    BY <1>2, <1>5, <1>9
  <1>12. RateTimesWidth(tier, n) <= tier.maxRate * w
    BY <1>2, <1>5, <1>9, <1>10
  <1>13. ASSUME NEW k \in Nat, n <= k PROVE RateTimesWidth(tier, n) <= RateTimesWidth(tier, k)
    <2>1. c(n) <= c(k) /\ c(k) \in Int
      BY <1>1, <1>3, <1>4, <1>13
    <2>2. d * c(n) \in Int /\ d * c(k) \in Int /\ d * c(n) <= d * c(k)
      BY <1>6, <1>7, <2>1
    <2> QED
      BY <1>2, <1>5, <2>2
  <1> QED
    BY <1>11, <1>12, <1>13 DEF w, low

LEMMA VowIs ==
    ASSUME TiersInv, PricedVow
    PROVE  /\ vow.base \in Nat /\ vow.base \in Rarities /\ vow.base + 1 \in Rarities
           /\ tiers[vow.base + 1] \in TierRows /\ ValidTier(tiers[vow.base + 1])
  <1> DEFINE s == RaritySum(vow.materials)
             t == Total(vow.materials)
             b == vow.base
  <1>1. s \in Nat /\ t \in Nat \ {0}
    BY RaritySumIs DEF PricedVow
  <1>2. b = (2 * s + t) \div (2 * t)
    BY DEF PricedVow, Base
  <1> HIDE DEF s, t
  <1>3. b \in Nat
    BY <1>1, <1>2, Rounds
  <1>4. LET tier == tiers[b + 1] IN tier \in TierRows /\ ValidTier(tier) /\ tier.target = b + 1
    BY DEF TiersInv, PricedVow
  <1>5. b + 1 \in 2 .. 5
    BY <1>4 DEF ValidTier
  <1>6. b \in 1 .. 5 /\ b + 1 \in 1 .. 5
    BY <1>3, <1>5
  <1> QED
    BY <1>3, <1>4, <1>6 DEF Rarities

\* No request meets an empty pool: every roll of the gacha, and every vow that
\* passed validation, whether it succeeds or fails, finds a skin of its rarity,
\* and every skin of the pool can be drawn (the modulo in Roll; errNoRewardPool,
\* vow.go 100, 303-306).
THEOREM RewardsAlwaysExist == Spec => []RewardsExist
  <1>1. PoolInv /\ TiersInv /\ VowInv => RewardsExist
    <2> SUFFICES ASSUME PoolInv, TiersInv, VowInv PROVE RewardsExist
      OBVIOUS
    <2>1. ASSUME boot = "serving", NEW roll \in EdgeRolls PROVE Draws(RarityOfRoll(roll)) # {}
      <3>1. RarityOfRoll(roll) \in Rarities
        BY EdgesCover, RollHasRarity
      <3> QED
        BY <2>1, <3>1, DrawsAll DEF PoolInv, FullPool
    <2>2. skins = UNION {Draws(RarityOfRoll(roll)) : roll \in EdgeRolls}
      <3>1. ASSUME NEW row \in skins PROVE \E roll \in EdgeRolls : row \in Draws(RarityOfRoll(roll))
        <4>1. row.rarity \in Rarities
          BY DEF PoolInv
        <4> PICK roll \in EdgeRolls : RarityOfRoll(roll) = row.rarity
          BY <4>1, EdgesCover
        <4>2. row \in SkinsOf(RarityOfRoll(roll))
          BY DEF SkinsOf
        <4> QED
          BY <4>2, DrawsAll
      <3>2. ASSUME NEW roll \in EdgeRolls PROVE Draws(RarityOfRoll(roll)) \subseteq skins
        BY DrawsAll DEF SkinsOf
      <3> QED
        BY <3>1, <3>2
    <2>3. ASSUME vow # NoVow, NEW r \in {vow.base, vow.base + 1} PROVE Draws(r) # {}
      <3>1. r \in Rarities /\ boot = "serving"
        BY <2>3, VowIs DEF VowInv, PricedVow
      <3> QED
        BY <3>1, DrawsAll DEF PoolInv, FullPool
    <2> QED
      BY <2>1, <2>2, <2>3 DEF RewardsExist
  <1> QED
    BY <1>1, VowStays, PTL

\* A vow's base rarity is the one closest to the average of its materials, the
\* higher one of two, none of them is Legendary, and its chance stays between
\* the tier's two rates and does not fall when more power is paid, for every
\* configuration the loader accepts (computeRarities, calcSuccessRate).
THEOREM VowsAreFair == Spec => []VowRules
  <1>1. TiersInv /\ VowInv => VowRules
    <2> SUFFICES ASSUME TiersInv, VowInv, vow # NoVow PROVE VowRules
      BY DEF VowRules
    <2> DEFINE m == vow.materials
               tier == tiers[vow.base + 1]
               s == RaritySum(m)
               t == Total(m)
               b == vow.base
    <2>1. PricedVow
      BY DEF VowInv
    <2>2. b \in Nat /\ tier \in TierRows /\ ValidTier(tier)
      BY <2>1, VowIs
    <2>3. \A k \in DOMAIN m : m[k].rarity # Legendary
      BY <2>1 DEF PricedVow, Material, Legendary
    <2>4. s \in Nat /\ t \in Nat \ {0} /\ b = (2 * s + t) \div (2 * t)
      BY <2>1, RaritySumIs DEF PricedVow, Base
    <2>5. ASSUME NEW r \in Rarities
          PROVE  \/ Distance(s, r * t) > Distance(s, b * t)
                 \/ Distance(s, r * t) = Distance(s, b * t) /\ r <= b
      <3> HIDE DEF s, t, b
      <3>1. 2 * (b * t) <= 2 * s + t /\ 2 * s + t < 2 * (b * t) + 2 * t
        BY <2>4, Rounds
      <3>2. r \in Nat
        BY DEF Rarities
      <3>3. s \in Nat /\ t \in Nat \ {0} /\ b \in Nat /\ r \in Nat
        BY <2>2, <2>4, <3>2
      <3> QED
        BY <3>3, <3>1, Closest
    <2>6. vow.n \in Nat /\ Powers \subseteq Nat
      BY <2>1, CatalogAssumption DEF PricedVow
    <2>7. /\ tier.minRate * Width(tier) <= RateTimesWidth(tier, vow.n)
          /\ RateTimesWidth(tier, vow.n) <= tier.maxRate * Width(tier)
          /\ \A n \in Powers : vow.n <= n => RateTimesWidth(tier, vow.n) <= RateTimesWidth(tier, n)
      <3> HIDE DEF tier
      <3> QED
        BY <2>2, <2>6, RateIs
    <2> QED
      BY <2>3, <2>5, <2>7 DEF VowRules
  <1> QED
    BY <1>1, VowStays, PTL

----------------------------------------------------------------------------
(* The seeded choice of slots.  Seeded folds the steps of a window over the  *)
(* slots; what follows unfolds it by one step.                               *)

LEMMA TopIn ==
    ASSUME NEW n \in Nat, NEW s \in SUBSET (1 .. n), s # {}
    PROVE  Max(s) \in s /\ \A x \in s : x <= Max(s)
  <1> DEFINE T == {k \in Nat : n - k \in s}
  <1>1. T \in SUBSET Nat /\ \A x \in s : x \in Int /\ n - x \in T
    OBVIOUS
  <1>2. T # {}
    BY <1>1
  <1>3. PICK k \in T : \A j \in T : k <= j
    BY <1>1, <1>2, Least
  <1>4. n - k \in s /\ \A x \in s : n - k >= x
    BY <1>1, <1>3
  <1> QED
    BY <1>4 DEF Max

LEMMA TopOf ==
    ASSUME NEW k \in Nat, k # 0
    PROVE  Max(1 .. k) = k /\ (1 .. k) \ {k} = 1 .. k - 1
  <1>0. k \in 1 .. k
    OBVIOUS
  <1>1. Max(1 .. k) \in 1 .. k /\ \A x \in 1 .. k : x <= Max(1 .. k)
    <2> DEFINE s == 1 .. k
    <2>1. s \in SUBSET (1 .. k) /\ s # {}
      BY <1>0
    <2> HIDE DEF s
    <2>2. Max(s) \in s /\ \A x \in s : x <= Max(s)
      BY <2>1, TopIn
    <2> QED
      BY <2>2 DEF s
  <1> DEFINE top == Max(1 .. k)
  <1>2. k \in 1 .. k /\ (1 .. k) \ {k} = 1 .. k - 1
    OBVIOUS
  <1> HIDE DEF top
  <1>3. top \in Nat /\ top <= k /\ k <= top
    BY <1>1, <1>2 DEF top
  <1> QED
    BY <1>2, <1>3 DEF top

\* The intermediate results that the fold goes through.
IsFold(g, layers, window, D) ==
    g = [s \in D |-> IF s = {} THEN Unchanged
                     ELSE ApplyStep(layers, g[s \ {Max(s)}], window[Max(s)])]

LEMMA SeededIs ==
    ASSUME NEW layers, NEW window
    PROVE  Seeded(layers, window)
             = (CHOOSE g : IsFold(g, layers, window, SUBSET DOMAIN window))[DOMAIN window]
  BY DEF Seeded, FoldLeft, MapThenFoldSet, IsFold

LEMMA FoldExists ==
    ASSUME NEW layers, NEW window, NEW n \in Nat
    PROVE  \E g : IsFold(g, layers, window, SUBSET (1 .. n))
  <1> DEFINE D(k) == SUBSET (1 .. k)
             Bad == {k \in Nat : ~\E g : IsFold(g, layers, window, D(k))}
  <1>1. ASSUME Bad # {} PROVE FALSE
    <2>1. PICK k \in Bad : \A j \in Bad : k <= j
      BY <1>1, Least
    <2>2. CASE k = 0
      <3> DEFINE g == [s \in D(0) |-> Unchanged]
      <3>1. D(0) = {{}}
        OBVIOUS
      <3>2. IsFold(g, layers, window, D(0))
        BY <3>1 DEF IsFold
      <3> QED
        BY <2>2, <3>2
    <2>3. CASE k # 0
      <3> DEFINE j == k - 1
      <3>1. j \in Nat /\ j < k /\ k \in Nat /\ j <= k
        BY <2>3
      <3>2. \E g : IsFold(g, layers, window, D(j))
        <4> HIDE DEF D, j
        <4> QED
          BY <2>1, <3>1
      <3> PICK g : IsFold(g, layers, window, D(j))
        BY <3>2
      <3> DEFINE h == [s \in D(k) |-> IF s = {} THEN Unchanged
                                      ELSE ApplyStep(layers, g[s \ {Max(s)}], window[Max(s)])]
      <3>3. D(j) \subseteq D(k)
        BY <3>1
      <3>4. ASSUME NEW s \in D(k), s # {} PROVE s \ {Max(s)} \in D(j)
        <4>1. Max(s) \in s /\ \A x \in s : x <= Max(s)
          BY <3>1, <3>4, TopIn
        <4> DEFINE top == Max(s)
        <4>3. s \subseteq 1 .. k
          BY <3>4
        <4> HIDE DEF top
        <4>4. top \in 1 .. k /\ \A x \in s : x \in 1 .. k /\ x <= top
          BY <4>1, <4>3 DEF top
        <4>5. ASSUME NEW x \in s, x # top PROVE x \in 1 .. j
          <5>1. x \in 1 .. k /\ x <= top /\ top \in 1 .. k
            BY <4>4
          <5>2. 1 <= x /\ x <= j
            BY <3>1, <4>5, <5>1
          <5> QED
            BY <3>1, <5>1, <5>2
        <4>2. \A x \in s : x # Max(s) => x \in 1 .. j
          BY <4>5 DEF top
        <4> QED
          BY <4>2
      <3>5. \A s \in D(j) : h[s] = g[s]
        BY <3>3 DEF IsFold
      <3>6. \A s \in D(k) : s # {} => g[s \ {Max(s)}] = h[s \ {Max(s)}]
        BY <3>4, <3>5
      <3> HIDE DEF D
      <3>7. h = [s \in D(k) |-> IF s = {} THEN Unchanged
                                ELSE ApplyStep(layers, h[s \ {Max(s)}], window[Max(s)])]
        BY <3>6
      <3>8. IsFold(h, layers, window, D(k))
        BY <3>7 DEF IsFold
      <3> QED
        BY <3>8
    <2> QED
      BY <2>2, <2>3
  <1> QED
    BY <1>1

\* The result after each prefix of the window.
IsTrace(g, layers, window, n) ==
    /\ g[1 .. 0] = Unchanged
    /\ \A k \in 1 .. n : g[1 .. k] = ApplyStep(layers, g[1 .. k - 1], window[k])
    /\ Seeded(layers, window) = g[1 .. n]

LEMMA TraceExists ==
    ASSUME NEW layers, NEW n \in Nat, NEW window \in [1 .. n -> Seeds]
    PROVE  \E g : IsTrace(g, layers, window, n)
  <1> DEFINE g == CHOOSE g : IsFold(g, layers, window, SUBSET (1 .. n))
  <1>1. IsFold(g, layers, window, SUBSET (1 .. n))
    BY FoldExists
  <1>2. Seeded(layers, window) = g[1 .. n]
    BY SeededIs
  <1> HIDE DEF g
  <1>3. g[1 .. 0] = Unchanged
    BY <1>1 DEF IsFold
  <1>4. ASSUME NEW k \in 1 .. n PROVE g[1 .. k] = ApplyStep(layers, g[1 .. k - 1], window[k])
    <2> DEFINE s == 1 .. k
    <2>0. k \in s
      OBVIOUS
    <2>1. s \in SUBSET (1 .. n) /\ s # {}
      <3>1. \A x \in 1 .. k : x \in 1 .. n
        OBVIOUS
      <3> QED
        BY <2>0, <3>1
    <2>2. Max(s) = k /\ s \ {Max(s)} = 1 .. k - 1
      <3>1. k \in Nat /\ k # 0
        OBVIOUS
      <3>2. Max(1 .. k) = k /\ (1 .. k) \ {k} = 1 .. k - 1
        BY <3>1, TopOf
      <3> QED
        BY <3>2
    <2> HIDE DEF s
    <2>3. g[s] = ApplyStep(layers, g[s \ {Max(s)}], window[Max(s)])
      BY <1>1, <2>1 DEF IsFold
    <2> QED
      BY <2>2, <2>3 DEF s
  <1>5. IsTrace(g, layers, window, n)
    BY <1>2, <1>3, <1>4 DEF IsTrace
  <1> QED
    BY <1>5

LEMMA SeededNone ==
    ASSUME NEW layers, NEW window \in [1 .. 0 -> Seeds]
    PROVE  Seeded(layers, window) = Unchanged
  <1>1. PICK g : IsTrace(g, layers, window, 0)
    BY TraceExists
  <1> QED
    BY <1>1 DEF IsTrace

Earlier(window, n) == [k \in 1 .. n |-> window[k]]

LEMMA SeededStep ==
    ASSUME NEW layers, NEW n \in Nat, NEW window \in [1 .. n + 1 -> Seeds]
    PROVE  Seeded(layers, window)
             = ApplyStep(layers, Seeded(layers, Earlier(window, n)), window[n + 1])
  <1> DEFINE w == Earlier(window, n)
             m == n + 1
  <1>1. w \in [1 .. n -> Seeds] /\ \A k \in 1 .. n : w[k] = window[k]
    BY DEF Earlier
  <1>0. m \in Nat /\ n + 1 \in 1 .. m /\ n + 1 - 1 = n /\ \A k \in 1 .. n : k \in 1 .. m
    OBVIOUS
  <1>01. window \in [1 .. m -> Seeds]
    OBVIOUS
  <1> HIDE DEF w, m
  <1>2. PICK g : IsTrace(g, layers, window, m)
    BY <1>0, <1>01, TraceExists
  <1>3. PICK h : IsTrace(h, layers, w, n)
    BY <1>1, TraceExists
  <1> DEFINE Bad == {k \in Nat : k <= n /\ g[1 .. k] # h[1 .. k]}
  <1>4. ASSUME Bad # {} PROVE FALSE
    <2>1. PICK k \in Bad : \A j \in Bad : k <= j
      BY <1>4, Least
    <2>2. k # 0
      BY <1>2, <1>3 DEF IsTrace
    <2> DEFINE j == k - 1
    <2>3. k \in 1 .. n /\ j \in Nat /\ j <= n /\ ~(k <= j)
      BY <2>1, <2>2
    <2>4. j \notin Bad
      BY <2>1, <2>3
    <2>5. g[1 .. j] = h[1 .. j]
      BY <2>3, <2>4
    <2>6. g[1 .. k] = ApplyStep(layers, g[1 .. j], window[k])
      BY <1>0, <1>2, <2>3 DEF IsTrace
    <2>7. h[1 .. k] = ApplyStep(layers, h[1 .. j], w[k])
      BY <1>3, <2>3 DEF IsTrace
    <2> QED
      BY <1>1, <2>1, <2>3, <2>5, <2>6, <2>7
  <1>5. g[1 .. n] = h[1 .. n]
    BY <1>4
  <1> QED
    BY <1>0, <1>2, <1>3, <1>5 DEF w, m, IsTrace

----------------------------------------------------------------------------
(* The index: the n-th of the open slots, counted from zero.                 *)

Below(T, s) == {t \in T : t < s}

LEMMA SlotsFinite ==
    ASSUME NEW T \in SUBSET Slots
    PROVE  /\ IsFiniteSet(T) /\ Cardinality(T) \in Nat /\ Cardinality(T) <= SlotCount
           /\ T \in SUBSET Nat
  <1>1. IsFiniteSet(Slots) /\ Cardinality(Slots) = SlotCount
    BY FS_Interval, CairnAssumption DEF Slots
  <1>2. IsFiniteSet(T) /\ Cardinality(T) <= Cardinality(Slots)
    BY <1>1, FS_Subset
  <1>3. Cardinality(T) \in Nat
    BY <1>2, FS_CardinalityType
  <1>4. Slots \subseteq Nat
    BY CairnAssumption DEF Slots
  <1> QED
    BY <1>1, <1>2, <1>3, <1>4

LEMMA BelowCount ==
    ASSUME NEW T \in SUBSET Slots, NEW s \in T
    PROVE  Cardinality(Below(T, s)) \in Nat /\ Cardinality(Below(T, s)) < Cardinality(T)
  <1> DEFINE B == Below(T, s)
  <1>1. IsFiniteSet(T) /\ Cardinality(T) \in Nat /\ T \in SUBSET Nat
    BY SlotsFinite
  <1>2. B \in SUBSET T /\ s \notin B
    BY <1>1 DEF Below
  <1> HIDE DEF B
  <1>3. B # T
    BY <1>2
  <1>4. IsFiniteSet(B) /\ Cardinality(B) <= Cardinality(T) /\ Cardinality(B) # Cardinality(T)
    BY <1>1, <1>2, <1>3, FS_Subset
  <1>5. Cardinality(B) \in Nat
    BY <1>4, FS_CardinalityType
  <1> QED
    BY <1>1, <1>4, <1>5 DEF B

\* No two slots have the same index.
LEMMA IndexUnique ==
    ASSUME NEW T \in SUBSET Slots, NEW r \in T, NEW s \in T, r < s
    PROVE  Cardinality(Below(T, r)) < Cardinality(Below(T, s))
  <1> DEFINE B == Below(T, s)
  <1>1. T \in SUBSET Nat /\ B \in SUBSET Slots /\ r \in B
    BY SlotsFinite DEF Below
  <1>2. Below(B, r) = Below(T, r)
    <2>1. r \in Nat /\ s \in Nat /\ \A t \in T : t \in Nat
      BY <1>1
    <2>2. \A t \in T : t < r => t < s
      BY <2>1
    <2> QED
      BY <2>2 DEF Below
  <1> HIDE DEF B
  <1>3. Cardinality(Below(B, r)) < Cardinality(B)
    BY <1>1, BelowCount
  <1> QED
    BY <1>2, <1>3 DEF B

LEMMA NthOfIndex ==
    ASSUME NEW T \in SUBSET Slots, NEW s \in T
    PROVE  Nth(T, Cardinality(Below(T, s))) = s
  <1> DEFINE i == Cardinality(Below(T, s))
  <1>1. \A r \in T : r # s => Cardinality(Below(T, r)) # i
    <2> SUFFICES ASSUME NEW r \in T, r # s PROVE Cardinality(Below(T, r)) # i
      OBVIOUS
    <2>1. r \in Nat /\ s \in Nat
      BY SlotsFinite
    <2>2. Cardinality(Below(T, r)) \in Nat /\ i \in Nat
      BY BelowCount
    <2> HIDE DEF i
    <2>3. CASE r < s
      BY <2>2, <2>3, IndexUnique DEF i
    <2>4. CASE s < r
      BY <2>2, <2>4, IndexUnique DEF i
    <2> QED
      BY <2>1, <2>3, <2>4
  <1>2. \A r \in T : Cardinality({t \in T : t < r}) = i <=> r = s
    BY <1>1 DEF Below
  <1> HIDE DEF i
  <1>3. Nth(T, i) = s
    BY <1>2 DEF Nth
  <1> QED
    BY <1>3 DEF i

\* Every index below the number of slots belongs to one of them.
LEMMA NthIn ==
    ASSUME NEW T \in SUBSET Slots, NEW i \in Nat, i < Cardinality(T)
    PROVE  Nth(T, i) \in T
  <1> DEFINE Bad == {k \in Nat : k < Cardinality(T) /\ ~\E s \in T : Cardinality(Below(T, s)) = k}
             size == Cardinality(T)
  <1>1. IsFiniteSet(T) /\ size \in Nat /\ T \in SUBSET Nat
    BY SlotsFinite
  <1>2. ASSUME Bad # {} PROVE FALSE
    <2>1. PICK k \in Bad : \A j \in Bad : k <= j
      BY <1>2, Least
    <2>2. k \in Nat /\ k < size /\ \A s \in T : Cardinality(Below(T, s)) # k
      BY <2>1
    \* A least slot above those that have smaller indexes.
    <2>3. \A j \in Nat : j < k => \E s \in T : Cardinality(Below(T, s)) = j
      BY <1>1, <2>1, <2>2
    <2> HIDE DEF Bad, size
    <2>4. CASE k = 0
      <3>1. T # {}
        BY <1>1, <2>2, <2>4, FS_EmptySet DEF size
      <3>2. PICK s \in T : \A t \in T : s <= t
        BY <1>1, <3>1, Least
      <3>3. Below(T, s) = {}
        <4>1. s \in Nat /\ \A t \in T : t \in Nat
          BY <1>1
        <4>2. \A t \in T : ~(t < s)
          BY <3>2, <4>1
        <4> QED
          BY <4>2 DEF Below
      <3> QED
        BY <2>2, <2>4, <3>3, FS_EmptySet
    <2>5. CASE k # 0
      <3> DEFINE j == k - 1
      <3>1. j \in Nat /\ j < k /\ j + 1 = k
        BY <2>2, <2>5
      <3> HIDE DEF j
      <3>2. PICK r \in T : Cardinality(Below(T, r)) = j
        BY <2>3, <3>1
      <3> DEFINE C == Below(T, r) \cup {r}
                 A == {t \in T : r < t}
      <3>3. r \in Nat /\ \A t \in T : t \in Nat
        BY <1>1
      <3>4. Below(T, r) \in SUBSET T /\ r \notin Below(T, r)
        BY <3>3 DEF Below
      <3>5. Cardinality(C) = k
        BY <1>1, <3>1, <3>2, <3>4, FS_Subset, FS_AddElement
      <3>6. A # {}
        <4>1. \A t \in T : t \in C \/ t \in A
          BY <3>3 DEF Below
        <4>2. A = {} => T = C
          BY <3>4, <4>1
        <4> HIDE DEF A, C
        <4> QED
          BY <2>2, <3>5, <4>2, <1>1 DEF size
      <3>7. A \in SUBSET Nat
        BY <3>3
      <3> HIDE DEF A
      <3>8. PICK s \in A : \A t \in A : s <= t
        BY <3>6, <3>7, Least
      <3>9. s \in T /\ Below(T, s) = C
        <4>1. s \in T /\ r < s /\ s \in Nat
          BY <3>3, <3>8 DEF A
        <4>2. \A t \in T : t < s => ~(r < t)
          BY <3>3, <3>8, <4>1 DEF A
        <4>3. \A t \in T : t < s <=> (t < r \/ t = r)
          BY <3>3, <4>1, <4>2
        <4> QED
          BY <4>1, <4>3 DEF Below
      <3> HIDE DEF C
      <3> QED
        BY <2>2, <3>5, <3>9
    <2> QED
      BY <2>4, <2>5
  <1>3. \E s \in T : Cardinality(Below(T, s)) = i
    BY <1>2
  <1>4. \E s \in T : Cardinality({t \in T : t < s}) = i
    BY <1>3 DEF Below
  <1> QED
    BY <1>4 DEF Nth

----------------------------------------------------------------------------
(* One step, forwards and backwards.                                         *)

LayersOK(layers) == layers \in [Slots -> 0 .. MaxLayers]

\* Distributions without the bound on a single slot, which follows.
IsSpread(layers, d, n) ==
    /\ d \in [Slots -> Nat]
    /\ \A s \in Slots : layers[s] + d[s] <= MaxLayers
    /\ SumFunction(d) = Lesser(n, Room(layers))

LEMMA SlotsAre == IsFiniteSet(Slots) /\ 0 \in Slots /\ MaxLayers \in Nat
  BY FS_Interval, CairnAssumption DEF Slots

LEMMA RoomIs ==
    ASSUME NEW layers, LayersOK(layers)
    PROVE  Room(layers) \in Nat
  <1> DEFINE room == [s \in Slots |-> MaxLayers - layers[s]]
  <1>1. room \in [Slots -> Nat]
    BY CairnAssumption DEF LayersOK
  <1> HIDE DEF room
  <1>2. SumFunction(room) \in Nat
    BY <1>1, SlotsAre, SumNat
  <1> QED
    BY <1>2 DEF Room, room

\* What fits into the slots is at most their room, and all of it only when they
\* are full.
LEMMA Fitting ==
    ASSUME NEW layers, LayersOK(layers), NEW d \in [Slots -> Nat],
           \A s \in Slots : layers[s] + d[s] <= MaxLayers
    PROVE  /\ SumFunction(d) \in Nat
           /\ SumFunction(d) <= Room(layers)
           /\ SumFunction(d) = Room(layers) => \A s \in Slots : layers[s] + d[s] = MaxLayers
           /\ \A s \in Slots : d[s] <= SumFunction(d)
  <1> DEFINE room == [s \in Slots |-> MaxLayers - layers[s]]
  <1>1. /\ room \in [Slots -> Int] /\ d \in [Slots -> Int]
        /\ \A s \in Slots : d[s] <= room[s] /\ (d[s] = room[s] => layers[s] + d[s] = MaxLayers)
    BY CairnAssumption DEF LayersOK
  <1>2. SumFunction(room) = Room(layers)
    BY DEF Room
  <1> HIDE DEF room
  <1>3. SumFunction(d) \in Nat
    BY SlotsAre, SumNat
  <1>4. /\ SumFunction(d) <= SumFunction(room)
        /\ SumFunction(d) = SumFunction(room) => \A s \in Slots : d[s] = room[s]
    BY <1>1, SlotsAre, SumBelow
  <1>5. ASSUME NEW s \in Slots PROVE d[s] <= SumFunction(d)
    <2> DEFINE one == [x \in Slots |-> IF x = s THEN d[s] ELSE 0]
    <2>1. d[s] \in Int /\ one \in [Slots -> Int] /\ \A x \in Slots : one[x] <= d[x]
      OBVIOUS
    <2>2. SumFunction(one) = d[s]
      BY <2>1, SlotsAre, SumOne
    <2> HIDE DEF one
    <2>3. SumFunction(one) <= SumFunction(d)
      BY <1>1, <2>1, SlotsAre, SumBelow
    <2> QED
      BY <2>2, <2>3
  <1> QED
    BY <1>1, <1>2, <1>3, <1>4, <1>5

LEMMA SpreadIs ==
    ASSUME NEW layers, LayersOK(layers), NEW n \in Nat
    PROVE  \A d : d \in Distributions(layers, n) <=> IsSpread(layers, d, n)
  <1>1. ASSUME NEW d, d \in Distributions(layers, n) PROVE IsSpread(layers, d, n)
    <2>1. 0 .. Lesser(n, MaxLayers) \subseteq Nat
      OBVIOUS
    <2>2. d \in [Slots -> Nat]
      BY <1>1, <2>1 DEF Distributions
    <2> QED
      BY <1>1, <2>2 DEF Distributions, IsSpread
  <1>2. ASSUME NEW d, IsSpread(layers, d, n) PROVE d \in Distributions(layers, n)
    <2> DEFINE sum == SumFunction(d)
               room == Room(layers)
    <2>1. /\ d \in [Slots -> Nat] /\ sum = Lesser(n, room)
          /\ \A s \in Slots : layers[s] + d[s] <= MaxLayers
      BY <1>2 DEF IsSpread
    <2>2. sum \in Nat /\ \A s \in Slots : d[s] <= sum
      BY <2>1, Fitting
    <2>3. room \in Nat
      BY RoomIs
    <2> HIDE DEF sum, room
    <2>4. sum <= n
      BY <2>1, <2>3 DEF Lesser
    <2>5. ASSUME NEW s \in Slots PROVE d[s] \in 0 .. Lesser(n, MaxLayers)
      <3>1. d[s] \in Nat /\ d[s] <= n
        BY <2>1, <2>2, <2>4
      <3>2. layers[s] \in Nat /\ layers[s] + d[s] <= MaxLayers /\ MaxLayers \in Nat
        BY <2>1, CairnAssumption DEF LayersOK
      <3> QED
        BY <3>1, <3>2 DEF Lesser
    <2>6. d \in [Slots -> 0 .. Lesser(n, MaxLayers)]
      BY <2>1, <2>5
    <2> QED
      BY <2>1, <2>6 DEF Distributions, sum, room
  <1> QED
    BY <1>1, <1>2

LEMMA StepFull ==
    ASSUME NEW layers, NEW d, NEW seed, Incomplete(layers, d) = {}
    PROVE  ApplyStep(layers, d, seed) = d
  BY DEF ApplyStep

LEMMA StepOpen ==
    ASSUME NEW layers, NEW d, NEW seed \in Nat, Incomplete(layers, d) # {}
    PROVE  \E s \in Incomplete(layers, d) :
              ApplyStep(layers, d, seed) = [d EXCEPT ![s] = @ + 1]
  <1> DEFINE T == Incomplete(layers, d)
             size == Cardinality(T)
             s == Nth(T, seed % size)
  <1>1. T \in SUBSET Slots /\ T # {}
    BY DEF Incomplete
  <1>2. ApplyStep(layers, d, seed) = [d EXCEPT ![s] = @ + 1]
    BY <1>1 DEF ApplyStep
  <1> HIDE DEF T
  <1>3. size \in Nat /\ size # 0
    BY <1>1, SlotsFinite, FS_EmptySet
  <1> HIDE DEF size
  <1>4. seed % size \in Nat /\ seed % size < size
    BY <1>3
  <1>5. s \in T
    BY <1>1, <1>4, NthIn DEF size
  <1> QED
    BY <1>2, <1>5 DEF T

LEMMA StepSpreads ==
    ASSUME NEW layers, LayersOK(layers), NEW k \in Nat, NEW d, IsSpread(layers, d, k),
           NEW seed \in Nat
    PROVE  IsSpread(layers, ApplyStep(layers, d, seed), k + 1)
  <1> DEFINE sum == SumFunction(d)
             room == Room(layers)
  <1>1. /\ d \in [Slots -> Nat] /\ sum = Lesser(k, room)
        /\ \A s \in Slots : layers[s] + d[s] <= MaxLayers
    BY DEF IsSpread
  <1>2. room \in Nat /\ sum \in Nat /\ sum <= room
    BY <1>1, RoomIs, Fitting
  <1>3. sum = room => \A s \in Slots : layers[s] + d[s] = MaxLayers
    BY <1>1, Fitting
  <1>4. \A s \in Slots : layers[s] \in Nat /\ d[s] \in Nat /\ MaxLayers \in Nat
    BY <1>1, CairnAssumption DEF LayersOK
  <1>5. CASE Incomplete(layers, d) = {}
    <2>1. \A s \in Slots : ~(layers[s] + d[s] < MaxLayers)
      BY <1>5 DEF Incomplete
    <2>2. \A s \in Slots : d[s] = MaxLayers - layers[s]
      BY <1>1, <1>4, <2>1
    <2>3. d = [s \in Slots |-> MaxLayers - layers[s]]
      BY <1>1, <2>2
    <2>4. sum = room
      BY <2>3 DEF Room
    <2>5. ApplyStep(layers, d, seed) = d
      BY <1>5, StepFull
    <2> HIDE DEF sum, room
    <2>6. sum = Lesser(k + 1, room)
      BY <1>1, <1>2, <2>4 DEF Lesser
    <2> QED
      BY <1>1, <2>5, <2>6 DEF IsSpread, sum, room
  <1>6. CASE Incomplete(layers, d) # {}
    <2>1. PICK s \in Incomplete(layers, d) : ApplyStep(layers, d, seed) = [d EXCEPT ![s] = @ + 1]
      BY <1>6, StepOpen
    <2>2. s \in Slots /\ layers[s] + d[s] < MaxLayers
      BY DEF Incomplete
    <2> DEFINE e == [d EXCEPT ![s] = @ + 1]
    <2>3. e \in [Slots -> Nat] /\ \A x \in Slots : layers[x] + e[x] <= MaxLayers
      BY <1>1, <1>4, <2>2
    <2>4. SumFunction(e) = sum + 1
      <3>1. d \in [Slots -> Int]
        BY <1>1
      <3> QED
        BY <2>2, <3>1, SlotsAre, SumBump
    <2> HIDE DEF e, sum, room
    <2>5. sum # room
      BY <1>3, <1>4, <2>2
    <2>6. sum + 1 = Lesser(k + 1, room)
      BY <1>1, <1>2, <2>5 DEF Lesser
    <2>7. IsSpread(layers, e, k + 1)
      BY <2>3, <2>4, <2>6 DEF IsSpread, room
    <2> QED
      BY <2>1, <2>7 DEF e
  <1> QED
    BY <1>5, <1>6

\* Every outcome of k + 1 steps comes from one of k steps by the right seed.
LEMMA StepReaches ==
    ASSUME NEW layers, LayersOK(layers), NEW k \in Nat, NEW d, IsSpread(layers, d, k + 1),
           Slots \subseteq Seeds
    PROVE  \E c, seed : /\ IsSpread(layers, c, k) /\ seed \in Seeds
                        /\ ApplyStep(layers, c, seed) = d
  <1> DEFINE sum == SumFunction(d)
             room == Room(layers)
  <1>1. /\ d \in [Slots -> Nat] /\ sum = Lesser(k + 1, room)
        /\ \A s \in Slots : layers[s] + d[s] <= MaxLayers
    BY DEF IsSpread
  <1>2. room \in Nat /\ sum \in Nat /\ sum <= room
    BY <1>1, RoomIs, Fitting
  <1>3. sum = room => \A s \in Slots : layers[s] + d[s] = MaxLayers
    BY <1>1, Fitting
  <1>4. \A s \in Slots : layers[s] \in Nat /\ d[s] \in Nat /\ MaxLayers \in Nat
    BY <1>1, CairnAssumption DEF LayersOK
  <1>5. CASE room <= k
    <2> HIDE DEF sum, room
    <2>1. sum = room /\ sum = Lesser(k, room)
      BY <1>1, <1>2, <1>5 DEF Lesser
    <2>2. IsSpread(layers, d, k)
      BY <1>1, <2>1 DEF IsSpread, sum, room
    <2>3. Incomplete(layers, d) = {}
      <3>1. \A s \in Slots : layers[s] + d[s] = MaxLayers
        BY <1>3, <2>1
      <3>2. \A s \in Slots : ~(layers[s] + d[s] < MaxLayers)
        BY <1>4, <3>1
      <3> QED
        BY <3>2 DEF Incomplete
    <2>4. ApplyStep(layers, d, 0) = d
      BY <2>3, StepFull
    <2> QED
      BY <2>2, <2>4, SlotsAre
  <1>6. CASE k < room
    <2>1. sum = k + 1
      <3> HIDE DEF sum, room
      <3> QED
        BY <1>1, <1>2, <1>6 DEF Lesser
    <2>2. PICK s \in Slots : d[s] # 0
      <3>1. ASSUME \A x \in Slots : d[x] = 0 PROVE FALSE
        <4>1. d = [x \in Slots |-> 0]
          BY <1>1, <3>1
        <4>2. sum = 0
          BY <4>1, SlotsAre, SumZero
        <4> QED
          BY <2>1, <4>2
      <3> QED
        BY <3>1
    <2> DEFINE c == [d EXCEPT ![s] = @ - 1]
               T == Incomplete(layers, c)
               i == Cardinality(Below(T, s))
               size == Cardinality(T)
    <2>3. /\ c \in [Slots -> Nat] /\ \A x \in Slots : layers[x] + c[x] <= MaxLayers
          /\ c[s] = d[s] - 1
      BY <1>1, <1>4, <2>2
    <2>4. d = [c EXCEPT ![s] = @ + 1]
      <3>1. \A x \in Slots : d[x] = IF x = s THEN c[x] + 1 ELSE c[x]
        BY <1>1, <1>4
      <3> HIDE DEF c
      <3> QED
        BY <1>1, <2>3, <3>1
    <2>5. s \in T
      BY <1>1, <1>4, <2>3 DEF Incomplete
    <2>6. T \in SUBSET Slots
      BY DEF Incomplete
    <2>7. sum = SumFunction(c) + 1 /\ SumFunction(c) \in Int
      <3> HIDE DEF c
      <3>1. c \in [Slots -> Int]
        BY <2>3
      <3> QED
        BY <2>4, <3>1, SlotsAre, SumBump
    <2>8. IsSpread(layers, c, k)
      <3> HIDE DEF c, sum, room
      <3>1. SumFunction(c) = k
        BY <2>1, <2>7
      <3>2. k = Lesser(k, room)
        BY <1>2, <1>6 DEF Lesser
      <3> QED
        BY <2>3, <3>1, <3>2 DEF IsSpread, room
    <2>9. ApplyStep(layers, c, i) = [c EXCEPT ![Nth(T, i % size)] = @ + 1]
      <3> HIDE DEF c, i
      <3> QED
        BY <2>5 DEF ApplyStep
    <2> HIDE DEF c, T
    <2>10. i \in Nat /\ i < size /\ Nth(T, i) = s
      BY <2>5, <2>6, BelowCount, NthOfIndex
    <2>11. size \in Nat /\ size <= SlotCount
      BY <2>6, SlotsFinite
    <2> HIDE DEF i, size
    <2>12. i % size = i
      BY <2>10, <2>11
    <2>13. i \in Slots
      BY <2>10, <2>11, CairnAssumption DEF Slots
    <2>14. ApplyStep(layers, c, i) = d
      BY <2>4, <2>9, <2>10, <2>12
    <2> QED
      BY <2>8, <2>13, <2>14
  <1> QED
    <2> HIDE DEF room
    <2> QED
      BY <1>2, <1>5, <1>6

----------------------------------------------------------------------------
(* Windows of any number of steps.                                           *)

LEMMA SeededSpreads ==
    ASSUME NEW layers, LayersOK(layers), NEW n \in Nat
    PROVE  \A window \in [1 .. n -> Seeds] : IsSpread(layers, Seeded(layers, window), n)
  <1> DEFINE Good(k) == \A window \in [1 .. k -> Seeds] : IsSpread(layers, Seeded(layers, window), k)
             Bad == {k \in Nat : ~Good(k)}
  <1>1. Good(0)
    <2> SUFFICES ASSUME NEW window \in [1 .. 0 -> Seeds]
                 PROVE  IsSpread(layers, Seeded(layers, window), 0)
      OBVIOUS
    <2>1. Seeded(layers, window) = Unchanged
      BY SeededNone
    <2>2. /\ Unchanged \in [Slots -> Nat]
          /\ \A s \in Slots : layers[s] + Unchanged[s] <= MaxLayers
      BY CairnAssumption DEF Unchanged, LayersOK
    <2>3. SumFunction(Unchanged) = 0
      BY SlotsAre, SumZero DEF Unchanged
    <2>4. Lesser(0, Room(layers)) = 0
      BY RoomIs DEF Lesser
    <2> QED
      BY <2>1, <2>2, <2>3, <2>4 DEF IsSpread
  <1>2. ASSUME NEW k \in Nat, Good(k) PROVE Good(k + 1)
    <2> SUFFICES ASSUME NEW window \in [1 .. k + 1 -> Seeds]
                 PROVE  IsSpread(layers, Seeded(layers, window), k + 1)
      OBVIOUS
    <2> DEFINE w == Earlier(window, k)
               seed == window[k + 1]
    <2>1. w \in [1 .. k -> Seeds] /\ seed \in Nat
      <3>1. \A j \in 1 .. k : window[j] \in Seeds
        OBVIOUS
      <3>2. k + 1 \in 1 .. k + 1
        OBVIOUS
      <3> QED
        BY <3>1, <3>2, CairnSeedAssumption DEF Earlier
    <2>2. Seeded(layers, window) = ApplyStep(layers, Seeded(layers, w), seed)
      BY SeededStep
    <2>3. IsSpread(layers, Seeded(layers, w), k)
      BY <1>2, <2>1
    <2> HIDE DEF w, seed
    <2> QED
      BY <2>1, <2>2, <2>3, StepSpreads
  <1>3. ASSUME Bad # {} PROVE FALSE
    <2> HIDE DEF Good
    <2>1. PICK k \in Bad : \A j \in Bad : k <= j
      BY <1>3, Least
    <2> DEFINE j == k - 1
    <2>2. j \in Nat /\ j + 1 = k /\ ~(k <= j)
      BY <1>1, <2>1
    <2> HIDE DEF j
    <2>3. Good(j)
      BY <2>1, <2>2
    <2> QED
      BY <1>2, <2>1, <2>2, <2>3
  <1> QED
    <2> HIDE DEF Good
    <2>1. Good(n)
      BY <1>3
    <2> QED
      BY <2>1 DEF Good

LEMMA SpreadsReached ==
    ASSUME NEW layers, LayersOK(layers), NEW n \in Nat, Slots \subseteq Seeds
    PROVE  \A d : IsSpread(layers, d, n) =>
              \E window \in [1 .. n -> Seeds] : Seeded(layers, window) = d
  <1> DEFINE Reached(d, k) == \E window \in [1 .. k -> Seeds] : Seeded(layers, window) = d
             Good(k) == \A d : IsSpread(layers, d, k) => Reached(d, k)
             Bad == {k \in Nat : ~Good(k)}
  <1>1. Good(0)
    <2> SUFFICES ASSUME NEW d, IsSpread(layers, d, 0) PROVE Reached(d, 0)
      OBVIOUS
    <2>1. d \in [Slots -> Nat] /\ SumFunction(d) = 0
      BY RoomIs DEF IsSpread, Lesser
    <2>2. \A s \in Slots : d[s] = 0
      BY <2>1, SlotsAre, SumNat
    <2>3. d = Unchanged
      BY <2>1, <2>2 DEF Unchanged
    <2> DEFINE window == [k \in 1 .. 0 |-> 0]
    <2>4. window \in [1 .. 0 -> Seeds]
      OBVIOUS
    <2> HIDE DEF window
    <2>5. Seeded(layers, window) = d
      BY <2>3, <2>4, SeededNone
    <2> QED
      BY <2>4, <2>5
  <1>2. ASSUME NEW k \in Nat, Good(k) PROVE Good(k + 1)
    <2> SUFFICES ASSUME NEW d, IsSpread(layers, d, k + 1) PROVE Reached(d, k + 1)
      OBVIOUS
    <2>1. PICK c, seed : /\ IsSpread(layers, c, k) /\ seed \in Seeds
                         /\ ApplyStep(layers, c, seed) = d
      BY StepReaches
    <2>2. PICK w \in [1 .. k -> Seeds] : Seeded(layers, w) = c
      BY <1>2, <2>1
    <2> DEFINE window == [j \in 1 .. k + 1 |-> IF j = k + 1 THEN seed ELSE w[j]]
    <2>3. window \in [1 .. k + 1 -> Seeds] /\ window[k + 1] = seed
      BY <2>1
    <2>4. Earlier(window, k) = w
      <3>1. \A j \in 1 .. k : window[j] = w[j]
        OBVIOUS
      <3> HIDE DEF window
      <3> QED
        BY <3>1 DEF Earlier
    <2> HIDE DEF window
    <2>5. Seeded(layers, window) = d
      BY <2>1, <2>2, <2>3, <2>4, SeededStep
    <2> QED
      BY <2>3, <2>5
  <1>3. ASSUME Bad # {} PROVE FALSE
    <2> HIDE DEF Good
    <2>1. PICK k \in Bad : \A j \in Bad : k <= j
      BY <1>3, Least
    <2> DEFINE j == k - 1
    <2>2. j \in Nat /\ j + 1 = k /\ ~(k <= j)
      BY <1>1, <2>1
    <2> HIDE DEF j
    <2>3. Good(j)
      BY <2>1, <2>2
    <2> QED
      BY <1>2, <2>1, <2>2, <2>3
  <1> QED
    <2> HIDE DEF Good
    <2>1. Good(n)
      BY <1>3
    <2> QED
      BY <2>1 DEF Good

----------------------------------------------------------------------------
StoredInv == LayersOK(stored)

\* The stored layers stay within the slots: a window of any length fills none
\* past MaxLayers, whatever the hash yields (cairn.go 241-259).
THEOREM LayersStay == Spec => []StoredInv
  <1>1. Init => StoredInv
    BY CairnAssumption DEF Init, SeedInit, StoredInv, LayersOK
  <1>2. StoredInv /\ [SeedNext]_stored => StoredInv'
    <2> SUFFICES ASSUME StoredInv, [SeedNext]_stored PROVE LayersOK(stored')
      BY DEF StoredInv, LayersOK
    <2>0. LayersOK(stored)
      BY DEF StoredInv
    <2>1. ASSUME NEW window \in Windows, GrowSeeded(window) PROVE LayersOK(stored')
      <3>1. PICK n \in 0 .. MaxSteps : window \in [1 .. n -> Seeds]
        BY <2>1 DEF Windows
      <3> DEFINE d == Seeded(stored, window)
      <3>2. n \in Nat
        BY CairnSeedAssumption
      <3>3. IsSpread(stored, d, n)
        BY <2>0, <3>1, <3>2, SeededSpreads
      <3>4. stored' = [s \in Slots |-> stored[s] + d[s]]
        BY <2>1 DEF GrowSeeded, Grown
      <3> HIDE DEF d
      <3>5. \A s \in Slots : stored[s] + d[s] \in 0 .. MaxLayers
        BY <2>0, <3>3, CairnAssumption DEF IsSpread, LayersOK
      <3> QED
        BY <3>4, <3>5 DEF LayersOK
    <2>2. ASSUME NEW s \in Slots, ClaimSlot(s) PROVE LayersOK(stored')
      BY <2>0, <2>2, CairnAssumption DEF ClaimSlot, LayersOK
    <2>3. CASE UNCHANGED stored
      BY <2>0, <2>3 DEF LayersOK
    <2> QED
      BY <2>1, <2>2, <2>3 DEF SeedNext
  <1>3. [Next]_vars => [SeedNext]_stored
    BY DEF Next, vars
  <1> QED
    BY <1>1, <1>2, <1>3, PTL DEF Spec

\* However many steps a window has, wherever the slots stand and whatever the hash
\* yields, its steps spread as Cairn allows (cairn.go 241-259).
SeedsStayWithin ==
    \A n \in 0 .. MaxSteps : \A window \in [1 .. n -> Seeds] :
        Seeded(stored, window) \in Distributions(stored, n)

\* Cairn's nondeterminism covers the code's choice by index, for any hash, any
\* number of slots and any length of a window.
THEOREM SeedsWithin == Spec => []SeedsStayWithin
  <1>1. StoredInv => SeedsStayWithin
    <2> SUFFICES ASSUME StoredInv, NEW n \in 0 .. MaxSteps, NEW window \in [1 .. n -> Seeds]
                 PROVE  Seeded(stored, window) \in Distributions(stored, n)
      BY DEF SeedsStayWithin
    <2>1. n \in Nat /\ LayersOK(stored)
      BY CairnSeedAssumption DEF StoredInv
    <2> QED
      BY <2>1, SeededSpreads, SpreadIs
  <1> QED
    BY <1>1, LayersStay, PTL

\* And it is no wider than the code: where the hash can name every slot, each
\* distribution Cairn allows is the outcome of some seeds.
THEOREM SeedsCover ==
    ASSUME Slots \subseteq Seeds
    PROVE  Spec => []SeedsDistribute
  <1>1. StoredInv => SeedsDistribute
    <2> SUFFICES ASSUME StoredInv, NEW n \in 0 .. MaxSteps
                 PROVE  {Seeded(stored, window) : window \in [1 .. n -> Seeds]}
                          = Distributions(stored, n)
      BY DEF SeedsDistribute
    <2>1. n \in Nat /\ LayersOK(stored)
      BY CairnSeedAssumption DEF StoredInv
    <2>2. \A window \in [1 .. n -> Seeds] : Seeded(stored, window) \in Distributions(stored, n)
      BY <2>1, SeededSpreads, SpreadIs
    <2>3. \A d \in Distributions(stored, n) :
             \E window \in [1 .. n -> Seeds] : Seeded(stored, window) = d
      BY <2>1, SpreadsReached, SpreadIs
    <2> QED
      BY <2>2, <2>3
  <1> QED
    BY <1>1, LayersStay, PTL
=============================================================================
