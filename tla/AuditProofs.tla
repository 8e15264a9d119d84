---------------------------- MODULE AuditProofs -----------------------------
(***************************************************************************)
(* What the audit says of a log nobody tampered with, for any rate, any    *)
(* costs, any number of rows and seconds, and a wall clock that is set     *)
(* back at will.  The books, BookInv, hold of the rows in the order they   *)
(* were written and bound what syncs banked between two of them by the     *)
(* time that really passed; the audit sees the rows sorted and the time    *)
(* they tell, which is the same order and time enough when the log is      *)
(* WellTimed.                                                              *)
(***************************************************************************)
EXTENDS Audit, Sums, TLAPS

Row == [at : Nat, cost : Nat, accrued : Nat, before : Nat, after : Nat]

TypeInv ==
    /\ ticks \in Nat /\ clock \in Nat /\ pts \in Nat /\ lastSync \in Nat
    /\ log \in Seq(Row)
    /\ wrote \in Seq(Nat) /\ Len(wrote) = Len(log)
    /\ synced \in Seq(Nat) /\ Len(synced) = Len(log) + 1
    /\ open \in Row \cup {NoRow}

\* The balance before the next row, the seconds that wait for the next sync, and
\* what syncs may have banked since a row.
Balance == IF Free THEN pts ELSE open.before
Waiting == IF clock > lastSync THEN clock - lastSync ELSE 0
Bankable(tick) == Rate * (ticks - Waiting - tick + MaxStall)

OpenInv ==
    ~Free => /\ open.at = lastSync /\ Identity(open) /\ open.after = pts
             /\ clock - lastSync <= MaxStall

RowsInv == \A i \in DOMAIN log : Identity(log[i])

GapsInv ==
    \A i \in Steps(log) :
        /\ Gap(log[i - 1], log[i]) = synced[i]
        /\ synced[i] <= Rate * (wrote[i] - wrote[i - 1] + MaxStall)

LastInv ==
    LET n == Len(log)
    IN  n > 0 => /\ Balance - log[n].after = synced[n + 1]
                 /\ synced[n + 1] <= Bankable(wrote[n])

BookInv == OpenInv /\ RowsInv /\ GapsInv /\ LastInv

----------------------------------------------------------------------------
\* Products with the rate, and with anything else that is not negative.
LEMMA RateMono ==
    ASSUME NEW a \in Int, NEW b \in Int, a <= b, NEW r \in Nat
    PROVE  r * a \in Int /\ r * b \in Int /\ r * a <= r * b
  <1>1. b - a \in Nat /\ r * b = r * a + r * (b - a)
    OBVIOUS
  <1>2. r * (b - a) >= 0
    BY <1>1
  <1> QED
    BY <1>1, <1>2

LEMMA Ahead ==
    ASSUME NEW a \in Nat, NEW b \in Nat
    PROVE  (IF a > b THEN a - b ELSE 0) \in Nat
  OBVIOUS

LEMMA AccruedNat == TypeInv => Waiting \in Nat /\ Accrued = Rate * Waiting /\ Accrued \in Nat
  <1> SUFFICES ASSUME TypeInv
               PROVE  Waiting \in Nat /\ Accrued = Rate * Waiting /\ Accrued \in Nat
    OBVIOUS
  <1>1. Waiting \in Nat /\ Rate \in Nat
    BY AuditAssumption DEF TypeInv, Waiting
  <1>2. Accrued = Rate * Waiting
    BY DEF Accrued, Waiting
  <1>3. 0 \in Int /\ Waiting \in Int /\ 0 <= Waiting /\ Rate * 0 = 0
    BY <1>1
  <1>4. Rate * Waiting \in Int /\ Rate * 0 <= Rate * Waiting
    BY <1>1, <1>3, RateMono
  <1> QED
    BY <1>1, <1>2, <1>3, <1>4

LEMMA RowFields ==
    ASSUME NEW row \in Row
    PROVE  row.at \in Nat /\ row.cost \in Nat /\ row.accrued \in Nat
           /\ row.before \in Nat /\ row.after \in Nat /\ row # NoRow
  BY DEF Row, NoRow, None

LEMMA LogRow ==
    ASSUME TypeInv, NEW i \in DOMAIN log
    PROVE  log[i] \in Row /\ i \in 1 .. Len(log)
  BY DEF TypeInv

LEMMA SyncedNat ==
    ASSUME TypeInv, NEW i \in 1 .. Len(log) + 1
    PROVE  synced[i] \in Nat
  BY DEF TypeInv

LEMMA WroteNat ==
    ASSUME TypeInv, NEW i \in DOMAIN log
    PROVE  wrote[i] \in Nat
  BY DEF TypeInv

LEMMA Extended ==
    ASSUME NEW S, NEW s \in Seq(S), NEW x \in S
    PROVE  /\ Append(s, x) \in Seq(S) /\ Len(Append(s, x)) = Len(s) + 1
           /\ DOMAIN Append(s, x) = 1 .. Len(s) + 1 /\ Len(s) \in Nat
           /\ \A i \in 1 .. Len(s) : Append(s, x)[i] = s[i]
           /\ Append(s, x)[Len(s) + 1] = x
  OBVIOUS

LEMMA TypeInit == Init => TypeInv
  BY DEF Init, TypeInv

LEMMA TypeNext == TypeInv /\ [Next]_vars => TypeInv'
  <1> SUFFICES ASSUME TypeInv, [Next]_vars PROVE TypeInv'
    OBVIOUS
  <1>0. Accrued \in Nat
    BY AccruedNat
  <1>1. ASSUME NEW cost \in Costs, Pay(cost) PROVE TypeInv'
    <2>1. cost \in Nat /\ pts + Accrued - cost \in Nat
      BY <1>0, <1>1, AuditAssumption DEF Pay, TypeInv
    <2>2. open' \in Row
      BY <1>0, <1>1, <2>1 DEF Pay, TypeInv, Row
    <2> QED
      BY <1>1, <2>1, <2>2 DEF Pay, TypeInv, time
  <1>2. CASE Insert
    <2> DEFINE row == [open EXCEPT !.at = clock]
    <2>1. row \in Row
      BY <1>2 DEF Insert, Free, TypeInv, Row
    <2> HIDE DEF row
    <2>2. log \in Seq(Row) /\ synced \in Seq(Nat) /\ 0 \in Nat
      BY DEF TypeInv
    <2>3. log' = Append(log, row) /\ synced' = Append(synced, 0)
      BY <1>2 DEF Insert, row
    <2>4. log' \in Seq(Row) /\ Len(log') = Len(log) + 1 /\ Len(log) \in Nat
      BY <2>1, <2>2, <2>3, Extended
    <2>5. synced' \in Seq(Nat) /\ Len(synced') = Len(synced) + 1
      BY <2>2, <2>3, Extended
    <2>6. wrote \in Seq(Nat) /\ ticks \in Nat /\ wrote' = Append(wrote, ticks)
      BY <1>2 DEF Insert, TypeInv
    <2>7. wrote' \in Seq(Nat) /\ Len(wrote') = Len(wrote) + 1
      BY <2>6, Extended
    <2>8. /\ ticks' \in Nat /\ clock' \in Nat /\ pts' \in Nat /\ lastSync' \in Nat
          /\ open' = NoRow
      BY <1>2 DEF Insert, TypeInv, time
    <2> QED
      BY <2>4, <2>5, <2>7, <2>8 DEF TypeInv
  <1>3. CASE Sync
    <2> DEFINE n == Len(synced)
               more == [synced EXCEPT ![n] = @ + Accrued]
    <2>1. synced \in Seq(Nat) /\ n \in 1 .. n
      <3>1. Len(log) \in Nat
        BY DEF TypeInv
      <3> QED
        BY <3>1 DEF TypeInv
    <2>2. synced[n] \in Nat
      BY <2>1
    <2>3. synced[n] + Accrued \in Nat
      BY <1>0, <2>2
    <2>4. more \in Seq(Nat) /\ Len(more) = Len(synced)
      BY <2>1, <2>3
    <2> QED
      BY <1>0, <1>3, <2>4 DEF Sync, TypeInv, time
  <1>4. CASE ResetAnchor
    BY <1>4 DEF ResetAnchor, TypeInv, time
  <1>5. CASE Tick \/ StepBack
    BY <1>5 DEF Tick, StepBack, TypeInv
  <1>6. CASE UNCHANGED vars
    BY <1>6 DEF vars, TypeInv, time
  <1> QED
    BY <1>1, <1>2, <1>3, <1>4, <1>5, <1>6 DEF Next

----------------------------------------------------------------------------
(* The books. *)

LEMMA BookInit == Init => BookInv
  <1> SUFFICES ASSUME Init PROVE BookInv
    OBVIOUS
  <1>1. DOMAIN log = {} /\ Len(log) = 0 /\ Free
    BY DEF Init, Free
  <1> QED
    BY <1>1 DEF BookInv, OpenInv, RowsInv, GapsInv, LastInv, Steps

LEMMA OpenStep == TypeInv /\ OpenInv /\ [Next]_vars => OpenInv'
  <1> SUFFICES ASSUME TypeInv, OpenInv, [Next]_vars PROVE OpenInv'
    OBVIOUS
  <1>1. ASSUME NEW cost \in Costs, Pay(cost) PROVE OpenInv'
    <2>1. lastSync' = clock /\ clock' = clock /\ pts' = pts + Accrued - cost
          /\ open' = [at |-> clock, cost |-> cost, accrued |-> Accrued,
                      before |-> pts, after |-> pts + Accrued - cost]
      BY <1>1 DEF Pay, time
    <2>2. clock' - lastSync' <= MaxStall
      BY <2>1, AuditAssumption DEF TypeInv
    <2> QED
      BY <2>1, <2>2 DEF OpenInv, Identity
  <1>2. CASE Insert
    BY <1>2 DEF Insert, OpenInv, Free
  <1>3. CASE Sync \/ ResetAnchor
    BY <1>3 DEF Sync, ResetAnchor, OpenInv, Free
  <1>4. CASE Tick \/ StepBack
    BY <1>4, AuditAssumption DEF Tick, StepBack, OpenInv, Free, Identity, TypeInv
  <1>5. CASE UNCHANGED vars
    BY <1>5 DEF vars, time, OpenInv, Free, Identity
  <1> QED
    BY <1>1, <1>2, <1>3, <1>4, <1>5 DEF Next

\* What Insert appends.
LEMMA Inserted ==
    ASSUME TypeInv, OpenInv, Insert
    PROVE  LET row == [open EXCEPT !.at = clock]
               n == Len(log)
           IN  /\ n \in Nat /\ DOMAIN log = 1 .. n /\ DOMAIN log' = 1 .. n + 1
               /\ Len(log') = n + 1
               /\ \A i \in 1 .. n : log'[i] = log[i]
               /\ log'[n + 1] = row
               /\ \A i \in 1 .. n + 1 : synced'[i] = synced[i]
               /\ synced'[n + 2] = 0
               /\ (\A i \in 1 .. n : wrote'[i] = wrote[i]) /\ wrote'[n + 1] = ticks
               /\ row \in Row /\ row.at = clock /\ Identity(row)
               /\ row.before = Balance /\ row.after = pts /\ open.at = lastSync
  <1> DEFINE row == [open EXCEPT !.at = clock]
             n == Len(log)
  <1>1. open \in Row /\ ~Free /\ open.at = lastSync /\ Identity(open) /\ open.after = pts
    BY DEF Insert, Free, TypeInv, OpenInv
  <1>2. /\ row \in Row /\ row.at = clock /\ row.before = open.before /\ row.after = open.after
        /\ row.accrued = open.accrued /\ row.cost = open.cost
    BY <1>1 DEF TypeInv, Row
  <1>3. Identity(row) /\ row.before = Balance /\ row.after = pts
    BY <1>1, <1>2 DEF Identity, Balance
  <1>4. log' = Append(log, row) /\ synced' = Append(synced, 0)
    BY DEF Insert
  <1>5. log \in Seq(Row) /\ synced \in Seq(Nat) /\ 0 \in Nat /\ Len(synced) = n + 1
    BY DEF TypeInv
  <1> HIDE DEF row
  <1>6. /\ DOMAIN log' = 1 .. n + 1 /\ Len(log') = n + 1 /\ n \in Nat
        /\ \A i \in 1 .. n : log'[i] = log[i]
        /\ log'[n + 1] = row
    BY <1>2, <1>4, <1>5, Extended
  <1>7. /\ \A i \in 1 .. Len(synced) : synced'[i] = synced[i]
        /\ synced'[Len(synced) + 1] = 0
    BY <1>4, <1>5, Extended
  <1>8. synced'[n + 2] = 0 /\ \A i \in 1 .. n + 1 : synced'[i] = synced[i]
    <2>1. (n + 1) + 1 = n + 2
      BY <1>6
    <2> QED
      BY <1>5, <1>7, <2>1
  <1>9. DOMAIN log = 1 .. n
    BY <1>5
  <1>10. (\A i \in 1 .. n : wrote'[i] = wrote[i]) /\ wrote'[n + 1] = ticks
    <2>1. wrote \in Seq(Nat) /\ ticks \in Nat /\ Len(wrote) = n /\ wrote' = Append(wrote, ticks)
      BY DEF Insert, TypeInv
    <2> QED
      BY <2>1, Extended
  <1> QED
    BY <1>1, <1>2, <1>3, <1>6, <1>8, <1>9, <1>10 DEF row

LEMMA RowsStep == TypeInv /\ OpenInv /\ RowsInv /\ [Next]_vars => RowsInv'
  <1> SUFFICES ASSUME TypeInv, OpenInv, RowsInv, [Next]_vars PROVE RowsInv'
    OBVIOUS
  <1>1. CASE Insert
    <2> DEFINE row == [open EXCEPT !.at = clock]
               n == Len(log)
    <2>1. /\ n \in Nat /\ DOMAIN log = 1 .. n /\ DOMAIN log' = 1 .. n + 1
          /\ \A i \in 1 .. n : log'[i] = log[i]
          /\ log'[n + 1] = row /\ Identity(row)
      BY <1>1, Inserted
    <2> HIDE DEF row, n
    <2>2. ASSUME NEW i \in 1 .. n + 1 PROVE i \in 1 .. n \/ i = n + 1
      BY <2>1
    <2>3. \A i \in 1 .. n + 1 : Identity(log'[i])
      BY <2>1, <2>2 DEF RowsInv
    <2> QED
      BY <2>1, <2>3 DEF RowsInv, Identity
  <1>2. CASE ~Insert
    <2>1. log' = log
      BY <1>2 DEF Next, Pay, Sync, ResetAnchor, Tick, StepBack, vars
    <2> QED
      BY <2>1 DEF RowsInv, Identity
  <1> QED
    BY <1>1, <1>2

\* Until the next row, nothing moves a row but the end of the list.
LEMMA GapsStep == TypeInv /\ OpenInv /\ GapsInv /\ LastInv /\ [Next]_vars => GapsInv'
  <1> SUFFICES ASSUME TypeInv, OpenInv, GapsInv, LastInv, [Next]_vars PROVE GapsInv'
    OBVIOUS
  <1>0. \A i \in Steps(log) : i \in 1 .. Len(log)
    BY DEF TypeInv, Steps
  <1>1. ASSUME log' = log, wrote' = wrote, \A i \in 1 .. Len(log) : synced'[i] = synced[i]
        PROVE  GapsInv'
    BY <1>0, <1>1 DEF GapsInv, Steps, Gap
  <1>2. CASE Insert
    <2> DEFINE row == [open EXCEPT !.at = clock]
               n == Len(log)
    <2>1. /\ n \in Nat /\ DOMAIN log = 1 .. n /\ DOMAIN log' = 1 .. n + 1
          /\ \A i \in 1 .. n : log'[i] = log[i]
          /\ log'[n + 1] = row
          /\ \A i \in 1 .. n + 1 : synced'[i] = synced[i]
          /\ (\A i \in 1 .. n : wrote'[i] = wrote[i]) /\ wrote'[n + 1] = ticks
          /\ row.before = Balance
      BY <1>2, Inserted
    <2> HIDE DEF row
    <2>2. ASSUME NEW i \in 2 .. n + 1
          PROVE  /\ log'[i].before - log'[i - 1].after = synced'[i]
                 /\ synced'[i] <= Rate * (wrote'[i] - wrote'[i - 1] + MaxStall)
      <3> HIDE DEF n
      <3>1. i \in 2 .. n + 1 /\ i - 1 \in 1 .. n
        BY <2>1
      <3>2. /\ log'[i - 1] = log[i - 1] /\ synced'[i] = synced[i]
            /\ wrote'[i - 1] = wrote[i - 1]
        BY <2>1, <3>1
      <3>3. CASE i \in 1 .. n
        <4>1. i \in Steps(log) /\ log'[i] = log[i] /\ wrote'[i] = wrote[i]
          BY <2>1, <3>1, <3>3 DEF Steps
        <4> QED
          BY <3>2, <4>1 DEF GapsInv, Gap
      <3>4. CASE i = n + 1
        <4>1. log'[i] = row /\ wrote'[i] = ticks /\ i - 1 = n /\ n > 0
          BY <2>1, <3>1, <3>4
        <4>2. /\ Balance - log[n].after = synced[i]
              /\ synced[i] <= Rate * (ticks - Waiting - wrote[n] + MaxStall)
          BY <3>4, <4>1 DEF LastInv, Bankable, n
        <4> DEFINE early == ticks - Waiting - wrote[n] + MaxStall
                   late == ticks - wrote[n] + MaxStall
        <4>3. n \in DOMAIN log
          BY <2>1, <3>1, <4>1
        <4>4. wrote[n] \in Nat
          BY <4>3, WroteNat
        <4>5. early \in Int /\ late \in Int /\ early <= late /\ Rate \in Nat
          <5> DEFINE w == wrote[n]
                     wait == Waiting
          <5>1. ticks \in Nat /\ MaxStall \in Nat /\ Rate \in Nat
            BY AuditAssumption DEF TypeInv
          <5>2. w \in Nat /\ wait \in Nat
            BY <4>4, AccruedNat
          <5> HIDE DEF w, wait
          <5>3. /\ ticks - wait - w + MaxStall \in Int /\ ticks - w + MaxStall \in Int
                /\ ticks - wait - w + MaxStall <= ticks - w + MaxStall
            BY <5>1, <5>2
          <5> QED
            BY <5>1, <5>3 DEF w, wait
        <4> HIDE DEF early, late
        <4>6. Rate * early <= Rate * late /\ Rate * early \in Int /\ Rate * late \in Int
          BY <4>5, RateMono
        <4>7. synced[i] \in Nat
          <5>1. i \in 1 .. Len(log) + 1
            BY <2>1, <3>4 DEF n
          <5> QED
            BY <5>1, SyncedNat
        <4>8. synced[i] <= Rate * early
          BY <4>2 DEF early
        <4>9. synced[i] <= Rate * late
          BY <4>6, <4>7, <4>8
        <4> QED
          BY <2>1, <3>2, <4>1, <4>2, <4>9 DEF late
      <3> QED
        BY <2>1, <3>1, <3>3, <3>4
    <2>3. \A i \in DOMAIN log' \ {1} : i \in 2 .. n + 1
      BY <2>1
    <2> QED
      BY <2>2, <2>3 DEF GapsInv, Gap, Steps
  <1>3. CASE Sync
    <2>1. synced \in Seq(Nat) /\ Len(synced) = Len(log) + 1 /\ Len(log) \in Nat
      BY DEF TypeInv
    <2>2. \A i \in 1 .. Len(log) : synced'[i] = synced[i]
      BY <1>3, <2>1 DEF Sync
    <2> QED
      BY <1>1, <1>3, <2>2 DEF Sync
  <1>4. CASE ~Insert /\ ~Sync
    BY <1>1, <1>4 DEF Next, Pay, ResetAnchor, Tick, StepBack, vars
  <1> QED
    BY <1>2, <1>3, <1>4

LEMMA LastStep == TypeInv /\ OpenInv /\ LastInv /\ [Next]_vars => LastInv'
  <1> SUFFICES ASSUME TypeInv, OpenInv, LastInv, [Next]_vars PROVE LastInv'
    OBVIOUS
  <1>0. /\ Accrued \in Nat /\ Waiting \in Nat /\ Accrued = Rate * Waiting
        /\ TypeInv' /\ Rate \in Nat /\ MaxStall \in Nat
    BY AccruedNat, TypeNext, AuditAssumption
  <1>1. CASE Insert
    <2> DEFINE row == [open EXCEPT !.at = clock]
               n == Len(log)
    <2>1. /\ n \in Nat /\ Len(log') = n + 1 /\ log'[n + 1] = row /\ synced'[n + 2] = 0
          /\ wrote'[n + 1] = ticks /\ row.after = pts
      BY <1>1, Inserted
    <2> HIDE DEF row
    <2>2. Balance' = pts /\ Waiting' = Waiting /\ ticks' = ticks
          /\ pts \in Nat /\ ticks \in Nat
      BY <1>1 DEF Insert, Balance, Waiting, Free, TypeInv, time
    <2>3. Waiting <= MaxStall
      BY <1>0, <1>1 DEF Insert, OpenInv, Waiting, TypeInv
    <2> DEFINE left == ticks - Waiting - ticks + MaxStall
    <2>4. left \in Int /\ 0 \in Int /\ 0 <= left /\ Rate * 0 = 0
      <3> DEFINE wait == Waiting
      <3>1. wait \in Nat /\ wait <= MaxStall
        BY <1>0, <2>3
      <3> HIDE DEF wait
      <3>2. ticks - wait - ticks + MaxStall \in Int /\ 0 <= ticks - wait - ticks + MaxStall
        BY <1>0, <2>2, <3>1
      <3> QED
        BY <1>0, <3>2 DEF wait
    <2> HIDE DEF left
    <2>5. Rate * 0 <= Rate * left
      BY <1>0, <2>4, RateMono
    <2>6. 0 <= Rate * left
      BY <2>4, <2>5
    <2> HIDE DEF n
    <2>7. Len(log') + 1 = n + 2
      BY <2>1
    <2>8. Balance' - log'[Len(log')].after = synced'[Len(log') + 1]
      BY <2>1, <2>2, <2>7
    <2>9. synced'[Len(log') + 1] <= Rate * (ticks' - Waiting' - wrote'[Len(log')] + MaxStall)
      BY <2>1, <2>2, <2>6, <2>7 DEF left
    <2> QED
      BY <2>8, <2>9 DEF LastInv, Bankable
  <1>2. SUFFICES ASSUME ~Insert, Len(log) > 0
                 PROVE  LET n == Len(log)
                        IN  /\ Balance' - log[n].after = synced'[n + 1]
                            /\ synced'[n + 1] <= Rate * (ticks' - Waiting' - wrote[n] + MaxStall)
    <2>1. ~Insert => log' = log /\ wrote' = wrote
      BY DEF Next, Pay, Sync, ResetAnchor, Tick, StepBack, vars
    <2> QED
      BY <1>1, <1>2, <2>1 DEF LastInv, Bankable
  <1> DEFINE n == Len(log)
             w == wrote[n]
             after == log[n].after
             wait == Waiting
             late == Waiting'
             old == ticks - wait - w + MaxStall
             new == ticks' - late - w + MaxStall
             Goal == Balance' - after = synced'[n + 1] /\ synced'[n + 1] <= Rate * new
  <1>3. n \in DOMAIN log /\ n + 1 \in 1 .. Len(log) + 1
    BY <1>2 DEF TypeInv
  <1>4. w \in Nat /\ after \in Nat /\ synced[n + 1] \in Nat
    BY <1>3, WroteNat, LogRow, RowFields, SyncedNat
  <1>5. Balance - after = synced[n + 1] /\ synced[n + 1] <= Rate * old
    BY <1>2 DEF LastInv, Bankable
  <1>6. /\ ticks \in Nat /\ ticks' \in Nat /\ wait \in Nat /\ late \in Nat
        /\ pts \in Nat /\ lastSync \in Nat /\ clock \in Nat
    <2>1. Waiting' \in Nat
      <3>1. clock' \in Nat /\ lastSync' \in Nat
        BY <1>0 DEF TypeInv
      <3> QED
        <4>1. Waiting' = IF clock' > lastSync' THEN clock' - lastSync' ELSE 0
          BY DEF Waiting
        <4> QED
          BY <3>1, <4>1, Ahead
    <2> QED
      BY <1>0, <2>1 DEF TypeInv
  <1>7. old \in Int /\ new \in Int
    <2> HIDE DEF wait, late, w, n
    <2> QED
      BY <1>0, <1>4, <1>6
  \* Points still to bank may be forfeited, and time may pass: the bound only grows.
  <1>8. ASSUME Balance' = Balance, synced' = synced, ticks - wait <= ticks' - late PROVE Goal
    <2>1. old <= new
      <3> HIDE DEF wait, late, w, n
      <3>1. /\ w \in Nat /\ MaxStall \in Nat /\ ticks \in Nat /\ ticks' \in Nat
            /\ wait \in Nat /\ late \in Nat
        BY <1>0, <1>4, <1>6
      <3> DEFINE x == ticks - wait
                 y == ticks' - late
      <3>2. x \in Int /\ y \in Int
        BY <3>1
      <3>4. x <= y
        BY <1>8
      <3>3. old = x - w + MaxStall /\ new = y - w + MaxStall
        OBVIOUS
      <3> HIDE DEF x, y, old, new
      <3> QED
        BY <3>1, <3>2, <3>3, <3>4
    <2> HIDE DEF old, new, w, n, after
    <2>2. Rate * old \in Int /\ Rate * new \in Int /\ Rate * old <= Rate * new
      BY <1>0, <1>7, <2>1, RateMono
    <2>3. synced[n + 1] <= Rate * new
      BY <1>4, <1>5, <2>2
    <2> QED
      BY <1>5, <1>8, <2>3
  <1>9. ASSUME NEW cost \in Costs, Pay(cost) PROVE Goal
    <2>1. open' = [at |-> clock, cost |-> cost, accrued |-> Accrued,
                   before |-> pts, after |-> pts + Accrued - cost]
          /\ lastSync' = clock /\ clock' = clock /\ ticks' = ticks /\ synced' = synced /\ Free
      BY <1>9 DEF Pay, time
    <2>2. ~Free'
      <3>1. open'.at = clock /\ NoRow.at = -1
        BY <2>1 DEF NoRow, None
      <3> QED
        BY <1>6, <3>1 DEF Free, NoRow, None
    <2>3. Balance' = Balance
      BY <2>1, <2>2 DEF Balance
    <2>4. ticks - wait <= ticks' - late
      <3>1. late = 0
        BY <1>6, <2>1 DEF Waiting
      <3> QED
        BY <1>6, <2>1, <3>1
    <2> HIDE DEF Goal
    <2> QED
      BY <1>8, <2>1, <2>3, <2>4
  <1>10. ASSUME Sync PROVE Goal
    <2>1. synced \in Seq(Nat) /\ Len(synced) = n + 1 /\ n + 1 \in 1 .. n + 1
      BY <1>2 DEF TypeInv
    <2>2. synced' = [synced EXCEPT ![n + 1] = @ + Accrued]
      BY <1>10, <2>1 DEF Sync
    <2>3. synced'[n + 1] = synced[n + 1] + Accrued
      BY <2>1, <2>2
    <2>4. Balance = pts /\ Balance' = pts + Accrued
      BY <1>10 DEF Sync, Balance, Free
    <2>5. ticks' = ticks /\ late = 0
      BY <1>6, <1>10 DEF Sync, Waiting, time
    <2>6. new = old + wait
      <3> HIDE DEF wait, late, w, n
      <3> QED
        BY <1>0, <1>4, <1>6, <2>5
    <2>7. Accrued = Rate * wait
      BY <1>0
    <2> HIDE DEF old, new, w, n, after, wait, late
    <2>8. Rate * new = Rate * old + Rate * wait /\ Rate * old \in Int
      BY <1>0, <1>6, <1>7, <2>6
    <2>9. synced'[n + 1] <= Rate * new
      BY <1>0, <1>4, <1>5, <2>3, <2>7, <2>8
    <2>10. Balance' - after = synced'[n + 1]
      BY <1>0, <1>4, <1>5, <1>6, <2>3, <2>4
    <2> QED
      BY <2>9, <2>10
  <1>11. ASSUME ResetAnchor \/ Tick \/ StepBack \/ UNCHANGED vars PROVE Goal
    <2>1. synced' = synced /\ Balance' = Balance
      BY <1>11 DEF ResetAnchor, Tick, StepBack, vars, Balance, Free
    <2>2. ticks - wait <= ticks' - late
      BY <1>6, <1>11 DEF ResetAnchor, Tick, StepBack, vars, time, Waiting
    <2> HIDE DEF Goal
    <2> QED
      BY <1>8, <2>1, <2>2
  <1> QED
    BY <1>2, <1>9, <1>10, <1>11 DEF Next

LEMMA BooksStay == Spec => [](TypeInv /\ BookInv)
  <1>1. TypeInv /\ BookInv /\ [Next]_vars => TypeInv' /\ BookInv'
    BY TypeNext, OpenStep, RowsStep, GapsStep, LastStep DEF BookInv
  <1> QED
    BY <1>1, TypeInit, BookInit, PTL DEF Spec

----------------------------------------------------------------------------
(* The report. *)

\* An order of 1 .. n that never steps back is the order of the numbers.
LEMMA StrictOrder ==
    ASSUME NEW n \in Nat, NEW p \in Bijection(1 .. n, 1 .. n),
           \A i, j \in 1 .. n : i < j => p[i] < p[j]
    PROVE  \A k \in 1 .. n : p[k] = k
  <1>1. /\ p \in [1 .. n -> 1 .. n]
        /\ \A i, j \in 1 .. n : p[i] = p[j] => i = j
        /\ \A k \in 1 .. n : \E m \in 1 .. n : p[m] = k
    BY DEF Bijection, Injection, Surjection, IsInjective
  <1> DEFINE Moved == {k \in 1 .. n : p[k] # k}
  <1>2. ASSUME Moved # {} PROVE FALSE
    <2>1. Moved \in SUBSET Nat
      OBVIOUS
    <2> HIDE DEF Moved
    <2>2. PICK k \in Moved : \A i \in Moved : k <= i
      BY <1>2, <2>1, Least
    <2> USE DEF Moved
    <2>3. k \in 1 .. n /\ p[k] \in 1 .. n /\ p[k] # k
      BY <1>1
    <2>4. \A i \in 1 .. n : i < k => p[i] = i
      BY <2>2, <2>3
    <2>5. ~(p[k] < k)
      <3>1. p[k] < k => p[p[k]] = p[k]
        BY <2>3, <2>4
      <3> QED
        BY <1>1, <2>3, <3>1
    <2>6. PICK m \in 1 .. n : p[m] = k
      BY <1>1, <2>3
    <2>7. m # k /\ ~(m < k)
      BY <2>3, <2>4, <2>6
    <2>8. k < m /\ p[k] < p[m]
      BY <2>3, <2>7
    <2> QED
      BY <2>3, <2>5, <2>6, <2>8
  <1> QED
    BY <1>2

\* What the audit reads, in whichever order the rows came.
LEMMA OrderRows ==
    ASSUME TypeInv, RowsInv, NEW e \in Orders
    PROVE  /\ DOMAIN e = DOMAIN log
           /\ \A i \in DOMAIN e : e[i] \in Row /\ Identity(e[i])
           /\ \A i, j \in DOMAIN e : i < j => e[i].at <= e[j].at
           /\ \E p \in Bijection(DOMAIN log, DOMAIN log) : e = [k \in DOMAIN log |-> log[p[k]]]
  <1> PICK p \in Bijection(DOMAIN log, DOMAIN log) : e = [k \in DOMAIN log |-> log[p[k]]]
    BY DEF Orders
  <1>1. p \in [DOMAIN log -> DOMAIN log] /\ Sorted(e)
    BY DEF Orders, Bijection, Injection
  <1>2. ASSUME NEW i \in DOMAIN e PROVE e[i] \in Row /\ Identity(e[i])
    <2>1. p[i] \in DOMAIN log /\ e[i] = log[p[i]]
      BY <1>1
    <2> QED
      BY <2>1, LogRow DEF RowsInv
  <1>3. ASSUME NEW i \in DOMAIN e, NEW j \in DOMAIN e, i < j PROVE e[i].at <= e[j].at
    <2>1. ~Precedes(e[j], e[i])
      BY <1>1, <1>3 DEF Sorted
    <2>2. e[i].at \in Nat /\ e[j].at \in Nat
      BY <1>2, RowFields
    <2> QED
      BY <2>1, <2>2 DEF Precedes
  <1> QED
    BY <1>2, <1>3

\* Rows whose seconds rise have one order: the one they were written in.
LEMMA SpacedOrder ==
    ASSUME TypeInv, RowsInv, WellTimed, NEW e \in Orders
    PROVE  e = log
  <1> DEFINE n == Len(log)
  <1>1. n \in Nat /\ DOMAIN log = 1 .. n
    BY DEF TypeInv
  <1>2. \A i, j \in 1 .. n : i < j => e[i].at <= e[j].at
    BY <1>1, OrderRows
  <1>3. PICK p \in Bijection(1 .. n, 1 .. n) : e = [k \in 1 .. n |-> log[p[k]]]
    BY <1>1, OrderRows
  <1>4. /\ \A i \in 1 .. n : log[i].at \in Nat
        /\ \A i, j \in 1 .. n : i < j => log[i].at < log[j].at
    BY <1>1, LogRow, RowFields DEF WellTimed
  <1> HIDE DEF n
  <1>5. /\ \A i \in 1 .. n : p[i] \in 1 .. n
        /\ \A i, j \in 1 .. n : p[i] = p[j] => i = j
    BY DEF Bijection, Injection, IsInjective
  <1>6. ASSUME NEW i \in 1 .. n, NEW j \in 1 .. n, i < j PROVE p[i] < p[j]
    <2>1. p[i] \in 1 .. n /\ p[j] \in 1 .. n /\ p[i] # p[j]
      BY <1>1, <1>5, <1>6
    <2>2. log[p[i]].at <= log[p[j]].at
      <3>1. e[i] = log[p[i]] /\ e[j] = log[p[j]]
        BY <1>3
      <3> QED
        BY <1>2, <1>6, <3>1
    <2>3. p[j] < p[i] => log[p[j]].at < log[p[i]].at
      BY <1>4, <2>1
    <2>4. log[p[i]].at \in Nat /\ log[p[j]].at \in Nat
      BY <1>4, <2>1
    <2>5. ~(p[j] < p[i])
      BY <2>2, <2>3, <2>4
    <2> QED
      BY <1>1, <2>1, <2>5
  <1>7. \A k \in 1 .. n : p[k] = k
    BY <1>1, <1>6, StrictOrder
  <1>8. e = [k \in 1 .. n |-> log[k]]
    BY <1>3, <1>7
  <1>9. log = [k \in 1 .. n |-> log[k]]
    <2>1. log \in Seq(Row) /\ n = Len(log)
      BY DEF TypeInv, n
    <2>2. log \in [1 .. n -> Row]
      BY <2>1
    <2> QED
      BY <2>2
  <1> QED
    BY <1>8, <1>9

\* What a row may follow its neighbour by, in the order of the log.
LEMMA GapFits ==
    ASSUME TypeInv, GapsInv, WellTimed, NEW i \in Steps(log)
    PROVE  /\ Fits(log[i - 1], log[i]) /\ ~SameSecond(log[i - 1], log[i])
           /\ Gap(log[i - 1], log[i]) = synced[i]
  <1>1. i \in DOMAIN log /\ i - 1 \in DOMAIN log /\ i - 1 < i /\ i \in 1 .. Len(log) + 1
    BY DEF TypeInv, Steps
  <1> DEFINE a == log[i - 1].at
             b == log[i].at
             s == synced[i]
             v == wrote[i - 1]
             w == wrote[i]
  <1>2. a \in Nat /\ b \in Nat /\ s \in Nat /\ v \in Nat /\ w \in Nat
    BY <1>1, LogRow, RowFields, SyncedNat, WroteNat
  <1>3. /\ Gap(log[i - 1], log[i]) = s /\ s <= Rate * (w - v + MaxStall)
        /\ a < b /\ (w - v) - (b - a) + MaxStall <= Margin
    BY <1>1 DEF GapsInv, WellTimed, SetBack
  <1>4. Ceiling(log[i - 1], log[i]) = (b - a + Margin) * Rate
    BY DEF Ceiling
  <1>5. ~SameSecond(log[i - 1], log[i])
    <2>1. a # b
      <3> HIDE DEF a, b, s, v, w
      <3> QED
        BY <1>2, <1>3
    <2> QED
      BY <2>1 DEF SameSecond
  <1> HIDE DEF a, b, s, v, w
  <1> DEFINE x == w - v + MaxStall
             y == b - a + Margin
  <1>6. x \in Int /\ y \in Int /\ x <= y /\ Rate \in Nat /\ s <= Rate * x
    BY <1>2, <1>3, AuditAssumption
  <1>7. Ceiling(log[i - 1], log[i]) = y * Rate
    BY <1>4
  <1> HIDE DEF x, y
  <1>8. Rate * x \in Int /\ Rate * y \in Int /\ Rate * x <= Rate * y /\ Rate * y = y * Rate
    BY <1>6, RateMono
  <1>9. 0 <= s /\ s <= y * Rate
    BY <1>2, <1>6, <1>8
  <1> QED
    BY <1>3, <1>5, <1>7, <1>9 DEF Fits, InBounds, s

\* Between two rows in time, the ceiling is not negative.
LEMMA CeilingNat ==
    ASSUME NEW a \in Row, NEW b \in Row, a.at <= b.at
    PROVE  Ceiling(a, b) \in Nat /\ Gap(a, b) \in Int
  <1>1. a.at \in Nat /\ b.at \in Nat /\ a.after \in Nat /\ b.before \in Nat
    BY RowFields
  <1> DEFINE x == b.at - a.at + Margin
  <1>2. x \in Nat /\ Rate \in Nat
    BY <1>1, AuditAssumption
  <1>3. Ceiling(a, b) = x * Rate /\ Gap(a, b) \in Int
    BY <1>1 DEF Ceiling, Gap
  <1> HIDE DEF x
  <1>4. Rate * 0 <= Rate * x /\ Rate * x \in Int
    BY <1>2, RateMono
  <1>5. x * Rate = Rate * x /\ Rate * 0 = 0
    BY <1>2
  <1> QED
    BY <1>3, <1>4, <1>5

\* The audit clears every log whose seconds rise as its rows were written and
\* tell the time between them up to the margin: whatever syncs and logins came in
\* between, wherever a second ended between the UPDATE that pays and the INSERT
\* that logs, and though the wall clock was set back by as much as the margin
\* spares.
THEOREM SpacedLogsReconcile == Spec => []SpacedLogReconciles
  <1>1. TypeInv /\ BookInv => SpacedLogReconciles
    <2> SUFFICES ASSUME TypeInv, BookInv, WellTimed, NEW e \in Orders
                 PROVE  Reconciled(e)
      BY DEF SpacedLogReconciles
    <2>1. e = log /\ RowsInv /\ GapsInv
      BY SpacedOrder DEF BookInv
    <2>2. \A i \in DOMAIN log : Identity(log[i])
      BY <2>1 DEF RowsInv
    <2>3. \A i \in Steps(log) : Explained(log[i - 1], log[i])
      BY <2>1, GapFits DEF Explained
    <2> QED
      BY <2>1, <2>2, <2>3 DEF Reconciled
  <1> QED
    BY <1>1, BooksStay, PTL

\* What the audit reports as unlogged accrual of such a log is what syncs banked
\* between its rows, to the point.
THEOREM UnloggedIsBanked == Spec => []UnloggedIsSynced
  <1>1. TypeInv /\ BookInv => UnloggedIsSynced
    <2> SUFFICES ASSUME TypeInv, BookInv, WellTimed, NEW e \in Orders
                 PROVE  UnloggedAccrual(e) = SumFunction([i \in Steps(log) |-> synced[i]])
      BY DEF UnloggedIsSynced
    <2>1. e = log /\ GapsInv
      BY SpacedOrder DEF BookInv
    <2>2. \A i \in Steps(log) : /\ ~SameSecond(log[i - 1], log[i])
                                /\ Fits(log[i - 1], log[i])
                                /\ Gap(log[i - 1], log[i]) = synced[i]
      BY <2>1, GapFits
    <2>3. [i \in Steps(log) |-> IF ~SameSecond(log[i - 1], log[i]) /\ Fits(log[i - 1], log[i])
                                THEN Gap(log[i - 1], log[i]) ELSE 0]
            = [i \in Steps(log) |-> synced[i]]
      BY <2>2
    <2> QED
      BY <2>1, <2>3 DEF UnloggedAccrual
  <1> QED
    BY <1>1, BooksStay, PTL

\* The report's own consistency: in whichever order the rows of one second came,
\* whatever the margin, and however far the clock was set back, the unlogged accrual stays below its ceiling.
THEOREM UnloggedStaysPlausible == Spec => []UnloggedPlausible
  <1>1. TypeInv /\ BookInv => UnloggedPlausible
    <2> SUFFICES ASSUME TypeInv, BookInv, NEW e \in Orders
                 PROVE  UnloggedAccrual(e) <= MaxPlausibleAccrual(e)
      BY DEF UnloggedPlausible
    <2> DEFINE S == Steps(e)
               gap == [i \in S |-> IF ~SameSecond(e[i - 1], e[i]) /\ Fits(e[i - 1], e[i])
                                   THEN Gap(e[i - 1], e[i]) ELSE 0]
               top == [i \in S |-> IF SameSecond(e[i - 1], e[i]) THEN 0
                                   ELSE Ceiling(e[i - 1], e[i])]
    <2>1. DOMAIN e = DOMAIN log /\ (\A i \in DOMAIN e : e[i] \in Row)
          /\ \A i, j \in DOMAIN e : i < j => e[i].at <= e[j].at
      BY OrderRows DEF BookInv
    <2>2. DOMAIN e = 1 .. Len(log) /\ Len(log) \in Nat
      BY <2>1 DEF TypeInv
    <2>3. IsFiniteSet(S)
      <3>1. IsFiniteSet(1 .. Len(log)) /\ S \in SUBSET (1 .. Len(log))
        BY <2>2, FS_Interval DEF Steps
      <3> QED
        BY <3>1, FS_Subset
    <2>4. ASSUME NEW i \in S
          PROVE  gap[i] \in Int /\ top[i] \in Int /\ gap[i] <= top[i]
      <3> DEFINE a == e[i - 1]
                 b == e[i]
      <3>1. i \in DOMAIN e /\ i - 1 \in DOMAIN e /\ i - 1 < i
        BY <2>2 DEF Steps
      <3>2. a \in Row /\ b \in Row /\ a.at <= b.at
        BY <2>1, <3>1
      <3>3. /\ gap[i] = IF ~SameSecond(a, b) /\ Fits(a, b) THEN Gap(a, b) ELSE 0
            /\ top[i] = IF SameSecond(a, b) THEN 0 ELSE Ceiling(a, b)
        OBVIOUS
      <3> HIDE DEF a, b, gap, top
      <3>4. Ceiling(a, b) \in Nat /\ Gap(a, b) \in Int
        BY <3>2, CeilingNat
      <3>5. Fits(a, b) => Gap(a, b) <= Ceiling(a, b)
        BY DEF Fits, InBounds
      <3> QED
        BY <3>3, <3>4, <3>5
    <2>5. gap \in [S -> Int] /\ top \in [S -> Int] /\ \A i \in S : gap[i] <= top[i]
      BY <2>4
    <2>6. UnloggedAccrual(e) = SumFunction(gap) /\ MaxPlausibleAccrual(e) = SumFunction(top)
      BY DEF UnloggedAccrual, MaxPlausibleAccrual
    <2> HIDE DEF gap, top, S
    <2>7. SumFunction(gap) <= SumFunction(top)
      BY <2>3, <2>5, SumBelow
    <2> QED
      BY <2>6, <2>7
  <1> QED
    BY <1>1, BooksStay, PTL
=============================================================================
