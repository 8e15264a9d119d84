------------------------------- MODULE Audit -------------------------------
(***************************************************************************)
(* The economy audit (internal/diag/economy.go) and the logs it reads.     *)
(* Pulls and vows write a row with the balance before and after and what   *)
(* accrued (gacha.go, vow.go); syncs and logins change the balance or      *)
(* last_sync_at and write none.  The audit sorts the rows of both logs,    *)
(* whose timestamps are whole seconds, and looks for balances that accrual *)
(* cannot explain.  It only reads, so it is an operator on the log; the    *)
(* question is what it says of logs that nobody tampered with.             *)
(*                                                                         *)
(* SQLite reads the clock once per statement: the UPDATE that pays and the *)
(* INSERT that logs are two statements of one transaction.  Two clocks, as *)
(* in Economy: `ticks` is time that really passed, `clock` the wall clock  *)
(* that dates the rows and may be set back.                                *)
(***************************************************************************)
EXTENDS Integers, Sequences, Functions

CONSTANTS Rate,         \* enlightenment_rate
          Costs,        \* what pulls and vows cost, 0 for a debug vow
          Margin,       \* accrualMarginSecs
          MaxStall,     \* seconds that may pass between a row's two statements
          MaxTicks,     \* bound: seconds a behaviour lasts
          MaxSkew,      \* bound: seconds the wall clock is set back in all
          MaxEvents     \* bound: rows in the logs

ASSUME AuditAssumption ==
    /\ Rate \in Nat
    /\ Costs \subseteq Nat
    /\ Margin \in Nat
    /\ MaxStall \in Nat
    /\ MaxTicks \in Nat /\ MaxSkew \in Nat /\ MaxEvents \in Nat

VARIABLES ticks, clock,
          pts, lastSync,
          open,         \* row of the transaction between its two statements,
                        \* at the second of the first, or NoRow
          log,          \* gacha_logs and vow_logs, as they were written
          \* History, read by no action.
          synced,       \* points that syncs banked before each row
          wrote         \* ticks at which each row was written

None == -1
NoRow == [at |-> None, cost |-> 0, accrued |-> 0, before |-> 0, after |-> 0]

time == <<ticks, clock>>
vars == <<time, pts, lastSync, open, log, synced, wrote>>

Accrued == Rate * (IF clock > lastSync THEN clock - lastSync ELSE 0)

Free == open = NoRow

\* execPull and execPray: SELECT the balance, then the UPDATE that accrues and pays.
Pay(cost) ==
    /\ Free /\ Len(log) < MaxEvents
    /\ pts + Accrued >= cost
    /\ pts' = pts + Accrued - cost
    /\ lastSync' = clock
    /\ open' = [at |-> clock, cost |-> cost, accrued |-> Accrued,
                before |-> pts, after |-> pts + Accrued - cost]
    /\ UNCHANGED <<time, log, synced, wrote>>

\* INSERT INTO gacha_logs or vow_logs: pulled_at and prayed_at default to now.
Insert ==
    /\ ~Free
    /\ log' = Append(log, [open EXCEPT !.at = clock])
    /\ synced' = Append(synced, 0)
    /\ wrote' = Append(wrote, ticks)
    /\ open' = NoRow
    /\ UNCHANGED <<time, pts, lastSync>>

\* Player sync banks what accrued; no row tells.
Sync ==
    /\ Free
    /\ pts' = pts + Accrued
    /\ synced' = [synced EXCEPT ![Len(synced)] = @ + Accrued]
    /\ lastSync' = clock
    /\ UNCHANGED <<time, open, log, wrote>>

\* A login forfeits it.
ResetAnchor ==
    /\ Free
    /\ lastSync' = clock
    /\ UNCHANGED <<time, pts, open, log, synced, wrote>>

Tick ==
    /\ ticks < MaxTicks
    /\ Free \/ clock - lastSync < MaxStall
    /\ ticks' = ticks + 1
    /\ clock' = clock + 1
    /\ UNCHANGED <<pts, lastSync, open, log, synced, wrote>>

\* The wall clock is corrected backwards, in a transaction or out of it.
StepBack ==
    /\ clock > 0
    /\ ticks - clock < MaxSkew
    /\ clock' = clock - 1
    /\ UNCHANGED <<ticks, pts, lastSync, open, log, synced, wrote>>

Init ==
    /\ ticks = 0 /\ clock = 0
    /\ lastSync = 0 /\ pts = 0
    /\ open = NoRow
    /\ log = <<>> /\ wrote = <<>>
    /\ synced = <<0>>

Next ==
    \/ \E cost \in Costs : Pay(cost)
    \/ Insert \/ Sync \/ ResetAnchor
    \/ Tick \/ StepBack

Spec == Init /\ [][Next]_vars

----------------------------------------------------------------------------
(* The report. *)

\* Variant: by balance alone.
PrecedesByBalance(a, b) == a.before > b.before

\* By second, then by descending balance.
Precedes(a, b) ==
    \/ a.at < b.at
    \/ a.at = b.at /\ a.before > b.before
    \/ a.at = b.at /\ a.before = b.before /\ a.after > b.after

Sorted(events) ==
    \A i, j \in DOMAIN events : i < j => ~Precedes(events[j], events[i])

\* The rows of both logs, sorted.  Ids decide between rows that are equal in all
\* that the comparison sees, so either of them may come first.
Orders ==
    {events \in {[k \in DOMAIN log |-> log[p[k]]] : p \in Bijection(DOMAIN log, DOMAIN log)} :
        Sorted(events)}

\* Variant: the ceiling without the margin for rounded seconds.
BareCeiling(prev, cur) == (cur.at - prev.at) * Rate
Ceiling(prev, cur) == (cur.at - prev.at + Margin) * Rate

Gap(prev, cur) == cur.before - prev.after

InBounds(gap, ceiling) == 0 <= gap /\ gap <= ceiling

SameSecond(prev, cur) == prev.at = cur.at

Fits(prev, cur) == InBounds(Gap(prev, cur), Ceiling(prev, cur))

\* Within a second either order may explain a pair.
Explained(prev, cur) ==
    \/ Fits(prev, cur)
    \/ SameSecond(prev, cur) /\ InBounds(Gap(cur, prev), Ceiling(prev, cur))

\* row_identity
Identity(e) == e.after = e.before + e.accrued - e.cost

\* The pairs of neighbours, by the index of the second.
Steps(events) == DOMAIN events \ {1}

Reconciled(e) ==
    /\ \A i \in DOMAIN e : Identity(e[i])
    /\ \A i \in Steps(e) : Explained(e[i - 1], e[i])

UnloggedAccrual(e) ==
    SumFunction([i \in Steps(e) |->
        IF ~SameSecond(e[i - 1], e[i]) /\ Fits(e[i - 1], e[i])
        THEN Gap(e[i - 1], e[i]) ELSE 0])

\* Variant: the ceiling of the gaps as elapsed time only.
MaxPlausibleBare(e) ==
    SumFunction([i \in Steps(e) |-> BareCeiling(e[i - 1], e[i])])

MaxPlausibleAccrual(e) ==
    SumFunction([i \in Steps(e) |->
        IF SameSecond(e[i - 1], e[i]) THEN 0 ELSE Ceiling(e[i - 1], e[i])])

----------------------------------------------------------------------------
\* What the report promises of a log nobody tampered with: only a pair that no
\* order can explain is flagged (economy.go 98-103, 184-186), so no pair of it.
HonestLogReconciles == \A e \in Orders : Reconciled(e)

\* Seconds by which the wall clock was set back between a row and the one before.
SetBack(i) == (wrote[i] - wrote[i - 1]) - (log[i].at - log[i - 1].at)

\* The log tells the order and the time of its rows: their seconds rise as they
\* were written, and what the clock was set back between two of them is within
\* what the margin leaves over from a transaction's stall.
WellTimed ==
    /\ \A i, j \in DOMAIN log : i < j => log[i].at < log[j].at
    /\ \A i \in Steps(log) : SetBack(i) + MaxStall <= Margin

\* Such a log is cleared, however syncs and logins come between its rows and
\* whichever second each of a transaction's two statements falls in (the margin
\* of economy.go 29-32).
SpacedLogReconciles == WellTimed => \A e \in Orders : Reconciled(e)

\* Then unlogged_accrual is exactly what the syncs between the first and the
\* last row banked (economy.go 70, 240-243).
UnloggedIsSynced ==
    WellTimed =>
        \A e \in Orders :
            UnloggedAccrual(e) = SumFunction([i \in Steps(log) |-> synced[i]])

\* unlogged_accrual cannot exceed its ceiling, whatever order the rows of one
\* second were given (economy.go 72, 239-240).
UnloggedPlausible == \A e \in Orders : UnloggedAccrual(e) <= MaxPlausibleAccrual(e)
=============================================================================
