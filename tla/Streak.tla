------------------------------- MODULE Streak -------------------------------
(***************************************************************************)
(* The daily login streak (updateLoginStreak, internal/auth/handler.go):   *)
(* one CASE UPDATE over streak_days and last_login_date, with the          *)
(* database's UTC date, run by every login before its session is           *)
(* established.  The wall clock passes midnight between any two logins and *)
(* may be set back over it.                                                *)
(***************************************************************************)
EXTENDS Integers, FiniteSets

CONSTANTS MaxDays       \* bound on the date

ASSUME StreakAssumption == MaxDays \in Nat

NoDate == -1

VARIABLES today,        \* date('now')
          lastLogin,    \* last_login_date, NoDate for NULL
          streak,       \* streak_days
          setBack,      \* whether the date ever went back
          loginDays     \* history: dates on which a login ran

streakVars == <<today, lastLogin, streak, setBack, loginDays>>

StreakInit ==
    /\ today = 0 /\ lastLogin = NoDate /\ streak = 0
    /\ setBack = FALSE /\ loginDays = {}

\* Variant: a gap is not noticed.
StreakWithoutReset ==
    IF lastLogin = today THEN streak ELSE streak + 1

\* The CASE of the UPDATE.
StreakDays ==
    IF lastLogin = NoDate THEN 1
    ELSE IF lastLogin = today THEN streak
    ELSE IF lastLogin = today - 1 THEN streak + 1
    ELSE 1

LoginToday ==
    /\ streak' = StreakDays
    /\ lastLogin' = today
    /\ loginDays' = loginDays \cup {today}
    /\ UNCHANGED <<today, setBack>>

Midnight ==
    /\ today < MaxDays
    /\ today' = today + 1
    /\ UNCHANGED <<lastLogin, streak, setBack, loginDays>>

SetDateBack ==
    /\ today > 0
    /\ today' = today - 1
    /\ setBack' = TRUE
    /\ UNCHANGED <<lastLogin, streak, loginDays>>

StreakNext == LoginToday \/ Midnight \/ SetDateBack

----------------------------------------------------------------------------
\* Length of the run of login days that ends on the given one.
RunUntil(day) == Cardinality({d \in loginDays : d <= day /\ d .. day \subseteq loginDays})

\* The streak is the number of consecutive days with a login up to the last one,
\* however many logins a day has, and a date set back never credits a day without
\* a login: it only shortens the streak (handler.go 223-230).
StreakEarned ==
    /\ streak <= RunUntil(lastLogin)
    /\ ~setBack => streak = RunUntil(lastLogin)
=============================================================================
