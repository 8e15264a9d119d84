-------------------------- MODULE RateLimitProofs --------------------------
(***************************************************************************)
(* The rate limiter admits at most two limits of requests in any stretch   *)
(* of a window, beyond what counters dropped or lost in it had admitted,   *)
(* and leaves no counter without a ttl unattended, for every limit,        *)
(* window, number of requests, store and pattern of failures.              *)
(***************************************************************************)
EXTENDS RateLimit, TLAPS

\* What the limiter sees of its key.
counter == map[Counter]
There == Store!Held(Counter)

----------------------------------------------------------------------------
(* What a step does to the counter and to the history of admissions.       *)

\* Nothing; or a first request, with the window as ttl or with none; or one
\* more; or a ttl; or its end, with its requests forgiven; or a second passes.
Still == map' = map /\ UNCHANGED passed
Fresh == /\ ~There /\ (Admit \/ UNCHANGED recent) /\ UNCHANGED forgiven
         /\ \E left \in {Window, Store!Never} :
               map' = [map EXCEPT ![Counter] = [val |-> 1, left |-> left]]
More == /\ There /\ map' = [map EXCEPT ![Counter].val = counter.val + 1]
        /\ (counter.val + 1 <= Limit /\ Admit) \/ UNCHANGED recent
        /\ UNCHANGED forgiven
Armed == There /\ map' = [map EXCEPT ![Counter].left = Window] /\ UNCHANGED passed
Cleared == /\ map' = [k \in {Counter} |-> Store!Absent]
           /\ UNCHANGED recent /\ Forgive
Aged == /\ map' = [k \in {Counter} |-> Store!Older(map[k])]
        /\ recent' = Shifted(recent) /\ forgiven' = Shifted(forgiven)

CounterStep == Still \/ Fresh \/ More \/ Armed \/ Cleared \/ Aged

LEMMA Sizes == Window \in Nat /\ Window > 0 /\ Limit \in Nat /\ Limit > 0 /\ Window \in Ages
               /\ 0 \in Ages
  BY RateLimitAssumption DEF Ages

\* An entry held counts from one.
LEMMA CounterType ==
    ASSUME TypeOK, There
    PROVE  counter \in Counters /\ counter.val \in Nat /\ counter.val >= 1
           /\ counter.val # Store!NotNumber
  <1>1. counter \in Counters
    BY DEF TypeOK, There, counter, Store!Held
  <1> QED
    BY <1>1 DEF Counters, Store!NotNumber

LEMMA SetNXDoes ==
    ASSUME TypeOK, Store!SetNX(Counter, 1, Window)
    PROVE  \/ There /\ answer' = 0 /\ map' = map
           \/ /\ ~There /\ answer' = 1
              /\ map' = [map EXCEPT ![Counter] = [val |-> 1, left |-> Window]]
              /\ map'[Counter].left = Window
  <1>1. CASE There
    BY <1>1 DEF There, Store!SetNX, Store!Return, Store!No
  <1>2. CASE ~There
    <2>1. answer' = 1 /\ map' = [map EXCEPT ![Counter] = [val |-> 1, left |-> Window]]
      BY <1>2, Sizes DEF There, Store!SetNX, Store!Return, Store!Yes, Store!Put, Store!Entry
    <2>2. map'[Counter].left = Window
      BY <2>1 DEF TypeOK
    <2> QED
      BY <1>2, <2>1, <2>2
  <1> QED
    BY <1>1, <1>2

LEMMA IncrByDoes ==
    ASSUME TypeOK, Store!IncrBy(Counter, 1)
    PROVE  \/ /\ There /\ answer' = counter.val + 1 /\ answer' # 1
              /\ map' = [map EXCEPT ![Counter].val = counter.val + 1]
           \/ /\ ~There /\ answer' = 1
              /\ map' = [map EXCEPT ![Counter] = [val |-> 1, left |-> Store!Never]]
              /\ map'[Counter].left = Store!Never
  <1>1. CASE There
    <2>1. answer' = counter.val + 1 /\ map' = [map EXCEPT ![Counter].val = counter.val + 1]
      BY <1>1, CounterType DEF There, counter, Store!IncrBy, Store!Return
    <2> QED
      BY <1>1, <2>1, CounterType
  <1>2. CASE ~There
    <2>1. answer' = 1
          /\ map' = [map EXCEPT ![Counter] = [val |-> 1, left |-> Store!Never]]
      BY <1>2 DEF There, Store!IncrBy, Store!Return, Store!Put, Store!Entry
    <2>2. map'[Counter].left = Store!Never
      BY <2>1 DEF TypeOK
    <2> QED
      BY <1>2, <2>1, <2>2
  <1> QED
    BY <1>1, <1>2

LEMMA FirstHitDoes ==
    ASSUME TypeOK, NEW p \in Procs, FirstHit(p)
    PROVE  (Fresh /\ map'[Counter].left = Window) \/ Still
  BY SetNXDoes DEF FirstHit, Fresh, Still, passed, Store!Yes

LEMMA IncrementDoes ==
    ASSUME TypeOK, NEW p \in Procs, Increment(p)
    PROVE  \/ /\ Fresh /\ map'[Counter].left = Store!Never
              /\ Goto(p, "arm")
           \/ More /\ Done(p)
  BY IncrByDoes DEF Increment, Fresh, More, Within

LEMMA RearmDoes == ASSUME TypeOK, NEW p \in Procs, Rearm(p) PROVE Armed \/ (Still /\ ~There)
  BY DEF Rearm, Armed, Still, There, Store!Expire, history

LEMMA DropDoes == ASSUME TypeOK, NEW p \in Procs, Drop(p) PROVE Cleared
  <1>1. map' = [k \in {Counter} |-> Store!Absent]
    BY DEF Drop, Store!Del
  <1> QED
    BY <1>1 DEF Drop, Cleared

LEMMA CrashDoes == ASSUME TypeOK, Crash PROVE Cleared \/ Still
  <1>1. CASE Redis
    BY <1>1 DEF Crash, Still
  <1>2. CASE ~Redis
    <2>1. map' = [k \in {Counter} |-> Store!Absent]
      BY <1>2 DEF Crash, Store!Del
    <2> QED
      BY <1>2, <2>1 DEF Crash, Cleared
  <1> QED
    BY <1>1, <1>2

\* An answer that is lost: its request is let through uncounted, or turns to Del.
LEMMA ReplyLostDoes ==
    ASSUME TypeOK, NEW p \in Procs, ReplyLost(p)
    PROVE  \/ /\ (Fresh /\ map'[Counter].left = Window) \/ Still
              /\ UNCHANGED <<req, stranded>>
           \/ /\ Done(p) /\ At(p, "incr")
              /\ \/ Fresh /\ map'[Counter].left = Store!Never /\ stranded' = TRUE
                 \/ More /\ stranded' = stranded
           \/ /\ Goto(p, "drop") /\ At(p, "arm") /\ stranded' = stranded
              /\ Armed \/ (Still /\ ~There)
  <1>0. stranded \in BOOLEAN
    BY DEF TypeOK
  <1>1. CASE At(p, "idle") /\ Store!SetNX(Counter, 1, Window) /\ UNCHANGED req
    <2>1. stranded' = stranded
      BY <1>0, <1>1 DEF ReplyLost, At
    <2> QED
      BY <1>1, <2>1, SetNXDoes DEF ReplyLost, Fresh, Still, passed
  <1>2. CASE At(p, "incr") /\ Store!IncrBy(Counter, 1) /\ Done(p)
    <2>1. stranded' = (stranded \/ answer' = 1)
      BY <1>2 DEF ReplyLost
    <2> QED
      BY <1>0, <1>2, <2>1, IncrByDoes DEF ReplyLost, Fresh, More, passed
  <1>3. CASE At(p, "arm") /\ Store!Expire(Counter, Window) /\ Goto(p, "drop")
    <2>1. stranded' = stranded
      BY <1>0, <1>3 DEF ReplyLost, At
    <2>2. Armed \/ (Still /\ ~There)
      BY <1>3 DEF ReplyLost, Armed, Still, There, Store!Expire
    <2> QED
      BY <1>3, <2>1, <2>2
  <1> QED
    BY <1>1, <1>2, <1>3 DEF ReplyLost

LEMMA CounterSteps == TypeOK /\ [Next]_vars => CounterStep
  <1> SUFFICES ASSUME TypeOK, [Next]_vars PROVE CounterStep
    OBVIOUS
  <1>1. ASSUME NEW p \in Procs, FirstHit(p) PROVE CounterStep
    BY <1>1, FirstHitDoes DEF CounterStep
  <1>2. ASSUME NEW p \in Procs, Increment(p) PROVE CounterStep
    BY <1>2, IncrementDoes DEF CounterStep
  <1>3. ASSUME NEW p \in Procs, Rearm(p) PROVE CounterStep
    BY <1>3, RearmDoes DEF CounterStep
  <1>4. ASSUME NEW p \in Procs, Drop(p) PROVE CounterStep
    BY <1>4, DropDoes DEF CounterStep
  <1>5. ASSUME NEW p \in Procs, CallFails(p) \/ Leave(p) PROVE CounterStep
    BY <1>5 DEF CounterStep, Still, CallFails, Leave, history
  <1>9. ASSUME NEW p \in Procs, ReplyLost(p) PROVE CounterStep
    BY <1>9, ReplyLostDoes DEF CounterStep
  <1>6. CASE Crash
    BY <1>6, CrashDoes DEF CounterStep
  <1>7. CASE Tick
    BY <1>7 DEF CounterStep, Aged, Tick, Store!Tick
  <1>8. CASE UNCHANGED vars
    BY <1>8 DEF CounterStep, Still, vars, history
  <1> QED
    BY <1>1, <1>2, <1>3, <1>4, <1>5, <1>6, <1>7, <1>8, <1>9 DEF Next, Step

----------------------------------------------------------------------------
(* Type correctness. *)
CounterOK == map \in [{Counter} -> {Store!Absent} \cup Counters]
ReqOK == req \in [Procs -> Requests]

LEMMA InitType == Init => TypeOK
  <1> SUFFICES ASSUME Init PROVE TypeOK
    OBVIOUS
  <1>1. map \in [{Counter} -> {Store!Absent} \cup Counters]
    BY DEF Init, Store!Init
  <1>2. Idle \in Requests
    BY DEF Idle, Requests
  <1>3. req \in [Procs -> Requests]
    BY <1>2 DEF Init
  <1>4. faults \in 0 .. MaxFaults /\ crashes \in 0 .. MaxCrashes
    BY RateLimitAssumption DEF Init
  <1> QED
    BY <1>1, <1>3, <1>4 DEF Init, TypeOK

\* A counter gave out no more than the limit.
LEMMA SpentType ==
    ASSUME TypeOK
    PROVE  /\ Spent \in Nat /\ Spent <= Limit
           /\ ~There => Spent = 0
           /\ There => Spent = IF counter.val <= Limit THEN counter.val ELSE Limit
  BY CounterType, Sizes DEF Spent, Count, There, counter

LEMMA ShiftedType ==
    ASSUME NEW f \in [Ages -> Nat]
    PROVE  Shifted(f) \in [Ages -> Nat]
  <1>1. \A age \in Ages : age # 0 => age - 1 \in Ages
    BY Sizes DEF Ages
  <1> QED
    BY <1>1 DEF Shifted

LEMMA CounterStepType ==
    ASSUME TypeOK, CounterStep
    PROVE  CounterOK' /\ recent' \in [Ages -> Nat] /\ forgiven' \in [Ages -> Nat]
  <1>1. recent' \in [Ages -> Nat]
    <2>1. CASE Admit
      <3>1. \A age \in Ages : recent[age] + 1 \in Nat
        BY DEF TypeOK
      <3> QED
        BY <2>1, <3>1 DEF Admit
    <2>2. CASE Aged
      BY <2>2, ShiftedType DEF Aged, TypeOK
    <2>3. CASE UNCHANGED recent
      BY <2>3 DEF TypeOK
    <2> QED
      BY <2>1, <2>2, <2>3 DEF CounterStep, Still, Fresh, More, Armed, Cleared, passed
  <1>0. forgiven' \in [Ages -> Nat]
    <2>1. CASE Forgive
      <3>1. \A age \in Ages : forgiven[age] + Spent \in Nat
        BY SpentType DEF TypeOK
      <3> QED
        BY <2>1, <3>1 DEF Forgive
    <2>2. CASE Aged
      BY <2>2, ShiftedType DEF Aged, TypeOK
    <2>3. CASE UNCHANGED forgiven
      BY <2>3 DEF TypeOK
    <2> QED
      BY <2>1, <2>2, <2>3 DEF CounterStep, Still, Fresh, More, Armed, Cleared, passed
  <1>2. ASSUME NEW e, e \in Counters \/ e = Store!Absent,
               map' = [k \in {Counter} |-> e] \/ map' = [map EXCEPT ![Counter] = e]
        PROVE  CounterOK'
    BY <1>2 DEF CounterOK, TypeOK
  <1>3. CASE Still
    BY <1>0, <1>1, <1>3 DEF Still, TypeOK, CounterOK
  <1>4. CASE Fresh
    <2>1. PICK left \in {Window, Store!Never} :
            map' = [map EXCEPT ![Counter] = [val |-> 1, left |-> left]]
      BY <1>4 DEF Fresh
    <2>2. [val |-> 1, left |-> left] \in Counters
      BY Sizes DEF Counters
    <2> QED
      BY <1>0, <1>1, <1>2, <2>1, <2>2
  <1>5. CASE More
    <2>1. [counter EXCEPT !.val = counter.val + 1] \in Counters
      BY <1>5, CounterType DEF More, Counters
    <2>2. map' = [map EXCEPT ![Counter] = [counter EXCEPT !.val = counter.val + 1]]
      BY <1>5 DEF More, TypeOK, counter
    <2> QED
      BY <1>0, <1>1, <1>2, <2>1, <2>2
  <1>6. CASE Armed
    <2>1. [counter EXCEPT !.left = Window] \in Counters
      BY <1>6, CounterType, Sizes DEF Armed, Counters
    <2>2. map' = [map EXCEPT ![Counter] = [counter EXCEPT !.left = Window]]
      BY <1>6 DEF Armed, TypeOK, counter
    <2> QED
      BY <1>0, <1>1, <1>2, <2>1, <2>2
  <1>7. CASE Cleared
    BY <1>0, <1>1, <1>2, <1>7 DEF Cleared
  <1>8. CASE Aged
    <2>1. Store!Older(counter) \in Counters \/ Store!Older(counter) = Store!Absent
      <3>1. CASE There
        <4>1. counter \in Counters
          BY <3>1, CounterType
        <4> QED
          BY <4>1, Sizes DEF Store!Older, Counters, Store!Never
      <3>2. CASE ~There
        BY <3>2 DEF There, Store!Held, Store!Older, Store!Absent, counter
      <3> QED
        BY <3>1, <3>2
    <2>2. map' = [k \in {Counter} |-> Store!Older(counter)]
      BY <1>8 DEF Aged, counter
    <2> QED
      BY <1>0, <1>1, <1>2, <2>1, <2>2
  <1> QED
    BY <1>0, <1>1, <1>3, <1>4, <1>5, <1>6, <1>7, <1>8 DEF CounterStep

LEMMA ReqType == TypeOK /\ [Next]_vars => ReqOK'
  <1> SUFFICES ASSUME TypeOK, [Next]_vars PROVE ReqOK'
    OBVIOUS
  <1>1. ASSUME NEW p \in Procs, NEW r \in Requests, req' = [req EXCEPT ![p] = r]
        PROVE  ReqOK'
    BY <1>1 DEF TypeOK, ReqOK
  <1>2. ASSUME NEW p \in Procs, Done(p) PROVE ReqOK'
    <2>1. Idle \in Requests
      BY DEF Idle, Requests
    <2> QED
      BY <1>1, <1>2, <2>1 DEF Done
  <1>3. ASSUME NEW p \in Procs, NEW pc \in {"incr", "arm", "drop"}, Goto(p, pc) PROVE ReqOK'
    <2>1. [req[p] EXCEPT !.pc = pc] \in Requests
      BY DEF TypeOK, Requests
    <2> QED
      BY <1>1, <1>3, <2>1 DEF Goto
  <1>4. ASSUME NEW p \in Procs, FirstHit(p) PROVE ReqOK'
    BY <1>3, <1>4 DEF FirstHit, TypeOK, ReqOK
  <1>5. ASSUME NEW p \in Procs, Step(p) PROVE ReqOK'
    BY <1>2, <1>3, <1>5 DEF Step, Increment, Rearm, Drop, CallFails
  <1>9. ASSUME NEW p \in Procs, ReplyLost(p) PROVE ReqOK'
    <2>1. CASE UNCHANGED req
      BY <2>1 DEF TypeOK, ReqOK
    <2> QED
      BY <1>2, <1>3, <1>9, <2>1, ReplyLostDoes
  <1>6. ASSUME NEW p \in Procs, Leave(p) PROVE ReqOK'
    <2>1. [req[p] EXCEPT !.gone = TRUE] \in Requests
      BY DEF TypeOK, Requests
    <2> QED
      BY <1>1, <1>6, <2>1 DEF Leave
  <1>7. CASE Crash
    BY <1>7 DEF Crash, ReqOK, Idle, Requests
  <1>8. CASE UNCHANGED req
    BY <1>8 DEF ReqOK, TypeOK
  <1> QED
    BY <1>4, <1>5, <1>6, <1>7, <1>8, <1>9 DEF Next, Tick, vars

LEMMA StoreKept == [Next]_vars => store' = store
  BY DEF Next, Step, FirstHit, Increment, Rearm, Drop, CallFails, ReplyLost, Leave,
         Crash, Tick, server, world, vars

LEMMA WorldType ==
    TypeOK /\ [Next]_vars
    => /\ faults' \in 0 .. MaxFaults /\ crashes' \in 0 .. MaxCrashes
       /\ stranded' \in BOOLEAN
  <1> SUFFICES ASSUME TypeOK, [Next]_vars
               PROVE  /\ faults' \in 0 .. MaxFaults /\ crashes' \in 0 .. MaxCrashes
                      /\ stranded' \in BOOLEAN
    OBVIOUS
  <1>1. faults' \in {faults, faults + 1} /\ (faults' # faults => faults < MaxFaults)
    BY DEF Next, Step, FirstHit, Increment, Rearm, Drop, CallFails, ReplyLost, Leave,
           Crash, Tick, Failing, NotFailing, server, world, vars
  <1>2. crashes' \in {crashes, crashes + 1} /\ (crashes' # crashes => crashes < MaxCrashes)
    BY DEF Next, Step, FirstHit, Increment, Rearm, Drop, CallFails, ReplyLost, Leave,
           Crash, Tick, server, world, vars
  <1>3. stranded' \in BOOLEAN
    BY DEF TypeOK, Next, Step, FirstHit, Increment, Rearm, Drop, CallFails, ReplyLost,
           Leave, Crash, Tick, history, vars
  <1> QED
    BY <1>1, <1>2, <1>3, RateLimitAssumption DEF TypeOK

LEMMA TypeStep == TypeOK /\ [Next]_vars => TypeOK'
  BY CounterSteps, CounterStepType, ReqType, WorldType, StoreKept DEF TypeOK, CounterOK, ReqOK

\* Type correctness of every behaviour of the limiter: a counter counts from
\* one and, when it expires, does so within a window.
THEOREM TypeCorrect == Spec => []TypeOK
  <1>1. TypeOK /\ [Next]_vars => TypeOK'
    BY TypeStep
  <1> QED
    BY <1>1, InitType, PTL DEF Spec

----------------------------------------------------------------------------
(* The window.  A counter that has `left` seconds left was armed Window - left *)
(* seconds ago and created no later, after its predecessor had expired or been *)
(* forgiven: what passed in these seconds and is not forgiven, it counted      *)
(* itself, and of what passed before, no more than Limit is still within the   *)
(* window.                                                                     *)
WindowInv ==
    /\ \A age \in Ages : recent[age] <= forgiven[age] + Limit + Spent
    /\ recent[0] <= forgiven[0] + Spent
    /\ There /\ counter.left # Store!Never =>
           \A age \in Ages : age <= Window - counter.left =>
               recent[age] <= forgiven[age] + Spent

LEMMA WindowInit == Init => WindowInv
  <1> SUFFICES ASSUME Init PROVE WindowInv
    OBVIOUS
  <1>1. ~There /\ Spent = 0
    BY DEF Init, There, Store!Init, Store!Held, Spent
  <1>2. \A age \in Ages : recent[age] = 0 /\ forgiven[age] = 0
    BY DEF Init
  <1> QED
    BY <1>1, <1>2, Sizes DEF WindowInv

LEMMA AgesAreNat == ASSUME NEW a \in Ages PROVE a \in Nat /\ 0 <= a /\ a <= Window
  BY Sizes DEF Ages

LEMMA WindowStep == TypeOK /\ WindowInv /\ [Next]_vars => WindowInv'
  <1> SUFFICES ASSUME TypeOK, WindowInv, [Next]_vars PROVE WindowInv'
    OBVIOUS
  <1>1. CounterStep /\ TypeOK'
    BY CounterSteps, TypeStep
  <1>2. \A age \in Ages : recent[age] \in Nat /\ forgiven[age] \in Nat
    BY DEF TypeOK
  <1>3. 0 \in Ages /\ Limit \in Nat /\ Limit > 0 /\ Window \in Nat
    BY Sizes
  <1>4. There => /\ counter.val \in Nat /\ counter.val >= 1
                 /\ counter.left \in 0 .. Window \cup {Store!Never}
    BY CounterType DEF Counters
  <1>5. Spent \in Nat /\ Spent <= Limit
    BY SpentType
  <1>6. CASE Still
    <2>1. map' = map /\ recent' = recent /\ forgiven' = forgiven
      BY <1>6 DEF Still, passed
    <2> QED
      BY <2>1 DEF WindowInv, Spent, Count, There, counter, Store!Held
  <1>7. CASE Fresh
    <2>1. Spent = 0
      BY <1>7, SpentType DEF Fresh
    <2>2. \A age \in Ages : /\ recent'[age] \in {recent[age], recent[age] + 1}
                            /\ forgiven'[age] = forgiven[age]
      BY <1>7 DEF Fresh, Admit
    <2>3. counter'.val = 1 /\ counter'.left \in {Window, Store!Never}
      BY <1>7 DEF Fresh, TypeOK, counter
    <2>4. There'
      BY <2>3 DEF There, counter, Store!Held, Store!Absent, Store!NotFound
    <2>5. Spent' = 1
      BY <2>3, <2>4, <1>3 DEF Spent, Count, There, counter
    <2>6. \A age \in Ages : recent'[age] <= forgiven'[age] + Limit + Spent'
      BY <1>2, <1>3, <2>1, <2>2, <2>5 DEF WindowInv
    <2>7. recent'[0] <= forgiven'[0] + Spent'
      BY <1>2, <1>3, <2>1, <2>2, <2>5 DEF WindowInv
    <2>8. ASSUME NEW age \in Ages, age <= Window - Window PROVE age = 0
      BY <2>8, AgesAreNat, <1>3
    <2> QED
      BY <2>3, <2>6, <2>7, <2>8 DEF WindowInv
  <1>8. CASE More
    <2>1. There /\ counter'.val = counter.val + 1 /\ counter'.left = counter.left
      BY <1>8, CounterType DEF More, TypeOK, counter, Counters
    <2>2. There'
      BY <1>4, <2>1 DEF There, counter, Store!Held, Store!Absent, Store!NotFound
    <2>3. /\ Spent = IF counter.val <= Limit THEN counter.val ELSE Limit
          /\ Spent' = IF counter.val + 1 <= Limit THEN counter.val + 1 ELSE Limit
      BY <2>1, <2>2 DEF Spent, Count, There, counter
    <2>4. \A age \in Ages : /\ recent'[age] - recent[age] <= Spent' - Spent
                            /\ forgiven'[age] = forgiven[age]
      <3>1. CASE counter.val + 1 <= Limit /\ Admit
        BY <1>2, <1>3, <1>4, <1>8, <2>1, <2>3, <3>1 DEF More, Admit
      <3>2. CASE UNCHANGED recent
        BY <1>2, <1>3, <1>4, <1>8, <2>1, <2>3, <3>2 DEF More
      <3> QED
        BY <1>8, <3>1, <3>2 DEF More
    <2>5. Spent' \in Nat /\ \A age \in Ages : recent'[age] \in Nat
      BY <1>1, SpentType, <2>3, <1>4, <2>1, <1>3 DEF TypeOK
    <2>6. ASSUME NEW age \in Ages, NEW bound \in Nat,
                 recent[age] <= forgiven[age] + bound + Spent
          PROVE  recent'[age] <= forgiven'[age] + bound + Spent'
      BY <1>2, <1>5, <2>4, <2>5, <2>6
    <2>7. \A age \in Ages : recent'[age] <= forgiven'[age] + Limit + Spent'
      BY <1>3, <2>6 DEF WindowInv
    <2>8. ASSUME NEW age \in Ages, recent[age] <= forgiven[age] + Spent
          PROVE  recent'[age] <= forgiven'[age] + Spent'
      BY <1>2, <1>5, <2>4, <2>5, <2>8
    <2> QED
      BY <1>3, <2>1, <2>7, <2>8 DEF WindowInv
  <1>9. CASE Armed
    <2>1. /\ There /\ counter'.val = counter.val /\ counter'.left = Window
          /\ recent' = recent /\ forgiven' = forgiven
      BY <1>9, CounterType DEF Armed, TypeOK, counter, Counters, passed
    <2>2. There'
      BY <1>4, <2>1 DEF There, counter, Store!Held, Store!Absent, Store!NotFound
    <2>3. Spent' = Spent
      BY <2>1, <2>2 DEF Spent, Count, There, counter
    <2>4. ASSUME NEW age \in Ages, age <= Window - Window PROVE age = 0
      BY <2>4, AgesAreNat, <1>3
    <2> QED
      BY <2>1, <2>3, <2>4 DEF WindowInv
  <1>10. CASE Cleared
    <2>1. ~There' /\ Spent' = 0
      BY <1>10 DEF Cleared, There, Spent, Store!Held
    <2>2. \A age \in Ages : /\ recent'[age] = recent[age]
                            /\ forgiven'[age] = forgiven[age] + Spent
      BY <1>10 DEF Cleared, Forgive
    <2>3. \A age \in Ages : recent'[age] <= forgiven'[age] + Limit + Spent'
      BY <1>2, <1>3, <1>5, <2>1, <2>2 DEF WindowInv
    <2>4. recent'[0] <= forgiven'[0] + Spent'
      BY <1>2, <1>3, <1>5, <2>1, <2>2 DEF WindowInv
    <2> QED
      BY <2>1, <2>3, <2>4 DEF WindowInv
  <1>11. CASE Aged
    <2>1. \A age \in Ages :
             /\ recent'[age] = IF age = 0 THEN 0 ELSE recent[age - 1]
             /\ forgiven'[age] = IF age = 0 THEN 0 ELSE forgiven[age - 1]
      BY <1>11 DEF Aged, Shifted
    <2>2. ASSUME NEW age \in Ages, age # 0 PROVE age - 1 \in Ages
      BY <2>2, Sizes DEF Ages
    <2>3. counter' = Store!Older(counter)
      BY <1>11 DEF Aged, counter
    <2>4. CASE ~There
      <3>1. ~There'
        BY <2>3, <2>4 DEF There, counter, Store!Held, Store!Older, Store!Absent
      <3>2. Spent' = 0 /\ Spent = 0
        BY <2>4, <3>1 DEF Spent, There
      <3>3. \A age \in Ages : recent'[age] <= forgiven'[age] + Limit + Spent'
        BY <1>3, <2>1, <2>2, <3>2 DEF WindowInv
      <3> QED
        BY <1>3, <2>1, <3>1, <3>2, <3>3 DEF WindowInv
    <2>5. CASE There /\ counter.left = 0
      <3>1. ~There'
        BY <2>3, <2>5 DEF There, counter, Store!Held, Store!Older, Store!Never
      <3>2. Spent' = 0
        BY <3>1 DEF Spent, There
      <3>3. \A age \in Ages : recent[age] <= forgiven[age] + Spent
        <4>1. \A age \in Ages : age <= Window - counter.left
          BY <2>5, <1>3, AgesAreNat
        <4> QED
          BY <2>5, <4>1 DEF WindowInv, Store!Never
      <3>4. \A age \in Ages : recent'[age] <= forgiven'[age] + Limit + Spent'
        BY <1>2, <1>3, <1>5, <2>1, <2>2, <3>2, <3>3
      <3> QED
        BY <1>3, <2>1, <3>1, <3>2, <3>4 DEF WindowInv
    <2>6. CASE There /\ counter.left # 0
      <3>1. /\ counter'.val = counter.val
            /\ counter.left = Store!Never => counter'.left = Store!Never
            /\ counter.left # Store!Never => counter'.left = counter.left - 1
        BY <2>3, <2>6, CounterType DEF Store!Older, Counters
      <3>2. There'
        BY <1>4, <2>6, <3>1 DEF There, counter, Store!Held, Store!Absent, Store!NotFound
      <3>3. Spent' = Spent
        BY <2>6, <3>1, <3>2 DEF Spent, Count, There, counter
      <3>4. \A age \in Ages : recent'[age] <= forgiven'[age] + Limit + Spent'
        BY <1>3, <1>5, <2>1, <2>2, <3>3 DEF WindowInv
      <3>5. recent'[0] <= forgiven'[0] + Spent'
        BY <1>3, <1>5, <2>1, <3>3
      <3>6. ASSUME counter'.left # Store!Never, NEW age \in Ages,
                   age <= Window - counter'.left
            PROVE  recent'[age] <= forgiven'[age] + Spent'
        <4>1. CASE age = 0
          BY <3>5, <4>1
        <4>2. CASE age # 0
          <5>1. counter.left # Store!Never /\ counter.left \in 0 .. Window
            BY <1>4, <2>6, <3>1, <3>6
          <5>2. age - 1 \in Ages /\ age - 1 <= Window - counter.left
            BY <1>3, <2>2, <3>1, <3>6, <4>2, <5>1, AgesAreNat
          <5>3. recent[age - 1] <= forgiven[age - 1] + Spent
            BY <2>6, <5>1, <5>2 DEF WindowInv
          <5> QED
            BY <2>1, <3>3, <4>2, <5>3
        <4> QED
          BY <4>1, <4>2
      <3> QED
        BY <3>4, <3>5, <3>6 DEF WindowInv
    <2> QED
      BY <2>4, <2>5, <2>6
  <1> QED
    BY <1>1, <1>6, <1>7, <1>8, <1>9, <1>10, <1>11 DEF CounterStep

\* For any limit, window and number of requests, on either store and whatever calls
\* fail, answers are lost or servers die: in no stretch of a window do more than two
\* limits pass as counted, beyond those that counters dropped or lost in that stretch
\* had let through.
THEOREM TwoLimitsPerWindow == Spec => []WindowLimit
  <1>1. TypeOK /\ WindowInv => WindowLimit
    <2> SUFFICES ASSUME TypeOK, WindowInv
                 PROVE  recent[Window] <= 2 * Limit + forgiven[Window]
      BY DEF WindowLimit
    <2>1. recent[Window] \in Nat /\ forgiven[Window] \in Nat
      BY Sizes DEF TypeOK
    <2> QED
      BY <2>1, SpentType, Sizes DEF WindowInv
  <1>2. WindowInv /\ TypeOK /\ [Next]_vars => WindowInv'
    BY WindowStep
  <1> QED
    BY <1>1, <1>2, WindowInit, TypeCorrect, PTL DEF Spec

----------------------------------------------------------------------------
(* The ttl.  A counter that IncrBy creates has a request that will arm or drop *)
(* it, and whatever that request does next, the counter has a ttl afterwards,  *)
(* is gone, or is stranded.                                                    *)

\* Request p goes on at pc, the others stay where they are.
Moves(p, pc) == \A q \in Procs : req'[q].pc = IF q = p THEN pc ELSE req[q].pc

LEMMA GotoMoves ==
    ASSUME TypeOK, NEW p \in Procs, NEW pc, Goto(p, pc)
    PROVE  Moves(p, pc)
  BY DEF TypeOK, Requests, Goto, Moves

LEMMA DoneMoves ==
    ASSUME TypeOK, NEW p \in Procs, Done(p)
    PROVE  Moves(p, "idle")
  BY DEF TypeOK, Requests, Done, Moves, Idle

\* A counter with a ttl keeps one, and one without stays bare, unless a request
\* creates, arms or drops it.
LEMMA BareSteps ==
    ASSUME TypeOK
    PROVE  /\ Still \/ More => (Bare' <=> Bare)
           /\ Bare => There
           /\ Aged => (Bare' <=> Bare)
           /\ Cleared => ~Bare'
           /\ Armed => ~Bare'
           /\ Fresh => (Bare' <=> map'[Counter].left = Store!Never)
  <1>0. /\ Bare <=> There /\ counter.left = Store!Never
        /\ Bare' <=> There' /\ counter'.left = Store!Never
    BY DEF Bare, There, counter
  <1>1. Still \/ More => (Bare' <=> Bare)
    <2>1. ASSUME More PROVE Bare' <=> Bare
      <3>1. There /\ counter'.val = counter.val + 1 /\ counter'.left = counter.left
        BY <2>1, CounterType DEF More, TypeOK, counter, Counters
      <3>2. There'
        BY <3>1, CounterType DEF There, counter, Store!Held, Store!Absent, Store!NotFound
      <3> QED
        BY <1>0, <3>1, <3>2
    <2> QED
      BY <2>1 DEF Still, Bare, Store!Held
  <1>2. Aged => (Bare' <=> Bare)
    <2> SUFFICES ASSUME Aged PROVE Bare' <=> Bare
      OBVIOUS
    <2>1. counter' = Store!Older(counter)
      BY DEF Aged, counter
    <2>2. There = (counter # Store!Absent) /\ There' = (counter' # Store!Absent)
      BY DEF There, counter, Store!Held
    <2>3. CASE ~There
      <3>1. counter = Store!Absent /\ Store!Absent.left = Store!Never
        BY <2>2, <2>3 DEF Store!Absent
      <3>2. counter' = Store!Absent
        BY <2>1, <3>1 DEF Store!Older
      <3> QED
        BY <1>0, <2>2, <2>3, <3>2
    <2>4. CASE There /\ counter.left = Store!Never
      BY <1>0, <2>1, <2>2, <2>4 DEF Store!Older
    <2>5. CASE There /\ counter.left # Store!Never
      <3>1. counter \in Counters /\ counter.left \in Nat
        BY <2>5, CounterType, Sizes DEF Counters
      <3>2. CASE counter.left = 0
        BY <1>0, <2>1, <2>2, <2>5, <3>2 DEF Store!Older, Store!Never
      <3>3. CASE counter.left # 0
        <4>1. counter' = [counter EXCEPT !.left = counter.left - 1]
          BY <2>1, <2>5, <3>3 DEF Store!Older
        <4>2. counter'.left = counter.left - 1
          BY <3>1, <4>1 DEF Counters
        <4> QED
          BY <1>0, <2>5, <3>1, <3>3, <4>2 DEF Store!Never
      <3> QED
        BY <3>2, <3>3
    <2> QED
      BY <2>3, <2>4, <2>5
  <1>3. Cleared => ~Bare'
    BY <1>0 DEF Cleared, There, Store!Held
  <1>4. Armed => ~Bare'
    <2> SUFFICES ASSUME Armed PROVE ~Bare'
      OBVIOUS
    <2>1. counter'.left = Window
      BY CounterType DEF Armed, TypeOK, counter, Counters
    <2> QED
      BY <1>0, <2>1, Sizes DEF Store!Never
  <1>5. Fresh => (Bare' <=> map'[Counter].left = Store!Never)
    <2> SUFFICES ASSUME Fresh PROVE Bare' <=> map'[Counter].left = Store!Never
      OBVIOUS
    <2>1. counter'.val = 1
      BY DEF Fresh, TypeOK, counter
    <2>2. There'
      BY <2>1 DEF There, counter, Store!Held, Store!Absent, Store!NotFound
    <2> QED
      BY <1>0, <2>2 DEF counter
  <1> QED
    BY <1>0, <1>1, <1>2, <1>3, <1>4, <1>5

LEMMA ArmingKept ==
    ASSUME CounterArmed, Bare' <=> Bare, stranded' = stranded,
           \A q \in Procs : Arming(q)' = Arming(q)
    PROVE  CounterArmed'
  BY DEF CounterArmed

\* A counter that was armed, dropped, or was not there.
LEMMA BareNot ==
    ASSUME TypeOK
    PROVE  Armed \/ (Still /\ ~There) \/ Cleared => ~Bare'
  BY BareSteps

LEMMA ArmingDone == ~Bare' => CounterArmed'
  BY DEF CounterArmed

LEMMA ArmingStep == TypeOK /\ CounterArmed /\ [Next]_vars => CounterArmed'
  <1> SUFFICES ASSUME TypeOK, CounterArmed, [Next]_vars PROVE CounterArmed'
    OBVIOUS
  <1>0. stranded \in BOOLEAN /\ Window # Store!Never
    BY Sizes DEF TypeOK, Store!Never
  <1>1. ASSUME NEW p \in Procs, FirstHit(p) PROVE CounterArmed'
    <2>1. stranded' = stranded
      BY <1>1 DEF FirstHit
    <2>2. \A q \in Procs : Arming(q)' = Arming(q)
      <3>1. CASE UNCHANGED req
        BY <3>1 DEF Arming, At
      <3>2. CASE Goto(p, "incr")
        BY <1>1, <3>2, GotoMoves DEF FirstHit, Arming, At, Moves
      <3> QED
        BY <1>1, <3>1, <3>2 DEF FirstHit
    <2>3. CASE Still
      BY <2>1, <2>2, <2>3, ArmingKept, BareSteps
    <2>4. CASE Fresh /\ map'[Counter].left = Window
      BY <1>0, <2>4, BareSteps, ArmingDone
    <2> QED
      BY <1>1, <2>3, <2>4, FirstHitDoes
  <1>2. ASSUME NEW p \in Procs, Increment(p) PROVE CounterArmed'
    <2>1. At(p, "incr") /\ ~Arming(p) /\ stranded' = stranded
      BY <1>2 DEF Increment, Arming, At
    <2>2. CASE Fresh /\ map'[Counter].left = Store!Never /\ Goto(p, "arm")
      <3>1. Arming(p)'
        BY <2>2, GotoMoves DEF Moves, Arming, At
      <3> QED
        BY <3>1, Zenon DEF CounterArmed
    <2>3. CASE More /\ Done(p)
      <3>1. \A q \in Procs : Arming(q)' = Arming(q)
        BY <2>1, <2>3, DoneMoves DEF Moves, Arming, At
      <3> QED
        BY <2>1, <2>3, <3>1, ArmingKept, BareSteps
    <2> QED
      BY <1>2, <2>2, <2>3, IncrementDoes
  <1>3. ASSUME NEW p \in Procs, Rearm(p) \/ Drop(p) PROVE CounterArmed'
    <2>1. Armed \/ (Still /\ ~There) \/ Cleared
      BY <1>3, RearmDoes, DropDoes
    <2> QED
      BY <2>1, BareNot, ArmingDone
  <1>4. ASSUME NEW p \in Procs, CallFails(p) PROVE CounterArmed'
    <2>1. (Bare' <=> Bare)
      BY <1>4, BareSteps DEF CallFails, Still
    <2>2. CASE At(p, "incr") /\ Done(p)
      <3>1. \A q \in Procs : Arming(q)' = Arming(q)
        BY <2>2, DoneMoves DEF Moves, Arming, At
      <3>2. stranded' = stranded
        BY <1>0, <1>4, <2>2 DEF CallFails, At
      <3> QED
        BY <2>1, <3>1, <3>2, ArmingKept
    <2>3. CASE At(p, "arm") /\ Goto(p, "drop")
      <3>1. \A q \in Procs : Arming(q)' = Arming(q)
        BY <2>3, GotoMoves DEF Moves, Arming, At
      <3>2. stranded' = stranded
        BY <1>0, <1>4, <2>3 DEF CallFails, At
      <3> QED
        BY <2>1, <3>1, <3>2, ArmingKept
    <2>4. CASE At(p, "drop") /\ Done(p)
      <3>1. Bare => stranded'
        BY <1>4, <2>4 DEF CallFails
      <3> QED
        BY <2>1, <3>1 DEF CounterArmed
    <2> QED
      BY <1>4, <2>2, <2>3, <2>4 DEF CallFails
  <1>9. ASSUME NEW p \in Procs, ReplyLost(p) PROVE CounterArmed'
    <2>1. CASE (Fresh /\ map'[Counter].left = Window) /\ UNCHANGED <<req, stranded>>
      BY <1>0, <2>1, BareSteps, ArmingDone
    <2>2. CASE Still /\ UNCHANGED <<req, stranded>>
      <3>1. \A q \in Procs : Arming(q)' = Arming(q)
        BY <2>2 DEF Arming, At
      <3> QED
        BY <2>2, <3>1, ArmingKept, BareSteps
    <2>3. CASE stranded' = TRUE
      BY <2>3, Zenon DEF CounterArmed
    <2>4. CASE Done(p) /\ At(p, "incr") /\ More /\ stranded' = stranded
      <3>1. \A q \in Procs : Arming(q)' = Arming(q)
        BY <2>4, DoneMoves DEF Moves, Arming, At
      <3> QED
        BY <2>4, <3>1, ArmingKept, BareSteps
    <2>5. CASE Armed \/ (Still /\ ~There)
      BY <2>5, BareNot, ArmingDone
    <2> QED
      BY <1>9, ReplyLostDoes, <2>1, <2>2, <2>3, <2>4, <2>5
  <1>5. ASSUME NEW p \in Procs, Leave(p) PROVE CounterArmed'
    <2>1. (Bare' <=> Bare) /\ stranded' = stranded
      BY <1>5, BareSteps DEF Leave, Still, history
    <2>2. \A q \in Procs : Arming(q)' = Arming(q)
      BY <1>5 DEF Leave, TypeOK, Requests, Arming, At
    <2> QED
      BY <2>1, <2>2, ArmingKept
  <1>6. CASE Crash
    <2>1. CASE Redis
      <3>1. (Bare' <=> Bare)
        BY <1>6, <2>1, BareSteps DEF Crash, Still
      <3>2. stranded' = (stranded \/ Bare)
        BY <1>6, <2>1 DEF Crash
      <3> QED
        BY <3>1, <3>2 DEF CounterArmed
    <2>2. CASE ~Redis
      <3>1. map' = [k \in {Counter} |-> Store!Absent]
        BY <1>6, <2>2 DEF Crash, Store!Del
      <3>2. ~Bare'
        BY <3>1 DEF Bare, Store!Held
      <3> QED
        BY <3>2, ArmingDone
    <2> QED
      BY <2>1, <2>2
  <1>7. CASE Tick
    <2>1. Aged /\ stranded' = stranded /\ UNCHANGED req
      BY <1>7 DEF Tick, Aged, Store!Tick
    <2>2. \A q \in Procs : Arming(q)' = Arming(q)
      BY <2>1 DEF Arming, At
    <2> QED
      BY <2>1, <2>2, ArmingKept, BareSteps
  <1>8. CASE UNCHANGED vars
    <2>1. Still /\ stranded' = stranded /\ UNCHANGED req
      BY <1>8 DEF vars, Still, history
    <2>2. \A q \in Procs : Arming(q)' = Arming(q)
      BY <2>1 DEF Arming, At
    <2> QED
      BY <2>1, <2>2, ArmingKept, BareSteps
  <1> QED
    BY <1>1, <1>2, <1>3, <1>4, <1>5, <1>6, <1>7, <1>8, <1>9 DEF Next, Step

\* A counter without a ttl has a request that is about to arm or drop it, unless a
\* request could do neither, died with the server or never learnt that it created
\* the counter: no interleaving of expiry, re-creation and re-arming leaves one
\* behind.
THEOREM CounterIsArmed == Spec => []CounterArmed
  <1>1. Init => CounterArmed
    BY DEF Init, CounterArmed, Bare, Store!Init, Store!Held
  <1>2. TypeOK /\ CounterArmed /\ [Next]_vars => CounterArmed'
    BY ArmingStep
  <1> QED
    BY <1>1, <1>2, TypeCorrect, PTL DEF Spec

----------------------------------------------------------------------------
\* On a store that neither heeds the request's context nor outlives the server,
\* as MemStore, it takes two failed calls to strand a counter.
StrandInv ==
    /\ \A p \in Procs : At(p, "drop") => faults >= 1
    /\ stranded => faults >= 2

LEMMA StrandStep ==
    ASSUME ~Redis, TypeOK, StrandInv, [Next]_vars
    PROVE  StrandInv'
  <1>0. faults \in Nat
    BY RateLimitAssumption DEF TypeOK
  <1>1. ASSUME faults' = faults, stranded' \in {stranded, FALSE},
               \A q \in Procs : At(q, "drop")' => At(q, "drop")
        PROVE  StrandInv'
    <2>1. \A q \in Procs : At(q, "drop")' => faults' >= 1
      BY <1>1 DEF StrandInv
    <2>2. stranded' => faults' >= 2
      BY <1>1 DEF StrandInv
    <2> QED
      BY <2>1, <2>2 DEF StrandInv
  <1>2. ASSUME NEW p \in Procs, FirstHit(p) PROVE StrandInv'
    <2>1. \A q \in Procs : At(q, "drop")' => At(q, "drop")
      BY <1>2, GotoMoves DEF FirstHit, Moves, At
    <2> QED
      BY <1>1, <1>2, <2>1 DEF FirstHit, world
  <1>3. ASSUME NEW p \in Procs, Increment(p) \/ Rearm(p) \/ Drop(p) PROVE StrandInv'
    <2>1. \A q \in Procs : At(q, "drop")' => At(q, "drop")
      BY <1>3, GotoMoves, DoneMoves DEF Increment, Rearm, Drop, Moves, At
    <2>2. faults' = faults /\ stranded' = stranded
      BY <1>3 DEF Increment, Rearm, Drop, NotFailing, history
    <2> QED
      BY <1>1, <2>1, <2>2
  <1>4. ASSUME NEW p \in Procs, CallFails(p) PROVE StrandInv'
    <2>1. faults' = faults + 1
      BY <1>4 DEF CallFails, Failing
    <2>2. stranded' => stranded \/ At(p, "drop")
      BY <1>4 DEF CallFails
    <2> QED
      BY <1>0, <2>1, <2>2 DEF StrandInv
  <1>8. ASSUME NEW p \in Procs PROVE ~ReplyLost(p)
    BY DEF ReplyLost
  <1>5. ASSUME NEW p \in Procs, Leave(p) PROVE StrandInv'
    <2>1. \A q \in Procs : At(q, "drop")' = At(q, "drop")
      BY <1>5 DEF Leave, TypeOK, Requests, At
    <2> QED
      BY <1>1, <1>5, <2>1 DEF Leave, world, history
  <1>6. CASE Crash
    <2>1. \A q \in Procs : ~At(q, "drop")'
      BY <1>6 DEF Crash, Idle, At
    <2> QED
      BY <1>1, <1>6, <2>1 DEF Crash
  <1>7. CASE UNCHANGED <<req, faults, stranded>>
    BY <1>1, <1>7 DEF At
  <1> QED
    BY <1>2, <1>3, <1>4, <1>5, <1>6, <1>7, <1>8 DEF Next, Step, Tick, world, history, vars

\* The development store never leaves a counter pinned unless two calls fail: with
\* at most one, every counter without a ttl is attended to.
THEOREM NeverStranded ==
    ASSUME MaxFaults <= 1
    PROVE  Spec => [](~Redis => ~stranded)
  <1> DEFINE InMemory == ~Redis => StrandInv
  <1>1. Init => InMemory
    BY DEF Init, StrandInv, Idle, At
  <1>2. TypeOK /\ InMemory /\ [Next]_vars => InMemory'
    BY StrandStep, StoreKept DEF Redis
  <1>3. TypeOK /\ InMemory => (~Redis => ~stranded)
    BY RateLimitAssumption DEF TypeOK, StrandInv
  <1> QED
    BY <1>1, <1>2, <1>3, TypeCorrect, PTL DEF Spec

============================================================================
