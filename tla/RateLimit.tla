----------------------------- MODULE RateLimit -----------------------------
(***************************************************************************)
(* The fixed-window rate limiter (internal/middleware/ratelimit.go) of one *)
(* identifier and route.  Its counter is a key of the key-value store: the *)
(* first request of a window creates it with the window as ttl, the others *)
(* add one, and each of these calls is a step of its own, between which    *)
(* other requests, the clock and the end of the window can come.           *)
(*                                                                         *)
(* The store is KVMap, what MemStore and Redis both promise.  They differ  *)
(* in what surrounds it: Redis keeps its keys when the server dies, may    *)
(* lose an answer on its way, and gives up a call whose client has left.   *)
(***************************************************************************)
EXTENDS Integers

CONSTANTS Procs,        \* requests in flight
          Counter,      \* the key ratelimit:<identifier>:<method>:<path>
          Limit,        \* policy.limit
          Window,       \* rateLimitWindow in seconds
          Stores,       \* the stores the server may be configured with
          MaxFaults,    \* bound: calls the store fails
          MaxCrashes,   \* bound: restarts of the server
          MaxCount      \* bound: requests a counter counts

ASSUME RateLimitAssumption ==
    /\ Limit \in Nat \ {0} /\ Window \in Nat \ {0}
    /\ Stores \subseteq {"memory", "redis"}
    /\ MaxFaults \in Nat /\ MaxCrashes \in Nat
    /\ MaxCount \in Nat

VARIABLES map, answer,      \* the store
          store,            \* which store it is
          req,              \* where each request is
          faults, crashes,
          \* History, read by no action.
          recent,           \* requests let through as counted in the last seconds,
                            \* by how many seconds
          forgiven,         \* those that counters dropped, or lost with the server,
                            \* in the last seconds had let through, likewise
          stranded          \* a request gave the counter no ttl and is gone

Store == INSTANCE KVMap WITH Keys <- {Counter}, Values <- {1}, TTLs <- {Window}

server == <<store, crashes>>
world == <<server, faults>>
passed == <<recent, forgiven>>
history == <<passed, stranded>>
vars == <<map, answer, req, world, history>>

Ages == 0 .. Window
Counters == [val : Nat \ {0}, left : 0 .. Window \cup {Store!Never}]
Requests == [pc : {"idle", "incr", "arm", "drop"}, gone : BOOLEAN]
Idle == [pc |-> "idle", gone |-> FALSE]

At(p, pc) == req[p].pc = pc
Goto(p, pc) == req' = [req EXCEPT ![p].pc = pc]
Done(p) == req' = [req EXCEPT ![p] = Idle]

Count == map[Counter].val
\* A counter without a ttl.
Bare == Store!Held(Counter) /\ map[Counter].left = Store!Never
\* The request that created the counter anew has yet to arm or drop it.
Arming(p) == At(p, "arm") \/ At(p, "drop")

Full == Store!Held(Counter) /\ Count >= Limit

Redis == store = "redis"

\* A call of p that does not happen: the store is down, or heeds the context.
Failing(p) ==
    \/ faults < MaxFaults /\ faults' = faults + 1
    \/ Redis /\ req[p].gone /\ UNCHANGED faults

NotFailing(p) == ~(Redis /\ req[p].gone) /\ UNCHANGED faults

\* c.Next, for a request within the limit.
Admit == recent' = [age \in Ages |-> recent[age] + 1]

\* The requests the counter let through, before it is forgotten with them.
Spent == IF ~Store!Held(Counter) THEN 0 ELSE IF Count <= Limit THEN Count ELSE Limit
Forgive == forgiven' = [age \in Ages |-> forgiven[age] + Spent]

----------------------------------------------------------------------------
\* Variant: the counter is created without a ttl.
FirstHitBare(p) ==
    /\ At(p, "idle")
    /\ Store!SetNX(Counter, 1, 0)
    /\ IF answer' = Store!Yes THEN Admit /\ UNCHANGED req
       ELSE Goto(p, "incr") /\ UNCHANGED recent
    /\ UNCHANGED <<world, forgiven, stranded>>

\* incrRateLimit: SetNX with the window as ttl decides about the first request.
\* (When SetNX fails the request passes uncounted, and nothing changes.)
FirstHit(p) ==
    /\ At(p, "idle")
    /\ Store!SetNX(Counter, 1, Window)
    /\ IF answer' = Store!Yes THEN Admit /\ UNCHANGED req
       ELSE Goto(p, "incr") /\ UNCHANGED recent
    /\ UNCHANGED <<world, forgiven, stranded>>

\* Variant: one more than the limit.
WithinLoosely(count) == count <= Limit + 1
Within(count) == count <= Limit

\* Variant: a counter that IncrBy created keeps no ttl.
IncrementOnly(p) ==
    /\ At(p, "incr") /\ NotFailing(p)
    /\ Count < MaxCount
    /\ Store!IncrBy(Counter, 1)
    /\ IF Within(answer') THEN Admit ELSE UNCHANGED recent
    /\ Done(p)
    /\ UNCHANGED <<server, forgiven, stranded>>

\* A count of one means that the counter expired since SetNX and is new.
Increment(p) ==
    /\ At(p, "incr") /\ NotFailing(p)
    /\ Count < MaxCount
    /\ Store!IncrBy(Counter, 1)
    /\ IF Within(answer') THEN Admit ELSE UNCHANGED recent
    /\ IF answer' = 1 THEN Goto(p, "arm") ELSE Done(p)
    /\ UNCHANGED <<server, forgiven, stranded>>

\* Variant: re-arming doubles the window.
RearmLonger(p) ==
    /\ At(p, "arm") /\ NotFailing(p)
    /\ Store!Expire(Counter, 2 * Window)
    /\ Done(p)
    /\ UNCHANGED <<server, history>>

Rearm(p) ==
    /\ At(p, "arm") /\ NotFailing(p)
    /\ Store!Expire(Counter, Window)
    /\ Done(p)
    /\ UNCHANGED <<server, history>>

\* The counter could not be armed: it is dropped, and a fresh window starts for
\* the requests it counted too.
Drop(p) ==
    /\ At(p, "drop") /\ NotFailing(p)
    /\ Store!Del({Counter}) /\ Forgive
    /\ Done(p)
    /\ UNCHANGED <<server, recent, stranded>>

\* An error of IncrBy lets the request through uncounted; one of Expire leads
\* to Del; one of Del is logged.
CallFails(p) ==
    /\ Failing(p)
    /\ \/ At(p, "incr") /\ Done(p)
       \/ At(p, "arm") /\ Goto(p, "drop")
       \/ At(p, "drop") /\ Done(p)
    /\ stranded' = (stranded \/ (At(p, "drop") /\ Bare))
    /\ UNCHANGED <<map, answer, server, passed>>

\* The same where Redis did what it was asked and only the answer is lost (that
\* of Del is not missed).
ReplyLost(p) ==
    /\ Redis /\ faults < MaxFaults /\ faults' = faults + 1
    /\ ~(Redis /\ req[p].gone)
    /\ \/ At(p, "idle") /\ Store!SetNX(Counter, 1, Window) /\ UNCHANGED req
       \/ At(p, "incr") /\ Count < MaxCount /\ Store!IncrBy(Counter, 1) /\ Done(p)
       \/ At(p, "arm") /\ Store!Expire(Counter, Window) /\ Goto(p, "drop")
    /\ stranded' = (stranded \/ (At(p, "incr") /\ answer' = 1))
    /\ UNCHANGED <<server, passed>>

\* The client of a running request leaves: its context is cancelled.
Leave(p) ==
    /\ ~At(p, "idle") /\ ~req[p].gone
    /\ req' = [req EXCEPT ![p].gone = TRUE]
    /\ UNCHANGED <<map, answer, world, history>>

\* The server dies and starts again.
Crash ==
    /\ crashes < MaxCrashes
    /\ crashes' = crashes + 1
    /\ req' = [p \in Procs |-> Idle]
    /\ \/ /\ Redis /\ stranded' = (stranded \/ Bare)
          /\ UNCHANGED <<map, answer, passed>>
       \/ /\ ~Redis /\ stranded' = FALSE
          /\ Store!Del({Counter}) /\ Forgive /\ UNCHANGED recent
    /\ UNCHANGED <<store, faults>>

\* A second passes.
Shifted(f) == [age \in Ages |-> IF age = 0 THEN 0 ELSE f[age - 1]]
Tick ==
    /\ Store!Tick
    /\ recent' = Shifted(recent) /\ forgiven' = Shifted(forgiven)
    /\ UNCHANGED <<req, world, stranded>>

Init ==
    /\ Store!Init /\ store \in Stores
    /\ req = [p \in Procs |-> Idle]
    /\ faults = 0 /\ crashes = 0
    /\ recent = [age \in Ages |-> 0] /\ forgiven = [age \in Ages |-> 0]
    /\ stranded = FALSE

Step(p) == Increment(p) \/ Rearm(p) \/ Drop(p) \/ CallFails(p)

Next ==
    \/ \E p \in Procs : FirstHit(p) \/ Step(p) \/ ReplyLost(p) \/ Leave(p)
    \/ Crash \/ Tick

Spec == Init /\ [][Next]_vars

\* Requests that have begun go on, and time passes; nobody has to send one.
FairSpec == Spec /\ WF_vars(Tick) /\ \A p \in Procs : WF_vars(Step(p))

----------------------------------------------------------------------------
\* A counter counts from one, and one that expires does so within a window.
TypeOK ==
    /\ map \in [{Counter} -> {Store!Absent} \cup Counters]
    /\ store \in Stores
    /\ req \in [Procs -> Requests]
    /\ faults \in 0 .. MaxFaults /\ crashes \in 0 .. MaxCrashes
    /\ recent \in [Ages -> Nat] /\ forgiven \in [Ages -> Nat]
    /\ stranded \in BOOLEAN

\* Requests that pass as counted in any window-long stretch of time are at most
\* twice the limit, whenever a counter expires between SetNX and IncrBy, is
\* created anew and armed late; and beyond it no more than those that counters
\* dropped (ratelimit.go:100-105) or lost with the server in that stretch had
\* let through.
WindowLimit == recent[Window] <= 2 * Limit + forgiven[Window]

\* A counter without a ttl is on its way to one, or to be dropped: some request
\* that found itself the first is about to (ratelimit.go 96-107), unless a
\* request could neither arm nor drop it, died with the server or never learnt
\* that it created it.
CounterArmed == Bare /\ ~stranded => \E p \in Procs : Arming(p)

\* Nobody is pinned at 429 for ever: a counter at its limit does not stay there
\* (SEC-3, ratelimit.go 79-83 and 97-99).
NotPinned == Full ~> ~Full

\* With MemStore, whose keys die with the server and whose calls take no notice of
\* a client that leaves, a counter at its limit is freed in the end: its window ends,
\* or incrRateLimit armed or dropped what IncrBy had created (SEC-3).
NotPinnedInMemory == Full /\ ~Redis ~> ~Full
=============================================================================
