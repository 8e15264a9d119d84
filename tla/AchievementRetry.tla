-------------------------- MODULE AchievementRetry --------------------------
(***************************************************************************)
(* Achievement unlocks and their synchronisation with Steam                *)
(* (internal/achievement): the unlock handler, the audit table             *)
(* achievement_retry_queue, the list ach:retry, the worker that empties    *)
(* the list once a minute, and the reload of the list at boot.             *)
(*                                                                         *)
(* An item is a player's achievement ("player:achievement" in the list).   *)
(* Every statement, list call and call to Steam is a step.  Steam may      *)
(* refuse whenever it likes, or accept and lose the reply; failures of     *)
(* the server itself (a statement, a list call, a panic, the death of the  *)
(* process) are counted and bounded by MaxFaults.                          *)
(***************************************************************************)
EXTENDS Integers, FiniteSets, SequencesExt

CONSTANTS Procs,       \* request goroutines
          Items,       \* achievements whose condition is met
          MaxRetries,  \* DefaultMaxRetries (10)
          MaxFaults    \* bound: failures of the server

\* Where no item is.
NoItem == "none"

ASSUME RetryAssumption ==
    /\ IsFiniteSet(Items) /\ NoItem \notin Items
    /\ MaxRetries \in Nat \ {0}
    /\ MaxFaults \in Nat

VARIABLES
    unlocked,  \* rows of player_achievements
    synced,    \* those with steam_synced = 1
    rows,      \* achievement_retry_queue
    queue,     \* the list ach:retry, its head first
    worker,    \* where the worker, or the boot before it, is
    batch,     \* toRequeue; during the boot, the rows still to enqueue
    req,       \* where each unlock is
    draining,  \* has the shutdown signal arrived
    faults,    \* failures of the server so far
    \* Outside the server: achievements set on Steam.
    steam,
    \* History: the items in the order they entered the list since the boot.
    line

tables == <<unlocked, synced, rows>>
vars   == <<tables, queue, worker, batch, req, draining, faults, steam, line>>

----------------------------------------------------------------------------
NoRow == [count |-> 0, state |-> "absent"]

Idle == [pc |-> "idle", item |-> NoItem]
At(p, pc) == req[p].pc = pc
Goto(p, pc) == req' = [req EXCEPT ![p].pc = pc]
Done(p) == req' = [req EXCEPT ![p] = Idle]

Working(pc) == worker.pc = pc
WorkerTo(pc) == worker' = [worker EXCEPT !.pc = pc]
NextItem == worker' = [pc |-> "pop", item |-> NoItem]

Booting == worker.pc \in {"query", "drain", "load"}
Fault == faults < MaxFaults /\ faults' = faults + 1

\* resolved_at IS NULL AND retry_count < maxRetries
Pending(i) == rows[i].state = "open" /\ rows[i].count < MaxRetries
DeadLetter(i) == rows[i].state = "open" /\ rows[i].count = MaxRetries

----------------------------------------------------------------------------
(* Unlock.  A repeated unlock, and one whose condition is not met, changes  *)
(* nothing; otherwise steam_id is read next.                               *)
UnlockCheck(p, i) ==
    /\ At(p, "idle") /\ ~Booting /\ ~draining
    /\ i \notin unlocked
    /\ req' = [req EXCEPT ![p] = [pc |-> "insert", item |-> i]]
    /\ UNCHANGED <<tables, queue, worker, batch, draining, faults, steam, line>>

\* Variant: RowsAffected is not looked at.
InsertTwice(p) ==
    /\ At(p, "insert")
    /\ unlocked' = unlocked \cup {req[p].item}
    /\ Goto(p, "steam")
    /\ UNCHANGED <<synced, rows, queue, worker, batch, draining, faults, steam, line>>

\* INSERT .. ON CONFLICT DO NOTHING: the loser of a race answers and is done.
InsertUnlock(p) ==
    /\ At(p, "insert")
    /\ unlocked' = unlocked \cup {req[p].item}
    /\ IF req[p].item \in unlocked THEN Done(p) ELSE Goto(p, "steam")
    /\ UNCHANGED <<synced, rows, queue, worker, batch, draining, faults, steam, line>>

\* SetAchievement: accepted, refused, or accepted without an answer.
UnlockSteam(p) ==
    /\ At(p, "steam")
    /\ \/ steam' = steam \cup {req[p].item} /\ Goto(p, "mark")
       \/ steam' \in {steam, steam \cup {req[p].item}} /\ Goto(p, "push")
    /\ UNCHANGED <<tables, queue, worker, batch, draining, faults, line>>

UnlockMark(p) ==
    /\ At(p, "mark")
    /\ \/ synced' = synced \cup {req[p].item} /\ Done(p) /\ UNCHANGED faults
       \/ Fault /\ Goto(p, "push") /\ UNCHANGED synced
    /\ UNCHANGED <<unlocked, rows, queue, worker, batch, draining, steam, line>>

\* enqueueRetry: first the list, then the row; neither failure stops it.
PushItem(p) ==
    /\ At(p, "push")
    /\ \/ /\ queue' = <<req[p].item>> \o queue
          /\ line' = Append(line, req[p].item)
          /\ UNCHANGED faults
       \/ Fault /\ UNCHANGED <<queue, line>>
    /\ Goto(p, "row")
    /\ UNCHANGED <<tables, worker, batch, draining, steam>>

InsertRow(p) ==
    /\ At(p, "row")
    /\ \/ /\ rows' = [rows EXCEPT ![req[p].item] = [count |-> 0, state |-> "open"]]
          /\ UNCHANGED faults
       \/ Fault /\ UNCHANGED rows
    /\ Done(p)
    /\ UNCHANGED <<unlocked, synced, queue, worker, batch, draining, steam, line>>

\* A statement before the INSERT fails, or the INSERT itself.
UnlockFail(p) ==
    /\ At(p, "insert") /\ Fault
    /\ Done(p)
    /\ UNCHANGED <<tables, queue, worker, batch, draining, steam, line>>

----------------------------------------------------------------------------
(* The worker: processBatch, processOne.  run may take a tick although its  *)
(* context has ended, when both are ready.                                 *)
WorkerTick ==
    /\ Working("idle")
    /\ WorkerTo("pop")
    /\ UNCHANGED <<tables, queue, batch, req, draining, faults, steam, line>>

\* A statement or list call of the worker fails: its context ended with the
\* signal (Redis and SQLite heed it, MemStore does not), or a fault.
WorkerCut == (draining /\ UNCHANGED faults) \/ Fault

\* RPop takes the tail; an empty list, or an error, ends the batch.
WorkerPop ==
    /\ Working("pop")
    /\ \/ /\ queue # <<>>
          /\ worker' = [pc |-> "steam", item |-> Last(queue)]
          /\ queue' = Front(queue)
          /\ UNCHANGED faults
       \/ /\ (queue = <<>> /\ UNCHANGED faults) \/ WorkerCut
          /\ WorkerTo("requeue") /\ UNCHANGED queue
    /\ UNCHANGED <<tables, batch, req, draining, steam, line>>

Requeue ==
    /\ batch' = Append(batch, worker.item)
    /\ NextItem

\* steam_id, then SetAchievement.
WorkerSteam ==
    /\ Working("steam")
    /\ \/ steam' = steam \cup {worker.item} /\ WorkerTo("mark") /\ UNCHANGED <<batch, faults>>
       \/ /\ steam' \in {steam, steam \cup {worker.item}}
          /\ WorkerTo("count") /\ UNCHANGED <<batch, faults>>
       \/ WorkerCut /\ Requeue /\ UNCHANGED steam
    /\ UNCHANGED <<tables, queue, req, draining, line>>

\* Variants: attempts are not counted; the cap is missing.
WorkerCountStuck ==
    /\ Working("count")
    /\ IF Pending(worker.item) THEN Requeue ELSE NextItem /\ UNCHANGED batch
    /\ UNCHANGED <<tables, queue, req, draining, faults, steam, line>>

WorkerCountUncapped ==
    /\ Working("count")
    /\ IF rows[worker.item].state = "open"
       THEN /\ rows' = [rows EXCEPT ![worker.item].count = @ + 1]
            /\ Requeue
       ELSE NextItem /\ UNCHANGED <<rows, batch>>
    /\ UNCHANGED <<unlocked, synced, queue, req, draining, faults, steam, line>>

\* Variant: a refusal is taken for a success.
MarkAnyway ==
    /\ Working("count")
    /\ synced' = synced \cup {worker.item}
    /\ WorkerTo("resolve")
    /\ UNCHANGED <<unlocked, rows, queue, batch, req, draining, faults, steam, line>>

\* UPDATE .. retry_count + 1 .. RETURNING: no row drops the item, the last
\* retry drops it as a dead letter, any other puts it back.
WorkerCount ==
    /\ Working("count")
    /\ LET i == worker.item
       IN  \/ /\ ~Pending(i)
              /\ NextItem /\ UNCHANGED <<rows, batch, faults>>
           \/ /\ Pending(i)
              /\ rows' = [rows EXCEPT ![i].count = @ + 1]
              /\ IF rows[i].count + 1 >= MaxRetries
                 THEN NextItem /\ UNCHANGED batch
                 ELSE Requeue
              /\ UNCHANGED faults
           \/ WorkerCut /\ Requeue /\ UNCHANGED rows
    /\ UNCHANGED <<unlocked, synced, queue, req, draining, steam, line>>

\* steam_synced = 1; a failure is logged and the row resolved all the same.
WorkerMark ==
    /\ Working("mark")
    /\ WorkerTo("resolve")
    /\ \/ synced' = synced \cup {worker.item} /\ UNCHANGED faults
       \/ WorkerCut /\ UNCHANGED synced
    /\ UNCHANGED <<unlocked, rows, queue, batch, req, draining, steam, line>>

\* resolved_at; a failure is logged and the item dropped all the same.
WorkerResolve ==
    /\ Working("resolve")
    /\ NextItem
    /\ \/ /\ rows' = [rows EXCEPT ![worker.item].state = IF @ = "open" THEN "resolved" ELSE @]
          /\ UNCHANGED faults
       \/ WorkerCut /\ UNCHANGED rows
    /\ UNCHANGED <<unlocked, synced, queue, batch, req, draining, steam, line>>

\* Variant: in the order of the batch.
RequeueForward ==
    /\ Working("requeue")
    /\ IF batch = <<>>
       THEN WorkerTo("idle") /\ UNCHANGED <<queue, batch>>
       ELSE /\ queue' = Append(queue, Head(batch))
            /\ batch' = Tail(batch)
            /\ UNCHANGED worker
    /\ UNCHANGED <<tables, req, draining, faults, steam, line>>

\* RPush of the items to retry, the last one first; an error is ignored.
WorkerRequeue ==
    /\ Working("requeue")
    /\ \/ /\ batch = <<>>
          /\ WorkerTo("idle") /\ UNCHANGED <<queue, batch, faults>>
       \/ /\ batch # <<>>
          /\ \/ queue' = Append(queue, Last(batch)) /\ UNCHANGED faults
             \/ WorkerCut /\ UNCHANGED queue
          /\ batch' = Front(batch)
          /\ UNCHANGED worker
    /\ UNCHANGED <<tables, req, draining, steam, line>>

\* run recovers from a panic of processOne; the batch is forgotten.
WorkerPanic ==
    /\ worker.pc \in {"steam", "count", "mark", "resolve"} /\ Fault
    /\ worker' = Idle /\ batch' = <<>>
    /\ UNCHANGED <<tables, queue, req, draining, steam, line>>

----------------------------------------------------------------------------
(* Boot and end of the process. *)
\* Variant: dead letters are loaded too.
QueryAll ==
    /\ Working("query")
    /\ \E order \in SetToSeqs({i \in Items : rows[i].state = "open"}) : batch' = order
    /\ WorkerTo("drain")
    /\ UNCHANGED <<tables, queue, req, draining, faults, steam, line>>

\* An error of the reload is logged, and the server starts all the same.
BootGivesUp ==
    /\ Fault
    /\ WorkerTo("idle") /\ batch' = <<>>
    /\ line' = Reverse(queue)
    /\ UNCHANGED queue

\* ReloadPendingRetries: the pending rows in the order of next_retry_at (here:
\* any order); then the list is drained and filled again.
BootQuery ==
    /\ Working("query")
    /\ \/ /\ \E order \in SetToSeqs({i \in Items : Pending(i)}) : batch' = order
          /\ WorkerTo("drain")
          /\ UNCHANGED <<queue, faults, line>>
       \/ BootGivesUp
    /\ UNCHANGED <<tables, req, draining, steam>>

BootDrain ==
    /\ Working("drain")
    /\ \/ /\ queue = <<>>
          /\ WorkerTo("load") /\ line' = <<>> /\ UNCHANGED <<queue, batch, faults>>
       \/ /\ queue # <<>>
          /\ queue' = Front(queue) /\ UNCHANGED <<worker, batch, line, faults>>
       \/ BootGivesUp
    /\ UNCHANGED <<tables, req, draining, steam>>

BootLoad ==
    /\ Working("load")
    /\ \/ /\ batch = <<>>
          /\ WorkerTo("idle") /\ UNCHANGED <<queue, batch, line, faults>>
       \/ /\ batch # <<>>
          /\ queue' = <<Head(batch)>> \o queue
          /\ line' = Append(line, Head(batch))
          /\ batch' = Tail(batch)
          /\ UNCHANGED <<worker, faults>>
       \/ BootGivesUp
    /\ UNCHANGED <<tables, req, draining, steam>>

\* SIGTERM: no new requests, and the worker's context ends.
Signal ==
    /\ ~Booting /\ ~draining /\ Fault
    /\ draining' = TRUE
    /\ UNCHANGED <<tables, queue, worker, batch, req, steam, line>>

\* The process is gone and starts again; Redis keeps the list, MemStore does not.
Restart ==
    /\ worker' = [Idle EXCEPT !.pc = "query"]
    /\ batch' = <<>>
    /\ req' = [p \in Procs |-> Idle]
    /\ queue' \in {queue, <<>>}
    /\ draining' = FALSE
    /\ UNCHANGED <<tables, steam, line>>

\* After the drain: the worker is between two batches; requests are done, or
\* were given ten seconds.
Exit == draining /\ Working("idle") /\ Restart /\ UNCHANGED faults

Crash == Fault /\ Restart

----------------------------------------------------------------------------
Init ==
    /\ unlocked = {} /\ synced = {} /\ steam = {}
    /\ rows = [i \in Items |-> NoRow]
    /\ queue = <<>> /\ batch = <<>> /\ line = <<>>
    /\ worker = [Idle EXCEPT !.pc = "query"]
    /\ req = [p \in Procs |-> Idle]
    /\ draining = FALSE
    /\ faults = 0

UnlockStep(p) ==
    \/ InsertUnlock(p) \/ UnlockSteam(p) \/ UnlockMark(p)
    \/ PushItem(p) \/ InsertRow(p) \/ UnlockFail(p)

WorkerStep ==
    \/ WorkerTick \/ WorkerPop \/ WorkerSteam \/ WorkerCount
    \/ WorkerMark \/ WorkerResolve \/ WorkerRequeue

BootStep == BootQuery \/ BootDrain \/ BootLoad

Next ==
    \/ \E p \in Procs : UnlockStep(p) \/ \E i \in Items : UnlockCheck(p, i)
    \/ WorkerStep \/ WorkerPanic \/ BootStep
    \/ Signal \/ Exit \/ Crash

Spec == Init /\ [][Next]_vars

(***************************************************************************)
(* The goroutines of requests and worker are scheduled and the worker's    *)
(* ticker fires; a boot goes on.  A drain ends: between two batches select *)
(* chooses among a tick and the end of the context at random (SF).         *)
(* Clients need not unlock anything, and nothing fails because it must.    *)
(***************************************************************************)
FairSpec ==
    /\ Spec
    /\ \A p \in Procs : WF_vars(UnlockStep(p))
    /\ WF_vars(WorkerStep) /\ WF_vars(BootStep) /\ SF_vars(Exit)

----------------------------------------------------------------------------
RowStates == {"absent", "open", "resolved"}
WorkerPCs == {"query", "drain", "load", "idle", "pop", "steam", "count", "mark",
              "resolve", "requeue"}
RequestPCs == {"idle", "insert", "steam", "mark", "push", "row"}

\* Every table, list and request is of its type, and no row counts more than
\* MaxRetries attempts (worker.go 184-214).
TypeOK ==
    /\ unlocked \subseteq Items /\ synced \subseteq unlocked /\ steam \subseteq Items
    /\ rows \in [Items -> [count : 0 .. MaxRetries, state : RowStates]]
    /\ queue \in Seq(Items) /\ batch \in Seq(Items) /\ line \in Seq(Items)
    /\ worker \in [pc : WorkerPCs, item : Items \cup {NoItem}]
    /\ req \in [Procs -> [pc : RequestPCs, item : Items \cup {NoItem}]]
    /\ draining \in BOOLEAN /\ faults \in 0 .. MaxFaults

\* The items the worker will still see, in the order it will retry them.
Held == IF worker.item = NoItem THEN <<>> ELSE <<worker.item>>
Waiting == batch \o Held \o Reverse(queue)
InList(i) == Contains(Waiting, i)

\* Requests between the INSERT that unlocked an item and its place in the list.
Unlocking(i) == {p \in Procs : req[p].item = i /\ req[p].pc \in {"steam", "mark", "push"}}
Enqueueing(i) == \E p \in Procs : req[p].item = i /\ req[p].pc \notin {"idle", "insert"}

Copies(i) == Cardinality({k \in DOMAIN Waiting : Waiting[k] = i})

\* However unlocks race and boots follow each other, an item is at most once in
\* the list, in the worker's hands or on its way there (the ON CONFLICT of the
\* INSERT; the drain before the reload, worker.go 76-83).
QueuedOnce ==
    ~Booting => \A i \in Items : Copies(i) + Cardinality(Unlocking(i)) <= 1

\* Retries keep the order in which the items entered the list, although the
\* list is filled at one end while a batch returns to the other: no failed item
\* leapfrogs another (worker.go 148-154).
OldestFirst ==
    ~Booting =>
        \A j, k \in DOMAIN Waiting : \A m, n \in DOMAIN line :
            j < k /\ Waiting[j] = line[m] /\ Waiting[k] = line[n] => m < n

\* A settled row is never retried: dead letters stay out of the list over
\* retries, failures and boots (worker.go 56-58, 200-209).
SettledStaysOut ==
    \A i \in Items : Contains(queue \o batch, i) /\ rows[i].state # "absent" /\ ~Booting
                         => Pending(i)

\* What the tables say of Steam is true: an achievement marked as synced, or a
\* resolved row, is set there, whatever was refused, lost or interrupted.
SteamKnows == \A i \in Items : i \in synced \/ rows[i].state = "resolved" => i \in steam

\* Every item leaves the list: it is synced, dead-lettered or dropped, as long
\* as the server does not fail for ever.
RetriesEnd == \A i \in Items : InList(i) ~> ~InList(i)

\* "Steam failing, the local unlock stays, and retries from the queue make it
\* eventually consistent" (Goal/01_systems.md:260): an unlock that is not
\* synced is being unlocked, waits for a retry, or is a dead letter.
UnsyncedIsRetried ==
    \A i \in unlocked \ synced : Enqueueing(i) \/ InList(i) \/ DeadLetter(i)
=============================================================================
