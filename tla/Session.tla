------------------------------ MODULE Session ------------------------------
(***************************************************************************)
(* The sessions of one player (internal/auth: login, refresh, logout) at   *)
(* the granularity of single key-value store calls.  Every handler is a    *)
(* sequence of such calls and other handlers run between any two of them;  *)
(* only a call is atomic.  The code serialises the part that replaces the  *)
(* session by a lock key with a ttl, and refreshes by another.             *)
(*                                                                         *)
(* A login or refresh creates one jti and one refresh token; both are      *)
(* named here by the same number, its session.  Every call may fail, a     *)
(* write with or without its effect on the store (a lost reply); where the *)
(* code ignores the error (reads of session:current, deletes) the handler  *)
(* goes on.  MaxFaults bounds these failures and the crashes.  A restart   *)
(* keeps the keys of Redis and loses those of MemStore (StoreSurvives).    *)
(***************************************************************************)
EXTENDS Integers

CONSTANTS Procs,         \* request goroutines
          Kinds,         \* the requests clients send in this instance
          Tickets,       \* Steam tickets
          MaxSessions,   \* bound: sessions ever created
          MaxFaults,     \* bound: calls that fail, and crashes
          SlowHolders,   \* may a lock's ttl run out while its holder runs?
          StoreSurvives  \* are the keys kept when the process dies?

ASSUME SessionAssumption ==
    /\ Kinds \subseteq {"login", "refresh", "logout"}
    /\ MaxSessions \in Nat /\ MaxFaults \in Nat
    /\ SlowHolders \in BOOLEAN
    /\ StoreSurvives \in BOOLEAN

None == 0
Sessions == 1 .. MaxSessions

VARIABLES
    live,        \* sessions whose session:<jti> exists
    current,     \* session:current:<player>, or None
    lock,        \* does session:lock:<player> exist
    refresh,     \* refresh:<player>, or None
    lookup,      \* sessions whose refresh_lookup:<token> exists
    rlock,       \* does refresh_lock:<player> exist
    rcool,       \* does refresh_cooldown:<player> exist
    used,        \* tickets whose ticket:used:<hash> exists
    created,     \* sessions created so far
    req,         \* where each request is
    faults,      \* calls that have failed, and crashes
    \* History, read by no handler except through what clients hold.
    delivered,   \* sessions answered with 200: their tokens are with a client
    logins,      \* answered logins per ticket
    heirs,       \* answered refreshes per refresh token
    spared       \* live sessions whose eviction an ignored error skipped, or
                 \* whose pointer another session's logout deleted

session  == <<live, current, lock>>
tokens   == <<refresh, lookup>>
guards   == <<rlock, rcool>>
clients  == <<delivered, logins, heirs>>
vars     == <<session, tokens, guards, used, created, req, faults, clients, spared>>

----------------------------------------------------------------------------
Idle == [pc |-> "idle", kind |-> "none", ticket |-> "none", tok |-> None,
         id |-> None, old |-> None, ok |-> TRUE]

At(p, pc) == req[p].pc = pc
Goto(p, pc) == req' = [req EXCEPT ![p].pc = pc]
Done(p) == req' = [req EXCEPT ![p] = Idle]
Fresh == created + 1

\* A call has its effect, or fails with an error.
Fault == faults < MaxFaults /\ faults' = faults + 1
Call(effect, error) == (effect /\ UNCHANGED faults) \/ (error /\ Fault)

\* What runs last when a handler gives up: the deferred releaseTicket of a
\* login, the deferred releaseRefreshLock of a refresh.
Failure(kind) == IF kind = "login" THEN "release" ELSE "runlock"

\* The answer of a write: the handler goes on, or its reply is lost.
Reply(p, pc) == Call(Goto(p, pc), Goto(p, Failure(req[p].kind)))

\* The same inside enforceSingleSession, whose deferred Del comes first.
ReplyLocked(p, pc) ==
    Call(Goto(p, pc), req' = [req EXCEPT ![p].pc = "unlock", ![p].ok = FALSE])

----------------------------------------------------------------------------
(* AuthSteam *)
\* claimTicket: SET NX.  A used ticket is refused, which changes nothing.
ClaimTicket(p, t) ==
    /\ At(p, "idle") /\ "login" \in Kinds
    /\ t \notin used
    /\ used' = used \cup {t}
    /\ Call(req' = [req EXCEPT ![p] = [Idle EXCEPT !.pc = "verify", !.kind = "login",
                                                   !.ticket = t]],
            UNCHANGED req)    \* 503: the deferred release is not yet installed
    /\ UNCHANGED <<session, tokens, guards, created, clients, spared>>

\* Variant: the identifiers are not fresh.
VerifyReusing(p) ==
    /\ At(p, "verify") /\ created < MaxSessions
    /\ req' = [req EXCEPT ![p].pc = "lock", ![p].id = Fresh]
    /\ UNCHANGED <<faults, session, tokens, guards, used, created, clients, spared>>

\* Steam, the player's rows and the login streak; then a jti.
VerifyTicket(p) ==
    /\ At(p, "verify") /\ created < MaxSessions
    /\ created' = Fresh
    /\ req' = [req EXCEPT ![p].pc = "lock", ![p].id = Fresh]
    /\ UNCHANGED <<faults, session, tokens, guards, used, clients, spared>>

\* Variant: the success flag is not set, so the deferred release runs.
AnswerReleasing(p) ==
    /\ At(p, "anchor")
    /\ delivered' = delivered \cup {req[p].id}
    /\ logins' = [logins EXCEPT ![req[p].ticket] = @ + 1]
    /\ Goto(p, "release")
    /\ UNCHANGED <<faults, session, tokens, guards, used, created, heirs, spared>>

\* resetAccrualAnchor (its effect is in Economy), then the answer.
AnswerLogin(p) ==
    /\ At(p, "anchor")
    /\ delivered' = delivered \cup {req[p].id}
    /\ logins' = [logins EXCEPT ![req[p].ticket] = @ + 1]
    /\ Done(p)
    /\ UNCHANGED <<faults, session, tokens, guards, used, created, heirs, spared>>

\* releaseTicket, deferred unless the login succeeded; it may fail unnoticed.
ReleaseTicket(p) ==
    /\ At(p, "release")
    /\ Call(used' = used \ {req[p].ticket}, UNCHANGED used)
    /\ Done(p)
    /\ UNCHANGED <<session, tokens, guards, created, clients, spared>>

----------------------------------------------------------------------------
(* enforceSingleSession, called by logins and refreshes. *)
\* Variant: the answer of SET NX is not looked at.
LockSessionAnyway(p) ==
    /\ At(p, "lock")
    /\ lock' = TRUE
    /\ Goto(p, "current")
    /\ UNCHANGED <<faults, live, current, tokens, guards, used, created, clients, spared>>

\* ErrSessionInFlight when the lock is held; a lost reply leaves it held.
LockSession(p) ==
    /\ At(p, "lock")
    /\ lock' = TRUE
    /\ IF lock THEN Goto(p, Failure(req[p].kind)) /\ UNCHANGED faults
               ELSE Reply(p, "current")
    /\ UNCHANGED <<live, current, tokens, guards, used, created, clients, spared>>

\* Any error of Get is taken for "no session": nothing is evicted.
ReadCurrent(p) ==
    /\ At(p, "current")
    /\ \E seen \in {current, None} :
           /\ Call(seen = current, seen # current)
           /\ req' = [req EXCEPT ![p].old = seen,
                                 ![p].pc = IF seen = None THEN "set" ELSE "evict"]
           /\ spared' = spared \cup (({current} \ {seen}) \cap live)
    /\ UNCHANGED <<session, tokens, guards, used, created, clients>>

\* The error of Del is not looked at.
EvictOld(p) ==
    /\ At(p, "evict")
    /\ Call(live' = live \ {req[p].old} /\ UNCHANGED spared,
            spared' = spared \cup ({req[p].old} \cap live) /\ UNCHANGED live)
    /\ Goto(p, "set")
    /\ UNCHANGED <<current, lock, tokens, guards, used, created, clients>>

SetSession(p) ==
    /\ At(p, "set")
    /\ live' = live \cup {req[p].id}
    /\ ReplyLocked(p, "point")
    /\ UNCHANGED <<current, lock, tokens, guards, used, created, clients, spared>>

SetCurrent(p) ==
    /\ At(p, "point")
    /\ current' = req[p].id
    /\ ReplyLocked(p, "unlock")
    /\ UNCHANGED <<live, lock, tokens, guards, used, created, clients, spared>>

\* The deferred Del: it removes the key, whoever set it, or fails unnoticed.
UnlockSession(p) ==
    /\ At(p, "unlock")
    /\ Call(lock' = FALSE, UNCHANGED lock)
    /\ Goto(p, IF ~req[p].ok THEN Failure(req[p].kind)
               ELSE IF req[p].kind = "login" THEN "store" ELSE "cool")
    /\ UNCHANGED <<live, current, tokens, guards, used, created, clients, spared>>

----------------------------------------------------------------------------
(* storeRefreshToken, called by logins and refreshes. *)
StoreToken(p) ==
    /\ At(p, "store")
    /\ refresh' = req[p].id
    /\ Reply(p, "index")
    /\ UNCHANGED <<session, lookup, guards, used, created, clients, spared>>

StoreLookup(p) ==
    /\ At(p, "index")
    /\ lookup' = lookup \cup {req[p].id}
    /\ Reply(p, IF req[p].kind = "login" THEN "anchor" ELSE "drop")
    /\ UNCHANGED <<session, refresh, guards, used, created, clients, spared>>

----------------------------------------------------------------------------
(* AuthRefresh *)
\* lookupRefreshToken; an unknown token is refused, which changes nothing.
LookupToken(p, tok) ==
    /\ At(p, "idle") /\ "refresh" \in Kinds
    /\ tok \in delivered \cap lookup
    /\ req' = [req EXCEPT ![p] = [Idle EXCEPT !.pc = "rlock", !.kind = "refresh", !.tok = tok]]
    /\ UNCHANGED <<faults, session, tokens, guards, used, created, clients, spared>>

LockRefresh(p) ==
    /\ At(p, "rlock")
    /\ rlock' = TRUE
    /\ IF rlock THEN Done(p) /\ UNCHANGED faults
                ELSE Call(Goto(p, "cooling"), Done(p))    \* 503: nothing is deferred yet
    /\ UNCHANGED <<session, tokens, rcool, used, created, clients, spared>>

CheckCooling(p) ==
    /\ At(p, "cooling")
    /\ Goto(p, IF rcool THEN "runlock" ELSE "stored")
    /\ UNCHANGED <<faults, session, tokens, guards, used, created, clients, spared>>

\* Variant: any stored token will do.
CompareNothing(p) ==
    /\ At(p, "stored") /\ created < MaxSessions
    /\ created' = Fresh
    /\ req' = [req EXCEPT ![p].pc = "lock", ![p].id = Fresh]
    /\ UNCHANGED <<faults, session, tokens, guards, used, clients, spared>>

\* getStoredRefreshToken, the comparison, and a new jti.
CompareStored(p) ==
    /\ At(p, "stored")
    /\ IF refresh = req[p].tok
       THEN /\ created < MaxSessions
            /\ created' = Fresh
            /\ req' = [req EXCEPT ![p].pc = "lock", ![p].id = Fresh]
       ELSE Goto(p, "runlock") /\ UNCHANGED created
    /\ UNCHANGED <<faults, session, tokens, guards, used, clients, spared>>

\* setRefreshCooldown: a failure is logged and does not matter.
SetCooling(p) ==
    /\ At(p, "cool")
    /\ Call(rcool' = TRUE, UNCHANGED rcool)
    /\ Goto(p, "store")
    /\ UNCHANGED <<session, tokens, rlock, used, created, clients, spared>>

\* invalidateRefreshLookup, which may fail unnoticed, then the answer.
AnswerRefresh(p) ==
    /\ At(p, "drop")
    /\ Call(lookup' = lookup \ {req[p].tok}, UNCHANGED lookup)
    /\ delivered' = delivered \cup {req[p].id}
    /\ heirs' = [heirs EXCEPT ![req[p].tok] = @ + 1]
    /\ Goto(p, "runlock")
    /\ UNCHANGED <<session, refresh, guards, used, created, logins, spared>>

UnlockRefresh(p) ==
    /\ At(p, "runlock")
    /\ Call(rlock' = FALSE, UNCHANGED rlock)
    /\ Done(p)
    /\ UNCHANGED <<session, tokens, rcool, used, created, clients, spared>>

----------------------------------------------------------------------------
(* AuthLogout: the signature of the JWT is checked, its session is not. *)
\* An error of Get reads as no pointer.
LogoutRead(p, id) ==
    /\ At(p, "idle") /\ "logout" \in Kinds
    /\ id \in delivered
    /\ \E seen \in {current, None} :
           /\ Call(seen = current, seen # current)
           /\ req' = [req EXCEPT ![p] = [Idle EXCEPT !.pc = "logout", !.kind = "logout",
                                                     !.id = id, !.old = seen]]
    /\ UNCHANGED <<session, tokens, guards, used, created, clients, spared>>

\* One Del of three keys, or of one, as the pointer was when it was read; the
\* answer is 200 even when the Del fails.
LogoutDelete(p) ==
    /\ At(p, "logout")
    /\ Call(/\ live' = live \ {req[p].id}
            /\ IF req[p].old = req[p].id
               THEN /\ current' = None /\ refresh' = None
                    /\ spared' = spared \cup ({current} \cap live')
               ELSE UNCHANGED <<current, refresh, spared>>,
            UNCHANGED <<live, current, refresh, spared>>)
    /\ Done(p)
    /\ UNCHANGED <<lock, lookup, guards, used, created, clients>>

----------------------------------------------------------------------------
(* A step that fails before its call has any effect.  Those before a new
   session is created are not counted: Steam refuses a ticket without failing,
   and at MaxSessions the request has to end. *)
Fail(p) ==
    /\ IF req[p].pc \in {"verify", "stored"} THEN UNCHANGED faults ELSE Fault
    /\ \/ /\ req[p].pc \in {"verify", "lock", "store", "index", "anchor",
                            "cooling", "stored"}
          /\ Goto(p, Failure(req[p].kind))
       \/ /\ req[p].pc \in {"set", "point"}
          /\ req' = [req EXCEPT ![p].pc = "unlock", ![p].ok = FALSE]
       \/ At(p, "rlock") /\ Done(p)
    /\ UNCHANGED <<session, tokens, guards, used, created, clients, spared>>

(* Environment. *)
InSession == {"current", "evict", "set", "point", "unlock"}
InRefresh == {"cooling", "stored", "lock", "cool", "store", "index", "drop", "runlock"}
                 \cup InSession

\* Variant: SET NX without a ttl.
NeverExpires == FALSE

\* A ttl runs out: of a lock nobody holds any more (its handler died, or never
\* learnt that it had it), or of one that is held for too long.
ExpireLock ==
    /\ lock /\ lock' = FALSE
    /\ SlowHolders \/ \A p \in Procs : req[p].pc \notin InSession
    /\ UNCHANGED <<faults, live, current, tokens, guards, used, created, req, clients, spared>>

ExpireRefreshLock ==
    /\ rlock /\ rlock' = FALSE
    /\ \/ SlowHolders
       \/ \A p \in Procs : ~(req[p].kind = "refresh" /\ req[p].pc \in InRefresh)
    /\ UNCHANGED <<faults, session, tokens, rcool, used, created, req, clients, spared>>

ExpireCooling ==
    /\ rcool /\ rcool' = FALSE
    /\ UNCHANGED <<faults, session, tokens, rlock, used, created, req, clients, spared>>

\* The process dies, no deferred call runs.
Crash ==
    /\ Fault
    /\ req' = [p \in Procs |-> Idle]
    /\ IF StoreSurvives
       THEN UNCHANGED <<session, tokens, guards, used>>
       ELSE /\ live' = {} /\ current' = None /\ lock' = FALSE
            /\ refresh' = None /\ lookup' = {}
            /\ rlock' = FALSE /\ rcool' = FALSE
            /\ used' = {}
    /\ UNCHANGED <<created, clients, spared>>

----------------------------------------------------------------------------
Init ==
    /\ live = {} /\ current = None /\ lock = FALSE
    /\ refresh = None /\ lookup = {}
    /\ rlock = FALSE /\ rcool = FALSE
    /\ used = {} /\ created = 0 /\ faults = 0
    /\ req = [p \in Procs |-> Idle]
    /\ delivered = {}
    /\ logins = [t \in Tickets |-> 0] /\ heirs = [s \in Sessions |-> 0]
    /\ spared = {}

LoginStep(p) ==
    \/ \E t \in Tickets : ClaimTicket(p, t)
    \/ VerifyTicket(p) \/ AnswerLogin(p) \/ ReleaseTicket(p)

EnforceStep(p) ==
    \/ LockSession(p) \/ ReadCurrent(p) \/ EvictOld(p)
    \/ SetSession(p) \/ SetCurrent(p) \/ UnlockSession(p)
    \/ StoreToken(p) \/ StoreLookup(p)

RefreshStep(p) ==
    \/ \E tok \in Sessions : LookupToken(p, tok)
    \/ LockRefresh(p) \/ CheckCooling(p) \/ CompareStored(p) \/ SetCooling(p)
    \/ AnswerRefresh(p) \/ UnlockRefresh(p)

LogoutStep(p) ==
    \/ \E id \in Sessions : LogoutRead(p, id)
    \/ LogoutDelete(p)

HandlerStep(p) ==
    LoginStep(p) \/ EnforceStep(p) \/ RefreshStep(p) \/ LogoutStep(p) \/ Fail(p)

Expire == ExpireLock \/ ExpireRefreshLock \/ ExpireCooling

Next == (\E p \in Procs : HandlerStep(p)) \/ Expire \/ Crash

Spec == Init /\ [][Next]_vars

(***************************************************************************)
(* A running handler keeps running (goroutines are scheduled, no step      *)
(* waits), and a ttl that may run out does.  Nothing makes clients send    *)
(* requests, or the process die.                                           *)
(***************************************************************************)
FairSpec ==
    /\ Spec
    /\ \A p \in Procs : WF_vars(~At(p, "idle") /\ HandlerStep(p))
    /\ WF_vars(ExpireLock) /\ WF_vars(ExpireRefreshLock)

----------------------------------------------------------------------------
PCs == {"idle", "verify", "anchor", "release", "lock", "store", "rlock", "logout"}
           \cup InRefresh

\* JWTAuth: of the tokens clients were given, those whose session:<jti> exists.
Accepted == live \cap delivered

\* Every key and request holds a value of its type; nothing refers to a session
\* that was not created.
TypeOK ==
    /\ created \in 0 .. MaxSessions /\ faults \in 0 .. MaxFaults
    /\ live \subseteq 1 .. created /\ lookup \subseteq 1 .. created
    /\ current \in 0 .. created /\ refresh \in 0 .. created
    /\ lock \in BOOLEAN /\ rlock \in BOOLEAN /\ rcool \in BOOLEAN
    /\ used \subseteq Tickets
    /\ req \in [Procs -> [pc : PCs, kind : {"none", "login", "refresh", "logout"},
                          ticket : Tickets \cup {"none"}, tok : 0 .. created,
                          id : 0 .. created, old : 0 .. created, ok : BOOLEAN]]
    /\ delivered \subseteq 1 .. created
    /\ logins \in [Tickets -> Nat] /\ heirs \in [Sessions -> Nat]
    /\ spared \subseteq 1 .. created

\* Of the tokens clients were given, only the one session:current names is
\* accepted, however logins, refreshes and logouts interleave, fail or die half
\* way; besides it only sessions spared: those a login or refresh left live on
\* its way to a new one because it ignored an error of Get or Del
\* (session.go:39-42), and those whose pointer another session's logout deleted.
OneLiveSession == Accepted \ spared \subseteq {current}

\* A ticket logs in once (ticket:used, claimed with SET NX and released by
\* failed logins), whatever is retried or raced with it.
TicketUsedOnce == \A t \in Tickets : logins[t] <= 1

\* A refresh token is exchanged once (refresh.go:19-20): concurrent refreshes,
\* retries after a lost reply and logins in between never honour it again.
RefreshTokenSpentOnce == \A tok \in Sessions : heirs[tok] <= 1

\* Neither lock keeps the player out for good, even when its holder died or
\* never learnt that it had it (the ttl of SET NX).
LocksFreed == []<>~lock /\ []<>~rlock

\* A logout that finds another session in place leaves it alone
\* (Goal/02_database.md:160-170, "protect the new session").
LogoutSparesNewSession ==
    [][current' = None /\ current # None =>
         \E p \in Procs : At(p, "logout") /\ req[p].id = current]_vars
=============================================================================
