--------------------------- MODULE SessionProofs ---------------------------
(***************************************************************************)
(* What holds of the sessions for any number of requests, tickets and      *)
(* sessions.  A ticket is used once wherever its key outlives the process; *)
(* a refresh token is spent once, and the pointer names the only live      *)
(* session but those spared, wherever the holders of both locks are faster *)
(* than the ttl of the lock.                                               *)
(***************************************************************************)
EXTENDS Session, TLAPS

\* Where a request has taken its session number but not finished with it.
Tail == {"cool", "store", "index", "drop", "anchor"}
Owning == {"lock", "cool", "store", "index", "drop", "anchor"} \cup InSession

\* What a request is doing says which handler runs it, and whether it has a
\* session number.
Kindly(r) ==
    /\ r.pc = "idle" => r.kind = "none"
    /\ r.pc = "logout" => r.kind = "logout"
    /\ r.pc \in {"verify", "anchor", "release"} => r.kind = "login"
    /\ r.pc \in {"rlock", "cooling", "stored", "cool", "drop", "runlock"}
           => r.kind = "refresh"
    /\ r.pc \in {"lock", "store", "index"} \cup InSession => r.kind \in {"login", "refresh"}
    /\ r.pc \in Owning => r.id # None

KindInv == \A p \in Procs : Kindly(req[p])

\* Session numbers are not shared, and a client knows one only when the request
\* that owned it has answered.
IdInv ==
    \A p \in Procs : req[p].pc \in Owning =>
        /\ req[p].id \notin delivered
        /\ \A q \in Procs : req[q].pc \in Owning /\ req[q].id = req[p].id => q = p

\* A login at work has its ticket to itself, and nobody logged in with it.
TicketInv ==
    /\ \A p \in Procs : req[p].kind = "login" =>
           /\ req[p].ticket \in used /\ logins[req[p].ticket] = 0
           /\ \A q \in Procs : req[q].kind = "login" /\ req[q].ticket = req[p].ticket
                                   => q = p
    /\ \A t \in Tickets : logins[t] > 0 => t \in used

\* A refresh past its lock is alone, and exchanges a token nobody exchanged; what
\* was exchanged is never the stored token again.
Exchanging(p) == req[p].kind = "refresh" /\ req[p].pc # "rlock"

RefreshInv ==
    /\ \A p \in Procs : req[p].kind = "refresh" => req[p].tok \in delivered
    /\ \A p \in Procs : Exchanging(p) =>
           rlock /\ \A q \in Procs : Exchanging(q) => q = p
    /\ \A p \in Procs : req[p].kind = "refresh" /\ req[p].pc \in Owning =>
           heirs[req[p].tok] = 0
    /\ \A p \in Procs : req[p].kind = "refresh" /\ req[p].pc \in {"index", "drop"} =>
           refresh # req[p].tok
    /\ \A s \in Sessions : heirs[s] > 0 => s \in delivered /\ refresh # s

\* The holder of the session lock is alone.
LockInv ==
    \A p \in Procs : req[p].pc \in InSession =>
        lock /\ \A q \in Procs : req[q].pc \in InSession => q = p

\* Sessions whose tokens are with a client, or will be unless something fails.
Promises(r) == r.pc \in Tail \/ (r.pc = "unlock" /\ r.ok)

Promised == delivered \cup {req[p].id : p \in {q \in Procs : Promises(req[q])}}

\* The pointer names the only live session anybody was promised, but for those
\* spared; the holder of the lock has none left alive while it writes its own.
PointerInv ==
    \A s \in (live \cap Promised) \ spared :
        /\ s = current
        /\ \A p \in Procs : /\ req[p].pc = "evict" => req[p].old = s
                           /\ req[p].pc \notin {"set", "point"}

----------------------------------------------------------------------------
(* What a step does to the records of the requests. *)
\* The records when n sessions have been created.
Requests(n) == [pc : PCs, kind : {"none", "login", "refresh", "logout"},
                ticket : Tickets \cup {"none"}, tok : 0 .. n, id : 0 .. n, old : 0 .. n,
                ok : BOOLEAN]

LEMMA Named ==
    {"idle", "verify", "anchor", "release", "lock", "store", "rlock", "logout", "cooling",
     "stored", "cool", "index", "drop", "runlock", "current", "evict", "set", "point",
     "unlock"} = PCs
  BY DEF PCs, InRefresh, InSession

LEMMA IdleTyped == \A n \in Nat : Idle \in Requests(n)
  BY DEF Idle, Requests, None, PCs

LEMMA Idles ==
    /\ Idle.pc = "idle" /\ Idle.kind = "none" /\ Idle.id = None /\ Idle.tok = None
  BY DEF Idle

LEMMA Typed ==
    ASSUME TypeOK
    PROVE  /\ created \in Nat /\ created <= created
           /\ req \in [Procs -> Requests(created)]
           /\ \A p \in Procs : req[p] \in Requests(created)
  BY SessionAssumption DEF TypeOK, Requests

LEMMA Frames ==
    /\ UNCHANGED session <=> live' = live /\ current' = current /\ lock' = lock
    /\ UNCHANGED tokens <=> refresh' = refresh /\ lookup' = lookup
    /\ UNCHANGED guards <=> rlock' = rlock /\ rcool' = rcool
    /\ UNCHANGED clients <=> delivered' = delivered /\ logins' = logins /\ heirs' = heirs
  BY DEF session, tokens, guards, clients

\* A request that moves on keeps all but its place.
LEMMA GotoMoves ==
    ASSUME TypeOK, NEW p \in Procs, NEW pc \in PCs, Goto(p, pc)
    PROVE  /\ \A q \in Procs \ {p} : req'[q] = req[q]
           /\ req'[p].pc = pc /\ req'[p].kind = req[p].kind
           /\ req'[p].ticket = req[p].ticket /\ req'[p].tok = req[p].tok
           /\ req'[p].id = req[p].id /\ req'[p].old = req[p].old /\ req'[p].ok = req[p].ok
           /\ req' \in [Procs -> Requests(created)]
  BY DEF TypeOK, Goto, Requests

\* So does one that gives up under the session lock, or has read the pointer.
LEMMA GiveUpMoves ==
    ASSUME TypeOK, NEW p \in Procs, req' = [req EXCEPT ![p].pc = "unlock", ![p].ok = FALSE]
    PROVE  /\ \A q \in Procs \ {p} : req'[q] = req[q]
           /\ req'[p].pc = "unlock" /\ req'[p].kind = req[p].kind
           /\ req'[p].ticket = req[p].ticket /\ req'[p].tok = req[p].tok
           /\ req'[p].id = req[p].id /\ req'[p].old = req[p].old /\ ~req'[p].ok
           /\ req' \in [Procs -> Requests(created)]
  <1> DEFINE r == [req[p] EXCEPT !.pc = "unlock", !.ok = FALSE]
  <1>1. req' = [req EXCEPT ![p] = r]
    BY Typed
  <1>2. r \in Requests(created)
    BY Typed, Named DEF Requests
  <1>3. req' \in [Procs -> Requests(created)]
    BY <1>1, <1>2, Typed
  <1> QED
    BY <1>1, <1>3, Typed DEF Requests

LEMMA ReadMoves ==
    ASSUME TypeOK, NEW p \in Procs, NEW pc \in PCs, NEW seen \in {current, None},
           req' = [req EXCEPT ![p].old = seen, ![p].pc = pc]
    PROVE  /\ \A q \in Procs \ {p} : req'[q] = req[q]
           /\ req'[p].pc = pc /\ req'[p].kind = req[p].kind
           /\ req'[p].ticket = req[p].ticket /\ req'[p].tok = req[p].tok
           /\ req'[p].id = req[p].id /\ req'[p].old = seen /\ req'[p].ok = req[p].ok
           /\ req' \in [Procs -> Requests(created)]
  <1> DEFINE r == [req[p] EXCEPT !.old = seen, !.pc = pc]
  <1>1. req' = [req EXCEPT ![p] = r]
    BY Typed
  <1>2. seen \in 0 .. created
    BY Typed DEF TypeOK, None
  <1>3. r \in Requests(created)
    BY <1>2, Typed DEF Requests
  <1>4. req' \in [Procs -> Requests(created)]
    BY <1>1, <1>3, Typed
  <1> QED
    BY <1>1, <1>4, Typed DEF Requests

\* A new session number is one more than those given out.
LEMMA NumberMoves ==
    ASSUME TypeOK, NEW p \in Procs, created < MaxSessions, created' = Fresh,
           req' = [req EXCEPT ![p].pc = "lock", ![p].id = Fresh]
    PROVE  /\ \A q \in Procs \ {p} : req'[q] = req[q]
           /\ req'[p].pc = "lock" /\ req'[p].kind = req[p].kind
           /\ req'[p].ticket = req[p].ticket /\ req'[p].tok = req[p].tok
           /\ req'[p].id = created + 1 /\ req'[p].old = req[p].old /\ req'[p].ok = req[p].ok
           /\ req' \in [Procs -> Requests(created')]
           /\ created' = created + 1 /\ created' \in 0 .. MaxSessions
  <1>1. created \in Nat /\ created' = created + 1 /\ created' \in 0 .. MaxSessions
    BY SessionAssumption DEF TypeOK, Fresh
  <1>2. ASSUME NEW x \in Requests(created) PROVE x \in Requests(created')
    BY <1>1 DEF Requests
  <1>3. [req[p] EXCEPT !.pc = "lock", !.id = Fresh] \in Requests(created')
    BY <1>1, <1>2, Typed, Named DEF Requests, Fresh
  <1>4. req' \in [Procs -> Requests(created')]
    BY <1>2, <1>3, Typed
  <1> QED
    BY <1>1, <1>4, Typed DEF Fresh, Requests

\* A request that ends or starts gets a record of its own.
LEMMA RecordMoves ==
    ASSUME TypeOK, NEW p \in Procs, NEW r \in Requests(created), req' = [req EXCEPT ![p] = r]
    PROVE  /\ \A q \in Procs \ {p} : req'[q] = req[q]
           /\ req'[p] = r
           /\ req' \in [Procs -> Requests(created)]
  BY Typed

LEMMA DoneMoves ==
    ASSUME TypeOK, NEW p \in Procs, Done(p)
    PROVE  /\ \A q \in Procs \ {p} : req'[q] = req[q]
           /\ req'[p] = Idle
           /\ req' \in [Procs -> Requests(created)]
  BY IdleTyped, RecordMoves, Typed DEF Done

----------------------------------------------------------------------------
(* Each action, variable by variable. *)
\* Only the record of request p changes; of it, all but its place (Turns), or
\* all that names what it works for (Keeps).
Alone(p) == /\ req' \in [Procs -> Requests(created')]
            /\ \A q \in Procs \ {p} : req'[q] = req[q]
Keeps(p) == /\ req'[p].kind = req[p].kind /\ req'[p].ticket = req[p].ticket
            /\ req'[p].tok = req[p].tok /\ req'[p].id = req[p].id
Turns(p) == Keeps(p) /\ req'[p].old = req[p].old /\ req'[p].ok = req[p].ok

\* The request takes a new session number to the session lock.
Number(p) == /\ req'[p].pc = "lock" /\ req'[p].id = created + 1
             /\ req'[p].kind = req[p].kind /\ req'[p].ticket = req[p].ticket
             /\ req'[p].tok = req[p].tok /\ req'[p].old = req[p].old
             /\ req'[p].ok = req[p].ok
             /\ created' = created + 1 /\ created' \in 0 .. MaxSessions

LEMMA ClaimTicketDoes ==
    ASSUME TypeOK, NEW p \in Procs, NEW t \in Tickets, ClaimTicket(p, t)
    PROVE  /\ req[p].pc = "idle" /\ t \notin used
           /\ Alone(p)
           /\ \/ req' = req
              \/ req'[p] = [Idle EXCEPT !.pc = "verify", !.kind = "login", !.ticket = t]
           /\ used' = used \cup {t}
           /\ UNCHANGED <<live, current, lock, refresh, lookup, rlock, rcool, created,
                        delivered, logins, heirs, spared>>
  <1> DEFINE r == [Idle EXCEPT !.pc = "verify", !.kind = "login", !.ticket = t]
  <1>1. created \in Nat
    BY Typed
  <1>2. r \in Requests(created)
    BY <1>1, Typed, IdleTyped, Named DEF Requests, Idle, None
  <1>3. req' = [req EXCEPT ![p] = r] \/ req' = req
    BY DEF ClaimTicket, Call
  <1>4. Alone(p) /\ (req'[p] = r \/ req' = req)
    BY <1>2, <1>3, Typed, RecordMoves DEF ClaimTicket, Call, Alone
  <1> QED
    BY <1>4, Frames DEF ClaimTicket, Call, At

LEMMA VerifyTicketDoes ==
    ASSUME TypeOK, NEW p \in Procs, VerifyTicket(p)
    PROVE  /\ req[p].pc = "verify"
           /\ Alone(p)
           /\ Number(p)
           /\ UNCHANGED <<live, current, lock, refresh, lookup, rlock, rcool, used,
                        delivered, logins, heirs, spared>>
  BY NumberMoves, Frames, Named
     DEF VerifyTicket, At, Alone, Number

LEMMA AnswerLoginDoes ==
    ASSUME TypeOK, NEW p \in Procs, AnswerLogin(p)
    PROVE  /\ req[p].pc = "anchor"
           /\ Alone(p)
           /\ req'[p] = Idle
           /\ delivered' = delivered \cup {req[p].id}
           /\ logins' = [logins EXCEPT ![req[p].ticket] = @ + 1]
           /\ UNCHANGED <<live, current, lock, refresh, lookup, rlock, rcool, used,
                        created, heirs, spared>>
  BY DoneMoves, Frames, Named
     DEF AnswerLogin, At, Alone

LEMMA ReleaseTicketDoes ==
    ASSUME TypeOK, NEW p \in Procs, ReleaseTicket(p)
    PROVE  /\ req[p].pc = "release"
           /\ Alone(p)
           /\ req'[p] = Idle
           /\ used' \in {used, used \ {req[p].ticket}}
           /\ UNCHANGED <<live, current, lock, refresh, lookup, rlock, rcool, created,
                        delivered, logins, heirs, spared>>
  BY DoneMoves, Frames, Named
     DEF ReleaseTicket, Call, At, Alone

LEMMA LockSessionDoes ==
    ASSUME TypeOK, NEW p \in Procs, LockSession(p)
    PROVE  /\ req[p].pc = "lock"
           /\ Alone(p)
           /\ Turns(p)
           /\ req'[p].pc \in {"current", Failure(req[p].kind)}
           /\ lock => req'[p].pc # "current"
           /\ lock' = TRUE
           /\ UNCHANGED <<live, current, refresh, lookup, rlock, rcool, used, created,
                        delivered, logins, heirs, spared>>
  BY GotoMoves, Frames, Named
     DEF LockSession, Call, At, Alone, Turns, Keeps, Reply, Failure

LEMMA ReadCurrentDoes ==
    ASSUME TypeOK, NEW p \in Procs, ReadCurrent(p)
    PROVE  /\ req[p].pc = "current"
           /\ Alone(p)
           /\ Keeps(p) /\ req'[p].old \in {current, None} /\ req'[p].ok = req[p].ok
           /\ req'[p].pc = IF req'[p].old = None THEN "set" ELSE "evict"
           /\ spared' = spared \cup (({current} \ {req'[p].old}) \cap live)
           /\ UNCHANGED <<live, current, lock, refresh, lookup, rlock, rcool, used,
                        created, delivered, logins, heirs>>
  <1>1. PICK seen \in {current, None} :
            /\ req' = [req EXCEPT ![p].old = seen,
                                  ![p].pc = IF seen = None THEN "set" ELSE "evict"]
            /\ spared' = spared \cup (({current} \ {seen}) \cap live)
    BY DEF ReadCurrent, Call
  <1> DEFINE pc == IF seen = None THEN "set" ELSE "evict"
  <1>2. pc \in PCs
    BY Named
  <1>3. req' = [req EXCEPT ![p].old = seen, ![p].pc = pc]
    BY <1>1
  <1>4. pc = IF seen = None THEN "set" ELSE "evict"
    OBVIOUS
  <1> HIDE DEF pc
  <1>5. /\ \A q \in Procs \ {p} : req'[q] = req[q]
        /\ req'[p].pc = pc /\ req'[p].old = seen /\ req'[p].ok = req[p].ok
        /\ Keeps(p) /\ req' \in [Procs -> Requests(created)]
    BY <1>2, <1>3, ReadMoves DEF Keeps
  <1> QED
    BY <1>1, <1>4, <1>5, Frames DEF ReadCurrent, Call, At, Alone

LEMMA EvictOldDoes ==
    ASSUME TypeOK, NEW p \in Procs, EvictOld(p)
    PROVE  /\ req[p].pc = "evict"
           /\ Alone(p)
           /\ Turns(p)
           /\ req'[p].pc = "set"
           /\ \/ live' = live \ {req[p].old} /\ spared' = spared
              \/ live' = live /\ spared' = spared \cup ({req[p].old} \cap live)
           /\ UNCHANGED <<current, lock, refresh, lookup, rlock, rcool, used, created,
                        delivered, logins, heirs>>
  BY GotoMoves, Frames, Named
     DEF EvictOld, Call, At, Alone, Turns, Keeps

LEMMA SetSessionDoes ==
    ASSUME TypeOK, NEW p \in Procs, SetSession(p)
    PROVE  /\ req[p].pc = "set"
           /\ Alone(p)
           /\ Keeps(p)
           /\ \/ req'[p].pc = "point"
              \/ req'[p].pc = "unlock" /\ ~req'[p].ok
           /\ live' = live \cup {req[p].id}
           /\ UNCHANGED <<current, lock, refresh, lookup, rlock, rcool, used, created,
                        delivered, logins, heirs, spared>>
  BY GiveUpMoves, GotoMoves, Frames, Named
     DEF SetSession, Call, At, Alone, Keeps, ReplyLocked

LEMMA SetCurrentDoes ==
    ASSUME TypeOK, NEW p \in Procs, SetCurrent(p)
    PROVE  /\ req[p].pc = "point"
           /\ Alone(p)
           /\ Keeps(p)
           /\ req'[p].pc = "unlock"
           /\ current' = req[p].id
           /\ UNCHANGED <<live, lock, refresh, lookup, rlock, rcool, used, created,
                        delivered, logins, heirs, spared>>
  BY GiveUpMoves, GotoMoves, Frames, Named
     DEF SetCurrent, Call, At, Alone, Keeps, ReplyLocked

LEMMA UnlockSessionDoes ==
    ASSUME TypeOK, NEW p \in Procs, UnlockSession(p)
    PROVE  /\ req[p].pc = "unlock"
           /\ Alone(p)
           /\ Turns(p)
           /\ req'[p].pc = IF ~req[p].ok THEN Failure(req[p].kind)
                         ELSE IF req[p].kind = "login" THEN "store" ELSE "cool"
           /\ lock' \in {FALSE, lock}
           /\ UNCHANGED <<live, current, refresh, lookup, rlock, rcool, used, created,
                        delivered, logins, heirs, spared>>
  BY GotoMoves, Frames, Named
     DEF UnlockSession, Call, At, Alone, Turns, Keeps, Failure

LEMMA StoreTokenDoes ==
    ASSUME TypeOK, NEW p \in Procs, StoreToken(p)
    PROVE  /\ req[p].pc = "store"
           /\ Alone(p)
           /\ Turns(p)
           /\ req'[p].pc \in {"index", Failure(req[p].kind)}
           /\ refresh' = req[p].id
           /\ UNCHANGED <<live, current, lock, lookup, rlock, rcool, used, created,
                        delivered, logins, heirs, spared>>
  BY GotoMoves, Frames, Named
     DEF StoreToken, Call, At, Alone, Turns, Keeps, Reply, Failure

LEMMA StoreLookupDoes ==
    ASSUME TypeOK, NEW p \in Procs, StoreLookup(p)
    PROVE  /\ req[p].pc = "index"
           /\ Alone(p)
           /\ Turns(p)
           /\ req'[p].pc \in {IF req[p].kind = "login" THEN "anchor" ELSE "drop",
                           Failure(req[p].kind)}
           /\ lookup' = lookup \cup {req[p].id}
           /\ UNCHANGED <<live, current, lock, refresh, rlock, rcool, used, created,
                        delivered, logins, heirs, spared>>
  BY GotoMoves, Frames, Named
     DEF StoreLookup, Call, At, Alone, Turns, Keeps, Reply, Failure

LEMMA LookupTokenDoes ==
    ASSUME TypeOK, NEW p \in Procs, NEW s \in Sessions, LookupToken(p, s)
    PROVE  /\ req[p].pc = "idle" /\ s \in delivered
           /\ Alone(p)
           /\ req'[p] = [Idle EXCEPT !.pc = "rlock", !.kind = "refresh", !.tok = s]
           /\ UNCHANGED <<live, current, lock, refresh, lookup, rlock, rcool, used,
                        created, delivered, logins, heirs, spared>>
  <1> DEFINE r == [Idle EXCEPT !.pc = "rlock", !.kind = "refresh", !.tok = s]
  <1>1. s \in 0 .. created
    BY DEF LookupToken, TypeOK, None
  <1>2. r \in Requests(created)
    BY <1>1, Typed, IdleTyped, Named DEF Requests, Idle, None
  <1>3. req' = [req EXCEPT ![p] = r]
    BY DEF LookupToken
  <1>4. Alone(p) /\ req'[p] = r
    BY <1>2, <1>3, Typed, RecordMoves DEF LookupToken, Alone
  <1> QED
    BY <1>4, Frames DEF LookupToken, At

LEMMA LockRefreshDoes ==
    ASSUME TypeOK, NEW p \in Procs, LockRefresh(p)
    PROVE  /\ req[p].pc = "rlock"
           /\ Alone(p)
           /\ \/ req'[p] = Idle
              \/ ~rlock /\ Turns(p) /\ req'[p].pc = "cooling"
           /\ rlock' = TRUE
           /\ UNCHANGED <<live, current, lock, refresh, lookup, rcool, used, created,
                        delivered, logins, heirs, spared>>
  BY GotoMoves, DoneMoves, Frames, Named
     DEF LockRefresh, Call, At, Alone, Turns, Keeps

LEMMA CheckCoolingDoes ==
    ASSUME TypeOK, NEW p \in Procs, CheckCooling(p)
    PROVE  /\ req[p].pc = "cooling"
           /\ Alone(p)
           /\ Turns(p)
           /\ req'[p].pc \in {"runlock", "stored"}
           /\ UNCHANGED <<live, current, lock, refresh, lookup, rlock, rcool, used,
                        created, delivered, logins, heirs, spared>>
  BY GotoMoves, Frames, Named
     DEF CheckCooling, At, Alone, Turns, Keeps, Failure

LEMMA CompareStoredDoes ==
    ASSUME TypeOK, NEW p \in Procs, CompareStored(p)
    PROVE  /\ req[p].pc = "stored"
           /\ Alone(p)
           /\ \/ Number(p) /\ refresh = req[p].tok
              \/ Turns(p) /\ req'[p].pc = "runlock" /\ created' = created
           /\ UNCHANGED <<live, current, lock, refresh, lookup, rlock, rcool, used,
                        delivered, logins, heirs, spared>>
  BY GotoMoves, NumberMoves, Frames, Named
     DEF CompareStored, At, Alone, Turns, Keeps, Number, Failure

LEMMA SetCoolingDoes ==
    ASSUME TypeOK, NEW p \in Procs, SetCooling(p)
    PROVE  /\ req[p].pc = "cool"
           /\ Alone(p)
           /\ Turns(p)
           /\ req'[p].pc = "store"
           /\ rcool' \in {TRUE, rcool}
           /\ UNCHANGED <<live, current, lock, refresh, lookup, rlock, used, created,
                        delivered, logins, heirs, spared>>
  BY GotoMoves, Frames, Named
     DEF SetCooling, Call, At, Alone, Turns, Keeps

LEMMA AnswerRefreshDoes ==
    ASSUME TypeOK, NEW p \in Procs, AnswerRefresh(p)
    PROVE  /\ req[p].pc = "drop"
           /\ Alone(p)
           /\ Turns(p)
           /\ req'[p].pc = "runlock"
           /\ lookup' \in {lookup, lookup \ {req[p].tok}}
           /\ delivered' = delivered \cup {req[p].id}
           /\ heirs' = [heirs EXCEPT ![req[p].tok] = @ + 1]
           /\ UNCHANGED <<live, current, lock, refresh, rlock, rcool, used, created,
                        logins, spared>>
  BY GotoMoves, Frames, Named
     DEF AnswerRefresh, Call, At, Alone, Turns, Keeps

LEMMA UnlockRefreshDoes ==
    ASSUME TypeOK, NEW p \in Procs, UnlockRefresh(p)
    PROVE  /\ req[p].pc = "runlock"
           /\ Alone(p)
           /\ req'[p] = Idle
           /\ rlock' \in {FALSE, rlock}
           /\ UNCHANGED <<live, current, lock, refresh, lookup, rcool, used, created,
                        delivered, logins, heirs, spared>>
  BY DoneMoves, Frames, Named
     DEF UnlockRefresh, Call, At, Alone

LEMMA LogoutReadDoes ==
    ASSUME TypeOK, NEW p \in Procs, NEW s \in Sessions, LogoutRead(p, s)
    PROVE  /\ req[p].pc = "idle" /\ s \in delivered
           /\ Alone(p)
           /\ req'[p].pc = "logout" /\ req'[p].kind = "logout"
           /\ UNCHANGED <<live, current, lock, refresh, lookup, rlock, rcool, used,
                        created, delivered, logins, heirs, spared>>
  <1> DEFINE r(seen) == [Idle EXCEPT !.pc = "logout", !.kind = "logout", !.id = s,
                                     !.old = seen]
  <1>1. PICK seen \in {current, None} : req' = [req EXCEPT ![p] = r(seen)]
    BY DEF LogoutRead, Call
  <1>2. s \in 0 .. created /\ seen \in 0 .. created
    BY Typed DEF LogoutRead, Call, TypeOK, None
  <1>3. r(seen) \in Requests(created)
    BY <1>2, Typed, IdleTyped, Named DEF Requests, Idle, None
  <1>4. Alone(p) /\ req'[p] = r(seen)
    BY <1>1, <1>3, Typed, RecordMoves DEF LogoutRead, Call, Alone
  <1>5. r(seen).pc = "logout" /\ r(seen).kind = "logout"
    BY DEF Idle
  <1> QED
    BY <1>4, <1>5, Frames DEF LogoutRead, Call, At

LEMMA LogoutDeleteDoes ==
    ASSUME TypeOK, NEW p \in Procs, LogoutDelete(p)
    PROVE  /\ req[p].pc = "logout"
           /\ Alone(p)
           /\ req'[p] = Idle
           /\ live' \in {live, live \ {req[p].id}}
           /\ \/ /\ current' = None /\ refresh' = None
                 /\ spared' = spared \cup ({current} \cap live')
              \/ UNCHANGED <<current, refresh, spared>>
           /\ UNCHANGED <<lock, lookup, rlock, rcool, used, created, delivered,
                        logins, heirs>>
  BY DoneMoves, Frames, Named
     DEF LogoutDelete, Call, At, Alone, None

LEMMA FailDoes ==
    ASSUME TypeOK, NEW p \in Procs, Fail(p)
    PROVE  /\ req[p].pc \in {"verify", "lock", "store", "index", "anchor", "cooling", "stored", "set",
                          "point", "rlock"}
           /\ Alone(p)
           /\ \/ req[p].pc \in {"set", "point"} /\ Keeps(p) /\ req'[p].pc = "unlock" /\ ~req'[p].ok
              \/ req[p].pc = "rlock" /\ req'[p] = Idle
              \/ Turns(p) /\ req[p].pc \notin {"set", "point", "rlock"}
                 /\ req'[p].pc = Failure(req[p].kind)
           /\ UNCHANGED <<live, current, lock, refresh, lookup, rlock, rcool, used,
                        created, delivered, logins, heirs, spared>>
  BY GotoMoves, GiveUpMoves, DoneMoves, Frames, Named
     DEF Fail, At, Alone, Turns, Keeps, Failure

----------------------------------------------------------------------------
(* Type correctness *)
\* The type invariant in parts.
LEMMA TypeParts ==
    ASSUME TypeOK
    PROVE  /\ created \in 0 .. MaxSessions
           /\ live \subseteq 1 .. created /\ lookup \subseteq 1 .. created
           /\ current \in 0 .. created /\ refresh \in 0 .. created
           /\ lock \in BOOLEAN /\ rlock \in BOOLEAN /\ rcool \in BOOLEAN
           /\ used \subseteq Tickets /\ delivered \subseteq 1 .. created
           /\ logins \in [Tickets -> Nat] /\ heirs \in [Sessions -> Nat]
           /\ spared \subseteq 1 .. created
  BY DEF TypeOK

LEMMA FaultsType ==
    ASSUME TypeOK, [Next]_vars
    PROVE  faults' \in 0 .. MaxFaults
  <1>1. faults \in 0 .. MaxFaults /\ MaxFaults \in Nat
    BY SessionAssumption DEF TypeOK
  <1>2. Fault \/ UNCHANGED faults => faults' \in 0 .. MaxFaults
    BY <1>1 DEF Fault
  <1>3. ASSUME NEW p \in Procs, LoginStep(p) \/ LogoutStep(p) \/ Fail(p)
        PROVE  Fault \/ UNCHANGED faults
    BY <1>3 DEF LoginStep, LogoutStep, Fail, ClaimTicket, VerifyTicket, AnswerLogin,
                ReleaseTicket, LogoutRead, LogoutDelete, Call
  <1>4. ASSUME NEW p \in Procs, EnforceStep(p) PROVE Fault \/ UNCHANGED faults
    BY <1>4 DEF EnforceStep, LockSession, ReadCurrent, EvictOld, SetSession, SetCurrent,
                UnlockSession, StoreToken, StoreLookup, Reply, ReplyLocked, Call
  <1>5. ASSUME NEW p \in Procs, RefreshStep(p) PROVE Fault \/ UNCHANGED faults
    BY <1>5 DEF RefreshStep, LookupToken, LockRefresh, CheckCooling, CompareStored,
                SetCooling, AnswerRefresh, UnlockRefresh, Call
  <1>6. CASE Expire \/ Crash
    BY <1>2, <1>6 DEF Expire, ExpireLock, ExpireRefreshLock, ExpireCooling, Crash
  <1>7. CASE UNCHANGED vars
    BY <1>2, <1>7 DEF vars
  <1> QED
    BY <1>2, <1>3, <1>4, <1>5, <1>6, <1>7 DEF Next, HandlerStep

LEMMA TypeWhole ==
    ASSUME created' \in 0 .. MaxSessions, req' \in [Procs -> Requests(created')],
           live' \subseteq 1 .. created', lookup' \subseteq 1 .. created',
           current' \in 0 .. created', refresh' \in 0 .. created',
           lock' \in BOOLEAN, rlock' \in BOOLEAN, rcool' \in BOOLEAN,
           used' \subseteq Tickets, delivered' \subseteq 1 .. created',
           logins' \in [Tickets -> Nat], heirs' \in [Sessions -> Nat],
           spared' \subseteq 1 .. created', faults' \in 0 .. MaxFaults
    PROVE  TypeOK'
  BY DEF TypeOK, Requests

LEMMA InitType == Init => TypeOK /\ KindInv
  <1> SUFFICES ASSUME Init PROVE TypeOK /\ KindInv
    OBVIOUS
  <1>1. created = 0 /\ current = 0 /\ refresh = 0 /\ live = {} /\ lookup = {}
        /\ delivered = {} /\ used = {} /\ lock = FALSE /\ rlock = FALSE
        /\ rcool = FALSE /\ spared = {} /\ faults = 0
    BY DEF Init, None
  <1>2. req \in [Procs -> Requests(created)]
    BY <1>1, IdleTyped DEF Init
  <1>3. logins \in [Tickets -> Nat] /\ heirs \in [Sessions -> Nat]
    BY DEF Init
  <1>4. created \in 0 .. MaxSessions /\ current \in 0 .. created /\ refresh \in 0 .. created
    BY <1>1, SessionAssumption
  <1>5. live \subseteq 1 .. created /\ lookup \subseteq 1 .. created
        /\ delivered \subseteq 1 .. created /\ used \subseteq Tickets
        /\ spared \subseteq 1 .. created
    BY <1>1
  <1>6. lock \in BOOLEAN /\ rlock \in BOOLEAN /\ rcool \in BOOLEAN
    BY <1>1
  <1>9. faults \in 0 .. MaxFaults
    BY <1>1, SessionAssumption
  <1>7. TypeOK
    BY <1>2, <1>3, <1>4, <1>5, <1>6, <1>9, Zenon DEF TypeOK, Requests
  <1>8. KindInv
    BY DEF Init, KindInv, Kindly, Idle, Owning, InSession
  <1> QED
    BY <1>7, <1>8

LEMMA KindStep ==
    ASSUME TypeOK, KindInv, [Next]_vars
    PROVE  KindInv'
  <1> USE DEF Kindly, Owning, InSession, None, Keeps, Turns, Number, Failure, Idle
  <1>0. ASSUME NEW p \in Procs, Alone(p), Kindly(req'[p]) PROVE KindInv'
    BY <1>0 DEF KindInv, Alone
  <1>1. ASSUME NEW p \in Procs, NEW t \in Tickets, ClaimTicket(p, t) PROVE KindInv'
    <2>1. Kindly([Idle EXCEPT !.pc = "verify", !.kind = "login", !.ticket = t])
      BY <1>1, Typed DEF ClaimTicket
    <2>2. Kindly(req[p])
      BY DEF KindInv
    <2> HIDE DEF Kindly, Idle
    <2> QED
      BY <1>1, ClaimTicketDoes, <1>0, <2>1, <2>2
  <1>2. ASSUME NEW p \in Procs, VerifyTicket(p) PROVE KindInv'
    BY <1>2, VerifyTicketDoes, <1>0, Typed DEF KindInv
  <1>3. ASSUME NEW p \in Procs, AnswerLogin(p) PROVE KindInv'
    BY <1>3, AnswerLoginDoes, <1>0, Typed DEF KindInv
  <1>4. ASSUME NEW p \in Procs, ReleaseTicket(p) PROVE KindInv'
    BY <1>4, ReleaseTicketDoes, <1>0, Typed DEF KindInv
  <1>5. ASSUME NEW p \in Procs, LockSession(p) PROVE KindInv'
    <2>1. Kindly(req[p])
      BY DEF KindInv
    <2>2. Kindly(req'[p])
      BY <1>5, LockSessionDoes, <2>1
    <2> QED
      BY <1>5, LockSessionDoes, <1>0, <2>2
  <1>6. ASSUME NEW p \in Procs, ReadCurrent(p) PROVE KindInv'
    BY <1>6, ReadCurrentDoes, <1>0, Typed DEF KindInv
  <1>7. ASSUME NEW p \in Procs, EvictOld(p) PROVE KindInv'
    BY <1>7, EvictOldDoes, <1>0, Typed DEF KindInv
  <1>8. ASSUME NEW p \in Procs, SetSession(p) PROVE KindInv'
    BY <1>8, SetSessionDoes, <1>0, Typed DEF KindInv
  <1>9. ASSUME NEW p \in Procs, SetCurrent(p) PROVE KindInv'
    BY <1>9, SetCurrentDoes, <1>0, Typed DEF KindInv
  <1>10. ASSUME NEW p \in Procs, UnlockSession(p) PROVE KindInv'
    <2>1. Kindly(req[p])
      BY DEF KindInv
    <2>2. Kindly(req'[p])
      BY <1>10, UnlockSessionDoes, <2>1
    <2> QED
      BY <1>10, UnlockSessionDoes, <1>0, <2>2
  <1>11. ASSUME NEW p \in Procs, StoreToken(p) PROVE KindInv'
    BY <1>11, StoreTokenDoes, <1>0, Typed DEF KindInv
  <1>12. ASSUME NEW p \in Procs, StoreLookup(p) PROVE KindInv'
    BY <1>12, StoreLookupDoes, <1>0, Typed DEF KindInv
  <1>13. ASSUME NEW p \in Procs, NEW s \in Sessions, LookupToken(p, s) PROVE KindInv'
    <2>1. Kindly([Idle EXCEPT !.pc = "rlock", !.kind = "refresh", !.tok = s])
      BY <1>13, Typed DEF LookupToken
    <2>2. Kindly(req[p])
      BY DEF KindInv
    <2> HIDE DEF Kindly, Idle
    <2> QED
      BY <1>13, LookupTokenDoes, <1>0, <2>1, <2>2
  <1>14. ASSUME NEW p \in Procs, LockRefresh(p) PROVE KindInv'
    <2>1. Kindly(Idle)
      OBVIOUS
    <2>2. CASE req'[p] = Idle
      BY <1>14, LockRefreshDoes, <1>0, <2>1, <2>2
    <2>3. CASE Turns(p) /\ req'[p].pc = "cooling"
      <3>1. Kindly(req[p])
        BY DEF KindInv
      <3>2. Kindly(req'[p])
        BY <1>14, LockRefreshDoes, <2>3, <3>1
      <3> QED
        BY <1>14, LockRefreshDoes, <1>0, <3>2
    <2> QED
      BY <1>14, LockRefreshDoes, <2>2, <2>3
  <1>15. ASSUME NEW p \in Procs, CheckCooling(p) PROVE KindInv'
    BY <1>15, CheckCoolingDoes, <1>0, Typed DEF KindInv
  <1>16. ASSUME NEW p \in Procs, CompareStored(p) PROVE KindInv'
    BY <1>16, CompareStoredDoes, <1>0, Typed DEF KindInv
  <1>17. ASSUME NEW p \in Procs, SetCooling(p) PROVE KindInv'
    <2>1. Kindly(req[p])
      BY DEF KindInv
    <2>2. Kindly(req'[p])
      BY <1>17, SetCoolingDoes, <2>1
    <2> QED
      BY <1>17, SetCoolingDoes, <1>0, <2>2
  <1>18. ASSUME NEW p \in Procs, AnswerRefresh(p) PROVE KindInv'
    BY <1>18, AnswerRefreshDoes, <1>0, Typed DEF KindInv
  <1>19. ASSUME NEW p \in Procs, UnlockRefresh(p) PROVE KindInv'
    <2>1. Kindly(Idle)
      OBVIOUS
    <2> QED
      BY <1>19, UnlockRefreshDoes, <1>0, <2>1 DEF Alone
  <1>20. ASSUME NEW p \in Procs, NEW s \in Sessions, LogoutRead(p, s) PROVE KindInv'
    BY <1>20, LogoutReadDoes, <1>0
  <1>21. ASSUME NEW p \in Procs, LogoutDelete(p) PROVE KindInv'
    BY <1>21, LogoutDeleteDoes, <1>0, Typed DEF KindInv
  <1>22. ASSUME NEW p \in Procs, Fail(p) PROVE KindInv'
    BY <1>22, FailDoes, <1>0, Typed DEF KindInv
  <1>23. CASE Expire
    BY <1>23, Frames DEF Expire, ExpireLock, ExpireRefreshLock, ExpireCooling, KindInv
  <1>24. CASE Crash
    BY <1>24 DEF Crash, KindInv
  <1>25. CASE UNCHANGED vars
    BY <1>25, Frames DEF vars, KindInv
  <1> QED
    BY <1>1, <1>2, <1>3, <1>4, <1>5, <1>6, <1>7, <1>8, <1>9, <1>10, <1>11,
       <1>12, <1>13, <1>14, <1>15, <1>16, <1>17, <1>18, <1>19, <1>20, <1>21,
       <1>22, <1>23, <1>24, <1>25
       DEF Next, HandlerStep, LoginStep, EnforceStep, RefreshStep, LogoutStep

LEMMA Owns ==
    ASSUME TypeOK, KindInv, NEW p \in Procs, req[p].pc \in Owning
    PROVE  req[p].id \in 1 .. created
  BY Typed DEF KindInv, Kindly, Requests, None

\* A step that dies takes the records of the requests with it; the rest is kept, or
\* what the store held is gone.
LEMMA CrashDoes ==
    ASSUME TypeOK, Crash
    PROVE  /\ req' \in [Procs -> Requests(created)]
           /\ \A p \in Procs : req'[p] = Idle
           /\ UNCHANGED <<created, delivered, logins, heirs, spared>>
           /\ \/ UNCHANGED <<live, current, lock, refresh, lookup, rlock, rcool, used>>
              \/ /\ ~StoreSurvives
                 /\ live' = {} /\ current' = None /\ lock' = FALSE
                 /\ refresh' = None /\ lookup' = {}
                 /\ rlock' = FALSE /\ rcool' = FALSE /\ used' = {}
  BY Typed, IdleTyped, Frames DEF Crash

LEMMA TypeStep ==
    ASSUME TypeOK, KindInv, [Next]_vars
    PROVE  TypeOK'
  <1> USE DEF Alone, Number, None
  <1>0. faults' \in 0 .. MaxFaults
    BY FaultsType
  <1> USE <1>0
  <1>1. ASSUME NEW p \in Procs, NEW t \in Tickets, ClaimTicket(p, t) PROVE TypeOK'
    BY <1>1, ClaimTicketDoes, TypeParts, TypeWhole, Typed
  <1>2. ASSUME NEW p \in Procs, VerifyTicket(p) PROVE TypeOK'
    BY <1>2, VerifyTicketDoes, TypeParts, TypeWhole, Typed
  <1>3. ASSUME NEW p \in Procs, AnswerLogin(p) PROVE TypeOK'
    <2>1. req[p].id \in 1 .. created
      BY <1>3, AnswerLoginDoes, Owns DEF Owning, InSession
    <2>2. delivered' \subseteq 1 .. created' /\ logins' \in [Tickets -> Nat]
      BY <1>3, AnswerLoginDoes, <2>1, TypeParts
    <2> QED
      BY <1>3, AnswerLoginDoes, <2>2, TypeParts, TypeWhole, Typed
  <1>4. ASSUME NEW p \in Procs, ReleaseTicket(p) PROVE TypeOK'
    BY <1>4, ReleaseTicketDoes, TypeParts, TypeWhole, Typed
  <1>5. ASSUME NEW p \in Procs, LockSession(p) PROVE TypeOK'
    BY <1>5, LockSessionDoes, TypeParts, TypeWhole, Typed
  <1>6. ASSUME NEW p \in Procs, ReadCurrent(p) PROVE TypeOK'
    BY <1>6, ReadCurrentDoes, TypeParts, TypeWhole, Typed
  <1>7. ASSUME NEW p \in Procs, EvictOld(p) PROVE TypeOK'
    BY <1>7, EvictOldDoes, TypeParts, TypeWhole, Typed
  <1>8. ASSUME NEW p \in Procs, SetSession(p) PROVE TypeOK'
    <2>1. req[p].id \in 1 .. created
      BY <1>8, SetSessionDoes, Owns DEF Owning, InSession
    <2>2. live' \subseteq 1 .. created'
      BY <1>8, SetSessionDoes, <2>1, TypeParts
    <2> QED
      BY <1>8, SetSessionDoes, <2>2, TypeParts, TypeWhole, Typed
  <1>9. ASSUME NEW p \in Procs, SetCurrent(p) PROVE TypeOK'
    <2>1. req[p].id \in 1 .. created
      BY <1>9, SetCurrentDoes, Owns DEF Owning, InSession
    <2>2. current' \in 0 .. created'
      BY <1>9, SetCurrentDoes, <2>1, TypeParts
    <2> QED
      BY <1>9, SetCurrentDoes, <2>2, TypeParts, TypeWhole, Typed
  <1>10. ASSUME NEW p \in Procs, UnlockSession(p) PROVE TypeOK'
    BY <1>10, UnlockSessionDoes, TypeParts, TypeWhole, Typed
  <1>11. ASSUME NEW p \in Procs, StoreToken(p) PROVE TypeOK'
    <2>1. req[p].id \in 1 .. created
      BY <1>11, StoreTokenDoes, Owns DEF Owning, InSession
    <2>2. refresh' \in 0 .. created'
      BY <1>11, StoreTokenDoes, <2>1, TypeParts
    <2> QED
      BY <1>11, StoreTokenDoes, <2>2, TypeParts, TypeWhole, Typed
  <1>12. ASSUME NEW p \in Procs, StoreLookup(p) PROVE TypeOK'
    <2>1. req[p].id \in 1 .. created
      BY <1>12, StoreLookupDoes, Owns DEF Owning, InSession
    <2>2. lookup' \subseteq 1 .. created'
      BY <1>12, StoreLookupDoes, <2>1, TypeParts
    <2> QED
      BY <1>12, StoreLookupDoes, <2>2, TypeParts, TypeWhole, Typed
  <1>13. ASSUME NEW p \in Procs, NEW s \in Sessions, LookupToken(p, s) PROVE TypeOK'
    BY <1>13, LookupTokenDoes, TypeParts, TypeWhole, Typed
  <1>14. ASSUME NEW p \in Procs, LockRefresh(p) PROVE TypeOK'
    BY <1>14, LockRefreshDoes, TypeParts, TypeWhole, Typed
  <1>15. ASSUME NEW p \in Procs, CheckCooling(p) PROVE TypeOK'
    BY <1>15, CheckCoolingDoes, TypeParts, TypeWhole, Typed
  <1>16. ASSUME NEW p \in Procs, CompareStored(p) PROVE TypeOK'
    BY <1>16, CompareStoredDoes, TypeParts, TypeWhole, Typed
  <1>17. ASSUME NEW p \in Procs, SetCooling(p) PROVE TypeOK'
    BY <1>17, SetCoolingDoes, TypeParts, TypeWhole, Typed
  <1>18. ASSUME NEW p \in Procs, AnswerRefresh(p) PROVE TypeOK'
    <2>1. req[p].id \in 1 .. created
      BY <1>18, AnswerRefreshDoes, Owns DEF Owning, InSession
    <2>2. /\ delivered' \subseteq 1 .. created' /\ lookup' \subseteq 1 .. created'
         /\ heirs' \in [Sessions -> Nat]
      BY <1>18, AnswerRefreshDoes, <2>1, TypeParts
    <2> QED
      BY <1>18, AnswerRefreshDoes, <2>2, TypeParts, TypeWhole, Typed
  <1>19. ASSUME NEW p \in Procs, UnlockRefresh(p) PROVE TypeOK'
    BY <1>19, UnlockRefreshDoes, TypeParts, TypeWhole, Typed
  <1>20. ASSUME NEW p \in Procs, NEW s \in Sessions, LogoutRead(p, s) PROVE TypeOK'
    BY <1>20, LogoutReadDoes, TypeParts, TypeWhole, Typed
  <1>21. ASSUME NEW p \in Procs, LogoutDelete(p) PROVE TypeOK'
    <2>1. live' \subseteq 1 .. created'
      BY <1>21, LogoutDeleteDoes, TypeParts
    <2>2. current' \in 0 .. created' /\ refresh' \in 0 .. created'
      BY <1>21, LogoutDeleteDoes, TypeParts, Typed
    <2>3. spared' \subseteq 1 .. created'
      BY <1>21, LogoutDeleteDoes, TypeParts
    <2> QED
      BY <1>21, LogoutDeleteDoes, <2>1, <2>2, <2>3, TypeParts, TypeWhole, Typed
  <1>22. ASSUME NEW p \in Procs, Fail(p) PROVE TypeOK'
    BY <1>22, FailDoes, TypeParts, TypeWhole, Typed
  <1>23. CASE Expire
    BY <1>23, Frames, TypeParts, TypeWhole, Typed
       DEF Expire, ExpireLock, ExpireRefreshLock, ExpireCooling
  <1>24. CASE Crash
    <2>0. created' = created /\ 0 \in 0 .. created
      BY <1>24, CrashDoes, Typed
    <2>1. /\ live' \subseteq 1 .. created' /\ lookup' \subseteq 1 .. created'
          /\ current' \in 0 .. created' /\ refresh' \in 0 .. created'
          /\ used' \subseteq Tickets
      <3>1. CASE UNCHANGED <<live, current, lock, refresh, lookup, rlock, rcool, used>>
        BY <2>0, <3>1, TypeParts
      <3>2. CASE live' = {} /\ current' = 0 /\ refresh' = 0 /\ lookup' = {} /\ used' = {}
        BY <2>0, <3>2
      <3> QED
        BY <1>24, <3>1, <3>2, CrashDoes
    <2>2. lock' \in BOOLEAN /\ rlock' \in BOOLEAN /\ rcool' \in BOOLEAN
      BY <1>24, CrashDoes, TypeParts
    <2> QED
      BY <1>24, <2>1, <2>2, CrashDoes, TypeParts, TypeWhole
  <1>25. CASE UNCHANGED vars
    BY <1>25, Frames, TypeParts, TypeWhole, Typed DEF vars
  <1> QED
    BY <1>1, <1>2, <1>3, <1>4, <1>5, <1>6, <1>7, <1>8, <1>9, <1>10, <1>11,
       <1>12, <1>13, <1>14, <1>15, <1>16, <1>17, <1>18, <1>19, <1>20, <1>21,
       <1>22, <1>23, <1>24, <1>25
       DEF Next, HandlerStep, LoginStep, EnforceStep, RefreshStep, LogoutStep

\* Every key and request holds a value of its type, and nothing refers to a
\* session that was not created, whatever dies, fails or runs out.
THEOREM TypeCorrect == Spec => []TypeOK
  <1>1. Init => TypeOK /\ KindInv
    BY InitType
  <1>2. TypeOK /\ KindInv /\ [Next]_vars => TypeOK' /\ KindInv'
    BY TypeStep, KindStep
  <1> QED
    BY <1>1, <1>2, PTL DEF Spec

LEMMA KindCorrect == Spec => [](TypeOK /\ KindInv)
  BY InitType, TypeStep, KindStep, PTL DEF Spec

----------------------------------------------------------------------------
(* Tickets *)
\* A step that neither starts a login nor touches tickets.
LEMMA TicketKept ==
    ASSUME TicketInv, TicketUsedOnce, NEW p \in Procs, Alone(p),
           UNCHANGED <<used, logins>>,
           \/ req'[p].kind = req[p].kind /\ req'[p].ticket = req[p].ticket
           \/ req'[p].kind # "login"
    PROVE  TicketInv' /\ TicketUsedOnce'
  BY DEF TicketInv, TicketUsedOnce, Alone

LEMMA TicketStep ==
    ASSUME StoreSurvives, TypeOK, KindInv, TicketInv, TicketUsedOnce, [Next]_vars
    PROVE  TicketInv' /\ TicketUsedOnce'
  <1>1. ASSUME NEW p \in Procs, NEW t \in Tickets, ClaimTicket(p, t)
        PROVE  TicketInv' /\ TicketUsedOnce'
    <2>1. /\ t \notin used /\ used' = used \cup {t} /\ logins' = logins
          /\ Alone(p) /\ t \in Tickets
      BY <1>1, ClaimTicketDoes
    <2>2. \A q \in Procs : req[q].kind = "login" => req[q].ticket # t
      BY <2>1 DEF TicketInv
    <2>3. logins[t] = 0
      BY <2>1, TypeParts DEF TicketInv
    <2>4. CASE req' = req
      BY <2>1, <2>4 DEF TicketInv, TicketUsedOnce
    <2>5. CASE req'[p] = [Idle EXCEPT !.pc = "verify", !.kind = "login", !.ticket = t]
      <3>1. req'[p].kind = "login" /\ req'[p].ticket = t
        BY <2>5 DEF Idle
      <3> QED
        BY <2>1, <2>2, <2>3, <3>1 DEF TicketInv, TicketUsedOnce, Alone
    <2> QED
      BY <1>1, ClaimTicketDoes, <2>4, <2>5
  <1>2. ASSUME NEW p \in Procs, VerifyTicket(p) PROVE TicketInv' /\ TicketUsedOnce'
    BY <1>2, VerifyTicketDoes, TicketKept, Idles DEF Turns, Number, Keeps
  <1>3. ASSUME NEW p \in Procs, AnswerLogin(p) PROVE TicketInv' /\ TicketUsedOnce'
    <2>1. req[p].kind = "login"
      BY <1>3, AnswerLoginDoes DEF KindInv, Kindly
    <2>2. req'[p].kind # "login" /\ Alone(p) /\ used' = used
      BY <1>3, AnswerLoginDoes DEF Idle
    <2>3. \A t \in Tickets : logins'[t] = IF t = req[p].ticket THEN 1 ELSE logins[t]
      BY <1>3, AnswerLoginDoes, <2>1, TypeParts DEF TicketInv
    <2>4. \A q \in Procs : req'[q].kind = "login" =>
              q # p /\ req'[q] = req[q] /\ req[q].ticket # req[p].ticket
      BY <2>1, <2>2 DEF TicketInv, Alone
    <2>5. \A q \in Procs : req[q].kind = "login" => req[q].ticket \in Tickets
      BY TypeParts DEF TicketInv
    <2> QED
      BY <2>1, <2>2, <2>3, <2>4, <2>5 DEF TicketInv, TicketUsedOnce
  <1>4. ASSUME NEW p \in Procs, ReleaseTicket(p) PROVE TicketInv' /\ TicketUsedOnce'
    <2>1. req[p].kind = "login"
      BY <1>4, ReleaseTicketDoes DEF KindInv, Kindly
    <2>2. req'[p].kind # "login" /\ Alone(p) /\ logins' = logins
          /\ used' \in {used, used \ {req[p].ticket}}
      BY <1>4, ReleaseTicketDoes DEF Idle
    <2>3. \A q \in Procs : req'[q].kind = "login" =>
              q # p /\ req'[q] = req[q] /\ req[q].ticket # req[p].ticket
      BY <2>1, <2>2 DEF TicketInv, Alone
    <2>4. \A t \in Tickets : logins[t] > 0 => t # req[p].ticket
      BY <2>1 DEF TicketInv
    <2> QED
      BY <2>1, <2>2, <2>3, <2>4 DEF TicketInv, TicketUsedOnce
  <1>5. ASSUME NEW p \in Procs, LockSession(p) PROVE TicketInv' /\ TicketUsedOnce'
    BY <1>5, LockSessionDoes, TicketKept, Idles DEF Turns, Number, Keeps
  <1>6. ASSUME NEW p \in Procs, ReadCurrent(p) PROVE TicketInv' /\ TicketUsedOnce'
    BY <1>6, ReadCurrentDoes, TicketKept, Idles DEF Turns, Number, Keeps
  <1>7. ASSUME NEW p \in Procs, EvictOld(p) PROVE TicketInv' /\ TicketUsedOnce'
    BY <1>7, EvictOldDoes, TicketKept, Idles DEF Turns, Number, Keeps
  <1>8. ASSUME NEW p \in Procs, SetSession(p) PROVE TicketInv' /\ TicketUsedOnce'
    BY <1>8, SetSessionDoes, TicketKept, Idles DEF Turns, Number, Keeps
  <1>9. ASSUME NEW p \in Procs, SetCurrent(p) PROVE TicketInv' /\ TicketUsedOnce'
    BY <1>9, SetCurrentDoes, TicketKept, Idles DEF Turns, Number, Keeps
  <1>10. ASSUME NEW p \in Procs, UnlockSession(p) PROVE TicketInv' /\ TicketUsedOnce'
    BY <1>10, UnlockSessionDoes, TicketKept, Idles DEF Turns, Number, Keeps
  <1>11. ASSUME NEW p \in Procs, StoreToken(p) PROVE TicketInv' /\ TicketUsedOnce'
    BY <1>11, StoreTokenDoes, TicketKept, Idles DEF Turns, Number, Keeps
  <1>12. ASSUME NEW p \in Procs, StoreLookup(p) PROVE TicketInv' /\ TicketUsedOnce'
    BY <1>12, StoreLookupDoes, TicketKept, Idles DEF Turns, Number, Keeps
  <1>13. ASSUME NEW p \in Procs, NEW s \in Sessions, LookupToken(p, s)
         PROVE  TicketInv' /\ TicketUsedOnce'
    <2>1. [Idle EXCEPT !.pc = "rlock", !.kind = "refresh", !.tok = s].kind # "login"
      BY DEF Idle
    <2> QED
      BY <1>13, LookupTokenDoes, <2>1, TicketKept
  <1>14. ASSUME NEW p \in Procs, LockRefresh(p) PROVE TicketInv' /\ TicketUsedOnce'
    BY <1>14, LockRefreshDoes, TicketKept, Idles DEF Turns, Number, Keeps
  <1>15. ASSUME NEW p \in Procs, CheckCooling(p) PROVE TicketInv' /\ TicketUsedOnce'
    BY <1>15, CheckCoolingDoes, TicketKept, Idles DEF Turns, Number, Keeps
  <1>16. ASSUME NEW p \in Procs, CompareStored(p) PROVE TicketInv' /\ TicketUsedOnce'
    BY <1>16, CompareStoredDoes, TicketKept, Idles DEF Turns, Number, Keeps
  <1>17. ASSUME NEW p \in Procs, SetCooling(p) PROVE TicketInv' /\ TicketUsedOnce'
    BY <1>17, SetCoolingDoes, TicketKept, Idles DEF Turns, Number, Keeps
  <1>18. ASSUME NEW p \in Procs, AnswerRefresh(p) PROVE TicketInv' /\ TicketUsedOnce'
    BY <1>18, AnswerRefreshDoes, TicketKept, Idles DEF Turns, Number, Keeps
  <1>19. ASSUME NEW p \in Procs, UnlockRefresh(p) PROVE TicketInv' /\ TicketUsedOnce'
    BY <1>19, UnlockRefreshDoes, TicketKept, Idles DEF Turns, Number, Keeps
  <1>20. ASSUME NEW p \in Procs, NEW s \in Sessions, LogoutRead(p, s)
         PROVE  TicketInv' /\ TicketUsedOnce'
    BY <1>20, LogoutReadDoes, TicketKept
  <1>21. ASSUME NEW p \in Procs, LogoutDelete(p) PROVE TicketInv' /\ TicketUsedOnce'
    BY <1>21, LogoutDeleteDoes, TicketKept, Idles DEF Turns, Number, Keeps
  <1>22. ASSUME NEW p \in Procs, Fail(p) PROVE TicketInv' /\ TicketUsedOnce'
    BY <1>22, FailDoes, TicketKept, Idles DEF Turns, Number, Keeps
  <1>23. CASE Expire
    BY <1>23, Frames
      
          DEF Expire, ExpireLock, ExpireRefreshLock, ExpireCooling, TicketInv, TicketUsedOnce
  <1>24. CASE Crash
    BY <1>24, CrashDoes DEF TicketInv, TicketUsedOnce, Idle
  <1>25. CASE UNCHANGED vars
    BY <1>25, Frames DEF vars, TicketInv, TicketUsedOnce
  <1> QED
    BY <1>1, <1>2, <1>3, <1>4, <1>5, <1>6, <1>7, <1>8, <1>9, <1>10, <1>11,
       <1>12, <1>13, <1>14, <1>15, <1>16, <1>17, <1>18, <1>19, <1>20, <1>21,
       <1>22, <1>23, <1>24, <1>25
       DEF Next, HandlerStep, LoginStep, EnforceStep, RefreshStep, LogoutStep

\* A ticket logs in once, whatever is retried or raced with it, where the key of a
\* used ticket outlives the process (as in Redis).
THEOREM TicketsCorrect ==
    ASSUME StoreSurvives
    PROVE  Spec => []TicketUsedOnce
  <1>1. Init => TicketInv /\ TicketUsedOnce
    BY DEF Init, TicketInv, TicketUsedOnce, Idle
  <1>2. TypeOK /\ KindInv /\ TicketInv /\ TicketUsedOnce /\ [Next]_vars
          => TicketInv' /\ TicketUsedOnce'
    BY TicketStep
  <1> QED
    BY <1>1, <1>2, KindCorrect, PTL DEF Spec

----------------------------------------------------------------------------
(* Session numbers *)
\* A step that neither hands out a number nor answers with one.
LEMMA IdKept ==
    ASSUME IdInv, NEW p \in Procs, Alone(p), delivered' = delivered,
           req'[p].pc \in Owning => req[p].pc \in Owning /\ req'[p].id = req[p].id
    PROVE  IdInv'
  BY DEF IdInv, Alone

LEMMA IdStep ==
    ASSUME TypeOK, KindInv, IdInv, [Next]_vars
    PROVE  IdInv'
  <1>1. ASSUME NEW p \in Procs, NEW t \in Tickets, ClaimTicket(p, t) PROVE IdInv'
    <2>1. [Idle EXCEPT !.pc = "verify", !.kind = "login", !.ticket = t].pc \notin Owning
      BY DEF Idle, Owning, InSession
    <2> QED
      BY <1>1, ClaimTicketDoes, <2>1, IdKept DEF IdInv
  <1>2. ASSUME NEW p \in Procs, VerifyTicket(p) PROVE IdInv'
    <2>1. \A q \in Procs : req[q].pc \in Owning => req[q].id # created + 1
      BY Owns, Typed
    <2>2. created + 1 \notin delivered
      BY TypeParts, Typed
    <2> QED
      BY <1>2, VerifyTicketDoes, <2>1, <2>2 DEF IdInv, Alone, Number
  <1>3. ASSUME NEW p \in Procs, AnswerLogin(p) PROVE IdInv'
    BY <1>3, AnswerLoginDoes, Idles DEF IdInv, Alone, Owning, InSession
  <1>4. ASSUME NEW p \in Procs, ReleaseTicket(p) PROVE IdInv'
    BY <1>4, ReleaseTicketDoes, IdKept, Idles
       DEF Turns, Keeps, Owning, InSession, Failure
  <1>5. ASSUME NEW p \in Procs, LockSession(p) PROVE IdInv'
    BY <1>5, LockSessionDoes, IdKept, Idles DEF Turns, Keeps, Owning, InSession, Failure
  <1>6. ASSUME NEW p \in Procs, ReadCurrent(p) PROVE IdInv'
    BY <1>6, ReadCurrentDoes, IdKept, Idles DEF Turns, Keeps, Owning, InSession, Failure
  <1>7. ASSUME NEW p \in Procs, EvictOld(p) PROVE IdInv'
    BY <1>7, EvictOldDoes, IdKept, Idles DEF Turns, Keeps, Owning, InSession, Failure
  <1>8. ASSUME NEW p \in Procs, SetSession(p) PROVE IdInv'
    BY <1>8, SetSessionDoes, IdKept, Idles DEF Turns, Keeps, Owning, InSession, Failure
  <1>9. ASSUME NEW p \in Procs, SetCurrent(p) PROVE IdInv'
    BY <1>9, SetCurrentDoes, IdKept, Idles DEF Turns, Keeps, Owning, InSession, Failure
  <1>10. ASSUME NEW p \in Procs, UnlockSession(p) PROVE IdInv'
    BY <1>10, UnlockSessionDoes, IdKept, Idles
       DEF Turns, Keeps, Owning, InSession, Failure
  <1>11. ASSUME NEW p \in Procs, StoreToken(p) PROVE IdInv'
    BY <1>11, StoreTokenDoes, IdKept, Idles DEF Turns, Keeps, Owning, InSession, Failure
  <1>12. ASSUME NEW p \in Procs, StoreLookup(p) PROVE IdInv'
    BY <1>12, StoreLookupDoes, IdKept, Idles
       DEF Turns, Keeps, Owning, InSession, Failure
  <1>13. ASSUME NEW p \in Procs, NEW s \in Sessions, LookupToken(p, s) PROVE IdInv'
    <2>1. [Idle EXCEPT !.pc = "rlock", !.kind = "refresh", !.tok = s].pc \notin Owning
      BY DEF Idle, Owning, InSession
    <2> QED
      BY <1>13, LookupTokenDoes, <2>1, IdKept DEF IdInv
  <1>14. ASSUME NEW p \in Procs, LockRefresh(p) PROVE IdInv'
    BY <1>14, LockRefreshDoes, IdKept, Idles
       DEF Turns, Keeps, Owning, InSession, Failure
  <1>15. ASSUME NEW p \in Procs, CheckCooling(p) PROVE IdInv'
    BY <1>15, CheckCoolingDoes, IdKept, Idles
       DEF Turns, Keeps, Owning, InSession, Failure
  <1>16. ASSUME NEW p \in Procs, CompareStored(p) PROVE IdInv'
    <2>1. \A q \in Procs : req[q].pc \in Owning => req[q].id # created + 1
      BY Owns, Typed
    <2>2. created + 1 \notin delivered
      BY TypeParts, Typed
    <2>3. CASE Number(p)
      BY <1>16, CompareStoredDoes, <2>1, <2>2, <2>3 DEF IdInv, Alone, Number
    <2>4. CASE Turns(p) /\ req'[p].pc = "runlock"
      BY <1>16, CompareStoredDoes, IdKept, <2>4 DEF Owning, InSession
    <2> QED
      BY <1>16, CompareStoredDoes, <2>3, <2>4
  <1>17. ASSUME NEW p \in Procs, SetCooling(p) PROVE IdInv'
    BY <1>17, SetCoolingDoes, IdKept, Idles DEF Turns, Keeps, Owning, InSession, Failure
  <1>18. ASSUME NEW p \in Procs, AnswerRefresh(p) PROVE IdInv'
    BY <1>18, AnswerRefreshDoes DEF IdInv, Alone, Owning, InSession
  <1>19. ASSUME NEW p \in Procs, UnlockRefresh(p) PROVE IdInv'
    BY <1>19, UnlockRefreshDoes, IdKept, Idles
       DEF Turns, Keeps, Owning, InSession, Failure
  <1>20. ASSUME NEW p \in Procs, NEW s \in Sessions, LogoutRead(p, s) PROVE IdInv'
    BY <1>20, LogoutReadDoes, IdKept DEF Owning, InSession
  <1>21. ASSUME NEW p \in Procs, LogoutDelete(p) PROVE IdInv'
    BY <1>21, LogoutDeleteDoes, IdKept, Idles
       DEF Turns, Keeps, Owning, InSession, Failure
  <1>22. ASSUME NEW p \in Procs, Fail(p) PROVE IdInv'
    BY <1>22, FailDoes, IdKept, Idles DEF Turns, Keeps, Owning, InSession, Failure
  <1>23. CASE Expire
    BY <1>23, Frames
       DEF Expire, ExpireLock, ExpireRefreshLock, ExpireCooling, IdInv
  <1>24. CASE Crash
    BY <1>24, CrashDoes, Idles DEF IdInv, Owning, InSession
  <1>25. CASE UNCHANGED vars
    BY <1>25, Frames DEF vars, IdInv
  <1> QED
    BY <1>1, <1>2, <1>3, <1>4, <1>5, <1>6, <1>7, <1>8, <1>9, <1>10, <1>11,
       <1>12, <1>13, <1>14, <1>15, <1>16, <1>17, <1>18, <1>19, <1>20, <1>21,
       <1>22, <1>23, <1>24, <1>25
       DEF Next, HandlerStep, LoginStep, EnforceStep, RefreshStep, LogoutStep

----------------------------------------------------------------------------
(* The session lock *)
LEMMA LockKept ==
    ASSUME LockInv, NEW p \in Procs, Alone(p), lock' = lock,
           req'[p].pc \in InSession => req[p].pc \in InSession
    PROVE  LockInv'
  BY DEF LockInv, Alone

LEMMA LockStep ==
    ASSUME ~SlowHolders, TypeOK, LockInv, [Next]_vars
    PROVE  LockInv'
  <1>1. ASSUME NEW p \in Procs, NEW t \in Tickets, ClaimTicket(p, t) PROVE LockInv'
    <2>1. [Idle EXCEPT !.pc = "verify", !.kind = "login", !.ticket = t].pc \notin InSession
      BY DEF Idle, InSession
    <2> QED
      BY <1>1, ClaimTicketDoes, <2>1, LockKept DEF LockInv
  <1>2. ASSUME NEW p \in Procs, VerifyTicket(p) PROVE LockInv'
    BY <1>2, VerifyTicketDoes, LockKept, Idles DEF Number, InSession, Failure
  <1>3. ASSUME NEW p \in Procs, AnswerLogin(p) PROVE LockInv'
    BY <1>3, AnswerLoginDoes, LockKept, Idles DEF Number, InSession, Failure
  <1>4. ASSUME NEW p \in Procs, ReleaseTicket(p) PROVE LockInv'
    BY <1>4, ReleaseTicketDoes, LockKept, Idles DEF Number, InSession, Failure
  <1>5. ASSUME NEW p \in Procs, LockSession(p) PROVE LockInv'
    <2>1. Alone(p) /\ req[p].pc = "lock" /\ lock' = TRUE
          /\ (lock => req'[p].pc \notin InSession)
      BY <1>5, LockSessionDoes DEF Failure, InSession
    <2>2. req'[p].pc \in InSession => \A q \in Procs : req[q].pc \notin InSession
      BY <2>1 DEF LockInv
    <2> QED
      BY <2>1, <2>2 DEF LockInv, Alone
  <1>6. ASSUME NEW p \in Procs, ReadCurrent(p) PROVE LockInv'
    BY <1>6, ReadCurrentDoes, LockKept, Idles DEF Number, InSession, Failure
  <1>7. ASSUME NEW p \in Procs, EvictOld(p) PROVE LockInv'
    BY <1>7, EvictOldDoes, LockKept, Idles DEF Number, InSession, Failure
  <1>8. ASSUME NEW p \in Procs, SetSession(p) PROVE LockInv'
    BY <1>8, SetSessionDoes, LockKept, Idles DEF Number, InSession, Failure
  <1>9. ASSUME NEW p \in Procs, SetCurrent(p) PROVE LockInv'
    BY <1>9, SetCurrentDoes, LockKept, Idles DEF Number, InSession, Failure
  <1>10. ASSUME NEW p \in Procs, UnlockSession(p) PROVE LockInv'
    <2>1. Alone(p) /\ req[p].pc \in InSession /\ req'[p].pc \notin InSession
      BY <1>10, UnlockSessionDoes DEF Failure, InSession
    <2> QED
      BY <2>1 DEF LockInv, Alone
  <1>11. ASSUME NEW p \in Procs, StoreToken(p) PROVE LockInv'
    BY <1>11, StoreTokenDoes, LockKept, Idles DEF Number, InSession, Failure
  <1>12. ASSUME NEW p \in Procs, StoreLookup(p) PROVE LockInv'
    BY <1>12, StoreLookupDoes, LockKept, Idles DEF Number, InSession, Failure
  <1>13. ASSUME NEW p \in Procs, NEW s \in Sessions, LookupToken(p, s) PROVE LockInv'
    <2>1. [Idle EXCEPT !.pc = "rlock", !.kind = "refresh", !.tok = s].pc \notin InSession
      BY DEF Idle, InSession
    <2> QED
      BY <1>13, LookupTokenDoes, <2>1, LockKept DEF LockInv
  <1>14. ASSUME NEW p \in Procs, LockRefresh(p) PROVE LockInv'
    BY <1>14, LockRefreshDoes, LockKept, Idles DEF Number, InSession, Failure
  <1>15. ASSUME NEW p \in Procs, CheckCooling(p) PROVE LockInv'
    BY <1>15, CheckCoolingDoes, LockKept, Idles DEF Number, InSession, Failure
  <1>16. ASSUME NEW p \in Procs, CompareStored(p) PROVE LockInv'
    BY <1>16, CompareStoredDoes, LockKept, Idles DEF Number, InSession, Failure
  <1>17. ASSUME NEW p \in Procs, SetCooling(p) PROVE LockInv'
    BY <1>17, SetCoolingDoes, LockKept, Idles DEF Number, InSession, Failure
  <1>18. ASSUME NEW p \in Procs, AnswerRefresh(p) PROVE LockInv'
    BY <1>18, AnswerRefreshDoes, LockKept, Idles DEF Number, InSession, Failure
  <1>19. ASSUME NEW p \in Procs, UnlockRefresh(p) PROVE LockInv'
    BY <1>19, UnlockRefreshDoes, LockKept, Idles DEF Number, InSession, Failure
  <1>20. ASSUME NEW p \in Procs, NEW s \in Sessions, LogoutRead(p, s) PROVE LockInv'
    BY <1>20, LogoutReadDoes, LockKept DEF InSession
  <1>21. ASSUME NEW p \in Procs, LogoutDelete(p) PROVE LockInv'
    BY <1>21, LogoutDeleteDoes, LockKept, Idles DEF Number, InSession, Failure
  <1>22. ASSUME NEW p \in Procs, Fail(p) PROVE LockInv'
    BY <1>22, FailDoes, LockKept, Idles DEF Number, InSession, Failure
  <1>23. CASE Expire
    BY <1>23, Frames
       DEF Expire, ExpireLock, ExpireRefreshLock, ExpireCooling, LockInv
  <1>24. CASE Crash
    BY <1>24, CrashDoes, Idles DEF LockInv, InSession
  <1>25. CASE UNCHANGED vars
    BY <1>25, Frames DEF vars, LockInv
  <1> QED
    BY <1>1, <1>2, <1>3, <1>4, <1>5, <1>6, <1>7, <1>8, <1>9, <1>10, <1>11,
       <1>12, <1>13, <1>14, <1>15, <1>16, <1>17, <1>18, <1>19, <1>20, <1>21,
       <1>22, <1>23, <1>24, <1>25
       DEF Next, HandlerStep, LoginStep, EnforceStep, RefreshStep, LogoutStep

----------------------------------------------------------------------------
(* Refresh tokens *)
LEMMA Counts ==
    ASSUME TypeOK
    PROVE  /\ delivered \subseteq Sessions
           /\ \A s \in Sessions : heirs[s] \in Nat
           /\ RefreshInv => \A p \in Procs : req[p].kind = "refresh" => req[p].tok \in Sessions
  BY TypeParts, Typed, SessionAssumption DEF Sessions, RefreshInv

\* A step that leaves the stored token, the refresh lock and the exchanges alone.
LEMMA RefreshKept ==
    ASSUME RefreshInv, RefreshTokenSpentOnce, NEW p \in Procs, Alone(p),
           UNCHANGED <<rlock, refresh, heirs>>, delivered \subseteq delivered',
           \/ req'[p].kind # "refresh"
           \/ /\ req'[p].kind = req[p].kind /\ req'[p].tok = req[p].tok
              /\ req'[p].pc \in Owning => req[p].pc \in Owning
              /\ req[p].pc = "rlock" => req'[p].pc = "rlock"
              /\ req'[p].pc \in {"index", "drop"} => req[p].pc \in {"index", "drop"}
    PROVE  RefreshInv' /\ RefreshTokenSpentOnce'
  BY DEF RefreshInv, RefreshTokenSpentOnce, Alone, Exchanging

LEMMA SpentStep ==
    ASSUME ~SlowHolders, TypeOK, KindInv, IdInv, RefreshInv, RefreshTokenSpentOnce,
           [Next]_vars
    PROVE  RefreshInv' /\ RefreshTokenSpentOnce'
  <1>1. ASSUME NEW p \in Procs, NEW t \in Tickets, ClaimTicket(p, t)
        PROVE  RefreshInv' /\ RefreshTokenSpentOnce'
    <2>1. [Idle EXCEPT !.pc = "verify", !.kind = "login", !.ticket = t].kind # "refresh"
      BY DEF Idle
    <2>2. CASE req' = req
      BY <1>1, ClaimTicketDoes, <2>2 DEF RefreshInv, Exchanging, RefreshTokenSpentOnce
    <2> QED
      BY <1>1, ClaimTicketDoes, <2>1, <2>2, RefreshKept
  <1>2. ASSUME NEW p \in Procs, VerifyTicket(p)
        PROVE  RefreshInv' /\ RefreshTokenSpentOnce'
    BY <1>2, VerifyTicketDoes, RefreshKept, Idles
       DEF Turns, Keeps, Number, Failure, Owning, InSession, KindInv, Kindly
  <1>3. ASSUME NEW p \in Procs, AnswerLogin(p)
        PROVE  RefreshInv' /\ RefreshTokenSpentOnce'
    BY <1>3, AnswerLoginDoes, RefreshKept, Idles
       DEF Turns, Keeps, Number, Failure, Owning, InSession, KindInv, Kindly
  <1>4. ASSUME NEW p \in Procs, ReleaseTicket(p)
        PROVE  RefreshInv' /\ RefreshTokenSpentOnce'
    BY <1>4, ReleaseTicketDoes, RefreshKept, Idles
       DEF Turns, Keeps, Number, Failure, Owning, InSession, KindInv, Kindly
  <1>5. ASSUME NEW p \in Procs, LockSession(p)
        PROVE  RefreshInv' /\ RefreshTokenSpentOnce'
    BY <1>5, LockSessionDoes, RefreshKept, Idles
       DEF Turns, Keeps, Number, Failure, Owning, InSession, KindInv, Kindly
  <1>6. ASSUME NEW p \in Procs, ReadCurrent(p)
        PROVE  RefreshInv' /\ RefreshTokenSpentOnce'
    BY <1>6, ReadCurrentDoes, RefreshKept, Idles
       DEF Turns, Keeps, Number, Failure, Owning, InSession, KindInv, Kindly
  <1>7. ASSUME NEW p \in Procs, EvictOld(p) PROVE RefreshInv' /\ RefreshTokenSpentOnce'
    BY <1>7, EvictOldDoes, RefreshKept, Idles
       DEF Turns, Keeps, Number, Failure, Owning, InSession, KindInv, Kindly
  <1>8. ASSUME NEW p \in Procs, SetSession(p)
        PROVE  RefreshInv' /\ RefreshTokenSpentOnce'
    BY <1>8, SetSessionDoes, RefreshKept, Idles
       DEF Turns, Keeps, Number, Failure, Owning, InSession, KindInv, Kindly
  <1>9. ASSUME NEW p \in Procs, SetCurrent(p)
        PROVE  RefreshInv' /\ RefreshTokenSpentOnce'
    BY <1>9, SetCurrentDoes, RefreshKept, Idles
       DEF Turns, Keeps, Number, Failure, Owning, InSession, KindInv, Kindly
  <1>10. ASSUME NEW p \in Procs, UnlockSession(p)
         PROVE  RefreshInv' /\ RefreshTokenSpentOnce'
    BY <1>10, UnlockSessionDoes, RefreshKept, Idles
       DEF Turns, Keeps, Number, Failure, Owning, InSession, KindInv, Kindly
  <1>11. ASSUME NEW p \in Procs, StoreToken(p)
         PROVE  RefreshInv' /\ RefreshTokenSpentOnce'
    <2>1. /\ Alone(p) /\ UNCHANGED <<rlock, heirs, delivered>>
          /\ refresh' = req[p].id /\ req[p].pc = "store"
          /\ req'[p].pc \in {"index", "release", "runlock"}
          /\ req'[p].kind = req[p].kind /\ req'[p].tok = req[p].tok
      BY <1>11, StoreTokenDoes DEF Turns, Keeps, Failure
    <2>2. refresh' \notin delivered
      BY <2>1 DEF IdInv, Owning
    <2> QED
      BY <2>1, <2>2
         DEF RefreshInv, Exchanging, RefreshTokenSpentOnce, Alone, Owning, InSession
  <1>12. ASSUME NEW p \in Procs, StoreLookup(p)
         PROVE  RefreshInv' /\ RefreshTokenSpentOnce'
    BY <1>12, StoreLookupDoes, RefreshKept, Idles
       DEF Turns, Keeps, Number, Failure, Owning, InSession, KindInv, Kindly
  <1>13. ASSUME NEW p \in Procs, NEW s \in Sessions, LookupToken(p, s)
         PROVE  RefreshInv' /\ RefreshTokenSpentOnce'
    <2>1. LET r == [Idle EXCEPT !.pc = "rlock", !.kind = "refresh", !.tok = s]
          IN  r.kind = "refresh" /\ r.pc = "rlock" /\ r.tok = s
      BY DEF Idle
    <2>2. req'[p].kind = "refresh" /\ req'[p].pc = "rlock" /\ req'[p].tok = s
      BY <1>13, LookupTokenDoes, <2>1
    <2>3. Alone(p) /\ s \in delivered /\ UNCHANGED <<rlock, refresh, heirs, delivered>>
      BY <1>13, LookupTokenDoes
    <2> QED
      BY <2>2, <2>3
         DEF RefreshInv, Exchanging, RefreshTokenSpentOnce, Alone, Owning, InSession
  <1>14. ASSUME NEW p \in Procs, LockRefresh(p)
         PROVE  RefreshInv' /\ RefreshTokenSpentOnce'
    <2>1. /\ Alone(p) /\ rlock' = TRUE
          /\ UNCHANGED <<refresh, heirs, delivered>>
      BY <1>14, LockRefreshDoes
    <2>2. CASE req'[p] = Idle
      BY <2>1, <2>2, Idles DEF RefreshInv, Exchanging, RefreshTokenSpentOnce, Alone
    <2>3. CASE ~rlock /\ Turns(p) /\ req'[p].pc = "cooling"
      <3>1. /\ req'[p].kind = req[p].kind /\ req'[p].tok = req[p].tok
            /\ req'[p].pc = "cooling"
        BY <2>3 DEF Turns, Keeps
      <3>2. \A q \in Procs : ~Exchanging(q)
        BY <2>3 DEF RefreshInv
      <3> QED
        BY <2>1, <3>1, <3>2
           DEF RefreshInv, Exchanging, RefreshTokenSpentOnce, Alone, Owning, InSession
    <2> QED
      BY <1>14, LockRefreshDoes, <2>2, <2>3
  <1>15. ASSUME NEW p \in Procs, CheckCooling(p)
         PROVE  RefreshInv' /\ RefreshTokenSpentOnce'
    BY <1>15, CheckCoolingDoes, RefreshKept, Idles
       DEF Turns, Keeps, Number, Failure, Owning, InSession, KindInv, Kindly
  <1>16. ASSUME NEW p \in Procs, CompareStored(p)
         PROVE  RefreshInv' /\ RefreshTokenSpentOnce'
    <2>1. CASE Turns(p) /\ req'[p].pc = "runlock"
      BY <1>16, CompareStoredDoes, <2>1, RefreshKept
         DEF Turns, Keeps, Exchanging, Owning, InSession
    <2>2. CASE Number(p) /\ refresh = req[p].tok
      <3>1. /\ Alone(p) /\ UNCHANGED <<rlock, refresh, heirs, delivered>>
            /\ req[p].pc = "stored" /\ req'[p].pc = "lock"
            /\ req'[p].kind = req[p].kind /\ req'[p].tok = req[p].tok
        BY <1>16, CompareStoredDoes, <2>2 DEF Number
      <3>2. req[p].kind = "refresh" => heirs[req[p].tok] = 0
        BY <2>2, Counts DEF RefreshInv
      <3> QED
        BY <3>1, <3>2 DEF RefreshInv, Exchanging, RefreshTokenSpentOnce, Alone
    <2> QED
      BY <1>16, CompareStoredDoes, <2>1, <2>2
  <1>17. ASSUME NEW p \in Procs, SetCooling(p)
         PROVE  RefreshInv' /\ RefreshTokenSpentOnce'
    BY <1>17, SetCoolingDoes, RefreshKept, Idles
       DEF Turns, Keeps, Number, Failure, Owning, InSession, KindInv, Kindly
  <1>18. ASSUME NEW p \in Procs, AnswerRefresh(p)
         PROVE  RefreshInv' /\ RefreshTokenSpentOnce'
    <2>1. /\ Alone(p) /\ UNCHANGED <<rlock, refresh>>
          /\ delivered' = delivered \cup {req[p].id}
          /\ req[p].pc = "drop" /\ req'[p].pc = "runlock" /\ Turns(p)
      BY <1>18, AnswerRefreshDoes
    <2>2. req[p].kind = "refresh"
      BY <2>1 DEF KindInv, Kindly
    <2>3. /\ req[p].tok \in delivered /\ req[p].tok \in Sessions
          /\ heirs[req[p].tok] = 0 /\ refresh # req[p].tok
      BY <2>1, <2>2, Counts DEF RefreshInv, Owning
    <2>4. \A s \in Sessions : heirs'[s] = IF s = req[p].tok THEN 1 ELSE heirs[s]
      <3>1. heirs' = [heirs EXCEPT ![req[p].tok] = @ + 1]
        BY <1>18, AnswerRefreshDoes
      <3> QED
        BY <3>1, <2>3, TypeParts
    <2>5. \A q \in Procs : req[q].kind = "refresh" /\ req[q].pc # "rlock" => q = p
      BY <2>1, <2>2 DEF RefreshInv, Exchanging
    <2>6. \A q \in Procs : req'[q].kind = "refresh" => req'[q].pc \notin Owning
      BY <2>1, <2>5 DEF Alone, Turns, Keeps, Owning, InSession
    <2>7. \A q \in Procs : req'[q].kind = req[q].kind /\ req'[q].tok = req[q].tok
                           /\ (req'[q].pc = "rlock" <=> req[q].pc = "rlock")
      BY <2>1 DEF Alone, Turns, Keeps
    <2>8. RefreshTokenSpentOnce'
      BY <2>4 DEF RefreshTokenSpentOnce
    <2>9. \A q \in Procs : req'[q].kind = "refresh" => req'[q].pc \notin {"index", "drop"}
      BY <2>6 DEF Owning
    <2>10. \A q \in Procs : req'[q].kind = "refresh" => req'[q].tok \in delivered'
      BY <2>1, <2>7 DEF RefreshInv
    <2>12. rlock'
      BY <2>1, <2>2 DEF RefreshInv, Exchanging
    <2>13. \A q \in Procs : Exchanging(q)' => q = p
      BY <2>5, <2>7 DEF Exchanging
    <2>11. \A s \in Sessions : heirs'[s] > 0 => s \in delivered' /\ refresh' # s
      BY <2>1, <2>3, <2>4 DEF RefreshInv
    <2> QED
      BY <2>6, <2>8, <2>9, <2>10, <2>11, <2>12, <2>13 DEF RefreshInv
  <1>19. ASSUME NEW p \in Procs, UnlockRefresh(p)
         PROVE  RefreshInv' /\ RefreshTokenSpentOnce'
    <2>1. Alone(p) /\ UNCHANGED <<refresh, heirs, delivered>>
          /\ req'[p].kind = "none" /\ req[p].pc = "runlock"
      BY <1>19, UnlockRefreshDoes, Idles
    <2>2. req[p].kind = "refresh"
      BY <2>1 DEF KindInv, Kindly
    <2> QED
      BY <2>1, <2>2 DEF RefreshInv, Exchanging, RefreshTokenSpentOnce, Alone
  <1>20. ASSUME NEW p \in Procs, NEW s \in Sessions, LogoutRead(p, s)
         PROVE  RefreshInv' /\ RefreshTokenSpentOnce'
    BY <1>20, LogoutReadDoes, RefreshKept
  <1>21. ASSUME NEW p \in Procs, LogoutDelete(p)
         PROVE  RefreshInv' /\ RefreshTokenSpentOnce'
    <2>1. /\ Alone(p) /\ UNCHANGED <<rlock, heirs, delivered>>
          /\ req'[p].kind = "none" /\ refresh' \in {refresh, None}
      BY <1>21, LogoutDeleteDoes, Idles
    <2>2. None \notin delivered
      BY TypeParts DEF None
    <2> QED
      BY <2>1, <2>2 DEF RefreshInv, Exchanging, RefreshTokenSpentOnce, Alone
  <1>22. ASSUME NEW p \in Procs, Fail(p) PROVE RefreshInv' /\ RefreshTokenSpentOnce'
    BY <1>22, FailDoes, RefreshKept, Idles
       DEF Turns, Keeps, Number, Failure, Owning, InSession, KindInv, Kindly
  <1>23. CASE Expire
    <2>1. CASE UNCHANGED rlock
      BY <1>23, <2>1, Frames
         DEF Expire, ExpireLock, ExpireRefreshLock, ExpireCooling,
             RefreshInv, Exchanging, RefreshTokenSpentOnce
    <2>2. CASE ExpireRefreshLock
      <3>1. ASSUME NEW p \in Procs, req[p].kind = "refresh", req[p].pc # "rlock"
            PROVE  req[p].pc \in InRefresh
        <4>1. req[p].pc \in PCs
          BY Typed DEF Requests
        <4>2. req[p].pc \notin {"idle", "logout", "verify", "anchor", "release"}
          BY <3>1 DEF KindInv, Kindly
        <4> QED
          BY <3>1, <4>1, <4>2 DEF PCs, InRefresh
      <3>2. \A p \in Procs : ~Exchanging(p)
        BY <2>2, <3>1 DEF ExpireRefreshLock, Exchanging
      <3> QED
        BY <2>2, <3>2, Frames
           DEF ExpireRefreshLock, RefreshInv, Exchanging, RefreshTokenSpentOnce
    <2> QED
      BY <1>23, <2>1, <2>2, Frames DEF Expire, ExpireLock, ExpireCooling
  <1>24. CASE Crash
    <2>1. None \notin delivered
      BY TypeParts DEF None
    <2>2. /\ \A p \in Procs : req'[p].kind = "none"
          /\ UNCHANGED <<delivered, heirs>> /\ refresh' \in {refresh, None}
      BY <1>24, CrashDoes, Idles
    <2> QED
      BY <2>1, <2>2 DEF RefreshInv, Exchanging, RefreshTokenSpentOnce
  <1>25. CASE UNCHANGED vars
    BY <1>25, Frames DEF vars, RefreshInv, Exchanging, RefreshTokenSpentOnce
  <1> QED
    BY <1>1, <1>2, <1>3, <1>4, <1>5, <1>6, <1>7, <1>8, <1>9, <1>10, <1>11,
       <1>12, <1>13, <1>14, <1>15, <1>16, <1>17, <1>18, <1>19, <1>20, <1>21,
       <1>22, <1>23, <1>24, <1>25
       DEF Next, HandlerStep, LoginStep, EnforceStep, RefreshStep, LogoutStep

\* A refresh token is exchanged once, by one refresh at a time, where refreshes are
\* faster than the ttl of their lock; keys may be lost.
THEOREM RefreshCorrect ==
    ASSUME ~SlowHolders
    PROVE  Spec => []RefreshTokenSpentOnce
  <1>1. Init => IdInv /\ RefreshInv /\ RefreshTokenSpentOnce
    BY Idles
       DEF Init, IdInv, RefreshInv, Exchanging, RefreshTokenSpentOnce, Owning, InSession
  <1>2. TypeOK /\ KindInv /\ IdInv /\ RefreshInv /\ RefreshTokenSpentOnce /\ [Next]_vars
          => IdInv' /\ RefreshInv' /\ RefreshTokenSpentOnce'
    BY IdStep, SpentStep
  <1> QED
    BY <1>1, <1>2, KindCorrect, PTL DEF Spec

----------------------------------------------------------------------------
(* One live session *)
\* A request that promises nothing new.
LEMMA PromisedKept ==
    ASSUME NEW p \in Procs, Alone(p), delivered' = delivered,
           Promises(req'[p]) => Promises(req[p]) /\ req'[p].id = req[p].id
    PROVE  Promised' \subseteq Promised
  BY DEF Promised, Alone

\* A step that neither writes sessions nor enters the part that does.
LEMMA PointerKept ==
    ASSUME PointerInv, NEW p \in Procs, Alone(p), live' \subseteq live,
           UNCHANGED <<current, delivered, spared>>,
           Promises(req'[p]) => Promises(req[p]) /\ req'[p].id = req[p].id,
           req'[p].pc \notin {"evict", "set", "point"}
    PROVE  PointerInv'
  <1>1. Promised' \subseteq Promised
    BY PromisedKept
  <1> QED
    BY <1>1 DEF PointerInv, Alone

LEMMA PointerStep ==
    ASSUME TypeOK, KindInv, IdInv, LockInv, PointerInv, [Next]_vars
    PROVE  PointerInv'
  <1>1. ASSUME NEW p \in Procs, NEW t \in Tickets, ClaimTicket(p, t) PROVE PointerInv'
    <2>1. LET r == [Idle EXCEPT !.pc = "verify", !.kind = "login", !.ticket = t]
          IN  r.pc \notin {"evict", "set", "point", "unlock"} \cup Tail
      BY DEF Idle, Tail
    <2>2. CASE req' = req
      BY <1>1, ClaimTicketDoes, <2>2 DEF PointerInv, Promised, Promises
    <2> QED
      BY <1>1, ClaimTicketDoes, <2>1, <2>2, PointerKept DEF Promises
  <1>2. ASSUME NEW p \in Procs, VerifyTicket(p) PROVE PointerInv'
    BY <1>2, VerifyTicketDoes, PointerKept, Idles
       DEF Turns, Keeps, Number, Failure, Promises, Tail
  <1>3. ASSUME NEW p \in Procs, AnswerLogin(p) PROVE PointerInv'
    <2>1. /\ Alone(p) /\ UNCHANGED <<live, current, spared>>
          /\ delivered' = delivered \cup {req[p].id} /\ req[p].pc = "anchor"
          /\ req'[p].pc = "idle"
      BY <1>3, AnswerLoginDoes, Idles
    <2>2. Promises(req[p]) /\ ~Promises(req'[p])
      BY <2>1 DEF Promises, Tail
    <2>3. Promised' \subseteq Promised
      BY <2>1, <2>2 DEF Promised, Alone
    <2> QED
      BY <2>1, <2>3 DEF PointerInv, Alone
  <1>4. ASSUME NEW p \in Procs, ReleaseTicket(p) PROVE PointerInv'
    BY <1>4, ReleaseTicketDoes, PointerKept, Idles
       DEF Turns, Keeps, Number, Failure, Promises, Tail
  <1>5. ASSUME NEW p \in Procs, LockSession(p) PROVE PointerInv'
    BY <1>5, LockSessionDoes, PointerKept, Idles
       DEF Turns, Keeps, Number, Failure, Promises, Tail
  <1>6. ASSUME NEW p \in Procs, ReadCurrent(p) PROVE PointerInv'
    <2>1. /\ Alone(p) /\ UNCHANGED <<live, current, delivered>>
          /\ req'[p].old \in {current, None}
          /\ req'[p].pc = IF req'[p].old = None THEN "set" ELSE "evict"
          /\ spared' = spared \cup (({current} \ {req'[p].old}) \cap live)
      BY <1>6, ReadCurrentDoes
    <2>2. Promised' \subseteq Promised
      BY <2>1, PromisedKept DEF Promises, Tail
    <2>3. None \notin live
      BY TypeParts DEF None
    <2>4. CASE req'[p].old = current
      BY <2>1, <2>2, <2>3, <2>4 DEF PointerInv, Alone
    <2>5. CASE req'[p].old # current
      <3>1. spared \cup ({current} \cap live) \subseteq spared'
        BY <2>1, <2>5
      <3>2. (live' \cap Promised') \ spared' = {}
        BY <2>1, <2>2, <3>1 DEF PointerInv
      <3> QED
        BY <3>2 DEF PointerInv
    <2> QED
      BY <2>4, <2>5
  <1>7. ASSUME NEW p \in Procs, EvictOld(p) PROVE PointerInv'
    <2>1. /\ Alone(p) /\ UNCHANGED <<current, delivered>>
          /\ req[p].pc = "evict" /\ req'[p].pc = "set"
          /\ \/ live' = live \ {req[p].old} /\ spared' = spared
             \/ live' = live /\ spared' = spared \cup ({req[p].old} \cap live)
      BY <1>7, EvictOldDoes
    <2>2. Promised' \subseteq Promised
      BY <2>1, PromisedKept DEF Promises, Tail
    <2>3. (live' \cap Promised') \ spared' = {}
      BY <2>1, <2>2 DEF PointerInv
    <2> QED
      BY <2>3 DEF PointerInv
  <1>8. ASSUME NEW p \in Procs, SetSession(p) PROVE PointerInv'
    <2>1. /\ Alone(p) /\ UNCHANGED <<current, delivered, spared>>
          /\ live' = live \cup {req[p].id} /\ req[p].pc = "set"
          /\ ~Promises(req'[p])
      BY <1>8, SetSessionDoes DEF Promises, Tail
    <2>2. Promised' \subseteq Promised
      BY <2>1, PromisedKept
    <2>3. req[p].id \notin Promised
      BY <2>1 DEF IdInv, Promised, Promises, Owning, InSession, Tail
    <2>4. (live' \cap Promised') \ spared' = {}
      BY <2>1, <2>2, <2>3 DEF PointerInv
    <2> QED
      BY <2>4 DEF PointerInv
  <1>9. ASSUME NEW p \in Procs, SetCurrent(p) PROVE PointerInv'
    <2>1. /\ Alone(p) /\ UNCHANGED <<live, delivered, spared>>
          /\ current' = req[p].id /\ req[p].pc = "point"
          /\ req'[p].pc = "unlock" /\ req'[p].id = req[p].id
      BY <1>9, SetCurrentDoes DEF Keeps
    <2>2. Promised' \subseteq Promised \cup {req[p].id}
      BY <2>1 DEF Promised, Promises, Alone, Tail
    <2>3. (live \cap Promised) \ spared = {}
      BY <2>1 DEF PointerInv
    <2>4. \A q \in Procs : req'[q].pc \notin {"evict", "set", "point"}
      BY <2>1 DEF LockInv, Alone, InSession
    <2> QED
      BY <2>1, <2>2, <2>3, <2>4 DEF PointerInv
  <1>10. ASSUME NEW p \in Procs, UnlockSession(p) PROVE PointerInv'
    BY <1>10, UnlockSessionDoes, PointerKept, Idles
       DEF Turns, Keeps, Number, Failure, Promises, Tail
  <1>11. ASSUME NEW p \in Procs, StoreToken(p) PROVE PointerInv'
    BY <1>11, StoreTokenDoes, PointerKept, Idles
       DEF Turns, Keeps, Number, Failure, Promises, Tail
  <1>12. ASSUME NEW p \in Procs, StoreLookup(p) PROVE PointerInv'
    BY <1>12, StoreLookupDoes, PointerKept, Idles
       DEF Turns, Keeps, Number, Failure, Promises, Tail
  <1>13. ASSUME NEW p \in Procs, NEW s \in Sessions, LookupToken(p, s) PROVE PointerInv'
    <2>1. LET r == [Idle EXCEPT !.pc = "rlock", !.kind = "refresh", !.tok = s]
          IN  r.pc \notin {"evict", "set", "point", "unlock"} \cup Tail
      BY DEF Idle, Tail
    <2> QED
      BY <1>13, LookupTokenDoes, <2>1, PointerKept DEF Promises
  <1>14. ASSUME NEW p \in Procs, LockRefresh(p) PROVE PointerInv'
    BY <1>14, LockRefreshDoes, PointerKept, Idles
       DEF Turns, Keeps, Number, Failure, Promises, Tail
  <1>15. ASSUME NEW p \in Procs, CheckCooling(p) PROVE PointerInv'
    BY <1>15, CheckCoolingDoes, PointerKept, Idles
       DEF Turns, Keeps, Number, Failure, Promises, Tail
  <1>16. ASSUME NEW p \in Procs, CompareStored(p) PROVE PointerInv'
    BY <1>16, CompareStoredDoes, PointerKept, Idles
       DEF Turns, Keeps, Number, Failure, Promises, Tail
  <1>17. ASSUME NEW p \in Procs, SetCooling(p) PROVE PointerInv'
    BY <1>17, SetCoolingDoes, PointerKept, Idles
       DEF Turns, Keeps, Number, Failure, Promises, Tail
  <1>18. ASSUME NEW p \in Procs, AnswerRefresh(p) PROVE PointerInv'
    <2>1. /\ Alone(p) /\ UNCHANGED <<live, current, spared>>
          /\ delivered' = delivered \cup {req[p].id} /\ req[p].pc = "drop"
          /\ req'[p].pc = "runlock"
      BY <1>18, AnswerRefreshDoes, Idles
    <2>2. Promises(req[p]) /\ ~Promises(req'[p])
      BY <2>1 DEF Promises, Tail
    <2>3. Promised' \subseteq Promised
      BY <2>1, <2>2 DEF Promised, Alone
    <2> QED
      BY <2>1, <2>3 DEF PointerInv, Alone
  <1>19. ASSUME NEW p \in Procs, UnlockRefresh(p) PROVE PointerInv'
    BY <1>19, UnlockRefreshDoes, PointerKept, Idles
       DEF Turns, Keeps, Number, Failure, Promises, Tail
  <1>20. ASSUME NEW p \in Procs, NEW s \in Sessions, LogoutRead(p, s) PROVE PointerInv'
    BY <1>20, LogoutReadDoes, PointerKept DEF Promises, Tail
  <1>21. ASSUME NEW p \in Procs, LogoutDelete(p) PROVE PointerInv'
    <2>1. /\ Alone(p) /\ delivered' = delivered /\ req'[p] = Idle
          /\ live' \in {live, live \ {req[p].id}}
      BY <1>21, LogoutDeleteDoes
    <2>2. Promised' \subseteq Promised
      BY <2>1, PromisedKept, Idles DEF Promises, Tail
    <2>3. CASE UNCHANGED <<current, spared>>
      BY <2>1, <2>2, <2>3, Idles, PointerKept DEF Promises, Tail
    <2>4. CASE spared' = spared \cup ({current} \cap live')
      <3>1. (live' \cap Promised') \ spared' = {}
        BY <2>1, <2>2, <2>4 DEF PointerInv
      <3> QED
        BY <3>1 DEF PointerInv
    <2> QED
      BY <1>21, LogoutDeleteDoes, <2>3, <2>4
  <1>22. ASSUME NEW p \in Procs, Fail(p) PROVE PointerInv'
    BY <1>22, FailDoes, PointerKept, Idles
       DEF Turns, Keeps, Number, Failure, Promises, Tail
  <1>23. CASE Expire
    BY <1>23, Frames
       DEF Expire, ExpireLock, ExpireRefreshLock, ExpireCooling, PointerInv, Promised
  <1>24. CASE Crash
    <2>1. /\ \A p \in Procs : req'[p] = Idle
          /\ UNCHANGED <<delivered, spared>>
          /\ UNCHANGED <<live, current>> \/ live' = {}
      BY <1>24, CrashDoes
    <2>2. Promised' \subseteq Promised
      BY <2>1, Idles DEF Promised, Promises, Tail
    <2> QED
      BY <2>1, <2>2, Idles DEF PointerInv
  <1>25. CASE UNCHANGED vars
    BY <1>25, Frames DEF vars, PointerInv, Promised
  <1> QED
    BY <1>1, <1>2, <1>3, <1>4, <1>5, <1>6, <1>7, <1>8, <1>9, <1>10, <1>11,
       <1>12, <1>13, <1>14, <1>15, <1>16, <1>17, <1>18, <1>19, <1>20, <1>21,
       <1>22, <1>23, <1>24, <1>25
       DEF Next, HandlerStep, LoginStep, EnforceStep, RefreshStep, LogoutStep

LEMMA PointerOne == PointerInv => OneLiveSession
  BY DEF OneLiveSession, PointerInv, Accepted, Promised

\* Of the tokens clients were given only the one session:current names is accepted,
\* but for sessions an ignored error of Get or Del left live and those whose pointer
\* another session's logout deleted; where holders of the session lock are faster
\* than its ttl.
THEOREM SessionCorrect ==
    ASSUME ~SlowHolders
    PROVE  Spec => []OneLiveSession
  <1>1. Init => IdInv /\ LockInv /\ PointerInv
    BY Idles DEF Init, IdInv, LockInv, PointerInv, Owning, InSession
  <1>2. TypeOK /\ KindInv /\ IdInv /\ LockInv /\ PointerInv /\ [Next]_vars
          => IdInv' /\ LockInv' /\ PointerInv'
    BY IdStep, LockStep, PointerStep
  <1> QED
    BY <1>1, <1>2, KindCorrect, PointerOne, PTL DEF Spec
=============================================================================
