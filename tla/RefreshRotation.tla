--------------------------- MODULE RefreshRotation ---------------------------
(***************************************************************************)
(* Refresh-token rotation of the host's OAuth2 exchanger                   *)
(* (internal/auth/exchange.go, internal/auth/refreshgrace.go).             *)
(*                                                                         *)
(* A request redeems a refresh token in a series of cache calls, any two   *)
(* of which another request (on this or another replica) may separate:     *)
(*                                                                         *)
(*   GetAndDelete -> mark in flight -> checks, mint -> Set successor       *)
(*       -> publish to the grace cache                                     *)
(*                                                                         *)
(* A server error after the GetAndDelete puts the record back; a caller    *)
(* that loses the GetAndDelete polls the grace cache for the winner's      *)
(* result.  RevokeRefreshToken (logout) is the third party of the race.    *)
(* Every cache call may fail, with or without having taken effect, and a   *)
(* request may die with its replica between any two calls.                 *)
(***************************************************************************)
EXTENDS Naturals, FiniteSets

CONSTANTS
  Procs,           \* request goroutines, of any replica
  Tokens,          \* refresh-token ids (rand.Text())
  Clients,         \* OAuth clients ("" is one: the browser session)
  NoToken,         \* the empty token id
  RefreshTTL,      \* e.refreshTokenTTL, in seconds
  MaxSessionAge,   \* e.maxSessionAge, in seconds
  ReplayAttempts,  \* graceReplayAttempts
  FastBailout,     \* graceFastBailoutAttempts
  MaxLogins,       \* bound on logins, hence on lineages
  MaxTime,         \* bound on the clock
  MaxFaults        \* bound on failed cache calls and crashes

ASSUME ConstantsAssumption ==
  /\ NoToken \notin Tokens /\ NoToken \notin Clients
  /\ RefreshTTL \in Nat \ {0} /\ MaxSessionAge \in Nat \ {0}
  /\ ReplayAttempts \in Nat \ {0} /\ FastBailout \in 1 .. ReplayAttempts
  /\ MaxLogins \in Nat /\ MaxTime \in Nat /\ MaxFaults \in Nat

VARIABLES
  now,       \* wall clock, in seconds
  claims,    \* claims[t]: the RefreshTokenClaims written for t, or NoClaims
  store,     \* refreshTokenCache: when t's entry expires, 0 if it has none
  grace,     \* refreshGraceCache: the graceRecord under t, or NoGrace
  tomb,      \* ids with a "revoked:" tombstone in refreshTokenCache
  pc,        \* pc[p]: the next cache call of request p, or "idle"
  req,       \* req[p]: what request p presented and its locals, or NoReq
  faults,    \* failed cache calls and crashes so far
  \* History: what the callers and the properties know.
  root,      \* the token the login issued, for every token of its lineage
  held,      \* ids some caller was answered with
  orphan,    \* ids whose Set reported an error and took effect
  answers,   \* answers[t]: the successes returned to callers presenting t
  loggedOut, \* tokens whose logout completed
  ended,     \* those whose logout found the record and cleared both keys
  stranded,  \* ids whose in-flight marker could not be cleared
  closed     \* lineages that ended for a reason: refusal, logout, expiry, fault

cacheVars == <<claims, store, grace, tomb>>
histVars  == <<root, held, orphan, answers, loggedOut, ended, stranded, closed>>
vars      == <<now, cacheVars, pc, req, faults, histVars>>

NoClaims == [client |-> NoToken, orig |-> 0, exp |-> 0, pred |-> NoToken]
NoGrace  == [kind |-> "none", client |-> NoToken, token |-> NoToken]
Pending(c)   == [kind |-> "pending", client |-> c, token |-> NoToken]
Result(c, n) == [kind |-> "result", client |-> c, token |-> n]

\* The presented token and client, whether the request began after the
\* logout of its token completed, the loop counter of replayFromGrace, the
\* successor it created (for a logout: the predecessor it read) and, for a
\* logout, how its calls went.
NoReq == [tok |-> NoToken, cid |-> NoToken, late |-> FALSE, attempt |-> 0,
          new |-> NoToken, went |-> "none"]
Begin(t, c) == [tok |-> t, cid |-> c, late |-> t \in loggedOut, attempt |-> 0,
                new |-> NoToken, went |-> "none"]
BeginLogout(t, pred, went) ==
  [tok |-> t, cid |-> NoToken, late |-> FALSE, attempt |-> 0, new |-> pred, went |-> went]

Wents == {"none", "found", "partial", "server"}

\* "clear" returns an error after the deferred cleanup, "clearUnpublished" the
\* successor that could not be published; "await" is "poll" after the
\* in-flight marker was seen.
RedeemPCs == {"mark", "validate", "authorise", "create", "publish", "restoreCheck",
              "restore", "clear", "clearUnpublished", "poll", "await"}
LogoutPCs == {"logoutTomb", "logoutGrace", "logoutPred"}
\* The redemption holds the consumed record and has not given it up.
CustodyPCs == {"mark", "validate", "authorise", "create", "restoreCheck", "restore"}
\* It may have written the in-flight marker and will still clear it.
MarkerPCs  == {"validate", "authorise", "create", "publish",
               "restoreCheck", "restore", "clear", "clearUnpublished"}

Live(t)  == store[t] > now
Known(t) == claims[t] # NoClaims
Holds(p) == pc[p] \in CustodyPCs
IsResult(t) == grace[t].kind = "result"
Closed(t)   == closed \cup {root[t]}

-----------------------------------------------------------------------------
(* Faults.  A cache call that reports an error may still have taken effect *)
(* (a reply lost on the way back).                                         *)

NoFault  == UNCHANGED faults
Fault    == faults < MaxFaults /\ faults' = faults + 1
AnyFault == NoFault \/ Fault

Step(p, l) == pc' = [pc EXCEPT ![p] = l]
Goto(p, l) == Step(p, l) /\ UNCHANGED req
Return(p)  == Step(p, "idle") /\ req' = [req EXCEPT ![p] = NoReq]

\* The request answers its caller with the successor n.
Hand(p, n) ==
  /\ Return(p)
  /\ held' = held \cup {n}
  /\ answers' = [answers EXCEPT ![req[p].tok] =
                   @ \cup {[token |-> n, client |-> req[p].cid, late |-> req[p].late]}]

\* A server error runs the deferred restore first; a refusal of the grant has
\* consumed the record for good and runs only the deferred clear.
RefuseAndRestore(p) ==   \* mutant: restore on every error
  Goto(p, "restoreCheck") /\ closed' = Closed(req[p].tok)
Refuse(p) ==
  Goto(p, "clear") /\ closed' = Closed(req[p].tok)

ServerErrorNoRestore(p) ==   \* mutant: the record is not put back
  Goto(p, "clear") /\ UNCHANGED closed
ServerError(p) ==
  Goto(p, "restoreCheck") /\ UNCHANGED closed

-----------------------------------------------------------------------------
Init ==
  /\ now = 1
  /\ claims = [t \in Tokens |-> NoClaims]
  /\ store = [t \in Tokens |-> 0]
  /\ grace = [t \in Tokens |-> NoGrace]
  /\ tomb = {}
  /\ pc = [p \in Procs |-> "idle"]
  /\ req = [p \in Procs |-> NoReq]
  /\ faults = 0
  /\ root = [t \in Tokens |-> NoToken]
  /\ held = {} /\ orphan = {}
  /\ answers = [t \in Tokens |-> {}]
  /\ loggedOut = {} /\ ended = {} /\ stranded = {} /\ closed = {}

\* createRefreshToken: what is written for a new id.  The cache entry takes
\* the class's TTL, which is refreshTokenTTL too.
NewClaims(c, orig, pred) ==
  [client |-> c, orig |-> IF orig = 0 THEN now ELSE orig,
   exp |-> now + RefreshTTL, pred |-> pred]

CreateRefreshToken(n, c, orig, pred) ==
  /\ claims' = [claims EXCEPT ![n] = NewClaims(c, orig, pred)]
  /\ store' = [store EXCEPT ![n] = now + RefreshTTL]
  /\ root' = [root EXCEPT ![n] = IF pred = NoToken THEN n ELSE root[pred]]

\* The bound on ids: one is kept for every request about to create.
Spare == Cardinality({t \in Tokens : ~Known(t)}) > Cardinality({p \in Procs : pc[p] = "create"})

\* A completed login (password, code or upstream) issues the first token.
Login(n, c) ==
  /\ ~Known(n) /\ Spare
  /\ Cardinality({t \in Tokens : root[t] = t}) < MaxLogins
  /\ CreateRefreshToken(n, c, 0, NoToken)
  /\ held' = held \cup {n}
  /\ UNCHANGED <<now, grace, tomb, pc, req, faults, orphan, answers, loggedOut,
                 ended, stranded, closed>>

Tick ==
  /\ now < MaxTime
  /\ now' = now + 1
  /\ UNCHANGED <<cacheVars, pc, req, faults, histVars>>

\* The grace window of an entry elapses.
ExpireGrace(t) ==
  /\ grace[t] # NoGrace
  /\ grace' = [grace EXCEPT ![t] = NoGrace]
  /\ UNCHANGED <<now, claims, store, tomb, pc, req, faults, histVars>>

\* refreshRevokeTombstoneTTL: five minutes outlive every request in flight.
ExpireTombstone(t) ==
  /\ t \in tomb
  /\ \A p \in Procs : req[p].tok # t
  /\ tomb' = tomb \ {t}
  /\ UNCHANGED <<now, claims, store, grace, pc, req, faults, histVars>>

-----------------------------------------------------------------------------
(* RedeemRefreshToken                                                      *)

\* GetAndDelete takes the record out of the cache: the caller's to keep, or,
\* when nobody carries it on, the end of the lineage.
RemoveLater(t) == UNCHANGED store   \* mutant: Get, with the Delete left for later
Remove(t) == store' = [store EXCEPT ![t] = 0]
LoseRecord(t) == Remove(t) /\ closed' = IF store[t] # 0 THEN Closed(t) ELSE closed

\* GetAndDelete consumes the record, or finds none and turns to the grace
\* cache.  An error is answered at once: the compensation is not armed yet.
RedeemConsume(p, t, c) ==
  /\ pc[p] = "idle"
  /\ \/ /\ NoFault /\ Live(t) /\ Remove(t) /\ UNCHANGED closed
        /\ Step(p, "mark") /\ req' = [req EXCEPT ![p] = Begin(t, c)]
     \/ /\ NoFault /\ ~Live(t) /\ UNCHANGED <<store, closed>>
        /\ Step(p, "poll") /\ req' = [req EXCEPT ![p] = Begin(t, c)]
     \/ /\ Fault /\ (LoseRecord(t) \/ UNCHANGED <<store, closed>>)
        /\ UNCHANGED <<pc, req>>
  /\ UNCHANGED <<now, claims, grace, tomb, root, held, orphan, answers,
                 loggedOut, ended, stranded>>

\* markGraceInFlight: best effort.
RedeemMark(p) ==
  /\ pc[p] = "mark"
  /\ LET t == req[p].tok
     IN \/ AnyFault /\ grace' = [grace EXCEPT ![t] = Pending(claims[t].client)]
        \/ Fault /\ UNCHANGED grace
  /\ Goto(p, "validate")
  /\ UNCHANGED <<now, claims, store, tomb, histVars>>

Expired(t)     == now > claims[t].exp
TooOld(t)      == now - claims[t].orig > MaxSessionAge
WrongClient(p) == claims[req[p].tok].client # req[p].cid

\* The checks on the record itself.  The subject's revocations are asked for
\* before the client is compared, and that may fail with a server error.
RedeemValidate(p) ==
  /\ pc[p] = "validate"
  /\ IF Expired(req[p].tok) \/ TooOld(req[p].tok) \/ WrongClient(p)
       THEN \/ Refuse(p)
            \/ ~Expired(req[p].tok) /\ ~TooOld(req[p].tok) /\ ServerError(p)
       ELSE Goto(p, "authorise") /\ UNCHANGED closed
  /\ UNCHANGED <<now, cacheVars, faults, root, held, orphan, answers, loggedOut,
                 ended, stranded>>

\* The checks that ask other components (subject revocation, client registry,
\* consent, upstream provider) and the signing: each may refuse the grant or
\* fail with a server error.
RedeemAuthorise(p) ==
  /\ pc[p] = "authorise"
  /\ \/ Spare /\ Goto(p, "create") /\ UNCHANGED closed
     \/ Refuse(p)
     \/ ServerError(p)
  /\ UNCHANGED <<now, cacheVars, faults, root, held, orphan, answers, loggedOut,
                 ended, stranded>>

\* The successor, under a fresh id, keeps the lineage's origin.
RedeemCreate(p, n) ==
  /\ pc[p] = "create" /\ ~Known(n)
  /\ LET t == req[p].tok
         Write == CreateRefreshToken(n, claims[t].client, claims[t].orig, t)
     IN \/ /\ NoFault /\ Write
           /\ Step(p, "publish") /\ req' = [req EXCEPT ![p].new = n]
           /\ UNCHANGED <<orphan, closed>>
        \/ Fault /\ ServerError(p) /\ Write /\ orphan' = orphan \cup {n}
        \/ Fault /\ ServerError(p) /\ UNCHANGED <<claims, store, root, orphan>>
  /\ UNCHANGED <<now, grace, tomb, held, answers, loggedOut, ended, stranded>>

\* publishToGrace.  Only a publish that reported success disarms the clear.
PublishFailedDisarmed(p) == Hand(p, req[p].new)   \* mutant: published set regardless
PublishFailed(p) == Goto(p, "clearUnpublished") /\ UNCHANGED <<held, answers>>

RedeemPublish(p) ==
  /\ pc[p] = "publish"
  /\ LET t == req[p].tok
         Set == grace' = [grace EXCEPT ![t] = Result(claims[t].client, req[p].new)]
     IN \/ NoFault /\ Set /\ Hand(p, req[p].new)
        \/ Fault /\ (Set \/ UNCHANGED grace) /\ PublishFailed(p)
  /\ UNCHANGED <<now, claims, store, tomb, root, orphan, loggedOut, ended, stranded, closed>>

\* restoreConsumedRefreshToken, first call: an unreadable tombstone counts as
\* none, and an expired record is not restored.
RedeemRestoreCheck(p) ==
  /\ pc[p] = "restoreCheck"
  /\ LET t       == req[p].tok
         Drop    == Goto(p, "clear") /\ closed' = Closed(t)
         Restore == Goto(p, "restore") /\ UNCHANGED closed
     IN \/ NoFault /\ (IF t \in tomb \/ claims[t].exp <= now THEN Drop ELSE Restore)
        \/ Fault /\ (IF claims[t].exp <= now THEN Drop ELSE Restore)
  /\ UNCHANGED <<now, cacheVars, root, held, orphan, answers, loggedOut, ended, stranded>>

\* Second call: Set with the record's remaining lifetime.
RestoredUntil(t) == claims[t].exp

RedeemRestore(p) ==
  /\ pc[p] = "restore"
  /\ LET t == req[p].tok
     IN \/ AnyFault /\ store' = [store EXCEPT ![t] = RestoredUntil(t)] /\ UNCHANGED closed
        \/ Fault /\ UNCHANGED store /\ closed' = Closed(t)
  /\ Goto(p, "clear")
  /\ UNCHANGED <<now, claims, grace, tomb, root, held, orphan, answers, loggedOut,
                 ended, stranded>>

\* clearGraceInFlight, then the answer: the error, or the unpublished result.
RedeemClear(p) ==
  /\ pc[p] \in {"clear", "clearUnpublished"}
  /\ LET t == req[p].tok
     IN \/ AnyFault /\ grace' = [grace EXCEPT ![t] = NoGrace] /\ UNCHANGED stranded
        \/ Fault /\ UNCHANGED grace /\ stranded' = stranded \cup {t}
  /\ IF pc[p] = "clearUnpublished"
       THEN Hand(p, req[p].new)
       ELSE Return(p) /\ UNCHANGED <<held, answers>>
  /\ UNCHANGED <<now, claims, store, tomb, root, orphan, loggedOut, ended, closed>>

\* replayFromGrace, one attempt per step.  A poll that ends without a result,
\* a record of another client, a failed read and a cancelled wait are all
\* errors; which class (a record that came back meanwhile means "retry")
\* changes no state.
ReplayAllowedToAll(g, c) == TRUE   \* mutant: no client binding on replay
ReplayAllowed(g, c) == g.client = c

PollResult(p) ==
  LET g == grace[req[p].tok]
  IN /\ g.kind = "result"
     /\ IF ReplayAllowed(g, req[p].cid)
          THEN Hand(p, g.token)
          ELSE Return(p) /\ UNCHANGED <<held, answers>>

PollOver(p, entry) ==
  \/ entry = "none" /\ (pc[p] = "await" \/ req[p].attempt = FastBailout - 1)
  \/ req[p].attempt = ReplayAttempts - 1

SameAttempt(i) == i   \* mutant: the loop does not count
NextAttempt(i) == i + 1

PollAgain(p) ==
  LET entry == grace[req[p].tok].kind
  IN /\ entry # "result"
     /\ \/ PollOver(p, entry) /\ Return(p)
        \/ /\ ~PollOver(p, entry)
           /\ Step(p, IF entry = "pending" THEN "await" ELSE pc[p])
           /\ req' = [req EXCEPT ![p].attempt = NextAttempt(@)]
     /\ UNCHANGED <<held, answers>>

RedeemPoll(p) ==
  /\ pc[p] \in {"poll", "await"}
  /\ \/ NoFault /\ (PollResult(p) \/ PollAgain(p))
     \/ Fault /\ Return(p) /\ UNCHANGED <<held, answers>>
  /\ UNCHANGED <<now, cacheVars, root, orphan, loggedOut, ended, stranded, closed>>

-----------------------------------------------------------------------------
(* RevokeRefreshToken.  It went "found" when the record was there and no   *)
(* call failed so far, "partial" when a best-effort call failed after that.*)

LogoutConsume(p, t) ==
  /\ pc[p] = "idle" /\ Step(p, "logoutTomb")
  /\ LET Read(pred, went) == req' = [req EXCEPT ![p] = BeginLogout(t, pred, went)]
     IN \/ NoFault /\ Live(t) /\ Read(claims[t].pred, "found") /\ LoseRecord(t)
        \/ NoFault /\ ~Live(t) /\ Read(NoToken, "none") /\ UNCHANGED <<store, closed>>
        \/ Fault /\ Read(NoToken, "server") /\ (LoseRecord(t) \/ UNCHANGED <<store, closed>>)
  /\ UNCHANGED <<now, claims, grace, tomb, root, held, orphan, answers,
                 loggedOut, ended, stranded>>

Partial(went) == IF went = "found" THEN "partial" ELSE went

LogoutTombstone(p) ==
  /\ pc[p] = "logoutTomb" /\ Step(p, "logoutGrace")
  /\ \/ NoFault /\ tomb' = tomb \cup {req[p].tok} /\ UNCHANGED req
     \/ /\ Fault /\ tomb' \in {tomb, tomb \cup {req[p].tok}}
        /\ req' = [req EXCEPT ![p].went = Partial(@)]
  /\ UNCHANGED <<now, claims, store, grace, histVars>>

\* One best-effort deletion of a grace record: before and after it.
LogoutDelete(t, went, went2) ==
  \/ NoFault /\ grace' = [grace EXCEPT ![t] = NoGrace] /\ went2 = went
  \/ Fault /\ grace' \in {grace, [grace EXCEPT ![t] = NoGrace]} /\ went2 = Partial(went)

LogoutDone(p, went) ==
  /\ Return(p)
  /\ loggedOut' = IF went = "server" THEN loggedOut ELSE loggedOut \cup {req[p].tok}
  /\ ended' = IF went = "found" THEN ended \cup {req[p].tok} ELSE ended

NoPredecessor(r) == FALSE   \* mutant: only the token's own grace record is deleted
HasPredecessor(r) == r.new # NoToken

LogoutGrace(p) ==
  /\ pc[p] = "logoutGrace"
  /\ \E went \in Wents :
        /\ LogoutDelete(req[p].tok, req[p].went, went)
        /\ IF HasPredecessor(req[p])
             THEN /\ Step(p, "logoutPred") /\ req' = [req EXCEPT ![p].went = went]
                  /\ UNCHANGED <<loggedOut, ended>>
             ELSE LogoutDone(p, went)
  /\ UNCHANGED <<now, claims, store, tomb, root, held, orphan, answers, stranded, closed>>

LogoutPred(p) ==
  /\ pc[p] = "logoutPred"
  /\ \E went \in Wents : LogoutDelete(req[p].new, req[p].went, went) /\ LogoutDone(p, went)
  /\ UNCHANGED <<now, claims, store, tomb, root, held, orphan, answers, stranded, closed>>

\* The replica dies between two calls of the request.
Crash(p) ==
  /\ pc[p] # "idle" /\ Fault
  /\ Return(p)
  /\ stranded' = IF pc[p] \in MarkerPCs THEN stranded \cup {req[p].tok} ELSE stranded
  /\ closed' = IF Holds(p) THEN Closed(req[p].tok) ELSE closed
  /\ UNCHANGED <<now, cacheVars, root, held, orphan, answers, loggedOut, ended>>

-----------------------------------------------------------------------------
Redeem(p) ==
  \/ RedeemMark(p) \/ RedeemValidate(p) \/ RedeemAuthorise(p)
  \/ \E n \in Tokens : RedeemCreate(p, n)
  \/ RedeemPublish(p) \/ RedeemRestoreCheck(p) \/ RedeemRestore(p) \/ RedeemClear(p)
  \/ RedeemPoll(p)

Logout(p) == LogoutTombstone(p) \/ LogoutGrace(p) \/ LogoutPred(p)

Next ==
  \/ Tick
  \/ \E n \in Tokens, c \in Clients : Login(n, c)
  \/ \E t \in Tokens : ExpireGrace(t) \/ ExpireTombstone(t)
  \/ \E p \in Procs, t \in held :
        (\E c \in Clients : RedeemConsume(p, t, c)) \/ LogoutConsume(p, t)
  \/ \E p \in Procs : Redeem(p) \/ Logout(p) \/ Crash(p)

Spec == Init /\ [][Next]_vars

\* A goroutine that runs keeps running: every request takes its next call.
Fairness == \A p \in Procs : WF_vars(Redeem(p) \/ Logout(p))
FairSpec == Spec /\ Fairness

-----------------------------------------------------------------------------
(* Properties                                                              *)

ClaimsRec == [client : Clients, orig : Nat, exp : Nat, pred : Tokens \cup {NoToken}]
GraceRec  == {NoGrace}
             \cup [kind : {"pending"}, client : Clients, token : {NoToken}]
             \cup [kind : {"result"}, client : Clients, token : Tokens]
ReqRec    == [tok : Tokens \cup {NoToken}, cid : Clients \cup {NoToken}, late : BOOLEAN,
              attempt : 0 .. ReplayAttempts - 1, new : Tokens \cup {NoToken}, went : Wents]

TypeOK ==
  /\ now \in Nat /\ faults \in Nat
  /\ claims \in [Tokens -> ClaimsRec \cup {NoClaims}]
  /\ store \in [Tokens -> Nat]
  /\ grace \in [Tokens -> GraceRec]
  /\ tomb \in SUBSET Tokens
  /\ pc \in [Procs -> {"idle"} \cup RedeemPCs \cup LogoutPCs]
  /\ req \in [Procs -> ReqRec]
  /\ root \in [Tokens -> Tokens \cup {NoToken}]
  /\ held \in SUBSET Tokens /\ orphan \in SUBSET Tokens
  /\ answers \in [Tokens -> SUBSET [token : Tokens, client : Clients, late : BOOLEAN]]
  /\ loggedOut \in SUBSET Tokens /\ ended \in SUBSET Tokens
  /\ stranded \in SUBSET Tokens /\ closed \in SUBSET Tokens

\* A record that is in the cache, or out of it in the hands of a redemption
\* that may still put it back, with the lineage it carries on.
Stored(t)  == store[t] # 0 /\ t \notin orphan
Carried(p, t) == Holds(p) /\ req[p].tok = t

\* The session lineages this cache state stands for (SingleUseSession).
Session == INSTANCE SingleUseSession WITH
  root  <- [t \in Tokens |-> IF t \in orphan THEN NoToken ELSE root[t]],
  live  <- {t \in Tokens : Stored(t)},
  taken <- {t \in Tokens : \E p \in Procs : Carried(p, t)},
  over  <- closed,
  succ  <- {tn \in Tokens \X Tokens : tn[2] \notin orphan /\ claims[tn[2]].pred = tn[1]},
  given <- {tn \in Tokens \X Tokens : \E a \in answers[tn[1]] : a.token = tn[2]}

\* Rotation implements the abstract single-use session: whatever the cache
\* calls of concurrent redemptions and logouts interleave to, each step is a
\* take, a rotation, a put-back, an end or an answer of one lineage.
ImplementsSession == Session!Spec

\* Of every login's lineage at most one refresh token is alive: one record in
\* the cache, or one redemption holding it, never both and never two.  This
\* is the single-use guarantee of the GetAndDelete, with the deferred restore
\* and the successor's Set in play.
SingleLineage ==
  \A t, u \in Tokens : root[t] # NoToken /\ root[t] = root[u] =>
     /\ Stored(t) /\ Stored(u) => t = u
     /\ \A p \in Procs : ~(Stored(t) /\ Carried(p, u))
     /\ \A p, q \in Procs : Carried(p, t) /\ Carried(q, u) => p = q

\* No session is lost silently: a lineage whose token a caller was given is
\* in the cache or in a redemption's hands unless a refusal, a logout, the
\* expiry of the record or a lost cache write ended it.  A server error
\* during a rotation never ends one.
SessionConserved ==
  \A t \in held : root[t] \notin closed =>
     \E u \in Tokens : /\ root[u] = root[t]
                       /\ Stored(u) \/ \E p \in Procs : Carried(p, u)

\* A lineage that ended stays ended: once a refusal, a found logout or a lost
\* record closed it, no restore or rotation still in flight brings it back.
ClosedStaysClosed ==
  \A t \in Tokens : root[t] \in closed =>
     ~Stored(t) /\ \A p \in Procs : ~Carried(p, t)

\* A redemption succeeds only for the client the token was issued to, on the
\* strict path and on the replay path, and continues the same lineage.
ClientBound ==
  \A t \in Tokens : \A a \in answers[t] :
     /\ a.client = claims[t].client /\ claims[a.token].client = claims[t].client
     /\ root[a.token] = root[t]

\* Rotation passes its checks only within maxSessionAge of the login that
\* started the lineage, however many rotations lie between.
SessionCapped ==
  [][\A p \in Procs : pc[p] = "validate" /\ pc'[p] = "authorise" =>
        now - claims[root[req[p].tok]].orig <= MaxSessionAge]_vars

\* An in-flight marker always has a redemption behind it that will overwrite
\* or clear it, unless that redemption crashed or its delete failed: losers
\* never wait on a marker nobody owns.
MarkerOwned ==
  \A t \in Tokens : grace[t].kind = "pending" =>
     \/ t \in stranded
     \/ \E p \in Procs : req[p].tok = t /\ pc[p] \in MarkerPCs

\* A logout that found the record and whose deletes succeeded is final: the
\* token is neither stored nor in anyone's hands, and neither its own nor its
\* predecessor's grace record replays a result.
EndedIsFinal ==
  \A t \in ended :
     /\ ~Stored(t) /\ \A p \in Procs : ~Carried(p, t)
     /\ ~IsResult(t)
     /\ claims[t].pred # NoToken => ~IsResult(claims[t].pred)

\* Every request is answered: the poll is bounded and nothing waits on
\* another request.
EveryRequestAnswered == \A p \in Procs : pc[p] # "idle" ~> pc[p] = "idle"

-----------------------------------------------------------------------------
(* What the comments claim and the interleavings refute                    *)

\* exchange.go, restoreConsumedRefreshToken: "A revocation that landed while
\* this redemption held the consumed record must win."  A token whose logout
\* completed is not in the cache.
RevocationWins == \A t \in loggedOut : ~Live(t)

\* exchange.go, RevokeRefreshToken: "so a stolen `_refresh` cookie value
\* cannot be replayed after the user logs out".  A redemption that begins
\* after the logout of its token completed does not succeed.
LogoutEndsReplay == \A t \in Tokens : \A a \in answers[t] : ~a.late

\* refreshgrace.go, publishToGrace: "makes the winner's result replayable for
\* the window".  A cleanup of a redemption never deletes a published result.
PublishedIsReplayable ==
  [][\A p \in Procs, t \in Tokens :
        pc[p] = "clear" /\ pc'[p] = "idle" /\ IsResult(t) => IsResult(t)']_vars

\* exchange.go, RevokeRefreshToken: "It also tears down the #169 grace records
\* that can still replay this session".  After a complete logout no grace
\* record of the lineage holds a result.
LogoutTearsDownGrace ==
  \A t \in ended, u \in Tokens : root[u] = root[t] => ~IsResult(u)
=============================================================================
