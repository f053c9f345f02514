------------------------------ MODULE Revocation ------------------------------
(***************************************************************************)
(* Revocation of API tokens (internal/auth/apitoken/apitoken.go) for one   *)
(* subject of one host: the revocation store every replica shares, the     *)
(* cycled legacy class it replaced, and the sweep that adopts what host    *)
(* reconfigurations stranded in it (kdexinternalhost_controller.go).       *)
(*                                                                         *)
(* A token is named by a jti, the hash of its audience, subject and act:   *)
(* a key minted again carries the same jti, and only its issue time tells  *)
(* it from the revoked one.  Replicas read their own clocks, which lag the *)
(* true time by at most MaxLag.  A revocation is two calls (store, then    *)
(* legacy class), each of which reads the clock for itself, and may stop   *)
(* after either; cache.Update is atomic.                                   *)
(***************************************************************************)
EXTENDS Integers, FiniteSets

CONSTANTS Settings,  \* the deployments: replicas, clocks, lifetimes and bounds
          Jtis,      \* the subject's token names
          Sub,       \* the store key of a subject-wide revocation
          NoEntry,   \* no entry under a key
          NoGen,     \* no generation
          Second     \* ticks per second: session times are whole seconds

ASSUME RevocationConstants ==
    /\ Sub \notin Jtis /\ NoGen \notin Nat /\ NoEntry \notin [at : Int, until : Int]
    /\ Second \in Nat \ {0}
    /\ \A s \in Settings :
         /\ s.replicas \cap s.old = {}
         /\ {s.maxTime, s.maxLag, s.horizon, s.maxTTL, s.sessionTTL, s.maxTokens, s.maxGen} \subseteq Nat
         /\ s.ttls \subseteq Nat \ {0}
         /\ {s.sweepsFail, s.swept} \subseteq BOOLEAN
         \* Clock skew and sessions are short against the ten-year horizon.
         /\ s.maxTTL + s.maxLag <= s.horizon
         /\ s.sessionTTL + s.maxLag <= s.horizon

VARIABLES setting,  \* the deployment
          now,      \* the true time, in ticks
          lag,      \* how far each replica's clock is behind
          store,    \* RevocationClass: one entry per jti and one for Sub
          legacy,   \* LegacyRevocationClass: per generation, one entry per jti
          gen,      \* the generation each replica's legacy handle is at
          prev,     \* and the previous one it still reads
          tokens,   \* the API tokens minted
          pc,       \* where each replica's request stands
          req,      \* and the request
          sweep,    \* each replica's revocationSweep and the running pass (failed:
                    \* history, whether the last pass failed)
          acked,    \* latest time up to which a caller was told "revoked", per key
          asked,    \* latest time any revocation of the key has read, per key
          fresh     \* generation from which no untimed entry of a jti is read

vars == <<setting, now, lag, store, legacy, gen, prev, tokens, pc, req, sweep,
          acked, asked, fresh>>

Replicas          == setting.replicas    \* replicas running this code
OldReplicas       == setting.old         \* replicas still on v0.27.x (rolling upgrade)
MaxTime           == setting.maxTime     \* bound on the clock
MaxLag            == setting.maxLag      \* bound on a replica's clock lag
RevocationHorizon == setting.horizon     \* const RevocationHorizon
MaxTTL            == setting.maxTTL      \* TokenManager.maxTTL; 0 leaves lifetimes unbounded
TTLs              == setting.ttls        \* lifetimes a caller asks for
SessionTTL        == setting.sessionTTL  \* how long a session may be used after sign-in
MaxTokens         == setting.maxTokens   \* bound on the tokens minted
SweepsFail        == setting.sweepsFail  \* whether the cache may fail a sweep
MaxGen            == setting.maxGen      \* bound on host generations

All == Replicas \cup OldReplicas
Keys == Jtis \cup {Sub}
Gens == 0..MaxGen

\* A value with no readable time (written before revocations carried one).
Untimed == -1

Before == -2          \* earlier than every time
Times == 0..MaxTime
Entries == [at : Times \cup {Untimed}, until : Nat]
Tokens == [jti : Jtis, iat : Times, exp : Nat, auth : Times, known : Times \cup {Before}]
Requests == [key : Keys, at : Times, again : Times, ttl : Nat, auth : Times,
             known : Times \cup {Before}]
Sweeps == [running : BOOLEAN, due : BOOLEAN, adopted : Gens \cup {NoGen},
           generation : Gens \cup {NoGen}, left : SUBSET Gens, failed : BOOLEAN,
           found : [Jtis -> Entries \cup {NoEntry}]]

Clock(r) == now - lag[r]
----------------------------------------------------------------------------
(* The value of one entry.                                                 *)

\* RevocationTTL: the shortest lifetime of a revocation.
RevocationTTLAsAsked == 1
RevocationTTL == IF RevocationHorizon > MaxTTL THEN RevocationHorizon ELSE MaxTTL

\* recordRevocation's update: the stored time never moves backwards, the ttl
\* is the caller's raised to RevocationTTL.
RecordRevocationOverwrites(e, at, ttl) ==
    [at |-> at, until |-> now + (IF ttl > RevocationTTL THEN ttl ELSE RevocationTTL)]
RecordRevocationKeepsUntimed(e, at, ttl) ==
    [at    |-> IF e # NoEntry /\ (e.at = Untimed \/ e.at > at) THEN e.at ELSE at,
     until |-> now + (IF ttl > RevocationTTL THEN ttl ELSE RevocationTTL)]
RecordRevocation(e, at, ttl) ==
    [at    |-> IF e # NoEntry /\ e.at > at THEN e.at ELSE at,
     until |-> now + (IF ttl > RevocationTTL THEN ttl ELSE RevocationTTL)]

\* latestRevocation: the later of two values; a timed one is later than an
\* untimed one, whose time Untimed is below every other.
LatestRevocation(a, b) == IF b.at > a.at THEN b ELSE a

\* What the sweep keeps of the entries two generations hold under one key.
\* (prior and e hold their remaining ttl here.)
Strongest(prior, e) ==
    IF prior = NoEntry THEN e
    ELSE [at    |-> LatestRevocation(prior, e).at,
          until |-> IF e.until > prior.until THEN e.until ELSE prior.until]

\* revokedNoEarlierThan: an entry covers what was issued at or before it, and
\* everything when it has no time.
RevokedNoEarlierThan(e, iat) == e.at = Untimed \/ iat <= e.at
----------------------------------------------------------------------------
(* Reading revocations.                                                    *)

\* Cache.Get on the legacy class: this generation, else the previous one.
LegacyGet(r, j) ==
    IF legacy[gen[r]][j] # NoEntry THEN legacy[gen[r]][j]
    ELSE IF prev[r] # NoGen THEN legacy[prev[r]][j]
    ELSE NoEntry

\* revoked: the jti in either class, or the subject in the store.
Revoked(r, t) ==
    \E e \in {store[t.jti], store[Sub], LegacyGet(r, t.jti)} :
        e # NoEntry /\ RevokedNoEarlierThan(e, t.iat)

\* ValidateToken: valid at the replica's clock, and not revoked.
ValidAt(r, t) == t.iat <= Clock(r) /\ Clock(r) < t.exp
Accepts(r, t) == ValidAt(r, t) /\ ~Revoked(r, t)

\* SubjectRevokedSince, for a credential authenticated at the given time:
\* issue times are whole seconds.
WholeSecondRoundedUp(t) == ((t + Second - 1) \div Second) * Second
WholeSecond(t) == (t \div Second) * Second
SubjectRevokedSince(auth) ==
    store[Sub] # NoEntry /\ RevokedNoEarlierThan(store[Sub], WholeSecond(auth))
----------------------------------------------------------------------------
Idle == [key |-> Sub, at |-> 0, again |-> 0, ttl |-> 0, auth |-> 0, known |-> Before]
NoSweep == [running |-> FALSE, due |-> FALSE, adopted |-> NoGen, generation |-> NoGen,
            left |-> {}, found |-> [j \in Jtis |-> NoEntry], failed |-> FALSE]

\* Entries earlier releases left behind: a generation older than the present
\* one holds them, timed or not, for as long as any entry lives.
Stranded == {NoEntry} \cup [at : {Untimed, 0}, until : {RevocationTTL}]

\* One stranded entry per jti, in the oldest generation, when the host has been
\* reconfigured before and not swept since.
Init ==
    /\ setting \in Settings
    /\ now = 0
    /\ lag \in [All -> 0..MaxLag]
    /\ store = [k \in Keys |-> NoEntry]
    /\ \E old \in [Jtis -> IF MaxGen = 0 \/ setting.swept THEN {NoEntry} ELSE Stranded] :
        /\ legacy = [g \in Gens |-> IF g = 0 THEN old ELSE [j \in Jtis |-> NoEntry]]
        /\ asked = [k \in Keys |-> IF k \in Jtis /\ old[k] # NoEntry
                                   THEN old[k].at ELSE Before]
        /\ fresh = [j \in Jtis |-> IF old[j] # NoEntry /\ old[j].at = Untimed
                                   THEN MaxGen + 1 ELSE 0]
    /\ gen = [r \in All |-> IF MaxGen = 0 THEN 0 ELSE 1]
    /\ prev = [r \in All |-> NoGen]
    /\ tokens = {}
    /\ pc = [r \in Replicas |-> "idle"]
    /\ req = [r \in Replicas |-> Idle]
    /\ sweep = [r \in Replicas |-> IF setting.swept THEN [NoSweep EXCEPT !.adopted = gen[r]]
                                   ELSE [NoSweep EXCEPT !.due = TRUE]]
    /\ acked = [k \in Keys |-> Before]

\* Time passes; the cache drops the entries whose ttl is over.
Live(e) == IF e # NoEntry /\ e.until <= now' THEN NoEntry ELSE e
Tick ==
    /\ now < MaxTime
    /\ now' = now + 1
    /\ store' = [k \in Keys |-> Live(store[k])]
    /\ legacy' = [g \in Gens |-> [j \in Jtis |-> Live(legacy[g][j])]]
    /\ UNCHANGED <<setting, lag, gen, prev, tokens, pc, req, sweep, acked, asked, fresh>>
----------------------------------------------------------------------------
(* Minting.  The subject may have signed in at any time up to now; such a  *)
(* session mints itself keys, as often as it likes.                        *)

\* apitokenMintHandler up to mintFromRevokedCredential: a session that
\* predates the subject's revocation mints nothing.
MintCheck(r, j, auth, ttl) ==
    /\ pc[r] = "idle"
    /\ Cardinality(tokens) < MaxTokens
    /\ Clock(r) < auth + SessionTTL
    /\ ~SubjectRevokedSince(auth)
    /\ pc' = [pc EXCEPT ![r] = "sign"]
    /\ req' = [req EXCEPT ![r] = [Idle EXCEPT !.key = j, !.ttl = ttl, !.auth = auth,
                                             !.known = acked[Sub]]]
    /\ UNCHANGED <<setting, now, lag, store, legacy, gen, prev, tokens, sweep, acked,
                   asked, fresh>>

\* MintStatelessKey: a ttl above the host's maximum is refused; iat is now.
TTLAllowed(ttl) == MaxTTL = 0 \/ ttl <= MaxTTL
MintSign(r) ==
    /\ pc[r] = "sign"
    /\ Clock(r) >= 0
    /\ IF TTLAllowed(req[r].ttl)
         THEN tokens' = tokens \cup {[jti |-> req[r].key, iat |-> Clock(r),
                                      exp |-> Clock(r) + req[r].ttl,
                                      auth |-> req[r].auth, known |-> req[r].known]}
         ELSE tokens' = tokens
    /\ pc' = [pc EXCEPT ![r] = "idle"]
    /\ req' = [req EXCEPT ![r] = Idle]
    /\ UNCHANGED <<setting, now, lag, store, legacy, gen, prev, sweep, acked, asked, fresh>>
----------------------------------------------------------------------------
(* Revoking.                                                               *)

\* The request is authorised and the replica's clock read: recordRevocation
\* takes the time before it calls Update.
Begin(r, k, ttl) ==
    /\ pc[r] = "idle"
    /\ Clock(r) >= 0
    /\ pc' = [pc EXCEPT ![r] = "store"]
    /\ req' = [req EXCEPT ![r] = [Idle EXCEPT !.key = k, !.at = Clock(r), !.ttl = ttl]]
    /\ asked' = [asked EXCEPT ![k] = IF @ > Clock(r) THEN @ ELSE Clock(r)]
    /\ UNCHANGED <<setting, now, lag, store, legacy, gen, prev, tokens, sweep, acked, fresh>>

RevokeByMetadata(r, j, ttl) == j \in Jtis /\ Begin(r, j, ttl)
RevokeSubject(r, ttl) == Begin(r, Sub, ttl)

\* The handler validates the token first; RevokeToken keeps the revocation
\* for the token's remaining life.
RevokeToken(r, t) == Accepts(r, t) /\ Begin(r, t.jti, t.exp - Clock(r))

\* The caller is told "revoked": what the store holds, the first time read, binds
\* every replica.
Acknowledge(r) ==
    /\ acked' = [acked EXCEPT ![req[r].key] = IF @ > req[r].at THEN @ ELSE req[r].at]
    /\ fresh' = IF req[r].key \in Jtis /\ gen[r] < fresh[req[r].key]
                THEN [fresh EXCEPT ![req[r].key] = gen[r]] ELSE fresh
    /\ pc' = [pc EXCEPT ![r] = "idle"]
    /\ req' = [req EXCEPT ![r] = Idle]

\* revoke: the revocation store first ...
RevokeStore(r) ==
    LET q == req[r] IN
    /\ pc[r] = "store"
    /\ store' = [store EXCEPT ![q.key] = RecordRevocation(@, q.at, q.ttl)]
    /\ IF q.key = Sub
         THEN Acknowledge(r)
         ELSE pc' = [pc EXCEPT ![r] = "stored"] /\ UNCHANGED <<req, acked, fresh>>
    /\ UNCHANGED <<setting, now, lag, legacy, gen, prev, tokens, sweep, asked>>

\* ... then a second recordRevocation, which reads the clock again ...
RevokeAgain(r) ==
    /\ pc[r] = "stored"
    /\ Clock(r) >= 0
    /\ pc' = [pc EXCEPT ![r] = "legacy"]
    /\ req' = [req EXCEPT ![r].again = Clock(r)]
    /\ asked' = [asked EXCEPT ![req[r].key] = IF @ > Clock(r) THEN @ ELSE Clock(r)]
    /\ UNCHANGED <<setting, now, lag, store, legacy, gen, prev, tokens, sweep, acked, fresh>>

\* ... and writes the legacy class, in the generation this replica is at.
RevokeLegacy(r) ==
    LET q == req[r] IN
    /\ pc[r] = "legacy"
    /\ legacy' = [legacy EXCEPT ![gen[r]][q.key] = RecordRevocation(@, q.again, q.ttl)]
    /\ Acknowledge(r)
    /\ UNCHANGED <<setting, now, lag, store, gen, prev, tokens, sweep, asked>>

\* A cache call fails, or the replica dies: the caller is told nothing was
\* revoked, whatever has been written.
RevokeAbort(r) ==
    /\ pc[r] \in {"store", "stored", "legacy"}
    /\ pc' = [pc EXCEPT ![r] = "idle"]
    /\ req' = [req EXCEPT ![r] = Idle]
    /\ UNCHANGED <<setting, now, lag, store, legacy, gen, prev, tokens, sweep, acked,
                   asked, fresh>>

\* A replica on v0.27.x revokes: it knows the legacy class only.
LegacyRevoke(o, j) ==
    /\ Clock(o) >= 0
    /\ legacy' = [legacy EXCEPT ![gen[o]][j] = RecordRevocation(@, Clock(o), 0)]
    /\ asked' = [asked EXCEPT ![j] = IF @ > Clock(o) THEN @ ELSE Clock(o)]
    /\ UNCHANGED <<setting, now, lag, store, gen, prev, tokens, pc, req, sweep, acked, fresh>>
----------------------------------------------------------------------------
(* Reconfiguration and the sweep.                                          *)

\* The host's configuration changed: SetHost cycles the legacy handle to the
\* new generation, and the same reconcile then asks for a sweep.  Replicas
\* watch the same host: none is two generations behind another.
Reconfigure(r) ==
    /\ gen[r] < MaxGen
    /\ \A q \in All : gen[r] <= gen[q]
    /\ gen' = [gen EXCEPT ![r] = @ + 1]
    /\ prev' = [prev EXCEPT ![r] = gen[r]]
    /\ sweep' = IF r \in Replicas THEN [sweep EXCEPT ![r].due = TRUE] ELSE sweep
    /\ UNCHANGED <<setting, now, lag, store, legacy, tokens, pc, req, acked, asked, fresh>>

\* A scan reaches every generation, also the ones no Get can reach any more.
ScannedGenerations(r) == Gens

\* adoptStrandedRevocationsInBackground: nothing to do while a sweep runs or
\* when this generation has been swept.
SweepStart(r) ==
    LET s == sweep[r] IN
    /\ s.due
    /\ sweep' = [sweep EXCEPT ![r] =
            IF s.running \/ s.adopted = gen[r] THEN [s EXCEPT !.due = FALSE]
            ELSE [NoSweep EXCEPT !.running = TRUE, !.adopted = s.adopted,
                                 !.generation = gen[r], !.left = ScannedGenerations(r)]]
    /\ UNCHANGED <<setting, now, lag, store, legacy, gen, prev, tokens, pc, req, acked,
                   asked, fresh>>

\* ScanGenerations meets the entries of one generation; it reports what is
\* left of their ttl, and the adopting write counts that from its own time.
Remaining(e) == [e EXCEPT !.until = @ - now]
Renewed(e) == [e EXCEPT !.until = @ + now]
SweepScan(r, g) ==
    LET s == sweep[r] IN
    /\ s.running
    /\ g \in s.left
    /\ sweep' = [sweep EXCEPT
            ![r].left = @ \ {g},
            ![r].found = [j \in Jtis |-> IF legacy[g][j] = NoEntry THEN s.found[j]
                                         ELSE Strongest(s.found[j], Remaining(legacy[g][j]))]]
    /\ UNCHANGED <<setting, now, lag, store, legacy, gen, prev, tokens, pc, req, acked,
                   asked, fresh>>

\* One key of the second half: the update keeps the later of what the store
\* and the scan hold, and writes only what strengthens it.
Adopted(current, e) ==
    IF current = NoEntry \/ LatestRevocation(current, e) # current THEN e ELSE current
SweepAdopt(r, j) ==
    LET s == sweep[r] IN
    /\ s.running
    /\ s.left = {}
    /\ s.found[j] # NoEntry
    /\ store' = [store EXCEPT ![j] = Adopted(@, Renewed(s.found[j]))]
    /\ sweep' = [sweep EXCEPT ![r].found[j] = NoEntry]
    /\ UNCHANGED <<setting, now, lag, legacy, gen, prev, tokens, pc, req, acked, asked, fresh>>

\* The pass is over.  It counts for the generation read before it began, and
\* another one starts when the class has moved since.
SweptGeneration(r) == sweep[r].generation
SweepAgainNever(r) == FALSE
SweepAgain(r) == gen[r] # sweep[r].generation
SweepEnd(r) ==
    LET s == sweep[r] IN
    /\ s.running
    /\ s.left = {}
    /\ s.found = [j \in Jtis |-> NoEntry]
    /\ sweep' = [sweep EXCEPT ![r] =
            IF SweepAgain(r)
              THEN [s EXCEPT !.adopted = SweptGeneration(r), !.generation = gen[r], !.left = ScannedGenerations(r)]
              ELSE [s EXCEPT !.adopted = SweptGeneration(r), !.running = FALSE,
                             !.generation = NoGen]]
    /\ UNCHANGED <<setting, now, lag, store, legacy, gen, prev, tokens, pc, req, acked,
                   asked, fresh>>

\* The pass fails (the scan, a write, the ten-minute timeout) and is left for
\* the next reconcile, which may change nothing else.
SweepFail(r) ==
    /\ SweepsFail
    /\ sweep[r].running
    /\ sweep' = [sweep EXCEPT ![r] = [NoSweep EXCEPT !.adopted = sweep[r].adopted,
                                                    !.due = sweep[r].due, !.failed = TRUE]]
    /\ UNCHANGED <<setting, now, lag, store, legacy, gen, prev, tokens, pc, req, acked,
                   asked, fresh>>
Reconcile(r) ==
    /\ ~sweep[r].due
    /\ sweep[r].adopted # gen[r]
    /\ sweep' = [sweep EXCEPT ![r].due = TRUE]
    /\ UNCHANGED <<setting, now, lag, store, legacy, gen, prev, tokens, pc, req, acked,
                   asked, fresh>>
----------------------------------------------------------------------------
Request(r) ==
    \/ \E j \in Jtis, ttl \in TTLs, auth \in 0..Clock(r) : MintCheck(r, j, auth, ttl)
    \/ MintSign(r)
    \/ \E j \in Jtis, ttl \in TTLs : RevokeByMetadata(r, j, ttl)
    \/ \E ttl \in TTLs : RevokeSubject(r, ttl)
    \/ \E t \in tokens : RevokeToken(r, t)
    \/ RevokeStore(r) \/ RevokeAgain(r) \/ RevokeLegacy(r) \/ RevokeAbort(r)

Pass(r) ==
    \/ \E g \in Gens : SweepScan(r, g)
    \/ \E j \in Jtis : SweepAdopt(r, j)
    \/ SweepEnd(r)

Next ==
    \/ Tick
    \/ \E r \in Replicas : Request(r) \/ SweepStart(r) \/ Pass(r) \/ SweepFail(r) \/ Reconcile(r)
    \/ \E o \in OldReplicas, j \in Jtis : LegacyRevoke(o, j)
    \/ \E r \in All : Reconfigure(r)

Spec == Init /\ [][Next]_vars
----------------------------------------------------------------------------
(* Properties.                                                             *)

\* The state has the shape of the code's: entries carry a time and a deadline,
\* a request in flight names a key, and only generations that exist are read.
TypeOK ==
    /\ setting \in Settings
    /\ now \in Times
    /\ lag \in [All -> 0..MaxLag]
    /\ store \in [Keys -> Entries \cup {NoEntry}]
    /\ legacy \in [Gens -> [Jtis -> Entries \cup {NoEntry}]]
    /\ gen \in [All -> Gens]
    /\ prev \in [All -> Gens \cup {NoGen}]
    /\ tokens \subseteq Tokens
    /\ pc \in [Replicas -> {"idle", "store", "stored", "legacy", "sign"}]
    /\ req \in [Replicas -> Requests]
    /\ sweep \in [Replicas -> Sweeps]
    /\ acked \in [Keys -> Times \cup {Before}]
    /\ asked \in [Keys -> Times \cup {Untimed, Before}]
    /\ fresh \in [Jtis -> 0..(MaxGen + 1)]

\* A token this host can mint, minted or not: one lifetime long.
Mintable == {[jti |-> j, iat |-> i, exp |-> i + ttl] :
                j \in Jtis, i \in Times, ttl \in {t \in TTLs : TTLAllowed(t)}}

\* A token issued up to a revocation a caller was told of is refused by every replica for the
\* rest of its life: through later revocations on replicas whose clocks lag,
\* sweeps, reconfigurations and the expiry of entries ("a revoked token cannot
\* come back", RevocationTTL).
RevokedStaysRevoked ==
    \A t \in Mintable, r \in Replicas :
        (t.iat <= acked[t.jti] \/ t.iat <= acked[Sub]) => ~Accepts(r, t)

\* A key minted after the last time any revocation of its name or its subject
\* has read works on every replica: no stale, adopted or merged entry reaches
\* past it, and an untimed one is gone once the key has been revoked again.  The
\* last time read is the second one of revoke, so a key minted while its own
\* revocation is between its two writes may be refused, and one minted after the
\* answer works.
FreshKeyWorks ==
    \A t \in Mintable, r \in Replicas :
        (t.iat > asked[t.jti] /\ t.iat > asked[Sub] /\ gen[r] >= fresh[t.jti])
            => ~Revoked(r, t)

\* A session that authenticated no later than a subject revocation that had
\* been acknowledged when the session asked for a key never gets one.
CutoffRefusesMint == \A t \in tokens : t.auth > t.known

\* Stranded revocations come back into force, and no reconfiguration is
\* forgotten: a replica that neither sweeps nor is about to has swept the
\* generation it is at, also one it moved to while a sweep was running, unless its
\* last pass failed and waits for the next reconcile; and once it has, no older
\* generation it cannot read any more holds a revocation in force, one some
\* living token may depend on, that the store lacks
\* (adoptStrandedRevocationsInBackground, AdoptStrandedRevocations).
Unreadable(r) == {g \in Gens : g < gen[r] /\ g # prev[r]}
InForce(e) == e # NoEntry /\ (e.at = Untimed \/ now < e.at + RevocationTTL)
Covered(r) ==
    \A g \in Unreadable(r), j \in Jtis : InForce(legacy[g][j]) =>
        store[j] # NoEntry /\ LatestRevocation(store[j], legacy[g][j]).at = store[j].at
SweepCovers ==
    \A r \in Replicas :
        IF sweep[r].adopted = gen[r] THEN Covered(r)
        ELSE sweep[r].running \/ sweep[r].due \/ sweep[r].failed

----------------------------------------------------------------------------
(* What the comments claim and the code does not do.                       *)

\* "no caller can shorten a revocation by re-revoking with a small one"
\* (recordRevocation): a second revocation never brings the deadline forward.
RevocationNeverShortened ==
    [][\A k \in Keys :
            (store[k] # NoEntry /\ store'[k] # NoEntry) => store'[k].until >= store[k].until]_vars

\* "A subject revoked on this host (revoke with all) cannot mint itself a key
\* with a credential that authenticated before the revocation"
\* (apitokenMintHandler).
RevokedSubjectHoldsNoKey ==
    \A t \in tokens, r \in Replicas : t.auth <= acked[Sub] => ~Accepts(r, t)
=============================================================================
