---------------------------- MODULE SessionGate ----------------------------
(***************************************************************************)
(* The gate every HTTP request passes: WithAuthentication (session cookie, *)
(* bearer token, API token), the per-request refresh of a session's        *)
(* grants through the shared grant cache, the use counters of capability   *)
(* tokens and transfer links, and the proxied write that changes a         *)
(* membership and moves the grant generation.                              *)
(*                                                                         *)
(* There is one person, Subject, with several sessions, and several        *)
(* replicas of the host.  A membership is a version number: version v is   *)
(* what the backend answers from since[v + 1] on.  A request carries its   *)
(* grants with the version they were resolved from, so that their age can  *)
(* be told.                                                                *)
(***************************************************************************)
EXTENDS Naturals, Sequences, FiniteSets, FiniteSetsExt

CONSTANTS Scenarios,   \* the deployments, and what each caller asks of them
          Callers,     \* who sends requests, one after the other
          Replicas,    \* the host's pods; Home gives each caller its replica
          Home,
          GrantTTL,    \* sessionGrantTTL and subjectResolveCacheTTL, in ticks
          Jitter,      \* the most jitteredGrantTTL adds or takes away
          UsesCap,     \* Config.MintTokenUsesCap
          CapTTL,      \* the capability ttl ceiling, in ticks
          Subject,     \* the person's sub
          Binds,       \* the binding keys, the sub among them
          Sessions,    \* the person's sessions
          Rights       \* the entitlements

\* The kinds a credential may record: none, or a later release's ("Robot")
\* included; "cc" is a client_credentials token that records none.
SubjectKinds == {"User", "Client", "", "cc", "Robot"}

\* A request: credential, session, operation and, for a mint, the capability.
Request == [cred : {"cookie", "bearer", "cap", "capcookie", "pat", "link"}, of : Sessions,
            op : {"read", "write", "mint"},
            want : [ents : SUBSET Rights, uses : Nat, url : BOOLEAN]]

\* A deployment: where the shared caches are, which calls may fail, whether
\* memberships also change behind the proxy's back, and what everyone asks.
Scenario == [shared : BOOLEAN, faults : SUBSET {"get", "set", "spend", "resolve", "bump", "upstream"},
             behind : BOOLEAN, maxTime : Nat, roles : [Binds -> SUBSET Rights],
             backend : Seq(SUBSET Rights), destructive : SUBSET Rights,
             tokenTTL : Nat, nearExpiry : Nat, clients : SUBSET Binds, edits : Nat,
             sessions : [Sessions -> [kind : SubjectKinds, bind : Binds, refresh : BOOLEAN]],
             pat : [kind : SubjectKinds, iat : Nat], asks : [Callers -> Seq(Request)]]

ASSUME GateAssumption ==
    /\ Home \in [Callers -> Replicas]
    /\ {GrantTTL, UsesCap, CapTTL} \subseteq Nat \ {0}
    /\ Jitter \in 0 .. GrantTTL - 1
    /\ Subject \in Binds
    /\ Scenarios \subseteq {s \in Scenario : s.backend # <<>>}

VARIABLES
  sc,       \* the scenario
  now,      \* the clock
  since,    \* when each version of the membership became current
  seq,      \* Exchanger.grantGenSeq of each replica
  gen,      \* grantGenCache: store -> generation token, or NoGen
  grants,   \* grantCache: store -> entries [gen, grant, until]
  claims,   \* subjectResolveCache: store -> [ver, until], or NoClaims
  flights,  \* grantGroup: the resolves under way, [replica, gen, grant]
  clients,  \* the client registry: [configured, reserved, cutoff]
  session,  \* the cookies of each session: its access token and refresh token
  caps,     \* the capabilities minted: token or link, counter, record (served,
            \* lost: history, what became of the uses spent)
  req,      \* what each caller is doing
  acked,    \* the newest version whose write was answered after a stored bump
  edits     \* configuration changes still to come

vars == <<sc, now, since, seq, gen, grants, claims, flights, clients, session,
          caps, req, acked, edits>>

NoGen == <<>>
NoClaims == [ver |-> 0, until |-> 0]
NoCounter == UsesCap + 1
NoCookie == 0
NoCap == 0

\* A call to a shared cache or to the backend succeeds, or fails where the
\* scenario lets calls of its kind fail.
Outcomes(call) == IF call \in sc.faults THEN BOOLEAN ELSE {TRUE}

Member == Len(since) - 1

\* The shared caches are Valkey's, one for the fleet, or each pod's own memory.
Store(r) == IF sc.shared THEN "valkey" ELSE r

Nobody == [known |-> FALSE, kind |-> "", iat |-> 0, ents |-> {}, ver |-> 0,
           bind |-> Subject, src |-> "none", cap |-> NoCap]

Idle == [pc |-> "idle", ac |-> Nobody, gen |-> NoGen, read |-> FALSE,
         floor |-> 0, at |-> 0]

\* What a resolve computes: the entitlements of the roles bound to the binding
\* key (ResolveInternalRolesAndEntitlements), merged with what the backend
\* answers for the subject.
BoundRoles(bind) == sc.roles[bind]

BackendClaims(ver) == sc.backend[ver + 1]

Ents(bind, ver) == BoundRoles(bind) \cup BackendClaims(ver)

Grant(bind, ver) == [ents |-> Ents(bind, ver), ver |-> ver, bind |-> bind]

-----------------------------------------------------------------------------
\* Subject kinds and the veto.

NamesClient(name) == name \in clients.reserved

SubjectKindOf(name) == IF NamesClient(name) THEN "Client" ELSE "User"

\* "cc" is a kind-less client_credentials token, "" any other kind-less one.
ContextSubjectKind(kind) ==
    CASE kind = "cc" -> "Client"
      [] kind = ""   -> SubjectKindOf(Subject)
      [] OTHER       -> kind

\* A kind without a rule passes: this release cannot enforce it.
VetoCredential(kind, iat) ==
    \/ kind = "Client" /\ \/ Subject \notin clients.configured
                          \/ clients.cutoff > 0 /\ iat <= clients.cutoff
    \/ kind = "User" /\ NamesClient(Subject)

Vetoed(ac) == VetoCredential(ContextSubjectKind(ac.kind), ac.iat)

\* userBindingSubject refuses an identity whose sub or binding key names a client.
RefusedIdentity(bind) == NamesClient(Subject) \/ NamesClient(bind)

-----------------------------------------------------------------------------
\* Requests.  Asked(p) is the request p is sending: its credential, whose it
\* is, the operation, the route, and for a mint the capability wanted.
Asked(p) == Head(sc.asks[p])

At(p, pc) == req[p].pc = pc

Asks(p, creds) == At(p, "idle") /\ sc.asks[p] # <<>> /\ Asked(p).cred \in creds

Goto(p, pc) == [req EXCEPT ![p].pc = pc]

\* The answer ends the request; the next one starts from nothing.
Answer(p) == /\ req' = [req EXCEPT ![p] = Idle]
             /\ sc' = [sc EXCEPT !.asks[p] = Tail(@)]

\* Anonymous or named, the request goes on to its handler.
Enter(p, ac, pc) == req' = [req EXCEPT ![p].pc = pc, ![p].ac = ac, ![p].at = now]

\* The claims of the access token in cookies k.
TokenOf(k) == [known |-> TRUE, kind |-> k.kind, iat |-> k.iat, ents |-> k.grant.ents,
               ver |-> k.grant.ver, bind |-> k.bind, src |-> "frozen", cap |-> NoCap]

CapContext(c) == [known |-> TRUE, kind |-> caps[c].kind, iat |-> caps[c].iat,
                  ents |-> caps[c].ents, ver |-> 0, bind |-> Subject,
                  src |-> "cap", cap |-> c]

Overlay(ac, grant) == [ac EXCEPT !.ents = grant.ents, !.ver = grant.ver,
                                 !.bind = grant.bind, !.src = "live"]

Dropped(ac) == [ac EXCEPT !.ents = {}, !.src = "dropped"]

\* Mutant: the capability marker is not looked at.
RefreshUnmarked(p, ac) ==
    LET kind == ContextSubjectKind(ac.kind)
    IN  \/ kind # "User" /\ Enter(p, IF ac.kind \in {"", "cc"} THEN Dropped(ac) ELSE ac, "handler")
        \/ kind = "User" /\ RefusedIdentity(ac.bind) /\ Enter(p, Dropped(ac), "handler")
        \/ kind = "User" /\ ~RefusedIdentity(ac.bind) /\ Enter(p, ac, "gen")

\* refreshSessionGrants, up to its first call: a marked token, or one that
\* records another kind, keeps what it carries; a kind-less session named like
\* a client, or an identity named like one, keeps nothing; a user's grants are
\* read again.  The request's exchanger, and so its view of the clients, is
\* the one its mux was built with.
RefreshSessionGrants(p, ac) ==
    LET kind == ContextSubjectKind(ac.kind)
    IN  \/ ac.cap # NoCap /\ Enter(p, ac, "spend")
        \/ /\ ac.cap = NoCap /\ kind # "User"
           /\ Enter(p, IF ac.kind \in {"", "cc"} THEN Dropped(ac) ELSE ac, "handler")
        \/ ac.cap = NoCap /\ kind = "User" /\ RefusedIdentity(ac.bind) /\ Enter(p, Dropped(ac), "handler")
        \/ ac.cap = NoCap /\ kind = "User" /\ ~RefusedIdentity(ac.bind) /\ Enter(p, ac, "gen")

\* The capabilities a request may present: the links, or the tokens.
Presentable(p) == {c \in DOMAIN caps : caps[c].url = (Asked(p).cred = "link")}

\* The backend claims as ResolveSubjectClaims sees them: the cached ones while
\* they live.
ClaimsCached(r) == claims[Store(r)].until > now

\* RedeemRefreshToken re-resolves the grants; the new cookies replace the old.
\* Whether a redemption succeeds is the subject of RefreshRotation.
Redeemed(p, s) ==
    LET ver == IF ClaimsCached(Home[p]) THEN claims[Store(Home[p])].ver ELSE Member
    IN  [session[s] EXCEPT !.exp = now + sc.tokenTTL, !.iat = now,
                           !.grant = Grant(session[s].bind, ver)]

Cleared(s) == [session[s] EXCEPT !.exp = NoCookie, !.refresh = FALSE]

\* The gate accepts the token of cookies k, or clears them and lets the
\* request go on anonymously.
AcceptCookie(p, s, k) ==
    IF Vetoed(TokenOf(k)) THEN /\ session' = [session EXCEPT ![s] = Cleared(s)]
                               /\ Enter(p, Nobody, "handler")
                          ELSE /\ session' = [session EXCEPT ![s] = k]
                               /\ RefreshSessionGrants(p, TokenOf(k))

Elsewhere == <<sc, now, since, seq, gen, grants, claims, flights, clients, acked, edits>>

\* WithAuthentication on the session cookie.  An expired token is redeemed or
\* the cookies are cleared; a live one near its expiry is redeemed if it can be.
CookieGate(p) ==
    LET s == Asked(p).of
        expired == session[s].exp <= now
        near == session[s].exp - now < sc.nearExpiry
    IN  /\ Asks(p, {"cookie"})
        /\ \/ session[s].exp = NoCookie /\ Enter(p, Nobody, "handler") /\ UNCHANGED session
           \/ /\ session[s].exp # NoCookie /\ session[s].refresh
              /\ expired \/ (near /\ ~Vetoed(TokenOf(session[s])))
              /\ AcceptCookie(p, s, Redeemed(p, s))
           \/ /\ session[s].exp # NoCookie /\ ~expired
              /\ AcceptCookie(p, s, session[s])
           \/ /\ session[s].exp # NoCookie /\ expired
              /\ session' = [session EXCEPT ![s] = Cleared(s)]
              /\ Enter(p, Nobody, "handler")
        /\ UNCHANGED <<Elsewhere, caps>>

\* A bearer token keeps the grants it was minted with; an invalid one is a 401.
BearerGate(p) ==
    LET s == Asked(p).of
    IN  /\ Asks(p, {"bearer"})
        /\ IF session[s].exp <= now \/ Vetoed(TokenOf(session[s]))
              THEN Answer(p)
              ELSE Enter(p, TokenOf(session[s]), "handler") /\ UNCHANGED sc
        /\ UNCHANGED <<now, since, seq, gen, grants, claims, flights, clients, session, caps, acked, edits>>

\* A capability token, sent as a bearer or in the session cookie.  Its grants
\* are never refreshed, wherever it is sent; it spends a use.
CapabilityGate(p) ==
    /\ Asks(p, {"cap", "capcookie"})
    /\ \E c \in Presentable(p) :
          IF caps[c].exp > now /\ ~Vetoed(CapContext(c))
              THEN /\ IF Asked(p).cred = "cap" THEN Enter(p, CapContext(c), "spend")
                                              ELSE RefreshSessionGrants(p, CapContext(c))
                   /\ UNCHANGED sc
              ELSE IF Asked(p).cred = "cap" THEN Answer(p)
                                            ELSE Enter(p, Nobody, "handler") /\ UNCHANGED sc
    /\ UNCHANGED <<now, since, seq, gen, grants, claims, flights, clients, session, caps, acked, edits>>

PATAuthContext(ents, ver) ==
    [known |-> TRUE, kind |-> ContextSubjectKind(sc.pat.kind), iat |-> sc.pat.iat,
     ents |-> ents, ver |-> ver, bind |-> Subject, src |-> "pat", cap |-> NoCap]

\* An API token passes the gate anonymously.  A route that opted in, or the
\* proxy of a function that accepts API tokens, makes it an identity: vetoed,
\* its roles resolved now, its backend claims through the subject cache, where
\* a failed lookup only means fewer claims.
APITokenGate(p) ==
    LET r == Home[p]
        kind == ContextSubjectKind(sc.pat.kind)
    IN  /\ Asks(p, {"pat"})
        /\ \/ /\ VetoCredential(kind, sc.pat.iat)
              /\ Enter(p, Nobody, "handler") /\ UNCHANGED claims
           \/ /\ ~VetoCredential(kind, sc.pat.iat) /\ ClaimsCached(r)
              /\ LET v == claims[Store(r)].ver IN Enter(p, PATAuthContext(Ents(Subject, v), v), "handler")
              /\ UNCHANGED claims
           \/ /\ ~VetoCredential(kind, sc.pat.iat) /\ ~ClaimsCached(r)
              /\ Enter(p, PATAuthContext(Ents(Subject, Member), Member), "handler")
              /\ \E stored \in Outcomes("set") :
                    claims' = IF stored /\ BackendClaims(Member) # {}
                                 THEN [claims EXCEPT ![Store(r)] = [ver |-> Member, until |-> now + GrantTTL]]
                                 ELSE claims
           \/ /\ ~VetoCredential(kind, sc.pat.iat) /\ ~ClaimsCached(r) /\ "resolve" \in sc.faults
              /\ Enter(p, PATAuthContext(BoundRoles(Subject), Member), "handler")
              /\ UNCHANGED claims
        /\ UNCHANGED <<sc, now, since, seq, gen, grants, flights, clients, session, caps, acked, edits>>

-----------------------------------------------------------------------------
\* refreshSessionGrants, its calls.

\* The generation is read first.  A failed read counts as no generation.
GrantGeneration(p) ==
    /\ At(p, "gen")
    /\ \E ok \in Outcomes("get") :
          req' = [req EXCEPT ![p].pc = "lookup", ![p].read = ok, ![p].floor = acked,
                             ![p].gen = IF ok THEN gen[Store(Home[p])] ELSE NoGen]
    /\ UNCHANGED <<Elsewhere, session, caps>>

Cached(p) == {e \in grants[Store(Home[p])] : e.gen = req[p].gen /\ e.until > now}

Flight(p) == {f \in flights : f.replica = Home[p] /\ f.gen = req[p].gen}

\* Mutant: a hit renews the entry's life.
CacheHitSliding(p) ==
    /\ At(p, "lookup")
    /\ \E e \in Cached(p) :
          /\ req' = [req EXCEPT ![p].pc = "handler", ![p].at = now, ![p].ac = Overlay(@, e.grant)]
          /\ grants' = [grants EXCEPT ![Store(Home[p])] =
                           (@ \ {e}) \cup {[e EXCEPT !.until = now + GrantTTL]}]
    /\ UNCHANGED <<sc, now, since, seq, gen, claims, flights, clients, session, caps, acked, edits>>

\* The fast path: a grant cached under the generation read.
CacheHit(p) ==
    /\ At(p, "lookup")
    /\ \E e \in Cached(p) : req' = [req EXCEPT ![p].pc = "handler", ![p].at = now,
                                              ![p].ac = Overlay(@, e.grant)]
    /\ UNCHANGED <<Elsewhere, session, caps>>

\* A miss, or a read that failed: join the resolve under way for the same
\* generation on this replica, or lead a new one.
CacheMiss(p) ==
    /\ At(p, "lookup") /\ (Cached(p) = {} \/ "get" \in sc.faults)
    /\ IF Flight(p) # {} THEN req' = Goto(p, "wait") /\ UNCHANGED flights
                         ELSE /\ req' = Goto(p, "resolve")
                              /\ flights' = flights \cup {[replica |-> Home[p], gen |-> req[p].gen]}
    /\ UNCHANGED <<sc, now, since, seq, gen, grants, claims, clients, session, caps, acked, edits>>

\* The leader asks the backend; what it answers is read at this instant.
Resolve(p) ==
    /\ At(p, "resolve")
    /\ req' = [req EXCEPT ![p].pc = "store", ![p].at = now,
                          ![p].ac = Overlay(@, Grant(@.bind, Member))]
    /\ UNCHANGED <<Elsewhere, session, caps>>

\* The callers the flight of p answers.
Followers(p) == {q \in Callers : At(q, "wait") /\ Home[q] = Home[p] /\ req[q].gen = req[p].gen}

\* The leader stores the grant, if it can, and the flight lands: every caller
\* that waits for it carries the same grant.
StoreGrant(p) ==
    LET grant == [ents |-> req[p].ac.ents, ver |-> req[p].ac.ver, bind |-> req[p].ac.bind]
    IN  /\ At(p, "store")
        /\ \/ \E ttl \in GrantTTL - Jitter .. GrantTTL + Jitter :
                 grants' = [grants EXCEPT ![Store(Home[p])] =
                               {e \in @ : e.gen # req[p].gen}
                               \cup {[gen |-> req[p].gen, grant |-> grant, until |-> now + ttl]}]
           \/ "set" \in sc.faults /\ UNCHANGED grants
        /\ flights' = flights \ Flight(p)
        /\ req' = [q \in Callers |->
                     IF q = p THEN [req[q] EXCEPT !.pc = "handler"]
                     ELSE IF q \in Followers(p)
                          THEN [req[q] EXCEPT !.pc = "handler", !.at = now, !.ac = Overlay(@, grant)]
                     ELSE req[q]]
        /\ UNCHANGED <<sc, now, since, seq, gen, claims, clients, session, caps, acked, edits>>

\* Mutant: only the leader learns of the failure.
FailLeaderOnly(p) ==
    /\ At(p, "resolve") /\ "resolve" \in sc.faults
    /\ flights' = flights \ Flight(p)
    /\ req' = Goto(p, "handler")
    /\ UNCHANGED <<sc, now, since, seq, gen, grants, claims, clients, session, caps, acked, edits>>

\* The resolve failed: the leader and all who wait keep their frozen grants.
FailOpen(p) ==
    /\ At(p, "resolve") /\ "resolve" \in sc.faults
    /\ flights' = flights \ Flight(p)
    /\ req' = [q \in Callers |-> IF q = p \/ q \in Followers(p)
                                    THEN [req[q] EXCEPT !.pc = "handler"] ELSE req[q]]
    /\ UNCHANGED <<sc, now, since, seq, gen, grants, claims, clients, session, caps, acked, edits>>

-----------------------------------------------------------------------------
\* Capabilities.

\* DecrementIfPositive: one use, or a refusal.  A call that fails refuses too;
\* when it is only Valkey's answer that was lost, the use is gone.
Spend(p) ==
    LET c == req[p].ac.cap
        positive == caps[c].left \in 1 .. UsesCap /\ caps[c].until > now
    IN  /\ At(p, "spend")
        /\ \/ /\ positive
              /\ caps' = [caps EXCEPT ![c].left = @ - 1, ![c].served = @ + 1]
              /\ req' = Goto(p, "handler") /\ UNCHANGED sc
           \/ /\ ~positive \/ "spend" \in sc.faults
              /\ Answer(p) /\ UNCHANGED caps
           \/ /\ positive /\ "spend" \in sc.faults /\ sc.shared
              /\ caps' = [caps EXCEPT ![c].left = @ - 1, ![c].lost = @ + 1]
              /\ Answer(p)
        /\ UNCHANGED <<now, since, seq, gen, grants, claims, flights, clients, session, acked, edits>>

\* Mutant: the use is spent before the veto.
TransferSpendsFirst(p) ==
    /\ Asks(p, {"link"})
    /\ \E c \in Presentable(p) :
          IF caps[c].record /\ caps[c].until > now /\ caps[c].left \in 1 .. UsesCap
             THEN IF Vetoed(CapContext(c))
                     THEN Answer(p) /\ caps' = [caps EXCEPT ![c].left = @ - 1]
                     ELSE /\ Enter(p, CapContext(c), "handler") /\ UNCHANGED sc
                          /\ caps' = [caps EXCEPT ![c].left = @ - 1, ![c].served = @ + 1]
             ELSE Answer(p) /\ UNCHANGED caps
    /\ UNCHANGED <<now, since, seq, gen, grants, claims, flights, clients, session, acked, edits>>

\* TransferGet: the record, then the veto, then one use of the budget; every
\* refusal is the same 410.  The bound operation runs with the link's grants.
TransferGet(p) ==
    /\ Asks(p, {"link"})
    /\ \E c \in Presentable(p) :
          IF caps[c].record /\ caps[c].until > now /\ ~Vetoed(CapContext(c))
              THEN Enter(p, CapContext(c), "spend") /\ UNCHANGED sc
              ELSE Answer(p)
    /\ UNCHANGED <<now, since, seq, gen, grants, claims, flights, clients, session, caps, acked, edits>>

\* mintCapabilityTokenWithCap: every entitlement asked for is held, the uses
\* and the life are clamped, a destructive one is single-use and short.
MintedCap(p) ==
    LET want == Asked(p).want
        ac == req[p].ac
        destructive == want.ents \cap sc.destructive # {}
        uses == IF destructive \/ want.uses = 0 THEN 1 ELSE Min({want.uses, UsesCap})
        ttl == IF destructive THEN 1 ELSE CapTTL
    IN  [ents |-> want.ents, kind |-> ContextSubjectKind(ac.kind), iat |-> now, exp |-> now + ttl,
         until |-> now + ttl, url |-> want.url, left |-> uses, budget |-> uses, served |-> 0, lost |-> 0,
         record |-> want.url, root |-> IF ac.cap = NoCap THEN ac.ents ELSE caps[ac.cap].root]

MintRefused(p) ==
    LET want == Asked(p).want
    IN  \/ ~req[p].ac.known \/ want.ents = {}
        \/ ~(want.ents \subseteq req[p].ac.ents)
        \/ ContextSubjectKind(req[p].ac.kind) \notin {"User", "Client"}

\* The counter is stored first; without it the capability is dead on arrival.
\* A link whose record cannot be stored is never handed out.
Mint(p) ==
    /\ At(p, "handler") /\ Asked(p).op = "mint"
    /\ \/ MintRefused(p) /\ UNCHANGED caps
       \/ /\ ~MintRefused(p)
          /\ \E counted \in Outcomes("set"), recorded \in Outcomes("set") :
                LET cap == MintedCap(p)
                    made == [cap EXCEPT !.left = IF counted THEN @ ELSE NoCounter]
                IN  caps' = IF cap.url /\ ~recorded THEN caps ELSE Append(caps, made)
    /\ Answer(p)
    /\ UNCHANGED <<now, since, seq, gen, grants, claims, flights, clients, session, acked, edits>>

-----------------------------------------------------------------------------
\* The proxied operation.

\* The gate of the function, or of the host's own endpoint.
Authorized(p) == Asked(p).op \in req[p].ac.ents

\* The upstream answers other than 2xx.
UpstreamRefuses == "upstream" \in sc.faults \/ Len(since) = Len(sc.backend)

\* A read, an operation the gate of the function denies, and a write the
\* upstream refuses are answered and change nothing.
Serve(p) ==
    /\ At(p, "handler") /\ Asked(p).op # "mint"
    /\ Asked(p).op = "read" \/ ~Authorized(p) \/ UpstreamRefuses
    /\ Answer(p)
    /\ UNCHANGED <<now, since, seq, gen, grants, claims, flights, clients, session, caps, acked, edits>>

\* A write to a grants-source function: the upstream commits the membership
\* change before the response comes back through ModifyResponse.
CommitWrite(p) ==
    /\ At(p, "handler") /\ Asked(p).op = "write" /\ Authorized(p)
    /\ Len(since) < Len(sc.backend)
    /\ since' = Append(since, now)
    /\ req' = [req EXCEPT ![p] = [Idle EXCEPT !.pc = "reply", !.floor = Len(since)]]
    /\ UNCHANGED <<sc, now, seq, gen, grants, claims, flights, clients, session, caps, acked, edits>>

\* Mutant: a plain counter, the same on every replica.
BumpUnnonced(p) ==
    LET r == Home[p]
    IN  /\ At(p, "reply")
        /\ seq' = [seq EXCEPT ![r] = @ + 1]
        /\ \E ok \in Outcomes("bump") :
              /\ gen' = IF ok THEN [gen EXCEPT ![Store(r)] = <<seq'[r]>>] ELSE gen
              /\ acked' = IF ok /\ sc.shared THEN Max({acked, req[p].floor}) ELSE acked
        /\ Answer(p)
        /\ UNCHANGED <<now, since, grants, claims, flights, clients, session, caps, edits>>

\* BumpGrantGeneration: a token no other replica and no earlier call made.
\* The Set may fail, and its error is dropped.  Then the response goes out.
BumpGrantGeneration(p) ==
    LET r == Home[p]
    IN  /\ At(p, "reply")
        /\ seq' = [seq EXCEPT ![r] = @ + 1]
        /\ \E ok \in Outcomes("bump") :
              /\ gen' = IF ok THEN [gen EXCEPT ![Store(r)] = <<r, seq'[r]>>] ELSE gen
              /\ acked' = IF ok /\ sc.shared THEN Max({acked, req[p].floor}) ELSE acked
        /\ Answer(p)
        /\ UNCHANGED <<now, since, grants, claims, flights, clients, session, caps, edits>>

-----------------------------------------------------------------------------
\* The world around the gate.

\* A client with the person's name, or with a binding key's, is configured or
\* removed; the registry keeps every name it ever saw, and a cutoff.
ConfigureClient(name) ==
    /\ edits > 0 /\ edits' = edits - 1
    /\ \/ /\ name \notin clients.configured
          /\ clients' = [clients EXCEPT !.configured = @ \cup {name}, !.reserved = @ \cup {name},
                           !.cutoff = IF name = Subject /\ name \in clients.reserved THEN now ELSE @]
       \/ /\ name \in clients.configured
          /\ clients' = [clients EXCEPT !.configured = @ \ {name},
                                        !.cutoff = IF name = Subject THEN now ELSE @]
    /\ UNCHANGED <<sc, now, since, seq, gen, grants, claims, flights, session, caps, req, acked>>

\* Someone else changes the membership, behind the proxy's back.
BackendWrite ==
    /\ sc.behind /\ Len(since) < Len(sc.backend)
    /\ since' = Append(since, now)
    /\ UNCHANGED <<sc, now, seq, gen, grants, claims, flights, clients, session, caps, req, acked, edits>>

\* Time passes.  A resolve is bounded by the lookup's own timeout, far below a
\* tick, so none spans one.
Tick ==
    /\ now < sc.maxTime
    /\ \A p \in Callers : ~At(p, "store")
    /\ now' = now + 1
    /\ grants' = [s \in DOMAIN grants |-> {e \in grants[s] : e.until > now'}]
    /\ claims' = [s \in DOMAIN claims |-> IF claims[s].until > now' THEN claims[s] ELSE NoClaims]
    /\ UNCHANGED <<sc, since, seq, gen, flights, clients, session, caps, req, acked, edits>>

-----------------------------------------------------------------------------
Names == {Subject} \cup {sc.sessions[s].bind : s \in DOMAIN sc.sessions}

Stores == Replicas \cup {"valkey"}

Init ==
    /\ sc \in Scenarios
    /\ now = 1 /\ since = <<0>>
    /\ seq = [r \in Replicas |-> 0]
    /\ gen = [s \in Stores |-> NoGen]
    /\ grants = [s \in Stores |-> {}]
    /\ claims = [s \in Stores |-> NoClaims]
    /\ flights = {}
    /\ clients = [configured |-> sc.clients, reserved |-> sc.clients, cutoff |-> 0]
    /\ session = [s \in DOMAIN sc.sessions |->
                    [kind |-> sc.sessions[s].kind, bind |-> sc.sessions[s].bind, iat |-> 1,
                     exp |-> 1 + sc.tokenTTL, refresh |-> sc.sessions[s].refresh,
                     grant |-> Grant(sc.sessions[s].bind, 0)]]
    /\ caps = <<>>
    /\ req = [p \in Callers |-> Idle]
    /\ acked = 0
    /\ edits = sc.edits

Step(p) == \/ CookieGate(p) \/ BearerGate(p) \/ CapabilityGate(p) \/ APITokenGate(p)
           \/ GrantGeneration(p) \/ CacheHit(p) \/ CacheMiss(p)
           \/ Resolve(p) \/ StoreGrant(p) \/ FailOpen(p)
           \/ Spend(p) \/ TransferGet(p) \/ Mint(p)
           \/ Serve(p) \/ CommitWrite(p) \/ BumpGrantGeneration(p)

Next == \/ \E p \in Callers : Step(p)
        \/ \E name \in Names : ConfigureClient(name)
        \/ BackendWrite
        \/ Tick

\* Every request is served by a goroutine of its own.
Fairness == \A p \in Callers : WF_vars(~At(p, "idle") /\ Step(p))

Spec == Init /\ [][Next]_vars /\ Fairness

-----------------------------------------------------------------------------
\* Properties.

Gens == {NoGen} \cup (Replicas \X Nat)

Grants == [ents : SUBSET Rights, ver : Nat, bind : Binds]

Entries == [gen : Gens, grant : Grants, until : Nat]

Cookies == [kind : SubjectKinds, bind : Binds, iat : Nat, exp : Nat, refresh : BOOLEAN, grant : Grants]

Capabilities == [ents : SUBSET Rights, kind : SubjectKinds, iat : Nat, exp : Nat, until : Nat,
                 url : BOOLEAN, left : 0 .. NoCounter, budget : Nat, served : Nat, lost : Nat,
                 record : BOOLEAN, root : SUBSET Rights]

Contexts == [known : BOOLEAN, kind : SubjectKinds, iat : Nat, ents : SUBSET Rights, ver : Nat, bind : Binds,
             src : {"none", "frozen", "live", "dropped", "pat", "cap"}, cap : Nat]

Handling == [pc : {"idle", "gen", "lookup", "wait", "resolve", "store", "spend", "handler", "reply"},
             ac : Contexts, gen : Gens, read : BOOLEAN, floor : Nat, at : Nat]

\* Every variable has its type, and a request under way is one that was asked.
TypeOK ==
    /\ sc \in Scenario /\ sc.backend # <<>>
    /\ now \in Nat /\ acked \in Nat /\ edits \in Nat
    /\ since \in Seq(Nat) /\ since # <<>>
    /\ seq \in [Replicas -> Nat] /\ gen \in [Stores -> Gens]
    /\ grants \in [Stores -> SUBSET Entries]
    /\ claims \in [Stores -> [ver : Nat, until : Nat]]
    /\ flights \subseteq [replica : Replicas, gen : Gens]
    /\ clients \in [configured : SUBSET Binds, reserved : SUBSET Binds, cutoff : Nat]
    /\ session \in [Sessions -> Cookies]
    /\ caps \in Seq(Capabilities)
    /\ req \in [Callers -> Handling]
    /\ \A p \in Callers : req[p].pc # "idle" => sc.asks[p] # <<>>

Carries(p) == req[p].pc \in {"handler", "store"}

\* A request that read the generation carries grants at least as new as every
\* membership change whose write had been answered, with its bump stored, when
\* it read it: a resolve that began before the change can only be stored under
\* a generation no later request reads (session_grants.go).
FreshAfterBump ==
    \A p \in Callers : Carries(p) /\ req[p].ac.src = "live" /\ req[p].read
                          => req[p].ac.ver >= req[p].floor

\* Whatever failed - the bump, the generation read, a change made behind the
\* proxy's back - the grants a request carries stopped being current less than
\* a cache lifetime before.
StaleBounded ==
    \A p \in Callers :
       Carries(p) /\ req[p].ac.src \in {"live", "pat"} /\ req[p].ac.ver < Member
          => req[p].at < since[req[p].ac.ver + 2] + GrantTTL + Jitter

\* The uses left of a capability, the requests it admitted and the uses Valkey
\* took without its answer arriving add up to the uses it was minted with: no
\* two requests share a use, and no other refusal - a veto, a spent counter, a
\* call that failed before it reached the counter - costs one (TransferGet,
\* WithAuthentication).
Balanced(cap) ==
    IF cap.left = NoCounter THEN cap.served = 0
                            ELSE cap.left + cap.served + cap.lost = cap.budget
BudgetKept == \A c \in DOMAIN caps : Balanced(caps[c])

\* A request admitted by a capability carries what that capability was minted
\* with and nothing its first minter did not hold, however many mints lie
\* between, and wherever the capability is sent: the per-request grant refresh
\* never re-inflates it.
NeverInflated ==
    /\ \A c \in DOMAIN caps : caps[c].ents \subseteq caps[c].root
    /\ \A p \in Callers : req[p].ac.cap # NoCap => req[p].ac.ents \subseteq caps[req[p].ac.cap].ents

\* Every request is answered, one that waits for another's resolve included,
\* whether that resolve succeeds or fails.
RequestsAnswered == \A p \in Callers : []<>At(p, "idle")

\* proxy.go says of a bump raised on another replica that the 60 s backstop
\* still holds: grants are never carried a whole sessionGrantTTL after they
\* stopped being current.  The jitter of jitteredGrantTTL adds to it.
StaleWithinTTL ==
    \A p \in Callers :
       Carries(p) /\ req[p].ac.src = "live" /\ req[p].ac.ver < Member
          => req[p].at < since[req[p].ac.ver + 2] + GrantTTL

\* refreshSessionGrants says the binding key is recomputed from the session
\* token's own claims: the grants a session carries are those of its own
\* binding key.
OwnGrants ==
    \A p \in Callers : Carries(p) /\ req[p].ac.src = "live" /\ Asked(p).cred = "cookie"
                          => req[p].ac.bind = session[Asked(p).of].bind
=============================================================================
