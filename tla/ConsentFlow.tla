------------------------------ MODULE ConsentFlow ------------------------------
(***************************************************************************)
(* Dynamically registered OAuth clients and the user's consent to them:    *)
(* dcr.Store (the clients), dcr.ConsentStore (one record per subject, kept *)
(* without compare-and-set), and the handlers that read and write both:    *)
(* AuthorizeHandler, ConsentPost, RedeemAuthorizationCode and the client   *)
(* part of RedeemRefreshToken.                                             *)
(*                                                                         *)
(* Every call of a handler on a store is one step, so what a handler read  *)
(* may be stale when it writes.  The caches are the ones of MemoryCache;   *)
(* here an entry is a value with an expiry.  The rotation of a refresh     *)
(* token is RefreshRotation's subject and a subject's revocation           *)
(* Revocation's; here a session is just alive or not.                      *)
(***************************************************************************)
EXTENDS Integers, FiniteSets, Sequences

CONSTANTS
    Subjects, Clients, Redirects, Scopes,
    Requests,               \* handlers that may be in flight at once
    Worlds,                 \* the environments: see world
    TTL,                    \* DCR.ClientTTL: of a client and of a consent record
    Day,                    \* consentTouchEvery
    PageTTL, CodeTTL,       \* consentRequestTTL; the life of an authorization code
    MaxConsentClients, MaxConsentRedirects,
    MaxCodes, MaxPages

ASSUME ConsentAssumption ==
    /\ TTL \in Nat /\ TTL >= 4 /\ Day \in Nat \ {0} /\ PageTTL \in Nat /\ CodeTTL \in Nat
    /\ Redirects # {}
    /\ MaxConsentClients \in Nat \ {0} /\ MaxConsentRedirects \in Nat \ {0}
    /\ Worlds \subseteq [width : 1..Cardinality(Requests), redirects : SUBSET Redirects,
                         scopes : SUBSET Scopes, policies : SUBSET SUBSET Redirects,
                         prompts : SUBSET SUBSET {"none", "login", "consent"},
                         faults : BOOLEAN, until : Nat]

VARIABLES
    world,      \* how many requests at once; the redirects and scopes they name, the
                \* sets of redirects AllowedRedirectSchemes may admit, the prompts; may
                \* cache calls fail and records be lost; the last instant
    now,
    policy,     \* the redirects the serving configuration admits
    clients,    \* dcr.Store (dropped: history, a policy once deleted it)
    consent,    \* dcr.ConsentStore: subject -> record
    pages,      \* consent pages open in the subjects' browsers (sealed)
    codes,      \* authorization codes, in the order of issue
    sessions,   \* live refresh lineages of dynamically registered clients
    reqs,       \* the handlers in flight
    allowed,    \* history: what each user allowed, at which redirect
    denied      \* history: what each user denied, and was it undisturbed

vars == <<world, now, policy, clients, consent, pages, codes, sessions, reqs, allowed, denied>>

Keys == Clients \X Redirects

\* The empty consentRecord, which save deletes rather than stores.
NoGrants == [k \in {} |-> 0]
NoRecord == [grants |-> NoGrants, exp |-> 0]

Idle == [pc |-> "idle"]

(***************************************************************************)
(* The consent record.                                                     *)
(***************************************************************************)

\* touchEvery: how stale a grant may get before a read renews the record.
touchEvery == IF TTL \div 4 < Day THEN TTL \div 4 ELSE Day

\* A stored value is readable until its TTL runs out (load, Store.Get).
load(s) == IF consent[s].exp > now THEN consent[s].grants ELSE NoGrants

\* save: the whole record is replaced, with a fresh TTL, or deleted when empty.
Saved(f) == IF DOMAIN f = {} THEN NoRecord ELSE [grants |-> f, exp |-> now + TTL]

\* Covers: the redirect was allowed, for every requested scope.
Covers(f, c, r, scs) == <<c, r>> \in DOMAIN f /\ scs \subseteq f[<<c, r>>].scopes

\* Slip: consent at a redirect the policy has dropped still counts.
HeldAnywhere(f, c, redirects) == {k \in DOMAIN f : k[1] = c}

\* HasClient: the grants of the client at a redirect the policy still admits.
Held(f, c, redirects) == {k \in DOMAIN f : k[1] = c /\ k[2] \in redirects}

\* ... and of those the most recently touched one.
Newest(f, ks) == {k \in ks : \A l \in ks : f[l].touched <= f[k].touched}

\* Slip: renewed only once the TTL is over.
StaleTooLate(g) == now - g.touched >= TTL

\* touchIfStale's and touch's test.
Stale(g) == now - g.touched >= touchEvery

\* evictOldest: the sets of keys that may be left.  Ties are broken by the key,
\* a hash, so either may go; keep never does.
evictOldest(ks, limit, keep, touched) ==
    {kept \in SUBSET ks :
        /\ keep \in kept
        /\ Cardinality(kept) = IF Cardinality(ks) > limit THEN limit ELSE Cardinality(ks)
        /\ \A k \in kept \ {keep}, o \in ks \ kept : touched[o] <= touched[k]}

NewestTouch(f, ks) == CHOOSE t \in {f[k].touched : k \in ks} :
                        \A k \in ks : f[k].touched <= t

\* Grant: scopes add up, then the redirects of the client and then the clients
\* are cut to their bounds.  (The scope bound, 32, is above the number of
\* scopes the host supports.)
Granted(f, c, r, scs) ==
    LET key == <<c, r>>
        old == IF key \in DOMAIN f THEN f[key].scopes ELSE {}
        g   == [k \in DOMAIN f \cup {key} |->
                   IF k = key THEN [scopes |-> old \cup scs, touched |-> now] ELSE f[k]]
        mine == {k \in DOMAIN g : k[1] = c}
    IN  UNION {LET left == (DOMAIN g \ mine) \cup kept
                   Of(d) == {k \in left : k[1] = d}
                   ids == {k[1] : k \in left}
               IN  {[k \in {l \in left : l[1] \in cs} |-> g[k]] :
                       cs \in evictOldest(ids, MaxConsentClients, c,
                                          [d \in ids |-> NewestTouch(g, Of(d))])}
               : kept \in evictOldest(mine, MaxConsentRedirects, key,
                                      [k \in mine |-> g[k].touched])}

\* Revoke: this redirect's grant goes, the client with its last one.
Revoked(f, c, r) == [k \in DOMAIN f \ {<<c, r>>} |-> f[k]]

\* FilterRedirectURIs: what the policy admits of a client's redirects, both when
\* it registers and whenever it is read back.
FilterRedirectURIs(uris, admitted) == uris \cap admitted

Init ==
    /\ world \in Worlds
    /\ now = 0
    /\ policy \in world.policies
    /\ clients = [c \in Clients |-> [st |-> "new", redirects |-> {}, exp |-> 0, dropped |-> FALSE]]
    /\ consent = [s \in Subjects |-> NoRecord]
    /\ pages = {} /\ codes = <<>> /\ sessions = {}
    /\ reqs = [p \in Requests |-> Idle]
    /\ allowed = {} /\ denied = {}

(***************************************************************************)
(* The environment.                                                        *)
(***************************************************************************)

\* Time passes and expired entries go.
Tick ==
    /\ now < world.until
    /\ now' = now + 1
    /\ clients' = [c \in Clients |-> IF clients[c].st = "live" /\ clients[c].exp <= now'
                                     THEN [clients[c] EXCEPT !.st = "gone"] ELSE clients[c]]
    /\ consent' = [s \in Subjects |-> IF consent[s].exp <= now' THEN NoRecord ELSE consent[s]]
    /\ pages' = {g \in pages : g.exp >= now'}
    /\ UNCHANGED <<world, policy, codes, sessions, reqs, allowed, denied>>

\* A reconcile serves a new AllowedRedirectSchemes; requests in flight keep theirs.
SetPolicy(q) ==
    /\ q \in world.policies /\ q # policy
    /\ policy' = q
    /\ UNCHANGED <<world, now, clients, consent, pages, codes, sessions, reqs, allowed, denied>>

\* POST /-/oauth/register: the redirects the policy admits, refused when none
\* is.  A client id is random, so it is never registered twice.
Register(c, rs) ==
    /\ clients[c].st = "new"
    /\ FilterRedirectURIs(rs, policy) # {}
    /\ clients' = [clients EXCEPT ![c] =
                     [st |-> "live", redirects |-> FilterRedirectURIs(rs, policy), exp |-> now + TTL, dropped |-> FALSE]]
    /\ UNCHANGED <<world, now, policy, consent, pages, codes, sessions, reqs, allowed, denied>>

\* A cache entry may be lost (LRU eviction, a restart of the in-memory backend).
LoseRecord(s) ==
    /\ world.faults /\ consent[s] # NoRecord
    /\ consent' = [consent EXCEPT ![s] = NoRecord]
    /\ UNCHANGED <<world, now, policy, clients, pages, codes, sessions, reqs, allowed, denied>>

\* The user closes a consent page without deciding.
CloseTab(g) ==
    /\ g \in pages
    /\ pages' = pages \ {g}
    /\ UNCHANGED <<world, now, policy, clients, consent, codes, sessions, reqs, allowed, denied>>

(***************************************************************************)
(* Requests begin.  Each keeps the policy of the configuration serving it. *)
(***************************************************************************)

Begin(p, kind, s, c, r, scs, prompt, code) ==
    /\ reqs[p].pc = "idle" /\ Cardinality({q \in Requests : reqs[q].pc # "idle"}) < world.width
    /\ reqs' = [reqs EXCEPT ![p] =
                  [pc |-> "get", kind |-> kind, sub |-> s, client |-> c, redirect |-> r,
                   scopes |-> scs, prompt |-> prompt, code |-> code, policy |-> policy,
                   found |-> {}, read |-> NoGrants, covered |-> FALSE]]

InFlight(kind) == {p \in Requests : reqs[p].pc # "idle" /\ reqs[p].kind = kind}

\* GET /-/oauth/authorize with a browser session of s (isBrowserSession; any
\* other credential is sent to sign in and touches neither store).
Authorize(p, s, c, r, scs, prompt) ==
    /\ Len(codes) + Cardinality(InFlight("authorize")) < MaxCodes
    /\ Cardinality(pages) + Cardinality(InFlight("authorize")) < MaxPages
    /\ Begin(p, "authorize", s, c, r, scs, prompt, 0)
    /\ UNCHANGED <<world, now, policy, clients, consent, pages, codes, sessions, allowed, denied>>

\* Slip: the page is accepted from whoever is signed in.
ConsentPostByAnyone(p, g, s, decision) ==
    /\ g \in pages
    /\ now <= g.exp
    /\ Begin(p, decision, s, g.client, g.redirect, g.scopes, {}, 0)
    /\ pages' = pages \ {g}
    /\ allowed' = IF decision = "allow"
                  THEN allowed \cup {<<g.sub, g.client, g.redirect, sc>> : sc \in g.scopes \cup {"any"}}
                  ELSE allowed
    /\ UNCHANGED <<world, now, policy, clients, consent, codes, sessions, denied>>

\* POST of the consent page: only by the subject the sealed request names, and
\* before it expires.  The page is gone once it is submitted.
ConsentPost(p, g, s, decision) ==
    /\ g \in pages
    /\ g.sub = s /\ now <= g.exp
    /\ Begin(p, decision, s, g.client, g.redirect, g.scopes, {}, 0)
    /\ pages' = pages \ {g}
    /\ allowed' = IF decision = "allow"
                  THEN allowed \cup {<<g.sub, g.client, g.redirect, sc>> : sc \in g.scopes \cup {"any"}}
                  ELSE allowed
    /\ UNCHANGED <<world, now, policy, clients, consent, codes, sessions, denied>>

\* The token endpoint, grant authorization_code: the client, the redirect and
\* the PKCE verifier match what the code was issued for.
Redeem(p, i) ==
    /\ i \in DOMAIN codes /\ now <= codes[i].exp
    /\ Begin(p, "redeem", codes[i].sub, codes[i].client, codes[i].redirect, codes[i].scopes, {}, i)
    /\ UNCHANGED <<world, now, policy, clients, consent, pages, codes, sessions, allowed, denied>>

\* The token endpoint, grant refresh_token.  Rotation admits one at a time.
Refresh(p, z) ==
    /\ z \in sessions
    /\ \A q \in InFlight("refresh") : <<reqs[q].sub, reqs[q].client>> # z
    /\ Begin(p, "refresh", z[1], z[2], CHOOSE r \in Redirects : TRUE, {}, {}, 0)
    /\ UNCHANGED <<world, now, policy, clients, consent, pages, codes, sessions, allowed, denied>>

(***************************************************************************)
(* LookupClient: Get, renew the TTL, hold the record to today's policy.    *)
(***************************************************************************)

At(p, pc) == reqs[p].pc = pc
Goto(p, pc) == reqs' = [reqs EXCEPT ![p].pc = pc]
Done(p) == reqs' = [reqs EXCEPT ![p] = Idle]

\* A refresh whose redemption finds its client gone, or no consent, ends the session.
EndSession(p) == sessions' = IF reqs[p].kind = "refresh"
                             THEN sessions \ {<<reqs[p].sub, reqs[p].client>>} ELSE sessions

\* Of the lookups of a refresh (one here) the token handler's is the first: a
\* client that is gone by then is refused with the session left as it is.
ClientGone(p) == Done(p) /\ (EndSession(p) \/ UNCHANGED sessions)

ClientGet(p) ==
    /\ At(p, "get")
    /\ LET c == clients[reqs[p].client] IN
       IF c.st = "live"
       THEN /\ reqs' = [reqs EXCEPT ![p].pc = "renew", ![p].found = c.redirects]
            /\ UNCHANGED sessions
       ELSE ClientGone(p)
    /\ UNCHANGED <<world, now, policy, clients, consent, pages, codes, allowed, denied>>

\* What follows a lookup: nothing left for the client, the wrong redirect, or
\* the handler's own store calls.
AfterLookup(p) ==
    LET q == reqs[p]
        found == FilterRedirectURIs(q.found, q.policy)
        next == CASE found = {} -> "delete"
                  [] found # {} /\ q.kind = "refresh" -> "load"
                  [] found # {} /\ q.kind = "redeem" -> "take"
                  [] OTHER -> IF q.redirect \in found THEN "load" ELSE "idle"
    IN  reqs' = [reqs EXCEPT ![p] = IF next = "idle" THEN Idle
                                    ELSE [q EXCEPT !.pc = next, !.found = found]]

\* Get writes back what it read, to slide the TTL.
ClientRenew(p) ==
    /\ At(p, "renew")
    /\ \/ clients' = [clients EXCEPT ![reqs[p].client] =
                        [@ EXCEPT !.st = "live", !.redirects = reqs[p].found, !.exp = now + TTL]]
       \/ world.faults /\ UNCHANGED clients
    /\ AfterLookup(p)
    /\ UNCHANGED <<world, now, policy, consent, pages, codes, sessions, allowed, denied>>

\* No redirect is admitted any more: the client is deleted, not hidden.
ClientDelete(p) ==
    /\ At(p, "delete")
    /\ \/ clients' = [clients EXCEPT ![reqs[p].client].st = "gone", ![reqs[p].client].dropped = TRUE]
       \/ world.faults /\ UNCHANGED clients
    /\ ClientGone(p)
    /\ UNCHANGED <<world, now, policy, consent, pages, codes, allowed, denied>>

(***************************************************************************)
(* The consent step of each handler.                                       *)
(***************************************************************************)

Triple(p) == <<reqs[p].sub, reqs[p].client, reqs[p].redirect>>

\* Covers: an authorize request that is covered touches a stale grant first.
CoversLoad(p) ==
    /\ At(p, "load") /\ reqs[p].kind = "authorize"
    /\ LET q == reqs[p]
           f == load(q.sub)
           ok == Covers(f, q.client, q.redirect, q.scopes)
       IN  reqs' = [reqs EXCEPT ![p].covered = ok,
                                ![p].pc = IF ok /\ Stale(f[<<q.client, q.redirect>>])
                                          THEN "touch" ELSE "decide"]
    /\ UNCHANGED <<world, now, policy, clients, consent, pages, codes, sessions, allowed, denied>>

\* HasClient: a refresh needs consent at some admitted redirect.
HasClientLoad(p) ==
    /\ At(p, "load") /\ reqs[p].kind = "refresh"
    /\ LET q == reqs[p]
           f == load(q.sub)
           held == Held(f, q.client, q.found)
       IN  \/ held = {} /\ Done(p) /\ EndSession(p)
           \/ \E k \in Newest(f, held) :
                /\ reqs' = [reqs EXCEPT ![p].covered = TRUE, ![p].redirect = k[2],
                                        ![p].pc = IF Stale(f[k]) THEN "touch" ELSE "mint"]
                /\ UNCHANGED sessions
    /\ UNCHANGED <<world, now, policy, clients, consent, pages, codes, allowed, denied>>

AfterTouch(p) == IF reqs[p].kind = "refresh" THEN "mint" ELSE "decide"

\* Slip: the renewed grant is put back without looking whether it is still there.
TouchBlindly(p) ==
    /\ At(p, "touch")
    /\ LET q == reqs[p]
           f == load(q.sub)
           k == <<q.client, q.redirect>>
           g == [scopes |-> q.scopes, touched |-> now]
       IN  reqs' = [reqs EXCEPT ![p].pc = "save",
                                ![p].read = [l \in DOMAIN f \cup {k} |-> IF l = k THEN g ELSE f[l]]]
    /\ UNCHANGED <<world, now, policy, clients, consent, pages, codes, sessions, allowed, denied>>

\* touch reads the record again, and writes only what is still there and stale.
TouchLoad(p) ==
    /\ At(p, "touch")
    /\ LET q == reqs[p]
           f == load(q.sub)
           k == <<q.client, q.redirect>>
       IN  IF k \in DOMAIN f /\ Stale(f[k])
           THEN reqs' = [reqs EXCEPT ![p].pc = "save", ![p].read = [f EXCEPT ![k].touched = now]]
           ELSE Goto(p, AfterTouch(p))
    /\ UNCHANGED <<world, now, policy, clients, consent, pages, codes, sessions, allowed, denied>>

\* Grant and Revoke read the record they will write back.
DecisionLoad(p) ==
    /\ At(p, "load") /\ reqs[p].kind \in {"allow", "deny"}
    /\ LET q == reqs[p]
           f == load(q.sub)
       IN  \E g \in IF q.kind = "allow" THEN Granted(f, q.client, q.redirect, q.scopes)
                                        ELSE {Revoked(f, q.client, q.redirect)} :
             reqs' = [reqs EXCEPT ![p].pc = "save", ![p].read = g]
    /\ denied' = IF reqs[p].kind = "allow" THEN {d \in denied : d.at # Triple(p)} ELSE denied
    /\ UNCHANGED <<world, now, policy, clients, consent, pages, codes, sessions, allowed>>

\* Other handlers about to write back a copy of the subject's record.
Holders(p) == {q \in Requests \ {p} : At(q, "save") /\ reqs[q].sub = reqs[p].sub}

\* save: the whole record, last writer wins.
Save(p) ==
    /\ At(p, "save")
    /\ consent' = [consent EXCEPT ![reqs[p].sub] = Saved(reqs[p].read)]
    /\ IF reqs[p].kind \in {"allow", "deny"} THEN Done(p) ELSE Goto(p, AfterTouch(p))
    /\ denied' = CASE reqs[p].kind = "deny" ->
                        denied \cup {[at |-> Triple(p), alone |-> Holders(p) = {}]}
                   [] reqs[p].kind = "allow" -> {d \in denied : d.at # Triple(p)}
                   [] OTHER -> denied
    /\ UNCHANGED <<world, now, policy, clients, pages, codes, sessions, allowed>>

\* The end of AuthorizeHandler: prompt=none answers without a page, a login
\* prompt goes to sign in, then the consent page or the code.
Decide(p) ==
    /\ At(p, "decide")
    /\ LET q == reqs[p]
       IN  \/ /\ \/ "none" \in q.prompt /\ ~q.covered
                 \/ "login" \in q.prompt
              /\ UNCHANGED <<pages, codes>>
           \/ /\ q.prompt \cap {"none", "login"} = {}
              /\ ~q.covered \/ "consent" \in q.prompt
              /\ pages' = pages \cup {[sub |-> q.sub, client |-> q.client, redirect |-> q.redirect,
                                        scopes |-> q.scopes, exp |-> now + PageTTL]}
              /\ UNCHANGED codes
           \/ /\ q.covered /\ q.prompt \cap {"login", "consent"} = {}
              /\ codes' = Append(codes, [sub |-> q.sub, client |-> q.client, redirect |-> q.redirect,
                                          scopes |-> q.scopes, exp |-> now + CodeTTL, live |-> TRUE])
              /\ UNCHANGED pages
    /\ Done(p)
    /\ UNCHANGED <<world, now, policy, clients, consent, sessions, allowed, denied>>

\* RedeemAuthorizationCode: GetAndDelete of the code's id, then the tokens.
Take(p) ==
    /\ At(p, "take")
    /\ LET q == reqs[p] IN
       IF codes[q.code].live
       THEN /\ codes' = [codes EXCEPT ![q.code].live = FALSE]
            /\ sessions' = sessions \cup {<<q.sub, q.client>>}
       ELSE UNCHANGED <<codes, sessions>>
    /\ Done(p)
    /\ UNCHANGED <<world, now, policy, clients, consent, pages, allowed, denied>>

\* The refresh mints and rotates (RefreshRotation).
Mint(p) ==
    /\ At(p, "mint") /\ Done(p)
    /\ UNCHANGED <<world, now, policy, clients, consent, pages, codes, sessions, allowed, denied>>

\* A failing cache call.  Covers reads a failure as "not covered"; a touch is
\* best effort; everything else answers 503 and a refresh token is restored.
Fail(p) ==
    /\ world.faults /\ reqs[p].pc \in {"get", "load", "touch", "save", "decide", "take"}
    /\ CASE At(p, "load") /\ reqs[p].kind = "authorize" -> Goto(p, "decide")
         [] reqs[p].pc \in {"touch", "save"} /\ reqs[p].kind \in {"authorize", "refresh"}
              -> Goto(p, AfterTouch(p))
         [] OTHER -> Done(p)
    /\ UNCHANGED <<world, now, policy, clients, consent, pages, codes, sessions, allowed, denied>>

Handle(p) ==
    \/ \E s \in Subjects, c \in Clients, r \in world.redirects, scs \in SUBSET world.scopes, pr \in world.prompts :
          Authorize(p, s, c, r, scs, pr)
    \/ \E g \in pages, s \in Subjects, d \in {"allow", "deny"} : ConsentPost(p, g, s, d)
    \/ \E i \in DOMAIN codes : Redeem(p, i)
    \/ \E z \in sessions : Refresh(p, z)
    \/ ClientGet(p) \/ ClientRenew(p) \/ ClientDelete(p)
    \/ CoversLoad(p) \/ HasClientLoad(p) \/ TouchLoad(p) \/ DecisionLoad(p)
    \/ Save(p) \/ Decide(p) \/ Take(p) \/ Mint(p) \/ Fail(p)

Next ==
    \/ Tick
    \/ \E q \in world.policies : SetPolicy(q)
    \/ \E c \in Clients, rs \in SUBSET world.redirects : Register(c, rs)
    \/ \E s \in Subjects : LoseRecord(s)
    \/ \E g \in pages : CloseTab(g)
    \/ \E p \in Requests : Handle(p)

Spec == Init /\ [][Next]_vars

(***************************************************************************)
(* Properties.                                                             *)
(***************************************************************************)

Grant   == [scopes : SUBSET Scopes, touched : Nat]
Records == UNION {[D -> Grant] : D \in SUBSET Keys}

Kinds == {"authorize", "allow", "deny", "redeem", "refresh"}
Pcs == {"get", "renew", "delete", "load", "touch", "save", "decide", "take", "mint"}
Prompts == {"none", "login", "consent"}
Req == [pc : Pcs, kind : Kinds, sub : Subjects, client : Clients, redirect : Redirects,
        scopes : SUBSET Scopes, prompt : SUBSET Prompts, code : Nat, policy : SUBSET Redirects,
        found : SUBSET Redirects, read : Records, covered : BOOLEAN]
Page == [sub : Subjects, client : Clients, redirect : Redirects, scopes : SUBSET Scopes, exp : Nat]
Code == [sub : Subjects, client : Clients, redirect : Redirects, scopes : SUBSET Scopes,
         exp : Nat, live : BOOLEAN]

\* Every variable holds a value the program can give it.
TypeOK ==
    /\ world \in Worlds /\ now \in 0..world.until /\ policy \in world.policies
    /\ clients \in [Clients -> [st : {"new", "live", "gone"}, redirects : SUBSET Redirects,
                                exp : Nat, dropped : BOOLEAN]]
    /\ consent \in [Subjects -> [grants : Records, exp : Nat]]
    /\ pages \subseteq Page
    /\ codes \in Seq(Code)
    /\ sessions \subseteq Subjects \X Clients
    /\ reqs \in [Requests -> Req \cup {Idle}]
    /\ \A p \in Requests : reqs[p].pc # "idle" /\ (reqs[p].pc = "take" \/ reqs[p].kind = "redeem")
                             => reqs[p].code \in DOMAIN codes
    /\ allowed \subseteq Subjects \X Clients \X Redirects \X (Scopes \cup {"any"})
    /\ denied \subseteq [at : Subjects \X Clients \X Redirects, alone : BOOLEAN]

\* An authorization code for a dynamically registered client exists only if
\* that subject once pressed Allow on a page naming this client, this redirect
\* and every one of its scopes (AuthorizeHandler, ConsentPost).
CodeNeedsAllow ==
    \A i \in DOMAIN codes : \A sc \in codes[i].scopes \cup {"any"} :
        <<codes[i].sub, codes[i].client, codes[i].redirect, sc>> \in allowed

\* A refresh that goes on to mint has the user's consent at a redirect that the
\* policy it is served under admits, never at one the policy dropped
\* (HasClient, RedeemRefreshToken).
RefreshBacked ==
    \A p \in Requests : At(p, "mint") =>
        \E r \in reqs[p].policy : <<reqs[p].sub, reqs[p].client, r, "any">> \in allowed

\* A Deny that no other handler's write overlapped is final until the user
\* allows again: no touch, eviction, other grant or expiry brings the consent
\* back (Revoke, touch).
DenySticks ==
    \A d \in denied : d.alone => <<d.at[2], d.at[3]>> \notin DOMAIN consent[d.at[1]].grants

\* A consent in use does not expire under it: a covered authorize or a refresh
\* leaves the subject's record at least TTL - touchEvery to live (touchIfStale:
\* "if it is fresh, so is the record").
UseRenews ==
    [][\A p \in Requests :
          /\ reqs[p].pc \in {"load", "save"} /\ reqs'[p].pc \in {"decide", "mint"}
          /\ reqs'[p].covered
          /\ At(p, "save") => consent' # consent
          => consent'[reqs[p].sub].exp >= now + TTL - touchEvery]_vars

\* touch: "writing back the caller's copy could resurrect a grant revoked since
\* that copy was read", so it re-loads and "never resurrects it": once no write
\* is pending, what was denied is not in the record.
TouchNeverResurrects ==
    \A d \in denied :
        (\A p \in Requests : At(p, "save") => reqs[p].sub # d.at[1])
            => <<d.at[2], d.at[3]>> \notin DOMAIN consent[d.at[1]].grants

\* LookupClient deletes a client the policy leaves no redirect "so relaxing the
\* policy later does not resurrect the client": once no request is using a
\* client so deleted, it is not stored.
DeletedStaysDeleted ==
    \A c \in Clients :
        clients[c].dropped /\ (\A p \in Requests : At(p, "idle") \/ reqs[p].client # c)
            => clients[c].st # "live"
================================================================================
