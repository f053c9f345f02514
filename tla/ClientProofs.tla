--------------------------- MODULE ClientProofs ---------------------------
(***************************************************************************)
(* Proofs about the clients.  Whatever the handlers in flight, the users'  *)
(* decisions, the changes of policy and the lost or failing cache calls: a *)
(* code or a refresh of a dynamically registered client rests on an Allow  *)
(* of its user, an undisturbed Deny sticks, and a consent in use does not  *)
(* expire (ConsentFlow).  And whatever the edits, overlapping builds and   *)
(* skewed clocks: no credential changes its kind, and a client removed and *)
(* added again starts clean (ClientRegistry).                              *)
(***************************************************************************)
EXTENDS ConsentFlow, ClientRegistry, TLAPS

-----------------------------------------------------------------------------
(* Records                                                                 *)

LEMMA RecordFacts ==
  /\ NoGrants \in Records /\ DOMAIN NoGrants = {}
  /\ \A f \in Records : DOMAIN f \subseteq Keys /\ f \in [DOMAIN f -> Grant]
  /\ \A D \in SUBSET Keys : [D -> Grant] \subseteq Records
<1>1. NoGrants \in [{} -> Grant] /\ DOMAIN NoGrants = {}
  BY DEF NoGrants
<1> QED BY <1>1 DEF Records

LEMMA RecordAt ==
  ASSUME NEW f \in Records, NEW k \in DOMAIN f
  PROVE  /\ f[k] \in Grant /\ f[k].scopes \subseteq Scopes /\ f[k].touched \in Nat
         /\ k \in Keys /\ k = <<k[1], k[2]>> /\ k[1] \in Clients /\ k[2] \in Redirects
<1>1. f[k] \in Grant /\ k \in Keys
  BY RecordFacts
<1> QED BY <1>1 DEF Grant, Keys

\* A part of a record is a record.
LEMMA PartOfRecord ==
  ASSUME NEW f \in Records, NEW D \in SUBSET DOMAIN f
  PROVE  /\ [k \in D |-> f[k]] \in Records /\ DOMAIN [k \in D |-> f[k]] = D
<1>1. D \in SUBSET Keys /\ \A k \in D : f[k] \in Grant
  BY RecordFacts, RecordAt
<1>2. [k \in D |-> f[k]] \in [D -> Grant]
  BY <1>1
<1> QED BY <1>1, <1>2, RecordFacts

LEMMA NoRecordType == NoRecord \in [grants : Records, exp : Nat]
  BY RecordFacts DEF NoRecord

LEMMA LoadType ==
  ASSUME TypeOK, NEW s \in Subjects
  PROVE  load(s) \in Records /\ DOMAIN load(s) \subseteq DOMAIN consent[s].grants
  BY RecordFacts DEF load, TypeOK

LEMMA LoadAt ==
  ASSUME TypeOK, NEW s \in Subjects, NEW k \in DOMAIN load(s)
  PROVE  /\ load(s) = consent[s].grants /\ consent[s].exp > now
         /\ k \in DOMAIN consent[s].grants
  BY RecordFacts DEF load

LEMMA SavedType ==
  ASSUME TypeOK, NEW f \in Records
  PROVE  Saved(f) \in [grants : Records, exp : Nat] /\ DOMAIN Saved(f).grants = DOMAIN f
<1>1. now + TTL \in Nat
  BY ConsentAssumption DEF TypeOK
<1>2. CASE DOMAIN f = {}
  BY <1>2, NoRecordType, RecordFacts DEF Saved, NoRecord
<1>3. CASE DOMAIN f # {}
  BY <1>1, <1>3 DEF Saved
<1> QED BY <1>2, <1>3

\* What Grant leaves of the record: the decided grant and old ones as they were.
LEMMA GrantedFacts ==
  ASSUME TypeOK, NEW f \in Records, NEW c \in Clients, NEW r \in Redirects,
         NEW scs \in SUBSET Scopes, NEW h \in Granted(f, c, r, scs)
  PROVE  /\ h \in Records
         /\ DOMAIN h \subseteq DOMAIN f \cup {<<c, r>>}
         /\ \A k \in DOMAIN h :
               IF k = <<c, r>>
                 THEN /\ h[k].touched = now
                      /\ h[k].scopes \subseteq (IF k \in DOMAIN f THEN f[k].scopes ELSE {}) \cup scs
                 ELSE h[k] = f[k]
<1> DEFINE key == <<c, r>>
           old == IF key \in DOMAIN f THEN f[key].scopes ELSE {}
           g   == [k \in DOMAIN f \cup {key} |->
                     IF k = key THEN [scopes |-> old \cup scs, touched |-> now] ELSE f[k]]
<1>1. \E D \in SUBSET DOMAIN g : h = [k \in D |-> g[k]]
  <2> HIDE DEF g
  <2> DEFINE mine == {k \in DOMAIN g : k[1] = c}
             Left(kept) == (DOMAIN g \ mine) \cup kept
             Ids(kept) == {k[1] : k \in Left(kept)}
             Rests(kept) == {[k \in {l \in Left(kept) : l[1] \in cs} |-> g[k]] :
                       cs \in evictOldest(Ids(kept), MaxConsentClients, c,
                                 [d \in Ids(kept) |-> NewestTouch(g, {k \in Left(kept) : k[1] = d})])}
             Kept == evictOldest(mine, MaxConsentRedirects, key, [k \in mine |-> g[k].touched])
  <2>1. Granted(f, c, r, scs) = UNION {Rests(kept) : kept \in Kept}
    BY DEF Granted, g
  <2>2. PICK kept \in Kept : h \in Rests(kept)
    BY <2>1
  <2>3. kept \subseteq DOMAIN g
    BY <2>2 DEF evictOldest
  <2>4. PICK cs : h = [k \in {l \in Left(kept) : l[1] \in cs} |-> g[k]]
    BY <2>2
  <2>5. {l \in Left(kept) : l[1] \in cs} \subseteq DOMAIN g
    BY <2>3
  <2> QED BY <2>4, <2>5
<1>2. PICK D \in SUBSET DOMAIN g : h = [k \in D |-> g[k]]
  BY <1>1
<1>3. g \in Records /\ DOMAIN g = DOMAIN f \cup {key}
  <2>1. key \in Keys /\ DOMAIN f \subseteq Keys
    BY RecordFacts DEF Keys
  <2>2. old \subseteq Scopes /\ now \in Nat
    BY RecordAt, ConsentAssumption DEF TypeOK
  <2>3. [scopes |-> old \cup scs, touched |-> now] \in Grant
    BY <2>2 DEF Grant
  <2>4. \A k \in DOMAIN f \cup {key} : g[k] \in Grant
    BY <2>3, RecordAt
  <2>5. g \in [DOMAIN f \cup {key} -> Grant]
    BY <2>4
  <2> QED BY <2>1, <2>5, RecordFacts
<1>4. h \in Records /\ DOMAIN h = D
  BY <1>2, <1>3, PartOfRecord
<1> QED BY <1>2, <1>3, <1>4

LEMMA RevokedFacts ==
  ASSUME NEW f \in Records, NEW c, NEW r
  PROVE  /\ Revoked(f, c, r) \in Records /\ DOMAIN Revoked(f, c, r) = DOMAIN f \ {<<c, r>>}
         /\ \A k \in DOMAIN Revoked(f, c, r) : Revoked(f, c, r)[k] = f[k]
  BY PartOfRecord DEF Revoked

LEMMA TouchedFacts ==
  ASSUME TypeOK, NEW f \in Records, NEW k \in DOMAIN f
  PROVE  /\ [f EXCEPT ![k].touched = now] \in Records
         /\ DOMAIN [f EXCEPT ![k].touched = now] = DOMAIN f
         /\ \A l \in DOMAIN f :
               /\ [f EXCEPT ![k].touched = now][l].scopes = f[l].scopes
               /\ [f EXCEPT ![k].touched = now][l].touched = IF l = k THEN now ELSE f[l].touched
<1>0. now \in Nat
  BY ConsentAssumption DEF TypeOK
<1>1. f \in [DOMAIN f -> Grant] /\ DOMAIN f \subseteq Keys
  BY RecordFacts
<1>2. [f EXCEPT ![k].touched = now] \in [DOMAIN f -> Grant]
  BY <1>0, <1>1 DEF Grant
<1> QED BY <1>0, <1>1, <1>2, RecordFacts DEF Grant

-----------------------------------------------------------------------------
(* Types                                                                   *)

\* What TypeOK says of the environment and of a request in flight.
LEMMA WorldTypes ==
  ASSUME TypeOK
  PROVE  /\ now \in Nat /\ now + TTL \in Nat /\ world.until \in Nat
         /\ world.redirects \subseteq Redirects /\ world.scopes \subseteq Scopes
         /\ policy \subseteq Redirects /\ world.prompts \subseteq SUBSET Prompts
         /\ \A q \in world.policies : q \subseteq Redirects
  BY ConsentAssumption DEF TypeOK, Prompts

LEMMA RequestTypes ==
  ASSUME TypeOK, NEW p \in Requests, reqs[p].pc # "idle"
  PROVE  reqs[p] \in Req
  BY DEF TypeOK, Idle

LEMMA CodeTypes ==
  ASSUME TypeOK, NEW i \in DOMAIN codes
  PROVE  codes[i] \in Code /\ i \in Nat
<1> HIDE DEF Code
<1> QED BY DEF TypeOK

\* The request p takes a step: it is done, or goes on with the same parameters.
Others(p) == \A q \in Requests \ {p} : reqs'[q] = reqs[q]
SameCall(p) ==
  /\ reqs'[p].kind = reqs[p].kind /\ reqs'[p].sub = reqs[p].sub /\ reqs'[p].client = reqs[p].client
  /\ reqs'[p].scopes = reqs[p].scopes /\ reqs'[p].code = reqs[p].code
  /\ reqs'[p].policy = reqs[p].policy
GoesOn(p) == reqs'[p] \in Req /\ SameCall(p)
MovesOn(p) == Others(p) /\ (reqs'[p] = Idle \/ GoesOn(p))

LEMMA MoveTypes ==
  ASSUME TypeOK, NEW p \in Requests, MovesOn(p), reqs' \in [Requests -> Req \cup {Idle}],
         DOMAIN codes \subseteq DOMAIN codes', reqs[p].pc # "idle",
         reqs'[p].pc = "take" => reqs[p].kind = "redeem"
  PROVE  \A q \in Requests : reqs'[q].pc # "idle" /\ (reqs'[q].pc = "take" \/ reqs'[q].kind = "redeem")
                             => reqs'[q].code \in DOMAIN codes'
<1> SUFFICES ASSUME NEW q \in Requests, reqs'[q].pc # "idle",
                    reqs'[q].pc = "take" \/ reqs'[q].kind = "redeem"
             PROVE  reqs'[q].code \in DOMAIN codes'
  OBVIOUS
<1>1. CASE q # p
  <2>1. reqs'[q] = reqs[q]
    BY <1>1 DEF MovesOn, Others
  <2> QED BY <2>1 DEF TypeOK
<1>2. CASE q = p
  <2>1. SameCall(p)
    BY <1>2 DEF MovesOn, GoesOn, Idle
  <2>2. reqs[p].kind = "redeem" /\ reqs'[p].code = reqs[p].code
    BY <1>2, <2>1 DEF SameCall
  <2> QED BY <1>2, <2>2 DEF TypeOK
<1> QED BY <1>1, <1>2

Handling(p) ==
  \/ ClientGet(p) \/ ClientRenew(p) \/ ClientDelete(p)
  \/ CoversLoad(p) \/ HasClientLoad(p) \/ TouchLoad(p) \/ DecisionLoad(p)
  \/ Save(p) \/ Decide(p) \/ Take(p) \/ Mint(p) \/ Fail(p)

LEMMA DoneMoves ==
  ASSUME TypeOK, NEW p \in Requests, Done(p)
  PROVE  MovesOn(p) /\ reqs' \in [Requests -> Req \cup {Idle}] /\ reqs'[p] = Idle /\ reqs'[p].pc = "idle"
  BY DEF TypeOK, Done, MovesOn, Others, Idle

LEMMA GotoMoves ==
  ASSUME TypeOK, NEW p \in Requests, reqs[p].pc # "idle", NEW l \in Pcs, Goto(p, l)
  PROVE  /\ MovesOn(p) /\ GoesOn(p) /\ reqs' \in [Requests -> Req \cup {Idle}]
         /\ reqs'[p].pc = l /\ reqs'[p].read = reqs[p].read /\ reqs'[p].found = reqs[p].found
         /\ reqs'[p].covered = reqs[p].covered /\ reqs'[p].redirect = reqs[p].redirect
  BY RequestTypes DEF TypeOK, Goto, MovesOn, GoesOn, SameCall, Others, Req

\* What each step of a handler does to its request.
LEMMA LookupMoves ==
  ASSUME TypeOK, NEW p \in Requests, ClientGet(p) \/ ClientRenew(p) \/ ClientDelete(p)
  PROVE  /\ MovesOn(p) /\ reqs' \in [Requests -> Req \cup {Idle}]
         /\ reqs[p].pc \in {"get", "renew", "delete"}
         /\ reqs'[p].pc \in {"idle", "renew", "delete", "load", "take"}
         /\ reqs'[p].pc = "take" => reqs[p].kind = "redeem"
         /\ reqs'[p] # Idle => /\ reqs'[p].covered = reqs[p].covered
                               /\ reqs'[p].redirect = reqs[p].redirect
         /\ reqs'[p].pc = "load" => reqs'[p].found \subseteq reqs[p].policy
<1>1. CASE Done(p) /\ (ClientGet(p) \/ ClientDelete(p))
  BY <1>1, DoneMoves DEF ClientGet, ClientDelete, At
<1>2. CASE ClientGet(p) /\ ~Done(p)
  <2>1. clients[reqs[p].client].redirects \subseteq Redirects /\ reqs[p].pc = "get" /\ reqs[p] \in Req
    BY <1>2, RequestTypes DEF ClientGet, At, TypeOK, Req
  <2>2. reqs' = [reqs EXCEPT ![p].pc = "renew", ![p].found = clients[reqs[p].client].redirects]
    BY <1>2 DEF ClientGet, ClientGone
  <2> QED BY <2>1, <2>2 DEF TypeOK, Req, Pcs, MovesOn, GoesOn, SameCall, Others
<1>3. CASE ClientRenew(p)
  <2> DEFINE q == reqs[p]
             found == FilterRedirectURIs(q.found, q.policy)
  <2>1. q \in Req /\ found \subseteq Redirects /\ found \subseteq q.policy /\ q.pc = "renew"
    BY <1>3, RequestTypes DEF ClientRenew, At, Req, FilterRedirectURIs
  <2>2. \/ reqs' = [reqs EXCEPT ![p] = Idle]
        \/ \E next \in {"delete", "load", "take"} :
              /\ next = "take" => q.kind = "redeem"
              /\ reqs' = [reqs EXCEPT ![p] = [q EXCEPT !.pc = next, !.found = found]]
    BY <1>3 DEF ClientRenew, AfterLookup
  <2>3. CASE reqs' = [reqs EXCEPT ![p] = Idle]
    BY <2>1, <2>3, DoneMoves DEF Done
  <2>4. ASSUME NEW next \in {"delete", "load", "take"}, next = "take" => q.kind = "redeem",
               reqs' = [reqs EXCEPT ![p] = [q EXCEPT !.pc = next, !.found = found]]
        PROVE  /\ MovesOn(p) /\ reqs' \in [Requests -> Req \cup {Idle}]
               /\ reqs'[p].pc = next /\ reqs'[p].covered = reqs[p].covered /\ reqs'[p].redirect = reqs[p].redirect
               /\ reqs'[p].found = found
    <3>1. [q EXCEPT !.pc = next, !.found = found] \in Req
      BY <2>1, <2>4 DEF Req, Pcs
    <3> HIDE DEF found
    <3> QED BY <2>1, <2>4, <3>1 DEF TypeOK, MovesOn, GoesOn, SameCall, Others, Req
  <2> QED BY <2>1, <2>2, <2>3, <2>4
<1> QED BY <1>1, <1>2, <1>3 DEF ClientDelete, ClientGone

LEMMA CoversMoves ==
  ASSUME TypeOK, NEW p \in Requests, CoversLoad(p)
  PROVE  /\ MovesOn(p) /\ GoesOn(p) /\ reqs' \in [Requests -> Req \cup {Idle}]
         /\ reqs[p].pc = "load" /\ reqs[p].kind = "authorize"
         /\ reqs'[p].pc \in {"touch", "decide"} /\ (reqs'[p].pc = "touch" => reqs'[p].covered)
         /\ reqs'[p].redirect = reqs[p].redirect /\ reqs'[p].found = reqs[p].found
         /\ reqs'[p].covered <=> Covers(load(reqs[p].sub), reqs[p].client, reqs[p].redirect, reqs[p].scopes)
         /\ reqs'[p].covered /\ reqs'[p].pc = "decide" =>
               ~Stale(load(reqs[p].sub)[<<reqs[p].client, reqs[p].redirect>>])
<1> DEFINE q == reqs[p]
           ok == Covers(load(q.sub), q.client, q.redirect, q.scopes)
           l == IF ok /\ Stale(load(q.sub)[<<q.client, q.redirect>>]) THEN "touch" ELSE "decide"
<1>1. q \in Req /\ q.pc = "load" /\ q.kind = "authorize"
  BY RequestTypes DEF CoversLoad, At
<1>2. ok \in BOOLEAN
  BY DEF Covers
<1>3. l \in {"touch", "decide"} /\ (l = "touch" => ok)
      /\ (ok /\ l = "decide" => ~Stale(load(q.sub)[<<q.client, q.redirect>>]))
  OBVIOUS
<1>4. reqs' = [reqs EXCEPT ![p].covered = ok, ![p].pc = l]
  BY DEF CoversLoad
<1> HIDE DEF ok, l
<1>5. /\ reqs'[p] = [q EXCEPT !.covered = ok, !.pc = l]
      /\ Others(p) /\ [q EXCEPT !.covered = ok, !.pc = l] \in Req
      /\ reqs' = [reqs EXCEPT ![p] = [q EXCEPT !.covered = ok, !.pc = l]]
  BY <1>1, <1>2, <1>3, <1>4 DEF TypeOK, Req, Pcs, Others
<1>6. MovesOn(p) /\ GoesOn(p) /\ reqs' \in [Requests -> Req \cup {Idle}]
  BY <1>1, <1>5 DEF TypeOK, Req, MovesOn, GoesOn, SameCall
<1>7. /\ reqs'[p].pc = l /\ reqs'[p].redirect = q.redirect /\ reqs'[p].found = q.found
      /\ reqs'[p].covered = ok
  BY <1>1, <1>2, <1>5 DEF Req
<1> QED BY <1>1, <1>3, <1>6, <1>7 DEF ok

LEMMA HasClientMoves ==
  ASSUME TypeOK, NEW p \in Requests, HasClientLoad(p)
  PROVE  /\ MovesOn(p) /\ reqs' \in [Requests -> Req \cup {Idle}]
         /\ reqs[p].pc = "load" /\ reqs[p].kind = "refresh"
         /\ reqs'[p].pc \in {"idle", "touch", "mint"}
         /\ reqs'[p].pc # "idle" =>
               /\ reqs'[p].covered /\ reqs'[p].found = reqs[p].found
               /\ <<reqs[p].client, reqs'[p].redirect>> \in DOMAIN load(reqs[p].sub)
               /\ reqs'[p].redirect \in reqs[p].found
               /\ reqs'[p].pc = "mint" => ~Stale(load(reqs[p].sub)[<<reqs[p].client, reqs'[p].redirect>>])
<1> DEFINE q == reqs[p]
           f == load(q.sub)
<1>1. q \in Req /\ q.pc = "load" /\ q.kind = "refresh" /\ q.sub \in Subjects
  BY RequestTypes DEF HasClientLoad, At, Req
<1>2. CASE Done(p)
  BY <1>1, <1>2, DoneMoves
<1>3. CASE ~Done(p)
  <2>1. PICK k \in Newest(f, Held(f, q.client, q.found)) :
           reqs' = [reqs EXCEPT ![p].covered = TRUE, ![p].redirect = k[2],
                                ![p].pc = IF Stale(f[k]) THEN "touch" ELSE "mint"]
    BY <1>3 DEF HasClientLoad
  <2>2. k \in DOMAIN f /\ k[1] = q.client /\ k[2] \in q.found
    BY DEF Newest, Held
  <2>3. k = <<q.client, k[2]>> /\ k[2] \in Redirects
    BY <1>1, <2>2, LoadType, RecordAt
  <2> DEFINE l == IF Stale(f[k]) THEN "touch" ELSE "mint"
  <2>4. l \in {"touch", "mint"} /\ (l = "mint" => ~Stale(f[k]))
    OBVIOUS
  <2>5. reqs' = [reqs EXCEPT ![p].covered = TRUE, ![p].redirect = k[2], ![p].pc = l]
    BY <2>1
  <2> HIDE DEF l, f
  <2>6. /\ reqs'[p] = [q EXCEPT !.covered = TRUE, !.redirect = k[2], !.pc = l]
        /\ Others(p) /\ [q EXCEPT !.covered = TRUE, !.redirect = k[2], !.pc = l] \in Req
        /\ reqs' = [reqs EXCEPT ![p] = [q EXCEPT !.covered = TRUE, !.redirect = k[2], !.pc = l]]
    BY <1>1, <2>3, <2>4, <2>5 DEF TypeOK, Req, Pcs, Others
  <2>7. MovesOn(p) /\ reqs' \in [Requests -> Req \cup {Idle}]
    BY <1>1, <2>6 DEF TypeOK, Req, MovesOn, GoesOn, SameCall
  <2>8. /\ reqs'[p].pc = l /\ reqs'[p].redirect = k[2] /\ reqs'[p].found = q.found
        /\ reqs'[p].covered = TRUE
    BY <1>1, <2>6 DEF Req
  <2> QED BY <1>1, <2>2, <2>3, <2>4, <2>7, <2>8 DEF f
<1> QED BY <1>2, <1>3

\* A touch or a decision takes a copy of the record to write back.
LEMMA CopyMoves ==
  ASSUME TypeOK, NEW p \in Requests, reqs[p].pc # "idle", NEW g \in Records,
         reqs' = [reqs EXCEPT ![p].pc = "save", ![p].read = g]
  PROVE  /\ MovesOn(p) /\ GoesOn(p) /\ reqs' \in [Requests -> Req \cup {Idle}]
         /\ reqs'[p].pc = "save" /\ reqs'[p].read = g /\ reqs'[p].found = reqs[p].found
         /\ reqs'[p].covered = reqs[p].covered /\ reqs'[p].redirect = reqs[p].redirect
  BY RequestTypes DEF TypeOK, MovesOn, GoesOn, SameCall, Others, Req, Pcs

LEMMA TouchMoves ==
  ASSUME TypeOK, NEW p \in Requests, TouchLoad(p),
         NEW s \in Subjects, s = reqs[p].sub, NEW k, k = <<reqs[p].client, reqs[p].redirect>>
  PROVE  /\ reqs[p].pc = "touch"
         /\ \/ /\ k \in DOMAIN load(s) /\ [load(s) EXCEPT ![k].touched = now] \in Records
               /\ reqs' = [reqs EXCEPT ![p].pc = "save", ![p].read = [load(s) EXCEPT ![k].touched = now]]
            \/ Goto(p, AfterTouch(p)) /\ AfterTouch(p) \in {"mint", "decide"}
  BY LoadType, TouchedFacts DEF TouchLoad, At, AfterTouch

LEMMA DecisionMoves ==
  ASSUME TypeOK, NEW p \in Requests, DecisionLoad(p), NEW q, q = reqs[p]
  PROVE  /\ q.pc = "load" /\ q.kind \in {"allow", "deny"} /\ q \in Req
         /\ \E g \in Records :
               /\ reqs' = [reqs EXCEPT ![p].pc = "save", ![p].read = g]
               /\ q.kind = "allow" => g \in Granted(load(q.sub), q.client, q.redirect, q.scopes)
               /\ q.kind = "deny" => g = Revoked(load(q.sub), q.client, q.redirect)
<1>1. q.pc = "load" /\ q.kind \in {"allow", "deny"} /\ q \in Req
  BY RequestTypes DEF DecisionLoad, At
<1>2. q.sub \in Subjects /\ q.client \in Clients /\ q.redirect \in Redirects /\ q.scopes \in SUBSET Scopes
  BY <1>1 DEF Req
<1>3. load(q.sub) \in Records
  BY <1>2, LoadType
<1>4. PICK g \in IF q.kind = "allow" THEN Granted(load(q.sub), q.client, q.redirect, q.scopes)
                                      ELSE {Revoked(load(q.sub), q.client, q.redirect)} :
             reqs' = [reqs EXCEPT ![p].pc = "save", ![p].read = g]
  BY DEF DecisionLoad
<1>5. g \in Records
  <2>1. CASE q.kind = "allow"
    <3>1. g \in Granted(load(q.sub), q.client, q.redirect, q.scopes)
      BY <1>4, <2>1
    <3> QED BY <1>2, <1>3, <3>1, GrantedFacts
  <2>2. CASE q.kind # "allow"
    <3>1. g = Revoked(load(q.sub), q.client, q.redirect)
      BY <1>4, <2>2
    <3> QED BY <1>3, <3>1, RevokedFacts
  <2> QED BY <2>1, <2>2
<1> QED BY <1>1, <1>4, <1>5

LEMMA SaveMoves ==
  ASSUME TypeOK, NEW p \in Requests, Save(p)
  PROVE  /\ reqs[p].pc = "save" /\ reqs[p] \in Req
         /\ \/ Done(p) /\ reqs[p].kind \in {"allow", "deny"}
            \/ /\ Goto(p, AfterTouch(p)) /\ reqs[p].kind \notin {"allow", "deny"}
               /\ AfterTouch(p) \in {"mint", "decide"}
         /\ Saved(reqs[p].read) \in [grants : Records, exp : Nat]
         /\ DOMAIN Saved(reqs[p].read).grants = DOMAIN reqs[p].read
<1>1. reqs[p].pc = "save" /\ reqs[p] \in Req /\ reqs[p].read \in Records
  BY RequestTypes DEF Save, At, Req
<1>2. \/ Done(p) /\ reqs[p].kind \in {"allow", "deny"}
      \/ /\ Goto(p, AfterTouch(p)) /\ reqs[p].kind \notin {"allow", "deny"}
         /\ AfterTouch(p) \in {"mint", "decide"}
  BY DEF Save, AfterTouch
<1> QED BY <1>1, <1>2, SavedType

LEMMA FailMoves ==
  ASSUME TypeOK, NEW p \in Requests, Fail(p)
  PROVE  /\ reqs[p].pc \in {"get", "load", "touch", "save", "decide", "take"} /\ reqs[p] \in Req
         /\ \/ Done(p)
            \/ /\ Goto(p, "decide")
               /\ reqs[p].kind = "authorize" /\ reqs[p].pc \in {"load", "touch", "save"}
            \/ /\ Goto(p, "mint")
               /\ reqs[p].kind = "refresh" /\ reqs[p].pc \in {"touch", "save"}
         /\ UNCHANGED <<world, now, policy, clients, consent, pages, codes, sessions, allowed, denied>>
<1>1. reqs[p].pc \in {"get", "load", "touch", "save", "decide", "take"} /\ reqs[p] \in Req
  BY RequestTypes DEF Fail
<1>2. CASE At(p, "load") /\ reqs[p].kind = "authorize"
  BY <1>1, <1>2 DEF Fail, At
<1>3. CASE reqs[p].pc \in {"touch", "save"} /\ reqs[p].kind \in {"authorize", "refresh"}
  BY <1>1, <1>3 DEF Fail, At, AfterTouch
<1>4. CASE ~(At(p, "load") /\ reqs[p].kind = "authorize")
           /\ ~(reqs[p].pc \in {"touch", "save"} /\ reqs[p].kind \in {"authorize", "refresh"})
  BY <1>1, <1>4 DEF Fail, At
<1> QED BY <1>2, <1>3, <1>4

\* Every step of a handler moves only its own request on.
LEMMA HandlingMoves ==
  ASSUME TypeOK, NEW p \in Requests, Handling(p)
  PROVE  /\ MovesOn(p) /\ reqs' \in [Requests -> Req \cup {Idle}] /\ reqs[p] \in Req
         /\ reqs'[p].pc = "take" => reqs[p].kind = "redeem"
<1>0. reqs[p] \in Req
  BY RequestTypes DEF Handling, ClientGet, ClientRenew, ClientDelete, CoversLoad, HasClientLoad,
     TouchLoad, DecisionLoad, Save, Decide, Take, Mint, Fail, At
<1>t. reqs[p].pc # "idle" /\ reqs[p].sub \in Subjects
  BY <1>0 DEF Req, Pcs
<1>1. CASE ClientGet(p) \/ ClientRenew(p) \/ ClientDelete(p)
  BY <1>0, <1>1, LookupMoves
<1>2. CASE CoversLoad(p)
  BY <1>0, <1>2, CoversMoves
<1>3. CASE HasClientLoad(p)
  BY <1>0, <1>3, HasClientMoves
<1>4. ASSUME NEW l \in {"mint", "decide"}, Goto(p, l)
      PROVE  MovesOn(p) /\ reqs' \in [Requests -> Req \cup {Idle}] /\ reqs'[p].pc # "take"
  <2>1. l \in Pcs
    BY DEF Pcs
  <2> QED BY <1>t, <1>4, <2>1, GotoMoves
<1>5. ASSUME NEW g \in Records, reqs' = [reqs EXCEPT ![p].pc = "save", ![p].read = g]
      PROVE  MovesOn(p) /\ reqs' \in [Requests -> Req \cup {Idle}] /\ reqs'[p].pc # "take"
  BY <1>t, <1>5, CopyMoves
<1>6. CASE TouchLoad(p)
  <2>1. PICK s \in Subjects : s = reqs[p].sub
    BY <1>t
  <2> QED BY <1>0, <1>4, <1>5, <1>6, <2>1, TouchMoves
<1>7. CASE DecisionLoad(p)
  BY <1>0, <1>5, <1>7, DecisionMoves
<1>8. CASE Done(p)
  BY <1>0, <1>8, DoneMoves
<1>9. CASE Save(p)
  BY <1>0, <1>4, <1>8, <1>9, SaveMoves
<1>10. CASE Decide(p) \/ Take(p) \/ Mint(p)
  BY <1>8, <1>10 DEF Decide, Take, Mint
<1>11. CASE Fail(p)
  BY <1>0, <1>4, <1>8, <1>11, FailMoves
<1> QED BY <1>1, <1>2, <1>3, <1>6, <1>7, <1>9, <1>10, <1>11 DEF Handling

\* The start of a request, and whatever else begins with it.
Starting(p) ==
  \/ \E s \in Subjects, c \in Clients, r \in world.redirects, scs \in SUBSET world.scopes,
        pr \in world.prompts : Authorize(p, s, c, r, scs, pr)
  \/ \E g \in pages, s \in Subjects, d \in {"allow", "deny"} : ConsentPost(p, g, s, d)
  \/ \E i \in DOMAIN codes : Redeem(p, i)
  \/ \E z \in sessions : Refresh(p, z)

LEMMA StartMoves ==
  ASSUME TypeOK, NEW p \in Requests, Starting(p)
  PROVE  /\ reqs' \in [Requests -> Req \cup {Idle}] /\ Others(p) /\ reqs[p].pc = "idle"
         /\ reqs'[p] \in Req /\ reqs'[p].pc = "get" /\ ~reqs'[p].covered
         /\ reqs'[p].kind = "redeem" => reqs'[p].code \in DOMAIN codes
         /\ reqs'[p].kind = "allow" =>
               \A sc \in reqs'[p].scopes \cup {"any"} :
                  <<reqs'[p].sub, reqs'[p].client, reqs'[p].redirect, sc>> \in allowed'
         /\ allowed \subseteq allowed'
         /\ allowed' \subseteq Subjects \X Clients \X Redirects \X (Scopes \cup {"any"})
         /\ pages' \subseteq pages
         /\ UNCHANGED <<world, now, policy, clients, consent, codes, sessions, denied>>
<1> DEFINE Goal(kind, code) ==
         /\ reqs' \in [Requests -> Req \cup {Idle}] /\ Others(p) /\ reqs[p].pc = "idle"
         /\ reqs'[p] \in Req /\ reqs'[p].pc = "get" /\ ~reqs'[p].covered
         /\ reqs'[p].kind = kind /\ reqs'[p].code = code
<1>1. ASSUME NEW kind \in Kinds, NEW s \in Subjects, NEW c \in Clients, NEW r \in Redirects,
             NEW scs \in SUBSET Scopes, NEW prompt \in SUBSET Prompts, NEW code \in Nat,
             Begin(p, kind, s, c, r, scs, prompt, code)
      PROVE  /\ Goal(kind, code)
             /\ reqs'[p].sub = s /\ reqs'[p].client = c /\ reqs'[p].redirect = r /\ reqs'[p].scopes = scs
  <2> DEFINE new == [pc |-> "get", kind |-> kind, sub |-> s, client |-> c, redirect |-> r,
                     scopes |-> scs, prompt |-> prompt, code |-> code, policy |-> policy,
                     found |-> {}, read |-> NoGrants, covered |-> FALSE]
  <2>1. new \in Req
    BY WorldTypes, RecordFacts DEF Req, Pcs
  <2>2. reqs' = [reqs EXCEPT ![p] = new] /\ reqs[p].pc = "idle"
    BY <1>1 DEF Begin
  <2>3. /\ new.pc = "get" /\ new.covered = FALSE /\ new.kind = kind /\ new.code = code /\ new.sub = s
        /\ new.client = c /\ new.redirect = r /\ new.scopes = scs
    OBVIOUS
  <2> HIDE DEF new
  <2> QED BY <2>1, <2>2, <2>3 DEF TypeOK, Others
<1>2. ASSUME NEW s \in Subjects, NEW c \in Clients, NEW r \in world.redirects, NEW scs \in SUBSET world.scopes,
             NEW pr \in world.prompts, Authorize(p, s, c, r, scs, pr)
      PROVE  Goal("authorize", 0) /\ UNCHANGED <<world, now, policy, clients, consent, pages, codes, sessions, allowed, denied>>
  BY <1>1, <1>2, WorldTypes DEF Authorize, Kinds
<1>3. ASSUME NEW g \in pages, NEW s \in Subjects, NEW d \in {"allow", "deny"}, ConsentPost(p, g, s, d)
      PROVE  /\ Goal(d, 0) /\ pages' \subseteq pages /\ allowed \subseteq allowed'
             /\ allowed' \subseteq Subjects \X Clients \X Redirects \X (Scopes \cup {"any"})
             /\ d = "allow" => \A sc \in reqs'[p].scopes \cup {"any"} :
                     <<reqs'[p].sub, reqs'[p].client, reqs'[p].redirect, sc>> \in allowed'
             /\ UNCHANGED <<world, now, policy, clients, consent, codes, sessions, denied>>
  <2>1. /\ g.client \in Clients /\ g.redirect \in Redirects /\ g.scopes \in SUBSET Scopes
        /\ g.sub = s
    BY <1>3 DEF TypeOK, ConsentPost, Page
  <2>2. Begin(p, d, s, g.client, g.redirect, g.scopes, {}, 0)
    BY <1>3 DEF ConsentPost
  <2>3. /\ Goal(d, 0) /\ reqs'[p].sub = s /\ reqs'[p].client = g.client
        /\ reqs'[p].redirect = g.redirect /\ reqs'[p].scopes = g.scopes
    <3>1. d \in Kinds /\ {} \in SUBSET Prompts /\ 0 \in Nat
      BY DEF Kinds
    <3> HIDE DEF Goal
    <3> QED BY <1>1, <2>1, <2>2, <3>1
  <2>4. \/ d = "allow" /\ allowed' = allowed \cup {<<s, g.client, g.redirect, sc>> : sc \in g.scopes \cup {"any"}}
        \/ d # "allow" /\ allowed' = allowed
    BY <1>3, <2>1 DEF ConsentPost
  <2>5. /\ allowed \subseteq allowed'
        /\ allowed' \subseteq Subjects \X Clients \X Redirects \X (Scopes \cup {"any"})
    BY <2>1, <2>4 DEF TypeOK
  <2> QED BY <1>3, <2>3, <2>4, <2>5 DEF ConsentPost
<1>4. ASSUME NEW i \in DOMAIN codes, Redeem(p, i)
      PROVE  Goal("redeem", i) /\ UNCHANGED <<world, now, policy, clients, consent, pages, codes, sessions, allowed, denied>>
  <2>1. /\ codes[i].sub \in Subjects /\ codes[i].client \in Clients /\ codes[i].redirect \in Redirects
        /\ codes[i].scopes \in SUBSET Scopes /\ i \in Nat
    BY CodeTypes DEF Code
  <2> QED BY <1>1, <1>4, <2>1 DEF Redeem, Kinds
<1>5. ASSUME NEW z \in sessions, Refresh(p, z)
      PROVE  Goal("refresh", 0) /\ UNCHANGED <<world, now, policy, clients, consent, pages, codes, sessions, allowed, denied>>
  <2>1. z[1] \in Subjects /\ z[2] \in Clients /\ (CHOOSE r \in Redirects : TRUE) \in Redirects
    BY ConsentAssumption DEF TypeOK
  <2> QED BY <1>1, <1>5, <2>1 DEF Refresh, Kinds
<1>6. allowed \subseteq Subjects \X Clients \X Redirects \X (Scopes \cup {"any"})
  BY DEF TypeOK
<1> HIDE DEF Goal
<1>7. ASSUME NEW kind, NEW code, Goal(kind, code)
      PROVE  /\ reqs' \in [Requests -> Req \cup {Idle}] /\ Others(p) /\ reqs[p].pc = "idle"
             /\ reqs'[p] \in Req /\ reqs'[p].pc = "get" /\ ~reqs'[p].covered
             /\ reqs'[p].kind = kind /\ reqs'[p].code = code
  BY <1>7 DEF Goal
<1>8. CASE \E g \in pages, s \in Subjects, d \in {"allow", "deny"} : ConsentPost(p, g, s, d)
  BY <1>3, <1>7, <1>8
<1>9. CASE \E i \in DOMAIN codes : Redeem(p, i)
  BY <1>4, <1>6, <1>7, <1>9
<1>10. CASE \/ \E s \in Subjects, c \in Clients, r \in world.redirects, scs \in SUBSET world.scopes,
                 pr \in world.prompts : Authorize(p, s, c, r, scs, pr)
            \/ \E z \in sessions : Refresh(p, z)
  BY <1>2, <1>5, <1>6, <1>7, <1>10
<1> QED BY <1>8, <1>9, <1>10 DEF Starting

LEMMA TypeStep ==
  ASSUME TypeOK, [Next]_vars
  PROVE  TypeOK'
<1>w. /\ now \in Nat /\ now + TTL \in Nat /\ now + PageTTL \in Nat /\ now + CodeTTL \in Nat
      /\ world.until \in Nat
  BY WorldTypes, ConsentAssumption
<1>1. CASE UNCHANGED vars
  BY <1>1 DEF vars, TypeOK
<1>2. CASE Tick
  <2>1. world' = world /\ now' \in 0..world.until
    BY <1>2, <1>w DEF Tick, TypeOK
  <2>2. clients' \in [Clients -> [st : {"new", "live", "gone"}, redirects : SUBSET Redirects,
                                  exp : Nat, dropped : BOOLEAN]]
    BY <1>2 DEF Tick, TypeOK
  <2>3. consent' \in [Subjects -> [grants : Records, exp : Nat]]
    BY <1>2, NoRecordType DEF Tick, TypeOK
  <2> QED BY <1>2, <2>1, <2>2, <2>3 DEF Tick, TypeOK
<1>3. ASSUME NEW q \in world.policies, SetPolicy(q) PROVE TypeOK'
  BY <1>3 DEF SetPolicy, TypeOK
<1>4. ASSUME NEW c \in Clients, NEW rs \in SUBSET world.redirects, Register(c, rs) PROVE TypeOK'
  <2>1. FilterRedirectURIs(rs, policy) \subseteq Redirects
    BY WorldTypes DEF FilterRedirectURIs
  <2> QED BY <1>4, <1>w, <2>1 DEF Register, TypeOK
<1>5. ASSUME NEW s \in Subjects, LoseRecord(s) PROVE TypeOK'
  BY <1>5, NoRecordType DEF LoseRecord, TypeOK
<1>6. ASSUME NEW g \in pages, CloseTab(g) PROVE TypeOK'
  BY <1>6 DEF CloseTab, TypeOK
<1>7. ASSUME NEW p \in Requests, Starting(p) PROVE TypeOK'
  <2>1. \A q \in Requests : reqs'[q].pc # "idle" /\ (reqs'[q].pc = "take" \/ reqs'[q].kind = "redeem")
                             => reqs'[q].code \in DOMAIN codes'
    BY <1>7, StartMoves DEF TypeOK, Others
  <2> QED BY <1>7, <2>1, StartMoves DEF TypeOK
<1>8. ASSUME NEW p \in Requests, Handling(p) PROVE TypeOK'
  <2>0. /\ MovesOn(p) /\ reqs' \in [Requests -> Req \cup {Idle}] /\ reqs[p] \in Req
        /\ reqs'[p].pc = "take" => reqs[p].kind = "redeem"
        /\ reqs[p].pc # "idle"
    BY <1>8, HandlingMoves DEF Req, Pcs
  <2>q. /\ reqs[p].sub \in Subjects /\ reqs[p].client \in Clients /\ reqs[p].redirect \in Redirects
        /\ reqs[p].scopes \in SUBSET Scopes /\ reqs[p].found \in SUBSET Redirects /\ reqs[p].read \in Records
    BY <2>0 DEF Req
  <2>1. ASSUME UNCHANGED <<world, now, policy, allowed>>, DOMAIN codes \subseteq DOMAIN codes',
               clients' \in [Clients -> [st : {"new", "live", "gone"}, redirects : SUBSET Redirects,
                                         exp : Nat, dropped : BOOLEAN]],
               consent' \in [Subjects -> [grants : Records, exp : Nat]],
               pages' \subseteq Page, codes' \in Seq(Code), sessions' \subseteq Subjects \X Clients,
               denied' \subseteq [at : Subjects \X Clients \X Redirects, alone : BOOLEAN]
        PROVE  TypeOK'
    BY <2>0, <2>1, MoveTypes DEF TypeOK
  <2>2. CASE ClientGet(p)
    BY <2>1, <2>2 DEF ClientGet, ClientGone, EndSession, TypeOK
  <2>3. CASE ClientRenew(p) \/ ClientDelete(p)
    <3>1. clients' \in [Clients -> [st : {"new", "live", "gone"}, redirects : SUBSET Redirects,
                                    exp : Nat, dropped : BOOLEAN]]
      <4> DEFINE C == [st : {"new", "live", "gone"}, redirects : SUBSET Redirects,
                       exp : Nat, dropped : BOOLEAN]
      <4> DEFINE c == reqs[p].client
                 renewed == [clients[c] EXCEPT !.st = "live", !.redirects = reqs[p].found, !.exp = now + TTL]
                 deleted == [clients[c] EXCEPT !.st = "gone", !.dropped = TRUE]
      <4>1. clients \in [Clients -> C] /\ c \in Clients
        BY <2>q DEF TypeOK
      <4>2. renewed \in C /\ deleted \in C
        BY <1>w, <2>q, <4>1
      <4>3. \/ UNCHANGED clients
            \/ clients' = [clients EXCEPT ![c] = renewed]
            \/ clients' = [clients EXCEPT ![c] = deleted]
        BY <2>3, <4>1 DEF ClientRenew, ClientDelete
      <4> HIDE DEF C, c, renewed, deleted
      <4>4. clients' \in [Clients -> C]
        BY <4>1, <4>2, <4>3
      <4> QED BY <4>4 DEF C
    <3>2. sessions' \subseteq Subjects \X Clients
      BY <2>3 DEF ClientRenew, ClientDelete, ClientGone, EndSession, TypeOK
    <3> QED BY <2>1, <2>3, <3>1, <3>2 DEF ClientRenew, ClientDelete, TypeOK
  <2>4. CASE CoversLoad(p) \/ TouchLoad(p) \/ Mint(p) \/ Fail(p)
    BY <2>1, <2>4 DEF CoversLoad, TouchLoad, Mint, Fail, TypeOK
  <2>5. CASE HasClientLoad(p)
    BY <2>1, <2>5 DEF HasClientLoad, EndSession, TypeOK
  <2>6. CASE DecisionLoad(p)
    <3>1. denied' \subseteq denied
      BY <2>6 DEF DecisionLoad
    <3> QED BY <2>1, <2>6, <3>1 DEF DecisionLoad, TypeOK
  <2>7. CASE Save(p)
    <3>1. Saved(reqs[p].read) \in [grants : Records, exp : Nat]
      BY <2>7, SaveMoves
    <3>2. consent' \in [Subjects -> [grants : Records, exp : Nat]]
      BY <2>7, <2>q, <3>1 DEF Save, TypeOK
    <3>3. denied' \subseteq [at : Subjects \X Clients \X Redirects, alone : BOOLEAN]
      <4>1. denied' \subseteq denied \cup {[at |-> Triple(p), alone |-> Holders(p) = {}]}
        BY <2>7 DEF Save
      <4>2. Triple(p) \in Subjects \X Clients \X Redirects /\ (Holders(p) = {}) \in BOOLEAN
        BY <2>q DEF Triple
      <4> DEFINE D == [at : Subjects \X Clients \X Redirects, alone : BOOLEAN]
                 d == [at |-> Triple(p), alone |-> Holders(p) = {}]
      <4>3. \A t \in Subjects \X Clients \X Redirects, b \in BOOLEAN : [at |-> t, alone |-> b] \in D
        OBVIOUS
      <4>4. d \in D
        BY <4>2, <4>3, Zenon
      <4>5. denied \subseteq D
        BY DEF TypeOK
      <4> HIDE DEF D, d
      <4>6. denied' \subseteq D
        <5>1. denied' \subseteq denied \cup {d}
          BY <4>1 DEF d
        <5> QED BY <4>4, <4>5, <5>1
      <4> QED BY <4>6 DEF D
    <3> QED BY <2>1, <2>7, <3>2, <3>3 DEF Save, TypeOK
  <2>8. CASE Decide(p)
    <3> DEFINE g == [sub |-> reqs[p].sub, client |-> reqs[p].client, redirect |-> reqs[p].redirect,
                     scopes |-> reqs[p].scopes, exp |-> now + PageTTL]
               c == [sub |-> reqs[p].sub, client |-> reqs[p].client, redirect |-> reqs[p].redirect,
                     scopes |-> reqs[p].scopes, exp |-> now + CodeTTL, live |-> TRUE]
    <3>1. g \in Page /\ c \in Code
      BY <1>w, <2>q DEF Page, Code
    <3>2. \/ UNCHANGED <<pages, codes>>
          \/ pages' = pages \cup {g} /\ UNCHANGED codes
          \/ codes' = Append(codes, c) /\ UNCHANGED pages
      BY <2>8 DEF Decide
    <3> HIDE DEF g, c
    <3>3. pages' \subseteq Page /\ codes' \in Seq(Code) /\ DOMAIN codes \subseteq DOMAIN codes'
      <4>1. pages \subseteq Page /\ codes \in Seq(Code)
        BY DEF TypeOK
      <4> HIDE DEF Page, Code
      <4>2. Append(codes, c) \in Seq(Code) /\ DOMAIN codes \subseteq DOMAIN Append(codes, c)
        <5>1. Append(codes, c) \in Seq(Code) /\ Len(Append(codes, c)) = Len(codes) + 1
          BY <3>1, <4>1
        <5>2. DOMAIN codes = 1..Len(codes) /\ DOMAIN Append(codes, c) = 1..Len(Append(codes, c)) /\ Len(codes) \in Nat
          BY <4>1, <5>1
        <5> QED BY <5>1, <5>2
      <4> QED BY <3>1, <3>2, <4>1, <4>2
    <3> QED BY <2>1, <2>8, <3>3 DEF Decide, TypeOK
  <2>9. CASE Take(p)
    <3>0. reqs[p].code \in DOMAIN codes
      BY <2>0, <2>9 DEF Take, At, TypeOK
    <3>1. codes' \in Seq(Code) /\ DOMAIN codes' = DOMAIN codes
      <4>1. CASE UNCHANGED codes
        BY <4>1 DEF TypeOK
      <4>2. CASE codes' = [codes EXCEPT ![reqs[p].code].live = FALSE]
        <5> DEFINE i == reqs[p].code
                   x == [codes[i] EXCEPT !.live = FALSE]
        <5>1. x \in Code
          BY <3>0, CodeTypes DEF Code
        <5>2. codes' = [codes EXCEPT ![i] = x]
          BY <4>2
        <5> HIDE DEF x, Code, i
        <5> QED BY <3>0, <5>1, <5>2 DEF TypeOK, i
      <4> QED BY <2>9, <4>1, <4>2 DEF Take
    <3>2. sessions' \subseteq Subjects \X Clients
      BY <2>9, <2>q DEF Take, TypeOK
    <3> QED BY <2>1, <2>9, <3>1, <3>2 DEF Take, TypeOK
  <2> QED BY <1>8, <2>2, <2>3, <2>4, <2>5, <2>6, <2>7, <2>8, <2>9 DEF Handling
<1> QED BY <1>1, <1>2, <1>3, <1>4, <1>5, <1>6, <1>7, <1>8 DEF Next, Handle, Starting, Handling

\* The variables of the consent flow keep their types.
THEOREM TypeCorrect == Spec => []TypeOK
<1>1. Init => TypeOK
  BY NoRecordType, ConsentAssumption DEF Init, TypeOK, Idle
<1>2. TypeOK /\ [Next]_vars => TypeOK'
  BY TypeStep
<1> QED BY <1>1, <1>2, PTL DEF Spec

-----------------------------------------------------------------------------
(* Consent rests on an Allow                                               *)

\* The subject allowed the client, at the redirect, each of the scopes.
Allowed(s, c, r, scs) == \A sc \in scs \cup {"any"} : <<s, c, r, sc>> \in allowed

\* Every grant of the record is one its subject allowed.
Backed(s, f) == \A k \in DOMAIN f : Allowed(s, k[1], k[2], f[k].scopes)

\* The consent a request was submitted with, or found.
Entitled(q) ==
  /\ q.kind = "allow" => Allowed(q.sub, q.client, q.redirect, q.scopes)
  /\ q.covered => \/ q.kind = "authorize" /\ Allowed(q.sub, q.client, q.redirect, q.scopes)
                  \/ /\ q.kind = "refresh" /\ q.redirect \in q.policy
                     /\ <<q.sub, q.client, q.redirect, "any">> \in allowed

\* What a request in flight may count on: where it is in its handler, the page
\* it was submitted from, and the consent it found.
Standing(q) ==
  q.pc # "idle" =>
    /\ q.pc \in {"get", "renew", "delete", "load"} => ~q.covered
    /\ q.pc = "load" => q.found \subseteq q.policy
    /\ q.pc = "touch" => q.covered
    /\ q.pc = "mint" => q.kind = "refresh" /\ q.covered
    /\ q.pc = "decide" => q.kind = "authorize"
    /\ q.pc = "save" => Backed(q.sub, q.read) /\ (q.kind \in {"allow", "deny"} \/ q.covered)
    /\ Entitled(q)

\* Why a code and a refresh are backed: so is the record, every copy of it that
\* a handler holds, and every request that found itself covered.
ConsentInv ==
  /\ \A s \in Subjects : Backed(s, consent[s].grants)
  /\ \A p \in Requests : Standing(reqs[p])
  /\ CodeNeedsAllow

-----------------------------------------------------------------------------
(* A Deny sticks                                                           *)

\* The grant is neither in the record nor in a copy about to be written.
Absent(s, k) ==
  /\ k \notin DOMAIN consent[s].grants
  /\ \A p \in Requests : reqs[p].pc = "save" /\ reqs[p].sub = s => k \notin DOMAIN reqs[p].read

DenyInv ==
  /\ \A d \in denied : d.alone => Absent(d.at[1], <<d.at[2], d.at[3]>>)
  /\ \A p \in Requests : reqs[p].pc = "save" /\ reqs[p].kind = "deny"
                           => <<reqs[p].client, reqs[p].redirect>> \notin DOMAIN reqs[p].read

-----------------------------------------------------------------------------
(* A consent in use does not expire                                        *)

\* A stored record outlives each of its grants by its whole TTL.
ClockInv ==
  /\ \A s \in Subjects : \A k \in DOMAIN consent[s].grants :
        /\ consent[s].grants[k].touched <= now
        /\ consent[s].grants[k].touched + TTL <= consent[s].exp
  /\ \A p \in Requests : reqs[p].pc = "save" =>
        /\ \A k \in DOMAIN reqs[p].read : reqs[p].read[k].touched <= now
        /\ reqs[p].kind \notin {"allow", "deny"} => DOMAIN reqs[p].read # {}

-----------------------------------------------------------------------------

\* A request that does not move stands as it did.
LEMMA StandsStill ==
  ASSUME NEW q \in Requests, Standing(reqs[q]), reqs'[q] = reqs[q], allowed \subseteq allowed'
  PROVE  Standing(reqs[q])'
  BY DEF Standing, Entitled, Backed, Allowed

LEMMA BackedStays ==
  ASSUME NEW s \in Subjects, Backed(s, consent[s].grants), allowed \subseteq allowed',
         consent'[s] = consent[s] \/ consent'[s] = NoRecord
  PROVE  Backed(s, consent[s].grants)'
  BY RecordFacts DEF Backed, Allowed, NoRecord

LEMMA CodesStay ==
  ASSUME CodeNeedsAllow, allowed \subseteq allowed', UNCHANGED codes
  PROVE  CodeNeedsAllow'
  BY DEF CodeNeedsAllow

\* The steps that start or move no handler.
LEMMA QuietConsent ==
  ASSUME ConsentInv, TypeOK, UNCHANGED <<codes, reqs, allowed>>,
         \A s \in Subjects : consent'[s] = consent[s] \/ consent'[s] = NoRecord
  PROVE  ConsentInv'
<1>1. \A q \in Requests : Standing(reqs[q])'
  BY StandsStill DEF ConsentInv
<1>2. \A s \in Subjects : Backed(s, consent[s].grants)'
  BY BackedStays DEF ConsentInv
<1>3. CodeNeedsAllow'
  BY CodesStay DEF ConsentInv
<1> QED BY <1>1, <1>2, <1>3 DEF ConsentInv

LEMMA StartConsent ==
  ASSUME ConsentInv, TypeOK, NEW p \in Requests, Starting(p)
  PROVE  ConsentInv'
<1>1. \A q \in Requests : Standing(reqs[q])'
  <2>1. \A q \in Requests \ {p} : Standing(reqs[q])'
    BY StartMoves, StandsStill DEF ConsentInv, Others
  <2>2. Standing(reqs[p])'
    BY StartMoves DEF Standing, Entitled, Allowed
  <2> QED BY <2>1, <2>2
<1>2. \A s \in Subjects : Backed(s, consent[s].grants)'
  BY StartMoves, BackedStays DEF ConsentInv
<1>3. CodeNeedsAllow'
  BY StartMoves, CodesStay DEF ConsentInv
<1> QED BY <1>1, <1>2, <1>3 DEF ConsentInv

\* What the request found or copied is as good as the record it read.
LEMMA LoadBacked ==
  ASSUME ConsentInv, TypeOK, NEW s \in Subjects
  PROVE  Backed(s, load(s))
  BY LoadAt, RecordFacts DEF ConsentInv, Backed, load

LEMMA EntitledStays ==
  ASSUME NEW p \in Requests, Entitled(reqs[p]), SameCall(p), UNCHANGED allowed,
         reqs'[p].covered = reqs[p].covered, reqs'[p].redirect = reqs[p].redirect
  PROVE  Entitled(reqs[p])'
  BY DEF Entitled, SameCall, Allowed

LEMMA GotoStands ==
  ASSUME TypeOK, NEW p \in Requests, reqs[p].pc # "idle", NEW l \in {"decide", "mint"}, Goto(p, l),
         Standing(reqs[p]), UNCHANGED allowed,
         l = "mint" => reqs[p].kind = "refresh" /\ reqs[p].covered,
         l = "decide" => reqs[p].kind = "authorize"
  PROVE  Standing(reqs[p])'
<1>1. l \in Pcs
  BY DEF Pcs
<1>2. /\ GoesOn(p)
      /\ reqs'[p].pc = l /\ reqs'[p].covered = reqs[p].covered /\ reqs'[p].redirect = reqs[p].redirect
  BY <1>1, GotoMoves
<1> QED BY <1>2 DEF Standing, Entitled, GoesOn, SameCall, Allowed

LEMMA CopyStands ==
  ASSUME TypeOK, NEW p \in Requests, reqs[p].pc # "idle", NEW g \in Records,
         reqs' = [reqs EXCEPT ![p].pc = "save", ![p].read = g],
         Standing(reqs[p]), UNCHANGED allowed, Backed(reqs[p].sub, g),
         reqs[p].kind \in {"allow", "deny"} \/ reqs[p].covered
  PROVE  Standing(reqs[p])'
<1>1. /\ GoesOn(p) /\ reqs'[p].read = g
      /\ reqs'[p].pc = "save" /\ reqs'[p].covered = reqs[p].covered /\ reqs'[p].redirect = reqs[p].redirect
  BY CopyMoves
<1>2. Backed(reqs[p].sub, reqs[p].read)'
  BY <1>1 DEF GoesOn, SameCall, Allowed, Backed
<1>3. Entitled(reqs[p])'
  BY <1>1, EntitledStays DEF Standing, GoesOn
<1>5. reqs'[p].kind \in {"allow", "deny"} \/ reqs'[p].covered
  BY <1>1 DEF GoesOn, SameCall
<1> QED BY <1>1, <1>2, <1>3, <1>5 DEF Standing

LEMMA HandlingConsent ==
  ASSUME ConsentInv, TypeOK, NEW p \in Requests, Handling(p)
  PROVE  ConsentInv'
<1>0. /\ MovesOn(p) /\ reqs[p] \in Req /\ reqs[p].pc # "idle" /\ Standing(reqs[p])
  BY HandlingMoves DEF Req, Pcs, ConsentInv
<1>q. /\ reqs[p].sub \in Subjects /\ reqs[p].client \in Clients /\ reqs[p].redirect \in Redirects
      /\ reqs[p].scopes \in SUBSET Scopes /\ reqs[p].kind \in Kinds /\ reqs[p].covered \in BOOLEAN
  BY <1>0 DEF Req
<1>a. UNCHANGED allowed
  BY DEF Handling, ClientGet, ClientRenew, ClientDelete, CoversLoad, HasClientLoad, TouchLoad,
         DecisionLoad, Save, Decide, Take, Mint, Fail
<1>b. /\ Backed(reqs[p].sub, load(reqs[p].sub)) /\ load(reqs[p].sub) \in Records
  BY <1>q, LoadBacked, LoadType
<1>1. ASSUME Standing(reqs[p])', CodeNeedsAllow', \A s \in Subjects : Backed(s, consent[s].grants)'
      PROVE  ConsentInv'
  <2>1. \A q \in Requests \ {p} : Standing(reqs[q])'
    BY <1>0, <1>a, StandsStill DEF ConsentInv, MovesOn, Others
  <2> QED BY <1>1, <2>1 DEF ConsentInv
<1>2. ASSUME UNCHANGED codes PROVE CodeNeedsAllow'
  BY <1>2, <1>a, CodesStay DEF ConsentInv
<1>3. ASSUME UNCHANGED consent PROVE \A s \in Subjects : Backed(s, consent[s].grants)'
  BY <1>3, <1>a, BackedStays DEF ConsentInv
<1>4. ASSUME Done(p) PROVE Standing(reqs[p])'
  BY <1>4, DoneMoves DEF Standing
<1>5. CASE ClientGet(p) \/ ClientRenew(p) \/ ClientDelete(p)
  <2>1. Standing(reqs[p])'
    <3>1. CASE reqs'[p] = Idle
      BY <3>1 DEF Standing, Idle
    <3>2. CASE reqs'[p] # Idle
      <4>1. SameCall(p)
        BY <1>0, <3>2 DEF MovesOn, GoesOn
      <4>2. ~reqs'[p].covered /\ reqs'[p].redirect = reqs[p].redirect
        BY <1>0, <1>5, <3>2, LookupMoves DEF Standing
      <4> QED BY <1>0, <1>5, <1>a, <4>1, <4>2, LookupMoves DEF Standing, Entitled, SameCall, Allowed
    <3> QED BY <3>1, <3>2
  <2> QED BY <1>1, <1>2, <1>3, <1>5, <2>1 DEF ClientGet, ClientRenew, ClientDelete
<1>6. CASE CoversLoad(p)
  <2> DEFINE k == <<reqs[p].client, reqs[p].redirect>>
  <2>1. reqs'[p].covered => Allowed(reqs[p].sub, reqs[p].client, reqs[p].redirect, reqs[p].scopes)
    <3>1. reqs'[p].covered => k \in DOMAIN load(reqs[p].sub) /\ reqs[p].scopes \subseteq load(reqs[p].sub)[k].scopes
      BY <1>6, CoversMoves DEF Covers
    <3> QED BY <1>b, <3>1 DEF Backed, Allowed
  <2>2. Standing(reqs[p])'
    BY <1>6, <1>a, <2>1, CoversMoves DEF Standing, Entitled, GoesOn, SameCall, Allowed
  <2> QED BY <1>1, <1>2, <1>3, <1>6, <2>2 DEF CoversLoad
<1>7. CASE HasClientLoad(p)
  <2>1. Standing(reqs[p])'
    <3>1. CASE reqs'[p].pc = "idle"
      BY <3>1 DEF Standing
    <3>2. CASE reqs'[p].pc # "idle"
      <4>1. SameCall(p)
        BY <1>0, <3>2 DEF MovesOn, GoesOn, Idle
      <4>2. /\ reqs'[p].pc \in {"touch", "mint"} /\ reqs'[p].covered /\ reqs[p].kind = "refresh"
            /\ <<reqs[p].client, reqs'[p].redirect>> \in DOMAIN load(reqs[p].sub)
            /\ reqs'[p].redirect \in reqs[p].found /\ reqs[p].pc = "load"
        BY <1>7, <3>2, HasClientMoves
      <4>3. <<reqs[p].sub, reqs[p].client, reqs'[p].redirect, "any">> \in allowed
        BY <1>b, <4>2 DEF Backed, Allowed
      <4>4. reqs'[p].redirect \in reqs[p].policy
        BY <1>0, <4>2 DEF Standing, Entitled
      <4> QED BY <1>a, <4>1, <4>2, <4>3, <4>4 DEF Standing, Entitled, SameCall, Allowed
    <3> QED BY <3>1, <3>2
  <2> QED BY <1>1, <1>2, <1>3, <1>7, <2>1 DEF HasClientLoad
<1>8. ASSUME NEW l \in {"decide", "mint"}, Goto(p, l),
             l = "mint" => reqs[p].kind = "refresh" /\ reqs[p].covered,
             l = "decide" => reqs[p].kind = "authorize"
      PROVE  Standing(reqs[p])'
  BY <1>0, <1>8, <1>a, GotoStands
<1>9. ASSUME reqs[p].covered, Goto(p, AfterTouch(p)) PROVE Standing(reqs[p])'
  BY <1>0, <1>8, <1>9 DEF AfterTouch, Standing, Entitled
<1>10. ASSUME NEW g \in Records, reqs' = [reqs EXCEPT ![p].pc = "save", ![p].read = g],
              Backed(reqs[p].sub, g), reqs[p].kind \in {"allow", "deny"} \/ reqs[p].covered
       PROVE  Standing(reqs[p])'
  BY <1>0, <1>10, <1>a, CopyStands
<1>11. CASE TouchLoad(p)
  <2>1. PICK s \in Subjects, k \in Keys : s = reqs[p].sub /\ k = <<reqs[p].client, reqs[p].redirect>>
    BY <1>q DEF Keys
  <2>2. reqs[p].covered
    BY <1>0, <1>11 DEF Standing, Entitled, TouchLoad, At
  <2>3. Standing(reqs[p])'
    <3>1. CASE k \in DOMAIN load(s) /\ reqs' = [reqs EXCEPT ![p].pc = "save", ![p].read = [load(s) EXCEPT ![k].touched = now]]
      <4> DEFINE g == [load(s) EXCEPT ![k].touched = now]
      <4>1. g \in Records /\ Backed(s, g)
        BY <1>b, <2>1, <3>1, TouchedFacts DEF Backed, Allowed
      <4>2. reqs' = [reqs EXCEPT ![p].pc = "save", ![p].read = g]
        BY <3>1
      <4> HIDE DEF g
      <4> QED BY <1>10, <2>1, <2>2, <4>1, <4>2
    <3>2. CASE Goto(p, AfterTouch(p))
      BY <1>9, <2>2, <3>2
    <3> QED BY <1>11, <2>1, <3>1, <3>2, TouchMoves
  <2> QED BY <1>1, <1>2, <1>3, <1>11, <2>3 DEF TouchLoad
<1>12. CASE DecisionLoad(p)
  <2>1. PICK q : q = reqs[p]
    OBVIOUS
  <2>2. PICK g \in Records :
               /\ reqs' = [reqs EXCEPT ![p].pc = "save", ![p].read = g]
               /\ q.kind = "allow" => g \in Granted(load(q.sub), q.client, q.redirect, q.scopes)
               /\ q.kind = "deny" => g = Revoked(load(q.sub), q.client, q.redirect)
    BY <1>12, <2>1, DecisionMoves
  <2>3. q.kind \in {"allow", "deny"}
    BY <1>12, <2>1, DecisionMoves
  <2>4. Backed(q.sub, g)
    <3>1. CASE q.kind = "allow"
      <4>1. /\ DOMAIN g \subseteq DOMAIN load(q.sub) \cup {<<q.client, q.redirect>>}
            /\ \A k \in DOMAIN g :
               IF k = <<q.client, q.redirect>>
                 THEN /\ g[k].scopes \subseteq (IF k \in DOMAIN load(q.sub) THEN load(q.sub)[k].scopes ELSE {}) \cup q.scopes
                 ELSE g[k] = load(q.sub)[k]
        BY <1>b, <1>q, <2>1, <2>2, <3>1, GrantedFacts
      <4>2. Allowed(q.sub, q.client, q.redirect, q.scopes)
        BY <1>0, <2>1, <3>1 DEF Standing, Entitled
      <4>3. ASSUME NEW k \in DOMAIN g PROVE Allowed(q.sub, k[1], k[2], g[k].scopes)
        <5>1. CASE k = <<q.client, q.redirect>>
          <6>1. k[1] = q.client /\ k[2] = q.redirect
            BY <5>1
          <6>2. CASE k \in DOMAIN load(q.sub)
            BY <1>b, <2>1, <4>1, <4>2, <5>1, <6>1, <6>2 DEF Backed, Allowed
          <6>3. CASE k \notin DOMAIN load(q.sub)
            BY <4>1, <4>2, <5>1, <6>1, <6>3 DEF Allowed
          <6> QED BY <6>2, <6>3
        <5>2. CASE k # <<q.client, q.redirect>>
          BY <1>b, <2>1, <4>1, <5>2 DEF Backed
        <5> QED BY <5>1, <5>2
      <4> QED BY <4>3 DEF Backed
    <3>2. CASE q.kind = "deny"
      <4>1. PICK f \in Records : f = load(q.sub)
        BY <1>b, <2>1
      <4>2. g = Revoked(f, q.client, q.redirect)
        BY <2>2, <3>2, <4>1
      <4>3. \A k \in DOMAIN g : k \in DOMAIN f /\ g[k] = f[k]
        BY <4>2 DEF Revoked
      <4> QED BY <1>b, <2>1, <4>1, <4>3 DEF Backed
    <3> QED BY <2>3, <3>1, <3>2
  <2>5. Standing(reqs[p])'
    BY <1>10, <2>1, <2>2, <2>3, <2>4
  <2> QED BY <1>1, <1>2, <1>3, <1>12, <2>5 DEF DecisionLoad
<1>13. CASE Save(p)
  <2>1. Standing(reqs[p])'
    BY <1>0, <1>4, <1>9, <1>13, SaveMoves DEF Standing, Entitled
  <2>2. \A s \in Subjects : Backed(s, consent[s].grants)'
    <3> SUFFICES ASSUME NEW s \in Subjects PROVE Backed(s, consent[s].grants)'
      OBVIOUS
    <3>1. CASE s # reqs[p].sub
      <4>1. consent'[s] = consent[s]
        BY <1>13, <3>1 DEF Save, TypeOK
      <4> QED BY <1>a, <4>1, BackedStays DEF ConsentInv
    <3>2. CASE s = reqs[p].sub
      <4>1. consent'[s] = Saved(reqs[p].read)
        BY <1>13, <3>2 DEF Save, TypeOK
      <4>2. Backed(s, reqs[p].read)
        BY <1>0, <1>13, <3>2 DEF Standing, Save, At
      <4>3. Saved(reqs[p].read).grants = NoGrants \/ Saved(reqs[p].read).grants = reqs[p].read
        BY DEF Saved, NoRecord
      <4> QED BY <1>a, <4>1, <4>2, <4>3, RecordFacts DEF Backed, Allowed
    <3> QED BY <3>1, <3>2
  <2> QED BY <1>1, <1>2, <1>13, <2>1, <2>2 DEF Save
<1>14. CASE Decide(p)
  <2>1. Standing(reqs[p])'
    BY <1>4, <1>14 DEF Decide
  <2>2. CodeNeedsAllow'
    <3>1. CASE UNCHANGED codes
      BY <1>2, <3>1
    <3>2. CASE ~UNCHANGED codes
      <4> DEFINE c == [sub |-> reqs[p].sub, client |-> reqs[p].client, redirect |-> reqs[p].redirect,
                       scopes |-> reqs[p].scopes, exp |-> now + CodeTTL, live |-> TRUE]
      <4>1. codes' = Append(codes, c) /\ reqs[p].covered /\ reqs[p].kind = "authorize"
        BY <1>0, <1>14, <3>2 DEF Decide, Standing, Entitled, At
      <4>2. Allowed(c.sub, c.client, c.redirect, c.scopes)
        BY <1>0, <4>1 DEF Standing, Entitled
      <4> HIDE DEF c
      <4>3. /\ DOMAIN codes' = 1..(Len(codes) + 1) /\ codes'[Len(codes) + 1] = c
            /\ \A i \in 1..Len(codes) : codes'[i] = codes[i] /\ i \in DOMAIN codes
            /\ Len(codes) \in Nat
        <5>1. codes \in Seq(Code)
          BY DEF TypeOK
        <5> HIDE DEF Code
        <5> QED BY <4>1, <5>1
      <4>4. \A i \in DOMAIN codes' : codes'[i] = c \/ (i \in DOMAIN codes /\ codes'[i] = codes[i])
        BY <4>3
      <4> QED BY <1>a, <4>2, <4>4 DEF CodeNeedsAllow, Allowed, ConsentInv
    <3> QED BY <3>1, <3>2
  <2> QED BY <1>1, <1>3, <1>14, <2>1, <2>2 DEF Decide
<1>15. CASE Take(p)
  <2>1. Standing(reqs[p])'
    BY <1>4, <1>15 DEF Take
  <2>2. CodeNeedsAllow'
    <3>1. CASE UNCHANGED codes
      BY <1>2, <3>1
    <3>2. CASE codes' = [codes EXCEPT ![reqs[p].code].live = FALSE]
      <4>1. \A i \in DOMAIN codes : codes[i] \in Code
        BY CodeTypes
      <4>2. \A i \in DOMAIN codes' : /\ i \in DOMAIN codes /\ codes'[i].sub = codes[i].sub
                                     /\ codes'[i].client = codes[i].client
                                     /\ codes'[i].redirect = codes[i].redirect
                                     /\ codes'[i].scopes = codes[i].scopes
        BY <3>2, <4>1 DEF Code
      <4> QED BY <1>a, <4>2 DEF CodeNeedsAllow, ConsentInv
    <3> QED BY <1>15, <3>1, <3>2 DEF Take
  <2> QED BY <1>1, <1>3, <1>15, <2>1, <2>2 DEF Take
<1>16. CASE Mint(p)
  BY <1>1, <1>2, <1>3, <1>4, <1>16 DEF Mint
<1>17. CASE Fail(p)
  <2>1. Standing(reqs[p])'
    BY <1>0, <1>4, <1>8, <1>17, FailMoves DEF Standing, Entitled
  <2> QED BY <1>1, <1>2, <1>3, <1>17, <2>1, FailMoves
<1> QED BY <1>5, <1>6, <1>7, <1>11, <1>12, <1>13, <1>14, <1>15, <1>16, <1>17 DEF Handling

LEMMA ConsentStep ==
  ASSUME TypeOK, ConsentInv, [Next]_vars
  PROVE  ConsentInv'
<1>1. CASE UNCHANGED vars \/ Tick \/ (\E q \in world.policies : SetPolicy(q))
           \/ (\E c \in Clients, rs \in SUBSET world.redirects : Register(c, rs))
           \/ (\E s \in Subjects : LoseRecord(s)) \/ (\E g \in pages : CloseTab(g))
  <2>1. UNCHANGED <<codes, reqs, allowed>>
    BY <1>1 DEF vars, Tick, SetPolicy, Register, LoseRecord, CloseTab
  <2>2. \A s \in Subjects : consent'[s] = consent[s] \/ consent'[s] = NoRecord
    BY <1>1 DEF vars, Tick, SetPolicy, Register, LoseRecord, CloseTab, TypeOK
  <2> QED BY <2>1, <2>2, QuietConsent
<1>2. ASSUME NEW p \in Requests, Starting(p) PROVE ConsentInv'
  BY <1>2, StartConsent
<1>3. ASSUME NEW p \in Requests, Handling(p) PROVE ConsentInv'
  BY <1>3, HandlingConsent
<1> QED BY <1>1, <1>2, <1>3 DEF Next, Handle, Starting, Handling

\* In every reachable state the consent record, the copies handlers hold of it
\* and every request found covered rest on what the user allowed: the state in
\* which AuthorizeHandler, ConsentPost and RedeemRefreshToken decide.
THEOREM ConsentInvariant == Spec => []ConsentInv
<1>1. Init => ConsentInv
  <2> SUFFICES ASSUME Init PROVE ConsentInv
    OBVIOUS
  <2>1. \A s \in Subjects : Backed(s, consent[s].grants)
    BY RecordFacts DEF Init, Backed, NoRecord
  <2>2. \A p \in Requests : Standing(reqs[p])
    BY DEF Init, Standing, Entitled, Idle
  <2>3. CodeNeedsAllow
    BY DEF Init, CodeNeedsAllow
  <2> QED BY <2>1, <2>2, <2>3 DEF ConsentInv
<1>2. TypeOK /\ ConsentInv /\ [Next]_vars => ConsentInv'
  BY ConsentStep
<1> QED BY <1>1, <1>2, TypeCorrect, PTL DEF Spec

\* CodeNeedsAllow: no authorization code without an Allow of its subject for
\* its client, redirect and scopes.
THEOREM CodesRestOnAllow == Spec => []CodeNeedsAllow
<1>1. ConsentInv => CodeNeedsAllow
  BY DEF ConsentInv
<1> QED BY <1>1, ConsentInvariant, PTL

\* RefreshBacked: a refresh mints only on consent at a redirect its policy admits.
THEOREM RefreshRestsOnAllow == Spec => []RefreshBacked
<1>1. TypeOK /\ ConsentInv => RefreshBacked
  BY DEF ConsentInv, Standing, Entitled, RefreshBacked, At
<1> QED BY <1>1, ConsentInvariant, TypeCorrect, PTL

-----------------------------------------------------------------------------
(* Deny and time                                                           *)

\* Which handler's step changes what the two invariants speak of.
LEMMA QuietDeny ==
  ASSUME TypeOK, DenyInv, denied' \subseteq denied,
         \A s \in Subjects : DOMAIN consent'[s].grants \subseteq DOMAIN consent[s].grants,
         \A q \in Requests : reqs'[q] = reqs[q] \/ reqs'[q].pc # "save"
  PROVE  DenyInv'
<1>1. ASSUME NEW d \in denied, d.alone PROVE Absent(d.at[1], <<d.at[2], d.at[3]>>)'
  <2>1. d.at[1] \in Subjects
    BY DEF TypeOK
  <2> QED BY <1>1, <2>1 DEF DenyInv, Absent
<1> QED BY <1>1 DEF DenyInv

LEMMA CopyDeny ==
  ASSUME TypeOK, DenyInv, NEW p \in Requests, reqs[p] \in Req, UNCHANGED consent, NEW g \in Records,
         reqs' = [reqs EXCEPT ![p].pc = "save", ![p].read = g],
         reqs[p].kind = "deny" => <<reqs[p].client, reqs[p].redirect>> \notin DOMAIN g,
         denied' \subseteq denied,
         \A d \in denied' : d.at[1] = reqs[p].sub /\ <<d.at[2], d.at[3]>> \in DOMAIN g
                               => <<d.at[2], d.at[3]>> \in DOMAIN consent[reqs[p].sub].grants
  PROVE  DenyInv'
<1>0. reqs[p].pc # "idle"
  BY DEF Req, Pcs
<1>1. /\ reqs'[p].pc = "save" /\ reqs'[p].read = g /\ reqs'[p].sub = reqs[p].sub
      /\ reqs'[p].kind = reqs[p].kind /\ reqs'[p].client = reqs[p].client
      /\ reqs'[p].redirect = reqs[p].redirect /\ \A q \in Requests \ {p} : reqs'[q] = reqs[q]
  BY <1>0, CopyMoves DEF MovesOn, Others, GoesOn, SameCall
<1>2. ASSUME NEW d \in denied', d.alone PROVE Absent(d.at[1], <<d.at[2], d.at[3]>>)'
  <2>1. Absent(d.at[1], <<d.at[2], d.at[3]>>)
    BY <1>2 DEF DenyInv
  <2> QED BY <1>1, <2>1 DEF Absent
<1> QED BY <1>1, <1>2 DEF DenyInv

LEMMA DenyStep ==
  ASSUME TypeOK, ConsentInv, DenyInv, [Next]_vars
  PROVE  DenyInv'
<1>1. CASE UNCHANGED vars \/ Tick \/ (\E q \in world.policies : SetPolicy(q))
           \/ (\E c \in Clients, rs \in SUBSET world.redirects : Register(c, rs))
           \/ (\E s \in Subjects : LoseRecord(s)) \/ (\E g \in pages : CloseTab(g))
  <2>1. UNCHANGED <<reqs, denied>>
    BY <1>1 DEF vars, Tick, SetPolicy, Register, LoseRecord, CloseTab
  <2>2. \A s \in Subjects : consent'[s] = consent[s] \/ consent'[s] = NoRecord
    BY <1>1 DEF vars, Tick, SetPolicy, Register, LoseRecord, CloseTab, TypeOK
  <2>3. \A s \in Subjects : DOMAIN consent'[s].grants \subseteq DOMAIN consent[s].grants
    BY <2>2, RecordFacts DEF NoRecord
  <2> QED BY <2>1, <2>3, QuietDeny
<1>2. ASSUME NEW p \in Requests, Starting(p) PROVE DenyInv'
  BY <1>2, StartMoves, QuietDeny DEF Others
<1>3. ASSUME NEW p \in Requests, Handling(p) PROVE DenyInv'
  <2>0. /\ MovesOn(p) /\ reqs[p] \in Req /\ reqs[p].pc # "idle"
    BY <1>3, HandlingMoves DEF Req, Pcs
  <2>q. /\ reqs[p].sub \in Subjects /\ reqs[p].client \in Clients /\ reqs[p].redirect \in Redirects
        /\ reqs[p].scopes \in SUBSET Scopes
    BY <2>0 DEF Req
  <2>1. ASSUME UNCHANGED <<consent, denied>>, reqs'[p].pc # "save" PROVE DenyInv'
    BY <2>0, <2>1, QuietDeny DEF MovesOn, Others
  <2>2. CASE ClientGet(p) \/ ClientRenew(p) \/ ClientDelete(p)
    BY <2>1, <2>2, LookupMoves DEF ClientGet, ClientRenew, ClientDelete
  <2>3. CASE CoversLoad(p)
    BY <2>1, <2>3, CoversMoves DEF CoversLoad
  <2>4. CASE HasClientLoad(p)
    BY <2>1, <2>4, HasClientMoves DEF HasClientLoad
  <2>5. ASSUME Done(p), UNCHANGED <<consent, denied>> PROVE DenyInv'
    BY <2>1, <2>5, DoneMoves
  <2>6. ASSUME NEW l \in {"decide", "mint"}, Goto(p, l), UNCHANGED <<consent, denied>> PROVE DenyInv'
    <3>1. l \in Pcs
      BY DEF Pcs
    <3> QED BY <2>0, <2>1, <2>6, <3>1, GotoMoves
  <2>7. CASE Decide(p) \/ Take(p) \/ Mint(p)
    BY <2>5, <2>7 DEF Decide, Take, Mint
  <2>8. CASE Fail(p)
    BY <2>5, <2>6, <2>8, FailMoves
  <2>9. CASE TouchLoad(p)
    <3>1. PICK s \in Subjects, k \in Keys : s = reqs[p].sub /\ k = <<reqs[p].client, reqs[p].redirect>>
      BY <2>q DEF Keys
    <3>2. UNCHANGED <<consent, denied>>
      BY <2>9 DEF TouchLoad
    <3>3. CASE k \in DOMAIN load(s) /\ reqs' = [reqs EXCEPT ![p].pc = "save", ![p].read = [load(s) EXCEPT ![k].touched = now]]
      <4> DEFINE g == [load(s) EXCEPT ![k].touched = now]
      <4>1. g \in Records /\ DOMAIN g \subseteq DOMAIN consent[s].grants
        BY <3>1, <3>3, LoadType, TouchedFacts
      <4>2. reqs' = [reqs EXCEPT ![p].pc = "save", ![p].read = g]
        BY <3>3
      <4>3. reqs[p].kind # "deny"
        BY <2>9 DEF ConsentInv, Standing, Entitled, TouchLoad, At
      <4> HIDE DEF g
      <4> QED BY <2>0, <3>1, <3>2, <4>1, <4>2, <4>3, CopyDeny
    <3>4. CASE Goto(p, AfterTouch(p)) /\ AfterTouch(p) \in {"mint", "decide"}
      BY <2>6, <3>2, <3>4
    <3> QED BY <2>9, <3>1, <3>3, <3>4, TouchMoves
  <2>10. CASE DecisionLoad(p)
    <3>1. PICK q : q = reqs[p]
      OBVIOUS
    <3>2. PICK g \in Records :
                 /\ reqs' = [reqs EXCEPT ![p].pc = "save", ![p].read = g]
                 /\ q.kind = "allow" => g \in Granted(load(q.sub), q.client, q.redirect, q.scopes)
                 /\ q.kind = "deny" => g = Revoked(load(q.sub), q.client, q.redirect)
      BY <2>10, <3>1, DecisionMoves
    <3>3. q.kind \in {"allow", "deny"}
      BY <2>10, <3>1, DecisionMoves
    <3>4. load(q.sub) \in Records /\ DOMAIN load(q.sub) \subseteq DOMAIN consent[q.sub].grants
      BY <2>q, <3>1, LoadType
    <3>5. UNCHANGED consent
      BY <2>10 DEF DecisionLoad
    <3>6. CASE q.kind = "allow"
      <4>1. DOMAIN g \subseteq DOMAIN load(q.sub) \cup {<<q.client, q.redirect>>}
        BY <2>q, <3>1, <3>2, <3>4, <3>6, GrantedFacts
      <4>2. denied' = {d \in denied : d.at # <<q.sub, q.client, q.redirect>>}
        BY <2>10, <3>1, <3>6 DEF DecisionLoad, Triple
      <4>3. \A d \in denied' : d.at[1] = q.sub /\ <<d.at[2], d.at[3]>> \in DOMAIN g
                               => <<d.at[2], d.at[3]>> \in DOMAIN consent[q.sub].grants
        <5>1. \A d \in denied : d.at = <<d.at[1], d.at[2], d.at[3]>>
          BY DEF TypeOK
        <5> QED BY <3>4, <4>1, <4>2, <5>1
      <4> QED BY <2>0, <3>1, <3>2, <3>5, <3>6, <4>2, <4>3, CopyDeny
    <3>7. CASE q.kind = "deny"
      <4>0. PICK f \in Records : f = load(q.sub)
        BY <3>4
      <4>1. DOMAIN g = DOMAIN f \ {<<q.client, q.redirect>>}
        <5>1. g = Revoked(f, q.client, q.redirect)
          BY <3>2, <3>7, <4>0
        <5> QED BY <5>1 DEF Revoked
      <4>2. denied' = denied
        BY <2>10, <3>1, <3>7 DEF DecisionLoad
      <4> QED BY <2>0, <3>1, <3>2, <3>4, <3>5, <3>7, <4>0, <4>1, <4>2, CopyDeny
    <3> QED BY <3>3, <3>6, <3>7
  <2>11. CASE Save(p)
    <3>1. /\ reqs[p].pc = "save" /\ reqs'[p].pc # "save" /\ Others(p)
      <4>1. reqs'[p].pc # "save"
        <5>1. CASE Done(p)
          BY <5>1, DoneMoves
        <5>2. ASSUME NEW l \in {"decide", "mint"}, Goto(p, l) PROVE reqs'[p].pc # "save"
          <6>1. l \in Pcs
            BY DEF Pcs
          <6> QED BY <2>0, <5>2, <6>1, GotoMoves
        <5> QED BY <2>11, <5>1, <5>2, SaveMoves
      <4> QED BY <2>0, <2>11, <4>1, SaveMoves DEF MovesOn
    <3>2. PICK s \in Subjects : s = reqs[p].sub
      BY <2>q
    <3>3. /\ DOMAIN consent'[s].grants = DOMAIN reqs[p].read
          /\ \A t \in Subjects \ {s} : consent'[t] = consent[t]
      BY <2>11, <3>2, SaveMoves DEF Save, TypeOK
    <3>4. ASSUME NEW d \in denied', d.alone PROVE Absent(d.at[1], <<d.at[2], d.at[3]>>)'
      <4>1. CASE d \in denied
        <5>1. d.at[1] \in Subjects /\ Absent(d.at[1], <<d.at[2], d.at[3]>>)
          BY <3>4, <4>1 DEF DenyInv, TypeOK
        <5> QED BY <3>1, <3>2, <3>3, <5>1 DEF Absent, Others
      <4>2. CASE d \notin denied
        <5>1. /\ reqs[p].kind = "deny" /\ d.at = <<s, reqs[p].client, reqs[p].redirect>>
              /\ d.alone = (Holders(p) = {})
          BY <2>11, <3>2, <4>2 DEF Save, Triple
        <5>2. Holders(p) = {}
          BY <3>4, <5>1
        <5>3. \A q \in Requests : reqs'[q].pc = "save" => reqs'[q].sub # s
          BY <3>1, <3>2, <5>2 DEF Holders, At, Others
        <5>4. <<reqs[p].client, reqs[p].redirect>> \notin DOMAIN reqs[p].read
          BY <3>1, <5>1 DEF DenyInv
        <5> QED BY <3>3, <5>1, <5>3, <5>4 DEF Absent
      <4> QED BY <4>1, <4>2
    <3> QED BY <3>1, <3>4 DEF DenyInv, Others
  <2> QED BY <1>3, <2>2, <2>3, <2>4, <2>7, <2>8, <2>9, <2>10, <2>11 DEF Handling
<1> QED BY <1>1, <1>2, <1>3 DEF Next, Handle, Starting, Handling

\* A grant denied with no other handler under way is in neither the record nor a
\* copy that a save of ConsentStore is about to write.
THEOREM DenyInvariant == Spec => []DenyInv
<1>1. Init => DenyInv
  BY DEF Init, DenyInv, Idle
<1>2. TypeOK /\ ConsentInv /\ DenyInv /\ [Next]_vars => DenyInv'
  BY DenyStep
<1> QED BY <1>1, <1>2, TypeCorrect, ConsentInvariant, PTL DEF Spec

\* DenySticks: an undisturbed Deny lasts until the user allows again.
THEOREM DenyIsFinal == Spec => []DenySticks
<1>1. DenyInv => DenySticks
  BY DEF DenyInv, DenySticks, Absent
<1> QED BY <1>1, DenyInvariant, PTL

-----------------------------------------------------------------------------
(* Time                                                                    *)

LEMMA TouchEveryFacts == touchEvery \in Nat
  BY ConsentAssumption DEF touchEvery

\* A part of a record whose grants were touched by now.
Past(f) == \A k \in DOMAIN f : f[k].touched <= now

LEMMA LoadPast ==
  ASSUME TypeOK, ClockInv, NEW s \in Subjects
  PROVE  Past(load(s))
  BY RecordFacts DEF ClockInv, Past, load

LEMMA QuietClock ==
  ASSUME TypeOK, TypeOK', ClockInv, now <= now',
         \A s \in Subjects : consent'[s] = consent[s] \/ consent'[s] = NoRecord,
         \A q \in Requests : reqs'[q] = reqs[q] \/ reqs'[q].pc # "save"
  PROVE  ClockInv'
<1>0. now \in Nat /\ now' \in Nat
  BY WorldTypes, ConsentAssumption DEF TypeOK
<1>1. ASSUME NEW s \in Subjects, NEW k \in DOMAIN consent'[s].grants
      PROVE  /\ consent'[s].grants[k].touched <= now'
             /\ consent'[s].grants[k].touched + TTL <= consent'[s].exp
  <2>1. consent'[s] = consent[s]
    BY <1>1, RecordFacts DEF NoRecord
  <2>2. consent[s].grants[k].touched \in Nat
    BY <1>1, <2>1, RecordAt DEF TypeOK
  <2> QED BY <1>0, <2>1, <2>2 DEF ClockInv
<1>2. ASSUME NEW p \in Requests, reqs'[p].pc = "save"
      PROVE  /\ \A k \in DOMAIN reqs'[p].read : reqs'[p].read[k].touched <= now'
             /\ reqs'[p].kind \notin {"allow", "deny"} => DOMAIN reqs'[p].read # {}
  <2>1. reqs'[p] = reqs[p] /\ reqs[p].pc # "idle"
    BY <1>2
  <2>2. reqs[p].read \in Records
    BY <2>1, RequestTypes DEF Req
  <2>3. \A k \in DOMAIN reqs[p].read : reqs[p].read[k].touched \in Nat
    BY <2>2, RecordAt
  <2> QED BY <1>0, <1>2, <2>1, <2>3 DEF ClockInv
<1> QED BY <1>1, <1>2 DEF ClockInv

LEMMA CopyClock ==
  ASSUME TypeOK, ClockInv, NEW p \in Requests, reqs[p].pc # "idle", UNCHANGED <<consent, now>>,
         NEW g \in Records, Past(g),
         reqs' = [reqs EXCEPT ![p].pc = "save", ![p].read = g],
         reqs[p].kind \notin {"allow", "deny"} => DOMAIN g # {}
  PROVE  ClockInv'
<1>1. /\ reqs'[p].pc = "save" /\ reqs'[p].read = g /\ reqs'[p].kind = reqs[p].kind
      /\ \A q \in Requests \ {p} : reqs'[q] = reqs[q]
  BY CopyMoves DEF MovesOn, Others, GoesOn, SameCall
<1>2. ASSUME NEW q \in Requests, reqs'[q].pc = "save"
      PROVE  /\ \A k \in DOMAIN reqs'[q].read : reqs'[q].read[k].touched <= now'
             /\ reqs'[q].kind \notin {"allow", "deny"} => DOMAIN reqs'[q].read # {}
  BY <1>1, <1>2 DEF ClockInv, Past
<1> QED BY <1>2 DEF ClockInv

LEMMA ClockStep ==
  ASSUME TypeOK, TypeOK', ClockInv, [Next]_vars
  PROVE  ClockInv'
<1>0. now \in Nat
  BY WorldTypes
<1>1. CASE UNCHANGED vars \/ Tick \/ (\E q \in world.policies : SetPolicy(q))
           \/ (\E c \in Clients, rs \in SUBSET world.redirects : Register(c, rs))
           \/ (\E s \in Subjects : LoseRecord(s)) \/ (\E g \in pages : CloseTab(g))
  <2>1. UNCHANGED reqs /\ now <= now'
    BY <1>0, <1>1 DEF vars, Tick, SetPolicy, Register, LoseRecord, CloseTab
  <2>2. \A s \in Subjects : consent'[s] = consent[s] \/ consent'[s] = NoRecord
    BY <1>1 DEF vars, Tick, SetPolicy, Register, LoseRecord, CloseTab, TypeOK
  <2> QED BY <2>1, <2>2, QuietClock
<1>2. ASSUME NEW p \in Requests, Starting(p) PROVE ClockInv'
  BY <1>0, <1>2, StartMoves, QuietClock DEF Others
<1>3. ASSUME NEW p \in Requests, Handling(p) PROVE ClockInv'
  <2>0. /\ MovesOn(p) /\ reqs[p] \in Req /\ reqs[p].pc # "idle"
    BY <1>3, HandlingMoves DEF Req, Pcs
  <2>q. /\ reqs[p].sub \in Subjects /\ reqs[p].client \in Clients /\ reqs[p].redirect \in Redirects
        /\ reqs[p].scopes \in SUBSET Scopes /\ reqs[p].read \in Records
    BY <2>0 DEF Req
  <2>n. UNCHANGED now
    BY <1>3 DEF Handling, ClientGet, ClientRenew, ClientDelete, CoversLoad, HasClientLoad, TouchLoad,
                DecisionLoad, Save, Decide, Take, Mint, Fail
  <2>1. ASSUME UNCHANGED consent, reqs'[p].pc # "save" PROVE ClockInv'
    BY <1>0, <2>0, <2>1, <2>n, QuietClock DEF MovesOn, Others
  <2>2. CASE ClientGet(p) \/ ClientRenew(p) \/ ClientDelete(p)
    BY <2>1, <2>2, LookupMoves DEF ClientGet, ClientRenew, ClientDelete
  <2>3. CASE CoversLoad(p)
    BY <2>1, <2>3, CoversMoves DEF CoversLoad
  <2>4. CASE HasClientLoad(p)
    BY <2>1, <2>4, HasClientMoves DEF HasClientLoad
  <2>5. ASSUME Done(p), UNCHANGED consent PROVE ClockInv'
    BY <2>1, <2>5, DoneMoves
  <2>6. ASSUME NEW l \in {"decide", "mint"}, Goto(p, l), UNCHANGED consent PROVE ClockInv'
    <3>1. l \in Pcs
      BY DEF Pcs
    <3> QED BY <2>0, <2>1, <2>6, <3>1, GotoMoves
  <2>7. CASE Decide(p) \/ Take(p) \/ Mint(p)
    BY <2>5, <2>7 DEF Decide, Take, Mint
  <2>8. CASE Fail(p)
    BY <2>5, <2>6, <2>8, FailMoves
  <2>9. CASE TouchLoad(p)
    <3>1. PICK s \in Subjects, k \in Keys : s = reqs[p].sub /\ k = <<reqs[p].client, reqs[p].redirect>>
      BY <2>q DEF Keys
    <3>2. UNCHANGED consent
      BY <2>9 DEF TouchLoad
    <3>3. CASE k \in DOMAIN load(s) /\ reqs' = [reqs EXCEPT ![p].pc = "save", ![p].read = [load(s) EXCEPT ![k].touched = now]]
      <4> DEFINE g == [load(s) EXCEPT ![k].touched = now]
      <4>1. g \in Records /\ DOMAIN g # {} /\ Past(g)
        BY <1>0, <3>1, <3>3, LoadType, LoadPast, TouchedFacts DEF Past
      <4>2. reqs' = [reqs EXCEPT ![p].pc = "save", ![p].read = g]
        BY <3>3
      <4> HIDE DEF g
      <4> QED BY <2>0, <2>n, <3>1, <3>2, <4>1, <4>2, CopyClock
    <3>4. CASE Goto(p, AfterTouch(p)) /\ AfterTouch(p) \in {"mint", "decide"}
      BY <2>6, <3>2, <3>4
    <3> QED BY <2>9, <3>1, <3>3, <3>4, TouchMoves
  <2>10. CASE DecisionLoad(p)
    <3>1. PICK q : q = reqs[p]
      OBVIOUS
    <3>2. PICK g \in Records :
                 /\ reqs' = [reqs EXCEPT ![p].pc = "save", ![p].read = g]
                 /\ q.kind = "allow" => g \in Granted(load(q.sub), q.client, q.redirect, q.scopes)
                 /\ q.kind = "deny" => g = Revoked(load(q.sub), q.client, q.redirect)
      BY <2>10, <3>1, DecisionMoves
    <3>3. q.kind \in {"allow", "deny"}
      BY <2>10, <3>1, DecisionMoves
    <3>4. PICK f \in Records : f = load(q.sub) /\ Past(f)
      BY <2>q, <3>1, LoadType, LoadPast
    <3>5. UNCHANGED consent
      BY <2>10 DEF DecisionLoad
    <3>6. Past(g)
      <4>1. CASE q.kind = "allow"
        <5>1. /\ DOMAIN g \subseteq DOMAIN f \cup {<<q.client, q.redirect>>}
              /\ \A k \in DOMAIN g : k = <<q.client, q.redirect>> => g[k].touched = now
              /\ \A k \in DOMAIN g : k # <<q.client, q.redirect>> => g[k] = f[k]
          BY <2>q, <3>1, <3>2, <3>4, <4>1, GrantedFacts
        <5> QED BY <1>0, <3>4, <5>1 DEF Past
      <4>2. CASE q.kind = "deny"
        <5>1. \A k \in DOMAIN g : k \in DOMAIN f /\ g[k] = f[k]
          BY <3>2, <3>4, <4>2 DEF Revoked
        <5> QED BY <3>4, <5>1 DEF Past
      <4> QED BY <3>3, <4>1, <4>2
    <3> QED BY <2>0, <2>n, <3>1, <3>2, <3>3, <3>5, <3>6, CopyClock
  <2>11. CASE Save(p)
    <3>1. /\ reqs[p].pc = "save" /\ reqs'[p].pc # "save" /\ Others(p)
      <4>1. reqs'[p].pc # "save"
        <5>1. CASE Done(p)
          BY <5>1, DoneMoves
        <5>2. ASSUME NEW l \in {"decide", "mint"}, Goto(p, l) PROVE reqs'[p].pc # "save"
          <6>1. l \in Pcs
            BY DEF Pcs
          <6> QED BY <2>0, <5>2, <6>1, GotoMoves
        <5> QED BY <2>11, <5>1, <5>2, SaveMoves
      <4> QED BY <2>0, <2>11, <4>1, SaveMoves DEF MovesOn
    <3>2. PICK s \in Subjects, f \in Records : s = reqs[p].sub /\ f = reqs[p].read
      BY <2>q
    <3>3. /\ consent'[s] = Saved(f)
          /\ \A t \in Subjects \ {s} : consent'[t] = consent[t]
      BY <2>11, <3>2 DEF Save, TypeOK
    <3>4. Past(f) /\ \A k \in DOMAIN f : f[k].touched \in Nat
      BY <3>1, <3>2, RecordAt DEF ClockInv, Past
    <3>5. ASSUME NEW k \in DOMAIN Saved(f).grants
          PROVE  Saved(f).grants[k].touched <= now /\ Saved(f).grants[k].touched + TTL <= Saved(f).exp
      <4>1. DOMAIN f # {}
        BY <3>5, RecordFacts DEF Saved, NoRecord
      <4>2. Saved(f).grants = f /\ Saved(f).exp = now + TTL
        BY <4>1 DEF Saved
      <4> QED BY <1>0, <3>4, <3>5, <4>2, ConsentAssumption DEF Past
    <3>6. \A t \in Subjects : \A k \in DOMAIN consent'[t].grants :
            /\ consent'[t].grants[k].touched <= now
            /\ consent'[t].grants[k].touched + TTL <= consent'[t].exp
      BY <3>3, <3>5 DEF ClockInv
    <3>7. \A q \in Requests : reqs'[q].pc = "save" => reqs'[q] = reqs[q]
      BY <3>1 DEF Others
    <3> QED BY <2>n, <3>6, <3>7 DEF ClockInv
  <2> QED BY <1>3, <2>2, <2>3, <2>4, <2>7, <2>8, <2>9, <2>10, <2>11 DEF Handling
<1> QED BY <1>1, <1>2, <1>3 DEF Next, Handle, Starting, Handling

\* Every save of ConsentStore gives the record its whole TTL, so a record never
\* expires before one of its grants is a TTL old.
THEOREM ClockInvariant == Spec => []ClockInv
<1>1. Init => ClockInv
  BY RecordFacts DEF Init, ClockInv, Idle, NoRecord
<1>2. TypeOK /\ TypeOK' /\ ClockInv /\ [Next]_vars => ClockInv'
  BY ClockStep
<1> QED BY <1>1, <1>2, TypeCorrect, PTL DEF Spec

\* A grant found fresh leaves its record TTL - touchEvery to live.
LEMMA FreshLasts ==
  ASSUME TypeOK, ClockInv, NEW s \in Subjects, NEW k \in DOMAIN load(s), ~Stale(load(s)[k])
  PROVE  consent[s].exp >= now + TTL - touchEvery
<1>1. /\ load(s) = consent[s].grants /\ k \in DOMAIN consent[s].grants
  BY LoadAt
<1>2. consent[s].grants[k].touched \in Nat /\ consent[s].exp \in Nat /\ now \in Nat
  BY <1>1, RecordAt, WorldTypes DEF TypeOK
<1>3. consent[s].grants[k].touched + TTL <= consent[s].exp
  BY <1>1 DEF ClockInv
<1>4. ~(now - consent[s].grants[k].touched >= touchEvery)
  BY <1>1 DEF Stale
<1> QED BY <1>2, <1>3, <1>4, TouchEveryFacts, ConsentAssumption

LEMMA UseStep ==
  ASSUME TypeOK, ConsentInv, ClockInv, [Next]_vars, NEW p \in Requests,
         reqs[p].pc \in {"load", "save"}, reqs'[p].pc \in {"decide", "mint"}, reqs'[p].covered,
         At(p, "save") => consent' # consent
  PROVE  consent'[reqs[p].sub].exp >= now + TTL - touchEvery
<1>0. reqs'[p] # reqs[p] /\ reqs[p] \in Req /\ reqs[p].sub \in Subjects /\ reqs[p].read \in Records
      /\ reqs[p].client \in Clients /\ reqs[p].redirect \in Redirects
  BY RequestTypes DEF Req
<1>1. Handling(p)
  <2>1. ~UNCHANGED reqs
    BY <1>0
  <2>2. PICK q \in Requests : Starting(q) \/ Handling(q)
    BY <2>1 DEF Next, vars, Tick, SetPolicy, Register, LoseRecord, CloseTab, Handle, Starting, Handling
  <2>3. Others(q)
    BY <2>2, StartMoves, HandlingMoves DEF MovesOn
  <2>4. q = p
    BY <1>0, <2>3 DEF Others
  <2> QED BY <2>2, <2>4, StartMoves
<1>2. CASE CoversLoad(p)
  <2>1. PICK s \in Subjects, k \in Keys : s = reqs[p].sub /\ k = <<reqs[p].client, reqs[p].redirect>>
    BY <1>0 DEF Keys
  <2>2. k \in DOMAIN load(s) /\ ~Stale(load(s)[k]) /\ UNCHANGED consent
    BY <1>2, <2>1, CoversMoves DEF Covers, CoversLoad
  <2> QED BY <2>1, <2>2, FreshLasts
<1>3. CASE HasClientLoad(p)
  <2>1. PICK s \in Subjects, k \in Keys : s = reqs[p].sub /\ k = <<reqs[p].client, reqs'[p].redirect>>
    BY <1>0, <1>3, HasClientMoves, LoadType, RecordFacts
  <2>2. k \in DOMAIN load(s) /\ ~Stale(load(s)[k]) /\ UNCHANGED consent
    BY <1>3, <2>1, HasClientMoves DEF HasClientLoad
  <2> QED BY <2>1, <2>2, FreshLasts
<1>4. CASE Save(p)
  <2>1. PICK s \in Subjects, f \in Records : s = reqs[p].sub /\ f = reqs[p].read
    BY <1>0
  <2>2. reqs[p].kind \notin {"allow", "deny"}
    BY <1>4, DoneMoves, SaveMoves
  <2>3. DOMAIN f # {}
    BY <1>4, <2>1, <2>2 DEF ClockInv, Save, At
  <2>4. consent'[s].exp = now + TTL
    BY <1>4, <2>1, <2>3 DEF Save, Saved, TypeOK
  <2> QED BY <2>1, <2>4, TouchEveryFacts, WorldTypes, ConsentAssumption
<1>5. CASE Fail(p)
  <2>1. UNCHANGED consent
    BY <1>5, FailMoves
  <2>2. reqs[p].pc = "load" /\ ~reqs[p].covered
    BY <2>1 DEF At, ConsentInv, Standing
  <2>3. Goto(p, "decide")
    BY <1>5, <2>2, FailMoves, DoneMoves
  <2>4. reqs'[p].covered = reqs[p].covered
    <3>1. "decide" \in Pcs /\ reqs[p].pc # "idle"
      BY <2>2 DEF Pcs
    <3> QED BY <2>3, <3>1, GotoMoves
  <2> QED BY <2>2, <2>4
<1>6. CASE DecisionLoad(p) \/ TouchLoad(p) \/ Decide(p) \/ Take(p) \/ Mint(p)
  <2>1. CASE DecisionLoad(p)
    <3>1. PICK g \in Records : reqs' = [reqs EXCEPT ![p].pc = "save", ![p].read = g]
      BY <2>1, DecisionMoves
    <3> QED BY <3>1, CopyMoves
  <2> QED BY <1>6, <2>1 DEF TouchLoad, Decide, Take, Mint, At
<1>7. CASE ClientGet(p) \/ ClientRenew(p) \/ ClientDelete(p)
  BY <1>7, LookupMoves
<1> QED BY <1>1, <1>2, <1>3, <1>4, <1>5, <1>6, <1>7 DEF Handling

\* UseRenews: a consent that was just used has TTL - touchEvery to live.
THEOREM UseKeepsConsent == Spec => UseRenews
<1>1. TypeOK /\ ConsentInv /\ ClockInv /\ [Next]_vars =>
        [\A p \in Requests :
          /\ reqs[p].pc \in {"load", "save"} /\ reqs'[p].pc \in {"decide", "mint"}
          /\ reqs'[p].covered
          /\ At(p, "save") => consent' # consent
          => consent'[reqs[p].sub].exp >= now + TTL - touchEvery]_vars
  BY UseStep
<1> QED BY <1>1, TypeCorrect, ConsentInvariant, ClockInvariant, PTL DEF Spec, UseRenews

-----------------------------------------------------------------------------
(* Registries                                                              *)

LEMMA RegistryFacts ==
  /\ \A f \in Registries : DOMAIN f \subseteq Names /\ f \in [DOMAIN f -> ClientRecord]
  /\ \A ids \in SUBSET Names : [ids -> ClientRecord] \subseteq Registries
  BY DEF Registries

LEMMA RecordTypes ==
  ASSUME NEW f \in Registries, NEW n \in DOMAIN f
  PROVE  /\ f[n] \in ClientRecord /\ n \in Names
         /\ f[n].present \in BOOLEAN /\ f[n].removedAt \in Nat /\ f[n].epoch \in Nat
<1>1. f[n] \in ClientRecord /\ n \in Names
  BY RegistryFacts
<1> QED BY <1>1 DEF ClientRecord

LEMMA EmptyType == Empty \in Registries /\ DOMAIN Empty = {}
<1>1. Empty \in [{} -> ClientRecord] /\ DOMAIN Empty = {}
  BY DEF Empty
<1> QED BY <1>1, RegistryFacts

LEMMA IdleType ==
  NoBuild \in [pc : {"idle", "update", "swap"}, conf : SUBSET Names, at : Nat, reg : Registries]
  BY EmptyType DEF NoBuild

\* The registry says of every name whether the configuration has it.
Reflects(reg, ids) ==
  /\ ids \subseteq DOMAIN reg
  /\ \A n \in DOMAIN reg : reg[n].present <=> n \in ids

\* What a merge does: no record is dropped, the cutoff and the epoch never go
\* back, a client that was present stays in its epoch and one that comes back
\* is cut off at the time of the merge.
LEMMA MergedFacts ==
  ASSUME NEW have \in Registries, NEW ids \in SUBSET Names, NEW at \in Nat
  PROVE  /\ Merged(have, ids, at) \in Registries
         /\ DOMAIN Merged(have, ids, at) = ids \cup DOMAIN have
         /\ Reflects(Merged(have, ids, at), ids)
         /\ \A n \in DOMAIN have :
              /\ Merged(have, ids, at)[n].removedAt >= have[n].removedAt
              /\ Merged(have, ids, at)[n].epoch >= have[n].epoch
              /\ have[n].present => Merged(have, ids, at)[n].epoch = have[n].epoch
              /\ Merged(have, ids, at)[n].epoch # have[n].epoch
                   => ~have[n].present /\ n \in ids /\ Merged(have, ids, at)[n].removedAt >= at
<1> DEFINE new(n) == IF n \notin DOMAIN have THEN [present |-> TRUE, removedAt |-> 0, epoch |-> 1]
                     ELSE IF have[n].present = (n \in ids) THEN have[n]
                     ELSE [present |-> n \in ids, removedAt |-> Max2(have[n].removedAt, at),
                           epoch |-> IF n \in ids THEN have[n].epoch + 1 ELSE have[n].epoch]
           m == Merged(have, ids, at)
<1>1. m = [n \in ids \cup DOMAIN have |-> new(n)]
  BY DEF Merged
<1>2. DOMAIN have \subseteq Names
  BY RegistryFacts
<1>3. ASSUME NEW n \in ids \ DOMAIN have
      PROVE  new(n) \in ClientRecord /\ new(n).present
  BY DEF ClientRecord
<1>4. ASSUME NEW n \in DOMAIN have
      PROVE  /\ new(n) \in ClientRecord /\ (new(n).present <=> n \in ids)
             /\ new(n).removedAt >= have[n].removedAt /\ new(n).epoch >= have[n].epoch
             /\ have[n].present => new(n).epoch = have[n].epoch
             /\ new(n).epoch # have[n].epoch => ~have[n].present /\ n \in ids /\ new(n).removedAt >= at
  <2>0. have[n] \in ClientRecord /\ have[n].present \in BOOLEAN /\ have[n].removedAt \in Nat /\ have[n].epoch \in Nat
    BY RecordTypes
  <2>1. CASE have[n].present = (n \in ids)
    <3>1. new(n) = have[n]
      BY <2>1
    <3>2. have[n].present <=> n \in ids
      BY <2>1, Zenon
    <3> HIDE DEF new
    <3> QED BY <2>0, <3>1, <3>2
  <2>2. CASE have[n].present # (n \in ids)
    <3> DEFINE x == [present |-> n \in ids, removedAt |-> Max2(have[n].removedAt, at),
                     epoch |-> IF n \in ids THEN have[n].epoch + 1 ELSE have[n].epoch]
    <3>1. new(n) = x
      BY <2>2
    <3>2. Max2(have[n].removedAt, at) \in Nat /\ Max2(have[n].removedAt, at) >= at
          /\ Max2(have[n].removedAt, at) >= have[n].removedAt
      BY <2>0 DEF Max2
    <3>3. /\ (x.present <=> n \in ids) /\ x.removedAt = Max2(have[n].removedAt, at)
          /\ x.epoch = IF n \in ids THEN have[n].epoch + 1 ELSE have[n].epoch
      OBVIOUS
    <3>4. x \in ClientRecord
      BY <2>0, <3>2 DEF ClientRecord
    <3>5. have[n].present <=> n \notin ids
      BY <2>0, <2>2
    <3> HIDE DEF new, x
    <3> QED BY <2>0, <3>1, <3>2, <3>3, <3>4, <3>5
  <2> QED BY <2>1, <2>2
<1> HIDE DEF new, m
<1>5. m \in [ids \cup DOMAIN have -> ClientRecord] /\ DOMAIN m = ids \cup DOMAIN have
  BY <1>1, <1>3, <1>4
<1>6. m \in Registries
  BY <1>2, <1>5, RegistryFacts
<1>7. Reflects(m, ids)
  BY <1>1, <1>3, <1>4, <1>5 DEF Reflects
<1>8. \A n \in DOMAIN have : m[n] = new(n)
  BY <1>1
<1> QED BY <1>4, <1>5, <1>6, <1>7, <1>8 DEF m

\* A registry that reflects the configuration is left as it is.
LEMMA MergedSame ==
  ASSUME NEW have \in Registries, NEW ids \in SUBSET Names, NEW at \in Nat
  PROVE  Merged(have, ids, at) = have <=> Reflects(have, ids)
<1>1. Merged(have, ids, at) = have => Reflects(have, ids)
  BY MergedFacts
<1>2. ASSUME Reflects(have, ids) PROVE Merged(have, ids, at) = have
  <2>1. ids \cup DOMAIN have = DOMAIN have /\ have = [n \in DOMAIN have |-> have[n]]
    BY <1>2, RegistryFacts DEF Reflects
  <2>2. \A n \in DOMAIN have : have[n].present = (n \in ids)
    BY <1>2, RecordTypes DEF Reflects
  <2> QED BY <2>1, <2>2 DEF Merged
<1> QED BY <1>1, <1>2

-----------------------------------------------------------------------------
(* Types                                                                   *)

LEMMA ClockType ==
  ASSUME RegistryTypeOK, NEW r \in Replicas
  PROVE  Clock(r) \in Nat \ {0}
  BY RegistryAssumption DEF RegistryTypeOK, Clock

LEMMA ServedTypes ==
  ASSUME RegistryTypeOK, NEW r \in Replicas
  PROVE  /\ serving[r].conf \subseteq Names /\ serving[r].reg \in Registries
         /\ serving[r].conf \subseteq DOMAIN serving[r].reg
         /\ build[r].conf \subseteq Names /\ build[r].reg \in Registries /\ build[r].at \in Nat
         /\ build[r].pc \in {"idle", "update", "swap"}
  BY DEF RegistryTypeOK

LEMMA RegistryTypeStep ==
  ASSUME RegistryTypeOK, [RegistryNext]_registryVars
  PROVE  RegistryTypeOK'
<1> DEFINE Builds == [pc : {"idle", "update", "swap"}, conf : SUBSET Names, at : Nat, reg : Registries]
           Served == [conf : SUBSET Names, reg : Registries]
<1>1. CASE UNCHANGED registryVars
  BY <1>1 DEF registryVars, RegistryTypeOK
<1>2. CASE TimePasses
  BY <1>2 DEF TimePasses, RegistryTypeOK
<1>3. ASSUME NEW n \in Names, Edit(n) PROVE RegistryTypeOK'
  BY <1>3 DEF Edit, RegistryTypeOK
<1>4. ASSUME NEW r \in Replicas, BuildRead(r) PROVE RegistryTypeOK'
  <2> DEFINE pc == IF DOMAIN registry # {} /\ Merged(registry, config, Clock(r)) = registry
                   THEN "swap" ELSE "update"
             new == [pc |-> pc, conf |-> config, at |-> Clock(r), reg |-> registry]
  <2>1. build' = [build EXCEPT ![r] = new]
    BY <1>4 DEF BuildRead
  <2>2. new \in Builds
    BY ClockType DEF RegistryTypeOK
  <2>3. new.pc = "swap" => new.conf \subseteq DOMAIN new.reg
    BY ClockType, MergedSame DEF RegistryTypeOK, Reflects
  <2> HIDE DEF new
  <2> QED BY <1>4, <2>1, <2>2, <2>3 DEF BuildRead, RegistryTypeOK
<1>5. ASSUME NEW r \in Replicas, BuildUpdate(r) PROVE RegistryTypeOK'
  <2>1. registry' \in Registries /\ build[r].conf \subseteq DOMAIN registry'
    <3>1. registry \in Registries /\ build[r].conf \in SUBSET Names /\ build[r].at \in Nat
      BY ServedTypes DEF RegistryTypeOK
    <3>2. registry' = Merged(registry, build[r].conf, build[r].at)
      BY <1>5 DEF BuildUpdate
    <3>3. registry' \in Registries /\ DOMAIN registry' = build[r].conf \cup DOMAIN registry
      BY <3>1, <3>2, MergedFacts
    <3> QED BY <3>3
  <2>2. build' = [build EXCEPT ![r] = [build[r] EXCEPT !.pc = "swap", !.reg = registry']]
    BY <1>5 DEF BuildUpdate, RegistryTypeOK
  <2> QED BY <1>5, <2>1, <2>2 DEF BuildUpdate, RegistryTypeOK
<1>6. ASSUME NEW r \in Replicas, BuildFail(r) PROVE RegistryTypeOK'
  <2>1. NoBuild.pc # "swap"
    BY DEF NoBuild
  <2> QED BY <1>6, <2>1, IdleType DEF BuildFail, RegistryTypeOK
<1>7. ASSUME NEW r \in Replicas, Swap(r) PROVE RegistryTypeOK'
  <2>1. NoBuild.pc # "swap"
    BY DEF NoBuild
  <2>2. [conf |-> build[r].conf, reg |-> build[r].reg] \in Served
    BY ServedTypes
  <2>3. build[r].conf \subseteq DOMAIN build[r].reg
    BY <1>7 DEF Swap, RegistryTypeOK
  <2> QED BY <1>7, <2>1, <2>2, <2>3, IdleType DEF Swap, RegistryTypeOK
<1>8. ASSUME NEW c \in Credentials, Issue(c) PROVE RegistryTypeOK'
  BY <1>8 DEF Issue, RegistryTypeOK
<1>9. ASSUME NEW r \in Replicas, NEW n \in Names, IssueClient(r, n) PROVE RegistryTypeOK'
  <2>1. serving[r].reg[n].epoch \in Nat
    BY <1>9, ServedTypes, RecordTypes DEF IssueClient, IsConfiguredClient
  <2>2. [sub |-> n, owner |-> "Client", kind |-> "Client", iat |-> Clock(r),
         epoch |-> serving[r].reg[n].epoch] \in Credentials
    BY <2>1, ClockType DEF Credentials
  <2> QED BY <1>8, <1>9, <2>2 DEF IssueClient
<1>10. ASSUME NEW r \in Replicas, NEW n \in Names, IssueUser(r, n) PROVE RegistryTypeOK'
  <2>1. [sub |-> n, owner |-> "User", kind |-> "User", iat |-> Clock(r), epoch |-> 1] \in Credentials
    BY ClockType DEF Credentials
  <2> QED BY <1>8, <1>10, <2>1 DEF IssueUser
<1> QED BY <1>1, <1>2, <1>3, <1>4, <1>5, <1>6, <1>7, <1>9, <1>10 DEF RegistryNext

\* What the credentials from before kinds were recorded are.
LEMMA InitFacts ==
  ASSUME RegistryInit
  PROVE  /\ RegistryTypeOK /\ DOMAIN registry = config /\ Reflects(registry, config)
         /\ \A n \in config : registry[n].epoch = 1
         /\ \A c \in creds : c.owner = "Client" => c.sub \in config /\ c.epoch = 1 /\ c.iat = 0
<1>1. registry \in Registries /\ DOMAIN registry = config /\ Reflects(registry, config)
  <2>1. registry = Merged(Empty, config, 1) /\ config \in SUBSET Names /\ 1 \in Nat
    BY DEF RegistryInit
  <2>2. Empty \in Registries /\ config \cup DOMAIN Empty = config
    BY EmptyType
  <2> QED BY <2>1, <2>2, MergedFacts
<1>2. \A n \in config : registry[n].epoch = 1
  BY EmptyType DEF RegistryInit, Merged
<1>3. \A c \in creds : /\ c \in Credentials
                       /\ c.owner = "Client" => c.sub \in config /\ c.epoch = 1 /\ c.iat = 0
  <2> DEFINE old(n) == [sub |-> n, owner |-> IF n \in config THEN "Client" ELSE "User",
                        kind |-> "none", iat |-> 0, epoch |-> 1]
  <2>1. \A n \in Names : /\ old(n) \in Credentials
                         /\ old(n).owner = "Client" => old(n).sub \in config
                         /\ old(n).epoch = 1 /\ old(n).iat = 0
    BY DEF Credentials
  <2>2. creds \subseteq {old(n) : n \in Names}
    BY DEF RegistryInit
  <2> QED BY <2>1, <2>2
<1>4. RegistryTypeOK
  <2>1. \A r \in Replicas : serving[r].conf \subseteq DOMAIN serving[r].reg /\ build[r].pc # "swap"
    BY <1>1 DEF RegistryInit, NoBuild
  <2> QED BY <1>1, <1>3, <2>1, IdleType DEF RegistryInit, RegistryTypeOK
<1> QED BY <1>1, <1>2, <1>3, <1>4

\* The variables of the client registry keep their types.
THEOREM RegistryTypeCorrect == RegistrySpec => []RegistryTypeOK
<1>1. RegistryInit => RegistryTypeOK
  BY InitFacts
<1>2. RegistryTypeOK /\ [RegistryNext]_registryVars => RegistryTypeOK'
  BY RegistryTypeStep
<1> QED BY <1>1, <1>2, PTL DEF RegistrySpec

-----------------------------------------------------------------------------
(* Kinds                                                                   *)

\* A name once in the registry is in every copy of it taken since, so what was
\* issued to a client before kinds were recorded is still told from a user's.
LegacyKnown ==
  \A c \in creds : c.owner = "Client" /\ c.kind # "Client" =>
    /\ c.kind = "none" /\ c.sub \in DOMAIN registry
    /\ \A r \in Replicas : /\ c.sub \in DOMAIN serving[r].reg
                           /\ build[r].pc = "swap" => c.sub \in DOMAIN build[r].reg

LEMMA LegacyStep ==
  ASSUME RegistryTypeOK, LegacyKnown, [RegistryNext]_registryVars
  PROVE  LegacyKnown'
<1>1. CASE UNCHANGED registryVars \/ TimePasses \/ (\E n \in Names : Edit(n))
  BY <1>1 DEF registryVars, TimePasses, Edit, LegacyKnown
<1>2. ASSUME NEW r \in Replicas, BuildRead(r) PROVE LegacyKnown'
  <2>1. /\ UNCHANGED <<registry, serving, creds>>
        /\ build'[r].reg = registry /\ \A q \in Replicas \ {r} : build'[q] = build[q]
    BY <1>2 DEF BuildRead, RegistryTypeOK
  <2> QED BY <2>1 DEF LegacyKnown
<1>3. ASSUME NEW r \in Replicas, BuildUpdate(r) PROVE LegacyKnown'
  <2>1. DOMAIN registry' = build[r].conf \cup DOMAIN registry
    BY <1>3 DEF BuildUpdate, Merged
  <2>2. /\ UNCHANGED <<serving, creds>>
        /\ build'[r].reg = registry' /\ \A q \in Replicas \ {r} : build'[q] = build[q]
    BY <1>3 DEF BuildUpdate, RegistryTypeOK
  <2> QED BY <2>1, <2>2 DEF LegacyKnown
<1>4. ASSUME NEW r \in Replicas, BuildFail(r) PROVE LegacyKnown'
  <2>1. /\ UNCHANGED <<registry, serving, creds>>
        /\ build'[r].pc # "swap" /\ \A q \in Replicas \ {r} : build'[q] = build[q]
    BY <1>4 DEF BuildFail, RegistryTypeOK, NoBuild
  <2> QED BY <2>1 DEF LegacyKnown
<1>5. ASSUME NEW r \in Replicas, Swap(r) PROVE LegacyKnown'
  <2>1. /\ UNCHANGED <<registry, creds>> /\ build[r].pc = "swap"
        /\ build'[r].pc # "swap" /\ \A q \in Replicas \ {r} : build'[q] = build[q]
        /\ serving'[r].reg = build[r].reg /\ \A q \in Replicas \ {r} : serving'[q] = serving[q]
    BY <1>5 DEF Swap, RegistryTypeOK, NoBuild
  <2> QED BY <2>1 DEF LegacyKnown
<1>6. ASSUME NEW c, c.owner = "Client" => c.kind = "Client", Issue(c) PROVE LegacyKnown'
  BY <1>6 DEF Issue, LegacyKnown
<1>7. ASSUME NEW r \in Replicas, NEW n \in Names, IssueClient(r, n) \/ IssueUser(r, n) PROVE LegacyKnown'
  BY <1>6, <1>7 DEF IssueClient, IssueUser
<1> QED BY <1>1, <1>2, <1>3, <1>4, <1>5, <1>7 DEF RegistryNext

\* The name of a client whose credential records no kind is in the registry and
\* in every copy an Exchanger classifies with: mergeClientRegistry never drops one.
THEOREM LegacyInvariant == RegistrySpec => []LegacyKnown
<1>1. RegistryInit => LegacyKnown
  <2> SUFFICES ASSUME RegistryInit PROVE LegacyKnown
    OBVIOUS
  <2>1. \A c \in creds : c.kind = "none"
    BY DEF RegistryInit
  <2> QED BY <2>1, InitFacts DEF RegistryInit, LegacyKnown, NoBuild
<1>2. RegistryTypeOK /\ LegacyKnown /\ [RegistryNext]_registryVars => LegacyKnown'
  BY LegacyStep
<1> QED BY <1>1, <1>2, RegistryTypeCorrect, PTL DEF RegistrySpec

LEMMA ClientsAreClients ==
  ASSUME LegacyKnown, NEW r \in Replicas, NEW c \in creds, c.owner = "Client"
  PROVE  kindOrLegacy(r, c) = "Client"
  BY DEF LegacyKnown, kindOrLegacy, NamesClient

\* KindNeverChanges: no Exchanger takes a client's credential for a user's.
THEOREM KindIsKept == RegistrySpec => []KindNeverChanges
<1>1. LegacyKnown => KindNeverChanges
  BY ClientsAreClients DEF KindNeverChanges
<1> QED BY <1>1, LegacyInvariant, PTL

-----------------------------------------------------------------------------
(* A clean slate                                                           *)

\* While an edit waits to be merged, every replica serves the configuration
\* before it, with the registry as it is; once it is merged, whoever has it
\* serves the registry as it is.
Lockstep ==
  /\ \A r \in Replicas : build[r].pc # "idle" => build[r].conf = config
  /\ IF Reflects(registry, config)
     THEN \A r \in Replicas : /\ build[r].pc = "swap" => build[r].reg = registry
                              /\ serving[r].conf = config => serving[r].reg = registry
     ELSE \A r \in Replicas : /\ build[r].pc # "swap" /\ serving[r].conf # config
                              /\ serving[r].reg = registry /\ Reflects(registry, serving[r].conf)

\* The epochs of the copies: never ahead of the registry, and level with it for
\* a client the replica has configured.
Level ==
  \A r \in Replicas : \A n \in DOMAIN serving[r].reg :
    /\ n \in DOMAIN registry /\ serving[r].reg[n].epoch <= registry[n].epoch
    /\ n \in serving[r].conf => serving[r].reg[n].epoch = registry[n].epoch

\* A credential of an earlier epoch than the record's is before its cutoff.
CutOff(c, f) == c.epoch < f[c.sub].epoch => 0 < f[c.sub].removedAt /\ c.iat <= f[c.sub].removedAt

Old(c, f) == c.sub \in DOMAIN f /\ c.epoch <= f[c.sub].epoch /\ CutOff(c, f)

CredsCut ==
  \A c \in creds : c.owner = "Client" =>
    /\ Old(c, registry)
    /\ \A r \in Replicas : c.sub \in DOMAIN serving[r].reg => CutOff(c, serving[r].reg)

\* No credential is ahead of the clocks, and none of a client about to come back
\* is younger than the time its cutoff will get.
Timely ==
  \A c \in creds : c.owner = "Client" => \A r \in Replicas :
    /\ c.iat <= Clock(r)
    /\ build[r].pc = "update" /\ c.sub \in config /\ c.sub \in DOMAIN registry /\ ~registry[c.sub].present
         => c.iat <= build[r].at

Synced == staged /\ \A r, q \in Replicas : skew[r] = skew[q]

\* Starts: a build begins at a clock, so a cutoff is never zero.
Started == \A r \in Replicas : build[r].pc # "idle" => build[r].at > 0

SlateInv == Started /\ (Synced => Lockstep /\ Level /\ CredsCut /\ Timely)

LEMMA CredTypes ==
  ASSUME RegistryTypeOK, NEW c \in creds
  PROVE  c.sub \in Names /\ c.iat \in Nat /\ c.epoch \in Nat
  BY DEF RegistryTypeOK, Credentials

LEMMA StartedStep ==
  ASSUME RegistryTypeOK, Started, [RegistryNext]_registryVars
  PROVE  Started'
<1>1. ASSUME NEW r \in Replicas, BuildRead(r) PROVE Started'
  <2>1. Clock(r) > 0
    BY ClockType
  <2>2. build'[r].at = Clock(r) /\ \A q \in Replicas \ {r} : build'[q] = build[q]
    BY <1>1 DEF BuildRead, RegistryTypeOK
  <2> QED BY <2>1, <2>2 DEF Started
<1>2. ASSUME NEW r \in Replicas, BuildUpdate(r) PROVE Started'
  BY <1>2 DEF BuildUpdate, RegistryTypeOK, Started
<1>3. ASSUME NEW r \in Replicas, BuildFail(r) \/ Swap(r) PROVE Started'
  BY <1>3 DEF BuildFail, Swap, RegistryTypeOK, Started, NoBuild
<1>4. CASE UNCHANGED build
  BY <1>4 DEF Started
<1> QED BY <1>1, <1>2, <1>3, <1>4
    DEF RegistryNext, registryVars, TimePasses, Edit, IssueClient, IssueUser, Issue

\* An edit waits until every replica serves the last one.
LEMMA EditSlate ==
  ASSUME RegistryTypeOK, Lockstep, Level, CredsCut, Timely, NEW n \in Names, Edit(n), staged'
  PROVE  Lockstep' /\ Level' /\ CredsCut' /\ Timely'
<1>1. /\ UNCHANGED <<time, skew, registry, build, serving, creds>> /\ config' # config
      /\ \A r \in Replicas : build[r].pc = "idle" /\ serving[r].conf = config
  <2>1. \A r \in Replicas : build[r] = NoBuild /\ serving[r].conf = config
    BY Zenon DEF Edit
  <2> QED BY <2>1 DEF Edit, NoBuild
<1>2. CASE Replicas = {}
  BY <1>1, <1>2 DEF Lockstep, Level, CredsCut, Timely
<1>3. CASE Replicas # {}
  <2>1. Reflects(registry, config)
    BY <1>1, <1>3 DEF Lockstep
  <2>2. n \in config' <=> n \notin config
    BY DEF Edit
  <2>3. ~Reflects(registry, config')
    BY <2>1, <2>2 DEF Reflects
  <2>4. \A r \in Replicas : serving[r].reg = registry
    BY <1>1, <2>1 DEF Lockstep
  <2>5. Lockstep'
    <3>1. ~Reflects(registry, config)'
      BY <1>1, <2>3 DEF Reflects
    <3>2. \A r \in Replicas : Reflects(registry, serving[r].conf)'
      BY <1>1, <2>1 DEF Reflects
    <3> QED BY <1>1, <2>4, <3>1, <3>2 DEF Lockstep
  <2>6. Level' /\ CredsCut'
    BY <1>1 DEF Level, CredsCut, Old, CutOff
  <2>7. Timely'
    BY <1>1 DEF Timely, Clock
  <2> QED BY <2>5, <2>6, <2>7
<1> QED BY <1>2, <1>3

LEMMA ReadSlate ==
  ASSUME RegistryTypeOK, Lockstep, Level, CredsCut, Timely, NEW r \in Replicas, BuildRead(r)
  PROVE  Lockstep' /\ Level' /\ CredsCut' /\ Timely'
<1>1. /\ UNCHANGED <<time, skew, config, registry, serving, creds>>
      /\ build'[r].conf = config /\ build'[r].at = Clock(r) /\ build'[r].reg = registry
      /\ build'[r].pc = "swap" => Merged(registry, config, Clock(r)) = registry
      /\ \A q \in Replicas \ {r} : build'[q] = build[q]
  BY DEF BuildRead, RegistryTypeOK
<1>2. build'[r].pc = "swap" => Reflects(registry, config)
  BY <1>1, ClockType, MergedSame DEF RegistryTypeOK
<1>3. Lockstep'
  <2>1. Reflects(registry, config)' <=> Reflects(registry, config)
    BY <1>1 DEF Reflects
  <2>2. \A q \in Replicas : Reflects(registry, serving[q].conf) => Reflects(registry, serving[q].conf)'
    BY <1>1 DEF Reflects
  <2> QED BY <1>1, <1>2, <2>1, <2>2 DEF Lockstep
<1>4. Level' /\ CredsCut'
  BY <1>1 DEF Level, CredsCut, Old, CutOff
<1>5. Timely'
  BY <1>1 DEF Timely, Clock
<1> QED BY <1>3, <1>4, <1>5

LEMMA UpdateSlate ==
  ASSUME RegistryTypeOK, Started, Lockstep, Level, CredsCut, Timely, NEW r \in Replicas, BuildUpdate(r)
  PROVE  Lockstep' /\ Level' /\ CredsCut' /\ Timely'
<1>0. PICK at \in Nat : at = build[r].at /\ at > 0
  BY ServedTypes DEF Started, BuildUpdate
<1>1. /\ UNCHANGED <<time, skew, config, serving, creds>> /\ build[r].pc = "update" /\ build[r].conf = config
      /\ registry' = Merged(registry, config, at)
      /\ build'[r].conf = config /\ build'[r].pc = "swap" /\ build'[r].reg = registry'
      /\ \A q \in Replicas \ {r} : build'[q] = build[q]
  BY <1>0 DEF BuildUpdate, RegistryTypeOK, Lockstep
<1>m. PICK m : m = Merged(registry, config, at)
  OBVIOUS
<1>2. /\ m \in Registries /\ registry \in Registries /\ DOMAIN registry \subseteq DOMAIN m
      /\ Reflects(m, config)
      /\ \A n \in DOMAIN registry :
              /\ m[n].removedAt >= registry[n].removedAt
              /\ m[n].epoch >= registry[n].epoch
              /\ registry[n].present => m[n].epoch = registry[n].epoch
              /\ m[n].epoch # registry[n].epoch
                   => ~registry[n].present /\ n \in config /\ m[n].removedAt >= at
  <2>1. registry \in Registries /\ config \in SUBSET Names
    BY DEF RegistryTypeOK
  <2>2. /\ m \in Registries /\ DOMAIN m = config \cup DOMAIN registry /\ Reflects(m, config)
        /\ \A n \in DOMAIN registry :
              /\ m[n].removedAt >= registry[n].removedAt
              /\ m[n].epoch >= registry[n].epoch
              /\ registry[n].present => m[n].epoch = registry[n].epoch
              /\ m[n].epoch # registry[n].epoch
                   => ~registry[n].present /\ n \in config /\ m[n].removedAt >= at
    BY <1>m, <2>1, MergedFacts, Zenon
  <2> QED BY <2>1, <2>2
<1>3. Reflects(registry, config)'
  BY <1>1, <1>2, <1>m DEF Reflects
<1>4. Reflects(registry, config) => registry' = registry
  BY <1>1, MergedSame DEF RegistryTypeOK
<1>5. Lockstep'
  BY <1>1, <1>3, <1>4 DEF Lockstep
<1>6. Level'
  <2>1. CASE Reflects(registry, config)
    BY <1>1, <1>4, <2>1 DEF Level
  <2>2. CASE ~Reflects(registry, config)
    <3>1. \A q \in Replicas : /\ serving[q].reg = registry
                              /\ \A n \in DOMAIN registry : n \in serving[q].conf => registry[n].present
      BY <2>2 DEF Lockstep, Reflects
    <3>2. \A n \in DOMAIN registry : registry[n].epoch <= m[n].epoch
      BY <1>2, RecordTypes
    <3> QED BY <1>1, <1>2, <1>m, <3>1, <3>2 DEF Level
  <2> QED BY <2>1, <2>2
<1>7. ASSUME NEW c \in creds, c.owner = "Client" PROVE Old(c, m)
  <2>0. c.iat \in Nat /\ c.epoch \in Nat /\ Old(c, registry)
    BY <1>7, CredTypes DEF CredsCut
  <2>1. /\ c.sub \in DOMAIN registry /\ c.sub \in DOMAIN m
        /\ registry[c.sub].removedAt \in Nat /\ registry[c.sub].epoch \in Nat
        /\ m[c.sub].removedAt \in Nat /\ m[c.sub].epoch \in Nat
    BY <1>2, <2>0, RecordTypes DEF Old
  <2>2. c.epoch <= m[c.sub].epoch
    BY <1>2, <2>0, <2>1 DEF Old
  <2>3. ASSUME c.epoch < m[c.sub].epoch PROVE 0 < m[c.sub].removedAt /\ c.iat <= m[c.sub].removedAt
    <3>1. CASE m[c.sub].epoch = registry[c.sub].epoch
      <4>1. 0 < registry[c.sub].removedAt /\ c.iat <= registry[c.sub].removedAt
        BY <2>0, <2>3, <3>1 DEF Old, CutOff
      <4> QED BY <1>2, <2>0, <2>1, <4>1
    <3>2. CASE m[c.sub].epoch # registry[c.sub].epoch
      <4>1. ~registry[c.sub].present /\ c.sub \in config /\ m[c.sub].removedAt >= at
        BY <1>2, <2>1, <3>2
      <4>2. c.iat <= at
        BY <1>0, <1>1, <1>7, <2>1, <4>1 DEF Timely
      <4> QED BY <1>0, <2>0, <2>1, <4>1, <4>2
    <3> QED BY <3>1, <3>2
  <2> QED BY <2>1, <2>2, <2>3 DEF Old, CutOff
<1>8. CredsCut'
  <2>1. \A c \in creds : c.owner = "Client" => Old(c, registry)'
    BY <1>1, <1>7, <1>m DEF Old, CutOff
  <2>2. \A c \in creds : c.owner = "Client" =>
          \A q \in Replicas : c.sub \in DOMAIN serving'[q].reg => CutOff(c, serving[q].reg)'
    BY <1>1 DEF CredsCut, CutOff
  <2> QED BY <1>1, <2>1, <2>2 DEF CredsCut
<1>9. Timely'
  BY <1>1, <1>3 DEF Timely, Clock, Reflects
<1> QED BY <1>5, <1>6, <1>8, <1>9

LEMMA SwapSlate ==
  ASSUME RegistryTypeOK, Lockstep, Level, CredsCut, Timely, NEW r \in Replicas, BuildFail(r) \/ Swap(r)
  PROVE  Lockstep' /\ Level' /\ CredsCut' /\ Timely'
<1>1. /\ UNCHANGED <<time, skew, config, registry, creds>>
      /\ build'[r].pc = "idle" /\ \A q \in Replicas \ {r} : build'[q] = build[q]
      /\ \A q \in Replicas \ {r} : serving'[q] = serving[q]
  BY DEF BuildFail, Swap, RegistryTypeOK, NoBuild
<1>2. \/ serving'[r] = serving[r]
      \/ /\ build[r].pc = "swap" /\ build[r].conf = config
         /\ serving'[r].conf = config /\ serving'[r].reg = build[r].reg
  BY DEF BuildFail, Swap, RegistryTypeOK, Lockstep
<1>3. build[r].pc = "swap" => build[r].reg = registry /\ Reflects(registry, config)
  BY DEF Lockstep
<1>4. Lockstep'
  <2>1. Reflects(registry, config)' <=> Reflects(registry, config)
    BY <1>1 DEF Reflects
  <2>2. ~Reflects(registry, config) => \A q \in Replicas : serving'[q] = serving[q]
    BY <1>1, <1>2, <1>3
  <2>3. ~Reflects(registry, config) => \A q \in Replicas : Reflects(registry, serving[q].conf)'
    BY <1>1, <2>2 DEF Reflects, Lockstep
  <2> QED BY <1>1, <1>2, <1>3, <2>1, <2>2, <2>3 DEF Lockstep
<1>5. Level'
  <2>1. \A n \in DOMAIN registry : registry[n].epoch <= registry[n].epoch
    BY RecordTypes DEF RegistryTypeOK
  <2> QED BY <1>1, <1>2, <1>3, <2>1 DEF Level
<1>6. CredsCut'
  BY <1>1, <1>2, <1>3 DEF CredsCut, Old, CutOff
<1>7. Timely'
  BY <1>1 DEF Timely, Clock
<1> QED BY <1>4, <1>5, <1>6, <1>7

LEMMA IssueSlate ==
  ASSUME RegistryTypeOK, Lockstep, Level, CredsCut, Timely, \A q, s \in Replicas : skew[q] = skew[s],
         NEW r \in Replicas, NEW n \in Names, IssueClient(r, n) \/ IssueUser(r, n)
  PROVE  Lockstep' /\ Level' /\ CredsCut' /\ Timely'
<1>1. UNCHANGED <<time, skew, config, registry, build, serving>>
  BY DEF IssueClient, IssueUser, Issue
<1>2. Lockstep' /\ Level'
  <2>1. Reflects(registry, config)' <=> Reflects(registry, config)
    BY <1>1 DEF Reflects
  <2>2. \A q \in Replicas : Reflects(registry, serving[q].conf)' <=> Reflects(registry, serving[q].conf)
    BY <1>1 DEF Reflects
  <2> QED BY <1>1, <2>1, <2>2 DEF Lockstep, Level
<1>3. CASE IssueUser(r, n)
  <2>1. \A c \in creds' : c.owner = "Client" => c \in creds
    BY <1>3 DEF IssueUser, Issue
  <2> QED BY <1>1, <1>2, <2>1 DEF CredsCut, Timely, Clock, Old, CutOff
<1>4. CASE IssueClient(r, n)
  <2> DEFINE x == [sub |-> n, owner |-> "Client", kind |-> "Client", iat |-> Clock(r),
                   epoch |-> serving[r].reg[n].epoch]
  <2>1. creds' = creds \cup {x} /\ n \in serving[r].conf
    BY <1>4 DEF IssueClient, Issue, IsConfiguredClient
  <2>2. n \in DOMAIN serving[r].reg /\ n \in DOMAIN registry /\ serving[r].reg[n].epoch = registry[n].epoch
    BY <2>1, ServedTypes DEF Level
  <2>3. x.sub = n /\ x.iat = Clock(r) /\ x.epoch = registry[n].epoch
    BY <2>2
  <2>4. registry[n].epoch \in Nat /\ Clock(r) \in Nat
    BY <2>2, RecordTypes, ClockType DEF RegistryTypeOK
  <2> HIDE DEF x
  <2>5. Old(x, registry)
    BY <2>2, <2>3, <2>4 DEF Old, CutOff
  <2>6. \A q \in Replicas : x.sub \in DOMAIN serving[q].reg => CutOff(x, serving[q].reg)
    <3>1. ASSUME NEW q \in Replicas, n \in DOMAIN serving[q].reg
          PROVE  serving[q].reg[n].epoch <= registry[n].epoch /\ serving[q].reg[n].epoch \in Nat
      BY <3>1, RecordTypes, ServedTypes DEF Level
    <3> QED BY <2>3, <2>4, <3>1 DEF CutOff
  <2>7. CredsCut'
    BY <1>1, <2>1, <2>5, <2>6 DEF CredsCut, Old, CutOff
  <2>8. \A q \in Replicas : Clock(r) <= Clock(q)
    BY <2>4, ClockType DEF Clock
  <2>9. n \in config => registry[n].present
    <3>1. CASE Reflects(registry, config)
      BY <2>2, <3>1 DEF Reflects
    <3>2. CASE ~Reflects(registry, config)
      BY <2>1, <2>2, <3>2 DEF Lockstep, Reflects
    <3> QED BY <3>1, <3>2
  <2>10. Timely'
    BY <1>1, <2>1, <2>3, <2>8, <2>9 DEF Timely, Clock
  <2> QED BY <1>2, <2>7, <2>10
<1> QED BY <1>3, <1>4

LEMMA SlateStep ==
  ASSUME RegistryTypeOK, SlateInv, [RegistryNext]_registryVars
  PROVE  SlateInv'
<1>1. Started'
  BY StartedStep DEF SlateInv
<1> SUFFICES ASSUME Synced' PROVE Lockstep' /\ Level' /\ CredsCut' /\ Timely'
  BY <1>1 DEF SlateInv
<1>2. skew' = skew /\ (staged' => staged)
  <2>1. ASSUME NEW n \in Names, Edit(n) PROVE skew' = skew /\ (staged' => staged)
    BY <2>1, Zenon DEF Edit
  <2>2. CASE UNCHANGED <<skew, staged>>
    BY <2>2
  <2> QED BY <2>1, <2>2 DEF RegistryNext, registryVars, TimePasses, BuildRead, BuildUpdate, BuildFail, Swap, IssueClient, IssueUser, Issue
<1>3. Synced
  BY <1>2 DEF Synced
<1>4. Lockstep /\ Level /\ CredsCut /\ Timely /\ Started
  BY <1>3 DEF SlateInv
<1>5. CASE UNCHANGED registryVars \/ TimePasses
  <2>1. /\ UNCHANGED <<skew, config, registry, build, serving, creds>> /\ (time' = time \/ time' = time + 1)
    BY <1>5 DEF registryVars, TimePasses
  <2>2. Reflects(registry, config)' <=> Reflects(registry, config)
    BY <2>1 DEF Reflects
  <2>3. \A q \in Replicas : Reflects(registry, serving[q].conf)' <=> Reflects(registry, serving[q].conf)
    BY <2>1 DEF Reflects
  <2>4. Lockstep' /\ Level' /\ CredsCut'
    BY <1>4, <2>1, <2>2, <2>3 DEF Lockstep, Level, CredsCut, Old, CutOff
  <2>5. Timely'
    <3>1. ASSUME NEW q \in Replicas, NEW c \in creds, c.iat <= Clock(q) PROVE c.iat <= Clock(q)'
      BY <2>1, <3>1, CredTypes, RegistryAssumption DEF Clock, RegistryTypeOK
    <3> QED BY <1>4, <2>1, <3>1 DEF Timely
  <2> QED BY <2>4, <2>5
<1>6. ASSUME NEW n \in Names, Edit(n) PROVE Lockstep' /\ Level' /\ CredsCut' /\ Timely'
  BY <1>4, <1>6, EditSlate DEF Synced
<1>7. ASSUME NEW r \in Replicas, BuildRead(r) \/ BuildUpdate(r) \/ BuildFail(r) \/ Swap(r)
      PROVE  Lockstep' /\ Level' /\ CredsCut' /\ Timely'
  BY <1>4, <1>7, ReadSlate, UpdateSlate, SwapSlate
<1>8. ASSUME NEW r \in Replicas, NEW n \in Names, IssueClient(r, n) \/ IssueUser(r, n)
      PROVE  Lockstep' /\ Level' /\ CredsCut' /\ Timely'
  BY <1>3, <1>4, <1>8, IssueSlate DEF Synced
<1> QED BY <1>5, <1>6, <1>7, <1>8 DEF RegistryNext

\* While edits are staged and clocks agree, replicas serve the last two
\* configurations only and every credential of an earlier life of its client is
\* behind the cutoff mergeClientRegistry recorded.
THEOREM SlateInvariant == RegistrySpec => []SlateInv
<1>1. RegistryInit => SlateInv
  <2> SUFFICES ASSUME RegistryInit PROVE SlateInv
    OBVIOUS
  <2>1. /\ \A r \in Replicas : build[r].pc = "idle" /\ serving[r].conf = config /\ serving[r].reg = registry
        /\ registry \in Registries
    BY InitFacts DEF RegistryInit, NoBuild, RegistryTypeOK
  <2>2. Reflects(registry, config) /\ DOMAIN registry = config /\ \A n \in config : registry[n].epoch = 1
    BY InitFacts
  <2>3. Started /\ Lockstep
    BY <2>1, <2>2 DEF Started, Lockstep
  <2>4. Level /\ CredsCut
    BY <2>1, <2>2, InitFacts DEF Level, CredsCut, Old, CutOff
  <2>5. Timely
    BY <2>1, InitFacts, ClockType DEF Timely
  <2> QED BY <2>3, <2>4, <2>5 DEF SlateInv
<1>2. RegistryTypeOK /\ SlateInv /\ [RegistryNext]_registryVars => SlateInv'
  BY SlateStep
<1> QED BY <1>1, <1>2, RegistryTypeCorrect, PTL DEF RegistrySpec

\* ReAddIsCleanSlate: with staged edits and equal clocks, nothing issued to a
\* client before its removal is accepted once it is back.
THEOREM ReAddStartsClean == RegistrySpec => []ReAddIsCleanSlate
<1>1. RegistryTypeOK /\ LegacyKnown /\ SlateInv => ReAddIsCleanSlate
  <2> SUFFICES ASSUME RegistryTypeOK, LegacyKnown, SlateInv, Synced,
                      NEW r \in Replicas, NEW c \in creds, c.owner = "Client", Accepts(r, c)
               PROVE  c.epoch >= serving[r].reg[c.sub].epoch
    BY DEF ReAddIsCleanSlate, CleanSlate, Synced
  <2>1. ~vetoClient(r, c)
    BY ClientsAreClients DEF Accepts, VetoCredential
  <2>2. /\ c.sub \in DOMAIN serving[r].reg
        /\ ~(serving[r].reg[c.sub].removedAt > 0 /\ c.iat <= serving[r].reg[c.sub].removedAt)
    BY <2>1, ServedTypes DEF vetoClient, IsConfiguredClient
  <2>3. CutOff(c, serving[r].reg)
    BY <2>2 DEF SlateInv, CredsCut
  <2>4. c.epoch \in Nat /\ serving[r].reg[c.sub].epoch \in Nat /\ serving[r].reg[c.sub].removedAt \in Nat
    BY <2>2, CredTypes, ServedTypes, RecordTypes
  <2> QED BY <2>2, <2>3, <2>4 DEF CutOff
<1> QED BY <1>1, RegistryTypeCorrect, LegacyInvariant, SlateInvariant, PTL
=============================================================================
