-------------------------- MODULE SessionGateProofs --------------------------
(***************************************************************************)
(* For any number of callers, replicas, sessions and capabilities, any     *)
(* memberships and any failing calls: a request carries grants no older    *)
(* than the last acknowledged change and never older than a cache          *)
(* lifetime; a capability is spent exactly and never grows.                *)
(***************************************************************************)
EXTENDS SessionGate, TLAPS

-----------------------------------------------------------------------------
(* The invariants                                                          *)

\* A request that has a capability came in with it and keeps it to the end.
WithCap(r) ==
  /\ r.ac.cap # NoCap => /\ r.ac.cap \in DOMAIN caps /\ r.pc \in {"spend", "handler"}
                         /\ r.ac.src = "cap" /\ r.ac.ents \subseteq caps[r.ac.cap].ents
  /\ r.pc = "spend" => r.ac.cap # NoCap

CapsOK == /\ \A p \in Callers : WithCap(req[p])
          /\ BudgetKept
          /\ \A c \in DOMAIN caps : caps[c].ents \subseteq caps[c].root

\* Of something resolved from version v: when until is later than allowed for
\* a version that is not current any more, or for the current one.
Lasts(v, until, life) ==
  /\ v <= Member
  /\ until <= IF v < Member THEN since[v + 2] + life ELSE now + life

\* What is still to be refreshed carries the token's own grants.
Aged(r) ==
  /\ r.ac.ver <= Member /\ r.at <= now
  /\ r.pc \in {"gen", "lookup", "wait", "resolve"} => r.ac.src = "frozen"
  /\ r.pc = "store" => /\ r.ac.src = "live" /\ r.at = now
                       /\ r.ac.ver < Member => now <= since[r.ac.ver + 2]
  /\ r.pc \in {"handler", "store"} /\ r.ac.src \in {"live", "pat"} /\ r.ac.ver < Member
       => r.at < since[r.ac.ver + 2] + GrantTTL + Jitter

AgesOK ==
  /\ Len(since) <= Len(sc.backend)
  /\ \A p \in Callers : Aged(req[p])
  /\ \A s \in Stores : \A e \in grants[s] : Lasts(e.grant.ver, e.until, GrantTTL + Jitter)
  /\ \A s \in Stores : Lasts(claims[s].ver, claims[s].until, GrantTTL)
  /\ \A s \in Sessions : session[s].grant.ver <= Member

\* A generation some BumpGrantGeneration has made, or none.
Made(g) == g = NoGen \/ g[2] <= seq[g[1]]

\* Nobody reads the generation before the pc says so, and what was
\* acknowledged then is what is acknowledged now or less.
Floored(r) ==
  /\ r.read => r.pc \in {"lookup", "wait", "resolve", "store", "handler"} /\ r.floor <= acked
  /\ r.pc = "reply" => r.floor <= Member
  /\ r.read /\ r.pc \in {"handler", "store"} /\ r.ac.src = "live" => r.ac.ver >= r.floor

\* What is filed under generation g, from version v, serves everyone who read g,
\* and whoever will.
Serves(g, v) ==
  /\ g = gen["valkey"] => v >= acked
  /\ \A q \in Callers : req[q].read /\ req[q].gen = g => v >= req[q].floor

FreshOK ==
  /\ acked <= Member /\ (~sc.shared => acked = 0)
  /\ \A p \in Callers : Made(req[p].gen) /\ Floored(req[p])
  /\ \A s \in Stores : Made(gen[s]) /\ \A e \in grants[s] : Made(e.gen)
  /\ sc.shared => /\ \A e \in grants["valkey"] : Serves(e.gen, e.grant.ver)
                  /\ \A p \in Callers : req[p].pc = "store" => Serves(req[p].gen, req[p].ac.ver)

GateInv == CapsOK /\ AgesOK /\ FreshOK

-----------------------------------------------------------------------------
(* Types                                                                   *)

LEMMA Constants ==
  /\ Home \in [Callers -> Replicas] /\ Subject \in Binds
  /\ GrantTTL \in Nat /\ GrantTTL > 0 /\ UsesCap \in Nat /\ UsesCap > 0 /\ CapTTL \in Nat
  /\ Jitter \in Nat /\ Jitter < GrantTTL /\ NoCounter \in Nat /\ NoCounter = UsesCap + 1
  BY GateAssumption DEF NoCounter

LEMMA Literals ==
  /\ Nobody \in Contexts /\ Idle \in Handling
  /\ Nobody.ver = 0 /\ Nobody.cap = NoCap /\ Nobody.src = "none"
  /\ Idle.pc = "idle" /\ Idle.ac = Nobody /\ Idle.gen = NoGen /\ ~Idle.read /\ Idle.floor = 0 /\ Idle.at = 0
<1>1. Nobody \in Contexts
  BY Constants DEF Nobody, Contexts, NoCap, SubjectKinds
<1>2. NoGen \in Gens
  BY DEF Gens
<1>3. Idle \in Handling
  BY <1>1, <1>2 DEF Idle, Handling
<1>4. Nobody.ver = 0 /\ Nobody.cap = NoCap /\ Nobody.src = "none"
  BY DEF Nobody
<1> QED BY <1>1, <1>3, <1>4 DEF Idle

\* The fields of a scenario, and what a request in it asks for.
LEMMA ScenarioFacts ==
  ASSUME TypeOK, NEW p \in Callers
  PROVE  /\ sc.shared \in BOOLEAN /\ sc.maxTime \in Nat /\ sc.tokenTTL \in Nat /\ sc.nearExpiry \in Nat
         /\ sc.roles \in [Binds -> SUBSET Rights] /\ sc.backend \in Seq(SUBSET Rights)
         /\ sc.destructive \subseteq Rights
         /\ sc.pat.kind \in SubjectKinds /\ sc.pat.iat \in Nat
         /\ sc.asks \in [Callers -> Seq(Request)]
         /\ sc.sessions \in [Sessions -> [kind : SubjectKinds, bind : Binds, refresh : BOOLEAN]]
         /\ sc.asks[p] # <<>> => Asked(p) \in Request
<1>1. sc.shared \in BOOLEAN /\ sc.maxTime \in Nat /\ sc.tokenTTL \in Nat /\ sc.nearExpiry \in Nat
  BY DEF TypeOK, Scenario
<1>2. /\ sc.roles \in [Binds -> SUBSET Rights] /\ sc.backend \in Seq(SUBSET Rights)
      /\ sc.destructive \subseteq Rights
  BY DEF TypeOK, Scenario
<1>3. /\ sc.asks \in [Callers -> Seq(Request)]
      /\ sc.sessions \in [Sessions -> [kind : SubjectKinds, bind : Binds, refresh : BOOLEAN]]
  BY DEF TypeOK, Scenario
<1>4. sc.pat.kind \in SubjectKinds /\ sc.pat.iat \in Nat
  BY DEF TypeOK, Scenario
<1>5. sc.asks[p] # <<>> => Asked(p) \in Request
  BY <1>3 DEF Asked
<1> QED BY <1>1, <1>2, <1>3, <1>4, <1>5

LEMMA MemberFacts ==
  ASSUME TypeOK
  PROVE  Member \in Nat /\ Len(since) = Member + 1 /\ Len(since) \in Nat
         /\ \A i \in 1 .. Len(since) : since[i] \in Nat
  BY DEF TypeOK, Member

\* What is resolved from a version there is.
LEMMA GrantTypes ==
  ASSUME TypeOK, AgesOK, NEW bind \in Binds, NEW v \in Nat, v <= Member
  PROVE  /\ BoundRoles(bind) \subseteq Rights /\ Ents(bind, v) \subseteq Rights
         /\ Grant(bind, v) \in Grants /\ Grant(bind, v).ver = v
<1>1. BoundRoles(bind) \subseteq Rights
  BY ScenarioFacts DEF BoundRoles, TypeOK, Scenario
<1>2. sc.backend \in Seq(SUBSET Rights)
  BY DEF TypeOK, Scenario
<1>3. BackendClaims(v) \subseteq Rights
  <2>1. v + 1 \in 1 .. Len(sc.backend)
    BY <1>2, MemberFacts DEF AgesOK
  <2> QED BY <1>2, <2>1 DEF BackendClaims
<1> QED BY <1>1, <1>3 DEF Ents, Grant, Grants

LEMMA KindTypes ==
  ASSUME NEW k \in SubjectKinds
  PROVE  ContextSubjectKind(k) \in SubjectKinds
<1>1. SubjectKindOf(Subject) \in SubjectKinds
  BY DEF SubjectKindOf, SubjectKinds
<1>2. CASE k = "cc" BY <1>2 DEF ContextSubjectKind, SubjectKinds
<1>3. CASE k = "" BY <1>1, <1>3 DEF ContextSubjectKind, SubjectKinds
<1>4. CASE k # "cc" /\ k # "" BY <1>4 DEF ContextSubjectKind, SubjectKinds
<1> QED BY <1>2, <1>3, <1>4

\* The answer ends a request.
LEMMA AnswerTypes ==
  ASSUME TypeOK, NEW p \in Callers, sc.asks[p] # <<>>, Answer(p)
  PROVE  /\ sc' \in Scenario /\ sc'.backend = sc.backend /\ sc'.shared = sc.shared
         /\ req' \in [Callers -> Handling]
         /\ req'[p] = Idle /\ \A q \in Callers \ {p} : req'[q] = req[q] /\ sc'.asks[q] = sc.asks[q]
<1>1. Tail(sc.asks[p]) \in Seq(Request)
  BY ScenarioFacts
<1>2. [sc.asks EXCEPT ![p] = Tail(@)] \in [Callers -> Seq(Request)]
  BY <1>1, ScenarioFacts
<1>3. sc' \in Scenario /\ sc'.backend = sc.backend /\ sc'.shared = sc.shared /\ sc'.asks = [sc.asks EXCEPT ![p] = Tail(@)]
  BY <1>2 DEF Answer, TypeOK, Scenario
<1> QED BY <1>3, Literals, ScenarioFacts DEF Answer, TypeOK

-----------------------------------------------------------------------------
(* Admission                                                               *)

\* What the gate lets in: a context that fits the step it goes on to.
Fitting(ac, pc) ==
  /\ ac \in Contexts /\ pc \in {"handler", "gen", "spend"}
  /\ ac.ver <= Member
  /\ ac.cap # NoCap => /\ ac.cap \in DOMAIN caps /\ pc # "gen"
                       /\ ac.src = "cap" /\ ac.ents \subseteq caps[ac.cap].ents
  /\ pc = "gen" => ac.src = "frozen"
  /\ pc = "spend" => ac.cap # NoCap
  /\ ac.src # "live"
  /\ ac.src = "pat" /\ ac.ver < Member => now < since[ac.ver + 2] + GrantTTL + Jitter

Enters(p) == \E ac, pc : Fitting(ac, pc) /\ Enter(p, ac, pc)

Admits(p) == /\ req[p].pc = "idle" /\ sc.asks[p] # <<>>
             /\ Answer(p) \/ (Enters(p) /\ UNCHANGED sc)

LEMMA NobodyFits == ASSUME TypeOK PROVE Fitting(Nobody, "handler")
  BY Literals, MemberFacts DEF Fitting

\* The token of a session, or a capability, with its grants refreshed.
LEMMA RefreshFits ==
  ASSUME TypeOK, NEW p \in Callers, NEW ac \in Contexts, ac.ver <= Member,
         \/ ac.src = "frozen" /\ ac.cap = NoCap
         \/ ac.src = "cap" /\ ac.cap \in DOMAIN caps /\ ac.ents = caps[ac.cap].ents /\ ac.cap # NoCap,
         RefreshSessionGrants(p, ac)
  PROVE  Enters(p)
<1>1. \/ Enter(p, ac, "spend") /\ ac.cap # NoCap
      \/ Enter(p, Dropped(ac), "handler") /\ ac.cap = NoCap
      \/ Enter(p, ac, "handler") /\ ac.cap = NoCap
      \/ Enter(p, ac, "gen") /\ ac.cap = NoCap
  BY DEF RefreshSessionGrants
<1>2. CASE ac.cap # NoCap
  <2>1. Fitting(ac, "spend")
    BY <1>2 DEF Fitting
  <2> QED BY <1>1, <1>2, <2>1 DEF Enters
<1>3. CASE ac.cap = NoCap
  <2>1. Fitting(ac, "handler") /\ Fitting(ac, "gen")
    BY <1>3 DEF Fitting
  <2>2. Dropped(ac) \in Contexts /\ Dropped(ac).ver = ac.ver /\ Dropped(ac).src = "dropped" /\ Dropped(ac).cap = ac.cap
    BY DEF Dropped, Contexts
  <2>3. Fitting(Dropped(ac), "handler")
    BY <1>3, <2>2 DEF Fitting
  <2> QED BY <1>1, <1>3, <2>1, <2>3 DEF Enters
<1> QED BY <1>2, <1>3

LEMMA TokenTypes ==
  ASSUME NEW k \in Cookies
  PROVE  /\ TokenOf(k) \in Contexts /\ TokenOf(k).ver = k.grant.ver
         /\ TokenOf(k).src = "frozen" /\ TokenOf(k).cap = NoCap
  BY DEF TokenOf, Cookies, Contexts, Grants, NoCap

LEMMA CapTypes ==
  ASSUME TypeOK, NEW c \in DOMAIN caps
  PROVE  /\ CapContext(c) \in Contexts /\ CapContext(c).ver = 0
         /\ CapContext(c).src = "cap" /\ CapContext(c).cap = c /\ c # NoCap
         /\ CapContext(c).ents = caps[c].ents /\ caps[c] \in Capabilities
<1>1. caps[c] \in Capabilities /\ c \in Nat /\ c # 0
  BY DEF TypeOK
<1> QED BY <1>1, Constants DEF CapContext, Contexts, Capabilities, NoCap

\* The cookies a gate may leave: as they were, cleared or redeemed.
LEMMA CookieTypes ==
  ASSUME TypeOK, AgesOK, NEW p \in Callers, NEW s \in Sessions
  PROVE  /\ session[s] \in Cookies /\ session[s].grant.ver <= Member
         /\ Cleared(s) \in Cookies /\ Cleared(s).grant.ver <= Member
         /\ Redeemed(p, s) \in Cookies /\ Redeemed(p, s).grant.ver <= Member
<1>1. session[s] \in Cookies /\ session[s].grant.ver <= Member /\ session[s].bind \in Binds
  BY DEF TypeOK, AgesOK, Cookies
<1>2. Cleared(s) \in Cookies /\ Cleared(s).grant.ver <= Member
  BY <1>1 DEF Cleared, Cookies, NoCookie
<1>3. Store(Home[p]) \in Stores
  BY Constants DEF Store, Stores
<1>4. claims[Store(Home[p])].ver \in Nat /\ claims[Store(Home[p])].ver <= Member
  BY <1>3 DEF TypeOK, AgesOK, Lasts
<1>5. PICK v \in Nat : v <= Member /\ Redeemed(p, s) =
        [session[s] EXCEPT !.exp = now + sc.tokenTTL, !.iat = now, !.grant = Grant(session[s].bind, v)]
  <2> DEFINE v == IF ClaimsCached(Home[p]) THEN claims[Store(Home[p])].ver ELSE Member
  <2>1. v \in Nat /\ v <= Member
    BY <1>4, MemberFacts
  <2>2. Redeemed(p, s) =
        [session[s] EXCEPT !.exp = now + sc.tokenTTL, !.iat = now, !.grant = Grant(session[s].bind, v)]
    BY DEF Redeemed
  <2> QED BY <2>1, <2>2
<1>6. Grant(session[s].bind, v) \in Grants /\ Grant(session[s].bind, v).ver = v
  BY <1>1, <1>5, GrantTypes
<1>7. now \in Nat /\ now + sc.tokenTTL \in Nat
  BY ScenarioFacts DEF TypeOK
<1>8. Redeemed(p, s) \in Cookies /\ Redeemed(p, s).grant.ver <= Member
  BY <1>1, <1>5, <1>6, <1>7 DEF Cookies
<1> QED BY <1>1, <1>2, <1>8

-----------------------------------------------------------------------------
(* A step of one request that leaves the shared state alone                *)

\* The caches hold no claims and the sessions no grants that are too old.
Sources == /\ \A s \in Stores : Lasts(claims'[s].ver, claims'[s].until, GrantTTL)
           /\ \A s \in Sessions : session'[s].grant.ver <= Member

LEMMA QuietCaps ==
  ASSUME GateInv, NEW p \in Callers, UNCHANGED caps,
         \A q \in Callers \ {p} : req'[q] = req[q], WithCap(req'[p])
  PROVE  CapsOK'
<1>1. \A q \in Callers : WithCap(req'[q])
  BY DEF GateInv, CapsOK
<1>2. \A q \in Callers : WithCap(req[q])'
  BY <1>1 DEF WithCap
<1> QED BY <1>2 DEF GateInv, CapsOK, BudgetKept, Balanced

LEMMA QuietAges ==
  ASSUME TypeOK, GateInv, NEW p \in Callers,
         UNCHANGED <<now, since, grants>>, sc'.backend = sc.backend, Sources,
         \A q \in Callers \ {p} : req'[q] = req[q], Aged(req'[p])
  PROVE  AgesOK'
<1>1. Member' = Member
  BY DEF Member
<1>2. \A q \in Callers : Aged(req'[q])
  BY DEF GateInv, AgesOK
<1>3. \A q \in Callers : Aged(req[q])'
  BY <1>1, <1>2 DEF Aged
<1>4. \A s \in Stores : Lasts(claims[s].ver, claims[s].until, GrantTTL)'
  BY <1>1 DEF Sources, Lasts
<1>5. \A s \in Stores : \A e \in grants'[s] : Lasts(e.grant.ver, e.until, GrantTTL + Jitter)'
  BY <1>1 DEF GateInv, AgesOK, Lasts
<1> QED BY <1>1, <1>3, <1>4, <1>5 DEF GateInv, AgesOK, Sources

LEMMA QuietFresh ==
  ASSUME TypeOK, GateInv, NEW p \in Callers,
         UNCHANGED <<since, seq, gen, grants, acked>>, sc'.shared = sc.shared,
         \A q \in Callers \ {p} : req'[q] = req[q], Floored(req'[p]), Made(req'[p].gen),
         req'[p].read => req[p].read /\ req'[p].gen = req[p].gen /\ req'[p].floor = req[p].floor,
         req'[p].pc # "store"
  PROVE  FreshOK'
<1>1. Member' = Member
  BY DEF Member
<1>2. \A q \in Callers : Made(req'[q].gen) /\ Floored(req'[q])
  BY DEF GateInv, FreshOK
<1>3. \A q \in Callers : Made(req[q].gen)' /\ Floored(req[q])'
  BY <1>1, <1>2 DEF Made, Floored
<1>4. \A s \in Stores : Made(gen[s])' /\ \A e \in grants'[s] : Made(e.gen)'
  BY DEF GateInv, FreshOK, Made
<1>5. ASSUME NEW g, NEW v, Serves(g, v) PROVE Serves(g, v)'
  BY <1>5 DEF Serves
<1>6. sc.shared => /\ \A e \in grants'["valkey"] : Serves(e.gen, e.grant.ver)'
                   /\ \A q \in Callers : req'[q].pc = "store" => Serves(req[q].gen, req[q].ac.ver)'
  BY <1>5 DEF GateInv, FreshOK, Serves
<1> QED BY <1>1, <1>3, <1>4, <1>6 DEF GateInv, FreshOK

LEMMA QuietStep ==
  ASSUME TypeOK, GateInv, NEW p \in Callers,
         UNCHANGED <<now, since, seq, gen, grants, caps, acked>>,
         sc'.backend = sc.backend, sc'.shared = sc.shared, Sources,
         \A q \in Callers \ {p} : req'[q] = req[q],
         WithCap(req'[p]), Aged(req'[p]), Floored(req'[p]), Made(req'[p].gen),
         req'[p].read => req[p].read /\ req'[p].gen = req[p].gen /\ req'[p].floor = req[p].floor,
         req'[p].pc # "store"
  PROVE  GateInv'
  BY QuietCaps, QuietAges, QuietFresh DEF GateInv

LEMMA AdmitStep ==
  ASSUME TypeOK, GateInv, NEW p \in Callers, Admits(p),
         UNCHANGED <<now, since, seq, gen, grants, flights, clients, caps, acked, edits>>,
         claims' \in [Stores -> [ver : Nat, until : Nat]], session' \in [Sessions -> Cookies], Sources
  PROVE  TypeOK' /\ GateInv'
<1>1. CASE Answer(p)
  <2>1. /\ sc' \in Scenario /\ sc'.backend = sc.backend /\ sc'.shared = sc.shared
        /\ req' \in [Callers -> Handling]
        /\ req'[p] = Idle /\ \A q \in Callers \ {p} : req'[q] = req[q] /\ sc'.asks[q] = sc.asks[q]
    BY <1>1, AnswerTypes DEF Admits
  <2>2. TypeOK'
    BY <2>1, Literals DEF TypeOK
  <2>3. WithCap(Idle) /\ Aged(Idle) /\ Floored(Idle) /\ Made(NoGen)
    BY Literals, MemberFacts DEF WithCap, Aged, Floored, Made, TypeOK
  <2> QED BY <2>1, <2>2, <2>3, QuietStep, Literals
<1>2. CASE Enters(p) /\ UNCHANGED sc
  <2>1. PICK ac, pc : Fitting(ac, pc) /\ Enter(p, ac, pc)
    BY <1>2 DEF Enters
  <2>2. req[p] \in Handling /\ now \in Nat
    BY DEF TypeOK
  <2>3. ac \in Contexts /\ pc \in {"handler", "gen", "spend"}
    BY <2>1 DEF Fitting
  <2>4. /\ req'[p] = [req[p] EXCEPT !.pc = pc, !.ac = ac, !.at = now]
        /\ \A q \in Callers \ {p} : req'[q] = req[q]
        /\ req' \in [Callers -> Handling]
    BY <2>1, <2>2, <2>3 DEF Enter, TypeOK, Handling
  <2>5. /\ req'[p].pc = pc /\ req'[p].ac = ac /\ req'[p].at = now
        /\ req'[p].gen = req[p].gen /\ req'[p].read = req[p].read /\ req'[p].floor = req[p].floor
    BY <2>2, <2>4 DEF Handling
  <2>6. TypeOK'
    BY <1>2, <2>4 DEF TypeOK, Admits
  <2>7. WithCap(req'[p])
    BY <2>1, <2>5 DEF WithCap, Fitting
  <2>8. Aged(req'[p])
    BY <2>1, <2>2, <2>3, <2>5 DEF Aged, Fitting
  <2>9. ~req[p].read /\ Made(req[p].gen)
    BY DEF Admits, GateInv, FreshOK, Floored
  <2>10. Floored(req'[p])
    BY <2>3, <2>5, <2>9 DEF Floored
  <2> QED BY <1>2, <2>3, <2>4, <2>5, <2>6, <2>7, <2>8, <2>9, <2>10, QuietStep
<1> QED BY <1>1, <1>2 DEF Admits

\* Claims and sessions that do not change are still young enough.
LEMMA SameSources ==
  ASSUME TypeOK, GateInv
  PROVE  /\ UNCHANGED claims => \A s \in Stores : Lasts(claims'[s].ver, claims'[s].until, GrantTTL)
         /\ UNCHANGED session => \A s \in Sessions : session'[s].grant.ver <= Member
  BY DEF GateInv, AgesOK

LEMMA AskedTypes ==
  ASSUME TypeOK, NEW p \in Callers, NEW creds, Asks(p, creds)
  PROVE  /\ req[p].pc = "idle" /\ sc.asks[p] # <<>> /\ Asked(p).of \in Sessions
         /\ Store(Home[p]) \in Stores
<1>1. sc.asks[p] # <<>> /\ req[p].pc = "idle"
  BY DEF Asks, At
<1>2. Asked(p) \in Request
  BY <1>1, ScenarioFacts
<1>3. Asked(p).of \in Sessions
  BY <1>2 DEF Request
<1>4. Store(Home[p]) \in Stores
  BY Constants DEF Store, Stores
<1> QED BY <1>1, <1>3, <1>4

LEMMA CookieGateStep ==
  ASSUME TypeOK, GateInv, NEW p \in Callers, CookieGate(p)
  PROVE  TypeOK' /\ GateInv'
<1> DEFINE s == Asked(p).of
<1>1. Asks(p, {"cookie"})
  BY DEF CookieGate
<1>2. req[p].pc = "idle" /\ sc.asks[p] # <<>> /\ s \in Sessions
  BY <1>1, AskedTypes
<1>3. /\ session[s] \in Cookies /\ session[s].grant.ver <= Member
      /\ Cleared(s) \in Cookies /\ Cleared(s).grant.ver <= Member
      /\ Redeemed(p, s) \in Cookies /\ Redeemed(p, s).grant.ver <= Member
  BY <1>2, CookieTypes DEF GateInv
<1>4. ASSUME NEW k \in Cookies, k.grant.ver <= Member, AcceptCookie(p, s, k)
      PROVE  /\ \E c \in Cookies : c.grant.ver <= Member /\ session' = [session EXCEPT ![s] = c]
             /\ Enters(p)
  <2>1. CASE Vetoed(TokenOf(k))
    <3>1. session' = [session EXCEPT ![s] = Cleared(s)] /\ Enter(p, Nobody, "handler")
      BY <1>4, <2>1 DEF AcceptCookie
    <3> QED BY <1>3, <3>1, NobodyFits DEF Enters
  <2>2. CASE ~Vetoed(TokenOf(k))
    <3>1. session' = [session EXCEPT ![s] = k] /\ RefreshSessionGrants(p, TokenOf(k))
      BY <1>4, <2>2 DEF AcceptCookie
    <3>2. Enters(p)
      BY <1>4, <3>1, TokenTypes, RefreshFits
    <3> QED BY <1>4, <3>1, <3>2
  <2> QED BY <2>1, <2>2
<1>5. /\ UNCHANGED session \/ \E c \in Cookies : c.grant.ver <= Member /\ session' = [session EXCEPT ![s] = c]
      /\ Enters(p)
  <2> HIDE DEF s
  <2>1. \/ Enter(p, Nobody, "handler") /\ UNCHANGED session
        \/ AcceptCookie(p, s, Redeemed(p, s))
        \/ AcceptCookie(p, s, session[s])
        \/ session' = [session EXCEPT ![s] = Cleared(s)] /\ Enter(p, Nobody, "handler")
    BY DEF CookieGate, s
  <2>2. CASE Enter(p, Nobody, "handler") /\ UNCHANGED session
    BY <2>2, NobodyFits DEF Enters
  <2>3. CASE AcceptCookie(p, s, Redeemed(p, s)) BY <1>3, <1>4, <2>3
  <2>4. CASE AcceptCookie(p, s, session[s]) BY <1>3, <1>4, <2>4
  <2>5. CASE session' = [session EXCEPT ![s] = Cleared(s)] /\ Enter(p, Nobody, "handler")
    BY <1>3, <2>5, NobodyFits DEF Enters
  <2> QED BY <2>1, <2>2, <2>3, <2>4, <2>5
<1>6. UNCHANGED <<sc, now, since, seq, gen, grants, claims, flights, clients, acked, edits, caps>>
  BY DEF CookieGate, Elsewhere
<1>7. session' \in [Sessions -> Cookies] /\ \A x \in Sessions : session'[x].grant.ver <= Member
  BY <1>2, <1>5, SameSources DEF TypeOK, GateInv, AgesOK
<1>8. claims' \in [Stores -> [ver : Nat, until : Nat]] /\ Sources
  BY <1>6, <1>7, SameSources DEF TypeOK, Sources
<1>9. Admits(p)
  BY <1>2, <1>5, <1>6 DEF Admits
<1> QED BY <1>6, <1>7, <1>8, <1>9, AdmitStep

LEMMA BearerGateStep ==
  ASSUME TypeOK, GateInv, NEW p \in Callers, BearerGate(p)
  PROVE  TypeOK' /\ GateInv'
<1> DEFINE s == Asked(p).of
<1>1. req[p].pc = "idle" /\ sc.asks[p] # <<>> /\ s \in Sessions
  BY AskedTypes DEF BearerGate
<1>2. session[s] \in Cookies /\ session[s].grant.ver <= Member
  BY <1>1, CookieTypes DEF GateInv
<1>3. Fitting(TokenOf(session[s]), "handler")
  <2>1. /\ TokenOf(session[s]) \in Contexts /\ TokenOf(session[s]).ver <= Member
        /\ TokenOf(session[s]).src = "frozen" /\ TokenOf(session[s]).cap = NoCap
    BY <1>2, TokenTypes
  <2> QED BY <2>1 DEF Fitting
<1>4. Answer(p) \/ (Enter(p, TokenOf(session[s]), "handler") /\ UNCHANGED sc)
  BY DEF BearerGate
<1>5. Admits(p)
  BY <1>1, <1>3, <1>4 DEF Admits, Enters
<1>6. UNCHANGED <<now, since, seq, gen, grants, claims, flights, clients, session, caps, acked, edits>>
  BY DEF BearerGate
<1> QED BY <1>5, <1>6, SameSources, AdmitStep DEF Sources, TypeOK

\* A capability that is presented is let in to spend a use.
LEMMA CapFits ==
  ASSUME TypeOK, NEW c \in DOMAIN caps
  PROVE  Fitting(CapContext(c), "spend")
<1>1. /\ CapContext(c) \in Contexts /\ CapContext(c).ver = 0
      /\ CapContext(c).src = "cap" /\ CapContext(c).cap = c /\ c # NoCap
      /\ CapContext(c).ents = caps[c].ents
  BY CapTypes
<1> QED BY <1>1, MemberFacts DEF Fitting

LEMMA CapabilityGateStep ==
  ASSUME TypeOK, GateInv, NEW p \in Callers, CapabilityGate(p) \/ TransferGet(p)
  PROVE  TypeOK' /\ GateInv'
<1>1. req[p].pc = "idle" /\ sc.asks[p] # <<>>
  BY DEF CapabilityGate, TransferGet, Asks, At
<1>2. PICK c \in DOMAIN caps :
         \/ Enter(p, CapContext(c), "spend") /\ UNCHANGED sc
         \/ RefreshSessionGrants(p, CapContext(c)) /\ UNCHANGED sc
         \/ Enter(p, Nobody, "handler") /\ UNCHANGED sc
         \/ Answer(p)
  BY DEF CapabilityGate, TransferGet, Presentable
<1>3. ASSUME RefreshSessionGrants(p, CapContext(c)) PROVE Enters(p)
  BY <1>3, CapTypes, RefreshFits, MemberFacts
<1>4. Admits(p)
  BY <1>1, <1>2, <1>3, CapFits, NobodyFits DEF Admits, Enters
<1>5. UNCHANGED <<now, since, seq, gen, grants, claims, flights, clients, session, caps, acked, edits>>
  BY DEF CapabilityGate, TransferGet
<1> QED BY <1>4, <1>5, SameSources, AdmitStep DEF Sources, TypeOK

LEMMA APITokenGateStep ==
  ASSUME TypeOK, GateInv, NEW p \in Callers, APITokenGate(p)
  PROVE  TypeOK' /\ GateInv'
<1> DEFINE st == Store(Home[p])
<1>1. req[p].pc = "idle" /\ sc.asks[p] # <<>> /\ st \in Stores
  BY AskedTypes DEF APITokenGate
<1>2. ASSUME NEW v \in Nat, v <= Member, NEW ents \in SUBSET Rights,
             v < Member => now < since[v + 2] + GrantTTL + Jitter
      PROVE  Fitting(PATAuthContext(ents, v), "handler")
  <2>1. ContextSubjectKind(sc.pat.kind) \in SubjectKinds /\ sc.pat.iat \in Nat
    BY KindTypes, ScenarioFacts
  <2>2. PATAuthContext(ents, v) \in Contexts
    BY <1>2, <2>1, Constants DEF PATAuthContext, Contexts, NoCap
  <2>3. /\ PATAuthContext(ents, v).ver = v /\ PATAuthContext(ents, v).src = "pat"
        /\ PATAuthContext(ents, v).cap = NoCap
    BY DEF PATAuthContext
  <2> QED BY <1>2, <2>2, <2>3 DEF Fitting
<1>3. Member \in Nat /\ ~(Member < Member) /\ BoundRoles(Subject) \subseteq Rights
      /\ Ents(Subject, Member) \subseteq Rights
  BY MemberFacts, GrantTypes, Constants DEF GateInv
<1>4. Fitting(PATAuthContext(Ents(Subject, Member), Member), "handler")
      /\ Fitting(PATAuthContext(BoundRoles(Subject), Member), "handler")
  BY <1>2, <1>3
<1>5. ASSUME ClaimsCached(Home[p]), NEW v, v = claims[st].ver
      PROVE  Fitting(PATAuthContext(Ents(Subject, v), v), "handler")
  <2>1. claims[st].ver \in Nat /\ claims[st].until \in Nat /\ claims[st].until > now
    BY <1>1, <1>5 DEF TypeOK, ClaimsCached
  <2>2. Lasts(claims[st].ver, claims[st].until, GrantTTL)
    BY <1>1 DEF GateInv, AgesOK
  <2>3. v <= Member /\ (v < Member => now < since[v + 2] + GrantTTL + Jitter)
    <3>1. v < Member => since[v + 2] \in Nat
      BY <1>5, <2>1, MemberFacts
    <3>2. Member \in Nat /\ now \in Nat
      BY MemberFacts DEF TypeOK
    <3>3. v <= Member /\ (v < Member => claims[st].until <= since[v + 2] + GrantTTL)
      BY <1>5, <2>2 DEF Lasts
    <3> QED BY <2>1, <3>1, <3>2, <3>3, Constants
  <2>4. Ents(Subject, v) \subseteq Rights
    BY <1>5, <2>1, <2>3, GrantTypes, Constants DEF GateInv
  <2> QED BY <1>2, <1>5, <2>1, <2>3, <2>4
<1>6. Enters(p)
  <2>1. \/ Enter(p, Nobody, "handler")
        \/ ClaimsCached(Home[p]) /\ \E v : v = claims[st].ver /\ Enter(p, PATAuthContext(Ents(Subject, v), v), "handler")
        \/ Enter(p, PATAuthContext(Ents(Subject, Member), Member), "handler")
        \/ Enter(p, PATAuthContext(BoundRoles(Subject), Member), "handler")
    BY DEF APITokenGate
  <2> QED BY <1>4, <1>5, <2>1, NobodyFits DEF Enters
<1>7. UNCHANGED claims \/ claims' = [claims EXCEPT ![st] = [ver |-> Member, until |-> now + GrantTTL]]
  BY DEF APITokenGate
<1>8. Lasts(Member, now + GrantTTL, GrantTTL)
  <2>1. Member \in Nat /\ now \in Nat
    BY MemberFacts DEF TypeOK
  <2> QED BY <2>1, Constants DEF Lasts
<1>9. /\ claims' \in [Stores -> [ver : Nat, until : Nat]]
      /\ \A x \in Stores : Lasts(claims'[x].ver, claims'[x].until, GrantTTL)
  <2>1. CASE UNCHANGED claims BY <2>1, SameSources DEF TypeOK
  <2>2. CASE claims' = [claims EXCEPT ![st] = [ver |-> Member, until |-> now + GrantTTL]]
    <3>1. claims' \in [Stores -> [ver : Nat, until : Nat]]
      <4>1. [ver |-> Member, until |-> now + GrantTTL] \in [ver : Nat, until : Nat]
        BY <1>3, Constants DEF TypeOK
      <4> QED BY <2>2, <4>1 DEF TypeOK
    <3>2. \A x \in Stores : claims'[x] = claims[x] \/ (claims'[x].ver = Member /\ claims'[x].until = now + GrantTTL)
      BY <1>1, <2>2 DEF TypeOK
    <3> QED BY <1>8, <3>1, <3>2 DEF GateInv, AgesOK
  <2> QED BY <1>7, <2>1, <2>2
<1>10. UNCHANGED <<sc, now, since, seq, gen, grants, flights, clients, session, caps, acked, edits>>
  BY DEF APITokenGate
<1>11. Admits(p)
  BY <1>1, <1>6, <1>10 DEF Admits
<1> QED BY <1>9, <1>10, <1>11, SameSources, AdmitStep DEF Sources, TypeOK

-----------------------------------------------------------------------------
(* The refresh of a session's grants                                       *)

\* A request before its answer: it has been asked, and has no capability.
LEMMA Refreshing ==
  ASSUME TypeOK, GateInv, NEW p \in Callers, req[p].pc \in {"gen", "lookup", "wait", "resolve", "store"}
  PROVE  /\ req[p] \in Handling /\ req[p].ac \in Contexts /\ req[p].ac.cap = NoCap /\ req[p].ac.ver <= Member
         /\ req[p].gen \in Gens /\ sc.asks[p] # <<>> /\ req[p].at <= now /\ now \in Nat
         /\ Store(Home[p]) \in Stores /\ Made(req[p].gen) /\ req[p].read \in BOOLEAN
         /\ req[p].floor \in Nat /\ Floored(req[p])
<1>1. req[p] \in Handling /\ sc.asks[p] # <<>> /\ now \in Nat
  BY DEF TypeOK
<1>2. req[p].ac \in Contexts /\ req[p].gen \in Gens /\ req[p].read \in BOOLEAN /\ req[p].floor \in Nat
  BY <1>1 DEF Handling
<1>3. req[p].ac.cap = NoCap /\ req[p].ac.ver <= Member /\ req[p].at <= now
  BY DEF GateInv, CapsOK, WithCap, AgesOK, Aged
<1>4. Store(Home[p]) \in Stores
  BY Constants DEF Store, Stores
<1>5. Made(req[p].gen) /\ Floored(req[p])
  BY DEF GateInv, FreshOK
<1> QED BY <1>1, <1>2, <1>3, <1>4, <1>5

LEMMA OverlayTypes ==
  ASSUME NEW ac \in Contexts, NEW g \in Grants
  PROVE  /\ Overlay(ac, g) \in Contexts /\ Overlay(ac, g).ver = g.ver /\ Overlay(ac, g).src = "live"
         /\ Overlay(ac, g).cap = ac.cap
  BY DEF Overlay, Contexts, Grants

LEMMA SameSession ==
  ASSUME TypeOK, GateInv, UNCHANGED <<claims, session>>
  PROVE  Sources
  BY SameSources DEF Sources

LEMMA GrantGenerationStep ==
  ASSUME TypeOK, GateInv, NEW p \in Callers, GrantGeneration(p)
  PROVE  TypeOK' /\ GateInv'
<1>1. UNCHANGED <<sc, now, since, seq, gen, grants, claims, flights, clients, acked, edits, session, caps>>
  BY DEF GrantGeneration, Elsewhere
<1>2. req[p].pc = "gen"
  BY DEF GrantGeneration, At
<1>3. PICK ok \in BOOLEAN :
        req' = [req EXCEPT ![p].pc = "lookup", ![p].read = ok, ![p].floor = acked,
                           ![p].gen = IF ok THEN gen[Store(Home[p])] ELSE NoGen]
  BY DEF GrantGeneration, Outcomes
<1>4. PICK g \in Gens : g = (IF ok THEN gen[Store(Home[p])] ELSE NoGen) /\ Made(g)
  BY <1>2, Refreshing DEF TypeOK, Gens, GateInv, FreshOK, Made
<1>5. req'[p] = [req[p] EXCEPT !.pc = "lookup", !.read = ok, !.floor = acked, !.gen = g]
      /\ \A q \in Callers \ {p} : req'[q] = req[q]
  BY <1>3, <1>4 DEF TypeOK
<1>6. /\ req'[p] \in Handling /\ req'[p].pc = "lookup" /\ (req'[p].read <=> ok) /\ req'[p].floor = acked
      /\ req'[p].gen = g /\ req'[p].ac = req[p].ac /\ req'[p].at = req[p].at
  <2>1. req[p] \in Handling /\ acked \in Nat
    BY DEF TypeOK
  <2> QED BY <1>5, <2>1 DEF Handling
<1>7. TypeOK'
  <2>1. req' \in [Callers -> Handling]
    BY <1>3, <1>6 DEF TypeOK
  <2> QED BY <1>1, <1>2, <1>5, <2>1 DEF TypeOK
<1>8. WithCap(req'[p]) /\ Aged(req'[p])
  <2>1. req[p].ac.src = "frozen"
    BY <1>2 DEF GateInv, AgesOK, Aged
  <2> QED BY <1>2, <1>6, <2>1, Refreshing DEF WithCap, Aged
<1>9. CapsOK' /\ AgesOK'
  BY <1>1, <1>5, <1>8, SameSession, QuietCaps, QuietAges
<1>10. FreshOK'
  <2>1. Member' = Member
    BY <1>1 DEF Member
  <2>2. Floored(req'[p]) /\ Made(req'[p].gen)
    BY <1>4, <1>6 DEF Floored, TypeOK
  <2>3. \A q \in Callers : Made(req'[q].gen) /\ Floored(req'[q])
    BY <1>5, <2>2 DEF GateInv, FreshOK
  <2>4. \A q \in Callers : Made(req[q].gen)' /\ Floored(req[q])'
    BY <1>1, <2>1, <2>3 DEF Made, Floored
  <2>5. \A s \in Stores : Made(gen[s])' /\ \A e \in grants'[s] : Made(e.gen)'
    BY <1>1 DEF GateInv, FreshOK, Made
  <2>6. ASSUME sc.shared, NEW h, NEW v, Serves(h, v) PROVE Serves(h, v)'
    <3>1. ok /\ g = h => h = gen["valkey"]
      BY <1>4, <2>6 DEF Store
    <3> QED BY <1>1, <1>5, <1>6, <2>6, <3>1 DEF Serves
  <2>7. sc.shared => /\ \A e \in grants'["valkey"] : Serves(e.gen, e.grant.ver)'
                     /\ \A q \in Callers : req'[q].pc = "store" => Serves(req[q].gen, req[q].ac.ver)'
    <3>1. \A q \in Callers : req'[q].pc = "store" => req'[q] = req[q] /\ req[q].pc = "store"
      BY <1>5, <1>6
    <3> QED BY <1>1, <2>6, <3>1 DEF GateInv, FreshOK, Serves
  <2> QED BY <1>1, <2>1, <2>4, <2>5, <2>7 DEF GateInv, FreshOK
<1> QED BY <1>7, <1>9, <1>10 DEF GateInv

LEMMA CacheHitStep ==
  ASSUME TypeOK, GateInv, NEW p \in Callers, CacheHit(p)
  PROVE  TypeOK' /\ GateInv'
<1>1. UNCHANGED <<sc, now, since, seq, gen, grants, claims, flights, clients, acked, edits, session, caps>>
  BY DEF CacheHit, Elsewhere
<1>2. req[p].pc = "lookup"
  BY DEF CacheHit, At
<1>3. PICK e \in Cached(p) : req' = [req EXCEPT ![p].pc = "handler", ![p].at = now, ![p].ac = Overlay(@, e.grant)]
  BY DEF CacheHit
<1>4. e \in grants[Store(Home[p])] /\ e.gen = req[p].gen /\ e.until > now
  BY <1>3 DEF Cached
<1>5. e \in Entries /\ Lasts(e.grant.ver, e.until, GrantTTL + Jitter)
  BY <1>2, <1>4, Refreshing DEF TypeOK, GateInv, AgesOK
<1>6. e.grant \in Grants /\ e.until \in Nat /\ e.grant.ver \in Nat
  BY <1>5 DEF Entries, Grants
<1>7. PICK a \in Contexts : a = Overlay(req[p].ac, e.grant) /\ a.ver = e.grant.ver /\ a.src = "live" /\ a.cap = NoCap
  BY <1>2, <1>6, OverlayTypes, Refreshing
<1>8. req'[p] = [req[p] EXCEPT !.pc = "handler", !.at = now, !.ac = a]
      /\ \A q \in Callers \ {p} : req'[q] = req[q]
  BY <1>3, <1>7 DEF TypeOK
<1>9. /\ req'[p] \in Handling /\ req'[p].pc = "handler" /\ req'[p].read = req[p].read
      /\ req'[p].floor = req[p].floor /\ req'[p].gen = req[p].gen /\ req'[p].ac = a /\ req'[p].at = now
  <2>1. req[p] \in Handling /\ now \in Nat
    BY DEF TypeOK
  <2> QED BY <1>8, <2>1 DEF Handling
<1>10. TypeOK'
  <2>1. req' \in [Callers -> Handling]
    BY <1>3, <1>9 DEF TypeOK
  <2> QED BY <1>1, <1>2, <1>8, <2>1 DEF TypeOK
<1>11. WithCap(req'[p])
  BY <1>7, <1>9 DEF WithCap
<1>12. Aged(req'[p])
  <2>1. /\ e.grant.ver <= Member
        /\ e.grant.ver < Member => e.until <= since[e.grant.ver + 2] + (GrantTTL + Jitter)
    BY <1>5 DEF Lasts
  <2>2. e.grant.ver < Member => since[e.grant.ver + 2] \in Nat
    BY <1>6, MemberFacts
  <2>3. e.grant.ver < Member => now < since[e.grant.ver + 2] + GrantTTL + Jitter
    BY <1>2, <1>4, <1>6, <2>1, <2>2, Constants, Refreshing
  <2> QED BY <1>2, <1>7, <1>9, <2>1, <2>3, Refreshing DEF Aged
<1>13. req[p].read => e.grant.ver >= req[p].floor
  <2>1. CASE sc.shared
    <3>1. Serves(e.gen, e.grant.ver)
      BY <1>4, <2>1 DEF GateInv, FreshOK, Store
    <3> QED BY <1>4, <3>1 DEF Serves
  <2>2. CASE ~sc.shared
    <3>1. acked = 0 /\ (req[p].read => req[p].floor <= acked)
      BY <2>2 DEF GateInv, FreshOK, Floored
    <3> QED BY <1>2, <1>6, <3>1, Refreshing
  <2> QED BY <2>1, <2>2
<1>14. Floored(req'[p]) /\ Made(req'[p].gen)
  BY <1>2, <1>7, <1>9, <1>13, Refreshing DEF Floored
<1> QED BY <1>1, <1>8, <1>9, <1>10, <1>11, <1>12, <1>14, SameSession, QuietStep

LEMMA CacheMissStep ==
  ASSUME TypeOK, GateInv, NEW p \in Callers, CacheMiss(p)
  PROVE  TypeOK' /\ GateInv'
<1>1. UNCHANGED <<sc, now, since, seq, gen, grants, claims, clients, acked, edits, session, caps>>
  BY DEF CacheMiss
<1>2. req[p].pc = "lookup"
  BY DEF CacheMiss, At
<1>3. PICK pc \in {"wait", "resolve"} : req' = [req EXCEPT ![p].pc = pc]
  BY DEF CacheMiss, Goto
<1>4. flights' \subseteq [replica : Replicas, gen : Gens]
  <2>1. [replica |-> Home[p], gen |-> req[p].gen] \in [replica : Replicas, gen : Gens]
    BY <1>2, Refreshing, Constants
  <2> QED BY <2>1 DEF CacheMiss, TypeOK
<1>5. req'[p] = [req[p] EXCEPT !.pc = pc] /\ \A q \in Callers \ {p} : req'[q] = req[q]
  BY <1>3 DEF TypeOK
<1>6. /\ req'[p] \in Handling /\ req'[p].pc = pc /\ req'[p].read = req[p].read
      /\ req'[p].floor = req[p].floor /\ req'[p].gen = req[p].gen /\ req'[p].ac = req[p].ac
      /\ req'[p].at = req[p].at
  <2>1. req[p] \in Handling
    BY DEF TypeOK
  <2> QED BY <1>5, <2>1 DEF Handling
<1>7. TypeOK'
  <2>1. req' \in [Callers -> Handling]
    BY <1>3, <1>6 DEF TypeOK
  <2> QED BY <1>1, <1>2, <1>4, <1>5, <2>1 DEF TypeOK
<1>8. WithCap(req'[p]) /\ Aged(req'[p])
  <2>1. req[p].ac.src = "frozen"
    BY <1>2 DEF GateInv, AgesOK, Aged
  <2> QED BY <1>2, <1>3, <1>6, <2>1, Refreshing DEF WithCap, Aged
<1>9. Floored(req'[p]) /\ Made(req'[p].gen)
  BY <1>2, <1>3, <1>6, Refreshing DEF Floored
<1> QED BY <1>1, <1>3, <1>5, <1>6, <1>7, <1>8, <1>9, SameSession, QuietStep

LEMMA ResolveStep ==
  ASSUME TypeOK, GateInv, NEW p \in Callers, Resolve(p)
  PROVE  TypeOK' /\ GateInv'
<1>1. UNCHANGED <<sc, now, since, seq, gen, grants, claims, flights, clients, acked, edits, session, caps>>
  BY DEF Resolve, Elsewhere
<1>2. req[p].pc = "resolve"
  BY DEF Resolve, At
<1>3. Member \in Nat /\ Member <= Member /\ req[p].ac.bind \in Binds
  BY <1>2, Refreshing, MemberFacts DEF Contexts
<1>4. PICK g \in Grants : g = Grant(req[p].ac.bind, Member) /\ g.ver = Member
  BY <1>3, GrantTypes DEF GateInv
<1>5. PICK a \in Contexts : a = Overlay(req[p].ac, g) /\ a.ver = Member /\ a.src = "live" /\ a.cap = NoCap
  BY <1>2, <1>4, OverlayTypes, Refreshing
<1>6. req' = [req EXCEPT ![p].pc = "store", ![p].at = now, ![p].ac = a]
  BY <1>4, <1>5 DEF Resolve
<1>7. req'[p] = [req[p] EXCEPT !.pc = "store", !.at = now, !.ac = a]
      /\ \A q \in Callers \ {p} : req'[q] = req[q]
  BY <1>6 DEF TypeOK
<1>8. /\ req'[p] \in Handling /\ req'[p].pc = "store" /\ req'[p].read = req[p].read
      /\ req'[p].floor = req[p].floor /\ req'[p].gen = req[p].gen /\ req'[p].ac = a /\ req'[p].at = now
  <2>1. req[p] \in Handling /\ now \in Nat
    BY DEF TypeOK
  <2> QED BY <1>7, <2>1 DEF Handling
<1>9. TypeOK'
  <2>1. req' \in [Callers -> Handling]
    BY <1>6, <1>8 DEF TypeOK
  <2> QED BY <1>1, <1>2, <1>7, <2>1 DEF TypeOK
<1>10. WithCap(req'[p]) /\ Aged(req'[p])
  BY <1>2, <1>3, <1>5, <1>8, Refreshing DEF WithCap, Aged
<1>11. CapsOK' /\ AgesOK'
  BY <1>1, <1>7, <1>10, SameSession, QuietCaps, QuietAges
<1>12. acked \in Nat /\ acked <= Member /\ \A q \in Callers : req[q].read => req[q].floor \in Nat /\ req[q].floor <= acked
  BY DEF GateInv, FreshOK, Floored, TypeOK, Handling
<1>13. FreshOK'
  <2>1. Member' = Member
    BY <1>1 DEF Member
  <2>2. Floored(req'[p]) /\ Made(req'[p].gen)
    BY <1>2, <1>3, <1>5, <1>8, <1>12, Refreshing DEF Floored
  <2>3. \A q \in Callers : Made(req'[q].gen) /\ Floored(req'[q])
    BY <1>7, <2>2 DEF GateInv, FreshOK
  <2>4. \A q \in Callers : Made(req[q].gen)' /\ Floored(req[q])'
    BY <1>1, <2>1, <2>3 DEF Made, Floored
  <2>5. \A s \in Stores : Made(gen[s])' /\ \A e \in grants'[s] : Made(e.gen)'
    BY <1>1 DEF GateInv, FreshOK, Made
  <2>6. ASSUME NEW h, NEW v, Serves(h, v) PROVE Serves(h, v)'
    BY <1>1, <1>7, <1>8, <2>6 DEF Serves
  <2>7. Serves(req[p].gen, Member)
    BY <1>3, <1>12 DEF Serves
  <2>8. sc.shared => /\ \A e \in grants'["valkey"] : Serves(e.gen, e.grant.ver)'
                     /\ \A q \in Callers : req'[q].pc = "store" => Serves(req[q].gen, req[q].ac.ver)'
    <3>1. ASSUME sc.shared, NEW q \in Callers, req'[q].pc = "store"
          PROVE  Serves(req[q].gen, req[q].ac.ver)'
      <4>1. Serves(req'[q].gen, req'[q].ac.ver)
        BY <1>5, <1>7, <1>8, <2>7, <3>1 DEF GateInv, FreshOK
      <4> QED BY <1>1, <1>7, <1>8, <4>1 DEF Serves
    <3> QED BY <1>1, <2>6, <3>1 DEF GateInv, FreshOK
  <2> QED BY <1>1, <2>1, <2>4, <2>5, <2>8 DEF GateInv, FreshOK
<1> QED BY <1>9, <1>11, <1>13 DEF GateInv

\* A flight lands: its leader and all who wait for it go on, and who had read the
\* generation has read it still.
Lands(p, q) ==
  /\ req'[q] \in Handling /\ req'[q].read = req[q].read
  /\ req'[q].floor = req[q].floor /\ req'[q].gen = req[q].gen
  /\ WithCap(req'[q]) /\ Aged(req'[q]) /\ Floored(req'[q])
  /\ req'[q].pc # "idle" => req[q].pc # "idle"
  /\ req'[q].pc = "store" => req'[q] = req[q]

LEMMA FollowerFacts ==
  ASSUME TypeOK, NEW p \in Callers, NEW q \in Callers, q \in Followers(p)
  PROVE  req[q].pc = "wait" /\ req[q].gen = req[p].gen /\ Home[q] = Home[p]
  BY DEF Followers, At

LEMMA LandStep ==
  ASSUME TypeOK, GateInv, NEW p \in Callers,
         UNCHANGED <<sc, now, since, seq, gen, claims, clients, session, caps, acked, edits>>,
         flights' = flights \ Flight(p), DOMAIN req' = Callers, req' = [q \in Callers |-> req'[q]],
         \A q \in Callers : Lands(p, q),
         grants' \in [Stores -> SUBSET Entries],
         \A s \in Stores : \A e \in grants'[s] : /\ Lasts(e.grant.ver, e.until, GrantTTL + Jitter)
                                                 /\ Made(e.gen),
         sc.shared => \A e \in grants'["valkey"] : Serves(e.gen, e.grant.ver)
  PROVE  TypeOK' /\ GateInv'
<1>1. TypeOK'
  <2>1. req' \in [Callers -> Handling]
    BY DEF Lands
  <2>2. \A q \in Callers : req'[q].pc # "idle" => sc.asks[q] # <<>>
    BY DEF Lands, TypeOK
  <2> QED BY <2>1, <2>2 DEF TypeOK
<1>2. Member' = Member
  BY DEF Member
<1>3. CapsOK'
  <2>1. \A q \in Callers : WithCap(req[q])'
    BY DEF Lands, WithCap
  <2> QED BY <2>1 DEF GateInv, CapsOK, BudgetKept, Balanced
<1>4. AgesOK'
  <2>1. \A q \in Callers : Aged(req[q])'
    BY <1>2 DEF Lands, Aged
  <2>2. \A s \in Stores : \A e \in grants'[s] : Lasts(e.grant.ver, e.until, GrantTTL + Jitter)'
    BY <1>2 DEF Lasts
  <2>3. \A s \in Stores : Lasts(claims[s].ver, claims[s].until, GrantTTL)'
    BY <1>2 DEF GateInv, AgesOK, Lasts
  <2> QED BY <1>2, <2>1, <2>2, <2>3 DEF GateInv, AgesOK
<1>5. FreshOK'
  <2>1. \A q \in Callers : Floored(req[q])'
    BY <1>2 DEF Lands, Floored
  <2>2. \A q \in Callers : Made(req[q].gen)'
    BY DEF Lands, GateInv, FreshOK, Made
  <2>3. \A s \in Stores : Made(gen[s])' /\ \A e \in grants'[s] : Made(e.gen)'
    BY DEF GateInv, FreshOK, Made
  <2>4. ASSUME NEW h, NEW v, Serves(h, v) PROVE Serves(h, v)'
    BY <2>4 DEF Serves, Lands
  <2>5. ASSUME sc.shared, NEW q \in Callers, req'[q].pc = "store"
        PROVE  Serves(req[q].gen, req[q].ac.ver)'
    <3>1. Serves(req'[q].gen, req'[q].ac.ver)
      BY <2>5 DEF Lands, GateInv, FreshOK
    <3> QED BY <3>1 DEF Serves, Lands
  <2>6. sc.shared => \A e \in grants'["valkey"] : Serves(e.gen, e.grant.ver)'
    BY <2>4
  <2> QED BY <1>2, <2>1, <2>2, <2>3, <2>5, <2>6 DEF GateInv, FreshOK
<1> QED BY <1>1, <1>3, <1>4, <1>5 DEF GateInv

\* Who has nothing to do with a landing.
LEMMA StaysPut ==
  ASSUME TypeOK, GateInv, NEW p \in Callers, NEW q \in Callers, req'[q] = req[q]
  PROVE  Lands(p, q)
  BY DEF Lands, TypeOK, GateInv, CapsOK, AgesOK, FreshOK

LEMMA FailOpenStep ==
  ASSUME TypeOK, GateInv, NEW p \in Callers, FailOpen(p)
  PROVE  TypeOK' /\ GateInv'
<1>1. /\ UNCHANGED <<sc, now, since, seq, gen, grants, claims, clients, session, caps, acked, edits>>
      /\ flights' = flights \ Flight(p) /\ req[p].pc = "resolve"
  BY DEF FailOpen, At
<1>2. req' = [q \in Callers |-> IF q = p \/ q \in Followers(p)
                                    THEN [req[q] EXCEPT !.pc = "handler"] ELSE req[q]]
  BY DEF FailOpen
<1>3. ASSUME NEW q \in Callers PROVE Lands(p, q)
  <2>1. CASE q = p \/ q \in Followers(p)
    <3>1. req'[q] = [req[q] EXCEPT !.pc = "handler"] /\ req[q] \in Handling
      BY <1>2, <2>1 DEF TypeOK
    <3>2. req[q].pc \in {"wait", "resolve"}
      BY <1>1, <2>1, FollowerFacts
    <3>3. /\ req'[q] \in Handling /\ req'[q].read = req[q].read /\ req'[q].pc = "handler"
          /\ req'[q].floor = req[q].floor /\ req'[q].gen = req[q].gen
          /\ req'[q].ac = req[q].ac /\ req'[q].at = req[q].at
      BY <3>1 DEF Handling
    <3>4. req[q].ac.src = "frozen"
      BY <3>2 DEF GateInv, AgesOK, Aged
    <3>5. WithCap(req'[q]) /\ Aged(req'[q]) /\ Floored(req'[q])
      BY <3>2, <3>3, <3>4, Refreshing DEF WithCap, Aged, Floored
    <3> QED BY <3>2, <3>3, <3>5 DEF Lands
  <2>2. CASE ~(q = p \/ q \in Followers(p))
    BY <1>2, <2>2, StaysPut
  <2> QED BY <2>1, <2>2
<1>4. /\ grants' \in [Stores -> SUBSET Entries]
      /\ \A s \in Stores : \A e \in grants'[s] : /\ Lasts(e.grant.ver, e.until, GrantTTL + Jitter)
                                                 /\ Made(e.gen)
      /\ sc.shared => \A e \in grants'["valkey"] : Serves(e.gen, e.grant.ver)
  BY <1>1 DEF TypeOK, GateInv, AgesOK, FreshOK
<1>5. DOMAIN req' = Callers /\ req' = [q \in Callers |-> req'[q]]
  BY <1>2
<1> QED BY <1>1, <1>3, <1>4, <1>5, LandStep

LEMMA StoreGrantStep ==
  ASSUME TypeOK, GateInv, NEW p \in Callers, StoreGrant(p)
  PROVE  TypeOK' /\ GateInv'
<1>1. /\ UNCHANGED <<sc, now, since, seq, gen, claims, clients, session, caps, acked, edits>>
      /\ flights' = flights \ Flight(p) /\ req[p].pc = "store"
  BY DEF StoreGrant, At
<1>2. /\ req[p] \in Handling /\ req[p].ac \in Contexts /\ req[p].ac.cap = NoCap /\ req[p].ac.ver <= Member
      /\ req[p].gen \in Gens /\ now \in Nat /\ Store(Home[p]) \in Stores /\ Made(req[p].gen)
  BY <1>1, Refreshing
<1>3. PICK g \in Grants : g = [ents |-> req[p].ac.ents, ver |-> req[p].ac.ver, bind |-> req[p].ac.bind]
                          /\ g.ver = req[p].ac.ver
  <2>1. req[p].ac.ents \in SUBSET Rights /\ req[p].ac.ver \in Nat /\ req[p].ac.bind \in Binds
    BY <1>2 DEF Contexts
  <2>2. [ents |-> req[p].ac.ents, ver |-> req[p].ac.ver, bind |-> req[p].ac.bind] \in Grants
    BY <2>1 DEF Grants
  <2> QED BY <2>2
<1>4. /\ req[p].ac.src = "live" /\ req[p].at = now /\ g.ver \in Nat /\ g.ver <= Member
      /\ g.ver < Member => since[g.ver + 2] \in Nat /\ now <= since[g.ver + 2]
  <2>1. /\ req[p].ac.src = "live" /\ req[p].at = now
        /\ req[p].ac.ver < Member => now <= since[req[p].ac.ver + 2]
    BY <1>1 DEF GateInv, AgesOK, Aged
  <2> QED BY <1>2, <1>3, <2>1, MemberFacts DEF Grants
<1>5. sc.shared => Serves(req[p].gen, g.ver)
  BY <1>1, <1>3 DEF GateInv, FreshOK
<1>6. req' = [q \in Callers |->
                IF q = p THEN [req[q] EXCEPT !.pc = "handler"]
                ELSE IF q \in Followers(p)
                     THEN [req[q] EXCEPT !.pc = "handler", !.at = now, !.ac = Overlay(@, g)]
                ELSE req[q]]
  BY <1>3 DEF StoreGrant
<1>7. ASSUME NEW q \in Callers PROVE Lands(p, q)
  <2>1. CASE q = p
    <3>1. req'[q] = [req[q] EXCEPT !.pc = "handler"]
      BY <1>6, <2>1
    <3>2. /\ req'[q] \in Handling /\ req'[q].read = req[q].read /\ req'[q].pc = "handler"
          /\ req'[q].floor = req[q].floor /\ req'[q].gen = req[q].gen
          /\ req'[q].ac = req[q].ac /\ req'[q].at = req[q].at
      BY <1>2, <2>1, <3>1 DEF Handling
    <3>3. Aged(req[q]) /\ Floored(req[q])
      BY DEF GateInv, AgesOK, FreshOK
    <3>4. WithCap(req'[q]) /\ Aged(req'[q]) /\ Floored(req'[q])
      BY <1>1, <1>2, <2>1, <3>2, <3>3 DEF WithCap, Aged, Floored
    <3> QED BY <1>1, <2>1, <3>2, <3>4 DEF Lands
  <2>2. CASE q # p /\ q \in Followers(p)
    <3>1. req[q].pc = "wait" /\ req[q].gen = req[p].gen
      BY <2>2, FollowerFacts
    <3>2. PICK a \in Contexts : a = Overlay(req[q].ac, g) /\ a.ver = g.ver /\ a.src = "live" /\ a.cap = NoCap
      BY <3>1, OverlayTypes, Refreshing
    <3>3. req'[q] = [req[q] EXCEPT !.pc = "handler", !.at = now, !.ac = a] /\ req[q] \in Handling
      BY <1>6, <2>2, <3>2 DEF TypeOK
    <3>4. /\ req'[q] \in Handling /\ req'[q].read = req[q].read /\ req'[q].pc = "handler"
          /\ req'[q].floor = req[q].floor /\ req'[q].gen = req[q].gen
          /\ req'[q].ac = a /\ req'[q].at = now
      BY <1>2, <3>3 DEF Handling
    <3>5. WithCap(req'[q])
      BY <3>2, <3>4 DEF WithCap
    <3>6. Aged(req'[q])
      BY <1>2, <1>4, <3>2, <3>4, Constants DEF Aged
    <3>7. req[q].read => g.ver >= req[q].floor
      <4>1. CASE sc.shared BY <1>5, <3>1, <4>1 DEF Serves
      <4>2. CASE ~sc.shared
        <5>1. acked = 0 /\ (req[q].read => req[q].floor <= acked)
          BY <4>2 DEF GateInv, FreshOK, Floored
        <5> QED BY <1>4, <3>1, <5>1, Refreshing
      <4> QED BY <4>1, <4>2
    <3>8. Floored(req'[q])
      BY <3>1, <3>2, <3>4, <3>7, Refreshing DEF Floored
    <3> QED BY <3>1, <3>4, <3>5, <3>6, <3>8 DEF Lands
  <2>3. CASE q # p /\ q \notin Followers(p)
    BY <1>6, <2>3, StaysPut
  <2> QED BY <2>1, <2>2, <2>3
<1>8. /\ grants' \in [Stores -> SUBSET Entries]
      /\ \A s \in Stores : \A e \in grants'[s] : /\ Lasts(e.grant.ver, e.until, GrantTTL + Jitter)
                                                 /\ Made(e.gen)
      /\ sc.shared => \A e \in grants'["valkey"] : Serves(e.gen, e.grant.ver)
  <2>1. CASE UNCHANGED grants
    BY <2>1 DEF TypeOK, GateInv, AgesOK, FreshOK
  <2>2. CASE ~UNCHANGED grants
    <3>1. PICK ttl \in GrantTTL - Jitter .. GrantTTL + Jitter :
             grants' = [grants EXCEPT ![Store(Home[p])] =
                           {e \in @ : e.gen # req[p].gen}
                           \cup {[gen |-> req[p].gen, grant |-> g, until |-> now + ttl]}]
      BY <1>3, <2>2 DEF StoreGrant
    <3>2. now + ttl \in Nat /\ now + ttl <= now + (GrantTTL + Jitter)
      BY <1>2, Constants
    <3>3. PICK new \in Entries : new = [gen |-> req[p].gen, grant |-> g, until |-> now + ttl]
                                 /\ new.gen = req[p].gen /\ new.grant = g /\ new.until = now + ttl
      <4>1. [gen |-> req[p].gen, grant |-> g, until |-> now + ttl] \in Entries
        BY <1>2, <3>2 DEF Entries
      <4> QED BY <4>1
    <3>4. Lasts(new.grant.ver, new.until, GrantTTL + Jitter) /\ Made(new.gen)
      BY <1>2, <1>4, <3>2, <3>3, Constants DEF Lasts
    <3>5. \A s \in Stores : \A e \in grants'[s] : e \in grants[s] \/ e = new
      BY <1>2, <3>1, <3>3 DEF TypeOK
    <3>6. grants' \in [Stores -> SUBSET Entries]
      BY <1>2, <3>1, <3>3 DEF TypeOK
    <3>7. "valkey" \in Stores
      BY DEF Stores
    <3>8. \A s \in Stores : \A e \in grants'[s] : /\ Lasts(e.grant.ver, e.until, GrantTTL + Jitter)
                                                  /\ Made(e.gen)
      BY <3>4, <3>5 DEF GateInv, AgesOK, FreshOK
    <3>9. sc.shared => \A e \in grants'["valkey"] : Serves(e.gen, e.grant.ver)
      BY <1>5, <3>3, <3>5, <3>7 DEF GateInv, FreshOK
    <3> QED BY <3>6, <3>8, <3>9
  <2> QED BY <2>1, <2>2
<1>9. DOMAIN req' = Callers /\ req' = [q \in Callers |-> req'[q]]
  BY <1>6
<1> QED BY <1>1, <1>7, <1>8, <1>9, LandStep

-----------------------------------------------------------------------------
(* Capabilities                                                            *)

LEMMA MinFacts ==
  ASSUME NEW a \in Nat, NEW b \in Nat
  PROVE  Min({a, b}) \in {a, b} /\ Min({a, b}) <= a /\ Min({a, b}) <= b
<1>1. \E x \in {a, b} : \A y \in {a, b} : x <= y
  <2>1. CASE a <= b BY <2>1
  <2>2. CASE ~(a <= b) BY <2>2
  <2> QED BY <2>1, <2>2
<1> QED BY <1>1 DEF Min

LEMMA MaxFacts ==
  ASSUME NEW a \in Nat, NEW b \in Nat
  PROVE  Max({a, b}) \in {a, b} /\ Max({a, b}) >= a /\ Max({a, b}) >= b
<1>1. \E x \in {a, b} : \A y \in {a, b} : x >= y
  <2>1. CASE a <= b BY <2>1
  <2>2. CASE ~(a <= b) BY <2>2
  <2> QED BY <2>1, <2>2
<1> QED BY <1>1 DEF Max

\* A request is answered, and only the capabilities may have changed.
LEMMA AnswerStep ==
  ASSUME TypeOK, GateInv, NEW p \in Callers, req[p].pc # "idle", Answer(p),
         UNCHANGED <<now, since, seq, gen, grants, claims, flights, clients, session, acked, edits>>,
         caps' \in Seq(Capabilities)
  PROVE  /\ TypeOK' /\ AgesOK' /\ FreshOK'
         /\ req'[p] = Idle /\ \A q \in Callers \ {p} : req'[q] = req[q]
<1>1. sc.asks[p] # <<>>
  BY DEF TypeOK
<1>2. /\ sc' \in Scenario /\ sc'.backend = sc.backend /\ sc'.shared = sc.shared
      /\ req' \in [Callers -> Handling]
      /\ req'[p] = Idle /\ \A q \in Callers \ {p} : req'[q] = req[q] /\ sc'.asks[q] = sc.asks[q]
  BY <1>1, AnswerTypes
<1>3. TypeOK'
  BY <1>2, Literals DEF TypeOK
<1>4. Aged(Idle) /\ Floored(Idle) /\ Made(NoGen)
  BY Literals, MemberFacts DEF Aged, Floored, Made, TypeOK
<1>5. Sources
  BY SameSources DEF Sources
<1>6. AgesOK' /\ FreshOK'
  BY <1>2, <1>4, <1>5, QuietAges, QuietFresh, Literals
<1> QED BY <1>2, <1>3, <1>6

LEMMA ServeStep ==
  ASSUME TypeOK, GateInv, NEW p \in Callers, Serve(p)
  PROVE  TypeOK' /\ GateInv'
<1>1. /\ req[p].pc # "idle" /\ Answer(p)
      /\ UNCHANGED <<now, since, seq, gen, grants, claims, flights, clients, session, acked, edits>>
      /\ UNCHANGED caps
  BY DEF Serve, At
<1>2. caps' \in Seq(Capabilities)
  BY <1>1 DEF TypeOK
<1>3. /\ TypeOK' /\ AgesOK' /\ FreshOK'
      /\ req'[p] = Idle /\ \A q \in Callers \ {p} : req'[q] = req[q]
  BY <1>1, <1>2, AnswerStep
<1>4. CapsOK'
  <2>1. WithCap(Idle)
    BY Literals DEF WithCap
  <2> QED BY <1>1, <1>3, <2>1, QuietCaps
<1> QED BY <1>3, <1>4 DEF GateInv

\* The capability of a request that is about to spend.
LEMMA SpentCap ==
  ASSUME TypeOK, GateInv, NEW p \in Callers, req[p].pc = "spend"
  PROVE  req[p].ac.cap \in DOMAIN caps /\ caps[req[p].ac.cap] \in Capabilities /\ WithCap(req[p])
<1>1. WithCap(req[p])
  BY DEF GateInv, CapsOK
<1>2. req[p].ac.cap \in DOMAIN caps
  BY <1>1 DEF WithCap
<1> QED BY <1>1, <1>2, CapTypes

\* The counter of one capability moves, and its balance is kept.
LEMMA CounterMoves ==
  ASSUME TypeOK, GateInv, NEW c \in DOMAIN caps, NEW k \in Capabilities,
         caps' = [caps EXCEPT ![c] = k], Balanced(k),
         k.ents = caps[c].ents, k.root = caps[c].root,
         \A q \in Callers : WithCap(req'[q])
  PROVE  caps' \in Seq(Capabilities) /\ CapsOK'
<1>1. caps \in Seq(Capabilities)
  BY DEF TypeOK
<1>2. /\ caps' \in Seq(Capabilities) /\ DOMAIN caps' = DOMAIN caps /\ caps'[c] = k
      /\ \A d \in DOMAIN caps \ {c} : caps'[d] = caps[d]
  BY <1>1
<1>3. \A d \in DOMAIN caps : caps'[d].ents = caps[d].ents /\ caps'[d].root = caps[d].root
  BY <1>2
<1>4. \A q \in Callers : WithCap(req[q])'
  BY <1>2, <1>3 DEF WithCap
<1>5. \A d \in DOMAIN caps' : Balanced(caps'[d])
  BY <1>2 DEF GateInv, CapsOK, BudgetKept
<1>6. BudgetKept'
  BY <1>5 DEF BudgetKept, Balanced, NoCounter
<1>7. \A d \in DOMAIN caps' : caps'[d].ents \subseteq caps'[d].root
  BY <1>2, <1>3 DEF GateInv, CapsOK
<1> QED BY <1>2, <1>4, <1>6, <1>7 DEF CapsOK

LEMMA SpendStep ==
  ASSUME TypeOK, GateInv, NEW p \in Callers, Spend(p)
  PROVE  TypeOK' /\ GateInv'
<1>1. /\ req[p].pc = "spend"
      /\ UNCHANGED <<now, since, seq, gen, grants, claims, flights, clients, session, acked, edits>>
  BY DEF Spend, At
<1>2. PICK c \in DOMAIN caps : c = req[p].ac.cap /\ caps[c] \in Capabilities /\ WithCap(req[p])
  BY <1>1, SpentCap
<1>3. WithCap(Idle) /\ \A q \in Callers : WithCap(req[q])
  BY Literals DEF WithCap, GateInv, CapsOK
<1>4. Balanced(caps[c]) /\ caps \in Seq(Capabilities)
  BY DEF GateInv, CapsOK, BudgetKept, TypeOK
<1>5. CASE Answer(p) /\ UNCHANGED caps
  <2>1. caps' \in Seq(Capabilities)
    BY <1>5 DEF TypeOK
  <2>2. /\ TypeOK' /\ AgesOK' /\ FreshOK'
        /\ req'[p] = Idle /\ \A q \in Callers \ {p} : req'[q] = req[q]
    BY <1>1, <1>5, <2>1, AnswerStep
  <2> QED BY <1>3, <1>5, <2>2, QuietCaps DEF GateInv
<1>6. ASSUME caps[c].left \in 1 .. UsesCap
      PROVE  /\ caps[c].left \in 0 .. NoCounter /\ caps[c].served \in Nat /\ caps[c].budget \in Nat
             /\ caps[c].lost \in Nat /\ caps[c].left # NoCounter /\ caps[c].left - 1 \in 0 .. NoCounter
             /\ caps[c].left - 1 # NoCounter
             /\ caps[c].left + caps[c].served + caps[c].lost = caps[c].budget
  <2>1. /\ caps[c].left \in 0 .. NoCounter /\ caps[c].served \in Nat /\ caps[c].budget \in Nat
        /\ caps[c].lost \in Nat
    BY <1>2 DEF Capabilities
  <2>2. caps[c].left # NoCounter /\ caps[c].left - 1 \in 0 .. NoCounter /\ caps[c].left - 1 # NoCounter
    BY <1>6, <2>1, Constants
  <2> QED BY <1>4, <2>1, <2>2 DEF Balanced
<1>7. CASE /\ caps[c].left \in 1 .. UsesCap
           /\ caps' = [caps EXCEPT ![c].left = @ - 1, ![c].lost = @ + 1]
           /\ Answer(p)
  <2> DEFINE k == [caps[c] EXCEPT !.left = @ - 1, !.lost = @ + 1]
  <2>1. k \in Capabilities
    <3>1. caps[c].left - 1 \in 0 .. NoCounter /\ caps[c].lost + 1 \in Nat
      BY <1>6, <1>7
    <3> QED BY <1>2, <3>1 DEF Capabilities
  <2>2. /\ k.left = caps[c].left - 1 /\ k.lost = caps[c].lost + 1 /\ k.served = caps[c].served
        /\ k.budget = caps[c].budget /\ k.ents = caps[c].ents /\ k.root = caps[c].root
    BY <1>2 DEF Capabilities
  <2>3. caps' = [caps EXCEPT ![c] = k]
    BY <1>4, <1>7
  <2> HIDE DEF k
  <2>4. Balanced(k)
    <3>1. PICK l \in 0 .. NoCounter, v \in Nat, o \in Nat, b \in Nat :
             /\ l = caps[c].left /\ v = caps[c].served /\ o = caps[c].lost /\ b = caps[c].budget
             /\ l + v + o = b /\ l - 1 # NoCounter
      BY <1>6, <1>7
    <3>2. (l - 1) + v + (o + 1) = b
      BY <3>1, Constants
    <3> QED BY <2>2, <3>1, <3>2 DEF Balanced
  <2>5. caps' \in Seq(Capabilities)
    BY <1>4, <2>1, <2>3
  <2>6. /\ TypeOK' /\ AgesOK' /\ FreshOK'
        /\ req'[p] = Idle /\ \A q \in Callers \ {p} : req'[q] = req[q]
    BY <1>1, <1>7, <2>5, AnswerStep
  <2>7. \A q \in Callers : WithCap(req'[q])
    BY <1>3, <2>6
  <2>8. CapsOK'
    BY <2>1, <2>2, <2>3, <2>4, <2>7, CounterMoves
  <2> QED BY <2>6, <2>8 DEF GateInv
<1>8. CASE /\ caps[c].left \in 1 .. UsesCap
           /\ caps' = [caps EXCEPT ![c].left = @ - 1, ![c].served = @ + 1]
           /\ req' = Goto(p, "handler") /\ UNCHANGED sc
  <2> DEFINE k == [caps[c] EXCEPT !.left = @ - 1, !.served = @ + 1]
  <2>1. k \in Capabilities
    <3>1. caps[c].left - 1 \in 0 .. NoCounter /\ caps[c].served + 1 \in Nat
      BY <1>6, <1>8
    <3> QED BY <1>2, <3>1 DEF Capabilities
  <2>2. /\ k.left = caps[c].left - 1 /\ k.served = caps[c].served + 1 /\ k.lost = caps[c].lost
        /\ k.budget = caps[c].budget /\ k.ents = caps[c].ents /\ k.root = caps[c].root
    BY <1>2 DEF Capabilities
  <2>3. caps' = [caps EXCEPT ![c] = k]
    BY <1>4, <1>8
  <2> HIDE DEF k
  <2>4. Balanced(k)
    BY <1>6, <1>8, <2>2 DEF Balanced
  <2>5. req'[p] = [req[p] EXCEPT !.pc = "handler"] /\ req[p] \in Handling
        /\ \A q \in Callers \ {p} : req'[q] = req[q]
    BY <1>8 DEF TypeOK, Goto
  <2>6. /\ req'[p] \in Handling /\ req'[p].pc = "handler" /\ req'[p].read = req[p].read
        /\ req'[p].floor = req[p].floor /\ req'[p].gen = req[p].gen /\ req'[p].ac = req[p].ac
        /\ req'[p].at = req[p].at
    BY <2>5 DEF Handling
  <2>7. req[p].ac.cap # NoCap /\ req[p].ac.src = "cap"
    BY <1>1, <1>2 DEF WithCap
  <2>8. WithCap(req'[p])
    BY <1>2, <2>6, <2>7 DEF WithCap
  <2>9. caps' \in Seq(Capabilities) /\ CapsOK'
    BY <1>3, <2>1, <2>2, <2>3, <2>4, <2>5, <2>8, CounterMoves
  <2>10. TypeOK'
    <3>1. req' \in [Callers -> Handling]
      BY <1>8, <2>6 DEF TypeOK, Goto
    <3> QED BY <1>1, <1>8, <2>5, <2>9, <3>1 DEF TypeOK
  <2>11. Aged(req'[p])
    <3>1. Aged(req[p])
      BY DEF GateInv, AgesOK
    <3> QED BY <2>6, <2>7, <3>1 DEF Aged
  <2>12. ~req'[p].read /\ Made(req'[p].gen)
    BY <1>1, <2>6 DEF GateInv, FreshOK, Floored
  <2>13. Floored(req'[p])
    BY <2>6, <2>12 DEF Floored
  <2>14. Sources
    BY <1>1, SameSources DEF Sources
  <2>15. AgesOK'
    BY <1>1, <1>8, <2>5, <2>11, <2>14, QuietAges
  <2>16. FreshOK'
    BY <1>1, <1>8, <2>5, <2>6, <2>12, <2>13, QuietFresh
  <2> QED BY <2>9, <2>10, <2>15, <2>16 DEF GateInv
<1> QED BY <1>2, <1>5, <1>7, <1>8 DEF Spend

\* What a mint that is not refused makes.
LEMMA MintTypes ==
  ASSUME TypeOK, GateInv, NEW p \in Callers, req[p].pc = "handler", ~MintRefused(p)
  PROVE  \E cap \in Capabilities :
            /\ cap = MintedCap(p) /\ cap.served = 0 /\ cap.lost = 0 /\ cap.left = cap.budget /\ cap.left \in 1 .. UsesCap
            /\ cap.ents \subseteq cap.root
<1> DEFINE want == Asked(p).want
           ac == req[p].ac
           destructive == want.ents \cap sc.destructive # {}
           uses == IF destructive \/ want.uses = 0 THEN 1 ELSE Min({want.uses, UsesCap})
           ttl == IF destructive THEN 1 ELSE CapTTL
           root == IF ac.cap = NoCap THEN ac.ents ELSE caps[ac.cap].root
           kind == ContextSubjectKind(ac.kind)
<1>1. want.ents \subseteq Rights /\ want.uses \in Nat /\ want.url \in BOOLEAN
  <2>1. Asked(p) \in Request
    BY ScenarioFacts DEF TypeOK
  <2>2. Asked(p).want \in [ents : SUBSET Rights, uses : Nat, url : BOOLEAN]
    BY <2>1 DEF Request
  <2> QED BY <2>2
<1>2. ac \in Contexts /\ now \in Nat
  BY DEF TypeOK, Handling
<1>3. ac.kind \in SubjectKinds /\ ac.ents \subseteq Rights
  BY <1>2 DEF Contexts
<1>4. uses \in 1 .. UsesCap
  BY <1>1, Constants, MinFacts
<1>5. ttl \in Nat
  BY Constants
<1>6. kind \in SubjectKinds
  BY <1>3, KindTypes
<1>7. want.ents \subseteq ac.ents
  BY DEF MintRefused
<1>8. root \subseteq Rights /\ want.ents \subseteq root
  <2>1. CASE ac.cap = NoCap BY <1>3, <1>7, <2>1
  <2>2. CASE ac.cap # NoCap
    <3>1. ac.cap \in DOMAIN caps /\ ac.ents \subseteq caps[ac.cap].ents
      BY <2>2 DEF GateInv, CapsOK, WithCap
    <3>2. caps[ac.cap].ents \subseteq caps[ac.cap].root
      BY <3>1 DEF GateInv, CapsOK
    <3>3. caps[ac.cap].root \subseteq Rights
      BY <3>1, CapTypes DEF Capabilities
    <3> QED BY <1>7, <2>2, <3>1, <3>2, <3>3
  <2> QED BY <2>1, <2>2
<1>9. MintedCap(p) = [ents |-> want.ents, kind |-> kind, iat |-> now, exp |-> now + ttl,
         until |-> now + ttl, url |-> want.url, left |-> uses, budget |-> uses, served |-> 0, lost |-> 0,
         record |-> want.url, root |-> root]
  BY DEF MintedCap
<1> HIDE DEF want, ac, uses, ttl, root, kind
<1>10. now + ttl \in Nat /\ uses \in 0 .. NoCounter /\ uses \in Nat
  BY <1>2, <1>4, <1>5, Constants
<1>11. MintedCap(p) \in Capabilities
  BY <1>1, <1>2, <1>6, <1>8, <1>9, <1>10 DEF Capabilities
<1>12. /\ MintedCap(p).served = 0 /\ MintedCap(p).lost = 0 /\ MintedCap(p).left = uses /\ MintedCap(p).budget = uses
       /\ MintedCap(p).ents = want.ents /\ MintedCap(p).root = root
  BY <1>9
<1> QED BY <1>4, <1>8, <1>11, <1>12

LEMMA MintStep ==
  ASSUME TypeOK, GateInv, NEW p \in Callers, Mint(p)
  PROVE  TypeOK' /\ GateInv'
<1>1. /\ req[p].pc = "handler" /\ Answer(p)
      /\ UNCHANGED <<now, since, seq, gen, grants, claims, flights, clients, session, acked, edits>>
  BY DEF Mint, At
<1>2. \/ UNCHANGED caps
      \/ \E made \in Capabilities :
            /\ caps' = Append(caps, made) /\ made.ents \subseteq made.root
            /\ Balanced(made)
  <2>1. CASE MintRefused(p) BY <2>1 DEF Mint
  <2>2. CASE ~MintRefused(p)
    <3>1. PICK cap \in Capabilities :
            /\ cap = MintedCap(p) /\ cap.served = 0 /\ cap.lost = 0 /\ cap.left = cap.budget /\ cap.left \in 1 .. UsesCap
            /\ cap.ents \subseteq cap.root
      BY <1>1, <2>2, MintTypes
    <3>2. PICK counted \in Outcomes("set"), recorded \in Outcomes("set") :
            caps' = IF cap.url /\ ~recorded THEN caps
                    ELSE Append(caps, [cap EXCEPT !.left = IF counted THEN @ ELSE NoCounter])
      BY <2>2, <3>1 DEF Mint
    <3>3. PICK left \in {cap.left, NoCounter} : left = IF counted THEN cap.left ELSE NoCounter
      OBVIOUS
    <3>4. PICK made \in Capabilities : made = [cap EXCEPT !.left = left]
            /\ made.left = left /\ made.served = 0 /\ made.lost = 0 /\ made.budget = cap.left
            /\ made.ents = cap.ents /\ made.root = cap.root
      <4>1. left \in 0 .. NoCounter
        BY <3>1, <3>3, Constants
      <4>2. [cap EXCEPT !.left = left] \in Capabilities
        BY <3>1, <4>1 DEF Capabilities
      <4> QED BY <3>1, <4>2 DEF Capabilities
    <3>5. Balanced(made)
      BY <3>1, <3>3, <3>4, Constants DEF Balanced
    <3>6. caps' = caps \/ caps' = Append(caps, made)
      BY <3>2, <3>3, <3>4
    <3> QED BY <3>1, <3>4, <3>5, <3>6
  <2> QED BY <2>1, <2>2
<1>3. caps' \in Seq(Capabilities)
  <2>1. caps \in Seq(Capabilities)
    BY DEF TypeOK
  <2>2. \A made \in Capabilities : Append(caps, made) \in Seq(Capabilities)
    BY <2>1
  <2> QED BY <1>2, <2>1, <2>2
<1>4. /\ TypeOK' /\ AgesOK' /\ FreshOK'
      /\ req'[p] = Idle /\ \A q \in Callers \ {p} : req'[q] = req[q]
  BY <1>1, <1>3, AnswerStep
<1>5. WithCap(Idle)
  BY Literals DEF WithCap
<1>6. CASE UNCHANGED caps
  BY <1>4, <1>5, <1>6, QuietCaps DEF GateInv
<1>7. CASE ~UNCHANGED caps
  <2>1. PICK made \in Capabilities :
            /\ caps' = Append(caps, made) /\ made.ents \subseteq made.root
            /\ Balanced(made)
    BY <1>2, <1>7
  <2>2. caps \in Seq(Capabilities)
    BY DEF TypeOK
  <2>3. /\ \A d \in DOMAIN caps : d \in DOMAIN caps' /\ caps'[d] = caps[d]
        /\ \A d \in DOMAIN caps' : d \in DOMAIN caps \/ caps'[d] = made
    BY <2>1, <2>2
  <2>4. ASSUME NEW q \in Callers PROVE WithCap(req[q])'
    <3>1. CASE q = p
      <4>1. Idle.pc = "idle" /\ Idle.ac.cap = NoCap
        BY Literals
      <4> QED BY <1>4, <3>1, <4>1 DEF WithCap, NoCap
    <3>2. CASE q # p
      <4>1. WithCap(req[q])
        BY DEF GateInv, CapsOK
      <4> QED BY <1>4, <2>3, <3>2, <4>1 DEF WithCap
    <3> QED BY <3>1, <3>2
  <2>5. BudgetKept'
    <3>1. \A d \in DOMAIN caps' : Balanced(caps'[d])
      BY <2>1, <2>3 DEF GateInv, CapsOK, BudgetKept
    <3> QED BY <3>1 DEF BudgetKept, Balanced, NoCounter
  <2>6. \A d \in DOMAIN caps' : caps'[d].ents \subseteq caps'[d].root
    BY <2>1, <2>3 DEF GateInv, CapsOK
  <2>7. CapsOK'
    BY <2>4, <2>5, <2>6 DEF CapsOK
  <2> QED BY <1>4, <2>7 DEF GateInv
<1> QED BY <1>6, <1>7

-----------------------------------------------------------------------------
(* The membership changes                                                  *)

\* A request whose write the upstream has committed.
Written(q) ==
  /\ req'[q] \in Handling /\ req'[q].pc = "reply" /\ req[q].pc # "idle"
  /\ req'[q].ac = Nobody /\ req'[q].gen = NoGen /\ ~req'[q].read
  /\ req'[q].floor = Len(since) /\ req'[q].at = 0

LEMMA VersionStep ==
  ASSUME TypeOK, GateInv, since' = Append(since, now), Len(since) < Len(sc.backend),
         UNCHANGED <<sc, now, seq, gen, grants, claims, flights, clients, session, caps, acked, edits>>,
         req' \in [Callers -> Handling],
         \A q \in Callers : req'[q] = req[q] \/ Written(q)
  PROVE  TypeOK' /\ GateInv'
<1>1. now \in Nat /\ Member \in Nat /\ Len(since) = Member + 1 /\ since \in Seq(Nat)
  BY MemberFacts DEF TypeOK
<1>2. /\ since' \in Seq(Nat) /\ since' # <<>> /\ Len(since') = Len(since) + 1
      /\ \A i \in 1 .. Len(since) : since'[i] = since[i] /\ since[i] \in Nat
      /\ since'[Len(since) + 1] = now
  BY <1>1
<1>3. Member' = Member + 1
  BY <1>1, <1>2 DEF Member
<1>4. ASSUME NEW v \in Nat
      PROVE  /\ v < Member => since'[v + 2] = since[v + 2] /\ since[v + 2] \in Nat
             /\ v = Member => since'[v + 2] = now
  BY <1>1, <1>2
<1>5. TypeOK'
  <2>1. \A q \in Callers : req'[q].pc # "idle" => sc.asks[q] # <<>>
    BY DEF TypeOK, Written
  <2> QED BY <1>2, <2>1 DEF TypeOK
<1>6. CapsOK'
  <2>1. ASSUME NEW q \in Callers PROVE WithCap(req[q])'
    <3>1. CASE req'[q] = req[q] BY <3>1 DEF GateInv, CapsOK, WithCap
    <3>2. CASE Written(q) BY <3>2, Literals DEF Written, WithCap, NoCap
    <3> QED BY <3>1, <3>2
  <2> QED BY <2>1 DEF GateInv, CapsOK, BudgetKept, Balanced
<1>7. ASSUME NEW v \in Nat, NEW until \in Nat, NEW life \in Nat, Lasts(v, until, life)
      PROVE  Lasts(v, until, life)'
  <2>1. v <= Member /\ until <= IF v < Member THEN since[v + 2] + life ELSE now + life
    BY <1>7 DEF Lasts
  <2>2. v <= Member + 1
    BY <1>1, <2>1
  <2>3. v < Member + 1 => until <= since'[v + 2] + life
    BY <1>1, <1>4, <2>1
  <2> QED BY <1>1, <1>3, <2>1, <2>2, <2>3 DEF Lasts
<1>8. AgesOK'
  <2>1. ASSUME NEW q \in Callers PROVE Aged(req[q])'
    <3>1. CASE req'[q] = req[q]
      <4>1. req[q].ac.ver \in Nat /\ req[q].at \in Nat
        BY DEF TypeOK, Handling, Contexts
      <4>2. Aged(req[q])
        BY DEF GateInv, AgesOK
      <4>3. req'[q].ac.ver <= Member' /\ req'[q].at <= now'
        BY <1>1, <1>3, <3>1, <4>1, <4>2 DEF Aged
      <4>4. req'[q].pc \in {"gen", "lookup", "wait", "resolve"} => req'[q].ac.src = "frozen"
        BY <3>1, <4>2 DEF Aged
      <4>5. req'[q].pc = "store" => /\ req'[q].ac.src = "live" /\ req'[q].at = now'
                                    /\ req'[q].ac.ver < Member' => now' <= since'[req'[q].ac.ver + 2]
        BY <1>1, <1>3, <1>4, <3>1, <4>1, <4>2 DEF Aged
      <4>6. req'[q].pc \in {"handler", "store"} /\ req'[q].ac.src \in {"live", "pat"} /\ req'[q].ac.ver < Member'
              => req'[q].at < since'[req'[q].ac.ver + 2] + GrantTTL + Jitter
        <5>1. SUFFICES ASSUME req[q].pc \in {"handler", "store"}, req[q].ac.src \in {"live", "pat"},
                              req[q].ac.ver < Member + 1
                       PROVE  req[q].at < since'[req[q].ac.ver + 2] + GrantTTL + Jitter
          BY <1>3, <3>1
        <5>2. CASE req[q].ac.ver < Member
          <6>1. req[q].at < since[req[q].ac.ver + 2] + GrantTTL + Jitter
            BY <4>2, <5>1, <5>2 DEF Aged
          <6> QED BY <1>4, <4>1, <5>2, <6>1
        <5>3. CASE req[q].ac.ver = Member
          <6>1. req[q].at <= now
            BY <4>2 DEF Aged
          <6> QED BY <1>1, <1>4, <4>1, <5>3, <6>1, Constants
        <5>4. req[q].ac.ver < Member \/ req[q].ac.ver = Member
          BY <1>1, <4>1, <5>1
        <5> QED BY <5>2, <5>3, <5>4
      <4> QED BY <4>3, <4>4, <4>5, <4>6 DEF Aged
    <3>2. CASE Written(q) BY <1>1, <1>3, <3>2, Literals DEF Written, Aged
    <3> QED BY <3>1, <3>2
  <2>2. ASSUME NEW s \in Stores, NEW e \in grants'[s]
        PROVE  Lasts(e.grant.ver, e.until, GrantTTL + Jitter)'
    <3>1. e \in Entries /\ Lasts(e.grant.ver, e.until, GrantTTL + Jitter)
      BY <2>2 DEF TypeOK, GateInv, AgesOK
    <3>2. e.grant.ver \in Nat /\ e.until \in Nat /\ GrantTTL + Jitter \in Nat
      BY <3>1, Constants DEF Entries, Grants
    <3> QED BY <1>7, <3>1, <3>2
  <2>3. ASSUME NEW s \in Stores PROVE Lasts(claims[s].ver, claims[s].until, GrantTTL)'
    <3>1. PICK v \in Nat, until \in Nat : v = claims[s].ver /\ until = claims[s].until
      BY DEF TypeOK
    <3>2. Lasts(v, until, GrantTTL)
      BY <3>1 DEF GateInv, AgesOK
    <3>3. Lasts(v, until, GrantTTL)'
      BY <1>7, <3>2, Constants
    <3> QED BY <3>1, <3>3 DEF Lasts
  <2>4. \A s \in Sessions : session'[s].grant.ver <= Member'
    <3>1. \A s \in Sessions : session[s].grant.ver \in Nat /\ session[s].grant.ver <= Member
      BY DEF TypeOK, Cookies, Grants, GateInv, AgesOK
    <3> QED BY <1>1, <1>3, <3>1
  <2>5. Len(since') <= Len(sc'.backend)
    <3>1. Len(sc.backend) \in Nat
      BY DEF TypeOK, Scenario
    <3> QED BY <1>1, <1>2, <3>1
  <2> QED BY <2>1, <2>2, <2>3, <2>4, <2>5 DEF AgesOK
<1>9. FreshOK'
  <2>1. acked' <= Member' /\ (~sc'.shared => acked' = 0)
    BY <1>1, <1>3 DEF GateInv, FreshOK, TypeOK
  <2>2. ASSUME NEW q \in Callers PROVE Made(req[q].gen)' /\ Floored(req[q])'
    <3>1. CASE req'[q] = req[q]
      <4>1. req[q].floor \in Nat
        BY DEF TypeOK, Handling
      <4>2. Made(req[q].gen) /\ Floored(req[q])
        BY DEF GateInv, FreshOK
      <4> QED BY <1>1, <1>3, <3>1, <4>1, <4>2 DEF Made, Floored
    <3>2. CASE Written(q) BY <1>1, <1>3, <3>2 DEF Written, Made, Floored
    <3> QED BY <3>1, <3>2
  <2>3. \A s \in Stores : Made(gen[s])' /\ \A e \in grants'[s] : Made(e.gen)'
    BY DEF GateInv, FreshOK, Made
  <2>4. ASSUME NEW h, NEW v, Serves(h, v) PROVE Serves(h, v)'
    BY <2>4 DEF Serves, Written
  <2>5. ASSUME sc.shared, NEW q \in Callers, req'[q].pc = "store"
        PROVE  Serves(req[q].gen, req[q].ac.ver)'
    <3>1. req'[q] = req[q]
      BY <2>5 DEF Written
    <3>2. Serves(req[q].gen, req[q].ac.ver)
      BY <2>5, <3>1 DEF GateInv, FreshOK
    <3> QED BY <3>1, <3>2 DEF Serves, Written
  <2>6. sc.shared => \A e \in grants'["valkey"] : Serves(e.gen, e.grant.ver)'
    BY <2>4 DEF GateInv, FreshOK
  <2> QED BY <2>1, <2>2, <2>3, <2>5, <2>6 DEF FreshOK
<1> QED BY <1>5, <1>6, <1>8, <1>9 DEF GateInv

LEMMA CommitWriteStep ==
  ASSUME TypeOK, GateInv, NEW p \in Callers, CommitWrite(p)
  PROVE  TypeOK' /\ GateInv'
<1>1. /\ since' = Append(since, now) /\ Len(since) < Len(sc.backend) /\ req[p].pc = "handler"
      /\ UNCHANGED <<sc, now, seq, gen, grants, claims, flights, clients, session, caps, acked, edits>>
  BY DEF CommitWrite, At
<1>2. PICK r \in Handling : /\ r = [Idle EXCEPT !.pc = "reply", !.floor = Len(since)]
                            /\ r.pc = "reply" /\ r.ac = Nobody /\ r.gen = NoGen /\ ~r.read
                            /\ r.floor = Len(since) /\ r.at = 0
  <2>1. [Idle EXCEPT !.pc = "reply", !.floor = Len(since)] \in Handling
    BY Literals, MemberFacts DEF Handling
  <2> QED BY <2>1, Literals DEF Handling
<1>3. req' = [req EXCEPT ![p] = r]
  BY <1>2 DEF CommitWrite
<1>4. req' \in [Callers -> Handling] /\ req'[p] = r /\ \A q \in Callers \ {p} : req'[q] = req[q]
  BY <1>3 DEF TypeOK
<1>5. \A q \in Callers : req'[q] = req[q] \/ Written(q)
  BY <1>1, <1>2, <1>4 DEF Written
<1> QED BY <1>1, <1>4, <1>5, VersionStep

LEMMA BackendWriteStep ==
  ASSUME TypeOK, GateInv, BackendWrite
  PROVE  TypeOK' /\ GateInv'
<1>1. /\ since' = Append(since, now) /\ Len(since) < Len(sc.backend) /\ UNCHANGED req
      /\ UNCHANGED <<sc, now, seq, gen, grants, claims, flights, clients, session, caps, acked, edits>>
  BY DEF BackendWrite
<1>2. req' \in [Callers -> Handling] /\ \A q \in Callers : req'[q] = req[q]
  BY <1>1 DEF TypeOK
<1> QED BY <1>1, <1>2, VersionStep

-----------------------------------------------------------------------------
(* The generation moves                                                    *)

\* What was made stays made, and the next generation of a replica is new.
LEMMA MadeFacts ==
  ASSUME TypeOK, NEW r \in Replicas, seq' = [seq EXCEPT ![r] = @ + 1]
  PROVE  /\ \A g \in Gens : Made(g) => Made(g)' /\ g # <<r, seq[r] + 1>>
         /\ <<r, seq[r] + 1>> \in Gens /\ \A g : g = <<r, seq[r] + 1>> => Made(g)'
<1>1. seq \in [Replicas -> Nat] /\ seq[r] \in Nat /\ seq'[r] = seq[r] + 1
  BY DEF TypeOK
<1>2. ASSUME NEW g \in Gens, Made(g)
      PROVE  Made(g)' /\ g # <<r, seq[r] + 1>>
  <2>1. CASE g = NoGen BY <2>1 DEF Made, NoGen
  <2>2. CASE g # NoGen
    <3>1. g[1] \in Replicas /\ g[2] \in Nat /\ g[2] <= seq[g[1]]
      BY <1>2, <2>2 DEF Made, Gens
    <3>2. seq[g[1]] \in Nat /\ seq'[g[1]] \in Nat /\ seq[g[1]] <= seq'[g[1]]
      BY <1>1, <3>1
    <3>3. g[2] <= seq'[g[1]]
      BY <3>1, <3>2
    <3>4. g # <<r, seq[r] + 1>>
      BY <1>1, <3>1
    <3> QED BY <3>3, <3>4 DEF Made
  <2> QED BY <2>1, <2>2
<1>3. <<r, seq[r] + 1>> \in Gens
  BY <1>1 DEF Gens
<1>4. ASSUME NEW g, g = <<r, seq[r] + 1>> PROVE Made(g)'
  <2>1. g[1] = r /\ g[2] = seq[r] + 1
    BY <1>4
  <2> QED BY <1>1, <2>1 DEF Made
<1> QED BY <1>2, <1>3, <1>4

LEMMA BumpGrantGenerationStep ==
  ASSUME TypeOK, GateInv, NEW p \in Callers, BumpGrantGeneration(p)
  PROVE  TypeOK' /\ GateInv'
<1> DEFINE r == Home[p]
           made == <<r, seq[r] + 1>>
<1>1. /\ req[p].pc = "reply" /\ Answer(p) /\ seq' = [seq EXCEPT ![r] = @ + 1]
      /\ UNCHANGED <<now, since, grants, claims, flights, clients, session, caps, edits>>
  BY DEF BumpGrantGeneration, At
<1>2. r \in Replicas /\ Store(r) \in Stores /\ "valkey" \in Stores
  BY Constants DEF Store, Stores
<1>3. /\ seq \in [Replicas -> Nat] /\ seq' \in [Replicas -> Nat] /\ seq'[r] = seq[r] + 1
      /\ gen \in [Stores -> Gens] /\ acked \in Nat /\ req[p].floor \in Nat /\ Member \in Nat
  <2>1. seq \in [Replicas -> Nat] /\ gen \in [Stores -> Gens] /\ acked \in Nat /\ req[p] \in Handling
    BY DEF TypeOK
  <2>2. req[p].floor \in Nat
    BY <2>1 DEF Handling
  <2>3. seq' \in [Replicas -> Nat] /\ seq'[r] = seq[r] + 1
    BY <1>1, <1>2, <2>1
  <2> QED BY <2>1, <2>2, <2>3, MemberFacts
<1>4. /\ \A g \in Gens : Made(g) => Made(g)' /\ g # made
      /\ made \in Gens /\ \A g : g = made => Made(g)'
  BY <1>1, <1>2, MadeFacts
<1>5. \/ UNCHANGED <<gen, acked>>
      \/ gen' = [gen EXCEPT ![Store(r)] = made] /\ ~sc.shared /\ UNCHANGED acked
      \/ gen' = [gen EXCEPT ![Store(r)] = made] /\ sc.shared /\ acked' = Max({acked, req[p].floor})
  <2>1. PICK ok \in Outcomes("bump") :
              /\ gen' = IF ok THEN [gen EXCEPT ![Store(r)] = <<r, seq'[r]>>] ELSE gen
              /\ acked' = IF ok /\ sc.shared THEN Max({acked, req[p].floor}) ELSE acked
    BY DEF BumpGrantGeneration
  <2> QED BY <1>3, <2>1
<1>6. /\ acked' \in Nat /\ acked <= acked' /\ acked' <= Member
      /\ ~sc.shared => acked' = 0
  <2>1. req[p].floor <= Member /\ acked <= Member /\ (~sc.shared => acked = 0)
    BY <1>1 DEF GateInv, FreshOK, Floored
  <2> QED BY <1>3, <1>5, <2>1, MaxFacts
<1>7. gen' \in [Stores -> Gens] /\ \A s \in Stores : gen'[s] = gen[s] \/ gen'[s] = made
  BY <1>2, <1>3, <1>4, <1>5
<1> HIDE DEF made
<1>8. sc.asks[p] # <<>>
  BY <1>1 DEF TypeOK
<1>9. /\ sc' \in Scenario /\ sc'.backend = sc.backend /\ sc'.shared = sc.shared
      /\ req' \in [Callers -> Handling]
      /\ req'[p] = Idle /\ \A q \in Callers \ {p} : req'[q] = req[q] /\ sc'.asks[q] = sc.asks[q]
  BY <1>1, <1>8, AnswerTypes
<1>10. TypeOK'
  BY <1>1, <1>3, <1>6, <1>7, <1>9, Literals DEF TypeOK
<1>11. CapsOK'
  <2>1. WithCap(Idle)
    BY Literals DEF WithCap
  <2> QED BY <1>1, <1>9, <2>1, QuietCaps
<1>12. AgesOK'
  <2>1. Aged(Idle)
    BY Literals, <1>3 DEF Aged, TypeOK
  <2>2. Sources
    BY <1>1, SameSources DEF Sources
  <2> QED BY <1>1, <1>9, <2>1, <2>2, QuietAges
<1>13. FreshOK'
  <2>1. Member' = Member
    BY <1>1 DEF Member
  <2>2. ASSUME NEW q \in Callers PROVE Made(req[q].gen)' /\ Floored(req[q])'
    <3>1. CASE q = p
      <4>1. req'[q].gen = NoGen /\ req'[q].pc = "idle" /\ ~req'[q].read
        BY <1>9, <3>1, Literals
      <4> QED BY <4>1 DEF Made, Floored, NoGen
    <3>2. CASE q # p
      <4>1. /\ Made(req[q].gen) /\ Floored(req[q]) /\ req[q].gen \in Gens /\ req[q].floor \in Nat
            /\ req'[q] = req[q]
        BY <1>9, <3>2 DEF GateInv, FreshOK, TypeOK, Handling
      <4>2. PICK g \in Gens : g = req[q].gen
        BY <4>1
      <4>3. Made(g)'
        BY <1>4, <4>1, <4>2
      <4>4. Made(req[q].gen)'
        BY <4>1, <4>2, <4>3 DEF Made, NoGen
      <4>5. Floored(req[q])'
        BY <1>3, <1>6, <2>1, <4>1 DEF Floored
      <4> QED BY <4>4, <4>5
    <3> QED BY <3>1, <3>2
  <2>3. ASSUME NEW s \in Stores PROVE Made(gen[s])' /\ \A e \in grants'[s] : Made(e.gen)'
    <3>1. PICK g \in Gens : g = gen'[s]
      BY <1>7
    <3>2. Made(g)'
      <4>1. CASE gen'[s] = gen[s] BY <1>4, <3>1, <4>1 DEF GateInv, FreshOK
      <4>2. CASE gen'[s] = made BY <1>4, <3>1, <4>2
      <4> QED BY <1>7, <4>1, <4>2
    <3>3. Made(gen[s])'
      BY <3>1, <3>2 DEF Made, NoGen
    <3>4. ASSUME NEW e \in grants'[s] PROVE Made(e.gen)'
      <4>1. e \in Entries /\ Made(e.gen)
        BY <1>1, <3>4 DEF TypeOK, GateInv, FreshOK
      <4>2. e.gen \in Gens
        BY <4>1 DEF Entries
      <4> QED BY <1>4, <4>1, <4>2
    <3> QED BY <3>3, <3>4
  <2>4. ASSUME sc.shared, NEW g \in Gens, NEW v, Made(g), Serves(g, v)
        PROVE  Serves(g, v)'
    <3>1. g = gen'["valkey"] => v >= acked'
      <4>1. CASE UNCHANGED <<gen, acked>> BY <2>4, <4>1 DEF Serves
      <4>2. CASE gen' = [gen EXCEPT ![Store(r)] = made]
        <5>1. gen'["valkey"] = made
          BY <1>2, <1>3, <2>4, <4>2 DEF Store
        <5> QED BY <1>4, <2>4, <5>1
      <4> QED BY <1>5, <4>1, <4>2
    <3>2. \A q \in Callers : req'[q].read /\ req'[q].gen = g => v >= req'[q].floor
      BY <1>9, <2>4, Literals DEF Serves
    <3> QED BY <3>1, <3>2 DEF Serves
  <2>5. ASSUME sc.shared, NEW e \in grants'["valkey"] PROVE Serves(e.gen, e.grant.ver)'
    <3>1. e \in Entries /\ Made(e.gen) /\ Serves(e.gen, e.grant.ver)
      BY <1>1, <1>2, <2>5 DEF TypeOK, GateInv, FreshOK
    <3>2. e.gen \in Gens
      BY <3>1 DEF Entries
    <3> QED BY <2>4, <2>5, <3>1, <3>2
  <2>6. ASSUME sc.shared, NEW q \in Callers, req'[q].pc = "store"
        PROVE  Serves(req[q].gen, req[q].ac.ver)'
    <3>1. q # p /\ req'[q] = req[q]
      BY <1>9, <2>6, Literals
    <3>2. PICK g \in Gens, v \in Nat : g = req[q].gen /\ v = req[q].ac.ver
      BY DEF TypeOK, Handling, Contexts
    <3>3. Made(g) /\ Serves(g, v)
      BY <2>6, <3>1, <3>2 DEF GateInv, FreshOK
    <3>4. Serves(g, v)'
      BY <2>4, <2>6, <3>3
    <3> QED BY <3>1, <3>2, <3>4 DEF Serves
  <2> QED BY <1>6, <1>9, <2>1, <2>2, <2>3, <2>5, <2>6 DEF FreshOK
<1> QED BY <1>10, <1>11, <1>12, <1>13 DEF GateInv

-----------------------------------------------------------------------------
(* The world around the gate                                               *)

LEMMA Unmoved ==
  ASSUME TypeOK, GateInv, UNCHANGED <<sc, now, since, seq, gen, grants, claims, session, caps, req, acked>>
  PROVE  GateInv'
<1>1. Member' = Member
  BY DEF Member
<1>2. CapsOK'
  BY DEF GateInv, CapsOK, WithCap, BudgetKept, Balanced
<1>3. AgesOK'
  BY <1>1 DEF GateInv, AgesOK, Aged, Lasts
<1>4. FreshOK'
  BY <1>1 DEF GateInv, FreshOK, Made, Floored, Serves
<1> QED BY <1>2, <1>3, <1>4 DEF GateInv

LEMMA ConfigureClientStep ==
  ASSUME TypeOK, GateInv, NEW name \in Names, ConfigureClient(name)
  PROVE  TypeOK' /\ GateInv'
<1>1. UNCHANGED <<sc, now, since, seq, gen, grants, claims, flights, session, caps, req, acked>>
  BY DEF ConfigureClient
<1>2. name \in Binds
  <2>1. sc.sessions \in [Sessions -> [kind : SubjectKinds, bind : Binds, refresh : BOOLEAN]]
    BY DEF TypeOK, Scenario
  <2> QED BY <2>1, Constants DEF Names
<1>3. clients' \in [configured : SUBSET Binds, reserved : SUBSET Binds, cutoff : Nat]
  <2>1. /\ clients \in [configured : SUBSET Binds, reserved : SUBSET Binds, cutoff : Nat]
        /\ now \in Nat
    BY DEF TypeOK
  <2>2. \E c, v \in SUBSET Binds, t \in Nat :
          clients' = [clients EXCEPT !.configured = c, !.reserved = v, !.cutoff = t]
    <3>1. CASE name \notin clients.configured
      <4>1. clients' = [clients EXCEPT !.configured = @ \cup {name}, !.reserved = @ \cup {name},
                           !.cutoff = IF name = Subject /\ name \in clients.reserved THEN now ELSE @]
        BY <3>1 DEF ConfigureClient
      <4>2. PICK t \in Nat : t = IF name = Subject /\ name \in clients.reserved THEN now ELSE clients.cutoff
        BY <2>1
      <4> QED BY <1>2, <2>1, <4>1, <4>2
    <3>2. CASE name \in clients.configured
      <4>1. clients' = [clients EXCEPT !.configured = @ \ {name},
                                        !.cutoff = IF name = Subject THEN now ELSE @]
        BY <3>2 DEF ConfigureClient
      <4>2. PICK t \in Nat : t = IF name = Subject THEN now ELSE clients.cutoff
        BY <2>1
      <4>3. clients' = [clients EXCEPT !.configured = clients.configured \ {name},
                                       !.reserved = clients.reserved, !.cutoff = t]
        BY <2>1, <4>1, <4>2
      <4> QED BY <2>1, <4>3
    <3> QED BY <3>1, <3>2
  <2> QED BY <2>1, <2>2
<1>4. edits' \in Nat
  BY DEF ConfigureClient, TypeOK
<1>5. TypeOK'
  BY <1>1, <1>3, <1>4 DEF TypeOK
<1> QED BY <1>1, <1>5, Unmoved

LEMMA TickStep ==
  ASSUME TypeOK, GateInv, Tick
  PROVE  TypeOK' /\ GateInv'
<1>1. /\ UNCHANGED <<sc, since, seq, gen, flights, clients, session, caps, req, acked, edits>>
      /\ now' = now + 1 /\ now \in Nat /\ Member' = Member /\ Member \in Nat
      /\ \A p \in Callers : req[p].pc # "store"
  BY MemberFacts DEF Tick, At, TypeOK, Member
<1>2. /\ grants' \in [Stores -> SUBSET Entries]
      /\ \A s \in Stores : \A e \in grants'[s] : e \in grants[s] /\ e \in Entries
  <2>1. grants' = [s \in Stores |-> {e \in grants[s] : e.until > now'}] /\ grants \in [Stores -> SUBSET Entries]
    BY DEF Tick, TypeOK
  <2> QED BY <2>1
<1>3. /\ claims' \in [Stores -> [ver : Nat, until : Nat]]
      /\ \A s \in Stores : claims'[s] = claims[s] \/ claims'[s] = NoClaims
  <2>1. /\ claims' = [s \in Stores |-> IF claims[s].until > now' THEN claims[s] ELSE NoClaims]
        /\ claims \in [Stores -> [ver : Nat, until : Nat]]
    BY DEF Tick, TypeOK
  <2>2. NoClaims \in [ver : Nat, until : Nat]
    BY DEF NoClaims
  <2> QED BY <2>1, <2>2
<1>4. TypeOK'
  BY <1>1, <1>2, <1>3 DEF TypeOK
<1>5. CapsOK'
  BY <1>1 DEF GateInv, CapsOK, WithCap, BudgetKept, Balanced
<1>6. ASSUME NEW v \in Nat, NEW until \in Nat, NEW life \in Nat, Lasts(v, until, life)
      PROVE  Lasts(v, until, life)'
  BY <1>1, <1>6 DEF Lasts
<1>7. AgesOK'
  <2>1. ASSUME NEW q \in Callers PROVE Aged(req[q])'
    <3>1. Aged(req[q]) /\ req[q].at \in Nat
      BY DEF GateInv, AgesOK, TypeOK, Handling
    <3>2. req[q].at <= now'
      BY <1>1, <3>1 DEF Aged
    <3> QED BY <1>1, <3>1, <3>2 DEF Aged
  <2>2. ASSUME NEW s \in Stores, NEW e \in grants'[s]
        PROVE  Lasts(e.grant.ver, e.until, GrantTTL + Jitter)'
    <3>1. e \in Entries /\ Lasts(e.grant.ver, e.until, GrantTTL + Jitter)
      BY <1>2, <2>2 DEF GateInv, AgesOK
    <3>2. e.grant.ver \in Nat /\ e.until \in Nat /\ GrantTTL + Jitter \in Nat
      BY <3>1, Constants DEF Entries, Grants
    <3> QED BY <1>6, <3>1, <3>2
  <2>3. ASSUME NEW s \in Stores PROVE Lasts(claims[s].ver, claims[s].until, GrantTTL)'
    <3>1. PICK v \in Nat, until \in Nat : v = claims'[s].ver /\ until = claims'[s].until
      BY <1>3
    <3>2. Lasts(v, until, GrantTTL)
      <4>1. CASE claims'[s] = claims[s] BY <3>1, <4>1 DEF GateInv, AgesOK
      <4>2. CASE claims'[s] = NoClaims
        <5>1. v = 0 /\ until = 0
          BY <3>1, <4>2 DEF NoClaims
        <5>2. 0 < Member => since[0 + 2] \in Nat
          BY MemberFacts
        <5> QED BY <1>1, <5>1, <5>2, Constants DEF Lasts
      <4> QED BY <1>3, <4>1, <4>2
    <3>3. Lasts(v, until, GrantTTL)'
      BY <1>6, <3>2, Constants
    <3> QED BY <3>1, <3>3 DEF Lasts
  <2> QED BY <1>1, <2>1, <2>2, <2>3 DEF GateInv, AgesOK
<1>8. FreshOK'
  <2>1. \A q \in Callers : Made(req[q].gen)' /\ Floored(req[q])'
    BY <1>1 DEF GateInv, FreshOK, Made, Floored
  <2>2. \A s \in Stores : Made(gen[s])' /\ \A e \in grants'[s] : Made(e.gen)'
    BY <1>1, <1>2 DEF GateInv, FreshOK, Made
  <2>3. "valkey" \in Stores
    BY DEF Stores
  <2>4. sc.shared => \A e \in grants'["valkey"] : Serves(e.gen, e.grant.ver)'
    BY <1>1, <1>2, <2>3 DEF GateInv, FreshOK, Serves
  <2> QED BY <1>1, <2>1, <2>2, <2>4 DEF GateInv, FreshOK
<1> QED BY <1>4, <1>5, <1>7, <1>8 DEF GateInv

-----------------------------------------------------------------------------
(* The theorems                                                            *)

LEMMA InitHolds ==
  ASSUME Init
  PROVE  TypeOK /\ GateInv
<1>1. sc \in Scenario /\ sc.backend # <<>>
  BY GateAssumption DEF Init
<1>2. /\ sc.roles \in [Binds -> SUBSET Rights] /\ sc.backend \in Seq(SUBSET Rights) /\ sc.tokenTTL \in Nat
      /\ sc.sessions \in [Sessions -> [kind : SubjectKinds, bind : Binds, refresh : BOOLEAN]]
      /\ sc.clients \subseteq Binds /\ sc.edits \in Nat
  BY <1>1 DEF Scenario
<1>3. /\ now = 1 /\ since = <<0>> /\ acked = 0 /\ edits = sc.edits /\ flights = {} /\ caps = <<>>
      /\ seq = [r \in Replicas |-> 0] /\ gen = [s \in Stores |-> NoGen]
      /\ grants = [s \in Stores |-> {}] /\ claims = [s \in Stores |-> NoClaims]
      /\ clients = [configured |-> sc.clients, reserved |-> sc.clients, cutoff |-> 0]
      /\ req = [p \in Callers |-> Idle]
  BY DEF Init
<1>4. Member = 0 /\ Len(since) = 1 /\ since \in Seq(Nat) /\ since # <<>>
  BY <1>3 DEF Member
<1>5. 1 <= Len(sc.backend) /\ sc.backend[1] \subseteq Rights
  BY <1>1, <1>2
<1>6. session \in [Sessions -> Cookies] /\ \A s \in Sessions : session[s].grant.ver = 0
  <2>1. session = [s \in Sessions |->
                    [kind |-> sc.sessions[s].kind, bind |-> sc.sessions[s].bind, iat |-> 1,
                     exp |-> 1 + sc.tokenTTL, refresh |-> sc.sessions[s].refresh,
                     grant |-> Grant(sc.sessions[s].bind, 0)]]
    BY <1>2 DEF Init
  <2>2. ASSUME NEW s \in Sessions
        PROVE  session[s] \in Cookies /\ session[s].grant.ver = 0
    <3>1. /\ sc.sessions[s].kind \in SubjectKinds /\ sc.sessions[s].bind \in Binds
          /\ sc.sessions[s].refresh \in BOOLEAN /\ 1 + sc.tokenTTL \in Nat
      BY <1>2
    <3>2. PICK g \in Grants : g = Grant(sc.sessions[s].bind, 0) /\ g.ver = 0
      <4>1. sc.roles[sc.sessions[s].bind] \cup sc.backend[1] \in SUBSET Rights
        BY <1>2, <1>5, <3>1
      <4>2. Ents(sc.sessions[s].bind, 0) \in SUBSET Rights
        BY <4>1 DEF Ents, BoundRoles, BackendClaims
      <4>3. Grant(sc.sessions[s].bind, 0) \in Grants /\ Grant(sc.sessions[s].bind, 0).ver = 0
        BY <3>1, <4>2 DEF Grant, Grants
      <4> QED BY <4>3
    <3>3. session[s] = [kind |-> sc.sessions[s].kind, bind |-> sc.sessions[s].bind, iat |-> 1,
                        exp |-> 1 + sc.tokenTTL, refresh |-> sc.sessions[s].refresh, grant |-> g]
      BY <2>1, <3>2
    <3> QED BY <3>1, <3>2, <3>3 DEF Cookies
  <2> QED BY <2>1, <2>2
<1>7. NoGen \in Gens /\ NoClaims \in [ver : Nat, until : Nat] /\ NoClaims.ver = 0 /\ NoClaims.until = 0
  BY DEF Gens, NoClaims
<1>8. TypeOK
  <2>1. /\ clients \in [configured : SUBSET Binds, reserved : SUBSET Binds, cutoff : Nat]
        /\ req \in [Callers -> Handling] /\ \A p \in Callers : req[p].pc = "idle"
    BY <1>2, <1>3, Literals
  <2>2. /\ seq \in [Replicas -> Nat] /\ gen \in [Stores -> Gens] /\ grants \in [Stores -> SUBSET Entries]
        /\ claims \in [Stores -> [ver : Nat, until : Nat]]
    BY <1>3, <1>7
  <2>3. caps \in Seq(Capabilities) /\ flights \subseteq [replica : Replicas, gen : Gens]
        /\ now \in Nat /\ acked \in Nat /\ edits \in Nat
    BY <1>2, <1>3
  <2> QED BY <1>1, <1>4, <1>6, <2>1, <2>2, <2>3 DEF TypeOK
<1>9. \A p \in Callers : WithCap(req[p]) /\ Aged(req[p]) /\ Made(req[p].gen) /\ Floored(req[p])
  BY <1>3, <1>4, Literals DEF WithCap, Aged, Made, Floored
<1>10. CapsOK
  BY <1>3, <1>9 DEF CapsOK, BudgetKept
<1>11. AgesOK
  <2>1. \A s \in Stores : Lasts(claims[s].ver, claims[s].until, GrantTTL)
    BY <1>3, <1>4, <1>7, Constants DEF Lasts
  <2> QED BY <1>3, <1>4, <1>5, <1>6, <1>9, <2>1 DEF AgesOK
<1>12. FreshOK
  <2>1. "valkey" \in Stores
    BY DEF Stores
  <2>2. \A s \in Stores : Made(gen[s]) /\ grants[s] = {}
    BY <1>3 DEF Made
  <2> QED BY <1>3, <1>4, <1>9, <2>1, <2>2, Literals DEF FreshOK
<1> QED BY <1>8, <1>10, <1>11, <1>12 DEF GateInv

LEMMA NextHolds ==
  ASSUME TypeOK, GateInv, [Next]_vars
  PROVE  TypeOK' /\ GateInv'
<1>1. CASE UNCHANGED vars
  <2>1. UNCHANGED <<sc, now, since, seq, gen, grants, claims, flights, clients, session, caps, req, acked, edits>>
    BY <1>1 DEF vars
  <2>2. TypeOK'
    BY <2>1 DEF TypeOK
  <2> QED BY <2>1, <2>2, Unmoved
<1>2. ASSUME NEW p \in Callers, Step(p) PROVE TypeOK' /\ GateInv'
  <2>1. CASE CookieGate(p) BY <2>1, CookieGateStep
  <2>2. CASE BearerGate(p) BY <2>2, BearerGateStep
  <2>3. CASE CapabilityGate(p) BY <2>3, CapabilityGateStep
  <2>4. CASE APITokenGate(p) BY <2>4, APITokenGateStep
  <2>5. CASE GrantGeneration(p) BY <2>5, GrantGenerationStep
  <2>6. CASE CacheHit(p) BY <2>6, CacheHitStep
  <2>7. CASE CacheMiss(p) BY <2>7, CacheMissStep
  <2>8. CASE Resolve(p) BY <2>8, ResolveStep
  <2>9. CASE StoreGrant(p) BY <2>9, StoreGrantStep
  <2>10. CASE FailOpen(p) BY <2>10, FailOpenStep
  <2>11. CASE Spend(p) BY <2>11, SpendStep
  <2>12. CASE TransferGet(p) BY <2>12, CapabilityGateStep
  <2>13. CASE Mint(p) BY <2>13, MintStep
  <2>14. CASE Serve(p) BY <2>14, ServeStep
  <2>15. CASE CommitWrite(p) BY <2>15, CommitWriteStep
  <2>16. CASE BumpGrantGeneration(p) BY <2>16, BumpGrantGenerationStep
  <2> QED BY <1>2, <2>1, <2>2, <2>3, <2>4, <2>5, <2>6, <2>7, <2>8, <2>9, <2>10, <2>11, <2>12,
             <2>13, <2>14, <2>15, <2>16 DEF Step
<1>3. ASSUME NEW name \in Names, ConfigureClient(name) PROVE TypeOK' /\ GateInv'
  BY <1>3, ConfigureClientStep
<1>4. CASE BackendWrite BY <1>4, BackendWriteStep
<1>5. CASE Tick BY <1>5, TickStep
<1> QED BY <1>1, <1>2, <1>3, <1>4, <1>5 DEF Next

\* Whatever the callers send, whatever fails and however the membership
\* changes, the gate keeps its types and the three parts of its invariant.
THEOREM GateInvariant == Spec => [](TypeOK /\ GateInv)
<1>1. Init => TypeOK /\ GateInv
  BY InitHolds
<1>2. (TypeOK /\ GateInv) /\ [Next]_vars => (TypeOK /\ GateInv)'
  BY NextHolds
<1> QED BY <1>1, <1>2, PTL DEF Spec

\* Every variable of the gate keeps its type, and a request under way is one
\* that was asked.
THEOREM TypeCorrect == Spec => []TypeOK
<1>1. TypeOK /\ GateInv => TypeOK
  OBVIOUS
<1> QED BY <1>1, GateInvariant, PTL

\* refreshSessionGrants: a request that read the generation carries grants at
\* least as new as every change whose write had been answered, with its bump
\* stored, when it read it.
THEOREM GrantsAreFresh == Spec => []FreshAfterBump
<1>1. TypeOK /\ GateInv => FreshAfterBump
  BY DEF GateInv, FreshOK, Floored, FreshAfterBump, Carries
<1> QED BY <1>1, GateInvariant, PTL

\* jitteredGrantTTL: whatever fails, the grants a request carries stopped being
\* current less than the longest life of a cache entry before.
THEOREM StalenessIsBounded == Spec => []StaleBounded
<1>1. TypeOK /\ GateInv => StaleBounded
  BY DEF GateInv, AgesOK, Aged, StaleBounded, Carries
<1> QED BY <1>1, GateInvariant, PTL

\* DecrementIfPositive: the uses left of a capability, the requests it admitted
\* and the uses the cache took without its answer arriving add up to the uses it
\* was minted with.
THEOREM BudgetsAreKept == Spec => []BudgetKept
<1>1. TypeOK /\ GateInv => BudgetKept
  BY DEF GateInv, CapsOK
<1> QED BY <1>1, GateInvariant, PTL

\* mintCapabilityTokenWithCap: no chain of mints, and no refresh of a request's
\* grants, gives a capability what its first minter did not hold.
THEOREM CapabilitiesNeverGrow == Spec => []NeverInflated
<1>1. TypeOK /\ GateInv => NeverInflated
  BY DEF GateInv, CapsOK, WithCap, NeverInflated
<1> QED BY <1>1, GateInvariant, PTL
=============================================================================
