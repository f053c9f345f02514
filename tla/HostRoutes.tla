----------------------------- MODULE HostRoutes -----------------------------
(***************************************************************************)
(* The routes one rebuild of the host's mux registers, the page tree built *)
(* next to them, and what a request to them is answered.  Everything here  *)
(* is a function of the snapshot a rebuild reads: the pages, the functions *)
(* and the host.                                                           *)
(*                                                                         *)
(* A path is its segments and whether it ends in a slash; a pattern is a   *)
(* method, segments (some of them wildcards) and how it ends: "exact",     *)
(* "end" (the {$} anchor: the path with its slash and nothing below) or    *)
(* "tree" (a trailing slash or {rest...}: the slash and everything below). *)
(* Names of pages and functions are numbers, in the order of their         *)
(* strings.                                                                *)
(***************************************************************************)
EXTENDS Naturals, FiniteSets, Sequences, SequencesExt

CONSTANTS Languages,    \* the supported languages, in Languages() order
          DefaultLang,  \* the host's default language
          PageWildcards,\* the {name} segments pages' patterns use
          BasePaths,    \* every basePath, in string order
          NoPath        \* an empty basePath, patternPath or target

ASSUME RoutesAssumption ==
    /\ Languages \in Seq(STRING)
    /\ DefaultLang \in {Languages[i] : i \in DOMAIN Languages}

-----------------------------------------------------------------------------
(* net/http's ServeMux (external).                                         *)

Wildcards == PageWildcards \cup
    {"{handle}", "{name}", "{navKey}", "{l10n}", "{resource}", "{uuid}"}

Path(segs, slash) == [segs |-> segs, slash |-> slash]
Pattern(method, segs, tail) == [method |-> method, segs |-> segs, tail |-> tail]

SegCovers(a, b) == a = b \/ a \in Wildcards
SegMeets(a, b) == SegCovers(a, b) \/ SegCovers(b, a)

\* A request for path (a GET) is answered by pat.
Matches(pat, path) ==
    /\ pat.method \in {"GET", "ANY"}
    /\ \/ pat.tail = "tree" /\ \/ Len(pat.segs) < Len(path.segs)
                               \/ Len(pat.segs) = Len(path.segs) /\ path.slash
       \/ pat.tail # "tree" /\ Len(pat.segs) = Len(path.segs) /\ path.slash = (pat.tail = "end")
    /\ \A i \in DOMAIN pat.segs : SegCovers(pat.segs[i], path.segs[i])

\* a answers every request b answers.
Covers(a, b) ==
    /\ a.method \in {"ANY", b.method}
    /\ \/ a.tail = "tree" /\ \/ Len(a.segs) < Len(b.segs)
                             \/ Len(a.segs) = Len(b.segs) /\ b.tail # "exact"
       \/ a.tail # "tree" /\ a.tail = b.tail /\ Len(a.segs) = Len(b.segs)
    /\ \A i \in DOMAIN a.segs : SegCovers(a.segs[i], b.segs[i])

\* Some request is answered by both.
Overlap(a, b) ==
    LET below(p, q) == p.tail = "tree" /\ \/ Len(p.segs) < Len(q.segs)
                                          \/ Len(p.segs) = Len(q.segs) /\ q.tail # "exact"
    IN  /\ "ANY" \in {a.method, b.method} \/ a.method = b.method
        /\ \/ below(a, b) \/ below(b, a)
           \/ a.tail = b.tail /\ Len(a.segs) = Len(b.segs)
        /\ \A i \in DOMAIN a.segs \cap DOMAIN b.segs : SegMeets(a.segs[i], b.segs[i])

\* Registering the second of a and b panics: both answer a request, and
\* neither is the more specific one.
Conflict(a, b) == Overlap(a, b) /\ (Covers(a, b) <=> Covers(b, a))

\* ServeMux also panics on a pattern that repeats a wildcard name.
Valid(pat) == \A i, j \in DOMAIN pat.segs :
                pat.segs[i] \in Wildcards /\ pat.segs[i] = pat.segs[j] => i = j

Matching(mux, path) == {r \in mux : Matches(r.pat, path)}

MostSpecific(rs) == CHOOSE r \in rs : \A s \in rs : Covers(s.pat, r.pat)

NotFound == [do |-> "notFound"]
SlashRedirect == [do |-> "slash"]

\* mux.Handler: the most specific route; before it, a redirect to the slash
\* form when only a tree (or nothing) answers the path and the slash form has
\* a route of its own.
Handler(mux, path) ==
    LET rs == Matching(mux, path)
        slashed == Path(path.segs, TRUE)
        own == {r \in Matching(mux, slashed) : Len(r.pat.segs) = Len(path.segs)}
    IN  IF /\ ~path.slash
           /\ \A r \in rs : r.pat.tail = "tree"
           /\ own # {}
        THEN SlashRedirect
        ELSE IF rs = {} THEN NotFound ELSE MostSpecific(rs).act

-----------------------------------------------------------------------------
(* The host's own routes (muxWithDefaultsLocked).  host.features is what   *)
(* its configuration turns on.                                             *)

\* The owner of a route the registry does not track.  Pages and functions
\* are named by the numbers above it.
SystemOwner == 0

System(method, segs, tail) ==
    [pat |-> Pattern(method, segs, tail), owner |-> SystemOwner, act |-> [do |-> "system"]]

When(host, feature, routes) == IF feature \in host.features THEN routes ELSE {}

apitokensHandler(host) == When(host, "tokens",
    {System("GET", <<".well-known", "pks.json">>, "exact")} \cup
    {System("POST", <<"-", "apitokens", op>>, "exact") : op \in {"mint", "verify", "revoke"}})

capabilitiesHandler(host) == When(host, "mint",
    {System("POST", <<"-", "capabilities", "mint">>, "exact")})

transferHandler(host) == When(host, "urlDelivery",
    {System("GET", <<"-", "transfer", "{handle}">>, "exact")})

authorizeHandler(host) == When(host, "auth",
    {System("GET", <<"-", "oauth", "authorize">>, "exact"),
     System("POST", <<"-", "oauth", "consent">>, "exact")})

checkHandler(host) == {System("POST", <<"-", "check">>, "exact")}

discoveryHandler(host) == When(host, "auth",
    {System("GET", <<".well-known", doc>>, "exact") :
        doc \in {"oauth-authorization-server", "openid-configuration"}})

entitlementCatalogHandler(host) == {System("GET", <<"-", "entitlements", "catalog">>, "exact")}

faviconHandler(host) == {System("GET", <<"favicon.ico">>, "exact")}

jwksHandler(host) == When(host, "auth", {System("GET", <<".well-known", "jwks.json">>, "exact")})

kdexRolesHandler(host) == When(host, "checker",
    {System("GET", <<"-", "roles">>, "exact"), System("GET", <<"-", "roles", "{name}">>, "exact")})

loginHandler(host) == When(host, "auth",
    {System("GET", <<"-", "login">>, "exact"), System("POST", <<"-", "login">>, "exact"),
     System("GET", <<"-", "login">>, "tree"), System("POST", <<"-", "logout">>, "exact")})

navigationHandler(host) == {System("GET", <<"-", "navigation", "{navKey}", "{l10n}">>, "tree")}

oauthHandler(host) == When(host, "oidc",
    {System("GET", <<"-", "oauth", op>>, "exact") : op \in {"callback", "login"}})

openapiHandler(host) == {System("GET", <<"-", "openapi">>, "exact")}

protectedResourceHandler(host) ==
    {System("GET", <<".well-known", "oauth-protected-resource">>, tail) : tail \in {"exact", "tree"}}

registerHandler(host) == When(host, "dcr", {System("POST", <<"-", "oauth", "register">>, "exact")})

resourceNamesHandler(host) == When(host, "checker",
    {System("GET", <<"-", "entitlements", "resources", "{resource}", "names">>, "exact")})

schemaHandler(host) == {System("GET", <<"-", "schemas">>, tail) : tail \in {"exact", "tree"}}

snifferHandler(host) == When(host, "sniffer",
    {System("GET", <<"-", "sniffer", "inspect", "{uuid}">>, "exact"),
     System("GET", <<"-", "sniffer", "docs">>, "exact")})

stateHandler(host) == {System("GET", <<"-", "state">>, "tree")}

tokenHandler(host) == When(host, "auth", {System("POST", <<"-", "token">>, "exact")})

translationHandler(host) == {System("GET", <<"-", "translation", "{l10n}">>, "exact")}

muxWithDefaultsLocked(host) ==
    UNION {apitokensHandler(host), capabilitiesHandler(host), transferHandler(host),
           authorizeHandler(host), checkHandler(host), discoveryHandler(host),
           entitlementCatalogHandler(host), faviconHandler(host), jwksHandler(host),
           kdexRolesHandler(host), loginHandler(host), navigationHandler(host),
           oauthHandler(host), openapiHandler(host), protectedResourceHandler(host),
           registerHandler(host), resourceNamesHandler(host), schemaHandler(host),
           snifferHandler(host), stateHandler(host), tokenHandler(host),
           translationHandler(host)}

isSystemPath(path) ==
    \/ path = Path(<<"favicon.ico">>, FALSE)
    \/ /\ path.segs # <<>> /\ Head(path.segs) \in {".well-known", "-"}
       /\ Len(path.segs) > 1 \/ path.slash

-----------------------------------------------------------------------------
(* Registering pages and functions.                                        *)

\* toFinalPath: a basePath's pattern, anchored when it ends in a slash.
toFinalPath(path) == Pattern("GET", path.segs, IF path.slash THEN "end" ELSE "exact")

Prefixed(lang, pat) == [pat EXCEPT !.segs = <<lang>> \o @]
PrefixedPath(lang, path) == [path EXCEPT !.segs = <<lang>> \o @]
SlashForm(pat) == [pat EXCEPT !.tail = "end"]

ShowPage(p, lang) == [do |-> IF p.mode = "rewrite" THEN "rewrite" ELSE "page", page |-> p.name, lang |-> lang]
legacySlashRedirect(canonical) == [do |-> "redirect", to |-> canonical]
defaultLangRedirect == [do |-> "trim"]

\* What addHandlerAndRegister asks the mux to take for page p in one language,
\* in order: the page, its legacy slash form and its pattern; for the default
\* language at the bare path, then redirects to it under the language's own
\* prefix; for every other language under its prefix.
Attempts(p, lang) ==
    LET reg == toFinalPath(p.base)
        legacy == ~p.base.slash /\ p.mode # "text"
        three(at(_), page, slashTo, pattern) ==
            <<[pat |-> at(reg), act |-> page]>>
            \o (IF legacy THEN <<[pat |-> SlashForm(at(reg)), act |-> legacySlashRedirect(slashTo)]>> ELSE <<>>)
            \o (IF p.pattern # NoPath THEN <<[pat |-> at(p.pattern), act |-> pattern]>> ELSE <<>>)
        bare(pat) == pat
        prefixed(pat) == Prefixed(lang, pat)
    IN  IF lang = DefaultLang
        THEN three(bare, ShowPage(p, lang), p.base, ShowPage(p, lang))
             \o (IF p.localized
                 THEN three(prefixed, defaultLangRedirect, p.base, defaultLangRedirect)
                 ELSE <<>>)
        ELSE IF p.localized
             THEN three(prefixed, ShowPage(p, lang), PrefixedPath(lang, p.base), ShowPage(p, lang))
             ELSE <<>>

\* A segment no page uses, which patternRegistered puts for each wildcard.
Sentinel == "__kdex_probe__"

Probe(pat) ==
    LET segs == [i \in DOMAIN pat.segs |-> IF pat.segs[i] \in Wildcards THEN Sentinel ELSE pat.segs[i]]
    IN  CASE pat.tail = "exact" -> Path(segs, FALSE)
          [] pat.tail = "end"   -> Path(segs, TRUE)
          [] OTHER              -> Path(Append(segs, Sentinel), FALSE)

patternRegistered(mux, pat) ==
    LET rs == Matching(mux, Probe(pat)) IN rs # {} /\ MostSpecific(rs).pat = pat

Handles(mux, pat) == Valid(pat) /\ \A r \in mux : ~Conflict(r.pat, pat)

Owners(mux, pat) == {r.owner : r \in {r \in mux : r.pat = pat /\ r.owner # SystemOwner}}

\* registerIfNew, for page p.  st.skipped is the pages whose registration
\* panicked: addHandlerAndRegister returns the error, the rest of the page's
\* routes stay out, and the rebuild goes on with the next page.
registerIfNew(st, p, a) ==
    LET others == Owners(st.mux, a.pat) \ {p.name} IN
    CASE p.name \in st.skipped -> st
      [] p.name \notin st.skipped /\ ~patternRegistered(st.mux, a.pat) ->
           IF Handles(st.mux, a.pat)
           THEN [st EXCEPT !.mux = @ \cup {[pat |-> a.pat, owner |-> p.name, act |-> a.act]}]
           ELSE [st EXCEPT !.skipped = @ \cup {p.name}]
      [] p.name \notin st.skipped /\ patternRegistered(st.mux, a.pat) /\ others # {} ->
           [st EXCEPT !.collisions = @ \cup {[pat |-> a.pat, winner |-> w, loser |-> p.name] : w \in others}]
      [] OTHER -> st

addHandlerAndRegister(st, p) ==
    LET attempts == FlattenSeq([i \in DOMAIN Languages |-> Attempts(p, Languages[i])])
    IN  FoldLeft(LAMBDA s, a : registerIfNew(s, p, a), st, attempts)

\* registerFunctionRoutes: the exact path and everything below it, for any
\* method, each on its own; a refused one is recorded, against a tracked route
\* when one conflicts and against SystemOwner when none does.
registerFunctionRoutes(st, f) ==
    LET one(s, pat) ==
            LET winners == {r.owner : r \in {r \in s.mux : r.owner # SystemOwner /\ Conflict(r.pat, pat)}}
            IN  IF Handles(s.mux, pat)
                THEN [s EXCEPT !.mux = @ \cup {[pat |-> pat, owner |-> f.name, act |-> [do |-> "proxy", fn |-> f.name]]}]
                ELSE [s EXCEPT !.collisions = @ \cup
                        {[pat |-> pat, loser |-> f.name,
                          winner |-> IF winners = {} THEN SystemOwner ELSE CHOOSE w \in winners : TRUE]}]
        exact == IF f.base.slash THEN {} ELSE {Pattern("ANY", f.base.segs, "exact")}
    IN  FoldLeft(one, st, SetToSeq(exact) \o <<Pattern("ANY", f.base.segs, "tree")>>)

-----------------------------------------------------------------------------
(* The snapshot a rebuild assembles.                                       *)

\* newPageIndex: the pages that are served.  Of two with one basePath the
\* first by name is; one without a basePath is not.
TreePages(pages) ==
    {p \in pages : p.base # NoPath /\ \A q \in pages : q.base = p.base => q.name >= p.name}

PageNamed(tree, name) == CHOOSE p \in tree : p.name = name
Named(tree, name) == \E p \in tree : p.name = name

\* pageRequirements and parsePageRequirementsFailClosed: the page's security,
\* or the host's; a placeholder nothing binds denies every caller.
Unbindable == "{placeholder}"
DenyAll == {"__kdex_unbindable_placeholder_deny__"}

pageRequirements(host, p) == IF p.security = NoPath THEN host.security ELSE p.security

parsePageRequirementsFailClosed(reqs) == IF Unbindable \in reqs THEN DenyAll ELSE reqs

\* resolveRewriteTarget: the target's basePath and whether it has language
\* routes, or NoPath when it cannot be served.
resolveRewriteTarget(target, tree, functions) ==
    CASE target = NoPath -> NoPath
      [] target.kind = "KDexPage" /\ Named(tree, target.name)
         /\ PageNamed(tree, target.name).mode # "rewrite" ->
            LET p == PageNamed(tree, target.name) IN [base |-> p.base, localized |-> p.localized]
      [] target.kind = "KDexFunction"
         /\ \E f \in functions : f.name = target.name /\ ~f.internal /\ f.ready ->
            LET f == CHOOSE f \in functions : f.name = target.name
            IN  [base |-> f.base, localized |-> FALSE]
      [] OTHER -> NoPath

\* The functions a rebuild registers: issuer and key pair present, the
\* function ready, public and its proxy built.
FunctionHandlers(functions, host) ==
    {f \in functions : "keys" \in host.features /\ f.ready /\ ~f.internal /\ f.builds}

\* computePageSetDigest: everything a page tree reads.
computePageSetDigest(tree, functions, host) ==
    [pages |-> tree, security |-> host.security, parsed |-> "checker" \in host.features,
     auth |-> "auth" \in host.features,
     functions |-> {f \in functions : \E p \in tree : p.target = [kind |-> "KDexFunction", name |-> f.name]}]

NotReadyRoutes ==
    {[pat |-> Pattern("GET", IF l = DefaultLang THEN <<>> ELSE <<l>>, "end"),
      owner |-> SystemOwner, act |-> [do |-> "notReady"]] : l \in Range(Languages)}

BaseRank(p) == CHOOSE i \in DOMAIN BasePaths : BasePaths[i] = p.base

NoDigest == [pages |-> {}, security |-> {}, parsed |-> FALSE, auth |-> FALSE, functions |-> {}]

rebuildMuxSnapshot(pages, functions, host) ==
    LET tree == TreePages(pages)
        start == [mux |-> muxWithDefaultsLocked(host), collisions |-> {}, skipped |-> {}]
        paged == FoldLeft(addHandlerAndRegister, start,
                          SetToSortSeq(tree, LAMBDA p, q : BaseRank(p) < BaseRank(q)))
        routed == FoldLeft(registerFunctionRoutes, paged, SetToSeq(FunctionHandlers(functions, host)))
    IN  IF pages = {} /\ functions = {}
        THEN [mux |-> start.mux \cup NotReadyRoutes, collisions |-> {}, skipped |-> {},
              tree |-> {}, digest |-> NoDigest, needs |-> <<>>, targets |-> <<>>]
        ELSE [mux |-> routed.mux, collisions |-> routed.collisions, skipped |-> routed.skipped,
              tree |-> tree, digest |-> computePageSetDigest(tree, functions, host),
              needs |-> [n \in {p.name : p \in tree} |->
                           IF "checker" \in host.features
                           THEN parsePageRequirementsFailClosed(pageRequirements(host, PageNamed(tree, n)))
                           ELSE NoPath],
              targets |-> [n \in {p.name : p \in tree} |->
                             resolveRewriteTarget(PageNamed(tree, n).target, tree, functions)]]

-----------------------------------------------------------------------------
(* The page tree, as the caller with entitlements ents sees it.            *)

AuthOn(host) == {"auth", "checker"} \subseteq host.features

visibleInTree(snap, host, p, ents) ==
    ~AuthOn(host) \/ (snap.needs[p.name] # NoPath /\ snap.needs[p.name] \subseteq ents)

visibleChildren(snap, host, ents, parent) ==
    {p \in snap.tree : visibleInTree(snap, host, p, ents) /\ p.parent = parent}

\* The root of the tree, where a page without parentPageRef is listed.
Root == 0

\* The lightest visible top-level page, by weight and then basePath; or NoPath.
firstAuthorizedPage(snap, host, ents) ==
    LET candidates == {p \in visibleChildren(snap, host, ents, Root) : p.mode # "text"}
        lighter(p, q) == p.weight < q.weight \/ (p.weight = q.weight /\ BaseRank(p) <= BaseRank(q))
    IN  IF candidates = {} THEN NoPath
        ELSE (CHOOSE p \in candidates : \A q \in candidates : lighter(p, q)).base

discoverLandingPage(snap, host, ents) ==
    LET listed == SelectSeq(host.landing, LAMBDA path :
                      \E p \in snap.tree : p.base = path /\ visibleInTree(snap, host, p, ents))
    IN  IF listed # <<>> THEN Head(listed) ELSE firstAuthorizedPage(snap, host, ents)

\* Of the visible siblings with one label the first by name keeps the slot.
Kept(snap, host, ents, p) ==
    \A q \in visibleChildren(snap, host, ents, p.parent) : q.label = p.label => q.name >= p.name

\* buildMenuEntriesRecursive: the kept pages reached from the root.
MenuPages(snap, host, ents) ==
    LET below(listed, i) ==
          listed \cup {p \in snap.tree : /\ visibleInTree(snap, host, p, ents)
                                        /\ p.parent \in {Root} \cup {q.name : q \in listed}
                                        /\ Kept(snap, host, ents, p)}
    IN  FoldLeft(below, {}, [i \in 1..Cardinality(snap.tree) |-> i])

Href(p, lang) ==
    IF lang # DefaultLang /\ p.localized THEN PrefixedPath(lang, p.base) ELSE p.base

-----------------------------------------------------------------------------
(* Rewrites.                                                               *)

\* Values a request may give a wildcard besides a clean segment: none, one
\* with an escaped slash in it, and a parent reference.
Empty == ""
Spanning == "a%2Fb"
Dots == ".."

\* rewrite.Target: the target's basePath with the template's segments, each
\* wildcard replaced by its value.
Target(base, tmpl, value) ==
    LET fill(empty) == base.segs \o [i \in DOMAIN tmpl |->
            IF tmpl[i] \notin Wildcards THEN tmpl[i]
            ELSE IF value[tmpl[i]] = Empty THEN empty ELSE value[tmpl[i]]]
        safe(segs) == \A i \in DOMAIN segs : segs[i] # Dots /\ (segs[i] = Empty => i = Len(segs))
        segs == fill(Empty)
    IN  CASE tmpl = NoPath -> [err |-> "none", path |-> base]
          [] tmpl # NoPath /\ ~safe(segs) ->
               [err |-> IF safe(fill("x")) THEN "notFound" ELSE "unsafe", path |-> base]
          [] tmpl # NoPath /\ safe(segs) /\ Spanning \in Range(segs) -> [err |-> "notFound", path |-> base]
          [] OTHER ->
               [err |-> "none", path |-> IF Last(segs) = Empty THEN Path(Front(segs), TRUE) ELSE Path(segs, FALSE)]

rewriteTargetPath(resolved, tmpl, value, lang) ==
    LET t == Target(resolved.base, tmpl, value)
    IN  IF resolved.localized /\ lang # DefaultLang THEN [t EXCEPT !.path = PrefixedPath(lang, @)] ELSE t

MaxRewriteRedirectHops == 3

Redirects(act) == act.do \in {"redirect", "trim", "slash"}

RedirectPath(act, path) ==
    CASE act.do = "redirect" -> act.to
      [] act.do = "trim"     -> [path EXCEPT !.segs = Tail(@)]
      [] act.do = "slash"    -> Path(path.segs, TRUE)

\* followInternalRedirects: the path after the hops allowed, and whether it
\* settled there.
followInternalRedirects(mux, path) ==
    LET hop(p, i) == IF Redirects(Handler(mux, p)) THEN RedirectPath(Handler(mux, p), p) ELSE p
        last == FoldLeft(hop, path, [i \in 1..MaxRewriteRedirectHops |-> i])
    IN  [path |-> last, settled |-> ~Redirects(Handler(mux, last))]

\* Mutant: the language of the tree, also for an alias without language routes.
rewriteHrefOfTree(snap, host, functions, alias, lang, ents) ==
    LET resolved == resolveRewriteTarget(alias.target, snap.tree, functions)
    IN  IF resolved = NoPath THEN NoPath
        ELSE rewriteTargetPath(resolved, alias.tmpl, [w \in Wildcards |-> Empty], lang).path

\* rewriteEntry's Href: where a request at the alias's own Href is served from.
rewriteHref(snap, host, functions, alias, lang, ents) ==
    LET resolved == resolveRewriteTarget(alias.target, snap.tree, functions)
        hidden == /\ alias.target.kind = "KDexPage"
                  /\ ~Named(snap.tree, alias.target.name)
                     \/ ~visibleInTree(snap, host, PageNamed(snap.tree, alias.target.name), ents)
        l == IF alias.localized THEN lang ELSE DefaultLang
        t == rewriteTargetPath(resolved, alias.tmpl, [w \in Wildcards |-> Empty], l)
    IN  IF hidden \/ resolved = NoPath \/ t.err # "none" THEN NoPath
        ELSE IF t.path.slash /\ t.path # resolved.base /\ t.path # Path(<<>>, TRUE)
             THEN Path(t.path.segs, FALSE)
             ELSE t.path

-----------------------------------------------------------------------------
(* What a request is answered.  A caller is its entitlements, whether it   *)
(* presented a credential and whether it accepts HTML.                     *)

Answer(code) == [code |-> code, page |-> Root, lang |-> DefaultLang, to |-> NoPath, denied |-> FALSE]
Served(name, lang) == [Answer(200) EXCEPT !.page = name, !.lang = lang]
Redirect(code, to, denied) == [Answer(code) EXCEPT !.to = to, !.denied = denied]

\* Mutant: a caller who was redirected once already is redirected again.
pageGateUnmarked(snap, host, caller, denied, p, lang) ==
    LET landing == discoverLandingPage(snap, host, caller.ents)
        needs == snap.needs[p.name]
    IN  CASE ~AuthOn(host) \/ needs = NoPath \/ needs \subseteq caller.ents -> Served(p.name, lang)
          [] OTHER -> IF caller.signedIn /\ landing # NoPath THEN Redirect(303, landing, TRUE) ELSE Answer(403)

\* pageGateLocked, for a page in one language; a 200 lets the request on.
pageGateLocked(snap, host, caller, denied, p, lang) ==
    LET landing == discoverLandingPage(snap, host, caller.ents)
        needs == snap.needs[p.name]
    IN  CASE ~AuthOn(host) \/ needs = NoPath -> Served(p.name, lang)
          [] AuthOn(host) /\ needs # NoPath /\ needs \subseteq caller.ents -> Served(p.name, lang)
          [] OTHER ->
               IF ~caller.signedIn
               THEN IF host.loginPage /\ caller.html
                    THEN Redirect(303, Path(<<"-", "login">>, FALSE), FALSE)
                    ELSE Answer(401)
               ELSE IF ~host.forbid /\ caller.html /\ ~denied /\ landing # NoPath
                    THEN Redirect(303, IF lang # DefaultLang THEN PrefixedPath(lang, landing) ELSE landing, TRUE)
                    ELSE Answer(403)

\* A route's answer when no rewrite is left to follow (the marker is set).
AnswerDirect(snap, host, caller, denied, path) ==
    LET act == Handler(snap.mux, path) IN
    CASE act.do = "notFound"  -> Answer(404)
      [] Redirects(act)       -> Redirect(301, RedirectPath(act, path), denied)
      [] act.do = "page"      -> pageGateLocked(snap, host, caller, denied, PageNamed(snap.tree, act.page), act.lang)
      [] act.do = "rewrite"   -> Answer(508)
      [] act.do = "proxy"     -> [Answer(200) EXCEPT !.page = act.fn]
      [] OTHER                -> Answer(200)

\* rewriteHandlerFunc: the alias's gate, the target path with this request's
\* wildcard values, the redirects on the way, and the target's own answer.
rewriteHandlerFunc(snap, host, caller, denied, path, act) ==
    LET alias == PageNamed(snap.tree, act.page)
        gate == pageGateLocked(snap, host, caller, denied, alias, act.lang)
        pat == MostSpecific(Matching(snap.mux, path)).pat
        value == [w \in Wildcards |->
                    IF \E i \in DOMAIN pat.segs : pat.segs[i] = w
                    THEN path.segs[CHOOSE i \in DOMAIN pat.segs : pat.segs[i] = w] ELSE Empty]
        t == rewriteTargetPath(snap.targets[alias.name], alias.tmpl, value, act.lang)
        final == followInternalRedirects(snap.mux, t.path)
    IN  CASE snap.targets[alias.name] = NoPath -> Answer(404)
          [] snap.targets[alias.name] # NoPath /\ gate.code # 200 -> gate
          [] OTHER ->
               IF t.err # "none" THEN Answer(IF t.err = "unsafe" THEN 400 ELSE 404)
               ELSE IF ~final.settled THEN Answer(508)
               ELSE IF isSystemPath(final.path) THEN Answer(404)
               ELSE [AnswerDirect(snap, host, caller, denied, final.path) EXCEPT
                       !.to = IF @ = NoPath THEN final.path ELSE @]

AnswerTo(snap, host, caller, denied, path) ==
    LET act == Handler(snap.mux, path)
    IN  IF act.do = "rewrite" THEN rewriteHandlerFunc(snap, host, caller, denied, path, act)
        ELSE AnswerDirect(snap, host, caller, denied, path)

-----------------------------------------------------------------------------
(* What the routes of a snapshot promise.                                  *)

\* A page's route is excused when the registry recorded its loss, when its
\* registration was refused and logged, or when the host's own route has it.
Excused(snap, p, path) ==
    \/ \E c \in snap.collisions : c.loser = p.name /\ Matches(c.pat, path)
    \/ p.name \in snap.skipped
    \/ \E r \in Matching(snap.mux, path) : r.owner = SystemOwner

\* Every link a page tree lists is answered by the page it names, in the
\* language of the tree (the default one for a page without language routes).
LinksServed(snap, host, callers) ==
    \A caller \in callers, lang \in Range(Languages) :
        \A p \in MenuPages(snap, host, caller.ents) :
            LET act == Handler(snap.mux, Href(p, lang))
            IN  \/ Excused(snap, p, Href(p, lang))
                \/ act = ShowPage(p, IF p.localized THEN lang ELSE DefaultLang)

\* The redirects a browser may be sent through.
RedirectHops == 4

\* Following redirects a browser gets, from path: the answer after k of them.
Followed(snap, host, caller, path, k) ==
    LET hop(a, i) == IF a.code \in {301, 303} THEN AnswerTo(snap, host, caller, a.denied, a.to) ELSE a
    IN  FoldLeft(hop, AnswerTo(snap, host, caller, FALSE, path), [i \in 1..k |-> i])

\* The aliases a caller's tree lists with a canonical link, their link and
\* what a request at the alias itself is answered.
CanonicalLinks(snap, host, functions, caller, lang) ==
    {[link |-> rewriteHref(snap, host, functions, p, lang, caller.ents),
      answer |-> AnswerTo(snap, host, caller, FALSE, Href(p, lang))] :
        p \in {p \in MenuPages(snap, host, caller.ents) :
                 /\ p.mode = "rewrite" /\ ~Excused(snap, p, Href(p, lang))
                 /\ rewriteHref(snap, host, functions, p, lang, caller.ents) # NoPath}}

\* The link, followed, is answered by the same page in the same language as
\* the alias, unless the registry recorded that the link's route, or its
\* slash form, was lost.
AliasLinksLead(snap, host, functions, callers) ==
    \A caller \in callers, lang \in Range(Languages) :
        \A c \in CanonicalLinks(snap, host, functions, caller, lang) :
            LET there == Followed(snap, host, caller, c.link, RedirectHops)
                lost == \E l \in snap.collisions, slash \in BOOLEAN : Matches(l.pat, Path(c.link.segs, slash))
            IN  c.answer.code = 200 /\ ~lost =>
                  there.code = 200 /\ there.page = c.answer.page /\ there.lang = c.answer.lang

\* The link is the very path the alias is served from.
AliasLinksCanonical(snap, host, functions, callers) ==
    \A caller \in callers, lang \in Range(Languages) :
        \A c \in CanonicalLinks(snap, host, functions, caller, lang) :
            c.answer.code = 200 => c.link = c.answer.to

\* No page route sends a browser in circles: a slash or language redirect, a
\* redirect of a denied caller to a page it may see, the redirects on that
\* page's own route, and then an answer.
RedirectsSettle(snap, host, callers, paths) ==
    \A caller \in callers, path \in paths :
        Followed(snap, host, caller, path, RedirectHops).code \notin {301, 303}

\* A denied caller who is sent to a landing page finds it there.
DeniedLand(snap, host, callers, paths) ==
    \A caller \in callers, path \in paths :
        LET first == AnswerTo(snap, host, caller, FALSE, path)
        IN  first.code = 303 /\ first.denied =>
              Followed(snap, host, caller, path, RedirectHops).code # 404
=============================================================================
