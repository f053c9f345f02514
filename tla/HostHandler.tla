---------------------------- MODULE HostHandler ----------------------------
(***************************************************************************)
(* The host handler of one pod: the page store, the state behind hh.mu,    *)
(* the mux snapshot every rebuild publishes, the render cache, and the     *)
(* goroutines that meet there: one worker per controller (pages, host,     *)
(* translations and utility pages), the HTTP requests, and the background  *)
(* re-renders of stale cache entries.                                      *)
(*                                                                         *)
(* hh.mu is Go's RWMutex: a writer waiting for it holds back every new     *)
(* reader.  A critical section that cannot block inside is one step; a     *)
(* request keeps the read lock across its render, and while it waits for   *)
(* another request's render of the same key.                               *)
(***************************************************************************)
EXTENDS HostRoutes

CONSTANTS Scenarios,   \* the deployments to start from; fresh is the page stored last,
                       \*   which no rebuild has seen yet
          Callers,     \* who asks for pages: [ents, signedIn, html]
          Requests,    \* the concurrent HTTP requests
          NoPage       \* a page name without a page in the store

\* The pages of a deployment are among the names it considers.
ASSUME ScenariosAssumption == \A s \in Scenarios : {p.name : p \in s.pages} \subseteq s.names

VARIABLES
  store,      \* PageStore.handlers: name -> [spec, obj], or NoPage; obj is the
              \*   KDexPage it came from, [page, gen, uid]
  observed,   \* the objects whose Status.ObservedGeneration is their generation
              \*   by now; before that it is the generation before
  cluster,    \* the KDexPages of the API server: "none", "ready", "broken" (a
              \*   reference does not resolve) or "dying" (being deleted)
  crd,        \* the KDexInternalHost [gen, attrs, observed], and whether the host's
              \*   functions are Ready
  hh,         \* the fields behind hh.mu
  pc,         \* what each controller's worker is about to do
  held,       \* what each worker read and has not stored yet
  pending,    \* a host reconcile is queued
  readers,    \* the requests holding hh.mu for reading
  waiting,    \* the workers waiting for hh.mu for writing
  cache,      \* the page and navigation cache: [sum, cur, prev]
  req,        \* the requests
  migrations, \* the background re-renders, at most one per key
  left        \* the edits and requests still to come, and their kinds

vars == <<store, observed, cluster, crd, hh, pc, held, pending, readers, waiting,
          cache, req, migrations, left>>

Controllers == {"page", "host", "resource"}

NoHost == [gen |-> 0, attrs |-> 0, observed |-> 0, ready |-> TRUE]

Idle == [at |-> "idle"]

\* The host as the routes read it: its configuration, and whether the login
\* page is among the utility pages.
HostView == [hh.view EXCEPT !.loginPage = hh.login]

\* What a rebuild reads of hh and of the page store; the mux, the tree and the
\* digest it publishes are functions of it (rebuildMuxSnapshot).
Reading(objs, pages) ==
    [objs |-> objs, pages |-> pages, functions |-> hh.functions, view |-> HostView, transl |-> hh.res]

Published == rebuildMuxSnapshot(hh.pub.pages, hh.pub.functions, hh.pub.view)
Tree == TreePages(hh.pub.pages)
Digest == computePageSetDigest(Tree, hh.pub.functions, hh.pub.view)

Stored == {n \in DOMAIN store : store[n] # NoPage}
StoredPages == {store[n].spec : n \in Stored}
StoredObjects == [n \in Stored |-> store[n].obj]

CanEdit(c) == left.edits > 0 /\ c \in left.who

\* CanRead: hh.mu.RLock succeeds.  CanWrite: hh.mu.Lock succeeds.
CanRead == waiting = {}
CanWrite(c) == c \in waiting /\ readers = {}

\* Checksum: what the host's status says, at the moment SetHost reads it.
Checksum(host) == <<host.observed, host.attrs>>

Init ==
    \E s \in Scenarios :
        /\ store = [p \in s.names |->
                      IF \E q \in s.pages : q.name = p
                      THEN [spec |-> CHOOSE q \in s.pages : q.name = p,
                            obj |-> [page |-> p, gen |-> 1, uid |-> 0]]
                      ELSE NoPage]
        /\ observed = {[page |-> p.name, gen |-> 1, uid |-> 0] : p \in s.pages \ s.fresh}
        /\ cluster = [p \in s.names |-> IF \E q \in s.pages : q.name = p THEN "ready" ELSE "none"]
        /\ crd = [gen |-> 1, attrs |-> 0, observed |-> IF s.started THEN 1 ELSE 0, ready |-> TRUE]
        /\ hh = [host |-> IF s.started THEN crd ELSE NoHost, view |-> s.host, functions |-> s.functions,
                 res |-> 0, login |-> FALSE,
                 pub |-> [objs |-> IF s.started THEN [n \in {p.name : p \in s.pages \ s.fresh} |-> store[n].obj] ELSE <<>>,
                          pages |-> IF s.started THEN s.pages \ s.fresh ELSE {},
                          functions |-> IF s.started THEN s.functions ELSE {},
                          view |-> s.host, transl |-> 0]]
        /\ pc = [c \in Controllers |-> IF c = "page" /\ s.fresh # {} THEN "read" ELSE "idle"]
        /\ held = [c \in Controllers |-> NoPage]
        /\ pending = ~s.started
        /\ readers = {} /\ waiting = {}
        /\ cache = [sum |-> Checksum(crd), cur |-> <<>>, prev |-> <<>>]
        /\ req = [q \in Requests |-> Idle]
        /\ migrations = {}
        /\ left = [edits |-> s.edits, requests |-> s.requests, who |-> s.who, asks |-> s.asks, variants |-> s.variants]

-----------------------------------------------------------------------------
(* RebuildMux, run by worker c after its write.                            *)

\* rebuildMuxSnapshot: everything read and assembled under one read lock.
\* Without a host there is nothing to swap in.
RebuildRead(c) ==
    /\ pc[c] = "read" /\ CanRead
    /\ IF hh.host = NoHost
       THEN /\ pc' = [pc EXCEPT ![c] = "status"]
            /\ UNCHANGED held
       ELSE /\ held' = [held EXCEPT ![c] = Reading(StoredObjects, StoredPages)]
            /\ pc' = [pc EXCEPT ![c] = "built"]
    /\ UNCHANGED <<store, observed, cluster, crd, hh, pending, readers, waiting, cache, req, migrations, left>>

\* hh.mu is free in between.
RebuildLock(c) ==
    /\ pc[c] = "built"
    /\ pc' = [pc EXCEPT ![c] = "swap"]
    /\ waiting' = waiting \cup {c}
    /\ UNCHANGED <<store, observed, cluster, crd, hh, held, pending, readers, cache, req, migrations, left>>

\* The swap under the write lock, of whatever the worker read.
RebuildSwap(c) ==
    /\ pc[c] = "swap" /\ CanWrite(c)
    /\ hh' = [hh EXCEPT !.pub = held[c]]
    /\ held' = [held EXCEPT ![c] = NoPage]
    /\ waiting' = waiting \ {c}
    /\ pc' = [pc EXCEPT ![c] = "status"]
    /\ UNCHANGED <<store, observed, cluster, crd, pending, readers, cache, req, migrations, left>>

-----------------------------------------------------------------------------
(* The page controller.                                                    *)

\* PageStore.Set, then RebuildMux: a new generation of a page is reconciled,
\* or a new object of that name (uids are told apart by the edits left).
PageSet(n, spec) ==
    /\ pc["page"] = "idle" /\ CanEdit("page")
    /\ store' = [store EXCEPT ![n] =
                   [spec |-> spec,
                    obj |-> IF store[n] = NoPage
                            THEN [page |-> n, gen |-> 1, uid |-> left.edits]
                            ELSE [store[n].obj EXCEPT !.gen = @ + 1]]]
    /\ cluster' = [cluster EXCEPT ![n] = "ready"]
    /\ left' = [left EXCEPT !.edits = @ - 1]
    /\ pc' = [pc EXCEPT !["page"] = "read"]
    /\ UNCHANGED <<observed, crd, hh, held, pending, readers, waiting, cache, req, migrations>>

\* The KDexPage is being deleted: PageStore.Delete; its finalizer goes last.
PageDelete(n) ==
    /\ pc["page"] = "idle" /\ CanEdit("remove")
    /\ store[n] # NoPage
    /\ store' = [store EXCEPT ![n] = NoPage]
    /\ cluster' = [cluster EXCEPT ![n] = "dying"]
    /\ left' = [left EXCEPT !.edits = @ - 1]
    /\ pc' = [pc EXCEPT !["page"] = "read"]
    /\ UNCHANGED <<observed, crd, hh, held, pending, readers, waiting, cache, req, migrations>>

\* A reference of the page does not resolve any more: the status that says so
\* is written first, and queues the host;
PageBroken(n) ==
    /\ pc["page"] = "idle" /\ CanEdit("remove")
    /\ cluster[n] = "ready"
    /\ cluster' = [cluster EXCEPT ![n] = "broken"]
    /\ left' = [left EXCEPT !.edits = @ - 1]
    /\ pc' = [pc EXCEPT !["page"] = "drop"]
    /\ pending' = TRUE
    /\ UNCHANGED <<store, observed, crd, hh, held, readers, waiting, cache, req, migrations>>

\* then the page leaves the store.
PageDrop ==
    /\ pc["page"] = "drop"
    /\ store' = [n \in DOMAIN store |-> IF cluster[n] = "broken" THEN NoPage ELSE store[n]]
    /\ pc' = [pc EXCEPT !["page"] = "read"]
    /\ UNCHANGED <<observed, cluster, crd, hh, held, pending, readers, waiting, cache, req, migrations, left>>

ObservedNow == observed \cup {store[n].obj : n \in Stored}
ClusterNow == [n \in DOMAIN cluster |-> IF cluster[n] = "dying" THEN "none" ELSE cluster[n]]

\* Mutant: the status write does not queue the host.
PageStatusQuiet ==
    /\ pc["page"] = "status"
    /\ observed' = ObservedNow /\ cluster' = ClusterNow
    /\ pc' = [pc EXCEPT !["page"] = "idle"]
    /\ UNCHANGED <<store, crd, hh, held, pending, readers, waiting, cache, req, migrations, left>>

\* The deferred status write, when there is something to write:
\* ObservedGeneration moves, or the finalizer is gone and the object with it.
\* Its event queues the host.
PageStatus ==
    /\ pc["page"] = "status"
    /\ observed' = ObservedNow /\ cluster' = ClusterNow
    /\ pc' = [pc EXCEPT !["page"] = "idle"]
    /\ pending' = (pending \/ observed' # observed \/ cluster' # cluster)
    /\ UNCHANGED <<store, crd, hh, held, readers, waiting, cache, req, migrations, left>>

-----------------------------------------------------------------------------
(* The translation and utility page controllers (one worker stands for     *)
(* both: each writes one map of hh and rebuilds).                          *)

\* A translation or a utility page was edited or removed: its reconcile asks
\* for the write lock.
ResourceEdited ==
    /\ pc["resource"] = "idle" /\ CanEdit("resource")
    /\ left' = [left EXCEPT !.edits = @ - 1]
    /\ pc' = [pc EXCEPT !["resource"] = "write"]
    /\ waiting' = waiting \cup {"resource"}
    /\ UNCHANGED <<store, observed, cluster, crd, hh, held, pending, readers, cache, req, migrations>>

\* AddOrUpdateTranslation, RemoveTranslation.
WriteTranslation ==
    /\ pc["resource"] = "write" /\ CanWrite("resource")
    /\ hh' = [hh EXCEPT !.res = @ + 1]
    /\ pc' = [pc EXCEPT !["resource"] = "read"]
    /\ waiting' = waiting \ {"resource"}
    /\ UNCHANGED <<store, observed, cluster, crd, held, pending, readers, cache, req, migrations, left>>

\* AddOrUpdateUtilityPage, RemoveUtilityPage: here, of the login page.
WriteUtilityPage ==
    /\ pc["resource"] = "write" /\ CanWrite("resource")
    /\ hh' = [hh EXCEPT !.login = ~@]
    /\ pc' = [pc EXCEPT !["resource"] = "read"]
    /\ waiting' = waiting \ {"resource"}
    /\ UNCHANGED <<store, observed, cluster, crd, held, pending, readers, cache, req, migrations, left>>

ResourceStatus ==
    /\ pc["resource"] = "status"
    /\ pc' = [pc EXCEPT !["resource"] = "idle"]
    /\ pending' = TRUE
    /\ UNCHANGED <<store, observed, cluster, crd, hh, held, readers, waiting, cache, req, migrations, left>>

-----------------------------------------------------------------------------
(* The host controller.                                                    *)

\* The host's spec is edited, or an object its status attributes describe.
HostEdited ==
    /\ CanEdit("host")
    /\ left' = [left EXCEPT !.edits = @ - 1]
    /\ \/ crd' = [crd EXCEPT !.gen = @ + 1]
       \/ crd' = [crd EXCEPT !.attrs = @ + 1]
    /\ pending' = TRUE
    /\ UNCHANGED <<store, observed, cluster, hh, pc, held, readers, waiting, cache, req, migrations>>

\* A KDexFunction stops being Ready, or is again.
FunctionEdited ==
    /\ CanEdit("function")
    /\ left' = [left EXCEPT !.edits = @ - 1]
    /\ crd' = [crd EXCEPT !.ready = ~@]
    /\ pending' = TRUE
    /\ UNCHANGED <<store, observed, cluster, hh, pc, held, readers, waiting, cache, req, migrations>>

\* The host waits while a KDexPage is not in the store, and is Degraded while
\* two pages share a path; in both cases it tries again later.
UniquePaths ==
    \A m, n \in Stored :
        LET p == store[m].spec  q == store[n].spec
        IN  /\ m # n => p.base # q.base /\ (p.pattern # NoPath => p.pattern # q.pattern)
            /\ p.pattern # NoPath => p.pattern # toFinalPath(q.base)

Warm == {n \in DOMAIN cluster : cluster[n] # "none"} = Stored /\ UniquePaths

HostReconcile ==
    /\ pending /\ pc["host"] = "idle" /\ Warm
    /\ pending' = FALSE
    /\ held' = [held EXCEPT !["host"] = crd]
    /\ pc' = [pc EXCEPT !["host"] = "write"]
    /\ waiting' = waiting \cup {"host"}
    /\ UNCHANGED <<store, observed, cluster, crd, hh, readers, cache, req, migrations, left>>

\* cacheManager.Cycle(sum, false): the current generation becomes the previous
\* one, unless the checksum did not move.
Cycle(c, sum) ==
    IF c.sum = sum THEN c ELSE [sum |-> sum, cur |-> <<>>, prev |-> c.cur]

\* Set, of the current generation.
Put(gen, key, render) == [k \in DOMAIN gen \cup {key} |-> IF k = key THEN render ELSE gen[k]]

SetHost ==
    /\ pc["host"] = "write" /\ CanWrite("host")
    /\ hh' = [hh EXCEPT !.host = held["host"],
                        !.functions = {[f EXCEPT !.ready = held["host"].ready] : f \in @}]
    /\ cache' = Cycle(cache, Checksum(held["host"]))
    /\ held' = [held EXCEPT !["host"] = NoPage]
    /\ waiting' = waiting \ {"host"}
    /\ pc' = [pc EXCEPT !["host"] = "read"]
    /\ UNCHANGED <<store, observed, cluster, crd, pending, readers, req, migrations, left>>

\* The deferred status write; it does not queue the host again.
HostStatus ==
    /\ pc["host"] = "status"
    /\ crd' = [crd EXCEPT !.observed = hh.host.gen]
    /\ pc' = [pc EXCEPT !["host"] = "idle"]
    /\ UNCHANGED <<store, observed, cluster, hh, held, pending, readers, waiting, cache, req, migrations, left>>

-----------------------------------------------------------------------------
(* Requests.                                                               *)

\* The newest generation of a page whose reconcile is through.
Settled(obj) == IF obj \in observed THEN obj.gen ELSE obj.gen - 1

\* Mutant: the checksum does not name the page's generation.
PageChecksumOfName(obj) == 0

\* PageHandler.Checksum, with the Status its object has at this moment.
PageChecksum(obj) == IF obj \in observed THEN obj.gen ELSE obj.gen - 1

\* A render of the page tree is keyed by the page set as well: a navigation
\* fragment always is, a page when its body names .PageMap.
CacheKey(kind, obj, reads) ==
    [kind |-> kind, page |-> obj.page, sum |-> PageChecksum(obj),
     tree |-> IF reads THEN Digest ELSE NoDigest]

\* What a render under the read lock shows: the published tree, with the
\* functions of the host installed by then.
Rendering(obj, reads) ==
    [obj |-> obj, host |-> hh.host.gen,
     tree |-> IF reads THEN computePageSetDigest(Tree, hh.functions, HostView) ELSE NoDigest]

TreePage(n) == PageNamed(Tree, n)
InTree(n) == Named(Tree, n)

\* ServeHTTP takes the mux and lets go of the lock; the route's closure has
\* the page as the rebuild saw it.  A request for an alias goes through the
\* alias's handler first, on its way to the page it targets.
ServeHTTP(q, kind, n) ==
    /\ req[q].at \in {"idle", "done"} /\ left.requests > 0
    /\ CanRead /\ InTree(n)
    /\ left' = [left EXCEPT !.requests = @ - 1]
    /\ LET route == TreePage(n)
           aliased == route.mode = "rewrite"
           target == IF aliased THEN route.target.name ELSE n
       IN  /\ aliased => kind = "page" /\ route.target.kind = "KDexPage"
                         /\ resolveRewriteTarget(route.target, Tree, hh.pub.functions) # NoPath
           /\ req' = [req EXCEPT ![q] =
                        [at |-> IF aliased THEN "alias" ELSE "routed", kind |-> kind, n |-> target,
                         obj |-> hh.pub.objs[target], reads |-> kind = "nav" \/ TreePage(target).reads]]
    /\ UNCHANGED <<store, observed, cluster, crd, hh, pc, held, pending, readers, waiting, cache, migrations>>

\* Mutant: the alias keeps the read lock for the dispatch.
RewriteGateHolding(q) ==
    /\ req[q].at = "alias" /\ CanRead
    /\ req' = [req EXCEPT ![q].at = "routed"]
    /\ readers' = readers \cup {q}
    /\ UNCHANGED <<store, observed, cluster, crd, hh, pc, held, pending, waiting, cache, migrations, left>>

\* rewriteHandlerFunc: the alias's gate under the read lock, released before
\* the dispatch.
RewriteGate(q) ==
    /\ req[q].at = "alias" /\ CanRead
    /\ req' = [req EXCEPT ![q].at = "routed"]
    /\ UNCHANGED <<store, observed, cluster, crd, hh, pc, held, pending, readers, waiting, cache, migrations, left>>

\* What a request is answered, and the oldest page that would be right.
Answered(floor, what) == [at |-> "done", floor |-> floor, answer |-> what]
NoAnswer == NoPage

\* pageHandlerFunc and NavigationGet, from the read lock to the cache lookup:
\* a hit is served, a stale one too with a re-render started, and a miss
\* renders, or waits for the request already rendering that key.
Lookup(q) ==
    /\ req[q].at = "routed" /\ CanRead
    /\ LET r == req[q]
           obj == IF r.kind = "nav" /\ InTree(r.n) THEN hh.pub.objs[r.n] ELSE r.obj
           floor == [obj EXCEPT !.gen = Settled(obj)]
           key == CacheKey(r.kind, obj, r.reads)
           rendering == \E o \in Requests : req[o].at = "render" /\ req[o].key = key
       IN  IF r.kind = "nav" /\ ~InTree(r.n)
           THEN /\ req' = [req EXCEPT ![q] = Answered(floor, NoAnswer)]
                /\ UNCHANGED <<readers, migrations>>
           ELSE IF key \in DOMAIN cache.cur
           THEN /\ req' = [req EXCEPT ![q] = Answered(floor, cache.cur[key])]
                /\ UNCHANGED <<readers, migrations>>
           ELSE IF key \in DOMAIN cache.prev
           THEN /\ req' = [req EXCEPT ![q] = Answered(floor, cache.prev[key])]
                /\ migrations' = IF \E m \in migrations : m.key = key THEN migrations
                                 ELSE migrations \cup {[key |-> key, obj |-> obj, reads |-> r.reads]}
                /\ UNCHANGED readers
           ELSE /\ req' = [req EXCEPT ![q] =
                             [at |-> IF rendering THEN "joined" ELSE "render", key |-> key,
                              obj |-> obj, reads |-> r.reads, floor |-> floor]]
                /\ readers' = readers \cup {q}
                /\ UNCHANGED migrations
    /\ UNCHANGED <<store, observed, cluster, crd, hh, pc, held, pending, waiting, cache, left>>

\* The leader's render, its cache write (which may fail) and its answer; the
\* requests that joined it get the same, when they run.
Render(q) ==
    /\ req[q].at = "render"
    /\ \E fresh \in {NoAnswer, Rendering(req[q].obj, req[q].reads)}, stored \in BOOLEAN :
         /\ stored => fresh # NoAnswer
         /\ cache' = IF stored THEN [cache EXCEPT !.cur = Put(@, req[q].key, fresh)] ELSE cache
         /\ req' = [o \in Requests |->
                      IF o = q THEN Answered(req[q].floor, fresh)
                      ELSE IF req[o].at = "joined" /\ req[o].key = req[q].key
                           THEN [at |-> "woken", floor |-> req[o].floor, answer |-> fresh]
                           ELSE req[o]]
    /\ readers' = readers \ {q}
    /\ UNCHANGED <<store, observed, cluster, crd, hh, pc, held, pending, waiting, migrations, left>>

Joined(q) ==
    /\ req[q].at = "woken"
    /\ req' = [req EXCEPT ![q].at = "done"]
    /\ readers' = readers \ {q}
    /\ UNCHANGED <<store, observed, cluster, crd, hh, pc, held, pending, waiting, cache, migrations, left>>

\* Mutant: the re-render does not check its key again.
SeedAssumed(m) == TRUE

\* A migration's recheck: its key still describes the state it would render.
SeedUnmoved(m) ==
    m.key.sum = PageChecksum(m.obj) /\ (m.reads => m.key.tree = Digest)

\* migrateInBackground, once it has the read lock.
Migrate(m) ==
    /\ m \in migrations /\ CanRead
    /\ migrations' = migrations \ {m}
    /\ cache' = IF SeedUnmoved(m)
                THEN [cache EXCEPT !.cur = Put(@, m.key, Rendering(m.obj, m.reads))] ELSE cache
    /\ UNCHANGED <<store, observed, cluster, crd, hh, pc, held, pending, readers, waiting, req, left>>

-----------------------------------------------------------------------------
ControllerStep(c) == RebuildRead(c) \/ RebuildLock(c) \/ RebuildSwap(c)

PageStep == PageStatus \/ PageDrop
    \/ \E n \in DOMAIN store : PageDelete(n) \/ PageBroken(n) \/ \E spec \in left.variants : spec.name = n /\ PageSet(n, spec)

ResourceStep == ResourceEdited \/ WriteTranslation \/ WriteUtilityPage \/ ResourceStatus

HostStep == HostEdited \/ FunctionEdited \/ HostReconcile \/ SetHost \/ HostStatus

RequestStep(q) ==
    \/ \E a \in left.asks : ServeHTTP(q, a.kind, a.page)
    \/ RewriteGate(q) \/ Lookup(q) \/ Render(q) \/ Joined(q)

Next ==
    \/ \E c \in Controllers : ControllerStep(c)
    \/ PageStep \/ ResourceStep \/ HostStep
    \/ \E q \in Requests : RequestStep(q)
    \/ \E m \in migrations : Migrate(m)

\* Every goroutine that can run does: the controllers finish what they began
\* and take queued work, requests and re-renders go on.  Nobody has to edit
\* anything, or to send a request.
Fairness ==
    /\ \A c \in Controllers : WF_vars(ControllerStep(c))
    /\ WF_vars(PageStatus \/ PageDrop) /\ WF_vars(ResourceStatus) /\ WF_vars(WriteTranslation \/ WriteUtilityPage)
    /\ WF_vars(HostReconcile) /\ WF_vars(SetHost) /\ WF_vars(HostStatus)
    /\ \A q \in Requests : WF_vars(RewriteGate(q) \/ Lookup(q) \/ Render(q) \/ Joined(q))
    /\ WF_vars(\E m \in migrations : Migrate(m))

Spec == Init /\ [][Next]_vars /\ Fairness

-----------------------------------------------------------------------------
(* Properties.                                                             *)

\* A host was installed and nobody is at work (or only the host waits): what is published stays until
\* the next edit.
AtRest ==
    /\ hh.host # NoHost /\ ~(pending /\ Warm) /\ \A c \in Controllers : pc[c] = "idle"
    /\ \A q \in Requests : req[q].at = "idle"

\* Every link a published page tree lists, for any caller and language, is
\* answered by the page it names: the tree and the mux come from one snapshot
\* and agree on prefixes, losers of a collision being recorded.  And the
\* canonical link it gives for a rewrite alias leads to the page the alias
\* itself is answered by, in the same language, whatever redirects are on the
\* way and whoever asks.
LinksLead ==
    AtRest => /\ LinksServed(Published, HostView, Callers)
              /\ AliasLinksLead(Published, HostView, hh.functions, Callers)

\* The canonical link is the path the alias is served from.
AliasesCanonical == AtRest => AliasLinksCanonical(Published, HostView, hh.functions, Callers)

PageRoutes(snap) == {Probe(r.pat) : r \in {r \in snap.mux : r.owner # SystemOwner}}

\* No route redirects a browser in circles, whoever is denied what.
RedirectsEnd ==
    AtRest => LET snap == Published IN RedirectsSettle(snap, HostView, Callers, PageRoutes(snap))

\* A denied caller is redirected to a page that is there.
LandingServed ==
    AtRest => LET snap == Published IN DeniedLand(snap, HostView, Callers, PageRoutes(snap))

\* A cached render shows what its key says: the page set of the key, and the
\* page at the key's generation or, while the status write of a newer one is
\* under way, that one.  Never an older page, and never another page set's
\* tree under this page set's key.
CachedUnderItsKey ==
    \A gen \in {cache.cur, cache.prev} : \A key \in DOMAIN gen :
        /\ gen[key].obj.page = key.page
        /\ gen[key].obj.gen \in {key.sum, key.sum + 1}
        /\ gen[key].tree.pages = key.tree.pages

\* The tree of a cached render is the one its key's digest was computed from,
\* the functions its aliases target included.
CachedTreeMatches ==
    \A gen \in {cache.cur, cache.prev} : \A key \in DOMAIN gen : gen[key].tree = key.tree

\* No request is answered with an older generation of its page than the one
\* its handler has from the snapshot, once that one's reconcile is through: a
\* cached render is never mistaken for a newer page's.
ServedCurrent ==
    \A q \in Requests :
        req[q].at = "done" /\ req[q].answer # NoAnswer =>
            (req[q].answer.obj.uid = req[q].floor.uid => req[q].answer.obj.gen >= req[q].floor.gen)

\* Rebuilds may swap out of order, but once the edits stop and no page stays
\* broken, the mux, the tree and the translations that are served are those of
\* the stored pages and resources, and the host is the one last edited.  (A
\* broken page keeps every host reconcile waiting, and a stale swap with it.)
Converged ==
    /\ hh.pub.objs = StoredObjects /\ hh.pub.pages = StoredPages
    /\ hh.pub.transl = hh.res /\ hh.host.gen = crd.gen /\ hh.host.attrs = crd.attrs

Converges == <>[]Warm => <>[]Converged

\* A request that was accepted is answered, whatever writers wait for the
\* lock meanwhile.
RequestsFinish == \A q \in Requests : req[q].at # "idle" ~> req[q].at \in {"idle", "done"}
=============================================================================
