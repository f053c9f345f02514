-------------------------- MODULE ControllerProofs --------------------------
(***************************************************************************)
(* Proofs about two parts of the operator that share one process: the host *)
(* handler with its page store, rebuilds and render cache (HostHandler)    *)
(* and the function controller (FunctionLifecycle).  The theorems hold for *)
(* every value of the constants.                                           *)
(***************************************************************************)
EXTENDS HostHandler, FunctionLifecycle, TLAPS

-----------------------------------------------------------------------------
(* The host handler: the invariant                                         *)

\* The KDexPage a stored page came from.
PageObject(o) == o = [page |-> o.page, gen |-> o.gen, uid |-> o.uid] /\ o.gen \in Nat

\* The page store holds every page under its own name.
StoreInv ==
  \A n \in DOMAIN store : store[n] # NoPage =>
    store[n] = [spec |-> store[n].spec, obj |-> store[n].obj] /\ PageObject(store[n].obj) /\ store[n].spec.name = n

\* What a rebuild read: every page comes with its object.
Complete(r) == \A p \in r.pages : p.name \in DOMAIN r.objs /\ PageObject(r.objs[p.name])

RebuildInv ==
  /\ "pub" \in DOMAIN hh /\ Complete(hh.pub)
  /\ DOMAIN pc = Controllers /\ DOMAIN held = Controllers
  /\ \A c \in Controllers : pc[c] \in {"built", "swap"} => Complete(held[c])

\* The renders of one generation of the cache, under their keys.
Keyed(key, render) ==
  /\ key.sum \in Int /\ render.obj.page = key.page /\ render.obj.gen \in {key.sum, key.sum + 1}
  /\ render.tree.pages = key.tree.pages
Faithful(gen) == \A key \in DOMAIN gen : Keyed(key, gen[key])

CacheInv ==
  /\ cache = [sum |-> cache.sum, cur |-> cache.cur, prev |-> cache.prev]
  /\ Faithful(cache.cur) /\ Faithful(cache.prev)

\* A key of a request or a re-render, and what it is for.
KeyFor(key, obj, reads) ==
  /\ PageObject(obj) /\ key.page = obj.page /\ key.sum \in Int /\ obj.gen \in {key.sum, key.sum + 1}
  /\ ~reads => key.tree.pages = {}

MigrationInv == \A m \in migrations : KeyFor(m.key, m.obj, m.reads)

\* A request that renders, or waits for the one that does, holds hh.mu: its key
\* names the tree that is still published.
Routed(r) == r = [at |-> r.at, kind |-> r.kind, n |-> r.n, obj |-> r.obj, reads |-> r.reads] /\ PageObject(r.obj)
Rendered(r) ==
  /\ KeyFor(r.key, r.obj, r.reads) /\ r.floor.gen = r.key.sum
  /\ r.reads => r.key.tree.pages = Tree
Woken(r) == r = [at |-> "woken", floor |-> r.floor, answer |-> r.answer]
AnswerCurrent(r) == r.answer # NoAnswer => r.answer.obj.gen >= r.floor.gen

RequestOK(q, r, lock) ==
  /\ r.at \in {"alias", "routed"} => Routed(r)
  /\ r.at \in {"render", "joined"} => q \in lock /\ Rendered(r)
  /\ r.at = "woken" => Woken(r)
  /\ r.at \in {"woken", "done"} => AnswerCurrent(r)

RequestInv == DOMAIN req = Requests /\ \A q \in Requests : RequestOK(q, req[q], readers)

HostInv == StoreInv /\ RebuildInv /\ CacheInv /\ MigrationInv /\ RequestInv

-----------------------------------------------------------------------------
(* The store and the rebuilds                                              *)

\* An edited KDexPage is the page at the next generation.
LEMMA NextGeneration ==
  ASSUME NEW o, PageObject(o)
  PROVE  PageObject([o EXCEPT !.gen = @ + 1])
<1>1. o = [page |-> o.page, gen |-> o.gen, uid |-> o.uid] /\ o.gen \in Nat
  BY DEF PageObject
<1>2. PICK g \in Nat : g = o.gen + 1
  BY <1>1
<1>3. [o EXCEPT !.gen = @ + 1] = [page |-> o.page, gen |-> g, uid |-> o.uid]
  BY <1>1, <1>2
<1> QED BY <1>3 DEF PageObject

\* The page store keeps every page under its name (PageStore.Set, Delete).
LEMMA StoreStep ==
  ASSUME StoreInv, [Next]_vars
  PROVE  StoreInv'
<1>1. ASSUME NEW n \in DOMAIN store, NEW spec, spec.name = n, PageSet(n, spec) PROVE StoreInv'
  <2> DEFINE o == IF store[n] = NoPage THEN [page |-> n, gen |-> 1, uid |-> left.edits]
                  ELSE [store[n].obj EXCEPT !.gen = @ + 1]
             x == [spec |-> spec, obj |-> o]
  <2>1. store' = [store EXCEPT ![n] = x]
    BY <1>1 DEF PageSet
  <2>2. PageObject(o)
    <3>1. PageObject([page |-> n, gen |-> 1, uid |-> left.edits])
      BY DEF PageObject
    <3>2. store[n] # NoPage => PageObject([store[n].obj EXCEPT !.gen = @ + 1])
      BY <1>1, NextGeneration DEF StoreInv
    <3> QED BY <3>1, <3>2
  <2> HIDE DEF o
  <2>3. x = [spec |-> x.spec, obj |-> x.obj] /\ x.obj = o /\ x.spec.name = n
    BY <1>1
  <2> HIDE DEF x
  <2> QED BY <2>1, <2>2, <2>3 DEF StoreInv
<1>2. ASSUME NEW n \in DOMAIN store, PageDelete(n) PROVE StoreInv'
  BY <1>2 DEF PageDelete, StoreInv
<1>3. CASE PageDrop
  BY <1>3 DEF PageDrop, StoreInv
<1>4. CASE UNCHANGED store
  BY <1>4 DEF StoreInv
<1>5. CASE PageStatus \/ \E n \in DOMAIN store : PageBroken(n)
  BY <1>4, <1>5 DEF PageStatus, PageBroken
<1>6. CASE \E c \in Controllers : ControllerStep(c)
  BY <1>4, <1>6 DEF ControllerStep, RebuildRead, RebuildLock, RebuildSwap
<1>7. CASE ResourceStep
  BY <1>4, <1>7 DEF ResourceStep, ResourceEdited, WriteTranslation, WriteUtilityPage, ResourceStatus
<1>8. CASE HostStep
  BY <1>4, <1>8 DEF HostStep, HostEdited, FunctionEdited, HostReconcile, SetHost, HostStatus
<1>9. CASE \E q \in Requests : RequestStep(q)
  BY <1>4, <1>9 DEF RequestStep, ServeHTTP, RewriteGate, Lookup, Render, Joined
<1>10. CASE \E m \in migrations : Migrate(m)
  BY <1>4, <1>10 DEF Migrate
<1>11. CASE UNCHANGED vars
  BY <1>4, <1>11 DEF vars
<1> QED BY <1>1, <1>2, <1>3, <1>5, <1>6, <1>7, <1>8, <1>9, <1>10, <1>11 DEF Next, PageStep

\* What a rebuild reads of the store is complete.
LEMMA ReadComplete ==
  ASSUME StoreInv
  PROVE  Complete(Reading(StoredObjects, StoredPages))
<1> DEFINE r == Reading(StoredObjects, StoredPages)
<1>1. r.pages = StoredPages /\ r.objs = StoredObjects
  BY DEF Reading
<1>2. ASSUME NEW p \in StoredPages PROVE p.name \in DOMAIN StoredObjects /\ PageObject(StoredObjects[p.name])
  <2>1. PICK n \in Stored : p = store[n].spec
    BY DEF StoredPages
  <2>2. n \in DOMAIN store /\ store[n] # NoPage
    BY DEF Stored
  <2>3. p.name = n /\ PageObject(store[n].obj)
    BY <2>1, <2>2 DEF StoreInv
  <2> QED BY <2>3 DEF StoredObjects
<1> QED BY <1>1, <1>2 DEF Complete

\* A worker that neither reads nor swaps.
LEMMA RebuildStep ==
  ASSUME StoreInv, RebuildInv, [Next]_vars
  PROVE  RebuildInv'
<1>0. /\ "pub" \in DOMAIN hh /\ Complete(hh.pub)
      /\ DOMAIN pc = Controllers /\ DOMAIN held = Controllers
      /\ \A c \in Controllers : pc[c] \in {"built", "swap"} => Complete(held[c])
  BY DEF RebuildInv
<1>1. ASSUME NEW c \in Controllers, RebuildRead(c) PROVE RebuildInv'
  <2>1. CASE hh.host = NoHost
    BY <1>0, <1>1, <2>1 DEF RebuildRead, RebuildInv
  <2>2. CASE hh.host # NoHost
    <3> DEFINE r == Reading(StoredObjects, StoredPages)
    <3>1. held' = [held EXCEPT ![c] = r] /\ pc' = [pc EXCEPT ![c] = "built"] /\ hh' = hh
      BY <1>1, <2>2 DEF RebuildRead
    <3>2. Complete(r)
      BY ReadComplete
    <3> HIDE DEF r
    <3> QED BY <1>0, <3>1, <3>2 DEF RebuildInv
  <2> QED BY <2>1, <2>2
<1>2. ASSUME NEW c \in Controllers, RebuildLock(c) PROVE RebuildInv'
  BY <1>0, <1>2 DEF RebuildLock, RebuildInv
<1>3. ASSUME NEW c \in Controllers, RebuildSwap(c) PROVE RebuildInv'
  <2>1. hh' = [hh EXCEPT !.pub = held[c]] /\ held' = [held EXCEPT ![c] = NoPage]
        /\ pc' = [pc EXCEPT ![c] = "status"] /\ pc[c] = "swap"
    BY <1>3 DEF RebuildSwap
  <2>2. "pub" \in DOMAIN hh' /\ hh'.pub = held[c] /\ Complete(held[c])
    BY <1>0, <2>1
  <2> QED BY <1>0, <2>1, <2>2 DEF RebuildInv
<1>4. CASE UNCHANGED <<hh, pc, held>>
  BY <1>4 DEF RebuildInv
<1>5. ASSUME NEW c \in Controllers, NEW st, st \notin {"built", "swap"}, pc' = [pc EXCEPT ![c] = st],
             UNCHANGED <<hh, held>>
      PROVE  RebuildInv'
  BY <1>0, <1>5 DEF RebuildInv
<1>6. CASE PageStep
  BY <1>5, <1>6 DEF PageStep, PageStatus, PageDrop, PageDelete, PageBroken, PageSet, Controllers
<1>7. CASE ResourceEdited \/ ResourceStatus \/ HostStatus
  BY <1>5, <1>7 DEF ResourceEdited, ResourceStatus, HostStatus, Controllers
<1>8. CASE WriteTranslation \/ WriteUtilityPage
  <2>1. hh' \in {[hh EXCEPT !.res = @ + 1], [hh EXCEPT !.login = ~@]}
        /\ held' = held /\ pc' = [pc EXCEPT !["resource"] = "read"]
    BY <1>8 DEF WriteTranslation, WriteUtilityPage
  <2>2. "pub" \in DOMAIN hh' /\ hh'.pub = hh.pub
    BY <1>0, <2>1
  <2> QED BY <1>0, <2>1, <2>2 DEF RebuildInv, Controllers
<1>9. CASE HostEdited \/ FunctionEdited
  BY <1>4, <1>9 DEF HostEdited, FunctionEdited
<1>10. CASE HostReconcile
  BY <1>0, <1>10 DEF HostReconcile, RebuildInv, Controllers
<1>11. CASE SetHost
  <2>1. /\ held' = [held EXCEPT !["host"] = NoPage] /\ pc' = [pc EXCEPT !["host"] = "read"]
        /\ \E fns : hh' = [hh EXCEPT !.host = held["host"], !.functions = fns]
    BY <1>11 DEF SetHost
  <2>2. "pub" \in DOMAIN hh' /\ hh'.pub = hh.pub
    BY <1>0, <2>1
  <2> QED BY <1>0, <2>1, <2>2 DEF RebuildInv, Controllers
<1>12. CASE \E q \in Requests : RequestStep(q)
  BY <1>4, <1>12 DEF RequestStep, ServeHTTP, RewriteGate, Lookup, Render, Joined
<1>13. CASE \E m \in migrations : Migrate(m)
  BY <1>4, <1>13 DEF Migrate
<1>14. CASE UNCHANGED vars
  BY <1>4, <1>14 DEF vars
<1> QED BY <1>1, <1>2, <1>3, <1>6, <1>7, <1>8, <1>9, <1>10, <1>11, <1>12, <1>13, <1>14
        DEF Next, ControllerStep, ResourceStep, HostStep

-----------------------------------------------------------------------------
(* The cache and the requests                                              *)

\* The mux is swapped only when no request holds the lock.
Undisturbed ==
  /\ UNCHANGED <<req, readers, migrations>>
  /\ hh'.pub = hh.pub \/ readers = {}
  /\ cache' = cache \/ \E sum : cache' = Cycle(cache, sum)

\* The controllers leave what requests in flight rely on alone.
LEMMA ControllersUndisturbing ==
  ASSUME RebuildInv, (\E c \in Controllers : ControllerStep(c)) \/ PageStep \/ ResourceStep \/ HostStep \/ UNCHANGED vars
  PROVE  Undisturbed
<1>0. "pub" \in DOMAIN hh
  BY DEF RebuildInv
<1>1. ASSUME NEW c \in Controllers, ControllerStep(c) PROVE Undisturbed
  BY <1>1 DEF ControllerStep, RebuildRead, RebuildLock, RebuildSwap, CanWrite, Undisturbed
<1>2. CASE PageStep
  BY <1>2 DEF PageStep, PageStatus, PageDrop, PageDelete, PageBroken, PageSet, Undisturbed
<1>3. CASE ResourceStep
  BY <1>3 DEF ResourceStep, ResourceEdited, WriteTranslation, WriteUtilityPage, ResourceStatus, CanWrite, Undisturbed
<1>4. CASE HostStep
  <2>1. CASE HostEdited \/ FunctionEdited \/ HostReconcile \/ HostStatus
    BY <2>1 DEF HostEdited, FunctionEdited, HostReconcile, HostStatus, Undisturbed
  <2>2. CASE SetHost
    BY <2>2 DEF SetHost, CanWrite, Undisturbed
  <2> QED BY <1>4, <2>1, <2>2 DEF HostStep
<1>5. CASE UNCHANGED vars
  BY <1>5 DEF vars, Undisturbed
<1> QED BY <1>1, <1>2, <1>3, <1>4, <1>5

TailInv == CacheInv /\ MigrationInv /\ RequestInv

\* Cycling the cache moves renders to the previous generation as they are.
LEMMA CycleFaithful ==
  ASSUME CacheInv, NEW sum, cache' = Cycle(cache, sum)
  PROVE  CacheInv'
<1>1. CASE cache' = cache
  BY <1>1 DEF CacheInv
<1>2. CASE cache' = [sum |-> sum, cur |-> <<>>, prev |-> cache.cur]
  <2>1. cache'.cur = <<>> /\ cache'.prev = cache.cur /\ cache'.sum = sum
    BY <1>2
  <2>2. DOMAIN cache'.cur = {}
    BY <2>1
  <2> QED BY <1>2, <2>1, <2>2 DEF CacheInv, Faithful
<1> QED BY <1>1, <1>2 DEF Cycle

\* A step that disturbs no request keeps the invariant of the requests.
LEMMA UndisturbedStep ==
  ASSUME TailInv, Undisturbed
  PROVE  TailInv'
<1>1. CacheInv'
  BY CycleFaithful DEF Undisturbed, TailInv, CacheInv
<1>2. MigrationInv'
  BY DEF Undisturbed, TailInv, MigrationInv
<1>3. RequestInv'
  <2>1. req' = req /\ readers' = readers
    BY DEF Undisturbed
  <2>2. CASE hh'.pub = hh.pub
    <3>1. Tree' = Tree
      BY <2>2 DEF Tree
    <3> QED BY <2>1, <3>1 DEF TailInv, RequestInv, RequestOK, Rendered
  <2>3. CASE readers = {}
    <3>1. \A q \in Requests : req[q].at \notin {"render", "joined"}
      BY <2>3 DEF TailInv, RequestInv, RequestOK
    <3> QED BY <2>1, <3>1 DEF TailInv, RequestInv, RequestOK
  <2> QED BY <2>2, <2>3 DEF Undisturbed
<1> QED BY <1>1, <1>2, <1>3 DEF TailInv

\* What a render shows of the tree is what its key digests.
LEMMA DigestPages ==
  /\ Digest.pages = Tree /\ NoDigest.pages = {}
  /\ \A obj, reads : Rendering(obj, reads).obj = obj /\ Rendering(obj, reads).tree.pages = IF reads THEN Tree ELSE {}
<1>1. \A fns, view : computePageSetDigest(Tree, fns, view).pages = Tree
  BY DEF computePageSetDigest
<1>2. NoDigest.pages = {}
  BY DEF NoDigest
<1> QED BY <1>1, <1>2 DEF Digest, Rendering

\* The key a lookup computes.
LEMMA LookupKey ==
  ASSUME NEW kind, NEW obj, NEW reads, PageObject(obj)
  PROVE  LET key == CacheKey(kind, obj, reads)
             floor == [obj EXCEPT !.gen = Settled(obj)]
         IN  /\ KeyFor(key, obj, reads) /\ floor.gen = key.sum
             /\ reads => key.tree.pages = Tree
<1>1. obj = [page |-> obj.page, gen |-> obj.gen, uid |-> obj.uid] /\ obj.gen \in Nat
  BY DEF PageObject
<1>2. PICK n \in Int : n = PageChecksum(obj) /\ obj.gen \in {n, n + 1} /\ n = Settled(obj)
  BY <1>1 DEF PageChecksum, Settled
<1>3. [obj EXCEPT !.gen = Settled(obj)].gen = n
  BY <1>1, <1>2
<1>4. /\ CacheKey(kind, obj, reads).sum = n /\ CacheKey(kind, obj, reads).page = obj.page
      /\ CacheKey(kind, obj, reads).tree = IF reads THEN Digest ELSE NoDigest
  BY <1>2 DEF CacheKey
<1> QED BY <1>2, <1>3, <1>4, DigestPages DEF KeyFor

\* The tree lists only pages that were read, so the route's page has an object.
LEMMA RoutedPage ==
  ASSUME RebuildInv, NEW n, InTree(n)
  PROVE  PageObject(hh.pub.objs[n])
<1>1. PICK p \in Tree : p.name = n
  BY DEF InTree, Named
<1>2. p \in hh.pub.pages
  BY DEF Tree, TreePages
<1> QED BY <1>1, <1>2 DEF RebuildInv, Complete

\* An alias that resolves leads to a page of the tree.
LEMMA AliasTarget ==
  ASSUME NEW target, target.kind = "KDexPage", NEW fns, resolveRewriteTarget(target, Tree, fns) # NoPath
  PROVE  InTree(target.name)
  BY DEF resolveRewriteTarget, InTree

\* A step of request q that leaves the mux alone.
LEMMA RequestMoves ==
  ASSUME RequestInv, NEW q \in Requests, NEW r, req' = [req EXCEPT ![q] = r], hh' = hh,
         readers \ {q} \subseteq readers', RequestOK(q, r, readers')
  PROVE  RequestInv'
<1>1. Tree' = Tree
  BY DEF Tree
<1>2. DOMAIN req' = Requests /\ req'[q] = r /\ \A o \in Requests \ {q} : req'[o] = req[o]
  BY DEF RequestInv
<1>3. \A o \in Requests : RequestOK(o, req'[o], readers')
  BY <1>2 DEF RequestInv, RequestOK
<1>4. \A o, x : RequestOK(o, x, readers') => RequestOK(o, x, readers)'
  BY <1>1 DEF RequestOK, Rendered
<1> QED BY <1>2, <1>3, <1>4 DEF RequestInv, RequestOK

\* The mux hands a request the page it routed to.
LEMMA ServeHTTPStep ==
  ASSUME RebuildInv, TailInv, NEW q \in Requests, NEW kind, NEW n, ServeHTTP(q, kind, n)
  PROVE  TailInv'
<1> DEFINE route == TreePage(n)
           aliased == route.mode = "rewrite"
           target == IF aliased THEN route.target.name ELSE n
           r == [at |-> IF aliased THEN "alias" ELSE "routed", kind |-> kind, n |-> target,
                 obj |-> hh.pub.objs[target], reads |-> kind = "nav" \/ TreePage(target).reads]
<1>1. req' = [req EXCEPT ![q] = r] /\ UNCHANGED <<hh, readers, cache, migrations>>
  BY DEF ServeHTTP
<1>2. InTree(target)
  <2>1. InTree(n)
    BY DEF ServeHTTP
  <2>2. aliased => route.target.kind = "KDexPage" /\ resolveRewriteTarget(route.target, Tree, hh.pub.functions) # NoPath
    BY DEF ServeHTTP
  <2> QED BY <2>1, <2>2, AliasTarget
<1>3. PageObject(hh.pub.objs[target])
  BY <1>2, RoutedPage
<1> HIDE DEF target
<1>4. Routed(r) /\ r.at \in {"alias", "routed"}
  BY <1>3 DEF Routed
<1> HIDE DEF r
<1>5. RequestOK(q, r, readers')
  BY <1>4 DEF RequestOK
<1>6. RequestInv'
  BY <1>1, <1>5, RequestMoves DEF TailInv
<1> QED BY <1>1, <1>6 DEF TailInv, CacheInv, MigrationInv

LEMMA RewriteGateStep ==
  ASSUME TailInv, NEW q \in Requests, RewriteGate(q)
  PROVE  TailInv'
<1> DEFINE r == [req[q] EXCEPT !.at = "routed"]
<1>1. req' = [req EXCEPT ![q] = r] /\ UNCHANGED <<hh, readers, cache, migrations>> /\ req[q].at = "alias"
  BY DEF RewriteGate
<1>2. Routed(req[q])
  BY <1>1 DEF TailInv, RequestInv, RequestOK
<1>3. r.at = "routed" /\ Routed(r)
  BY <1>2 DEF Routed
<1> HIDE DEF r
<1>4. RequestOK(q, r, readers')
  BY <1>3 DEF RequestOK
<1>5. RequestInv'
  BY <1>1, <1>4, RequestMoves DEF TailInv
<1> QED BY <1>1, <1>5 DEF TailInv, CacheInv, MigrationInv

LEMMA JoinedStep ==
  ASSUME TailInv, NEW q \in Requests, Joined(q)
  PROVE  TailInv'
<1> DEFINE r == [req[q] EXCEPT !.at = "done"]
<1>1. /\ req' = [req EXCEPT ![q] = r] /\ UNCHANGED <<hh, cache, migrations>> /\ req[q].at = "woken"
      /\ readers' = readers \ {q}
  BY DEF Joined
<1>2. Woken(req[q]) /\ AnswerCurrent(req[q])
  BY <1>1 DEF TailInv, RequestInv, RequestOK
<1>3. r.at = "done" /\ r.answer = req[q].answer /\ r.floor = req[q].floor
  BY <1>2 DEF Woken
<1> HIDE DEF r
<1>4. RequestOK(q, r, readers')
  BY <1>2, <1>3 DEF RequestOK, AnswerCurrent
<1>5. RequestInv'
  BY <1>1, <1>4, RequestMoves DEF TailInv
<1> QED BY <1>1, <1>5 DEF TailInv, CacheInv, MigrationInv

\* A cached render is as new as the page was at the lookup.
LEMMA CachedCurrent ==
  ASSUME NEW gen, Faithful(gen), NEW key \in DOMAIN gen, NEW floor, floor.gen = key.sum
  PROVE  LET a == Answered(floor, gen[key]) IN a.at = "done" /\ AnswerCurrent(a)
<1>1. gen[key].obj.gen \in {key.sum, key.sum + 1} /\ key.sum \in Int
  BY DEF Faithful, Keyed
<1>2. gen[key].obj.gen >= floor.gen
  BY <1>1
<1> QED BY <1>2 DEF Answered, AnswerCurrent

\* A lookup answers with a current render, or builds the key of a new one.
LEMMA LookupStep ==
  ASSUME RebuildInv, TailInv, NEW q \in Requests, Lookup(q)
  PROVE  TailInv'
<1> DEFINE r == req[q]
           obj == IF r.kind = "nav" /\ InTree(r.n) THEN hh.pub.objs[r.n] ELSE r.obj
           floor == [obj EXCEPT !.gen = Settled(obj)]
           key == CacheKey(r.kind, obj, r.reads)
           rendering == \E o \in Requests : req[o].at = "render" /\ req[o].key = key
           started == [at |-> IF rendering THEN "joined" ELSE "render", key |-> key,
                       obj |-> obj, reads |-> r.reads, floor |-> floor]
<1>0. r.at = "routed" /\ UNCHANGED <<hh, cache>>
  BY DEF Lookup
<1>1. PageObject(obj)
  <2>1. PageObject(r.obj)
    BY <1>0 DEF TailInv, RequestInv, RequestOK, Routed
  <2> QED BY <2>1, RoutedPage
<1>2. \/ req' = [req EXCEPT ![q] = Answered(floor, NoAnswer)] /\ UNCHANGED <<readers, migrations>>
      \/ key \in DOMAIN cache.cur /\ req' = [req EXCEPT ![q] = Answered(floor, cache.cur[key])]
         /\ UNCHANGED <<readers, migrations>>
      \/ /\ key \in DOMAIN cache.prev /\ req' = [req EXCEPT ![q] = Answered(floor, cache.prev[key])]
         /\ migrations' = IF \E m \in migrations : m.key = key THEN migrations
                          ELSE migrations \cup {[key |-> key, obj |-> obj, reads |-> r.reads]}
         /\ readers' = readers
      \/ req' = [req EXCEPT ![q] = started] /\ readers' = readers \cup {q} /\ migrations' = migrations
  BY DEF Lookup
<1> HIDE DEF obj
<1>3. KeyFor(key, obj, r.reads) /\ floor.gen = key.sum /\ (r.reads => key.tree.pages = Tree)
  BY <1>1, LookupKey
<1> HIDE DEF key, floor, rendering
<1>4. Answered(floor, NoAnswer).at = "done" /\ AnswerCurrent(Answered(floor, NoAnswer))
  BY DEF Answered, AnswerCurrent
<1>5. MigrationInv'
  <2>1. MigrationInv
    BY DEF TailInv
  <2>2. KeyFor(key, obj, r.reads) => LET m == [key |-> key, obj |-> obj, reads |-> r.reads]
                                     IN  KeyFor(m.key, m.obj, m.reads)
    OBVIOUS
  <2>3. CASE migrations' = migrations
    BY <2>1, <2>3 DEF MigrationInv
  <2>4. CASE migrations' = migrations \cup {[key |-> key, obj |-> obj, reads |-> r.reads]}
    BY <1>3, <2>1, <2>2, <2>4 DEF MigrationInv
  <2> QED BY <1>2, <2>3, <2>4
<1>6. RequestInv'
  <2>0. RequestInv /\ CacheInv
    BY DEF TailInv
  <2>1. ASSUME NEW a, a.at = "done", AnswerCurrent(a), req' = [req EXCEPT ![q] = a], readers' = readers PROVE RequestInv'
    <3>1. RequestOK(q, a, readers')
      BY <2>1 DEF RequestOK
    <3> QED BY <1>0, <2>0, <2>1, <3>1, RequestMoves
  <2>2. CASE req' = [req EXCEPT ![q] = started] /\ readers' = readers \cup {q}
    <3>1. started.at \in {"joined", "render"} /\ Rendered(started)
      BY <1>3 DEF Rendered
    <3> HIDE DEF started
    <3>2. RequestOK(q, started, readers')
      BY <2>2, <3>1 DEF RequestOK
    <3> QED BY <1>0, <2>0, <2>2, <3>2, RequestMoves
  <2>3. CASE req' = [req EXCEPT ![q] = Answered(floor, NoAnswer)] /\ readers' = readers
    BY <1>4, <2>1, <2>3
  <2>4. CASE key \in DOMAIN cache.cur /\ req' = [req EXCEPT ![q] = Answered(floor, cache.cur[key])] /\ readers' = readers
    BY <1>3, <2>0, <2>1, <2>4, CachedCurrent DEF CacheInv
  <2>5. CASE key \in DOMAIN cache.prev /\ req' = [req EXCEPT ![q] = Answered(floor, cache.prev[key])] /\ readers' = readers
    BY <1>3, <2>0, <2>1, <2>5, CachedCurrent DEF CacheInv
  <2> QED BY <1>2, <2>2, <2>3, <2>4, <2>5
<1> QED BY <1>0, <1>5, <1>6 DEF TailInv, CacheInv

\* A render stored under its own key keeps the cache faithful.
LEMMA PutFaithful ==
  ASSUME CacheInv, NEW key, NEW render, Keyed(key, render), cache' = [cache EXCEPT !.cur = Put(@, key, render)]
  PROVE  CacheInv'
<1> DEFINE g == Put(cache.cur, key, render)
<1>1. Faithful(g)
  <2>1. DOMAIN g = DOMAIN cache.cur \cup {key} /\ \A k \in DOMAIN g : g[k] = IF k = key THEN render ELSE cache.cur[k]
    BY DEF Put
  <2> HIDE DEF g
  <2> QED BY <2>1 DEF CacheInv, Faithful
<1>2. cache = [sum |-> cache.sum, cur |-> cache.cur, prev |-> cache.prev] /\ Faithful(cache.prev)
  BY DEF CacheInv
<1>3. cache' = [cache EXCEPT !.cur = g]
  OBVIOUS
<1> HIDE DEF g
<1>4. cache' = [sum |-> cache.sum, cur |-> g, prev |-> cache.prev]
  BY <1>2, <1>3
<1>5. cache'.cur = g /\ cache'.prev = cache.prev /\ cache'.sum = cache.sum
  BY <1>4
<1>6. cache' = [sum |-> cache'.sum, cur |-> cache'.cur, prev |-> cache'.prev]
  BY <1>4, <1>5
<1> QED BY <1>1, <1>2, <1>5, <1>6 DEF CacheInv

\* A render is stored under its key and answers every request that joined.
LEMMA RenderStep ==
  ASSUME TailInv, NEW q \in Requests, Render(q)
  PROVE  TailInv'
<1>0. req[q].at = "render" /\ Rendered(req[q]) /\ UNCHANGED <<hh, migrations>> /\ readers' = readers \ {q} /\ DOMAIN req = Requests
  BY DEF Render, TailInv, RequestInv, RequestOK
<1>1. PICK fresh \in {NoAnswer, Rendering(req[q].obj, req[q].reads)}, stored \in BOOLEAN :
         /\ stored => fresh # NoAnswer
         /\ cache' = IF stored THEN [cache EXCEPT !.cur = Put(@, req[q].key, fresh)] ELSE cache
         /\ req' = [o \in Requests |->
                      IF o = q THEN Answered(req[q].floor, fresh)
                      ELSE IF req[o].at = "joined" /\ req[o].key = req[q].key
                           THEN [at |-> "woken", floor |-> req[o].floor, answer |-> fresh]
                           ELSE req[o]]
  BY DEF Render
<1>2. fresh # NoAnswer => /\ fresh.obj = req[q].obj
                          /\ fresh.tree.pages = IF req[q].reads THEN Tree ELSE {}
  BY <1>1, DigestPages
<1>3. fresh # NoAnswer => Keyed(req[q].key, fresh)
  BY <1>0, <1>2 DEF Rendered, KeyFor, Keyed
<1>4. CacheInv'
  <2>1. CASE cache' = cache
    BY <2>1 DEF TailInv, CacheInv
  <2>2. CASE fresh # NoAnswer /\ cache' = [cache EXCEPT !.cur = Put(@, req[q].key, fresh)]
    BY <1>3, <2>2, PutFaithful DEF TailInv
  <2> QED BY <1>1, <2>1, <2>2
<1>5. ASSUME NEW floor, floor.gen = req[q].key.sum
      PROVE  fresh # NoAnswer => fresh.obj.gen >= floor.gen
  <2>1. req[q].obj.gen \in {req[q].key.sum, req[q].key.sum + 1} /\ req[q].key.sum \in Int
    BY <1>0 DEF Rendered, KeyFor
  <2>2. req[q].obj.gen >= floor.gen
    BY <1>5, <2>1
  <2> QED BY <1>2, <2>2
<1>6. Tree' = Tree
  BY <1>0 DEF Tree
<1>7. ASSUME NEW o \in Requests PROVE RequestOK(o, req'[o], readers')
  <2>0. RequestOK(o, req[o], readers)
    BY DEF TailInv, RequestInv
  <2>1. CASE o = q
    <3>1. req'[o] = Answered(req[q].floor, fresh) /\ req[q].floor.gen = req[q].key.sum
      BY <1>0, <1>1, <2>1 DEF Rendered
    <3>2. req'[o].at = "done" /\ req'[o].answer = fresh /\ req'[o].floor = req[q].floor
      BY <3>1 DEF Answered
    <3>3. AnswerCurrent(req'[o])
      BY <1>5, <3>1, <3>2 DEF AnswerCurrent
    <3> QED BY <3>2, <3>3 DEF RequestOK
  <2>2. CASE o # q /\ req[o].at = "joined" /\ req[o].key = req[q].key
    <3>1. req'[o] = [at |-> "woken", floor |-> req[o].floor, answer |-> fresh]
      BY <1>1, <2>2
    <3>2. req[o].floor.gen = req[q].key.sum
      BY <2>0, <2>2 DEF RequestOK, Rendered
    <3>3. req'[o].at = "woken" /\ req'[o].floor = req[o].floor /\ req'[o].answer = fresh /\ Woken(req'[o])
      BY <3>1 DEF Woken
    <3>4. AnswerCurrent(req'[o])
      BY <1>5, <3>2, <3>3 DEF AnswerCurrent
    <3> QED BY <3>3, <3>4 DEF RequestOK
  <2>3. CASE o # q /\ ~(req[o].at = "joined" /\ req[o].key = req[q].key)
    <3>1. req'[o] = req[o]
      BY <1>1, <2>3
    <3> QED BY <1>0, <2>0, <2>3, <3>1 DEF RequestOK
  <2> QED BY <2>1, <2>2, <2>3
<1>8. \A o, x : RequestOK(o, x, readers') => RequestOK(o, x, readers)'
  BY <1>6 DEF RequestOK, Rendered
<1>9. RequestInv'
  <2>1. DOMAIN req' = Requests
    BY <1>1
  <2> QED BY <1>7, <1>8, <2>1 DEF RequestInv, RequestOK
<1> QED BY <1>0, <1>4, <1>9 DEF TailInv, MigrationInv

\* A background re-render is stored under its key.
LEMMA MigrateStep ==
  ASSUME TailInv, NEW m \in migrations, Migrate(m)
  PROVE  TailInv'
<1>0. /\ migrations' = migrations \ {m} /\ UNCHANGED <<hh, readers, req>> /\ KeyFor(m.key, m.obj, m.reads)
      /\ cache' = IF SeedUnmoved(m) THEN [cache EXCEPT !.cur = Put(@, m.key, Rendering(m.obj, m.reads))] ELSE cache
  BY DEF Migrate, TailInv, MigrationInv
<1>1. CacheInv'
  <2>1. CASE cache' = cache
    BY <2>1 DEF TailInv, CacheInv
  <2>2. CASE SeedUnmoved(m) /\ cache' = [cache EXCEPT !.cur = Put(@, m.key, Rendering(m.obj, m.reads))]
    <3>1. m.reads => m.key.tree = Digest
      BY <2>2 DEF SeedUnmoved
    <3>2. Keyed(m.key, Rendering(m.obj, m.reads))
      BY <1>0, <3>1, DigestPages DEF KeyFor, Keyed
    <3> QED BY <2>2, <3>2, PutFaithful DEF TailInv
  <2> QED BY <1>0, <2>1, <2>2
<1>2. MigrationInv'
  BY <1>0 DEF TailInv, MigrationInv
<1>3. Tree' = Tree
  BY <1>0 DEF Tree
<1>4. RequestInv'
  BY <1>0, <1>3 DEF TailInv, RequestInv, RequestOK, Rendered
<1> QED BY <1>1, <1>2, <1>4 DEF TailInv

-----------------------------------------------------------------------------
(* The theorems                                                            *)

\* A host that starts from a deployment satisfies the invariant.
LEMMA HostInit ==
  ASSUME Init
  PROVE  HostInv
<1>1. PICK s \in Scenarios :
        /\ store = [p \in s.names |->
                      IF \E q \in s.pages : q.name = p
                      THEN [spec |-> CHOOSE q \in s.pages : q.name = p,
                            obj |-> [page |-> p, gen |-> 1, uid |-> 0]]
                      ELSE NoPage]
        /\ hh = [host |-> IF s.started THEN crd ELSE NoHost, view |-> s.host, functions |-> s.functions,
                 res |-> 0, login |-> FALSE,
                 pub |-> [objs |-> IF s.started THEN [n \in {p.name : p \in s.pages \ s.fresh} |-> store[n].obj] ELSE <<>>,
                          pages |-> IF s.started THEN s.pages \ s.fresh ELSE {},
                          functions |-> IF s.started THEN s.functions ELSE {},
                          view |-> s.host, transl |-> 0]]
        /\ pc = [c \in Controllers |-> IF c = "page" /\ s.fresh # {} THEN "read" ELSE "idle"]
        /\ held = [c \in Controllers |-> NoPage]
        /\ cache = [sum |-> Checksum(crd), cur |-> <<>>, prev |-> <<>>]
        /\ req = [q \in Requests |-> Idle]
        /\ migrations = {}
  BY DEF Init
<1>a. /\ hh.pub.objs = IF s.started THEN [n \in {p.name : p \in s.pages \ s.fresh} |-> store[n].obj] ELSE <<>>
      /\ hh.pub.pages = IF s.started THEN s.pages \ s.fresh ELSE {}
      /\ "pub" \in DOMAIN hh
  BY <1>1
<1>2. ASSUME NEW n \in s.names, NEW q \in s.pages, q.name = n
      PROVE  /\ n \in DOMAIN store /\ store[n] = [spec |-> store[n].spec, obj |-> store[n].obj]
             /\ PageObject(store[n].obj) /\ store[n].spec.name = n
  <2> DEFINE c == CHOOSE q1 \in s.pages : q1.name = n
             o == [page |-> n, gen |-> 1, uid |-> 0]
  <2>1. c.name = n
    BY <1>2
  <2>2. store[n] = [spec |-> c, obj |-> o] /\ n \in DOMAIN store
    BY <1>1, <1>2
  <2>3. PageObject(o)
    BY DEF PageObject
  <2> HIDE DEF c, o
  <2> QED BY <2>1, <2>2, <2>3
<1>3. StoreInv
  <2>1. ASSUME NEW n \in DOMAIN store, store[n] # NoPage
        PROVE  n \in s.names /\ \E q \in s.pages : q.name = n
    BY <1>1, <2>1
  <2> QED BY <1>2, <2>1 DEF StoreInv
<1>4. Complete(hh.pub)
  <2>1. CASE ~s.started
    BY <1>a, <2>1 DEF Complete
  <2>2. CASE s.started
    <3>1. /\ hh.pub.pages = s.pages \ s.fresh
          /\ hh.pub.objs = [n \in {p.name : p \in s.pages \ s.fresh} |-> store[n].obj]
      BY <1>a, <2>2
    <3>2. ASSUME NEW p \in s.pages \ s.fresh PROVE p.name \in DOMAIN hh.pub.objs /\ PageObject(hh.pub.objs[p.name])
      <4>1. p.name \in s.names /\ p \in s.pages
        BY ScenariosAssumption
      <4>2. PageObject(store[p.name].obj)
        BY <1>2, <4>1
      <4> QED BY <3>1, <4>2
    <3> QED BY <3>1, <3>2 DEF Complete
  <2> QED BY <2>1, <2>2
<1>5. RebuildInv
  <2>1. /\ DOMAIN pc = Controllers /\ DOMAIN held = Controllers
        /\ \A c \in Controllers : pc[c] \notin {"built", "swap"}
    BY <1>1
  <2> QED BY <1>4, <1>a, <2>1 DEF RebuildInv
<1>6. CacheInv
  <2>1. cache.cur = <<>> /\ cache.prev = <<>> /\ cache.sum = Checksum(crd)
    BY <1>1
  <2>2. DOMAIN cache.cur = {} /\ DOMAIN cache.prev = {}
    BY <2>1
  <2> QED BY <1>1, <2>1, <2>2 DEF CacheInv, Faithful
<1>7. MigrationInv
  BY <1>1 DEF MigrationInv
<1>8. RequestInv
  <2>1. DOMAIN req = Requests /\ \A q \in Requests : req[q].at = "idle"
    BY <1>1 DEF Idle
  <2> QED BY <2>1 DEF RequestInv, RequestOK
<1> QED BY <1>3, <1>5, <1>6, <1>7, <1>8 DEF HostInv

\* Every step of controllers, requests and re-renders keeps the invariant.
LEMMA HostInvStep ==
  ASSUME HostInv, [Next]_vars
  PROVE  HostInv'
<1>0. StoreInv /\ RebuildInv /\ TailInv
  BY DEF HostInv, TailInv
<1>1. StoreInv' /\ RebuildInv'
  BY <1>0, StoreStep, RebuildStep
<1>2. CASE (\E c \in Controllers : ControllerStep(c)) \/ PageStep \/ ResourceStep \/ HostStep \/ UNCHANGED vars
  BY <1>0, <1>1, <1>2, ControllersUndisturbing, UndisturbedStep DEF HostInv, TailInv
<1>3. ASSUME NEW q \in Requests, RequestStep(q) PROVE TailInv'
  BY <1>0, <1>3, ServeHTTPStep, RewriteGateStep, LookupStep, RenderStep, JoinedStep DEF RequestStep
<1>4. ASSUME NEW m \in migrations, Migrate(m) PROVE TailInv'
  BY <1>0, <1>4, MigrateStep
<1> QED BY <1>1, <1>2, <1>3, <1>4 DEF Next, HostInv, TailInv

\* The store, the rebuilds in progress, both generations of the render cache,
\* the background re-renders and the requests in flight agree on the page, its
\* generation and the tree each render stands for, in every deployment whose
\* pages are among its names.
THEOREM HostCorrect == Spec => []HostInv
<1>1. Init => HostInv
  BY HostInit
<1>2. HostInv /\ [Next]_vars => HostInv'
  BY HostInvStep
<1> QED BY <1>1, <1>2, PTL DEF Spec

\* A render is cached under the key of the page, the generation and the tree it
\* was rendered from (the cache key of internal/host/page.go).
THEOREM CacheCorrect == Spec => []CachedUnderItsKey
<1>1. HostInv => CachedUnderItsKey
  BY DEF HostInv, CacheInv, Faithful, Keyed, CachedUnderItsKey
<1> QED BY <1>1, HostCorrect, PTL

\* No request is answered with an older generation of its page than the one its
\* handler has from the snapshot, through aliases, joined renders, re-renders and
\* the previous generation of the cache.
THEOREM AnswersCurrent == Spec => []ServedCurrent
<1>1. HostInv => ServedCurrent
  BY DEF HostInv, RequestInv, RequestOK, AnswerCurrent, ServedCurrent
<1> QED BY <1>1, HostCorrect, PTL

-----------------------------------------------------------------------------
(* The function controller: the invariant                                 *)

\* The states in which the executable is chosen.
Late == {"ExecutableAvailable", "FunctionDeployed", "Ready"}
\* The kinds whose image is built, and those whose source is generated.
Generated == {"regenerate", "generate"}
Built == {"source"} \cup Generated
\* The status a function with spec s may have once its generation is observed.
Sound(s, m) ==
  /\ s.kind = "executable" /\ m.state \in Late => m.executable = SpecImage(s)
  /\ s.kind \in Built /\ m.state \in Late => m.executable.src = BuildSource(s, m)
  /\ s.kind \in Generated /\ m.state \in Late \cup {"SourceAvailable"} =>
       m.source.from = "codegen" /\ m.source.api = s.api
  /\ s.kind = "backend" /\ m.state = "Ready" /\ m.cond = "Ready" =>
       m.url = "service" /\ m.executable = NoImage
BuiltFromSource(k) ==
  /\ k.observed <= k.gen
  /\ k.cond = "Ready" /\ k.observed = k.gen => k.latest.src = k.src

\* The settings considered: Jobs of others carry no name of ours, and what an
\* older binary left is sound.
ForeignNames(w) == \A j \in w.foreign : j.gen = 0
LegacySound(w) ==
  \A l \in w.legacy : /\ l.status.obs <= 1 /\ BuiltFromSource(l.kpack)
                      /\ l.status.obs = 1 => Sound(l.spec, l.status)

\* TypeOK with its setting
TypeInv == SettingOK(setting) /\ TypeOK
\* The cache trails the server.
LagInv ==
  /\ cached.gen <= fn.gen
  /\ cached.gen = fn.gen => cached.spec = fn.spec
  /\ Enrolled => fn.labelled /\ cached.labelled
\* A Job is of a generation there was.
JobsInv == ForeignNames(setting) =>
  \A j \in jobs :
    /\ j.gen <= fn.gen
    /\ j.app = "codegen" /\ j.gen = fn.gen => j.api = fn.spec.api
    /\ ~j.owned => j.gen = 0
SoundInv == ForeignNames(setting) /\ LegacySound(setting) =>
  /\ fn.status.obs <= fn.gen
  /\ BuiltFromSource(kpack)
  /\ Enrolled /\ fn.status.obs = fn.gen => Sound(fn.spec, fn.status)

FunctionInv == TypeInv /\ LagInv /\ JobsInv /\ SoundInv

-----------------------------------------------------------------------------
(* Records                                                                 *)

LEMMA StatusFields ==
  ASSUME NEW m \in Statuses
  PROVE  /\ m.state \in States /\ m.obs \in Nat /\ m.cond \in Conditions /\ m.url \in URLs
         /\ m.source \in Sources /\ m.generator \in Nat /\ m.executable \in Images
         /\ m.adaptor \in Nat /\ m.recApi \in Nat /\ m.recGenerator \in Nat
  BY DEF Statuses

LEMMA JobFields ==
  ASSUME NEW j \in Jobs
  PROVE  /\ j.app \in {"codegen", "deployer"} /\ j.gen \in Nat /\ j.image \in Images
         /\ j.adaptor \in Nat /\ j.api \in Nat /\ j.generator \in Nat
         /\ j.phase \in {"running", "succeeded", "terminal"} /\ j.owned \in BOOLEAN
  BY DEF Jobs

LEMMA KPackFields ==
  ASSUME NEW k \in KPacks
  PROVE  /\ k.fgen \in Nat /\ k.src \in Sources /\ k.gen \in Nat /\ k.observed \in Nat
         /\ k.latest \in Images /\ k.cond \in {"none", "Ready", "Failed"} /\ k.registry \in Nat
  BY DEF KPacks

LEMMA NilTypes == Nil \in Sources /\ NoImage \in Images /\ NoKPack \in KPacks
<1>1. Nil \in Sources
  BY DEF Nil, Sources
<1>2. NoImage \in Images
  BY <1>1 DEF NoImage, Images
<1> QED BY <1>1, <1>2 DEF NoKPack, KPacks

\* The inputs a spec names.
LEMMA SpecTypes ==
  ASSUME NEW s \in FunctionSpecs
  PROVE  SpecSource(s) \in Sources /\ SpecImage(s) \in Images
         /\ s.kind \in Kinds /\ s.api \in Nat /\ s.generator \in Nat
<1>1. s.rev \in Nat /\ s.kind \in Kinds /\ s.api \in Nat /\ s.generator \in Nat
  BY DEF FunctionSpecs
<1>2. SpecSource(s) \in Sources
  BY <1>1 DEF SpecSource, Sources
<1>3. [from |-> "image", rev |-> s.rev, api |-> 0, generator |-> 0] \in Sources
  BY <1>1 DEF Sources
<1>4. SpecImage(s) \in Images
  BY <1>3 DEF SpecImage, Images
<1> QED BY <1>1, <1>2, <1>4

LEMMA WithState ==
  ASSUME NEW m \in Statuses, NEW st \in States
  PROVE  LET n == [m EXCEPT !.state = st]
         IN  /\ n \in Statuses /\ n.state = st /\ n.source = m.source /\ n.executable = m.executable
             /\ n.obs = m.obs /\ n.generator = m.generator /\ n.cond = m.cond
  BY DEF Statuses

LEMMA WithCond ==
  ASSUME NEW m \in Statuses, NEW c \in Conditions
  PROVE  LET n == [m EXCEPT !.cond = c]
         IN  /\ n \in Statuses /\ n.state = m.state /\ n.source = m.source
             /\ n.executable = m.executable /\ n.obs = m.obs /\ n.generator = m.generator
             /\ n.cond = c
  BY DEF Statuses

LEMMA WithObs ==
  ASSUME NEW m \in Statuses, NEW o \in Nat
  PROVE  LET n == [m EXCEPT !.obs = o]
         IN  /\ n \in Statuses /\ n.state = m.state /\ n.source = m.source
             /\ n.executable = m.executable /\ n.obs = o /\ n.cond = m.cond /\ n.url = m.url
  BY DEF Statuses

\* The copy of the function with another status.
LEMMA WithStatus ==
  ASSUME NEW f \in Functions, NEW m \in Statuses
  PROVE  LET g == [f EXCEPT !.status = m]
         IN  /\ g \in Functions /\ g.spec = f.spec /\ g.gen = f.gen
             /\ g.labelled = f.labelled /\ g.status = m
  BY DEF Functions

LEMMA FunctionFields ==
  ASSUME TypeInv, NEW f \in Functions
  PROVE  /\ f.spec \in Specs /\ f.spec \in FunctionSpecs /\ f.gen \in 1..MaxGen /\ f.gen \in Nat
         /\ f.gen > 0 /\ f.labelled \in BOOLEAN /\ f.status \in Statuses /\ MaxGen \in Nat
<1>1. f.spec \in Specs /\ f.gen \in 1..MaxGen /\ f.labelled \in BOOLEAN /\ f.status \in Statuses
  BY DEF Functions
<1>2. Specs \subseteq FunctionSpecs /\ MaxGen \in Nat
  BY DEF TypeInv, SettingOK, Specs, MaxGen
<1>3. f.gen \in Nat /\ f.gen > 0
  BY <1>1, <1>2
<1> QED BY <1>1, <1>2, <1>3

-----------------------------------------------------------------------------
(* What a pass makes of the status before it dispatches                    *)

\* A newer generation starts over.
LEMMA EnteredStatus ==
  ASSUME TypeInv
  PROVE  LET n == Entered(cached)  m == cached.status
         IN  /\ n \in Statuses /\ n.source = m.source /\ n.executable = m.executable
             /\ n.generator = m.generator /\ n.cond = "Progressing"
             /\ m.obs < cached.gen => n.state = "Pending"
             /\ ~(m.obs < cached.gen) => n.state = m.state
<1>1. cached.status \in Statuses
  BY FunctionFields DEF TypeInv, TypeOK
<1> DEFINE c == IF cached.status.obs < cached.gen THEN "Pending" ELSE cached.status.state
<1>2. c \in States
  BY <1>1, StatusFields DEF States
<1>3. Entered(cached) = [cached.status EXCEPT !.state = c, !.cond = "Progressing"]
  BY DEF Entered
<1>4. "Progressing" \in Conditions
  BY DEF Conditions
<1> HIDE DEF c
<1>5. /\ Entered(cached) \in Statuses /\ Entered(cached).source = cached.status.source
      /\ Entered(cached).executable = cached.status.executable
      /\ Entered(cached).generator = cached.status.generator
      /\ Entered(cached).state = c /\ Entered(cached).cond = "Progressing"
  BY <1>1, <1>2, <1>3, <1>4 DEF Statuses
<1> QED BY <1>5 DEF c

\* Another adaptor sends the function back to OpenAPIValid.
LEMMA AdaptedStatus ==
  ASSUME TypeInv, NEW m \in Statuses
  PROVE  LET n == Adapted(m)
         IN  /\ n \in Statuses /\ n.source = m.source /\ n.executable = m.executable
             /\ n.generator = m.generator /\ n.cond = m.cond
             /\ n.state \in {m.state, "OpenAPIValid"}
<1>1. adaptor \in Nat
  BY DEF TypeInv, TypeOK, SettingOK, MaxAdaptor
<1>2. "OpenAPIValid" \in States
  BY DEF States
<1> QED BY <1>1, <1>2 DEF Adapted, Statuses

\* A pass starts from the stored status or from an earlier state.
LEMMA LoadedStatus ==
  ASSUME TypeInv
  PROVE  /\ Loaded \in Statuses /\ Loaded.source = cached.status.source
         /\ Loaded.executable = cached.status.executable
         /\ Loaded.generator = cached.status.generator /\ Loaded.cond = "Progressing"
         /\ \/ Loaded.state \in {"Pending", "OpenAPIValid"}
            \/ ~(cached.status.obs < cached.gen) /\ Loaded.state = cached.status.state
            \/ /\ ~(cached.status.obs < cached.gen) /\ cached.status.state = "Ready"
               /\ Loaded.state \in {"SourceAvailable", "BuildValid"}
<1> DEFINE e == Entered(cached)
           a == Adapted(e)
           d == IF Drifted(cached.spec, a) THEN [a EXCEPT !.state = "SourceAvailable"] ELSE a
<1>1. /\ e \in Statuses /\ e.source = cached.status.source
      /\ e.executable = cached.status.executable /\ e.generator = cached.status.generator
      /\ e.cond = "Progressing"
      /\ cached.status.obs < cached.gen => e.state = "Pending"
      /\ ~(cached.status.obs < cached.gen) => e.state = cached.status.state
  BY EnteredStatus
<1>2. /\ a \in Statuses /\ a.source = e.source /\ a.executable = e.executable
      /\ a.generator = e.generator /\ a.cond = e.cond /\ a.state \in {e.state, "OpenAPIValid"}
  BY <1>1, AdaptedStatus
<1>3. "SourceAvailable" \in States /\ "BuildValid" \in States
  BY DEF States
<1> HIDE DEF a, e
<1>4. /\ d \in Statuses /\ d.source = a.source /\ d.executable = a.executable
      /\ d.generator = a.generator /\ d.cond = a.cond
      /\ d.state = a.state \/ (a.state = "Ready" /\ d.state = "SourceAvailable")
  BY <1>2, <1>3, WithState DEF Drifted
<1>5. Loaded = IF Stale(cached.spec, d) THEN [d EXCEPT !.state = "BuildValid"] ELSE d
  BY DEF Loaded, a, e
<1> HIDE DEF d
<1>6. /\ Loaded \in Statuses /\ Loaded.source = d.source /\ Loaded.executable = d.executable
      /\ Loaded.generator = d.generator /\ Loaded.cond = d.cond
      /\ Loaded.state = d.state \/ (d.state = "Ready" /\ Loaded.state = "BuildValid")
  BY <1>3, <1>4, <1>5, WithState DEF Stale
<1> QED BY <1>1, <1>2, <1>4, <1>6

\* The hypotheses under which a status is sound.
Dependable == ForeignNames(setting) /\ LegacySound(setting) /\ Enrolled

\* The status a pass starts from is sound for the spec it read.
LEMMA LoadedSound ==
  ASSUME FunctionInv, cached = fn, Dependable
  PROVE  /\ Sound(cached.spec, Loaded) /\ Sound(cached.spec, Entered(cached))
         /\ Sound(cached.spec, Adapted(Entered(cached)))
<1>1. TypeInv
  BY DEF FunctionInv
<1>2. fn.status \in Statuses /\ fn.gen \in Nat /\ fn.status.obs \in Nat
  BY <1>1, FunctionFields, StatusFields DEF TypeInv, TypeOK
<1>3. fn.status.obs <= fn.gen /\ (fn.status.obs = fn.gen => Sound(fn.spec, fn.status))
  BY DEF FunctionInv, SoundInv, Dependable
<1>4. ~(fn.status.obs < fn.gen) => Sound(fn.spec, fn.status)
  BY <1>2, <1>3
<1>5. Sound(fn.spec, Loaded)
  BY <1>1, <1>4, LoadedStatus DEF Sound, Late, BuildSource
<1>6. Sound(fn.spec, Entered(fn))
  BY <1>1, <1>4, EnteredStatus DEF Sound, Late, BuildSource
<1>7. Sound(fn.spec, Adapted(Entered(fn)))
  BY <1>1, <1>4, EnteredStatus, AdaptedStatus DEF Sound, Late, BuildSource
<1> QED BY <1>5, <1>6, <1>7

-----------------------------------------------------------------------------
(* What a pass writes                                                      *)

\* The status write of a pass: none, one of a status that is sound, or one that
\* follows the patch of a label.
Pass ==
  \/ fn' = fn
  \/ /\ cached = fn
     /\ \E m \in Statuses :
          /\ fn' = [fn EXCEPT !.status = [m EXCEPT !.obs = fn.gen]]
          /\ Dependable => Sound(fn.spec, m)
  \/ /\ ~cached.labelled
     /\ fn' \in Functions /\ fn'.spec = fn.spec /\ fn'.gen = fn.gen /\ fn'.labelled
     /\ fn'.status.obs \in {fn.status.obs, fn.gen}

\* The deferred status write.
LEMMA WritePass ==
  ASSUME FunctionInv, NEW lost \in BOOLEAN, NEW m \in Statuses, Write(lost, m),
         cached = fn /\ Dependable => Sound(cached.spec, m)
  PROVE  Pass
  BY DEF Write, Pass

\* The status write after the observer label.
LEMMA ObservedPass ==
  ASSUME FunctionInv, NEW lost \in BOOLEAN, NEW m \in Statuses, WriteObserved(lost, m),
         cached = fn /\ Dependable => Sound(cached.spec, m)
  PROVE  Pass
<1>1. fn \in Functions /\ fn.gen \in Nat /\ fn.status \in Statuses /\ cached.labelled \in BOOLEAN
  BY FunctionFields DEF FunctionInv, TypeInv, TypeOK
<1>2. CASE cached.labelled
  BY <1>2 DEF WriteObserved, Enrolling, Pass
<1>3. CASE ~cached.labelled
  <2> DEFINE g == [fn EXCEPT !.labelled = TRUE]
  <2>1. /\ g \in Functions /\ g.spec = fn.spec /\ g.gen = fn.gen /\ g.labelled = TRUE
        /\ g.status = fn.status
    BY <1>1 DEF Functions
  <2>2. Observed = g
    BY <1>3 DEF Observed, Enrolling
  <2>3. fn' = IF lost THEN g ELSE [g EXCEPT !.status = [m EXCEPT !.obs = g.gen]]
    BY <1>3, <2>2 DEF WriteObserved, Enrolling
  <2> HIDE DEF g
  <2>4. [m EXCEPT !.obs = g.gen] \in Statuses /\ [m EXCEPT !.obs = g.gen].obs = fn.gen
    BY <1>1, <2>1, WithObs
  <2>5. LET h == [g EXCEPT !.status = [m EXCEPT !.obs = g.gen]]
        IN  h \in Functions /\ h.spec = g.spec /\ h.gen = g.gen /\ h.labelled = g.labelled
            /\ h.status = [m EXCEPT !.obs = g.gen]
    BY <2>1, <2>4, WithStatus
  <2> QED BY <1>3, <2>1, <2>3, <2>4, <2>5 DEF Pass
<1> QED BY <1>1, <1>2, <1>3

-----------------------------------------------------------------------------
(* What a step makes of the Jobs and the Image                             *)

Alike(k, j) == k.app = j.app /\ k.gen = j.gen /\ k.api = j.api /\ k.owned = j.owned
Fresh(k) == /\ k.gen = cached.gen /\ k.owned
            /\ k.app = "codegen" => k.api = cached.spec.api
JobsStep ==
  /\ jobs' \subseteq Jobs
  /\ \A k \in jobs' : Fresh(k) \/ \E j \in jobs : Alike(k, j)
\* The Jobs a step may not delete are there after it.
KeptStep == ForeignNames(setting) =>
  \A j \in jobs : Waiting(j) \/ ~j.owned => ~Deleted(j)
KPackStep == kpack' \in KPacks /\ (BuiltFromSource(kpack) => BuiltFromSource(kpack'))

PassStep == Pass /\ JobsStep /\ KeptStep /\ KPackStep /\ UNCHANGED <<cached, env>>

LEMMA JobsAlone ==
  ASSUME TypeInv, UNCHANGED jobs
  PROVE  JobsStep /\ KeptStep
  BY DEF TypeInv, TypeOK, JobsStep, KeptStep, Alike, Deleted, SameName

LEMMA KPackAlone ==
  ASSUME TypeInv, UNCHANGED kpack
  PROVE  KPackStep
  BY DEF TypeInv, TypeOK, KPackStep

\* A pass that touches neither Jobs nor Image.
LEMMA StatusOnly ==
  ASSUME FunctionInv, Pass, UNCHANGED <<cached, jobs, kpack, env>>
  PROVE  PassStep
  BY JobsAlone, KPackAlone DEF FunctionInv, PassStep

\* The Jobs a pass asks for carry the generation and the API it read.
LEMMA NewJobs ==
  ASSUME TypeInv
  PROVE  LET g == GenerateJob(cached, Loaded)  d == DeployJob(cached, Loaded)
         IN  g \in Jobs /\ d \in Jobs /\ Fresh(g) /\ Fresh(d) /\ g.gen = cached.gen /\ d.gen = cached.gen
             /\ g.app = "codegen" /\ d.app = "deployer"
<1>1. cached.gen \in Nat /\ cached.spec.api \in Nat
  BY FunctionFields, SpecTypes DEF TypeInv, TypeOK
<1>2. Loaded.generator \in Nat /\ Loaded.executable \in Images /\ Loaded.adaptor \in Nat
  BY LoadedStatus, StatusFields
<1> QED BY <1>1, <1>2, NilTypes DEF GenerateJob, DeployJob, NewJob, Jobs, Fresh

\* Get or Create returns a Job of the name.
LEMMA ObtainedJob ==
  ASSUME TypeInv, NEW new \in Jobs
  PROVE  /\ Obtained(new) \in jobs \cup {new} /\ Obtained(new) \in Jobs
         /\ SameName(Obtained(new), new)
<1>1. CASE \E j \in jobs : SameName(j, new)
  <2>1. Obtained(new) = CHOOSE j \in jobs : SameName(j, new)
    BY <1>1 DEF Obtained
  <2>2. Obtained(new) \in jobs /\ SameName(Obtained(new), new)
    BY <1>1, <2>1
  <2> QED BY <2>2 DEF TypeInv, TypeOK
<1>2. CASE ~ \E j \in jobs : SameName(j, new)
  BY <1>2 DEF Obtained, SameName
<1> QED BY <1>1, <1>2

\* The sweep spares the Jobs that may not be deleted.
LEMMA SweepKeeps ==
  ASSUME TypeInv,
         \A k \in jobs' : k \in jobs \/ (k \in Jobs /\ Fresh(k)),
         \A j \in jobs : j \notin jobs' => j.owned /\ ~Waiting(j)
  PROVE  JobsStep /\ KeptStep
<1>1. JobsStep
  BY DEF TypeInv, TypeOK, JobsStep, Alike
<1>2. KeptStep
  BY DEF KeptStep, Deleted, SameName
<1> QED BY <1>1, <1>2

\* A finished Job that a pass of a generation examined may be deleted.
LEMMA DropKeeps ==
  ASSUME FunctionInv, NEW j \in Jobs, ~Waiting(j), j.gen = cached.gen, jobs' = jobs \ {j}
  PROVE  JobsStep /\ KeptStep
<1>1. JobsStep
  BY DEF FunctionInv, TypeInv, TypeOK, JobsStep, Alike
<1>2. cached.gen > 0 /\ cached.gen \in Nat
  BY FunctionFields DEF FunctionInv, TypeInv, TypeOK
<1>3. ASSUME ForeignNames(setting), NEW i \in jobs, Waiting(i) \/ ~i.owned
      PROVE  i \in jobs'
  <2>1. ~i.owned => i.gen = 0
    BY <1>3 DEF FunctionInv, JobsInv
  <2>2. i # j
    BY <1>2, <1>3, <2>1
  <2> QED BY <2>2
<1>4. KeptStep
  BY <1>3 DEF KeptStep, Deleted, SameName
<1> QED BY <1>1, <1>4

-----------------------------------------------------------------------------
(* The handlers                                                            *)

\* A condition does not change what the status says.
LEMMA DegradedStatus ==
  ASSUME NEW m \in Statuses, NEW s
  PROVE  Degraded(m) \in Statuses /\ (Sound(s, m) => Sound(s, Degraded(m)))
<1>1. "Degraded" \in Conditions
  BY DEF Conditions
<1> QED BY <1>1, WithCond DEF Degraded, Sound, BuildSource

\* Nothing is claimed before the source is there.
LEMMA EarlyStatus ==
  ASSUME NEW m \in Statuses, NEW st \in {"Pending", "OpenAPIValid", "BuildValid"}, NEW s
  PROVE  Moved(m, st) \in Statuses /\ Sound(s, Moved(m, st))
<1>1. st \in States
  BY DEF States
<1> QED BY <1>1, WithState DEF Moved, Sound, Late

\* The executable of the spec is sound for it.
LEMMA SpecExecutable ==
  ASSUME NEW m \in Statuses, NEW s \in FunctionSpecs, s.kind = "executable"
  PROVE  LET n == [m EXCEPT !.executable = SpecImage(s), !.state = "ExecutableAvailable"]
         IN  n \in Statuses /\ Sound(s, n)
<1>1. "ExecutableAvailable" \in States
  BY DEF States
<1>2. SpecImage(s) \in Images
  BY SpecTypes
<1> DEFINE n == [m EXCEPT !.executable = SpecImage(s), !.state = "ExecutableAvailable"]
<1>3. n \in Statuses /\ n.executable = SpecImage(s)
  BY <1>1, <1>2 DEF Statuses
<1> HIDE DEF n
<1>4. n \in Statuses /\ Sound(s, n)
  BY <1>3 DEF Sound, Built, Generated
<1> QED BY <1>4 DEF n

LEMMA ReferenceMissingPass ==
  ASSUME FunctionInv, NEW lost \in BOOLEAN, ReferenceMissing(lost)
  PROVE  PassStep
<1>1. TypeInv
  BY DEF FunctionInv
<1> DEFINE e == Entered(cached)
           a == Adapted(e)
<1>2. e \in Statuses /\ a \in Statuses
  BY <1>1, EnteredStatus, AdaptedStatus
<1>3. ASSUME cached = fn, Dependable
      PROVE  Sound(cached.spec, e) /\ Sound(cached.spec, a)
  BY <1>3, LoadedSound, Zenon
<1>4. Write(lost, Degraded(e)) \/ Write(lost, Degraded(a))
  BY DEF ReferenceMissing
<1> HIDE DEF e, a
<1>5. /\ Degraded(e) \in Statuses /\ (cached = fn /\ Dependable => Sound(cached.spec, Degraded(e)))
      /\ Degraded(a) \in Statuses /\ (cached = fn /\ Dependable => Sound(cached.spec, Degraded(a)))
  BY <1>2, <1>3, DegradedStatus
<1>6. Pass
  BY <1>4, <1>5, WritePass
<1> QED BY <1>6, StatusOnly DEF ReferenceMissing

LEMMA HandlePendingPass ==
  ASSUME FunctionInv, NEW lost \in BOOLEAN, HandlePending(lost)
  PROVE  PassStep
<1>1. Loaded \in Statuses
  BY LoadedStatus DEF FunctionInv
<1>2. Moved(Loaded, "OpenAPIValid") \in Statuses /\ Sound(cached.spec, Moved(Loaded, "OpenAPIValid"))
  BY <1>1, EarlyStatus
<1>3. Pass
  BY <1>2, WritePass DEF HandlePending
<1> QED BY <1>3, StatusOnly DEF HandlePending

\* handleOpenAPIValid
LEMMA HandleOpenAPIValidPass ==
  ASSUME FunctionInv, NEW lost \in BOOLEAN, HandleOpenAPIValid(lost)
  PROVE  PassStep
<1> SUFFICES Pass
  BY StatusOnly DEF HandleOpenAPIValid
<1>1. TypeInv
  BY DEF FunctionInv
<1>2. Loaded \in Statuses /\ cached.spec \in FunctionSpecs
  BY <1>1, LoadedStatus, FunctionFields DEF TypeInv, TypeOK
<1>3. PICK m : /\ Write(lost, m)
               /\ \/ /\ cached.spec.kind = "executable"
                     /\ m = [Loaded EXCEPT !.executable = SpecImage(cached.spec),
                                           !.state = "ExecutableAvailable"]
                  \/ cached.spec.kind = "source" /\ m = Moved(Loaded, "SourceAvailable")
                  \/ m = Degraded(Loaded)
                  \/ m = [Loaded EXCEPT !.generator = ResolvedGenerator, !.state = "BuildValid"]
  BY Zenon DEF HandleOpenAPIValid
<1>4. CASE /\ cached.spec.kind = "executable"
           /\ m = [Loaded EXCEPT !.executable = SpecImage(cached.spec),
                                 !.state = "ExecutableAvailable"]
  BY <1>2, <1>3, <1>4, SpecExecutable, WritePass
<1>5. CASE cached.spec.kind = "source" /\ m = Moved(Loaded, "SourceAvailable")
  <2>1. "SourceAvailable" \in States
    BY DEF States
  <2>2. m \in Statuses /\ m.state = "SourceAvailable"
    BY <1>2, <1>5, <2>1, WithState DEF Moved
  <2>3. Sound(cached.spec, m)
    BY <1>5, <2>2 DEF Sound, Late, Generated
  <2> QED BY <1>3, <2>2, <2>3, WritePass
<1>6. CASE m = Degraded(Loaded)
  BY <1>2, <1>3, <1>6, DegradedStatus, LoadedSound, WritePass
<1>7. CASE m = [Loaded EXCEPT !.generator = ResolvedGenerator, !.state = "BuildValid"]
  <2>1. ResolvedGenerator \in Nat
    BY <1>1, <1>2, SpecTypes DEF ResolvedGenerator, TypeInv, TypeOK, SettingOK, MaxAdaptor
  <2>2. "BuildValid" \in States
    BY DEF States
  <2>3. m \in Statuses /\ m.state = "BuildValid"
    BY <1>2, <1>7, <2>1, <2>2 DEF Statuses
  <2>4. Sound(cached.spec, m)
    BY <2>3 DEF Sound, Late
  <2> QED BY <1>3, <2>3, <2>4, WritePass
<1> QED BY <1>3, <1>4, <1>5, <1>6, <1>7

\* handleBuildValid without codegen
LEMMA BuildValidDirectPass ==
  ASSUME FunctionInv, NEW lost \in BOOLEAN, BuildValidDirect(lost)
  PROVE  PassStep
<1> SUFFICES Pass
  BY StatusOnly DEF BuildValidDirect
<1>1. TypeInv
  BY DEF FunctionInv
<1>2. Loaded \in Statuses /\ cached.spec \in FunctionSpecs /\ Loaded.source \in Sources
  BY <1>1, LoadedStatus, FunctionFields, StatusFields DEF TypeInv, TypeOK
<1> DEFINE src == IF Pinned(Loaded.source) THEN Loaded.source ELSE SpecSource(cached.spec)
<1>3. PICK m : /\ Write(lost, m)
               /\ \/ /\ cached.spec.kind = "executable"
                     /\ m = [Loaded EXCEPT !.executable = SpecImage(cached.spec),
                                           !.state = "ExecutableAvailable"]
                  \/ /\ ShouldSkipCodegen(cached.spec, Loaded)
                     /\ m = [Loaded EXCEPT !.source = src, !.state = "SourceAvailable"]
  BY DEF BuildValidDirect
<1>4. CASE /\ cached.spec.kind = "executable"
           /\ m = [Loaded EXCEPT !.executable = SpecImage(cached.spec),
                                 !.state = "ExecutableAvailable"]
  BY <1>2, <1>3, <1>4, SpecExecutable, WritePass
<1>5. CASE /\ ShouldSkipCodegen(cached.spec, Loaded)
           /\ m = [Loaded EXCEPT !.source = src, !.state = "SourceAvailable"]
  <2>1. "SourceAvailable" \in States /\ src \in Sources
    BY <1>2, SpecTypes DEF States
  <2> HIDE DEF src
  <2>2. m \in Statuses /\ m.state = "SourceAvailable"
    BY <1>2, <1>5, <2>1 DEF Statuses
  <2>3. Sound(cached.spec, m)
    BY <1>5, <2>2 DEF Sound, ShouldSkipCodegen, Late, Generated
  <2> QED BY <1>3, <2>2, <2>3, WritePass
<1> QED BY <1>3, <1>4, <1>5

\* A pass that leaves the status as it loaded it, or Degraded.
LEMMA LoadedPass ==
  ASSUME FunctionInv, NEW lost \in BOOLEAN, Write(lost, Loaded) \/ Write(lost, Degraded(Loaded))
  PROVE  Pass
<1>1. Loaded \in Statuses
  BY LoadedStatus DEF FunctionInv
<1> QED BY <1>1, DegradedStatus, LoadedSound, WritePass

\* The passes that wait or give up.
LEMMA WaitingPass ==
  ASSUME FunctionInv, NEW lost \in BOOLEAN,
         \/ NoGitSecret(lost) \/ NilGenerator(lost) \/ CodegenTerminal(lost)
         \/ SourceUnbuildable(lost) \/ DeployRefused(lost)
  PROVE  PassStep
<1>1. Pass /\ UNCHANGED <<cached, jobs, kpack, env>>
  BY LoadedPass DEF NoGitSecret, NilGenerator, CodegenTerminal, SourceUnbuildable, DeployRefused
<1> QED BY <1>1, StatusOnly

LEMMA SourceExecutablePass ==
  ASSUME FunctionInv, NEW lost \in BOOLEAN, SourceExecutable(lost)
  PROVE  PassStep
<1>1. Loaded \in Statuses /\ cached.spec \in FunctionSpecs
  BY LoadedStatus, FunctionFields DEF FunctionInv, TypeInv, TypeOK
<1>2. Pass
  BY <1>1, SpecExecutable, WritePass DEF SourceExecutable
<1> QED BY <1>2, StatusOnly DEF SourceExecutable

\* The Job a pass examines is named by the generation it works from.
LEMMA ExaminedJobs ==
  ASSUME TypeInv
  PROVE  /\ CodegenJob \in Jobs /\ CodegenJob.gen = cached.gen /\ CodegenJob.app = "codegen"
         /\ CodegenJob \in jobs \/ CodegenJob = GenerateJob(cached, Loaded)
         /\ Fresh(CodegenJob) \/ CodegenJob \in jobs
         /\ DeployerJob \in Jobs /\ DeployerJob.gen = cached.gen
         /\ Fresh(DeployerJob) \/ DeployerJob \in jobs
<1> DEFINE g == GenerateJob(cached, Loaded)
           d == DeployJob(cached, Loaded)
<1>1. /\ g \in Jobs /\ d \in Jobs /\ Fresh(g) /\ Fresh(d) /\ g.gen = cached.gen
      /\ d.gen = cached.gen /\ g.app = "codegen"
  BY NewJobs
<1>2. CodegenJob = Obtained(g) /\ DeployerJob = Obtained(d)
  BY DEF CodegenJob, DeployerJob
<1> HIDE DEF g, d
<1>3. /\ CodegenJob \in jobs \cup {g} /\ CodegenJob \in Jobs /\ SameName(CodegenJob, g)
      /\ DeployerJob \in jobs \cup {d} /\ DeployerJob \in Jobs /\ SameName(DeployerJob, d)
  BY <1>1, <1>2, ObtainedJob
<1> QED BY <1>1, <1>3 DEF SameName, g

\* handleBuildValid waits, and sweeps the Jobs of other generations.
LEMMA CodegenWaitPass ==
  ASSUME FunctionInv, NEW lost \in BOOLEAN, CodegenWait(lost)
  PROVE  PassStep
<1>1. TypeInv
  BY DEF FunctionInv
<1>2. CodegenJob \in Jobs /\ (Fresh(CodegenJob) \/ CodegenJob \in jobs)
  BY <1>1, ExaminedJobs
<1>3. jobs' = (jobs \cup {CodegenJob}) \ Obsolete("codegen", cached.gen, {})
  BY DEF CodegenWait
<1>4. JobsStep /\ KeptStep
  BY <1>1, <1>2, <1>3, SweepKeeps DEF Obsolete
<1>5. Pass
  BY LoadedPass DEF CodegenWait
<1> QED BY <1>1, <1>4, <1>5, KPackAlone DEF CodegenWait, PassStep

\* handleBuildValid drops a finished Job that reports nothing.
LEMMA CodegenDropPass ==
  ASSUME FunctionInv, NEW lost \in BOOLEAN, CodegenDrop(lost)
  PROVE  PassStep
<1>1. TypeInv
  BY DEF FunctionInv
<1>2. CodegenJob \in Jobs /\ CodegenJob.gen = cached.gen
  BY <1>1, ExaminedJobs
<1>3. ~Waiting(CodegenJob) /\ jobs' = jobs \ {CodegenJob} /\ Write(lost, Degraded(Loaded))
  BY DEF CodegenDrop, DropJob
<1>4. JobsStep /\ KeptStep
  BY <1>2, <1>3, DropKeeps
<1>5. Pass
  BY <1>3, LoadedPass
<1> QED BY <1>1, <1>4, <1>5, KPackAlone DEF CodegenDrop, PassStep

\* handleExecutableAvailable drops a finished Job that reports nothing.
LEMMA DeployDropPass ==
  ASSUME FunctionInv, NEW lost \in BOOLEAN, DeployDrop(lost)
  PROVE  PassStep
<1>1. TypeInv
  BY DEF FunctionInv
<1>2. DeployerJob \in Jobs /\ DeployerJob.gen = cached.gen
  BY <1>1, ExaminedJobs
<1>3. ~Waiting(DeployerJob) /\ jobs' = jobs \ {DeployerJob} /\ Write(lost, Degraded(Loaded))
  BY DEF DeployDrop, DropJob
<1>4. JobsStep /\ KeptStep
  BY <1>2, <1>3, DropKeeps
<1>5. Pass
  BY <1>3, LoadedPass
<1> QED BY <1>1, <1>4, <1>5, KPackAlone DEF DeployDrop, PassStep

LEMMA DeployWaitPass ==
  ASSUME FunctionInv, NEW lost \in BOOLEAN, DeployWait(lost)
  PROVE  PassStep
<1>1. TypeInv
  BY DEF FunctionInv
<1>2. DeployerJob \in Jobs /\ (Fresh(DeployerJob) \/ DeployerJob \in jobs)
  BY <1>1, ExaminedJobs
<1>3. jobs' = (jobs \cup {DeployerJob}) \ Obsolete("deployer", cached.gen, {DeployerJob})
  BY DEF DeployWait
<1>4. JobsStep /\ KeptStep
  BY <1>1, <1>2, <1>3, SweepKeeps DEF Obsolete
<1>5. Pass
  BY LoadedPass DEF DeployWait
<1> QED BY <1>1, <1>4, <1>5, KPackAlone DEF DeployWait, PassStep

LEMMA DeployTerminalPass ==
  ASSUME FunctionInv, NEW lost \in BOOLEAN, DeployTerminal(lost)
  PROVE  PassStep
<1>1. TypeInv
  BY DEF FunctionInv
<1>2. jobs' = (jobs \cup {}) \ Obsolete("deployer", cached.gen, {DeployerJob})
  BY DEF DeployTerminal
<1>3. JobsStep /\ KeptStep
  BY <1>1, <1>2, SweepKeeps DEF Obsolete
<1>4. Pass
  BY LoadedPass DEF DeployTerminal
<1> QED BY <1>1, <1>3, <1>4, KPackAlone DEF DeployTerminal, PassStep

\* What codegen pushed is what the API of the function asked for.
LEMMA CodegenDonePass ==
  ASSUME FunctionInv, NEW lost \in BOOLEAN, CodegenDone(lost)
  PROVE  PassStep
<1>1. TypeInv
  BY DEF FunctionInv
<1> DEFINE j == CodegenJob
           src == GeneratedSource(j)
           m == [Loaded EXCEPT !.source = src, !.recApi = cached.spec.api,
                               !.recGenerator = Loaded.generator]
           n == Moved(m, "SourceAvailable")
<1>2. /\ j \in Jobs /\ j.gen = cached.gen /\ j.app = "codegen"
      /\ j \in jobs \/ j = GenerateJob(cached, Loaded)
  BY <1>1, ExaminedJobs
<1>3. ~Waiting(j) /\ Loaded.state = "BuildValid"
  BY DEF CodegenDone, Readable, Waiting, Codegen, NeedsCodegen, At
<1>4. \/ jobs' = jobs \ {j} /\ Write(lost, Degraded(m))
      \/ UNCHANGED jobs /\ Write(lost, n)
  BY DEF CodegenDone
<1>5. JobsStep /\ KeptStep
  BY <1>1, <1>2, <1>3, <1>4, DropKeeps, JobsAlone
<1>6. /\ Loaded \in Statuses /\ cached.spec.api \in Nat /\ Loaded.generator \in Nat
      /\ src \in Sources /\ src.api = j.api /\ src.from = "codegen"
  <2>1. Loaded \in Statuses /\ cached.spec.api \in Nat /\ Loaded.generator \in Nat
    BY <1>1, LoadedStatus, StatusFields, FunctionFields, SpecTypes DEF TypeInv, TypeOK
  <2>2. j.api \in Nat /\ j.generator \in Nat
    BY <1>2, JobFields
  <2> HIDE DEF j
  <2>3. src \in Sources /\ src.api = j.api /\ src.from = "codegen"
    BY <2>2 DEF GeneratedSource, Sources
  <2> QED BY <2>1, <2>3
<1>7. ASSUME cached = fn, Dependable
      PROVE  j.api = cached.spec.api
  <2>1. CASE j \in jobs
    BY <1>2, <1>7, <2>1 DEF FunctionInv, JobsInv, Dependable
  <2>2. CASE j = GenerateJob(cached, Loaded)
    BY <2>2 DEF GenerateJob, NewJob
  <2> QED BY <1>2, <2>1, <2>2
<1> HIDE DEF src, j
<1>8. m \in Statuses /\ m.state = "BuildValid" /\ m.source = src
  BY <1>3, <1>6 DEF Statuses
<1>9. "SourceAvailable" \in States
  BY DEF States
<1> HIDE DEF m
<1>10. n \in Statuses /\ n.state = "SourceAvailable" /\ n.source = src
  BY <1>8, <1>9, WithState DEF Moved
<1> HIDE DEF n
<1>11. Sound(cached.spec, m)
  BY <1>8 DEF Sound, Late
<1>12. ASSUME cached = fn, Dependable
       PROVE  Sound(cached.spec, n)
  BY <1>6, <1>7, <1>10, <1>12 DEF Sound, Late
<1>13. Degraded(m) \in Statuses /\ Sound(cached.spec, Degraded(m))
  BY <1>8, <1>11, DegradedStatus
<1>14. Pass
  BY <1>4, <1>10, <1>12, <1>13, WritePass
<1> QED BY <1>1, <1>5, <1>14, KPackAlone DEF CodegenDone, PassStep

-----------------------------------------------------------------------------
(* The kpack Image                                                         *)

\* A patch that changes the Image outdates what kpack observed.
LEMMA PatchedImage ==
  ASSUME TypeInv
  PROVE  /\ Patched \in KPacks /\ Patched.src = BuildSource(cached.spec, Loaded)
         /\ BuiltFromSource(kpack) => BuiltFromSource(Patched)
<1> DEFINE src == BuildSource(cached.spec, Loaded)
           up == kpack.gen + 1
           k == [kpack EXCEPT !.src = src, !.fgen = cached.gen, !.gen = up, !.registry = registry]
<1>1. kpack \in KPacks /\ cached.gen \in Nat /\ registry \in Nat /\ cached.spec \in FunctionSpecs
  BY FunctionFields DEF TypeInv, TypeOK, SettingOK, MaxRegistry
<1>2. src \in Sources
  BY <1>1, LoadedStatus, StatusFields, SpecTypes, NilTypes DEF BuildSource
<1>3. kpack.gen \in Nat /\ kpack.observed \in Nat
  BY <1>1, KPackFields
<1>4. (Patched = kpack /\ kpack.src = src) \/ Patched = k
  BY DEF Patched
<1>5. up \in Nat /\ up = kpack.gen + 1
  BY <1>3
<1> HIDE DEF src, up
<1>6. k \in KPacks /\ k.src = src /\ k.gen = up /\ k.observed = kpack.observed
  BY <1>1, <1>2, <1>5 DEF KPacks
<1> HIDE DEF k
<1>7. BuiltFromSource(kpack) => BuiltFromSource(k)
  BY <1>3, <1>5, <1>6 DEF BuiltFromSource
<1>8. Patched \in KPacks /\ Patched.src = src /\ (BuiltFromSource(kpack) => BuiltFromSource(Patched))
  BY <1>1, <1>4, <1>6, <1>7
<1> QED BY <1>8 DEF src

LEMMA ImageImmutablePass ==
  ASSUME FunctionInv, NEW lost \in BOOLEAN, ImageImmutable(lost)
  PROVE  PassStep
<1>1. Pass
  BY LoadedPass DEF ImageImmutable
<1>2. BuiltFromSource(NoKPack)
  BY DEF BuiltFromSource, NoKPack
<1>3. KPackStep
  BY <1>2, NilTypes DEF ImageImmutable, KPackStep
<1> QED BY <1>1, <1>3, JobsAlone DEF ImageImmutable, PassStep, FunctionInv

\* The image taken is one built from the source of the status.
LEMMA ImageInspectPass ==
  ASSUME FunctionInv, NEW lost \in BOOLEAN, ImageInspect(lost)
  PROVE  PassStep
<1>1. TypeInv
  BY DEF FunctionInv
<1> DEFINE p == Patched
           n == [Loaded EXCEPT !.executable = p.latest, !.state = "ExecutableAvailable"]
<1>2. /\ p \in KPacks /\ p.src = BuildSource(cached.spec, Loaded)
      /\ BuiltFromSource(kpack) => BuiltFromSource(p)
  BY <1>1, PatchedImage
<1>3. KPackStep
  BY <1>2 DEF ImageInspect, KPackStep
<1>4. \/ Write(lost, Loaded) \/ Write(lost, Degraded(Loaded))
      \/ p.cond = "Ready" /\ p.observed >= p.gen /\ Write(lost, n)
  BY DEF ImageInspect
<1>5. Loaded.state = "SourceAvailable" /\ cached.spec.kind # "executable"
  BY DEF ImageInspect, Buildable, At
<1> HIDE DEF p
<1>6. /\ p.latest \in Images /\ "ExecutableAvailable" \in States /\ Loaded \in Statuses
      /\ p.observed \in Nat /\ p.gen \in Nat
  BY <1>1, <1>2, KPackFields, LoadedStatus DEF States
<1>7. /\ n \in Statuses /\ n.source = Loaded.source /\ n.executable = p.latest
      /\ n.state = "ExecutableAvailable"
  BY <1>6 DEF Statuses
<1> HIDE DEF n
<1>8. ASSUME cached = fn, Dependable, p.cond = "Ready", p.observed >= p.gen
      PROVE  Sound(cached.spec, n)
  <2>1. BuiltFromSource(p)
    BY <1>2, <1>8 DEF FunctionInv, SoundInv, Dependable
  <2>2. p.latest.src = p.src
    BY <1>6, <1>8, <2>1 DEF BuiltFromSource
  <2>3. cached.spec.kind \in Generated =>
          Loaded.source.from = "codegen" /\ Loaded.source.api = cached.spec.api
    BY <1>5, <1>8, LoadedSound DEF Sound
  <2>4. p.src = BuildSource(cached.spec, n)
    BY <1>2, <1>7 DEF BuildSource
  <2> QED BY <1>5, <1>7, <2>2, <2>3, <2>4 DEF Sound
<1>9. Pass
  BY <1>4, <1>7, <1>8, LoadedPass, WritePass
<1> QED BY <1>1, <1>3, <1>9, JobsAlone DEF ImageInspect, PassStep

-----------------------------------------------------------------------------
(* Deploying and observing                                                 *)

LEMMA ExecutableHealPass ==
  ASSUME FunctionInv, NEW lost \in BOOLEAN, ExecutableHeal(lost)
  PROVE  PassStep
<1> SUFFICES Pass
  BY StatusOnly DEF ExecutableHeal
<1>1. Loaded \in Statuses /\ cached.spec \in FunctionSpecs
  BY LoadedStatus, FunctionFields DEF FunctionInv, TypeInv, TypeOK
<1>2. CASE cached.spec.kind = "executable"
  <2> DEFINE n == [Loaded EXCEPT !.executable = SpecImage(cached.spec)]
  <2>1. SpecImage(cached.spec) \in Images
    BY <1>1, SpecTypes
  <2>2. n \in Statuses /\ n.executable = SpecImage(cached.spec)
    BY <1>1, <2>1 DEF Statuses
  <2>3. Write(lost, n)
    BY <1>2 DEF ExecutableHeal
  <2> HIDE DEF n
  <2>4. Sound(cached.spec, n)
    BY <1>2, <2>2 DEF Sound, Built, Generated
  <2> QED BY <2>2, <2>3, <2>4, WritePass
<1>3. CASE cached.spec.kind # "executable"
  <2>1. Write(lost, Moved(Loaded, "OpenAPIValid"))
    BY <1>3 DEF ExecutableHeal
  <2> QED BY <1>1, <2>1, EarlyStatus, WritePass
<1> QED BY <1>2, <1>3

\* A status that moves on among the states in which the executable is chosen.
LEMMA LateStatus ==
  ASSUME NEW m \in Statuses, NEW n \in Statuses, NEW s,
         n.source = m.source, n.executable = m.executable, m.state \in Late, Sound(s, m),
         s.kind # "backend"
  PROVE  Sound(s, n)
  BY DEF Sound, BuildSource

LEMMA DeployDonePass ==
  ASSUME FunctionInv, NEW lost \in BOOLEAN, DeployDone(lost)
  PROVE  PassStep
<1> SUFFICES Pass
  BY StatusOnly DEF DeployDone
<1> DEFINE n == [Loaded EXCEPT !.url = "faas", !.state = "FunctionDeployed"]
<1>1. Loaded \in Statuses
  BY LoadedStatus DEF FunctionInv
<1>2. "faas" \in URLs /\ "FunctionDeployed" \in States
  BY DEF URLs, States
<1>3. n \in Statuses /\ n.source = Loaded.source /\ n.executable = Loaded.executable
  BY <1>1, <1>2 DEF Statuses
<1>4. Write(lost, n)
  BY DEF DeployDone
<1>5. Loaded.state \in Late /\ cached.spec.kind # "backend"
  BY DEF DeployDone, Deploying, At, Late, Origin
<1> HIDE DEF n
<1> QED BY <1>1, <1>3, <1>4, <1>5, LateStatus, LoadedSound, WritePass

\* handleReady restores what is missing.
LEMMA ReadyHealPass ==
  ASSUME FunctionInv, NEW lost \in BOOLEAN, ReadyHeal(lost)
  PROVE  PassStep
<1> SUFFICES Pass
  BY StatusOnly DEF ReadyHeal
<1>1. Loaded \in Statuses /\ cached.spec \in FunctionSpecs
  BY LoadedStatus, FunctionFields DEF FunctionInv, TypeInv, TypeOK
<1>2. Loaded.state = "Ready" /\ cached.spec.kind # "backend"
  BY DEF ReadyHeal, At, Origin
<1>3. CASE Loaded.executable = NoImage
  <2> DEFINE n == Moved(Loaded, "SourceAvailable")
  <2>1. "SourceAvailable" \in States
    BY DEF States
  <2>2. n \in Statuses /\ n.state = "SourceAvailable" /\ n.source = Loaded.source
    BY <1>1, <2>1, WithState DEF Moved
  <2>3. Write(lost, n)
    BY <1>3 DEF ReadyHeal
  <2> HIDE DEF n
  <2>4. Sound(cached.spec, Loaded) => Sound(cached.spec, n)
    BY <1>2, <2>2 DEF Sound, Late
  <2> QED BY <2>2, <2>3, <2>4, LoadedSound, WritePass
<1>4. CASE Loaded.executable # NoImage
  <2> DEFINE n == [Loaded EXCEPT !.source = SpecSource(cached.spec)]
  <2>1. SpecSource(cached.spec) \in Sources
    BY <1>1, SpecTypes
  <2>2. /\ n \in Statuses /\ n.source = SpecSource(cached.spec)
        /\ n.executable = Loaded.executable /\ n.state = "Ready"
    BY <1>1, <1>2, <2>1 DEF Statuses
  <2>3. Write(lost, n) /\ HasSource(cached.spec) /\ Loaded.source = Nil
    BY <1>4 DEF ReadyHeal, ReadyHeals
  <2> HIDE DEF n
  <2>4. ~Pinned(Loaded.source) /\ Loaded.source.from # "codegen"
    BY <2>3 DEF Pinned, Nil
  <2>5. BuildSource(cached.spec, n) = BuildSource(cached.spec, Loaded)
    BY <2>2, <2>3, <2>4 DEF BuildSource
  <2>6. Sound(cached.spec, Loaded) => Sound(cached.spec, n)
    BY <1>2, <2>2, <2>3, <2>4, <2>5 DEF Sound, HasSource, Late, Built, Generated
  <2> QED BY <2>2, <2>3, <2>6, LoadedSound, WritePass
<1> QED BY <1>3, <1>4

\* The copy of a function that carries the label stays the one in hand.
LEMMA ObservedStatus ==
  ASSUME FunctionInv
  PROVE  /\ Observed.status \in Statuses
         /\ Dependable => Observed.status = Loaded
<1>1. fn \in Functions /\ cached \in Functions /\ fn.status \in Statuses /\ Loaded \in Statuses
  BY FunctionFields, LoadedStatus DEF FunctionInv, TypeInv, TypeOK
<1>2. Enrolling => Observed.status = fn.status
  BY <1>1 DEF Observed, Functions
<1>3. ~Enrolling => Observed.status = Loaded
  BY <1>1 DEF Observed, Functions
<1>4. Dependable => ~Enrolling
  BY DEF Dependable, Enrolling, FunctionInv, LagInv
<1> QED BY <1>1, <1>2, <1>3, <1>4

LEMMA ObserveFailsPass ==
  ASSUME FunctionInv, NEW lost \in BOOLEAN, ObserveFails(lost)
  PROVE  PassStep
<1> SUFFICES Pass
  BY StatusOnly DEF ObserveFails
<1> DEFINE m == Observed.status
<1>1. m \in Statuses /\ (Dependable => m = Loaded)
  BY ObservedStatus
<1>2. WriteObserved(lost, Degraded(m))
  BY DEF ObserveFails
<1> HIDE DEF m
<1>3. Degraded(m) \in Statuses /\ (Sound(cached.spec, m) => Sound(cached.spec, Degraded(m)))
  BY <1>1, DegradedStatus
<1>4. cached = fn /\ Dependable => Sound(cached.spec, Degraded(m))
  BY <1>1, <1>3, LoadedSound
<1> QED BY <1>2, <1>3, <1>4, ObservedPass

\* A function becomes Ready on the executable it deployed.
LEMMA ObservePass ==
  ASSUME FunctionInv, NEW lost \in BOOLEAN, Observe(lost)
  PROVE  PassStep
<1>1. TypeInv
  BY DEF FunctionInv
<1> DEFINE m == Observed.status
           n == [m EXCEPT !.state = "Ready", !.cond = "Ready"]
<1>2. m \in Statuses /\ (Dependable => m = Loaded)
  BY ObservedStatus
<1>3. WriteObserved(lost, n)
  BY DEF Observe
<1>4. Loaded.state \in Late /\ cached.spec.kind # "backend"
  BY DEF Observe, Observing, At, Late, Origin
<1>5. "Ready" \in States /\ "Ready" \in Conditions
  BY DEF States, Conditions
<1> HIDE DEF m
<1>6. n \in Statuses /\ n.source = m.source /\ n.executable = m.executable
  BY <1>2, <1>5 DEF Statuses
<1> HIDE DEF n
<1>7. cached = fn /\ Dependable => Sound(cached.spec, n)
  BY <1>2, <1>4, <1>6, LoadedSound, LateStatus
<1>8. Pass
  BY <1>3, <1>6, <1>7, ObservedPass
<1>9. \/ jobs' = jobs
      \/ jobs' = jobs \ Obsolete("deployer", Observed.gen, {DeployJob(Observed, Observed.status)})
  BY DEF Observe
<1>10. JobsStep /\ KeptStep
  BY <1>1, <1>9, SweepKeeps DEF Obsolete
<1> QED BY <1>1, <1>8, <1>10, KPackAlone DEF Observe, PassStep

\* reconcileServiceBacked
LEMMA ServiceBackedPass ==
  ASSUME FunctionInv, NEW lost \in BOOLEAN, ServiceBacked(lost)
  PROVE  PassStep
<1> SUFFICES Pass
  BY StatusOnly DEF ServiceBacked
<1>1. cached.status \in Statuses
  BY FunctionFields DEF FunctionInv, TypeInv, TypeOK
<1>2. "OpenAPIValid" \in States /\ "Ready" \in States /\ {"Degraded", "Progressing", "Ready"} \subseteq Conditions
  BY DEF States, Conditions
<1>3. "" \in URLs /\ "service" \in URLs
  BY DEF URLs
<1> DEFINE u == [cached.status EXCEPT !.url = "", !.state = "OpenAPIValid", !.cond = "Degraded"]
           v == [cached.status EXCEPT !.cond = "Progressing"]
           w == [cached.status EXCEPT !.executable = NoImage, !.generator = 0, !.source = Nil,
                                      !.url = "service", !.state = "Ready", !.cond = "Ready"]
<1>4. u \in Statuses /\ u.state = "OpenAPIValid"
  BY <1>1, <1>2, <1>3 DEF Statuses
<1>5. v \in Statuses /\ v.cond = "Progressing"
  BY <1>1, <1>2 DEF Statuses
<1>6. w \in Statuses /\ w.url = "service" /\ w.executable = NoImage
  BY <1>1, <1>2, <1>3, NilTypes DEF Statuses
<1>7. Write(lost, u) \/ Write(lost, v) \/ Write(lost, w)
  BY DEF ServiceBacked
<1> HIDE DEF u, v, w
<1>8. Sound(cached.spec, u) /\ Sound(cached.spec, v) /\ Sound(cached.spec, w)
  BY <1>4, <1>5, <1>6 DEF ServiceBacked, Origin, Sound, Built, Generated
<1> QED BY <1>4, <1>5, <1>6, <1>7, <1>8, WritePass

-----------------------------------------------------------------------------
(* The invariant                                                           *)

\* Every pass is a PassStep.
LEMMA ReconcilePass ==
  ASSUME FunctionInv, NEW lost \in BOOLEAN, Reconcile(lost)
  PROVE  PassStep
<1>1. CASE \/ ReferenceMissing(lost) \/ HandlePending(lost) \/ HandleOpenAPIValid(lost)
           \/ BuildValidDirect(lost)
  BY <1>1, ReferenceMissingPass, HandlePendingPass, HandleOpenAPIValidPass, BuildValidDirectPass
<1>2. CASE \/ NoGitSecret(lost) \/ NilGenerator(lost) \/ CodegenTerminal(lost)
           \/ SourceUnbuildable(lost) \/ DeployRefused(lost)
  BY <1>2, WaitingPass
<1>3. CASE CodegenWait(lost) \/ CodegenDrop(lost) \/ CodegenDone(lost)
  BY <1>3, CodegenWaitPass, CodegenDropPass, CodegenDonePass
<1>4. CASE SourceExecutable(lost) \/ ImageImmutable(lost) \/ ImageInspect(lost)
  BY <1>4, SourceExecutablePass, ImageImmutablePass, ImageInspectPass
<1>5. CASE \/ ExecutableHeal(lost) \/ DeployWait(lost) \/ DeployDrop(lost)
           \/ DeployTerminal(lost) \/ DeployDone(lost)
  BY <1>5, ExecutableHealPass, DeployWaitPass, DeployDropPass, DeployTerminalPass, DeployDonePass
<1>6. CASE ReadyHeal(lost) \/ ObserveFails(lost) \/ Observe(lost) \/ ServiceBacked(lost)
  BY <1>6, ReadyHealPass, ObserveFailsPass, ObservePass, ServiceBackedPass
<1> QED BY <1>1, <1>2, <1>3, <1>4, <1>5, <1>6 DEF Reconcile

\* The status a pass leaves.
LEMMA PassedFunction ==
  ASSUME FunctionInv, Pass
  PROVE  /\ fn' \in Functions /\ fn'.spec = fn.spec /\ fn'.gen = fn.gen
         /\ fn.labelled => fn'.labelled
         /\ fn'.status.obs \in {fn.status.obs, fn.gen}
         /\ fn' = fn \/ ~cached.labelled \/ (Dependable => Sound(fn.spec, fn'.status))
<1>1. fn \in Functions /\ fn.gen \in Nat /\ fn.status \in Statuses
  BY FunctionFields DEF FunctionInv, TypeInv, TypeOK
<1>2. CASE fn' = fn
  BY <1>1, <1>2
<1>3. ASSUME cached = fn, NEW m \in Statuses, fn' = [fn EXCEPT !.status = [m EXCEPT !.obs = fn.gen]],
             Dependable => Sound(fn.spec, m)
      PROVE  /\ fn' \in Functions /\ fn'.spec = fn.spec /\ fn'.gen = fn.gen
             /\ fn'.labelled = fn.labelled /\ fn'.status.obs = fn.gen
             /\ Dependable => Sound(fn.spec, fn'.status)
  <2> DEFINE n == [m EXCEPT !.obs = fn.gen]
  <2>1. /\ n \in Statuses /\ n.state = m.state /\ n.source = m.source
        /\ n.executable = m.executable /\ n.obs = fn.gen /\ n.cond = m.cond /\ n.url = m.url
    BY <1>1, WithObs
  <2>2. Dependable => Sound(fn.spec, n)
    BY <1>3, <2>1 DEF Sound, BuildSource
  <2> HIDE DEF n
  <2>3. fn' = [fn EXCEPT !.status = n]
    BY <1>3 DEF n
  <2>4. /\ fn' \in Functions /\ fn'.spec = fn.spec /\ fn'.gen = fn.gen
        /\ fn'.labelled = fn.labelled /\ fn'.status = n
    BY <1>1, <2>1, <2>3, WithStatus
  <2> QED BY <2>1, <2>2, <2>4
<1>4. CASE /\ ~cached.labelled
           /\ fn' \in Functions /\ fn'.spec = fn.spec /\ fn'.gen = fn.gen /\ fn'.labelled
           /\ fn'.status.obs \in {fn.status.obs, fn.gen}
  BY <1>4
<1> QED BY <1>2, <1>3, <1>4 DEF Pass

\* A pass keeps the invariant.
LEMMA PassInv ==
  ASSUME FunctionInv, PassStep
  PROVE  FunctionInv'
<1>1. /\ fn' \in Functions /\ fn'.spec = fn.spec /\ fn'.gen = fn.gen
      /\ fn.labelled => fn'.labelled
      /\ fn'.status.obs \in {fn.status.obs, fn.gen}
      /\ fn' = fn \/ ~cached.labelled \/ (Dependable => Sound(fn.spec, fn'.status))
  BY PassedFunction DEF PassStep
<1>2. UNCHANGED <<setting, cached, adaptor, registry, service, missing, failures>>
  BY DEF PassStep, env
<1>3. TypeInv'
  <2>1. Functions' = Functions
    BY <1>2 DEF Functions, Specs, MaxGen
  <2> QED BY <1>1, <1>2, <2>1 DEF FunctionInv, TypeInv, TypeOK, SettingOK, MaxAdaptor,
             MaxRegistry, MaxFailures, PassStep, JobsStep, KPackStep
<1>4. LagInv'
  BY <1>1, <1>2 DEF FunctionInv, LagInv, Enrolled
<1>5. JobsInv'
  <2> SUFFICES ASSUME ForeignNames(setting), NEW k \in jobs'
               PROVE  /\ k.gen <= fn.gen
                      /\ k.app = "codegen" /\ k.gen = fn.gen => k.api = fn.spec.api
                      /\ ~k.owned => k.gen = 0
    BY <1>1, <1>2 DEF JobsInv, ForeignNames
  <2>1. CASE Fresh(k)
    BY <2>1 DEF Fresh, FunctionInv, LagInv
  <2>2. CASE \E j \in jobs : Alike(k, j)
    BY <2>2 DEF Alike, FunctionInv, JobsInv
  <2> QED BY <2>1, <2>2 DEF PassStep, JobsStep
<1>6. SoundInv'
  <2> SUFFICES ASSUME ForeignNames(setting), LegacySound(setting)
               PROVE  /\ fn'.status.obs <= fn.gen
                      /\ BuiltFromSource(kpack')
                      /\ Enrolled /\ fn'.status.obs = fn.gen => Sound(fn.spec, fn'.status)
    BY <1>1, <1>2 DEF SoundInv, ForeignNames, LegacySound, Enrolled
  <2>1. /\ fn.status.obs <= fn.gen /\ BuiltFromSource(kpack)
        /\ Enrolled /\ fn.status.obs = fn.gen => Sound(fn.spec, fn.status)
    BY DEF FunctionInv, SoundInv
  <2>2. fn.gen \in Nat
    BY FunctionFields DEF FunctionInv, TypeInv, TypeOK
  <2>3. fn'.status.obs <= fn.gen
    BY <1>1, <2>1, <2>2
  <2>4. Enrolled => cached.labelled /\ Dependable
    BY DEF FunctionInv, LagInv, Dependable
  <2> QED BY <1>1, <2>1, <2>3, <2>4 DEF PassStep, KPackStep
<1> QED BY <1>3, <1>4, <1>5, <1>6 DEF FunctionInv

-----------------------------------------------------------------------------
(* The environment                                                         *)

\* A step that leaves the function, its copies and the Image alone.
JobsOnly ==
  /\ JobsStep /\ KeptStep /\ failures' \in 0..MaxFailures
  /\ UNCHANGED <<setting, fn, cached, kpack, adaptor, registry, service, missing>>

\* Nothing but the references, the adaptor, the registry or the Service moves.
AroundOnly ==
  /\ UNCHANGED <<setting, fn, cached, jobs, kpack>>
  /\ adaptor' \in 1..MaxAdaptor /\ registry' \in 1..MaxRegistry
  /\ service' \in {"ready", "idle", "missing", "badport"}
  /\ missing' \subseteq References /\ failures' \in 0..MaxFailures

LEMMA SpentFailures ==
  ASSUME TypeInv, CanFail, Spend
  PROVE  failures' \in 0..MaxFailures
<1>1. failures \in 0..MaxFailures /\ MaxFailures \in Nat
  BY DEF TypeInv, TypeOK, SettingOK, MaxFailures
<1> QED BY <1>1 DEF CanFail, Spend

\* A Job of the same name takes the place of another.
LEMMA BecomesKeeps ==
  ASSUME TypeInv, NEW j \in jobs, NEW k \in Jobs, Becomes(j, k), Alike(k, j), SameName(j, k)
  PROVE  JobsStep /\ KeptStep
<1>1. JobsStep
  BY DEF TypeInv, TypeOK, JobsStep, Becomes, Alike
<1>2. KeptStep
  BY DEF KeptStep, Deleted, Becomes, SameName
<1> QED BY <1>1, <1>2

LEMMA JobChanges ==
  ASSUME NEW j \in Jobs, NEW p \in {"running", "succeeded", "terminal"}, NEW b \in BOOLEAN
  PROVE  /\ [j EXCEPT !.failed = TRUE] \in Jobs
         /\ Alike([j EXCEPT !.failed = TRUE], j) /\ SameName(j, [j EXCEPT !.failed = TRUE])
         /\ [j EXCEPT !.pods = b] \in Jobs
         /\ Alike([j EXCEPT !.pods = b], j) /\ SameName(j, [j EXCEPT !.pods = b])
         /\ [j EXCEPT !.phase = p] \in Jobs
         /\ Alike([j EXCEPT !.phase = p], j) /\ SameName(j, [j EXCEPT !.phase = p])
         /\ [j EXCEPT !.phase = p, !.good = FALSE] \in Jobs
         /\ Alike([j EXCEPT !.phase = p, !.good = FALSE], j)
         /\ SameName(j, [j EXCEPT !.phase = p, !.good = FALSE])
         /\ [j EXCEPT !.phase = p, !.failed = TRUE, !.pods = b] \in Jobs
         /\ Alike([j EXCEPT !.phase = p, !.failed = TRUE, !.pods = b], j)
         /\ SameName(j, [j EXCEPT !.phase = p, !.failed = TRUE, !.pods = b])
  BY DEF Jobs, Alike, SameName

\* The Job controller and the operator keep the names of the Jobs.
LEMMA JobsMove ==
  ASSUME TypeInv, PodFails \/ JobFails \/ JobSucceeds \/ ResultLost \/ OperatorDeletes
  PROVE  JobsOnly
<1>1. jobs \subseteq Jobs /\ failures \in 0..MaxFailures
  BY DEF TypeInv, TypeOK
<1>2. CASE PodFails
  <2>1. PICK j \in jobs : Becomes(j, [j EXCEPT !.failed = TRUE])
    BY <1>2 DEF PodFails
  <2>2. JobsStep /\ KeptStep
    BY <1>1, <2>1, JobChanges, BecomesKeeps
  <2> QED BY <1>2, <2>2, SpentFailures DEF PodFails, JobsOnly
<1>3. CASE JobFails
  <2>1. PICK j \in jobs, kept \in BOOLEAN :
          Becomes(j, [j EXCEPT !.phase = "terminal", !.failed = TRUE, !.pods = kept])
    BY <1>3 DEF JobFails
  <2>2. JobsStep /\ KeptStep
    BY <1>1, <2>1, JobChanges, BecomesKeeps
  <2> QED BY <1>3, <2>2, SpentFailures DEF JobFails, JobsOnly
<1>4. CASE JobSucceeds
  <2>1. PICK j \in jobs : Becomes(j, [j EXCEPT !.phase = "succeeded"])
    BY <1>4 DEF JobSucceeds
  <2>2. JobsStep /\ KeptStep
    BY <1>1, <2>1, JobChanges, BecomesKeeps
  <2> QED BY <1>1, <1>4, <2>2 DEF JobSucceeds, JobsOnly, env
<1>5. CASE ResultLost
  <2>1. PICK j \in jobs :
          \/ Becomes(j, [j EXCEPT !.phase = "succeeded", !.good = FALSE])
          \/ Becomes(j, [j EXCEPT !.pods = FALSE])
    BY <1>5 DEF ResultLost
  <2>2. JobsStep /\ KeptStep
    BY <1>1, <2>1, JobChanges, BecomesKeeps
  <2> QED BY <1>5, <2>2, SpentFailures DEF ResultLost, JobsOnly
<1>6. CASE OperatorDeletes
  <2>1. PICK j \in jobs : j.owned /\ j.phase = "terminal" /\ jobs' = jobs \ {j}
    BY <1>6 DEF OperatorDeletes
  <2>2. JobsStep /\ KeptStep
    BY <2>1, SweepKeeps DEF Waiting
  <2> QED BY <1>1, <1>6, <2>2 DEF OperatorDeletes, JobsOnly, env
<1> QED BY <1>2, <1>3, <1>4, <1>5, <1>6

LEMMA JobsOnlyInv ==
  ASSUME FunctionInv, JobsOnly
  PROVE  FunctionInv'
<1>1. TypeInv'
  BY DEF FunctionInv, JobsOnly, JobsStep, TypeInv, TypeOK, SettingOK, Functions, Specs, MaxGen,
         MaxAdaptor, MaxRegistry, MaxFailures
<1>2. LagInv'
  BY DEF FunctionInv, JobsOnly, LagInv, Enrolled
<1>3. JobsInv'
  <2> SUFFICES ASSUME ForeignNames(setting), NEW k \in jobs'
               PROVE  /\ k.gen <= fn.gen
                      /\ k.app = "codegen" /\ k.gen = fn.gen => k.api = fn.spec.api
                      /\ ~k.owned => k.gen = 0
    BY DEF JobsOnly, JobsInv, ForeignNames
  <2>1. CASE Fresh(k)
    BY <2>1 DEF Fresh, FunctionInv, LagInv
  <2>2. CASE \E j \in jobs : Alike(k, j)
    BY <2>2 DEF Alike, FunctionInv, JobsInv
  <2> QED BY <2>1, <2>2 DEF JobsOnly, JobsStep
<1>4. SoundInv'
  BY DEF FunctionInv, JobsOnly, SoundInv, ForeignNames, LegacySound, Enrolled
<1> QED BY <1>1, <1>2, <1>3, <1>4 DEF FunctionInv

LEMMA AroundMoves ==
  ASSUME TypeInv, AdaptorEdit \/ RegistryEdit \/ ServiceChange \/ Lose \/ Restore
  PROVE  AroundOnly
<1>1. /\ adaptor \in 1..MaxAdaptor /\ registry \in 1..MaxRegistry /\ missing \subseteq References
      /\ service \in {"ready", "idle", "missing", "badport"} /\ failures \in 0..MaxFailures
      /\ MaxAdaptor \in Nat /\ MaxRegistry \in Nat
  BY DEF TypeInv, TypeOK, SettingOK, MaxAdaptor, MaxRegistry
<1>2. CASE AdaptorEdit
  BY <1>1, <1>2 DEF AdaptorEdit, AroundOnly
<1>3. CASE RegistryEdit
  BY <1>1, <1>3 DEF RegistryEdit, AroundOnly
<1>4. CASE ServiceChange
  BY <1>1, <1>4 DEF ServiceChange, AroundOnly
<1>5. CASE Lose
  BY <1>1, <1>5, SpentFailures DEF Lose, AroundOnly
<1>6. CASE Restore
  BY <1>1, <1>6 DEF Restore, AroundOnly
<1> QED BY <1>2, <1>3, <1>4, <1>5, <1>6

LEMMA AroundInv ==
  ASSUME FunctionInv, AroundOnly
  PROVE  FunctionInv'
<1>1. TypeInv'
  BY DEF FunctionInv, AroundOnly, TypeInv, TypeOK, SettingOK, Functions, Specs, MaxGen,
         MaxAdaptor, MaxRegistry, MaxFailures
<1>2. LagInv' /\ JobsInv' /\ SoundInv'
  BY DEF FunctionInv, AroundOnly, LagInv, JobsInv, SoundInv, ForeignNames, LegacySound, Enrolled
<1> QED BY <1>1, <1>2 DEF FunctionInv

LEMMA CacheSyncInv ==
  ASSUME FunctionInv, CacheSync
  PROVE  FunctionInv'
<1>1. fn.gen \in Nat
  BY FunctionFields DEF FunctionInv, TypeInv, TypeOK
<1>2. TypeInv'
  BY DEF FunctionInv, CacheSync, env, TypeInv, TypeOK, SettingOK, Functions, Specs, MaxGen,
         MaxAdaptor, MaxRegistry, MaxFailures
<1>3. LagInv'
  BY <1>1 DEF FunctionInv, CacheSync, env, LagInv, Enrolled
<1>4. JobsInv' /\ SoundInv'
  BY DEF FunctionInv, CacheSync, env, JobsInv, SoundInv, ForeignNames, LegacySound, Enrolled
<1> QED BY <1>2, <1>3, <1>4 DEF FunctionInv

\* An edit outdates the status and every Job.
LEMMA EditInv ==
  ASSUME FunctionInv, Edit
  PROVE  FunctionInv'
<1>1. /\ fn \in Functions /\ cached.gen \in Nat /\ fn.gen \in 1..MaxGen /\ MaxGen \in Nat
      /\ fn.status \in Statuses /\ jobs \subseteq Jobs
  BY FunctionFields DEF FunctionInv, TypeInv, TypeOK
<1>2. PICK s \in Specs : fn' = [fn EXCEPT !.spec = s, !.gen = @ + 1]
  BY DEF Edit
<1> DEFINE up == fn.gen + 1
<1>3. up \in 1..MaxGen /\ fn.gen < up /\ up \in Nat /\ fn.gen \in Nat
  BY <1>1 DEF Edit
<1>4. fn' = [fn EXCEPT !.spec = s, !.gen = up]
  BY <1>2
<1> HIDE DEF up
<1>5. /\ fn' \in Functions /\ fn'.gen = up /\ fn'.labelled = fn.labelled /\ fn'.status = fn.status
  BY <1>1, <1>3, <1>4 DEF Functions
<1>6. UNCHANGED <<setting, cached, jobs, kpack, adaptor, registry, service, missing, failures>>
  BY DEF Edit, env
<1>7. TypeInv'
  BY <1>5, <1>6 DEF FunctionInv, TypeInv, TypeOK, SettingOK, Functions, Specs, MaxGen,
         MaxAdaptor, MaxRegistry, MaxFailures
<1>8. LagInv'
  BY <1>1, <1>3, <1>5, <1>6 DEF FunctionInv, LagInv, Enrolled
<1>9. JobsInv'
  <2> SUFFICES ASSUME ForeignNames(setting), NEW j \in jobs
               PROVE  j.gen <= up /\ j.gen # up /\ (~j.owned => j.gen = 0)
    BY <1>5, <1>6 DEF JobsInv, ForeignNames
  <2>1. j.gen <= fn.gen /\ (~j.owned => j.gen = 0)
    BY DEF FunctionInv, JobsInv
  <2>2. j.gen \in Nat
    BY <1>1, JobFields
  <2> QED BY <1>3, <2>1, <2>2
<1>10. SoundInv'
  <2> SUFFICES ASSUME ForeignNames(setting), LegacySound(setting)
               PROVE  fn.status.obs <= up /\ fn.status.obs # up /\ BuiltFromSource(kpack)
    BY <1>5, <1>6 DEF SoundInv, ForeignNames, LegacySound, Enrolled
  <2>1. fn.status.obs <= fn.gen /\ BuiltFromSource(kpack)
    BY DEF FunctionInv, SoundInv
  <2>2. fn.status.obs \in Nat
    BY <1>1, StatusFields
  <2> QED BY <1>3, <2>1, <2>2
<1> QED BY <1>7, <1>8, <1>9, <1>10 DEF FunctionInv

\* kpack builds from the source the Image names.
LEMMA KPackMoves ==
  ASSUME TypeInv, KPackBuilds \/ KPackFails
  PROVE  KPackStep /\ failures' \in 0..MaxFailures
         /\ UNCHANGED <<setting, fn, cached, jobs, adaptor, registry, service, missing>>
<1>1. kpack \in KPacks /\ failures \in 0..MaxFailures
  BY DEF TypeInv, TypeOK
<1>2. CASE KPackBuilds
  <2> DEFINE c == IF kpack.latest.src = kpack.src THEN kpack.latest.commit ELSE 0
  <2>1. PICK n \in {c, c + 1} :
          kpack' = [kpack EXCEPT !.observed = kpack.gen, !.cond = "Ready",
                                 !.latest = [src |-> kpack.src, commit |-> n]]
    BY <1>2 DEF KPackBuilds
  <2>2. kpack.latest.commit \in Nat /\ kpack.src \in Sources /\ kpack.gen \in Nat
    BY <1>1, KPackFields DEF Images
  <2>3. n \in Nat
    BY <2>2
  <2> DEFINE img == [src |-> kpack.src, commit |-> n]
  <2>4. img \in Images /\ img.src = kpack.src
    BY <2>2, <2>3 DEF Images
  <2> HIDE DEF img, c
  <2>5. kpack' = [kpack EXCEPT !.observed = kpack.gen, !.cond = "Ready", !.latest = img]
    BY <2>1 DEF img
  <2>6. /\ kpack' \in KPacks /\ kpack'.observed = kpack.gen /\ kpack'.gen = kpack.gen
        /\ kpack'.latest = img /\ kpack'.src = kpack.src
    BY <1>1, <2>2, <2>4, <2>5 DEF KPacks
  <2>7. BuiltFromSource(kpack')
    BY <2>2, <2>4, <2>6 DEF BuiltFromSource
  <2> QED BY <1>1, <1>2, <2>6, <2>7 DEF KPackBuilds, KPackStep, env
<1>3. CASE KPackFails
  <2>1. kpack' = [kpack EXCEPT !.cond = "Failed"]
    BY <1>3 DEF KPackFails
  <2>2. /\ kpack' \in KPacks /\ kpack'.observed = kpack.observed /\ kpack'.gen = kpack.gen
        /\ kpack'.cond = "Failed"
    BY <1>1, <2>1 DEF KPacks
  <2>3. KPackStep
    BY <2>2 DEF KPackStep, BuiltFromSource
  <2> QED BY <1>3, <2>3, SpentFailures DEF KPackFails
<1> QED BY <1>2, <1>3

LEMMA KPackInv ==
  ASSUME FunctionInv, KPackBuilds \/ KPackFails
  PROVE  FunctionInv'
<1>1. /\ KPackStep /\ failures' \in 0..MaxFailures
      /\ UNCHANGED <<setting, fn, cached, jobs, adaptor, registry, service, missing>>
  BY KPackMoves DEF FunctionInv
<1>2. TypeInv'
  BY <1>1 DEF FunctionInv, KPackStep, TypeInv, TypeOK, SettingOK, Functions, Specs, MaxGen,
         MaxAdaptor, MaxRegistry, MaxFailures
<1>3. LagInv' /\ JobsInv' /\ SoundInv'
  BY <1>1 DEF FunctionInv, KPackStep, LagInv, JobsInv, SoundInv, ForeignNames, LegacySound, Enrolled
<1> QED BY <1>2, <1>3 DEF FunctionInv

-----------------------------------------------------------------------------
(* The theorems                                                            *)

\* A function applied, or left by an older binary, satisfies the invariant.
LEMMA FunctionInit ==
  ASSUME LifecycleInit
  PROVE  FunctionInv
<1>1. SettingOK(setting)
  BY SettingsAssumption DEF LifecycleInit
<1>2. InitStatus \in Statuses /\ InitStatus.obs = 0
  <2>1. "none" \in States /\ "none" \in Conditions /\ "" \in URLs
    BY DEF States, Conditions, URLs
  <2> QED BY <2>1, NilTypes DEF InitStatus, Statuses
<1>3. PICK s, m, k : /\ fn = Function(s, m) /\ kpack = k
                     /\ \/ s \in Specs /\ m = InitStatus /\ k = NoKPack
                        \/ \E l \in Legacy : s = l.spec /\ m = l.status /\ k = l.kpack
  BY DEF LifecycleInit
<1>4. s \in Specs /\ m \in Statuses /\ k \in KPacks /\ Enrolled \in BOOLEAN /\ 1 \in 1..MaxGen
  BY <1>1, <1>2, <1>3, NilTypes DEF SettingOK, Legacy, Specs, Enrolled, MaxGen
<1>5. /\ fn \in Functions /\ fn.spec = s /\ fn.gen = 1 /\ fn.labelled = Enrolled /\ fn.status = m
      /\ cached = fn
  BY <1>3, <1>4 DEF Function, Functions, LifecycleInit
<1>6. TypeInv
  BY <1>1, <1>3, <1>4, <1>5 DEF TypeInv, TypeOK, LifecycleInit, SettingOK, MaxAdaptor, MaxRegistry,
     MaxFailures, ForeignJobs
<1>7. LagInv
  BY <1>5 DEF LagInv
<1>8. JobsInv
  BY <1>5 DEF JobsInv, LifecycleInit, ForeignJobs, ForeignNames
<1>9. SoundInv
  <2>1. CASE m = InitStatus /\ k = NoKPack
    <3>1. BuiltFromSource(NoKPack)
      BY DEF BuiltFromSource, NoKPack
    <3> QED BY <1>2, <1>3, <1>5, <2>1, <3>1 DEF SoundInv
  <2>2. CASE \E l \in Legacy : s = l.spec /\ m = l.status /\ k = l.kpack
    BY <1>3, <1>5, <2>2 DEF SoundInv, LegacySound, Legacy
  <2> QED BY <1>3, <2>1, <2>2
<1> QED BY <1>6, <1>7, <1>8, <1>9 DEF FunctionInv

\* Every step keeps the invariant and the Jobs it may not delete.
LEMMA FunctionStep ==
  ASSUME FunctionInv, [LifecycleNext]_lifecycle
  PROVE  FunctionInv' /\ KeptStep /\ setting' = setting
<1>1. ASSUME NEW lost \in BOOLEAN, Reconcile(lost)
      PROVE  FunctionInv' /\ KeptStep /\ setting' = setting
  <2>1. PassStep
    BY <1>1, ReconcilePass
  <2> QED BY <2>1, PassInv DEF PassStep, env
<1>2. CASE PodFails \/ JobFails \/ JobSucceeds \/ ResultLost \/ OperatorDeletes
  BY <1>2, JobsMove, JobsOnlyInv DEF FunctionInv, JobsOnly
<1>3. CASE AdaptorEdit \/ RegistryEdit \/ ServiceChange \/ Lose \/ Restore
  <2>1. AroundOnly
    BY <1>3, AroundMoves DEF FunctionInv
  <2> QED BY <2>1, AroundInv, JobsAlone DEF FunctionInv, AroundOnly
<1>4. CASE CacheSync \/ Edit
  <2>1. UNCHANGED jobs /\ setting' = setting
    BY <1>4 DEF CacheSync, Edit, env
  <2> QED BY <1>4, <2>1, CacheSyncInv, EditInv, JobsAlone DEF FunctionInv
<1>5. CASE KPackBuilds \/ KPackFails
  <2>1. UNCHANGED jobs /\ setting' = setting
    BY <1>5, KPackMoves DEF FunctionInv
  <2> QED BY <1>5, <2>1, KPackInv, JobsAlone DEF FunctionInv
<1>6. CASE UNCHANGED lifecycle
  <2>1. UNCHANGED jobs /\ setting' = setting
    BY <1>6 DEF lifecycle
  <2>2. AroundOnly
    BY <1>6 DEF lifecycle, AroundOnly, FunctionInv, TypeInv, TypeOK
  <2> QED BY <2>1, <2>2, AroundInv, JobsAlone DEF FunctionInv
<1> QED BY <1>1, <1>2, <1>3, <1>4, <1>5, <1>6 DEF LifecycleNext, Environment

\* The informer's copy trails the server's, every Job is of a generation there
\* was and holds what that generation asked for, and a status that observed the
\* current generation is sound for its spec (KDexFunctionReconciler.Reconcile).
THEOREM FunctionCorrect == LifecycleSpec => []FunctionInv
<1>1. LifecycleInit => FunctionInv
  BY FunctionInit
<1>2. FunctionInv /\ [LifecycleNext]_lifecycle => FunctionInv'
  BY FunctionStep
<1> QED BY <1>1, <1>2, PTL DEF LifecycleSpec

\* The state of the function controller keeps its type, for every setting.
THEOREM FunctionTypeCorrect == LifecycleSpec => []TypeOK
<1>1. FunctionInv => TypeOK
  BY DEF FunctionInv, TypeInv
<1> QED BY <1>1, FunctionCorrect, PTL

\* A function that carries the observer label is Ready only on the executable
\* its observed spec names, on an image built from a commit generated for its
\* API, on an image built from the source its status pins (or its spec names,
\* while nothing is pinned), or on its Service, whatever edits, lost writes,
\* stale copies and failing Jobs do; Jobs of others carry none of its names, and
\* what an older binary left is sound.
THEOREM ServesCorrect ==
  LifecycleSpec /\ ForeignNames(setting) /\ LegacySound(setting) => []ServesTheSpec
<1>1. LifecycleInit => FunctionInv
  BY FunctionInit
<1>2. ASSUME FunctionInv, ForeignNames(setting), LegacySound(setting), [LifecycleNext]_lifecycle
      PROVE  FunctionInv' /\ ForeignNames(setting)' /\ LegacySound(setting)'
  <2>1. FunctionInv' /\ setting' = setting
    BY <1>2, FunctionStep
  <2> QED BY <1>2, <2>1 DEF ForeignNames, LegacySound
<1>3. FunctionInv /\ ForeignNames(setting) /\ LegacySound(setting) => ServesTheSpec
  BY DEF FunctionInv, SoundInv, ServesTheSpec, ReadyIsCurrent, Sound, Late, Built, Generated
<1> QED BY <1>1, <1>2, <1>3, PTL DEF LifecycleSpec

\* No step deletes a Job whose pod is at work, or a Job that others control,
\* however stale the function the pass works from (cleanupJobs).
THEOREM JobsCorrect == LifecycleSpec /\ ForeignNames(setting) => ActiveJobKept
<1>1. LifecycleInit => FunctionInv
  BY FunctionInit
<1>2. ASSUME FunctionInv, ForeignNames(setting), [LifecycleNext]_lifecycle
      PROVE  /\ FunctionInv' /\ ForeignNames(setting)'
             /\ [\A j \in jobs : Waiting(j) \/ ~j.owned => ~Deleted(j)]_lifecycle
  <2>1. FunctionInv' /\ KeptStep /\ setting' = setting
    BY <1>2, FunctionStep
  <2> QED BY <1>2, <2>1 DEF ForeignNames, KeptStep
<1> QED BY <1>1, <1>2, PTL DEF LifecycleSpec, ActiveJobKept
=============================================================================
