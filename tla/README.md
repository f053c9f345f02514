# Verification of host-manager

host-manager serves one KDex host: it authenticates users and OAuth clients,
serves pages, proxies functions, and runs the Kubernetes controllers that build
and deploy what the host serves. Several replicas run side by side and share a
cache (Valkey, or a memory cache in a single process). This directory holds TLA+
models of its protocols, the TLC runs that check them on small instances, and
TLAPS proofs that hold for every instance.

- `<Component>.tla` models a part of the system; its header names the files.
- `MC<Component>.tla` and the `.cfg` files instantiate it for TLC. A cfg whose name
  starts with `MC` passes and is a run of `PROJECT.json`; one that starts with `V` ends in
  a counterexample: a disagreement between the code and one of its own comments, kept to
  be run by hand (see Findings).
- `<Component>Proofs.tla` holds theorems and proofs about a component; `ClientProofs` those
  about ConsentFlow and ClientRegistry, `ControllerProofs` those about HostHandler and
  FunctionLifecycle. So that one module can extend two specifications, ClientRegistry and
  FunctionLifecycle name theirs `RegistrySpec` and `LifecycleSpec`.
- `PROJECT.json` maps every definition to the source lines it models and lists runs,
  mutants, hazards and theorems.

Run `tlc -config MCRefreshChain.cfg MCRefreshRotation` for a model and
`tlapm RefreshRotationProofs.tla` for the proofs.

## Inventory

### Components, their state and operations

| Component | State | Operations | What makes it correct |
|---|---|---|---|
| Refresh rotation (`auth/exchange.go`, `auth/refreshgrace.go`) | refresh records, grace records, tombstones in the shared cache | redeem, replay, restore, logout | one live token per session, one successor per token, a logout that holds, no session lost to an outage |
| API tokens (`auth/apitoken`, `host/apitoken.go`) | revocation entries per key and subject, a legacy class per generation | mint, verify, revoke, adopt stranded revocations | a revoked token stays refused by every replica; a re-minted key works |
| Memory cache (`cache/memory.go`) | segments per generation, LRU list | Get, Set, GetAndDelete, DecrementIfPositive, Update, Delete, Cycle, reap | its bound, reachable entries, one winner, use budgets |
| Valkey cache (`cache/valkey.go`) | prefixes per generation, keys in the server | the same, Update as WATCH/MULTI with 16 attempts | the same contract |
| Consent and dynamic clients (`auth/dcr`, `auth/oauth2*.go`) | consent record per subject, client records, codes, sealed pages | authorize, allow, deny, redeem, look up | no code without the user's own Allow; Deny holds; use renews |
| Client registry (`auth/client_registry.go`, `auth/subject_kind.go`) | one shared registry: names, presence, cutoff | merge on every build, classify, veto | a client's credential is never taken for a user's; a re-added client starts clean |
| Function controller (`controller/kdexfunction_controller.go`, `build`, `generate`, `deploy`) | spec and status of a function, its Jobs, a kpack Image | one handler per state, self-heals, sweep of Jobs | Ready means the spec is served; Jobs at work are kept; it comes to rest |
| Session grants (`auth/session_grants.go`) | a generation, results keyed by generation and subject, a singleflight group | resolve, overlay, bump | a membership change is seen by the next request; how stale a failure leaves grants is bounded |
| Middleware and capabilities (`auth/middleware.go`, `host/mint_token.go`, `host/capabilities.go`, `host/transfer.go`) | use budgets in the cache, cookies | parse, refresh, veto, spend, mint | checks in order; a budget is spent exactly; a capability never grows |
| OIDC login (`auth/oidc_login.go`) | sealed per-login cookies in the browser | start, callback, expire oldest | single use, bounded |
| Event hooks (`auth/event_*.go`) | parsed hooks | gate login, barrier logout, notify | fail closed on login, never refuse a logout |
| Authorization (`auth/authorization.go`, `auth/roles.go`) | none (snapshot) | resolve bindings, evaluate requirements | agrees with the declared bindings |
| Host handler (`host/host.go` and handlers) | mux, pages, functions, translations, configuration under one RWMutex | SetHost, RebuildMux, Add/Remove page, translation, serve | the mux shows the latest state; links lead where they say; no deadlock |
| Page store and renders (`page`, `host/page.go`) | handlers, render cache, running migrations | set, delete, render once, migrate | a render is stored only under the key it matches |
| Proxy and streams (`host/proxy.go`, `web/middleware/streamdeadline.go`) | a write deadline per response | arm, slide, clear | a healthy stream lives, a stalled one ends |
| Registration (`host/register*.go`) | two token buckets | admit, evict idle | never locks out |
| Host controller (`controller/kdexinternalhost_controller.go`) | host status, owned Deployments, Services, routes, a background sweep | reconcile, sweep | converges; the sweep covers every generation |
| Package references (`controller/kdexinternalpackagereferences_controller.go`, `packref`) | Job per generation, published image | build, verify, publish, sweep | only a verified image is published, and the last one is served meanwhile |
| Page, utility page, translation controllers | status, the handler's maps | resolve, add, remove | the handler follows the cluster |
| Sniffer, rewrites, catalogues, templates, key material, CLI | none shared | formatting, parsing, cryptography | by tests |

### How they interact

Handlers of any replica call the Exchanger, which keeps everything that must
outlive a request in the shared cache; two handlers meet only there, one cache call
at a time. Controllers of one process run concurrently and meet at the API server
(through a trailing informer cache, with optimistic locking on writes) and at the
host handler (through `hh.mu`). A reconcile that changes the configuration builds a
new Exchanger, cycles the cache's generation and starts the revocation sweep in
the background. External actors are the browser, OAuth clients, kpack, the Job
controller, the codegen and deployer containers and the event hooks.

### What is hard

- Cache calls of concurrent requests interleave, and each may fail with or without
  having taken effect, or be the last of a dying replica.
- Records are rewritten without compare-and-set (consent, clients).
- Clocks of replicas differ; entries, tokens and sessions expire independently.
- Replicas of two releases, or on two configurations, share one store.
- Controllers act on stale reads, and their own writes come back late.
- Jobs fail, are lost, and finish after what they were started for has changed.
- Readers and writers of one RWMutex, and goroutines that outlive their request.

`PROJECT.json` lists each of these as a hazard at the line where it bites.

## Models

In every model an action is one atomic step of the code: a cache call, a critical
section, a Kubernetes write, or a whole handler where nothing can happen in
between. Formatting, rendering, cryptography and logging are left out; ids are
model values; times are small integers.

### RefreshRotation, SingleUseSession

`RedeemRefreshToken` is the program counter of a request: consume, mark,
check, mint, store the successor, publish; or poll the grace cache when the record
is gone. An error after the consume leads through restore (tombstone read, then
write) and clear. Logout is `GetAndDelete`, tombstone, two grace deletes. With
`MaxFaults > 0` any cache call may fail before or after its effect, and a replica
may die at any point. `SingleUseSession` says what this promises: a session has one
credential, which is free, taken or ended; a taken one is rotated, given back or
ended; every answer for a token names the same successor. `ImplementsSession` is
the refinement.

### Revocation

Two kinds of replica: this release, and the previous one, which knows only the
legacy class that each reconfiguration moves to a new generation. A revocation writes two
records, one per class, and reads the clock for each: `RevokeAgain` is the second read, and a
key may be minted between the two. `Verify`, `Mint`, `Revoke` and the sweep (`AdoptStrandedRevocations`: scan, then merge key by key)
interleave; each replica has its own clock. Session times are whole seconds,
revocation times are finer, as in the code. The variable `setting`, chosen in `Init`,
says which replicas there are, how far clocks differ, what may be minted, and how
often the host is reconfigured. Assumed: skew and sessions are short against the
ten-year horizon, and replicas are never two generations apart. A host that was
reconfigured before starts with entries stranded in its oldest generation, unless it
has swept since. `SweepCovers` asks a finished sweep for the stranded entries in force:
one past the horizon revokes no living token.

### MemoryCache

One class with its segments and LRU list, including lazy expiry, the reaper and Cycle. The history variable `taken`
says who won a single-use value. `uncycled` is the scope of the class: whether its
entries survive a reconfiguration.

### ValkeyCache, AtomicCache

The same contract over a server. A call is a sequence of round trips (`GET`, `GETDEL`,
`DEL`, `SET`, the decrement script, and `WATCH`, `GET`, `MULTI`/`EXEC` for `Update`) against
prefixes it captured at its start; a Cycle may move the cache object meanwhile, any
entry may expire, a command or its reply may be lost and a replica may restart.
`AtomicCache` says what the surviving scope promises: one map, on which each call takes
effect at one instant, a contended `Update` never and a failed call at most once.
`ImplementsAtomic` is the refinement: `store` is the one generation's keyspace, `phase` the
position of the program counter relative to the call's effect. `GetCache` looks the class
up under the read lock and creates it under the write lock without a second look, so
two callers may create it twice and keep an object no Cycle ever moves; the refinement
shows this harmless for the surviving scope. Lifetimes are abstracted (any entry may
expire), `ScanGenerations` only reads and is in Revocation, and the branch for a class
that changes its scope cannot be reached.

### ClientRegistry

Builds on two replicas read the configuration, merge it into the shared registry in
one Update and go into service later; the old Exchanger mints meanwhile. The history
variable `staged` remembers whether every edit so far came when all replicas already
served the last one: `ReAddIsCleanSlate` is promised for those, `CleanSlate` is the
same claim without the condition. The model starts after the first configuration was
recorded.

### ConsentFlow

Handlers (authorize, the consent form's answer, redemption of a code, the client
lookup of a refresh) as sequences of cache calls over the client store and the
consent record. The redirect policy may change between any two. `world`, chosen in
`Init`, fixes how many handlers run at once, which prompts, scopes, redirects and policies
occur, whether calls fail and how long time runs. A refresh looks the client up twice, in
the token handler before the token is consumed and in the redemption after it; the model has
one lookup, and `ClientGone` lets a client that is gone end the session or leave it, as the
one or the other finds out. Left out: the cap on scopes (larger
than the set of supported scopes), sessions without a browser (sent to the login
page), records from before v0.5.1.

### SessionGate

Every HTTP request of three callers on two replicas: the credential (cookie, bearer,
API token, capability, transfer link), redemption of an expiring one, the veto of
client-named subjects, the read of the grant generation, the grant cache with its
jittered lifetime and singleflight, the live resolve, the overlay or the fail-open path,
the handler, the proxied write with its bump, and the mint of capabilities with their
budgets. The counter may fail before it took the use or after (the fault `spend`): the
request is refused either way, and `lost` counts the uses that went with it. A membership is a version number, so that a request's grants can be compared
with what the backend answered when. `Scenarios` fix what callers ask and what fails.

### HostRoutes, HostHandler

`HostRoutes` holds pure operators: the routes a rebuild registers, in the order of the code
and with its collisions, net/http's patterns (external), the page tree and its links,
the page gate with its redirects, rewrites and their canonical links. `HostHandler` is one
pod around them: the page store, the state behind `hh.mu` with Go's writer preference,
rebuilds in two critical sections, the render cache with two generations, singleflight
renders under the read lock, background re-renders, and the controllers of pages,
translations, utility pages and the host with their late status writes.

### FunctionLifecycle

One function: its spec (edited by its author, `MaxGen`), its status as the server
holds it and as the informer shows it, codegen and deployer Jobs, the kpack Image,
the FaaS adaptor, the registry, and the Service of a backend. `Reconcile` is one
step from the cached function to the writes of one pass, with the handler of each
state as an operator; a conflict discards the status write and keeps the Job writes,
as in the code. The variable `setting`, chosen once in `Init` from the constant
`Settings`, says what the world around the function does: the specs its author
applies and how often, adaptor, registry and branch changes, failures, whether the
observer label is set, Jobs of others, statuses older releases left behind. A run
covers several settings at once.

### PackageImages

The packages of one host. The host controller writes what pages ask for into a
`KDexInternalPackageReferences` and serves what that object publishes; the controller of
that object renders a ConfigMap and a Secret, runs one packager Job per generation, reads
the outputs from one of its pods, verifies the image against the pins and publishes it.
Each action is one reconcile up to the return that ends it. Both read through informers
that trail; objects, Jobs and pods are met again under the same name after a deletion.
The packages are one pin, exact or a range; an image remembers the pin it was built from
and the version it holds. `left` is the setting with what may still go wrong of it. A pass of
the host writes the Deployment (`served`) and then, in the deferred update, the host status
(`UpdateHostStatus`), which a conflict with a newer status discards and a crash or another
writer may lose; the next pass reads that status through an informer (`seen.host`).

## Runs

| Run | Configuration | Properties | Bounds and why they suffice |
|---|---|---|---|
| rotation_chain | `MCRefreshChain` | SessionConserved, EndedIsFinal, SingleLineage, ClientBound, ClosedStaysClosed | two requests at once; three tokens, so that a token is rotated twice and a predecessor of a predecessor exists; two clients; a clock on which the first token runs out while requests are in flight |
| rotation_faults | `MCRefreshFaults` | MarkerOwned, ImplementsSession, EveryRequestAnswered | one failed call (with or without effect) or crash anywhere; the poll budget scaled to three attempts, two of them fast |
| revocation | `MCRevocation` | RevokedStaysRevoked, FreshKeyWorks, SweepCovers, CutoffRefusesMint | 2.9 million states of three settings: two replicas one tick apart that revoke a key and its subject, with a clock read for each of the two records of a revocation and a horizon of two ticks that time reaches; the same with a session that mints a key meanwhile; and one old and one new replica with two reconfigurations and sweeps that fail. Two ticks make a second |
| memory_cache | `MCMemoryCache` | Evictable, SingleWinner | both scopes; three keys at a bound of two, so that every eviction has a choice; three generations, four writes, expiry |
| valkey_cache | `MCValkeyCache` | NoLostUpdate, ImplementsAtomic, CallsReturn | two callers on one or two replicas, one key, values 0 and 1, two host checksums, two attempts per Update; three menus pair every operation with one that races it |
| client_registry | `MCClientRegistry` | KindNeverChanges, ReAddIsCleanSlate | two replicas with skew one; three overlapping edits, the least that add, remove and add back; two credentials, with and without a recorded kind |
| consent | `MCConsentFlow` | DenySticks, CodeNeedsAllow, RefreshBacked, UseRenews | 2.1 million states of two worlds: two handlers with failing calls, and time up to the renewal; one handler at a time with every prompt, a scope, two redirects against a record bounded at one, and a policy that tightens |
| session_gate | `MCSessionGate` | FreshAfterBump, StaleBounded, BudgetKept, NeverInflated, RequestsAnswered | three callers on two replicas; a grant lifetime of two ticks with a jitter of one; budgets up to two uses; fourteen scenarios of writes, failures, expiry, aging, subject kinds and capabilities, these with a counter that fails before or after its effect |
| host_handler | `MCHostHandler` | LinksLead, RedirectsEnd, CachedUnderItsKey, ServedCurrent, Converges, RequestsFinish | six deployments with up to two edits and two requests, each around one race; 2 970 page sets (two pages and an alias on colliding paths, with functions and hosts) through a cold start |
| function_edited | `MCFunctionEdited` | ServesTheSpec, ActiveJobKept | seven settings: images with a failing Job, a second adaptor and a foreign Job; three generations of source; a broken adaptor, a registry move and a commit; three generations between Service and origin of a labelled function; a Job that runs out of retries; an edit while the label is yet to be patched; an edited source revision |
| function_settles | `MCFunctionSettles` | Settles | one edit and one failure; statuses of older releases; a Job that runs out of retries; an edited source revision. No setting has a Service backend: one that comes back from it may panic (`VSourceEdit` [`BackAgain`]) |
| package_images | `MCPackageImages` | ReadyIsBuilt, KnownGoodServed, Delivered | 639 thousand states of seven settings: a stale build; two failed pods against a back-off limit of one; a lost pod and a trailing pod watch; a lost pod and a lost status write of the host; two unreadable images and a lost status write; packages that go and come back; an image built elsewhere and a lost status write. One or two edits, three generations; the informers of object, Jobs and host status trail in all of them |

Two processes suffice for the races modelled: every one of them is between the two
calls of one handler and a single step, or a completed request, of another. Every
property of a passing run has a mutant, a plausible slip in the definition it is about,
that TLC refutes under the same configuration. Runs turn deadlock checking off where
the model's bounds (tokens, codes, time, edits) end the behaviour; the runs of the function
controller keep it on. Symmetry is used for safety only. Most modules state a `TypeOK`; TLC finds it holds
under the configurations above, and it is proved wherever a module has proofs, so the
runs spend their time on the other properties.

What the properties mean when they hold: a session that rotates under races and
outages ends in one place or goes on in one place (rotation); a revocation is in force
on every replica from the moment it is acknowledged, through upgrades and
reconfigurations (revocation); callers of the shared cache may treat it as one map
(caches); no client acts as a user (registry); nobody gets a code the user did not allow
(consent); a request acts with grants no older than the last acknowledged change, and a
capability never with more than it was minted with (gate); the mux that is served is the
last one and its links lead where they say (host); what a Ready function runs, and the
packages a Ready object publishes, are what the spec says, and packages the host has on record
are not dropped (functions, packages).

Fairness.

- `EveryRequestAnswered`, `CallsReturn`, `RequestsAnswered`: weak fairness of each request's
  next step, that is, a goroutine that can run does run and cache calls return (they
  have deadlines).
- `Settles`: weak fairness of Reconcile without a conflict, of the informer, of a
  reference that comes back, of Jobs and kpack builds finishing; controller-runtime
  requeues every failed or waiting pass. It excludes functions with `regenerate: true`,
  which by design never rest, and functions whose observer label is not set yet (see
  `VHiddenEdit`).
- `Converges`, `RequestsFinish`: weak fairness of each controller's worker, of the status
  writes and watch events that follow, of requests and background renders. `Converges` is
  conditional on pages that resolve in the end: a broken page keeps the host
  reconcile waiting.
- `Delivered`: weak fairness of the package controller, the informers, pods and garbage
  collection. Strong fairness of the host controller, whose write may meet a conflict with
  every status change and is retried, and of meeting the pod that has the outputs, since
  pods are listed in random order. A pod watch that trails the Job watch every single
  time would have Jobs rebuilt for ever; the number of times it does is bounded.

## Proofs

`RefreshRotationProofs` proves, for every number of requests, tokens, clients, faults and
every setting of the timing constants (assumption `ConstantsAssumption`, the ranges of
the constants):

- `TypeCorrect`: `Spec => []TypeOK`;
- `OneCredentialPerLineage`: `Spec => []SingleLineage`;
- `EndedLineagesStayEnded`: `Spec => []ClosedStaysClosed`;
- `AnswersBoundToClient`: `Spec => []ClientBound`;
- `SessionsCapped`: `Spec => SessionCapped`, that no rotation passes its checks later than
  `maxSessionAge` after the login;
- `Inductive`: the invariant `IndInv` behind them.

`SingleLineage` alone is not inductive. A redemption that is about to store or
restore must be the only holder of its session, which needs to be known from its
program counter (`RequestsOK`); the token it stores must be one nobody has seen
(`Wellformed`: what has not been written has left no trace); and what the grace
cache replays must be the successor of the token it is filed under (`ResultsOK`).
`IndInv` is the conjunction. Each conjunct has a step lemma with one case per
action; most actions shrink the set of live tokens of a session (`Shrink`), and the
three that grow it, login, restore and the successor's write, consume what they replace.

The last two theorems need what the tokens of a lineage share (`Kinship`): every record
carries the origin of its login and the client of its predecessor, and every recorded
answer names a successor of the token presented. It is inductive relative to `IndInv`,
because records never change once written (`Stable`) and an answer comes either from
the request that created the successor or from a grace record, which `ResultsOK` and
the replay's client check tie to the token.

- `RotationIsSingleUse`: `Spec => ImplementsSession`, the refinement of `SingleUseSession`;
- `SessionsAreConserved`: `Spec => []SessionConserved`;
- `MarkersAreOwned`: `Spec => []MarkerOwned`;
- `CompleteLogoutIsFinal`: `Spec => []EndedIsFinal`.

The refinement maps the stored records to live credentials, the ones redemptions carry to
taken ones, predecessors to rotations and recorded answers to answers. `IndInv` almost
suffices; `Lasting` adds that every record written has a deadline, so that a restore
writes an entry. The actions with a session step of their own (login, consume, successor,
restore, logout, crash, expiry) have a lemma each; all others leave the mapped state
alone (`SameRecords`). From the six actions of `SingleUseSession` alone follows that a
session that did not end has a credential and that a credential is rotated once
(`SessionsSound`, about the mapped state); conservation of the detailed protocol is that theorem
read through the refinement. Finality of a logout rests on `FinalInv`: a logout that found the record closed
a session whose last token it was (`Ending`), and until a result is published nobody but
its creator knows the successor (`Publishing`), so nobody can log it out before.

`ValkeyCacheProofs` proves, for any callers, replicas, keys, values, generations and number of
attempts:

- `SurvivingScopeIsAtomic`: `Spec => ImplementsAtomic`, the refinement of `AtomicCache`;
- `UpdatesAreNotLost`: `Spec => []NoLostUpdate`;
- `GraceIsKept`: `Spec => []GraceKept`, that no cache object ever has its current generation
  as its previous one, so that an idle reconcile does not spend the grace window;
- `Inductive`: the invariant `IndInv` behind them.

A step of a call maps to a step of the abstract map only if the call works on the one
generation the map stands for (`OneGeneration`: objects and captured prefixes of a surviving
class name the initial generation and no previous one), if what it carries fits its program
counter (`CallsOK`), if the object it uses exists (`ObjectsOK`), and if an `EXEC` that is still
clean writes what the function makes of the value there now (`NoLostUpdate`). `IndInv` is
their conjunction with `TypeOK`. The refinement has one lemma per action: the effect of a
call is the step at which its last round trip reaches the server, everything before and
after stutters, expiry is the abstract map's own, and a lost command or reply is the
abstract failure, before or after the effect.

`ClientProofs` is about two specifications. Of ConsentFlow, for any handlers, subjects,
clients, redirects, scopes and bounds (assumption `ConsentAssumption`): `TypeCorrect`; `CodesRestOnAllow` (`CodeNeedsAllow`) and
`RefreshRestsOnAllow` (`RefreshBacked`) from `ConsentInv`; `DenyIsFinal` (`DenySticks`) from
`DenyInv`; `UseKeepsConsent` (`UseRenews`, an action property) from `ClockInv`. A record is
read, changed and written back without a compare-and-set, so an invariant of the
record alone is never inductive: each of the three also speaks of the copies handlers
hold. `ConsentInv` says that record, copies and the verdict a request carries (`Standing`)
rest on what was allowed; `DenyInv` that no copy about to be written has a denied grant;
`ClockInv` that a record outlives its grants by its TTL and no copy is from the future. Lemmas
on `evictOldest`, `Granted`, `Revoked` and `touch` say what each leaves of a record.

Of ClientRegistry, for any names, replicas, skew and edits (`RegistryAssumption`):
`RegistryTypeCorrect`; `KindIsKept` (`KindNeverChanges`) from `LegacyKnown`, that a name of a client with a kind-less
credential is in the registry and every copy of it; `ReAddStartsClean`
(`ReAddIsCleanSlate`) from `SlateInv`. The property speaks of one replica that accepts a
credential; the invariant has to say that staged edits keep all of them within two
configurations (`Lockstep`), that their copies are level with the registry (`Level`), that
what an earlier life left is behind the cutoff (`CredsCut`), and that a merge under way
will not put the cutoff too early (`Timely`).

`RevocationProofs`, for every set of settings that satisfies the module's assumptions, with
any replicas, keys, generations and lag: `TypeCorrect`; `RevokedForGood`
(`RevokedStaysRevoked`) and `CutoffHolds` (`CutoffRefusesMint`) from `RevocationInv`;
`SweepsCover` (`SweepCovers`) from `SweepInv`; `FreshKeysWork` (`FreshKeyWorks`) from `FreshInv`.
The last is about keys minted after the later of the two times a revocation reads: a key minted
between them is revoked by the legacy record.
`RevocationInv` says of the store, the legacy class and what a sweep carries that every
entry was asked for and outlives the tokens it revokes, and that what a caller was told
stays in the store until then. `SweepInv` needs replicas to be at most one generation apart
(`GensOK`): then nobody writes where a running pass has already looked, and a pass has in
its hands or in the store what it has scanned (`PassOK`). Two theorems carry a condition.
`RevokedForGood` is for hosts whose token lifetimes fit into the horizon (`LifetimesFit`),
which every host with a maximum lifetime does (`BoundedHostFits`); without one, see
`VShortened`. `FreshKeysWork` excludes hosts with entries of an earlier release past the
horizon: in the model a pass may hold such an entry for years and write it then, which
the code's ten-minute timeout of a sweep rules out.

`SessionGateProofs`, for any callers, replicas, sessions, binding keys, entitlements and
scenarios of them (assumption `GateAssumption`: the jitter is below the lifetime, and a backend
answers something): `TypeCorrect`; `GateInvariant`, the invariant `GateInv` behind the rest;
`GrantsAreFresh` (`FreshAfterBump`); `StalenessIsBounded` (`StaleBounded`); `BudgetsAreKept`
(`BudgetKept`); `CapabilitiesNeverGrow` (`NeverInflated`). `BudgetKept` counts the uses left, the requests
admitted and the uses the cache took without its answer arriving. The other three properties
speak of what a request carries at the end; `GateInv` follows it there. `CapsOK` ties a request that holds
a capability to it from the gate to the handler (`WithCap`), so that the one it mints is a
part of what its first minter held. `AgesOK` bounds the life of every cached grant and claim by
the moment its version stopped being current (`Lasts`) and the age of what a request
carries by the same (`Aged`); a new version extends the list of those moments, which is why
both speak of the current version too. `FreshOK` is about generations: whatever is filed under
a generation, or about to be, is at least as new as what everyone who read that generation had
seen acknowledged (`Serves`), and a generation a replica makes is one nobody has read or filed
under (`Made`), so a bump leaves old resolves where no later request looks. One lemma per
action; the steps of one request that leave the shared state alone share `QuietStep`, the two
ends of a singleflight `LandStep`, the two writers of a membership `VersionStep`.

`MemoryCacheProofs`, for any keys, generations, values and bounds (assumption
`MemoryCacheConstants`): `TypeCorrect`; `EveryEntryIsEvictable` (`Evictable`) and `OneWinner`
(`SingleWinner`) from `CacheInvariant`, the invariant `CacheInv`. The list is shared by the
segments and evicts by the key an element names, so `OwnElements` says more than the
property: an entry's element is on the list, names the entry's key and is no other entry's,
else removing one generation's entry would strand another's. `ListOK` bounds the list, which
has no element twice, and with `OwnElements` the number of entries; its bound by the number of
Sets also keeps the ids of new elements within their type. `TakenOnce` says that a surviving class has
one segment and that what was taken is gone from it. Lemmas on the list (`RankFacts`,
`WithoutFacts`, `PushFacts`, `MoveFacts`, `FrontFacts`, `FreshFacts`) say what `Remove`, `PushFront`
and `MoveToFront` leave on it; they rest on the library's theorems on cardinality, which is
why `Without` is written with ranks of places rather than recursively. One lemma per action,
of which Set, with its eviction, is the longest.

`PackageImagesProofs`, for any settings, versions, generations and backoff (assumption
`PackagesAssumption`): `TypeCorrect`; `CoreCorrect`, the invariant `CoreInv`; `BuiltCorrect`
(`ReadyIsBuilt`) from `StatusInv`; `ServedCorrect` (`KnownGoodServed`, an action property) from
`GoodInv` and `ServedInv`. `ReadyIsBuilt` speaks of the object alone, but a pass reads it, its
Jobs and their pods from three informers; `Lockstep` says that as long as the object is never
deleted all of them trail it, and what is of its generation is of its pin, and `Published`
that an image in the status is never of a later generation and, at the current one, holds the
pins. `GoodInv` says that every image in the object, the host status, their informer copies and
the Deployment holds the pin it was built from. `KnownGoodServed` keeps an image once the host
controller has seen it recorded (`Recorded`): that no later pass loses it needs to know, of the
first object, that what the informer shows as recorded the status still records, and that an
object seen without an image was never recorded (`ServedInv`); before the first record arrives
the claim is false (`VRouteDropped` with `JustDiscarding`). Two theorems carry a condition on the setting, and the findings show why.
`SoundSetting` of `BuiltCorrect`: the object is never deleted and no build is stale or
verification always answers, or every pin is exact and both hold; a stale image that could
not be verified is published (`VPoisoned`), and an object created anew with a range takes its
predecessor's image (`VPoisoned` with `Recreated`). `TrustedSetting` of `ServedCorrect`: no build
is stale, or verification always answers and the object is never deleted. Every setting of the
run satisfies both. The proofs split a step into six kinds
(`StepKinds`): a pass of the packages controller, whichever return ends it (`Pass`), the host's
three ways through `handleInternalPackageReferences`, the cluster and the author.

`ControllerProofs`, of HostHandler, for any deployments, callers and requests (`ScenariosAssumption`: a deployment's
pages are among its names): `HostCorrect`, the invariant `HostInv`; `CacheCorrect`
(`CachedUnderItsKey`); `AnswersCurrent` (`ServedCurrent`). A render reaches the cache through a
request or a re-render that computed its key some steps before, and a request that joins
another's render is answered with what that one made. `HostInv` therefore follows the key: a
request that renders or has joined holds `hh.mu` for reading, so the tree its key digests is
the published one still (`RequestInv`), a re-render keeps the page and generation of its key
(`MigrationInv`), and both generations of the cache hold renders of their keys (`CacheInv`). A
rebuild must have read with every page the object it came from (`RebuildInv`, from `StoreInv`),
or a route would hand a request another page's generation.

And of FunctionLifecycle, for any settings (`SettingsAssumption`): `FunctionCorrect`, the invariant
`FunctionInv`; `FunctionTypeCorrect`; `ServesCorrect` (`ServesTheSpec`); `JobsCorrect`
(`ActiveJobKept`, an action property). `ServesTheSpec` is about Ready functions;
`Sound` says for every kind of spec and every state from SourceAvailable on what source,
executable and URL must be by then. A pass works from a copy that may be stale, and its write counts only if the copy was
current: so the Jobs and the Image, which a stale pass does change, need invariants that hold
relative to the server's generation (`LagInv`, `JobsInv`: no Job is of a later generation, and
a codegen Job of the current one was asked for its API; `BuiltFromSource`: what kpack reports
for the current Image was built from its source), while the status needs one only where copy
and server agree. Every handler is a `PassStep`: it writes a sound status or none, keeps
the Jobs it may not delete, and patches the Image so that what was observed is outdated.
Two conditions: Jobs of others carry none of the names the function's generations have
(`ForeignNames`), and what an older binary left behind is itself sound (`LegacySound`; the
self-heals of unsound statuses are in the run `function_settles`). `ServesTheSpec` is for
functions that carry the observer label; for the others see `VHiddenEdit`.

Only model-checked: liveness (`EveryRequestAnswered`, `CallsReturn`, `RequestsAnswered`,
`Converges`, `RequestsFinish`, `Settles`, `Delivered`: fairness is outside the prover), and
`LinksLead` and `RedirectsEnd` of HostHandler, which are about the mux and the menus that
`rebuildMuxSnapshot` folds together from sequences of pages and routes: what a fold over an
arbitrary sequence yields takes induction over data. Every other safety property a run checks
is a theorem.

## Findings

Sentences of comments that do not hold as they are worded. Each has a configuration that
ends in a counterexample, or is another one with the change named in brackets; the passing
runs check the weaker property that does hold.

| Configuration, module | Property | What happens |
|---|---|---|
| `VRestoreAfterLogout`, MCRefreshRotation | RevocationWins | the tombstone is read and the record restored in two calls; a logout between them is undone, although "a revocation that landed while this redemption held the consumed record must win" |
| `VRestoreAfterLogout` [`INVARIANT LogoutEndsReplay`], MCRefreshRotation | LogoutEndsReplay | a logout while a rotation is in flight leaves the result replayable |
| `VGraceChain`, MCRefreshRotation | LogoutTearsDownGrace | after two rotations logout leaves the oldest grace record |
| `VRestoreAfterLogout` [`PROPERTY PublishedIsReplayable`], MCRefreshRotation | PublishedIsReplayable | the cleanup of a failed request deletes the result of the retry that succeeded |
| `VShortened`, MCRevocation | RevocationNeverShortened | a second, shorter revocation shortens the first on a host without a maximum lifetime |
| `VMintRace`, MCRevocation | RevokedSubjectHoldsNoKey | a revocation between check and signature of a mint is missed |
| `VTouchResurrects`, MCConsentFlow | TouchNeverResurrects | the renewal of a consent in use undoes a concurrent Deny |
| `VTouchResurrects` [`Worlds <- Closing`, `INVARIANT DeletedStaysDeleted`], MCConsentFlow | DeletedStaysDeleted | a lookup's write restores a deleted client |
| `VLaggingPeer`, MCClientRegistry | CleanSlate | a replica that still serves the removed client mints a credential the re-added one accepts |
| `VLegacyKind`, MCClientRegistry | SubjectKindSound | a credential without a recorded kind changes kind with the configuration |
| `VStaleTTL`, MCSessionGate | StaleWithinTTL | `jitteredGrantTTL` adds to the lifetime that proxy.go counts on when it says the 60 s backstop still holds |
| `VOwnGrants`, MCSessionGate | OwnGrants | grants are cached and shared under generation and subject, so two sessions of one person with different addresses get each other's, although session_grants.go recomputes the binding key from the session's own claims |
| `VAliasCanonical`, MCHostHandler | AliasesCanonical | the canonical link of an alias is not always the path it is served from (navigation.go) |
| `VAliasCanonical` [`INVARIANT LandingServed`], MCHostHandler | LandingServed | a denied caller is sent to the language prefix of a landing page without language routes, which answers 404 |
| `VAliasCanonical` [`INVARIANT CachedTreeMatches`], MCHostHandler | CachedTreeMatches | a render is stored under a digest computed before a function its aliases target changed |
| `VHiddenEdit`, MCFunctionLifecycle | ReadyIsCurrent | an edit just before `markObserved` patches the label is decoded into the function being reconciled and recorded as observed; it is never deployed, although "a change to any of them deploys again" |
| `VSourceEdit`, MCFunctionLifecycle | SourceIsAuthoritative | an edit of the source alone is not built |
| `VSourceEdit` [`Settings <- OtherInputs`, `INVARIANT InputsRecorded`], MCFunctionLifecycle | InputsRecorded | a finished Job is credited with inputs it did not have |
| `VSourceEdit` [`Settings <- BackAgain`, `INVARIANT GeneratorKnown`], MCFunctionLifecycle | GeneratorKnown | a function that comes back from a Service reaches codegen without a generator |
| `VRetryStorm` [`Settings <- OneFailure`, `PROPERTY TerminalJobKept`], MCFunctionLifecycle | TerminalJobKept | a failed Job is deleted and with it the record of the failure |
| `VRetryStorm` [`Settings <- FailureEdit`, `PROPERTY RunningJobKept`], MCFunctionLifecycle | RunningJobKept | an edit after a failure deletes a running Job |
| `VRetryStorm`, MCFunctionLifecycle | FailureSurfaces | a Job that always fails is started for ever |
| `VRouteDropped`, MCPackageImages | LastKnownKept | moving from `spec.packagesImage` to references stamps an empty image over the last-known one, so the packages route is dropped mid-rebuild, contrary to packagesPendingOutcome |
| `VRouteDropped` [`Settings <- JustReturning`], MCPackageImages | LastKnownKept | so does an object created anew |
| `VRouteDropped` [`Settings <- JustDiscarding`], MCPackageImages | LastKnownKept | the Deployment is written, the status write that records its image is discarded or lost, the object turns Ready=False with a lost pod: the next pass finds no last-known image and deletes the Deployment |
| `VPoisoned`, MCPackageImages | PoisonHeals | a stale image that could not be read is published unverified; once it is found not to match, its Job is deleted, and the tag of the published image keeps it from being rebuilt ("the next reconcile rebuilds") |
| `VPoisoned` [`Settings <- Stranded`, `PROPERTY OutputsComeBack`], MCPackageImages | OutputsComeBack | when the pod with the outputs is gone and a failed one of the same Job is not, the controller waits for them for ever |
| `VPoisoned` [`Settings <- Recreated`, `INVARIANT ReadyIsBuilt`], MCPackageImages | ReadyIsBuilt | an object created anew with a range publishes the image of its predecessor's Job, which has the same name |

Met on the way, without a configuration of their own: capabilities.go calls a capability
"bounded BELOW the key by construction", but lifetime and uses are clamped by host policy only;
a grant-generation read that fails may meet an entry stored under the empty generation,
although the comment says it resolves; a page deleted and created anew starts at generation
one again and meets its predecessor's render under the same key; a non-exact route that loses a
collision is dropped with a log line; `SetHost` cycles the caches with a checksum of the
generation observed before the one it installs; and a rebuild that swaps in late heals only
with the next host reconcile, which a broken page keeps waiting.

## Not modelled

The components marked `not_modelled` in `PROJECT.json`, for the reason given there: text
analysis (sniffer), cryptography and document rendering, byte-level I/O, flag parsing; OIDC login
cookies and event hooks are small protocols of one browser or one external call. Within the
modelled components: contents of tokens and claims, PKCE, rendering, pod specs, wording
of errors, the registration limiter's buckets, stream deadlines, and the ingress, RBAC and
backend objects the host controller renders from the spec without reading anything back. A mint
that takes longer than the 180 ms a loser polls is answered with not-found; the code
bounds neither, so the model lets the poll end at any point of the winner's progress.

Simplifications of the modelled controllers. An informer that catches up shows the present
state at once, not the ones in between. `createOrUpdateJobConfigMap` is taken to read the
ConfigMap as it is: it reads an informer, and an edit back to the pin of two edits ago could be
taken for a no-op while that informer still shows it; with a range, which is not verified, the
Job's image would be of the pin in between. Secrets that a package reference names and that are
missing degrade the object until they appear and are left out. The host reconcile's other waits
and refusals (theme, backends, utility pages, Deployments not ready) requeue as a cold start
does and are folded into `Warm`. A failing `NewTranslations` ends a rebuild without a swap;
translations always parse in the model. A page that breaks and is repaired comes back under a
new identity (`PageSet`) where the code has the same object at a later generation;
`ServedCurrent` compares renders of one identity. The OpenAPI document and the other
host-native documents, which read the same state under one read lock, are not among the
requests.

## Plan

1. Event hooks, OIDC login cookies, registration limiter, stream deadlines: small modules.
2. Role resolution as operators checked against a reference definition.
3. Proofs: RedirectsEnd of HostHandler for menus and muxes of a bounded size.
