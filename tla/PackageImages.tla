---------------------------- MODULE PackageImages ----------------------------
(***************************************************************************)
(* The packages image of one host: the host controller, which collects the *)
(* packages the pages ask for into one KDexInternalPackageReferences and   *)
(* serves what that object publishes, and the controller of that object,   *)
(* which runs a packager Job per generation, verifies the image it built   *)
(* against the pins and publishes it in its status.                        *)
(*                                                                         *)
(* Both controllers read through informers that trail the API server.  The *)
(* packages asked for are one pin: a version, exact or the base of a       *)
(* range.  An image remembers the pin it was built from and the version    *)
(* its tree holds, which a registry that lags behind its own publications  *)
(* may make another one.                                                   *)
(***************************************************************************)
EXTENDS Naturals

CONSTANTS Settings,  \* what the author asks for, and what goes wrong how often
          Versions,  \* the versions of the package
          MaxGens,   \* bound on the generations of one object
          Backoff,   \* BackoffLimit
          NoRefs, NoObj, NoJob, NoImage,
          Prebuilt   \* spec.packagesImage

Gens == 1 .. MaxGens
Pins == [want : Versions, exact : BOOLEAN]
Images == [tag : Gens, pin : Pins, holds : Versions]
Statuses == [image : Images \cup {NoImage}, verified : {"", "pins", "unknown"},
             ready : {"", "True", "False", "Unknown"}, observed : Nat]
Objects == [uid : Nat, gen : Gens, pin : Pins, st : Statuses]
HostStatuses == [image : Images \cup {NoImage, Prebuilt}, ready : {"", "True", "False"}]
Jobs == [owner : Nat, state : {"waiting", "running", "succeeded", "failed"}, pin : Pins, fails : Nat]
Pods == [gen : Gens, ok : BOOLEAN, pin : Pins, holds : Versions, orphan : BOOLEAN]
SettingType == [asks : SUBSET (Pins \cup {NoRefs, Prebuilt}), edits : Nat, stale : Nat, fails : Nat,
                lost : Nat, blips : Nat, lags : Nat, discards : Nat]

ASSUME PackagesAssumption ==
    /\ MaxGens \in Nat /\ Backoff \in Nat
    /\ Settings \subseteq SettingType /\ \A s \in Settings : s.edits < MaxGens
    /\ {NoRefs, Prebuilt} \cap Pins = {} /\ NoRefs # Prebuilt
    /\ NoObj \notin Objects /\ NoJob \notin Jobs
    /\ {NoImage, Prebuilt} \cap Images = {} /\ NoImage # Prebuilt

VARIABLES
  refs,      \* what pages, host and themes ask for
  kipr,      \* the KDexInternalPackageReferences: [uid, gen, pin, st]
  seen,      \* the informers' view: the object, its Jobs and their pods, the host's status
  config,    \* the ConfigMap with the dependencies: [owner, pin]
  secret,    \* the Secret with the .npmrc: [owner]
  jobs,      \* the packager Jobs: generation -> [owner, state, pin, fails]
  pods,      \* their finished pods: [gen, ok, pin, holds, orphan]
  host,      \* the host's status: packages.image and PackagesReady
  served,    \* the image of the packages Deployment
  uid,       \* the objects created so far
  left       \* the setting, with what may still happen of it

vars == <<refs, kipr, seen, config, secret, jobs, pods, host, served, uid, left>>

NoStatus == [image |-> NoImage, verified |-> "", ready |-> "", observed |-> 0]
NoJobs == [g \in Gens |-> NoJob]

Init ==
    /\ left \in Settings
    /\ refs \in left.asks
    /\ kipr = NoObj /\ config = NoObj /\ secret = NoObj
    /\ jobs = NoJobs /\ pods = {}
    /\ host = [image |-> NoImage, ready |-> ""]
    /\ seen = [kipr |-> NoObj, jobs |-> NoJobs, pods |-> {}, host |-> host]
    /\ served = NoImage
    /\ uid = 0

-----------------------------------------------------------------------------
(* The package references controller.  Each action is one Reconcile of the *)
(* object the informer shows, up to the return that ends it.               *)

\* The deferred status write; a conflict discards it.
UpdateStatus(k, st) ==
    kipr' = IF kipr = k THEN [k EXCEPT !.st = [st EXCEPT !.observed = k.gen]] ELSE kipr

Degraded(k) == [k.st EXCEPT !.ready = "False"]

\* SetControllerReference refuses an object another owner controls.
Controls(k, obj) == obj # NoObj => obj.owner = k.uid

\* A Job that is gone leaves its pods to the garbage collector.
DeleteJobsNever(gs) == UNCHANGED <<jobs, pods>>
DeleteJobs(gs) ==
    /\ jobs' = [g \in Gens |-> IF g \in gs THEN NoJob ELSE jobs[g]]
    /\ pods' = {IF p.gen \in gs THEN [p EXCEPT !.orphan = TRUE] ELSE p : p \in pods}

\* cleanupJobs: every listed Job of an older generation.
superseded(k) == {g \in Gens : g < k.gen /\ seen.jobs[g] # NoJob}
cleanupJobs(k) == DeleteJobs(superseded(k))

\* createOrUpdateJobConfigMap and createOrUpdateJobSecret, the first of which
\* comes before the second can fail.  Assumed: CreateOrUpdate reads the two
\* objects as they are.  It reads them from an informer, and one that still
\* showed the ConfigMap of two edits ago would take an edit back to that pin for
\* a no-op and leave the Job the pin in between.
createOrUpdateJobConfigMap(k) ==
    Controls(k, config) /\ config' = [owner |-> k.uid, pin |-> k.pin]
createOrUpdateJobSecret(k) ==
    Controls(k, secret) /\ secret' = [owner |-> k.uid]
Rendered(k) == createOrUpdateJobConfigMap(k) /\ createOrUpdateJobSecret(k)

\* The object is there, the host resolves.
Reconciled == seen.kipr # NoObj /\ UNCHANGED <<refs, seen, host, served, uid>>

\* An object of the deleted predecessor is in the way.
RenderFails ==
    LET k == seen.kipr IN
    /\ Reconciled
    /\ \/ ~Controls(k, config) /\ UNCHANGED <<config, secret>>
       \/ createOrUpdateJobConfigMap(k) /\ ~Controls(k, secret) /\ UNCHANGED secret
    /\ UpdateStatus(k, Degraded(k))
    /\ UNCHANGED <<jobs, pods, left>>

\* imageBuiltForCurrentGeneration: by the tag of the recorded image.
imageBuiltForAny(k) == k.st.image # NoImage
imageBuiltForCurrentGeneration(k) == k.st.image # NoImage /\ k.st.image.tag = k.gen

\* GetOrCreatePackRefJob finds no Job: the image is there already, ...
AlreadyBuilt ==
    LET k == seen.kipr IN
    /\ Reconciled /\ Rendered(k)
    /\ seen.jobs[k.gen] = NoJob
    /\ imageBuiltForCurrentGeneration(k)
    /\ cleanupJobs(k)
    /\ UpdateStatus(k, [k.st EXCEPT !.ready = "True"])
    /\ UNCHANGED left

\* ... or the Job is created and waited for, unless the informer has not shown
\* it yet.
GetOrCreatePackRefJob ==
    LET k == seen.kipr
        job == [owner |-> k.uid, state |-> "waiting", pin |-> k.pin, fails |-> 0]
    IN  /\ Reconciled /\ Rendered(k)
        /\ seen.jobs[k.gen] = NoJob
        /\ ~imageBuiltForCurrentGeneration(k)
        /\ IF jobs[k.gen] # NoJob THEN UNCHANGED <<jobs, pods>>
           ELSE /\ jobs' = [g \in Gens |-> IF g = k.gen THEN job
                                           ELSE IF g \in superseded(k) THEN NoJob ELSE jobs[g]]
                /\ pods' = {IF p.gen \in superseded(k) THEN [p EXCEPT !.orphan = TRUE] ELSE p : p \in pods}
        /\ UpdateStatus(k, Degraded(k))
        /\ UNCHANGED left

\* classifyPackRefJob: a Job that failed for good is kept; one under way is
\* waited for, and older ones go.
JobPending ==
    LET k == seen.kipr IN
    /\ Reconciled /\ Rendered(k)
    /\ seen.jobs[k.gen] # NoJob
    /\ \/ seen.jobs[k.gen].state = "failed" /\ UNCHANGED <<jobs, pods>>
       \/ seen.jobs[k.gen].state \in {"waiting", "running"} /\ cleanupJobs(k)
    /\ UpdateStatus(k, Degraded(k))
    /\ UNCHANGED left

\* GetPodForJob: whichever pod of the Job's name and generation is listed first.
podsForJob(k) == {p \in seen.pods : p.gen = k.gen}

Succeeded(k) == seen.jobs[k.gen] # NoJob /\ seen.jobs[k.gen].state = "succeeded"

\* The pod is gone: build again.
PodMissing ==
    LET k == seen.kipr IN
    /\ Reconciled /\ Rendered(k)
    /\ Succeeded(k) /\ podsForJob(k) = {}
    /\ DeleteJobs({k.gen})
    /\ UpdateStatus(k, Degraded(k))
    /\ UNCHANGED left

\* The pod has no digest or no import map: wait.
OutputMissing(p) ==
    LET k == seen.kipr IN
    /\ Reconciled /\ Rendered(k)
    /\ Succeeded(k) /\ p \in podsForJob(k) /\ ~p.ok
    /\ UpdateStatus(k, [k.st EXCEPT !.ready = "Unknown"])
    /\ UNCHANGED <<jobs, pods, left>>

\* alreadyVerified: this very image, verified.
alreadyVerifiedOnce(k, image) == k.st.verified = "pins"
alreadyVerified(k, image) == k.st.image = image /\ k.st.verified = "pins"

\* VerifyPinnedVersions: an exact pin is compared, a range is not.
VerifyNothing(pin, image) == TRUE
VerifyPinnedVersions(pin, image) == pin.exact => image.holds = pin.want

\* verifyBuiltImage: the verdict, or "unknown" when the image cannot be read.
Verdicts(k, image) ==
    IF alreadyVerified(k, image) THEN {"pins"}
    ELSE {IF VerifyPinnedVersions(k.pin, image) THEN "pins" ELSE "mismatch"}
         \cup (IF left.blips > 0 THEN {"unknown"} ELSE {})

\* The image is verified and published, or refused and its Job deleted.
Harvest(p) ==
    LET k == seen.kipr
        image == [tag |-> k.gen, pin |-> p.pin, holds |-> p.holds]
    IN  /\ Reconciled /\ Rendered(k)
        /\ Succeeded(k) /\ p \in podsForJob(k) /\ p.ok
        /\ \E verdict \in Verdicts(k, image) :
             /\ \/ /\ verdict = "mismatch"
                   /\ DeleteJobs({k.gen})
                   /\ UpdateStatus(k, Degraded(k))
                \/ /\ verdict # "mismatch"
                   /\ cleanupJobs(k)
                   /\ UpdateStatus(k, [k.st EXCEPT !.image = image, !.verified = verdict, !.ready = "True"])
             /\ left' = [left EXCEPT !.blips = IF verdict = "unknown" THEN @ - 1 ELSE @]

-----------------------------------------------------------------------------
(* The host controller.                                                    *)

HostStep == UNCHANGED <<seen, config, secret, jobs, pods>>

\* The deferred status write, of a pass whose other effects stand: discarded when
\* the informer has not shown the status as it is, or lost to another writer of
\* the host, to an error or to a crash after the Deployment was written.
UpdateHostStatus(st, l) ==
    \/ /\ host' = IF host = seen.host THEN st ELSE host
       /\ left' = l
    \/ /\ l.discards > 0 /\ host = seen.host /\ st # host
       /\ left' = [l EXCEPT !.discards = @ - 1]
       /\ UNCHANGED host

Serve(image, ready) ==
    served' = image /\ UpdateHostStatus([image |-> image, ready |-> ready], left)

\* handleInternalPackageReferences with a pinned image, and with no packages:
\* the object is deleted and the packages Deployment is obsolete.
HostPinned ==
    /\ HostStep /\ refs = Prebuilt
    /\ Serve(Prebuilt, "True")
    /\ UNCHANGED <<refs, kipr, uid>>

HostWithout ==
    /\ HostStep /\ refs = NoRefs
    /\ kipr' = NoObj
    /\ Serve(NoImage, "True")
    /\ UNCHANGED <<refs, uid>>

\* createOrUpdatePackageReferences: the object after the write, when there is
\* no conflict with what the informer has not shown yet.
Written ==
    IF seen.kipr = NoObj THEN [uid |-> uid + 1, gen |-> 1, pin |-> refs, st |-> NoStatus]
    ELSE IF seen.kipr.pin = refs THEN seen.kipr
    ELSE [seen.kipr EXCEPT !.gen = @ + 1, !.pin = refs]

createOrUpdatePackageReferences ==
    IF Written = seen.kipr THEN UNCHANGED <<kipr, uid>>
    ELSE /\ kipr = seen.kipr
         /\ kipr' = Written
         /\ uid' = Written.uid

\* packagesPendingOutcome: the last image the status is known to record stays,
\* none removes the Deployment.
packagesPendingDrops == Serve(NoImage, "False")
packagesPendingOutcome == Serve(seen.host.image, "False")

\* An image that is recorded as published but cannot be read is an error,
\* after it went into the host's status.
HostPackages ==
    LET st == Written.st IN
    /\ HostStep /\ refs \notin {NoRefs, Prebuilt}
    /\ createOrUpdatePackageReferences
    /\ UNCHANGED refs
    /\ \/ /\ st.ready = "False"
          /\ packagesPendingOutcome
       \/ /\ st.ready # "False" /\ st.image # NoImage
          /\ Serve(st.image, "True")
       \/ /\ st.ready # "False" /\ (st.image = NoImage \/ left.blips > 0)
          /\ UNCHANGED served
          /\ UpdateHostStatus([seen.host EXCEPT !.image = st.image],
                 [left EXCEPT !.blips = IF st.image = NoImage THEN @ ELSE @ - 1])

-----------------------------------------------------------------------------
(* The cluster (external): authors, informers, pods, garbage collection.   *)

Edit(r) ==
    /\ left.edits > 0 /\ r # refs
    /\ refs' = r
    /\ left' = [left EXCEPT !.edits = @ - 1]
    /\ UNCHANGED <<kipr, seen, config, secret, jobs, pods, host, served, uid>>

InformObject ==
    /\ seen' = [seen EXCEPT !.kipr = kipr]
    /\ UNCHANGED <<refs, kipr, config, secret, jobs, pods, host, served, uid, left>>
InformHost ==
    /\ seen' = [seen EXCEPT !.host = host]
    /\ UNCHANGED <<refs, kipr, config, secret, jobs, pods, host, served, uid, left>>
InformJobs ==
    /\ seen' = [seen EXCEPT !.jobs = jobs, !.pods = pods]
    /\ UNCHANGED <<refs, kipr, config, secret, jobs, pods, host, served, uid, left>>

\* The watches of Jobs and of pods are two: one falls behind the other, a bounded
\* number of times, for a controller that meets it every time builds for ever.
InformLags ==
    /\ left.lags > 0
    /\ \E s \in {[seen EXCEPT !.jobs = jobs], [seen EXCEPT !.pods = pods]} :
         s # seen /\ s # [seen EXCEPT !.jobs = jobs, !.pods = pods] /\ seen' = s
    /\ left' = [left EXCEPT !.lags = @ - 1]
    /\ UNCHANGED <<refs, kipr, config, secret, jobs, pods, host, served, uid>>

\* A pod starts with the ConfigMap as it is then.
PodStarts(g) ==
    /\ jobs[g] # NoJob /\ jobs[g].state = "waiting" /\ config # NoObj /\ secret # NoObj
    /\ jobs' = [jobs EXCEPT ![g].state = "running", ![g].pin = config.pin]
    /\ UNCHANGED <<refs, kipr, seen, config, secret, pods, host, served, uid, left>>

Finished(g, ok, holds) ==
    [gen |-> g, ok |-> ok, pin |-> jobs[g].pin, holds |-> holds, orphan |-> FALSE]

\* It builds what it was asked for, or an older publication while the registry
\* lags.
PodSucceeds(g) ==
    /\ jobs[g] # NoJob /\ jobs[g].state = "running"
    /\ \E v \in IF left.stale > 0 THEN Versions ELSE {jobs[g].pin.want} :
         /\ pods' = pods \cup {Finished(g, TRUE, v)}
         /\ left' = [left EXCEPT !.stale = IF v = jobs[g].pin.want THEN @ ELSE @ - 1]
    /\ jobs' = [jobs EXCEPT ![g].state = "succeeded"]
    /\ UNCHANGED <<refs, kipr, seen, config, secret, host, served, uid>>

\* It fails and leaves no outputs; the Job starts another or is exhausted.
PodFails(g) ==
    /\ jobs[g] # NoJob /\ jobs[g].state = "running" /\ left.fails > 0
    /\ pods' = pods \cup {Finished(g, FALSE, jobs[g].pin.want)}
    /\ left' = [left EXCEPT !.fails = @ - 1]
    /\ jobs' = [jobs EXCEPT ![g].state = IF jobs[g].fails = Backoff THEN "failed" ELSE "waiting",
                            ![g].fails = @ + 1]
    /\ UNCHANGED <<refs, kipr, seen, config, secret, host, served, uid>>

PodLost(p) ==
    /\ left.lost > 0
    /\ pods' = pods \ {p}
    /\ left' = [left EXCEPT !.lost = @ - 1]
    /\ UNCHANGED <<refs, kipr, seen, config, secret, jobs, host, served, uid>>

\* Objects whose owner is gone, in any order.
Gone(owner) == kipr # NoObj => kipr.uid # owner

Collect ==
    /\ \/ config # NoObj /\ Gone(config.owner) /\ config' = NoObj /\ UNCHANGED <<secret, jobs, pods>>
       \/ secret # NoObj /\ Gone(secret.owner) /\ secret' = NoObj /\ UNCHANGED <<config, jobs, pods>>
       \/ \E g \in Gens : jobs[g] # NoJob /\ Gone(jobs[g].owner) /\ DeleteJobs({g}) /\ UNCHANGED <<config, secret>>
       \/ (\E p \in pods : p.orphan) /\ pods' = {p \in pods : ~p.orphan} /\ UNCHANGED <<config, secret, jobs>>
    /\ UNCHANGED <<refs, kipr, seen, host, served, uid, left>>

-----------------------------------------------------------------------------
HarvestAny == \E p \in podsForJob(seen.kipr) : Harvest(p)

PackagesReconcile ==
    /\ seen.kipr # NoObj
    /\ \/ RenderFails \/ AlreadyBuilt \/ GetOrCreatePackRefJob \/ JobPending \/ PodMissing
       \/ \E p \in podsForJob(seen.kipr) : OutputMissing(p)
       \/ HarvestAny

HostReconcile == HostPinned \/ HostWithout \/ HostPackages

Cluster == InformObject \/ InformHost \/ InformJobs \/ Collect \/ \E g \in Gens : PodStarts(g) \/ PodSucceeds(g)

Next ==
    \/ PackagesReconcile \/ HostReconcile \/ Cluster
    \/ InformLags
    \/ \E r \in left.asks : Edit(r)
    \/ \E g \in Gens : PodFails(g)
    \/ \E p \in pods : PodLost(p)

\* Both controllers run after every event and requeue what fails or waits, the
\* host's also a write that met a conflict, however often the status changes;
\* informers catch up, pods end, garbage is collected.  Pods are listed in
\* random order, so the one with the outputs is met in the end.
Fairness ==
    /\ WF_vars(PackagesReconcile) /\ SF_vars(HostReconcile)
    /\ SF_vars(seen.kipr # NoObj /\ HarvestAny)
    /\ WF_vars(InformObject) /\ WF_vars(InformHost) /\ WF_vars(InformJobs)
    /\ WF_vars(Collect)
    /\ \A g \in Gens : WF_vars(PodStarts(g)) /\ WF_vars(PodSucceeds(g))

Spec == Init /\ [][Next]_vars /\ Fairness
-----------------------------------------------------------------------------
(* Properties.                                                             *)

TypeOK ==
    /\ refs \in left.asks /\ left \in SettingType
    /\ kipr \in Objects \cup {NoObj} /\ (kipr # NoObj => kipr.uid = uid)
    /\ jobs \in [Gens -> Jobs \cup {NoJob}]
    /\ pods \subseteq Pods
    /\ seen \in [kipr : Objects \cup {NoObj}, jobs : [Gens -> Jobs \cup {NoJob}], pods : SUBSET Pods,
                host : HostStatuses]
    /\ config \in [owner : Nat, pin : Pins] \cup {NoObj}
    /\ secret \in [owner : Nat] \cup {NoObj}
    /\ host \in HostStatuses
    /\ served \in Images \cup {NoImage, Prebuilt}
    /\ uid \in Nat

\* The image holds what the pin it is published for says.
Satisfies(image, pin) == image.pin = pin /\ (pin.exact => image.holds = pin.want)

\* When the object reports Ready for the generation it is at, the image it
\* publishes was built for that generation and holds the versions it pins:
\* through edits while Jobs run, Jobs and pods that vanish or are met again
\* under the same name, stale builds and trailing informers.
ReadyIsBuilt ==
    kipr # NoObj /\ kipr.st.ready = "True" /\ kipr.st.observed = kipr.gen
        => /\ kipr.st.image # NoImage /\ kipr.st.image.tag = kipr.gen
           /\ Satisfies(kipr.st.image, kipr.pin)

\* The host controller has the image that is served on record.
Recorded == served \in Images /\ seen.host.image \in Images

\* The host keeps serving the last known-good image: what the packages
\* Deployment runs changes only to an image that holds its pins; and from the
\* moment the host's status is seen to record the image of an object, an image
\* stays served and recorded for as long as the host asks for packages of that
\* object, the first one: through edits, rebuilds, trailing informers and status
\* writes that are lost (handleInternalPackageReferences, packagesPendingOutcome).
KnownGoodServed ==
    [][/\ served' # served /\ served' \in Images => Satisfies(served', served'.pin)
       /\ Recorded /\ kipr # NoObj /\ uid = 1 /\ refs # NoRefs
            => served' # NoImage /\ seen'.host.image # NoImage]_vars

\* After the last edit the host serves what it asks for, or the Job for it has
\* failed for good.
Exhausted == kipr # NoObj /\ kipr.pin = refs /\ jobs[kipr.gen] # NoJob /\ jobs[kipr.gen].state = "failed"
Delivered ==
    <>[](\/ refs = NoRefs /\ served = NoImage
         \/ refs = Prebuilt /\ served = Prebuilt
         \/ refs \in Pins /\ (Exhausted \/ (served \notin {NoImage, Prebuilt} /\ Satisfies(served, refs))))
-----------------------------------------------------------------------------
(* What the comments claim and the code does not do.                       *)

\* "reuses the last-known packages image/importmap so the existing packages
\* route isn't dropped mid-rebuild" (packagesPendingOutcome): with packages asked
\* for, the Deployment stays.
LastKnownKept == [][served # NoImage /\ refs # NoRefs => served' # NoImage]_vars

\* A poisoned image "the next reconcile rebuilds" (Reconcile), unless it was
\* published unverified first; "we can't find the outputs yet? Wait a bit": for
\* ever, when the pod that had them is gone and one that failed is not.
PoisonHeals == Delivered
OutputsComeBack == Delivered
=============================================================================
