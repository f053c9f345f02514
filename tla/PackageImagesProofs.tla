------------------------- MODULE PackageImagesProofs -------------------------
(***************************************************************************)
(* Whatever the author asks for, the informers show, the builds hold and   *)
(* the cluster loses: what a KDexInternalPackageReferences publishes as    *)
(* Ready was built for its current pins, and the host moves only to known  *)
(* good images, in the settings the theorems name.                         *)
(***************************************************************************)
EXTENDS PackageImages, TLAPS

-----------------------------------------------------------------------------
(* The package references: the invariants                                 *)

\* What a setting asks for, as long as it lasts.
SettingOK ==
  /\ kipr # NoObj => kipr.pin \in left.asks
  /\ seen.kipr # NoObj => seen.kipr.pin \in left.asks
  /\ config # NoObj => config.pin \in left.asks
  /\ \A g \in Gens : jobs[g] # NoJob => jobs[g].pin \in left.asks
  /\ \A p \in pods \cup seen.pods : p.pin \in left.asks

\* A new generation needs an edit.
EditsBound ==
  /\ left.edits < MaxGens
  /\ kipr # NoObj => kipr.gen + left.edits + (IF kipr.pin = refs THEN 0 ELSE 1) <= MaxGens

\* The object is never deleted.
OneObject == NoRefs \notin left.asks
\* Every pin is of one version.
AllExact == \A a \in left.asks \cap Pins : a.exact

\* Every image holds what it was built from.
Honest == left.stale = 0 /\ \A p \in pods \cup seen.pods : p.holds = p.pin.want
NoBlips == left.blips = 0

Dependable ==
  \/ OneObject /\ (Honest \/ NoBlips)
  \/ AllExact /\ Honest /\ NoBlips

\* One life
Lockstep == OneObject =>
  /\ seen.kipr # NoObj =>
       /\ kipr # NoObj /\ seen.kipr.gen <= kipr.gen
       /\ seen.kipr.gen = kipr.gen => seen.kipr.pin = kipr.pin
  /\ \A p \in pods \cup seen.pods : seen.kipr # NoObj /\ p.gen <= seen.kipr.gen
                                    /\ (p.gen = seen.kipr.gen => p.pin = seen.kipr.pin)
  /\ \A g \in Gens : jobs[g] # NoJob =>
       /\ seen.kipr # NoObj /\ g <= seen.kipr.gen
       /\ g = seen.kipr.gen => /\ jobs[g].pin = seen.kipr.pin
                               /\ config # NoObj => config.pin = seen.kipr.pin

Published(k) == k # NoObj =>
  /\ k.st.observed <= k.gen
  /\ k.st.image # NoImage => /\ k.st.image.tag <= k.gen
                             /\ k.st.image.tag = k.gen => Satisfies(k.st.image, k.pin)
  /\ k.st.ready = "True" /\ k.st.observed = k.gen => k.st.image # NoImage /\ k.st.image.tag = k.gen

StatusInv == Dependable /\ Published(kipr) /\ Published(seen.kipr)

\* served
Good(image) == image \in Images => Satisfies(image, image.pin)
Trusted == Honest \/ (OneObject /\ NoBlips)

\* The settings that start so.
SoundSetting(s) ==
  \/ NoRefs \notin s.asks /\ (s.stale = 0 \/ s.blips = 0)
  \/ (\A a \in s.asks \cap Pins : a.exact) /\ s.stale = 0 /\ s.blips = 0
TrustedSetting(s) == s.stale = 0 \/ (NoRefs \notin s.asks /\ s.blips = 0)

GoodInv ==
  /\ Good(host.image) /\ Good(seen.host.image) /\ Good(served)
  /\ kipr # NoObj => Good(kipr.st.image)
  /\ seen.kipr # NoObj => Good(seen.kipr.st.image)
  /\ Trusted
\* In the life of the first object the host records its image once for all.
ServedInv == uid <= 1 =>
  /\ host.image \in Images \/ seen.host.image \in Images => uid = 1
  /\ kipr # NoObj /\ seen.host.image \in Images => host.image # NoImage
  /\ seen.kipr # NoObj /\ seen.kipr.st.image = NoImage => host.image \notin Images /\ seen.host.image \notin Images
  /\ seen.kipr # NoObj /\ kipr # NoObj /\ seen.kipr.st.image # NoImage => kipr.st.image # NoImage
  /\ kipr # NoObj /\ seen.kipr = NoObj => host.image \notin Images /\ seen.host.image \notin Images
  /\ kipr # NoObj \/ seen.kipr # NoObj => uid = 1

-----------------------------------------------------------------------------
(* Records                                                                 *)

\* What the constants are.
LEMMA PackageConstants ==
  /\ MaxGens \in Nat /\ Backoff \in Nat
  /\ Settings \subseteq SettingType /\ \A s \in Settings : s.edits < MaxGens
  /\ NoRefs \notin Pins /\ Prebuilt \notin Pins /\ NoRefs # Prebuilt
  /\ NoObj \notin Objects /\ NoJob \notin Jobs
  /\ NoImage \notin Images /\ Prebuilt \notin Images /\ NoImage # Prebuilt
  BY PackagesAssumption

LEMMA ObjectFields ==
  ASSUME NEW k \in Objects
  PROVE  /\ k.uid \in Nat /\ k.gen \in Gens /\ k.gen \in Nat /\ k.pin \in Pins /\ k.st \in Statuses
         /\ k.st.image \in Images \cup {NoImage} /\ k.st.observed \in Nat
<1>1. k.uid \in Nat /\ k.gen \in Gens /\ k.pin \in Pins /\ k.st \in Statuses
  BY DEF Objects
<1>2. k.st.image \in Images \cup {NoImage} /\ k.st.observed \in Nat
  BY <1>1 DEF Statuses
<1>3. k.gen \in Nat
  BY <1>1, PackageConstants DEF Gens
<1> QED BY <1>1, <1>2, <1>3

LEMMA PodFields ==
  ASSUME NEW p \in Pods
  PROVE  p.gen \in Gens /\ p.gen \in Nat /\ p.pin \in Pins /\ p.holds \in Versions /\ p.ok \in BOOLEAN
  BY PackageConstants DEF Pods, Gens

\* An object with another status is the same object at the same generation.
LEMMA WithStatus ==
  ASSUME NEW k \in Objects, NEW s \in Statuses
  PROVE  LET o == [k EXCEPT !.st = s]
         IN  o \in Objects /\ o.uid = k.uid /\ o.gen = k.gen /\ o.pin = k.pin /\ o.st = s
  BY DEF Objects

-----------------------------------------------------------------------------
(* One reconcile of the package references                                 *)

Alike(p, q) == p.gen = q.gen /\ p.pin = q.pin /\ p.holds = q.holds

\* The status a reconcile of k writes: the image it had, or one it harvested.
Retained(k, s) ==
  /\ s.image = k.st.image
  /\ s.ready = "True" => k.st.image # NoImage /\ k.st.image.tag = k.gen
Harvested(k, s, p) ==
  /\ p.gen = k.gen /\ s.image = [tag |-> k.gen, pin |-> p.pin, holds |-> p.holds]
  /\ s.image = k.st.image \/ VerifyPinnedVersions(k.pin, s.image) \/ left.blips > 0

StatusWritten(k) ==
  \/ kipr' = kipr
  \/ kipr = k /\ \E s \in Statuses :
       /\ kipr' = [k EXCEPT !.st = s] /\ s.observed = k.gen
       /\ Retained(k, s) \/ \E p \in seen.pods : Harvested(k, s, p)

\* What a reconcile changes, whichever return ends it.
Pass(k) ==
  /\ k \in Objects /\ seen.kipr = k /\ UNCHANGED <<refs, seen, host, served, uid>>
  /\ config' \in {config, [owner |-> k.uid, pin |-> k.pin]}
  /\ secret' \in {secret, [owner |-> k.uid]}
  /\ jobs' \in [Gens -> Jobs \cup {NoJob}]
  /\ \A g \in Gens : jobs'[g] # NoJob =>
       jobs'[g] = jobs[g] \/ (g = k.gen /\ jobs'[g].pin = k.pin /\ config'.pin = k.pin)
  /\ pods' \subseteq Pods /\ \A p \in pods' : \E q \in pods : Alike(p, q)
  /\ left' = left \/ (left.blips > 0 /\ left' = [left EXCEPT !.blips = @ - 1])
  /\ StatusWritten(k)

\* A status update writes the image the object had, or one a pod produced.
LEMMA StatusUpdated ==
  ASSUME NEW k \in Objects, NEW st \in Statuses, UpdateStatus(k, st),
         Retained(k, st) \/ \E p \in seen.pods : Harvested(k, st, p)
  PROVE  StatusWritten(k)
<1> DEFINE s == [st EXCEPT !.observed = k.gen]
<1>1. s \in Statuses /\ s.observed = k.gen /\ s.image = st.image /\ s.ready = st.ready
  BY ObjectFields DEF Statuses
<1>2. Retained(k, s) \/ \E p \in seen.pods : Harvested(k, s, p)
  BY <1>1 DEF Retained, Harvested
<1>3. kipr' = kipr \/ (kipr = k /\ kipr' = [k EXCEPT !.st = s])
  BY DEF UpdateStatus
<1> HIDE DEF s
<1> QED BY <1>1, <1>2, <1>3 DEF StatusWritten

LEMMA NoStatusFields ==
  NoStatus.image = NoImage /\ NoStatus.ready = "" /\ NoStatus.observed = 0
  BY DEF NoStatus

\* Statuses that keep the image.
LEMMA StatusKept ==
  ASSUME NEW k \in Objects, NEW ready \in {"False", "Unknown"}
  PROVE  LET st == [k.st EXCEPT !.ready = ready] IN st \in Statuses /\ Retained(k, st)
  BY ObjectFields DEF Statuses, Retained

\* Deleting Jobs creates none, and orphans at most their pods.
LEMMA JobsDeleted ==
  ASSUME TypeOK, NEW gs, DeleteJobs(gs)
  PROVE  /\ jobs' \in [Gens -> Jobs \cup {NoJob}]
         /\ \A g \in Gens : jobs'[g] # NoJob => jobs'[g] = jobs[g]
         /\ pods' \subseteq Pods /\ \A p \in pods' : \E q \in pods : Alike(p, q)
<1>1. /\ jobs' \in [Gens -> Jobs \cup {NoJob}]
      /\ \A g \in Gens : jobs'[g] # NoJob => jobs'[g] = jobs[g]
  BY DEF TypeOK, DeleteJobs
<1>2. ASSUME NEW q \in pods
      PROVE  LET o == [q EXCEPT !.orphan = TRUE] IN o \in Pods /\ Alike(o, q)
  BY DEF TypeOK, Pods, Alike
<1>3. \A q \in pods : q \in Pods /\ Alike(q, q)
  BY DEF TypeOK, Alike
<1> QED BY <1>1, <1>2, <1>3 DEF DeleteJobs

\* Every return of a reconcile of the package references leaves a Pass.
LEMMA PassStep ==
  ASSUME TypeOK, PackagesReconcile
  PROVE  Pass(seen.kipr)
<1> DEFINE k == seen.kipr
<1>1. k \in Objects /\ k # NoObj
  BY DEF PackagesReconcile, TypeOK
<1>2. UNCHANGED <<refs, seen, host, served, uid>>
  BY DEF PackagesReconcile, RenderFails, AlreadyBuilt, GetOrCreatePackRefJob, JobPending, PodMissing,
         OutputMissing, HarvestAny, Harvest, Reconciled
<1>3. \A p \in pods : Alike(p, p)
  BY DEF Alike
<1>4. ASSUME Rendered(k)
      PROVE  config' = [owner |-> k.uid, pin |-> k.pin] /\ secret' = [owner |-> k.uid] /\ config'.pin = k.pin
  BY <1>4 DEF Rendered, createOrUpdateJobConfigMap, createOrUpdateJobSecret
<1>5. ASSUME UNCHANGED <<jobs, pods>>
      PROVE  /\ jobs' \in [Gens -> Jobs \cup {NoJob}]
             /\ \A g \in Gens : jobs'[g] # NoJob => jobs'[g] = jobs[g]
             /\ pods' \subseteq Pods /\ \A p \in pods' : \E q \in pods : Alike(p, q)
  BY <1>3, <1>5 DEF TypeOK
<1>6. ASSUME UpdateStatus(k, Degraded(k)) PROVE StatusWritten(k)
  BY <1>1, <1>6, StatusKept, StatusUpdated DEF Degraded
<1>7. CASE RenderFails
  <2>1. config' \in {config, [owner |-> k.uid, pin |-> k.pin]} /\ secret' = secret
    BY <1>7 DEF RenderFails, createOrUpdateJobConfigMap
  <2>2. UNCHANGED <<jobs, pods>> /\ left' = left /\ UpdateStatus(k, Degraded(k))
    BY <1>7 DEF RenderFails
  <2> QED BY <1>1, <1>2, <1>5, <1>6, <2>1, <2>2 DEF Pass
<1>8. CASE AlreadyBuilt
  <2> DEFINE st == [k.st EXCEPT !.ready = "True"]
  <2>1. Rendered(k) /\ DeleteJobs(superseded(k)) /\ left' = left /\ UpdateStatus(k, st)
        /\ k.st.image # NoImage /\ k.st.image.tag = k.gen
    BY <1>8 DEF AlreadyBuilt, cleanupJobs, imageBuiltForCurrentGeneration
  <2>2. st \in Statuses /\ Retained(k, st)
    BY <1>1, <2>1, ObjectFields DEF Statuses, Retained
  <2>3. StatusWritten(k)
    BY <1>1, <2>1, <2>2, StatusUpdated
  <2> QED BY <1>1, <1>2, <1>4, <2>1, <2>3, JobsDeleted DEF Pass
<1>9. CASE GetOrCreatePackRefJob
  <2> DEFINE job == [owner |-> k.uid, state |-> "waiting", pin |-> k.pin, fails |-> 0]
  <2>1. Rendered(k) /\ left' = left /\ UpdateStatus(k, Degraded(k))
    BY <1>9 DEF GetOrCreatePackRefJob
  <2>2. CASE UNCHANGED <<jobs, pods>>
    BY <1>1, <1>2, <1>4, <1>5, <1>6, <2>1, <2>2 DEF Pass
  <2>3. CASE /\ jobs' = [g \in Gens |-> IF g = k.gen THEN job
                                         ELSE IF g \in superseded(k) THEN NoJob ELSE jobs[g]]
             /\ pods' = {IF p.gen \in superseded(k) THEN [p EXCEPT !.orphan = TRUE] ELSE p : p \in pods}
    <3>1. job \in Jobs /\ job.pin = k.pin
      BY <1>1, ObjectFields DEF Jobs
    <3> HIDE DEF job
    <3>2. jobs' \in [Gens -> Jobs \cup {NoJob}]
      BY <2>3, <3>1 DEF TypeOK
    <3>3. \A g \in Gens : jobs'[g] # NoJob => jobs'[g] = jobs[g] \/ (g = k.gen /\ jobs'[g].pin = k.pin)
      BY <2>3, <3>1
    <3>4. ASSUME NEW q \in pods
          PROVE  LET o == [q EXCEPT !.orphan = TRUE] IN o \in Pods /\ Alike(o, q)
      BY DEF TypeOK, Pods, Alike
    <3>5. pods \subseteq Pods
      BY DEF TypeOK
    <3>6. ASSUME NEW p \in pods' PROVE p \in Pods /\ \E q \in pods : Alike(p, q)
      BY <1>3, <2>3, <3>4, <3>5
    <3> QED BY <1>1, <1>2, <1>4, <1>6, <2>1, <3>2, <3>3, <3>6 DEF Pass
  <2> QED BY <1>9, <2>2, <2>3 DEF GetOrCreatePackRefJob
<1>10. CASE JobPending
  <2>1. Rendered(k) /\ left' = left /\ UpdateStatus(k, Degraded(k))
    BY <1>10 DEF JobPending
  <2>2. UNCHANGED <<jobs, pods>> \/ DeleteJobs(superseded(k))
    BY <1>10 DEF JobPending, cleanupJobs
  <2> QED BY <1>1, <1>2, <1>4, <1>5, <1>6, <2>1, <2>2, JobsDeleted DEF Pass
<1>11. CASE PodMissing
  <2>1. Rendered(k) /\ left' = left /\ UpdateStatus(k, Degraded(k)) /\ DeleteJobs({k.gen})
    BY <1>11 DEF PodMissing
  <2> QED BY <1>1, <1>2, <1>4, <1>6, <2>1, JobsDeleted DEF Pass
<1>12. ASSUME NEW p \in podsForJob(k), OutputMissing(p) PROVE Pass(k)
  <2>1. Rendered(k) /\ left' = left /\ UpdateStatus(k, [k.st EXCEPT !.ready = "Unknown"])
        /\ UNCHANGED <<jobs, pods>>
    BY <1>12 DEF OutputMissing
  <2>2. StatusWritten(k)
    BY <1>1, <2>1, StatusKept, StatusUpdated
  <2> QED BY <1>1, <1>2, <1>4, <1>5, <2>1, <2>2 DEF Pass
<1>13. ASSUME NEW p \in podsForJob(k), Harvest(p) PROVE Pass(k)
  <2> DEFINE image == [tag |-> k.gen, pin |-> p.pin, holds |-> p.holds]
  <2>1. Rendered(k)
    BY <1>13 DEF Harvest
  <2>2. PICK verdict \in Verdicts(k, image) :
             /\ \/ verdict = "mismatch" /\ DeleteJobs({k.gen}) /\ UpdateStatus(k, Degraded(k))
                \/ /\ verdict # "mismatch" /\ DeleteJobs(superseded(k))
                   /\ UpdateStatus(k, [k.st EXCEPT !.image = image, !.verified = verdict, !.ready = "True"])
             /\ left' = [left EXCEPT !.blips = IF verdict = "unknown" THEN @ - 1 ELSE @]
    BY <1>13 DEF Harvest, cleanupJobs
  <2>3. /\ verdict \in {"pins", "mismatch", "unknown"} /\ (verdict = "unknown" => left.blips > 0)
        /\ verdict = "pins" => alreadyVerified(k, image) \/ VerifyPinnedVersions(k.pin, image)
    BY DEF Verdicts
  <2>4. left' = left \/ (left.blips > 0 /\ left' = [left EXCEPT !.blips = @ - 1])
    BY <2>2, <2>3 DEF TypeOK, SettingType
  <2>5. p \in seen.pods /\ p \in Pods /\ p.gen = k.gen
    BY DEF podsForJob, TypeOK
  <2>6. image \in Images
    BY <1>1, <2>5, ObjectFields, PodFields DEF Images
  <2>7. CASE verdict = "mismatch"
    BY <1>1, <1>2, <1>4, <1>6, <2>1, <2>2, <2>4, <2>7, JobsDeleted DEF Pass
  <2>8. CASE verdict # "mismatch"
    <3> DEFINE st == [k.st EXCEPT !.image = image, !.verified = verdict, !.ready = "True"]
    <3>1. st \in Statuses /\ st.image = image
      BY <1>1, <2>3, <2>6, <2>8, ObjectFields DEF Statuses
    <3>2. UpdateStatus(k, st) /\ DeleteJobs(superseded(k))
      BY <2>2, <2>8
    <3>3. Harvested(k, st, p)
      BY <2>3, <2>5, <2>8, <3>1 DEF Harvested, alreadyVerified
    <3> HIDE DEF st
    <3>4. StatusWritten(k)
      BY <1>1, <2>5, <3>1, <3>2, <3>3, StatusUpdated
    <3> QED BY <1>1, <1>2, <1>4, <2>1, <2>4, <3>2, <3>4, JobsDeleted DEF Pass
  <2> QED BY <2>7, <2>8
<1> QED BY <1>7, <1>8, <1>9, <1>10, <1>11, <1>12, <1>13 DEF PackagesReconcile, HarvestAny

-----------------------------------------------------------------------------
(* One reconcile of the host                                               *)

NewObject == [uid |-> uid + 1, gen |-> 1, pin |-> refs, st |-> NoStatus]

\* The object is left alone, created, or given another generation.
ObjectKept == UNCHANGED <<kipr, uid>> /\ seen.kipr \in Objects /\ Written = seen.kipr
ObjectCreated == kipr = NoObj /\ seen.kipr = NoObj /\ Written = NewObject /\ kipr' = NewObject /\ uid' = uid + 1
ObjectEdited ==
  /\ kipr \in Objects /\ seen.kipr = kipr /\ kipr.pin # refs /\ uid' = uid
  /\ kipr' = Written /\ Written = [kipr EXCEPT !.gen = @ + 1, !.pin = refs]

TypeInv == TypeOK /\ EditsBound

LEMMA ObjectRecord ==
  ASSUME NEW u \in Nat, NEW g \in Gens, NEW p \in Pins, NEW s \in Statuses
  PROVE  LET o == [uid |-> u, gen |-> g, pin |-> p, st |-> s]
         IN  o \in Objects /\ o.uid = u /\ o.gen = g /\ o.pin = p /\ o.st = s
  BY DEF Objects

\* The object a host reconcile creates.
LEMMA NewObjectFields ==
  ASSUME TypeInv, refs \in Pins
  PROVE  /\ NewObject \in Objects /\ NewObject # NoObj /\ NewObject.uid = uid + 1 /\ NewObject.gen = 1
         /\ NewObject.pin = refs /\ NewObject.st = NoStatus
         /\ NoStatus.image = NoImage /\ NoStatus.ready = "" /\ NoStatus.observed = 0
<1>0. left.edits \in Nat /\ left.edits < MaxGens /\ uid \in Nat
  BY DEF TypeInv, TypeOK, EditsBound, SettingType
<1>1. 1 \in Gens
  BY <1>0, PackageConstants DEF Gens
<1>2. NoStatus \in Statuses /\ NoStatus.image = NoImage /\ NoStatus.ready = "" /\ NoStatus.observed = 0
  BY DEF NoStatus, Statuses
<1>3. PICK u \in Nat : u = uid + 1
  BY <1>0
<1>4. NewObject = [uid |-> u, gen |-> 1, pin |-> refs, st |-> NoStatus]
  BY <1>3 DEF NewObject
<1>5. /\ NewObject \in Objects /\ NewObject.uid = u /\ NewObject.gen = 1
      /\ NewObject.pin = refs /\ NewObject.st = NoStatus
  BY <1>1, <1>2, <1>4, ObjectRecord
<1> QED BY <1>2, <1>3, <1>5, PackageConstants

\* The object a host reconcile moves on: a new generation for a new pin.
LEMMA EditedObjectFields ==
  ASSUME TypeInv, kipr \in Objects, kipr.pin # refs, refs \in Pins
  PROVE  LET o == [kipr EXCEPT !.gen = @ + 1, !.pin = refs]
         IN  /\ o \in Objects /\ o.uid = kipr.uid /\ o.gen = kipr.gen + 1 /\ o.pin = refs /\ o.st = kipr.st
<1>1. kipr.gen \in Gens /\ kipr.gen \in Nat /\ kipr # NoObj
  BY ObjectFields, PackageConstants
<1>2. kipr.gen + left.edits + 1 <= MaxGens /\ left.edits \in Nat
  BY <1>1 DEF TypeInv, TypeOK, EditsBound, SettingType
<1>3. kipr.gen + 1 \in Gens
  BY <1>1, <1>2, PackageConstants DEF Gens
<1> QED BY <1>3 DEF Objects

\* A host reconcile leaves the object, creates it or moves it on.
LEMMA HostWrites ==
  ASSUME TypeInv, HostPackages
  PROVE  refs \in Pins /\ UNCHANGED refs /\ HostStep /\ (ObjectKept \/ ObjectCreated \/ ObjectEdited)
<1>1. refs \in Pins /\ UNCHANGED refs /\ HostStep
  BY DEF HostPackages, TypeInv, TypeOK, SettingType
<1>2. seen.kipr \in Objects \cup {NoObj}
  BY DEF TypeInv, TypeOK
<1>3. CASE seen.kipr = NoObj
  <2>1. Written = NewObject
    BY <1>3 DEF Written, NewObject
  <2>2. Written # seen.kipr /\ NewObject.uid = uid + 1
    BY <1>1, <1>3, <2>1, NewObjectFields
  <2> QED BY <1>1, <1>3, <2>1, <2>2 DEF HostPackages, createOrUpdatePackageReferences, ObjectCreated
<1>4. CASE seen.kipr \in Objects /\ seen.kipr.pin = refs
  <2>1. Written = seen.kipr
    BY <1>4, PackageConstants DEF Written
  <2> QED BY <1>1, <1>4, <2>1 DEF HostPackages, createOrUpdatePackageReferences, ObjectKept
<1>5. CASE seen.kipr \in Objects /\ seen.kipr.pin # refs
  <2>1. Written = [seen.kipr EXCEPT !.gen = @ + 1, !.pin = refs]
    BY <1>5, PackageConstants DEF Written
  <2>2. Written.pin = refs /\ Written.uid = seen.kipr.uid
    BY <1>5, <2>1 DEF Objects
  <2>3. kipr = seen.kipr /\ kipr' = Written /\ uid' = Written.uid
    BY <1>5, <2>2 DEF HostPackages, createOrUpdatePackageReferences
  <2>4. kipr.uid = uid
    BY <1>5, <2>3, PackageConstants DEF TypeInv, TypeOK
  <2> QED BY <1>1, <1>5, <2>1, <2>2, <2>3, <2>4 DEF ObjectEdited
<1> QED BY <1>2, <1>3, <1>4, <1>5

LEMMA WrittenObject ==
  ASSUME TypeInv, HostPackages
  PROVE  Written \in Objects /\ Written.st.image \in Images \cup {NoImage}
<1>1. Written \in Objects
  BY HostWrites, NewObjectFields, EditedObjectFields DEF ObjectKept, ObjectCreated, ObjectEdited
<1> QED BY <1>1, ObjectFields

\* What may still happen only shrinks.
Spent ==
  /\ left' \in SettingType /\ left'.asks = left.asks /\ left'.edits = left.edits
  /\ left.blips = 0 => left'.blips = 0
  /\ left.stale = 0 => left'.stale = 0

\* The status write of a host reconcile is lost, or records the image.
Recording(image) ==
  \/ host' = host
  \/ host = seen.host /\ host' \in HostStatuses /\ host'.image = image

\* What it serves, and what its status says of the packages.
HostServes ==
  LET image == Written.st.image IN
  \/ served' = seen.host.image /\ Recording(seen.host.image) /\ Written.st.ready = "False"
  \/ served' = image /\ Recording(image) /\ image # NoImage
  \/ served' = served /\ Recording(image)

\* The deferred status write, kept or lost.
LEMMA HostStatusUpdated ==
  ASSUME NEW st \in HostStatuses, NEW l \in SettingType, UpdateHostStatus(st, l)
  PROVE  /\ Recording(st.image)
         /\ left' \in SettingType /\ left'.asks = l.asks /\ left'.edits = l.edits
         /\ left'.blips = l.blips /\ left'.stale = l.stale
<1>1. Recording(st.image)
  BY DEF UpdateHostStatus, Recording
<1>2. left' = l \/ (l.discards > 0 /\ left' = [l EXCEPT !.discards = @ - 1])
  BY DEF UpdateHostStatus
<1> QED BY <1>1, <1>2 DEF SettingType

\* A host reconcile that serves an image.
LEMMA ServeStep ==
  ASSUME TypeOK, NEW image \in Images \cup {NoImage, Prebuilt}, NEW ready \in {"True", "False"},
         Serve(image, ready)
  PROVE  served' = image /\ Recording(image) /\ Spent
<1> DEFINE st == [image |-> image, ready |-> ready]
<1>1. st \in HostStatuses /\ st.image = image
  BY DEF HostStatuses
<1>2. served' = image /\ UpdateHostStatus(st, left) /\ left \in SettingType
  BY DEF Serve, TypeOK
<1> HIDE DEF st
<1> QED BY <1>1, <1>2, HostStatusUpdated DEF Spent

\* What a host reconcile publishes is what it saw of the object.
LEMMA HostServesStep ==
  ASSUME TypeInv, HostPackages
  PROVE  /\ HostServes /\ Spent
         /\ Written.st.ready = "" /\ Written.st.image = NoImage => served' = served /\ Recording(NoImage)
<1> DEFINE st == Written.st
           shown == [seen.host EXCEPT !.image = st.image]
           l == [left EXCEPT !.blips = IF st.image = NoImage THEN @ ELSE @ - 1]
<1>0. /\ TypeOK /\ seen.host \in HostStatuses /\ seen.host.image \in Images \cup {NoImage, Prebuilt}
      /\ left \in SettingType /\ st.image \in Images \cup {NoImage}
  BY WrittenObject DEF TypeInv, TypeOK, HostStatuses
<1>1. CASE st.ready = "False" /\ packagesPendingOutcome
  BY <1>0, <1>1, ServeStep DEF HostServes, packagesPendingOutcome
<1>2. CASE st.ready # "False" /\ st.image # NoImage /\ Serve(st.image, "True")
  BY <1>0, <1>2, ServeStep DEF HostServes
<1>3. CASE /\ st.ready # "False" /\ (st.image = NoImage \/ left.blips > 0)
           /\ served' = served /\ UpdateHostStatus(shown, l)
  <2>1. shown \in HostStatuses /\ shown.image = st.image
    BY <1>0 DEF HostStatuses
  <2>2. /\ l \in SettingType /\ l.asks = left.asks /\ l.edits = left.edits /\ l.stale = left.stale
        /\ left.blips = 0 => l.blips = 0
    BY <1>0, <1>3 DEF SettingType
  <2> HIDE DEF shown, l
  <2>3. Recording(st.image) /\ Spent
    BY <1>3, <2>1, <2>2, HostStatusUpdated DEF Spent
  <2> QED BY <1>3, <2>3 DEF HostServes
<1> QED BY <1>1, <1>2, <1>3 DEF HostPackages

-----------------------------------------------------------------------------
(* Types                                                                   *)

LEMMA BlipFields ==
  ASSUME left \in SettingType, left.blips > 0, left' = [left EXCEPT !.blips = @ - 1]
  PROVE  /\ left' \in SettingType /\ left'.asks = left.asks /\ left'.edits = left.edits
         /\ left'.stale = left.stale /\ left.blips # 0
  BY DEF SettingType

LEMMA PassTypes ==
  ASSUME TypeInv, NEW k, Pass(k)
  PROVE  TypeInv'
<1>1. left' \in SettingType /\ left'.asks = left.asks /\ left'.edits = left.edits /\ left \in SettingType
  BY BlipFields DEF Pass, TypeInv, TypeOK
<1>2. k \in Objects
  BY DEF Pass
<1>3. /\ kipr' \in Objects \cup {NoObj} /\ (kipr' # NoObj => kipr'.uid = uid)
      /\ kipr' # NoObj => kipr # NoObj /\ kipr'.gen = kipr.gen /\ kipr'.pin = kipr.pin
  <2>1. CASE kipr' = kipr
    BY <2>1 DEF TypeInv, TypeOK
  <2>2. CASE kipr' # kipr
    <3>1. PICK s \in Statuses : kipr = k /\ kipr' = [k EXCEPT !.st = s]
      BY <2>2 DEF Pass, StatusWritten
    <3> QED BY <1>2, <3>1, WithStatus, PackageConstants DEF TypeInv, TypeOK
  <2> QED BY <2>1, <2>2
<1>4. config' \in [owner : Nat, pin : Pins] \cup {NoObj} /\ secret' \in [owner : Nat] \cup {NoObj}
  <2>1. [owner |-> k.uid, pin |-> k.pin] \in [owner : Nat, pin : Pins] /\ [owner |-> k.uid] \in [owner : Nat]
    BY <1>2, ObjectFields
  <2> QED BY <2>1 DEF Pass, TypeInv, TypeOK
<1>5. TypeOK'
  BY <1>1, <1>3, <1>4 DEF Pass, TypeInv, TypeOK
<1>6. EditsBound'
  BY <1>1, <1>3 DEF Pass, TypeInv, EditsBound
<1> QED BY <1>5, <1>6 DEF TypeInv

LEMMA HostPackagesTypes ==
  ASSUME TypeInv, HostPackages
  PROVE  TypeInv'
<1>1. left' \in SettingType /\ left'.asks = left.asks /\ left'.edits = left.edits /\ left \in SettingType /\ left.edits \in Nat
  BY HostServesStep DEF Spent, TypeInv, TypeOK, SettingType
<1>2. refs \in Pins /\ UNCHANGED refs /\ HostStep /\ (ObjectKept \/ ObjectCreated \/ ObjectEdited)
  BY HostWrites
<1>3. /\ kipr' \in Objects \cup {NoObj} /\ (kipr' # NoObj => kipr'.uid = uid') /\ uid' \in Nat
      /\ kipr' # NoObj => kipr'.gen + left.edits + (IF kipr'.pin = refs THEN 0 ELSE 1) <= MaxGens
      /\ Written \in Objects
  <2>1. CASE ObjectKept
    BY <2>1 DEF ObjectKept, TypeInv, TypeOK, EditsBound
  <2>2. CASE ObjectCreated
    <3>0. left.edits < MaxGens /\ uid \in Nat
      BY DEF TypeInv, TypeOK, EditsBound
    <3>1. 1 + left.edits <= MaxGens /\ uid \in Nat
      BY <1>1, <3>0, PackageConstants
    <3>2. kipr' = NewObject /\ Written = NewObject /\ uid' = uid + 1
      BY <2>2 DEF ObjectCreated
    <3>3. NewObject \in Objects /\ NewObject.uid = uid + 1 /\ NewObject.gen = 1 /\ NewObject.pin = refs
      BY <1>2, NewObjectFields
    <3>4. uid + 1 \in Nat
      BY <3>1
    <3> HIDE DEF NewObject
    <3> QED BY <1>1, <3>1, <3>2, <3>3, <3>4
  <2>3. CASE ObjectEdited
    <3>1. kipr # NoObj /\ kipr.uid = uid /\ kipr.gen \in Nat /\ uid \in Nat
      BY <2>3, ObjectFields, PackageConstants DEF ObjectEdited, TypeInv, TypeOK
    <3>2. kipr.gen + left.edits + 1 <= MaxGens
      BY <2>3, <3>1 DEF ObjectEdited, TypeInv, EditsBound
    <3> QED BY <1>1, <1>2, <2>3, <3>1, <3>2, EditedObjectFields, PackageConstants DEF ObjectEdited
  <2> QED BY <1>2, <2>1, <2>2, <2>3
<1>4. Written.st.image \in Images \cup {NoImage}
  BY <1>3, ObjectFields
<1>5. host' \in HostStatuses /\ served' \in Images \cup {NoImage, Prebuilt}
  <2>1. /\ host \in HostStatuses /\ seen.host \in HostStatuses
        /\ served \in Images \cup {NoImage, Prebuilt} /\ HostServes
    BY HostServesStep DEF TypeInv, TypeOK
  <2>2. seen.host.image \in Images \cup {NoImage, Prebuilt}
    BY <2>1 DEF HostStatuses
  <2> QED BY <1>4, <2>1, <2>2 DEF HostServes, Recording
<1>6. TypeOK'
  BY <1>1, <1>2, <1>3, <1>5 DEF HostStep, TypeInv, TypeOK
<1>7. EditsBound'
  BY <1>1, <1>2, <1>3 DEF TypeInv, EditsBound
<1> QED BY <1>6, <1>7 DEF TypeInv

\* Steps of informers, pods and the garbage collector.
ClusterStep ==
  \/ Cluster \/ InformLags
  \/ \E g \in Gens : PodFails(g)
  \/ \E p \in pods : PodLost(p)

\* Every reconcile and every step of the cluster spends of the setting only.
LEMMA SpentStep ==
  ASSUME TypeInv, PackagesReconcile \/ HostReconcile \/ ClusterStep
  PROVE  Spent
<1>1. left \in SettingType /\ TypeOK
  BY DEF TypeInv, TypeOK
<1>2. CASE left' = left
  BY <1>1, <1>2 DEF Spent
<1>3. CASE left.blips > 0 /\ left' = [left EXCEPT !.blips = @ - 1]
  BY <1>1, <1>3 DEF Spent, SettingType
<1>4. CASE PackagesReconcile
  BY <1>1, <1>2, <1>3, <1>4, PassStep DEF Pass
<1>5. CASE HostReconcile
  BY <1>1, <1>5, HostServesStep, ServeStep DEF HostReconcile, HostPinned, HostWithout
<1>6. CASE InformLags
  BY <1>1, <1>6 DEF InformLags, Spent, SettingType
<1>7. ASSUME NEW g \in Gens, PodFails(g) PROVE Spent
  BY <1>1, <1>7 DEF PodFails, Spent, SettingType
<1>8. ASSUME NEW p \in pods, PodLost(p) PROVE Spent
  BY <1>1, <1>8 DEF PodLost, Spent, SettingType
<1>9. ASSUME NEW g \in Gens, PodSucceeds(g) PROVE Spent
  <2>1. PICK v \in IF left.stale > 0 THEN Versions ELSE {jobs[g].pin.want} :
          left' = [left EXCEPT !.stale = IF v = jobs[g].pin.want THEN @ ELSE @ - 1]
    BY <1>9 DEF PodSucceeds
  <2>2. left.stale \in Nat
    BY <1>1 DEF SettingType
  <2>3. CASE v = jobs[g].pin.want
    BY <1>1, <1>2, <2>1, <2>3 DEF SettingType
  <2>4. CASE v # jobs[g].pin.want
    <3>1. left.stale > 0 /\ left' = [left EXCEPT !.stale = @ - 1]
      BY <2>1, <2>2, <2>4
    <3> QED BY <1>1, <3>1 DEF Spent, SettingType
  <2> QED BY <2>3, <2>4
<1>10. CASE InformObject \/ InformHost \/ InformJobs \/ Collect \/ \E g \in Gens : PodStarts(g)
  BY <1>2, <1>10 DEF InformObject, InformHost, InformJobs, Collect, PodStarts
<1> QED BY <1>4, <1>5, <1>6, <1>7, <1>8, <1>9, <1>10 DEF ClusterStep, Cluster

LEMMA JobFields ==
  ASSUME NEW j \in Jobs
  PROVE  j.pin \in Pins /\ j.fails \in Nat /\ j.pin.want \in Versions
  BY DEF Jobs, Pins

LEMMA FinishedFields ==
  ASSUME NEW g \in Gens, NEW ok \in BOOLEAN, NEW v \in Versions, jobs[g] \in Jobs
  PROVE  /\ Finished(g, ok, v) \in Pods /\ Finished(g, ok, v).gen = g
         /\ Finished(g, ok, v).pin = jobs[g].pin /\ Finished(g, ok, v).holds = v
  BY JobFields DEF Finished, Pods

\* Jobs and pods after a step of the cluster.
LEMMA ClusterTypes ==
  ASSUME TypeInv, ClusterStep
  PROVE  /\ TypeInv' /\ UNCHANGED <<refs, kipr, host, served, uid>>
<1>0. TypeOK /\ EditsBound /\ Spent
  BY SpentStep DEF TypeInv
<1>1. UNCHANGED <<refs, kipr, host, served, uid>>
  BY DEF ClusterStep, Cluster, InformObject, InformHost, InformJobs, InformLags, Collect, PodStarts, PodSucceeds, PodFails, PodLost
<1>2. seen' \in [kipr : Objects \cup {NoObj}, jobs : [Gens -> Jobs \cup {NoJob}], pods : SUBSET Pods,
               host : HostStatuses]
  <2>1. /\ seen \in [kipr : Objects \cup {NoObj}, jobs : [Gens -> Jobs \cup {NoJob}], pods : SUBSET Pods,
                   host : HostStatuses]
        /\ host \in HostStatuses /\ kipr \in Objects \cup {NoObj} /\ jobs \in [Gens -> Jobs \cup {NoJob}] /\ pods \in SUBSET Pods
    BY <1>0 DEF TypeOK
  <2>2. seen' \in {seen, [seen EXCEPT !.kipr = kipr], [seen EXCEPT !.jobs = jobs], [seen EXCEPT !.pods = pods],
                   [seen EXCEPT !.jobs = jobs, !.pods = pods], [seen EXCEPT !.host = host]}
    BY DEF ClusterStep, Cluster, InformObject, InformHost, InformJobs, InformLags, Collect, PodStarts, PodSucceeds, PodFails, PodLost
  <2> QED BY <2>1, <2>2
<1>3. config' \in {config, NoObj} /\ secret' \in {secret, NoObj}
  BY DEF ClusterStep, Cluster, InformObject, InformHost, InformJobs, InformLags, Collect, PodStarts, PodSucceeds, PodFails, PodLost
<1>4. jobs' \in [Gens -> Jobs \cup {NoJob}] /\ pods' \subseteq Pods
  <2>1. CASE UNCHANGED <<jobs, pods>>
    BY <1>0, <2>1 DEF TypeOK
  <2>2. CASE Collect
    <3>1. UNCHANGED <<jobs, pods>> \/ (\E g \in Gens : DeleteJobs({g})) \/ (jobs' = jobs /\ pods' \subseteq pods)
      BY <2>2 DEF Collect
    <3> QED BY <1>0, <2>1, <3>1, JobsDeleted DEF TypeOK
  <2>3. ASSUME NEW g \in Gens, PodStarts(g) PROVE jobs' \in [Gens -> Jobs \cup {NoJob}] /\ pods' \subseteq Pods
    <3>1. jobs[g] \in Jobs /\ config.pin \in Pins
      BY <1>0, <2>3 DEF PodStarts, TypeOK
    <3>2. [jobs[g] EXCEPT !.state = "running", !.pin = config.pin] \in Jobs
      BY <3>1 DEF Jobs
    <3>3. jobs' = [jobs EXCEPT ![g] = [jobs[g] EXCEPT !.state = "running", !.pin = config.pin]]
      BY <1>0, <2>3, <3>1 DEF PodStarts, TypeOK
    <3> DEFINE j == [jobs[g] EXCEPT !.state = "running", !.pin = config.pin]
    <3>4. jobs \in [Gens -> Jobs \cup {NoJob}] /\ pods \subseteq Pods /\ pods' = pods
      BY <1>0, <2>3 DEF PodStarts, TypeOK
    <3> HIDE DEF j
    <3> QED BY <3>2, <3>3, <3>4 DEF j
  <2>4. ASSUME NEW g \in Gens, PodSucceeds(g) PROVE jobs' \in [Gens -> Jobs \cup {NoJob}] /\ pods' \subseteq Pods
    <3>1. jobs[g] \in Jobs
      BY <1>0, <2>4 DEF PodSucceeds, TypeOK
    <3>2. [jobs[g] EXCEPT !.state = "succeeded"] \in Jobs
      BY <3>1 DEF Jobs
    <3>3. PICK v \in Versions : pods' = pods \cup {Finished(g, TRUE, v)}
      BY <2>4, <3>1, JobFields DEF PodSucceeds
    <3>4. jobs' = [jobs EXCEPT ![g] = [jobs[g] EXCEPT !.state = "succeeded"]]
      BY <2>4 DEF PodSucceeds
    <3>5. jobs \in [Gens -> Jobs \cup {NoJob}] /\ pods \subseteq Pods /\ Finished(g, TRUE, v) \in Pods
      BY <1>0, <3>1, FinishedFields DEF TypeOK
    <3> QED BY <3>2, <3>3, <3>4, <3>5
  <2>5. ASSUME NEW g \in Gens, PodFails(g) PROVE jobs' \in [Gens -> Jobs \cup {NoJob}] /\ pods' \subseteq Pods
    <3>1. jobs[g] \in Jobs
      BY <1>0, <2>5 DEF PodFails, TypeOK
    <3> DEFINE st == IF jobs[g].fails = Backoff THEN "failed" ELSE "waiting"
               j == [jobs[g] EXCEPT !.state = st, !.fails = @ + 1]
    <3>2. j \in Jobs
      <4>1. st \in {"waiting", "running", "succeeded", "failed"}
        OBVIOUS
      <4>2. PICK n \in Nat : n = jobs[g].fails + 1
        BY <3>1, JobFields
      <4>3. j = [jobs[g] EXCEPT !.state = st, !.fails = n]
        BY <4>2
      <4> HIDE DEF st
      <4> QED BY <3>1, <4>1, <4>3 DEF Jobs
    <3>3. pods' = pods \cup {Finished(g, FALSE, jobs[g].pin.want)} /\ jobs' = [jobs EXCEPT ![g] = j]
      BY <2>5 DEF PodFails
    <3> HIDE DEF j
    <3>4. jobs \in [Gens -> Jobs \cup {NoJob}] /\ pods \subseteq Pods /\ Finished(g, FALSE, jobs[g].pin.want) \in Pods
      BY <1>0, <3>1, JobFields, FinishedFields DEF TypeOK
    <3> QED BY <3>2, <3>3, <3>4
  <2>6. CASE InformObject \/ InformHost \/ InformJobs \/ InformLags
    BY <2>1, <2>6 DEF InformObject, InformHost, InformJobs, InformLags
  <2>7. ASSUME NEW p \in pods, PodLost(p) PROVE jobs' \in [Gens -> Jobs \cup {NoJob}] /\ pods' \subseteq Pods
    BY <1>0, <2>7 DEF PodLost, TypeOK
  <2> QED BY <2>2, <2>3, <2>4, <2>5, <2>6, <2>7 DEF ClusterStep, Cluster
<1>5. TypeOK'
  BY <1>0, <1>1, <1>2, <1>3, <1>4 DEF TypeOK, Spent
<1>6. EditsBound'
  BY <1>0, <1>1 DEF EditsBound, Spent
<1> QED BY <1>1, <1>5, <1>6 DEF TypeInv

LEMMA EditFields ==
  ASSUME left \in SettingType, left.edits > 0, left' = [left EXCEPT !.edits = @ - 1]
  PROVE  /\ left' \in SettingType /\ left'.asks = left.asks /\ left'.edits = left.edits - 1
         /\ left'.blips = left.blips /\ left'.stale = left.stale
  BY DEF SettingType

\* Every step keeps the types, and the generations within their bound.
LEMMA TypeStep ==
  ASSUME TypeInv, [Next]_vars
  PROVE  TypeInv'
<1>0. TypeOK /\ EditsBound
  BY DEF TypeInv
<1>1. CASE PackagesReconcile
  BY <1>0, <1>1, PassStep, PassTypes
<1>2. CASE HostPinned
  <2>1. /\ UNCHANGED <<refs, kipr, seen, config, secret, jobs, pods, uid>>
        /\ served' = Prebuilt /\ Recording(Prebuilt) /\ Spent
    BY <1>0, <1>2, ServeStep DEF HostPinned, HostStep
  <2>2. host' \in HostStatuses /\ served' \in Images \cup {NoImage, Prebuilt}
    BY <1>0, <2>1 DEF Recording, TypeOK
  <2> QED BY <1>0, <2>1, <2>2 DEF Spent, TypeInv, TypeOK, EditsBound
<1>3. CASE HostWithout
  <2>1. /\ UNCHANGED <<refs, seen, config, secret, jobs, pods, uid>> /\ kipr' = NoObj
        /\ served' = NoImage /\ Recording(NoImage) /\ Spent
    BY <1>0, <1>3, ServeStep DEF HostWithout, HostStep
  <2>2. host' \in HostStatuses /\ served' \in Images \cup {NoImage, Prebuilt}
    BY <1>0, <2>1 DEF Recording, TypeOK
  <2> QED BY <1>0, <2>1, <2>2 DEF Spent, TypeInv, TypeOK, EditsBound
<1>4. CASE HostPackages
  BY <1>4, HostPackagesTypes
<1>5. CASE ClusterStep
  BY <1>5, ClusterTypes
<1>6. ASSUME NEW r \in left.asks, Edit(r) PROVE TypeInv'
  <2>1. /\ left' \in SettingType /\ left'.asks = left.asks /\ left'.edits = left.edits - 1 /\ left.edits \in Nat
    BY <1>0, <1>6, EditFields DEF Edit, TypeOK, SettingType
  <2>2. UNCHANGED <<kipr, seen, config, secret, jobs, pods, host, served, uid>> /\ refs' = r
    BY <1>6 DEF Edit
  <2>3. TypeOK'
    BY <1>0, <2>1, <2>2 DEF TypeOK
  <2>4. EditsBound'
    <3>1. left'.edits < MaxGens
      BY <1>0, <2>1, PackageConstants DEF EditsBound
    <3>2. ASSUME kipr # NoObj PROVE kipr.gen + left'.edits + (IF kipr.pin = r THEN 0 ELSE 1) <= MaxGens
      <4>1. kipr.gen \in Nat
        BY <1>0, <3>2, ObjectFields DEF TypeOK
      <4>2. kipr.gen + left.edits <= MaxGens
        BY <1>0, <2>1, <3>2, <4>1, PackageConstants DEF EditsBound
      <4> QED BY <2>1, <4>1, <4>2, PackageConstants
    <3> QED BY <2>2, <3>1, <3>2 DEF EditsBound
  <2> QED BY <2>3, <2>4 DEF TypeInv
<1>7. CASE UNCHANGED vars
  BY <1>0, <1>7 DEF vars, TypeInv, TypeOK, EditsBound
<1> QED BY <1>1, <1>2, <1>3, <1>4, <1>5, <1>6, <1>7 DEF Next, HostReconcile, ClusterStep

LEMMA TypeInit ==
  ASSUME Init PROVE TypeInv
<1>1. left \in SettingType /\ left.edits < MaxGens
  BY PackageConstants DEF Init
<1>2. NoJobs \in [Gens -> Jobs \cup {NoJob}]
  BY DEF NoJobs
<1>3. host \in HostStatuses
  BY DEF Init, HostStatuses
<1>4. seen \in [kipr : Objects \cup {NoObj}, jobs : [Gens -> Jobs \cup {NoJob}], pods : SUBSET Pods,
               host : HostStatuses]
  BY <1>2, <1>3 DEF Init
<1> QED BY <1>1, <1>2, <1>3, <1>4 DEF Init, TypeInv, TypeOK, EditsBound

-----------------------------------------------------------------------------
(* Informers, pods and the garbage collector                               *)

\* A pod of the Job of its generation, honest once the registry has caught up.
Built(p, g) == /\ jobs[g] # NoJob /\ p.gen = g /\ p.pin = jobs[g].pin
               /\ left.stale = 0 => p.holds = p.pin.want

ClusterEffects ==
  /\ UNCHANGED <<refs, kipr, host, served, uid>> /\ Spent
  /\ seen'.kipr \in {seen.kipr, kipr} /\ seen'.pods \in {seen.pods, pods}
  /\ seen'.host \in {seen.host, host}
  /\ config' \in {config, NoObj}
  /\ \A g \in Gens : jobs'[g] # NoJob =>
       /\ jobs[g] # NoJob
       /\ jobs'[g].pin = jobs[g].pin \/ (config # NoObj /\ jobs'[g].pin = config.pin)
  /\ \A p \in pods' : (\E q \in pods : Alike(p, q)) \/ \E g \in Gens : Built(p, g)

\* What the Job controller, the kubelet and the informers may do.
LEMMA ClusterEffectsStep ==
  ASSUME TypeInv, ClusterStep
  PROVE  ClusterEffects
<1>0. TypeOK /\ Spent /\ UNCHANGED <<refs, kipr, host, served, uid>>
  BY SpentStep, ClusterTypes DEF TypeInv
<1> DEFINE JobsKept == \A g \in Gens : jobs'[g] # NoJob =>
             /\ jobs[g] # NoJob
             /\ jobs'[g].pin = jobs[g].pin \/ (config # NoObj /\ jobs'[g].pin = config.pin)
           PodsKept == \A p \in pods' : (\E q \in pods : Alike(p, q)) \/ \E g \in Gens : Built(p, g)
<1>1. seen'.kipr \in {seen.kipr, kipr} /\ seen'.pods \in {seen.pods, pods} /\ seen'.host \in {seen.host, host}
  <2>1. /\ seen \in [kipr : Objects \cup {NoObj}, jobs : [Gens -> Jobs \cup {NoJob}], pods : SUBSET Pods,
                   host : HostStatuses]
    BY <1>0 DEF TypeOK
  <2>2. seen' \in {seen, [seen EXCEPT !.kipr = kipr], [seen EXCEPT !.jobs = jobs], [seen EXCEPT !.pods = pods],
                   [seen EXCEPT !.jobs = jobs, !.pods = pods], [seen EXCEPT !.host = host]}
    BY DEF ClusterStep, Cluster, InformObject, InformHost, InformJobs, InformLags, Collect, PodStarts, PodSucceeds, PodFails, PodLost
  <2> QED BY <2>1, <2>2
<1>2. config' \in {config, NoObj}
  BY DEF ClusterStep, Cluster, InformObject, InformHost, InformJobs, InformLags, Collect, PodStarts, PodSucceeds, PodFails, PodLost
<1>3. \A p \in pods : Alike(p, p)
  BY DEF Alike
<1>4. CASE UNCHANGED jobs /\ pods' \subseteq pods
  BY <1>0, <1>1, <1>2, <1>3, <1>4 DEF ClusterEffects
<1>5. CASE Collect
  <2>1. (\E g \in Gens : DeleteJobs({g})) \/ (jobs' = jobs /\ pods' \subseteq pods)
    BY <1>5 DEF Collect
  <2>2. ASSUME NEW g \in Gens, DeleteJobs({g}) PROVE JobsKept /\ PodsKept
    <3>1. /\ \A h \in Gens : jobs'[h] # NoJob => jobs'[h] = jobs[h]
          /\ \A p \in pods' : \E q \in pods : Alike(p, q)
      BY <1>0, <2>2, JobsDeleted
    <3> QED BY <3>1
  <2> QED BY <1>0, <1>1, <1>2, <1>4, <2>1, <2>2 DEF ClusterEffects
<1>6. ASSUME NEW g \in Gens, PodStarts(g) PROVE ClusterEffects
  <2>1. jobs[g] \in Jobs /\ jobs[g] # NoJob /\ config # NoObj /\ pods' = pods /\ jobs \in [Gens -> Jobs \cup {NoJob}]
    BY <1>0, <1>6 DEF PodStarts, TypeOK
  <2> DEFINE j == [jobs[g] EXCEPT !.state = "running", !.pin = config.pin]
  <2>2. jobs' = [jobs EXCEPT ![g] = j]
    BY <1>6 DEF PodStarts
  <2>3. j.pin = config.pin
    BY <2>1 DEF Jobs
  <2> HIDE DEF j
  <2>4. JobsKept
    BY <2>1, <2>2, <2>3
  <2> QED BY <1>0, <1>1, <1>2, <1>3, <2>1, <2>4 DEF ClusterEffects
<1>7. ASSUME NEW g \in Gens, PodSucceeds(g) PROVE ClusterEffects
  <2>1. jobs[g] \in Jobs /\ jobs[g] # NoJob /\ jobs \in [Gens -> Jobs \cup {NoJob}] /\ left.stale \in Nat
    BY <1>0, <1>7 DEF PodSucceeds, TypeOK, SettingType
  <2> DEFINE j == [jobs[g] EXCEPT !.state = "succeeded"]
  <2>2. jobs' = [jobs EXCEPT ![g] = j]
    BY <1>7 DEF PodSucceeds
  <2>3. j.pin = jobs[g].pin
    BY <2>1 DEF Jobs
  <2> HIDE DEF j
  <2>4. JobsKept
    BY <2>1, <2>2, <2>3
  <2>5. PICK v \in Versions : pods' = pods \cup {Finished(g, TRUE, v)} /\ (left.stale = 0 => v = jobs[g].pin.want)
    <3>1. PICK v \in IF left.stale > 0 THEN Versions ELSE {jobs[g].pin.want} : pods' = pods \cup {Finished(g, TRUE, v)}
      BY <1>7 DEF PodSucceeds
    <3>2. jobs[g].pin.want \in Versions
      BY <2>1, JobFields
    <3>3. v \in Versions /\ (left.stale = 0 => v = jobs[g].pin.want)
      BY <2>1, <3>1, <3>2
    <3> QED BY <3>1, <3>3
  <2>6. Built(Finished(g, TRUE, v), g)
    BY <2>1, <2>5, FinishedFields DEF Built
  <2>7. PodsKept
    BY <1>3, <2>5, <2>6
  <2> QED BY <1>0, <1>1, <1>2, <2>4, <2>7 DEF ClusterEffects
<1>8. ASSUME NEW g \in Gens, PodFails(g) PROVE ClusterEffects
  <2>1. jobs[g] \in Jobs /\ jobs[g] # NoJob /\ jobs \in [Gens -> Jobs \cup {NoJob}]
    BY <1>0, <1>8 DEF PodFails, TypeOK
  <2> DEFINE j == [jobs[g] EXCEPT !.state = IF jobs[g].fails = Backoff THEN "failed" ELSE "waiting", !.fails = @ + 1]
  <2>2. jobs' = [jobs EXCEPT ![g] = j]
    BY <1>8 DEF PodFails
  <2>3. j.pin = jobs[g].pin
    BY <2>1 DEF Jobs
  <2> HIDE DEF j
  <2>4. JobsKept
    BY <2>1, <2>2, <2>3
  <2> DEFINE v == jobs[g].pin.want
  <2>5. v \in Versions /\ pods' = pods \cup {Finished(g, FALSE, v)}
    BY <1>8, <2>1, JobFields DEF PodFails
  <2>6. Built(Finished(g, FALSE, v), g)
    <3>1. FALSE \in BOOLEAN
      OBVIOUS
    <3>2. /\ Finished(g, FALSE, v).gen = g /\ Finished(g, FALSE, v).pin = jobs[g].pin
          /\ Finished(g, FALSE, v).holds = v
      BY <2>1, <2>5, <3>1, FinishedFields
    <3> QED BY <2>1, <3>2 DEF Built
  <2> HIDE DEF v
  <2>7. PodsKept
    BY <1>3, <2>5, <2>6
  <2> QED BY <1>0, <1>1, <1>2, <2>4, <2>7 DEF ClusterEffects
<1>9. CASE InformObject \/ InformHost \/ InformJobs \/ InformLags
  BY <1>4, <1>9 DEF InformObject, InformHost, InformJobs, InformLags
<1>10. ASSUME NEW p \in pods, PodLost(p) PROVE ClusterEffects
  BY <1>4, <1>10 DEF PodLost
<1> QED BY <1>5, <1>6, <1>7, <1>8, <1>9, <1>10 DEF ClusterStep, Cluster

\* The other steps: an edit changes what is asked for, nothing else.
Edited ==
  /\ \E r \in left.asks : refs' = r
  /\ left' \in SettingType /\ left'.asks = left.asks /\ left'.blips = left.blips /\ left'.stale = left.stale
  /\ UNCHANGED <<kipr, seen, config, secret, jobs, pods, host, served, uid>>

\* A step is one of six kinds: the later proofs split on them.
LEMMA StepKinds ==
  ASSUME TypeInv, [Next]_vars
  PROVE  \/ Pass(seen.kipr) /\ Spent
         \/ HostPinned /\ Spent
         \/ HostWithout /\ Spent
         \/ HostPackages /\ Spent
         \/ ClusterEffects
         \/ Edited
<1>0. TypeOK /\ left \in SettingType
  BY DEF TypeInv, TypeOK
<1>1. CASE PackagesReconcile
  BY <1>0, <1>1, PassStep, SpentStep
<1>2. CASE HostReconcile
  BY <1>0, <1>2, SpentStep DEF HostReconcile
<1>3. CASE ClusterStep
  BY <1>3, ClusterEffectsStep
<1>4. ASSUME NEW r \in left.asks, Edit(r) PROVE Edited
  BY <1>0, <1>4, EditFields DEF Edit, Edited
<1>5. CASE UNCHANGED vars
  BY <1>0, <1>5 DEF vars, Edited, TypeOK
<1> QED BY <1>1, <1>2, <1>3, <1>4, <1>5 DEF Next, ClusterStep

-----------------------------------------------------------------------------
(* What is asked for                                                       *)

\* A pass changes the status of the object only.
LEMMA PassObject ==
  ASSUME TypeInv, NEW k, Pass(k)
  PROVE  /\ kipr' # NoObj <=> kipr # NoObj
         /\ kipr # NoObj => kipr'.gen = kipr.gen /\ kipr'.pin = kipr.pin
<1>1. CASE kipr' = kipr
  BY <1>1
<1>2. CASE kipr' # kipr
  <2>1. PICK s \in Statuses : kipr = k /\ kipr' = [k EXCEPT !.st = s]
    BY <1>2 DEF Pass, StatusWritten
  <2>2. k \in Objects
    BY DEF Pass
  <2> QED BY <2>1, <2>2, WithStatus, PackageConstants
<1> QED BY <1>1, <1>2

\* A host reconcile writes no status.
LEMMA HostObject ==
  ASSUME TypeInv, HostPackages
  PROVE  /\ UNCHANGED refs /\ HostStep /\ refs \in Pins
         /\ \/ kipr' = kipr
            \/ kipr = NoObj /\ seen.kipr = NoObj /\ kipr' \in Objects /\ kipr'.pin = refs /\ kipr'.gen = 1 /\ kipr'.st = NoStatus
            \/ kipr \in Objects /\ seen.kipr = kipr /\ kipr' \in Objects /\ kipr'.pin = refs
               /\ kipr'.gen = kipr.gen + 1 /\ kipr'.st = kipr.st
<1>1. UNCHANGED refs /\ HostStep /\ refs \in Pins /\ (ObjectKept \/ ObjectCreated \/ ObjectEdited)
  BY HostWrites
<1>2. CASE ObjectKept
  BY <1>1, <1>2 DEF ObjectKept
<1>3. CASE ObjectCreated
  BY <1>1, <1>3, NewObjectFields DEF ObjectCreated
<1>4. CASE ObjectEdited
  BY <1>1, <1>4, EditedObjectFields DEF ObjectEdited
<1> QED BY <1>1, <1>2, <1>3, <1>4

\* Only what the author asks for is ever built.
LEMMA SettingStep ==
  ASSUME TypeInv, SettingOK, [Next]_vars
  PROVE  SettingOK' /\ left'.asks = left.asks
<1>0. refs \in left.asks
  BY DEF TypeInv, TypeOK
<1>1. CASE Pass(seen.kipr) /\ Spent
  <2> DEFINE k == seen.kipr
  <2>1. left'.asks = left.asks /\ seen' = seen /\ k # NoObj /\ k.pin \in left.asks
    BY <1>1, PackageConstants DEF Spent, Pass, SettingOK
  <2>2. kipr' # NoObj => kipr'.pin \in left.asks
    BY <1>1, PassObject DEF SettingOK
  <2>3. config' # NoObj => config'.pin \in left.asks
    BY <1>1, <2>1 DEF Pass, SettingOK
  <2>4. \A g \in Gens : jobs'[g] # NoJob => jobs'[g].pin \in left.asks
    BY <1>1, <2>1 DEF Pass, SettingOK
  <2>5. \A p \in pods' : p.pin \in left.asks
    BY <1>1 DEF Pass, SettingOK, Alike
  <2> QED BY <2>1, <2>2, <2>3, <2>4, <2>5 DEF SettingOK
<1>2. CASE HostPinned /\ Spent
  BY <1>2 DEF HostPinned, HostStep, Spent, SettingOK
<1>3. CASE HostWithout /\ Spent
  BY <1>3 DEF HostWithout, HostStep, Spent, SettingOK
<1>4. CASE HostPackages /\ Spent
  <2>1. left'.asks = left.asks /\ UNCHANGED <<seen, config, secret, jobs, pods>>
    BY <1>4, HostObject DEF Spent, HostStep
  <2>2. kipr' # NoObj => kipr'.pin \in left.asks
    BY <1>0, <1>4, HostObject DEF SettingOK
  <2> QED BY <2>1, <2>2 DEF SettingOK
<1>5. CASE ClusterEffects
  <2>1. /\ left'.asks = left.asks /\ kipr' = kipr /\ seen'.kipr \in {seen.kipr, kipr}
        /\ seen'.pods \in {seen.pods, pods} /\ config' \in {config, NoObj}
    BY <1>5 DEF ClusterEffects, Spent
  <2>2. \A g \in Gens : jobs'[g] # NoJob => jobs'[g].pin \in left.asks
    BY <1>5 DEF ClusterEffects, SettingOK
  <2>3. \A p \in pods' : p.pin \in left.asks
    BY <1>5 DEF ClusterEffects, SettingOK, Alike, Built
  <2> QED BY <2>1, <2>2, <2>3 DEF SettingOK
<1>6. CASE Edited
  BY <1>6 DEF Edited, SettingOK
<1> QED BY <1>1, <1>2, <1>3, <1>4, <1>5, <1>6, StepKinds

-----------------------------------------------------------------------------
(* One object in step with its Jobs and pods                               *)

\* While no object is deleted, views, Jobs and pods trail the one object.
LEMMA LockstepStep ==
  ASSUME TypeInv, SettingOK, Lockstep, [Next]_vars
  PROVE  Lockstep'
<1>0. left'.asks = left.asks /\ refs \in left.asks
  BY SettingStep DEF TypeInv, TypeOK
<1> SUFFICES ASSUME OneObject PROVE Lockstep'
  BY <1>0 DEF Lockstep, OneObject
<1> DEFINE k == seen.kipr
<1>a. /\ k # NoObj => kipr # NoObj /\ k.gen <= kipr.gen /\ (k.gen = kipr.gen => k.pin = kipr.pin)
      /\ \A p \in pods \cup seen.pods : k # NoObj /\ p.gen <= k.gen /\ (p.gen = k.gen => p.pin = k.pin)
      /\ \A g \in Gens : jobs[g] # NoJob =>
           /\ k # NoObj /\ g <= k.gen
           /\ g = k.gen => jobs[g].pin = k.pin /\ (config # NoObj => config.pin = k.pin)
  BY DEF Lockstep
<1>b. /\ k # NoObj => k \in Objects /\ k.gen \in Nat
      /\ kipr # NoObj => kipr \in Objects /\ kipr.gen \in Nat
  BY ObjectFields DEF TypeInv, TypeOK
<1>c. pods \cup seen.pods \subseteq Pods /\ \A p \in Pods : p.gen \in Nat
  BY PodFields DEF TypeInv, TypeOK
<1>d. \A g \in Gens : g \in Nat
  BY DEF Gens
<1>1. CASE Pass(k) /\ Spent
  <2>1. seen' = seen /\ k \in Objects /\ k # NoObj
    BY <1>1, PackageConstants DEF Pass
  <2>2. kipr' # NoObj /\ k.gen <= kipr'.gen /\ (k.gen = kipr'.gen => k.pin = kipr'.pin)
    BY <1>1, <1>a, <2>1, PassObject
  <2>3. \A p \in pods' : p.gen <= k.gen /\ (p.gen = k.gen => p.pin = k.pin)
    BY <1>1, <1>a DEF Pass, Alike
  <2>4. ASSUME NEW g \in Gens, jobs'[g] # NoJob
        PROVE  g <= k.gen /\ (g = k.gen => jobs'[g].pin = k.pin /\ (config' # NoObj => config'.pin = k.pin))
    <3>1. CASE jobs'[g] = jobs[g]
      <4>1. config' = config \/ config'.pin = k.pin
        BY <1>1 DEF Pass
      <4> QED BY <1>a, <2>4, <3>1, <4>1
    <3>2. CASE g = k.gen /\ jobs'[g].pin = k.pin /\ config'.pin = k.pin
      BY <1>b, <2>1, <3>2
    <3> QED BY <1>1, <2>4, <3>1, <3>2 DEF Pass
  <2> QED BY <1>a, <2>1, <2>2, <2>3, <2>4 DEF Lockstep
<1>2. CASE HostPinned
  BY <1>a, <1>2 DEF HostPinned, HostStep, Lockstep
<1>3. CASE HostWithout
  BY <1>0, <1>3 DEF HostWithout, OneObject
<1>4. CASE HostPackages /\ Spent
  <2>1. UNCHANGED <<seen, config, jobs, pods>>
    BY <1>4, HostObject DEF HostStep
  <2>2. k # NoObj => kipr' # NoObj /\ k.gen <= kipr'.gen /\ (k.gen = kipr'.gen => k.pin = kipr'.pin)
    BY <1>4, <1>a, <1>b, HostObject, PackageConstants
  <2> QED BY <1>a, <2>1, <2>2 DEF Lockstep
<1>5. CASE ClusterEffects
  <2> DEFINE m == seen'.kipr
  <2>1. kipr' = kipr /\ m \in {k, kipr} /\ seen'.pods \in {seen.pods, pods} /\ config' \in {config, NoObj}
    BY <1>5 DEF ClusterEffects
  <2>2. /\ k # NoObj => m # NoObj /\ k.gen <= m.gen /\ (k.gen = m.gen => k.pin = m.pin)
        /\ m # NoObj => kipr # NoObj /\ m.gen <= kipr.gen /\ (m.gen = kipr.gen => m.pin = kipr.pin)
        /\ m # NoObj => m.gen \in Nat
    BY <1>a, <1>b, <2>1
  <2>3. \A p \in pods' : k # NoObj /\ p.gen \in Nat /\ p.gen <= k.gen /\ (p.gen = k.gen => p.pin = k.pin)
    BY <1>5, <1>a, <1>c, <1>d DEF ClusterEffects, Alike, Built
  <2>4. \A p \in pods' \cup seen'.pods : k # NoObj /\ p.gen \in Nat /\ p.gen <= k.gen /\ (p.gen = k.gen => p.pin = k.pin)
    BY <1>a, <1>c, <2>1, <2>3
  <2>5. \A p \in pods' \cup seen'.pods : m # NoObj /\ p.gen <= m.gen /\ (p.gen = m.gen => p.pin = m.pin)
    BY <1>b, <2>2, <2>4
  <2>6. ASSUME NEW g \in Gens, jobs'[g] # NoJob
        PROVE  /\ m # NoObj /\ g <= m.gen
               /\ g = m.gen => jobs'[g].pin = m.pin /\ (config' # NoObj => config'.pin = m.pin)
    <3>1. jobs[g] # NoJob /\ (jobs'[g].pin = jobs[g].pin \/ (config # NoObj /\ jobs'[g].pin = config.pin))
      BY <1>5, <2>6 DEF ClusterEffects
    <3>2. k # NoObj /\ g <= k.gen /\ g \in Nat /\ k.gen \in Nat
      BY <1>a, <1>b, <1>d, <3>1
    <3>3. g = k.gen => jobs'[g].pin = k.pin /\ (config' # NoObj => config'.pin = k.pin)
      BY <1>a, <2>1, <3>1
    <3>4. g <= m.gen /\ (g = m.gen => g = k.gen /\ k.pin = m.pin)
      BY <2>2, <3>2
    <3> QED BY <2>2, <3>2, <3>3, <3>4
  <2> QED BY <2>1, <2>2, <2>5, <2>6 DEF Lockstep
<1>6. CASE Edited
  BY <1>a, <1>6 DEF Edited, Lockstep
<1> QED BY <1>1, <1>2, <1>3, <1>4, <1>5, <1>6, StepKinds

-----------------------------------------------------------------------------
(* What is published                                                       *)

\* Nothing makes an honest builder dishonest, or a dependable cluster blink.
LEMMA HonestStep ==
  ASSUME TypeInv, SettingOK, [Next]_vars
  PROVE  (Honest => Honest') /\ (NoBlips => NoBlips')
<1>1. CASE Pass(seen.kipr) /\ Spent
  BY <1>1 DEF Pass, Spent, Honest, NoBlips, Alike
<1>2. CASE HostPinned /\ Spent
  BY <1>2 DEF HostPinned, HostStep, Spent, Honest, NoBlips
<1>3. CASE HostWithout /\ Spent
  BY <1>3 DEF HostWithout, HostStep, Spent, Honest, NoBlips
<1>4. CASE HostPackages /\ Spent
  BY <1>4 DEF HostPackages, HostStep, Spent, Honest, NoBlips
<1>5. CASE ClusterEffects
  <2>1. NoBlips => NoBlips'
    BY <1>5 DEF ClusterEffects, Spent, NoBlips
  <2>2. ASSUME Honest PROVE Honest'
    <3>1. left'.stale = 0 /\ left.stale = 0 /\ seen'.pods \in {seen.pods, pods}
      BY <1>5, <2>2 DEF ClusterEffects, Spent, Honest
    <3>2. \A p \in pods' : p.holds = p.pin.want
      BY <1>5, <2>2, <3>1 DEF ClusterEffects, Honest, Alike, Built
    <3> QED BY <2>2, <3>1, <3>2 DEF Honest
  <2> QED BY <2>1, <2>2
<1>6. CASE Edited
  BY <1>6 DEF Edited, Honest, NoBlips
<1> QED BY <1>1, <1>2, <1>3, <1>4, <1>5, <1>6, StepKinds

LEMMA DependableStep ==
  ASSUME TypeInv, SettingOK, [Next]_vars
  PROVE  (Dependable => Dependable') /\ (Trusted => Trusted')
<1>1. (OneObject <=> OneObject') /\ (AllExact <=> AllExact')
  BY SettingStep DEF OneObject, AllExact
<1> QED BY <1>1, HonestStep DEF Dependable, Trusted

\* The image of a pod met under the generation's name.
LEMMA HarvestedImage ==
  ASSUME TypeInv, SettingOK, Lockstep, NEW k \in Objects, seen.kipr = k,
         NEW s \in Statuses, NEW p \in seen.pods, Harvested(k, s, p)
  PROVE  /\ s.image.tag = k.gen /\ s.image.pin = p.pin /\ s.image.holds = p.holds
         /\ s.image \in Images /\ s.image # NoImage
         /\ k.pin \in Pins /\ p.pin \in Pins /\ k.pin \in left.asks /\ p.pin \in left.asks
         /\ OneObject => p.pin = k.pin
         /\ Honest => p.holds = p.pin.want
         /\ NoBlips => s.image = k.st.image \/ (k.pin.exact => p.holds = k.pin.want)
<1>1. p.gen = k.gen /\ s.image = [tag |-> k.gen, pin |-> p.pin, holds |-> p.holds] /\ k # NoObj
  BY PackageConstants DEF Harvested
<1>2. p \in Pods /\ p.pin \in Pins /\ p.holds \in Versions /\ k.gen \in Gens /\ k.pin \in Pins
  BY PodFields, ObjectFields DEF TypeInv, TypeOK
<1>3. s.image.tag = k.gen /\ s.image.pin = p.pin /\ s.image.holds = p.holds /\ s.image \in Images
  BY <1>1, <1>2 DEF Images
<1>4. k.pin \in left.asks /\ p.pin \in left.asks
  BY <1>1 DEF SettingOK
<1>5. OneObject => p.pin = k.pin
  BY <1>1 DEF Lockstep
<1>6. Honest => p.holds = p.pin.want
  BY DEF Honest
<1>7. NoBlips => s.image = k.st.image \/ (k.pin.exact => p.holds = k.pin.want)
  BY <1>3 DEF Harvested, NoBlips, VerifyPinnedVersions
<1> QED BY <1>2, <1>3, <1>4, <1>5, <1>6, <1>7, PackageConstants

LEMMA ExactPins ==
  ASSUME NEW a \in Pins, NEW b \in Pins, a.exact, b.exact, a.want = b.want
  PROVE  a = b
  BY DEF Pins

\* A pass publishes an image of its own generation only.
LEMMA PublishedPass ==
  ASSUME TypeInv, SettingOK, Lockstep, StatusInv, NEW k, Pass(k)
  PROVE  Published(kipr)'
<1>1. k \in Objects /\ seen.kipr = k /\ k # NoObj /\ k.gen \in Nat /\ Published(k)
  BY ObjectFields, PackageConstants DEF Pass, StatusInv
<1>2. CASE kipr' = kipr
  BY <1>2 DEF StatusInv, Published
<1>3. ASSUME NEW s \in Statuses, kipr' = [k EXCEPT !.st = s], s.observed = k.gen,
             Retained(k, s) \/ \E p \in seen.pods : Harvested(k, s, p)
      PROVE  Published(kipr)'
  <2>1. kipr'.gen = k.gen /\ kipr'.pin = k.pin /\ kipr'.st = s
    BY <1>1, <1>3, WithStatus
  <2>2. CASE Retained(k, s)
    BY <1>1, <1>3, <2>1, <2>2 DEF Published, Retained
  <2>3. ASSUME NEW p \in seen.pods, Harvested(k, s, p) PROVE Published(kipr)'
    <3>1. /\ s.image.tag = k.gen /\ s.image.pin = p.pin /\ s.image.holds = p.holds /\ s.image # NoImage
          /\ k.pin \in Pins /\ p.pin \in Pins /\ k.pin \in left.asks /\ p.pin \in left.asks
          /\ OneObject => p.pin = k.pin
          /\ Honest => p.holds = p.pin.want
          /\ NoBlips => s.image = k.st.image \/ (k.pin.exact => p.holds = k.pin.want)
      BY <1>1, <2>3, HarvestedImage
    <3>2. s.image = k.st.image => Satisfies(s.image, k.pin)
      BY <1>1, <3>1 DEF Published
    <3>5. Satisfies(s.image, k.pin)
      <4>1. CASE OneObject /\ (Honest \/ NoBlips)
        BY <3>1, <3>2, <4>1 DEF Satisfies
      <4>2. CASE AllExact /\ Honest /\ NoBlips
        <5>1. k.pin.exact /\ p.pin.exact
          BY <3>1, <4>2 DEF AllExact
        <5>2. CASE s.image = k.st.image
          BY <3>2, <5>2
        <5>3. CASE p.holds = k.pin.want
          <6>1. p.pin = k.pin
            BY <3>1, <4>2, <5>1, <5>3, ExactPins
          <6> QED BY <3>1, <5>3, <6>1 DEF Satisfies
        <5> QED BY <3>1, <4>2, <5>1, <5>2, <5>3
      <4> QED BY <4>1, <4>2 DEF StatusInv, Dependable
    <3> QED BY <1>1, <1>3, <2>1, <3>1, <3>5 DEF Published
  <2> QED BY <1>3, <2>2, <2>3
<1> QED BY <1>2, <1>3 DEF Pass, StatusWritten

\* The published status stays true to the spec.
LEMMA StatusStep ==
  ASSUME TypeInv, SettingOK, Lockstep, StatusInv, [Next]_vars
  PROVE  StatusInv'
<1>0. Dependable' /\ Published(kipr) /\ Published(seen.kipr)
  BY DependableStep DEF StatusInv
<1>1. CASE Pass(seen.kipr) /\ Spent
  <2>1. seen' = seen
    BY <1>1 DEF Pass
  <2> QED BY <1>0, <1>1, <2>1, PublishedPass DEF StatusInv, Published
<1>2. CASE HostPinned
  BY <1>0, <1>2 DEF HostPinned, HostStep, StatusInv, Published
<1>3. CASE HostWithout
  BY <1>0, <1>3 DEF HostWithout, HostStep, StatusInv, Published
<1>4. CASE HostPackages /\ Spent
  <2>1. seen' = seen
    BY <1>4 DEF HostPackages, HostStep
  <2>2. CASE kipr' = kipr
    BY <1>0, <2>1, <2>2 DEF StatusInv, Published
  <2>3. CASE kipr'.gen = 1 /\ kipr'.st = NoStatus
    <3>1. /\ kipr'.st.image = NoImage /\ kipr'.st.ready # "True" /\ kipr'.st.observed <= kipr'.gen
      <4>1. kipr'.st.image = NoImage /\ kipr'.st.ready # "True" /\ kipr'.st.observed = 0
        BY <2>3, NoStatusFields, Zenon
      <4> QED BY <2>3, <4>1
    <3>2. Published(kipr)'
      BY <3>1 DEF Published
    <3> QED BY <1>0, <2>1, <3>2 DEF StatusInv, Published
  <2>4. CASE kipr \in Objects /\ kipr'.gen = kipr.gen + 1 /\ kipr'.st = kipr.st
    <3>1. kipr # NoObj /\ kipr.gen \in Nat /\ kipr.st.observed \in Nat /\ kipr.st.image \in Images \cup {NoImage}
      BY <2>4, ObjectFields, PackageConstants
    <3>2. kipr.st.image # NoImage => kipr.st.image.tag \in Nat
      BY <3>1 DEF Images, Gens
    <3>3. Published(kipr)'
      BY <1>0, <2>4, <3>1, <3>2 DEF Published
    <3> QED BY <1>0, <2>1, <3>3 DEF StatusInv, Published
  <2> QED BY <1>4, <2>2, <2>3, <2>4, HostObject
<1>5. CASE ClusterEffects
  <2>1. kipr' = kipr /\ seen'.kipr \in {seen.kipr, kipr}
    BY <1>5 DEF ClusterEffects
  <2> QED BY <1>0, <2>1 DEF StatusInv, Published
<1>6. CASE Edited
  BY <1>0, <1>6 DEF Edited, StatusInv, Published
<1> QED BY <1>1, <1>2, <1>3, <1>4, <1>5, <1>6, StepKinds

-----------------------------------------------------------------------------
(* What is served                                                          *)

\* The image the host publishes comes from a status it read.
LEMMA HostImages ==
  ASSUME TypeInv, HostPackages
  PROVE  /\ Written.st = NoStatus \/ (seen.kipr \in Objects /\ Written.st = seen.kipr.st)
         /\ host'.image \in {host.image, seen.host.image, Written.st.image}
         /\ served' \in {served, seen.host.image, Written.st.image}
<1>1. Written.st = NoStatus \/ (seen.kipr \in Objects /\ Written.st = seen.kipr.st)
  BY HostWrites, NewObjectFields, EditedObjectFields DEF ObjectKept, ObjectCreated, ObjectEdited
<1>2. HostServes
  BY HostServesStep
<1> QED BY <1>1, <1>2 DEF HostServes, Recording

\* An image that was verified stays the one its pin asks for.
LEMMA GoodStep ==
  ASSUME TypeInv, SettingOK, Lockstep, GoodInv, [Next]_vars
  PROVE  GoodInv'
<1>0. /\ Trusted' /\ Trusted /\ Good(host.image) /\ Good(seen.host.image) /\ Good(served)
      /\ kipr # NoObj => Good(kipr.st.image)
      /\ seen.kipr # NoObj => Good(seen.kipr.st.image)
  BY DependableStep DEF GoodInv
<1>a. Good(NoImage) /\ Good(Prebuilt)
  BY PackageConstants DEF Good
<1>1. CASE Pass(seen.kipr) /\ Spent
  <2> DEFINE k == seen.kipr
  <2>1. UNCHANGED <<seen, host, served>> /\ k \in Objects /\ k # NoObj
    BY <1>1, PackageConstants DEF Pass
  <2>2. CASE kipr' = kipr
    BY <1>0, <2>1, <2>2 DEF GoodInv, Good
  <2>3. ASSUME NEW s \in Statuses, kipr' = [k EXCEPT !.st = s],
               Retained(k, s) \/ \E p \in seen.pods : Harvested(k, s, p)
        PROVE  GoodInv'
    <3>1. kipr'.st = s
      BY <2>1, <2>3, WithStatus
    <3>2. CASE Retained(k, s)
      BY <1>0, <2>1, <3>1, <3>2 DEF GoodInv, Good, Retained
    <3>3. ASSUME NEW p \in seen.pods, Harvested(k, s, p) PROVE GoodInv'
      <4>1. /\ s.image.pin = p.pin /\ s.image.holds = p.holds
            /\ OneObject => p.pin = k.pin
            /\ Honest => p.holds = p.pin.want
            /\ NoBlips => s.image = k.st.image \/ (k.pin.exact => p.holds = k.pin.want)
        BY <2>1, <3>3, HarvestedImage
      <4>2. Good(s.image)
        BY <1>0, <2>1, <4>1 DEF Trusted, Good, Satisfies
      <4> QED BY <1>0, <2>1, <3>1, <4>2 DEF GoodInv, Good
    <3> QED BY <2>3, <3>2, <3>3
  <2> QED BY <1>1, <2>2, <2>3 DEF Pass, StatusWritten
<1>2. CASE HostPinned
  <2>1. UNCHANGED <<kipr, seen>> /\ host'.image \in {host.image, Prebuilt} /\ served' = Prebuilt
    BY <1>2, ServeStep DEF HostPinned, HostStep, Recording, TypeInv
  <2> QED BY <1>0, <1>a, <2>1 DEF GoodInv, Good
<1>3. CASE HostWithout
  <2>1. kipr' = NoObj /\ seen' = seen /\ host'.image \in {host.image, NoImage} /\ served' = NoImage
    BY <1>3, ServeStep DEF HostWithout, HostStep, Recording, TypeInv
  <2> QED BY <1>0, <1>a, <2>1 DEF GoodInv, Good
<1>4. CASE HostPackages /\ Spent
  <2>1. Written.st = NoStatus \/ (seen.kipr # NoObj /\ Written.st = seen.kipr.st)
    BY <1>4, HostImages, PackageConstants
  <2>2. Good(Written.st.image)
    BY <1>0, <1>a, <2>1, NoStatusFields
  <2>3. Good(host'.image) /\ Good(served')
    BY <1>0, <1>4, <2>2, HostImages
  <2>4. seen' = seen
    BY <1>4 DEF HostPackages, HostStep
  <2>5. kipr' # NoObj => Good(kipr'.st.image)
    <3>1. CASE kipr' = kipr
      BY <1>0, <3>1
    <3>2. CASE kipr'.st = NoStatus
      BY <1>a, <3>2, NoStatusFields
    <3>3. CASE kipr \in Objects /\ kipr'.st = kipr.st
      BY <1>0, <3>3, PackageConstants
    <3> QED BY <1>4, <3>1, <3>2, <3>3, HostObject
  <2> QED BY <1>0, <2>3, <2>4, <2>5 DEF GoodInv, Good
<1>5. CASE ClusterEffects
  <2>1. UNCHANGED <<kipr, host, served>> /\ seen'.kipr \in {seen.kipr, kipr} /\ seen'.host \in {seen.host, host}
    BY <1>5 DEF ClusterEffects
  <2> QED BY <1>0, <2>1 DEF GoodInv, Good
<1>6. CASE Edited
  BY <1>0, <1>6 DEF Edited, GoodInv, Good
<1> QED BY <1>1, <1>2, <1>3, <1>4, <1>5, <1>6, StepKinds

\* In the life of the first object the recorded image is not lost.
LEMMA ServedStep ==
  ASSUME TypeInv, ServedInv, [Next]_vars
  PROVE  ServedInv'
<1>0. /\ uid \in Nat /\ NoImage \notin Images /\ Prebuilt \notin Images
      /\ kipr # NoObj => kipr \in Objects
      /\ seen.kipr # NoObj => seen.kipr \in Objects
  BY PackageConstants DEF TypeInv, TypeOK
<1>a. \A k \in Objects : k.st.image = NoImage \/ k.st.image \in Images
  BY ObjectFields
<1>1. CASE Pass(seen.kipr) /\ Spent
  <2> DEFINE k == seen.kipr
  <2>1. UNCHANGED <<seen, host, served, uid>> /\ k \in Objects /\ k # NoObj
    BY <1>1, PackageConstants DEF Pass
  <2>2. kipr' # NoObj <=> kipr # NoObj
    BY <1>1, PassObject
  <2>3. kipr # NoObj /\ kipr.st.image # NoImage => kipr'.st.image # NoImage
    <3>1. CASE kipr' = kipr
      BY <3>1
    <3>2. ASSUME kipr = k, NEW s \in Statuses, kipr' = [k EXCEPT !.st = s],
                 Retained(k, s) \/ \E p \in seen.pods : Harvested(k, s, p),
                 kipr.st.image # NoImage
          PROVE  kipr'.st.image # NoImage
      <4>1. kipr'.st = s
        BY <2>1, <3>2, WithStatus
      <4>2. CASE Retained(k, s)
        BY <3>2, <4>1, <4>2 DEF Retained
      <4>3. ASSUME NEW p \in seen.pods, Harvested(k, s, p) PROVE s.image \in Images
        <5>1. k.gen \in Gens /\ p.pin \in Pins /\ p.holds \in Versions
          BY <2>1, ObjectFields, PodFields DEF TypeInv, TypeOK
        <5> QED BY <4>3, <5>1 DEF Harvested, Images
      <4> QED BY <1>0, <3>2, <4>1, <4>2, <4>3
    <3> QED BY <1>1, <3>1, <3>2 DEF Pass, StatusWritten
  <2> QED BY <2>1, <2>2, <2>3 DEF ServedInv
<1>2. CASE HostPinned
  <2>1. UNCHANGED <<kipr, seen, uid>> /\ host'.image \in {host.image, Prebuilt}
    BY <1>2, ServeStep DEF HostPinned, HostStep, Recording, TypeInv
  <2> QED BY <1>0, <2>1, PackageConstants DEF ServedInv
<1>3. CASE HostWithout
  <2>1. kipr' = NoObj /\ UNCHANGED <<seen, uid>> /\ host'.image \in {host.image, NoImage}
    BY <1>3, ServeStep DEF HostWithout, HostStep, Recording, TypeInv
  <2> QED BY <1>0, <2>1 DEF ServedInv
<1>4. CASE HostPackages /\ Spent
  <2> SUFFICES ASSUME uid' <= 1 PROVE ServedInv'
    BY DEF ServedInv
  <2>1. seen' = seen /\ HostServes /\ refs \in Pins
    BY <1>4, HostServesStep, HostObject DEF HostPackages, HostStep
  <2>2. CASE ObjectKept \/ ObjectEdited
    <3> DEFINE image == seen.kipr.st.image
    <3>1. /\ seen.kipr \in Objects /\ seen.kipr # NoObj /\ uid' = uid /\ Written.st.image = image
          /\ kipr' # NoObj <=> kipr # NoObj
          /\ kipr # NoObj => kipr'.st = kipr.st
      <4>1. CASE ObjectKept
        BY <4>1, PackageConstants DEF ObjectKept
      <4>2. CASE ObjectEdited
        BY <2>1, <4>2, EditedObjectFields, PackageConstants DEF ObjectEdited
      <4> QED BY <2>2, <4>1, <4>2
    <3>2. /\ image = NoImage \/ image \in Images
          /\ uid = 1
          /\ kipr # NoObj /\ seen.host.image \in Images => host.image # NoImage
          /\ image = NoImage => host.image \notin Images /\ seen.host.image \notin Images
          /\ kipr # NoObj /\ image # NoImage => kipr.st.image # NoImage
      BY <1>a, <3>1 DEF ServedInv
    <3>3. host'.image \in {host.image, image} \/ (host = seen.host /\ host'.image = seen.host.image)
      BY <2>1, <3>1 DEF HostServes, Recording
    <3>4. /\ image = NoImage => host'.image \notin Images
          /\ kipr # NoObj /\ seen.host.image \in Images => host'.image # NoImage
      BY <1>0, <3>2, <3>3
    <3> QED BY <2>1, <3>1, <3>2, <3>4 DEF ServedInv
  <2>3. CASE ObjectCreated
    <3>1. /\ uid' = uid + 1 /\ kipr' # NoObj /\ seen.kipr = NoObj
          /\ Written.st.image = NoImage /\ Written.st.ready = ""
      BY <2>1, <2>3, NewObjectFields DEF ObjectCreated
    <3>2. uid = 0 /\ uid' = 1
      <4>1. uid' = uid + 1
        BY <3>1
      <4> QED BY <1>0, <4>1
    <3>3. host.image \notin Images /\ seen.host.image \notin Images
      BY <3>2 DEF ServedInv
    <3>4. host'.image \in {host.image, NoImage}
      BY <1>4, <3>1, HostServesStep DEF Recording
    <3> QED BY <1>0, <2>1, <3>1, <3>2, <3>3, <3>4 DEF ServedInv
  <2> QED BY <1>4, <2>2, <2>3, HostWrites
<1>5. CASE ClusterEffects
  <2>1. UNCHANGED <<kipr, host, served, uid>> /\ seen'.kipr \in {seen.kipr, kipr} /\ seen'.host \in {seen.host, host}
    BY <1>5 DEF ClusterEffects
  <2> QED BY <1>0, <1>a, <2>1 DEF ServedInv
<1>6. CASE Edited
  BY <1>6 DEF Edited, ServedInv
<1> QED BY <1>1, <1>2, <1>3, <1>4, <1>5, <1>6, StepKinds

-----------------------------------------------------------------------------
(* The theorems                                                            *)

LEMMA InitInv ==
  ASSUME Init
  PROVE  /\ TypeInv /\ SettingOK /\ Lockstep /\ ServedInv
         /\ SoundSetting(left) => StatusInv
         /\ TrustedSetting(left) => GoodInv
<1>1. /\ kipr = NoObj /\ config = NoObj /\ pods = {} /\ seen.kipr = NoObj /\ seen.pods = {}
      /\ host.image = NoImage /\ seen.host.image = NoImage /\ served = NoImage /\ uid = 0
      /\ \A g \in Gens : jobs[g] = NoJob
  BY DEF Init, NoJobs
<1>2. TypeInv
  BY TypeInit
<1>3. SettingOK /\ Lockstep /\ ServedInv
  BY <1>1, PackageConstants DEF SettingOK, Lockstep, ServedInv
<1>4. (left.stale = 0 => Honest) /\ (left.blips = 0 => NoBlips)
  BY <1>1 DEF Honest, NoBlips
<1>5. SoundSetting(left) => StatusInv
  BY <1>1, <1>4 DEF SoundSetting, StatusInv, Dependable, OneObject, AllExact, Published
<1>6. TrustedSetting(left) => GoodInv
  BY <1>1, <1>4, PackageConstants DEF TrustedSetting, GoodInv, Trusted, OneObject, Good
<1> QED BY <1>2, <1>3, <1>5, <1>6

CoreInv == TypeInv /\ SettingOK /\ Lockstep

\* The state of the package references keeps its type, and every generation
\* stays within the bound (KDexInternalPackageReferencesReconciler).
THEOREM TypeCorrect == Spec => []TypeOK
<1>1. Init => TypeInv
  BY TypeInit
<1>2. TypeInv /\ [Next]_vars => TypeInv'
  BY TypeStep
<1>3. TypeInv => TypeOK
  BY DEF TypeInv
<1> QED BY <1>1, <1>2, <1>3, PTL DEF Spec

\* Views, Jobs, pods and ConfigMap hold only what the author asked for, and
\* while the object is never deleted they trail it generation by generation.
THEOREM CoreCorrect == Spec => []CoreInv
<1>1. Init => CoreInv
  BY InitInv DEF CoreInv
<1>2. CoreInv /\ [Next]_vars => CoreInv'
  BY TypeStep, SettingStep, LockstepStep DEF CoreInv
<1> QED BY <1>1, <1>2, PTL DEF Spec

\* The packages of a Ready object are the ones its current spec pins, when the
\* object is never deleted and either no build is stale or verification always
\* answers, or when every pin is exact, no build is stale and verification
\* always answers (the harvest, the verification and the status update of a pass).
\* The ConfigMap a pass renders is read as it is (createOrUpdateJobConfigMap).
THEOREM BuiltCorrect == Spec /\ SoundSetting(left) => []ReadyIsBuilt
<1>1. Init /\ SoundSetting(left) => StatusInv
  BY InitInv
<1>2. CoreInv /\ StatusInv /\ [Next]_vars => StatusInv'
  BY StatusStep DEF CoreInv
<1>3. StatusInv => ReadyIsBuilt
  BY DEF StatusInv, Published, ReadyIsBuilt
<1> QED BY <1>1, <1>2, <1>3, CoreCorrect, PTL DEF Spec

\* What a step may do to the packages Deployment.
ServedWell ==
  /\ served' # served /\ served' \in Images => Satisfies(served', served'.pin)
  /\ Recorded /\ kipr # NoObj /\ uid = 1 /\ refs # NoRefs
       => served' # NoImage /\ seen'.host.image # NoImage

\* A step that changes the served image serves a good one, and a recorded one is
\* never taken down nor forgotten.
LEMMA ServedWellStep ==
  ASSUME CoreInv, ServedInv, GoodInv', [Next]_vars
  PROVE  ServedWell
<1>0. TypeInv /\ uid \in Nat /\ NoImage \notin Images /\ Prebuilt \notin Images /\ NoImage # Prebuilt
  BY PackageConstants DEF CoreInv, TypeInv, TypeOK
<1>1. served' \in Images => Satisfies(served', served'.pin)
  BY DEF GoodInv, Good
<1>2. ASSUME Recorded, kipr # NoObj, uid = 1, refs # NoRefs
      PROVE  served' # NoImage /\ seen'.host.image # NoImage
  <2>0. served # NoImage /\ seen.host.image # NoImage /\ host.image # NoImage
    BY <1>0, <1>2 DEF Recorded, ServedInv
  <2>1. CASE Pass(seen.kipr)
    BY <2>0, <2>1 DEF Pass
  <2>2. CASE HostPinned
    BY <1>0, <2>0, <2>2 DEF HostPinned, HostStep, Serve
  <2>3. CASE HostWithout
    BY <1>2, <2>3 DEF HostWithout
  <2>4. CASE HostPackages
    <3>1. HostServes /\ seen' = seen
      BY <1>0, <2>4, HostServesStep DEF HostPackages, HostStep
    <3> QED BY <2>0, <3>1 DEF HostServes
  <2>5. CASE ClusterEffects
    BY <2>0, <2>5 DEF ClusterEffects
  <2>6. CASE Edited
    BY <2>0, <2>6 DEF Edited
  <2> QED BY <1>0, <2>1, <2>2, <2>3, <2>4, <2>5, <2>6, StepKinds
<1> QED BY <1>1, <1>2 DEF ServedWell

\* The packages Deployment moves only to an image that holds the pins it was built
\* for, and once the host's status is seen to record an image one stays served and
\* recorded while the host asks for packages of its first object, whichever later
\* status writes are lost: when no build is stale, or when verification always
\* answers and the object is never deleted (handleInternalPackageReferences).
THEOREM ServedCorrect == Spec /\ TrustedSetting(left) => KnownGoodServed
<1>1. Init /\ TrustedSetting(left) => GoodInv /\ ServedInv
  BY InitInv
<1>2. CoreInv /\ GoodInv /\ ServedInv /\ [Next]_vars => GoodInv' /\ ServedInv'
  BY GoodStep, ServedStep DEF CoreInv
<1>3. CoreInv /\ ServedInv /\ GoodInv' /\ [Next]_vars => ServedWell
  BY ServedWellStep
<1>4. [][ServedWell]_vars => KnownGoodServed
  <2>1. ServedWell =>
          /\ served' # served /\ served' \in Images => Satisfies(served', served'.pin)
          /\ Recorded /\ kipr # NoObj /\ uid = 1 /\ refs # NoRefs
               => served' # NoImage /\ seen'.host.image # NoImage
    BY DEF ServedWell
  <2> QED BY <2>1, PTL DEF KnownGoodServed
<1> QED BY <1>1, <1>2, <1>3, <1>4, CoreCorrect, PTL DEF Spec
=============================================================================
