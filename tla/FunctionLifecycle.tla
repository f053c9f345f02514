------------------------- MODULE FunctionLifecycle -------------------------
(***************************************************************************)
(* The build and deploy life of one KDexFunction: KDexFunctionReconciler   *)
(* in internal/controller/kdexfunction_controller.go with the Jobs of      *)
(* internal/generate and internal/deploy and the kpack Image of            *)
(* internal/build.                                                         *)
(*                                                                         *)
(* A reconcile reads the function from the informer cache (`cached', which *)
(* trails the API server's copy `fn'), runs the one handler its state      *)
(* selects, and writes the status back: the write is refused when the      *)
(* server's copy moved on (a conflict, retried) and is lost when the       *)
(* process dies after the handler's side effects.  Jobs, kpack, the        *)
(* adaptor, the Service and the author's edits are the environment.        *)
(***************************************************************************)
EXTENDS Integers, FiniteSets

CONSTANT Settings   \* the hosts and authors considered; a behaviour is of one

Nil == [from |-> "nil", rev |-> 0, api |-> 0, generator |-> 0]
NoImage == [src |-> Nil, commit |-> 0]
NoKPack == [fgen |-> 0, src |-> Nil, gen |-> 0, observed |-> 0,
            latest |-> NoImage, cond |-> "none", registry |-> 0]
Kinds == {"executable", "source", "regenerate", "generate", "backend"}
References == {"host", "secrets", "git", "observer"}
States == {"none", "Pending", "OpenAPIValid", "BuildValid", "SourceAvailable",
           "ExecutableAvailable", "FunctionDeployed", "Ready"}

FunctionSpecs == [kind : Kinds, rev : Nat, api : Nat \ {0}, generator : Nat,
                  inline : BOOLEAN, refused : {"no", "build", "run"}]

Sources == [from : {"nil", "spec", "codegen", "image"}, rev : Nat, api : Nat, generator : Nat]
Images == [src : Sources, commit : Nat]
KPacks == [fgen : Nat, src : Sources, gen : Nat, observed : Nat, latest : Images,
           cond : {"none", "Ready", "Failed"}, registry : Nat]
Conditions == {"none", "Progressing", "Degraded", "Ready"}
URLs == {"", "faas", "service"}
Statuses ==
    [state : States, obs : Nat, cond : Conditions, url : URLs, source : Sources, generator : Nat,
     executable : Images, adaptor : Nat, recApi : Nat, recGenerator : Nat]
Jobs == [app : {"codegen", "deployer"}, gen : Nat, image : Images, adaptor : Nat,
         api : Nat, generator : Nat, phase : {"running", "succeeded", "terminal"},
         failed : BOOLEAN, pods : BOOLEAN, good : BOOLEAN, owned : BOOLEAN]

SettingOK(w) ==
    /\ w.specs \subseteq FunctionSpecs
    /\ w.maxGen \in Nat \ {0} /\ w.maxAdaptor \in Nat \ {0} /\ w.maxRegistry \in Nat \ {0}
    /\ w.maxBuilds \in Nat /\ w.maxFailures \in Nat
    /\ w.alwaysFails \in BOOLEAN /\ w.enrolled \in BOOLEAN
    /\ w.broken \subseteq 1..w.maxAdaptor
    /\ w.foreign \subseteq Jobs
    /\ \A l \in w.legacy : l.spec \in w.specs /\ l.status \in Statuses /\ l.kpack \in KPacks

ASSUME SettingsAssumption == \A w \in Settings : SettingOK(w)

VARIABLES setting,  \* the member of Settings this behaviour is of
          fn,       \* the function as the API server holds it
          cached,   \* the function as the informer cache holds it
          jobs,     \* the codegen and deployer Jobs
          kpack,    \* the kpack Image, or NoKPack
          adaptor,  \* generation of the FaaS adaptor the host resolves to
          registry, \* the host's image registry
          service,  \* the Service a backend function names
          missing,  \* references that do not resolve at present
          failures  \* failures the environment has spent

lifecycle == <<setting, fn, cached, jobs, kpack, adaptor, registry, service, missing, failures>>
env == <<setting, adaptor, registry, service, missing, failures>>

Specs          == setting.specs        \* the function specs the author may apply
MaxGen         == setting.maxGen       \* bound on metadata.generation
MaxAdaptor     == setting.maxAdaptor   \* bound on the FaaS adaptor's generation
BrokenAdaptors == setting.broken       \* adaptor generations naming no usable default
MaxRegistry    == setting.maxRegistry  \* bound on moves of the host's image registry
MaxBuilds      == setting.maxBuilds    \* bound on commits kpack picks up from a branch
MaxFailures    == setting.maxFailures  \* bound on failed pods, lost pods, lost references
AlwaysFails    == setting.alwaysFails  \* every pod of every Job fails, without bound
Enrolled       == setting.enrolled     \* the function already carries the observer label
ForeignJobs    == setting.foreign      \* Jobs carrying the labels that others control
Legacy         == setting.legacy       \* functions, with their Image, left by older binaries

\* spec.origin.source as a build input: rev 0 is the empty revision.
SpecSource(s) == [from |-> "spec", rev |-> s.rev, api |-> 0, generator |-> 0]
\* What a codegen Job pushes: the commit is determined by what it ran against.
GeneratedSource(j) ==
    [from |-> "codegen", rev |-> 0, api |-> j.api, generator |-> j.generator]
\* spec.origin.executable as an image.
SpecImage(s) ==
    [src |-> [from |-> "image", rev |-> s.rev, api |-> 0, generator |-> 0],
     commit |-> 0]
Pinned(src) == src.from = "codegen" \/ (src.from = "spec" /\ src.rev # 0)
HasSource(s) == s.kind \in {"source", "regenerate"}

InitStatus == [state |-> "none", obs |-> 0, cond |-> "none", url |-> "",
               source |-> Nil, generator |-> 0, executable |-> NoImage,
               adaptor |-> 0, recApi |-> 0, recGenerator |-> 0]

Function(s, status) ==
    [spec |-> s, gen |-> 1, labelled |-> Enrolled, status |-> status]

LifecycleInit ==
    /\ setting \in Settings
    /\ \/ \E s \in Specs : fn = Function(s, InitStatus) /\ kpack = NoKPack
       \/ \E l \in Legacy : fn = Function(l.spec, l.status) /\ kpack = l.kpack
    /\ cached = fn
    /\ jobs = ForeignJobs
    /\ adaptor = 1
    /\ registry = 1
    /\ service = "ready"
    /\ missing = {}
    /\ failures = 0

-----------------------------------------------------------------------------
(* Jobs.  A Job is named by its fields app, gen, image and adaptor: a      *)
(* codegen Job by the generation only.                                     *)

NewJob(app, gen, image, a, api, g) ==
    [app |-> app, gen |-> gen, image |-> image, adaptor |-> a, api |-> api,
     generator |-> g, phase |-> "running", failed |-> FALSE, pods |-> TRUE,
     good |-> TRUE, owned |-> TRUE]
SameName(j, k) == /\ j.app = k.app /\ j.gen = k.gen
                  /\ j.image = k.image /\ j.adaptor = k.adaptor
\* job.Status.Succeeded == 0 && job.Status.Failed == 0
Waiting(j) == j.phase = "running" /\ ~j.failed

\* generate.GetOrCreateGenerateJob: the Job a handler's function asks for.
GenerateJob(f, m) ==
    NewJob("codegen", f.gen, NoImage, 0, f.spec.api, m.generator)
\* deploy.Deploy, deploy.JobName
DeployJob(f, m) == NewJob("deployer", f.gen, m.executable, m.adaptor, 0, 0)
\* Get by name, or Create: the Job the handler then looks at.
Obtained(new) ==
    IF \E j \in jobs : SameName(j, new)
      THEN CHOOSE j \in jobs : SameName(j, new) ELSE new

\* Mutant: the sweep does not ask whether the Job finished.
ObsoleteAny(app, gen, keep) ==
    {j \in jobs : /\ j.app = app /\ j.owned
                  /\ j.gen # gen \/ (keep # {} /\ \A k \in keep : ~SameName(j, k))}

\* cleanupJobs: the Jobs one call deletes; keep = {} is the empty keep.
Obsolete(app, gen, keep) ==
    {j \in jobs : /\ j.app = app /\ j.owned /\ ~Waiting(j)
                  /\ j.gen # gen \/ (keep # {} /\ \A k \in keep : ~SameName(j, k))}

-----------------------------------------------------------------------------
(* What Reconcile does to the status before it dispatches.                 *)

\* codegenInputsChanged and shouldSkipCodegen
CodegenInputsChanged(s, m) == s.api # m.recApi \/ m.generator # m.recGenerator
ShouldSkipCodegen(s, m) ==
    s.kind = "source" /\ (m.recApi = 0 \/ ~CodegenInputsChanged(s, m))

\* Mutant: only a function never seen before starts over.
EnteredOnce(f) ==
    [f.status EXCEPT !.state = IF f.status.obs = 0 THEN "Pending" ELSE @,
                     !.cond = "Progressing"]

\* A newer generation restarts the life; every pass pulses Reconciling.
Entered(f) ==
    [f.status EXCEPT !.state = IF f.status.obs < f.gen THEN "Pending" ELSE @,
                     !.cond = "Progressing"]
\* The adaptor's generation moved since the last pass that recorded it.
Adapted(m) ==
    [m EXCEPT !.state = IF m.adaptor \notin {0, adaptor} THEN "OpenAPIValid" ELSE @,
              !.adaptor = adaptor]
\* kpack built an image the function does not run.
Drifted(s, m) ==
    /\ s.kind # "executable" /\ m.source # Nil /\ m.state = "Ready"
    /\ kpack.latest # NoImage /\ m.executable \notin {NoImage, kpack.latest}
\* Mutant: the edge trigger on a Ready function is missing.
StaleNever(s, m) == FALSE

\* The codegen inputs moved under a Ready function.
Stale(s, m) == m.state = "Ready" /\ HasSource(s) /\ ~ShouldSkipCodegen(s, m)

Loaded ==
    LET a == Adapted(Entered(cached))
        d == IF Drifted(cached.spec, a) THEN [a EXCEPT !.state = "SourceAvailable"] ELSE a
    IN  IF Stale(cached.spec, d) THEN [d EXCEPT !.state = "BuildValid"] ELSE d

Origin == cached.spec.kind # "backend"
\* Reconcile reaches the handler of state st.
At(st) == Origin /\ missing \cap {"host", "secrets"} = {} /\ Loaded.state = st

\* The deferred status write: refused on a conflict, lost on a crash.
Write(lost, m) ==
    fn' = IF lost \/ cached # fn THEN fn
          ELSE [fn EXCEPT !.status = [m EXCEPT !.obs = cached.gen]]
Moved(m, st) == [m EXCEPT !.state = st]

Degraded(m) == [m EXCEPT !.cond = "Degraded"]

\* A host or secret that does not resolve ends the pass with its condition.
ReferenceMissing(lost) ==
    /\ Origin
    /\ \/ "host" \in missing /\ Write(lost, Degraded(Entered(cached)))
       \/ /\ "host" \notin missing /\ "secrets" \in missing
          /\ Write(lost, Degraded(Adapted(Entered(cached))))
    /\ UNCHANGED <<cached, jobs, kpack, env>>

HandlePending(lost) ==
    /\ At("Pending")
    /\ Write(lost, Moved(Loaded, "OpenAPIValid"))
    /\ UNCHANGED <<cached, jobs, kpack, env>>

\* The generator of the spec, or the adaptor's default (its generation here).
ResolvedGenerator == IF cached.spec.generator # 0 THEN cached.spec.generator ELSE adaptor

HandleOpenAPIValid(lost) ==
    /\ At("OpenAPIValid")
    /\ LET s == cached.spec  m == Loaded IN
       \/ /\ s.kind = "executable"
          /\ Write(lost, [m EXCEPT !.executable = SpecImage(s),
                                   !.state = "ExecutableAvailable"])
       \/ s.kind = "source" /\ Write(lost, Moved(m, "SourceAvailable"))
       \/ /\ s.kind \in {"regenerate", "generate"}
          /\ IF s.generator = 0 /\ adaptor \in BrokenAdaptors
               THEN Write(lost, Degraded(m))
               ELSE Write(lost, [m EXCEPT !.generator = ResolvedGenerator,
                                          !.state = "BuildValid"])
    /\ UNCHANGED <<cached, jobs, kpack, env>>

-----------------------------------------------------------------------------
(* handleBuildValid                                                        *)

BuildValidDirect(lost) ==
    /\ At("BuildValid")
    /\ LET s == cached.spec  m == Loaded IN
       \/ /\ s.kind = "executable"
          /\ Write(lost, [m EXCEPT !.executable = SpecImage(s),
                                   !.state = "ExecutableAvailable"])
       \/ /\ ShouldSkipCodegen(s, m)
          /\ Write(lost, [m EXCEPT !.source = IF Pinned(@) THEN @ ELSE SpecSource(s),
                                   !.state = "SourceAvailable"])
    /\ UNCHANGED <<cached, jobs, kpack, env>>

\* The pass needs a codegen Job.
NeedsCodegen ==
    /\ At("BuildValid") /\ cached.spec.kind # "executable"
    /\ ~ShouldSkipCodegen(cached.spec, Loaded)

NoGitSecret(lost) ==
    /\ NeedsCodegen /\ "git" \in missing
    /\ Write(lost, Degraded(Loaded))
    /\ UNCHANGED <<cached, jobs, kpack, env>>

\* *hc.function.Status.Generator on a nil pointer: the panic is recovered by
\* the controller's worker, and the deferred status write still happens.
NoGeneratorRecorded == NeedsCodegen /\ "git" \notin missing /\ Loaded.generator = 0
NilGenerator(lost) ==
    /\ NoGeneratorRecorded
    /\ Write(lost, Loaded)
    /\ UNCHANGED <<cached, jobs, kpack, env>>

Codegen == NeedsCodegen /\ "git" \notin missing /\ Loaded.generator # 0
CodegenJob == Obtained(GenerateJob(cached, Loaded))

\* Waiting on the Job, which this pass may just have created.
CodegenWait(lost) ==
    /\ Codegen /\ Waiting(CodegenJob)
    /\ jobs' = (jobs \cup {CodegenJob}) \ Obsolete("codegen", cached.gen, {})
    /\ Write(lost, Loaded)
    /\ UNCHANGED <<cached, kpack, env>>

\* The termination message the handler may read.  A Job with a failed pod has
\* several pods and the first listed is read: a failed or a retrying pod
\* carries no result.
Readable(j) == j.phase = "succeeded" /\ j.good
Unreadable(j) == ~Readable(j) \/ j.failed

\* No pod of the Job is left, or its message does not parse: the Job is
\* deleted and the next pass creates it again.
DropJob(lost, j) ==
    /\ \/ ~j.pods
       \/ j.pods /\ j.phase # "terminal" /\ Unreadable(j)
    /\ jobs' = jobs \ {j}
    /\ Write(lost, Degraded(Loaded))

CodegenDrop(lost) ==
    /\ Codegen /\ ~Waiting(CodegenJob)
    /\ DropJob(lost, CodegenJob)
    /\ UNCHANGED <<cached, kpack, env>>

\* isCodegenJobTerminal, markCodegenJobTerminallyFailed
CodegenTerminal(lost) ==
    /\ Codegen /\ CodegenJob.pods /\ CodegenJob.phase = "terminal"
    /\ Write(lost, Degraded(Loaded))
    /\ UNCHANGED <<cached, jobs, kpack, env>>

\* The result becomes the build pin and its inputs are recorded; an adaptor
\* naming no usable default drops the Job after that.
CodegenDone(lost) ==
    /\ Codegen /\ CodegenJob.pods /\ Readable(CodegenJob)
    /\ LET j == CodegenJob
           m == [Loaded EXCEPT !.source = GeneratedSource(j),
                               !.recApi = cached.spec.api,
                               !.recGenerator = Loaded.generator]
       IN  IF adaptor \in BrokenAdaptors
             THEN jobs' = jobs \ {j} /\ Write(lost, Degraded(m))
             ELSE UNCHANGED jobs /\ Write(lost, Moved(m, "SourceAvailable"))
    /\ UNCHANGED <<cached, kpack, env>>

-----------------------------------------------------------------------------
(* handleSourceAvailable and build.GetOrCreateKPackImage                   *)

\* The source to build: the spec's, pinned by the status when it can.
BuildSource(s, m) ==
    IF Pinned(m.source) THEN m.source ELSE IF HasSource(s) THEN SpecSource(s) ELSE Nil

SourceExecutable(lost) ==
    /\ At("SourceAvailable") /\ cached.spec.kind = "executable"
    /\ Write(lost, [Loaded EXCEPT !.executable = SpecImage(cached.spec),
                                  !.state = "ExecutableAvailable"])
    /\ UNCHANGED <<cached, jobs, kpack, env>>

\* No source, no builder, or a build account the host-manager refuses.
SourceRefused ==
    \/ BuildSource(cached.spec, Loaded) = Nil
    \/ ~(HasSource(cached.spec) /\ cached.spec.inline) /\ adaptor \in BrokenAdaptors
    \/ HasSource(cached.spec) /\ cached.spec.inline /\ cached.spec.refused = "build"
SourceUnbuildable(lost) ==
    /\ At("SourceAvailable") /\ cached.spec.kind # "executable" /\ SourceRefused
    /\ Write(lost, Degraded(Loaded))
    /\ UNCHANGED <<cached, jobs, kpack, env>>

Buildable ==
    At("SourceAvailable") /\ cached.spec.kind # "executable" /\ ~SourceRefused

\* CreateOrPatch: the Image as the API server holds it afterwards.
Patched ==
    LET src == BuildSource(cached.spec, Loaded)  k == kpack IN
    IF k.src = src /\ k.fgen = cached.gen THEN k
    ELSE [k EXCEPT !.src = src, !.fgen = cached.gen, !.gen = @ + 1, !.registry = registry]

\* The tag is immutable: an Image under another registry is deleted.
ImageImmutable(lost) ==
    /\ Buildable /\ kpack # NoKPack /\ kpack.registry # registry
    /\ kpack' = NoKPack
    /\ Write(lost, Loaded)
    /\ UNCHANGED <<cached, jobs, env>>

\* inspectKPackImageStatus: a failure of any generation is a failure, a
\* success counts once kpack observed the current one.
ImageInspect(lost) ==
    /\ Buildable /\ (kpack = NoKPack \/ kpack.registry = registry)
    /\ kpack' = Patched
    /\ LET m == Loaded IN
       \/ Patched.cond = "Failed" /\ Write(lost, Degraded(m))
       \/ /\ Patched.cond # "Failed"
          /\ ~(Patched.cond = "Ready" /\ Patched.observed >= Patched.gen)
          /\ Write(lost, m)
       \/ /\ Patched.cond = "Ready" /\ Patched.observed >= Patched.gen
          /\ Write(lost, [m EXCEPT !.executable = Patched.latest,
                                   !.state = "ExecutableAvailable"])
    /\ UNCHANGED <<cached, jobs, env>>

-----------------------------------------------------------------------------
(* handleExecutableAvailable                                               *)

\* status.executable went missing: take it from the spec, or step back.
ExecutableHeal(lost) ==
    /\ At("ExecutableAvailable") /\ Loaded.executable = NoImage
    /\ IF cached.spec.kind = "executable"
         THEN Write(lost, [Loaded EXCEPT !.executable = SpecImage(cached.spec)])
         ELSE Write(lost, Moved(Loaded, "OpenAPIValid"))
    /\ UNCHANGED <<cached, jobs, kpack, env>>

DeployRefused(lost) ==
    /\ At("ExecutableAvailable") /\ Loaded.executable # NoImage
    /\ cached.spec.refused = "run"
    /\ Write(lost, Degraded(Loaded))
    /\ UNCHANGED <<cached, jobs, kpack, env>>

Deploying ==
    /\ At("ExecutableAvailable") /\ Loaded.executable # NoImage
    /\ cached.spec.refused # "run"
DeployerJob == Obtained(DeployJob(cached, Loaded))

DeployWait(lost) ==
    /\ Deploying /\ Waiting(DeployerJob)
    /\ jobs' = (jobs \cup {DeployerJob})
                 \ Obsolete("deployer", cached.gen, {DeployerJob})
    /\ Write(lost, Loaded)
    /\ UNCHANGED <<cached, kpack, env>>

DeployDrop(lost) ==
    /\ Deploying /\ ~Waiting(DeployerJob)
    /\ DropJob(lost, DeployerJob)
    /\ UNCHANGED <<cached, kpack, env>>

DeployTerminal(lost) ==
    /\ Deploying /\ DeployerJob.pods /\ DeployerJob.phase = "terminal"
    /\ jobs' = jobs \ Obsolete("deployer", cached.gen, {DeployerJob})
    /\ Write(lost, Degraded(Loaded))
    /\ UNCHANGED <<cached, kpack, env>>

DeployDone(lost) ==
    /\ Deploying /\ DeployerJob.pods /\ Readable(DeployerJob)
    /\ Write(lost, [Loaded EXCEPT !.url = "faas", !.state = "FunctionDeployed"])
    /\ UNCHANGED <<cached, jobs, kpack, env>>

-----------------------------------------------------------------------------
(* handleFunctionDeployed, handleReady and deploy.Observe                  *)

\* markObserved patches the label when the copy in hand lacks it, and the
\* server's answer, whatever has happened to the function meanwhile, replaces
\* that copy: its generation, its status and its resource version.
Enrolling == ~cached.labelled
Observed == IF Enrolling THEN [fn EXCEPT !.labelled = TRUE]
            ELSE [cached EXCEPT !.status = Loaded]

\* The status write of a pass that called Observe.
WriteObserved(lost, m) ==
    fn' = CASE Enrolling /\ lost -> Observed
            [] Enrolling /\ ~lost ->
                 [Observed EXCEPT !.status = [m EXCEPT !.obs = Observed.gen]]
            [] OTHER -> IF lost \/ cached # fn THEN fn
                        ELSE [fn EXCEPT !.status = [m EXCEPT !.obs = cached.gen]]

\* A source that a Ready function lost is taken from the spec.
ReadyHeals(m) ==
    \/ m.executable = NoImage
    \/ HasSource(cached.spec) /\ m.source = Nil
ReadyHeal(lost) ==
    /\ At("Ready") /\ ReadyHeals(Loaded)
    /\ IF Loaded.executable = NoImage
         THEN Write(lost, Moved(Loaded, "SourceAvailable"))
         ELSE Write(lost, [Loaded EXCEPT !.source = SpecSource(cached.spec)])
    /\ UNCHANGED <<cached, jobs, kpack, env>>

Observing == At("FunctionDeployed") \/ (At("Ready") /\ ~ReadyHeals(Loaded))
ObserveFails(lost) ==
    /\ Observing /\ "observer" \in missing
    /\ WriteObserved(lost, Degraded(Observed.status))
    /\ UNCHANGED <<cached, jobs, kpack, env>>

\* The function is Ready; a pass that found it so sweeps the deployer Jobs.
Observe(lost) ==
    /\ Observing /\ "observer" \notin missing
    /\ WriteObserved(lost, [Observed.status EXCEPT !.state = "Ready", !.cond = "Ready"])
    /\ jobs' = IF At("Ready")
                 THEN jobs \ Obsolete("deployer", Observed.gen,
                                      {DeployJob(Observed, Observed.status)})
                 ELSE jobs
    /\ UNCHANGED <<cached, kpack, env>>

-----------------------------------------------------------------------------
(* reconcileServiceBacked and markBackendUnready                           *)

ServiceBacked(lost) ==
    /\ ~Origin
    /\ LET m == cached.status IN
       \/ /\ service \in {"missing", "badport"}
          /\ Write(lost, [m EXCEPT !.url = "", !.state = "OpenAPIValid", !.cond = "Degraded"])
       \/ service = "idle" /\ Write(lost, [m EXCEPT !.cond = "Progressing"])
       \/ /\ service = "ready"
          /\ Write(lost, [m EXCEPT !.executable = NoImage, !.generator = 0, !.source = Nil,
                                   !.url = "service", !.state = "Ready", !.cond = "Ready"])
    /\ UNCHANGED <<cached, jobs, kpack, env>>

\* One pass of Reconcile; lost: the process dies before the status write.
Reconcile(lost) ==
    \/ ReferenceMissing(lost) \/ HandlePending(lost) \/ HandleOpenAPIValid(lost)
    \/ BuildValidDirect(lost) \/ NoGitSecret(lost) \/ NilGenerator(lost)
    \/ CodegenWait(lost) \/ CodegenDrop(lost) \/ CodegenTerminal(lost) \/ CodegenDone(lost)
    \/ SourceExecutable(lost) \/ SourceUnbuildable(lost)
    \/ ImageImmutable(lost) \/ ImageInspect(lost)
    \/ ExecutableHeal(lost) \/ DeployRefused(lost)
    \/ DeployWait(lost) \/ DeployDrop(lost) \/ DeployTerminal(lost) \/ DeployDone(lost)
    \/ ReadyHeal(lost) \/ ObserveFails(lost) \/ Observe(lost)
    \/ ServiceBacked(lost)

-----------------------------------------------------------------------------
(* The environment.                                                        *)

\* The informer delivers the server's copy.
CacheSync ==
    /\ cached # fn
    /\ cached' = fn
    /\ UNCHANGED <<fn, jobs, kpack, env>>

\* The author applies another spec.
Edit ==
    /\ fn.gen < MaxGen
    /\ \E s \in Specs \ {fn.spec} : fn' = [fn EXCEPT !.spec = s, !.gen = @ + 1]
    /\ UNCHANGED <<cached, jobs, kpack, env>>

AdaptorEdit ==
    /\ adaptor < MaxAdaptor
    /\ adaptor' = adaptor + 1
    /\ UNCHANGED <<setting, fn, cached, jobs, kpack, registry, service, missing, failures>>

RegistryEdit ==
    /\ registry < MaxRegistry
    /\ registry' = registry + 1
    /\ UNCHANGED <<setting, fn, cached, jobs, kpack, adaptor, service, missing, failures>>

ServiceChange ==
    /\ \E s \in Specs : s.kind = "backend"
    /\ \E s \in {"ready", "idle", "missing", "badport"} \ {service} : service' = s
    /\ UNCHANGED <<setting, fn, cached, jobs, kpack, adaptor, registry, missing, failures>>

CanFail == AlwaysFails \/ failures < MaxFailures
Spend == failures' = IF AlwaysFails THEN failures ELSE failures + 1

Lose ==
    /\ ~AlwaysFails /\ CanFail /\ Spend
    /\ \E r \in References \ missing : missing' = missing \cup {r}
    /\ UNCHANGED <<setting, fn, cached, jobs, kpack, adaptor, registry, service>>

Restore ==
    /\ \E r \in missing : missing' = missing \ {r}
    /\ UNCHANGED <<setting, fn, cached, jobs, kpack, adaptor, registry, service, failures>>

Becomes(j, k) == jobs' = (jobs \ {j}) \cup {k}

\* A pod of the Job fails and the Job controller starts another.
PodFails ==
    /\ CanFail /\ Spend
    /\ \E j \in jobs : Waiting(j) /\ Becomes(j, [j EXCEPT !.failed = TRUE])
    /\ UNCHANGED <<setting, fn, cached, kpack, adaptor, registry, service, missing>>

\* The retries are spent, or the deadline passes and takes the pods along.
JobFails ==
    /\ CanFail /\ Spend
    /\ \E j \in jobs, kept \in BOOLEAN :
         /\ j.phase = "running" /\ (kept => j.failed)
         /\ Becomes(j, [j EXCEPT !.phase = "terminal", !.failed = TRUE, !.pods = kept])
    /\ UNCHANGED <<setting, fn, cached, kpack, adaptor, registry, service, missing>>

\* The Job completes and reports its result.
JobSucceeds ==
    /\ ~AlwaysFails
    /\ \E j \in jobs : j.phase = "running" /\ Becomes(j, [j EXCEPT !.phase = "succeeded"])
    /\ UNCHANGED <<fn, cached, kpack, env>>

\* It completes without one, or the pods of a finished Job are removed.
ResultLost ==
    /\ ~AlwaysFails /\ CanFail /\ Spend
    /\ \E j \in jobs :
         \/ j.phase = "running" /\ Becomes(j, [j EXCEPT !.phase = "succeeded", !.good = FALSE])
         \/ j.phase # "running" /\ j.pods /\ Becomes(j, [j EXCEPT !.pods = FALSE])
    /\ UNCHANGED <<setting, fn, cached, kpack, adaptor, registry, service, missing>>

\* The operator removes a failed Job after looking at it.
OperatorDeletes ==
    /\ \E j \in jobs : j.owned /\ j.phase = "terminal" /\ jobs' = jobs \ {j}
    /\ UNCHANGED <<fn, cached, kpack, env>>

\* kpack builds the source it is given, or the next commit of its branch.
KPackBuilds ==
    /\ kpack # NoKPack
    /\ LET moved == kpack.observed < kpack.gen \/ kpack.cond = "Failed"
           commit == IF kpack.latest.src = kpack.src THEN kpack.latest.commit ELSE 0
       IN  \/ /\ moved
              /\ kpack' = [kpack EXCEPT !.observed = kpack.gen, !.cond = "Ready",
                                        !.latest = [src |-> kpack.src, commit |-> commit]]
           \/ /\ kpack.src.from = "spec" /\ commit < MaxBuilds
              /\ kpack' = [kpack EXCEPT !.observed = kpack.gen, !.cond = "Ready",
                                        !.latest = [src |-> kpack.src, commit |-> commit + 1]]
    /\ UNCHANGED <<fn, cached, jobs, env>>

KPackFails ==
    /\ kpack # NoKPack /\ ~AlwaysFails /\ CanFail /\ Spend
    /\ kpack' = [kpack EXCEPT !.cond = "Failed"]
    /\ UNCHANGED <<setting, fn, cached, jobs, adaptor, registry, service, missing>>

Environment ==
    \/ CacheSync \/ Edit \/ AdaptorEdit \/ RegistryEdit \/ ServiceChange
    \/ Lose \/ Restore \/ PodFails \/ JobFails \/ JobSucceeds \/ ResultLost
    \/ OperatorDeletes \/ KPackBuilds \/ KPackFails

LifecycleNext == Environment \/ \E lost \in BOOLEAN : Reconcile(lost)

LifecycleSpec == LifecycleInit /\ [][LifecycleNext]_lifecycle

\* Passes keep coming (watch events, requeues, the informer's resync), the
\* informer catches up, running Jobs and kpack builds end, references return.
FairSpec ==
    /\ LifecycleSpec
    /\ WF_lifecycle(Reconcile(FALSE)) /\ WF_lifecycle(CacheSync) /\ WF_lifecycle(Restore)
    /\ WF_lifecycle(JobSucceeds) /\ WF_lifecycle(KPackBuilds)
    /\ WF_lifecycle(PodFails /\ AlwaysFails) /\ WF_lifecycle(JobFails /\ AlwaysFails)

-----------------------------------------------------------------------------
(* Properties.                                                             *)

Functions == [spec : Specs, gen : 1..MaxGen, labelled : BOOLEAN, status : Statuses]

\* The type of the state.
TypeOK ==
    /\ fn \in Functions /\ cached \in Functions
    /\ jobs \subseteq Jobs
    /\ kpack \in KPacks
    /\ adaptor \in 1..MaxAdaptor /\ registry \in 1..MaxRegistry
    /\ service \in {"ready", "idle", "missing", "badport"}
    /\ missing \subseteq References /\ failures \in 0..MaxFailures

\* The recorded codegen inputs are the ones the pinned commit was generated
\* from (recordCodegenInputs).
InputsRecorded ==
    fn.status.source.from = "codegen" =>
        /\ fn.status.recApi = fn.status.source.api
        /\ fn.status.recGenerator = fn.status.source.generator

\* A Ready function whose current generation has been observed runs what its
\* spec asks for: the executable it names; an image built from a commit generated
\* for its API; an image built from the source its status pins, or from its own
\* while nothing is pinned (an older pin survives an edit: SourceIsAuthoritative);
\* or the Service it names (a change deploys again, deploy.JobName).
ReadyIsCurrent ==
    LET s == fn.spec  m == fn.status IN
    (m.state = "Ready" /\ m.obs = fn.gen) =>
        /\ s.kind = "executable" => m.executable = SpecImage(s)
        /\ s.kind \in {"source", "regenerate", "generate"} => m.executable.src = BuildSource(s, m)
        /\ s.kind \in {"regenerate", "generate"} => m.source.from = "codegen" /\ m.source.api = s.api
        /\ s.kind = "backend" /\ m.cond = "Ready" => m.url = "service" /\ m.executable = NoImage

\* A function that already carries the observer label is never Ready on
\* anything but what its observed spec asks for, a source being taken at the
\* revision the status pins (deploy.JobName, handleReady).
ServesTheSpec == Enrolled => ReadyIsCurrent

\* Source mode treats the source as authoritative (sourceRegenerate): a Ready
\* function that never ran codegen runs an image built from the spec's source.
SourceIsAuthoritative ==
    (/\ fn.status.state = "Ready" /\ fn.status.obs = fn.gen
     /\ fn.spec.kind = "source" /\ fn.status.recApi = 0) =>
        fn.status.executable.src = SpecSource(fn.spec)

\* No pass dereferences the generator of a status that has none
\* (handleBuildValid).
GeneratorKnown == ~NoGeneratorRecorded

Deleted(j) == \A k \in jobs' : ~SameName(j, k)

\* No pass deletes a Job whose first pod is still at work, or a Job another
\* object controls (cleanupJobs), however stale the function it works from.
ActiveJobKept == [][\A j \in jobs : Waiting(j) \/ ~j.owned => ~Deleted(j)]_lifecycle

\* The Job the pass is looking at.
Examined(j) == (Codegen /\ j = CodegenJob) \/ (Deploying /\ j = DeployerJob)

\* A Job that ran out of retries stays for the operator: no pass deletes the
\* one it examines (isCodegenJobTerminal, #27).
TerminalJobKept ==
    [][OperatorDeletes \/
       \A j \in jobs : (j.phase = "terminal" /\ Examined(j)) => ~Deleted(j)]_lifecycle

\* The sweep never deletes a running Job (cleanupJobs).
RunningJobKept ==
    [][\A j \in jobs : (j.phase = "running" /\ ~Examined(j)) => ~Deleted(j)]_lifecycle

\* The function runs its spec's executable or the last image kpack built for
\* it, generated from its API when it is generated.
Current ==
    /\ fn.status.state = "Ready" /\ fn.status.cond = "Ready" /\ fn.status.obs = fn.gen
    /\ IF fn.spec.kind = "executable" THEN fn.status.executable = SpecImage(fn.spec)
       ELSE /\ kpack # NoKPack => fn.status.executable = kpack.latest
            /\ fn.status.source.from = "codegen" => fn.status.source.api = fn.spec.api
\* Or a Job that exhausted its retries awaits the operator.
AwaitsOperator ==
    fn.status.cond = "Degraded" /\ \E j \in jobs : j.phase = "terminal" /\ Examined(j)

\* Once edits and faults end, every function comes to rest: Ready on what its
\* spec asks for, or Degraded on a Job that exhausted its retries (Reconcile).
Settles == <>[](Current \/ AwaitsOperator)

\* When every pod of its Job fails, the function ends up Degraded instead of
\* being reported as still building (handleBuildValid, #27).
FailureSurfaces == <>[](fn.status.cond = "Degraded")
=============================================================================
