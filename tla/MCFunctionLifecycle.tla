------------------------ MODULE MCFunctionLifecycle ------------------------
(* Small instances of FunctionLifecycle: the specs an author may apply.    *)
EXTENDS FunctionLifecycle

S(kind, rev, api) == [kind |-> kind, rev |-> rev, api |-> api, generator |-> 0,
                      inline |-> TRUE, refused |-> "no"]

\* Two images, a generated function in two versions and one that brings its
\* own generator.
DirectSpecs == {S("executable", 1, 1), S("executable", 2, 1),
                S("generate", 0, 1), S("generate", 0, 2),
                [S("generate", 0, 1) EXCEPT !.generator = 9]}
\* Source-authoritative functions, with and without a revision, the generated
\* one they were before and one that asks to regenerate.
SourceSpecs == {S("source", 1, 1), S("source", 1, 2), S("source", 0, 1),
                S("generate", 0, 1), S("regenerate", 1, 1)}
\* Sources without a builder, and accounts the host-manager refuses.
ImageSpecs == {S("generate", 0, 1), S("source", 1, 2),
               [S("source", 1, 1) EXCEPT !.refused = "build"],
               [S("source", 1, 1) EXCEPT !.inline = FALSE],
               [S("executable", 1, 1) EXCEPT !.refused = "run"]}
\* Switching to a Service and back.
BackendSpecs == {S("backend", 0, 1), S("generate", 0, 1), S("source", 1, 1)}
SettlingSpecs == {S("executable", 1, 1), S("generate", 0, 1), S("source", 1, 1),
                  S("source", 1, 2)}
UpgradeSpecs == {S("executable", 1, 1), S("source", 1, 1)}
EditedSource == {S("source", 1, 1), S("source", 2, 1)}
EditedImage == {S("executable", 1, 1), S("executable", 2, 1)}
Generated == {S("generate", 0, 1)}
FailingSpecs == {S("generate", 0, 1), S("executable", 1, 1)}
GeneratedTwice == {S("generate", 0, 1), S("generate", 0, 2)}

\* Statuses an older binary left: a state without the executable (#77), a
\* source-authoritative Ready function without a source (#136), an executable
\* or a source that had gone the way of codegen.
Left(st) == [InitStatus EXCEPT !.state = st, !.obs = 1, !.adaptor = 1, !.url = "faas"]
Built(n) == [src |-> SpecSource(S("source", 1, 1)), commit |-> n]
BuiltImage == [fgen |-> 1, src |-> SpecSource(S("source", 1, 1)), gen |-> 1,
               observed |-> 1, latest |-> Built(1), cond |-> "Ready", registry |-> 1]
Upgraded ==
    {[spec |-> S("executable", 1, 1), status |-> Left(st), kpack |-> NoKPack] :
        st \in {"ExecutableAvailable", "Ready", "BuildValid"}}
    \cup
    {[spec |-> S("source", 1, 1), status |-> Left(st), kpack |-> BuiltImage] :
        st \in {"ExecutableAvailable", "BuildValid"}}
    \cup
    {[spec |-> S("source", 1, 1), kpack |-> BuiltImage,
      status |-> [Left("Ready") EXCEPT !.executable = Built(0)]]}

\* A finished deployer Job that carries the labels and that others control.
Foreign == {[NewJob("deployer", 0, NoImage, 0, 0, 0) EXCEPT
                !.phase = "succeeded", !.owned = FALSE]}

\* A setting in which nothing happens but the first pass over one of the specs.
Quiet(specs) == [specs |-> specs, maxGen |-> 1, maxAdaptor |-> 1, broken |-> {},
                 maxRegistry |-> 1, maxBuilds |-> 0, maxFailures |-> 0, alwaysFails |-> FALSE,
                 enrolled |-> TRUE, foreign |-> {}, legacy |-> {}]

\* A Job that runs out of retries, with its pods or without.
Failing == [Quiet(FailingSpecs) EXCEPT !.maxFailures = 2]

\* A function whose label is yet to be patched, and one whose source revision
\* is edited.
HiddenEdit == {[Quiet(EditedImage) EXCEPT !.maxGen = 2, !.enrolled = FALSE]}
SourceEdit == {[Quiet(EditedSource) EXCEPT !.maxGen = 2]}

\* Edits while Jobs fail and the adaptor changes; three generations of sources;
\* broken adaptors, registry moves and commits; switching to a Service and back.
Edited ==
    {[Quiet(DirectSpecs) EXCEPT !.maxGen = 2, !.maxAdaptor = 2, !.maxFailures = 1, !.foreign = Foreign],
     [Quiet(SourceSpecs) EXCEPT !.maxGen = 3, !.maxBuilds = 1],
     [Quiet(ImageSpecs) EXCEPT !.maxGen = 2, !.maxAdaptor = 2, !.broken = {2}, !.maxRegistry = 2,
                               !.maxBuilds = 1],
     [Quiet(BackendSpecs) EXCEPT !.maxGen = 3, !.maxFailures = 1],
     Failing} \cup HiddenEdit \cup SourceEdit

\* One edit and one failure; the statuses older binaries left; an edited source.
Settling ==
    {[Quiet(SettlingSpecs) EXCEPT !.maxGen = 2, !.maxBuilds = 1, !.maxFailures = 1],
     [Quiet(UpgradeSpecs) EXCEPT !.maxAdaptor = 2, !.maxBuilds = 2, !.maxFailures = 1, !.legacy = Upgraded],
     Failing} \cup SourceEdit

\* The settings in which a comment's claim fails (HiddenEdit and SourceEdit too).
OtherInputs  == {[Quiet(Generated) EXCEPT !.maxAdaptor = 2]}
BackAgain    == {[Quiet(BackendSpecs) EXCEPT !.maxGen = 3]}
OneFailure   == {[Quiet(Generated) EXCEPT !.maxFailures = 1]}
FailureEdit  == {[Quiet(GeneratedTwice) EXCEPT !.maxGen = 2, !.maxFailures = 1]}
OnlyFailures == {[Quiet(Generated) EXCEPT !.alwaysFails = TRUE]}
=============================================================================
