----------------------------- MODULE ClientRegistry -----------------------------
(***************************************************************************)
(* The registry of every client id a host has ever had configured, and the *)
(* veto each Exchanger takes from it (client_registry.go, subject_kind.go).*)
(*                                                                         *)
(* The operator edits the set of configured clients.  Each replica, in its *)
(* own time, builds an Exchanger for the configuration it sees: it reads   *)
(* its clock once, reads the registry, merges (atomically, if anything     *)
(* changes) and only then serves the new Exchanger, which keeps the merged *)
(* registry as a snapshot.  Meanwhile the old Exchanger, and the peers',   *)
(* go on minting and accepting credentials.                                *)
(***************************************************************************)
EXTENDS Integers, FiniteSets

CONSTANTS
    Names,      \* subjects: client ids and user names share one namespace
    Replicas,
    MaxSkew,    \* how far a replica's clock may run ahead
    Legacy,     \* may there be credentials from before kinds were recorded?
    MaxTime, MaxEdits, MaxCreds

ASSUME RegistryAssumption ==
    MaxSkew \in Nat /\ Legacy \in BOOLEAN /\ MaxTime \in Nat

VARIABLES
    time, skew,
    config,     \* the operator's set of clients
    edits,
    staged,     \* history: was every edit made once all replicas served the last?
    registry,   \* the stored client registry
    build,      \* per replica: the Exchanger being built
    serving,    \* per replica: the Exchanger in service
    creds       \* credentials in circulation (owner and epoch: history)

registryVars == <<time, skew, config, edits, staged, registry, build, serving, creds>>

Empty == [n \in {} |-> 0]
NoBuild == [pc |-> "idle", conf |-> {}, at |-> 0, reg |-> Empty]

Clock(r) == time + skew[r]
Max2(a, b) == IF a >= b THEN a ELSE b

(***************************************************************************)
(* mergeClientRegistry.                                                    *)
(***************************************************************************)

\* Slip: a re-added client keeps the cutoff of its removal.
MergedKeepingCutoff(have, ids, at) ==
    [n \in ids \cup DOMAIN have |->
        IF n \notin DOMAIN have THEN [present |-> TRUE, removedAt |-> 0, epoch |-> 1]
        ELSE IF n \in ids /\ ~have[n].present
             THEN [have[n] EXCEPT !.present = TRUE, !.epoch = @ + 1]
        ELSE IF n \notin ids /\ have[n].present
             THEN [have[n] EXCEPT !.present = FALSE, !.removedAt = Max2(@, at)]
        ELSE have[n]]

\* A new id is present; one that left or came back is stamped, never backwards;
\* the rest keep their record, and no record is dropped.
Merged(have, ids, at) ==
    [n \in ids \cup DOMAIN have |->
        IF n \notin DOMAIN have THEN [present |-> TRUE, removedAt |-> 0, epoch |-> 1]
        ELSE IF have[n].present = (n \in ids) THEN have[n]
        ELSE [present |-> n \in ids, removedAt |-> Max2(have[n].removedAt, at),
              epoch |-> IF n \in ids THEN have[n].epoch + 1 ELSE have[n].epoch]]

(***************************************************************************)
(* The veto of the Exchanger replica r serves.                             *)
(***************************************************************************)

\* Slip: only the clients configured now are looked at.
NamesConfigured(r, n) == n \in serving[r].conf

NamesClient(r, n) == n \in DOMAIN serving[r].reg

IsConfiguredClient(r, n) == n \in serving[r].conf

\* The kind a credential recorded, or, when it records none, its sub's kind.
kindOrLegacy(r, c) ==
    IF c.kind # "none" THEN c.kind ELSE IF NamesClient(r, c.sub) THEN "Client" ELSE "User"

vetoClient(r, c) ==
    \/ ~IsConfiguredClient(r, c.sub)
    \/ LET removedAt == serving[r].reg[c.sub].removedAt IN removedAt > 0 /\ c.iat <= removedAt

vetoUser(r, c) == NamesClient(r, c.sub)

VetoCredential(r, c) == IF kindOrLegacy(r, c) = "Client" THEN vetoClient(r, c) ELSE vetoUser(r, c)

Accepts(r, c) == ~VetoCredential(r, c)

(***************************************************************************)
(* Behaviour.                                                              *)
(***************************************************************************)

\* Every replica serves a first configuration, which the registry has recorded,
\* with credentials from before kinds were recorded: a configured client's, or a
\* user's no client was named like.
RegistryInit ==
    /\ time = 1 /\ edits = 0 /\ staged = TRUE
    /\ skew \in [Replicas -> 0..MaxSkew]
    /\ config \in SUBSET Names
    /\ registry = Merged(Empty, config, 1)
    /\ build = [r \in Replicas |-> NoBuild]
    /\ serving = [r \in Replicas |-> [conf |-> config, reg |-> registry]]
    /\ creds \in IF Legacy
                 THEN SUBSET {[sub |-> n, owner |-> IF n \in config THEN "Client" ELSE "User",
                               kind |-> "none", iat |-> 0, epoch |-> 1] : n \in Names}
                 ELSE {{}}

TimePasses ==
    /\ time < MaxTime
    /\ time' = time + 1
    /\ UNCHANGED <<skew, config, edits, staged, registry, build, serving, creds>>

\* The operator adds or removes a client.
Edit(n) ==
    /\ edits < MaxEdits /\ edits' = edits + 1
    /\ config' = IF n \in config THEN config \ {n} ELSE config \cup {n}
    /\ staged' = (staged /\ \A r \in Replicas : build[r] = NoBuild /\ serving[r].conf = config)
    /\ UNCHANGED <<time, skew, registry, build, serving, creds>>

\* loadClientRegistry, fast path: one Get, and nothing to write if the stored
\* registry already reflects this configuration.
BuildRead(r) ==
    /\ build[r].pc = "idle" /\ serving[r].conf # config
    /\ build' = [build EXCEPT ![r] =
                   [pc |-> IF DOMAIN registry # {} /\ Merged(registry, config, Clock(r)) = registry
                           THEN "swap" ELSE "update",
                    conf |-> config, at |-> Clock(r), reg |-> registry]]
    /\ UNCHANGED <<time, skew, config, edits, staged, registry, serving, creds>>

\* ... else the atomic Update: the merge of what is stored by then, at the time
\* read when the load began.
BuildUpdate(r) ==
    /\ build[r].pc = "update"
    /\ registry' = Merged(registry, build[r].conf, build[r].at)
    /\ build' = [build EXCEPT ![r].pc = "swap", ![r].reg = registry']
    /\ UNCHANGED <<time, skew, config, edits, staged, serving, creds>>

\* The registry cannot be read or written in time: the build fails and the old
\* Exchanger keeps serving.
BuildFail(r) ==
    /\ build[r].pc # "idle"
    /\ build' = [build EXCEPT ![r] = NoBuild]
    /\ UNCHANGED <<time, skew, config, edits, staged, registry, serving, creds>>

\* The new Exchanger, with its snapshot of the registry, is put in service.
Swap(r) ==
    /\ build[r].pc = "swap"
    /\ serving' = [serving EXCEPT ![r] = [conf |-> build[r].conf, reg |-> build[r].reg]]
    /\ build' = [build EXCEPT ![r] = NoBuild]
    /\ UNCHANGED <<time, skew, config, edits, staged, registry, creds>>

Issue(c) ==
    /\ Cardinality(creds) < MaxCreds
    /\ creds' = creds \cup {c}
    /\ UNCHANGED <<time, skew, config, edits, staged, registry, build, serving>>

\* LoginClient: a configured client authenticates and gets a Client credential.
IssueClient(r, n) ==
    /\ IsConfiguredClient(r, n)
    /\ Issue([sub |-> n, owner |-> "Client", kind |-> "Client", iat |-> Clock(r),
              epoch |-> serving[r].reg[n].epoch])

\* A user signs in, refused when named like a client (refuseClientNamedIdentity).
IssueUser(r, n) ==
    /\ ~NamesClient(r, n)
    /\ Issue([sub |-> n, owner |-> "User", kind |-> "User", iat |-> Clock(r), epoch |-> 1])

RegistryNext ==
    \/ TimePasses
    \/ \E n \in Names : Edit(n)
    \/ \E r \in Replicas : BuildRead(r) \/ BuildUpdate(r) \/ BuildFail(r) \/ Swap(r)
    \/ \E r \in Replicas, n \in Names : IssueClient(r, n) \/ IssueUser(r, n)

RegistrySpec == RegistryInit /\ [][RegistryNext]_registryVars

(***************************************************************************)
(* Properties.                                                             *)
(***************************************************************************)

ClientRecord == [present : BOOLEAN, removedAt : Nat, epoch : Nat]
Registries == UNION {[ids -> ClientRecord] : ids \in SUBSET Names}
Credentials == [sub : Names, owner : {"Client", "User"}, kind : {"Client", "User", "none"},
                iat : Nat, epoch : Nat]

\* Every variable holds a value the program can give it, and an Exchanger has a
\* record of every client it has configured.
RegistryTypeOK ==
    /\ time \in Nat \ {0} /\ skew \in [Replicas -> 0..MaxSkew]
    /\ config \subseteq Names /\ staged \in BOOLEAN /\ registry \in Registries
    /\ build \in [Replicas -> [pc : {"idle", "update", "swap"}, conf : SUBSET Names,
                               at : Nat, reg : Registries]]
    /\ serving \in [Replicas -> [conf : SUBSET Names, reg : Registries]]
    /\ \A r \in Replicas : /\ build[r].pc = "swap" => build[r].conf \subseteq DOMAIN build[r].reg
                           /\ serving[r].conf \subseteq DOMAIN serving[r].reg
    /\ creds \subseteq Credentials

\* A credential issued to a client is never accepted as a User's, on any replica,
\* while the client is configured, removed or added back, with a recorded kind or
\* without (loadClientRegistry: "credentials issued to a removed client must not
\* later classify as a User").  The other direction is SubjectKindSound.
KindNeverChanges ==
    \A r \in Replicas, c \in creds :
        Accepts(r, c) /\ c.owner = "Client" => kindOrLegacy(r, c) = "Client"

\* An Exchanger that has seen a client come back accepts nothing issued to it
\* before (VetoCredential: "a clean slate rather than a revival, even for what
\* an Exchanger still on the old config minted after the removal").
CleanSlate ==
    \A r \in Replicas, c \in creds :
        c.owner = "Client" /\ Accepts(r, c) => c.epoch >= serving[r].reg[c.sub].epoch

\* A client added back starts clean, whatever replicas still on the old
\* configuration minted after its removal, as long as the clocks agree and the
\* operator waited for every replica before adding it back (mergeClientRegistry).
ReAddIsCleanSlate == staged /\ (\A r, q \in Replicas : skew[r] = skew[q]) => CleanSlate

\* SubjectKindOf "is sound because #243 refuses every user identity named like
\* a client": a user's credential is never taken for a client's.
SubjectKindSound ==
    \A r \in Replicas, c \in creds :
        Accepts(r, c) /\ c.owner = "User" => kindOrLegacy(r, c) = "User"
================================================================================
