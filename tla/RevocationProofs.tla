---------------------------- MODULE RevocationProofs ----------------------------
(***************************************************************************)
(* For every deployment - any number of replicas, jtis and generations,    *)
(* clocks that lag, sweeps that fail, a rolling upgrade - what a caller    *)
(* was told is revoked stays revoked, a fresh key works, a revoked session *)
(* mints nothing and a finished sweep has adopted what was stranded.       *)
(***************************************************************************)
EXTENDS Revocation, TLAPS

-----------------------------------------------------------------------------
(* The invariants                                                          *)

\* Of an entry with time a and deadline u, at time n, when s is the latest time
\* asked for: its time has come, was asked for, and it outlives every token it
\* revokes.
Fits(a, u, n, s, ttl) ==
  a <= n /\ a <= s /\ n <= u /\ (IF a = Untimed THEN 0 ELSE a) + ttl <= u

\* Everything issued under k up to a is dead, or the store revokes it.
Holds(k, a) ==
  \/ now >= a + RevocationTTL
  \/ store[k] # NoEntry /\ store[k].at >= a

StoreOK ==
  \A k \in Keys : store[k] # NoEntry =>
    Fits(store[k].at, store[k].until, now, asked[k], RevocationTTL)

LegacyOK ==
  \A g \in Gens, j \in Jtis : legacy[g][j] # NoEntry =>
    Fits(legacy[g][j].at, legacy[g][j].until, now, asked[j], RevocationTTL)

\* What a pass holds would do so if it were written now.
FoundOK ==
  \A r \in Replicas, j \in Jtis : sweep[r].found[j] # NoEntry =>
    Fits(sweep[r].found[j].at, sweep[r].found[j].until + now, now, asked[j], RevocationTTL)

\* A revocation under way has taken its time; once it is past the store, the
\* store holds it; before it writes the legacy class it has taken a second one.  A mint under way is for a session no revocation covers.
RequestsOK ==
  \A r \in Replicas :
    /\ pc[r] \in {"store", "stored", "legacy"} => req[r].at <= now /\ req[r].at <= asked[req[r].key]
    /\ pc[r] \in {"stored", "legacy"} => Holds(req[r].key, req[r].at)
    /\ pc[r] = "legacy" => req[r].again <= now /\ req[r].again <= asked[req[r].key]
    /\ pc[r] = "sign" => req[r].auth > req[r].known

AckedHold == \A k \in Keys : acked[k] # Before => Holds(k, acked[k])

RevocationInv == StoreOK /\ LegacyOK /\ FoundOK /\ RequestsOK /\ AckedHold /\ CutoffRefusesMint

\* Replicas are at most one generation apart, and read only one back.
GensOK ==
  /\ \A r, q \in All : gen[r] <= gen[q] + 1
  /\ \A r \in All : /\ MaxGen > 0 => gen[r] > 0
                    /\ prev[r] = NoGen => gen[r] <= 1
                    /\ prev[r] # NoGen => prev[r] = gen[r] - 1 /\ prev[r] # 0

\* Untimed entries are as old as the host's first generation.
UntimedOld ==
  \A g \in Gens, j \in Jtis : legacy[g][j] # NoEntry /\ legacy[g][j].at = Untimed =>
    g = 0 /\ MaxGen > 0 /\ legacy[g][j].until = RevocationTTL

\* The store revokes at least what e revokes.
Covers(j, e) == store[j] # NoEntry /\ e.at <= store[j].at

\* What a pass for the present generation has scanned is in its hands or in the
\* store.
PassOK(r) ==
  sweep[r].running /\ sweep[r].generation = gen[r] =>
    \A g \in Unreadable(r) \ sweep[r].left, j \in Jtis : InForce(legacy[g][j]) =>
       \/ sweep[r].found[j] # NoEntry /\ legacy[g][j].at <= sweep[r].found[j].at
       \/ Covers(j, legacy[g][j])

SweepOK(r) ==
  /\ IF sweep[r].adopted = gen[r] THEN Covered(r)
     ELSE sweep[r].running \/ sweep[r].due \/ sweep[r].failed
  /\ PassOK(r)
  /\ sweep[r].running => sweep[r].generation \in Gens
  /\ sweep[r].adopted # NoGen => sweep[r].adopted <= gen[r]
  /\ sweep[r].generation # NoGen => sweep[r].generation <= gen[r]

SweepInv == GensOK /\ UntimedOld /\ \A r \in Replicas : SweepOK(r)

Timed(e) == e # NoEntry /\ e.at # Untimed
NotUntimed(e) == e = NoEntry \/ e.at # Untimed

\* No untimed entry of j is left, or can come back.
UntimedFree(j) ==
  /\ NotUntimed(legacy[0][j]) /\ NotUntimed(store[j])
  /\ \A r \in Replicas : NotUntimed(sweep[r].found[j])

\* An untimed revocation that was revoked again gave way to a timed one.
FreshInv ==
  /\ NotUntimed(store[Sub])
  /\ \A j \in Jtis :
      /\ MaxGen = 0 => UntimedFree(j)
      /\ now < RevocationTTL /\ fresh[j] <= MaxGen => UntimedFree(j) \/ Timed(store[j])
-----------------------------------------------------------------------------
(* The deployment                                                          *)

\* What the assumptions on a deployment say of its parameters.
LEMMA SettingFacts ==
  ASSUME setting \in Settings
  PROVE  /\ Sub \notin Jtis /\ NoGen \notin Nat /\ NoEntry \notin [at : Int, until : Int]
         /\ Second \in Nat \ {0}
         /\ MaxTime \in Nat /\ MaxLag \in Nat /\ SessionTTL \in Nat /\ MaxGen \in Nat
         /\ RevocationHorizon \in Nat /\ MaxTTL \in Nat
         /\ RevocationTTL \in Nat /\ TTLs \subseteq Nat \ {0}
         /\ RevocationHorizon <= RevocationTTL /\ MaxTTL + MaxLag <= RevocationTTL
         /\ SessionTTL + MaxLag <= RevocationTTL
         /\ Replicas \subseteq All /\ Gens \subseteq Nat /\ Gens = 0..MaxGen
         /\ Times = 0..MaxTime /\ Times \subseteq Nat
BY RevocationConstants DEF MaxTime, MaxLag, SessionTTL, MaxGen, RevocationHorizon, MaxTTL,
   RevocationTTL, TTLs, Replicas, All, Gens, Times

\* The deployment does not change, and so nothing that depends on it only does.
LEMMA SettingKept ==
  ASSUME setting' = setting
  PROVE  /\ Replicas' = Replicas /\ OldReplicas' = OldReplicas /\ All' = All
         /\ Gens' = Gens /\ Times' = Times /\ Entries' = Entries /\ Tokens' = Tokens
         /\ RevocationTTL' = RevocationTTL /\ MaxGen' = MaxGen /\ MaxTime' = MaxTime
         /\ MaxLag' = MaxLag /\ MaxTTL' = MaxTTL /\ TTLs' = TTLs
         /\ Requests' = Requests /\ Sweeps' = Sweeps
BY DEF Replicas, OldReplicas, All, Gens, Times, Entries, Tokens, RevocationTTL, MaxGen,
   MaxTime, MaxLag, MaxTTL, TTLs, RevocationHorizon, Requests, Sweeps

LEMMA NextKeepsSetting ==
  ASSUME [Next]_vars
  PROVE  setting' = setting
BY DEF Next, vars, Tick, Request, Pass, MintCheck, MintSign, RevokeByMetadata, RevokeSubject,
   RevokeToken, Begin, RevokeStore, RevokeAgain, RevokeLegacy, RevokeAbort, LegacyRevoke, Reconfigure,
   SweepStart, SweepScan, SweepAdopt, SweepEnd, SweepFail, Reconcile
-----------------------------------------------------------------------------
(* Entries                                                                 *)

LEMMA EntryFacts ==
  ASSUME setting \in Settings, NEW e \in Entries
  PROVE  e.at \in Int /\ e.at >= Untimed /\ e.at <= MaxTime /\ e.until \in Nat /\ e # NoEntry
BY SettingFacts DEF Entries, Untimed

\* An entry is one from its two fields.
LEMMA EntryMade ==
  ASSUME setting \in Settings, NEW a \in Times \cup {Untimed}, NEW u \in Nat
  PROVE  /\ [at |-> a, until |-> u] \in Entries
         /\ [at |-> a, until |-> u].at = a /\ [at |-> a, until |-> u].until = u
BY DEF Entries

\* recordRevocation leaves a timed entry, no earlier than the one before and
\* the one asked for, that lasts as long as any revocation.
LEMMA Recorded ==
  ASSUME setting \in Settings, now \in Times, NEW e \in Entries \cup {NoEntry},
         NEW a \in Times, NEW ttl \in Nat, NEW f, f = RecordRevocation(e, a, ttl)
  PROVE  /\ f \in Entries /\ f # NoEntry
         /\ f.at >= a /\ f.at >= 0 /\ f.at # Untimed
         /\ e # NoEntry => f.at >= e.at
         /\ f.at = a \/ (e # NoEntry /\ f.at = e.at)
         /\ f.until >= now + RevocationTTL
<1> DEFINE x == IF e # NoEntry /\ e.at > a THEN e.at ELSE a
           u == now + (IF ttl > RevocationTTL THEN ttl ELSE RevocationTTL)
<1>1. f = [at |-> x, until |-> u] BY DEF RecordRevocation
<1>2. x \in Times /\ x >= a /\ (e # NoEntry => x >= e.at) /\ (x = a \/ (e # NoEntry /\ x = e.at))
      BY EntryFacts, SettingFacts
<1>3. u \in Nat /\ u >= now + RevocationTTL BY SettingFacts
<1>4. f \in Entries /\ f.at = x /\ f.until = u
  <2> HIDE DEF x, u
  <2> QED BY <1>1, <1>2, <1>3, EntryMade
<1> HIDE DEF x, u
<1> QED BY <1>2, <1>3, <1>4, SettingFacts, EntryFacts DEF Untimed

\* The adopting write keeps the later entry.
LEMMA AdoptedFacts ==
  ASSUME setting \in Settings, NEW c \in Entries \cup {NoEntry}, NEW e \in Entries,
         NEW f, f = Adopted(c, e)
  PROVE  /\ f \in Entries /\ f # NoEntry
         /\ f.at >= e.at
         /\ c # NoEntry => f.at >= c.at
         /\ f = e \/ f = c
<1>1. e.at \in Int /\ (c # NoEntry => c \in Entries /\ c.at \in Int) BY EntryFacts
<1>2. CASE c = NoEntry BY <1>1, <1>2, EntryFacts DEF Adopted
<1>3. CASE c # NoEntry /\ e.at > c.at
      BY <1>1, <1>3, EntryFacts DEF Adopted, LatestRevocation
<1>4. CASE c # NoEntry /\ ~(e.at > c.at)
      BY <1>1, <1>4, EntryFacts DEF Adopted, LatestRevocation
<1> QED BY <1>2, <1>3, <1>4

\* Merging two entries keeps the later time and the longer life.
LEMMA StrongestFacts ==
  ASSUME setting \in Settings, NEW p \in Entries \cup {NoEntry}, NEW e \in Entries,
         NEW f, f = Strongest(p, e)
  PROVE  /\ f \in Entries /\ f # NoEntry
         /\ f.at >= e.at /\ f.until >= e.until
         /\ p # NoEntry => f.at >= p.at /\ f.until >= p.until
         /\ f.at = e.at \/ (p # NoEntry /\ f.at = p.at)
<1>1. e.at \in Int /\ e.until \in Nat /\ e.at \in Times \cup {Untimed} /\ e # NoEntry
      BY EntryFacts DEF Entries
<1>2. CASE p = NoEntry BY <1>1, <1>2 DEF Strongest
<1>3. CASE p # NoEntry
  <2>1. p \in Entries BY <1>3
  <2>2. p.at \in Int /\ p.until \in Nat /\ p.at \in Times \cup {Untimed}
        BY <2>1, EntryFacts DEF Entries
  <2> DEFINE x == LatestRevocation(p, e).at
             u == IF e.until > p.until THEN e.until ELSE p.until
  <2>3. f = [at |-> x, until |-> u] BY <1>3 DEF Strongest
  <2>4. /\ x \in Times \cup {Untimed} /\ x >= e.at /\ x >= p.at
        /\ x = e.at \/ x = p.at
    <3>1. CASE e.at > p.at BY <3>1, <1>1, <2>2 DEF LatestRevocation
    <3>2. CASE ~(e.at > p.at) BY <3>2, <1>1, <2>2 DEF LatestRevocation
    <3> QED BY <3>1, <3>2
  <2>5. u \in Nat /\ u >= e.until /\ u >= p.until BY <1>1, <2>2
  <2> HIDE DEF x, u
  <2>6. f \in Entries /\ f.at = x /\ f.until = u BY <2>3, <2>4, <2>5, EntryMade
  <2> QED BY <1>3, <2>4, <2>5, <2>6, EntryFacts
<1> QED BY <1>2, <1>3

\* The scan reports the time left, the adopting write counts it from now.
LEMMA RemainingFacts ==
  ASSUME setting \in Settings, now \in Times, NEW e \in Entries, now <= e.until
  PROVE  /\ Remaining(e) \in Entries
         /\ Remaining(e).at = e.at /\ Remaining(e).until = e.until - now
<1>1. now \in Nat /\ e.until \in Nat BY SettingFacts, EntryFacts
<1> DEFINE u == e.until - now
<1>2. u \in Nat BY <1>1
<1>3. Remaining(e) = [e EXCEPT !.until = u] BY DEF Remaining
<1> HIDE DEF u
<1>4. [e EXCEPT !.until = u] \in Entries /\ [e EXCEPT !.until = u].at = e.at
      /\ [e EXCEPT !.until = u].until = u
      BY <1>2 DEF Entries
<1> QED BY <1>3, <1>4 DEF u

LEMMA RenewedFacts ==
  ASSUME setting \in Settings, now \in Times, NEW e \in Entries
  PROVE  /\ Renewed(e) \in Entries
         /\ Renewed(e).at = e.at /\ Renewed(e).until = e.until + now
BY SettingFacts DEF Renewed, Entries
-----------------------------------------------------------------------------
(* Types                                                                   *)

\* No entry outlives its deadline.
Alive ==
  /\ \A k \in Keys : store[k] # NoEntry => now <= store[k].until
  /\ \A g \in Gens, j \in Jtis : legacy[g][j] # NoEntry => now <= legacy[g][j].until

TypeInv == TypeOK /\ Alive

LEMMA ClockFacts ==
  ASSUME TypeOK, NEW r \in All
  PROVE  Clock(r) \in Int /\ Clock(r) <= now /\ Clock(r) >= now - MaxLag
         /\ (Clock(r) >= 0 => Clock(r) \in Times)
BY SettingFacts DEF TypeOK, Clock

LEMMA InitType ==
  ASSUME Init
  PROVE  TypeInv
<1>1. setting \in Settings /\ now = 0 /\ now \in Times BY SettingFacts DEF Init
<1>2. PICK old \in [Jtis -> IF MaxGen = 0 \/ setting.swept THEN {NoEntry} ELSE Stranded] :
        /\ legacy = [g \in Gens |-> IF g = 0 THEN old ELSE [j \in Jtis |-> NoEntry]]
        /\ asked = [k \in Keys |-> IF k \in Jtis /\ old[k] # NoEntry
                                   THEN old[k].at ELSE Before]
        /\ fresh = [j \in Jtis |-> IF old[j] # NoEntry /\ old[j].at = Untimed
                                   THEN MaxGen + 1 ELSE 0]
      BY DEF Init
<1>3. \A j \in Jtis : old[j] = NoEntry
                      \/ (old[j] \in Entries /\ old[j].at \in {Untimed, 0} /\ old[j].until >= 0)
      BY <1>1, SettingFacts DEF Stranded, Entries, Times
<1>4. old \in [Jtis -> Entries \cup {NoEntry}] BY <1>3
<1>5. legacy \in [Gens -> [Jtis -> Entries \cup {NoEntry}]] BY <1>2, <1>4
<1>6. asked \in [Keys -> Times \cup {Untimed, Before}]
      BY <1>1, <1>2, <1>3, SettingFacts DEF Keys
<1>7. fresh \in [Jtis -> 0..(MaxGen + 1)] BY <1>1, <1>2, SettingFacts
<1>8. gen \in [All -> Gens] /\ prev \in [All -> Gens \cup {NoGen}]
      BY <1>1, SettingFacts DEF Init
<1>9. req \in [Replicas -> Requests]
      BY <1>1, SettingFacts DEF Init, Idle, Requests, Keys
<1>10. sweep \in [Replicas -> Sweeps]
  <2> DEFINE F == [j \in Jtis |-> NoEntry]
  <2>1. F \in [Jtis -> Entries \cup {NoEntry}] OBVIOUS
  <2> HIDE DEF F
  <2>2. NoSweep = [running |-> FALSE, due |-> FALSE, adopted |-> NoGen, generation |-> NoGen,
                   left |-> {}, found |-> F, failed |-> FALSE] BY DEF NoSweep, F
  <2>3. \A r \in Replicas : gen[r] \in Gens BY <1>1, <1>8, SettingFacts
  <2>4. \A r \in Replicas : [NoSweep EXCEPT !.adopted = gen[r]] \in Sweeps
        BY <2>1, <2>2, <2>3 DEF Sweeps
  <2>5. [NoSweep EXCEPT !.due = TRUE] \in Sweeps BY <2>1, <2>2 DEF Sweeps
  <2>6. sweep = [r \in Replicas |-> IF setting.swept THEN [NoSweep EXCEPT !.adopted = gen[r]]
                                    ELSE [NoSweep EXCEPT !.due = TRUE]] BY DEF Init
  <2> HIDE DEF NoSweep
  <2> QED BY <2>4, <2>5, <2>6
<1>11. TypeOK
       BY <1>1, <1>5, <1>6, <1>7, <1>8, <1>9, <1>10 DEF Init, TypeOK
<1>12. Alive BY <1>1, <1>2, <1>3, SettingFacts DEF Init, Alive
<1> QED BY <1>11, <1>12 DEF TypeInv

LEMMA TickType ==
  ASSUME TypeInv, Tick
  PROVE  TypeInv'
<1>1. setting \in Settings /\ now \in Times /\ setting' = setting /\ now' = now + 1
      BY DEF TypeInv, TypeOK, Tick
<1>2. now' \in Times BY <1>1, SettingFacts DEF Tick
<1>3. store' \in [Keys -> Entries \cup {NoEntry}]
      BY DEF TypeInv, TypeOK, Tick, Live
<1>4. legacy' \in [Gens -> [Jtis -> Entries \cup {NoEntry}]]
      BY DEF TypeInv, TypeOK, Tick, Live
<1>5. TypeOK' BY <1>1, <1>2, <1>3, <1>4, SettingKept DEF TypeInv, TypeOK, Tick
<1>6. ASSUME NEW k \in Keys, store'[k] # NoEntry PROVE now' <= store'[k].until
  <2>1. store'[k] = store[k] /\ store[k] # NoEntry /\ ~(store[k].until <= now')
        BY <1>6 DEF Tick, Live
  <2>2. store[k] \in Entries BY <2>1 DEF TypeInv, TypeOK
  <2> QED BY <1>1, <2>1, <2>2, SettingFacts, EntryFacts
<1>7. ASSUME NEW g \in Gens, NEW j \in Jtis, legacy'[g][j] # NoEntry
      PROVE  now' <= legacy'[g][j].until
  <2>1. legacy'[g][j] = Live(legacy[g][j]) BY DEF Tick
  <2>2. legacy'[g][j] = legacy[g][j] /\ legacy[g][j] # NoEntry /\ ~(legacy[g][j].until <= now')
        BY <1>7, <2>1 DEF Live
  <2>3. legacy[g][j] \in Entries BY <2>2 DEF TypeInv, TypeOK
  <2> QED BY <1>1, <2>2, <2>3, SettingFacts, EntryFacts
<1> QED BY <1>1, <1>5, <1>6, <1>7, SettingKept DEF TypeInv, Alive

LEMMA IdleRequest ==
  ASSUME setting \in Settings
  PROVE  Idle \in Requests /\ Idle.key = Sub /\ Idle.at = 0 /\ Idle.auth = 0 /\ Idle.known = Before
BY SettingFacts DEF Idle, Requests, Keys

\* A request begins with its replica idle, and only it changes.
LEMMA RequestMade ==
  ASSUME setting \in Settings, NEW k \in Keys, NEW ttl \in Nat, NEW u \in Times,
         NEW n \in Times \cup {Before}
  PROVE  [Idle EXCEPT !.key = k, !.ttl = ttl, !.auth = u, !.known = n] \in Requests
BY IdleRequest DEF Requests

LEMMA RequestFacts ==
  ASSUME TypeOK, NEW r \in Replicas
  PROVE  /\ req[r] \in Requests /\ req[r].key \in Keys /\ req[r].at \in Times /\ req[r].again \in Times
         /\ req[r].ttl \in Nat /\ req[r].auth \in Times /\ req[r].known \in Times \cup {Before}
BY DEF TypeOK, Requests

LEMMA MintCheckType ==
  ASSUME TypeInv, NEW r \in Replicas, NEW j \in Jtis, NEW ttl \in TTLs, NEW auth \in 0..Clock(r),
         MintCheck(r, j, auth, ttl)
  PROVE  TypeInv'
<1>1. TypeOK /\ setting \in Settings /\ r \in All /\ setting' = setting
      BY SettingFacts DEF TypeInv, TypeOK, MintCheck
<1>2. auth \in Times /\ 0 \in Times
  <2>1. Clock(r) \in Int /\ Clock(r) <= now BY <1>1, ClockFacts
  <2>2. now \in 0..MaxTime /\ Times = 0..MaxTime /\ MaxTime \in Nat BY <1>1, SettingFacts DEF TypeOK
  <2> QED BY <2>1, <2>2
<1>3. acked[Sub] \in Times \cup {Before} /\ j \in Keys /\ ttl \in Nat
      BY <1>1, SettingFacts DEF TypeOK, Keys
<1> DEFINE q == [Idle EXCEPT !.key = j, !.ttl = ttl, !.auth = auth, !.known = acked[Sub]]
<1>4. q \in Requests BY <1>1, <1>2, <1>3, RequestMade
<1>5. req' = [req EXCEPT ![r] = q] BY DEF MintCheck
<1> HIDE DEF q
<1>6. req' \in [Replicas -> Requests] BY <1>1, <1>4, <1>5 DEF TypeOK
<1>7. pc' \in [Replicas -> {"idle", "store", "stored", "legacy", "sign"}] BY <1>1 DEF TypeOK, MintCheck
<1> QED BY <1>1, <1>6, <1>7, SettingKept DEF TypeInv, TypeOK, Alive, MintCheck

LEMMA MintSignType ==
  ASSUME TypeInv, NEW r \in Replicas, MintSign(r), pc[r] = "sign" => req[r].key \in Jtis
  PROVE  TypeInv'
<1>1. TypeOK /\ setting \in Settings /\ r \in All /\ setting' = setting
      BY SettingFacts DEF TypeInv, TypeOK, MintSign
<1>2. Clock(r) \in Times /\ req[r].key \in Jtis BY <1>1, ClockFacts DEF MintSign
<1>3. Clock(r) + req[r].ttl \in Nat BY <1>1, <1>2, RequestFacts, SettingFacts
<1> DEFINE t == [jti |-> req[r].key, iat |-> Clock(r), exp |-> Clock(r) + req[r].ttl,
                 auth |-> req[r].auth, known |-> req[r].known]
<1>4. t \in Tokens BY <1>1, <1>2, <1>3, RequestFacts DEF Tokens
<1>5. tokens' \subseteq tokens \cup {t} BY DEF MintSign
<1> HIDE DEF t
<1>6. tokens' \subseteq Tokens BY <1>1, <1>4, <1>5 DEF TypeOK
<1>7. pc' \in [Replicas -> {"idle", "store", "stored", "legacy", "sign"}] BY <1>1 DEF TypeOK, MintSign
<1>8. req' \in [Replicas -> Requests] BY <1>1, IdleRequest DEF TypeOK, MintSign
<1> QED BY <1>1, <1>6, <1>7, <1>8, SettingKept DEF TypeInv, TypeOK, Alive, MintSign

LEMMA BeginType ==
  ASSUME TypeInv, NEW r \in Replicas, NEW k \in Keys, NEW ttl \in Nat, Begin(r, k, ttl)
  PROVE  TypeInv'
<1>1. TypeOK /\ setting \in Settings /\ r \in All /\ setting' = setting
      BY SettingFacts DEF TypeInv, TypeOK, Begin
<1>2. Clock(r) \in Times BY <1>1, ClockFacts DEF Begin
<1>3. [Idle EXCEPT !.key = k, !.at = Clock(r), !.ttl = ttl] \in Requests
      BY <1>1, <1>2, IdleRequest DEF Requests
<1>4. req' \in [Replicas -> Requests]
  <2> HIDE DEF Idle
  <2> QED BY <1>1, <1>3 DEF TypeOK, Begin
<1>5. pc' \in [Replicas -> {"idle", "store", "stored", "legacy", "sign"}] BY <1>1 DEF TypeOK, Begin
<1>6. asked' \in [Keys -> Times \cup {Untimed, Before}] BY <1>1, <1>2 DEF TypeOK, Begin
<1> QED BY <1>1, <1>4, <1>5, <1>6, SettingKept DEF TypeInv, TypeOK, Alive, Begin

LEMMA AcknowledgeType ==
  ASSUME TypeOK, NEW r \in Replicas, Acknowledge(r)
  PROVE  /\ acked' \in [Keys -> Times \cup {Before}]
         /\ fresh' \in [Jtis -> 0..(MaxGen + 1)]
         /\ pc' \in [Replicas -> {"idle", "store", "stored", "legacy", "sign"}]
         /\ req' \in [Replicas -> Requests]
<1>1. setting \in Settings /\ r \in All BY SettingFacts DEF TypeOK
<1>2. acked' \in [Keys -> Times \cup {Before}] BY RequestFacts DEF TypeOK, Acknowledge
<1>3. gen[r] \in 0..(MaxGen + 1) BY <1>1, SettingFacts DEF TypeOK
<1>4. fresh' \in [Jtis -> 0..(MaxGen + 1)] BY <1>3 DEF TypeOK, Acknowledge
<1>5. pc' \in [Replicas -> {"idle", "store", "stored", "legacy", "sign"}] BY DEF TypeOK, Acknowledge
<1>6. req' \in [Replicas -> Requests] BY <1>1, IdleRequest DEF TypeOK, Acknowledge
<1> QED BY <1>2, <1>4, <1>5, <1>6

LEMMA RevokeStoreType ==
  ASSUME TypeInv, NEW r \in Replicas, RevokeStore(r)
  PROVE  TypeInv'
<1>1. TypeOK /\ setting \in Settings /\ r \in All /\ setting' = setting /\ now' = now /\ now \in Times
      BY SettingFacts DEF TypeInv, TypeOK, RevokeStore
<1>2. PICK k \in Keys : k = req[r].key BY <1>1, RequestFacts
<1>3. store[k] \in Entries \cup {NoEntry} BY <1>1 DEF TypeOK
<1>4. PICK f : f = RecordRevocation(store[k], req[r].at, req[r].ttl) OBVIOUS
<1>5. store' = [store EXCEPT ![k] = f] BY <1>2, <1>4 DEF RevokeStore
<1>6. f \in Entries /\ f.until >= now + RevocationTTL
  <2>1. PICK a \in Times, ttl \in Nat : a = req[r].at /\ ttl = req[r].ttl BY <1>1, RequestFacts
  <2>2. PICK e \in Entries \cup {NoEntry} : e = store[k] BY <1>3
  <2>3. f = RecordRevocation(e, a, ttl) BY <1>4, <2>1, <2>2
  <2> QED BY <1>1, <2>3, Recorded
<1>7. store' \in [Keys -> Entries \cup {NoEntry}] BY <1>1, <1>5, <1>6 DEF TypeOK
<1>8. /\ acked' \in [Keys -> Times \cup {Before}]
      /\ fresh' \in [Jtis -> 0..(MaxGen + 1)]
      /\ pc' \in [Replicas -> {"idle", "store", "stored", "legacy", "sign"}]
      /\ req' \in [Replicas -> Requests]
  <2>1. CASE Acknowledge(r) BY <1>1, <2>1, AcknowledgeType
  <2>2. CASE pc' = [pc EXCEPT ![r] = "stored"] /\ UNCHANGED <<req, acked, fresh>>
        BY <1>1, <2>2 DEF TypeOK
  <2> QED BY <2>1, <2>2 DEF RevokeStore
<1>9. TypeOK' BY <1>1, <1>7, <1>8, SettingKept DEF TypeOK, RevokeStore
<1>10. \A l \in Keys : store'[l] # NoEntry => now' <= store'[l].until
       BY <1>1, <1>5, <1>6, SettingFacts, EntryFacts DEF TypeInv, TypeOK, Alive
<1> QED BY <1>1, <1>9, <1>10, SettingKept DEF TypeInv, Alive, RevokeStore

\* A write to the legacy class keeps its shape.
LEMMA LegacyWritten ==
  ASSUME TypeInv, NEW r \in All, NEW j \in Jtis, NEW a \in Times, NEW ttl \in Nat,
         legacy' = [legacy EXCEPT ![gen[r]][j] = RecordRevocation(@, a, ttl)]
  PROVE  /\ legacy' \in [Gens -> [Jtis -> Entries \cup {NoEntry}]]
         /\ legacy'[gen[r]][j] = RecordRevocation(legacy[gen[r]][j], a, ttl)
         /\ \A g \in Gens, i \in Jtis : g # gen[r] \/ i # j => legacy'[g][i] = legacy[g][i]
         /\ \A g \in Gens, i \in Jtis : legacy'[g][i] # NoEntry => now <= legacy'[g][i].until
<1>1. setting \in Settings /\ now \in Times /\ gen[r] \in Gens /\ legacy[gen[r]] \in [Jtis -> Entries \cup {NoEntry}]
      /\ legacy[gen[r]][j] \in Entries \cup {NoEntry}
      BY DEF TypeInv, TypeOK
<1>2. PICK f : f = RecordRevocation(legacy[gen[r]][j], a, ttl) OBVIOUS
<1>3. f \in Entries /\ f.until >= now + RevocationTTL BY <1>1, <1>2, Recorded
<1>4. legacy' = [legacy EXCEPT ![gen[r]] = [legacy[gen[r]] EXCEPT ![j] = f]] BY <1>2
<1>5. PICK h : h = [legacy[gen[r]] EXCEPT ![j] = f] OBVIOUS
<1>6. h \in [Jtis -> Entries \cup {NoEntry}] /\ h[j] = f /\ \A i \in Jtis : i # j => h[i] = legacy[gen[r]][i]
      BY <1>1, <1>3, <1>5
<1>7. legacy' = [legacy EXCEPT ![gen[r]] = h] BY <1>4, <1>5
<1>8. legacy \in [Gens -> [Jtis -> Entries \cup {NoEntry}]] BY DEF TypeInv, TypeOK
<1>9. legacy' \in [Gens -> [Jtis -> Entries \cup {NoEntry}]] BY <1>1, <1>6, <1>7, <1>8
<1>10. \A g \in Gens : legacy'[g] = IF g = gen[r] THEN h ELSE legacy[g] BY <1>1, <1>7, <1>8
<1>11. \A g \in Gens, i \in Jtis : legacy'[g][i] # NoEntry => now <= legacy'[g][i].until
  <2> SUFFICES ASSUME NEW g \in Gens, NEW i \in Jtis, legacy'[g][i] # NoEntry
               PROVE  now <= legacy'[g][i].until OBVIOUS
  <2>1. CASE g = gen[r] /\ i = j BY <1>1, <1>3, <1>6, <1>10, <2>1, SettingFacts, EntryFacts
  <2>2. CASE ~(g = gen[r] /\ i = j) BY <1>6, <1>10, <2>2 DEF TypeInv, Alive
  <2> QED BY <2>1, <2>2
<1> QED BY <1>1, <1>2, <1>6, <1>9, <1>10, <1>11

LEMMA RevokeAgainType ==
  ASSUME TypeInv, NEW r \in Replicas, RevokeAgain(r)
  PROVE  TypeInv'
<1>1. TypeOK /\ setting \in Settings /\ r \in All /\ setting' = setting
      BY SettingFacts DEF TypeInv, TypeOK, RevokeAgain
<1>2. Clock(r) \in Times BY <1>1, ClockFacts DEF RevokeAgain
<1>3. req[r].key \in Keys /\ req[r] \in Requests BY <1>1, RequestFacts
<1>4. [req[r] EXCEPT !.again = Clock(r)] \in Requests BY <1>2, <1>3 DEF Requests
<1>5. req' \in [Replicas -> Requests] BY <1>1, <1>4 DEF TypeOK, RevokeAgain
<1>6. pc' \in [Replicas -> {"idle", "store", "stored", "legacy", "sign"}] BY <1>1 DEF TypeOK, RevokeAgain
<1>7. asked' \in [Keys -> Times \cup {Untimed, Before}] BY <1>1, <1>2, <1>3 DEF TypeOK, RevokeAgain
<1> QED BY <1>1, <1>5, <1>6, <1>7, SettingKept DEF TypeInv, TypeOK, Alive, RevokeAgain

LEMMA RevokeLegacyType ==
  ASSUME TypeInv, NEW r \in Replicas, RevokeLegacy(r), pc[r] = "legacy" => req[r].key \in Jtis
  PROVE  TypeInv'
<1>1. TypeOK /\ setting \in Settings /\ r \in All /\ setting' = setting /\ now' = now
      BY SettingFacts DEF TypeInv, TypeOK, RevokeLegacy
<1>2. PICK j \in Jtis : j = req[r].key BY DEF RevokeLegacy
<1>3. legacy' = [legacy EXCEPT ![gen[r]][j] = RecordRevocation(@, req[r].again, req[r].ttl)]
      BY <1>2 DEF RevokeLegacy
<1>4. req[r].again \in Times /\ req[r].ttl \in Nat BY <1>1, RequestFacts
<1>5. /\ legacy' \in [Gens -> [Jtis -> Entries \cup {NoEntry}]]
      /\ \A g \in Gens, i \in Jtis : legacy'[g][i] # NoEntry => now <= legacy'[g][i].until
      BY <1>1, <1>3, <1>4, LegacyWritten
<1>6. Acknowledge(r) BY DEF RevokeLegacy
<1> QED BY <1>1, <1>5, <1>6, AcknowledgeType, SettingKept DEF TypeInv, TypeOK, Alive, RevokeLegacy

LEMMA RevokeAbortType ==
  ASSUME TypeInv, NEW r \in Replicas, RevokeAbort(r)
  PROVE  TypeInv'
<1>1. TypeOK /\ setting \in Settings /\ setting' = setting BY DEF TypeInv, TypeOK, RevokeAbort
<1>2. req' \in [Replicas -> Requests] BY <1>1, IdleRequest DEF TypeOK, RevokeAbort
<1>3. pc' \in [Replicas -> {"idle", "store", "stored", "legacy", "sign"}] BY <1>1 DEF TypeOK, RevokeAbort
<1> QED BY <1>1, <1>2, <1>3, SettingKept DEF TypeInv, TypeOK, Alive, RevokeAbort

LEMMA LegacyRevokeType ==
  ASSUME TypeInv, NEW o \in OldReplicas, NEW j \in Jtis, LegacyRevoke(o, j)
  PROVE  TypeInv'
<1>1. TypeOK /\ setting \in Settings /\ o \in All /\ setting' = setting /\ now' = now
      BY DEF TypeInv, TypeOK, All, LegacyRevoke
<1>2. Clock(o) \in Times /\ 0 \in Nat BY <1>1, ClockFacts DEF LegacyRevoke
<1>3. legacy' = [legacy EXCEPT ![gen[o]][j] = RecordRevocation(@, Clock(o), 0)] BY DEF LegacyRevoke
<1>4. /\ legacy' \in [Gens -> [Jtis -> Entries \cup {NoEntry}]]
      /\ \A g \in Gens, i \in Jtis : legacy'[g][i] # NoEntry => now <= legacy'[g][i].until
      BY <1>1, <1>2, <1>3, LegacyWritten
<1>5. asked' \in [Keys -> Times \cup {Untimed, Before}] BY <1>1, <1>2 DEF TypeOK, LegacyRevoke, Keys
<1> QED BY <1>1, <1>4, <1>5, SettingKept DEF TypeInv, TypeOK, Alive, LegacyRevoke

LEMMA SweepFacts ==
  ASSUME TypeOK, NEW r \in Replicas
  PROVE  /\ sweep[r] \in Sweeps /\ sweep[r].running \in BOOLEAN /\ sweep[r].due \in BOOLEAN
         /\ sweep[r].adopted \in Gens \cup {NoGen} /\ sweep[r].generation \in Gens \cup {NoGen}
         /\ sweep[r].left \in SUBSET Gens /\ sweep[r].found \in [Jtis -> Entries \cup {NoEntry}]
         /\ sweep[r].failed \in BOOLEAN
BY DEF TypeOK, Sweeps

LEMMA NoSweepType ==
  /\ NoSweep \in Sweeps
  /\ ~NoSweep.running /\ ~NoSweep.due /\ NoSweep.adopted = NoGen /\ NoSweep.generation = NoGen
  /\ NoSweep.left = {} /\ NoSweep.found = [j \in Jtis |-> NoEntry]
<1> DEFINE F == [j \in Jtis |-> NoEntry]
<1>1. F \in [Jtis -> Entries \cup {NoEntry}] OBVIOUS
<1> HIDE DEF F
<1>2. NoSweep = [running |-> FALSE, due |-> FALSE, adopted |-> NoGen, generation |-> NoGen,
                 left |-> {}, found |-> F, failed |-> FALSE] BY DEF NoSweep, F
<1>3. NoSweep \in Sweeps BY <1>1, <1>2 DEF Sweeps
<1>4. NoSweep.found = F BY <1>2
<1> QED BY <1>2, <1>3, <1>4 DEF F

\* What a sweep step makes of its own replica's sweep, and of nothing else.
LEMMA SweepMade ==
  ASSUME TypeOK, NEW r \in Replicas, NEW x \in Sweeps, sweep' = [sweep EXCEPT ![r] = x]
  PROVE  /\ sweep' \in [Replicas -> Sweeps] /\ sweep'[r] = x
         /\ \A q \in Replicas : q # r => sweep'[q] = sweep[q]
BY DEF TypeOK

LEMMA SweepStartStep ==
  ASSUME TypeOK, NEW r \in Replicas, SweepStart(r)
  PROVE  /\ sweep' \in [Replicas -> Sweeps]
         /\ \A q \in Replicas : q # r => sweep'[q] = sweep[q]
         /\ sweep'[r].adopted = sweep[r].adopted
         /\ \/ /\ sweep[r].running \/ sweep[r].adopted = gen[r]
               /\ sweep'[r].running = sweep[r].running /\ sweep'[r].generation = sweep[r].generation
               /\ sweep'[r].left = sweep[r].left /\ sweep'[r].found = sweep[r].found
               /\ sweep'[r].failed = sweep[r].failed
            \/ /\ sweep'[r].running /\ sweep'[r].generation = gen[r]
               /\ sweep'[r].left = Gens /\ sweep'[r].found = [j \in Jtis |-> NoEntry]
<1>1. setting \in Settings /\ gen[r] \in Gens BY SettingFacts DEF TypeOK
<1>2. PICK s \in Sweeps : s = sweep[r] BY SweepFacts
<1>3. PICK n \in Sweeps : n = NoSweep BY NoSweepType
<1>4. CASE s.running \/ s.adopted = gen[r]
  <2>1. PICK x : x = [s EXCEPT !.due = FALSE] OBVIOUS
  <2>2. x \in Sweeps /\ x.adopted = s.adopted /\ x.running = s.running /\ x.generation = s.generation
        /\ x.left = s.left /\ x.found = s.found /\ x.failed = s.failed
        BY <2>1 DEF Sweeps
  <2>3. sweep' = [sweep EXCEPT ![r] = x] BY <1>2, <1>4, <2>1 DEF SweepStart
  <2> QED BY <1>2, <1>4, <2>2, <2>3, SweepMade
<1>5. CASE ~(s.running \/ s.adopted = gen[r])
  <2>1. PICK x : x = [n EXCEPT !.running = TRUE, !.adopted = s.adopted, !.generation = gen[r],
                               !.left = Gens] OBVIOUS
  <2>2. x \in Sweeps /\ x.adopted = s.adopted /\ x.running /\ x.generation = gen[r]
        /\ x.left = Gens /\ x.found = n.found
        BY <1>1, <2>1 DEF Sweeps
  <2>3. sweep' = [sweep EXCEPT ![r] = x]
        BY <1>2, <1>3, <1>5, <2>1 DEF SweepStart, ScannedGenerations
  <2>4. x.found = [j \in Jtis |-> NoEntry] BY <1>3, <2>2, NoSweepType
  <2> QED BY <1>2, <2>2, <2>3, <2>4, SweepMade
<1> QED BY <1>4, <1>5

\* What the scan has found of j after one more generation.
Found(r, g, j) ==
  IF legacy[g][j] = NoEntry THEN sweep[r].found[j]
  ELSE Strongest(sweep[r].found[j], Remaining(legacy[g][j]))

LEMMA SweepScanStep ==
  ASSUME TypeInv, NEW r \in Replicas, NEW g \in Gens, SweepScan(r, g)
  PROVE  /\ sweep' \in [Replicas -> Sweeps]
         /\ \A q \in Replicas : q # r => sweep'[q] = sweep[q]
         /\ sweep'[r].adopted = sweep[r].adopted /\ sweep'[r].running = sweep[r].running
         /\ sweep'[r].generation = sweep[r].generation /\ sweep'[r].due = sweep[r].due
         /\ sweep'[r].failed = sweep[r].failed
         /\ sweep'[r].left = sweep[r].left \ {g}
         /\ \A j \in Jtis : sweep'[r].found[j] = Found(r, g, j)
<1>1. TypeOK /\ setting \in Settings /\ now \in Times BY DEF TypeInv, TypeOK
<1>2. PICK s \in Sweeps : s = sweep[r] BY <1>1, SweepFacts
<1> DEFINE F == [j \in Jtis |-> IF legacy[g][j] = NoEntry THEN s.found[j]
                                ELSE Strongest(s.found[j], Remaining(legacy[g][j]))]
<1>3. F \in [Jtis -> Entries \cup {NoEntry}] /\ \A j \in Jtis : F[j] = Found(r, g, j)
  <2>1. \A j \in Jtis : F[j] = Found(r, g, j) BY <1>2 DEF Found
  <2>2. ASSUME NEW j \in Jtis PROVE Found(r, g, j) \in Entries \cup {NoEntry}
    <3>1. sweep[r].found[j] \in Entries \cup {NoEntry} BY <1>1, SweepFacts
    <3>2. CASE legacy[g][j] = NoEntry BY <3>1, <3>2 DEF Found
    <3>3. CASE legacy[g][j] # NoEntry
      <4>1. legacy[g][j] \in Entries /\ now <= legacy[g][j].until
            BY <3>3 DEF TypeInv, TypeOK, Alive
      <4>2. Remaining(legacy[g][j]) \in Entries BY <1>1, <4>1, RemainingFacts
      <4> QED BY <1>1, <3>1, <3>3, <4>2, StrongestFacts DEF Found
    <3> QED BY <3>2, <3>3
  <2> HIDE DEF Found
  <2> QED BY <2>1, <2>2
<1>4. sweep' = [sweep EXCEPT ![r].left = @ \ {g}, ![r].found = F]
      BY <1>2 DEF SweepScan
<1> HIDE DEF F
<1>5. PICK x : x = [s EXCEPT !.left = @ \ {g}, !.found = F] OBVIOUS
<1>6. x \in Sweeps /\ x.adopted = s.adopted /\ x.running = s.running /\ x.generation = s.generation
      /\ x.due = s.due /\ x.failed = s.failed /\ x.left = s.left \ {g} /\ x.found = F
      BY <1>3, <1>5 DEF Sweeps
<1>7. sweep' = [sweep EXCEPT ![r] = x] BY <1>1, <1>2, <1>4, <1>5 DEF TypeOK
<1> QED BY <1>1, <1>2, <1>3, <1>6, <1>7, SweepMade

LEMMA SweepAdoptStep ==
  ASSUME TypeOK, NEW r \in Replicas, NEW j \in Jtis, SweepAdopt(r, j)
  PROVE  /\ sweep' \in [Replicas -> Sweeps]
         /\ \A q \in Replicas : q # r => sweep'[q] = sweep[q]
         /\ sweep'[r].adopted = sweep[r].adopted /\ sweep'[r].running = sweep[r].running
         /\ sweep'[r].generation = sweep[r].generation /\ sweep'[r].due = sweep[r].due
         /\ sweep'[r].failed = sweep[r].failed /\ sweep'[r].left = sweep[r].left
         /\ \A i \in Jtis : sweep'[r].found[i] = IF i = j THEN NoEntry ELSE sweep[r].found[i]
<1>1. PICK s \in Sweeps : s = sweep[r] BY SweepFacts
<1>2. PICK F : F = [s.found EXCEPT ![j] = NoEntry] OBVIOUS
<1>3. F \in [Jtis -> Entries \cup {NoEntry}]
      /\ \A i \in Jtis : F[i] = IF i = j THEN NoEntry ELSE s.found[i]
  <2>1. s.found \in [Jtis -> Entries \cup {NoEntry}] BY DEF Sweeps
  <2> QED BY <1>2, <2>1
<1>4. PICK x : x = [s EXCEPT !.found = F] OBVIOUS
<1>5. x \in Sweeps /\ x.adopted = s.adopted /\ x.running = s.running /\ x.generation = s.generation
      /\ x.due = s.due /\ x.failed = s.failed /\ x.left = s.left /\ x.found = F
      BY <1>3, <1>4 DEF Sweeps
<1>6. sweep' = [sweep EXCEPT ![r] = x]
  <2>1. sweep' = [sweep EXCEPT ![r].found[j] = NoEntry] BY DEF SweepAdopt
  <2>2. sweep' = [sweep EXCEPT ![r] = [sweep[r] EXCEPT !.found = [sweep[r].found EXCEPT ![j] = NoEntry]]]
        BY <2>1
  <2> QED BY <1>1, <1>2, <1>4, <2>2
<1> QED BY <1>1, <1>3, <1>5, <1>6, SweepMade

\* A sweep asked for: the flag is set, the rest is as it was.
LEMMA DueSet ==
  ASSUME TypeOK, NEW r \in Replicas, sweep' = [sweep EXCEPT ![r].due = TRUE]
  PROVE  /\ sweep' \in [Replicas -> Sweeps]
         /\ \A q \in Replicas : q # r => sweep'[q] = sweep[q]
         /\ sweep'[r].due
         /\ sweep'[r].adopted = sweep[r].adopted /\ sweep'[r].running = sweep[r].running
         /\ sweep'[r].generation = sweep[r].generation /\ sweep'[r].found = sweep[r].found
         /\ sweep'[r].failed = sweep[r].failed /\ sweep'[r].left = sweep[r].left
<1>1. PICK s \in Sweeps : s = sweep[r] BY SweepFacts
<1>2. PICK x : x = [s EXCEPT !.due = TRUE] OBVIOUS
<1>3. x \in Sweeps /\ x.adopted = s.adopted /\ x.running = s.running /\ x.generation = s.generation
      /\ x.due /\ x.failed = s.failed /\ x.left = s.left /\ x.found = s.found
      BY <1>2 DEF Sweeps
<1>4. sweep' = [sweep EXCEPT ![r] = x] BY <1>1, <1>2 DEF TypeOK
<1> QED BY <1>1, <1>3, <1>4, SweepMade

LEMMA SweepEndStep ==
  ASSUME TypeOK, NEW r \in Replicas, SweepEnd(r)
  PROVE  /\ sweep' \in [Replicas -> Sweeps]
         /\ \A q \in Replicas : q # r => sweep'[q] = sweep[q]
         /\ sweep'[r].adopted = sweep[r].generation
         /\ sweep'[r].found = sweep[r].found
         /\ IF gen[r] # sweep[r].generation
              THEN sweep'[r].running /\ sweep'[r].generation = gen[r] /\ sweep'[r].left = Gens
              ELSE ~sweep'[r].running /\ sweep'[r].generation = NoGen /\ sweep'[r].left = sweep[r].left
<1>1. setting \in Settings /\ gen[r] \in Gens BY SettingFacts DEF TypeOK
<1>2. PICK s \in Sweeps : s = sweep[r] BY SweepFacts
<1>3. CASE gen[r] # s.generation
  <2>1. PICK x : x = [s EXCEPT !.adopted = s.generation, !.generation = gen[r], !.left = Gens] OBVIOUS
  <2>2. x \in Sweeps /\ x.adopted = s.generation /\ x.running = s.running /\ x.generation = gen[r]
        /\ x.left = Gens /\ x.found = s.found
        BY <1>1, <2>1 DEF Sweeps
  <2>3. sweep' = [sweep EXCEPT ![r] = x] /\ s.running
        BY <1>2, <1>3, <2>1 DEF SweepEnd, SweepAgain, SweptGeneration, ScannedGenerations
  <2> QED BY <1>2, <1>3, <2>2, <2>3, SweepMade
<1>4. CASE gen[r] = s.generation
  <2>1. PICK x : x = [s EXCEPT !.adopted = s.generation, !.running = FALSE, !.generation = NoGen]
        OBVIOUS
  <2>2. x \in Sweeps /\ x.adopted = s.generation /\ ~x.running /\ x.generation = NoGen
        /\ x.left = s.left /\ x.found = s.found
        BY <2>1 DEF Sweeps
  <2>3. sweep' = [sweep EXCEPT ![r] = x]
        BY <1>2, <1>4, <2>1 DEF SweepEnd, SweepAgain, SweptGeneration
  <2> QED BY <1>2, <1>4, <2>2, <2>3, SweepMade
<1> QED BY <1>3, <1>4

LEMMA SweepFailStep ==
  ASSUME TypeOK, NEW r \in Replicas, SweepFail(r)
  PROVE  /\ sweep' \in [Replicas -> Sweeps]
         /\ \A q \in Replicas : q # r => sweep'[q] = sweep[q]
         /\ sweep'[r].adopted = sweep[r].adopted /\ ~sweep'[r].running /\ sweep'[r].failed
         /\ sweep'[r].generation = NoGen
         /\ sweep'[r].found = [j \in Jtis |-> NoEntry]
<1>1. PICK s \in Sweeps : s = sweep[r] BY SweepFacts
<1>2. PICK n \in Sweeps : n = NoSweep BY NoSweepType
<1>3. PICK x : x = [n EXCEPT !.adopted = s.adopted, !.due = s.due, !.failed = TRUE] OBVIOUS
<1>4. x \in Sweeps /\ x.adopted = s.adopted /\ (x.running <=> n.running) /\ x.failed
      /\ x.generation = n.generation /\ x.found = n.found
      BY <1>3 DEF Sweeps
<1>5. sweep' = [sweep EXCEPT ![r] = x] BY <1>1, <1>2, <1>3 DEF SweepFail
<1>6. ~n.running /\ n.generation = NoGen /\ n.found = [j \in Jtis |-> NoEntry] BY <1>2, NoSweepType
<1> QED BY <1>1, <1>4, <1>5, <1>6, SweepMade

\* What a reconfiguration changes.
LEMMA ReconfigureStep ==
  ASSUME TypeOK, NEW r \in All, Reconfigure(r)
  PROVE  /\ gen' \in [All -> Gens] /\ prev' \in [All -> Gens \cup {NoGen}]
         /\ sweep' \in [Replicas -> Sweeps]
         /\ gen'[r] = gen[r] + 1 /\ prev'[r] = gen[r]
         /\ \A q \in All : q # r => gen'[q] = gen[q] /\ prev'[q] = prev[q]
         /\ \A q \in Replicas :
              /\ q = r => sweep'[q].due
              /\ q # r => sweep'[q] = sweep[q]
              /\ sweep'[q].adopted = sweep[q].adopted /\ sweep'[q].running = sweep[q].running
              /\ sweep'[q].generation = sweep[q].generation /\ sweep'[q].found = sweep[q].found
              /\ sweep'[q].left = sweep[q].left
<1>1. setting \in Settings /\ gen[r] \in Gens BY DEF TypeOK
<1>2. gen[r] + 1 \in Gens BY <1>1, SettingFacts DEF Reconfigure
<1>3. gen' \in [All -> Gens] /\ prev' \in [All -> Gens \cup {NoGen}]
      /\ gen'[r] = gen[r] + 1 /\ prev'[r] = gen[r]
      /\ \A q \in All : q # r => gen'[q] = gen[q] /\ prev'[q] = prev[q]
      BY <1>1, <1>2 DEF TypeOK, Reconfigure
<1>4. CASE r \in Replicas
  <2>1. sweep' = [sweep EXCEPT ![r].due = TRUE] BY <1>4 DEF Reconfigure
  <2> QED BY <1>3, <1>4, <2>1, DueSet
<1>5. CASE r \notin Replicas
  <2>1. sweep' = sweep BY <1>5 DEF Reconfigure
  <2> QED BY <1>3, <1>5, <2>1 DEF TypeOK
<1> QED BY <1>4, <1>5

\* A request that is past the store, or minting, is about a token.
Named == \A r \in Replicas : pc[r] \in {"stored", "legacy", "sign"} => req[r].key \in Jtis

LEMMA SweepType ==
  ASSUME TypeInv, NEW r \in Replicas,
         \/ SweepStart(r) \/ SweepEnd(r) \/ SweepFail(r) \/ Reconcile(r)
         \/ \E g \in Gens : SweepScan(r, g)
  PROVE  TypeInv'
<1>1. TypeOK /\ setting \in Settings BY DEF TypeInv, TypeOK
<1>2. UNCHANGED <<setting, now, lag, store, legacy, gen, prev, tokens, pc, req, acked, asked, fresh>>
      BY DEF SweepStart, SweepEnd, SweepFail, Reconcile, SweepScan
<1>3. sweep' \in [Replicas -> Sweeps]
  <2>1. CASE SweepStart(r) BY <1>1, <2>1, SweepStartStep
  <2>2. CASE SweepEnd(r) BY <1>1, <2>2, SweepEndStep
  <2>3. CASE SweepFail(r) BY <1>1, <2>3, SweepFailStep
  <2>4. CASE Reconcile(r)
    <3>1. sweep' = [sweep EXCEPT ![r].due = TRUE] BY <2>4 DEF Reconcile
    <3> QED BY <1>1, <3>1, DueSet
  <2>5. CASE \E g \in Gens : SweepScan(r, g)
    <3>1. PICK g \in Gens : SweepScan(r, g) BY <2>5
    <3> QED BY <1>1, <3>1, SweepScanStep
  <2> QED BY <2>1, <2>2, <2>3, <2>4, <2>5
<1> QED BY <1>1, <1>2, <1>3, SettingKept DEF TypeInv, TypeOK, Alive

LEMMA SweepAdoptType ==
  ASSUME TypeInv, NEW r \in Replicas, NEW j \in Jtis, SweepAdopt(r, j)
  PROVE  TypeInv'
<1>1. TypeOK /\ setting \in Settings /\ setting' = setting /\ now' = now /\ now \in Times
      BY DEF TypeInv, TypeOK, SweepAdopt
<1>2. sweep' \in [Replicas -> Sweeps] BY <1>1, SweepAdoptStep
<1>3. sweep[r].found[j] \in Entries BY <1>1, SweepFacts DEF SweepAdopt
<1>4. store[j] \in Entries \cup {NoEntry} BY <1>1 DEF TypeOK, Keys
<1>5. PICK e \in Entries : e = Renewed(sweep[r].found[j]) BY <1>1, <1>3, RenewedFacts
<1>6. e.until >= now BY <1>1, <1>3, <1>5, RenewedFacts, EntryFacts, SettingFacts
<1>7. PICK f : f = Adopted(store[j], e) OBVIOUS
<1>8. f \in Entries /\ (f = e \/ (f = store[j] /\ store[j] # NoEntry))
      BY <1>1, <1>4, <1>7, AdoptedFacts
<1>9. f.until >= now BY <1>6, <1>8, SettingFacts, EntryFacts DEF TypeInv, Alive, Keys, TypeOK
<1>10. store' = [store EXCEPT ![j] = f] BY <1>5, <1>7 DEF SweepAdopt
<1>11. store' \in [Keys -> Entries \cup {NoEntry}] BY <1>1, <1>8, <1>10 DEF TypeOK
<1>12. \A k \in Keys : store'[k] # NoEntry => now' <= store'[k].until
  <2> SUFFICES ASSUME NEW k \in Keys, store'[k] # NoEntry PROVE now <= store'[k].until BY <1>1
  <2>1. CASE k = j BY <1>1, <1>8, <1>9, <1>10, <2>1, SettingFacts, EntryFacts DEF TypeOK
  <2>2. CASE k # j BY <1>1, <1>10, <2>2 DEF TypeInv, TypeOK, Alive
  <2> QED BY <2>1, <2>2
<1> QED BY <1>1, <1>2, <1>11, <1>12, SettingKept DEF TypeInv, TypeOK, Alive, SweepAdopt

LEMMA ReconfigureType ==
  ASSUME TypeInv, NEW r \in All, Reconfigure(r)
  PROVE  TypeInv'
<1>1. TypeOK /\ setting \in Settings /\ setting' = setting BY DEF TypeInv, TypeOK, Reconfigure
<1>2. gen' \in [All -> Gens] /\ prev' \in [All -> Gens \cup {NoGen}] /\ sweep' \in [Replicas -> Sweeps]
      BY <1>1, ReconfigureStep
<1> QED BY <1>1, <1>2, SettingKept DEF TypeInv, TypeOK, Alive, Reconfigure

\* A revocation of any kind begins the same way, for some key and lifetime.
LEMMA BeginFacts ==
  ASSUME TypeOK, NEW r \in Replicas,
         \/ \E j \in Jtis, ttl \in TTLs : RevokeByMetadata(r, j, ttl)
         \/ \E ttl \in TTLs : RevokeSubject(r, ttl)
         \/ \E t \in tokens : RevokeToken(r, t)
  PROVE  \E k \in Keys, ttl \in Nat : Begin(r, k, ttl)
<1>1. setting \in Settings /\ r \in All /\ Sub \in Keys /\ Jtis \subseteq Keys
      BY SettingFacts DEF TypeOK, Keys
<1>2. TTLs \subseteq Nat BY <1>1, SettingFacts
<1>3. CASE \E j \in Jtis, ttl \in TTLs : RevokeByMetadata(r, j, ttl)
      BY <1>1, <1>2, <1>3 DEF RevokeByMetadata
<1>4. CASE \E ttl \in TTLs : RevokeSubject(r, ttl) BY <1>1, <1>2, <1>4 DEF RevokeSubject
<1>5. CASE \E t \in tokens : RevokeToken(r, t)
  <2>1. PICK t \in tokens : RevokeToken(r, t) BY <1>5
  <2>2. t.jti \in Keys /\ t.exp \in Nat BY <1>1 DEF TypeOK, Tokens
  <2>3. PICK n : n = t.exp - Clock(r) OBVIOUS
  <2>4. Begin(r, t.jti, n) /\ Clock(r) < t.exp BY <2>1, <2>3 DEF RevokeToken, Accepts, ValidAt
  <2>5. n \in Nat BY <1>1, <2>2, <2>3, <2>4, ClockFacts
  <2> QED BY <2>2, <2>4, <2>5
<1> QED BY <1>3, <1>4, <1>5

\* The steps, one disjunct each.
Step(r) ==
  \/ \E j \in Jtis, ttl \in TTLs, auth \in 0..Clock(r) : MintCheck(r, j, auth, ttl)
  \/ MintSign(r)
  \/ \E k \in Keys, ttl \in Nat : Begin(r, k, ttl)
  \/ RevokeStore(r)
  \/ RevokeAgain(r)
  \/ RevokeLegacy(r)
  \/ RevokeAbort(r)
  \/ SweepStart(r)
  \/ \E g \in Gens : SweepScan(r, g)
  \/ \E j \in Jtis : SweepAdopt(r, j)
  \/ SweepEnd(r)
  \/ SweepFail(r)
  \/ Reconcile(r)

LEMMA Steps ==
  ASSUME TypeOK, [Next]_vars
  PROVE  \/ UNCHANGED vars
         \/ Tick
         \/ \E r \in Replicas : Step(r)
         \/ \E o \in OldReplicas, j \in Jtis : LegacyRevoke(o, j)
         \/ \E r \in All : Reconfigure(r)
<1>1. ASSUME NEW r \in Replicas, Request(r) PROVE Step(r)
      BY <1>1, BeginFacts DEF Request, Step
<1>2. ASSUME NEW r \in Replicas, SweepStart(r) \/ Pass(r) \/ SweepFail(r) \/ Reconcile(r)
      PROVE Step(r)
      BY <1>2 DEF Pass, Step
<1> QED BY <1>1, <1>2 DEF Next

LEMMA NextType ==
  ASSUME TypeInv, Named, [Next]_vars
  PROVE  TypeInv'
<1>1. TypeOK BY DEF TypeInv
<1>2. CASE UNCHANGED vars
      BY <1>2, SettingKept DEF vars, TypeInv, TypeOK, Alive
<1>3. CASE Tick BY <1>3, TickType
<1>4. ASSUME NEW r \in Replicas, Step(r) PROVE TypeInv'
  <2>1. CASE \E j \in Jtis, ttl \in TTLs, auth \in 0..Clock(r) : MintCheck(r, j, auth, ttl)
        BY <2>1, MintCheckType
  <2>2. CASE MintSign(r) BY <2>2, MintSignType DEF Named
  <2>3. CASE \E k \in Keys, ttl \in Nat : Begin(r, k, ttl) BY <2>3, BeginType
  <2>4. CASE RevokeStore(r) BY <2>4, RevokeStoreType
  <2>5. CASE RevokeLegacy(r) BY <2>5, RevokeLegacyType DEF Named
  <2>6. CASE RevokeAgain(r) \/ RevokeAbort(r) BY <2>6, RevokeAgainType, RevokeAbortType
  <2>7. CASE \E j \in Jtis : SweepAdopt(r, j) BY <2>7, SweepAdoptType
  <2>8. CASE \/ SweepStart(r) \/ SweepEnd(r) \/ SweepFail(r) \/ Reconcile(r)
             \/ \E g \in Gens : SweepScan(r, g)
        BY <2>8, SweepType
  <2> QED BY <1>4, <2>1, <2>2, <2>3, <2>4, <2>5, <2>6, <2>7, <2>8 DEF Step
<1>5. CASE \E o \in OldReplicas, j \in Jtis : LegacyRevoke(o, j) BY <1>5, LegacyRevokeType
<1>6. CASE \E r \in All : Reconfigure(r) BY <1>6, ReconfigureType
<1> QED BY <1>1, <1>2, <1>3, <1>4, <1>5, <1>6, Steps

LEMMA NextNamed ==
  ASSUME TypeOK, Named, [Next]_vars
  PROVE  Named'
<1>1. Replicas' = Replicas /\ setting \in Settings BY NextKeepsSetting, SettingKept DEF TypeOK
<1>2. CASE UNCHANGED <<pc, req>> BY <1>1, <1>2 DEF Named
<1>3. ASSUME NEW r \in Replicas, Step(r), ~UNCHANGED <<pc, req>> PROVE Named'
  <2> SUFFICES ASSUME NEW q \in Replicas, pc'[q] \in {"stored", "legacy", "sign"} PROVE req'[q].key \in Jtis
      BY <1>1 DEF Named
  <2>1. CASE q # r
    <3>1. pc'[q] = pc[q] /\ req'[q] = req[q]
          BY <1>3, <2>1 DEF TypeOK, Step, MintCheck, MintSign, Begin, RevokeStore, RevokeAgain, RevokeLegacy,
             RevokeAbort, Acknowledge, SweepStart, SweepScan, SweepAdopt, SweepEnd, SweepFail, Reconcile
    <3> QED BY <3>1 DEF Named
  <2>2. CASE q = r
    <3>1. CASE \E j \in Jtis, ttl \in TTLs, auth \in 0..Clock(r) : MintCheck(r, j, auth, ttl)
          BY <2>2, <3>1 DEF TypeOK, MintCheck
    <3>2. CASE RevokeStore(r)
      <4>1. req'[r] = req[r] /\ req[r].key # Sub BY <2>2, <3>2 DEF TypeOK, RevokeStore, Acknowledge
      <4> QED BY <2>2, <4>1, RequestFacts DEF Keys
    <3>3. CASE \/ MintSign(r) \/ RevokeLegacy(r) \/ RevokeAbort(r)
               \/ \E k \in Keys, ttl \in Nat : Begin(r, k, ttl)
          BY <2>2, <3>3 DEF TypeOK, MintSign, RevokeLegacy, Acknowledge, RevokeAbort, Begin
    <3>4. CASE \/ SweepStart(r) \/ SweepEnd(r) \/ SweepFail(r) \/ Reconcile(r)
               \/ \E g \in Gens : SweepScan(r, g)
               \/ \E j \in Jtis : SweepAdopt(r, j)
          BY <1>3, <3>4 DEF SweepStart, SweepEnd, SweepFail, Reconcile, SweepScan, SweepAdopt
    <3>5. CASE RevokeAgain(r)
      <4>1. pc[r] = "stored" /\ req'[r].key = req[r].key BY <3>5, RequestFacts DEF TypeOK, RevokeAgain, Requests
      <4> QED BY <2>2, <4>1 DEF Named
    <3> QED BY <1>3, <3>1, <3>2, <3>3, <3>4, <3>5 DEF Step
  <2> QED BY <2>1, <2>2
<1>4. CASE UNCHANGED vars \/ Tick BY <1>2, <1>4 DEF vars, Tick
<1>5. CASE \E o \in OldReplicas, j \in Jtis : LegacyRevoke(o, j) BY <1>2, <1>5 DEF LegacyRevoke
<1>6. CASE \E r \in All : Reconfigure(r) BY <1>2, <1>6 DEF Reconfigure
<1> QED BY <1>2, <1>3, <1>4, <1>5, <1>6, Steps

\* The store, the legacy class, requests and sweeps keep the shape the code
\* gives them: no time is read from a clock that has not started, no entry is
\* written with a lifetime below zero, and a sweep reports no negative time left.
THEOREM TypeCorrect == Spec => [](TypeOK /\ Alive /\ Named)
<1>1. Init => TypeInv /\ Named BY InitType DEF Init, Named
<1>2. TypeInv /\ Named /\ [Next]_vars => TypeInv' /\ Named'
      BY NextType, NextNamed DEF TypeInv
<1>3. TypeInv /\ Named => TypeOK /\ Alive /\ Named BY DEF TypeInv
<1> QED BY <1>1, <1>2, <1>3, PTL DEF Spec
-----------------------------------------------------------------------------
(* What a step may change                                                  *)

\* Time and the times asked for move forward only.
LEMMA Forward ==
  ASSUME TypeOK, [Next]_vars
  PROVE  /\ now' = now \/ (Tick /\ now' = now + 1)
         /\ now' >= now /\ now \in Nat
         /\ \A k \in Keys : asked'[k] \in Int /\ asked[k] \in Int /\ asked'[k] >= asked[k]
<1>1. setting \in Settings /\ now \in Nat BY SettingFacts DEF TypeOK
<1>2. \A k \in Keys : asked[k] \in Int
  <2>1. Times \cup {Untimed, Before} \subseteq Int BY <1>1, SettingFacts DEF Untimed, Before
  <2> QED BY <2>1 DEF TypeOK
<1>3. CASE Tick BY <1>1, <1>2, <1>3 DEF Tick
<1>4. ASSUME NEW r \in All, Clock(r) >= 0, NEW k \in Keys,
             asked' = [asked EXCEPT ![k] = IF @ > Clock(r) THEN @ ELSE Clock(r)]
      PROVE  \A l \in Keys : asked'[l] \in Int /\ asked'[l] >= asked[l]
      BY <1>2, <1>4, ClockFacts DEF TypeOK
<1>5. ASSUME NEW r \in Replicas, Step(r)
      PROVE  now' = now /\ \A l \in Keys : asked'[l] \in Int /\ asked'[l] >= asked[l]
  <2>1. CASE \E k \in Keys, ttl \in Nat : Begin(r, k, ttl)
        BY <1>1, <1>4, <2>1, SettingFacts DEF Begin
  <2>2. CASE asked' = asked /\ now' = now BY <1>2, <2>2
  <2>3. CASE RevokeAgain(r)
    <3>1. r \in All /\ req[r].key \in Keys BY <1>1, SettingFacts, RequestFacts
    <3> QED BY <1>4, <2>3, <3>1 DEF RevokeAgain
  <2> QED BY <1>5, <2>1, <2>2, <2>3 DEF Step, MintCheck, MintSign, RevokeStore, RevokeLegacy, RevokeAbort,
             SweepStart, SweepScan, SweepAdopt, SweepEnd, SweepFail, Reconcile
<1>6. CASE \E o \in OldReplicas, j \in Jtis : LegacyRevoke(o, j)
  <2>1. PICK o \in OldReplicas, j \in Jtis : LegacyRevoke(o, j) BY <1>6
  <2>2. o \in All /\ j \in Keys BY DEF All, Keys
  <2>3. /\ Clock(o) >= 0 /\ now' = now
        /\ asked' = [asked EXCEPT ![j] = IF @ > Clock(o) THEN @ ELSE Clock(o)]
        BY <2>1 DEF LegacyRevoke
  <2>4. \A l \in Keys : asked'[l] \in Int /\ asked'[l] >= asked[l] BY <1>4, <2>2, <2>3
  <2> QED BY <1>1, <1>2, <2>3, <2>4
<1>7. CASE UNCHANGED vars \/ \E r \in All : Reconfigure(r)
      BY <1>1, <1>2, <1>7 DEF vars, Reconfigure
<1> QED BY <1>1, <1>2, <1>3, <1>5, <1>6, <1>7, Steps

\* What may become of the store's entry under k: nothing, its deadline passes,
\* a revocation records its time, or a pass adopts what it found.
StoreStep(k) ==
  \/ store'[k] = store[k]
  \/ Tick /\ store'[k] = NoEntry /\ store[k] # NoEntry /\ store[k].until <= now'
  \/ /\ now' = now /\ store'[k] \in Entries /\ store'[k].at >= 0
     /\ store'[k].until >= now + RevocationTTL
     /\ store[k] # NoEntry => store'[k].at >= store[k].at
     /\ \E r \in Replicas :
          /\ pc[r] = "store" /\ k = req[r].key
          /\ store'[k].at >= req[r].at
          /\ store'[k].at = req[r].at \/ (store[k] # NoEntry /\ store'[k].at = store[k].at)
  \/ /\ now' = now /\ store'[k] \in Entries /\ k \in Jtis
     /\ store[k] # NoEntry => store'[k].at >= store[k].at
     /\ \E r \in Replicas :
          /\ sweep[r].found[k] # NoEntry
          /\ store'[k].at >= sweep[r].found[k].at
          /\ \/ store'[k] = store[k]
             \/ /\ store'[k].at = sweep[r].found[k].at
                /\ store'[k].until = sweep[r].found[k].until + now

LEMMA RevokeStoreStep ==
  ASSUME TypeInv, NEW r \in Replicas, RevokeStore(r)
  PROVE  /\ \A k \in Keys : k # req[r].key => store'[k] = store[k]
         /\ StoreStep(req[r].key) /\ store'[req[r].key] \in Entries
         /\ store'[req[r].key].at >= req[r].at /\ store'[req[r].key].at >= 0
<1>1. TypeOK /\ setting \in Settings /\ now' = now /\ now \in Times
      BY DEF TypeInv, TypeOK, RevokeStore
<1>2. PICK k \in Keys : k = req[r].key BY <1>1, RequestFacts
<1>3. store[k] \in Entries \cup {NoEntry} BY <1>1 DEF TypeOK
<1>4. PICK f : f = RecordRevocation(store[k], req[r].at, req[r].ttl) OBVIOUS
<1>5. store' = [store EXCEPT ![k] = f] BY <1>2, <1>4 DEF RevokeStore
<1>6. /\ f \in Entries /\ f.at >= req[r].at /\ f.at >= 0
      /\ store[k] # NoEntry => f.at >= store[k].at
      /\ f.at = req[r].at \/ (store[k] # NoEntry /\ f.at = store[k].at)
      /\ f.until >= now + RevocationTTL
  <2>1. PICK a \in Times, ttl \in Nat : a = req[r].at /\ ttl = req[r].ttl BY <1>1, RequestFacts
  <2>2. PICK e \in Entries \cup {NoEntry} : e = store[k] BY <1>3
  <2>3. f = RecordRevocation(e, a, ttl) BY <1>4, <2>1, <2>2
  <2>4. /\ f \in Entries /\ f.at >= a /\ f.at >= 0
        /\ e # NoEntry => f.at >= e.at
        /\ f.at = a \/ (e # NoEntry /\ f.at = e.at)
        /\ f.until >= now + RevocationTTL
    <3>1. f \in Entries /\ f.at >= 0 BY <1>1, <2>3, Recorded
    <3>2. f.at >= a BY <1>1, <2>3, Recorded
    <3>3. e # NoEntry => f.at >= e.at BY <1>1, <2>3, Recorded
    <3>4. f.until >= now + RevocationTTL BY <1>1, <2>3, Recorded
    <3>5. f.at = a \/ (e # NoEntry /\ f.at = e.at)
      <4>1. f.at = IF e # NoEntry /\ e.at > a THEN e.at ELSE a BY <2>3 DEF RecordRevocation
      <4> QED BY <4>1
    <3> QED BY <3>1, <3>2, <3>3, <3>4, <3>5
  <2> QED BY <2>1, <2>2, <2>4
<1>7. store'[k] = f /\ \A l \in Keys : l # k => store'[l] = store[l] BY <1>1, <1>5 DEF TypeOK
<1>8. pc[r] = "store" BY DEF RevokeStore
<1> QED BY <1>1, <1>2, <1>6, <1>7, <1>8 DEF StoreStep

LEMMA SweepAdoptStore ==
  ASSUME TypeInv, NEW r \in Replicas, NEW j \in Jtis, SweepAdopt(r, j)
  PROVE  /\ \A k \in Keys : k # j => store'[k] = store[k]
         /\ StoreStep(j) /\ store'[j] \in Entries
         /\ store'[j].at >= sweep[r].found[j].at
<1>1. TypeOK /\ setting \in Settings /\ now' = now /\ now \in Times /\ j \in Keys
      BY DEF TypeInv, TypeOK, SweepAdopt, Keys
<1>2. sweep[r].found[j] \in Entries /\ sweep[r].found[j] # NoEntry BY <1>1, SweepFacts DEF SweepAdopt
<1>3. PICK e \in Entries : e = Renewed(sweep[r].found[j]) BY <1>1, <1>2, RenewedFacts
<1>4. e.at = sweep[r].found[j].at /\ e.until = sweep[r].found[j].until + now
      BY <1>1, <1>2, <1>3, RenewedFacts
<1>5. store[j] \in Entries \cup {NoEntry} BY <1>1 DEF TypeOK
<1>6. PICK f : f = Adopted(store[j], e) OBVIOUS
<1>7. /\ f \in Entries /\ f.at >= e.at
      /\ store[j] # NoEntry => f.at >= store[j].at
      /\ f = e \/ f = store[j]
      BY <1>1, <1>5, <1>6, AdoptedFacts
<1>8. store' = [store EXCEPT ![j] = f] BY <1>3, <1>6 DEF SweepAdopt
<1>9. store'[j] = f /\ \A l \in Keys : l # j => store'[l] = store[l] BY <1>1, <1>8 DEF TypeOK
<1> QED BY <1>1, <1>2, <1>4, <1>7, <1>9 DEF StoreStep

LEMMA StoreSteps ==
  ASSUME TypeInv, [Next]_vars, NEW k \in Keys
  PROVE  StoreStep(k)
<1>1. TypeOK BY DEF TypeInv
<1>2. CASE store' = store BY <1>2 DEF StoreStep
<1>3. CASE Tick
  <2>1. store'[k] = Live(store[k]) BY <1>3 DEF Tick
  <2> QED BY <1>3, <2>1 DEF StoreStep, Live
<1>4. ASSUME NEW r \in Replicas, Step(r), store' # store PROVE StoreStep(k)
  <2>1. RevokeStore(r) \/ \E j \in Jtis : SweepAdopt(r, j)
        BY <1>4 DEF Step, MintCheck, MintSign, Begin, RevokeAgain, RevokeLegacy, RevokeAbort,
             SweepStart, SweepScan, SweepEnd, SweepFail, Reconcile
  <2>2. CASE RevokeStore(r)
    <3>1. CASE k = req[r].key BY <2>2, <3>1, RevokeStoreStep
    <3>2. CASE k # req[r].key
      <4>1. store'[k] = store[k] BY <2>2, <3>2, RevokeStoreStep
      <4> QED BY <4>1 DEF StoreStep
    <3> QED BY <3>1, <3>2
  <2>3. CASE \E j \in Jtis : SweepAdopt(r, j)
    <3>1. PICK j \in Jtis : SweepAdopt(r, j) BY <2>3
    <3>2. CASE k = j BY <3>1, <3>2, SweepAdoptStore
    <3>3. CASE k # j
      <4>1. store'[k] = store[k] BY <3>1, <3>3, SweepAdoptStore
      <4> QED BY <4>1 DEF StoreStep
    <3> QED BY <3>2, <3>3
  <2> QED BY <2>1, <2>2, <2>3
<1>5. CASE \/ UNCHANGED vars \/ \E o \in OldReplicas, j \in Jtis : LegacyRevoke(o, j)
           \/ \E r \in All : Reconfigure(r)
      BY <1>2, <1>5 DEF vars, LegacyRevoke, Reconfigure
<1> QED BY <1>1, <1>2, <1>3, <1>4, <1>5, Steps

\* What may become of a legacy entry: nothing, its deadline passes, or a
\* replica at that generation records a revocation.
LegacyStep(g, j) ==
  \/ legacy'[g][j] = legacy[g][j]
  \/ legacy'[g][j] = NoEntry
  \/ /\ now' = now /\ legacy'[g][j] \in Entries /\ legacy'[g][j].at >= 0
     /\ legacy'[g][j].until >= now + RevocationTTL
     /\ legacy'[g][j].at <= now
     /\ legacy'[g][j].at <= asked'[j] \/ (legacy[g][j] # NoEntry /\ legacy'[g][j].at = legacy[g][j].at)
     /\ \E r \in All : g = gen[r]

LEMMA LegacyWrite ==
  ASSUME TypeInv, LegacyOK, NEW r \in All, NEW i \in Jtis, NEW a \in Times, NEW ttl \in Nat,
         legacy' = [legacy EXCEPT ![gen[r]][i] = RecordRevocation(@, a, ttl)],
         now' = now, a <= now, a <= asked'[i], NEW g \in Gens, NEW j \in Jtis
  PROVE  LegacyStep(g, j)
<1>1. TypeOK /\ setting \in Settings /\ now \in Times /\ gen[r] \in Gens BY DEF TypeInv, TypeOK
<1>2. CASE ~(g = gen[r] /\ j = i)
  <2>1. legacy'[g][j] = legacy[g][j] BY <1>2, LegacyWritten
  <2> QED BY <2>1 DEF LegacyStep
<1>3. CASE g = gen[r] /\ j = i
  <2>1. PICK e \in Entries \cup {NoEntry} : e = legacy[g][j] BY DEF TypeInv, TypeOK
  <2>2. PICK f : f = legacy'[g][j] OBVIOUS
  <2>3. legacy'[gen[r]][i] = RecordRevocation(legacy[gen[r]][i], a, ttl)
        BY ONLY <1>1, i \in Jtis, TypeOK,
                legacy' = [legacy EXCEPT ![gen[r]][i] = RecordRevocation(@, a, ttl)] DEF TypeOK
  <2>4. f = RecordRevocation(e, a, ttl) BY <1>3, <2>1, <2>2, <2>3
  <2>5. /\ f \in Entries /\ f.at >= 0
        /\ f.at = a \/ (e # NoEntry /\ f.at = e.at)
        /\ f.until >= now + RevocationTTL
        BY <1>1, <2>4, Recorded
  <2>6. e # NoEntry => e.at <= now BY <2>1 DEF LegacyOK, Fits
  <2>7. f.at <= now BY <2>5, <2>6
  <2>8. f.at <= asked'[j] \/ (e # NoEntry /\ f.at = e.at) BY <1>3, <2>5
  <2> QED BY <1>3, <2>1, <2>2, <2>5, <2>7, <2>8 DEF LegacyStep
<1> QED BY <1>2, <1>3

LEMMA LegacySteps ==
  ASSUME TypeInv, Named, RequestsOK, LegacyOK, [Next]_vars, NEW g \in Gens, NEW j \in Jtis
  PROVE  LegacyStep(g, j)
<1>1. TypeOK /\ setting \in Settings BY DEF TypeInv, TypeOK
<1>2. CASE legacy' = legacy BY <1>2 DEF LegacyStep
<1>3. CASE Tick
  <2>1. legacy'[g][j] = Live(legacy[g][j]) BY <1>3 DEF Tick
  <2> QED BY <2>1 DEF LegacyStep, Live
<1>4. ASSUME NEW r \in Replicas, Step(r), legacy' # legacy PROVE LegacyStep(g, j)
  <2>1. RevokeLegacy(r)
        BY <1>4 DEF Step, MintCheck, MintSign, Begin, RevokeStore, RevokeAgain, RevokeAbort,
             SweepStart, SweepScan, SweepAdopt, SweepEnd, SweepFail, Reconcile
  <2>2. pc[r] = "legacy" /\ now' = now /\ asked' = asked BY <2>1 DEF RevokeLegacy
  <2>3. PICK i \in Jtis : i = req[r].key BY <2>2 DEF Named
  <2>4. PICK a \in Times, ttl \in Nat : a = req[r].again /\ ttl = req[r].ttl BY <1>1, RequestFacts
  <2>5. legacy' = [legacy EXCEPT ![gen[r]][i] = RecordRevocation(@, a, ttl)]
        BY <2>1, <2>3, <2>4 DEF RevokeLegacy
  <2>6. a <= now /\ a <= asked'[i] BY <2>2, <2>3, <2>4 DEF RequestsOK
  <2>7. r \in All BY <1>1, SettingFacts
  <2> QED BY <2>2, <2>5, <2>6, <2>7, LegacyWrite
<1>5. CASE \E o \in OldReplicas, i \in Jtis : LegacyRevoke(o, i)
  <2>1. PICK o \in OldReplicas, i \in Jtis : LegacyRevoke(o, i) BY <1>5
  <2>2. o \in All /\ i \in Keys BY DEF All, Keys
  <2>3. PICK a \in Times : a = Clock(o) BY <1>1, <2>1, <2>2, ClockFacts DEF LegacyRevoke
  <2>4. a <= now BY <1>1, <2>2, <2>3, ClockFacts
  <2>5. now' = now /\ legacy' = [legacy EXCEPT ![gen[o]][i] = RecordRevocation(@, a, 0)]
        /\ asked' = [asked EXCEPT ![i] = IF @ > a THEN @ ELSE a]
        BY <2>1, <2>3 DEF LegacyRevoke
  <2>6. a <= asked'[i]
    <3>1. asked'[i] = IF asked[i] > a THEN asked[i] ELSE a BY <1>1, <2>2, <2>5 DEF TypeOK
    <3>2. a \in Int /\ asked[i] \in Int BY <1>1, <2>2, Forward, SettingFacts
    <3> QED BY <3>1, <3>2
  <2> QED BY <2>2, <2>4, <2>5, <2>6, LegacyWrite
<1>6. CASE UNCHANGED vars \/ \E r \in All : Reconfigure(r)
      BY <1>2, <1>6 DEF vars, Reconfigure
<1> QED BY <1>1, <1>2, <1>3, <1>4, <1>5, <1>6, Steps

\* What may become of what a pass has found: nothing, it is adopted or given
\* up, or one more generation is scanned.
FoundStep(r, j) ==
  \/ sweep'[r].found[j] = sweep[r].found[j]
  \/ sweep'[r].found[j] = NoEntry
  \/ /\ now' = now /\ sweep'[r].found[j] \in Entries
     /\ sweep[r].found[j] # NoEntry => /\ sweep'[r].found[j].at >= sweep[r].found[j].at
                                       /\ sweep'[r].found[j].until >= sweep[r].found[j].until
     /\ \E g \in Gens :
          /\ legacy[g][j] # NoEntry
          /\ sweep'[r].found[j].at >= legacy[g][j].at
          /\ sweep'[r].found[j].until >= legacy[g][j].until - now
          /\ \/ sweep'[r].found[j].at = legacy[g][j].at
             \/ sweep[r].found[j] # NoEntry /\ sweep'[r].found[j].at = sweep[r].found[j].at

\* One generation scanned: an entry of it is found, or a later one was.
LEMMA FoundFacts ==
  ASSUME TypeInv, NEW r \in Replicas, NEW g \in Gens, NEW j \in Jtis
  PROVE  /\ legacy[g][j] = NoEntry => Found(r, g, j) = sweep[r].found[j]
         /\ legacy[g][j] # NoEntry =>
              /\ Found(r, g, j) \in Entries /\ Found(r, g, j) # NoEntry
              /\ Found(r, g, j).at >= legacy[g][j].at
              /\ Found(r, g, j).until >= legacy[g][j].until - now
              /\ sweep[r].found[j] # NoEntry =>
                   /\ Found(r, g, j).at >= sweep[r].found[j].at
                   /\ Found(r, g, j).until >= sweep[r].found[j].until
              /\ \/ Found(r, g, j).at = legacy[g][j].at
                 \/ sweep[r].found[j] # NoEntry /\ Found(r, g, j).at = sweep[r].found[j].at
<1>1. TypeOK /\ setting \in Settings /\ now \in Times BY DEF TypeInv, TypeOK
<1>2. CASE legacy[g][j] = NoEntry BY <1>2 DEF Found
<1>3. CASE legacy[g][j] # NoEntry
  <2>1. PICK l \in Entries : l = legacy[g][j] BY <1>1, <1>3 DEF TypeOK
  <2>2. now <= l.until BY <1>3, <2>1 DEF TypeInv, Alive
  <2>3. PICK e \in Entries : e = Remaining(l) BY <1>1, <2>2, RemainingFacts
  <2>4. e.at = l.at /\ e.until = l.until - now BY <1>1, <2>2, <2>3, RemainingFacts
  <2>5. PICK p \in Entries \cup {NoEntry} : p = sweep[r].found[j] BY <1>1, SweepFacts
  <2>6. PICK f : f = Found(r, g, j) OBVIOUS
  <2>7. f = Strongest(p, e) BY <1>3, <2>1, <2>3, <2>5, <2>6 DEF Found
  <2>8. /\ f \in Entries /\ f # NoEntry
        /\ f.at >= e.at /\ f.until >= e.until
        /\ p # NoEntry => f.at >= p.at /\ f.until >= p.until
        /\ f.at = e.at \/ (p # NoEntry /\ f.at = p.at)
        BY <1>1, <2>7, StrongestFacts
  <2> QED BY <1>3, <2>1, <2>4, <2>5, <2>6, <2>8
<1> QED BY <1>2, <1>3

LEMMA FoundSteps ==
  ASSUME TypeInv, [Next]_vars, NEW r \in Replicas, NEW j \in Jtis
  PROVE  FoundStep(r, j)
<1>1. TypeOK BY DEF TypeInv
<1>2. CASE sweep'[r].found = sweep[r].found BY <1>2 DEF FoundStep
<1>3. ASSUME NEW q \in Replicas, Step(q) PROVE FoundStep(r, j)
  <2>1. CASE SweepStart(q)
    <3>1. sweep'[r].found = sweep[r].found \/ sweep'[r].found = [i \in Jtis |-> NoEntry]
          BY <1>1, <2>1, SweepStartStep
    <3> QED BY <3>1 DEF FoundStep
  <2>2. CASE SweepEnd(q)
    <3>1. sweep'[r].found = sweep[r].found BY <1>1, <2>2, SweepEndStep
    <3> QED BY <3>1 DEF FoundStep
  <2>3. CASE SweepFail(q)
    <3>1. sweep'[r].found = sweep[r].found \/ sweep'[r].found = [i \in Jtis |-> NoEntry]
          BY <1>1, <2>3, SweepFailStep
    <3> QED BY <3>1 DEF FoundStep
  <2>4. CASE Reconcile(q)
    <3>1. sweep' = [sweep EXCEPT ![q].due = TRUE] BY <2>4 DEF Reconcile
    <3>2. sweep'[r].found = sweep[r].found BY <1>1, <3>1, DueSet
    <3> QED BY <3>2 DEF FoundStep
  <2>5. CASE \E g \in Gens : SweepScan(q, g)
    <3>1. PICK g \in Gens : SweepScan(q, g) BY <2>5
    <3>2. now' = now BY <3>1 DEF SweepScan
    <3>3. CASE r # q
      <4>1. sweep'[r] = sweep[r] BY <3>1, <3>3, SweepScanStep
      <4> QED BY <4>1 DEF FoundStep
    <3>4. CASE r = q
      <4>1. sweep'[r].found[j] = Found(r, g, j) BY <3>1, <3>4, SweepScanStep
      <4> HIDE DEF Found
      <4> QED BY <3>2, <4>1, FoundFacts DEF FoundStep
    <3> QED BY <3>3, <3>4
  <2>6. CASE \E i \in Jtis : SweepAdopt(q, i)
    <3>1. PICK i \in Jtis : SweepAdopt(q, i) BY <2>6
    <3>2. sweep'[r].found[j] = sweep[r].found[j] \/ sweep'[r].found[j] = NoEntry
      <4>1. CASE r # q BY <1>1, <3>1, <4>1, SweepAdoptStep
      <4>2. CASE r = q BY <1>1, <3>1, <4>2, SweepAdoptStep
      <4> QED BY <4>1, <4>2
    <3> QED BY <3>2 DEF FoundStep
  <2>7. CASE sweep' = sweep BY <2>7 DEF FoundStep
  <2> QED BY <1>3, <2>1, <2>2, <2>3, <2>4, <2>5, <2>6, <2>7 DEF Step, MintCheck, MintSign, Begin,
             RevokeStore, RevokeAgain, RevokeLegacy, RevokeAbort
<1>4. CASE UNCHANGED vars \/ Tick BY <1>2, <1>4 DEF vars, Tick
<1>5. CASE \E o \in OldReplicas, i \in Jtis : LegacyRevoke(o, i) BY <1>2, <1>5 DEF LegacyRevoke
<1>6. CASE \E q \in All : Reconfigure(q)
  <2>1. sweep'[r].found = sweep[r].found BY <1>1, <1>6, ReconfigureStep
  <2> QED BY <1>2, <2>1
<1> QED BY <1>1, <1>3, <1>4, <1>5, <1>6, Steps
-----------------------------------------------------------------------------
(* Revocations hold                                                        *)

\* Time passes, or a later time is asked for: an entry that has not reached its
\* deadline still fits.
LEMMA FitsOn ==
  ASSUME NEW a \in Int, NEW u \in Int, NEW n \in Int, NEW m \in Int, NEW s \in Int, NEW t \in Int,
         NEW ttl \in Nat, Fits(a, u, n, s, ttl), n <= m, m <= u, s <= t
  PROVE  Fits(a, u, m, t, ttl)
BY DEF Fits

LEMMA NextStoreOK ==
  ASSUME TypeInv, TypeInv', StoreOK, FoundOK, RequestsOK, [Next]_vars
  PROVE  StoreOK'
<1>1. TypeOK /\ setting \in Settings /\ RevocationTTL' = RevocationTTL /\ RevocationTTL \in Nat
      BY NextKeepsSetting, SettingKept, SettingFacts DEF TypeInv, TypeOK
<1> SUFFICES ASSUME NEW k \in Keys, store'[k] # NoEntry
             PROVE  Fits(store'[k].at, store'[k].until, now', asked'[k], RevocationTTL)
    BY <1>1 DEF StoreOK
<1>2. now \in Int /\ now' \in Int /\ now <= now' /\ asked[k] \in Int /\ asked'[k] \in Int
      /\ asked[k] <= asked'[k]
      BY <1>1, Forward
<1>3. now' <= store'[k].until BY DEF TypeInv, Alive
<1>4. store[k] # NoEntry => store[k] \in Entries /\ store[k].at \in Int /\ store[k].until \in Int
      BY <1>1, EntryFacts DEF TypeOK
<1>5. CASE store'[k] = store[k]
      BY <1>1, <1>2, <1>3, <1>4, <1>5, FitsOn DEF StoreOK
<1>6. CASE /\ now' = now /\ store'[k] \in Entries /\ store'[k].at >= 0
           /\ store'[k].until >= now + RevocationTTL
           /\ \E r \in Replicas :
                /\ pc[r] = "store" /\ k = req[r].key
                /\ store'[k].at = req[r].at \/ (store[k] # NoEntry /\ store'[k].at = store[k].at)
  <2>1. PICK r \in Replicas :
                /\ pc[r] = "store" /\ k = req[r].key
                /\ store'[k].at = req[r].at \/ (store[k] # NoEntry /\ store'[k].at = store[k].at)
        BY <1>6
  <2>2. store'[k].at <= now /\ store'[k].at <= asked[k] BY <2>1 DEF RequestsOK, StoreOK, Fits
  <2>3. PICK a \in Int, u \in Int : a = store'[k].at /\ u = store'[k].until BY <1>1, <1>6, EntryFacts
  <2>4. Fits(a, u, now, asked[k], RevocationTTL)
        BY <1>1, <1>2, <1>6, <2>2, <2>3 DEF Fits, Untimed
  <2>5. Fits(a, u, now, asked'[k], RevocationTTL)
        BY <1>1, <1>2, <1>3, <1>6, <2>3, <2>4, FitsOn
  <2> QED BY <1>6, <2>3, <2>5
<1>7. CASE /\ now' = now /\ store'[k] \in Entries /\ k \in Jtis
           /\ \E r \in Replicas :
                /\ sweep[r].found[k] # NoEntry
                /\ store'[k].at = sweep[r].found[k].at
                /\ store'[k].until = sweep[r].found[k].until + now
  <2>1. Fits(store'[k].at, store'[k].until, now, asked[k], RevocationTTL) BY <1>7 DEF FoundOK
  <2>2. PICK a \in Int, u \in Int : a = store'[k].at /\ u = store'[k].until BY <1>1, <1>7, EntryFacts
  <2>3. Fits(a, u, now, asked'[k], RevocationTTL)
        BY <1>1, <1>2, <1>3, <1>7, <2>1, <2>2, FitsOn
  <2> QED BY <1>7, <2>2, <2>3
<1>8. StoreStep(k) BY StoreSteps
<1> QED BY <1>5, <1>6, <1>7, <1>8 DEF StoreStep

LEMMA NextLegacyOK ==
  ASSUME TypeInv, TypeInv', Named, LegacyOK, RequestsOK, [Next]_vars
  PROVE  LegacyOK'
<1>1. TypeOK /\ setting \in Settings /\ RevocationTTL' = RevocationTTL /\ RevocationTTL \in Nat
      /\ Gens' = Gens
      BY NextKeepsSetting, SettingKept, SettingFacts DEF TypeInv, TypeOK
<1> SUFFICES ASSUME NEW g \in Gens, NEW j \in Jtis, legacy'[g][j] # NoEntry
             PROVE  Fits(legacy'[g][j].at, legacy'[g][j].until, now', asked'[j], RevocationTTL)
    BY <1>1 DEF LegacyOK
<1>2. now \in Int /\ now' \in Int /\ now <= now' /\ asked[j] \in Int /\ asked'[j] \in Int
      /\ asked[j] <= asked'[j]
      BY <1>1, Forward DEF Keys
<1>3. now' <= legacy'[g][j].until BY <1>1 DEF TypeInv, Alive
<1>4. legacy[g][j] # NoEntry => /\ legacy[g][j] \in Entries /\ legacy[g][j].at \in Int
                                /\ legacy[g][j].until \in Int
      BY <1>1, EntryFacts DEF TypeOK
<1>5. CASE legacy'[g][j] = legacy[g][j]
      BY <1>1, <1>2, <1>3, <1>4, <1>5, FitsOn DEF LegacyOK
<1>6. CASE /\ now' = now /\ legacy'[g][j] \in Entries /\ legacy'[g][j].at >= 0
           /\ legacy'[g][j].until >= now + RevocationTTL
           /\ legacy'[g][j].at <= now
           /\ legacy'[g][j].at <= asked'[j] \/ (legacy[g][j] # NoEntry /\ legacy'[g][j].at = legacy[g][j].at)
  <2>1. PICK a \in Int, u \in Int : a = legacy'[g][j].at /\ u = legacy'[g][j].until
        BY <1>1, <1>6, EntryFacts
  <2>2. legacy[g][j] # NoEntry => legacy[g][j].at <= asked[j] BY DEF LegacyOK, Fits
  <2>3. a <= asked'[j] BY <1>2, <1>4, <1>6, <2>1, <2>2
  <2>4. Fits(a, u, now, asked'[j], RevocationTTL)
        BY <1>1, <1>2, <1>6, <2>1, <2>3 DEF Fits, Untimed
  <2> QED BY <1>6, <2>1, <2>4
<1>7. LegacyStep(g, j) BY LegacySteps
<1> QED BY <1>5, <1>6, <1>7 DEF LegacyStep

LEMMA NextFoundOK ==
  ASSUME TypeInv, TypeInv', FoundOK, LegacyOK, [Next]_vars
  PROVE  FoundOK'
<1>1. TypeOK /\ setting \in Settings /\ RevocationTTL' = RevocationTTL /\ RevocationTTL \in Nat
      /\ Replicas' = Replicas /\ Entries' = Entries
      BY NextKeepsSetting, SettingKept, SettingFacts DEF TypeInv, TypeOK
<1> SUFFICES ASSUME NEW r \in Replicas, NEW j \in Jtis, sweep'[r].found[j] # NoEntry
             PROVE  Fits(sweep'[r].found[j].at, sweep'[r].found[j].until + now', now', asked'[j],
                         RevocationTTL)
    BY <1>1 DEF FoundOK
<1>2. now \in Int /\ now' \in Int /\ now <= now' /\ asked[j] \in Int /\ asked'[j] \in Int
      /\ asked[j] <= asked'[j]
      BY <1>1, Forward DEF Keys
<1>3. PICK f \in Entries \cup {NoEntry} : f = sweep[r].found[j] BY <1>1, SweepFacts
<1>4. f # NoEntry => f \in Entries /\ f.at \in Int /\ f.until \in Nat
                     /\ Fits(f.at, f.until + now, now, asked[j], RevocationTTL)
      BY <1>1, <1>3, EntryFacts DEF FoundOK
<1>5. CASE sweep'[r].found[j] = f
  <2>1. PICK a \in Int, u \in Nat : a = f.at /\ u = f.until BY <1>4, <1>5
  <2>2. Fits(a, u + now, now, asked[j], RevocationTTL) BY <1>4, <1>5, <2>1
  <2>3. Fits(a, u + now', now', asked'[j], RevocationTTL) BY <1>1, <1>2, <2>2 DEF Fits
  <2> QED BY <1>5, <2>1, <2>3
<1>6. CASE /\ now' = now /\ sweep'[r].found[j] \in Entries
           /\ f # NoEntry => sweep'[r].found[j].at >= f.at /\ sweep'[r].found[j].until >= f.until
           /\ \E g \in Gens :
                /\ legacy[g][j] # NoEntry
                /\ sweep'[r].found[j].until >= legacy[g][j].until - now
                /\ \/ sweep'[r].found[j].at = legacy[g][j].at
                   \/ f # NoEntry /\ sweep'[r].found[j].at = f.at
  <2>1. PICK a \in Int, u \in Nat : a = sweep'[r].found[j].at /\ u = sweep'[r].found[j].until
        BY <1>1, <1>6, EntryFacts
  <2>2. PICK g \in Gens : /\ legacy[g][j] # NoEntry /\ u >= legacy[g][j].until - now
                          /\ a = legacy[g][j].at \/ (f # NoEntry /\ a = f.at)
        BY <1>6, <2>1
  <2>3. PICK l \in Entries : l = legacy[g][j] BY <1>1, <2>2 DEF TypeOK
  <2>4. l.at \in Int /\ l.until \in Nat /\ Fits(l.at, l.until, now, asked[j], RevocationTTL)
        BY <1>1, <2>2, <2>3, EntryFacts DEF LegacyOK
  <2>5. Fits(a, u + now, now, asked[j], RevocationTTL)
    <3>1. CASE a = l.at BY <1>1, <1>2, <2>2, <2>3, <2>4, <3>1 DEF Fits
    <3>2. CASE f # NoEntry /\ a = f.at /\ u >= f.until BY <1>1, <1>2, <1>4, <3>2 DEF Fits
    <3> QED BY <1>6, <2>1, <2>2, <2>3, <3>1, <3>2
  <2>6. Fits(a, u + now, now, asked'[j], RevocationTTL) BY <1>1, <1>2, <2>5 DEF Fits
  <2> QED BY <1>6, <2>1, <2>6
<1>7. FoundStep(r, j) BY FoundSteps
<1> QED BY <1>3, <1>5, <1>6, <1>7 DEF FoundStep

\* What the store holds it keeps holding, or the tokens it is about are dead.
LEMMA HoldsOn ==
  ASSUME TypeInv, StoreOK, [Next]_vars, NEW k \in Keys, NEW a \in Times, Holds(k, a)
  PROVE  Holds(k, a)'
<1>1. TypeOK /\ setting \in Settings /\ RevocationTTL' = RevocationTTL /\ RevocationTTL \in Nat
      /\ a \in Nat
      BY NextKeepsSetting, SettingKept, SettingFacts DEF TypeInv, TypeOK
<1>2. now \in Int /\ now' \in Int /\ now <= now' BY <1>1, Forward
<1>3. CASE now >= a + RevocationTTL BY <1>1, <1>2, <1>3 DEF Holds
<1>4. CASE store[k] # NoEntry /\ store[k].at >= a
  <2>1. store[k] \in Entries /\ store[k].at \in Int /\ store[k].until \in Nat
        BY <1>1, <1>4, EntryFacts DEF TypeOK
  <2>2. store[k].at + RevocationTTL <= store[k].until
        BY <1>1, <1>4, <2>1 DEF StoreOK, Fits, Untimed
  <2>3. CASE store'[k] = store[k] BY <1>4, <2>3 DEF Holds
  <2>4. CASE store'[k] = NoEntry /\ store[k].until <= now'
        BY <1>1, <1>2, <1>4, <2>1, <2>2, <2>4 DEF Holds
  <2>5. CASE store'[k] \in Entries /\ store'[k].at >= store[k].at
    <3>1. store'[k].at \in Int /\ store'[k] # NoEntry BY <1>1, <2>5, EntryFacts
    <3> QED BY <1>1, <1>4, <2>1, <2>5, <3>1 DEF Holds
  <2> QED BY <1>4, <2>3, <2>4, <2>5, StoreSteps DEF StoreStep
<1> QED BY <1>3, <1>4 DEF Holds

\* Rounding down to whole seconds never moves a time forward.
LEMMA WholeSecondFacts ==
  ASSUME setting \in Settings, NEW t \in Nat
  PROVE  WholeSecond(t) \in Int /\ WholeSecond(t) <= t
<1>1. Second \in Nat /\ Second > 0 BY SettingFacts
<1>2. t \div Second \in Int /\ t = Second * (t \div Second) + (t % Second) /\ t % Second >= 0
      BY <1>1
<1> QED BY <1>1, <1>2 DEF WholeSecond

\* A session that may mint authenticated after every subject revocation a
\* caller had been told of.
LEMMA MintCheckCut ==
  ASSUME TypeInv, StoreOK, AckedHold, NEW r \in Replicas, NEW j \in Jtis, NEW ttl \in TTLs,
         NEW auth \in 0..Clock(r), MintCheck(r, j, auth, ttl)
  PROVE  auth > acked[Sub]
<1>1. TypeOK /\ setting \in Settings /\ RevocationTTL \in Nat /\ MaxLag \in Nat /\ SessionTTL \in Nat
      /\ SessionTTL + MaxLag <= RevocationTTL /\ r \in All /\ Sub \in Keys /\ Times \subseteq Nat
      BY SettingFacts DEF TypeInv, TypeOK, Keys
<1>2. Clock(r) \in Int /\ Clock(r) >= now - MaxLag /\ now \in Nat BY <1>1, ClockFacts DEF TypeOK
<1>3. auth \in Nat /\ Clock(r) < auth + SessionTTL /\ ~SubjectRevokedSince(auth)
      BY <1>2 DEF MintCheck
<1>4. acked[Sub] \in Times \cup {Before} BY <1>1 DEF TypeOK
<1>5. CASE acked[Sub] = Before BY <1>3, <1>5 DEF Before
<1>6. CASE acked[Sub] # Before
  <2>1. PICK a \in Nat : a = acked[Sub] BY <1>1, <1>4, <1>6
  <2>2. Holds(Sub, a) BY <1>1, <1>6, <2>1 DEF AckedHold
  <2>3. CASE now >= a + RevocationTTL BY <1>1, <1>2, <1>3, <2>1, <2>3
  <2>4. CASE store[Sub] # NoEntry /\ store[Sub].at >= a
    <3>1. store[Sub].at \in Int BY <1>1, <2>4, EntryFacts DEF TypeOK
    <3>2. ~(WholeSecond(auth) <= store[Sub].at)
          BY <1>3, <2>4 DEF SubjectRevokedSince, RevokedNoEarlierThan
    <3> QED BY <1>1, <1>3, <2>1, <2>4, <3>1, <3>2, WholeSecondFacts
  <2> QED BY <2>2, <2>3, <2>4 DEF Holds
<1> QED BY <1>5, <1>6

LEMMA NextRequestsOK ==
  ASSUME TypeInv, StoreOK, RequestsOK, AckedHold, [Next]_vars
  PROVE  RequestsOK'
<1>1. TypeOK /\ setting \in Settings /\ RevocationTTL' = RevocationTTL /\ Replicas' = Replicas
      BY NextKeepsSetting, SettingKept DEF TypeInv, TypeOK
<1>2. now \in Int /\ now' \in Int /\ now <= now'
      /\ \A k \in Keys : asked[k] \in Int /\ asked'[k] \in Int /\ asked[k] <= asked'[k]
      BY <1>1, Forward
<1> SUFFICES ASSUME NEW q \in Replicas
             PROVE  /\ pc'[q] \in {"store", "stored", "legacy"} => req'[q].at <= now' /\ req'[q].at <= asked'[req'[q].key]
                    /\ pc'[q] \in {"stored", "legacy"} => Holds(req[q].key, req[q].at)'
                    /\ pc'[q] = "legacy" => req'[q].again <= now' /\ req'[q].again <= asked'[req'[q].key]
                    /\ pc'[q] = "sign" => req'[q].auth > req'[q].known
    BY <1>1 DEF RequestsOK
<1>3. PICK k \in Keys, a \in Times : k = req[q].key /\ a = req[q].at BY <1>1, RequestFacts
<1>4. a \in Int BY <1>1, SettingFacts
<1>5. CASE pc'[q] = pc[q] /\ req'[q] = req[q]
  <2>1. pc[q] \in {"store", "stored", "legacy"} => a <= now /\ a <= asked[k] BY <1>3 DEF RequestsOK
  <2>2. pc[q] \in {"store", "stored", "legacy"} => a <= now' /\ a <= asked'[k] BY <1>2, <1>4, <2>1
  <2>4. PICK b \in Int : b = req[q].again BY <1>1, SettingFacts, RequestFacts
  <2>5. pc[q] = "legacy" => b <= now /\ b <= asked[k] BY <1>3, <2>4 DEF RequestsOK
  <2>6. pc[q] = "legacy" => b <= now' /\ b <= asked'[k] BY <1>2, <2>5
  <2>3. ASSUME pc[q] \in {"stored", "legacy"} PROVE Holds(req[q].key, req[q].at)'
    <3>1. Holds(k, a) BY <1>3, <2>3 DEF RequestsOK
    <3>2. Holds(k, a)' BY <3>1, HoldsOn
    <3> QED BY <1>3, <1>5, <3>2 DEF Holds
  <2> QED BY <1>3, <1>5, <2>2, <2>3, <2>4, <2>6 DEF RequestsOK
<1>6. ASSUME NEW r \in Replicas, Step(r), ~(pc'[q] = pc[q] /\ req'[q] = req[q])
      PROVE  /\ pc'[q] \in {"store", "stored", "legacy"} => req'[q].at <= now' /\ req'[q].at <= asked'[req'[q].key]
             /\ pc'[q] \in {"stored", "legacy"} => Holds(req[q].key, req[q].at)'
             /\ pc'[q] = "legacy" => req'[q].again <= now' /\ req'[q].again <= asked'[req'[q].key]
             /\ pc'[q] = "sign" => req'[q].auth > req'[q].known
  <2>1. q = r
        BY <1>1, <1>6 DEF TypeOK, Step, MintCheck, MintSign, Begin, RevokeStore, RevokeAgain, RevokeLegacy,
           RevokeAbort, Acknowledge, SweepStart, SweepScan, SweepAdopt, SweepEnd, SweepFail, Reconcile
  <2>2. CASE \E j \in Jtis, ttl \in TTLs, auth \in 0..Clock(r) : MintCheck(r, j, auth, ttl)
    <3>1. PICK j \in Jtis, ttl \in TTLs, auth \in 0..Clock(r) : MintCheck(r, j, auth, ttl) BY <2>2
    <3>2. auth > acked[Sub] BY <3>1, MintCheckCut
    <3>3. pc'[q] = "sign" /\ req'[q].auth = auth /\ req'[q].known = acked[Sub]
          BY <1>1, <2>1, <3>1 DEF TypeOK, MintCheck, Idle
    <3> QED BY <3>2, <3>3
  <2>3. CASE \E l \in Keys, ttl \in Nat : Begin(r, l, ttl)
    <3>1. PICK l \in Keys, ttl \in Nat : Begin(r, l, ttl) BY <2>3
    <3>2. r \in All BY <1>1, SettingFacts
    <3>3. PICK c \in Int : c = Clock(r) /\ c <= now BY <1>1, <3>2, ClockFacts
    <3>4. pc'[q] = "store" /\ now' = now BY <1>1, <2>1, <3>1 DEF TypeOK, Begin
    <3>5. req'[q].key = l /\ req'[q].at = c BY <1>1, <2>1, <3>1, <3>3 DEF TypeOK, Begin, Idle
    <3>6. asked'[l] = IF asked[l] > c THEN asked[l] ELSE c BY <1>1, <3>1, <3>3 DEF TypeOK, Begin
    <3>7. c <= asked'[l] BY <1>2, <3>6
    <3> QED BY <3>3, <3>4, <3>5, <3>7
  <2>4. CASE RevokeStore(r)
    <3>1. CASE q # r BY <2>1, <3>1
    <3>2. CASE k = Sub
      <4>1. pc'[q] = "idle" BY <1>1, <1>3, <2>1, <2>4, <3>2 DEF TypeOK, RevokeStore, Acknowledge
      <4> QED BY <4>1
    <3>3. CASE k # Sub
      <4>1. pc'[q] = "stored" /\ req' = req /\ now' = now /\ asked' = asked /\ pc[q] = "store"
            BY <1>1, <1>3, <2>1, <2>4, <3>3 DEF TypeOK, RevokeStore
      <4>2. store'[k] \in Entries /\ store'[k].at >= a BY <1>3, <2>1, <2>4, RevokeStoreStep
      <4>3. store'[k] # NoEntry BY <1>1, <4>2, EntryFacts
      <4>4. Holds(req[q].key, req[q].at)' BY <1>3, <4>1, <4>2, <4>3 DEF Holds
      <4> QED BY <4>1, <4>4 DEF RequestsOK
    <3> QED BY <3>2, <3>3
  <2>5. CASE MintSign(r) \/ RevokeLegacy(r) \/ RevokeAbort(r)
    <3>1. pc'[q] = "idle"
          BY <1>1, <2>1, <2>5 DEF TypeOK, MintSign, RevokeLegacy, RevokeAbort, Acknowledge
    <3> QED BY <3>1
  <2>6. CASE \/ SweepStart(r) \/ SweepEnd(r) \/ SweepFail(r) \/ Reconcile(r)
             \/ \E g \in Gens : SweepScan(r, g)
             \/ \E j \in Jtis : SweepAdopt(r, j)
        BY <1>6, <2>6 DEF SweepStart, SweepEnd, SweepFail, Reconcile, SweepScan, SweepAdopt
  <2>7. CASE RevokeAgain(r)
    <3>1. r \in All BY <1>1, SettingFacts
    <3>2. PICK c \in Int : c = Clock(r) /\ c <= now BY <1>1, <3>1, ClockFacts
    <3>3. pc'[q] = "legacy" /\ pc[q] = "stored" /\ now' = now BY <1>1, <2>1, <2>7 DEF TypeOK, RevokeAgain
    <3>4. req'[q].key = k /\ req'[q].at = a /\ req'[q].again = c
          BY <1>1, <1>3, <2>1, <2>7, <3>2, RequestFacts DEF TypeOK, RevokeAgain, Requests
    <3>5. asked'[k] = IF asked[k] > c THEN asked[k] ELSE c
          BY <1>1, <1>3, <2>1, <2>7, <3>2 DEF TypeOK, RevokeAgain
    <3>6. c <= asked'[k] BY <1>2, <3>5
    <3>7. a <= now /\ a <= asked[k] /\ Holds(k, a) BY <1>3, <3>3 DEF RequestsOK
    <3>8. a <= asked'[k] BY <1>2, <1>4, <3>7
    <3>9. Holds(k, a)' BY <3>7, HoldsOn
    <3>10. Holds(req[q].key, req[q].at)' BY <3>4, <3>9 DEF Holds
    <3> QED BY <3>2, <3>3, <3>4, <3>6, <3>7, <3>8, <3>10
  <2> QED BY <1>6, <2>2, <2>3, <2>4, <2>5, <2>6, <2>7 DEF Step
<1>7. CASE UNCHANGED vars \/ Tick BY <1>5, <1>7 DEF vars, Tick
<1>8. CASE \E o \in OldReplicas, j \in Jtis : LegacyRevoke(o, j) BY <1>5, <1>8 DEF LegacyRevoke
<1>9. CASE \E r \in All : Reconfigure(r) BY <1>5, <1>9 DEF Reconfigure
<1> QED BY <1>1, <1>5, <1>6, <1>7, <1>8, <1>9, Steps

\* Acknowledging raises one key's time, to one that holds.
LEMMA Acknowledged ==
  ASSUME TypeInv, StoreOK, AckedHold, [Next]_vars, NEW r \in Replicas, Acknowledge(r),
         NEW k \in Keys, NEW a \in Times, k = req[r].key, a = req[r].at, Holds(k, a)'
  PROVE  AckedHold'
<1>1. TypeOK BY DEF TypeInv
<1> SUFFICES ASSUME NEW l \in Keys, acked'[l] # Before PROVE Holds(l, acked[l])' BY DEF AckedHold
<1>2. acked' = [acked EXCEPT ![k] = IF @ > a THEN @ ELSE a] BY DEF Acknowledge
<1>3. CASE l = k /\ acked'[l] = a BY <1>3 DEF Holds
<1>4. CASE acked'[l] = acked[l]
  <2>1. PICK b \in Times : b = acked[l] BY <1>1, <1>4 DEF TypeOK
  <2>2. Holds(l, b) BY <1>4, <2>1 DEF AckedHold
  <2>3. Holds(l, b)' BY <2>2, HoldsOn
  <2> QED BY <1>4, <2>1, <2>3 DEF Holds
<1> QED BY <1>1, <1>2, <1>3, <1>4 DEF TypeOK

LEMMA NextAckedHold ==
  ASSUME TypeInv, Named, StoreOK, RequestsOK, AckedHold, [Next]_vars
  PROVE  AckedHold'
<1>1. TypeOK /\ setting \in Settings BY DEF TypeInv, TypeOK
<1>2. CASE acked' = acked
  <2> SUFFICES ASSUME NEW l \in Keys, acked'[l] # Before PROVE Holds(l, acked[l])' BY DEF AckedHold
  <2>1. PICK b \in Times : b = acked[l] BY <1>1, <1>2 DEF TypeOK
  <2>2. Holds(l, b) BY <1>2, <2>1 DEF AckedHold
  <2>3. Holds(l, b)' BY <2>2, HoldsOn
  <2> QED BY <1>2, <2>1, <2>3 DEF Holds
<1>3. ASSUME NEW r \in Replicas, Step(r), acked' # acked PROVE AckedHold'
  <2>1. PICK k \in Keys, a \in Times : k = req[r].key /\ a = req[r].at BY <1>1, RequestFacts
  <2>2. CASE RevokeStore(r)
    <3>1. Acknowledge(r) BY <1>3, <2>2 DEF RevokeStore
    <3>2. store'[k] \in Entries /\ store'[k].at >= a BY <2>1, <2>2, RevokeStoreStep
    <3>3. store'[k] # NoEntry BY <1>1, <3>2, EntryFacts
    <3>4. Holds(k, a)' BY <3>2, <3>3 DEF Holds
    <3> QED BY <2>1, <3>1, <3>4, Acknowledged
  <2>3. CASE RevokeLegacy(r)
    <3>1. Acknowledge(r) /\ pc[r] = "legacy" BY <2>3 DEF RevokeLegacy
    <3>2. Holds(k, a) BY <2>1, <3>1 DEF RequestsOK
    <3>3. Holds(k, a)' BY <3>2, HoldsOn
    <3> QED BY <2>1, <3>1, <3>3, Acknowledged
  <2> QED BY <1>3, <2>2, <2>3 DEF Step, MintCheck, MintSign, Begin, RevokeAgain, RevokeAbort,
             SweepStart, SweepScan, SweepAdopt, SweepEnd, SweepFail, Reconcile
<1>4. CASE UNCHANGED vars \/ Tick BY <1>2, <1>4 DEF vars, Tick
<1>5. CASE \E o \in OldReplicas, j \in Jtis : LegacyRevoke(o, j) BY <1>2, <1>5 DEF LegacyRevoke
<1>6. CASE \E r \in All : Reconfigure(r) BY <1>2, <1>6 DEF Reconfigure
<1> QED BY <1>1, <1>2, <1>3, <1>4, <1>5, <1>6, Steps

LEMMA NextCutoff ==
  ASSUME TypeOK, RequestsOK, CutoffRefusesMint, [Next]_vars
  PROVE  CutoffRefusesMint'
<1>1. CASE tokens' = tokens BY <1>1 DEF CutoffRefusesMint
<1>2. ASSUME NEW r \in Replicas, Step(r), tokens' # tokens PROVE CutoffRefusesMint'
  <2>1. MintSign(r)
        BY <1>2 DEF Step, MintCheck, Begin, RevokeStore, RevokeAgain, RevokeLegacy, RevokeAbort,
           SweepStart, SweepScan, SweepAdopt, SweepEnd, SweepFail, Reconcile
  <2>2. PICK t : t = [jti |-> req[r].key, iat |-> Clock(r), exp |-> Clock(r) + req[r].ttl,
                      auth |-> req[r].auth, known |-> req[r].known] OBVIOUS
  <2>3. tokens' \subseteq tokens \cup {t} BY <2>1, <2>2 DEF MintSign
  <2>4. t.auth = req[r].auth /\ t.known = req[r].known BY <2>2
  <2>5. t.auth > t.known BY <2>1, <2>4 DEF MintSign, RequestsOK
  <2> QED BY <2>3, <2>5 DEF CutoffRefusesMint
<1>3. CASE UNCHANGED vars \/ Tick BY <1>1, <1>3 DEF vars, Tick
<1>4. CASE \E o \in OldReplicas, j \in Jtis : LegacyRevoke(o, j) BY <1>1, <1>4 DEF LegacyRevoke
<1>5. CASE \E r \in All : Reconfigure(r) BY <1>1, <1>5 DEF Reconfigure
<1> QED BY <1>1, <1>2, <1>3, <1>4, <1>5, Steps

LEMMA InitRevocation ==
  ASSUME Init
  PROVE  RevocationInv
<1>1. TypeOK /\ setting \in Settings /\ now = 0 /\ RevocationTTL \in Nat
      BY InitType, SettingFacts DEF TypeInv, Init
<1>2. PICK old \in [Jtis -> IF MaxGen = 0 \/ setting.swept THEN {NoEntry} ELSE Stranded] :
        /\ legacy = [g \in Gens |-> IF g = 0 THEN old ELSE [j \in Jtis |-> NoEntry]]
        /\ asked = [k \in Keys |-> IF k \in Jtis /\ old[k] # NoEntry
                                   THEN old[k].at ELSE Before]
      BY DEF Init
<1>3. LegacyOK
  <2> SUFFICES ASSUME NEW g \in Gens, NEW j \in Jtis, legacy[g][j] # NoEntry
               PROVE  Fits(legacy[g][j].at, legacy[g][j].until, now, asked[j], RevocationTTL)
      BY DEF LegacyOK
  <2>1. legacy[g][j] = old[j] /\ old[j] # NoEntry /\ j \in Keys BY <1>2 DEF Keys
  <2>2. old[j].at \in {Untimed, 0} /\ old[j].until = RevocationTTL BY <2>1 DEF Stranded
  <2>3. asked[j] = old[j].at BY <1>2, <2>1
  <2> QED BY <1>1, <2>1, <2>2, <2>3 DEF Fits, Untimed
<1>4. StoreOK BY DEF Init, StoreOK
<1>5. FoundOK
  <2> SUFFICES ASSUME NEW r \in Replicas, NEW j \in Jtis PROVE sweep[r].found[j] = NoEntry
      BY DEF FoundOK
  <2>1. PICK n \in Sweeps : n = NoSweep BY NoSweepType
  <2>2. sweep[r] = IF setting.swept THEN [n EXCEPT !.adopted = gen[r]] ELSE [n EXCEPT !.due = TRUE]
        BY <2>1 DEF Init
  <2>3. sweep[r].found = n.found BY <2>2 DEF Sweeps
  <2> QED BY <2>1, <2>3, NoSweepType
<1>6. RequestsOK BY DEF Init, RequestsOK
<1>7. AckedHold /\ CutoffRefusesMint BY DEF Init, AckedHold, CutoffRefusesMint
<1> QED BY <1>3, <1>4, <1>5, <1>6, <1>7 DEF RevocationInv

\* The inductive invariant of revocation: every entry was asked for and outlives
\* the tokens it revokes; what a caller was told of, the store holds until those
\* tokens are dead, through re-revocation, sweeps, expiry and lagging clocks.
THEOREM RevocationInvariant == Spec => []RevocationInv
<1>1. Init => RevocationInv BY InitRevocation
<1>2. RevocationInv /\ TypeInv /\ TypeInv' /\ Named /\ [Next]_vars => RevocationInv'
      BY NextStoreOK, NextLegacyOK, NextFoundOK, NextRequestsOK, NextAckedHold, NextCutoff
         DEF RevocationInv, TypeInv
<1>3. (TypeOK /\ Alive /\ Named) <=> (TypeInv /\ Named) BY DEF TypeInv
<1> QED BY <1>1, <1>2, <1>3, TypeCorrect, PTL DEF Spec

\* Every lifetime the host mints ends before a revocation may be forgotten:
\* the case for a host with a maximum lifetime.
LifetimesFit == \A ttl \in TTLs : TTLAllowed(ttl) => ttl + MaxLag <= RevocationTTL

LEMMA BoundedHostFits ==
  ASSUME setting \in Settings, MaxTTL # 0
  PROVE  LifetimesFit
BY SettingFacts DEF LifetimesFit, TTLAllowed

LEMMA HeldIsRefused ==
  ASSUME TypeOK, LifetimesFit, NEW k \in Keys, acked[k] # Before => Holds(k, acked[k]),
         NEW t \in Mintable, k \in {t.jti, Sub}, t.iat <= acked[k], NEW r \in Replicas
  PROVE  ~Accepts(r, t)
<1>1. setting \in Settings /\ RevocationTTL \in Nat /\ MaxLag \in Nat /\ r \in All /\ Times \subseteq Nat
      /\ TTLs \subseteq Nat
      BY SettingFacts DEF TypeOK
<1>2. PICK j \in Jtis, i \in Times, ttl \in {d \in TTLs : TTLAllowed(d)} :
         t = [jti |-> j, iat |-> i, exp |-> i + ttl]
      BY DEF Mintable
<1>3. t.iat = i /\ t.exp = i + ttl /\ i \in Nat /\ ttl \in Nat /\ ttl + MaxLag <= RevocationTTL
      BY <1>1, <1>2 DEF LifetimesFit
<1>4. acked[k] \in Times /\ acked[k] # Before
      BY <1>1, <1>3 DEF TypeOK, Before
<1>5. PICK a \in Nat : a = acked[k] BY <1>1, <1>4
<1>6. Holds(k, a) BY <1>4, <1>5
<1>7. CASE now >= a + RevocationTTL
  <2>1. Clock(r) \in Int /\ Clock(r) >= now - MaxLag /\ now \in Nat
        BY <1>1, ClockFacts DEF TypeOK
  <2>2. ~(Clock(r) < t.exp) BY <1>1, <1>3, <1>5, <1>7, <2>1
  <2> QED BY <2>2 DEF Accepts, ValidAt
<1>8. CASE store[k] # NoEntry /\ store[k].at >= a
  <2>1. store[k].at \in Int BY <1>1, <1>8, EntryFacts DEF TypeOK
  <2>2. RevokedNoEarlierThan(store[k], t.iat) BY <1>3, <1>5, <1>8, <2>1 DEF RevokedNoEarlierThan
  <2>3. store[k] \in {store[t.jti], store[Sub], LegacyGet(r, t.jti)} OBVIOUS
  <2>4. Revoked(r, t) BY <1>8, <2>2, <2>3 DEF Revoked
  <2> QED BY <2>4 DEF Accepts
<1> QED BY <1>6, <1>7, <1>8 DEF Holds

\* For every deployment whose lifetimes fit, any number of replicas with lagging
\* clocks, reconfigurations and sweeps: a token issued up to a revocation its
\* caller was told of is refused by every replica for good.
THEOREM RevokedForGood == Spec => [](LifetimesFit => RevokedStaysRevoked)
<1>1. TypeOK /\ RevocationInv => (LifetimesFit => RevokedStaysRevoked)
  <2> SUFFICES ASSUME TypeOK, RevocationInv, LifetimesFit, NEW t \in Mintable, NEW r \in Replicas,
                      t.iat <= acked[t.jti] \/ t.iat <= acked[Sub]
               PROVE  ~Accepts(r, t)
      BY DEF RevokedStaysRevoked
  <2>1. t.jti \in Keys /\ Sub \in Keys BY DEF Mintable, Keys
  <2>2. \A k \in Keys : acked[k] # Before => Holds(k, acked[k]) BY DEF RevocationInv, AckedHold
  <2>3. CASE t.iat <= acked[t.jti] BY <2>1, <2>2, <2>3, HeldIsRefused
  <2>4. CASE t.iat <= acked[Sub] BY <2>1, <2>2, <2>4, HeldIsRefused
  <2> QED BY <2>3, <2>4
<1> QED BY <1>1, TypeCorrect, RevocationInvariant, PTL

\* A session that authenticated no later than a subject revocation acknowledged
\* when it asked for a key never gets one: not through the rounding of sign-in
\* times to whole seconds, a lagging clock or the expiry of the revocation.
THEOREM CutoffHolds == Spec => []CutoffRefusesMint
<1>1. RevocationInv => CutoffRefusesMint BY DEF RevocationInv
<1> QED BY <1>1, RevocationInvariant, PTL
-----------------------------------------------------------------------------
(* The sweep                                                               *)

LEMMA NextGensOK ==
  ASSUME TypeOK, GensOK, [Next]_vars
  PROVE  GensOK'
<1>1. setting \in Settings /\ All' = All /\ MaxGen' = MaxGen
      BY NextKeepsSetting, SettingKept DEF TypeOK
<1>2. CASE UNCHANGED <<gen, prev>> BY <1>1, <1>2 DEF GensOK
<1>3. ASSUME NEW r \in All, Reconfigure(r) PROVE GensOK'
  <2>1. gen'[r] = gen[r] + 1 /\ prev'[r] = gen[r]
        /\ \A q \in All : q # r => gen'[q] = gen[q] /\ prev'[q] = prev[q]
        BY <1>3, ReconfigureStep
  <2>2. gen[r] < MaxGen /\ \A q \in All : gen[r] <= gen[q] BY <1>3 DEF Reconfigure
  <2>3. \A q \in All : gen[q] \in Nat BY <1>1, SettingFacts DEF TypeOK
  <2>4. MaxGen \in Nat /\ NoGen \notin Nat BY <1>1, SettingFacts
  <2>5. ASSUME NEW p \in All, NEW q \in All PROVE gen'[p] <= gen'[q] + 1
        BY <2>1, <2>2, <2>3 DEF GensOK
  <2>6. ASSUME NEW q \in All
        PROVE  /\ MaxGen > 0 => gen'[q] > 0
               /\ prev'[q] = NoGen => gen'[q] <= 1
               /\ prev'[q] # NoGen => prev'[q] = gen'[q] - 1 /\ prev'[q] # 0
    <3>1. CASE q = r BY <2>1, <2>2, <2>3, <2>4, <3>1 DEF GensOK
    <3>2. CASE q # r BY <2>1, <3>2 DEF GensOK
    <3> QED BY <3>1, <3>2
  <2> QED BY <1>1, <2>5, <2>6 DEF GensOK
<1>4. CASE \E r \in Replicas : Step(r)
      BY <1>2, <1>4 DEF Step, MintCheck, MintSign, Begin, RevokeStore, RevokeAgain, RevokeLegacy, RevokeAbort,
         SweepStart, SweepScan, SweepAdopt, SweepEnd, SweepFail, Reconcile
<1>5. CASE UNCHANGED vars \/ Tick BY <1>2, <1>5 DEF vars, Tick
<1>6. CASE \E o \in OldReplicas, j \in Jtis : LegacyRevoke(o, j) BY <1>2, <1>6 DEF LegacyRevoke
<1> QED BY <1>3, <1>4, <1>5, <1>6, Steps

\* No replica writes to a generation that another cannot read any more.
LEMMA Unwritten ==
  ASSUME TypeOK, GensOK, NEW q \in All, NEW g \in Unreadable(q), NEW r \in All
  PROVE  g # gen[r]
<1>1. setting \in Settings /\ MaxGen \in Nat /\ gen[r] \in 0..MaxGen /\ gen[q] \in 0..MaxGen
      BY SettingFacts DEF TypeOK
<1>2. g \in Nat /\ g < gen[q] /\ g # prev[q] BY <1>1, SettingFacts DEF Unreadable
<1>3. gen[q] <= gen[r] + 1 /\ (MaxGen > 0 => gen[r] > 0) BY DEF GensOK
<1>4. CASE prev[q] = NoGen
  <2>1. gen[q] <= 1 BY <1>4 DEF GensOK
  <2> QED BY <1>1, <1>2, <1>3, <2>1
<1>5. CASE prev[q] # NoGen
  <2>1. prev[q] = gen[q] - 1 BY <1>5 DEF GensOK
  <2> QED BY <1>1, <1>2, <1>3, <2>1
<1> QED BY <1>4, <1>5

LEMMA NextUntimedOld ==
  ASSUME TypeInv, Named, RequestsOK, LegacyOK, UntimedOld, [Next]_vars
  PROVE  UntimedOld'
<1>1. setting \in Settings /\ Gens' = Gens /\ MaxGen' = MaxGen /\ RevocationTTL' = RevocationTTL
      BY NextKeepsSetting, SettingKept DEF TypeInv, TypeOK
<1> SUFFICES ASSUME NEW g \in Gens, NEW j \in Jtis, legacy'[g][j] # NoEntry, legacy'[g][j].at = Untimed
             PROVE  g = 0 /\ MaxGen > 0 /\ legacy'[g][j].until = RevocationTTL
    BY <1>1 DEF UntimedOld
<1>2. LegacyStep(g, j) BY LegacySteps
<1>3. legacy'[g][j] = legacy[g][j] BY <1>2 DEF LegacyStep, Untimed
<1> QED BY <1>3 DEF UntimedOld

LEMMA LatestIff ==
  ASSUME NEW a, NEW b, a.at \in Int, b.at \in Int
  PROVE  LatestRevocation(a, b).at = a.at <=> b.at <= a.at
<1>1. CASE b.at > a.at BY <1>1 DEF LatestRevocation
<1>2. CASE ~(b.at > a.at) BY <1>2 DEF LatestRevocation
<1> QED BY <1>1, <1>2

\* A generation nobody writes to: what is in force there was before, and the
\* store that covered it still does.
LEMMA CoversOn ==
  ASSUME TypeInv, TypeInv', Named, RevocationInv, UntimedOld, [Next]_vars,
         NEW g \in Gens, NEW j \in Jtis, \A r \in All : g # gen[r], InForce(legacy[g][j])'
  PROVE  /\ legacy'[g][j] = legacy[g][j] /\ InForce(legacy[g][j])
         /\ Covers(j, legacy[g][j]) => Covers(j, legacy[g][j])'
<1>1. TypeOK /\ setting \in Settings /\ RevocationTTL' = RevocationTTL /\ RevocationTTL \in Nat /\ j \in Keys
      BY NextKeepsSetting, SettingKept, SettingFacts DEF TypeInv, TypeOK, Keys
<1>2. now \in Int /\ now' \in Int /\ now <= now' BY <1>1, Forward
<1>3. legacy'[g][j] # NoEntry
      /\ (legacy'[g][j].at = Untimed \/ now' < legacy'[g][j].at + RevocationTTL)
      BY <1>1 DEF InForce
<1>4. LegacyStep(g, j) BY LegacySteps DEF RevocationInv
<1>5. legacy'[g][j] = legacy[g][j] BY <1>3, <1>4 DEF LegacyStep
<1>6. PICK l \in Entries : l = legacy[g][j] BY <1>1, <1>3, <1>5 DEF TypeOK
<1>7. l.at \in Int /\ l.until \in Nat BY <1>1, <1>6, EntryFacts
<1>8. InForce(legacy[g][j]) BY <1>2, <1>1, <1>3, <1>5, <1>6, <1>7 DEF InForce
<1>9. ASSUME Covers(j, legacy[g][j]) PROVE Covers(j, legacy[g][j])'
  <2>1. PICK s \in Entries : s = store[j] BY <1>1, <1>9 DEF Covers, TypeOK
  <2>2. s # NoEntry /\ l.at <= s.at /\ s.at \in Int /\ s.until \in Nat BY <1>1, <1>6, <1>9, <2>1, EntryFacts DEF Covers
  <2>3. Fits(s.at, s.until, now, asked[j], RevocationTTL)
        BY <1>1, <2>1, <2>2 DEF RevocationInv, StoreOK
  <2>4. CASE Tick
    <3>1. legacy'[g][j] = Live(legacy[g][j]) /\ store'[j] = Live(store[j]) BY <1>1, <2>4 DEF Tick
    <3>2. ~(l.until <= now') BY <1>3, <1>5, <1>6, <3>1 DEF Live
    <3>3. ~(s.until <= now')
      <4>1. CASE l.at = Untimed
        <5>1. l.until = RevocationTTL BY <1>3, <1>5, <1>6, <4>1 DEF UntimedOld
        <5>2. s.until >= RevocationTTL
              BY <1>1, <2>2, <2>3, <4>1 DEF Fits, Untimed
        <5> QED BY <1>1, <1>2, <2>2, <3>2, <5>1, <5>2
      <4>2. CASE l.at # Untimed
        <5>1. now' < l.at + RevocationTTL BY <1>3, <1>5, <1>6, <4>2
        <5>2. l.at >= 0 BY <1>1, <1>6, <1>7, <4>2, EntryFacts DEF Untimed
        <5>3. s.at + RevocationTTL <= s.until BY <1>1, <1>7, <2>2, <2>3, <5>2 DEF Fits, Untimed
        <5> QED BY <1>1, <1>2, <1>7, <2>2, <5>1, <5>3
      <4> QED BY <4>1, <4>2
    <3>4. store'[j] = store[j] BY <2>1, <3>1, <3>3 DEF Live
    <3> QED BY <1>5, <1>9, <3>4 DEF Covers
  <2>5. CASE ~Tick
    <3>1. StoreStep(j) BY <1>1, StoreSteps
    <3>2. now' = now BY <1>1, <2>5, Forward
    <3>3. CASE store'[j] = store[j] BY <1>5, <1>9, <3>3 DEF Covers
    <3>4. CASE store'[j] \in Entries /\ store'[j].at >= store[j].at
      <4>1. store'[j] # NoEntry /\ store'[j].at \in Int BY <1>1, <3>4, EntryFacts
      <4>2. l.at <= store'[j].at BY <1>7, <2>1, <2>2, <3>4, <4>1
      <4> QED BY <1>5, <1>6, <4>1, <4>2 DEF Covers
    <3> QED BY <2>1, <2>2, <2>5, <3>1, <3>3, <3>4 DEF StoreStep
  <2> QED BY <2>4, <2>5
<1> QED BY <1>5, <1>8, <1>9

\* The store covers what r cannot read, said with Covers.
LEMMA CoveredIff ==
  ASSUME TypeOK, NEW r \in Replicas
  PROVE  Covered(r) <=> \A g \in Unreadable(r), j \in Jtis :
                           InForce(legacy[g][j]) => Covers(j, legacy[g][j])
<1>1. setting \in Settings BY DEF TypeOK
<1>2. ASSUME NEW g \in Unreadable(r), NEW j \in Jtis, InForce(legacy[g][j]), store[j] # NoEntry
      PROVE  LatestRevocation(store[j], legacy[g][j]).at = store[j].at <=> legacy[g][j].at <= store[j].at
  <2>1. legacy[g][j] \in Entries /\ store[j] \in Entries
        BY <1>2 DEF TypeOK, Unreadable, InForce, Keys
  <2> QED BY <1>1, <2>1, EntryFacts, LatestIff
<1> QED BY <1>2 DEF Covered, Covers

\* The same of the next state.
LEMMA CoveredNext ==
  ASSUME TypeOK', NEW r \in Replicas',
         \A g \in Unreadable(r)', j \in Jtis : InForce(legacy[g][j])' => Covers(j, legacy[g][j])'
  PROVE  Covered(r)'
<1>1. \A e \in Entries' : e.at \in Int
  <2>1. Times' \subseteq Int /\ Untimed \in Int BY RevocationConstants DEF TypeOK, Times, MaxTime, Untimed
  <2> QED BY <2>1 DEF Entries
<1>2. ASSUME NEW g \in Unreadable(r)', NEW j \in Jtis, InForce(legacy[g][j])'
      PROVE  /\ store'[j] # NoEntry
             /\ LatestRevocation(store'[j], legacy'[g][j]).at = store'[j].at
  <2>1. Covers(j, legacy[g][j])' BY <1>2
  <2>2. legacy'[g][j] \in Entries' /\ store'[j] \in Entries' /\ store'[j] # NoEntry
        /\ legacy'[g][j].at <= store'[j].at
        BY <1>2, <2>1 DEF TypeOK, Unreadable, InForce, Keys, Covers
  <2> QED BY <1>1, <2>2, LatestIff
<1> QED BY <1>2 DEF Covered

\* The parts of the step that every replica's sweep goes through.
SweepHyps ==
  /\ TypeInv /\ TypeInv' /\ Named /\ RevocationInv /\ GensOK /\ UntimedOld /\ [Next]_vars
  /\ \A r \in Replicas : SweepOK(r)

LEMMA UnreadableKept ==
  ASSUME setting' = setting, NEW r \in Replicas, gen'[r] = gen[r], prev'[r] = prev[r]
  PROVE  Unreadable(r)' = Unreadable(r)
BY SettingKept DEF Unreadable

\* A replica that stays at its generation: an entry it cannot read was there
\* before, and stays covered.
LEMMA StayCovered ==
  ASSUME SweepHyps, NEW r \in Replicas, gen'[r] = gen[r], prev'[r] = prev[r],
         NEW g \in Unreadable(r)', NEW j \in Jtis, InForce(legacy[g][j])'
  PROVE  /\ g \in Unreadable(r) /\ g \in Gens
         /\ legacy'[g][j] = legacy[g][j] /\ InForce(legacy[g][j])
         /\ Covers(j, legacy[g][j]) => Covers(j, legacy[g][j])'
<1>1. setting' = setting /\ TypeOK /\ r \in All
      BY NextKeepsSetting, SettingFacts DEF SweepHyps, TypeInv, TypeOK
<1>2. g \in Unreadable(r) BY <1>1, UnreadableKept
<1>3. g \in Gens BY <1>2 DEF Unreadable
<1>4. \A q \in All : g # gen[q] BY <1>1, <1>2, Unwritten DEF SweepHyps
<1> QED BY <1>2, <1>3, <1>4, CoversOn DEF SweepHyps

LEMMA CoveredStays ==
  ASSUME SweepHyps, NEW r \in Replicas, gen'[r] = gen[r], prev'[r] = prev[r], Covered(r)
  PROVE  Covered(r)'
<1>1. TypeOK /\ TypeOK' /\ r \in Replicas'
      BY NextKeepsSetting, SettingKept DEF SweepHyps, TypeInv
<1>2. ASSUME NEW g \in Unreadable(r)', NEW j \in Jtis, InForce(legacy[g][j])'
      PROVE  Covers(j, legacy[g][j])'
  <2>1. g \in Unreadable(r) /\ InForce(legacy[g][j])
        /\ (Covers(j, legacy[g][j]) => Covers(j, legacy[g][j])') BY <1>2, StayCovered
  <2> QED BY <1>1, <2>1, CoveredIff
<1> QED BY <1>1, <1>2, CoveredNext

\* The pass keeps what it has scanned: nothing it found is lost but to the store.
LEMMA PassStays ==
  ASSUME SweepHyps, NEW r \in Replicas, gen'[r] = gen[r], prev'[r] = prev[r],
         sweep'[r].running => sweep[r].running,
         sweep'[r].generation = sweep[r].generation, sweep'[r].left = sweep[r].left,
         \A j \in Jtis : sweep[r].found[j] # NoEntry =>
            \/ sweep'[r].found[j] = sweep[r].found[j]
            \/ store'[j] # NoEntry /\ store'[j].at >= sweep[r].found[j].at /\ store'[j] \in Entries
  PROVE  PassOK(r)'
<1>1. TypeOK /\ setting \in Settings /\ setting' = setting BY NextKeepsSetting DEF SweepHyps, TypeInv, TypeOK
<1> SUFFICES ASSUME sweep'[r].running, sweep'[r].generation = gen'[r],
                    NEW g \in Unreadable(r)' \ sweep'[r].left, NEW j \in Jtis, InForce(legacy[g][j])'
             PROVE  \/ sweep'[r].found[j] # NoEntry /\ legacy'[g][j].at <= sweep'[r].found[j].at
                    \/ Covers(j, legacy[g][j])'
    BY DEF PassOK
<1>2. /\ g \in Unreadable(r) /\ g \in Gens
      /\ legacy'[g][j] = legacy[g][j] /\ InForce(legacy[g][j])
      /\ Covers(j, legacy[g][j]) => Covers(j, legacy[g][j])'
      BY StayCovered
<1>3. PassOK(r) BY DEF SweepHyps, SweepOK
<1>4. \/ sweep[r].found[j] # NoEntry /\ legacy[g][j].at <= sweep[r].found[j].at
      \/ Covers(j, legacy[g][j])
      BY <1>2, <1>3 DEF PassOK
<1>5. CASE Covers(j, legacy[g][j]) BY <1>2, <1>5
<1>6. CASE sweep[r].found[j] # NoEntry /\ legacy[g][j].at <= sweep[r].found[j].at
  <2>1. CASE sweep'[r].found[j] = sweep[r].found[j] BY <1>2, <1>6, <2>1
  <2>2. CASE store'[j] # NoEntry /\ store'[j].at >= sweep[r].found[j].at /\ store'[j] \in Entries
    <3>1. legacy[g][j] \in Entries /\ sweep[r].found[j] \in Entries
          BY <1>1, <1>2, <1>6, SweepFacts DEF TypeOK, InForce
    <3>2. legacy[g][j].at \in Int /\ sweep[r].found[j].at \in Int /\ store'[j].at \in Int
          BY <1>1, <2>2, <3>1, EntryFacts
    <3> QED BY <1>2, <1>6, <2>2, <3>2 DEF Covers
  <2> QED BY <1>6, <2>1, <2>2
<1> QED BY <1>4, <1>5, <1>6

LEMMA SweepSame ==
  ASSUME SweepHyps, NEW r \in Replicas, gen'[r] = gen[r], prev'[r] = prev[r], sweep'[r] = sweep[r]
  PROVE  SweepOK(r)'
<1>1. SweepOK(r) /\ Gens' = Gens BY NextKeepsSetting, SettingKept DEF SweepHyps
<1>2. Covered(r) => Covered(r)' BY CoveredStays
<1>3. PassOK(r)' BY PassStays
<1> QED BY <1>1, <1>2, <1>3 DEF SweepOK

LEMMA SweepReconfigured ==
  ASSUME SweepHyps, NEW q \in All, Reconfigure(q), NEW r \in Replicas
  PROVE  SweepOK(r)'
<1>1. TypeOK /\ setting \in Settings /\ r \in All
      BY SettingFacts DEF SweepHyps, TypeInv, TypeOK
<1>2. CASE r # q
  <2>1. gen'[r] = gen[r] /\ prev'[r] = prev[r] /\ sweep'[r] = sweep[r]
        BY <1>1, <1>2, ReconfigureStep
  <2> QED BY <2>1, SweepSame
<1>3. CASE r = q
  <2>1. /\ gen'[r] = gen[r] + 1 /\ sweep'[r].due
        /\ sweep'[r].adopted = sweep[r].adopted /\ (sweep'[r].running <=> sweep[r].running)
        /\ sweep'[r].generation = sweep[r].generation
        BY <1>1, <1>3, ReconfigureStep
  <2>2. gen[r] \in Nat /\ Gens \subseteq Nat /\ NoGen \notin Nat /\ Gens' = Gens
        BY <1>1, SettingFacts, NextKeepsSetting, SettingKept DEF TypeOK, SweepHyps
  <2>3. sweep[r].adopted \in Gens \cup {NoGen} /\ sweep[r].generation \in Gens \cup {NoGen}
        BY <1>1, SweepFacts
  <2>4. /\ sweep[r].running => sweep[r].generation \in Gens
        /\ sweep[r].adopted # NoGen => sweep[r].adopted <= gen[r]
        /\ sweep[r].generation # NoGen => sweep[r].generation <= gen[r]
        BY DEF SweepHyps, SweepOK
  <2>5. sweep'[r].adopted # gen'[r] /\ sweep'[r].generation # gen'[r] BY <2>1, <2>2, <2>3, <2>4
  <2>6. PassOK(r)' BY <2>5 DEF PassOK
  <2>7. /\ sweep'[r].running => sweep'[r].generation \in Gens'
        /\ sweep'[r].adopted # NoGen => sweep'[r].adopted <= gen'[r]
        /\ sweep'[r].generation # NoGen => sweep'[r].generation <= gen'[r]
    <3>1. sweep'[r].running => sweep'[r].generation \in Gens' BY <2>1, <2>2, <2>4
    <3>2. ASSUME sweep[r].adopted # NoGen PROVE sweep[r].adopted <= gen[r] + 1
      <4>1. PICK a \in Nat : a = sweep[r].adopted BY <2>2, <2>3, <3>2
      <4>2. a <= gen[r] BY <2>4, <3>2, <4>1
      <4> QED BY <2>2, <4>1, <4>2
    <3>3. ASSUME sweep[r].generation # NoGen PROVE sweep[r].generation <= gen[r] + 1
      <4>1. PICK a \in Nat : a = sweep[r].generation BY <2>2, <2>3, <3>3
      <4>2. a <= gen[r] BY <2>4, <3>3, <4>1
      <4> QED BY <2>2, <4>1, <4>2
    <3> QED BY <2>1, <3>1, <3>2, <3>3
  <2> QED BY <2>1, <2>5, <2>6, <2>7 DEF SweepOK
<1> QED BY <1>2, <1>3

\* A pass about to scan every generation has nothing to answer for.
LEMMA PassBegins ==
  ASSUME setting' = setting, NEW r \in Replicas, sweep'[r].left = Gens
  PROVE  PassOK(r)'
<1>1. Unreadable(r)' \subseteq Gens BY SettingKept DEF Unreadable
<1> QED BY <1>1 DEF PassOK

LEMMA SweepStarted ==
  ASSUME SweepHyps, NEW r \in Replicas, SweepStart(r)
  PROVE  SweepOK(r)'
<1>1. TypeOK /\ setting \in Settings /\ setting' = setting /\ Gens' = Gens /\ gen' = gen /\ prev' = prev
      BY NextKeepsSetting, SettingKept DEF SweepHyps, TypeInv, TypeOK, SweepStart
<1>2. gen[r] \in Gens /\ gen[r] \in Nat BY <1>1, SettingFacts DEF TypeOK
<1>3. Covered(r) => Covered(r)' BY <1>1, CoveredStays
<1>4. SweepOK(r) /\ sweep'[r].adopted = sweep[r].adopted BY <1>1, SweepStartStep DEF SweepHyps
<1>5. CASE /\ sweep[r].running \/ sweep[r].adopted = gen[r]
           /\ sweep'[r].running = sweep[r].running /\ sweep'[r].generation = sweep[r].generation
           /\ sweep'[r].left = sweep[r].left /\ sweep'[r].found = sweep[r].found
  <2>1. sweep'[r].running <=> sweep[r].running BY <1>5
  <2>2. PassOK(r)' BY <1>1, <1>5, <2>1, PassStays
  <2>3. IF sweep'[r].adopted = gen'[r] THEN Covered(r)' ELSE sweep'[r].running
        BY <1>1, <1>3, <1>4, <1>5, <2>1 DEF SweepOK
  <2>4. /\ sweep'[r].running => sweep'[r].generation \in Gens'
        /\ sweep'[r].adopted # NoGen => sweep'[r].adopted <= gen'[r]
        /\ sweep'[r].generation # NoGen => sweep'[r].generation <= gen'[r]
        BY <1>1, <1>4, <1>5, <2>1 DEF SweepOK
  <2> QED BY <2>2, <2>3, <2>4 DEF SweepOK
<1>6. CASE sweep'[r].running /\ sweep'[r].generation = gen[r] /\ sweep'[r].left = Gens
  <2>1. PassOK(r)' BY <1>1, <1>6, PassBegins
  <2>2. IF sweep'[r].adopted = gen'[r] THEN Covered(r)' ELSE sweep'[r].running
        BY <1>1, <1>3, <1>4, <1>6 DEF SweepOK
  <2>3. /\ sweep'[r].generation \in Gens'
        /\ sweep'[r].adopted # NoGen => sweep'[r].adopted <= gen'[r]
        /\ sweep'[r].generation <= gen'[r]
        BY <1>1, <1>2, <1>4, <1>6 DEF SweepOK
  <2> QED BY <2>1, <2>2, <2>3 DEF SweepOK
<1> QED BY <1>1, <1>5, <1>6, SweepStartStep

LEMMA SweepScanned ==
  ASSUME SweepHyps, NEW r \in Replicas, NEW h \in Gens, SweepScan(r, h)
  PROVE  SweepOK(r)'
<1>1. TypeOK /\ setting \in Settings /\ setting' = setting /\ Gens' = Gens /\ gen' = gen /\ prev' = prev
      /\ legacy' = legacy /\ store' = store
      BY NextKeepsSetting, SettingKept DEF SweepHyps, TypeInv, TypeOK, SweepScan
<1>2. Covered(r) => Covered(r)' BY <1>1, CoveredStays
<1>3. /\ sweep'[r].adopted = sweep[r].adopted /\ (sweep'[r].running <=> sweep[r].running)
      /\ sweep'[r].generation = sweep[r].generation
      /\ sweep'[r].left = sweep[r].left \ {h}
      /\ \A j \in Jtis : sweep'[r].found[j] = Found(r, h, j)
      BY SweepScanStep DEF SweepHyps
<1>4. SweepOK(r) /\ sweep[r].running BY DEF SweepHyps, SweepScan
<1>5. PassOK(r)'
  <2> SUFFICES ASSUME sweep'[r].generation = gen'[r],
                      NEW g \in Unreadable(r)' \ sweep'[r].left, NEW j \in Jtis, InForce(legacy[g][j])'
               PROVE  \/ sweep'[r].found[j] # NoEntry /\ legacy'[g][j].at <= sweep'[r].found[j].at
                      \/ Covers(j, legacy[g][j])'
      BY DEF PassOK
  <2>1. /\ g \in Unreadable(r) /\ g \in Gens /\ InForce(legacy[g][j])
        /\ Covers(j, legacy[g][j]) => Covers(j, legacy[g][j])'
        BY <1>1, StayCovered
  <2>2. PICK l \in Entries : l = legacy[g][j] BY <1>1, <2>1 DEF InForce, TypeOK
  <2>3. PICK f \in Entries \cup {NoEntry} : f = sweep[r].found[j] BY <1>1, SweepFacts
  <2>4. TypeInv BY DEF SweepHyps
  <2>5. l.at \in Int /\ l # NoEntry /\ (f # NoEntry => f.at \in Int) BY <1>1, <2>2, <2>3, EntryFacts
  <2>6. CASE g = h
    <3>1. Found(r, h, j) # NoEntry /\ Found(r, h, j).at >= l.at BY <2>2, <2>4, <2>5, <2>6, FoundFacts
    <3>2. Found(r, h, j) \in Entries BY <2>2, <2>4, <2>5, <2>6, FoundFacts
    <3>3. Found(r, h, j).at \in Int BY <1>1, <3>2, EntryFacts
    <3> HIDE DEF Found
    <3> QED BY <1>1, <1>3, <2>2, <2>5, <3>1, <3>3
  <2>7. CASE g # h
    <3>1. g \in Unreadable(r) \ sweep[r].left BY <1>3, <2>1, <2>7
    <3>2. (f # NoEntry /\ l.at <= f.at) \/ Covers(j, legacy[g][j])
          BY <1>1, <1>3, <1>4, <2>1, <2>2, <2>3, <3>1 DEF SweepOK, PassOK
    <3>3. CASE Covers(j, legacy[g][j]) BY <2>1, <3>3
    <3>4. CASE f # NoEntry /\ l.at <= f.at
      <4>1. PICK x : x = Found(r, h, j) OBVIOUS
      <4>2. CASE legacy[h][j] = NoEntry
        <5>1. x = f BY <2>3, <4>1, <4>2 DEF Found
        <5> QED BY <1>1, <1>3, <2>2, <3>4, <4>1, <5>1
      <4>3. CASE legacy[h][j] # NoEntry
        <5>1. x \in Entries /\ x.at >= f.at BY <2>3, <2>4, <3>4, <4>1, <4>3, FoundFacts
        <5>2. x # NoEntry /\ x.at \in Int BY <1>1, <5>1, EntryFacts
        <5>3. l.at <= x.at BY <2>5, <3>4, <5>1, <5>2
        <5> QED BY <1>1, <1>3, <2>2, <4>1, <5>2, <5>3
      <4> QED BY <4>2, <4>3
    <3> QED BY <3>2, <3>3, <3>4
  <2> QED BY <2>6, <2>7
<1>6. IF sweep'[r].adopted = gen'[r] THEN Covered(r)' ELSE sweep'[r].running
      BY <1>1, <1>2, <1>3, <1>4 DEF SweepOK
<1>7. /\ sweep'[r].running => sweep'[r].generation \in Gens'
      /\ sweep'[r].adopted # NoGen => sweep'[r].adopted <= gen'[r]
      /\ sweep'[r].generation # NoGen => sweep'[r].generation <= gen'[r]
      BY <1>1, <1>3, <1>4 DEF SweepOK
<1> QED BY <1>5, <1>6, <1>7 DEF SweepOK

LEMMA SweepAdopts ==
  ASSUME SweepHyps, NEW r \in Replicas, NEW i \in Jtis, SweepAdopt(r, i)
  PROVE  SweepOK(r)'
<1>1. TypeOK /\ setting \in Settings /\ setting' = setting /\ Gens' = Gens /\ gen' = gen /\ prev' = prev
      BY NextKeepsSetting, SettingKept DEF SweepHyps, TypeInv, TypeOK, SweepAdopt
<1>2. Covered(r) => Covered(r)' BY <1>1, CoveredStays
<1>3. /\ sweep'[r].adopted = sweep[r].adopted /\ (sweep'[r].running <=> sweep[r].running)
      /\ sweep'[r].generation = sweep[r].generation /\ sweep'[r].left = sweep[r].left
      /\ \A j \in Jtis : sweep'[r].found[j] = IF j = i THEN NoEntry ELSE sweep[r].found[j]
      BY <1>1, SweepAdoptStep
<1>4. store'[i] \in Entries /\ store'[i].at >= sweep[r].found[i].at BY SweepAdoptStore DEF SweepHyps
<1>5. store'[i] # NoEntry BY <1>1, <1>4, EntryFacts
<1>6. SweepOK(r) /\ sweep[r].running BY DEF SweepHyps, SweepAdopt
<1>7. PassOK(r)'
  <2>1. \A j \in Jtis : sweep[r].found[j] # NoEntry =>
            \/ sweep'[r].found[j] = sweep[r].found[j]
            \/ store'[j] # NoEntry /\ store'[j].at >= sweep[r].found[j].at /\ store'[j] \in Entries
        BY <1>3, <1>4, <1>5
  <2> QED BY <1>1, <1>3, <2>1, PassStays
<1>8. IF sweep'[r].adopted = gen'[r] THEN Covered(r)' ELSE sweep'[r].running
      BY <1>1, <1>2, <1>3, <1>6 DEF SweepOK
<1>9. /\ sweep'[r].running => sweep'[r].generation \in Gens'
      /\ sweep'[r].adopted # NoGen => sweep'[r].adopted <= gen'[r]
      /\ sweep'[r].generation # NoGen => sweep'[r].generation <= gen'[r]
      BY <1>1, <1>3, <1>6 DEF SweepOK
<1> QED BY <1>7, <1>8, <1>9 DEF SweepOK

LEMMA SweepEnds ==
  ASSUME SweepHyps, NEW r \in Replicas, SweepEnd(r)
  PROVE  SweepOK(r)'
<1>1. TypeOK /\ setting \in Settings /\ setting' = setting /\ Gens' = Gens /\ gen' = gen /\ prev' = prev
      BY NextKeepsSetting, SettingKept DEF SweepHyps, TypeInv, TypeOK, SweepEnd
<1>2. gen[r] \in Gens /\ gen[r] \in Nat /\ NoGen \notin Gens BY <1>1, SettingFacts DEF TypeOK
<1>3. SweepOK(r) /\ sweep[r].running /\ sweep[r].left = {} /\ sweep[r].found = [j \in Jtis |-> NoEntry]
      BY DEF SweepHyps, SweepEnd
<1>4. sweep[r].generation \in Gens /\ sweep[r].generation <= gen[r] BY <1>2, <1>3 DEF SweepOK
<1>5. sweep'[r].adopted = sweep[r].generation BY <1>1, SweepEndStep
<1>6. CASE gen[r] # sweep[r].generation
  <2>1. sweep'[r].running /\ sweep'[r].generation = gen[r] /\ sweep'[r].left = Gens
        BY <1>1, <1>6, SweepEndStep
  <2>2. PassOK(r)' BY <1>1, <2>1, PassBegins
  <2> QED BY <1>1, <1>2, <1>4, <1>5, <1>6, <2>1, <2>2 DEF SweepOK
<1>7. CASE gen[r] = sweep[r].generation
  <2>1. ~sweep'[r].running /\ sweep'[r].generation = NoGen BY <1>1, <1>7, SweepEndStep
  <2>2. PassOK(r)' BY <2>1 DEF PassOK
  <2>3. \A g \in Unreadable(r), j \in Jtis : InForce(legacy[g][j]) => Covers(j, legacy[g][j])
        BY <1>3, <1>7 DEF SweepOK, PassOK
  <2>4. Covered(r)' BY <1>1, <2>3, CoveredIff, CoveredStays
  <2> QED BY <1>1, <1>2, <1>4, <1>5, <1>7, <2>1, <2>2, <2>4 DEF SweepOK
<1> QED BY <1>6, <1>7

LEMMA SweepFailsOrDue ==
  ASSUME SweepHyps, NEW r \in Replicas, SweepFail(r) \/ Reconcile(r)
  PROVE  SweepOK(r)'
<1>1. TypeOK /\ setting \in Settings /\ setting' = setting /\ Gens' = Gens /\ gen' = gen /\ prev' = prev
      BY NextKeepsSetting, SettingKept DEF SweepHyps, TypeInv, TypeOK, SweepFail, Reconcile
<1>2. Covered(r) => Covered(r)' BY <1>1, CoveredStays
<1>3. SweepOK(r) BY DEF SweepHyps
<1>4. CASE SweepFail(r)
  <2>1. sweep'[r].adopted = sweep[r].adopted /\ ~sweep'[r].running /\ sweep'[r].failed
        /\ sweep'[r].generation = NoGen
        BY <1>1, <1>4, SweepFailStep
  <2>2. PassOK(r)' BY <2>1 DEF PassOK
  <2> QED BY <1>1, <1>2, <1>3, <2>1, <2>2 DEF SweepOK
<1>5. CASE Reconcile(r)
  <2>1. sweep' = [sweep EXCEPT ![r].due = TRUE] BY <1>5 DEF Reconcile
  <2>2. /\ sweep'[r].due
        /\ sweep'[r].adopted = sweep[r].adopted /\ (sweep'[r].running <=> sweep[r].running)
        /\ sweep'[r].generation = sweep[r].generation /\ sweep'[r].found = sweep[r].found
        /\ sweep'[r].left = sweep[r].left
        BY <1>1, <2>1, DueSet
  <2>3. PassOK(r)' BY <1>1, <2>2, PassStays
  <2> QED BY <1>1, <1>2, <1>3, <2>2, <2>3 DEF SweepOK
<1> QED BY <1>4, <1>5

LEMMA NextSweepOK ==
  ASSUME SweepHyps, NEW r \in Replicas
  PROVE  SweepOK(r)'
<1>1. TypeOK /\ setting \in Settings /\ [Next]_vars BY DEF SweepHyps, TypeInv, TypeOK
<1>2. CASE sweep'[r] = sweep[r] /\ UNCHANGED <<gen, prev>> BY <1>2, SweepSame
<1>3. ASSUME NEW q \in Replicas, Step(q) PROVE SweepOK(r)'
  <2>1. CASE r # q
    <3>1. UNCHANGED <<gen, prev>>
          BY <1>3 DEF Step, MintCheck, MintSign, Begin, RevokeStore, RevokeAgain, RevokeLegacy, RevokeAbort,
             SweepStart, SweepScan, SweepAdopt, SweepEnd, SweepFail, Reconcile
    <3>2. sweep'[r] = sweep[r]
          BY <1>1, <1>3, <2>1 DEF TypeOK, Step, MintCheck, MintSign, Begin, RevokeStore, RevokeAgain,
             RevokeLegacy, RevokeAbort, SweepStart, SweepScan, SweepAdopt, SweepEnd, SweepFail, Reconcile
    <3> QED BY <3>1, <3>2, <1>2
  <2>2. CASE r = q
    <3>1. CASE SweepStart(r) BY <3>1, SweepStarted
    <3>2. CASE \E g \in Gens : SweepScan(r, g) BY <3>2, SweepScanned
    <3>3. CASE \E j \in Jtis : SweepAdopt(r, j) BY <3>3, SweepAdopts
    <3>4. CASE SweepEnd(r) BY <3>4, SweepEnds
    <3>5. CASE SweepFail(r) \/ Reconcile(r) BY <3>5, SweepFailsOrDue
    <3>6. CASE UNCHANGED <<sweep, gen, prev>> BY <1>2, <3>6
    <3> QED BY <1>3, <2>2, <3>1, <3>2, <3>3, <3>4, <3>5, <3>6 DEF Step, MintCheck, MintSign, Begin,
               RevokeStore, RevokeAgain, RevokeLegacy, RevokeAbort
  <2> QED BY <2>1, <2>2
<1>4. CASE UNCHANGED vars \/ Tick BY <1>2, <1>4 DEF vars, Tick
<1>5. CASE \E o \in OldReplicas, j \in Jtis : LegacyRevoke(o, j) BY <1>2, <1>5 DEF LegacyRevoke
<1>6. CASE \E q \in All : Reconfigure(q) BY <1>6, SweepReconfigured
<1> QED BY <1>1, <1>3, <1>4, <1>5, <1>6, Steps

LEMMA InitSweep ==
  ASSUME Init
  PROVE  SweepInv
<1>1. TypeOK /\ setting \in Settings /\ NoGen \notin Nat /\ MaxGen \in Nat /\ Replicas \subseteq All
      BY InitType, SettingFacts DEF TypeInv, TypeOK
<1>2. PICK old \in [Jtis -> IF MaxGen = 0 \/ setting.swept THEN {NoEntry} ELSE Stranded] :
        legacy = [g \in Gens |-> IF g = 0 THEN old ELSE [j \in Jtis |-> NoEntry]]
      BY DEF Init
<1>3. gen = [r \in All |-> IF MaxGen = 0 THEN 0 ELSE 1] /\ prev = [r \in All |-> NoGen] BY DEF Init
<1>4. GensOK BY <1>1, <1>3 DEF GensOK
<1>5. UntimedOld
  <2> SUFFICES ASSUME NEW g \in Gens, NEW j \in Jtis, legacy[g][j] # NoEntry
               PROVE  g = 0 /\ MaxGen > 0 /\ legacy[g][j].until = RevocationTTL
      BY DEF UntimedOld
  <2>1. g = 0 /\ legacy[g][j] = old[j] /\ old[j] # NoEntry BY <1>2
  <2>2. MaxGen # 0 /\ old[j].until = RevocationTTL BY <2>1 DEF Stranded
  <2> QED BY <1>1, <2>1, <2>2
<1>6. ASSUME NEW r \in Replicas PROVE SweepOK(r)
  <2>1. PICK n \in Sweeps : n = NoSweep BY NoSweepType
  <2>2. sweep[r] = IF setting.swept THEN [n EXCEPT !.adopted = gen[r]] ELSE [n EXCEPT !.due = TRUE]
        BY <2>1 DEF Init
  <2>3. ~n.running /\ n.adopted = NoGen /\ n.generation = NoGen BY <2>1, NoSweepType
  <2>4. sweep[r].generation = NoGen /\ ~sweep[r].running
        /\ (setting.swept => sweep[r].adopted = gen[r])
        /\ (~setting.swept => sweep[r].adopted = NoGen /\ sweep[r].due)
        BY <2>2, <2>3 DEF Sweeps
  <2>5. gen[r] \in Nat BY <1>1, SettingFacts DEF TypeOK
  <2>6. CASE setting.swept
    <3>1. \A g \in Gens, j \in Jtis : legacy[g][j] = NoEntry BY <1>2, <2>6
    <3>2. Covered(r) BY <3>1 DEF Covered, Unreadable, InForce
    <3> QED BY <2>4, <2>5, <2>6, <3>2 DEF SweepOK, PassOK
  <2>7. CASE ~setting.swept BY <1>1, <2>4, <2>5, <2>7 DEF SweepOK, PassOK
  <2> QED BY <2>6, <2>7
<1> QED BY <1>4, <1>5, <1>6 DEF SweepInv

\* The inductive invariant of the sweep: nobody writes to a generation another
\* replica cannot read, and a pass for the present generation holds or has
\* adopted what it has scanned.
THEOREM SweepInvariant == Spec => []SweepInv
<1>1. Init => SweepInv BY InitSweep
<1>2. SweepInv /\ RevocationInv /\ TypeInv /\ TypeInv' /\ Named /\ [Next]_vars => SweepInv'
  <2> SUFFICES ASSUME SweepInv, RevocationInv, TypeInv, TypeInv', Named, [Next]_vars PROVE SweepInv'
      OBVIOUS
  <2>1. SweepHyps BY DEF SweepHyps, SweepInv
  <2>2. GensOK' BY NextGensOK DEF SweepInv, TypeInv
  <2>3. UntimedOld' BY NextUntimedOld DEF SweepInv, RevocationInv
  <2>4. Replicas' = Replicas BY NextKeepsSetting, SettingKept
  <2>5. \A r \in Replicas : SweepOK(r)' BY <2>1, NextSweepOK
  <2> QED BY <2>2, <2>3, <2>4, <2>5 DEF SweepInv
<1>3. (TypeOK /\ Alive /\ Named) <=> (TypeInv /\ Named) BY DEF TypeInv
<1> QED BY <1>1, <1>2, <1>3, TypeCorrect, RevocationInvariant, PTL DEF Spec

\* No reconfiguration is forgotten, and a finished sweep has adopted every
\* revocation in force that its replica cannot read any more: with any number of
\* replicas, a rolling upgrade, sweeps that fail and generations that move while
\* one runs.
THEOREM SweepsCover == Spec => []SweepCovers
<1>1. SweepInv => SweepCovers BY DEF SweepInv, SweepOK, SweepCovers
<1> QED BY <1>1, SweepInvariant, PTL

-----------------------------------------------------------------------------
(* Fresh keys                                                              *)

LEMMA FoundUntimed ==
  ASSUME TypeInv, UntimedOld, [Next]_vars, NEW r \in Replicas, NEW j \in Jtis,
         0 \in Gens, NotUntimed(legacy[0][j]), NotUntimed(sweep[r].found[j])
  PROVE  NotUntimed(sweep'[r].found[j])
<1>1. FoundStep(r, j) BY FoundSteps
<1>2. CASE sweep'[r].found[j] = sweep[r].found[j] BY <1>2 DEF NotUntimed
<1>3. CASE sweep'[r].found[j] = NoEntry BY <1>3 DEF NotUntimed
<1>4. CASE \E g \in Gens :
          /\ legacy[g][j] # NoEntry
          /\ \/ sweep'[r].found[j].at = legacy[g][j].at
             \/ sweep[r].found[j] # NoEntry /\ sweep'[r].found[j].at = sweep[r].found[j].at
      BY <1>4 DEF NotUntimed, UntimedOld
<1> QED BY <1>1, <1>2, <1>3, <1>4 DEF FoundStep

\* Once no untimed entry of j is left none comes back.
LEMMA UntimedFreeOn ==
  ASSUME TypeInv, Named, RequestsOK, LegacyOK, UntimedOld, [Next]_vars, NEW j \in Jtis,
         UntimedFree(j)
  PROVE  UntimedFree(j)'
<1>1. TypeOK /\ setting \in Settings /\ j \in Keys /\ 0 \in Gens /\ Replicas' = Replicas
      BY NextKeepsSetting, SettingKept, SettingFacts DEF TypeInv, TypeOK, Keys
<1>2. NotUntimed(legacy'[0][j])
  <2>1. LegacyStep(0, j) BY <1>1, LegacySteps
  <2> QED BY <2>1 DEF LegacyStep, NotUntimed, UntimedFree, Untimed
<1>3. NotUntimed(store'[j])
  <2>1. StoreStep(j) BY <1>1, StoreSteps
  <2>2. CASE store'[j] = store[j] BY <2>2 DEF NotUntimed, UntimedFree
  <2>3. CASE store'[j] = NoEntry \/ store'[j].at >= 0 BY <2>3 DEF NotUntimed, Untimed
  <2>4. CASE \E r \in Replicas : sweep[r].found[j] # NoEntry /\ store'[j].at = sweep[r].found[j].at
        BY <2>4 DEF NotUntimed, UntimedFree
  <2> QED BY <2>1, <2>2, <2>3, <2>4 DEF StoreStep
<1>4. \A r \in Replicas : NotUntimed(sweep'[r].found[j]) BY <1>1, FoundUntimed DEF UntimedFree
<1> QED BY <1>1, <1>2, <1>3, <1>4 DEF UntimedFree

\* Before the horizon a timed entry of the store does not go away.
LEMMA TimedOn ==
  ASSUME TypeInv, StoreOK, [Next]_vars, NEW j \in Keys, Timed(store[j]), now' < RevocationTTL
  PROVE  Timed(store'[j])
<1>1. TypeOK /\ setting \in Settings /\ RevocationTTL \in Nat BY SettingFacts DEF TypeInv, TypeOK
<1>2. PICK s \in Entries : s = store[j] BY <1>1 DEF Timed, TypeOK
<1>3. s.at \in Int /\ s.until \in Nat /\ s.at >= 0 BY <1>1, <1>2, EntryFacts DEF Timed, Untimed
<1>4. s.at + RevocationTTL <= s.until BY <1>2, <1>3 DEF Timed, StoreOK, Fits
<1>5. now' \in Int BY <1>1, Forward
<1>6. ~(s.until <= now') BY <1>1, <1>3, <1>4, <1>5
<1>7. CASE store'[j] = store[j] BY <1>7
<1>8. CASE store'[j] \in Entries /\ store'[j].at >= s.at
  <2>1. store'[j] # NoEntry /\ store'[j].at \in Int BY <1>1, <1>8, EntryFacts
  <2> QED BY <1>3, <1>8, <2>1 DEF Timed, Untimed
<1> QED BY <1>2, <1>6, <1>7, <1>8, StoreSteps DEF StoreStep, Timed

\* Acknowledging lowers fresh only for a token the store has a timed entry of.
LEMMA FreshLowered ==
  ASSUME TypeInv, Named, RequestsOK, StoreOK, [Next]_vars, NEW j \in Jtis,
         ~(fresh[j] <= MaxGen), fresh'[j] <= MaxGen, now' < RevocationTTL
  PROVE  Timed(store'[j])
<1>1. TypeOK /\ setting \in Settings /\ RevocationTTL \in Nat /\ Times \subseteq Nat /\ j \in Keys
      /\ Sub \notin Jtis
      BY SettingFacts DEF TypeInv, TypeOK, Keys
<1>2. ASSUME NEW r \in Replicas, Step(r) PROVE Timed(store'[j])
  <2>1. CASE RevokeLegacy(r)
    <3>1. pc[r] = "legacy" /\ now' = now /\ store' = store /\ Acknowledge(r) BY <2>1 DEF RevokeLegacy
    <3>2. req[r].key = j BY <1>1, <3>1 DEF Acknowledge, TypeOK
    <3>3. PICK a \in Times : a = req[r].at BY <1>1, RequestFacts
    <3>4. Holds(j, a) /\ a \in Nat BY <1>1, <3>1, <3>2, <3>3 DEF RequestsOK
    <3>5. now \in Nat BY <1>1 DEF TypeOK
    <3>6. store[j] # NoEntry /\ store[j].at >= a BY <1>1, <3>1, <3>4, <3>5 DEF Holds
    <3>7. store[j].at \in Int BY <1>1, <3>6, EntryFacts DEF TypeOK
    <3> QED BY <3>1, <3>4, <3>6, <3>7 DEF Timed, Untimed
  <2>2. CASE RevokeStore(r)
    <3>1. fresh' = fresh BY <1>1, <2>2 DEF RevokeStore, Acknowledge
    <3> QED BY <3>1
  <2>3. CASE fresh' = fresh BY <2>3
  <2> QED BY <1>2, <2>1, <2>2, <2>3 DEF Step, MintCheck, MintSign, Begin, RevokeAgain, RevokeAbort,
             SweepStart, SweepScan, SweepAdopt, SweepEnd, SweepFail, Reconcile
<1>3. CASE UNCHANGED vars \/ Tick BY <1>3 DEF vars, Tick
<1>4. CASE \E o \in OldReplicas, i \in Jtis : LegacyRevoke(o, i) BY <1>4 DEF LegacyRevoke
<1>5. CASE \E r \in All : Reconfigure(r) BY <1>5 DEF Reconfigure
<1> QED BY <1>1, <1>2, <1>3, <1>4, <1>5, Steps

LEMMA NextFresh ==
  ASSUME TypeInv, Named, RevocationInv, UntimedOld, FreshInv, [Next]_vars
  PROVE  FreshInv'
<1>1. TypeOK /\ setting \in Settings /\ MaxGen' = MaxGen /\ RevocationTTL' = RevocationTTL
      /\ Sub \in Keys /\ Sub \notin Jtis /\ RevocationTTL \in Nat
      BY NextKeepsSetting, SettingKept, SettingFacts DEF TypeInv, TypeOK, Keys
<1>2. now \in Int /\ now' \in Int /\ now <= now' BY <1>1, Forward
<1>3. NotUntimed(store'[Sub])
  <2>1. StoreStep(Sub) BY <1>1, StoreSteps
  <2> QED BY <1>1, <2>1 DEF StoreStep, NotUntimed, FreshInv, Untimed
<1>4. ASSUME NEW j \in Jtis
      PROVE  /\ MaxGen = 0 => UntimedFree(j)'
             /\ now' < RevocationTTL /\ fresh'[j] <= MaxGen => UntimedFree(j)' \/ Timed(store'[j])
  <2>1. UntimedFree(j) => UntimedFree(j)' BY UntimedFreeOn DEF RevocationInv
  <2>2. MaxGen = 0 => UntimedFree(j)' BY <2>1 DEF FreshInv
  <2>3. ASSUME now' < RevocationTTL, fresh'[j] <= MaxGen PROVE UntimedFree(j)' \/ Timed(store'[j])
    <3>1. CASE fresh[j] <= MaxGen
      <4>1. now < RevocationTTL BY <1>1, <1>2, <2>3
      <4>2. UntimedFree(j) \/ Timed(store[j]) BY <3>1, <4>1 DEF FreshInv
      <4> QED BY <2>1, <2>3, <4>2, TimedOn DEF RevocationInv, Keys
    <3>2. CASE ~(fresh[j] <= MaxGen) BY <2>3, <3>2, FreshLowered DEF RevocationInv
    <3> QED BY <3>1, <3>2
  <2> QED BY <2>2, <2>3
<1> QED BY <1>1, <1>3, <1>4 DEF FreshInv, Timed, NotUntimed

LEMMA InitFresh ==
  ASSUME Init
  PROVE  FreshInv
<1>1. TypeOK /\ setting \in Settings /\ MaxGen \in Nat /\ 0 \in Gens
      BY InitType, SettingFacts DEF TypeInv, TypeOK
<1>2. PICK old \in [Jtis -> IF MaxGen = 0 \/ setting.swept THEN {NoEntry} ELSE Stranded] :
        /\ legacy = [g \in Gens |-> IF g = 0 THEN old ELSE [j \in Jtis |-> NoEntry]]
        /\ fresh = [j \in Jtis |-> IF old[j] # NoEntry /\ old[j].at = Untimed
                                   THEN MaxGen + 1 ELSE 0]
      BY DEF Init
<1>3. \A k \in Keys : store[k] = NoEntry BY DEF Init
<1>4. ASSUME NEW r \in Replicas, NEW j \in Jtis PROVE sweep[r].found[j] = NoEntry
  <2>1. PICK n \in Sweeps : n = NoSweep BY NoSweepType
  <2>2. sweep[r] = IF setting.swept THEN [n EXCEPT !.adopted = gen[r]] ELSE [n EXCEPT !.due = TRUE]
        BY <2>1 DEF Init
  <2>3. sweep[r].found = n.found BY <2>2 DEF Sweeps
  <2> QED BY <2>1, <2>3, NoSweepType
<1>5. ASSUME NEW j \in Jtis, MaxGen = 0 \/ fresh[j] <= MaxGen PROVE UntimedFree(j)
  <2>1. NotUntimed(old[j]) BY <1>1, <1>2, <1>5 DEF NotUntimed
  <2>2. legacy[0][j] = old[j] BY <1>1, <1>2
  <2> QED BY <1>3, <1>4, <2>1, <2>2 DEF UntimedFree, NotUntimed, Keys
<1> QED BY <1>3, <1>5 DEF FreshInv, NotUntimed, Keys

\* Once a key was revoked again with a time, no untimed entry of an earlier
\* release replaces that revocation: neither recordRevocation nor the sweep lets
\* the older one win.
THEOREM FreshInvariant == Spec => []FreshInv
<1>1. Init => FreshInv BY InitFresh
<1>2. FreshInv /\ SweepInv /\ RevocationInv /\ TypeInv /\ Named /\ [Next]_vars => FreshInv'
      BY NextFresh DEF SweepInv
<1>3. (TypeOK /\ Alive /\ Named) <=> (TypeInv /\ Named) BY DEF TypeInv
<1> QED BY <1>1, <1>2, <1>3, TypeCorrect, RevocationInvariant, SweepInvariant, PTL DEF Spec

\* The entries a replica reads of a token are none of them untimed, and none
\* later than the latest time asked for.
LEMMA ReadIsTimed ==
  ASSUME TypeOK, RevocationInv, GensOK, UntimedOld, FreshInv, NEW r \in Replicas, NEW j \in Jtis,
         gen[r] >= fresh[j], MaxGen = 0 \/ now < RevocationTTL,
         NEW e, e \in {store[j], store[Sub], LegacyGet(r, j)}, e # NoEntry
  PROVE  e.at # Untimed /\ (e.at <= asked[j] \/ e.at <= asked[Sub])
<1>1. setting \in Settings /\ MaxGen \in Nat /\ r \in All /\ gen[r] \in 0..MaxGen /\ j \in Keys /\ Sub \in Keys
      /\ NoGen \notin Nat /\ fresh[j] \in Nat /\ Gens = 0..MaxGen /\ prev[r] \in Gens \cup {NoGen}
      BY SettingFacts DEF TypeOK, Keys
<1>2. CASE e = store[Sub] BY <1>1, <1>2 DEF FreshInv, NotUntimed, RevocationInv, StoreOK, Fits
<1>3. CASE e = store[j]
  <2>1. e.at <= asked[j] BY <1>1, <1>3 DEF RevocationInv, StoreOK, Fits
  <2>2. UntimedFree(j) \/ Timed(store[j]) BY <1>1 DEF FreshInv
  <2> QED BY <1>3, <2>1, <2>2 DEF UntimedFree, NotUntimed, Timed
<1>4. ASSUME NEW g \in Gens, e = legacy[g][j], g = gen[r] \/ g = prev[r]
      PROVE  e.at # Untimed /\ e.at <= asked[j]
  <2>1. e.at <= asked[j] BY <1>4 DEF RevocationInv, LegacyOK, Fits
  <2>2. ASSUME e.at = Untimed PROVE FALSE
    <3>1. g = 0 /\ MaxGen > 0 BY <1>4, <2>2 DEF UntimedOld
    <3>2. gen[r] > 0 /\ (prev[r] # NoGen => prev[r] # 0) BY <1>1, <3>1 DEF GensOK
    <3> QED BY <1>1, <1>4, <3>1, <3>2
  <2> QED BY <2>1, <2>2
<1>5. CASE e = LegacyGet(r, j) BY <1>1, <1>4, <1>5 DEF LegacyGet
<1> QED BY <1>2, <1>3, <1>5

\* A key minted after the last time that any revocation of its name or subject
\* read, for the shared class or for the legacy one, works on every replica: for a host without earlier releases' entries at any time, and for one
\* with them up to the horizon.
THEOREM FreshKeysWork == Spec => [](MaxGen = 0 \/ now < RevocationTTL => FreshKeyWorks)
<1>1. TypeOK /\ RevocationInv /\ SweepInv /\ FreshInv
        => (MaxGen = 0 \/ now < RevocationTTL => FreshKeyWorks)
  <2> SUFFICES ASSUME TypeOK, RevocationInv, SweepInv, FreshInv, MaxGen = 0 \/ now < RevocationTTL,
                      NEW t \in Mintable, NEW r \in Replicas,
                      t.iat > asked[t.jti], t.iat > asked[Sub], gen[r] >= fresh[t.jti], Revoked(r, t)
               PROVE  FALSE
      BY DEF FreshKeyWorks
  <2>1. PICK e \in {store[t.jti], store[Sub], LegacyGet(r, t.jti)} :
           e # NoEntry /\ RevokedNoEarlierThan(e, t.iat)
        BY DEF Revoked
  <2>2. PICK j \in Jtis : j = t.jti BY DEF Mintable
  <2>3. e.at # Untimed /\ (e.at <= asked[j] \/ e.at <= asked[Sub])
        BY <2>1, <2>2, ReadIsTimed DEF SweepInv
  <2>4. t.iat <= e.at BY <2>1, <2>3 DEF RevokedNoEarlierThan
  <2>5. t.iat \in Int /\ asked[j] \in Int /\ asked[Sub] \in Int /\ e.at \in Int
    <3>1. setting \in Settings /\ Times \subseteq Int /\ Untimed \in Int /\ Before \in Int
          BY SettingFacts DEF TypeOK, Untimed, Before
    <3>2. t.iat \in Int BY <3>1 DEF Mintable
    <3>3. asked[j] \in Int /\ asked[Sub] \in Int BY <3>1 DEF TypeOK, Keys
    <3>4. LegacyGet(r, j) \in Entries \cup {NoEntry}
      <4>1. gen[r] \in Gens /\ prev[r] \in Gens \cup {NoGen} BY <3>1, SettingFacts DEF TypeOK
      <4> QED BY <4>1 DEF LegacyGet, TypeOK
    <3>5. store[j] \in Entries \cup {NoEntry} /\ store[Sub] \in Entries \cup {NoEntry}
          BY DEF TypeOK, Keys
    <3>6. e \in Entries BY <2>1, <2>2, <3>4, <3>5
    <3> QED BY <3>1, <3>2, <3>3, <3>6, EntryFacts
  <2> QED BY <2>2, <2>3, <2>4, <2>5
<1> QED BY <1>1, TypeCorrect, RevocationInvariant, SweepInvariant, FreshInvariant, PTL
================================================================================
