----------------------- MODULE RefreshRotationProofs -----------------------
(***************************************************************************)
(* Refresh-token rotation keeps one live credential per lineage, whatever  *)
(* the number of requests, tokens, clients, faults and crashes.            *)
(***************************************************************************)
EXTENDS RefreshRotation, TLAPS

\* Every id a caller, a request or a grace record can name has been written,
\* and what has not been written has left no trace.
Wellformed ==
  /\ \A t \in Tokens : Known(t) => root[t] \in Tokens /\ Known(root[t])
  /\ \A t \in Tokens : ~Known(t) => /\ store[t] = 0 /\ root[t] = NoToken
                                    /\ t \notin orphan /\ t \notin closed
  /\ \A t \in held : Known(t) /\ t \notin orphan

\* The locals of a request fit the call it is about to make.
RequestOK(p) ==
  /\ pc[p] # "idle" => req[p].tok \in held
  /\ pc[p] \in RedeemPCs => req[p].cid \in Clients
  /\ pc[p] \in {"authorise", "create", "publish", "clearUnpublished"} =>
        claims[req[p].tok].client = req[p].cid
  /\ pc[p] \in {"publish", "clearUnpublished"} =>
        /\ req[p].new \in Tokens /\ req[p].new \notin orphan
        /\ Known(req[p].new)
        /\ claims[req[p].new].pred = req[p].tok
  /\ pc[p] = "logoutPred" => req[p].new \in Tokens
RequestsOK == \A p \in Procs : RequestOK(p)

\* A replayable result is the successor of the token it is filed under.
ResultsOK ==
  \A t \in Tokens : IsResult(t) =>
     /\ grace[t].token \notin orphan /\ Known(t) /\ Known(grace[t].token)
     /\ claims[grace[t].token].pred = t
     /\ grace[t].client = claims[t].client

IndInv == TypeOK /\ Wellformed /\ RequestsOK /\ ResultsOK /\ SingleLineage /\ ClosedStaysClosed

-----------------------------------------------------------------------------
(* Types                                                                   *)

\* The records the actions build have the shapes the variables hold.
LEMMA RecordShapes ==
  /\ NoClaims \notin ClaimsRec
  /\ NoReq \in ReqRec
  /\ NoGrace \in GraceRec
  /\ \A c \in Clients : Pending(c) \in GraceRec
  /\ \A c \in Clients, n \in Tokens : Result(c, n) \in GraceRec
  BY ConstantsAssumption
  DEF NoClaims, ClaimsRec, NoReq, ReqRec, Wents, Pending, Result, NoGrace, GraceRec

LEMMA BeginTypes ==
  ASSUME NEW t \in Tokens
  PROVE  /\ \A c \in Clients : Begin(t, c) \in ReqRec
         /\ \A pred \in Tokens \cup {NoToken}, went \in Wents :
               BeginLogout(t, pred, went) \in ReqRec
<1>1. (t \in loggedOut) \in BOOLEAN
  OBVIOUS
<1> QED BY <1>1, ConstantsAssumption DEF Begin, BeginLogout, ReqRec, Wents

\* A caller's token is a written one, with its record and its lineage.
LEMMA HeldTypes ==
  ASSUME IndInv, NEW t \in held
  PROVE  /\ t \in Tokens /\ Known(t) /\ root[t] \in Tokens
         /\ claims[t] \in ClaimsRec /\ claims[t].client \in Clients
         /\ claims[t].pred \in Tokens \cup {NoToken}
  BY DEF IndInv, TypeOK, Wellformed, Known, ClaimsRec

LEMMA RequestTypes ==
  ASSUME IndInv, NEW p \in Procs, pc[p] # "idle"
  PROVE  /\ req[p].tok \in held /\ req[p].tok \in Tokens
         /\ Known(req[p].tok) /\ root[req[p].tok] \in Tokens
         /\ claims[req[p].tok] \in ClaimsRec /\ claims[req[p].tok].client \in Clients
         /\ req[p] \in ReqRec
  BY HeldTypes DEF IndInv, TypeOK, RequestsOK, RequestOK

LEMMA HandTypes ==
  ASSUME IndInv, NEW p \in Procs, NEW n \in Tokens, pc[p] \in RedeemPCs, Hand(p, n)
  PROVE  /\ held' \in SUBSET Tokens
         /\ answers' \in [Tokens -> SUBSET [token : Tokens, client : Clients, late : BOOLEAN]]
         /\ pc' \in [Procs -> {"idle"} \cup RedeemPCs \cup LogoutPCs]
         /\ req' \in [Procs -> ReqRec]
<1>1. req[p].tok \in Tokens /\ req[p].cid \in Clients /\ req[p].late \in BOOLEAN
  BY RequestTypes DEF IndInv, RequestsOK, RequestOK, ReqRec, RedeemPCs
<1>2. [token |-> n, client |-> req[p].cid, late |-> req[p].late]
         \in [token : Tokens, client : Clients, late : BOOLEAN]
  BY <1>1, Zenon
<1> HIDE DEF IndInv
<1>3. answers \in [Tokens -> SUBSET [token : Tokens, client : Clients, late : BOOLEAN]]
  BY DEF IndInv, TypeOK
<1>4. answers' \in [Tokens -> SUBSET [token : Tokens, client : Clients, late : BOOLEAN]]
  <2> DEFINE a == [token |-> n, client |-> req[p].cid, late |-> req[p].late]
             A == [token : Tokens, client : Clients, late : BOOLEAN]
  <2>1. a \in A
    BY <1>2
  <2>2. answers' = [answers EXCEPT ![req[p].tok] = @ \cup {a}]
    BY DEF Hand
  <2> HIDE DEF a, A
  <2> QED BY <1>1, <1>3, <2>1, <2>2 DEF A
<1> QED BY <1>4, RecordShapes DEF Hand, Return, Step, IndInv, TypeOK

LEMMA TypeStep ==
  ASSUME IndInv, [Next]_vars
  PROVE  TypeOK'
<1> USE ConstantsAssumption
<1>1. CASE Tick
  BY <1>1 DEF IndInv, TypeOK, Tick, cacheVars, histVars
<1>2. ASSUME NEW n \in Tokens, NEW c \in Clients, Login(n, c) PROVE TypeOK'
  <2>1. NewClaims(c, 0, NoToken) \in ClaimsRec
    BY DEF IndInv, TypeOK, NewClaims, ClaimsRec
  <2> QED BY <1>2, <2>1 DEF IndInv, TypeOK, Login, CreateRefreshToken
<1>3. ASSUME NEW t \in Tokens, ExpireGrace(t) PROVE TypeOK'
  BY <1>3, RecordShapes DEF IndInv, TypeOK, ExpireGrace, histVars
<1>4. ASSUME NEW t \in Tokens, ExpireTombstone(t) PROVE TypeOK'
  BY <1>4 DEF IndInv, TypeOK, ExpireTombstone, histVars
<1>5. ASSUME NEW p \in Procs, NEW t \in held, NEW c \in Clients, RedeemConsume(p, t, c)
      PROVE TypeOK'
  <2>1. t \in Tokens /\ root[t] \in Tokens
    BY HeldTypes
  <2>2. Begin(t, c) \in ReqRec
    BY <2>1, BeginTypes
  <2> HIDE DEF Begin
  <2> QED
    BY <1>5, <2>1, <2>2
    DEF IndInv, TypeOK, RedeemConsume, Remove, LoseRecord, Closed, Fault, NoFault, Step, RedeemPCs
<1>6. ASSUME NEW p \in Procs, NEW t \in held, LogoutConsume(p, t) PROVE TypeOK'
  <2>1. t \in Tokens /\ root[t] \in Tokens /\ claims[t].pred \in Tokens \cup {NoToken}
    BY HeldTypes
  <2>2. \A pred \in Tokens \cup {NoToken}, went \in Wents : BeginLogout(t, pred, went) \in ReqRec
    BY <2>1, BeginTypes
  <2>3. req' \in [Procs -> ReqRec]
    BY <1>6, <2>1, <2>2 DEF IndInv, TypeOK, LogoutConsume, Wents
  <2> QED
    BY <1>6, <2>1, <2>3
    DEF IndInv, TypeOK, LogoutConsume, Remove, LoseRecord, Closed, Fault, NoFault, Step, LogoutPCs
<1>7. ASSUME NEW p \in Procs, Redeem(p) PROVE TypeOK'
  <2> DEFINE t == req[p].tok
  <2>0. pc[p] # "idle"
    BY <1>7 DEF Redeem, RedeemMark, RedeemValidate, RedeemAuthorise, RedeemCreate, RedeemPublish,
                RedeemRestoreCheck, RedeemRestore, RedeemClear, RedeemPoll
  <2>t. /\ t \in Tokens /\ root[t] \in Tokens /\ claims[t] \in ClaimsRec
        /\ claims[t].client \in Clients /\ req[p] \in ReqRec
    BY <2>0, RequestTypes
  <2> USE <2>t DEF Step, Goto, Return, Fault, NoFault, AnyFault, RedeemPCs, LogoutPCs
  <2>1. CASE RedeemMark(p)
    BY <2>1, RecordShapes DEF IndInv, TypeOK, RedeemMark, histVars
  <2>2. CASE RedeemValidate(p)
    BY <2>2 DEF IndInv, TypeOK, RedeemValidate, Refuse, ServerError, Closed, cacheVars
  <2>3. CASE RedeemAuthorise(p)
    BY <2>3 DEF IndInv, TypeOK, RedeemAuthorise, Refuse, ServerError, Closed, cacheVars
  <2>4. ASSUME NEW n \in Tokens, RedeemCreate(p, n) PROVE TypeOK'
    <3>1. NewClaims(claims[t].client, claims[t].orig, t) \in ClaimsRec
      BY DEF IndInv, TypeOK, NewClaims, ClaimsRec
    <3>2. req' \in [Procs -> ReqRec]
      BY <2>4 DEF IndInv, TypeOK, RedeemCreate, ServerError, ReqRec
    <3> QED BY <2>4, <3>1, <3>2 DEF IndInv, TypeOK, RedeemCreate, CreateRefreshToken, ServerError
  <2>5. CASE RedeemPublish(p)
    <3>1. req[p].new \in Tokens
      BY <2>5 DEF IndInv, RequestsOK, RequestOK, RedeemPublish
    <3>2. grace' \in [Tokens -> GraceRec] /\ faults' \in Nat
      BY <2>5, <3>1, RecordShapes DEF IndInv, TypeOK, RedeemPublish
    <3>3. CASE Hand(p, req[p].new)
      BY <2>5, <3>1, <3>2, <3>3, HandTypes DEF IndInv, TypeOK, RedeemPublish
    <3>4. CASE PublishFailed(p)
      BY <2>5, <3>2, <3>4 DEF IndInv, TypeOK, RedeemPublish, PublishFailed
    <3> QED BY <2>5, <3>3, <3>4 DEF RedeemPublish
  <2>6. CASE RedeemRestoreCheck(p)
    BY <2>6 DEF IndInv, TypeOK, RedeemRestoreCheck, Closed, cacheVars
  <2>7. CASE RedeemRestore(p)
    BY <2>7 DEF IndInv, TypeOK, RedeemRestore, RestoredUntil, ClaimsRec, Closed
  <2>8. CASE RedeemClear(p)
    <3>1. pc[p] = "clearUnpublished" => req[p].new \in Tokens
      BY DEF IndInv, RequestsOK, RequestOK
    <3>2. grace' \in [Tokens -> GraceRec] /\ faults' \in Nat /\ stranded' \in SUBSET Tokens
      BY <2>8, RecordShapes DEF IndInv, TypeOK, RedeemClear
    <3>3. CASE pc[p] = "clearUnpublished"
      BY <2>8, <3>1, <3>2, <3>3, HandTypes DEF IndInv, TypeOK, RedeemClear
    <3>4. CASE pc[p] # "clearUnpublished"
      BY <2>8, <3>2, <3>4, RecordShapes DEF IndInv, TypeOK, RedeemClear
    <3> QED BY <3>3, <3>4
  <2>9. CASE RedeemPoll(p)
    <3>0. UNCHANGED <<now, cacheVars, root, orphan, loggedOut, ended, stranded, closed>> /\ faults' \in Nat
      BY <2>9 DEF IndInv, TypeOK, RedeemPoll
    <3>1. CASE PollResult(p) /\ Hand(p, grace[t].token)
      <4>1. grace[t].token \in Tokens
        BY <3>1 DEF IndInv, TypeOK, PollResult, GraceRec, NoGrace
      <4> QED BY <2>9, <3>0, <3>1, <4>1, HandTypes DEF IndInv, TypeOK, RedeemPoll, cacheVars
    <3>2. CASE Return(p) /\ UNCHANGED <<held, answers>>
      BY <3>0, <3>2, RecordShapes DEF IndInv, TypeOK, cacheVars
    <3>3. CASE PollAgain(p) /\ ~Return(p)
      <4>1. NextAttempt(req[p].attempt) \in 0 .. ReplayAttempts - 1
        BY <3>3 DEF PollAgain, PollOver, NextAttempt, ReqRec
      <4>2. req' \in [Procs -> ReqRec]
        <5> HIDE DEF NextAttempt
        <5>1. req' = [req EXCEPT ![p].attempt = NextAttempt(req[p].attempt)]
          BY <3>3 DEF PollAgain
        <5> QED BY <4>1, <5>1 DEF IndInv, TypeOK, ReqRec
      <4> QED BY <3>0, <3>3, <4>2, <2>9 DEF IndInv, TypeOK, PollAgain, RedeemPoll, cacheVars
    <3> QED BY <2>9, <3>1, <3>2, <3>3 DEF RedeemPoll, PollResult, PollAgain
  <2> QED
    BY <1>7, <2>1, <2>2, <2>3, <2>4, <2>5, <2>6, <2>7, <2>8, <2>9 DEF Redeem
<1>8. ASSUME NEW p \in Procs, Logout(p) \/ Crash(p) PROVE TypeOK'
  <2>0. pc[p] # "idle"
    BY <1>8 DEF Logout, LogoutTombstone, LogoutGrace, LogoutPred, Crash
  <2>t. req[p].tok \in Tokens /\ root[req[p].tok] \in Tokens /\ req[p] \in ReqRec
    BY <2>0, RequestTypes
  <2> USE <2>t, RecordShapes DEF Step, Return, Fault, NoFault, RedeemPCs, LogoutPCs
  <2>1. CASE LogoutTombstone(p)
    BY <2>1 DEF IndInv, TypeOK, LogoutTombstone, Partial, histVars, ReqRec, Wents
  <2>2. CASE LogoutGrace(p)
    <3>1. req' \in [Procs -> ReqRec]
      BY <2>2 DEF IndInv, TypeOK, LogoutGrace, LogoutDone, ReqRec
    <3> QED BY <2>2, <3>1 DEF IndInv, TypeOK, LogoutGrace, LogoutDelete, LogoutDone
  <2>3. CASE LogoutPred(p)
    BY <2>3 DEF IndInv, TypeOK, LogoutPred, LogoutDelete, LogoutDone
  <2>4. CASE Crash(p)
    BY <2>4 DEF IndInv, TypeOK, Crash, Closed, cacheVars
  <2> QED BY <1>8, <2>1, <2>2, <2>3, <2>4 DEF Logout
<1>9. CASE UNCHANGED vars
  BY <1>9 DEF IndInv, TypeOK, vars, cacheVars, histVars
<1> QED
  BY <1>1, <1>2, <1>3, <1>4, <1>5, <1>6, <1>7, <1>8, <1>9 DEF Next

-----------------------------------------------------------------------------
(* Ids, requests and grace records                                         *)

LEMMA NewClaimsFacts ==
  ASSUME IndInv, NEW c \in Clients, NEW orig \in Nat, NEW pred \in Tokens \cup {NoToken}
  PROVE  /\ NewClaims(c, orig, pred) # NoClaims
         /\ NewClaims(c, orig, pred).client = c
         /\ NewClaims(c, orig, pred).pred = pred
  BY ConstantsAssumption DEF NewClaims, NoClaims

LEMMA WellformedStep ==
  ASSUME IndInv, [Next]_vars
  PROVE  Wellformed'
<1> USE ConstantsAssumption DEF Known
<1>a. TypeOK
  BY DEF IndInv
<1>1. CASE Tick
  BY <1>1 DEF IndInv, Wellformed, Tick, cacheVars, histVars
<1>2. ASSUME NEW n \in Tokens, NEW c \in Clients, Login(n, c) PROVE Wellformed'
  <2>1. NewClaims(c, 0, NoToken) # NoClaims
    BY NewClaimsFacts
  <2> QED BY <1>a, <1>2, <2>1 DEF IndInv, TypeOK, Wellformed, Login, CreateRefreshToken
<1>3. ASSUME NEW t \in Tokens, ExpireGrace(t) \/ ExpireTombstone(t) PROVE Wellformed'
  BY <1>3 DEF IndInv, Wellformed, ExpireGrace, ExpireTombstone, histVars
<1>4. ASSUME NEW p \in Procs, NEW t \in held, NEW c \in Clients, RedeemConsume(p, t, c)
      PROVE Wellformed'
  BY <1>a, <1>4, HeldTypes DEF IndInv, TypeOK, Wellformed, RedeemConsume, Remove, LoseRecord, Closed
<1>5. ASSUME NEW p \in Procs, NEW t \in held, LogoutConsume(p, t) PROVE Wellformed'
  BY <1>a, <1>5, HeldTypes DEF IndInv, TypeOK, Wellformed, LogoutConsume, Remove, LoseRecord, Closed
<1>6. ASSUME NEW p \in Procs, Redeem(p) PROVE Wellformed'
  <2> DEFINE t == req[p].tok
  <2>0. pc[p] # "idle"
    BY <1>6 DEF Redeem, RedeemMark, RedeemValidate, RedeemAuthorise, RedeemCreate, RedeemPublish,
                RedeemRestoreCheck, RedeemRestore, RedeemClear, RedeemPoll
  <2>t. /\ t \in held /\ t \in Tokens /\ Known(t) /\ root[t] \in Tokens
        /\ claims[t] \in ClaimsRec /\ claims[t].client \in Clients
    BY <2>0, RequestTypes
  <2> USE <2>t DEF IndInv, Wellformed
  <2>1. CASE RedeemMark(p)
    BY <2>1 DEF RedeemMark, histVars
  <2>2. CASE RedeemValidate(p)
    BY <2>2 DEF RedeemValidate, Refuse, ServerError, Closed, cacheVars
  <2>3. CASE RedeemAuthorise(p)
    BY <2>3 DEF RedeemAuthorise, Refuse, ServerError, Closed, cacheVars
  <2>4. ASSUME NEW n \in Tokens, RedeemCreate(p, n) PROVE Wellformed'
    <3>1. NewClaims(claims[t].client, claims[t].orig, t) # NoClaims
      BY NewClaimsFacts DEF ClaimsRec
    <3>2. n \notin held /\ n # t
      BY <2>4 DEF RedeemCreate
    <3> QED BY <1>a, <2>4, <3>1, <3>2 DEF TypeOK, RedeemCreate, CreateRefreshToken, ServerError
  <2>5. CASE RedeemPublish(p)
    <3>1. Known(req[p].new) /\ req[p].new \notin orphan
      BY <2>5 DEF RequestsOK, RequestOK, RedeemPublish
    <3> QED BY <2>5, <3>1 DEF RedeemPublish, PublishFailed, Hand
  <2>6. CASE RedeemRestoreCheck(p)
    BY <2>6 DEF RedeemRestoreCheck, Closed, cacheVars
  <2>7. CASE RedeemRestore(p)
    BY <1>a, <2>7 DEF TypeOK, RedeemRestore, Closed
  <2>8. CASE RedeemClear(p)
    <3>1. pc[p] = "clearUnpublished" => Known(req[p].new) /\ req[p].new \notin orphan
      BY DEF RequestsOK, RequestOK
    <3> QED BY <2>8, <3>1 DEF RedeemClear, Hand
  <2>9. CASE RedeemPoll(p)
    <3>1. IsResult(t) => Known(grace[t].token) /\ grace[t].token \notin orphan
      BY DEF ResultsOK
    <3> QED BY <2>9, <3>1 DEF RedeemPoll, PollResult, PollAgain, IsResult, Hand, cacheVars
  <2> QED
    BY <1>6, <2>1, <2>2, <2>3, <2>4, <2>5, <2>6, <2>7, <2>8, <2>9 DEF Redeem
<1>7. ASSUME NEW p \in Procs, Logout(p) PROVE Wellformed'
  BY <1>7 DEF IndInv, Wellformed, Logout, LogoutTombstone, LogoutGrace, LogoutPred, LogoutDone, histVars
<1>8. ASSUME NEW p \in Procs, Crash(p) PROVE Wellformed'
  <2>1. root[req[p].tok] \in Tokens /\ Known(root[req[p].tok])
    BY <1>8, RequestTypes DEF Crash, IndInv, Wellformed
  <2> QED BY <1>8, <2>1 DEF IndInv, Wellformed, Crash, Closed, cacheVars
<1>9. CASE UNCHANGED vars
  BY <1>9 DEF IndInv, Wellformed, vars, cacheVars, histVars
<1> QED
  BY <1>1, <1>2, <1>3, <1>4, <1>5, <1>6, <1>7, <1>8, <1>9 DEF Next

\* What has been written stays as it was written.
Stable ==
  /\ held \subseteq held'
  /\ \A t \in Tokens : Known(t) => /\ claims'[t] = claims[t] /\ root'[t] = root[t]
                                   /\ t \in orphan' => t \in orphan

LEMMA StableStep ==
  ASSUME IndInv, [Next]_vars
  PROVE  Stable
<1> USE DEF Known, Stable
<1>a. TypeOK
  BY DEF IndInv
<1>1. ASSUME NEW n \in Tokens, NEW c \in Clients, Login(n, c) PROVE Stable
  BY <1>a, <1>1 DEF TypeOK, Login, CreateRefreshToken
<1>2. ASSUME NEW p \in Procs, NEW n \in Tokens, RedeemCreate(p, n) PROVE Stable
  BY <1>a, <1>2 DEF TypeOK, RedeemCreate, CreateRefreshToken
<1>3. CASE held \subseteq held' /\ UNCHANGED <<claims, root, orphan>>
  BY <1>3
<1>4. CASE Tick \/ UNCHANGED vars \/ \E t \in Tokens : ExpireGrace(t) \/ ExpireTombstone(t)
  BY <1>4, <1>3 DEF Tick, ExpireGrace, ExpireTombstone, vars, cacheVars, histVars
<1>5. ASSUME NEW p \in Procs,
             \/ \E t \in held : (\E c \in Clients : RedeemConsume(p, t, c)) \/ LogoutConsume(p, t)
             \/ Logout(p) \/ Crash(p)
      PROVE  Stable
  BY <1>5, <1>3 DEF RedeemConsume, LogoutConsume, Logout, LogoutTombstone, LogoutGrace,
                    LogoutPred, Crash, cacheVars, histVars
<1>6. ASSUME NEW p \in Procs,
             \/ RedeemMark(p) \/ RedeemValidate(p) \/ RedeemAuthorise(p) \/ RedeemRestoreCheck(p)
             \/ RedeemRestore(p) \/ RedeemPublish(p) \/ RedeemClear(p) \/ RedeemPoll(p)
      PROVE  Stable
  BY <1>6, <1>3 DEF RedeemMark, RedeemValidate, RedeemAuthorise, RedeemRestoreCheck, RedeemRestore,
                    RedeemPublish, RedeemClear, RedeemPoll, PollResult, PollAgain, PublishFailed,
                    Hand, cacheVars, histVars
<1> QED
  BY <1>1, <1>2, <1>4, <1>5, <1>6 DEF Next, Redeem

\* Only the request that takes the step changes its locals.
LEMMA OthersOK ==
  ASSUME IndInv, Stable, NEW q \in Procs, pc'[q] = pc[q], req'[q] = req[q]
  PROVE  RequestOK(q)'
<1>1. RequestOK(q) /\ (pc[q] # "idle" => Known(req[q].tok) /\ req[q].tok \in Tokens)
  BY RequestTypes DEF IndInv, RequestsOK
<1> QED BY <1>1 DEF RequestOK, Stable, Known

LEMMA RequestsStep ==
  ASSUME IndInv, [Next]_vars
  PROVE  RequestsOK'
<1> USE ConstantsAssumption DEF RequestsOK
<1>a. Stable /\ TypeOK
  BY StableStep DEF IndInv
<1>1. CASE UNCHANGED <<pc, req>>
  BY <1>a, <1>1, OthersOK
<1>2. CASE Tick \/ UNCHANGED vars \/ (\E t \in Tokens : ExpireGrace(t) \/ ExpireTombstone(t))
           \/ \E n \in Tokens, c \in Clients : Login(n, c)
  BY <1>1, <1>2 DEF Tick, ExpireGrace, ExpireTombstone, Login, vars, cacheVars, histVars
<1>3. ASSUME NEW p \in Procs, NEW q \in Procs, q # p, pc'[q] = pc[q], req'[q] = req[q]
      PROVE  RequestOK(q)'
  BY <1>a, <1>3, OthersOK
<1>4. ASSUME NEW p \in Procs, NEW t \in held, NEW c \in Clients, RedeemConsume(p, t, c)
      PROVE  RequestsOK'
  <2>1. CASE UNCHANGED <<pc, req>>
    BY <1>1, <2>1
  <2>2. CASE pc' # pc
    <3>1. \A q \in Procs \ {p} : pc'[q] = pc[q] /\ req'[q] = req[q]
      BY <1>a, <1>4, <2>2 DEF TypeOK, RedeemConsume, Step
    <3>2. pc'[p] \in {"mark", "poll"} /\ req'[p] = Begin(t, c) /\ t \in held'
      BY <1>a, <1>4, <2>2 DEF TypeOK, RedeemConsume, Step, Stable
    <3>3. RequestOK(p)'
      BY <3>2 DEF RequestOK, Begin, RedeemPCs
    <3> QED BY <1>3, <3>1, <3>3
  <2> QED BY <1>a, <1>4, <2>1, <2>2 DEF TypeOK, RedeemConsume, Step
<1>5. ASSUME NEW p \in Procs, NEW t \in held, LogoutConsume(p, t) PROVE RequestsOK'
  <2>1. \A q \in Procs \ {p} : pc'[q] = pc[q] /\ req'[q] = req[q]
    BY <1>a, <1>5 DEF TypeOK, LogoutConsume, Step
  <2>2. pc'[p] = "logoutTomb" /\ req'[p].tok = t /\ t \in held'
    BY <1>a, <1>5 DEF TypeOK, LogoutConsume, Step, BeginLogout, Stable
  <2>3. RequestOK(p)'
    BY <2>2 DEF RequestOK, RedeemPCs
  <2> QED BY <1>3, <2>1, <2>3
<1>6. ASSUME NEW p \in Procs, Redeem(p) PROVE RequestsOK'
  <2> DEFINE t == req[p].tok
  <2>0. pc[p] \in RedeemPCs
    BY <1>6 DEF Redeem, RedeemMark, RedeemValidate, RedeemAuthorise, RedeemCreate, RedeemPublish,
                RedeemRestoreCheck, RedeemRestore, RedeemClear, RedeemPoll, RedeemPCs
  <2>t. /\ t \in held /\ t \in Tokens /\ Known(t) /\ req[p] \in ReqRec
        /\ claims[t] \in ClaimsRec /\ claims[t].client \in Clients
    BY <2>0, RequestTypes DEF RedeemPCs
  <2>s. t \in held' /\ claims'[t] = claims[t] /\ claims'[t] # NoClaims
    BY <1>a, <2>t DEF Stable, Known
  <2>r. RequestOK(p)
    BY DEF IndInv
  <2>f. \A q \in Procs \ {p} : pc'[q] = pc[q] /\ req'[q] = req[q]
    BY <1>6, <1>a DEF TypeOK, Redeem, RedeemMark, RedeemValidate, RedeemAuthorise, RedeemCreate,
       RedeemPublish, PublishFailed, RedeemRestoreCheck, RedeemRestore, RedeemClear, RedeemPoll,
       PollResult, PollAgain, Hand, Refuse, ServerError, Goto, Return, Step
  <2>i. CASE pc'[p] = "idle"
    <3>1. RequestOK(p)'
      BY <2>i DEF RequestOK, RedeemPCs
    <3> QED BY <1>3, <2>f, <3>1
  <2>u. CASE req'[p] = req[p] /\ pc'[p] \in RedeemPCs \ {"authorise", "create", "publish", "clearUnpublished"}
    <3>1. RequestOK(p)'
      BY <2>u, <2>s, <2>0, <2>r DEF RequestOK, RedeemPCs
    <3> QED BY <1>3, <2>f, <3>1
  <2> USE <1>a DEF TypeOK, Step, Goto, Return, RedeemPCs
  <2>1. CASE RedeemMark(p)
    BY <2>1, <2>u DEF RedeemMark
  <2>2. CASE RedeemValidate(p)
    <3>1. CASE Refuse(p) \/ ServerError(p)
      BY <3>1, <2>u DEF Refuse, ServerError
    <3>2. CASE ~WrongClient(p) /\ Goto(p, "authorise")
      <4>1. RequestOK(p)'
        BY <2>0, <2>r, <2>s, <3>2 DEF RequestOK, WrongClient
      <4> QED BY <1>3, <2>f, <4>1
    <3> QED BY <2>2, <3>1, <3>2 DEF RedeemValidate
  <2>3. CASE RedeemAuthorise(p)
    <3>1. CASE Refuse(p) \/ ServerError(p)
      BY <3>1, <2>u DEF Refuse, ServerError
    <3>2. CASE pc[p] = "authorise" /\ Goto(p, "create")
      <4>1. RequestOK(p)'
        BY <2>0, <2>r, <2>s, <3>2 DEF RequestOK
      <4> QED BY <1>3, <2>f, <4>1
    <3> QED BY <2>3, <3>1, <3>2 DEF RedeemAuthorise
  <2>4. ASSUME NEW n \in Tokens, RedeemCreate(p, n) PROVE RequestsOK'
    <3>1. CASE ServerError(p)
      BY <3>1, <2>u DEF ServerError
    <3>2. CASE ~ServerError(p)
      <4>1. /\ pc[p] = "create" /\ ~Known(n) /\ pc'[p] = "publish"
            /\ req'[p].new = n /\ req'[p].tok = t /\ req'[p].cid = req[p].cid
            /\ orphan' = orphan
            /\ claims'[n] = NewClaims(claims[t].client, claims[t].orig, t)
        BY <2>4, <2>t, <3>2 DEF RedeemCreate, CreateRefreshToken, ReqRec
      <4>2. Known(n)' /\ claims'[n].pred = t
        BY <4>1, <2>t, NewClaimsFacts DEF Known, ClaimsRec
      <4>3. n \notin orphan
        BY <4>1 DEF IndInv, Wellformed
      <4>4. RequestOK(p)'
        BY <2>r, <2>s, <4>1, <4>2, <4>3 DEF RequestOK
      <4> QED BY <1>3, <2>f, <4>4
    <3> QED BY <3>1, <3>2
  <2>5. CASE RedeemPublish(p)
    <3>1. CASE PublishFailed(p)
      <4>0. claims'[req[p].new] # NoClaims /\ claims'[req[p].new] = claims[req[p].new] /\ orphan' = orphan
        BY <2>5, <2>r DEF RedeemPublish, RequestOK, Stable, Known
      <4>1. RequestOK(p)'
        BY <2>5, <2>r, <2>s, <3>1, <4>0 DEF RequestOK, Known, PublishFailed, RedeemPublish
      <4> QED BY <1>3, <2>f, <4>1
    <3> QED BY <2>5, <3>1, <2>i DEF RedeemPublish, Hand
  <2>6. CASE RedeemRestoreCheck(p)
    BY <2>6, <2>u DEF RedeemRestoreCheck
  <2>7. CASE RedeemRestore(p)
    BY <2>7, <2>u DEF RedeemRestore
  <2>8. CASE RedeemClear(p)
    BY <2>8, <2>i DEF RedeemClear, Hand
  <2>9. CASE RedeemPoll(p)
    <3>1. CASE pc'[p] # "idle"
      <4>1. /\ pc'[p] \in {"poll", "await"}
            /\ req' = [req EXCEPT ![p].attempt = NextAttempt(req[p].attempt)]
        BY <2>9, <3>1 DEF RedeemPoll, PollResult, PollAgain, Hand
      <4>2. req'[p].tok = t /\ req'[p].cid = req[p].cid
        BY <4>1, <2>t DEF ReqRec
      <4>3. RequestOK(p)'
        BY <2>r, <2>s, <2>0, <4>1, <4>2 DEF RequestOK
      <4> QED BY <1>3, <2>f, <4>3
    <3> QED BY <3>1, <2>i
  <2> QED
    BY <1>6, <2>1, <2>2, <2>3, <2>4, <2>5, <2>6, <2>7, <2>8, <2>9 DEF Redeem
<1>7. ASSUME NEW p \in Procs, Logout(p) \/ Crash(p) PROVE RequestsOK'
  <2>0. pc[p] # "idle"
    BY <1>7 DEF Logout, LogoutTombstone, LogoutGrace, LogoutPred, Crash
  <2>t. req[p].tok \in held' /\ req[p] \in ReqRec
    BY <1>a, <2>0, RequestTypes DEF Stable
  <2>f. \A q \in Procs \ {p} : pc'[q] = pc[q] /\ req'[q] = req[q]
    BY <1>7, <1>a DEF TypeOK, Logout, LogoutTombstone, LogoutGrace, LogoutPred, LogoutDone, Crash, Return, Step
  <2>1. CASE pc'[p] = "idle"
    <3>1. RequestOK(p)'
      BY <2>1 DEF RequestOK, RedeemPCs
    <3> QED BY <1>3, <2>f, <3>1
  <2>2. CASE LogoutTombstone(p)
    <3>1. pc'[p] = "logoutGrace" /\ req'[p].tok = req[p].tok
      BY <1>a, <2>2, <2>t DEF TypeOK, LogoutTombstone, Step, ReqRec
    <3>2. RequestOK(p)'
      BY <2>t, <3>1 DEF RequestOK, RedeemPCs
    <3> QED BY <1>3, <2>f, <3>2
  <2>3. CASE LogoutGrace(p) /\ pc'[p] # "idle"
    <3>1. pc'[p] = "logoutPred" /\ req'[p].tok = req[p].tok /\ req'[p].new \in Tokens
      BY <1>a, <2>3, <2>t DEF TypeOK, LogoutGrace, LogoutDone, HasPredecessor, Return, Step, ReqRec
    <3>2. RequestOK(p)'
      BY <2>t, <3>1 DEF RequestOK, RedeemPCs
    <3> QED BY <1>3, <2>f, <3>2
  <2>4. CASE LogoutPred(p) \/ Crash(p)
    BY <1>a, <2>1, <2>4 DEF TypeOK, LogoutPred, LogoutDone, Crash, Return, Step
  <2> QED BY <1>7, <2>1, <2>2, <2>3, <2>4 DEF Logout
<1> QED
  BY <1>2, <1>4, <1>5, <1>6, <1>7 DEF Next

LEMMA ResultsStep ==
  ASSUME IndInv, [Next]_vars
  PROVE  ResultsOK'
<1>a. Stable /\ TypeOK
  BY StableStep DEF IndInv
<1>1. ASSUME NEW u \in Tokens, IsResult(u)', grace'[u] = grace[u]
      PROVE  /\ grace'[u].token \notin orphan' /\ Known(u)' /\ claims'[grace'[u].token] # NoClaims
             /\ claims'[grace'[u].token].pred = u
             /\ grace'[u].client = claims'[u].client
  <2>1. grace[u].token \in Tokens
    BY <1>a, <1>1 DEF TypeOK, IsResult, GraceRec, NoGrace
  <2> QED BY <1>a, <1>1, <2>1 DEF IndInv, ResultsOK, IsResult, Stable, Known
<1>2. CASE UNCHANGED grace
  BY <1>1, <1>2 DEF ResultsOK, Known
<1>3. CASE \E t \in Tokens : grace' = [grace EXCEPT ![t] = NoGrace]
  BY <1>a, <1>1, <1>3 DEF ResultsOK, Known, IsResult, NoGrace, TypeOK
<1>4. ASSUME NEW p \in Procs, RedeemMark(p) PROVE ResultsOK'
  BY <1>a, <1>1, <1>2, <1>4 DEF ResultsOK, Known, IsResult, Pending, TypeOK, RedeemMark
<1>5. ASSUME NEW p \in Procs, RedeemPublish(p) PROVE ResultsOK'
  <2> DEFINE t == req[p].tok  n == req[p].new
  <2>1. /\ pc[p] = "publish" /\ t \in Tokens /\ Known(t) /\ n \in Tokens /\ n \notin orphan
        /\ Known(n) /\ claims[n].pred = t
    BY <1>5, RequestTypes DEF RedeemPublish, IndInv, RequestsOK, RequestOK
  <2>2. UNCHANGED <<claims, orphan>>
    BY <1>5 DEF RedeemPublish
  <2>3. CASE grace' = [grace EXCEPT ![t] = Result(claims[t].client, n)]
    <3>1. ASSUME NEW u \in Tokens, IsResult(u)'
          PROVE  /\ grace'[u].token \notin orphan' /\ Known(u)' /\ claims'[grace'[u].token] # NoClaims
                 /\ claims'[grace'[u].token].pred = u
                 /\ grace'[u].client = claims'[u].client
      <4>1. CASE u = t
        BY <1>a, <2>1, <2>2, <2>3, <4>1 DEF TypeOK, Result, Known
      <4>2. CASE u # t
        BY <1>a, <1>1, <2>3, <3>1, <4>2 DEF TypeOK
      <4> QED BY <4>1, <4>2
    <3> QED BY <3>1 DEF ResultsOK, Known
  <2> QED BY <1>2, <1>5, <2>3 DEF RedeemPublish
<1>6. ASSUME NEW p \in Procs, RedeemClear(p) \/ LogoutGrace(p) \/ LogoutPred(p) PROVE ResultsOK'
  <2>1. req[p].tok \in Tokens /\ (pc[p] = "logoutPred" => req[p].new \in Tokens)
    BY <1>6, RequestTypes DEF RedeemClear, LogoutGrace, LogoutPred, IndInv, RequestsOK, RequestOK
  <2> QED BY <1>2, <1>3, <1>6, <2>1 DEF RedeemClear, LogoutGrace, LogoutPred, LogoutDelete
<1>7. ASSUME NEW p \in Procs,
             \/ RedeemValidate(p) \/ RedeemAuthorise(p) \/ RedeemRestoreCheck(p) \/ RedeemRestore(p)
             \/ RedeemPoll(p) \/ LogoutTombstone(p) \/ Crash(p)
             \/ \E n \in Tokens : RedeemCreate(p, n)
             \/ \E t \in held : (\E c \in Clients : RedeemConsume(p, t, c)) \/ LogoutConsume(p, t)
      PROVE  ResultsOK'
  BY <1>2, <1>7 DEF RedeemValidate, RedeemAuthorise, RedeemRestoreCheck, RedeemRestore, RedeemPoll,
     LogoutTombstone, Crash, RedeemCreate, RedeemConsume, LogoutConsume, cacheVars
<1>8. CASE Tick \/ UNCHANGED vars \/ (\E t \in Tokens : ExpireGrace(t) \/ ExpireTombstone(t))
           \/ \E n \in Tokens, c \in Clients : Login(n, c)
  BY <1>2, <1>3, <1>8 DEF Tick, ExpireGrace, ExpireTombstone, Login, vars, cacheVars
<1> QED
  BY <1>4, <1>5, <1>6, <1>7, <1>8 DEF Next, Redeem, Logout

-----------------------------------------------------------------------------
(* One credential per lineage                                              *)

\* A token in the cache or in a request's hands is a written one.
LEMMA CurrentKnown ==
  ASSUME IndInv, NEW t \in Tokens
  PROVE  /\ Stored(t) => Known(t) /\ root[t] \in Tokens
         /\ \A p \in Procs : Carried(p, t) => Known(t) /\ root[t] \in Tokens /\ t \notin orphan
  BY RequestTypes DEF IndInv, Wellformed, Stored, Carried, Holds, CustodyPCs

\* The lineage of t has nothing but t: it is stored, or one request carries it.
Only(t) ==
  /\ root[t] \notin closed
  /\ \A u \in Tokens : root[u] = root[t] =>
        /\ Stored(u) => u = t
        /\ \A p \in Procs : Carried(p, u) => u = t /\ ~Stored(t)

LEMMA StoredOnly ==
  ASSUME IndInv, NEW t \in Tokens, Stored(t)
  PROVE  /\ Only(t) /\ \A u \in Tokens, p \in Procs : root[u] = root[t] => ~Carried(p, u)
  BY ConstantsAssumption, CurrentKnown DEF IndInv, SingleLineage, ClosedStaysClosed, Only

LEMMA CarriedOnly ==
  ASSUME IndInv, NEW t \in Tokens, NEW p \in Procs, Carried(p, t)
  PROVE  /\ Only(t)
         /\ \A u \in Tokens : root[u] = root[t] =>
               ~Stored(u) /\ \A q \in Procs : Carried(q, u) => q = p
  BY ConstantsAssumption, CurrentKnown DEF IndInv, SingleLineage, ClosedStaysClosed, Only, Carried

\* A step that brings nothing into the cache or into a request's hands, and
\* closes at most the lineage of t, of which nothing is left.
LEMMA Shrink ==
  ASSUME IndInv, Stable,
         \A u \in Tokens : Stored(u)' => Stored(u),
         \A u \in Tokens, q \in Procs : Carried(q, u)' => Carried(q, u),
         \/ closed' = closed
         \/ \E t \in Tokens : /\ closed' = closed \cup {root[t]}
                              /\ \A u \in Tokens : root[u] = root[t] =>
                                    ~Stored(u)' /\ \A q \in Procs : ~Carried(q, u)'
  PROVE  SingleLineage' /\ ClosedStaysClosed'
<1>1. \A u \in Tokens : Stored(u)' => root'[u] = root[u]
  BY CurrentKnown DEF Stable
<1>2. \A u \in Tokens, q \in Procs : Carried(q, u)' => root'[u] = root[u]
  BY CurrentKnown DEF Stable
<1>3. SingleLineage'
  <2> SUFFICES ASSUME NEW t \in Tokens, NEW u \in Tokens, root'[t] # NoToken, root'[t] = root'[u]
               PROVE  /\ Stored(t)' /\ Stored(u)' => t = u
                      /\ \A p \in Procs : ~(Stored(t)' /\ Carried(p, u)')
                      /\ \A p, q \in Procs : Carried(p, t)' /\ Carried(q, u)' => p = q
    BY DEF SingleLineage
  <2>1. ASSUME root[t] # NoToken, root[t] = root[u]
        PROVE  /\ Stored(t) /\ Stored(u) => t = u
               /\ \A p \in Procs : ~(Stored(t) /\ Carried(p, u))
               /\ \A p, q \in Procs : Carried(p, t) /\ Carried(q, u) => p = q
    BY <2>1 DEF IndInv, SingleLineage
  <2> HIDE DEF Stored, Carried
  <2> QED BY <1>1, <1>2, <2>1
<1>4. ClosedStaysClosed'
  <2> SUFFICES ASSUME NEW u \in Tokens, root'[u] \in closed'
               PROVE  ~Stored(u)' /\ \A p \in Procs : ~Carried(p, u)'
    BY DEF ClosedStaysClosed
  <2>1. root[u] \in closed => ~Stored(u) /\ \A p \in Procs : ~Carried(p, u)
    BY DEF IndInv, ClosedStaysClosed
  <2> QED BY <1>1, <1>2, <2>1
<1> QED BY <1>3, <1>4

LEMMA LineageStep ==
  ASSUME IndInv, [Next]_vars
  PROVE  SingleLineage' /\ ClosedStaysClosed'
<1> DEFINE Goal == SingleLineage' /\ ClosedStaysClosed'
<1> USE ConstantsAssumption
<1>a. Stable /\ TypeOK
  BY StableStep DEF IndInv
<1>1. CASE UNCHANGED <<store, orphan, pc, req, closed>>
  BY <1>a, <1>1, Shrink DEF Stored, Carried, Holds
<1>2. CASE Tick \/ UNCHANGED vars \/ \E t \in Tokens : ExpireGrace(t) \/ ExpireTombstone(t)
  BY <1>1, <1>2 DEF Tick, ExpireGrace, ExpireTombstone, vars, cacheVars, histVars
<1>3. ASSUME NEW n \in Tokens, NEW c \in Clients, Login(n, c) PROVE Goal
  <2>1. ~Known(n) /\ \A u \in Tokens : root[u] # n
    BY <1>3 DEF Login, IndInv, Wellformed
  <2>2. /\ root' = [root EXCEPT ![n] = n] /\ store' = [store EXCEPT ![n] = now + RefreshTTL]
        /\ UNCHANGED <<orphan, pc, req, closed>>
    BY <1>3 DEF Login, CreateRefreshToken
  <2>3. n \notin closed /\ \A p \in Procs : ~Carried(p, n)
    BY <2>1, CurrentKnown DEF IndInv, Wellformed
  <2>4. \A u \in Tokens : u # n => root'[u] = root[u] /\ root'[u] # n /\ (Stored(u)' <=> Stored(u))
    BY <1>a, <2>1, <2>2 DEF TypeOK, Stored
  <2>5. root'[n] = n /\ \A u \in Tokens, p \in Procs : Carried(p, u)' <=> Carried(p, u)
    BY <1>a, <2>2 DEF TypeOK, Carried, Holds
  <2> QED BY <2>2, <2>3, <2>4, <2>5 DEF IndInv, SingleLineage, ClosedStaysClosed
<1>4. ASSUME NEW p \in Procs, NEW t \in held, NEW c \in Clients, RedeemConsume(p, t, c) PROVE Goal
  <2>0. t \in Tokens /\ Known(t) /\ t \notin orphan /\ pc[p] = "idle" /\ UNCHANGED <<root, orphan>>
    BY <1>4, HeldTypes DEF RedeemConsume, IndInv, Wellformed
  <2>1. CASE pc'[p] = "mark"
    <3>1. /\ Stored(t) /\ store' = [store EXCEPT ![t] = 0] /\ UNCHANGED closed
          /\ pc' = [pc EXCEPT ![p] = "mark"] /\ req' = [req EXCEPT ![p] = Begin(t, c)]
      BY <1>a, <1>4, <2>0, <2>1 DEF RedeemConsume, TypeOK, Step, Remove, Live, Stored
    <3>2. ~Stored(t)' /\ \A u \in Tokens : u # t => (Stored(u)' <=> Stored(u))
      BY <1>a, <2>0, <3>1 DEF TypeOK, Stored
    <3>3. /\ \A u \in Tokens : Carried(p, u)' <=> u = t
          /\ \A u \in Tokens, q \in Procs : q # p => (Carried(q, u)' <=> Carried(q, u))
          /\ \A u \in Tokens : ~Carried(p, u)
      BY <1>a, <2>0, <3>1 DEF TypeOK, Carried, Holds, CustodyPCs, Begin
    <3>4. Only(t) /\ \A u \in Tokens, q \in Procs : root[u] = root[t] => ~Carried(q, u)
      BY <2>0, <3>1, StoredOnly
    <3> HIDE DEF Stored, Carried
    <3>5. SingleLineage'
      BY <2>0, <3>2, <3>3, <3>4 DEF IndInv, SingleLineage, Only
    <3>6. ClosedStaysClosed'
      BY <2>0, <3>1, <3>2, <3>3, <3>4 DEF IndInv, ClosedStaysClosed, Only
    <3> QED BY <3>5, <3>6
  <2>2. CASE pc'[p] # "mark"
    <3>1. /\ \A u \in Tokens : Stored(u)' => Stored(u)
          /\ \A u \in Tokens, q \in Procs : Carried(q, u)' => Carried(q, u)
      BY <1>a, <1>4, <2>0, <2>2 DEF RedeemConsume, TypeOK, Step, Remove, LoseRecord, Stored, Carried, Holds, CustodyPCs
    <3>2. CASE closed' = closed
      BY <1>a, <3>1, <3>2, Shrink
    <3>3. CASE closed' # closed
      <4>1. Stored(t) /\ closed' = closed \cup {root[t]} /\ store' = [store EXCEPT ![t] = 0]
        BY <1>4, <2>0, <3>3 DEF RedeemConsume, LoseRecord, Remove, Closed, Stored
      <4>2. \A u \in Tokens : root[u] = root[t] => ~Stored(u)' /\ \A q \in Procs : ~Carried(q, u)'
        BY <1>a, <2>0, <3>1, <4>1, StoredOnly DEF Only, TypeOK, Stored
      <4> QED BY <1>a, <2>0, <3>1, <4>1, <4>2, Shrink
    <3> QED BY <3>2, <3>3
  <2> QED BY <2>1, <2>2
<1>5. ASSUME NEW p \in Procs, NEW t \in held, LogoutConsume(p, t) PROVE Goal
  <2>0. t \in Tokens /\ Known(t) /\ t \notin orphan /\ pc[p] = "idle" /\ UNCHANGED <<root, orphan>>
    BY <1>5, HeldTypes DEF LogoutConsume, IndInv, Wellformed
  <2>1. /\ \A u \in Tokens : Stored(u)' => Stored(u)
        /\ \A u \in Tokens, q \in Procs : Carried(q, u)' => Carried(q, u)
    BY <1>a, <1>5, <2>0 DEF LogoutConsume, TypeOK, Step, Remove, LoseRecord, Stored, Carried, Holds, CustodyPCs
  <2>2. CASE closed' = closed
    BY <1>a, <2>1, <2>2, Shrink
  <2>3. CASE closed' # closed
    <3>1. Stored(t) /\ closed' = closed \cup {root[t]} /\ store' = [store EXCEPT ![t] = 0]
      BY <1>5, <2>0, <2>3 DEF LogoutConsume, LoseRecord, Remove, Closed, Stored
    <3>2. \A u \in Tokens : root[u] = root[t] => ~Stored(u)' /\ \A q \in Procs : ~Carried(q, u)'
      BY <1>a, <2>0, <2>1, <3>1, StoredOnly DEF Only, TypeOK, Stored
    <3> QED BY <1>a, <2>0, <2>1, <3>1, <3>2, Shrink
  <2> QED BY <2>2, <2>3
<1>6. ASSUME NEW p \in Procs, pc[p] # "idle", UNCHANGED <<store, orphan>>,
             \A q \in Procs \ {p} : pc'[q] = pc[q] /\ req'[q] = req[q],
             pc'[p] \in CustodyPCs => pc[p] \in CustodyPCs /\ req'[p].tok = req[p].tok,
             \/ closed' = closed
             \/ /\ closed' = closed \cup {root[req[p].tok]}
                /\ pc[p] \in CustodyPCs /\ pc'[p] \notin CustodyPCs
      PROVE  Goal
  <2> DEFINE t == req[p].tok
  <2>0. t \in Tokens
    BY <1>6, RequestTypes
  <2>1. /\ \A u \in Tokens : Stored(u)' => Stored(u)
        /\ \A u \in Tokens, q \in Procs : Carried(q, u)' => Carried(q, u)
    BY <1>6 DEF Stored, Carried, Holds
  <2>2. CASE closed' = closed
    BY <1>a, <2>1, <2>2, Shrink
  <2>3. CASE closed' # closed
    <3>1. Carried(p, t) /\ \A u \in Tokens : ~Carried(p, u)'
      BY <1>6, <2>3 DEF Carried, Holds
    <3>2. \A u \in Tokens : root[u] = root[t] => ~Stored(u)' /\ \A q \in Procs : ~Carried(q, u)'
      BY <2>0, <2>1, <3>1, CarriedOnly
    <3> HIDE DEF t
    <3>3. closed' = closed \cup {root[t]}
      BY <1>6, <2>3 DEF t
    <3> QED BY <1>a, <2>0, <2>1, <3>2, <3>3, Shrink
  <2> QED BY <2>2, <2>3
<1>7. ASSUME NEW p \in Procs,
             \/ RedeemMark(p) \/ RedeemValidate(p) \/ RedeemAuthorise(p) \/ RedeemPublish(p)
             \/ RedeemRestoreCheck(p) \/ RedeemClear(p) \/ RedeemPoll(p) \/ Logout(p) \/ Crash(p)
      PROVE  Goal
  <2> USE <1>a DEF TypeOK, Step, Goto, Return, CustodyPCs
  <2>1. CASE RedeemMark(p)
    BY <1>6, <2>1 DEF RedeemMark, histVars
  <2>2. CASE RedeemValidate(p) \/ RedeemAuthorise(p)
    BY <1>6, <2>2 DEF RedeemValidate, RedeemAuthorise, Refuse, ServerError, Closed, cacheVars
  <2>3. CASE RedeemPublish(p)
    BY <1>6, <2>3 DEF RedeemPublish, PublishFailed, Hand
  <2>4. CASE RedeemRestoreCheck(p)
    BY <1>6, <2>4 DEF RedeemRestoreCheck, Closed, cacheVars
  <2>5. CASE RedeemClear(p)
    BY <1>6, <2>5 DEF RedeemClear, Hand
  <2>6. CASE RedeemPoll(p)
    BY <1>6, <2>6 DEF RedeemPoll, PollResult, PollAgain, Hand, cacheVars
  <2>7. CASE Logout(p)
    BY <1>6, <2>7 DEF Logout, LogoutTombstone, LogoutGrace, LogoutPred, LogoutDone, histVars
  <2>8. CASE Crash(p)
    BY <1>6, <2>8 DEF Crash, Holds, Closed, cacheVars
  <2> QED BY <1>7, <2>1, <2>2, <2>3, <2>4, <2>5, <2>6, <2>7, <2>8
<1>8. ASSUME NEW p \in Procs, NEW n \in Tokens, RedeemCreate(p, n) PROVE Goal
  <2> DEFINE t == req[p].tok
  <2>0. /\ pc[p] = "create" /\ ~Known(n) /\ t \in Tokens /\ Known(t) /\ Carried(p, t) /\ t # NoToken
        /\ root[t] \in Tokens /\ root[n] = NoToken /\ ~Stored(n) /\ \A q \in Procs : ~Carried(q, n)
    BY <1>8, RequestTypes, CurrentKnown DEF RedeemCreate, Carried, Holds, CustodyPCs, IndInv, Wellformed
  <2>1. CASE pc'[p] = "publish"
    <3>1. /\ store' = [store EXCEPT ![n] = now + RefreshTTL]
          /\ root' = [root EXCEPT ![n] = root[t]]
          /\ UNCHANGED <<orphan, closed>> /\ pc' = [pc EXCEPT ![p] = "publish"]
          /\ req' = [req EXCEPT ![p].new = n]
      BY <1>a, <1>8, <2>0, <2>1 DEF RedeemCreate, CreateRefreshToken, ServerError, Goto, Step, TypeOK
    <3>2. \A u \in Tokens : u # n => root'[u] = root[u] /\ (Stored(u)' <=> Stored(u))
      BY <1>a, <3>1 DEF TypeOK, Stored
    <3>3. root'[n] = root[t]
      BY <1>a, <3>1 DEF TypeOK
    <3>4. /\ \A u \in Tokens : ~Carried(p, u)'
          /\ \A u \in Tokens, q \in Procs : q # p => (Carried(q, u)' <=> Carried(q, u))
      BY <1>a, <3>1 DEF TypeOK, Carried, Holds, CustodyPCs
    <3>5. /\ root[t] \notin closed
          /\ \A u \in Tokens : root[u] = root[t] =>
               ~Stored(u) /\ \A q \in Procs : Carried(q, u) => q = p
      BY <2>0, CarriedOnly DEF Only
    <3> HIDE DEF t, Stored, Carried
    <3>6. SingleLineage'
      BY <2>0, <3>2, <3>3, <3>4, <3>5 DEF IndInv, SingleLineage
    <3>7. ClosedStaysClosed'
      BY <2>0, <3>1, <3>2, <3>3, <3>4, <3>5 DEF IndInv, ClosedStaysClosed
    <3> QED BY <3>6, <3>7
  <2>2. CASE pc'[p] # "publish"
    <3>1. ServerError(p)
      BY <1>a, <1>8, <2>2 DEF RedeemCreate, Step, TypeOK
    <3>2. \A u \in Tokens : Stored(u)' => Stored(u)
      <4>1. CASE UNCHANGED <<store, orphan>>
        BY <4>1 DEF Stored
      <4>2. CASE store' = [store EXCEPT ![n] = now + RefreshTTL] /\ orphan' = orphan \cup {n}
        BY <1>a, <4>2 DEF Stored, TypeOK
      <4> QED BY <1>8, <2>2, <4>1, <4>2, <1>a DEF RedeemCreate, CreateRefreshToken, Step, TypeOK
    <3>3. \A u \in Tokens, q \in Procs : Carried(q, u)' => Carried(q, u)
      BY <1>a, <2>0, <3>1 DEF ServerError, Goto, Step, TypeOK, Carried, Holds, CustodyPCs
    <3> QED BY <1>a, <3>1, <3>2, <3>3, Shrink DEF ServerError
  <2> QED BY <2>1, <2>2
<1>9. ASSUME NEW p \in Procs, RedeemRestore(p) PROVE Goal
  <2> DEFINE t == req[p].tok
  <2>0. /\ pc[p] = "restore" /\ t \in Tokens /\ Known(t) /\ Carried(p, t) /\ t \notin orphan
        /\ UNCHANGED <<root, orphan, req>> /\ pc' = [pc EXCEPT ![p] = "clear"]
    BY <1>9, RequestTypes, CurrentKnown DEF RedeemRestore, Carried, Holds, CustodyPCs, Goto, Step
  <2>1. CASE UNCHANGED store
    BY <1>a, <1>6, <1>9, <2>0, <2>1 DEF RedeemRestore, Closed, CustodyPCs, TypeOK
  <2>2. CASE ~UNCHANGED store
    <3>1. UNCHANGED closed /\ \E e \in Nat : store' = [store EXCEPT ![t] = e]
      BY <1>9, <2>2, RequestTypes, <2>0 DEF RedeemRestore, RestoredUntil, ClaimsRec
    <3>2. \A u \in Tokens : u # t => (Stored(u)' <=> Stored(u))
      BY <1>a, <2>0, <3>1 DEF TypeOK, Stored
    <3>3. /\ \A u \in Tokens : ~Carried(p, u)'
          /\ \A u \in Tokens, q \in Procs : q # p => (Carried(q, u)' <=> Carried(q, u))
      BY <1>a, <2>0 DEF TypeOK, Carried, Holds, CustodyPCs
    <3>4. /\ root[t] \notin closed
          /\ \A u \in Tokens : root[u] = root[t] =>
               ~Stored(u) /\ \A q \in Procs : Carried(q, u) => q = p
      BY <2>0, CarriedOnly DEF Only
    <3>5. root' = root /\ closed' = closed /\ t \in Tokens
      BY <2>0, <3>1
    <3> HIDE DEF t, Stored, Carried
    <3>6. SingleLineage'
      BY <3>2, <3>3, <3>4, <3>5 DEF IndInv, SingleLineage
    <3>7. ClosedStaysClosed'
      BY <3>2, <3>3, <3>4, <3>5 DEF IndInv, ClosedStaysClosed
    <3> QED BY <3>6, <3>7
  <2> QED BY <2>1, <2>2
<1> QED
  BY <1>2, <1>3, <1>4, <1>5, <1>7, <1>8, <1>9 DEF Next, Redeem

LEMMA InitIndInv == Init => IndInv
<1> SUFFICES ASSUME Init PROVE IndInv
  OBVIOUS
<1> USE ConstantsAssumption, RecordShapes
<1>1. TypeOK
  BY DEF Init, TypeOK
<1>2. Wellformed
  BY DEF Init, Wellformed, Known
<1>3. RequestsOK
  BY DEF Init, RequestsOK, RequestOK, RedeemPCs
<1>4. ResultsOK
  BY DEF Init, ResultsOK, IsResult, NoGrace
<1>5. SingleLineage /\ ClosedStaysClosed
  BY DEF Init, SingleLineage, ClosedStaysClosed, Stored, Carried, Holds, CustodyPCs
<1> QED BY <1>1, <1>2, <1>3, <1>4, <1>5 DEF IndInv

\* The inductive invariant holds in every reachable state of RedeemRefreshToken
\* and RevokeRefreshToken, for any number of requests, tokens and faults.
THEOREM Inductive == Spec => []IndInv
<1>1. IndInv /\ [Next]_vars => IndInv'
  BY TypeStep, WellformedStep, RequestsStep, ResultsStep, LineageStep DEF IndInv
<1> QED BY InitIndInv, <1>1, PTL DEF Spec

\* The variables of the rotation keep their types.
THEOREM TypeCorrect == Spec => []TypeOK
<1>1. IndInv => TypeOK
  BY DEF IndInv
<1> QED BY Inductive, <1>1, PTL

\* Rotation is single-use: of every lineage at most one refresh token is in
\* the cache or in the hands of one redemption (the GetAndDelete of
\* RedeemRefreshToken, its deferred restore and the successor's Set).
THEOREM OneCredentialPerLineage == Spec => []SingleLineage
<1>1. IndInv => SingleLineage
  BY DEF IndInv
<1> QED BY Inductive, <1>1, PTL

\* A lineage ended by a refusal, a logout that found its record or a lost
\* record is never revived by a restore or a rotation still in flight.
THEOREM EndedLineagesStayEnded == Spec => []ClosedStaysClosed
<1>1. IndInv => ClosedStaysClosed
  BY DEF IndInv
<1> QED BY Inductive, <1>1, PTL
-----------------------------------------------------------------------------
(* What the tokens of a lineage have in common                             *)

\* Every record carries the origin of its login and the client of its
\* predecessor, and every answer names the successor of what was presented.
OriginKept(t) == claims[t].orig # 0 /\ claims[root[t]].orig = claims[t].orig
LikePredecessor(t) ==
  claims[t].pred # NoToken => /\ Known(claims[t].pred)
                              /\ claims[claims[t].pred].client = claims[t].client
                              /\ root[claims[t].pred] = root[t]
AnswerOK(t, a) ==
  Known(t) /\ Known(a.token) /\ claims[a.token].pred = t /\ a.client = claims[t].client
Kinship ==
  /\ now > 0
  /\ \A t \in Tokens : Known(t) => OriginKept(t) /\ LikePredecessor(t)
  /\ \A t \in Tokens : \A a \in answers[t] : AnswerOK(t, a)

\* A step writes one new record, the first of a lineage or the successor of a
\* known token, or none.
LEMMA RecordsStep ==
  ASSUME IndInv, [Next]_vars
  PROVE  \/ UNCHANGED <<claims, root>>
         \/ \E n \in Tokens, c \in Clients :
               ~Known(n) /\ CreateRefreshToken(n, c, 0, NoToken)
         \/ \E n, t \in Tokens :
               /\ ~Known(n) /\ Known(t)
               /\ CreateRefreshToken(n, claims[t].client, claims[t].orig, t)
<1> DEFINE Goal == \/ UNCHANGED <<claims, root>>
                   \/ \E n \in Tokens, c \in Clients :
                         ~Known(n) /\ CreateRefreshToken(n, c, 0, NoToken)
                   \/ \E n, t \in Tokens :
                         /\ ~Known(n) /\ Known(t)
                         /\ CreateRefreshToken(n, claims[t].client, claims[t].orig, t)
<1>1. ASSUME NEW n \in Tokens, NEW c \in Clients, Login(n, c) PROVE Goal
  BY <1>1 DEF Login
<1>2. ASSUME NEW p \in Procs, NEW n \in Tokens, RedeemCreate(p, n) PROVE Goal
  <2>1. req[p].tok \in Tokens /\ Known(req[p].tok)
    BY <1>2, RequestTypes DEF RedeemCreate
  <2> QED BY <1>2, <2>1 DEF RedeemCreate
<1>3. CASE Tick \/ UNCHANGED vars \/ \E t \in Tokens : ExpireGrace(t) \/ ExpireTombstone(t)
  BY <1>3 DEF Tick, ExpireGrace, ExpireTombstone, vars, cacheVars, histVars
<1>4. ASSUME NEW p \in Procs,
             \/ \E t \in held : (\E c \in Clients : RedeemConsume(p, t, c)) \/ LogoutConsume(p, t)
             \/ Logout(p) \/ Crash(p)
      PROVE  UNCHANGED <<claims, root>>
  BY <1>4 DEF RedeemConsume, LogoutConsume, Logout, LogoutTombstone, LogoutGrace,
              LogoutPred, Crash, cacheVars, histVars
<1>5. ASSUME NEW p \in Procs,
             \/ RedeemMark(p) \/ RedeemValidate(p) \/ RedeemAuthorise(p) \/ RedeemRestoreCheck(p)
             \/ RedeemRestore(p) \/ RedeemPublish(p) \/ RedeemClear(p) \/ RedeemPoll(p)
      PROVE  UNCHANGED <<claims, root>>
  BY <1>5 DEF RedeemMark, RedeemValidate, RedeemAuthorise, RedeemRestoreCheck, RedeemRestore,
              RedeemPublish, RedeemClear, RedeemPoll, cacheVars, histVars
<1> QED
  BY <1>1, <1>2, <1>3, <1>4, <1>5 DEF Next, Redeem

\* An answer is what the winner created or what the grace record replays.
LEMMA AnswersStep ==
  ASSUME IndInv, Kinship, [Next]_vars
  PROVE  \/ UNCHANGED answers
         \/ \E t \in Tokens : \E a \in [token : Tokens, client : Clients, late : BOOLEAN] :
               /\ answers' = [answers EXCEPT ![t] = @ \cup {a}]
               /\ AnswerOK(t, a)
<1> DEFINE Rec  == [token : Tokens, client : Clients, late : BOOLEAN]
           Goal == \/ UNCHANGED answers
                   \/ \E t \in Tokens : \E a \in Rec :
                         answers' = [answers EXCEPT ![t] = @ \cup {a}] /\ AnswerOK(t, a)
<1>1. ASSUME NEW p \in Procs, pc[p] \in RedeemPCs, NEW n \in Tokens, Hand(p, n),
             Known(n), claims[n].pred = req[p].tok, claims[req[p].tok].client = req[p].cid
      PROVE  Goal
  <2> DEFINE t == req[p].tok
             a == [token |-> n, client |-> req[p].cid, late |-> req[p].late]
  <2>1. t \in Tokens /\ Known(t) /\ req[p].cid \in Clients /\ req[p].late \in BOOLEAN
    BY <1>1, RequestTypes DEF IndInv, RequestsOK, RequestOK, ReqRec, RedeemPCs
  <2>2. a \in Rec
    BY <2>1, Zenon
  <2>3. AnswerOK(t, a)
    BY <1>1, <2>1 DEF AnswerOK
  <2>4. answers' = [answers EXCEPT ![t] = @ \cup {a}]
    BY <1>1 DEF Hand
  <2> HIDE DEF a, t, Rec
  <2> QED BY <2>1, <2>2, <2>3, <2>4
<1>2. ASSUME NEW p \in Procs, RedeemPublish(p) \/ RedeemClear(p) PROVE Goal
  <2>1. pc[p] \in {"publish", "clearUnpublished"} =>
          /\ pc[p] \in RedeemPCs /\ req[p].new \in Tokens /\ Known(req[p].new)
          /\ claims[req[p].new].pred = req[p].tok /\ claims[req[p].tok].client = req[p].cid
    BY DEF IndInv, RequestsOK, RequestOK, RedeemPCs
  <2>2. UNCHANGED answers
        \/ (pc[p] \in {"publish", "clearUnpublished"} /\ Hand(p, req[p].new))
    BY <1>2 DEF RedeemPublish, PublishFailed, RedeemClear
  <2> HIDE DEF Goal
  <2>3. CASE UNCHANGED answers
    BY <2>3 DEF Goal
  <2> QED BY <1>1, <2>1, <2>2, <2>3
<1>3. ASSUME NEW p \in Procs, RedeemPoll(p) PROVE Goal
  <2> DEFINE t == req[p].tok
  <2>1. t \in Tokens /\ pc[p] \in RedeemPCs
    BY <1>3, RequestTypes DEF RedeemPoll, RedeemPCs
  <2>2. UNCHANGED answers
        \/ (IsResult(t) /\ grace[t].client = req[p].cid /\ Hand(p, grace[t].token))
    BY <1>3 DEF RedeemPoll, PollResult, PollAgain, ReplayAllowed, IsResult
  <2>3. IsResult(t) => /\ grace[t].token \in Tokens /\ Known(grace[t].token)
                       /\ claims[grace[t].token].pred = t /\ claims[t].client = grace[t].client
    BY <2>1 DEF IndInv, TypeOK, ResultsOK, IsResult, GraceRec, NoGrace
  <2> HIDE DEF Goal
  <2>4. CASE UNCHANGED answers
    BY <2>4 DEF Goal
  <2> QED BY <1>1, <2>1, <2>2, <2>3, <2>4
<1>4. ASSUME NEW p \in Procs,
             \/ RedeemMark(p) \/ RedeemValidate(p) \/ RedeemAuthorise(p) \/ RedeemRestoreCheck(p)
             \/ RedeemRestore(p) \/ (\E n \in Tokens : RedeemCreate(p, n))
             \/ \E t \in held : (\E c \in Clients : RedeemConsume(p, t, c)) \/ LogoutConsume(p, t)
             \/ Logout(p) \/ Crash(p)
      PROVE  UNCHANGED answers
  BY <1>4 DEF RedeemMark, RedeemValidate, RedeemAuthorise, RedeemRestoreCheck, RedeemRestore,
              RedeemCreate, RedeemConsume, LogoutConsume, Logout, LogoutTombstone, LogoutGrace,
              LogoutPred, Crash, histVars
<1>5. CASE Tick \/ UNCHANGED vars \/ (\E t \in Tokens : ExpireGrace(t) \/ ExpireTombstone(t))
           \/ \E n \in Tokens, c \in Clients : Login(n, c)
  BY <1>5 DEF Tick, ExpireGrace, ExpireTombstone, Login, vars, histVars
<1> QED
  BY <1>2, <1>3, <1>4, <1>5 DEF Next, Redeem

LEMMA KinshipStep ==
  ASSUME IndInv, Kinship, [Next]_vars
  PROVE  Kinship'
<1>a. Stable /\ TypeOK
  BY StableStep DEF IndInv
<1>b. \A t \in Tokens : Known(t) => root[t] \in Tokens /\ Known(root[t])
  BY DEF IndInv, Wellformed
<1>1. now' > 0
  <2>1. now' = now \/ now' = now + 1
    BY DEF Next, Tick, Login, ExpireGrace, ExpireTombstone, Redeem, RedeemConsume, LogoutConsume,
       RedeemMark, RedeemValidate, RedeemAuthorise, RedeemRestoreCheck, RedeemRestore, RedeemCreate,
       RedeemPublish, RedeemClear, RedeemPoll, Logout, LogoutTombstone, LogoutGrace, LogoutPred,
       Crash, vars
  <2> QED BY <1>a, <2>1 DEF Kinship, TypeOK
<1>2. ASSUME NEW t \in Tokens, Known(t) PROVE OriginKept(t)' /\ LikePredecessor(t)'
  <2>1. claims[t].pred \in Tokens \cup {NoToken}
    BY <1>a, <1>2 DEF TypeOK, Known, ClaimsRec
  <2> QED BY <1>a, <1>b, <1>2, <2>1 DEF Kinship, OriginKept, LikePredecessor, Stable, Known
<1>3. ASSUME NEW n \in Tokens, NEW c \in Clients, ~Known(n), CreateRefreshToken(n, c, 0, NoToken)
      PROVE  OriginKept(n)' /\ LikePredecessor(n)'
  <2>1. root'[n] = n /\ claims'[n].orig = now /\ claims'[n].pred = NoToken
    BY <1>a, <1>3 DEF CreateRefreshToken, NewClaims, TypeOK
  <2> QED BY <2>1, <1>a DEF OriginKept, LikePredecessor, Kinship, TypeOK
<1>4. ASSUME NEW n \in Tokens, NEW t \in Tokens, ~Known(n), Known(t),
             CreateRefreshToken(n, claims[t].client, claims[t].orig, t)
      PROVE  OriginKept(n)' /\ LikePredecessor(n)'
  <2>1. claims[t] \in ClaimsRec /\ claims[t].orig # 0 /\ t # n /\ t # NoToken
    BY <1>a, <1>4, ConstantsAssumption DEF TypeOK, Known, Kinship, OriginKept
  <2>2. /\ root'[n] = root[t] /\ claims'[n].orig = claims[t].orig
        /\ claims'[n].pred = t /\ claims'[n].client = claims[t].client
    BY <1>a, <1>4, <2>1 DEF CreateRefreshToken, NewClaims, TypeOK
  <2>3. claims'[t] = claims[t] /\ root'[t] = root[t] /\ claims'[root[t]] = claims[root[t]]
    BY <1>a, <1>b, <1>4 DEF Stable
  <2> QED BY <1>4, <2>1, <2>2, <2>3 DEF OriginKept, LikePredecessor, Known, Kinship
<1>5. ASSUME NEW u \in Tokens, Known(u)' PROVE OriginKept(u)' /\ LikePredecessor(u)'
  <2>1. CASE Known(u)
    BY <1>2, <2>1
  <2>2. CASE ~Known(u)
    <3>1. claims' # claims
      BY <1>5, <2>2 DEF Known
    <3>2. ASSUME NEW n \in Tokens, NEW x, claims' = [claims EXCEPT ![n] = x] PROVE u = n
      BY <1>5, <2>2, <3>2, <1>a DEF Known, TypeOK
    <3> QED BY <1>3, <1>4, <3>1, <3>2, RecordsStep DEF CreateRefreshToken
  <2> QED BY <2>1, <2>2
<1>6. ASSUME NEW t \in Tokens, NEW a \in answers'[t] PROVE AnswerOK(t, a)'
  <2>1. AnswerOK(t, a) /\ a.token \in Tokens
    <3>1. CASE UNCHANGED answers
      BY <1>a, <1>6, <3>1 DEF Kinship, TypeOK
    <3>2. ASSUME NEW u \in Tokens, NEW b \in [token : Tokens, client : Clients, late : BOOLEAN],
                 answers' = [answers EXCEPT ![u] = @ \cup {b}], AnswerOK(u, b)
          PROVE  AnswerOK(t, a) /\ a.token \in Tokens
      <4>1. (a \in answers[t]) \/ (t = u /\ a = b)
        BY <1>a, <1>6, <3>2 DEF TypeOK
      <4>2. CASE a \in answers[t]
        BY <1>a, <4>2 DEF Kinship, TypeOK
      <4> QED BY <3>2, <4>1, <4>2
    <3> QED BY <3>1, <3>2, AnswersStep
  <2> QED BY <1>a, <2>1 DEF AnswerOK, Stable, Known
<1> QED BY <1>1, <1>5, <1>6 DEF Kinship

LEMMA KinshipInvariant == Spec => []Kinship
<1>1. Init => Kinship
  BY DEF Init, Kinship, Known
<1>2. IndInv /\ Kinship /\ [Next]_vars => Kinship'
  BY KinshipStep
<1> QED BY <1>1, <1>2, Inductive, PTL DEF Spec

\* Whoever redeems a token, as the winner of the GetAndDelete or by replay from
\* the grace cache, is the client it was issued to, and is answered with a
\* token of the same client and lineage.
THEOREM AnswersBoundToClient == Spec => []ClientBound
<1>1. IndInv /\ Kinship => ClientBound
  <2> SUFFICES ASSUME IndInv, Kinship, NEW t \in Tokens, NEW a \in answers[t]
               PROVE  /\ a.client = claims[t].client /\ claims[a.token].client = claims[t].client
                      /\ root[a.token] = root[t]
    BY DEF ClientBound
  <2>1. a.token \in Tokens /\ AnswerOK(t, a)
    BY DEF IndInv, TypeOK, Kinship
  <2>2. LikePredecessor(a.token)
    BY <2>1 DEF Kinship, AnswerOK
  <2> QED BY <2>1, <2>2, ConstantsAssumption DEF AnswerOK, LikePredecessor
<1> QED BY <1>1, Inductive, KinshipInvariant, PTL

\* RedeemRefreshToken lets a rotation past its checks only within
\* maxSessionAge of the login that started the lineage, however many
\* rotations lie between: OriginalIssuedAt is carried along unchanged.
THEOREM SessionsCapped == Spec => SessionCapped
<1> DEFINE A == \A p \in Procs : pc[p] = "validate" /\ pc'[p] = "authorise" =>
                   now - claims[root[req[p].tok]].orig <= MaxSessionAge
<1>1. IndInv /\ Kinship /\ [Next]_vars => [A]_vars
  <2> SUFFICES ASSUME IndInv, Kinship, [Next]_vars, NEW p \in Procs,
                      pc[p] = "validate", pc'[p] = "authorise"
               PROVE  now - claims[root[req[p].tok]].orig <= MaxSessionAge
    OBVIOUS
  <2>1. RedeemValidate(p)
    <3> USE DEF Step, Goto, Return, Hand
    <3>a. pc \in [Procs -> {"idle"} \cup RedeemPCs \cup LogoutPCs] /\ ~UNCHANGED pc
      BY DEF IndInv, TypeOK
    <3>1. ASSUME NEW q \in Procs,
                 \/ \E t \in held : (\E c \in Clients : RedeemConsume(q, t, c)) \/ LogoutConsume(q, t)
                 \/ Logout(q) \/ Crash(q)
          PROVE  FALSE
      BY <3>a, <3>1 DEF RedeemConsume, LogoutConsume, Logout, LogoutTombstone, LogoutGrace,
                        LogoutPred, LogoutDone, Crash
    <3>2. ASSUME NEW q \in Procs,
                 \/ RedeemMark(q) \/ RedeemAuthorise(q) \/ RedeemRestoreCheck(q) \/ RedeemRestore(q)
                 \/ RedeemPublish(q) \/ RedeemClear(q) \/ RedeemPoll(q)
                 \/ \E n \in Tokens : RedeemCreate(q, n)
          PROVE  FALSE
      BY <3>a, <3>2 DEF RedeemMark, RedeemAuthorise, RedeemRestoreCheck, RedeemRestore,
         RedeemPublish, PublishFailed, RedeemClear, RedeemPoll, PollResult, PollAgain, RedeemCreate,
         Refuse, ServerError
    <3>3. ASSUME NEW q \in Procs, RedeemValidate(q) PROVE q = p
      BY <3>a, <3>3 DEF RedeemValidate, Refuse, ServerError
    <3>4. ~(Tick \/ UNCHANGED vars \/ (\E t \in Tokens : ExpireGrace(t) \/ ExpireTombstone(t))
            \/ \E n \in Tokens, c \in Clients : Login(n, c))
      BY <3>a DEF Tick, ExpireGrace, ExpireTombstone, Login, vars
    <3> QED BY <3>1, <3>2, <3>3, <3>4 DEF Next, Redeem
  <2>2. req[p].tok \in Tokens /\ Known(req[p].tok)
    BY RequestTypes
  <2>3. ~TooOld(req[p].tok)
    BY <2>1 DEF RedeemValidate, Refuse, ServerError, Goto, Step, IndInv, TypeOK
  <2>4. claims[root[req[p].tok]].orig = claims[req[p].tok].orig /\ claims[req[p].tok].orig \in Nat
    BY <2>2 DEF Kinship, OriginKept, IndInv, TypeOK, Known, ClaimsRec
  <2>5. now - claims[req[p].tok].orig <= MaxSessionAge
    BY <2>3, <2>4, ConstantsAssumption DEF TooOld, IndInv, TypeOK
  <2> QED BY <2>4, <2>5
<1> QED BY <1>1, Inductive, KinshipInvariant, PTL DEF Spec, SessionCapped

-----------------------------------------------------------------------------
(* Rotation implements the abstract single-use session                     *)

\* The abstract state: which credentials are live, taken, rotated and given.
LiveTokens  == {t \in Tokens : Stored(t)}
TakenTokens == {t \in Tokens : \E p \in Procs : Carried(p, t)}
Lineage     == [t \in Tokens |-> IF t \in orphan THEN NoToken ELSE root[t]]
Rotated == {tn \in Tokens \X Tokens : tn[2] \notin orphan /\ claims[tn[2]].pred = tn[1]}
Given   == {tn \in Tokens \X Tokens : \E a \in answers[tn[1]] : a.token = tn[2]}

\* What a step that is none of the session's business leaves alone.
LEMMA Stutters ==
  ASSUME UNCHANGED <<Lineage, LiveTokens, TakenTokens, closed, Rotated, Given>>
  PROVE  UNCHANGED Session!vars
  BY DEF Session!vars, Lineage, LiveTokens, TakenTokens, Rotated, Given

LEMMA SameRecords ==
  /\ UNCHANGED <<claims, orphan, root>> => UNCHANGED <<Lineage, Rotated>>
  /\ UNCHANGED <<store, orphan>> => UNCHANGED LiveTokens
  /\ UNCHANGED answers => UNCHANGED Given
  /\ UNCHANGED <<pc, req>> => UNCHANGED TakenTokens
  BY DEF Lineage, Rotated, LiveTokens, Stored, Given, TakenTokens, Carried, Holds

\* Only request p moves.
Moves(p) == \A q \in Procs \ {p} : pc'[q] = pc[q] /\ req'[q] = req[q]

\* The hands of the requests, when p keeps what it holds, drops it or takes t.
LEMMA HandsKept ==
  ASSUME NEW p \in Procs, Moves(p), Holds(p)' <=> Holds(p), Holds(p) => req'[p].tok = req[p].tok
  PROVE  UNCHANGED TakenTokens
  BY DEF TakenTokens, Carried, Holds, Moves

LEMMA HandsOpened ==
  ASSUME IndInv, NEW p \in Procs, Moves(p), NEW t \in Tokens, Carried(p, t), ~Holds(p)'
  PROVE  t \in TakenTokens /\ TakenTokens' = TakenTokens \ {t}
<1>1. \A q \in Procs : Carried(q, t) => q = p
  BY CarriedOnly
<1> QED BY <1>1 DEF TakenTokens, Carried, Holds, Moves

LEMMA HandsClosed ==
  ASSUME NEW p \in Procs, Moves(p), ~Holds(p), NEW t \in Tokens, Carried(p, t)'
  PROVE  TakenTokens' = TakenTokens \cup {t}
  BY DEF TakenTokens, Carried, Holds, Moves

\* A carried record is in nobody else's hands and not in the cache.
LEMMA CarriedFacts ==
  ASSUME IndInv, NEW p \in Procs, Holds(p)
  PROVE  /\ req[p].tok \in Tokens /\ Carried(p, req[p].tok) /\ req[p].tok \in TakenTokens
         /\ req[p].tok \notin LiveTokens /\ req[p].tok \notin orphan /\ Known(req[p].tok)
         /\ Lineage[req[p].tok] = root[req[p].tok]
<1>1. req[p].tok \in Tokens /\ Carried(p, req[p].tok)
  BY RequestTypes DEF Holds, CustodyPCs, Carried
<1> QED BY <1>1, CarriedOnly, CurrentKnown DEF TakenTokens, LiveTokens, Lineage

-----------------------------------------------------------------------------
\* A refusal, a drop, a failed restore or a crash ends what p holds.
LEMMA EndsHeld ==
  ASSUME IndInv, NEW p \in Procs, Moves(p), Holds(p), ~Holds(p)',
         UNCHANGED <<claims, orphan, root, store, answers>>, closed' = Closed(req[p].tok)
  PROVE  Session!Next
<1> DEFINE t == req[p].tok
<1>1. t \in Tokens /\ Carried(p, t) /\ t \notin LiveTokens /\ Lineage[t] = root[t]
  BY CarriedFacts
<1>2. t \in TakenTokens /\ TakenTokens' = TakenTokens \ {t}
  BY <1>1, HandsOpened
<1>3. UNCHANGED <<Lineage, LiveTokens, Rotated, Given>>
  BY SameRecords
<1>4. closed' = closed \cup {Lineage[t]}
  BY <1>1 DEF Closed
<1>5. Session!End(t)
  BY <1>1, <1>2, <1>3, <1>4
  DEF Session!End, Lineage, LiveTokens, TakenTokens, Rotated, Given
<1> QED BY <1>1, <1>5 DEF Session!Next

\* A consumed record that nobody carries on ends its lineage.
LEMMA EndsStored ==
  ASSUME IndInv, NEW t \in Tokens, t \notin orphan, LoseRecord(t), UNCHANGED TakenTokens,
         UNCHANGED <<claims, orphan, root, answers>>
  PROVE  Session!Next \/ UNCHANGED Session!vars
<1>a. store \in [Tokens -> Nat]
  BY DEF IndInv, TypeOK
<1>1. UNCHANGED <<Lineage, Rotated, Given>> /\ Lineage[t] = root[t]
  BY SameRecords DEF Lineage
<1>2. LiveTokens' = LiveTokens \ {t}
  BY <1>a DEF LiveTokens, Stored, LoseRecord, Remove
<1>3. CASE store[t] = 0
  <2>1. UNCHANGED <<LiveTokens, closed>>
    BY <1>2, <1>3 DEF LiveTokens, Stored, LoseRecord
  <2> QED BY <1>1, <2>1, Stutters
<1>4. CASE store[t] # 0
  <2>1. t \in LiveTokens /\ closed' = closed \cup {Lineage[t]}
    BY <1>1, <1>4 DEF LiveTokens, Stored, LoseRecord, Closed
  <2>2. t \notin TakenTokens
    BY <2>1, StoredOnly DEF LiveTokens, TakenTokens
  <2>3. Session!End(t)
    BY <1>1, <1>2, <2>1, <2>2 DEF Session!End, Lineage, LiveTokens, TakenTokens, Rotated, Given
  <2> QED BY <2>3 DEF Session!Next
<1> QED BY <1>3, <1>4

\* An answer to a caller is the successor of what it presented.
LEMMA GivesSuccessor ==
  ASSUME IndInv, NEW p \in Procs, ~Holds(p), pc[p] \in RedeemPCs, NEW t \in Tokens, req[p].tok = t,
         NEW n \in Tokens, Hand(p, n), n \notin orphan, claims[n].pred = t,
         UNCHANGED <<claims, orphan, root, store, closed>>
  PROVE  Session!Next
<1> DEFINE a == [token |-> n, client |-> req[p].cid, late |-> req[p].late]
<1>a. TypeOK
  BY DEF IndInv
<1>b. answers \in [Tokens -> SUBSET [token : Tokens, client : Clients, late : BOOLEAN]]
  BY <1>a DEF TypeOK
<1>1. answers' = [answers EXCEPT ![t] = @ \cup {a}] /\ a.token = n
  BY DEF Hand
<1>2. Moves(p) /\ ~Holds(p)'
  BY <1>a DEF Hand, Return, Step, Moves, Holds, CustodyPCs, TypeOK
<1>3. UNCHANGED <<Lineage, LiveTokens, TakenTokens, Rotated>>
  BY <1>2, SameRecords, HandsKept
<1>4. <<t, n>> \in Rotated
  BY DEF Rotated
<1> HIDE DEF a
<1>5. Given' = Given \cup {<<t, n>>}
  <2>1. \A u \in Tokens : answers'[u] = IF u = t THEN answers[u] \cup {a} ELSE answers[u]
    BY <1>b, <1>1
  <2>2. ASSUME NEW u \in Tokens, NEW m \in Tokens
        PROVE (\E b \in answers'[u] : b.token = m)
              <=> (\E b \in answers[u] : b.token = m) \/ (u = t /\ m = n)
    BY <1>1, <2>1
  <2> QED BY <2>2 DEF Given
<1>6. Session!Give(t, n)
  BY <1>3, <1>4, <1>5 DEF Session!Give, Lineage, LiveTokens, TakenTokens, Rotated, Given
<1> QED BY <1>6 DEF Session!Next

-----------------------------------------------------------------------------
\* A written record expires some day: a restored entry is an entry.
Lasting == \A t \in Tokens : Known(t) => claims[t].exp > 0

LEMMA LastingStep ==
  ASSUME IndInv, Lasting, [Next]_vars
  PROVE  Lasting'
<1>a. TypeOK
  BY DEF IndInv
<1>1. \A c, orig, pred : NewClaims(c, orig, pred).exp > 0
  BY <1>a, ConstantsAssumption DEF TypeOK, NewClaims
<1>2. CASE UNCHANGED claims
  BY <1>2 DEF Lasting, Known
<1>3. ASSUME NEW n \in Tokens, NEW c, NEW orig, NEW pred, CreateRefreshToken(n, c, orig, pred)
      PROVE  Lasting'
  <2>1. claims' = [claims EXCEPT ![n] = NewClaims(c, orig, pred)]
    BY <1>3 DEF CreateRefreshToken
  <2> HIDE DEF NewClaims
  <2> QED BY <1>a, <1>1, <2>1 DEF TypeOK, Lasting, Known
<1> QED BY <1>2, <1>3, RecordsStep

-----------------------------------------------------------------------------
LEMMA LoginIssues ==
  ASSUME IndInv, NEW n \in Tokens, NEW c \in Clients, Login(n, c)
  PROVE  Session!Next
<1>a. TypeOK
  BY DEF IndInv
<1>b. root[n] = NoToken /\ n \notin orphan /\ store[n] = 0
  BY DEF Login, IndInv, Wellformed
<1>1. /\ claims' = [claims EXCEPT ![n] = NewClaims(c, 0, NoToken)]
      /\ store' = [store EXCEPT ![n] = now + RefreshTTL]
      /\ root' = [root EXCEPT ![n] = n]
      /\ UNCHANGED <<orphan, closed, answers, pc, req>>
  BY DEF Login, CreateRefreshToken
<1>2. Lineage[n] = NoToken /\ Lineage' = [Lineage EXCEPT ![n] = n]
  BY <1>a, <1>b, <1>1 DEF Lineage, TypeOK
<1>3. LiveTokens' = LiveTokens \cup {n}
  BY <1>a, <1>b, <1>1, ConstantsAssumption DEF LiveTokens, Stored, TypeOK
<1>4. UNCHANGED Rotated
  <2>1. NewClaims(c, 0, NoToken).pred = NoToken
    BY DEF NewClaims
  <2>2. claims[n].pred = NoToken
    BY DEF Login, Known, NoClaims
  <2>3. \A u \in Tokens : claims'[u].pred = claims[u].pred
    BY <1>a, <1>1, <2>1, <2>2 DEF TypeOK
  <2> QED BY <1>1, <2>3 DEF Rotated
<1>5. UNCHANGED <<TakenTokens, Given>>
  BY <1>1, SameRecords
<1>6. Session!Issue(n)
  BY <1>1, <1>2, <1>3, <1>4, <1>5
  DEF Session!Issue, Lineage, LiveTokens, TakenTokens, Rotated, Given
<1> QED BY <1>6 DEF Session!Next

LEMMA ConsumeRefines ==
  ASSUME IndInv, NEW p \in Procs, NEW t \in held, NEW c \in Clients, RedeemConsume(p, t, c)
  PROVE  Session!Next \/ UNCHANGED Session!vars
<1>a. /\ t \in Tokens /\ t \notin orphan /\ TypeOK /\ ~Holds(p)
      /\ UNCHANGED <<claims, orphan, root, answers>>
  BY HeldTypes DEF IndInv, Wellformed, RedeemConsume, Holds, CustodyPCs
<1>b. UNCHANGED <<Lineage, Rotated, Given>>
  BY <1>a, SameRecords
<1>1. CASE Live(t) /\ Remove(t) /\ UNCHANGED closed /\ Step(p, "mark") /\ req' = [req EXCEPT ![p] = Begin(t, c)]
  <2>1. Moves(p) /\ Carried(p, t)'
    BY <1>a, <1>1 DEF Moves, Carried, Holds, CustodyPCs, Step, TypeOK, Begin
  <2>2. TakenTokens' = TakenTokens \cup {t}
    BY <1>a, <2>1, HandsClosed
  <2>3. t \in LiveTokens /\ LiveTokens' = LiveTokens \ {t}
    BY <1>a, <1>1 DEF LiveTokens, Stored, Live, Remove, TypeOK
  <2>4. Session!Take(t)
    BY <1>1, <1>b, <2>2, <2>3 DEF Session!Take, Lineage, LiveTokens, TakenTokens, Rotated, Given
  <2> QED BY <1>a, <2>4 DEF Session!Next
<1>2. CASE UNCHANGED <<store, closed>> /\ Step(p, "poll") /\ req' = [req EXCEPT ![p] = Begin(t, c)]
  <2>1. Moves(p) /\ ~Holds(p)'
    BY <1>a, <1>2 DEF Moves, Holds, CustodyPCs, Step, TypeOK
  <2> QED BY <1>a, <1>b, <1>2, <2>1, HandsKept, SameRecords, Stutters
<1>3. CASE LoseRecord(t) /\ UNCHANGED <<pc, req>>
  BY <1>a, <1>3, SameRecords, EndsStored
<1>4. CASE UNCHANGED <<store, closed, pc, req>>
  BY <1>a, <1>b, <1>4, SameRecords, Stutters
<1> QED BY <1>1, <1>2, <1>3, <1>4 DEF RedeemConsume

LEMMA LogoutConsumeRefines ==
  ASSUME IndInv, NEW p \in Procs, NEW t \in held, LogoutConsume(p, t)
  PROVE  Session!Next \/ UNCHANGED Session!vars
<1>a. /\ t \in Tokens /\ t \notin orphan /\ TypeOK /\ ~Holds(p)
      /\ UNCHANGED <<claims, orphan, root, answers>>
  BY HeldTypes DEF IndInv, Wellformed, LogoutConsume, Holds, CustodyPCs
<1>1. Moves(p) /\ ~Holds(p)'
  BY <1>a DEF LogoutConsume, Moves, Holds, CustodyPCs, Step, TypeOK
<1>2. UNCHANGED TakenTokens
  BY <1>a, <1>1, HandsKept
<1>3. CASE LoseRecord(t)
  BY <1>a, <1>2, <1>3, EndsStored
<1>4. CASE UNCHANGED <<store, closed>>
  BY <1>a, <1>2, <1>4, SameRecords, Stutters
<1> QED BY <1>3, <1>4 DEF LogoutConsume

LEMMA CreateRefines ==
  ASSUME IndInv, NEW p \in Procs, NEW n \in Tokens, RedeemCreate(p, n),
         NEW t \in Tokens, t = req[p].tok
  PROVE  Session!Next \/ UNCHANGED Session!vars
<1>a. TypeOK
  BY DEF IndInv
<1>b. /\ root[n] = NoToken /\ n \notin orphan /\ store[n] = 0 /\ claims[n].pred = NoToken
      /\ UNCHANGED answers
  BY DEF RedeemCreate, IndInv, Wellformed, Known, NoClaims
<1>c. /\ Holds(p) /\ Carried(p, t) /\ t \in TakenTokens /\ t # n /\ Lineage[t] = root[t]
      /\ t \notin orphan /\ t # NoToken
  BY CarriedFacts, ConstantsAssumption DEF RedeemCreate, Holds, CustodyPCs
<1>d. NewClaims(claims[t].client, claims[t].orig, t).pred = t
  BY DEF NewClaims
<1>w. ASSUME CreateRefreshToken(n, claims[t].client, claims[t].orig, t)
      PROVE  /\ store' = [store EXCEPT ![n] = now + RefreshTTL]
             /\ root' = [root EXCEPT ![n] = root[t]]
             /\ \A u \in Tokens : claims'[u].pred = IF u = n THEN t ELSE claims[u].pred
  <2> HIDE DEF NewClaims
  <2> QED BY <1>a, <1>c, <1>d, <1>w DEF CreateRefreshToken, TypeOK
<1>1. CASE /\ CreateRefreshToken(n, claims[t].client, claims[t].orig, t)
           /\ Step(p, "publish") /\ req' = [req EXCEPT ![p].new = n] /\ UNCHANGED <<orphan, closed>>
  <2>1. Moves(p) /\ ~Holds(p)'
    BY <1>a, <1>1 DEF Moves, Holds, CustodyPCs, Step, TypeOK
  <2>2. TakenTokens' = TakenTokens \ {t}
    BY <1>c, <2>1, HandsOpened
  <2>3. LiveTokens' = LiveTokens \cup {n}
    BY <1>a, <1>b, <1>1, <1>w, ConstantsAssumption DEF LiveTokens, Stored, TypeOK
  <2>4. Lineage[n] = NoToken /\ Lineage' = [Lineage EXCEPT ![n] = Lineage[t]]
    BY <1>a, <1>b, <1>c, <1>1, <1>w DEF Lineage, TypeOK
  <2>5. Rotated' = Rotated \cup {<<t, n>>}
    <3>1. \A u, m \in Tokens :
             (m \notin orphan' /\ claims'[m].pred = u)
             <=> (m \notin orphan /\ claims[m].pred = u) \/ (u = t /\ m = n)
      BY <1>b, <1>1, <1>w, ConstantsAssumption
    <3> QED BY <3>1 DEF Rotated
  <2>6. UNCHANGED Given
    BY <1>b, SameRecords
  <2>7. Session!Rotate(t, n)
    BY <1>c, <1>1, <2>2, <2>3, <2>4, <2>5, <2>6
    DEF Session!Rotate, Lineage, LiveTokens, TakenTokens, Rotated, Given
  <2> QED BY <2>7 DEF Session!Next
<1>2. ASSUME ServerError(p)
      PROVE  UNCHANGED <<TakenTokens, closed, Given>>
  <2>1. Moves(p) /\ Holds(p)' /\ req' = req
    BY <1>a, <1>2 DEF ServerError, Goto, Moves, Holds, CustodyPCs, Step, TypeOK
  <2> QED BY <1>b, <1>c, <1>2, <2>1, HandsKept, SameRecords DEF ServerError
<1>3. CASE ServerError(p) /\ CreateRefreshToken(n, claims[t].client, claims[t].orig, t)
           /\ orphan' = orphan \cup {n}
  <2>1. UNCHANGED LiveTokens
    BY <1>a, <1>b, <1>3, <1>w DEF LiveTokens, Stored, TypeOK
  <2>2. UNCHANGED Lineage
    BY <1>a, <1>b, <1>3, <1>w DEF Lineage, TypeOK
  <2>3. UNCHANGED Rotated
    <3>1. \A u, m \in Tokens :
             (m \notin orphan' /\ claims'[m].pred = u) <=> (m \notin orphan /\ claims[m].pred = u)
      BY <1>b, <1>3, <1>w, ConstantsAssumption
    <3> QED BY <3>1 DEF Rotated
  <2> QED BY <1>2, <1>3, <2>1, <2>2, <2>3, Stutters
<1>4. CASE ServerError(p) /\ UNCHANGED <<claims, store, root, orphan>>
  BY <1>2, <1>4, SameRecords, Stutters
<1> QED BY <1>1, <1>3, <1>4 DEF RedeemCreate

LEMMA RestoreRefines ==
  ASSUME IndInv, Lasting, NEW p \in Procs, RedeemRestore(p), NEW t \in Tokens, t = req[p].tok
  PROVE  Session!Next
<1>a. TypeOK /\ UNCHANGED <<claims, orphan, root, answers>>
  BY DEF IndInv, RedeemRestore
<1>b. /\ Holds(p) /\ Carried(p, t) /\ t \in TakenTokens /\ t \notin orphan /\ Known(t)
      /\ t \notin LiveTokens
  BY CarriedFacts DEF RedeemRestore, Holds, CustodyPCs
<1>1. Moves(p) /\ ~Holds(p)'
  BY <1>a DEF RedeemRestore, Goto, Moves, Holds, CustodyPCs, Step, TypeOK
<1>2. CASE store' = [store EXCEPT ![t] = RestoredUntil(t)] /\ UNCHANGED closed
  <2>1. TakenTokens' = TakenTokens \ {t}
    BY <1>b, <1>1, HandsOpened
  <2>2. RestoredUntil(t) # 0
    <3>1. claims[t] \in ClaimsRec /\ claims[t].exp > 0
      BY <1>a, <1>b DEF TypeOK, Known, Lasting
    <3> QED BY <3>1 DEF RestoredUntil, ClaimsRec
  <2> HIDE DEF RestoredUntil
  <2>3. LiveTokens' = LiveTokens \cup {t}
    BY <1>a, <1>b, <1>2, <2>2 DEF LiveTokens, Stored, TypeOK
  <2>4. UNCHANGED <<Lineage, Rotated, Given>>
    BY <1>a, SameRecords
  <2>5. Session!PutBack(t)
    BY <1>b, <1>2, <2>1, <2>3, <2>4
    DEF Session!PutBack, Lineage, LiveTokens, TakenTokens, Rotated, Given
  <2> QED BY <2>5 DEF Session!Next
<1>3. CASE UNCHANGED store /\ closed' = Closed(t)
  BY <1>a, <1>b, <1>1, <1>3, EndsHeld
<1> QED BY <1>2, <1>3 DEF RedeemRestore

\* The calls between the consuming and the final write either keep what the
\* request holds or end it.
LEMMA ChecksRefine ==
  ASSUME IndInv, NEW p \in Procs,
         RedeemMark(p) \/ RedeemValidate(p) \/ RedeemAuthorise(p) \/ RedeemRestoreCheck(p)
  PROVE  Session!Next \/ UNCHANGED Session!vars
<1>a. TypeOK /\ UNCHANGED <<claims, orphan, root, store, answers>>
  BY DEF IndInv, RedeemMark, RedeemValidate, RedeemAuthorise, RedeemRestoreCheck, cacheVars, histVars
<1>b. Holds(p) /\ Moves(p) /\ req' = req
  BY <1>a DEF RedeemMark, RedeemValidate, RedeemAuthorise, RedeemRestoreCheck, Refuse, ServerError,
              Goto, Step, Moves, Holds, CustodyPCs, TypeOK
<1>1. CASE Holds(p)' /\ UNCHANGED closed
  BY <1>a, <1>b, <1>1, HandsKept, SameRecords, Stutters
<1>2. CASE ~Holds(p)' /\ closed' = Closed(req[p].tok)
  BY <1>a, <1>b, <1>2, EndsHeld
<1>3. CASE RedeemMark(p)
  <2>1. pc'[p] = "validate" /\ UNCHANGED closed
    BY <1>3, <1>a DEF RedeemMark, Goto, Step, TypeOK, histVars
  <2> QED BY <1>1, <2>1 DEF Holds, CustodyPCs
<1>4. ASSUME Refuse(p) PROVE ~Holds(p)' /\ closed' = Closed(req[p].tok)
  BY <1>4, <1>a DEF Refuse, Goto, Step, Holds, CustodyPCs, TypeOK
<1>5. ASSUME NEW l \in {"authorise", "create", "restoreCheck", "restore"}, Goto(p, l)
      PROVE  Holds(p)'
  BY <1>5, <1>a DEF Goto, Step, Holds, CustodyPCs, TypeOK
<1>6. CASE RedeemValidate(p)
  BY <1>1, <1>2, <1>4, <1>5, <1>6 DEF RedeemValidate, ServerError
<1>7. CASE RedeemAuthorise(p)
  BY <1>1, <1>2, <1>4, <1>5, <1>7 DEF RedeemAuthorise, ServerError
<1>8. CASE RedeemRestoreCheck(p)
  <2>1. CASE Goto(p, "clear") /\ closed' = Closed(req[p].tok)
    <3>1. ~Holds(p)'
      BY <1>a, <2>1 DEF Goto, Step, Holds, CustodyPCs, TypeOK
    <3> QED BY <1>2, <2>1, <3>1
  <2>2. CASE Goto(p, "restore") /\ UNCHANGED closed
    BY <1>1, <1>5, <2>2
  <2> QED BY <1>8, <2>1, <2>2 DEF RedeemRestoreCheck
<1> QED BY <1>3, <1>6, <1>7, <1>8

\* What happens after the record is out of the request's hands concerns only
\* the caller.
LEMMA AnswersRefine ==
  ASSUME IndInv, NEW p \in Procs, RedeemPublish(p) \/ RedeemClear(p) \/ RedeemPoll(p),
         NEW t \in Tokens, t = req[p].tok
  PROVE  Session!Next \/ UNCHANGED Session!vars
<1>a. TypeOK /\ UNCHANGED <<claims, orphan, root, store, closed>>
  BY DEF IndInv, RedeemPublish, RedeemClear, RedeemPoll, cacheVars, histVars
<1>b. pc[p] \in RedeemPCs /\ ~Holds(p)
  BY DEF RedeemPublish, RedeemClear, RedeemPoll, RedeemPCs, Holds, CustodyPCs
<1>c. Moves(p) /\ ~Holds(p)'
  BY <1>a, <1>b DEF RedeemPublish, RedeemClear, RedeemPoll, PublishFailed, PollResult, PollAgain, Hand,
              Return, Goto, Step, Moves, Holds, CustodyPCs, TypeOK
<1>1. CASE UNCHANGED answers
  BY <1>a, <1>b, <1>c, <1>1, HandsKept, SameRecords, Stutters
<1>2. ASSUME NEW n \in Tokens, Hand(p, n), n \notin orphan, claims[n].pred = t PROVE Session!Next
  BY <1>a, <1>b, <1>2, GivesSuccessor
<1>3. ASSUME pc[p] \in {"publish", "clearUnpublished"}, Hand(p, req[p].new) PROVE Session!Next
  <2>1. req[p].new \in Tokens /\ req[p].new \notin orphan /\ claims[req[p].new].pred = t
    BY <1>3 DEF IndInv, RequestsOK, RequestOK
  <2> QED BY <1>2, <1>3, <2>1
<1>4. ASSUME IsResult(t), Hand(p, grace[t].token) PROVE Session!Next
  <2>1. grace[t].token \in Tokens
    BY <1>a, <1>4 DEF TypeOK, IsResult, GraceRec, NoGrace
  <2>2. grace[t].token \notin orphan /\ claims[grace[t].token].pred = t
    BY <1>4 DEF IndInv, ResultsOK
  <2> QED BY <1>2, <1>4, <2>1, <2>2
<1>5. CASE RedeemPublish(p)
  BY <1>1, <1>3, <1>5 DEF RedeemPublish, PublishFailed
<1>6. CASE RedeemClear(p)
  BY <1>1, <1>3, <1>6 DEF RedeemClear
<1>7. CASE RedeemPoll(p)
  BY <1>1, <1>4, <1>7 DEF RedeemPoll, PollResult, PollAgain, IsResult
<1> QED BY <1>5, <1>6, <1>7

LEMMA LogoutOrCrashRefines ==
  ASSUME IndInv, NEW p \in Procs, Logout(p) \/ Crash(p)
  PROVE  Session!Next \/ UNCHANGED Session!vars
<1>a. TypeOK /\ UNCHANGED <<claims, orphan, root, store, answers>>
  BY DEF IndInv, Logout, LogoutTombstone, LogoutGrace, LogoutPred, LogoutDone, Crash, cacheVars, histVars
<1>b. Moves(p) /\ ~Holds(p)'
  BY <1>a DEF Logout, LogoutTombstone, LogoutGrace, LogoutPred, LogoutDone, Crash, Return, Step,
              Moves, Holds, CustodyPCs, TypeOK
<1>1. CASE Holds(p) /\ closed' = Closed(req[p].tok)
  BY <1>a, <1>b, <1>1, EndsHeld
<1>2. CASE ~Holds(p) /\ UNCHANGED closed
  BY <1>a, <1>b, <1>2, HandsKept, SameRecords, Stutters
<1>3. CASE Logout(p)
  BY <1>2, <1>3 DEF Logout, LogoutTombstone, LogoutGrace, LogoutPred, Holds, CustodyPCs, histVars
<1>4. CASE Crash(p)
  BY <1>1, <1>2, <1>4 DEF Crash
<1> QED BY <1>3, <1>4

LEMMA StepRefines ==
  ASSUME IndInv, Lasting, [Next]_vars
  PROVE  Session!Next \/ UNCHANGED Session!vars
<1> DEFINE Goal == Session!Next \/ UNCHANGED Session!vars
<1>1. CASE Tick \/ UNCHANGED vars \/ \E t \in Tokens : ExpireGrace(t) \/ ExpireTombstone(t)
  <2>1. UNCHANGED <<claims, store, orphan, root, answers, pc, req, closed>>
    BY <1>1 DEF Tick, ExpireGrace, ExpireTombstone, vars, cacheVars, histVars
  <2> QED BY <2>1, SameRecords, Stutters
<1>2. ASSUME NEW p \in Procs, Redeem(p) PROVE Goal
  <2>0. pc[p] # "idle"
    BY <1>2 DEF Redeem, RedeemMark, RedeemValidate, RedeemAuthorise, RedeemCreate, RedeemPublish,
                RedeemRestoreCheck, RedeemRestore, RedeemClear, RedeemPoll
  <2>1. PICK t \in Tokens : t = req[p].tok
    BY <2>0, RequestTypes
  <2>2. CASE RedeemMark(p) \/ RedeemValidate(p) \/ RedeemAuthorise(p) \/ RedeemRestoreCheck(p)
    BY <2>2, ChecksRefine
  <2>3. CASE RedeemPublish(p) \/ RedeemClear(p) \/ RedeemPoll(p)
    BY <2>1, <2>3, AnswersRefine
  <2>4. ASSUME NEW n \in Tokens, RedeemCreate(p, n) PROVE Goal
    BY <2>1, <2>4, CreateRefines
  <2>5. CASE RedeemRestore(p)
    BY <2>1, <2>5, RestoreRefines
  <2> QED BY <1>2, <2>2, <2>3, <2>4, <2>5 DEF Redeem
<1>3. ASSUME NEW n \in Tokens, NEW c \in Clients, Login(n, c) PROVE Goal
  BY <1>3, LoginIssues
<1>4. ASSUME NEW p \in Procs, NEW t \in held, NEW c \in Clients, RedeemConsume(p, t, c) PROVE Goal
  BY <1>4, ConsumeRefines
<1>5. ASSUME NEW p \in Procs, NEW t \in held, LogoutConsume(p, t) PROVE Goal
  BY <1>5, LogoutConsumeRefines
<1>6. ASSUME NEW p \in Procs, Logout(p) \/ Crash(p) PROVE Goal
  BY <1>6, LogoutOrCrashRefines
<1> QED BY <1>1, <1>2, <1>3, <1>4, <1>5, <1>6 DEF Next

LEMMA InitRefines == Init => Session!Init /\ Lasting
<1> SUFFICES ASSUME Init PROVE Session!Init /\ Lasting
  OBVIOUS
<1>1. \A t \in Tokens : ~Known(t) /\ store[t] = 0 /\ claims[t].pred = NoToken /\ answers[t] = {}
  BY DEF Init, Known, NoClaims
<1>2. LiveTokens = {} /\ TakenTokens = {} /\ Rotated = {} /\ Given = {}
  BY <1>1, ConstantsAssumption
  DEF Init, LiveTokens, TakenTokens, Rotated, Given, Stored, Carried, Holds, CustodyPCs
<1>3. Lineage = [t \in Tokens |-> NoToken] /\ closed = {}
  BY DEF Init, Lineage
<1>4. Session!Init
  BY <1>2, <1>3 DEF Session!Init, Lineage, LiveTokens, TakenTokens, Rotated, Given
<1> QED BY <1>1, <1>4 DEF Lasting

LEMMA LastingInvariant == Spec => []Lasting
<1>1. Init => Lasting
  BY InitRefines
<1>2. IndInv /\ Lasting /\ [Next]_vars => Lasting'
  BY LastingStep
<1> QED BY <1>1, <1>2, Inductive, PTL DEF Spec

\* Whatever the cache calls of concurrent redemptions and logouts interleave
\* to, with failed calls and crashes between any two of them, each step of
\* RedeemRefreshToken and RevokeRefreshToken is a take, a rotation, a
\* put-back, an end or an answer of one lineage, or none of the session's
\* business.
THEOREM RotationIsSingleUse == Spec => ImplementsSession
<1>1. Init => Session!Init
  BY InitRefines
<1>2. IndInv /\ Lasting /\ [Next]_vars => [Session!Next]_(Session!vars)
  BY StepRefines
<1> QED BY <1>1, <1>2, Inductive, LastingInvariant, PTL DEF Spec, ImplementsSession, Session!Spec

-----------------------------------------------------------------------------
(* What the abstract session guarantees, in the cache's terms              *)

\* Session!Issued, Session!RotatedOnce and Session!Conserved in these names.
LineageIssued ==
  /\ Lineage \in [Tokens -> Tokens \cup {NoToken}]
  /\ LiveTokens \subseteq Tokens /\ TakenTokens \subseteq Tokens /\ LiveTokens \cap TakenTokens = {}
  /\ \A t \in LiveTokens \cup TakenTokens : Lineage[t] # NoToken
  /\ \A t, n \in Tokens : <<t, n>> \in Rotated => Lineage[t] # NoToken
LineageRotated ==
  \A t, n \in Tokens : <<t, n>> \in Rotated =>
     /\ t \notin LiveTokens \cup TakenTokens
     /\ \A m \in Tokens : <<t, m>> \in Rotated => m = n
LineageConserved ==
  \A t \in Tokens : Lineage[t] # NoToken /\ Lineage[t] \notin closed =>
     \E u \in LiveTokens \cup TakenTokens : Lineage[u] = Lineage[t]
LineageSound == LineageIssued /\ LineageRotated /\ LineageConserved

\* Session!Sound in the names above.
LEMMA SoundNames == Session!Sound <=> LineageSound
  BY DEF Session!Sound, Session!Issued, Session!RotatedOnce, Session!Conserved, LineageSound,
     LineageIssued, LineageRotated, LineageConserved, Lineage, LiveTokens, TakenTokens, Rotated

\* What each abstract step does, in the names above.
LEMMA SessionSteps ==
  ASSUME Session!Next
  PROVE  \/ \E t \in Tokens :
              \/ /\ Lineage[t] = NoToken /\ Lineage' = [Lineage EXCEPT ![t] = t]
                 /\ LiveTokens' = LiveTokens \cup {t}
                 /\ UNCHANGED <<TakenTokens, closed, Rotated>>
              \/ /\ t \in LiveTokens
                 /\ LiveTokens' = LiveTokens \ {t} /\ TakenTokens' = TakenTokens \cup {t}
                 /\ UNCHANGED <<Lineage, closed, Rotated>>
              \/ /\ t \in TakenTokens
                 /\ TakenTokens' = TakenTokens \ {t} /\ LiveTokens' = LiveTokens \cup {t}
                 /\ UNCHANGED <<Lineage, closed, Rotated>>
              \/ /\ t \in LiveTokens \cup TakenTokens
                 /\ LiveTokens' = LiveTokens \ {t} /\ TakenTokens' = TakenTokens \ {t}
                 /\ closed' = closed \cup {Lineage[t]}
                 /\ UNCHANGED <<Lineage, Rotated>>
         \/ \E t, n \in Tokens :
              /\ t \in TakenTokens /\ Lineage[n] = NoToken
              /\ Lineage' = [Lineage EXCEPT ![n] = Lineage[t]]
              /\ TakenTokens' = TakenTokens \ {t} /\ LiveTokens' = LiveTokens \cup {n}
              /\ Rotated' = Rotated \cup {<<t, n>>}
              /\ UNCHANGED closed
         \/ UNCHANGED <<Lineage, LiveTokens, TakenTokens, closed, Rotated>>
<1>1. \/ \E t \in Tokens : Session!Issue(t) \/ Session!Take(t) \/ Session!PutBack(t) \/ Session!End(t)
      \/ \E t, n \in Tokens : Session!Rotate(t, n) \/ Session!Give(t, n)
  BY DEF Session!Next
<1> QED BY <1>1, Zenon DEF Session!Issue, Session!Take, Session!PutBack, Session!End, Session!Rotate, Session!Give,
     Lineage, LiveTokens, TakenTokens, Rotated

\* Whatever order logins, redemptions, put-backs and ends come in, every
\* credential of a session (SingleUseSession, as RedeemRefreshToken and
\* RevokeRefreshToken implement it) is rotated at most once and no session ends
\* by itself.
THEOREM SessionsSound == Session!Spec => []Session!Sound
<1>1. Session!Init => Session!Sound
  BY ConstantsAssumption DEF Session!Init, Session!Sound, Session!Issued, Session!RotatedOnce, Session!Conserved
<1>2. ASSUME LineageSound, Session!Next PROVE LineageSound'
  <2> USE DEF LineageSound, LineageIssued
  <2>1. ASSUME NEW t \in Tokens, Lineage[t] = NoToken, Lineage' = [Lineage EXCEPT ![t] = t],
               LiveTokens' = LiveTokens \cup {t}, UNCHANGED <<TakenTokens, closed, Rotated>>
        PROVE  LineageSound'
    BY <1>2, <2>1, ConstantsAssumption DEF LineageRotated, LineageConserved
  <2>2. ASSUME NEW t \in Tokens, t \in LiveTokens, LiveTokens' = LiveTokens \ {t},
               TakenTokens' = TakenTokens \cup {t}, UNCHANGED <<Lineage, closed, Rotated>>
        PROVE  LineageSound'
    BY <1>2, <2>2 DEF LineageRotated, LineageConserved
  <2>3. ASSUME NEW t \in Tokens, t \in TakenTokens, TakenTokens' = TakenTokens \ {t},
               LiveTokens' = LiveTokens \cup {t}, UNCHANGED <<Lineage, closed, Rotated>>
        PROVE  LineageSound'
    BY <1>2, <2>3 DEF LineageRotated, LineageConserved
  <2>4. ASSUME NEW t \in Tokens, t \in LiveTokens \cup TakenTokens, LiveTokens' = LiveTokens \ {t},
               TakenTokens' = TakenTokens \ {t}, closed' = closed \cup {Lineage[t]},
               UNCHANGED <<Lineage, Rotated>>
        PROVE  LineageSound'
    BY <1>2, <2>4 DEF LineageRotated, LineageConserved
  <2>5. ASSUME NEW t \in Tokens, NEW n \in Tokens, t \in TakenTokens, Lineage[n] = NoToken,
               Lineage' = [Lineage EXCEPT ![n] = Lineage[t]], TakenTokens' = TakenTokens \ {t},
               LiveTokens' = LiveTokens \cup {n}, Rotated' = Rotated \cup {<<t, n>>}, UNCHANGED closed
        PROVE  LineageSound'
    <3>1. t # n /\ n \notin LiveTokens \cup TakenTokens /\ Lineage[t] # NoToken /\ t \notin LiveTokens
      BY <1>2, <2>5
    <3>2. LineageIssued'
      BY <1>2, <2>5, <3>1
    <3>3. LineageRotated'
      BY <1>2, <2>5, <3>1 DEF LineageRotated
    <3>4. LineageConserved'
      BY <1>2, <2>5, <3>1 DEF LineageConserved
    <3> QED BY <3>2, <3>3, <3>4
  <2>6. CASE UNCHANGED <<Lineage, LiveTokens, TakenTokens, closed, Rotated>>
    BY <1>2, <2>6 DEF LineageRotated, LineageConserved
  <2> HIDE DEF LineageSound, LineageIssued
  <2> QED BY <1>2, <2>1, <2>2, <2>3, <2>4, <2>5, <2>6, SessionSteps
<1>3. ASSUME LineageSound, UNCHANGED Session!vars PROVE LineageSound'
  <2>1. UNCHANGED <<Lineage, LiveTokens, TakenTokens, closed, Rotated>>
    BY <1>3, Zenon DEF Session!vars, Lineage, LiveTokens, TakenTokens, Rotated
  <2> QED BY <1>3, <2>1 DEF LineageSound, LineageIssued, LineageRotated, LineageConserved
<1>4. LineageSound /\ [Session!Next]_(Session!vars) => LineageSound'
  BY <1>2, <1>3
<1> QED BY <1>1, <1>4, SoundNames, PTL DEF Session!Spec

LEMMA SessionSound == Spec => []Session!Sound
  BY RotationIsSingleUse, SessionsSound, PTL DEF ImplementsSession

\* A rotated token is neither in the cache nor in a request's hands, and has
\* one successor.
Succeeds(n, t) == n \notin orphan /\ claims[n].pred = t
Spent == \A t, n \in Tokens : Succeeds(n, t) =>
            /\ ~Stored(t) /\ \A p \in Procs : ~Carried(p, t)
            /\ \A m \in Tokens : Succeeds(m, t) => m = n

LEMMA SpentInvariant == Spec => []Spent
<1>1. Session!Sound => Spent
  <2> SUFFICES ASSUME Session!Sound, NEW t \in Tokens, NEW n \in Tokens, Succeeds(n, t)
               PROVE  /\ ~Stored(t) /\ \A p \in Procs : ~Carried(p, t)
                      /\ \A m \in Tokens : Succeeds(m, t) => m = n
    BY DEF Spent
  <2>1. <<t, n>> \in Rotated /\ \A m \in Tokens : Succeeds(m, t) => <<t, m>> \in Rotated
    BY DEF Succeeds, Rotated
  <2>2. t \notin LiveTokens \cup TakenTokens /\ \A m \in Tokens : <<t, m>> \in Rotated => m = n
    BY <2>1 DEF Session!Sound, Session!RotatedOnce, Rotated, LiveTokens, TakenTokens
  <2> QED BY <2>1, <2>2 DEF LiveTokens, TakenTokens
<1> QED BY <1>1, SessionSound, PTL

\* No session is lost silently: while no refusal, logout, expiry or lost write
\* ended it, the lineage of every token a caller was given has a record in the
\* cache or in the hands of a redemption (the deferred restore of
\* RedeemRefreshToken on a server error).
THEOREM SessionsAreConserved == Spec => []SessionConserved
<1>1. IndInv /\ Session!Sound => SessionConserved
  <2> SUFFICES ASSUME IndInv, Session!Sound, NEW t \in held, root[t] \notin closed
               PROVE  \E u \in Tokens : /\ root[u] = root[t]
                                        /\ Stored(u) \/ \E p \in Procs : Carried(p, u)
    BY DEF SessionConserved
  <2>1. t \in Tokens /\ Lineage[t] = root[t] /\ root[t] # NoToken
    BY HeldTypes, ConstantsAssumption DEF IndInv, Wellformed, Lineage
  <2>2. \E u \in LiveTokens \cup TakenTokens : Lineage[u] = Lineage[t]
    BY <2>1 DEF Session!Sound, Session!Conserved, Lineage, LiveTokens, TakenTokens
  <2>3. \A u \in LiveTokens \cup TakenTokens : u \in Tokens /\ Lineage[u] = root[u]
    BY CurrentKnown DEF LiveTokens, TakenTokens, Stored, Lineage
  <2> QED BY <2>1, <2>2, <2>3 DEF LiveTokens, TakenTokens
<1> QED BY <1>1, SessionSound, Inductive, PTL

-----------------------------------------------------------------------------
(* Markers                                                                 *)

\* An in-flight marker is overwritten or cleared by a redemption that is still
\* running, unless that redemption crashed or its delete failed (the deferred
\* clearGraceInFlight of RedeemRefreshToken).
THEOREM MarkersAreOwned == Spec => []MarkerOwned
<1>1. Init => MarkerOwned
  BY DEF Init, MarkerOwned, NoGrace
<1>2. ASSUME IndInv, MarkerOwned, [Next]_vars PROVE MarkerOwned'
  <2> DEFINE Owner(p, t) == req[p].tok = t /\ pc[p] \in MarkerPCs
             Pend(t) == grace[t].kind = "pending"
  <2>a. TypeOK
    BY <1>2 DEF IndInv
  \* The general step: p moves, keeps its marker or leaves none behind.
  <2>1. ASSUME NEW p \in Procs, Moves(p), stranded \subseteq stranded',
               \A t \in Tokens : Pend(t)' => Pend(t) \/ Owner(p, t)',
               \A t \in Tokens : Pend(t)' /\ Owner(p, t) => Owner(p, t)' \/ t \in stranded'
        PROVE  MarkerOwned'
    <3> SUFFICES ASSUME NEW t \in Tokens, Pend(t)'
                 PROVE  t \in stranded' \/ \E q \in Procs : Owner(q, t)'
      BY DEF MarkerOwned
    <3>1. CASE Owner(p, t)'
      BY <3>1
    <3>2. CASE Pend(t) /\ ~Owner(p, t)'
      <4>1. t \in stranded \/ \E q \in Procs : Owner(q, t)
        BY <1>2, <3>2 DEF MarkerOwned
      <4>2. ASSUME NEW q \in Procs, q # p, Owner(q, t) PROVE Owner(q, t)'
        BY <2>1, <4>2 DEF Moves
      <4> HIDE DEF Owner, Pend
      <4> QED BY <2>1, <3>2, <4>1, <4>2
    <3> QED BY <2>1, <3>1, <3>2
  <2>2. CASE UNCHANGED <<grace, pc, req, stranded>>
    BY <1>2, <2>2 DEF MarkerOwned
  <2>3. CASE Tick \/ UNCHANGED vars \/ \E n \in Tokens, c \in Clients : Login(n, c)
    BY <2>2, <2>3 DEF Tick, Login, vars, cacheVars, histVars
  <2>4. ASSUME NEW t \in Tokens, ExpireGrace(t) \/ ExpireTombstone(t) PROVE MarkerOwned'
    BY <1>2, <2>a, <2>4 DEF MarkerOwned, ExpireGrace, ExpireTombstone, NoGrace, TypeOK, histVars
  <2>5. ASSUME NEW p \in Procs, NEW t \in held,
               (\E c \in Clients : RedeemConsume(p, t, c)) \/ LogoutConsume(p, t)
        PROVE  MarkerOwned'
    <3>1. pc[p] = "idle" /\ Moves(p) /\ UNCHANGED <<grace, stranded>>
      BY <2>a, <2>5 DEF RedeemConsume, LogoutConsume, Moves, Step, TypeOK
    <3> QED BY <2>1, <3>1 DEF MarkerPCs
  <2>6. ASSUME NEW p \in Procs, Redeem(p) \/ Logout(p) \/ Crash(p) PROVE MarkerOwned'
    <3> DEFINE t == req[p].tok
    <3>t. t \in Tokens
      BY <1>2, <2>6, RequestTypes
      DEF Redeem, RedeemMark, RedeemValidate, RedeemAuthorise, RedeemCreate, RedeemPublish,
          RedeemRestoreCheck, RedeemRestore, RedeemClear, RedeemPoll,
          Logout, LogoutTombstone, LogoutGrace, LogoutPred, Crash
    <3> USE <2>a, <3>t DEF TypeOK, Step, Goto, Return, Moves, MarkerPCs
    <3>1. CASE RedeemMark(p)
      BY <2>1, <3>1 DEF RedeemMark, histVars
    <3>2. CASE RedeemValidate(p) \/ RedeemAuthorise(p) \/ RedeemRestoreCheck(p)
      BY <2>1, <3>2 DEF RedeemValidate, RedeemAuthorise, RedeemRestoreCheck, Refuse, ServerError, cacheVars
    <3>3. CASE RedeemRestore(p)
      BY <2>1, <3>3 DEF RedeemRestore
    <3>4. ASSUME NEW n \in Tokens, RedeemCreate(p, n) PROVE MarkerOwned'
      <4>1. /\ UNCHANGED <<grace, stranded>> /\ Moves(p)
            /\ pc[p] = "create" /\ pc'[p] \in {"publish", "restoreCheck"} /\ req'[p].tok = t
        BY <3>4 DEF RedeemCreate, ServerError, ReqRec
      <4> QED BY <2>1, <4>1
    <3>5. CASE RedeemPublish(p)
      BY <2>1, <3>5 DEF RedeemPublish, PublishFailed, Hand, Result
    <3>6. CASE RedeemClear(p)
      BY <2>1, <3>6 DEF RedeemClear, Hand, NoGrace
    <3>7. CASE RedeemPoll(p)
      BY <2>1, <3>7 DEF RedeemPoll, PollResult, PollAgain, Hand, cacheVars
    <3>8. CASE Logout(p)
      BY <2>1, <3>8 DEF Logout, LogoutTombstone, LogoutGrace, LogoutPred, LogoutDelete, LogoutDone, NoGrace, histVars
    <3>9. CASE Crash(p)
      BY <2>1, <3>9 DEF Crash, cacheVars
    <3> QED BY <2>6, <3>1, <3>2, <3>3, <3>4, <3>5, <3>6, <3>7, <3>8, <3>9 DEF Redeem
  <2> QED BY <1>2, <2>3, <2>4, <2>5, <2>6 DEF Next
<1> QED BY <1>1, <1>2, Inductive, PTL DEF Spec

-----------------------------------------------------------------------------
(* The end of a session                                                    *)

\* A lineage stays closed, and only a token in a request's hands gets a successor.
LEMMA SessionGrows ==
  ASSUME IndInv, Lasting, [Next]_vars
  PROVE  /\ closed \subseteq closed'
         /\ \A t, n \in Tokens : Succeeds(n, t)' =>
               Succeeds(n, t) \/ \E p \in Procs : Carried(p, t)
<1>1. Session!Next \/ UNCHANGED Session!vars
  BY StepRefines
<1>2. closed \subseteq closed' /\ Rotated' \subseteq Rotated \cup {tn \in Tokens \X Tokens : tn[1] \in TakenTokens}
  <2> DEFINE Goal == closed \subseteq closed'
                     /\ Rotated' \subseteq Rotated \cup {tn \in Tokens \X Tokens : tn[1] \in TakenTokens}
  <2>1. ASSUME NEW t \in Tokens,
               Session!Issue(t) \/ Session!Take(t) \/ Session!PutBack(t) \/ Session!End(t)
        PROVE  closed \subseteq closed' /\ Rotated' = Rotated
    BY <2>1 DEF Session!Issue, Session!Take, Session!PutBack, Session!End, Rotated
  <2>2. ASSUME NEW t \in Tokens, NEW n \in Tokens, Session!Give(t, n)
        PROVE  closed' = closed /\ Rotated' = Rotated
    BY <2>2 DEF Session!Give, Rotated
  <2>3. ASSUME NEW t \in Tokens, NEW n \in Tokens, Session!Rotate(t, n)
        PROVE  closed' = closed /\ Rotated' = Rotated \cup {<<t, n>>} /\ t \in TakenTokens
    BY <2>3 DEF Session!Rotate, Rotated, TakenTokens
  <2>4. UNCHANGED Session!vars => closed' = closed /\ Rotated' = Rotated
    BY DEF Session!vars, Rotated
  <2> QED BY <1>1, <2>1, <2>2, <2>3, <2>4 DEF Session!Next
<1>3. \A t, n \in Tokens : Succeeds(n, t) <=> <<t, n>> \in Rotated
  BY DEF Succeeds, Rotated
<1>4. \A t, n \in Tokens : Succeeds(n, t)' <=> <<t, n>> \in Rotated'
  BY DEF Succeeds, Rotated
<1> QED BY <1>2, <1>3, <1>4 DEF TakenTokens

\* A result appears in the grace cache only when the winner publishes it.
LEMMA ResultsAppear ==
  ASSUME IndInv, [Next]_vars, NEW t \in Tokens, IsResult(t)', ~IsResult(t)
  PROVE  \E p \in Procs : pc[p] = "publish" /\ req[p].tok = t /\ RedeemPublish(p)
<1>a. grace \in [Tokens -> GraceRec]
  BY DEF IndInv, TypeOK
<1>b. grace'[t] # grace[t] /\ grace'[t].kind = "result"
  BY DEF IsResult
<1> HIDE DEF IsResult
<1>1. ASSUME NEW u \in Tokens, ExpireGrace(u) \/ ExpireTombstone(u) PROVE FALSE
  BY <1>a, <1>b, <1>1 DEF ExpireGrace, ExpireTombstone, NoGrace
<1>2. ~(Tick \/ UNCHANGED vars \/ \E n \in Tokens, c \in Clients : Login(n, c))
  BY <1>b DEF Tick, Login, vars, cacheVars
<1>3. ASSUME NEW p \in Procs,
             \/ \E u \in held : (\E c \in Clients : RedeemConsume(p, u, c)) \/ LogoutConsume(p, u)
             \/ Crash(p) \/ RedeemMark(p) \/ RedeemValidate(p) \/ RedeemAuthorise(p)
             \/ RedeemRestoreCheck(p) \/ RedeemRestore(p) \/ RedeemClear(p) \/ RedeemPoll(p)
             \/ \E n \in Tokens : RedeemCreate(p, n)
      PROVE  FALSE
  BY <1>a, <1>b, <1>3
  DEF RedeemConsume, LogoutConsume, Crash, RedeemMark, RedeemValidate, RedeemAuthorise, RedeemCreate,
      RedeemRestoreCheck, RedeemRestore, RedeemClear, RedeemPoll, NoGrace, Pending, cacheVars
<1>4. ASSUME NEW p \in Procs, Logout(p) PROVE FALSE
  BY <1>a, <1>b, <1>4 DEF Logout, LogoutTombstone, LogoutGrace, LogoutPred, LogoutDelete, NoGrace
<1>5. ASSUME NEW p \in Procs, RedeemPublish(p) PROVE pc[p] = "publish" /\ req[p].tok = t
  BY <1>a, <1>b, <1>5 DEF RedeemPublish
<1> QED BY <1>1, <1>2, <1>3, <1>4, <1>5 DEF Next, Redeem

\* Until a result is published nobody but its creator knows the successor.
Unpublished(p) == pc[p] \in {"publish", "clearUnpublished"}
Publishing ==
  /\ \A p \in Procs : pc[p] = "publish" => req[p].new \notin held /\ ~IsResult(req[p].tok)
  /\ \A p, q \in Procs : Unpublished(p) /\ Unpublished(q) /\ req[p].new = req[q].new => p = q

\* A logout that found the record closed a lineage whose last token it is.
Last(t) == t \in held /\ root[t] \in closed /\ \A n \in Tokens : ~Succeeds(n, t)
Ending ==
  \A p \in Procs : pc[p] \in LogoutPCs /\ req[p].went = "found" =>
     Last(req[p].tok) /\ req[p].new = claims[req[p].tok].pred
EndedClean ==
  \A t \in ended : Last(t) /\ (claims[t].pred # NoToken => ~IsResult(claims[t].pred))
FinalInv == Publishing /\ Ending /\ EndedClean

LEMMA LastKept ==
  ASSUME IndInv, Lasting, [Next]_vars, NEW t \in Tokens, Last(t)
  PROVE  Last(t)' /\ claims'[t] = claims[t]
<1>1. t \in held' /\ root'[t] = root[t] /\ claims'[t] = claims[t]
  BY StableStep, HeldTypes DEF Last, Stable
<1>2. \A p \in Procs : ~Carried(p, t)
  BY DEF IndInv, ClosedStaysClosed, Last
<1> QED BY <1>1, <1>2, SessionGrows DEF Last

\* A caller learns a token from its login, from the redemption that created it
\* or from a published result.
LEMMA HeldGrows ==
  ASSUME IndInv, [Next]_vars, NEW n \in Tokens, n \in held', n \notin held
  PROVE  \/ ~Known(n)
         \/ \E q \in Procs : Unpublished(q) /\ req[q].new = n /\ pc'[q] = "idle"
         \/ \E t \in Tokens : IsResult(t) /\ grace[t].token = n
<1> DEFINE Goal == \/ ~Known(n)
                   \/ \E q \in Procs : Unpublished(q) /\ req[q].new = n /\ pc'[q] = "idle"
                   \/ \E t \in Tokens : IsResult(t) /\ grace[t].token = n
<1>a. TypeOK
  BY DEF IndInv
<1>1. ASSUME NEW m \in Tokens, NEW c \in Clients, Login(m, c) PROVE ~Known(n)
  BY <1>1 DEF Login
<1>2. ~(Tick \/ UNCHANGED vars \/ \E t \in Tokens : ExpireGrace(t) \/ ExpireTombstone(t))
  BY DEF Tick, ExpireGrace, ExpireTombstone, vars, histVars
<1>3. ASSUME NEW p \in Procs,
             \/ \E u \in held : (\E c \in Clients : RedeemConsume(p, u, c)) \/ LogoutConsume(p, u)
             \/ Crash(p) \/ Logout(p) \/ RedeemMark(p) \/ RedeemValidate(p) \/ RedeemAuthorise(p)
             \/ RedeemRestoreCheck(p) \/ RedeemRestore(p) \/ \E m \in Tokens : RedeemCreate(p, m)
      PROVE  FALSE
  BY <1>3
  DEF RedeemConsume, LogoutConsume, Crash, Logout, LogoutTombstone, LogoutGrace, LogoutPred,
      RedeemMark, RedeemValidate, RedeemAuthorise, RedeemCreate, RedeemRestoreCheck, RedeemRestore, histVars
<1>4. ASSUME NEW p \in Procs, RedeemPublish(p) \/ RedeemClear(p) PROVE Goal
  BY <1>a, <1>4 DEF RedeemPublish, PublishFailed, RedeemClear, Hand, Return, Step, Unpublished, TypeOK
<1>5. ASSUME NEW p \in Procs, RedeemPoll(p) PROVE Goal
  <2>1. req[p].tok \in Tokens
    BY <1>5, RequestTypes DEF RedeemPoll
  <2> QED BY <1>5, <2>1 DEF RedeemPoll, PollResult, PollAgain, Hand, IsResult
<1> QED BY <1>1, <1>2, <1>3, <1>4, <1>5 DEF Next, Redeem

\* A request becomes a publisher by creating the successor.
LEMMA Publishers ==
  ASSUME IndInv, [Next]_vars, NEW p \in Procs, Unpublished(p)'
  PROVE  \/ /\ Unpublished(p) /\ req'[p] = req[p]
            /\ pc'[p] = "publish" => pc[p] = "publish"
         \/ \E n \in Tokens : RedeemCreate(p, n) /\ pc'[p] = "publish" /\ req'[p].new = n /\ req'[p].tok = req[p].tok
<1> DEFINE Goal == \/ /\ Unpublished(p) /\ req'[p] = req[p]
                      /\ pc'[p] = "publish" => pc[p] = "publish"
                   \/ \E n \in Tokens : RedeemCreate(p, n) /\ pc'[p] = "publish" /\ req'[p].new = n /\ req'[p].tok = req[p].tok
<1>a. TypeOK /\ pc'[p] \in {"publish", "clearUnpublished"}
  BY DEF IndInv, Unpublished
<1>1. CASE pc'[p] = pc[p] /\ req'[p] = req[p]
  BY <1>1 DEF Unpublished
<1>2. CASE Tick \/ UNCHANGED vars \/ (\E t \in Tokens : ExpireGrace(t) \/ ExpireTombstone(t))
           \/ \E n \in Tokens, c \in Clients : Login(n, c)
  BY <1>1, <1>2 DEF Tick, ExpireGrace, ExpireTombstone, Login, vars, cacheVars, histVars
<1>3. ASSUME NEW q \in Procs,
             \/ \E u \in held : (\E c \in Clients : RedeemConsume(q, u, c)) \/ LogoutConsume(q, u)
             \/ Crash(q) \/ Logout(q) \/ RedeemMark(q) \/ RedeemValidate(q) \/ RedeemAuthorise(q)
             \/ RedeemRestoreCheck(q) \/ RedeemRestore(q)
      PROVE  Goal
  <2>1. CASE q # p
    BY <1>1, <1>3, <1>a, <2>1
    DEF RedeemConsume, LogoutConsume, Crash, Logout, LogoutTombstone, LogoutGrace, LogoutPred,
      LogoutDone, RedeemMark, RedeemValidate, RedeemAuthorise, RedeemRestoreCheck, RedeemRestore,
      Refuse, ServerError, Goto, Return, Step, TypeOK
  <2>2. CASE q = p
    BY <1>1, <1>3, <1>a, <2>2
    DEF RedeemConsume, LogoutConsume, Crash, Logout, LogoutTombstone, LogoutGrace, LogoutPred,
      LogoutDone, RedeemMark, RedeemValidate, RedeemAuthorise, RedeemRestoreCheck, RedeemRestore,
      Refuse, ServerError, Goto, Return, Step, TypeOK
  <2> QED BY <2>1, <2>2
<1>4. ASSUME NEW q \in Procs, RedeemPublish(q) \/ RedeemClear(q) PROVE Goal
  BY <1>1, <1>4, <1>a DEF RedeemPublish, PublishFailed, RedeemClear, Hand, Goto, Return, Step, Unpublished, TypeOK
<1>5. ASSUME NEW q \in Procs, RedeemPoll(q) PROVE Goal
  BY <1>1, <1>5, <1>a DEF RedeemPoll, PollResult, PollAgain, Hand, Return, Step, TypeOK
<1>6. ASSUME NEW q \in Procs, NEW n \in Tokens, RedeemCreate(q, n) PROVE Goal
  <2>1. CASE q # p
    BY <1>1, <1>6, <1>a, <2>1 DEF RedeemCreate, ServerError, Goto, Step, TypeOK
  <2>2. CASE q = p
    BY <1>6, <1>a, <2>2 DEF RedeemCreate, ServerError, Goto, Step, TypeOK, ReqRec
  <2> QED BY <2>1, <2>2
<1> QED BY <1>2, <1>3, <1>4, <1>5, <1>6 DEF Next, Redeem

LEMMA PublishingStep ==
  ASSUME IndInv, Spent, Publishing, [Next]_vars
  PROVE  Publishing'
<1>a. Stable /\ TypeOK
  BY StableStep DEF IndInv
\* The successor of a token is known to the request that publishes it.
<1>b. ASSUME NEW p \in Procs, Unpublished(p)
      PROVE  /\ req[p].tok \in Tokens /\ req[p].new \in Tokens /\ Known(req[p].new)
             /\ Succeeds(req[p].new, req[p].tok)
  BY <1>b, RequestTypes DEF IndInv, RequestsOK, RequestOK, Unpublished, Succeeds
<1>1. ASSUME NEW p \in Procs, NEW q \in Procs, Unpublished(p)', Unpublished(q)',
             req'[p].new = req'[q].new
      PROVE  p = q
  <2>1. CASE Unpublished(p) /\ req'[p] = req[p] /\ Unpublished(q) /\ req'[q] = req[q]
    BY <1>1, <2>1 DEF Publishing
  <2>2. ASSUME NEW n \in Tokens, NEW r \in Procs, RedeemCreate(r, n), pc'[r] = "publish", req'[r].new = n,
               NEW s \in Procs, s # r, Unpublished(s), req'[s] = req[s], req'[s].new = n
        PROVE  FALSE
    BY <1>b, <2>2 DEF RedeemCreate
  <2>3. ASSUME NEW n \in Tokens, NEW m \in Tokens, RedeemCreate(p, n), pc'[p] = "publish", RedeemCreate(q, m), pc'[q] = "publish"
        PROVE  p = q
    BY <1>a, <2>3 DEF RedeemCreate, ServerError, Goto, Step, TypeOK
  <2> QED BY <1>1, <2>1, <2>2, <2>3, Publishers
<1>2. ASSUME NEW p \in Procs, pc'[p] = "publish"
      PROVE  req'[p].new \notin held' /\ ~IsResult(req[p].tok)'
  <2>1. CASE pc[p] = "publish" /\ req'[p] = req[p]
    <3>0. Unpublished(p) /\ Unpublished(p)'
      BY <1>2, <2>1 DEF Unpublished
    <3> DEFINE n == req[p].new
               t == req[p].tok
    <3>1. /\ n \in Tokens /\ t \in Tokens /\ Known(n) /\ Succeeds(n, t)
          /\ n \notin held /\ ~IsResult(t)
      BY <1>b, <2>1, <3>0 DEF Publishing
    <3>2. ~IsResult(t)'
      <4> SUFFICES ASSUME IsResult(t)' PROVE FALSE
        OBVIOUS
      <4> HIDE DEF IsResult
      <4>0. PICK u \in Tokens : u = t
        BY <3>1
      <4>1. IsResult(u)' /\ ~IsResult(u)
        BY <3>1, <4>0, <2>1 DEF IsResult
      <4>2. PICK q \in Procs : pc[q] = "publish" /\ req[q].tok = u /\ RedeemPublish(q)
        BY <4>1, ResultsAppear
      <4>3. pc'[q] # "publish"
        BY <4>2, <1>a DEF RedeemPublish, PublishFailed, Hand, Goto, Return, Step, TypeOK
      <4>4. Unpublished(q) /\ Succeeds(req[q].new, u) /\ req[q].new \in Tokens
        BY <1>b, <4>2 DEF Unpublished
      <4>5. req[q].new = n
        BY <3>1, <4>0, <4>4 DEF Spent
      <4> QED BY <1>2, <3>0, <4>3, <4>4, <4>5 DEF Publishing
    <3>3. n \notin held'
      <4> SUFFICES ASSUME n \in held' PROVE FALSE
        OBVIOUS
      <4>0. PICK m \in Tokens : m = n
        BY <3>1
      <4>1. \/ \E q \in Procs : Unpublished(q) /\ req[q].new = m /\ pc'[q] = "idle"
            \/ \E u \in Tokens : IsResult(u) /\ grace[u].token = m
        BY <3>1, <4>0, HeldGrows
      <4>2. ASSUME NEW q \in Procs, Unpublished(q), req[q].new = m, pc'[q] = "idle" PROVE FALSE
        BY <1>2, <3>0, <4>0, <4>2 DEF Publishing
      <4>3. ASSUME NEW u \in Tokens, IsResult(u), grace[u].token = m PROVE FALSE
        <5>1. claims[m].pred = u
          BY <4>3 DEF IndInv, ResultsOK
        <5> QED BY <3>1, <4>0, <4>3, <5>1 DEF Succeeds
      <4> QED BY <4>1, <4>2, <4>3
    <3>4. req'[p].tok = t /\ req'[p].new = n
      BY <2>1
    <3> QED BY <3>2, <3>3, <3>4
  <2>2. ASSUME NEW n \in Tokens, RedeemCreate(p, n), req'[p].new = n, req'[p].tok = req[p].tok
        PROVE  req'[p].new \notin held' /\ ~IsResult(req[p].tok)'
    <3>1. n \notin held /\ UNCHANGED <<held, grace>>
      BY <2>2 DEF RedeemCreate, IndInv, Wellformed
    <3>2. Carried(p, req[p].tok) /\ req[p].tok \in Tokens
      BY <2>2, CarriedFacts DEF RedeemCreate, Holds, CustodyPCs
    <3>3. ~IsResult(req[p].tok)
      <4> SUFFICES ASSUME IsResult(req[p].tok) PROVE FALSE
        OBVIOUS
      <4>0. PICK u \in Tokens : u = req[p].tok
        BY <3>2
      <4>1. grace[u].token \in Tokens /\ Succeeds(grace[u].token, u)
        BY <1>a, <4>0 DEF TypeOK, GraceRec, NoGrace, IsResult, IndInv, ResultsOK, Succeeds
      <4> QED BY <3>2, <4>0, <4>1 DEF Spent
    <3> QED BY <2>2, <3>1, <3>3 DEF IsResult
  <2> QED BY <1>2, <2>1, <2>2, Publishers DEF Unpublished
<1> QED BY <1>1, <1>2 DEF Publishing

\* A logout goes on from what its first call found.
LEMMA LogoutsMove ==
  ASSUME IndInv, [Next]_vars, NEW p \in Procs, pc'[p] \in LogoutPCs, req'[p].went = "found"
  PROVE  \/ /\ pc[p] \in LogoutPCs /\ req[p].went = "found"
            /\ req'[p].tok = req[p].tok /\ req'[p].new = req[p].new
         \/ \E t \in held : LogoutConsume(p, t) /\ Live(t) /\ req'[p] = BeginLogout(t, claims[t].pred, "found")
                            /\ LoseRecord(t)
<1> DEFINE Goal == \/ /\ pc[p] \in LogoutPCs /\ req[p].went = "found"
                      /\ req'[p].tok = req[p].tok /\ req'[p].new = req[p].new
                   \/ \E t \in held : LogoutConsume(p, t) /\ Live(t)
                            /\ req'[p] = BeginLogout(t, claims[t].pred, "found") /\ LoseRecord(t)
<1>a. TypeOK
  BY DEF IndInv
<1>1. CASE pc'[p] = pc[p] /\ req'[p] = req[p]
  BY <1>1
<1>2. CASE Tick \/ UNCHANGED vars \/ (\E t \in Tokens : ExpireGrace(t) \/ ExpireTombstone(t))
           \/ \E n \in Tokens, c \in Clients : Login(n, c)
  BY <1>1, <1>2 DEF Tick, ExpireGrace, ExpireTombstone, Login, vars, cacheVars, histVars
<1>3. ASSUME NEW q \in Procs, Redeem(q) \/ Crash(q) \/ (\E u \in held, c \in Clients : RedeemConsume(q, u, c))
      PROVE  Goal
  <2>1. \A r \in Procs \ {q} : pc'[r] = pc[r] /\ req'[r] = req[r]
    BY <1>3, <1>a DEF TypeOK, Redeem, RedeemMark, RedeemValidate, RedeemAuthorise, RedeemCreate,
       RedeemPublish, PublishFailed, RedeemRestoreCheck, RedeemRestore, RedeemClear, RedeemPoll,
       PollResult, PollAgain, Hand, Refuse, ServerError, Goto, Return, Step, Crash, RedeemConsume
  <2>2. pc'[q] \notin LogoutPCs \/ (pc'[q] = pc[q] /\ req'[q] = req[q])
    BY <1>3, <1>a DEF TypeOK, Redeem, RedeemMark, RedeemValidate, RedeemAuthorise, RedeemCreate,
       RedeemPublish, PublishFailed, RedeemRestoreCheck, RedeemRestore, RedeemClear, RedeemPoll,
       PollResult, PollAgain, Hand, Refuse, ServerError, Goto, Return, Step, Crash, RedeemConsume, LogoutPCs
  <2> QED BY <1>1, <2>1, <2>2
<1>4. ASSUME NEW q \in Procs, Logout(q) PROVE Goal
  <2>1. CASE q # p
    BY <1>1, <1>4, <1>a, <2>1 DEF Logout, LogoutTombstone, LogoutGrace, LogoutPred, LogoutDone, Return, Step, TypeOK
  <2>2. CASE q = p /\ LogoutTombstone(p)
    BY <1>a, <2>2 DEF LogoutTombstone, Partial, Step, TypeOK, LogoutPCs, ReqRec
  <2>3. CASE q = p /\ LogoutGrace(p)
    <3>1. pc'[p] # "idle"
      BY DEF LogoutPCs
    <3>2. PICK went \in Wents : LogoutDelete(req[p].tok, req[p].went, went) /\ Step(p, "logoutPred")
                                 /\ req' = [req EXCEPT ![p].went = went]
      BY <1>a, <2>3, <3>1 DEF LogoutGrace, LogoutDone, Return, Step, TypeOK
    <3>3. went = "found" /\ req'[p].tok = req[p].tok /\ req'[p].new = req[p].new
      BY <1>a, <3>2 DEF TypeOK, ReqRec
    <3>4. req[p].went = "found"
      BY <3>2, <3>3 DEF LogoutDelete, Partial
    <3> QED BY <2>3, <3>3, <3>4 DEF LogoutGrace, LogoutPCs
  <2>4. CASE q = p /\ LogoutPred(p)
    BY <1>a, <2>4 DEF LogoutPred, LogoutDone, Return, Step, TypeOK, LogoutPCs
  <2> QED BY <1>4, <2>1, <2>2, <2>3, <2>4 DEF Logout
<1>5. ASSUME NEW q \in Procs, NEW t \in held, LogoutConsume(q, t) PROVE Goal
  <2>1. CASE q # p
    BY <1>1, <1>5, <1>a, <2>1 DEF LogoutConsume, Step, TypeOK
  <2>2. CASE q = p
    <3>1. PICK pred, went : req' = [req EXCEPT ![p] = BeginLogout(t, pred, went)] /\
                  (went = "found" => Live(t) /\ LoseRecord(t) /\ pred = claims[t].pred)
      BY <1>5, <2>2 DEF LogoutConsume
    <3>2. req'[p] = BeginLogout(t, pred, went) /\ went = "found"
      BY <1>a, <3>1 DEF TypeOK, BeginLogout
    <3> QED BY <1>5, <2>2, <3>1, <3>2
  <2> QED BY <2>1, <2>2
<1> QED BY <1>2, <1>3, <1>4, <1>5 DEF Next

LEMMA EndingStep ==
  ASSUME IndInv, Lasting, Spent, Ending, [Next]_vars
  PROVE  Ending'
<1> SUFFICES ASSUME NEW p \in Procs, pc'[p] \in LogoutPCs, req'[p].went = "found"
             PROVE  Last(req[p].tok)' /\ req'[p].new = claims'[req'[p].tok].pred
  BY DEF Ending
<1>1. CASE /\ pc[p] \in LogoutPCs /\ req[p].went = "found"
           /\ req'[p].tok = req[p].tok /\ req'[p].new = req[p].new
  <2>1. PICK t \in Tokens : t = req[p].tok
    BY <1>1, RequestTypes DEF LogoutPCs
  <2>2. Last(t) /\ req[p].new = claims[t].pred
    BY <1>1, <2>1 DEF Ending
  <2>3. Last(t)' /\ claims'[t] = claims[t]
    BY <2>2, LastKept
  <2> QED BY <1>1, <2>1, <2>2, <2>3 DEF Last, Succeeds
<1>2. ASSUME NEW t \in held, LogoutConsume(p, t), Live(t), req'[p] = BeginLogout(t, claims[t].pred, "found"),
             LoseRecord(t)
      PROVE  Last(req[p].tok)' /\ req'[p].new = claims'[req'[p].tok].pred
  <2>1. t \in Tokens /\ t \notin orphan /\ store[t] # 0
    BY <1>2, HeldTypes DEF IndInv, Wellformed, Live, TypeOK
  <2>2. UNCHANGED <<held, root, claims, orphan>> /\ root[t] \in closed'
    BY <1>2, <2>1 DEF LogoutConsume, LoseRecord, Closed
  <2>3. \A n \in Tokens : ~Succeeds(n, t)
    BY <2>1 DEF Spent, Stored
  <2>4. req'[p].tok = t /\ req'[p].new = claims[t].pred
    BY <1>2 DEF BeginLogout
  <2> QED BY <2>1, <2>2, <2>3, <2>4 DEF Last, Succeeds
<1> QED BY <1>1, <1>2, LogoutsMove

\* A session becomes ended at the last call of a logout that found it, which
\* deletes the predecessor's grace record if there is one.
LEMMA EndedGrows ==
  ASSUME IndInv, Ending, [Next]_vars, NEW t \in ended', t \notin ended
  PROVE  /\ t \in Tokens /\ Last(t) /\ (claims[t].pred # NoToken => ~IsResult(claims[t].pred)')
<1>a. TypeOK
  BY DEF IndInv
<1>1. ~(\/ Tick \/ UNCHANGED vars \/ (\E u \in Tokens : ExpireGrace(u) \/ ExpireTombstone(u))
        \/ \E n \in Tokens, c \in Clients : Login(n, c))
  BY DEF Tick, ExpireGrace, ExpireTombstone, Login, vars, histVars
<1>2. ASSUME NEW q \in Procs,
             \/ Redeem(q) \/ Crash(q) \/ LogoutTombstone(q)
             \/ \E u \in held : (\E c \in Clients : RedeemConsume(q, u, c)) \/ LogoutConsume(q, u)
      PROVE  FALSE
  BY <1>2 DEF Redeem, RedeemMark, RedeemValidate, RedeemAuthorise, RedeemCreate,
       RedeemPublish, RedeemRestoreCheck, RedeemRestore, RedeemClear, RedeemPoll,
       Crash, RedeemConsume, LogoutConsume, LogoutTombstone, histVars
<1>3. ASSUME NEW q \in Procs, LogoutGrace(q) \/ LogoutPred(q)
      PROVE  /\ t \in Tokens /\ Last(t) /\ (claims[t].pred # NoToken => ~IsResult(claims[t].pred)')
  <2>0. pc[q] \in LogoutPCs /\ req[q].tok \in Tokens
    BY <1>3, RequestTypes DEF LogoutGrace, LogoutPred, LogoutPCs
  <2>1. PICK u \in Tokens : u = req[q].tok
    BY <2>0
  <2>2. CASE LogoutGrace(q)
    <3>1. PICK went \in Wents : /\ LogoutDelete(u, req[q].went, went)
                                /\ IF HasPredecessor(req[q])
                                    THEN UNCHANGED ended
                                    ELSE LogoutDone(q, went)
      BY <2>1, <2>2 DEF LogoutGrace
    <3>2. ~HasPredecessor(req[q]) /\ went = "found" /\ t = u
      BY <2>1, <3>1 DEF LogoutDone
    <3>3. req[q].went = "found"
      BY <3>1, <3>2 DEF LogoutDelete, Partial
    <3>4. Last(u) /\ claims[u].pred = NoToken
      BY <2>0, <2>1, <3>2, <3>3 DEF Ending, HasPredecessor
    <3> QED BY <3>2, <3>4
  <2>3. CASE LogoutPred(q)
    <3>1. PICK went \in Wents : LogoutDelete(req[q].new, req[q].went, went) /\ LogoutDone(q, went)
      BY <2>3 DEF LogoutPred
    <3>2. went = "found" /\ t = u
      BY <2>1, <3>1 DEF LogoutDone
    <3>3. req[q].went = "found" /\ grace' = [grace EXCEPT ![req[q].new] = NoGrace]
      BY <3>1, <3>2 DEF LogoutDelete, Partial
    <3>4. Last(u) /\ claims[u].pred = req[q].new /\ req[q].new \in Tokens /\ UNCHANGED claims
      BY <2>0, <2>1, <2>3, <3>3 DEF Ending, LogoutPred, IndInv, RequestsOK, RequestOK
    <3>5. ~IsResult(claims[u].pred)'
      BY <1>a, <3>3, <3>4 DEF IsResult, NoGrace, TypeOK
    <3> QED BY <3>2, <3>4, <3>5
  <2> QED BY <1>3, <2>2, <2>3
<1> QED BY <1>1, <1>2, <1>3 DEF Next, Logout

LEMMA EndedStep ==
  ASSUME IndInv, Lasting, Spent, FinalInv, [Next]_vars
  PROVE  EndedClean'
<1> USE DEF FinalInv
<1> SUFFICES ASSUME NEW t \in ended'
             PROVE  Last(t)' /\ (claims'[t].pred # NoToken => ~IsResult(claims[t].pred)')
  BY DEF EndedClean
<1>a. t \in Tokens /\ Last(t)
  BY EndedGrows DEF EndedClean, IndInv, TypeOK
<1>b. Last(t)' /\ claims'[t] = claims[t]
  BY <1>a, LastKept
<1>1. CASE t \notin ended
  BY <1>1, <1>b, EndedGrows
<1>2. CASE t \in ended
  <2> SUFFICES ASSUME claims[t].pred # NoToken, IsResult(claims[t].pred)' PROVE FALSE
    BY <1>b
  <2>1. claims[t].pred \in Tokens /\ t \notin orphan /\ t \in held
    BY <1>a, HeldTypes DEF Last, IndInv, Wellformed
  <2>2. PICK u \in Tokens : u = claims[t].pred
    BY <2>1
  <2>3. ~IsResult(u) /\ IsResult(u)'
    BY <1>2, <1>b, <2>2 DEF EndedClean, IsResult
  <2>4. PICK p \in Procs : pc[p] = "publish" /\ req[p].tok = u
    BY <2>3, ResultsAppear
  <2>5. Succeeds(req[p].new, u) /\ Succeeds(t, u) /\ req[p].new \in Tokens
    BY <2>1, <2>2, <2>4 DEF IndInv, RequestsOK, RequestOK, Succeeds
  <2>6. req[p].new = t
    BY <1>a, <2>5 DEF Spent
  <2> QED BY <2>1, <2>4, <2>6 DEF Publishing
<1> QED BY <1>1, <1>2

LEMMA FinalInvariant == Spec => []FinalInv
<1>1. Init => FinalInv
  BY DEF Init, FinalInv, Publishing, Unpublished, Ending, EndedClean, LogoutPCs
<1>2. IndInv /\ Lasting /\ Spent /\ FinalInv /\ [Next]_vars => FinalInv'
  BY PublishingStep, EndingStep, EndedStep DEF FinalInv
<1> QED BY <1>1, <1>2, Inductive, LastingInvariant, SpentInvariant, PTL DEF Spec

\* A logout that found the record and whose deletes succeeded is final: no
\* restore, rotation or publication still in flight brings the token back, and
\* neither its own nor its predecessor's grace record replays a result
\* (RevokeRefreshToken).
THEOREM CompleteLogoutIsFinal == Spec => []EndedIsFinal
<1>1. IndInv /\ FinalInv => EndedIsFinal
  <2> SUFFICES ASSUME IndInv, FinalInv, NEW t \in ended
               PROVE  /\ ~Stored(t) /\ \A p \in Procs : ~Carried(p, t)
                      /\ ~IsResult(t)
                      /\ claims[t].pred # NoToken => ~IsResult(claims[t].pred)
    BY DEF EndedIsFinal
  <2>1. t \in Tokens /\ Last(t) /\ (claims[t].pred # NoToken => ~IsResult(claims[t].pred))
    BY DEF IndInv, TypeOK, FinalInv, EndedClean
  <2>2. ~Stored(t) /\ \A p \in Procs : ~Carried(p, t)
    BY <2>1 DEF IndInv, ClosedStaysClosed, Last
  <2>3. ~IsResult(t)
    <3> SUFFICES ASSUME IsResult(t) PROVE FALSE
      OBVIOUS
    <3>1. grace[t].token \in Tokens
      BY <2>1 DEF IndInv, TypeOK, IsResult, GraceRec, NoGrace
    <3> QED BY <2>1, <3>1 DEF IndInv, ResultsOK, Last, Succeeds
  <2> QED BY <2>1, <2>2, <2>3
<1> QED BY <1>1, Inductive, FinalInvariant, PTL

=============================================================================
