-------------------------- MODULE SingleUseSession --------------------------
(***************************************************************************)
(* What refresh-token rotation promises, without caches, markers or        *)
(* requests: a login starts a lineage of single-use credentials.  The one  *)
(* live credential of a lineage can be taken by one redemption at a time,  *)
(* which rotates it into a fresh successor, puts it back or ends the       *)
(* lineage; callers are only ever given the successor of what they         *)
(* presented.  RefreshRotation implements this specification.              *)
(***************************************************************************)
CONSTANTS Tokens, NoToken

VARIABLES
  root,    \* the lineage a token belongs to: the token its login issued
  live,    \* credentials that can be redeemed
  taken,   \* credentials a redemption holds
  over,    \* lineages that ended
  succ,    \* <<t, n>>: t was rotated into n
  given    \* <<t, n>>: a caller presenting t was answered with n

vars == <<root, live, taken, over, succ, given>>

Init ==
  /\ root = [t \in Tokens |-> NoToken]
  /\ live = {} /\ taken = {} /\ over = {} /\ succ = {} /\ given = {}

Issue(t) ==
  /\ root[t] = NoToken
  /\ root' = [root EXCEPT ![t] = t]
  /\ live' = live \cup {t}
  /\ UNCHANGED <<taken, over, succ, given>>

Take(t) ==
  /\ t \in live
  /\ live' = live \ {t} /\ taken' = taken \cup {t}
  /\ UNCHANGED <<root, over, succ, given>>

Rotate(t, n) ==
  /\ t \in taken /\ root[n] = NoToken
  /\ root' = [root EXCEPT ![n] = root[t]]
  /\ taken' = taken \ {t} /\ live' = live \cup {n}
  /\ succ' = succ \cup {<<t, n>>}
  /\ UNCHANGED <<over, given>>

PutBack(t) ==
  /\ t \in taken
  /\ taken' = taken \ {t} /\ live' = live \cup {t}
  /\ UNCHANGED <<root, over, succ, given>>

End(t) ==
  /\ t \in live \cup taken
  /\ live' = live \ {t} /\ taken' = taken \ {t}
  /\ over' = over \cup {root[t]}
  /\ UNCHANGED <<root, succ, given>>

Give(t, n) ==
  /\ <<t, n>> \in succ
  /\ given' = given \cup {<<t, n>>}
  /\ UNCHANGED <<root, live, taken, over, succ>>

Next ==
  \/ \E t \in Tokens : Issue(t) \/ Take(t) \/ PutBack(t) \/ End(t)
  \/ \E t, n \in Tokens : Rotate(t, n) \/ Give(t, n)

Spec == Init /\ [][Next]_vars

-----------------------------------------------------------------------------
(* What follows from it                                                    *)

\* A credential is live, taken by one redemption, or gone; each is rotated at
\* most once and not while it can still be redeemed; and a lineage that did
\* not end still has a credential.
Conserved ==
  \A t \in Tokens : root[t] # NoToken /\ root[t] \notin over =>
     \E u \in live \cup taken : root[u] = root[t]
RotatedOnce ==
  \A t, n \in Tokens : <<t, n>> \in succ =>
     /\ t \notin live \cup taken
     /\ \A m \in Tokens : <<t, m>> \in succ => m = n
Issued ==
  /\ root \in [Tokens -> Tokens \cup {NoToken}]
  /\ live \subseteq Tokens /\ taken \subseteq Tokens /\ live \cap taken = {}
  /\ \A t \in live \cup taken : root[t] # NoToken
  /\ \A t, n \in Tokens : <<t, n>> \in succ => root[t] # NoToken
Sound == Issued /\ RotatedOnce /\ Conserved
=============================================================================
