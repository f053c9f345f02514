---------------------------- MODULE MCRevocation ----------------------------
(* Instances of Revocation for TLC.                                        *)
EXTENDS Revocation, TLC

CONSTANTS r1, r2, r3, o1

\* Two replicas one tick apart revoke a key and its subject; time reaches the
\* horizon.
Skewed == [replicas |-> {r1, r2}, old |-> {}, maxTime |-> 2, maxLag |-> 1, horizon |-> 2,
           maxTTL |-> 1, ttls |-> {1}, sessionTTL |-> 1, maxTokens |-> 0,
           sweepsFail |-> FALSE, swept |-> TRUE, maxGen |-> 0]

\* The same replicas, and a session that mints a key while they revoke.
Signing == [Skewed EXCEPT !.horizon = 3, !.sessionTTL = 2, !.maxTokens = 1]

\* A rolling upgrade and two reconfigurations, and sweeps that fail.
Upgrading == [replicas |-> {r3}, old |-> {o1}, maxTime |-> 1, maxLag |-> 0, horizon |-> 9,
              maxTTL |-> 8, ttls |-> {8}, sessionTTL |-> 2, maxTokens |-> 0,
              sweepsFail |-> TRUE, swept |-> FALSE, maxGen |-> 2]

SkewAndUpgrade == {Skewed, Signing, Upgrading}

\* For the claims that fail: a host without a maximum lifetime, and two
\* replicas that mint and revoke.
Unbounded == {[Skewed EXCEPT !.replicas = {r1}, !.maxTime = 3, !.maxTTL = 0, !.ttls = {1, 3}]}
Minting == {[Skewed EXCEPT !.maxTime = 3, !.maxLag = 0, !.sessionTTL = 2, !.maxTokens = 2]}

\* Replicas running this code are interchangeable.
Symmetry == Permutations({r1, r2})
=============================================================================
