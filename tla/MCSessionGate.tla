---------------------------- MODULE MCSessionGate ----------------------------
\* Instances of SessionGate for TLC.
EXTENDS SessionGate, TLC

OnTwoPods == [p1 |-> "A", p2 |-> "A", p3 |-> "B"]

NoWant == [ents |-> {}, uses |-> 0, url |-> FALSE]

Ask(cred, of, op) == [cred |-> cred, of |-> of, op |-> op, want |-> NoWant]
MintAsk(cred, of, ents, uses, url) ==
    [cred |-> cred, of |-> of, op |-> "mint", want |-> [ents |-> ents, uses |-> uses, url |-> url]]

User(bind, refresh) == [kind |-> "User", bind |-> bind, refresh |-> refresh]

\* The person's memberships shrink and grow; the roles bound to the person
\* and to the two addresses differ.
Base == [shared |-> TRUE, faults |-> {}, behind |-> FALSE, maxTime |-> 1,
         roles |-> ("sub" :> {"write"}) @@ ("old@" :> {"write"}) @@ ("new@" :> {"write", "admin"}),
         backend |-> <<{"read"}, {}, {"read", "admin"}>>, destructive |-> {"admin"},
         tokenTTL |-> 9, nearExpiry |-> 1, clients |-> {}, edits |-> 0,
         sessions |-> [s1 |-> User("sub", FALSE), s2 |-> User("sub", FALSE)],
         pat |-> [kind |-> "User", iat |-> 1],
         asks |-> [p \in Callers |-> <<>>]]

Reads(cred, s, n) == [i \in 1 .. n |-> Ask(cred, s, "read")]

\* Two replicas write memberships while others keep asking.
Writing == [Base EXCEPT !.faults = {"bump", "get"},
              !.asks = [p1 |-> <<Ask("cookie", "s1", "write"), Ask("cookie", "s1", "read")>>,
                        p2 |-> Reads("cookie", "s2", 2),
                        p3 |-> <<Ask("cookie", "s1", "write")>>]]

\* The backend and the cache fail under a fan-out of one session.
Failing == [Base EXCEPT !.faults = {"resolve", "set", "upstream"},
              !.asks = [p1 |-> <<Ask("cookie", "s1", "write"), Ask("pat", "s1", "read")>>,
                        p2 |-> Reads("cookie", "s1", 1),
                        p3 |-> Reads("cookie", "s2", 1) \o Reads("pat", "s2", 1)]]

\* Memberships change behind the proxy's back while grants age in the caches.
Aging(shared, first, second) == [Base EXCEPT !.shared = shared, !.behind = TRUE, !.maxTime = 5,
              !.asks = [p1 |-> first, p2 |-> <<>>, p3 |-> second]]

\* Tokens expire and are redeemed.
Expiring == [Base EXCEPT !.tokenTTL = 2, !.nearExpiry = 2, !.maxTime = 4, !.edits = 1,
              !.sessions = [s1 |-> User("sub", TRUE), s2 |-> User("sub", FALSE)],
              !.asks = [p1 |-> Reads("cookie", "s1", 2), p2 |-> Reads("bearer", "s2", 1),
                        p3 |-> Reads("cookie", "s2", 1)]]

\* Sessions of every kind, while clients of the same name come and go.
Kinds(k) == [Base EXCEPT !.edits = 2, !.maxTime = 2,
              !.sessions = [s1 |-> [kind |-> k, bind |-> "sub", refresh |-> FALSE],
                            s2 |-> User("old@", FALSE)],
              !.asks = [p1 |-> Reads("cookie", "s1", 1), p2 |-> Reads("bearer", "s1", 1),
                        p3 |-> Reads("cookie", "s2", 1)]]

\* Capabilities: minted, spent by two callers at once, minted from in turn.
Capable(cred, url) == [Base EXCEPT !.edits = 1, !.maxTime = 2, !.faults = {"set", "spend"},
              !.asks = [p1 |-> <<MintAsk("bearer", "s1", {"read"}, 2, url), Ask(cred, "s1", "read"), Ask(cred, "s1", "read")>>,
                        p2 |-> <<Ask(cred, "s1", "write"), Ask(cred, "s1", "read")>>,
                        p3 |-> <<MintAsk(cred, "s1", {"read"}, 3, url)>>]]

GateScenarios ==
    {Writing, Failing, Expiring,
     Aging(TRUE, Reads("cookie", "s1", 3), <<>>),
     Aging(FALSE, Reads("cookie", "s1", 1), Reads("cookie", "s1", 1) \o Reads("pat", "s1", 1)),
     Aging(TRUE, Reads("pat", "s1", 1), Reads("pat", "s1", 1))}
    \cup {Kinds(k) : k \in {"User", "Client", "", "cc", "Robot"}}
    \cup {Capable("link", TRUE), Capable("cap", FALSE), Capable("capcookie", FALSE)}

\* Two sessions of one person, logged in under two addresses.
TwoAddresses == {[Base EXCEPT
    !.sessions = [s1 |-> User("old@", FALSE), s2 |-> User("new@", FALSE)],
    !.asks = [p1 |-> Reads("cookie", "s1", 1), p2 |-> Reads("cookie", "s2", 1), p3 |-> <<>>]]}
==============================================================================
