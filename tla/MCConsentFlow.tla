----------------------------- MODULE MCConsentFlow -----------------------------
\* Instances of ConsentFlow for TLC.
EXTENDS ConsentFlow, TLC

CONSTANTS c1, c2, r1, r2, p1, p2

Plain == [width |-> 2, redirects |-> {r1}, scopes |-> {}, policies |-> {{r1}}, prompts |-> {{}},
          faults |-> FALSE, until |-> 1]

\* Two handlers in flight, failing caches and time; and one handler at a time
\* with every prompt, a scope, two redirects and a policy that tightens.
Using    == [Plain EXCEPT !.faults = TRUE, !.until = 2]
Shifting == [Plain EXCEPT !.width = 1, !.redirects = {r1, r2}, !.scopes = {"sc"},
                          !.policies = {{r1, r2}, {r2}}, !.until = 0,
                          !.prompts = {{}, {"none"}, {"login"}, {"consent"}}]
UseAndPolicy == {Using, Shifting}

\* For the claims that fail.
Prompting == {[Plain EXCEPT !.prompts = {{}, {"none"}, {"login"}, {"consent"}}, !.until = 5]}
Closing   == {[Plain EXCEPT !.policies = {{r1}, {}}]}

\* Requests, clients and users are interchangeable.
Interchangeable == Permutations(Requests) \cup Permutations(Clients) \cup Permutations(Subjects)
================================================================================
