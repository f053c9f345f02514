--------------------------- MODULE MCHostHandler ---------------------------
(* Small deployments for HostHandler.                                      *)
EXTENDS HostHandler, TLC

Seg(s) == Path(<<s>>, FALSE)
MCBasePaths == <<Path(<<>>, TRUE), Seg("a"), Path(<<"a">>, TRUE), Path(<<"a", "b">>, FALSE), Seg("b"),
                 Path(<<"fr", "a">>, FALSE), Seg("go")>>
MCLanguages == <<"en", "fr">>

PageAt(name, base) ==
    [name |-> name, base |-> base, pattern |-> NoPath, label |-> name, parent |-> Root,
     mode |-> "html", localized |-> TRUE, weight |-> 0, security |-> NoPath,
     target |-> NoPath, tmpl |-> NoPath, reads |-> FALSE]

PlainHost == [features |-> {"auth", "checker", "keys"}, security |-> {}, landing |-> <<>>,
              loginPage |-> FALSE, forbid |-> FALSE]

MCCallers == {[ents |-> {}, signedIn |-> FALSE, html |-> TRUE],
              [ents |-> {}, signedIn |-> TRUE, html |-> TRUE],
              [ents |-> {"e"}, signedIn |-> TRUE, html |-> TRUE]}

Ask(kind, page) == [kind |-> kind, page |-> page]
TextPage(name, base) == [PageAt(name, base) EXCEPT !.mode = "text", !.reads = TRUE]

Running(pages, who, edits, asks, requests) ==
    [names |-> {p.name : p \in pages}, pages |-> pages, functions |-> {}, host |-> PlainHost,
     started |-> TRUE, fresh |-> {}, who |-> who, edits |-> edits, asks |-> asks, requests |-> requests,
     variants |-> {[PageAt(1, Seg("a")) EXCEPT !.label = 9]}]

\* A page whose label may change while a text page that lists the tree is asked
\* for and the caches cycle.
Listing == Running({PageAt(1, Seg("a")), TextPage(2, Seg("b"))}, {"page", "host"}, 2,
                   {Ask("page", 2)}, 2)

\* A page asked for while it changes.
Changing == Running({PageAt(1, Seg("a"))}, {"page", "remove"}, 2, {Ask("page", 1)}, 2)

\* A page and a translation edit rebuild at once with the host reconciles they
\* queue, around one navigation request.
Racing == Running({PageAt(1, Seg("a"))}, {"page", "remove", "resource"}, 2, {Ask("nav", 1)}, 1)

\* A page and its alias, asked for while a writer waits.
Aliased == Running({PageAt(1, Seg("a")),
                    [PageAt(3, Path(<<>>, TRUE)) EXCEPT !.mode = "rewrite",
                        !.target = [kind |-> "KDexPage", name |-> 1]]},
                   {"resource"}, 1, {Ask("page", 1), Ask("page", 3)}, 2)

Fn(base) == [name |-> 9, base |-> base, ready |-> TRUE, internal |-> FALSE, builds |-> TRUE]

\* A function that an alias targets comes and goes while the tree is rendered.
Flapping == [Running({PageAt(1, Seg("a")),
                      [PageAt(3, Seg("go")) EXCEPT !.mode = "rewrite",
                          !.target = [kind |-> "KDexFunction", name |-> 9]]},
                     {"function"}, 2, {Ask("nav", 1)}, 2) EXCEPT !.functions = {Fn(Seg("b"))}]

\* A pod that starts without a host.
Cold == [Running({PageAt(1, Seg("a"))}, {"page", "remove"}, 1, {}, 0) EXCEPT !.started = FALSE]

Get(segs) == Pattern("GET", segs, "exact")
Gated == {"e"}

\* The first page: plain, gated, below a wildcard, with a literal pattern on
\* the second one's path, or without language routes.
Firsts == {PageAt(1, Seg("a")),
           [PageAt(1, Seg("a")) EXCEPT !.pattern = Get(<<"a", "{x}">>)],
           [PageAt(1, Seg("a")) EXCEPT !.pattern = Get(<<"b">>), !.security = Gated, !.weight = 1],
           [PageAt(1, Seg("a")) EXCEPT !.security = Gated, !.label = 2],
           [PageAt(1, Seg("a")) EXCEPT !.localized = FALSE],
           PageAt(1, Path(<<"a">>, TRUE))}

\* The second: on every path that may collide with the first one's routes.
Seconds == {PageAt(2, base) : base \in Range(MCBasePaths) \ {Seg("go")}}
           \cup {[PageAt(2, Seg("b")) EXCEPT !.parent = 1],
                 [PageAt(2, Seg("b")) EXCEPT !.pattern = Get(<<"{y}", "b">>)],
                 [PageAt(2, Seg("b")) EXCEPT !.security = {Unbindable}],
                 [PageAt(2, Path(<<"fr", "a">>, FALSE)) EXCEPT !.security = Gated],
                 TextPage(2, Seg("b"))}

AliasTo(kind, name, tmpl) ==
    [PageAt(3, Seg("go")) EXCEPT !.mode = "rewrite", !.target = [kind |-> kind, name |-> name],
        !.tmpl = tmpl, !.pattern = IF tmpl = NoPath THEN NoPath ELSE Get(<<"go", "{x}">>)]

Aliases == {AliasTo("KDexPage", 1, NoPath), AliasTo("KDexPage", 1, <<"{x}">>),
            AliasTo("KDexPage", 2, <<"b">>), [AliasTo("KDexPage", 1, NoPath) EXCEPT !.localized = FALSE],
            AliasTo("KDexFunction", 9, <<"{x}">>)}

Hosts == {PlainHost,
          [PlainHost EXCEPT !.landing = <<Seg("b"), Seg("a")>>],
          [PlainHost EXCEPT !.forbid = TRUE, !.security = Gated,
              !.features = {"auth", "checker", "keys", "oidc", "tokens", "mint", "urlDelivery", "sniffer", "dcr"}]}

\* A pod whose page controller has just stored the first page of a page set.
Routed == {[Running({p, q, r}, {}, 0, {}, 0) EXCEPT !.fresh = {p}, !.host = host, !.functions = functions] :
              p \in Firsts, q \in Seconds, r \in Aliases,
              functions \in {{}, {Fn(Seg("f"))}, {Fn(Path(<<"a", "b">>, FALSE))}}, host \in Hosts}

MCScenarios == {Listing, Changing, Racing, Aliased, Flapping, Cold} \cup Routed
=============================================================================
