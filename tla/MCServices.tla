---------------------------- MODULE MCServices ------------------------------
\* The instances that the parts of Services are checked with.
EXTENDS Services

CONSTANTS r1, r2, x1, a1, a2, a3, k1, k2, src, gone, d1, d2, nh, cli

INSTANCE ManifestCases

\* Two requests for one key, one of them open in the legacy log, asked for thrice.
MCLegacy == [id \in {r1, r2} |-> IF id = r1 THEN [key |-> x1, hits |-> 3]
                                           ELSE [key |-> None, hits |-> 0]]

\* Two servers; one or two agents of every kind.
Sh(k, r) == [kind |-> k, requires |-> r]
Ag(r, e) == [role |-> r, envRefs |-> e]
MCShapes == {Sh("local", FALSE), Sh("open", FALSE), Sh("bearer", TRUE), Sh("header", TRUE),
             Sh("bearer+", TRUE), Sh("missing", TRUE)}
MCFleets == {<<Ag("preapprove", "bool")>>, <<Ag("json", "named")>>, <<Ag("json", "bool")>>,
             <<Ag("block", "named"), Ag("json", "none")>>}

\* Two spellings of one host and the CLI host; tokens for one identity and the
\* user.
GitEntry(t, ids) == [token |-> t, identities |-> ids]
GitEntries == {GitEntry(t, ids) : t \in {"v1", "v2", "gh"},
               ids \in {None, {"agent"}, {"user"}, {"agent", "user"}}}
Single(k) ==
    {[key |-> k, form |-> "simple", entries |-> <<GitEntry(t, None)>>] : t \in {"v1", "gh"}}
    \cup {[key |-> k, form |-> "list", entries |-> <<e>>] : e \in GitEntries}
Double(k) == {[key |-> k, form |-> "list", entries |-> <<e, f>>] : e, f \in GitEntries}
MCHost == [k \in {"h1", "H1", "cli"} |-> IF k = "cli" THEN "cli" ELSE "h1"]
MCSections == {<<>>} \cup {<<a>> : a \in Single("cli") \cup Double("cli")}
              \cup {<<a, b>> : a \in Single("h1") \cup Double("h1"), b \in Single("H1")}
              \cup {<<a, b>> : a \in Single("H1"), b \in Single("cli")}
MCLater == {<<>>, <<[key |-> "cli", form |-> "list",
                     entries |-> <<GitEntry("v1", {"agent"}), GitEntry("gh", None)>>]>>}

\* No slots, or two of the agent's, one with the name of a token's variable.
NoSlots == [i \in {"agent", "user"} |-> [v \in {} |-> "v1"]]
MCBindings == {NoSlots, [NoSlots EXCEPT !["agent"] = [v \in {"s1", "v1"} |-> "v2"]]}

MCCaps == <<"hosted">>

\* One descriptor with every way to wire MCP servers, or two that may clash.
Mcp == [config : {<<".mcp.json">>, <<".x", "mcp.json">>}, format : {"json", "toml"},
        dialect : {"", "url", "mcpServers"},
        refs : {"false", "true", "bearer_token_env_var", "url"},
        strategy : {"", "claude_preapprove", "codex_managed_block"}]
Desc(b, s, m, c) == [binary |-> b, state |-> s, mcp |-> m, settings |-> c]
Dir(p, v) == [path |-> p, volume |-> v]
Dirs == {<<>>, <<Dir(<<".c">>, "v")>>, <<Dir(<<".c", "x">>, "v")>>,
         <<Dir(<<".c", "x">>, "w"), Dir(<<".d">>, "w")>>,
         <<Dir(<<".c">>, "w"), Dir(<<".d">>, "u")>>}
MCDescriptors ==
    {<<Desc("b1", <<>>, m, c)>> : m \in Mcp \cup {None}, c \in BOOLEAN}
    \cup {<<Desc("b1", s, None, FALSE), Desc("b2", t, None, FALSE)>> : s, t \in Dirs}
    \cup {<<Desc(b, <<>>, m, FALSE), Desc("b1", <<>>, k, FALSE)>> : b \in {"b1", "b2"},
          m, k \in {x \in Mcp : x.refs \in {"false", "true"} /\ x.dialect # "url"} \cup {None}}

\* Two commands at once; one target inside what is protected, one around it.
MCTargets == {<<"home">>, <<"home", "artifacts", "x">>, <<"out">>}
MCProtected == {<<"home", "artifacts">>, <<"home", "backups">>}

\* Two destinations, and the packets the reader ignores.
Packet(d, p, o, l) == [dest |-> d, parses |-> p, ours |-> o, loopback |-> l]
MCPackets == {Packet("dest1", TRUE, TRUE, FALSE), Packet("dest2", TRUE, TRUE, FALSE),
              Packet("dest1", FALSE, TRUE, FALSE), Packet("dest1", TRUE, FALSE, FALSE),
              Packet("dest2", TRUE, TRUE, TRUE)}
=============================================================================
