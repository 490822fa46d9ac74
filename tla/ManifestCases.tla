---------------------------- MODULE ManifestCases ----------------------------
\* The plugin files, agent descriptors and manifests DeriveManifest is checked
\* with: one plugin per kind of server, relay, volume and mistake; then every
\* manifest that varies the sections one group at a time.
EXTENDS Sequences, TLC

CONSTANTS a1, a2, a3, k1, k2, src, gone, d1, d2, nh, cli, None

Doc == [legal |-> TRUE, slots |-> {}, servers |-> <<>>, install |-> FALSE, volumes |-> <<>>,
        services |-> {}, setup |-> FALSE, port |-> None, relay |-> None, egress |-> <<>>]
Srv(k, r, t, d) == [kind |-> k, requires |-> r, takesPort |-> t, dials |-> d]
Home(p) == <<"home", "coder">> \o p
MCPlugin ==
  [keyed   |-> [Doc EXCEPT !.slots = {k1}, !.servers = "s1" :> Srv("remote", {k1}, FALSE, None), !.egress = <<d1>>, !.setup = TRUE],
   local   |-> [Doc EXCEPT !.slots = {k2}, !.servers = "s2" :> Srv("local", {}, FALSE, None), !.install = TRUE, !.services = {"svc"}],
   same    |-> [Doc EXCEPT !.servers = "s1" :> Srv("base", {}, FALSE, None)],
   hosted  |-> [Doc EXCEPT !.servers = "s3" :> Srv("remote", {}, TRUE, None), !.port = 8815, !.relay = "open"],
   bridge  |-> [Doc EXCEPT !.servers = "s4" :> Srv("base", {}, TRUE, None), !.port = 8815, !.relay = "policy"],
   blind   |-> [Doc EXCEPT !.servers = "s5" :> Srv("base", {}, FALSE, 8817), !.port = 8817, !.relay = "policy"],
   undeclared |-> [Doc EXCEPT !.servers = "s6" :> Srv("remote", {}, TRUE, None)],
   unbaked |-> [Doc EXCEPT !.servers = "s7" :> Srv("local", {}, FALSE, None)],
   cache   |-> [Doc EXCEPT !.volumes = "c" :> Home(<<".cache">>), !.services = {"svc"}],
   nested  |-> [Doc EXCEPT !.volumes = "n" :> Home(<<".cache", "x">>), !.egress = <<d1, d2>>],
   parent  |-> [Doc EXCEPT !.volumes = "p" :> Home(<<".config">>)],
   above   |-> [Doc EXCEPT !.volumes = "h" :> <<"home">>],
   agents  |-> [Doc EXCEPT !.volumes = "g" :> Home(<<".a1", "x">>)],
   illegal |-> [Doc EXCEPT !.legal = FALSE],
   broken  |-> None]
MCAgent == (a1 :> [mcp |-> TRUE, state |-> "a1-auth" :> Home(<<".a1">>), egress |-> <<d2>>])
        @@ (a2 :> [mcp |-> TRUE, state |-> <<>>, egress |-> <<>>])
        @@ (a3 :> [mcp |-> FALSE, state |-> <<>>, egress |-> <<d1>>])
MCRefOf == [r1 |-> [plugin |-> "keyed", agent |-> a1, slot |-> k1, source |-> src],
            r2 |-> [plugin |-> "keyed", agent |-> a2, slot |-> k1, source |-> gone],
            r3 |-> [plugin |-> "keyed", agent |-> None, slot |-> k1, source |-> src]]
MCOrder == <<a1, a2, a3>>
MCRoot == Home(<<>>)
MCStatic == {<<"workspace">>, Home(<<".config", "gh">>), Home(<<".agent-keys">>)}
Base == [repos |-> <<>>, gitHosts |-> {cli}, agents |-> None, plugins |-> <<>>, caps |-> {},
         refs |-> <<>>, ports |-> <<>>, remote |-> [tmux |-> None, shell |-> None, notify |-> FALSE],
         common |-> <<>>, overrides |-> <<>>, egress |-> <<>>, ntfy |-> None]
Repo(n, s, h) == [name |-> n, scheme |-> s, host |-> h]
Repos0 == {Repo("r", "https", "f"), Repo("r", "ssh", None), Repo("q", "https", "f"), Repo("q", "http", "f")}
UpTo2(S) == {<<>>} \cup {<<x>> : x \in S} \cup {<<x, y>> : x \in S, y \in S}
Over == [agent : {a1, a2, a3}, slot : {k1, k2}, source : {src, gone, None}]
Commons == {<<>>, k1 :> src, k1 :> gone, (k1 :> src) @@ (k2 :> src)}
MCManifests ==
  {[Base EXCEPT !.repos = r] : r \in UpTo2(Repos0)} \cup
  {[Base EXCEPT !.plugins = p, !.caps = c, !.ports = o] : p \in UpTo2(DOMAIN MCPlugin \cup {"nofile"}),
      c \in {{}, {"hosted"}}, o \in {<<>>, "hosted" :> 9000, "keyed" :> 9000}} \cup
  {[Base EXCEPT !.plugins = <<"keyed", "local">>, !.agents = a, !.common = c, !.overrides = o, !.refs = r] :
      a \in {None, <<a1>>, <<a2, a3, a1, a2>>, <<>>}, c \in Commons, o \in UpTo2(Over), r \in {<<>>, <<"r1">>}} \cup
  {[Base EXCEPT !.refs = <<r>>] : r \in DOMAIN MCRefOf} \cup
  {[Base EXCEPT !.remote = [tmux |-> t, shell |-> s, notify |-> n], !.ntfy = h] :
      t \in {None, "true", "false"}, s \in {None, "herdr", "bash", "zsh"}, n \in BOOLEAN,
      h \in {None, [host |-> nh, ip |-> TRUE], [host |-> nh, ip |-> FALSE]}}
=============================================================================
