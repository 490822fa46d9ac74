---------------------------- MODULE DeriveManifest ----------------------------
(***************************************************************************)
(* What `up' makes of a bottle's manifest (src/src/manifest.py, derive):   *)
(* the plugins and agents it enables, what they may mount, own and reach,  *)
(* the host ports that are opened for them, and which agent gets which     *)
(* secret.  derive is one pass; a stage here is one of its sections, in    *)
(* its order; one that finds an error ends it (Refused, Unfit in a plugin). *)
(*                                                                         *)
(* A secret source, a port, a domain are model values; a container path is *)
(* the sequence of its components.  Checks of one value's spelling (names, *)
(* domains, types) are the field `legal' of a plugin.                      *)
(***************************************************************************)
EXTENDS Naturals, Sequences, FiniteSets, SequencesExt, Functions

CONSTANTS Plugin,      \* the plugin files: name -> what plugin.yml says
          Agent,       \* the agent descriptors: name -> [mcp, state, egress]
          AgentOrder,  \* their names, sorted
          Caps,        \* flags of capabilities: that stand for a plugin, in order
          RefOf,       \* an identity ref -> [plugin, agent, slot, source]
          Present,     \* variables that secrets.env defines
          Root,        \* /home/coder
          StaticMounts,\* mount targets of the static compose file
          StaticNames, \* and its volumes
          Manifests,   \* the manifests to derive
          None

VARIABLES manifest, \* what is read: the manifest, and NTFY_URL of secrets.env
          stage,    \* the next section
          at,       \* in stage "Plugin", the position in the list
          out       \* what has been derived so far

vars == <<manifest, stage, at, out>>

Rng(s) == {s[i] : i \in DOMAIN s}

\* The items of xs that are in S, each once, after those of s.
AddAll(s, xs, S) ==
    LET list[i \in 0 .. Len(xs)] ==
          IF i = 0 THEN s
          ELSE IF xs[i] \in S \ Rng(list[i - 1]) THEN Append(list[i - 1], xs[i])
          ELSE list[i - 1]
    IN list[Len(xs)]

\* Mutant: only a mount around the new one is looked for.
Overlap_Outer(a, b) == IsPrefix(b, a)

\* _path_overlaps: equal, or one is a parent of the other, by components.
Overlap(a, b) == IsPrefix(a, b) \/ IsPrefix(b, a)

-----------------------------------------------------------------------------
\* The agents a manifest enables.  A name without a directory is dropped.
AgentNamed == IF manifest.agents = None THEN AgentOrder ELSE manifest.agents
Enabled == Rng(AgentNamed) \cap DOMAIN Agent
EnabledMcp == {a \in Enabled : Agent[a].mcp}

\* plugins:, with the plugins that capabilities: and identities: stand for.
RefPlugins == [i \in DOMAIN manifest.refs |-> RefOf[manifest.refs[i]].plugin]
Sweetened == AddAll(AddAll(manifest.plugins, Caps, manifest.caps), RefPlugins, Rng(RefPlugins))

\* Every agent's state directories are taken, enabled or not.
AgentNames == UNION {DOMAIN Agent[a].state : a \in DOMAIN Agent}
AgentMounts == UNION {Rng(Agent[a].state) : a \in DOMAIN Agent}
Reserved == StaticMounts \cup AgentMounts

\* Assumed: lists and paths are sequences, and compose mounts something below
\* Root (/home/coder/.agent-keys).
IsList(s) == s \in Seq(Rng(s))
DeriveAssumption ==
    /\ IsList(Root) /\ IsList(Caps) /\ IsList(AgentOrder)
    /\ \A q \in StaticMounts : IsList(q)
    /\ \E q \in StaticMounts : IsPrefix(Root, q)
    /\ \A p \in DOMAIN Plugin : Plugin[p] # None =>
         \A v \in DOMAIN Plugin[p].volumes : IsList(Plugin[p].volumes[v])
    /\ \A m \in Manifests :
         /\ IsList(m.plugins) /\ IsList(m.refs) /\ IsList(m.overrides)
         /\ m.agents # None => IsList(m.agents)

-----------------------------------------------------------------------------
Nothing == [plugins |-> <<>>, origins |-> {}, shell |-> None, notify |-> FALSE,
            bindings |-> <<>>, egress |-> {}, cidrs |-> {},
            slots |-> <<>>, servers |-> <<>>, volumes |-> <<>>, services |-> {},
            setup |-> {}, ports |-> {}, relays |-> {}, secrets |-> <<>>,
            overridden |-> 0, unfilled |-> {}]

Stages == {"Repos", "Plugins", "Ports", "Remote", "Refs", "Plugin", "Secrets",
           "Overrides", "Notify", "Derived", "Refused", "Unfit"}

Init ==
    /\ manifest \in Manifests
    /\ stage = "Repos" /\ at = 1
    /\ out = [Nothing EXCEPT !.egress = Rng(manifest.egress)]

Section(s, ok, next, result) ==
    /\ stage = s
    /\ IF ok THEN stage' = next /\ out' = result
       ELSE stage' = "Refused" /\ UNCHANGED out
    /\ UNCHANGED <<manifest, at>>

\* repos: directory names are distinct, and no URL is http.  Every https
\* origin, every host of git.hosts and the CLI host get the credential router.
Repos ==
    LET r == manifest.repos
    IN Section("Repos",
               /\ \A i \in DOMAIN r : r[i].scheme # "http"
               /\ \A i, j \in DOMAIN r : i # j => r[i].name # r[j].name,
               "Plugins",
               [out EXCEPT !.origins = {r[i].host : i \in {j \in DOMAIN r : r[j].scheme = "https"}}
                                         \cup manifest.gitHosts])

\* Every listed plugin has a file that could be read.
PluginsList ==
    Section("Plugins",
            \A p \in Rng(Sweetened) : p \in DOMAIN Plugin /\ Plugin[p] # None,
            "Ports", [out EXCEPT !.plugins = Sweetened])

\* plugin_ports: names enabled plugins only.
PluginPorts ==
    Section("Ports", DOMAIN manifest.ports \subseteq Rng(out.plugins), "Remote", out)

\* remote: tmux is the old spelling of shell, an explicit false of it meant
\* bash; the default is herdr; bash has no monitor that could notify.
Shell(r) == CASE r.tmux = "true" -> "tmux"
              [] r.tmux = "false" -> "bash"
              [] OTHER -> IF r.shell = None THEN "herdr" ELSE r.shell

NotifyAllowed(r) == r.notify => Shell(r) # "bash"

Remote ==
    LET r == manifest.remote
    IN Section("Remote",
               /\ r.tmux = None \/ r.shell = None
               /\ Shell(r) \in {"tmux", "herdr", "bash"}
               /\ NotifyAllowed(r),
               "Refs", [out EXCEPT !.shell = Shell(r), !.notify = r.notify])

Record(a, s, v) == [agent |-> a, slot |-> s, source |-> v]

\* identities: each ref is a binding of its agent, whose source must be set.
Refs ==
    LET b == [i \in DOMAIN manifest.refs |-> RefOf[manifest.refs[i]]]
    IN Section("Refs", \A i \in DOMAIN b : b[i].agent # None /\ b[i].source \in Present, "Plugin",
               [out EXCEPT !.bindings =
                  [i \in DOMAIN b |-> Record(b[i].agent, b[i].slot, b[i].source)]])

-----------------------------------------------------------------------------
\* One round of the plugin loop.
Port(p) == IF p \in DOMAIN manifest.ports THEN manifest.ports[p] ELSE Plugin[p].port

SlotsOk(doc) == doc.slots \cap DOMAIN out.slots = {}

\* A server is local (a command, perhaps of the base image) or remote; the
\* slots it requires are its plugin's; its name is nobody else's.
ServersOk(doc) ==
    /\ \A n \in DOMAIN doc.servers : doc.servers[n].requires \subseteq doc.slots
    /\ DOMAIN doc.servers \cap DOMAIN out.servers = {}
    /\ doc.install \/ \A n \in DOMAIN doc.servers : doc.servers[n].kind # "local"

\* Volumes are under Root, next to nothing that compose mounts, and neither
\* share a name nor a path with one of an earlier plugin.  They are taken one
\* after the other, so a plugin's own must not collide either.
VolumesOk(doc) ==
    /\ DOMAIN doc.volumes \cap (StaticNames \cup AgentNames \cup DOMAIN out.volumes) = {}
    /\ \A v \in DOMAIN doc.volumes :
         LET path == doc.volumes[v]
         IN /\ Overlap(path, Root) /\ path # Root
            /\ \A q \in Reserved \cup Rng(out.volumes) : ~Overlap(path, q)
            /\ \A w \in DOMAIN doc.volumes \ {v} : ~Overlap(path, doc.volumes[w])

ServicesOk(doc) == doc.services \cap out.services = {}

\* A port of the host is opened only for a server that dials it: a remote one,
\* or a local one that takes the port as ${HOST_PORT}; who opens one says
\* whether the host side enforces the bottle's egress rules.
PortOk(p, doc) ==
    IF doc.port = None
    THEN /\ doc.relay = None /\ p \notin DOMAIN manifest.ports
         /\ \A n \in DOMAIN doc.servers : ~doc.servers[n].takesPort
    ELSE /\ doc.relay \in {"policy", "open"}
         /\ \E n \in DOMAIN doc.servers : doc.servers[n].kind = "remote" \/ doc.servers[n].takesPort

\* Mutant: the override moves the grant and the placeholder keeps the default.
Wired_Default(p, s) == [requires |-> s.requires, plugin |-> p,
                        dials |-> IF s.takesPort THEN Plugin[p].port ELSE s.dials]

Wired(p, s) == [requires |-> s.requires, plugin |-> p,
                dials |-> IF s.takesPort THEN Port(p) ELSE s.dials]

\* f @@ g of module TLC, as a definition the provers can expand.
Joined(f, g) == [x \in DOMAIN f \cup DOMAIN g |-> IF x \in DOMAIN f THEN f[x] ELSE g[x]]

Folded(p, doc) ==
    [out EXCEPT !.egress = @ \cup Rng(doc.egress),
                !.slots = Joined(@, [s \in doc.slots |-> p]),
                !.servers = Joined(@, [n \in DOMAIN doc.servers |-> Wired(p, doc.servers[n])]),
                !.volumes = Joined(@, doc.volumes),
                !.services = @ \cup doc.services,
                !.setup = IF doc.setup THEN @ \cup {p} ELSE @,
                !.ports = IF doc.port = None THEN @ ELSE @ \cup {Port(p)},
                !.relays = IF doc.relay = "open" THEN @ \cup {p} ELSE @]

OnePlugin ==
    /\ stage = "Plugin" /\ at <= Len(out.plugins)
    /\ LET p == out.plugins[at]
           doc == Plugin[p]
       IN IF /\ doc.legal /\ SlotsOk(doc) /\ ServersOk(doc) /\ VolumesOk(doc)
             /\ ServicesOk(doc) /\ PortOk(p, doc)
          THEN out' = Folded(p, doc) /\ at' = at + 1 /\ UNCHANGED stage
          ELSE stage' = "Unfit" /\ UNCHANGED <<out, at>>
    /\ UNCHANGED manifest

\* After the loop the enabled agents' domains are added.
AgentEgress ==
    /\ stage = "Plugin" /\ at > Len(out.plugins)
    /\ stage' = "Secrets"
    /\ out' = [out EXCEPT !.egress = @ \cup UNION {Rng(Agent[a].egress) : a \in Enabled}]
    /\ UNCHANGED <<manifest, at>>

-----------------------------------------------------------------------------
\* common_secrets gives slots a default source, if it is set; agent_secrets
\* and the identity refs replace or disable it for one agent.
Defaults == Restrict(manifest.common,
                     {s \in DOMAIN manifest.common : manifest.common[s] \in Present})
Overrides == out.bindings \o manifest.overrides

\* Mutant: a disabled slot is filled from the default.
Overridden_Bound(a, s) == \E i \in DOMAIN Overrides :
    Overrides[i].agent = a /\ Overrides[i].slot = s /\ Overrides[i].source # None

Overridden(a, s) == \E i \in DOMAIN Overrides : Overrides[i].agent = a /\ Overrides[i].slot = s

Secrets ==
    Section("Secrets", DOMAIN manifest.common \subseteq DOMAIN out.slots, "Overrides",
            [out EXCEPT !.unfilled = DOMAIN Defaults])

\* One record of Overrides: of a known agent and slot, with a source that is
\* set or none, and the only one of its agent for the slot.
OneOverride ==
    /\ stage = "Overrides" /\ out.overridden < Len(Overrides)
    /\ LET i == out.overridden + 1
           r == Overrides[i]
       IN IF /\ r.agent \in {a \in DOMAIN Agent : Agent[a].mcp}
             /\ r.slot \in DOMAIN out.slots /\ r.source \in Present \cup {None}
             /\ \A j \in 1 .. (i - 1) : Overrides[j].agent # r.agent \/ Overrides[j].slot # r.slot
          THEN /\ out' = [out EXCEPT !.overridden = i,
                     !.secrets = IF r.source = None THEN @
                                 ELSE Append(@, Record(r.agent, r.slot, r.source))]
               /\ UNCHANGED stage
          ELSE stage' = "Refused" /\ UNCHANGED out
    /\ UNCHANGED <<manifest, at>>

\* Then the default of one slot after the other, for every enabled agent.
OneDefault ==
    /\ stage = "Overrides" /\ out.overridden = Len(Overrides)
    /\ \E s \in out.unfilled :
         LET due == AddAll(<<>>, AgentNamed, {a \in EnabledMcp : ~Overridden(a, s)})
         IN out' = [out EXCEPT !.unfilled = @ \ {s},
                      !.secrets = @ \o [i \in DOMAIN due |-> Record(due[i], s, Defaults[s])]]
    /\ UNCHANGED <<manifest, stage, at>>

SecretsDone ==
    /\ stage = "Overrides" /\ out.overridden = Len(Overrides) /\ out.unfilled = {}
    /\ stage' = "Notify"
    /\ UNCHANGED <<manifest, at, out>>

\* Notifications need the host of NTFY_URL let through, by name or address.
Notify ==
    Section("Notify", out.notify => manifest.ntfy # None, "Derived",
            IF ~out.notify THEN out
            ELSE IF manifest.ntfy.ip THEN [out EXCEPT !.cidrs = @ \cup {manifest.ntfy.host}]
            ELSE [out EXCEPT !.egress = @ \cup {manifest.ntfy.host}])

Next ==
    \/ Repos \/ PluginsList \/ PluginPorts \/ Remote \/ Refs
    \/ OnePlugin \/ AgentEgress \/ Secrets \/ OneOverride \/ OneDefault \/ SecretsDone
    \/ Notify

Spec == Init /\ [][Next]_vars

-----------------------------------------------------------------------------
TypeOK ==
    /\ stage \in Stages /\ at \in 1..(Len(out.plugins) + 1)
    /\ DOMAIN out.slots \subseteq UNION {Plugin[p].slots : p \in Rng(out.plugins)}
    /\ out.setup \cup out.relays \subseteq Rng(out.plugins)

\* What makes one plugin legal, and two of them fit together, said without an
\* order.
Fits(p) ==
    LET doc == Plugin[p]
        mounts == Rng(doc.volumes)
    IN /\ doc.legal /\ (doc.port # None \/ p \notin DOMAIN manifest.ports)
       /\ doc.relay \in IF doc.port = None THEN {None} ELSE {"policy", "open"}
       /\ \A n \in DOMAIN doc.servers :
            /\ doc.servers[n].requires \subseteq doc.slots
            /\ doc.servers[n].kind = "local" => doc.install
            /\ doc.servers[n].takesPort => doc.port # None
       /\ doc.port # None =>
            \E n \in DOMAIN doc.servers : doc.servers[n].takesPort \/ doc.servers[n].kind = "remote"
       /\ DOMAIN doc.volumes \cap (StaticNames \cup AgentNames) = {}
       /\ \A m \in mounts : IsStrictPrefix(Root, m) /\ \A q \in Reserved : ~IsPrefix(m, q) /\ ~IsPrefix(q, m)
       /\ \A v, w \in DOMAIN doc.volumes : v # w => ~IsPrefix(doc.volumes[v], doc.volumes[w])
FitTogether(p, q) ==
    /\ Plugin[p].slots \cap Plugin[q].slots = {}
    /\ Plugin[p].services \cap Plugin[q].services = {}
    /\ DOMAIN Plugin[p].servers \cap DOMAIN Plugin[q].servers = {}
    /\ DOMAIN Plugin[p].volumes \cap DOMAIN Plugin[q].volumes = {}
    /\ \A m \in Rng(Plugin[p].volumes), n \in Rng(Plugin[q].volumes) : ~IsPrefix(m, n) /\ ~IsPrefix(n, m)

\* Whether a list of plugins is accepted depends on the plugins, never on
\* their order: each is legal and every two fit together.  In particular no
\* accepted volume lies outside the coder home, hides a mount of compose, of an
\* agent or of another plugin, or lies inside one.
AcceptedIffTheyFit ==
    LET ps == out.plugins
        fit == /\ \A i \in DOMAIN ps : Fits(ps[i])
               /\ \A i, j \in DOMAIN ps : i # j => FitTogether(ps[i], ps[j])
    IN /\ stage \in {"Secrets", "Overrides", "Notify", "Derived"} => fit
       /\ stage = "Unfit" => ~fit

\* The source an agent's slot should have: the override's, unless it disables
\* the slot; else, if the agent is enabled, the default's.
Effective(a, s) ==
    LET over == {i \in DOMAIN Overrides : Overrides[i].agent = a /\ Overrides[i].slot = s}
    IN IF over # {} THEN {Overrides[i].source : i \in over} \ {None}
       ELSE IF a \in EnabledMcp /\ s \in DOMAIN manifest.common
            THEN {manifest.common[s]} \cap Present ELSE {}

\* The secrets handed to `up' are one record for each agent and slot that has
\* a source, and none for a slot that was disabled or has no value.
SecretsAreEffective ==
    stage \in {"Notify", "Derived"} =>
        /\ IsInjective(out.secrets)
        /\ \A r \in Rng(out.secrets) :
             /\ r.agent \in DOMAIN Agent /\ r.slot \in DOMAIN out.slots
             /\ r.source \in Effective(r.agent, r.slot)
        /\ \A a \in DOMAIN Agent, s \in DOMAIN out.slots :
             \A v \in Effective(a, s) : Record(a, s, v) \in Rng(out.secrets)

\* The way out of the bottle: a server that takes its host port is opened that
\* port, whether it is the plugin's or the manifest's, and whoever wants to be
\* notified has a shell that can notify and may reach the ntfy host.
DialledIsOpen ==
    stage = "Derived" =>
        /\ \A n \in DOMAIN out.servers :
             LET s == out.servers[n] IN Plugin[s.plugin].servers[n].takesPort => s.dials \in out.ports
        /\ out.notify => out.shell # "bash" /\ manifest.ntfy.host \in out.egress \cup out.cidrs
==============================================================================
