--------------------------- MODULE AgentDescriptors ---------------------------
(***************************************************************************)
(* The contract between the two readers of agents/<name>/agent.yml:        *)
(* manifest.py admits a set of descriptors on the host                     *)
(* (src/src/manifest.py, _normalize_agent_docs) before the bottle is       *)
(* started, and wire_plugins.py dispatches the enabled ones inside it      *)
(* (src/src/wire_plugins.py, run).  What the first admits the second must  *)
(* be able to wire: there it would be found out only after the bottle is   *)
(* up, and an error ends the wiring of every later agent too.              *)
(***************************************************************************)
EXTENDS Naturals, Sequences, SequencesExt

CONSTANTS Descriptors, \* sequences of descriptors, sorted by agent name
          None

VARIABLES docs,    \* the descriptors
          enabled, \* the agents this manifest enables: positions in docs
          stage,   \* "admit", "refused", "mount", "wire", "failed", "wired"
          n,       \* the next agent
          taken,   \* what the agents before n own: volumes, mounts, configs
          made     \* state volumes mounted, and configs written

vars == <<docs, enabled, stage, n, taken, made>>

Rng(s) == {s[i] : i \in DOMAIN s}
Overlap(a, b) == IsPrefix(a, b) \/ IsPrefix(b, a)

\* Assumed: the descriptors and a descriptor's directories are lists.
IsList(s) == s \in Seq(Rng(s))
DescriptorsAssumption ==
    \A ds \in Descriptors :
        IsList(ds) /\ \A i \in DOMAIN ds :
            IsList(ds[i].state) /\ \A k \in DOMAIN ds[i].state : IsList(ds[i].state[k].path)

Formats == {"json", "toml"}
LiteralDialects == {"url", "httpUrl", "type-http", "serverUrl"}

-----------------------------------------------------------------------------
\* The combinations manifest.py admits.
\* Mutant: codex may name any field.
CodexRefs_Any == {"false", "bearer_token_env_var", "url"}

CodexRefs == {"false", "bearer_token_env_var"}

Combination(m) ==
    CASE m.strategy = "claude_preapprove" ->
           m.config = <<".mcp.json">> /\ m.format = "json" /\ m.refs # "false"
      [] m.strategy = "codex_managed_block" -> m.format = "toml" /\ m.refs \in CodexRefs
      [] OTHER ->
           /\ m.format = "json"
           /\ \/ m.dialect \in LiteralDialects /\ m.refs = "false"
              \/ m.dialect = "mcpServers" /\ m.refs # "false"

\* State directories: a volume belongs to one agent, no mount is inside another.
StateOk(d, i) ==
    \A k \in DOMAIN d.state :
        /\ \A t \in taken.volumes : t.name = d.state[k].volume => t.agent = i
        /\ \A q \in taken.mounts : ~Overlap(d.state[k].path, q)
        /\ \A j \in 1..(k - 1) : ~Overlap(d.state[k].path, d.state[j].path)

McpOk(d) ==
    \/ d.mcp = None /\ ~d.settings
    \/ /\ d.mcp # None /\ d.mcp.format \in Formats
       /\ Combination(d.mcp)
       /\ d.settings => d.mcp.strategy = "codex_managed_block"
       /\ d.binary \notin taken.binaries /\ d.mcp.config \notin taken.configs

Owned(d, i) ==
    [volumes |-> taken.volumes \cup {[name |-> s.volume, agent |-> i] : s \in Rng(d.state)},
     mounts |-> taken.mounts \cup {s.path : s \in Rng(d.state)},
     binaries |-> IF d.mcp = None THEN taken.binaries ELSE taken.binaries \cup {d.binary},
     configs |-> IF d.mcp = None THEN taken.configs ELSE taken.configs \cup {d.mcp.config}]

Nobody == [volumes |-> {}, mounts |-> {}, binaries |-> {}, configs |-> {}]

Init ==
    /\ docs \in Descriptors /\ enabled \in SUBSET DOMAIN docs
    /\ stage = "admit" /\ n = 1 /\ taken = Nobody
    /\ made = [state |-> {}, configs |-> {}]

\* Every descriptor is admitted, enabled or not; the first error ends `up'.
Admit ==
    /\ stage = "admit" /\ n <= Len(docs)
    /\ IF StateOk(docs[n], n) /\ McpOk(docs[n])
       THEN taken' = Owned(docs[n], n) /\ n' = n + 1 /\ UNCHANGED stage
       ELSE stage' = "refused" /\ UNCHANGED <<taken, n>>
    /\ UNCHANGED <<docs, enabled, made>>

\* agent_volumes is a map from volume to path.
Later(d, k) == \E j \in DOMAIN d.state : j > k /\ d.state[j].volume = d.state[k].volume
Mount ==
    /\ stage = "admit" /\ n > Len(docs)
    /\ made' = [made EXCEPT !.state =
         UNION {{<<i, docs[i].state[k].path>> : k \in {j \in DOMAIN docs[i].state : ~Later(docs[i], j)}} : i \in enabled}]
    /\ stage' = "wire" /\ n' = 1
    /\ UNCHANGED <<docs, enabled, taken>>

-----------------------------------------------------------------------------
\* In the bottle: run() over the payload's agents, with one remote server that
\* needs Authorization: Bearer ${SLOT}.  Its URL is an argument of mcp-remote, or
\* stands in a native entry, where a named reference may take its place.
Named(m) == m.refs # "url"
HasUrl(m) == m.refs \in {"false", "true"} \/ Named(m)

\* A codex block has the fields url and bearer_token_env_var, or a command.
CodexField(m) == m.refs = "false" \/ m.refs = "bearer_token_env_var"

Dispatches(m) ==
    CASE m.strategy = "claude_preapprove" -> m.config = <<".mcp.json">>
      [] m.strategy = "codex_managed_block" -> TRUE
      [] OTHER -> m.format = "json"

\* _parse_agents_payload refuses the whole payload, run() the rest of it.
PayloadOk(ms) ==
    /\ \A i \in ms : docs[i].settings => docs[i].mcp.strategy = "codex_managed_block"
    /\ \A i, j \in ms : docs[i].binary = docs[j].binary => i = j

McpEnabled == {i \in enabled : docs[i].mcp # None}

Wire ==
    /\ stage = "wire" /\ n <= Len(docs)
    /\ IF n \notin McpEnabled THEN n' = n + 1 /\ UNCHANGED <<stage, made>>
       ELSE IF PayloadOk(McpEnabled) /\ Dispatches(docs[n].mcp)
       THEN /\ n' = n + 1 /\ UNCHANGED stage
            /\ made' = [made EXCEPT !.configs = @ \cup {<<n, docs[n].mcp.config>>}]
       ELSE stage' = "failed" /\ UNCHANGED <<n, made>>
    /\ UNCHANGED <<docs, enabled, taken>>

Wired ==
    /\ stage = "wire" /\ n > Len(docs)
    /\ stage' = "wired"
    /\ UNCHANGED <<docs, enabled, n, taken, made>>

Next == Admit \/ Mount \/ Wire \/ Wired

Spec == Init /\ [][Next]_vars

-----------------------------------------------------------------------------
TypeOK ==
    /\ stage \in {"admit", "refused", "wire", "failed", "wired"}
    /\ n \in 1..(Len(docs) + 1) /\ enabled \subseteq DOMAIN docs

\* A descriptor that is admitted on the host wires in the bottle: the wiring
\* ends, every enabled agent has a configuration of its own, with the server's
\* URL (unless a JSON agent chose to have the reference to the secret under the
\* name url: nobody checks that), and every state directory is on
\* a volume of its own, for an agent that names a volume once.
AdmittedWires ==
    /\ stage # "failed"
    /\ stage = "wired" =>
         /\ \A i \in McpEnabled :
              LET m == docs[i].mcp
              IN /\ {c[1] : c \in {x \in made.configs : x[2] = m.config}} = {i}
                 /\ m.strategy = "codex_managed_block" => CodexField(m)
                 /\ m.format = "json" \/ HasUrl(m)
         /\ \A i \in enabled :
              (\A k \in DOMAIN docs[i].state : ~Later(docs[i], k)) =>
                 \A k \in DOMAIN docs[i].state :
                   {x[1] : x \in {y \in made.state : Overlap(y[2], docs[i].state[k].path)}} = {i}
==============================================================================
