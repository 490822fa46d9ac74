----------------------------- MODULE AgentWiring -----------------------------
(***************************************************************************)
(* The MCP servers of the enabled plugins in the agents' own config files  *)
(* (src/src/wire_plugins.py, and the part of manifest.py that sorts the    *)
(* servers).  Each `./djinn up' builds a payload from the manifest and     *)
(* wires the agents one after the other, one file at a time; people edit   *)
(* the same files by hand between two runs, and a run may die between two  *)
(* writes.                                                                 *)
(*                                                                         *)
(* A server is uniform (every agent gets it) or requires a secret slot     *)
(* (only the agents that are bound to the slot get it).  What stands in a  *)
(* config file under a server's name is how it was rendered, or "hand".    *)
(***************************************************************************)
EXTENDS Naturals, Sequences, SequencesExt, Functions

CONSTANTS Servers,        \* names of MCP servers
          Shapes,         \* what a plugin may define under such a name
          Fleets,         \* the agents a bottle may have, in wiring order
          PluginsChange,  \* a plugin's definition may change between two runs
          MaxEdits,       \* bound: edits by hand
          Torn            \* a ~/.claude.json that was cut short

\* A bottle has one .mcp.json and one ~/.claude.json, so one agent that reads
\* them.
FleetAssumption ==
    \A fleet \in Fleets :
        /\ Len(fleet) \in Nat /\ DOMAIN fleet = 1 .. Len(fleet)
        /\ \A a \in DOMAIN fleet : fleet[a].role \in {"preapprove", "block", "json"}
        /\ \A a, b \in DOMAIN fleet :
             fleet[a].role = "preapprove" /\ fleet[b].role = "preapprove" => a = b

VARIABLES agents,     \* this bottle's agents: [role, envRefs]
          shape,      \* what the plugins define now
          enabled,    \* servers whose plugin the manifest lists
          bound,      \* agents with every slot the required servers need
          pc,         \* <<agent, step>>, or Idle
          config,     \* per agent: what its config file has under a name
          recorded,   \* per agent: the names in the two sidecar files
          mcp,        \* repos/.mcp.json, see McpFile
          marker,     \* .mcp.generated
          approvals,  \* servers approved in ~/.claude.json, or Torn
          wired,      \* the last run finished and nobody has edited since
          interrupted,\* some run died
          edits

manifest == <<shape, enabled, bound>>
files == <<config, recorded, mcp, marker, approvals>>
vars == <<agents, manifest, pc, files, wired, interrupted, edits>>

\* A definition: kind "local" (command:), "missing" (its command is not on
\* PATH), or a remote with no credential headers ("open"), with exactly
\* Authorization: Bearer ${SLOT} ("bearer"), with that and more headers
\* ("bearer+"), or with another header for the slot ("header").
IsShape(s) ==
    /\ s.kind \in {"local", "missing", "open", "bearer", "bearer+", "header"}
    /\ s.requires \in BOOLEAN

\* There is no repos/ yet, it came up while the last run was on, it has no
\* .mcp.json, it has one.
McpFile == {"norepos", "late", "none", "file"}

Idle == <<0, "idle">>
Rendered == {"local", "native", "named", "named+", "shim"}
NoServers == [s \in Servers |-> "absent"]
A == DOMAIN agents
IsClaude(a) == agents[a].role = "preapprove"
Names(entries) == {s \in Servers : entries[s] # "absent"}

TypeOK ==
    /\ agents \in Fleets
    /\ shape \in [Servers -> Shapes] /\ \A s \in Servers : IsShape(shape[s])
    /\ enabled \subseteq Servers /\ bound \subseteq A
    /\ pc[1] \in 0..Len(agents)
    /\ config \in [A -> [Servers -> Rendered \cup {"absent", "hand"}]]
    /\ recorded \in [A -> [servers : SUBSET Servers, plugins : SUBSET Servers]]
    /\ mcp \in McpFile /\ marker \in BOOLEAN /\ approvals \in (SUBSET Servers) \cup {Torn}
    /\ wired \in BOOLEAN /\ interrupted \in BOOLEAN /\ edits \in 0..MaxEdits

\* A bottle starts with no config, or with a .mcp.json the workspace ships, which
\* may have no servers.
Init ==
    /\ agents \in Fleets
    /\ shape \in [Servers -> Shapes] /\ enabled = {} /\ bound = {}
    /\ pc = Idle
    /\ mcp \in IF \E a \in A : IsClaude(a) THEN McpFile \ {"late"} ELSE {"none"}
    /\ config \in [A -> {NoServers, [NoServers EXCEPT ![CHOOSE s \in Servers : TRUE] = "hand"]}]
    /\ \A a \in A : ~(IsClaude(a) /\ mcp = "file") => config[a] = NoServers
    /\ recorded = [a \in A |-> [servers |-> {}, plugins |-> {}]]
    /\ marker = FALSE /\ approvals = {}
    /\ wired = FALSE /\ interrupted = FALSE /\ edits = 0

-----------------------------------------------------------------------------
\* What each agent is to get.

\* Servers whose command the image lacks are dropped for everyone.
Uniform == {s \in enabled : ~shape[s].requires /\ shape[s].kind # "missing"}
Local == {s \in Uniform : shape[s].kind = "local"}
Required(a) ==
    {s \in enabled : shape[s].requires /\ shape[s].kind # "missing" /\ a \in bound}

\* _render_for_agent: a remote stays native where the agent can express it,
\* and becomes an mcp-remote command elsewhere.
RenderFor(a, s) ==
    CASE shape[s].kind = "local" -> "local"
      [] shape[s].kind # "local" /\ agents[a].envRefs = "bool" -> "native"
      [] shape[s].kind = "bearer" /\ agents[a].envRefs = "named" -> "named"
      [] shape[s].kind = "bearer+" /\ agents[a].envRefs = "named" -> "named+"
      [] OTHER -> "shim"

\* build_payload: `ref' agents have their required servers wired by their own
\* strategy, the others through the local plugins.
IsRef(a) == agents[a].envRefs # "none"
RefRequired(a) == IF IsRef(a) THEN Required(a) ELSE {}
LocalFor(a) == Local \cup (IF IsRef(a) THEN {} ELSE Required(a))

\* A uniform server is written as it is defined: claude alone takes remotes.
Entry(a, s) ==
    IF s \in Required(a) THEN RenderFor(a, s)
    ELSE IF shape[s].kind = "local" THEN "local" ELSE "native"

Wanted(a) ==
    IF agents[a].role = "preapprove" THEN Uniform \cup RefRequired(a)
                                     ELSE LocalFor(a) \cup RefRequired(a)

With(entries, a, names) ==
    [s \in Servers |-> IF s \in names THEN Entry(a, s) ELSE entries[s]]
Without(entries, names) ==
    [s \in Servers |-> IF s \in names THEN "absent" ELSE entries[s]]

-----------------------------------------------------------------------------
\* One run of up.

FirstStep == [preapprove |-> "generate", block |-> "block", json |-> "delete"]
StartOf(a) == IF a > Len(agents) THEN Idle ELSE <<a, FirstStep[agents[a].role]>>

At(a, step) == pc = <<a, step>> /\ UNCHANGED <<agents, manifest, interrupted, edits>>
Step(a, step) == pc' = <<a, step>> /\ wired' = wired
Done(a) == pc' = StartOf(a + 1) /\ wired' = (a = Len(agents))

\* A WireError ends the run: the agents after this one are not reached.
Raise == pc' = Idle /\ UNCHANGED <<wired, files>>

Up ==
    /\ pc = Idle /\ pc' = StartOf(1) /\ wired' = FALSE
    /\ mcp' = IF mcp = "late" THEN "none" ELSE mcp
    /\ UNCHANGED <<agents, manifest, config, recorded, marker, approvals, interrupted, edits>>

Write(a, entries) == config' = [config EXCEPT ![a] = entries]

\* reconcile_agent_servers: names an earlier run required go ...
DeleteStale(a) ==
    /\ At(a, "delete")
    /\ Write(a, Without(config[a], recorded[a].servers \ RefRequired(a)))
    /\ Step(a, IF RefRequired(a) = {} /\ recorded[a].servers = {} THEN "sync" ELSE "require")
    /\ UNCHANGED <<recorded, mcp, marker, approvals>>

\* ... those this run requires are written, one write each ...
WriteRequired(a, s) ==
    /\ At(a, "require") /\ s \in RefRequired(a) /\ config[a][s] # Entry(a, s)
    /\ Write(a, With(config[a], a, {s}))
    /\ Step(a, "require")
    /\ UNCHANGED <<recorded, mcp, marker, approvals>>

\* ... and remembered.
RecordRequired(a) ==
    /\ At(a, "require") /\ \A s \in RefRequired(a) : config[a][s] = Entry(a, s)
    /\ recorded' = [recorded EXCEPT ![a].servers = RefRequired(a)]
    /\ Step(a, "sync")
    /\ UNCHANGED <<config, mcp, marker, approvals>>

\* Mutant: what is not of this run is dropped, whoever wrote it.
SyncPlugins_Replaces(a) ==
    /\ At(a, "sync")
    /\ Write(a, With(NoServers, a, LocalFor(a)))
    /\ Step(a, "record")
    /\ UNCHANGED <<recorded, mcp, marker, approvals>>

\* Mutant: the names of the last run are not looked at.
SyncPlugins_KeepsOld(a) ==
    /\ At(a, "sync")
    /\ Write(a, With(config[a], a, LocalFor(a)))
    /\ Step(a, "record")
    /\ UNCHANGED <<recorded, mcp, marker, approvals>>

\* wire_plugin_servers_json: the names of the last run out, this run's in.
SyncPlugins(a) ==
    /\ At(a, "sync")
    /\ Write(a, With(Without(config[a], recorded[a].plugins), a, LocalFor(a)))
    /\ Step(a, "record")
    /\ UNCHANGED <<recorded, mcp, marker, approvals>>

RecordPlugins(a) ==
    /\ At(a, "record")
    /\ recorded' = [recorded EXCEPT ![a].plugins = LocalFor(a)]
    /\ Done(a)
    /\ UNCHANGED <<config, mcp, marker, approvals>>

\* wire_codex_toml: the marked block is replaced, the text around it stays.
\* A remote that keeps headers beside the bearer token cannot be written.
ReplaceBlock(a) ==
    /\ At(a, "block")
    /\ IF \E s \in Wanted(a) : Entry(a, s) = "named+" THEN Raise
       ELSE /\ Write(a, With([s \in Servers |-> IF config[a][s] = "hand" THEN "hand" ELSE "absent"],
                             a, Wanted(a)))
            /\ Done(a)
            /\ UNCHANGED <<recorded, mcp, marker, approvals>>

\* generate_claude_mcp leaves a .mcp.json alone that it did not generate, and
\* writes nothing where there is no repos/.
GenerateMcp(a) ==
    /\ At(a, "generate")
    /\ IF mcp = "norepos" \/ (mcp = "file" /\ ~marker)
       THEN Step(a, "approve") /\ UNCHANGED <<config, mcp>>
       ELSE /\ Write(a, With(NoServers, a, Wanted(a)))
            /\ mcp' = "file"
            /\ Step(a, "mark")
    /\ UNCHANGED <<recorded, marker, approvals>>

Mark(a) ==
    /\ At(a, "mark")
    /\ marker' = TRUE
    /\ Step(a, "approve")
    /\ UNCHANGED <<config, recorded, mcp, approvals>>

\* preapprove_claude merges the servers of .mcp.json, whoever wrote it, into
\* ~/.claude.json and writes that in place; it does not touch one it cannot
\* read, and does not look at it where there is no .mcp.json.
Preapprove(a) ==
    /\ At(a, "approve")
    /\ IF mcp = "file" /\ approvals = Torn THEN Raise
       ELSE /\ approvals' = IF mcp = "file" THEN Names(config[a]) ELSE approvals
            /\ Done(a)
            /\ UNCHANGED <<config, recorded, mcp, marker>>

-----------------------------------------------------------------------------
\* Between runs, and in the middle of one.

EditManifest ==
    /\ pc = Idle /\ wired' = FALSE
    /\ shape' \in IF PluginsChange THEN [Servers -> Shapes] ELSE {shape}
    /\ enabled' \in SUBSET Servers /\ bound' \in SUBSET A
    /\ UNCHANGED <<agents, pc, files, interrupted, edits>>

\* Somebody adds, replaces or removes an entry, in a config file or in
\* .mcp.json, and may create the file for it.
EditConfig(a, s) ==
    /\ pc = Idle /\ edits < MaxEdits
    /\ IF IsClaude(a) THEN mcp # "norepos" /\ mcp' = "file" ELSE UNCHANGED mcp
    /\ config' \in {[config EXCEPT ![a][s] = e] : e \in {"hand", "absent"}}
    /\ edits' = edits + 1 /\ wired' = FALSE
    /\ UNCHANGED <<agents, manifest, pc, recorded, marker, approvals, interrupted>>

\* The bottle's entrypoint or a clone makes repos/, at any time: up does not wait
\* for either.
ReposAppear ==
    /\ mcp = "norepos"
    /\ mcp' = IF pc = Idle THEN "none" ELSE "late"
    /\ wired' = FALSE
    /\ UNCHANGED <<agents, manifest, pc, config, recorded, marker, approvals, interrupted, edits>>

\* A file is replaced whole or not at all, except the one written in place.
Crash ==
    /\ pc # Idle /\ pc' = Idle /\ interrupted' = TRUE
    /\ approvals' \in IF pc[2] = "approve" /\ mcp = "file" THEN {approvals, Torn} ELSE {approvals}
    /\ UNCHANGED <<agents, manifest, config, recorded, mcp, marker, wired, edits>>

Next ==
    \/ Up \/ EditManifest \/ ReposAppear \/ Crash
    \/ \E a \in A :
        \/ DeleteStale(a) \/ RecordRequired(a) \/ SyncPlugins(a) \/ RecordPlugins(a)
        \/ ReplaceBlock(a) \/ GenerateMcp(a) \/ Mark(a) \/ Preapprove(a)
        \/ \E s \in Servers : WriteRequired(a, s) \/ EditConfig(a, s)

Spec == Init /\ [][Next]_vars

-----------------------------------------------------------------------------
\* A .mcp.json that the workspace ships, that a person made, or that a dead run
\* left unmarked; or none, for there was no repos/ to put it in when the last run
\* began.
NotOurs(a) == IsClaude(a) /\ ~marker /\ mcp # "none"

\* After a run that finished every agent has each server the manifest gives
\* it, in the form it can use, whatever earlier runs and people left in its
\* file, and claude has approved what its own file lists; and when no run ever
\* died, nothing of a plugin that is gone or of a secret that was taken away
\* is left.
WiredAsDeclared ==
    wired => \A a \in A :
        /\ ~NotOurs(a) =>
             /\ \A s \in Wanted(a) : config[a][s] = Entry(a, s)
             /\ \A s \in Servers \ Wanted(a) :
                  interrupted \/ config[a][s] \in {"absent", "hand"}
        /\ IsClaude(a) /\ mcp = "file" => approvals = Names(config[a])

\* The names a run may write: all of a .mcp.json that it generated, and
\* elsewhere those of the manifest and of an earlier run's sidecar files.
Claimed(a) ==
    IF IsClaude(a) THEN {s \in Servers : marker}
    ELSE Wanted(a) \cup recorded[a].servers \cup recorded[a].plugins

\* No run, whole or cut short, touches what a person wrote under a name that
\* is not claimed, nor anything of a .mcp.json that bears no mark.
HandWrittenStays ==
    [][\A a \in A, s \in Servers :
         config[a][s] = "hand" /\ edits' = edits /\ s \notin Claimed(a)
           => config'[a][s] = "hand"]_vars

\* Syncing the plugin servers removes no agent-scoped server: the docstring of
\* wire_plugin_servers_json says identity servers are not touched.
SyncSparesRequired ==
    [][\A a \in A : pc = <<a, "sync">> =>
         \A s \in RefRequired(a) : config[a][s] # "absent" => config'[a][s] # "absent"]_vars
==============================================================================
