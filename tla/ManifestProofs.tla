--------------------------- MODULE ManifestProofs ---------------------------
(***************************************************************************)
(* Proofs about what `djinn up' makes of a manifest: the wiring of the     *)
(* agents, the descriptors they are admitted by, and the derivation of the *)
(* manifest, for any agents, servers, plugins, descriptors and manifests.  *)
(* Each is proved about by itself (the lemmas ...Alone) and carried over   *)
(* to the properties of Services.                                          *)
(***************************************************************************)
EXTENDS Services, Integers, WellFoundedInduction, TLAPS

-----------------------------------------------------------------------------
\* A step of Services is a step of each part or leaves its variables alone, and
\* the part that runs stays the one that runs.
LEMMA PartsStep ==
  ASSUME [ServicesNext]_allVars
  PROVE  /\ UNCHANGED part
         /\ [Wiring!Next]_(Wiring!vars)
         /\ [Derive!Next]_(Derive!vars)
         /\ [Agents!Next]_(Agents!vars)
         /\ part # "wiring" => UNCHANGED Wiring!vars
  <1>1. CASE UNCHANGED allVars
    BY <1>1 DEF allVars, wiringVars, Wiring!vars, Wiring!manifest, Wiring!files, deriveVars, Derive!vars,
        agentsVars, Agents!vars
  <1>2. CASE ServicesNext
    BY <1>2 DEF ServicesNext, wiringVars, Wiring!vars, Wiring!manifest, Wiring!files, deriveVars, Derive!vars,
        agentsVars, Agents!vars
  <1> QED
    BY <1>1, <1>2

\* Where the part "wiring" of Services runs, it behaves as Wiring does.
InWiring == part = "wiring"

LEMMA WiringRuns == ServicesSpec => Wiring!Spec \/ []~InWiring
  <1>1. ServicesInit => Wiring!Init \/ ~InWiring
    BY DEF ServicesInit, InWiring
  <1>2. [ServicesNext]_allVars => [Wiring!Next]_(Wiring!vars)
    BY PartsStep
  <1>3. ~InWiring /\ [ServicesNext]_allVars => ~InWiring'
    BY PartsStep DEF InWiring
  <1> QED
    BY <1>1, <1>2, <1>3, PTL DEF ServicesSpec, Wiring!Spec

\* Where the part "derive" of Services runs, it behaves as Derive does.
InDerive == part = "derive"

LEMMA DeriveRuns == ServicesSpec => Derive!Spec \/ []~InDerive
  <1>1. ServicesInit => Derive!Init \/ ~InDerive
    BY DEF ServicesInit, InDerive
  <1>2. [ServicesNext]_allVars => [Derive!Next]_(Derive!vars)
    BY PartsStep
  <1>3. ~InDerive /\ [ServicesNext]_allVars => ~InDerive'
    BY PartsStep DEF InDerive
  <1> QED
    BY <1>1, <1>2, <1>3, PTL DEF ServicesSpec, Derive!Spec

\* Where the part "agents" of Services runs, it behaves as Agents does.
InAgents == part = "agents"

LEMMA AgentsRuns == ServicesSpec => Agents!Spec \/ []~InAgents
  <1>1. ServicesInit => Agents!Init \/ ~InAgents
    BY DEF ServicesInit, InAgents
  <1>2. [ServicesNext]_allVars => [Agents!Next]_(Agents!vars)
    BY PartsStep
  <1>3. ~InAgents /\ [ServicesNext]_allVars => ~InAgents'
    BY PartsStep DEF InAgents
  <1> QED
    BY <1>1, <1>2, <1>3, PTL DEF ServicesSpec, Agents!Spec

-----------------------------------------------------------------------------
(***************************************************************************)
(* AgentWiring.  Between two runs an agent's file holds no form a run      *)
(* wrote under a name that its sidecar files do not claim, unless a run    *)
(* died; a run takes the agents in order, and leaves each one as the       *)
(* manifest has it (Good).  The two sidecar files never claim the same     *)
(* name for two reasons as long as no definition changes: one holds the    *)
(* servers that need no secret, the other those that do.                   *)
(***************************************************************************)

ConfigValues == Wiring!Rendered \cup {"absent", "hand"}
Sidecars == [servers : SUBSET Servers, plugins : SUBSET Servers]

WiringTyped ==
    /\ agents \in AgentFleets
    /\ config \in [Wiring!A -> [Servers -> ConfigValues]]
    /\ recorded \in [Wiring!A -> Sidecars]
    /\ enabled \subseteq Servers /\ edits \in Nat /\ wired \in BOOLEAN

Where(a, step) ==
    \/ agents[a].role = "preapprove" /\ step \in {"generate", "mark", "approve"}
    \/ agents[a].role = "block" /\ step = "block"
    \/ agents[a].role = "json" /\ step \in {"delete", "require", "sync", "record"}

\* A run is at a step of one agent, and is not over.
Running ==
    /\ wpc = Wiring!Idle \/ \E a \in Wiring!A : \E step : wpc = <<a, step>> /\ Where(a, step)
    /\ wpc # Wiring!Idle => ~wired

\* What has a form some run wrote.
Wired(a) == {s \in Servers : config[a][s] \in Wiring!Rendered}
HasAll(a, names) == \A s \in names : config[a][s] = Wiring!Entry(a, s)
OnlyOf(a, names) == interrupted \/ Wired(a) \subseteq names

Generated(a) ==
    \A s \in Servers :
        config[a][s] = IF s \in Wiring!Wanted(a) THEN Wiring!Entry(a, s) ELSE "absent"

Stable == PluginsChange = FALSE

\* A config file kept in step with its two sidecar files.
JsonInv(a) ==
    /\ Stable /\ Wiring!IsRef(a) => \A s \in recorded[a].plugins : ~shape[s].requires
    /\ (\A step \in {"require", "sync", "record"} : wpc # <<a, step>>) =>
         OnlyOf(a, recorded[a].servers \cup recorded[a].plugins)
    /\ wpc = <<a, "require">> => OnlyOf(a, Wiring!RefRequired(a) \cup recorded[a].plugins)
    /\ wpc = <<a, "sync">> =>
         /\ HasAll(a, Wiring!RefRequired(a)) /\ recorded[a].servers = Wiring!RefRequired(a)
         /\ OnlyOf(a, Wiring!RefRequired(a) \cup recorded[a].plugins)
    /\ wpc = <<a, "record">> =>
         /\ Stable => HasAll(a, Wiring!Wanted(a))
         /\ recorded[a].servers = Wiring!RefRequired(a)
         /\ OnlyOf(a, Wiring!Wanted(a))

\* A .mcp.json that bears the mark is there, and was generated by the run that
\* is about to read it; that run finds none only where there was no repos/.
McpInv(a) ==
    /\ marker \/ wpc = <<a, "mark">> => mcp = "file"
    /\ mcp # "file" => \A s \in Servers : config[a][s] = "absent"
    /\ wpc = <<a, "mark">> \/ (wpc = <<a, "approve">> /\ marker) => Generated(a)
    /\ wpc = <<a, "approve">> => marker \/ mcp # "none"

AgentInv(a) ==
    /\ agents[a].role = "json" => JsonInv(a)
    /\ agents[a].role = "preapprove" => McpInv(a)

\* What WiredAsDeclared says of one agent.
Good(a) ==
    /\ Stable /\ ~Wiring!NotOurs(a) =>
         /\ HasAll(a, Wiring!Wanted(a))
         /\ \A s \in Servers \ Wiring!Wanted(a) : interrupted \/ config[a][s] \in {"absent", "hand"}
    /\ agents[a].role = "preapprove" /\ mcp = "file" => approvals = Wiring!Names(config[a])

\* The agents that a run has been through are as they are to be.
Passed(a) == wired \/ (wpc # Wiring!Idle /\ a < wpc[1])

WiringInv ==
    /\ WiringTyped /\ Running
    /\ \A a \in Wiring!A : AgentInv(a) /\ (Passed(a) => Good(a))

------------------------------------------------------------------------------
LEMMA FleetIs ==
  ASSUME Wiring!FleetAssumption, WiringTyped
  PROVE  /\ Len(agents) \in Nat /\ Wiring!A = 1 .. Len(agents)
         /\ \A a \in Wiring!A : agents[a].role \in {"preapprove", "block", "json"}
         /\ \A a, b \in Wiring!A :
              agents[a].role = "preapprove" /\ agents[b].role = "preapprove" => a = b
  BY DEF Wiring!FleetAssumption, WiringTyped, Wiring!A

LEMMA EntryIsRendered == \A a, s : Wiring!Entry(a, s) \in Wiring!Rendered
  BY DEF Wiring!Entry, Wiring!RenderFor, Wiring!Rendered

LEMMA WithIs ==
  ASSUME NEW entries \in [Servers -> ConfigValues], NEW a, NEW names
  PROVE  /\ Wiring!With(entries, a, names) \in [Servers -> ConfigValues]
         /\ \A s \in Servers : Wiring!With(entries, a, names)[s] =
                                      IF s \in names THEN Wiring!Entry(a, s) ELSE entries[s]
  BY EntryIsRendered DEF Wiring!With, ConfigValues

LEMMA WithoutIs ==
  ASSUME NEW entries \in [Servers -> ConfigValues], NEW names
  PROVE  /\ Wiring!Without(entries, names) \in [Servers -> ConfigValues]
         /\ \A s \in Servers : Wiring!Without(entries, names)[s] =
                                      IF s \in names THEN "absent" ELSE entries[s]
  BY DEF Wiring!Without, ConfigValues

\* What an agent is to get stays the same through a run.
LEMMA SameManifest ==
  ASSUME UNCHANGED <<agents, shape, enabled, bound>>, NEW a
  PROVE  /\ Wiring!Wanted(a)' = Wiring!Wanted(a) /\ Wiring!RefRequired(a)' = Wiring!RefRequired(a)
         /\ Wiring!LocalFor(a)' = Wiring!LocalFor(a) /\ Wiring!IsRef(a)' = Wiring!IsRef(a)
         /\ \A s : Wiring!Entry(a, s)' = Wiring!Entry(a, s)
  <1>1. Wiring!Uniform' = Wiring!Uniform /\ Wiring!Required(a)' = Wiring!Required(a) /\ Wiring!IsRef(a)' = Wiring!IsRef(a)
    BY DEF Wiring!Uniform, Wiring!Required, Wiring!IsRef
  <1>2. Wiring!Local' = Wiring!Local
    BY <1>1 DEF Wiring!Local
  <1>3. Wiring!RefRequired(a)' = Wiring!RefRequired(a)
    BY <1>1 DEF Wiring!RefRequired
  <1>4. Wiring!LocalFor(a)' = Wiring!LocalFor(a)
    BY <1>1, <1>2 DEF Wiring!LocalFor
  <1>5. Wiring!Wanted(a)' = Wiring!Wanted(a)
    BY <1>1, <1>3, <1>4 DEF Wiring!Wanted
  <1>6. \A s : Wiring!Entry(a, s)' = Wiring!Entry(a, s)
    BY <1>1 DEF Wiring!Entry, Wiring!RenderFor
  <1> QED
    BY <1>1, <1>3, <1>4, <1>5, <1>6

LEMMA NamesWanted ==
  ASSUME NEW a
  PROVE  /\ Wiring!RefRequired(a) \subseteq Wiring!Wanted(a)
         /\ agents[a].role # "preapprove" => Wiring!Wanted(a) = Wiring!LocalFor(a) \cup Wiring!RefRequired(a)
  BY DEF Wiring!Wanted

LEMMA NamesAreServers ==
  ASSUME enabled \subseteq Servers, NEW a
  PROVE  /\ Wiring!Wanted(a) \subseteq Servers /\ Wiring!RefRequired(a) \subseteq Servers
         /\ Wiring!LocalFor(a) \subseteq Servers
  BY DEF Wiring!Wanted, Wiring!RefRequired, Wiring!LocalFor, Wiring!Local, Wiring!Uniform, Wiring!Required

\* The servers an agent's plugins give it as they are need no secret, and those
\* it requires do.
LEMMA RequiredOrNot ==
  ASSUME NEW a
  PROVE  /\ \A s \in Wiring!RefRequired(a) : shape[s].requires
         /\ Wiring!IsRef(a) => \A s \in Wiring!LocalFor(a) : ~shape[s].requires
         /\ ~Wiring!IsRef(a) => Wiring!RefRequired(a) = {}
  BY DEF Wiring!RefRequired, Wiring!LocalFor, Wiring!Local, Wiring!Uniform, Wiring!Required

LEMMA StartIs ==
  ASSUME Wiring!FleetAssumption, WiringTyped, NEW a \in Nat \ {0}
  PROVE  \/ a > Len(agents) /\ Wiring!StartOf(a) = Wiring!Idle
         \/ /\ a <= Len(agents) /\ a \in Wiring!A
            /\ \E step \in {"generate", "block", "delete"} :
                 Wiring!StartOf(a) = <<a, step>> /\ Where(a, step)
  <1>1. CASE a > Len(agents)
    BY <1>1 DEF Wiring!StartOf
  <1>2. CASE ~(a > Len(agents))
    <2>1. a <= Len(agents) /\ a \in Wiring!A /\ Wiring!StartOf(a) = <<a, Wiring!FirstStep[agents[a].role]>>
      BY <1>2, FleetIs DEF Wiring!StartOf
    <2>2. agents[a].role \in {"preapprove", "block", "json"}
      BY <2>1, FleetIs
    <2> QED
      BY <2>1, <2>2 DEF Where, Wiring!FirstStep
  <1> QED
    BY <1>1, <1>2

------------------------------------------------------------------------------
\* A step leaves the agents alone that it is not about.
Elsewhere(c) ==
    \A b \in Wiring!A \ {c} :
        /\ config'[b] = config[b] /\ recorded'[b] = recorded[b]
        /\ agents[b].role = "preapprove" => UNCHANGED <<mcp, marker, approvals>>

LEMMA GoodKept ==
  ASSUME NEW b, Good(b), UNCHANGED <<agents, shape, enabled, bound, interrupted>>,
         config'[b] = config[b],
         agents[b].role = "preapprove" => UNCHANGED <<mcp, marker, approvals>>
  PROVE  Good(b)'
  <1>1. /\ Wiring!Wanted(b)' = Wiring!Wanted(b)
        /\ \A s : Wiring!Entry(b, s)' = Wiring!Entry(b, s)
    BY SameManifest
  <1>2. Wiring!NotOurs(b)' => Wiring!NotOurs(b)
    BY DEF Wiring!NotOurs, Wiring!IsClaude
  <1>3. (Wiring!NotOurs(b) => Wiring!NotOurs(b)')
    BY DEF Wiring!NotOurs, Wiring!IsClaude
  <1>4. Wiring!Names(config[b])' = Wiring!Names(config'[b])
    BY DEF Wiring!Names
  <1>5. HasAll(b, Wiring!Wanted(b)) => HasAll(b, Wiring!Wanted(b))'
    BY <1>1 DEF HasAll
  <1> QED
    BY <1>1, <1>2, <1>3, <1>5 DEF Good, Wiring!Names

LEMMA OtherKept ==
  ASSUME NEW b \in Wiring!A, AgentInv(b), UNCHANGED <<agents, shape, enabled, bound, interrupted>>,
         config'[b] = config[b], recorded'[b] = recorded[b],
         agents[b].role = "preapprove" => UNCHANGED <<mcp, marker, approvals>>,
         \A step \in {"require", "sync", "record", "mark", "approve"} :
            wpc # <<b, step>> /\ wpc' # <<b, step>>
  PROVE  AgentInv(b)'
  <1>1. Wiring!IsRef(b)' = Wiring!IsRef(b)
    BY SameManifest
  <1>2. OnlyOf(b, recorded[b].servers \cup recorded[b].plugins)
          => OnlyOf(b, recorded[b].servers \cup recorded[b].plugins)'
    BY DEF OnlyOf, Wired
  <1>3. agents[b].role = "json" => JsonInv(b)'
    BY <1>1, <1>2 DEF AgentInv, JsonInv
  <1>4. agents[b].role = "preapprove" => McpInv(b)'
    BY DEF AgentInv, McpInv
  <1> QED
    BY <1>3, <1>4 DEF AgentInv

\* One step of a run, at one agent: to its next step, to the next agent when it
\* is as it is to be, or out of the run.
LEMMA AgentStep ==
  ASSUME Wiring!FleetAssumption, WiringInv, NEW c \in Wiring!A, NEW step, wpc = <<c, step>>,
         UNCHANGED <<agents, shape, enabled, bound, interrupted, edits>>,
         config' \in [Wiring!A -> [Servers -> ConfigValues]], recorded' \in [Wiring!A -> Sidecars],
         Elsewhere(c),
         \/ wired' = wired /\ \E next : wpc' = <<c, next>> /\ Where(c, next)
         \/ wired' = wired /\ wpc' = Wiring!Idle
         \/ wired' = (c = Len(agents)) /\ wpc' = Wiring!StartOf(c + 1) /\ Good(c)',
         AgentInv(c)'
  PROVE  WiringInv'
  <1>1. /\ Wiring!A' = Wiring!A /\ ~wired /\ wpc[1] = c /\ wpc # Wiring!Idle
        /\ Len(agents) \in Nat /\ Wiring!A = 1 .. Len(agents) /\ c \in Nat \ {0} /\ c + 1 \in Nat \ {0}
    <2>1. Wiring!A = 1 .. Len(agents) /\ Len(agents) \in Nat
      BY FleetIs DEF WiringInv
    <2>2. c # 0 /\ c \in Nat
      BY <2>1
    <2>3. wpc # Wiring!Idle /\ wpc[1] = c
      BY <2>2 DEF Wiring!Idle
    <2> QED
      BY <2>1, <2>2, <2>3 DEF Wiring!A, WiringInv, Running
  <1>2. \A a, s : Where(a, s)' <=> Where(a, s)
    BY DEF Where
  <1>3. \/ wpc' = Wiring!Idle
        \/ \E next : wpc' = <<c, next>> /\ Where(c, next)
        \/ c + 1 \in Wiring!A /\ \E next \in {"generate", "block", "delete"} :
                                    wpc' = <<c + 1, next>> /\ Where(c + 1, next)
    BY <1>1, StartIs DEF WiringInv
  <1>4. wpc' # Wiring!Idle => ~wired'
    <2>1. CASE wpc' = Wiring!StartOf(c + 1) /\ wired' = (c = Len(agents))
      <3>1. c = Len(agents) => Wiring!StartOf(c + 1) = Wiring!Idle
        BY <1>1 DEF Wiring!StartOf
      <3> QED
        BY <2>1, <3>1
    <2>2. CASE wired' = wired
      BY <1>1, <2>2
    <2> QED
      BY <2>1, <2>2
  <1>5. WiringTyped' /\ Running'
    <2>1. wired' \in BOOLEAN
      BY DEF WiringInv, WiringTyped
    <2>2. Running'
      BY <1>1, <1>2, <1>3, <1>4 DEF Running
    <2> QED
      BY <1>1, <2>1, <2>2 DEF WiringInv, WiringTyped
  <1>6. ASSUME NEW b \in Wiring!A, b # c
        PROVE  AgentInv(b)'
    <2>1. \A s \in {"require", "sync", "record", "mark", "approve"} :
             wpc # <<b, s>> /\ wpc' # <<b, s>>
      <3>1. b # 0
        BY <1>1
      <3> QED
        BY <1>3, <1>6, <3>1 DEF Wiring!Idle
    <2> QED
      BY <1>6, <2>1, OtherKept DEF WiringInv, Elsewhere
  <1>7. ASSUME NEW b \in Wiring!A, Passed(b)'
        PROVE  Good(b)'
    <2>1. b = c => wired' = (c = Len(agents)) /\ wpc' = Wiring!StartOf(c + 1) /\ Good(c)'
      <3>1. CASE wired' = wired /\ \E next : wpc' = <<c, next>>
        BY <1>1, <1>7, <3>1 DEF Passed
      <3>2. CASE wired' = wired /\ wpc' = Wiring!Idle
        BY <1>1, <1>7, <3>2 DEF Passed
      <3> QED
        BY <3>1, <3>2
    <2>2. b # c => b < c
      <3>1. CASE wired' = wired /\ \E next : wpc' = <<c, next>>
        BY <1>1, <1>7, <3>1 DEF Passed
      <3>2. CASE wired' = wired /\ wpc' = Wiring!Idle
        BY <1>1, <1>7, <3>2 DEF Passed
      <3>3. CASE wired' = (c = Len(agents)) /\ wpc' = Wiring!StartOf(c + 1)
        <4>1. CASE c = Len(agents)
          BY <1>1, <4>1
        <4>2. CASE c # Len(agents)
          <5>1. wpc' # Wiring!Idle /\ b < wpc'[1]
            BY <1>7, <3>3, <4>2 DEF Passed
          <5>2. wpc'[1] = c + 1
            BY <1>1, <1>3, <3>3, <4>2, <5>1, StartIs DEF WiringInv
          <5> QED
            BY <1>1, <5>1, <5>2
        <4> QED
          BY <4>1, <4>2
      <3> QED
        BY <3>1, <3>2, <3>3
    <2>3. CASE b # c
      <3>1. Passed(b)
        BY <1>1, <2>2, <2>3 DEF Passed
      <3> QED
        BY <2>3, <3>1, GoodKept DEF WiringInv, Elsewhere
    <2> QED
      BY <2>1, <2>3
  <1> QED
    BY <1>1, <1>5, <1>6, <1>7 DEF WiringInv

------------------------------------------------------------------------------
\* Each agent's own steps.
LEMMA StepIs ==
  ASSUME Wiring!FleetAssumption, WiringInv, NEW c \in Wiring!A, NEW step, Wiring!At(c, step)
  PROVE  /\ wpc = <<c, step>> /\ Where(c, step) /\ c # 0 /\ c + 1 # c
         /\ UNCHANGED <<agents, shape, enabled, bound, interrupted, edits>>
         /\ config \in [Wiring!A -> [Servers -> ConfigValues]] /\ recorded \in [Wiring!A -> Sidecars]
         /\ config[c] \in [Servers -> ConfigValues] /\ recorded[c] \in Sidecars
         /\ \A next : Wiring!Step(c, next) => wpc' = <<c, next>> /\ wired' = wired
         /\ Wiring!Done(c) => /\ wpc' = Wiring!StartOf(c + 1) /\ wired' = (c = Len(agents))
                              /\ \A next : wpc' # <<c, next>>
         /\ AgentInv(c)
  <1>1. wpc = <<c, step>> /\ UNCHANGED <<agents, shape, enabled, bound, interrupted, edits>>
    BY DEF Wiring!At, Wiring!manifest
  <1>2. c \in Nat \ {0} /\ c + 1 \in Nat \ {0} /\ c + 1 # c
    BY FleetIs DEF WiringInv
  <1>3. Where(c, step)
    BY <1>1, <1>2 DEF WiringInv, Running, Wiring!Idle
  <1>4. \A next : Wiring!StartOf(c + 1) # <<c, next>>
    BY <1>2, StartIs DEF WiringInv, Wiring!Idle
  <1> QED
    BY <1>1, <1>2, <1>3, <1>4 DEF Wiring!Step, Wiring!Done, WiringInv, WiringTyped

LEMMA DeleteStep ==
  ASSUME Wiring!FleetAssumption, WiringInv, NEW c \in Wiring!A, Wiring!DeleteStale(c)
  PROVE  WiringInv'
  <1> DEFINE Ref == Wiring!RefRequired(c)
             entries == Wiring!Without(config[c], recorded[c].servers \ Ref)
  <1>1. Wiring!At(c, "delete")
    BY DEF Wiring!DeleteStale
  <1>2. agents[c].role = "json" /\ JsonInv(c)
    BY <1>1, StepIs DEF Where, AgentInv
  <1>3. /\ config' = [config EXCEPT ![c] = entries] /\ recorded' = recorded
        /\ mcp' = mcp /\ marker' = marker /\ approvals' = approvals /\ wired' = wired
        /\ \/ wpc' = <<c, "sync">> /\ Ref = {} /\ recorded[c].servers = {}
           \/ wpc' = <<c, "require">>
    BY DEF Wiring!DeleteStale, Wiring!Write, Wiring!Step
  <1>4. /\ entries \in [Servers -> ConfigValues]
        /\ \A s \in Servers : entries[s] = IF s \in recorded[c].servers \ Ref THEN "absent"
                                           ELSE config[c][s]
    <2>1. config[c] \in [Servers -> ConfigValues]
      BY <1>1, StepIs
    <2> QED
      BY <2>1, WithoutIs
  <1> HIDE DEF entries
  <1>5. config' \in [Wiring!A -> [Servers -> ConfigValues]] /\ Elsewhere(c) /\ config'[c] = entries
    BY <1>1, <1>3, <1>4, StepIs DEF Elsewhere
  <1>6. OnlyOf(c, recorded[c].servers \cup recorded[c].plugins)
    BY <1>1, <1>2, StepIs DEF JsonInv
  <1>7. OnlyOf(c, Ref \cup recorded[c].plugins)'
    <2>1. "absent" \notin Wiring!Rendered
      BY DEF Wiring!Rendered
    <2>2. Ref' = Ref /\ interrupted' = interrupted
      BY <1>1, StepIs, SameManifest
    <2>3. interrupted \/ \A s \in Servers :
             config'[c][s] \in Wiring!Rendered => s \in Ref \cup recorded[c].plugins
      BY <1>4, <1>5, <1>6, <2>1 DEF OnlyOf, Wired
    <2> QED
      BY <1>3, <2>2, <2>3 DEF OnlyOf, Wired
  <1>8. JsonInv(c)'
    <2>1. Wiring!IsRef(c)' = Wiring!IsRef(c) /\ Ref' = Ref /\ shape' = shape
      BY <1>1, StepIs, SameManifest
    <2>2. wpc' = <<c, "sync">> => HasAll(c, Ref)' /\ recorded'[c].servers = Ref'
      BY <1>3, <2>1 DEF HasAll
    <2> QED
      BY <1>2, <1>3, <1>7, <2>1, <2>2 DEF JsonInv
  <1>9. AgentInv(c)'
    BY <1>1, <1>2, <1>8, StepIs DEF AgentInv
  <1>10. \E next : wpc' = <<c, next>> /\ Where(c, next)
    BY <1>2, <1>3 DEF Where
  <1> QED
    BY <1>1, <1>3, <1>5, <1>9, <1>10, StepIs, AgentStep

LEMMA RequireStep ==
  ASSUME Wiring!FleetAssumption, WiringInv, NEW c \in Wiring!A, NEW r \in Servers, Wiring!WriteRequired(c, r)
  PROVE  WiringInv'
  <1> DEFINE Ref == Wiring!RefRequired(c)
             entries == Wiring!With(config[c], c, {r})
  <1>1. Wiring!At(c, "require") /\ r \in Ref
    BY DEF Wiring!WriteRequired
  <1>2. agents[c].role = "json" /\ JsonInv(c)
    BY <1>1, StepIs DEF Where, AgentInv
  <1>3. /\ config' = [config EXCEPT ![c] = entries] /\ recorded' = recorded
        /\ mcp' = mcp /\ marker' = marker /\ approvals' = approvals /\ wired' = wired
        /\ wpc' = <<c, "require">>
    BY DEF Wiring!WriteRequired, Wiring!Write, Wiring!Step
  <1>4. /\ entries \in [Servers -> ConfigValues]
        /\ \A s \in Servers : s # r => entries[s] = config[c][s]
    BY <1>1, StepIs, WithIs
  <1> HIDE DEF entries
  <1>5. config' \in [Wiring!A -> [Servers -> ConfigValues]] /\ Elsewhere(c) /\ config'[c] = entries
    BY <1>1, <1>3, <1>4, StepIs DEF Elsewhere
  <1>6. OnlyOf(c, Ref \cup recorded[c].plugins)
    BY <1>1, <1>2, StepIs DEF JsonInv
  <1>7. OnlyOf(c, Ref \cup recorded[c].plugins)'
    <2>1. Ref' = Ref /\ interrupted' = interrupted
      BY <1>1, StepIs, SameManifest
    <2>2. interrupted \/ \A s \in Servers :
             config'[c][s] \in Wiring!Rendered => s \in Ref \cup recorded[c].plugins
      BY <1>1, <1>4, <1>5, <1>6 DEF OnlyOf, Wired
    <2> QED
      BY <1>3, <2>1, <2>2 DEF OnlyOf, Wired
  <1>8. JsonInv(c)'
    <2>1. Wiring!IsRef(c)' = Wiring!IsRef(c) /\ shape' = shape
      BY <1>1, StepIs, SameManifest
    <2> QED
      BY <1>2, <1>3, <1>7, <2>1 DEF JsonInv
  <1>9. AgentInv(c)'
    BY <1>1, <1>2, <1>8, StepIs DEF AgentInv
  <1>10. \E next : wpc' = <<c, next>> /\ Where(c, next)
    BY <1>2, <1>3 DEF Where
  <1> QED
    BY <1>1, <1>3, <1>5, <1>9, <1>10, StepIs, AgentStep

LEMMA RecordRequiredStep ==
  ASSUME Wiring!FleetAssumption, WiringInv, NEW c \in Wiring!A, Wiring!RecordRequired(c)
  PROVE  WiringInv'
  <1> DEFINE Ref == Wiring!RefRequired(c)
  <1>1. Wiring!At(c, "require") /\ HasAll(c, Ref)
    BY DEF Wiring!RecordRequired, HasAll
  <1>2. agents[c].role = "json" /\ JsonInv(c)
    BY <1>1, StepIs DEF Where, AgentInv
  <1>3. /\ recorded' = [recorded EXCEPT ![c].servers = Ref] /\ config' = config
        /\ mcp' = mcp /\ marker' = marker /\ approvals' = approvals /\ wired' = wired
        /\ wpc' = <<c, "sync">>
    BY DEF Wiring!RecordRequired, Wiring!Step
  <1>4. /\ Ref' = Ref /\ interrupted' = interrupted /\ Wiring!IsRef(c)' = Wiring!IsRef(c) /\ shape' = shape
        /\ \A s : Wiring!Entry(c, s)' = Wiring!Entry(c, s)
    BY <1>1, StepIs, SameManifest
  <1>5. /\ recorded' \in [Wiring!A -> Sidecars] /\ Elsewhere(c)
        /\ recorded'[c].servers = Ref /\ recorded'[c].plugins = recorded[c].plugins
    <2>1. Ref \subseteq Servers
      BY NamesAreServers DEF WiringInv, WiringTyped
    <2>2. recorded \in [Wiring!A -> Sidecars] /\ recorded[c] \in Sidecars
      BY <1>1, StepIs
    <2> QED
      BY <1>3, <2>1, <2>2 DEF Elsewhere, Sidecars
  <1>6. OnlyOf(c, Ref \cup recorded[c].plugins)
    BY <1>1, <1>2, StepIs DEF JsonInv
  <1>7. JsonInv(c)'
    BY <1>1, <1>2, <1>3, <1>4, <1>5, <1>6 DEF JsonInv, OnlyOf, Wired, HasAll
  <1>9. AgentInv(c)'
    BY <1>1, <1>2, <1>7, StepIs DEF AgentInv
  <1>10. \E next : wpc' = <<c, next>> /\ Where(c, next)
    BY <1>2, <1>3 DEF Where
  <1> QED
    BY <1>1, <1>3, <1>5, <1>9, <1>10, StepIs, AgentStep

\* What the local plugins have needs no secret, what is required does: neither
\* takes the other's place, as long as no definition changes.
LEMMA SyncStep ==
  ASSUME Wiring!FleetAssumption, WiringInv, NEW c \in Wiring!A, Wiring!SyncPlugins(c)
  PROVE  WiringInv'
  <1> DEFINE Ref == Wiring!RefRequired(c)
             base == Wiring!Without(config[c], recorded[c].plugins)
             entries == Wiring!With(base, c, Wiring!LocalFor(c))
  <1>1. Wiring!At(c, "sync")
    BY DEF Wiring!SyncPlugins
  <1>2. agents[c].role = "json" /\ JsonInv(c)
    BY <1>1, StepIs DEF Where, AgentInv
  <1>3. /\ config' = [config EXCEPT ![c] = entries] /\ recorded' = recorded
        /\ mcp' = mcp /\ marker' = marker /\ approvals' = approvals /\ wired' = wired
        /\ wpc' = <<c, "record">>
    BY DEF Wiring!SyncPlugins, Wiring!Write, Wiring!Step
  <1>4. /\ base \in [Servers -> ConfigValues]
        /\ \A s \in Servers : base[s] = IF s \in recorded[c].plugins THEN "absent"
                                        ELSE config[c][s]
    <2>1. config[c] \in [Servers -> ConfigValues]
      BY <1>1, StepIs
    <2> QED
      BY <2>1, WithoutIs
  <1> HIDE DEF base
  <1>5. /\ entries \in [Servers -> ConfigValues]
        /\ \A s \in Servers : entries[s] = IF s \in Wiring!LocalFor(c) THEN Wiring!Entry(c, s) ELSE base[s]
    BY <1>4, WithIs
  <1> HIDE DEF entries
  <1>6. config' \in [Wiring!A -> [Servers -> ConfigValues]] /\ Elsewhere(c) /\ config'[c] = entries
    BY <1>1, <1>3, <1>5, StepIs DEF Elsewhere
  <1>7. /\ HasAll(c, Ref) /\ recorded[c].servers = Ref
        /\ OnlyOf(c, Ref \cup recorded[c].plugins)
    BY <1>1, <1>2, StepIs DEF JsonInv
  <1>8. /\ Wiring!Wanted(c) = Wiring!LocalFor(c) \cup Ref /\ Wiring!Wanted(c) \subseteq Servers
        /\ Stable => \A s \in Ref : s \notin recorded[c].plugins
    <2>1. Wiring!Wanted(c) \subseteq Servers
      BY NamesAreServers DEF WiringInv, WiringTyped
    <2>2. Stable => \A s \in Ref : s \notin recorded[c].plugins
      BY <1>2, RequiredOrNot DEF JsonInv
    <2> QED
      BY <1>2, <2>1, <2>2, NamesWanted
  <1>9. Stable => \A s \in Wiring!Wanted(c) : entries[s] = Wiring!Entry(c, s)
    BY <1>4, <1>5, <1>7, <1>8 DEF HasAll
  <1>10. interrupted \/ \A s \in Servers : entries[s] \in Wiring!Rendered => s \in Wiring!Wanted(c)
    <2>1. "absent" \notin Wiring!Rendered
      BY DEF Wiring!Rendered
    <2> QED
      BY <1>4, <1>5, <1>7, <1>8, <2>1 DEF OnlyOf, Wired
  <1>11. /\ Wiring!Wanted(c)' = Wiring!Wanted(c) /\ Ref' = Ref /\ interrupted' = interrupted
         /\ Wiring!IsRef(c)' = Wiring!IsRef(c) /\ shape' = shape
         /\ \A s : Wiring!Entry(c, s)' = Wiring!Entry(c, s)
    BY <1>1, StepIs, SameManifest
  <1>12. (Stable => HasAll(c, Wiring!Wanted(c))') /\ OnlyOf(c, Wiring!Wanted(c))'
    BY <1>6, <1>9, <1>10, <1>11 DEF HasAll, OnlyOf, Wired
  <1>13. JsonInv(c)'
    BY <1>2, <1>3, <1>7, <1>11, <1>12 DEF JsonInv
  <1>14. AgentInv(c)'
    BY <1>1, <1>2, <1>13, StepIs DEF AgentInv
  <1>15. \E next : wpc' = <<c, next>> /\ Where(c, next)
    BY <1>2, <1>3 DEF Where
  <1> QED
    BY <1>1, <1>3, <1>6, <1>14, <1>15, StepIs, AgentStep

LEMMA RecordPluginsStep ==
  ASSUME Wiring!FleetAssumption, WiringInv, NEW c \in Wiring!A, Wiring!RecordPlugins(c)
  PROVE  WiringInv'
  <1>1. Wiring!At(c, "record")
    BY DEF Wiring!RecordPlugins
  <1>2. agents[c].role = "json" /\ JsonInv(c)
    BY <1>1, StepIs DEF Where, AgentInv
  <1>3. /\ recorded' = [recorded EXCEPT ![c].plugins = Wiring!LocalFor(c)] /\ config' = config
        /\ mcp' = mcp /\ marker' = marker /\ approvals' = approvals /\ Wiring!Done(c)
    BY DEF Wiring!RecordPlugins
  <1>4. /\ Wiring!Wanted(c)' = Wiring!Wanted(c) /\ interrupted' = interrupted
        /\ Wiring!IsRef(c)' = Wiring!IsRef(c) /\ shape' = shape /\ agents' = agents
        /\ \A s : Wiring!Entry(c, s)' = Wiring!Entry(c, s)
    BY <1>1, StepIs, SameManifest
  <1>5. /\ recorded' \in [Wiring!A -> Sidecars] /\ Elsewhere(c)
        /\ recorded'[c].servers = recorded[c].servers /\ recorded'[c].plugins = Wiring!LocalFor(c)
    <2>1. Wiring!LocalFor(c) \subseteq Servers
      BY NamesAreServers DEF WiringInv, WiringTyped
    <2>2. recorded \in [Wiring!A -> Sidecars] /\ recorded[c] \in Sidecars
      BY <1>1, StepIs
    <2> QED
      BY <1>3, <2>1, <2>2 DEF Elsewhere, Sidecars
  <1>6. /\ Stable => HasAll(c, Wiring!Wanted(c))
        /\ recorded[c].servers = Wiring!RefRequired(c)
        /\ OnlyOf(c, Wiring!Wanted(c)) /\ Wiring!Wanted(c) = Wiring!LocalFor(c) \cup Wiring!RefRequired(c)
    BY <1>1, <1>2, StepIs, NamesWanted DEF JsonInv
  <1>7. (Stable => HasAll(c, Wiring!Wanted(c))') /\ OnlyOf(c, Wiring!Wanted(c))'
    BY <1>3, <1>4, <1>6 DEF HasAll, OnlyOf, Wired
  <1>8. Good(c)'
    <2>1. \A s \in Servers : config'[c][s] \in ConfigValues
      BY <1>1, <1>3, StepIs
    <2> QED
      BY <1>2, <1>4, <1>7, <2>1 DEF Good, OnlyOf, Wired, ConfigValues
  <1>9. \A next : wpc' # <<c, next>>
    BY <1>1, <1>3, StepIs
  <1>10. OnlyOf(c, recorded[c].servers \cup recorded[c].plugins)'
    BY <1>4, <1>5, <1>6, <1>7 DEF OnlyOf
  <1>11. Wiring!IsRef(c) => \A s \in Wiring!LocalFor(c) : ~shape[s].requires
    BY RequiredOrNot
  <1>12. JsonInv(c)'
    BY <1>4, <1>5, <1>9, <1>10, <1>11 DEF JsonInv
  <1>13. AgentInv(c)'
    BY <1>2, <1>4, <1>12 DEF AgentInv
  <1> QED
    BY <1>1, <1>3, <1>5, <1>8, <1>13, StepIs, AgentStep

LEMMA BlockStep ==
  ASSUME Wiring!FleetAssumption, WiringInv, NEW c \in Wiring!A, Wiring!ReplaceBlock(c)
  PROVE  WiringInv'
  <1> DEFINE kept == [s \in Servers |-> IF config[c][s] = "hand" THEN "hand" ELSE "absent"]
             entries == Wiring!With(kept, c, Wiring!Wanted(c))
  <1>1. Wiring!At(c, "block")
    BY DEF Wiring!ReplaceBlock
  <1>2. agents[c].role = "block"
    BY <1>1, StepIs DEF Where
  <1>3. agents' = agents /\ interrupted' = interrupted
    BY <1>1, StepIs
  <1>4. AgentInv(c)'
    BY <1>2, <1>3 DEF AgentInv
  <1>5. CASE Wiring!Raise
    <2>1. wpc' = Wiring!Idle /\ wired' = wired /\ config' = config /\ recorded' = recorded
          /\ mcp' = mcp /\ marker' = marker /\ approvals' = approvals
      BY <1>5 DEF Wiring!Raise, Wiring!files
    <2> QED
      BY <1>1, <1>4, <2>1, StepIs, AgentStep DEF Elsewhere
  <1>6. CASE ~Wiring!Raise
    <2>1. /\ config' = [config EXCEPT ![c] = entries] /\ Wiring!Done(c)
          /\ recorded' = recorded /\ mcp' = mcp /\ marker' = marker /\ approvals' = approvals
      BY <1>6 DEF Wiring!ReplaceBlock, Wiring!Write
    <2>2. kept \in [Servers -> ConfigValues] /\ \A s \in Servers : kept[s] \in {"absent", "hand"}
      BY DEF ConfigValues
    <2> HIDE DEF kept
    <2>3. /\ entries \in [Servers -> ConfigValues]
          /\ \A s \in Servers : entries[s] = IF s \in Wiring!Wanted(c) THEN Wiring!Entry(c, s) ELSE kept[s]
      BY <2>2, WithIs
    <2> HIDE DEF entries
    <2>4. config' \in [Wiring!A -> [Servers -> ConfigValues]] /\ Elsewhere(c) /\ config'[c] = entries
      BY <1>1, <2>1, <2>3, StepIs DEF Elsewhere
    <2>5. Wiring!Wanted(c) \subseteq Servers
      BY NamesAreServers DEF WiringInv, WiringTyped
    <2>6. Wiring!Wanted(c)' = Wiring!Wanted(c) /\ \A s : Wiring!Entry(c, s)' = Wiring!Entry(c, s)
      BY <1>1, StepIs, SameManifest
    <2>7. Good(c)'
      BY <1>2, <1>3, <2>2, <2>3, <2>4, <2>5, <2>6 DEF Good, HasAll
    <2> QED
      BY <1>1, <1>4, <2>1, <2>4, <2>7, StepIs, AgentStep
  <1> QED
    BY <1>5, <1>6

\* At most one agent has a .mcp.json.
LEMMA OneMcp ==
  ASSUME Wiring!FleetAssumption, WiringInv, NEW c \in Wiring!A, agents[c].role = "preapprove"
  PROVE  \A b \in Wiring!A \ {c} : agents[b].role # "preapprove"
  BY FleetIs DEF WiringInv

LEMMA GenerateStep ==
  ASSUME Wiring!FleetAssumption, WiringInv, NEW c \in Wiring!A, Wiring!GenerateMcp(c)
  PROVE  WiringInv'
  <1> DEFINE entries == Wiring!With(Wiring!NoServers, c, Wiring!Wanted(c))
  <1>1. Wiring!At(c, "generate")
    BY DEF Wiring!GenerateMcp
  <1>2. agents[c].role = "preapprove" /\ McpInv(c)
    BY <1>1, StepIs DEF Where, AgentInv
  <1>3. agents' = agents /\ recorded' = recorded /\ marker' = marker /\ approvals' = approvals
    BY <1>1, StepIs DEF Wiring!GenerateMcp
  <1> DEFINE Skips == mcp = "norepos" \/ (mcp = "file" /\ ~marker)
  <1>4. CASE Skips
    <2>1. config' = config /\ mcp' = mcp /\ wpc' = <<c, "approve">> /\ wired' = wired
      BY <1>1, <1>4, StepIs DEF Wiring!GenerateMcp
    <2>2. ~marker /\ mcp # "none"
      BY <1>2, <1>4 DEF McpInv
    <2>3. AgentInv(c)'
      BY <1>2, <1>3, <2>1, <2>2 DEF AgentInv, McpInv
    <2>4. \E next : wpc' = <<c, next>> /\ Where(c, next)
      BY <1>2, <2>1 DEF Where
    <2> QED
      BY <1>1, <1>3, <2>1, <2>3, <2>4, StepIs, AgentStep DEF Elsewhere
  <1>5. CASE ~Skips
    <2>1. config' = [config EXCEPT ![c] = entries] /\ mcp' = "file" /\ wpc' = <<c, "mark">> /\ wired' = wired
      BY <1>1, <1>5, StepIs DEF Wiring!GenerateMcp, Wiring!Write
    <2>2. Wiring!NoServers \in [Servers -> ConfigValues] /\ \A s \in Servers : Wiring!NoServers[s] = "absent"
      BY DEF ConfigValues, Wiring!NoServers
    <2>3. /\ entries \in [Servers -> ConfigValues]
          /\ \A s \in Servers : entries[s] = IF s \in Wiring!Wanted(c) THEN Wiring!Entry(c, s) ELSE "absent"
      BY <2>2, WithIs
    <2> HIDE DEF entries
    <2>4. config' \in [Wiring!A -> [Servers -> ConfigValues]] /\ Elsewhere(c) /\ config'[c] = entries
      BY <1>1, <1>2, <1>3, <2>1, <2>3, OneMcp, StepIs DEF Elsewhere
    <2>5. Wiring!Wanted(c)' = Wiring!Wanted(c) /\ \A s : Wiring!Entry(c, s)' = Wiring!Entry(c, s)
      BY <1>1, StepIs, SameManifest
    <2>6. Generated(c)'
      BY <2>3, <2>4, <2>5 DEF Generated
    <2>7. AgentInv(c)'
      BY <1>2, <1>3, <2>1, <2>6 DEF AgentInv, McpInv
    <2>8. \E next : wpc' = <<c, next>> /\ Where(c, next)
      BY <1>2, <2>1 DEF Where
    <2> QED
      BY <1>1, <1>3, <2>1, <2>4, <2>7, <2>8, StepIs, AgentStep
  <1> QED
    BY <1>4, <1>5

LEMMA MarkStep ==
  ASSUME Wiring!FleetAssumption, WiringInv, NEW c \in Wiring!A, Wiring!Mark(c)
  PROVE  WiringInv'
  <1>1. Wiring!At(c, "mark")
    BY DEF Wiring!Mark
  <1>2. agents[c].role = "preapprove" /\ McpInv(c)
    BY <1>1, StepIs DEF Where, AgentInv
  <1>3. /\ agents' = agents /\ config' = config /\ recorded' = recorded /\ approvals' = approvals
        /\ mcp' = mcp /\ marker' = TRUE /\ wpc' = <<c, "approve">> /\ wired' = wired
    BY <1>1, StepIs DEF Wiring!Mark
  <1>4. Elsewhere(c)
    BY <1>2, <1>3, OneMcp DEF Elsewhere
  <1>5. Wiring!Wanted(c)' = Wiring!Wanted(c) /\ \A s : Wiring!Entry(c, s)' = Wiring!Entry(c, s)
    BY <1>1, StepIs, SameManifest
  <1>6. Generated(c) /\ mcp = "file"
    BY <1>1, <1>2, StepIs DEF McpInv
  <1>7. Generated(c)'
    BY <1>3, <1>5, <1>6 DEF Generated
  <1>8. AgentInv(c)'
    BY <1>2, <1>3, <1>6, <1>7 DEF AgentInv, McpInv
  <1>9. \E next : wpc' = <<c, next>> /\ Where(c, next)
    BY <1>2, <1>3 DEF Where
  <1> QED
    BY <1>1, <1>3, <1>4, <1>8, <1>9, StepIs, AgentStep

LEMMA PreapproveStep ==
  ASSUME Wiring!FleetAssumption, WiringInv, NEW c \in Wiring!A, Wiring!Preapprove(c)
  PROVE  WiringInv'
  <1>1. Wiring!At(c, "approve")
    BY DEF Wiring!Preapprove
  <1>2. agents[c].role = "preapprove" /\ McpInv(c)
    BY <1>1, StepIs DEF Where, AgentInv
  <1>3. /\ agents' = agents /\ config' = config /\ recorded' = recorded
        /\ mcp' = mcp /\ marker' = marker
        /\ \/ wpc' = Wiring!Idle /\ wired' = wired
           \/ Wiring!Done(c) /\ (mcp = "file" => approvals' = Wiring!Names(config[c]))
    BY <1>1, StepIs DEF Wiring!Preapprove, Wiring!Raise, Wiring!files
  <1>4. Elsewhere(c)
    BY <1>2, <1>3, OneMcp DEF Elsewhere
  <1>5. wpc' # <<c, "mark">> /\ wpc' # <<c, "approve">>
    BY <1>1, <1>3, StepIs DEF Wiring!Idle
  <1>6. AgentInv(c)'
    BY <1>2, <1>3, <1>5 DEF AgentInv, McpInv
  <1>7. CASE Wiring!Done(c) /\ (mcp = "file" => approvals' = Wiring!Names(config[c]))
    <2>1. Wiring!Wanted(c)' = Wiring!Wanted(c) /\ \A s : Wiring!Entry(c, s)' = Wiring!Entry(c, s)
      BY <1>1, StepIs, SameManifest
    <2>2. (marker => Generated(c)) /\ (marker \/ mcp # "none")
      BY <1>1, <1>2, StepIs DEF McpInv
    <2>3. Wiring!Wanted(c) \subseteq Servers
      BY NamesAreServers DEF WiringInv, WiringTyped
    <2>4. ~Wiring!NotOurs(c)' => Generated(c)
      BY <1>2, <1>3, <2>2 DEF Wiring!NotOurs, Wiring!IsClaude
    <2>5. Wiring!Names(config[c])' = Wiring!Names(config[c])
      BY <1>3 DEF Wiring!Names
    <2>6. Good(c)'
      BY <1>3, <1>7, <2>1, <2>3, <2>4, <2>5 DEF Good, HasAll, Generated
    <2> QED
      BY <1>1, <1>3, <1>4, <1>6, <1>7, <2>6, StepIs, AgentStep
  <1>8. CASE wpc' = Wiring!Idle /\ wired' = wired
    BY <1>1, <1>3, <1>4, <1>6, <1>8, StepIs, AgentStep
  <1> QED
    BY <1>3, <1>7, <1>8

------------------------------------------------------------------------------
\* Between two runs, and the end of one that died.

\* No agent is at a step that the invariant says something special of.
Quiet ==
    \A a \in Wiring!A : \A step \in {"require", "sync", "record", "mark", "approve"} :
        wpc # <<a, step>>

LEMMA BetweenRuns ==
  ASSUME WiringInv, Quiet', WiringTyped', Running', ~wired', wpc' = Wiring!Idle \/ wpc'[1] = 1,
         UNCHANGED <<agents, recorded, marker>>,
         Stable => shape' = shape,
         Wiring!A = 1 .. Len(agents), Len(agents) \in Nat,
         interrupted' \/ (Quiet /\ interrupted' = interrupted),
         \A b \in Wiring!A : /\ agents[b].role = "preapprove" =>
                                 mcp' = "file" \/ (mcp # "file" /\ config'[b] = config[b])
                             /\ \A s \in Servers : \/ config'[b][s] = config[b][s]
                                                   \/ config'[b][s] \in {"hand", "absent"}
  PROVE  WiringInv'
  <1>1. \A a \in Wiring!A : ~Passed(a)'
    BY DEF Passed
  <1>2. Wiring!A' = Wiring!A /\ \A a \in Wiring!A : Wiring!IsRef(a)' = Wiring!IsRef(a)
    BY DEF Wiring!A, Wiring!IsRef
  <1>3. ASSUME NEW b \in Wiring!A, agents[b].role = "json"
        PROVE  JsonInv(b)'
    <2>1. JsonInv(b)
      BY <1>3 DEF WiringInv, AgentInv
    <2>2. interrupted' \/ (interrupted' = interrupted
                           /\ OnlyOf(b, recorded[b].servers \cup recorded[b].plugins))
      BY <2>1 DEF JsonInv, Quiet
    <2>3. Wired(b)' \subseteq Wired(b)
      <3>1. "hand" \notin Wiring!Rendered /\ "absent" \notin Wiring!Rendered
        BY DEF Wiring!Rendered
      <3> QED
        BY <1>3, <3>1 DEF Wired
    <2>4. OnlyOf(b, recorded[b].servers \cup recorded[b].plugins)'
      BY <2>2, <2>3 DEF OnlyOf
    <2> QED
      BY <1>2, <2>1, <2>4 DEF JsonInv, Quiet
  <1>4. ASSUME NEW b \in Wiring!A, agents[b].role = "preapprove"
        PROVE  McpInv(b)'
    BY <1>2, <1>4 DEF WiringInv, AgentInv, McpInv, Quiet
  <1> QED
    BY <1>1, <1>2, <1>3, <1>4 DEF WiringInv, AgentInv

\* The first repos/ of a bottle may come up between two runs or during one; then
\* there is no .mcp.json, and the run that has passed claude by is not to be blamed.
LEMMA ReposStep ==
  ASSUME Wiring!FleetAssumption, WiringInv, Wiring!ReposAppear
  PROVE  WiringInv'
  <1>1. /\ mcp = "norepos" /\ mcp' = IF wpc = Wiring!Idle THEN "none" ELSE "late"
        /\ wired' = FALSE
        /\ UNCHANGED <<agents, shape, enabled, bound, wpc, config, recorded, marker, approvals,
                       interrupted, edits>>
    BY DEF Wiring!ReposAppear, Wiring!manifest
  <1>2. WiringTyped' /\ Running' /\ Wiring!A' = Wiring!A
    BY <1>1 DEF WiringInv, WiringTyped, Running, Where, Wiring!A, Wiring!Idle
  <1>3. ASSUME NEW a \in Wiring!A
        PROVE  AgentInv(a)' /\ (Passed(a)' => Good(a)')
    <2>1. /\ Wiring!Wanted(a)' = Wiring!Wanted(a) /\ Wiring!RefRequired(a)' = Wiring!RefRequired(a)
          /\ Wiring!IsRef(a)' = Wiring!IsRef(a) /\ \A s : Wiring!Entry(a, s)' = Wiring!Entry(a, s)
      BY <1>1, SameManifest
    <2>2. AgentInv(a) /\ (Passed(a)' => Passed(a) /\ Good(a))
      BY <1>1 DEF WiringInv, Passed, Wiring!Idle
    <2>3. agents[a].role = "json" => JsonInv(a)'
      BY <1>1, <2>1, <2>2 DEF AgentInv, JsonInv, HasAll, OnlyOf, Wired
    <2>4. agents[a].role = "preapprove" => ~marker /\ \A step : wpc = <<a, step>> => wpc # Wiring!Idle
      <3>1. a # 0
        BY FleetIs DEF WiringInv
      <3> QED
        BY <1>1, <2>2, <3>1 DEF AgentInv, McpInv, Wiring!Idle
    <2>5. agents[a].role = "preapprove" => McpInv(a)'
      BY <1>1, <2>2, <2>4 DEF AgentInv, McpInv
    <2>6. Passed(a)' => Good(a)'
      <3>1. Passed(a)' => mcp' = "late"
        BY <1>1 DEF Passed
      <3>2. Passed(a)' /\ Wiring!NotOurs(a) => Wiring!NotOurs(a)'
        BY <1>1, <3>1 DEF Wiring!NotOurs, Wiring!IsClaude
      <3> QED
        BY <1>1, <2>1, <2>2, <3>1, <3>2 DEF Good, HasAll
    <2> QED
      BY <1>1, <2>3, <2>5, <2>6 DEF AgentInv
  <1> QED
    BY <1>2, <1>3 DEF WiringInv

LEMMA OutsideStep ==
  ASSUME Wiring!FleetAssumption, WiringInv,
         \/ Wiring!Up \/ Wiring!EditManifest \/ Wiring!Crash \/ Wiring!ReposAppear
         \/ \E a \in Wiring!A, s \in Servers : Wiring!EditConfig(a, s)
  PROVE  WiringInv'
  <1>1. Wiring!A = 1 .. Len(agents) /\ Len(agents) \in Nat /\ 0 \notin Wiring!A /\ 1 \in Nat \ {0}
    BY FleetIs DEF WiringInv
  <1>2. wpc = Wiring!Idle => Quiet
    BY <1>1 DEF Quiet, Wiring!Idle
  <1>3. wpc' = Wiring!Idle /\ agents' = agents => Quiet' /\ (~wired' => Running')
    BY <1>1 DEF Quiet, Running, Wiring!Idle, Wiring!A
  <1>4. WiringTyped
    BY DEF WiringInv
  <1>5. CASE Wiring!Up
    <2>1. /\ wpc = Wiring!Idle /\ wpc' = Wiring!StartOf(1) /\ wired' = FALSE
          /\ mcp = "file" <=> mcp' = "file"
          /\ UNCHANGED <<agents, shape, enabled, bound, config, recorded, marker, approvals,
                         interrupted, edits>>
      BY <1>5 DEF Wiring!Up, Wiring!manifest
    <2>2. WiringTyped'
      BY <1>4, <2>1 DEF WiringTyped, Wiring!A
    <2>3. \/ wpc' = Wiring!Idle
          \/ 1 \in Wiring!A /\ \E step \in {"generate", "block", "delete"} :
                                  wpc' = <<1, step>> /\ Where(1, step)
      BY <1>1, <1>4, <2>1, StartIs
    <2>4. Quiet' /\ Running'
      BY <1>3, <2>1, <2>3 DEF Quiet, Running, Where, Wiring!A
    <2> QED
      BY <1>1, <1>2, <2>1, <2>2, <2>3, <2>4, BetweenRuns
  <1>6. CASE Wiring!EditManifest
    <2>1. /\ wpc = Wiring!Idle /\ wpc' = wpc /\ wired' = FALSE /\ enabled' \subseteq Servers
          /\ Stable => shape' = shape
          /\ UNCHANGED <<agents, config, recorded, mcp, marker, approvals, interrupted, edits>>
      BY <1>6 DEF Wiring!EditManifest, Wiring!files, Stable
    <2>2. WiringTyped'
      BY <1>4, <2>1 DEF WiringTyped, Wiring!A
    <2> QED
      BY <1>1, <1>2, <1>3, <2>1, <2>2, BetweenRuns
  <1>7. CASE Wiring!Crash
    <2>1. /\ wpc # Wiring!Idle /\ wpc' = Wiring!Idle /\ wired' = wired /\ interrupted' = TRUE
          /\ UNCHANGED <<agents, shape, enabled, config, recorded, mcp, marker, edits>>
      BY <1>7 DEF Wiring!Crash, Wiring!manifest
    <2>2. WiringTyped' /\ ~wired
      BY <1>4, <2>1 DEF WiringTyped, Wiring!A, WiringInv, Running
    <2> QED
      BY <1>1, <1>3, <2>1, <2>2, BetweenRuns
  <1>8. ASSUME NEW a \in Wiring!A, NEW s \in Servers, Wiring!EditConfig(a, s)
        PROVE  WiringInv'
    <2>1. PICK e \in {"hand", "absent"} : config' = [config EXCEPT ![a][s] = e]
      BY <1>8 DEF Wiring!EditConfig
    <2>2. /\ wpc = Wiring!Idle /\ wpc' = wpc /\ wired' = FALSE /\ edits' = edits + 1
          /\ IF agents[a].role = "preapprove" THEN mcp' = "file" ELSE mcp' = mcp
          /\ UNCHANGED <<agents, shape, enabled, recorded, marker, approvals, interrupted>>
      BY <1>8 DEF Wiring!EditConfig, Wiring!manifest, Wiring!IsClaude
    <2>3. config' \in [Wiring!A -> [Servers -> ConfigValues]]
      BY <1>4, <1>8, <2>1 DEF WiringTyped, ConfigValues
    <2>4. WiringTyped'
      <3>1. edits \in Nat /\ Wiring!A' = Wiring!A
        BY <1>4, <2>2 DEF WiringTyped, Wiring!A
      <3>2. edits' \in Nat
        BY <2>2, <3>1
      <3>3. wired' \in BOOLEAN
        BY <2>2
      <3> QED
        BY <1>4, <2>2, <2>3, <3>1, <3>2, <3>3 DEF WiringTyped
    <2>5. \A b \in Wiring!A : /\ agents[b].role = "preapprove" =>
                                 mcp' = "file" \/ (mcp # "file" /\ config'[b] = config[b])
                              /\ \A t \in Servers : \/ config'[b][t] = config[b][t]
                                                    \/ config'[b][t] \in {"hand", "absent"}
      BY <1>4, <2>1, <2>2 DEF WiringTyped
    <2> QED
      BY <1>1, <1>2, <1>3, <2>2, <2>4, <2>5, BetweenRuns
  <1>9. CASE Wiring!ReposAppear
    BY <1>9, ReposStep
  <1> QED
    BY <1>5, <1>6, <1>7, <1>8, <1>9
------------------------------------------------------------------------------
LEMMA WiringStart ==
  ASSUME Wiring!FleetAssumption, Wiring!Init
  PROVE  WiringInv
  <1>1. /\ Wiring!NoServers \in [Servers -> ConfigValues] /\ \A s \in Servers : Wiring!NoServers[s] = "absent"
        /\ \A t : [Wiring!NoServers EXCEPT ![t] = "hand"] \in [Servers -> ConfigValues]
    BY DEF Wiring!NoServers, ConfigValues
  <1>2. /\ config \in [Wiring!A -> [Servers -> ConfigValues]] /\ recorded \in [Wiring!A -> Sidecars]
        /\ \A a \in Wiring!A : recorded[a] = [servers |-> {}, plugins |-> {}]
        /\ \A a \in Wiring!A : ~(agents[a].role = "preapprove" /\ mcp = "file") => config[a] = Wiring!NoServers
    <2>1. /\ recorded = [a \in Wiring!A |-> [servers |-> {}, plugins |-> {}]]
          /\ \A a \in Wiring!A : ~(agents[a].role = "preapprove" /\ mcp = "file") => config[a] = Wiring!NoServers
      BY DEF Wiring!Init, Wiring!IsClaude
    <2>2. PICK t : config \in [Wiring!A -> {Wiring!NoServers, [Wiring!NoServers EXCEPT ![t] = "hand"]}]
      BY DEF Wiring!Init
    <2>3. recorded \in [Wiring!A -> Sidecars]
      BY <2>1 DEF Sidecars
    <2> QED
      BY <1>1, <2>1, <2>2, <2>3
  <1>3. wpc = Wiring!Idle /\ ~wired /\ ~marker /\ Wiring!Idle[1] = 0 /\ edits = 0 /\ enabled = {}
        /\ agents \in AgentFleets
    BY DEF Wiring!Init, Wiring!Idle
  <1>4. WiringTyped
    <2>1. wired \in BOOLEAN
      BY DEF Wiring!Init
    <2>2. edits \in Nat /\ enabled \subseteq Servers
      BY <1>3
    <2> QED
      BY <1>2, <1>3, <2>1, <2>2 DEF WiringTyped
  <1>5. \A a \in Wiring!A : a # 0
    BY <1>4, FleetIs
  <1>6. ASSUME NEW a \in Wiring!A
        PROVE  AgentInv(a) /\ ~Passed(a)
    <2>1. \A step : wpc # <<a, step>>
      BY <1>3, <1>5 DEF Wiring!Idle
    <2>2. agents[a].role = "json" => Wired(a) = {}
      BY <1>1, <1>2 DEF Wired, Wiring!Rendered
    <2> QED
      BY <1>1, <1>2, <1>3, <2>1, <2>2 DEF AgentInv, JsonInv, McpInv, OnlyOf, Passed
  <1> QED
    BY <1>3, <1>4, <1>6 DEF WiringInv, Running

LEMMA WiringStep ==
  ASSUME Wiring!FleetAssumption, WiringInv, [Wiring!Next]_(Wiring!vars)
  PROVE  WiringInv'
  <1>1. CASE UNCHANGED Wiring!vars
    <2>1. UNCHANGED <<agents, shape, enabled, bound, wpc, config, recorded, mcp, marker, approvals,
                      wired, interrupted, edits>>
      BY <1>1 DEF Wiring!vars, Wiring!manifest, Wiring!files
    <2>2. WiringTyped' /\ Running' /\ Wiring!A' = Wiring!A
      BY <2>1 DEF WiringInv, WiringTyped, Running, Where, Wiring!A, Wiring!Idle
    <2>3. ASSUME NEW a \in Wiring!A
          PROVE  AgentInv(a)' /\ (Passed(a)' => Good(a)')
      <3>1. /\ Wiring!Wanted(a)' = Wiring!Wanted(a) /\ Wiring!RefRequired(a)' = Wiring!RefRequired(a)
            /\ Wiring!IsRef(a)' = Wiring!IsRef(a) /\ \A s : Wiring!Entry(a, s)' = Wiring!Entry(a, s)
        BY <2>1, SameManifest
      <3>2. AgentInv(a) /\ (Passed(a)' => Good(a))
        BY <2>1 DEF WiringInv, Passed, Wiring!Idle
      <3>3. Passed(a)' => Good(a)'
        BY <2>1, <3>2, GoodKept
      <3>4. agents[a].role = "json" => JsonInv(a)'
        BY <2>1, <3>1, <3>2 DEF AgentInv, JsonInv, HasAll, OnlyOf, Wired
      <3>5. agents[a].role = "preapprove" => McpInv(a)'
        BY <2>1, <3>1, <3>2 DEF AgentInv, McpInv, Generated
      <3> QED
        BY <2>1, <3>3, <3>4, <3>5 DEF AgentInv
    <2> QED
      BY <2>2, <2>3 DEF WiringInv
  <1>2. ASSUME NEW c \in Wiring!A,
               \/ Wiring!DeleteStale(c) \/ Wiring!RecordRequired(c) \/ Wiring!SyncPlugins(c)
               \/ Wiring!RecordPlugins(c) \/ Wiring!ReplaceBlock(c) \/ Wiring!GenerateMcp(c) \/ Wiring!Mark(c)
               \/ Wiring!Preapprove(c) \/ \E s \in Servers : Wiring!WriteRequired(c, s)
        PROVE  WiringInv'
    BY <1>2, DeleteStep, RequireStep, RecordRequiredStep, SyncStep, RecordPluginsStep, BlockStep,
       GenerateStep, MarkStep, PreapproveStep
  <1> QED
    BY <1>1, <1>2, OutsideStep DEF Wiring!Next

\* Wiring by itself.
LEMMA AgentsAreWiredAlone ==
  ASSUME Wiring!FleetAssumption, PluginsChange = FALSE
  PROVE  Wiring!Spec => []Wiring!WiredAsDeclared
  <1>1. Wiring!Init => WiringInv
    BY WiringStart
  <1>2. WiringInv /\ [Wiring!Next]_(Wiring!vars) => WiringInv'
    BY WiringStep
  <1>3. WiringInv => Wiring!WiredAsDeclared
    BY DEF WiringInv, Passed, Good, HasAll, Stable, Wiring!WiredAsDeclared, Wiring!IsClaude
  <1> QED
    BY <1>1, <1>2, <1>3, PTL DEF Wiring!Spec

\* Where no plugin changes a definition, every run that finished has given each
\* agent the servers the manifest gives it and left nothing of an earlier run:
\* wire_plugins.py under hand edits, runs that died and changed manifests.
THEOREM AgentsAreWired ==
  ASSUME PluginsChange = FALSE PROVE ServicesSpec => []WiredAsDeclared
  <1>1. Wiring!Spec => []Wiring!WiredAsDeclared
    BY AgentsAreWiredAlone, ServicesAssumption DEF ServicesAssumption
  <1>2. Wiring!WiredAsDeclared \/ ~InWiring => WiredAsDeclared
    BY DEF WiredAsDeclared, InWiring
  <1> QED
    BY <1>1, <1>2, WiringRuns, PTL

LEMMA HandKept ==
  ASSUME Wiring!FleetAssumption, WiringInv, [Wiring!Next]_(Wiring!vars),
         NEW a \in Wiring!A, NEW s \in Servers, config[a][s] = "hand", edits' = edits,
         s \notin Wiring!Claimed(a)
  PROVE  config'[a][s] = "hand"
  <1>1. config \in [Wiring!A -> [Servers -> ConfigValues]] /\ edits \in Nat
    BY DEF WiringInv, WiringTyped
  <1>2. CASE config' = config
    BY <1>2
  <1>3. ASSUME NEW c \in Wiring!A, NEW entries, config' = [config EXCEPT ![c] = entries],
               c = a => entries[s] = "hand"
        PROVE  config'[a][s] = "hand"
    BY <1>1, <1>3
  <1>4. /\ config[a] \in [Servers -> ConfigValues]
        /\ agents[a].role # "preapprove" =>
             s \notin Wiring!Wanted(a) \cup recorded[a].servers \cup recorded[a].plugins
    BY <1>1 DEF Wiring!Claimed, Wiring!IsClaude
  <1>5. ASSUME NEW c \in Wiring!A, Wiring!DeleteStale(c)
        PROVE  config'[a][s] = "hand"
    <2>1. config' = [config EXCEPT ![c] = Wiring!Without(config[c], recorded[c].servers \ Wiring!RefRequired(c))]
      BY <1>5 DEF Wiring!DeleteStale, Wiring!Write
    <2>2. agents[c].role = "json"
      BY <1>5, StepIs DEF Wiring!DeleteStale, Where
    <2>3. c = a => Wiring!Without(config[a], recorded[a].servers \ Wiring!RefRequired(a))[s] = "hand"
      BY <1>4, <2>2, WithoutIs
    <2> QED
      BY <1>3, <1>5, <2>1, <2>3
  <1>6. ASSUME NEW c \in Wiring!A, NEW t \in Servers, Wiring!WriteRequired(c, t)
        PROVE  config'[a][s] = "hand"
    <2>1. config' = [config EXCEPT ![c] = Wiring!With(config[c], c, {t})] /\ t \in Wiring!RefRequired(c)
      BY <1>6 DEF Wiring!WriteRequired, Wiring!Write
    <2>2. c = a => t # s
      <3>1. agents[c].role = "json"
        BY <1>6, StepIs DEF Wiring!WriteRequired, Where
      <3> QED
        BY <1>4, <2>1, <3>1, NamesWanted
    <2>3. c = a => Wiring!With(config[c], c, {t})[s] = "hand"
      BY <1>4, <2>2, WithIs
    <2> QED
      BY <1>3, <1>6, <2>1, <2>3
  <1>7. ASSUME NEW c \in Wiring!A, Wiring!SyncPlugins(c)
        PROVE  config'[a][s] = "hand"
    <2> DEFINE base == Wiring!Without(config[c], recorded[c].plugins)
    <2>1. config' = [config EXCEPT ![c] = Wiring!With(base, c, Wiring!LocalFor(c))]
      BY <1>7 DEF Wiring!SyncPlugins, Wiring!Write
    <2>2. ASSUME c = a
          PROVE  Wiring!With(base, c, Wiring!LocalFor(c))[s] = "hand"
      <3>1. Wiring!At(c, "sync")
        BY <1>7 DEF Wiring!SyncPlugins
      <3>2. agents[c].role = "json"
        BY <3>1, StepIs DEF Where
      <3>3. base \in [Servers -> ConfigValues] /\ base[s] = "hand"
        BY <1>4, <2>2, <3>2, WithoutIs
      <3>4. s \notin Wiring!LocalFor(c)
        BY <1>4, <2>2, <3>2, NamesWanted
      <3> HIDE DEF base
      <3> QED
        BY <3>3, <3>4, WithIs
    <2> HIDE DEF base
    <2> QED
      BY <1>3, <1>7, <2>1, <2>2
  <1>8. ASSUME NEW c \in Wiring!A, Wiring!ReplaceBlock(c)
        PROVE  config'[a][s] = "hand"
    <2> DEFINE kept == [t \in Servers |-> IF config[c][t] = "hand" THEN "hand" ELSE "absent"]
    <2>1. config' = config \/ config' = [config EXCEPT ![c] = Wiring!With(kept, c, Wiring!Wanted(c))]
      BY <1>8 DEF Wiring!ReplaceBlock, Wiring!Raise, Wiring!Write, Wiring!files
    <2>2. kept \in [Servers -> ConfigValues] /\ (c = a => kept[s] = "hand")
      BY DEF ConfigValues
    <2> HIDE DEF kept
    <2>3. agents[c].role = "block"
      BY <1>8, StepIs DEF Wiring!ReplaceBlock, Where
    <2>4. c = a => Wiring!With(kept, c, Wiring!Wanted(c))[s] = "hand"
      BY <1>4, <2>2, <2>3, WithIs
    <2> QED
      BY <1>2, <1>3, <1>8, <2>1, <2>4
  <1>9. ASSUME NEW c \in Wiring!A, Wiring!GenerateMcp(c)
        PROVE  config'[a][s] = "hand"
    <2>1. Wiring!At(c, "generate")
      BY <1>9 DEF Wiring!GenerateMcp
    <2>2. McpInv(c) /\ agents[c].role = "preapprove"
      BY <2>1, StepIs DEF AgentInv, Where
    <2>3. CASE c = a
      <3>1. mcp = "file"
        BY <2>2, <2>3 DEF McpInv
      <3>2. ~marker
        BY <2>2, <2>3 DEF Wiring!Claimed, Wiring!IsClaude
      <3> QED
        BY <1>2, <1>9, <3>1, <3>2 DEF Wiring!GenerateMcp
    <2>4. CASE c # a
      <3>1. config' = config \/ config' = [config EXCEPT ![c] = Wiring!With(Wiring!NoServers, c, Wiring!Wanted(c))]
        BY <1>9 DEF Wiring!GenerateMcp, Wiring!Write
      <3> QED
        BY <1>2, <1>3, <1>9, <2>4, <3>1
    <2> QED
      BY <2>3, <2>4
  <1>10. ASSUME NEW c \in Wiring!A, NEW t \in Servers, Wiring!EditConfig(c, t)
         PROVE  config'[a][s] = "hand"
    <2>1. edits' = edits + 1
      BY <1>10 DEF Wiring!EditConfig
    <2> QED
      BY <1>1, <2>1
  <1>11. ASSUME NEW c \in Wiring!A,
                Wiring!RecordRequired(c) \/ Wiring!RecordPlugins(c) \/ Wiring!Mark(c) \/ Wiring!Preapprove(c)
         PROVE  config' = config
    BY <1>11 DEF Wiring!RecordRequired, Wiring!RecordPlugins, Wiring!Mark, Wiring!Preapprove, Wiring!Raise, Wiring!files
  <1>12. ASSUME Wiring!Up \/ Wiring!EditManifest \/ Wiring!Crash \/ Wiring!ReposAppear \/ UNCHANGED Wiring!vars
         PROVE  config' = config
    BY <1>12 DEF Wiring!Up, Wiring!EditManifest, Wiring!Crash, Wiring!ReposAppear, Wiring!vars, Wiring!manifest, Wiring!files
  <1> QED
    BY <1>2, <1>5, <1>6, <1>7, <1>8, <1>9, <1>10, <1>11, <1>12 DEF Wiring!Next

\* Wiring by itself.
LEMMA HandWrittenIsKeptAlone ==
  ASSUME Wiring!FleetAssumption
  PROVE  Wiring!Spec => Wiring!HandWrittenStays
  <1>1. Wiring!Init => WiringInv
    BY WiringStart
  <1>2. WiringInv /\ [Wiring!Next]_(Wiring!vars) => WiringInv'
    BY WiringStep
  <1>3. WiringInv /\ [Wiring!Next]_(Wiring!vars) =>
          [\A a \in Wiring!A, s \in Servers :
             config[a][s] = "hand" /\ edits' = edits
             /\ s \notin Wiring!Claimed(a)
               => config'[a][s] = "hand"]_(Wiring!vars)
    BY HandKept
  <1> QED
    BY <1>1, <1>2, <1>3, PTL DEF Wiring!Spec, Wiring!HandWrittenStays

\* No run of wire_plugins.py, whole or cut short, touches what a person wrote in
\* a config file under a name that neither the manifest nor a sidecar file claims,
\* whatever the plugins' definitions become.
THEOREM HandWrittenIsKept == ServicesSpec => HandWrittenStays
  <1>1. Wiring!Spec => Wiring!HandWrittenStays
    BY HandWrittenIsKeptAlone, ServicesAssumption DEF ServicesAssumption
  <1>2. ~InWiring /\ [ServicesNext]_allVars =>
          [\A a \in Wiring!A, s \in Servers :
             config[a][s] = "hand" /\ edits' = edits
             /\ s \notin Wiring!Claimed(a)
               => config'[a][s] = "hand"]_(Wiring!vars)
    BY PartsStep DEF InWiring
  <1> QED
    BY <1>1, <1>2, WiringRuns, PTL DEF ServicesSpec, HandWrittenStays, Wiring!HandWrittenStays

-----------------------------------------------------------------------------
(***************************************************************************)
(* AgentDescriptors.  What was admitted is, by itself, what one agent can  *)
(* be wired with, and, taken two at a time, disjoint; what an agent owns   *)
(* is taken, so a later one is checked against all of them.                *)
(***************************************************************************)

IsAdmitted(i) == i \in DOMAIN docs /\ (stage = "admit" => i < nth)

WiresAlone(d) ==
    \/ d.mcp = None /\ ~d.settings
    \/ /\ d.mcp # None /\ Agents!Combination(d.mcp)
       /\ d.settings => d.mcp.strategy = "codex_managed_block"

ApartFrom(i, j) ==
    /\ (docs[i].mcp # None /\ docs[j].mcp # None)
         => docs[i].binary # docs[j].binary /\ docs[i].mcp.config # docs[j].mcp.config
    /\ \A k \in DOMAIN docs[i].state, l \in DOMAIN docs[j].state :
         ~Agents!Overlap(docs[i].state[k].path, docs[j].state[l].path)

IsTaken(i) ==
    /\ \A k \in DOMAIN docs[i].state : docs[i].state[k].path \in taken.mounts
    /\ docs[i].mcp # None
         => docs[i].binary \in taken.binaries /\ docs[i].mcp.config \in taken.configs

Mounted ==
    \A y : y \in made.state <=>
      \E i \in able : \E k \in DOMAIN docs[i].state :
        ~Agents!Later(docs[i], k) /\ y = <<i, docs[i].state[k].path>>

Configured ==
    \A y : y \in made.configs <=>
      \E i \in Agents!McpEnabled : (stage = "wire" => i < nth) /\ y = <<i, docs[i].mcp.config>>

AdmitTyped ==
    /\ docs \in Descriptors /\ able \subseteq DOMAIN docs
    /\ nth \in Nat /\ nth >= 1
    /\ stage \in {"admit", "refused", "wire", "wired"}
    /\ stage = "admit" => nth <= Len(docs) + 1
    /\ DOMAIN made = {"state", "configs"}

AInv ==
    /\ AdmitTyped
    /\ stage # "refused" =>
         /\ \A i : IsAdmitted(i) => WiresAlone(docs[i])
         /\ \A i, j : IsAdmitted(i) /\ IsAdmitted(j) /\ i # j => ApartFrom(i, j)
    /\ stage = "admit" =>
         /\ made = [state |-> {}, configs |-> {}]
         /\ \A i : IsAdmitted(i) => IsTaken(i)
    /\ stage \in {"wire", "wired"} => Mounted /\ Configured

LEMMA DocsAreLists ==
  ASSUME Agents!DescriptorsAssumption, docs \in Descriptors
  PROVE  /\ Len(docs) \in Nat /\ DOMAIN docs = 1 .. Len(docs)
         /\ \A i \in DOMAIN docs :
              /\ docs[i].state \in Seq(Agents!Rng(docs[i].state))
              /\ \A k \in DOMAIN docs[i].state :
                   docs[i].state[k].path \in Seq(Agents!Rng(docs[i].state[k].path))
  <1>1. docs \in Seq(Agents!Rng(docs))
    BY DEF Agents!DescriptorsAssumption, Agents!IsList
  <1> QED
    BY <1>1 DEF Agents!DescriptorsAssumption, Agents!IsList

LEMMA OverlapSymmetric == ASSUME NEW p, NEW q PROVE Agents!Overlap(p, q) <=> Agents!Overlap(q, p)
  BY DEF Agents!Overlap

LEMMA OverlapsItself == ASSUME NEW T, NEW p \in Seq(T) PROVE Agents!Overlap(p, p)
  <1>1. Len(p) \in Nat
    OBVIOUS
  <1> QED
    BY <1>1 DEF Agents!Overlap, Agents!IsPrefix

LEMMA AdmitInit == ASSUME Agents!DescriptorsAssumption, Agents!Init PROVE AInv
  <1>1. Len(docs) \in Nat /\ DOMAIN docs = 1 .. Len(docs)
    BY DocsAreLists DEF Agents!Init
  <1>2. stage = "admit" /\ nth = 1 /\ \A i : ~IsAdmitted(i)
    BY <1>1 DEF Agents!Init, IsAdmitted
  <1> QED
    BY <1>1, <1>2 DEF Agents!Init, AInv, AdmitTyped

\* The next descriptor is checked against what the others own.
LEMMA AdmitOne == ASSUME Agents!DescriptorsAssumption, AInv, Agents!Admit PROVE AInv'
  <1>1. /\ stage = "admit" /\ nth \in Nat /\ nth >= 1 /\ nth <= Len(docs)
        /\ docs' = docs /\ able' = able /\ made' = made
    BY DEF Agents!Admit, AInv, AdmitTyped
  <1>2. CASE stage' = "refused"
    <2>1. nth' = nth
      BY <1>2, <1>1 DEF Agents!Admit
    <2> QED
      BY <1>1, <1>2, <2>1 DEF AInv, AdmitTyped
  <1>3. CASE stage' # "refused"
    <2>1. /\ Agents!StateOk(docs[nth], nth) /\ Agents!McpOk(docs[nth])
          /\ taken' = Agents!Owned(docs[nth], nth) /\ nth' = nth + 1 /\ stage' = "admit"
      BY <1>1, <1>3 DEF Agents!Admit
    <2>2. Len(docs) \in Nat /\ DOMAIN docs = 1 .. Len(docs) /\ nth \in DOMAIN docs
      BY <1>1, DocsAreLists DEF AInv, AdmitTyped
    <2>3. \A i : IsAdmitted(i)' <=> IsAdmitted(i) \/ i = nth
      BY <1>1, <2>1, <2>2 DEF IsAdmitted
    <2>4. WiresAlone(docs[nth])
      BY <2>1 DEF Agents!McpOk, WiresAlone
    <2>5. \A i : IsAdmitted(i) => ApartFrom(i, nth) /\ ApartFrom(nth, i)
      <3> SUFFICES ASSUME NEW i, IsAdmitted(i) PROVE ApartFrom(i, nth) /\ ApartFrom(nth, i)
        OBVIOUS
      <3>1. IsTaken(i)
        BY <1>1 DEF AInv
      <3>2. \A k \in DOMAIN docs[nth].state, q \in taken.mounts : ~Agents!Overlap(docs[nth].state[k].path, q)
        BY <2>1 DEF Agents!StateOk
      <3>3. \A k \in DOMAIN docs[nth].state, l \in DOMAIN docs[i].state :
              ~Agents!Overlap(docs[nth].state[k].path, docs[i].state[l].path)
        BY <3>1, <3>2 DEF IsTaken
      <3>4. \A k \in DOMAIN docs[nth].state, l \in DOMAIN docs[i].state :
              ~Agents!Overlap(docs[i].state[l].path, docs[nth].state[k].path)
        BY <3>3, OverlapSymmetric
      <3>5. docs[nth].mcp # None =>
              docs[nth].binary \notin taken.binaries /\ docs[nth].mcp.config \notin taken.configs
        BY <2>1 DEF Agents!McpOk
      <3> QED
        BY <3>1, <3>3, <3>4, <3>5 DEF IsTaken, ApartFrom
    <2>6. ASSUME NEW i, IsAdmitted(i) \/ i = nth PROVE IsTaken(i)'
      <3>1. /\ taken'.mounts = taken.mounts \cup {s.path : s \in Agents!Rng(docs[nth].state)}
            /\ taken'.binaries = IF docs[nth].mcp = None THEN taken.binaries
                                 ELSE taken.binaries \cup {docs[nth].binary}
            /\ taken'.configs = IF docs[nth].mcp = None THEN taken.configs
                                ELSE taken.configs \cup {docs[nth].mcp.config}
        BY <2>1 DEF Agents!Owned
      <3>2. CASE i = nth
        <4>1. \A k \in DOMAIN docs[i].state : docs[i].state[k].path \in taken'.mounts
          BY <3>1, <3>2 DEF Agents!Rng
        <4> QED
          BY <1>1, <3>1, <3>2, <4>1 DEF IsTaken
      <3>3. CASE IsAdmitted(i)
        <4>1. IsTaken(i)
          BY <1>1, <3>3 DEF AInv
        <4> QED
          BY <1>1, <3>1, <4>1 DEF IsTaken
      <3> QED
        BY <2>6, <3>2, <3>3
    <2>7. AdmitTyped'
      BY <1>1, <2>1, <2>2 DEF AInv, AdmitTyped
    <2>8. \A i : IsAdmitted(i)' => WiresAlone(docs[i])'
      BY <1>1, <2>3, <2>4 DEF AInv
    <2>9. \A i, j : IsAdmitted(i)' /\ IsAdmitted(j)' /\ i # j => ApartFrom(i, j)'
      <3>1. \A i, j : ApartFrom(i, j)' <=> ApartFrom(i, j)
        BY <1>1 DEF ApartFrom
      <3>2. \A i, j : IsAdmitted(i) /\ IsAdmitted(j) /\ i # j => ApartFrom(i, j)
        BY <1>1 DEF AInv
      <3> QED
        BY <2>3, <2>5, <3>1, <3>2
    <2>10. \A i : IsAdmitted(i)' => IsTaken(i)'
      BY <2>3, <2>6
    <2> QED
      BY <1>1, <2>1, <2>7, <2>8, <2>9, <2>10 DEF AInv
  <1> QED
    BY <1>2, <1>3

\* What was admitted stays so once all of them are.
LEMMA AdmittedStays ==
  ASSUME Agents!DescriptorsAssumption, AInv, docs' = docs,
         stage = "admit" => nth > Len(docs), stage # "refused",
         stage' \in {"wire", "wired"}
  PROVE  /\ \A i : IsAdmitted(i)' => WiresAlone(docs[i])'
         /\ \A i, j : IsAdmitted(i)' /\ IsAdmitted(j)' /\ i # j => ApartFrom(i, j)'
  <1>1. \A i : IsAdmitted(i)' => IsAdmitted(i)
    BY DocsAreLists DEF AInv, AdmitTyped, IsAdmitted
  <1>2. \A i, j : ApartFrom(i, j)' <=> ApartFrom(i, j)
    BY DEF ApartFrom
  <1>3. \A i : IsAdmitted(i) => WiresAlone(docs[i])
    BY DEF AInv
  <1>4. \A i, j : IsAdmitted(i) /\ IsAdmitted(j) /\ i # j => ApartFrom(i, j)
    BY DEF AInv
  <1>5. \A i : IsAdmitted(i)' => WiresAlone(docs[i])'
    BY <1>1, <1>3
  <1>6. \A i, j : IsAdmitted(i)' /\ IsAdmitted(j)' /\ i # j => ApartFrom(i, j)'
    BY <1>1, <1>2, <1>4
  <1> QED
    BY <1>5, <1>6

LEMMA AdmitMount == ASSUME Agents!DescriptorsAssumption, AInv, Agents!Mount PROVE AInv'
  <1> DEFINE dirs(i) == {<<i, docs[i].state[k].path>> :
                          k \in {j \in DOMAIN docs[i].state : ~Agents!Later(docs[i], j)}}
             mounts == UNION {dirs(i) : i \in able}
  <1>1. /\ stage = "admit" /\ nth > Len(docs) /\ stage' = "wire" /\ nth' = 1
        /\ docs' = docs /\ able' = able
        /\ made' = [made EXCEPT !.state = mounts]
    BY DEF Agents!Mount
  <1>2. made'.state = mounts /\ made'.configs = {} /\ DOMAIN made' = {"state", "configs"}
    BY <1>1 DEF AInv, AdmitTyped
  <1>3. \A y : y \in mounts <=> \E i \in able : y \in dirs(i)
    OBVIOUS
  <1>4. \A i, y : y \in dirs(i) <=> \E k \in DOMAIN docs[i].state :
                    ~Agents!Later(docs[i], k) /\ y = <<i, docs[i].state[k].path>>
    OBVIOUS
  <1> HIDE DEF mounts, dirs
  <1>5. Mounted'
    <2>1. \A d, k : Agents!Later(d, k)' <=> Agents!Later(d, k)
      BY DEF Agents!Later
    <2>2. \A y : y \in made'.state <=>
            \E i \in able : \E k \in DOMAIN docs[i].state :
              ~Agents!Later(docs[i], k) /\ y = <<i, docs[i].state[k].path>>
      BY <1>2, <1>3, <1>4
    <2> QED
      BY <1>1, <2>1, <2>2 DEF Mounted
  <1>6. Configured'
    <2>1. \A i \in Agents!McpEnabled' : i \in Nat /\ i >= 1
      BY <1>1, DocsAreLists DEF Agents!McpEnabled, AInv, AdmitTyped
    <2> QED
      BY <1>1, <1>2, <2>1 DEF Configured
  <1>7. AdmitTyped'
    BY <1>1, <1>2 DEF AInv, AdmitTyped
  <1>8. /\ \A i : IsAdmitted(i)' => WiresAlone(docs[i])'
        /\ \A i, j : IsAdmitted(i)' /\ IsAdmitted(j)' /\ i # j => ApartFrom(i, j)'
    BY <1>1, AdmittedStays
  <1> QED
    BY <1>1, <1>5, <1>6, <1>7, <1>8 DEF AInv

\* What is wired alone is dispatched.
LEMMA AdmittedDispatches ==
  ASSUME Agents!DescriptorsAssumption, AInv, stage = "wire"
  PROVE  /\ Agents!PayloadOk(Agents!McpEnabled)
         /\ \A i \in Agents!McpEnabled : Agents!Dispatches(docs[i].mcp)
  <1>1. \A i \in Agents!McpEnabled : IsAdmitted(i) /\ docs[i].mcp # None
    BY DEF Agents!McpEnabled, IsAdmitted, AInv, AdmitTyped
  <1>2. \A i \in Agents!McpEnabled : /\ Agents!Combination(docs[i].mcp)
                                     /\ docs[i].settings => docs[i].mcp.strategy = "codex_managed_block"
    BY <1>1 DEF AInv, WiresAlone
  <1>3. \A i \in Agents!McpEnabled : Agents!Dispatches(docs[i].mcp)
    BY <1>2 DEF Agents!Combination, Agents!Dispatches
  <1>4. \A i, j \in Agents!McpEnabled : docs[i].binary = docs[j].binary => i = j
    BY <1>1 DEF AInv, ApartFrom
  <1> QED
    BY <1>2, <1>3, <1>4 DEF Agents!PayloadOk

LEMMA AdmitWire == ASSUME Agents!DescriptorsAssumption, AInv, Agents!Wire PROVE AInv'
  <1>1. /\ stage = "wire" /\ nth \in Nat /\ nth >= 1 /\ nth <= Len(docs)
        /\ docs' = docs /\ able' = able /\ taken' = taken
    BY DEF Agents!Wire, AInv, AdmitTyped
  <1>2. /\ nth' = nth + 1 /\ stage' = "wire"
        /\ IF nth \in Agents!McpEnabled
           THEN made' = [made EXCEPT !.configs = @ \cup {<<nth, docs[nth].mcp.config>>}]
           ELSE made' = made
    BY <1>1, AdmittedDispatches DEF Agents!Wire
  <1>3. /\ made'.state = made.state /\ DOMAIN made' = {"state", "configs"}
        /\ \A y : y \in made'.configs <=>
             \/ y \in made.configs
             \/ nth \in Agents!McpEnabled /\ y = <<nth, docs[nth].mcp.config>>
    BY <1>2 DEF AInv, AdmitTyped
  <1>4. Agents!McpEnabled' = Agents!McpEnabled /\ \A i \in Agents!McpEnabled : i \in Nat
    BY <1>1, DocsAreLists DEF Agents!McpEnabled, AInv, AdmitTyped
  <1>5. Mounted'
    <2>1. \A y : y \in made'.state <=>
            \E i \in able : \E k \in DOMAIN docs[i].state :
              ~Agents!Later(docs[i], k) /\ y = <<i, docs[i].state[k].path>>
      BY <1>1, <1>3 DEF AInv, Mounted
    <2>2. \A d, k : Agents!Later(d, k)' <=> Agents!Later(d, k)
      BY DEF Agents!Later
    <2> QED
      BY <1>1, <2>1, <2>2 DEF Mounted
  <1>6. Configured'
    <2>1. \A y : y \in made.configs <=> \E i \in Agents!McpEnabled : i < nth /\ y = <<i, docs[i].mcp.config>>
      BY <1>1 DEF AInv, Configured
    <2>2. \A i \in Agents!McpEnabled : i < nth + 1 <=> i < nth \/ i = nth
      BY <1>1, <1>4
    <2>3. \A y : y \in made'.configs <=>
            \E i \in Agents!McpEnabled : i < nth + 1 /\ y = <<i, docs[i].mcp.config>>
      BY <1>3, <2>1, <2>2
    <2> QED
      BY <1>1, <1>2, <1>4, <2>3 DEF Configured
  <1>7. AdmitTyped'
    BY <1>1, <1>2, <1>3 DEF AInv, AdmitTyped
  <1>8. /\ \A i : IsAdmitted(i)' => WiresAlone(docs[i])'
        /\ \A i, j : IsAdmitted(i)' /\ IsAdmitted(j)' /\ i # j => ApartFrom(i, j)'
    BY <1>1, <1>2, AdmittedStays
  <1> QED
    BY <1>2, <1>5, <1>6, <1>7, <1>8 DEF AInv

LEMMA AdmitWired == ASSUME Agents!DescriptorsAssumption, AInv, Agents!Wired PROVE AInv'
  <1>1. /\ stage = "wire" /\ stage' = "wired" /\ nth > Len(docs)
        /\ docs' = docs /\ able' = able /\ nth' = nth /\ taken' = taken /\ made' = made
    BY DEF Agents!Wired
  <1>2. Agents!McpEnabled' = Agents!McpEnabled /\ \A i \in Agents!McpEnabled : i < nth
    BY <1>1, DocsAreLists DEF Agents!McpEnabled, AInv, AdmitTyped
  <1>3. Mounted' /\ Configured'
    BY <1>1, <1>2 DEF AInv, Mounted, Configured, Agents!Later
  <1>4. AdmitTyped'
    BY <1>1 DEF AInv, AdmitTyped
  <1>5. /\ \A i : IsAdmitted(i)' => WiresAlone(docs[i])'
        /\ \A i, j : IsAdmitted(i)' /\ IsAdmitted(j)' /\ i # j => ApartFrom(i, j)'
    BY <1>1, AdmittedStays
  <1> QED
    BY <1>1, <1>3, <1>4, <1>5 DEF AInv

LEMMA AdmitStep ==
  ASSUME Agents!DescriptorsAssumption, AInv, [Agents!Next]_(Agents!vars) PROVE AInv'
  <1>1. CASE UNCHANGED Agents!vars
    <2>1. /\ docs' = docs /\ able' = able /\ stage' = stage /\ nth' = nth
          /\ taken' = taken /\ made' = made
      BY <1>1 DEF Agents!vars
    <2>2. \A i : (IsAdmitted(i)' <=> IsAdmitted(i)) /\ (IsTaken(i)' <=> IsTaken(i))
      BY <2>1 DEF IsAdmitted, IsTaken
    <2>3. \A i, j : ApartFrom(i, j)' <=> ApartFrom(i, j)
      BY <2>1 DEF ApartFrom
    <2>4. (Mounted' <=> Mounted) /\ (Configured' <=> Configured)
      BY <2>1 DEF Mounted, Configured, Agents!McpEnabled
    <2>5. AdmitTyped'
      BY <2>1 DEF AInv, AdmitTyped
    <2> QED
      BY <2>1, <2>2, <2>3, <2>4, <2>5 DEF AInv
  <1> QED
    BY <1>1, AdmitOne, AdmitMount, AdmitWire, AdmitWired DEF Agents!Next

\* All of AdmittedWires is said by the invariant.
LEMMA WiresFully == ASSUME Agents!DescriptorsAssumption, AInv PROVE Agents!AdmittedWires
  <1>1. stage # "failed"
    BY DEF AInv, AdmitTyped
  <1>2. ASSUME stage = "wired", NEW i \in Agents!McpEnabled
        PROVE  /\ {c[1] : c \in {x \in made.configs : x[2] = docs[i].mcp.config}} = {i}
               /\ docs[i].mcp.strategy = "codex_managed_block" => Agents!CodexField(docs[i].mcp)
               /\ docs[i].mcp.format = "json" \/ Agents!HasUrl(docs[i].mcp)
    <2>1. \A j \in Agents!McpEnabled : IsAdmitted(j) /\ docs[j].mcp # None
      BY <1>2 DEF Agents!McpEnabled, IsAdmitted, AInv, AdmitTyped
    <2>2. Agents!Combination(docs[i].mcp)
      BY <1>2, <2>1 DEF AInv, WiresAlone
    <2>3. docs[i].mcp.strategy = "codex_managed_block" => docs[i].mcp.refs \in Agents!CodexRefs
      BY <2>2 DEF Agents!Combination
    <2>4. docs[i].mcp.refs = "url" => docs[i].mcp.format = "json"
      BY <2>2 DEF Agents!Combination, Agents!CodexRefs
    <2>5. \A y : y \in made.configs <=> \E j \in Agents!McpEnabled : y = <<j, docs[j].mcp.config>>
      BY <1>2 DEF AInv, Configured
    <2>6. \A j \in Agents!McpEnabled : docs[j].mcp.config = docs[i].mcp.config => j = i
      BY <1>2, <2>1 DEF AInv, ApartFrom
    <2>7. \A y : (y \in made.configs /\ y[2] = docs[i].mcp.config) <=> y = <<i, docs[i].mcp.config>>
      BY <2>5, <2>6
    <2>8. {c[1] : c \in {x \in made.configs : x[2] = docs[i].mcp.config}} = {i}
      <3> DEFINE own == {x \in made.configs : x[2] = docs[i].mcp.config}
      <3>1. own = {<<i, docs[i].mcp.config>>}
        BY <2>7
      <3> HIDE DEF own
      <3>2. {c[1] : c \in own} = {i}
        BY <3>1
      <3> QED
        BY <3>2 DEF own
    <2> QED
      BY <2>3, <2>4, <2>8 DEF Agents!CodexField, Agents!CodexRefs, Agents!HasUrl, Agents!Named
  <1>3. ASSUME stage = "wired", NEW i \in able, \A k \in DOMAIN docs[i].state : ~Agents!Later(docs[i], k),
               NEW k \in DOMAIN docs[i].state
        PROVE  {x[1] : x \in {y \in made.state : Agents!Overlap(y[2], docs[i].state[k].path)}} = {i}
    <2> DEFINE near == {y \in made.state : Agents!Overlap(y[2], docs[i].state[k].path)}
    <2>1. Mounted /\ docs \in Descriptors /\ able \subseteq DOMAIN docs
      BY <1>3 DEF AInv, AdmitTyped
    <2>2. \A j \in able : j # i => ApartFrom(j, i)
      BY <1>3, <2>1 DEF AInv, IsAdmitted
    <2>3. \A y \in near : y[1] = i
      <3> SUFFICES ASSUME NEW y \in near PROVE y[1] = i
        OBVIOUS
      <3>1. PICK j \in able : \E l \in DOMAIN docs[j].state : y = <<j, docs[j].state[l].path>>
        BY <2>1 DEF Mounted
      <3>2. PICK l \in DOMAIN docs[j].state : y = <<j, docs[j].state[l].path>>
        BY <3>1
      <3>3. y[1] = j /\ Agents!Overlap(docs[j].state[l].path, docs[i].state[k].path)
        BY <3>2
      <3> QED
        BY <2>2, <3>3 DEF ApartFrom
    <2>4. docs[i].state[k].path \in Seq(Agents!Rng(docs[i].state[k].path))
      BY <2>1, DocsAreLists
    <2>5. Agents!Overlap(docs[i].state[k].path, docs[i].state[k].path)
      BY <2>4, OverlapsItself
    <2>6. \E y \in near : y[1] = i
      <3>1. <<i, docs[i].state[k].path>> \in made.state
        BY <1>3, <2>1 DEF Mounted
      <3>2. <<i, docs[i].state[k].path>> \in near
        BY <2>5, <3>1
      <3> QED
        BY <3>2
    <2> HIDE DEF near
    <2>7. {x[1] : x \in near} = {i}
      BY <2>3, <2>6, Zenon
    <2> QED
      BY <2>7 DEF near
  <1> QED
    BY <1>1, <1>2, <1>3, Zenon DEF Agents!AdmittedWires

\* Agents by itself.
LEMMA AdmittedAreWiredAlone ==
  ASSUME Agents!DescriptorsAssumption PROVE Agents!Spec => []Agents!AdmittedWires
  <1>1. Agents!Init => AInv
    BY AdmitInit
  <1>2. AInv /\ [Agents!Next]_(Agents!vars) => AInv'
    BY AdmitStep
  <1>3. AInv => Agents!AdmittedWires
    BY WiresFully
  <1> QED
    BY <1>1, <1>2, <1>3, PTL DEF Agents!Spec

\* A descriptor that is admitted on the host (agent_registry.py) is wired in the
\* bottle.
THEOREM AdmittedAreWired == ServicesSpec => []AdmittedWires
  <1>1. Agents!Spec => []Agents!AdmittedWires
    BY AdmittedAreWiredAlone, ServicesAssumption DEF ServicesAssumption
  <1>2. Agents!AdmittedWires \/ ~InAgents => AdmittedWires
    BY DEF AdmittedWires, InAgents
  <1> QED
    BY <1>1, <1>2, AgentsRuns, PTL

-----------------------------------------------------------------------------
(***************************************************************************)
(* DeriveManifest: what a server dials is granted with the plugin that has *)
(* it, in one step, and no later section takes a port away.                *)
(***************************************************************************)

Fields == {"plugins", "origins", "shell", "notify", "bindings", "egress", "cidrs", "slots",
           "servers", "volumes", "services", "setup", "ports", "relays", "secrets",
           "overridden", "unfilled"}

IsGranted(server, name) ==
    Plugin[server.plugin].servers[name].takesPort => server.dials \in out.ports

OutInv ==
    /\ DOMAIN out = Fields
    /\ \A name \in DOMAIN out.servers : IsGranted(out.servers[name], name)
    /\ out.notify => out.shell # "bash"
    /\ section = "Derived" /\ out.notify => manifest.ntfy.host \in out.egress \cup out.cidrs

\* What a section that leaves servers and ports alone has to keep.
LEMMA PortsKept ==
  ASSUME OutInv, DOMAIN out' = Fields, out'.servers = out.servers, out.ports \subseteq out'.ports,
         out'.notify => out'.shell # "bash",
         section' # "Derived"
  PROVE  OutInv'
  BY DEF OutInv, IsGranted

LEMMA SectionKeeps ==
  ASSUME OutInv, NEW s, NEW ok, NEW next, NEW result, Derive!Section(s, ok, next, result),
         next # "Derived", DOMAIN result = Fields, result.servers = out.servers,
         result.ports = out.ports, result.notify => result.shell # "bash"
  PROVE  OutInv'
  BY PortsKept DEF Derive!Section, OutInv

LEMMA PortsInit == ASSUME Derive!Init PROVE OutInv
  BY DEF Derive!Init, Derive!Nothing, OutInv, Fields

LEMMA ReposKeep == ASSUME OutInv, Derive!Repos PROVE OutInv'
  BY SectionKeeps DEF Derive!Repos, OutInv, Fields

LEMMA PluginsListKeeps == ASSUME OutInv, Derive!PluginsList PROVE OutInv'
  BY SectionKeeps DEF Derive!PluginsList, OutInv, Fields

LEMMA PluginPortsKeep == ASSUME OutInv, Derive!PluginPorts PROVE OutInv'
  BY SectionKeeps DEF Derive!PluginPorts, OutInv, Fields

LEMMA RemoteKeeps == ASSUME OutInv, Derive!Remote PROVE OutInv'
  <1>1. DOMAIN out = Fields
    BY DEF OutInv
  <1>2. CASE section' = "Refused"
    BY <1>1, <1>2, PortsKept DEF Derive!Remote, Derive!Section, OutInv
  <1>3. CASE section' # "Refused"
    <2> DEFINE shell == Derive!Shell(manifest.remote)
    <2> HIDE DEF shell
    <2>1. /\ section' = "Refs" /\ (manifest.remote.notify => shell # "bash")
          /\ out' = [out EXCEPT !.shell = shell, !.notify = manifest.remote.notify]
      BY <1>3 DEF Derive!Remote, Derive!Section, Derive!NotifyAllowed, shell
    <2> QED
      BY <1>1, <2>1, PortsKept DEF Fields
  <1> QED
    BY <1>2, <1>3

LEMMA RefsKeep == ASSUME OutInv, Derive!Refs PROVE OutInv'
  BY SectionKeeps DEF Derive!Refs, OutInv, Fields

LEMMA SecretsKeep == ASSUME OutInv, Derive!Secrets PROVE OutInv'
  BY SectionKeeps DEF Derive!Secrets, OutInv, Fields

LEMMA OneOverrideKeeps == ASSUME OutInv, Derive!OneOverride PROVE OutInv'
  <1> DEFINE i == out.overridden + 1
             r == Derive!Overrides[i]
             secrets == IF r.source = None THEN out.secrets
                        ELSE Append(out.secrets, Derive!Record(r.agent, r.slot, r.source))
  <1>1. /\ section' # "Derived"
        /\ out' = out \/ out' = [out EXCEPT !.overridden = i, !.secrets = secrets]
    BY DEF Derive!OneOverride
  <1> HIDE DEF i, r, secrets
  <1> QED
    BY <1>1, PortsKept DEF OutInv, Fields

LEMMA OneDefaultKeeps == ASSUME OutInv, Derive!OneDefault PROVE OutInv'
  <1>1. /\ section' # "Derived"
        /\ \E u, v : out' = [out EXCEPT !.unfilled = u, !.secrets = v]
    BY DEF Derive!OneDefault
  <1> QED
    BY <1>1, PortsKept DEF OutInv, Fields

LEMMA SecretsDoneKeeps == ASSUME OutInv, Derive!SecretsDone PROVE OutInv'
  BY PortsKept DEF Derive!SecretsDone, OutInv

LEMMA AgentEgressKeeps == ASSUME OutInv, Derive!AgentEgress PROVE OutInv'
  BY PortsKept DEF Derive!AgentEgress, OutInv, Fields

LEMMA NotifyKeeps == ASSUME OutInv, Derive!Notify PROVE OutInv'
  <1>1. DOMAIN out = Fields
    BY DEF OutInv
  <1>2. CASE section' = "Refused"
    BY <1>1, <1>2, PortsKept DEF Derive!Notify, Derive!Section, OutInv
  <1>3. CASE section' # "Refused"
    <2>1. /\ manifest' = manifest
          /\ \/ ~out.notify /\ out' = out
             \/ out' = [out EXCEPT !.cidrs = @ \cup {manifest.ntfy.host}]
             \/ out' = [out EXCEPT !.egress = @ \cup {manifest.ntfy.host}]
      BY <1>3 DEF Derive!Notify, Derive!Section
    <2>2. /\ DOMAIN out' = Fields /\ out'.servers = out.servers /\ out'.ports = out.ports
          /\ out'.notify = out.notify /\ out'.shell = out.shell
          /\ out'.notify => manifest'.ntfy.host \in out'.egress \cup out'.cidrs
      BY <1>1, <2>1 DEF Fields
    <2> QED
      BY <2>2 DEF OutInv, IsGranted
  <1> QED
    BY <1>2, <1>3

LEMMA OnePluginKeeps == ASSUME OutInv, Derive!OnePlugin PROVE OutInv'
  <1>1. DOMAIN out = Fields /\ section' # "Derived"
    BY DEF OutInv, Derive!OnePlugin
  <1>2. CASE section' # section
    BY <1>1, <1>2, PortsKept DEF Derive!OnePlugin, OutInv
  <1>3. CASE section' = section
    <2> DEFINE p == out.plugins[at]
               doc == Plugin[p]
    <2>1. Derive!PortOk(p, doc) /\ out' = Derive!Folded(p, doc) /\ manifest' = manifest
      BY <1>3 DEF Derive!OnePlugin
    <2>2. /\ DOMAIN out' = Fields /\ out'.shell = out.shell /\ out'.notify = out.notify
          /\ out'.ports = IF doc.port = None THEN out.ports ELSE out.ports \cup {Derive!Port(p)}
          /\ out'.servers = Derive!Joined(out.servers, [name \in DOMAIN doc.servers |-> Derive!Wired(p, doc.servers[name])])
      BY <1>1, <2>1 DEF Fields, Derive!Folded
    <2>3. /\ DOMAIN out'.servers = DOMAIN out.servers \cup DOMAIN doc.servers
          /\ \A name \in DOMAIN out'.servers :
               IF name \in DOMAIN out.servers THEN out'.servers[name] = out.servers[name]
               ELSE out'.servers[name] = Derive!Wired(p, doc.servers[name])
      BY <2>2 DEF Derive!Joined
    <2>4. \A name \in DOMAIN doc.servers : doc.servers[name].takesPort => doc.port # None
      BY <2>1 DEF Derive!PortOk
    <2>5. ASSUME NEW name \in DOMAIN doc.servers, NEW server, server = Derive!Wired(p, doc.servers[name]),
                 Plugin[server.plugin].servers[name].takesPort
          PROVE  server.dials \in out'.ports
      BY <2>2, <2>4, <2>5 DEF Derive!Wired
    <2>6. out.ports \subseteq out'.ports
      BY <2>2
    <2>7. \A name \in DOMAIN out'.servers :
             Plugin[out'.servers[name].plugin].servers[name].takesPort
               => out'.servers[name].dials \in out'.ports
      <3> SUFFICES ASSUME NEW name \in DOMAIN out'.servers,
                          Plugin[out'.servers[name].plugin].servers[name].takesPort
                   PROVE  out'.servers[name].dials \in out'.ports
        OBVIOUS
      <3> HIDE DEF p, doc
      <3>1. CASE name \in DOMAIN out.servers
        BY <2>3, <2>6, <3>1 DEF OutInv, IsGranted
      <3>2. CASE name \notin DOMAIN out.servers
        BY <2>3, <2>5, <3>2
      <3> QED
        BY <3>1, <3>2
    <2> QED
      BY <1>1, <2>2, <2>7 DEF OutInv, IsGranted
  <1> QED
    BY <1>2, <1>3

LEMMA PortsStep == ASSUME OutInv, [Derive!Next]_(Derive!vars) PROVE OutInv'
  <1>1. CASE UNCHANGED Derive!vars
    BY <1>1 DEF Derive!vars, OutInv, IsGranted
  <1> QED
    BY <1>1, ReposKeep, PluginsListKeeps, PluginPortsKeep, RemoteKeeps, RefsKeep, OnePluginKeeps,
       AgentEgressKeeps, SecretsKeep, OneOverrideKeeps, OneDefaultKeeps, SecretsDoneKeeps,
       NotifyKeeps DEF Derive!Next

\* Derive by itself.
LEMMA DialledPortsOpenAlone == Derive!Spec => []Derive!DialledIsOpen
  <1>1. Derive!Init => OutInv
    BY PortsInit
  <1>2. OutInv /\ [Derive!Next]_(Derive!vars) => OutInv'
    BY PortsStep
  <1>3. OutInv => Derive!DialledIsOpen
    BY DEF OutInv, IsGranted, Derive!DialledIsOpen
  <1> QED
    BY <1>1, <1>2, <1>3, PTL DEF Derive!Spec

\* What a server dials through its host port is open, and the way of a
\* notification too, once the manifest is derived (manifest.py).
THEOREM DialledPortsOpen == ServicesSpec => []DialledIsOpen
  <1>1. Derive!Spec => []Derive!DialledIsOpen
    BY DialledPortsOpenAlone
  <1>2. Derive!DialledIsOpen \/ ~InDerive => DialledIsOpen
    BY DEF DialledIsOpen, InDerive
  <1> QED
    BY <1>1, <1>2, DeriveRuns, PTL

-----------------------------------------------------------------------------
(***************************************************************************)
(* AddAll, a recursion over the list: what it returns, by induction on how *)
(* much of the list has been added.                                        *)
(***************************************************************************)

LEMMA Least ==
  ASSUME NEW S \in SUBSET Nat, S # {}
  PROVE  \E m \in S : \A k \in S : m <= k
  <1>1. PICK m \in S : \A k \in S : <<k, m>> \notin OpToRel(<, Nat)
    BY WFMin, NatLessThanWellFounded, Zenon
  <1>2. \A k \in S : ~(k < m)
    BY <1>1, Zenon DEF OpToRel
  <1> QED
    BY <1>2

AddOne(list, x, S) == IF x \in S \ Derive!Rng(list) THEN Append(list, x) ELSE list

\* f is the lists that adding the first k of xs to s goes through.
Lists(f, s, xs, S, k) == f = [i \in 0 .. k |-> IF i = 0 THEN s ELSE AddOne(f[i - 1], xs[i], S)]

LEMMA ListsAt ==
  ASSUME NEW f, NEW s, NEW xs, NEW S, NEW k \in Nat, Lists(f, s, xs, S, k)
  PROVE  /\ DOMAIN f = 0 .. k /\ f[0] = s
         /\ \A i \in 1 .. k : f[i] = AddOne(f[i - 1], xs[i], S)
  <1> DEFINE val(i) == IF i = 0 THEN s ELSE AddOne(f[i - 1], xs[i], S)
  <1>1. f = [i \in 0 .. k |-> val(i)]
    BY DEF Lists
  <1>2. DOMAIN f = 0 .. k /\ \A i \in 0 .. k : f[i] = val(i)
    <2> HIDE DEF val
    <2> QED
      BY <1>1
  <1>3. 0 \in 0 .. k /\ \A i \in 1 .. k : i \in 0 .. k /\ i # 0
    OBVIOUS
  <1> QED
    BY <1>2, <1>3

LEMMA ListsFrom ==
  ASSUME NEW f, NEW s, NEW xs, NEW S, NEW k \in Nat,
         f = [i \in 0 .. k |-> f[i]], f[0] = s,
         \A i \in 1 .. k : f[i] = AddOne(f[i - 1], xs[i], S)
  PROVE  Lists(f, s, xs, S, k)
  <1> DEFINE val(i) == IF i = 0 THEN s ELSE AddOne(f[i - 1], xs[i], S)
  <1>1. \A i \in 0 .. k : i = 0 \/ i \in 1 .. k
    OBVIOUS
  <1>2. \A i \in 0 .. k : f[i] = val(i)
    BY <1>1
  <1>3. f = [i \in 0 .. k |-> val(i)]
    <2> HIDE DEF val
    <2> QED
      BY <1>2
  <1> QED
    BY <1>3 DEF Lists

LEMMA ListsOneMore ==
  ASSUME NEW f, NEW s, NEW xs, NEW S, NEW k \in Nat, Lists(f, s, xs, S, k)
  PROVE  \E g : Lists(g, s, xs, S, k + 1)
  <1> DEFINE final == AddOne(f[k], xs[k + 1], S)
             g == [i \in 0 .. (k + 1) |-> IF i = k + 1 THEN final ELSE f[i]]
  <1>1. /\ g = [i \in 0 .. (k + 1) |-> g[i]] /\ g[k + 1] = final
        /\ \A i \in 0 .. k : g[i] = f[i]
    OBVIOUS
  <1>2. f[0] = s /\ \A i \in 1 .. k : f[i] = AddOne(f[i - 1], xs[i], S)
    BY ListsAt
  <1>3. 0 \in 0 .. k /\ k + 1 \in Nat /\ (k + 1) - 1 = k /\ k \in 0 .. k
    OBVIOUS
  <1>4. \A i \in 1 .. (k + 1) : i = k + 1 \/ (i \in 1 .. k /\ i \in 0 .. k /\ i - 1 \in 0 .. k)
    OBVIOUS
  <1> HIDE DEF g
  <1>5. \A i \in 1 .. (k + 1) : g[i] = AddOne(g[i - 1], xs[i], S)
    BY <1>1, <1>2, <1>3, <1>4
  <1>6. Lists(g, s, xs, S, k + 1)
    BY <1>1, <1>2, <1>3, <1>5, ListsFrom
  <1> QED
    BY <1>6

LEMMA ListsExist ==
  ASSUME NEW s, NEW xs, NEW S, NEW count \in Nat
  PROVE  \E f : Lists(f, s, xs, S, count)
  <1> DEFINE Without == {k \in Nat : ~\E f : Lists(f, s, xs, S, k)}
  <1>1. SUFFICES ASSUME Without # {} PROVE FALSE
    OBVIOUS
  <1>2. PICK m \in Without : \A k \in Without : m <= k
    BY <1>1, Least
  <1>3. \E f : Lists(f, s, xs, S, 0)
    <2> DEFINE f == [i \in 0 .. 0 |-> s]
    <2>1. f = [i \in 0 .. 0 |-> f[i]] /\ f[0] = s /\ 1 .. 0 = {}
      OBVIOUS
    <2> HIDE DEF f
    <2>2. Lists(f, s, xs, S, 0)
      BY <2>1, ListsFrom
    <2> QED
      BY <2>2
  <1>4. m # 0 /\ m \in Nat
    BY <1>2, <1>3
  <1>5. m - 1 \in Nat /\ ~(m <= m - 1) /\ (m - 1) + 1 = m
    BY <1>4
  <1>6. \E f : Lists(f, s, xs, S, m - 1)
    BY <1>2, <1>5
  <1>7. \E f : Lists(f, s, xs, S, (m - 1) + 1)
    BY <1>5, <1>6, ListsOneMore
  <1> QED
    BY <1>2, <1>5, <1>7

LEMMA AddOneIs ==
  ASSUME NEW T, NEW s \in Seq(T), NEW x \in T, NEW S
  PROVE  /\ AddOne(s, x, S) \in Seq(T)
         /\ Derive!Rng(AddOne(s, x, S)) = Derive!Rng(s) \cup ({x} \cap S)
         /\ Derive!IsInjective(s) => Derive!IsInjective(AddOne(s, x, S))
  <1>1. CASE x \notin S \ Derive!Rng(s)
    BY <1>1 DEF AddOne
  <1>2. CASE x \in S \ Derive!Rng(s)
    <2> DEFINE t == Append(s, x)
    <2>1. AddOne(s, x, S) = t /\ x \notin Derive!Rng(s) /\ x \in S
      BY <1>2 DEF AddOne
    <2>2. t \in Seq(T) /\ Len(t) = Len(s) + 1 /\ Len(s) \in Nat
      OBVIOUS
    <2>3. DOMAIN t = 1 .. (Len(s) + 1) /\ DOMAIN s = 1 .. Len(s)
      BY <2>2
    <2>4. t[Len(s) + 1] = x /\ \A i \in 1 .. Len(s) : t[i] = s[i]
      OBVIOUS
    <2> HIDE DEF t
    <2>5. Derive!Rng(t) = Derive!Rng(s) \cup {x}
      <3>1. \A i \in 1 .. (Len(s) + 1) : i \in 1 .. Len(s) \/ i = Len(s) + 1
        BY <2>2
      <3>2. 1 .. Len(s) \subseteq 1 .. (Len(s) + 1) /\ Len(s) + 1 \in 1 .. (Len(s) + 1)
        BY <2>2
      <3> QED
        BY <3>1, <3>2, <2>3, <2>4 DEF Derive!Rng
    <2>6. Derive!IsInjective(s) => Derive!IsInjective(t)
      <3> SUFFICES ASSUME Derive!IsInjective(s) PROVE Derive!IsInjective(t)
        OBVIOUS
      <3>1. \A i \in 1 .. (Len(s) + 1) : i \in 1 .. Len(s) \/ i = Len(s) + 1
        BY <2>2
      <3>2. \A i \in 1 .. Len(s) : t[i] # x /\ i # Len(s) + 1
        BY <2>1, <2>2, <2>3, <2>4 DEF Derive!Rng
      <3> QED
        BY <3>1, <3>2, <2>3, <2>4 DEF Derive!IsInjective
    <2> QED
      BY <2>1, <2>2, <2>5, <2>6
  <1> QED
    BY <1>1, <1>2

\* What AddAll returns.
LEMMA AddAllIs ==
  ASSUME NEW T, NEW s \in Seq(T), NEW xs \in Seq(T), NEW S
  PROVE  /\ Derive!AddAll(s, xs, S) \in Seq(T)
         /\ Derive!Rng(Derive!AddAll(s, xs, S)) = Derive!Rng(s) \cup (Derive!Rng(xs) \cap S)
         /\ Derive!IsInjective(s) => Derive!IsInjective(Derive!AddAll(s, xs, S))
  <1> DEFINE f == CHOOSE f : Lists(f, s, xs, S, Len(xs))
             First(k) == {xs[i] : i \in 1 .. k}
             Added(k) == /\ f[k] \in Seq(T)
                         /\ Derive!Rng(f[k]) = Derive!Rng(s) \cup (First(k) \cap S)
                         /\ Derive!IsInjective(s) => Derive!IsInjective(f[k])
             Bad == {k \in Nat : k <= Len(xs) /\ ~Added(k)}
  <1>1. Len(xs) \in Nat /\ DOMAIN xs = 1 .. Len(xs) /\ \A i \in 1 .. Len(xs) : xs[i] \in T
    OBVIOUS
  <1>2. Derive!AddAll(s, xs, S) = f[Len(xs)]
    BY DEF Derive!AddAll, Lists, AddOne
  <1>3. Lists(f, s, xs, S, Len(xs))
    BY <1>1, ListsExist
  <1> HIDE DEF f
  <1>4. f[0] = s /\ \A i \in 1 .. Len(xs) : f[i] = AddOne(f[i - 1], xs[i], S)
    <2> DEFINE final == Len(xs)
    <2>1. final \in Nat /\ Lists(f, s, xs, S, final)
      BY <1>1, <1>3
    <2> HIDE DEF final
    <2>2. f[0] = s /\ \A i \in 1 .. final : f[i] = AddOne(f[i - 1], xs[i], S)
      BY <2>1, ListsAt
    <2> QED
      BY <2>2 DEF final
  <1>5. Added(0)
    <2>1. First(0) = {}
      OBVIOUS
    <2> HIDE DEF First
    <2> QED
      BY <1>4, <2>1
  <1>6. ASSUME NEW k \in Nat, k < Len(xs), Added(k) PROVE Added(k + 1)
    <2>1. k + 1 \in 1 .. Len(xs) /\ (k + 1) - 1 = k
      BY <1>1, <1>6
    <2> DEFINE x == xs[k + 1]
               before == f[k]
    <2>2. f[k + 1] = AddOne(before, x, S) /\ x \in T
      BY <1>1, <1>4, <2>1
    <2>3. First(k + 1) = First(k) \cup {x}
      <3>1. \A i : i \in 1 .. (k + 1) <=> i \in 1 .. k \/ i = k + 1
        OBVIOUS
      <3> QED
        BY <3>1
    <2>4. before \in Seq(T)
      BY <1>6
    <2> HIDE DEF x, before
    <2>5. /\ AddOne(before, x, S) \in Seq(T)
          /\ Derive!Rng(AddOne(before, x, S)) = Derive!Rng(before) \cup ({x} \cap S)
          /\ Derive!IsInjective(before) => Derive!IsInjective(AddOne(before, x, S))
      BY <2>2, <2>4, AddOneIs
    <2>6. /\ Derive!Rng(before) = Derive!Rng(s) \cup (First(k) \cap S)
          /\ Derive!IsInjective(s) => Derive!IsInjective(before)
      BY <1>6 DEF before
    <2> HIDE DEF First
    <2> QED
      BY <2>2, <2>3, <2>5, <2>6
  <1> HIDE DEF Added
  <1>7. Bad = {}
    <2> SUFFICES ASSUME Bad # {} PROVE FALSE
      OBVIOUS
    <2>1. PICK m \in Bad : \A k \in Bad : m <= k
      BY Least
    <2>2. m \in Nat /\ m <= Len(xs) /\ ~Added(m) /\ m # 0
      BY <2>1, <1>5
    <2>3. m - 1 \in Nat /\ m - 1 < Len(xs) /\ ~(m <= m - 1) /\ (m - 1) + 1 = m /\ m - 1 <= Len(xs)
      BY <2>2, <1>1
    <2>4. Added(m - 1)
      BY <2>1, <2>3
    <2>5. Added((m - 1) + 1)
      BY <1>6, <2>3, <2>4
    <2> QED
      BY <2>2, <2>3, <2>5
  <1>8. Added(Len(xs))
    BY <1>1, <1>7
  <1>9. First(Len(xs)) = Derive!Rng(xs)
    BY <1>1 DEF Derive!Rng
  <1> HIDE DEF First
  <1> QED
    BY <1>2, <1>8, <1>9 DEF Added

-----------------------------------------------------------------------------
(***************************************************************************)
(* Paths.  Something that compose mounts is below Root, so a volume above  *)
(* Root is on the way of it: what is admitted is below Root.               *)
(***************************************************************************)

LEMMA PrefixIs ==
  ASSUME NEW s, NEW t, Derive!IsList(s), Derive!IsList(t)
  PROVE  Derive!IsPrefix(s, t) <=> Len(s) <= Len(t) /\ \A i \in 1 .. Len(s) : s[i] = t[i]
  <1> DEFINE T == Derive!Rng(s) \cup Derive!Rng(t)
  <1>1. s \in Seq(T) /\ t \in Seq(T)
    BY DEF Derive!IsList
  <1> HIDE DEF T
  <1>2. Len(s) \in Nat /\ Len(t) \in Nat
    BY <1>1
  <1>3. CASE Len(s) <= Len(t)
    <2> DEFINE a == SubSeq(s, 1, Len(s))
               b == SubSeq(t, 1, Len(s))
    <2>1. /\ DOMAIN a = 1 .. Len(s) /\ \A i \in 1 .. Len(s) : a[i] = s[i]
          /\ a \in Seq(T)
      BY <1>1, <1>2
    <2>2. /\ DOMAIN b = 1 .. Len(s) /\ \A i \in 1 .. Len(s) : b[i] = t[i]
          /\ b \in Seq(T)
      BY <1>1, <1>2, <1>3
    <2>3. Derive!IsPrefix(s, t) <=> a = b
      BY <1>3 DEF Derive!IsPrefix
    <2>4. a = [i \in 1 .. Len(s) |-> a[i]] /\ b = [i \in 1 .. Len(s) |-> b[i]]
      BY <2>1, <2>2
    <2> HIDE DEF a, b
    <2> QED
      BY <1>3, <2>1, <2>2, <2>3, <2>4
  <1>4. CASE ~(Len(s) <= Len(t))
    BY <1>4 DEF Derive!IsPrefix
  <1> QED
    BY <1>3, <1>4

LEMMA PrefixTransitive ==
  ASSUME NEW s, NEW t, NEW u, Derive!IsList(s), Derive!IsList(t), Derive!IsList(u),
         Derive!IsPrefix(s, t), Derive!IsPrefix(t, u)
  PROVE  Derive!IsPrefix(s, u)
  <1>1. /\ Len(s) <= Len(t) /\ \A i \in 1 .. Len(s) : s[i] = t[i]
        /\ Len(t) <= Len(u) /\ \A i \in 1 .. Len(t) : t[i] = u[i]
    BY PrefixIs
  <1>2. Len(s) \in Nat /\ Len(t) \in Nat /\ Len(u) \in Nat
    BY DEF Derive!IsList
  <1>3. Len(s) <= Len(u) /\ \A i \in 1 .. Len(s) : i \in 1 .. Len(t)
    BY <1>1, <1>2
  <1>4. \A i \in 1 .. Len(s) : s[i] = u[i]
    BY <1>1, <1>3
  <1> QED
    BY <1>3, <1>4, PrefixIs

LEMMA BelowRoot ==
  ASSUME Derive!DeriveAssumption, NEW m, Derive!IsList(m), \A q \in Derive!Reserved : ~Derive!Overlap(m, q)
  PROVE  Derive!Overlap(m, Root) /\ m # Root <=> Derive!IsStrictPrefix(Root, m)
  <1>1. PICK q \in StaticMounts : Derive!IsPrefix(Root, q)
    BY DEF Derive!DeriveAssumption
  <1>2. Derive!IsList(Root) /\ Derive!IsList(q)
    BY <1>1 DEF Derive!DeriveAssumption
  <1>3. ~Derive!IsPrefix(m, q)
    BY DEF Derive!Overlap, Derive!Reserved
  <1>4. ~Derive!IsPrefix(m, Root)
    BY <1>1, <1>2, <1>3, PrefixTransitive
  <1> QED
    BY <1>4 DEF Derive!Overlap, Derive!IsStrictPrefix

-----------------------------------------------------------------------------
(***************************************************************************)
(* The plugins that are done fit together; what was gathered is theirs, so *)
(* the checks of the next round are those of the next plugin with each of  *)
(* them.                                                                   *)
(***************************************************************************)

Doc(i) == Plugin[out.plugins[i]]
IsDone(i) == i \in DOMAIN out.plugins /\ i < at

GatheredFrom ==
    /\ \A x : x \in DOMAIN out.slots <=> \E i \in DOMAIN out.plugins : IsDone(i) /\ x \in Doc(i).slots
    /\ \A x : x \in DOMAIN out.servers <=>
         \E i \in DOMAIN out.plugins : IsDone(i) /\ x \in DOMAIN Doc(i).servers
    /\ \A x : x \in DOMAIN out.volumes <=>
         \E i \in DOMAIN out.plugins : IsDone(i) /\ x \in DOMAIN Doc(i).volumes
    /\ \A x : x \in Derive!Rng(out.volumes) <=>
         \E i \in DOMAIN out.plugins : IsDone(i) /\ x \in Derive!Rng(Doc(i).volumes)
    /\ \A x : x \in out.services <=> \E i \in DOMAIN out.plugins : IsDone(i) /\ x \in Doc(i).services

TheyFit ==
    /\ \A i \in DOMAIN out.plugins : Derive!Fits(out.plugins[i])
    /\ \A i, j \in DOMAIN out.plugins : i # j => Derive!FitTogether(out.plugins[i], out.plugins[j])

ListTyped ==
    /\ Len(out.plugins) \in Nat /\ DOMAIN out.plugins = 1 .. Len(out.plugins)
    /\ \A i \in DOMAIN out.plugins : out.plugins[i] \in DOMAIN Plugin /\ Doc(i) # None

FitInv ==
    /\ manifest \in Manifests /\ at \in Nat /\ at >= 1 /\ ListTyped
    /\ section \in {"Repos", "Plugins"} => at = 1
    /\ GatheredFrom
    /\ \A i \in DOMAIN out.plugins : IsDone(i) => Derive!Fits(out.plugins[i])
    /\ \A i, j \in DOMAIN out.plugins :
          IsDone(i) /\ IsDone(j) /\ i # j => Derive!FitTogether(out.plugins[i], out.plugins[j])
    /\ section \in {"Secrets", "Overrides", "Notify", "Derived"} => at > Len(out.plugins)
    /\ section = "Unfit" => ~TheyFit

LEMMA FitsStays ==
  ASSUME manifest' = manifest PROVE \A p : Derive!Fits(p)' <=> Derive!Fits(p)
  BY DEF Derive!Fits

LEMMA FitInit == ASSUME Derive!Init PROVE FitInv
  <1>1. /\ manifest \in Manifests /\ section = "Repos" /\ at = 1
        /\ out.plugins = <<>> /\ out.slots = <<>> /\ out.servers = <<>> /\ out.volumes = <<>>
        /\ out.services = {}
    BY DEF Derive!Init, Derive!Nothing
  <1>2. Len(<<>>) = 0 /\ DOMAIN <<>> = {} /\ Derive!Rng(<<>>) = {} /\ 1 .. 0 = {}
    BY DEF Derive!Rng
  <1> QED
    BY <1>1, <1>2 DEF FitInv, ListTyped, GatheredFrom

\* Steps that leave the plugins and what was gathered alone.
LEMMA FitKept ==
  ASSUME FitInv, manifest' = manifest, at' = at,
         out'.plugins = out.plugins, out'.slots = out.slots, out'.servers = out.servers,
         out'.volumes = out.volumes, out'.services = out.services,
         section' \in {"Repos", "Plugins"} => section \in {"Repos", "Plugins"},
         section' \in {"Secrets", "Overrides", "Notify", "Derived"} => at > Len(out.plugins),
         section' = "Unfit" => section = "Unfit"
  PROVE  FitInv'
  <1>1. GatheredFrom'
    BY DEF FitInv, GatheredFrom, IsDone, Doc
  <1>2. TheyFit' <=> TheyFit
    BY FitsStays DEF TheyFit
  <1> QED
    BY <1>1, <1>2, FitsStays DEF FitInv, ListTyped, IsDone, Doc

LEMMA SectionFits ==
  ASSUME FitInv, NEW s, NEW ok, NEW next, NEW result, Derive!Section(s, ok, next, result),
         result.plugins = out.plugins, result.slots = out.slots, result.servers = out.servers,
         result.volumes = out.volumes, result.services = out.services,
         next \notin {"Repos", "Plugins", "Unfit"},
         next \in {"Secrets", "Overrides", "Notify", "Derived"} =>
            s \in {"Secrets", "Overrides", "Notify", "Derived"}
  PROVE  FitInv'
  <1>1. CASE section' = "Refused"
    BY <1>1, FitKept DEF Derive!Section
  <1>2. CASE section' # "Refused"
    <2>1. section = s /\ section' = next /\ out' = result /\ manifest' = manifest /\ at' = at
      BY <1>2 DEF Derive!Section
    <2>2. section \in {"Secrets", "Overrides", "Notify", "Derived"} => at > Len(out.plugins)
      BY DEF FitInv
    <2> QED
      BY <2>1, <2>2, FitKept
  <1> QED
    BY <1>1, <1>2

LEMMA SweetenedIsList ==
  ASSUME Derive!DeriveAssumption, manifest \in Manifests
  PROVE  Len(Derive!Sweetened) \in Nat /\ DOMAIN Derive!Sweetened = 1 .. Len(Derive!Sweetened)
  <1> DEFINE T == Derive!Rng(manifest.plugins) \cup Derive!Rng(Caps) \cup Derive!Rng(Derive!RefPlugins)
  <1>1. /\ manifest.plugins \in Seq(Derive!Rng(manifest.plugins)) /\ Caps \in Seq(Derive!Rng(Caps))
        /\ manifest.refs \in Seq(Derive!Rng(manifest.refs))
    BY DEF Derive!DeriveAssumption, Derive!IsList
  <1>2. Derive!RefPlugins \in Seq(Derive!Rng(Derive!RefPlugins))
    <2>1. Len(manifest.refs) \in Nat /\ DOMAIN manifest.refs = 1 .. Len(manifest.refs)
      BY <1>1
    <2>2. DOMAIN Derive!RefPlugins = 1 .. Len(manifest.refs)
          /\ Derive!RefPlugins = [i \in 1 .. Len(manifest.refs) |-> Derive!RefPlugins[i]]
      BY <2>1 DEF Derive!RefPlugins
    <2>3. \A i \in 1 .. Len(manifest.refs) : Derive!RefPlugins[i] \in Derive!Rng(Derive!RefPlugins)
      BY <2>2 DEF Derive!Rng
    <2>4. [i \in 1 .. Len(manifest.refs) |-> Derive!RefPlugins[i]] \in Seq(Derive!Rng(Derive!RefPlugins))
      BY <2>1, <2>3
    <2> QED
      BY <2>2, <2>4
  <1>3. manifest.plugins \in Seq(T) /\ Caps \in Seq(T) /\ Derive!RefPlugins \in Seq(T)
    BY <1>1, <1>2
  <1> HIDE DEF T
  <1>4. Derive!AddAll(manifest.plugins, Caps, manifest.caps) \in Seq(T)
    BY <1>3, AddAllIs
  <1>5. Derive!Sweetened \in Seq(T)
    BY <1>3, <1>4, AddAllIs DEF Derive!Sweetened
  <1> QED
    BY <1>5

LEMMA PluginsListFits == ASSUME Derive!DeriveAssumption, OutInv, FitInv, Derive!PluginsList PROVE FitInv'
  <1>1. CASE section' = "Refused"
    <2>1. out' = out /\ manifest' = manifest /\ at' = at
      BY <1>1 DEF Derive!PluginsList, Derive!Section
    <2> QED
      BY <1>1, <2>1, FitKept
  <1>2. CASE section' # "Refused"
    <2>1. /\ section = "Plugins" /\ section' = "Ports" /\ manifest' = manifest /\ at' = at
          /\ out' = [out EXCEPT !.plugins = Derive!Sweetened]
          /\ \A p \in Derive!Rng(Derive!Sweetened) : p \in DOMAIN Plugin /\ Plugin[p] # None
      BY <1>2 DEF Derive!PluginsList, Derive!Section
    <2>2. /\ out'.plugins = Derive!Sweetened /\ out'.slots = out.slots /\ out'.servers = out.servers
          /\ out'.volumes = out.volumes /\ out'.services = out.services
      BY <2>1 DEF OutInv, Fields
    <2>3. at = 1 /\ manifest \in Manifests
      BY <2>1 DEF FitInv
    <2>4. Len(Derive!Sweetened) \in Nat /\ DOMAIN Derive!Sweetened = 1 .. Len(Derive!Sweetened)
      BY <2>3, SweetenedIsList
    <2>5. ListTyped'
      BY <2>1, <2>2, <2>4 DEF ListTyped, Doc, Derive!Rng
    <2>6. \A i \in DOMAIN out.plugins : ~IsDone(i)
      <3>1. \A i \in DOMAIN out.plugins : i \in Nat /\ i >= 1
        BY DEF FitInv, ListTyped
      <3> QED
        BY <2>3, <3>1 DEF IsDone
    <2>7. \A i \in DOMAIN out'.plugins : ~IsDone(i)'
      BY <2>1, <2>2, <2>3, <2>4 DEF IsDone
    <2>8. GatheredFrom'
      BY <2>2, <2>6, <2>7 DEF FitInv, GatheredFrom
    <2> QED
      BY <2>1, <2>3, <2>5, <2>7, <2>8 DEF FitInv
  <1> QED
    BY <1>1, <1>2

LEMMA ReposFit == ASSUME OutInv, FitInv, Derive!Repos PROVE FitInv'
  <1> DEFINE sites == {manifest.repos[i].host :
                        i \in {j \in DOMAIN manifest.repos : manifest.repos[j].scheme = "https"}}
                      \cup manifest.gitHosts
  <1>1. /\ manifest' = manifest /\ at' = at
        /\ \/ out' = out /\ section' = "Refused"
           \/ section = "Repos" /\ section' = "Plugins" /\ out' = [out EXCEPT !.origins = sites]
    BY DEF Derive!Repos, Derive!Section
  <1> HIDE DEF sites
  <1> QED
    BY <1>1, FitKept DEF OutInv, Fields

LEMMA PluginPortsFit == ASSUME OutInv, FitInv, Derive!PluginPorts PROVE FitInv'
  BY SectionFits DEF Derive!PluginPorts, OutInv, Fields

LEMMA RemoteFits == ASSUME OutInv, FitInv, Derive!Remote PROVE FitInv'
  <1> DEFINE shell == Derive!Shell(manifest.remote)
  <1>1. /\ manifest' = manifest /\ at' = at
        /\ \/ out' = out /\ section' = "Refused"
           \/ /\ section = "Remote" /\ section' = "Refs"
              /\ out' = [out EXCEPT !.shell = shell, !.notify = manifest.remote.notify]
    BY DEF Derive!Remote, Derive!Section
  <1> HIDE DEF shell
  <1> QED
    BY <1>1, FitKept DEF OutInv, Fields

LEMMA RefsFit == ASSUME OutInv, FitInv, Derive!Refs PROVE FitInv'
  <1> DEFINE refs == [i \in DOMAIN manifest.refs |-> RefOf[manifest.refs[i]]]
             named == [i \in DOMAIN refs |-> Derive!Record(refs[i].agent, refs[i].slot, refs[i].source)]
  <1>1. /\ manifest' = manifest /\ at' = at
        /\ \/ out' = out /\ section' = "Refused"
           \/ section = "Refs" /\ section' = "Plugin" /\ out' = [out EXCEPT !.bindings = named]
    BY DEF Derive!Refs, Derive!Section
  <1> HIDE DEF refs, named
  <1> QED
    BY <1>1, FitKept DEF OutInv, Fields

LEMMA SecretsFit == ASSUME OutInv, FitInv, Derive!Secrets PROVE FitInv'
  BY SectionFits DEF Derive!Secrets, OutInv, Fields

LEMMA NotifyFits == ASSUME OutInv, FitInv, Derive!Notify PROVE FitInv'
  BY SectionFits DEF Derive!Notify, OutInv, Fields

LEMMA AgentEgressFits == ASSUME OutInv, FitInv, Derive!AgentEgress PROVE FitInv'
  BY FitKept DEF Derive!AgentEgress, OutInv, Fields

LEMMA OneOverrideFits == ASSUME OutInv, FitInv, Derive!OneOverride PROVE FitInv'
  <1> DEFINE i == out.overridden + 1
             r == Derive!Overrides[i]
             secrets == IF r.source = None THEN out.secrets
                        ELSE Append(out.secrets, Derive!Record(r.agent, r.slot, r.source))
  <1>1. /\ section = "Overrides" /\ section' \in {"Overrides", "Refused"}
        /\ manifest' = manifest /\ at' = at
        /\ out' = out \/ out' = [out EXCEPT !.overridden = i, !.secrets = secrets]
    BY DEF Derive!OneOverride
  <1> HIDE DEF i, r, secrets
  <1>2. at > Len(out.plugins)
    BY <1>1 DEF FitInv
  <1> QED
    BY <1>1, <1>2, FitKept DEF OutInv, Fields

LEMMA OneDefaultFits == ASSUME OutInv, FitInv, Derive!OneDefault PROVE FitInv'
  <1>1. /\ section = "Overrides" /\ section' = section /\ manifest' = manifest /\ at' = at
        /\ \E u, v : out' = [out EXCEPT !.unfilled = u, !.secrets = v]
    BY DEF Derive!OneDefault
  <1>2. at > Len(out.plugins)
    BY <1>1 DEF FitInv
  <1> QED
    BY <1>1, <1>2, FitKept DEF OutInv, Fields

LEMMA SecretsDoneFit == ASSUME OutInv, FitInv, Derive!SecretsDone PROVE FitInv'
  <1>1. at > Len(out.plugins)
    BY DEF FitInv, Derive!SecretsDone
  <1> QED
    BY <1>1, FitKept DEF Derive!SecretsDone

-----------------------------------------------------------------------------
\* What the checks ask of a plugin with each of the earlier ones.
Pairs(doc) == \A i \in DOMAIN out.plugins : IsDone(i) =>
    /\ doc.slots \cap Doc(i).slots = {} /\ doc.services \cap Doc(i).services = {}
    /\ DOMAIN doc.servers \cap DOMAIN Doc(i).servers = {}
    /\ DOMAIN doc.volumes \cap DOMAIN Doc(i).volumes = {}
    /\ \A v \in DOMAIN doc.volumes, q \in Derive!Rng(Doc(i).volumes) : ~Derive!Overlap(doc.volumes[v], q)

LEMMA GatheredApart ==
  ASSUME GatheredFrom, NEW doc
  PROVE  Pairs(doc) <=>
           /\ Derive!SlotsOk(doc) /\ Derive!ServicesOk(doc)
           /\ DOMAIN doc.servers \cap DOMAIN out.servers = {}
           /\ DOMAIN doc.volumes \cap DOMAIN out.volumes = {}
           /\ \A v \in DOMAIN doc.volumes : \A q \in Derive!Rng(out.volumes) : ~Derive!Overlap(doc.volumes[v], q)
  BY DEF GatheredFrom, Pairs, Derive!SlotsOk, Derive!ServicesOk

LEMMA PairsFit ==
  ASSUME NEW p
  PROVE  Pairs(Plugin[p]) <=>
           \A i \in DOMAIN out.plugins : IsDone(i) => Derive!FitTogether(p, out.plugins[i])
  <1>1. ASSUME NEW f, NEW S
        PROVE  (\A v \in DOMAIN f, q \in S : ~Derive!Overlap(f[v], q)) <=>
               \A m \in Derive!Rng(f), q \in S : ~Derive!IsPrefix(m, q) /\ ~Derive!IsPrefix(q, m)
    BY DEF Derive!Rng, Derive!Overlap
  <1> QED
    BY <1>1 DEF Pairs, Doc, Derive!FitTogether

LEMMA FitTogetherSymmetric ==
  ASSUME NEW p, NEW q PROVE Derive!FitTogether(p, q) <=> Derive!FitTogether(q, p)
  BY DEF Derive!FitTogether

\* What they ask of the plugin by itself.
AloneOk(p, doc) ==
    /\ doc.legal /\ Derive!PortOk(p, doc)
    /\ \A name \in DOMAIN doc.servers : doc.servers[name].requires \subseteq doc.slots
    /\ doc.install \/ \A name \in DOMAIN doc.servers : doc.servers[name].kind # "local"
    /\ DOMAIN doc.volumes \cap (StaticNames \cup Derive!AgentNames) = {}
    /\ \A v \in DOMAIN doc.volumes :
         /\ Derive!Overlap(doc.volumes[v], Root) /\ doc.volumes[v] # Root
         /\ \A q \in Derive!Reserved : ~Derive!Overlap(doc.volumes[v], q)
         /\ \A w \in DOMAIN doc.volumes \ {v} : ~Derive!Overlap(doc.volumes[v], doc.volumes[w])

LEMMA RoundChecks ==
  ASSUME GatheredFrom, NEW p, NEW doc
  PROVE  doc.legal /\ Derive!SlotsOk(doc) /\ Derive!ServersOk(doc) /\ Derive!VolumesOk(doc)
           /\ Derive!ServicesOk(doc) /\ Derive!PortOk(p, doc)
         <=> AloneOk(p, doc) /\ Pairs(doc)
  <1>1. Derive!VolumesOk(doc) <=>
               /\ DOMAIN doc.volumes \cap (StaticNames \cup Derive!AgentNames) = {}
               /\ DOMAIN doc.volumes \cap DOMAIN out.volumes = {}
               /\ \A v \in DOMAIN doc.volumes :
                    /\ Derive!Overlap(doc.volumes[v], Root) /\ doc.volumes[v] # Root
                    /\ \A q \in Derive!Reserved : ~Derive!Overlap(doc.volumes[v], q)
                    /\ \A w \in DOMAIN doc.volumes \ {v} : ~Derive!Overlap(doc.volumes[v], doc.volumes[w])
               /\ \A v \in DOMAIN doc.volumes : \A q \in Derive!Rng(out.volumes) : ~Derive!Overlap(doc.volumes[v], q)
    BY DEF Derive!VolumesOk
  <1> QED
    BY <1>1, GatheredApart DEF AloneOk, Derive!ServersOk

LEMMA VolumesAlone ==
  ASSUME Derive!DeriveAssumption, NEW volumes, \A v \in DOMAIN volumes : Derive!IsList(volumes[v])
  PROVE  (\A v \in DOMAIN volumes :
            /\ Derive!Overlap(volumes[v], Root) /\ volumes[v] # Root
            /\ \A q \in Derive!Reserved : ~Derive!Overlap(volumes[v], q)
            /\ \A w \in DOMAIN volumes \ {v} : ~Derive!Overlap(volumes[v], volumes[w]))
         <=> /\ \A m \in Derive!Rng(volumes) :
                  Derive!IsStrictPrefix(Root, m) /\ \A q \in Derive!Reserved : ~Derive!IsPrefix(m, q) /\ ~Derive!IsPrefix(q, m)
             /\ \A v, w \in DOMAIN volumes : v # w => ~Derive!IsPrefix(volumes[v], volumes[w])
  <1>1. ASSUME NEW v \in DOMAIN volumes, \A q \in Derive!Reserved : ~Derive!Overlap(volumes[v], q)
        PROVE  Derive!Overlap(volumes[v], Root) /\ volumes[v] # Root <=> Derive!IsStrictPrefix(Root, volumes[v])
    BY <1>1, BelowRoot
  <1>2. \A m \in Derive!Rng(volumes) : \E v \in DOMAIN volumes : m = volumes[v]
    BY DEF Derive!Rng
  <1>3. \A v \in DOMAIN volumes : volumes[v] \in Derive!Rng(volumes)
    BY DEF Derive!Rng
  <1>4. \A a, b : Derive!Overlap(a, b) <=> Derive!IsPrefix(a, b) \/ Derive!IsPrefix(b, a)
    BY DEF Derive!Overlap
  <1> QED
    BY <1>1, <1>2, <1>3, <1>4

LEMMA AloneFits ==
  ASSUME Derive!DeriveAssumption, NEW p \in DOMAIN Plugin, Plugin[p] # None
  PROVE  AloneOk(p, Plugin[p]) <=> Derive!Fits(p)
  <1> DEFINE doc == Plugin[p]
  <1>1. \A v \in DOMAIN doc.volumes : Derive!IsList(doc.volumes[v])
    BY DEF Derive!DeriveAssumption
  <1>2. Derive!PortOk(p, doc) <=>
               /\ doc.port # None \/ p \notin DOMAIN manifest.ports
               /\ doc.relay \in IF doc.port = None THEN {None} ELSE {"policy", "open"}
               /\ \A name \in DOMAIN doc.servers : doc.servers[name].takesPort => doc.port # None
               /\ doc.port # None =>
                    \E name \in DOMAIN doc.servers :
                      doc.servers[name].takesPort \/ doc.servers[name].kind = "remote"
    BY DEF Derive!PortOk
  <1> HIDE DEF doc
  <1> QED
    BY <1>1, <1>2, VolumesAlone DEF AloneOk, Derive!Fits, doc

LEMMA JoinedIs ==
  ASSUME NEW f, NEW g
  PROVE  /\ DOMAIN Derive!Joined(f, g) = DOMAIN f \cup DOMAIN g
         /\ DOMAIN f \cap DOMAIN g = {} => Derive!Rng(Derive!Joined(f, g)) = Derive!Rng(f) \cup Derive!Rng(g)
  <1> DEFINE h == Derive!Joined(f, g)
  <1>1. /\ DOMAIN h = DOMAIN f \cup DOMAIN g
        /\ \A x \in DOMAIN h : h[x] = IF x \in DOMAIN f THEN f[x] ELSE g[x]
    BY DEF Derive!Joined
  <1> HIDE DEF h
  <1>2. ASSUME DOMAIN f \cap DOMAIN g = {} PROVE Derive!Rng(h) = Derive!Rng(f) \cup Derive!Rng(g)
    <2>1. \A x \in DOMAIN f : x \in DOMAIN h /\ h[x] = f[x]
      BY <1>1
    <2>2. \A x \in DOMAIN g : x \in DOMAIN h /\ h[x] = g[x]
      BY <1>1, <1>2
    <2>3. \A x \in DOMAIN h : x \in DOMAIN f \/ x \in DOMAIN g
      BY <1>1
    <2> QED
      BY <2>1, <2>2, <2>3 DEF Derive!Rng
  <1> QED
    BY <1>1, <1>2 DEF h

\* What one plugin adds, each section apart.
LEMMA FoldedIs ==
  ASSUME OutInv, NEW p, NEW doc, NEW r, r = Derive!Folded(p, doc),
         DOMAIN out.volumes \cap DOMAIN doc.volumes = {}
  PROVE  /\ r.plugins = out.plugins /\ r.services = out.services \cup doc.services
         /\ DOMAIN r.slots = DOMAIN out.slots \cup doc.slots
         /\ DOMAIN r.servers = DOMAIN out.servers \cup DOMAIN doc.servers
         /\ DOMAIN r.volumes = DOMAIN out.volumes \cup DOMAIN doc.volumes
         /\ Derive!Rng(r.volumes) = Derive!Rng(out.volumes) \cup Derive!Rng(doc.volumes)
  <1> DEFINE added == [s \in doc.slots |-> p]
             servers == [name \in DOMAIN doc.servers |-> Derive!Wired(p, doc.servers[name])]
  <1>1. /\ r.plugins = out.plugins /\ r.services = out.services \cup doc.services
        /\ r.slots = Derive!Joined(out.slots, added)
        /\ r.servers = Derive!Joined(out.servers, servers)
        /\ r.volumes = Derive!Joined(out.volumes, doc.volumes)
    BY DEF Derive!Folded, OutInv, Fields
  <1>2. DOMAIN added = doc.slots /\ DOMAIN servers = DOMAIN doc.servers
    OBVIOUS
  <1> HIDE DEF added, servers
  <1>3. DOMAIN r.slots = DOMAIN out.slots \cup doc.slots
    <2>1. DOMAIN r.slots = DOMAIN out.slots \cup DOMAIN added
      BY <1>1, JoinedIs
    <2> QED
      BY <1>2, <2>1
  <1>4. DOMAIN r.servers = DOMAIN out.servers \cup DOMAIN doc.servers
    <2>1. DOMAIN r.servers = DOMAIN out.servers \cup DOMAIN servers
      BY <1>1, JoinedIs
    <2> QED
      BY <1>2, <2>1
  <1>5. /\ DOMAIN r.volumes = DOMAIN out.volumes \cup DOMAIN doc.volumes
        /\ Derive!Rng(r.volumes) = Derive!Rng(out.volumes) \cup Derive!Rng(doc.volumes)
    <2> DEFINE old == out.volumes
               new == doc.volumes
               both == Derive!Joined(old, new)
    <2>1. r.volumes = both
      BY <1>1
    <2>2. DOMAIN old \cap DOMAIN new = {}
      OBVIOUS
    <2> HIDE DEF old, new
    <2>3. DOMAIN both = DOMAIN old \cup DOMAIN new
      BY ONLY JoinedIs
    <2>4. Derive!Rng(both) = Derive!Rng(old) \cup Derive!Rng(new)
      BY ONLY <2>2, JoinedIs
    <2> HIDE DEF both
    <2> QED
      BY <2>1, <2>3, <2>4 DEF old, new
  <1> QED
    BY <1>1, <1>3, <1>4, <1>5

LEMMA OnePluginFits == ASSUME Derive!DeriveAssumption, OutInv, FitInv, Derive!OnePlugin PROVE FitInv'
  <1> DEFINE p == out.plugins[at]
             doc == Plugin[p]
             ok == doc.legal /\ Derive!SlotsOk(doc) /\ Derive!ServersOk(doc) /\ Derive!VolumesOk(doc)
                   /\ Derive!ServicesOk(doc) /\ Derive!PortOk(p, doc)
  <1>1. /\ section = "Plugin" /\ at \in Nat /\ at \in DOMAIN out.plugins /\ manifest' = manifest
        /\ p \in DOMAIN Plugin /\ doc # None /\ GatheredFrom /\ at + 1 \in Nat /\ at + 1 >= 1
    BY DEF Derive!OnePlugin, FitInv, ListTyped, Doc
  <1>2. ok <=> Derive!Fits(p) /\ \A i \in DOMAIN out.plugins : IsDone(i) => Derive!FitTogether(p, out.plugins[i])
    BY <1>1, RoundChecks, AloneFits, PairsFit
  <1>3. CASE ~ok
    <2>1. section' = "Unfit" /\ out' = out /\ at' = at
      BY <1>3 DEF Derive!OnePlugin
    <2>2. \A i \in DOMAIN out.plugins : IsDone(i) => i # at
      BY <1>1 DEF IsDone
    <2>3. ~TheyFit
      BY <1>1, <1>2, <1>3, <2>2 DEF TheyFit
    <2>4. ~TheyFit'
      BY <1>1, <2>1, <2>3, FitsStays DEF TheyFit
    <2> QED
      BY <1>1, <2>1, <2>4, FitsStays DEF FitInv, ListTyped, GatheredFrom, IsDone, Doc
  <1>4. CASE ok
    <2>1. section' = "Plugin" /\ at' = at + 1 /\ out' = Derive!Folded(p, doc)
      BY <1>1, <1>4 DEF Derive!OnePlugin
    <2>2. DOMAIN out.volumes \cap DOMAIN doc.volumes = {}
      BY <1>4 DEF Derive!VolumesOk
    <2> HIDE DEF doc, p
    <2>3. /\ out'.plugins = out.plugins /\ out'.services = out.services \cup doc.services
          /\ DOMAIN out'.slots = DOMAIN out.slots \cup doc.slots
          /\ DOMAIN out'.servers = DOMAIN out.servers \cup DOMAIN doc.servers
          /\ DOMAIN out'.volumes = DOMAIN out.volumes \cup DOMAIN doc.volumes
          /\ Derive!Rng(out'.volumes) = Derive!Rng(out.volumes) \cup Derive!Rng(doc.volumes)
      BY <2>1, <2>2, FoldedIs
    <2>4. \A i \in DOMAIN out.plugins : IsDone(i)' <=> IsDone(i) \/ i = at
      <3>1. \A i \in DOMAIN out.plugins : i \in Nat
        BY DEF FitInv, ListTyped
      <3> QED
        BY <1>1, <2>1, <2>3, <3>1 DEF IsDone
    <2>5. /\ Doc(at) = doc /\ \A i : Doc(i)' = Doc(i)
      BY <2>3 DEF Doc, doc, p
    <2>6. GatheredFrom'
      BY <1>1, <2>3, <2>4, <2>5 DEF GatheredFrom
    <2>7. ListTyped'
      BY <2>3, <2>5 DEF FitInv, ListTyped
    <2>8. \A i \in DOMAIN out.plugins : IsDone(i)' => Derive!Fits(out.plugins[i])'
      BY <1>1, <1>2, <1>4, <2>3, <2>4, FitsStays DEF FitInv, p
    <2>9. \A i, j \in DOMAIN out.plugins :
            IsDone(i)' /\ IsDone(j)' /\ i # j => Derive!FitTogether(out.plugins[i], out.plugins[j])
      BY <1>2, <1>4, <2>4, FitTogetherSymmetric DEF FitInv, p
    <2> QED
      BY <1>1, <2>1, <2>3, <2>6, <2>7, <2>8, <2>9 DEF FitInv
  <1> QED
    BY <1>3, <1>4

LEMMA FitStep ==
  ASSUME Derive!DeriveAssumption, OutInv, FitInv, [Derive!Next]_(Derive!vars) PROVE FitInv'
  <1>1. CASE UNCHANGED Derive!vars
    <2>1. at > Len(out.plugins) \/ section \notin {"Secrets", "Overrides", "Notify", "Derived"}
      BY DEF FitInv
    <2> QED
      BY <1>1, <2>1, FitKept DEF Derive!vars
  <1> QED
    BY <1>1, ReposFit, PluginsListFits, PluginPortsFit, RemoteFits, RefsFit, OnePluginFits,
       AgentEgressFits, SecretsFit, OneOverrideFits, OneDefaultFits, SecretsDoneFit, NotifyFits
       DEF Derive!Next

\* Derive by itself.
LEMMA PluginsFitAlone ==
  ASSUME Derive!DeriveAssumption PROVE Derive!Spec => []Derive!AcceptedIffTheyFit
  <1>1. Derive!Init => OutInv /\ FitInv
    BY PortsInit, FitInit
  <1>2. OutInv /\ FitInv /\ [Derive!Next]_(Derive!vars) => (OutInv /\ FitInv)'
    BY PortsStep, FitStep
  <1>3. FitInv => Derive!AcceptedIffTheyFit
    BY DEF FitInv, TheyFit, IsDone, ListTyped, Derive!AcceptedIffTheyFit
  <1> QED
    BY <1>1, <1>2, <1>3, PTL DEF Derive!Spec

\* Plugins are accepted exactly if each is legal and every two fit together
\* (manifest.py).
THEOREM PluginsFit == ServicesSpec => []AcceptedIffTheyFit
  <1>1. Derive!Spec => []Derive!AcceptedIffTheyFit
    BY PluginsFitAlone, ServicesAssumption DEF ServicesAssumption
  <1>2. Derive!AcceptedIffTheyFit \/ ~InDerive => AcceptedIffTheyFit
    BY DEF AcceptedIffTheyFit, InDerive
  <1> QED
    BY <1>1, <1>2, DeriveRuns, PTL

-----------------------------------------------------------------------------
(***************************************************************************)
(* Secrets.  The overrides read so far and the slots whose default was     *)
(* dealt out determine the records, each once; every override is of its    *)
(* own agent and slot.  With all of both, that is what Effective asks for. *)
(***************************************************************************)

Early == {"Repos", "Plugins", "Ports", "Remote", "Refs", "Plugin", "Secrets"}
Late == {"Overrides", "Notify", "Derived"}

Over == Derive!Overrides
FromOverride(r, j) ==
    Over[j].source # None /\ r = Derive!Record(Over[j].agent, Over[j].slot, Over[j].source)
FromDefault(r, s, a) == ~Derive!Overridden(a, s) /\ r = Derive!Record(a, s, Derive!Defaults[s])

IsKnown(j) == Over[j].agent \in DOMAIN Agent /\ Over[j].slot \in DOMAIN out.slots

Recorded ==
    /\ out.overridden \in Nat /\ out.overridden <= Len(Over)
    /\ Derive!IsList(out.secrets) /\ Derive!IsInjective(out.secrets)
    /\ \A r : r \in Derive!Rng(out.secrets) <=>
         \/ \E j \in 1 .. out.overridden : FromOverride(r, j)
         \/ \E s \in DOMAIN Derive!Defaults \ out.unfilled, a \in Derive!EnabledMcp : FromDefault(r, s, a)
    /\ \A j \in 1 .. out.overridden : IsKnown(j)
    /\ DOMAIN manifest.common \subseteq DOMAIN out.slots
    /\ out.unfilled \subseteq DOMAIN Derive!Defaults
    /\ out.overridden < Len(Over) => out.unfilled = DOMAIN Derive!Defaults
    /\ section \in {"Notify", "Derived"} => out.overridden = Len(Over) /\ out.unfilled = {}

SecInv ==
    /\ Derive!IsList(out.bindings)
    /\ section \in Early => out.secrets = <<>> /\ out.overridden = 0
    /\ section \in Late => Recorded

\* Nothing is said anew as long as the bindings and the manifest stay.
LEMMA SameOverrides ==
  ASSUME manifest' = manifest, out'.bindings = out.bindings
  PROVE  /\ Over' = Over /\ Derive!Defaults' = Derive!Defaults /\ Derive!EnabledMcp' = Derive!EnabledMcp
         /\ \A r, j : FromOverride(r, j)' <=> FromOverride(r, j)
         /\ \A r, s, a : FromDefault(r, s, a)' <=> FromDefault(r, s, a)
  <1>1. Over' = Over /\ Derive!Defaults' = Derive!Defaults /\ Derive!EnabledMcp' = Derive!EnabledMcp
    BY DEF Over, Derive!Overrides, Derive!Defaults, Derive!EnabledMcp, Derive!Enabled, Derive!AgentNamed
  <1>2. \A a, s : Derive!Overridden(a, s)' <=> Derive!Overridden(a, s)
    BY DEF Derive!Overridden, Derive!Overrides
  <1> QED
    BY <1>1, <1>2 DEF FromOverride, FromDefault

LEMMA OverIsList ==
  ASSUME Derive!DeriveAssumption, manifest \in Manifests, Derive!IsList(out.bindings)
  PROVE  Len(Over) \in Nat /\ DOMAIN Over = 1 .. Len(Over)
  <1> DEFINE T == Derive!Rng(out.bindings) \cup Derive!Rng(manifest.overrides)
  <1>1. /\ out.bindings \in Seq(Derive!Rng(out.bindings))
        /\ manifest.overrides \in Seq(Derive!Rng(manifest.overrides))
    BY DEF Derive!DeriveAssumption, Derive!IsList
  <1>2. Derive!Overrides \in Seq(T)
    BY <1>1 DEF Derive!Overrides
  <1> HIDE DEF T
  <1> QED
    BY <1>2 DEF Over

LEMMA AgentNamedIsList ==
  ASSUME Derive!DeriveAssumption, manifest \in Manifests
  PROVE  Derive!AgentNamed \in Seq(Derive!Rng(Derive!AgentNamed))
  BY DEF Derive!DeriveAssumption, Derive!IsList, Derive!AgentNamed

LEMMA SecInit == ASSUME Derive!Init PROVE SecInv
  <1>1. out.bindings = <<>> /\ out.secrets = <<>> /\ out.overridden = 0 /\ section = "Repos"
    BY DEF Derive!Init, Derive!Nothing
  <1>2. Derive!IsList(<<>>)
    BY DEF Derive!IsList
  <1> QED
    BY <1>1, <1>2 DEF SecInv, Early, Late

\* A section before the overrides.
LEMMA EarlyKeeps ==
  ASSUME SecInv, section \in Early, section' \notin Late,
         Derive!IsList(out'.bindings), out'.secrets = out.secrets, out'.overridden = out.overridden
  PROVE  SecInv'
  <1>1. Derive!IsList(out'.bindings) <=> Derive!IsList(out.bindings)'
    BY DEF Derive!IsList, Derive!Rng
  <1> QED
    BY <1>1 DEF SecInv, Early, Late

LEMMA ReposSecure == ASSUME OutInv, SecInv, Derive!Repos PROVE SecInv'
  <1> DEFINE sites == {manifest.repos[i].host :
                        i \in {j \in DOMAIN manifest.repos : manifest.repos[j].scheme = "https"}}
                      \cup manifest.gitHosts
  <1>1. /\ section = "Repos" /\ section' \in {"Refused", "Plugins"}
        /\ \/ out' = out
           \/ out' = [out EXCEPT !.origins = sites]
    BY DEF Derive!Repos, Derive!Section
  <1> HIDE DEF sites
  <1>2. out'.bindings = out.bindings /\ out'.secrets = out.secrets /\ out'.overridden = out.overridden
    BY <1>1 DEF OutInv, Fields
  <1>3. Derive!IsList(out'.bindings)
    BY <1>2 DEF SecInv
  <1> QED
    BY <1>1, <1>2, <1>3, EarlyKeeps DEF Early, Late

LEMMA PluginsListSecures == ASSUME OutInv, SecInv, Derive!PluginsList PROVE SecInv'
  <1>1. /\ section = "Plugins" /\ section' \in {"Refused", "Ports"}
        /\ \/ out' = out
           \/ out' = [out EXCEPT !.plugins = Derive!Sweetened]
    BY DEF Derive!PluginsList, Derive!Section
  <1>2. out'.bindings = out.bindings /\ out'.secrets = out.secrets /\ out'.overridden = out.overridden
    BY <1>1 DEF OutInv, Fields
  <1>3. Derive!IsList(out'.bindings)
    BY <1>2 DEF SecInv
  <1> QED
    BY <1>1, <1>2, <1>3, EarlyKeeps DEF Early, Late

LEMMA PluginPortsSecure == ASSUME SecInv, Derive!PluginPorts PROVE SecInv'
  <1>1. section = "Ports" /\ section' \in {"Refused", "Remote"} /\ out' = out
    BY DEF Derive!PluginPorts, Derive!Section
  <1>2. Derive!IsList(out'.bindings)
    BY <1>1 DEF SecInv
  <1> QED
    BY <1>1, <1>2, EarlyKeeps DEF Early, Late

LEMMA RemoteSecures == ASSUME OutInv, SecInv, Derive!Remote PROVE SecInv'
  <1> DEFINE shell == Derive!Shell(manifest.remote)
  <1>1. /\ section = "Remote" /\ section' \in {"Refused", "Refs"}
        /\ \/ out' = out
           \/ out' = [out EXCEPT !.shell = shell, !.notify = manifest.remote.notify]
    BY DEF Derive!Remote, Derive!Section
  <1> HIDE DEF shell
  <1>2. out'.bindings = out.bindings /\ out'.secrets = out.secrets /\ out'.overridden = out.overridden
    BY <1>1 DEF OutInv, Fields
  <1>3. Derive!IsList(out'.bindings)
    BY <1>2 DEF SecInv
  <1> QED
    BY <1>1, <1>2, <1>3, EarlyKeeps DEF Early, Late

LEMMA MapIsList ==
  ASSUME NEW T, NEW xs \in Seq(T), NEW f, DOMAIN f = DOMAIN xs, f = [i \in DOMAIN xs |-> f[i]]
  PROVE  Derive!IsList(f) /\ Len(f) = Len(xs)
  <1>1. Len(xs) \in Nat /\ DOMAIN xs = 1 .. Len(xs)
    OBVIOUS
  <1>2. \A i \in 1 .. Len(xs) : f[i] \in Derive!Rng(f)
    BY <1>1 DEF Derive!Rng
  <1>3. [i \in 1 .. Len(xs) |-> f[i]] \in Seq(Derive!Rng(f))
    BY <1>1, <1>2
  <1>4. f \in Seq(Derive!Rng(f))
    BY <1>1, <1>3
  <1> QED
    BY <1>1, <1>4 DEF Derive!IsList

LEMMA RefsSecure == ASSUME Derive!DeriveAssumption, OutInv, FitInv, SecInv, Derive!Refs PROVE SecInv'
  <1> DEFINE refs == [i \in DOMAIN manifest.refs |-> RefOf[manifest.refs[i]]]
             named == [i \in DOMAIN refs |-> Derive!Record(refs[i].agent, refs[i].slot, refs[i].source)]
  <1>1. /\ section = "Refs" /\ section' \in {"Refused", "Plugin"}
        /\ \/ out' = out
           \/ out' = [out EXCEPT !.bindings = named]
    BY DEF Derive!Refs, Derive!Section
  <1>2. manifest.refs \in Seq(Derive!Rng(manifest.refs))
    BY DEF Derive!DeriveAssumption, Derive!IsList, FitInv
  <1>3. DOMAIN named = DOMAIN manifest.refs /\ named = [i \in DOMAIN manifest.refs |-> named[i]]
    OBVIOUS
  <1> HIDE DEF refs, named
  <1>4. Derive!IsList(named)
    BY <1>2, <1>3, MapIsList
  <1>5. /\ out'.bindings = out.bindings \/ out'.bindings = named
        /\ out'.secrets = out.secrets /\ out'.overridden = out.overridden
    BY <1>1 DEF OutInv, Fields
  <1>6. Derive!IsList(out'.bindings)
    BY <1>4, <1>5 DEF SecInv
  <1> QED
    BY <1>1, <1>5, <1>6, EarlyKeeps DEF Early, Late

LEMMA OnePluginSecures == ASSUME OutInv, SecInv, Derive!OnePlugin PROVE SecInv'
  <1>1. /\ section = "Plugin" /\ section' \in {"Unfit", "Plugin"}
        /\ \/ out' = out
           \/ \E p, doc : out' = Derive!Folded(p, doc)
    BY DEF Derive!OnePlugin
  <1>2. out'.bindings = out.bindings /\ out'.secrets = out.secrets /\ out'.overridden = out.overridden
    BY <1>1 DEF OutInv, Fields, Derive!Folded
  <1>3. Derive!IsList(out'.bindings)
    BY <1>2 DEF SecInv
  <1> QED
    BY <1>1, <1>2, <1>3, EarlyKeeps DEF Early, Late

LEMMA AgentEgressSecures == ASSUME OutInv, SecInv, Derive!AgentEgress PROVE SecInv'
  <1> DEFINE reach == out.egress \cup UNION {Derive!Rng(Agent[a].egress) : a \in Derive!Enabled}
  <1>1. section = "Plugin" /\ section' = "Secrets" /\ out' = [out EXCEPT !.egress = reach]
    BY DEF Derive!AgentEgress
  <1> HIDE DEF reach
  <1>2. out'.bindings = out.bindings /\ out'.secrets = out.secrets /\ out'.overridden = out.overridden
    BY <1>1 DEF OutInv, Fields
  <1>3. Derive!IsList(out'.bindings)
    BY <1>2 DEF SecInv
  <1> QED
    BY <1>1, <1>2, <1>3, EarlyKeeps DEF Early, Late

LEMMA NobodyRecorded == Derive!IsList(<<>>) /\ Derive!IsInjective(<<>>) /\ Derive!Rng(<<>>) = {}
  <1>1. DOMAIN <<>> = {}
    OBVIOUS
  <1> QED
    BY <1>1 DEF Derive!IsList, Derive!IsInjective, Derive!Rng

LEMMA SecretsSecure ==
  ASSUME Derive!DeriveAssumption, OutInv, FitInv, SecInv, Derive!Secrets PROVE SecInv'
  <1>1. section = "Secrets" /\ manifest' = manifest /\ out.secrets = <<>> /\ out.overridden = 0
    BY DEF Derive!Secrets, Derive!Section, SecInv, Early
  <1>2. CASE section' = "Refused"
    <2>1. out' = out
      BY <1>2 DEF Derive!Secrets, Derive!Section
    <2>2. Derive!IsList(out'.bindings)
      BY <2>1 DEF SecInv
    <2> QED
      BY <1>1, <1>2, <2>1, <2>2, EarlyKeeps DEF Early, Late
  <1>3. CASE section' # "Refused"
    <2>1. /\ DOMAIN manifest.common \subseteq DOMAIN out.slots /\ section' = "Overrides"
          /\ out' = [out EXCEPT !.unfilled = DOMAIN Derive!Defaults]
      BY <1>3 DEF Derive!Secrets, Derive!Section
    <2>2. /\ out'.bindings = out.bindings /\ out'.slots = out.slots /\ out'.unfilled = DOMAIN Derive!Defaults
          /\ out'.secrets = <<>> /\ out'.overridden = 0
      BY <1>1, <2>1 DEF OutInv, Fields
    <2>3. Over' = Over /\ Derive!Defaults' = Derive!Defaults /\ Derive!EnabledMcp' = Derive!EnabledMcp
      BY <1>1, <2>2, SameOverrides
    <2>4. Len(Over) \in Nat
      BY OverIsList DEF FitInv, SecInv
    <2>5. \A j \in 1 .. 0 : FALSE
      OBVIOUS
    <2>6. Derive!IsList(out.secrets)' /\ Derive!IsInjective(out.secrets)' /\ Derive!Rng(out'.secrets) = {}
      BY <2>2, NobodyRecorded DEF Derive!IsList, Derive!IsInjective, Derive!Rng
    <2>7. Recorded'
      BY <1>1, <2>1, <2>2, <2>3, <2>4, <2>5, <2>6 DEF Recorded
    <2>8. Derive!IsList(out.bindings)'
      BY <2>2 DEF SecInv, Derive!IsList, Derive!Rng
    <2> QED
      BY <2>1, <2>7, <2>8 DEF SecInv, Early
  <1> QED
    BY <1>2, <1>3

LEMMA AppendIs ==
  ASSUME NEW s, Derive!IsList(s), Derive!IsInjective(s), NEW x, x \notin Derive!Rng(s), NEW t, t = Append(s, x)
  PROVE  Derive!IsList(t) /\ Derive!IsInjective(t) /\ Derive!Rng(t) = Derive!Rng(s) \cup {x}
  <1> DEFINE T == Derive!Rng(s) \cup {x}
             S == {x}
  <1>1. s \in Seq(T)
    BY DEF Derive!IsList
  <1>2. x \in T /\ x \in S /\ S \cap S = S
    OBVIOUS
  <1>3. T = Derive!Rng(s) \cup S
    OBVIOUS
  <1> HIDE DEF T, S
  <1>4. AddOne(s, x, S) = t
    BY <1>2 DEF AddOne
  <1>5. /\ AddOne(s, x, S) \in Seq(T) /\ Derive!IsInjective(AddOne(s, x, S))
        /\ Derive!Rng(AddOne(s, x, S)) = Derive!Rng(s) \cup ({x} \cap S)
    BY <1>1, <1>2, AddOneIs
  <1>6. Derive!Rng(t) = T
    BY <1>2, <1>3, <1>4, <1>5 DEF S
  <1> QED
    BY <1>4, <1>5, <1>6 DEF Derive!IsList, T

LEMMA ConcatIs ==
  ASSUME NEW s, NEW t, Derive!IsList(s), Derive!IsList(t), Derive!IsInjective(s), Derive!IsInjective(t),
         Derive!Rng(s) \cap Derive!Rng(t) = {}, NEW u, u = s \o t
  PROVE  Derive!IsList(u) /\ Derive!IsInjective(u) /\ Derive!Rng(u) = Derive!Rng(s) \cup Derive!Rng(t)
  <1> DEFINE T == Derive!Rng(s) \cup Derive!Rng(t)
  <1>1. s \in Seq(T) /\ t \in Seq(T)
    BY DEF Derive!IsList
  <1> HIDE DEF T
  <1>2. Len(s) \in Nat /\ DOMAIN s = 1 .. Len(s) /\ Len(t) \in Nat /\ DOMAIN t = 1 .. Len(t)
    BY <1>1
  <1>3. /\ u \in Seq(T) /\ DOMAIN u = 1 .. (Len(s) + Len(t))
        /\ \A i \in DOMAIN u : u[i] = IF i <= Len(s) THEN s[i] ELSE t[i - Len(s)]
    BY <1>1, <1>2
  <1>4. \A i \in DOMAIN u :
          \/ i \in DOMAIN s /\ u[i] = s[i]
          \/ i > Len(s) /\ i - Len(s) \in DOMAIN t /\ u[i] = t[i - Len(s)]
    BY <1>2, <1>3
  <1>5. \A i \in DOMAIN s : i \in DOMAIN u /\ u[i] = s[i]
    BY <1>2, <1>3
  <1>6. \A i \in DOMAIN t : \E k \in DOMAIN u : u[k] = t[i]
    <2> TAKE i \in DOMAIN t
    <2>1. i + Len(s) \in DOMAIN u /\ ~(i + Len(s) <= Len(s)) /\ (i + Len(s)) - Len(s) = i
      BY <1>2, <1>3
    <2> QED
      BY <1>3, <2>1
  <1>7. Derive!Rng(u) = Derive!Rng(s) \cup Derive!Rng(t)
    BY <1>4, <1>5, <1>6 DEF Derive!Rng
  <1>8. Derive!IsInjective(u)
    <2> SUFFICES ASSUME NEW i \in DOMAIN u, NEW k \in DOMAIN u, u[i] = u[k] PROVE i = k
      BY DEF Derive!IsInjective
    <2>1. i \in Int /\ k \in Int /\ Len(s) \in Int
      BY <1>2, <1>3
    <2>2. \A m \in DOMAIN u : IF m \in DOMAIN s THEN u[m] \in Derive!Rng(s) ELSE u[m] \in Derive!Rng(t)
      BY <1>4, <1>5 DEF Derive!Rng
    <2>3. CASE i \in DOMAIN s /\ k \in DOMAIN s
      BY <2>3, <1>5 DEF Derive!IsInjective
    <2>4. CASE i \notin DOMAIN s /\ k \notin DOMAIN s
      <3>1. i - Len(s) \in DOMAIN t /\ k - Len(s) \in DOMAIN t /\ t[i - Len(s)] = t[k - Len(s)]
        BY <1>4, <2>4
      <3>2. i - Len(s) = k - Len(s)
        BY <3>1 DEF Derive!IsInjective
      <3> QED
        BY <2>1, <3>2
    <2>5. CASE i \in DOMAIN s /\ k \notin DOMAIN s
      BY <2>2, <2>5
    <2>6. CASE i \notin DOMAIN s /\ k \in DOMAIN s
      BY <2>2, <2>6
    <2> QED
      BY <2>3, <2>4, <2>5, <2>6
  <1> QED
    BY <1>3, <1>7, <1>8 DEF Derive!IsList, T

LEMMA OneOverrideSecures ==
  ASSUME Derive!DeriveAssumption, OutInv, FitInv, SecInv, Derive!OneOverride PROVE SecInv'
  <1> DEFINE i == out.overridden + 1
             r == Derive!Overrides[i]
             entry == Derive!Record(r.agent, r.slot, r.source)
  <1>1. /\ section = "Overrides" /\ manifest' = manifest
        /\ out.overridden \in Nat /\ out.overridden < Len(Over) /\ i \in Nat
        /\ Recorded
    BY DEF Derive!OneOverride, SecInv, Late, Recorded, Over
  <1>2. CASE section' # section
    <2>1. section' = "Refused" /\ out' = out
      BY <1>1, <1>2 DEF Derive!OneOverride
    <2> QED
      BY <2>1 DEF SecInv, Early, Late, Derive!IsList, Derive!Rng
  <1>3. CASE section' = section
    <2>1. /\ r.agent \in DOMAIN Agent /\ r.slot \in DOMAIN out.slots
          /\ \A j \in 1 .. (i - 1) : Over[j].agent # r.agent \/ Over[j].slot # r.slot
          /\ out' = [out EXCEPT !.overridden = i,
                       !.secrets = IF r.source = None THEN @ ELSE Append(@, entry)]
      BY <1>1, <1>3 DEF Derive!OneOverride, Over
    <2>2. r = Over[i]
      BY DEF Over
    <2>3. i - 1 = out.overridden /\ i <= Len(Over)
      BY <1>1, OverIsList DEF FitInv, SecInv
    <2>4. \A j : j \in 1 .. i <=> j \in 1 .. out.overridden \/ j = i
      BY <1>1
    <2> HIDE DEF entry
    <2>5. /\ out'.bindings = out.bindings /\ out'.slots = out.slots /\ out'.unfilled = out.unfilled
          /\ out'.overridden = i
          /\ out'.secrets = IF r.source = None THEN out.secrets ELSE Append(out.secrets, entry)
      BY <2>1 DEF OutInv, Fields
    <2> HIDE DEF i, r
    <2>6. /\ Over' = Over /\ Derive!Defaults' = Derive!Defaults /\ Derive!EnabledMcp' = Derive!EnabledMcp
          /\ \A q, j : FromOverride(q, j)' <=> FromOverride(q, j)
          /\ \A q, s, a : FromDefault(q, s, a)' <=> FromDefault(q, s, a)
      BY <1>1, <2>5, SameOverrides
    <2>7. out.unfilled = DOMAIN Derive!Defaults
      BY <1>1 DEF Recorded
    <2>8. \A q : q \in Derive!Rng(out.secrets) <=> \E j \in 1 .. out.overridden : FromOverride(q, j)
      BY <1>1, <2>7 DEF Recorded
    <2>9. \A q : FromOverride(q, i) <=> r.source # None /\ q = entry
      BY <2>2 DEF FromOverride, entry
    <2>10. entry \notin Derive!Rng(out.secrets)
      <3> SUFFICES ASSUME NEW j \in 1 .. out.overridden, FromOverride(entry, j) PROVE FALSE
        BY <2>8
      <3>1. Over[j].agent = r.agent /\ Over[j].slot = r.slot
        BY DEF FromOverride, entry, Derive!Record
      <3> QED
        BY <2>1, <2>3, <3>1
    <2>11. /\ Derive!IsList(out'.secrets) /\ Derive!IsInjective(out'.secrets)
           /\ \A q : q \in Derive!Rng(out'.secrets) <=>
                q \in Derive!Rng(out.secrets) \/ (r.source # None /\ q = entry)
      <3>1. CASE r.source = None
        BY <1>1, <2>5, <3>1 DEF Recorded
      <3>2. CASE r.source # None
        <4> DEFINE before == out.secrets
                   after == out'.secrets
        <4>1. after = Append(before, entry)
          BY <2>5, <3>2
        <4>2. Derive!IsList(before) /\ Derive!IsInjective(before) /\ entry \notin Derive!Rng(before)
          BY <1>1, <2>10 DEF Recorded
        <4> HIDE DEF before, after
        <4>3. /\ Derive!IsList(after) /\ Derive!IsInjective(after)
              /\ Derive!Rng(after) = Derive!Rng(before) \cup {entry}
          BY <4>1, <4>2, AppendIs
        <4> QED
          BY <3>2, <4>3 DEF before, after
      <3> QED
        BY <3>1, <3>2
    <2>12. \A q : q \in Derive!Rng(out'.secrets) <=> \E j \in 1 .. i : FromOverride(q, j)
      BY <2>4, <2>8, <2>9, <2>11
    <2>13. \A j \in 1 .. i : IsKnown(j)'
      BY <1>1, <2>1, <2>2, <2>4, <2>5, <2>6 DEF Recorded, IsKnown
    <2>14. /\ Derive!IsList(out.secrets)' /\ Derive!IsInjective(out.secrets)' /\ Derive!IsList(out.bindings)'
           /\ Derive!Rng(out.secrets)' = Derive!Rng(out'.secrets)
      <3>1. Derive!IsList(out.secrets)' /\ Derive!Rng(out.secrets)' = Derive!Rng(out'.secrets)
        BY ONLY <2>11 DEF Derive!IsList, Derive!Rng
      <3>2. Derive!IsInjective(out.secrets)'
        BY ONLY <2>11 DEF Derive!IsInjective
      <3>3. Derive!IsList(out.bindings)
        BY DEF SecInv
      <3>4. Derive!IsList(out.bindings)'
        BY ONLY <2>5, <3>3 DEF Derive!IsList, Derive!Rng
      <3> QED
        BY <3>1, <3>2, <3>4
    <2>15. Recorded'
      BY <1>1, <1>3, <2>3, <2>5, <2>6, <2>7, <2>12, <2>13, <2>14 DEF Recorded
    <2> QED
      BY <1>1, <1>3, <2>14, <2>15 DEF SecInv, Early
  <1> QED
    BY <1>2, <1>3

\* The records of one slot's default.
LEMMA DueIs ==
  ASSUME Derive!DeriveAssumption, manifest \in Manifests, NEW s, NEW due, NEW dealt, NEW S,
         \A a : a \in S <=> a \in Derive!EnabledMcp /\ ~Derive!Overridden(a, s),
         due = Derive!AddAll(<<>>, Derive!AgentNamed, S),
         dealt = [i \in DOMAIN due |-> Derive!Record(due[i], s, Derive!Defaults[s])]
  PROVE  /\ Derive!IsList(dealt) /\ Derive!IsInjective(dealt)
         /\ \A r : r \in Derive!Rng(dealt) <=> \E a \in Derive!EnabledMcp : FromDefault(r, s, a)
  <1> DEFINE T == Derive!Rng(Derive!AgentNamed)
             none == <<>>
  <1>1. S \subseteq T
    BY DEF Derive!EnabledMcp, Derive!Enabled
  <1>2. due = Derive!AddAll(none, Derive!AgentNamed, S)
    OBVIOUS
  <1>3. /\ Derive!AgentNamed \in Seq(T) /\ none \in Seq(T)
        /\ Derive!Rng(none) = {} /\ Derive!IsInjective(none)
    BY AgentNamedIsList, NobodyRecorded
  <1> HIDE DEF T, none
  <1>4. /\ due \in Seq(T) /\ Derive!Rng(due) = Derive!Rng(none) \cup (Derive!Rng(Derive!AgentNamed) \cap S)
        /\ Derive!IsInjective(due)
    BY <1>2, <1>3, AddAllIs
  <1>5. Derive!Rng(due) = S
    BY <1>1, <1>3, <1>4 DEF T
  <1>6. DOMAIN dealt = DOMAIN due /\ dealt = [i \in DOMAIN due |-> dealt[i]]
    OBVIOUS
  <1>7. \A i \in DOMAIN due : dealt[i] = Derive!Record(due[i], s, Derive!Defaults[s])
    OBVIOUS
  <1>8. Derive!IsList(dealt)
    BY <1>4, <1>6, MapIsList
  <1>9. Derive!IsInjective(dealt)
    BY <1>4, <1>6, <1>7 DEF Derive!IsInjective, Derive!Record
  <1>10. ASSUME NEW r PROVE r \in Derive!Rng(dealt) <=> \E a \in Derive!EnabledMcp : FromDefault(r, s, a)
    <2>1. r \in Derive!Rng(dealt) <=> \E i \in DOMAIN due : r = Derive!Record(due[i], s, Derive!Defaults[s])
      BY <1>6, <1>7 DEF Derive!Rng
    <2>2. \A a : a \in S <=> \E i \in DOMAIN due : a = due[i]
      BY <1>5 DEF Derive!Rng
    <2>3. r \in Derive!Rng(dealt) <=> \E a \in S : r = Derive!Record(a, s, Derive!Defaults[s])
      BY <2>1, <2>2
    <2> QED
      BY <2>3 DEF FromDefault
  <1> QED
    BY <1>8, <1>9, <1>10

LEMMA OneDefaultSecures ==
  ASSUME Derive!DeriveAssumption, OutInv, FitInv, SecInv, Derive!OneDefault PROVE SecInv'
  <1> PICK s \in out.unfilled :
        LET due == Derive!AddAll(<<>>, Derive!AgentNamed, {a \in Derive!EnabledMcp : ~Derive!Overridden(a, s)})
        IN out' = [out EXCEPT !.unfilled = @ \ {s},
                     !.secrets = @ \o [i \in DOMAIN due |-> Derive!Record(due[i], s, Derive!Defaults[s])]]
    BY DEF Derive!OneDefault
  <1> DEFINE S == {a \in Derive!EnabledMcp : ~Derive!Overridden(a, s)}
             due == Derive!AddAll(<<>>, Derive!AgentNamed, S)
             dealt == [i \in DOMAIN due |-> Derive!Record(due[i], s, Derive!Defaults[s])]
  <1>1. /\ section = "Overrides" /\ section' = section /\ manifest' = manifest
        /\ manifest \in Manifests /\ out.overridden = Len(Over) /\ Recorded
    BY DEF Derive!OneDefault, SecInv, Late, FitInv, Over
  <1>2. out' = [out EXCEPT !.unfilled = @ \ {s}, !.secrets = @ \o dealt]
    OBVIOUS
  <1>3. /\ Derive!IsList(dealt) /\ Derive!IsInjective(dealt)
        /\ \A r : r \in Derive!Rng(dealt) <=> \E a \in Derive!EnabledMcp : FromDefault(r, s, a)
    <2>1. \A a : a \in S <=> a \in Derive!EnabledMcp /\ ~Derive!Overridden(a, s)
      OBVIOUS
    <2>2. /\ due = Derive!AddAll(<<>>, Derive!AgentNamed, S)
          /\ dealt = [i \in DOMAIN due |-> Derive!Record(due[i], s, Derive!Defaults[s])]
      OBVIOUS
    <2> HIDE DEF S, due, dealt
    <2> QED
      BY <1>1, <2>1, <2>2, DueIs
  <1> HIDE DEF S, due, dealt
  <1>4. /\ out'.bindings = out.bindings /\ out'.slots = out.slots
        /\ out'.unfilled = out.unfilled \ {s} /\ out'.overridden = out.overridden
        /\ out'.secrets = out.secrets \o dealt
    BY <1>2 DEF OutInv, Fields
  <1>5. /\ Over' = Over /\ Derive!Defaults' = Derive!Defaults /\ Derive!EnabledMcp' = Derive!EnabledMcp
        /\ \A r, j : FromOverride(r, j)' <=> FromOverride(r, j)
        /\ \A r, d, a : FromDefault(r, d, a)' <=> FromDefault(r, d, a)
    BY <1>1, <1>4, SameOverrides
  <1>6. Derive!Rng(out.secrets) \cap Derive!Rng(dealt) = {}
    <2> SUFFICES ASSUME NEW r \in Derive!Rng(out.secrets), NEW a \in Derive!EnabledMcp, FromDefault(r, s, a)
                 PROVE  FALSE
      BY <1>3
    <2>1. r.agent = a /\ r.slot = s /\ ~Derive!Overridden(a, s)
      BY DEF FromDefault, Derive!Record
    <2>2. CASE \E j \in 1 .. out.overridden : FromOverride(r, j)
      <3>1. PICK j \in 1 .. out.overridden : FromOverride(r, j)
        BY <2>2
      <3>2. j \in DOMAIN Derive!Overrides
        BY <1>1, <3>1, OverIsList DEF SecInv, Over
      <3>3. Derive!Overrides[j].agent = a /\ Derive!Overrides[j].slot = s
        BY <2>1, <3>1 DEF FromOverride, Derive!Record, Over
      <3> QED
        BY <2>1, <3>2, <3>3 DEF Derive!Overridden
    <2>3. CASE \E d \in DOMAIN Derive!Defaults \ out.unfilled, b \in Derive!EnabledMcp : FromDefault(r, d, b)
      BY <2>1, <2>3 DEF FromDefault, Derive!Record
    <2> QED
      BY <1>1, <2>2, <2>3 DEF Recorded
  <1> DEFINE before == out.secrets
             after == out'.secrets
  <1>7. /\ after = before \o dealt /\ Derive!IsList(before) /\ Derive!IsInjective(before)
        /\ Derive!Rng(before) \cap Derive!Rng(dealt) = {}
    BY <1>1, <1>4, <1>6 DEF Recorded
  <1> HIDE DEF before, after
  <1>8. Derive!IsList(after) /\ Derive!IsInjective(after) /\ Derive!Rng(after) = Derive!Rng(before) \cup Derive!Rng(dealt)
    BY <1>3, <1>7, ConcatIs
  <1>9. s \in DOMAIN Derive!Defaults
    BY <1>1 DEF Recorded
  <1>10. \A r : r \in Derive!Rng(after) <=>
           \/ \E j \in 1 .. out.overridden : FromOverride(r, j)
           \/ \E d \in DOMAIN Derive!Defaults \ out'.unfilled, a \in Derive!EnabledMcp : FromDefault(r, d, a)
    <2>1. \A r : r \in Derive!Rng(before) <=>
            \/ \E j \in 1 .. out.overridden : FromOverride(r, j)
            \/ \E d \in DOMAIN Derive!Defaults \ out.unfilled, a \in Derive!EnabledMcp : FromDefault(r, d, a)
      BY <1>1 DEF Recorded, before
    <2>2. DOMAIN Derive!Defaults \ out'.unfilled = (DOMAIN Derive!Defaults \ out.unfilled) \cup {s}
      BY <1>4, <1>9
    <2>3. \A r : r \in Derive!Rng(after) <=>
            r \in Derive!Rng(before) \/ \E a \in Derive!EnabledMcp : FromDefault(r, s, a)
      BY <1>3, <1>8
    <2>4. \A d : d \in DOMAIN Derive!Defaults \ out'.unfilled <=>
            d \in DOMAIN Derive!Defaults \ out.unfilled \/ d = s
      BY <2>2
    <2> QED
      BY <2>1, <2>3, <2>4
  <1>11. /\ Derive!IsList(out.secrets)' /\ Derive!IsInjective(out.secrets)' /\ Derive!IsList(out.bindings)'
         /\ Derive!Rng(out.secrets)' = Derive!Rng(after)
    <2>1. /\ Derive!IsList(out.secrets)' <=> Derive!IsList(after)
          /\ Derive!IsInjective(out.secrets)' <=> Derive!IsInjective(after)
          /\ Derive!Rng(out.secrets)' = Derive!Rng(after)
      BY DEF Derive!IsList, Derive!IsInjective, Derive!Rng, after
    <2>2. Derive!IsList(out.bindings)'
      BY <1>4 DEF Derive!IsList, Derive!Rng, SecInv
    <2> QED
      BY <1>8, <2>1, <2>2
  <1>12. \A j \in 1 .. out.overridden : IsKnown(j)'
    BY <1>1, <1>4, <1>5 DEF Recorded, IsKnown
  <1>13. out'.unfilled \subseteq DOMAIN Derive!Defaults /\ DOMAIN manifest.common \subseteq DOMAIN out.slots
    BY <1>1, <1>4 DEF Recorded
  <1>14. out.overridden \in Nat /\ ~(Len(Over) < Len(Over)) /\ out.overridden <= Len(Over)
    BY <1>1 DEF Recorded
  <1>15. Recorded'
    BY <1>1, <1>4, <1>5, <1>10, <1>11, <1>12, <1>13, <1>14 DEF Recorded
  <1> QED
    BY <1>1, <1>11, <1>15 DEF SecInv, Early

\* A step that changes nothing of what the records are made from.
LEMMA RecordedStays ==
  ASSUME SecInv, section \in Late, manifest' = manifest,
         out'.bindings = out.bindings, out'.slots = out.slots, out'.secrets = out.secrets,
         out'.overridden = out.overridden, out'.unfilled = out.unfilled,
         section' \in Late \cup {"Refused"},
         section' \in {"Notify", "Derived"} => out.overridden = Len(Over) /\ out.unfilled = {}
  PROVE  SecInv'
  <1>1. /\ Over' = Over /\ Derive!Defaults' = Derive!Defaults /\ Derive!EnabledMcp' = Derive!EnabledMcp
        /\ \A r, j : FromOverride(r, j)' <=> FromOverride(r, j)
        /\ \A r, d, a : FromDefault(r, d, a)' <=> FromDefault(r, d, a)
    BY SameOverrides
  <1>2. \A j : IsKnown(j)' <=> IsKnown(j)
    BY <1>1 DEF IsKnown
  <1>3. /\ Derive!IsList(out.secrets)' <=> Derive!IsList(out.secrets)
        /\ Derive!IsInjective(out.secrets)' <=> Derive!IsInjective(out.secrets)
        /\ Derive!Rng(out.secrets)' = Derive!Rng(out.secrets)
        /\ Derive!IsList(out.bindings)' <=> Derive!IsList(out.bindings)
    BY DEF Derive!IsList, Derive!IsInjective, Derive!Rng
  <1>4. Recorded'
    BY <1>1, <1>2, <1>3 DEF Recorded, SecInv
  <1> QED
    BY <1>3, <1>4 DEF SecInv, Early, Late

LEMMA SecretsDoneSecure == ASSUME SecInv, Derive!SecretsDone PROVE SecInv'
  BY RecordedStays DEF Derive!SecretsDone, Late, Over

LEMMA NotifySecures == ASSUME OutInv, SecInv, Derive!Notify PROVE SecInv'
  <1>1. /\ section = "Notify" /\ section' \in {"Refused", "Derived"} /\ manifest' = manifest
        /\ \/ out' = out
           \/ \E e : out' = [out EXCEPT !.cidrs = e]
           \/ \E e : out' = [out EXCEPT !.egress = e]
    BY DEF Derive!Notify, Derive!Section
  <1>2. /\ out'.bindings = out.bindings /\ out'.slots = out.slots /\ out'.secrets = out.secrets
        /\ out'.overridden = out.overridden /\ out'.unfilled = out.unfilled
    BY <1>1 DEF OutInv, Fields
  <1>3. out.overridden = Len(Over) /\ out.unfilled = {}
    BY <1>1 DEF SecInv, Recorded, Late
  <1> QED
    BY <1>1, <1>2, <1>3, RecordedStays DEF Late

LEMMA SecStep ==
  ASSUME Derive!DeriveAssumption, OutInv, FitInv, SecInv, [Derive!Next]_(Derive!vars) PROVE SecInv'
  <1>1. CASE UNCHANGED Derive!vars
    <2>1. section' = section /\ manifest' = manifest /\ out' = out
      BY <1>1 DEF Derive!vars
    <2>2. CASE section \in Late
      BY <2>1, <2>2, RecordedStays DEF SecInv, Recorded, Late
    <2>3. CASE section \notin Late
      BY <2>1, <2>3 DEF SecInv, Early, Late, Derive!IsList, Derive!Rng
    <2> QED
      BY <2>2, <2>3
  <1>2. CASE Derive!Repos \/ Derive!PluginsList \/ Derive!PluginPorts \/ Derive!Remote \/ Derive!Refs \/ Derive!OnePlugin
             \/ Derive!AgentEgress
    BY <1>2, ReposSecure, PluginsListSecures, PluginPortsSecure, RemoteSecures, RefsSecure,
       OnePluginSecures, AgentEgressSecures
  <1>3. CASE Derive!Secrets \/ Derive!OneOverride \/ Derive!OneDefault \/ Derive!SecretsDone \/ Derive!Notify
    BY <1>3, SecretsSecure, OneOverrideSecures, OneDefaultSecures, SecretsDoneSecure, NotifySecures
  <1> QED
    BY <1>1, <1>2, <1>3 DEF Derive!Next

LEMMA SecretsEffective ==
  ASSUME Derive!DeriveAssumption, FitInv, SecInv PROVE Derive!SecretsAreEffective
  <1> SUFFICES ASSUME section \in {"Notify", "Derived"}
               PROVE  /\ Derive!IsInjective(out.secrets)
                      /\ \A r \in Derive!Rng(out.secrets) :
                           /\ r.agent \in DOMAIN Agent /\ r.slot \in DOMAIN out.slots
                           /\ r.source \in Derive!Effective(r.agent, r.slot)
                      /\ \A a \in DOMAIN Agent, s \in DOMAIN out.slots :
                           \A v \in Derive!Effective(a, s) : Derive!Record(a, s, v) \in Derive!Rng(out.secrets)
    BY DEF Derive!SecretsAreEffective
  <1>1. /\ Recorded /\ out.overridden = Len(Over) /\ out.unfilled = {}
        /\ DOMAIN Over = 1 .. out.overridden
    BY OverIsList DEF SecInv, Late, Recorded, FitInv
  <1>2. \A s : s \in DOMAIN Derive!Defaults <=>
                 s \in DOMAIN manifest.common /\ manifest.common[s] \in Filled
    BY DEF Derive!Defaults, Derive!Restrict
  <1>3. \A s \in DOMAIN Derive!Defaults : Derive!Defaults[s] = manifest.common[s]
    BY DEF Derive!Defaults, Derive!Restrict
  <1>4. Derive!EnabledMcp \subseteq DOMAIN Agent
    BY DEF Derive!EnabledMcp, Derive!Enabled
  <1>5. ASSUME NEW a, NEW s, Derive!Overridden(a, s)
        PROVE  \A v : v \in Derive!Effective(a, s) <=>
                 \E j \in DOMAIN Over : /\ Over[j].agent = a /\ Over[j].slot = s
                                        /\ Over[j].source = v /\ v # None
    BY <1>5 DEF Derive!Effective, Derive!Overridden, Over
  <1>6. ASSUME NEW a, NEW s, ~Derive!Overridden(a, s)
        PROVE  \A v : v \in Derive!Effective(a, s) <=>
                 a \in Derive!EnabledMcp /\ s \in DOMAIN Derive!Defaults /\ v = Derive!Defaults[s]
    <2>1. {i \in DOMAIN Derive!Overrides : Derive!Overrides[i].agent = a /\ Derive!Overrides[i].slot = s} = {}
      BY <1>6 DEF Derive!Overridden
    <2>2. Derive!Effective(a, s) = IF a \in Derive!EnabledMcp /\ s \in DOMAIN manifest.common
                                   THEN {manifest.common[s]} \cap Filled ELSE {}
      BY <2>1 DEF Derive!Effective
    <2> QED
      BY <1>2, <1>3, <2>2
  <1>7. \A r : r \in Derive!Rng(out.secrets) <=>
          \/ \E j \in DOMAIN Over : FromOverride(r, j)
          \/ \E d \in DOMAIN Derive!Defaults, a \in Derive!EnabledMcp : FromDefault(r, d, a)
    BY <1>1 DEF Recorded
  <1>8. ASSUME NEW r \in Derive!Rng(out.secrets)
        PROVE  /\ r.agent \in DOMAIN Agent /\ r.slot \in DOMAIN out.slots
               /\ r.source \in Derive!Effective(r.agent, r.slot)
    <2>1. CASE \E j \in DOMAIN Over : FromOverride(r, j)
      <3>1. PICK j \in DOMAIN Over : FromOverride(r, j)
        BY <2>1
      <3>2. /\ r.agent = Over[j].agent /\ r.slot = Over[j].slot /\ r.source = Over[j].source
            /\ r.source # None
        BY <3>1 DEF FromOverride, Derive!Record
      <3>3. Derive!Overridden(r.agent, r.slot)
        BY <3>1, <3>2 DEF Derive!Overridden, Over
      <3>4. r.source \in Derive!Effective(r.agent, r.slot)
        BY <1>5, <3>2, <3>3
      <3>5. IsKnown(j)
        BY <1>1 DEF Recorded
      <3> QED
        BY <3>2, <3>4, <3>5 DEF IsKnown
    <2>2. CASE \E d \in DOMAIN Derive!Defaults, a \in Derive!EnabledMcp : FromDefault(r, d, a)
      <3>1. PICK d \in DOMAIN Derive!Defaults, a \in Derive!EnabledMcp : FromDefault(r, d, a)
        BY <2>2
      <3>2. r.agent = a /\ r.slot = d /\ r.source = Derive!Defaults[d] /\ ~Derive!Overridden(a, d)
        BY <3>1 DEF FromDefault, Derive!Record
      <3>3. r.source \in Derive!Effective(r.agent, r.slot)
        BY <1>6, <3>2
      <3>4. d \in DOMAIN out.slots
        BY <1>1, <1>2 DEF Recorded
      <3> QED
        BY <1>4, <3>2, <3>3, <3>4
    <2> QED
      BY <1>7, <2>1, <2>2
  <1>9. ASSUME NEW a, NEW s, NEW v \in Derive!Effective(a, s)
        PROVE  Derive!Record(a, s, v) \in Derive!Rng(out.secrets)
    <2>1. CASE Derive!Overridden(a, s)
      <3>1. PICK j \in DOMAIN Over : /\ Over[j].agent = a /\ Over[j].slot = s
                                     /\ Over[j].source = v /\ v # None
        BY <1>5, <2>1
      <3>2. FromOverride(Derive!Record(a, s, v), j)
        BY <3>1 DEF FromOverride
      <3> QED
        BY <1>7, <3>2
    <2>2. CASE ~Derive!Overridden(a, s)
      <3>1. a \in Derive!EnabledMcp /\ s \in DOMAIN Derive!Defaults /\ v = Derive!Defaults[s]
        BY <1>6, <2>2
      <3>2. FromDefault(Derive!Record(a, s, v), s, a)
        BY <2>2, <3>1 DEF FromDefault
      <3> QED
        BY <1>7, <3>1, <3>2
    <2> QED
      BY <2>1, <2>2
  <1> QED
    BY <1>1, <1>8, <1>9 DEF Recorded

\* Derive by itself.
LEMMA SecretsAreTheEffectiveOnesAlone ==
  ASSUME Derive!DeriveAssumption PROVE Derive!Spec => []Derive!SecretsAreEffective
  <1>1. Derive!Init => OutInv /\ FitInv /\ SecInv
    BY PortsInit, FitInit, SecInit
  <1>2. OutInv /\ FitInv /\ SecInv /\ [Derive!Next]_(Derive!vars) => (OutInv /\ FitInv /\ SecInv)'
    BY PortsStep, FitStep, SecStep
  <1>3. FitInv /\ SecInv => Derive!SecretsAreEffective
    BY SecretsEffective
  <1> QED
    BY <1>1, <1>2, <1>3, PTL DEF Derive!Spec

\* The secrets handed to `up' are one record for each agent and slot that has a
\* source, by an override or by a default, and no others (manifest.py).
THEOREM SecretsAreTheEffectiveOnes == ServicesSpec => []SecretsAreEffective
  <1>1. Derive!Spec => []Derive!SecretsAreEffective
    BY SecretsAreTheEffectiveOnesAlone, ServicesAssumption DEF ServicesAssumption
  <1>2. Derive!SecretsAreEffective \/ ~InDerive => SecretsAreEffective
    BY DEF SecretsAreEffective, InDerive
  <1> QED
    BY <1>1, <1>2, DeriveRuns, PTL

=============================================================================
