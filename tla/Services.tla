------------------------------ MODULE Services ------------------------------
(***************************************************************************)
(* The components that do not call one another, side by side: every        *)
(* behaviour runs one of them, the part it starts with, and leaves the     *)
(* others as they start.  Each keeps its own instance, variables and       *)
(* properties; EgressService is extended.                                  *)
(***************************************************************************)
EXTENDS EgressService, FiniteSets

\* A line or two for each part; its module says what they are.
CONSTANTS Runs, NBottles, Blocks, BrowserPorts, SshPorts, Foreign,
          Ids, RequestKeys, Legacy, MaxTrail,
          Servers, Shapes, AgentFleets, PluginsChange, MaxEdits, Torn,
          Keys, Host, CliHost, CliVar, GhVars, Vars, Present, Identities, User, Sections,
          LaterSections, Bindings, Shells,
          Plugin, Agent, AgentOrder, Caps, RefOf, Filled, Root, StaticMounts, StaticNames,
          Manifests, Descriptors,
          Ops, Daemon, Once, Targets, Protected, Partial,
          Panes, Reused, Status, Notified, Unknown, MaxPending, MaxStops,
          Packets, Dests, Window,
          Rest       \* the state of a part that does not run

VARIABLES part,
    file, lock, npc, loaded, work,
    rows, hits, quiet, trail,
    agents, shape, enabled, bound, wpc, config, recorded, mcp, marker, approvals, wired,
    interrupted, edits,
    hosts, derived, keyfiles, slots, writing, env,
    manifest, section, at, out,
    docs, able, stage, nth, taken, made,
    bpc, password, compose, bup, repo, export, litter, browser, restored,
    up, pane, used, history, stops, hpc, tracked, covered, stream, linked, gap, owed,
    reader, configured, last, silent

Net == INSTANCE BottleNet WITH pc <- npc
Store == INSTANCE EgressStore WITH Keys <- RequestKeys
Wiring == INSTANCE AgentWiring WITH Fleets <- AgentFleets, pc <- wpc
Git == INSTANCE GitCredentials WITH Processes <- Shells, Later <- LaterSections
Derive == INSTANCE DeriveManifest WITH Present <- Filled, stage <- section
Agents == INSTANCE AgentDescriptors WITH enabled <- able, n <- nth
Backup == INSTANCE BackupService WITH Absent <- NoFile, pc <- bpc, up <- bup
Herdr == INSTANCE HerdrNotify WITH pc <- hpc
Drops == INSTANCE DropLog

\* What the components assume of their constants.
ASSUME ServicesAssumption ==
    /\ Net!NetAssumption
    /\ Store!LegacyType
    /\ Wiring!FleetAssumption
    /\ Git!GitAssumption
    /\ Derive!DeriveAssumption
    /\ Agents!DescriptorsAssumption
    /\ Backup!BackupNames
    /\ Drops!PacketsHaveDests

-----------------------------------------------------------------------------
netVars == <<file, lock, npc, loaded, work>>
storeVars == <<rows, hits, quiet, trail>>
wiringVars == <<agents, shape, enabled, bound, wpc, config, recorded, mcp, marker, approvals,
                wired, interrupted, edits>>
gitVars == <<hosts, derived, keyfiles, slots, writing, env>>
deriveVars == <<manifest, section, at, out>>
agentsVars == <<docs, able, stage, nth, taken, made>>
backupVars == <<bpc, password, compose, bup, repo, export, litter, browser, restored>>
herdrVars == <<up, pane, used, history, stops, hpc, tracked, covered, stream, linked, gap, owed>>
dropsVars == <<reader, configured, last, silent>>
allVars == <<part, vars, netVars, storeVars, wiringVars, gitVars, deriveVars, agentsVars,
             backupVars, herdrVars, dropsVars>>

ServicesInit ==
    /\ part \in {"store", "net", "service", "wiring", "git", "derive", "agents", "backup",
                "herdr", "drops"}
    /\ Init /\ Store!Init /\ Net!Init /\ Backup!Init /\ Herdr!Init /\ Drops!Init
    /\ IF part = "wiring" THEN Wiring!Init
       ELSE /\ agents = <<>> /\ shape = Rest /\ enabled = Rest /\ bound = Rest
            /\ wpc = Rest /\ config = Rest /\ recorded = Rest /\ mcp = Rest /\ marker = Rest
            /\ approvals = Rest /\ wired = Rest /\ interrupted = Rest /\ edits = Rest
    /\ IF part = "git" THEN Git!Init
       ELSE /\ hosts = Rest /\ derived = Rest /\ keyfiles = Rest
            /\ slots = Rest /\ writing = Rest /\ env = Rest
    /\ IF part = "derive" THEN Derive!Init
       ELSE manifest = Rest /\ section = Rest /\ at = Rest /\ out = Rest
    /\ IF part = "agents" THEN Agents!Init
       ELSE /\ docs = Rest /\ able = Rest /\ stage = Rest /\ nth = Rest
            /\ taken = Rest /\ made = Rest

ServicesNext ==
    /\ UNCHANGED part
    /\ \/ part = "store" /\ Store!Next
          /\ UNCHANGED <<netVars, vars, wiringVars, gitVars, deriveVars,
                         agentsVars, backupVars, herdrVars, dropsVars>>
       \/ part = "net" /\ Net!Next
          /\ UNCHANGED <<storeVars, vars, wiringVars, gitVars, deriveVars,
                         agentsVars, backupVars, herdrVars, dropsVars>>
       \/ part = "service" /\ Next
          /\ UNCHANGED <<storeVars, netVars, wiringVars, gitVars, deriveVars,
                         agentsVars, backupVars, herdrVars, dropsVars>>
       \/ part = "wiring" /\ Wiring!Next
          /\ UNCHANGED <<storeVars, netVars, vars, gitVars, deriveVars,
                         agentsVars, backupVars, herdrVars, dropsVars>>
       \/ part = "git" /\ Git!Next
          /\ UNCHANGED <<storeVars, netVars, vars, wiringVars, deriveVars,
                         agentsVars, backupVars, herdrVars, dropsVars>>
       \/ part = "derive" /\ Derive!Next
          /\ UNCHANGED <<storeVars, netVars, vars, wiringVars, gitVars,
                         agentsVars, backupVars, herdrVars, dropsVars>>
       \/ part = "agents" /\ Agents!Next
          /\ UNCHANGED <<storeVars, netVars, vars, wiringVars, gitVars,
                         deriveVars, backupVars, herdrVars, dropsVars>>
       \/ part = "backup" /\ Backup!Next
          /\ UNCHANGED <<storeVars, netVars, vars, wiringVars, gitVars,
                         deriveVars, agentsVars, herdrVars, dropsVars>>
       \/ part = "herdr" /\ Herdr!Next
          /\ UNCHANGED <<storeVars, netVars, vars, wiringVars, gitVars,
                         deriveVars, agentsVars, backupVars, dropsVars>>
       \/ part = "drops" /\ Drops!Next
          /\ UNCHANGED <<storeVars, netVars, vars, wiringVars, gitVars,
                         deriveVars, agentsVars, backupVars, herdrVars>>

ServicesSpec == ServicesInit /\ [][ServicesNext]_allVars

-----------------------------------------------------------------------------
\* The properties of the parts, stated in their modules.

\* bottle-nets.json gives no block or port to two bottles, for any interleaving.
ImplementsBlocks == Net!ImplementsBlocks
\* The events of a request, replayed, give its row.
TrailReplaysToRow == Store!TrailReplaysToRow
\* A finished run leaves every agent with the servers it is due.
WiredAsDeclared == part = "wiring" => Wiring!WiredAsDeclared
\* No run changes an entry written by hand.
HandWrittenStays == Wiring!HandWrittenStays
\* The key files hold what git.hosts declares.
FilesSayWhatIsDeclared == part = "git" => Git!FilesSayWhatIsDeclared
\* A process acts with its own identity's credentials.
OwnLaneOnly == part = "git" => Git!OwnLaneOnly
\* Plugins and agents are accepted together exactly if they fit.
AcceptedIffTheyFit == part = "derive" => Derive!AcceptedIffTheyFit
\* Each slot gets the source of the innermost scope that binds it.
SecretsAreEffective == part = "derive" => Derive!SecretsAreEffective
\* What a wired server dials, the firewall grants.
DialledIsOpen == part = "derive" => Derive!DialledIsOpen
\* An admitted set of descriptors can be mounted and wired.
AdmittedWires == part = "agents" => Agents!AdmittedWires
\* No file or directory with content is replaced.
NothingIsOverwritten == Backup!NothingIsOverwritten
\* A pane that enters a notified status while it is followed is spoken for.
BlockedIsTold == Herdr!BlockedIsTold
\* A new pane is subscribed to once its creation has been handled.
NewPaneIsCovered == Herdr!NewPaneIsCovered
\* The drop-log reader keeps silent about a destination for a window at most.
SilenceIsBounded == Drops!SilenceIsBounded
=============================================================================
