# Brassbottle in TLA+

Brassbottle runs coding agents in containers ("bottles") behind a firewall that
lets through only what an allowlist names. Its long-running, concurrent core is
**egress approval**: a process in a bottle asks for a destination, a daemon on
the host keeps the request until an operator allows or denies it, and the answer
is applied to the bottle's firewall. Around it are programs that share files and
containers, race and die: the admin daemon, the allocation of networks, the
wiring of plugins, git credentials, backups, notifications. These modules
specify the core and those programs, check them with TLC and prove the central
properties with TLAPS.

## 1. Inventory

Sources are under `src/` of the repository unless a path says otherwise.

| Part | Source | State it keeps | Operations | Here |
|---|---|---|---|---|
| Request store | `egress_store.py` | SQLite: `requests`, `events` | `open_or_hit`, `suppressed_hit`, `mark_notified`, `close`, `mark_apply`, `mark_persist`, `import_open` | `EgressRows`, `EgressStore` |
| Approval daemon | `egress_broker_host.py` | broker lock, `_applying`, `_denylist_hits`, threads | `file_request`, `decide_allow_for_zone`, `decide_deny_for_zone`, `persist_deny`, `sweep_stale`, restart | `EgressBroker`, `EgressLedger` |
| Deny list | `egress_denylist.py` | `denylist.json`, the daemon's cache, two locks | `matches`, `load`, `add`, `remove`, the command line | `DenyListFile`, `DenySet` |
| Allow script | `bin/allow-egress.sh` | firewall sets, the bottle's manifest | one run per allow | its outcomes, in `EgressBroker` |
| In-container client | `egress_broker.py`, `egress_request.py`, `egress_nflog.py` | held connections, filing workers, a coalescer | file, poll, hold, report drops | `EgressClient`, `DropLog` |
| Notification | `egress_notify.py`, `herdr_notify.py` | tracked panes, a subscription | cycle, replay, push | `HerdrNotify`; calls of the notifier in `EgressBroker` |
| Admin daemon | `admin_daemon.py` | event streams, one poller, cached snapshot, admin key | connect, poll, fan out | `QueueStreamHub`; secrets in `EgressService` |
| Egress service | `egress_service.py`, daemon life of `egress_broker_host.py`, `ensure_net.py` | daemon lock, `daemon.json`, two secrets, compose project | start, stop, restart, kill | `EgressService` |
| Bottle networks | `bottle_net.py` | `bottle-nets.json`, file lock | allocate, purge | `BottleNet`, `BottleBlocks` |
| Manifests | `manifest.py`, `wire_plugins.py` | agents' config files, sidecars, approvals | derive, admit descriptors, wire | `DeriveManifest`, `AgentDescriptors`, `AgentWiring` |
| Git credentials | `keyfiles.sh`, `manifest.py`, `agent_shim.sh`, `git-credential-org.sh` | env files, process environments | up, launch, answer | `GitCredentials` |
| Backup | `backup_*.py` | password, repository, exports, Backrest's configuration | start, stop, initialise, export, restore | `BackupService` |
| Everything else | lifecycle shell, jump host, tunnels, landing, version audit, UI | docker's, or none | one-shot programs | not modelled |

`PROJECT.json` lists every part with the reason why it is or is not modelled.

**How the parts interact.** A handler thread of the egress daemon serves one
HTTP call. Filing threads (`POST /egress`) and deciding threads (`POST /decide`)
share the *broker lock* `EgressBroker._lock`; a background thread closes requests
older than `STALE_HOURS`. Every store method is one SQLite transaction under the
store's own lock. The allow script runs for seconds with the broker lock given
up; `_applying` stands in for the lock meanwhile. The deny list has a lock of
its own, and its file is also written by command-line processes. Clients poll
for the decision, so all they ever see is the row of their request. The admin
daemon polls the broker's queue and fans it out to browser tabs. `djinn egress
start` creates the secrets both daemons read and the file by which they are
found. `djinn up` derives a manifest, takes an address block and writes the
payload that `wire_plugins.py` and the launchers read inside the bottle. Outside
the broker the parts meet only in files.

**What is hard.** Between two transactions of one handler anything may happen
that does not need the lock it holds: the sweep needs none when it closes rows.
The script outlives the lock. `_applying` and the denylist window are lost by a
restart, the rows are not. The hub pushes outside its lock. Files are created,
replaced and read by processes that race and may be killed between two steps.
What one run wrote another run, with another manifest, has to recognise. Each
such place is a `hazard` of `PROJECT.json`, with the properties aimed at it.

## 2. Modules

| Module | Content |
|---|---|
| `EgressRows` | the rows of the request table and what each store method does to one row, as operators |
| `EgressStore` | the store by itself, driven by arbitrary calls: rows, hit counters, event trail, legacy import |
| `EgressBroker` | the daemon: filing, deciding and sweeping threads over the rows of `EgressRows`; scripts, time, restarts, database errors |
| `EgressLedger` | the abstract promise: at most one open question per destination, at most one answer per question |
| `EgressClient` | the clients in a bottle: held connections and `request-egress`, over calls that are lost or late |
| `DropLog` | the reader of the firewall's drop log and its coalescer |
| `DenyListFile`, `DenySet` | the deny list file with its cache and locks; the abstract promise: a set changed one entry at a time |
| `QueueStreamHub` | the admin daemon's event streams and their poller |
| `EgressService` | the life of the daemons: starts, secrets, lock, `daemon.json`, kills |
| `BottleNet`, `BottleBlocks` | the allocation of address blocks and ports; the abstract promise: disjoint grants that never move |
| `DeriveManifest`, `ManifestCases` | `derive` by sections; the manifests and plugins of its instance |
| `AgentDescriptors` | what `manifest.py` admits and `wire_plugins.py` then has to wire |
| `AgentWiring` | MCP servers in the agents' config files, over runs, edits and kills |
| `GitCredentials` | from `git.hosts` to the token a process presents |
| `BackupService` | backup commands, the scheduler's container, restores |
| `HerdrNotify` | the daemon that follows terminal panes |
| `Services` | ten components that never call one another, side by side, with their assumptions and properties |
| `...Proofs` | TLAPS proofs about the module they are named after; `EgressHandlersProofs` goes on from `EgressBrokerProofs`, `ServicesProofs` has the parts of `Services` that are about the store, networks, git lanes, backup, terminal panes and the drop log, and `ManifestProofs` those about what is made of manifests |
| `MC...` | TLC instances |

**Composition.** `EgressBroker` composes the store (through `EgressRows`) and
the deny list. It keeps the list as the set of its entries, each edit one step:
that is `DenySet`, which `DenyListFile` is shown to implement. `EgressClient`
shares `EgressRows` with the daemon and takes each call of the daemon as one
step: what it relies on, one open request per key and decisions that do not
change, is what `EgressBroker` is proved to keep. `Services` puts ten
components that never call one another side by side, each with variables of its
own (it extends `EgressService` and instantiates the others): a behaviour picks
one (`part`) and runs it alone. A product of them would multiply states and show
nothing more. Its constants and `ServicesAssumption` are those of its parts;
`MCServices` gives the constants their values, and the proofs are about
`Services` itself, for any values.

### State and actions of `EgressBroker`

| Variable | In the code |
|---|---|
| `rows` | the `requests` table: `status`, `decided_by`, `decision_body`, `apply_status`, `apply_attempts`, `last_error`, `persist_status` |
| `old` | open rows whose `requested_at` is `STALE_HOURS` ago |
| `denylist` | the entries of `denylist.json` |
| `window` | `_denylist_hits`: the row on which repeated denials of a (container, zone) are counted |
| `applying` | `_applying` |
| `lock` | holder of `_lock` |
| `filing`, `deciding`, `sweep` | program counter and locals of each thread |
| `pushed` | history: requests the notifier was called for (imported ones count as told) |
| `effects` | history: for which destinations a script installed a rule, or found no firewall |
| `crashes`, `faults` | bounds |

A step is one store transaction, or a section of the broker lock with at most
one. `file_request` becomes `FileBegin` (lock, coalescing read, deny list) and
one of `FileHit`, `FileInsert; FileNotify; FilePush`, `FileInsert;
FileRecordClose` or `FileSuppress`. `_close_request` becomes `DecideNext` (the
status checks), then `IpMark`, `DenyClose; PersistMark`, or `ApplyRun;
ApplySettle; ApplyMark; AllowClose`. `persist_deny` puts `PersistAdd` and
`PersistList` before it. The sweep is `SweepCollect` with the lock and one
`SweepClose` per id without. `FileFault`, `DecideFault` and `SweepFault` are
SQLite errors: a `with` block gives up the lock, what was committed stays.
`Restart` keeps rows and deny list and drops the rest, and a script that was
running may still install its rule.

The first start imports what a legacy log has open (`LegacyQueues` in `Init`).
The import looks for no open row of the same key, so one open request for a
destination is an assumption about the log; it calls no notifier, so imported
requests count as told. The deny list is empty then: nothing is swept for
entries that are older than the store.

The script ends in one of five ways (`ApplyRun`): it installs the rule and exits
0, installs nothing and fails, installs the rule and fails to save the manifest,
finds no running firewall and exits 0, or `subprocess.run` raises. `effects`
records what it did, `exit0` what the broker sees.

A handler whose `store.close` is refused because the sweep was faster gets
`EgressStoreError`, which nothing on that path catches: it dies and does not try
its remaining candidates (`CloseAs`, the state `aborted`). In the same way a
filing that found an open row which is then swept is answered 500 (`FileHit`),
and an allow whose row was swept during its script is listed among the
`decided` ids although it was decided as stale (`ApplySettle`).

### `EgressStore`

One action per method, called by anybody with any argument the method accepts.
A method that raises is a disabled action. `trail` has each request's events,
of whose fields only the count of a `hit` matters; `quiet` is the history of the
hits that `suppressed_hit` counts without an event. `ImportOpen` takes over the
open requests of the legacy log with their hit counts: one `requested` event, and
one `hit` that stands for the rest (`ImportEvents`).

### State and actions of `DenyListFile`

`file` is the content and mtime of `denylist.json`, `cache` what the daemon
holds of it; `threadLock` is `DenyList._lock`, `flock` the lock on
`denylist.lock`. `matches` is `MatchBegin; ReloadStat; [ReloadRead;] Answer`:
the file may be replaced between stat and read. `add` is `AddBegin; TakeFlock;
EditRead; EditWrite` and is followed in `persist_deny` by a forced load. Tools
do the same without the daemon's locks. The daemon's constructor reads the file
before it has threads, so `Restart` does it in one step. `seen` is a history.

### State and actions of `EgressClient` and `DropLog`

`client` is the thread that files and polls (`_file_worker`, or `request_host`
itself), `waiter` the thread in `wait_for_filing_or_client_abort` and whether
the hold deadline has passed, `posts` the filings under way, `told` the answer a
client gets, `since` a history of what happened to its destination since it
filed. Filing is `FileBegin`, then `FileServed`, `FileDenied` or `FileLost` at
the daemon, which may come after the client's `FileFails`. `Poll` is the poll
that ends `poll_decision`; the others change nothing. The waiter's loop is
`WaiterLooks; WaiterReads`. Ids are random and filed once, so a client is its
own id; `PolledId` says which id it polls.

`DropLog` has the netlink configuration (`Configure`), the ages of
`_last_filed` (`last`, `Tick`) and `Receive`, one whole `handle_message`. `silent`
is the history: when a destination was really sent to the broker.

### State and actions of `QueueStreamHub`

`pc` has a program counter for each tab's handler thread and for the poller; the
rest are the hub's fields (`streams`, `frame` and `_key` as one version number,
`fresh`, `failures`, `closed`, `holder` of `_fetch_lock`) and each stream's
mailbox and `ready` flag. `open` is `Reserve; EnsureFresh; [Refresh;] Admit`, or
`OpenFails`; `_refresh` is `AcquireFetch; Fetch; CommitFrame; PushFrame...;
RefreshReturns`, or `CommitFailure`; `_poll_loop` is `PollDue`, `PollerStops`,
`PollFailed`. A step ends where a lock is given up, and each push is a step,
because pushes are outside `_lock`. `Serve` is the handler's loop, `Ended` its
end, `ClientGone` a closed tab, `Shutdown` the hub's `close`. The broker's queue
is a version that grows.

### State and actions of `EgressService`

Processes are runs of `djinn egress start`, the broker in its container, one run
by hand on the host, and the admin. Each obtains its secrets in turn (`Look`,
`CreateSecret` with O_EXCL or `CreateLost`, `WriteSecret`, `Reread`): a secret
is the name of the process that made it up, and a file may be missing, empty or
whole. A start then probes the lock, makes the network and the compose file and
brings the project `Up`. A daemon takes the lock, binds, writes `daemon.json`
(`Advertise`) and serves; it removes its own endpoint and releases the lock when
it closes. `Crash` ends any process at any step, docker restarts the containers
of a project that is up, and `PidReused` gives a dead daemon's pid to somebody
else. `LiveEndpoint` is what a caller believes of `daemon.json`.

### State and actions of `BottleNet`

A run is `Acquire; Load; AllocateFleet | Purge; WriteAtomic; Release`, and
`Release` may happen anywhere (refused, timed out, killed). `AllocateFleet`
computes the whole result of `allocate_fleet` for several bottles: kept entries
are checked against docker's networks, grants and ports, new ones get the first
free block and port in sorted order (`AllGranted`, bottle by bottle), and any
conflict refuses everything. Bottles are numbers (`NBottles`), in the order of
their names.

### `DeriveManifest`, `AgentDescriptors`, `AgentWiring`

`DeriveManifest` goes through the sections of `derive` in order, each one a step
that reads what earlier ones derived or ends in `Refused`: repositories, the
list of plugins with what capabilities and identities add, ports, remote access,
identity refs, each plugin (its volumes, names, servers, slots), the secrets in
two loops, over the overrides (`OneOverride`) and over the slots with a default
(`OneDefault`, in any order), and notification. The allowlists are sets: their
order is never read. `AgentDescriptors` runs both readers of `agent.yml`: `Admit` on the
host, then the mounts and `Wire` in the bottle. `AgentWiring` runs
`wire_plugins.py` one file at a time over the files of earlier runs:
`DeleteStale`, `WriteRequired`, `RecordRequired`, `SyncPlugins`, `RecordPlugins`
(and `ReplaceBlock` for TOML; `GenerateMcp`, `Mark`, `Preapprove` for claude), with
edits by hand between runs and kills anywhere (`Crash`). Where there is no
`repos/` claude's file is neither written nor read; the entrypoint or a clone may
make the directory between two looks of one run (`ReposAppear`, `mcp = "late"`).
A `.mcp.json` without its mark is left alone, whoever wrote it and whatever is in
it; one with its mark is replaced whole, and edits by hand in it are lost.

### `GitCredentials`, `BackupService`, `HerdrNotify`

`GitCredentials`: `Up` validates `git.hosts`, makes the rows and wipes the files;
`WriteKeyfile` writes the git block of one identity's env file (the table and its
variables), and when all are written `AppendSecrets` adds that agent's secret
slots. `Launch` starts an identity's shim from any process at any moment (clear,
then source), `Exit` ends a process; the helper's answer is the operator `Answer`.
Clearing removes the table, what it names and `GH_TOKEN` with its like (`GhVars`);
slots stay. A value is the variable of `secrets.env` it was read from, so a slot
(`slots`, from `Bindings`) that has the name of a token variable takes its place:
nothing in `manifest.py` forbids it. Later runs of `up` may bring another section
and other slots.

`BackupService`: commands create the password file (O_EXCL, then write), the
compose file and Backrest's configuration; the scheduler initialises a
repository if it finds none, and exports its configuration through a temporary
file; restores check their target. Commands and containers die at any step.

`HerdrNotify`: the terminal server opens and closes panes, changes their status,
stops and starts; the daemon's cycle is a snapshot, a subscription (answered
with a replay of the server's global events) and the handling of events until a
pane it does not cover appears. `owed` is the history of blocked panes it saw.

## 3. Runs

| Run | Instance | Question |
|---|---|---|
| `BrokerDeciding` | 1 filer, 2 operators, 2 ids, scripts that succeed or fail | two operators, one of them perhaps in `persist_deny`, decide the same requests |
| `BrokerFiling` | 2 filers, 1 operator, 2 hosts (one an IP literal), 2 zones, one inside the other, imported requests, every exit of a script that ends | coalescing, denylist window, notifications, longest match, what "allowed" means |
| `BrokerRestart` | 1 filer, 1 operator, 1 restart, 1 database error | the same properties when a handler ends anywhere |
| `BrokerLiveness` | 1 filer, 1 operator, under `FairSpec` | does everything that starts end? |
| `DenyListFile` | 2 threads, 1 tool, 2 entries, 2 changes of the file, under `FairSpec` | cache and file under both locks |
| `EgressClient` | 1 connection, 1 run of the tool, 2 keys, 2 tries, under `FairSpec` | what is a client told, and when? |
| `QueueStreamHub` | 2 tabs, 3 connects, 3 versions of the queue, 2 failures to give up, under `FairSpec` | does every tab follow the queue? |
| `Services` | the ten parts of `Services` with the values of `MCServices`, below | what each of them promises |
| `PersistLeavesOpen`, `CoalescedPoll`, `PluginMoved`, `PaneIdReused` | the smallest instance that shows it | four statements of the repository the code does not keep (section 5) |

**Bounds of the broker.** The interesting interleavings are between *two*
threads about *one* row, and a second row is needed for candidates that come
after it and for a second ask of the same key. Two ids, two threads that write
and the sweep give all of these; a third id or thread adds no new pair.
`MaxTries` (how often an allow is tried; 1: what a failed attempt leaves behind
is then decided by denies, sweeps and filings), `MaxCrashes`, `MaxFaults` and
`MaxClock` bound counters, with `MaxTrail` for the store's events. One restart
suffices for what a restart can lose, for it loses all memory. With two texts
written after the first, the deny list has a text before, between and after two
edits. Two clients are one that opens a row and one that coalesces on it, in
either order and of either kind; with two tries an attempt fails before and
another after the second one files. Requests and threads are symmetric where no
liveness is checked.

**Bounds of the hub.** Two tabs share the cache and the fetch lock; the third
connect (`MaxConnects`) is one that meets a hub in use and a frame that has
aged; three versions (`MaxVersion`) are an old, a fetched and a newer queue, so
that pushes can be out of order; `FailureLimit` 2 has a failure that is forgiven
and one that is not.

**The ten parts of `Services`.**

| `part` | Instance | Properties |
|---|---|---|
| `store` | 2 requests of one key, one in the legacy log with 3 hits, up to 3 events each and a close | `TrailReplaysToRow` |
| `net` | 2 runs, 2 bottles, 2 blocks, 3 ports, any facts about the host | `ImplementsBlocks` |
| `service` | 2 starts, both brokers, the admin | `HoldersAgree`, `CallersFindTheBroker` |
| `wiring` | 2 servers of 6 shapes, 4 fleets of 1 or 2 agents, with or without `repos/` and `.mcp.json`, 1 edit by hand (`MaxEdits`), kills anywhere | `WiredAsDeclared`, `HandWrittenStays` |
| `git` | 3 spellings of 2 hosts, 3 tokens, 2 identities, 2 processes, one change of the section, slots with a name of their own, a token's or none | `FilesSayWhatIsDeclared`, `OwnLaneOnly` |
| `derive` | the manifests of `ManifestCases` | `AcceptedIffTheyFit`, `SecretsAreEffective`, `DialledIsOpen` |
| `agents` | one descriptor with every way to wire servers, or two that may clash | `AdmittedWires` |
| `backup` | 2 commands, the scheduler and one run by hand, 3 restore targets | `NothingIsOverwritten` |
| `herdr` | 2 panes, 2 statuses, 1 stop of the server (`MaxStops`), 2 undelivered events (`MaxPending`) | `BlockedIsTold`, `NewPaneIsCovered` |
| `drops` | 2 destinations, window of 2 ticks, ignored packets | `SilenceIsBounded` |

Races need two processes and one file; a third adds no new pair. Where a check
is about pairs (plugins, descriptors, host sections, bottles) the inputs are all
pairs over the values the code tells apart. Two runs of `up` with one edit
between them is what a stale sidecar takes; one stop of the terminal server
separates old panes from new ones. A part stops when its manifest is derived or
its descriptors are wired, hence `CHECK_DEADLOCK FALSE`.

**What the properties say.** Each has a comment at its definition.

- `OneOpenPerKey`, `DecisionsAreFinal`, `ImplementsLedger`: the daemon's
  promise to clients.
- `ApplyingHasOneOwner`, `InFlightOnlySwept`: `_applying` does what a lock held
  during the script would do, except towards the sweep.
- `AllowedWasApplied`: "allowed" means that a script put the rule in place, or
  found no running firewall; a failure after the rule was installed is no allow.
- `CoveredIsSwept`: no filing slips between the write of a deny list entry and
  the sweep that follows it. An ageing request, a database error or a restart
  may make the handler give up halfway, and the property claims nothing after
  one.
- `WindowNamesDenial`, `OpenIsNotified`: the denylist window never points at a
  row the store refuses, and the notifier is called for all open requests. The
  window is noted before the row is written, and the row before the notifier is
  called: a database error in between breaks either, a restart only the second,
  so they say so (`faults`, `crashes`). Imported requests are announced by nobody
  and count as told.
- `HandlersSucceed`: without ageing requests and database errors no handler dies.
- `TrailReplaysToRow`: the event table is a complete audit of the rows.
- `MatchIsCurrent`, `ImplementsDenySet`: an edit is never lost and never unseen.
- `AnswerIsNews`, `FirstAndToolsAreHeld`, `DecidedIsTold`: a client is told the
  verdict on its own request, not before there is one, and without waiting for
  its deadline.
- `SilenceIsBounded`: what the drop log suppresses was filed within the window.
- `ReadyMissesNothing`, `SlotsHaveHandlers`, `NeverGoesBack`, `StreamsConverge`:
  a tab in the fan-out has or gets the cached queue and a poller runs for it, no
  slot of `STREAM_MAX` leaks, no tab goes back to an older queue, and every tab
  shows the newest one in the end or is ended.
- `HoldersAgree`, `CallersFindTheBroker`: one token and one key, whoever races
  to create them; `daemon.json` names the daemon that serves, or nobody.
- `ImplementsBlocks`: grants are disjoint in blocks and ports, never move, and
  go one at a time by a purge.
- `AcceptedIffTheyFit`, `SecretsAreEffective`, `DialledIsOpen`: acceptance does
  not depend on the order of plugins, each slot gets the source its three scopes
  say, a server that needs a host port has it opened.
- `AdmittedWires`: what the host admits the bottle can wire.
- `WiredAsDeclared`, `HandWrittenStays`: after a run that finished, every agent
  has the servers of the manifest; no run touches what a person wrote. Claude is
  excepted from the first where `.mcp.json` is not the run's (`NotOurs`: no mark,
  or `repos/` came too late), and from the second where it bears the mark.
- `FilesSayWhatIsDeclared`, `OwnLaneOnly`: each identity gets the token
  `git.hosts` says, unless a slot has the variable's name; a process has its own
  identity's table and variables, and of another's nothing but plugins' slots.
- `NothingIsOverwritten`: an initialised repository, a written password and a
  seeded browser configuration stay.
- `BlockedIsTold`, `NewPaneIsCovered`: a pane that blocks while it is followed
  is spoken for, and a drained subscription covers every live pane.
- `InFlightIsResolved`, `OperatorIsAnswered`, `StaleIsClosed`, `CallsEnd`:
  liveness.

**Assumptions about the surroundings.** Script outcomes are a constant,
`ScriptExits`. `raised` (an exception of `subprocess.run` other than `OSError`)
is in no run: there is no `try/finally` around the script, so the id would stay
in `_applying` for ever and `ApplyingHasOneOwner` be false. Editors of
`denylist.json` are kept out of a tool's read-modify-write, since they do not
take the flock; and each write gets an mtime of its own. A crash ends a process
between two steps, and a `rename` happens whole. In `BackupService`, docker
restarts what exits, and restic initialises a repository in two steps and refuses
one that is there. In `HerdrNotify` a server replays its global events in order,
and in `Services` it never gives one id to two panes (`Reused`; otherwise, see
`PaneIdReused`).

**Fairness.** `FairSpec` of the broker: a handler that has begun runs on (weak
fairness), which includes that the script ends (`subprocess.run` has no timeout,
so this is an assumption about docker and nft); threads that wait for the broker
lock get it in the end (strong fairness: a Python lock is not fair, but every
holder gives it up after a few transactions); the sweep thread wakes every few
minutes. Nothing makes a client file, an operator decide or a request age.
`FairSpec` of the deny list: likewise for its two locks; a tool may die instead
of going on. Restarts and faults are not fair. `FairSpec` of the clients: threads
run on, and a client that polls once a second reaches the daemon some time;
deadlines, filings and operators are not fair. `FairSpec` of the hub: the poller
and every handler run on (weak fairness; connects are bounded, so nobody is
kept from the fetch lock for ever); the broker, browsers and the shutdown are
not fair. The other modules have no liveness property and no fairness.

## 4. Proofs

Eight modules hold proofs, each for every value of the module's constants (sets of
containers, hosts, threads, tabs, commands may be infinite) and every bound.

| Module | Theorem | Statement |
|---|---|---|
| `EgressBrokerProofs` | `Invariance` | `Spec => []IInv`, with type correctness |
| | `Coalescing` | `Spec => []OneOpenPerKey` |
| | `Finality` | `Spec => DecisionsAreFinal` |
| | `Refinement` | `Spec => ImplementsLedger` |
| `EgressHandlersProofs` | `OneOwner` | `ScriptsEnd` implies `Spec => []ApplyingHasOneOwner` |
| | `OnlySweptInFlight` | `ScriptsEnd` implies `Spec => InFlightOnlySwept` |
| | `RepeatsAreLogged` | `Spec => []WindowNamesDenial` |
| | `OperatorIsNotified` | `Spec => []OpenIsNotified` |
| | `PersistReachesAll` | `Spec => []CoveredIsSwept` |
| | `NoHandlerDies` | `ScriptsEnd` implies `Spec => []HandlersSucceed` |
| | `AllowedOnlyIfApplied` | `Spec => []AllowedWasApplied` |
| `DenyListFileProofs` | `SearchedIsCurrent` | `Spec => []MatchIsCurrent` |
| | `NoEditIsLost` | `Spec => ImplementsDenySet` |
| `EgressClientProofs` | `ToldIsNews` | `Spec => []AnswerIsNews` |
| | `NobodyIsDropped` | `Spec => FirstAndToolsAreHeld` |
| `QueueStreamHubProofs` | `NothingMissed` | `Spec => []ReadyMissesNothing` |
| | `SlotsAndHandlers` | `Spec => []SlotsHaveHandlers` |
| | `Monotone` | `Spec => NeverGoesBack` |
| `EgressServiceProofs` | `SecretsAgree` | `Spec => []HoldersAgree` |
| | `EndpointIsTheServer` | `Spec => []CallersFindTheBroker` |
| `ServicesProofs` | `TrailIsComplete` | `ServicesSpec => []TrailReplaysToRow` (of `EgressStore`) |
| | `BlocksImplemented` | `ServicesSpec => ImplementsBlocks` (`BottleNet`) |
| | `OwnLane` | `ServicesSpec => []OwnLaneOnly` (`GitCredentials`) |
| | `FilesAreAsDeclared` | `ServicesSpec => []FilesSayWhatIsDeclared` (`GitCredentials`) |
| | `NothingOverwritten` | `ServicesSpec => NothingIsOverwritten` (`BackupService`) |
| | `NewPanesAreCovered` | `FreshIds` implies `ServicesSpec => []NewPaneIsCovered` (`HerdrNotify`) |
| | `BlockedAreTold` | `FreshIds` implies `ServicesSpec => []BlockedIsTold` (`HerdrNotify`) |
| | `SilenceBounded` | `ServicesSpec => SilenceIsBounded` (`DropLog`) |
| `ManifestProofs` | `AgentsAreWired` | `PluginsChange = FALSE` implies `ServicesSpec => []WiredAsDeclared` (`AgentWiring`) |
| | `HandWrittenIsKept` | `ServicesSpec => HandWrittenStays` (`AgentWiring`) |
| | `AdmittedAreWired` | `ServicesSpec => []AdmittedWires` (`AgentDescriptors`) |
| | `DialledPortsOpen` | `ServicesSpec => []DialledIsOpen` (`DeriveManifest`) |
| | `PluginsFit` | `ServicesSpec => []AcceptedIffTheyFit` (`DeriveManifest`) |
| | `SecretsAreTheEffectiveOnes` | `ServicesSpec => []SecretsAreEffective` (`DeriveManifest`) |

Every theorem is about the definitions the runs check.

**Side by side.** The results about the parts of `Services` are first proved of
each component's own specification (the lemmas `...Alone`, such as
`Net!Spec => Net!ImplementsBlocks`), which does not know of the others. A step
of `Services` is a step of one part and leaves the variables of the others alone
(`PartsStep`), so a behaviour of `Services` is, for each part that starts in one
of its own initial states, a behaviour of that part (`NetRuns`, `HerdrRuns`, ...).
`wiring`, `git`, `derive` and `agents` have many initial states, so they take one
only in the behaviours that run them: their properties are about those, and
`part` never changes (`GitRuns`, `WiringRuns`, ...). `HandWrittenStays` is about
all behaviours; where the wiring does not run, no step touches a config file.

**Assumptions.** Those of the modules (`BrokerAssumption`, `NoneIsNoEntry`,
`DenyListAssumption`, `HubAssumption`, `ClientAssumption`, `ServiceAssumption`),
which TLC evaluates in the runs: `None` and the other markers are no id, key,
thread, entry or version, sets of threads are disjoint, `Covered` is a function
on zones. `ServicesAssumption` gathers those of its parts, and TLC evaluates it in the run
`Services`: `NetAssumption` (blocks and ports are numbers), `LegacyType` (an open request of the
legacy log has a key), `FleetAssumption` (at most one agent of a bottle has the
`.mcp.json`), `DescriptorsAssumption` (lists and paths are sequences),
`DeriveAssumption` (the same, and compose mounts something below `/home/coder`:
without `.agent-keys` there the overlap test of `VolumesOk`, which also accepts
the parents of the coder home, would let `/home` through), `GitAssumption`
(sections of `git.hosts` and their lists are sequences, the simple form is one
entry for everyone, `None` is no variable of `secrets.env`, `GhVars` has the
variable of the CLI host, a binding gives slots to identities and none to the
user), `BackupNames` (the
markers of missing and empty backup files are no command) and `PacketsHaveDests`
(every packet has a destination).

Three things about the surroundings are hypotheses of the theorems that need
them, and the runs keep to them: no allow script ends by an exception
`_apply_allow` does not catch (`ScriptsEnd`: `raised` is no outcome), a terminal
server gives no old id to a new pane (`FreshIds`; the run `PaneIdReused` shows
what happens otherwise), and no plugin changes the definition of a server it
keeps (`PluginsChange = FALSE`; the run `PluginMoved` likewise).

**The broker.** `OneOpenPerKey` is not inductive: `FileInsert` does not look for
an open row, it relies on what `FileBegin` saw a step before. `IInv` therefore
adds *why* that knowledge is still good: `LockIsHeldByOne` (the lock is held
exactly by the thread between two transactions of a locked section),
`FilerKnows` (the id and key about to be inserted are free) and `OperatorKnows`
(a row about to be closed is still open, or was swept; a row whose script ran is
not an IP literal; before `AllowClose` the row says `applied` with no error).
The one concurrent writer without the lock is the sweep, and it only closes open
rows: that it cannot break these is the lemma `SweepCloseInv`. TLC checks `IInv`
in a run. Each action has its lemma; steps that leave the rows alone share
`RowsKept`, and steps that rewrite one row `RowRewritten`.

`Finality` and `Refinement` go by a second route. `StoreStep` classifies what a
step may do to the rows: nothing, open one free row whose key has no open row,
close one open row, or mark one row with an outcome. `FileWrites`,
`DecideWrites` and `SweepWrites` show that each step is one of these (from
`IInv`); marking keeps key, status and decision (`MarksKeepRow`), so it is a
stutter of the ledger, opening is `Ask` and closing is `Answer`.

**Requests in flight.** The broker lock is given up while the allow script runs;
`_applying` stands in for it. `FInv` adds to `IInv` that every id there belongs
to one deciding thread, and `LockedAreNotInFlight`: whoever is about to close a
row under the lock found it not in flight. An id is put into `_applying` under
the lock, when nobody else is between a status check and a write, and later
deciders skip it; its row has been filed, so no filing inserts or closes it. The
sweep is the one writer left, which `OnlySweptInFlight` names. Without
`ScriptsEnd` the first theorem is false: nothing removes the id of a script
whose run raised.

**Whole requests.** `HInv` says what a handler relies on from one step to the
next. Under the lock that is what it read (`CalmKnows`: as long as nothing is old
no row can be closed by the sweep, so an open row stays open until the lock is
given up; `RecordKnows`: the row a repeated denial is to be logged on is a denial
of that container). Across the script it is `_applying`, by `FInv`. From these
`NobodyAborts` follows for the operators and the same for the filings.
`WindowKnows` and `NotifyKnows` add to their properties which steps of which
thread make up for what is not so yet. `CoveredIsSwept` needs the lock once more:
an entry may be added while a filing that has not seen it is about to insert
(`InsertKnows`), and the `persist_deny` that added it lists its candidates only
when it gets the lock, after the insert. The tables `FileBegins` to `OtherSteps`
say once what each step does, and every conjunct of `HInv` is proved from them.
`AllowedOnlyIfApplied` adds to `IInv` what a script has done by the time its
thread goes on (`RuleKnows`); that is never undone, and the row keeps its key
(`EffectStays`).

**The store.** That replaying the trail of a request gives its row is an
induction on the trail. The library's induction theorems take an operator as a
parameter, which no prover here instantiates; but that `<` is well founded on the
naturals is stated with a set, so the least element of the set of
counterexamples can be taken (`Least`). This shows that the recursive function
`Replayed` exists and that one event more is one step more (`ReplayOneMore`).
Each method is then a matter of one event: it takes what the trail said to what
the row says now (`RecordInv`). The import is a matter of two, whose counts add
up to the hits of the log (`ImportHeard`).

**The deny list.** The invariant has who holds which lock at which step
(`FlockHeld`, `ThreadLockHeld`), that what an edit read is still in the file when
it writes (`EditOk`), and how cache and file are related: with equal mtimes they
agree, unless a reload is between its stat and its read (`CacheOk`). A file
replaced in that window makes the cache *newer* than its mtime says, which the
next reload repairs; that is why no thread searches an older text than it may
(`Follows`). `HolderMoves` covers what the holder of the flock does without
writing, `CacheMoves` what a thread with the lock does to the cache. A write is
then `Add` or `Remove` of one entry (`EditedIs`, `WriteIsEdit`), which gives the
refinement.

**The hub.** A refresh replaces the frame and the list of those it has still to
be pushed to. This is safe because one thread holds the fetch lock from fetch to
last push (`FetchLock`) and only it has pushes to make (`PushersPush`).
`ReadyServes` and `Slots` tie flags and slots to handlers, `InOrder` says that
versions go up from what a client was shown over its mailbox, the frame and what
is being committed to the broker's queue.

**The clients.** What a client is told depends on `base`, the error count it saw
when it filed. `CInv` ties it to the history: an error count above `base` means
that an apply failed since (`apply_error` in `since`), and a row it polls that is
decided was decided since, because the row was open when the client filed
(`ClientKnows`). A client that is done without either has passed its deadline, or
is a coalesced connection, which `NobodyIsDropped` leaves out for the reason of
the run `CoalescedPoll`.

**Files that are created once.** A file is created by one process at most and is
empty until that process has written it; nobody takes a secret from an empty
file, and nobody changes one with content (`WriterOwnsFile` in
`EgressServiceProofs`, `PasswordWriter` and `BrowserWriter` in `ServicesProofs`).
For the repository: who initialises has seen none or an unfinished one, and who
exports has seen one (`Exporting`). For the drop log: while the reader lives, its
record of a destination is the time of its last filing (`RecordIsTrue`).

**The endpoint.** `LockSaysWho` gives for each process the places in which it has
the daemon lock, so at most one daemon is past it; `FileIsTheServers` says that
a daemon which serves has its name in `daemon.json`, and that another's name
there is stale. A probing start holds the lock for a moment and writes nothing.

**Networks.** A run past `Acquire` has the lock, so what it loaded is still the
file, and what it computed is `Permitted`: grants of the file are kept or one is
purged, new ones are disjoint from everything (`NetInv`). `WriteAtomic` is then
`Grant` or `Free` of the abstract allocation and every other step a stutter. That
a fleet is granted soundly, which recurs over its bottles, goes by the least
turn that is not (`AllGrantedSound`).

**Wiring.** Between two runs a JSON agent's file has no form that a run wrote
under a name its sidecar files do not claim, unless a run died (`JsonInv`). For
claude, a mark means that the file is there, a run that is about to approve a
marked file has generated it itself, and it finds neither mark nor file only
where there was no `repos/` before (`McpInv`; `repos/` that comes up in the
middle of a run is `ReposStep`). A run takes
the agents in order and leaves each one as declared (`Good`, kept by `AgentStep`
while it goes on to the others). The step that needs an argument is
`SyncPlugins`, which removes the names of the last run after the required servers
have been written: the two sidecar files never claim one name for two reasons,
since one holds servers that require a secret and the other those that do not.
That is where a changing definition breaks it.

**Descriptors.** What was admitted so far is, one by one, what one agent can be
wired with (`WiresAlone`), pairwise disjoint (`ApartFrom`), and taken, so that a
later descriptor is checked against all of it (`IsTaken`). In the bottle the
mounts and configurations are then exactly those of the enabled agents
(`Mounted`, `Configured`).

**The derivation.** Ports: whatever a server dials is opened in the step that adds
the server, and no later section takes a port away (`OutInv`). Plugins: what has
been gathered is the union over the plugins done (`GatheredFrom`), so checking one
against it is checking it against each of them, and what is checked is what
`Fits` and `FitTogether` say, symmetric as they are (`FitInv`); a volume above the
coder home would hide the mount below it (`BelowRoot`). That the list of plugins
is a list without repetitions is `AddAllIs`, again by the least counterexample.
Secrets: the overrides read and the slots dealt so far determine the records,
each once (`Recorded`): an override is the only one of its agent and slot, and a
default goes only to agents without one, so no two loops make the same record
(`SecInv`).

**Git lanes.** Whatever a key file or a process defines is named by its table, is
one of `GhVars`, or is a secret slot (`InLane`, of files `FilesInLane` and of
processes `EnvInLane`). So clearing by the table leaves nothing but slots of the
lane before. That slots are appended to a file that is there needs the order of
`write_keyfiles`, tables first (`SlotsComeLast`).

What the files say is an induction within an induction: over the keys of
`git.hosts`, and over the list of a key. `Tells` says what the walk knows as long
as nothing was wrong: a host has a row exactly if an entry for everyone was read
for it, with that entry's token, and the same for each identity and the entries
that name it. An entry that contradicts one read before, under another spelling
too, is what `_git_identity` refuses, so the order of the keys makes no
difference to what an accepted section says. `GoesOn` is what one step keeps, wrong or not; both inductions take
the least step that does not keep it (`Least`). The file of an identity then has
one answer for a host, the one `Says` reads from the section (`TableSays`), with
the slots over it once they are appended (`FilesInv`).

**Terminal panes.** A live pane outside the subscription is unknown to the
tracker and its creation is still in the stream (`NewOnes`). For blocked panes,
`TrackerIsRight` says that reading the events that wait takes the tracker to what
the pane is now, so the event of a change is still a change when it is read;
`OwedHaveEvents` says that it has not been read yet.

**Only model-checked.** All liveness, which is out of the prover's reach. Every
safety property of a passing run is stated by a theorem.

## 5. Where the repository says otherwise

- `PersistLeavesOpen`: `persist_deny` promises to close every open request the
  new entry covers. It skips a request in flight because "the in-flight apply
  resolves it"; when that script fails the request stays open and covered.
- `CoalescedPoll`: the worker of a held connection polls the id it minted. A
  filing that coalesces (a second connection to the same host) is answered with
  the id of the open row and its own is never stored, so the poll gets a 404 and
  the connection is failed at once with a 502 or a TLS alert. The worker's
  comment says the connection is held; `request-egress` polls the right id.
- `PluginMoved`: the docstring of `wire_plugin_servers_json` says servers of
  identities are not touched. A plugin's server that becomes agent-scoped is
  written by `reconcile_agent_servers` and deleted again in the same run,
  because the sidecar of the last run still lists it as a plugin's. The next run
  puts it back.
- `PaneIdReused`: the comment on `_adopt_new_pane` says a genuinely new pane ends
  the cycle. A restarted server that gives out an old id again has its new pane
  taken for a replay, and it is never subscribed to.

Three more were met and have no run. `sweep_stale` promises to leave a request
alone whose allow is in flight, but looks at `_applying` with the lock and closes
without it, so an allow that starts in between is closed as stale under its
script (`InFlightOnlySwept` admits this one writer). `_close_request` promises to
keep a request open when no rule was installed; for a stopped bottle the script
exits 0 without a rule and the request is recorded as allowed. `agent_shim.sh`
says that "an agent spawning another never passes its own credentials along" and
that a launched process carries "nothing inherited from a parent's identity"; the
launcher clears the git lane only, so a plugin's secret slot in the parent's file
stays in the child's environment unless the child's own file sets it
(`OwnLaneOnly` admits slots, and its mutant keeps token variables as well).

## 6. Not covered by a property

Egress approval:

- A script that never ends, or that raises: see the assumptions above.
- Two writes of `denylist.json` within the resolution of its timestamps.
- While a tool holds the flock, `DenyList.add` in the daemon keeps the lock that
  every `matches` needs, so filings wait for the tool. `CallsEnd` shows that
  they go on once the tool is done; latency is not modelled.
- A waiter that checks the deadline just before it passes and the worker just
  after it gave up reports a fault where `pending` was meant. The window is two
  lines wide; `EgressClient` has both steps, and `Held` claims nothing then.
- The proxy's pool of 32 threads, all of which may be held.
- The drop log records a destination as filed even if the filing failed, so a
  broker that is away for a moment is asked again after the window only; an
  exception that is no `URLError` ends the reader; of several packets in one
  datagram `parse_packet_message` reads the first.
- A request whose daemon dies between the row and the notifier is announced by
  nobody: a repeated filing coalesces. Nor are imported requests.
- A legacy log with two open requests for one destination would bring both in.
- HTTP, tokens, authorisation, formatting, the read-only queries.

Daemons:

- Failed connects count toward the hub's failure limit, and a decision whose
  answer is late is reported as "unreachable" although the broker decides.
- `_lock_held` takes the lock to probe it, so two starts may refuse each other,
  or a start meet a broker that gives up; `_wait_for_broker_health` is content
  with the host's daemon; a pid used again makes a stale `daemon.json` believable
  (`PidReused`, excepted in `CallersFindTheBroker`).

Files:

- `_write_atomic` of `bottle_net.py` ignores short writes.
- A killed wiring run leaves servers nobody claims, a torn `~/.claude.json` or a
  `.mcp.json` without its marker, which later runs take for hand-written
  (`interrupted` and `NotOurs` in `AgentWiring`). A bearer server with more
  headers ends the wiring of codex.
- `plugin_ports` does not re-point a port that a server's URL spells out.
- Hand edits of a `.mcp.json` that bears the mark are lost at the next run.
- An agent launched while `up` writes the key files finds none, or one without
  its slots; the retired `common.env`, still sourced where present, is left out.
- Two spellings of one host in `git.hosts` are merged in the order they come.
- An agent that names one volume for two state directories gets the last one
  mounted only, and a JSON agent whose reference field is called `url` loses the
  server's URL; nothing checks either.
- Backup: `djinn backup start` does not retry an export while the container is
  unchanged, though the import document says so; a temporary file left behind
  makes the next export fail once; a start that dies between creating and writing
  the password file leaves it empty; a killed `restic init` makes the container
  restart for ever; two restores may share one empty target.

Terminal notifications: a transition during the gap between snapshot and
subscription, or still buffered when a cycle ends, is not pushed; one suppressed
by the cooldown is lost; the replay of a server that had n panes which are gone
takes the daemon a number of cycles exponential in n, at one a second.

Not modelled at all: the bottle's lifecycle (shell around docker compose, whose
state is docker's), jump host and tunnels (generated SSH configuration), session
landing, version audit (checks at build time), the web UI, nftables rules and
the text of generated files.

## 7. Plan

1. A product of `EgressService` and `EgressBroker`, for the requests and
   decisions that are under way while a daemon is replaced.
2. The loop of the backup scheduler (backup, forget, prune, check) with restic's
   locks as an external.
3. `compose_rules.py` and `plugin_services.py`, if their output is to be
   related to what `DeriveManifest` derives.
