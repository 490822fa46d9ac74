------------------------------ MODULE BottleNet ------------------------------
(***************************************************************************)
(* The per-bottle network allocation (src/src/bottle_net.py): runs of      *)
(* up.sh and down.sh --purge share $DJINN_HOME/run/bottle-nets.json under  *)
(* a file lock.  A run takes the lock, loads the file, computes the whole  *)
(* result in memory, writes a temporary file, renames it over the old one  *)
(* and releases the lock; it may wait in vain for the lock, be refused, or *)
(* die between any two steps (the system then drops its lock).             *)
(*                                                                         *)
(* Subnets are the numbers of the /28 blocks of the pool, lowest first;    *)
(* ports are numbers too.                                                  *)
(***************************************************************************)
EXTENDS Naturals, FiniteSets, FiniteSetsExt, Functions

CONSTANTS Runs,         \* processes
          NBottles,     \* how many bottle names there are
          Blocks,       \* the /28s of DJINN_BOTTLE_POOL
          BrowserPorts, \* DJINN_BROWSER_PROXY_PORTS
          SshPorts,     \* what manifests declare as ssh.port
          Foreign,      \* a Docker network that is not djinn-b-<bottle>
          None

\* A bottle's name is its place in sorted(); blocks and ports are numbers.
Bottles == 1 .. NBottles

NetAssumption ==
    /\ NBottles \in Nat /\ None \notin Runs
    /\ Blocks \subseteq Nat /\ BrowserPorts \subseteq Nat

VARIABLES file,     \* bottle-nets.json
          lock,     \* who holds bottle-nets.lock
          pc,       \* where each run is
          loaded,   \* the entries each run loaded
          work      \* the entries it computed, written to its temporary file

vars == <<file, lock, pc, loaded, work>>

NoEntries == [b \in {} |-> None]
Ports == BrowserPorts \cup SshPorts

\* Taken: Docker networks by the bottle they belong to (or Foreign), grants,
\* and the ports of plugins, services and listeners together.
TakenFacts ==
    [networks : {{}} \cup {{[owner |-> o, block |-> k]} : o \in Bottles \cup {Foreign}, k \in Blocks},
     grants   : {{}} \cup {{k} : k \in Blocks},
     blocked  : {{}} \cup {{p} : p \in Ports}]

\* What up.sh asks for: bottles, each with the ssh port of its manifest.
Fleets == UNION {[d -> SshPorts \cup {None}] : d \in SUBSET Bottles}

Entries == [subnet : Blocks, browser : BrowserPorts, ssh : SshPorts \cup {None}]

TypeOK ==
    /\ DOMAIN file \subseteq Bottles /\ Range(file) \subseteq Entries
    /\ lock \in Runs \cup {None}
    /\ pc \in [Runs -> {"idle", "locked", "loaded", "computed"}]
    /\ \A r \in Runs : DOMAIN loaded[r] \subseteq Bottles /\ DOMAIN work[r] \subseteq Bottles

Init ==
    /\ file = NoEntries /\ lock = None
    /\ pc = [r \in Runs |-> "idle"]
    /\ loaded = [r \in Runs |-> NoEntries]
    /\ work = [r \in Runs |-> NoEntries]

-----------------------------------------------------------------------------
\* The checks of allocate_fleet.

PortsOf(e) == {e.browser} \cup ({e.ssh} \ {None})
ClaimedPorts(entries) == UNION {PortsOf(e) : e \in Range(entries)}

\* _Checks.subnet_clash: a Docker network other than the bottle's own, or a
\* fleet grant, lies on the block.
SubnetClash(taken, block, own) ==
    \/ \E n \in taken.networks : n.owner # own /\ n.block = block
    \/ block \in taken.grants

\* _check_pool: the pool belongs to the bottles alone.
PoolConflict(taken) == \E n \in taken.networks : n.owner = Foreign /\ n.block \in Blocks

\* Phase 1: an entry that was asked for stays where it is, if it is clean.
KeptIsClean(entries, taken, names) ==
    \A b \in names \cap DOMAIN entries :
        /\ entries[b].subnet \in Blocks /\ ~SubnetClash(taken, entries[b].subnet, b)
        /\ entries[b].browser \in BrowserPorts \ taken.blocked

\* Phase 2: the manifest's ssh port onto the entry.
SshSet(entries, bottles) ==
    [b \in DOMAIN entries |->
        IF b \in DOMAIN bottles THEN [entries[b] EXCEPT !.ssh = bottles[b]] ELSE entries[b]]

\* _first_free_subnet chooses the lowest of these.
FreeBlocks(entries, taken) ==
    {k \in Blocks : /\ \A e \in Range(entries) : e.subnet # k
                    /\ ~SubnetClash(taken, k, None)}

\* The browser ports a new entry may get: not a port of the host, of another
\* entry, or one that a manifest of this call wants for ssh.
FreePorts(entries, taken, wanted) ==
    BrowserPorts \ (taken.blocked \cup ClaimedPorts(entries) \cup wanted)

\* One new entry, or none when blocks or ports are used up.
Granted(entries, b, ssh, taken, wanted) ==
    LET blocks == FreeBlocks(entries, taken)
        ports == FreePorts(entries, taken, wanted)
    IN IF entries = None \/ blocks = {} \/ ports = {} THEN None
       ELSE [c \in DOMAIN entries \cup {b} |->
               IF c = b THEN [subnet |-> Min(blocks), browser |-> Min(ports), ssh |-> ssh]
               ELSE entries[c]]

\* Phase 3: the bottles in the order of their names; those that have an entry
\* are passed over.
Turn(current, n, entries, bottles, taken) ==
    IF n \in DOMAIN bottles \ DOMAIN entries
    THEN Granted(current, n, bottles[n], taken, Range(bottles) \ {None})
    ELSE current

AllGranted(entries, bottles, taken) ==
    LET after[n \in 0 .. NBottles] ==
            IF n = 0 THEN SshSet(entries, bottles)
            ELSE Turn(after[n - 1], n, entries, bottles, taken)
    IN after[NBottles]

\* _check_internal_ports: no port is claimed twice.
PortsClash(entries) ==
    \/ \E b \in DOMAIN entries : entries[b].browser = entries[b].ssh
    \/ \E b, c \in DOMAIN entries :
         b # c /\ PortsOf(entries[b]) \cap PortsOf(entries[c]) # {}

\* allocate_fleet: the whole result, or None when it raises.
Fleet(entries, bottles, taken) ==
    LET wanted == Range(bottles) \ {None}
        result == AllGranted(entries, bottles, taken)
    IN IF \/ PoolConflict(taken)
          \/ ~KeptIsClean(entries, taken, DOMAIN bottles)
          \/ wanted \cap taken.blocked # {}
          \/ result = None
          \/ PortsClash(result)
       THEN None ELSE result

-----------------------------------------------------------------------------
\* Mutant: the run does not wait for the lock.
Acquire_NoWait(r) ==
    /\ pc[r] = "idle"
    /\ lock' = r
    /\ pc' = [pc EXCEPT ![r] = "locked"]
    /\ UNCHANGED <<file, loaded, work>>

\* allocation_lock.  A run that times out waiting changes nothing and is idle
\* as before.
Acquire(r) ==
    /\ pc[r] = "idle" /\ lock = None
    /\ lock' = r
    /\ pc' = [pc EXCEPT ![r] = "locked"]
    /\ UNCHANGED <<file, loaded, work>>

Load(r) ==
    /\ pc[r] = "locked"
    /\ loaded' = [loaded EXCEPT ![r] = file]
    /\ pc' = [pc EXCEPT ![r] = "loaded"]
    /\ UNCHANGED <<file, lock, work>>

\* The result is written to the temporary file; when nothing changed, or the
\* call raised, the file is left alone.
Compute(r, result) ==
    /\ pc[r] = "loaded" /\ result # None /\ result # loaded[r]
    /\ work' = [work EXCEPT ![r] = result]
    /\ pc' = [pc EXCEPT ![r] = "computed"]
    /\ UNCHANGED <<file, lock, loaded>>

\* The host is looked at under the lock; what it shows is anything.
AllocateFleet(r) ==
    /\ pc[r] = "loaded"
    /\ \E bottles \in Fleets, taken \in TakenFacts :
           Compute(r, Fleet(loaded[r], bottles, taken))

Purge(r) ==
    \E b \in DOMAIN loaded[r] :
        Compute(r, Restrict(loaded[r], DOMAIN loaded[r] \ {b}))

\* os.replace.
WriteAtomic(r) ==
    /\ pc[r] = "computed"
    /\ file' = work[r]
    /\ work' = [work EXCEPT ![r] = NoEntries]
    /\ pc' = [pc EXCEPT ![r] = "locked"]
    /\ UNCHANGED <<lock, loaded>>

\* The transaction is over (after a write, an unchanged result or a refusal),
\* or the run dies: closing the file drops the lock.
Release(r) ==
    /\ pc[r] # "idle"
    /\ lock' = IF lock = r THEN None ELSE lock
    /\ pc' = [pc EXCEPT ![r] = "idle"]
    /\ loaded' = [loaded EXCEPT ![r] = NoEntries]
    /\ work' = [work EXCEPT ![r] = NoEntries]
    /\ UNCHANGED file

Next == \E r \in Runs :
    Acquire(r) \/ Load(r) \/ AllocateFleet(r) \/ Purge(r) \/ WriteAtomic(r) \/ Release(r)

Spec == Init /\ [][Next]_vars

-----------------------------------------------------------------------------
\* Concurrent and crashing runs implement the allocation a bottle relies on:
\* entries are disjoint, in blocks and in ports of every kind, never move, and
\* disappear one at a time by a purge.
Blocked == INSTANCE BottleBlocks
ImplementsBlocks == Blocked!Spec
===============================================================================
