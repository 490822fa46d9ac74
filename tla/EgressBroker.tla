----------------------------- MODULE EgressBroker -----------------------------
(***************************************************************************)
(* The host-side egress approval daemon, src/egress_broker_host.py: the    *)
(* handler threads that file requests (POST /egress), the handler threads  *)
(* that decide them (POST /decide), the stale-sweep thread, the allow      *)
(* subprocess, and restarts of the daemon.                                 *)
(*                                                                         *)
(* A step is one store transaction, or one section of the broker lock that *)
(* makes at most one.  The grain matters: the sweep writes the store       *)
(* without the broker lock, so it can run between two transactions of a    *)
(* handler that holds it.                                                  *)
(*                                                                         *)
(* Ports are left out (a key is a container and a host) and so is          *)
(* hit_count, which nothing here reads.  Zones are given by the hosts they *)
(* cover.  The deny list is the content of its file: matches() re-reads    *)
(* the file whenever it changed.                                           *)
(***************************************************************************)
EXTENDS FiniteSets, Naturals

CONSTANTS
    Containers, Hosts, Ids, None,
    IpHosts,        \* the hosts that are IP literals
    Zones,          \* the zones operators name
    Covered,        \* the hosts a zone covers: [Zones -> SUBSET Hosts]
    Global,         \* the scope that is not a container
    Filers,         \* threads serving POST /egress
    Operators,      \* threads serving POST /decide
    ScriptExits,    \* what bin/allow-egress.sh may do, see ApplyRun
    MaxTries,       \* bound: an operator allows a request this often
    MaxCrashes,     \* bound: restarts of the daemon
    MaxFaults       \* bound: store transactions that raise a database error

Keys == Containers \X Hosts

INSTANCE EgressRows

ASSUME BrokerAssumption ==
    /\ IpHosts \subseteq Hosts
    /\ Covered \in [Zones -> SUBSET Hosts]
    /\ Global \notin Containers
    /\ Filers \cap Operators = {}
    /\ None \notin Ids /\ None \notin Keys
    /\ None \notin Filers /\ None \notin Operators
    /\ ScriptExits \subseteq {"ok", "failed", "partial", "skipped", "raised"}
    /\ {MaxTries, MaxCrashes, MaxFaults} \subseteq Nat

Entries == [zone : Zones, scope : Containers \cup {Global}]

ASSUME NoneIsNoEntry == None \notin Entries

VARIABLES
    rows,       \* the store: [Ids -> Row]
    old,        \* open rows filed at least STALE_HOURS ago
    denylist,   \* the entries of denylist.json
    window,     \* _denylist_hits: the row a (container, zone) denial is logged on
    applying,   \* _applying: rows whose allow subprocess is in flight
    lock,       \* holder of the broker lock, or None
    filing,     \* the filing threads
    deciding,   \* the deciding threads
    sweep,      \* the stale-sweep thread
    pushed,     \* history: rows the notifier has been called for, and imported rows
    effects,    \* what allow scripts came to, by key: see Effect
    crashes, faults

vars == <<rows, old, denylist, window, applying, lock, filing, deciding,
          sweep, pushed, effects, crashes, faults>>

environment == <<old, pushed, effects, crashes, faults>>

Filing == [ pc  : {"idle", "hit", "insert", "notify", "push",
                   "record", "record_close", "suppress"},
            key : Keys \cup {None},
            rid : Ids \cup {None},
            answer : {"none", "pending", "deny", "error"} ]

Deciding == [ pc  : {"idle", "add", "list", "next", "ip_mark", "deny_close",
                     "persist_mark", "apply", "settle", "apply_mark",
                     "allow_close", "reply", "aborted"},
              op  : {"none", "allow", "deny", "persist"},
              entry : Entries \cup {None},
              todo : SUBSET Ids,
              rid : Ids \cup {None},
              exit0 : BOOLEAN,
              decided : SUBSET Ids ]

Sweep == [pc : {"idle", "closing"}, todo : SUBSET Ids]

FilingEnded(answer) == [pc |-> "idle", key |-> None, rid |-> None, answer |-> answer]

NotFiling == FilingEnded("none")

DecidingStarts(pc, op, entry, todo) ==
    [pc |-> pc, op |-> op, entry |-> entry, todo |-> todo,
     rid |-> None, exit0 |-> FALSE, decided |-> {}]

NotDeciding == DecidingStarts("idle", "none", None, {})

NotSweeping == [pc |-> "idle", todo |-> {}]

TypeOK ==
    /\ rows \in [Ids -> Row]
    /\ old \in SUBSET Ids
    /\ denylist \in SUBSET Entries
    /\ window \in [Containers \X Zones -> Ids \cup {None}]
    /\ applying \in SUBSET Ids
    /\ lock \in Filers \cup Operators \cup {None}
    /\ filing \in [Filers -> Filing]
    /\ deciding \in [Operators -> Deciding]
    /\ sweep \in Sweep
    /\ pushed \in SUBSET Ids
    /\ effects \in SUBSET (Keys \X {"rule", "stopped"})
    /\ crashes \in Nat
    /\ faults \in Nat

\* The requests a legacy log may have open, by id.  The daemon that wrote the log
\* coalesced on the key as this one does: the import does not look.
LegacyQueues ==
    {q \in [Ids -> Keys \cup {None}] :
        \A i, j \in Ids : i # j /\ q[i] = q[j] => q[i] = None}

\* The first start, with an empty store: _import_open_once takes over the open
\* requests of the legacy log and calls no notifier for them.  The deny list is
\* empty: nothing is swept for entries that are older than the store.
Init ==
    /\ \E q \in LegacyQueues :
          /\ rows = [id \in Ids |-> IF q[id] = None THEN Absent ELSE Opened(q[id])]
          /\ pushed = {id \in Ids : q[id] # None}
    /\ old = {}
    /\ denylist = {}
    /\ window = [w \in Containers \X Zones |-> None]
    /\ applying = {}
    /\ lock = None
    /\ filing = [t \in Filers |-> NotFiling]
    /\ deciding = [t \in Operators |-> NotDeciding]
    /\ sweep = NotSweeping
    /\ effects = {}
    /\ crashes = 0
    /\ faults = 0

-------------------------------------------------------------------------------
\* Filing: EgressBroker.file_request.

Container(k) == k[1]
Host(k) == k[2]

CoversKey(e, k) ==
    e.scope \in {Container(k), Global} /\ Host(k) \in Covered[e.zone]

\* DenyList.matches: of the entries that cover the host, one with the longest
\* zone (the longer zone covers fewer hosts).
Matches(k) == {e \in denylist : CoversKey(e, k)}

LongestZones(k) ==
    {e \in Matches(k) : \A f \in Matches(k) :
        ~ (Covered[f.zone] \subseteq Covered[e.zone] /\ Covered[f.zone] # Covered[e.zone])}

\* The coalesce window is kept per container and matched zone.
WindowKey(k, e) == <<Container(k), e.zone>>

FilerAt(t, pc) == filing[t].pc = pc

\* Mutant: the section is entered without the lock.
LockFree_Ignored == TRUE

\* self._lock can be taken.
LockFree == lock = None

FilerStep(t, pc, k, id) ==
    filing' = [filing EXCEPT ![t] = [pc |-> pc, key |-> k, rid |-> id,
                                     answer |-> "none"]]

FilerReplies(t, answer) ==
    /\ filing' = [filing EXCEPT ![t] = FilingEnded(answer)]
    /\ lock' = None

\* The lock is taken and the filing coalesced: on the row of a replayed id,
\* else on the open row of the key.  A replayed id of another key (404) and a
\* replayed id that is decided (answered with its stored body) change nothing
\* and are not steps.  A new ask consults the deny list: the first denial of a
\* (container, zone) notes the row in the window before the row is written.
FileBegin(t, k, id) ==
    /\ FilerAt(t, "idle")
    /\ LockFree
    /\ lock' = t
    /\ \/ /\ IsOpen(rows, id) /\ rows[id].key = k
          /\ FilerStep(t, "hit", k, id)
          /\ UNCHANGED window
       \/ /\ rows[id].status = "absent"
          /\ \E open \in OpenRowsOf(rows, k) : FilerStep(t, "hit", k, open)
          /\ UNCHANGED window
       \/ /\ rows[id].status = "absent"
          /\ OpenRowsOf(rows, k) = {}
          /\ Matches(k) = {}
          /\ FilerStep(t, "insert", k, id)
          /\ UNCHANGED window
       \/ /\ rows[id].status = "absent"
          /\ OpenRowsOf(rows, k) = {}
          /\ \E e \in LongestZones(k) :
                LET w == WindowKey(k, e) IN
                IF window[w] = None
                THEN /\ window' = [window EXCEPT ![w] = id]
                     /\ FilerStep(t, "record", k, id)
                ELSE /\ FilerStep(t, "suppress", k, window[w])
                     /\ UNCHANGED window
    /\ UNCHANGED <<rows, denylist, applying, deciding, sweep, environment>>

\* open_or_hit on the row found above.  If the sweep closed it meanwhile the
\* store refuses and the filing is answered 500.
FileHit(t) ==
    /\ FilerAt(t, "hit")
    /\ FilerReplies(t, IF IsOpen(rows, filing[t].rid) THEN "pending" ELSE "error")
    /\ UNCHANGED <<rows, denylist, window, applying, deciding, sweep, environment>>

\* open_or_hit for a new ask; "record" is the short-circuit's row.
FileInsert(t) ==
    /\ filing[t].pc \in {"insert", "record"}
    /\ rows' = [rows EXCEPT ![filing[t].rid] = Opened(filing[t].key)]
    /\ filing' = [filing EXCEPT ![t].pc =
                     IF @ = "insert" THEN "notify" ELSE "record_close"]
    /\ UNCHANGED <<denylist, window, applying, lock, deciding, sweep, environment>>

\* Mutant: the notifier is not called for a new request.
FileNotify_NoDispatch(t) ==
    /\ FilerAt(t, "notify")
    /\ FilerReplies(t, "pending")
    /\ UNCHANGED <<rows, denylist, window, applying, deciding, sweep, environment>>

\* mark_notified (an event only); the lock is released before the dispatch.
FileNotify(t) ==
    /\ FilerAt(t, "notify")
    /\ filing' = [filing EXCEPT ![t].pc = "push"]
    /\ lock' = None
    /\ UNCHANGED <<rows, denylist, window, applying, deciding, sweep, environment>>

\* _dispatch_notifier, outside the lock.
FilePush(t) ==
    /\ FilerAt(t, "push")
    /\ pushed' = pushed \cup {filing[t].rid}
    /\ filing' = [filing EXCEPT ![t] = FilingEnded("pending")]
    /\ UNCHANGED <<rows, old, denylist, window, applying, lock, deciding, sweep,
                   effects, crashes, faults>>

DenylistDenial(r) == Closed(r, "denied", "denylist", "deny_denylist")

\* The second transaction of the short-circuit.  The row is seconds old and
\* deciders need the lock, so nobody else has closed it.
FileRecordClose(t) ==
    /\ FilerAt(t, "record_close")
    /\ IsOpen(rows, filing[t].rid)
    /\ rows' = [rows EXCEPT ![filing[t].rid] =
                   DenylistDenial(@)]
    /\ FilerReplies(t, "deny")
    /\ UNCHANGED <<denylist, window, applying, deciding, sweep, environment>>

\* A repeat inside the window: suppressed_hit on the row the window names.  The
\* store refuses a row that is not a denylist denial, and the filing fails.
FileSuppress(t) ==
    /\ FilerAt(t, "suppress")
    /\ LET r == rows[filing[t].rid] IN
       FilerReplies(t, IF r.status = "denied" /\ r.by = "denylist"
                       THEN "deny" ELSE "error")
    /\ UNCHANGED <<rows, denylist, window, applying, deciding, sweep, environment>>

\* A database error in the filing's next transaction: the handler dies, the
\* lock is released by its `with' block, what was committed stays.
FileFault(t) ==
    /\ filing[t].pc \notin {"idle", "push"}
    /\ faults < MaxFaults
    /\ faults' = faults + 1
    /\ FilerReplies(t, "error")
    /\ UNCHANGED <<rows, old, denylist, window, applying, deciding, sweep,
                   pushed, effects, crashes>>

File(t) ==
    \/ \E k \in Keys, id \in Ids : FileBegin(t, k, id)
    \/ FileHit(t) \/ FileInsert(t) \/ FileNotify(t) \/ FilePush(t)
    \/ FileRecordClose(t) \/ FileSuppress(t) \/ FileFault(t)

-------------------------------------------------------------------------------
\* Deciding: decide_allow_for_zone, decide_deny_for_zone, persist_deny, and
\* _close_request, which all three call once per candidate row.

OperatorAt(t, pc) == deciding[t].pc = pc

OpenCovered(e) ==
    {id \in Ids : IsOpen(rows, id) /\ CoversKey(e, rows[id].key)}

\* _open_request_ids_for_zone for one container.
DecideBegin(t, op, e) ==
    /\ OperatorAt(t, "idle")
    /\ LockFree
    /\ op \in {"allow", "deny"} /\ e.scope # Global
    /\ op = "allow" => \A id \in OpenCovered(e) : rows[id].tries < MaxTries
    /\ deciding' = [deciding EXCEPT ![t] =
                        DecidingStarts("next", op, None, OpenCovered(e))]
    /\ UNCHANGED <<rows, denylist, window, applying, lock, filing, sweep, environment>>

\* The thread turns to its next candidate.
Resume(t) ==
    deciding' = [deciding EXCEPT ![t].pc = "next", ![t].rid = None, ![t].exit0 = FALSE]

ResumeDecided(t) ==
    deciding' = [deciding EXCEPT ![t].pc = "next", ![t].rid = None, ![t].exit0 = FALSE,
                                 ![t].decided = @ \cup {deciding[t].rid}]

PersistBegin(t, e) ==
    /\ OperatorAt(t, "idle")
    /\ deciding' = [deciding EXCEPT ![t] = DecidingStarts("add", "persist", e, {})]
    /\ UNCHANGED <<rows, denylist, window, applying, lock, filing, sweep, environment>>

\* DenyList.add, under the deny list's own file lock only.  When the write
\* fails nothing is swept and the request is answered 500.
PersistAdd(t) ==
    /\ OperatorAt(t, "add")
    /\ \/ /\ denylist' = denylist \cup {deciding[t].entry}
          /\ deciding' = [deciding EXCEPT ![t].pc = "list"]
       \/ /\ deciding' = [deciding EXCEPT ![t] =
                              DecidingStarts("reply", "persist", None, {})]
          /\ UNCHANGED denylist
    /\ UNCHANGED <<rows, window, applying, lock, filing, sweep, environment>>

PersistList(t) ==
    /\ OperatorAt(t, "list")
    /\ LockFree
    /\ deciding' = [deciding EXCEPT ![t].pc = "next",
                                    ![t].todo = OpenCovered(deciding[t].entry)]
    /\ UNCHANGED <<rows, denylist, window, applying, lock, filing, sweep, environment>>

\* Mutant: a row whose allow is in flight can be decided again.
Settled_DecidedOnly(id) == ~ IsOpen(rows, id)

\* What an operator cannot decide now: a row that is decided already, or whose
\* allow another thread is applying.
Settled(id) == ~ IsOpen(rows, id) \/ id \in applying

NeedsCidr(id) == Host(rows[id].key) \in IpHosts

\* The first section of _close_request for one candidate: a decided row and a
\* row whose apply is in flight are skipped; an allow of an IP literal is
\* refused; an allow of a name releases the lock and starts the script.
DecideNext(t, id) ==
    /\ OperatorAt(t, "next")
    /\ id \in deciding[t].todo
    /\ LockFree
    /\ LET d == [deciding[t] EXCEPT !.todo = @ \ {id}]
           At(pc) == deciding' = [deciding EXCEPT ![t] = [d EXCEPT !.pc = pc, !.rid = id]]
       IN
       \/ /\ Settled(id)
          /\ deciding' = [deciding EXCEPT ![t] = d]
          /\ UNCHANGED <<lock, applying>>
       \/ /\ ~ Settled(id)
          /\ d.op = "allow" /\ ~ NeedsCidr(id)
          /\ At("apply")
          /\ applying' = applying \cup {id}
          /\ UNCHANGED lock
       \/ /\ ~ Settled(id)
          /\ d.op = "allow" => NeedsCidr(id)
          /\ At(IF d.op = "allow" THEN "ip_mark" ELSE "deny_close")
          /\ lock' = t
          /\ UNCHANGED applying
    /\ UNCHANGED <<rows, denylist, window, filing, sweep, environment>>

DecideReply(t) ==
    /\ OperatorAt(t, "next")
    /\ deciding[t].todo = {}
    /\ deciding' = [deciding EXCEPT ![t].pc = "reply"]
    /\ UNCHANGED <<rows, denylist, window, applying, lock, filing, sweep, environment>>

\* The response is out and the thread is gone.
DecideEnd(t) ==
    /\ deciding[t].pc \in {"reply", "aborted"}
    /\ deciding' = [deciding EXCEPT ![t] = NotDeciding]
    /\ UNCHANGED <<rows, denylist, window, applying, lock, filing, sweep, environment>>

\* mark_apply(ip_requires_cidr): the row stays open.
IpMark(t) ==
    /\ OperatorAt(t, "ip_mark")
    /\ rows' = [rows EXCEPT ![deciding[t].rid] = ApplyMarked(@, "ip_requires_cidr")]
    /\ Resume(t)
    /\ lock' = None
    /\ UNCHANGED <<denylist, window, applying, filing, sweep, environment>>

\* Mutant: the store closes the row whatever its status.
CloseAs_Unchecked(t, status, body) ==
    LET id == deciding[t].rid IN
    /\ rows' = [rows EXCEPT ![id] = Closed(@, status, "operator", body)]
    /\ IF deciding[t].op = "persist"
       THEN deciding' = [deciding EXCEPT ![t].pc = "persist_mark"]
       ELSE ResumeDecided(t)
    /\ lock' = None

\* Mutant: the refusal leaves the lock taken.
CloseAs_KeepsLock(t, status, body) ==
    LET id == deciding[t].rid IN
    IF IsOpen(rows, id)
    THEN CloseAs_Unchecked(t, status, body)
    ELSE /\ deciding' = [deciding EXCEPT ![t].pc = "aborted"]
         /\ UNCHANGED <<rows, lock>>

\* store.close of a row read as open in the transaction before.  The store
\* refuses when the sweep was faster; no caller catches that error, so the
\* handler dies without a response and without its remaining candidates.
CloseAs(t, status, body) ==
    LET id == deciding[t].rid IN
    /\ IF IsOpen(rows, id)
       THEN /\ rows' = [rows EXCEPT ![id] = Closed(@, status, "operator", body)]
            /\ IF deciding[t].op = "persist"
               THEN deciding' = [deciding EXCEPT ![t].pc = "persist_mark"]
               ELSE ResumeDecided(t)
       ELSE /\ deciding' = [deciding EXCEPT ![t].pc = "aborted"]
            /\ UNCHANGED rows
    /\ lock' = None

DenyClose(t) ==
    /\ OperatorAt(t, "deny_close")
    /\ CloseAs(t, "denied",
               IF deciding[t].op = "persist" THEN "deny_denylist" ELSE "deny")
    /\ UNCHANGED <<denylist, window, applying, filing, sweep, environment>>

\* mark_persist, outside the broker lock.
PersistMark(t) ==
    /\ OperatorAt(t, "persist_mark")
    /\ rows' = [rows EXCEPT ![deciding[t].rid] = PersistMarked(@, "persisted")]
    /\ ResumeDecided(t)
    /\ UNCHANGED <<denylist, window, applying, lock, filing, sweep, environment>>

\* Mutant: the exit status is not looked at.
ExitsZero_Any(exit) == TRUE

ExitsZero(exit) == exit \in {"ok", "skipped"}

\* The bottle's firewall has got a rule for the key, or there was none to give it
\* to: the bottle is stopped, or runs without one.
Effect(exit, k) ==
    IF exit \in {"ok", "partial"} THEN {<<k, "rule">>}
    ELSE IF exit = "skipped" THEN {<<k, "stopped">>} ELSE {}

\* _apply_allow, outside the lock: bin/allow-egress.sh
\*   ok       installs the rule and exits 0,
\*   failed   installs nothing and exits nonzero,
\*   partial  installs the live rule, cannot save the manifest, exits nonzero,
\*   skipped  finds no running firewall, installs nothing and exits 0,
\*   raised   makes subprocess.run raise something other than OSError: the
\*            handler dies and the id stays in _applying.
ApplyRun(t) ==
    /\ OperatorAt(t, "apply")
    /\ \E exit \in ScriptExits :
        /\ effects' = effects \cup Effect(exit, rows[deciding[t].rid].key)
        /\ deciding' = [deciding EXCEPT
               ![t].pc = IF exit = "raised" THEN "aborted" ELSE "settle",
               ![t].exit0 = ExitsZero(exit)]
    /\ UNCHANGED <<rows, old, denylist, window, applying, lock, filing, sweep,
                   pushed, crashes, faults>>

\* Mutant: the id leaves _applying only when the row is still open.
ApplySettle_DiscardsOpenOnly(t) ==
    /\ OperatorAt(t, "settle")
    /\ LockFree
    /\ LET id == deciding[t].rid IN
       IF IsOpen(rows, id)
       THEN /\ applying' = applying \ {id}
            /\ deciding' = [deciding EXCEPT ![t].pc = "apply_mark"]
            /\ lock' = t
       ELSE ResumeDecided(t) /\ UNCHANGED <<applying, lock>>
    /\ UNCHANGED <<rows, denylist, window, filing, sweep, environment>>

\* The lock is taken again, the id leaves _applying and the row is read: one
\* that is no longer open ends the attempt as if it had been decided here.
ApplySettle(t) ==
    /\ OperatorAt(t, "settle")
    /\ LockFree
    /\ LET id == deciding[t].rid IN
       /\ applying' = applying \ {id}
       /\ IF IsOpen(rows, id)
          THEN /\ deciding' = [deciding EXCEPT ![t].pc = "apply_mark"]
               /\ lock' = t
          ELSE ResumeDecided(t) /\ UNCHANGED lock
    /\ UNCHANGED <<rows, denylist, window, filing, sweep, environment>>

ApplyMark(t) ==
    /\ OperatorAt(t, "apply_mark")
    /\ LET id == deciding[t].rid IN
       IF deciding[t].exit0
       THEN /\ rows' = [rows EXCEPT ![id] = ApplyMarked(@, "applied")]
            /\ deciding' = [deciding EXCEPT ![t].pc = "allow_close"]
            /\ UNCHANGED lock
       ELSE /\ rows' = [rows EXCEPT ![id] = ApplyMarked(@, "apply_failed")]
            /\ Resume(t)
            /\ lock' = None
    /\ UNCHANGED <<denylist, window, applying, filing, sweep, environment>>

AllowClose(t) ==
    /\ OperatorAt(t, "allow_close")
    /\ CloseAs(t, "allowed", "allow")
    /\ UNCHANGED <<denylist, window, applying, filing, sweep, environment>>

\* Mutant: the error leaves the lock taken.
DecideFault_KeepsLock(t) ==
    /\ deciding[t].pc \in {"ip_mark", "deny_close", "persist_mark",
                           "apply_mark", "allow_close"}
    /\ faults < MaxFaults
    /\ faults' = faults + 1
    /\ deciding' = [deciding EXCEPT ![t].pc = "aborted"]
    /\ UNCHANGED <<rows, old, denylist, window, applying, lock, filing, sweep,
                   pushed, effects, crashes>>

\* A database error in the decider's next transaction.
DecideFault(t) ==
    /\ deciding[t].pc \in {"ip_mark", "deny_close", "persist_mark",
                           "apply_mark", "allow_close"}
    /\ faults < MaxFaults
    /\ faults' = faults + 1
    /\ deciding' = [deciding EXCEPT ![t].pc = "aborted"]
    /\ lock' = IF lock = t THEN None ELSE lock
    /\ UNCHANGED <<rows, old, denylist, window, applying, filing, sweep,
                   pushed, effects, crashes>>

Decide(t) ==
    \/ \E e \in Entries :
          \/ \E op \in {"allow", "deny"} : DecideBegin(t, op, e)
          \/ PersistBegin(t, e)
    \/ PersistAdd(t) \/ PersistList(t)
    \/ \E id \in Ids : DecideNext(t, id)
    \/ DecideReply(t) \/ DecideEnd(t)
    \/ IpMark(t) \/ DenyClose(t) \/ PersistMark(t)
    \/ ApplyRun(t) \/ ApplySettle(t) \/ ApplyMark(t) \/ AllowClose(t)
    \/ DecideFault(t)

-------------------------------------------------------------------------------
\* The stale sweep: sweep_stale, run by _stale_sweep_loop.

\* Mutant: a request with a failed attempt never grows stale.
Stale_Untried == {id \in old : IsOpen(rows, id) /\ id \notin applying
                                /\ rows[id].tries = 0}

Stale == {id \in old : IsOpen(rows, id) /\ id \notin applying}

\* The ids are collected under the lock ...
SweepCollect ==
    /\ sweep.pc = "idle"
    /\ LockFree
    /\ Stale # {}
    /\ sweep' = [pc |-> "closing", todo |-> Stale]
    /\ UNCHANGED <<rows, denylist, window, applying, lock, filing, deciding,
                   environment>>

\* Mutant: the status is not checked again when the row is closed.
SweepClose_Unchecked(id) ==
    /\ sweep.pc = "closing"
    /\ id \in sweep.todo
    /\ rows' = [rows EXCEPT ![id] = Closed(@, "stale", "sweep", "deny_stale")]
    /\ sweep' = IF sweep.todo = {id} THEN NotSweeping
                ELSE [sweep EXCEPT !.todo = @ \ {id}]
    /\ UNCHANGED <<denylist, window, applying, lock, filing, deciding, environment>>

\* ... and closed one by one without it.
SweepClose(id) ==
    /\ sweep.pc = "closing"
    /\ id \in sweep.todo
    /\ rows' = IF IsOpen(rows, id)
               THEN [rows EXCEPT ![id] = Closed(@, "stale", "sweep", "deny_stale")]
               ELSE rows
    /\ sweep' = IF sweep.todo = {id} THEN NotSweeping
                ELSE [sweep EXCEPT !.todo = @ \ {id}]
    /\ UNCHANGED <<denylist, window, applying, lock, filing, deciding, environment>>

\* A database error ends this run of the sweep; the loop logs it and goes on.
SweepFault ==
    /\ sweep.pc = "closing"
    /\ faults < MaxFaults
    /\ faults' = faults + 1
    /\ sweep' = NotSweeping
    /\ UNCHANGED <<rows, old, denylist, window, applying, lock, filing, deciding,
                   pushed, effects, crashes>>

SweepStale == SweepCollect \/ (\E id \in Ids : SweepClose(id)) \/ SweepFault

-------------------------------------------------------------------------------
\* Time, other processes, restarts.

\* A request turns 24 hours old.  A filing that is still writing its row takes
\* far less than that.
Age(id) ==
    /\ IsOpen(rows, id)
    /\ id \notin old
    /\ \A t \in Filers : filing[t].rid = id => FilerAt(t, "hit")
    /\ old' = old \cup {id}
    /\ UNCHANGED <<rows, denylist, window, applying, lock, filing, deciding,
                   sweep, pushed, effects, crashes, faults>>

\* DENYLIST_SUPPRESS_SECONDS have passed since the logged denial (whether the
\* entry is pruned or found expired makes no difference).
WindowElapses(w) ==
    /\ window[w] # None
    /\ \A t \in Filers : filing[t].pc \notin {"record", "record_close", "suppress"}
    /\ window' = [window EXCEPT ![w] = None]
    /\ UNCHANGED <<rows, denylist, applying, lock, filing, deciding, sweep, environment>>

\* ./djinn undeny: another process rewrites the deny list.
Undeny(e) ==
    /\ e \in denylist
    /\ denylist' = denylist \ {e}
    /\ UNCHANGED <<rows, window, applying, lock, filing, deciding, sweep, environment>>

\* The daemon dies and is started again.  The store and the deny list are on
\* disk; the window, _applying and every thread are gone.  An allow script that
\* was running may still install its rule.
Restart ==
    /\ crashes < MaxCrashes
    /\ crashes' = crashes + 1
    /\ \E late \in SUBSET {t \in Operators : OperatorAt(t, "apply")} :
          effects' = effects \cup {<<rows[deciding[t].rid].key, "rule">> : t \in late}
    /\ window' = [w \in Containers \X Zones |-> None]
    /\ applying' = {}
    /\ lock' = None
    /\ filing' = [t \in Filers |-> NotFiling]
    /\ deciding' = [t \in Operators |-> NotDeciding]
    /\ sweep' = NotSweeping
    /\ UNCHANGED <<rows, old, denylist, pushed, faults>>

Next ==
    \/ \E t \in Filers : File(t)
    \/ \E t \in Operators : Decide(t)
    \/ SweepStale
    \/ \E id \in Ids : Age(id)
    \/ \E w \in Containers \X Zones : WindowElapses(w)
    \/ \E e \in Entries : Undeny(e)
    \/ Restart

Spec == Init /\ [][Next]_vars

\* A started handler runs on, the allow script ends, and a thread that wants the
\* broker lock, which every holder gives up, gets it sooner or later.  Nobody has
\* to file, to decide, or to lift an entry, and no request has to grow old.
FileGoesOn(t) ==
    \/ FileHit(t) \/ FileInsert(t) \/ FileNotify(t) \/ FilePush(t)
    \/ FileRecordClose(t) \/ FileSuppress(t)

DecideGoesOn(t) ==
    \/ PersistAdd(t) \/ DecideReply(t) \/ DecideEnd(t) \/ IpMark(t) \/ DenyClose(t)
    \/ PersistMark(t) \/ ApplyRun(t) \/ ApplyMark(t) \/ AllowClose(t)

DecideTakesLock(t) ==
    PersistList(t) \/ (\E id \in Ids : DecideNext(t, id)) \/ ApplySettle(t)

FairSpec ==
    /\ Spec
    /\ \A t \in Filers : WF_vars(FileGoesOn(t))
    /\ \A t \in Operators : WF_vars(DecideGoesOn(t)) /\ SF_vars(DecideTakesLock(t))
    /\ SF_vars(SweepCollect) /\ WF_vars(\E id \in Ids : SweepClose(id))

-------------------------------------------------------------------------------
\* Safety.

\* Whatever the handlers, the sweep and restarts interleave, a container never
\* has two open requests for one destination: every later filing coalesces.
OneOpenPerKey ==
    \A i, j \in Ids :
        IsOpen(rows, i) /\ IsOpen(rows, j) /\ rows[i].key = rows[j].key => i = j

\* Once a request is decided, its status, its decider and the body that polling
\* clients receive never change again, though handlers, sweep and late script
\* results still write to the row.
DecisionsKept ==
    \A id \in Ids : Decided(rows, id) =>
        /\ rows'[id].status = rows[id].status
        /\ rows'[id].by = rows[id].by
        /\ rows'[id].body = rows[id].body

DecisionsAreFinal == [][DecisionsKept]_vars

\* An id is in _applying exactly while one handler runs or settles its script:
\* no request is applied twice at once, and none is left undecidable.
InFlight(t) == deciding[t].pc \in {"apply", "settle"}

ApplyingHasOneOwner ==
    /\ \A id \in applying : \E t \in Operators : InFlight(t) /\ deciding[t].rid = id
    /\ \A t \in Operators : InFlight(t) =>
          /\ deciding[t].rid \in applying
          /\ \A u \in Operators :
                InFlight(u) /\ deciding[u].rid = deciding[t].rid => u = t

\* Two operators never decide one request against each other: while an allow
\* is in flight, nobody but the sweep closes the row.
InFlightOnlySwept ==
    [][\A id \in applying :
          rows'[id].status # rows[id].status => rows'[id].by = "sweep"]_vars

\* What the store says of an allowed request: its last attempt succeeded, no
\* failed one is left pending on it, and it is no IP literal.
AllowedIsMarked ==
    \A id \in Ids : rows[id].status = "allowed" =>
        /\ rows[id].apply = "applied"
        /\ rows[id].error = 0
        /\ Host(rows[id].key) \notin IpHosts

HadEffect(id) == \E effect \in {"rule", "stopped"} : <<rows[id].key, effect>> \in effects

\* When a client is told that its request is allowed, a script has put the rule
\* for its destination in place or has found no firewall to change: a script that
\* failed, wholly or after installing the rule, never allows, whoever else
\* tries, decides or restarts meanwhile.
AllowedWasApplied ==
    /\ AllowedIsMarked
    /\ \A id \in Ids : rows[id].status = "allowed" => HadEffect(id)

\* A repeated ask for a denylisted zone is logged on a row that is a denylist
\* denial of the same container (or is just being written as one), so the
\* suppressed hit cannot be refused by the store.  A database error between the
\* note in the window and the row leaves a note on no such row.
WindowNamesDenial ==
    faults = 0 =>
    \A w \in Containers \X Zones : window[w] # None =>
        \/ \E t \in Filers : /\ filing[t].pc \in {"record", "record_close"}
                             /\ filing[t].rid = window[w]
        \/ /\ rows[window[w]].status = "denied"
           /\ rows[window[w]].by = "denylist"
           /\ Container(rows[window[w]].key) = w[1]

\* The operator is notified of every open request that was filed here, once its
\* filing returns.  A database error or a restart between the insert and the push
\* loses the push; imported requests are not announced again.
OpenIsNotified ==
    faults = 0 /\ crashes = 0 =>
    \A id \in Ids : IsOpen(rows, id) =>
        \/ id \in pushed
        \/ \E t \in Filers : filing[t].pc # "idle" /\ filing[t].rid = id

BeingSettled(id) ==
    \E t \in Operators :
        deciding[t].pc \in {"apply_mark", "allow_close"} /\ deciding[t].rid = id

BeingDenied(id) ==
    \E t \in Filers : FilerAt(t, "record_close") /\ filing[t].rid = id

\* Why an open request that a deny list entry covers may still be open: an allow
\* of it was in flight or tried when a persist_deny passed, its filing is about
\* to deny it, or a persist_deny has still to reach it.
Excused(id, e) ==
    \/ id \in applying
    \/ rows[id].tries > 0
    \/ BeingSettled(id)
    \/ BeingDenied(id)
    \/ \E t \in Operators :
         /\ deciding[t].op = "persist" /\ deciding[t].entry = e
         /\ \/ deciding[t].pc = "list"
            \/ deciding[t].pc # "aborted" /\ id \in deciding[t].todo
            \/ deciding[t].pc = "deny_close" /\ deciding[t].rid = id

\* A persistent deny leaves no covered request behind.  This is so until a
\* request grows old, the database fails or the daemon is restarted: each of
\* them can make the handler give up halfway.
CoveredIsSwept ==
    old = {} /\ faults = 0 /\ crashes = 0 =>
    \A id \in Ids : IsOpen(rows, id) =>
        \A e \in Matches(rows[id].key) : Excused(id, e)

\* As long as no request grows old and the database works, no handler dies: the
\* row a filing found open still is when the hit is counted, the row a repeated
\* denial is logged on still takes it, and the row a decider found open is open
\* when it is closed, also after an allow script of any length.
HandlersSucceed ==
    old = {} /\ faults = 0 =>
        /\ \A t \in Filers : filing[t].answer # "error"
        /\ \A t \in Operators : deciding[t].pc # "aborted"

\* What a client that polls a request is told.
Told(r) == IF r.status \notin CloseStatuses THEN r.status
           ELSE IF r.body = "allow" THEN "allow" ELSE "deny"

Ledger == INSTANCE EgressLedger WITH
    asked  <- [id \in Ids |-> rows[id].key],
    answer <- [id \in Ids |-> Told(rows[id])]

\* The daemon implements the ledger: at most one open question per destination
\* and at most one answer per question, whatever its threads do.
ImplementsLedger == Ledger!Spec

-------------------------------------------------------------------------------
\* The inductive invariant behind the safety properties.

\* The lock is held exactly by the thread that is between two transactions of
\* a locked section.
FilerHoldsLock == {"hit", "insert", "notify", "record", "record_close", "suppress"}
OperatorHoldsLock == {"ip_mark", "deny_close", "apply_mark", "allow_close"}

LockIsHeldByOne ==
    /\ \A t \in Filers : filing[t].pc \in FilerHoldsLock <=> lock = t
    /\ \A t \in Operators : deciding[t].pc \in OperatorHoldsLock <=> lock = t

\* What a thread has read under the lock still holds when it writes, but for
\* the sweep.
FilerKnows(t) ==
    LET f == filing[t] IN
    /\ f.pc # "idle" => f.key \in Keys /\ f.rid \in Ids
    /\ f.pc \in {"insert", "record"} =>
          rows[f.rid].status = "absent" /\ OpenRowsOf(rows, f.key) = {}

OperatorKnows(t) ==
    LET d == deciding[t] IN
    /\ d.pc \in {"add", "list"} => d.entry \in Entries
    /\ d.pc \in OperatorHoldsLock => rows[d.rid].status \in {"open", "stale"}
    /\ d.pc \in OperatorHoldsLock \cup {"apply", "settle", "persist_mark"} =>
          d.rid \in Ids /\ rows[d.rid].status # "absent"
    /\ d.pc \in {"apply", "settle", "apply_mark", "allow_close"} => ~ NeedsCidr(d.rid)
    /\ d.pc = "allow_close" =>
          rows[d.rid].apply = "applied" /\ rows[d.rid].error = 0

RowsAreKeyed ==
    \A id \in Ids : rows[id].status # "absent" => rows[id].key \in Keys

IInv ==
    /\ TypeOK
    /\ LockIsHeldByOne
    /\ \A t \in Filers : FilerKnows(t)
    /\ \A t \in Operators : OperatorKnows(t)
    /\ RowsAreKeyed
    /\ OneOpenPerKey
    /\ AllowedIsMarked

-------------------------------------------------------------------------------
\* Liveness, under FairSpec.

\* An allow in flight is always resolved: its id leaves _applying.
InFlightIsResolved ==
    \A id \in Ids : id \in applying ~> id \notin applying

\* A decision request always ends, with its candidates worked off.
OperatorIsAnswered ==
    \A t \in Operators : deciding[t].pc # "idle" ~> deciding[t].pc = "idle"

\* A request nobody answers for 24 hours is closed.
StaleIsClosed ==
    \A id \in Ids : id \in old /\ IsOpen(rows, id) ~> ~ IsOpen(rows, id)

-------------------------------------------------------------------------------
\* What the repository says of the daemon, and the code does not keep.

\* persist_deny closes "every open request it now covers"; one it skips is left
\* to its allow in flight, which "resolves it".
PersistedIsClosed ==
    \A t \in Operators :
        /\ deciding[t].pc = "reply" /\ deciding[t].entry \in denylist
        /\ \A u \in Operators \ {t} : deciding[u].op # "persist"
        =>
            \A id \in OpenCovered(deciding[t].entry) :
                id \in applying \/ BeingSettled(id) \/ BeingDenied(id)
===============================================================================
