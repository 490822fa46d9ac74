------------------------------ MODULE DenyListFile ------------------------------
(***************************************************************************)
(* The deny list of src/egress_denylist.py: denylist.json, shared by the   *)
(* threads of the egress daemon and by command-line processes, and the     *)
(* daemon's cache of it.                                                   *)
(*                                                                         *)
(* Two locks are at work.  `self._lock' is a lock of the threads of one    *)
(* process and guards the cache; the flock on denylist.lock is a lock of   *)
(* processes and guards the read-modify-write of the file.  add takes the  *)
(* first, then waits for the second.  Readers take the first only, so a    *)
(* tool may replace the file between their stat and their read.            *)
(*                                                                         *)
(* A tool has an instance of its own and one thread, so only the daemon's  *)
(* cache is kept.  Nobody changes the file while the flock is held (but    *)
(* for editors, which are kept out of that window here: they know nothing  *)
(* of the lock and lose), so under it a stat and a read are one step.      *)
(***************************************************************************)
EXTENDS FiniteSets, Naturals

CONSTANTS
    Threads,    \* daemon threads
    Tools,      \* processes running ./djinn deny or ./djinn undeny
    Entries,
    None,
    MaxClock    \* bound: changes of the file

ASSUME DenyListAssumption ==
    /\ Threads \cap Tools = {}
    /\ None \notin Threads \cup Tools \cup Entries
    /\ MaxClock \in Nat

Procs == Threads \cup Tools

\* A file content that does not parse; like every other, a set.
Corrupt == {None}

Texts == (SUBSET Entries) \cup {Corrupt}

VARIABLES
    file,       \* denylist.json: its text and its mtime, 0 when it is missing
    clock,      \* the mtime given last
    cache,      \* the daemon's _entries and _mtime
    threadLock, \* holder of the daemon's self._lock
    flock,      \* holder of the lock on denylist.lock
    calls,      \* what each thread and tool is doing
    seen        \* history: the texts of the file since a thread's call or write

vars == <<file, clock, cache, threadLock, flock, calls, seen>>

Missing == [text |-> {}, mtime |-> 0]

Call == [ pc : {"idle", "stat", "read", "scan", "flock", "edit", "write",
                "load", "loaded"},
          op : {"none", "match", "load", "add", "remove"},
          entry : Entries \cup {None},
          got : Texts ]

NoCall == [pc |-> "idle", op |-> "none", entry |-> None, got |-> {}]

TypeOK ==
    /\ file \in [text : Texts, mtime : Nat]
    /\ clock \in Nat
    /\ cache \in [entries : SUBSET Entries, mtime : Nat]
    /\ threadLock \in Threads \cup {None}
    /\ flock \in Procs \cup {None}
    /\ calls \in [Procs -> Call]
    /\ seen \in [Threads -> SUBSET Texts]

\* An unreadable file denies nothing.
View(text) == IF text = Corrupt THEN {} ELSE text

Cached(f) == [entries |-> View(f.text), mtime |-> f.mtime]

Init ==
    /\ file = Missing
    /\ clock = 0
    /\ cache = Cached(Missing)
    /\ threadLock = None
    /\ flock = None
    /\ calls = [p \in Procs |-> NoCall]
    /\ seen = [t \in Threads |-> {}]

At(p, pc) == calls[p].pc = pc

Goes(p, pc) == calls' = [calls EXCEPT ![p].pc = pc]

\* The bound is reserved when a call begins, so that no call stops halfway.
Room == clock + Cardinality({p \in Procs : calls[p].pc \in {"flock", "edit", "write"}})
            < MaxClock

\* The file has a new text, with a new mtime: writes are further apart than the
\* file system's timestamps.
FileBecomes(text) ==
    /\ clock' = clock + 1
    /\ file' = [text |-> text, mtime |-> clock']

\* Mutant: the cache is used without its lock.
ThreadLockFree_Ignored == TRUE

ThreadLockFree == threadLock = None

-------------------------------------------------------------------------------
\* Reading: matches, and the forced load that ends persist_deny.

MatchBegin(t) ==
    /\ At(t, "idle")
    /\ ThreadLockFree
    /\ threadLock' = t
    /\ calls' = [calls EXCEPT ![t] = [NoCall EXCEPT !.pc = "stat", !.op = "match"]]
    /\ seen' = [seen EXCEPT ![t] = {file.text}]
    /\ UNCHANGED <<file, clock, cache, flock>>

\* _reload: the mtime is taken over before the file is read; a file that is
\* missing is not read.
ReloadStat(t) ==
    /\ At(t, "stat")
    /\ \/ /\ calls[t].op = "match" /\ cache.mtime = file.mtime
          /\ Goes(t, "scan")
          /\ UNCHANGED cache
       \/ /\ calls[t].op = "load" \/ cache.mtime # file.mtime
          /\ IF file.mtime = 0
             THEN cache' = Cached(Missing) /\ Goes(t, "scan")
             ELSE cache' = [cache EXCEPT !.mtime = file.mtime] /\ Goes(t, "read")
    /\ UNCHANGED <<file, clock, threadLock, flock, seen>>

ReloadRead(t) ==
    /\ At(t, "read")
    /\ cache' = [cache EXCEPT !.entries = View(file.text)]
    /\ Goes(t, "scan")
    /\ UNCHANGED <<file, clock, threadLock, flock, seen>>

\* The entries are searched and the lock is given up.
Answer(t) ==
    /\ At(t, "scan")
    /\ Goes(t, IF calls[t].op = "load" THEN "loaded" ELSE "idle")
    /\ threadLock' = None
    /\ UNCHANGED <<file, clock, cache, flock, seen>>

\* persist_deny: the entry is written, the cache is loaded again.
LoadBegin(t) ==
    /\ At(t, "load")
    /\ ThreadLockFree
    /\ threadLock' = t
    /\ calls' = [calls EXCEPT ![t].pc = "stat", ![t].op = "load"]
    /\ UNCHANGED <<file, clock, cache, flock, seen>>

\* The sweep of persist_deny is over (EgressBroker has its steps).
PersistEnd(t) ==
    /\ At(t, "loaded")
    /\ calls' = [calls EXCEPT ![t] = NoCall]
    /\ UNCHANGED <<file, clock, cache, threadLock, flock, seen>>

-------------------------------------------------------------------------------
\* Editing: add by the daemon; add and remove by the tools.

Editing(op, e) == [NoCall EXCEPT !.pc = "flock", !.op = op, !.entry = e]

AddBegin(t, e) ==
    /\ At(t, "idle")
    /\ ThreadLockFree
    /\ Room
    /\ threadLock' = t
    /\ calls' = [calls EXCEPT ![t] = Editing("add", e)]
    /\ UNCHANGED <<file, clock, cache, flock, seen>>

\* The tool that denies asks the daemon first and writes the file itself when
\* the daemon does not answer in time, so both may be at it.
ToolBegin(p, op, e) ==
    /\ At(p, "idle")
    /\ Room
    /\ calls' = [calls EXCEPT ![p] = Editing(op, e)]
    /\ UNCHANGED <<file, clock, cache, threadLock, flock, seen>>

\* Mutant: the flock excludes nobody.
FlockFree_Ignored == TRUE

FlockFree == flock = None

\* _file_lock, waited for with self._lock held.
TakeFlock(p) ==
    /\ At(p, "flock")
    /\ FlockFree
    /\ flock' = p
    /\ Goes(p, "edit")
    /\ UNCHANGED <<file, clock, cache, threadLock, seen>>

\* Mutant: an edit that ends early keeps the flock.
EditEnds_KeepsFlock(p, pc) ==
    /\ threadLock' = IF p \in Threads THEN None ELSE threadLock
    /\ Goes(p, pc)
    /\ UNCHANGED flock

\* Both locks are given up, in whichever way the edit ends.
EditEnds(p, pc) ==
    /\ flock' = None
    /\ threadLock' = IF p \in Threads THEN None ELSE threadLock
    /\ Goes(p, pc)

Refused(p) ==
    \/ file.text = Corrupt
    \/ calls[p].op = "remove" /\ calls[p].entry \notin file.text

\* The forced reload of add and remove.  An unreadable file is refused, and
\* removing an entry that is not there writes nothing.
EditRead(p) ==
    /\ At(p, "edit")
    /\ cache' = IF p \in Threads THEN Cached(file) ELSE cache
    /\ IF Refused(p)
       THEN EditEnds(p, "idle")
       ELSE /\ calls' = [calls EXCEPT ![p].pc = "write", ![p].got = file.text]
            /\ UNCHANGED <<threadLock, flock>>
    /\ UNCHANGED <<file, clock, seen>>

Edited(p) ==
    IF calls[p].op = "add" THEN calls[p].got \cup {calls[p].entry}
                           ELSE calls[p].got \ {calls[p].entry}

\* _persist: os.replace, then the cache; or an OSError, and no change.
EditWrite(p) ==
    /\ At(p, "write")
    /\ \/ /\ FileBecomes(Edited(p))
          /\ cache' = IF p \in Threads THEN Cached(file') ELSE cache
          /\ seen' = [t \in Threads |-> IF t = p THEN {file'.text}
                                                 ELSE seen[t] \cup {file'.text}]
          /\ EditEnds(p, IF p \in Threads THEN "load" ELSE "idle")
       \/ /\ EditEnds(p, "idle")
          /\ UNCHANGED <<file, clock, cache, seen>>

-------------------------------------------------------------------------------
\* Editors, and processes that die.

SeenByAll(text) == seen' = [t \in Threads |-> seen[t] \cup {text}]

HandBreak ==
    /\ flock = None
    /\ Room
    /\ FileBecomes(Corrupt)
    /\ SeenByAll(Corrupt)
    /\ UNCHANGED <<cache, threadLock, flock, calls>>

MoveAside ==
    /\ flock = None
    /\ file.text = Corrupt
    /\ file' = Missing
    /\ SeenByAll({})
    /\ UNCHANGED <<clock, cache, threadLock, flock, calls>>

\* The kernel gives up the flock of a process that dies.
ToolDies(p) ==
    /\ ~ At(p, "idle")
    /\ calls' = [calls EXCEPT ![p] = NoCall]
    /\ flock' = IF flock = p THEN None ELSE flock
    /\ UNCHANGED <<file, clock, cache, threadLock, seen>>

\* The daemon dies and is started again; the constructor reads the file before
\* there are threads to use what it read.
Restart ==
    /\ calls' = [p \in Procs |-> IF p \in Threads THEN NoCall ELSE calls[p]]
    /\ flock' = IF flock \in Threads THEN None ELSE flock
    /\ threadLock' = None
    /\ cache' = Cached(file)
    /\ UNCHANGED <<file, clock, seen>>

\* What a thread or tool does once its call has begun and no lock is in its way.
GoesOn(p) == EditRead(p) \/ EditWrite(p)

Reads(t) == ReloadStat(t) \/ ReloadRead(t) \/ Answer(t) \/ PersistEnd(t)

Next ==
    \/ \E t \in Threads :
        \/ MatchBegin(t) \/ LoadBegin(t) \/ Reads(t)
        \/ \E e \in Entries : AddBegin(t, e)
    \/ \E p \in Tools :
        \/ \E op \in {"add", "remove"}, e \in Entries : ToolBegin(p, op, e)
        \/ ToolDies(p)
    \/ \E p \in Procs : TakeFlock(p) \/ GoesOn(p)
    \/ HandBreak \/ MoveAside \/ Restart

Spec == Init /\ [][Next]_vars

\* Threads and tools that are not waiting for a lock go on (or die), and who
\* waits for a lock that is given up again and again gets it sooner or later.
FairSpec ==
    /\ Spec
    /\ \A t \in Threads : WF_vars(Reads(t)) /\ SF_vars(LoadBegin(t))
    /\ \A p \in Procs : WF_vars(GoesOn(p)) /\ SF_vars(TakeFlock(p))

-------------------------------------------------------------------------------
\* What a thread searches (or, after persist_deny, what every thread finds in
\* the cache) is the deny list as the file had it at some moment since the call
\* took the lock, or since the thread's own write: an edit by any process takes
\* effect in the daemon, and an entry just persisted is enforced.
MatchIsCurrent ==
    \A t \in Threads : calls[t].pc \in {"scan", "loaded"} =>
        cache.entries \in {View(text) : text \in seen[t]}

Set == INSTANCE DenySet WITH text <- file.text

\* No edit is lost, whoever edits at the same time and whoever dies halfway:
\* the file goes through additions and removals of one entry each, and nobody
\* writes over an unreadable file.
ImplementsDenySet == Set!Spec

\* Neither lock is kept: every call of every thread and tool comes to an end.
CallsEnd == \A p \in Procs : calls[p].pc # "idle" ~> calls[p].pc = "idle"
===============================================================================
