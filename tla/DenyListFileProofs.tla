-------------------------- MODULE DenyListFileProofs --------------------------
(***************************************************************************)
(* Proofs about DenyListFile, for every set of threads, tools and entries. *)
(*                                                                         *)
(* What an edit read under the flock is still in the file when it writes,  *)
(* so it implements a step of DenySet.  For what a thread finds in the     *)
(* cache, the invariant relates cache and file: with equal mtimes they     *)
(* agree unless a reload is between its stat and its read, and a file that *)
(* is replaced there only makes the cache newer than its mtime says.       *)
(***************************************************************************)
EXTENDS DenyListFile, TLAPS

\* The flock is held from the read of an edit to its write.
FlockHeld == \A p \in Procs : calls[p].pc \in {"edit", "write"} => flock = p

ThreadLockHeld ==
    \A t \in Threads :
        calls[t].pc \in {"stat", "read", "scan", "flock", "edit", "write"} => threadLock = t

\* An editor has an entry, and what it has read is in the file.
EditOk(p) ==
    /\ calls[p].pc \in {"flock", "edit", "write"} =>
         calls[p].op \in {"add", "remove"} /\ calls[p].entry \in Entries
    /\ calls[p].pc = "write" => calls[p].got = file.text /\ file.text # Corrupt

Mtimes ==
    /\ file.mtime <= clock /\ cache.mtime <= clock
    /\ file.mtime = 0 => file.text = {}
    /\ cache.mtime = 0 => cache.entries = {}

Reloading == \E t \in Threads : calls[t].pc = "read"

CacheOk ==
    /\ \A t \in Threads : calls[t].pc = "read" => cache.mtime # 0
    /\ cache.mtime = file.mtime /\ ~Reloading => cache.entries = View(file.text)

Follows(t) ==
    /\ calls[t].pc \in {"stat", "read", "scan", "load", "loaded"} => file.text \in seen[t]
    /\ calls[t].pc \in {"scan", "loaded"} =>
         cache.entries \in {View(text) : text \in seen[t]}

IInv ==
    /\ TypeOK /\ FlockHeld /\ ThreadLockHeld /\ Mtimes /\ CacheOk
    /\ \A p \in Procs : EditOk(p)
    /\ \A t \in Threads : Follows(t)

-------------------------------------------------------------------------------
LEMMA ViewIsSet == ASSUME NEW text \in Texts PROVE View(text) \in SUBSET Entries
  BY DEF View, Texts, Corrupt

LEMMA CachedType ==
  ASSUME NEW f \in [text : Texts, mtime : Nat]
  PROVE  /\ Cached(f) \in [entries : SUBSET Entries, mtime : Nat]
         /\ Cached(f).entries = View(f.text) /\ Cached(f).mtime = f.mtime
  <1>1. View(f.text) \in SUBSET Entries
    BY ViewIsSet
  <1> QED
    BY <1>1 DEF Cached

LEMMA MissingIs ==
  /\ Missing \in [text : Texts, mtime : Nat] /\ Missing.text = {} /\ Missing.mtime = 0
  /\ View({}) = {} /\ {} # Corrupt
  BY DEF Missing, Texts, View, Corrupt

LEMMA ProcsAre ==
  /\ Threads \subseteq Procs /\ Tools \subseteq Procs /\ None \notin Procs
  /\ \A p \in Procs : p \in Threads <=> p \notin Tools
  BY DenyListAssumption DEF Procs

LEMMA NoCallIs ==
  NoCall \in Call /\ NoCall.pc = "idle"
  BY DEF NoCall, Call, Texts

\* A process goes elsewhere.
LEMMA GoesIs ==
  ASSUME TypeOK, NEW p \in Procs,
         NEW where \in {"idle", "stat", "read", "scan", "flock", "edit", "write", "load", "loaded"},
         Goes(p, where)
  PROVE  /\ calls' \in [Procs -> Call]
         /\ calls'[p].pc = where /\ calls'[p].op = calls[p].op
         /\ calls'[p].entry = calls[p].entry /\ calls'[p].got = calls[p].got
         /\ \A q \in Procs \ {p} : calls'[q] = calls[q]
  BY DEF TypeOK, Goes, Call

LEMMA CallIs ==
  ASSUME TypeOK, NEW p \in Procs, NEW c \in Call, calls' = [calls EXCEPT ![p] = c]
  PROVE  /\ calls' \in [Procs -> Call] /\ calls'[p] = c
         /\ \A q \in Procs \ {p} : calls'[q] = calls[q]
  BY DEF TypeOK

LEMMA InitInv == Init => IInv
  <1> SUFFICES ASSUME Init PROVE IInv
    OBVIOUS
  <1>1. \A p \in Procs : calls[p] = NoCall
    BY DEF Init
  <1>2. TypeOK
    BY MissingIs, NoCallIs, CachedType DEF Init, TypeOK
  <1>3. file = Missing /\ cache = Cached(Missing) /\ clock = 0
    BY DEF Init
  <1>4. Mtimes /\ CacheOk
    BY <1>1, <1>3, MissingIs, CachedType, NoCallIs, ProcsAre DEF Mtimes, CacheOk
  <1>5. FlockHeld /\ ThreadLockHeld /\ \A p \in Procs : EditOk(p)
    BY <1>1, NoCallIs, ProcsAre DEF FlockHeld, ThreadLockHeld, EditOk
  <1>6. \A t \in Threads : Follows(t)
    BY <1>1, NoCallIs, ProcsAre DEF Follows
  <1> QED
    BY <1>2, <1>4, <1>5, <1>6 DEF IInv

-------------------------------------------------------------------------------
\* A step by one process that leaves file, cache and history alone: what it
\* has to show is about itself.
LEMMA OneMoves ==
  ASSUME IInv, NEW p \in Procs, UNCHANGED <<file, clock, cache, seen>>,
         calls' \in [Procs -> Call], \A q \in Procs \ {p} : calls'[q] = calls[q],
         threadLock' \in Threads \cup {None}, flock' \in Procs \cup {None},
         \A q \in Procs \ {p} : flock = q => flock' = q,
         \A t \in Threads \ {p} : threadLock = t => threadLock' = t,
         calls'[p].pc \in {"edit", "write"} => flock' = p,
         p \in Threads =>
           /\ calls'[p].pc \in {"stat", "read", "scan", "flock", "edit", "write"} => threadLock' = p
           /\ calls'[p].pc # "read" /\ calls[p].pc # "read"
           /\ Follows(p)',
         EditOk(p)'
  PROVE  IInv'
  <1>1. TypeOK'
    BY DEF IInv, TypeOK
  <1>2. FlockHeld' /\ ThreadLockHeld'
    BY ProcsAre DEF IInv, FlockHeld, ThreadLockHeld
  <1>3. Mtimes'
    BY DEF IInv, Mtimes
  <1>4. CacheOk'
    <2>1. \A t \in Threads : calls'[t].pc = "read" <=> calls[t].pc = "read"
      BY ProcsAre
    <2> QED
      BY <2>1 DEF IInv, CacheOk, Reloading
  <1>5. \A q \in Procs : EditOk(q)'
    BY DEF IInv, EditOk
  <1>6. \A t \in Threads : Follows(t)'
    BY ProcsAre DEF IInv, Follows
  <1> QED
    BY <1>1, <1>2, <1>3, <1>4, <1>5, <1>6 DEF IInv

\* The steps that take or give a lock and change nothing else.
LEMMA LoadBeginInv ==
  ASSUME IInv, NEW t \in Threads, LoadBegin(t)
  PROVE  IInv'
  <1>1. t \in Procs
    BY ProcsAre
  <1>2. /\ calls[t] \in Call /\ calls[t].pc = "load" /\ threadLock = None /\ threadLock' = t
        /\ UNCHANGED <<file, clock, cache, flock, seen>>
    BY <1>1 DEF LoadBegin, At, ThreadLockFree, IInv, TypeOK
  <1>3. /\ calls' \in [Procs -> Call] /\ \A q \in Procs \ {t} : calls'[q] = calls[q]
        /\ calls'[t].pc = "stat"
    BY <1>1, <1>2 DEF LoadBegin, IInv, TypeOK, Call
  <1>4. Follows(t)' /\ EditOk(t)'
    BY <1>2, <1>3 DEF IInv, Follows, EditOk
  <1>5. threadLock' \in Threads \cup {None} /\ flock' \in Procs \cup {None}
    BY <1>2 DEF IInv, TypeOK
  <1>6. \A u \in Threads \ {t} : threadLock = u => threadLock' = u
    BY <1>2, DenyListAssumption
  <1> QED
    BY <1>1, <1>2, <1>3, <1>4, <1>5, <1>6, OneMoves

LEMMA AddBeginInv ==
  ASSUME IInv, NEW t \in Threads, NEW e \in Entries, AddBegin(t, e)
  PROVE  IInv'
  <1>1. t \in Procs
    BY ProcsAre
  <1>2. /\ calls[t].pc = "idle" /\ threadLock = None /\ threadLock' = t
        /\ calls' = [calls EXCEPT ![t] = Editing("add", e)]
        /\ UNCHANGED <<file, clock, cache, flock, seen>>
    BY DEF AddBegin, At, ThreadLockFree
  <1>3. /\ Editing("add", e) \in Call /\ Editing("add", e).pc = "flock"
        /\ Editing("add", e).op = "add" /\ Editing("add", e).entry = e
    BY DEF Editing, NoCall, Call, Texts
  <1>4. /\ calls' \in [Procs -> Call] /\ \A q \in Procs \ {t} : calls'[q] = calls[q]
        /\ calls'[t] = Editing("add", e)
    BY <1>1, <1>2, <1>3, CallIs DEF IInv
  <1>5. Follows(t)' /\ EditOk(t)'
    BY <1>2, <1>3, <1>4 DEF Follows, EditOk
  <1>6. threadLock' \in Threads \cup {None} /\ flock' \in Procs \cup {None}
    BY <1>2 DEF IInv, TypeOK
  <1>7. \A u \in Threads \ {t} : threadLock = u => threadLock' = u
    BY <1>2, DenyListAssumption
  <1> QED
    BY <1>1, <1>2, <1>3, <1>4, <1>5, <1>6, <1>7, OneMoves

LEMMA ToolBeginInv ==
  ASSUME IInv, NEW p \in Tools, NEW op \in {"add", "remove"}, NEW e \in Entries, ToolBegin(p, op, e)
  PROVE  IInv'
  <1>1. p \in Procs /\ p \notin Threads
    BY ProcsAre
  <1>2. /\ calls' = [calls EXCEPT ![p] = Editing(op, e)]
        /\ UNCHANGED <<file, clock, cache, threadLock, flock, seen>>
    BY DEF ToolBegin
  <1>3. /\ Editing(op, e) \in Call /\ Editing(op, e).pc = "flock"
        /\ Editing(op, e).op = op /\ Editing(op, e).entry = e
    BY DEF Editing, NoCall, Call, Texts
  <1>4. /\ calls' \in [Procs -> Call] /\ \A q \in Procs \ {p} : calls'[q] = calls[q]
        /\ calls'[p] = Editing(op, e)
    BY <1>1, <1>2, <1>3, CallIs DEF IInv
  <1>5. EditOk(p)'
    BY <1>3, <1>4 DEF EditOk
  <1>6. threadLock' \in Threads \cup {None} /\ flock' \in Procs \cup {None}
    BY <1>2 DEF IInv, TypeOK
  <1> QED
    BY <1>1, <1>2, <1>3, <1>4, <1>5, <1>6, OneMoves

LEMMA TakeFlockInv ==
  ASSUME IInv, NEW p \in Procs, TakeFlock(p)
  PROVE  IInv'
  <1>1. /\ calls[p].pc = "flock" /\ flock = None /\ flock' = p /\ Goes(p, "edit")
        /\ UNCHANGED <<file, clock, cache, threadLock, seen>>
    BY DEF TakeFlock, At, FlockFree
  <1>2. /\ calls' \in [Procs -> Call] /\ \A q \in Procs \ {p} : calls'[q] = calls[q]
        /\ calls'[p].pc = "edit" /\ calls'[p].op = calls[p].op /\ calls'[p].entry = calls[p].entry
    BY <1>1, GoesIs DEF IInv
  <1>3. Follows(p)' /\ EditOk(p)'
    BY <1>1, <1>2 DEF IInv, Follows, EditOk
  <1>4. threadLock' \in Threads \cup {None} /\ flock' \in Procs \cup {None}
    BY <1>1 DEF IInv, TypeOK
  <1>5. \A q \in Procs \ {p} : flock = q => flock' = q
    BY <1>1, ProcsAre
  <1>6. p \in Threads => threadLock' = p
    BY <1>1 DEF IInv, ThreadLockHeld
  <1> QED
    BY <1>1, <1>2, <1>3, <1>4, <1>5, <1>6, OneMoves

\* What was searched was current; the call is over.
LEMMA AnswerInv ==
  ASSUME IInv, NEW t \in Threads, Answer(t) \/ PersistEnd(t)
  PROVE  IInv'
  <1>1. t \in Procs
    BY ProcsAre
  <1>2. CASE Answer(t)
    <2>1. /\ calls[t].pc = "scan" /\ threadLock' = None /\ UNCHANGED <<file, clock, cache, flock, seen>>
          /\ Goes(t, IF calls[t].op = "load" THEN "loaded" ELSE "idle")
      BY <1>2 DEF Answer, At
    <2>2. /\ calls' \in [Procs -> Call] /\ \A q \in Procs \ {t} : calls'[q] = calls[q]
          /\ calls'[t].pc \in {"loaded", "idle"}
      BY <1>1, <2>1, GoesIs DEF IInv
    <2>3. threadLock = t
      BY <2>1 DEF IInv, ThreadLockHeld
    <2>4. Follows(t)' /\ EditOk(t)'
      BY <2>1, <2>2 DEF IInv, Follows, EditOk
    <2>5. threadLock' \in Threads \cup {None} /\ flock' \in Procs \cup {None}
      BY <2>1 DEF IInv, TypeOK
    <2> QED
      BY <1>1, <2>1, <2>2, <2>3, <2>4, <2>5, OneMoves
  <1>3. CASE PersistEnd(t)
    <2>1. /\ calls[t].pc = "loaded" /\ calls' = [calls EXCEPT ![t] = NoCall]
          /\ UNCHANGED <<file, clock, cache, threadLock, flock, seen>>
      BY <1>3 DEF PersistEnd, At
    <2>2. /\ calls' \in [Procs -> Call] /\ \A q \in Procs \ {t} : calls'[q] = calls[q]
          /\ calls'[t].pc = "idle"
      BY <1>1, <2>1, CallIs, NoCallIs DEF IInv
    <2>3. Follows(t)' /\ EditOk(t)'
      BY <2>2 DEF Follows, EditOk
    <2>4. threadLock' \in Threads \cup {None} /\ flock' \in Procs \cup {None}
      BY <2>1 DEF IInv, TypeOK
    <2> QED
      BY <1>1, <2>1, <2>2, <2>3, <2>4, OneMoves
  <1> QED
    BY <1>2, <1>3

LEMMA ToolDiesInv ==
  ASSUME IInv, NEW p \in Tools, ToolDies(p)
  PROVE  IInv'
  <1>1. p \in Procs /\ p \notin Threads
    BY ProcsAre
  <1>2. /\ calls' = [calls EXCEPT ![p] = NoCall] /\ flock' = IF flock = p THEN None ELSE flock
        /\ UNCHANGED <<file, clock, cache, threadLock, seen>>
    BY DEF ToolDies
  <1>3. /\ calls' \in [Procs -> Call] /\ \A q \in Procs \ {p} : calls'[q] = calls[q]
        /\ calls'[p].pc = "idle"
    BY <1>1, <1>2, CallIs, NoCallIs DEF IInv
  <1>4. EditOk(p)'
    BY <1>3 DEF EditOk
  <1>5. threadLock' \in Threads \cup {None} /\ flock' \in Procs \cup {None}
    BY <1>2 DEF IInv, TypeOK
  <1> QED
    BY <1>1, <1>2, <1>3, <1>4, <1>5, OneMoves

-------------------------------------------------------------------------------
\* Reading.

LEMMA MatchBeginInv ==
  ASSUME IInv, NEW t \in Threads, MatchBegin(t)
  PROVE  IInv'
  <1> DEFINE c == [NoCall EXCEPT !.pc = "stat", !.op = "match"]
  <1>1. t \in Procs
    BY ProcsAre
  <1>2. /\ calls[t].pc = "idle" /\ threadLock = None /\ threadLock' = t
        /\ calls' = [calls EXCEPT ![t] = c] /\ seen' = [seen EXCEPT ![t] = {file.text}]
        /\ UNCHANGED <<file, clock, cache, flock>>
    BY DEF MatchBegin, At, ThreadLockFree
  <1>3. c \in Call /\ c.pc = "stat"
    BY DEF NoCall, Call, Texts
  <1> HIDE DEF c
  <1>4. /\ calls' \in [Procs -> Call] /\ \A q \in Procs \ {t} : calls'[q] = calls[q]
        /\ calls'[t] = c
    BY <1>1, <1>2, <1>3, CallIs DEF IInv
  <1>5. /\ seen'[t] = {file.text} /\ \A u \in Threads \ {t} : seen'[u] = seen[u]
        /\ seen' \in [Threads -> SUBSET Texts]
    BY <1>2 DEF IInv, TypeOK
  <1>6. TypeOK'
    BY <1>2, <1>4, <1>5 DEF IInv, TypeOK
  <1>7. FlockHeld' /\ ThreadLockHeld'
    BY <1>2, <1>3, <1>4, ProcsAre, DenyListAssumption DEF IInv, FlockHeld, ThreadLockHeld
  <1>8. Mtimes'
    BY <1>2 DEF IInv, Mtimes
  <1>9. CacheOk'
    <2>1. \A u \in Threads : calls'[u].pc = "read" <=> calls[u].pc = "read"
      BY <1>2, <1>3, <1>4, ProcsAre
    <2> QED
      BY <1>2, <2>1 DEF IInv, CacheOk, Reloading
  <1>10. \A q \in Procs : EditOk(q)'
    BY <1>2, <1>3, <1>4 DEF IInv, EditOk
  <1>11. \A u \in Threads : Follows(u)'
    BY <1>2, <1>3, <1>4, <1>5, ProcsAre DEF IInv, Follows
  <1> QED
    BY <1>6, <1>7, <1>8, <1>9, <1>10, <1>11 DEF IInv

\* A thread that holds the lock puts the file, or less, into the cache: every
\* thread that relies on the cache has seen that text.
LEMMA CacheMoves ==
  ASSUME IInv, NEW t \in Threads, UNCHANGED <<file, clock, threadLock, flock, seen>>,
         threadLock = t,
         calls' \in [Procs -> Call], \A q \in Procs \ {t} : calls'[q] = calls[q],
         calls'[t].pc \in {"scan", "read"}, calls[t].pc \in {"stat", "read"},
         EditOk(t)',
         cache' \in [entries : SUBSET Entries, mtime : Nat], cache'.mtime <= clock,
         cache'.entries = View(file.text) \/ cache'.entries = cache.entries,
         cache'.mtime = 0 => cache'.entries = {},
         calls'[t].pc = "read" => cache'.mtime # 0,
         calls'[t].pc = "scan" => cache'.entries = View(file.text)
  PROVE  IInv'
  <1>1. t \in Procs
    BY ProcsAre
  <1>2. TypeOK'
    BY DEF IInv, TypeOK
  <1>3. \A u \in Threads \ {t} : calls[u].pc \notin {"stat", "read", "scan"}
    BY DEF IInv, ThreadLockHeld
  <1>4. FlockHeld' /\ ThreadLockHeld' /\ Mtimes'
    BY <1>1, ProcsAre DEF IInv, FlockHeld, ThreadLockHeld, Mtimes
  <1>5. CacheOk'
    <2>1. \A u \in Threads \ {t} : calls'[u].pc # "read"
      BY <1>3, ProcsAre
    <2>2. ~Reloading' => calls'[t].pc = "scan"
      BY DEF Reloading
    <2> QED
      BY <2>1, <2>2 DEF CacheOk, IInv
  <1>6. \A q \in Procs : EditOk(q)'
    BY DEF IInv, EditOk
  <1>7. \A u \in Threads : Follows(u)'
    <2>1. Follows(t)'
      BY DEF IInv, Follows
    <2>2. ASSUME NEW u \in Threads \ {t} PROVE Follows(u)'
      <3>1. calls'[u] = calls[u] /\ Follows(u)
        BY ProcsAre DEF IInv
      <3> QED
        BY <3>1 DEF Follows
    <2> QED
      BY <2>1, <2>2
  <1> QED
    BY <1>2, <1>4, <1>5, <1>6, <1>7 DEF IInv

LEMMA ReloadStatInv ==
  ASSUME IInv, NEW t \in Threads, ReloadStat(t)
  PROVE  IInv'
  <1>1. t \in Procs
    BY ProcsAre
  <1>2. /\ calls[t].pc = "stat" /\ UNCHANGED <<file, clock, threadLock, flock, seen>>
        /\ threadLock = t
    BY DEF ReloadStat, At, IInv, ThreadLockHeld
  <1>3. /\ cache \in [entries : SUBSET Entries, mtime : Nat]
        /\ file \in [text : Texts, mtime : Nat] /\ clock \in Nat
        /\ file.mtime <= clock /\ cache.mtime <= clock
    BY DEF IInv, TypeOK, Mtimes
  <1>4. \A where \in {"scan", "read"} : Goes(t, where) =>
          /\ calls' \in [Procs -> Call] /\ calls'[t].pc = where
          /\ \A q \in Procs \ {t} : calls'[q] = calls[q]
          /\ EditOk(t)'
    BY <1>1, GoesIs DEF IInv, EditOk
  <1>5. CASE cache.mtime = file.mtime /\ Goes(t, "scan") /\ cache' = cache
    <2>1. ~Reloading
      BY <1>2 DEF IInv, Reloading, ThreadLockHeld
    <2>2. cache.entries = View(file.text)
      BY <1>5, <2>1 DEF IInv, CacheOk
    <2>3. cache.mtime = 0 => cache.entries = {}
      BY DEF IInv, Mtimes
    <2> QED
      BY <1>2, <1>3, <1>4, <1>5, <2>2, <2>3, CacheMoves
  <1>6. CASE file.mtime = 0 /\ cache' = Cached(Missing) /\ Goes(t, "scan")
    <2>1. file.text = {}
      BY <1>6 DEF IInv, Mtimes
    <2> QED
      BY <1>2, <1>3, <1>4, <1>6, <2>1, MissingIs, CachedType, CacheMoves
  <1>7. CASE file.mtime # 0 /\ cache' = [cache EXCEPT !.mtime = file.mtime] /\ Goes(t, "read")
    <2>1. /\ cache' \in [entries : SUBSET Entries, mtime : Nat]
          /\ cache'.mtime = file.mtime /\ cache'.entries = cache.entries
      BY <1>3, <1>7
    <2> QED
      BY <1>2, <1>3, <1>4, <1>7, <2>1, CacheMoves
  <1> QED
    BY <1>5, <1>6, <1>7 DEF ReloadStat

LEMMA ReloadReadInv ==
  ASSUME IInv, NEW t \in Threads, ReloadRead(t)
  PROVE  IInv'
  <1>1. t \in Procs
    BY ProcsAre
  <1>2. /\ calls[t].pc = "read" /\ UNCHANGED <<file, clock, threadLock, flock, seen>>
        /\ threadLock = t /\ Goes(t, "scan") /\ cache' = [cache EXCEPT !.entries = View(file.text)]
        /\ cache.mtime # 0
    BY DEF ReloadRead, At, IInv, ThreadLockHeld, CacheOk
  <1>3. /\ calls' \in [Procs -> Call] /\ calls'[t].pc = "scan"
        /\ \A q \in Procs \ {t} : calls'[q] = calls[q]
    BY <1>1, <1>2, GoesIs DEF IInv, EditOk
  <1>4. EditOk(t)'
    BY <1>1, <1>2, GoesIs DEF IInv, EditOk
  <1>5. View(file.text) \in SUBSET Entries
    BY ViewIsSet DEF IInv, TypeOK
  <1>6. /\ cache' \in [entries : SUBSET Entries, mtime : Nat]
        /\ cache'.mtime = cache.mtime /\ cache'.entries = View(file.text)
    BY <1>2, <1>5 DEF IInv, TypeOK
  <1>7. cache'.mtime <= clock
    BY <1>6 DEF IInv, Mtimes
  <1> QED
    BY <1>2, <1>3, <1>4, <1>6, <1>7, CacheMoves

-------------------------------------------------------------------------------
\* Editing.

\* What an edit does to the file: one entry in or out of a readable list.
LEMMA EditedIs ==
  ASSUME IInv, NEW p \in Procs, calls[p].pc = "write"
  PROVE  /\ Edited(p) \in SUBSET Entries /\ Edited(p) \in Texts /\ Edited(p) # Corrupt
         /\ file.text # Corrupt
         /\ \E e \in Entries : Edited(p) \in {file.text \cup {e}, file.text \ {e}}
  <1>1. /\ calls[p].op \in {"add", "remove"} /\ calls[p].entry \in Entries
        /\ calls[p].got = file.text /\ file.text # Corrupt
    BY DEF IInv, EditOk
  <1>2. file.text \in SUBSET Entries
    BY <1>1 DEF IInv, TypeOK, Texts
  <1>3. Edited(p) \in {file.text \cup {calls[p].entry}, file.text \ {calls[p].entry}}
    BY <1>1 DEF Edited
  <1>4. Edited(p) \in SUBSET Entries
    BY <1>1, <1>2, <1>3
  <1>5. Edited(p) # Corrupt
    BY <1>4, DenyListAssumption DEF Corrupt
  <1> QED
    BY <1>1, <1>3, <1>4, <1>5 DEF Texts

\* The file gets a new text while nobody else is about to write it.
LEMMA FileMoves ==
  ASSUME IInv, NEW text \in Texts, TypeOK', FlockHeld', ThreadLockHeld',
         file'.text = text, file'.mtime = 0 => text = {},
         file'.mtime <= clock', clock <= clock',
         file'.mtime = cache.mtime => file'.mtime = 0,
         cache' = cache,
         \A t \in Threads : text \in seen'[t] /\ seen[t] \subseteq seen'[t],
         \A q \in Procs : calls[q].pc # "write", calls' = calls
  PROVE  IInv'
  <1>1. Mtimes'
    BY DEF IInv, Mtimes, TypeOK
  <1>2. CacheOk'
    <2>1. cache'.mtime = file'.mtime => cache'.entries = {} /\ text = {}
      BY DEF IInv, Mtimes
    <2> QED
      BY <2>1, MissingIs DEF IInv, CacheOk, Reloading
  <1>3. \A q \in Procs : EditOk(q)'
    BY DEF IInv, EditOk
  <1>4. \A t \in Threads : Follows(t)'
    BY DEF IInv, Follows
  <1> QED
    BY <1>1, <1>2, <1>3, <1>4 DEF IInv

LEMMA EditorInv ==
  ASSUME IInv, HandBreak \/ MoveAside
  PROVE  IInv'
  <1>1. /\ flock = None /\ UNCHANGED <<cache, threadLock, flock, calls>>
        /\ file \in [text : Texts, mtime : Nat] /\ clock \in Nat
        /\ cache.mtime \in Nat /\ cache.mtime <= clock
    BY DEF HandBreak, MoveAside, IInv, TypeOK, Mtimes
  <1>2. \A q \in Procs : calls[q].pc # "write"
    BY <1>1, ProcsAre DEF IInv, FlockHeld
  <1>3. Corrupt \in Texts /\ {} \in Texts
    BY DEF Texts
  <1>4. FlockHeld' /\ ThreadLockHeld'
    BY <1>1 DEF IInv, FlockHeld, ThreadLockHeld
  <1>5. CASE HandBreak
    <2>1. clock' = clock + 1 /\ file' = [text |-> Corrupt, mtime |-> clock'] /\ SeenByAll(Corrupt)
      BY <1>5 DEF HandBreak, FileBecomes
    <2>2. /\ file'.text = Corrupt /\ file'.mtime = clock + 1 /\ file' \in [text : Texts, mtime : Nat]
          /\ \A t \in Threads : Corrupt \in seen'[t] /\ seen[t] \subseteq seen'[t]
          /\ seen' \in [Threads -> SUBSET Texts]
      BY <1>1, <1>3, <2>1 DEF SeenByAll, IInv, TypeOK
    <2>3. TypeOK'
      BY <1>1, <2>1, <2>2 DEF IInv, TypeOK
    <2>4. /\ file'.mtime <= clock' /\ clock <= clock' /\ file'.mtime # 0
          /\ file'.mtime # cache.mtime
      BY <1>1, <2>1, <2>2
    <2> QED
      BY <1>1, <1>2, <1>3, <1>4, <2>2, <2>3, <2>4, FileMoves
  <1>6. CASE MoveAside
    <2>1. clock' = clock /\ file' = Missing /\ SeenByAll({})
      BY <1>6 DEF MoveAside
    <2>2. /\ \A t \in Threads : {} \in seen'[t] /\ seen[t] \subseteq seen'[t]
          /\ seen' \in [Threads -> SUBSET Texts]
      BY <1>3, <2>1 DEF SeenByAll, IInv, TypeOK
    <2>3. TypeOK'
      BY <1>1, <2>1, <2>2, MissingIs DEF IInv, TypeOK
    <2>4. file'.mtime <= clock' /\ clock <= clock' /\ file'.text = {} /\ file'.mtime = 0
      BY <1>1, <2>1, MissingIs
    <2> QED
      BY <1>1, <1>2, <1>3, <1>4, <2>2, <2>3, <2>4, FileMoves
  <1> QED
    BY <1>5, <1>6

\* The holder of the flock leaves the file alone: it goes on to its write with
\* the locks it has, or ends and gives them up.  When the daemon has reloaded,
\* cache and file agree, and every thread that relies on the cache has seen
\* that text.
LEMMA HolderMoves ==
  ASSUME IInv, NEW p \in Procs, calls[p].pc \in {"edit", "write"},
         UNCHANGED <<file, clock, seen>>,
         cache' = cache \/ (p \in Threads /\ cache' = Cached(file)),
         calls' \in [Procs -> Call], \A q \in Procs \ {p} : calls'[q] = calls[q],
         \/ calls'[p].pc = "write" /\ UNCHANGED <<threadLock, flock>>
         \/ /\ calls'[p].pc = "idle" /\ flock' = None
            /\ threadLock' = IF p \in Threads THEN None ELSE threadLock,
         EditOk(p)'
  PROVE  IInv'
  <1>1. /\ flock = p /\ (p \in Threads => threadLock = p)
        /\ \A q \in Procs \ {p} : calls[q].pc \notin {"edit", "write"}
    BY ProcsAre DEF IInv, FlockHeld, ThreadLockHeld
  <1>2. /\ file \in [text : Texts, mtime : Nat]
        /\ cache' \in [entries : SUBSET Entries, mtime : Nat]
        /\ cache' # cache => cache'.entries = View(file.text) /\ cache'.mtime = file.mtime
    BY CachedType DEF IInv, TypeOK
  <1>3. TypeOK'
    BY <1>2 DEF IInv, TypeOK
  <1>4. FlockHeld'
    BY <1>1 DEF IInv, FlockHeld
  <1>5. ThreadLockHeld'
    BY <1>1, ProcsAre DEF IInv, ThreadLockHeld
  <1>6. Mtimes'
    BY <1>2, MissingIs DEF IInv, Mtimes
  <1>7. CacheOk'
    <2>1. \A t \in Threads : calls'[t].pc = "read" <=> calls[t].pc = "read"
      BY ProcsAre
    <2>2. cache' # cache => \A t \in Threads : calls[t].pc # "read"
      BY <1>1, ProcsAre DEF IInv, ThreadLockHeld
    <2> QED
      BY <1>2, <2>1, <2>2 DEF IInv, CacheOk, Reloading
  <1>8. \A q \in Procs : EditOk(q)'
    BY DEF IInv, EditOk
  <1>9. \A t \in Threads : Follows(t)'
    BY <1>2, ProcsAre DEF IInv, Follows
  <1> QED
    BY <1>3, <1>4, <1>5, <1>6, <1>7, <1>8, <1>9 DEF IInv

LEMMA EditReadInv ==
  ASSUME IInv, NEW p \in Procs, EditRead(p)
  PROVE  IInv'
  <1>1. /\ calls[p].pc = "edit" /\ UNCHANGED <<file, clock, seen>>
        /\ cache' = cache \/ (p \in Threads /\ cache' = Cached(file))
    BY DEF EditRead, At
  <1>2. CASE Refused(p)
    <2>1. EditEnds(p, "idle")
      BY <1>2 DEF EditRead
    <2>2. /\ calls' \in [Procs -> Call] /\ calls'[p].pc = "idle"
          /\ \A q \in Procs \ {p} : calls'[q] = calls[q]
      BY <2>1, GoesIs DEF EditEnds, IInv
    <2>3. EditOk(p)'
      BY <2>2 DEF EditOk
    <2> QED
      BY <1>1, <2>1, <2>2, <2>3, HolderMoves DEF EditEnds
  <1>3. CASE ~Refused(p)
    <2>1. /\ calls' = [calls EXCEPT ![p].pc = "write", ![p].got = file.text]
          /\ UNCHANGED <<threadLock, flock>> /\ file.text # Corrupt
      BY <1>3 DEF EditRead, Refused
    <2>2. /\ calls[p] \in Call /\ file.text \in Texts
      BY DEF IInv, TypeOK
    <2>3. /\ calls' \in [Procs -> Call] /\ \A q \in Procs \ {p} : calls'[q] = calls[q]
          /\ calls'[p].pc = "write" /\ calls'[p].got = file.text
          /\ calls'[p].op = calls[p].op /\ calls'[p].entry = calls[p].entry
      BY <2>1, <2>2 DEF IInv, TypeOK, Call
    <2>4. EditOk(p)'
      BY <1>1, <2>1, <2>3 DEF IInv, EditOk
    <2> QED
      BY <1>1, <2>1, <2>3, <2>4, HolderMoves
  <1> QED
    BY <1>2, <1>3

\* The write: nobody else is between its read and its write, and the mtime is
\* one the cache has not had.
LEMMA EditWriteInv ==
  ASSUME IInv, NEW p \in Procs, EditWrite(p)
  PROVE  IInv'
  <1>1. /\ calls[p].pc = "write" /\ flock = p /\ (p \in Threads => threadLock = p)
        /\ \A q \in Procs \ {p} : calls[q].pc \notin {"edit", "write"}
    BY ProcsAre DEF EditWrite, At, IInv, FlockHeld, ThreadLockHeld
  <1>2. CASE EditEnds(p, "idle") /\ UNCHANGED <<file, clock, cache, seen>>
    <2>1. /\ calls' \in [Procs -> Call] /\ calls'[p].pc = "idle"
          /\ \A q \in Procs \ {p} : calls'[q] = calls[q]
      BY <1>2, GoesIs DEF EditEnds, IInv
    <2>2. EditOk(p)'
      BY <2>1 DEF EditOk
    <2> QED
      BY <1>1, <1>2, <2>1, <2>2, HolderMoves DEF EditEnds
  <1>3. CASE /\ FileBecomes(Edited(p))
             /\ cache' = IF p \in Threads THEN Cached(file') ELSE cache
             /\ seen' = [t \in Threads |-> IF t = p THEN {file'.text}
                                                    ELSE seen[t] \cup {file'.text}]
             /\ EditEnds(p, IF p \in Threads THEN "load" ELSE "idle")
    <2>1. /\ clock \in Nat /\ clock' = clock + 1 /\ Edited(p) \in Texts
          /\ file' \in [text : Texts, mtime : Nat] /\ file'.mtime = clock + 1
      BY <1>1, <1>3, EditedIs DEF FileBecomes, IInv, TypeOK
    <2>2. /\ cache' \in [entries : SUBSET Entries, mtime : Nat]
          /\ p \in Threads => cache'.entries = View(file'.text) /\ cache'.mtime = file'.mtime
          /\ p \notin Threads => cache' = cache
      BY <1>3, <2>1, CachedType DEF IInv, TypeOK
    <2>3. /\ calls' \in [Procs -> Call] /\ \A q \in Procs \ {p} : calls'[q] = calls[q]
          /\ calls'[p].pc = IF p \in Threads THEN "load" ELSE "idle"
      BY <1>3, GoesIs DEF EditEnds, IInv
    <2>4. /\ flock' = None /\ threadLock' = IF p \in Threads THEN None ELSE threadLock
      BY <1>3 DEF EditEnds
    <2>5. /\ seen' \in [Threads -> SUBSET Texts]
          /\ \A t \in Threads : file'.text \in seen'[t] /\ (t # p => seen[t] \subseteq seen'[t])
      BY <1>3, <2>1 DEF IInv, TypeOK
    <2>6. TypeOK'
      BY <2>1, <2>2, <2>3, <2>4, <2>5 DEF IInv, TypeOK
    <2>7. FlockHeld'
      BY <1>1, <2>3 DEF FlockHeld
    <2>8. ThreadLockHeld'
      BY <1>1, <2>3, <2>4, ProcsAre DEF IInv, ThreadLockHeld
    <2>9. cache.mtime \in Nat /\ cache.mtime <= clock
      BY DEF IInv, TypeOK, Mtimes
    <2>10. Mtimes'
      BY <2>1, <2>2, <2>9 DEF IInv, Mtimes
    <2>11. CacheOk'
      <3>1. \A t \in Threads : calls'[t].pc = "read" => calls[t].pc = "read" /\ t # p
        BY <2>3, ProcsAre
      <3>2. p \in Threads => \A t \in Threads : calls'[t].pc # "read"
        BY <1>1, <3>1 DEF IInv, ThreadLockHeld
      <3>3. p \notin Threads => cache'.mtime # file'.mtime
        BY <2>1, <2>2, <2>9
      <3> QED
        BY <2>2, <3>1, <3>2, <3>3 DEF IInv, CacheOk
    <2>12. \A q \in Procs : EditOk(q)'
      BY <1>1, <2>3 DEF IInv, EditOk
    <2>13. \A t \in Threads : Follows(t)'
      <3>1. Follows(p)'
        BY <2>3, <2>5, ProcsAre DEF Follows
      <3>2. ASSUME NEW t \in Threads, t # p PROVE Follows(t)'
        <4>1. calls'[t] = calls[t] /\ Follows(t)
          BY <2>3, <3>2, ProcsAre DEF IInv
        <4> QED
          BY <2>2, <2>5, <3>2, <4>1 DEF Follows
      <3> QED
        BY <3>1, <3>2
    <2> QED
      BY <2>6, <2>7, <2>8, <2>10, <2>11, <2>12, <2>13 DEF IInv
  <1> QED
    BY <1>2, <1>3 DEF EditWrite

\* After a restart no thread is in a call, and the cache is the file.
LEMMA RestartInv ==
  ASSUME IInv, Restart
  PROVE  IInv'
  <1>1. /\ calls' = [p \in Procs |-> IF p \in Threads THEN NoCall ELSE calls[p]]
        /\ flock' = IF flock \in Threads THEN None ELSE flock
        /\ threadLock' = None /\ cache' = Cached(file) /\ UNCHANGED <<file, clock, seen>>
    BY DEF Restart
  <1>2. /\ calls' \in [Procs -> Call]
        /\ \A t \in Threads : calls'[t].pc = "idle"
        /\ \A p \in Procs \ Threads : calls'[p] = calls[p]
    BY <1>1, NoCallIs, ProcsAre DEF IInv, TypeOK
  <1>3. /\ file \in [text : Texts, mtime : Nat]
        /\ cache' \in [entries : SUBSET Entries, mtime : Nat]
        /\ cache'.entries = View(file.text) /\ cache'.mtime = file.mtime
    BY <1>1, CachedType DEF IInv, TypeOK
  <1>4. TypeOK'
    BY <1>1, <1>2, <1>3 DEF IInv, TypeOK
  <1>5. FlockHeld'
    BY <1>1, <1>2 DEF IInv, FlockHeld
  <1>6. ThreadLockHeld'
    BY <1>2 DEF ThreadLockHeld
  <1>7. Mtimes'
    BY <1>1, <1>3, MissingIs DEF IInv, Mtimes
  <1>8. CacheOk'
    BY <1>1, <1>2, <1>3 DEF CacheOk
  <1>9. \A p \in Procs : EditOk(p)'
    BY <1>1, <1>2 DEF IInv, EditOk
  <1>10. \A t \in Threads : Follows(t)'
    BY <1>2 DEF Follows
  <1> QED
    BY <1>4, <1>5, <1>6, <1>7, <1>8, <1>9, <1>10 DEF IInv

-------------------------------------------------------------------------------
LEMMA NextInv == IInv /\ [Next]_vars => IInv'
  <1> SUFFICES ASSUME IInv, [Next]_vars PROVE IInv'
    OBVIOUS
  <1>1. CASE UNCHANGED vars
    BY <1>1 DEF vars, IInv, TypeOK, FlockHeld, ThreadLockHeld, Mtimes, CacheOk, Reloading,
                EditOk, Follows
  <1>2. ASSUME NEW t \in Threads, MatchBegin(t) PROVE IInv'
    BY <1>2, MatchBeginInv
  <1>3. ASSUME NEW t \in Threads, LoadBegin(t) PROVE IInv'
    BY <1>3, LoadBeginInv
  <1>4. ASSUME NEW t \in Threads, Reads(t) PROVE IInv'
    BY <1>4, ReloadStatInv, ReloadReadInv, AnswerInv DEF Reads
  <1>5. ASSUME NEW t \in Threads, NEW e \in Entries, AddBegin(t, e) PROVE IInv'
    BY <1>5, AddBeginInv
  <1>6. ASSUME NEW p \in Tools, NEW op \in {"add", "remove"}, NEW e \in Entries,
               ToolBegin(p, op, e)
        PROVE  IInv'
    BY <1>6, ToolBeginInv
  <1>7. ASSUME NEW p \in Tools, ToolDies(p) PROVE IInv'
    BY <1>7, ToolDiesInv
  <1>8. ASSUME NEW p \in Procs, TakeFlock(p) PROVE IInv'
    BY <1>8, TakeFlockInv
  <1>9. ASSUME NEW p \in Procs, GoesOn(p) PROVE IInv'
    BY <1>9, EditReadInv, EditWriteInv DEF GoesOn
  <1>10. CASE HandBreak \/ MoveAside
    BY <1>10, EditorInv
  <1>11. CASE Restart
    BY <1>11, RestartInv
  <1> QED
    BY <1>1, <1>2, <1>3, <1>4, <1>5, <1>6, <1>7, <1>8, <1>9, <1>10, <1>11 DEF Next

LEMMA Invariance == Spec => []IInv
  BY InitInv, NextInv, PTL DEF Spec

\* Whatever the other threads, the tools and the editors do between its stat,
\* its read and its search, a thread searches a deny list the file has had since
\* it took the lock, and persist_deny leaves its own entry in the cache.
THEOREM SearchedIsCurrent == Spec => []MatchIsCurrent
  <1>1. IInv => MatchIsCurrent
    BY DEF IInv, Follows, MatchIsCurrent
  <1> QED
    BY <1>1, Invariance, PTL

-------------------------------------------------------------------------------
\* A write is the addition or the removal of one entry of the text it replaces.
LEMMA WriteIsEdit ==
  ASSUME IInv, NEW p \in Procs, EditWrite(p)
  PROVE  Set!Next \/ UNCHANGED file.text
  <1>1. CASE FileBecomes(Edited(p))
    <2>1. file'.text = Edited(p) /\ calls[p].pc = "write"
      BY <1>1 DEF FileBecomes, EditWrite, At
    <2>2. PICK e \in Entries : Edited(p) \in {file.text \cup {e}, file.text \ {e}}
      BY <2>1, EditedIs
    <2>3. Set!Add(e) \/ Set!Remove(e)
      BY <2>1, <2>2, EditedIs DEF Set!Add, Set!Remove
    <2> QED
      BY <2>3 DEF Set!Next
  <1>2. CASE UNCHANGED file
    BY <1>2
  <1> QED
    BY <1>1, <1>2 DEF EditWrite

\* Threads, tools, editors and deaths together implement a set edited one entry
\* at a time: no edit is lost and nobody writes over an unreadable file.
THEOREM NoEditIsLost == Spec => ImplementsDenySet
  <1>1. Init => Set!Init
    BY MissingIs DEF Init, Set!Init
  <1>2. IInv /\ [Next]_vars => [Set!Next]_(file.text)
    <2> SUFFICES ASSUME IInv, [Next]_vars
                 PROVE  Set!Next \/ UNCHANGED file.text
      OBVIOUS
    <2>1. CASE UNCHANGED file
      BY <2>1
    <2>2. ASSUME NEW p \in Procs, EditWrite(p) PROVE Set!Next \/ UNCHANGED file.text
      BY <2>2, WriteIsEdit
    <2>3. CASE HandBreak
      BY <2>3 DEF HandBreak, FileBecomes, Set!Next, Set!Break
    <2>4. CASE MoveAside
      BY <2>4, MissingIs DEF MoveAside, Set!Next, Set!MoveAside
    <2> QED
      BY <2>1, <2>2, <2>3, <2>4
      DEF Next, vars, MatchBegin, LoadBegin, Reads, ReloadStat, ReloadRead, Answer, PersistEnd,
          AddBegin, ToolBegin, ToolDies, TakeFlock, GoesOn, EditRead, Restart
  <1> QED
    BY <1>1, <1>2, Invariance, PTL DEF Spec, ImplementsDenySet, Set!Spec
===============================================================================
