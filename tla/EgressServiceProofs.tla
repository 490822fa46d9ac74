------------------------- MODULE EgressServiceProofs -------------------------
(***************************************************************************)
(* Proofs about EgressService, for every set of starts: whoever has a      *)
(* secret in memory has the one on disk, and callers are sent to the       *)
(* broker that serves.                                                     *)
(*                                                                         *)
(* A file is created by one process at most (O_EXCL) and is empty until    *)
(* that process has written it, and nobody takes a secret from an empty    *)
(* file; nothing ever changes a file with a secret in it.  A daemon keeps  *)
(* the lock from before it binds until after it has removed daemon.json,   *)
(* so the file is the holder's or a dead daemon's.                         *)
(***************************************************************************)
EXTENDS EgressService, TLAPS

\* What the proofs use of the assumption on the constants: the markers of a
\* missing and an empty file are no process ...
Markers == NoFile \notin Processes /\ Empty \notin Processes /\ NoFile # Empty

\* ... and no process has two roles.
Distinct ==
    /\ HostDaemon # Broker
    /\ Admin \notin StartRuns \cup Daemons
    /\ StartRuns \cap Daemons = {}
    /\ None \notin Processes

LEMMA ConstantsDiffer == Markers /\ Distinct
  BY ServiceAssumption DEF Markers, Distinct

Wants == {<<>>, <<"token">>, <<"key">>, <<"token", "key">>}
Busy == {"create", "write", "reread"}

SecretsTyped ==
    /\ DOMAIN pc = Processes
    /\ want \in [Processes -> Wants]
    /\ held \in [Processes -> [Secrets -> Processes \cup {NoFile}]]
    /\ secret \in [Secrets -> Processes \cup {NoFile, Empty}]

\* A process between looking for a file and having it knows which file.
BusyWithOne == \A p \in Processes : pc[p] \in Busy => want[p] # <<>>

\* The file a process is about to write is empty, and its alone.
Writes(p, f) == pc[p] = "write" /\ want[p] # <<>> /\ Head(want[p]) = f
WriterOwnsFile ==
    \A p \in Processes, f \in Secrets : Writes(p, f) =>
        /\ secret[f] = Empty
        /\ \A q \in Processes : Writes(q, f) => p = q

IInv == SecretsTyped /\ BusyWithOne /\ WriterOwnsFile /\ HoldersAgree

-------------------------------------------------------------------------------
LEMMA WantsHead ==
  ASSUME NEW w \in Wants, w # <<>>
  PROVE  Head(w) \in Secrets /\ Tail(w) \in Wants
  <1>1. CASE w = <<"token">>
    BY <1>1 DEF Wants, Secrets
  <1>2. CASE w = <<"key">>
    BY <1>2 DEF Wants, Secrets
  <1>3. CASE w = <<"token", "key">>
    <2>1. Tail(w) = <<"key">>
      BY <1>3
    <2>2. Head(w) = "token"
      BY <1>3
    <2> QED
      BY <2>1, <2>2 DEF Wants, Secrets
  <1> QED
    BY <1>1, <1>2, <1>3 DEF Wants

LEMMA InitInv == Init => IInv
  <1> SUFFICES ASSUME Init PROVE IInv
    OBVIOUS
  <1>1. SecretsTyped
    BY DEF Init, SecretsTyped, Nothing, Wants
  <1>2. \A p \in Processes : pc[p] = "idle" /\ held[p] = Nothing
    BY DEF Init, Idle
  <1>3. BusyWithOne /\ WriterOwnsFile
    BY <1>2 DEF BusyWithOne, Busy, WriterOwnsFile, Writes
  <1>4. HoldersAgree
    BY <1>2 DEF HoldersAgree, Nothing
  <1> QED
    BY <1>1, <1>3, <1>4 DEF IInv

\* A step that leaves the files alone, takes nothing from them and leaves no
\* process between looking and having that was not there before.
LEMMA FilesKept ==
  ASSUME IInv, SecretsTyped', secret' = secret,
         \A p \in Processes, f \in Secrets : held'[p][f] \in {held[p][f], NoFile},
         \A p \in Processes : pc'[p] \in Busy => pc'[p] = pc[p] /\ want'[p] = want[p]
  PROVE  IInv'
  <1>1. BusyWithOne'
    BY DEF IInv, BusyWithOne
  <1>2. WriterOwnsFile'
    <2>1. \A p \in Processes, f \in Secrets : Writes(p, f)' => Writes(p, f)
      BY DEF Writes, Busy
    <2> QED
      BY <2>1 DEF IInv, WriterOwnsFile
  <1>3. HoldersAgree'
    BY DEF IInv, HoldersAgree
  <1> QED
    BY <1>1, <1>2, <1>3 DEF IInv

\* The same, for steps after which a process is at some other place.
LEMMA GoesInv ==
  ASSUME IInv, NEW p \in Processes, NEW where, where \notin Busy, Goes(p, where),
         want' = want, held' = held, secret' = secret
  PROVE  IInv'
  <1>1. SecretsTyped'
    BY DEF IInv, SecretsTyped, Goes
  <1>2. \A q \in Processes : pc'[q] \in Busy => pc'[q] = pc[q]
    BY DEF IInv, SecretsTyped, Goes
  <1> QED
    BY <1>1, <1>2, FilesKept

LEMMA SeeksInv ==
  ASSUME IInv, NEW p \in Processes, NEW w \in Wants, Seeks(p, w),
         held' = held, secret' = secret
  PROVE  IInv'
  <1>1. SecretsTyped'
    BY DEF IInv, SecretsTyped, Goes, Seeks
  <1>2. \A q \in Processes : pc'[q] \in Busy => pc'[q] = pc[q] /\ want'[q] = want[q]
    BY DEF IInv, SecretsTyped, Goes, Seeks, Busy
  <1> QED
    BY <1>1, <1>2, FilesKept

LEMMA DiesInv ==
  ASSUME IInv, NEW ps, Dies(ps), secret' = secret
  PROVE  IInv'
  <1>1. SecretsTyped'
    BY DEF IInv, SecretsTyped, Dies, Nothing, Wants
  <1>2. \A q \in Processes : pc'[q] \in Busy => pc'[q] = pc[q] /\ want'[q] = want[q]
    BY DEF Dies, Busy, Idle
  <1>3. \A q \in Processes, f \in Secrets : held'[q][f] \in {held[q][f], NoFile}
    BY DEF Dies, Nothing
  <1> QED
    BY <1>1, <1>2, <1>3, FilesKept

\* Taking a secret from a file that has one.
LEMMA ObtainsInv ==
  ASSUME Markers, IInv, NEW p \in Processes, want[p] # <<>>, Whole(Head(want[p])),
         Obtains(p), secret' = secret
  PROVE  IInv'
  <1> DEFINE g == Head(want[p])
  <1>1. want[p] \in Wants /\ g \in Secrets /\ Tail(want[p]) \in Wants
    BY WantsHead DEF IInv, SecretsTyped
  <1>2. secret[g] \in Processes
    BY <1>1 DEF IInv, SecretsTyped, Whole
  <1> HIDE DEF g
  <1>3. /\ held' = [held EXCEPT ![p][g] = secret[g]]
        /\ want' = [want EXCEPT ![p] = Tail(@)]
        /\ pc' = [pc EXCEPT ![p] = "look"]
    BY DEF Obtains, Goes, g
  <1>4. SecretsTyped'
    BY <1>1, <1>2, <1>3 DEF IInv, SecretsTyped
  <1>5. \A q \in Processes : pc'[q] \in Busy => pc'[q] = pc[q] /\ want'[q] = want[q]
    BY <1>3 DEF IInv, SecretsTyped, Busy
  <1>6. BusyWithOne'
    BY <1>5 DEF IInv, BusyWithOne
  <1>7. WriterOwnsFile'
    <2>1. \A q \in Processes, f \in Secrets : Writes(q, f)' => Writes(q, f)
      BY <1>5 DEF Writes, Busy
    <2> QED
      BY <2>1 DEF IInv, WriterOwnsFile
  <1>8. HoldersAgree'
    <2>1. \A q \in Processes, f \in Secrets :
            held'[q][f] = IF q = p /\ f = g THEN secret[g] ELSE held[q][f]
      BY <1>1, <1>3 DEF IInv, SecretsTyped
    <2> QED
      BY <2>1 DEF IInv, HoldersAgree
  <1> QED
    BY <1>4, <1>6, <1>7, <1>8 DEF IInv

-------------------------------------------------------------------------------
LEMMA LookInv ==
  ASSUME Markers, IInv, NEW p \in Processes, Look(p)
  PROVE  IInv'
  <1>1. CASE Whole(Head(want[p]))
    BY <1>1, ObtainsInv DEF Look
  <1>2. CASE ~Whole(Head(want[p]))
    <2>1. /\ pc' = [pc EXCEPT ![p] = "create"] /\ want[p] # <<>>
          /\ secret' = secret /\ held' = held /\ want' = want
      BY <1>2 DEF Look, Goes
    <2>2. SecretsTyped' /\ BusyWithOne' /\ HoldersAgree'
      BY <2>1 DEF IInv, SecretsTyped, BusyWithOne, HoldersAgree
    <2>3. \A q \in Processes, f \in Secrets : Writes(q, f)' => Writes(q, f)
      BY <2>1 DEF Writes, IInv, SecretsTyped
    <2>4. WriterOwnsFile'
      BY <2>1, <2>3 DEF IInv, WriterOwnsFile
    <2> QED
      BY <2>2, <2>4 DEF IInv
  <1> QED
    BY <1>1, <1>2

\* O_EXCL: the file was not there, so nobody writes it and nobody has it.
LEMMA CreateSecretInv ==
  ASSUME Markers, IInv, NEW p \in Processes, CreateSecret(p)
  PROVE  IInv'
  <1> DEFINE g == Head(want[p])
  <1>1. want[p] # <<>> /\ g \in Secrets
    BY WantsHead DEF IInv, SecretsTyped, CreateSecret, BusyWithOne, Busy
  <1>2. secret[g] = NoFile
    BY DEF CreateSecret
  <1> HIDE DEF g
  <1>3. /\ secret' = [secret EXCEPT ![g] = Empty] /\ held' = held /\ want' = want
        /\ pc' = [pc EXCEPT ![p] = "write"]
    BY DEF CreateSecret, Goes, g
  <1>4. SecretsTyped' /\ BusyWithOne'
    BY <1>1, <1>3 DEF IInv, SecretsTyped, BusyWithOne
  <1>5. \A q \in Processes : ~Writes(q, g)
    BY <1>1, <1>2 DEF IInv, WriterOwnsFile, Markers
  <1>6. ASSUME NEW q \in Processes, NEW f \in Secrets
        PROVE  Writes(q, f)' <=> (IF q = p THEN f = g ELSE Writes(q, f))
    BY <1>1, <1>3 DEF Writes, g, IInv, SecretsTyped
  <1>7. WriterOwnsFile'
    BY <1>1, <1>3, <1>5, <1>6 DEF IInv, WriterOwnsFile, SecretsTyped
  <1>8. HoldersAgree'
    BY <1>1, <1>2, <1>3 DEF IInv, HoldersAgree, SecretsTyped
  <1> QED
    BY <1>4, <1>7, <1>8 DEF IInv

\* The file is its creator's and empty, so nobody has it.
LEMMA WriteSecretInv ==
  ASSUME Markers, IInv, NEW p \in Processes, WriteSecret(p)
  PROVE  IInv'
  <1> DEFINE g == Head(want[p])
  <1>1. want[p] # <<>> /\ g \in Secrets /\ Tail(want[p]) \in Wants
    BY WantsHead DEF IInv, SecretsTyped, WriteSecret, BusyWithOne, Busy
  <1>2. Writes(p, g)
    BY <1>1 DEF WriteSecret, Writes
  <1>3. secret[g] = Empty /\ \A q \in Processes : Writes(q, g) => q = p
    BY <1>1, <1>2 DEF IInv, WriterOwnsFile
  <1> HIDE DEF g
  <1>4. /\ secret' = [secret EXCEPT ![g] = p]
        /\ held' = [held EXCEPT ![p][g] = secret'[g]]
        /\ want' = [want EXCEPT ![p] = Tail(@)]
        /\ pc' = [pc EXCEPT ![p] = "look"]
    BY DEF WriteSecret, Obtains, Goes, g
  <1>5. secret'[g] = p
    BY <1>1, <1>4 DEF IInv, SecretsTyped
  <1>6. SecretsTyped'
    BY <1>1, <1>4, <1>5 DEF IInv, SecretsTyped
  <1>7. BusyWithOne'
    BY <1>4 DEF IInv, SecretsTyped, BusyWithOne, Busy
  <1>8. \A q \in Processes, f \in Secrets : Writes(q, f)' => Writes(q, f) /\ q # p
    BY <1>4 DEF Writes, IInv, SecretsTyped
  <1>9. WriterOwnsFile'
    BY <1>3, <1>4, <1>8 DEF IInv, WriterOwnsFile, SecretsTyped
  <1>10. HoldersAgree'
    <2>1. \A q \in Processes, f \in Secrets :
            held'[q][f] = IF q = p /\ f = g THEN p ELSE held[q][f]
      BY <1>1, <1>4, <1>5 DEF IInv, SecretsTyped
    <2>2. \A q \in Processes : held[q][g] = NoFile
      BY <1>1, <1>3 DEF IInv, HoldersAgree, SecretsTyped, Markers
    <2>3. \A f \in Secrets : f # g => secret'[f] = secret[f]
      BY <1>4 DEF IInv, SecretsTyped
    <2> QED
      BY <1>5, <2>1, <2>2, <2>3 DEF IInv, HoldersAgree
  <1> QED
    BY <1>6, <1>7, <1>9, <1>10 DEF IInv

LEMMA CreateLostInv ==
  ASSUME IInv, NEW p \in Processes, CreateLost(p)
  PROVE  IInv'
  <1>1. CASE p = Admin \/ Head(want[p]) = "key"
    <2>1. /\ pc' = [pc EXCEPT ![p] = "reread"] /\ pc[p] = "create"
          /\ secret' = secret /\ held' = held /\ want' = want
      BY <1>1 DEF CreateLost, Goes
    <2>2. SecretsTyped' /\ BusyWithOne' /\ HoldersAgree'
      BY <2>1 DEF IInv, SecretsTyped, BusyWithOne, HoldersAgree, Busy
    <2>3. \A q \in Processes, f \in Secrets : Writes(q, f)' => Writes(q, f)
      BY <2>1 DEF Writes, IInv, SecretsTyped
    <2>4. WriterOwnsFile'
      BY <2>1, <2>3 DEF IInv, WriterOwnsFile
    <2> QED
      BY <2>2, <2>4 DEF IInv
  <1>2. CASE ~(p = Admin \/ Head(want[p]) = "key")
    BY <1>2, DiesInv DEF CreateLost
  <1> QED
    BY <1>1, <1>2

LEMMA RereadInv ==
  ASSUME Markers, IInv, NEW p \in Processes, Reread(p)
  PROVE  IInv'
  <1>1. CASE Whole(Head(want[p]))
    BY <1>1, ObtainsInv DEF Reread, IInv, BusyWithOne, Busy
  <1>2. CASE ~Whole(Head(want[p]))
    BY <1>2, DiesInv DEF Reread
  <1> QED
    BY <1>1, <1>2

\* The other steps take a process somewhere else, or to the files, or end it.
LEMMA StartInv ==
  ASSUME IInv, NEW s \in StartRuns,
         \/ Probe(s) \/ Probed(s) \/ Restart(s) \/ CheckNet(s) \/ CreateNet(s) \/ Compose(s)
  PROVE  IInv'
  <1>1. s \in Processes /\ <<"token", "key">> \in Wants
    BY DEF Processes, Wants
  <1>2. CASE Probe(s) \/ Probed(s) \/ Restart(s) \/ Compose(s)
    BY <1>1, <1>2, GoesInv DEF Probe, Probed, Restart, Compose, Busy
  <1>3. CASE CheckNet(s)
    BY <1>1, <1>3, GoesInv, SeeksInv DEF CheckNet, Busy
  <1>4. CASE CreateNet(s)
    BY <1>1, <1>4, GoesInv, SeeksInv DEF CreateNet, Busy, Idle
  <1> QED
    BY <1>2, <1>3, <1>4

LEMMA UpInv ==
  ASSUME IInv, NEW s \in StartRuns, Up(s)
  PROVE  IInv'
  <1>1. s \in Processes
    BY DEF Processes
  <1>2. SecretsTyped'
    BY <1>1 DEF IInv, SecretsTyped, Up, Goes, Nothing
  <1>3. \A q \in Processes : pc'[q] \in Busy => pc'[q] = pc[q] /\ want'[q] = want[q]
    BY <1>1 DEF IInv, SecretsTyped, Up, Goes, Busy, Idle
  <1>4. \A q \in Processes, f \in Secrets : held'[q][f] \in {held[q][f], NoFile}
    BY <1>1 DEF IInv, SecretsTyped, Up, Nothing
  <1> QED
    BY <1>2, <1>3, <1>4, FilesKept DEF Up

LEMMA BeginsInv ==
  ASSUME IInv, NEW p \in Daemons \cup {Admin}, Begins(p)
  PROVE  IInv'
  <1>1. p \in Processes /\ <<"token", "key">> \in Wants
    BY DEF Processes, Wants
  <1> QED
    BY <1>1, GoesInv, SeeksInv DEF Begins, Busy

LEMMA BindInv ==
  ASSUME IInv, NEW p \in Daemons \cup {Admin}, Bind(p)
  PROVE  IInv'
  <1>1. p \in Processes
    BY DEF Processes
  <1>2. CASE p = Admin
    BY <1>1, <1>2, GoesInv DEF Bind, Busy
  <1>3. CASE p # Admin
    BY <1>1, <1>3, GoesInv DEF Bind, Busy
  <1> QED
    BY <1>2, <1>3

LEMMA DaemonInv ==
  ASSUME IInv, NEW d \in Daemons,
         \/ AcquireLock(d) \/ Advertise(d) \/ Close(d) \/ RemoveEndpoint(d) \/ ReleaseLock(d)
  PROVE  IInv'
  <1>1. d \in Processes /\ <<"token">> \in Wants
    BY DEF Processes, Wants
  <1>2. CASE AcquireLock(d)
    BY <1>1, <1>2, SeeksInv, DiesInv DEF AcquireLock
  <1>3. CASE Advertise(d) \/ Close(d) \/ RemoveEndpoint(d)
    BY <1>1, <1>3, GoesInv DEF Advertise, Close, RemoveEndpoint, Busy
  <1>4. CASE ReleaseLock(d)
    BY <1>4, DiesInv DEF ReleaseLock
  <1> QED
    BY <1>2, <1>3, <1>4

LEMMA NextInv ==
  ASSUME Markers, IInv, [Next]_vars
  PROVE  IInv'
  <1>1. ASSUME NEW p \in Processes,
               \/ Look(p) \/ CreateSecret(p) \/ CreateLost(p) \/ WriteSecret(p)
               \/ Reread(p) \/ Crash(p)
        PROVE  IInv'
    <2>1. CASE Crash(p)
      BY <2>1, DiesInv DEF Crash
    <2> QED
      BY <1>1, <2>1, LookInv, CreateSecretInv, CreateLostInv, WriteSecretInv, RereadInv
  <1>2. CASE Stop
    BY <1>2, DiesInv DEF Stop
  <1>3. CASE PidReused \/ UNCHANGED vars
    <2>1. pc' = pc /\ want' = want /\ held' = held /\ secret' = secret
      BY <1>3 DEF PidReused, vars
    <2>2. SecretsTyped'
      BY <2>1 DEF IInv, SecretsTyped
    <2> QED
      BY <2>1, <2>2, FilesKept
  <1> QED
    BY <1>1, <1>2, <1>3, StartInv, UpInv, BeginsInv, BindInv, DaemonInv DEF Next

-------------------------------------------------------------------------------
\* Everyone who has operator.token or admin.key in memory has the one on disk,
\* for any number of starts that race and die (egress_service.py,
\* egress_broker_host.py, admin_daemon.py).
THEOREM SecretsAgree == Spec => []HoldersAgree
  <1>1. Init => IInv
    BY InitInv
  <1>2. IInv /\ [Next]_vars => IInv'
    BY ConstantsDiffer, NextInv
  <1>3. IInv => HoldersAgree
    BY DEF IInv
  <1> QED
    BY <1>1, <1>2, <1>3, PTL DEF Spec
-------------------------------------------------------------------------------
\* The lock and daemon.json.

PlacesTyped ==
    /\ pc \in [Processes -> States]
    /\ daemonLock \in Processes \cup {None}
    /\ endpoint \in Daemons \cup {None}
    /\ stale \in BOOLEAN /\ pidTaken \in BOOLEAN

Obtaining == {"look", "create", "write", "reread"}

\* Where a process of each kind can be; only the host's broker shuts down.
MayBeAt(p, place) ==
    /\ p \in StartRuns => place \in {Idle, "probing", "probed", "no net", "up"} \cup Obtaining
    /\ p = HostDaemon =>
        place \in {Idle, "lock", "bound", "serving", "closing", "closed"} \cup Obtaining
    /\ p = Broker => place \in {Idle, "lock", "bound", "serving"} \cup Obtaining
InTheirPlaces == \A p \in Processes : MayBeAt(p, pc[p])

\* The places in which a process has the lock, and these alone.
HoldsAt(p, place) ==
    \/ p \in StartRuns /\ place = "probing"
    \/ p \in Daemons /\ place \notin {Idle, "lock"}
LockSaysWho == \A p \in Processes : daemonLock = p <=> HoldsAt(p, pc[p])

\* A daemon that serves, or has begun to close, has its name in daemon.json;
\* a file of the host's broker with that name is stale otherwise.
Advertised(place) == place \in {"serving", "closing"}
FileIsTheServers ==
    /\ \A d \in Daemons : Advertised(pc[d]) => endpoint = d /\ ~stale /\ ~pidTaken
    /\ endpoint = HostDaemon /\ ~stale => Advertised(pc[HostDaemon])
    /\ pidTaken => endpoint = HostDaemon /\ stale

LInv == PlacesTyped /\ InTheirPlaces /\ LockSaysWho /\ FileIsTheServers

LEMMA InitLock == Distinct /\ Init => LInv
  <1> SUFFICES ASSUME Distinct, Init PROVE LInv
    OBVIOUS
  <1>1. \A p \in Processes : pc[p] = "idle"
    BY DEF Init, Idle
  <1>2. PlacesTyped
    BY DEF Init, PlacesTyped, States, Idle
  <1>3. InTheirPlaces /\ LockSaysWho
    BY <1>1 DEF Init, Distinct, InTheirPlaces, MayBeAt, LockSaysWho, HoldsAt, Idle
  <1>4. FileIsTheServers
    BY <1>1 DEF Init, Distinct, FileIsTheServers, Advertised, Processes, Daemons
  <1> QED
    BY <1>2, <1>3, <1>4 DEF LInv

\* A process that moves without taking or leaving the lock, and is advertised
\* before exactly when it is after.
LEMMA MovesLock ==
  ASSUME LInv, NEW p \in Processes, NEW where \in States, Goes(p, where),
         UNCHANGED <<daemonLock, advert>>, MayBeAt(p, where),
         HoldsAt(p, pc[p]) <=> HoldsAt(p, where),
         p \in Daemons => (Advertised(pc[p]) <=> Advertised(where))
  PROVE  LInv'
  <1>1. pc \in [Processes -> States] /\ UNCHANGED <<daemonLock, endpoint, stale, pidTaken>>
    BY DEF LInv, PlacesTyped, advert
  <1>2. \A q \in Processes : pc'[q] = IF q = p THEN where ELSE pc[q]
    BY <1>1 DEF Goes
  <1>3. PlacesTyped'
    BY <1>1 DEF LInv, PlacesTyped, Goes
  <1>4. InTheirPlaces'
    BY <1>2 DEF LInv, InTheirPlaces, MayBeAt
  <1>5. LockSaysWho'
    BY <1>1, <1>2 DEF LInv, LockSaysWho, HoldsAt
  <1>6. \A d \in Daemons : d \in Processes /\ (Advertised(pc'[d]) <=> Advertised(pc[d]))
    BY <1>2 DEF Processes
  <1>7. FileIsTheServers'
    BY <1>1, <1>6 DEF LInv, FileIsTheServers, Daemons
  <1> QED
    BY <1>3, <1>4, <1>5, <1>7 DEF LInv

LEMMA DiesLock ==
  ASSUME Distinct, LInv, NEW ps \in SUBSET Processes, Dies(ps),
         UNCHANGED <<endpoint, pidTaken>>
  PROVE  LInv'
  <1>1. /\ pc \in [Processes -> States] /\ endpoint \in Daemons \cup {None}
        /\ daemonLock \in Processes \cup {None} /\ stale \in BOOLEAN /\ pidTaken \in BOOLEAN
    BY DEF LInv, PlacesTyped
  <1>2. \A q \in Processes : pc'[q] = IF q \in ps THEN "idle" ELSE pc[q]
    BY DEF Dies, Idle
  <1>3. PlacesTyped'
    <2>1. pc' \in [Processes -> States]
      BY <1>1 DEF Dies, States, Idle
    <2>2. daemonLock' \in Processes \cup {None} /\ stale' \in BOOLEAN
      BY <1>1 DEF Dies
    <2> QED
      BY <1>1, <2>1, <2>2 DEF PlacesTyped
  <1>4. InTheirPlaces'
    BY <1>2 DEF LInv, InTheirPlaces, MayBeAt, Idle
  <1>5. LockSaysWho'
    <2>1. daemonLock' = IF daemonLock \in ps THEN None ELSE daemonLock
      BY DEF Dies
    <2>2. \A q \in Processes : HoldsAt(q, pc'[q]) <=> HoldsAt(q, pc[q]) /\ q \notin ps
      BY <1>2 DEF HoldsAt, Idle
    <2> QED
      BY <2>1, <2>2 DEF LInv, LockSaysWho, Distinct
  <1>6. FileIsTheServers'
    <2>1. /\ stale' <=> stale \/ endpoint \in ps
          /\ endpoint' = endpoint /\ pidTaken' = pidTaken
      <3>1. stale' = (stale \/ endpoint \in ps)
        BY DEF Dies
      <3> QED
        BY <3>1
    <2>2. \A d \in Daemons : Advertised(pc'[d]) <=> Advertised(pc[d]) /\ d \notin ps
      BY <1>2 DEF Advertised, Processes
    <2>3. HostDaemon \in Daemons
      BY DEF Daemons
    <2>4. \A d \in Daemons : Advertised(pc'[d]) => endpoint' = d /\ ~stale' /\ ~pidTaken'
      BY <2>1, <2>2 DEF LInv, FileIsTheServers
    <2>5. endpoint' = HostDaemon /\ ~stale' => Advertised(pc'[HostDaemon])
      BY <2>1, <2>2, <2>3 DEF LInv, FileIsTheServers
    <2>6. pidTaken' => endpoint' = HostDaemon /\ stale'
      BY <2>1 DEF LInv, FileIsTheServers
    <2> QED
      BY <2>4, <2>5, <2>6 DEF FileIsTheServers
  <1> QED
    BY <1>3, <1>4, <1>5, <1>6 DEF LInv

-------------------------------------------------------------------------------
\* Obtaining a secret, and what ends in an error on the way.
LEMMA SecretsLock ==
  ASSUME Distinct, LInv, NEW p \in Processes,
         \/ Look(p) \/ CreateSecret(p) \/ CreateLost(p) \/ WriteSecret(p) \/ Reread(p)
  PROVE  LInv'
  <1>1. ASSUME NEW where \in Obtaining, Goes(p, where), pc[p] \in Obtaining,
               UNCHANGED <<daemonLock, advert>>
        PROVE  LInv'
    <2>1. MayBeAt(p, where) /\ where \in States
      BY <1>1 DEF LInv, InTheirPlaces, MayBeAt, Obtaining, States
    <2>2. HoldsAt(p, pc[p]) <=> HoldsAt(p, where)
      BY <1>1 DEF HoldsAt, Obtaining, Idle
    <2>3. Advertised(pc[p]) <=> Advertised(where)
      BY <1>1 DEF Advertised, Obtaining
    <2> QED
      BY <1>1, <2>1, <2>2, <2>3, MovesLock
  <1>2. ASSUME Dies({p}), UNCHANGED <<endpoint, pidTaken>>
        PROVE  LInv'
    BY <1>2, DiesLock
  <1>3. CASE Look(p)
    BY <1>3, <1>1 DEF Look, Obtains, Obtaining
  <1>4. CASE CreateSecret(p) \/ WriteSecret(p)
    BY <1>4, <1>1 DEF CreateSecret, WriteSecret, Obtains, Obtaining
  <1>5. CASE CreateLost(p)
    BY <1>5, <1>1, <1>2 DEF CreateLost, Obtaining, advert
  <1>6. CASE Reread(p)
    BY <1>6, <1>1, <1>2 DEF Reread, Obtains, Obtaining, advert
  <1> QED
    BY <1>3, <1>4, <1>5, <1>6

\* _lock_held has the lock for the time of its look.
LEMMA ProbeLock ==
  ASSUME Distinct, LInv, NEW s \in StartRuns, Probe(s) \/ Probed(s)
  PROVE  LInv'
  <1> DEFINE where == IF pc[s] = "idle" THEN "probing" ELSE "probed"
  <1>1. s \in Processes /\ s \notin Daemons /\ s # None /\ s # HostDaemon /\ s # Broker
    BY DEF Processes, Distinct, Daemons
  <1>2. pc \in [Processes -> States] /\ UNCHANGED <<endpoint, stale, pidTaken>>
    BY DEF LInv, PlacesTyped, Probe, Probed, advert
  <1>3. /\ pc' = [pc EXCEPT ![s] = where] /\ where \in {"probing", "probed"}
        /\ pc[s] = "idle" => daemonLock = None /\ daemonLock' = s
        /\ pc[s] # "idle" => pc[s] = "probing" /\ daemonLock' = None
    BY DEF Probe, Probed, Goes, Idle
  <1>4. where = IF pc[s] = "idle" THEN "probing" ELSE "probed"
    OBVIOUS
  <1> HIDE DEF where
  <1>5. \A q \in Processes : pc'[q] = IF q = s THEN where ELSE pc[q]
    BY <1>2, <1>3
  <1>6. PlacesTyped'
    <2>1. where \in States
      BY <1>3 DEF States
    <2>2. pc' \in [Processes -> States]
      BY <1>2, <1>3, <2>1
    <2>3. daemonLock' \in Processes \cup {None}
      BY <1>1, <1>3
    <2> QED
      BY <1>2, <2>2, <2>3 DEF LInv, PlacesTyped
  <1>7. InTheirPlaces'
    BY <1>1, <1>3, <1>5 DEF LInv, InTheirPlaces, MayBeAt
  <1>8. LockSaysWho'
    <2>1. \A q \in Processes : q # s => (HoldsAt(q, pc'[q]) <=> HoldsAt(q, pc[q]))
      BY <1>5 DEF HoldsAt
    <2>2. HoldsAt(s, pc'[s]) <=> pc[s] = "idle"
      BY <1>1, <1>3, <1>4, <1>5 DEF HoldsAt
    <2>3. \A q \in Processes : q # s => daemonLock # q \/ daemonLock' = q
      <3>1. pc[s] # "idle" => daemonLock = s
        BY <1>1, <1>3 DEF LInv, LockSaysWho, HoldsAt
      <3> QED
        BY <3>1, <1>3 DEF Distinct
    <2>4. \A q \in Processes : q # s => (daemonLock' = q <=> daemonLock = q)
      BY <1>3, <2>3 DEF Distinct
    <2>5. daemonLock' = s <=> pc[s] = "idle"
      BY <1>1, <1>3
    <2> QED
      BY <2>1, <2>2, <2>4, <2>5 DEF LInv, LockSaysWho
  <1>9. FileIsTheServers'
    <2>1. \A d \in Daemons : d \in Processes /\ pc'[d] = pc[d]
      BY <1>1, <1>5 DEF Processes
    <2> QED
      BY <1>2, <2>1 DEF LInv, FileIsTheServers, Daemons
  <1> QED
    BY <1>6, <1>7, <1>8, <1>9 DEF LInv

LEMMA StartLock ==
  ASSUME Distinct, LInv, NEW s \in StartRuns,
         \/ Probe(s) \/ Probed(s) \/ Restart(s) \/ CheckNet(s) \/ CreateNet(s)
         \/ Compose(s) \/ Up(s)
  PROVE  LInv'
  <1>1. s \in Processes /\ s \notin Daemons /\ s # HostDaemon /\ s # Broker
    BY DEF Processes, Distinct, Daemons
  <1>2. ASSUME NEW where \in {"idle", "probed", "no net", "look", "up"}, Goes(s, where),
               pc[s] # "probing", UNCHANGED <<daemonLock, advert>>
        PROVE  LInv'
    <2>1. MayBeAt(s, where) /\ where \in States
      BY <1>1, <1>2 DEF MayBeAt, Obtaining, States, Idle
    <2>2. HoldsAt(s, pc[s]) <=> HoldsAt(s, where)
      BY <1>1, <1>2 DEF HoldsAt
    <2> QED
      BY <1>1, <1>2, <2>1, <2>2, MovesLock
  <1>3. CASE Probe(s) \/ Probed(s)
    BY <1>3, ProbeLock
  <1>4. CASE Restart(s) \/ Compose(s) \/ Up(s)
    BY <1>4, <1>2 DEF Restart, Compose, Up, Idle
  <1>5. CASE CheckNet(s) \/ CreateNet(s)
    BY <1>5, <1>2 DEF CheckNet, CreateNet, Seeks, Idle
  <1> QED
    BY <1>3, <1>4, <1>5

\* The admin goes its way; a daemon begins, and binds what it will advertise.
LEMMA BeginsLock ==
  ASSUME Distinct, LInv, NEW p \in Daemons \cup {Admin}, Begins(p) \/ Bind(p)
  PROVE  LInv'
  <1>1. p \in Processes /\ p \notin StartRuns
    BY DEF Processes, Distinct
  <1>2. CASE p = Admin
    <2>1. p \notin Daemons /\ p # HostDaemon /\ p # Broker
      BY <1>2 DEF Distinct, Daemons
    <2>2. ASSUME NEW where \in {"look", "serving"}, Goes(p, where),
                 UNCHANGED <<daemonLock, advert>>
          PROVE  LInv'
      <3>1. MayBeAt(p, where) /\ where \in States
        BY <1>1, <2>1, <2>2 DEF MayBeAt, States
      <3>2. HoldsAt(p, pc[p]) <=> HoldsAt(p, where)
        BY <1>1, <2>1 DEF HoldsAt
      <3> QED
        BY <1>1, <2>1, <2>2, <3>1, <3>2, MovesLock
    <2> QED
      BY <1>2, <2>1, <2>2 DEF Begins, Bind, Seeks
  <1>3. CASE p # Admin
    <2>1. /\ p \in Daemons /\ UNCHANGED <<daemonLock, advert>>
          /\ \/ pc[p] = "idle" /\ Goes(p, "lock")
             \/ pc[p] = "look" /\ Goes(p, "bound")
      BY <1>3 DEF Begins, Bind, Idle
    <2>2. CASE pc[p] = "idle" /\ Goes(p, "lock")
      <3>1. MayBeAt(p, "lock") /\ "lock" \in States
        BY <1>1 DEF MayBeAt, States
      <3>2. HoldsAt(p, pc[p]) <=> HoldsAt(p, "lock")
        BY <1>1, <2>2 DEF HoldsAt, Idle
      <3>3. Advertised(pc[p]) <=> Advertised("lock")
        BY <2>2 DEF Advertised
      <3> QED
        BY <1>1, <2>1, <2>2, <3>1, <3>2, <3>3, MovesLock
    <2>3. CASE pc[p] = "look" /\ Goes(p, "bound")
      <3>1. MayBeAt(p, "bound") /\ "bound" \in States
        BY <1>1 DEF MayBeAt, States
      <3>2. HoldsAt(p, pc[p]) <=> HoldsAt(p, "bound")
        BY <1>1, <2>3 DEF HoldsAt, Idle
      <3>3. Advertised(pc[p]) <=> Advertised("bound")
        BY <2>3 DEF Advertised
      <3> QED
        BY <1>1, <2>1, <2>3, <3>1, <3>2, <3>3, MovesLock
    <2> QED
      BY <2>1, <2>2, <2>3
  <1> QED
    BY <1>2, <1>3

\* DaemonLock.acquire: the lock was free, so no daemon serves; daemon.json may
\* be that of one that died.
LEMMA AcquireLock_Lock ==
  ASSUME Distinct, LInv, NEW d \in Daemons, AcquireLock(d)
  PROVE  LInv'
  <1>1. d \in Processes /\ d \notin StartRuns /\ d # None
    BY DEF Processes, Distinct
  <1>2. CASE daemonLock # None
    BY <1>1, <1>2, DiesLock DEF AcquireLock
  <1>3. CASE daemonLock = None
    <2>1. /\ pc' = [pc EXCEPT ![d] = "look"] /\ pc[d] = "lock" /\ daemonLock' = d
          /\ UNCHANGED <<endpoint, stale, pidTaken>>
      BY <1>3 DEF AcquireLock, Seeks, Goes
    <2>2. pc \in [Processes -> States]
      BY DEF LInv, PlacesTyped
    <2>3. \A q \in Processes : pc'[q] = IF q = d THEN "look" ELSE pc[q]
      BY <2>1, <2>2
    <2>4. PlacesTyped'
      <3>1. pc' \in [Processes -> States]
        BY <2>1, <2>2 DEF States
      <3> QED
        BY <1>1, <2>1, <3>1 DEF LInv, PlacesTyped
    <2>5. InTheirPlaces'
      BY <1>1, <2>3 DEF LInv, InTheirPlaces, MayBeAt, Obtaining
    <2>6. LockSaysWho'
      <3>1. \A q \in Processes : ~HoldsAt(q, pc[q])
        BY <1>3 DEF LInv, LockSaysWho, Distinct
      <3>2. \A q \in Processes : HoldsAt(q, pc'[q]) <=> q = d
        BY <2>3, <3>1 DEF HoldsAt, Idle
      <3> QED
        BY <2>1, <3>2 DEF LockSaysWho
    <2>7. \A e \in Daemons : e \in Processes /\ (Advertised(pc'[e]) <=> Advertised(pc[e]))
      BY <2>1, <2>3 DEF Advertised, Processes
    <2>8. FileIsTheServers'
      BY <2>1, <2>7 DEF LInv, FileIsTheServers, Daemons
    <2> QED
      BY <2>4, <2>5, <2>6, <2>8 DEF LInv
  <1> QED
    BY <1>2, <1>3

\* Whoever writes daemon.json has the lock, so no other daemon serves.
LEMMA AdvertiseLock ==
  ASSUME Distinct, LInv, NEW d \in Daemons, Advertise(d)
  PROVE  LInv'
  <1>1. d \in Processes /\ d \notin StartRuns
    BY DEF Processes, Distinct
  <1>2. /\ pc' = [pc EXCEPT ![d] = "serving"] /\ pc[d] = "bound"
        /\ endpoint' = d /\ stale' = FALSE /\ pidTaken' = FALSE /\ daemonLock' = daemonLock
    BY DEF Advertise, Goes
  <1>3. pc \in [Processes -> States]
    BY DEF LInv, PlacesTyped
  <1>4. \A q \in Processes : pc'[q] = IF q = d THEN "serving" ELSE pc[q]
    BY <1>2, <1>3
  <1>5. PlacesTyped'
    <2>1. pc' \in [Processes -> States]
      BY <1>2, <1>3 DEF States
    <2> QED
      BY <1>2, <2>1 DEF LInv, PlacesTyped
  <1>6. InTheirPlaces'
    BY <1>1, <1>4 DEF LInv, InTheirPlaces, MayBeAt, Obtaining
  <1>7. LockSaysWho'
    <2>1. \A q \in Processes : HoldsAt(q, pc'[q]) <=> HoldsAt(q, pc[q])
      BY <1>1, <1>2, <1>4 DEF HoldsAt, Idle
    <2> QED
      BY <1>2, <2>1 DEF LInv, LockSaysWho
  <1>8. FileIsTheServers'
    <2>1. daemonLock = d
      BY <1>1, <1>2 DEF LInv, LockSaysWho, HoldsAt, Idle
    <2>2. ASSUME NEW e \in Daemons, e # d
          PROVE  ~Advertised(pc'[e])
      <3>1. e \in Processes /\ ~HoldsAt(e, pc[e]) /\ pc'[e] = pc[e]
        BY <1>4, <2>1, <2>2 DEF LInv, LockSaysWho, Processes
      <3> QED
        BY <3>1 DEF HoldsAt, Advertised, Idle
    <2>3. Advertised(pc'[d])
      BY <1>1, <1>4 DEF Advertised
    <2> QED
      BY <1>2, <2>2, <2>3 DEF FileIsTheServers
  <1> QED
    BY <1>5, <1>6, <1>7, <1>8 DEF LInv

\* The file goes while the lock is still held, so it is the daemon's own.
LEMMA RemoveEndpointLock ==
  ASSUME Distinct, LInv, NEW d \in Daemons, RemoveEndpoint(d)
  PROVE  LInv'
  <1>1. d \in Processes /\ d \notin StartRuns
    BY DEF Processes, Distinct
  <1>2. /\ pc' = [pc EXCEPT ![d] = "closed"] /\ pc[d] = "closing"
        /\ endpoint' = None /\ stale' = FALSE /\ pidTaken' = FALSE /\ daemonLock' = daemonLock
    BY DEF RemoveEndpoint, Goes
  <1>3. pc \in [Processes -> States] /\ d = HostDaemon
    BY <1>1, <1>2 DEF LInv, PlacesTyped, InTheirPlaces, MayBeAt, Daemons, Obtaining, Idle
  <1>4. \A q \in Processes : pc'[q] = IF q = d THEN "closed" ELSE pc[q]
    BY <1>2, <1>3
  <1>5. PlacesTyped'
    <2>1. pc' \in [Processes -> States]
      BY <1>2, <1>3 DEF States
    <2> QED
      BY <1>2, <2>1 DEF LInv, PlacesTyped
  <1>6. InTheirPlaces'
    BY <1>1, <1>3, <1>4 DEF LInv, InTheirPlaces, MayBeAt, Obtaining, Distinct
  <1>7. LockSaysWho'
    <2>1. \A q \in Processes : HoldsAt(q, pc'[q]) <=> HoldsAt(q, pc[q])
      BY <1>1, <1>2, <1>4 DEF HoldsAt, Idle
    <2> QED
      BY <1>2, <2>1 DEF LInv, LockSaysWho
  <1>8. FileIsTheServers'
    <2>1. endpoint = d
      BY <1>2 DEF LInv, FileIsTheServers, Advertised
    <2>2. \A e \in Daemons : ~Advertised(pc'[e])
      BY <1>4, <2>1 DEF LInv, FileIsTheServers, Advertised, Processes
    <2>3. endpoint' # HostDaemon
      BY <1>1, <1>2, <1>3 DEF Distinct
    <2> QED
      BY <1>2, <2>2, <2>3 DEF FileIsTheServers
  <1> QED
    BY <1>5, <1>6, <1>7, <1>8 DEF LInv

LEMMA DaemonLock ==
  ASSUME Distinct, LInv, NEW d \in Daemons,
         \/ AcquireLock(d) \/ Advertise(d) \/ Close(d) \/ RemoveEndpoint(d) \/ ReleaseLock(d)
  PROVE  LInv'
  <1>1. d \in Processes /\ d \notin StartRuns
    BY DEF Processes, Distinct
  <1>2. CASE Close(d)
    <2>1. Goes(d, "closing") /\ pc[d] = "serving" /\ UNCHANGED <<daemonLock, advert>>
      BY <1>2 DEF Close
    <2>2. MayBeAt(d, "closing") /\ "closing" \in States
      BY <1>1, <1>2 DEF Close, MayBeAt, Distinct, States
    <2>3. HoldsAt(d, pc[d]) <=> HoldsAt(d, "closing")
      BY <1>1, <2>1 DEF HoldsAt, Idle
    <2>4. Advertised(pc[d]) <=> Advertised("closing")
      BY <2>1 DEF Advertised
    <2> QED
      BY <1>1, <2>1, <2>2, <2>3, <2>4, MovesLock
  <1>3. CASE ReleaseLock(d)
    BY <1>1, <1>3, DiesLock DEF ReleaseLock
  <1> QED
    BY <1>2, <1>3, AcquireLock_Lock, AdvertiseLock, RemoveEndpointLock

LEMMA NextLock ==
  ASSUME Distinct, LInv, [Next]_vars
  PROVE  LInv'
  <1>1. ASSUME NEW p \in Processes, Crash(p)
        PROVE  LInv'
    BY <1>1, DiesLock DEF Crash
  <1>2. CASE Stop
    <2>1. {Broker, Admin} \in SUBSET Processes
      BY DEF Processes, Daemons
    <2> QED
      BY <1>2, <2>1, DiesLock DEF Stop
  <1>3. CASE PidReused
    <2>1. /\ endpoint = HostDaemon /\ stale /\ pidTaken' = TRUE
          /\ UNCHANGED <<pc, daemonLock, endpoint, stale>>
      BY <1>3 DEF PidReused
    <2>2. FileIsTheServers'
      BY <2>1 DEF LInv, FileIsTheServers
    <2>3. PlacesTyped' /\ InTheirPlaces' /\ LockSaysWho'
      BY <2>1 DEF LInv, PlacesTyped, InTheirPlaces, LockSaysWho
    <2> QED
      BY <2>2, <2>3 DEF LInv
  <1>4. CASE UNCHANGED vars
    BY <1>4 DEF vars, advert, LInv, PlacesTyped, InTheirPlaces, LockSaysWho, FileIsTheServers
  <1> QED
    BY <1>1, <1>2, <1>3, <1>4, SecretsLock, StartLock, BeginsLock, DaemonLock DEF Next

\* A caller is sent to the broker that serves and to no other, for any number
\* of starts, restarts and deaths (read_daemon_endpoint, DaemonLock, run_daemon).
THEOREM EndpointIsTheServer == Spec => []CallersFindTheBroker
  <1>0. Distinct
    BY ConstantsDiffer
  <1>1. Init => LInv
    BY <1>0, InitLock
  <1>2. LInv /\ [Next]_vars => LInv'
    BY <1>0, NextLock
  <1>3. LInv => CallersFindTheBroker
    <2> SUFFICES ASSUME LInv PROVE CallersFindTheBroker
      OBVIOUS
    <2>1. HostDaemon \in Daemons /\ Broker \in Daemons /\ None \notin Daemons
      BY <1>0 DEF Daemons, Distinct, Processes
    <2>2. ASSUME NEW d \in Daemons, pc[d] = "serving"
          PROVE  LiveEndpoint = d
      <3>1. endpoint = d /\ ~stale
        BY <2>2 DEF LInv, FileIsTheServers, Advertised
      <3> QED
        BY <1>0, <2>1, <2>2, <3>1 DEF LiveEndpoint, Distinct
    <2>3. ASSUME LiveEndpoint # None, ~pidTaken
          PROVE  /\ pc[LiveEndpoint] \in {"bound", "serving", "closing"}
                 /\ daemonLock = LiveEndpoint
      <3>1. LiveEndpoint = endpoint /\ endpoint \in Daemons /\ endpoint \in Processes
        BY <2>3 DEF LiveEndpoint, LInv, PlacesTyped, Processes
      <3>2. pc[endpoint] \in {"bound", "serving", "closing"}
        <4>1. CASE endpoint = Broker
          BY <2>3, <4>1 DEF LiveEndpoint
        <4>2. CASE endpoint = HostDaemon
          BY <2>3, <4>2 DEF LiveEndpoint, LInv, FileIsTheServers, Advertised
        <4> QED
          BY <3>1, <4>1, <4>2 DEF Daemons
      <3>3. HoldsAt(endpoint, pc[endpoint])
        BY <3>1, <3>2 DEF HoldsAt, Idle
      <3> QED
        BY <3>1, <3>2, <3>3 DEF LInv, LockSaysWho
    <2> QED
      BY <2>2, <2>3 DEF CallersFindTheBroker
  <1> QED
    BY <1>1, <1>2, <1>3, PTL DEF Spec
===============================================================================
