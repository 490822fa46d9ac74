---------------------------- MODULE EgressService ----------------------------
(***************************************************************************)
(* The life of the egress daemons around the broker itself                 *)
(* (src/src/egress_service.py, the daemon parts of egress_broker_host.py   *)
(* and admin_daemon.py, ensure_net.py): `djinn egress start' runs on the   *)
(* host, the broker and admin containers that docker restarts, a broker    *)
(* run by hand on the host, the lock that allows one broker, the secrets   *)
(* all of them create or read, and daemon.json, by which callers find the  *)
(* broker.  Any of them may die between two steps; nothing but a clean     *)
(* shutdown of the host's broker cleans up behind itself.                  *)
(*                                                                         *)
(* A secret is the name of the process that made it up.                    *)
(***************************************************************************)
EXTENDS Naturals, Sequences

CONSTANTS StartRuns,  \* runs of `djinn egress start'
          HostDaemon, \* egress_broker_host.py run by hand
          Broker,     \* the broker container
          Admin,      \* the admin container
          NoFile,     \* no file
          Empty,      \* a file that was created and not yet written
          None

VARIABLES pc,        \* where each process is
          want,      \* the secrets it has still to obtain
          held,      \* the secrets it has in memory
          secret,    \* operator.token and admin.key on disk
          daemonLock,\* who holds daemon.lock
          endpoint,  \* daemon.json: who wrote it
          stale,     \* that process is gone
          pidTaken,  \* and its pid belongs to another process now
          net,       \* djinn-net exists
          composed,  \* docker-compose.yml exists
          wanted     \* the project is up: docker restarts its containers

vars == <<pc, want, held, secret, daemonLock, endpoint, stale, pidTaken, net, composed, wanted>>
advert == <<endpoint, stale, pidTaken>>
project == <<net, composed, wanted>>

Daemons == {HostDaemon, Broker}
Processes == StartRuns \cup Daemons \cup {Admin}
Secrets == {"token", "key"}

ASSUME ServiceAssumption ==
    \* No process has two roles; the markers are no process.
    /\ HostDaemon # Broker /\ Admin \notin StartRuns \cup Daemons /\ StartRuns \cap Daemons = {}
    /\ {NoFile, Empty, None} \cap Processes = {} /\ NoFile # Empty

Idle == "idle"
States == {Idle, "probing", "probed", "no net", "lock", "look", "create", "write", "reread",
           "compose", "up", "bound", "serving", "closing", "closed"}

TypeOK ==
    /\ pc \in [Processes -> States]
    /\ want \in [Processes -> {<<>>, <<"token">>, <<"key">>, <<"token", "key">>}]
    /\ held \in [Processes -> [Secrets -> Processes \cup {NoFile}]]
    /\ secret \in [Secrets -> Processes \cup {NoFile, Empty}]
    /\ daemonLock \in Processes \cup {None}
    /\ endpoint \in Daemons \cup {None}
    /\ stale \in BOOLEAN /\ pidTaken \in BOOLEAN
    /\ net \in BOOLEAN /\ composed \in BOOLEAN /\ wanted \in BOOLEAN

Nothing == [f \in Secrets |-> NoFile]

Init ==
    /\ pc = [p \in Processes |-> Idle]
    /\ want = [p \in Processes |-> <<>>]
    /\ held = [p \in Processes |-> Nothing]
    /\ secret = Nothing
    /\ daemonLock = None /\ endpoint = None /\ stale = FALSE /\ pidTaken = FALSE
    /\ net = FALSE /\ composed = FALSE /\ wanted = FALSE

-----------------------------------------------------------------------------
Goes(p, where) == pc' = [pc EXCEPT ![p] = where]

Seeks(p, secrets) ==
    /\ Goes(p, "look")
    /\ want' = [want EXCEPT ![p] = secrets]

\* A process ends, by an error or by being killed: the system drops its lock.
Dies(ps) ==
    /\ pc' = [p \in Processes |-> IF p \in ps THEN Idle ELSE pc[p]]
    /\ want' = [p \in Processes |-> IF p \in ps THEN <<>> ELSE want[p]]
    /\ held' = [p \in Processes |-> IF p \in ps THEN Nothing ELSE held[p]]
    /\ daemonLock' = IF daemonLock \in ps THEN None ELSE daemonLock
    /\ stale' = (stale \/ endpoint \in ps)

-----------------------------------------------------------------------------
\* Secrets: _load_secret_token (operator.token) and ensure_admin_key.

Whole(f) == secret[f] \notin {NoFile, Empty}

Obtains(p) ==
    /\ held' = [held EXCEPT ![p][Head(want[p])] = secret'[Head(want[p])]]
    /\ want' = [want EXCEPT ![p] = Tail(@)]
    /\ Goes(p, "look")

Look(p) ==
    /\ pc[p] = "look" /\ want[p] # <<>>
    /\ IF Whole(Head(want[p]))
       THEN /\ UNCHANGED secret
            /\ Obtains(p)
       ELSE Goes(p, "create") /\ UNCHANGED <<secret, held, want>>
    /\ UNCHANGED <<daemonLock, advert, project>>

\* Mutant: the file is opened without O_EXCL.
CreateSecret_Truncates(p) ==
    /\ pc[p] = "create"
    /\ secret' = [secret EXCEPT ![Head(want[p])] = Empty]
    /\ Goes(p, "write")
    /\ UNCHANGED <<want, held, daemonLock, advert, project>>

\* open(O_CREAT | O_EXCL).
CreateSecret(p) ==
    /\ pc[p] = "create" /\ secret[Head(want[p])] = NoFile
    /\ secret' = [secret EXCEPT ![Head(want[p])] = Empty]
    /\ Goes(p, "write")
    /\ UNCHANGED <<want, held, daemonLock, advert, project>>

\* Somebody else created it first: the admin, and whoever wants the key, wait
\* and read again; for the rest the error ends the process.
CreateLost(p) ==
    /\ pc[p] = "create" /\ secret[Head(want[p])] # NoFile
    /\ IF p = Admin \/ Head(want[p]) = "key"
       THEN Goes(p, "reread") /\ UNCHANGED <<want, held, daemonLock, stale>>
       ELSE Dies({p})
    /\ UNCHANGED <<secret, endpoint, pidTaken, project>>

WriteSecret(p) ==
    /\ pc[p] = "write"
    /\ secret' = [secret EXCEPT ![Head(want[p])] = p]
    /\ Obtains(p)
    /\ UNCHANGED <<daemonLock, advert, project>>

Reread(p) ==
    /\ pc[p] = "reread"
    /\ UNCHANGED <<secret, endpoint, pidTaken, project>>
    /\ IF Whole(Head(want[p]))
       THEN Obtains(p) /\ UNCHANGED <<daemonLock, stale>>
       ELSE Dies({p})

-----------------------------------------------------------------------------
\* `djinn egress start' (cmd_start).

\* _lock_held takes the lock to see whether it is free ...
Probe(s) ==
    /\ pc[s] = Idle /\ daemonLock = None
    /\ daemonLock' = s
    /\ Goes(s, "probing")
    /\ UNCHANGED <<want, held, secret, advert, project>>

\* ... and gives it back.
Probed(s) ==
    /\ pc[s] = "probing"
    /\ daemonLock' = None
    /\ Goes(s, "probed")
    /\ UNCHANGED <<want, held, secret, advert, project>>

\* The lock is held: only a running broker container makes that a restart;
\* otherwise the start is refused and nothing changes.
Restart(s) ==
    /\ pc[s] = Idle /\ daemonLock # None /\ pc[Broker] # Idle
    /\ Goes(s, "probed")
    /\ UNCHANGED <<want, held, secret, daemonLock, advert, project>>

\* ensure_net: look for djinn-net, create it, and look again when that fails.
CheckNet(s) ==
    /\ pc[s] = "probed"
    /\ IF net THEN Seeks(s, <<"token", "key">>) ELSE Goes(s, "no net") /\ UNCHANGED want
    /\ UNCHANGED <<held, secret, daemonLock, advert, project>>

CreateNet(s) ==
    /\ pc[s] = "no net"
    /\ \/ net' = TRUE /\ Seeks(s, <<"token", "key">>)
       \/ ~net /\ UNCHANGED <<net, want>> /\ Goes(s, Idle)
    /\ UNCHANGED <<held, secret, daemonLock, advert, composed, wanted>>

\* write_compose_file replaces the file in one step.
Compose(s) ==
    /\ s \in StartRuns /\ pc[s] = "look" /\ want[s] = <<>>
    /\ composed' = TRUE
    /\ Goes(s, "up")
    /\ UNCHANGED <<want, held, secret, daemonLock, advert, net, wanted>>

\* docker compose up; the start then prints the URL with the key of the file.
Up(s) ==
    /\ pc[s] = "up"
    /\ wanted' = TRUE
    /\ Goes(s, Idle)
    /\ held' = [held EXCEPT ![s] = Nothing]
    /\ UNCHANGED <<want, secret, daemonLock, advert, net, composed>>

\* cmd_stop: docker compose down kills both containers where they are.
Stop ==
    /\ composed /\ wanted /\ wanted' = FALSE
    /\ Dies({Broker, Admin})
    /\ UNCHANGED <<secret, endpoint, pidTaken, net, composed>>

-----------------------------------------------------------------------------
\* The daemons (run_daemon of both).

\* By hand, or by docker's restart policy.
Begins(p) ==
    /\ pc[p] = Idle
    /\ \/ p = HostDaemon /\ Goes(p, "lock") /\ UNCHANGED want
       \/ p = Broker /\ wanted /\ Goes(p, "lock") /\ UNCHANGED want
       \/ p = Admin /\ wanted /\ Seeks(p, <<"token", "key">>)
    /\ UNCHANGED <<held, secret, daemonLock, advert, project>>

\* DaemonLock.acquire: with the lock held elsewhere the daemon gives up.
AcquireLock(d) ==
    /\ pc[d] = "lock"
    /\ IF daemonLock = None
       THEN daemonLock' = d /\ Seeks(d, <<"token">>) /\ UNCHANGED <<held, stale>>
       ELSE Dies({d})
    /\ UNCHANGED <<secret, endpoint, pidTaken, project>>

\* The HTTP server is bound; the admin needs nothing more.
Bind(p) ==
    /\ p \notin StartRuns /\ pc[p] = "look" /\ want[p] = <<>>
    /\ Goes(p, IF p = Admin THEN "serving" ELSE "bound")
    /\ UNCHANGED <<want, held, secret, daemonLock, advert, project>>

\* write_daemon_endpoint.
Advertise(d) ==
    /\ pc[d] = "bound"
    /\ endpoint' = d /\ stale' = FALSE /\ pidTaken' = FALSE
    /\ Goes(d, "serving")
    /\ UNCHANGED <<want, held, secret, daemonLock, project>>

\* Ctrl-C at the host's broker: the server closes, daemon.json goes, and the
\* lock last.
Close(d) ==
    /\ d = HostDaemon /\ pc[d] = "serving"
    /\ Goes(d, "closing")
    /\ UNCHANGED <<want, held, secret, daemonLock, advert, project>>

\* Mutant: the lock is released before daemon.json is removed.
RemoveEndpoint_UnlocksFirst(d) ==
    /\ pc[d] = "closing"
    /\ IF daemonLock = d
       THEN daemonLock' = None /\ UNCHANGED <<pc, advert>>
       ELSE endpoint' = None /\ stale' = FALSE /\ pidTaken' = FALSE /\ Goes(d, "closed")
            /\ UNCHANGED daemonLock
    /\ UNCHANGED <<want, held, secret, project>>

RemoveEndpoint(d) ==
    /\ pc[d] = "closing"
    /\ endpoint' = None /\ stale' = FALSE /\ pidTaken' = FALSE
    /\ Goes(d, "closed")
    /\ UNCHANGED <<want, held, secret, daemonLock, project>>

ReleaseLock(d) ==
    /\ pc[d] = "closed"
    /\ Dies({d})
    /\ UNCHANGED <<secret, endpoint, pidTaken, project>>

Crash(p) ==
    /\ pc[p] # Idle
    /\ Dies({p})
    /\ UNCHANGED <<secret, endpoint, pidTaken, project>>

\* A pid that daemon.json still names goes to another process.
PidReused ==
    /\ endpoint = HostDaemon /\ stale /\ pidTaken' = TRUE
    /\ UNCHANGED <<pc, want, held, secret, daemonLock, endpoint, stale, project>>

Next ==
    \/ \E p \in Processes :
        \/ Look(p) \/ CreateSecret(p) \/ CreateLost(p) \/ WriteSecret(p) \/ Reread(p) \/ Crash(p)
    \/ \E s \in StartRuns :
        Probe(s) \/ Probed(s) \/ Restart(s) \/ CheckNet(s) \/ CreateNet(s) \/ Compose(s) \/ Up(s)
    \/ \E p \in Daemons \cup {Admin} : Begins(p) \/ Bind(p)
    \/ \E d \in Daemons :
        AcquireLock(d) \/ Advertise(d) \/ Close(d) \/ RemoveEndpoint(d) \/ ReleaseLock(d)
    \/ Stop \/ PidReused

Spec == Init /\ [][Next]_vars

-----------------------------------------------------------------------------
\* read_daemon_endpoint: the daemon a caller is sent to, if any.  A container
\* answers /health or does not; a broker on the host is taken to live as long
\* as its pid does.
LiveEndpoint ==
    IF \/ endpoint = None
       \/ endpoint = Broker /\ pc[Broker] \notin {"bound", "serving"}
       \/ endpoint = HostDaemon /\ stale /\ ~pidTaken
    THEN None ELSE endpoint

\* Everyone who has a secret in memory has the one on disk: the URL that
\* `djinn egress url' prints opens the admin that runs, and the broker accepts
\* the operator's token, however the starts and the daemons raced to create
\* the files and died in between.
HoldersAgree ==
    \A p \in Processes, f \in Secrets : held[p][f] # NoFile => held[p][f] = secret[f]

\* Callers find the broker that serves, and are sent to no other: a daemon
\* that shuts down never takes the file of its successor with it, and one
\* that died leaves no file that is believed, except for a pid used again.
CallersFindTheBroker ==
    /\ \A d \in Daemons : pc[d] = "serving" => LiveEndpoint = d
    /\ LiveEndpoint # None /\ ~pidTaken =>
        /\ pc[LiveEndpoint] \in {"bound", "serving", "closing"}
        /\ daemonLock = LiveEndpoint
==============================================================================
