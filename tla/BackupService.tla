---------------------------- MODULE BackupService ----------------------------
(***************************************************************************)
(* The artifact backup: host commands that create its files and start its  *)
(* containers (src/src/backup_config.py, backup_host.py), the scheduler in *)
(* its container, which initialises the restic repository once             *)
(* (src/src/backup_service.py), the seeding of the browser's configuration *)
(* (src/src/backup_browser.py) and restores (src/src/backup_restore.py).   *)
(* Commands run side by side and die anywhere, the container is stopped or *)
(* killed at any step and restarted by docker, and restic fails when it    *)
(* likes; restic and docker are modelled by what the code relies on.       *)
(***************************************************************************)
EXTENDS Naturals, Sequences, SequencesExt

CONSTANTS Ops,       \* commands of an operator
          Daemon,    \* the scheduler
          Once,      \* `backup_service.py backup', run in the container by hand
          Targets,   \* directories restored to (paths)
          Protected, \* what must not be restored over (paths)
          Absent,    \* no file
          Empty,     \* a file that was created and not written
          Partial    \* a repository whose initialisation did not end

VARIABLES pc,       \* where each command and process is
          password, \* restic-password: Absent, Empty, or who wrote it
          compose,  \* backup.yml has been written
          up,       \* the backup container runs
          repo,     \* the repository: Absent (an empty directory), Partial, or its id
          export,   \* restic-repo/config.json: Absent, or the id in it
          litter,   \* whose temporary file of an export is there
          browser,  \* Backrest's config.json: Absent, Empty, or the id in it
          restored  \* directories a restore wrote to

vars == <<pc, password, compose, up, repo, export, litter, browser, restored>>
files == <<password, compose, browser, restored>>

Services == {Daemon, Once}
RepoIds == Services

\* Assumed: commands, services, markers and the names of a command's steps are
\* distinct.
BackupSteps == {"password", "write", "compose", "up", "seed"}
BackupNames ==
    /\ Ops \cap Services = {}
    /\ {Absent, Empty, Partial} \cap (Ops \cup Services) = {}
    /\ Absent # Empty /\ Absent # Partial
    /\ RepoIds \cap BackupSteps = {}

Initialised == repo \in RepoIds
Opens == Initialised /\ password \in Ops

TypeOK ==
    /\ password \in {Absent, Empty} \cup Ops /\ browser \in {Absent, Empty} \cup RepoIds
    /\ repo \in {Absent, Partial} \cup RepoIds /\ export \in {Absent} \cup RepoIds
    /\ \A s \in Services : pc[s] # "off" => up
    /\ litter \subseteq Services /\ restored \subseteq Targets

Init ==
    /\ pc = [p \in Ops \cup Services |-> IF p \in Ops THEN "idle" ELSE "off"]
    /\ password = Absent /\ compose = FALSE /\ up = FALSE
    /\ repo = Absent /\ export = Absent /\ litter = {}
    /\ browser = Absent /\ restored = {}

To(p, s) == pc' = [pc EXCEPT ![p] = s]

-----------------------------------------------------------------------------
\* cmd_start, cmd_browser_start: ensure_layout, the compose file, then docker.
Command(o) ==
    /\ pc[o] = "idle"
    /\ \E c \in {"start", "browser"} : To(o, <<c, "password">>)
    /\ UNCHANGED <<files, up, repo, export, litter>>

\* Mutant: the file is opened without O_EXCL, and truncated.
CreatePassword_Truncates(o) ==
    /\ pc[o][2] = "password"
    /\ password' = Empty /\ To(o, <<pc[o][1], "write">>)
    /\ UNCHANGED <<compose, up, repo, export, litter, browser, restored>>

\* An existing password file is taken, whatever is in it.
CreatePassword(o) ==
    /\ pc[o][2] = "password"
    /\ IF password = Absent THEN password' = Empty /\ To(o, <<pc[o][1], "write">>)
       ELSE UNCHANGED password /\ To(o, <<pc[o][1], "compose">>)
    /\ UNCHANGED <<compose, up, repo, export, litter, browser, restored>>

WritePassword(o) ==
    /\ pc[o][2] = "write"
    /\ password' = o /\ To(o, <<pc[o][1], "compose">>)
    /\ UNCHANGED <<compose, up, repo, export, litter, browser, restored>>

WriteCompose(o) ==
    /\ pc[o][2] = "compose"
    /\ compose' = TRUE /\ To(o, <<pc[o][1], IF pc[o][1] = "start" THEN "up" ELSE "seed">>)
    /\ UNCHANGED <<password, up, repo, export, litter, browser, restored>>

\* docker compose up -d leaves a running container alone.
Up(o) ==
    /\ pc[o][2] = "up"
    /\ up' = TRUE
    /\ pc' = [pc EXCEPT ![o] = "idle", ![Daemon] = IF up THEN @ ELSE "probe"]
    /\ UNCHANGED <<files, repo, export, litter>>

\* seed_backrest_config: an existing file is left alone, a repository without
\* an export is an error, and nothing is seeded before there is a repository.
SeedsFrom == IF Initialised THEN export ELSE Absent

Seed(o) ==
    /\ pc[o][2] = "seed"
    /\ IF browser = Absent /\ SeedsFrom # Absent
       THEN browser' = Empty /\ To(o, <<"browser", SeedsFrom>>)
       ELSE UNCHANGED browser /\ To(o, "idle")
    /\ UNCHANGED <<password, compose, up, repo, export, litter, restored>>

WriteSeed(o) ==
    /\ pc[o][2] \in RepoIds
    /\ browser' = pc[o][2] /\ To(o, "idle")
    /\ UNCHANGED <<password, compose, up, repo, export, litter, restored>>

Stop(o) ==
    /\ pc[o] = "idle" /\ compose /\ up
    /\ up' = FALSE
    /\ pc' = [pc EXCEPT ![Daemon] = "off", ![Once] = "off"]
    /\ UNCHANGED <<files, repo, export, litter>>

\* validate_restore_target: neither inside nor around anything protected, and
\* empty; the directory is bound to a container of its own, which needs no
\* running scheduler.
Overlap(a, b) == IsPrefix(a, b) \/ IsPrefix(b, a)

Clear(t) == \A q \in Protected : ~Overlap(t, q)

Restore(o, t) ==
    /\ pc[o] = "idle" /\ compose /\ Clear(t) /\ t \notin restored
    /\ \/ Opens /\ restored' = restored \cup {t}
       \/ UNCHANGED restored
    /\ UNCHANGED <<pc, password, compose, up, repo, export, litter, browser>>

Dies(o) ==
    /\ pc[o] # "idle" /\ To(o, "idle")
    /\ UNCHANGED <<files, up, repo, export, litter>>

-----------------------------------------------------------------------------
\* ensure_repo_initialized, by the scheduler or by a second process beside it.
OnceStarts ==
    /\ up /\ pc[Once] = "off" /\ To(Once, "probe")
    /\ UNCHANGED <<files, up, repo, export, litter>>

\* restic snapshots: it may fail although the repository is fine.
Probe(s) ==
    /\ pc[s] = "probe"
    /\ \/ Opens /\ To(s, "export")
       \/ To(s, "look")
    /\ UNCHANGED <<files, up, repo, export, litter>>

HasData == repo # Absent \/ export # Absent \/ litter # {}

Look(s) ==
    /\ pc[s] = "look"
    /\ To(s, IF HasData THEN "error" ELSE "init")
    /\ UNCHANGED <<files, up, repo, export, litter>>

\* restic init refuses a repository that has a config, and an empty password.
InitStarts(s) ==
    /\ pc[s] = "init"
    /\ IF Initialised THEN To(s, "export") /\ UNCHANGED repo
       ELSE IF password \notin Ops THEN To(s, "retry") /\ UNCHANGED repo
       ELSE repo' = Partial /\ To(s, "initialising")
    /\ UNCHANGED <<files, up, export, litter>>

InitEnds(s) ==
    /\ pc[s] = "initialising"
    /\ repo' = IF repo = Partial THEN s ELSE repo
    /\ To(s, "export")
    /\ UNCHANGED <<files, up, export, litter>>

Retry(s) ==
    /\ pc[s] = "retry"
    /\ To(s, IF Opens THEN "export" ELSE "error")
    /\ UNCHANGED <<files, up, repo, export, litter>>

\* _export_restic_config_json: through a temporary file created with O_EXCL;
\* one left by a process of the same number makes it fail, once.  A failure is
\* only logged.
Export(s) ==
    /\ pc[s] = "export"
    /\ \/ s \in litter /\ litter' = litter \ {s} /\ To(s, "loop") /\ UNCHANGED export
       \/ s \notin litter /\ litter' = litter \cup {s} /\ To(s, "replace") /\ UNCHANGED export
       \/ To(s, "loop") /\ UNCHANGED <<export, litter>>
    /\ UNCHANGED <<files, up, repo>>

Replace(s) ==
    /\ pc[s] = "replace"
    /\ export' = repo /\ litter' = litter \ {s} /\ To(s, "loop")
    /\ UNCHANGED <<files, up, repo>>

\* After its backup the second process is done; the scheduler goes on, and
\* logs what fails.
Finishes ==
    /\ pc[Once] \in {"loop", "error"} /\ To(Once, "off")
    /\ UNCHANGED <<files, up, repo, export, litter>>

\* The scheduler exits with an error or is killed; docker starts it again.
Restarts ==
    /\ pc[Daemon] \notin {"off", "probe"} /\ To(Daemon, "probe")
    /\ UNCHANGED <<files, up, repo, export, litter>>

Next ==
    \/ \E o \in Ops :
         \/ Command(o) \/ Stop(o) \/ Dies(o) \/ \E t \in Targets : Restore(o, t)
         \/ /\ pc[o] # "idle"
            /\ \/ CreatePassword(o) \/ WritePassword(o) \/ WriteCompose(o)
               \/ Up(o) \/ Seed(o) \/ WriteSeed(o)
    \/ \E s \in Services :
         \/ Probe(s) \/ Look(s) \/ InitStarts(s) \/ InitEnds(s) \/ Retry(s)
         \/ Export(s) \/ Replace(s)
    \/ OnceStarts \/ Finishes \/ Restarts

Spec == Init /\ [][Next]_vars

-----------------------------------------------------------------------------
\* However commands and restarts race, a repository is initialised once and
\* never over data, a password that was written stays, and so does a browser
\* configuration: what one process created no other replaces.
NothingIsOverwritten ==
    [][/\ Initialised => repo' = repo
       /\ repo = Partial => repo' # Absent
       /\ password \in Ops => password' = password
       /\ browser \in RepoIds => browser' = browser]_vars
==============================================================================
