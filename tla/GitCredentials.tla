--------------------------- MODULE GitCredentials ---------------------------
(***************************************************************************)
(* Which token a process of a bottle presents to which git host:           *)
(* manifest.py turns git.hosts into tables (src/src/manifest.py), `up'     *)
(* writes one env file per identity from them (keyfiles.sh), a launcher    *)
(* clears what it inherited and sources its identity's file                *)
(* (agent_shim.sh, clear-git-identity.sh), and the credential helper       *)
(* answers from the environment it runs in (git-credential-org.sh).        *)
(* Launchers nest, and processes outlive the key files they started from.  *)
(* The env files carry the secret slots of plugins too (agent_secrets),    *)
(* which a launcher does not clear.                                        *)
(*                                                                         *)
(* A variable of secrets.env stands for its value.                         *)
(***************************************************************************)
EXTENDS Naturals, Sequences, FiniteSets, Functions

CONSTANTS Keys,       \* spellings of hosts in git.hosts
          Host,       \* the host each is normalised to, or None (not a host)
          CliHost,    \* github.com
          CliVar,     \* GH_TOKEN, the variable gh reads
          GhVars,     \* the variables a launcher unsets by name, CliVar among them
          Vars,       \* the other names a token: may give
          Present,    \* those that secrets.env defines
          Identities, \* shims the bottle runs
          User,       \* the human's shell
          Sections,   \* the git.hosts sections a bottle is brought up with
          Later,      \* those its manifest is changed to
          Bindings,   \* what agent_secrets may say: per identity slot -> source
          Processes,
          None

VARIABLES hosts,   \* git.hosts: a sequence of [key, form, entries]
          derived, \* what manifest.py made of it
          keyfiles,\* per identity its env file, or None
          slots,   \* the agent_secrets records
          writing, \* what this run of up has still to write, of which file
          env      \* per process: [ident, table, vars, file], or None

vars == <<hosts, derived, keyfiles, slots, writing, env>>

Hosts == Range(Host) \ {None}
Known == Identities \cup {User}
NoRows == [h \in {} |-> None]
Token == Vars \cup {CliVar}

Row(h, v) == [x \in {h} |-> v]
\* f @@ g of module TLC, as a definition the provers can expand.
Joined(f, g) == [x \in DOMAIN f \cup DOMAIN g |-> IF x \in DOMAIN f THEN f[x] ELSE g[x]]

\* Assumed: sections and their lists are sequences, the simple form is one entry
\* for everyone, None is no variable, and slots have sources that are set; a user
\* has none (identities are agents), and nothing keeps a slot from having the name
\* of a variable that a token may name.
IsList(s) == s \in Seq(Range(s))
GitAssumption ==
    /\ None \notin Present /\ CliVar \in GhVars
    /\ \A b \in Bindings :
         /\ DOMAIN b = Known /\ b[User] = NoRows
         /\ \A i \in Known : \A v \in DOMAIN b[i] : b[i][v] \in Present
    /\ \A section \in Sections \cup Later :
         /\ IsList(section)
         /\ \A n \in DOMAIN section :
              /\ IsList(section[n].entries)
              /\ section[n].form # "list" =>
                   Len(section[n].entries) = 1 /\ section[n].entries[1].identities = None

\* An entry names a token and the identities it serves; None omits them.
IsEntry(e) == e.token \in Token /\ (e.identities = None \/ IsFiniteSet(e.identities))

-----------------------------------------------------------------------------
\* _git_identity, over the manifest's order of keys.  The state of the walk is
\* the shared rows, the rows of named identities, and whether anything was
\* wrong: errors are collected and raised together at the end.

\* source() and _cli_var_row: a token must be a variable that is set, and only
\* the CLI host may use the variable that gh reads.
UsableToken(h, v) == v \in Present /\ (h = CliHost \/ v # CliVar)

Wrong(w) == [w EXCEPT !.ok = FALSE]

\* Mutant: the second entry without identities replaces the first.
CatchAll_LastWins(w, h, e) ==
    [w EXCEPT !.rows = Joined(Row(h, e.token), @), !.open = TRUE]

\* At most one entry of a list may omit identities:, it becomes the host's row.
CatchAll(w, h, e) ==
    IF w.open \/ (h \in DOMAIN w.rows /\ w.rows[h] # e.token) THEN Wrong(w)
    ELSE [w EXCEPT !.rows = Joined(Row(h, e.token), @), !.open = TRUE]

\* A row of an identity that another spelling of the host gave a row already
\* must name the same variable.
AddNamed(w, h, e) ==
    IF \E i \in e.identities : h \in DOMAIN w.named[i] /\ w.named[i][h] # e.token
    THEN Wrong(w)
    ELSE [w EXCEPT !.named = [i \in Known |->
            IF i \in e.identities THEN Joined(Row(h, e.token), w.named[i]) ELSE w.named[i]]]

Named(w, h, e) ==
    LET valid == (e.identities \cap Known) \ w.seen
        seen == [w EXCEPT !.seen = @ \cup valid]
    IN IF valid # e.identities \/ ~UsableToken(h, e.token) THEN Wrong(seen)
       ELSE AddNamed(seen, h, e)

ListEntry(w, h, e) ==
    IF e.identities = {} THEN Wrong(w)
    ELSE IF e.identities # None THEN Named(w, h, e)
    ELSE IF UsableToken(h, e.token) THEN CatchAll(w, h, e) ELSE Wrong(w)

\* _git_hosts_list_entries.
ListForm(w, h, entries) ==
    LET read[n \in 0 .. Len(entries)] ==
          IF n = 0 THEN [w EXCEPT !.open = FALSE, !.seen = {}]
          ELSE ListEntry(read[n - 1], h, entries[n])
    IN IF entries = <<>> THEN Wrong(w) ELSE read[Len(entries)]

SimpleForm(w, h, e) ==
    IF UsableToken(h, e.token) THEN [w EXCEPT !.rows = Joined(Row(h, e.token), @)] ELSE Wrong(w)

\* A host that already has a row is spelled twice.
OneKey(w, spec) ==
    LET h == Host[spec.key]
    IN IF h = None \/ h \in DOMAIN w.rows THEN Wrong(w)
       ELSE IF spec.form = "list" THEN ListForm(w, h, spec.entries)
       ELSE SimpleForm(w, h, spec.entries[1])

Start == [ok |-> TRUE, rows |-> NoRows, named |-> [i \in Known |-> NoRows],
          open |-> FALSE, seen |-> {}]
GitIdentity(section) ==
    LET walk[n \in 0 .. Len(section)] ==
          IF n = 0 THEN Start ELSE OneKey(walk[n - 1], section[n])
    IN walk[Len(section)]

-----------------------------------------------------------------------------
\* The records that up passes on, and the env files composed from them.

\* GIT_HOST_TOKENS, and GIT_IDENTITY_HOST_TOKENS: the rows of an identity that
\* some entry names, over the shared rows.
IdentityTable(d, i) == Joined(d.named[i], d.rows)

\* GIT_IDENTITY_TOKEN_SOURCES: GH_TOKEN is written from the CLI host's row.
TokenSource(table) == IF CliHost \in DOMAIN table THEN Row(CliVar, table[CliHost]) ELSE NoRows

\* identity_table and git_env_block: the table, every variable it names under its
\* own name, and GH_TOKEN.
GitBlock(d, i) ==
    LET table == IdentityTable(d, i)
    IN [table |-> table, vars |-> Joined([v \in Range(table) |-> v], TokenSource(table))]

\* The slots are appended, and the last assignment of a sourced file counts.
WithSlots(f, bound) == [table |-> f.table, vars |-> Joined(bound, f.vars)]

-----------------------------------------------------------------------------
Nothing == [table |-> NoRows, vars |-> NoRows]

TypeOK ==
    /\ \A n \in DOMAIN hosts :
         /\ hosts[n].key \in Keys /\ hosts[n].form \in {"simple", "list"}
         /\ \A m \in DOMAIN hosts[n].entries : IsEntry(hosts[n].entries[m])
    /\ DOMAIN keyfiles = Known /\ slots \in Bindings
    /\ writing \subseteq Known \X {"table", "slots"}
    /\ \A p \in Processes : env[p] = None \/ env[p].ident \in Known

Init ==
    /\ hosts \in Sections /\ derived = GitIdentity(hosts) /\ derived.ok
    /\ keyfiles = [i \in Known |-> None]
    /\ slots \in Bindings /\ writing = {}
    /\ env = [p \in Processes |-> None]

\* up derives the tables (a section with an error stops it there), wipes the
\* key files ...
Up(section) ==
    /\ hosts' = section /\ derived' = GitIdentity(section) /\ derived'.ok
    /\ slots' \in Bindings
    /\ keyfiles' = [i \in Known |-> None]
    /\ writing' = (Known \X {"table"}) \cup (Identities \X {"slots"})
    /\ UNCHANGED env

\* ... writes them one at a time ...
WriteKeyfile(i) ==
    /\ <<i, "table">> \in writing
    /\ keyfiles' = [keyfiles EXCEPT ![i] = GitBlock(derived, i)]
    /\ writing' = writing \ {<<i, "table">>}
    /\ UNCHANGED <<hosts, derived, slots, env>>

\* ... and then appends each agent's secrets.
AppendSecrets(i) ==
    /\ <<i, "slots">> \in writing /\ \A j \in Known : <<j, "table">> \notin writing
    /\ keyfiles' = [keyfiles EXCEPT ![i] = WithSlots(keyfiles[i], slots[i])]
    /\ writing' = writing \ {<<i, "slots">>}
    /\ UNCHANGED <<hosts, derived, slots, env>>

\* Clearing removes the table, every variable the table names, GH_TOKEN and the
\* like of it; the slots stay.
Cleared(e) == Restrict(e.vars, DOMAIN e.vars \ (Range(e.table) \cup GhVars))

\* Mutant: the table is dropped and its variables stay.
Inherited_KeepsVars(parent) ==
    IF env[parent] = None THEN NoRows
    ELSE Restrict(env[parent].vars, DOMAIN env[parent].vars \ GhVars)

Inherited(parent) == IF env[parent] = None THEN NoRows ELSE Cleared(env[parent])

\* A launcher starts a process from another one, or from none: the file of
\* its identity is sourced over what is left of the parent's environment.
Launch(p, parent, i) ==
    /\ env[p] = None /\ p # parent
    /\ LET file == IF keyfiles[i] = None THEN Nothing ELSE keyfiles[i]
       IN env' = [env EXCEPT ![p] =
                    [ident |-> i, table |-> file.table,
                     vars |-> Joined(file.vars, Inherited(parent)), file |-> file]]
    /\ UNCHANGED <<hosts, derived, keyfiles, slots, writing>>

Exit(p) ==
    /\ env[p] # None
    /\ env' = [env EXCEPT ![p] = None]
    /\ UNCHANGED <<hosts, derived, keyfiles, slots, writing>>

Next ==
    \/ \E s \in Later \cup {hosts} : Up(s)
    \/ \E i \in Known : WriteKeyfile(i) \/ AppendSecrets(i) \/ \E p, q \in Processes : Launch(p, q, i)
    \/ \E p \in Processes : Exit(p)

Spec == Init /\ [][Next]_vars

-----------------------------------------------------------------------------
\* git-credential-org: the token a process answers a request with, or None
\* (it then defers to a stored login of gh for that host, or stops git).
Answer(e, h) ==
    IF h \in DOMAIN e.table /\ e.table[h] \in DOMAIN e.vars THEN e.vars[e.table[h]] ELSE None

\* What the manifest says, read without an order: the entry that names the
\* identity for the host, else the one that serves everyone.
Entries(section, h) ==
    UNION {Range(section[n].entries) : n \in {m \in DOMAIN section : Host[section[m].key] = h}}
Says(section, i, h) ==
    LET forI == {e \in Entries(section, h) : e.identities # None /\ i \in e.identities}
        forAll == {e \in Entries(section, h) : e.identities = None}
    IN {e.token : e \in IF forI # {} THEN forI ELSE forAll}

\* What an identity finds in a variable: the slot that has its name, if any.
Reads(i, v) == IF v \in DOMAIN slots[i] THEN slots[i][v] ELSE v

\* An accepted section gives each identity one token for a host at most, the
\* one it says, and its env file, once written, answers every host with that and
\* sets GH_TOKEN from the row of the CLI host only; a slot of the same name takes
\* the variable's place.
FilesSayWhatIsDeclared ==
    \A i \in Known : keyfiles[i] # None /\ <<i, "slots">> \notin writing =>
        LET f == keyfiles[i]
        IN /\ \A h \in Hosts : {Reads(i, v) : v \in Says(hosts, i, h)} =
                IF Answer(f, h) = None THEN {} ELSE {Answer(f, h)}
           /\ {f.vars[v] : v \in {CliVar} \cap DOMAIN f.vars} =
                IF CliVar \in DOMAIN slots[i] THEN {slots[i][CliVar]} ELSE Says(hosts, i, CliHost)

\* A secret slot that some run of up may have written in some file.
IsSlot(v, source) ==
    \E b \in Bindings : \E i \in Known : v \in DOMAIN b[i] /\ b[i][v] = source

\* However launchers nest and whatever key files the parents started from, a
\* process has the table and the variables of its own identity's file, and of
\* another's it has nothing but plugins' secret slots: no variable that a table
\* alone brought there, and never GH_TOKEN.
OwnLaneOnly ==
    \A p \in Processes : env[p] # None =>
        LET own == env[p].file
        IN /\ env[p].table = own.table
           /\ \A v \in DOMAIN own.vars : v \in DOMAIN env[p].vars /\ env[p].vars[v] = own.vars[v]
           /\ \A v \in DOMAIN env[p].vars \ DOMAIN own.vars :
                v \notin GhVars /\ IsSlot(v, env[p].vars[v])
==============================================================================
