----------------------------- MODULE EgressClient -----------------------------
(***************************************************************************)
(* The clients of the egress daemon inside a bottle: the transparent proxy *)
(* of src/egress_broker.py, which holds each blocked connection while it   *)
(* asks, and the request-egress tool of src/egress_request.py.  Both file  *)
(* a request with file_egress, then read it again with poll_decision until *)
(* it is decided, an apply fails, or their own hold deadline passes.       *)
(*                                                                         *)
(* A connection has two threads: a worker that files and polls, and a      *)
(* waiter that watches the deadline, the worker and the client's socket,   *)
(* and answers the client.  The tool has one thread.  The daemon is taken  *)
(* at the promise EgressBroker keeps: each of its calls is one step.       *)
(*                                                                         *)
(* A client files once, under a fresh id of its own, so the client itself  *)
(* stands for that id.  A poll that reaches nobody, or finds the row open  *)
(* without news, changes nothing and is not a step.                        *)
(***************************************************************************)
EXTENDS Naturals

CONSTANTS
    Conns,      \* connections the proxy holds
    Tools,      \* runs of request-egress, one host each
    Keys,       \* (container, host, port) triples of the bottle
    None,
    MaxTries    \* bound: applies of one request

Clients == Conns \cup Tools

INSTANCE EgressRows WITH Ids <- Clients

ASSUME ClientAssumption ==
    /\ Conns \cap Tools = {}
    /\ None \notin Clients \cup Keys
    /\ MaxTries \in Nat

VARIABLES
    rows,       \* the daemon's store: [Clients -> Row]
    posts,      \* clients whose POST /egress is under way
    client,     \* the thread that files and polls
    waiter,     \* the thread that answers a held connection
    told,       \* what each client was told in the end
    since       \* history: what happened to the client's key since it filed

vars == <<rows, posts, client, waiter, told, since>>

\* What ends filing and polling.  A connection is told daemon_error for each of
\* the last three, the tool is told the reason.
Results == {"none", "allow", "deny", "apply_error", "unknown", "fault"}

Client == [ pc   : {"idle", "file", "poll", "done"},
            key  : Keys \cup {None},
            row  : Clients \cup {None},
            base : Nat,
            got  : Results ]

TypeOK ==
    /\ rows \in [Clients -> Row]
    /\ posts \in SUBSET Clients
    /\ client \in [Clients -> Client]
    /\ waiter \in [Clients -> [looking : BOOLEAN, late : BOOLEAN]]
    /\ told \in [Clients -> Results \cup {"pending", "aborted"}]
    /\ since \in [Clients -> SUBSET {"allow", "deny", "apply_error"}]

Init ==
    /\ rows = [id \in Clients |-> Absent]
    /\ posts = {}
    /\ client = [c \in Clients |-> [pc |-> "idle", key |-> None, row |-> None,
                                    base |-> 0, got |-> "none"]]
    /\ waiter = [c \in Clients |-> [looking |-> FALSE, late |-> FALSE]]
    /\ told = [c \in Clients |-> "none"]
    /\ since = [c \in Clients |-> {}]

At(c, pc) == client[c].pc = pc

\* The thread that files and polls returns; of `got' only the tool and the
\* waiter make an answer.
Ends(c, result) == client' = [client EXCEPT ![c].pc = "done", ![c].got = result]

HappensOn(k, news) ==
    since' = [c \in Clients |->
                 IF client[c].key = k THEN since[c] \cup {news} ELSE since[c]]

-------------------------------------------------------------------------------
\* Filing.

FileBegin(c, k) ==
    /\ At(c, "idle")
    /\ client' = [client EXCEPT ![c].pc = "file", ![c].key = k]
    /\ posts' = posts \cup {c}
    /\ UNCHANGED <<rows, waiter, told, since>>

\* The answer arrives while the client waits for it, or never.
Answered(c, row, base) ==
    \/ /\ At(c, "file")
       /\ client' = [client EXCEPT ![c].pc = "poll", ![c].row = row, ![c].base = base]
    \/ UNCHANGED client

\* file_request: the filing coalesces on the open row of its key, or opens a row
\* under the client's id.  The answer names the row and its attempts so far.
FileServed(c) ==
    LET k == client[c].key IN
    /\ c \in posts
    /\ posts' = posts \ {c}
    /\ \/ \E id \in OpenRowsOf(rows, k) :
            /\ Answered(c, id, rows[id].tries)
            /\ UNCHANGED rows
       \/ /\ OpenRowsOf(rows, k) = {}
          /\ rows' = [rows EXCEPT ![c] = Opened(k)]
          /\ Answered(c, c, 0)
    /\ UNCHANGED <<waiter, told, since>>

\* The deny list answers a new ask at once; a repeat leaves no row of its own.
FileDenied(c) ==
    /\ c \in posts
    /\ OpenRowsOf(rows, client[c].key) = {}
    /\ posts' = posts \ {c}
    /\ \/ rows' = [rows EXCEPT ![c] =
                       Closed(Opened(client[c].key), "denied", "denylist", "deny_denylist")]
       \/ UNCHANGED rows
    /\ \/ At(c, "file") /\ Ends(c, "deny")
       \/ UNCHANGED client
    /\ since' = [since EXCEPT ![c] = @ \cup {"deny"}]
    /\ UNCHANGED <<waiter, told>>

\* Refused or lost before the daemon acted on it.
FileLost(c) ==
    /\ c \in posts
    /\ posts' = posts \ {c}
    /\ UNCHANGED <<rows, client, waiter, told, since>>

\* file_egress gives up: an error, or no answer in time.  The daemon may have
\* acted on the filing, or may still.
FileFails(c) ==
    /\ At(c, "file")
    /\ Ends(c, "fault")
    /\ UNCHANGED <<rows, posts, waiter, told, since>>

-------------------------------------------------------------------------------
\* Polling.

\* Mutant: the tool, too, polls the id it minted.
PolledId_Own(c) == c

\* The tool reads the row the filing was answered with, a connection the id it
\* minted.
PolledId(c) == IF c \in Tools THEN client[c].row ELSE c

\* Mutant: the baseline is not consulted.
IsNews_AnyError(c, r) == r.error > 0

\* An apply that failed after the client had filed.
IsNews(c, r) == r.error > client[c].base

\* Mutant: a row that was swept is taken for an open one.
IsAnswer_NotStale(r) == r.status \in {"allowed", "denied"}

IsAnswer(r) == r.status \in CloseStatuses

\* poll_decision, with the daemon's request_view: unknown ids are answered 404.
Poll(c) ==
    LET r == rows[PolledId(c)] IN
    /\ At(c, "poll")
    /\ \/ r.status = "absent" /\ Ends(c, "unknown")
       \/ IsAnswer(r) /\ Ends(c, IF r.body = "allow" THEN "allow" ELSE "deny")
       \/ IsOpen(rows, PolledId(c)) /\ IsNews(c, r) /\ Ends(c, "apply_error")
    /\ UNCHANGED <<rows, posts, waiter, told, since>>

\* The deadline ended the polling.
PollEnds(c) ==
    /\ At(c, "poll")
    /\ waiter[c].late
    /\ Ends(c, "none")
    /\ UNCHANGED <<rows, posts, waiter, told, since>>

Deadline(c) ==
    /\ ~ At(c, "idle")
    /\ ~ waiter[c].late
    /\ waiter' = [waiter EXCEPT ![c].late = TRUE]
    /\ UNCHANGED <<rows, posts, client, told, since>>

-------------------------------------------------------------------------------
\* Answering.

\* request_host returns.
ToolTold(c) ==
    /\ c \in Tools
    /\ At(c, "done")
    /\ told[c] = "none"
    /\ told' = [told EXCEPT ![c] =
                   IF client[c].got = "none" THEN "pending" ELSE client[c].got]
    /\ UNCHANGED <<rows, posts, client, waiter, since>>

Waiting(c) == c \in Conns /\ ~ At(c, "idle") /\ told[c] = "none"

\* wait_for_filing_or_client_abort checks the deadline, and then the worker.
WaiterLooks(c) ==
    /\ Waiting(c)
    /\ ~ waiter[c].looking
    /\ \/ /\ ~ waiter[c].late
          /\ waiter' = [waiter EXCEPT ![c].looking = TRUE]
          /\ UNCHANGED told
       \/ /\ waiter[c].late
          /\ told' = [told EXCEPT ![c] = "pending"]
          /\ UNCHANGED waiter
    /\ UNCHANGED <<rows, posts, client, since>>

\* _decision_outcome: a body that is missing or an error is a fault.
DecisionOutcome(got) == IF got = "none" THEN "fault" ELSE got

\* While the worker is at it the waiter goes round again, unless the client has
\* gone away.
WaiterReads(c) ==
    /\ Waiting(c)
    /\ waiter[c].looking
    /\ waiter' = [waiter EXCEPT ![c].looking = FALSE]
    /\ IF At(c, "done")
       THEN told' = [told EXCEPT ![c] = DecisionOutcome(client[c].got)]
       ELSE \/ told' = [told EXCEPT ![c] = "aborted"]
            \/ UNCHANGED told
    /\ UNCHANGED <<rows, posts, client, since>>

-------------------------------------------------------------------------------
\* The daemon's other callers.

DaemonCloses(id, status, by, body, news) ==
    /\ IsOpen(rows, id)
    /\ rows' = [rows EXCEPT ![id] = Closed(@, status, by, body)]
    /\ HappensOn(rows[id].key, news)
    /\ UNCHANGED <<posts, client, waiter, told>>

\* A decision of an operator, or of the sweep.
Decide(id) ==
    \/ DaemonCloses(id, "allowed", "operator", "allow", "allow")
    \/ DaemonCloses(id, "denied", "operator", "deny", "deny")
    \/ DaemonCloses(id, "stale", "sweep", "deny_stale", "deny")

ApplyFails(id) ==
    /\ IsOpen(rows, id)
    /\ rows[id].tries < MaxTries
    /\ rows' = [rows EXCEPT ![id] = ApplyMarked(@, "apply_failed")]
    /\ HappensOn(rows[id].key, "apply_error")
    /\ UNCHANGED <<posts, client, waiter, told>>

Next ==
    \E c \in Clients :
        \/ \E k \in Keys : FileBegin(c, k)
        \/ FileServed(c) \/ FileDenied(c) \/ FileLost(c) \/ FileFails(c)
        \/ Poll(c) \/ PollEnds(c) \/ Deadline(c)
        \/ ToolTold(c) \/ WaiterLooks(c) \/ WaiterReads(c)
        \/ Decide(c) \/ ApplyFails(c)

Spec == Init /\ [][Next]_vars

\* The threads go on, and a poll reaches the daemon in the end.  Nothing is
\* assumed of the deadline, of filings, or of operators.
FairSpec ==
    /\ Spec
    /\ \A c \in Clients :
        WF_vars(Poll(c)) /\ WF_vars(ToolTold(c) \/ WaiterLooks(c) \/ WaiterReads(c))

-------------------------------------------------------------------------------
\* A verdict or an apply error told to a client is about its own destination
\* and is news to it: it happened after the client had filed.  In particular
\* nobody is let through who was not allowed.
AnswerIsNews ==
    \A c \in Clients :
        told[c] \in {"allow", "deny", "apply_error"} => told[c] \in since[c]

\* A client whose filing was answered `pending' is not told anything before the
\* row is decided, an apply fails, its deadline passes, or it hangs up.
Held(c) ==
    client[c].row # None /\ told'[c] # told[c] =>
        \/ waiter[c].late
        \/ told'[c] = "aborted"
        \/ Decided(rows, client[c].row)
        \/ "apply_error" \in since[c]

\* So it is for the tool, and for a connection that is the first to ask.
FirstAndToolsAreHeld ==
    [][\A c \in Clients : c \in Tools \/ client[c].row = c => Held(c)]_vars

\* So the comments have it for every connection.  It is not so for one whose
\* filing coalesces on the row of another client.
ConnectionsAreHeld == [][\A c \in Conns : Held(c)]_vars

\* A client that waits for a row that is decided is answered without having to
\* wait for its deadline.
DecidedIsTold ==
    \A c \in Clients :
        At(c, "poll") /\ Decided(rows, client[c].row) ~> told[c] # "none"
===============================================================================
