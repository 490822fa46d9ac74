-------------------------- MODULE EgressClientProofs --------------------------
(***************************************************************************)
(* Proofs about EgressClient, for any number of connections, tool runs and *)
(* destinations.                                                           *)
(*                                                                         *)
(* A client polls a row it need not have opened, and compares a counter    *)
(* with the one its filing was answered with.  The invariant CInv ties     *)
(* both to what has happened since the client filed: the row is of its     *)
(* destination, an error past the baseline is a failure it has not seen,   *)
(* and the row's verdict was given after it filed.                         *)
(***************************************************************************)
EXTENDS EgressClient, TLAPS

News == {"allow", "deny", "apply_error"}

\* What poll_decision makes of a decided row.
Verdict(r) == IF r.body = "allow" THEN "allow" ELSE "deny"

\* A row is of the destination its owner asked for, and its owner's filing is
\* over; an error is one of the attempts.
RowKnows(id) ==
    /\ rows[id].error <= rows[id].tries
    /\ rows[id].status # "absent" =>
          /\ ~ At(id, "idle")
          /\ id \notin posts
          /\ rows[id].key = client[id].key

ClientKnows(c) ==
    LET f == client[c] IN
    /\ c \in posts => f.pc \in {"file", "done"} /\ f.row = None
    /\ f.pc \in {"idle", "file"} => f.row = None
    /\ f.pc = "poll" => f.row # None
    /\ f.pc # "idle" => f.key \in Keys
    /\ f.row # None =>
          /\ rows[f.row].status # "absent" /\ rows[f.row].key = f.key
          /\ f.row # c => rows[c].status = "absent"
          /\ rows[f.row].error > f.base => "apply_error" \in since[c]
          /\ Decided(rows, f.row) => Verdict(rows[f.row]) \in since[c]
    /\ f.pc = "done" /\ f.row # None /\ (c \in Tools \/ f.row = c) =>
          \/ waiter[c].late
          \/ Decided(rows, f.row)
          \/ "apply_error" \in since[c]
    /\ f.got \in News => f.got \in since[c]
    /\ told[c] \in News => told[c] \in since[c]

CInv == TypeOK /\ \A c \in Clients : RowKnows(c) /\ ClientKnows(c)

LEMMA InitClients == Init => CInv
  <1> SUFFICES ASSUME Init PROVE CInv
    OBVIOUS
  <1>1. TypeOK
    BY DEF Init, TypeOK, Absent, Row, CloseStatuses, Client, Results
  <1>2. ASSUME NEW c \in Clients PROVE RowKnows(c) /\ ClientKnows(c)
    BY DEF Init, Absent, RowKnows, ClientKnows, Decided, CloseStatuses, News
  <1> QED
    BY <1>1, <1>2 DEF CInv

-------------------------------------------------------------------------------
\* What may happen to a row: nothing, its owner files it, it is decided, or an
\* apply of it fails; of the last two every client of its key has news.
RowMoves(id) ==
    \/ rows'[id] = rows[id]
    \/ rows[id].status = "absent" /\ id \in posts
    \/ /\ rows[id].status = "open" /\ rows'[id].key = rows[id].key
       /\ Decided(rows', id) /\ rows'[id].error = 0
       /\ \A c \in Clients :
             client[c].key = rows[id].key => Verdict(rows'[id]) \in since'[c]
    \/ /\ rows[id].status = "open" /\ rows'[id].key = rows[id].key
       /\ rows'[id].status = "open"
       /\ \A c \in Clients :
             client[c].key = rows[id].key => "apply_error" \in since'[c]

\* A client that does not move knows what it knew.
LEMMA Unmoved ==
  ASSUME CInv, NEW c \in Clients,
         client'[c] = client[c], told'[c] = told[c],
         c \in posts' => c \in posts,
         waiter[c].late => waiter'[c].late,
         since[c] \subseteq since'[c],
         \A id \in Clients : RowMoves(id)
  PROVE  ClientKnows(c)'
  <1> DEFINE f == client[c]
  <1>1. ClientKnows(c) /\ f \in Client
    BY DEF CInv, TypeOK
  <1>2. f.row # None => f.row \in Clients /\ RowMoves(f.row) /\ RowMoves(c) /\ c \notin posts
    BY <1>1 DEF ClientKnows, Client
  <1>3. CASE f.row = None
    BY <1>1, <1>3 DEF ClientKnows
  <1>4. CASE f.row # None
    <2>1. rows'[f.row].status # "absent" /\ rows'[f.row].key = f.key
      BY <1>1, <1>2, <1>4 DEF ClientKnows, RowMoves, Decided, CloseStatuses
    <2>2. f.row # c => rows'[c].status = "absent"
      BY <1>1, <1>2, <1>4 DEF ClientKnows, RowMoves
    <2>3. rows'[f.row].error > f.base => "apply_error" \in since'[c]
      BY <1>1, <1>2, <1>4 DEF ClientKnows, RowMoves, Client
    <2>4. Decided(rows', f.row) => Verdict(rows'[f.row]) \in since'[c]
      BY <1>1, <1>2, <1>4 DEF ClientKnows, RowMoves, Decided, CloseStatuses
    <2>5. Decided(rows, f.row) => Decided(rows', f.row)
      BY <1>1, <1>2, <1>4 DEF ClientKnows, RowMoves, Decided, CloseStatuses
    <2> QED
      BY <1>1, <1>4, <2>1, <2>2, <2>3, <2>4, <2>5 DEF ClientKnows
  <1> QED
    BY <1>3, <1>4

\* A step of the client's own threads, the store as it is.
LEMMA Others ==
  ASSUME CInv, NEW c \in Clients, UNCHANGED rows,
         \A u \in Clients : u # c =>
            /\ client'[u] = client[u] /\ told'[u] = told[u] /\ waiter'[u] = waiter[u]
            /\ since'[u] = since[u] /\ (u \in posts' => u \in posts)
  PROVE  \A u \in Clients : u # c => ClientKnows(u)'
  BY Unmoved DEF RowMoves

\* The rows know what they knew when the store, the keys and the filings under
\* way are as they were.
LEMMA RowsKnow ==
  ASSUME CInv, UNCHANGED rows, posts' \subseteq posts,
         \A c \in Clients : ~ At(c, "idle") =>
            client'[c].pc # "idle" /\ client'[c].key = client[c].key
  PROVE  \A c \in Clients : RowKnows(c)'
  BY DEF CInv, RowKnows, At

LEMMA Ended ==
  ASSUME TypeOK, NEW c \in Clients, NEW result \in Results, Ends(c, result)
  PROVE  /\ client' \in [Clients -> Client]
         /\ client'[c].pc = "done" /\ client'[c].got = result
         /\ client'[c].key = client[c].key /\ client'[c].row = client[c].row
         /\ client'[c].base = client[c].base
         /\ \A u \in Clients : u # c => client'[u] = client[u]
  <1> DEFINE f == [client[c] EXCEPT !.pc = "done", !.got = result]
  <1>1. client[c] \in Client /\ client' = [client EXCEPT ![c] = f]
    BY DEF TypeOK, Ends
  <1>2. /\ f \in Client /\ f.pc = "done" /\ f.got = result
        /\ f.key = client[c].key /\ f.row = client[c].row /\ f.base = client[c].base
    BY <1>1 DEF Client
  <1> HIDE DEF f
  <1> QED
    BY <1>1, <1>2 DEF TypeOK

LEMMA FileBeginKeeps ==
  ASSUME CInv, NEW c \in Clients, NEW k \in Keys, FileBegin(c, k)
  PROVE  CInv'
  <1> DEFINE f == [client[c] EXCEPT !.pc = "file", !.key = k]
  <1>1. /\ TypeOK /\ client[c] \in Client /\ client[c].pc = "idle"
        /\ client' = [client EXCEPT ![c] = f] /\ posts' = posts \cup {c}
        /\ UNCHANGED <<rows, waiter, told, since>>
    BY DEF CInv, TypeOK, FileBegin, At
  <1>2. /\ f \in Client /\ f.pc = "file" /\ f.key = k
        /\ f.row = client[c].row /\ f.got = client[c].got
    BY <1>1 DEF Client
  <1> HIDE DEF f
  <1>3. /\ client'[c] = f /\ \A u \in Clients : u # c => client'[u] = client[u]
        /\ TypeOK'
    BY <1>1, <1>2 DEF TypeOK
  <1>4. ClientKnows(c)'
    BY <1>1, <1>2, <1>3 DEF CInv, ClientKnows
  <1>5. \A u \in Clients : u # c => ClientKnows(u)'
    BY <1>1, <1>3, Others
  <1>6. ASSUME NEW u \in Clients PROVE RowKnows(u)'
    <2>1. RowKnows(u) /\ (u = c => rows[u].status = "absent")
      BY <1>1 DEF CInv, RowKnows, At
    <2> QED
      BY <1>1, <1>3, <2>1 DEF RowKnows, At
  <1> QED
    BY <1>3, <1>4, <1>5, <1>6 DEF CInv

LEMMA FileEndsKeeps ==
  ASSUME CInv, NEW c \in Clients, FileLost(c) \/ FileFails(c)
  PROVE  CInv'
  <1>1. TypeOK /\ UNCHANGED <<rows, waiter, told, since>> /\ posts' \subseteq posts
    BY DEF CInv, FileLost, FileFails
  <1>2. CASE FileLost(c)
    <2>1. UNCHANGED client /\ TypeOK'
      BY <1>1, <1>2 DEF FileLost, TypeOK
    <2>2. \A u \in Clients : ClientKnows(u)'
      BY <1>1, <2>1 DEF CInv, ClientKnows
    <2> QED
      BY <1>1, <2>1, <2>2, RowsKnow DEF CInv, At
  <1>3. CASE FileFails(c)
    <2>1. client[c].pc = "file" /\ Ends(c, "fault") /\ "fault" \in Results
      BY <1>3 DEF FileFails, At, Results
    <2>2. ClientKnows(c)'
      BY <1>1, <2>1, Ended DEF CInv, ClientKnows, News
    <2>3. \A u \in Clients : u # c => ClientKnows(u)'
      BY <1>1, <2>1, Ended, Others
    <2>4. \A u \in Clients : RowKnows(u)'
      BY <1>1, <2>1, Ended, RowsKnow DEF At
    <2>5. TypeOK'
      BY <1>1, <1>3, <2>1, Ended DEF TypeOK, FileFails
    <2> QED
      BY <2>2, <2>3, <2>4, <2>5 DEF CInv
  <1> QED
    BY <1>2, <1>3

\* Who polls its own row finds it; what it takes for an answer or a failed apply
\* is news, by what it knows of the row.
LEMMA PollKeeps ==
  ASSUME CInv, NEW c \in Clients, Poll(c) \/ PollEnds(c)
  PROVE  CInv'
  <1>1. /\ TypeOK /\ UNCHANGED <<rows, posts, waiter, told, since>>
        /\ client[c].pc = "poll" /\ client[c].row # None /\ client[c].row \in Clients
        /\ ClientKnows(c)
    BY DEF CInv, TypeOK, Client, Poll, PollEnds, At, ClientKnows
  <1>2. \E got \in Results :
          /\ Ends(c, got)
          /\ got \in News => got \in since[c]
          /\ c \in Tools \/ client[c].row = c =>
               \/ waiter[c].late
               \/ Decided(rows, client[c].row)
               \/ "apply_error" \in since[c]
    <2> DEFINE r == rows[PolledId(c)]
    <2>1. /\ PolledId(c) \in {c, client[c].row}
          /\ c \in Tools \/ client[c].row = c => PolledId(c) = client[c].row
      BY DEF PolledId
    <2>2. r.status # "absent" => PolledId(c) = client[c].row
      BY <1>1, <2>1 DEF ClientKnows
    <2>3. rows[client[c].row].status # "absent"
      BY <1>1 DEF ClientKnows
    <2>4. CASE r.status = "absent" /\ Ends(c, "unknown")
      BY <2>1, <2>3, <2>4 DEF Results, News
    <2>5. CASE IsAnswer(r) /\ Ends(c, IF r.body = "allow" THEN "allow" ELSE "deny")
      <3>1. Decided(rows, client[c].row) /\ Verdict(r) \in since[c] /\ Ends(c, Verdict(r))
        BY <1>1, <2>2, <2>5 DEF IsAnswer, Decided, CloseStatuses, ClientKnows, Verdict
      <3>2. Verdict(r) \in Results
        BY DEF Verdict, Results
      <3> QED
        BY <3>1, <3>2
    <2>6. CASE IsOpen(rows, PolledId(c)) /\ IsNews(c, r) /\ Ends(c, "apply_error")
      <3>1. "apply_error" \in since[c]
        BY <1>1, <2>2, <2>6 DEF IsOpen, IsNews, ClientKnows
      <3> QED
        BY <2>6, <3>1 DEF Results
    <2>7. CASE PollEnds(c)
      BY <2>7 DEF PollEnds, Results, News
    <2> QED
      BY <2>4, <2>5, <2>6, <2>7 DEF Poll
  <1>3. PICK got \in Results :
          /\ Ends(c, got)
          /\ got \in News => got \in since[c]
          /\ c \in Tools \/ client[c].row = c =>
               \/ waiter[c].late
               \/ Decided(rows, client[c].row)
               \/ "apply_error" \in since[c]
    BY <1>2
  <1>4. ClientKnows(c)'
    BY <1>1, <1>3, Ended DEF ClientKnows, Decided
  <1>5. \A u \in Clients : u # c => ClientKnows(u)'
    BY <1>1, <1>3, Ended, Others
  <1>6. \A u \in Clients : RowKnows(u)'
    BY <1>1, <1>3, Ended, RowsKnow DEF At
  <1>7. TypeOK'
    BY <1>1, <1>3, Ended DEF TypeOK
  <1> QED
    BY <1>4, <1>5, <1>6, <1>7 DEF CInv

\* The client is answered with what its thread got, or that it got nothing.
LEMMA ToldKeeps ==
  ASSUME CInv, NEW c \in Clients,
         Deadline(c) \/ ToolTold(c) \/ WaiterLooks(c) \/ WaiterReads(c)
  PROVE  CInv'
  <1>1. /\ TypeOK /\ UNCHANGED <<rows, posts, client, since>>
        /\ \A u \in Clients : RowKnows(u)'
    BY DEF CInv, Deadline, ToolTold, WaiterLooks, WaiterReads, RowKnows, At
  <1>2. TypeOK'
    <2>1. client[c].got \in Results
      BY <1>1 DEF TypeOK, Client
    <2>2. told' \in [Clients -> Results \cup {"pending", "aborted"}]
      BY <1>1, <2>1 DEF TypeOK, Results, Deadline, ToolTold, WaiterLooks, WaiterReads,
                        DecisionOutcome
    <2>3. waiter' \in [Clients -> [looking : BOOLEAN, late : BOOLEAN]]
      <3>1. waiter[c] \in [looking : BOOLEAN, late : BOOLEAN]
        BY <1>1 DEF TypeOK
      <3>2. \/ waiter' = waiter
            \/ \E w \in [looking : BOOLEAN, late : BOOLEAN] : waiter' = [waiter EXCEPT ![c] = w]
        <4>1. /\ [waiter[c] EXCEPT !.late = TRUE] \in [looking : BOOLEAN, late : BOOLEAN]
              /\ [waiter[c] EXCEPT !.looking = TRUE] \in [looking : BOOLEAN, late : BOOLEAN]
              /\ [waiter[c] EXCEPT !.looking = FALSE] \in [looking : BOOLEAN, late : BOOLEAN]
          BY <3>1
        <4> QED
          BY <4>1 DEF Deadline, ToolTold, WaiterLooks, WaiterReads
      <3> QED
        BY <1>1, <3>2 DEF TypeOK
    <2> QED
      BY <1>1, <2>2, <2>3 DEF TypeOK
  <1>3. \A u \in Clients :
          /\ u # c => told'[u] = told[u] /\ waiter'[u] = waiter[u]
          /\ waiter[u].late => waiter'[u].late
    BY <1>1 DEF TypeOK, Deadline, ToolTold, WaiterLooks, WaiterReads
  <1>4. told'[c] \in {told[c], client[c].got, "pending", "fault", "aborted"}
    BY <1>1 DEF TypeOK, Deadline, ToolTold, WaiterLooks, WaiterReads, DecisionOutcome
  <1>5. ClientKnows(c)'
    BY <1>1, <1>3, <1>4 DEF CInv, ClientKnows, News, Decided
  <1>6. \A u \in Clients : u # c => ClientKnows(u)'
    BY <1>1, <1>3, Others
  <1> QED
    BY <1>1, <1>2, <1>5, <1>6 DEF CInv

-------------------------------------------------------------------------------
\* The daemon serves a filing.

LEMMA Answers ==
  ASSUME TypeOK, NEW c \in Clients, NEW row \in Clients, NEW base \in Nat,
         Answered(c, row, base)
  PROVE  /\ client' \in [Clients -> Client]
         /\ \A u \in Clients : u # c => client'[u] = client[u]
         /\ client'[c].key = client[c].key /\ client'[c].got = client[c].got
         /\ \/ client'[c] = client[c]
            \/ /\ client[c].pc = "file" /\ client'[c].pc = "poll"
               /\ client'[c].row = row /\ client'[c].base = base
  <1> DEFINE f == [client[c] EXCEPT !.pc = "poll", !.row = row, !.base = base]
  <1>1. client[c] \in Client
    BY DEF TypeOK
  <1>2. CASE UNCHANGED client
    BY <1>2 DEF TypeOK
  <1>3. CASE At(c, "file") /\ client' = [client EXCEPT ![c] = f]
    <2>1. /\ f \in Client /\ f.pc = "poll" /\ f.row = row /\ f.base = base
          /\ f.key = client[c].key /\ f.got = client[c].got
      BY <1>1 DEF Client
    <2> HIDE DEF f
    <2> QED
      BY <1>3, <2>1 DEF TypeOK, At
  <1>4. UNCHANGED client \/ (At(c, "file") /\ client' = [client EXCEPT ![c] = f])
    BY DEF Answered, TypeOK
  <1> QED
    BY <1>2, <1>3, <1>4

\* A row that was just opened, and one that the deny list has closed.
LEMMA NewRows ==
  ASSUME NEW k \in Keys
  PROVE  LET r == Opened(k)
             d == Closed(Opened(k), "denied", "denylist", "deny_denylist")
         IN
         /\ r \in Row /\ r.status = "open" /\ r.key = k /\ r.error = 0 /\ r.tries = 0
         /\ d \in Row /\ d.status = "denied" /\ d.key = k /\ d.error = 0 /\ d.tries = 0
         /\ d.body = "deny_denylist"
  BY DEF Opened, Absent, Closed, Row, CloseStatuses, DecidedBy, Bodies

\* The filing coalesces on a row of its key, whose failures so far are no news to
\* it; or it opens its own, which nobody can have been answered with before.
LEMMA FileServedKeeps ==
  ASSUME CInv, NEW c \in Clients, FileServed(c)
  PROVE  CInv'
  <1> DEFINE k == client[c].key
  <1>1. /\ TypeOK /\ c \in posts /\ posts' = posts \ {c} /\ UNCHANGED <<waiter, told, since>>
        /\ client[c] \in Client /\ client[c].pc \in {"file", "done"} /\ client[c].row = None
        /\ k \in Keys /\ rows[c].status = "absent"
    BY DEF CInv, TypeOK, FileServed, ClientKnows, RowKnows
  <1>2. ASSUME NEW id \in OpenRowsOf(rows, k), Answered(c, id, rows[id].tries), UNCHANGED rows
        PROVE  CInv'
    <2>1. /\ id \in Clients /\ rows[id].status = "open" /\ rows[id].key = k
          /\ rows[id] \in Row /\ rows[id].tries \in Nat /\ rows[id].error \in Nat
          /\ rows[id].error <= rows[id].tries /\ id # c
      BY <1>1, <1>2 DEF OpenRowsOf, IsOpen, TypeOK, Row, CInv, RowKnows
    <2>2. ClientKnows(c)'
      <3>1. CASE client'[c] = client[c]
        BY <1>1, <1>2, <3>1 DEF CInv, ClientKnows
      <3>2. CASE client'[c].pc = "poll" /\ client'[c].row = id /\ client'[c].base = rows[id].tries
        <4>1. client'[c].key = k /\ client'[c].got = client[c].got /\ c \notin posts'
          BY <1>1, <1>2, <2>1, Answers
        <4>2. ~ (rows[id].error > rows[id].tries) /\ ~ Decided(rows, id) /\ id # None
          BY <2>1, ClientAssumption DEF Decided, CloseStatuses
        <4> QED
          BY <1>1, <1>2, <2>1, <3>2, <4>1, <4>2 DEF CInv, ClientKnows, Decided
      <3> QED
        BY <1>1, <1>2, <2>1, <3>1, <3>2, Answers
    <2>3. \A u \in Clients : u # c => ClientKnows(u)'
      BY <1>1, <1>2, <2>1, Answers, Others
    <2>4. \A u \in Clients : RowKnows(u)'
      BY <1>1, <1>2, <2>1, Answers, RowsKnow DEF At
    <2>5. TypeOK'
      BY <1>1, <1>2, <2>1, Answers DEF TypeOK
    <2> QED
      BY <2>2, <2>3, <2>4, <2>5 DEF CInv
  <1>3. CASE rows' = [rows EXCEPT ![c] = Opened(k)] /\ Answered(c, c, 0)
    <2>1. /\ rows' \in [Clients -> Row] /\ rows'[c] = Opened(k)
          /\ \A id \in Clients : id # c => rows'[id] = rows[id]
      BY <1>1, <1>3, NewRows DEF TypeOK
    <2>2. \A id \in Clients : RowMoves(id)
      BY <1>1, <2>1 DEF RowMoves
    <2>3. ClientKnows(c)'
      <3>1. /\ rows'[c].status = "open" /\ rows'[c].key = k /\ rows'[c].error = 0
            /\ c \notin posts'
        BY <1>1, <2>1, NewRows
      <3> QED
        BY <1>1, <1>3, <3>1, Answers, ClientAssumption
        DEF CInv, ClientKnows, Decided, CloseStatuses
    <2>4. \A u \in Clients : u # c => ClientKnows(u)'
      BY <1>1, <1>3, <2>2, Answers, Unmoved
    <2>5. ASSUME NEW u \in Clients PROVE RowKnows(u)'
      BY <1>1, <1>3, <2>1, NewRows, Answers DEF CInv, RowKnows, At
    <2>6. TypeOK'
      BY <1>1, <1>3, <2>1, Answers DEF TypeOK
    <2> QED
      BY <2>3, <2>4, <2>5, <2>6 DEF CInv
  <1> QED
    BY <1>2, <1>3 DEF FileServed

LEMMA FileDeniedKeeps ==
  ASSUME CInv, NEW c \in Clients, FileDenied(c)
  PROVE  CInv'
  <1> DEFINE k == client[c].key
             r == Closed(Opened(k), "denied", "denylist", "deny_denylist")
  <1>1. /\ TypeOK /\ c \in posts /\ posts' = posts \ {c} /\ UNCHANGED <<waiter, told>>
        /\ client[c] \in Client /\ client[c].pc \in {"file", "done"} /\ client[c].row = None
        /\ k \in Keys /\ rows[c].status = "absent"
        /\ since' = [since EXCEPT ![c] = @ \cup {"deny"}]
    BY DEF CInv, TypeOK, FileDenied, ClientKnows, RowKnows
  <1>2. /\ since' \in [Clients -> SUBSET {"allow", "deny", "apply_error"}]
        /\ since'[c] = since[c] \cup {"deny"}
        /\ \A u \in Clients : u # c => since'[u] = since[u]
    BY <1>1 DEF TypeOK
  <1>3. \/ UNCHANGED client
        \/ Ends(c, "deny") /\ "deny" \in Results
    BY DEF FileDenied, Results
  <1>4. /\ client' \in [Clients -> Client]
        /\ \A u \in Clients : u # c => client'[u] = client[u]
        /\ client'[c].key = k /\ client'[c].row = None
        /\ client'[c] = client[c] \/ (client'[c].pc = "done" /\ client'[c].got = "deny")
    <2>1. CASE UNCHANGED client
      BY <1>1, <2>1 DEF TypeOK
    <2>2. CASE Ends(c, "deny")
      BY <1>1, <2>2, Ended DEF Results
    <2> QED
      BY <1>3, <2>1, <2>2
  <1>5. /\ rows' \in [Clients -> Row]
        /\ \A id \in Clients : id # c => rows'[id] = rows[id]
        /\ rows'[c] = rows[c] \/ rows'[c] = r
    <2>1. r \in Row
      BY <1>1, NewRows
    <2> HIDE DEF r
    <2> QED
      BY <1>1, <2>1 DEF FileDenied, TypeOK, r
  <1>6. \A id \in Clients : RowMoves(id)
    BY <1>1, <1>5 DEF RowMoves
  <1>7. ClientKnows(c)'
    BY <1>1, <1>2, <1>4 DEF CInv, ClientKnows, News
  <1>8. \A u \in Clients : u # c => ClientKnows(u)'
    BY <1>1, <1>2, <1>4, <1>6, Unmoved
  <1>9. ASSUME NEW u \in Clients PROVE RowKnows(u)'
    BY <1>1, <1>4, <1>5, NewRows DEF CInv, RowKnows, At
  <1>10. TypeOK'
    BY <1>1, <1>2, <1>4, <1>5 DEF TypeOK
  <1> QED
    BY <1>7, <1>8, <1>9, <1>10 DEF CInv

-------------------------------------------------------------------------------
\* The daemon's other callers.

LEMMA Happens ==
  ASSUME TypeOK, NEW k, NEW news \in News, HappensOn(k, news)
  PROVE  /\ since' \in [Clients -> SUBSET {"allow", "deny", "apply_error"}]
         /\ \A c \in Clients :
               since[c] \subseteq since'[c] /\ (client[c].key = k => news \in since'[c])
  BY DEF TypeOK, HappensOn, News

LEMMA ClosesKeep ==
  ASSUME CInv, NEW id \in Clients, NEW status \in CloseStatuses, NEW by \in DecidedBy,
         NEW body \in Bodies, NEW news \in News,
         news = IF body = "allow" THEN "allow" ELSE "deny",
         DaemonCloses(id, status, by, body, news)
  PROVE  CInv'
  <1> DEFINE r == Closed(rows[id], status, by, body)
  <1>1. /\ TypeOK /\ rows[id] \in Row /\ rows[id].status = "open"
        /\ rows' = [rows EXCEPT ![id] = r] /\ HappensOn(rows[id].key, news)
        /\ UNCHANGED <<posts, client, waiter, told>>
    BY DEF CInv, TypeOK, DaemonCloses, IsOpen
  <1>2. /\ r \in Row /\ r.status = status /\ r.key = rows[id].key /\ r.error = 0
        /\ r.body = body /\ r.tries \in Nat
    BY <1>1 DEF Closed, Row
  <1> HIDE DEF r
  <1>3. /\ rows' \in [Clients -> Row] /\ rows'[id] = r
        /\ \A j \in Clients : j # id => rows'[j] = rows[j]
    BY <1>1, <1>2 DEF TypeOK
  <1>4. \A j \in Clients : RowMoves(j)
    <2>1. Verdict(r) = news
      BY <1>2 DEF Verdict
    <2> QED
      BY <1>1, <1>2, <1>3, <2>1, Happens DEF RowMoves, Decided
  <1>5. \A c \in Clients : ClientKnows(c)'
    BY <1>1, <1>4, Happens, Unmoved
  <1>6. ASSUME NEW c \in Clients PROVE RowKnows(c)'
    BY <1>1, <1>2, <1>3 DEF CInv, RowKnows, At, CloseStatuses
  <1>7. TypeOK'
    BY <1>1, <1>3, Happens DEF TypeOK
  <1> QED
    BY <1>5, <1>6, <1>7 DEF CInv

LEMMA DecideKeeps ==
  ASSUME CInv, NEW id \in Clients, Decide(id)
  PROVE  CInv'
  BY ClosesKeep DEF Decide, CloseStatuses, DecidedBy, Bodies, News

LEMMA ApplyFailsKeeps ==
  ASSUME CInv, NEW id \in Clients, ApplyFails(id)
  PROVE  CInv'
  <1> DEFINE r == ApplyMarked(rows[id], "apply_failed")
  <1>1. /\ TypeOK /\ rows[id] \in Row /\ rows[id].status = "open"
        /\ rows' = [rows EXCEPT ![id] = r] /\ HappensOn(rows[id].key, "apply_error")
        /\ UNCHANGED <<posts, client, waiter, told>>
    BY DEF CInv, TypeOK, ApplyFails, IsOpen
  <1>2. /\ r \in Row /\ r.status = "open" /\ r.key = rows[id].key
        /\ r.error = rows[id].tries + 1 /\ r.tries = rows[id].tries + 1
        /\ rows[id].tries \in Nat
    <2> DEFINE tried == [rows[id] EXCEPT !.apply = "apply_failed", !.tries = @ + 1]
    <2>1. /\ r = [tried EXCEPT !.error = tried.tries]
          /\ rows[id].tries \in Nat /\ rows[id].tries + 1 \in Nat
      BY <1>1 DEF ApplyMarked, Row
    <2>2. /\ tried \in Row /\ tried.tries = rows[id].tries + 1
          /\ tried.status = rows[id].status /\ tried.key = rows[id].key
      BY <1>1, <2>1 DEF Row, ApplyOutcomes
    <2> HIDE DEF tried, r
    <2> QED
      BY <1>1, <2>1, <2>2 DEF Row
  <1> HIDE DEF r
  <1>3. /\ rows' \in [Clients -> Row] /\ rows'[id] = r
        /\ \A j \in Clients : j # id => rows'[j] = rows[j]
    BY <1>1, <1>2 DEF TypeOK
  <1>4. "apply_error" \in News /\ \A j \in Clients : RowMoves(j)
    BY <1>1, <1>2, <1>3, Happens DEF RowMoves, News
  <1>5. \A c \in Clients : ClientKnows(c)'
    BY <1>1, <1>4, Happens, Unmoved
  <1>6. ASSUME NEW c \in Clients PROVE RowKnows(c)'
    BY <1>1, <1>2, <1>3 DEF CInv, RowKnows, At
  <1>7. TypeOK'
    BY <1>1, <1>3, <1>4, Happens DEF TypeOK
  <1> QED
    BY <1>5, <1>6, <1>7 DEF CInv

-------------------------------------------------------------------------------
LEMMA NextClients == CInv /\ [Next]_vars => CInv'
  <1>1. ASSUME CInv, UNCHANGED vars PROVE CInv'
    BY <1>1 DEF vars, CInv, TypeOK, RowKnows, ClientKnows, At, Decided
  <1> QED
    BY <1>1, FileBeginKeeps, FileServedKeeps, FileDeniedKeeps, FileEndsKeeps, PollKeeps,
       ToldKeeps, DecideKeeps, ApplyFailsKeeps
    DEF Next

LEMMA ClientInvariance == Spec => []CInv
  BY InitClients, NextClients, PTL DEF Spec

\* A verdict or an apply error told to a client is about its own destination and
\* happened after it had filed, whoever opened the row it polls.
THEOREM ToldIsNews == Spec => []AnswerIsNews
  <1>1. CInv => AnswerIsNews
    BY DEF CInv, ClientKnows, AnswerIsNews, News
  <1> QED
    BY <1>1, ClientInvariance, PTL

\* A tool run, and a connection that is the first to ask, is held until there is
\* something to tell it.
THEOREM NobodyIsDropped == Spec => FirstAndToolsAreHeld
  <1>1. ASSUME CInv, [Next]_vars, NEW c \in Clients, c \in Tools \/ client[c].row = c
        PROVE  Held(c)
    <2> SUFFICES ASSUME client[c].row # None, told'[c] # told[c]
                 PROVE  waiter[c].late \/ told'[c] = "aborted"
                        \/ Decided(rows, client[c].row) \/ "apply_error" \in since[c]
      BY DEF Held
    <2>1. told \in [Clients -> Results \cup {"pending", "aborted"}]
      BY <1>1 DEF CInv, TypeOK
    <2>2. ToolTold(c) \/ WaiterLooks(c) \/ WaiterReads(c)
      <3>1. ASSUME NEW u \in Clients, ToolTold(u) \/ WaiterLooks(u) \/ WaiterReads(u)
            PROVE  u = c
        BY <2>1, <3>1 DEF ToolTold, WaiterLooks, WaiterReads
      <3>2. PICK u \in Clients : ToolTold(u) \/ WaiterLooks(u) \/ WaiterReads(u)
        BY <1>1 DEF Next, vars, FileBegin, FileServed, FileDenied, FileLost, FileFails, Poll,
           PollEnds, Deadline, Decide, DaemonCloses, ApplyFails
      <3> QED
        BY <3>1, <3>2
    <2>3. client[c].pc = "done" =>
            waiter[c].late \/ Decided(rows, client[c].row) \/ "apply_error" \in since[c]
      BY <1>1 DEF CInv, ClientKnows
    <2> QED
      BY <2>1, <2>2, <2>3 DEF ToolTold, WaiterLooks, WaiterReads, At
  <1>2. CInv /\ [Next]_vars =>
          [\A c \in Clients : c \in Tools \/ client[c].row = c => Held(c)]_vars
    BY <1>1
  <1> QED
    BY <1>2, ClientInvariance, PTL DEF Spec, FirstAndToolsAreHeld
===============================================================================
