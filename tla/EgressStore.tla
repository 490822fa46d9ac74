------------------------------ MODULE EgressStore ------------------------------
(***************************************************************************)
(* The SQLite request store of src/egress_store.py on its own: the         *)
(* requests table, the hit counter and the append-only events table.       *)
(*                                                                         *)
(* One connection and one lock serve every caller and each method is one   *)
(* transaction, so a method is one action that changes the row and appends *)
(* its event together.  A method that raises rolls back: it is a disabled  *)
(* action here.  The callers are unconstrained -- any method may follow    *)
(* any other, with any argument the method accepts -- so what holds here   *)
(* does not rest on the broker's discipline.                               *)
(***************************************************************************)
EXTENDS EgressRows, Sequences

CONSTANTS
    Legacy,     \* the legacy log: id -> the key and the hits of an open request
    MaxTrail    \* bound: events per request

\* An id that is not open in the log, or whose records lack a field, has no hits.
LegacyType ==
    /\ Legacy \in [Ids -> [key : Keys \cup {None}, hits : Nat]]
    /\ \A id \in Ids : Legacy[id].hits > 0 => Legacy[id].key \in Keys

VARIABLES
    rows,       \* the requests table
    hits,       \* its hit_count column
    quiet,      \* history: hits that suppressed_hit counted without an event
    trail       \* the events table: a request's events, oldest first

vars == <<rows, hits, quiet, trail>>

EventKinds == {"requested", "hit", "notified", "applied", "apply_failed",
               "persisted", "persist_failed"} \cup CloseStatuses

\* Of an event's fields only the count of a hit tells anything here.
Events == [kind : EventKinds, count : Nat]

One(kind) == [kind |-> kind, count |-> 1]

TypeOK ==
    /\ rows \in [Ids -> Row]
    /\ hits \in [Ids -> Nat]
    /\ quiet \in [Ids -> Nat]
    /\ trail \in [Ids -> Seq(Events)]

Init ==
    /\ rows = [id \in Ids |-> Absent]
    /\ hits = [id \in Ids |-> 0]
    /\ quiet = [id \in Ids |-> 0]
    /\ trail = [id \in Ids |-> <<>>]

Room(id) == Len(trail[id]) + quiet[id] < MaxTrail

\* _insert_event, and the hit counter left alone unless the method moves it.
Record(id, kind) == trail' = [trail EXCEPT ![id] = Append(@, One(kind))]

ApplyHit(id) ==
    /\ Room(id)
    /\ hits' = [hits EXCEPT ![id] = @ + 1]
    /\ Record(id, "hit")
    /\ UNCHANGED <<rows, quiet>>

InsertOpen(id, k) ==
    /\ rows' = [rows EXCEPT ![id] = Opened(k)]
    /\ hits' = [hits EXCEPT ![id] = 1]
    /\ Record(id, "requested")
    /\ UNCHANGED quiet

\* A known id must be open and have this key; an unknown one lands on the
\* open row of the key when there is one.
OpenOrHit(id, k) ==
    /\ \/ IsOpen(rows, id) /\ rows[id].key = k /\ ApplyHit(id)
       \/ /\ rows[id].status = "absent"
          /\ \E open \in OpenRowsOf(rows, k) : ApplyHit(open)
       \/ /\ rows[id].status = "absent"
          /\ OpenRowsOf(rows, k) = {}
          /\ InsertOpen(id, k)

\* The one change without an event.
SuppressedHit(id) ==
    /\ rows[id].status = "denied" /\ rows[id].by = "denylist"
    /\ Room(id)
    /\ hits' = [hits EXCEPT ![id] = @ + 1]
    /\ quiet' = [quiet EXCEPT ![id] = @ + 1]
    /\ UNCHANGED <<rows, trail>>

MarkNotified(id) ==
    /\ rows[id].status # "absent"
    /\ Room(id)
    /\ Record(id, "notified")
    /\ UNCHANGED <<rows, hits, quiet>>

Close(id, status, by, body) ==
    /\ IsOpen(rows, id)
    /\ rows' = [rows EXCEPT ![id] = Closed(@, status, by, body)]
    /\ Record(id, status)
    /\ UNCHANGED <<hits, quiet>>

MarkApply(id, outcome) ==
    /\ rows[id].status # "absent"
    /\ Room(id)
    /\ rows' = [rows EXCEPT ![id] = ApplyMarked(@, outcome)]
    /\ Record(id, IF outcome = "applied" THEN "applied" ELSE "apply_failed")
    /\ UNCHANGED <<hits, quiet>>

MarkPersist(id, outcome) ==
    /\ rows[id].status # "absent"
    /\ Room(id)
    /\ rows' = [rows EXCEPT ![id] = PersistMarked(@, outcome)]
    /\ Record(id, outcome)
    /\ UNCHANGED <<hits, quiet>>

\* Mutant: the `hit' event carries the whole count.
ImportEvents_AllHits(events, n) ==
    LET opened == Append(events, One("requested")) IN
    IF n > 1 THEN Append(opened, [kind |-> "hit", count |-> n]) ELSE opened

\* One event opens the request, one more stands for all of its later hits.
ImportEvents(events, n) ==
    LET opened == Append(events, One("requested")) IN
    IF n > 1 THEN Append(opened, [kind |-> "hit", count |-> n - 1]) ELSE opened

\* The cutover: one transaction inserts every request that is open in the legacy
\* log and whose id is not known yet, with the hits it has there.  Rows of the
\* same key are not looked for.
ImportOpen ==
    LET new == {id \in Ids : rows[id].status = "absent" /\ Legacy[id].hits > 0} IN
    /\ new # {}
    /\ rows' = [id \in Ids |-> IF id \in new THEN Opened(Legacy[id].key) ELSE rows[id]]
    /\ hits' = [id \in Ids |-> IF id \in new THEN Legacy[id].hits ELSE hits[id]]
    /\ trail' = [id \in Ids |-> IF id \in new THEN ImportEvents(trail[id], Legacy[id].hits)
                                               ELSE trail[id]]
    /\ UNCHANGED quiet

Next ==
    \/ ImportOpen
    \/ \E id \in Ids :
        \/ \E k \in Keys : OpenOrHit(id, k)
        \/ SuppressedHit(id)
        \/ MarkNotified(id)
        \/ Close(id, "allowed", "operator", "allow")
        \/ \E body \in {"deny", "deny_denylist"} : Close(id, "denied", "operator", body)
        \/ Close(id, "denied", "denylist", "deny_denylist")
        \/ Close(id, "stale", "sweep", "deny_stale")
        \/ \E o \in ApplyOutcomes : MarkApply(id, o)
        \/ \E o \in PersistOutcomes : MarkPersist(id, o)

Spec == Init /\ [][Next]_vars

-------------------------------------------------------------------------------
\* What an auditor can rebuild from the events of one request.

Unheard == [status |-> "absent", hits |-> 0, tries |-> 0, failing |-> FALSE, persist |-> None]

Hear(s, e) ==
    CASE e.kind = "requested" -> [s EXCEPT !.status = "open", !.hits = 1]
      [] e.kind = "hit"       -> [s EXCEPT !.hits = @ + e.count]
      [] e.kind \in CloseStatuses -> [s EXCEPT !.status = e.kind, !.failing = FALSE]
      [] e.kind = "applied"   -> [s EXCEPT !.tries = @ + 1, !.failing = FALSE]
      [] e.kind = "apply_failed" -> [s EXCEPT !.tries = @ + 1, !.failing = TRUE]
      [] e.kind \in PersistOutcomes -> [s EXCEPT !.persist = e.kind]
      [] OTHER -> s

Replayed(events) ==
    LET after[n \in 0 .. Len(events)] ==
            IF n = 0 THEN Unheard ELSE Hear(after[n - 1], events[n])
    IN after[Len(events)]

\* The audit trail is complete: replaying a request's events gives the
\* status, attempt count, pending error, persist outcome and (suppressed hits
\* apart) the hit count its row has.  This is the "events rule" of the store:
\* no method but suppressed_hit changes a row without its event.
TrailReplaysToRow ==
    \A id \in Ids :
        LET s == Replayed(trail[id]) IN
        /\ s.status = rows[id].status
        /\ s.hits + quiet[id] = hits[id]
        /\ s.tries = rows[id].tries
        /\ s.failing <=> rows[id].error # 0
        /\ s.persist = rows[id].persist

===============================================================================
