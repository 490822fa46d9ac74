------------------------------ MODULE EgressRows ------------------------------
(***************************************************************************)
(* The rows of the request table of src/egress_store.py and what each      *)
(* method of EgressStore does to one row.  The operators are shared by the *)
(* store on its own (EgressStore) and by the daemon that drives it         *)
(* (EgressBroker).                                                         *)
(*                                                                         *)
(* A row keeps the columns a decision depends on.  The columns that only   *)
(* describe the asker (uid, comm, reason, hold_seconds) and the timestamps *)
(* are left out; hit_count belongs to EgressStore.  `error' stands for     *)
(* last_error: its reason always equals apply_status, so the attempt       *)
(* number is all that is kept, and 0 is SQL NULL.                          *)
(***************************************************************************)
EXTENDS Naturals

CONSTANTS
    Ids,        \* request ids
    Keys,       \* (container, host, port) triples
    None        \* "no such value": SQL NULL, an unset register; no id and no key

CloseStatuses == {"allowed", "denied", "stale"}

ApplyOutcomes == {"applied", "apply_failed", "ip_requires_cidr"}

PersistOutcomes == {"persisted", "persist_failed"}

DecidedBy == {"operator", "denylist", "sweep"}

\* decision_body, by what tells the answers apart.
Bodies == {"allow", "deny", "deny_denylist", "deny_stale"}

Row == [ status : {"absent", "open"} \cup CloseStatuses,
         key    : Keys \cup {None},
         by     : DecidedBy \cup {None},
         body   : Bodies \cup {None},
         apply  : ApplyOutcomes \cup {None},
         tries  : Nat,
         error  : Nat,
         persist: PersistOutcomes \cup {None} ]

Absent == [ status |-> "absent", key |-> None, by |-> None, body |-> None,
            apply |-> None, tries |-> 0, error |-> 0, persist |-> None ]

Opened(k) == [Absent EXCEPT !.status = "open", !.key = k]

Closed(r, status, by, body) ==
    [r EXCEPT !.status = status, !.by = by, !.body = body, !.error = 0]

\* The only place where the attempt counter advances.  There is no check of
\* the row's status: an outcome can be recorded on a decided row.
ApplyMarked(r, outcome) ==
    LET tried == [r EXCEPT !.apply = outcome, !.tries = @ + 1] IN
    IF outcome = "applied" THEN [tried EXCEPT !.error = 0]
                           ELSE [tried EXCEPT !.error = tried.tries]

PersistMarked(r, outcome) == [r EXCEPT !.persist = outcome]

IsOpen(rows, id) == rows[id].status = "open"

Decided(rows, id) == rows[id].status \in CloseStatuses

OpenRowsOf(rows, k) == {id \in Ids : IsOpen(rows, id) /\ rows[id].key = k}
===============================================================================
