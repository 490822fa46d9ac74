-------------------------- MODULE EgressBrokerProofs --------------------------
(***************************************************************************)
(* Proofs about EgressBroker, for every value of its constants.            *)
(*                                                                         *)
(* The inductive invariant IInv adds to what is wanted (OneOpenPerKey,     *)
(* AllowedIsMarked) the reasons: the lock has one holder, and what a     *)
(* holder has read of a row still holds when it writes it, except that the *)
(* sweep may have closed the row.  Finality of decisions and the           *)
(* implementation of EgressLedger follow from a second argument: every     *)
(* step leaves the store alone, opens one free row, closes one open row,   *)
(* or marks a row without touching its key, status or decision.            *)
(***************************************************************************)
EXTENDS EgressBroker, TLAPS

-------------------------------------------------------------------------------
\* What the store's methods do to a row.

\* A new row is a row: open, under the key that was asked for.
LEMMA RowOpened ==
  ASSUME NEW k \in Keys
  PROVE  /\ Opened(k) \in Row
         /\ Opened(k).status = "open"
         /\ Opened(k).key = k
  BY DEF Opened, Absent, Row

\* Closing decides the row and clears its pending apply error.
LEMMA RowClosed ==
  ASSUME NEW r \in Row, NEW status \in CloseStatuses, NEW by \in DecidedBy,
         NEW body \in Bodies
  PROVE  LET c == Closed(r, status, by, body) IN
         /\ c \in Row
         /\ c.status = status /\ c.key = r.key /\ c.apply = r.apply
         /\ c.by = by /\ c.body = body
         /\ c.error = 0
  BY DEF Closed, Row

\* Recording an outcome of an apply decides nothing.
LEMMA RowApplyMarked ==
  ASSUME NEW r \in Row, NEW outcome \in ApplyOutcomes
  PROVE  LET m == ApplyMarked(r, outcome) IN
         /\ m \in Row
         /\ m.status = r.status /\ m.key = r.key /\ m.apply = outcome
         /\ m.by = r.by /\ m.body = r.body
         /\ outcome = "applied" => m.error = 0
  <1> DEFINE tried == [r EXCEPT !.apply = outcome, !.tries = @ + 1]
  <1>1. /\ tried \in Row /\ tried.tries \in Nat
        /\ tried.status = r.status /\ tried.key = r.key /\ tried.apply = outcome
        /\ tried.by = r.by /\ tried.body = r.body
    <2>1. r.tries \in Nat /\ r.tries + 1 \in Nat
      BY DEF Row
    <2>2. tried = [r EXCEPT !.apply = outcome, !.tries = r.tries + 1]
      OBVIOUS
    <2> QED
      BY <2>1, <2>2 DEF Row
  <1> HIDE DEF tried
  <1>2. CASE outcome = "applied"
    <2>1. ApplyMarked(r, outcome) = [tried EXCEPT !.error = 0]
      BY <1>2 DEF ApplyMarked, tried
    <2> QED
      BY <1>1, <2>1 DEF Row
  <1>3. CASE outcome # "applied"
    <2>1. ApplyMarked(r, outcome) = [tried EXCEPT !.error = tried.tries]
      BY <1>3 DEF ApplyMarked, tried
    <2> QED
      BY <1>1, <1>3, <2>1 DEF Row
  <1> QED
    BY <1>2, <1>3

\* Nor does recording that a deny list entry was written.
LEMMA RowPersistMarked ==
  ASSUME NEW r \in Row, NEW outcome \in PersistOutcomes
  PROVE  LET m == PersistMarked(r, outcome) IN
         /\ m \in Row
         /\ m.status = r.status /\ m.key = r.key /\ m.apply = r.apply
         /\ m.by = r.by /\ m.body = r.body /\ m.error = r.error
  BY DEF PersistMarked, Row

-------------------------------------------------------------------------------
\* The rows the daemon starts with: free ids, and the legacy log's open requests,
\* no two of them for one key.
LEMMA InitRows ==
  ASSUME Init
  PROVE  /\ rows \in [Ids -> Row]
         /\ \A id \in Ids : \/ rows[id] = Absent
                            \/ /\ id \in pushed
                               /\ \E k \in Keys : rows[id] = Opened(k)
         /\ OneOpenPerKey
  <1>1. PICK q \in LegacyQueues :
          /\ rows = [id \in Ids |-> IF q[id] = None THEN Absent ELSE Opened(q[id])]
          /\ pushed = {id \in Ids : q[id] # None}
    BY DEF Init
  <1>2. \A id \in Ids : q[id] \in Keys \cup {None}
    BY DEF LegacyQueues
  <1>3. Absent \in Row /\ Absent.status = "absent"
    BY DEF Absent, Row
  <1>4. \A id \in Ids : q[id] # None => /\ Opened(q[id]) \in Row
                                        /\ Opened(q[id]).key = q[id]
    BY <1>2, RowOpened
  <1>5. \A id \in Ids : rows[id] = IF q[id] = None THEN Absent ELSE Opened(q[id])
    BY <1>1
  <1>6. rows \in [Ids -> Row]
    BY <1>1, <1>3, <1>4
  <1>7. \A id \in Ids : \/ rows[id] = Absent
                        \/ id \in pushed /\ \E k \in Keys : rows[id] = Opened(k)
    BY <1>1, <1>2, <1>5
  <1>8. OneOpenPerKey
    <2>1. \A id \in Ids : IsOpen(rows, id) => q[id] # None /\ rows[id].key = q[id]
      BY <1>3, <1>4, <1>5 DEF IsOpen
    <2>2. \A i, j \in Ids : i # j /\ q[i] = q[j] => q[i] = None
      BY DEF LegacyQueues
    <2> QED
      BY <2>1, <2>2 DEF OneOpenPerKey
  <1> QED
    BY <1>6, <1>7, <1>8

\* A row the daemon starts with decides nothing.
LEMMA InitRow ==
  ASSUME Init, NEW id \in Ids
  PROVE  /\ rows[id].status \in {"absent", "open"}
         /\ rows[id].status = "absent" => rows[id].key = None
         /\ rows[id].status = "open" => rows[id].key \in Keys /\ id \in pushed
  BY InitRows, RowOpened DEF Absent

\* The daemon starts in the invariant: undecided rows, no threads at work, the
\* lock free.
LEMMA InitInv == Init => IInv
  <1> SUFFICES ASSUME Init PROVE IInv
    OBVIOUS
  <1>1. rows \in [Ids -> Row] /\ OneOpenPerKey /\ pushed \in SUBSET Ids
    <2>1. pushed \in SUBSET Ids
      BY DEF Init
    <2> QED
      BY <2>1, InitRows
  <1>2. TypeOK
    BY <1>1, BrokerAssumption
    DEF Init, NotFiling, FilingEnded, NotDeciding, DecidingStarts,
        TypeOK, Filing, Deciding, NotSweeping, Sweep
  <1>3. LockIsHeldByOne
    BY BrokerAssumption
    DEF Init, NotFiling, FilingEnded, NotDeciding, DecidingStarts,
        LockIsHeldByOne, FilerHoldsLock, OperatorHoldsLock
  <1>4. /\ \A t \in Filers : FilerKnows(t)
        /\ \A t \in Operators : OperatorKnows(t)
    BY DEF Init, NotFiling, FilingEnded, NotDeciding, DecidingStarts,
           FilerKnows, OperatorKnows, OperatorHoldsLock
  <1>5. AllowedIsMarked /\ RowsAreKeyed
    BY InitRow DEF AllowedIsMarked, RowsAreKeyed
  <1> QED
    BY <1>1, <1>2, <1>3, <1>4, <1>5 DEF IInv

\* A step that leaves the store alone keeps what is said of the rows.
LEMMA RowsKept ==
  ASSUME IInv, UNCHANGED rows
  PROVE  RowsAreKeyed' /\ OneOpenPerKey' /\ AllowedIsMarked'
  BY DEF IInv, RowsAreKeyed, OneOpenPerKey, AllowedIsMarked, IsOpen

\* So does one that rewrites a filed row, unless it reopens it, moves it to
\* another key or allows what was not applied; and a filer that is about to
\* insert a row still finds its id and its key free.
LEMMA RowRewritten ==
  ASSUME IInv, NEW id \in Ids, NEW r \in Row,
         rows' = [rows EXCEPT ![id] = r],
         rows[id].status # "absent",
         r.status # "absent",
         r.key = rows[id].key,
         r.status = "open" => rows[id].status = "open",
         r.status = "allowed" =>
            r.apply = "applied" /\ r.error = 0 /\ ~ NeedsCidr(id)
  PROVE  /\ rows' \in [Ids -> Row]
         /\ rows'[id] = r
         /\ \A j \in Ids : j # id => rows'[j] = rows[j]
         /\ RowsAreKeyed' /\ OneOpenPerKey' /\ AllowedIsMarked'
         /\ filing' = filing => \A u \in Filers : FilerKnows(u)'
  <1>1. /\ rows' \in [Ids -> Row]
        /\ rows'[id] = r
        /\ \A j \in Ids : j # id => rows'[j] = rows[j]
    BY DEF IInv, TypeOK
  <1>2. RowsAreKeyed' /\ OneOpenPerKey' /\ AllowedIsMarked'
    BY <1>1 DEF IInv, RowsAreKeyed, OneOpenPerKey, AllowedIsMarked, IsOpen, NeedsCidr
  <1>3. ASSUME filing' = filing, NEW u \in Filers
        PROVE  FilerKnows(u)'
    BY <1>1, <1>3 DEF IInv, FilerKnows, OpenRowsOf, IsOpen
  <1> QED
    BY <1>1, <1>2, <1>3

-------------------------------------------------------------------------------
\* The filing threads.

\* Giving one filing thread a new record leaves the others where they were.
LEMMA FilerMoved ==
  ASSUME TypeOK, NEW t \in Filers, NEW f \in Filing,
         filing' = [filing EXCEPT ![t] = f]
  PROVE  /\ filing' \in [Filers -> Filing]
         /\ filing'[t] = f
         /\ \A u \in Filers : u # t => filing'[u] = filing[u]
  BY DEF TypeOK

\* So does moving one filing thread on to its next transaction.
LEMMA FilerAdvanced ==
  ASSUME TypeOK, NEW t \in Filers, NEW pc \in {"notify", "push", "record_close"},
         filing' = [filing EXCEPT ![t].pc = pc]
  PROVE  /\ filing' \in [Filers -> Filing]
         /\ filing'[t].pc = pc
         /\ filing'[t].key = filing[t].key /\ filing'[t].rid = filing[t].rid
         /\ \A u \in Filers : u # t => filing'[u] = filing[u]
  <1> DEFINE f == [filing[t] EXCEPT !.pc = pc]
  <1>1. filing[t] \in Filing /\ filing' = [filing EXCEPT ![t] = f]
    BY DEF TypeOK
  <1>2. f \in Filing /\ f.pc = pc /\ f.key = filing[t].key /\ f.rid = filing[t].rid
    BY <1>1 DEF Filing
  <1> HIDE DEF f
  <1> QED
    BY <1>1, <1>2, FilerMoved

\* A filing thread that ends, or is answered with an error, releases the lock.
LEMMA FilerEnds ==
  ASSUME IInv, NEW t \in Filers, NEW answer \in {"pending", "deny", "error"},
         filing' = [filing EXCEPT ![t] = FilingEnded(answer)],
         filing[t].pc = "push" => UNCHANGED lock,
         filing[t].pc # "push" => filing[t].pc # "idle" /\ lock' = None,
         UNCHANGED <<rows, deciding>>
  PROVE  /\ filing' \in [Filers -> Filing]
         /\ lock' \in Filers \cup Operators \cup {None}
         /\ LockIsHeldByOne'
         /\ \A u \in Filers : FilerKnows(u)'
         /\ \A u \in Operators : OperatorKnows(u)'
  <1>1. FilingEnded(answer) \in Filing /\ FilingEnded(answer).pc = "idle"
    BY DEF FilingEnded, Filing
  <1>2. /\ filing' \in [Filers -> Filing]
        /\ filing'[t].pc = "idle"
        /\ \A u \in Filers : u # t => filing'[u] = filing[u]
    BY <1>1, FilerMoved DEF IInv
  <1>3. lock' \in Filers \cup Operators \cup {None}
    BY DEF IInv, TypeOK
  <1>4. LockIsHeldByOne'
    <2>1. CASE filing[t].pc = "push"
      BY <1>2, <2>1 DEF IInv, LockIsHeldByOne, FilerHoldsLock, OperatorHoldsLock
    <2>2. CASE filing[t].pc # "push"
      <3>1. filing[t].pc \in FilerHoldsLock
        BY <2>2 DEF IInv, TypeOK, Filing, FilerHoldsLock
      <3>2. lock = t
        BY <3>1 DEF IInv, LockIsHeldByOne
      <3> QED
        BY <1>2, <2>2, <3>2, BrokerAssumption
        DEF IInv, LockIsHeldByOne, FilerHoldsLock, OperatorHoldsLock
    <2> QED
      BY <2>1, <2>2
  <1>5. \A u \in Filers : FilerKnows(u)'
    BY <1>2 DEF IInv, FilerKnows, OpenRowsOf, IsOpen
  <1>6. \A u \in Operators : OperatorKnows(u)'
    BY DEF IInv, OperatorKnows, NeedsCidr
  <1> QED
    BY <1>2, <1>3, <1>4, <1>5, <1>6

\* file_request takes the free lock; the id and the key it goes on to insert are
\* free, because nobody else inserts before it gives the lock up.
LEMMA FileBeginInv ==
  ASSUME IInv, NEW t \in Filers, NEW k \in Keys, NEW id \in Ids, FileBegin(t, k, id)
  PROVE  IInv'
  <1> USE BrokerAssumption
  <1>1. PICK pc \in {"hit", "insert", "record", "suppress"}, rid \in Ids :
          /\ FilerStep(t, pc, k, rid)
          /\ window' \in [Containers \X Zones -> Ids \cup {None}]
          /\ pc \in {"insert", "record"} =>
                rows[rid].status = "absent" /\ OpenRowsOf(rows, k) = {}
    <2>1. TypeOK
      BY DEF IInv
    <2>2. CASE UNCHANGED window /\ FilerStep(t, "hit", k, id)
      BY <2>1, <2>2 DEF TypeOK
    <2>3. CASE UNCHANGED window /\ \E open \in OpenRowsOf(rows, k) : FilerStep(t, "hit", k, open)
      BY <2>1, <2>3 DEF TypeOK, OpenRowsOf
    <2>4. CASE /\ UNCHANGED window /\ FilerStep(t, "insert", k, id)
               /\ rows[id].status = "absent" /\ OpenRowsOf(rows, k) = {}
      BY <2>1, <2>4 DEF TypeOK
    <2>5. ASSUME NEW e \in LongestZones(k),
                 rows[id].status = "absent", OpenRowsOf(rows, k) = {},
                 IF window[WindowKey(k, e)] = None
                 THEN /\ window' = [window EXCEPT ![WindowKey(k, e)] = id]
                      /\ FilerStep(t, "record", k, id)
                 ELSE /\ FilerStep(t, "suppress", k, window[WindowKey(k, e)])
                      /\ UNCHANGED window
          PROVE  \E pc \in {"hit", "insert", "record", "suppress"}, rid \in Ids :
                    /\ FilerStep(t, pc, k, rid)
                    /\ window' \in [Containers \X Zones -> Ids \cup {None}]
                    /\ pc \in {"insert", "record"} =>
                          rows[rid].status = "absent" /\ OpenRowsOf(rows, k) = {}
      <3>1. WindowKey(k, e) \in Containers \X Zones
        <4>1. e.zone \in Zones
          BY <2>1 DEF TypeOK, LongestZones, Matches, Entries
        <4>2. k[1] \in Containers
          BY DEF Keys
        <4> QED
          BY <4>1, <4>2 DEF WindowKey, Container
      <3>2. CASE window[WindowKey(k, e)] = None
        <4>1. FilerStep(t, "record", k, id)
          BY <2>5, <3>2
        <4>2. window' = [window EXCEPT ![WindowKey(k, e)] = id]
          BY <2>5, <3>2
        <4>3. window' \in [Containers \X Zones -> Ids \cup {None}]
          BY <2>1, <3>1, <4>2 DEF TypeOK
        <4> QED
          BY <2>5, <4>1, <4>3
      <3>3. CASE window[WindowKey(k, e)] # None
        <4>1. window[WindowKey(k, e)] \in Ids
          BY <2>1, <3>1, <3>3 DEF TypeOK
        <4> QED
          BY <2>1, <2>5, <3>3, <4>1 DEF TypeOK
      <3> QED
        BY <3>2, <3>3
    <2> QED
      BY <2>2, <2>3, <2>4, <2>5 DEF FileBegin
  <1> DEFINE f == [pc |-> pc, key |-> k, rid |-> rid, answer |-> "none"]
  <1>2. f \in Filing
    BY DEF Filing
  <1>3. /\ filing' \in [Filers -> Filing]
        /\ filing'[t] = f
        /\ \A u \in Filers : u # t => filing'[u] = filing[u]
    BY <1>1, <1>2, FilerMoved DEF FilerStep, IInv
  <1>4. TypeOK'
    BY <1>1, <1>3 DEF IInv, TypeOK, FileBegin, environment
  <1>5. LockIsHeldByOne'
    BY <1>3 DEF FileBegin, FilerAt, LockFree, IInv, LockIsHeldByOne, FilerHoldsLock,
       OperatorHoldsLock
  <1>6. \A u \in Filers : FilerKnows(u)'
    BY <1>1, <1>3 DEF FileBegin, IInv, FilerKnows, OpenRowsOf, IsOpen
  <1>7. \A u \in Operators : OperatorKnows(u)'
    BY DEF FileBegin, IInv, OperatorKnows, NeedsCidr
  <1> QED
    BY <1>4, <1>5, <1>6, <1>7, RowsKept DEF IInv, FileBegin

\* Coalescing on an open row writes none of the columns a decision depends on.
LEMMA FileHitInv ==
  ASSUME IInv, NEW t \in Filers, FileHit(t)
  PROVE  IInv'
  <1>1. PICK answer \in {"pending", "error"} : FilerReplies(t, answer)
    BY DEF FileHit
  <1>2. /\ filing' \in [Filers -> Filing]
        /\ lock' \in Filers \cup Operators \cup {None}
        /\ LockIsHeldByOne'
        /\ \A u \in Filers : FilerKnows(u)'
        /\ \A u \in Operators : OperatorKnows(u)'
    BY <1>1, FilerEnds DEF FilerReplies, FileHit, FilerAt
  <1>3. TypeOK'
    BY <1>2 DEF IInv, TypeOK, FileHit, environment
  <1> QED
    BY <1>2, <1>3, RowsKept DEF IInv, FileHit

\* The insert meets no other open row of its key: the coalescing read it rests on
\* was made under the lock it still holds.
LEMMA FileInsertInv ==
  ASSUME IInv, NEW t \in Filers, FileInsert(t)
  PROVE  IInv'
  <1> USE BrokerAssumption
  <1> DEFINE id == filing[t].rid
             k == filing[t].key
  <1>1. /\ id \in Ids /\ k \in Keys
        /\ rows[id].status = "absent" /\ OpenRowsOf(rows, k) = {}
        /\ lock = t
    BY DEF FileInsert, IInv, FilerKnows, LockIsHeldByOne, FilerHoldsLock
  <1>2. /\ rows' \in [Ids -> Row]
        /\ rows'[id] = Opened(k)
        /\ rows'[id].status = "open" /\ rows'[id].key = k
        /\ \A j \in Ids : j # id => rows'[j] = rows[j]
    BY <1>1, RowOpened DEF FileInsert, IInv, TypeOK
  <1>3. PICK pc \in {"notify", "record_close"} : filing' = [filing EXCEPT ![t].pc = pc]
    BY DEF FileInsert
  <1>4. /\ filing' \in [Filers -> Filing]
        /\ filing'[t].pc = pc
        /\ filing'[t].key = k /\ filing'[t].rid = id
        /\ \A u \in Filers : u # t => filing'[u] = filing[u]
    BY <1>3, FilerAdvanced DEF IInv
  <1> HIDE DEF id, k
  <1>5. TypeOK'
    BY <1>2, <1>4 DEF IInv, TypeOK, FileInsert, environment
  <1>6. LockIsHeldByOne'
    BY <1>1, <1>4 DEF FileInsert, IInv, LockIsHeldByOne, FilerHoldsLock, OperatorHoldsLock
  <1>7. \A u \in Filers : FilerKnows(u)'
    <2>1. ASSUME NEW u \in Filers, u # t
          PROVE  filing[u].pc \notin {"insert", "record"}
      BY <1>1, <2>1 DEF IInv, LockIsHeldByOne, FilerHoldsLock
    <2> QED
      BY <1>1, <1>4, <2>1 DEF IInv, FilerKnows
  <1>8. \A u \in Operators : OperatorKnows(u)'
    <2> SUFFICES ASSUME NEW u \in Operators
                 PROVE  OperatorKnows(u)'
      OBVIOUS
    <2>1. OperatorKnows(u) /\ deciding'[u] = deciding[u] /\ deciding[u].pc \notin OperatorHoldsLock
      BY <1>1 DEF IInv, FileInsert, LockIsHeldByOne
    <2>2. deciding[u].pc \in {"apply", "settle", "persist_mark"} =>
             deciding[u].rid \in Ids /\ deciding[u].rid # id
      BY <1>1, <2>1 DEF OperatorKnows
    <2> QED
      BY <1>2, <2>1, <2>2 DEF OperatorKnows, OperatorHoldsLock, NeedsCidr
  <1>9. RowsAreKeyed' /\ OneOpenPerKey' /\ AllowedIsMarked'
    BY <1>1, <1>2 DEF IInv, RowsAreKeyed, OneOpenPerKey, AllowedIsMarked, OpenRowsOf, IsOpen
  <1> QED
    BY <1>5, <1>6, <1>7, <1>8, <1>9 DEF IInv

\* After mark_notified the lock is given up and the store left alone.
LEMMA FileNotifyInv ==
  ASSUME IInv, NEW t \in Filers, FileNotify(t)
  PROVE  IInv'
  <1> USE BrokerAssumption
  <1>1. /\ filing' \in [Filers -> Filing]
        /\ filing'[t].pc = "push"
        /\ filing'[t].key = filing[t].key /\ filing'[t].rid = filing[t].rid
        /\ \A u \in Filers : u # t => filing'[u] = filing[u]
    BY FilerAdvanced DEF IInv, FileNotify
  <1>2. lock = t
    BY DEF FileNotify, FilerAt, IInv, LockIsHeldByOne, FilerHoldsLock
  <1>3. TypeOK'
    BY <1>1 DEF IInv, TypeOK, FileNotify, environment
  <1>4. LockIsHeldByOne'
    BY <1>1, <1>2 DEF FileNotify, IInv, LockIsHeldByOne, FilerHoldsLock, OperatorHoldsLock
  <1>5. \A u \in Filers : FilerKnows(u)'
    BY <1>1 DEF FileNotify, FilerAt, IInv, FilerKnows, OpenRowsOf, IsOpen
  <1>6. \A u \in Operators : OperatorKnows(u)'
    BY DEF FileNotify, IInv, OperatorKnows, NeedsCidr
  <1> QED
    BY <1>3, <1>4, <1>5, <1>6, RowsKept DEF IInv, FileNotify

\* The notifier is called without the lock, and nothing the invariant names moves.
LEMMA FilePushInv ==
  ASSUME IInv, NEW t \in Filers, FilePush(t)
  PROVE  IInv'
  <1>1. /\ filing' \in [Filers -> Filing]
        /\ LockIsHeldByOne'
        /\ \A u \in Filers : FilerKnows(u)'
        /\ \A u \in Operators : OperatorKnows(u)'
    BY FilerEnds DEF FilePush, FilerAt
  <1>2. filing[t].rid \in Ids
    BY DEF FilePush, FilerAt, IInv, FilerKnows
  <1>3. TypeOK'
    BY <1>1, <1>2 DEF IInv, TypeOK, FilePush
  <1> QED
    BY <1>1, <1>3, RowsKept DEF IInv, FilePush

\* The denylist short-circuit closes the row it has just opened, which stays
\* below the one-open-row bound.
LEMMA FileRecordCloseInv ==
  ASSUME IInv, NEW t \in Filers, FileRecordClose(t)
  PROVE  IInv'
  <1> USE BrokerAssumption
  <1> DEFINE id == filing[t].rid
             r == DenylistDenial(rows[id])
  <1>1. id \in Ids /\ rows[id].status = "open" /\ rows[id] \in Row /\ lock = t
    BY DEF FileRecordClose, FilerAt, IInv, TypeOK, FilerKnows, IsOpen, LockIsHeldByOne, FilerHoldsLock
  <1>2. r \in Row /\ r.status = "denied" /\ r.key = rows[id].key
    BY <1>1, RowClosed DEF DenylistDenial, CloseStatuses, DecidedBy, Bodies
  <1>3. rows' = [rows EXCEPT ![id] = r]
    BY DEF FileRecordClose
  <1> HIDE DEF r
  <1>4. /\ rows' \in [Ids -> Row]
        /\ rows'[id] = r
        /\ \A j \in Ids : j # id => rows'[j] = rows[j]
        /\ RowsAreKeyed' /\ OneOpenPerKey' /\ AllowedIsMarked'
    BY <1>1, <1>2, <1>3, RowRewritten
  <1>5. FilingEnded("deny") \in Filing /\ FilingEnded("deny").pc = "idle"
    BY DEF FilingEnded, Filing
  <1>6. /\ filing' \in [Filers -> Filing]
        /\ filing'[t].pc = "idle"
        /\ \A u \in Filers : u # t => filing'[u] = filing[u]
    BY <1>5, FilerMoved DEF IInv, FileRecordClose, FilerReplies
  <1> HIDE DEF id
  <1>7. TypeOK'
    BY <1>4, <1>6 DEF IInv, TypeOK, FileRecordClose, FilerReplies, environment
  <1>8. LockIsHeldByOne'
    BY <1>1, <1>6 DEF FileRecordClose, FilerReplies, IInv, LockIsHeldByOne, FilerHoldsLock,
       OperatorHoldsLock
  <1>9. \A u \in Filers : FilerKnows(u)'
    <2>1. ASSUME NEW u \in Filers, u # t
          PROVE  filing[u].pc \notin {"insert", "record"}
      BY <1>1, <2>1 DEF IInv, LockIsHeldByOne, FilerHoldsLock
    <2> QED
      BY <1>6, <2>1 DEF IInv, FilerKnows
  <1>10. \A u \in Operators : OperatorKnows(u)'
    <2> SUFFICES ASSUME NEW u \in Operators
                 PROVE  OperatorKnows(u)'
      OBVIOUS
    <2>1. OperatorKnows(u) /\ deciding'[u] = deciding[u] /\ deciding[u].pc \notin OperatorHoldsLock
      BY <1>1 DEF IInv, FileRecordClose, LockIsHeldByOne
    <2> QED
      BY <1>1, <1>2, <1>4, <2>1 DEF OperatorKnows, OperatorHoldsLock, NeedsCidr
  <1> QED
    BY <1>4, <1>7, <1>8, <1>9, <1>10 DEF IInv

\* A suppressed hit, taken or refused, ends the filing and leaves the rows.
LEMMA FileSuppressInv ==
  ASSUME IInv, NEW t \in Filers, FileSuppress(t)
  PROVE  IInv'
  <1>1. PICK answer \in {"deny", "error"} : FilerReplies(t, answer)
    BY DEF FileSuppress
  <1>2. /\ filing' \in [Filers -> Filing]
        /\ lock' \in Filers \cup Operators \cup {None}
        /\ LockIsHeldByOne'
        /\ \A u \in Filers : FilerKnows(u)'
        /\ \A u \in Operators : OperatorKnows(u)'
    BY <1>1, FilerEnds DEF FilerReplies, FileSuppress, FilerAt
  <1>3. TypeOK'
    BY <1>2 DEF IInv, TypeOK, FileSuppress, environment
  <1> QED
    BY <1>2, <1>3, RowsKept DEF IInv, FileSuppress

\* A filing whose transaction raises gives up the lock and leaves the rows.
LEMMA FileFaultInv ==
  ASSUME IInv, NEW t \in Filers, FileFault(t)
  PROVE  IInv'
  <1>1. /\ filing' \in [Filers -> Filing]
        /\ lock' \in Filers \cup Operators \cup {None}
        /\ LockIsHeldByOne'
        /\ \A u \in Filers : FilerKnows(u)'
        /\ \A u \in Operators : OperatorKnows(u)'
    BY FilerEnds DEF FilerReplies, FileFault
  <1>2. TypeOK'
    BY <1>1 DEF IInv, TypeOK, FileFault
  <1> QED
    BY <1>1, <1>2, RowsKept DEF IInv, FileFault

-------------------------------------------------------------------------------
\* The deciding threads.

\* Giving one deciding thread a new record leaves the others where they were.
LEMMA OperatorMoved ==
  ASSUME TypeOK, NEW t \in Operators, NEW d \in Deciding,
         deciding' = [deciding EXCEPT ![t] = d]
  PROVE  /\ deciding' \in [Operators -> Deciding]
         /\ deciding'[t] = d
         /\ \A u \in Operators : u # t => deciding'[u] = deciding[u]
  BY DEF TypeOK

\* A decision handler that starts, ends or replies has a well-formed record.
LEMMA OperatorStarts ==
  ASSUME NEW pc \in {"idle", "next", "add", "reply"},
         NEW op \in {"none", "allow", "deny", "persist"},
         NEW entry \in Entries \cup {None}, NEW todo \in SUBSET Ids
  PROVE  /\ DecidingStarts(pc, op, entry, todo) \in Deciding
         /\ DecidingStarts(pc, op, entry, todo).pc = pc
         /\ DecidingStarts(pc, op, entry, todo).entry = entry
  BY DEF DecidingStarts, Deciding

\* Moving a deciding thread on keeps its candidate and the other threads.
LEMMA OperatorAdvanced ==
  ASSUME TypeOK, NEW t \in Operators,
         NEW pc \in {"list", "reply", "persist_mark", "aborted", "apply_mark", "allow_close"},
         deciding' = [deciding EXCEPT ![t].pc = pc]
  PROVE  /\ deciding' \in [Operators -> Deciding]
         /\ deciding'[t].pc = pc
         /\ deciding'[t].rid = deciding[t].rid
         /\ deciding'[t].entry = deciding[t].entry
         /\ \A u \in Operators : u # t => deciding'[u] = deciding[u]
  <1> DEFINE d == [deciding[t] EXCEPT !.pc = pc]
  <1>1. deciding[t] \in Deciding /\ deciding' = [deciding EXCEPT ![t] = d]
    BY DEF TypeOK
  <1>2. /\ d \in Deciding /\ d.pc = pc
        /\ d.rid = deciding[t].rid /\ d.entry = deciding[t].entry
    BY <1>1 DEF Deciding
  <1> HIDE DEF d
  <1> QED
    BY <1>1, <1>2, OperatorMoved

\* Turning to the next candidate keeps the thread well-formed and lock-free.
LEMMA OperatorResumes ==
  ASSUME TypeOK, NEW t \in Operators,
         \/ Resume(t)
         \/ deciding[t].rid \in Ids /\ ResumeDecided(t)
  PROVE  /\ deciding' \in [Operators -> Deciding]
         /\ deciding'[t].pc = "next"
         /\ \A u \in Operators : u # t => deciding'[u] = deciding[u]
  <1>1. deciding[t] \in Deciding
    BY DEF TypeOK
  <1>2. CASE Resume(t)
    <2> DEFINE d == [deciding[t] EXCEPT !.pc = "next", !.rid = None, !.exit0 = FALSE]
    <2>1. d \in Deciding /\ d.pc = "next"
      BY <1>1 DEF Deciding
    <2>2. deciding' = [deciding EXCEPT ![t] = d]
      BY <1>1, <1>2 DEF TypeOK, Resume
    <2> HIDE DEF d
    <2> QED
      BY <2>1, <2>2, OperatorMoved
  <1>3. CASE deciding[t].rid \in Ids /\ ResumeDecided(t)
    <2> DEFINE done == deciding[t].decided \cup {deciding[t].rid}
               d == [deciding[t] EXCEPT !.pc = "next", !.rid = None, !.exit0 = FALSE,
                                        !.decided = done]
    <2>1. done \in SUBSET Ids
      BY <1>1, <1>3 DEF Deciding
    <2>2. d \in Deciding /\ d.pc = "next"
      BY <1>1, <2>1 DEF Deciding
    <2>3. deciding' = [deciding EXCEPT ![t] = d]
      BY <1>1, <1>3 DEF TypeOK, ResumeDecided
    <2> HIDE DEF d
    <2> QED
      BY <2>2, <2>3, OperatorMoved
  <1> QED
    BY <1>2, <1>3

\* A deciding thread takes the lock when it is free, or gives it up.
LEMMA OperatorLocks ==
  ASSUME IInv, NEW t \in Operators, UNCHANGED filing,
         \A u \in Operators : u # t => deciding'[u] = deciding[u],
         \/ /\ lock = None \/ deciding[t].pc \in OperatorHoldsLock
            /\ lock' = IF deciding'[t].pc \in OperatorHoldsLock THEN t ELSE None
         \/ /\ deciding[t].pc \notin OperatorHoldsLock
            /\ deciding'[t].pc \notin OperatorHoldsLock
            /\ UNCHANGED lock
  PROVE  LockIsHeldByOne' /\ lock' \in Filers \cup Operators \cup {None}
  <1>1. lock' \in Filers \cup Operators \cup {None}
    BY DEF IInv, TypeOK
  <1>2. CASE lock = None
    BY <1>2, BrokerAssumption DEF IInv, LockIsHeldByOne
  <1>3. CASE lock = t
    BY <1>3, BrokerAssumption DEF IInv, LockIsHeldByOne
  <1>4. CASE /\ deciding[t].pc \notin OperatorHoldsLock
             /\ deciding'[t].pc \notin OperatorHoldsLock
             /\ UNCHANGED lock
    <2>1. deciding[t].pc \in OperatorHoldsLock <=> lock = t
      BY DEF IInv, LockIsHeldByOne
    <2>2. \A u \in Operators : deciding'[u].pc \in OperatorHoldsLock <=> lock' = u
      BY <1>4, <2>1 DEF IInv, LockIsHeldByOne
    <2>3. \A f \in Filers : filing'[f].pc \in FilerHoldsLock <=> lock' = f
      BY <1>4 DEF IInv, LockIsHeldByOne
    <2> QED
      BY <1>1, <2>2, <2>3 DEF LockIsHeldByOne
  <1>5. deciding[t].pc \in OperatorHoldsLock => lock = t
    BY DEF IInv, LockIsHeldByOne
  <1> QED
    BY <1>1, <1>2, <1>3, <1>4, <1>5

\* A step of a deciding thread that leaves the store alone.
LEMMA OperatorStepsRowsKept ==
  ASSUME IInv, NEW t \in Operators, UNCHANGED <<rows, filing>>,
         \A u \in Operators : u # t => deciding'[u] = deciding[u],
         OperatorKnows(t)'
  PROVE  /\ \A u \in Filers : FilerKnows(u)'
         /\ \A u \in Operators : OperatorKnows(u)'
         /\ RowsAreKeyed' /\ OneOpenPerKey' /\ AllowedIsMarked'
  <1>1. \A u \in Filers : FilerKnows(u)'
    BY DEF IInv, FilerKnows, OpenRowsOf, IsOpen
  <1>2. \A u \in Operators : OperatorKnows(u)'
    BY DEF IInv, OperatorKnows, NeedsCidr
  <1> QED
    BY <1>1, <1>2, RowsKept

\* A step of a deciding thread that rewrites a row.
LEMMA OperatorStepsRowRewritten ==
  ASSUME IInv, NEW t \in Operators, UNCHANGED filing,
         \A u \in Operators : u # t => deciding'[u] = deciding[u],
         OperatorKnows(t)',
         NEW id \in Ids, NEW r \in Row,
         rows' = [rows EXCEPT ![id] = r],
         rows[id].status # "absent",
         r.status # "absent",
         r.key = rows[id].key,
         r.status = "open" => rows[id].status = "open",
         r.status = "allowed" =>
            r.apply = "applied" /\ r.error = 0 /\ ~ NeedsCidr(id),
         \/ deciding[t].pc \in OperatorHoldsLock
         \/ /\ r.status = rows[id].status /\ r.apply = rows[id].apply
            /\ r.error = rows[id].error
  PROVE  /\ rows' \in [Ids -> Row]
         /\ \A u \in Filers : FilerKnows(u)'
         /\ \A u \in Operators : OperatorKnows(u)'
         /\ RowsAreKeyed' /\ OneOpenPerKey' /\ AllowedIsMarked'
  <1>1. /\ rows' \in [Ids -> Row]
        /\ rows'[id] = r
        /\ \A j \in Ids : j # id => rows'[j] = rows[j]
        /\ RowsAreKeyed' /\ OneOpenPerKey' /\ AllowedIsMarked'
        /\ \A u \in Filers : FilerKnows(u)'
    BY RowRewritten
  <1>2. ASSUME NEW u \in Operators, u # t
        PROVE  OperatorKnows(u)'
    <2>1. OperatorKnows(u) /\ deciding'[u] = deciding[u]
      BY <1>2 DEF IInv
    <2>2. deciding[u].pc \in OperatorHoldsLock =>
             deciding[u].rid \in Ids /\ deciding[u].rid # None
      BY <2>1, BrokerAssumption DEF OperatorKnows
    <2>3. CASE deciding[u].pc \in OperatorHoldsLock
      <3>1. /\ r.status = rows[id].status /\ r.apply = rows[id].apply
            /\ r.error = rows[id].error
        BY <1>2, <2>3, BrokerAssumption DEF IInv, LockIsHeldByOne
      <3> QED
        BY <1>1, <2>1, <3>1 DEF OperatorKnows, NeedsCidr
    <2>4. CASE deciding[u].pc \notin OperatorHoldsLock
      BY <1>1, <2>1, <2>4 DEF OperatorKnows, NeedsCidr, OperatorHoldsLock
    <2> QED
      BY <2>3, <2>4
  <1> QED
    BY <1>1, <1>2

\* Reading the candidates of an allow or a deny changes no row.
LEMMA DecideBeginInv ==
  ASSUME IInv, NEW t \in Operators, NEW op \in {"allow", "deny"}, NEW e \in Entries,
         DecideBegin(t, op, e)
  PROVE  IInv'
  <1> DEFINE d == DecidingStarts("next", op, None, OpenCovered(e))
  <1>1. d \in Deciding /\ d.pc = "next"
    <2>1. OpenCovered(e) \in SUBSET Ids
      BY DEF OpenCovered
    <2> QED
      BY <2>1, OperatorStarts
  <1> HIDE DEF d
  <1>2. /\ deciding' \in [Operators -> Deciding]
        /\ deciding'[t].pc = "next"
        /\ \A u \in Operators : u # t => deciding'[u] = deciding[u]
    BY <1>1, OperatorMoved DEF IInv, DecideBegin, d
  <1>3. TypeOK'
    BY <1>2 DEF IInv, TypeOK, DecideBegin, environment
  <1>4. LockIsHeldByOne'
    BY <1>2, OperatorLocks DEF DecideBegin, OperatorAt, OperatorHoldsLock
  <1>5. OperatorKnows(t)'
    BY <1>2 DEF OperatorKnows, OperatorHoldsLock
  <1> QED
    BY <1>2, <1>3, <1>4, <1>5, OperatorStepsRowsKept DEF IInv, DecideBegin

\* Entering persist_deny changes no row.
LEMMA PersistBeginInv ==
  ASSUME IInv, NEW t \in Operators, NEW e \in Entries, PersistBegin(t, e)
  PROVE  IInv'
  <1> DEFINE d == DecidingStarts("add", "persist", e, {})
  <1>1. d \in Deciding /\ d.pc = "add" /\ d.entry = e
    BY OperatorStarts
  <1> HIDE DEF d
  <1>2. /\ deciding' \in [Operators -> Deciding]
        /\ deciding'[t].pc = "add" /\ deciding'[t].entry = e
        /\ \A u \in Operators : u # t => deciding'[u] = deciding[u]
    BY <1>1, OperatorMoved DEF IInv, PersistBegin, d
  <1>3. TypeOK'
    BY <1>2 DEF IInv, TypeOK, PersistBegin, environment
  <1>4. LockIsHeldByOne'
    BY <1>2, OperatorLocks DEF PersistBegin, OperatorAt, OperatorHoldsLock
  <1>5. OperatorKnows(t)'
    BY <1>2 DEF OperatorKnows, OperatorHoldsLock
  <1> QED
    BY <1>2, <1>3, <1>4, <1>5, OperatorStepsRowsKept DEF IInv, PersistBegin

\* Writing the deny list entry, or failing to, changes no row.
LEMMA PersistAddInv ==
  ASSUME IInv, NEW t \in Operators, PersistAdd(t)
  PROVE  IInv'
  <1>1. /\ deciding' \in [Operators -> Deciding]
        /\ deciding'[t].pc \in {"list", "reply"}
        /\ deciding'[t].pc = "list" => deciding'[t].entry = deciding[t].entry
        /\ \A u \in Operators : u # t => deciding'[u] = deciding[u]
    <2>1. CASE deciding' = [deciding EXCEPT ![t].pc = "list"]
      BY <2>1, OperatorAdvanced DEF IInv
    <2>2. CASE deciding' = [deciding EXCEPT ![t] =
                               DecidingStarts("reply", "persist", None, {})]
      <3> DEFINE d == DecidingStarts("reply", "persist", None, {})
      <3>1. d \in Deciding /\ d.pc = "reply"
        BY OperatorStarts
      <3> HIDE DEF d
      <3> QED
        BY <2>2, <3>1, OperatorMoved DEF IInv, d
    <2> QED
      BY <2>1, <2>2 DEF PersistAdd
  <1>2. deciding[t].entry \in Entries
    BY DEF IInv, PersistAdd, OperatorAt, OperatorKnows
  <1>3. TypeOK'
    BY <1>1, <1>2 DEF IInv, TypeOK, PersistAdd, environment
  <1>4. LockIsHeldByOne'
    BY <1>1, OperatorLocks DEF PersistAdd, OperatorAt, OperatorHoldsLock
  <1>5. OperatorKnows(t)'
    BY <1>1, <1>2 DEF OperatorKnows, OperatorHoldsLock
  <1> QED
    BY <1>1, <1>3, <1>4, <1>5, OperatorStepsRowsKept DEF IInv, PersistAdd

\* Listing the rows a new entry covers changes no row.
LEMMA PersistListInv ==
  ASSUME IInv, NEW t \in Operators, PersistList(t)
  PROVE  IInv'
  <1> DEFINE d == [deciding[t] EXCEPT !.pc = "next",
                                      !.todo = OpenCovered(deciding[t].entry)]
  <1>1. d \in Deciding /\ d.pc = "next"
    <2>1. OpenCovered(deciding[t].entry) \in SUBSET Ids
      BY DEF OpenCovered
    <2>2. deciding[t] \in Deciding
      BY DEF IInv, TypeOK
    <2> QED
      BY <2>1, <2>2 DEF Deciding
  <1>2. deciding' = [deciding EXCEPT ![t] = d]
    BY DEF PersistList
  <1> HIDE DEF d
  <1>3. /\ deciding' \in [Operators -> Deciding]
        /\ deciding'[t].pc = "next"
        /\ \A u \in Operators : u # t => deciding'[u] = deciding[u]
    BY <1>1, <1>2, OperatorMoved DEF IInv
  <1>4. TypeOK'
    BY <1>3 DEF IInv, TypeOK, PersistList, environment
  <1>5. LockIsHeldByOne'
    BY <1>3, OperatorLocks DEF PersistList, OperatorAt, OperatorHoldsLock
  <1>6. OperatorKnows(t)'
    BY <1>3 DEF OperatorKnows, OperatorHoldsLock
  <1> QED
    BY <1>3, <1>4, <1>5, <1>6, OperatorStepsRowsKept DEF IInv, PersistList

\* The checks at the top of _close_request hold when its section is left: a row
\* that is to be written is open or was swept, and no script runs for an IP.
LEMMA DecideNextInv ==
  ASSUME IInv, NEW t \in Operators, NEW id \in Ids, DecideNext(t, id)
  PROVE  IInv'
  <1> DEFINE d == [deciding[t] EXCEPT !.todo = @ \ {id}]
  <1>1. d \in Deciding /\ d.pc = "next" /\ d.op = deciding[t].op
    <2>1. deciding[t] \in Deciding /\ deciding[t].pc = "next"
      BY DEF IInv, TypeOK, DecideNext, OperatorAt
    <2>2. deciding[t].todo \ {id} \in SUBSET Ids
      BY <2>1 DEF Deciding
    <2>3. d = [deciding[t] EXCEPT !.todo = deciding[t].todo \ {id}]
      OBVIOUS
    <2> QED
      BY <2>1, <2>2, <2>3 DEF Deciding
  <1>2. /\ \/ /\ deciding' = [deciding EXCEPT ![t] = d]
              /\ UNCHANGED <<lock, applying>>
           \/ /\ ~ Settled(id) /\ ~ NeedsCidr(id)
              /\ deciding' = [deciding EXCEPT ![t] = [d EXCEPT !.pc = "apply", !.rid = id]]
              /\ applying' = applying \cup {id}
              /\ UNCHANGED lock
           \/ \E pc \in {"ip_mark", "deny_close"} :
              /\ ~ Settled(id)
              /\ deciding' = [deciding EXCEPT ![t] = [d EXCEPT !.pc = pc, !.rid = id]]
              /\ lock' = t
              /\ UNCHANGED applying
        /\ lock = None
    BY DEF DecideNext, LockFree
  <1> HIDE DEF d
  <1>3. ASSUME NEW pc \in {"apply", "ip_mark", "deny_close"}
        PROVE  LET e == [d EXCEPT !.pc = pc, !.rid = id] IN
               e \in Deciding /\ e.pc = pc /\ e.rid = id
    BY <1>1 DEF Deciding
  <1>4. PICK e \in Deciding :
           /\ deciding' = [deciding EXCEPT ![t] = e]
           /\ e.pc \in {"next", "apply", "ip_mark", "deny_close"}
           /\ e.pc # "next" => ~ Settled(id) /\ e.rid = id
           /\ e.pc = "apply" => ~ NeedsCidr(id)
           /\ lock' = IF e.pc \in OperatorHoldsLock THEN t ELSE None
           /\ applying' \in SUBSET Ids
    <2>1. applying \in SUBSET Ids
      BY DEF IInv, TypeOK
    <2>2. CASE /\ deciding' = [deciding EXCEPT ![t] = d]
               /\ UNCHANGED <<lock, applying>>
      BY <1>1, <1>2, <2>1, <2>2 DEF OperatorHoldsLock
    <2>3. CASE /\ ~ Settled(id) /\ ~ NeedsCidr(id)
               /\ deciding' = [deciding EXCEPT ![t] = [d EXCEPT !.pc = "apply", !.rid = id]]
               /\ applying' = applying \cup {id}
               /\ UNCHANGED lock
      BY <1>2, <1>3, <2>1, <2>3 DEF OperatorHoldsLock
    <2>4. ASSUME NEW pc \in {"ip_mark", "deny_close"},
                 ~ Settled(id),
                 deciding' = [deciding EXCEPT ![t] = [d EXCEPT !.pc = pc, !.rid = id]],
                 lock' = t,
                 UNCHANGED applying
          PROVE  \E e \in Deciding :
                    /\ deciding' = [deciding EXCEPT ![t] = e]
                    /\ e.pc \in {"next", "apply", "ip_mark", "deny_close"}
                    /\ e.pc # "next" => ~ Settled(id) /\ e.rid = id
                    /\ e.pc = "apply" => ~ NeedsCidr(id)
                    /\ lock' = IF e.pc \in OperatorHoldsLock THEN t ELSE None
                    /\ applying' \in SUBSET Ids
      <3> DEFINE e == [d EXCEPT !.pc = pc, !.rid = id]
      <3>1. e \in Deciding /\ e.pc = pc /\ e.rid = id
        BY <1>3
      <3>2. deciding' = [deciding EXCEPT ![t] = e]
        BY <2>4
      <3> HIDE DEF e
      <3> QED
        BY <2>1, <2>4, <3>1, <3>2 DEF OperatorHoldsLock
    <2> QED
      BY <1>2, <2>2, <2>3, <2>4
  <1>5. /\ deciding' \in [Operators -> Deciding]
        /\ deciding'[t] = e
        /\ \A u \in Operators : u # t => deciding'[u] = deciding[u]
    BY <1>4, OperatorMoved DEF IInv
  <1>6. TypeOK'
    BY <1>4, <1>5 DEF IInv, TypeOK, DecideNext, environment
  <1>7. LockIsHeldByOne'
    BY <1>2, <1>4, <1>5, OperatorLocks DEF DecideNext
  <1>8. OperatorKnows(t)'
    BY <1>4, <1>5 DEF DecideNext, OperatorKnows, OperatorHoldsLock, Settled, IsOpen, NeedsCidr
  <1> QED
    BY <1>5, <1>6, <1>7, <1>8, OperatorStepsRowsKept DEF IInv, DecideNext

\* A handler that has worked off its candidates replies; no row changes.
LEMMA DecideReplyInv ==
  ASSUME IInv, NEW t \in Operators, DecideReply(t)
  PROVE  IInv'
  <1>1. /\ deciding' \in [Operators -> Deciding]
        /\ deciding'[t].pc = "reply"
        /\ \A u \in Operators : u # t => deciding'[u] = deciding[u]
    BY OperatorAdvanced DEF IInv, DecideReply
  <1>2. TypeOK'
    BY <1>1 DEF IInv, TypeOK, DecideReply, environment
  <1>3. LockIsHeldByOne'
    BY <1>1, OperatorLocks DEF DecideReply, OperatorAt, OperatorHoldsLock
  <1>4. OperatorKnows(t)'
    BY <1>1 DEF OperatorKnows, OperatorHoldsLock
  <1> QED
    BY <1>1, <1>2, <1>3, <1>4, OperatorStepsRowsKept DEF IInv, DecideReply

\* The handler's reply is sent; no row changes.
LEMMA DecideEndInv ==
  ASSUME IInv, NEW t \in Operators, DecideEnd(t)
  PROVE  IInv'
  <1>1. NotDeciding \in Deciding /\ NotDeciding.pc = "idle"
    BY OperatorStarts DEF NotDeciding
  <1>2. /\ deciding' \in [Operators -> Deciding]
        /\ deciding'[t].pc = "idle"
        /\ \A u \in Operators : u # t => deciding'[u] = deciding[u]
    BY <1>1, OperatorMoved DEF IInv, DecideEnd
  <1>3. TypeOK'
    BY <1>2 DEF IInv, TypeOK, DecideEnd, environment
  <1>4. LockIsHeldByOne'
    BY <1>2, OperatorLocks DEF DecideEnd, OperatorHoldsLock
  <1>5. OperatorKnows(t)'
    BY <1>2 DEF OperatorKnows, OperatorHoldsLock
  <1> QED
    BY <1>2, <1>3, <1>4, <1>5, OperatorStepsRowsKept DEF IInv, DecideEnd

\* Recording that an IP literal needs a CIDR allows nothing.
LEMMA IpMarkInv ==
  ASSUME IInv, NEW t \in Operators, IpMark(t)
  PROVE  IInv'
  <1> DEFINE id == deciding[t].rid
             r == ApplyMarked(rows[id], "ip_requires_cidr")
  <1>1. id \in Ids /\ rows[id] \in Row /\ rows[id].status \in {"open", "stale"}
    BY DEF IInv, TypeOK, OperatorKnows, IpMark, OperatorAt, OperatorHoldsLock
  <1>2. r \in Row /\ r.status = rows[id].status /\ r.key = rows[id].key
    BY <1>1, RowApplyMarked DEF ApplyOutcomes
  <1>3. rows' = [rows EXCEPT ![id] = r]
    BY DEF IpMark
  <1> HIDE DEF r
  <1>4. /\ deciding' \in [Operators -> Deciding]
        /\ deciding'[t].pc = "next"
        /\ \A u \in Operators : u # t => deciding'[u] = deciding[u]
    BY OperatorResumes DEF IInv, IpMark
  <1> HIDE DEF id
  <1>5. OperatorKnows(t)'
    BY <1>4 DEF OperatorKnows, OperatorHoldsLock
  <1>6. LockIsHeldByOne'
    BY <1>4, OperatorLocks DEF IpMark, OperatorAt, OperatorHoldsLock
  <1>7. /\ rows' \in [Ids -> Row]
        /\ \A u \in Filers : FilerKnows(u)'
        /\ \A u \in Operators : OperatorKnows(u)'
        /\ RowsAreKeyed' /\ OneOpenPerKey' /\ AllowedIsMarked'
    <2>1. /\ UNCHANGED filing
          /\ deciding[t].pc \in OperatorHoldsLock
          /\ rows[id].status # "absent" /\ r.status # "absent" /\ r.status # "allowed"
      BY <1>1, <1>2 DEF IpMark, OperatorAt, OperatorHoldsLock
    <2> QED
      BY <1>1, <1>2, <1>3, <1>4, <1>5, <2>1, OperatorStepsRowRewritten
  <1>8. TypeOK'
    BY <1>4, <1>7 DEF IInv, TypeOK, IpMark, environment
  <1> QED
    BY <1>6, <1>7, <1>8 DEF IInv

\* Both uses of store.close by a deciding thread.
LEMMA CloseAsInv ==
  ASSUME IInv, NEW t \in Operators, deciding[t].pc \in {"deny_close", "allow_close"},
         NEW status \in {"allowed", "denied"}, NEW body \in Bodies,
         status = "allowed" => deciding[t].pc = "allow_close",
         CloseAs(t, status, body), UNCHANGED filing
  PROVE  /\ rows' \in [Ids -> Row]
         /\ deciding' \in [Operators -> Deciding]
         /\ LockIsHeldByOne'
         /\ \A u \in Filers : FilerKnows(u)'
         /\ \A u \in Operators : OperatorKnows(u)'
         /\ RowsAreKeyed' /\ OneOpenPerKey' /\ AllowedIsMarked'
         /\ lock' = None
  <1> DEFINE id == deciding[t].rid
             r == Closed(rows[id], status, "operator", body)
  <1>1. id \in Ids /\ rows[id] \in Row /\ rows[id].status \in {"open", "stale"}
    BY DEF IInv, TypeOK, OperatorKnows, OperatorHoldsLock
  <1>2. /\ r \in Row /\ r.status = status /\ r.key = rows[id].key
        /\ r.apply = rows[id].apply /\ r.error = 0
    <2>1. status \in CloseStatuses /\ "operator" \in DecidedBy
      BY DEF CloseStatuses, DecidedBy
    <2> QED
      BY <1>1, <2>1, RowClosed
  <1>3. status = "allowed" => rows[id].apply = "applied" /\ ~ NeedsCidr(id)
    BY DEF IInv, OperatorKnows
  <1>4. lock' = None
    BY DEF CloseAs
  <1>5. CASE IsOpen(rows, id)
    <2>1. rows' = [rows EXCEPT ![id] = r]
      BY <1>5 DEF CloseAs
    <2>2. \/ deciding' = [deciding EXCEPT ![t].pc = "persist_mark"]
          \/ ResumeDecided(t)
      BY <1>5 DEF CloseAs
    <2>3. /\ deciding' \in [Operators -> Deciding]
          /\ \/ deciding'[t].pc = "next"
             \/ deciding'[t].pc = "persist_mark" /\ deciding'[t].rid = id
          /\ \A u \in Operators : u # t => deciding'[u] = deciding[u]
      <3>1. CASE deciding' = [deciding EXCEPT ![t].pc = "persist_mark"]
        BY <3>1, OperatorAdvanced DEF IInv
      <3>2. CASE ResumeDecided(t)
        BY <1>1, <3>2, OperatorResumes DEF IInv
      <3> QED
        BY <2>2, <3>1, <3>2
    <2> HIDE DEF r, id
    <2>4. rows'[id] = r
      BY <1>1, <2>1 DEF IInv, TypeOK
    <2>5. OperatorKnows(t)'
      BY <1>1, <1>2, <2>3, <2>4 DEF OperatorKnows, OperatorHoldsLock
    <2>6. deciding[t].pc \in OperatorHoldsLock /\ deciding'[t].pc \notin OperatorHoldsLock
      BY <2>3 DEF OperatorHoldsLock
    <2>7. LockIsHeldByOne'
      BY <1>4, <2>3, <2>6, OperatorLocks
    <2>8. /\ rows[id].status # "absent" /\ r.status # "absent" /\ r.status # "open"
          /\ r.status = "allowed" =>
                r.apply = "applied" /\ r.error = 0 /\ ~ NeedsCidr(id)
      BY <1>1, <1>2, <1>3
    <2> QED
      BY <1>1, <1>2, <1>4, <2>1, <2>3, <2>5, <2>6, <2>7, <2>8, OperatorStepsRowRewritten
  <1>6. CASE ~ IsOpen(rows, id)
    <2>1. deciding' = [deciding EXCEPT ![t].pc = "aborted"] /\ UNCHANGED rows
      BY <1>6 DEF CloseAs
    <2>2. /\ deciding' \in [Operators -> Deciding]
          /\ deciding'[t].pc = "aborted"
          /\ \A u \in Operators : u # t => deciding'[u] = deciding[u]
      BY <2>1, OperatorAdvanced DEF IInv
    <2>3. OperatorKnows(t)'
      BY <2>2 DEF OperatorKnows, OperatorHoldsLock
    <2>4. deciding[t].pc \in OperatorHoldsLock /\ deciding'[t].pc \notin OperatorHoldsLock
      BY <2>2 DEF OperatorHoldsLock
    <2>5. LockIsHeldByOne'
      BY <1>4, <2>2, <2>4, OperatorLocks
    <2>6. rows' \in [Ids -> Row]
      BY <2>1 DEF IInv, TypeOK
    <2> QED
      BY <1>4, <2>1, <2>2, <2>3, <2>5, <2>6, OperatorStepsRowsKept
  <1> QED
    BY <1>5, <1>6

\* A deny closes its row, or raises because the sweep has closed it first.
LEMMA DenyCloseInv ==
  ASSUME IInv, NEW t \in Operators, DenyClose(t)
  PROVE  IInv'
  <1>1. PICK body \in Bodies : CloseAs(t, "denied", body)
    BY DEF DenyClose, Bodies
  <1>2. /\ rows' \in [Ids -> Row]
        /\ deciding' \in [Operators -> Deciding]
        /\ LockIsHeldByOne'
        /\ \A u \in Filers : FilerKnows(u)'
        /\ \A u \in Operators : OperatorKnows(u)'
        /\ RowsAreKeyed' /\ OneOpenPerKey' /\ AllowedIsMarked'
        /\ lock' = None
    BY <1>1, CloseAsInv DEF DenyClose, OperatorAt
  <1>3. TypeOK'
    BY <1>2 DEF IInv, TypeOK, DenyClose, environment
  <1> QED
    BY <1>2, <1>3 DEF IInv

\* An allow closes its row only after its script succeeded and the row says so.
LEMMA AllowCloseInv ==
  ASSUME IInv, NEW t \in Operators, AllowClose(t)
  PROVE  IInv'
  <1>1. /\ rows' \in [Ids -> Row]
        /\ deciding' \in [Operators -> Deciding]
        /\ LockIsHeldByOne'
        /\ \A u \in Filers : FilerKnows(u)'
        /\ \A u \in Operators : OperatorKnows(u)'
        /\ RowsAreKeyed' /\ OneOpenPerKey' /\ AllowedIsMarked'
        /\ lock' = None
    BY CloseAsInv DEF AllowClose, OperatorAt, Bodies
  <1>2. TypeOK'
    BY <1>1 DEF IInv, TypeOK, AllowClose, environment
  <1> QED
    BY <1>1, <1>2 DEF IInv

\* Recording that an entry was written leaves status, key and apply outcome.
LEMMA PersistMarkInv ==
  ASSUME IInv, NEW t \in Operators, PersistMark(t)
  PROVE  IInv'
  <1> DEFINE id == deciding[t].rid
             r == PersistMarked(rows[id], "persisted")
  <1>1. id \in Ids /\ rows[id] \in Row /\ rows[id].status # "absent"
    BY DEF IInv, TypeOK, OperatorKnows, PersistMark, OperatorAt
  <1>2. /\ r \in Row /\ r.status = rows[id].status /\ r.key = rows[id].key
        /\ r.apply = rows[id].apply /\ r.error = rows[id].error
    BY <1>1, RowPersistMarked DEF PersistOutcomes
  <1>3. rows' = [rows EXCEPT ![id] = r]
    BY DEF PersistMark
  <1>4. /\ deciding' \in [Operators -> Deciding]
        /\ deciding'[t].pc = "next"
        /\ \A u \in Operators : u # t => deciding'[u] = deciding[u]
    BY <1>1, OperatorResumes DEF IInv, PersistMark
  <1> HIDE DEF r, id
  <1>5. OperatorKnows(t)'
    BY <1>4 DEF OperatorKnows, OperatorHoldsLock
  <1>6. LockIsHeldByOne'
    BY <1>4, OperatorLocks DEF PersistMark, OperatorAt, OperatorHoldsLock
  <1>7. /\ rows' \in [Ids -> Row]
        /\ \A u \in Filers : FilerKnows(u)'
        /\ \A u \in Operators : OperatorKnows(u)'
        /\ RowsAreKeyed' /\ OneOpenPerKey' /\ AllowedIsMarked'
    <2>1. UNCHANGED filing
      BY DEF PersistMark
    <2>2. r.status = "allowed" => r.apply = "applied" /\ r.error = 0 /\ ~ NeedsCidr(id)
      BY <1>1, <1>2 DEF IInv, AllowedIsMarked, NeedsCidr
    <2> QED
      BY <1>1, <1>2, <1>3, <1>4, <1>5, <2>1, <2>2, OperatorStepsRowRewritten
  <1>8. TypeOK'
    BY <1>4, <1>7 DEF IInv, TypeOK, PersistMark, environment
  <1> QED
    BY <1>6, <1>7, <1>8 DEF IInv

\* The script runs without the lock and touches the firewall, not the store.
LEMMA ApplyRunInv ==
  ASSUME IInv, NEW t \in Operators, ApplyRun(t)
  PROVE  IInv'
  <1> DEFINE id == deciding[t].rid
  <1>1. /\ id \in Ids /\ rows[id].status # "absent" /\ ~ NeedsCidr(id)
        /\ rows[id].key \in Keys
        /\ deciding[t] \in Deciding
    BY DEF IInv, TypeOK, OperatorKnows, ApplyRun, OperatorAt, RowsAreKeyed
  <1>2. PICK exit \in ScriptExits :
          /\ effects' = effects \cup Effect(exit, rows[id].key)
          /\ deciding' = [deciding EXCEPT
                ![t].pc = IF exit = "raised" THEN "aborted" ELSE "settle",
                ![t].exit0 = ExitsZero(exit)]
    BY DEF ApplyRun
  <1> DEFINE pc == IF exit = "raised" THEN "aborted" ELSE "settle"
             zero == ExitsZero(exit)
             d == [deciding[t] EXCEPT !.pc = pc, !.exit0 = zero]
  <1>3. deciding' = [deciding EXCEPT ![t].pc = pc, ![t].exit0 = zero]
    BY <1>2
  <1>4. pc \in {"aborted", "settle"} /\ zero \in BOOLEAN
    BY DEF ExitsZero
  <1> HIDE DEF pc, zero
  <1>5. d \in Deciding /\ d.pc = pc /\ d.rid = id
    BY <1>1, <1>4 DEF Deciding
  <1>6. deciding' = [deciding EXCEPT ![t] = d]
    BY <1>1, <1>3 DEF IInv, TypeOK
  <1> HIDE DEF d
  <1>7. /\ deciding' \in [Operators -> Deciding]
        /\ deciding'[t].pc = pc /\ deciding'[t].rid = id
        /\ \A u \in Operators : u # t => deciding'[u] = deciding[u]
    BY <1>5, <1>6, OperatorMoved DEF IInv
  <1>8. effects' \in SUBSET (Keys \X {"rule", "stopped"})
    BY <1>1, <1>2 DEF IInv, TypeOK, Effect
  <1>9. TypeOK'
    BY <1>7, <1>8 DEF IInv, TypeOK, ApplyRun
  <1>10. LockIsHeldByOne'
    BY <1>7, <1>4, OperatorLocks DEF ApplyRun, OperatorAt, OperatorHoldsLock
  <1>11. OperatorKnows(t)'
    BY <1>1, <1>7, <1>4 DEF ApplyRun, OperatorKnows, OperatorHoldsLock, NeedsCidr
  <1> QED
    BY <1>7, <1>9, <1>10, <1>11, OperatorStepsRowsKept DEF IInv, ApplyRun

\* After the script the lock is taken again; the row may have been swept but
\* not removed, and its key is still a name.
LEMMA ApplySettleInv ==
  ASSUME IInv, NEW t \in Operators, ApplySettle(t)
  PROVE  IInv'
  <1> DEFINE id == deciding[t].rid
  <1>1. id \in Ids /\ rows[id].status # "absent" /\ ~ NeedsCidr(id)
    BY DEF IInv, OperatorKnows, ApplySettle, OperatorAt
  <1>2. applying' \in SUBSET Ids
    BY DEF IInv, TypeOK, ApplySettle
  <1>3. CASE IsOpen(rows, id)
    <2>1. /\ deciding' \in [Operators -> Deciding]
          /\ deciding'[t].pc = "apply_mark" /\ deciding'[t].rid = id
          /\ \A u \in Operators : u # t => deciding'[u] = deciding[u]
      BY <1>3, OperatorAdvanced DEF IInv, ApplySettle
    <2>2. OperatorKnows(t)'
      BY <1>1, <1>3, <2>1 DEF ApplySettle, OperatorKnows, OperatorHoldsLock, NeedsCidr, IsOpen
    <2>3. LockIsHeldByOne' /\ lock' \in Filers \cup Operators \cup {None}
      BY <1>3, <2>1, OperatorLocks DEF ApplySettle, LockFree, OperatorHoldsLock
    <2>4. TypeOK'
      BY <1>2, <2>1, <2>3 DEF IInv, TypeOK, ApplySettle, environment
    <2> QED
      BY <2>1, <2>2, <2>3, <2>4, OperatorStepsRowsKept DEF IInv, ApplySettle
  <1>4. CASE ~ IsOpen(rows, id)
    <2>1. /\ deciding' \in [Operators -> Deciding]
          /\ deciding'[t].pc = "next"
          /\ \A u \in Operators : u # t => deciding'[u] = deciding[u]
      BY <1>1, <1>4, OperatorResumes DEF IInv, ApplySettle
    <2>2. OperatorKnows(t)'
      BY <2>1 DEF OperatorKnows, OperatorHoldsLock
    <2>3. LockIsHeldByOne' /\ lock' \in Filers \cup Operators \cup {None}
      BY <1>4, <2>1, OperatorLocks DEF ApplySettle, OperatorAt, OperatorHoldsLock
    <2>4. TypeOK'
      BY <1>2, <2>1, <2>3 DEF IInv, TypeOK, ApplySettle, environment
    <2> QED
      BY <2>1, <2>2, <2>3, <2>4, OperatorStepsRowsKept DEF IInv, ApplySettle
  <1> QED
    BY <1>3, <1>4

\* Recording the script's outcome prepares the close that follows a success.
LEMMA ApplyMarkInv ==
  ASSUME IInv, NEW t \in Operators, ApplyMark(t)
  PROVE  IInv'
  <1> DEFINE id == deciding[t].rid
  <1>1. /\ id \in Ids /\ rows[id] \in Row /\ rows[id].status \in {"open", "stale"}
        /\ ~ NeedsCidr(id)
        /\ deciding[t].pc \in OperatorHoldsLock /\ lock = t
        /\ UNCHANGED filing
    BY DEF IInv, TypeOK, OperatorKnows, LockIsHeldByOne, ApplyMark, OperatorAt,
       OperatorHoldsLock
  <1>2. PICK outcome \in {"applied", "apply_failed"} :
          /\ rows' = [rows EXCEPT ![id] = ApplyMarked(rows[id], outcome)]
          /\ IF outcome = "applied"
             THEN deciding' = [deciding EXCEPT ![t].pc = "allow_close"] /\ UNCHANGED lock
             ELSE Resume(t) /\ lock' = None
    BY DEF ApplyMark
  <1> DEFINE r == ApplyMarked(rows[id], outcome)
  <1>3. /\ r \in Row /\ r.status = rows[id].status /\ r.key = rows[id].key
        /\ r.apply = outcome
        /\ outcome = "applied" => r.error = 0
    BY <1>1, RowApplyMarked DEF ApplyOutcomes
  <1>4. /\ deciding' \in [Operators -> Deciding]
        /\ outcome = "applied" =>
              deciding'[t].pc = "allow_close" /\ deciding'[t].rid = id
        /\ outcome # "applied" => deciding'[t].pc = "next"
        /\ \A u \in Operators : u # t => deciding'[u] = deciding[u]
    BY <1>2, OperatorAdvanced, OperatorResumes DEF IInv
  <1> HIDE DEF r, id
  <1>5. rows' = [rows EXCEPT ![id] = r] /\ rows'[id] = r
    BY <1>1, <1>2 DEF r, IInv, TypeOK
  <1>6. OperatorKnows(t)'
    <2>1. CASE outcome = "applied"
      <3>1. /\ rows'[id].status \in {"open", "stale"} /\ rows'[id].key = rows[id].key
            /\ rows'[id].apply = "applied" /\ rows'[id].error = 0
        BY <1>1, <1>3, <1>5, <2>1
      <3> QED
        BY <1>1, <1>4, <2>1, <3>1 DEF OperatorKnows, OperatorHoldsLock, NeedsCidr
    <2>2. CASE outcome # "applied"
      BY <1>4, <2>2 DEF OperatorKnows, OperatorHoldsLock
    <2> QED
      BY <2>1, <2>2
  <1>7. lock' = IF deciding'[t].pc \in OperatorHoldsLock THEN t ELSE None
    BY <1>1, <1>2, <1>4 DEF OperatorHoldsLock
  <1>8. LockIsHeldByOne' /\ lock' \in Filers \cup Operators \cup {None}
    BY <1>1, <1>4, <1>7, OperatorLocks
  <1>9. /\ rows' \in [Ids -> Row]
        /\ \A u \in Filers : FilerKnows(u)'
        /\ \A u \in Operators : OperatorKnows(u)'
        /\ RowsAreKeyed' /\ OneOpenPerKey' /\ AllowedIsMarked'
    <2>1. rows[id].status # "absent" /\ r.status # "absent" /\ r.status # "allowed"
      BY <1>1, <1>3
    <2> QED
      BY <1>1, <1>3, <1>4, <1>5, <1>6, <2>1, OperatorStepsRowRewritten
  <1>10. TypeOK'
    BY <1>4, <1>8, <1>9 DEF IInv, TypeOK, ApplyMark, environment
  <1> QED
    BY <1>8, <1>9, <1>10 DEF IInv

\* A decision whose transaction raises gives up the lock and leaves the rows.
LEMMA DecideFaultInv ==
  ASSUME IInv, NEW t \in Operators, DecideFault(t)
  PROVE  IInv'
  <1>1. /\ deciding' \in [Operators -> Deciding]
        /\ deciding'[t].pc = "aborted"
        /\ \A u \in Operators : u # t => deciding'[u] = deciding[u]
    BY OperatorAdvanced DEF IInv, DecideFault
  <1>2. OperatorKnows(t)'
    BY <1>1 DEF OperatorKnows, OperatorHoldsLock
  <1>3. LockIsHeldByOne' /\ lock' \in Filers \cup Operators \cup {None}
    <2>1. CASE deciding[t].pc \in OperatorHoldsLock
      <3>1. lock = t
        BY <2>1 DEF IInv, LockIsHeldByOne
      <3> QED
        BY <1>1, <2>1, <3>1, OperatorLocks DEF DecideFault, OperatorHoldsLock
    <2>2. CASE deciding[t].pc \notin OperatorHoldsLock
      <3>1. lock # t
        BY <2>2 DEF IInv, LockIsHeldByOne
      <3> QED
        BY <1>1, <2>2, <3>1, OperatorLocks DEF DecideFault, OperatorHoldsLock
    <2> QED
      BY <2>1, <2>2
  <1>4. TypeOK'
    BY <1>1, <1>3 DEF IInv, TypeOK, DecideFault
  <1> QED
    BY <1>1, <1>2, <1>3, <1>4, OperatorStepsRowsKept DEF IInv, DecideFault

-------------------------------------------------------------------------------
\* The sweep, the environment, and restarts.

\* A step of neither a filing nor a deciding thread that leaves the store alone.
LEMMA ThreadsIdle ==
  ASSUME IInv, UNCHANGED <<rows, filing, deciding, lock>>
  PROVE  /\ LockIsHeldByOne'
         /\ \A u \in Filers : FilerKnows(u)'
         /\ \A u \in Operators : OperatorKnows(u)'
         /\ RowsAreKeyed' /\ OneOpenPerKey' /\ AllowedIsMarked'
  <1>1. LockIsHeldByOne'
    BY DEF IInv, LockIsHeldByOne
  <1>2. \A u \in Filers : FilerKnows(u)'
    BY DEF IInv, FilerKnows, OpenRowsOf, IsOpen
  <1>3. \A u \in Operators : OperatorKnows(u)'
    BY DEF IInv, OperatorKnows, NeedsCidr
  <1> QED
    BY <1>1, <1>2, <1>3, RowsKept

\* Collecting stale ids changes no row.
LEMMA SweepCollectInv ==
  ASSUME IInv, SweepCollect
  PROVE  IInv'
  <1>1. TypeOK'
    BY DEF IInv, TypeOK, SweepCollect, Stale, Sweep, environment
  <1> QED
    BY <1>1, ThreadsIdle DEF IInv, SweepCollect

\* A sweep that ends in a database error has changed no row in that step.
LEMMA SweepFaultInv ==
  ASSUME IInv, SweepFault
  PROVE  IInv'
  <1>1. TypeOK'
    BY DEF IInv, TypeOK, SweepFault, NotSweeping, Sweep
  <1> QED
    BY <1>1, ThreadsIdle DEF IInv, SweepFault

\* The sweep closes open rows only, so it cannot add a second open row, and what
\* other threads know of a row allows for its having become stale.
LEMMA SweepCloseInv ==
  ASSUME IInv, NEW id \in Ids, SweepClose(id)
  PROVE  IInv'
  <1>1. sweep' \in Sweep
    <2>1. CASE sweep' = NotSweeping
      BY <2>1 DEF NotSweeping, Sweep
    <2>2. CASE sweep' = [sweep EXCEPT !.todo = sweep.todo \ {id}]
      BY <2>2 DEF IInv, TypeOK, Sweep
    <2> QED
      BY <2>1, <2>2 DEF SweepClose
  <1>2. CASE ~ IsOpen(rows, id)
    <2>1. UNCHANGED <<rows, filing, deciding, lock>>
      BY <1>2 DEF SweepClose
    <2>2. TypeOK'
      BY <1>1, <2>1 DEF IInv, TypeOK, SweepClose, environment
    <2> QED
      BY <2>1, <2>2, ThreadsIdle DEF IInv
  <1>3. CASE IsOpen(rows, id)
    <2> DEFINE r == Closed(rows[id], "stale", "sweep", "deny_stale")
    <2>1. /\ r \in Row /\ r.status = "stale" /\ r.key = rows[id].key
          /\ r.apply = rows[id].apply /\ r.error = 0
      <3>1. rows[id] \in Row
        BY DEF IInv, TypeOK
      <3> QED
        BY <3>1, RowClosed DEF CloseStatuses, DecidedBy, Bodies
    <2>2. rows' = [rows EXCEPT ![id] = r]
      BY <1>3 DEF SweepClose
    <2> HIDE DEF r
    <2>3. rows[id].status # "absent" /\ UNCHANGED <<filing, deciding, lock>>
      BY <1>3 DEF IsOpen, SweepClose
    <2>4. /\ rows' \in [Ids -> Row]
          /\ rows'[id] = r
          /\ \A j \in Ids : j # id => rows'[j] = rows[j]
          /\ RowsAreKeyed' /\ OneOpenPerKey' /\ AllowedIsMarked'
          /\ \A u \in Filers : FilerKnows(u)'
      BY <2>1, <2>2, <2>3, RowRewritten
    <2>5. ASSUME NEW u \in Operators
          PROVE  OperatorKnows(u)'
      <3>1. OperatorKnows(u) /\ deciding'[u] = deciding[u]
        BY <2>3 DEF IInv
      <3>2. deciding[u].rid \in Ids =>
               /\ rows'[deciding[u].rid].key = rows[deciding[u].rid].key
               /\ rows'[deciding[u].rid].apply = rows[deciding[u].rid].apply
               /\ rows[deciding[u].rid].error = 0 => rows'[deciding[u].rid].error = 0
               /\ rows'[deciding[u].rid].status \in {rows[deciding[u].rid].status, "stale"}
        <4>1. CASE deciding[u].rid = id
          BY <2>1, <2>4, <4>1
        <4>2. CASE deciding[u].rid # id
          BY <2>4, <4>2
        <4> QED
          BY <4>1, <4>2
      <3>3. deciding[u].pc \in OperatorHoldsLock \cup {"apply", "settle", "persist_mark"} =>
               deciding[u].rid \in Ids
        BY <3>1 DEF OperatorKnows
      <3> QED
        BY <3>1, <3>2, <3>3 DEF OperatorKnows, NeedsCidr, OperatorHoldsLock
    <2>6. LockIsHeldByOne'
      BY <2>3 DEF IInv, LockIsHeldByOne
    <2>7. TypeOK'
      BY <1>1, <2>4 DEF IInv, TypeOK, SweepClose, environment
    <2> QED
      BY <2>4, <2>5, <2>6, <2>7 DEF IInv
  <1> QED
    BY <1>2, <1>3

\* Time passing, the window elapsing and a lifted entry change no row.
LEMMA EnvironmentInv ==
  ASSUME IInv,
         \/ \E id \in Ids : Age(id)
         \/ \E w \in Containers \X Zones : WindowElapses(w)
         \/ \E e \in Entries : Undeny(e)
  PROVE  IInv'
  <1>1. UNCHANGED <<rows, filing, deciding, lock>>
    BY DEF Age, WindowElapses, Undeny
  <1>2. TypeOK'
    <2>1. ASSUME NEW id \in Ids, Age(id)
          PROVE  TypeOK'
      BY <2>1 DEF IInv, TypeOK, Age
    <2>2. ASSUME NEW w \in Containers \X Zones, WindowElapses(w)
          PROVE  TypeOK'
      BY <2>2 DEF IInv, TypeOK, WindowElapses, environment
    <2>3. ASSUME NEW e \in Entries, Undeny(e)
          PROVE  TypeOK'
      BY <2>3 DEF IInv, TypeOK, Undeny, environment
    <2> QED
      BY <2>1, <2>2, <2>3
  <1> QED
    BY <1>1, <1>2, ThreadsIdle DEF IInv

\* A restart leaves the rows on disk and no thread that has read them.
LEMMA RestartInv ==
  ASSUME IInv, Restart
  PROVE  IInv'
  <1>1. NotFiling \in Filing /\ NotFiling.pc = "idle"
    BY DEF NotFiling, FilingEnded, Filing
  <1>2. NotDeciding \in Deciding /\ NotDeciding.pc = "idle"
    BY OperatorStarts DEF NotDeciding
  <1>3. /\ filing' \in [Filers -> Filing] /\ \A u \in Filers : filing'[u].pc = "idle"
        /\ deciding' \in [Operators -> Deciding]
        /\ \A u \in Operators : deciding'[u].pc = "idle"
        /\ lock' = None
    BY <1>1, <1>2 DEF Restart
  <1>4. effects' \in SUBSET (Keys \X {"rule", "stopped"})
    <2>1. PICK late \in SUBSET {t \in Operators : OperatorAt(t, "apply")} :
            effects' = effects \cup {<<rows[deciding[t].rid].key, "rule">> : t \in late}
      BY DEF Restart
    <2>2. \A t \in late : rows[deciding[t].rid].key \in Keys
      BY DEF IInv, OperatorKnows, RowsAreKeyed, OperatorAt
    <2> QED
      BY <2>1, <2>2 DEF IInv, TypeOK
  <1>5. TypeOK'
    BY <1>3, <1>4 DEF IInv, TypeOK, Restart, NotSweeping, Sweep
  <1>6. LockIsHeldByOne'
    BY <1>3, BrokerAssumption DEF LockIsHeldByOne, FilerHoldsLock, OperatorHoldsLock
  <1>7. \A u \in Filers : FilerKnows(u)'
    BY <1>3 DEF FilerKnows
  <1>8. \A u \in Operators : OperatorKnows(u)'
    BY <1>3 DEF OperatorKnows, OperatorHoldsLock
  <1> QED
    BY <1>5, <1>6, <1>7, <1>8, RowsKept DEF IInv, Restart

-------------------------------------------------------------------------------
\* IInv is inductive: every step of every thread, and of the environment.
LEMMA NextInv == IInv /\ [Next]_vars => IInv'
  <1> SUFFICES ASSUME IInv, [Next]_vars
               PROVE  IInv'
    OBVIOUS
  <1>1. ASSUME NEW t \in Filers, File(t)
        PROVE  IInv'
    BY <1>1, FileBeginInv, FileHitInv, FileInsertInv, FileNotifyInv, FilePushInv,
       FileRecordCloseInv, FileSuppressInv, FileFaultInv DEF File
  <1>2. ASSUME NEW t \in Operators, Decide(t)
        PROVE  IInv'
    BY <1>2, DecideBeginInv, PersistBeginInv, PersistAddInv, PersistListInv,
       DecideNextInv, DecideReplyInv, DecideEndInv, IpMarkInv, DenyCloseInv,
       PersistMarkInv, ApplyRunInv, ApplySettleInv, ApplyMarkInv, AllowCloseInv,
       DecideFaultInv DEF Decide
  <1>3. CASE SweepStale
    BY <1>3, SweepCollectInv, SweepCloseInv, SweepFaultInv DEF SweepStale
  <1>4. CASE \/ \E id \in Ids : Age(id)
             \/ \E w \in Containers \X Zones : WindowElapses(w)
             \/ \E e \in Entries : Undeny(e)
    BY <1>4, EnvironmentInv
  <1>5. CASE Restart
    BY <1>5, RestartInv
  <1>6. CASE UNCHANGED vars
    <2>1. TypeOK'
      BY <1>6 DEF IInv, TypeOK, vars
    <2> QED
      BY <1>6, <2>1, ThreadsIdle DEF IInv, vars
  <1> QED
    BY <1>1, <1>2, <1>3, <1>4, <1>5, <1>6 DEF Next

\* The inductive invariant holds of the daemon for any number of containers,
\* hosts, requests, handler threads, crashes and faults.
THEOREM Invariance == Spec => []IInv
  <1> QED
    BY InitInv, NextInv, PTL DEF Spec

\* A container never has two open requests for one destination, although the
\* coalescing read and the insert of file_request are separate transactions and
\* the sweep runs between them.
THEOREM Coalescing == Spec => []OneOpenPerKey
  <1>1. IInv => OneOpenPerKey
    BY DEF IInv
  <1> QED
    BY <1>1, Invariance, PTL

-------------------------------------------------------------------------------
\* What steps do to the store: a step that writes it calls one of its methods on
\* one row, and it opens only a free row under a free key, and closes only an
\* open one.

Opens(id, k) ==
    /\ rows[id].status = "absent" /\ OpenRowsOf(rows, k) = {}
    /\ rows' = [rows EXCEPT ![id] = Opened(k)]

Closes(id, status, by, body) ==
    /\ IsOpen(rows, id)
    /\ rows' = [rows EXCEPT ![id] = Closed(rows[id], status, by, body)]

Marks(id) ==
    \/ \E outcome \in ApplyOutcomes :
          rows' = [rows EXCEPT ![id] = ApplyMarked(rows[id], outcome)]
    \/ \E outcome \in PersistOutcomes :
          rows' = [rows EXCEPT ![id] = PersistMarked(rows[id], outcome)]

StoreStep ==
    \/ UNCHANGED rows
    \/ \E id \in Ids, k \in Keys : Opens(id, k)
    \/ \E id \in Ids, status \in CloseStatuses, by \in DecidedBy, body \in Bodies :
          Closes(id, status, by, body)
    \/ \E id \in Ids : Marks(id)

\* A filing opens a row, or closes the row it has just opened.
LEMMA FileWrites ==
  ASSUME IInv, NEW t \in Filers, File(t)
  PROVE  StoreStep
  <1> DEFINE id == filing[t].rid
  <1>1. CASE FileInsert(t)
    <2>1. /\ id \in Ids /\ filing[t].key \in Keys
          /\ rows[id].status = "absent" /\ OpenRowsOf(rows, filing[t].key) = {}
      BY <1>1 DEF FileInsert, IInv, FilerKnows
    <2>2. Opens(id, filing[t].key)
      BY <1>1, <2>1 DEF FileInsert, Opens
    <2> QED
      BY <2>1, <2>2 DEF StoreStep
  <1>2. CASE FileRecordClose(t)
    <2>1. id \in Ids
      BY <1>2 DEF FileRecordClose, FilerAt, IInv, FilerKnows
    <2>2. Closes(id, "denied", "denylist", "deny_denylist")
      BY <1>2 DEF FileRecordClose, DenylistDenial, Closes
    <2> QED
      BY <2>1, <2>2 DEF StoreStep, CloseStatuses, DecidedBy, Bodies
  <1> QED
    BY <1>1, <1>2
    DEF StoreStep, File, FileBegin, FileHit, FileNotify, FilePush, FileSuppress, FileFault

\* A deciding thread closes a row only when it still finds it open.
LEMMA DecideWrites ==
  ASSUME IInv, NEW t \in Operators, Decide(t)
  PROVE  StoreStep
  <1> DEFINE id == deciding[t].rid
  <1>1. deciding[t].pc \in OperatorHoldsLock \cup {"persist_mark"} => id \in Ids
    BY DEF IInv, OperatorKnows
  <1>2. ASSUME NEW status \in {"allowed", "denied"}, NEW body \in Bodies,
               id \in Ids, CloseAs(t, status, body)
        PROVE  StoreStep
    <2>1. status \in CloseStatuses /\ "operator" \in DecidedBy
      BY DEF CloseStatuses, DecidedBy
    <2>2. UNCHANGED rows \/ Closes(id, status, "operator", body)
      BY <1>2 DEF CloseAs, Closes
    <2> QED
      BY <1>2, <2>1, <2>2 DEF StoreStep
  <1>3. CASE DenyClose(t)
    <2>1. id \in Ids
      BY <1>1, <1>3 DEF DenyClose, OperatorAt, OperatorHoldsLock
    <2>2. PICK body \in Bodies : CloseAs(t, "denied", body)
      BY <1>3 DEF DenyClose, Bodies
    <2> QED
      BY <1>2, <2>1, <2>2
  <1>4. CASE AllowClose(t)
    <2>1. id \in Ids
      BY <1>1, <1>4 DEF AllowClose, OperatorAt, OperatorHoldsLock
    <2> QED
      BY <1>2, <1>4, <2>1 DEF AllowClose, Bodies
  <1>5. CASE IpMark(t) \/ ApplyMark(t) \/ PersistMark(t)
    <2>1. id \in Ids
      BY <1>1, <1>5 DEF IpMark, ApplyMark, PersistMark, OperatorAt, OperatorHoldsLock
    <2>2. Marks(id)
      BY <1>5 DEF IpMark, ApplyMark, PersistMark, Marks, ApplyOutcomes, PersistOutcomes
    <2> QED
      BY <2>1, <2>2 DEF StoreStep
  <1> QED
    BY <1>3, <1>4, <1>5
    DEF StoreStep, Decide, DecideBegin, PersistBegin, PersistAdd, PersistList, DecideNext,
        DecideReply, DecideEnd, ApplyRun, ApplySettle, DecideFault

\* The sweep looks again at the status when it closes a row.
LEMMA SweepWrites ==
  ASSUME SweepStale
  PROVE  StoreStep
  <1>1. ASSUME NEW id \in Ids, SweepClose(id)
        PROVE  StoreStep
    <2>1. UNCHANGED rows \/ Closes(id, "stale", "sweep", "deny_stale")
      BY <1>1 DEF SweepClose, Closes
    <2> QED
      BY <2>1 DEF StoreStep, CloseStatuses, DecidedBy, Bodies
  <1> QED
    BY <1>1 DEF StoreStep, SweepStale, SweepCollect, SweepFault

\* Every step of the daemon leaves the store alone, opens one row, closes one open
\* row, or marks one row.
LEMMA NextWrites == IInv /\ [Next]_vars => StoreStep
  <1> SUFFICES ASSUME IInv, [Next]_vars
               PROVE  StoreStep
    OBVIOUS
  <1>1. CASE UNCHANGED rows
    BY <1>1 DEF StoreStep
  <1> QED
    BY <1>1, FileWrites, DecideWrites, SweepWrites
    DEF Next, Age, WindowElapses, Undeny, Restart, vars

\* What is recorded on a row besides a decision leaves its key, its status and
\* its decision alone.
LEMMA MarksKeepRow ==
  ASSUME TypeOK, NEW id \in Ids, Marks(id)
  PROVE  \A j \in Ids :
            /\ rows'[j].status = rows[j].status /\ rows'[j].key = rows[j].key
            /\ rows'[j].by = rows[j].by /\ rows'[j].body = rows[j].body
  <1>1. rows[id] \in Row
    BY DEF TypeOK
  <1>2. PICK r \in Row :
          /\ rows' = [rows EXCEPT ![id] = r]
          /\ r.status = rows[id].status /\ r.key = rows[id].key
          /\ r.by = rows[id].by /\ r.body = rows[id].body
    <2>1. ASSUME NEW outcome \in ApplyOutcomes,
                 rows' = [rows EXCEPT ![id] = ApplyMarked(rows[id], outcome)]
          PROVE  \E r \in Row :
                    /\ rows' = [rows EXCEPT ![id] = r]
                    /\ r.status = rows[id].status /\ r.key = rows[id].key
                    /\ r.by = rows[id].by /\ r.body = rows[id].body
      BY <1>1, <2>1, RowApplyMarked
    <2>2. ASSUME NEW outcome \in PersistOutcomes,
                 rows' = [rows EXCEPT ![id] = PersistMarked(rows[id], outcome)]
          PROVE  \E r \in Row :
                    /\ rows' = [rows EXCEPT ![id] = r]
                    /\ r.status = rows[id].status /\ r.key = rows[id].key
                    /\ r.by = rows[id].by /\ r.body = rows[id].body
      BY <1>1, <2>2, RowPersistMarked
    <2> QED
      BY <2>1, <2>2 DEF Marks
  <1> QED
    BY <1>2 DEF TypeOK

\* Whatever handlers, sweep and late script results write to a row after its
\* decision, the answer its clients poll for stays as it was given.
THEOREM Finality == Spec => DecisionsAreFinal
  <1>1. IInv /\ [Next]_vars => DecisionsKept
    <2> SUFFICES ASSUME IInv, StoreStep
                 PROVE  DecisionsKept
      BY NextWrites
    <2>1. CASE UNCHANGED rows
      BY <2>1 DEF DecisionsKept
    <2>2. ASSUME NEW id \in Ids, NEW k \in Keys, Opens(id, k)
          PROVE  DecisionsKept
      BY <2>2 DEF Opens, DecisionsKept, Decided, CloseStatuses, IInv, TypeOK
    <2>3. ASSUME NEW id \in Ids, NEW status \in CloseStatuses, NEW by \in DecidedBy,
                 NEW body \in Bodies, Closes(id, status, by, body)
          PROVE  DecisionsKept
      BY <2>3 DEF Closes, IsOpen, DecisionsKept, Decided, CloseStatuses, IInv, TypeOK
    <2>4. ASSUME NEW id \in Ids, Marks(id)
          PROVE  DecisionsKept
      BY <2>4, MarksKeepRow DEF DecisionsKept, IInv
    <2> QED
      BY <2>1, <2>2, <2>3, <2>4 DEF StoreStep
  <1> QED
    BY <1>1, Invariance, PTL DEF Spec, DecisionsAreFinal

-------------------------------------------------------------------------------
\* A poll of a free id finds nothing, one of an open row waits, and one of a
\* decided row is answered allow or deny.
LEMMA ToldOf ==
  ASSUME NEW r \in Row
  PROVE  /\ r.status \in {"absent", "open"} => Told(r) = r.status
         /\ r.status \in CloseStatuses => Told(r) \in {"allow", "deny"}
         /\ Told(r) = "open" => r.status = "open"
  BY DEF Told, CloseStatuses, Row

\* The daemon, with all its threads, implements the ledger: opening a row is
\* asking, closing one is answering, and every other step is invisible.
THEOREM Refinement == Spec => ImplementsLedger
  <1> DEFINE asked  == [id \in Ids |-> rows[id].key]
             answer == [id \in Ids |-> Told(rows[id])]
  <1>1. Init => Ledger!Init
    <2> SUFFICES ASSUME Init PROVE Ledger!Init
      OBVIOUS
    <2>1. \A id \in Ids : /\ asked[id] \in Keys \cup {None}
                          /\ answer[id] = IF asked[id] = None THEN "absent" ELSE "open"
      <3>1. \A id \in Ids : rows[id] \in Row /\ Told(rows[id]) = rows[id].status
        BY InitRows, InitRow, ToldOf
      <3> QED
        BY <3>1, InitRow, BrokerAssumption
    <2>2. \A i, j \in Ids :
            answer[i] = "open" /\ answer[j] = "open" /\ asked[i] = asked[j] => i = j
      BY InitRows, ToldOf DEF OneOpenPerKey, IsOpen
    <2> QED
      BY <2>1, <2>2 DEF Ledger!Init, Ledger!OneQuestionPerKey
  <1>2. IInv /\ [Next]_vars => [Ledger!Next]_(Ledger!ledger)
    <2> SUFFICES ASSUME IInv, StoreStep
                 PROVE  Ledger!Next \/ UNCHANGED Ledger!ledger
      BY NextWrites
    <2>1. CASE UNCHANGED rows
      BY <2>1 DEF Ledger!ledger
    <2>2. ASSUME NEW id \in Ids, NEW k \in Keys, Opens(id, k)
          PROVE  Ledger!Ask(id, k)
      <3>1. /\ rows'[id] = Opened(k)
            /\ \A j \in Ids : j # id => rows'[j] = rows[j]
        BY <2>2 DEF Opens, IInv, TypeOK
      <3>2. answer[id] = "absent" /\ \A j \in Ids : ~ (answer[j] = "open" /\ asked[j] = k)
        BY <2>2, ToldOf DEF Opens, OpenRowsOf, IsOpen, IInv, TypeOK
      <3>3. asked' = [asked EXCEPT ![id] = k] /\ answer' = [answer EXCEPT ![id] = "open"]
        <4>1. Opened(k) \in Row /\ Opened(k).key = k /\ Told(Opened(k)) = "open"
          BY RowOpened, ToldOf
        <4> QED
          BY <3>1, <4>1
      <3> QED
        BY <3>2, <3>3 DEF Ledger!Ask
    <2>3. ASSUME NEW id \in Ids, NEW status \in CloseStatuses, NEW by \in DecidedBy,
                 NEW body \in Bodies, Closes(id, status, by, body)
          PROVE  \E a \in Ledger!Answers : Ledger!Answer(id, a)
      <3> DEFINE r == Closed(rows[id], status, by, body)
      <3>1. /\ rows'[id] = r
            /\ \A j \in Ids : j # id => rows'[j] = rows[j]
        BY <2>3 DEF Closes, IInv, TypeOK
      <3>2. r \in Row /\ r.status = status /\ r.key = rows[id].key
        BY RowClosed DEF IInv, TypeOK
      <3> HIDE DEF r
      <3>3. PICK a \in {"allow", "deny"} : Told(r) = a
        BY <3>2, ToldOf
      <3>4. answer[id] = "open"
        BY <2>3, ToldOf DEF Closes, IsOpen, IInv, TypeOK
      <3>5. answer' = [answer EXCEPT ![id] = a] /\ UNCHANGED asked
        BY <3>1, <3>2, <3>3
      <3> QED
        BY <3>3, <3>4, <3>5 DEF Ledger!Answer, Ledger!Answers
    <2>4. ASSUME NEW id \in Ids, Marks(id)
          PROVE  UNCHANGED Ledger!ledger
      BY <2>4, MarksKeepRow DEF Ledger!ledger, Told, IInv
    <2> QED
      BY <2>1, <2>2, <2>3, <2>4 DEF StoreStep, Ledger!Next
  <1> QED
    BY <1>1, <1>2, Invariance, PTL DEF Spec, ImplementsLedger, Ledger!Spec
===============================================================================
