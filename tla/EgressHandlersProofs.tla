-------------------------- MODULE EgressHandlersProofs --------------------------
(***************************************************************************)
(* Proofs about the handler threads of EgressBroker and what they leave    *)
(* behind, for every set of containers, hosts, requests and threads.       *)
(*                                                                         *)
(* First the requests whose allow is being applied.  The broker lock is    *)
(* given up while the script runs, and `_applying' stands in for it: an id *)
(* is put there under the lock, when nobody else is between a status check *)
(* and a write, and later deciders skip it.                                *)
(*                                                                         *)
(* Then whole requests: that a filing and a decision get to their end, the *)
(* row a repeated denial is logged on, the notification of an open request *)
(* and the sweep of a persistent deny.  The invariant HInv says what a     *)
(* thread relies on between its steps; the case tables (FileBegins to      *)
(* OtherSteps) say once what each step does, so that the proof of a part   *)
(* of HInv reads them and no action.                                       *)
(*                                                                         *)
(* What needs a script to end says so: nothing removes the id from         *)
(* _applying when subprocess.run raises something other than OSError.      *)
(***************************************************************************)
EXTENDS EgressBrokerProofs

ScriptsEnd == "raised" \notin ScriptExits

\* Who is about to close a row under the lock found it not in flight.
LockedAreNotInFlight ==
    /\ \A t \in Operators :
          deciding[t].pc \in OperatorHoldsLock => deciding[t].rid \notin applying
    /\ \A t \in Filers : FilerAt(t, "record_close") => filing[t].rid \notin applying

FInv == IInv /\ ApplyingHasOneOwner /\ LockedAreNotInFlight

LEMMA InitFlight == Init => ApplyingHasOneOwner /\ LockedAreNotInFlight
  <1> SUFFICES ASSUME Init PROVE ApplyingHasOneOwner /\ LockedAreNotInFlight
    OBVIOUS
  <1>1. applying = {}
    BY DEF Init
  <1>2. \A t \in Operators : deciding[t].pc = "idle"
    BY DEF Init, NotDeciding, DecidingStarts
  <1> QED
    BY <1>1, <1>2 DEF ApplyingHasOneOwner, InFlight, LockedAreNotInFlight

\* What is in flight has been filed.
LEMMA InFlightIsFiled ==
  ASSUME FInv, NEW id \in applying
  PROVE  id \in Ids /\ rows[id].status # "absent"
  BY DEF FInv, ApplyingHasOneOwner, InFlight, IInv, OperatorKnows

-------------------------------------------------------------------------------
\* A deciding thread that neither has nor gets an allow in flight.
LEMMA Bystander ==
  ASSUME FInv, NEW t \in Operators, UNCHANGED <<applying, filing>>,
         \A u \in Operators : u # t => deciding'[u] = deciding[u],
         ~ InFlight(t), ~ InFlight(t)',
         deciding'[t].pc \in OperatorHoldsLock => deciding'[t].rid \notin applying
  PROVE  ApplyingHasOneOwner' /\ LockedAreNotInFlight'
  <1>1. \A u \in Operators : InFlight(u)' => u # t /\ InFlight(u) /\ deciding'[u].rid = deciding[u].rid
    BY DEF InFlight
  <1>2. \A u \in Operators : InFlight(u) => u # t /\ InFlight(u)' /\ deciding'[u].rid = deciding[u].rid
    BY DEF InFlight
  <1>3. ApplyingHasOneOwner'
    BY <1>1, <1>2 DEF FInv, ApplyingHasOneOwner
  <1>4. LockedAreNotInFlight'
    BY DEF FInv, LockedAreNotInFlight, FilerAt
  <1> QED
    BY <1>3, <1>4

\* The next candidate goes into flight when it is not there; nobody else is in
\* a section of the lock, so nobody else is about to close it.
LEMMA DecideNextFlight ==
  ASSUME FInv, NEW t \in Operators, NEW id \in Ids, DecideNext(t, id)
  PROVE  ApplyingHasOneOwner' /\ LockedAreNotInFlight'
  <1> DEFINE d == [deciding[t] EXCEPT !.todo = @ \ {id}]
             At(pc) == deciding' = [deciding EXCEPT ![t] = [d EXCEPT !.pc = pc, !.rid = id]]
  <1>1. /\ deciding[t].pc = "next" /\ lock = None /\ UNCHANGED filing
        /\ TypeOK /\ deciding[t] \in Deciding
    BY DEF DecideNext, OperatorAt, LockFree, FInv, IInv, TypeOK
  <1>2. d \in Deciding /\ d.pc = "next" /\ d.op = deciding[t].op
    BY <1>1 DEF Deciding
  <1>3. CASE deciding' = [deciding EXCEPT ![t] = d] /\ UNCHANGED applying
    <2>1. deciding'[t].pc = "next" /\ \A u \in Operators : u # t => deciding'[u] = deciding[u]
      BY <1>1, <1>2, <1>3, OperatorMoved
    <2> QED
      BY <1>1, <1>3, <2>1, Bystander DEF InFlight, OperatorHoldsLock
  <1>4. ASSUME NEW pc \in {"apply", "ip_mark", "deny_close"}, At(pc)
        PROVE  /\ deciding'[t].pc = pc /\ deciding'[t].rid = id
               /\ \A u \in Operators : u # t => deciding'[u] = deciding[u]
    <2> DEFINE e == [d EXCEPT !.pc = pc, !.rid = id]
    <2>1. e \in Deciding /\ e.pc = pc /\ e.rid = id
      BY <1>2 DEF Deciding
    <2> HIDE DEF e
    <2> QED
      BY <1>1, <1>4, <2>1, OperatorMoved DEF e
  <1> HIDE DEF d
  <1>5. CASE ~ Settled(id) /\ At("apply") /\ applying' = applying \cup {id}
    <2>1. /\ deciding'[t].pc = "apply" /\ deciding'[t].rid = id /\ id \notin applying
          /\ \A u \in Operators : u # t => deciding'[u] = deciding[u]
      BY <1>4, <1>5 DEF Settled
    <2>2. \A u \in Operators : u # t => (InFlight(u)' <=> InFlight(u))
      BY <2>1 DEF InFlight
    <2>3. InFlight(t)' /\ ~ InFlight(t)
      BY <1>1, <2>1 DEF InFlight
    <2>4. \A u \in Operators : u # t /\ InFlight(u) => deciding[u].rid # id
      BY <2>1 DEF FInv, ApplyingHasOneOwner
    <2>5. ApplyingHasOneOwner'
      <3>1. \A j \in applying : \E u \in Operators : u # t /\ InFlight(u)' /\ deciding'[u].rid = j
        BY <2>1, <2>2, <2>3 DEF FInv, ApplyingHasOneOwner
      <3>2. \A j \in applying' : \E u \in Operators : InFlight(u)' /\ deciding'[u].rid = j
        BY <1>5, <2>1, <2>3, <3>1
      <3>3. \A u \in Operators : InFlight(u)' => deciding'[u].rid \in applying'
        BY <1>5, <2>1, <2>2 DEF FInv, ApplyingHasOneOwner
      <3>4. \A u, v \in Operators :
              InFlight(u)' /\ InFlight(v)' /\ deciding'[u].rid = deciding'[v].rid => u = v
        BY <2>1, <2>2, <2>4 DEF FInv, ApplyingHasOneOwner
      <3> QED
        BY <3>2, <3>3, <3>4 DEF ApplyingHasOneOwner
    <2>6. /\ \A u \in Operators : deciding'[u].pc \notin OperatorHoldsLock
          /\ \A f \in Filers : ~ FilerAt(f, "record_close")'
      BY <1>1, <2>1, BrokerAssumption
      DEF FInv, IInv, LockIsHeldByOne, OperatorHoldsLock, FilerHoldsLock, FilerAt
    <2> QED
      BY <2>5, <2>6 DEF LockedAreNotInFlight
  <1>6. CASE /\ ~ Settled(id) /\ UNCHANGED applying
             /\ \E pc \in {"ip_mark", "deny_close"} : At(pc)
    <2>1. PICK pc \in {"ip_mark", "deny_close"} : At(pc)
      BY <1>6
    <2>2. /\ deciding'[t].pc = pc /\ deciding'[t].rid = id /\ id \notin applying
          /\ \A u \in Operators : u # t => deciding'[u] = deciding[u]
      BY <1>4, <1>6, <2>1 DEF Settled
    <2> QED
      BY <1>1, <1>6, <2>2, Bystander DEF InFlight
  <1> QED
    BY <1>3, <1>5, <1>6 DEF DecideNext, d

\* The script ends; the id stays in flight until its handler has the lock.
LEMMA ApplyRunFlight ==
  ASSUME FInv, ScriptsEnd, NEW t \in Operators, ApplyRun(t)
  PROVE  ApplyingHasOneOwner' /\ LockedAreNotInFlight'
  <1>1. /\ TypeOK /\ deciding[t].pc = "apply" /\ UNCHANGED <<applying, filing>>
        /\ deciding[t] \in Deciding
    BY DEF ApplyRun, OperatorAt, FInv, IInv, TypeOK
  <1>2. PICK exit \in ScriptExits :
          deciding' = [deciding EXCEPT ![t].pc = "settle", ![t].exit0 = ExitsZero(exit)]
    BY DEF ApplyRun, ScriptsEnd
  <1> DEFINE zero == ExitsZero(exit)
             d == [deciding[t] EXCEPT !.pc = "settle", !.exit0 = zero]
  <1>3. zero \in BOOLEAN
    BY DEF ExitsZero
  <1>4. deciding' = [deciding EXCEPT ![t] = d]
    BY <1>1, <1>2 DEF TypeOK
  <1> HIDE DEF zero
  <1>5. d \in Deciding /\ d.pc = "settle" /\ d.rid = deciding[t].rid
    BY <1>1, <1>3 DEF Deciding
  <1> HIDE DEF d
  <1>6. /\ deciding'[t].pc = "settle" /\ deciding'[t].rid = deciding[t].rid
        /\ \A u \in Operators : u # t => deciding'[u] = deciding[u]
    BY <1>1, <1>4, <1>5, OperatorMoved
  <1>7. \A u \in Operators : (InFlight(u)' <=> InFlight(u)) /\ deciding'[u].rid = deciding[u].rid
    BY <1>1, <1>6 DEF InFlight
  <1>8. ApplyingHasOneOwner'
    BY <1>1, <1>7 DEF FInv, ApplyingHasOneOwner
  <1>9. LockedAreNotInFlight'
    BY <1>1, <1>6 DEF FInv, LockedAreNotInFlight, FilerAt, OperatorHoldsLock
  <1> QED
    BY <1>8, <1>9

\* Its handler takes the lock and the id out of flight, which nobody else had.
LEMMA ApplySettleFlight ==
  ASSUME FInv, NEW t \in Operators, ApplySettle(t)
  PROVE  ApplyingHasOneOwner' /\ LockedAreNotInFlight'
  <1> DEFINE id == deciding[t].rid
  <1>1. /\ TypeOK /\ deciding[t].pc = "settle" /\ applying' = applying \ {id} /\ UNCHANGED filing
        /\ deciding' = [deciding EXCEPT ![t].pc = "apply_mark"] \/ ResumeDecided(t)
    BY DEF ApplySettle, OperatorAt, FInv, IInv
  <1>2. id \in Ids
    BY <1>1 DEF FInv, IInv, OperatorKnows
  <1>3. /\ \A u \in Operators : u # t => deciding'[u] = deciding[u]
        /\ \/ deciding'[t].pc = "apply_mark" /\ deciding'[t].rid = id
           \/ deciding'[t].pc = "next"
    BY <1>1, <1>2, OperatorAdvanced, OperatorResumes
  <1>4. InFlight(t) /\ ~ InFlight(t)'
    BY <1>1, <1>3 DEF InFlight
  <1>5. \A u \in Operators : u # t =>
          /\ InFlight(u)' <=> InFlight(u)
          /\ deciding'[u].rid = deciding[u].rid
          /\ InFlight(u) => deciding[u].rid # id
    BY <1>3, <1>4 DEF InFlight, FInv, ApplyingHasOneOwner
  <1>6. ApplyingHasOneOwner'
    <2>1. \A j \in applying' : \E u \in Operators : InFlight(u)' /\ deciding'[u].rid = j
      <3>1. ASSUME NEW j \in applying' PROVE \E u \in Operators : InFlight(u)' /\ deciding'[u].rid = j
        <4>1. j \in applying /\ j # id
          BY <1>1
        <4>2. PICK u \in Operators : InFlight(u) /\ deciding[u].rid = j
          BY <4>1 DEF FInv, ApplyingHasOneOwner
        <4> QED
          BY <1>5, <4>1, <4>2
      <3> QED
        BY <3>1
    <2>2. \A u \in Operators : InFlight(u)' => deciding'[u].rid \in applying'
      BY <1>1, <1>4, <1>5 DEF FInv, ApplyingHasOneOwner
    <2>3. \A u, v \in Operators :
            InFlight(u)' /\ InFlight(v)' /\ deciding'[u].rid = deciding'[v].rid => u = v
      BY <1>4, <1>5 DEF FInv, ApplyingHasOneOwner
    <2> QED
      BY <2>1, <2>2, <2>3 DEF ApplyingHasOneOwner
  <1>7. LockedAreNotInFlight'
    <2>1. applying' \subseteq applying /\ id \notin applying'
      BY <1>1
    <2> QED
      BY <1>1, <1>3, <2>1 DEF FInv, LockedAreNotInFlight, FilerAt, OperatorHoldsLock
  <1> QED
    BY <1>6, <1>7

\* Every other step of a decision handler.
LEMMA DecideFlight ==
  ASSUME FInv, ScriptsEnd, NEW t \in Operators, Decide(t)
  PROVE  ApplyingHasOneOwner' /\ LockedAreNotInFlight'
  <1> DEFINE Quiet == {"idle", "next", "add", "list", "reply", "persist_mark", "aborted"}
  <1>1. TypeOK /\ deciding[t] \in Deciding
    BY DEF FInv, IInv, TypeOK
  <1>2. ASSUME UNCHANGED <<applying, filing>>, ~ InFlight(t),
               \A u \in Operators : u # t => deciding'[u] = deciding[u],
               deciding'[t].pc \in Quiet
        PROVE  ApplyingHasOneOwner' /\ LockedAreNotInFlight'
    BY <1>2, Bystander DEF InFlight, OperatorHoldsLock
  <1>3. CASE \E e \in Entries, op \in {"allow", "deny"} : DecideBegin(t, op, e)
    <2>1. PICK e \in Entries, op \in {"allow", "deny"} : DecideBegin(t, op, e)
      BY <1>3
    <2>2. /\ deciding[t].pc = "idle" /\ UNCHANGED <<applying, filing>>
          /\ deciding' = [deciding EXCEPT ![t] = DecidingStarts("next", op, None, OpenCovered(e))]
      BY <2>1 DEF DecideBegin, OperatorAt
    <2>3. OpenCovered(e) \in SUBSET Ids
      BY DEF OpenCovered
    <2>4. /\ DecidingStarts("next", op, None, OpenCovered(e)) \in Deciding
          /\ DecidingStarts("next", op, None, OpenCovered(e)).pc = "next"
      BY <2>3, OperatorStarts
    <2> QED
      BY <1>1, <1>2, <2>2, <2>4, OperatorMoved DEF InFlight
  <1>4. CASE \E e \in Entries : PersistBegin(t, e)
    <2>1. PICK e \in Entries : PersistBegin(t, e)
      BY <1>4
    <2>2. /\ deciding[t].pc = "idle" /\ UNCHANGED <<applying, filing>>
          /\ deciding' = [deciding EXCEPT ![t] = DecidingStarts("add", "persist", e, {})]
      BY <2>1 DEF PersistBegin, OperatorAt
    <2>3. /\ DecidingStarts("add", "persist", e, {}) \in Deciding
          /\ DecidingStarts("add", "persist", e, {}).pc = "add"
      BY OperatorStarts
    <2> QED
      BY <1>1, <1>2, <2>2, <2>3, OperatorMoved DEF InFlight
  <1>5. CASE PersistAdd(t)
    <2>1. /\ deciding[t].pc = "add" /\ UNCHANGED <<applying, filing>>
          /\ \/ deciding' = [deciding EXCEPT ![t].pc = "list"]
             \/ deciding' = [deciding EXCEPT ![t] = DecidingStarts("reply", "persist", None, {})]
      BY <1>5 DEF PersistAdd, OperatorAt
    <2>2. /\ DecidingStarts("reply", "persist", None, {}) \in Deciding
          /\ DecidingStarts("reply", "persist", None, {}).pc = "reply"
      BY OperatorStarts
    <2>3. /\ deciding'[t].pc \in {"list", "reply"}
          /\ \A u \in Operators : u # t => deciding'[u] = deciding[u]
      BY <1>1, <2>1, <2>2, OperatorMoved, OperatorAdvanced
    <2> QED
      BY <1>2, <2>1, <2>3 DEF InFlight
  <1>6. CASE PersistList(t)
    <2> DEFINE todo == OpenCovered(deciding[t].entry)
               d == [deciding[t] EXCEPT !.pc = "next", !.todo = todo]
    <2>1. /\ deciding[t].pc = "list" /\ UNCHANGED <<applying, filing>>
          /\ deciding' = [deciding EXCEPT ![t] = d]
      BY <1>1, <1>6 DEF PersistList, OperatorAt, TypeOK
    <2>2. todo \in SUBSET Ids
      BY DEF OpenCovered
    <2> HIDE DEF todo
    <2>3. d \in Deciding /\ d.pc = "next"
      BY <1>1, <2>2 DEF Deciding
    <2> HIDE DEF d
    <2> QED
      BY <1>1, <1>2, <2>1, <2>3, OperatorMoved DEF InFlight
  <1>7. CASE DecideReply(t) \/ DecideEnd(t)
    <2>1. /\ ~ InFlight(t) /\ UNCHANGED <<applying, filing>>
          /\ \/ deciding' = [deciding EXCEPT ![t].pc = "reply"]
             \/ deciding' = [deciding EXCEPT ![t] = NotDeciding]
      BY <1>7 DEF DecideReply, DecideEnd, OperatorAt, InFlight
    <2>2. NotDeciding \in Deciding /\ NotDeciding.pc = "idle"
      BY OperatorStarts DEF NotDeciding
    <2>3. /\ deciding'[t].pc \in {"reply", "idle"}
          /\ \A u \in Operators : u # t => deciding'[u] = deciding[u]
      BY <1>1, <2>1, <2>2, OperatorMoved, OperatorAdvanced
    <2> QED
      BY <1>2, <2>1, <2>3
  <1>8. CASE IpMark(t) \/ PersistMark(t)
    <2>1. /\ deciding[t].pc \in {"ip_mark", "persist_mark"} /\ UNCHANGED <<applying, filing>>
          /\ Resume(t) \/ ResumeDecided(t)
      BY <1>8 DEF IpMark, PersistMark, OperatorAt
    <2>2. deciding[t].rid \in Ids
      BY <2>1 DEF FInv, IInv, OperatorKnows, OperatorHoldsLock
    <2>3. deciding'[t].pc = "next" /\ \A u \in Operators : u # t => deciding'[u] = deciding[u]
      BY <1>1, <2>1, <2>2, OperatorResumes
    <2> QED
      BY <1>2, <2>1, <2>3 DEF InFlight
  <1>9. CASE DenyClose(t) \/ AllowClose(t)
    <2>1. /\ deciding[t].pc \in {"deny_close", "allow_close"} /\ UNCHANGED <<applying, filing>>
          /\ \/ deciding' = [deciding EXCEPT ![t].pc = "persist_mark"]
             \/ deciding' = [deciding EXCEPT ![t].pc = "aborted"]
             \/ ResumeDecided(t)
      BY <1>9 DEF DenyClose, AllowClose, CloseAs, OperatorAt
    <2>2. deciding[t].rid \in Ids
      BY <2>1 DEF FInv, IInv, OperatorKnows, OperatorHoldsLock
    <2>3. /\ deciding'[t].pc \in {"persist_mark", "aborted", "next"}
          /\ \A u \in Operators : u # t => deciding'[u] = deciding[u]
      BY <1>1, <2>1, <2>2, OperatorResumes, OperatorAdvanced
    <2> QED
      BY <1>2, <2>1, <2>3 DEF InFlight
  <1>10. CASE ApplyMark(t)
    <2>1. /\ deciding[t].pc = "apply_mark" /\ UNCHANGED <<applying, filing>>
          /\ deciding' = [deciding EXCEPT ![t].pc = "allow_close"] \/ Resume(t)
      BY <1>10 DEF ApplyMark, OperatorAt
    <2>2. /\ \A u \in Operators : u # t => deciding'[u] = deciding[u]
          /\ \/ deciding'[t].pc = "allow_close" /\ deciding'[t].rid = deciding[t].rid
             \/ deciding'[t].pc = "next"
      BY <1>1, <2>1, OperatorResumes, OperatorAdvanced
    <2>3. deciding[t].rid \notin applying
      BY <2>1 DEF FInv, LockedAreNotInFlight, OperatorHoldsLock
    <2> QED
      BY <2>1, <2>2, <2>3, Bystander DEF InFlight, OperatorHoldsLock
  <1>11. CASE DecideFault(t)
    <2>1. /\ ~ InFlight(t) /\ UNCHANGED <<applying, filing>>
          /\ deciding' = [deciding EXCEPT ![t].pc = "aborted"]
      BY <1>11 DEF DecideFault, InFlight
    <2>2. /\ deciding'[t].pc = "aborted"
          /\ \A u \in Operators : u # t => deciding'[u] = deciding[u]
      BY <1>1, <2>1, OperatorAdvanced
    <2> QED
      BY <1>2, <2>1, <2>2
  <1> QED
    BY <1>3, <1>4, <1>5, <1>6, <1>7, <1>8, <1>9, <1>10, <1>11,
       DecideNextFlight, ApplyRunFlight, ApplySettleFlight DEF Decide

\* A filing that starts to close a row has just opened it: nobody decides it.
LEMMA FileFlight ==
  ASSUME FInv, NEW t \in Filers, File(t)
  PROVE  ApplyingHasOneOwner' /\ LockedAreNotInFlight'
  <1>1. UNCHANGED <<applying, deciding>> /\ filing \in [Filers -> Filing]
    BY DEF File, FileBegin, FileHit, FileInsert, FileNotify, FilePush, FileRecordClose,
           FileSuppress, FileFault, FInv, IInv, TypeOK
  <1>2. ApplyingHasOneOwner'
    BY <1>1 DEF FInv, ApplyingHasOneOwner, InFlight
  <1>3. \A u \in Filers : FilerAt(u, "record_close")' =>
          filing'[u].rid = filing[u].rid /\ (FilerAt(u, "record_close") \/ FilerAt(u, "record"))
    BY <1>1 DEF File, FileBegin, FileHit, FileInsert, FileNotify, FilePush, FileRecordClose,
           FileSuppress, FileFault, FilerStep, FilerReplies, FilingEnded, FilerAt, Filing
  <1>4. \A u \in Filers : FilerAt(u, "record") => filing[u].rid \notin applying
    BY InFlightIsFiled DEF FInv, IInv, FilerKnows, FilerAt
  <1> QED
    BY <1>1, <1>2, <1>3, <1>4 DEF FInv, LockedAreNotInFlight

LEMMA RestartFlight ==
  ASSUME FInv, Restart
  PROVE  ApplyingHasOneOwner' /\ LockedAreNotInFlight'
  <1>1. applying' = {} /\ \A t \in Operators : deciding'[t].pc = "idle"
    BY DEF Restart, NotDeciding, DecidingStarts
  <1> QED
    BY <1>1 DEF ApplyingHasOneOwner, LockedAreNotInFlight, InFlight

LEMMA NextFlight ==
  ASSUME ScriptsEnd
  PROVE  FInv /\ [Next]_vars => FInv'
  <1> SUFFICES ASSUME FInv, [Next]_vars
               PROVE  ApplyingHasOneOwner' /\ LockedAreNotInFlight'
    BY NextInv DEF FInv
  <1>1. CASE UNCHANGED <<applying, deciding, filing>>
    BY <1>1 DEF FInv, ApplyingHasOneOwner, LockedAreNotInFlight, InFlight, FilerAt
  <1>2. CASE \E t \in Filers : File(t)
    BY <1>2, FileFlight
  <1>3. CASE \E t \in Operators : Decide(t)
    BY <1>3, DecideFlight
  <1>4. CASE Restart
    BY <1>4, RestartFlight
  <1> QED
    BY <1>1, <1>2, <1>3, <1>4
    DEF Next, vars, environment, SweepStale, SweepCollect, SweepClose, SweepFault, Age,
        WindowElapses, Undeny

LEMMA FlightInvariance ==
  ASSUME ScriptsEnd
  PROVE  Spec => []FInv
  <1>1. Init => FInv
    BY InitInv, InitFlight DEF FInv
  <1> QED
    BY <1>1, NextFlight, PTL DEF Spec

\* An id is in _applying exactly while one handler runs or settles its script:
\* no request is applied twice at once, and none is left undecidable.
THEOREM OneOwner ==
  ASSUME ScriptsEnd
  PROVE  Spec => []ApplyingHasOneOwner
  <1>1. FInv => ApplyingHasOneOwner
    BY DEF FInv
  <1> QED
    BY <1>1, FlightInvariance, PTL

-------------------------------------------------------------------------------
\* A step changes the status of a row in flight only by closing it in the sweep.
LEMMA FlightIsKept ==
  ASSUME FInv, [Next]_vars, NEW id \in applying, rows'[id].status # rows[id].status
  PROVE  rows'[id].by = "sweep"
  <1>1. /\ id \in Ids /\ rows[id].status # "absent"
        /\ TypeOK /\ rows \in [Ids -> Row]
    BY InFlightIsFiled DEF FInv, IInv, TypeOK
  <1>2. ASSUME NEW j \in Ids, NEW r, rows' = [rows EXCEPT ![j] = r]
        PROVE  j = id
    BY <1>1, <1>2
  <1>3. ASSUME NEW t \in Filers, File(t) PROVE FALSE
    <2>1. CASE FileInsert(t)
      <3>1. filing[t].rid \in Ids /\ rows[filing[t].rid].status = "absent"
        BY <2>1 DEF FileInsert, FInv, IInv, FilerKnows
      <3> QED
        BY <1>1, <1>2, <2>1, <3>1 DEF FileInsert
    <2>2. CASE FileRecordClose(t)
      <3>1. filing[t].rid \in Ids /\ filing[t].rid \notin applying
        BY <2>2 DEF FileRecordClose, FilerAt, FInv, IInv, FilerKnows, LockedAreNotInFlight
      <3> QED
        BY <1>2, <2>2, <3>1 DEF FileRecordClose
    <2> QED
      BY <1>3, <2>1, <2>2
      DEF File, FileBegin, FileHit, FileNotify, FilePush, FileSuppress, FileFault
  <1>4. ASSUME NEW j \in Ids, Marks(j) PROVE FALSE
    BY <1>1, <1>4, MarksKeepRow
  <1>5. ASSUME NEW t \in Operators, Decide(t) PROVE FALSE
    <2>1. deciding[t].pc \in OperatorHoldsLock \cup {"persist_mark"} => deciding[t].rid \in Ids
      BY DEF FInv, IInv, OperatorKnows
    <2>2. CASE DenyClose(t) \/ AllowClose(t)
      <3>1. deciding[t].pc \in {"deny_close", "allow_close"}
        BY <2>2 DEF DenyClose, AllowClose, OperatorAt
      <3>2. deciding[t].rid \in Ids /\ deciding[t].rid \notin applying
        BY <2>1, <3>1 DEF FInv, LockedAreNotInFlight, OperatorHoldsLock
      <3> QED
        BY <1>2, <2>2, <3>2 DEF DenyClose, AllowClose, CloseAs
    <2>3. CASE IpMark(t) \/ ApplyMark(t) \/ PersistMark(t)
      <3>1. deciding[t].rid \in Ids /\ Marks(deciding[t].rid)
        BY <2>1, <2>3 DEF IpMark, ApplyMark, PersistMark, OperatorAt, OperatorHoldsLock,
                          Marks, ApplyOutcomes, PersistOutcomes
      <3> QED
        BY <1>4, <3>1
    <2> QED
      BY <1>5, <2>2, <2>3
      DEF Decide, DecideBegin, PersistBegin, PersistAdd, PersistList, DecideNext,
          DecideReply, DecideEnd, ApplyRun, ApplySettle, DecideFault
  <1>6. ASSUME NEW j \in Ids, SweepClose(j) PROVE rows'[id].by = "sweep"
    <2>1. rows' = [rows EXCEPT ![j] = Closed(rows[j], "stale", "sweep", "deny_stale")]
      BY <1>6 DEF SweepClose
    <2>2. j = id
      BY <1>2, <2>1
    <2>3. Closed(rows[id], "stale", "sweep", "deny_stale").by = "sweep"
      BY <1>1 DEF Closed, Row
    <2> QED
      BY <1>1, <2>1, <2>2, <2>3
  <1> QED
    BY <1>3, <1>5, <1>6
    DEF Next, vars, environment, SweepStale, SweepCollect, SweepFault, Age, WindowElapses,
        Undeny, Restart

\* Two operators never decide one request against each other: while an allow is
\* in flight, nobody but the sweep closes the row.
THEOREM OnlySweptInFlight ==
  ASSUME ScriptsEnd
  PROVE  Spec => InFlightOnlySwept
  <1>1. FInv /\ [Next]_vars =>
          [\A id \in applying :
             rows'[id].status # rows[id].status => rows'[id].by = "sweep"]_vars
    BY FlightIsKept
  <1> QED
    BY <1>1, FlightInvariance, PTL DEF Spec, InFlightOnlySwept

-------------------------------------------------------------------------------
\* Who writes a row, and what stays of it: a decided row keeps its decision, a
\* filed one its key, and an attempt that was counted stays counted.
LEMMA RowsEvolve ==
  ASSUME IInv, [Next]_vars, NEW id \in Ids
  PROVE  /\ rows[id].status # "absent" =>
              rows'[id].status # "absent" /\ rows'[id].key = rows[id].key
         /\ Decided(rows, id) =>
              rows'[id].status = rows[id].status /\ rows'[id].by = rows[id].by
         /\ IsOpen(rows', id) => rows[id].status \in {"absent", "open"}
         /\ rows[id].tries > 0 /\ rows[id].status # "absent" => rows'[id].tries > 0
  <1> USE DEF CloseStatuses, Decided, IsOpen
  <1>1. TypeOK /\ rows[id] \in Row /\ StoreStep
    BY NextWrites DEF IInv, TypeOK
  <1>2. CASE UNCHANGED rows
    BY <1>1, <1>2 DEF Row
  <1>3. ASSUME NEW j \in Ids, NEW k \in Keys, Opens(j, k)
        PROVE  /\ rows[id].status # "absent" => rows'[id] = rows[id]
               /\ IsOpen(rows', id) => rows[id].status \in {"absent", "open"}
    BY <1>1, <1>3 DEF Opens, TypeOK
  <1>4. ASSUME NEW j \in Ids, NEW status \in CloseStatuses, NEW by \in DecidedBy,
               NEW body \in Bodies, Closes(j, status, by, body)
        PROVE  \/ rows'[id] = rows[id]
               \/ /\ rows[id].status = "open" /\ rows'[id].status = status
                  /\ rows'[id].key = rows[id].key /\ rows'[id].tries = rows[id].tries
    <2>1. CASE j # id
      BY <1>1, <1>4, <2>1 DEF Closes, TypeOK
    <2>2. CASE j = id
      <3>1. rows'[id] = Closed(rows[id], status, by, body)
        BY <1>1, <1>4, <2>2 DEF Closes, TypeOK
      <3>2. Closed(rows[id], status, by, body).tries = rows[id].tries
        BY <1>1 DEF Closed, Row
      <3> QED
        BY <1>1, <1>4, <2>2, <3>1, <3>2, RowClosed DEF Closes
    <2> QED
      BY <2>1, <2>2
  <1>5. ASSUME NEW j \in Ids, Marks(j)
        PROVE  rows[id].tries > 0 => rows'[id].tries > 0
    <2>1. rows[id].tries \in Nat
      BY <1>1 DEF Row
    <2>2. \A outcome \in ApplyOutcomes : ApplyMarked(rows[id], outcome).tries = rows[id].tries + 1
      BY <1>1 DEF ApplyMarked, Row
    <2>3. \A outcome \in PersistOutcomes : PersistMarked(rows[id], outcome).tries = rows[id].tries
      BY <1>1 DEF PersistMarked, Row
    <2> QED
      BY <1>1, <1>5, <2>1, <2>2, <2>3 DEF Marks, TypeOK
  <1>6. ASSUME NEW j \in Ids, Marks(j)
        PROVE  /\ rows'[id].status = rows[id].status /\ rows'[id].key = rows[id].key
               /\ rows'[id].by = rows[id].by
    BY <1>1, <1>6, MarksKeepRow
  <1>7. \/ UNCHANGED rows
        \/ \E j \in Ids, k \in Keys : Opens(j, k)
        \/ \E j \in Ids, status \in CloseStatuses, by \in DecidedBy, body \in Bodies :
              Closes(j, status, by, body)
        \/ \E j \in Ids : Marks(j)
    BY <1>1 DEF StoreStep
  <1>8. CASE \E j \in Ids, k \in Keys : Opens(j, k)
    BY <1>1, <1>3, <1>8 DEF Row
  <1>9. CASE \E j \in Ids, status \in CloseStatuses, by \in DecidedBy, body \in Bodies :
              Closes(j, status, by, body)
    BY <1>1, <1>4, <1>9 DEF Row
  <1>10. CASE \E j \in Ids : Marks(j)
    BY <1>1, <1>5, <1>6, <1>10
  <1> QED
    BY <1>2, <1>7, <1>8, <1>9, <1>10

-------------------------------------------------------------------------------
\* What a step of a filing does to its own thread, case by case.

FilingOf(t, pc, k, id, answer) ==
    /\ filing'[t].pc = pc /\ filing'[t].key = k
    /\ filing'[t].rid = id /\ filing'[t].answer = answer

FilingEnds(t, answer) == filing'[t].pc = "idle" /\ filing'[t].answer = answer

LEMMA FileSteps ==
  ASSUME IInv, NEW t \in Filers, File(t)
  PROVE  /\ UNCHANGED <<old, denylist, applying, deciding, sweep, crashes>>
         /\ \A u \in Filers : u # t => filing'[u] = filing[u]
  BY DEF IInv, TypeOK, File, FileBegin, FileHit, FileInsert, FileNotify, FilePush,
         FileRecordClose, FileSuppress, FileFault, FilerStep, FilerReplies, environment

LEMMA FileBegins ==
  ASSUME IInv, NEW t \in Filers, NEW k \in Keys, NEW id \in Ids, FileBegin(t, k, id)
  PROVE  /\ filing[t].pc = "idle" /\ lock = None
         /\ UNCHANGED <<rows, pushed, faults>>
         /\ \/ /\ UNCHANGED window
               /\ \E open \in Ids : /\ FilingOf(t, "hit", k, open, "none")
                                    /\ IsOpen(rows, open)
            \/ /\ UNCHANGED window
               /\ FilingOf(t, "insert", k, id, "none")
               /\ Matches(k) = {}
            \/ \E w \in Containers \X Zones :
                  /\ w[1] = Container(k) /\ window[w] = None
                  /\ window' = [window EXCEPT ![w] = id]
                  /\ FilingOf(t, "record", k, id, "none")
            \/ \E w \in Containers \X Zones :
                  /\ window[w] \in Ids
                  /\ FilingOf(t, "suppress", k, window[w], "none")
                  /\ UNCHANGED window
  <1>1. TypeOK /\ filing[t].pc = "idle" /\ lock = None /\ UNCHANGED <<rows, pushed, faults>>
    BY DEF IInv, FileBegin, FilerAt, LockFree, environment
  <1>2. \A pc, rid : FilerStep(t, pc, k, rid) =>
          FilingOf(t, pc, k, rid, "none")
    BY <1>1 DEF FilerStep, TypeOK, FilingOf
  <1>3. CASE UNCHANGED window /\ IsOpen(rows, id) /\ FilerStep(t, "hit", k, id)
    BY <1>1, <1>2, <1>3
  <1>4. CASE UNCHANGED window /\ \E open \in OpenRowsOf(rows, k) : FilerStep(t, "hit", k, open)
    BY <1>1, <1>2, <1>4 DEF OpenRowsOf
  <1>5. CASE UNCHANGED window /\ Matches(k) = {} /\ FilerStep(t, "insert", k, id)
    BY <1>1, <1>2, <1>5
  <1>6. ASSUME NEW e \in LongestZones(k),
               IF window[WindowKey(k, e)] = None
               THEN /\ window' = [window EXCEPT ![WindowKey(k, e)] = id]
                    /\ FilerStep(t, "record", k, id)
               ELSE /\ FilerStep(t, "suppress", k, window[WindowKey(k, e)])
                    /\ UNCHANGED window
        PROVE  \E w \in Containers \X Zones :
                  \/ /\ w[1] = Container(k) /\ window[w] = None
                     /\ window' = [window EXCEPT ![w] = id]
                     /\ FilingOf(t, "record", k, id, "none")
                  \/ /\ window[w] \in Ids
                     /\ FilingOf(t, "suppress", k, window[w], "none")
                     /\ UNCHANGED window
    <2> DEFINE w == WindowKey(k, e)
    <2>1. w \in Containers \X Zones /\ w[1] = Container(k)
      <3>1. e.zone \in Zones
        BY <1>1 DEF TypeOK, LongestZones, Matches, Entries
      <3>2. k[1] \in Containers
        BY DEF Keys
      <3> QED
        BY <3>1, <3>2 DEF WindowKey, Container
    <2>2. window[w] = None \/ window[w] \in Ids
      BY <1>1, <2>1 DEF TypeOK
    <2> HIDE DEF w
    <2> QED
      BY <1>2, <1>6, <2>1, <2>2 DEF w
  <1> QED
    BY <1>1, <1>3, <1>4, <1>5, <1>6 DEF FileBegin

\* The later steps of a filing.
LEMMA FileGoes ==
  ASSUME IInv, NEW t \in Filers, File(t), filing[t].pc # "idle"
  PROVE  LET f == filing[t] IN
         /\ f.rid \in Ids /\ f.key \in Keys /\ UNCHANGED window
         /\ \/ /\ f.pc \in {"hit", "suppress"} /\ UNCHANGED <<rows, pushed, faults>>
               /\ \E a \in {"pending", "deny", "error"} :
                     /\ FilingEnds(t, a)
                     /\ f.pc = "hit" /\ IsOpen(rows, f.rid) => a # "error"
                     /\ f.pc = "suppress" /\ rows[f.rid].status = "denied"
                           /\ rows[f.rid].by = "denylist" => a # "error"
            \/ /\ f.pc = "insert" /\ UNCHANGED <<pushed, faults>>
               /\ FilingOf(t, "notify", f.key, f.rid, f.answer)
               /\ rows' = [rows EXCEPT ![f.rid] = Opened(f.key)]
            \/ /\ f.pc = "record" /\ UNCHANGED <<pushed, faults>>
               /\ FilingOf(t, "record_close", f.key, f.rid, f.answer)
               /\ rows' = [rows EXCEPT ![f.rid] = Opened(f.key)]
            \/ /\ f.pc = "notify" /\ UNCHANGED <<rows, pushed, faults>>
               /\ FilingOf(t, "push", f.key, f.rid, f.answer)
            \/ /\ f.pc = "push" /\ UNCHANGED <<rows, faults>>
               /\ FilingEnds(t, "pending")
               /\ pushed' = pushed \cup {f.rid}
            \/ /\ f.pc = "record_close" /\ UNCHANGED <<pushed, faults>>
               /\ FilingEnds(t, "deny")
               /\ rows' = [rows EXCEPT ![f.rid] = DenylistDenial(rows[f.rid])]
            \/ /\ UNCHANGED <<rows, pushed>> /\ faults' = faults + 1
               /\ FilingEnds(t, "error")
  <1> USE DEF FilingOf
  <1>1. /\ TypeOK /\ filing[t] \in Filing
        /\ filing[t].rid \in Ids /\ filing[t].key \in Keys
    BY DEF IInv, TypeOK, FilerKnows
  <1>2. \A a : filing' = [filing EXCEPT ![t] = FilingEnded(a)] => FilingEnds(t, a)
    BY <1>1 DEF TypeOK, FilingEnded, FilingEnds
  <1>3. \A pc : filing' = [filing EXCEPT ![t].pc = pc] =>
          FilingOf(t, pc, filing[t].key, filing[t].rid, filing[t].answer)
    BY <1>1 DEF TypeOK, Filing
  <1>4. CASE FileHit(t)
    BY <1>1, <1>2, <1>4 DEF FileHit, FilerReplies, FilerAt, environment
  <1>5. CASE FileInsert(t)
    BY <1>1, <1>3, <1>5 DEF FileInsert, environment
  <1>6. CASE FileNotify(t)
    BY <1>1, <1>3, <1>6 DEF FileNotify, FilerAt, environment
  <1>7. CASE FilePush(t)
    BY <1>1, <1>2, <1>7 DEF FilePush, FilerAt
  <1>8. CASE FileRecordClose(t)
    BY <1>1, <1>2, <1>8 DEF FileRecordClose, FilerReplies, FilerAt, environment
  <1>9. CASE FileSuppress(t)
    BY <1>1, <1>2, <1>9 DEF FileSuppress, FilerReplies, FilerAt, environment
  <1>10. CASE FileFault(t)
    BY <1>1, <1>2, <1>10 DEF FileFault, FilerReplies
  <1> QED
    BY <1>4, <1>5, <1>6, <1>7, <1>8, <1>9, <1>10 DEF File, FileBegin, FilerAt

-------------------------------------------------------------------------------
\* What a step of a decision handler does to its own thread, case by case.

Rewrites(id, r) == rows' = [rows EXCEPT ![id] = r]

LEMMA DecideSteps ==
  ASSUME IInv, NEW t \in Operators, Decide(t)
  PROVE  /\ UNCHANGED <<old, window, filing, sweep, pushed, crashes>>
         /\ \A u \in Operators : u # t => deciding'[u] = deciding[u]
  BY DEF IInv, TypeOK, Decide, DecideBegin, PersistBegin, PersistAdd, PersistList, DecideNext,
         DecideReply, DecideEnd, IpMark, DenyClose, PersistMark, ApplyRun, ApplySettle,
         ApplyMark, AllowClose, DecideFault, CloseAs, Resume, ResumeDecided, environment

Turns(t) ==
    \/ \E e \in Entries :
          \/ \E op \in {"allow", "deny"} : DecideBegin(t, op, e)
          \/ PersistBegin(t, e)
    \/ PersistAdd(t) \/ PersistList(t) \/ DecideReply(t) \/ DecideEnd(t)

Works(t) ==
    \/ IpMark(t) \/ DenyClose(t) \/ PersistMark(t)
    \/ ApplyRun(t) \/ ApplySettle(t) \/ ApplyMark(t) \/ AllowClose(t)
    \/ DecideFault(t)

LEMMA DecideCases ==
  ASSUME NEW t
  PROVE  Decide(t) <=> Turns(t) \/ (\E id \in Ids : DecideNext(t, id)) \/ Works(t)
  BY DEF Decide, Turns, Works

\* A thread that starts, or turns to a new section of its work.
LEMMA DecideTurns ==
  ASSUME IInv, NEW t \in Operators, Turns(t)
  PROVE  LET d == deciding[t]
             e == deciding'[t]
         IN
         /\ UNCHANGED <<rows, applying, lock, faults>>
         /\ \/ /\ d.pc = "idle" /\ UNCHANGED denylist
               /\ e.pc = "next" /\ e.op \in {"allow", "deny"}
            \/ /\ d.pc = "idle" /\ UNCHANGED denylist
               /\ e.pc = "add" /\ e.op = "persist" /\ e.todo = {}
            \/ /\ d.pc = "add" /\ denylist' = denylist \cup {d.entry}
               /\ e.pc = "list" /\ e.op = d.op /\ e.entry = d.entry /\ e.todo = d.todo
            \/ /\ d.pc = "add" /\ UNCHANGED denylist
               /\ e.pc = "reply" /\ e.todo = {}
            \/ /\ d.pc = "list" /\ lock = None /\ UNCHANGED denylist
               /\ e.pc = "next" /\ e.op = d.op /\ e.entry = d.entry
               /\ e.todo = OpenCovered(d.entry)
            \/ /\ d.pc = "next" /\ d.todo = {} /\ UNCHANGED denylist
               /\ e.pc = "reply" /\ e.todo = {}
            \/ /\ d.pc \in {"reply", "aborted"} /\ UNCHANGED denylist
               /\ e.pc = "idle" /\ e.todo = {}
  <1>1. /\ TypeOK /\ deciding[t] \in Deciding
        /\ \A e \in Entries : OpenCovered(e) \subseteq Ids
    BY DEF IInv, TypeOK, OpenCovered
  <1>2. \A d : deciding' = [deciding EXCEPT ![t] = d] => deciding'[t] = d
    BY <1>1 DEF TypeOK
  <1>3. ASSUME NEW e \in Entries, NEW op \in {"allow", "deny"}, DecideBegin(t, op, e)
        PROVE  /\ deciding[t].pc = "idle" /\ UNCHANGED <<rows, applying, lock, faults, denylist>>
               /\ deciding'[t].pc = "next" /\ deciding'[t].op = op
    BY <1>2, <1>3 DEF DecideBegin, DecidingStarts, OperatorAt, environment
  <1>4. ASSUME NEW e \in Entries, PersistBegin(t, e)
        PROVE  /\ deciding[t].pc = "idle" /\ UNCHANGED <<rows, applying, lock, faults, denylist>>
               /\ deciding'[t].pc = "add" /\ deciding'[t].op = "persist"
               /\ deciding'[t].todo = {}
    BY <1>2, <1>4 DEF PersistBegin, DecidingStarts, OperatorAt, environment
  <1>5. ASSUME NEW pc, deciding' = [deciding EXCEPT ![t].pc = pc]
        PROVE  /\ deciding'[t].pc = pc /\ deciding'[t].op = deciding[t].op
               /\ deciding'[t].entry = deciding[t].entry /\ deciding'[t].todo = deciding[t].todo
    BY <1>1, <1>5 DEF TypeOK, Deciding
  <1>6. CASE PersistAdd(t)
    <2>1. /\ deciding[t].pc = "add" /\ UNCHANGED <<rows, applying, lock, faults>>
          /\ \/ /\ denylist' = denylist \cup {deciding[t].entry}
                /\ deciding' = [deciding EXCEPT ![t].pc = "list"]
             \/ /\ deciding' = [deciding EXCEPT ![t] = DecidingStarts("reply", "persist", None, {})]
                /\ UNCHANGED denylist
      BY <1>6 DEF PersistAdd, OperatorAt, environment
    <2>2. /\ DecidingStarts("reply", "persist", None, {}).pc = "reply"
          /\ DecidingStarts("reply", "persist", None, {}).todo = {}
      BY DEF DecidingStarts
    <2> QED
      BY <1>2, <1>5, <2>1, <2>2
  <1>7. CASE PersistList(t)
    <2> DEFINE todo == OpenCovered(deciding[t].entry)
    <2>1. /\ deciding[t].pc = "list" /\ lock = None
          /\ UNCHANGED <<rows, applying, lock, faults, denylist>>
          /\ deciding' = [deciding EXCEPT ![t].pc = "next", ![t].todo = todo]
      BY <1>7 DEF PersistList, OperatorAt, LockFree, environment
    <2> HIDE DEF todo
    <2>2. /\ deciding'[t].pc = "next" /\ deciding'[t].op = deciding[t].op
          /\ deciding'[t].entry = deciding[t].entry /\ deciding'[t].todo = todo
      BY <1>1, <2>1 DEF TypeOK, Deciding
    <2> QED
      BY <2>1, <2>2 DEF todo
  <1>8. CASE DecideReply(t)
    BY <1>5, <1>8 DEF DecideReply, OperatorAt, environment
  <1>9. CASE DecideEnd(t)
    <2>1. /\ deciding[t].pc \in {"reply", "aborted"} /\ deciding'[t] = NotDeciding
          /\ UNCHANGED <<rows, applying, lock, faults, denylist>>
      BY <1>2, <1>9 DEF DecideEnd, environment
    <2>2. NotDeciding.pc = "idle" /\ NotDeciding.todo = {}
      BY DEF NotDeciding, DecidingStarts
    <2> QED
      BY <2>1, <2>2
  <1> QED
    BY <1>3, <1>4, <1>6, <1>7, <1>8, <1>9 DEF Turns

\* A thread takes up its next candidate.
LEMMA DecideTakes ==
  ASSUME IInv, NEW t \in Operators, NEW id \in Ids, DecideNext(t, id)
  PROVE  LET d == deciding[t]
             e == deciding'[t]
         IN
         /\ d.pc = "next" /\ id \in d.todo /\ lock = None
         /\ UNCHANGED <<rows, denylist, faults>>
         /\ e.todo = d.todo \ {id} /\ e.op = d.op /\ e.entry = d.entry
         /\ \/ Settled(id) /\ e.pc = "next" /\ UNCHANGED applying
            \/ /\ IsOpen(rows, id) /\ e.pc = "apply" /\ e.rid = id /\ d.op = "allow"
               /\ applying' = applying \cup {id}
            \/ /\ IsOpen(rows, id) /\ e.pc = "ip_mark" /\ e.rid = id /\ d.op = "allow"
               /\ UNCHANGED applying
            \/ /\ IsOpen(rows, id) /\ e.pc = "deny_close" /\ e.rid = id /\ d.op # "allow"
               /\ UNCHANGED applying
  <1> DEFINE d == [deciding[t] EXCEPT !.todo = @ \ {id}]
             At(pc) == deciding' = [deciding EXCEPT ![t] = [d EXCEPT !.pc = pc, !.rid = id]]
  <1>1. /\ TypeOK /\ deciding[t] \in Deciding
        /\ deciding[t].pc = "next" /\ id \in deciding[t].todo /\ lock = None
        /\ UNCHANGED <<rows, denylist, faults>>
    BY DEF IInv, TypeOK, DecideNext, OperatorAt, LockFree, environment
  <1>2. \/ /\ Settled(id) /\ deciding' = [deciding EXCEPT ![t] = d] /\ UNCHANGED applying
        \/ /\ IsOpen(rows, id) /\ d.op = "allow" /\ At("apply")
           /\ applying' = applying \cup {id}
        \/ /\ IsOpen(rows, id) /\ UNCHANGED applying
           /\ At(IF d.op = "allow" THEN "ip_mark" ELSE "deny_close")
    BY DEF DecideNext, Settled
  <1>3. /\ d.pc = "next" /\ d.op = deciding[t].op /\ d.entry = deciding[t].entry
        /\ d.todo = deciding[t].todo \ {id} /\ d \in Deciding
    BY <1>1 DEF Deciding
  <1> HIDE DEF d
  <1>4. \A pc : At(pc) =>
          /\ deciding'[t].pc = pc /\ deciding'[t].rid = id /\ deciding'[t].todo = d.todo
          /\ deciding'[t].op = d.op /\ deciding'[t].entry = d.entry
    BY <1>1, <1>3 DEF TypeOK, Deciding
  <1>5. deciding' = [deciding EXCEPT ![t] = d] => deciding'[t] = d
    BY <1>1 DEF TypeOK
  <1> HIDE DEF At
  <1> QED
    BY <1>1, <1>2, <1>3, <1>4, <1>5

\* A thread works on its candidate.
LEMMA DecideWorks ==
  ASSUME IInv, NEW t \in Operators, Works(t)
  PROVE  LET d == deciding[t]
             e == deciding'[t]
         IN
         /\ d.rid \in Ids /\ UNCHANGED denylist
         /\ e.todo = d.todo /\ e.op = d.op /\ e.entry = d.entry
         /\ \/ /\ d.pc = "ip_mark" /\ e.pc = "next" /\ UNCHANGED <<applying, faults>>
               /\ Rewrites(d.rid, ApplyMarked(rows[d.rid], "ip_requires_cidr"))
            \/ /\ d.pc \in {"deny_close", "allow_close"} /\ UNCHANGED <<applying, faults>>
               /\ IsOpen(rows, d.rid) /\ ~ IsOpen(rows', d.rid)
               /\ \A j \in Ids : j # d.rid => rows'[j] = rows[j]
               /\ e.pc \in {"persist_mark", "next"}
            \/ /\ d.pc \in {"deny_close", "allow_close"} /\ UNCHANGED <<applying, faults, rows>>
               /\ ~ IsOpen(rows, d.rid) /\ e.pc = "aborted"
            \/ /\ d.pc = "persist_mark" /\ e.pc = "next" /\ UNCHANGED <<applying, faults>>
               /\ Rewrites(d.rid, PersistMarked(rows[d.rid], "persisted"))
            \/ /\ d.pc = "apply" /\ UNCHANGED <<applying, faults, rows>>
               /\ \/ e.pc = "settle" /\ e.rid = d.rid
                  \/ e.pc = "aborted" /\ "raised" \in ScriptExits
            \/ /\ d.pc = "settle" /\ UNCHANGED <<faults, rows>>
               /\ applying' = applying \ {d.rid}
               /\ \/ IsOpen(rows, d.rid) /\ e.pc = "apply_mark" /\ e.rid = d.rid
                  \/ ~ IsOpen(rows, d.rid) /\ e.pc = "next"
            \/ /\ d.pc = "apply_mark" /\ UNCHANGED <<applying, faults>>
               /\ \E outcome \in ApplyOutcomes :
                     Rewrites(d.rid, ApplyMarked(rows[d.rid], outcome))
               /\ (e.pc = "allow_close" /\ e.rid = d.rid) \/ e.pc = "next"
            \/ /\ faults' = faults + 1 /\ e.pc = "aborted" /\ UNCHANGED <<applying, rows>>
  <1> USE DEF Rewrites, Works
  <1>1. /\ TypeOK /\ deciding[t] \in Deciding
        /\ deciding[t].pc \in OperatorHoldsLock \cup {"apply", "settle", "persist_mark"}
        /\ deciding[t].rid \in Ids
    <2>1. deciding[t].pc \in OperatorHoldsLock \cup {"apply", "settle", "persist_mark"}
      BY DEF IpMark, DenyClose, PersistMark, ApplyRun, ApplySettle, ApplyMark, AllowClose,
             DecideFault, OperatorAt, OperatorHoldsLock
    <2> QED
      BY <2>1 DEF IInv, TypeOK, OperatorKnows
  <1>2. /\ UNCHANGED denylist
        /\ deciding'[t].todo = deciding[t].todo /\ deciding'[t].op = deciding[t].op
        /\ deciding'[t].entry = deciding[t].entry
    <2> DEFINE Kept == /\ deciding'[t].todo = deciding[t].todo
                       /\ deciding'[t].op = deciding[t].op
                       /\ deciding'[t].entry = deciding[t].entry
    <2>1. \A pc : deciding' = [deciding EXCEPT ![t].pc = pc] => Kept
      BY <1>1 DEF TypeOK, Deciding
    <2>2. Resume(t) \/ ResumeDecided(t) => Kept
      BY <1>1 DEF TypeOK, Deciding, Resume, ResumeDecided
    <2>3. \A pc, zero : deciding' = [deciding EXCEPT ![t].pc = pc, ![t].exit0 = zero] => Kept
      BY <1>1 DEF TypeOK, Deciding
    <2> HIDE DEF Kept
    <2>4. IpMark(t) \/ PersistMark(t) \/ ApplySettle(t) \/ ApplyMark(t) \/ DecideFault(t) => Kept
      BY <2>1, <2>2 DEF IpMark, PersistMark, ApplySettle, ApplyMark, DecideFault
    <2>5. DenyClose(t) \/ AllowClose(t) => Kept
      BY <2>1, <2>2 DEF DenyClose, AllowClose, CloseAs
    <2>6. ApplyRun(t) => Kept
      BY <2>3 DEF ApplyRun
    <2>7. UNCHANGED denylist
      BY DEF IpMark, DenyClose, PersistMark, ApplyRun, ApplySettle, ApplyMark, AllowClose,
             DecideFault
    <2> QED
      BY <2>4, <2>5, <2>6, <2>7 DEF Kept
  <1>3. /\ \A pc : deciding' = [deciding EXCEPT ![t].pc = pc] =>
                     deciding'[t].pc = pc /\ deciding'[t].rid = deciding[t].rid
        /\ Resume(t) \/ ResumeDecided(t) => deciding'[t].pc = "next"
    BY <1>1 DEF TypeOK, Deciding, Resume, ResumeDecided
  <1>4. CASE IpMark(t)
    BY <1>1, <1>2, <1>3, <1>4 DEF IpMark, OperatorAt, environment
  <1>5. CASE DenyClose(t) \/ AllowClose(t)
    <2>1. PICK status \in {"allowed", "denied"}, body \in Bodies : CloseAs(t, status, body)
      BY <1>5 DEF DenyClose, AllowClose, Bodies
    <2>2. deciding[t].pc \in {"deny_close", "allow_close"} /\ UNCHANGED <<applying, faults>>
      BY <1>5 DEF DenyClose, AllowClose, OperatorAt, environment
    <2>3. CASE IsOpen(rows, deciding[t].rid)
      <3>1. Closed(rows[deciding[t].rid], status, "operator", body).status = status
        <4>1. rows[deciding[t].rid] \in Row
          BY <1>1 DEF TypeOK
        <4>2. status \in CloseStatuses /\ "operator" \in DecidedBy
          BY DEF CloseStatuses, DecidedBy
        <4> QED
          BY <4>1, <4>2, RowClosed
      <3>2. /\ rows'[deciding[t].rid].status = status
            /\ \A j \in Ids : j # deciding[t].rid => rows'[j] = rows[j]
        BY <1>1, <2>1, <2>3, <3>1 DEF CloseAs, TypeOK
      <3>3. deciding'[t].pc \in {"persist_mark", "next"}
        BY <1>3, <2>1, <2>3 DEF CloseAs
      <3> QED
        BY <1>1, <1>2, <2>2, <2>3, <3>2, <3>3 DEF IsOpen
    <2>4. CASE ~ IsOpen(rows, deciding[t].rid)
      BY <1>1, <1>2, <1>3, <2>1, <2>2, <2>4 DEF CloseAs
    <2> QED
      BY <2>3, <2>4
  <1>6. CASE PersistMark(t)
    BY <1>1, <1>2, <1>3, <1>6 DEF PersistMark, OperatorAt, environment
  <1>7. CASE ApplyRun(t)
    <2>1. PICK exit \in ScriptExits :
            deciding' = [deciding EXCEPT
               ![t].pc = IF exit = "raised" THEN "aborted" ELSE "settle",
               ![t].exit0 = ExitsZero(exit)]
      BY <1>7 DEF ApplyRun
    <2>2. /\ deciding'[t].pc = IF exit = "raised" THEN "aborted" ELSE "settle"
          /\ deciding'[t].rid = deciding[t].rid
      BY <1>1, <2>1 DEF TypeOK, Deciding
    <2> QED
      BY <1>1, <1>2, <1>7, <2>2 DEF ApplyRun, OperatorAt
  <1>8. CASE ApplySettle(t)
    BY <1>1, <1>2, <1>3, <1>8 DEF ApplySettle, OperatorAt, environment
  <1>9. CASE ApplyMark(t)
    BY <1>1, <1>2, <1>3, <1>9 DEF ApplyMark, OperatorAt, ApplyOutcomes, environment
  <1>10. CASE DecideFault(t)
    BY <1>1, <1>2, <1>3, <1>10 DEF DecideFault
  <1> QED
    BY <1>4, <1>5, <1>6, <1>7, <1>8, <1>9, <1>10

-------------------------------------------------------------------------------
\* What the sweep, time, other processes and restarts do.
LEMMA OtherSteps ==
  ASSUME IInv, [Next]_vars,
         ~ (\E t \in Filers : File(t)), ~ (\E t \in Operators : Decide(t))
  PROVE  \/ /\ crashes' = crashes + 1 /\ UNCHANGED <<rows, old, denylist, pushed, faults>>
            /\ window' = [w \in Containers \X Zones |-> None]
            /\ \A t \in Filers : filing'[t] = NotFiling
            /\ \A t \in Operators : deciding'[t] = NotDeciding
            /\ sweep' = NotSweeping
         \/ /\ UNCHANGED <<applying, filing, deciding, pushed, crashes>>
            /\ \/ /\ UNCHANGED <<rows, old, denylist, window, faults>>
                  /\ sweep' = sweep \/ sweep'.todo = Stale
               \/ /\ UNCHANGED <<old, denylist, window, faults>>
                  /\ sweep'.todo \subseteq sweep.todo
                  /\ \E id \in sweep.todo \cap Ids :
                        rows' = IF IsOpen(rows, id)
                                THEN [rows EXCEPT ![id] = Closed(rows[id], "stale", "sweep", "deny_stale")]
                                ELSE rows
               \/ /\ UNCHANGED <<rows, old, denylist, window>> /\ faults' = faults + 1
                  /\ sweep' = NotSweeping
               \/ /\ UNCHANGED <<rows, denylist, window, sweep, faults>>
                  /\ \E id \in Ids :
                        /\ IsOpen(rows, id) /\ old' = old \cup {id}
                        /\ \A t \in Filers : filing[t].rid = id => FilerAt(t, "hit")
               \/ /\ UNCHANGED <<rows, old, denylist, sweep, faults>>
                  /\ \E w \in Containers \X Zones : window' = [window EXCEPT ![w] = None]
               \/ /\ UNCHANGED <<rows, old, window, sweep, faults>>
                  /\ denylist' \subseteq denylist
  <1>1. CASE SweepStale
    <2>1. CASE SweepCollect
      BY <2>1 DEF SweepCollect, environment
    <2>2. ASSUME NEW id \in Ids, SweepClose(id)
          PROVE  /\ UNCHANGED <<applying, filing, deciding, pushed, crashes, old, denylist,
                                window, faults>>
                 /\ id \in sweep.todo /\ sweep'.todo \subseteq sweep.todo
                 /\ rows' = IF IsOpen(rows, id)
                            THEN [rows EXCEPT ![id] = Closed(rows[id], "stale", "sweep", "deny_stale")]
                            ELSE rows
      BY <2>2 DEF SweepClose, environment, NotSweeping, IInv, TypeOK, Sweep
    <2>3. CASE SweepFault
      BY <2>3 DEF SweepFault
    <2> QED
      BY <1>1, <2>1, <2>2, <2>3 DEF SweepStale
  <1>2. CASE \E id \in Ids : Age(id)
    BY <1>2 DEF Age
  <1>3. CASE \E w \in Containers \X Zones : WindowElapses(w)
    BY <1>3 DEF WindowElapses, environment
  <1>4. CASE \E e \in Entries : Undeny(e)
    BY <1>4 DEF Undeny, environment
  <1>5. CASE Restart
    BY <1>5 DEF Restart
  <1>6. CASE UNCHANGED vars
    BY <1>6 DEF vars
  <1> QED
    BY <1>1, <1>2, <1>3, <1>4, <1>5, <1>6 DEF Next
-------------------------------------------------------------------------------
\* What a thread, or what it leaves behind, relies on between two steps.

\* The sweep goes through rows that were filed and have grown old.
SweepKnows ==
    /\ sweep.todo \subseteq old
    /\ \A id \in old : rows[id].status # "absent"

\* The row a short-circuit has opened, and goes on to deny, is open, young, and
\* of the key that was asked for.
RecordKnows ==
    \A t \in Filers : FilerAt(t, "record_close") =>
        /\ IsOpen(rows, filing[t].rid)
        /\ rows[filing[t].rid].key = filing[t].key
        /\ filing[t].rid \notin old

IsDenial(id) == rows[id].status = "denied" /\ rows[id].by = "denylist"

\* WindowNamesDenial, with the key of the filing that is writing the denial.
WindowKnows ==
    faults = 0 => \A w \in Containers \X Zones : window[w] # None =>
        \/ \E t \in Filers : /\ filing[t].pc \in {"record", "record_close"}
                             /\ filing[t].rid = window[w]
                             /\ Container(filing[t].key) = w[1]
        \/ IsDenial(window[w]) /\ Container(rows[window[w]].key) = w[1]

\* OpenIsNotified, with the steps at which a filing still has the push to make
\* or is closing its row.
NotifyKnows ==
    faults = 0 /\ crashes = 0 => \A id \in Ids : IsOpen(rows, id) =>
        \/ id \in pushed
        \/ \E t \in Filers : /\ filing[t].pc \in {"notify", "push", "record_close"}
                             /\ filing[t].rid = id

\* Which operation a step belongs to, and where no candidates are left.
OpKnows ==
    \A t \in Operators :
        /\ deciding[t].pc \in {"add", "list"} => deciding[t].op = "persist"
        /\ deciding[t].pc = "apply" => deciding[t].op = "allow"
        /\ deciding[t].pc \in {"idle", "add", "reply"} => deciding[t].todo = {}

\* While no row is old, what was read under the lock holds until it is given up.
CalmKnows ==
    old = {} /\ faults = 0 =>
        /\ \A t \in Filers :
              /\ FilerAt(t, "hit") => IsOpen(rows, filing[t].rid)
              /\ FilerAt(t, "suppress") => IsDenial(filing[t].rid)
              /\ filing[t].answer # "error"
        /\ \A t \in Operators :
              deciding[t].pc \in OperatorHoldsLock => IsOpen(rows, deciding[t].rid)

NobodyAborts == old = {} /\ faults = 0 => \A t \in Operators : deciding[t].pc # "aborted"

\* A filing that goes on to insert its row found no entry covering it.  One that
\* was added since belongs to a persist_deny that has not listed its candidates:
\* it needs the lock for that.
InsertKnows ==
    old = {} /\ faults = 0 /\ crashes = 0 =>
    \A t \in Filers : FilerAt(t, "insert") =>
        \A e \in Matches(filing[t].key) :
            \E u \in Operators : /\ deciding[u].op = "persist" /\ deciding[u].entry = e
                                 /\ OperatorAt(u, "list")

HInv ==
    /\ IInv
    /\ SweepKnows /\ RecordKnows /\ WindowKnows /\ NotifyKnows /\ OpKnows /\ CalmKnows
    /\ InsertKnows /\ CoveredIsSwept

-------------------------------------------------------------------------------
\* A filing step starts a filing, or goes on with one.
LEMMA FileCases ==
  ASSUME IInv, NEW t \in Filers, File(t)
  PROVE  \/ filing[t].pc # "idle"
         \/ \E k \in Keys, id \in Ids : FileBegin(t, k, id)
  BY DEF File, FileHit, FileInsert, FileNotify, FilePush, FileRecordClose, FileSuppress,
         FileFault, FilerAt

\* Calm before the step if calm after it.
LEMMA Calm ==
  ASSUME IInv, [Next]_vars
  PROVE  /\ old \subseteq old'
         /\ faults' = 0 => faults = 0 /\ UNCHANGED faults
         /\ crashes' = 0 => crashes = 0 /\ UNCHANGED crashes
  <1>1. faults \in Nat /\ crashes \in Nat
    BY DEF IInv, TypeOK
  <1>2. ASSUME NEW t \in Filers, File(t)
        PROVE  UNCHANGED <<old, crashes>> /\ (faults' = faults \/ faults' = faults + 1)
    <2>1. UNCHANGED <<old, crashes>>
      BY <1>2, FileSteps
    <2>2. CASE filing[t].pc # "idle"
      BY <1>2, <2>1, <2>2, FileGoes
    <2>3. CASE \E k \in Keys, id \in Ids : FileBegin(t, k, id)
      BY <2>1, <2>3, FileBegins
    <2> QED
      BY <1>2, <2>2, <2>3, FileCases
  <1>3. ASSUME NEW t \in Operators, Decide(t)
        PROVE  UNCHANGED <<old, crashes>> /\ (faults' = faults \/ faults' = faults + 1)
    BY <1>3, DecideCases, DecideSteps, DecideTurns, DecideTakes, DecideWorks
  <1>4. CASE ~ (\E t \in Filers : File(t)) /\ ~ (\E t \in Operators : Decide(t))
    BY <1>1, <1>4, OtherSteps
  <1> QED
    BY <1>1, <1>2, <1>3, <1>4

\* The sweep still goes through old rows: they are never unfiled.
LEMMA SweepStep ==
  ASSUME IInv, SweepKnows, [Next]_vars
  PROVE  SweepKnows'
  <1>1. \A id \in Ids : rows[id].status # "absent" => rows'[id].status # "absent"
    BY RowsEvolve
  <1>2. old \subseteq Ids
    BY DEF IInv, TypeOK
  <1>3. ASSUME UNCHANGED <<old, sweep>>
        PROVE  SweepKnows'
    BY <1>1, <1>2, <1>3 DEF SweepKnows
  <1>4. CASE ~ (\E t \in Filers : File(t)) /\ ~ (\E t \in Operators : Decide(t))
    <2>1. NotSweeping.todo = {} /\ Stale \subseteq old
      BY DEF NotSweeping, Stale
    <2>2. \A id \in Ids : IsOpen(rows, id) => rows[id].status # "absent"
      BY DEF IsOpen
    <2> QED
      BY <1>1, <1>2, <1>4, <2>1, <2>2, OtherSteps DEF SweepKnows
  <1> QED
    BY <1>3, <1>4, FileSteps, DecideSteps

\* An operator changes the status of a row only by closing it.
LEMMA DecideCloses ==
  ASSUME IInv, NEW t \in Operators, Decide(t), NEW id \in Ids,
         rows'[id].status # rows[id].status
  PROVE  /\ deciding[t].pc \in {"deny_close", "allow_close"} /\ deciding[t].rid = id
         /\ IsOpen(rows, id) /\ ~ IsOpen(rows', id)
  <1>1. ASSUME NEW j \in Ids, Marks(j) PROVE FALSE
    BY <1>1, MarksKeepRow DEF IInv
  <1>2. Works(t) /\ deciding[t].rid \in Ids
    BY DecideCases, DecideTurns, DecideTakes, DecideWorks
  <1>3. \A outcome \in ApplyOutcomes :
          ~ Rewrites(deciding[t].rid, ApplyMarked(rows[deciding[t].rid], outcome))
    BY <1>1, <1>2 DEF Rewrites, Marks
  <1>4. ~ Rewrites(deciding[t].rid, PersistMarked(rows[deciding[t].rid], "persisted"))
    BY <1>1, <1>2 DEF Rewrites, Marks, PersistOutcomes
  <1>5. "ip_requires_cidr" \in ApplyOutcomes
    BY DEF ApplyOutcomes
  <1> QED
    BY <1>2, <1>3, <1>4, <1>5, DecideWorks

\* A young row is closed by the holder of the lock only.
LEMMA HolderCloses ==
  ASSUME IInv, SweepKnows, [Next]_vars, NEW id \in Ids, id \notin old,
         IsOpen(rows, id), ~ IsOpen(rows', id)
  PROVE  \/ \E t \in Filers :
               File(t) /\ FilerAt(t, "record_close") /\ filing[t].rid = id /\ lock = t
         \/ \E t \in Operators :
               /\ Decide(t) /\ deciding[t].pc \in {"deny_close", "allow_close"}
               /\ deciding[t].rid = id /\ lock = t
  <1>1. rows \in [Ids -> Row]
    BY DEF IInv, TypeOK
  <1>2. ASSUME NEW t \in Filers, File(t)
        PROVE  FilerAt(t, "record_close") /\ filing[t].rid = id /\ lock = t
    <2>1. filing[t].pc # "idle"
      <3>1. \A k \in Keys, j \in Ids : ~ FileBegin(t, k, j)
        BY FileBegins
      <3> QED
        BY <1>2, <3>1, FileCases
    <2>2. filing[t].pc \in {"insert", "record"} => rows[filing[t].rid].status = "absent"
      BY DEF IInv, FilerKnows
    <2>3. filing[t].pc = "record_close" /\ filing[t].rid = id
      BY <1>1, <1>2, <2>1, <2>2, FileGoes DEF IsOpen
    <2> QED
      BY <2>3 DEF FilerAt, IInv, LockIsHeldByOne, FilerHoldsLock
  <1>3. ASSUME NEW t \in Operators, Decide(t)
        PROVE  /\ deciding[t].pc \in {"deny_close", "allow_close"}
               /\ deciding[t].rid = id /\ lock = t
    <2>1. deciding[t].pc \in {"deny_close", "allow_close"} /\ deciding[t].rid = id
      BY <1>3, DecideCloses DEF IsOpen
    <2> QED
      BY <2>1 DEF IInv, LockIsHeldByOne, OperatorHoldsLock
  <1>4. CASE ~ (\E t \in Filers : File(t)) /\ ~ (\E t \in Operators : Decide(t))
    BY <1>1, <1>4, OtherSteps DEF SweepKnows, IsOpen
  <1> QED
    BY <1>2, <1>3, <1>4

\* Who steps, if a filer is not where it was.
LEMMA FilerStays ==
  ASSUME IInv, [Next]_vars, NEW t \in Filers
  PROVE  \/ filing'[t] = filing[t]
         \/ File(t)
         \/ /\ filing'[t] = NotFiling /\ crashes' = crashes + 1
            /\ window' = [w \in Containers \X Zones |-> None]
  <1>1. CASE \E u \in Filers : File(u)
    BY <1>1, FileSteps
  <1>2. CASE \E u \in Operators : Decide(u)
    BY <1>2, DecideSteps
  <1>3. CASE ~ (\E u \in Filers : File(u)) /\ ~ (\E u \in Operators : Decide(u))
    BY <1>3, OtherSteps
  <1> QED
    BY <1>1, <1>2, <1>3

\* Who steps, if an operator is not where it was.
LEMMA OperatorStays ==
  ASSUME IInv, [Next]_vars, NEW t \in Operators
  PROVE  \/ deciding'[t] = deciding[t]
         \/ Decide(t)
         \/ deciding'[t] = NotDeciding /\ crashes' = crashes + 1
  <1>1. CASE \E u \in Filers : File(u)
    BY <1>1, FileSteps
  <1>2. CASE \E u \in Operators : Decide(u)
    BY <1>2, DecideSteps
  <1>3. CASE ~ (\E u \in Filers : File(u)) /\ ~ (\E u \in Operators : Decide(u))
    BY <1>3, OtherSteps
  <1> QED
    BY <1>1, <1>2, <1>3

\* A thread that has ended.
LEMMA Ended ==
  /\ NotFiling.pc = "idle" /\ NotFiling.answer = "none"
  /\ \A a : FilingEnded(a).pc = "idle" /\ FilingEnded(a).answer = a
  /\ NotDeciding.pc = "idle" /\ NotDeciding.op = "none"
  BY DEF NotFiling, FilingEnded, NotDeciding, DecidingStarts

\* The row that is being denied is closed by its own filing: the sweep leaves young
\* rows alone and everybody else needs the lock.
LEMMA RecordStep ==
  ASSUME IInv, SweepKnows, RecordKnows, [Next]_vars
  PROVE  RecordKnows'
  <1> SUFFICES ASSUME NEW t \in Filers, FilerAt(t, "record_close")'
               PROVE  /\ IsOpen(rows, filing[t].rid)'
                      /\ (rows[filing[t].rid].key = filing[t].key)'
                      /\ (filing[t].rid \notin old)'
    BY DEF RecordKnows
  <1> DEFINE id == filing[t].rid
  <1>1. CASE File(t)
    <2>1. filing[t].pc = "record" /\ id \in Ids /\ filing[t].key \in Keys
          /\ filing'[t].rid = id /\ filing'[t].key = filing[t].key
          /\ rows' = [rows EXCEPT ![id] = Opened(filing[t].key)]
      <3>1. filing[t].pc # "idle"
        <4>1. ASSUME NEW k \in Keys, NEW j \in Ids, FileBegin(t, k, j) PROVE FALSE
          BY <4>1, FileBegins DEF FilerAt, FilingOf
        <4> QED
          BY <1>1, <4>1, FileCases
      <3> QED
        BY <1>1, <3>1, FileGoes DEF FilerAt, FilingOf, FilingEnds
    <2>2. rows'[id] = Opened(filing[t].key) /\ rows[id].status = "absent"
      BY <2>1 DEF IInv, TypeOK, FilerKnows
    <2>3. id \notin old /\ UNCHANGED old
      BY <1>1, <2>2, FileSteps DEF SweepKnows
    <2> QED
      BY <2>1, <2>2, <2>3, RowOpened DEF IsOpen
  <1>2. CASE filing'[t] = filing[t]
    <2>1. /\ FilerAt(t, "record_close") /\ IsOpen(rows, id) /\ rows[id].key = filing[t].key
          /\ id \notin old /\ id \in Ids /\ lock = t
      BY <1>2 DEF RecordKnows, FilerAt, IInv, FilerKnows, LockIsHeldByOne, FilerHoldsLock
    <2>2. rows'[id].key = rows[id].key
      BY <2>1, RowsEvolve DEF IsOpen
    <2>3. id \notin old'
      <3>1. CASE ~ (\E u \in Filers : File(u)) /\ ~ (\E u \in Operators : Decide(u))
        BY <2>1, <3>1, OtherSteps DEF FilerAt
      <3> QED
        BY <2>1, <3>1, FileSteps, DecideSteps
    <2>4. IsOpen(rows', id)
      <3> SUFFICES ASSUME ~ IsOpen(rows', id) PROVE FALSE
        OBVIOUS
      <3>1. File(t)
        BY <2>1, HolderCloses, BrokerAssumption
      <3> QED
        BY <1>2, <2>1, <3>1, FileGoes DEF FilerAt, FilingOf, FilingEnds
    <2> QED
      BY <1>2, <2>1, <2>2, <2>3, <2>4
  <1> QED
    BY <1>1, <1>2, FilerStays, Ended DEF FilerAt

\* Only a filing opens a row.
LEMMA FilerOpens ==
  ASSUME IInv, [Next]_vars, NEW id \in Ids, ~ IsOpen(rows, id), IsOpen(rows', id)
  PROVE  \E t \in Filers :
            /\ File(t) /\ filing[t].rid = id /\ faults' = faults
            /\ \/ FilerAt(t, "insert") /\ FilerAt(t, "notify")'
               \/ FilerAt(t, "record") /\ FilerAt(t, "record_close")'
            /\ filing'[t].rid = id /\ rows'[id].key = filing[t].key
  <1>1. rows \in [Ids -> Row] /\ rows[id].status = "absent"
    BY RowsEvolve DEF IInv, TypeOK, IsOpen
  <1>2. ASSUME NEW t \in Filers, File(t), filing[t].pc # "idle"
        PROVE  /\ filing[t].rid = id /\ faults' = faults
               /\ \/ FilerAt(t, "insert") /\ FilerAt(t, "notify")'
                  \/ FilerAt(t, "record") /\ FilerAt(t, "record_close")'
               /\ filing'[t].rid = id /\ rows'[id].key = filing[t].key
    <2>1. \A r : rows' = [rows EXCEPT ![filing[t].rid] = r] => filing[t].rid = id /\ rows'[id] = r
      BY <1>1 DEF IsOpen
    <2>2. filing[t].rid \in Ids => DenylistDenial(rows[filing[t].rid]).status # "open"
      BY <1>1 DEF DenylistDenial, Closed, Row
    <2>3. filing[t].key \in Keys => Opened(filing[t].key).key = filing[t].key
      BY RowOpened
    <2> QED
      BY <1>2, <2>1, <2>2, <2>3, FileGoes DEF FilerAt, FilingOf, IsOpen
  <1>3. ASSUME NEW t \in Operators, Decide(t) PROVE FALSE
    BY <1>3, DecideCloses DEF IsOpen
  <1>4. CASE ~ (\E t \in Filers : File(t)) /\ ~ (\E t \in Operators : Decide(t))
    BY <1>1, <1>4, OtherSteps DEF IsOpen
  <1>5. ASSUME NEW t \in Filers, File(t) PROVE filing[t].pc # "idle"
    BY <1>5, FileCases, FileBegins
  <1> QED
    BY <1>2, <1>3, <1>4, <1>5

\* A window entry is written with the filing that goes on to record the denial; that
\* filing ends by denying the row, and a denied row stays denied.
LEMMA WindowStep ==
  ASSUME IInv, RecordKnows, WindowKnows, [Next]_vars
  PROVE  WindowKnows'
  <1> SUFFICES ASSUME faults' = 0, NEW w \in Containers \X Zones, window'[w] # None
               PROVE  \/ \E t \in Filers : /\ filing'[t].pc \in {"record", "record_close"}
                                           /\ filing'[t].rid = window'[w]
                                           /\ Container(filing'[t].key) = w[1]
                      \/ IsDenial(window[w])' /\ Container(rows'[window'[w]].key) = w[1]
    BY DEF WindowKnows
  <1>1. faults = 0 /\ faults' = faults
    BY Calm
  <1>2. TypeOK /\ window \in [Containers \X Zones -> Ids \cup {None}]
    BY DEF IInv, TypeOK
  <1>3. ASSUME window'[w] = window[w], IsDenial(window[w]), Container(rows[window[w]].key) = w[1]
        PROVE  IsDenial(window[w])' /\ Container(rows'[window'[w]].key) = w[1]
    <2>1. window[w] \in Ids
      BY <1>2, <1>3
    <2> QED
      BY <1>3, <2>1, RowsEvolve DEF IsDenial, Decided, CloseStatuses
  <1>4. CASE window'[w] # window[w]
    <2>1. ASSUME NEW t \in Filers, File(t)
          PROVE  /\ filing'[t].pc \in {"record", "record_close"}
                 /\ filing'[t].rid = window'[w]
                 /\ Container(filing'[t].key) = w[1]
      <3>1. filing[t].pc = "idle"
        BY <1>4, <2>1, FileGoes
      <3>2. PICK k \in Keys, id \in Ids : FileBegin(t, k, id)
        BY <2>1, <3>1, FileCases
      <3>3. PICK v \in Containers \X Zones :
              /\ v[1] = Container(k) /\ window' = [window EXCEPT ![v] = id]
              /\ FilingOf(t, "record", k, id, "none")
        BY <1>4, <3>2, FileBegins
      <3>4. v = w /\ window'[w] = id
        BY <1>2, <1>4, <3>3
      <3> QED
        BY <3>3, <3>4 DEF FilingOf
    <2>2. \E t \in Filers : File(t)
      <3>1. CASE \E t \in Operators : Decide(t)
        BY <1>4, <3>1, DecideSteps
      <3>2. CASE ~ (\E t \in Filers : File(t)) /\ ~ (\E t \in Operators : Decide(t))
        BY <1>2, <1>4, <3>2, OtherSteps
      <3> QED
        BY <3>1, <3>2
    <2> QED
      BY <2>1, <2>2
  <1>5. CASE window'[w] = window[w]
    <2>1. ASSUME NEW t \in Filers, filing[t].pc \in {"record", "record_close"},
                 filing[t].rid = window[w], Container(filing[t].key) = w[1]
          PROVE  \/ /\ filing'[t].pc \in {"record", "record_close"}
                    /\ filing'[t].rid = window'[w]
                    /\ Container(filing'[t].key) = w[1]
                 \/ IsDenial(window[w])' /\ Container(rows'[window'[w]].key) = w[1]
      <3>1. CASE filing'[t] = filing[t]
        BY <1>5, <2>1, <3>1
      <3>2. CASE window' = [v \in Containers \X Zones |-> None]
        BY <3>2
      <3>3. CASE File(t) /\ FilerAt(t, "record")
        BY <1>1, <1>5, <2>1, <3>3, FileGoes DEF FilingOf, FilerAt
      <3>4. CASE File(t) /\ FilerAt(t, "record_close")
        <4> DEFINE id == filing[t].rid
        <4>1. id \in Ids /\ rows' = [rows EXCEPT ![id] = DenylistDenial(rows[id])]
          BY <1>1, <3>4, FileGoes DEF FilerAt
        <4>2. rows \in [Ids -> Row] /\ rows[id].key = filing[t].key
          BY <1>2, <3>4 DEF TypeOK, RecordKnows
        <4>3. /\ DenylistDenial(rows[id]).status = "denied"
              /\ DenylistDenial(rows[id]).by = "denylist"
              /\ DenylistDenial(rows[id]).key = rows[id].key
          <5>1. rows[id] \in Row
            BY <4>1, <4>2
          <5> QED
            BY <5>1, RowClosed DEF DenylistDenial, CloseStatuses, DecidedBy, Bodies
        <4> QED
          BY <1>5, <2>1, <4>1, <4>2, <4>3 DEF IsDenial
      <3> QED
        BY <2>1, <3>1, <3>2, <3>3, <3>4, FilerStays DEF FilerAt
    <2> QED
      BY <1>1, <1>3, <1>5, <2>1 DEF WindowKnows
  <1> QED
    BY <1>4, <1>5

\* The filing that opens a row pushes it, or denies it.
LEMMA NotifyStep ==
  ASSUME IInv, RecordKnows, NotifyKnows, [Next]_vars
  PROVE  NotifyKnows'
  <1> SUFFICES ASSUME faults' = 0, crashes' = 0, NEW id \in Ids, IsOpen(rows', id)
               PROVE  \/ id \in pushed'
                      \/ \E t \in Filers :
                           /\ filing'[t].pc \in {"notify", "push", "record_close"}
                           /\ filing'[t].rid = id
    BY DEF NotifyKnows
  <1>1. faults = 0 /\ faults' = faults /\ crashes = 0 /\ crashes' = crashes
    BY Calm
  <1>2. CASE ~ IsOpen(rows, id)
    BY <1>2, FilerOpens DEF FilerAt
  <1>3. CASE IsOpen(rows, id) /\ id \in pushed
    <2>1. ASSUME NEW t \in Filers, File(t) PROVE pushed \subseteq pushed'
      <3>1. CASE filing[t].pc # "idle"
        BY <2>1, <3>1, FileGoes
      <3>2. CASE \E k \in Keys, j \in Ids : FileBegin(t, k, j)
        BY <3>2, FileBegins
      <3> QED
        BY <2>1, <3>1, <3>2, FileCases
    <2>2. CASE \E t \in Operators : Decide(t)
      BY <1>3, <2>2, DecideSteps
    <2>3. CASE ~ (\E t \in Filers : File(t)) /\ ~ (\E t \in Operators : Decide(t))
      BY <1>3, <2>3, OtherSteps
    <2> QED
      BY <1>3, <2>1, <2>2, <2>3
  <1>4. ASSUME IsOpen(rows, id), NEW t \in Filers,
               filing[t].pc \in {"notify", "push", "record_close"}, filing[t].rid = id
        PROVE  \/ id \in pushed'
               \/ /\ filing'[t].pc \in {"notify", "push", "record_close"}
                  /\ filing'[t].rid = id
    <2>1. CASE filing'[t] = filing[t]
      BY <1>4, <2>1
    <2>2. CASE File(t)
      <3>1. faults' # faults + 1
        BY <1>1
      <3>2. CASE filing[t].pc = "record_close"
        <4>1. rows' = [rows EXCEPT ![id] = DenylistDenial(rows[id])]
          BY <1>4, <2>2, <3>1, <3>2, FileGoes
        <4>2. rows \in [Ids -> Row]
          BY DEF IInv, TypeOK
        <4>3. DenylistDenial(rows[id]).status # "open"
          BY <4>2 DEF DenylistDenial, Closed, Row
        <4> QED
          BY <4>1, <4>2, <4>3 DEF IsOpen
      <3> QED
        BY <1>4, <2>2, <3>1, <3>2, FileGoes DEF FilingOf
    <2> QED
      BY <1>1, <2>1, <2>2, FilerStays
  <1> QED
    BY <1>1, <1>2, <1>3, <1>4 DEF NotifyKnows

LEMMA OpStep ==
  ASSUME IInv, OpKnows, [Next]_vars
  PROVE  OpKnows'
  <1> SUFFICES ASSUME NEW t \in Operators
               PROVE  /\ deciding'[t].pc \in {"add", "list"} => deciding'[t].op = "persist"
                      /\ deciding'[t].pc = "apply" => deciding'[t].op = "allow"
                      /\ deciding'[t].pc \in {"idle", "add", "reply"} => deciding'[t].todo = {}
    BY DEF OpKnows
  <1>1. CASE deciding'[t] = deciding[t]
    BY <1>1 DEF OpKnows
  <1>2. CASE deciding'[t] = NotDeciding
    BY <1>2 DEF NotDeciding, DecidingStarts
  <1>3. CASE Turns(t)
    BY <1>3, DecideTurns DEF OpKnows
  <1>4. CASE \E id \in Ids : DecideNext(t, id)
    BY <1>4, DecideTakes
  <1>5. CASE Works(t)
    BY <1>5, DecideWorks
  <1> QED
    BY <1>1, <1>2, <1>3, <1>4, <1>5, OperatorStays, DecideCases

\* What the holder of the lock found open stays open while no row is old.
LEMMA HeldStaysOpen ==
  ASSUME IInv, SweepKnows, [Next]_vars, old = {}, NEW id \in Ids, IsOpen(rows, id)
  PROVE  /\ \A t \in Filers :
              lock = t /\ ~ (File(t) /\ FilerAt(t, "record_close")) => IsOpen(rows', id)
         /\ \A t \in Operators :
              lock = t /\ ~ (Decide(t) /\ deciding[t].pc \in {"deny_close", "allow_close"})
              => IsOpen(rows', id)
  BY HolderCloses, BrokerAssumption

\* A filing that works on a row has the lock, so nobody closes it; the window named
\* a denial when the lock was free.
LEMMA CalmFilers ==
  ASSUME IInv, SweepKnows, WindowKnows, CalmKnows, [Next]_vars, old' = {}, faults' = 0,
         NEW t \in Filers
  PROVE  /\ FilerAt(t, "hit")' => IsOpen(rows, filing[t].rid)'
         /\ FilerAt(t, "suppress")' => IsDenial(filing[t].rid)'
         /\ (filing[t].answer # "error")'
  <1>1. old = {} /\ faults = 0 /\ faults' = faults
    BY Calm
  <1>2. TypeOK /\ window \in [Containers \X Zones -> Ids \cup {None}]
    BY DEF IInv, TypeOK
  <1>3. CASE filing'[t] = filing[t]
    <2>1. filing[t].pc # "idle" => filing[t].rid \in Ids
      BY DEF IInv, FilerKnows
    <2>2. ASSUME FilerAt(t, "hit") PROVE IsOpen(rows', filing[t].rid)
      <3>1. lock = t /\ IsOpen(rows, filing[t].rid)
        BY <1>1, <2>2 DEF IInv, LockIsHeldByOne, FilerHoldsLock, CalmKnows, FilerAt
      <3> QED
        BY <1>1, <2>1, <2>2, <3>1, HeldStaysOpen DEF FilerAt
    <2>3. ASSUME FilerAt(t, "suppress") PROVE IsDenial(filing[t].rid)'
      <3>1. IsDenial(filing[t].rid) /\ filing[t].rid \in Ids
        BY <1>1, <2>1, <2>3 DEF CalmKnows, FilerAt
      <3> QED
        BY <1>3, <3>1, RowsEvolve DEF IsDenial, Decided, CloseStatuses
    <2> QED
      BY <1>1, <1>3, <2>2, <2>3 DEF FilerAt, CalmKnows
  <1>4. CASE filing'[t] = NotFiling
    BY <1>4 DEF NotFiling, FilingEnded, FilerAt
  <1>5. CASE File(t) /\ filing[t].pc # "idle"
    <2>1. faults' # faults + 1
      BY <1>1
    <2>2. /\ filing[t].pc = "hit" => IsOpen(rows, filing[t].rid)
          /\ filing[t].pc = "suppress" => IsDenial(filing[t].rid)
          /\ filing[t].answer # "error"
      BY <1>1 DEF CalmKnows, FilerAt
    <2> QED
      BY <1>5, <2>1, <2>2, FileGoes DEF FilingOf, FilingEnds, FilerAt, IsDenial
  <1>6. ASSUME NEW k \in Keys, NEW id \in Ids, FileBegin(t, k, id)
        PROVE  /\ FilerAt(t, "hit")' => IsOpen(rows, filing[t].rid)'
               /\ FilerAt(t, "suppress")' => IsDenial(filing[t].rid)'
               /\ (filing[t].answer # "error")'
    <2>1. lock = None /\ rows' = rows
      BY <1>6, FileBegins
    <2>2. \A u \in Filers : filing[u].pc \notin {"record", "record_close"}
      BY <2>1, BrokerAssumption DEF IInv, LockIsHeldByOne, FilerHoldsLock
    <2>3. \A w \in Containers \X Zones : window[w] \in Ids => IsDenial(window[w])
      BY <1>1, <2>2, BrokerAssumption DEF WindowKnows
    <2> QED
      BY <1>6, <2>1, <2>3, FileBegins DEF FilingOf, FilerAt, IsDenial, IsOpen
  <1> QED
    BY <1>3, <1>4, <1>5, <1>6, FilerStays, FileCases

\* So has an operator that goes on to write the row it found open.
LEMMA CalmOperators ==
  ASSUME IInv, SweepKnows, CalmKnows, [Next]_vars, old' = {}, faults' = 0,
         NEW t \in Operators, (deciding[t].pc \in OperatorHoldsLock)'
  PROVE  IsOpen(rows, deciding[t].rid)'
  <1>1. old = {} /\ faults = 0 /\ faults' = faults
    BY Calm
  <1>2. \A id \in Ids : rows[id] \in Row
    BY DEF IInv, TypeOK
  <1>3. deciding'[t].pc \in {"ip_mark", "deny_close", "apply_mark", "allow_close"}
    BY DEF OperatorHoldsLock
  <1>4. CASE deciding'[t] = deciding[t]
    <2>1. lock = t /\ IsOpen(rows, deciding[t].rid) /\ deciding[t].rid \in Ids
      BY <1>1, <1>4 DEF IInv, LockIsHeldByOne, CalmKnows, OperatorKnows
    <2>2. ~ (Decide(t) /\ deciding[t].pc \in {"deny_close", "allow_close"})
      <3>1. ASSUME Decide(t), deciding[t].pc \in {"deny_close", "allow_close"} PROVE FALSE
        <4>1. Works(t)
          BY <3>1, DecideCases, DecideTurns, DecideTakes
        <4> QED
          BY <1>1, <1>4, <3>1, <4>1, DecideWorks
      <3> QED
        BY <3>1
    <2> QED
      BY <1>1, <1>4, <2>1, <2>2, HeldStaysOpen
  <1>5. CASE deciding'[t] = NotDeciding
    BY <1>3, <1>5 DEF NotDeciding, DecidingStarts
  <1>6. CASE Turns(t)
    BY <1>3, <1>6, DecideTurns
  <1>7. CASE \E id \in Ids : DecideNext(t, id)
    BY <1>3, <1>7, DecideTakes DEF IsOpen
  <1>8. CASE Works(t)
    <2>1. deciding[t].pc \in {"settle", "apply_mark"} /\ deciding'[t].rid = deciding[t].rid
      BY <1>1, <1>3, <1>8, DecideWorks
    <2>2. deciding[t].rid \in Ids
      BY <1>8, DecideWorks
    <2>3. CASE deciding[t].pc = "settle"
      BY <1>3, <1>8, <2>1, <2>3, DecideWorks DEF IsOpen
    <2>4. CASE deciding[t].pc = "apply_mark"
      <3>1. IsOpen(rows, deciding[t].rid)
        BY <1>1, <2>4 DEF CalmKnows, OperatorHoldsLock
      <3>2. PICK outcome \in ApplyOutcomes :
              Rewrites(deciding[t].rid, ApplyMarked(rows[deciding[t].rid], outcome))
        BY <1>1, <1>8, <2>4, <1>3, DecideWorks
      <3>3. Marks(deciding[t].rid)
        BY <3>2 DEF Marks, Rewrites
      <3> QED
        BY <2>1, <2>2, <3>1, <3>3, MarksKeepRow DEF IInv, IsOpen
    <2> QED
      BY <2>1, <2>3, <2>4
  <1> QED
    BY <1>4, <1>5, <1>6, <1>7, <1>8, OperatorStays, DecideCases

LEMMA CalmStep ==
  ASSUME IInv, SweepKnows, WindowKnows, CalmKnows, [Next]_vars
  PROVE  CalmKnows'
  BY CalmFilers, CalmOperators DEF CalmKnows

\* An operator dies when it finds its row closed, or its script raises.
LEMMA AbortStep ==
  ASSUME IInv, CalmKnows, NobodyAborts, ScriptsEnd, [Next]_vars
  PROVE  NobodyAborts'
  <1> SUFFICES ASSUME old' = {}, faults' = 0, NEW t \in Operators
               PROVE  deciding'[t].pc # "aborted"
    BY DEF NobodyAborts
  <1>1. old = {} /\ faults = 0 /\ faults' = faults
    BY Calm
  <1>2. CASE deciding'[t] = deciding[t]
    BY <1>1, <1>2 DEF NobodyAborts
  <1>3. CASE deciding'[t] = NotDeciding
    BY <1>3 DEF NotDeciding, DecidingStarts
  <1>4. CASE Turns(t)
    BY <1>4, DecideTurns
  <1>5. CASE \E id \in Ids : DecideNext(t, id)
    BY <1>5, DecideTakes
  <1>6. CASE Works(t)
    <2>1. deciding[t].pc \in {"deny_close", "allow_close"} => IsOpen(rows, deciding[t].rid)
      BY <1>1 DEF CalmKnows, OperatorHoldsLock
    <2> QED
      BY <1>1, <1>6, <2>1, DecideWorks DEF ScriptsEnd
  <1> QED
    BY <1>2, <1>3, <1>4, <1>5, <1>6, OperatorStays, DecideCases

\* An entry that covers the row of a filing is added after the filing looked, and
\* its persist_deny waits for the lock.
LEMMA InsertStep ==
  ASSUME IInv, OpKnows, InsertKnows, [Next]_vars
  PROVE  InsertKnows'
  <1> SUFFICES ASSUME old' = {}, faults' = 0, crashes' = 0,
                      NEW t \in Filers, filing'[t].pc = "insert",
                      NEW e \in Matches(filing[t].key)'
               PROVE  \E u \in Operators : /\ deciding'[u].op = "persist" /\ deciding'[u].entry = e
                                           /\ deciding'[u].pc = "list"
    BY DEF InsertKnows, FilerAt, OperatorAt
  <1>1. /\ old = {} /\ faults = 0 /\ faults' = faults /\ crashes = 0 /\ crashes' = crashes
    BY Calm
  <1>2. e \in denylist' /\ CoversKey(e, filing'[t].key)
    BY DEF Matches, CoversKey
  <1>3. CASE File(t)
    <2>1. UNCHANGED denylist
      BY <1>3, FileSteps
    <2>2. CASE filing[t].pc # "idle"
      BY <1>1, <1>3, <2>2, FileGoes DEF FilingOf, FilingEnds
    <2>3. ASSUME NEW k \in Keys, NEW id \in Ids, FileBegin(t, k, id)
          PROVE  FALSE
      <3>1. filing'[t].key = k /\ Matches(k) = {}
        BY <2>3, FileBegins DEF FilingOf
      <3> QED
        BY <1>2, <2>1, <3>1 DEF Matches
    <2> QED
      BY <1>3, <2>2, <2>3, FileCases
  <1>4. CASE filing'[t] = filing[t]
    <2>1. filing[t].pc = "insert" /\ lock = t /\ lock # None
      BY <1>4, BrokerAssumption DEF IInv, LockIsHeldByOne, FilerHoldsLock
    <2>2. CASE e \in denylist
      <3>1. e \in Matches(filing[t].key)
        BY <1>2, <1>4, <2>2 DEF Matches
      <3>2. PICK u \in Operators : /\ deciding[u].op = "persist" /\ deciding[u].entry = e
                                   /\ deciding[u].pc = "list"
        BY <1>1, <2>1, <3>1 DEF InsertKnows, FilerAt, OperatorAt
      <3>3. ~ Turns(u)
        BY <2>1, <3>2, DecideTurns
      <3>4. ~ (\E id \in Ids : DecideNext(u, id)) /\ ~ Works(u)
        BY <3>2, <1>1, DecideTakes, DecideWorks
      <3> QED
        BY <1>1, <3>2, <3>3, <3>4, OperatorStays, DecideCases
    <2>3. CASE e \notin denylist
      <3>1. ASSUME NEW u \in Operators, Decide(u)
            PROVE  /\ deciding'[u].op = "persist" /\ deciding'[u].entry = e
                   /\ deciding'[u].pc = "list"
        <4>1. Turns(u)
          BY <1>2, <2>3, <3>1, DecideCases, DecideTakes, DecideWorks
        <4> QED
          BY <1>2, <2>3, <4>1, DecideTurns DEF OpKnows
      <3>2. CASE \E u \in Filers : File(u)
        BY <1>2, <2>3, <3>2, FileSteps
      <3>3. CASE ~ (\E u \in Filers : File(u)) /\ ~ (\E u \in Operators : Decide(u))
        BY <1>2, <2>3, <3>3, OtherSteps
      <3> QED
        BY <3>1, <3>2, <3>3
    <2> QED
      BY <2>2, <2>3
  <1> QED
    BY <1>1, <1>3, <1>4, FilerStays

\* An operator at work on a request leaves it in flight, settled, tried or closed.
LEMMA SettlingStep ==
  ASSUME IInv, OpKnows, [Next]_vars, faults' = 0, crashes' = 0,
         NEW id \in Ids, IsOpen(rows, id), IsOpen(rows', id),
         id \in applying \/ BeingSettled(id)
  PROVE  id \in applying' \/ rows'[id].tries > 0 \/ BeingSettled(id)'
  <1>1. faults = 0 /\ faults' = faults /\ crashes' = crashes /\ crashes = 0
    BY Calm
  <1>2. \A j \in Ids : rows[j] \in Row
    BY DEF IInv, TypeOK
  <1>3. CASE id \in applying
    <2> SUFFICES ASSUME id \notin applying' PROVE BeingSettled(id)'
      OBVIOUS
    <2>1. ASSUME NEW t \in Operators, Decide(t) PROVE BeingSettled(id)'
      <3>1. Works(t) /\ deciding[t].pc = "settle" /\ deciding[t].rid = id
        BY <1>3, <2>1, DecideCases, DecideTurns, DecideTakes, DecideWorks
      <3>2. deciding'[t].pc = "apply_mark" /\ deciding'[t].rid = id
        BY <1>1, <3>1, DecideWorks
      <3> QED
        BY <3>2 DEF BeingSettled
    <2>2. CASE \E t \in Filers : File(t)
      BY <1>3, <2>2, FileSteps
    <2>3. CASE ~ (\E t \in Filers : File(t)) /\ ~ (\E t \in Operators : Decide(t))
      BY <1>1, <1>3, <2>3, OtherSteps
    <2> QED
      BY <2>1, <2>2, <2>3
  <1>4. ASSUME NEW t \in Operators, deciding[t].pc \in {"apply_mark", "allow_close"},
               deciding[t].rid = id
        PROVE  rows'[id].tries > 0 \/ BeingSettled(id)'
    <2>1. CASE deciding'[t] = deciding[t]
      BY <1>4, <2>1 DEF BeingSettled
    <2>2. CASE Decide(t)
      <3>1. Works(t)
        BY <1>4, <2>2, DecideCases, DecideTurns, DecideTakes
      <3>2. CASE deciding[t].pc = "allow_close"
        BY <1>1, <1>4, <3>1, <3>2, DecideWorks
      <3>3. CASE deciding[t].pc = "apply_mark"
        <4>1. PICK outcome \in ApplyOutcomes : Rewrites(id, ApplyMarked(rows[id], outcome))
          BY <1>1, <1>4, <3>1, <3>3, DecideWorks
        <4>2. ApplyMarked(rows[id], outcome).tries = rows[id].tries + 1
          <5>1. rows[id] \in Row
            BY <1>2
          <5> QED
            BY <5>1 DEF ApplyMarked, Row
        <4>3. rows'[id].tries = rows[id].tries + 1 /\ rows[id].tries \in Nat
          BY <1>2, <4>1, <4>2 DEF Rewrites, IInv, TypeOK, Row
        <4> QED
          BY <4>3
      <3> QED
        BY <1>4, <3>2, <3>3
    <2> QED
      BY <1>1, <2>1, <2>2, OperatorStays
  <1> QED
    BY <1>3, <1>4 DEF BeingSettled

\* The short-circuit closes the row it is denying.
LEMMA DenyingStep ==
  ASSUME IInv, [Next]_vars, faults' = 0, crashes' = 0,
         NEW id \in Ids, IsOpen(rows', id), BeingDenied(id)
  PROVE  BeingDenied(id)'
  <1>1. faults' = faults /\ crashes' = crashes /\ crashes = 0 /\ faults = 0
    BY Calm
  <1>2. PICK t \in Filers : FilerAt(t, "record_close") /\ filing[t].rid = id
    BY DEF BeingDenied
  <1>3. CASE filing'[t] = filing[t]
    BY <1>2, <1>3 DEF BeingDenied, FilerAt
  <1>4. CASE File(t)
    <2>1. rows' = [rows EXCEPT ![id] = DenylistDenial(rows[id])]
      BY <1>1, <1>2, <1>4, FileGoes DEF FilerAt
    <2>2. rows \in [Ids -> Row]
      BY DEF IInv, TypeOK
    <2>3. DenylistDenial(rows[id]).status # "open"
      BY <2>2 DEF DenylistDenial, Closed, Row
    <2> QED
      BY <2>1, <2>2, <2>3 DEF IsOpen
  <1> QED
    BY <1>1, <1>3, <1>4, FilerStays

\* A persist_deny does not lose a covered request it has still to reach.
LEMMA PersistingStep ==
  ASSUME IInv, OpKnows, CalmKnows, [Next]_vars, old' = {}, faults' = 0, crashes' = 0,
         NEW id \in Ids, IsOpen(rows, id), IsOpen(rows', id),
         NEW e, CoversKey(e, rows[id].key),
         NEW t \in Operators, deciding[t].op = "persist", deciding[t].entry = e,
         \/ deciding[t].pc = "list"
         \/ deciding[t].pc # "aborted" /\ id \in deciding[t].todo
         \/ deciding[t].pc = "deny_close" /\ deciding[t].rid = id
  PROVE  Excused(id, e)'
  <1>1. old = {} /\ faults = 0 /\ faults' = faults /\ crashes' = crashes /\ crashes = 0
    BY Calm
  <1> DEFINE d == deciding'[t]
             Reaches == /\ d.op = "persist" /\ d.entry = e
                        /\ \/ d.pc = "list"
                           \/ d.pc # "aborted" /\ id \in d.todo
                           \/ d.pc = "deny_close" /\ d.rid = id
  <1>2. Reaches \/ id \in applying' => Excused(id, e)'
    BY DEF Excused
  <1> HIDE DEF d
  <1>3. CASE deciding'[t] = deciding[t]
    BY <1>2, <1>3 DEF d
  <1>4. CASE Turns(t)
    <2>1. id \in OpenCovered(e)
      BY DEF OpenCovered
    <2> QED
      BY <1>2, <1>4, <2>1, DecideTurns DEF d, OpKnows
  <1>5. ASSUME NEW j \in Ids, DecideNext(t, j)
        PROVE  Reaches \/ id \in applying'
    <2>1. CASE j # id
      BY <1>5, <2>1, DecideTakes DEF d
    <2>2. CASE j = id
      BY <1>5, <2>2, DecideTakes DEF d, Settled
    <2> QED
      BY <2>1, <2>2
  <1>6. CASE Works(t)
    <2>1. d.op = "persist" /\ d.entry = e /\ d.todo = deciding[t].todo
      BY <1>6, DecideWorks DEF d
    <2>2. d.pc # "aborted" /\ id \in d.todo
      <3>1. deciding[t].pc \in {"deny_close", "allow_close"} => IsOpen(rows, deciding[t].rid)
        BY <1>1 DEF CalmKnows, OperatorHoldsLock
      <3>2. deciding[t].pc # "apply"
        BY DEF OpKnows
      <3>3. faults' # faults + 1
        BY <1>1
      <3>4. d.pc # "aborted"
        BY <1>6, <3>1, <3>2, <3>3, DecideWorks DEF d
      <3>5. deciding[t].pc # "list" /\ ~ (deciding[t].pc = "deny_close" /\ deciding[t].rid = id)
        BY <1>6, <3>1, <3>3, DecideWorks
      <3> QED
        BY <2>1, <3>4, <3>5
    <2> QED
      BY <1>2, <2>1, <2>2
  <1> QED
    BY <1>1, <1>2, <1>3, <1>4, <1>5, <1>6, OperatorStays, DecideCases

\* A covered request is newly open, was open before its entry was added, or was
\* excused before and still is.
LEMMA CoveredStep ==
  ASSUME IInv, OpKnows, CalmKnows, InsertKnows, CoveredIsSwept, [Next]_vars
  PROVE  CoveredIsSwept'
  <1> SUFFICES ASSUME old' = {}, faults' = 0, crashes' = 0,
                      NEW id \in Ids, IsOpen(rows', id), NEW e \in Matches(rows[id].key)'
               PROVE  Excused(id, e)'
    BY DEF CoveredIsSwept
  <1>1. old = {} /\ faults = 0 /\ faults' = faults /\ crashes' = crashes /\ crashes = 0
    BY Calm
  <1>2. e \in denylist' /\ CoversKey(e, rows'[id].key)
    BY DEF Matches, CoversKey
  <1>3. CASE ~ IsOpen(rows, id)
    <2>1. PICK t \in Filers :
            /\ File(t) /\ filing[t].rid = id
            /\ \/ FilerAt(t, "insert") /\ FilerAt(t, "notify")'
               \/ FilerAt(t, "record") /\ FilerAt(t, "record_close")'
            /\ filing'[t].rid = id /\ rows'[id].key = filing[t].key
      BY <1>3, FilerOpens
    <2>2. CASE FilerAt(t, "record_close")'
      BY <2>1, <2>2 DEF Excused, BeingDenied
    <2>3. CASE FilerAt(t, "insert")
      <3>1. UNCHANGED <<denylist, deciding>>
        BY <2>1, FileSteps
      <3>2. e \in Matches(filing[t].key)
        BY <1>2, <2>1, <3>1 DEF Matches
      <3> QED
        BY <1>1, <2>3, <3>1, <3>2 DEF InsertKnows, OperatorAt, Excused
    <2> QED
      BY <2>1, <2>2, <2>3
  <1>4. CASE IsOpen(rows, id) /\ e \in denylist
    <2>1. rows'[id].key = rows[id].key
      BY <1>4, RowsEvolve DEF IsOpen
    <2>2. e \in Matches(rows[id].key) /\ CoversKey(e, rows[id].key)
      BY <1>2, <1>4, <2>1 DEF Matches
    <2>3. Excused(id, e)
      BY <1>1, <1>4, <2>2 DEF CoveredIsSwept
    <2>4. CASE id \in applying \/ BeingSettled(id)
      BY <1>4, <2>4, SettlingStep DEF Excused
    <2>5. CASE rows[id].tries > 0
      BY <1>4, <2>5, RowsEvolve DEF Excused, IsOpen
    <2>6. CASE BeingDenied(id)
      BY <2>6, DenyingStep DEF Excused
    <2> QED
      BY <1>4, <2>2, <2>3, <2>4, <2>5, <2>6, PersistingStep DEF Excused
  <1>5. CASE e \notin denylist
    <2>1. ASSUME NEW t \in Operators, Decide(t) PROVE Excused(id, e)'
      <3>1. Turns(t)
        BY <1>2, <1>5, <2>1, DecideCases, DecideTakes, DecideWorks
      <3>2. deciding'[t].op = "persist" /\ deciding'[t].entry = e /\ deciding'[t].pc = "list"
        BY <1>2, <1>5, <3>1, DecideTurns DEF OpKnows
      <3> QED
        BY <3>2 DEF Excused
    <2>2. CASE \E t \in Filers : File(t)
      BY <1>2, <1>5, <2>2, FileSteps
    <2>3. CASE ~ (\E t \in Filers : File(t)) /\ ~ (\E t \in Operators : Decide(t))
      BY <1>2, <1>5, <2>3, OtherSteps
    <2> QED
      BY <2>1, <2>2, <2>3
  <1> QED
    BY <1>3, <1>4, <1>5

-------------------------------------------------------------------------------
\* What an allow script has done, between its end and the decision.
RuleKnows ==
    /\ \A t \in Operators :
          \/ deciding[t].pc \in {"settle", "apply_mark"} /\ deciding[t].exit0
          \/ deciding[t].pc = "allow_close"
          => HadEffect(deciding[t].rid)
    /\ \A id \in Ids : rows[id].status = "allowed" => HadEffect(id)

\* What scripts have done for a filed request is never forgotten.
LEMMA EffectStays ==
  ASSUME IInv, [Next]_vars, NEW id \in Ids, rows[id].status # "absent", HadEffect(id)
  PROVE  HadEffect(id)'
  <1>1. effects \subseteq effects'
    <2>1. ASSUME NEW t \in Filers, File(t) PROVE UNCHANGED effects
      BY <2>1 DEF File, FileBegin, FileHit, FileInsert, FileNotify, FilePush, FileRecordClose,
                  FileSuppress, FileFault, environment
    <2>2. ASSUME NEW t \in Operators, Decide(t) PROVE effects \subseteq effects'
      BY <2>2 DEF Decide, DecideBegin, PersistBegin, PersistAdd, PersistList, DecideNext,
         DecideReply, DecideEnd, IpMark, DenyClose, PersistMark, ApplyRun, ApplySettle,
         ApplyMark, AllowClose, DecideFault, environment
    <2>3. SweepStale => UNCHANGED effects
      BY DEF SweepStale, SweepCollect, SweepClose, SweepFault, environment
    <2> QED
      BY <2>1, <2>2, <2>3 DEF Next, Age, WindowElapses, Undeny, Restart, environment, vars
  <1>2. rows'[id].key = rows[id].key
    BY RowsEvolve
  <1> QED
    BY <1>1, <1>2 DEF HadEffect

\* Only the last step of an allow makes a request allowed.
LEMMA WhoAllows ==
  ASSUME IInv, [Next]_vars, NEW id \in Ids,
         rows[id].status # "allowed", rows'[id].status = "allowed"
  PROVE  \E t \in Operators : deciding[t].pc = "allow_close" /\ deciding[t].rid = id
  <1>1. rows \in [Ids -> Row]
    BY DEF IInv, TypeOK
  <1>2. ASSUME NEW j \in Ids, NEW k \in Keys, rows' = [rows EXCEPT ![j] = Opened(k)]
        PROVE  FALSE
    BY <1>1, <1>2, RowOpened
  <1>3. ASSUME NEW j \in Ids, NEW status \in {"denied", "stale"}, NEW by \in DecidedBy,
               NEW body \in Bodies, rows' = [rows EXCEPT ![j] = Closed(rows[j], status, by, body)]
        PROVE  FALSE
    <2>1. status \in CloseStatuses /\ rows[j] \in Row
      BY <1>1 DEF CloseStatuses
    <2>2. Closed(rows[j], status, by, body).status = status
      BY <2>1, RowClosed
    <2> QED
      BY <1>1, <1>3, <2>2
  <1>4. ASSUME NEW t \in Filers, File(t) PROVE FALSE
    <2>1. CASE FileInsert(t)
      BY <1>2, <2>1 DEF FileInsert, IInv, FilerKnows
    <2>2. CASE FileRecordClose(t)
      <3>1. filing[t].rid \in Ids
        BY <2>2 DEF FileRecordClose, FilerAt, IInv, FilerKnows
      <3> QED
        BY <1>3, <2>2, <3>1 DEF FileRecordClose, DenylistDenial, DecidedBy, Bodies
    <2>3. CASE UNCHANGED rows
      BY <2>3
    <2> QED
      BY <1>4, <2>1, <2>2, <2>3 DEF File, FileBegin, FileHit, FileNotify, FilePush, FileSuppress,
                                    FileFault
  <1>5. ASSUME NEW t \in Operators, Decide(t)
        PROVE  deciding[t].pc = "allow_close" /\ deciding[t].rid = id
    <2>1. deciding[t].pc \in {"deny_close", "allow_close"} /\ deciding[t].rid = id
      BY <1>5, DecideCloses
    <2>2. CASE deciding[t].pc = "deny_close"
      <3>1. DenyClose(t) \/ UNCHANGED rows
        BY <1>5, <2>2 DEF Decide, DecideBegin, PersistBegin, PersistAdd, PersistList, DecideNext,
           DecideReply, DecideEnd, IpMark, PersistMark, ApplyRun, ApplySettle,
           ApplyMark, AllowClose, DecideFault, OperatorAt
      <3>2. CASE DenyClose(t)
        BY <1>3, <2>1, <3>2 DEF DenyClose, CloseAs, DecidedBy, Bodies
      <3> QED
        BY <3>1, <3>2
    <2> QED
      BY <2>1, <2>2
  <1>6. CASE ~ (\E t \in Filers : File(t)) /\ ~ (\E t \in Operators : Decide(t))
    <2>1. CASE UNCHANGED rows
      BY <2>1
    <2>2. CASE \E j \in Ids : rows' = [rows EXCEPT ![j] = Closed(rows[j], "stale", "sweep", "deny_stale")]
      BY <1>3, <2>2 DEF DecidedBy, Bodies
    <2> QED
      BY <1>6, <2>1, <2>2, OtherSteps
  <1> QED
    BY <1>4, <1>5, <1>6

\* A script that reports success has had its effect when it ends, and the
\* decision waits for that report.
LEMMA RuleStep ==
  ASSUME IInv, RuleKnows, [Next]_vars
  PROVE  RuleKnows'
  <1> DEFINE Waits(t) == \/ deciding[t].pc \in {"settle", "apply_mark"} /\ deciding[t].exit0
                         \/ deciding[t].pc = "allow_close"
  <1>1. TypeOK /\ \A t \in Operators : deciding[t] \in Deciding
    BY DEF IInv, TypeOK
  <1>2. \A t \in Operators : Waits(t) =>
          HadEffect(deciding[t].rid) /\ deciding[t].rid \in Ids
          /\ rows[deciding[t].rid].status # "absent"
    BY DEF RuleKnows, IInv, OperatorKnows, OperatorHoldsLock
  <1>3. ASSUME NEW t \in Operators, Waits(t)'
        PROVE  HadEffect(deciding[t].rid)'
    <2>1. CASE deciding'[t] = deciding[t]
      BY <1>2, <1>3, <2>1, EffectStays
    <2>2. CASE deciding'[t] = NotDeciding
      BY <1>3, <2>2, Ended
    <2>3. CASE ApplyRun(t)
      <3>1. PICK exit \in ScriptExits :
              /\ effects' = effects \cup Effect(exit, rows[deciding[t].rid].key)
              /\ deciding' = [deciding EXCEPT
                    ![t].pc = IF exit = "raised" THEN "aborted" ELSE "settle",
                    ![t].exit0 = ExitsZero(exit)]
        BY <2>3 DEF ApplyRun
      <3> DEFINE zero == ExitsZero(exit)
                 pc == IF exit = "raised" THEN "aborted" ELSE "settle"
      <3>2. deciding' = [deciding EXCEPT ![t].pc = pc, ![t].exit0 = zero]
        BY <3>1
      <3>3. zero => exit \in {"ok", "skipped"}
        BY DEF ExitsZero
      <3>4. pc \in {"aborted", "settle"}
        OBVIOUS
      <3> HIDE DEF zero, pc
      <3>5. deciding'[t].pc = pc /\ deciding'[t].exit0 = zero /\ deciding'[t].rid = deciding[t].rid
        BY <1>1, <3>2 DEF TypeOK, Deciding
      <3>6. exit \in {"ok", "skipped"}
        BY <1>3, <3>3, <3>4, <3>5
      <3>7. UNCHANGED rows
        BY <2>3 DEF ApplyRun
      <3> DEFINE k == rows[deciding[t].rid].key
      <3>8. rows'[deciding'[t].rid].key = k
        BY <3>5, <3>7
      <3>9. \E effect \in {"rule", "stopped"} : <<k, effect>> \in effects'
        <4>1. exit = "ok" => <<k, "rule">> \in effects'
          BY <3>1 DEF Effect
        <4>2. exit = "skipped" => <<k, "stopped">> \in effects'
          BY <3>1 DEF Effect
        <4> QED
          BY <3>6, <4>1, <4>2
      <3> HIDE DEF k
      <3> QED
        BY <3>8, <3>9 DEF HadEffect
    <2>4. CASE ApplySettle(t) \/ ApplyMark(t)
      <3>1. /\ deciding[t].pc \in {"settle", "apply_mark"}
            /\ \/ Resume(t) \/ ResumeDecided(t)
               \/ \E pc \in {"apply_mark", "allow_close"} :
                     /\ deciding' = [deciding EXCEPT ![t].pc = pc]
                     /\ pc = "allow_close" => deciding[t].exit0
        BY <2>4 DEF ApplySettle, ApplyMark, OperatorAt
      <3>2. Resume(t) \/ ResumeDecided(t) => deciding'[t].pc = "next"
        BY <1>1 DEF TypeOK, Deciding, Resume, ResumeDecided
      <3>3. PICK pc \in {"apply_mark", "allow_close"} :
              /\ deciding' = [deciding EXCEPT ![t].pc = pc]
              /\ pc = "allow_close" => deciding[t].exit0
        BY <1>3, <3>1, <3>2
      <3>4. /\ deciding'[t].pc = pc /\ deciding'[t].rid = deciding[t].rid
            /\ deciding'[t].exit0 = deciding[t].exit0
        BY <1>1, <3>3 DEF TypeOK, Deciding
      <3>5. Waits(t)
        BY <1>3, <3>1, <3>3, <3>4
      <3> QED
        BY <1>2, <3>4, <3>5, EffectStays
    <2>5. ASSUME Decide(t), ~ ApplyRun(t), ~ ApplySettle(t), ~ ApplyMark(t) PROVE FALSE
      <3>1. deciding'[t].pc \notin {"settle", "apply_mark", "allow_close"}
        <4>1. CASE Turns(t)
          BY <4>1, DecideTurns
        <4>2. CASE \E id \in Ids : DecideNext(t, id)
          BY <4>2, DecideTakes
        <4>3. CASE Works(t)
          <5>1. deciding[t].pc \notin {"apply", "settle", "apply_mark"} \/ DecideFault(t)
            BY <2>5, <4>3 DEF Works, IpMark, DenyClose, PersistMark, AllowClose, OperatorAt
          <5>2. DecideFault(t) => deciding'[t].pc = "aborted"
            BY <1>1 DEF DecideFault, TypeOK, Deciding
          <5> QED
            BY <4>3, <5>1, <5>2, DecideWorks
        <4> QED
          BY <2>5, <4>1, <4>2, <4>3, DecideCases
      <3> QED
        BY <1>3, <3>1
    <2> QED
      BY <2>1, <2>2, <2>3, <2>4, <2>5, OperatorStays
  <1>4. ASSUME NEW id \in Ids, rows'[id].status = "allowed"
        PROVE  HadEffect(id)'
    <2>1. CASE rows[id].status = "allowed"
      BY <2>1, EffectStays DEF RuleKnows
    <2>2. CASE rows[id].status # "allowed"
      <3>1. PICK t \in Operators : deciding[t].pc = "allow_close" /\ deciding[t].rid = id
        BY <1>4, <2>2, WhoAllows
      <3> QED
        BY <1>2, <3>1, EffectStays
    <2> QED
      BY <2>1, <2>2
  <1> QED
    BY <1>3, <1>4 DEF RuleKnows

\* A request is allowed only after a script has put its rule in place, or found
\* the bottle stopped; no failed attempt is left pending on it, and it never is
\* an IP literal.
THEOREM AllowedOnlyIfApplied == Spec => []AllowedWasApplied
  <1>1. Init => IInv /\ RuleKnows
    BY InitInv, InitRow
    DEF RuleKnows, Init, NotDeciding, DecidingStarts
  <1>2. IInv /\ RuleKnows /\ [Next]_vars => (IInv /\ RuleKnows)'
    BY NextInv, RuleStep
  <1>3. IInv /\ RuleKnows => AllowedWasApplied
    BY DEF IInv, RuleKnows, AllowedWasApplied
  <1> QED
    BY <1>1, <1>2, <1>3, PTL DEF Spec

-------------------------------------------------------------------------------
LEMMA InitHandlers == Init => HInv /\ NobodyAborts
  <1> SUFFICES ASSUME Init PROVE HInv /\ NobodyAborts
    OBVIOUS
  <1>1. /\ \A t \in Filers : filing[t].pc = "idle" /\ filing[t].answer = "none"
        /\ \A t \in Operators : deciding[t].pc = "idle" /\ deciding[t].todo = {}
        /\ \A w \in Containers \X Zones : window[w] = None
        /\ sweep.todo = {} /\ old = {} /\ denylist = {}
    BY DEF Init, NotFiling, FilingEnded, NotDeciding, DecidingStarts, NotSweeping
  <1>2. /\ \A id \in Ids : IsOpen(rows, id) => id \in pushed
        /\ \A k \in Keys : Matches(k) = {}
    BY <1>1, InitRow DEF IsOpen, Matches
  <1>3. SweepKnows /\ RecordKnows /\ WindowKnows /\ NotifyKnows /\ OpKnows
    BY <1>1, <1>2 DEF SweepKnows, RecordKnows, WindowKnows, NotifyKnows, OpKnows, FilerAt
  <1>4. CalmKnows /\ NobodyAborts /\ InsertKnows /\ CoveredIsSwept
    <2>1. \A id \in Ids : Matches(rows[id].key) = {}
      BY <1>1 DEF Matches
    <2> QED
      BY <1>1, <2>1 DEF CalmKnows, NobodyAborts, InsertKnows, CoveredIsSwept, FilerAt, OperatorHoldsLock
  <1> QED
    BY <1>3, <1>4, InitInv DEF HInv

LEMMA NextHandlers ==
  ASSUME HInv, [Next]_vars
  PROVE  HInv'
  BY NextInv, SweepStep, RecordStep, WindowStep, NotifyStep, OpStep, CalmStep, InsertStep,
     CoveredStep
  DEF HInv

LEMMA HandlersInvariance == Spec => []HInv
  BY InitHandlers, NextHandlers, PTL DEF Spec

\* A repeated ask for a denylisted zone is logged on a row that is a denylist
\* denial of the same container, or is just being written as one.
THEOREM RepeatsAreLogged == Spec => []WindowNamesDenial
  <1>1. HInv => WindowNamesDenial
    BY DEF HInv, WindowKnows, WindowNamesDenial, IsDenial
  <1> QED
    BY <1>1, HandlersInvariance, PTL

\* The operator is notified of every open request, once its filing returns.
THEOREM OperatorIsNotified == Spec => []OpenIsNotified
  <1>1. HInv => OpenIsNotified
    BY DEF HInv, NotifyKnows, OpenIsNotified
  <1> QED
    BY <1>1, HandlersInvariance, PTL

\* A persistent deny leaves no covered request behind, but those in flight or
\* tried, whatever is filed while it sweeps.
THEOREM PersistReachesAll == Spec => []CoveredIsSwept
  <1>1. HInv => CoveredIsSwept
    BY DEF HInv
  <1> QED
    BY <1>1, HandlersInvariance, PTL

\* As long as no request grows old and the database works, no handler dies.
THEOREM NoHandlerDies ==
  ASSUME ScriptsEnd
  PROVE  Spec => []HandlersSucceed
  <1>1. Init => HInv /\ NobodyAborts
    BY InitHandlers
  <1>2. HInv /\ NobodyAborts /\ [Next]_vars => (HInv /\ NobodyAborts)'
    BY NextHandlers, AbortStep DEF HInv
  <1>3. HInv /\ NobodyAborts => HandlersSucceed
    BY DEF HInv, CalmKnows, NobodyAborts, HandlersSucceed
  <1> QED
    BY <1>1, <1>2, <1>3, PTL DEF Spec
===============================================================================
