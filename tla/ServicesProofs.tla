--------------------------- MODULE ServicesProofs ---------------------------
(***************************************************************************)
(* Proofs about components that run beside the broker: the notifier of     *)
(* blocked agents, the key files of git identities, the allocation of      *)
(* networks, the request store, the artifact backup and the reader of the  *)
(* drop log, for any number of panes, identities, runs, requests, commands *)
(* and packets.  Each is proved about by itself (the lemmas ...Alone); a   *)
(* behaviour of Services is a behaviour of each part, which carries the    *)
(* results over to the properties of Services.                             *)
(***************************************************************************)
EXTENDS Services, Integers, WellFoundedInduction, TLAPS

-----------------------------------------------------------------------------
\* A step of Services is a step of each part or leaves its variables alone, and
\* the part that runs stays the one that runs.
LEMMA PartsStep ==
  ASSUME [ServicesNext]_allVars
  PROVE  /\ UNCHANGED part
         /\ [Store!Next]_(Store!vars)
         /\ [Net!Next]_(Net!vars)
         /\ [Git!Next]_(Git!vars)
         /\ [Backup!Next]_(Backup!vars)
         /\ [Herdr!Next]_(Herdr!vars)
         /\ [Drops!Next]_(Drops!vars)
  <1>1. CASE UNCHANGED allVars
    BY <1>1 DEF allVars, storeVars, Store!vars, netVars, Net!vars, gitVars, Git!vars, backupVars,
        Backup!vars, Backup!files, herdrVars, Herdr!vars, Herdr!server,
        Herdr!daemon, dropsVars, Drops!vars
  <1>2. CASE ServicesNext
    BY <1>2 DEF ServicesNext, storeVars, Store!vars, netVars, Net!vars, gitVars, Git!vars, backupVars,
        Backup!vars, Backup!files, herdrVars, Herdr!vars, Herdr!server,
        Herdr!daemon, dropsVars, Drops!vars
  <1> QED
    BY <1>1, <1>2

\* Every behaviour of Services is one of Store.
LEMMA StoreRuns == ServicesSpec => Store!Spec
  <1>1. ServicesInit => Store!Init
    BY DEF ServicesInit
  <1>2. [ServicesNext]_allVars => [Store!Next]_(Store!vars)
    BY PartsStep
  <1> QED
    BY <1>1, <1>2, PTL DEF ServicesSpec, Store!Spec

\* Every behaviour of Services is one of Net.
LEMMA NetRuns == ServicesSpec => Net!Spec
  <1>1. ServicesInit => Net!Init
    BY DEF ServicesInit
  <1>2. [ServicesNext]_allVars => [Net!Next]_(Net!vars)
    BY PartsStep
  <1> QED
    BY <1>1, <1>2, PTL DEF ServicesSpec, Net!Spec

\* Where the part "git" of Services runs, it behaves as Git does.
InGit == part = "git"

LEMMA GitRuns == ServicesSpec => Git!Spec \/ []~InGit
  <1>1. ServicesInit => Git!Init \/ ~InGit
    BY DEF ServicesInit, InGit
  <1>2. [ServicesNext]_allVars => [Git!Next]_(Git!vars)
    BY PartsStep
  <1>3. ~InGit /\ [ServicesNext]_allVars => ~InGit'
    BY PartsStep DEF InGit
  <1> QED
    BY <1>1, <1>2, <1>3, PTL DEF ServicesSpec, Git!Spec

\* Every behaviour of Services is one of Backup.
LEMMA BackupRuns == ServicesSpec => Backup!Spec
  <1>1. ServicesInit => Backup!Init
    BY DEF ServicesInit
  <1>2. [ServicesNext]_allVars => [Backup!Next]_(Backup!vars)
    BY PartsStep
  <1> QED
    BY <1>1, <1>2, PTL DEF ServicesSpec, Backup!Spec

\* Every behaviour of Services is one of Herdr.
LEMMA HerdrRuns == ServicesSpec => Herdr!Spec
  <1>1. ServicesInit => Herdr!Init
    BY DEF ServicesInit
  <1>2. [ServicesNext]_allVars => [Herdr!Next]_(Herdr!vars)
    BY PartsStep
  <1> QED
    BY <1>1, <1>2, PTL DEF ServicesSpec, Herdr!Spec

\* Every behaviour of Services is one of Drops.
LEMMA DropsRuns == ServicesSpec => Drops!Spec
  <1>1. ServicesInit => Drops!Init
    BY DEF ServicesInit
  <1>2. [ServicesNext]_allVars => [Drops!Next]_(Drops!vars)
    BY PartsStep
  <1> QED
    BY <1>1, <1>2, PTL DEF ServicesSpec, Drops!Spec

-----------------------------------------------------------------------------
(***************************************************************************)
(* HerdrNotify.  What makes every new pane covered: a live pane that the   *)
(* cycle does not cover is unknown to the tracker, and its creation is     *)
(* still to be read.  What makes every blocked pane spoken for: reading    *)
(* the events that wait takes the tracker to what the panes are, so the    *)
(* event of a change is a change when it is read.                          *)
(***************************************************************************)

Event == [kind : {"created", "closed", "status"}, pane : Panes,
          status : Status \cup {Unknown, None}]

PanesTyped ==
    /\ pane \in [Panes -> Status \cup {None}]
    /\ used \in SUBSET Panes
    /\ tracked \in [Panes -> Status \cup {Unknown, None}]
    /\ covered \in SUBSET Panes
    /\ history \in Seq(Event)
    /\ stream \in Seq(Event)
    /\ hpc \in {"waiting", "snapshot", "subscribe", "streaming"}

Announces(events, p) == \E i \in DOMAIN events : events[i].kind = "created" /\ events[i].pane = p

\* Whatever anybody knows of a pane, the pane has been there.
OnlyUsed ==
    /\ Herdr!Live \subseteq used
    /\ covered \subseteq used
    /\ \A p \in Panes : tracked[p] # None => p \in used
    /\ \A i \in DOMAIN history : history[i].pane \in used
    /\ \A i \in DOMAIN stream : stream[i].pane \in used

\* Events of panes that closed are of panes that are gone; status events are of
\* covered panes, and none are replayed.
EventsTrue ==
    /\ \A i \in DOMAIN history :
         /\ history[i].kind # "status"
         /\ history[i].kind = "closed" => history[i].pane \notin Herdr!Live
    /\ \A i \in DOMAIN stream :
         /\ stream[i].kind = "status" => stream[i].pane \in covered
         /\ stream[i].kind = "closed" => stream[i].pane \notin Herdr!Live

\* Between cycles nothing waits to be read, and nobody is owed.
Between ==
    /\ ~Herdr!Streaming => stream = <<>>
    /\ ~Herdr!Listening => owed = {}

\* A live pane that the cycle does not cover came after its snapshot: the
\* tracker does not know it, and its creation is still to be read.
NewOnes ==
    /\ \A p \in Herdr!Live : Announces(history, p)
    /\ hpc \in {"subscribe", "streaming"} => \A p \in Herdr!Live \ covered : tracked[p] = None
    /\ Herdr!Listening => \A p \in Herdr!Live \ covered : Announces(stream, p)

PanesInv == PanesTyped /\ OnlyUsed /\ EventsTrue /\ Between /\ NewOnes

-------------------------------------------------------------------------------
LEMMA PanesInit == Herdr!Init => PanesInv
  <1> SUFFICES ASSUME Herdr!Init PROVE PanesInv
    OBVIOUS
  <1>1. Herdr!Live = {}
    BY DEF Herdr!Init, Herdr!Live
  <1>2. PanesTyped
    BY DEF Herdr!Init, PanesTyped
  <1>3. OnlyUsed /\ EventsTrue /\ Between
    BY <1>1 DEF Herdr!Init, OnlyUsed, EventsTrue, Between, Herdr!Streaming, Herdr!Listening
  <1>4. NewOnes
    BY <1>1 DEF Herdr!Init, NewOnes, Herdr!Listening, Herdr!Streaming
  <1> QED
    BY <1>2, <1>3, <1>4 DEF PanesInv

\* What Tell adds to a stream.
LEMMA AppendAt ==
  ASSUME NEW s \in Seq(Event), NEW e \in Event
  PROVE  /\ Append(s, e) \in Seq(Event)
         /\ DOMAIN Append(s, e) = DOMAIN s \cup {Len(s) + 1}
         /\ Append(s, e)[Len(s) + 1] = e
         /\ \A i \in DOMAIN s : Append(s, e)[i] = s[i]
         /\ Len(s) + 1 \notin DOMAIN s
  OBVIOUS

LEMMA TailAt ==
  ASSUME NEW s \in Seq(Event), s # <<>>
  PROVE  /\ Tail(s) \in Seq(Event)
         /\ \A i \in DOMAIN Tail(s) : i + 1 \in DOMAIN s /\ Tail(s)[i] = s[i + 1]
         /\ \A i \in DOMAIN s : i # 1 => i - 1 \in DOMAIN Tail(s) /\ Tail(s)[i - 1] = s[i]
         /\ 1 \in DOMAIN s /\ Head(s) = s[1] /\ s[1] \in Event
  OBVIOUS

LEMMA OpensPanes ==
  ASSUME PanesInv, NEW p \in Panes, Herdr!Opens(p)
  PROVE  PanesInv'
  <1> DEFINE e == Herdr!Ev("created", p, Unknown)
  <1>1. /\ p \notin used /\ used' = used \cup {p}
        /\ history' = Append(history, e)
        /\ stream' = IF Herdr!Listening THEN Append(stream, e) ELSE stream
        /\ UNCHANGED <<hpc, tracked, covered, linked, owed>>
    BY DEF Herdr!Opens, Herdr!Tell, Herdr!daemon
  <1>2. PICK s \in Status : pane' = [pane EXCEPT ![p] = s]
    BY DEF Herdr!Opens
  <1>3. e \in Event /\ e.kind = "created" /\ e.pane = p
    BY DEF Event, Herdr!Ev
  <1> HIDE DEF e
  <1>4. PanesTyped
    BY DEF PanesInv
  <1>5. history \in Seq(Event) /\ stream \in Seq(Event) /\ pane \in [Panes -> Status \cup {None}]
    BY <1>4 DEF PanesTyped
  <1>6. /\ history' \in Seq(Event) /\ stream' \in Seq(Event)
        /\ \A i \in DOMAIN history' :
             history'[i] = e \/ (i \in DOMAIN history /\ history'[i] = history[i])
        /\ \A i \in DOMAIN stream' :
             stream'[i] = e \/ (i \in DOMAIN stream /\ stream'[i] = stream[i])
    BY <1>1, <1>3, <1>5, AppendAt
  <1>7. /\ \A q \in Panes : Announces(history, q) \/ q = p => Announces(history', q)
        /\ Herdr!Listening => \A q \in Panes : Announces(stream, q) \/ q = p => Announces(stream', q)
    BY <1>1, <1>3, <1>5, AppendAt DEF Announces
  <1>8. Herdr!Live' \subseteq Herdr!Live \cup {p} /\ Herdr!Live \subseteq Panes
    BY <1>2, <1>5 DEF Herdr!Live
  <1>9. PanesTyped'
    BY <1>1, <1>2, <1>4, <1>5, <1>6 DEF PanesTyped
  <1>10. OnlyUsed'
    BY <1>1, <1>3, <1>6, <1>8 DEF PanesInv, OnlyUsed
  <1>11. EventsTrue'
    BY <1>1, <1>3, <1>6, <1>8 DEF PanesInv, EventsTrue, OnlyUsed
  <1>12. Between'
    BY <1>1 DEF PanesInv, Between, Herdr!Streaming, Herdr!Listening
  <1>13. p \notin covered /\ tracked[p] = None
    BY <1>1 DEF PanesInv, OnlyUsed
  <1>14. NewOnes'
    <2>1. \A q \in Herdr!Live' : Announces(history', q)
      BY <1>7, <1>8 DEF PanesInv, NewOnes
    <2>2. hpc' \in {"subscribe", "streaming"} => \A q \in Herdr!Live' \ covered' : tracked'[q] = None
      BY <1>1, <1>8, <1>13 DEF PanesInv, NewOnes
    <2>3. Herdr!Listening' => \A q \in Herdr!Live' \ covered' : Announces(stream', q)
      BY <1>1, <1>7, <1>8 DEF PanesInv, NewOnes, Herdr!Listening, Herdr!Streaming
    <2> QED
      BY <2>1, <2>2, <2>3 DEF NewOnes
  <1> QED
    BY <1>9, <1>10, <1>11, <1>12, <1>14 DEF PanesInv

LEMMA ClosesPanes ==
  ASSUME PanesInv, NEW p \in Panes, Herdr!Closes(p)
  PROVE  PanesInv'
  <1> DEFINE e == Herdr!Ev("closed", p, None)
  <1>1. /\ p \in Herdr!Live /\ used' = used
        /\ history' = Append(history, e)
        /\ stream' = IF Herdr!Listening THEN Append(stream, e) ELSE stream
        /\ pane' = [pane EXCEPT ![p] = None] /\ owed' = owed \ {p}
        /\ UNCHANGED <<hpc, tracked, covered, linked>>
    BY DEF Herdr!Closes, Herdr!Tell, Herdr!daemon
  <1>3. e \in Event /\ e.kind = "closed" /\ e.pane = p
    BY DEF Event, Herdr!Ev
  <1> HIDE DEF e
  <1>4. PanesTyped
    BY DEF PanesInv
  <1>5. history \in Seq(Event) /\ stream \in Seq(Event) /\ pane \in [Panes -> Status \cup {None}]
    BY <1>4 DEF PanesTyped
  <1>6. /\ history' \in Seq(Event) /\ stream' \in Seq(Event)
        /\ \A i \in DOMAIN history' :
             history'[i] = e \/ (i \in DOMAIN history /\ history'[i] = history[i])
        /\ \A i \in DOMAIN stream' :
             stream'[i] = e \/ (i \in DOMAIN stream /\ stream'[i] = stream[i])
    BY <1>1, <1>3, <1>5, AppendAt
  <1>7. /\ \A q \in Panes : Announces(history, q) => Announces(history', q)
        /\ \A q \in Panes : Announces(stream, q) => Announces(stream', q)
    BY <1>1, <1>3, <1>5, AppendAt DEF Announces
  <1>8. Herdr!Live' = Herdr!Live \ {p} /\ Herdr!Live \subseteq Panes
    BY <1>1, <1>5 DEF Herdr!Live
  <1>9. PanesTyped'
    BY <1>1, <1>4, <1>5, <1>6 DEF PanesTyped
  <1>10. OnlyUsed'
    BY <1>1, <1>3, <1>6, <1>8 DEF PanesInv, OnlyUsed
  <1>11. EventsTrue'
    BY <1>1, <1>3, <1>6, <1>8 DEF PanesInv, EventsTrue
  <1>12. Between'
    BY <1>1 DEF PanesInv, Between, Herdr!Streaming, Herdr!Listening
  <1>14. NewOnes'
    BY <1>1, <1>7, <1>8 DEF PanesInv, NewOnes, Herdr!Listening, Herdr!Streaming
  <1> QED
    BY <1>9, <1>10, <1>11, <1>12, <1>14 DEF PanesInv

LEMMA TurnsPanes ==
  ASSUME PanesInv, None \notin Status, NEW p \in Panes, NEW s \in Status, Herdr!Turns(p, s)
  PROVE  PanesInv'
  <1> DEFINE e == Herdr!Ev("status", p, s)
  <1>1. /\ p \in Herdr!Live /\ pane' = [pane EXCEPT ![p] = s]
        /\ stream' = IF Herdr!Listening /\ p \in covered THEN Append(stream, e) ELSE stream
        /\ ~Herdr!Listening => owed' = owed
        /\ UNCHANGED <<used, history, hpc, tracked, covered, linked>>
    BY DEF Herdr!Turns, Herdr!Tell, Herdr!daemon
  <1>3. e \in Event /\ e.kind = "status" /\ e.pane = p
    BY DEF Event, Herdr!Ev
  <1> HIDE DEF e
  <1>4. PanesTyped
    BY DEF PanesInv
  <1>5. stream \in Seq(Event) /\ pane \in [Panes -> Status \cup {None}]
    BY <1>4 DEF PanesTyped
  <1>6. /\ stream' \in Seq(Event)
        /\ \A i \in DOMAIN stream' :
             \/ stream'[i] = e /\ p \in covered
             \/ i \in DOMAIN stream /\ stream'[i] = stream[i]
    BY <1>1, <1>3, <1>5, AppendAt
  <1>7. \A q \in Panes : Announces(stream, q) => Announces(stream', q)
    BY <1>1, <1>3, <1>5, AppendAt DEF Announces
  <1>8. Herdr!Live' = Herdr!Live /\ Herdr!Live \subseteq Panes
    BY <1>1, <1>5 DEF Herdr!Live
  <1>9. PanesTyped'
    BY <1>1, <1>4, <1>5, <1>6 DEF PanesTyped
  <1>10. OnlyUsed'
    BY <1>1, <1>3, <1>6, <1>8 DEF PanesInv, OnlyUsed
  <1>11. EventsTrue'
    BY <1>1, <1>3, <1>6, <1>8 DEF PanesInv, EventsTrue
  <1>12. Between'
    BY <1>1 DEF PanesInv, Between, Herdr!Streaming, Herdr!Listening
  <1>14. NewOnes'
    BY <1>1, <1>7, <1>8 DEF PanesInv, NewOnes, Herdr!Listening, Herdr!Streaming, Announces
  <1> QED
    BY <1>9, <1>10, <1>11, <1>12, <1>14 DEF PanesInv

\* With its server a pane's events are gone; its id stays used.
LEMMA StopsPanes ==
  ASSUME PanesInv, ~Reused, Herdr!Stops
  PROVE  PanesInv'
  <1>1. /\ pane' = [p \in Panes |-> None] /\ history' = <<>> /\ used' = used
        /\ linked' = FALSE /\ owed' = {} /\ UNCHANGED <<hpc, tracked, covered, stream>>
    BY DEF Herdr!Stops, Herdr!daemon
  <1>2. Herdr!Live' = {}
    BY <1>1 DEF Herdr!Live
  <1>3. PanesTyped'
    BY <1>1 DEF PanesInv, PanesTyped
  <1>4. OnlyUsed' /\ EventsTrue'
    BY <1>1, <1>2 DEF PanesInv, OnlyUsed, EventsTrue
  <1>5. Between'
    BY <1>1 DEF PanesInv, Between, Herdr!Streaming, Herdr!Listening
  <1>6. NewOnes'
    BY <1>1, <1>2 DEF NewOnes, Herdr!Listening
  <1> QED
    BY <1>3, <1>4, <1>5, <1>6 DEF PanesInv

LEMMA SnapshotPanes ==
  ASSUME PanesInv, Herdr!Snapshot
  PROVE  PanesInv'
  <1>1. /\ hpc = "snapshot" /\ UNCHANGED <<pane, used, history, stream, linked, owed>>
        /\ \/ tracked' = Herdr!Seeded /\ covered' = Herdr!Live /\ hpc' = "subscribe"
           \/ hpc' = "waiting" /\ tracked' = tracked /\ covered' = covered
    BY DEF Herdr!Snapshot, Herdr!server
  <1>2. stream = <<>> /\ Herdr!Live' = Herdr!Live /\ owed = {}
    BY <1>1 DEF PanesInv, Between, Herdr!Live, Herdr!Streaming, Herdr!Listening
  <1>3. PanesTyped
    BY DEF PanesInv
  <1>4. PanesTyped'
    <2>1. Herdr!Seeded \in [Panes -> Status \cup {Unknown, None}] /\ Herdr!Live \in SUBSET Panes
      BY <1>3 DEF PanesTyped, Herdr!Seeded, Herdr!Live
    <2> QED
      BY <1>1, <1>3, <2>1 DEF PanesTyped
  <1>5. OnlyUsed'
    <2>1. \A p \in Panes : Herdr!Seeded[p] # None => p \in used
      BY DEF PanesInv, OnlyUsed, Herdr!Seeded
    <2> QED
      BY <1>1, <1>2, <2>1 DEF PanesInv, OnlyUsed
  <1>6. EventsTrue' /\ Between'
    BY <1>1, <1>2 DEF PanesInv, EventsTrue, Between, Herdr!Streaming, Herdr!Listening
  <1>7. NewOnes'
    BY <1>1, <1>2 DEF PanesInv, NewOnes, Herdr!Listening, Herdr!Streaming
  <1> QED
    BY <1>4, <1>5, <1>6, <1>7 DEF PanesInv

\* The whole history is replayed, so it announces every pane that lives.
LEMMA SubscribePanes ==
  ASSUME PanesInv, Herdr!Subscribe
  PROVE  PanesInv'
  <1>1. /\ hpc = "subscribe" /\ UNCHANGED <<pane, used, history, tracked, covered, owed>>
        /\ \/ hpc' = "streaming" /\ stream' = history /\ linked' = TRUE
           \/ hpc' = "waiting" /\ UNCHANGED <<stream, linked>>
    BY DEF Herdr!Subscribe, Herdr!server
  <1>2. stream = <<>> /\ Herdr!Live' = Herdr!Live /\ owed = {}
    BY <1>1 DEF PanesInv, Between, Herdr!Live, Herdr!Streaming, Herdr!Listening
  <1>3. PanesTyped'
    BY <1>1 DEF PanesInv, PanesTyped
  <1>4. OnlyUsed' /\ EventsTrue'
    BY <1>1, <1>2 DEF PanesInv, OnlyUsed, EventsTrue
  <1>5. Between'
    BY <1>1, <1>2 DEF Between, Herdr!Streaming, Herdr!Listening
  <1>6. NewOnes'
    BY <1>1, <1>2 DEF PanesInv, NewOnes, Herdr!Listening, Herdr!Streaming
  <1> QED
    BY <1>3, <1>4, <1>5, <1>6 DEF PanesInv

\* A creation that the cycle is waiting for is of a pane the tracker does not
\* know: it ends the cycle.
LEMMA HandlePanes ==
  ASSUME PanesInv, Herdr!Handle
  PROVE  PanesInv'
  <1> DEFINE e == Head(stream)
  <1>1. /\ Herdr!Streaming /\ stream # <<>>
        /\ UNCHANGED <<pane, used, history, covered, linked>>
        /\ Herdr!Created(e) \/ Herdr!Closed(e) \/ Herdr!StatusChanged(e)
    BY DEF Herdr!Handle, Herdr!server
  <1>2. PanesTyped
    BY DEF PanesInv
  <1>3. /\ Tail(stream) \in Seq(Event)
        /\ \A i \in DOMAIN Tail(stream) : i + 1 \in DOMAIN stream /\ Tail(stream)[i] = stream[i + 1]
        /\ \A i \in DOMAIN stream :
             i # 1 => i - 1 \in DOMAIN Tail(stream) /\ Tail(stream)[i - 1] = stream[i]
        /\ 1 \in DOMAIN stream /\ e = stream[1] /\ e \in Event
    BY <1>1, <1>2, TailAt DEF PanesTyped
  <1>4. e.pane \in used /\ e.pane \in Panes /\ (e.kind = "status" => e.pane \in covered)
    BY <1>3 DEF PanesInv, OnlyUsed, EventsTrue, Event
  <1>5. Herdr!Live' = Herdr!Live /\ Herdr!Live \subseteq Panes
    BY <1>1 DEF Herdr!Live
  <1> HIDE DEF e
  <1>6. CASE hpc' = "streaming"
    <2>1. /\ stream' = Tail(stream) /\ hpc' = hpc /\ owed' \subseteq owed
          /\ e.kind = "created" => tracked[e.pane] # None
          /\ \/ tracked' = tracked
             \/ tracked' = [tracked EXCEPT ![e.pane] = None]
             \/ e.kind = "status" /\ tracked' = [tracked EXCEPT ![e.pane] = e.status]
      BY <1>1, <1>6 DEF Herdr!Created, Herdr!Closed, Herdr!StatusChanged, Herdr!Leave, Herdr!IsNew, Herdr!Streaming
    <2>2. e.status \in Status \cup {Unknown, None}
      BY <1>3 DEF Event
    <2>3. tracked' \in [Panes -> Status \cup {Unknown, None}]
      BY <1>2, <1>4, <2>1, <2>2 DEF PanesTyped
    <2>4. \A p \in Panes : tracked'[p] # None =>
             tracked[p] # None \/ (e.kind = "status" /\ p = e.pane)
      BY <1>2, <1>4, <2>1 DEF PanesTyped
    <2>5. PanesTyped'
      BY <1>1, <1>2, <1>3, <2>1, <2>3 DEF PanesTyped
    <2>6. OnlyUsed'
      BY <1>1, <1>3, <1>4, <1>5, <2>1, <2>4 DEF PanesInv, OnlyUsed
    <2>7. EventsTrue'
      BY <1>1, <1>3, <1>5, <2>1 DEF PanesInv, EventsTrue
    <2>8. Between'
      BY <1>1, <1>6, <2>1 DEF PanesInv, Between, Herdr!Streaming, Herdr!Listening
    <2>9. NewOnes'
      <3>1. \A p \in Herdr!Live \ covered : tracked[p] = None /\ tracked'[p] = None
        BY <1>1, <1>4, <1>5, <2>4 DEF PanesInv, NewOnes, Herdr!Streaming
      <3>2. ASSUME NEW p \in Herdr!Live \ covered, Announces(stream, p)
            PROVE  Announces(stream', p)
        <4>1. PICK i \in DOMAIN stream : stream[i].kind = "created" /\ stream[i].pane = p
          BY <3>2 DEF Announces
        <4>2. i # 1
          BY <1>3, <2>1, <3>1, <4>1
        <4>3. i - 1 \in DOMAIN stream' /\ stream'[i - 1] = stream[i]
          BY <1>3, <2>1, <4>2
        <4> QED
          BY <4>1, <4>3 DEF Announces
      <3>3. \A p \in Herdr!Live' : Announces(history', p)
        BY <1>1, <1>5 DEF PanesInv, NewOnes
      <3> QED
        BY <1>1, <1>5, <2>1, <3>1, <3>2, <3>3 DEF PanesInv, NewOnes, Herdr!Listening, Herdr!Streaming
    <2> QED
      BY <2>5, <2>6, <2>7, <2>8, <2>9 DEF PanesInv
  <1>7. CASE hpc' # "streaming"
    <2>1. /\ hpc' = "snapshot" /\ stream' = <<>> /\ owed' = {}
          /\ tracked' = [tracked EXCEPT ![e.pane] = e.status]
      BY <1>1, <1>7 DEF Herdr!Created, Herdr!Closed, Herdr!StatusChanged, Herdr!Leave, Herdr!Streaming
    <2>2. e.status \in Status \cup {Unknown, None}
      BY <1>3 DEF Event
    <2>3. PanesTyped'
      BY <1>1, <1>2, <1>4, <2>1, <2>2 DEF PanesTyped
    <2>4. OnlyUsed' /\ EventsTrue'
      BY <1>1, <1>2, <1>4, <1>5, <2>1 DEF PanesInv, PanesTyped, OnlyUsed, EventsTrue
    <2>5. Between'
      BY <2>1 DEF Between, Herdr!Streaming, Herdr!Listening
    <2>6. NewOnes'
      BY <1>1, <1>5, <2>1 DEF PanesInv, NewOnes, Herdr!Listening, Herdr!Streaming
    <2> QED
      BY <2>3, <2>4, <2>5, <2>6 DEF PanesInv
  <1> QED
    BY <1>6, <1>7

LEMMA PanesNext ==
  ASSUME Herdr!FreshIds, PanesInv, [Herdr!Next]_(Herdr!vars)
  PROVE  PanesInv'
  <1>1. CASE Herdr!Ping \/ Herdr!Starts \/ UNCHANGED Herdr!vars
    <2>1. /\ UNCHANGED <<pane, used, history, tracked, covered, stream, linked, owed>>
          /\ hpc' = hpc \/ (hpc = "waiting" /\ hpc' = "snapshot")
      BY <1>1 DEF Herdr!Ping, Herdr!Starts, Herdr!vars, Herdr!server, Herdr!daemon
    <2>2. Herdr!Live' = Herdr!Live
      BY <2>1 DEF Herdr!Live
    <2>3. PanesTyped' /\ OnlyUsed' /\ EventsTrue'
      BY <2>1, <2>2 DEF PanesInv, PanesTyped, OnlyUsed, EventsTrue
    <2>4. Between' /\ NewOnes'
      BY <2>1, <2>2 DEF PanesInv, Between, NewOnes, Herdr!Listening, Herdr!Streaming, Announces
    <2> QED
      BY <2>3, <2>4 DEF PanesInv
  <1>2. CASE Herdr!StreamEnds
    <2>1. /\ UNCHANGED <<pane, used, history, tracked, covered, linked>>
          /\ hpc' = "waiting" /\ stream' = <<>> /\ owed' = {}
      BY <1>2 DEF Herdr!StreamEnds, Herdr!Leave, Herdr!server
    <2>2. Herdr!Live' = Herdr!Live
      BY <2>1 DEF Herdr!Live
    <2>3. PanesTyped' /\ OnlyUsed' /\ EventsTrue'
      BY <2>1, <2>2 DEF PanesInv, PanesTyped, OnlyUsed, EventsTrue
    <2>4. Between' /\ NewOnes'
      BY <2>1, <2>2 DEF PanesInv, Between, NewOnes, Herdr!Listening, Herdr!Streaming, Announces
    <2> QED
      BY <2>3, <2>4 DEF PanesInv
  <1> QED
    BY <1>1, <1>2, StopsPanes, OpensPanes, ClosesPanes, TurnsPanes, SnapshotPanes,
       SubscribePanes, HandlePanes DEF Herdr!Next, Herdr!Cycle, Herdr!FreshIds

\* Herdr by itself.
LEMMA NewPanesAreCoveredAlone ==
  ASSUME Herdr!FreshIds
  PROVE  Herdr!Spec => []Herdr!NewPaneIsCovered
  <1>1. Herdr!Init => PanesInv
    BY PanesInit
  <1>2. PanesInv /\ [Herdr!Next]_(Herdr!vars) => PanesInv'
    BY PanesNext
  <1>3. PanesInv => Herdr!NewPaneIsCovered
    BY DEF PanesInv, NewOnes, Herdr!NewPaneIsCovered, Announces
  <1> QED
    BY <1>1, <1>2, <1>3, PTL DEF Herdr!Spec

\* A drained stream covers every live pane: a new one ends the cycle when its
\* creation is read (_adopt_new_pane of egress_herdr.py), for any number of
\* panes and restarts, as long as no id is given out twice.
THEOREM NewPanesAreCovered ==
  ASSUME Herdr!FreshIds PROVE ServicesSpec => []NewPaneIsCovered
  <1>1. Herdr!Spec => []Herdr!NewPaneIsCovered
    BY NewPanesAreCoveredAlone
  <1> QED
    BY <1>1, HerdrRuns, PTL DEF NewPaneIsCovered

-------------------------------------------------------------------------------
\* Who is owed a notification.

IsStatus(events, i, p) ==
    i \in DOMAIN events /\ events[i].kind = "status" /\ events[i].pane = p

\* What the daemon takes a pane's status to be when it reads event n of those
\* that wait: that of the pane's last status event before it, or known, what
\* the tracker has now.
Says(events, known, k, p, s) ==
    \/ k = 0 /\ known = s
    \/ k # 0 /\ IsStatus(events, k, p) /\ events[k].status = s
SaidBefore(events, known, n, p, s) ==
    \E k \in 0 .. n - 1 : /\ Says(events, known, k, p, s)
                          /\ \A j \in k + 1 .. n - 1 : ~IsStatus(events, j, p)

\* After its events are read, the tracker has the true status of every pane
\* that did not change unseen; before the subscription it has it already.
TrackerIsRight ==
    /\ hpc = "subscribe" => \A p \in (Herdr!Live \cap covered) \ gap : tracked[p] = pane[p]
    /\ Herdr!Listening => \A p \in (Herdr!Live \cap covered) \ gap :
                             SaidBefore(stream, tracked[p], Len(stream) + 1, p, pane[p])

\* An event of the pane will be read as a change, to a notified status.
WillBeTold(events, known, p) ==
    \E i \in DOMAIN events :
        /\ IsStatus(events, i, p) /\ events[i].status \in Notified
        /\ \E s \in Status \cup {Unknown} :
              s \notin {None, events[i].status} /\ SaidBefore(events, known, i, p, s)
OwedHaveEvents == \A p \in owed : p \in Herdr!Live \cap covered /\ WillBeTold(stream, tracked[p], p)

OwedInv == PanesInv /\ TrackerIsRight /\ OwedHaveEvents

\* An event joins those that wait.
LEMMA SaidAppend ==
  ASSUME NEW events \in Seq(Event), NEW e \in Event, NEW known, NEW p
  PROVE  /\ \A s : \A n \in 1 .. Len(events) + 1 :
              SaidBefore(events, known, n, p, s) => SaidBefore(Append(events, e), known, n, p, s)
         /\ \A s : /\ SaidBefore(events, known, Len(events) + 1, p, s)
                   /\ ~(e.kind = "status" /\ e.pane = p)
                   => SaidBefore(Append(events, e), known, Len(events) + 2, p, s)
         /\ e.kind = "status" /\ e.pane = p
              => SaidBefore(Append(events, e), known, Len(events) + 2, p, e.status)
         /\ WillBeTold(events, known, p) => WillBeTold(Append(events, e), known, p)
  <1> DEFINE L == Len(events)
             more == Append(events, e)
  <1>1. /\ L \in Nat /\ DOMAIN events = 1 .. L
        /\ DOMAIN more = 1 .. L + 1 /\ more[L + 1] = e
        /\ \A i \in 1 .. L : more[i] = events[i]
    OBVIOUS
  <1> HIDE DEF L, more
  <1>2. IsStatus(more, L + 1, p) <=> (e.kind = "status" /\ e.pane = p)
    BY <1>1 DEF IsStatus
  <1>3. \A i \in 0 .. L : IsStatus(more, i, p) <=> IsStatus(events, i, p)
    BY <1>1 DEF IsStatus
  <1>4. ASSUME NEW k \in 0 .. L, NEW s
        PROVE  Says(more, known, k, p, s) <=> Says(events, known, k, p, s)
    <2>1. CASE k = 0
      BY <2>1 DEF Says
    <2>2. CASE k # 0
      BY <1>1, <1>3, <2>2 DEF Says
    <2> QED
      BY <2>1, <2>2
  <1>5. ASSUME NEW n \in 1 .. L + 1, NEW s, SaidBefore(events, known, n, p, s)
        PROVE  SaidBefore(more, known, n, p, s)
    <2>1. PICK k \in 0 .. n - 1 : /\ Says(events, known, k, p, s)
                                  /\ \A j \in k + 1 .. n - 1 : ~IsStatus(events, j, p)
      BY <1>5 DEF SaidBefore
    <2>2. k \in 0 .. L /\ \A j \in k + 1 .. n - 1 : j \in 0 .. L
      BY <1>1, <2>1
    <2>3. Says(more, known, k, p, s) /\ \A j \in k + 1 .. n - 1 : ~IsStatus(more, j, p)
      BY <1>3, <1>4, <2>1, <2>2
    <2> QED
      BY <2>3 DEF SaidBefore
  <1>a. (L + 1) - 1 = L /\ (L + 2) - 1 = L + 1
    BY <1>1
  <1>6. ASSUME NEW s, SaidBefore(events, known, L + 1, p, s), ~(e.kind = "status" /\ e.pane = p)
        PROVE  SaidBefore(more, known, L + 2, p, s)
    <2>1. PICK k \in 0 .. L : /\ Says(events, known, k, p, s)
                              /\ \A j \in k + 1 .. L : ~IsStatus(events, j, p)
      BY <1>a, <1>6 DEF SaidBefore
    <2>2. \A j \in k + 1 .. L + 1 : j = L + 1 \/ (j \in 0 .. L /\ j \in k + 1 .. L)
      BY <1>1, <2>1
    <2>3. \A j \in k + 1 .. L + 1 : ~IsStatus(more, j, p)
      BY <1>2, <1>3, <1>6, <2>1, <2>2
    <2>4. Says(more, known, k, p, s) /\ k \in 0 .. L + 1
      BY <1>1, <1>4, <2>1
    <2> QED
      BY <1>a, <2>3, <2>4 DEF SaidBefore
  <1>7. ASSUME e.kind = "status", e.pane = p
        PROVE  SaidBefore(more, known, L + 2, p, e.status)
    <2>1. L + 1 # 0 /\ L + 1 \in 0 .. L + 1 /\ (L + 1) + 1 .. L + 1 = {}
      BY <1>1
    <2>2. Says(more, known, L + 1, p, e.status)
      BY <1>1, <1>2, <1>7, <2>1 DEF Says
    <2> QED
      BY <1>a, <2>1, <2>2 DEF SaidBefore
  <1>8. ASSUME WillBeTold(events, known, p) PROVE WillBeTold(more, known, p)
    <2>1. PICK i \in DOMAIN events :
            /\ IsStatus(events, i, p) /\ events[i].status \in Notified
            /\ \E s \in Status \cup {Unknown} :
                  s \notin {None, events[i].status} /\ SaidBefore(events, known, i, p, s)
      BY <1>8 DEF WillBeTold
    <2>2. i \in 1 .. L /\ i \in 0 .. L /\ i \in 1 .. L + 1 /\ i \in DOMAIN more
      BY <1>1
    <2>3. IsStatus(more, i, p) /\ more[i] = events[i]
      BY <1>1, <1>3, <2>1, <2>2
    <2> QED
      BY <1>5, <2>1, <2>2, <2>3 DEF WillBeTold
  <1> QED
    BY <1>5, <1>6, <1>7, <1>8 DEF L, more

\* The first event is read: the tracker has what it says.
LEMMA SaidTail ==
  ASSUME NEW events \in Seq(Event), events # <<>>, NEW known, NEW now, NEW p,
         now = IF IsStatus(events, 1, p) THEN events[1].status ELSE known
  PROVE  \A s : \A n \in 2 .. Len(events) + 1 :
            SaidBefore(events, known, n, p, s) => SaidBefore(Tail(events), now, n - 1, p, s)
  <1> DEFINE L == Len(events)
             rest == Tail(events)
  <1>1. /\ L \in Nat /\ DOMAIN events = 1 .. L
        /\ DOMAIN rest = 1 .. L - 1
        /\ \A i \in 1 .. L - 1 : rest[i] = events[i + 1]
    OBVIOUS
  <1> HIDE DEF L, rest
  <1>2. \A i \in 1 .. L - 1 : IsStatus(rest, i, p) <=> IsStatus(events, i + 1, p)
    BY <1>1 DEF IsStatus
  <1>3. ASSUME NEW n \in 2 .. L + 1, NEW s, SaidBefore(events, known, n, p, s)
        PROVE  SaidBefore(rest, now, n - 1, p, s)
    <2>1. PICK k \in 0 .. n - 1 : /\ Says(events, known, k, p, s)
                                  /\ \A j \in k + 1 .. n - 1 : ~IsStatus(events, j, p)
      BY <1>3 DEF SaidBefore
    <2>2. ASSUME NEW m \in 0 .. n - 2, m = 0 \/ m = k - 1, m = 0 => k \in {0, 1}
          PROVE  \A j \in m + 1 .. (n - 1) - 1 : ~IsStatus(rest, j, p)
      <3> SUFFICES ASSUME NEW j \in m + 1 .. (n - 1) - 1 PROVE ~IsStatus(rest, j, p)
        OBVIOUS
      <3>1. j + 1 \in k + 1 .. n - 1 /\ j \in 1 .. L - 1
        BY <1>1, <2>2
      <3> QED
        BY <1>2, <2>1, <3>1
    <2>a. 0 \in 0 .. (n - 1) - 1 /\ 0 \in 0 .. n - 2 /\ (n - 1) - 1 = n - 2
      OBVIOUS
    <2>3. CASE k = 0
      <3>1. 1 \in k + 1 .. n - 1
        BY <2>3
      <3>2. ~IsStatus(events, 1, p) /\ known = s
        BY <2>1, <2>3, <3>1 DEF Says
      <3>3. Says(rest, now, 0, p, s)
        BY <3>2 DEF Says
      <3>4. \A j \in 0 + 1 .. (n - 1) - 1 : ~IsStatus(rest, j, p)
        BY <2>2, <2>3, <2>a
      <3> QED
        BY <2>a, <3>3, <3>4 DEF SaidBefore
    <2>4. CASE k = 1
      <3>1. Says(rest, now, 0, p, s)
        BY <2>1, <2>4 DEF Says
      <3>2. \A j \in 0 + 1 .. (n - 1) - 1 : ~IsStatus(rest, j, p)
        BY <2>2, <2>4, <2>a
      <3> QED
        BY <2>a, <3>1, <3>2 DEF SaidBefore
    <2>5. CASE k \in 2 .. n - 1
      <3>1. k - 1 \in 1 .. L - 1 /\ k - 1 \in 0 .. n - 2 /\ k - 1 # 0 /\ (k - 1) + 1 = k
        BY <1>1, <2>5
      <3>2. IsStatus(events, k, p) /\ events[k].status = s
        BY <2>1, <2>5 DEF Says
      <3>3. IsStatus(rest, k - 1, p) /\ rest[k - 1] = events[k]
        BY <1>1, <1>2, <3>1, <3>2
      <3>4. Says(rest, now, k - 1, p, s)
        BY <3>1, <3>2, <3>3 DEF Says
      <3>5. \A j \in (k - 1) + 1 .. (n - 1) - 1 : ~IsStatus(rest, j, p)
        BY <2>2, <3>1
      <3> QED
        BY <2>a, <3>1, <3>4, <3>5 DEF SaidBefore
    <2>6. k = 0 \/ k = 1 \/ k \in 2 .. n - 1
      OBVIOUS
    <2> QED
      BY <2>3, <2>4, <2>5, <2>6
  <1> QED
    BY <1>3 DEF L, rest

-------------------------------------------------------------------------------
LEMMA OwedInit == Herdr!Init => TrackerIsRight /\ OwedHaveEvents
  BY DEF Herdr!Init, TrackerIsRight, OwedHaveEvents, Herdr!Listening, Herdr!Streaming

\* A creation or a closing leaves what is said of the other panes' statuses.
LEMMA GlobalEventOwed ==
  ASSUME OwedInv, NEW e \in Event, e.kind # "status",
         stream' = IF Herdr!Listening THEN Append(stream, e) ELSE stream,
         \A q \in Herdr!Live' \cap covered : q \in Herdr!Live /\ pane'[q] = pane[q],
         owed' \subseteq owed, owed' \subseteq Herdr!Live',
         UNCHANGED <<hpc, tracked, covered, linked, gap>>
  PROVE  TrackerIsRight' /\ OwedHaveEvents'
  <1>1. stream \in Seq(Event) /\ Len(stream) \in Nat
    BY DEF OwedInv, PanesInv, PanesTyped
  <1>2. Herdr!Listening' = Herdr!Listening
    BY DEF Herdr!Listening, Herdr!Streaming
  <1>3. ASSUME Herdr!Listening, NEW q \in (Herdr!Live' \cap covered') \ gap'
        PROVE  SaidBefore(stream', tracked'[q], Len(stream') + 1, q, pane'[q])
    <2>1. SaidBefore(stream, tracked[q], Len(stream) + 1, q, pane[q])
      BY <1>3 DEF OwedInv, TrackerIsRight
    <2>2. stream' = Append(stream, e) /\ Len(stream') + 1 = Len(stream) + 2 /\ pane'[q] = pane[q]
      BY <1>1, <1>3
    <2>3. SaidBefore(Append(stream, e), tracked[q], Len(stream) + 2, q, pane[q])
      BY <1>1, <2>1, SaidAppend
    <2> QED
      BY <2>2, <2>3
  <1>4. TrackerIsRight'
    BY <1>2, <1>3 DEF OwedInv, TrackerIsRight
  <1>5. ASSUME NEW q \in owed'
        PROVE  q \in Herdr!Live' \cap covered' /\ WillBeTold(stream', tracked'[q], q)
    <2>1. q \in covered /\ WillBeTold(stream, tracked[q], q)
      BY <1>5 DEF OwedInv, OwedHaveEvents
    <2>2. WillBeTold(Append(stream, e), tracked[q], q)
      BY <1>1, <2>1, SaidAppend
    <2> QED
      BY <1>5, <2>1, <2>2
  <1> QED
    BY <1>4, <1>5 DEF OwedHaveEvents

LEMMA OpensOwed ==
  ASSUME OwedInv, None \notin Status, NEW p \in Panes, Herdr!Opens(p)
  PROVE  TrackerIsRight' /\ OwedHaveEvents'
  <1>1. /\ p \notin used /\ stream' = IF Herdr!Listening THEN Append(stream, Herdr!Ev("created", p, Unknown))
                                      ELSE stream
        /\ UNCHANGED <<hpc, tracked, covered, linked, gap, owed>>
    BY DEF Herdr!Opens, Herdr!Tell, Herdr!daemon
  <1>2. PICK s \in Status : pane' = [pane EXCEPT ![p] = s]
    BY DEF Herdr!Opens
  <1>3. Herdr!Ev("created", p, Unknown) \in Event /\ Herdr!Ev("created", p, Unknown).kind # "status"
    BY DEF Herdr!Ev, Event
  <1>4. p \notin covered /\ DOMAIN pane = Panes
    BY <1>1 DEF OwedInv, PanesInv, PanesTyped, OnlyUsed
  <1>5. \A q \in Panes \ {p} : pane'[q] = pane[q]
    BY <1>2, <1>4
  <1>6. \A q \in Herdr!Live' \cap covered : q \in Herdr!Live /\ pane'[q] = pane[q]
    BY <1>4, <1>5 DEF Herdr!Live
  <1>7. \A q \in owed' : q \in Herdr!Live'
    BY <1>1, <1>4, <1>5 DEF OwedInv, OwedHaveEvents, Herdr!Live
  <1> QED
    BY <1>1, <1>3, <1>6, <1>7, GlobalEventOwed

\* A pane that closes is owed nothing.
LEMMA ClosesOwed ==
  ASSUME OwedInv, NEW p \in Panes, Herdr!Closes(p)
  PROVE  TrackerIsRight' /\ OwedHaveEvents'
  <1>1. /\ p \in Herdr!Live /\ stream' = IF Herdr!Listening THEN Append(stream, Herdr!Ev("closed", p, None))
                                         ELSE stream
        /\ pane' = [pane EXCEPT ![p] = None] /\ owed' = owed \ {p}
        /\ UNCHANGED <<hpc, tracked, covered, linked, gap>>
    BY DEF Herdr!Closes, Herdr!Tell, Herdr!daemon
  <1>2. Herdr!Ev("closed", p, None) \in Event /\ Herdr!Ev("closed", p, None).kind # "status"
    BY DEF Herdr!Ev, Event
  <1>3. DOMAIN pane = Panes
    BY DEF OwedInv, PanesInv, PanesTyped
  <1>4. pane'[p] = None /\ \A q \in Panes \ {p} : pane'[q] = pane[q]
    BY <1>1, <1>3
  <1>5. \A q \in Herdr!Live' \cap covered : q \in Herdr!Live /\ pane'[q] = pane[q]
    BY <1>4 DEF Herdr!Live
  <1>6. \A q \in owed' : q \in Herdr!Live'
    BY <1>1, <1>4 DEF OwedInv, OwedHaveEvents, Herdr!Live
  <1> QED
    BY <1>1, <1>2, <1>5, <1>6, GlobalEventOwed

\* The event of a turn that the daemon will see joins the others; before it the
\* daemon takes the pane for what it was until now, so the event is a change.
LEMMA TurnsOwed ==
  ASSUME OwedInv, None \notin Status, NEW p \in Panes, NEW s \in Status, Herdr!Turns(p, s)
  PROVE  TrackerIsRight' /\ OwedHaveEvents'
  <1> DEFINE e == Herdr!Ev("status", p, s)
             L == Len(stream)
  <1>1. /\ p \in Herdr!Live /\ s # pane[p] /\ pane' = [pane EXCEPT ![p] = s]
        /\ UNCHANGED <<hpc, tracked, covered, linked>>
    BY DEF Herdr!Turns, Herdr!daemon
  <1>2. stream \in Seq(Event) /\ pane \in [Panes -> Status \cup {None}] /\ L \in Nat
    BY DEF OwedInv, PanesInv, PanesTyped
  <1>3. e \in Event /\ e.kind = "status" /\ e.pane = p /\ e.status = s
    BY DEF Herdr!Ev, Event
  <1>4. /\ Herdr!Live' = Herdr!Live /\ Herdr!Live \subseteq Panes /\ Herdr!Listening' = Herdr!Listening
        /\ pane'[p] = s /\ \A q \in Panes \ {p} : pane'[q] = pane[q]
    BY <1>1, <1>2 DEF Herdr!Live, Herdr!Listening, Herdr!Streaming
  <1>5. CASE Herdr!Listening /\ p \in covered
    <2>1. /\ stream' = Append(stream, e) /\ gap' = gap \ {p}
          /\ owed' = owed \/ (owed' = owed \cup {p} /\ s \in Notified /\ p \notin gap)
      BY <1>5 DEF Herdr!Turns, Herdr!Tell
    <2> HIDE DEF e
    <2>2. /\ L + 1 \in 1 .. L + 1 /\ Len(stream') + 1 = L + 2
          /\ L + 1 \in DOMAIN stream' /\ stream'[L + 1] = e
      BY <1>2, <1>3, <2>1
    <2>3. ASSUME NEW q \in (Herdr!Live' \cap covered') \ gap'
          PROVE  SaidBefore(stream', tracked'[q], Len(stream') + 1, q, pane'[q])
      <3>1. CASE q = p
        <4>1. SaidBefore(stream', tracked[p], L + 2, p, s)
          BY <1>2, <1>3, <2>1, SaidAppend
        <4> QED
          BY <1>1, <1>4, <2>2, <3>1, <4>1
      <3>2. CASE q # p
        <4>1. q \in (Herdr!Live \cap covered) \ gap /\ pane'[q] = pane[q]
          BY <1>1, <1>4, <2>1, <2>3, <3>2
        <4>2. SaidBefore(stream, tracked[q], L + 1, q, pane[q])
          BY <1>5, <4>1 DEF OwedInv, TrackerIsRight
        <4>3. SaidBefore(stream', tracked[q], L + 2, q, pane[q])
          BY <1>2, <1>3, <2>1, <3>2, <4>2, SaidAppend
        <4> QED
          BY <1>1, <2>2, <4>1, <4>3
      <3> QED
        BY <3>1, <3>2
    <2>4. TrackerIsRight'
      BY <1>1, <1>5, <2>3 DEF TrackerIsRight, Herdr!Listening, Herdr!Streaming
    <2>5. ASSUME NEW q \in owed
          PROVE  q \in Herdr!Live' \cap covered' /\ WillBeTold(stream', tracked'[q], q)
      <3>1. q \in Herdr!Live \cap covered /\ WillBeTold(stream, tracked[q], q)
        BY DEF OwedInv, OwedHaveEvents
      <3>2. WillBeTold(stream', tracked[q], q)
        BY <1>2, <1>3, <2>1, <3>1, SaidAppend
      <3> QED
        BY <1>1, <1>4, <3>1, <3>2
    <2>6. ASSUME s \in Notified, p \notin gap
          PROVE  p \in Herdr!Live' \cap covered' /\ WillBeTold(stream', tracked'[p], p)
      <3>1. SaidBefore(stream, tracked[p], L + 1, p, pane[p])
        BY <1>1, <1>5, <2>6 DEF OwedInv, TrackerIsRight
      <3>2. SaidBefore(stream', tracked[p], L + 1, p, pane[p])
        BY <1>2, <1>3, <2>1, <2>2, <3>1, SaidAppend
      <3>3. pane[p] \in Status /\ pane[p] \notin {None, s}
        BY <1>1, <1>2 DEF Herdr!Live
      <3>4. IsStatus(stream', L + 1, p) /\ stream'[L + 1].status = s
        BY <1>3, <2>2 DEF IsStatus
      <3>5. WillBeTold(stream', tracked[p], p)
        BY <2>2, <2>6, <3>2, <3>3, <3>4 DEF WillBeTold
      <3> QED
        BY <1>1, <1>4, <1>5, <3>5
    <2> QED
      BY <2>1, <2>4, <2>5, <2>6 DEF OwedHaveEvents
  <1>6. CASE ~(Herdr!Listening /\ p \in covered)
    <2>1. /\ gap' = IF hpc = "subscribe" THEN gap \cup {p} ELSE gap
          /\ stream' = stream /\ owed' = owed
      BY <1>6 DEF Herdr!Turns
    <2>2. TrackerIsRight'
      BY <1>1, <1>4, <1>6, <2>1 DEF OwedInv, TrackerIsRight
    <2> QED
      BY <1>1, <1>4, <2>1, <2>2 DEF OwedInv, OwedHaveEvents
  <1> QED
    BY <1>5, <1>6

\* The history holds no statuses, so the daemon goes by the snapshot's.
LEMMA SubscribeOwed ==
  ASSUME OwedInv, Herdr!Subscribe
  PROVE  TrackerIsRight' /\ OwedHaveEvents'
  <1>1. /\ hpc = "subscribe" /\ UNCHANGED <<pane, tracked, covered, gap, owed>>
        /\ \/ hpc' = "streaming" /\ stream' = history /\ linked' = TRUE
           \/ hpc' = "waiting" /\ UNCHANGED <<stream, linked>>
    BY DEF Herdr!Subscribe, Herdr!server
  <1>2. owed = {} /\ Herdr!Live' = Herdr!Live /\ history \in Seq(Event)
    BY <1>1 DEF OwedInv, PanesInv, PanesTyped, Between, Herdr!Live, Herdr!Streaming, Herdr!Listening
  <1>3. OwedHaveEvents'
    BY <1>1, <1>2 DEF OwedHaveEvents
  <1>4. CASE hpc' = "waiting"
    BY <1>3, <1>4 DEF TrackerIsRight, Herdr!Listening, Herdr!Streaming
  <1>5. CASE stream' = history
    <2>1. ASSUME NEW q \in (Herdr!Live' \cap covered') \ gap'
          PROVE  SaidBefore(history, tracked[q], Len(history) + 1, q, pane[q])
      <3>1. tracked[q] = pane[q]
        BY <1>1, <1>2, <2>1 DEF OwedInv, TrackerIsRight
      <3>2. \A j \in DOMAIN history : ~IsStatus(history, j, q)
        BY DEF OwedInv, PanesInv, EventsTrue, IsStatus
      <3>3. /\ 0 \in 0 .. (Len(history) + 1) - 1
            /\ 0 + 1 .. (Len(history) + 1) - 1 \subseteq DOMAIN history
        BY <1>2
      <3>4. Says(history, tracked[q], 0, q, pane[q])
        BY <3>1 DEF Says
      <3> QED
        BY <3>2, <3>3, <3>4 DEF SaidBefore
    <2>2. Herdr!Listening' => \A q \in (Herdr!Live' \cap covered') \ gap' :
          SaidBefore(stream', tracked'[q], Len(stream') + 1, q, pane'[q])
      BY <1>1, <1>5, <2>1
    <2>3. hpc' # "subscribe"
      BY <1>1
    <2> QED
      BY <1>3, <2>2, <2>3 DEF TrackerIsRight
  <1> QED
    BY <1>1, <1>4, <1>5

\* An event that is read is what the tracker has next; one that a pane is owed
\* for is read as a change, and the pane is told of.
LEMMA HandleOwed ==
  ASSUME OwedInv, Herdr!Handle
  PROVE  TrackerIsRight' /\ OwedHaveEvents'
  <1> DEFINE e == Head(stream)
             L == Len(stream)
  <1>1. /\ Herdr!Streaming /\ stream # <<>>
        /\ UNCHANGED <<pane, covered, linked, gap>>
        /\ Herdr!Created(e) \/ Herdr!Closed(e) \/ Herdr!StatusChanged(e)
    BY DEF Herdr!Handle, Herdr!server
  <1>2. /\ stream \in Seq(Event) /\ DOMAIN tracked = Panes /\ L \in Nat /\ L # 0
        /\ Len(Tail(stream)) + 1 = L /\ L + 1 \in 2 .. L + 1 /\ (L + 1) - 1 = L
    BY <1>1 DEF OwedInv, PanesInv, PanesTyped
  <1>3. /\ \A i \in DOMAIN stream :
             i # 1 => /\ i - 1 \in DOMAIN Tail(stream) /\ Tail(stream)[i - 1] = stream[i]
                      /\ i \in 2 .. L + 1
        /\ 1 \in DOMAIN stream /\ e = stream[1] /\ e.pane \in Panes
    <2>1. stream[1] \in Event => stream[1].pane \in Panes
      BY DEF Event
    <2>2. \A i \in DOMAIN stream : i # 1 => i \in 2 .. L + 1
      BY <1>2
    <2> HIDE DEF L
    <2> QED
      BY <1>1, <1>2, <2>1, <2>2, TailAt
  <1>4. Herdr!Live' = Herdr!Live /\ Herdr!Live \subseteq Panes /\ (e.kind = "closed" => e.pane \notin Herdr!Live)
    BY <1>1, <1>3 DEF Herdr!Live, OwedInv, PanesInv, EventsTrue
  <1> HIDE DEF e
  <1>5. CASE hpc' = "streaming"
    <2>1. stream' = Tail(stream) /\ owed' \subseteq owed
      BY <1>1, <1>5 DEF Herdr!Created, Herdr!Closed, Herdr!StatusChanged, Herdr!Leave
    <2>2. \A q \in Herdr!Live : tracked'[q] = IF IsStatus(stream, 1, q) THEN stream[1].status
                                              ELSE tracked[q]
      <3>1. CASE e.kind = "status"
        <4>1. tracked' = [tracked EXCEPT ![e.pane] = e.status]
          BY <1>1, <3>1 DEF Herdr!Created, Herdr!Closed, Herdr!StatusChanged
        <4> QED
          BY <1>2, <1>3, <1>4, <3>1, <4>1 DEF IsStatus
      <3>2. CASE e.kind # "status"
        <4>1. tracked' = tracked \/ (e.kind = "closed" /\ tracked' = [tracked EXCEPT ![e.pane] = None])
          BY <1>1, <1>5, <3>2 DEF Herdr!Created, Herdr!Closed, Herdr!StatusChanged, Herdr!Leave
        <4> QED
          BY <1>2, <1>3, <1>4, <3>2, <4>1 DEF IsStatus
      <3> QED
        BY <3>1, <3>2
    <2>3. \A q \in Herdr!Live : \A s : \A n \in 2 .. L + 1 :
             SaidBefore(stream, tracked[q], n, q, s) => SaidBefore(stream', tracked'[q], n - 1, q, s)
      BY <1>1, <1>2, <2>1, <2>2, SaidTail
    <2>4. TrackerIsRight'
      <3>1. ASSUME Herdr!Listening, NEW q \in (Herdr!Live \cap covered) \ gap
            PROVE  SaidBefore(stream', tracked'[q], Len(stream') + 1, q, pane[q])
        <4>1. SaidBefore(stream, tracked[q], L + 1, q, pane[q])
          BY <3>1 DEF OwedInv, TrackerIsRight
        <4>2. SaidBefore(stream', tracked'[q], (L + 1) - 1, q, pane[q])
          BY <1>2, <2>3, <4>1
        <4> QED
          BY <1>2, <2>1, <4>2
      <3> QED
        BY <1>1, <1>4, <1>5, <3>1 DEF TrackerIsRight, Herdr!Listening, Herdr!Streaming
    <2>5. ASSUME NEW q \in owed'
          PROVE  q \in Herdr!Live' \cap covered' /\ WillBeTold(stream', tracked'[q], q)
      <3>1. q \in Herdr!Live \cap covered /\ WillBeTold(stream, tracked[q], q)
        BY <2>1 DEF OwedInv, OwedHaveEvents
      <3>2. PICK i \in DOMAIN stream, s \in Status \cup {Unknown} :
              /\ IsStatus(stream, i, q) /\ stream[i].status \in Notified
              /\ s \notin {None, stream[i].status} /\ SaidBefore(stream, tracked[q], i, q, s)
        BY <3>1 DEF WillBeTold
      <3>3. i # 1
        <4> SUFFICES ASSUME i = 1 PROVE FALSE
          OBVIOUS
        <4>1. e.kind = "status" /\ e.pane = q /\ e.status \in Notified
          BY <1>3, <3>2 DEF IsStatus
        <4>2. tracked[q] = s
          BY <3>2 DEF SaidBefore, Says
        <4>3. owed' = owed \ {q}
          BY <1>1, <1>3, <3>2, <4>1, <4>2 DEF Herdr!Created, Herdr!Closed, Herdr!StatusChanged
        <4> QED
          BY <2>5, <4>3
      <3>4. i - 1 \in DOMAIN stream' /\ stream'[i - 1] = stream[i] /\ i \in 2 .. L + 1
        BY <1>3, <2>1, <3>3
      <3>5. IsStatus(stream', i - 1, q) /\ SaidBefore(stream', tracked'[q], i - 1, q, s)
        BY <2>3, <3>1, <3>2, <3>4 DEF IsStatus
      <3>6. WillBeTold(stream', tracked'[q], q)
        BY <3>2, <3>4, <3>5 DEF WillBeTold
      <3> QED
        BY <1>1, <1>4, <3>1, <3>6
    <2> QED
      BY <2>4, <2>5 DEF OwedHaveEvents
  <1>6. CASE hpc' # "streaming"
    <2>1. hpc' = "snapshot" /\ owed' = {}
      BY <1>1, <1>6 DEF Herdr!Created, Herdr!Closed, Herdr!StatusChanged, Herdr!Leave, Herdr!Streaming
    <2> QED
      BY <2>1 DEF TrackerIsRight, OwedHaveEvents, Herdr!Listening, Herdr!Streaming
  <1> QED
    BY <1>5, <1>6

LEMMA OwedNext ==
  ASSUME OwedInv, Herdr!FreshIds, [Herdr!Next]_(Herdr!vars)
  PROVE  TrackerIsRight' /\ OwedHaveEvents'
  <1>1. CASE Herdr!Starts \/ UNCHANGED Herdr!vars
    <2>1. UNCHANGED <<pane, hpc, tracked, covered, stream, linked, gap, owed>>
      BY <1>1 DEF Herdr!Starts, Herdr!vars, Herdr!server, Herdr!daemon
    <2>2. Herdr!Live' = Herdr!Live
      BY <2>1 DEF Herdr!Live
    <2> QED
      BY <2>1, <2>2 DEF OwedInv, TrackerIsRight, OwedHaveEvents, Herdr!Listening, Herdr!Streaming
  <1>2. CASE Herdr!Stops
    BY <1>2 DEF Herdr!Stops, Herdr!daemon, TrackerIsRight, OwedHaveEvents, Herdr!Listening, Herdr!Live
  <1>3. CASE Herdr!Ping \/ Herdr!StreamEnds
    <2>1. hpc' \in {"snapshot", "waiting"} /\ owed' = {}
      BY <1>3 DEF Herdr!Ping, Herdr!StreamEnds, Herdr!Leave, OwedInv, PanesInv, Between, Herdr!Listening, Herdr!Streaming
    <2> QED
      BY <2>1 DEF TrackerIsRight, OwedHaveEvents, Herdr!Listening, Herdr!Streaming
  <1>4. CASE Herdr!Snapshot
    <2>1. /\ owed' = {} /\ hpc' \in {"subscribe", "waiting"} /\ pane' = pane
          /\ hpc' = "subscribe" => tracked' = Herdr!Seeded
      BY <1>4 DEF Herdr!Snapshot, Herdr!server, OwedInv, PanesInv, Between, Herdr!Listening, Herdr!Streaming
    <2>2. \A q \in Herdr!Live' : Herdr!Seeded[q] = pane'[q]
      BY <2>1 DEF Herdr!Seeded, Herdr!Live
    <2> QED
      BY <2>1, <2>2 DEF TrackerIsRight, OwedHaveEvents, Herdr!Listening, Herdr!Streaming
  <1> QED
    BY <1>1, <1>2, <1>3, <1>4, OpensOwed, ClosesOwed, TurnsOwed, SubscribeOwed,
       HandleOwed DEF Herdr!Next, Herdr!Cycle, Herdr!FreshIds

\* Herdr by itself.
LEMMA BlockedAreToldAlone ==
  ASSUME Herdr!FreshIds
  PROVE  Herdr!Spec => []Herdr!BlockedIsTold
  <1>1. Herdr!Init => OwedInv
    BY PanesInit, OwedInit DEF OwedInv
  <1>2. OwedInv /\ [Herdr!Next]_(Herdr!vars) => OwedInv'
    BY PanesNext, OwedNext DEF OwedInv
  <1>3. OwedInv => Herdr!BlockedIsTold
    BY DEF OwedInv, OwedHaveEvents, WillBeTold, IsStatus, Herdr!BlockedIsTold, Herdr!Pending
  <1> QED
    BY <1>1, <1>2, <1>3, PTL DEF Herdr!Spec

\* A pane that enters a notified status while the daemon follows it is spoken
\* for by the time its events are read (apply_status, _adopt_new_pane), for any
\* panes, statuses and restarts, as long as no id is given out twice.
THEOREM BlockedAreTold ==
  ASSUME Herdr!FreshIds PROVE ServicesSpec => []BlockedIsTold
  <1>1. Herdr!Spec => []Herdr!BlockedIsTold
    BY BlockedAreToldAlone
  <1> QED
    BY <1>1, HerdrRuns, PTL DEF BlockedIsTold

-----------------------------------------------------------------------------
(***************************************************************************)
(* GitCredentials.  Whatever a key file defines is named by its table,     *)
(* unset by every launcher, or a plugin's secret slot; a process clears    *)
(* the first two, so one lane leaves only slots to the next.               *)
(***************************************************************************)

InLane(e) ==
    \A v \in DOMAIN e.vars :
        v \in Git!Range(e.table) \cup GhVars \/ Git!IsSlot(v, e.vars[v])

FilesInLane ==
    /\ DOMAIN keyfiles = Git!Known
    /\ \A i \in Git!Known : keyfiles[i] # None => InLane(keyfiles[i])

\* The secrets are appended to a file that is there.
SlotsComeLast ==
    /\ slots \in Bindings
    /\ \A i \in Git!Known : <<i, "slots">> \in writing =>
         <<i, "table">> \in writing \/ InLane(keyfiles[i])

EnvInLane ==
    /\ DOMAIN env = Shells
    /\ \A p \in Shells : env[p] # None => InLane(env[p])

LaneInv == FilesInLane /\ SlotsComeLast /\ EnvInLane /\ Git!OwnLaneOnly

LEMMA LaneInit == Git!Init => LaneInv
  BY DEF Git!Init, LaneInv, FilesInLane, SlotsComeLast, EnvInLane, Git!OwnLaneOnly

LEMMA LaunchLane ==
  ASSUME LaneInv, NEW p \in Shells, NEW q \in Shells, NEW i \in Git!Known, Git!Launch(p, q, i)
  PROVE  LaneInv'
  <1> DEFINE sourced == IF keyfiles[i] = None THEN Git!Nothing ELSE keyfiles[i]
             left == Git!Inherited(q)
             e == [ident |-> i, table |-> sourced.table, vars |-> Git!Joined(sourced.vars, left),
                   file |-> sourced]
  <1>1. env' = [env EXCEPT ![p] = e] /\ UNCHANGED <<keyfiles, slots, writing>>
    BY DEF Git!Launch
  <1>2. \A v \in DOMAIN left : v \notin GhVars /\ Git!IsSlot(v, left[v])
    <2>1. CASE env[q] = None
      BY <2>1 DEF Git!Inherited, Git!NoRows
    <2>2. CASE env[q] # None
      <3>1. InLane(env[q])
        BY <2>2 DEF LaneInv, EnvInLane
      <3> QED
        BY <2>2, <3>1 DEF InLane, Git!Inherited, Git!Cleared, Git!Restrict
    <2> QED
      BY <2>1, <2>2
  <1>3. InLane(sourced)
    <2>1. CASE keyfiles[i] = None
      BY <2>1 DEF InLane, Git!Nothing, Git!NoRows
    <2>2. CASE keyfiles[i] # None
      BY <2>2 DEF LaneInv, FilesInLane
    <2> QED
      BY <2>1, <2>2
  <1> HIDE DEF sourced, left
  <1>4. e.table = sourced.table /\ e.file = sourced /\ e.vars = Git!Joined(sourced.vars, left)
    OBVIOUS
  <1> HIDE DEF e
  <1>5. /\ \A v \in DOMAIN sourced.vars : v \in DOMAIN e.vars /\ e.vars[v] = sourced.vars[v]
        /\ \A v \in DOMAIN e.vars \ DOMAIN sourced.vars :
             v \in DOMAIN left /\ e.vars[v] = left[v]
    BY <1>4 DEF Git!Joined
  <1>6. InLane(e)
    BY <1>2, <1>3, <1>4, <1>5 DEF InLane
  <1>7. \A r \in Shells : env'[r] = IF r = p THEN e ELSE env[r]
    BY <1>1 DEF LaneInv, EnvInLane
  <1>8. EnvInLane'
    <2>1. DOMAIN env' = Shells
      BY <1>1 DEF LaneInv, EnvInLane
    <2>2. ASSUME NEW r \in Shells, env'[r] # None PROVE InLane(env'[r])
      BY <1>6, <1>7, <2>2 DEF LaneInv, EnvInLane
    <2> QED
      BY <2>1, <2>2 DEF EnvInLane, InLane, Git!IsSlot
  <1>9. Git!OwnLaneOnly'
    <2> SUFFICES ASSUME NEW r \in Shells, env'[r] # None
                 PROVE  /\ env'[r].table = env'[r].file.table
                        /\ \A v \in DOMAIN env'[r].file.vars :
                             v \in DOMAIN env'[r].vars /\ env'[r].vars[v] = env'[r].file.vars[v]
                        /\ \A v \in DOMAIN env'[r].vars \ DOMAIN env'[r].file.vars :
                             v \notin GhVars /\ Git!IsSlot(v, env'[r].vars[v])
      BY DEF Git!OwnLaneOnly, Git!IsSlot
    <2>1. CASE r = p
      BY <1>2, <1>4, <1>5, <1>7, <2>1
    <2>2. CASE r # p
      BY <1>7, <2>2 DEF LaneInv, Git!OwnLaneOnly
    <2> QED
      BY <2>1, <2>2
  <1>10. FilesInLane' /\ SlotsComeLast'
    BY <1>1 DEF LaneInv, FilesInLane, SlotsComeLast, InLane, Git!Known, Git!IsSlot
  <1> QED
    BY <1>8, <1>9, <1>10 DEF LaneInv

\* A file of this run is of its lane, with or without its slots.
LEMMA BlockInLane ==
  ASSUME Git!GitAssumption, NEW d, NEW i
  PROVE  InLane(Git!GitBlock(d, i))
  <1> DEFINE table == Git!IdentityTable(d, i)
             own == [v \in Git!Range(table) |-> v]
  <1>1. /\ Git!GitBlock(d, i).table = table
        /\ Git!GitBlock(d, i).vars = Git!Joined(own, Git!TokenSource(table))
    BY DEF Git!GitBlock
  <1>2. DOMAIN Git!TokenSource(table) \subseteq {CliVar}
    BY DEF Git!TokenSource, Git!Row, Git!NoRows
  <1>3. CliVar \in GhVars
    BY DEF Git!GitAssumption
  <1> HIDE DEF table
  <1> QED
    BY <1>1, <1>2, <1>3 DEF InLane, Git!Joined

LEMMA SlotsInLane ==
  ASSUME NEW f, InLane(f), NEW b \in Bindings, NEW i \in Git!Known
  PROVE  InLane(Git!WithSlots(f, b[i]))
  BY DEF InLane, Git!WithSlots, Git!Joined, Git!IsSlot

LEMMA LaneNext ==
  ASSUME Git!GitAssumption, LaneInv, [Git!Next]_(Git!vars)
  PROVE  LaneInv'
  <1>1. ASSUME FilesInLane', SlotsComeLast', UNCHANGED env
        PROVE  LaneInv'
    BY <1>1 DEF LaneInv, EnvInLane, InLane, Git!OwnLaneOnly, Git!IsSlot
  <1>2. ASSUME NEW s, Git!Up(s)
        PROVE  LaneInv'
    <2>1. FilesInLane'
      BY <1>2 DEF Git!Up, FilesInLane, Git!Known
    <2>2. SlotsComeLast'
      BY <1>2 DEF Git!Up, SlotsComeLast, Git!Known
    <2> QED
      BY <1>1, <1>2, <2>1, <2>2 DEF Git!Up
  <1>3. ASSUME NEW i \in Git!Known, NEW f, InLane(f), NEW step,
               keyfiles' = [keyfiles EXCEPT ![i] = f], writing' = writing \ {<<i, step>>},
               UNCHANGED <<slots, env>>
        PROVE  LaneInv'
    <2>1. /\ DOMAIN keyfiles' = Git!Known
          /\ \A j \in Git!Known : keyfiles'[j] = IF j = i THEN f ELSE keyfiles[j]
      BY <1>3 DEF LaneInv, FilesInLane
    <2>2. FilesInLane'
      <3>1. ASSUME NEW j \in Git!Known, keyfiles'[j] # None PROVE InLane(keyfiles'[j])
        BY <1>3, <2>1, <3>1 DEF LaneInv, FilesInLane
      <3> QED
        BY <2>1, <3>1 DEF FilesInLane, InLane, Git!Known, Git!IsSlot
    <2>3. SlotsComeLast'
      <3>1. ASSUME NEW j \in Git!Known, <<j, "slots">> \in writing', <<j, "table">> \notin writing'
            PROVE  InLane(keyfiles'[j])
        BY <1>3, <2>1, <3>1 DEF LaneInv, SlotsComeLast
      <3> QED
        BY <1>3, <3>1 DEF LaneInv, SlotsComeLast, InLane, Git!Known, Git!IsSlot
    <2> QED
      BY <1>1, <1>3, <2>2, <2>3
  <1>4. ASSUME NEW i \in Git!Known, Git!WriteKeyfile(i)
        PROVE  LaneInv'
    <2>1. InLane(Git!GitBlock(derived, i))
      BY BlockInLane
    <2> QED
      BY <1>3, <1>4, <2>1 DEF Git!WriteKeyfile
  <1>5. ASSUME NEW i \in Git!Known, Git!AppendSecrets(i)
        PROVE  LaneInv'
    <2>1. InLane(keyfiles[i])
      BY <1>5 DEF Git!AppendSecrets, LaneInv, SlotsComeLast
    <2>2. InLane(Git!WithSlots(keyfiles[i], slots[i]))
      BY <2>1, SlotsInLane DEF LaneInv, FilesInLane, SlotsComeLast
    <2> QED
      BY <1>3, <1>5, <2>2 DEF Git!AppendSecrets
  <1>6. ASSUME NEW p \in Shells, Git!Exit(p)
        PROVE  LaneInv'
    <2>1. env' = [env EXCEPT ![p] = None] /\ UNCHANGED <<keyfiles, slots, writing>>
      BY <1>6 DEF Git!Exit
    <2>2. FilesInLane' /\ SlotsComeLast'
      BY <2>1 DEF LaneInv, FilesInLane, SlotsComeLast, InLane, Git!Known, Git!IsSlot
    <2>3. EnvInLane' /\ Git!OwnLaneOnly'
      BY <2>1 DEF LaneInv, EnvInLane, InLane, Git!OwnLaneOnly, Git!IsSlot
    <2> QED
      BY <2>2, <2>3 DEF LaneInv
  <1>7. CASE UNCHANGED Git!vars
    BY <1>7 DEF Git!vars, LaneInv, FilesInLane, SlotsComeLast, EnvInLane, InLane, Git!OwnLaneOnly,
       Git!Known, Git!IsSlot
  <1> QED
    BY <1>2, <1>4, <1>5, <1>6, <1>7, LaunchLane DEF Git!Next

\* Git by itself.
LEMMA OwnLaneAlone == ASSUME Git!GitAssumption PROVE Git!Spec => []Git!OwnLaneOnly
  <1>1. Git!Init => LaneInv
    BY LaneInit
  <1>2. LaneInv /\ [Git!Next]_(Git!vars) => LaneInv'
    BY LaneNext
  <1>3. LaneInv => Git!OwnLaneOnly
    BY DEF LaneInv
  <1> QED
    BY <1>1, <1>2, <1>3, PTL DEF Git!Spec

\* A process launched for an identity has the table and the variables of that
\* identity's key file, and of the lanes it was launched from nothing but plugins'
\* secret slots, which no launcher clears (keyfiles.sh, agent_shim.sh,
\* clear-git-identity.sh).
THEOREM OwnLane == ServicesSpec => []OwnLaneOnly
  <1>1. Git!Spec => []Git!OwnLaneOnly
    BY OwnLaneAlone, ServicesAssumption DEF ServicesAssumption
  <1>2. Git!OwnLaneOnly \/ ~InGit => OwnLaneOnly
    BY DEF OwnLaneOnly, InGit
  <1> QED
    BY <1>1, <1>2, GitRuns, PTL

LEMMA Least ==
  ASSUME NEW S \in SUBSET Nat, S # {}
  PROVE  \E m \in S : \A k \in S : m <= k
  <1>1. PICK m \in S : \A k \in S : <<k, m>> \notin OpToRel(<, Nat)
    BY WFMin, NatLessThanWellFounded, Zenon
  <1>2. \A k \in S : ~(k < m)
    BY <1>1, Zenon DEF OpToRel
  <1> QED
    BY <1>2

-----------------------------------------------------------------------------
(***************************************************************************)
(* GitCredentials: what the files say.  As long as the walk over git.hosts *)
(* has found nothing wrong, its row of a host is the token of the entry    *)
(* for everyone it has read, and a row of an identity the token of the     *)
(* identity's own entry.  The walk is a recursion over the section, and    *)
(* over the list of a key: the first step after which it did not tell what *)
(* it read would follow one that does.                                     *)
(***************************************************************************)

\* One step of the walk over a host's list, or over the section.
Step(kind, w, h, x) == IF kind = "list" THEN Git!ListEntry(w, h, x) ELSE Git!OneKey(w, x)

\* f is what a walk over the first k of xs goes through, from s on.
Walks(f, s, xs, kind, h, k) == f = [i \in 0 .. k |-> IF i = 0 THEN s ELSE Step(kind, f[i - 1], h, xs[i])]

LEMMA WalksAt ==
  ASSUME NEW f, NEW s, NEW xs, NEW kind, NEW h, NEW k \in Nat, Walks(f, s, xs, kind, h, k)
  PROVE  /\ DOMAIN f = 0 .. k /\ f[0] = s
         /\ \A i \in 1 .. k : f[i] = Step(kind, f[i - 1], h, xs[i])
  <1> DEFINE val(i) == IF i = 0 THEN s ELSE Step(kind, f[i - 1], h, xs[i])
  <1>1. f = [i \in 0 .. k |-> val(i)]
    BY DEF Walks
  <1>2. DOMAIN f = 0 .. k /\ \A i \in 0 .. k : f[i] = val(i)
    <2> HIDE DEF val
    <2> QED
      BY <1>1
  <1>3. 0 \in 0 .. k /\ \A i \in 1 .. k : i \in 0 .. k /\ i # 0
    OBVIOUS
  <1> QED
    BY <1>2, <1>3

LEMMA WalksFrom ==
  ASSUME NEW f, NEW s, NEW xs, NEW kind, NEW h, NEW k \in Nat,
         f = [i \in 0 .. k |-> f[i]], f[0] = s,
         \A i \in 1 .. k : f[i] = Step(kind, f[i - 1], h, xs[i])
  PROVE  Walks(f, s, xs, kind, h, k)
  <1> DEFINE val(i) == IF i = 0 THEN s ELSE Step(kind, f[i - 1], h, xs[i])
  <1>1. \A i \in 0 .. k : i = 0 \/ i \in 1 .. k
    OBVIOUS
  <1>2. \A i \in 0 .. k : f[i] = val(i)
    BY <1>1
  <1>3. f = [i \in 0 .. k |-> val(i)]
    <2> HIDE DEF val
    <2> QED
      BY <1>2
  <1> QED
    BY <1>3 DEF Walks

LEMMA WalksOneMore ==
  ASSUME NEW f, NEW s, NEW xs, NEW kind, NEW h, NEW k \in Nat, Walks(f, s, xs, kind, h, k)
  PROVE  \E g : Walks(g, s, xs, kind, h, k + 1)
  <1> DEFINE final == Step(kind, f[k], h, xs[k + 1])
             g == [i \in 0 .. (k + 1) |-> IF i = k + 1 THEN final ELSE f[i]]
  <1>1. /\ g = [i \in 0 .. (k + 1) |-> g[i]] /\ g[k + 1] = final
        /\ \A i \in 0 .. k : g[i] = f[i]
    OBVIOUS
  <1>2. f[0] = s /\ \A i \in 1 .. k : f[i] = Step(kind, f[i - 1], h, xs[i])
    BY WalksAt
  <1>3. 0 \in 0 .. k /\ k + 1 \in Nat /\ (k + 1) - 1 = k /\ k \in 0 .. k
    OBVIOUS
  <1>4. \A i \in 1 .. (k + 1) : i = k + 1 \/ (i \in 1 .. k /\ i \in 0 .. k /\ i - 1 \in 0 .. k)
    OBVIOUS
  <1> HIDE DEF g
  <1>5. \A i \in 1 .. (k + 1) : g[i] = Step(kind, g[i - 1], h, xs[i])
    BY <1>1, <1>2, <1>3, <1>4
  <1>6. Walks(g, s, xs, kind, h, k + 1)
    BY <1>1, <1>2, <1>3, <1>5, WalksFrom
  <1> QED
    BY <1>6

LEMMA WalksSectionAt ==
  ASSUME NEW f, NEW s, NEW xs, NEW h, NEW k \in Nat, Walks(f, s, xs, "section", h, k)
  PROVE  f[0] = s /\ \A i \in 1 .. k : f[i] = Git!OneKey(f[i - 1], xs[i])
  <1>1. f[0] = s /\ \A i \in 1 .. k : f[i] = Step("section", f[i - 1], h, xs[i])
    BY WalksAt
  <1> QED
    BY <1>1 DEF Step

LEMMA WalksExist ==
  ASSUME NEW s, NEW xs, NEW kind, NEW h, NEW count \in Nat
  PROVE  \E f : Walks(f, s, xs, kind, h, count)
  <1> DEFINE Without == {k \in Nat : ~\E f : Walks(f, s, xs, kind, h, k)}
  <1>1. SUFFICES ASSUME Without # {} PROVE FALSE
    OBVIOUS
  <1>2. PICK m \in Without : \A k \in Without : m <= k
    BY <1>1, Least
  <1>3. \E f : Walks(f, s, xs, kind, h, 0)
    <2> DEFINE f == [i \in 0 .. 0 |-> s]
    <2>1. f = [i \in 0 .. 0 |-> f[i]] /\ f[0] = s /\ 1 .. 0 = {}
      OBVIOUS
    <2> HIDE DEF f
    <2>2. Walks(f, s, xs, kind, h, 0)
      BY <2>1, WalksFrom
    <2> QED
      BY <2>2
  <1>4. m # 0 /\ m \in Nat
    BY <1>2, <1>3
  <1>5. m - 1 \in Nat /\ ~(m <= m - 1) /\ (m - 1) + 1 = m
    BY <1>4
  <1>6. \E f : Walks(f, s, xs, kind, h, m - 1)
    BY <1>2, <1>5
  <1>7. \E f : Walks(f, s, xs, kind, h, (m - 1) + 1)
    BY <1>5, <1>6, WalksOneMore
  <1> QED
    BY <1>2, <1>5, <1>7

LEMMA WalksListIs ==
  ASSUME NEW f, NEW s, NEW xs, NEW h, NEW k
  PROVE  Walks(f, s, xs, "list", h, k) <=>
           f = [i \in 0 .. k |-> IF i = 0 THEN s ELSE Git!ListEntry(f[i - 1], h, xs[i])]
  BY DEF Walks, Step

LEMMA WalksSectionIs ==
  ASSUME NEW f, NEW s, NEW xs, NEW h, NEW k
  PROVE  Walks(f, s, xs, "section", h, k) <=>
           f = [i \in 0 .. k |-> IF i = 0 THEN s ELSE Git!OneKey(f[i - 1], xs[i])]
  BY DEF Walks, Step

\* What the walk says of the entries it has read, each with its host.
IsNamed(e, i) == e.identities # None /\ i \in e.identities

Fields == {"ok", "rows", "named", "open", "seen"}
IsWalk(w) == DOMAIN w = Fields /\ DOMAIN w.named = Git!Known

Tells(w, read) ==
    /\ \A x \in read : Git!UsableToken(x[1], x[2].token)
    /\ \A h : /\ h \in DOMAIN w.rows <=> \E x \in read : x[1] = h /\ x[2].identities = None
              /\ \A x \in read : x[1] = h /\ x[2].identities = None => w.rows[h] = x[2].token
    /\ \A i \in Git!Known : \A h :
         /\ h \in DOMAIN w.named[i] <=> \E x \in read : x[1] = h /\ IsNamed(x[2], i)
         /\ \A x \in read : x[1] = h /\ IsNamed(x[2], i) => w.named[i][h] = x[2].token

LEMMA WrongIs ==
  ASSUME NEW w, IsWalk(w) PROVE IsWalk(Git!Wrong(w)) /\ ~Git!Wrong(w).ok
  BY DEF Git!Wrong, IsWalk, Fields

LEMMA JoinedRowIs ==
  ASSUME NEW f, NEW h, NEW v, NEW g, g = Git!Joined(Git!Row(h, v), f)
  PROVE  /\ \A x : x \in DOMAIN g <=> x = h \/ x \in DOMAIN f
         /\ g[h] = v
         /\ \A x \in DOMAIN f : x # h => g[x] = f[x]
  BY DEF Git!Joined, Git!Row

\* An entry for everyone: the simple form, or the one of a list without identities.
LEMMA EveryoneTells ==
  ASSUME NEW w, IsWalk(w), NEW read, Tells(w, read), NEW h, NEW e, e.identities = None,
         h \in DOMAIN w.rows => w.rows[h] = e.token,
         Git!UsableToken(h, e.token), NEW v, IsWalk(v), v.named = w.named,
         v.rows = Git!Joined(Git!Row(h, e.token), w.rows),
         NEW y, y[1] = h, y[2] = e, NEW more, more = read \cup {y}
  PROVE  Tells(v, more)
  <1>1. /\ \A x : x \in DOMAIN v.rows <=> x = h \/ x \in DOMAIN w.rows
        /\ v.rows[h] = e.token
        /\ \A x \in DOMAIN w.rows : x # h => v.rows[x] = w.rows[x]
    <2> DEFINE f == w.rows
               t == e.token
               g == v.rows
    <2>1. g = Git!Joined(Git!Row(h, t), f)
      OBVIOUS
    <2> HIDE DEF f, t, g
    <2>2. /\ \A x : x \in DOMAIN g <=> x = h \/ x \in DOMAIN f
          /\ g[h] = t
          /\ \A x \in DOMAIN f : x # h => g[x] = f[x]
      BY <2>1, JoinedRowIs
    <2> QED
      BY <2>2 DEF f, t, g
  <1>2. \A x : x \in more <=> x \in read \/ x = y
    OBVIOUS
  <1>3. \A x \in more : Git!UsableToken(x[1], x[2].token)
    BY <1>2 DEF Tells
  <1>4. ASSUME NEW i \in Git!Known PROVE ~IsNamed(e, i)
    BY DEF IsNamed
  <1>5. ASSUME NEW k
        PROVE  /\ k \in DOMAIN v.rows <=> \E x \in more : x[1] = k /\ x[2].identities = None
               /\ \A x \in more : x[1] = k /\ x[2].identities = None => v.rows[k] = x[2].token
    <2>1. /\ k \in DOMAIN w.rows <=> \E x \in read : x[1] = k /\ x[2].identities = None
          /\ \A x \in read : x[1] = k /\ x[2].identities = None => w.rows[k] = x[2].token
      BY DEF Tells
    <2>2. CASE k = h
      BY <1>1, <1>2, <2>1, <2>2
    <2>3. CASE k # h
      BY <1>1, <1>2, <2>1, <2>3
    <2> QED
      BY <2>2, <2>3
  <1>6. ASSUME NEW i \in Git!Known, NEW k
        PROVE  /\ k \in DOMAIN v.named[i] <=> \E x \in more : x[1] = k /\ IsNamed(x[2], i)
               /\ \A x \in more : x[1] = k /\ IsNamed(x[2], i) => v.named[i][k] = x[2].token
    <2>1. /\ k \in DOMAIN w.named[i] <=> \E x \in read : x[1] = k /\ IsNamed(x[2], i)
          /\ \A x \in read : x[1] = k /\ IsNamed(x[2], i) => w.named[i][k] = x[2].token
      BY DEF Tells
    <2>2. ~IsNamed(e, i)
      BY <1>4
    <2> QED
      BY <1>2, <2>1, <2>2
  <1> QED
    BY <1>3, <1>5, <1>6 DEF Tells

\* An entry for the identities it names.
LEMMA NamedTells ==
  ASSUME NEW w, IsWalk(w), NEW read, Tells(w, read), NEW h, NEW e, e.identities # None,
         \A i \in e.identities : h \in DOMAIN w.named[i] => w.named[i][h] = e.token,
         Git!UsableToken(h, e.token), NEW v, IsWalk(v), v.rows = w.rows,
         \A i \in Git!Known : v.named[i] = IF i \in e.identities
                                           THEN Git!Joined(Git!Row(h, e.token), w.named[i])
                                           ELSE w.named[i],
         NEW y, y[1] = h, y[2] = e, NEW more, more = read \cup {y}
  PROVE  Tells(v, more)
  <1>1. \A x : x \in more <=> x \in read \/ x = y
    OBVIOUS
  <1>2. \A x \in more : Git!UsableToken(x[1], x[2].token)
    BY <1>1 DEF Tells
  <1>3. ASSUME NEW k
        PROVE  /\ k \in DOMAIN v.rows <=> \E x \in more : x[1] = k /\ x[2].identities = None
               /\ \A x \in more : x[1] = k /\ x[2].identities = None => v.rows[k] = x[2].token
    <2>1. /\ k \in DOMAIN w.rows <=> \E x \in read : x[1] = k /\ x[2].identities = None
          /\ \A x \in read : x[1] = k /\ x[2].identities = None => w.rows[k] = x[2].token
      BY DEF Tells
    <2> QED
      BY <1>1, <2>1
  <1>4. ASSUME NEW i \in Git!Known, NEW k
        PROVE  /\ k \in DOMAIN v.named[i] <=> \E x \in more : x[1] = k /\ IsNamed(x[2], i)
               /\ \A x \in more : x[1] = k /\ IsNamed(x[2], i) => v.named[i][k] = x[2].token
    <2>1. /\ k \in DOMAIN w.named[i] <=> \E x \in read : x[1] = k /\ IsNamed(x[2], i)
          /\ \A x \in read : x[1] = k /\ IsNamed(x[2], i) => w.named[i][k] = x[2].token
      BY DEF Tells
    <2>2. CASE i \notin e.identities
      BY <1>1, <2>1, <2>2 DEF IsNamed
    <2>3. CASE i \in e.identities
      <3> DEFINE f == w.named[i]
                 t == e.token
                 g == v.named[i]
      <3>1. g = Git!Joined(Git!Row(h, t), f)
        BY <2>3
      <3>2. IsNamed(e, i)
        BY <2>3 DEF IsNamed
      <3>3. h \in DOMAIN f => f[h] = t
        BY <2>3
      <3>4. /\ k \in DOMAIN f <=> \E x \in read : x[1] = k /\ IsNamed(x[2], i)
            /\ \A x \in read : x[1] = k /\ IsNamed(x[2], i) => f[k] = x[2].token
        BY <2>1
      <3>5. e.token = t
        OBVIOUS
      <3> HIDE DEF f, t, g
      <3>6. /\ \A x : x \in DOMAIN g <=> x = h \/ x \in DOMAIN f
            /\ g[h] = t
            /\ \A x \in DOMAIN f : x # h => g[x] = f[x]
        BY <3>1, JoinedRowIs
      <3>7. /\ k \in DOMAIN g <=> \E x \in more : x[1] = k /\ IsNamed(x[2], i)
            /\ \A x \in more : x[1] = k /\ IsNamed(x[2], i) => g[k] = x[2].token
        <4>1. CASE k = h
          BY <1>1, <3>2, <3>3, <3>4, <3>5, <3>6, <4>1
        <4>2. CASE k # h
          BY <1>1, <3>2, <3>4, <3>6, <4>2
        <4> QED
          BY <4>1, <4>2
      <3> QED
        BY <3>7 DEF g
    <2> QED
      BY <2>2, <2>3
  <1> QED
    BY <1>2, <1>3, <1>4 DEF Tells

\* The walk goes on from w, where it has read `read', and reads the entries
\* `next' without finding anything wrong: then it tells them too.
GoesOn(w, read, v, more) ==
    /\ IsWalk(v)
    /\ v.ok => w.ok /\ (Tells(w, read) => Tells(v, more))

LEMMA ListEntryTells ==
  ASSUME NEW w, IsWalk(w), NEW read, NEW h, NEW e, NEW y, y[1] = h, y[2] = e,
         NEW more, more = read \cup {y}
  PROVE  GoesOn(w, read, Git!ListEntry(w, h, e), more)
  <1> DEFINE v == Git!ListEntry(w, h, e)
  <1>1. CASE v = Git!Wrong(w)
    BY <1>1, WrongIs DEF GoesOn
  <1>2. CASE e.identities # {} /\ e.identities # None
    <2> DEFINE valid == (e.identities \cap Git!Known) \ w.seen
               seen == [w EXCEPT !.seen = @ \cup valid]
               named == [i \in Git!Known |-> IF i \in e.identities
                                             THEN Git!Joined(Git!Row(h, e.token), seen.named[i])
                                             ELSE seen.named[i]]
    <2>1. v = Git!Named(w, h, e)
      BY <1>2 DEF Git!ListEntry
    <2>2. v = IF valid # e.identities \/ ~Git!UsableToken(h, e.token) THEN Git!Wrong(seen)
              ELSE Git!AddNamed(seen, h, e)
      BY <2>1 DEF Git!Named
    <2>3. IsWalk(seen) /\ seen.ok = w.ok /\ seen.rows = w.rows /\ seen.named = w.named
      BY DEF IsWalk, Fields
    <2> HIDE DEF seen
    <2>4. CASE v = Git!Wrong(seen)
      BY <2>3, <2>4, WrongIs DEF GoesOn
    <2>5. CASE v # Git!Wrong(seen)
      <3>1. /\ v = Git!AddNamed(seen, h, e) /\ Git!UsableToken(h, e.token)
        BY <2>2, <2>5
      <3>2. /\ \A i \in e.identities : h \in DOMAIN seen.named[i] => seen.named[i][h] = e.token
            /\ v = [seen EXCEPT !.named = named]
        BY <2>5, <3>1 DEF Git!AddNamed
      <3>3. DOMAIN named = Git!Known
        OBVIOUS
      <3>4. \A i \in Git!Known : named[i] = IF i \in e.identities
                                            THEN Git!Joined(Git!Row(h, e.token), w.named[i])
                                            ELSE w.named[i]
        BY <2>3
      <3> HIDE DEF v, named
      <3>5. IsWalk(v) /\ v.named = named /\ v.rows = w.rows /\ v.ok = w.ok
        BY <2>3, <3>2, <3>3 DEF IsWalk, Fields
      <3>6. ASSUME Tells(w, read) PROVE Tells(v, more)
        <4>1. \A i \in e.identities : h \in DOMAIN w.named[i] => w.named[i][h] = e.token
          BY <2>3, <3>2
        <4>2. \A i \in Git!Known : v.named[i] = IF i \in e.identities
                                                THEN Git!Joined(Git!Row(h, e.token), w.named[i])
                                                ELSE w.named[i]
          BY <3>4, <3>5
        <4>3. IsWalk(v) /\ v.rows = w.rows /\ e.identities # None /\ Git!UsableToken(h, e.token)
          BY <1>2, <3>1, <3>5
        <4> QED
          BY <3>6, <4>1, <4>2, <4>3, NamedTells
      <3> QED
        BY <3>5, <3>6 DEF GoesOn, v
    <2> QED
      BY <2>4, <2>5
  <1>3. CASE v # Git!Wrong(w) /\ e.identities = None
    <2>1. Git!UsableToken(h, e.token) /\ v = Git!CatchAll(w, h, e)
      BY <1>3 DEF Git!ListEntry
    <2>2. /\ h \in DOMAIN w.rows => w.rows[h] = e.token
          /\ v = [w EXCEPT !.rows = Git!Joined(Git!Row(h, e.token), @), !.open = TRUE]
      BY <1>3, <2>1 DEF Git!CatchAll
    <2> HIDE DEF v
    <2>3. /\ IsWalk(v) /\ v.named = w.named /\ v.ok = w.ok
          /\ v.rows = Git!Joined(Git!Row(h, e.token), w.rows)
      BY <2>2 DEF IsWalk, Fields
    <2>4. Tells(w, read) => Tells(v, more)
      BY <1>3, <2>1, <2>2, <2>3, EveryoneTells
    <2> QED
      BY <2>3, <2>4 DEF GoesOn, v
  <1> QED
    BY <1>1, <1>2, <1>3 DEF Git!ListEntry

\* The entries of one key.
Of(spec) == {<<Host[spec.key], spec.entries[m]>> : m \in DOMAIN spec.entries}

LEMMA ListFormTells ==
  ASSUME NEW w, IsWalk(w), NEW read, NEW h, NEW T, NEW xs \in Seq(T),
         NEW more, \A y : y \in more <=> y \in read \/ \E m \in DOMAIN xs : y = <<h, xs[m]>>
  PROVE  GoesOn(w, read, Git!ListForm(w, h, xs), more)
  <1> DEFINE count == Len(xs)
             start == [w EXCEPT !.open = FALSE, !.seen = {}]
             IsRead(f) == f = [i \in 0 .. count |-> IF i = 0 THEN start
                                                    ELSE Git!ListEntry(f[i - 1], h, xs[i])]
             g == CHOOSE f : IsRead(f)
             upto(k) == read \cup {<<h, xs[m]>> : m \in 1 .. k}
             Bad == {k \in Nat : k <= count /\ ~GoesOn(w, read, g[k], upto(k))}
  <1>1. count \in Nat /\ DOMAIN xs = 1 .. count
    OBVIOUS
  <1>2. Git!ListForm(w, h, xs) = IF xs = <<>> THEN Git!Wrong(w) ELSE g[count]
    BY DEF Git!ListForm
  <1>3. IsWalk(start) /\ start.ok = w.ok /\ start.rows = w.rows /\ start.named = w.named
    BY DEF IsWalk, Fields
  <1> HIDE DEF start, count
  <1>4. \E f : IsRead(f)
    <2>1. \E f : Walks(f, start, xs, "list", h, count)
      BY <1>1, WalksExist
    <2> QED
      BY <2>1, WalksListIs
  <1>5. IsRead(g)
    BY <1>4
  <1> HIDE DEF g
  <1>6. g[0] = start /\ \A i \in 1 .. count : g[i] = Git!ListEntry(g[i - 1], h, xs[i])
    <2>1. Walks(g, start, xs, "list", h, count)
      BY <1>5, WalksListIs
    <2>2. g[0] = start /\ \A i \in 1 .. count : g[i] = Step("list", g[i - 1], h, xs[i])
      BY <1>1, <2>1, WalksAt
    <2> QED
      BY <2>2 DEF Step
  <1> HIDE DEF IsRead
  <1>7. GoesOn(w, read, g[0], upto(0))
    <2>1. upto(0) = read
      OBVIOUS
    <2>2. Tells(w, read) => Tells(start, read)
      BY <1>3 DEF Tells
    <2> QED
      BY <1>3, <1>6, <2>1, <2>2 DEF GoesOn
  <1>8. ASSUME NEW k \in Nat, k < count, GoesOn(w, read, g[k], upto(k))
        PROVE  GoesOn(w, read, g[k + 1], upto(k + 1))
    <2> DEFINE before == g[k]
               after == g[k + 1]
               x == xs[k + 1]
               y == <<h, x>>
               was == upto(k)
               is == upto(k + 1)
    <2>1. k + 1 \in 1 .. count /\ (k + 1) - 1 = k
      BY <1>1, <1>8
    <2>2. after = Git!ListEntry(before, h, x)
      BY <1>6, <2>1
    <2>3. is = was \cup {y}
      <3>1. \A m : m \in 1 .. (k + 1) <=> m \in 1 .. k \/ m = k + 1
        OBVIOUS
      <3> QED
        BY <3>1
    <2>4. GoesOn(w, read, before, was) /\ y[1] = h /\ y[2] = x
      BY <1>8
    <2> HIDE DEF before, after, x, y, was, is
    <2>5. IsWalk(before)
      BY <2>4 DEF GoesOn
    <2>6. GoesOn(before, was, Git!ListEntry(before, h, x), is)
      BY <2>3, <2>4, <2>5, ListEntryTells
    <2>7. GoesOn(w, read, after, is)
      BY <2>2, <2>4, <2>6 DEF GoesOn
    <2> QED
      BY <2>7 DEF after, is
  <1> HIDE DEF upto
  <1>9. Bad = {}
    <2> SUFFICES ASSUME Bad # {} PROVE FALSE
      OBVIOUS
    <2>1. PICK m \in Bad : \A k \in Bad : m <= k
      BY Least
    <2>2. m \in Nat /\ m <= count /\ ~GoesOn(w, read, g[m], upto(m)) /\ m # 0
      BY <2>1, <1>7
    <2>3. m - 1 \in Nat /\ m - 1 < count /\ ~(m <= m - 1) /\ (m - 1) + 1 = m /\ m - 1 <= count
      BY <2>2, <1>1
    <2>4. GoesOn(w, read, g[m - 1], upto(m - 1))
      BY <2>1, <2>3
    <2>5. GoesOn(w, read, g[(m - 1) + 1], upto((m - 1) + 1))
      BY <1>8, <2>3, <2>4
    <2> QED
      BY <2>2, <2>3, <2>5
  <1>10. GoesOn(w, read, g[count], upto(count))
    BY <1>1, <1>9
  <1>11. upto(count) = more
    BY <1>1 DEF upto
  <1>12. GoesOn(w, read, Git!Wrong(w), more)
    BY WrongIs DEF GoesOn
  <1> QED
    BY <1>2, <1>10, <1>11, <1>12

LEMMA OneKeyTells ==
  ASSUME NEW w, IsWalk(w), NEW read, NEW spec, NEW T, spec.entries \in Seq(T),
         spec.form # "list" => Len(spec.entries) = 1 /\ spec.entries[1].identities = None,
         NEW more, more = read \cup Of(spec)
  PROVE  GoesOn(w, read, Git!OneKey(w, spec), more)
  <1> DEFINE h == Host[spec.key]
             v == Git!OneKey(w, spec)
  <1>1. \A y : y \in more <=>
          y \in read \/ \E m \in DOMAIN spec.entries : y = <<h, spec.entries[m]>>
    BY DEF Of
  <1>2. CASE v = Git!Wrong(w)
    BY <1>2, WrongIs DEF GoesOn
  <1>3. CASE v # Git!Wrong(w) /\ spec.form = "list"
    <2>1. v = Git!ListForm(w, h, spec.entries)
      BY <1>3 DEF Git!OneKey
    <2> HIDE DEF h, v
    <2>2. GoesOn(w, read, Git!ListForm(w, h, spec.entries), more)
      BY <1>1, ListFormTells
    <2> QED
      BY <2>1, <2>2 DEF v
  <1>4. CASE v # Git!Wrong(w) /\ spec.form # "list"
    <2> DEFINE e == spec.entries[1]
               y == <<h, e>>
    <2>1. v = Git!SimpleForm(w, h, e) /\ h \notin DOMAIN w.rows
      BY <1>4 DEF Git!OneKey
    <2>2. /\ Git!UsableToken(h, e.token)
          /\ v = [w EXCEPT !.rows = Git!Joined(Git!Row(h, e.token), @)]
      BY <1>4, <2>1 DEF Git!SimpleForm
    <2>3. e.identities = None /\ y[1] = h /\ y[2] = e
      BY <1>4
    <2>4. more = read \cup {y}
      <3>1. DOMAIN spec.entries = {1}
        BY <1>4
      <3> QED
        BY <1>1, <3>1
    <2> HIDE DEF h, v, e, y
    <2>5. /\ IsWalk(v) /\ v.named = w.named /\ v.ok = w.ok
          /\ v.rows = Git!Joined(Git!Row(h, e.token), w.rows)
      BY <2>2 DEF IsWalk, Fields
    <2>6. ASSUME Tells(w, read) PROVE Tells(v, more)
      <3>1. h \in DOMAIN w.rows => w.rows[h] = e.token
        BY <2>1
      <3>2. Git!UsableToken(h, e.token)
        BY <2>2
      <3>3. e.identities = None
        BY <2>3
      <3>4. y[1] = h
        BY <2>3
      <3>5. y[2] = e
        BY <2>3
      <3>6. IsWalk(v) /\ v.named = w.named
        BY <2>5
      <3>7. v.rows = Git!Joined(Git!Row(h, e.token), w.rows)
        BY <2>5
      <3> QED
        BY <2>4, <2>6, <3>1, <3>2, <3>3, <3>4, <3>5, <3>6, <3>7, EveryoneTells
    <2> QED
      BY <2>5, <2>6 DEF GoesOn, v
  <1> QED
    BY <1>2, <1>3, <1>4

\* All that a section says.
All(listed) == UNION {Of(listed[m]) : m \in DOMAIN listed}

LEMMA GitIdentityTells ==
  ASSUME NEW T, NEW listed \in Seq(T),
         \A m \in DOMAIN listed :
           /\ Git!IsList(listed[m].entries)
           /\ listed[m].form # "list" =>
              Len(listed[m].entries) = 1 /\ listed[m].entries[1].identities = None
  PROVE  /\ IsWalk(Git!GitIdentity(listed))
         /\ Git!GitIdentity(listed).ok => Tells(Git!GitIdentity(listed), All(listed))
  <1> DEFINE count == Len(listed)
             start == Git!Start
             h == None
             IsRead(f) == f = [i \in 0 .. count |-> IF i = 0 THEN start
                                                    ELSE Git!OneKey(f[i - 1], listed[i])]
             g == CHOOSE f : IsRead(f)
             upto(k) == UNION {Of(listed[m]) : m \in 1 .. k}
             Good(k) == GoesOn(start, {}, g[k], upto(k))
             Bad == {k \in Nat : k <= count /\ ~Good(k)}
  <1>1. count \in Nat /\ DOMAIN listed = 1 .. count
    OBVIOUS
  <1>2. Git!GitIdentity(listed) = g[count]
    BY DEF Git!GitIdentity
  <1>3. IsWalk(start) /\ Tells(start, {})
    BY DEF IsWalk, Fields, Tells, Git!Start, Git!NoRows
  <1> HIDE DEF start, count, h
  <1>4. \E f : IsRead(f)
    <2>1. \E f : Walks(f, start, listed, "section", h, count)
      BY <1>1, WalksExist
    <2> QED
      BY <2>1, WalksSectionIs
  <1>5. IsRead(g)
    BY <1>4
  <1> HIDE DEF g
  <1>6. g[0] = start /\ \A i \in 1 .. count : g[i] = Git!OneKey(g[i - 1], listed[i])
    <2>1. Walks(g, start, listed, "section", h, count)
      BY <1>5, WalksSectionIs
    <2>2. count \in Nat
      BY <1>1
    <2> HIDE DEF IsRead, upto, Good, Bad
    <2> QED
      BY ONLY <2>1, <2>2, WalksSectionAt
  <1> HIDE DEF IsRead
  <1>7. Good(0)
    <2>1. upto(0) = {}
      OBVIOUS
    <2> QED
      BY <1>3, <1>6, <2>1 DEF GoesOn
  <1>8. ASSUME NEW k \in Nat, k < count, Good(k) PROVE Good(k + 1)
    <2> DEFINE before == g[k]
               after == g[k + 1]
               spec == listed[k + 1]
               was == upto(k)
               is == upto(k + 1)
               S == Git!Range(spec.entries)
    <2>1. k + 1 \in 1 .. count /\ (k + 1) - 1 = k
      BY <1>1, <1>8
    <2>2. after = Git!OneKey(before, spec)
      BY <1>6, <2>1
    <2>3. is = was \cup Of(spec)
      <3>1. \A m : m \in 1 .. (k + 1) <=> m \in 1 .. k \/ m = k + 1
        OBVIOUS
      <3>2. \A y : y \in is <=> \E m \in 1 .. (k + 1) : y \in Of(listed[m])
        OBVIOUS
      <3>3. \A y : y \in was <=> \E m \in 1 .. k : y \in Of(listed[m])
        OBVIOUS
      <3> HIDE DEF is, was
      <3> QED
        BY <3>1, <3>2, <3>3
    <2>4. GoesOn(start, {}, before, was)
      BY <1>8
    <2>5. /\ spec.entries \in Seq(S)
          /\ spec.form # "list" => Len(spec.entries) = 1 /\ spec.entries[1].identities = None
      BY <1>1, <2>1 DEF Git!IsList
    <2> HIDE DEF before, after, spec, was, is, S
    <2>6. IsWalk(before)
      BY <2>4 DEF GoesOn
    <2>7. GoesOn(before, was, Git!OneKey(before, spec), is)
      BY <2>3, <2>5, <2>6, OneKeyTells
    <2>8. GoesOn(start, {}, after, is)
      BY <2>2, <2>4, <2>7 DEF GoesOn
    <2> QED
      BY <2>8 DEF after, is
  <1> HIDE DEF upto, Good
  <1>9. Bad = {}
    <2> SUFFICES ASSUME Bad # {} PROVE FALSE
      OBVIOUS
    <2>1. PICK m \in Bad : \A k \in Bad : m <= k
      BY Least
    <2>2. m \in Nat /\ m <= count /\ ~Good(m) /\ m # 0
      BY <2>1, <1>7
    <2>3. m - 1 \in Nat /\ m - 1 < count /\ ~(m <= m - 1) /\ (m - 1) + 1 = m /\ m - 1 <= count
      BY <2>2, <1>1
    <2>4. Good(m - 1)
      BY <2>1, <2>3
    <2>5. Good((m - 1) + 1)
      BY <1>8, <2>3, <2>4
    <2> QED
      BY <2>2, <2>3, <2>5
  <1>10. Good(count)
    BY <1>1, <1>9
  <1>11. upto(count) = All(listed)
    BY <1>1 DEF upto, All
  <1> QED
    BY <1>2, <1>3, <1>10, <1>11 DEF Good, GoesOn

LEMMA EntriesAre ==
  ASSUME NEW listed, NEW h, NEW e
  PROVE  e \in Git!Entries(listed, h) <=> \E y \in All(listed) : y[1] = h /\ y[2] = e
  <1>1. e \in Git!Entries(listed, h) <=>
          \E m \in DOMAIN listed : /\ Host[listed[m].key] = h
                                   /\ \E k \in DOMAIN listed[m].entries : listed[m].entries[k] = e
    BY DEF Git!Entries, Git!Range
  <1>2. ASSUME NEW m \in DOMAIN listed
        PROVE  (\E y \in Of(listed[m]) : y[1] = h /\ y[2] = e) <=>
                 /\ Host[listed[m].key] = h
                 /\ \E k \in DOMAIN listed[m].entries : listed[m].entries[k] = e
    <2> DEFINE is == Host[listed[m].key]
               xs == listed[m].entries
    <2>1. \A y : y \in Of(listed[m]) <=> \E k \in DOMAIN xs : y = <<is, xs[k]>>
      BY DEF Of
    <2> HIDE DEF is, xs
    <2>2. ASSUME NEW y \in Of(listed[m]), y[1] = h, y[2] = e
          PROVE  is = h /\ \E k \in DOMAIN xs : xs[k] = e
      <3>1. PICK k \in DOMAIN xs : y = <<is, xs[k]>>
        BY <2>1, <2>2
      <3> QED
        BY <2>2, <3>1
    <2>3. ASSUME is = h, NEW k \in DOMAIN xs, xs[k] = e
          PROVE  \E y \in Of(listed[m]) : y[1] = h /\ y[2] = e
      <3>1. <<is, xs[k]>> \in Of(listed[m])
        BY <2>1
      <3>2. <<is, xs[k]>>[1] = h /\ <<is, xs[k]>>[2] = e
        BY <2>3
      <3> QED
        BY <3>1, <3>2
    <2> QED
      BY <2>2, <2>3 DEF is, xs
  <1>3. (\E y \in All(listed) : y[1] = h /\ y[2] = e) <=>
          \E m \in DOMAIN listed : \E y \in Of(listed[m]) : y[1] = h /\ y[2] = e
    BY DEF All
  <1> QED
    BY <1>1, <1>2, <1>3

\* The table of an identity has what the section says of it.
LEMMA TableSays ==
  ASSUME NEW listed, NEW d, IsWalk(d), Tells(d, All(listed)), NEW i \in Git!Known,
         NEW table, table = Git!IdentityTable(d, i), NEW h
  PROVE  /\ Git!Says(listed, i, h) = IF h \in DOMAIN table THEN {table[h]} ELSE {}
         /\ h \in DOMAIN table => table[h] \in Present
  <1> DEFINE own == d.named[i]
             shared == d.rows
             read == All(listed)
             forI == {e \in Git!Entries(listed, h) : e.identities # None /\ i \in e.identities}
             forAll == {e \in Git!Entries(listed, h) : e.identities = None}
             said == Git!Says(listed, i, h)
  <1>1. /\ h \in DOMAIN table <=> h \in DOMAIN own \/ h \in DOMAIN shared
        /\ h \in DOMAIN own => table[h] = own[h]
        /\ h \in DOMAIN shared /\ h \notin DOMAIN own => table[h] = shared[h]
    BY DEF Git!IdentityTable, Git!Joined
  <1>2. \A x \in read : x[2].token \in Present
    BY DEF Tells, Git!UsableToken
  <1>3. /\ h \in DOMAIN shared <=> \E x \in read : x[1] = h /\ x[2].identities = None
        /\ \A x \in read : x[1] = h /\ x[2].identities = None => shared[h] = x[2].token
    BY DEF Tells
  <1>4. /\ h \in DOMAIN own <=> \E x \in read : x[1] = h /\ IsNamed(x[2], i)
        /\ \A x \in read : x[1] = h /\ IsNamed(x[2], i) => own[h] = x[2].token
    BY DEF Tells
  <1>5. said = {e.token : e \in IF forI # {} THEN forI ELSE forAll}
    BY DEF Git!Says
  <1>6. \A e : e \in forI <=> \E x \in read : x[1] = h /\ x[2] = e /\ IsNamed(e, i)
    BY EntriesAre DEF IsNamed
  <1>7. \A e : e \in forAll <=> \E x \in read : x[1] = h /\ x[2] = e /\ e.identities = None
    BY EntriesAre
  <1> HIDE DEF own, shared, read, forI, forAll, said
  <1>8. CASE h \in DOMAIN own
    <2>1. forI # {} /\ \A e \in forI : e.token = own[h]
      BY <1>4, <1>6, <1>8
    <2>2. own[h] \in Present
      BY <1>2, <1>4, <1>8
    <2>3. said = {own[h]}
      BY <1>5, <2>1
    <2> QED
      BY <1>1, <1>8, <2>2, <2>3 DEF said
  <1>9. CASE h \notin DOMAIN own /\ h \in DOMAIN shared
    <2>1. forI = {}
      BY <1>4, <1>6, <1>9
    <2>2. forAll # {} /\ \A e \in forAll : e.token = shared[h]
      BY <1>3, <1>7, <1>9
    <2>3. shared[h] \in Present
      BY <1>2, <1>3, <1>9
    <2>4. said = {shared[h]}
      BY <1>5, <2>1, <2>2
    <2> QED
      BY <1>1, <1>9, <2>3, <2>4 DEF said
  <1>10. CASE h \notin DOMAIN own /\ h \notin DOMAIN shared
    <2>1. forI = {}
      BY <1>4, <1>6, <1>10
    <2>2. forAll = {}
      BY <1>3, <1>7, <1>10
    <2>3. said = {}
      BY <1>5, <2>1, <2>2
    <2> QED
      BY <1>1, <1>10, <2>3 DEF said
  <1> QED
    BY <1>8, <1>9, <1>10

\* Only the CLI host's row may name the variable that gh reads.
LEMMA GhIsOfCli ==
  ASSUME NEW d, NEW read, IsWalk(d), Tells(d, read), NEW i \in Git!Known,
         CliVar \in Git!Range(Git!IdentityTable(d, i))
  PROVE  CliHost \in DOMAIN Git!IdentityTable(d, i) /\ Git!IdentityTable(d, i)[CliHost] = CliVar
  <1> DEFINE table == Git!IdentityTable(d, i)
             own == d.named[i]
             shared == d.rows
  <1>1. /\ \A h : h \in DOMAIN table <=> h \in DOMAIN own \/ h \in DOMAIN shared
        /\ \A h \in DOMAIN own : table[h] = own[h]
        /\ \A h \in DOMAIN shared : h \notin DOMAIN own => table[h] = shared[h]
    BY DEF Git!IdentityTable, Git!Joined
  <1>2. PICK h \in DOMAIN table : table[h] = CliVar
    BY DEF Git!Range
  <1> HIDE DEF table, own, shared
  <1>3. \A x \in read : x[1] = CliHost \/ x[2].token # CliVar
    BY DEF Tells, Git!UsableToken
  <1>4. \A g \in DOMAIN own : \E x \in read : x[1] = g /\ x[2].token = own[g]
    BY DEF Tells, own
  <1>5. \A g \in DOMAIN shared : \E x \in read : x[1] = g /\ x[2].token = shared[g]
    BY DEF Tells, shared
  <1>6. h = CliHost
    BY <1>1, <1>2, <1>3, <1>4, <1>5
  <1> QED
    BY <1>2, <1>6 DEF table

-----------------------------------------------------------------------------
\* The key files are those of the section that the bottle was brought up with,
\* and have its secrets once those are appended.
FileOf(i) == Git!WithSlots(Git!GitBlock(derived, i), slots[i])

FilesInv ==
    /\ hosts \in Sections \cup LaterSections /\ slots \in Bindings
    /\ derived = Git!GitIdentity(hosts) /\ derived.ok
    /\ DOMAIN keyfiles = Git!Known
    /\ \A i \in Git!Known :
         /\ <<i, "table">> \in writing => <<i, "slots">> \in writing \/ i = User
         /\ <<i, "slots">> \in writing /\ <<i, "table">> \notin writing =>
              keyfiles[i] = Git!GitBlock(derived, i)
         /\ keyfiles[i] # None /\ <<i, "slots">> \notin writing => keyfiles[i] = FileOf(i)

\* The user has no slots, so that file is whole as it is first written.
LEMMA UserFile ==
  ASSUME Git!GitAssumption, slots \in Bindings
  PROVE  FileOf(User) = Git!GitBlock(derived, User)
  <1> DEFINE block == Git!GitBlock(derived, User)
  <1>1. slots[User] = [h \in {} |-> None]
    BY DEF Git!GitAssumption, Git!NoRows
  <1>2. /\ block = [table |-> block.table, vars |-> block.vars]
        /\ block.vars = [x \in DOMAIN block.vars |-> block.vars[x]]
    BY DEF Git!GitBlock, Git!Joined
  <1> HIDE DEF block
  <1>3. Git!Joined(slots[User], block.vars) = block.vars
    BY <1>1, <1>2 DEF Git!Joined
  <1> QED
    BY <1>2, <1>3 DEF FileOf, Git!WithSlots, block

LEMMA FilesInvHolds ==
  ASSUME Git!GitAssumption
  PROVE  /\ Git!Init => FilesInv
         /\ FilesInv /\ [Git!Next]_(Git!vars) => FilesInv'
  <1>1. Git!Init => FilesInv
    BY DEF Git!Init, FilesInv
  <1>2. ASSUME FilesInv, [Git!Next]_(Git!vars) PROVE FilesInv'
    <2>1. CASE \E s \in LaterSections \cup {hosts} : Git!Up(s)
      <3>1. PICK s \in LaterSections \cup {hosts} : Git!Up(s)
        BY <2>1
      <3>2. /\ hosts' \in Sections \cup LaterSections /\ slots' \in Bindings
            /\ derived' = Git!GitIdentity(hosts') /\ derived'.ok
        BY <1>2, <3>1 DEF Git!Up, FilesInv
      <3>3. /\ DOMAIN keyfiles' = Git!Known
            /\ \A i \in Git!Known : keyfiles'[i] = None
            /\ \A i \in Git!Known : <<i, "table">> \in writing'
            /\ \A i \in Git!Known : <<i, "slots">> \in writing' \/ i = User
        BY <3>1 DEF Git!Up, Git!Known
      <3> QED
        BY <3>2, <3>3 DEF FilesInv
    <2>2. ASSUME NEW i \in Git!Known, Git!WriteKeyfile(i) PROVE FilesInv'
      <3>1. /\ keyfiles' = [keyfiles EXCEPT ![i] = Git!GitBlock(derived, i)]
            /\ <<i, "table">> \in writing /\ writing' = writing \ {<<i, "table">>}
            /\ UNCHANGED <<hosts, derived, slots>>
        BY <2>2 DEF Git!WriteKeyfile
      <3>2. \A j \in Git!Known : FileOf(j)' = FileOf(j)
        BY <3>1 DEF FileOf
      <3>3. <<i, "slots">> \notin writing => FileOf(i) = Git!GitBlock(derived, i)
        BY <1>2, <3>1, UserFile DEF FilesInv
      <3> QED
        BY <1>2, <3>1, <3>2, <3>3 DEF FilesInv
    <2>3. ASSUME NEW i \in Git!Known, Git!AppendSecrets(i) PROVE FilesInv'
      <3>1. /\ keyfiles' = [keyfiles EXCEPT ![i] = Git!WithSlots(keyfiles[i], slots[i])]
            /\ <<i, "slots">> \in writing /\ \A j \in Git!Known : <<j, "table">> \notin writing
            /\ writing' = writing \ {<<i, "slots">>}
            /\ UNCHANGED <<hosts, derived, slots>>
        BY <2>3 DEF Git!AppendSecrets
      <3>2. \A j \in Git!Known : FileOf(j)' = FileOf(j)
        BY <3>1 DEF FileOf
      <3>3. keyfiles'[i] = FileOf(i)
        BY <1>2, <3>1 DEF FilesInv, FileOf
      <3> QED
        BY <1>2, <3>1, <3>2, <3>3 DEF FilesInv
    <2>4. CASE UNCHANGED <<hosts, derived, keyfiles, slots, writing>>
      BY <1>2, <2>4 DEF FilesInv, FileOf
    <2>5. \/ \E s \in LaterSections \cup {hosts} : Git!Up(s)
          \/ \E i \in Git!Known : Git!WriteKeyfile(i) \/ Git!AppendSecrets(i)
          \/ UNCHANGED <<hosts, derived, keyfiles, slots, writing>>
      BY <1>2 DEF Git!Next, Git!Launch, Git!Exit, Git!vars
    <2> QED
      BY <2>1, <2>2, <2>3, <2>4, <2>5
  <1> QED
    BY <1>1, <1>2

LEMMA FilesInvSays ==
  ASSUME Git!GitAssumption, FilesInv
  PROVE  Git!FilesSayWhatIsDeclared
  <1>1. PICK T : hosts \in Seq(T)
    BY DEF FilesInv, Git!GitAssumption, Git!IsList
  <1>2. \A m \in DOMAIN hosts :
          /\ Git!IsList(hosts[m].entries)
          /\ hosts[m].form # "list" =>
               Len(hosts[m].entries) = 1 /\ hosts[m].entries[1].identities = None
    BY DEF FilesInv, Git!GitAssumption
  <1>3. IsWalk(derived) /\ Tells(derived, All(hosts))
    BY <1>1, <1>2, GitIdentityTells DEF FilesInv
  <1>4. ASSUME NEW i \in Git!Known, keyfiles[i] # None, <<i, "slots">> \notin writing
        PROVE  LET f == keyfiles[i]
               IN /\ \A h \in Git!Hosts : {Git!Reads(i, v) : v \in Git!Says(hosts, i, h)} =
                       IF Git!Answer(f, h) = None THEN {} ELSE {Git!Answer(f, h)}
                  /\ {f.vars[v] : v \in {CliVar} \cap DOMAIN f.vars} =
                       IF CliVar \in DOMAIN slots[i] THEN {slots[i][CliVar]}
                       ELSE Git!Says(hosts, i, CliHost)
    <2> DEFINE table == Git!IdentityTable(derived, i)
               own == [v \in Git!Range(table) |-> v]
               block == Git!Joined(own, Git!TokenSource(table))
               given == slots[i]
               kept == keyfiles[i]
    <2>1. kept.table = table /\ kept.vars = Git!Joined(given, block)
      <3>1. kept = [table |-> table, vars |-> Git!Joined(given, Git!GitBlock(derived, i).vars)]
        <4>1. keyfiles[i] = FileOf(i)
          BY <1>4 DEF FilesInv
        <4> QED
          BY <4>1 DEF FileOf, Git!WithSlots, Git!GitBlock
      <3>2. Git!GitBlock(derived, i).vars = block
        BY DEF Git!GitBlock
      <3> HIDE DEF kept, table, given, block
      <3> QED
        BY <3>1, <3>2
    <2>2. ASSUME NEW h
          PROVE  /\ Git!Says(hosts, i, h) = IF h \in DOMAIN table THEN {table[h]} ELSE {}
                 /\ h \in DOMAIN table => table[h] \in Present
      BY <1>3, TableSays
    <2>3. /\ None \notin Present
          /\ \A v \in DOMAIN given : given[v] \in Present
      BY DEF FilesInv, Git!GitAssumption
    <2>4. \A h \in DOMAIN table : table[h] \in Git!Range(table)
      BY DEF Git!Range
    <2>5. /\ DOMAIN block = Git!Range(table) \cup DOMAIN Git!TokenSource(table)
          /\ \A v \in Git!Range(table) : block[v] = v
          /\ \A v \in DOMAIN block \ Git!Range(table) : block[v] = Git!TokenSource(table)[v]
      BY DEF Git!Joined
    <2>6. Git!TokenSource(table) = IF CliHost \in DOMAIN table THEN [v \in {CliVar} |-> table[CliHost]]
                                   ELSE [v \in {} |-> None]
      BY DEF Git!TokenSource, Git!Row, Git!NoRows
    <2> HIDE DEF table, own, block, given, kept
    <2>7. /\ DOMAIN kept.vars = DOMAIN given \cup DOMAIN block
          /\ \A v \in DOMAIN given : kept.vars[v] = given[v]
          /\ \A v \in DOMAIN block \ DOMAIN given : kept.vars[v] = block[v]
      BY <2>1 DEF Git!Joined
    <2>8. ASSUME NEW h
          PROVE  {Git!Reads(i, v) : v \in Git!Says(hosts, i, h)} =
                     IF Git!Answer(kept, h) = None THEN {} ELSE {Git!Answer(kept, h)}
      <3>1. CASE h \in DOMAIN table
        <4>1. Git!Answer(kept, h) = Git!Reads(i, table[h]) /\ Git!Reads(i, table[h]) \in Present
          BY <2>1, <2>2, <2>3, <2>4, <2>5, <2>7, <3>1 DEF Git!Answer, Git!Reads, given
        <4>2. Git!Says(hosts, i, h) = {table[h]}
          BY <2>2, <3>1
        <4>3. {Git!Reads(i, v) : v \in Git!Says(hosts, i, h)} = {Git!Reads(i, table[h])}
          BY <4>2
        <4> QED
          BY <2>3, <4>1, <4>3
      <3>2. CASE h \notin DOMAIN table
        <4>1. Git!Answer(kept, h) = None /\ Git!Says(hosts, i, h) = {}
          BY <2>1, <2>2, <3>2 DEF Git!Answer
        <4> QED
          BY <4>1
      <3> QED
        BY <3>1, <3>2
    <2>9. {kept.vars[v] : v \in {CliVar} \cap DOMAIN kept.vars} =
             IF CliVar \in DOMAIN given THEN {given[CliVar]} ELSE Git!Says(hosts, i, CliHost)
      <3>1. CliVar \in Git!Range(table) => CliHost \in DOMAIN table /\ table[CliHost] = CliVar
        BY <1>3, GhIsOfCli DEF table
      <3>2. CASE CliVar \in DOMAIN given
        BY <2>7, <3>2
      <3>3. CASE CliVar \notin DOMAIN given /\ CliHost \in DOMAIN table
        <4>1. CliVar \in DOMAIN block /\ block[CliVar] = table[CliHost]
          BY <2>5, <2>6, <3>1, <3>3
        <4>2. {CliVar} \cap DOMAIN kept.vars = {CliVar} /\ kept.vars[CliVar] = table[CliHost]
          BY <2>7, <3>3, <4>1
        <4> QED
          BY <2>2, <3>3, <4>2
      <3>4. CASE CliVar \notin DOMAIN given /\ CliHost \notin DOMAIN table
        <4>1. CliVar \notin DOMAIN block
          BY <2>5, <2>6, <3>1, <3>4
        <4>2. {CliVar} \cap DOMAIN kept.vars = {}
          BY <2>7, <3>4, <4>1
        <4> QED
          BY <2>2, <3>4, <4>2
      <3> QED
        BY <3>2, <3>3, <3>4
    <2> QED
      BY <2>8, <2>9 DEF kept, given
  <1> QED
    BY <1>4 DEF Git!FilesSayWhatIsDeclared

\* Git by itself.
LEMMA FilesAreAsDeclaredAlone ==
  ASSUME Git!GitAssumption
  PROVE  Git!Spec => []Git!FilesSayWhatIsDeclared
  <1>1. FilesInv => Git!FilesSayWhatIsDeclared
    BY FilesInvSays
  <1> QED
    BY <1>1, FilesInvHolds, PTL DEF Git!Spec

\* An accepted git.hosts gives each identity, for each host, the token that the
\* section names for it and no other, whatever the order and the spelling of its
\* keys, and each identity's env file answers with exactly that, GH_TOKEN from
\* the CLI host's row only, except that a plugin's secret slot of a variable's name
\* takes its place (_git_identity of manifest.py, write_keyfiles of keyfiles.sh,
\* git-credential-org.sh).
THEOREM FilesAreAsDeclared == ServicesSpec => []FilesSayWhatIsDeclared
  <1>1. Git!Spec => []Git!FilesSayWhatIsDeclared
    BY FilesAreAsDeclaredAlone, ServicesAssumption DEF ServicesAssumption
  <1>2. Git!FilesSayWhatIsDeclared \/ ~InGit => FilesSayWhatIsDeclared
    BY DEF FilesSayWhatIsDeclared, InGit
  <1> QED
    BY <1>1, <1>2, GitRuns, PTL

-----------------------------------------------------------------------------
(***************************************************************************)
(* BottleNet implements BottleBlocks.  What a run computed under the lock  *)
(* may follow on the file as long as the run has the lock.  That the grant *)
(* of a whole fleet, a recursion over the bottles, keeps the blocks apart  *)
(* is an induction: the first turn that did not would be a turn that did.  *)
(***************************************************************************)

LEMMA MinIsIn == ASSUME NEW S \in SUBSET Nat, S # {} PROVE Net!Min(S) \in S
  <1>1. \E m \in S : \A k \in S : m =< k
    BY Least
  <1> QED
    BY <1>1 DEF Net!Min

IsEntry(e) == e = [subnet |-> e.subnet, browser |-> e.browser, ssh |-> e.ssh]

\* The entries of a file, in blocks of their own.
Sound(f) ==
    /\ DOMAIN f \subseteq Net!Bottles
    /\ \A b \in DOMAIN f : IsEntry(f[b])
    /\ \A b, c \in DOMAIN f : b # c => f[b].subnet # f[c].subnet

\* What a grant may make of them.
Extends(f, g) ==
    /\ DOMAIN f \subseteq DOMAIN g
    /\ \A b \in DOMAIN f : g[b].subnet = f[b].subnet /\ g[b].browser = f[b].browser

LEMMA SshSetSound ==
  ASSUME NEW f, Sound(f), NEW bottles
  PROVE  LET g == Net!SshSet(f, bottles) IN
         DOMAIN g = DOMAIN f /\ Sound(g) /\ Extends(f, g)
  <1> DEFINE g == Net!SshSet(f, bottles)
  <1>1. DOMAIN g = DOMAIN f
    BY DEF Net!SshSet
  <1>2. ASSUME NEW b \in DOMAIN f
        PROVE  IsEntry(g[b]) /\ g[b].subnet = f[b].subnet /\ g[b].browser = f[b].browser
    <2>1. IsEntry(f[b])
      BY DEF Sound
    <2>2. CASE b \in DOMAIN bottles
      <3>1. g[b] = [f[b] EXCEPT !.ssh = bottles[b]]
        BY <2>2 DEF Net!SshSet
      <3>2. f[b] = [subnet |-> f[b].subnet, browser |-> f[b].browser, ssh |-> f[b].ssh]
        BY <2>1 DEF IsEntry
      <3>3. g[b] = [subnet |-> f[b].subnet, browser |-> f[b].browser, ssh |-> bottles[b]]
        BY <3>1, <3>2
      <3> HIDE DEF g
      <3> QED
        BY <3>3 DEF IsEntry
    <2>3. CASE b \notin DOMAIN bottles
      <3>1. g[b] = f[b]
        BY <2>3 DEF Net!SshSet
      <3> QED
        BY <2>1, <3>1
    <2> QED
      BY <2>2, <2>3
  <1> HIDE DEF g
  <1>3. Sound(g)
    BY <1>1, <1>2 DEF Sound
  <1>4. Extends(f, g)
    BY <1>1, <1>2 DEF Extends
  <1> QED
    BY <1>1, <1>3, <1>4 DEF g

LEMMA GrantedSound ==
  ASSUME Net!NetAssumption, NEW f, Sound(f), NEW b \in Net!Bottles, b \notin DOMAIN f, NEW ssh,
         NEW inUse, NEW sought, NEW g, g = Net!Granted(f, b, ssh, inUse, sought), g # None
  PROVE  DOMAIN g = DOMAIN f \cup {b} /\ Sound(g) /\ Extends(f, g)
  <1> DEFINE blocks == Net!FreeBlocks(f, inUse)
             block == Net!Min(blocks)
             e == [subnet |-> block, browser |-> Net!Min(Net!FreePorts(f, inUse, sought)), ssh |-> ssh]
  <1>1. blocks # {} /\ g = [c \in DOMAIN f \cup {b} |-> IF c = b THEN e ELSE f[c]]
    BY DEF Net!Granted
  <1>2. block \in blocks
    <2>1. blocks \in SUBSET Nat
      BY DEF Net!FreeBlocks, Net!NetAssumption
    <2> QED
      BY <1>1, <2>1, MinIsIn
  <1>3. \A c \in DOMAIN f : f[c].subnet # block
    BY <1>2 DEF Net!FreeBlocks, Net!Range
  <1> HIDE DEF block
  <1>4. IsEntry(e) /\ e.subnet = block
    BY DEF IsEntry
  <1> HIDE DEF e
  <1>5. g[b] = e /\ \A c \in DOMAIN f : g[c] = f[c]
    BY <1>1
  <1>6. DOMAIN g = DOMAIN f \cup {b}
    BY <1>1
  <1>7. Sound(g)
    BY <1>3, <1>4, <1>5, <1>6 DEF Sound
  <1> QED
    BY <1>5, <1>6, <1>7 DEF Extends

\* run is what the first k bottles leave.
Rounds(run, k, entries, bottles, inUse) ==
    run = [n \in 0 .. k |-> IF n = 0 THEN Net!SshSet(entries, bottles)
                            ELSE Net!Turn(run[n - 1], n, entries, bottles, inUse)]

LEMMA RoundsAt ==
  ASSUME NEW k \in Nat, NEW entries, NEW bottles, NEW inUse, NEW run,
         Rounds(run, k, entries, bottles, inUse)
  PROVE  /\ run[0] = Net!SshSet(entries, bottles)
         /\ \A n \in 1 .. k : run[n] = Net!Turn(run[n - 1], n, entries, bottles, inUse)
  <1> DEFINE f == [n \in 0 .. k |-> IF n = 0 THEN Net!SshSet(entries, bottles)
                                    ELSE Net!Turn(run[n - 1], n, entries, bottles, inUse)]
  <1>1. run = f
    BY DEF Rounds
  <1>2. f[0] = Net!SshSet(entries, bottles)
    OBVIOUS
  <1>3. \A n \in 1 .. k : f[n] = Net!Turn(run[n - 1], n, entries, bottles, inUse)
    OBVIOUS
  <1> QED
    BY <1>1, <1>2, <1>3

LEMMA OneRoundMore ==
  ASSUME NEW k \in Nat, NEW entries, NEW bottles, NEW inUse, NEW run,
         Rounds(run, k, entries, bottles, inUse)
  PROVE  \E longer : Rounds(longer, k + 1, entries, bottles, inUse)
  <1> DEFINE longer == [n \in 0 .. k + 1 |->
                           IF n = k + 1 THEN Net!Turn(run[k], k + 1, entries, bottles, inUse)
                                        ELSE run[n]]
             step(n) == IF n = 0 THEN Net!SshSet(entries, bottles)
                        ELSE Net!Turn(longer[n - 1], n, entries, bottles, inUse)
  <1>1. /\ run[0] = Net!SshSet(entries, bottles)
        /\ \A n \in 1 .. k : run[n] = Net!Turn(run[n - 1], n, entries, bottles, inUse)
    BY RoundsAt
  <1>2. \A n \in 0 .. k : longer[n] = run[n]
    OBVIOUS
  <1>3. longer[k + 1] = Net!Turn(run[k], k + 1, entries, bottles, inUse)
    OBVIOUS
  <1>4. DOMAIN longer = 0 .. k + 1 /\ longer = [n \in 0 .. k + 1 |-> longer[n]]
    OBVIOUS
  <1> HIDE DEF longer
  <1>5. \A n \in 0 .. k + 1 : longer[n] = step(n)
    <2> SUFFICES ASSUME NEW n \in 0 .. k + 1 PROVE longer[n] = step(n)
      OBVIOUS
    <2>1. CASE n = 0
      BY <2>1, <1>1, <1>2
    <2>2. CASE n = k + 1
      BY <2>2, <1>2, <1>3
    <2>3. CASE n \in 1 .. k
      <3>1. n - 1 \in 0 .. k /\ n \in 0 .. k
        BY <2>3
      <3> QED
        BY <2>3, <3>1, <1>1, <1>2
    <2> QED
      BY <2>1, <2>2, <2>3
  <1>6. [n \in 0 .. k + 1 |-> longer[n]] = [n \in 0 .. k + 1 |-> step(n)]
    BY <1>5
  <1>7. Rounds(longer, k + 1, entries, bottles, inUse)
    BY <1>4, <1>6 DEF Rounds
  <1> QED
    BY <1>7

\* The recursion of AllGranted has a value for every bottle.
LEMMA RoundsExist ==
  ASSUME NEW k \in Nat, NEW entries, NEW bottles, NEW inUse
  PROVE  \E run : Rounds(run, k, entries, bottles, inUse)
  <1> DEFINE S == {n \in Nat : ~\E run : Rounds(run, n, entries, bottles, inUse)}
  <1>1. SUFFICES ASSUME S # {} PROVE FALSE
    OBVIOUS
  <1>2. PICK m \in S : \A n \in S : m <= n
    BY <1>1, Least
  <1>3. m # 0
    <2>1. Rounds([n \in 0 .. 0 |-> Net!SshSet(entries, bottles)], 0, entries, bottles, inUse)
      BY DEF Rounds
    <2> QED
      BY <2>1
  <1>4. m - 1 \in Nat /\ m - 1 \notin S
    BY <1>2, <1>3
  <1>5. PICK run : Rounds(run, m - 1, entries, bottles, inUse)
    BY <1>4
  <1>6. \E longer : Rounds(longer, (m - 1) + 1, entries, bottles, inUse)
    BY <1>4, <1>5, OneRoundMore
  <1> QED
    BY <1>6

\* A grant that succeeds extends the entries: at the first turn that did not,
\* the bottle would have got a block of its own.
LEMMA AllGrantedSound ==
  ASSUME Net!NetAssumption, NEW f, Sound(f), NEW bottles, DOMAIN bottles \subseteq Net!Bottles,
         NEW inUse, NEW g, g = Net!AllGranted(f, bottles, inUse), g # None
  PROVE  Sound(g) /\ Extends(f, g)
  <1>1. PICK run : /\ Rounds(run, NBottles, f, bottles, inUse)
                   /\ g = run[NBottles]
    <2> DEFINE after == CHOOSE r : Rounds(r, NBottles, f, bottles, inUse)
    <2>1. Rounds(after, NBottles, f, bottles, inUse)
      BY RoundsExist DEF Net!NetAssumption
    <2>2. g = after[NBottles]
      BY DEF Net!AllGranted, Rounds
    <2> QED
      BY <2>1, <2>2
  <1> DEFINE Fine(n) == \/ run[n] = None
                        \/ /\ Sound(run[n]) /\ Extends(f, run[n])
                           /\ DOMAIN run[n] \subseteq DOMAIN f \cup 1 .. n
             S == {n \in 0 .. NBottles : ~Fine(n)}
  <1>2. SUFFICES ASSUME S # {} PROVE FALSE
    <2>1. NBottles \in 0 .. NBottles
      BY DEF Net!NetAssumption
    <2>2. CASE S = {}
      BY <1>1, <2>1, <2>2
    <2> QED
      BY <1>2, <2>2
  <1>3. PICK m \in S : \A n \in S : m <= n
    <2>1. S \in SUBSET Nat
      OBVIOUS
    <2> QED
      BY <1>2, <2>1, Least
  <1>4. /\ run[0] = Net!SshSet(f, bottles)
        /\ \A n \in 1 .. NBottles : run[n] = Net!Turn(run[n - 1], n, f, bottles, inUse)
    BY <1>1, RoundsAt DEF Net!NetAssumption
  <1>5. m # 0
    <2>1. Fine(0)
      BY <1>4, SshSetSound
    <2> QED
      BY <1>3, <2>1
  <1>6. m \in 1 .. NBottles /\ m \in Net!Bottles /\ m - 1 \in 0 .. NBottles /\ m - 1 \notin S
    BY <1>3, <1>5 DEF Net!Bottles, Net!NetAssumption
  <1>7. Fine(m - 1)
    BY <1>6
  <1>8. run[m] = Net!Turn(run[m - 1], m, f, bottles, inUse)
    BY <1>4, <1>6
  <1>9. Fine(m)
    <2>0. 1 .. m - 1 \subseteq 1 .. m /\ m \in 1 .. m /\ m \notin 1 .. m - 1
      BY <1>6
    <2>1. CASE m \in DOMAIN bottles \ DOMAIN f
      <3> DEFINE ssh == bottles[m]
                 sought == Net!Range(bottles) \ {None}
      <3>1. run[m] = Net!Granted(run[m - 1], m, ssh, inUse, sought)
        BY <1>8, <2>1 DEF Net!Turn
      <3> HIDE DEF ssh, sought
      <3>2. CASE run[m - 1] = None
        BY <3>1, <3>2 DEF Net!Granted
      <3>3. CASE run[m] # None /\ run[m - 1] # None
        <4> DEFINE before == run[m - 1]
                   grown == run[m]
        <4>1. Sound(before) /\ Extends(f, before) /\ DOMAIN before \subseteq DOMAIN f \cup 1 .. m - 1
          BY <1>7, <3>3
        <4>2. m \notin DOMAIN before
          BY <2>0, <2>1, <4>1
        <4>3. grown = Net!Granted(before, m, ssh, inUse, sought) /\ grown # None
          BY <3>1, <3>3
        <4> HIDE DEF before, grown, Fine, S
        <4>4. DOMAIN grown = DOMAIN before \cup {m} /\ Sound(grown) /\ Extends(before, grown)
          BY <1>6, <4>1, <4>2, <4>3, GrantedSound
        <4>5. Extends(f, grown)
          BY <4>1, <4>4 DEF Extends
        <4>6. DOMAIN grown \subseteq DOMAIN f \cup 1 .. m
          BY <2>0, <4>1, <4>4
        <4> QED
          BY <4>4, <4>5, <4>6 DEF grown, Fine
      <3> QED
        BY <3>2, <3>3
    <2>2. CASE m \notin DOMAIN bottles \ DOMAIN f
      <3>1. run[m] = run[m - 1]
        BY <1>8, <2>2 DEF Net!Turn
      <3> QED
        BY <1>7, <2>0, <3>1
    <2> QED
      BY <2>1, <2>2
  <1> QED
    BY <1>3, <1>9

------------------------------------------------------------------------------
\* What one transaction may make of the file.
Granting(f, g) == Extends(f, g) /\ Net!Blocked!Disjoint(g)
Freeing(f, g) == \E b \in DOMAIN f : g = [c \in DOMAIN f \ {b} |-> f[c]]
Permitted(f, g) == Sound(g) /\ (Granting(f, g) \/ Freeing(f, g))

LEMMA FleetPermitted ==
  ASSUME Net!NetAssumption, NEW f, Sound(f), NEW bottles \in Net!Fleets, NEW inUse,
         NEW g, g = Net!Fleet(f, bottles, inUse), g # None
  PROVE  Permitted(f, g)
  <1>1. g = Net!AllGranted(f, bottles, inUse) /\ ~Net!PortsClash(g)
    BY DEF Net!Fleet
  <1>2. DOMAIN bottles \subseteq Net!Bottles
    BY DEF Net!Fleets
  <1>3. Sound(g) /\ Extends(f, g)
    BY <1>1, <1>2, AllGrantedSound
  <1>4. Net!Blocked!Disjoint(g)
    BY <1>1, <1>3 DEF Net!PortsClash, Net!PortsOf, Sound, Net!Blocked!Disjoint, Net!Blocked!Claims
  <1> QED
    BY <1>3, <1>4 DEF Permitted, Granting

LEMMA PurgePermitted ==
  ASSUME NEW f, Sound(f), NEW b \in DOMAIN f
  PROVE  Permitted(f, Net!Restrict(f, DOMAIN f \ {b}))
  <1> DEFINE g == Net!Restrict(f, DOMAIN f \ {b})
  <1>1. g = [c \in DOMAIN f \ {b} |-> f[c]]
    BY DEF Net!Restrict
  <1>2. DOMAIN g = DOMAIN f \ {b} /\ \A c \in DOMAIN g : g[c] = f[c]
    BY <1>1
  <1>3. Freeing(f, g)
    BY <1>1 DEF Freeing
  <1> HIDE DEF g
  <1>4. Sound(g)
    BY <1>2 DEF Sound
  <1> QED
    BY <1>3, <1>4 DEF Permitted, g

\* Whoever is past the lock has it; what it loaded is the file, and what it
\* computed may follow on the file.
NetInv ==
    /\ Sound(file)
    /\ DOMAIN npc = Runs /\ DOMAIN loaded = Runs /\ DOMAIN work = Runs
    /\ \A r \in Runs :
         /\ npc[r] # "idle" => lock = r
         /\ npc[r] \in {"loaded", "computed"} => loaded[r] = file
         /\ npc[r] = "computed" => Permitted(file, work[r])

LEMMA NetInit == Net!Init => NetInv /\ Net!Blocked!Init
  BY DEF Net!Init, NetInv, Net!NoEntries, Sound, Net!Blocked!Init

LEMMA ComputeStep ==
  ASSUME Net!NetAssumption, NetInv, NEW r \in Runs, NEW g, Net!Compute(r, g),
         Permitted(loaded[r], g)
  PROVE  NetInv' /\ file' = file
  <1>1. /\ npc[r] = "loaded" /\ file' = file /\ lock' = lock /\ loaded' = loaded
        /\ work' = [work EXCEPT ![r] = g] /\ npc' = [npc EXCEPT ![r] = "computed"]
    BY DEF Net!Compute
  <1>2. lock = r /\ loaded[r] = file
    BY <1>1 DEF NetInv
  <1>3. \A q \in Runs : npc[q] # "idle" => q = r
    BY <1>2 DEF NetInv
  <1> QED
    BY <1>1, <1>2, <1>3 DEF NetInv

\* Every step of the runs is a grant, a purge or nothing to the bottles.
LEMMA NetStep ==
  ASSUME Net!NetAssumption, NetInv, [Net!Next]_(Net!vars)
  PROVE  NetInv' /\ [Net!Blocked!Next]_file
  <1>1. ASSUME NEW r \in Runs, Net!Acquire(r)
        PROVE  NetInv' /\ file' = file
    <2>1. \A q \in Runs : npc[q] = "idle"
      BY <1>1 DEF Net!Acquire, NetInv, Net!NetAssumption
    <2> QED
      BY <1>1, <2>1 DEF Net!Acquire, NetInv
  <1>2. ASSUME NEW r \in Runs, Net!Load(r)
        PROVE  NetInv' /\ file' = file
    BY <1>2 DEF Net!Load, NetInv
  <1>3. ASSUME NEW r \in Runs, Net!AllocateFleet(r)
        PROVE  NetInv' /\ file' = file
    <2>1. PICK bottles \in Net!Fleets, inUse \in Net!TakenFacts :
             Net!Compute(r, Net!Fleet(loaded[r], bottles, inUse))
      BY <1>3 DEF Net!AllocateFleet
    <2>2. Sound(loaded[r])
      BY <1>3 DEF NetInv, Net!AllocateFleet
    <2>3. Permitted(loaded[r], Net!Fleet(loaded[r], bottles, inUse))
      BY <2>1, <2>2, FleetPermitted DEF Net!Compute
    <2> QED
      BY <2>1, <2>3, ComputeStep
  <1>4. ASSUME NEW r \in Runs, Net!Purge(r)
        PROVE  NetInv' /\ file' = file
    <2>1. PICK b \in DOMAIN loaded[r] :
             Net!Compute(r, Net!Restrict(loaded[r], DOMAIN loaded[r] \ {b}))
      BY <1>4 DEF Net!Purge
    <2>2. Sound(loaded[r])
      BY <2>1 DEF NetInv, Net!Compute
    <2> QED
      BY <2>1, <2>2, PurgePermitted, ComputeStep
  <1>5. ASSUME NEW r \in Runs, Net!WriteAtomic(r)
        PROVE  NetInv' /\ Net!Blocked!Next
    <2>1. /\ npc[r] = "computed" /\ file' = work[r] /\ lock' = lock /\ loaded' = loaded
          /\ work' = [work EXCEPT ![r] = Net!NoEntries] /\ npc' = [npc EXCEPT ![r] = "locked"]
      BY <1>5 DEF Net!WriteAtomic
    <2>2. lock = r /\ Permitted(file, file')
      BY <2>1 DEF NetInv
    <2>3. \A q \in Runs : npc[q] # "idle" => q = r
      BY <2>2 DEF NetInv
    <2>4. NetInv'
      BY <2>1, <2>2, <2>3 DEF NetInv, Permitted
    <2>5. Sound(file) /\ Sound(file')
      BY <2>2 DEF NetInv, Permitted
    <2>6. CASE Granting(file, file')
      BY <2>4, <2>5, <2>6 DEF Granting, Extends, Sound, Net!Blocked!Next, Net!Blocked!Grant
    <2>7. CASE Freeing(file, file')
      BY <2>4, <2>5, <2>7 DEF Freeing, Sound, Net!Blocked!Next, Net!Blocked!Free
    <2> QED
      BY <2>2, <2>4, <2>6, <2>7 DEF Permitted
  <1>6. ASSUME NEW r \in Runs, Net!Release(r)
        PROVE  NetInv' /\ file' = file
    BY <1>6 DEF Net!Release, NetInv
  <1>7. CASE UNCHANGED Net!vars
    BY <1>7 DEF Net!vars, NetInv
  <1> QED
    BY <1>1, <1>2, <1>3, <1>4, <1>5, <1>6, <1>7 DEF Net!Next

\* Net by itself.
LEMMA BlocksImplementedAlone ==
  ASSUME Net!NetAssumption
  PROVE  Net!Spec => Net!ImplementsBlocks
  <1>1. Net!Init => NetInv /\ Net!Blocked!Init
    BY NetInit
  <1>2. NetInv /\ [Net!Next]_(Net!vars) => NetInv' /\ [Net!Blocked!Next]_file
    BY NetStep
  <1> QED
    BY <1>1, <1>2, PTL DEF Net!Spec, Net!ImplementsBlocks, Net!Blocked!Spec

\* Racing, refused and dying runs of up.sh and down.sh implement the abstract
\* allocation (bottle_net.py): disjoint entries that never move.
THEOREM BlocksImplemented == ServicesSpec => ImplementsBlocks
  <1>1. Net!Spec => Net!ImplementsBlocks
    BY BlocksImplementedAlone, ServicesAssumption DEF ServicesAssumption
  <1> QED
    BY <1>1, NetRuns, PTL DEF ImplementsBlocks

-----------------------------------------------------------------------------
(***************************************************************************)
(* EgressStore: replaying the events of a request gives the row it has.    *)
(* What a replay computes is a matter of induction on the trail, by the    *)
(* least counterexample again; what the steps need is that one more event  *)
(* heard is one step more.                                                 *)
(***************************************************************************)

\* run is a replay of the first k events.
Replays(run, events, k) ==
    run = [n \in 0 .. k |-> IF n = 0 THEN Store!Unheard ELSE Store!Hear(run[n - 1], events[n])]

LEMMA ReplayAt ==
  ASSUME NEW run, NEW events, NEW k \in Nat, Replays(run, events, k)
  PROVE  /\ run[0] = Store!Unheard
         /\ \A n \in 1 .. k : run[n] = Store!Hear(run[n - 1], events[n])
  <1> DEFINE f == [n \in 0 .. k |-> IF n = 0 THEN Store!Unheard ELSE Store!Hear(run[n - 1], events[n])]
  <1>1. run = f
    BY DEF Replays
  <1>2. f[0] = Store!Unheard
    OBVIOUS
  <1>3. \A n \in 1 .. k : f[n] = Store!Hear(run[n - 1], events[n])
    OBVIOUS
  <1> QED
    BY <1>1, <1>2, <1>3

\* A replay of k events and the next event make a replay of k + 1.
LEMMA ReplayOneMore ==
  ASSUME NEW run, NEW events, NEW k \in Nat, Replays(run, events, k)
  PROVE  \E longer : Replays(longer, events, k + 1)
  <1> DEFINE longer == [n \in 0 .. k + 1 |-> IF n = k + 1 THEN Store!Hear(run[k], events[k + 1])
                                                          ELSE run[n]]
             step(n) == IF n = 0 THEN Store!Unheard ELSE Store!Hear(longer[n - 1], events[n])
  <1>1. run[0] = Store!Unheard /\ \A n \in 1 .. k : run[n] = Store!Hear(run[n - 1], events[n])
    BY ReplayAt
  <1>2. \A n \in 0 .. k : longer[n] = run[n]
    OBVIOUS
  <1>3. longer[k + 1] = Store!Hear(run[k], events[k + 1])
    OBVIOUS
  <1>4. DOMAIN longer = 0 .. k + 1 /\ longer = [n \in 0 .. k + 1 |-> longer[n]]
    OBVIOUS
  <1> HIDE DEF longer
  <1>5. \A n \in 0 .. k + 1 : longer[n] = step(n)
    <2> SUFFICES ASSUME NEW n \in 0 .. k + 1 PROVE longer[n] = step(n)
      OBVIOUS
    <2>1. CASE n = 0
      BY <2>1, <1>1, <1>2
    <2>2. CASE n = k + 1
      BY <2>2, <1>2, <1>3
    <2>3. CASE n \in 1 .. k
      <3>1. n - 1 \in 0 .. k /\ n \in 0 .. k
        BY <2>3
      <3> QED
        BY <2>3, <3>1, <1>1, <1>2
    <2> QED
      BY <2>1, <2>2, <2>3
  <1>6. [n \in 0 .. k + 1 |-> longer[n]] = [n \in 0 .. k + 1 |-> step(n)]
    BY <1>5
  <1>7. Replays(longer, events, k + 1)
    BY <1>4, <1>6 DEF Replays
  <1> QED
    BY <1>7

LEMMA ReplayExists ==
  ASSUME NEW events, NEW k \in Nat
  PROVE  \E run : Replays(run, events, k)
  <1> DEFINE S == {n \in Nat : ~\E run : Replays(run, events, n)}
  <1>1. SUFFICES ASSUME S # {} PROVE FALSE
    OBVIOUS
  <1>2. PICK m \in S : \A n \in S : m <= n
    BY <1>1, Least
  <1>3. m # 0
    <2>1. Replays([n \in 0 .. 0 |-> Store!Unheard], events, 0)
      BY DEF Replays
    <2> QED
      BY <2>1
  <1>4. m - 1 \in Nat /\ m - 1 \notin S
    BY <1>2, <1>3
  <1>5. PICK run : Replays(run, events, m - 1)
    BY <1>4
  <1>6. \E longer : Replays(longer, events, (m - 1) + 1)
    BY <1>4, <1>5, ReplayOneMore
  <1> QED
    BY <1>6

\* Two replays agree, on trails that agree, as far as both go.
LEMMA ReplaysAgree ==
  ASSUME NEW k \in Nat, NEW i \in Nat, NEW j \in Nat, k <= i, k <= j,
         NEW r, NEW s, NEW a, NEW b, Replays(r, a, i), Replays(s, b, j),
         \A n \in 1 .. k : a[n] = b[n]
  PROVE  r[k] = s[k]
  <1> DEFINE S == {n \in 0 .. k : r[n] # s[n]}
  <1>1. SUFFICES ASSUME S # {} PROVE FALSE
    OBVIOUS
  <1>2. PICK m \in S : \A n \in S : m <= n
    <2>1. S \in SUBSET Nat
      OBVIOUS
    <2> QED
      BY <1>1, <2>1, Least
  <1>3. /\ r[0] = Store!Unheard /\ \A n \in 1 .. i : r[n] = Store!Hear(r[n - 1], a[n])
        /\ s[0] = Store!Unheard /\ \A n \in 1 .. j : s[n] = Store!Hear(s[n - 1], b[n])
    BY ReplayAt
  <1>4. m \in 1 .. k
    BY <1>3
  <1>5. r[m - 1] = s[m - 1]
    BY <1>2, <1>4
  <1> QED
    BY <1>3, <1>4, <1>5

LEMMA ReplayedIs ==
  ASSUME NEW events, Len(events) \in Nat, NEW run, Replays(run, events, Len(events))
  PROVE  Store!Replayed(events) = run[Len(events)]
  <1> DEFINE k == Len(events)
             f == CHOOSE g : Replays(g, events, k)
  <1>1. Replays(f, events, k)
    OBVIOUS
  <1>2. Store!Replayed(events) = f[k]
    BY DEF Store!Replayed, Replays
  <1>3. f[k] = run[k]
    BY <1>1, ReplaysAgree
  <1> QED
    BY <1>2, <1>3

\* What an auditor hears: nothing at first, and one event more at a time.
LEMMA ReplayedEmpty == Store!Replayed(<<>>) = Store!Unheard
  <1>1. PICK run : Replays(run, <<>>, 0)
    BY ReplayExists
  <1>2. Len(<<>>) = 0
    OBVIOUS
  <1> QED
    BY <1>1, <1>2, ReplayedIs, ReplayAt

LEMMA ReplayedAppend ==
  ASSUME NEW events \in Seq(Store!Events), NEW e \in Store!Events
  PROVE  Store!Replayed(Append(events, e)) = Store!Hear(Store!Replayed(events), e)
  <1> DEFINE k == Len(events)
             more == Append(events, e)
  <1>1. k \in Nat /\ Len(more) = k + 1 /\ more[k + 1] = e
    <2>1. Len(events) \in Nat
      OBVIOUS
    <2>2. Len(Append(events, e)) = Len(events) + 1
      OBVIOUS
    <2>3. Append(events, e)[Len(events) + 1] = e
      OBVIOUS
    <2> QED
      BY <2>1, <2>2, <2>3
  <1>2. \A n \in 1 .. k : more[n] = events[n]
    OBVIOUS
  <1> HIDE DEF more, k
  <1>3. PICK run : Replays(run, more, k + 1)
    <2>1. k + 1 \in Nat
      BY <1>1
    <2> QED
      BY <2>1, ReplayExists
  <1>4. PICK r : Replays(r, events, k)
    BY <1>1, ReplayExists
  <1>5. run[k] = r[k]
    BY <1>1, <1>2, <1>3, <1>4, ReplaysAgree
  <1>6. run[k + 1] = Store!Hear(run[k], e)
    BY <1>1, <1>3, ReplayAt
  <1>7. Store!Replayed(events) = r[k]
    BY <1>1, <1>4, ReplayedIs DEF k
  <1>8. Store!Replayed(more) = run[k + 1]
    BY <1>1, <1>3, ReplayedIs
  <1> QED
    BY <1>5, <1>6, <1>7, <1>8 DEF more
------------------------------
\* One event, heard and done to the row.

Heard == [status : {"absent", "open"} \cup Store!CloseStatuses, hits : Nat, tries : Nat,
          failing : BOOLEAN, persist : Store!PersistOutcomes \cup {None}]

\* What was heard is what the row and its hit counter say.
Agrees(s, row, hit, uncounted) ==
    /\ s.status = row.status
    /\ s.hits + uncounted = hit
    /\ s.tries = row.tries
    /\ s.failing <=> row.error # 0
    /\ s.persist = row.persist

\* A row that was never filed has no history.
Untouched(row, uncounted) ==
    row.status = "absent" =>
        row.tries = 0 /\ row.error = 0 /\ row.persist = None /\ uncounted = 0

StoreTyped ==
    /\ rows \in [Ids -> Store!Row]
    /\ hits \in [Ids -> Nat]
    /\ quiet \in [Ids -> Nat]
    /\ trail \in [Ids -> Seq(Store!Events)]

TrailSays == \A id \in Ids :
    /\ Store!Replayed(trail[id]) \in Heard
    /\ Agrees(Store!Replayed(trail[id]), rows[id], hits[id], quiet[id])
    /\ Untouched(rows[id], quiet[id])

StoreInv == StoreTyped /\ TrailSays

\* Every method that records an event: it is enough that hearing the event
\* takes what the trail said to what the row says now.
LEMMA RecordInv ==
  ASSUME StoreInv, NEW id \in Ids, NEW e \in Store!EventKinds, NEW row \in Store!Row, NEW hit \in Nat,
         rows' = [rows EXCEPT ![id] = row], hits' = [hits EXCEPT ![id] = hit],
         Store!Record(id, e), UNCHANGED quiet,
         LET s == Store!Replayed(trail[id]) IN
             Store!Hear(s, Store!One(e)) \in Heard /\ Agrees(Store!Hear(s, Store!One(e)), row, hit, quiet[id]),
         Untouched(row, quiet[id])
  PROVE  StoreInv'
  <1>1. StoreTyped /\ trail[id] \in Seq(Store!Events)
    BY DEF StoreInv, StoreTyped
  <1>2. trail' = [trail EXCEPT ![id] = Append(trail[id], Store!One(e))]
    BY DEF Store!Record
  <1>9. Store!One(e) \in Store!Events
    BY DEF Store!One, Store!Events
  <1>3. Append(trail[id], Store!One(e)) \in Seq(Store!Events)
    BY <1>1, <1>9
  <1>4. StoreTyped'
    BY <1>1, <1>2, <1>3 DEF StoreTyped
  <1>5. ASSUME NEW i \in Ids, i # id
        PROVE  trail'[i] = trail[i] /\ rows'[i] = rows[i] /\ hits'[i] = hits[i]
    BY <1>1, <1>2, <1>5 DEF StoreTyped
  <1>6. trail'[id] = Append(trail[id], Store!One(e)) /\ rows'[id] = row /\ hits'[id] = hit
    BY <1>1, <1>2 DEF StoreTyped
  <1>7. Store!Replayed(trail'[id]) = Store!Hear(Store!Replayed(trail[id]), Store!One(e))
    BY <1>1, <1>6, <1>9, ReplayedAppend
  <1>8. TrailSays'
    <2> SUFFICES ASSUME NEW i \in Ids
                 PROVE  /\ Store!Replayed(trail'[i]) \in Heard
                        /\ Agrees(Store!Replayed(trail'[i]), rows'[i], hits'[i], quiet[i])
                        /\ Untouched(rows'[i], quiet[i])
      BY DEF TrailSays, Agrees, Untouched
    <2>1. CASE i = id
      BY <2>1, <1>6, <1>7
    <2>2. CASE i # id
      BY <2>2, <1>5 DEF StoreInv, TrailSays
    <2> QED
      BY <2>1, <2>2
  <1> QED
    BY <1>4, <1>8 DEF StoreInv

LEMMA RowTyped ==
  ASSUME StoreInv, NEW id \in Ids
  PROVE  /\ rows[id] \in Store!Row /\ hits[id] \in Nat /\ quiet[id] \in Nat
         /\ Store!Replayed(trail[id]) \in Heard
         /\ Agrees(Store!Replayed(trail[id]), rows[id], hits[id], quiet[id])
         /\ Untouched(rows[id], quiet[id])
         /\ rows = [rows EXCEPT ![id] = rows[id]] /\ hits = [hits EXCEPT ![id] = hits[id]]
  <1>1. StoreTyped /\ TrailSays
    BY DEF StoreInv
  <1> QED
    BY <1>1 DEF StoreTyped, TrailSays

LEMMA HitInv ==
  ASSUME StoreInv, NEW id \in Ids, rows[id].status = "open", Store!ApplyHit(id)
  PROVE  StoreInv'
  <1> DEFINE s == Store!Replayed(trail[id])
             t == Store!Hear(s, Store!One("hit"))
  <1>1. /\ rows[id] \in Store!Row /\ hits[id] \in Nat /\ quiet[id] \in Nat /\ s \in Heard
        /\ Agrees(s, rows[id], hits[id], quiet[id])
        /\ rows = [rows EXCEPT ![id] = rows[id]]
    BY RowTyped
  <1>2. /\ rows' = [rows EXCEPT ![id] = rows[id]] /\ hits' = [hits EXCEPT ![id] = hits[id] + 1]
        /\ Store!Record(id, "hit") /\ UNCHANGED quiet /\ hits[id] + 1 \in Nat
    BY <1>1 DEF Store!ApplyHit
  <1>3. "hit" \in Store!EventKinds /\ Untouched(rows[id], quiet[id])
    BY DEF Store!EventKinds, Untouched
  <1> SUFFICES t \in Heard /\ Agrees(t, rows[id], hits[id] + 1, quiet[id])
    BY <1>1, <1>2, <1>3, RecordInv
  <1>4. t = [s EXCEPT !.hits = s.hits + 1]
    BY DEF Store!Hear, Store!One, Store!CloseStatuses, Store!PersistOutcomes
  <1>5. s.hits \in Nat /\ s.hits + 1 \in Nat
    BY <1>1 DEF Heard
  <1> HIDE DEF s, t
  <1> QED
    BY <1>1, <1>4, <1>5 DEF Heard, Agrees

LEMMA InsertInv ==
  ASSUME StoreInv, NEW id \in Ids, NEW k \in RequestKeys, rows[id].status = "absent",
         Store!InsertOpen(id, k)
  PROVE  StoreInv'
  <1> DEFINE s == Store!Replayed(trail[id])
             t == Store!Hear(s, Store!One("requested"))
  <1>1. s \in Heard /\ Agrees(s, rows[id], hits[id], quiet[id]) /\ Untouched(rows[id], quiet[id])
    BY RowTyped
  <1>2. /\ Store!Opened(k) \in Store!Row
        /\ Store!Opened(k).status = "open" /\ Store!Opened(k).tries = 0 /\ Store!Opened(k).error = 0
        /\ Store!Opened(k).persist = None
    BY DEF Store!Opened, Store!Absent, Store!Row
  <1>3. "requested" \in Store!EventKinds /\ Untouched(Store!Opened(k), quiet[id])
    BY <1>2 DEF Store!EventKinds, Untouched
  <1> SUFFICES t \in Heard /\ Agrees(t, Store!Opened(k), 1, quiet[id])
    BY <1>2, <1>3, RecordInv DEF Store!InsertOpen
  <1>4. t = [s EXCEPT !.status = "open", !.hits = 1]
    BY DEF Store!Hear, Store!One, Store!CloseStatuses, Store!PersistOutcomes
  <1> HIDE DEF s, t
  <1>5. s.tries = 0 /\ s.persist = None /\ quiet[id] = 0
    BY <1>1 DEF Agrees, Untouched
  <1>6. ~s.failing
    BY <1>1 DEF Agrees, Untouched
  <1>7. t \in Heard
    BY <1>1, <1>4 DEF Heard
  <1>8. /\ t.status = "open" /\ t.hits = 1 /\ t.tries = s.tries /\ t.failing = s.failing
        /\ t.persist = s.persist
    BY <1>1, <1>4 DEF Heard
  <1>9. ~t.failing
    BY <1>6, <1>8
  <1> QED
    BY <1>2, <1>5, <1>7, <1>8, <1>9 DEF Agrees

LEMMA OpenOrHitInv ==
  ASSUME StoreInv, NEW id \in Ids, NEW k \in RequestKeys, Store!OpenOrHit(id, k)
  PROVE  StoreInv'
  BY HitInv, InsertInv DEF Store!OpenOrHit, Store!IsOpen, Store!OpenRowsOf

LEMMA SuppressedInv ==
  ASSUME StoreInv, NEW id \in Ids, Store!SuppressedHit(id)
  PROVE  StoreInv'
  <1>1. /\ StoreTyped /\ TrailSays /\ rows' = rows /\ trail' = trail /\ rows[id].status = "denied"
        /\ hits' = [hits EXCEPT ![id] = @ + 1] /\ quiet' = [quiet EXCEPT ![id] = @ + 1]
    BY DEF StoreInv, Store!SuppressedHit
  <1>2. StoreTyped'
    BY <1>1 DEF StoreTyped
  <1>3. ASSUME NEW i \in Ids
        PROVE  /\ Store!Replayed(trail[i]) \in Heard
               /\ Agrees(Store!Replayed(trail[i]), rows[i], hits'[i], quiet'[i])
               /\ Untouched(rows[i], quiet'[i])
    <2>1. /\ hits[i] \in Nat /\ quiet[i] \in Nat
          /\ hits'[i] = (IF i = id THEN hits[i] + 1 ELSE hits[i])
          /\ quiet'[i] = (IF i = id THEN quiet[i] + 1 ELSE quiet[i])
      BY <1>1 DEF StoreTyped
    <2>2. /\ Store!Replayed(trail[i]) \in Heard
          /\ Agrees(Store!Replayed(trail[i]), rows[i], hits[i], quiet[i])
          /\ Untouched(rows[i], quiet[i])
      BY <1>1 DEF TrailSays
    <2>3. Store!Replayed(trail[i]).hits \in Nat
      BY <2>2 DEF Heard
    <2> QED
      BY <1>1, <2>1, <2>2, <2>3 DEF Agrees, Untouched
  <1>4. TrailSays'
    BY <1>1, <1>3 DEF TrailSays, Agrees, Untouched
  <1> QED
    BY <1>2, <1>4 DEF StoreInv

LEMMA NotifiedInv ==
  ASSUME StoreInv, NEW id \in Ids, Store!MarkNotified(id)
  PROVE  StoreInv'
  <1>1. Store!Hear(Store!Replayed(trail[id]), Store!One("notified")) = Store!Replayed(trail[id])
    BY DEF Store!Hear, Store!One, Store!CloseStatuses, Store!PersistOutcomes
  <1>2. "notified" \in Store!EventKinds
    BY DEF Store!EventKinds
  <1> QED
    BY <1>1, <1>2, RowTyped, RecordInv DEF Store!MarkNotified

LEMMA CloseInv ==
  ASSUME StoreInv, NEW id \in Ids, NEW status \in Store!CloseStatuses, NEW by \in Store!DecidedBy,
         NEW body \in Store!Bodies, Store!Close(id, status, by, body)
  PROVE  StoreInv'
  <1> DEFINE s == Store!Replayed(trail[id])
             row == Store!Closed(rows[id], status, by, body)
  <1>1. /\ rows[id] \in Store!Row /\ hits[id] \in Nat /\ quiet[id] \in Nat /\ s \in Heard
        /\ Agrees(s, rows[id], hits[id], quiet[id])
        /\ hits = [hits EXCEPT ![id] = hits[id]]
    BY RowTyped
  <1>2. /\ rows' = [rows EXCEPT ![id] = row] /\ Store!Record(id, status) /\ UNCHANGED <<hits, quiet>>
    BY DEF Store!Close
  <1> HIDE DEF s
  <1>3. Store!Hear(s, Store!One(status)) = [s EXCEPT !.status = status, !.failing = FALSE]
    BY DEF Store!Hear, Store!One, Store!CloseStatuses, Store!PersistOutcomes
  <1>4. row \in Store!Row
    BY <1>1 DEF Store!Closed, Store!Row
  <1>5. /\ row.status = status /\ row.error = 0 /\ row.tries = rows[id].tries
        /\ row.persist = rows[id].persist
    BY <1>1 DEF Store!Closed, Store!Row
  <1> HIDE DEF row
  <1>6. Store!Hear(s, Store!One(status)) \in Heard
    BY <1>1, <1>3 DEF Heard
  <1>7. Agrees(Store!Hear(s, Store!One(status)), row, hits[id], quiet[id])
    BY <1>1, <1>3, <1>5 DEF Heard, Agrees
  <1>8. status \in Store!EventKinds /\ Untouched(row, quiet[id])
    BY <1>5 DEF Store!EventKinds, Untouched, Store!CloseStatuses
  <1> QED
    BY <1>1, <1>2, <1>4, <1>6, <1>7, <1>8, RecordInv DEF s

LEMMA ApplyInv ==
  ASSUME StoreInv, NEW id \in Ids, NEW outcome \in Store!ApplyOutcomes, Store!MarkApply(id, outcome)
  PROVE  StoreInv'
  <1> DEFINE s == Store!Replayed(trail[id])
             row == Store!ApplyMarked(rows[id], outcome)
             e == IF outcome = "applied" THEN "applied" ELSE "apply_failed"
             t == Store!Hear(s, Store!One(e))
  <1>1. /\ rows[id] \in Store!Row /\ hits[id] \in Nat /\ quiet[id] \in Nat /\ s \in Heard
        /\ Agrees(s, rows[id], hits[id], quiet[id])
        /\ hits = [hits EXCEPT ![id] = hits[id]]
    BY RowTyped
  <1>2. /\ rows' = [rows EXCEPT ![id] = row] /\ Store!Record(id, e) /\ UNCHANGED <<hits, quiet>>
        /\ rows[id].status # "absent" /\ e \in Store!EventKinds
    BY DEF Store!MarkApply, Store!EventKinds
  <1> SUFFICES /\ row \in Store!Row /\ Untouched(row, quiet[id])
               /\ t \in Heard /\ Agrees(t, row, hits[id], quiet[id])
    BY <1>1, <1>2, RecordInv
  <1> DEFINE tried == rows[id].tries + 1
  <1>3. rows[id].tries \in Nat /\ tried \in Nat /\ tried # 0 /\ s.tries = rows[id].tries
    BY <1>1 DEF Store!Row, Agrees
  <1>4. CASE outcome = "applied"
    <2>1. row = [rows[id] EXCEPT !.apply = outcome, !.tries = tried, !.error = 0]
      BY <1>1, <1>4 DEF Store!ApplyMarked, Store!Row
    <2>2. t = [s EXCEPT !.tries = s.tries + 1, !.failing = FALSE]
      BY <1>4 DEF Store!Hear, Store!One, Store!CloseStatuses, Store!PersistOutcomes
    <2>3. t = [s EXCEPT !.tries = tried, !.failing = FALSE]
      BY <1>3, <2>2
    <2> HIDE DEF s, t, row, tried
    <2>4. row \in Store!Row /\ t \in Heard
      BY <1>1, <1>3, <2>1, <2>3 DEF Store!Row, Heard
    <2>5. /\ row.status = rows[id].status /\ row.tries = tried /\ row.error = 0
          /\ row.persist = rows[id].persist
      BY <1>1, <2>1 DEF Store!Row
    <2>6. /\ t.status = s.status /\ t.hits = s.hits /\ t.tries = tried /\ t.persist = s.persist
          /\ ~t.failing
      BY <1>1, <2>3 DEF Heard
    <2> QED
      BY <1>1, <1>2, <2>4, <2>5, <2>6 DEF Agrees, Untouched
  <1>5. CASE outcome # "applied"
    <2>1. row = [rows[id] EXCEPT !.apply = outcome, !.tries = tried, !.error = tried]
      BY <1>1, <1>5 DEF Store!ApplyMarked, Store!Row
    <2>2. t = [s EXCEPT !.tries = s.tries + 1, !.failing = TRUE]
      BY <1>5 DEF Store!Hear, Store!One, Store!CloseStatuses, Store!PersistOutcomes
    <2>3. t = [s EXCEPT !.tries = tried, !.failing = TRUE]
      BY <1>3, <2>2
    <2> HIDE DEF s, t, row, tried
    <2>4. row \in Store!Row /\ t \in Heard
      BY <1>1, <1>3, <2>1, <2>3 DEF Store!Row, Heard
    <2>5. /\ row.status = rows[id].status /\ row.tries = tried /\ row.error = tried
          /\ row.persist = rows[id].persist
      BY <1>1, <2>1 DEF Store!Row
    <2>6. /\ t.status = s.status /\ t.hits = s.hits /\ t.tries = tried /\ t.persist = s.persist
          /\ t.failing
      BY <1>1, <2>3 DEF Heard
    <2> QED
      BY <1>1, <1>2, <1>3, <2>4, <2>5, <2>6 DEF Agrees, Untouched
  <1> QED
    BY <1>4, <1>5

LEMMA PersistInv ==
  ASSUME StoreInv, NEW id \in Ids, NEW outcome \in Store!PersistOutcomes, Store!MarkPersist(id, outcome)
  PROVE  StoreInv'
  <1> DEFINE s == Store!Replayed(trail[id])
             row == Store!PersistMarked(rows[id], outcome)
  <1>1. /\ rows[id] \in Store!Row /\ hits[id] \in Nat /\ quiet[id] \in Nat /\ s \in Heard
        /\ Agrees(s, rows[id], hits[id], quiet[id])
        /\ hits = [hits EXCEPT ![id] = hits[id]]
    BY RowTyped
  <1>2. /\ rows' = [rows EXCEPT ![id] = row] /\ Store!Record(id, outcome) /\ UNCHANGED <<hits, quiet>>
        /\ rows[id].status # "absent"
    BY DEF Store!MarkPersist
  <1> HIDE DEF s
  <1>3. Store!Hear(s, Store!One(outcome)) = [s EXCEPT !.persist = outcome] /\ outcome \in Store!EventKinds
    BY DEF Store!Hear, Store!One, Store!CloseStatuses, Store!PersistOutcomes, Store!EventKinds
  <1>4. row \in Store!Row
    BY <1>1 DEF Store!PersistMarked, Store!Row
  <1>5. /\ row.status = rows[id].status /\ row.tries = rows[id].tries
        /\ row.error = rows[id].error /\ row.persist = outcome
    BY <1>1 DEF Store!PersistMarked, Store!Row
  <1> HIDE DEF row
  <1>6. Store!Hear(s, Store!One(outcome)) \in Heard
    BY <1>1, <1>3 DEF Heard
  <1>7. Agrees(Store!Hear(s, Store!One(outcome)), row, hits[id], quiet[id])
    BY <1>1, <1>3, <1>5 DEF Heard, Agrees
  <1>8. Untouched(row, quiet[id])
    BY <1>2, <1>5 DEF Untouched
  <1> QED
    BY <1>1, <1>2, <1>3, <1>4, <1>6, <1>7, <1>8, RecordInv DEF s

\* Nothing was said of a row that was never filed.
LEMMA FreshAgrees ==
  Store!Unheard \in Heard /\ Agrees(Store!Unheard, Store!Absent, 0, 0) /\ Untouched(Store!Absent, 0)
  <1>1. Store!Unheard \in Heard
    BY DEF Store!Unheard, Heard
  <1>2. Agrees(Store!Unheard, Store!Absent, 0, 0)
    BY DEF Agrees, Store!Unheard, Store!Absent
  <1>3. Untouched(Store!Absent, 0)
    BY DEF Untouched, Store!Absent
  <1> QED
    BY <1>1, <1>2, <1>3

\* An auditor who learns that a request is open and was asked for n times.
AskedFor(s, n) == [s EXCEPT !.status = "open", !.hits = n]

\* The events of an import: typed, and heard as an open request with all of its
\* hits.
LEMMA ImportHeard ==
  ASSUME NEW events \in Seq(Store!Events), NEW n \in Nat, n > 0,
         Store!Replayed(events) \in Heard
  PROVE  /\ Store!ImportEvents(events, n) \in Seq(Store!Events)
         /\ Store!Replayed(Store!ImportEvents(events, n)) = AskedFor(Store!Replayed(events), n)
  <1> DEFINE s == Store!Replayed(events)
             first == Store!One("requested")
             opened == Append(events, first)
             rest == [kind |-> "hit", count |-> n - 1]
  <1>1. first \in Store!Events
    BY DEF Store!One, Store!Events, Store!EventKinds
  <1>2. opened \in Seq(Store!Events)
    BY <1>1
  <1>3. Store!Replayed(opened) = Store!Hear(s, first)
    BY <1>1, ReplayedAppend
  <1>4. Store!Hear(s, first) = [s EXCEPT !.status = "open", !.hits = 1]
    BY DEF Store!Hear, Store!One, Store!CloseStatuses, Store!PersistOutcomes
  <1>5. CASE n = 1
    <2>1. Store!ImportEvents(events, n) = opened
      BY <1>5 DEF Store!ImportEvents
    <2>2. Store!Hear(s, first) = AskedFor(s, n)
      BY <1>4, <1>5 DEF AskedFor
    <2> QED
      BY <1>2, <1>3, <2>1, <2>2
  <1>6. CASE n > 1
    <2>1. Store!ImportEvents(events, n) = Append(opened, rest)
      BY <1>6 DEF Store!ImportEvents
    <2>2. rest \in Store!Events
      BY <1>6 DEF Store!Events, Store!EventKinds
    <2>3. Store!Replayed(Append(opened, rest)) = Store!Hear(Store!Replayed(opened), rest)
      BY <1>2, <2>2, ReplayedAppend
    <2> DEFINE u == Store!Replayed(opened)
    <2>4. Store!Hear(u, rest) = [u EXCEPT !.hits = u.hits + (n - 1)]
      BY DEF Store!Hear, Store!CloseStatuses, Store!PersistOutcomes
    <2>5. u = [s EXCEPT !.status = "open", !.hits = 1] /\ s \in Heard
      BY <1>3, <1>4
    <2> HIDE DEF s, u
    <2>6. u.hits + (n - 1) = n
      <3>1. u.hits = 1
        BY <2>5 DEF Heard
      <3> QED
        BY <3>1
    <2>7. [u EXCEPT !.hits = n] = [s EXCEPT !.status = "open", !.hits = n]
      BY <2>5 DEF Heard
    <2>8. Append(opened, rest) \in Seq(Store!Events)
      BY <1>2, <2>2
    <2>9. Store!Hear(u, rest) = AskedFor(s, n)
      BY <2>4, <2>6, <2>7 DEF AskedFor
    <2> QED
      BY <2>1, <2>3, <2>8, <2>9 DEF s, u
  <1> QED
    BY <1>5, <1>6

\* The cutover says of every imported request what its row says.
LEMMA ImportInv ==
  ASSUME Store!LegacyType, StoreInv, Store!ImportOpen
  PROVE  StoreInv'
  <1> DEFINE new == {id \in Ids : rows[id].status = "absent" /\ Legacy[id].hits > 0}
  <1>1. /\ rows' = [id \in Ids |-> IF id \in new THEN Store!Opened(Legacy[id].key) ELSE rows[id]]
        /\ hits' = [id \in Ids |-> IF id \in new THEN Legacy[id].hits ELSE hits[id]]
        /\ trail' = [id \in Ids |-> IF id \in new
                                     THEN Store!ImportEvents(trail[id], Legacy[id].hits)
                                     ELSE trail[id]]
        /\ quiet' = quiet
    BY DEF Store!ImportOpen
  <1>2. \A k \in RequestKeys :
          /\ Store!Opened(k) \in Store!Row
          /\ Store!Opened(k).status = "open" /\ Store!Opened(k).tries = 0
          /\ Store!Opened(k).error = 0 /\ Store!Opened(k).persist = None
    BY DEF Store!Opened, Store!Absent, Store!Row
  <1>3. StoreTyped
    BY DEF StoreInv
  <1> HIDE DEF new
  <1>4. ASSUME NEW id \in Ids, id \in new
        PROVE  /\ rows'[id] \in Store!Row /\ hits'[id] \in Nat
               /\ trail'[id] \in Seq(Store!Events)
               /\ Store!Replayed(trail'[id]) \in Heard
               /\ Agrees(Store!Replayed(trail'[id]), rows'[id], hits'[id], quiet[id])
               /\ Untouched(rows'[id], quiet[id])
    <2> DEFINE s == Store!Replayed(trail[id])
               n == Legacy[id].hits
               row == Store!Opened(Legacy[id].key)
    <2>1. n \in Nat /\ n > 0 /\ Legacy[id].key \in RequestKeys /\ rows[id].status = "absent"
      BY <1>4 DEF new, Store!LegacyType
    <2>2. /\ rows'[id] = row /\ hits'[id] = n
          /\ trail'[id] = Store!ImportEvents(trail[id], n)
      BY <1>1, <1>4
    <2>3. /\ row \in Store!Row /\ row.status = "open" /\ row.tries = 0 /\ row.error = 0
          /\ row.persist = None
      BY <1>2, <2>1
    <2>4. s \in Heard /\ Agrees(s, rows[id], hits[id], quiet[id]) /\ Untouched(rows[id], quiet[id])
      BY RowTyped
    <2>5. s.tries = 0 /\ s.persist = None /\ quiet[id] = 0
      BY <2>1, <2>4 DEF Agrees, Untouched
    <2>6. ~s.failing
      BY <2>1, <2>4 DEF Agrees, Untouched
    <2>7. trail[id] \in Seq(Store!Events)
      BY <1>3 DEF StoreTyped
    <2> DEFINE t == Store!Replayed(trail'[id])
    <2> HIDE DEF n, row
    <2>14. /\ Store!ImportEvents(trail[id], n) \in Seq(Store!Events)
           /\ Store!Replayed(Store!ImportEvents(trail[id], n)) = AskedFor(s, n)
      BY ONLY <2>1, <2>4, <2>7, ImportHeard
    <2> HIDE DEF s
    <2>8. trail'[id] \in Seq(Store!Events) /\ t = AskedFor(s, n)
      BY ONLY <2>2, <2>14
    <2> HIDE DEF t
    <2>9. t \in Heard
      BY <2>1, <2>4, <2>8 DEF Heard, AskedFor
    <2>10. /\ t.status = "open" /\ t.hits = n /\ t.tries = s.tries /\ t.failing = s.failing
           /\ t.persist = s.persist
      BY <2>4, <2>8 DEF Heard, AskedFor
    <2>11. ~t.failing
      BY <2>6, <2>10
    <2>12. Agrees(t, row, n, quiet[id])
      BY <2>1, <2>3, <2>5, <2>10, <2>11 DEF Agrees
    <2>13. Untouched(row, quiet[id])
      BY <2>3 DEF Untouched
    <2> QED
      BY <2>1, <2>2, <2>3, <2>8, <2>9, <2>12, <2>13 DEF t
  <1>5. ASSUME NEW id \in Ids, id \notin new
        PROVE  /\ rows'[id] \in Store!Row /\ hits'[id] \in Nat
               /\ trail'[id] \in Seq(Store!Events)
               /\ Store!Replayed(trail'[id]) \in Heard
               /\ Agrees(Store!Replayed(trail'[id]), rows'[id], hits'[id], quiet[id])
               /\ Untouched(rows'[id], quiet[id])
    <2>1. rows'[id] = rows[id] /\ hits'[id] = hits[id] /\ trail'[id] = trail[id]
      BY <1>1, <1>5
    <2>2. trail[id] \in Seq(Store!Events)
      BY <1>3 DEF StoreTyped
    <2> QED
      BY <2>1, <2>2, RowTyped
  <1>6. ASSUME NEW id \in Ids
        PROVE  /\ rows'[id] \in Store!Row /\ hits'[id] \in Nat
               /\ trail'[id] \in Seq(Store!Events)
               /\ Store!Replayed(trail'[id]) \in Heard
               /\ Agrees(Store!Replayed(trail'[id]), rows'[id], hits'[id], quiet[id])
               /\ Untouched(rows'[id], quiet[id])
    BY <1>4, <1>5
  <1>7. StoreTyped'
    BY <1>1, <1>3, <1>6 DEF StoreTyped
  <1>8. TrailSays'
    BY <1>1, <1>6 DEF TrailSays, Agrees, Untouched
  <1> QED
    BY <1>7, <1>8 DEF StoreInv

LEMMA StoreInit == Store!Init => StoreInv
  <1> SUFFICES ASSUME Store!Init PROVE StoreInv
    OBVIOUS
  <1>1. Store!Absent \in Store!Row
    BY DEF Store!Absent, Store!Row
  <1>2. StoreTyped
    BY <1>1 DEF Store!Init, StoreTyped
  <1>3. TrailSays
    BY FreshAgrees, ReplayedEmpty DEF Store!Init, TrailSays
  <1> QED
    BY <1>2, <1>3 DEF StoreInv

LEMMA StoreNext ==
  ASSUME Store!LegacyType, StoreInv, [Store!Next]_(Store!vars)
  PROVE  StoreInv'
  <1>1. CASE UNCHANGED Store!vars
    BY <1>1 DEF Store!vars, StoreInv, StoreTyped, TrailSays, Agrees, Untouched
  <1>2. CASE Store!ImportOpen
    BY <1>2, ImportInv
  <1>3. ASSUME NEW id \in Ids,
               \/ \E k \in RequestKeys : Store!OpenOrHit(id, k)
               \/ Store!SuppressedHit(id) \/ Store!MarkNotified(id)
               \/ \E o \in Store!ApplyOutcomes : Store!MarkApply(id, o)
               \/ \E o \in Store!PersistOutcomes : Store!MarkPersist(id, o)
        PROVE  StoreInv'
    BY <1>3, OpenOrHitInv, SuppressedInv, NotifiedInv, ApplyInv, PersistInv
  <1>4. ASSUME NEW id \in Ids,
               \/ Store!Close(id, "allowed", "operator", "allow")
               \/ \E body \in {"deny", "deny_denylist"} : Store!Close(id, "denied", "operator", body)
               \/ Store!Close(id, "denied", "denylist", "deny_denylist")
               \/ Store!Close(id, "stale", "sweep", "deny_stale")
        PROVE  StoreInv'
    BY <1>4, CloseInv DEF Store!CloseStatuses, Store!DecidedBy, Store!Bodies
  <1> QED
    BY <1>1, <1>2, <1>3, <1>4 DEF Store!Next

\* Store by itself.
LEMMA TrailIsCompleteAlone ==
  ASSUME Store!LegacyType
  PROVE  Store!Spec => []Store!TrailReplaysToRow
  <1>1. Store!Init => StoreInv
    BY StoreInit
  <1>2. StoreInv /\ [Store!Next]_(Store!vars) => StoreInv'
    BY StoreNext
  <1>3. StoreInv => Store!TrailReplaysToRow
    BY DEF StoreInv, TrailSays, Agrees, Store!TrailReplaysToRow
  <1> QED
    BY <1>1, <1>2, <1>3, PTL DEF Store!Spec

\* The events of a request, replayed, give its row: status, attempts, pending
\* error, persist outcome and, suppressed hits apart, the hit count; whatever
\* methods are called in whatever order (egress_store.py).
THEOREM TrailIsComplete == ServicesSpec => []TrailReplaysToRow
  <1>1. Store!Spec => []Store!TrailReplaysToRow
    BY TrailIsCompleteAlone, ServicesAssumption DEF ServicesAssumption
  <1> QED
    BY <1>1, StoreRuns, PTL DEF TrailReplaysToRow

-----------------------------------------------------------------------------
(***************************************************************************)
(* BackupService: what one process created no other replaces.  The         *)
(* password file and Backrest's configuration are created with O_EXCL and  *)
(* are empty while their creator is alive and has not written them, so a   *)
(* write never meets content; the repository is initialised only where     *)
(* there is none.                                                          *)
(***************************************************************************)

CommandAt(o, s) == bpc[o] # "idle" /\ bpc[o][2] = s

CommandsTyped == DOMAIN bpc = Ops \cup Backup!Services

\* Who is about to write a file is the only one, and the file is empty.
PasswordWriter ==
    \A o \in Ops : CommandAt(o, "write") =>
        password = Empty /\ \A q \in Ops : CommandAt(q, "write") => q = o

BrowserWriter ==
    \A o \in Ops, i \in Backup!RepoIds : CommandAt(o, i) =>
        browser = Empty /\ \A q \in Ops, j \in Backup!RepoIds : CommandAt(q, j) => q = o

\* A service that exports has seen a repository, so what is exported is an id.
Exporting ==
    /\ export \in {NoFile} \cup Backup!RepoIds
    /\ \A s \in Backup!Services :
         /\ bpc[s] \in {"export", "replace"} => Backup!Initialised
         /\ bpc[s] = "initialising" => repo = Partial \/ Backup!Initialised

BackupInv == CommandsTyped /\ PasswordWriter /\ BrowserWriter /\ Exporting

\* What a step may do to what was created.
BackupKept ==
    /\ Backup!Initialised => repo' = repo
    /\ repo = Partial => repo' # NoFile
    /\ password \in Ops => password' = password
    /\ browser \in Backup!RepoIds => browser' = browser

-------------------------------------------------------------------------------
LEMMA BackupInit == ASSUME Backup!BackupNames PROVE Backup!Init => BackupInv
  <1> SUFFICES ASSUME Backup!Init PROVE BackupInv
    OBVIOUS
  <1>1. CommandsTyped /\ \A o \in Ops : bpc[o] = "idle"
    BY DEF Backup!Init, CommandsTyped
  <1>2. \A s \in Backup!Services : bpc[s] = "off"
    BY DEF Backup!Init, Backup!BackupNames
  <1>3. Exporting
    BY <1>2 DEF Exporting, Backup!Init
  <1> QED
    BY <1>1, <1>3 DEF BackupInv, PasswordWriter, BrowserWriter, CommandAt

\* A step that writes neither file and takes no command to a write.
LEMMA FilesKept ==
  ASSUME BackupInv, password' = password, browser' = browser,
         \A o \in Ops : CommandAt(o, "write")' => CommandAt(o, "write"),
         \A o \in Ops, i \in Backup!RepoIds : CommandAt(o, i)' => CommandAt(o, i)
  PROVE  PasswordWriter' /\ BrowserWriter'
  BY DEF BackupInv, PasswordWriter, BrowserWriter

LEMMA UnchangedKeeps ==
  ASSUME Backup!BackupNames, repo' = repo, password' = password, browser' = browser
  PROVE  BackupKept
  BY DEF BackupKept, Backup!BackupNames

\* A command leaves the repository and its export to the services; those it
\* stops or starts are not in the middle of anything.
LEMMA RepoKept ==
  ASSUME BackupInv, repo' = repo, export' = export,
         \A s \in Backup!Services : bpc'[s] \in {bpc[s], "off", "probe"}
  PROVE  Exporting'
  BY DEF BackupInv, Exporting, Backup!Initialised

\* The scheduler and the process beside it touch the repository only, and
\* initialise it only where there is none.
LEMMA ServiceStep ==
  ASSUME Backup!BackupNames, BackupInv, NEW s \in Backup!Services,
         \/ Backup!Probe(s) \/ Backup!Look(s) \/ Backup!InitStarts(s) \/ Backup!InitEnds(s) \/ Backup!Retry(s)
         \/ Backup!Export(s) \/ Backup!Replace(s) \/ Backup!OnceStarts \/ Backup!Finishes \/ Backup!Restarts
  PROVE  BackupInv' /\ BackupKept
  <1>1. Daemon \in Backup!Services /\ Once \in Backup!Services
    BY DEF Backup!Services
  <1>2. /\ password' = password /\ browser' = browser
        /\ \E t \in Backup!Services : \E where : Backup!To(t, where)
    BY <1>1 DEF Backup!Probe, Backup!Look, Backup!InitStarts, Backup!InitEnds, Backup!Retry, Backup!Export, Backup!Replace,
                Backup!OnceStarts, Backup!Finishes, Backup!Restarts, Backup!files
  <1>3. CommandsTyped' /\ \A o \in Ops : bpc'[o] = bpc[o]
    BY <1>2 DEF Backup!BackupNames, Backup!To, BackupInv, CommandsTyped
  <1>4. PasswordWriter' /\ BrowserWriter'
    BY <1>2, <1>3, FilesKept DEF CommandAt
  <1>5. \/ repo' = repo
        \/ ~Backup!Initialised /\ repo' = Partial
        \/ repo = Partial /\ repo' = s
    BY DEF Backup!Probe, Backup!Look, Backup!InitStarts, Backup!InitEnds, Backup!Retry, Backup!Export, Backup!Replace,
           Backup!OnceStarts, Backup!Finishes, Backup!Restarts
  <1>6. BackupKept
    BY <1>2, <1>5 DEF BackupKept, Backup!Initialised, Backup!RepoIds, Backup!BackupNames
  <1>7. Exporting'
    <2>1. Backup!Initialised => Backup!Initialised'
      BY <1>5 DEF Backup!Initialised, Backup!RepoIds, Backup!BackupNames
    <2>2. repo = Partial \/ Backup!Initialised => (repo = Partial \/ Backup!Initialised)'
      BY <1>5 DEF Backup!Initialised, Backup!RepoIds
    <2>3. export' = export \/ export' \in Backup!RepoIds
      BY DEF Backup!Probe, Backup!Look, Backup!InitStarts, Backup!InitEnds, Backup!Retry, Backup!Export, Backup!Replace,
             Backup!OnceStarts, Backup!Finishes, Backup!Restarts, BackupInv, Exporting, Backup!Initialised
    <2>4. ASSUME NEW t \in Backup!Services
          PROVE  /\ bpc'[t] \in {"export", "replace"} =>
                      bpc[t] \in {"export", "replace"} \/ Backup!Initialised'
                 /\ bpc'[t] = "initialising" =>
                      bpc[t] = "initialising" \/ (repo = Partial \/ Backup!Initialised)'
      <3>1. CASE Backup!InitEnds(s)
        <4>1. Backup!Initialised'
          BY <3>1 DEF Backup!InitEnds, BackupInv, Exporting, Backup!Initialised, Backup!RepoIds
        <4> QED
          BY <3>1, <4>1
      <3>2. CASE ~Backup!InitEnds(s)
        BY <3>2, <1>1, <2>1 DEF Backup!Probe, Backup!Look, Backup!InitStarts, Backup!Retry, Backup!Export, Backup!Replace,
             Backup!OnceStarts, Backup!Finishes, Backup!Restarts, Backup!To, BackupInv, CommandsTyped, Backup!Opens
      <3> QED
        BY <3>1, <3>2
    <2> QED
      BY <2>1, <2>2, <2>3, <2>4 DEF BackupInv, Exporting
  <1> QED
    BY <1>3, <1>4, <1>6, <1>7 DEF BackupInv

-------------------------------------------------------------------------------
\* Where a step takes one command.
LEMMA CommandMoves ==
  ASSUME Backup!BackupNames, BackupInv, NEW o \in Ops, NEW where, bpc' = [bpc EXCEPT ![o] = where]
  PROVE  /\ CommandsTyped' /\ bpc'[o] = where
         /\ \A q \in Ops \ {o} : bpc'[q] = bpc[q]
         /\ \A s \in Backup!Services : bpc'[s] = bpc[s]
  BY DEF BackupInv, CommandsTyped, Backup!BackupNames

\* A command that goes on to a step other than a write.
LEMMA CommandGoesOn ==
  ASSUME Backup!BackupNames, BackupInv, NEW o \in Ops, NEW c, NEW next \in Backup!BackupSteps \ {"write"},
         Backup!To(o, <<c, next>>) \/ Backup!To(o, "idle"),
         password' = password, browser' = browser, repo' = repo, export' = export
  PROVE  BackupInv' /\ BackupKept
  <1>1. CommandsTyped' /\ Exporting' /\ \A q \in Ops \ {o} : bpc'[q] = bpc[q]
    BY CommandMoves, RepoKept DEF Backup!To
  <1>2. \A q \in Ops : CommandAt(q, "write")' => CommandAt(q, "write")
    BY <1>1, CommandMoves DEF Backup!To, CommandAt, Backup!BackupSteps
  <1>3. \A q \in Ops, i \in Backup!RepoIds : CommandAt(q, i)' => CommandAt(q, i)
    BY <1>1, CommandMoves DEF Backup!To, CommandAt, Backup!BackupNames
  <1> QED
    BY <1>1, <1>2, <1>3, FilesKept, UnchangedKeeps DEF BackupInv

\* O_EXCL: there was no file, so nobody was about to write it.
LEMMA CreatePasswordStep ==
  ASSUME Backup!BackupNames, BackupInv, NEW o \in Ops, Backup!CreatePassword(o)
  PROVE  BackupInv' /\ BackupKept
  <1>1. CASE password = NoFile
    <2>1. /\ password' = Empty /\ browser' = browser /\ repo' = repo /\ export' = export
          /\ bpc' = [bpc EXCEPT ![o] = <<bpc[o][1], "write">>]
      BY <1>1 DEF Backup!CreatePassword, Backup!To
    <2>2. CommandsTyped' /\ Exporting' /\ \A q \in Ops \ {o} : bpc'[q] = bpc[q]
      BY <2>1, CommandMoves, RepoKept
    <2>3. \A q \in Ops : ~CommandAt(q, "write")
      BY <1>1 DEF BackupInv, PasswordWriter, Backup!BackupNames
    <2>4. PasswordWriter'
      BY <2>1, <2>2, <2>3 DEF PasswordWriter, CommandAt
    <2>5. \A q \in Ops, i \in Backup!RepoIds : CommandAt(q, i)' => CommandAt(q, i)
      BY <2>1, <2>2, CommandMoves DEF CommandAt, Backup!BackupNames, Backup!BackupSteps
    <2>6. BrowserWriter'
      BY <2>1, <2>5 DEF BackupInv, BrowserWriter
    <2>7. BackupKept
      <3>1. password \notin Ops
        BY <1>1 DEF Backup!BackupNames
      <3>2. repo = Partial => repo' # NoFile
        BY <2>1 DEF Backup!BackupNames
      <3> QED
        BY <2>1, <3>1, <3>2 DEF BackupKept
    <2> QED
      BY <2>2, <2>4, <2>6, <2>7 DEF BackupInv
  <1>2. CASE password # NoFile
    BY <1>2, CommandGoesOn DEF Backup!CreatePassword, Backup!BackupSteps
  <1> QED
    BY <1>1, <1>2

\* The writer's file is empty.
LEMMA WritePasswordStep ==
  ASSUME Backup!BackupNames, BackupInv, NEW o \in Ops, bpc[o] # "idle", Backup!WritePassword(o)
  PROVE  BackupInv' /\ BackupKept
  <1>1. /\ password' = o /\ browser' = browser /\ repo' = repo /\ export' = export
        /\ bpc' = [bpc EXCEPT ![o] = <<bpc[o][1], "compose">>]
    BY DEF Backup!WritePassword, Backup!To
  <1>2. password = Empty /\ \A q \in Ops : CommandAt(q, "write") => q = o
    BY DEF BackupInv, PasswordWriter, CommandAt, Backup!WritePassword
  <1>3. CommandsTyped' /\ Exporting' /\ \A q \in Ops \ {o} : bpc'[q] = bpc[q]
    BY <1>1, CommandMoves, RepoKept
  <1>4. bpc'[o][2] = "compose"
    <2>1. bpc'[o] = <<bpc[o][1], "compose">>
      BY <1>1, CommandMoves
    <2> QED
      BY <2>1
  <1>5. PasswordWriter'
    BY <1>2, <1>3, <1>4 DEF PasswordWriter, CommandAt
  <1>6. \A q \in Ops, i \in Backup!RepoIds : CommandAt(q, i)' => CommandAt(q, i)
    BY <1>3, <1>4 DEF CommandAt, Backup!BackupNames, Backup!BackupSteps
  <1>7. BrowserWriter'
    BY <1>1, <1>6 DEF BackupInv, BrowserWriter
  <1>8. BackupKept
    BY <1>1, <1>2 DEF BackupKept, Backup!BackupNames
  <1> QED
    BY <1>3, <1>5, <1>7, <1>8 DEF BackupInv

LEMMA SeedStep ==
  ASSUME Backup!BackupNames, BackupInv, NEW o \in Ops, Backup!Seed(o)
  PROVE  BackupInv' /\ BackupKept
  <1>1. CASE browser = NoFile /\ Backup!SeedsFrom # NoFile
    <2>1. /\ browser' = Empty /\ password' = password /\ repo' = repo /\ export' = export
          /\ bpc' = [bpc EXCEPT ![o] = <<"browser", Backup!SeedsFrom>>]
      BY <1>1 DEF Backup!Seed, Backup!To
    <2>2. Backup!SeedsFrom \in Backup!RepoIds
      BY <1>1 DEF Backup!SeedsFrom, BackupInv, Exporting
    <2>3. CommandsTyped' /\ Exporting' /\ \A q \in Ops \ {o} : bpc'[q] = bpc[q]
      BY <2>1, CommandMoves, RepoKept
    <2>4. bpc'[o][2] = Backup!SeedsFrom
      <3>1. bpc'[o] = <<"browser", Backup!SeedsFrom>>
        BY <2>1, CommandMoves
      <3> QED
        BY <3>1
    <2>5. \A q \in Ops, i \in Backup!RepoIds : ~CommandAt(q, i)
      BY <1>1 DEF BackupInv, BrowserWriter, Backup!BackupNames
    <2>6. BrowserWriter'
      BY <2>1, <2>3, <2>5 DEF BrowserWriter, CommandAt
    <2>7. \A q \in Ops : CommandAt(q, "write")' => CommandAt(q, "write")
      BY <2>2, <2>3, <2>4 DEF CommandAt, Backup!BackupNames, Backup!BackupSteps
    <2>8. PasswordWriter'
      BY <2>1, <2>7 DEF BackupInv, PasswordWriter
    <2>9. BackupKept
      <3>1. browser \notin Backup!RepoIds
        BY <1>1 DEF Backup!BackupNames, Backup!RepoIds
      <3>2. repo = Partial => repo' # NoFile
        BY <2>1 DEF Backup!BackupNames
      <3> QED
        BY <2>1, <3>1, <3>2 DEF BackupKept
    <2> QED
      BY <2>3, <2>6, <2>8, <2>9 DEF BackupInv
  <1>2. CASE ~(browser = NoFile /\ Backup!SeedsFrom # NoFile)
    BY <1>2, CommandGoesOn DEF Backup!Seed, Backup!BackupSteps
  <1> QED
    BY <1>1, <1>2

LEMMA WriteSeedStep ==
  ASSUME Backup!BackupNames, BackupInv, NEW o \in Ops, bpc[o] # "idle", Backup!WriteSeed(o)
  PROVE  BackupInv' /\ BackupKept
  <1>1. /\ browser' = bpc[o][2] /\ password' = password /\ repo' = repo /\ export' = export
        /\ bpc' = [bpc EXCEPT ![o] = "idle"] /\ bpc[o][2] \in Backup!RepoIds
    BY DEF Backup!WriteSeed, Backup!To
  <1>2. browser = Empty /\ \A q \in Ops, i \in Backup!RepoIds : CommandAt(q, i) => q = o
    BY <1>1 DEF BackupInv, BrowserWriter, CommandAt
  <1>3. CommandsTyped' /\ Exporting' /\ bpc'[o] = "idle" /\ \A q \in Ops \ {o} : bpc'[q] = bpc[q]
    BY <1>1, CommandMoves, RepoKept
  <1>4. BrowserWriter'
    BY <1>2, <1>3 DEF BrowserWriter, CommandAt
  <1>5. \A q \in Ops : CommandAt(q, "write")' => CommandAt(q, "write")
    BY <1>3 DEF CommandAt
  <1>6. PasswordWriter'
    BY <1>1, <1>5 DEF BackupInv, PasswordWriter
  <1>7. BackupKept
    BY <1>1, <1>2 DEF BackupKept, Backup!BackupNames, Backup!RepoIds
  <1> QED
    BY <1>3, <1>4, <1>6, <1>7 DEF BackupInv

LEMMA CommandStep ==
  ASSUME Backup!BackupNames, BackupInv, NEW o \in Ops, Backup!Command(o) \/ Backup!WriteCompose(o) \/ Backup!Dies(o)
  PROVE  BackupInv' /\ BackupKept
  <1>1. {"password", "up", "seed"} \subseteq Backup!BackupSteps \ {"write"}
    BY DEF Backup!BackupSteps
  <1>2. CASE Backup!Command(o) \/ Backup!Dies(o)
    BY <1>1, <1>2, CommandGoesOn DEF Backup!Command, Backup!Dies, Backup!files
  <1>3. CASE Backup!WriteCompose(o)
    BY <1>1, <1>3, CommandGoesOn DEF Backup!WriteCompose
  <1> QED
    BY <1>2, <1>3

\* docker compose up and down start and stop the scheduler.
LEMMA ContainerStep ==
  ASSUME Backup!BackupNames, BackupInv, NEW o \in Ops, (bpc[o] # "idle" /\ Backup!Up(o)) \/ Backup!Stop(o)
  PROVE  BackupInv' /\ BackupKept
  <1>1. /\ password' = password /\ browser' = browser /\ repo' = repo /\ export' = export
        /\ Daemon \in Backup!Services /\ Once \in Backup!Services
    BY DEF Backup!Up, Backup!Stop, Backup!files, Backup!Services
  <1>2. /\ CommandsTyped' /\ \A q \in Ops : bpc'[q] \in {bpc[q], "idle"}
        /\ \A s \in Backup!Services : bpc'[s] \in {bpc[s], "off", "probe"}
    BY <1>1 DEF Backup!Up, Backup!Stop, BackupInv, CommandsTyped, Backup!BackupNames
  <1>3. \A q \in Ops : /\ CommandAt(q, "write")' => CommandAt(q, "write")
                       /\ \A i \in Backup!RepoIds : CommandAt(q, i)' => CommandAt(q, i)
    BY <1>2 DEF CommandAt
  <1> QED
    BY <1>1, <1>2, <1>3, FilesKept, RepoKept, UnchangedKeeps DEF BackupInv

LEMMA BackupNext ==
  ASSUME Backup!BackupNames, BackupInv, Backup!Next
  PROVE  BackupInv' /\ BackupKept
  <1>1. ASSUME NEW o \in Ops, NEW t \in Targets, Backup!Restore(o, t)
        PROVE  BackupInv' /\ BackupKept
    <2>1. /\ bpc' = bpc /\ password' = password /\ browser' = browser
          /\ repo' = repo /\ export' = export
      BY <1>1 DEF Backup!Restore
    <2>2. BackupInv'
      BY <2>1 DEF BackupInv, CommandsTyped, PasswordWriter, BrowserWriter, Exporting, CommandAt, Backup!Initialised
    <2> QED
      BY <2>1, <2>2, UnchangedKeeps
  <1>2. ASSUME Backup!OnceStarts \/ Backup!Finishes \/ Backup!Restarts
        PROVE  BackupInv' /\ BackupKept
    <2>1. Daemon \in Backup!Services
      BY DEF Backup!Services
    <2> QED
      BY <1>2, <2>1, ServiceStep
  <1> QED
    BY <1>1, <1>2, ServiceStep, CreatePasswordStep, WritePasswordStep, SeedStep,
       WriteSeedStep, CommandStep, ContainerStep DEF Backup!Next

-------------------------------------------------------------------------------
\* Backup by itself.
LEMMA NothingOverwrittenAlone ==
  ASSUME Backup!BackupNames
  PROVE  Backup!Spec => Backup!NothingIsOverwritten
  <1>1. Backup!Init => BackupInv
    BY BackupInit
  <1>2. BackupInv /\ [Backup!Next]_(Backup!vars) => BackupInv'
    <2>1. BackupInv /\ UNCHANGED Backup!vars => BackupInv'
      BY DEF BackupInv, Backup!vars, CommandsTyped, PasswordWriter, BrowserWriter, Exporting, CommandAt, Backup!Initialised
    <2> QED
      BY <2>1, BackupNext
  <1>3. BackupInv /\ [Backup!Next]_(Backup!vars) =>
          [/\ Backup!Initialised => repo' = repo
           /\ repo = Partial => repo' # NoFile
           /\ password \in Ops => password' = password
           /\ browser \in Backup!RepoIds => browser' = browser]_(Backup!vars)
    BY BackupNext DEF BackupKept
  <1> QED
    BY <1>1, <1>2, <1>3, PTL DEF Backup!Spec, Backup!NothingIsOverwritten

\* What one process created no other replaces: not an initialised repository,
\* a restic password that was written, or a seeded Backrest configuration
\* (backup_service.py, backup_config.py, backup_browser.py).
THEOREM NothingOverwritten == ServicesSpec => NothingIsOverwritten
  <1>1. Backup!Spec => Backup!NothingIsOverwritten
    BY NothingOverwrittenAlone, ServicesAssumption DEF ServicesAssumption
  <1> QED
    BY <1>1, BackupRuns, PTL DEF NothingIsOverwritten

-----------------------------------------------------------------------------
(***************************************************************************)
(* DropLog, for every set of packets and destinations and every window:    *)
(* the reader's own record of a destination is the time of the last filing *)
(* for as long as the reader lives, so what is suppressed was filed.       *)
(***************************************************************************)

\* While the loop runs, _last_filed is what was sent, when it was sent.
RecordIsTrue ==
    /\ DOMAIN last = Dests /\ DOMAIN silent = Dests
    /\ reader # "dead" => last = silent

LEMMA InitRecord == Drops!Init => RecordIsTrue
  BY DEF Drops!Init, RecordIsTrue

LEMMA StepRecord ==
  ASSUME Drops!PacketsHaveDests, RecordIsTrue, [Drops!Next]_(Drops!vars)
  PROVE  RecordIsTrue'
  <1>1. CASE Drops!Configure
    BY <1>1 DEF Drops!Configure, RecordIsTrue
  <1>2. CASE Drops!Tick
    BY <1>2 DEF Drops!Tick, Drops!Older, RecordIsTrue
  <1>3. ASSUME NEW k \in Packets, Drops!Receive(k) PROVE RecordIsTrue'
    <2>1. DOMAIN last' = Dests /\ DOMAIN silent' = Dests
      BY <1>3 DEF Drops!Receive, Drops!Recorded, RecordIsTrue
    <2>2. ASSUME reader' # "dead" PROVE last' = silent'
      BY <1>3, <2>2 DEF Drops!Receive, Drops!Recorded, RecordIsTrue
    <2> QED
      BY <2>1, <2>2 DEF RecordIsTrue
  <1>4. CASE UNCHANGED Drops!vars
    BY <1>4 DEF Drops!vars, RecordIsTrue
  <1> QED
    BY <1>1, <1>2, <1>3, <1>4 DEF Drops!Next

\* A drop whose destination was not filed within the window is filed now.
LEMMA NoSilentDrop ==
  ASSUME Drops!PacketsHaveDests, RecordIsTrue, NEW k \in Packets, Drops!Receive(k), ~Drops!Recent(silent[k.dest])
  PROVE  silent'[k.dest] = 0
  <1>1. k.dest \in DOMAIN silent /\ last = silent
    BY DEF Drops!PacketsHaveDests, RecordIsTrue, Drops!Receive
  <1>2. Drops!ShouldFile(k.dest)
    BY <1>1 DEF Drops!ShouldFile
  <1> QED
    BY <1>1, <1>2 DEF Drops!Receive

\* Drops by itself.
LEMMA SilenceBoundedAlone ==
  ASSUME Drops!PacketsHaveDests
  PROVE  Drops!Spec => Drops!SilenceIsBounded
  <1>1. Drops!Init => RecordIsTrue
    BY InitRecord
  <1>2. RecordIsTrue /\ [Drops!Next]_(Drops!vars) => RecordIsTrue'
    BY StepRecord
  <1>3. RecordIsTrue =>
          [\A k \in Packets :
             Drops!Receive(k) /\ ~Drops!Recent(silent[k.dest]) => silent'[k.dest] = 0]_(Drops!vars)
    BY NoSilentDrop
  <1> QED
    BY <1>1, <1>2, <1>3, PTL DEF Drops!Spec, Drops!SilenceIsBounded

\* The reader of the drop log keeps silent about a blocked destination only
\* within a window of having filed it (FilingCoalescer of egress_nflog.py).
THEOREM SilenceBounded == ServicesSpec => SilenceIsBounded
  <1>1. Drops!Spec => Drops!SilenceIsBounded
    BY SilenceBoundedAlone, ServicesAssumption DEF ServicesAssumption
  <1> QED
    BY <1>1, DropsRuns, PTL DEF SilenceIsBounded

=============================================================================
