------------------------- MODULE QueueStreamHubProofs -------------------------
(***************************************************************************)
(* Proofs about QueueStreamHub, for every set of tabs and every bound.     *)
(*                                                                         *)
(* ReadyMissesNothing is not inductive: a refresh replaces the frame and   *)
(* the list of whom to push it to, which is safe because the refreshes     *)
(* before it have pushed theirs.  IInv says why: the fetch lock has one    *)
(* holder from fetch to push, and only it has pushes to make.  That a tab  *)
(* never goes back rests on the same lock: what is fetched under it is no  *)
(* older than the frame, and every mailbox is in order up to the frame.    *)
(***************************************************************************)
EXTENDS QueueStreamHub, TLAPS

\* The bounds of SequencesExt's operators, by their definitions.
LEMMA LastOfAppend ==
  ASSUME NEW S, NEW m \in Seq(S), NEW e \in S
  PROVE  /\ Append(m, e) \in Seq(S) /\ Append(m, e) # <<>>
         /\ Len(Append(m, e)) = Len(m) + 1
         /\ Last(Append(m, e)) = e
         /\ \A i \in 1..Len(m) : Append(m, e)[i] = m[i]
         /\ Append(m, e)[Len(m) + 1] = e
  BY DEF Last

LEMMA ContainsAppend ==
  ASSUME NEW S, NEW m \in Seq(S), NEW e \in S, NEW x
  PROVE  /\ Contains(m, x) => Contains(Append(m, e), x)
         /\ Contains(Append(m, x), x)
  BY DEF Contains

LEMMA LastIsEntry ==
  ASSUME NEW S, NEW m \in Seq(S), m # <<>>
  PROVE  Len(m) \in 1..Len(m) /\ Last(m) = m[Len(m)] /\ Last(m) \in S
  BY DEF Last

-------------------------------------------------------------------------------
Messages == Nat \cup {Close}

Typed ==
    /\ queue \in Nat /\ frame \in Nat /\ DOMAIN pc = Threads
    /\ streams \subseteq Streams /\ ready \subseteq Streams /\ targets \subseteq Streams
    /\ mailbox \in [Streams -> Seq(Messages)] /\ shown \in [Streams -> Nat]
    /\ got \in [Threads -> Nat \cup {Failed}]

\* One refresh at a time, from its fetch to its last push.
FetchLock == \A t \in Threads : pc[t] \in {"fetch", "commit", "push"} => holder = t

\* Only a refresh that is pushing has pushes to make.
PushersPush == targets # {} => \E t \in Threads : pc[t] = "push"

ReadyServes == \A s \in ready : pc[s] = "serve"

\* A handler without a slot was told to end.
TabOk(s) ==
    /\ pc[s] = "off" => s \notin streams
    /\ pc[s] # "off" /\ s \notin streams => Contains(mailbox[s], Close)

Slots == \A s \in Streams : TabOk(s)

\* Snapshots go up: from the frame to what is fetched, from what a client was
\* shown over its mailbox to the frame.
MailOk(s) ==
    /\ shown[s] <= frame
    /\ \A i \in 1..Len(mailbox[s]) :
         mailbox[s][i] # Close => shown[s] <= mailbox[s][i] /\ mailbox[s][i] <= frame

FetchOk(t) ==
    pc[t] = "commit" /\ got[t] # Failed => frame <= got[t] /\ got[t] <= queue

InOrder ==
    /\ frame <= queue
    /\ \A t \in Threads : FetchOk(t)
    /\ \A s \in Streams : MailOk(s)

IInv ==
    /\ Typed /\ FetchLock /\ PushersPush /\ ReadyServes
    /\ ReadyMissesNothing /\ Slots /\ InOrder

-------------------------------------------------------------------------------
\* A step that leaves the tabs, their slots and the frame alone.
LEMMA TabsKept ==
  ASSUME IInv, Typed', FetchLock', PushersPush',
         streams' = streams, mailbox' = mailbox, shown' = shown, ready' = ready,
         frame' = frame, targets' = targets, closed' = closed, queue <= queue',
         \A s \in Streams : /\ pc'[s] = "off" <=> pc[s] = "off"
                            /\ pc[s] = "serve" => pc'[s] = "serve",
         pc'[Poller] = "none" => pc[Poller] = "none" \/ closed \/ streams = {},
         \A t \in Threads : FetchOk(t)'
  PROVE  IInv'
  <1>1. ReadyServes'
    BY DEF IInv, ReadyServes, Typed
  <1>2. ReadyMissesNothing'
    BY DEF IInv, ReadyMissesNothing, Newest
  <1>3. Slots'
    BY DEF IInv, Slots, TabOk
  <1>4. InOrder'
    BY DEF IInv, InOrder, MailOk, Typed
  <1> QED
    BY <1>1, <1>2, <1>3, <1>4 DEF IInv

LEMMA InitInv == Init => IInv
  <1> SUFFICES ASSUME Init PROVE IInv
    OBVIOUS
  <1>1. \A s \in Streams : pc[s] = "off" /\ s # Poller
    BY HubAssumption DEF Init, Threads
  <1>2. pc[Poller] = "none"
    BY DEF Init, Threads
  <1>3. Typed
    <2>1. mailbox \in [Streams -> Seq(Messages)]
      BY DEF Init
    <2> QED
      BY <2>1 DEF Init, Typed
  <1>4. FetchLock /\ PushersPush /\ ReadyServes /\ ReadyMissesNothing
    BY <1>1, <1>2 DEF Init, FetchLock, PushersPush, ReadyServes, ReadyMissesNothing, Threads
  <1>5. Slots
    BY <1>1 DEF Init, Slots, TabOk
  <1>6. InOrder
    BY <1>1, <1>2 DEF Init, InOrder, FetchOk, MailOk, Threads
  <1> QED
    BY <1>3, <1>4, <1>5, <1>6 DEF IInv

-------------------------------------------------------------------------------
\* The broker and the clock.
LEMMA BrokerInv ==
  ASSUME IInv, QueueChanges \/ BrokerUpOrDown \/ FrameAges
  PROVE  IInv'
  <1>1. Typed'
    BY DEF IInv, Typed, QueueChanges, BrokerUpOrDown, FrameAges, broker, tabs, cache, fetch
  <1>2. /\ streams' = streams /\ mailbox' = mailbox /\ shown' = shown /\ ready' = ready
        /\ frame' = frame /\ targets' = targets /\ closed' = closed /\ pc' = pc
        /\ holder' = holder /\ got' = got /\ queue <= queue'
    BY DEF IInv, Typed, QueueChanges, BrokerUpOrDown, FrameAges, broker, tabs, cache, fetch
  <1>3. FetchLock' /\ PushersPush'
    BY <1>2 DEF IInv, FetchLock, PushersPush
  <1>4. \A t \in Threads : FetchOk(t)'
    <2> SUFFICES ASSUME NEW t \in Threads, pc[t] = "commit", got[t] # Failed
                 PROVE  frame <= got[t] /\ got[t] <= queue'
      BY <1>2 DEF FetchOk
    <2>1. got[t] \in Nat /\ frame <= got[t] /\ got[t] <= queue
      BY DEF IInv, Typed, InOrder, FetchOk
    <2> QED
      BY <1>1, <1>2, <2>1 DEF IInv, Typed
  <1> QED
    BY <1>1, <1>2, <1>3, <1>4, TabsKept

\* A thread goes on, outside the fetch lock and without touching the hub.
LEMMA GoesOn ==
  ASSUME IInv, NEW t \in Threads, NEW where \in {"admit", "lock", "wait", "none"},
         pc' = [pc EXCEPT ![t] = where], t \in Streams => where \in {"admit", "lock"},
         t = Poller => where # "admit",
         pc[t] \in {"opening", "wait"}, where = "none" => closed \/ streams = {},
         UNCHANGED <<broker, streams, tabs, cache, fetch, closed, connects>>
  PROVE  IInv'
  <1>1. Typed'
    BY DEF IInv, Typed, broker, tabs, cache, fetch
  <1>2. \A u \in Threads : pc'[u] \in {"fetch", "commit", "push"} => pc'[u] = pc[u]
    BY DEF IInv, Typed
  <1>3. \A u \in Threads : pc[u] = "push" => pc'[u] = "push"
    BY DEF IInv, Typed
  <1>4. FetchLock' /\ PushersPush'
    BY <1>2, <1>3 DEF IInv, FetchLock, PushersPush, fetch
  <1>5. \A u \in Threads : FetchOk(u)'
    BY <1>2 DEF IInv, InOrder, FetchOk, fetch, cache, broker
  <1>6. \A s \in Streams : /\ pc'[s] = "off" <=> pc[s] = "off"
                           /\ pc[s] = "serve" => pc'[s] = "serve"
    BY DEF IInv, Typed, Threads
  <1>7. pc'[Poller] = "none" => pc[Poller] = "none" \/ closed \/ streams = {}
    BY HubAssumption DEF IInv, Typed, Threads
  <1>8. queue <= queue'
    BY DEF broker, IInv, Typed
  <1> QED
    BY <1>1, <1>4, <1>5, <1>6, <1>7, <1>8, TabsKept DEF tabs, cache, fetch

LEMMA WaitInv ==
  ASSUME IInv, PollDue \/ PollerStops \/ \E s \in Streams : EnsureFresh(s)
  PROVE  IInv'
  <1>1. Poller \in Threads /\ Poller \notin Streams
    BY HubAssumption DEF Threads
  <1>2. CASE PollDue
    BY <1>1, <1>2, GoesOn DEF PollDue
  <1>3. CASE PollerStops
    BY <1>1, <1>3, GoesOn DEF PollerStops
  <1>4. ASSUME NEW s \in Streams, EnsureFresh(s) PROVE IInv'
    <2>1. s \in Threads /\ s # Poller
      BY <1>1 DEF Threads
    <2> QED
      BY <1>4, <2>1, GoesOn DEF EnsureFresh
  <1> QED
    BY <1>2, <1>3, <1>4

-------------------------------------------------------------------------------
\* The refresh, by the thread that has the fetch lock.

LEMMA AcquireFetchInv ==
  ASSUME IInv, NEW t \in Threads, AcquireFetch(t)
  PROVE  IInv'
  <1>1. /\ pc' = [pc EXCEPT ![t] = "fetch"] /\ pc[t] = "lock"
        /\ holder = None /\ holder' = t
        /\ UNCHANGED <<broker, streams, tabs, cache, got, targets, closed>>
    BY DEF AcquireFetch
  <1>2. Typed'
    BY <1>1 DEF IInv, Typed, broker, tabs, cache
  <1>3. \A u \in Threads : pc[u] \notin {"fetch", "commit", "push"}
    BY <1>1, HubAssumption DEF IInv, FetchLock, Threads
  <1>4. FetchLock' /\ PushersPush' /\ \A u \in Threads : FetchOk(u)'
    BY <1>1, <1>3 DEF IInv, Typed, FetchLock, PushersPush, FetchOk
  <1>5. \A s \in Streams : /\ pc'[s] = "off" <=> pc[s] = "off"
                           /\ pc[s] = "serve" => pc'[s] = "serve"
    BY <1>1 DEF IInv, Typed, Threads
  <1>6. pc'[Poller] = "none" => pc[Poller] = "none"
    BY <1>1 DEF IInv, Typed, Threads
  <1>7. queue <= queue'
    BY <1>1 DEF broker, IInv, Typed
  <1> QED
    BY <1>1, <1>2, <1>4, <1>5, <1>6, <1>7, TabsKept DEF tabs, cache

\* The broker's queue of this moment is at least as new as the frame.
LEMMA FetchInv ==
  ASSUME IInv, NEW t \in Threads, Fetch(t)
  PROVE  IInv'
  <1>1. /\ pc' = [pc EXCEPT ![t] = "commit"] /\ pc[t] = "fetch"
        /\ got' = [got EXCEPT ![t] = IF reachable THEN queue ELSE Failed]
        /\ UNCHANGED <<broker, streams, tabs, cache, holder, targets, closed>>
    BY DEF Fetch
  <1>2. Typed'
    BY <1>1 DEF IInv, Typed, broker, tabs, cache
  <1>3. FetchLock' /\ PushersPush'
    BY <1>1 DEF IInv, Typed, FetchLock, PushersPush
  <1>4. \A u \in Threads : FetchOk(u)'
    BY <1>1 DEF IInv, Typed, InOrder, FetchOk, broker, cache
  <1>5. \A s \in Streams : /\ pc'[s] = "off" <=> pc[s] = "off"
                           /\ pc[s] = "serve" => pc'[s] = "serve"
    BY <1>1 DEF IInv, Typed, Threads
  <1>6. pc'[Poller] = "none" => pc[Poller] = "none"
    BY <1>1 DEF IInv, Typed, Threads
  <1>7. queue <= queue'
    BY <1>1 DEF broker, IInv, Typed
  <1> QED
    BY <1>1, <1>2, <1>3, <1>4, <1>5, <1>6, <1>7, TabsKept DEF tabs, cache

LEMMA CommitFailureInv ==
  ASSUME IInv, NEW t \in Threads, CommitFailure(t)
  PROVE  IInv'
  <1>1. /\ pc' = [pc EXCEPT ![t] = IF t = Poller THEN "failed" ELSE "refused"]
        /\ pc[t] = "commit" /\ holder' = None /\ got' = [got EXCEPT ![t] = 0]
        /\ UNCHANGED <<broker, streams, tabs, frame, targets, closed>>
    BY DEF CommitFailure
  <1>2. Typed'
    BY <1>1 DEF IInv, Typed, broker, tabs
  <1>3. \A u \in Threads \ {t} : pc[u] \notin {"fetch", "commit", "push"}
    BY <1>1 DEF IInv, FetchLock
  <1>4. FetchLock' /\ PushersPush' /\ \A u \in Threads : FetchOk(u)'
    BY <1>1, <1>3 DEF IInv, Typed, FetchLock, PushersPush, FetchOk
  <1>5. \A s \in Streams : /\ pc'[s] = "off" <=> pc[s] = "off"
                           /\ pc[s] = "serve" => pc'[s] = "serve"
    BY <1>1 DEF IInv, Typed, Threads
  <1>6. pc'[Poller] = "none" => pc[Poller] = "none"
    BY <1>1 DEF IInv, Typed, Threads
  <1>7. queue <= queue'
    BY <1>1 DEF broker, IInv, Typed
  <1> QED
    BY <1>1, <1>2, <1>4, <1>5, <1>6, <1>7, TabsKept DEF tabs

\* The refreshes before have pushed their frame, so the ready tabs have it; if
\* this one is newer, they are all to get it.
LEMMA CommitFrameInv ==
  ASSUME IInv, NEW t \in Threads, CommitFrame(t)
  PROVE  IInv'
  <1>1. /\ pc' = [pc EXCEPT ![t] = "push"] /\ pc[t] = "commit"
        /\ got[t] # Failed /\ frame' = got[t] /\ got' = [got EXCEPT ![t] = 0]
        /\ targets' = IF got[t] # frame THEN streams \cap ready ELSE {}
        /\ UNCHANGED <<broker, streams, tabs, holder, closed>>
    BY DEF CommitFrame
  <1>2. got[t] \in Nat /\ frame <= frame' /\ frame' <= queue
    BY <1>1 DEF IInv, Typed, InOrder, FetchOk
  <1>3. Typed'
    BY <1>1, <1>2 DEF IInv, Typed, broker, tabs
  <1>4. \A u \in Threads \ {t} : pc[u] \notin {"fetch", "commit", "push"}
    BY <1>1 DEF IInv, FetchLock
  <1>5. targets = {}
    BY <1>1, <1>4 DEF IInv, PushersPush
  <1>6. FetchLock' /\ PushersPush' /\ \A u \in Threads : FetchOk(u)'
    BY <1>1, <1>4 DEF IInv, Typed, FetchLock, PushersPush, FetchOk
  <1>7. ReadyServes'
    BY <1>1 DEF IInv, Typed, ReadyServes, tabs
  <1>8. ReadyMissesNothing'
    <2>1. \A s \in Streams : Newest(s)' = Newest(s)
      BY <1>1 DEF Newest, tabs
    <2>2. pc'[Poller] = "none" => pc[Poller] = "none"
      BY <1>1 DEF IInv, Typed
    <2> QED
      BY <1>1, <1>5, <2>1, <2>2 DEF IInv, ReadyMissesNothing, Typed, tabs
  <1>9. Slots'
    BY <1>1 DEF IInv, Typed, Slots, TabOk, tabs
  <1>10. InOrder'
    <2>1. \A s \in Streams : MailOk(s)'
      <3> SUFFICES ASSUME NEW s \in Streams PROVE MailOk(s)'
        OBVIOUS
      <3>1. MailOk(s) /\ shown[s] \in Nat /\ mailbox[s] \in Seq(Messages)
        BY DEF IInv, Typed, InOrder
      <3>2. mailbox' = mailbox /\ shown' = shown
        BY <1>1 DEF tabs
      <3>3. \A i \in 1..Len(mailbox[s]) : mailbox[s][i] # Close => mailbox[s][i] \in Nat
        BY <3>1 DEF Messages
      <3> QED
        BY <1>2, <1>3, <3>1, <3>2, <3>3 DEF MailOk, IInv, Typed
    <2> QED
      BY <1>1, <1>2, <1>6, <2>1 DEF InOrder, broker
  <1> QED
    BY <1>3, <1>6, <1>7, <1>8, <1>9, <1>10 DEF IInv

LEMMA RefreshReturnsInv ==
  ASSUME IInv, NEW t \in Threads, RefreshReturns(t)
  PROVE  IInv'
  <1>1. /\ pc' = [pc EXCEPT ![t] = IF t = Poller THEN "wait" ELSE "admit"]
        /\ pc[t] = "push" /\ targets = {} /\ holder' = None
        /\ UNCHANGED <<broker, streams, tabs, cache, got, targets, closed>>
    BY DEF RefreshReturns
  <1>2. Typed'
    BY <1>1 DEF IInv, Typed, broker, tabs, cache
  <1>3. \A u \in Threads \ {t} : pc[u] \notin {"fetch", "commit", "push"}
    BY <1>1 DEF IInv, FetchLock
  <1>4. FetchLock' /\ PushersPush' /\ \A u \in Threads : FetchOk(u)'
    BY <1>1, <1>3 DEF IInv, Typed, FetchLock, PushersPush, FetchOk
  <1>5. \A s \in Streams : /\ pc'[s] = "off" <=> pc[s] = "off"
                           /\ pc[s] = "serve" => pc'[s] = "serve"
    BY <1>1 DEF IInv, Typed, Threads
  <1>6. pc'[Poller] = "none" => pc[Poller] = "none"
    BY <1>1 DEF IInv, Typed, Threads
  <1>7. queue <= queue'
    BY <1>1 DEF broker, IInv, Typed
  <1> QED
    BY <1>1, <1>2, <1>4, <1>5, <1>6, <1>7, TabsKept DEF tabs, cache

-------------------------------------------------------------------------------
\* One message goes into one mailbox.

\* A frame, or the order to end, keeps a mailbox in order.
LEMMA MailAppended ==
  ASSUME IInv, NEW s \in Streams, NEW e \in {frame, Close},
         NEW m, m = Append(mailbox[s], e)
  PROVE  /\ m \in Seq(Messages) /\ m # <<>> /\ Last(m) = e
         /\ Contains(mailbox[s], Close) => Contains(m, Close)
         /\ e = Close => Contains(m, Close)
         /\ \A i \in 1..Len(m) : m[i] # Close => shown[s] <= m[i] /\ m[i] <= frame
  <1>1. /\ mailbox[s] \in Seq(Messages) /\ e \in Messages /\ Close \in Messages
        /\ frame \in Nat /\ shown[s] \in Nat /\ MailOk(s)
    BY DEF IInv, Typed, InOrder, Messages
  <1>2. m \in Seq(Messages) /\ m # <<>> /\ Last(m) = e
    BY <1>1, LastOfAppend
  <1>3. /\ Contains(mailbox[s], Close) => Contains(m, Close)
        /\ e = Close => Contains(m, Close)
    BY <1>1, ContainsAppend
  <1>4. ASSUME NEW i \in 1..Len(m), m[i] # Close
        PROVE  shown[s] <= m[i] /\ m[i] <= frame
    <2>1. Len(mailbox[s]) \in Nat /\ Len(m) = Len(mailbox[s]) + 1
      BY <1>1, LastOfAppend
    <2>2. CASE i \in 1..Len(mailbox[s])
      BY <1>1, <1>4, <2>2, LastOfAppend DEF MailOk
    <2>3. CASE i = Len(mailbox[s]) + 1
      <3>1. m[i] = e
        BY <1>1, <2>3, LastOfAppend
      <3> QED
        BY <1>1, <1>4, <3>1 DEF MailOk
    <2> QED
      BY <2>1, <2>2, <2>3
  <1> QED
    BY <1>2, <1>3, <1>4

LEMMA PushFrameInv ==
  ASSUME IInv, NEW t \in Threads, PushFrame(t)
  PROVE  IInv'
  <1>1. PICK s \in targets : /\ mailbox' = [mailbox EXCEPT ![s] = Append(@, frame)]
                             /\ targets' = targets \ {s}
    BY DEF PushFrame
  <1>2. /\ pc[t] = "push" /\ pc' = pc /\ s \in Streams
        /\ UNCHANGED <<broker, streams, shown, ready, cache, holder, got, closed>>
    BY <1>1 DEF PushFrame, IInv, Typed
  <1>3. /\ mailbox'[s] \in Seq(Messages) /\ mailbox'[s] # <<>> /\ Last(mailbox'[s]) = frame
        /\ Contains(mailbox[s], Close) => Contains(mailbox'[s], Close)
        /\ \A i \in 1..Len(mailbox'[s]) :
             mailbox'[s][i] # Close => shown[s] <= mailbox'[s][i] /\ mailbox'[s][i] <= frame
    <2>1. mailbox'[s] = Append(mailbox[s], frame)
      BY <1>1, <1>2 DEF IInv, Typed
    <2> QED
      BY <1>2, <2>1, MailAppended
  <1>4. \A q \in Streams \ {s} : mailbox'[q] = mailbox[q]
    BY <1>1 DEF IInv, Typed
  <1>5. Typed'
    <2>1. mailbox' \in [Streams -> Seq(Messages)]
      BY <1>1, <1>3, <1>4 DEF IInv, Typed
    <2> QED
      BY <1>1, <1>2, <2>1 DEF IInv, Typed, broker, cache
  <1>6. FetchLock' /\ PushersPush' /\ ReadyServes' /\ \A u \in Threads : FetchOk(u)'
    BY <1>2 DEF IInv, FetchLock, PushersPush, ReadyServes, InOrder, FetchOk, cache, broker
  <1>7. ReadyMissesNothing'
    BY <1>1, <1>2, <1>3, <1>4 DEF IInv, ReadyMissesNothing, Newest, cache
  <1>8. Slots'
    BY <1>2, <1>3, <1>4 DEF IInv, Slots, TabOk
  <1>9. \A q \in Streams : MailOk(q)'
    BY <1>2, <1>3, <1>4 DEF IInv, InOrder, MailOk, cache
  <1>10. InOrder'
    BY <1>2, <1>6, <1>9 DEF IInv, InOrder, cache, broker
  <1> QED
    BY <1>5, <1>6, <1>7, <1>8, <1>10 DEF IInv

\* The frame of this moment is the first, and the poller runs.
LEMMA AdmitInv ==
  ASSUME IInv, NEW s \in Streams, Admit(s)
  PROVE  IInv'
  <1> DEFINE running == IF pc[Poller] = "none" THEN "wait" ELSE pc[Poller]
  <1>1. s \in Threads /\ Poller \in Threads /\ s # Poller
    BY HubAssumption DEF Threads
  <1>2. /\ pc[s] = "admit" /\ ready' = ready \cup {s}
        /\ mailbox' = [mailbox EXCEPT ![s] = Append(@, frame)]
        /\ UNCHANGED <<broker, streams, shown, cache, fetch, closed>>
    BY DEF Admit
  <1>3. /\ DOMAIN pc' = Threads /\ pc'[s] = "serve" /\ pc'[Poller] = running
        /\ \A u \in Threads \ {s, Poller} : pc'[u] = pc[u]
    BY <1>1 DEF Admit, IInv, Typed
  <1>4. /\ mailbox'[s] \in Seq(Messages) /\ mailbox'[s] # <<>> /\ Last(mailbox'[s]) = frame
        /\ Contains(mailbox[s], Close) => Contains(mailbox'[s], Close)
        /\ \A i \in 1..Len(mailbox'[s]) :
             mailbox'[s][i] # Close => shown[s] <= mailbox'[s][i] /\ mailbox'[s][i] <= frame
    <2>1. mailbox'[s] = Append(mailbox[s], frame)
      BY <1>2 DEF IInv, Typed
    <2> QED
      BY <2>1, MailAppended
  <1>5. \A q \in Streams \ {s} : mailbox'[q] = mailbox[q]
    BY <1>2 DEF IInv, Typed
  <1>6. Typed'
    <2>1. mailbox' \in [Streams -> Seq(Messages)]
      BY <1>2, <1>4, <1>5 DEF IInv, Typed
    <2> QED
      BY <1>2, <1>3, <2>1 DEF IInv, Typed, broker, cache, fetch
  <1>7. \A u \in Threads : /\ pc'[u] \in {"fetch", "commit", "push"} => pc'[u] = pc[u]
                           /\ pc[u] = "push" => pc'[u] = "push"
    BY <1>2, <1>3
  <1>8. FetchLock' /\ PushersPush' /\ \A u \in Threads : FetchOk(u)'
    BY <1>2, <1>7 DEF IInv, FetchLock, PushersPush, InOrder, FetchOk, cache, broker, fetch
  <1>9. ReadyServes'
    <2>1. \A q \in Streams \ {s} : pc'[q] = pc[q]
      BY <1>3, HubAssumption DEF Threads
    <2> QED
      BY <1>2, <1>3, <2>1 DEF IInv, ReadyServes, Typed
  <1>10. ReadyMissesNothing'
    BY <1>2, <1>3, <1>4, <1>5 DEF IInv, ReadyMissesNothing, Newest, cache, fetch
  <1>11. Slots'
    <2>1. \A q \in Streams \ {s} : pc'[q] = pc[q]
      BY <1>3, HubAssumption DEF Threads
    <2> QED
      BY <1>2, <1>3, <1>4, <1>5, <2>1 DEF IInv, Slots, TabOk
  <1>12. \A q \in Streams : MailOk(q)'
    BY <1>2, <1>4, <1>5 DEF IInv, InOrder, MailOk, cache
  <1>13. InOrder'
    BY <1>2, <1>8, <1>12 DEF IInv, InOrder, cache, broker
  <1> QED
    BY <1>6, <1>8, <1>9, <1>10, <1>11, <1>13 DEF IInv

\* The last message is what is shown, and the mailbox is empty.
LEMMA ServeShows ==
  ASSUME IInv, NEW s \in Streams, Serve(s)
  PROVE  /\ shown' = [shown EXCEPT ![s] = Last(mailbox[s])]
         /\ Last(mailbox[s]) \in Nat
         /\ shown[s] <= Last(mailbox[s]) /\ Last(mailbox[s]) <= frame
  <1>1. /\ mailbox[s] \in Seq(Messages) /\ mailbox[s] # <<>> /\ ~Contains(mailbox[s], Close)
        /\ MailOk(s)
    BY DEF IInv, Typed, InOrder, Serve
  <1>2. /\ Len(mailbox[s]) \in 1..Len(mailbox[s]) /\ Last(mailbox[s]) = mailbox[s][Len(mailbox[s])]
        /\ Last(mailbox[s]) \in Messages
    BY <1>1, LastIsEntry
  <1>3. Last(mailbox[s]) # Close
    BY <1>1, <1>2 DEF Contains
  <1> QED
    BY <1>1, <1>2, <1>3 DEF MailOk, Messages, Serve

LEMMA ServeInv ==
  ASSUME IInv, NEW s \in Streams, Serve(s)
  PROVE  IInv'
  <1>1. /\ pc' = pc /\ mailbox' = [mailbox EXCEPT ![s] = <<>>] /\ mailbox[s] # <<>>
        /\ ~Contains(mailbox[s], Close)
        /\ pc[s] = "serve"
        /\ UNCHANGED <<broker, streams, ready, cache, fetch, closed>>
    BY DEF Serve
  <1>2. /\ shown' = [shown EXCEPT ![s] = Last(mailbox[s])]
        /\ Last(mailbox[s]) \in Nat
        /\ shown[s] <= Last(mailbox[s]) /\ Last(mailbox[s]) <= frame
    BY ServeShows
  <1>3. /\ mailbox'[s] = <<>> /\ shown'[s] = Last(mailbox[s])
        /\ \A q \in Streams \ {s} : mailbox'[q] = mailbox[q] /\ shown'[q] = shown[q]
    BY <1>1, <1>2 DEF IInv, Typed
  <1>4. Typed'
    BY <1>1, <1>2 DEF IInv, Typed, broker, cache, fetch
  <1>5. FetchLock' /\ PushersPush' /\ ReadyServes' /\ \A u \in Threads : FetchOk(u)'
    BY <1>1 DEF IInv, FetchLock, PushersPush, ReadyServes, InOrder, FetchOk, cache, broker, fetch
  <1>6. ReadyMissesNothing'
    <2>1. \A q \in Streams : Newest(q)' = Newest(q)
      BY <1>1, <1>3 DEF Newest
    <2> QED
      BY <1>1, <2>1 DEF IInv, Typed, ReadyMissesNothing, cache, fetch
  <1>7. Slots'
    BY <1>1, <1>3 DEF IInv, Slots, TabOk
  <1>8. \A q \in Streams : MailOk(q)'
    BY <1>1, <1>2, <1>3 DEF IInv, InOrder, MailOk, cache
  <1>9. InOrder'
    BY <1>1, <1>5, <1>8 DEF IInv, InOrder, cache, broker
  <1> QED
    BY <1>4, <1>5, <1>6, <1>7, <1>9 DEF IInv

-------------------------------------------------------------------------------
\* Slots are taken and given back.

LEMMA ReserveInv ==
  ASSUME IInv, NEW s \in Streams, Reserve(s)
  PROVE  IInv'
  <1>1. /\ pc[s] = "off" /\ pc' = [pc EXCEPT ![s] = "opening"] /\ streams' = streams \cup {s}
        /\ UNCHANGED <<broker, tabs, cache, fetch, closed>>
    BY DEF Reserve
  <1>2. s \in Threads /\ s # Poller /\ s \notin ready
    BY <1>1, HubAssumption DEF Threads, IInv, ReadyServes
  <1>3. /\ pc'[s] = "opening" /\ \A u \in Threads \ {s} : pc'[u] = pc[u]
        /\ DOMAIN pc' = Threads
    BY <1>1, <1>2 DEF IInv, Typed
  <1>4. Typed'
    BY <1>1, <1>3 DEF IInv, Typed, broker, tabs, cache, fetch
  <1>5. \A u \in Threads : /\ pc'[u] \in {"fetch", "commit", "push"} => pc'[u] = pc[u]
                           /\ pc[u] = "push" => pc'[u] = "push"
    BY <1>1, <1>3
  <1>6. FetchLock' /\ PushersPush' /\ \A u \in Threads : FetchOk(u)'
    BY <1>1, <1>5 DEF IInv, FetchLock, PushersPush, InOrder, FetchOk, cache, broker, fetch
  <1>7. ReadyServes'
    BY <1>1, <1>2, <1>3 DEF IInv, ReadyServes, Typed, tabs, Threads
  <1>8. ReadyMissesNothing'
    <2>1. pc'[Poller] = pc[Poller]
      BY <1>2, <1>3 DEF Threads
    <2> QED
      BY <1>1, <1>2, <2>1 DEF IInv, ReadyMissesNothing, Newest, tabs, cache, fetch
  <1>9. Slots'
    BY <1>1, <1>3 DEF IInv, Slots, TabOk, tabs, Threads
  <1>10. InOrder'
    BY <1>1, <1>6 DEF IInv, InOrder, MailOk, cache, broker, tabs
  <1> QED
    BY <1>4, <1>6, <1>7, <1>8, <1>9, <1>10 DEF IInv

LEMMA EndsInv ==
  ASSUME IInv, NEW s \in Streams, OpenFails(s) \/ Ended(s) \/ ClientGone(s)
  PROVE  IInv'
  <1>1. /\ pc[s] \in {"refused", "admit", "serve"} /\ pc' = [pc EXCEPT ![s] = "off"]
        /\ streams' = streams \ {s} /\ targets' = targets \ {s} /\ ready' = ready \ {s}
        /\ mailbox' = [mailbox EXCEPT ![s] = <<>>] /\ shown' = [shown EXCEPT ![s] = 0]
        /\ UNCHANGED <<broker, cache, holder, got, closed>>
    BY DEF OpenFails, Ended, ClientGone, Ends
  <1>2. s \in Threads /\ s # Poller
    BY HubAssumption DEF Threads
  <1>3. /\ pc'[s] = "off" /\ \A u \in Threads \ {s} : pc'[u] = pc[u]
        /\ DOMAIN pc' = Threads
    BY <1>1, <1>2 DEF IInv, Typed
  <1>4. /\ mailbox'[s] = <<>> /\ shown'[s] = 0
        /\ \A q \in Streams \ {s} : mailbox'[q] = mailbox[q] /\ shown'[q] = shown[q]
    BY <1>1 DEF IInv, Typed
  <1>5. Typed'
    BY <1>1, <1>3 DEF IInv, Typed, broker, cache
  <1>6. \A u \in Threads : /\ pc'[u] \in {"fetch", "commit", "push"} => pc'[u] = pc[u]
                           /\ pc[u] = "push" => pc'[u] = "push"
    BY <1>1, <1>3
  <1>7. FetchLock' /\ PushersPush' /\ \A u \in Threads : FetchOk(u)'
    BY <1>1, <1>6 DEF IInv, FetchLock, PushersPush, InOrder, FetchOk, cache, broker
  <1>8. ReadyServes'
    BY <1>1, <1>3 DEF IInv, ReadyServes, Typed, Threads
  <1>9. ReadyMissesNothing'
    <2>1. pc'[Poller] = pc[Poller]
      BY <1>2, <1>3 DEF Threads
    <2> QED
      BY <1>1, <1>4, <2>1 DEF IInv, Typed, ReadyMissesNothing, Newest, cache
  <1>10. Slots'
    BY <1>1, <1>3, <1>4 DEF IInv, Slots, TabOk, Threads
  <1>11. \A q \in Streams : MailOk(q)'
    BY <1>1, <1>4 DEF IInv, Typed, InOrder, MailOk, cache
  <1>12. InOrder'
    BY <1>1, <1>7, <1>11 DEF IInv, InOrder, cache, broker
  <1> QED
    BY <1>5, <1>7, <1>8, <1>9, <1>10, <1>12 DEF IInv

\* Every stream loses its slot and is told to end.
LEMMA EndAllInv ==
  ASSUME IInv, EndAll, Typed', FetchLock', PushersPush',
         UNCHANGED <<broker, shown, ready, frame>>,
         \A s \in Streams : pc'[s] = pc[s], \A u \in Threads : FetchOk(u)'
  PROVE  IInv'
  <1>1. streams' = {} /\ \A s \in Streams :
          mailbox'[s] = IF s \in streams THEN Append(mailbox[s], Close) ELSE mailbox[s]
    BY DEF EndAll
  <1>2. ReadyServes' /\ ReadyMissesNothing'
    BY <1>1 DEF IInv, Typed, ReadyServes, ReadyMissesNothing
  <1>3. ASSUME NEW s \in Streams PROVE TabOk(s)' /\ MailOk(s)'
    <2>1. CASE s \in streams
      BY <1>1, <2>1, MailAppended DEF TabOk, MailOk, IInv, InOrder
    <2>2. CASE s \notin streams
      BY <1>1, <2>2 DEF TabOk, MailOk, IInv, InOrder, Slots
    <2> QED
      BY <2>1, <2>2
  <1>4. Slots' /\ InOrder'
    BY <1>3 DEF Slots, InOrder, IInv, broker
  <1> QED
    BY <1>2, <1>4 DEF IInv

LEMMA EndAllTyped ==
  ASSUME IInv, EndAll
  PROVE  streams' \subseteq Streams /\ mailbox' \in [Streams -> Seq(Messages)]
  <1>1. \A s \in Streams : Append(mailbox[s], Close) \in Seq(Messages)
    BY MailAppended
  <1> QED
    BY <1>1 DEF EndAll, IInv, Typed

LEMMA ShutdownInv ==
  ASSUME IInv, Shutdown
  PROVE  IInv'
  <1>1. EndAll /\ UNCHANGED <<broker, pc, shown, ready, cache, fetch>>
    BY DEF Shutdown
  <1>2. Typed'
    BY <1>1, EndAllTyped DEF IInv, Typed, broker, cache, fetch
  <1>3. FetchLock' /\ PushersPush' /\ \A u \in Threads : FetchOk(u)'
    BY <1>1 DEF IInv, FetchLock, PushersPush, InOrder, FetchOk, cache, broker, fetch
  <1> QED
    BY <1>1, <1>2, <1>3, EndAllInv DEF cache

LEMMA PollFailedInv ==
  ASSUME IInv, PollFailed
  PROVE  IInv'
  <1>1. /\ pc[Poller] = "failed" /\ pc' = [pc EXCEPT ![Poller] = "wait"]
        /\ EndAll \/ UNCHANGED <<streams, mailbox>>
        /\ UNCHANGED <<broker, shown, ready, cache, fetch, closed>>
    BY DEF PollFailed
  <1>2. Poller \in Threads /\ Poller \notin Streams
    BY HubAssumption DEF Threads
  <1>3. /\ pc'[Poller] = "wait" /\ \A u \in Threads \ {Poller} : pc'[u] = pc[u]
        /\ DOMAIN pc' = Threads /\ \A s \in Streams : pc'[s] = pc[s]
    BY <1>1, <1>2 DEF IInv, Typed, Threads
  <1>4. Typed'
    BY <1>1, <1>3, EndAllTyped DEF IInv, Typed, broker, cache, fetch
  <1>5. \A u \in Threads : /\ pc'[u] \in {"fetch", "commit", "push"} => pc'[u] = pc[u]
                           /\ pc[u] = "push" => pc'[u] = "push"
    BY <1>1, <1>3
  <1>6. FetchLock' /\ PushersPush' /\ \A u \in Threads : FetchOk(u)'
    BY <1>1, <1>5 DEF IInv, FetchLock, PushersPush, InOrder, FetchOk, cache, broker, fetch
  <1>7. CASE EndAll
    BY <1>1, <1>3, <1>4, <1>6, <1>7, EndAllInv DEF cache
  <1>8. CASE UNCHANGED <<streams, mailbox>>
    <2>1. queue <= queue'
      BY <1>1 DEF broker, IInv, Typed
    <2> QED
      BY <1>1, <1>3, <1>4, <1>6, <1>8, <2>1, TabsKept DEF cache, fetch
  <1> QED
    BY <1>1, <1>7, <1>8

-------------------------------------------------------------------------------
LEMMA RefreshInv ==
  ASSUME IInv, NEW t \in Threads, Refresh(t)
  PROVE  IInv'
  BY AcquireFetchInv, FetchInv, CommitFailureInv, CommitFrameInv, PushFrameInv,
     RefreshReturnsInv DEF Refresh

LEMMA NextInv ==
  ASSUME IInv, [Next]_vars
  PROVE  IInv'
  <1>1. Poller \in Threads /\ Streams \subseteq Threads
    BY DEF Threads
  <1>2. CASE Environment
    BY <1>2, BrokerInv, ShutdownInv, ReserveInv, EndsInv DEF Environment
  <1>3. CASE Poll
    BY <1>1, <1>3, WaitInv, RefreshInv, PollFailedInv DEF Poll
  <1>4. ASSUME NEW s \in Streams, Handler(s) PROVE IInv'
    BY <1>1, <1>4, WaitInv, RefreshInv, AdmitInv, EndsInv, ServeInv DEF Handler
  <1>5. CASE UNCHANGED vars
    BY <1>5 DEF vars, broker, tabs, cache, fetch, IInv, Typed, FetchLock, PushersPush,
                ReadyServes, ReadyMissesNothing, Newest, Slots, TabOk, InOrder, MailOk, FetchOk
  <1> QED
    BY <1>2, <1>3, <1>4, <1>5 DEF Next

\* What a tab shows goes up as long as it is served.
LEMMA ShownGoesUp ==
  ASSUME IInv, [Next]_vars, NEW s \in Streams, pc[s] = "serve", pc'[s] = "serve"
  PROVE  shown'[s] >= shown[s]
  <1>1. shown[s] \in Nat
    BY DEF IInv, Typed
  <1>2. CASE shown' = shown
    BY <1>1, <1>2
  <1>3. ASSUME NEW q \in Streams, Serve(q) PROVE shown'[s] >= shown[s]
    <2>1. CASE q = s
      <3>1. shown'[s] = Last(mailbox[s]) /\ Last(mailbox[s]) \in Nat /\ shown[s] <= Last(mailbox[s])
        BY <1>3, <2>1, ServeShows DEF IInv, Typed
      <3> QED
        BY <1>1, <3>1
    <2>2. CASE q # s
      BY <1>1, <1>3, <2>2 DEF Serve, IInv, Typed
    <2> QED
      BY <2>1, <2>2
  <1>4. ASSUME NEW q \in Streams, Ends(q) PROVE shown'[s] >= shown[s]
    <2>1. q # s
      BY <1>4, s \in Threads DEF Ends, IInv, Typed, Threads
    <2> QED
      BY <1>1, <1>4, <2>1 DEF Ends, IInv, Typed
  <1>5. \/ shown' = shown
        \/ \E q \in Streams : Serve(q) \/ Ends(q)
    BY DEF Next, Environment, Poll, Handler, Refresh, QueueChanges, BrokerUpOrDown, FrameAges,
           Shutdown, Reserve, ClientGone, PollDue, PollerStops, AcquireFetch, Fetch,
           CommitFailure, CommitFrame, PushFrame, RefreshReturns, PollFailed, EnsureFresh,
           Admit, OpenFails, Ended, vars, tabs
  <1> QED
    BY <1>2, <1>3, <1>4, <1>5

LEMMA HubInvariant == Spec => []IInv
  <1>1. Init => IInv
    BY InitInv
  <1>2. IInv /\ [Next]_vars => IInv'
    BY NextInv
  <1> QED
    BY <1>1, <1>2, PTL DEF Spec

-------------------------------------------------------------------------------
\* A stream in the fan-out has the cached snapshot or is about to be pushed it,
\* and a poller runs for it (QueueStreamHub of admin_daemon.py).
THEOREM NothingMissed == Spec => []ReadyMissesNothing
  <1>1. IInv => ReadyMissesNothing
    BY DEF IInv
  <1> QED
    BY <1>1, HubInvariant, PTL

\* Who holds a slot has a handler, and a handler without a slot ends.
THEOREM SlotsAndHandlers == Spec => []SlotsHaveHandlers
  <1>1. IInv => SlotsHaveHandlers
    BY DEF IInv, Slots, TabOk, SlotsHaveHandlers
  <1> QED
    BY <1>1, HubInvariant, PTL

\* No tab is shown an older queue after a newer one.
THEOREM Monotone == Spec => NeverGoesBack
  <1>1. IInv /\ [Next]_vars =>
          [\A s \in Streams : pc[s] = "serve" /\ pc'[s] = "serve" => shown'[s] >= shown[s]]_vars
    BY ShownGoesUp
  <1> QED
    BY <1>1, HubInvariant, PTL DEF Spec, NeverGoesBack
===============================================================================
