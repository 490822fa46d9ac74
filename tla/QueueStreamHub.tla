--------------------------- MODULE QueueStreamHub ---------------------------
(***************************************************************************)
(* The admin daemon's live queue (src/src/admin_daemon.py): browser        *)
(* streams, one poller thread that reads the broker's /queue while a       *)
(* stream is open, and the cached snapshot both share.  Every handler of a *)
(* stream is a thread; a thread and the poller interleave at each          *)
(* acquisition of the hub's lock (_lock), at the fetch lock (_fetch_lock)  *)
(* and at each push, which happens outside _lock.                          *)
(*                                                                         *)
(* A snapshot is its version: two snapshots have the same version when     *)
(* _queue_change_key does not tell them apart (the poll's own clock and    *)
(* the rows' ages are no news).  Version 0 is "no snapshot yet".           *)
(***************************************************************************)
EXTENDS Naturals, FiniteSets, Sequences, SequencesExt

CONSTANTS Streams,       \* the browser tabs
          Poller,        \* the poller thread
          None,          \* no thread
          Failed,        \* what a failed poll returns
          Close,         \* the sentinel that ends a handler (_CLOSE)
          MaxStreams,    \* STREAM_MAX
          FailureLimit,  \* STREAM_FAILURE_LIMIT
          MaxVersion,    \* bound: changes of the broker's queue
          MaxConnects    \* bound: connects of all the tabs together

ASSUME HubAssumption ==
    /\ Poller \notin Streams /\ None \notin Streams \cup {Poller}
    /\ Failed \notin Nat /\ Close \notin Nat
    /\ MaxStreams \in Nat \ {0} /\ FailureLimit \in Nat \ {0}
    /\ MaxVersion \in Nat \ {0} /\ MaxConnects \in Nat

VARIABLES
    queue,       \* the broker: version of its queue
    reachable,   \* the broker: answers /queue
    pc,          \* where each thread is
    streams,     \* _streams
    ready,       \* the streams whose `ready` is set
    mailbox,     \* each stream's mailbox: versions and Close
    shown,       \* the version each client was last sent
    frame,       \* _frame and _key
    fresh,       \* _frame is under a poll interval old (_fetched_at)
    failures,    \* _failures (counted up to FailureLimit)
    holder,      \* who holds _fetch_lock
    got,         \* what each thread's fetch returned
    targets,     \* the streams it has still to push to
    closed,      \* _closed
    connects

vars == <<queue, reachable, pc, streams, ready, mailbox, shown, frame, fresh,
          failures, holder, got, targets, closed, connects>>
broker == <<queue, reachable>>
tabs == <<mailbox, shown, ready>>
cache == <<frame, fresh, failures>>
fetch == <<holder, got, targets>>

Threads == Streams \cup {Poller}
Versions == 0..MaxVersion

StreamStates == {"off", "opening", "admit", "refused", "serve"}
PollerStates == {"none", "wait", "failed"}
RefreshStates == {"lock", "fetch", "commit", "push"}

TypeOK ==
    /\ queue \in 1..MaxVersion /\ reachable \in BOOLEAN
    /\ pc \in [Threads -> StreamStates \cup PollerStates \cup RefreshStates]
    /\ \A s \in Streams : pc[s] \in StreamStates \cup RefreshStates
    /\ pc[Poller] \in PollerStates \cup RefreshStates
    /\ streams \subseteq Streams /\ ready \subseteq Streams
    /\ mailbox \in [Streams -> Seq(Versions \cup {Close})]
    /\ shown \in [Streams -> Versions]
    /\ frame \in Versions /\ fresh \in BOOLEAN
    /\ failures \in 0..FailureLimit
    /\ holder \in Threads \cup {None}
    /\ got \in [Threads -> Versions \cup {Failed}]
    /\ targets \subseteq Streams
    /\ closed \in BOOLEAN /\ connects \in 0..MaxConnects

Init ==
    /\ queue = 1 /\ reachable \in BOOLEAN
    /\ pc = [t \in Threads |-> IF t = Poller THEN "none" ELSE "off"]
    /\ streams = {} /\ ready = {}
    /\ mailbox = [s \in Streams |-> <<>>]
    /\ shown = [s \in Streams |-> 0]
    /\ frame = 0 /\ fresh = FALSE /\ failures = 0
    /\ holder = None /\ got = [t \in Threads |-> 0] /\ targets = {}
    /\ closed = FALSE /\ connects = 0

-----------------------------------------------------------------------------
\* The broker: a row opens, closes or is hit; it stops answering or answers
\* again.

QueueChanges ==
    /\ queue < MaxVersion /\ queue' = queue + 1
    /\ UNCHANGED <<reachable, pc, streams, tabs, cache, fetch, closed, connects>>

BrokerUpOrDown ==
    /\ reachable' = ~reachable
    /\ UNCHANGED <<queue, pc, streams, tabs, cache, fetch, closed, connects>>

\* A poll interval passes since the snapshot was fetched.
FrameAges ==
    /\ fresh /\ fresh' = FALSE
    /\ UNCHANGED <<broker, pc, streams, tabs, frame, failures, fetch, closed, connects>>

-----------------------------------------------------------------------------
\* close_stream and release: a stream that ends gives its slot back; what is
\* pushed to it afterwards reaches nobody.
Ends(s) ==
    /\ pc' = [pc EXCEPT ![s] = "off"]
    /\ streams' = streams \ {s}
    /\ targets' = targets \ {s}
    /\ ready' = ready \ {s}
    /\ mailbox' = [mailbox EXCEPT ![s] = <<>>]
    /\ shown' = [shown EXCEPT ![s] = 0]

\* _end_all_locked: every stream is told to end and loses its slot.
EndAll ==
    /\ streams' = {}
    /\ mailbox' = [s \in Streams |->
                     IF s \in streams THEN Append(mailbox[s], Close) ELSE mailbox[s]]

-----------------------------------------------------------------------------
\* QueueStreamHub.open, first lock: a slot is reserved unless the hub is
\* closed or full (then the tab is answered 503 and nothing changes).
Reserve(s) ==
    /\ pc[s] = "off" /\ connects < MaxConnects
    /\ ~closed /\ Cardinality(streams) < MaxStreams
    /\ connects' = connects + 1
    /\ streams' = streams \cup {s}
    /\ pc' = [pc EXCEPT ![s] = "opening"]
    /\ UNCHANGED <<broker, tabs, cache, fetch, closed>>

\* _ensure_fresh: a snapshot under a poll interval old is good enough.
EnsureFresh(s) ==
    /\ pc[s] = "opening"
    /\ pc' = [pc EXCEPT ![s] = IF frame # 0 /\ fresh THEN "admit" ELSE "lock"]
    /\ UNCHANGED <<broker, streams, tabs, cache, fetch, closed, connects>>

\* open, second lock: the snapshot of this moment is the first frame, the
\* stream takes part in the fan-out from here on, and the poller runs.
Admit(s) ==
    /\ pc[s] = "admit" /\ ~closed
    /\ mailbox' = [mailbox EXCEPT ![s] = Append(@, frame)]
    /\ ready' = ready \cup {s}
    /\ pc' = [pc EXCEPT ![s] = "serve", ![Poller] = IF @ = "none" THEN "wait" ELSE @]
    /\ UNCHANGED <<broker, streams, shown, cache, fetch, closed, connects>>

\* Mutant: a connect that fails keeps its slot.
OpenFails_KeepsSlot(s) ==
    /\ \/ pc[s] = "refused"
       \/ pc[s] = "admit" /\ closed
    /\ pc' = [pc EXCEPT ![s] = "off"]
    /\ mailbox' = [mailbox EXCEPT ![s] = <<>>]
    /\ UNCHANGED <<broker, streams, ready, shown, cache, fetch, closed, connects>>

\* open's exception path: the fetch failed or the hub closed meanwhile.
OpenFails(s) ==
    /\ \/ pc[s] = "refused"
       \/ pc[s] = "admit" /\ closed
    /\ Ends(s)
    /\ UNCHANGED <<broker, cache, holder, got, closed, connects>>

-----------------------------------------------------------------------------
\* _refresh, run by a connecting stream's thread or by the poller.

\* Mutant: two refreshes may run at a time.
AcquireFetch_NoLock(t) ==
    /\ pc[t] = "lock"
    /\ holder' = t
    /\ pc' = [pc EXCEPT ![t] = "fetch"]
    /\ UNCHANGED <<broker, streams, tabs, cache, got, targets, closed, connects>>

AcquireFetch(t) ==
    /\ pc[t] = "lock" /\ holder = None
    /\ holder' = t
    /\ pc' = [pc EXCEPT ![t] = "fetch"]
    /\ UNCHANGED <<broker, streams, tabs, cache, got, targets, closed, connects>>

\* The broker answers with the queue of this moment, or does not answer.
Fetch(t) ==
    /\ pc[t] = "fetch"
    /\ got' = [got EXCEPT ![t] = IF reachable THEN queue ELSE Failed]
    /\ pc' = [pc EXCEPT ![t] = "commit"]
    /\ UNCHANGED <<broker, streams, tabs, cache, holder, targets, closed, connects>>

CommitFailure(t) ==
    /\ pc[t] = "commit" /\ got[t] = Failed
    /\ failures' = IF failures < FailureLimit THEN failures + 1 ELSE failures
    /\ holder' = None /\ got' = [got EXCEPT ![t] = 0]
    /\ pc' = [pc EXCEPT ![t] = IF t = Poller THEN "failed" ELSE "refused"]
    /\ UNCHANGED <<broker, streams, tabs, frame, fresh, targets, closed, connects>>

\* Mutant: a connect's fetch fills the cache and leaves the fan-out to the
\* poller.
CommitFrame_PollerFansOut(t) ==
    /\ pc[t] = "commit" /\ got[t] # Failed
    /\ failures' = 0 /\ frame' = got[t] /\ fresh' = TRUE
    /\ got' = [got EXCEPT ![t] = 0]
    /\ targets' = IF got[t] # frame /\ t = Poller THEN streams \cap ready ELSE {}
    /\ pc' = [pc EXCEPT ![t] = "push"]
    /\ UNCHANGED <<broker, streams, tabs, holder, closed, connects>>

\* The cache is replaced and, when the snapshot is news, the streams that are
\* ready at this moment are to get it.
CommitFrame(t) ==
    /\ pc[t] = "commit" /\ got[t] # Failed
    /\ failures' = 0 /\ frame' = got[t] /\ fresh' = TRUE
    /\ got' = [got EXCEPT ![t] = 0]
    /\ targets' = IF got[t] # frame THEN streams \cap ready ELSE {}
    /\ pc' = [pc EXCEPT ![t] = "push"]
    /\ UNCHANGED <<broker, streams, tabs, holder, closed, connects>>

\* stream.push(frame), one stream after the other, outside _lock.
PushFrame(t) ==
    /\ pc[t] = "push" /\ \E s \in targets :
         /\ mailbox' = [mailbox EXCEPT ![s] = Append(@, frame)]
         /\ targets' = targets \ {s}
    /\ UNCHANGED <<broker, pc, streams, shown, ready, cache, holder, got, closed, connects>>

RefreshReturns(t) ==
    /\ pc[t] = "push" /\ targets = {}
    /\ holder' = None
    /\ pc' = [pc EXCEPT ![t] = IF t = Poller THEN "wait" ELSE "admit"]
    /\ UNCHANGED <<broker, streams, tabs, cache, got, targets, closed, connects>>

-----------------------------------------------------------------------------
\* _poll_loop.

\* The interval is over.
PollDue ==
    /\ pc[Poller] = "wait" /\ ~closed /\ streams # {}
    /\ pc' = [pc EXCEPT ![Poller] = "lock"]
    /\ UNCHANGED <<broker, streams, tabs, cache, fetch, closed, connects>>

\* No stream is left: the poller stops, and says so under the same lock.
PollerStops ==
    /\ pc[Poller] = "wait" /\ (closed \/ streams = {})
    /\ pc' = [pc EXCEPT ![Poller] = "none"]
    /\ UNCHANGED <<broker, streams, tabs, cache, fetch, closed, connects>>

\* Mutant: failed polls never end the streams.
PollFailed_NeverEnds ==
    /\ pc[Poller] = "failed"
    /\ pc' = [pc EXCEPT ![Poller] = "wait"]
    /\ UNCHANGED <<broker, streams, tabs, cache, fetch, closed, connects>>

\* A failed poll: the streams are ended once the failures reach the limit.
PollFailed ==
    /\ pc[Poller] = "failed"
    /\ pc' = [pc EXCEPT ![Poller] = "wait"]
    /\ IF failures >= FailureLimit THEN EndAll ELSE UNCHANGED <<streams, mailbox>>
    /\ UNCHANGED <<broker, shown, ready, cache, fetch, closed, connects>>

-----------------------------------------------------------------------------
\* The handler's loop: a burst of frames is one frame, the last; Close ends
\* the handler, whatever is queued around it.
Serve(s) ==
    /\ pc[s] = "serve" /\ mailbox[s] # <<>> /\ ~Contains(mailbox[s], Close)
    /\ shown' = [shown EXCEPT ![s] = Last(mailbox[s])]
    /\ mailbox' = [mailbox EXCEPT ![s] = <<>>]
    /\ UNCHANGED <<broker, pc, streams, ready, cache, fetch, closed, connects>>

Ended(s) ==
    /\ pc[s] = "serve" /\ Contains(mailbox[s], Close)
    /\ Ends(s)
    /\ UNCHANGED <<broker, cache, holder, got, closed, connects>>

\* The client goes away, or a write to it fails or times out.
ClientGone(s) ==
    /\ pc[s] = "serve"
    /\ Ends(s)
    /\ UNCHANGED <<broker, cache, holder, got, closed, connects>>

\* QueueStreamHub.close.
Shutdown ==
    /\ ~closed /\ closed' = TRUE
    /\ EndAll
    /\ UNCHANGED <<broker, pc, shown, ready, cache, fetch, connects>>

-----------------------------------------------------------------------------
Refresh(t) ==
    \/ AcquireFetch(t) \/ Fetch(t) \/ CommitFailure(t) \/ CommitFrame(t)
    \/ PushFrame(t) \/ RefreshReturns(t)

Handler(s) ==
    \/ EnsureFresh(s) \/ Refresh(s) \/ Admit(s) \/ OpenFails(s) \/ Serve(s) \/ Ended(s)

Poll == PollDue \/ PollerStops \/ Refresh(Poller) \/ PollFailed

Environment ==
    \/ QueueChanges \/ BrokerUpOrDown \/ FrameAges \/ Shutdown
    \/ \E s \in Streams : Reserve(s) \/ ClientGone(s)

Next == Environment \/ Poll \/ \E s \in Streams : Handler(s)

Spec == Init /\ [][Next]_vars

\* The threads run; the broker, the clients and the operator do as they
\* please.  The fetch lock may be taken by others any number of times, but
\* connects are bounded, so weak fairness is enough.
FairSpec == Spec /\ WF_vars(Poll) /\ \A s \in Streams : WF_vars(Handler(s))

-----------------------------------------------------------------------------
\* What a stream's client will have been sent once its mailbox is drained.
Newest(s) == IF mailbox[s] = <<>> THEN shown[s] ELSE Last(mailbox[s])

\* A stream that takes part in the fan-out misses nothing: it has, or is
\* about to be pushed, the snapshot in the cache, and a poller runs for it.
\* A frame that is committed between a connect's fetch and its `ready`, a
\* connect that fetches while others listen, and a poller that stops just as a
\* stream arrives could each leave a tab behind for good.
ReadyMissesNothing ==
    \A s \in streams \cap ready :
        /\ Newest(s) = frame \/ s \in targets
        /\ closed \/ pc[Poller] # "none"

\* Slots and handlers belong together: whoever holds one of the STREAM_MAX
\* slots has a handler running for it, and a handler without a slot was told
\* to end (or is about to be refused), so it does not serve a stream that no
\* poll reaches.
SlotsHaveHandlers ==
    \A s \in Streams :
        /\ s \in streams => pc[s] # "off"
        /\ pc[s] = "serve" /\ s \notin streams => Contains(mailbox[s], Close)

\* A tab never goes back to an older queue: connects and polls fetch and push
\* at the same time, outside the hub's lock.
NeverGoesBack ==
    [][\A s \in Streams : pc[s] = "serve" /\ pc'[s] = "serve" => shown'[s] >= shown[s]]_vars

\* Every stream shows the broker's latest queue in the end, or is ended so
\* that its tab polls instead: also when the broker comes and goes, and when
\* the tab connected with a cached snapshot.
StreamsConverge ==
    \A s \in Streams :
        []<>(pc[s] # "serve" \/ shown[s] = queue)
=============================================================================
