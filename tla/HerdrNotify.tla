----------------------------- MODULE HerdrNotify -----------------------------
\* src/herdr_notify.py: the daemon in a container that follows the panes of the
\* herdr terminal server and pushes a notification when an agent in one blocks.
\* Each cycle (run_once) takes a snapshot, subscribes to the status of the panes
\* in it and to four global event kinds, and handles events until a pane it does
\* not cover appears or the stream ends; main() then starts the next cycle.
\* The herdr server is external: it answers a subscription by replaying the
\* global events since it started, then streams new ones.
EXTENDS Naturals, Sequences, FiniteSets

CONSTANTS
    Panes,          \* pane ids; one server never gives an id to two panes
    Reused,         \* whether a restarted server gives out the old ids again
    Status,         \* agent statuses other than "idle"
    Notified,       \* those of HERDR_NOTIFY_STATES
    None,           \* a pane that is not there, or not tracked
    Unknown,        \* the status of a pane first seen through an event
    MaxPending,     \* bound: undelivered status events
    MaxStops        \* bound: stops of the server

VARIABLES
    up, pane, used, history, stops,     \* the server
    pc, tracked, covered,       \* the daemon: its tracker, subscriptions
    stream, linked,                     \* the subscription: undelivered events,
                                        \* whether its server still runs
    gap, owed                           \* history variables: panes that changed
                                        \* unseen since the snapshot; panes that
                                        \* entered a notified status, seen

server == <<up, pane, used, history, stops>>
daemon == <<pc, tracked, covered>>
vars == <<server, daemon, stream, linked, gap, owed>>

\* Assumed: a restarted server gives no old id to a new pane, and None is no status.
FreshIds == ~Reused /\ None \notin Status

Ev(kind, p, s) == [kind |-> kind, pane |-> p, status |-> s]
Live == {p \in Panes : pane[p] # None}
Pending == {i \in DOMAIN stream : stream[i].kind = "status"}

Streaming == pc = "streaming"
Listening == Streaming /\ linked
Tell(e) == stream' = IF Listening THEN Append(stream, e) ELSE stream

Init ==
    /\ up = TRUE /\ pane = [p \in Panes |-> None]
    /\ used = {} /\ history = <<>> /\ stops = 0
    /\ pc = "waiting" /\ tracked = [p \in Panes |-> None]
    /\ covered = {} /\ stream = <<>> /\ linked = FALSE
    /\ gap = {} /\ owed = {}

----------------------------------------------------------------------------
\* The server.

Opens(p) ==
    /\ up /\ p \notin used
    /\ \E s \in Status : pane' = [pane EXCEPT ![p] = s]
    /\ used' = used \cup {p}
    /\ history' = Append(history, Ev("created", p, Unknown))
    /\ Tell(Ev("created", p, Unknown))
    /\ UNCHANGED <<up, stops, daemon, linked, gap, owed>>

Closes(p) ==
    /\ up /\ p \in Live
    /\ pane' = [pane EXCEPT ![p] = None]
    /\ history' = Append(history, Ev("closed", p, None))
    /\ Tell(Ev("closed", p, None))
    /\ owed' = owed \ {p}
    /\ UNCHANGED <<up, used, stops, daemon, linked, gap>>

\* A status event reaches only a subscription that names the pane. A change
\* between a snapshot and its subscription reaches nobody: the daemon follows
\* such a pane again from the next event on.
Turns(p, s) ==
    /\ up /\ p \in Live /\ s # pane[p] /\ Cardinality(Pending) < MaxPending
    /\ pane' = [pane EXCEPT ![p] = s]
    /\ IF Listening /\ p \in covered
       THEN /\ Tell(Ev("status", p, s))
            /\ owed' = IF s \in Notified /\ p \notin gap THEN owed \cup {p} ELSE owed
            /\ gap' = gap \ {p}
       ELSE /\ gap' = IF pc = "subscribe" THEN gap \cup {p} ELSE gap
            /\ UNCHANGED <<stream, owed>>
    /\ UNCHANGED <<up, used, history, stops, daemon, linked>>

\* `herdr server stop`: the panes and the events of this server go with it.
Stops ==
    /\ up /\ stops < MaxStops
    /\ up' = FALSE /\ stops' = stops + 1
    /\ pane' = [p \in Panes |-> None] /\ history' = <<>>
    /\ used' = IF Reused THEN {} ELSE used
    /\ linked' = FALSE /\ owed' = {}
    /\ UNCHANGED <<daemon, stream, gap>>

Starts ==
    /\ ~up /\ up' = TRUE
    /\ UNCHANGED <<pane, used, history, stops, daemon, stream, linked, gap, owed>>

----------------------------------------------------------------------------
\* The daemon.

\* A cycle ends: what the stream still holds is never read.
Leave(why) ==
    /\ pc' = why /\ stream' = <<>> /\ owed' = {}

\* wait_for_server: the ping is repeated until it is answered.
Ping ==
    /\ pc = "waiting" /\ up
    /\ pc' = "snapshot"
    /\ UNCHANGED <<server, tracked, covered, stream, linked, gap, owed>>

\* Mutant: the snapshot's panes are subscribed to but not entered in the tracker.
Seeded_Subscribed == tracked

\* seed_from_snapshot and PaneTracker.adopt.
Seeded == [p \in Panes |-> IF p \in Live THEN pane[p] ELSE tracked[p]]

Snapshot ==
    /\ pc = "snapshot"
    /\ IF up THEN tracked' = Seeded /\ covered' = Live /\ pc' = "subscribe"
             ELSE pc' = "waiting" /\ UNCHANGED <<tracked, covered>>
    /\ gap' = {}
    /\ UNCHANGED <<server, stream, linked, owed>>

\* HerdrClient.subscribe; the server rejects a subscription to a pane it does
\* not have.
Subscribe ==
    /\ pc = "subscribe"
    /\ IF up /\ covered \subseteq Live
       THEN pc' = "streaming" /\ stream' = history /\ linked' = TRUE
       ELSE pc' = "waiting" /\ UNCHANGED <<stream, linked>>
    /\ UNCHANGED <<server, tracked, covered, gap, owed>>

\* _adopt_new_pane: an event for a tracked pane is taken for replay.
IsNew(p) == tracked[p] = None

\* Mutant: a new pane is tracked, and the cycle goes on.
Created_GoesOn(e) ==
    /\ e.kind = "created"
    /\ tracked' = IF IsNew(e.pane) THEN [tracked EXCEPT ![e.pane] = e.status] ELSE tracked
    /\ stream' = Tail(stream)
    /\ UNCHANGED <<pc, owed>>

Created(e) ==
    /\ e.kind = "created"
    /\ IF IsNew(e.pane)
       THEN /\ tracked' = [tracked EXCEPT ![e.pane] = e.status]
            /\ Leave("snapshot")
       ELSE /\ stream' = Tail(stream) /\ UNCHANGED <<tracked, pc, owed>>

Closed(e) ==
    /\ e.kind = "closed"
    /\ tracked' = [tracked EXCEPT ![e.pane] = None]     \* PaneTracker.forget
    /\ stream' = Tail(stream)
    /\ UNCHANGED <<pc, owed>>

\* apply_status adopts a pane it does not know without a transition. A
\* transition into a notified status speaks for the pane: it is pushed, whatever
\* the push answers, or left to an attached client or to a recent push.
StatusChanged(e) ==
    /\ e.kind = "status"
    /\ LET p == e.pane
           transition == tracked[p] \notin {None, e.status}
           notify == transition /\ e.status \in Notified
       IN /\ owed' = IF notify THEN owed \ {p} ELSE owed
          /\ tracked' = [tracked EXCEPT ![p] = e.status]
    /\ stream' = Tail(stream)
    /\ UNCHANGED pc

Handle ==
    /\ Streaming /\ stream # <<>>
    /\ LET e == Head(stream)
       IN \/ Created(e)
          \/ Closed(e)
          \/ StatusChanged(e)
    /\ UNCHANGED <<server, covered, linked, gap>>

\* The server is gone and the stream drained, or the connection breaks.
StreamEnds ==
    /\ Streaming
    /\ Leave("waiting")
    /\ UNCHANGED <<server, tracked, covered, linked, gap>>

Cycle == Ping \/ Snapshot \/ Subscribe \/ Handle \/ StreamEnds

Next ==
    \/ Cycle \/ Stops \/ Starts
    \/ \E p \in Panes : \/ Opens(p) \/ Closes(p)
                        \/ \E s \in Status : Turns(p, s)

Spec == Init /\ [][Next]_vars

----------------------------------------------------------------------------
\* A pane that enters a notified status while the daemon follows it is spoken
\* for - pushed, or left to an attached client or the cooldown - by the time its
\* events are handled: no replayed or stale event makes the tracker take the
\* change for old news.
BlockedIsTold == Streaming /\ Pending = {} => owed = {}

\* The comment on _adopt_new_pane: a genuinely new pane ends the cycle, so a
\* drained stream covers every live pane.
NewPaneIsCovered == Listening /\ stream = <<>> => Live \subseteq covered
=============================================================================
