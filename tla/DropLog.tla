------------------------------- MODULE DropLog -------------------------------
\* src/egress_nflog.py: the reader in a container that takes the firewall's log
\* of blocked packets from a netlink group and files each destination with the
\* broker, once per destination and window (FilingCoalescer). One thread; the
\* kernel and the broker are external.
EXTENDS Naturals

CONSTANTS
    Packets,        \* logged packets: [dest, ours, loopback, parses]
    Dests,          \* destinations as filed: (host, port)
    None,
    Window          \* DENYLIST_SUPPRESS_SECONDS, in clock ticks

VARIABLES
    reader,         \* "opening" | "reading" | "dead"
    configured,     \* the netlink configuration steps acknowledged (of 3)
    last,           \* _last_filed: ticks since the destination was recorded
    silent          \* history variable: ticks since the destination was last
                    \* sent to the broker, None if never

\* Assumed: every packet has a destination.
PacketsHaveDests == \A k \in Packets : k.dest \in Dests

vars == <<reader, configured, last, silent>>

Init ==
    /\ reader = "opening" /\ configured = 0
    /\ last = [d \in Dests |-> None] /\ silent = [d \in Dests |-> None]

\* configure_nflog_socket: one step at a time, each acknowledged or fatal.
Configure ==
    /\ reader = "opening"
    /\ \/ /\ configured' = configured + 1
          /\ reader' = IF configured' = 3 THEN "reading" ELSE reader
       \/ reader' = "dead" /\ UNCHANGED configured
    /\ UNCHANGED <<last, silent>>

\* Mutant: the window slides: the last attempt counts, filed or not.
Recorded_Slides(d, files) == [last EXCEPT ![d] = 0]

\* record_filed follows the filing only.
Recorded(d, files) == IF files THEN [last EXCEPT ![d] = 0] ELSE last

Recent(age) == age \in 0 .. Window - 1

ShouldFile(d) == ~Recent(last[d])

\* handle_message: a packet that does not parse, bears another rule's prefix or
\* stays in the container is ignored. A filing that fails with a URL error, or
\* is skipped for want of a token, is recorded as one that succeeded; any other
\* exception leaves the loop, and the process.
Receive(k) ==
    /\ reader = "reading"
    /\ k.parses /\ k.ours /\ ~k.loopback
    /\ LET d == k.dest
           files == ShouldFile(d)
       IN /\ silent' = IF files THEN [silent EXCEPT ![d] = 0] ELSE silent
          /\ \/ last' = Recorded(d, files) /\ UNCHANGED reader
             \/ files /\ reader' = "dead" /\ UNCHANGED last
    /\ UNCHANGED configured

\* Ages past the window are one.
Older(f) == [d \in Dests |-> IF f[d] = None \/ f[d] = Window + 1 THEN f[d] ELSE f[d] + 1]

Tick ==
    /\ last' = Older(last) /\ silent' = Older(silent)
    /\ UNCHANGED <<reader, configured>>

Next == Configure \/ Tick \/ \E k \in Packets : Receive(k)
Spec == Init /\ [][Next]_vars

\* A destination that keeps being dropped is filed again every window, so a
\* denial or an allow that lapsed is asked about anew: the reader is silent on a
\* drop only within a window of an actual filing of that destination.
SilenceIsBounded ==
    [][\A k \in Packets :
         Receive(k) /\ ~Recent(silent[k.dest]) => silent'[k.dest] = 0]_vars
=============================================================================
