----------------------------- MODULE EgressLedger -----------------------------
(***************************************************************************)
(* What the egress daemon promises about requests, without its threads,    *)
(* locks, scripts and restarts: a destination has at most one open         *)
(* question, a question gets at most one answer, and answers are kept.     *)
(***************************************************************************)
CONSTANTS Ids, Keys, None

Answers == {"allow", "deny"}

VARIABLES
    asked,      \* the key a request asks about, None while the id is unused
    answer      \* "absent", "open", or the answer

ledger == <<asked, answer>>

TypeOK ==
    /\ asked \in [Ids -> Keys \cup {None}]
    /\ answer \in [Ids -> {"absent", "open"} \cup Answers]

OneQuestionPerKey ==
    \A i, j \in Ids :
        answer[i] = "open" /\ answer[j] = "open" /\ asked[i] = asked[j] => i = j

\* Questions may be open from before the ledger was begun.
Init ==
    /\ asked \in [Ids -> Keys \cup {None}]
    /\ answer = [id \in Ids |-> IF asked[id] = None THEN "absent" ELSE "open"]
    /\ OneQuestionPerKey

Ask(id, k) ==
    /\ answer[id] = "absent"
    /\ \A other \in Ids : ~ (answer[other] = "open" /\ asked[other] = k)
    /\ asked' = [asked EXCEPT ![id] = k]
    /\ answer' = [answer EXCEPT ![id] = "open"]

Answer(id, a) ==
    /\ answer[id] = "open"
    /\ answer' = [answer EXCEPT ![id] = a]
    /\ UNCHANGED asked

Next ==
    \E id \in Ids :
        \/ \E k \in Keys : Ask(id, k)
        \/ \E a \in Answers : Answer(id, a)

Spec == Init /\ [][Next]_ledger
===============================================================================
