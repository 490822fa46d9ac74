----------------------------- MODULE BottleBlocks -----------------------------
(***************************************************************************)
(* What a bottle may rely on of its network allocation: an entry of its    *)
(* own, disjoint from every other bottle's, that stays as it is until      *)
(* somebody purges it.                                                     *)
(***************************************************************************)
CONSTANTS Bottles, None

VARIABLE file   \* the entries: bottle |-> [subnet, browser, ssh]

Claims(e) == {e.browser} \cup ({e.ssh} \ {None})

Disjoint(f) ==
    /\ \A b \in DOMAIN f : f[b].browser # f[b].ssh
    /\ \A b, c \in DOMAIN f : b # c =>
        f[b].subnet # f[c].subnet /\ Claims(f[b]) \cap Claims(f[c]) = {}

Init == file = [b \in {} |-> None]

\* up.sh: entries are added, and the ssh port follows the manifest; subnet and
\* browser port of an entry never move.
Grant ==
    /\ DOMAIN file \subseteq DOMAIN file' /\ DOMAIN file' \subseteq Bottles
    /\ \A b \in DOMAIN file :
         file'[b].subnet = file[b].subnet /\ file'[b].browser = file[b].browser
    /\ Disjoint(file')

Free(b) == b \in DOMAIN file /\ file' = [c \in DOMAIN file \ {b} |-> file[c]]

Next == Grant \/ \E b \in Bottles : Free(b)

Spec == Init /\ [][Next]_file
===============================================================================
