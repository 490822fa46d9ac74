-------------------------------- MODULE DenySet --------------------------------
(***************************************************************************)
(* What the deny list promises its users: a set of entries to which        *)
(* entries are added and from which they are removed one at a time, by     *)
(* whatever process, and which nobody overwrites once it is unreadable.    *)
(***************************************************************************)
CONSTANTS Entries, Corrupt

VARIABLE text       \* the entries, or Corrupt

Init == text = {}

Add(e) == text # Corrupt /\ text' = text \cup {e}

Remove(e) == text # Corrupt /\ text' = text \ {e}

\* An editor leaves the file unreadable; the operator moves it aside.
Break == text' = Corrupt

MoveAside == text = Corrupt /\ text' = {}

Next == (\E e \in Entries : Add(e) \/ Remove(e)) \/ Break \/ MoveAside

Spec == Init /\ [][Next]_text
===============================================================================
