---------------------------- MODULE MCEgressBroker ----------------------------
(* TLC instances of EgressBroker.                                          *)
EXTENDS EgressBroker, TLC

CONSTANTS c1, c2, h1, h2, h3, r1, r2, r3, z1, z2, f1, f2, o1, o2, global

\* z1 covers every host of the instance, z2 only h1.
MCCovered == [z \in Zones |-> IF z = z1 THEN Hosts ELSE Hosts \cap {h1}]

Symmetry == Permutations(Ids) \cup Permutations(Operators) \cup Permutations(Filers)
===============================================================================
