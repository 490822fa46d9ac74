---------------------------- MODULE MCEgressClient ----------------------------
(* TLC instance of EgressClient: two connections and a run of the tool.    *)
EXTENDS EgressClient

CONSTANTS c1, c2, q1, k1, k2
===============================================================================
