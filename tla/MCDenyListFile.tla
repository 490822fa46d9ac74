---------------------------- MODULE MCDenyListFile ----------------------------
(* TLC instance of DenyListFile: two daemon threads and a tool.            *)
EXTENDS DenyListFile

CONSTANTS t1, t2, p1, p2, e1, e2
===============================================================================
