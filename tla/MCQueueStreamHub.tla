-------------------------- MODULE MCQueueStreamHub --------------------------
(* TLC instance of QueueStreamHub: two tabs, which connect three times.               *)
EXTENDS QueueStreamHub

CONSTANTS s1, s2
=============================================================================
