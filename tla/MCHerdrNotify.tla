---------------------------- MODULE MCHerdrNotify ----------------------------
\* Two panes of a server that stops once and then gives out the old ids again.
EXTENDS HerdrNotify

CONSTANTS p1, p2, working, blocked
=============================================================================
