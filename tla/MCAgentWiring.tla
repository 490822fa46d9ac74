---------------------------- MODULE MCAgentWiring ----------------------------
\* One server that its plugin may turn from a local into an authenticated one, and one agent whose
\* config is a JSON file with a named env reference.
EXTENDS AgentWiring

CONSTANT s1

MCShapes == {[kind |-> "bearer", requires |-> TRUE], [kind |-> "header", requires |-> TRUE],
             [kind |-> "local", requires |-> FALSE]}
MCFleets == {<<[role |-> "json", envRefs |-> "named"]>>}
=============================================================================
