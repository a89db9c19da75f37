------------------------------ MODULE MCAgent ------------------------------
\* Small clusters for the agents.
EXTENDS QuotaAgent

CONSTANTS n1, n2

\* The quota controller of each node, nobody reclaims.
Controllers == Node \X {"quota"}

\* Both controllers of each node, nobody reclaims.
BothControllers == Node \X {"quota", "pod"}

\* n2 holds credits, n1 reclaims.
HolderAndRenewer == {<<n2, "quota">>, <<n1, "renew">>}

=============================================================================
