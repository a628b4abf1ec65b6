------------------------------ MODULE MCGather ------------------------------
\* Gather on a small instance: two addresses, three payments, of which two small
\* ones or a large one are worth gathering.
EXTENDS Gather, TLC

CONSTANTS a1, a2

MCAddresses == {a1, a2}
MCAmounts == {1, 2}
=============================================================================
