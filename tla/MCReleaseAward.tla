--------------------------- MODULE MCReleaseAward ---------------------------
\* ReleaseAward on small instances: u1 has more than the minimum, u2 less.
EXTENDS ReleaseAward, TLC

CONSTANTS u1, u2

MCUsers == {u1, u2}
BothHaveAward == (u1 :> 8) @@ (u2 :> 1)
NoAward == [u \in MCUsers |-> 0]
FixedRate == {50}
EditedRate == {0, 50}
BuyAndRebate == {-3, 2}
RebateOnly == {2}
=============================================================================
