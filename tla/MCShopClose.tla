---------------------------- MODULE MCShopClose ------------------------------
\* ShopClose on small instances: b1 buys from the shop of s, which sells one
\* good; b1 was invited by s, s by nobody.  Every percentage is a different
\* whole number, and the award balance pays for some orders only.
EXTENDS ShopClose, TLC

CONSTANTS b1, s, g1, o1, o2, t1, none

MCUsers == {b1, s}
OneBuyer == {b1}
OneGood == {g1}
MCOrders == {o1, o2}
OneThread == {t1}
MCOwner == [g \in Goods |-> s]
MCInvite == (b1 :> s) @@ (s :> none)
MCPrice == [g \in Goods |-> 10]
\* Orders are interchangeable in Init and Next.
Symmetry == Permutations(MCOrders)
OneRowCart == [k \in {1} |-> [user |-> b1, good |-> g1, number |-> 1]]
=============================================================================
