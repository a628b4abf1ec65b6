---------------------------- MODULE MCMallOrder -----------------------------
\* MallOrder on small instances.  b1 buys from the shop of s, which sells one
\* good; b1 was invited by s, s by nobody.  Prices and rates are such that
\* every percentage is a different whole number.
EXTENDS MallOrder, TLC

CONSTANTS b1, s, g1, o1, o2, t1, t2, none

MCUsers == {b1, s}
OneBuyer == {b1}
OneGood == {g1}
MCOrders == {o1, o2}
OneThread == {t1}
TwoThreads == {t1, t2}
MCOwner == [g \in Goods |-> s]
MCInvite == (b1 :> s) @@ (s :> none)
MCPrice == [g \in Goods |-> 10]
\* Threads and orders are interchangeable in Init and Next.
Symmetry == Permutations(TwoThreads) \cup Permutations(MCOrders)
EmptyCart == [k \in {} |-> none]
OneRowCart == [k \in {1} |-> [user |-> b1, good |-> g1, number |-> 1]]
=============================================================================
