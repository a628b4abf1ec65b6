---------------------------- MODULE MCSendCoin -----------------------------
\* SendCoin on a small instance: two users and two records, so that two
\* withdrawals of one user compete for his frozen coins and a transfer can
\* meet a withdrawal; two coins, one of which also pays the fees.
EXTENDS SendCoin, TLC

CONSTANTS u1, u2, r1, r2, BSTS, TOK

MCUsers == {u1, u2}
MCRecords == {r1, r2}
MCCoins == {BSTS, TOK}
MCTokens == {TOK}

\* Users, and records, are interchangeable in Init and Next.
Symmetry == Permutations(MCUsers) \cup Permutations(MCRecords)
=============================================================================
