----------------------------- MODULE MCEosSync ------------------------------
\* EosSync on a small instance: two users, two actions, of one transaction or
\* of two, on one page or on two.
EXTENDS EosSync, TLC

CONSTANTS u1, u2, t1, t2, none

MCUsers == {u1, u2}
MCThreads == {t1, t2}
=============================================================================
