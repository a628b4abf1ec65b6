---------------------------- MODULE MCPlatOrder -----------------------------
\* PlatOrder on a small instance: two users and three orders, so that a user
\* can hold a buy and two sales of different amounts at the same time.
EXTENDS PlatOrder

CONSTANTS u1, u2, o1, o2, o3

MCUsers == {u1, u2}
MCOrders == {o1, o2, o3}
=============================================================================
