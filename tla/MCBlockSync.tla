---------------------------- MODULE MCBlockSync ----------------------------
(* BlockSync on a small instance: t1 pays two users, of whom one is        *)
(* credited; t2 names a stranger first, so that EthService drops it and    *)
(* BitcoinService credits u2; t3 used all its gas.  The node may fail to   *)
(* find the details of t2.                                                 *)
EXTENDS BlockSync, TLC

CONSTANTS t1, t2, t3, u1, u2, stranger

MCReceivers ==
  (t1 :> <<u1, u2>>) @@ (t2 :> <<stranger, u2>>) @@ (t3 :> <<u1>>)

\* EthService stays behind the tip (one block here, twelve in the code);
\* UsdtService and BitcoinService follow it and return early when idle.
Ethereum == [confirmations |-> 1, skipsIdle |-> FALSE, readsLogs |-> TRUE]
Bitcoin == [confirmations |-> 0, skipsIdle |-> TRUE, readsLogs |-> FALSE]
MCServices == {Ethereum, Bitcoin}
=============================================================================
