------------------------------ MODULE UserCoin ------------------------------
(***************************************************************************)
(* A row of t_user_coin and what UserCoinService.changeUserCoin does to it. *)
(*                                                                         *)
(* Every service that moves money calls changeUserCoin with three signed   *)
(* deltas.  The mapper issues ONE conditional UPDATE whose WHERE clause    *)
(* tests all three balances against the deltas, so the test and the write  *)
(* cannot be separated by another transaction; when the row count is not 1 *)
(* the service throws ERR_BALANCE_INSUFFICIENT and the caller's            *)
(* transaction rolls back.  A user without a row behaves as one with three *)
(* zero balances: the service inserts that row and repeats the UPDATE.     *)
(*                                                                         *)
(* Amounts are whole numbers of the smallest unit, 10^-8 coin, to which    *)
(* changeUserCoin rounds the deltas it is given.                           *)
(***************************************************************************)
EXTENDS Integers

Balance == [available : Nat, freeze : Nat, award : Nat]

\* The WHERE clause as a plausible slip would leave it: the frozen and the
\* award balance are tested, the available one is not.
ChecksFrozenOnly(b, dA, dF, dW) == b.freeze + dF >= 0 /\ b.award + dW >= 0

\* The WHERE clause without the award balance, which was added last.
ChecksNoAward(b, dA, dF, dW) == b.available + dA >= 0 /\ b.freeze + dF >= 0

\* The WHERE clause of UserCoinMapper.changeUserCoin.
CanChange(b, dA, dF, dW) ==
  /\ b.available + dA >= 0
  /\ b.freeze + dF >= 0
  /\ b.award + dW >= 0

\* Its SET clause.
Change(b, dA, dF, dW) ==
  [available |-> b.available + dA,
   freeze    |-> b.freeze + dF,
   award     |-> b.award + dW]

\* The row that changeUserCoin and addUserCoin insert.
EmptyRow == [available |-> 0, freeze |-> 0, award |-> 0]
=============================================================================
