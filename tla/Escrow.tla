------------------------------- MODULE Escrow -------------------------------
(***************************************************************************)
(* What a service that holds a user's money for a pending request owes the *)
(* ledger.  Each item (an order, a withdrawal) may move its owner's money  *)
(* in one of two ways:                                                     *)
(*                                                                         *)
(*   - money out: the amount is moved from available to freeze when the    *)
(*     request is made, and later either leaves freeze for good (settled)  *)
(*     or returns to available (refunded), once;                           *)
(*   - money in: nothing is held, and the amount is credited once or the   *)
(*     request is refused.                                                 *)
(*                                                                         *)
(* net[i] is the sum of all bills written for item i.  The specification   *)
(* fixes every value that sum may ever take, so an implementation cannot   *)
(* settle twice, refund twice, or refund what was settled.                 *)
(***************************************************************************)
EXTENDS Integers

CONSTANTS
  Items,    \* the requests
  Amounts   \* the amounts a request may be for

VARIABLES
  phase,  \* phase[i], where item i stands
  net     \* net[i], the net effect of item i on its owner's balances

evars == <<phase, net>>

Phase == {"idle", "held", "settled", "refunded"}
Net == [available : Int, freeze : Int]
NoEffect == [available |-> 0, freeze |-> 0]

Init ==
  /\ phase = [i \in Items |-> "idle"]
  /\ net = [i \in Items |-> NoEffect]

Hold(i, a) ==
  /\ phase[i] = "idle"
  /\ phase' = [phase EXCEPT ![i] = "held"]
  /\ net' = [net EXCEPT ![i] = [available |-> 0 - a, freeze |-> a]]

\* The frozen amount leaves the platform; the available part stays spent.
Settle(i) ==
  /\ phase[i] = "held"
  /\ phase' = [phase EXCEPT ![i] = "settled"]
  /\ net' = [net EXCEPT ![i] = [available |-> net[i].available, freeze |-> 0]]

Refund(i) ==
  /\ phase[i] = "held"
  /\ phase' = [phase EXCEPT ![i] = "refunded"]
  /\ net' = [net EXCEPT ![i] = NoEffect]

Credit(i, a) ==
  /\ phase[i] = "idle"
  /\ phase' = [phase EXCEPT ![i] = "settled"]
  /\ net' = [net EXCEPT ![i] = [available |-> a, freeze |-> 0]]

Refuse(i) ==
  /\ phase[i] = "idle"
  /\ phase' = [phase EXCEPT ![i] = "refunded"]
  /\ UNCHANGED net

Next ==
  \E i \in Items :
    \/ \E a \in Amounts : Hold(i, a) \/ Credit(i, a)
    \/ Settle(i)
    \/ Refund(i)
    \/ Refuse(i)

Spec == Init /\ [][Next]_evars
=============================================================================
