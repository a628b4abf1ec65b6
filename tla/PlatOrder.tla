----------------------------- MODULE PlatOrder ------------------------------
(***************************************************************************)
(* PlatOrderService: a user buys coins from the platform (deposit, type    *)
(* BUY) or sells coins to it (withdraw, type SELL) against a bank          *)
(* transfer made outside the system.                                       *)
(*                                                                         *)
(* Every operation on an existing order is one transaction that starts     *)
(* with lockPlatOrder (SELECT ... FOR UPDATE) and writes the order last,   *)
(* so an operation is one step here; a crash inside it rolls it back and   *)
(* is a stuttering step.  What interleaves is the user, the two admin      *)
(* consoles and repeated requests.  A request the code rejects (Assert)    *)
(* changes nothing and is not a step.  Price, bank card and opening hours  *)
(* decide only whether a request is accepted; they are not modelled.  The  *)
(* expire_time of an order is stored and shown; no operation tests it.     *)
(*                                                                         *)
(* All orders are in one coin: orders in different coins touch different   *)
(* rows of t_user_coin.                                                    *)
(***************************************************************************)
EXTENDS UserCoin, FiniteSets, Functions

CONSTANTS
  Users,
  Orders,      \* the identifiers t_plat_order may hand out
  MaxAmount,   \* bound: the largest amount a request asks for
  InitBalance  \* available balance of every user at the start

ASSUME PlatAssumption == MaxAmount \in Nat /\ InitBalance \in Nat

VARIABLES
  coin,     \* coin[u], the t_user_coin row of u
  order,    \* the table t_plat_order, a function on the inserted ids
  bill      \* bill[o], sum of the t_user_bill rows that name order o

vars == <<coin, order, bill>>

Status == {"ACCEPTED", "PAID", "COMPLAINT", "CANCELED", "DONE"}
Open == {"ACCEPTED", "PAID", "COMPLAINT"}
Row == [status : Status, type : {"BUY", "SELL"}, user : Users,
        amount : 1 .. MaxAmount]
Bill == [available : Int, freeze : Int]
NoBill == [available |-> 0, freeze |-> 0]

TypeOK ==
  /\ coin \in [Users -> Balance]
  /\ DOMAIN order \in SUBSET Orders
  /\ order \in [DOMAIN order -> Row]
  /\ bill \in [Orders -> Bill]

Init ==
  /\ coin = [u \in Users |-> [EmptyRow EXCEPT !.available = InitBalance]]
  /\ order = [o \in {} |-> NoBill]
  /\ bill = [o \in Orders |-> NoBill]

-----------------------------------------------------------------------------
\* changeUserCoin for the owner of order o; the bill text carries the id.
ChangeFor(o, u, dA, dF) ==
  /\ CanChange(coin[u], dA, dF, 0)
  /\ coin' = [coin EXCEPT ![u] = Change(coin[u], dA, dF, 0)]
  /\ bill' = [bill EXCEPT ![o] = [available |-> bill[o].available + dA,
                                  freeze |-> bill[o].freeze + dF]]

\* platOrderMapper.add: both kinds of order start as ACCEPTED.
Insert(o, u, t, a) ==
  /\ o \in Orders \ DOMAIN order
  /\ order' = [x \in DOMAIN order \cup {o} |->
                 IF x = o
                 THEN [status |-> "ACCEPTED", type |-> t, user |-> u,
                       amount |-> a]
                 ELSE order[x]]

SetStatus(o, s) ==
  order' = [order EXCEPT ![o].status = s]

deposit(u, o, a) ==
  /\ a > 0
  /\ Insert(o, u, "BUY", a)
  /\ UNCHANGED <<coin, bill>>

\* A sale that takes the coins at once instead of freezing them.
WithdrawDeducts(u, o, a) ==
  /\ a > 0
  /\ Insert(o, u, "SELL", a)
  /\ ChangeFor(o, u, 0 - a, 0)

withdraw(u, o, a) ==
  /\ a > 0
  /\ Insert(o, u, "SELL", a)
  /\ ChangeFor(o, u, 0 - a, a)

\* The user says the bank transfer is made.  The type is not examined: a
\* seller may call it too.
confirm(u, o) ==
  /\ o \in DOMAIN order
  /\ order[o].status = "ACCEPTED"
  /\ order[o].user = u
  /\ SetStatus(o, "PAID")
  /\ UNCHANGED <<coin, bill>>

\* What cancel and adminCancel do once their status check has passed.
GiveBack(o) ==
  /\ IF order[o].type = "SELL"
     THEN ChangeFor(o, order[o].user, order[o].amount, 0 - order[o].amount)
     ELSE UNCHANGED <<coin, bill>>
  /\ SetStatus(o, "CANCELED")

\* A cancellation that does not look at the type of the order.
CancelAnyType(u, o) ==
  /\ o \in DOMAIN order
  /\ order[o].status = "ACCEPTED"
  /\ order[o].user = u
  /\ ChangeFor(o, order[o].user, order[o].amount, 0 - order[o].amount)
  /\ SetStatus(o, "CANCELED")

cancel(u, o) ==
  /\ o \in DOMAIN order
  /\ order[o].status = "ACCEPTED"
  /\ order[o].user = u
  /\ GiveBack(o)

adminConfirm(o) ==
  /\ o \in DOMAIN order
  /\ \/ /\ order[o].type = "SELL"
        /\ order[o].status \in {"ACCEPTED", "COMPLAINT"}
        /\ ChangeFor(o, order[o].user, 0, 0 - order[o].amount)
     \/ /\ order[o].type = "BUY"
        /\ order[o].status \in {"PAID", "ACCEPTED", "COMPLAINT"}
        /\ ChangeFor(o, order[o].user, order[o].amount, 0)
  /\ SetStatus(o, "DONE")

\* An admin cancellation that forgets that a finished order is finished.
CancelUnlessCanceled(o) ==
  /\ o \in DOMAIN order
  /\ order[o].status # "CANCELED"
  /\ GiveBack(o)

adminCancel(o) ==
  /\ o \in DOMAIN order
  /\ order[o].status \in {"ACCEPTED", "COMPLAINT", "PAID"}
  /\ GiveBack(o)

\* A complaint that is accepted whatever the status.
ComplaintAnyTime(u, o) ==
  /\ o \in DOMAIN order
  /\ order[o].user = u
  /\ order[o].status # "COMPLAINT"
  /\ SetStatus(o, "COMPLAINT")
  /\ UNCHANGED <<coin, bill>>

complaint(u, o) ==
  /\ o \in DOMAIN order
  /\ order[o].status = "PAID"
  /\ order[o].user = u
  /\ SetStatus(o, "COMPLAINT")
  /\ UNCHANGED <<coin, bill>>

UserStep(u, o) ==
  \/ \E a \in 0 .. MaxAmount : deposit(u, o, a) \/ withdraw(u, o, a)
  \/ confirm(u, o)
  \/ cancel(u, o)
  \/ complaint(u, o)

AdminStep(o) == adminConfirm(o) \/ adminCancel(o)

Next ==
  \E o \in Orders :
    \/ \E u \in Users : UserStep(u, o)
    \/ AdminStep(o)

Spec == Init /\ [][Next]_vars

-----------------------------------------------------------------------------
(***************************************************************************)
(* Properties.                                                             *)
(***************************************************************************)

\* What the bills of an order with row r must add up to.
Owed(r) ==
  [available |-> IF r.type = "SELL"
                 THEN IF r.status = "CANCELED" THEN 0 ELSE 0 - r.amount
                 ELSE IF r.status = "DONE" THEN r.amount ELSE 0,
   freeze |-> IF r.type = "SELL" /\ r.status \in Open THEN r.amount ELSE 0]

\* In every interleaving of cancel, adminCancel, adminConfirm and complaint
\* the bills written for an order add up to exactly what its type and
\* status call for: no order is paid out twice, refunded twice, or both.
BillsMatchStatus ==
  /\ \A o \in DOMAIN order : bill[o] = Owed(order[o])
  /\ \A o \in Orders \ DOMAIN order : bill[o] = NoBill

SellsOf(u, S) ==
  {o \in DOMAIN order :
     order[o].type = "SELL" /\ order[o].user = u /\ order[o].status \in S}

BuysOf(u, S) ==
  {o \in DOMAIN order :
     order[o].type = "BUY" /\ order[o].user = u /\ order[o].status \in S}

Total(S) == SumFunctionOnSet([o \in DOMAIN order |-> order[o].amount], S)

\* A user's balances are a function of the orders: the frozen part is the
\* sum of the open sales, so that adminConfirm and both cancellations of an
\* open sale can never fail for lack of frozen coins, and the available
\* part is the start balance, less what sales took, plus what buys brought.
BalancesFollowOrders ==
  \A u \in Users :
    /\ coin[u].freeze = Total(SellsOf(u, Open))
    /\ coin[u].available =
         InitBalance + Total(BuysOf(u, {"DONE"}))
                     - Total(SellsOf(u, Open \cup {"DONE"}))
    /\ coin[u].award = 0

\* A DONE or CANCELED order never changes again, and its bills with it,
\* whatever a user or a second admin console still sends.
ClosedIsFinal ==
  [][\A o \in DOMAIN order :
       order[o].status \notin Open =>
         order'[o] = order[o] /\ bill'[o] = bill[o]]_vars

\* The abstract phase of an order with row r.
PhaseOfRow(r) ==
  IF r.status = "DONE" THEN "settled"
  ELSE IF r.status = "CANCELED" THEN "refunded"
  ELSE IF r.type = "SELL" THEN "held"
  ELSE "idle"

PhaseOf(o) == IF o \in DOMAIN order THEN PhaseOfRow(order[o]) ELSE "idle"

Phases == [o \in Orders |-> PhaseOf(o)]

E == INSTANCE Escrow WITH
       Items <- Orders,
       Amounts <- 1 .. MaxAmount,
       phase <- Phases,
       net <- bill

\* PlatOrderService implements the escrow: a sale is held once and then
\* settled or refunded once, a buy is credited once or refused.
IsEscrow == E!Spec
=============================================================================
