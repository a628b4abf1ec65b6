------------------------------ MODULE MallOrder -----------------------------
(***************************************************************************)
(* MallOrderService: orders of the shopping mall.  The buyer's money is    *)
(* frozen when he pays; goods are sent, orders confirmed, returned or      *)
(* cancelled.                                                              *)
(*                                                                         *)
(* Unlike PlatOrderService this service takes no row lock.  A handler      *)
(* reads the order and the good with plain SELECTs, tests what it read,    *)
(* and then writes: the ledger relatively and conditionally, the order     *)
(* status, the stock and the sales figure absolutely and unconditionally.  *)
(* So a handler is two steps of a server thread, the reading half and the  *)
(* writing half, and other threads run in between.  (MySQL under either    *)
(* isolation level the service asks for lets the later absolute write      *)
(* win.)  The writing half is one step: until it commits, other threads    *)
(* read the old values and wait for the rows it has written.               *)
(*                                                                         *)
(* All orders are in one coin.  The handlers do not ask who calls them, so *)
(* callers are not modelled.  Text messages, pictures and reasons are left *)
(* out.                                                                    *)
(***************************************************************************)
EXTENDS UserCoin, FiniteSets, Functions

CONSTANTS
  Users, Goods, Orders, Threads,
  Buyers,       \* bound: the users who pay for something
  Nobody,       \* no inviter
  Owner,        \* Owner[g], the seller of good g
  Invite,       \* Invite[u], the user who invited u, or Nobody
  Price,        \* Price[g]
  BuyRebate, OneLevel, TwoLevel,  \* percentages of the reward configuration
  MaxCount,     \* bound: pieces of a good in one request
  InitStock, InitBalance, InitAward,
  InitCart,     \* the rows of t_mall_cart at the start
  OrderlyClients  \* TRUE: clients offer an operation only where it belongs

ASSUME MallAssumption ==
  /\ Buyers \subseteq Users
  /\ Owner \in [Goods -> Users] /\ Price \in [Goods -> Nat \ {0}]
  /\ Nobody \notin Users /\ Invite \in [Users -> Users \cup {Nobody}]
  /\ BuyRebate \in Nat /\ OneLevel \in Nat /\ TwoLevel \in Nat
  /\ MaxCount \in Nat /\ InitStock \in Nat
  /\ InitBalance \in Nat /\ InitAward \in Nat
  /\ InitCart \in [DOMAIN InitCart ->
                     [user : Users, good : Goods, number : 1 .. MaxCount]]
  /\ OrderlyClients \in BOOLEAN
  /\ IsFiniteSet(Orders) /\ IsFiniteSet(DOMAIN InitCart)

VARIABLES
  coin,   \* coin[u], the t_user_coin row of u
  good,   \* good[g], stock and sales volume in t_mall_good
  cart,   \* the table t_mall_cart
  order,  \* the table t_mall_order
  rept,   \* rept[u], ratings counted in the t_mall_shop row of u
  bills,  \* bills[o], how often order o was booked as received, as refunded
  tx      \* tx[t], what server thread t has read and not yet acted upon

vars == <<coin, good, cart, order, rept, bills, tx>>

Row == [status : {"UNSEND", "SENT", "SUCCESS", "CANCEL"},
        returned : {"NORMAL", "RETURNING", "RETURNED"},
        user : Users, good : Goods, count : 1 .. MaxCount, total : Nat]
OrderOp == {"confirmOrder", "sendOrder", "returnOrder", "confirmReturnOrder",
            "cancelUnsendOrder"}
Idle == [op |-> "none"]

TypeOK ==
  /\ coin \in [Users -> Balance]
  /\ good \in [Goods -> [stock : Nat, sales : Nat]]
  /\ DOMAIN cart \in SUBSET DOMAIN InitCart
  /\ DOMAIN order \in SUBSET Orders
  /\ order \in [DOMAIN order -> Row]
  /\ rept \in [Users -> Nat]
  /\ bills \in [Orders -> [confirmed : Nat, refunded : Nat]]
  /\ \A t \in Threads : tx[t].op \in OrderOp \cup {"none", "payOrder"}

Init ==
  /\ coin = [u \in Users |-> [available |-> InitBalance, freeze |-> 0,
                              award |-> InitAward]]
  /\ good = [g \in Goods |-> [stock |-> InitStock, sales |-> 0]]
  /\ cart = InitCart
  /\ order = [o \in {} |-> Idle]
  /\ rept = [u \in Users |-> 0]
  /\ bills = [o \in Orders |-> [confirmed |-> 0, refunded |-> 0]]
  /\ tx = [t \in Threads |-> Idle]

-----------------------------------------------------------------------------
\* changeUserCoin on ledger l; Nobody gets nothing.
Can(l, u, dA, dF, dW) == CanChange(l[u], dA, dF, dW)
Post(l, u, dA, dF, dW) ==
  IF u = Nobody THEN l ELSE [l EXCEPT ![u] = Change(l[u], dA, dF, dW)]

\* rate percent of x, rounded half up as changeUserCoin does.
Percent(x, rate) == (x * rate + 50) \div 100

InviterOf(u) == IF u = Nobody THEN Nobody ELSE Invite[u]

\* The lines of one payment: a single good, or the chosen cart rows.
OnceLines(g, n) == {[good |-> g, count |-> n, cartId |-> Nobody]}
CartLines(ids) ==
  {[good |-> cart[k].good, count |-> cart[k].number, cartId |-> k] : k \in ids}

CountOf(lines, g) ==
  SumFunctionOnSet([l \in lines |-> l.count], {l \in lines : l.good = g})
TotalOf(lines) ==
  SumFunctionOnSet([l \in lines |-> l.count * Price[l.good]], lines)

\* payOrder up to the stock test.  payOnceOrder reads the stock again for
\* every line and sees its own writes, so a good on several lines is tested
\* against the sum.
PayRead(t, u, lines) ==
  /\ tx[t] = Idle
  /\ \A l \in lines : l.count > 0
  /\ \A g \in Goods : CountOf(lines, g) > 0 => good[g].stock >= CountOf(lines, g)
  /\ tx' = [tx EXCEPT ![t] = [op |-> "payOrder", user |-> u, lines |-> lines,
                              goods |-> good]]
  /\ UNCHANGED <<coin, good, cart, order, rept, bills>>

NewRow(u, l) ==
  [status |-> "UNSEND", returned |-> "NORMAL", user |-> u, good |-> l.good,
   count |-> l.count, total |-> l.count * Price[l.good]]

\* The rest: one order per line, the new stock as computed from the stock
\* that was read, the money frozen, the cart rows deleted.
PayWrite(t) ==
  /\ tx[t].op = "payOrder"
  /\ LET u == tx[t].user
         lines == tx[t].lines
     IN  /\ Can(coin, u, 0 - TotalOf(lines), TotalOf(lines), 0)
         /\ coin' = Post(coin, u, 0 - TotalOf(lines), TotalOf(lines), 0)
         /\ good' = [g \in Goods |->
                       IF CountOf(lines, g) > 0
                       THEN [good[g] EXCEPT !.stock =
                               tx[t].goods[g].stock - CountOf(lines, g)]
                       ELSE good[g]]
         /\ \E id \in [lines -> Orders \ DOMAIN order] :
              /\ IsInjective(id)
              /\ order' = [o \in DOMAIN order \cup Range(id) |->
                             IF o \in DOMAIN order THEN order[o]
                             ELSE NewRow(u, Inverse(id, lines, Range(id))[o])]
         /\ cart' = Restrict(cart, DOMAIN cart \ {l.cartId : l \in lines})
  /\ tx' = [tx EXCEPT ![t] = Idle]
  /\ UNCHANGED <<rept, bills>>

\* ERR_BALANCE_INSUFFICIENT, or a death of the thread: nothing was written.
Rollback(t) ==
  /\ tx[t] # Idle
  /\ tx' = [tx EXCEPT ![t] = Idle]
  /\ UNCHANGED <<coin, good, cart, order, rept, bills>>

-----------------------------------------------------------------------------
NotClosed(r) ==
  r.status \notin {"SUCCESS", "CANCEL"} /\ r.returned # "RETURNED"

\* The Assert.check lines of each handler on the order it has read.
Check(op, r) ==
  CASE op = "confirmOrder" -> NotClosed(r) /\ r.returned = "NORMAL"
    [] op = "sendOrder" -> r.status # "SENT"
    [] op = "returnOrder" -> r.returned # "RETURNING"
    [] op \in {"confirmReturnOrder", "cancelUnsendOrder"} -> NotClosed(r)

\* The lists of the order pages: an order to send is UNSEND and not under
\* return, an order to return is neither finished nor under return, and a
\* return to confirm was requested.
Offered(op, r) ==
  CASE op = "sendOrder" -> r.status = "UNSEND" /\ r.returned = "NORMAL"
    [] op = "returnOrder" -> r.status \in {"UNSEND", "SENT"} /\ r.returned = "NORMAL"
    [] op = "confirmReturnOrder" -> r.returned = "RETURNING"
    [] op \in {"confirmOrder", "cancelUnsendOrder"} -> TRUE

\* The reading half of every handler on an existing order.
Read(t, op, o) ==
  /\ tx[t] = Idle
  /\ o \in DOMAIN order
  /\ Check(op, order[o])
  /\ OrderlyClients => Offered(op, order[o])
  /\ tx' = [tx EXCEPT ![t] = [op |-> op, order |-> o, row |-> order[o],
                              goods |-> good]]
  /\ UNCHANGED <<coin, good, cart, order, rept, bills>>

\* Confirmation that pays the seller and takes nothing from the buyer.
ConfirmFree(t) ==
  /\ tx[t].op = "confirmOrder"
  /\ LET o == tx[t].order
         r == tx[t].row
         seller == Owner[r.good]
         one == InviterOf(r.user)
         paid == Post(coin, seller, r.total, 0, 0)
         rebated == Post(paid, r.user, 0, 0, Percent(r.total, BuyRebate))
         first == Post(rebated, one, Percent(r.total, OneLevel), 0, 0)
     IN  /\ coin' = Post(first, InviterOf(one), Percent(r.total, TwoLevel), 0, 0)
         /\ order' = [order EXCEPT ![o].status = "SUCCESS"]
         /\ good' = [good EXCEPT ![r.good].sales =
                       tx[t].goods[r.good].sales + r.count]
         /\ rept' = [rept EXCEPT ![seller] = rept[seller] + 1]
         /\ bills' = [bills EXCEPT ![o].confirmed = bills[o].confirmed + 1]
  /\ tx' = [tx EXCEPT ![t] = Idle]
  /\ UNCHANGED cart

\* The price leaves the buyer's award balance (the third delta), the seller
\* is paid, and buyer and inviters get their rewards.
confirmOrder(t) ==
  /\ tx[t].op = "confirmOrder"
  /\ LET o == tx[t].order
         r == tx[t].row
         seller == Owner[r.good]
         one == InviterOf(r.user)
         taken == Post(coin, r.user, 0, 0, 0 - r.total)
         paid == Post(taken, seller, r.total, 0, 0)
         rebated == Post(paid, r.user, 0, 0, Percent(r.total, BuyRebate))
         first == Post(rebated, one, Percent(r.total, OneLevel), 0, 0)
     IN  /\ Can(coin, r.user, 0, 0, 0 - r.total)
         /\ coin' = Post(first, InviterOf(one), Percent(r.total, TwoLevel), 0, 0)
         /\ order' = [order EXCEPT ![o].status = "SUCCESS"]
         /\ good' = [good EXCEPT ![r.good].sales =
                       tx[t].goods[r.good].sales + r.count]
         /\ rept' = [rept EXCEPT ![seller] = rept[seller] + 1]
         /\ bills' = [bills EXCEPT ![o].confirmed = bills[o].confirmed + 1]
  /\ tx' = [tx EXCEPT ![t] = Idle]
  /\ UNCHANGED cart

sendOrder(t) ==
  /\ tx[t].op = "sendOrder"
  /\ order' = [order EXCEPT ![tx[t].order].status = "SENT"]
  /\ tx' = [tx EXCEPT ![t] = Idle]
  /\ UNCHANGED <<coin, good, cart, rept, bills>>

returnOrder(t) ==
  /\ tx[t].op = "returnOrder"
  /\ order' = [order EXCEPT ![tx[t].order].returned = "RETURNING"]
  /\ tx' = [tx EXCEPT ![t] = Idle]
  /\ UNCHANGED <<coin, good, cart, rept, bills>>

\* The money comes back from freeze and the pieces go back into stock
\* (editCancelOrderStock, on top of the stock that was read).
GiveBack(t) ==
  LET o == tx[t].order
      r == tx[t].row
  IN  /\ Can(coin, r.user, r.total, 0 - r.total, 0)
      /\ coin' = Post(coin, r.user, r.total, 0 - r.total, 0)
      /\ good' = [good EXCEPT ![r.good].stock =
                    tx[t].goods[r.good].stock + r.count]
      /\ bills' = [bills EXCEPT ![o].refunded = bills[o].refunded + 1]
      /\ tx' = [tx EXCEPT ![t] = Idle]
      /\ UNCHANGED <<cart, rept>>

confirmReturnOrder(t) ==
  /\ tx[t].op = "confirmReturnOrder"
  /\ order' = [order EXCEPT ![tx[t].order].returned = "RETURNED"]
  /\ GiveBack(t)

cancelUnsendOrder(t) ==
  /\ tx[t].op = "cancelUnsendOrder"
  /\ order' = [order EXCEPT ![tx[t].order].status = "CANCEL"]
  /\ GiveBack(t)

Write(t) ==
  \/ PayWrite(t)
  \/ confirmOrder(t)
  \/ sendOrder(t)
  \/ returnOrder(t)
  \/ confirmReturnOrder(t)
  \/ cancelUnsendOrder(t)

\* payOrder takes a cart row by its id, whoever put it there.
Pay(t) ==
  \E u \in Buyers :
    \/ \E g \in Goods, n \in 0 .. MaxCount : PayRead(t, u, OnceLines(g, n))
    \/ \E ids \in SUBSET DOMAIN cart : PayRead(t, u, CartLines(ids))

Next ==
  \E t \in Threads :
    \/ Pay(t)
    \/ \E op \in OrderOp, o \in Orders : Read(t, op, o)
    \/ Write(t)
    \/ Rollback(t)

Spec == Init /\ [][Next]_vars

-----------------------------------------------------------------------------
(***************************************************************************)
(* Properties.                                                             *)
(***************************************************************************)

OrdersOf(u) == {o \in DOMAIN order : order[o].user = u}
SoldBy(u) == {o \in DOMAIN order : Owner[order[o].good] = u}
InvitedBy(u) == {o \in DOMAIN order : InviterOf(order[o].user) = u}
InvitedByInviteeOf(u) ==
  {o \in DOMAIN order : InviterOf(InviterOf(order[o].user)) = u}

\* The sum over orders S of rate percent of the price per confirmation.
Confirmed(S, rate) ==
  SumFunctionOnSet([o \in DOMAIN order |->
                      bills[o].confirmed * Percent(order[o].total, rate)], S)

\* No interleaving of payments, returns and cancellations, not even one that
\* refunds an order twice, creates or loses money: what a user holds is what
\* he started with, plus what confirmed sales and rewards brought him; every
\* confirmation cost its buyer the price in award, less the rebate.
LedgerFollowsConfirmations ==
  \A u \in Users :
    /\ coin[u].available + coin[u].freeze =
         InitBalance + Confirmed(SoldBy(u), 100)
                     + Confirmed(InvitedBy(u), OneLevel)
                     + Confirmed(InvitedByInviteeOf(u), TwoLevel)
    /\ coin[u].award =
         InitAward + Confirmed(OrdersOf(u), BuyRebate)
                   - Confirmed(OrdersOf(u), 100)

Live(r) == r.status # "CANCEL" /\ r.returned # "RETURNED"
Pieces(S) == SumFunctionOnSet([o \in DOMAIN order |-> order[o].count], S)
LiveOrders(g) == {o \in DOMAIN order : order[o].good = g /\ Live(order[o])}
DoneOrders(g) ==
  {o \in DOMAIN order : order[o].good = g /\ order[o].status = "SUCCESS"}

\* One request at a time from clients that offer what belongs: the stock and
\* the pieces in live orders add up to the initial stock, and the sales
\* figure counts the finished orders, although both are stored absolutely.
StockFollowsOrders ==
  \A g \in Goods :
    /\ good[g].stock + Pieces(LiveOrders(g)) = InitStock
    /\ good[g].sales = Pieces(DoneOrders(g))

\* One request at a time from such clients: an order is booked once, as
\* received or as refunded, and its status says which.
BookedOnce ==
  \A o \in DOMAIN order :
    /\ bills[o].confirmed = IF order[o].status = "SUCCESS" THEN 1 ELSE 0
    /\ bills[o].refunded = IF Live(order[o]) THEN 0 ELSE 1

\* The comment in confirmOrder, "deduct the buyer's frozen balance": what is
\* frozen is the price of the orders that are still open.
FreezeBacksOrders ==
  \A u \in Users :
    coin[u].freeze =
      SumFunctionOnSet([o \in DOMAIN order |-> order[o].total],
                       {o \in OrdersOf(u) : Live(order[o])
                                            /\ order[o].status # "SUCCESS"})
=============================================================================
