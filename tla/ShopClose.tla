----------------------------- MODULE ShopClose ------------------------------
(***************************************************************************)
(* MallOrderService.closeOrderByUserId: when a shop is closed its unsent   *)
(* orders are cancelled, the returns under way are confirmed and the sent  *)
(* orders are confirmed as received, while MallOrder's requests go on.     *)
(*                                                                         *)
(* The method calls cancelUnsendOrder, confirmReturnOrder and confirmOrder *)
(* on this object, past the transactional proxy, and no caller opens a     *)
(* transaction.  So what is one writing half in MallOrder is here a        *)
(* statement at a time, each committed by itself (changeUserCoin, on       *)
(* another object, is one transaction), and every exception is caught and  *)
(* the next order taken.  The variable closer is the program counter and   *)
(* the local variables of the method.                                      *)
(***************************************************************************)
EXTENDS MallOrder, FiniteSetsExt

CONSTANT MaxFaults  \* bound: statements that fail, and deaths of the process

ASSUME ShopCloseAssumption == MaxFaults \in Nat

VARIABLES
  closer,   \* the closing under way
  short,    \* short[o], the credits still missing for confirmations of o
  faults,   \* how many faults there were
  overlap   \* whether a closing and a request ever overlapped

closeVars == <<coin, good, cart, order, rept, bills, tx,
               closer, short, faults, overlap>>

NotClosing == [at |-> "none"]

\* The lists the method works through, the handler it calls for each, and the
\* list that follows.
Phase == {"UNSEND", "RETURNING", "SENT"}
Handler == [UNSEND |-> "cancelUnsendOrder", RETURNING |-> "confirmReturnOrder",
            SENT |-> "confirmOrder"]
Following == [UNSEND |-> "RETURNING", RETURNING |-> "SENT"]

Refunding == {"refund", "setStatus", "readStock", "writeStock"}
Confirming == {"take", "pay", "setSuccess", "sales", "rept", "rebate",
               "levelOne", "levelTwo"}

CloseTypeOK ==
  /\ TypeOK
  /\ closer.at \in {"none", "next"} \cup Refunding \cup Confirming
  /\ closer # NotClosing => closer.phase \in Phase /\ closer.todo \subseteq Orders
  /\ short \in [Orders -> [seller : Nat, rebate : Nat, one : Nat, two : Nat]]
  /\ faults \in 0 .. MaxFaults
  /\ overlap \in BOOLEAN

CloseInit ==
  /\ Init
  /\ closer = NotClosing
  /\ short = [o \in Orders |-> [seller |-> 0, rebate |-> 0, one |-> 0, two |-> 0]]
  /\ faults = 0
  /\ overlap = FALSE

-----------------------------------------------------------------------------
\* Returns of unsent orders are not listed.
ListedSentReturns(s, phase) ==
  {o \in DOMAIN order :
     /\ Owner[order[o].good] = s
     /\ IF phase = "RETURNING"
        THEN order[o].status = "SENT" /\ order[o].returned = "RETURNING"
        ELSE order[o].status = phase /\ order[o].returned = "NORMAL"}

\* getAllSellerOrdersByUserIdAndStatus and getReturnSellerOrders.
Listed(s, phase) ==
  {o \in DOMAIN order :
     /\ Owner[order[o].good] = s
     /\ IF phase = "RETURNING" THEN order[o].returned = "RETURNING"
        ELSE order[o].status = phase /\ order[o].returned = "NORMAL"}

closeOrderByUserId(s) ==
  /\ closer = NotClosing
  /\ closer' = [at |-> "next", seller |-> s, phase |-> "UNSEND",
                todo |-> Listed(s, "UNSEND")]
  /\ overlap' = (overlap \/ \E t \in Threads : tx[t] # Idle)
  /\ UNCHANGED <<vars, short, faults>>

\* A list that is used up: the next one is read, or the method returns.
nextList ==
  /\ closer.at = "next" /\ closer.todo = {}
  /\ closer' = IF closer.phase = "SENT" THEN NotClosing
               ELSE [closer EXCEPT
                       !.phase = Following[closer.phase],
                       !.todo = Listed(closer.seller, Following[closer.phase])]
  /\ UNCHANGED <<vars, short, faults, overlap>>

\* The handler of the list reads the order and its good, and either rejects
\* the order, which the loop ignores, or goes on.
takeUp(o) ==
  /\ closer.at = "next" /\ o \in closer.todo
  /\ closer' =
       IF Check(Handler[closer.phase], order[o])
       THEN [at |-> IF closer.phase = "SENT" THEN "take" ELSE "refund",
             seller |-> closer.seller, phase |-> closer.phase,
             todo |-> closer.todo \ {o}, order |-> o, row |-> order[o],
             seen |-> good[order[o].good]]
       ELSE [closer EXCEPT !.todo = closer.todo \ {o}]
  /\ UNCHANGED <<vars, short, faults, overlap>>

Goto(step) == closer' = [closer EXCEPT !.at = step]
Back ==
  closer' = [at |-> "next", seller |-> closer.seller, phase |-> closer.phase,
             todo |-> closer.todo]

\* The changeUserCoin with which a handler begins has no cover and throws; the
\* loop goes on with the next order.
insufficient ==
  /\ \/ closer.at = "refund" /\ ~Can(coin, closer.row.user, closer.row.total,
                                     0 - closer.row.total, 0)
     \/ closer.at = "take" /\ ~Can(coin, closer.row.user, 0, 0, 0 - closer.row.total)
  /\ Back
  /\ UNCHANGED <<vars, short, faults, overlap>>

\* A refund that leaves the frozen balance as it was.
RefundFrozen ==
  /\ closer.at = "refund"
  /\ coin' = Post(coin, closer.row.user, closer.row.total, 0, 0)
  /\ bills' = [bills EXCEPT ![closer.order].refunded = bills[closer.order].refunded + 1]
  /\ Goto("setStatus")
  /\ UNCHANGED <<good, cart, order, rept, tx, short, faults, overlap>>

\* cancelUnsendOrder and confirmReturnOrder, statement by statement.
refund ==
  /\ closer.at = "refund"
  /\ Can(coin, closer.row.user, closer.row.total, 0 - closer.row.total, 0)
  /\ coin' = Post(coin, closer.row.user, closer.row.total, 0 - closer.row.total, 0)
  /\ bills' = [bills EXCEPT ![closer.order].refunded = bills[closer.order].refunded + 1]
  /\ Goto("setStatus")
  /\ UNCHANGED <<good, cart, order, rept, tx, short, faults, overlap>>

\* The status is forgotten.
SetNoStatus ==
  /\ closer.at = "setStatus"
  /\ Goto("readStock")
  /\ UNCHANGED <<vars, short, faults, overlap>>

setStatus ==
  /\ closer.at = "setStatus"
  /\ order' = IF closer.phase = "UNSEND"
              THEN [order EXCEPT ![closer.order].status = "CANCEL"]
              ELSE [order EXCEPT ![closer.order].returned = "RETURNED"]
  /\ Goto("readStock")
  /\ UNCHANGED <<coin, good, cart, rept, bills, tx, short, faults, overlap>>

readStock ==
  /\ closer.at = "readStock"
  /\ closer' = [closer EXCEPT !.at = "writeStock", !.seen = good[closer.row.good]]
  /\ UNCHANGED <<vars, short, faults, overlap>>

\* The stock that was read is written back without the pieces.
WriteStockAsRead ==
  /\ closer.at = "writeStock"
  /\ good' = [good EXCEPT ![closer.row.good].stock = closer.seen.stock]
  /\ Back
  /\ UNCHANGED <<coin, cart, order, rept, bills, tx, short, faults, overlap>>

writeStock ==
  /\ closer.at = "writeStock"
  /\ good' = [good EXCEPT ![closer.row.good].stock =
                closer.seen.stock + closer.row.count]
  /\ Back
  /\ UNCHANGED <<coin, cart, order, rept, bills, tx, short, faults, overlap>>

-----------------------------------------------------------------------------
\* confirmOrder, statement by statement.
take ==
  /\ closer.at = "take"
  /\ Can(coin, closer.row.user, 0, 0, 0 - closer.row.total)
  /\ coin' = Post(coin, closer.row.user, 0, 0, 0 - closer.row.total)
  /\ bills' = [bills EXCEPT ![closer.order].confirmed = bills[closer.order].confirmed + 1]
  /\ short' = [short EXCEPT ![closer.order] =
                 [f \in DOMAIN short[closer.order] |-> short[closer.order][f] + 1]]
  /\ Goto("pay")
  /\ UNCHANGED <<good, cart, order, rept, tx, faults, overlap>>

\* A credit of amount x to u, which settles field f of the order.
Credit(u, x, dW, f) ==
  /\ coin' = Post(coin, u, x, 0, dW)
  /\ short' = [short EXCEPT ![closer.order][f] = short[closer.order][f] - 1]
  /\ UNCHANGED <<good, cart, order, rept, bills, tx, faults, overlap>>

pay ==
  /\ closer.at = "pay"
  /\ Credit(closer.seller, closer.row.total, 0, "seller")
  /\ Goto("setSuccess")

setSuccess ==
  /\ closer.at = "setSuccess"
  /\ order' = [order EXCEPT ![closer.order].status = "SUCCESS"]
  /\ Goto("sales")
  /\ UNCHANGED <<coin, good, cart, rept, bills, tx, short, faults, overlap>>

sales ==
  /\ closer.at = "sales"
  /\ good' = [good EXCEPT ![closer.row.good].sales =
                closer.seen.sales + closer.row.count]
  /\ Goto("rept")
  /\ UNCHANGED <<coin, cart, order, rept, bills, tx, short, faults, overlap>>

addGoodRept ==
  /\ closer.at = "rept"
  /\ rept' = [rept EXCEPT ![closer.seller] = rept[closer.seller] + 1]
  /\ Goto("rebate")
  /\ UNCHANGED <<coin, good, cart, order, bills, tx, short, faults, overlap>>

rebate ==
  /\ closer.at = "rebate"
  /\ Credit(closer.row.user, 0, Percent(closer.row.total, BuyRebate), "rebate")
  /\ Goto("levelOne")

\* The handler ends after the first inviter.
LevelOneOnly ==
  /\ closer.at = "levelOne"
  /\ Credit(InviterOf(closer.row.user), Percent(closer.row.total, OneLevel), 0, "one")
  /\ Back

levelOne ==
  /\ closer.at = "levelOne"
  /\ Credit(InviterOf(closer.row.user), Percent(closer.row.total, OneLevel), 0, "one")
  /\ Goto("levelTwo")

levelTwo ==
  /\ closer.at = "levelTwo"
  /\ Credit(InviterOf(InviterOf(closer.row.user)),
            Percent(closer.row.total, TwoLevel), 0, "two")
  /\ Back

-----------------------------------------------------------------------------
\* A statement throws: the loop logs it and takes the next order.
StatementFails ==
  /\ closer.at \in Refunding \cup Confirming
  /\ faults < MaxFaults
  /\ faults' = faults + 1
  /\ Back
  /\ UNCHANGED <<vars, short, overlap>>

\* The process dies; what was committed stays.
Crash ==
  /\ closer # NotClosing
  /\ faults < MaxFaults
  /\ faults' = faults + 1
  /\ closer' = NotClosing
  /\ tx' = [t \in Threads |-> Idle]
  /\ UNCHANGED <<coin, good, cart, order, rept, bills, short, overlap>>

\* A request of MallOrder, at any time.
Request ==
  /\ Next
  /\ overlap' = (overlap \/ closer # NotClosing)
  /\ UNCHANGED <<closer, short, faults>>

CloseStep ==
  \/ \E s \in Range(Owner) : closeOrderByUserId(s)
  \/ nextList
  \/ \E o \in Orders : takeUp(o)
  \/ insufficient \/ refund \/ setStatus \/ readStock \/ writeStock
  \/ take \/ pay \/ setSuccess \/ sales \/ addGoodRept
  \/ rebate \/ levelOne \/ levelTwo

CloseNext == Request \/ CloseStep \/ StatementFails \/ Crash

CloseSpec == CloseInit /\ [][CloseNext]_closeVars

-----------------------------------------------------------------------------
(***************************************************************************)
(* Properties.                                                             *)
(***************************************************************************)

Clean == faults = 0 /\ ~overlap

\* Requests and closings one after the other and no fault: between closings
\* the stock and the pieces in live orders add up to the initial stock and
\* the sales figure counts the finished orders, although both are stored as
\* absolute values and confirmOrder's figure was read with the order; and
\* every order is booked once, as received or as refunded, whether a client
\* or a closing did it.
ClosingKeepsBooks ==
  Clean /\ closer = NotClosing => StockFollowsOrders /\ BookedOnce

\* The sum over orders S of the credits of rate percent made for field f.
Credited(S, f, rate) ==
  SumFunctionOnSet([o \in DOMAIN order |->
                      (bills[o].confirmed - short[o][f])
                        * Percent(order[o].total, rate)], S)

\* Whatever fails and whatever overlaps, the balances are those of the booked
\* confirmations, less exactly the credits of confirmations cut short: no
\* refund, no retry and no race creates or loses money otherwise.
LedgerFollowsClosings ==
  \A u \in Users :
    /\ coin[u].available + coin[u].freeze =
         InitBalance + Credited(SoldBy(u), "seller", 100)
                     + Credited(InvitedBy(u), "one", OneLevel)
                     + Credited(InvitedByInviteeOf(u), "two", TwoLevel)
    /\ coin[u].award =
         InitAward + Credited(OrdersOf(u), "rebate", BuyRebate)
                   - Confirmed(OrdersOf(u), 100)

\* A fault cuts short one confirmation at most: the buyers charged for goods
\* whose seller or inviters were not credited are no more than the faults,
\* not counting the order in hand.
FaultCutsOneOrder ==
  SumFunctionOnSet([o \in Orders |-> short[o].two], Orders)
    <= faults + (IF closer.at \in Confirming \ {"take"} THEN 1 ELSE 0)

\* A fault makes one booking at most be repeated: as long as no request
\* overlaps a closing, the bookings beyond the first of each order are no
\* more than the faults, however often the shop is closed again.
FaultRepeatsOneBooking ==
  ~overlap =>
    SumFunctionOnSet([o \in Orders |->
                        Max({0, bills[o].confirmed + bills[o].refunded - 1})],
                     Orders) <= faults

\* A closing that met no fault leaves none of the seller's orders open, but
\* for the sent orders of a buyer whose award balance cannot pay for them.
ClosingLeavesNothingOpen ==
  [][closer # NotClosing /\ closer' = NotClosing /\ Clean' =>
       \A o \in DOMAIN order' :
         Owner[order'[o].good] = closer.seller =>
           \/ order'[o].status \in {"SUCCESS", "CANCEL"}
           \/ order'[o].returned = "RETURNED"
           \/ /\ order'[o].status = "SENT"
              /\ coin'[order'[o].user].award < order'[o].total]_closeVars
=============================================================================
