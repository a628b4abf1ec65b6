------------------------------ MODULE SendCoin ------------------------------
(***************************************************************************)
(* SendCoinService: transfers between users (transferInner) and            *)
(* withdrawals to an address on a blockchain (transferOut), which an admin *)
(* rejects (transferCheckFail) or pays (transferCheckPass).                *)
(*                                                                         *)
(* transferInner, transferOut and transferCheckFail touch the database     *)
(* only: one transaction, one step.  transferCheckPass calls a blockchain  *)
(* node in the middle of its transaction, and that call cannot be rolled   *)
(* back, so it is three steps: up to the call, the call itself, and what   *)
(* follows.  In between, the transaction holds the lock on the t_send_coin *)
(* row (SELECT ... FOR UPDATE) and on the t_user_coin rows it has updated; *)
(* an operation that needs one of them waits, so it is not enabled.  The   *)
(* updates themselves become visible at commit.                            *)
(*                                                                         *)
(* The fee is a configured rate times a configured exchange rate, both of  *)
(* which an admin may edit at any time: any fee up to the bound is tried.  *)
(* changeUserCoin returns at once when all its deltas are zero, so the     *)
(* code's "if (fee > 0)" around it needs no IF here.                       *)
(***************************************************************************)
EXTENDS UserCoin, FiniteSets, Functions

CONSTANTS
  Users,
  Coins,
  FeeCoin,      \* Coin.BSTS, in which the withdrawal fee is frozen
  PlatCoin,     \* the configured platform coin, which pays transfer fees
  TokenCoins,   \* coins of category TOKEN
  Records,      \* the identifiers t_send_coin may hand out
  MaxAmount,    \* bound: the largest amount a request asks for
  MaxFee,       \* bound: the largest fee
  InitBalance,  \* available balance of every user in every coin at the start
  MaxCrashes,   \* bound: how often the server process dies
  MaxLost,      \* bound: calls that fail although the node accepted the payment
  MaxPaid       \* bound: payments the chain executes for one record

ASSUME SendAssumption ==
  /\ FeeCoin \in Coins /\ PlatCoin \in Coins /\ TokenCoins \subseteq Coins
  /\ MaxAmount \in Nat /\ MaxFee \in Nat /\ InitBalance \in Nat
  /\ MaxCrashes \in Nat /\ MaxLost \in Nat /\ MaxPaid \in Nat

VARIABLES
  coin,     \* coin[<<u, c>>], the t_user_coin row of u for coin c
  record,   \* the table t_send_coin, a function on the inserted ids
  bill,     \* bill[r], sums of the t_user_bill rows written for record r
  reply,    \* reply[r], where a running transferCheckPass of r stands
  paid,     \* paid[r], how many payments for r the chain has executed
  faults    \* crashes and lost answers so far

vars == <<coin, record, bill, reply, paid, faults>>

Status == {"APPLYING", "PASSED", "FAILED", "OTHER"}
Row == [status : Status, type : {"inner", "out"}, user : Users, coin : Coins,
        amount : 1 .. MaxAmount, fee : 0 .. MaxFee]
Reply == {"none", "waiting", "txid", "timeout", "error"}
Net == [available : Int, freeze : Int]
NoBill == [available |-> 0, freeze |-> 0]

TypeOK ==
  /\ coin \in [Users \X Coins -> Balance]
  /\ DOMAIN record \in SUBSET Records
  /\ record \in [DOMAIN record -> Row]
  /\ bill \in [Records -> [amount : Net, fee : Net]]
  /\ reply \in [Records -> Reply]
  /\ paid \in [Records -> Nat]
  /\ faults \in [crashes : 0 .. MaxCrashes, lost : 0 .. MaxLost]

Init ==
  /\ coin = [k \in Users \X Coins |->
               [EmptyRow EXCEPT !.available = InitBalance]]
  /\ record = [r \in {} |-> NoBill]
  /\ bill = [r \in Records |-> [amount |-> NoBill, fee |-> NoBill]]
  /\ reply = [r \in Records |-> "none"]
  /\ paid = [r \in Records |-> 0]
  /\ faults = [crashes |-> 0, lost |-> 0]

-----------------------------------------------------------------------------
\* The ledger l after changeUserCoin(u, c, dA, dF, 0), and its condition.
Can(l, u, c, dA, dF) == CanChange(l[<<u, c>>], dA, dF, 0)
Post(l, u, c, dA, dF) ==
  [l EXCEPT ![<<u, c>>] = Change(l[<<u, c>>], dA, dF, 0)]

\* Two calls in a row, the fee first; the second sees the first, which
\* matters when the fee is in the coin that is sent.
FeeThenAmount(u, c, feeA, feeF, amtA, amtF) ==
  LET mid == Post(coin, u, FeeCoin, feeA, feeF) IN
  /\ Can(coin, u, FeeCoin, feeA, feeF)
  /\ Can(mid, u, c, amtA, amtF)
  /\ coin' = Post(mid, u, c, amtA, amtF)

Plus(n, dA, dF) == [available |-> n.available + dA, freeze |-> n.freeze + dF]

Booked(r, feeA, feeF, amtA, amtF) ==
  bill' = [bill EXCEPT ![r] = [amount |-> Plus(bill[r].amount, amtA, amtF),
                               fee |-> Plus(bill[r].fee, feeA, feeF)]]

\* sendCoinMapper.add
Insert(r, s, t, u, c, a, f) ==
  /\ r \in Records \ DOMAIN record
  /\ record' = [x \in DOMAIN record \cup {r} |->
                  IF x = r
                  THEN [status |-> s, type |-> t, user |-> u, coin |-> c,
                        amount |-> a, fee |-> f]
                  ELSE record[x]]

updateTransferStatusById(r, s) ==
  record' = [record EXCEPT ![r].status = s]

\* The rows a running transferCheckPass has updated and not yet committed.
RowsOf(r) ==
  {<<record[r].user, record[r].coin>>} \cup
  (IF record[r].fee > 0 THEN {<<record[r].user, FeeCoin>>} ELSE {})

LockedRows == UNION {RowsOf(r) : r \in {x \in DOMAIN record : reply[x] # "none"}}

FeeRow(u, c, f) == IF f > 0 THEN {<<u, c>>} ELSE {}

\* Move amount and fee from one user to another; WalletService.transferInner
\* rejects a transfer to oneself.
transferInner(u, v, c, r, a, f) ==
  /\ u # v
  /\ a > 0
  /\ LockedRows \cap ({<<u, c>>, <<v, c>>} \cup FeeRow(u, PlatCoin, f)) = {}
  /\ LET sent == Post(coin, u, c, 0 - a, 0)
         charged == Post(sent, u, PlatCoin, 0 - f, 0)
     IN  /\ Can(coin, u, c, 0 - a, 0)
         /\ Can(sent, u, PlatCoin, 0 - f, 0)
         /\ coin' = Post(charged, v, c, a, 0)
  /\ Insert(r, "PASSED", "inner", u, c, a, f)
  /\ Booked(r, 0 - f, 0, 0 - a, 0)
  /\ UNCHANGED <<reply, paid, faults>>

\* Freezes the amount only: the fee is forgotten.
OutWithoutFee(u, c, r, a, f) ==
  /\ a > 0
  /\ LockedRows \cap ({<<u, c>>} \cup FeeRow(u, FeeCoin, f)) = {}
  /\ FeeThenAmount(u, c, 0, 0, 0 - a, a)
  /\ Insert(r, "APPLYING", "out", u, c, a, f)
  /\ Booked(r, 0, 0, 0 - a, a)
  /\ UNCHANGED <<reply, paid, faults>>

transferOut(u, c, r, a, f) ==
  /\ a > 0
  /\ LockedRows \cap ({<<u, c>>} \cup FeeRow(u, FeeCoin, f)) = {}
  /\ FeeThenAmount(u, c, 0 - f, f, 0 - a, a)
  /\ Insert(r, "APPLYING", "out", u, c, a, f)
  /\ Booked(r, 0 - f, f, 0 - a, a)
  /\ UNCHANGED <<reply, paid, faults>>

\* Both checks start with lockTransferById and the test of the status.
Applying(r) ==
  /\ r \in DOMAIN record
  /\ reply[r] = "none"
  /\ record[r].status = "APPLYING"
  /\ LockedRows \cap RowsOf(r) = {}

\* A rejection that looks at the row without the lock and the status test.
FailWithoutCheck(r) ==
  /\ r \in DOMAIN record
  /\ record[r].status # "FAILED"
  /\ FeeThenAmount(record[r].user, record[r].coin,
                   record[r].fee, 0 - record[r].fee,
                   record[r].amount, 0 - record[r].amount)
  /\ Booked(r, record[r].fee, 0 - record[r].fee,
            record[r].amount, 0 - record[r].amount)
  /\ updateTransferStatusById(r, "FAILED")
  /\ UNCHANGED <<reply, paid, faults>>

transferCheckFail(r) ==
  /\ Applying(r)
  /\ FeeThenAmount(record[r].user, record[r].coin,
                   record[r].fee, 0 - record[r].fee,
                   record[r].amount, 0 - record[r].amount)
  /\ Booked(r, record[r].fee, 0 - record[r].fee,
            record[r].amount, 0 - record[r].amount)
  /\ updateTransferStatusById(r, "FAILED")
  /\ UNCHANGED <<reply, paid, faults>>

\* The money leaving freeze; the first half of transferCheckPass makes sure
\* that it can, the second half commits it.
Deducted(r) ==
  /\ FeeThenAmount(record[r].user, record[r].coin, 0, 0 - record[r].fee,
                   0, 0 - record[r].amount)
  /\ Booked(r, 0, 0 - record[r].fee, 0, 0 - record[r].amount)

CanDeduct(r) ==
  /\ Can(coin, record[r].user, FeeCoin, 0, 0 - record[r].fee)
  /\ Can(Post(coin, record[r].user, FeeCoin, 0, 0 - record[r].fee),
         record[r].user, record[r].coin, 0, 0 - record[r].amount)

\* A second console starts a payment that is already under way.
PassWithoutLock(r) ==
  /\ r \in DOMAIN record
  /\ record[r].status = "APPLYING"
  /\ reply[r] # "waiting"
  /\ CanDeduct(r)
  /\ reply' = [reply EXCEPT ![r] = "waiting"]
  /\ UNCHANGED <<coin, record, bill, paid, faults>>

transferCheckPass(r) ==
  /\ Applying(r)
  /\ CanDeduct(r)
  /\ reply' = [reply EXCEPT ![r] = "waiting"]
  /\ UNCHANGED <<coin, record, bill, paid, faults>>

\* AdapterService.sendToAddress on the node of the coin.  A call that timed
\* out may or may not have been executed; any other error means it was not,
\* unless only the answer was lost.
sendToAddress(r) ==
  /\ reply[r] = "waiting"
  /\ \E answer \in {"txid", "timeout", "error"}, moved \in {0, 1} :
       /\ paid[r] + moved <= MaxPaid
       /\ answer = "txid" => moved = 1
       /\ IF answer = "error" /\ moved = 1
          THEN /\ faults.lost < MaxLost
               /\ faults' = [faults EXCEPT !.lost = faults.lost + 1]
          ELSE UNCHANGED faults
       /\ reply' = [reply EXCEPT ![r] = answer]
       /\ paid' = [paid EXCEPT ![r] = paid[r] + moved]
  /\ UNCHANGED <<coin, record, bill>>

\* A transaction hash: PASSED.  contractTransferEx turns a timeout into the
\* string "timeout", stored as OTHER; the clients of all other coins throw.
Returns(r) ==
  reply[r] = "txid" \/ (reply[r] = "timeout" /\ record[r].coin \in TokenCoins)

transferCheckPassCommit(r) ==
  /\ Returns(r)
  /\ Deducted(r)
  /\ updateTransferStatusById(r, IF reply[r] = "timeout" THEN "OTHER" ELSE "PASSED")
  /\ reply' = [reply EXCEPT ![r] = "none"]
  /\ UNCHANGED <<paid, faults>>

\* The exception rolls the transaction back: the record is APPLYING again.
transferCheckPassRollback(r) ==
  /\ reply[r] \in {"timeout", "error"}
  /\ ~Returns(r)
  /\ reply' = [reply EXCEPT ![r] = "none"]
  /\ UNCHANGED <<coin, record, bill, paid, faults>>

\* The process dies; the database rolls every open transaction back.
Crash ==
  /\ faults.crashes < MaxCrashes
  /\ faults' = [faults EXCEPT !.crashes = faults.crashes + 1]
  /\ reply' = [r \in Records |-> "none"]
  /\ UNCHANGED <<coin, record, bill, paid>>

UserStep(u, r) ==
  \E c \in Coins, a \in 0 .. MaxAmount, f \in 0 .. MaxFee :
    \/ transferOut(u, c, r, a, f)
    \/ \E v \in Users : transferInner(u, v, c, r, a, f)

AdminStep(r) ==
  \/ transferCheckFail(r)
  \/ transferCheckPass(r)
  \/ sendToAddress(r)
  \/ transferCheckPassCommit(r)
  \/ transferCheckPassRollback(r)

Next ==
  \/ \E r \in Records : AdminStep(r) \/ \E u \in Users : UserStep(u, r)
  \/ Crash

Spec == Init /\ [][Next]_vars

-----------------------------------------------------------------------------
(***************************************************************************)
(* Properties.                                                             *)
(***************************************************************************)

\* What the bills for a sum x of a record with row w must add up to.
Owed(w, x) ==
  [available |-> IF w.status = "FAILED" THEN 0 ELSE 0 - x,
   freeze |-> IF w.status = "APPLYING" THEN x ELSE 0]

\* Whatever the consoles, the node and crashes do, the bills of a record add
\* up to what its status calls for, in the amount and in the fee: an amount
\* is not refunded and paid, and the fee shares the fate of the amount.
BillsMatchStatus ==
  /\ \A r \in DOMAIN record :
       /\ bill[r].amount = Owed(record[r], record[r].amount)
       /\ bill[r].fee = Owed(record[r], record[r].fee)
  /\ \A r \in Records \ DOMAIN record :
       bill[r].amount = NoBill /\ bill[r].fee = NoBill

\* A PASSED withdrawal was paid on chain, even when processes die and
\* answers are lost.  As long as neither happens, the chain pays a token
\* withdrawal at most once and exactly when the record says so: a PASSED one
\* once, an OTHER one at most once, a FAILED or waiting one never, so that
\* nothing is refunded that was paid.  (The clients of the other coins throw
\* on a timeout, and their records are payable and refundable again.)
PaidAsRecorded ==
  /\ \A r \in DOMAIN record :
       record[r].type = "out" /\ record[r].status = "PASSED" => paid[r] >= 1
  /\ faults = [crashes |-> 0, lost |-> 0] =>
       \A r \in DOMAIN record : record[r].coin \in TokenCoins =>
         /\ record[r].status = "PASSED" /\ record[r].type = "out" => paid[r] = 1
         /\ record[r].status = "OTHER" => paid[r] <= 1
         /\ record[r].status = "FAILED" => paid[r] = 0
         /\ record[r].status = "APPLYING" /\ reply[r] \in {"none", "waiting"} =>
              paid[r] = 0

Outs(u, c) ==
  {r \in DOMAIN record : record[r].type = "out" /\ record[r].user = u
                         /\ record[r].coin = c /\ record[r].status = "APPLYING"}
FeeOuts(u) ==
  {r \in DOMAIN record : record[r].type = "out" /\ record[r].user = u
                         /\ record[r].status = "APPLYING"}

Amounts == [r \in DOMAIN record |-> record[r].amount]
Fees == [r \in DOMAIN record |-> record[r].fee]

\* The frozen balance is the sum of what the applying withdrawals wait for,
\* so the check of any of them, in any order, never fails for lack of
\* frozen coins, whichever coin the fee is in.
FreezeBacksRecords ==
  \A u \in Users, c \in Coins :
    coin[<<u, c>>].freeze =
      SumFunctionOnSet(Amounts, Outs(u, c)) +
      (IF c = FeeCoin THEN SumFunctionOnSet(Fees, FeeOuts(u)) ELSE 0)

\* The abstract phase of a record; transfers between users hold nothing and
\* stay outside the escrow.
PhaseOf(r) ==
  IF r \notin DOMAIN record THEN "idle"
  ELSE IF record[r].type = "inner" THEN "idle"
  ELSE IF record[r].status = "APPLYING" THEN "held"
  ELSE IF record[r].status = "FAILED" THEN "refunded"
  ELSE "settled"

Phases == [r \in Records |-> PhaseOf(r)]

OutBills(part) ==
  [r \in Records |-> IF PhaseOf(r) = "idle" THEN NoBill
                     ELSE IF part = "fee" THEN bill[r].fee ELSE bill[r].amount]

A == INSTANCE Escrow WITH
       Items <- Records, Amounts <- 0 .. MaxAmount,
       phase <- Phases, net <- OutBills("amount")

F == INSTANCE Escrow WITH
       Items <- Records, Amounts <- 0 .. MaxFee,
       phase <- Phases, net <- OutBills("fee")

\* Withdrawals implement the escrow, in the amount and in the fee.
IsEscrow == A!Spec /\ F!Spec
=============================================================================
