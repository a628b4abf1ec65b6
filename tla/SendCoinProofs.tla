--------------------------- MODULE SendCoinProofs ---------------------------
(***************************************************************************)
(* Proofs about SendCoin for all sets of users, coins and records, every   *)
(* bound on amounts, fees and payments, and any number of crashes and lost *)
(* answers.                                                                *)
(***************************************************************************)
EXTENDS SendCoin, SumTheorems, TLAPS

Ledgers == [Users \X Coins -> Balance]
NoFault == [crashes |-> 0, lost |-> 0]

\* While a transferCheckPass of r is under way the record is a withdrawal
\* that still waits; transfers between users are PASSED from the start.
InFlight(r) ==
  /\ reply[r] # "none" => r \in DOMAIN record /\ record[r].status = "APPLYING"
  /\ r \in DOMAIN record /\ record[r].type = "inner" => record[r].status = "PASSED"

\* The bills of r, as BillsMatchStatus asks.
Billed(r) ==
  /\ r \in DOMAIN record => /\ bill[r].amount = Owed(record[r], record[r].amount)
                            /\ bill[r].fee = Owed(record[r], record[r].fee)
  /\ r \notin DOMAIN record => bill[r].amount = NoBill /\ bill[r].fee = NoBill

\* A transaction hash in hand means a payment, and so does PASSED.
HashIsPayment(r) ==
  /\ r \notin DOMAIN record => paid[r] = 0
  /\ reply[r] = "txid" => paid[r] >= 1
  /\ r \in DOMAIN record /\ record[r].type = "out" /\ record[r].status = "PASSED" =>
       paid[r] >= 1

\* The payments for a token withdrawal as long as nothing has failed.  The
\* answers not yet stored belong to it: this is what makes it inductive.
TokenPaid(r) ==
  faults = NoFault /\ r \in DOMAIN record /\ record[r].coin \in TokenCoins =>
    /\ record[r].status = "PASSED" /\ record[r].type = "out" => paid[r] = 1
    /\ record[r].status = "OTHER" => paid[r] <= 1
    /\ record[r].status = "FAILED" => paid[r] = 0
    /\ record[r].status = "APPLYING" =>
         /\ reply[r] \in {"none", "waiting", "error"} => paid[r] = 0
         /\ reply[r] = "txid" => paid[r] = 1
         /\ reply[r] = "timeout" => paid[r] <= 1

RecordInv(r) == InFlight(r) /\ Billed(r) /\ HashIsPayment(r) /\ TokenPaid(r)

\* The inductive invariant.
Inv == TypeOK /\ \A r \in Records : RecordInv(r)

-----------------------------------------------------------------------------
(***************************************************************************)
(* What the helpers do.                                                    *)
(***************************************************************************)

\* One changeUserCoin leaves non-negative balances behind.
LEMMA PostType ==
  ASSUME NEW l \in Ledgers, NEW u \in Users, NEW c \in Coins,
         NEW dA \in Int, NEW dF \in Int, Can(l, u, c, dA, dF)
  PROVE  Post(l, u, c, dA, dF) \in Ledgers
<1>1. l[<<u, c>>] \in Balance
  BY DEF Ledgers
<1>2. Change(l[<<u, c>>], dA, dF, 0) \in Balance
  BY <1>1 DEF Balance, Can, CanChange, Change
<1>. QED BY <1>2 DEF Ledgers, Post

\* So do the two calls in a row, also when both are for one row.
LEMMA FeeThenAmountType ==
  ASSUME TypeOK, NEW u \in Users, NEW c \in Coins,
         NEW feeA \in Int, NEW feeF \in Int, NEW amtA \in Int, NEW amtF \in Int,
         FeeThenAmount(u, c, feeA, feeF, amtA, amtF)
  PROVE  coin' \in Ledgers
<1>. DEFINE mid == Post(coin, u, FeeCoin, feeA, feeF)
<1>1. coin \in Ledgers /\ FeeCoin \in Coins
  BY SendAssumption DEF TypeOK, Ledgers
<1>2. /\ Can(coin, u, FeeCoin, feeA, feeF)
      /\ Can(mid, u, c, amtA, amtF)
      /\ coin' = Post(mid, u, c, amtA, amtF)
  BY DEF FeeThenAmount
<1>3. mid \in Ledgers
  BY <1>1, <1>2, PostType
<1>. HIDE DEF mid
<1>. QED BY <1>2, <1>3, PostType

\* The sums of the bills after the bills of one step.
LEMMA BookedBills ==
  ASSUME TypeOK, NEW r \in Records,
         NEW feeA \in Int, NEW feeF \in Int, NEW amtA \in Int, NEW amtF \in Int,
         Booked(r, feeA, feeF, amtA, amtF)
  PROVE  /\ bill' \in [Records -> [amount : Net, fee : Net]]
         /\ bill'[r].amount = Plus(bill[r].amount, amtA, amtF)
         /\ bill'[r].fee = Plus(bill[r].fee, feeA, feeF)
         /\ \A x \in Records : x # r => bill'[x] = bill[x]
<1>1. bill[r].amount \in Net /\ bill[r].fee \in Net
  BY DEF TypeOK
<1>2. Plus(bill[r].amount, amtA, amtF) \in Net /\ Plus(bill[r].fee, feeA, feeF) \in Net
  BY <1>1 DEF Net, Plus
<1>. QED BY <1>2 DEF TypeOK, Booked

\* An insertion adds one row and leaves the others alone.
LEMMA InsertRow ==
  ASSUME TypeOK, NEW r, NEW s \in Status, NEW t \in {"inner", "out"},
         NEW u \in Users, NEW c \in Coins, NEW a \in 1 .. MaxAmount,
         NEW f \in 0 .. MaxFee, Insert(r, s, t, u, c, a, f)
  PROVE  /\ r \in Records \ DOMAIN record
         /\ DOMAIN record' = DOMAIN record \cup {r}
         /\ record' \in [DOMAIN record' -> Row]
         /\ record'[r] = [status |-> s, type |-> t, user |-> u, coin |-> c,
                          amount |-> a, fee |-> f]
         /\ \A x \in DOMAIN record : record'[x] = record[x]
BY DEF TypeOK, Insert, Row

\* A status update touches the status of one row.
LEMMA StatusRow ==
  ASSUME TypeOK, NEW r \in DOMAIN record, NEW s \in Status,
         updateTransferStatusById(r, s)
  PROVE  /\ DOMAIN record' = DOMAIN record
         /\ record' \in [DOMAIN record' -> Row]
         /\ record'[r].status = s
         /\ record'[r].type = record[r].type
         /\ record'[r].coin = record[r].coin
         /\ record'[r].amount = record[r].amount
         /\ record'[r].fee = record[r].fee
         /\ \A x \in DOMAIN record : x # r => record'[x] = record[x]
<1>1. record[r] \in Row
  BY DEF TypeOK
<1>2. [record[r] EXCEPT !.status = s] \in Row
  BY <1>1 DEF Row
<1>3. record' = [record EXCEPT ![r] = [record[r] EXCEPT !.status = s]]
  BY DEF updateTransferStatusById
<1>. QED BY <1>1, <1>2, <1>3 DEF TypeOK, Row

\* The fields of a row, as the provers need them.
LEMMA RowFields ==
  ASSUME TypeOK, NEW r \in DOMAIN record
  PROVE  /\ r \in Records
         /\ record[r].user \in Users /\ record[r].coin \in Coins
         /\ record[r].amount \in Int /\ record[r].fee \in Int
         /\ record[r].amount \in 0 .. MaxAmount /\ record[r].fee \in 0 .. MaxFee
         /\ 0 - record[r].amount \in Int /\ 0 - record[r].fee \in Int
         /\ record[r].status \in Status /\ record[r].type \in {"inner", "out"}
<1>1. record[r] \in Row
  BY DEF TypeOK
<1>. QED BY <1>1, SendAssumption DEF Row, TypeOK

\* If a step leaves all records but r alone, and does not undo a fault, the
\* invariant after it is a statement about r.
LEMMA OneRecord ==
  ASSUME Inv, NEW r \in Records, TypeOK', RecordInv(r)',
         DOMAIN record \subseteq DOMAIN record',
         DOMAIN record' \subseteq DOMAIN record \cup {r},
         \A x \in DOMAIN record : x # r => record'[x] = record[x],
         \A x \in Records : x # r =>
           bill'[x] = bill[x] /\ reply'[x] = reply[x] /\ paid'[x] = paid[x],
         faults' = NoFault => faults = NoFault
  PROVE  Inv'
<1>1. ASSUME NEW x \in Records, x # r
      PROVE  RecordInv(x)'
  <2>1. RecordInv(x)
    BY DEF Inv
  <2>2. (x \in DOMAIN record') = (x \in DOMAIN record)
    BY <1>1
  <2>3. x \in DOMAIN record => record'[x] = record[x]
    BY <1>1
  <2>4. bill'[x] = bill[x] /\ reply'[x] = reply[x] /\ paid'[x] = paid[x]
    BY <1>1
  <2>5. InFlight(x)'
    BY <2>1, <2>2, <2>3, <2>4 DEF RecordInv, InFlight
  <2>6. Billed(x)'
    BY <2>1, <2>2, <2>3, <2>4 DEF RecordInv, Billed
  <2>7. HashIsPayment(x)'
    BY <2>1, <2>2, <2>3, <2>4 DEF RecordInv, HashIsPayment
  <2>8. TokenPaid(x)'
    BY <2>1, <2>2, <2>3, <2>4 DEF RecordInv, TokenPaid
  <2>. QED BY <2>5, <2>6, <2>7, <2>8 DEF RecordInv
<1>. QED BY <1>1 DEF Inv

LEMMA InitInv == Init => Inv
<1>. SUFFICES ASSUME Init PROVE Inv
  OBVIOUS
<1>1. EmptyRow \in Balance /\ [EmptyRow EXCEPT !.available = InitBalance] \in Balance
  BY SendAssumption DEF EmptyRow, Balance
<1>2. DOMAIN record = {} /\ record \in [{} -> Row]
  BY DEF Init
<1>3. NoBill \in Net
  BY DEF NoBill, Net
<1>4. TypeOK
  BY <1>1, <1>2, <1>3, SendAssumption DEF Init, TypeOK, Reply
<1>5. \A r \in Records : RecordInv(r)
  BY <1>2 DEF Init, RecordInv, InFlight, Billed, HashIsPayment, TokenPaid
<1>. QED BY <1>4, <1>5 DEF Inv

-----------------------------------------------------------------------------
(***************************************************************************)
(* One lemma per operation: it keeps the invariant.                        *)
(***************************************************************************)

\* The record that a withdrawal or a transfer inserts was unknown: no bills,
\* no payment, no check under way.
LEMMA FreshRecord ==
  ASSUME Inv, NEW r \in Records \ DOMAIN record
  PROVE  /\ bill[r].amount = NoBill /\ bill[r].fee = NoBill
         /\ reply[r] = "none" /\ paid[r] = 0
BY DEF Inv, RecordInv, InFlight, Billed, HashIsPayment

LEMMA TransferInnerInv ==
  ASSUME Inv, NEW u \in Users, NEW v \in Users, NEW c \in Coins, NEW r \in Records,
         NEW a \in 0 .. MaxAmount, NEW f \in 0 .. MaxFee,
         transferInner(u, v, c, r, a, f)
  PROVE  Inv'
<1>. DEFINE sent == Post(coin, u, c, 0 - a, 0)
            charged == Post(sent, u, PlatCoin, 0 - f, 0)
<1>1. /\ a \in 1 .. MaxAmount /\ a \in Int /\ f \in Int
      /\ 0 - a \in Int /\ 0 - f \in Int /\ 0 \in Int
  BY SendAssumption DEF transferInner
<1>2. coin' \in Ledgers
  <2>1. /\ Can(coin, u, c, 0 - a, 0)
        /\ Can(sent, u, PlatCoin, 0 - f, 0)
        /\ coin' = Post(charged, v, c, a, 0)
    BY DEF transferInner
  <2>2. coin \in Ledgers /\ PlatCoin \in Coins
    BY SendAssumption DEF Inv, TypeOK, Ledgers
  <2>3. sent \in Ledgers
    BY <1>1, <2>1, <2>2, PostType
  <2>4. charged \in Ledgers
    <3>. HIDE DEF sent
    <3>. QED BY <1>1, <2>1, <2>2, <2>3, PostType
  <2>. HIDE DEF sent, charged
  <2>5. charged[<<v, c>>] \in Balance
    BY <2>4 DEF Ledgers
  <2>6. Can(charged, v, c, a, 0)
    BY <1>1, <2>5 DEF Can, CanChange, Balance
  <2>. QED BY <1>1, <2>1, <2>4, <2>6, PostType
<1>3. Insert(r, "PASSED", "inner", u, c, a, f) /\ Booked(r, 0 - f, 0, 0 - a, 0)
  BY DEF transferInner
<1>4. /\ r \in Records \ DOMAIN record
      /\ DOMAIN record' = DOMAIN record \cup {r}
      /\ record' \in [DOMAIN record' -> Row]
      /\ record'[r] = [status |-> "PASSED", type |-> "inner", user |-> u,
                       coin |-> c, amount |-> a, fee |-> f]
      /\ \A x \in DOMAIN record : record'[x] = record[x]
  BY <1>1, <1>3, InsertRow DEF Inv, Status
<1>5. /\ bill' \in [Records -> [amount : Net, fee : Net]]
      /\ bill'[r].amount = Plus(bill[r].amount, 0 - a, 0)
      /\ bill'[r].fee = Plus(bill[r].fee, 0 - f, 0)
      /\ \A x \in Records : x # r => bill'[x] = bill[x]
  BY <1>1, <1>3, BookedBills DEF Inv
<1>6. UNCHANGED <<reply, paid, faults>>
  BY DEF transferInner
<1>7. TypeOK'
  BY <1>2, <1>4, <1>5, <1>6 DEF Inv, TypeOK, Ledgers
<1>8. RecordInv(r)'
  <2>1. /\ bill[r].amount = NoBill /\ bill[r].fee = NoBill
        /\ reply'[r] = "none" /\ paid'[r] = 0
    BY <1>4, <1>6, FreshRecord
  <2>2. Plus(bill[r].amount, 0 - a, 0) = Owed(record'[r], a)
    BY <1>1, <1>4, <2>1 DEF Plus, NoBill, Owed
  <2>3. Plus(bill[r].fee, 0 - f, 0) = Owed(record'[r], f)
    BY <1>1, <1>4, <2>1 DEF Plus, NoBill, Owed
  <2>4. Billed(r)'
    BY <1>4, <1>5, <2>2, <2>3 DEF Billed
  <2>5. InFlight(r)' /\ HashIsPayment(r)' /\ TokenPaid(r)'
    BY <1>4, <2>1 DEF InFlight, HashIsPayment, TokenPaid
  <2>. QED BY <2>4, <2>5 DEF RecordInv
<1>. QED BY <1>4, <1>5, <1>6, <1>7, <1>8, OneRecord DEF Inv, TypeOK

LEMMA TransferOutInv ==
  ASSUME Inv, NEW u \in Users, NEW c \in Coins, NEW r \in Records,
         NEW a \in 0 .. MaxAmount, NEW f \in 0 .. MaxFee,
         transferOut(u, c, r, a, f)
  PROVE  Inv'
<1>1. /\ a \in 1 .. MaxAmount /\ a \in Int /\ f \in Int
      /\ 0 - a \in Int /\ 0 - f \in Int
  BY SendAssumption DEF transferOut
<1>2. /\ FeeThenAmount(u, c, 0 - f, f, 0 - a, a)
      /\ Insert(r, "APPLYING", "out", u, c, a, f)
      /\ Booked(r, 0 - f, f, 0 - a, a)
      /\ UNCHANGED <<reply, paid, faults>>
  BY DEF transferOut
<1>3. coin' \in Ledgers
  BY <1>1, <1>2, FeeThenAmountType DEF Inv
<1>4. /\ r \in Records \ DOMAIN record
      /\ DOMAIN record' = DOMAIN record \cup {r}
      /\ record' \in [DOMAIN record' -> Row]
      /\ record'[r] = [status |-> "APPLYING", type |-> "out", user |-> u,
                       coin |-> c, amount |-> a, fee |-> f]
      /\ \A x \in DOMAIN record : record'[x] = record[x]
  BY <1>1, <1>2, InsertRow DEF Inv, Status
<1>5. /\ bill' \in [Records -> [amount : Net, fee : Net]]
      /\ bill'[r].amount = Plus(bill[r].amount, 0 - a, a)
      /\ bill'[r].fee = Plus(bill[r].fee, 0 - f, f)
      /\ \A x \in Records : x # r => bill'[x] = bill[x]
  BY <1>1, <1>2, BookedBills DEF Inv
<1>6. TypeOK'
  BY <1>2, <1>3, <1>4, <1>5 DEF Inv, TypeOK, Ledgers
<1>7. RecordInv(r)'
  <2>1. /\ bill[r].amount = NoBill /\ bill[r].fee = NoBill
        /\ reply'[r] = "none" /\ paid'[r] = 0
    BY <1>2, <1>4, FreshRecord
  <2>2. Plus(bill[r].amount, 0 - a, a) = Owed(record'[r], a)
    BY <1>1, <1>4, <2>1 DEF Plus, NoBill, Owed
  <2>3. Plus(bill[r].fee, 0 - f, f) = Owed(record'[r], f)
    BY <1>1, <1>4, <2>1 DEF Plus, NoBill, Owed
  <2>4. Billed(r)'
    BY <1>4, <1>5, <2>2, <2>3 DEF Billed
  <2>5. InFlight(r)' /\ HashIsPayment(r)' /\ TokenPaid(r)'
    BY <1>4, <2>1 DEF InFlight, HashIsPayment, TokenPaid
  <2>. QED BY <2>4, <2>5 DEF RecordInv
<1>. QED BY <1>2, <1>4, <1>5, <1>6, <1>7, OneRecord DEF Inv, TypeOK

LEMMA CheckFailInv ==
  ASSUME Inv, NEW r \in Records, transferCheckFail(r)
  PROVE  Inv'
<1>. DEFINE w == record[r]
<1>1. /\ r \in DOMAIN record /\ reply[r] = "none" /\ w.status = "APPLYING"
      /\ FeeThenAmount(w.user, w.coin, w.fee, 0 - w.fee, w.amount, 0 - w.amount)
      /\ Booked(r, w.fee, 0 - w.fee, w.amount, 0 - w.amount)
      /\ updateTransferStatusById(r, "FAILED")
      /\ UNCHANGED <<reply, paid, faults>>
  BY DEF transferCheckFail, Applying
<1>2. /\ w.user \in Users /\ w.coin \in Coins
      /\ w.amount \in Int /\ w.fee \in Int
      /\ 0 - w.amount \in Int /\ 0 - w.fee \in Int
  BY <1>1, RowFields DEF Inv
<1>3. coin' \in Ledgers
  <2>. HIDE DEF w
  <2>. QED BY <1>1, <1>2, FeeThenAmountType DEF Inv
<1>4. /\ DOMAIN record' = DOMAIN record
      /\ record' \in [DOMAIN record' -> Row]
      /\ record'[r].status = "FAILED"
      /\ record'[r].type = w.type
      /\ record'[r].coin = w.coin
      /\ record'[r].amount = w.amount
      /\ record'[r].fee = w.fee
      /\ \A x \in DOMAIN record : x # r => record'[x] = record[x]
  BY <1>1, StatusRow DEF Inv, Status
<1>5. /\ bill' \in [Records -> [amount : Net, fee : Net]]
      /\ bill'[r].amount = Plus(bill[r].amount, w.amount, 0 - w.amount)
      /\ bill'[r].fee = Plus(bill[r].fee, w.fee, 0 - w.fee)
      /\ \A x \in Records : x # r => bill'[x] = bill[x]
  BY <1>1, <1>2, BookedBills DEF Inv
<1>6. TypeOK'
  BY <1>1, <1>3, <1>4, <1>5 DEF Inv, TypeOK, Ledgers
<1>7. RecordInv(r)'
  <2>1. RecordInv(r)
    BY DEF Inv
  <2>2. /\ bill[r].amount = [available |-> 0 - w.amount, freeze |-> w.amount]
        /\ bill[r].fee = [available |-> 0 - w.fee, freeze |-> w.fee]
    BY <1>1, <2>1 DEF RecordInv, Billed, Owed
  <2>3. Plus(bill[r].amount, w.amount, 0 - w.amount) = Owed(record'[r], w.amount)
    BY <1>2, <1>4, <2>2 DEF Plus, Owed
  <2>4. Plus(bill[r].fee, w.fee, 0 - w.fee) = Owed(record'[r], w.fee)
    BY <1>2, <1>4, <2>2 DEF Plus, Owed
  <2>5. Billed(r)'
    BY <1>1, <1>4, <1>5, <2>3, <2>4 DEF Billed
  <2>6. InFlight(r)' /\ HashIsPayment(r)' /\ TokenPaid(r)'
    BY <1>1, <1>4, <2>1 DEF RecordInv, InFlight, HashIsPayment, TokenPaid
  <2>. QED BY <2>5, <2>6 DEF RecordInv
<1>. QED BY <1>1, <1>4, <1>5, <1>6, <1>7, OneRecord

\* A step that only moves the check of r on leaves rows and bills as they are.
LEMMA ReplyStepInv ==
  ASSUME Inv, NEW r \in Records, NEW a \in Reply,
         reply' = [reply EXCEPT ![r] = a],
         UNCHANGED <<coin, record, bill, paid, faults>>,
         InFlight(r)', HashIsPayment(r)', TokenPaid(r)'
  PROVE  Inv'
<1>1. TypeOK'
  BY DEF Inv, TypeOK
<1>2. Billed(r)'
  BY DEF Inv, RecordInv, Billed
<1>3. RecordInv(r)'
  BY <1>2 DEF RecordInv
<1>. QED BY <1>1, <1>3, OneRecord DEF Inv, TypeOK

LEMMA CheckPassInv ==
  ASSUME Inv, NEW r \in Records, transferCheckPass(r)
  PROVE  Inv'
<1>1. /\ r \in DOMAIN record /\ reply[r] = "none" /\ record[r].status = "APPLYING"
      /\ reply' = [reply EXCEPT ![r] = "waiting"]
      /\ UNCHANGED <<coin, record, bill, paid, faults>>
  BY DEF transferCheckPass, Applying
<1>2. RecordInv(r) /\ reply'[r] = "waiting"
  BY <1>1 DEF Inv, TypeOK
<1>3. InFlight(r)' /\ HashIsPayment(r)' /\ TokenPaid(r)'
  BY <1>1, <1>2 DEF RecordInv, InFlight, HashIsPayment, TokenPaid
<1>. QED BY <1>1, <1>3, ReplyStepInv DEF Reply

\* The exception is followed by a rollback only if the coin is no token or
\* nothing was paid.
LEMMA RollbackInv ==
  ASSUME Inv, NEW r \in Records, transferCheckPassRollback(r)
  PROVE  Inv'
<1>1. /\ reply[r] \in {"timeout", "error"}
      /\ reply[r] = "timeout" => record[r].coin \notin TokenCoins
      /\ reply' = [reply EXCEPT ![r] = "none"]
      /\ UNCHANGED <<coin, record, bill, paid, faults>>
  BY DEF transferCheckPassRollback, Returns
<1>2. RecordInv(r) /\ reply'[r] = "none"
  BY <1>1 DEF Inv, TypeOK
<1>3. InFlight(r)' /\ HashIsPayment(r)' /\ TokenPaid(r)'
  BY <1>1, <1>2 DEF RecordInv, InFlight, HashIsPayment, TokenPaid
<1>. QED BY <1>1, <1>3, ReplyStepInv DEF Reply

\* The node's answer, true or lost.
LEMMA SendToAddressInv ==
  ASSUME Inv, NEW r \in Records, sendToAddress(r)
  PROVE  Inv'
<1>1. PICK answer \in {"txid", "timeout", "error"}, moved \in {0, 1} :
        /\ answer = "txid" => moved = 1
        /\ IF answer = "error" /\ moved = 1
           THEN /\ faults.lost < MaxLost
                /\ faults' = [faults EXCEPT !.lost = faults.lost + 1]
           ELSE UNCHANGED faults
        /\ reply' = [reply EXCEPT ![r] = answer]
        /\ paid' = [paid EXCEPT ![r] = paid[r] + moved]
  BY DEF sendToAddress
<1>2. reply[r] = "waiting" /\ UNCHANGED <<coin, record, bill>>
  BY DEF sendToAddress
<1>3. faults \in [crashes : 0 .. MaxCrashes, lost : 0 .. MaxLost]
  BY DEF Inv, TypeOK
<1>4. /\ faults' \in [crashes : 0 .. MaxCrashes, lost : 0 .. MaxLost]
      /\ faults' = NoFault => faults = NoFault /\ ~(answer = "error" /\ moved = 1)
  <2>1. CASE answer = "error" /\ moved = 1
    <3>1. /\ faults.lost < MaxLost
          /\ faults' = [faults EXCEPT !.lost = faults.lost + 1]
      BY <1>1, <2>1
    <3>2. faults'.lost = faults.lost + 1 /\ faults.lost \in 0 .. MaxLost
      BY <1>3, <3>1
    <3>3. faults'.lost # 0
      BY <3>2, SendAssumption
    <3>. QED BY <1>3, <3>1, <3>2, <3>3, SendAssumption DEF NoFault
  <2>2. CASE ~(answer = "error" /\ moved = 1)
    BY <1>1, <1>3, <2>2
  <2>. QED BY <2>1, <2>2
<1>5. paid[r] \in Nat /\ paid'[r] = paid[r] + moved /\ reply'[r] = answer
  BY <1>1 DEF Inv, TypeOK
<1>6. TypeOK'
  BY <1>1, <1>2, <1>4, <1>5 DEF Inv, TypeOK, Reply
<1>7. RecordInv(r)
  BY DEF Inv
<1>8. InFlight(r)' /\ Billed(r)'
  BY <1>2, <1>7 DEF RecordInv, InFlight, Billed
<1>9. HashIsPayment(r)'
  BY <1>1, <1>2, <1>5, <1>7 DEF RecordInv, InFlight, HashIsPayment
<1>10. TokenPaid(r)'
  BY <1>1, <1>2, <1>4, <1>5, <1>7 DEF RecordInv, InFlight, TokenPaid
<1>11. RecordInv(r)'
  BY <1>8, <1>9, <1>10 DEF RecordInv
<1>12. \A x \in Records : x # r =>
         bill'[x] = bill[x] /\ reply'[x] = reply[x] /\ paid'[x] = paid[x]
  BY <1>1, <1>2 DEF Inv, TypeOK
<1>. QED BY <1>2, <1>4, <1>6, <1>11, <1>12, OneRecord

\* The answer is stored together with the deduction.
LEMMA CommitInv ==
  ASSUME Inv, NEW r \in Records, transferCheckPassCommit(r)
  PROVE  Inv'
<1>. DEFINE w == record[r]
            s == IF reply[r] = "timeout" THEN "OTHER" ELSE "PASSED"
<1>1. /\ reply[r] = "txid" \/ (reply[r] = "timeout" /\ w.coin \in TokenCoins)
      /\ FeeThenAmount(w.user, w.coin, 0, 0 - w.fee, 0, 0 - w.amount)
      /\ Booked(r, 0, 0 - w.fee, 0, 0 - w.amount)
      /\ updateTransferStatusById(r, s)
      /\ reply' = [reply EXCEPT ![r] = "none"]
      /\ UNCHANGED <<paid, faults>>
  BY DEF transferCheckPassCommit, Returns, Deducted
<1>2. RecordInv(r)
  BY DEF Inv
<1>3. r \in DOMAIN record /\ w.status = "APPLYING" /\ w.type # "inner"
  BY <1>1, <1>2 DEF RecordInv, InFlight
<1>4. /\ w.user \in Users /\ w.coin \in Coins
      /\ w.amount \in Int /\ w.fee \in Int
      /\ 0 - w.amount \in Int /\ 0 - w.fee \in Int
  BY <1>3, RowFields DEF Inv
<1>5. coin' \in Ledgers
  <2>. HIDE DEF w
  <2>. QED BY <1>1, <1>4, FeeThenAmountType DEF Inv
<1>6. /\ DOMAIN record' = DOMAIN record
      /\ record' \in [DOMAIN record' -> Row]
      /\ record'[r].status = s
      /\ record'[r].type = w.type
      /\ record'[r].coin = w.coin
      /\ record'[r].amount = w.amount
      /\ record'[r].fee = w.fee
      /\ \A x \in DOMAIN record : x # r => record'[x] = record[x]
  <2>1. s \in Status
    BY DEF Status
  <2>. HIDE DEF s, w
  <2>2. updateTransferStatusById(r, s)
    BY <1>1
  <2>. QED BY <1>3, <2>1, <2>2, StatusRow DEF Inv, w
<1>7. /\ bill' \in [Records -> [amount : Net, fee : Net]]
      /\ bill'[r].amount = Plus(bill[r].amount, 0, 0 - w.amount)
      /\ bill'[r].fee = Plus(bill[r].fee, 0, 0 - w.fee)
      /\ \A x \in Records : x # r => bill'[x] = bill[x]
  <2>1. TypeOK /\ 0 \in Int /\ Booked(r, 0, 0 - w.fee, 0, 0 - w.amount)
    BY <1>1 DEF Inv
  <2>. HIDE DEF w
  <2>. QED BY ONLY <1>4, <2>1, BookedBills, Zenon
<1>8. reply' \in [Records -> Reply] /\ reply'[r] = "none"
  BY <1>1 DEF Inv, TypeOK, Reply
<1>9. TypeOK'
  BY <1>1, <1>5, <1>6, <1>7, <1>8 DEF Inv, TypeOK, Ledgers
<1>10. RecordInv(r)'
  <2>1. /\ bill[r].amount = [available |-> 0 - w.amount, freeze |-> w.amount]
        /\ bill[r].fee = [available |-> 0 - w.fee, freeze |-> w.fee]
    BY <1>2, <1>3 DEF RecordInv, Billed, Owed
  <2>2. record'[r].status # "FAILED" /\ record'[r].status # "APPLYING"
    BY <1>6
  <2>3. Plus(bill[r].amount, 0, 0 - w.amount) = Owed(record'[r], w.amount)
    BY <1>4, <2>1, <2>2 DEF Plus, Owed
  <2>4. Plus(bill[r].fee, 0, 0 - w.fee) = Owed(record'[r], w.fee)
    BY <1>4, <2>1, <2>2 DEF Plus, Owed
  <2>5. Billed(r)'
    BY <1>3, <1>6, <1>7, <2>3, <2>4 DEF Billed
  <2>6. InFlight(r)'
    BY <1>3, <1>6, <1>8 DEF InFlight
  <2>7. HashIsPayment(r)'
    BY <1>1, <1>2, <1>3, <1>6, <1>8 DEF RecordInv, HashIsPayment
  <2>8. TokenPaid(r)'
    BY <1>1, <1>2, <1>3, <1>6, <1>8 DEF RecordInv, TokenPaid
  <2>. QED BY <2>5, <2>6, <2>7, <2>8 DEF RecordInv
<1>11. \A x \in Records : x # r =>
         bill'[x] = bill[x] /\ reply'[x] = reply[x] /\ paid'[x] = paid[x]
  BY <1>1, <1>7 DEF Inv, TypeOK
<1>. QED BY <1>1, <1>6, <1>9, <1>10, <1>11, OneRecord

\* All open checks are rolled back at once; what the chain did stays done.
LEMMA CrashInv ==
  ASSUME Inv, Crash
  PROVE  Inv'
<1>1. faults \in [crashes : 0 .. MaxCrashes, lost : 0 .. MaxLost]
  BY DEF Inv, TypeOK
<1>2. /\ faults.crashes < MaxCrashes
      /\ faults' = [faults EXCEPT !.crashes = faults.crashes + 1]
      /\ reply' = [r \in Records |-> "none"]
      /\ UNCHANGED <<coin, record, bill, paid>>
  BY DEF Crash
<1>3. faults'.crashes = faults.crashes + 1 /\ faults.crashes \in 0 .. MaxCrashes
  BY <1>1, <1>2
<1>4. faults'.crashes # 0
  BY <1>3, SendAssumption
<1>5. /\ faults' \in [crashes : 0 .. MaxCrashes, lost : 0 .. MaxLost]
      /\ faults' # NoFault
  BY <1>1, <1>2, <1>3, <1>4, SendAssumption DEF NoFault
<1>6. TypeOK'
  BY <1>2, <1>5 DEF Inv, TypeOK, Reply
<1>7. \A r \in Records : RecordInv(r)'
  BY <1>2, <1>5 DEF Inv, RecordInv, InFlight, Billed, HashIsPayment, TokenPaid
<1>. QED BY <1>6, <1>7 DEF Inv

LEMMA NextInv == Inv /\ [Next]_vars => Inv'
<1>. SUFFICES ASSUME Inv, [Next]_vars PROVE Inv'
  OBVIOUS
<1>1. ASSUME NEW r \in Records, AdminStep(r) PROVE Inv'
  BY <1>1, CheckFailInv, CheckPassInv, SendToAddressInv, CommitInv, RollbackInv
     DEF AdminStep
<1>2. ASSUME NEW r \in Records, NEW u \in Users, UserStep(u, r) PROVE Inv'
  <2>1. PICK c \in Coins, a \in 0 .. MaxAmount, f \in 0 .. MaxFee :
          \/ transferOut(u, c, r, a, f)
          \/ \E v \in Users : transferInner(u, v, c, r, a, f)
    BY <1>2 DEF UserStep
  <2>. QED BY <2>1, TransferOutInv, TransferInnerInv
<1>3. CASE Crash
  BY <1>3, CrashInv
<1>4. CASE UNCHANGED vars
  BY <1>4 DEF vars, Inv, TypeOK, RecordInv, InFlight, Billed, HashIsPayment, TokenPaid
<1>. QED BY <1>1, <1>2, <1>3, <1>4 DEF Next

\* The balances never go negative and every row stays well formed, whatever
\* users, consoles, nodes and crashes do.
THEOREM TypeCorrect == Spec => []TypeOK
<1>1. Inv => TypeOK
  BY DEF Inv
<1>. QED BY InitInv, NextInv, <1>1, PTL DEF Spec

\* The bills of a withdrawal add up to what its status calls for, in the
\* amount and in the fee: nothing is refunded and paid.
THEOREM BillsCorrect == Spec => []BillsMatchStatus
<1>1. Inv => BillsMatchStatus
  BY DEF Inv, TypeOK, RecordInv, Billed, BillsMatchStatus
<1>. QED BY InitInv, NextInv, <1>1, PTL DEF Spec

\* What transferCheckPass stored about a withdrawal is what the chain did.
THEOREM PaidCorrect == Spec => []PaidAsRecorded
<1>1. Inv => PaidAsRecorded
  BY DEF Inv, TypeOK, RecordInv, InFlight, HashIsPayment, TokenPaid, PaidAsRecorded, NoFault
<1>. QED BY InitInv, NextInv, <1>1, PTL DEF Spec

-----------------------------------------------------------------------------
(***************************************************************************)
(* The refinement: once for the amounts, A, once for the fees, F.          *)
(***************************************************************************)

\* Both escrows, after a step that changes record r only and leaves it in
\* phase p: the phases and the bills they see change at r only.
LEMMA EscrowAfter ==
  ASSUME NEW r \in Records, NEW p, PhaseOf(r)' = p, p # "idle",
         DOMAIN record \subseteq DOMAIN record',
         DOMAIN record' \subseteq DOMAIN record \cup {r},
         \A x \in DOMAIN record : x # r => record'[x] = record[x],
         \A x \in Records : x # r => bill'[x] = bill[x]
  PROVE  /\ Phases' = [Phases EXCEPT ![r] = p]
         /\ OutBills("amount")' = [OutBills("amount") EXCEPT ![r] = bill'[r].amount]
         /\ OutBills("fee")' = [OutBills("fee") EXCEPT ![r] = bill'[r].fee]
<1>1. \A x \in Records : x # r => PhaseOf(x)' = PhaseOf(x)
  BY DEF PhaseOf
<1>2. Phases' = [Phases EXCEPT ![r] = p]
  BY <1>1 DEF Phases
<1>. HIDE DEF PhaseOf
<1>3. OutBills("amount")' = [OutBills("amount") EXCEPT ![r] = bill'[r].amount]
  BY <1>1 DEF OutBills
<1>4. OutBills("fee")' = [OutBills("fee") EXCEPT ![r] = bill'[r].fee]
  BY <1>1 DEF OutBills
<1>. QED BY <1>2, <1>3, <1>4

\* What the two escrows see of a withdrawal that waits.
LEMMA HeldRecord ==
  ASSUME Inv, NEW r \in DOMAIN record, record[r].status = "APPLYING"
  PROVE  /\ Phases[r] = "held" /\ record[r].type = "out"
         /\ OutBills("amount")[r] = [available |-> 0 - record[r].amount,
                                     freeze |-> record[r].amount]
         /\ OutBills("fee")[r] = [available |-> 0 - record[r].fee,
                                  freeze |-> record[r].fee]
<1>1. r \in Records /\ RecordInv(r) /\ record[r].type \in {"inner", "out"}
  BY RowFields DEF Inv
<1>2. record[r].type = "out"
  BY <1>1 DEF RecordInv, InFlight
<1>3. PhaseOf(r) = "held"
  BY <1>2 DEF PhaseOf
<1>4. /\ bill[r].amount = Owed(record[r], record[r].amount)
      /\ bill[r].fee = Owed(record[r], record[r].fee)
  BY <1>1 DEF RecordInv, Billed
<1>5. OutBills("amount")[r] = bill[r].amount /\ OutBills("fee")[r] = bill[r].fee
  BY <1>1, <1>3 DEF OutBills
<1>. QED BY <1>1, <1>2, <1>3, <1>4, <1>5 DEF Phases, Owed

LEMMA TransferOutRefines ==
  ASSUME Inv, NEW u \in Users, NEW c \in Coins, NEW r \in Records,
         NEW a \in 0 .. MaxAmount, NEW f \in 0 .. MaxFee,
         transferOut(u, c, r, a, f)
  PROVE  A!Next /\ F!Next
<1>1. /\ a \in 1 .. MaxAmount /\ a \in Int /\ f \in Int
      /\ 0 - a \in Int /\ 0 - f \in Int
  BY SendAssumption DEF transferOut
<1>2. /\ Insert(r, "APPLYING", "out", u, c, a, f)
      /\ Booked(r, 0 - f, f, 0 - a, a)
  BY DEF transferOut
<1>3. /\ r \in Records \ DOMAIN record
      /\ DOMAIN record' = DOMAIN record \cup {r}
      /\ record' \in [DOMAIN record' -> Row]
      /\ record'[r] = [status |-> "APPLYING", type |-> "out", user |-> u,
                       coin |-> c, amount |-> a, fee |-> f]
      /\ \A x \in DOMAIN record : record'[x] = record[x]
  BY <1>1, <1>2, InsertRow DEF Inv, Status
<1>4. /\ bill'[r].amount = Plus(bill[r].amount, 0 - a, a)
      /\ bill'[r].fee = Plus(bill[r].fee, 0 - f, f)
      /\ \A x \in Records : x # r => bill'[x] = bill[x]
  BY <1>1, <1>2, BookedBills DEF Inv
<1>5. PhaseOf(r)' = "held" /\ Phases[r] = "idle"
  BY <1>3 DEF PhaseOf, Phases
<1>6. /\ bill'[r].amount = [available |-> 0 - a, freeze |-> a]
      /\ bill'[r].fee = [available |-> 0 - f, freeze |-> f]
  BY <1>1, <1>3, <1>4, FreshRecord DEF Plus, NoBill
<1>7. /\ Phases' = [Phases EXCEPT ![r] = "held"]
      /\ OutBills("amount")' = [OutBills("amount") EXCEPT ![r] = bill'[r].amount]
      /\ OutBills("fee")' = [OutBills("fee") EXCEPT ![r] = bill'[r].fee]
  BY <1>3, <1>4, <1>5, EscrowAfter
<1>8. A!Hold(r, a) /\ F!Hold(r, f)
  BY <1>5, <1>6, <1>7 DEF A!Hold, F!Hold
<1>. QED BY <1>8 DEF A!Next, F!Next

\* A transfer between users is invisible: its record stays idle.
LEMMA TransferInnerRefines ==
  ASSUME Inv, NEW u \in Users, NEW v \in Users, NEW c \in Coins, NEW r \in Records,
         NEW a \in 0 .. MaxAmount, NEW f \in 0 .. MaxFee,
         transferInner(u, v, c, r, a, f)
  PROVE  UNCHANGED <<Phases, OutBills("amount"), OutBills("fee")>>
<1>1. /\ a \in 1 .. MaxAmount
      /\ Insert(r, "PASSED", "inner", u, c, a, f)
  BY SendAssumption DEF transferInner
<1>2. \A x \in Records : x # r => bill'[x] = bill[x]
  BY DEF transferInner, Booked, Inv, TypeOK
<1>3. /\ r \in Records \ DOMAIN record
      /\ DOMAIN record' = DOMAIN record \cup {r}
      /\ record' \in [DOMAIN record' -> Row]
      /\ record'[r] = [status |-> "PASSED", type |-> "inner", user |-> u,
                       coin |-> c, amount |-> a, fee |-> f]
      /\ \A x \in DOMAIN record : record'[x] = record[x]
  BY <1>1, InsertRow DEF Inv, Status
<1>4. \A x \in Records : x # r => PhaseOf(x)' = PhaseOf(x)
  BY <1>3 DEF PhaseOf
<1>5. PhaseOf(r)' = "idle" /\ PhaseOf(r) = "idle"
  BY <1>3 DEF PhaseOf
<1>6. \A x \in Records : /\ PhaseOf(x)' = PhaseOf(x)
                         /\ PhaseOf(x) # "idle" => bill'[x] = bill[x]
  BY <1>2, <1>4, <1>5
<1>. HIDE DEF PhaseOf
<1>7. UNCHANGED Phases
  BY <1>6 DEF Phases
<1>8. UNCHANGED OutBills("amount")
  BY <1>6 DEF OutBills
<1>9. UNCHANGED OutBills("fee")
  BY <1>6 DEF OutBills
<1>. QED BY <1>7, <1>8, <1>9

LEMMA CheckFailRefines ==
  ASSUME Inv, NEW r \in Records, transferCheckFail(r)
  PROVE  A!Next /\ F!Next
<1>. DEFINE w == record[r]
<1>1. /\ r \in DOMAIN record /\ w.status = "APPLYING"
      /\ Booked(r, w.fee, 0 - w.fee, w.amount, 0 - w.amount)
      /\ updateTransferStatusById(r, "FAILED")
  BY DEF transferCheckFail, Applying
<1>2. /\ w.amount \in Int /\ w.fee \in Int
      /\ 0 - w.amount \in Int /\ 0 - w.fee \in Int
  BY <1>1, RowFields DEF Inv
<1>3. /\ DOMAIN record' = DOMAIN record
      /\ record'[r].status = "FAILED" /\ record'[r].type = w.type
      /\ \A x \in DOMAIN record : x # r => record'[x] = record[x]
  BY <1>1, StatusRow DEF Inv, Status
<1>4. /\ bill'[r].amount = Plus(bill[r].amount, w.amount, 0 - w.amount)
      /\ bill'[r].fee = Plus(bill[r].fee, w.fee, 0 - w.fee)
      /\ \A x \in Records : x # r => bill'[x] = bill[x]
  BY <1>1, <1>2, BookedBills DEF Inv
<1>5. Phases[r] = "held" /\ w.type = "out"
  BY <1>1, HeldRecord
<1>6. PhaseOf(r)' = "refunded"
  BY <1>1, <1>3, <1>5 DEF PhaseOf
<1>7. /\ bill[r].amount = [available |-> 0 - w.amount, freeze |-> w.amount]
      /\ bill[r].fee = [available |-> 0 - w.fee, freeze |-> w.fee]
  BY <1>1 DEF Inv, RecordInv, Billed, Owed
<1>8. bill'[r].amount = NoBill /\ bill'[r].fee = NoBill
  BY <1>2, <1>4, <1>7 DEF Plus, NoBill
<1>9. /\ Phases' = [Phases EXCEPT ![r] = "refunded"]
      /\ OutBills("amount")' = [OutBills("amount") EXCEPT ![r] = bill'[r].amount]
      /\ OutBills("fee")' = [OutBills("fee") EXCEPT ![r] = bill'[r].fee]
  BY <1>3, <1>4, <1>6, EscrowAfter
<1>10. A!Refund(r) /\ F!Refund(r)
  BY <1>5, <1>8, <1>9 DEF A!Refund, F!Refund, A!NoEffect, F!NoEffect, NoBill
<1>. QED BY <1>10 DEF A!Next, F!Next

LEMMA CommitRefines ==
  ASSUME Inv, NEW r \in Records, transferCheckPassCommit(r)
  PROVE  A!Next /\ F!Next
<1>. DEFINE w == record[r]
            s == IF reply[r] = "timeout" THEN "OTHER" ELSE "PASSED"
<1>1. /\ reply[r] # "none"
      /\ Booked(r, 0, 0 - w.fee, 0, 0 - w.amount)
      /\ updateTransferStatusById(r, s)
  BY DEF transferCheckPassCommit, Returns, Deducted
<1>2. r \in DOMAIN record /\ w.status = "APPLYING"
  BY <1>1 DEF Inv, RecordInv, InFlight
<1>3. /\ w.amount \in Int /\ w.fee \in Int
      /\ 0 - w.amount \in Int /\ 0 - w.fee \in Int
  BY <1>2, RowFields DEF Inv
<1>4. /\ DOMAIN record' = DOMAIN record
      /\ record'[r].status = s /\ record'[r].type = w.type
      /\ \A x \in DOMAIN record : x # r => record'[x] = record[x]
  <2>1. s \in Status
    BY DEF Status
  <2>. HIDE DEF s, w
  <2>. QED BY <1>1, <1>2, <2>1, StatusRow DEF Inv, w
<1>5. /\ bill' \in [Records -> [amount : Net, fee : Net]]
      /\ bill'[r].amount = Plus(bill[r].amount, 0, 0 - w.amount)
      /\ bill'[r].fee = Plus(bill[r].fee, 0, 0 - w.fee)
      /\ \A x \in Records : x # r => bill'[x] = bill[x]
  <2>1. TypeOK /\ 0 \in Int /\ Booked(r, 0, 0 - w.fee, 0, 0 - w.amount)
    BY <1>1 DEF Inv
  <2>. HIDE DEF w
  <2>. QED BY ONLY <1>3, <2>1, BookedBills, Zenon
<1>6. /\ Phases[r] = "held" /\ w.type = "out"
      /\ OutBills("amount")[r] = [available |-> 0 - w.amount, freeze |-> w.amount]
      /\ OutBills("fee")[r] = [available |-> 0 - w.fee, freeze |-> w.fee]
  BY <1>2, HeldRecord
<1>7. PhaseOf(r)' = "settled"
  BY <1>2, <1>4, <1>6 DEF PhaseOf
<1>8. /\ bill[r].amount = [available |-> 0 - w.amount, freeze |-> w.amount]
      /\ bill[r].fee = [available |-> 0 - w.fee, freeze |-> w.fee]
  BY <1>2 DEF Inv, RecordInv, Billed, Owed
<1>9. /\ bill'[r].amount = [available |-> 0 - w.amount, freeze |-> 0]
      /\ bill'[r].fee = [available |-> 0 - w.fee, freeze |-> 0]
  BY <1>3, <1>5, <1>8 DEF Plus
<1>10. /\ Phases' = [Phases EXCEPT ![r] = "settled"]
       /\ OutBills("amount")' = [OutBills("amount") EXCEPT ![r] = bill'[r].amount]
       /\ OutBills("fee")' = [OutBills("fee") EXCEPT ![r] = bill'[r].fee]
  BY <1>4, <1>5, <1>7, EscrowAfter
<1>11. A!Settle(r) /\ F!Settle(r)
  BY <1>6, <1>9, <1>10 DEF A!Settle, F!Settle
<1>. QED BY <1>11 DEF A!Next, F!Next

\* What neither table shows is invisible: the check up to the commit, the
\* node, a rollback, a crash.
LEMMA InvisibleSteps ==
  ASSUME UNCHANGED <<record, bill>>
  PROVE  UNCHANGED <<Phases, OutBills("amount"), OutBills("fee")>>
BY DEF Phases, OutBills, PhaseOf

LEMMA InitRefines == Init => A!Init /\ F!Init
<1>. SUFFICES ASSUME Init PROVE A!Init /\ F!Init
  OBVIOUS
<1>1. DOMAIN record = {}
  BY DEF Init
<1>2. \A r \in Records : PhaseOf(r) = "idle"
  BY <1>1 DEF PhaseOf
<1>. HIDE DEF PhaseOf
<1>3. Phases = [r \in Records |-> "idle"]
  BY <1>2 DEF Phases
<1>4. /\ OutBills("amount") = [r \in Records |-> NoBill]
      /\ OutBills("fee") = [r \in Records |-> NoBill]
  BY <1>2 DEF OutBills
<1>. QED BY <1>3, <1>4 DEF A!Init, F!Init, A!NoEffect, F!NoEffect, NoBill

LEMMA NextRefines ==
  Inv /\ [Next]_vars => [A!Next]_(A!evars) /\ [F!Next]_(F!evars)
<1>. SUFFICES ASSUME Inv, [Next]_vars
              PROVE  \/ A!Next /\ F!Next
                     \/ UNCHANGED <<Phases, OutBills("amount"), OutBills("fee")>>
  BY DEF A!evars, F!evars
<1>1. ASSUME NEW r \in Records, AdminStep(r)
      PROVE  \/ A!Next /\ F!Next
             \/ UNCHANGED <<Phases, OutBills("amount"), OutBills("fee")>>
  <2>1. CASE transferCheckFail(r)
    BY <2>1, CheckFailRefines
  <2>2. CASE transferCheckPassCommit(r)
    BY <2>2, CommitRefines
  <2>3. CASE transferCheckPass(r) \/ sendToAddress(r) \/ transferCheckPassRollback(r)
    <3>1. UNCHANGED <<record, bill>>
      BY <2>3 DEF transferCheckPass, sendToAddress, transferCheckPassRollback
    <3>. QED BY <3>1, InvisibleSteps
  <2>. QED BY <1>1, <2>1, <2>2, <2>3 DEF AdminStep
<1>2. ASSUME NEW r \in Records, NEW u \in Users, UserStep(u, r)
      PROVE  \/ A!Next /\ F!Next
             \/ UNCHANGED <<Phases, OutBills("amount"), OutBills("fee")>>
  <2>1. PICK c \in Coins, a \in 0 .. MaxAmount, f \in 0 .. MaxFee :
          \/ transferOut(u, c, r, a, f)
          \/ \E v \in Users : transferInner(u, v, c, r, a, f)
    BY <1>2 DEF UserStep
  <2>. QED BY <2>1, TransferOutRefines, TransferInnerRefines
<1>3. CASE Crash \/ UNCHANGED vars
  <2>1. UNCHANGED <<record, bill>>
    BY <1>3 DEF Crash, vars
  <2>. QED BY <2>1, InvisibleSteps
<1>. QED BY <1>1, <1>2, <1>3 DEF Next

\* Withdrawals implement the escrow, in the amount and in the fee: each is
\* held once and then settled or refunded once.
THEOREM ImplementsEscrow == Spec => IsEscrow
BY InitInv, NextInv, InitRefines, NextRefines, PTL DEF Spec, IsEscrow, A!Spec, F!Spec

-----------------------------------------------------------------------------
(***************************************************************************)
(* The frozen balances and the withdrawals that wait.                      *)
(***************************************************************************)

\* The table is finite, whatever set its identifiers come from.
FiniteTable == IsFiniteSet(DOMAIN record)

\* The withdrawal r waits: what it froze is still frozen.
Waits(r) == r \in DOMAIN record /\ record[r].type = "out"
            /\ record[r].status = "APPLYING"

\* What r keeps frozen of a sum n: all of it or nothing.
Frozen(r, n) == IF Waits(r) THEN n ELSE 0

\* What a change d of the row of user u for coin c is to the row of x for y.
At(x, y, u, c, d) == IF x = u /\ y = c THEN d ELSE 0

\* The sums keep up with a step that inserts or rewrites record r: the frozen
\* rows of its user change by its amount and its fee if it begins or ceases to
\* wait, and not otherwise.
LEMMA FreezeAfter ==
  ASSUME TypeOK, TypeOK', FiniteTable, FreezeBacksRecords,
         NEW r \in Records, NEW u \in Users, NEW c \in Coins,
         NEW a \in Int, NEW f \in Int, NEW amtF \in Int, NEW feeF \in Int,
         r \in DOMAIN record', record'[r].user = u, record'[r].coin = c,
         record'[r].amount = a, record'[r].fee = f,
         r \in DOMAIN record =>
           record[r].user = u /\ record[r].coin = c
           /\ record[r].amount = a /\ record[r].fee = f,
         DOMAIN record' = DOMAIN record \cup {r},
         \A x \in DOMAIN record : x # r => record'[x] = record[x],
         amtF = Frozen(r, a)' - Frozen(r, a),
         feeF = Frozen(r, f)' - Frozen(r, f),
         \A x \in Users, y \in Coins :
           coin'[<<x, y>>].freeze = coin[<<x, y>>].freeze
             + At(x, y, u, FeeCoin, feeF)
             + At(x, y, u, c, amtF)
  PROVE  FreezeBacksRecords'
<1>1. /\ \A x \in DOMAIN record : record[x] \in Row /\ record[x].amount \in Int
                                /\ record[x].fee \in Int
      /\ \A x \in DOMAIN record' : record'[x] \in Row /\ record'[x].amount \in Int
                                 /\ record'[x].fee \in Int
  BY SendAssumption DEF TypeOK, Row
<1>2. ASSUME NEW x \in Users, NEW y \in Coins
      PROVE  /\ SumFunctionOnSet(Amounts, Outs(x, y)) \in Int
             /\ SumFunctionOnSet(Amounts', Outs(x, y)') =
                  SumFunctionOnSet(Amounts, Outs(x, y))
                  + At(x, y, u, c, amtF)
  <2>. DEFINE P == Outs(x, y)
              Q == Outs(x, y)'
              w == Amounts
              z == Amounts'
  <2>1. IsFiniteSet(P)
    BY FS_Subset DEF FiniteTable, Outs
  <2>2. Q \ {r} = P \ {r}
    BY DEF Outs
  <2>3. /\ \A i \in P : w[i] \in Int
        /\ \A i \in Q : z[i] \in Int
        /\ \A i \in P : i # r => z[i] = w[i]
    BY <1>1 DEF Outs, Amounts
  <2>4. /\ Share(w, P, r) = IF Waits(r) /\ x = u /\ y = c THEN a ELSE 0
        /\ Share(z, Q, r) = IF Waits(r)' /\ x = u /\ y = c THEN a ELSE 0
    BY DEF Share, Outs, Amounts, Waits
  <2>. HIDE DEF P, Q, w, z
  <2>5. /\ SumFunctionOnSet(w, P) \in Int
        /\ SumFunctionOnSet(z, Q) =
             SumFunctionOnSet(w, P) - Share(w, P, r) + Share(z, Q, r)
    BY ONLY <2>1, <2>2, <2>3, SumStep
  <2>6. SumFunctionOnSet(z, Q) =
          SumFunctionOnSet(w, P) + At(x, y, u, c, amtF)
    BY <2>4, <2>5 DEF At, Frozen
  <2>. QED BY <2>5, <2>6 DEF P, Q, w, z
<1>3. ASSUME NEW x \in Users
      PROVE  /\ SumFunctionOnSet(Fees, FeeOuts(x)) \in Int
             /\ SumFunctionOnSet(Fees', FeeOuts(x)') =
                  SumFunctionOnSet(Fees, FeeOuts(x)) + (IF x = u THEN feeF ELSE 0)
  <2>. DEFINE P == FeeOuts(x)
              Q == FeeOuts(x)'
              w == Fees
              z == Fees'
  <2>1. IsFiniteSet(P)
    BY FS_Subset DEF FiniteTable, FeeOuts
  <2>2. Q \ {r} = P \ {r}
    BY DEF FeeOuts
  <2>3. /\ \A i \in P : w[i] \in Int
        /\ \A i \in Q : z[i] \in Int
        /\ \A i \in P : i # r => z[i] = w[i]
    BY <1>1 DEF FeeOuts, Fees
  <2>4. /\ Share(w, P, r) = IF Waits(r) /\ x = u THEN f ELSE 0
        /\ Share(z, Q, r) = IF Waits(r)' /\ x = u THEN f ELSE 0
    BY DEF Share, FeeOuts, Fees, Waits
  <2>. HIDE DEF P, Q, w, z
  <2>5. /\ SumFunctionOnSet(w, P) \in Int
        /\ SumFunctionOnSet(z, Q) =
             SumFunctionOnSet(w, P) - Share(w, P, r) + Share(z, Q, r)
    BY ONLY <2>1, <2>2, <2>3, SumStep
  <2>6. SumFunctionOnSet(z, Q) =
          SumFunctionOnSet(w, P) + (IF x = u THEN feeF ELSE 0)
    BY <2>4, <2>5 DEF Frozen
  <2>. QED BY <2>5, <2>6 DEF P, Q, w, z
<1>4. ASSUME NEW x \in Users, NEW y \in Coins
      PROVE  coin'[<<x, y>>].freeze =
               SumFunctionOnSet(Amounts', Outs(x, y)') +
               (IF y = FeeCoin THEN SumFunctionOnSet(Fees', FeeOuts(x)') ELSE 0)
  <2>1. coin[<<x, y>>].freeze =
          SumFunctionOnSet(Amounts, Outs(x, y)) +
          (IF y = FeeCoin THEN SumFunctionOnSet(Fees, FeeOuts(x)) ELSE 0)
    BY DEF FreezeBacksRecords
  <2>2. coin'[<<x, y>>].freeze = coin[<<x, y>>].freeze
             + At(x, y, u, FeeCoin, feeF)
             + At(x, y, u, c, amtF)
    OBVIOUS
  <2>. QED BY <1>2, <1>3, <2>1, <2>2 DEF At
<1>. QED BY <1>4 DEF FreezeBacksRecords

\* What one changeUserCoin does to the frozen balances.
LEMMA PostFreeze ==
  ASSUME NEW l \in Ledgers, NEW u \in Users, NEW c \in Coins,
         NEW dA \in Int, NEW dF \in Int, NEW x \in Users, NEW y \in Coins
  PROVE  Post(l, u, c, dA, dF)[<<x, y>>].freeze =
           l[<<x, y>>].freeze + At(x, y, u, c, dF)
<1>1. l[<<x, y>>] \in Balance
  BY DEF Ledgers
<1>2. CASE x = u /\ y = c
  BY <1>1, <1>2 DEF Ledgers, Post, Change, Balance, At
<1>3. CASE ~(x = u /\ y = c)
  <2>1. <<x, y>> # <<u, c>>
    BY <1>3
  <2>2. Post(l, u, c, dA, dF)[<<x, y>>] = l[<<x, y>>]
    BY <2>1 DEF Ledgers, Post
  <2>. QED BY <1>1, <1>3, <2>2 DEF Balance, At
<1>. QED BY <1>2, <1>3

\* A step adds amtF to the frozen coins of u for c and feeF to those for the
\* fee coin, and leaves all other rows alone.
FreezeMoves(u, c, feeF, amtF) ==
  \A x \in Users, y \in Coins :
    coin'[<<x, y>>].freeze = coin[<<x, y>>].freeze
      + At(x, y, u, FeeCoin, feeF)
      + At(x, y, u, c, amtF)

\* What the two calls in a row do to them.
LEMMA FeeThenAmountFreeze ==
  ASSUME NEW u \in Users, NEW c \in Coins,
         NEW feeA \in Int, NEW feeF \in Int, NEW amtA \in Int, NEW amtF \in Int,
         TypeOK, FeeThenAmount(u, c, feeA, feeF, amtA, amtF)
  PROVE  FreezeMoves(u, c, feeF, amtF)
<1>. SUFFICES ASSUME NEW x \in Users, NEW y \in Coins
              PROVE  coin'[<<x, y>>].freeze = coin[<<x, y>>].freeze
                       + At(x, y, u, FeeCoin, feeF)
                       + At(x, y, u, c, amtF)
  BY DEF FreezeMoves
<1>. DEFINE mid == Post(coin, u, FeeCoin, feeA, feeF)
<1>1. coin \in Ledgers /\ FeeCoin \in Coins
  BY SendAssumption DEF TypeOK, Ledgers
<1>2. /\ Can(coin, u, FeeCoin, feeA, feeF)
      /\ coin' = Post(mid, u, c, amtA, amtF)
  BY DEF FeeThenAmount
<1>3. mid \in Ledgers
  BY <1>1, <1>2, PostType
<1>4. mid[<<x, y>>].freeze = coin[<<x, y>>].freeze
                                    + At(x, y, u, FeeCoin, feeF)
  BY <1>1, PostFreeze
<1>. HIDE DEF mid
<1>5. coin'[<<x, y>>].freeze = mid[<<x, y>>].freeze
                                      + At(x, y, u, c, amtF)
  BY <1>2, <1>3, PostFreeze
<1>. QED BY <1>4, <1>5

LEMMA TransferOutFreeze ==
  ASSUME Inv, TypeOK', FiniteTable, FreezeBacksRecords,
         NEW u \in Users, NEW c \in Coins, NEW r \in Records,
         NEW a \in 0 .. MaxAmount, NEW f \in 0 .. MaxFee,
         transferOut(u, c, r, a, f)
  PROVE  FiniteTable' /\ FreezeBacksRecords'
<1>1. /\ a \in 1 .. MaxAmount /\ a \in Int /\ f \in Int
      /\ 0 - a \in Int /\ 0 - f \in Int
  BY SendAssumption DEF transferOut
<1>2. /\ FeeThenAmount(u, c, 0 - f, f, 0 - a, a)
      /\ Insert(r, "APPLYING", "out", u, c, a, f)
  BY DEF transferOut
<1>3. /\ r \in Records \ DOMAIN record
      /\ DOMAIN record' = DOMAIN record \cup {r}
      /\ record' \in [DOMAIN record' -> Row]
      /\ record'[r] = [status |-> "APPLYING", type |-> "out", user |-> u,
                       coin |-> c, amount |-> a, fee |-> f]
      /\ \A x \in DOMAIN record : record'[x] = record[x]
  BY <1>1, <1>2, InsertRow DEF Inv, Status
<1>4. FiniteTable'
  BY <1>3, FS_AddElement DEF FiniteTable
<1>5. \A x \in Users, y \in Coins :
        coin'[<<x, y>>].freeze = coin[<<x, y>>].freeze
          + At(x, y, u, FeeCoin, f)
          + At(x, y, u, c, a)
  <2>1. TypeOK /\ u \in Users /\ c \in Coins
    BY DEF Inv
  <2>2. PICK feeA \in Int, amtA \in Int, feeF \in Int, amtF \in Int :
          feeA = 0 - f /\ amtA = 0 - a /\ feeF = f /\ amtF = a
    BY <1>1
  <2>3. FeeThenAmount(u, c, feeA, feeF, amtA, amtF)
    BY <1>2, <2>2
  <2>4. FreezeMoves(u, c, feeF, amtF)
    BY <2>1, <2>3, FeeThenAmountFreeze
  <2>. QED BY <2>2, <2>4 DEF FreezeMoves
<1>6. /\ a = Frozen(r, a)' - Frozen(r, a)
      /\ f = Frozen(r, f)' - Frozen(r, f)
  BY <1>1, <1>3 DEF Frozen, Waits
<1>7. /\ r \in DOMAIN record' /\ record'[r].user = u /\ record'[r].coin = c
      /\ record'[r].amount = a /\ record'[r].fee = f
      /\ r \notin DOMAIN record
  BY <1>3
<1>8. TypeOK
  BY DEF Inv
<1>. QED BY <1>1, <1>3, <1>4, <1>5, <1>6, <1>7, <1>8, FreezeAfter

\* The two ways a withdrawal ceases to wait.
LEMMA CheckFreeze ==
  ASSUME Inv, TypeOK', FiniteTable, FreezeBacksRecords, NEW r \in Records,
         transferCheckFail(r) \/ transferCheckPassCommit(r)
  PROVE  FiniteTable' /\ FreezeBacksRecords'
<1>1. RecordInv(r) /\ TypeOK
  BY DEF Inv
<1>2. /\ r \in DOMAIN record /\ record[r].status = "APPLYING"
      /\ record[r].type # "inner"
  BY <1>1 DEF transferCheckFail, Applying, transferCheckPassCommit, Returns,
              RecordInv, InFlight
<1>3. PICK u \in Users, c \in Coins, a \in Int, f \in Int :
        /\ record[r].user = u /\ record[r].coin = c
        /\ record[r].amount = a /\ record[r].fee = f
  BY <1>1, <1>2, RowFields
<1>4. record[r].type \in {"inner", "out"} /\ 0 - a \in Int /\ 0 - f \in Int
  BY <1>1, <1>2, RowFields
<1>5. PICK s \in {"FAILED", "OTHER", "PASSED"} : updateTransferStatusById(r, s)
  BY DEF transferCheckFail, transferCheckPassCommit
<1>6. /\ DOMAIN record' = DOMAIN record
      /\ record' = [record EXCEPT ![r] = [record[r] EXCEPT !.status = s]]
  BY <1>1, <1>2, <1>5 DEF updateTransferStatusById, TypeOK
<1>7. /\ record'[r].status = s /\ record'[r].user = u /\ record'[r].coin = c
      /\ record'[r].amount = a /\ record'[r].fee = f
      /\ \A x \in DOMAIN record : x # r => record'[x] = record[x]
  BY <1>1, <1>2, <1>3, <1>6 DEF TypeOK, Row
<1>8. PICK feeF \in Int, amtF \in Int : feeF = 0 - f /\ amtF = 0 - a
  BY <1>4
<1>9. PICK feeA \in Int, amtA \in Int : FeeThenAmount(u, c, feeA, feeF, amtA, amtF)
  <2>1. \/ FeeThenAmount(record[r].user, record[r].coin,
                         record[r].fee, 0 - record[r].fee,
                         record[r].amount, 0 - record[r].amount)
        \/ FeeThenAmount(record[r].user, record[r].coin, 0, 0 - record[r].fee,
                         0, 0 - record[r].amount)
    BY DEF transferCheckFail, transferCheckPassCommit, Deducted
  <2>2. FeeThenAmount(u, c, f, feeF, a, amtF) \/ FeeThenAmount(u, c, 0, feeF, 0, amtF)
    BY <1>3, <1>8, <2>1
  <2>. QED BY <2>2
<1>10. \A x \in Users, y \in Coins :
         coin'[<<x, y>>].freeze = coin[<<x, y>>].freeze
           + At(x, y, u, FeeCoin, feeF)
           + At(x, y, u, c, amtF)
  <2>1. FreezeMoves(u, c, feeF, amtF)
    BY <1>1, <1>9, FeeThenAmountFreeze
  <2>. QED BY <2>1 DEF FreezeMoves
<1>11. /\ amtF = Frozen(r, a)' - Frozen(r, a)
       /\ feeF = Frozen(r, f)' - Frozen(r, f)
  BY <1>2, <1>4, <1>7, <1>8 DEF Frozen, Waits
<1>12. r \in DOMAIN record' /\ DOMAIN record' = DOMAIN record \cup {r}
  BY <1>2, <1>6
<1>13. FiniteTable'
  BY <1>6 DEF FiniteTable
<1>14. FreezeBacksRecords'
  BY <1>1, <1>3, <1>7, <1>10, <1>11, <1>12, FreezeAfter
<1>. QED BY <1>13, <1>14

\* A transfer between users freezes nothing.
LEMMA TransferInnerFreeze ==
  ASSUME Inv, TypeOK', FiniteTable, FreezeBacksRecords,
         NEW u \in Users, NEW v \in Users, NEW c \in Coins, NEW r \in Records,
         NEW a \in 0 .. MaxAmount, NEW f \in 0 .. MaxFee,
         transferInner(u, v, c, r, a, f)
  PROVE  FiniteTable' /\ FreezeBacksRecords'
<1>. DEFINE sent == Post(coin, u, c, 0 - a, 0)
            charged == Post(sent, u, PlatCoin, 0 - f, 0)
<1>1. /\ a \in 1 .. MaxAmount /\ a \in Int /\ f \in Int
      /\ 0 - a \in Int /\ 0 - f \in Int /\ 0 \in Int
  BY SendAssumption DEF transferInner
<1>2. Insert(r, "PASSED", "inner", u, c, a, f)
  BY DEF transferInner
<1>3. /\ r \in Records \ DOMAIN record
      /\ DOMAIN record' = DOMAIN record \cup {r}
      /\ record' \in [DOMAIN record' -> Row]
      /\ record'[r] = [status |-> "PASSED", type |-> "inner", user |-> u,
                       coin |-> c, amount |-> a, fee |-> f]
      /\ \A x \in DOMAIN record : record'[x] = record[x]
  BY <1>1, <1>2, InsertRow DEF Inv, Status
<1>4. FiniteTable'
  BY <1>3, FS_AddElement DEF FiniteTable
<1>5. /\ Can(coin, u, c, 0 - a, 0)
      /\ Can(sent, u, PlatCoin, 0 - f, 0)
      /\ coin' = Post(charged, v, c, a, 0)
  BY DEF transferInner
<1>6. coin \in Ledgers /\ PlatCoin \in Coins
  BY SendAssumption DEF Inv, TypeOK, Ledgers
<1>7. sent \in Ledgers
  BY <1>1, <1>5, <1>6, PostType
<1>8. charged \in Ledgers
  <2>. HIDE DEF sent
  <2>. QED BY <1>1, <1>5, <1>6, <1>7, PostType
<1>9. ASSUME NEW x \in Users, NEW y \in Coins
      PROVE  coin'[<<x, y>>].freeze = coin[<<x, y>>].freeze
               + At(x, y, u, FeeCoin, 0)
               + At(x, y, u, c, 0)
  <2>1. sent[<<x, y>>].freeze = coin[<<x, y>>].freeze + At(x, y, u, c, 0)
    BY <1>1, <1>6, PostFreeze
  <2>2. charged[<<x, y>>].freeze =
          sent[<<x, y>>].freeze + At(x, y, u, PlatCoin, 0)
    <3>. HIDE DEF sent
    <3>. QED BY <1>1, <1>6, <1>7, PostFreeze
  <2>. HIDE DEF sent, charged
  <2>3. coin'[<<x, y>>].freeze =
          charged[<<x, y>>].freeze + At(x, y, v, c, 0)
    BY <1>1, <1>5, <1>8, PostFreeze
  <2>4. coin[<<x, y>>].freeze \in Int
    BY <1>6 DEF Ledgers, Balance
  <2>. QED BY <2>1, <2>2, <2>3, <2>4 DEF At
<1>10. /\ 0 = Frozen(r, a)' - Frozen(r, a)
       /\ 0 = Frozen(r, f)' - Frozen(r, f)
  BY <1>1, <1>3 DEF Frozen, Waits
<1>11. /\ r \in DOMAIN record' /\ record'[r].user = u /\ record'[r].coin = c
       /\ record'[r].amount = a /\ record'[r].fee = f
       /\ r \notin DOMAIN record
  BY <1>3
<1>12. TypeOK
  BY DEF Inv
<1>13. FreezeBacksRecords'
  <2>. HIDE DEF sent, charged
  <2>. QED BY <1>1, <1>3, <1>9, <1>10, <1>11, <1>12, FreezeAfter
<1>. QED BY <1>4, <1>13

LEMMA NextFreeze ==
  Inv /\ FiniteTable /\ FreezeBacksRecords /\ [Next]_vars =>
    FiniteTable' /\ FreezeBacksRecords'
<1>. SUFFICES ASSUME Inv, FiniteTable, FreezeBacksRecords, [Next]_vars
              PROVE  FiniteTable' /\ FreezeBacksRecords'
  OBVIOUS
<1>1. TypeOK'
  BY NextInv DEF Inv
<1>2. ASSUME UNCHANGED <<coin, record>>
      PROVE  FiniteTable' /\ FreezeBacksRecords'
  <2>1. coin' = coin /\ record' = record
    BY <1>2
  <2>2. FiniteTable' /\ Amounts' = Amounts /\ Fees' = Fees
    BY <2>1 DEF FiniteTable, Amounts, Fees
  <2>3. \A u, c : Outs(u, c)' = Outs(u, c) /\ FeeOuts(u)' = FeeOuts(u)
    BY <2>1 DEF Outs, FeeOuts
  <2>. QED BY <2>1, <2>2, <2>3 DEF FreezeBacksRecords
<1>3. ASSUME NEW r \in Records, AdminStep(r)
      PROVE  FiniteTable' /\ FreezeBacksRecords'
  <2>1. CASE transferCheckPass(r) \/ sendToAddress(r) \/ transferCheckPassRollback(r)
    <3>1. UNCHANGED <<coin, record>>
      BY <2>1 DEF transferCheckPass, sendToAddress, transferCheckPassRollback
    <3>. QED BY <1>2, <3>1
  <2>. QED BY <1>1, <1>3, <2>1, CheckFreeze DEF AdminStep
<1>4. ASSUME NEW r \in Records, NEW u \in Users, UserStep(u, r)
      PROVE  FiniteTable' /\ FreezeBacksRecords'
  <2>1. PICK c \in Coins, a \in 0 .. MaxAmount, f \in 0 .. MaxFee :
          \/ transferOut(u, c, r, a, f)
          \/ \E v \in Users : transferInner(u, v, c, r, a, f)
    BY <1>4 DEF UserStep
  <2>. QED BY <1>1, <2>1, TransferOutFreeze, TransferInnerFreeze
<1>5. CASE Crash \/ UNCHANGED vars
  BY <1>2, <1>5 DEF Crash, vars
<1>. QED BY <1>3, <1>4, <1>5 DEF Next

LEMMA InitFreeze == Init => FiniteTable /\ FreezeBacksRecords
<1>. SUFFICES ASSUME Init PROVE FiniteTable /\ FreezeBacksRecords
  OBVIOUS
<1>1. DOMAIN record = {}
  BY DEF Init
<1>2. SumFunctionOnSet(Amounts, {}) = 0 /\ SumFunctionOnSet(Fees, {}) = 0
  BY SumEmpty
<1>3. ASSUME NEW u \in Users, NEW c \in Coins
      PROVE  coin[<<u, c>>].freeze = 0 /\ Outs(u, c) = {} /\ FeeOuts(u) = {}
  BY <1>1 DEF Init, EmptyRow, Outs, FeeOuts
<1>. HIDE DEF Amounts, Fees, Outs, FeeOuts
<1>4. ASSUME NEW u \in Users, NEW c \in Coins
      PROVE  coin[<<u, c>>].freeze =
               SumFunctionOnSet(Amounts, Outs(u, c)) +
               (IF c = FeeCoin THEN SumFunctionOnSet(Fees, FeeOuts(u)) ELSE 0)
  <2>1. /\ SumFunctionOnSet(Amounts, Outs(u, c)) = 0
        /\ SumFunctionOnSet(Fees, FeeOuts(u)) = 0
    BY <1>2, <1>3
  <2>. QED BY <1>3, <2>1
<1>. QED BY <1>1, <1>4, FS_EmptySet DEF FiniteTable, FreezeBacksRecords

\* The frozen balance of every user in every coin is the sum of what his
\* waiting withdrawals froze, amounts and fees, whichever coin pays the fee.
THEOREM FreezeCorrect == Spec => []FreezeBacksRecords
BY InitInv, NextInv, InitFreeze, NextFreeze, PTL DEF Spec
=============================================================================
