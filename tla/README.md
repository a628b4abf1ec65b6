# Verification of the shop and wallet services

TLA+ models of the services in `src/` that move money: a Spring Boot shop with
a custodial crypto wallet, written in Java on MySQL. `common` holds the
services and mappers, `api` the user-facing REST controllers and the background
tasks, `guns` and `admin` the two consoles (`guns` has pages in JavaScript,
some of which are modelled too). The models are checked by TLC on
small instances. The theorems in the `...Proofs` modules are checked by TLAPS and
hold for every value of the constants, the bounds included; every component
has them.

## 1. Inventory

### Components, state and operations

| Component | State | Operations | Modelled in |
|---|---|---|---|
| Ledger, `UserCoinService.changeUserCoin` | `t_user_coin` (available, freeze, award), `t_user_bill` | one conditional `UPDATE` plus a bill | `UserCoin` |
| Buying from / selling to the platform, `PlatOrderService` | `t_plat_order` | deposit, withdraw, confirm, cancel, complaint, adminConfirm, adminCancel | `PlatOrder` |
| Transfers and withdrawals, `SendCoinService` | `t_send_coin`, the chain | transferInner, transferOut, transferCheckFail, transferCheckPass | `SendCoin` |
| Mall orders, `MallOrderService` | `t_mall_order`, `t_mall_good`, `t_mall_cart` | payOrder, sendOrder, confirmOrder, returnOrder, confirmReturnOrder, cancelUnsendOrder, closeOrderByUserId | `MallOrder`, `ShopClose` (the last) |
| Daily award release, `ReleaseTask`, `ReleaseAwardService` | config `last.release.time`, a static flag | startRelease, releaseAwardBanlance | `ReleaseAward` |
| Deposit scanners, `EthService`, `UsdtService`, `BitcoinService` | cursor in `t_config`, `t_received_coin` | syncNewTransactions, syncBlock, syncTransaction, addTransaction | `BlockSync` |
| EOS scanner, `EosService`, `EosSync` | a place in the account's action list, memos in `t_user_coin` | getActions, getAccountAddress, addUserCoin | `EosSync` |
| Gathering, `GatherEthTask`, `GatherTokenTask`, `GatherUsdtTask` | a cursor over `t_received_coin`, the addresses on chain | the nightly walks | `Gather` |
| Sellers: `UserService.updateUserSellPermitStatu` and `updateUser`, `MallShopService`, `MallGoodService`, the console pages `user.js`, `tMallApply_info.js`, `tMallGood.js` | permit and status in `t_user`, `t_mall_apply`, `t_mall_shop`, status in `t_mall_good`, rewards | apply, review, open, close, overwrite by a form, publish, put on and off sale, delete, disable | `Seller` |
| Cart, addresses, address registration, login, SMS, captcha, configuration, statistics, content | single rows, Redis keys | | not modelled, or only as far as the above uses them |

### How they interact

Every service changes balances through `changeUserCoin`, inside a database
transaction of its own. Three things couple them: the `t_user_coin` rows, the
row locks they hold until commit, and the configuration table. Requests arrive
on many server threads, the tasks run in threads of the `api` process, and
outside the database there are the blockchain nodes, whose effects cannot be
rolled back. Closing a shop runs from a console page through
`TMallApplyController` or `UserController` and `UserService` into
`MallGoodService` and `MallOrderService`; the gathering tasks read what the
scanners have recorded.

### What is hard here

- **Locking differs by service.** `PlatOrderService` and the withdrawal checks
  start with `SELECT ... FOR UPDATE`; `MallOrderService` reads without a lock and
  later writes stock, sales and status absolutely.
- **An external call in the middle of a transaction.** `transferCheckPass` pays
  on chain before it commits. A timeout, a crash or a lost answer leaves payment
  and record apart.
- **Swallowed exceptions.** `releaseAwardBanlance` catches everything inside its
  own transaction and so commits half a run.
- **Annotations that do not apply.** `closeOrderByUserId` calls transactional
  methods on its own object, past the proxy, and the seller handlers have no
  transaction at all: each statement is committed by itself.
- **Read, then insert.** Shop rows and `t_user_coin` rows are made by whoever
  finds them missing; a second row breaks every later query for one row.
- **Stale pages.** A console acts on a table row as it was when it was loaded.
- **Two ways to write the permit.** The console opens and closes shops with all
  that belongs to it; the user form of the admin module writes the column.
- **Calls that time out on chain.** Gathering cannot tell a refused transfer
  from one whose answer was lost, or from one that is never mined.
- **Scan, crash, scan again.** Credits are committed one by one, the cursor
  once at the end, and the chain may fork in between.

The full list, by source line, is under `hazards` in `PROJECT.json`.

### What makes each component correct

- *Orders and withdrawals*: what the bills of an item add up to is fixed by
  its type and status; a closed item stays closed; frozen coins are exactly what
  the open items wait for; each item goes through an escrow (held, then settled or
  refunded, once).
- *Withdrawals*: paid on chain when PASSED, not paid twice, not paid and refunded.
- *Mall*: stock and sales agree with the orders, an order is booked once, no
  interleaving creates money; closing a shop leaves no order open, and what a
  fault in the middle spoils is bounded.
- *Sellers*: who may sell has a shop and rewarded inviters, one reward per
  application; application, permit and goods on sale agree; the limit of goods
  is kept.
- *Release*: conserves coins, happens once a day, is made up for when missed.
- *Scanners*: a payment is credited once, none is lost, none is credited from
  a block that a fork takes back.
- *Gathering*: no address worth gathering is overlooked, fuel is not piled up,
  and everything is gathered some night.

## 2. Modules

| Module | What it is | Extends |
|---|---|---|
| `UserCoin` | the conditional update: `CanChange`, `Change` | |
| `Escrow` | abstract specification of an item that is held and settled or refunded | |
| `PlatOrder` | `PlatOrderService` | `UserCoin`; instantiates `Escrow` |
| `SendCoin` | `SendCoinService`, the call of the node, crashes | `UserCoin`; instantiates `Escrow` twice |
| `MallOrder` | `MallOrderService` with server threads | `UserCoin` |
| `ShopClose` | closing a shop, statement by statement, composed with the requests of `MallOrder` | `MallOrder` |
| `Seller` | applications, permits, goods and the console pages | |
| `ReleaseAward` | the daily job, with the mall as its environment | `UserCoin` |
| `EosSync` | the EOS scanner and the making of `t_user_coin` rows | |
| `Gather` | the three gathering tasks, with chain and scanner as environment | |
| `BlockSync` | the loop of the three block scanners, with the chain as environment | |
| `SumTheorems` | lemmas about sums over finite sets | |
| `PlatOrderProofs`, `SendCoinProofs`, `EosSyncProofs` | theorems on these | the model, `SumTheorems` |
| `ShopCloseProofs` | theorems on `MallOrder` and `ShopClose` | `ShopClose`, `SumTheorems` |
| `DepositProofs` | theorems on `BlockSync` and `Gather` | `BlockSync`, `Gather`, `SumTheorems` |
| `ReleaseAwardProofs`, `SellerProofs` | theorems on these | the model |
| `MC...` | the instances TLC checks | |

### Correspondence with the code

Definitions carry the Java names. The `map` of `PROJECT.json` gives the lines of
each.

**UserCoin.** `changeUserCoin` is `UPDATE ... SET x = x + d WHERE x + d >= 0` on
the three balances. `CanChange` is the `WHERE`, `Change` the `SET`. When no row
changed the service throws and the caller's transaction rolls back, so the
callers use `CanChange` as a guard. A missing row, which the code inserts, is
an empty row here; the insert itself is in `EosSync`.

**PlatOrder.** Each operation on an existing order locks the row first, so it
is one atomic step. `bill[o]` adds up the bills that name order `o`. A rejected
request is no step. Prices, bank cards and opening hours decide only whether a
request is accepted and are left out. The expiry time of an order is stored,
but no operation tests it and nothing calls the query for expired orders.

**SendCoin.** `transferCheckPass` is three steps: up to the call (`reply[r]`
becomes `"waiting"`), the call itself (`sendToAddress`), and the commit or the
rollback. In between the transaction holds the locks of `LockedRows`, and an
operation that needs one of those rows is not enabled. `paid[r]` counts what
the chain has executed. `contractTransferEx` turns a timeout into the string
`"timeout"` (status OTHER); the clients of all other coins throw, and the record
is APPLYING again.

**MallOrder.** A handler is a reading half, which leaves what it has read in
`tx[t]`, and a writing half, which writes stock, sales and status as computed
from it. Under both isolation levels the service uses, plain reads take no lock
and the later absolute write wins. `OrderlyClients` restricts requests to the
orders the order pages list for the operation; without it any client may send
any request.

**ShopClose.** `CloseNext` is either a step of `MallOrder` or a statement of
`closeOrderByUserId`, whose program counter is `closer.at`. The handlers it calls
are not in a transaction there, so `refund`, `setStatus`, `readStock`, `writeStock`
and the eight statements of `confirmOrder` are separate actions. `StatementFails`
is an exception, which the loop swallows; `Crash` ends the closing and rolls the
requests of `MallOrder` back. `short[o]` counts the credits that confirmations
of `o` still owe, `overlap` whether a closing and a request ever ran at once.

**Seller.** A request of a console or a phone is a sequence of statements
(`req[c].at`). `sellPermit`, `editSubmit` and `editStatus` are the JavaScript
handlers: they turn any row the page may still show into a request. `reviewRead`
and `reviewWrite` are `TMallApplyController.update`; `permitRead` to `permitClose`
are `updateUserSellPermitStatu`; `goodCheck`, `addMallGood` and `editGoodStatus`
are the two methods of `MallGoodService`; `editShop` and `insertShop` are
`MallShopService.editShop`, which inserts the row of a seller who has none.
`updateUser` is the user form of the admin module (`PUT /user`): one `UPDATE`
writes permit and status at any time, and no shop row, reward, application or good
follows. Of a permit it changed, `byForm[u]` is set until an opening or closing of
the user ends, which makes things consistent again. Refusals for want of stock or
because of unfinished orders are a free choice. `mixed`, `broken`, `opened`,
`submitted` and `upBy` record history for the properties only. Configured rewards
are taken to be switched on and both inviters to exist.

**EosSync.** `getActions` reads a page of any length up to `Page` and removes
duplicates; `skipAction`, `creditAction` and `twoRows` deal with one action,
`endPage` writes the cursor. `row[u]` counts the rows of a user with and without
the memo: `getAccountAddress` and `changeUserCoin` look first and insert later,
and whether the second insert is refused is a free choice, because the schema is
not in the repository. `unknown` and `Shadowed` name the deposits the code
passes over for good.

**Gather.** One module for the three tasks, `task` says which. The token task
walks twice (`passFuel`, `sendFuel`, `failFuel`, `endFuel`, then the walk all
three have); the USDT task sends fuel to each address just before its transfer
(`sendBtc`). A transfer succeeds, is refused, is made without an answer, or is
accepted and never mined. After a failed call the token task goes on without its
pause: what such a call has sent all the same is in `flying[a]` (fuel) or
`leaving[a]` (tokens) until it gets on chain, if it ever does, and the balances the
task reads do not show it. So it may send fuel twice, and the same tokens twice,
the second time in vain (`sendInVain`). `missed` and `stray` name the addresses and the
pieces of fuel with which something went wrong.

**ReleaseAward.** `startRelease` tests the date and the flag.
`releaseAwardBanlance` reads the rate and all award balances; the loop
(`releaseOne`) updates row by row, and an updated row stays locked until
`finishRelease`, `failRelease` (the catch block, which commits) or `Crash`. The
mall changes award balances at the same time. Bills are rows of a log that is not
read back and are left out here.

**BlockSync.** One loop for the three services; `svc` says which. Blocks appear
and are forked away (`Mine`, `Reorg`) between any two steps of the scanner;
`top` and `depth` record how deep forks have been. `Receivers[t]` lists whom the logs
of a token transfer, or the outputs of a Bitcoin transaction, name, and `Looked(t)`
those a scanner gets to: `EthService` skips a transfer that used all its gas and
looks at the first log with a receiver only, leaving the others if it names a
stranger; `BitcoinService` passes over strangers. `Paid(t)` are the users among
them. Transfers between users of the platform, which two of the services
ignore as gathering, and calls of other functions count as paying nobody. `Elusive`
transactions are those whose receipt (ETH tokens) or details (Bitcoin) the node
may fail to return. `syncOldTransaction` looks for records with a negative status,
which no insert writes, and so does nothing.

## 3. Runs

| Run | Expected | Question |
|---|---|---|
| `PlatOrder` | pass | Is an order settled or refunded at most once whatever users and admins send, and do the balances follow? |
| `SendCoin` | pass | What survives two consoles, timeouts, a crash and a lost answer? |
| `MallOrderRaces` | pass | With two threads, the cart and any client, is money still neither created nor lost? |
| `MallOrderFreeze` | violation | Does `confirmOrder` deduct the frozen money, as its comment says? |
| `ShopClose` | pass | What does closing a shop without a transaction leave behind, with and without faults? |
| `Seller` | pass | Do permit, application, shop, rewards and goods agree under two consoles, a phone, the user form and a crash? |
| `SellerButton` | violation | Does the permit button open the shop of a user who may not sell? |
| `ReleaseAward` | pass | Does the release conserve coins, once a day, and is it made up for? |
| `ReleaseAwardStuck` | violation | Does the half-hourly trigger make up for every missed release? |
| `BlockSync` | pass | Is every payment a scanner sees credited exactly once under crashes, exceptions and forks? |
| `EosSync` | pass | The same for pages of an action list, and for rows that two threads make at once |
| `Gather` | pass | Does every address worth it get gathered, whatever fails and whoever pays in between? |

**Violations.** Each is a disagreement between the code and a comment, a label
or a named error, quoted under `findings`: `confirmOrder` takes the award
balance and leaves the frozen money frozen; a run of the release that finds
nothing to release leaves the flag down, and no later day is released before a
restart; the permit button reads a field the rows do not have and closes
whatever it is clicked on.

Further disagreements came up while modelling, and the properties are stated
so as to leave them out: an admin can finish a PAID order, which the comment in
`adminConfirm` excludes; two payments that read the same stock both pass the
stock test; `sendOrder` takes a finished order back to SENT, where it can be
confirmed again; a release that fails halfway commits what it did and repeats
it at the next trigger.

**What the passing properties leave out on purpose.** `PaidAsRecorded` excludes a
second payment for token coins only, as long as no process died and no answer was
lost: beyond that a record can be paid and then refunded or paid again.
`CreditedIsOnChain` and `CursorCovers` are stated for forks up to `confirmations +
1` blocks; for USDT and Bitcoin, where the distance to the tip is commented out,
that is one block. `CursorCovers` and `DeepIsCredited` are about payments the
scanner sees: one whose receipt the node does not return when asked is passed over
for good, and with `EthService` so are one that used all its gas (218) and one
behind a log that names a stranger (241). Both ask for one credit per transaction:
a Bitcoin transaction that pays two users is credited to the first only.
`ClosingKeepsBooks` and the agreement properties of `Seller` are stated for
requests that did not overlap, because the services read without a lock; the
ledger properties are not restricted. A permit the user form of the admin module
has written may be one without a shop row, rewards and a passed application, or
leave the goods of a user on sale who may sell no more: `OpeningIsComplete`,
`PassedMaySell` and `OnSaleIsAllowed` leave such a permit out, until an opening or
closing ends and puts things right, which is part of what they say;
`OneRewardPerApplication` and the limit of goods hold in any case. In `EosSync`
deposits that arrive before their memo exists, or behind another action of the
same transaction, are lost, and a user with two rows stops the scan for everybody.
In `Gather` an address in `missed` waits for its next payment, and
`FuelIsNotPiledUp` allows one more piece of fuel for each that was sent with a
call that failed (the task sees it too late), was there and could not be read, or
served no transfer.

### Bounds

- *PlatOrder*: two users, three orders, amounts 1 and 2, start balance 4: a user
  can hold a buy and two sales of different size, and can run out of money.
- *SendCoin*: two users, two records, two coins (one a token, the other the
  fee coin), amounts to 2, fees 0 and 1, one crash, one lost answer, two
  payments per record: two withdrawals of one user meet in the fee coin, and a
  record can be paid twice if the code lets it. Users and records are symmetric.
- *MallOrder*: two users, two orders, one good. `Races` has two threads, one
  piece in stock and a cart row, so that every pair of handlers meets on the same
  rows; `Freeze` has one thread. Threads and orders are symmetric.
- *ShopClose*: the same shop with one thread for requests, two orders, a cart
  row and one fault; the award balance pays for one of two orders, so a
  confirmation can be refused.
- *Seller*: one seller, two consoles, one phone, two goods with one allowed on
  sale, two applications, five other requests, one crash, the user form at any time
  and as often as one likes: a shop can be opened, closed and opened again
  by either console, and the limit is reached at once. Consoles and goods are
  symmetric.
- *ReleaseAward*: one user above and one at the minimum, rates 0 and 50, three
  days, two purchases, one failure, one crash.
- *BlockSync*: three transactions (one that pays two users, one that names a
  stranger first and whose details may be missing, one that used all its gas),
  four blocks of one at most, one fork of any depth, one exception, one crash, two
  blocks per run (1000 in the code), one confirmation (12 in the code) or none.
  Four blocks exceed what one run does, so the break happens; `Backlog` equals the
  height because 2000 blocks do not pass before the first scan.
- *EosSync*: two users, two actions of one transaction or two, pages of two (ten
  in the code) that the node may cut, two threads with three requests, two
  faults: a page can be read again twice, and both users can come to have two rows.
- *Gather*: two addresses, three payments of 1 or 2, a minimum of 2, three faults:
  two small payments make an address worth gathering, two records of one address
  follow each other in a walk, and a failed address can fail again, twice.

Deadlock checking is off where a model stops when its bounded identifiers,
days, requests or blocks are used up. `Gather` and `Seller` check it: the timer
starts a new walk for ever, and no request waits for another.

### Fairness

`ReleaseAward` assumes `WF(Job)`: the cron triggers fire every half hour for ever
and a started run goes on. `BlockSync` assumes `WF(Scan)`: the scan thread loops
for ever, sleeps between runs and catches every `Throwable` (`EthSync.run`);
`EosSync` the same of its thread (`EosSync.run`). `Gather` assumes that the timer
fires every night, that a walk goes on, and that the scanner records every
payment, which `BlockSync` shows of those the scanner sees; a payment it passes
over is none of `Gather`'s. Failures, crashes, users, admins and the chain have no
fairness.

## 4. Proofs

Every theorem rests on the assumptions on the constants its model names
(`PlatAssumption`, `SendAssumption`, ...) and on nothing else; only
`NothingSkipped` and the last three of `ShopCloseProofs` have hypotheses of their
own, named there. The assumptions say that bounds are natural numbers, that sets
of names do not clash, and what the constant tables look like. Beyond that:
`ReleaseAward` needs at least one day, `Page` and `MaxCount` of the scanners are
positive, the orders and the cart of `MallOrder`, the addresses of `Gather` and
the clients of `Seller` are finite sets. Users, coins, records, goods and threads
may be any sets.

Where a property is not inductive, the stronger invariant was first given to TLC
on the run's instance (`Seller` also with two sellers), then proved in the
steps `InitInv`, `NextInv` and `Inv => property`.

**`PlatOrderProofs`.** `TypeCorrect`, `BillsCorrect`, `BalancesCorrect`,
`ClosedStaysClosed`, `ImplementsEscrow`. The invariant is
`Inv == TypeOK /\ BillsMatchStatus`. `TypeOK` alone is inductive;
`BillsMatchStatus` needs it for arithmetic on the rows. One lemma per
operation shows `Inv` preserved; `ChangeForType`, `SetStatusRow` and `OneOrder`
reduce each to what happens to a single order. The refinement maps a row to the
phase of the escrow and shows that each operation is one escrow step or a
stutter; `BillsMatchStatus` supplies the net effect the escrow step starts from.
`BalancesCorrect` is inductive relative to `Inv`: a step changes one summand.

**`SendCoinProofs`.** `TypeCorrect`, `BillsCorrect`, `PaidCorrect`, `FreezeCorrect`,
`ImplementsEscrow` (two escrows, for amount and fee). `transferCheckPass` is
three steps, so `Inv` is `TypeOK` and, for every record, `InFlight` (a record whose
payment is under way still waits: the row lock keeps it so), `Billed`,
`HashIsPayment` (a hash that was answered or stored means a payment) and `TokenPaid`,
which counts the payment whose answer is not stored yet. Without the last,
`PaidAsRecorded` says nothing of the states between the call and the commit.

**`ReleaseAwardProofs`.** `TypeCorrect`, `ConservesCorrect`, `OncePerDayCorrect`.
`MovesFit` says that what a run has moved was tested against rows nobody has
changed since, which the row locks ensure; without it a commit could make a
balance negative. `RunIsDue` and `ServedIsDone` say that a run exists only while its
day is open and that, until a run fails, whoever was served has closed the day.

**`DepositProofs`.** Of `BlockSync`: `TypeCorrect`, `NeverCreditedTwice` (`CreditedOnce`),
`CreditsSurviveForks` (`CreditedIsOnChain`), and `NothingSkipped` (`CursorCovers`) if
`Backlog >= MaxHeight`: without that the very first scan starts in the middle of
the chain, and what lies before it is passed over on purpose.
`CreditedIsOnChain` is not inductive: a scan holds blocks it fetched before a
fork. The invariant is `Inv == TypeOK /\ RunOK /\ TipKept /\ CreditsDeep /\
CreditedOnce`. With `Behind` the first block too close to the highest tip there
has been, `RunOK` says that a scan's range ends at or before `Behind` and that
the block it is in is still the chain's; `TipKept` that the chain is never
shorter than `top - depth`; `CreditsDeep` that a credited payment is in a block
below `Behind`. `Shallow` means that forks only replace blocks at or above
`Behind`, so that none of these is disturbed. For the cursor,
`Covers` adds that every block passed by the cursor or by the running scan is
done, and so is the part of the open block the scan has dealt with; that makes
the cursor right both at the end of a scan and at an exception in the middle of
a block.

Of `Gather`: `GatherTypeCorrect`, `OverlookedCorrect` (`NothingOverlooked`) and
`FuelCorrect` (`FuelIsNotPiledUp`). `NothingOverlooked` speaks of the stored cursor,
which in a walk is about to be set to the walk's own place. So `Ahead` says the same
of the later of the two, `Passed`: an address worth gathering that is not `missed`
and has no payment outstanding has a record after it; a crash only falls back to the
cursor. What an address holds is counted without the tokens a failed call is
taking away (`Waiting`), and `InFlight` says that these are there to be taken, with
fuel for them. Passing a record is right because little is waiting at the address,
which `SentIsLow` says of those gathered in this walk, and that rests on `ReadIsHeld`:
what the walk is about to move covers all that waits there, unless a payment came
after it was read; for tokens it may be gone since, and the second transfer fails.
`FuelServes` says what `stray` means for each task: in the token task it counts at
least the fuel in flight, in the USDT task an address has one piece more
than `stray` only while its transfer is in hand.

**`EosSyncProofs`.** `TypeCorrect`, `BalanceCorrect`, `CursorCorrect`,
`DuplicateCorrect`. The cursor jumps over a whole page at once, and reading a page
drops duplicates. `PageCovers` says what becomes of each action of the page:
it is still to do, it stands behind one of its transaction that is, or it is
covered. `DuplicateNeedsMemo` is inductive once the requests are known to have
the shapes of `AskShape`.

**`ShopCloseProofs`.** Of `MallOrder`: `MallTypeCorrect`, `MallLedgerCorrect`. Of
`ShopClose`: `CloseTypeCorrect`, `CloseLedgerCorrect`, `FaultCutsCorrect`. A confirmation
books five fields (price taken, seller, rebate, two inviters), and `Follows` says
that a ledger is what the number of bookings per field and order makes it. It is
stated for any ledger, table and counts, because `confirmOrder` passes through
five ledgers in one step and a closing does the same in five steps, where
a fault may stop it: `Owed` says which credits are then `short`. Handlers book
amounts from rows they read earlier, and another handler may have written
the row since; `SameDeal` says that buyer, good, number and price still agree,
and the status, which need not agree, is not used for amounts.

Three more, `ClosingBooksCorrect`, `FaultRepeatsCorrect` and `ClosingEndsCorrect`, are
about what a closing leaves behind where requests did not overlap it. Their
hypothesis `OneClient` is one thread and orderly clients; `ClosingEndsCorrect` also
has `BuyRebate <= 100`. The run has both, and without them the properties fail
for reasons that are not the closing's: two payments lose an update of the stock
between themselves; `sendOrder` accepts a finished order, which is then
confirmed again; and a rebate above the price would let a later confirmation make
a buyer rich enough for an order the closing had already passed over. Users,
goods, orders, prices, the other rates, stock and the number of faults stay
arbitrary. The invariant is `BooksInv`:

- `BooksKept`, while nothing overlapped or failed: stock plus the pieces of live
  orders, and off the shelf at the moment, is the first stock; sales plus what is
  still unsold are the pieces of finished orders; a user's frozen money
  is the total of his orders without a refund; and each order is booked once when
  it is finished or refunded. All are sums over `Orders`, so a statement that touches
  one order changes one share (`TotalAt`), and a payment of a cart
  one share per line (`SumSpread`). The statement at hand decides what is booked and
  not yet entered elsewhere (`Charged`, `Repaid`, `OffShelf`, `Unsold`).
- `Calm`, while nothing overlapped: a closing has the mall to itself, what it or a
  request has read is still true, and the bookings of all orders exceed the closed
  orders by no more than the faults and the order in doubt (`Extras`). A fault
  between booking and closing an order is what makes a later closing book it again,
  and it raises `faults` by as much.
- `Covered`, while a closing goes on: an open order of the seller is still on
  the list, in hand, due for a later list, or its buyer was too poor. The last
  stays true because `Coming`, the rebate on its way, never exceeds what was paid.

**`SellerProofs`.** `TypeCorrect`, `OpeningCorrect`, `RewardCorrect`, `PassedCorrect`,
`OnSaleCorrect`. What survives overlapping requests is counting: the requests at
a place of the handler account for the gap between two tables (`Counts`: rewards
of level one exceed those of level two by at least the requests in between; the shop
rows and the requests about to insert one are no more than the clients), and no
request gets past the shop before there is one (`HasShop`). The user form may write
the permit between any two of them; `HasShop` and the agreement of permit and
application therefore speak of users without `byForm`, which only the end of an
opening or closing clears, when the shop row and the application are known to fit. What
needs requests not to overlap is said in `SerialOK` of the only request
that concerns a user: how far it is decides what application, permit and
goods may be; `Serial` demands it of users without `mixed` requests.

**Sums.** Several properties say that a balance is a sum over a table.
`SumTheorems` proves that `SumFunctionOnSet`, a fold in an arbitrary order,
changes by a row's share when that row is inserted or rewritten, grows by a sum
when several rows are inserted at once (`SumSpread`), and is no larger where its terms
are not (`SumAtMost`). The
library's induction theorems take the induction hypothesis as an operator, which
the provers cannot instantiate; so induction is used in its set form,
`MinimalSet`: a non-empty set of finite sets has a minimal member.

**Only model-checked.** Liveness (`DueIsReleasedIfAlwaysSome`, `DeepIsCredited`,
`DepositsAreCredited`, `GatheredInTheEnd`), because the prover has no fairness.
Every other property of the passing runs is stated by a theorem.

## 5. Plan

1. *Done*: ledger, escrow and all models of section 2; the theorems of section 4.
2. *Models*: filling the cart, the resubmission guard.

## 6. Not modelled

Login, SMS and captchas, statistics, articles, advertisements, pictures and the
crawler keep no state the properties above depend on or are pure I/O. Editing
goods, shops, notices and delivery addresses changes single rows that nothing
else reads back. The blockchain clients and the Guns framework are third-party;
the nodes' answers appear as nondeterministic choices.

By lines most of the repository is JavaScript, but nearly all of that is vendored
(webuploader, bootstrap-table, layer, ztree, jQuery and their plug-ins) or a copy
of it under `src/guns/target`. The repository's own JavaScript are the console
pages under `static/webadmin`: forms and tables over one database table each,
generated after one pattern. The pages that take part in a protocol with other
actors, `user.js`, `tMallApply_info.js` and `tMallGood.js`, are in `Seller`; the
rest of the system's logic is Java, and that is what the models cover. Prices,
fees and rates are constants or free inputs. `PROJECT.json` lists every part with
its status.
