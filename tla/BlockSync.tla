----------------------------- MODULE BlockSync -----------------------------
(***************************************************************************)
(* The deposit scanners: EthService, UsdtService and BitcoinService all    *)
(* run the same loop in a thread of their own (EthSync, UsdtSync,          *)
(* BitcoinSync).  A run reads the height of the chain and the block synced *)
(* last (a config row), walks the blocks in between, credits every payment *)
(* to a platform address (ReceivedCoinService.addTransaction, one database *)
(* transaction per payment) and writes the cursor once, at the end.        *)
(*                                                                         *)
(* The services differ in how many blocks they stay behind the tip (12 for *)
(* ETH, none for the others, which have it commented out), in whether an   *)
(* idle run returns early, and in how they look for the payment in a       *)
(* transaction: EthService reads the receipt of a token transfer and gives *)
(* up on one that used all its gas, or whose first log names a stranger;   *)
(* BitcoinService passes over strangers among the outputs.  svc is the     *)
(* service a behaviour is about.                                           *)
(*                                                                         *)
(* Forks may be of any depth.  top and depth record how deep they have     *)
(* been, so that the properties can say which forks a scanner survives.    *)
(***************************************************************************)
EXTENDS Integers, Sequences, FiniteSets

CONSTANTS
  Txs,            \* transactions on the chain
  Users,
  Receivers,      \* Receivers[t], whom the logs or outputs of t name, in order:
                  \* users, and others for addresses that are not the platform's
  OutOfGas,       \* token transfers that used all the gas they were allowed
  Elusive,        \* transactions whose details the node may fail to find
  Services,       \* the scanners: what each subtracts from the height, whether an
                  \* idle run returns before it writes the cursor, and whether it
                  \* reads the logs of receipts
  Backlog,        \* blocks to go back when there is no cursor (2000)
  MaxCount,       \* blocks of one run (1000)
  MaxHeight,      \* bound: height of the chain
  MaxPerBlock,    \* bound: payments of one block
  MaxReorgs,      \* bound: reorganisations
  MaxFaults,      \* bound: exceptions during a run
  MaxCrashes      \* bound: deaths of the process

ASSUME SyncAssumption ==
  /\ DOMAIN Receivers = Txs /\ \A t \in Txs : DOMAIN Receivers[t] \subseteq Nat
  /\ OutOfGas \subseteq Txs /\ Elusive \subseteq Txs
  /\ Services \subseteq
       [confirmations : Nat, skipsIdle : BOOLEAN, readsLogs : BOOLEAN]
  /\ Backlog \in Nat /\ MaxCount \in Nat \ {0}
  /\ MaxHeight \in Nat /\ MaxPerBlock \in Nat
  /\ MaxReorgs \in Nat /\ MaxFaults \in Nat /\ MaxCrashes \in Nat

VARIABLES
  chain,    \* the chain the node serves: a sequence of sets of transactions
  top,      \* the greatest height the chain has had
  depth,    \* the greatest number of blocks below top a fork has replaced
  svc,      \* the scanner, fixed from the start
  cursor,   \* config bc.last.sync...: the block synced last, or NoCursor
  run,      \* the running scan, or NoRun
  credits,  \* credits[t][u], number of addTransaction calls for t and u
  budget    \* what is left of the bounds

vars == <<chain, top, depth, svc, cursor, run, credits, budget>>

NoCursor == -1
NoRun == [active |-> FALSE]

\* A running scan: the next block, the end of its range, the blocks it has
\* done, whether it is inside a block, and what is left of that block.
Scanning == [cur : 1 .. MaxHeight + 1, to : Int, count : 0 .. MaxCount,
             open : BOOLEAN, left : SUBSET Txs]

OnChain(t) == \E h \in 1 .. Len(chain) : t \in chain[h]

TypeOK ==
  /\ chain \in Seq(SUBSET Txs) /\ Len(chain) <= MaxHeight
  /\ top \in Len(chain) .. MaxHeight /\ depth \in 0 .. top
  /\ svc \in Services
  /\ cursor \in NoCursor .. MaxHeight
  /\ credits \in [Txs -> [Users -> Nat]]
  /\ run # NoRun => run \in Scanning

Init ==
  /\ chain = <<>>
  /\ top = 0
  /\ depth = 0
  /\ svc \in Services
  /\ cursor = NoCursor
  /\ run = NoRun
  /\ credits = [t \in Txs |-> [u \in Users |-> 0]]
  /\ budget = [reorgs |-> MaxReorgs, faults |-> MaxFaults, crashes |-> MaxCrashes]

-----------------------------------------------------------------------------
(***************************************************************************)
(* The chain.                                                              *)
(***************************************************************************)

Mine(b) ==
  /\ Len(chain) < MaxHeight
  /\ \A t \in b : ~OnChain(t)
  /\ chain' = Append(chain, b)
  /\ top' = IF Len(chain) = top THEN top + 1 ELSE top
  /\ UNCHANGED <<depth, svc, cursor, run, credits, budget>>

\* The blocks above n are abandoned; their transactions may be mined again.
Reorg(n) ==
  /\ budget.reorgs > 0
  /\ n \in 0 .. Len(chain) - 1
  /\ chain' = SubSeq(chain, 1, n)
  /\ depth' = IF top - n > depth THEN top - n ELSE depth
  /\ budget' = [budget EXCEPT !.reorgs = budget.reorgs - 1]
  /\ UNCHANGED <<top, svc, cursor, run, credits>>

-----------------------------------------------------------------------------
(***************************************************************************)
(* The scanner.                                                            *)
(***************************************************************************)

\* getConfigValue with its default: without a cursor, go back some way.
LastSynced ==
  IF cursor # NoCursor THEN cursor
  ELSE IF Len(chain) > Backlog THEN Len(chain) - Backlog ELSE 0

\* "no need to sync": UsdtService and BitcoinService return here.
NothingToSync(to) == svc.skipsIdle /\ LastSynced + 1 >= to

StartRun(to) ==
  /\ run = NoRun
  /\ ~NothingToSync(to)
  /\ run' = [cur |-> LastSynced + 1, to |-> to, count |-> 0,
             open |-> FALSE, left |-> {}]
  /\ UNCHANGED <<chain, top, depth, svc, cursor, credits, budget>>

\* The confirmations left out, as in the two services that commented them out.
SyncToTip == StartRun(Len(chain))

\* The beginning of a run: the height, the cursor, the range.  (A failure
\* here ends the run without a trace.)
syncNewTransactions == StartRun(Len(chain) - svc.confirmations)

\* The condition of the loop and the break at 1000 blocks.
MoreBlocks == run.cur < run.to /\ run.count < MaxCount

\* syncBlock: the block is fetched once, with all its transactions.
syncBlock ==
  /\ run # NoRun
  /\ ~run.open /\ MoreBlocks
  /\ run.cur <= Len(chain)
  /\ run' = [run EXCEPT !.open = TRUE, !.left = chain[run.cur]]
  /\ UNCHANGED <<chain, top, depth, svc, cursor, credits, budget>>

\* A check that is always negative.
NeverExists(t) == FALSE

\* A payment of the transaction has been recorded.
isTransactionExist(t) == \E u \in Users : credits[t][u] > 0

\* The receivers the scanner looks at, and those of them it would credit.  The
\* loop over the logs ends with the first one, whoever it names (return, or
\* break after a credit); nothing is looked at in a receipt that counts as failed.
Looked(t) ==
  IF ~svc.readsLogs THEN DOMAIN Receivers[t]
  ELSE IF t \in OutOfGas THEN {} ELSE DOMAIN Receivers[t] \cap {1}
Paid(t) == {i \in Looked(t) : Receivers[t][i] \in Users}

\* Why syncTransaction credits nothing: the scanner sees no platform address
\* paid, the transaction is known, or the node does not find its details now (a
\* null receipt for ETH tokens, an HTTP 500 for Bitcoin), which is skipped like
\* a transaction of somebody else.
MustIgnore(t) == Paid(t) = {} \/ isTransactionExist(t)
MayIgnore(t) == t \in Elusive \/ MustIgnore(t)

\* The record and the credit, in one database transaction.
addTransaction(t, u) ==
  credits' = [credits EXCEPT ![t][u] = credits[t][u] + 1]

\* One transaction of the block.  Only the first user paid is credited: for the
\* others the transaction already exists.
syncTransaction(t) ==
  /\ run # NoRun
  /\ run.open /\ t \in run.left
  /\ run' = [run EXCEPT !.left = run.left \ {t}]
  /\ \/ MayIgnore(t) /\ UNCHANGED credits
     \/ /\ ~MustIgnore(t)
        /\ \E i \in Paid(t) : /\ \A j \in Paid(t) : i <= j
                            /\ addTransaction(t, Receivers[t][i])
  /\ UNCHANGED <<chain, top, depth, svc, cursor, budget>>

endBlock ==
  /\ run # NoRun
  /\ run.open /\ run.left = {}
  /\ run' = [run EXCEPT !.open = FALSE, !.cur = run.cur + 1,
                        !.count = run.count + 1]
  /\ UNCHANGED <<chain, top, depth, svc, cursor, credits, budget>>

\* The end of a run that takes the next block for the last one.
SaveNextBlock ==
  /\ run # NoRun
  /\ ~run.open /\ ~MoreBlocks
  /\ cursor' = run.cur
  /\ run' = NoRun
  /\ UNCHANGED <<chain, top, depth, svc, credits, budget>>

\* The end of a run that forgets the cursor.
SaveNothing ==
  /\ run # NoRun
  /\ ~run.open /\ ~MoreBlocks
  /\ run' = NoRun
  /\ UNCHANGED <<chain, top, depth, svc, cursor, credits, budget>>

\* The loop has ended; setConfigValue stores the last block done.
saveCursor ==
  /\ run # NoRun
  /\ ~run.open /\ ~MoreBlocks
  /\ cursor' = run.cur - 1
  /\ run' = NoRun
  /\ UNCHANGED <<chain, top, depth, svc, credits, budget>>

\* Why a step of the loop throws: the block is gone, or the node or the
\* database fails.
Throws ==
  \/ /\ ~run.open /\ run.cur > Len(chain)
     /\ UNCHANGED budget
  \/ /\ budget.faults > 0
     /\ budget' = [budget EXCEPT !.faults = budget.faults - 1]

\* A catch block that counts the block as done.
SkipFailedBlock ==
  /\ run # NoRun
  /\ run.open \/ MoreBlocks
  /\ Throws
  /\ cursor' = run.cur
  /\ run' = NoRun
  /\ UNCHANGED <<chain, top, depth, svc, credits>>

\* An exception ends the loop; the block is not counted as done.
failBlock ==
  /\ run # NoRun
  /\ run.open \/ MoreBlocks
  /\ Throws
  /\ cursor' = run.cur - 1
  /\ run' = NoRun
  /\ UNCHANGED <<chain, top, depth, svc, credits>>

\* The process dies, or the cursor cannot be written: the credits stay.
Crash ==
  /\ run # NoRun
  /\ budget.crashes > 0
  /\ budget' = [budget EXCEPT !.crashes = budget.crashes - 1]
  /\ run' = NoRun
  /\ UNCHANGED <<chain, top, depth, svc, cursor, credits>>

\* What the thread does by itself.
Scan ==
  \/ syncNewTransactions
  \/ syncBlock
  \/ \E t \in Txs : syncTransaction(t)
  \/ endBlock
  \/ saveCursor

Next ==
  \/ Scan
  \/ failBlock
  \/ Crash
  \/ \E b \in {s \in SUBSET Txs : Cardinality(s) <= MaxPerBlock} : Mine(b)
  \/ \E n \in 0 .. MaxHeight : Reorg(n)

\* The thread loops forever: it sleeps, scans, and catches every Throwable.
Fairness == WF_vars(Scan)

Spec == Init /\ [][Next]_vars /\ Fairness

-----------------------------------------------------------------------------
(***************************************************************************)
(* Properties.                                                             *)
(***************************************************************************)

\* A payment is credited at most once, although a run that dies after
\* addTransaction and before the cursor is written scans the same block
\* again, and a transaction may reappear in another block after a fork.
CreditedOnce == \A t \in Txs, u \in Users : credits[t][u] <= 1

\* No fork has reached below the blocks the scanner stays away from.
Shallow == depth <= svc.confirmations + 1

\* What was credited is still on the chain, unless a fork was deeper than
\* txConfirmCount plus the tip: exactly the forks the scanner's distance is
\* meant for take no credited payment away.  For USDT and Bitcoin, which have
\* the distance commented out, that leaves forks of one block.
CreditedIsOnChain ==
  Shallow => \A t \in Txs : isTransactionExist(t) => OnChain(t)

\* The cursor never passes a payment the scanner sees and credited nobody for:
\* the blocks below it are never looked at again, so the payment would be lost
\* for good.  Three kinds of payment are lost in exactly that way: those of
\* Elusive transactions, and with EthService the token transfers that used all
\* their gas and those behind a log that names a stranger.
CursorCovers ==
  Shallow =>
    \A h \in 1 .. cursor : \A t \in chain[h] \ Elusive :
      Paid(t) # {} => isTransactionExist(t)

\* t pays somebody as far as the scanner sees, and is deep enough for it to look.
Deep(t) ==
  /\ t \notin Elusive /\ Paid(t) # {} /\ Shallow
  /\ \E h \in 1 .. Len(chain) - svc.confirmations - 1 : t \in chain[h]

\* A deep payment the scanner sees is eventually credited, whatever exceptions
\* and crashes interrupt the scans and however many blocks there are to catch up
\* with.
DeepIsCredited ==
  \A t \in Txs : Deep(t) ~> (isTransactionExist(t) \/ ~Deep(t))
=============================================================================
