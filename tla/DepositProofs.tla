--------------------------- MODULE DepositProofs ----------------------------
(***************************************************************************)
(* Theorems about deposits: how they are recorded (BlockSync), for any     *)
(* number of transactions, users, blocks, confirmations and forks, and how *)
(* they are gathered (Gather), for all addresses, amounts, numbers of      *)
(* payments and faults.                                                    *)
(*                                                                         *)
(* For the scanners, the distance to the tip enters through Behind: a scan *)
(* only ever looks at blocks below it, and a fork that is Shallow only     *)
(* replaces blocks at or above it.                                         *)
(*                                                                         *)
(* That gathering overlooks no address is not inductive: a walk runs ahead *)
(* of the cursor, and for USDT far ahead.  The invariant says the same of  *)
(* the place the walk has reached (Ahead), and what makes the walk right   *)
(* to pass an address: what it has sent holds too little (SentIsLow),      *)
(* because it sends what it has read (ReadIsHeld).                         *)
(***************************************************************************)
EXTENDS BlockSync, Gather, SumTheorems, SequenceTheorems, TLAPS

\* The first block that is too close to the highest tip there has been.
Behind == top - svc.confirmations

\* What a running scan has in hand: its range ends at or before Behind, and
\* an open block is in the range and, unless a deep fork took it, still what
\* the chain has there.
RunOK ==
  run # NoRun =>
    /\ run.to <= Behind
    /\ run.open => /\ run.cur < run.to /\ run.count < MaxCount
                   /\ Shallow => run.left \subseteq chain[run.cur]

\* The chain never falls back further than the deepest fork.
TipKept == Len(chain) >= top - depth

\* A credited payment sits in a block no shallow fork reaches.
CreditsDeep ==
  Shallow =>
    \A t \in Txs : isTransactionExist(t) =>
      \E h \in 1 .. Len(chain) : h < Behind /\ t \in chain[h]

Inv == TypeOK /\ RunOK /\ TipKept /\ CreditsDeep /\ CreditedOnce

\* Nothing in block h is waiting for a credit, except for what is in S.
Done(h, S) ==
  \A t \in chain[h] : t \notin S /\ t \notin Elusive /\ Paid(t) # {} =>
    isTransactionExist(t)

\* The blocks the cursor has passed are done, and so are those the running
\* scan has passed and the part of the open block it has dealt with.
Covers ==
  Shallow =>
    /\ \A h \in 1 .. cursor : h < Behind /\ Done(h, {})
    /\ run # NoRun =>
         /\ \A h \in 1 .. run.cur - 1 : h < Behind /\ Done(h, {})
         /\ run.open => Done(run.cur, run.left)

-----------------------------------------------------------------------------
(***************************************************************************)
(* Numbers and the chain.                                                  *)
(***************************************************************************)

LEMMA Numbers ==
  ASSUME TypeOK
  PROVE  /\ svc.confirmations \in Nat /\ MaxHeight \in Nat
         /\ Len(chain) \in Nat /\ top \in Nat /\ depth \in Nat
         /\ Len(chain) <= top /\ top <= MaxHeight
         /\ cursor \in Int /\ cursor <= MaxHeight
         /\ Behind \in Int /\ Behind <= top
<1>1. svc.confirmations \in Nat /\ MaxHeight \in Nat
  BY SyncAssumption DEF TypeOK
<1>2. Len(chain) \in Nat
  BY LenProperties DEF TypeOK
<1>. QED BY <1>1, <1>2 DEF TypeOK, Behind, NoCursor

\* The blocks below Behind exist as long as forks are shallow.
LEMMA BelowBehind ==
  ASSUME TypeOK, TipKept, Shallow, NEW h \in Int, h < Behind
  PROVE  h <= Len(chain)
BY Numbers DEF TipKept, Shallow, Behind

LEMMA MineChain ==
  ASSUME TypeOK, NEW b \in SUBSET Txs, Mine(b)
  PROVE  /\ chain' \in Seq(SUBSET Txs)
         /\ Len(chain') = Len(chain) + 1
         /\ \A h \in 1 .. Len(chain) : chain'[h] = chain[h]
BY AppendProperties DEF TypeOK, Mine

LEMMA ReorgChain ==
  ASSUME TypeOK, NEW n \in Int, Reorg(n)
  PROVE  /\ chain' \in Seq(SUBSET Txs)
         /\ Len(chain') = n
         /\ \A h \in 1 .. n : chain'[h] = chain[h]
<1>1. n >= 0 /\ n <= Len(chain) - 1 /\ chain' = SubSeq(chain, 1, n) /\ Len(chain) \in Nat
  BY Numbers DEF Reorg
<1>2. \A i \in 1 .. n : chain[i] \in SUBSET Txs
  <2>. SUFFICES ASSUME NEW i \in 1 .. n PROVE chain[i] \in SUBSET Txs
    OBVIOUS
  <2>1. i \in 1 .. Len(chain)
    BY <1>1
  <2>. QED BY <2>1, ElementOfSeq DEF TypeOK
<1>3. /\ SubSeq(chain, 1, n) \in Seq(SUBSET Txs)
      /\ Len(SubSeq(chain, 1, n)) = IF 1 <= n THEN n - 1 + 1 ELSE 0
      /\ \A i \in 1 .. n - 1 + 1 : SubSeq(chain, 1, n)[i] = chain[1 + i - 1]
  BY <1>2, SubSeqProperties
<1>. QED BY <1>1, <1>3

-----------------------------------------------------------------------------
(***************************************************************************)
(* Inv is inductive.                                                       *)
(***************************************************************************)

LEMMA InitInv == Init => Inv
<1>. SUFFICES ASSUME Init PROVE Inv
  OBVIOUS
<1>1. chain \in Seq(SUBSET Txs) /\ Len(chain) = 0
  BY EmptySeq DEF Init
<1>2. MaxHeight \in Nat
  BY SyncAssumption
<1>3. TypeOK
  BY <1>1, <1>2 DEF Init, TypeOK, NoCursor
<1>4. \A t \in Txs, u \in Users : credits[t][u] = 0
  BY DEF Init
<1>. QED
  BY <1>1, <1>3, <1>4
     DEF Init, Inv, RunOK, TipKept, CreditsDeep, CreditedOnce, isTransactionExist

LEMMA MineInv ==
  ASSUME Inv, NEW b \in SUBSET Txs, Mine(b)
  PROVE  Inv'
<1>1. /\ chain' \in Seq(SUBSET Txs)
      /\ Len(chain') = Len(chain) + 1
      /\ \A h \in 1 .. Len(chain) : chain'[h] = chain[h]
  BY MineChain DEF Inv
<1>2. /\ Len(chain) < MaxHeight
      /\ top' = IF Len(chain) = top THEN top + 1 ELSE top
      /\ UNCHANGED <<depth, svc, cursor, run, credits, budget>>
  BY DEF Mine
<1>3. /\ TypeOK /\ Len(chain) \in Nat /\ top \in Nat /\ depth \in Nat
      /\ MaxHeight \in Nat /\ Len(chain) <= top /\ top <= MaxHeight
      /\ svc.confirmations \in Nat
  BY Numbers DEF Inv
<1>4. top <= top' /\ top' \in Nat /\ Len(chain') <= top' /\ top' <= MaxHeight
  BY <1>1, <1>2, <1>3
<1>5. TypeOK'
  BY <1>1, <1>2, <1>3, <1>4 DEF TypeOK
<1>6. Behind <= Behind' /\ Behind \in Int /\ Behind' \in Int
  BY <1>2, <1>3, <1>4 DEF Behind
<1>7. Shallow' = Shallow
  BY <1>2 DEF Shallow
<1>8. TipKept'
  BY <1>1, <1>2, <1>3 DEF Inv, TipKept
<1>9. RunOK'
  <2>. SUFFICES ASSUME run # NoRun
                PROVE  /\ run.to <= Behind'
                       /\ run.open => /\ run.cur < run.to /\ run.count < MaxCount
                                      /\ Shallow => run.left \subseteq chain'[run.cur]
    BY <1>2, <1>7 DEF RunOK
  <2>1. run \in Scanning /\ run.to <= Behind
    BY DEF Inv, TypeOK, RunOK
  <2>2. run.to \in Int /\ run.cur \in Int /\ 1 <= run.cur
    BY <1>3, <2>1 DEF Scanning
  <2>3. run.to <= Behind'
    BY <1>6, <2>1, <2>2
  <2>4. ASSUME run.open, Shallow
        PROVE  run.left \subseteq chain'[run.cur]
    <3>1. run.cur < Behind
      BY <2>1, <2>2, <2>4, <1>6 DEF Inv, RunOK
    <3>2. run.cur \in 1 .. Len(chain)
      BY <1>3, <2>2, <2>4, <3>1, BelowBehind DEF Inv
    <3>. QED BY <1>1, <3>2, <2>4 DEF Inv, RunOK
  <2>. QED BY <2>3, <2>4 DEF Inv, RunOK
<1>10. CreditsDeep'
  <2>. SUFFICES ASSUME Shallow, NEW t \in Txs, isTransactionExist(t)
                PROVE  \E h \in 1 .. Len(chain') : h < Behind' /\ t \in chain'[h]
    BY <1>2, <1>7 DEF CreditsDeep, isTransactionExist
  <2>1. PICK h \in 1 .. Len(chain) : h < Behind /\ t \in chain[h]
    BY DEF Inv, CreditsDeep
  <2>2. h \in 1 .. Len(chain') /\ h < Behind' /\ t \in chain'[h]
    BY <1>1, <1>3, <1>6, <2>1
  <2>. QED BY <2>2
<1>11. CreditedOnce'
  BY <1>2 DEF Inv, CreditedOnce
<1>. QED BY <1>5, <1>8, <1>9, <1>10, <1>11 DEF Inv

\* A fork that is still shallow afterwards leaves the blocks below Behind.
LEMMA ReorgKeeps ==
  ASSUME TypeOK, NEW n \in Int, Reorg(n)
  PROVE  /\ TypeOK' /\ TipKept'
         /\ Behind' = Behind
         /\ Shallow' => Shallow /\ Behind - 1 <= n
<1>1. /\ chain' \in Seq(SUBSET Txs)
      /\ Len(chain') = n
      /\ \A h \in 1 .. n : chain'[h] = chain[h]
  BY ReorgChain
<1>2. /\ n >= 0 /\ n <= Len(chain) - 1
      /\ depth' = IF top - n > depth THEN top - n ELSE depth
      /\ UNCHANGED <<top, svc, cursor, run, credits>>
  BY Numbers DEF Reorg
<1>3. /\ Len(chain) \in Nat /\ top \in Nat /\ depth \in Nat
      /\ MaxHeight \in Nat /\ Len(chain) <= top /\ top <= MaxHeight
      /\ svc.confirmations \in Nat
  BY Numbers
<1>4. depth' \in Nat /\ depth' <= top /\ depth' >= depth /\ depth' >= top - n
  BY <1>2, <1>3 DEF TypeOK
<1>5. TypeOK'
  BY <1>1, <1>2, <1>3, <1>4 DEF TypeOK
<1>6. TipKept'
  BY <1>1, <1>2, <1>3, <1>4 DEF TipKept
<1>7. Behind' = Behind
  BY <1>2 DEF Behind
<1>8. Shallow' => Shallow /\ Behind - 1 <= n
  BY <1>2, <1>3, <1>4 DEF Shallow, Behind
<1>. QED BY <1>5, <1>6, <1>7, <1>8

LEMMA ReorgInv ==
  ASSUME Inv, NEW n \in Int, Reorg(n)
  PROVE  Inv'
<1>1. Len(chain') = n /\ \A h \in 1 .. n : chain'[h] = chain[h]
  BY ReorgChain DEF Inv
<1>2. UNCHANGED <<top, svc, cursor, run, credits>>
  BY DEF Reorg
<1>3. /\ TypeOK /\ TypeOK' /\ TipKept'
      /\ Behind' = Behind /\ Behind \in Int
      /\ Shallow' => Shallow /\ Behind - 1 <= n
  BY ReorgKeeps, Numbers DEF Inv
<1>4. RunOK'
  <2>. SUFFICES ASSUME run # NoRun
                PROVE  /\ run.to <= Behind
                       /\ run.open => /\ run.cur < run.to /\ run.count < MaxCount
                                      /\ Shallow' => run.left \subseteq chain'[run.cur]
    BY <1>2, <1>3 DEF RunOK
  <2>1. run \in Scanning /\ run.to <= Behind
    BY DEF Inv, TypeOK, RunOK
  <2>2. run.to \in Int /\ run.cur \in Int /\ 1 <= run.cur
    BY <1>3, <2>1, Numbers DEF Scanning
  <2>3. ASSUME run.open, Shallow'
        PROVE  run.left \subseteq chain'[run.cur]
    <3>1. run.cur < run.to /\ run.left \subseteq chain[run.cur]
      BY <1>3, <2>3 DEF Inv, RunOK
    <3>2. run.cur \in 1 .. n
      BY <1>3, <2>1, <2>2, <2>3, <3>1
    <3>. QED BY <1>1, <3>1, <3>2
  <2>. QED BY <2>1, <2>3 DEF Inv, RunOK
<1>5. CreditsDeep'
  <2>. SUFFICES ASSUME Shallow', NEW t \in Txs, isTransactionExist(t)
                PROVE  \E h \in 1 .. Len(chain') : h < Behind /\ t \in chain'[h]
    BY <1>2, <1>3 DEF CreditsDeep, isTransactionExist
  <2>1. PICK h \in 1 .. Len(chain) : h < Behind /\ t \in chain[h]
    BY <1>3 DEF Inv, CreditsDeep
  <2>2. h \in 1 .. n
    BY <1>3, <2>1
  <2>. QED BY <1>1, <2>1, <2>2
<1>6. CreditedOnce'
  BY <1>2 DEF Inv, CreditedOnce
<1>. QED BY <1>3, <1>4, <1>5, <1>6 DEF Inv

-----------------------------------------------------------------------------
(***************************************************************************)
(* The scanner's own steps leave the chain alone.                          *)
(***************************************************************************)

LEMMA ScanFrame ==
  ASSUME UNCHANGED <<chain, top, depth, svc>>
  PROVE  /\ Behind' = Behind
         /\ Shallow' = Shallow
         /\ TipKept' = TipKept
BY DEF Behind, Shallow, TipKept

\* The steps that end a run without a credit; the new cursor is in range.
LEMMA EndRunInv ==
  ASSUME Inv, UNCHANGED <<chain, top, depth, svc, credits>>, run' = NoRun,
         cursor' \in NoCursor .. MaxHeight
  PROVE  Inv'
<1>1. Behind' = Behind /\ Shallow' = Shallow /\ TipKept' = TipKept
  BY ScanFrame
<1>2. TypeOK'
  BY DEF Inv, TypeOK
<1>3. CreditsDeep'
  BY <1>1 DEF Inv, CreditsDeep, isTransactionExist
<1>. QED BY <1>1, <1>2, <1>3 DEF Inv, RunOK, CreditedOnce

LEMMA StartInv ==
  ASSUME Inv, syncNewTransactions
  PROVE  Inv'
<1>. DEFINE to == Len(chain) - svc.confirmations
<1>1. /\ run' = [cur |-> LastSynced + 1, to |-> to, count |-> 0,
                 open |-> FALSE, left |-> {}]
      /\ UNCHANGED <<chain, top, depth, svc, cursor, credits, budget>>
  BY DEF syncNewTransactions, StartRun
<1>2. /\ TypeOK /\ Len(chain) \in Nat /\ top \in Nat
      /\ MaxHeight \in Nat /\ Len(chain) <= top /\ top <= MaxHeight
      /\ svc.confirmations \in Nat /\ cursor \in NoCursor .. MaxHeight
  BY Numbers DEF Inv, TypeOK
<1>3. Backlog \in Nat /\ MaxCount \in Nat
  BY SyncAssumption
<1>4. LastSynced \in 0 .. MaxHeight
  BY <1>2, <1>3 DEF LastSynced, NoCursor
<1>5. to \in Int /\ to <= Behind
  BY <1>2 DEF Behind
<1>6. run' \in Scanning
  BY <1>1, <1>2, <1>3, <1>4, <1>5 DEF Scanning
<1>7. Behind' = Behind /\ Shallow' = Shallow /\ TipKept' = TipKept
  BY <1>1, ScanFrame
<1>8. TypeOK'
  BY <1>1, <1>2, <1>6 DEF TypeOK
<1>9. RunOK'
  BY <1>1, <1>5, <1>7 DEF RunOK
<1>10. CreditsDeep'
  BY <1>1, <1>7 DEF Inv, CreditsDeep, isTransactionExist
<1>. QED BY <1>1, <1>7, <1>8, <1>9, <1>10 DEF Inv, CreditedOnce

LEMMA SyncBlockInv ==
  ASSUME Inv, syncBlock
  PROVE  Inv'
<1>1. /\ run # NoRun /\ run.cur < run.to /\ run.count < MaxCount
      /\ run.cur <= Len(chain)
      /\ run' = [run EXCEPT !.open = TRUE, !.left = chain[run.cur]]
      /\ UNCHANGED <<chain, top, depth, svc, cursor, credits, budget>>
  BY DEF syncBlock, MoreBlocks
<1>2. run \in Scanning /\ run.to <= Behind
  BY <1>1 DEF Inv, TypeOK, RunOK
<1>3. run.cur \in 1 .. Len(chain)
  BY <1>1, <1>2, Numbers DEF Scanning, Inv
<1>4. chain[run.cur] \in SUBSET Txs
  BY <1>3, ElementOfSeq DEF Inv, TypeOK
<1>5. /\ run' \in Scanning /\ run'.to = run.to /\ run'.cur = run.cur
      /\ run'.count = run.count /\ run'.left = chain[run.cur]
  BY <1>1, <1>2, <1>4 DEF Scanning
<1>6. Behind' = Behind /\ Shallow' = Shallow /\ TipKept' = TipKept
  BY <1>1, ScanFrame
<1>7. TypeOK'
  BY <1>1, <1>5 DEF Inv, TypeOK
<1>8. RunOK'
  BY <1>1, <1>2, <1>5, <1>6 DEF RunOK
<1>9. CreditsDeep'
  BY <1>1, <1>6 DEF Inv, CreditsDeep, isTransactionExist
<1>. QED BY <1>1, <1>6, <1>7, <1>8, <1>9 DEF Inv, CreditedOnce

\* What a step does to the credits: nothing, or a first credit of t.
LEMMA Credited ==
  ASSUME Inv, NEW t \in Txs, syncTransaction(t)
  PROVE  /\ credits' \in [Txs -> [Users -> Nat]]
         /\ \A x \in Txs : x # t => credits'[x] = credits[x]
         /\ \A x \in Txs : isTransactionExist(x) => isTransactionExist(x)'
         /\ CreditedOnce'
         /\ t \in Elusive \/ Paid(t) = {} \/ isTransactionExist(t)'
<1>1. credits \in [Txs -> [Users -> Nat]]
  BY DEF Inv, TypeOK
<1>2. CASE MayIgnore(t) /\ UNCHANGED credits
  BY <1>1, <1>2 DEF Inv, CreditedOnce, isTransactionExist, MayIgnore,
                            MustIgnore
<1>3. ASSUME ~MustIgnore(t), NEW i \in Paid(t),
             addTransaction(t, Receivers[t][i])
      PROVE  /\ credits' \in [Txs -> [Users -> Nat]]
             /\ \A x \in Txs : x # t => credits'[x] = credits[x]
             /\ \A x \in Txs : isTransactionExist(x) => isTransactionExist(x)'
             /\ CreditedOnce'
             /\ isTransactionExist(t)'
  <2>. DEFINE u == Receivers[t][i]
  <2>1. u \in Users
    BY <1>3 DEF Paid
  <2>2. \A v \in Users : credits[t][v] = 0
    BY <1>1, <1>3 DEF MustIgnore, isTransactionExist
  <2>3. credits' = [credits EXCEPT ![t][u] = credits[t][u] + 1]
    BY <1>3 DEF addTransaction
  <2>4. credits'[t] \in [Users -> Nat] /\ credits'[t][u] = 1
        /\ \A v \in Users : v # u => credits'[t][v] = 0
    BY <1>1, <2>1, <2>2, <2>3
  <2>5. /\ credits' \in [Txs -> [Users -> Nat]]
        /\ \A x \in Txs : x # t => credits'[x] = credits[x]
    BY <1>1, <2>1, <2>3
  <2>6. isTransactionExist(t)'
    BY <2>1, <2>4 DEF isTransactionExist
  <2>7. \A x \in Txs : isTransactionExist(x) => isTransactionExist(x)'
    BY <2>5, <2>6 DEF isTransactionExist
  <2>8. CreditedOnce'
    BY <2>4, <2>5 DEF Inv, CreditedOnce
  <2>. QED BY <2>5, <2>6, <2>7, <2>8
<1>. QED BY <1>2, <1>3 DEF syncTransaction

LEMMA SyncTransactionInv ==
  ASSUME Inv, NEW t \in Txs, syncTransaction(t)
  PROVE  Inv'
<1>1. /\ run # NoRun /\ run.open /\ t \in run.left
      /\ run' = [run EXCEPT !.left = run.left \ {t}]
      /\ UNCHANGED <<chain, top, depth, svc, cursor, budget>>
  BY DEF syncTransaction
<1>2. /\ run \in Scanning /\ run.to <= Behind
      /\ run.cur < run.to /\ run.count < MaxCount
      /\ Shallow => run.left \subseteq chain[run.cur]
  BY <1>1 DEF Inv, TypeOK, RunOK
<1>3. /\ run' \in Scanning /\ run'.to = run.to /\ run'.cur = run.cur
      /\ run'.count = run.count /\ run'.left = run.left \ {t}
  BY <1>1, <1>2 DEF Scanning
<1>4. Behind' = Behind /\ Shallow' = Shallow /\ TipKept' = TipKept
  BY <1>1, ScanFrame
<1>5. TypeOK'
  BY <1>1, <1>3, Credited DEF Inv, TypeOK
<1>6. RunOK'
  BY <1>1, <1>2, <1>3, <1>4 DEF RunOK
<1>7. CreditsDeep'
  <2>. SUFFICES ASSUME Shallow, NEW x \in Txs, isTransactionExist(x)'
                PROVE  \E h \in 1 .. Len(chain) : h < Behind /\ x \in chain[h]
    BY <1>1, <1>4 DEF CreditsDeep
  <2>1. CASE x = t
    <3>1. run.cur \in Int /\ run.to \in Int /\ 1 <= run.cur
      BY <1>2, Numbers DEF Inv, Scanning
    <3>2. run.cur < Behind
      BY <1>2, <3>1, Numbers DEF Inv
    <3>3. run.cur \in 1 .. Len(chain)
      BY <3>1, <3>2, BelowBehind, Numbers DEF Inv
    <3>. QED BY <1>1, <1>2, <2>1, <3>2, <3>3
  <2>2. CASE x # t
    <3>1. isTransactionExist(x)
      BY <2>2, Credited DEF isTransactionExist
    <3>. QED BY <3>1 DEF Inv, CreditsDeep
  <2>. QED BY <2>1, <2>2
<1>. QED BY <1>4, <1>5, <1>6, <1>7, Credited DEF Inv

LEMMA EndBlockInv ==
  ASSUME Inv, endBlock
  PROVE  Inv'
<1>1. /\ run # NoRun /\ run.open
      /\ run' = [run EXCEPT !.open = FALSE, !.cur = run.cur + 1,
                            !.count = run.count + 1]
      /\ UNCHANGED <<chain, top, depth, svc, cursor, credits, budget>>
  BY DEF endBlock
<1>2. /\ run \in Scanning /\ run.to <= Behind
      /\ run.cur < run.to /\ run.count < MaxCount
  BY <1>1 DEF Inv, TypeOK, RunOK
<1>3. /\ run.cur \in 1 .. MaxHeight + 1 /\ run.count \in 0 .. MaxCount
      /\ run.to \in Int /\ MaxHeight \in Nat /\ MaxCount \in Nat
      /\ Behind \in Int /\ Behind <= MaxHeight
  BY <1>2, SyncAssumption, Numbers DEF Inv, Scanning
<1>4. run.cur + 1 \in 1 .. MaxHeight + 1 /\ run.count + 1 \in 0 .. MaxCount
  BY <1>2, <1>3
<1>5. run' \in Scanning /\ run'.to = run.to /\ ~run'.open
  BY <1>1, <1>2, <1>4 DEF Scanning
<1>6. Behind' = Behind /\ Shallow' = Shallow /\ TipKept' = TipKept
  BY <1>1, ScanFrame
<1>7. TypeOK'
  BY <1>1, <1>5 DEF Inv, TypeOK
<1>8. RunOK'
  BY <1>1, <1>2, <1>5, <1>6 DEF RunOK
<1>9. CreditsDeep'
  BY <1>1, <1>6 DEF Inv, CreditsDeep, isTransactionExist
<1>. QED BY <1>1, <1>6, <1>7, <1>8, <1>9 DEF Inv, CreditedOnce

\* saveCursor and failBlock write run.cur - 1, a crash writes nothing.
LEMMA StopInv ==
  ASSUME Inv, saveCursor \/ failBlock \/ Crash
  PROVE  Inv'
<1>1. /\ run # NoRun /\ run' = NoRun
      /\ UNCHANGED <<chain, top, depth, svc, credits>>
      /\ cursor' = run.cur - 1 \/ cursor' = cursor
  BY DEF saveCursor, failBlock, Crash
<1>2. run \in Scanning /\ MaxHeight \in Nat /\ cursor \in NoCursor .. MaxHeight
  BY <1>1, Numbers DEF Inv, TypeOK
<1>3. cursor' \in NoCursor .. MaxHeight
  BY <1>1, <1>2 DEF Scanning, NoCursor
<1>. QED BY <1>1, <1>3, EndRunInv

LEMMA NextInv == Inv /\ [Next]_vars => Inv'
<1>. SUFFICES ASSUME Inv, [Next]_vars PROVE Inv'
  OBVIOUS
<1>1. CASE Scan
  BY <1>1, StartInv, SyncBlockInv, SyncTransactionInv, EndBlockInv, StopInv
     DEF Scan
<1>2. CASE failBlock \/ Crash
  BY <1>2, StopInv
<1>3. CASE \E b \in {s \in SUBSET Txs : Cardinality(s) <= MaxPerBlock} : Mine(b)
  BY <1>3, MineInv
<1>4. CASE \E n \in 0 .. MaxHeight : Reorg(n)
  BY <1>4, ReorgInv
<1>5. CASE UNCHANGED vars
  <2>1. Behind' = Behind /\ Shallow' = Shallow /\ TipKept' = TipKept
    BY <1>5, ScanFrame DEF vars
  <2>2. TypeOK'
    BY <1>5 DEF vars, Inv, TypeOK
  <2>3. RunOK'
    BY <1>5, <2>1 DEF vars, Inv, RunOK
  <2>4. CreditsDeep' /\ CreditedOnce'
    BY <1>5, <2>1 DEF vars, Inv, CreditsDeep, CreditedOnce, isTransactionExist
  <2>. QED BY <2>1, <2>2, <2>3, <2>4 DEF Inv
<1>. QED BY <1>1, <1>2, <1>3, <1>4, <1>5 DEF Next

\* The cursor, the scan and the credits stay well formed: in particular the
\* cursor never runs past the chain's greatest height.
THEOREM TypeCorrect == Spec => []TypeOK
<1>1. Inv => TypeOK
  BY DEF Inv
<1>. QED BY InitInv, NextInv, <1>1, PTL DEF Spec

\* However often a block is scanned again after crashes and exceptions, and
\* wherever forks move a transaction, it is credited at most once.
THEOREM NeverCreditedTwice == Spec => []CreditedOnce
<1>1. Inv => CreditedOnce
  BY DEF Inv
<1>. QED BY InitInv, NextInv, <1>1, PTL DEF Spec

\* No fork of at most txConfirmCount + 1 blocks takes a credited payment off
\* the chain, whatever txConfirmCount is.
THEOREM CreditsSurviveForks == Spec => []CreditedIsOnChain
<1>1. Inv => CreditedIsOnChain
  BY DEF Inv, CreditsDeep, CreditedIsOnChain, OnChain
<1>. QED BY InitInv, NextInv, <1>1, PTL DEF Spec

-----------------------------------------------------------------------------
(***************************************************************************)
(* Nothing is skipped, provided the very first scan goes back to the first *)
(* block (Backlog): with a chain older than that the scanner is meant to   *)
(* leave out what is older.                                                *)
(***************************************************************************)

\* A scanner sees the same payments at all times.
LEMMA SamePaid ==
  ASSUME svc' = svc, NEW t
  PROVE  Paid(t)' = Paid(t)
BY DEF Paid, Looked

\* What is done is the same when neither blocks nor credits change.
LEMMA SameDone ==
  ASSUME UNCHANGED <<chain, svc, credits>>, NEW h, NEW S
  PROVE  Done(h, S)' <=> Done(h, S)
<1>1. \A t : Paid(t)' = Paid(t)
  BY SamePaid
<1>. QED BY <1>1 DEF Done, isTransactionExist

\* A block stays done when the chain keeps it and no credit is taken back.
LEMMA DoneStays ==
  ASSUME NEW h, NEW S, Done(h, S), svc' = svc,
         chain'[h] = chain[h], chain[h] \subseteq Txs,
         \A x \in Txs : isTransactionExist(x) => isTransactionExist(x)'
  PROVE  Done(h, S)'
BY SamePaid DEF Done

\* The blocks below Behind are on the chain.
LEMMA BlockBelow ==
  ASSUME Inv, Shallow, NEW h \in Int, 1 <= h, h < Behind
  PROVE  h \in 1 .. Len(chain) /\ chain[h] \subseteq Txs
<1>1. h \in 1 .. Len(chain)
  BY BelowBehind, Numbers DEF Inv
<1>2. chain[h] \in SUBSET Txs
  BY <1>1, ElementOfSeq DEF Inv, TypeOK
<1>. QED BY <1>1, <1>2

\* Steps that change the chain only above Behind keep Covers.
LEMMA CoversChain ==
  ASSUME Inv, Covers, UNCHANGED <<svc, cursor, run, credits>>,
         Shallow' => Shallow, Behind \in Int, Behind' \in Int, Behind <= Behind',
         Shallow' => \A h \in 1 .. Len(chain) : h < Behind => chain'[h] = chain[h]
  PROVE  Covers'
<1>. SUFFICES ASSUME Shallow'
              PROVE  /\ \A h \in 1 .. cursor : h < Behind' /\ Done(h, {})'
                     /\ run # NoRun =>
                          /\ \A h \in 1 .. run.cur - 1 : h < Behind' /\ Done(h, {})'
                          /\ run.open => Done(run.cur, run.left)'
  BY DEF Covers, Done
<1>1. ASSUME NEW h \in Int, NEW S, 1 <= h, h < Behind, Done(h, S)
      PROVE  Done(h, S)'
  <2>1. h \in 1 .. Len(chain) /\ chain[h] \subseteq Txs
    BY <1>1, BlockBelow
  <2>2. chain'[h] = chain[h]
    BY <1>1, <2>1
  <2>3. \A x \in Txs : isTransactionExist(x) => isTransactionExist(x)'
    BY DEF isTransactionExist
  <2>. QED BY <1>1, <2>1, <2>2, <2>3, DoneStays
<1>2. ASSUME NEW h \in 1 .. cursor
      PROVE  h < Behind' /\ Done(h, {})'
  <2>1. h < Behind /\ Done(h, {}) /\ h \in Int /\ 1 <= h
    BY <1>2, Numbers DEF Covers, Inv
  <2>. QED BY <1>1, <2>1
<1>3. ASSUME run # NoRun, NEW h \in 1 .. run.cur - 1
      PROVE  h < Behind' /\ Done(h, {})'
  <2>1. h < Behind /\ Done(h, {}) /\ h \in Int /\ 1 <= h
    BY <1>3 DEF Covers, Inv, TypeOK, Scanning
  <2>. QED BY <1>1, <2>1
<1>4. ASSUME run # NoRun, run.open
      PROVE  Done(run.cur, run.left)'
  <2>1. run \in Scanning /\ run.to <= Behind /\ run.cur < run.to
    BY <1>4 DEF Inv, TypeOK, RunOK
  <2>2. run.cur \in Int /\ 1 <= run.cur /\ run.cur < Behind
    BY <2>1, Numbers DEF Inv, Scanning
  <2>3. Done(run.cur, run.left)
    BY <1>4 DEF Covers
  <2>. QED BY <1>1, <2>2, <2>3
<1>. QED BY <1>2, <1>3, <1>4

LEMMA MineCovers ==
  ASSUME Inv, Covers, NEW b \in SUBSET Txs, Mine(b)
  PROVE  Covers'
<1>1. \A h \in 1 .. Len(chain) : chain'[h] = chain[h]
  BY MineChain DEF Inv
<1>2. /\ top' = IF Len(chain) = top THEN top + 1 ELSE top
      /\ UNCHANGED <<depth, svc, cursor, run, credits>>
  BY DEF Mine
<1>3. /\ Behind \in Int /\ Behind' \in Int /\ Behind <= Behind'
      /\ Shallow' => Shallow
  BY <1>2, Numbers DEF Inv, Behind, Shallow
<1>. QED BY <1>1, <1>2, <1>3, CoversChain

LEMMA ReorgCovers ==
  ASSUME Inv, Covers, NEW n \in Int, Reorg(n)
  PROVE  Covers'
<1>1. Len(chain') = n /\ \A h \in 1 .. n : chain'[h] = chain[h]
  BY ReorgChain DEF Inv
<1>2. UNCHANGED <<svc, cursor, run, credits>>
  BY DEF Reorg
<1>3. /\ Behind \in Int /\ Behind' = Behind
      /\ Shallow' => Shallow /\ Behind - 1 <= n
  BY ReorgKeeps, Numbers DEF Inv
<1>4. Shallow' => \A h \in 1 .. Len(chain) : h < Behind => chain'[h] = chain[h]
  BY <1>1, <1>3
<1>. QED BY <1>2, <1>3, <1>4, CoversChain

LEMMA StartCovers ==
  ASSUME Backlog >= MaxHeight, Inv, Covers, syncNewTransactions
  PROVE  Covers'
<1>1. /\ run'.cur = LastSynced + 1 /\ ~run'.open
      /\ UNCHANGED <<chain, top, depth, svc, cursor, credits>>
  BY DEF syncNewTransactions, StartRun
<1>2. Behind' = Behind /\ Shallow' = Shallow
  BY <1>1, ScanFrame
<1>3. Backlog \in Nat /\ MaxHeight \in Nat /\ Len(chain) <= MaxHeight
      /\ Len(chain) \in Nat /\ cursor \in NoCursor .. MaxHeight
  BY SyncAssumption, Numbers DEF Inv, TypeOK
<1>4. LastSynced \in Nat /\ (LastSynced = cursor \/ LastSynced = 0)
  BY <1>3 DEF LastSynced, NoCursor
<1>5. \A h \in 1 .. run'.cur - 1 : h \in 1 .. cursor
  BY <1>1, <1>3, <1>4 DEF NoCursor
<1>6. \A h : Done(h, {})' <=> Done(h, {})
  BY <1>1, SameDone
<1>7. Shallow => \A h \in 1 .. cursor : h < Behind /\ Done(h, {})
  BY DEF Covers
<1>. QED BY <1>1, <1>2, <1>5, <1>6, <1>7 DEF Covers

LEMMA SyncBlockCovers ==
  ASSUME Inv, Covers, syncBlock
  PROVE  Covers'
<1>1. /\ run # NoRun
      /\ run' = [run EXCEPT !.open = TRUE, !.left = chain[run.cur]]
      /\ UNCHANGED <<chain, top, depth, svc, cursor, credits>>
  BY DEF syncBlock
<1>2. run \in Scanning
  BY <1>1 DEF Inv, TypeOK
<1>3. run'.cur = run.cur /\ run'.left = chain[run.cur]
  BY <1>1, <1>2 DEF Scanning
<1>4. Behind' = Behind /\ Shallow' = Shallow
  BY <1>1, ScanFrame
<1>5. \A h : Done(h, {})' <=> Done(h, {})
  BY <1>1, SameDone
<1>6. Done(run.cur, run.left)'
  BY <1>1, <1>3 DEF Done
<1>. QED BY <1>1, <1>3, <1>4, <1>5, <1>6 DEF Covers

LEMMA SyncTransactionCovers ==
  ASSUME Inv, Covers, NEW t \in Txs, syncTransaction(t)
  PROVE  Covers'
<1>1. /\ run # NoRun /\ run.open /\ t \in run.left
      /\ run' = [run EXCEPT !.left = run.left \ {t}]
      /\ UNCHANGED <<chain, top, depth, svc, cursor>>
  BY DEF syncTransaction
<1>2. /\ run \in Scanning /\ run.to <= Behind /\ run.cur < run.to
  BY <1>1 DEF Inv, TypeOK, RunOK
<1>3. run'.cur = run.cur /\ run'.left = run.left \ {t}
  BY <1>1, <1>2 DEF Scanning
<1>4. Behind' = Behind /\ Shallow' = Shallow
  BY <1>1, ScanFrame
<1>. SUFFICES ASSUME Shallow
              PROVE  /\ \A h \in 1 .. cursor : h < Behind /\ Done(h, {})'
                     /\ \A h \in 1 .. run.cur - 1 : h < Behind /\ Done(h, {})'
                     /\ Done(run.cur, run.left)'
  BY <1>1, <1>3, <1>4 DEF Covers
<1>5. ASSUME NEW h \in Int, 1 <= h, h < Behind, Done(h, {})
      PROVE  Done(h, {})'
  <2>1. chain[h] \subseteq Txs
    BY <1>5, BlockBelow
  <2>. QED BY <1>1, <1>5, <2>1, DoneStays, Credited
<1>6. \A h \in 1 .. cursor : h < Behind /\ Done(h, {})'
  BY <1>5, Numbers DEF Covers, Inv
<1>7. \A h \in 1 .. run.cur - 1 : h < Behind /\ Done(h, {})'
  <2>1. run.cur \in Int
    BY <1>2, Numbers DEF Scanning, Inv
  <2>2. ASSUME NEW h \in 1 .. run.cur - 1 PROVE h < Behind /\ Done(h, {})'
    <3>1. h < Behind /\ Done(h, {})
      BY <1>1, <2>2 DEF Covers
    <3>. QED BY <1>5, <2>1, <2>2, <3>1
  <2>. QED BY <2>2
<1>8. Done(run.cur, run.left)'
  <2>1. run.cur \in Int /\ 1 <= run.cur /\ run.cur < Behind
    BY <1>2, Numbers DEF Scanning, Inv
  <2>2. chain[run.cur] \subseteq Txs
    BY <2>1, BlockBelow
  <2>. SUFFICES ASSUME NEW x \in chain[run.cur], x \notin run.left \ {t},
                       x \notin Elusive, Paid(x) # {}
                PROVE  isTransactionExist(x)'
    BY <1>1, <1>3, SamePaid DEF Done
  <2>3. CASE x = t
    BY <2>3, Credited
  <2>4. CASE x # t
    <3>1. Done(run.cur, run.left)
      BY <1>1 DEF Covers
    <3>2. isTransactionExist(x)
      BY <2>4, <3>1 DEF Done
    <3>. QED BY <2>2, <3>2, Credited
  <2>. QED BY <2>3, <2>4
<1>. QED BY <1>6, <1>7, <1>8

LEMMA EndBlockCovers ==
  ASSUME Inv, Covers, endBlock
  PROVE  Covers'
<1>1. /\ run # NoRun /\ run.open /\ run.left = {}
      /\ run' = [run EXCEPT !.open = FALSE, !.cur = run.cur + 1,
                            !.count = run.count + 1]
      /\ UNCHANGED <<chain, top, depth, svc, cursor, credits>>
  BY DEF endBlock
<1>2. run \in Scanning /\ run.to <= Behind /\ run.cur < run.to
  BY <1>1 DEF Inv, TypeOK, RunOK
<1>3. run'.cur = run.cur + 1 /\ ~run'.open
  BY <1>1, <1>2 DEF Scanning
<1>4. Behind' = Behind /\ Shallow' = Shallow
  BY <1>1, ScanFrame
<1>5. \A h : Done(h, {})' <=> Done(h, {})
  BY <1>1, SameDone
<1>6. run.cur \in Int /\ run.cur < Behind
  BY <1>2, Numbers DEF Scanning, Inv
<1>7. ASSUME Shallow, NEW h \in 1 .. run.cur
      PROVE  h < Behind /\ Done(h, {})
  <2>1. CASE h = run.cur
    BY <1>1, <1>6, <1>7, <2>1 DEF Covers
  <2>2. CASE h # run.cur
    BY <1>1, <1>6, <1>7, <2>2 DEF Covers
  <2>. QED BY <2>1, <2>2
<1>8. Shallow => \A h \in 1 .. cursor : h < Behind /\ Done(h, {})
  BY DEF Covers
<1>9. run'.cur - 1 = run.cur
  BY <1>3, <1>6
<1>. QED BY <1>1, <1>3, <1>4, <1>5, <1>7, <1>8, <1>9 DEF Covers

LEMMA StopCovers ==
  ASSUME Inv, Covers, saveCursor \/ failBlock \/ Crash
  PROVE  Covers'
<1>1. /\ run # NoRun /\ run' = NoRun
      /\ UNCHANGED <<chain, top, depth, svc, credits>>
      /\ cursor' = run.cur - 1 \/ cursor' = cursor
  BY DEF saveCursor, failBlock, Crash
<1>2. Behind' = Behind /\ Shallow' = Shallow
  BY <1>1, ScanFrame
<1>3. \A h : Done(h, {})' <=> Done(h, {})
  BY <1>1, SameDone
<1>. QED BY <1>1, <1>2, <1>3 DEF Covers

\* The cursor never passes a payment nobody was credited for, whatever
\* crashes, exceptions and shallow forks come between: scanning again from
\* the cursor is enough to find everything.
THEOREM NothingSkipped ==
  ASSUME Backlog >= MaxHeight
  PROVE  Spec => []CursorCovers
<1>1. Init => Covers
  BY DEF Init, Covers, NoCursor
<1>2. Inv /\ Covers /\ [Next]_vars => Covers'
  <2>. SUFFICES ASSUME Inv, Covers, [Next]_vars PROVE Covers'
    OBVIOUS
  <2>1. CASE Scan
    BY <2>1, StartCovers, SyncBlockCovers, SyncTransactionCovers,
       EndBlockCovers, StopCovers DEF Scan
  <2>2. CASE failBlock \/ Crash
    BY <2>2, StopCovers
  <2>3. CASE \E b \in {s \in SUBSET Txs : Cardinality(s) <= MaxPerBlock} : Mine(b)
    BY <2>3, MineCovers
  <2>4. CASE \E n \in 0 .. MaxHeight : Reorg(n)
    BY <2>4, ReorgCovers
  <2>5. CASE UNCHANGED vars
    BY <2>5, ScanFrame, SameDone DEF vars, Covers
  <2>. QED BY <2>1, <2>2, <2>3, <2>4, <2>5 DEF Next
<1>3. Covers => CursorCovers
  BY DEF Covers, CursorCovers, Done
<1>. QED BY InitInv, NextInv, <1>1, <1>2, <1>3, PTL DEF Spec

-----------------------------------------------------------------------------
(***************************************************************************)
(* Gathering: the invariant.                                               *)
(***************************************************************************)

\* The thread: at rest, in one of its walks, or within a record that is not
\* behind the cursor.
InRecord == {"fuel", "send", "save"}
ThreadShape ==
  \/ thread = AtRest
  \/ /\ thread.at \in {"fuelling", "gathering"}
     /\ thread = [at |-> thread.at, lastId |-> thread.lastId, sent |-> thread.sent]
     /\ thread.at = "fuelling" => task = "TOKEN"
     /\ thread.lastId \in lastRecvId .. Len(records)
     /\ thread.sent \subseteq Addresses
  \/ /\ thread.at \in InRecord
     /\ thread = [at |-> thread.at, lastId |-> thread.lastId, sent |-> thread.sent,
                  amount |-> thread.amount]
     /\ thread.at = "fuel" => task = "USDT"
     /\ thread.lastId \in lastRecvId + 1 .. Len(records)
     /\ thread.sent \subseteq Addresses
     /\ thread.amount \in Nat

\* The payments there may be, recorded or not.
Payments == Len(records) + SumFunctionOnSet(unrecorded, Addresses)

Types ==
  /\ task \in Tasks
  /\ held \in [Addresses -> Nat]
  /\ fuel \in [Addresses -> Nat]
  /\ flying \in [Addresses -> Nat]
  /\ leaving \in [Addresses -> Nat]
  /\ unrecorded \in [Addresses -> Nat]
  /\ records \in Seq(Addresses)
  /\ lastRecvId \in 0 .. Len(records)
  /\ missed \subseteq Addresses
  /\ faults \in 0 .. MaxGatherFaults
  /\ stray \in 0 .. faults
  /\ Payments <= MaxRecords

\* Only the token task goes on after a failed call, and what such a call sent
\* from an address, the address still holds, with the fuel for it.
InFlight ==
  \A a \in Addresses :
    /\ leaving[a] > 0 => leaving[a] <= held[a] /\ fuel[a] > 0
    /\ task # "TOKEN" => flying[a] = 0 /\ leaving[a] = 0

\* What the walk is about to send covers what is waiting at the address, unless a
\* payment came in between, after which the address counts as missed; but for
\* tokens, which may have left since, it is there.
ReadIsHeld ==
  thread.at \in {"fuel", "send"} =>
    /\ task # "TOKEN" => thread.amount <= held[Current]
    /\ Current \notin missed => Waiting(Current) <= thread.amount

\* What was sent in this walk is gone, or on its way.
SentIsLow ==
  thread.at \in InRecord \cup {"gathering"} =>
    \A a \in thread.sent : a \notin missed => Waiting(a) < GatherMin

\* The records behind this place were passed by the walk or by the cursor.
Passed ==
  CASE thread.at \in {"fuel", "send"} -> thread.lastId - 1
    [] thread.at \in {"gathering", "save"} -> thread.lastId
    [] OTHER -> lastRecvId

Ahead ==
  \A a \in Addresses :
    Waiting(a) >= GatherMin /\ unrecorded[a] = 0 /\ a \notin missed
      => \E i \in Passed + 1 .. Len(records) : records[i] = a

\* An address saved has been sent in this walk.
SavedIsSent == thread.at = "save" => Current \in thread.sent

\* Fuel by task: ETH needs none; a token address gets its second piece only
\* when the first was not seen, and what is on its way was sent by calls that
\* failed; what a USDT address has beyond the piece for the transfer in hand did
\* not serve one.
FuelServes ==
  /\ task = "ETH" => \A a \in Addresses : fuel[a] = 0
  /\ task = "TOKEN" => \A a \in Addresses : flying[a] <= stray /\ fuel[a] + flying[a] <= 1 + stray
  /\ task = "USDT" =>
       \A a \in Addresses :
         fuel[a] <= stray + (IF thread.at = "send" /\ a = Current THEN 1 ELSE 0)

GatherInv ==
  /\ Types /\ InFlight /\ ThreadShape /\ ReadIsHeld /\ SentIsLow /\ SavedIsSent
  /\ Ahead /\ FuelServes

-----------------------------------------------------------------------------
(***************************************************************************)
(* What the invariant says in each state of the thread.                    *)
(***************************************************************************)

LEMMA RecordFacts ==
  ASSUME Types
  PROVE  /\ Len(records) \in Nat
         /\ \A i \in 1 .. Len(records) : records[i] \in Addresses
         /\ lastRecvId \in Nat /\ lastRecvId <= Len(records)
BY DEF Types

LEMMA ConstantFacts ==
  ASSUME Types
  PROVE  /\ GatherMin \in Nat /\ Remain \in Nat /\ GatherMin > Remain
         /\ Kept \in Nat /\ Kept < GatherMin
         /\ MaxGatherFaults \in Nat /\ MaxRecords \in Nat
         /\ faults \in Nat /\ stray \in Nat /\ stray <= faults
BY GatherAssumption DEF Types, Kept

LEMMA WaitingFacts ==
  ASSUME GatherInv
  PROVE  /\ GatherMin \in Nat
         /\ \A a \in Addresses : /\ held[a] \in Nat /\ leaving[a] \in Nat
                                 /\ Waiting(a) \in Int /\ Waiting(a) <= held[a]
<1>1. GatherMin \in Nat
  BY GatherAssumption
<1>2. \A a \in Addresses : held[a] \in Nat /\ leaving[a] \in Nat
  BY DEF GatherInv, Types
<1>. QED BY <1>1, <1>2 DEF Waiting

LEMMA RestFacts ==
  ASSUME GatherInv, thread = AtRest
  PROVE  thread.at = "rest" /\ Passed = lastRecvId
BY DEF AtRest, Passed

LEMMA WalkFacts ==
  ASSUME GatherInv, thread.at \in {"fuelling", "gathering"}
  PROVE  /\ thread = [at |-> thread.at, lastId |-> thread.lastId, sent |-> thread.sent]
         /\ thread.at = "fuelling" => task = "TOKEN" /\ Passed = lastRecvId
         /\ thread.at = "gathering" => Passed = thread.lastId
         /\ thread.lastId \in Nat /\ lastRecvId <= thread.lastId /\ thread.lastId <= Len(records)
         /\ thread.sent \subseteq Addresses
         /\ HasNext => /\ thread.lastId + 1 \in 1 .. Len(records)
                       /\ NextAddress \in Addresses
                       /\ NextAddress = records[thread.lastId + 1]
<1>1. /\ thread = [at |-> thread.at, lastId |-> thread.lastId, sent |-> thread.sent]
      /\ thread.at = "fuelling" => task = "TOKEN"
      /\ thread.lastId \in lastRecvId .. Len(records) /\ thread.sent \subseteq Addresses
  BY DEF GatherInv, ThreadShape, AtRest, InRecord
<1>2. thread.lastId \in Nat /\ lastRecvId <= thread.lastId /\ thread.lastId <= Len(records)
  BY <1>1, RecordFacts DEF GatherInv
<1>3. HasNext => thread.lastId + 1 \in 1 .. Len(records)
  BY <1>2, RecordFacts DEF GatherInv, HasNext
<1>4. HasNext => NextAddress \in Addresses /\ NextAddress = records[thread.lastId + 1]
  BY <1>3, RecordFacts DEF GatherInv, NextAddress
<1>5. /\ thread.at = "fuelling" => Passed = lastRecvId
      /\ thread.at = "gathering" => Passed = thread.lastId
  BY DEF Passed
<1>. QED BY <1>1, <1>2, <1>3, <1>4, <1>5

LEMMA MovingFacts ==
  ASSUME GatherInv, thread.at \in InRecord
  PROVE  /\ thread = [at |-> thread.at, lastId |-> thread.lastId, sent |-> thread.sent,
                      amount |-> thread.amount]
         /\ thread.at = "fuel" => task = "USDT"
         /\ thread.at \in {"fuel", "send"} => Passed = thread.lastId - 1
         /\ thread.at = "save" => Passed = thread.lastId
         /\ thread.lastId \in 1 .. Len(records) /\ thread.lastId \in Nat
         /\ lastRecvId + 1 <= thread.lastId
         /\ thread.sent \subseteq Addresses /\ thread.amount \in Nat
         /\ Current \in Addresses /\ Current = records[thread.lastId]
<1>1. /\ thread = [at |-> thread.at, lastId |-> thread.lastId, sent |-> thread.sent,
                   amount |-> thread.amount]
      /\ thread.at = "fuel" => task = "USDT"
      /\ thread.lastId \in lastRecvId + 1 .. Len(records)
      /\ thread.sent \subseteq Addresses /\ thread.amount \in Nat
  BY DEF GatherInv, ThreadShape, AtRest, InRecord
<1>2. /\ thread.lastId \in 1 .. Len(records) /\ thread.lastId \in Nat
      /\ lastRecvId + 1 <= thread.lastId
  BY <1>1, RecordFacts DEF GatherInv
<1>3. Current \in Addresses /\ Current = records[thread.lastId]
  BY <1>2, RecordFacts DEF GatherInv, Current
<1>4. /\ thread.at \in {"fuel", "send"} => Passed = thread.lastId - 1
      /\ thread.at = "save" => Passed = thread.lastId
  BY DEF Passed
<1>. QED BY <1>1, <1>2, <1>3, <1>4

LEMMA PassedFacts ==
  ASSUME GatherInv
  PROVE  Passed \in Nat /\ lastRecvId <= Passed /\ Passed <= Len(records)
<1>1. Len(records) \in Nat /\ lastRecvId \in Nat /\ lastRecvId <= Len(records)
  BY RecordFacts DEF GatherInv
<1>2. CASE thread = AtRest
  BY <1>1, <1>2, RestFacts
<1>3. CASE thread.at \in {"fuelling", "gathering"}
  BY <1>1, <1>3, WalkFacts
<1>4. CASE thread.at \in InRecord
  BY <1>1, <1>4, MovingFacts DEF InRecord
<1>. QED BY <1>2, <1>3, <1>4 DEF GatherInv, ThreadShape

\* The invariant implies what the runs check.
LEMMA GatherInvImplies ==
  ASSUME GatherInv
  PROVE  GatherTypeOK /\ NothingOverlooked /\ FuelIsNotPiledUp
<1>. USE RecordFacts, ConstantFacts
<1>1. unrecorded \in [Addresses -> 0 .. MaxRecords] /\ Len(records) <= MaxRecords
  <2>1. IsFiniteSet(Addresses) /\ \A a \in Addresses : unrecorded[a] \in Nat
    BY GatherAssumption DEF GatherInv, Types
  <2>2. SumFunctionOnSet(unrecorded, Addresses) \in Nat
    BY <2>1, SumNatural
  <2>3. \A a \in Addresses : unrecorded[a] <= SumFunctionOnSet(unrecorded, Addresses)
    BY <2>1, SumMember
  <2>4. Payments <= MaxRecords /\ Len(records) \in Nat /\ MaxRecords \in Nat
    BY DEF GatherInv, Types
  <2>5. /\ SumFunctionOnSet(unrecorded, Addresses) <= MaxRecords
        /\ Len(records) <= MaxRecords
    BY <2>2, <2>4 DEF Payments
  <2>6. \A a \in Addresses : unrecorded[a] \in 0 .. MaxRecords
    BY <2>1, <2>2, <2>3, <2>4, <2>5
  <2>. QED BY <2>5, <2>6 DEF GatherInv, Types
<1>2. \/ thread = AtRest
      \/ /\ thread.at \in {"fuelling", "gathering", "fuel", "send", "save"}
         /\ thread.lastId \in lastRecvId .. Len(records)
         /\ thread.sent \subseteq Addresses
         /\ thread.at \in {"fuel", "send"} => thread.amount \in Nat
  <2>1. CASE thread.at \in {"fuelling", "gathering"}
    BY <2>1 DEF GatherInv, ThreadShape, AtRest, InRecord
  <2>2. CASE thread.at \in InRecord
    <3>1. /\ thread.lastId \in lastRecvId .. Len(records) /\ thread.sent \subseteq Addresses
          /\ thread.amount \in Nat
      BY <2>2, MovingFacts DEF GatherInv
    <3>. QED BY <2>2, <3>1 DEF InRecord
  <2>. QED BY <2>1, <2>2 DEF GatherInv, ThreadShape
<1>3. GatherTypeOK
  <2>1. stray \in 0 .. MaxGatherFaults
    BY DEF GatherInv, Types
  <2>2. \A a \in Addresses : leaving[a] > 0 => leaving[a] <= held[a] /\ fuel[a] > 0
    BY DEF GatherInv, InFlight
  <2>. QED BY <1>1, <1>2, <2>1, <2>2 DEF GatherInv, Types, GatherTypeOK
<1>4. NothingOverlooked
  <2>. SUFFICES ASSUME NEW a \in Addresses,
                       Waiting(a) >= GatherMin, unrecorded[a] = 0, a \notin missed
                PROVE  \E i \in lastRecvId + 1 .. Len(records) : records[i] = a
    BY DEF NothingOverlooked
  <2>1. PICK i \in Passed + 1 .. Len(records) : records[i] = a
    BY DEF GatherInv, Ahead
  <2>2. i \in lastRecvId + 1 .. Len(records)
    BY PassedFacts DEF GatherInv
  <2>. QED BY <2>1, <2>2
<1>5. FuelIsNotPiledUp
  <2>. SUFFICES ASSUME NEW a \in Addresses PROVE fuel[a] + flying[a] <= 1 + stray
    BY DEF FuelIsNotPiledUp
  <2>1. /\ fuel[a] \in Nat /\ stray \in Nat
        /\ task # "TOKEN" => flying[a] = 0
    BY DEF GatherInv, Types, InFlight
  <2>2. CASE task = "ETH"
    BY <2>1, <2>2 DEF GatherInv, FuelServes
  <2>3. CASE task = "TOKEN"
    BY <2>3 DEF GatherInv, FuelServes
  <2>4. CASE task = "USDT"
    <3>1. fuel[a] <= stray + (IF thread.at = "send" /\ a = Current THEN 1 ELSE 0)
      BY <2>4 DEF GatherInv, FuelServes
    <3>. QED BY <2>1, <2>4, <3>1
  <2>. QED BY <2>2, <2>3, <2>4 DEF GatherInv, Types, Tasks
<1>. QED BY <1>3, <1>4, <1>5

LEMMA GatherInitInv == GatherInit => GatherInv
<1>. SUFFICES ASSUME GatherInit PROVE GatherInv
  OBVIOUS
<1>1. /\ records = << >> /\ Len(records) = 0 /\ thread.at = "rest"
      /\ GatherMin \in Nat /\ GatherMin > 0
  BY GatherAssumption DEF GatherInit, AtRest
<1>2. Payments <= MaxRecords
  <2>1. /\ IsFiniteSet(Addresses)
        /\ \A a \in Addresses : unrecorded[a] \in Int /\ unrecorded[a] = 0
    BY GatherAssumption DEF GatherInit
  <2>2. SumFunctionOnSet(unrecorded, Addresses) = SumFunctionOnSet(unrecorded, {})
    BY <2>1, FS_EmptySet, SumGrows
  <2>3. SumFunctionOnSet(unrecorded, Addresses) = 0
    BY <2>2, SumEmpty
  <2>. QED BY <1>1, <2>3, GatherAssumption DEF Payments
<1>3. Types
  <2>1. records \in Seq(Addresses)
    BY <1>1
  <2>. QED BY <1>1, <1>2, <2>1, GatherAssumption DEF GatherInit, Types
<1>4. ThreadShape /\ ReadIsHeld /\ SentIsLow /\ SavedIsSent
  BY <1>1 DEF GatherInit, ThreadShape, ReadIsHeld, SentIsLow, SavedIsSent, InRecord
<1>5. Ahead
  BY <1>1 DEF GatherInit, Ahead, Waiting
<1>6. FuelServes /\ InFlight
  BY <1>1 DEF GatherInit, FuelServes, InFlight
<1>. QED BY <1>3, <1>4, <1>5, <1>6 DEF GatherInv

-----------------------------------------------------------------------------
(***************************************************************************)
(* Where a step may take the thread.                                       *)
(***************************************************************************)

LEMMA ToRest ==
  ASSUME thread' = AtRest
  PROVE  /\ ThreadShape' /\ ReadIsHeld' /\ SentIsLow' /\ SavedIsSent'
         /\ thread'.at = "rest" /\ Passed' = lastRecvId'
<1>1. thread'.at = "rest"
  BY DEF AtRest
<1>2. ThreadShape'
  BY DEF ThreadShape, AtRest
<1>3. ReadIsHeld' /\ SentIsLow' /\ SavedIsSent'
  BY <1>1 DEF ReadIsHeld, SentIsLow, SavedIsSent, InRecord
<1>4. Passed' = lastRecvId'
  BY <1>1 DEF Passed
<1>. QED BY <1>1, <1>2, <1>3, <1>4

LEMMA ToWalk ==
  ASSUME NEW at \in {"fuelling", "gathering"}, NEW id, NEW s,
         thread' = [at |-> at, lastId |-> id, sent |-> s],
         at = "fuelling" => task' = "TOKEN",
         id \in lastRecvId' .. Len(records'), s \subseteq Addresses
  PROVE  /\ ThreadShape' /\ ReadIsHeld' /\ SavedIsSent'
         /\ thread'.at = at /\ thread'.sent = s
         /\ Passed' = IF at = "fuelling" THEN lastRecvId' ELSE id
<1>1. thread'.at = at /\ thread'.sent = s /\ thread'.lastId = id
  OBVIOUS
<1>2. ThreadShape'
  BY <1>1 DEF ThreadShape
<1>3. ReadIsHeld' /\ SavedIsSent'
  BY <1>1 DEF ReadIsHeld, SavedIsSent
<1>4. Passed' = IF at = "fuelling" THEN lastRecvId' ELSE id
  BY <1>1 DEF Passed
<1>. QED BY <1>1, <1>2, <1>3, <1>4

LEMMA ToRecord ==
  ASSUME NEW at \in InRecord, NEW id, NEW s, NEW n \in Nat,
         thread' = [at |-> at, lastId |-> id, sent |-> s, amount |-> n],
         at = "fuel" => task' = "USDT",
         id \in lastRecvId' + 1 .. Len(records'), s \subseteq Addresses
  PROVE  /\ ThreadShape'
         /\ thread'.at = at /\ thread'.sent = s /\ thread'.amount = n
         /\ Current' = records'[id]
         /\ Passed' = IF at = "save" THEN id ELSE id - 1
<1>1. thread'.at = at /\ thread'.sent = s /\ thread'.lastId = id /\ thread'.amount = n
  OBVIOUS
<1>2. ThreadShape'
  BY <1>1 DEF ThreadShape
<1>3. Current' = records'[id]
  BY <1>1 DEF Current
<1>4. Passed' = IF at = "save" THEN id ELSE id - 1
  BY <1>1 DEF Passed, InRecord
<1>. QED BY <1>1, <1>2, <1>3, <1>4

-----------------------------------------------------------------------------
(***************************************************************************)
(* The steps of the thread leave the payments alone.                       *)
(***************************************************************************)

ThreadStep ==
  /\ task' = task /\ unrecorded' = unrecorded /\ records' = records

NoMove == held' = held /\ leaving' = leaving
NoFuel == fuel' = fuel /\ flying' = flying

LEMMA ThreadTypes ==
  ASSUME GatherInv, ThreadStep,
         held' \in [Addresses -> Nat], fuel' \in [Addresses -> Nat],
         flying' \in [Addresses -> Nat], leaving' \in [Addresses -> Nat],
         lastRecvId' \in 0 .. Len(records), missed' \subseteq Addresses,
         \/ faults' = faults /\ stray' = stray
         \/ Fail /\ stray' \in stray .. stray + 1
  PROVE  Types'
<1>1. Payments' = Payments
  BY DEF ThreadStep, Payments
<1>2. faults' \in 0 .. MaxGatherFaults /\ stray' \in 0 .. faults'
  <2>1. /\ MaxGatherFaults \in Nat /\ faults \in Nat /\ stray \in Nat
        /\ stray <= faults /\ faults <= MaxGatherFaults
    BY ConstantFacts DEF GatherInv, Types
  <2>2. CASE faults' = faults /\ stray' = stray
    BY <2>1, <2>2
  <2>3. CASE Fail /\ stray' \in stray .. stray + 1
    BY <2>1, <2>3 DEF Fail
  <2>. QED BY <2>2, <2>3
<1>. QED BY <1>1, <1>2 DEF GatherInv, Types, ThreadStep

\* What is on its way stays, and so do the tokens and the fuel for it.
LEMMA FlightStays ==
  ASSUME GatherInv, ThreadStep, NoMove, flying' = flying \/ task = "TOKEN",
         \A a \in Addresses : fuel[a] > 0 => fuel'[a] > 0
  PROVE  InFlight'
BY DEF GatherInv, InFlight, ThreadStep, NoMove

\* A step that leaves the chain alone.
LEMMA NothingMoves ==
  ASSUME GatherInv, ThreadStep, NoMove, NoFuel,
         lastRecvId' \in 0 .. Len(records), missed' \subseteq Addresses,
         \/ faults' = faults /\ stray' = stray
         \/ Fail /\ stray' \in stray .. stray + 1
  PROVE  /\ Types' /\ InFlight' /\ \A a \in Addresses : Waiting(a)' = Waiting(a)
         /\ held' = held /\ fuel' = fuel
<1>1. Types'
  BY ThreadTypes DEF GatherInv, Types, NoMove, NoFuel
<1>2. InFlight'
  BY FlightStays DEF NoFuel
<1>. QED BY <1>1, <1>2 DEF NoMove, NoFuel, Waiting

\* Address a is ahead of place p: it was ahead of the last place and has no
\* record in between, or it has a record there.
StaysAhead(a, p) ==
  \/ /\ Waiting(a) >= GatherMin /\ a \notin missed
     /\ \A i \in Passed + 1 .. p : records[i] # a
  \/ \E i \in p + 1 .. Len(records) : records[i] = a

AllStayAhead(p) ==
  \A a \in Addresses :
    Waiting(a)' >= GatherMin /\ unrecorded[a] = 0 /\ a \notin missed' => StaysAhead(a, p)

LEMMA ThreadAhead ==
  ASSUME NEW p \in Nat, GatherInv, ThreadStep, Passed' = p, AllStayAhead(p)
  PROVE  Ahead'
<1>. SUFFICES ASSUME NEW a \in Addresses,
                     Waiting(a)' >= GatherMin, unrecorded'[a] = 0, a \notin missed'
              PROVE  \E i \in Passed' + 1 .. Len(records') : records'[i] = a
  BY DEF Ahead
<1>1. StaysAhead(a, p)
  BY DEF AllStayAhead, ThreadStep
<1>2. CASE /\ Waiting(a) >= GatherMin /\ a \notin missed
           /\ \A i \in Passed + 1 .. p : records[i] # a
  <2>1. PICK i \in Passed + 1 .. Len(records) : records[i] = a
    BY <1>2 DEF GatherInv, Ahead, ThreadStep
  <2>2. i \in p + 1 .. Len(records)
    BY <1>2, <2>1, PassedFacts, RecordFacts DEF GatherInv
  <2>. QED BY <2>1, <2>2 DEF ThreadStep
<1>3. CASE \E i \in p + 1 .. Len(records) : records[i] = a
  BY <1>3 DEF ThreadStep
<1>. QED BY <1>1, <1>2, <1>3 DEF StaysAhead

\* A step that moves no coins and reads no address, up to a place that is not
\* beyond the last one.
LEMMA NothingRead ==
  ASSUME NEW p \in Nat, GatherInv, ThreadStep, Passed' = p, p <= Passed,
         NoMove, missed \subseteq missed'
  PROVE  Ahead'
<1>1. \A i \in Passed + 1 .. p : FALSE
  BY PassedFacts
<1>2. AllStayAhead(p)
  BY <1>1 DEF AllStayAhead, StaysAhead, NoMove, Waiting
<1>. QED BY <1>2, ThreadAhead

\* Fuel that stays where it is.
LEMMA SameFuel ==
  ASSUME GatherInv, task' = task, NoFuel, stray' = stray,
         thread.at # "send", thread'.at = "send" => task # "USDT"
  PROVE  FuelServes'
<1>1. /\ task = "ETH" => \A a \in Addresses : fuel'[a] = 0
      /\ task = "TOKEN" =>
           \A a \in Addresses : flying'[a] <= stray' /\ fuel'[a] + flying'[a] <= 1 + stray'
  BY DEF GatherInv, FuelServes, NoFuel
<1>2. ASSUME task = "USDT", NEW a \in Addresses
      PROVE  fuel'[a] <= stray' + (IF thread'.at = "send" /\ a = Current' THEN 1 ELSE 0)
  <2>1. fuel[a] <= stray + 0
    BY <1>2 DEF GatherInv, FuelServes
  <2>. QED BY <1>2, <2>1 DEF NoFuel
<1>. QED BY <1>1, <1>2 DEF FuelServes

-----------------------------------------------------------------------------
(***************************************************************************)
(* The thread, one lemma for each operation.                               *)
(***************************************************************************)

LEMMA TimerInv == GatherInv /\ Timer => GatherInv'
<1>. SUFFICES ASSUME GatherInv, Timer PROVE GatherInv'
  OBVIOUS
<1>1. /\ ThreadStep /\ NoMove /\ NoFuel /\ lastRecvId' = lastRecvId
      /\ missed' = missed /\ stray' = stray /\ faults' = faults
      /\ thread.at = "rest" /\ Passed = lastRecvId
  BY RestFacts DEF Timer, ThreadStep, NoMove, NoFuel, world
<1>2. Types' /\ InFlight'
  BY <1>1, NothingMoves DEF GatherInv, Types
<1>3. PICK at \in {"fuelling", "gathering"} :
        /\ thread' = [at |-> at, lastId |-> lastRecvId, sent |-> {}]
        /\ at = "fuelling" => task = "TOKEN"
  BY DEF Timer, Fuelling, Gathering
<1>4. lastRecvId \in lastRecvId' .. Len(records') /\ {} \subseteq Addresses /\ task' = task
  BY <1>1, RecordFacts DEF GatherInv, ThreadStep
<1>5. /\ ThreadShape' /\ ReadIsHeld' /\ SavedIsSent' /\ thread'.at = at /\ thread'.sent = {}
      /\ Passed' = lastRecvId
  BY <1>1, <1>3, <1>4, ToWalk
<1>6. SentIsLow'
  BY <1>5 DEF SentIsLow
<1>7. Ahead'
  BY <1>1, <1>5, RecordFacts, NothingRead DEF GatherInv
<1>8. FuelServes'
  BY <1>1, <1>4, <1>5, SameFuel
<1>. QED BY <1>2, <1>5, <1>6, <1>7, <1>8 DEF GatherInv

\* A step of the first walk to its next record; fuel may be sent.
LEMMA FuellingStep ==
  ASSUME NEW s, GatherInv, thread.at = "fuelling", HasNext, ThreadStep,
         NoMove, lastRecvId' = lastRecvId, missed' = missed,
         thread' = [at |-> "fuelling", lastId |-> thread.lastId + 1, sent |-> s],
         s \subseteq Addresses,
         fuel' \in [Addresses -> Nat], flying' \in [Addresses -> Nat],
         \A a \in Addresses :
           /\ fuel[a] <= fuel'[a]
           /\ flying'[a] <= stray' /\ fuel'[a] + flying'[a] <= 1 + stray',
         \/ faults' = faults /\ stray' = stray
         \/ Fail /\ stray' \in stray .. stray + 1
  PROVE  GatherInv'
<1>1. /\ task = "TOKEN" /\ Passed = lastRecvId /\ thread.lastId \in Nat
      /\ lastRecvId <= thread.lastId /\ thread.lastId + 1 \in 1 .. Len(records)
  BY WalkFacts
<1>2. Types'
  <2>1. /\ held' \in [Addresses -> Nat] /\ missed' \subseteq Addresses
        /\ leaving' \in [Addresses -> Nat] /\ lastRecvId' \in 0 .. Len(records)
    BY DEF GatherInv, Types, NoMove
  <2>. QED BY <2>1, ThreadTypes
<1>3. InFlight'
  <2>1. \A a \in Addresses : fuel[a] \in Nat /\ fuel'[a] \in Nat
    BY DEF GatherInv, Types
  <2>2. \A a \in Addresses : fuel[a] > 0 => fuel'[a] > 0
    BY <2>1
  <2>. QED BY <1>1, <2>2, FlightStays
<1>4. /\ thread.lastId + 1 \in lastRecvId' .. Len(records')
      /\ task' = "TOKEN"
  BY <1>1, RecordFacts DEF GatherInv, ThreadStep
<1>5. /\ ThreadShape' /\ ReadIsHeld' /\ SavedIsSent' /\ thread'.at = "fuelling"
      /\ Passed' = lastRecvId
  BY <1>4, ToWalk
<1>6. SentIsLow'
  BY <1>5 DEF SentIsLow, InRecord
<1>7. Ahead'
  BY <1>1, <1>5, RecordFacts, NothingRead DEF GatherInv
<1>8. FuelServes'
  BY <1>4 DEF FuelServes
<1>. QED BY <1>2, <1>3, <1>5, <1>6, <1>7, <1>8 DEF GatherInv

\* What the first walk knows about fuel.
LEMMA FuellingFacts ==
  ASSUME GatherInv, thread.at = "fuelling"
  PROVE  /\ fuel \in [Addresses -> Nat] /\ flying \in [Addresses -> Nat] /\ stray \in Nat
         /\ \A a \in Addresses :
              /\ fuel[a] \in Nat /\ flying[a] \in Nat
              /\ flying[a] <= stray /\ fuel[a] + flying[a] <= 1 + stray
         /\ thread.sent \subseteq Addresses
         /\ HasNext => NextAddress \in Addresses
<1>1. /\ task = "TOKEN" /\ thread.sent \subseteq Addresses
      /\ HasNext => NextAddress \in Addresses
  BY WalkFacts
<1>2. \A a \in Addresses : flying[a] <= stray /\ fuel[a] + flying[a] <= 1 + stray
  BY <1>1 DEF GatherInv, FuelServes
<1>3. fuel \in [Addresses -> Nat] /\ flying \in [Addresses -> Nat] /\ stray \in Nat
  BY DEF GatherInv, Types
<1>. QED BY <1>1, <1>2, <1>3

LEMMA PassFuelInv == GatherInv /\ passFuel => GatherInv'
<1>. SUFFICES ASSUME GatherInv, passFuel PROVE GatherInv'
  OBVIOUS
<1>1. /\ ThreadStep /\ NoMove /\ fuel' = fuel /\ flying' = flying
      /\ lastRecvId' = lastRecvId
      /\ missed' = missed /\ stray' = stray /\ faults' = faults
      /\ thread.at = "fuelling" /\ HasNext
      /\ thread' = [at |-> "fuelling", lastId |-> thread.lastId + 1, sent |-> thread.sent]
  BY DEF passFuel, ThreadStep, NoMove, world, Fuelling
<1>2. /\ fuel' \in [Addresses -> Nat] /\ flying' \in [Addresses -> Nat]
      /\ thread.sent \subseteq Addresses
      /\ \A a \in Addresses :
           /\ fuel[a] <= fuel'[a]
           /\ flying'[a] <= stray' /\ fuel'[a] + flying'[a] <= 1 + stray'
  BY <1>1, FuellingFacts
<1>. QED BY <1>1, <1>2, FuellingStep

LEMMA SendFuelInv == GatherInv /\ sendFuel => GatherInv'
<1>. SUFFICES ASSUME GatherInv, sendFuel PROVE GatherInv'
  OBVIOUS
<1>1. /\ ThreadStep /\ NoMove /\ flying' = flying /\ lastRecvId' = lastRecvId
      /\ missed' = missed
      /\ fuel' = [fuel EXCEPT ![NextAddress] = fuel[NextAddress] + 1]
      /\ thread.at = "fuelling" /\ HasNext
      /\ thread' = [at |-> "fuelling", lastId |-> thread.lastId + 1,
                    sent |-> thread.sent \cup {NextAddress}]
      /\ \/ fuel[NextAddress] = 0 /\ stray' = stray /\ faults' = faults
         \/ fuel[NextAddress] > 0 /\ Fail /\ stray' = stray + 1
  BY DEF sendFuel, ThreadStep, NoMove, world, Fuelling
<1>2. PICK b \in Addresses : b = NextAddress
  BY <1>1, FuellingFacts
<1>3. /\ fuel' \in [Addresses -> Nat] /\ flying' \in [Addresses -> Nat]
      /\ thread.sent \cup {b} \subseteq Addresses
  BY <1>1, <1>2, FuellingFacts
<1>4. /\ stray' \in Nat /\ stray' >= stray
      /\ \/ faults' = faults /\ stray' = stray
         \/ Fail /\ stray' \in stray .. stray + 1
  BY <1>1, FuellingFacts
<1>5. ASSUME NEW a \in Addresses
      PROVE  /\ fuel[a] <= fuel'[a]
             /\ flying'[a] <= stray' /\ fuel'[a] + flying'[a] <= 1 + stray'
  <2>1. CASE a = b /\ fuel[b] = 0
    BY <1>1, <1>2, <1>4, <2>1, FuellingFacts
  <2>2. CASE a = b /\ fuel[b] > 0
    BY <1>1, <1>2, <2>2, FuellingFacts
  <2>3. CASE a # b
    BY <1>1, <1>2, <1>4, <2>3, FuellingFacts
  <2>. QED BY <1>1, <2>1, <2>2, <2>3, FuellingFacts
<1>. QED BY <1>1, <1>2, <1>3, <1>4, <1>5, FuellingStep

\* What is sent with a failing call is stray.
LEMMA FailFuelInv == GatherInv /\ failFuel => GatherInv'
<1>. SUFFICES ASSUME GatherInv, failFuel PROVE GatherInv'
  OBVIOUS
<1>1. /\ ThreadStep /\ NoMove /\ fuel' = fuel /\ lastRecvId' = lastRecvId
      /\ missed' = missed /\ Fail /\ thread.at = "fuelling" /\ HasNext
  BY DEF failFuel, ThreadStep, NoMove
<1>2. PICK s \in {thread.sent, thread.sent \cup {NextAddress}} :
        thread' = [at |-> "fuelling", lastId |-> thread.lastId + 1, sent |-> s]
  BY DEF failFuel, Fuelling
<1>3. \/ flying' = flying /\ stray' = stray
      \/ /\ flying' = [flying EXCEPT ![NextAddress] = flying[NextAddress] + 1]
         /\ stray' = stray + 1
  BY DEF failFuel
<1>4. PICK b \in Addresses : b = NextAddress
  BY <1>1, FuellingFacts
<1>5. s \subseteq Addresses
  BY <1>1, <1>4, FuellingFacts
<1>6. fuel' \in [Addresses -> Nat] /\ flying' \in [Addresses -> Nat]
  BY <1>1, <1>3, <1>4, FuellingFacts
<1>7. ASSUME NEW a \in Addresses
      PROVE  /\ fuel[a] <= fuel'[a]
             /\ flying'[a] <= stray' /\ fuel'[a] + flying'[a] <= 1 + stray'
  <2>1. CASE flying' = flying /\ stray' = stray
    BY <1>1, <2>1, FuellingFacts
  <2>2. CASE /\ flying' = [flying EXCEPT ![b] = flying[b] + 1]
             /\ stray' = stray + 1
    BY <1>1, <2>2, FuellingFacts
  <2>. QED BY <1>3, <1>4, <2>1, <2>2
<1>8. stray' \in stray .. stray + 1
  BY <1>1, <1>3, FuellingFacts
<1>. QED BY <1>1, <1>2, <1>5, <1>6, <1>7, <1>8, FuellingStep

LEMMA EndFuelInv == GatherInv /\ endFuel => GatherInv'
<1>. SUFFICES ASSUME GatherInv, endFuel PROVE GatherInv'
  OBVIOUS
<1>1. /\ ThreadStep /\ NoMove /\ NoFuel /\ lastRecvId' = lastRecvId
      /\ missed' = missed /\ stray' = stray /\ faults' = faults
      /\ thread.at = "fuelling"
      /\ thread' = [at |-> "gathering", lastId |-> lastRecvId, sent |-> {}]
  BY DEF endFuel, ThreadStep, NoMove, NoFuel, world, Gathering
<1>2. Types' /\ InFlight'
  BY <1>1, NothingMoves DEF GatherInv, Types
<1>3. lastRecvId \in lastRecvId' .. Len(records') /\ {} \subseteq Addresses
  BY <1>1, RecordFacts DEF GatherInv, ThreadStep
<1>4. /\ ThreadShape' /\ ReadIsHeld' /\ SavedIsSent' /\ thread'.at = "gathering"
      /\ thread'.sent = {} /\ Passed' = lastRecvId
  BY <1>1, <1>3, ToWalk
<1>5. SentIsLow'
  BY <1>4 DEF SentIsLow
<1>6. Passed = lastRecvId
  BY <1>1, WalkFacts
<1>7. Ahead'
  BY <1>1, <1>4, <1>6, RecordFacts, NothingRead DEF GatherInv
<1>8. FuelServes'
  BY <1>1, <1>4, SameFuel DEF ThreadStep
<1>. QED BY <1>2, <1>4, <1>5, <1>7, <1>8 DEF GatherInv

LEMMA PassSentInv == GatherInv /\ passSent => GatherInv'
<1>. SUFFICES ASSUME GatherInv, passSent PROVE GatherInv'
  OBVIOUS
<1>1. /\ ThreadStep /\ NoMove /\ NoFuel /\ lastRecvId' = thread.lastId + 1
      /\ missed' = missed /\ stray' = stray /\ faults' = faults
      /\ thread.at = "gathering" /\ HasNext /\ NextAddress \in thread.sent
      /\ thread' = [at |-> "gathering", lastId |-> thread.lastId + 1, sent |-> thread.sent]
  BY DEF passSent, ThreadStep, NoMove, NoFuel, world, Gathering
<1>2. PICK p \in Nat : p = thread.lastId + 1
  BY <1>1, WalkFacts
<1>3. /\ p \in 1 .. Len(records) /\ NextAddress = records[p]
      /\ NextAddress \in Addresses /\ Passed + 1 = p /\ thread.sent \subseteq Addresses
  BY <1>1, <1>2, WalkFacts
<1>4. Types' /\ InFlight' /\ \A a \in Addresses : Waiting(a)' = Waiting(a)
  <2>1. lastRecvId' \in 0 .. Len(records)
    BY <1>1, <1>2, <1>3
  <2>. QED BY <1>1, <2>1, NothingMoves DEF GatherInv, Types
<1>5. p \in lastRecvId' .. Len(records')
  BY <1>1, <1>2, <1>3, RecordFacts DEF GatherInv, ThreadStep
<1>6. /\ ThreadShape' /\ ReadIsHeld' /\ SavedIsSent' /\ thread'.at = "gathering"
      /\ thread'.sent = thread.sent /\ Passed' = p
  BY <1>1, <1>2, <1>3, <1>5, ToWalk
<1>7. \A a \in thread.sent : a \notin missed => Waiting(a) < GatherMin
  BY <1>1 DEF GatherInv, SentIsLow
<1>8. SentIsLow'
  BY <1>1, <1>3, <1>4, <1>6, <1>7 DEF SentIsLow
<1>9. AllStayAhead(p)
  <2>. SUFFICES ASSUME NEW a \in Addresses,
                       Waiting(a) >= GatherMin, unrecorded[a] = 0, a \notin missed
                PROVE  StaysAhead(a, p)
    BY <1>1, <1>4 DEF AllStayAhead
  <2>1. a # records[p]
    <3>1. /\ held[a] \in Nat /\ Waiting(a) \in Int /\ Waiting(a) <= held[a]
          /\ GatherMin \in Nat
      BY WaitingFacts
    <3>. QED BY <1>1, <1>3, <1>7, <3>1
  <2>2. \A i \in Passed + 1 .. p : records[i] # a
    BY <1>3, <2>1, PassedFacts
  <2>. QED BY <2>2 DEF StaysAhead
<1>10. Ahead'
  BY <1>1, <1>6, <1>9, ThreadAhead
<1>11. FuelServes'
  BY <1>1, <1>6, SameFuel DEF ThreadStep
<1>. QED BY <1>4, <1>6, <1>8, <1>10, <1>11 DEF GatherInv

\* A balance that is low takes the address off what the walk must not pass; one
\* that cannot be read makes it missed.
LEMMA PassLowInv == GatherInv /\ passLow => GatherInv'
<1>. SUFFICES ASSUME GatherInv, passLow PROVE GatherInv'
  OBVIOUS
<1>1. /\ ThreadStep /\ NoMove /\ NoFuel /\ stray' = stray
      /\ thread.at = "gathering" /\ HasNext /\ NextAddress \notin thread.sent
      /\ thread' = [at |-> "gathering", lastId |-> thread.lastId + 1, sent |-> thread.sent]
      /\ lastRecvId' = IF task = "USDT" THEN lastRecvId ELSE thread.lastId + 1
      /\ \/ /\ held[NextAddress] < GatherMin
            /\ missed' = missed \ {NextAddress} /\ faults' = faults
         \/ Fail /\ missed' = missed \cup {NextAddress}
  BY DEF passLow, ThreadStep, NoMove, NoFuel, world, Gathering
<1>2. PICK p \in Nat : p = thread.lastId + 1
  BY <1>1, WalkFacts
<1>3. /\ p \in 1 .. Len(records) /\ NextAddress = records[p]
      /\ NextAddress \in Addresses /\ Passed + 1 = p /\ thread.sent \subseteq Addresses
      /\ lastRecvId <= p /\ lastRecvId \in Nat
  BY <1>1, <1>2, WalkFacts, RecordFacts DEF GatherInv
<1>4. PICK b \in Addresses : b = NextAddress /\ b = records[p]
  BY <1>3
<1>5. lastRecvId' \in 0 .. Len(records) /\ lastRecvId' <= p
  BY <1>1, <1>2, <1>3, RecordFacts DEF GatherInv
<1>6. Types' /\ InFlight' /\ \A a \in Addresses : Waiting(a)' = Waiting(a)
  <2>1. missed' \subseteq Addresses
    BY <1>1, <1>4 DEF GatherInv, Types
  <2>2. \/ faults' = faults /\ stray' = stray
        \/ Fail /\ stray' \in stray .. stray + 1
    BY <1>1, ConstantFacts DEF GatherInv
  <2>. QED BY <1>1, <1>5, <2>1, <2>2, NothingMoves DEF GatherInv, Types
<1>7. p \in lastRecvId' .. Len(records')
  BY <1>1, <1>3, <1>5, RecordFacts DEF GatherInv, ThreadStep
<1>8. /\ ThreadShape' /\ ReadIsHeld' /\ SavedIsSent' /\ thread'.at = "gathering"
      /\ thread'.sent = thread.sent /\ Passed' = p
  BY <1>1, <1>2, <1>3, <1>7, ToWalk
<1>9. \A a \in thread.sent : a \notin missed => Waiting(a) < GatherMin
  BY <1>1 DEF GatherInv, SentIsLow
<1>10. SentIsLow'
  <2>1. \A a \in thread.sent : a # b
    BY <1>1, <1>4
  <2>2. \A a \in thread.sent : a \notin missed' => a \notin missed
    BY <1>1, <1>4, <2>1
  <2>. QED BY <1>3, <1>6, <1>8, <1>9, <2>2 DEF SentIsLow
<1>11. AllStayAhead(p)
  <2>. SUFFICES ASSUME NEW a \in Addresses,
                       Waiting(a) >= GatherMin, unrecorded[a] = 0, a \notin missed'
                PROVE  StaysAhead(a, p)
    BY <1>1, <1>6 DEF AllStayAhead
  <2>1. a # b
    <3>1. /\ held[a] \in Nat /\ Waiting(a) \in Int /\ Waiting(a) <= held[a]
          /\ GatherMin \in Nat
      BY WaitingFacts
    <3>. QED BY <1>1, <1>4, <3>1
  <2>2. \A i \in Passed + 1 .. p : records[i] # a
    BY <1>3, <1>4, <2>1, PassedFacts
  <2>3. a \notin missed
    BY <1>1, <1>4, <2>1
  <2>. QED BY <2>2, <2>3 DEF StaysAhead
<1>12. Ahead'
  BY <1>1, <1>8, <1>11, ThreadAhead
<1>13. FuelServes'
  BY <1>1, <1>8, SameFuel DEF ThreadStep
<1>. QED BY <1>6, <1>8, <1>10, <1>12, <1>13 DEF GatherInv

\* The record is not passed before it is saved.
LEMMA CheckBalanceInv == GatherInv /\ checkBalance => GatherInv'
<1>. SUFFICES ASSUME GatherInv, checkBalance PROVE GatherInv'
  OBVIOUS
<1>1. /\ ThreadStep /\ NoMove /\ NoFuel /\ stray' = stray
      /\ lastRecvId' = lastRecvId /\ faults' = faults
      /\ thread.at = "gathering" /\ HasNext /\ NextAddress \notin thread.sent
      /\ missed' = missed \ {NextAddress}
      /\ thread' = [at |-> IF task = "USDT" THEN "fuel" ELSE "send",
                 lastId |-> thread.lastId + 1, sent |-> thread.sent,
                 amount |-> held[NextAddress]]
  BY DEF checkBalance, ThreadStep, NoMove, NoFuel, world, Moving
<1>2. PICK at \in InRecord :
        /\ at # "save"
        /\ at = IF task = "USDT" THEN "fuel" ELSE "send"
        /\ at = "fuel" => task = "USDT"
        /\ at = "send" => task # "USDT"
  BY DEF InRecord
<1>3. PICK p \in Nat : p = thread.lastId + 1
  BY <1>1, WalkFacts
<1>4. /\ p \in 1 .. Len(records) /\ NextAddress = records[p]
      /\ NextAddress \in Addresses /\ Passed = p - 1 /\ thread.sent \subseteq Addresses
      /\ lastRecvId + 1 <= p /\ lastRecvId \in Nat
  BY <1>1, <1>3, WalkFacts, RecordFacts DEF GatherInv
<1>5. PICK b \in Addresses : b = NextAddress /\ b = records[p]
  BY <1>4
<1>6. Types' /\ InFlight' /\ \A a \in Addresses : Waiting(a)' = Waiting(a)
  <2>1. missed' \subseteq Addresses
    BY <1>1 DEF GatherInv, Types
  <2>. QED BY <1>1, <2>1, NothingMoves DEF GatherInv, Types
<1>7. PICK n \in Nat : n = held[b]
  BY DEF GatherInv, Types
<1>8. thread' = [at |-> at, lastId |-> p, sent |-> thread.sent, amount |-> n]
  BY <1>1, <1>2, <1>3, <1>5, <1>7
<1>9. /\ at = "fuel" => task' = "USDT"
      /\ p \in lastRecvId' + 1 .. Len(records') /\ thread.sent \subseteq Addresses
  BY <1>1, <1>2, <1>4, RecordFacts DEF GatherInv, ThreadStep
<1>10. /\ ThreadShape' /\ thread'.at = at /\ thread'.sent = thread.sent /\ thread'.amount = n
       /\ Current' = records'[p] /\ Passed' = IF at = "save" THEN p ELSE p - 1
  BY <1>8, <1>9, ToRecord
<1>11. Current' = b /\ Passed' = p - 1 /\ at \in {"fuel", "send"}
  BY <1>1, <1>2, <1>5, <1>10 DEF ThreadStep, InRecord
<1>12. ReadIsHeld'
  <2>1. held'[b] = n /\ Waiting(b)' = Waiting(b) /\ Waiting(b) <= n
    BY <1>6, <1>7, WaitingFacts, <1>1 DEF NoMove
  <2>2. Current' = b => Waiting(Current)' = Waiting(b)'
    BY DEF Waiting
  <2>. QED BY <1>10, <1>11, <2>1, <2>2 DEF ReadIsHeld
<1>13. SavedIsSent'
  BY <1>10, <1>11 DEF SavedIsSent
<1>14. SentIsLow'
  <2>1. \A a \in thread.sent : a \notin missed => Waiting(a) < GatherMin
    BY <1>1 DEF GatherInv, SentIsLow
  <2>2. \A a \in thread.sent : a \notin missed' => a \notin missed
    BY <1>1
  <2>. QED BY <1>4, <1>6, <1>10, <2>1, <2>2 DEF SentIsLow
<1>15. AllStayAhead(p - 1)
  <2>. SUFFICES ASSUME NEW a \in Addresses,
                       Waiting(a) >= GatherMin, unrecorded[a] = 0, a \notin missed'
                PROVE  StaysAhead(a, p - 1)
    BY <1>1, <1>6 DEF AllStayAhead
  <2>1. CASE a = b
    <3>1. p \in (p - 1) + 1 .. Len(records) /\ records[p] = a
      BY <1>4, <1>5, <2>1
    <3>. QED BY <3>1 DEF StaysAhead
  <2>2. CASE a # b
    <3>1. a \notin missed
      BY <1>1, <1>5, <2>2
    <3>2. \A i \in Passed + 1 .. p - 1 : FALSE
      BY <1>3, <1>4
    <3>. QED BY <3>1, <3>2 DEF StaysAhead
  <2>. QED BY <2>1, <2>2
<1>16. Ahead'
  <2>1. p - 1 \in Nat
    BY <1>4
  <2>. QED BY <1>1, <1>11, <1>15, <2>1, ThreadAhead
<1>17. FuelServes'
  BY <1>1, <1>2, <1>10, SameFuel DEF ThreadStep
<1>. QED BY <1>6, <1>10, <1>12, <1>13, <1>14, <1>16, <1>17 DEF GatherInv

LEMMA EndGatherInv == GatherInv /\ endGather => GatherInv'
<1>. SUFFICES ASSUME GatherInv, endGather PROVE GatherInv'
  OBVIOUS
<1>1. /\ ThreadStep /\ NoMove /\ NoFuel /\ lastRecvId' = lastRecvId
      /\ missed' = missed /\ stray' = stray /\ faults' = faults
      /\ thread.at = "gathering" /\ thread' = AtRest
  BY DEF endGather, ThreadStep, NoMove, NoFuel, world
<1>2. Types' /\ InFlight'
  BY <1>1, NothingMoves DEF GatherInv, Types
<1>3. /\ ThreadShape' /\ ReadIsHeld' /\ SentIsLow' /\ SavedIsSent' /\ thread'.at = "rest"
      /\ Passed' = lastRecvId
  BY <1>1, ToRest
<1>4. lastRecvId \in Nat /\ lastRecvId <= Passed
  BY RecordFacts, PassedFacts DEF GatherInv
<1>5. Ahead'
  BY <1>1, <1>3, <1>4, NothingRead
<1>6. FuelServes'
  BY <1>1, <1>3, SameFuel DEF ThreadStep
<1>. QED BY <1>2, <1>3, <1>5, <1>6 DEF GatherInv

LEMMA SaveInv == GatherInv /\ save => GatherInv'
<1>. SUFFICES ASSUME GatherInv, save PROVE GatherInv'
  OBVIOUS
<1>1. /\ ThreadStep /\ NoMove /\ NoFuel /\ lastRecvId' = thread.lastId
      /\ missed' = missed /\ stray' = stray /\ faults' = faults
      /\ thread.at = "save"
      /\ thread' = [at |-> "gathering", lastId |-> thread.lastId, sent |-> thread.sent]
  BY DEF save, ThreadStep, NoMove, NoFuel, world, Gathering
<1>2. /\ thread.lastId \in 1 .. Len(records) /\ thread.lastId \in Nat
      /\ thread.sent \subseteq Addresses /\ Passed = thread.lastId
  BY <1>1, MovingFacts DEF InRecord
<1>3. Types' /\ InFlight' /\ \A a \in Addresses : Waiting(a)' = Waiting(a)
  <2>1. lastRecvId' \in 0 .. Len(records)
    BY <1>1, <1>2, RecordFacts DEF GatherInv
  <2>. QED BY <1>1, <2>1, NothingMoves DEF GatherInv, Types
<1>4. thread.lastId \in lastRecvId' .. Len(records')
  BY <1>1, <1>2, RecordFacts DEF GatherInv, ThreadStep
<1>5. /\ ThreadShape' /\ ReadIsHeld' /\ SavedIsSent' /\ thread'.at = "gathering"
      /\ thread'.sent = thread.sent /\ Passed' = thread.lastId
  BY <1>1, <1>2, <1>4, ToWalk
<1>6. SentIsLow'
  BY <1>1, <1>2, <1>3, <1>5 DEF GatherInv, SentIsLow, InRecord
<1>7. Ahead'
  BY <1>1, <1>2, <1>5, NothingRead
<1>8. FuelServes'
  BY <1>1, <1>5, SameFuel DEF ThreadStep
<1>. QED BY <1>3, <1>5, <1>6, <1>7, <1>8 DEF GatherInv

\* The BTC is sent, refused, sent with a failing call, or lost.  What it adds
\* is for the transfer in hand, or counts as stray.
LEMMA SendBtcInv == GatherInv /\ sendBtc => GatherInv'
<1>. SUFFICES ASSUME GatherInv, sendBtc PROVE GatherInv'
  OBVIOUS
<1>1. /\ ThreadStep /\ NoMove /\ flying' = flying /\ lastRecvId' = lastRecvId
      /\ missed' = missed /\ thread.at = "fuel" /\ thread.at \in InRecord
  BY DEF sendBtc, ThreadStep, NoMove, world, InRecord
<1>2. /\ task = "USDT" /\ Passed = thread.lastId - 1 /\ thread.sent \subseteq Addresses
      /\ thread.amount \in Nat /\ thread.lastId \in 1 .. Len(records) /\ thread.lastId \in Nat
      /\ lastRecvId + 1 <= thread.lastId
  BY <1>1, MovingFacts
<1>3. PICK b \in Addresses : b = Current /\ b = records[thread.lastId]
  BY <1>1, MovingFacts
<1>4. /\ fuel \in [Addresses -> Nat] /\ stray \in Nat
      /\ \A a \in Addresses : fuel[a] \in Nat /\ fuel[a] <= stray
  <2>1. fuel \in [Addresses -> Nat] /\ stray \in Nat
    BY DEF GatherInv, Types
  <2>2. ASSUME NEW a \in Addresses PROVE fuel[a] <= stray
    <3>1. fuel[a] <= stray + 0
      BY <1>1, <1>2 DEF GatherInv, FuelServes
    <3>. QED BY <2>1, <3>1
  <2>. QED BY <2>1, <2>2
<1>5. \/ /\ faults' = faults /\ stray' = stray
         /\ fuel' = [fuel EXCEPT ![b] = fuel[b] + 1] /\ thread' = To("send")
      \/ Fail /\ stray' = stray /\ fuel' = fuel /\ thread' \in {AtRest, To("send")}
      \/ /\ Fail /\ stray' = stray + 1
         /\ fuel' = [fuel EXCEPT ![b] = fuel[b] + 1] /\ thread' = AtRest
  BY <1>3 DEF sendBtc
<1>6. fuel' \in [Addresses -> Nat] /\ fuel' \in {fuel, [fuel EXCEPT ![b] = fuel[b] + 1]}
  BY <1>4, <1>5
<1>7. Types' /\ InFlight'
  <2>1. \/ faults' = faults /\ stray' = stray
        \/ Fail /\ stray' \in stray .. stray + 1
    BY <1>4, <1>5
  <2>2. Types'
    BY <1>1, <1>6, <2>1, ThreadTypes DEF GatherInv, Types, NoMove
  <2>3. \A a \in Addresses : fuel[a] > 0 => fuel'[a] > 0
    BY <1>4, <1>6
  <2>. QED BY <1>1, <2>2, <2>3, FlightStays
<1>8. CASE thread' = AtRest
  <2>1. /\ ThreadShape' /\ ReadIsHeld' /\ SentIsLow' /\ SavedIsSent'
        /\ thread'.at = "rest" /\ Passed' = lastRecvId
    BY <1>1, <1>8, ToRest
  <2>2. lastRecvId \in Nat /\ lastRecvId <= Passed
    BY RecordFacts, PassedFacts DEF GatherInv
  <2>3. Ahead'
    BY <1>1, <2>1, <2>2, NothingRead
  <2>4. ~(thread' = To("send"))
    BY <2>1 DEF To, Moving
  <2>5. ASSUME NEW a \in Addresses PROVE fuel'[a] <= stray'
    BY <1>4, <1>5, <2>4
  <2>6. FuelServes'
    <3>1. stray' \in Nat /\ task' = "USDT"
      BY <1>1, <1>2, <1>4, <1>5 DEF ThreadStep
    <3>2. ASSUME NEW a \in Addresses
          PROVE  fuel'[a] <= stray' + (IF thread'.at = "send" /\ a = Current' THEN 1 ELSE 0)
      BY <2>1, <2>5, <3>1
    <3>. QED BY <3>1, <3>2 DEF FuelServes
  <2>. QED BY <1>7, <2>1, <2>3, <2>6 DEF GatherInv
<1>9. CASE thread' = To("send")
  <2>1. thread' = [at |-> "send", lastId |-> thread.lastId, sent |-> thread.sent,
                   amount |-> thread.amount]
    BY <1>9 DEF To, Moving
  <2>2. "send" \in InRecord /\ thread.lastId \in lastRecvId' + 1 .. Len(records')
    BY <1>1, <1>2, RecordFacts DEF GatherInv, ThreadStep, InRecord
  <2>3. /\ ThreadShape' /\ thread'.at = "send" /\ thread'.sent = thread.sent
        /\ thread'.amount = thread.amount /\ Current' = records'[thread.lastId]
        /\ Passed' = IF "send" = "save" THEN thread.lastId ELSE thread.lastId - 1
    BY <1>2, <2>1, <2>2, ToRecord
  <2>4. Current' = b /\ Passed' = Passed
    BY <1>1, <1>2, <1>3, <2>3 DEF ThreadStep
  <2>5. ReadIsHeld'
    BY <1>1, <1>3, <2>3, <2>4 DEF GatherInv, ReadIsHeld, NoMove, ThreadStep, Waiting
  <2>6. SentIsLow' /\ SavedIsSent'
    BY <1>1, <2>3 DEF GatherInv, SentIsLow, SavedIsSent, InRecord, NoMove, Waiting
  <2>7. Ahead'
    BY <1>1, <2>4, PassedFacts, NothingRead
  <2>8. ~(thread' = AtRest)
    BY <2>3 DEF AtRest
  <2>9. FuelServes'
    <3>1. stray' = stray /\ task' = "USDT"
      BY <1>1, <1>2, <1>5, <2>8 DEF ThreadStep
    <3>2. ASSUME NEW a \in Addresses
          PROVE  fuel'[a] <= stray' + (IF thread'.at = "send" /\ a = Current' THEN 1 ELSE 0)
      <4>1. CASE a = b
        BY <1>4, <1>6, <2>3, <2>4, <3>1, <4>1
      <4>2. CASE a # b
        BY <1>4, <1>6, <2>3, <2>4, <3>1, <4>2
      <4>. QED BY <4>1, <4>2
    <3>. QED BY <3>1, <3>2 DEF FuelServes
  <2>. QED BY <1>7, <2>3, <2>5, <2>6, <2>7, <2>9 DEF GatherInv
<1>. QED BY <1>5, <1>8, <1>9

\* The current address of a transfer, after it: what waits there is low, or it is
\* missed.  At the others waits what waited.
CurrentIsDone ==
  /\ missed \subseteq missed'
  /\ \A a \in Addresses : a # Current => Waiting(a)' = Waiting(a)
  /\ Current \notin missed' => held'[Current] - leaving'[Current] < GatherMin

LEMMA DoneAhead ==
  ASSUME NEW p \in Nat, GatherInv, thread.at = "send", p <= thread.lastId, CurrentIsDone,
         held' \in [Addresses -> Nat], leaving' \in [Addresses -> Nat]
  PROVE  AllStayAhead(p)
<1>. SUFFICES ASSUME NEW a \in Addresses,
                     Waiting(a)' >= GatherMin, unrecorded[a] = 0, a \notin missed'
              PROVE  StaysAhead(a, p)
  BY DEF AllStayAhead
<1>1. /\ Passed = thread.lastId - 1 /\ thread.lastId \in Nat /\ Current = records[thread.lastId]
      /\ Current \in Addresses
  BY MovingFacts DEF InRecord
<1>2. /\ GatherMin \in Nat /\ held'[a] \in Nat /\ leaving'[a] \in Nat
      /\ Waiting(a)' = held'[a] - leaving'[a]
  BY WaitingFacts DEF Waiting
<1>3. a # Current /\ a \notin missed
  BY <1>1, <1>2 DEF CurrentIsDone
<1>4. Waiting(a) >= GatherMin
  BY <1>3 DEF CurrentIsDone
<1>5. \A i \in Passed + 1 .. p : i = thread.lastId
  BY <1>1
<1>6. \A i \in Passed + 1 .. p : records[i] # a
  BY <1>1, <1>3, <1>5
<1>. QED BY <1>3, <1>4, <1>6 DEF StaysAhead

LEMMA DoneLow ==
  ASSUME GatherInv, thread.at = "send", CurrentIsDone
  PROVE  \A a \in thread.sent \cup {Current} : a \notin missed' => Waiting(a)' < GatherMin
<1>. SUFFICES ASSUME NEW a \in thread.sent \cup {Current}, a \notin missed'
              PROVE  Waiting(a)' < GatherMin
  OBVIOUS
<1>1. CASE a = Current
  BY <1>1 DEF CurrentIsDone, Waiting
<1>2. CASE a # Current
  <2>1. a \in thread.sent /\ a \in Addresses /\ a \notin missed
    BY <1>2, MovingFacts DEF InRecord, CurrentIsDone
  <2>2. Waiting(a) < GatherMin
    BY <2>1 DEF GatherInv, SentIsLow, InRecord
  <2>. QED BY <1>2, <2>1, <2>2 DEF CurrentIsDone
<1>. QED BY <1>1, <1>2

\* What a transfer takes, of coins and of fuel.
LEMMA MoveFacts ==
  ASSUME GatherInv, thread.at = "send", Fuelled, Covered, Move, leaving' = leaving,
         missed' = missed
  PROVE  /\ held' \in [Addresses -> Nat] /\ CurrentIsDone
         /\ \A a \in Addresses : leaving[a] > 0 => held'[a] = held[a]
<1>1. PICK b \in Addresses : b = Current
  BY MovingFacts DEF InRecord
<1>2. PICK n \in Nat : n = thread.amount
  BY MovingFacts DEF InRecord
<1>3. PICK k \in Nat : k = Kept /\ k < GatherMin
  BY ConstantFacts DEF GatherInv
<1>4. n <= held[b] /\ leaving[b] = 0
  BY <1>1, <1>2 DEF Covered
<1>5. held \in [Addresses -> Nat] /\ leaving \in [Addresses -> Nat] /\ GatherMin \in Nat
  BY GatherAssumption DEF GatherInv, Types
<1>6. b \notin missed => held[b] <= n
  BY <1>1, <1>2, <1>4, <1>5 DEF GatherInv, ReadIsHeld, Waiting
<1>7. held' = [held EXCEPT ![b] = held[b] - (n - k)]
  BY <1>1, <1>2, <1>3 DEF Move
<1>8. held[b] - (n - k) \in Nat /\ (b \notin missed => held[b] - (n - k) <= k)
  BY <1>4, <1>5, <1>6
<1>9. held' \in [Addresses -> Nat]
  BY <1>5, <1>7, <1>8
<1>10. CurrentIsDone
  <2>1. \A a \in Addresses : a # b => held'[a] = held[a]
    BY <1>5, <1>7
  <2>2. b \notin missed => held'[b] - leaving'[b] < GatherMin
    BY <1>3, <1>4, <1>5, <1>7, <1>8
  <2>. QED BY <1>1, <2>1, <2>2 DEF CurrentIsDone, Waiting
<1>11. \A a \in Addresses : leaving[a] > 0 => held'[a] = held[a]
  BY <1>4, <1>5, <1>7
<1>. QED BY <1>9, <1>10, <1>11

\* The piece of fuel a transfer takes.
LEMMA UseFacts ==
  ASSUME GatherInv, thread.at = "send", Fuelled, UseFuel, flying' = flying
  PROVE  /\ fuel' \in [Addresses -> Nat]
         /\ task = "ETH" => \A a \in Addresses : fuel'[a] = 0
         /\ task = "TOKEN" => \A a \in Addresses :
              flying'[a] <= stray /\ fuel'[a] + flying'[a] <= 1 + stray
         /\ task = "USDT" => \A a \in Addresses : fuel'[a] <= stray
         /\ \A a \in Addresses : a # Current => fuel'[a] = fuel[a]
         /\ fuel[Current] > 1 => fuel'[Current] > 0
<1>1. PICK b \in Addresses : b = Current
  BY MovingFacts DEF InRecord
<1>2. /\ fuel \in [Addresses -> Nat] /\ flying \in [Addresses -> Nat] /\ stray \in Nat
      /\ \A a \in Addresses : fuel[a] \in Nat /\ flying[a] \in Nat
  BY DEF GatherInv, Types
<1>3. CASE task = "ETH"
  <2>1. fuel' = fuel /\ \A a \in Addresses : fuel[a] = 0
    BY <1>3 DEF UseFuel, GatherInv, FuelServes
  <2>. QED BY <1>1, <1>2, <1>3, <2>1
<1>4. CASE task # "ETH"
  <2>1. fuel[b] > 0 /\ fuel' = [fuel EXCEPT ![b] = fuel[b] - 1]
    BY <1>1, <1>4 DEF Fuelled, UseFuel
  <2>2. fuel' \in [Addresses -> Nat]
    BY <1>2, <2>1
  <2>3. /\ \A a \in Addresses : a # b => fuel'[a] = fuel[a]
        /\ fuel[b] > 1 => fuel'[b] > 0
        /\ \A a \in Addresses : fuel'[a] <= fuel[a] /\ fuel'[a] \in Nat
    BY <1>2, <2>1
  <2>4. CASE task = "TOKEN"
    <3>1. \A a \in Addresses : flying[a] <= stray /\ fuel[a] + flying[a] <= 1 + stray
      BY <2>4 DEF GatherInv, FuelServes
    <3>2. ASSUME NEW a \in Addresses
          PROVE  flying'[a] <= stray /\ fuel'[a] + flying'[a] <= 1 + stray
      BY <1>2, <2>3, <3>1
    <3>. QED BY <1>1, <2>2, <2>3, <2>4, <3>2
  <2>5. CASE task = "USDT"
    <3>1. \A a \in Addresses : fuel[a] <= stray + (IF a = b THEN 1 ELSE 0)
      BY <1>1, <2>5 DEF GatherInv, FuelServes
    <3>2. ASSUME NEW a \in Addresses PROVE fuel'[a] <= stray
      <4>1. CASE a = b
        BY <1>2, <2>1, <3>1, <4>1
      <4>2. CASE a # b
        BY <1>2, <2>1, <3>1, <4>2
      <4>. QED BY <4>1, <4>2
    <3>. QED BY <1>1, <2>2, <2>3, <2>5, <3>2
  <2>. QED BY <1>4, <2>4, <2>5 DEF GatherInv, Types, Tasks
<1>. QED BY <1>3, <1>4

\* Fuel is used, and none is sent.
LEMMA FuelUsed ==
  ASSUME GatherInv, task' = task, stray' = stray, thread'.at # "send",
         task = "ETH" => \A a \in Addresses : fuel'[a] = 0,
         task = "TOKEN" => \A a \in Addresses :
           flying'[a] <= stray /\ fuel'[a] + flying'[a] <= 1 + stray,
         task = "USDT" => \A a \in Addresses : fuel'[a] <= stray
  PROVE  FuelServes'
<1>1. stray \in Nat
  BY DEF GatherInv, Types
<1>2. task' = "USDT" =>
        \A a \in Addresses :
          fuel'[a] <= stray' + (IF thread'.at = "send" /\ a = Current' THEN 1 ELSE 0)
  BY <1>1
<1>. QED BY <1>2 DEF FuelServes

\* To the save of the cursor, with the address among those sent.
LEMMA ToSave ==
  ASSUME GatherInv, thread.at = "send", ThreadStep, lastRecvId' = lastRecvId,
         thread' = Moving("save", thread.lastId, thread.sent \cup {Current}, thread.amount)
  PROVE  /\ ThreadShape' /\ ReadIsHeld' /\ SavedIsSent'
         /\ thread'.at = "save" /\ thread'.sent = thread.sent \cup {Current}
         /\ Passed' = thread.lastId /\ thread.lastId \in Nat
<1>1. /\ thread.lastId \in 1 .. Len(records) /\ thread.lastId \in Nat
      /\ lastRecvId + 1 <= thread.lastId /\ thread.amount \in Nat
      /\ thread.sent \cup {Current} \subseteq Addresses /\ Current = records[thread.lastId]
  BY MovingFacts DEF InRecord
<1>2. PICK s : s = thread.sent \cup {Current}
  OBVIOUS
<1>3. PICK at \in InRecord : at = "save"
  BY DEF InRecord
<1>4. PICK n \in Nat : n = thread.amount
  BY <1>1
<1>5. /\ at \in InRecord /\ n \in Nat
      /\ thread' = [at |-> at, lastId |-> thread.lastId, sent |-> s, amount |-> n]
      /\ at = "fuel" => task' = "USDT"
      /\ thread.lastId \in lastRecvId' + 1 .. Len(records') /\ s \subseteq Addresses
  BY <1>1, <1>2, <1>3, <1>4, RecordFacts DEF GatherInv, ThreadStep, Moving
<1>6. /\ ThreadShape' /\ thread'.at = at /\ thread'.sent = s /\ thread'.amount = n
      /\ Current' = records'[thread.lastId]
      /\ Passed' = IF at = "save" THEN thread.lastId ELSE thread.lastId - 1
  BY ONLY <1>5, ToRecord
<1>7. ReadIsHeld' /\ SavedIsSent'
  BY <1>1, <1>2, <1>3, <1>6 DEF ReadIsHeld, SavedIsSent, ThreadStep
<1>. QED BY <1>1, <1>2, <1>3, <1>6, <1>7

\* To where a failure leads.
LEMMA ToFailure ==
  ASSUME GatherInv, thread.at = "send", ThreadStep,
         lastRecvId' = lastRecvId, thread' = AfterFailure
  PROVE  /\ ThreadShape' /\ ReadIsHeld' /\ SavedIsSent' /\ thread'.at # "send"
         /\ task # "TOKEN" => SentIsLow' /\ Passed' = lastRecvId
         /\ task = "TOKEN" => thread'.sent = thread.sent /\ Passed' = thread.lastId
<1>1. CASE task = "TOKEN"
  <2>1. thread' = [at |-> "gathering", lastId |-> thread.lastId, sent |-> thread.sent]
    BY <1>1 DEF AfterFailure, Gathering
  <2>2. thread.lastId \in lastRecvId' .. Len(records') /\ thread.sent \subseteq Addresses
    BY MovingFacts, RecordFacts DEF GatherInv, InRecord, ThreadStep
  <2>3. /\ ThreadShape' /\ ReadIsHeld' /\ SavedIsSent' /\ thread'.at = "gathering"
        /\ thread'.sent = thread.sent /\ Passed' = thread.lastId
    BY <2>1, <2>2, ToWalk
  <2>. QED BY <1>1, <2>3
<1>2. CASE task # "TOKEN"
  <2>1. thread' = AtRest
    BY <1>2 DEF AfterFailure
  <2>. QED BY <1>2, <2>1, ToRest
<1>. QED BY <1>1, <1>2

LEMMA SendInv == GatherInv /\ send => GatherInv'
<1>. SUFFICES ASSUME GatherInv, send PROVE GatherInv'
  OBVIOUS
<1>1. /\ ThreadStep /\ leaving' = leaving /\ flying' = flying /\ lastRecvId' = lastRecvId
      /\ missed' = missed /\ stray' = stray /\ faults' = faults
      /\ thread.at = "send" /\ Fuelled /\ Covered /\ Move
      /\ thread' = Moving("save", thread.lastId, thread.sent \cup {Current}, thread.amount)
  BY DEF send, Sent, ThreadStep, world
<1>2. /\ held' \in [Addresses -> Nat] /\ CurrentIsDone
      /\ \A a \in Addresses : leaving[a] > 0 => held'[a] = held[a]
  BY <1>1, MoveFacts
<1>3. /\ fuel' \in [Addresses -> Nat]
      /\ task = "ETH" => \A a \in Addresses : fuel'[a] = 0
      /\ task = "TOKEN" => \A a \in Addresses :
           flying'[a] <= stray /\ fuel'[a] + flying'[a] <= 1 + stray
      /\ task = "USDT" => \A a \in Addresses : fuel'[a] <= stray
      /\ \A a \in Addresses : a # Current => fuel'[a] = fuel[a]
  BY <1>1, UseFacts DEF Move
<1>4. Types'
  BY <1>1, <1>2, <1>3, ThreadTypes DEF GatherInv, Types
<1>5. InFlight'
  <2>1. ASSUME NEW a \in Addresses
        PROVE  /\ leaving'[a] > 0 => leaving'[a] <= held'[a] /\ fuel'[a] > 0
               /\ task' # "TOKEN" => flying'[a] = 0 /\ leaving'[a] = 0
    <3>1. leaving[a] > 0 => a # Current
      BY <1>1, WaitingFacts DEF Covered
    <3>2. /\ leaving[a] > 0 => leaving[a] <= held[a] /\ fuel[a] > 0
          /\ task # "TOKEN" => flying[a] = 0 /\ leaving[a] = 0
      BY DEF GatherInv, InFlight
    <3>. QED BY <1>1, <1>2, <1>3, <3>1, <3>2 DEF ThreadStep
  <2>. QED BY <2>1 DEF InFlight
<1>6. /\ ThreadShape' /\ ReadIsHeld' /\ SavedIsSent'
      /\ thread'.at = "save" /\ thread'.sent = thread.sent \cup {Current}
      /\ Passed' = thread.lastId /\ thread.lastId \in Nat
  BY <1>1, ToSave
<1>7. SentIsLow'
  <2>1. \A a \in thread.sent \cup {Current} : a \notin missed' => Waiting(a)' < GatherMin
    BY <1>1, <1>2, DoneLow
  <2>. QED BY <1>6, <2>1 DEF SentIsLow
<1>8. Ahead'
  <2>1. leaving' \in [Addresses -> Nat]
    BY <1>4 DEF Types
  <2>. QED BY <1>1, <1>2, <1>6, <2>1, DoneAhead, ThreadAhead
<1>9. FuelServes'
  <2>1. thread'.at # "send" /\ task' = task
    BY <1>1, <1>6 DEF ThreadStep
  <2>. QED BY <1>1, <1>3, <2>1, FuelUsed
<1>. QED BY <1>4, <1>5, <1>6, <1>7, <1>8, <1>9 DEF GatherInv

\* What cannot be covered belongs to the token task, and is missed.
LEMMA SendInVainInv == GatherInv /\ sendInVain => GatherInv'
<1>. SUFFICES ASSUME GatherInv, sendInVain PROVE GatherInv'
  OBVIOUS
<1>1. /\ ThreadStep /\ NoMove /\ flying' = flying /\ lastRecvId' = lastRecvId
      /\ missed' = missed \cup {Current} /\ stray' = stray /\ faults' = faults
      /\ thread.at = "send" /\ Fuelled /\ ~Covered
      /\ fuel' = fuel \/ ((leaving[Current] = 0 \/ fuel[Current] > 1) /\ UseFuel)
      /\ thread' = Moving("save", thread.lastId, thread.sent \cup {Current}, thread.amount)
  BY DEF sendInVain, Sent, ThreadStep, NoMove, world
<1>2. PICK b \in Addresses : b = Current
  BY <1>1, MovingFacts DEF InRecord
<1>3. task = "TOKEN"
  <2>1. task # "TOKEN" => leaving[b] = 0
    BY DEF GatherInv, InFlight
  <2>2. task # "TOKEN" => thread.amount <= held[b]
    BY <1>1, <1>2 DEF GatherInv, ReadIsHeld
  <2>. QED BY <1>1, <1>2, <2>1, <2>2 DEF Covered
<1>4. /\ fuel' \in [Addresses -> Nat]
      /\ \A a \in Addresses : flying'[a] <= stray /\ fuel'[a] + flying'[a] <= 1 + stray
      /\ \A a \in Addresses : a # Current => fuel'[a] = fuel[a]
      /\ fuel' = fuel \/ leaving[Current] = 0 \/ fuel'[Current] > 0
  <2>1. CASE fuel' = fuel
    BY <1>1, <1>3, <2>1 DEF GatherInv, Types, FuelServes
  <2>2. CASE (leaving[Current] = 0 \/ fuel[Current] > 1) /\ UseFuel
    BY <1>1, <1>3, <2>2, UseFacts
  <2>. QED BY <1>1, <2>1, <2>2
<1>5. missed' \subseteq Addresses
  BY <1>1, <1>2 DEF GatherInv, Types
<1>6. Types'
  BY <1>1, <1>4, <1>5, ThreadTypes DEF GatherInv, Types, NoMove
<1>7. InFlight'
  <2>1. ASSUME NEW a \in Addresses, fuel[a] > 0, leaving[a] > 0 PROVE fuel'[a] > 0
    <3>1. CASE a = Current
      BY <1>4, <2>1, <3>1, WaitingFacts
    <3>2. CASE a # Current
      BY <1>4, <2>1, <3>2
    <3>. QED BY <3>1, <3>2
  <2>2. \A a \in Addresses : leaving[a] > 0 => leaving[a] <= held[a] /\ fuel[a] > 0
    BY DEF GatherInv, InFlight
  <2>. QED BY <1>1, <1>3, <2>1, <2>2 DEF InFlight, ThreadStep, NoMove
<1>8. /\ ThreadShape' /\ ReadIsHeld' /\ SavedIsSent'
      /\ thread'.at = "save" /\ thread'.sent = thread.sent \cup {Current}
      /\ Passed' = thread.lastId /\ thread.lastId \in Nat
  BY <1>1, ToSave
<1>9. CurrentIsDone
  BY <1>1 DEF CurrentIsDone, NoMove, Waiting
<1>10. SentIsLow'
  <2>1. \A a \in thread.sent \cup {Current} : a \notin missed' => Waiting(a)' < GatherMin
    BY <1>1, <1>9, DoneLow
  <2>. QED BY <1>8, <2>1 DEF SentIsLow
<1>11. Ahead'
  <2>1. held' \in [Addresses -> Nat] /\ leaving' \in [Addresses -> Nat]
    BY <1>6 DEF Types
  <2>. QED BY <1>1, <1>8, <1>9, <2>1, DoneAhead, ThreadAhead
<1>12. FuelServes'
  BY <1>1, <1>3, <1>4 DEF FuelServes, ThreadStep
<1>. QED BY <1>6, <1>7, <1>8, <1>10, <1>11, <1>12 DEF GatherInv

\* A failure after what there was has been dealt with.
LEMMA FailureStep ==
  ASSUME GatherInv, thread.at = "send", ThreadStep, CurrentIsDone \/ task # "TOKEN",
         NoMove \/ CurrentIsDone, missed \subseteq missed',
         held' \in [Addresses -> Nat], leaving' \in [Addresses -> Nat],
         lastRecvId' = lastRecvId, thread' = AfterFailure
  PROVE  ThreadShape' /\ ReadIsHeld' /\ SavedIsSent' /\ SentIsLow' /\ Ahead' /\ thread'.at # "send"
<1>1. /\ ThreadShape' /\ ReadIsHeld' /\ SavedIsSent' /\ thread'.at # "send"
      /\ task # "TOKEN" => SentIsLow' /\ Passed' = lastRecvId
      /\ task = "TOKEN" => thread'.sent = thread.sent /\ Passed' = thread.lastId
  BY ToFailure
<1>2. /\ thread.lastId \in Nat /\ lastRecvId \in Nat /\ lastRecvId <= thread.lastId /\ lastRecvId <= Passed
  BY MovingFacts, RecordFacts, PassedFacts DEF GatherInv, InRecord
<1>3. CASE task = "TOKEN"
  <2>1. \A a \in thread.sent \cup {Current} : a \notin missed' => Waiting(a)' < GatherMin
    BY <1>3, DoneLow
  <2>2. SentIsLow'
    BY <1>1, <1>3, <2>1 DEF SentIsLow
  <2>3. AllStayAhead(thread.lastId)
    BY <1>2, <1>3, DoneAhead
  <2>4. Ahead'
    BY <1>1, <1>2, <1>3, <2>3, ThreadAhead
  <2>. QED BY <1>1, <2>2, <2>4
<1>4. CASE task # "TOKEN" /\ CurrentIsDone
  <2>1. AllStayAhead(lastRecvId)
    BY <1>2, <1>4, DoneAhead
  <2>2. Ahead'
    BY <1>1, <1>2, <1>4, <2>1, ThreadAhead
  <2>. QED BY <1>1, <1>4, <2>2
<1>5. CASE task # "TOKEN" /\ NoMove
  <2>1. Ahead'
    BY <1>1, <1>2, <1>5, NothingRead
  <2>. QED BY <1>1, <1>5, <2>1
<1>. QED BY <1>3, <1>4, <1>5

\* The piece of fuel a USDT address was sent did not serve its transfer.
LEMMA FuelLeft ==
  ASSUME GatherInv, task' = task, NoFuel, stray' \in stray .. stray + 1,
         thread.at = "send", thread'.at # "send",
         task = "USDT" => fuel[Current] = 0 \/ stray' = stray + 1
  PROVE  FuelServes'
<1>1. /\ stray \in Nat /\ stray' \in Nat /\ stray <= stray'
      /\ \A a \in Addresses : fuel[a] \in Nat /\ flying[a] \in Nat
  BY DEF GatherInv, Types
<1>2. task = "ETH" => \A a \in Addresses : fuel'[a] = 0
  BY DEF GatherInv, FuelServes, NoFuel
<1>3. ASSUME task = "TOKEN", NEW a \in Addresses
      PROVE  flying'[a] <= stray' /\ fuel'[a] + flying'[a] <= 1 + stray'
  <2>1. flying[a] <= stray /\ fuel[a] + flying[a] <= 1 + stray
    BY <1>3 DEF GatherInv, FuelServes
  <2>. QED BY <1>1, <2>1 DEF NoFuel
<1>4. ASSUME task = "USDT", NEW a \in Addresses PROVE fuel'[a] <= stray' + 0
  <2>1. fuel[a] <= stray + (IF a = Current THEN 1 ELSE 0)
    BY <1>4 DEF GatherInv, FuelServes
  <2>. QED BY <1>1, <1>4, <2>1 DEF NoFuel
<1>. QED BY <1>2, <1>3, <1>4 DEF FuelServes

\* Nothing leaves the address: what a token address holds is missed, and the
\* piece of fuel a USDT address was sent is stray.
LEMMA SendRefusedInv == GatherInv /\ sendRefused => GatherInv'
<1>. SUFFICES ASSUME GatherInv, sendRefused PROVE GatherInv'
  OBVIOUS
<1>1. /\ ThreadStep /\ NoMove /\ NoFuel /\ lastRecvId' = lastRecvId
      /\ thread.at = "send" /\ thread' = AfterFailure
      /\ missed' = IF task = "TOKEN" THEN missed \cup {Current} ELSE missed
      /\ \/ ~Fuelled /\ stray' = stray /\ faults' = faults
         \/ Fail /\ Unused
  BY DEF sendRefused, ThreadStep, NoMove, NoFuel, world
<1>2. Current \in Addresses /\ stray \in Nat
  <2>1. Current \in Addresses
    BY <1>1, MovingFacts DEF InRecord
  <2>. QED BY <2>1 DEF GatherInv, Types
<1>3. missed' \subseteq Addresses /\ missed \subseteq missed'
  BY <1>1, <1>2 DEF GatherInv, Types
<1>4. /\ stray' \in stray .. stray + 1
      /\ (stray' = stray /\ faults' = faults) \/ (Fail /\ stray' \in stray .. stray + 1)
  <2>1. Unused => stray' \in stray .. stray + 1
    BY <1>2 DEF Unused
  <2>. QED BY <1>1, <1>2, <2>1
<1>5. Types' /\ InFlight'
  <2>1. lastRecvId' \in 0 .. Len(records)
    BY <1>1 DEF GatherInv, Types
  <2>. QED BY <1>1, <1>3, <1>4, <2>1, NothingMoves
<1>6. CurrentIsDone \/ task # "TOKEN"
  BY <1>1 DEF CurrentIsDone, NoMove, Waiting
<1>7. /\ ThreadShape' /\ ReadIsHeld' /\ SavedIsSent' /\ SentIsLow' /\ Ahead'
      /\ thread'.at # "send"
  <2>1. held' \in [Addresses -> Nat] /\ leaving' \in [Addresses -> Nat]
    BY <1>5 DEF Types
  <2>. QED BY <1>1, <1>3, <1>6, <2>1, FailureStep
<1>8. FuelServes'
  <2>1. task = "USDT" => fuel[Current] = 0 \/ stray' = stray + 1
    BY <1>1, <1>2 DEF Fuelled, Unused, GatherInv, Types
  <2>2. task' = task
    BY <1>1 DEF ThreadStep
  <2>. QED BY <1>1, <1>4, <1>7, <2>1, <2>2, FuelLeft
<1>. QED BY <1>5, <1>7, <1>8 DEF GatherInv

\* ETH and USDT are gone; tokens are on their way, with the fuel for them.
LEMMA SendUnansweredInv == GatherInv /\ sendUnanswered => GatherInv'
<1>. SUFFICES ASSUME GatherInv, sendUnanswered PROVE GatherInv'
  OBVIOUS
<1>1. /\ ThreadStep /\ flying' = flying /\ lastRecvId' = lastRecvId /\ missed' = missed
      /\ stray' = stray /\ Fail /\ thread.at = "send" /\ Fuelled /\ Covered
      /\ thread' = AfterFailure
      /\ \/ task # "TOKEN" /\ Move /\ leaving' = leaving
         \/ /\ task = "TOKEN" /\ held' = held /\ fuel' = fuel
            /\ leaving' = [leaving EXCEPT ![Current] = thread.amount]
  BY DEF sendUnanswered, ThreadStep
<1>2. stray' \in stray .. stray + 1
  BY <1>1, ConstantFacts DEF GatherInv
<1>3. task' = task
  BY <1>1 DEF ThreadStep
<1>4. CASE task # "TOKEN" /\ Move /\ leaving' = leaving
  <2>1. held' \in [Addresses -> Nat] /\ CurrentIsDone
    BY <1>1, <1>4, MoveFacts
  <2>2. /\ fuel' \in [Addresses -> Nat]
        /\ task = "ETH" => \A a \in Addresses : fuel'[a] = 0
        /\ task = "TOKEN" => \A a \in Addresses :
             flying'[a] <= stray /\ fuel'[a] + flying'[a] <= 1 + stray
        /\ task = "USDT" => \A a \in Addresses : fuel'[a] <= stray
    BY <1>1, <1>4, UseFacts DEF Move
  <2>3. Types'
    BY <1>1, <1>2, <1>4, <2>1, <2>2, ThreadTypes DEF GatherInv, Types
  <2>4. InFlight'
    BY <1>1, <1>3, <1>4 DEF GatherInv, InFlight
  <2>5. /\ ThreadShape' /\ ReadIsHeld' /\ SavedIsSent' /\ SentIsLow' /\ Ahead'
        /\ thread'.at # "send"
    <3>1. leaving' \in [Addresses -> Nat]
      BY <2>3 DEF Types
    <3>. QED BY <1>1, <2>1, <3>1, FailureStep
  <2>6. FuelServes'
    BY <1>1, <1>3, <2>2, <2>5, FuelUsed
  <2>. QED BY <2>3, <2>4, <2>5, <2>6 DEF GatherInv
<1>5. CASE /\ task = "TOKEN" /\ held' = held /\ fuel' = fuel
           /\ leaving' = [leaving EXCEPT ![Current] = thread.amount]
  <2>1. PICK b \in Addresses : b = Current
    BY <1>1, MovingFacts DEF InRecord
  <2>2. PICK n \in Nat : n = thread.amount
    BY <1>1, MovingFacts DEF InRecord
  <2>3. /\ held \in [Addresses -> Nat] /\ leaving \in [Addresses -> Nat]
        /\ fuel \in [Addresses -> Nat] /\ GatherMin \in Nat /\ GatherMin > 0
    BY GatherAssumption DEF GatherInv, Types
  <2>4. /\ leaving' \in [Addresses -> Nat] /\ leaving'[b] = n
        /\ \A a \in Addresses : a # b => leaving'[a] = leaving[a]
    BY <1>5, <2>1, <2>2, <2>3
  <2>5. n <= held[b] /\ leaving[b] = 0 /\ fuel[b] > 0
    BY <1>1, <1>5, <2>1, <2>2 DEF Covered, Fuelled
  <2>6. CurrentIsDone
    <3>1. b \notin missed => held[b] - 0 <= n
      BY <1>1, <2>1, <2>2, <2>5 DEF GatherInv, ReadIsHeld, Waiting
    <3>2. b \notin missed => held'[b] - leaving'[b] < GatherMin
      BY <1>5, <2>3, <2>4, <3>1
    <3>. QED BY <1>1, <1>5, <2>1, <2>4, <3>2 DEF CurrentIsDone, Waiting
  <2>7. Types'
    BY <1>1, <1>2, <1>5, <2>4, ThreadTypes DEF GatherInv, Types
  <2>8. InFlight'
    <3>1. ASSUME NEW a \in Addresses, leaving'[a] > 0
          PROVE  leaving'[a] <= held'[a] /\ fuel'[a] > 0
      <4>1. CASE a = b
        BY <1>5, <2>4, <2>5, <4>1
      <4>2. CASE a # b
        BY <1>5, <2>4, <3>1, <4>2 DEF GatherInv, InFlight
      <4>. QED BY <4>1, <4>2
    <3>. QED BY <1>3, <1>5, <3>1 DEF InFlight
  <2>9. /\ ThreadShape' /\ ReadIsHeld' /\ SavedIsSent' /\ SentIsLow' /\ Ahead'
        /\ thread'.at # "send"
    <3>1. held' \in [Addresses -> Nat]
      BY <1>5, <2>3
    <3>. QED BY <1>1, <2>4, <2>6, <3>1, FailureStep
  <2>10. FuelServes'
    BY <1>1, <1>3, <1>5 DEF GatherInv, FuelServes
  <2>. QED BY <2>7, <2>8, <2>9, <2>10 DEF GatherInv
<1>. QED BY <1>1, <1>4, <1>5

LEMMA SendDroppedInv == GatherInv /\ sendDropped => GatherInv'
<1>. SUFFICES ASSUME GatherInv, sendDropped PROVE GatherInv'
  OBVIOUS
<1>1. /\ ThreadStep /\ NoMove /\ NoFuel /\ lastRecvId' = lastRecvId
      /\ missed' = missed \cup {Current} /\ Fail /\ Unused /\ thread.at = "send"
      /\ thread' = Moving("save", thread.lastId, thread.sent \cup {Current}, thread.amount)
  BY DEF sendDropped, Sent, ThreadStep, NoMove, NoFuel, world
<1>2. Current \in Addresses /\ stray \in Nat
  <2>1. Current \in Addresses
    BY <1>1, MovingFacts DEF InRecord
  <2>. QED BY <2>1 DEF GatherInv, Types
<1>3. missed' \subseteq Addresses /\ stray' \in stray .. stray + 1
  BY <1>1, <1>2 DEF GatherInv, Types, Unused
<1>4. Types' /\ InFlight'
  <2>1. lastRecvId' \in 0 .. Len(records)
    BY <1>1 DEF GatherInv, Types
  <2>. QED BY <1>1, <1>3, <2>1, NothingMoves
<1>5. /\ ThreadShape' /\ ReadIsHeld' /\ SavedIsSent'
      /\ thread'.at = "save" /\ thread'.sent = thread.sent \cup {Current}
      /\ Passed' = thread.lastId /\ thread.lastId \in Nat
  BY <1>1, ToSave
<1>6. CurrentIsDone
  BY <1>1 DEF CurrentIsDone, NoMove, Waiting
<1>7. SentIsLow'
  <2>1. \A a \in thread.sent \cup {Current} : a \notin missed' => Waiting(a)' < GatherMin
    BY <1>1, <1>6, DoneLow
  <2>. QED BY <1>5, <2>1 DEF SentIsLow
<1>8. Ahead'
  <2>1. held' \in [Addresses -> Nat] /\ leaving' \in [Addresses -> Nat]
    BY <1>4 DEF Types
  <2>. QED BY <1>1, <1>5, <1>6, <2>1, DoneAhead, ThreadAhead
<1>9. FuelServes'
  <2>1. /\ task = "USDT" => fuel[Current] = 0 \/ stray' = stray + 1
        /\ task' = task /\ thread'.at # "send"
    BY <1>1, <1>5 DEF Unused, ThreadStep
  <2>. QED BY <1>1, <1>3, <2>1, FuelLeft
<1>. QED BY <1>4, <1>5, <1>7, <1>8, <1>9 DEF GatherInv

-----------------------------------------------------------------------------
(***************************************************************************)
(* The chain, the scanner and the death of the process.                    *)
(***************************************************************************)

\* The payments that are not recorded, when those of one address change.
LEMMA UnrecordedChange ==
  ASSUME NEW a \in Addresses, NEW v \in [Addresses -> Nat], GatherInv,
         \A b \in Addresses : b # a => v[b] = unrecorded[b]
  PROVE  /\ SumFunctionOnSet(unrecorded, Addresses) \in Nat
         /\ SumFunctionOnSet(v, Addresses) =
              SumFunctionOnSet(unrecorded, Addresses) - unrecorded[a] + v[a]
<1>1. PICK w \in [Addresses -> Nat] : w = unrecorded
  BY DEF GatherInv, Types
<1>2. /\ IsFiniteSet(Addresses) /\ a \in Addresses
      /\ \A b \in Addresses : w[b] \in Int
      /\ v[a] \in Int
      /\ \A b \in Addresses : b # a => v[b] = w[b]
      /\ \A b \in Addresses : w[b] \in Nat
  BY <1>1, GatherAssumption
<1>3. SumFunctionOnSet(v, Addresses) = SumFunctionOnSet(w, Addresses) - w[a] + v[a]
  BY ONLY <1>2, SumUpdate
<1>4. SumFunctionOnSet(w, Addresses) \in Nat
  BY ONLY <1>2, SumNatural
<1>. QED BY <1>1, <1>3, <1>4

LEMMA PayInv ==
  ASSUME NEW a \in Addresses, NEW n \in Amounts, GatherInv, Pay(a, n)
  PROVE  GatherInv'
<1>1. /\ task' = task /\ fuel' = fuel /\ flying' = flying /\ leaving' = leaving
      /\ records' = records /\ lastRecvId' = lastRecvId
      /\ thread' = thread /\ stray' = stray /\ faults' = faults
      /\ held' = [held EXCEPT ![a] = held[a] + n]
      /\ unrecorded' = [unrecorded EXCEPT ![a] = unrecorded[a] + 1]
      /\ missed' = IF a \in Finished THEN missed \cup {a} ELSE missed
      /\ Payments < MaxRecords
  BY DEF Pay, Payments
<1>2. /\ held \in [Addresses -> Nat] /\ unrecorded \in [Addresses -> Nat]
      /\ n \in Nat /\ Len(records) \in Nat /\ IsFiniteSet(Addresses)
  BY GatherAssumption DEF GatherInv, Types
<1>3. /\ Passed' = Passed /\ Current' = Current
  BY <1>1 DEF Passed, Current
<1>4. Types'
  <2>1. /\ unrecorded' \in [Addresses -> Nat] /\ unrecorded[a] \in Nat
        /\ \A b \in Addresses : b # a => unrecorded'[b] = unrecorded[b]
        /\ unrecorded'[a] = unrecorded[a] + 1
    BY <1>1, <1>2
  <2>2. PICK v \in [Addresses -> Nat] :
          /\ v = unrecorded' /\ v[a] = unrecorded[a] + 1
          /\ \A b \in Addresses : b # a => v[b] = unrecorded[b]
    BY <2>1
  <2>3. /\ SumFunctionOnSet(unrecorded, Addresses) \in Nat
        /\ SumFunctionOnSet(unrecorded', Addresses) =
             SumFunctionOnSet(unrecorded, Addresses) + 1
    <3>1. /\ SumFunctionOnSet(unrecorded, Addresses) \in Nat
          /\ SumFunctionOnSet(v, Addresses) =
               SumFunctionOnSet(unrecorded, Addresses) - unrecorded[a] + v[a]
      BY <2>2, UnrecordedChange
    <3>2. SumFunctionOnSet(unrecorded', Addresses) = SumFunctionOnSet(v, Addresses)
      BY <2>2
    <3>3. unrecorded[a] \in Nat /\ v[a] = unrecorded[a] + 1
      BY <2>1, <2>2
    <3>. QED BY <3>1, <3>2, <3>3
  <2>4. Payments' <= MaxRecords
    <3>1. /\ Payments = Len(records) + SumFunctionOnSet(unrecorded, Addresses)
          /\ Payments' = Len(records) + SumFunctionOnSet(unrecorded', Addresses)
      BY <1>1 DEF Payments
    <3>2. Payments' = Payments + 1
      BY <1>2, <2>3, <3>1
    <3>3. Payments \in Nat
      BY <1>2, <2>3, <3>1
    <3>4. MaxRecords \in Nat /\ Payments < MaxRecords
      BY <1>1, GatherAssumption
    <3>. QED BY <3>2, <3>3, <3>4
  <2>5. /\ held' \in [Addresses -> Nat] /\ unrecorded' \in [Addresses -> Nat]
        /\ missed' \subseteq Addresses
    BY <1>1, <1>2 DEF GatherInv, Types
  <2>. QED BY <1>1, <2>4, <2>5 DEF GatherInv, Types
<1>5. ThreadShape' /\ SavedIsSent'
  BY <1>1, <1>3 DEF GatherInv, ThreadShape, SavedIsSent
<1>6. ASSUME NEW b \in Addresses
      PROVE  /\ held[b] \in Nat /\ held'[b] \in Nat /\ held[b] <= held'[b]
             /\ b # a => Waiting(b)' = Waiting(b) /\ unrecorded'[b] = unrecorded[b]
             /\ b = a => unrecorded'[b] # 0
             /\ b \notin missed' => b \notin missed /\ ~(b = a /\ a \in Finished)
  BY <1>1, <1>2 DEF Waiting
<1>7. ReadIsHeld'
  <2>. SUFFICES ASSUME thread.at \in {"fuel", "send"}
                PROVE  /\ task # "TOKEN" => thread.amount <= held'[Current]
                       /\ Current \notin missed'
                            => held'[Current] - leaving'[Current] <= thread.amount
    BY <1>1, <1>3 DEF ReadIsHeld, Waiting
  <2>1. PICK b \in Addresses : b = Current
    BY MovingFacts DEF InRecord
  <2>2. /\ task # "TOKEN" => thread.amount <= held[b]
        /\ b \notin missed => Waiting(b) <= thread.amount
    BY <2>1 DEF GatherInv, ReadIsHeld
  <2>3. b \in Finished
    BY <2>1 DEF Finished, Current
  <2>4. thread.amount \in Nat
    BY MovingFacts DEF InRecord
  <2>5. Waiting(b)' = held'[b] - leaving'[b]
    BY DEF Waiting
  <2>6. task # "TOKEN" => thread.amount <= held'[b]
    BY <1>6, <2>2, <2>4
  <2>7. b \notin missed' => Waiting(b)' <= thread.amount
    BY <1>6, <2>2, <2>3
  <2>. QED BY <2>1, <2>5, <2>6, <2>7
<1>8. SentIsLow'
  <2>. SUFFICES ASSUME thread.at \in InRecord \cup {"gathering"},
                       NEW b \in thread.sent, b \notin missed'
                PROVE  Waiting(b)' < GatherMin
    BY <1>1 DEF SentIsLow
  <2>1. b \in Addresses
    BY WalkFacts, MovingFacts
  <2>2. b \in Finished
    BY DEF Finished, InRecord
  <2>. QED BY <1>6, <2>1, <2>2 DEF GatherInv, SentIsLow
<1>9. Ahead'
  <2>. SUFFICES ASSUME NEW b \in Addresses,
                       Waiting(b)' >= GatherMin, unrecorded'[b] = 0, b \notin missed'
                PROVE  \E i \in Passed + 1 .. Len(records) : records[i] = b
    BY <1>1, <1>3 DEF Ahead
  <2>1. b # a /\ b \notin missed
    BY <1>6
  <2>. QED BY <1>6, <2>1 DEF GatherInv, Ahead
<1>10. FuelServes'
  BY <1>1, <1>3 DEF GatherInv, FuelServes
<1>11. InFlight'
  <2>1. ASSUME NEW b \in Addresses, leaving[b] > 0 PROVE leaving[b] <= held'[b] /\ fuel[b] > 0
    <3>1. leaving[b] <= held[b] /\ fuel[b] > 0 /\ leaving[b] \in Nat
      BY <2>1 DEF GatherInv, InFlight, Types
    <3>. QED BY <1>6, <3>1
  <2>. QED BY <1>1, <2>1 DEF GatherInv, InFlight
<1>. QED BY <1>4, <1>5, <1>7, <1>8, <1>9, <1>10, <1>11 DEF GatherInv

\* A record is added behind all places that were passed.
LEMMA RecordInv == ASSUME NEW a \in Addresses, GatherInv, Record(a) PROVE GatherInv'
<1>1. /\ task' = task /\ held' = held /\ fuel' = fuel /\ flying' = flying
      /\ leaving' = leaving /\ lastRecvId' = lastRecvId
      /\ thread' = thread /\ missed' = missed /\ stray' = stray /\ faults' = faults
      /\ unrecorded' = [unrecorded EXCEPT ![a] = unrecorded[a] - 1]
      /\ records' = Append(records, a) /\ unrecorded[a] > 0
  BY DEF Record
<1>2. PICK len \in Nat : len = Len(records)
  BY RecordFacts DEF GatherInv
<1>3. /\ unrecorded \in [Addresses -> Nat] /\ IsFiniteSet(Addresses)
      /\ records \in Seq(Addresses) /\ lastRecvId \in 0 .. len
  BY <1>2, GatherAssumption DEF GatherInv, Types
<1>4. /\ records' \in Seq(Addresses) /\ Len(records') = len + 1
      /\ records'[len + 1] = a
      /\ \A i \in 1 .. len : records'[i] = records[i]
  BY <1>1, <1>2, <1>3
<1>5. Types'
  <2>1. /\ unrecorded' \in [Addresses -> Nat] /\ unrecorded[a] \in Nat
        /\ \A b \in Addresses : b # a => unrecorded'[b] = unrecorded[b]
        /\ unrecorded'[a] = unrecorded[a] - 1
    BY <1>1, <1>3
  <2>2. PICK v \in [Addresses -> Nat] :
          /\ v = unrecorded' /\ v[a] = unrecorded[a] - 1
          /\ \A b \in Addresses : b # a => v[b] = unrecorded[b]
    BY <2>1
  <2>3. /\ SumFunctionOnSet(unrecorded, Addresses) \in Nat
        /\ SumFunctionOnSet(unrecorded', Addresses) =
             SumFunctionOnSet(unrecorded, Addresses) - 1
    <3>1. /\ SumFunctionOnSet(unrecorded, Addresses) \in Nat
          /\ SumFunctionOnSet(v, Addresses) =
               SumFunctionOnSet(unrecorded, Addresses) - unrecorded[a] + v[a]
      BY <2>2, UnrecordedChange
    <3>2. SumFunctionOnSet(unrecorded', Addresses) = SumFunctionOnSet(v, Addresses)
      BY <2>2
    <3>3. unrecorded[a] \in Nat /\ v[a] = unrecorded[a] - 1
      BY <2>1, <2>2
    <3>. QED BY <3>1, <3>2, <3>3
  <2>4. Payments' = Payments
    <3>1. /\ Payments = Len(records) + SumFunctionOnSet(unrecorded, Addresses)
          /\ Payments' = Len(records') + SumFunctionOnSet(unrecorded', Addresses)
      BY DEF Payments
    <3>2. Len(records) = len /\ Len(records') = len + 1 /\ len \in Nat
      BY <1>2, <1>4
    <3>. QED BY <2>3, <3>1, <3>2
  <2>5. unrecorded' \in [Addresses -> Nat]
    BY <1>1, <1>3
  <2>6. lastRecvId' \in 0 .. Len(records')
    BY <1>1, <1>3, <1>4
  <2>. QED BY <1>1, <1>4, <2>4, <2>5, <2>6 DEF GatherInv, Types
<1>6. ThreadShape'
  <2>1. \A i : /\ i \in lastRecvId .. len => i \in lastRecvId' .. Len(records')
               /\ i \in lastRecvId + 1 .. len => i \in lastRecvId' + 1 .. Len(records')
    BY <1>1, <1>3, <1>4
  <2>. QED BY <1>1, <1>2, <2>1 DEF GatherInv, ThreadShape
<1>7. thread.at \in InRecord => Current' = Current
  <2>1. thread.at \in InRecord => thread.lastId \in 1 .. len
    BY <1>2, MovingFacts
  <2>. QED BY <1>1, <1>4, <2>1 DEF Current
<1>8. Passed' = Passed
  BY <1>1 DEF Passed
<1>9. ReadIsHeld' /\ SentIsLow' /\ SavedIsSent' /\ InFlight'
  BY <1>1, <1>7 DEF GatherInv, ReadIsHeld, SentIsLow, SavedIsSent, InFlight, InRecord, Waiting
<1>10. Ahead'
  <2>. SUFFICES ASSUME NEW b \in Addresses,
                       Waiting(b) >= GatherMin, unrecorded'[b] = 0, b \notin missed
                PROVE  \E i \in Passed + 1 .. len + 1 : records'[i] = b
    BY <1>1, <1>4, <1>8 DEF Ahead, Waiting
  <2>1. Passed \in Nat /\ Passed <= len
    BY <1>2, PassedFacts
  <2>2. CASE b = a
    BY <1>4, <2>1, <2>2
  <2>3. CASE b # a
    <3>1. unrecorded[b] = 0
      BY <1>1, <1>3, <2>3
    <3>2. PICK i \in Passed + 1 .. len : records[i] = b
      BY <1>2, <3>1 DEF GatherInv, Ahead
    <3>3. i \in 1 .. len /\ i \in Passed + 1 .. len + 1
      BY <2>1
    <3>. QED BY <1>4, <3>2, <3>3
  <2>. QED BY <2>2, <2>3
<1>11. FuelServes'
  <2>1. thread.at = "send" => Current' = Current
    BY <1>7 DEF InRecord
  <2>. QED BY <1>1, <2>1 DEF GatherInv, FuelServes
<1>. QED BY <1>5, <1>6, <1>9, <1>10, <1>11 DEF GatherInv

\* A piece of fuel is on chain and no longer on its way.
LEMMA FuelArrivesInv ==
  ASSUME NEW a \in Addresses, GatherInv, FuelArrives(a) PROVE GatherInv'
<1>1. /\ task' = task /\ held' = held /\ leaving' = leaving /\ unrecorded' = unrecorded
      /\ records' = records /\ lastRecvId' = lastRecvId /\ thread' = thread
      /\ missed' = missed /\ stray' = stray /\ faults' = faults
      /\ flying' = [flying EXCEPT ![a] = flying[a] - 1]
      /\ fuel' = [fuel EXCEPT ![a] = fuel[a] + 1] /\ flying[a] > 0
  BY DEF FuelArrives
<1>2. /\ fuel \in [Addresses -> Nat] /\ flying \in [Addresses -> Nat] /\ stray \in Nat
      /\ \A b \in Addresses : fuel[b] \in Nat /\ flying[b] \in Nat
  BY DEF GatherInv, Types
<1>3. task = "TOKEN"
  BY <1>1, <1>2 DEF GatherInv, InFlight, Types, Tasks
<1>4. /\ fuel' \in [Addresses -> Nat] /\ flying' \in [Addresses -> Nat]
      /\ \A b \in Addresses : /\ fuel[b] > 0 => fuel'[b] > 0
                              /\ flying'[b] <= flying[b]
                              /\ fuel'[b] + flying'[b] = fuel[b] + flying[b]
  BY <1>1, <1>2
<1>5. Types'
  <2>1. Payments' = Payments
    BY <1>1 DEF Payments
  <2>. QED BY <1>1, <1>4, <2>1 DEF GatherInv, Types
<1>6. InFlight'
  BY <1>1, <1>3, <1>4 DEF GatherInv, InFlight
<1>7. FuelServes'
  <2>1. ASSUME NEW b \in Addresses
        PROVE  flying'[b] <= stray /\ fuel'[b] + flying'[b] <= 1 + stray
    <3>1. flying[b] <= stray /\ fuel[b] + flying[b] <= 1 + stray
      BY <1>3 DEF GatherInv, FuelServes
    <3>2. flying'[b] \in Nat
      BY <1>4
    <3>. QED BY <1>2, <1>4, <3>1, <3>2
  <2>. QED BY <1>1, <1>3, <2>1 DEF FuelServes
<1>8. Passed' = Passed /\ Current' = Current
  BY <1>1 DEF Passed, Current
<1>9. ThreadShape' /\ ReadIsHeld' /\ SentIsLow' /\ SavedIsSent' /\ Ahead'
  BY <1>1, <1>8 DEF GatherInv, ThreadShape, ReadIsHeld, SentIsLow, SavedIsSent, Ahead, Waiting
<1>. QED BY <1>5, <1>6, <1>7, <1>9 DEF GatherInv

\* Tokens that were on their way are gone: as much is waiting as before.
LEMMA TokensLeaveInv ==
  ASSUME NEW a \in Addresses, GatherInv, TokensLeave(a) PROVE GatherInv'
<1>1. /\ task' = task /\ flying' = flying /\ unrecorded' = unrecorded
      /\ records' = records /\ lastRecvId' = lastRecvId /\ thread' = thread
      /\ missed' = missed /\ stray' = stray /\ faults' = faults
      /\ held' = [held EXCEPT ![a] = held[a] - leaving[a]]
      /\ fuel' = [fuel EXCEPT ![a] = fuel[a] - 1]
      /\ leaving' = [leaving EXCEPT ![a] = 0] /\ leaving[a] > 0
  BY DEF TokensLeave
<1>2. /\ fuel \in [Addresses -> Nat] /\ held \in [Addresses -> Nat]
      /\ leaving \in [Addresses -> Nat] /\ stray \in Nat
      /\ \A b \in Addresses : /\ fuel[b] \in Nat /\ flying[b] \in Nat
                              /\ held[b] \in Nat /\ leaving[b] \in Nat
  BY DEF GatherInv, Types
<1>3. task = "TOKEN" /\ leaving[a] <= held[a] /\ fuel[a] > 0
  BY <1>1, <1>2 DEF GatherInv, InFlight, Types, Tasks
<1>4. /\ fuel' \in [Addresses -> Nat] /\ held' \in [Addresses -> Nat]
      /\ leaving' \in [Addresses -> Nat]
      /\ \A b \in Addresses :
           /\ fuel'[b] <= fuel[b] /\ fuel'[b] \in Nat
           /\ held'[b] - leaving'[b] = held[b] - leaving[b]
           /\ leaving'[b] > 0 =>
                /\ leaving'[b] = leaving[b] /\ held'[b] = held[b] /\ fuel'[b] = fuel[b]
  BY <1>1, <1>2, <1>3
<1>5. \A b \in Addresses : Waiting(b)' = Waiting(b)
  BY <1>4 DEF Waiting
<1>6. Types'
  <2>1. Payments' = Payments
    BY <1>1 DEF Payments
  <2>. QED BY <1>1, <1>4, <2>1 DEF GatherInv, Types
<1>7. InFlight'
  BY <1>1, <1>3, <1>4 DEF GatherInv, InFlight
<1>8. FuelServes'
  <2>1. ASSUME NEW b \in Addresses
        PROVE  flying[b] <= stray /\ fuel'[b] + flying[b] <= 1 + stray
    <3>1. flying[b] <= stray /\ fuel[b] + flying[b] <= 1 + stray
      BY <1>3 DEF GatherInv, FuelServes
    <3>. QED BY <1>2, <1>4, <3>1
  <2>. QED BY <1>1, <1>3, <2>1 DEF FuelServes
<1>9. Passed' = Passed /\ Current' = Current
  BY <1>1 DEF Passed, Current
<1>10. ReadIsHeld'
  <2>. SUFFICES ASSUME thread.at \in {"fuel", "send"}, Current \notin missed
                PROVE  held'[Current] - leaving'[Current] <= thread.amount
    BY <1>1, <1>3, <1>9 DEF ReadIsHeld, Waiting
  <2>1. Current \in Addresses
    BY MovingFacts DEF InRecord
  <2>2. held[Current] - leaving[Current] <= thread.amount
    BY DEF GatherInv, ReadIsHeld, Waiting
  <2>. QED BY <1>4, <2>1, <2>2
<1>11. ThreadShape' /\ SavedIsSent' /\ Ahead'
  BY <1>1, <1>5, <1>9 DEF GatherInv, ThreadShape, SavedIsSent, Ahead
<1>12. SentIsLow'
  <2>1. thread.at \in InRecord \cup {"gathering"} => thread.sent \subseteq Addresses
    BY WalkFacts, MovingFacts
  <2>. QED BY <1>1, <1>5, <2>1 DEF GatherInv, SentIsLow
<1>. QED BY <1>6, <1>7, <1>8, <1>10, <1>11, <1>12 DEF GatherInv

\* The next run starts behind the cursor again.
LEMMA CrashInv == GatherInv /\ GatherCrash => GatherInv'
<1>. SUFFICES ASSUME GatherInv, GatherCrash PROVE GatherInv'
  OBVIOUS
<1>1. /\ ThreadStep /\ NoMove /\ NoFuel /\ lastRecvId' = lastRecvId
      /\ missed' = missed /\ Fail /\ thread' = AtRest
      /\ stray' = IF task = "USDT" /\ thread.at = "send" THEN stray + 1 ELSE stray
  BY DEF GatherCrash, ThreadStep, NoMove, NoFuel, world
<1>2. stray \in Nat /\ stray' \in stray .. stray + 1
  BY <1>1, ConstantFacts DEF GatherInv
<1>3. Types' /\ InFlight'
  <2>1. lastRecvId' \in 0 .. Len(records) /\ missed' \subseteq Addresses
    BY <1>1 DEF GatherInv, Types
  <2>. QED BY <1>1, <1>2, <2>1, NothingMoves
<1>4. /\ ThreadShape' /\ ReadIsHeld' /\ SentIsLow' /\ SavedIsSent' /\ thread'.at = "rest"
      /\ Passed' = lastRecvId
  BY <1>1, ToRest
<1>5. lastRecvId \in Nat /\ lastRecvId <= Passed
  BY RecordFacts, PassedFacts DEF GatherInv
<1>6. Ahead'
  BY <1>1, <1>4, <1>5, NothingRead
<1>7. CASE thread.at = "send"
  <2>1. /\ task = "USDT" => fuel[Current] = 0 \/ stray' = stray + 1
        /\ task' = task /\ thread'.at # "send"
    BY <1>1, <1>4, <1>7 DEF ThreadStep
  <2>2. FuelServes'
    BY <1>1, <1>2, <1>7, <2>1, FuelLeft
  <2>. QED BY <1>3, <1>4, <1>6, <2>2 DEF GatherInv
<1>8. CASE thread.at # "send"
  <2>1. FuelServes'
    BY <1>1, <1>4, <1>8, SameFuel DEF ThreadStep
  <2>. QED BY <1>3, <1>4, <1>6, <2>1 DEF GatherInv
<1>. QED BY <1>7, <1>8

-----------------------------------------------------------------------------
(***************************************************************************)
(* The theorems.                                                           *)
(***************************************************************************)

LEMMA GatherNextInv == GatherInv /\ [GatherNext]_gatherVars => GatherInv'
<1>. SUFFICES ASSUME GatherInv, [GatherNext]_gatherVars PROVE GatherInv'
  OBVIOUS
<1>1. CASE Timer
  BY <1>1, TimerInv
<1>2. CASE Walk
  BY <1>2, PassFuelInv, SendFuelInv, FailFuelInv, EndFuelInv, PassSentInv, PassLowInv,
     CheckBalanceInv, SendBtcInv, SendInv, SendInVainInv, SendRefusedInv, SendUnansweredInv,
     SendDroppedInv, SaveInv, EndGatherInv DEF Walk
<1>3. ASSUME NEW a \in Addresses, Record(a) PROVE GatherInv'
  BY <1>3, RecordInv
<1>4. ASSUME NEW a \in Addresses, NEW n \in Amounts, Pay(a, n) PROVE GatherInv'
  BY <1>4, PayInv
<1>5. CASE GatherCrash
  BY <1>5, CrashInv
<1>6. ASSUME NEW a \in Addresses, FuelArrives(a) PROVE GatherInv'
  BY <1>6, FuelArrivesInv
<1>7. ASSUME NEW a \in Addresses, TokensLeave(a) PROVE GatherInv'
  BY <1>7, TokensLeaveInv
<1>8. CASE UNCHANGED gatherVars
  <2>1. /\ task' = task /\ held' = held /\ fuel' = fuel /\ flying' = flying
        /\ leaving' = leaving /\ unrecorded' = unrecorded
        /\ records' = records /\ lastRecvId' = lastRecvId /\ thread' = thread /\ missed' = missed
        /\ stray' = stray /\ faults' = faults
    BY <1>8 DEF gatherVars
  <2>2. Passed' = Passed /\ Current' = Current /\ Payments' = Payments
    BY <2>1 DEF Passed, Current, Payments
  <2>3. Types' /\ ThreadShape' /\ ReadIsHeld'
    BY <2>1, <2>2 DEF GatherInv, Types, ThreadShape, ReadIsHeld, Waiting
  <2>4. SentIsLow' /\ SavedIsSent' /\ Ahead' /\ FuelServes' /\ InFlight'
    BY <2>1, <2>2 DEF GatherInv, SentIsLow, SavedIsSent, Ahead, FuelServes, InFlight, Waiting
  <2>. QED BY <2>3, <2>4 DEF GatherInv
<1>. QED BY <1>1, <1>2, <1>3, <1>4, <1>5, <1>6, <1>7, <1>8 DEF GatherNext

LEMMA GatherSpecInv == GatherSpec => []GatherInv
BY GatherInitInv, GatherNextInv, PTL DEF GatherSpec

\* The state of the tasks is well formed: a thread is never behind the cursor or
\* beyond the last record, and what a failed call sent from an address is still
\* there, with the fuel for it, until it leaves (GatherEthTask, GatherTokenTask,
\* GatherUsdtTask).
THEOREM GatherTypeCorrect == GatherSpec => []GatherTypeOK
BY GatherSpecInv, GatherInvImplies, PTL

\* Whatever transfers are refused or unanswered, and whenever the process dies,
\* gather.last.recv.id passes no address that is worth gathering, but for the
\* exceptions the code makes (GatherEthTask, GatherTokenTask, GatherUsdtTask).
THEOREM OverlookedCorrect == GatherSpec => []NothingOverlooked
BY GatherSpecInv, GatherInvImplies, PTL

\* However late fuel gets on chain, an address is given a second piece only after
\* a failure that kept the task from seeing or using the first (gatherOneToken,
\* GatherUsdtTask).
THEOREM FuelCorrect == GatherSpec => []FuelIsNotPiledUp
BY GatherSpecInv, GatherInvImplies, PTL
=============================================================================
